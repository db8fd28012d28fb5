# A TLA+ model of Kekkai Runtime

Kekkai Runtime (`kekkai-rt`) is an HTTP server that owns one container (`runc`
or `runsc`), runs commands in it on behalf of clients and streams their output.
This directory holds TLA+ specifications of its parts, the TLC configurations
that check them on small instances, and TLAPS proofs of their main properties
for instances of every size. `PROJECT.json` lists the runs, the source lines of
every definition, the hazards the properties are for, and the theorems.

## The system

| Component | State | Operations | Interacts with |
|---|---|---|---|
| Task store (`runtime/tasks`) | two locked maps (tasks, cancellation senders), an atomic counter of leases with its `Notify`, the cleanup task | `create`, `cancel`, `clear_cancellation`, `publish`, `snapshot`, `subscribe`, `cleanup`, `wait_for_idle`, `shutdown_cleanup` | handlers, runners, readers, cleanup loop, shutdown: all concurrently |
| Execution service (`runtime/execution`) | one runner per task, two output readers, a timeout, a child | `submit`, `run_task`, `spawn_output_reader`, `await_output`, `shutdown` | store, sandbox |
| Execution API (`api/exec.rs`) | the SSE streams | `create`, `snapshot`, `cancel`, `events` | execution service |
| Server (`application.rs`, `api/mod.rs`) | serving, draining, closed | `run_server`, `shutdown_signal` | everything |
| Sandbox lifecycle (`runtime/lifecycle.rs`, `session.rs`, `container.rs`, `process.rs`, `instance.rs`) | lock file, foreground runtime, container, session | `start`, `wait_until_running`, `shutdown` | network, proxy, container runtime, other server processes |
| Network (`runtime/network.rs`, `network_ops`) | bridge, nftables rules, veth, namespace | `prepare`, `configure`, `cleanup` | kernel, other instances |
| Tool proxy (`proxy`) | socket, accept loop, connections, tool processes | `start`, `accept_loop`, `handle_connection`, `shutdown` | programs in the container, host tools |
| Workspace API (`api/workspace*.rs`) | files | list, read, `put`, delete | file system |
| Maintenance (`maintenance`) | sysroot, its identity marker, configuration | `init`, `check`, `fix`, `shell` | file system |
| Configuration, host capabilities (`config`, `runtime/host`) | none | parsing, validation, feature resolution | |
| SDKs (`sdks/node`, `sdks/dotnet`, `sdks/proxy`) | a client's stream | submit, wait, SSE parsing, tool frames | the HTTP API, the tool proxy |

What is hard in it: a task is touched by its runner, two readers, any number of
handlers (which are dropped at an `await` when their client leaves), the cleanup
loop and shutdown; results outlive tasks but not for ever; clients read a bounded
broadcast channel at their own speed; a child may ignore its input, leave
processes behind, or exit while it is being cancelled or timed out; a tool, its
client and five tasks of the proxy wait for each other over pipes and one socket; start-up has
many steps that each can fail, and its resources have names that the next process
uses again; instances share one nftables table with each other and with other
programs; workspace handlers and maintenance commands work on file trees that
nothing locks, one call at a time, and are killed or dropped between two calls. What makes each part correct is stated as the properties below.

## Modules

`TaskHistory` is the abstract event log: a task is inserted once, its log opens
with `started`, grows at its end only while the task is stored, and ends with its
terminal event.

`GracefulShutdown` is the abstract view of stopping: requests in flight, the lease
of each runner, the active counter and its `Notify`, the cleanup loop and the
sequence `wait_for_idle`, `shutdown_cleanup`, `sandbox.shutdown`.

`TaskExecution` is the execution service in detail. Its steps are the critical
sections of the two `RwLock`s, the atomic operations on the counter and the
stretches of code between two awaits. `runner` says where `run_task` is
(`spawned`, `exec`, `stdin`, `wait`, `killing`, `reaping`, `drain`, `clear`, then
the drop of the lease: `drop`, `notify`, `done`). `rxOpen` and `cancellations` are
the two ends of the oneshot channel: the receiver resolves as soon as the sender
is out of the map, sent or dropped. `cleanup` is two steps, because it reads `now`
before it waits for the lock. The child, its descendants and its pipes are
external. It implements both abstract specifications: `HistorySpec` with the
variables of the same names, `ImplementsShutdown` with handlers and runners
collapsed by `PostPhase` and `LeasePhase`.

`EventStream` composes `TaskHistory` with the subscribers of one task: the cloned
history, and tokio's broadcast channel as a ring of slots in which a receiver
finds its position, an earlier one or a later one (`Lagged`).

`SandboxLifecycle` is one bundle directory, the processes started on it and the
resources they put on the host, each tagged with its creator: `start` with its
error paths, `run_server` around it, `ContainerSession::shutdown`, crashes, and
restarts with other configurations.

`ToolProxy` is the proxy of host tools: the accept loop, the task of each
connection with its three forwarding tasks and its tool, `shutdown` with its
two-second deadline, and the Go client at the other end of the socket. Each
alternative of a `select!` is an action; `pc` says where `handle_connection` is.
`heard` are the connections whose `notified()` the one `notify_waiters` has made
ready: a connection outside of `select!` at that moment misses it, as in the code.
A tool has a leader, descendants in its process group or outside of it, and pipe
ends that stay open while any of them lives; all of that is external. A client is
the Go program, which may be killed at any time, or a program that breaks the
protocol (`rogue`). An EXIT frame is represented by its code.

`Subnet` is the address arithmetic of the configuration, with the masks of a
fixed-width word and a bitwise "and" (the word whose bits are the products of the
bits), next to reference definitions by blocks of addresses.

`NftRules` composes it with `install_nft_rules`: several servers start at once,
each reads the ruleset in up to five dumps, decides with `should_add_rule`, reads the
generation id and sends one batch; the kernel, external, refuses a batch whose
generation is old or whose objects exist; other programs change, flush or delete the
table. `view` is what the dumps of the current attempt showed, `attempt` the loop
variable of the retries. Rules keep the bridge and masked subnet they match, and
whether they carry the user data by which later versions recognise them. The constant
`Found` says which rulesets the host may hold at first: none, stamped or old rules, or
emptied chains.

`Sysroot` is the directory on which `init` and `fix` work: the tree with its owners,
`config.toml`, the marker, the range the host gives. A step is one call on the file
system, one entry of a layer (`ApplyEntry`) or one entry of a walk. Commands run side by side; each may fail or be killed
after any step. Between commands the operator adds a mount, changes the range or
removes the sysroot. The ghosts are the owner each path was created with (`orig`), the
image the tree came from (`installed`), the ranges with which walks of this tree began
(`walked`) and the paths that came too late for the walk the marker stands for (`late`).

`Workspace` is the workspace API: every handler call by call, with the temporary file
of a PUT apart from the tree. `seen` collects what a request's path held while the
request ran, `alone` says that no other request ran beside it. The tree has two levels,
files and directories of files (`PathsAssumption`), and may hold what is neither
(`Special`: a fifo or socket a tool made), so that one `mkdir` makes a parent
and one call unlinks an entry; `inode` counts how often each directory was created and
tells the opened one from one made anew. `remove_dir_all` is external: it empties the directory it has opened, entry by entry, then removes what
the path names.

The modules `MC...` give the constants of the runs; the modules `..._proofs` hold
the proofs. Operators introduced by "A slip" are mutations of the definition that
follows them (a dropped guard, a swapped order); each property is checked to fail
with one of them. No specification uses them.

## What is checked

| Run | Instance | What it shows |
|---|---|---|
| `task_execution` | one task, one chunk per stream, maximal timeout 2, retention 1 | logs, snapshots, kills, retention, both refinements |
| `task_liveness` | one task, no output | tasks and shutdown complete, entries expire |
| `shutdown` | four tasks | no lost wakeup, the sandbox stops only when idle, and does stop |
| `event_stream` | two clients, capacity 2, logs of up to 4 events and a terminal one | prefix delivery, completeness, who lags, streams end |
| `sandbox_lifecycle` | two processes, all configurations | exclusive ownership, own sandbox, complete error paths, recovery |
| `tool_proxy` | one connection, one output, one frame per direction in the socket | output before EXIT, reasons for kills, no tool after shutdown, shutdown returns, clients finish |
| `nft_rules` | two servers, any number of starts, four rulesets to begin with, two changes by others; networks of three-bit addresses | no rule twice, success is true, failure is explained, settings are sound |
| `sysroot` | two commands at a time, three images of two layers, two trees made by hand, two edits, four ranges | whole installs, owners shifted once, a true marker, nothing overwritten |
| `workspace` | three requests of any kind on the root, a directory and a file in it, six trees to begin with | true answers, whole files, no stray temporary files, the documented answers |
| `execution_bounded` | as `task_execution`, no output | violation, see below |
| `nft_subnets` | as `nft_rules`, two instances with subnets of their own on a host without rules | violation, see below |
| `fix_ownership` | as `sysroot`, one command at a time, one edit | violation, see below |

The properties that matter most:

* `OutputComplete`, `HistorySpec`: nothing follows the terminal event, and all the
  output comes before it.
* `SnapshotMatchesHistory`: polling and streaming never disagree.
* `ResultRetained`: a finished task is never swept away by a cleanup that looked at
  the clock before it finished.
* `KillOnlyOnRequest`: a child is killed for an acknowledged DELETE or a timeout,
  never because its sender was dropped.
* `NoTaskAfterStop`, `NoLostWakeup`, `ShutdownCompletes`, `WorkCompletes`: a graceful shutdown waits
  for exactly the accepted tasks.
* `StopIsClean` (part of `Inv`): when the sandbox is stopped no child is alive, no
  reader is at work, and every task whose POST was answered has its terminal event,
  unless it has expired.
* `DeliversPrefix`, `DoneIsComplete`, `LaggedWasBehind`: an SSE client sees a prefix
  of the log, all of it if the stream ended with a terminal event, and is cut off
  only when it fell behind by more than the capacity.
* `OwnSandbox`, `LeftoversExplained`, `Recovers`: a server never runs in what an
  earlier one left, leaves nothing itself unless a fault interferes, and a restart
  repairs what a fault left.

* `ExitEndsOutput`: EXIT is the last frame, and nothing of the tool's output is left
  in a pipe or with a forwarding task when it is sent.
* `KillExplained`: the proxy kills a tool at shutdown, because its client is gone or
  broke the protocol, or because the tool closed its input early; never because an
  output ended or a task was scheduled late.
* `NoToolSurvives`, `ShutdownReturns`: shutdown returns whatever tools and clients do,
  and no tool runs then, whoever missed the notification or was just accepted. This
  speaks of the process the proxy started: descendants that left its group may live on.
* `LeavingNoticed`, `ClientFinishes`: a client that leaves while `forward_stdin` reads
  from it takes its tool with it, and no client waits for ever for an answer. The first
  says nothing of a client whose input has ended or is stuck; see the divergences.
* `NoDuplicates`, `OkMeansInstalled`, `FailureExplained`: concurrent starts install each
  rule once, report success only when all are there, and never make each other fail:
  three attempts are enough for any two starts, and run out only if other programs
  interfere. The generation id is read after the dumps and does not protect them; that
  nothing is installed twice rests on `NLM_F_EXCL` for table and chains. Chains that
  exist without their rules are therefore the exception, which `flushed` marks: there
  two starts do append both.
* `SettingsSound`: `network_settings` accepts exactly the well-formed networks, for
  every prefix length, and the rules match exactly the addresses of the subnet.
* `CompleteInstall`, `NeverOverwritten`: whatever crashes or runs at the same time, a
  sysroot that `init` made is the image with its whiteouts applied and the mount
  points, and no tree or complete configuration is replaced. What the image lacks is
  stated exactly: `Clobbered`, what a layer adds before a whiteout of its own.
* `ShiftedOnce`, `MarkerMeansShifted`: over crashes, reruns and changed ranges no owner
  is shifted twice, if the ranges in use begin at or above `Size`, and no two ranges are
  mixed, if they are also apart and end below the last id. Then the root directory,
  which is shifted first, makes a rerun with another range fail at once. `first_range`
  checks none of this, and the run has ranges that overlap: see the divergences for what
  happens then. The marker is true of everything that was there when the walk it stands
  for began.
* `AnswersTrue`, `TempsExplained`, `AloneAsDocumented`: each answer of the workspace API
  was true at some moment of the request, files are read whole, only a dropped PUT
  leaves a temporary file, and a request that meets no other answers as documented,
  whatever earlier races left behind, except for the one disagreement
  `NotAsDocumented` names.

Bounds. The tasks of `TaskExecution` share only the counter and the cleanup loop;
their interaction through the counter is checked with four tasks in
`GracefulShutdown`, which `TaskExecution` is proved to implement for every set of
tasks, so one task suffices for the rest. Retention 1 lets entries expire in every
phase of a run, maximal timeout 2 lets the clock pass with and without the timeout
elapsing, and the requested timeouts are "none" (the default, cut off by the
maximum) and 0. One chunk per stream is enough to have it in the child, the pipe,
the reader's hands or the log. Capacity 2 with five events overflows the channel
and wraps it more than once. Two processes are a running server and a competitor
or successor; each can be started again without limit. One connection, one output and one frame
per direction let every queue of the proxy be full while another actor waits for
it; connections share only the listener, the JoinSets and the notification, and the
safety part is proved for every number of connections and buffers and for both
outputs. In `NftRules` two starts are a winner and a loser of every race, each may
start again, and two changes by others are what it takes to use up three attempts
(with one, `FailureExplained` is tight only for removed rules). Three-bit addresses
have every prefix length with its special cases: the whole space, subnets with
and without addresses to spare, the two longest. In `Sysroot` a second layer removes a
directory, makes it opaque and fills it again, or fills it and then makes it opaque.
With `Size` 2 and `MaxId` 6 the ranges are 2 and 4, which are apart, 5, which overlaps
the one before and ends at the last id, and 6, which `first_range` refuses; the trees
made by hand have several owners, one of which a range holds already or none can hold. A
range below `Size` is left to the proof: it multiplies the states beyond what a run can
visit (with these there are 1.8 million). Two edits are removing the
sysroot, or changing the range, and one more. In `Workspace` three requests are a
reader or writer between two others; a directory and a file in it are all the
handlers can tell apart, and either may be special or missing. Commands, starts and requests are interchangeable, and
the runs use that symmetry; no property of these runs is a liveness property. The
ghosts `acked`, `age`, `got`, `excused` and `exit` record what the properties speak about and guard nothing.

Fairness. Tokio tasks that can run are run (weak fairness of runner, reader,
handler, cleanup and shutdown steps), time passes, and a process sent SIGKILL
dies. `CleanupStops` is strongly fair: `select!` polls the stop branch at least
once between two ticks of the 60 s interval. `WorkCompletes`
additionally needs what the code relies on and does not
enforce: that the child takes its standard input and that its pipes are closed some
time after its death (`ChildFairness`); `execution_bounded` shows what happens
without it. `StreamEnds` assumes clients that read and a cleanup loop that removes
the task. In `ToolProxy` the
proxy's own tasks and timers are fair; a ready branch of `select!`, which polls its
branches in random order, is taken eventually (strong fairness of `Selected`), and
an aborted task reaches an await (`AbortConnection`). Nothing is assumed of tools
and clients, except in `ClientFinishes`, whose premise is that tools end and clients
read. `Recovers` assumes only that a started process and its runtime run, and
that faults have ended (`~flaky`).

## What the documentation says and the code does not do

Shown by a run:

* `execution_bounded`: `stdin` is written before the timeout is armed, the readers
  run and the cancel channel is polled; a child that does not read runs for ever
  (`docs/http_api.md:101`, `:205`).
* `nft_subnets`: rules are recognised by their user data only. A first instance installs
  its rules; a second one with a bridge and subnet of its own finds their stamps, starts
  successfully and gets no rules for its subnet (`README.md:37`). An instance whose
  subnet was changed fares the same.
* `fix_ownership`: the marker outlives the sysroot. After "remove it manually if you
  want to start over" and another `init`, the new tree is never shifted, `init`
  reports success, and `start` asks for a `fix` that returns without doing it. A mount
  target that `fix` or `init` creates after the marker stays unshifted too
  (`README.md:35`, `:41`).

Stated by a property that passes, which says exactly where the code departs:

* `CompleteInstall`: `README.md:106` says that `init` "applies layers including
  whiteouts". A whiteout is about the layers below its own, but `apply_layer` follows the
  archive (`archive.rs:136-140`): one that comes after files of its own layer removes
  those too, and the image is installed without them. `Clobbered` is exactly what is
  lost, and the third image of the run (`etc/motd`, then the opaque whiteout of `etc`)
  loses its file. `NothingClobbered` is proved: with whiteouts first nothing is.
* `AloneAsDocumented`: `docs/http_api.md:273` and `:317` promise 404 for a target that does
  not exist. A lone GET or DELETE of a path below a file is answered 500, because
  `map_not_found` (`workspace_service.rs:198`) takes only `NotFound` for that and the
  call fails with `ENOTDIR`. `Documented` has the documents' answer, `NotAsDocumented`
  the case in which the code gives another.
* `ShiftedOnce`: the test `shifted_ids_map_container_ownership_into_host_range` says what
  an owner is to become, its container id moved into the range. `first_range` accepts
  ranges that overlap or begin below 65536. A fix at 110000 that was killed, followed by
  a change of the range to 100000, takes the root and all it finds shifted as mapped
  already and shifts the rest to 100000: every owner lies in the marked range
  (`MarkerMeansShifted` holds), and the container sees different ids for files that had the
  same. `RangesApart` is the premise that excludes it, `RangesAbove` the one without
  which an unshifted owner can look shifted and an owner can be shifted twice.
* `MarkerMeansShifted`: a range that ends at the last id gives the last container id the
  one number `lchown` does not set (it means "leave it alone"); `Settled` admits it.

Met while modelling, possible in the specifications, and left to the reader:

* After a 204 for DELETE of a task the terminal event can be `failed`, `timed_out` or
  `finished` with the child's own exit code (`README.md:117`).
* A task that runs past the five minutes counted from its creation is removed while it
  runs, and its result is lost (`docs/http_api.md:147`).
* A client that lags gets a normally ended stream without a terminal event
  (`docs/http_api.md:185`).
* A client of the tool proxy that disconnects after `STDIN_EOF`, or while its input is
  being written to a tool that does not read, is not noticed until the tool writes; the
  tool is not killed (`docs/tools_protocol.md:50`).
* A tool that ends before its input does can cost the Go client the exit code it was
  sent: the input goroutine closes the connection first, and the client exits with 125
  (`docs/tools_protocol.md:75`).
* A workspace GET or DELETE that races a DELETE of the same path can be answered 500
  where 404 is documented (`docs/http_api.md:317`); a listing is answered 500 when a
  PUT's temporary file is renamed between the listing and the look at it
  (`workspace_service.rs:90`); deleting a directory while a PUT works in it can end with
  500 after a part was deleted; a PUT dropped half-way leaves a file that listings show.
* An `init` that is killed between creating and writing `config.toml` leaves a file that
  does not load and that the next `init` keeps; one that is killed earlier, or cannot
  create `./workspace`, leaves its staging directory.

In `SandboxLifecycle` the startup deadline counts as a fault: the timeout around
the startup future elapses no later than the deadline inside `wait_until_running`,
and its `?` returns without `sandbox.shutdown`, so a slow start leaves its
veth, namespace, socket and possibly its container to the next start. So does a
failing `local_addr()`.

## What is proved

All theorems hold for every value of the constants, under the assumptions named
next to their declarations: finite `Tasks`, `Width` at least 2, `None` not an exit code, time constants
natural and `Retention` positive; `Capacity` positive; `None` not a process and
configurations of the stated shape; `MaxForeign` and the sizes of `Sysroot` natural,
`Found` among the four rulesets. `HostsAssumption` and `ImagesAssumption` of `Sysroot`
admit every range and every image the code does. Those that say something about the
world are `TreesAssumption` of `Sysroot` and `PathsAssumption` of `Workspace`; see "What
is not modelled".

* `GracefulShutdown_proofs`. `Inv` is inductive: besides `CountIsLeases` and
  `NoLostWakeup` it needs the order of the phases (`Drained`, `ClosedIsQuiet`,
  `HandlerBeforeLease`, `StoppingIsIdle`), because the counter read as 0 stays 0
  only when no handler is left that could create a lease. `NoTaskAfterStop`
  follows.
* `TaskExecution_proofs`. First the types, together with `GracefulShutdown`'s
  invariant under the mapping (`TypeCorrect`); with it every step is shown to be a
  step of `GracefulShutdown` or to change nothing it sees (`RefinesShutdown`). The
  invariant `Inv` relates the place of the runner to its log, its readers and its
  cancel channel; `RetentionCounted` ties the remaining time of a finished task to
  its age and to the sweep in progress. `RefinesHistory`, `ResultsRetained`,
  `SnapshotsAgree`, `KillsJustified` and `SendersCleared` follow from it. So does
  `ShutdownLosesNothing`: with the counter at 0 no lease exists, a runner without lease
  has returned or never was, and a returned runner has joined its child and its readers
  and published the terminal event; that the runner exists exactly when the POST was
  answered (`CreatedInOrder`) carries this over to the accepted tasks. What the abstract
  log promises is proved of it and inherited: `LogsWellFormed` (one `started`, first; a
  terminal event only last). With the snapshot it gives `ResultsAreFinal`: a status
  other than `running` never changes while the task is stored. `NoOutputLost` follows by
  `OutputCounted`: the chunks of a stream in the log, with the reader, in the pipe and
  not yet written always add up to the same number, and when the log ends nothing is
  with the reader or in the pipe.
* `EventStream_proofs`. The invariant says of each open stream that the log is
  what was sent, then what is to be replayed, then what is ahead in the channel
  (`SentThenReplayThenChannel`), and of the ring that the slot of a position holds
  the event of that position or a later one (`SlotsInPlace`, `SlotsHoldLog`).
  `DeliversPrefix`, `DoneIsComplete` and `LaggedWasBehind` follow, and, because the log
  is well formed, so is what any client has been sent (`ClientsSeeWellFormedStreams`).
* `SandboxLifecycle_proofs`. The invariant says what a process has set up in each
  phase and that everything else on the host is excused by a fault
  (`OwnsWhatItSetUp`, `HeldOrExcused`); the lock makes the other processes idle.
  `OwnSandbox` and `LeftoversExplained` follow.

* `ToolProxy_proofs`. The invariant says what a connection has in each place of its
  task (`EarlyIsBare`, `RunningIsWatched`), how an output can have ended
  (`OutputEnds`), when EXIT was sent (`ExitIsSentLast`), what makes `forward_stdin`
  fail (`ClientSide`), and that every connection task is in one of the two JoinSets
  (`Tracked`). It is needed because a kill follows its reason by several steps (the
  forwarding task fails, `select!` sees it, the failure is reported, the group is
  killed), and because shutdown returns on an empty JoinSet. `ExitEndsOutput`,
  `KillExplained` and `NoToolSurvives` follow. Assumptions: the outputs are among
  stdout and stderr, `Buf` is positive, `None` is not a code.
* `Sysroot_proofs`. While a layer is unpacked the staging tree holds exactly what the
  entries applied so far add and none of the later ones hides (`Unpacked`); at the end
  this is `Contents` without `Clobbered` (`Whole`), which gives `InstallsWhole` for every
  image. For the owners the invariant
  says that commands side by side have resolved the same range (`OneMapping`), that a
  walk shifts the root first (`RootFirst`) and that everything there at its beginning is
  shifted or below a path still to be visited (`WalkCovers`). That a shifted owner was
  shifted once holds while the ranges in use lie above the ids of a container
  (`ShiftedAbove`); while they are apart, it was shifted into the range the root is in
  (`ShiftedWithRoot`), which is why a rerun with another range cannot shift again.
  `OwnersShiftedOnce`, `MarkerKept` and the action property `Preserves` follow.
* `NftRules_proofs`. The invariant has three layers. Whatever others do: a chain is empty
  or begins with its rules and carries all of its stamps or none (`Shapes`), so a dump
  shows all or nothing (`ViewSane`), and what an attempt has seen is still there unless
  something was removed (`ViewHolds`). While no rules were taken from under a start
  (`Unflushed`): chains hold exactly their rules, and each attempt that still finds no
  table has been paid for by a change of another program. While no other program has done
  anything (`Untouched`): the first batch completes the rules and a second attempt finds
  them. `NoRuleTwice`, `OkIsInstalled` and `FailuresExplained` follow, for any number of
  starts. The generation id does not protect the dumps; the kernel's `NLM_F_EXCL` for
  table and chains does. The arithmetic of `Subnet` is proved for every width
  (`AcceptsWellFormed`, `SettingsAreSound`). Where it needs an induction, the set of
  counterexamples is a set of naturals and has a least element (`LeastElement`,
  `Induction`): so for the powers of two (`PowersOf2`, `PowersAdd`) and for a word being
  determined by its bits (`SameBits`), which makes the "and" unique. `Masks` and
  `MaskBits` say which bits a mask has, `MaskRounds` that masking rounds an address down
  to its block, `Blocks` and `Interval` that masks and blocks describe the same
  intervals, `HostBits` when a block has addresses to spare.
* `Workspace_proofs`. The invariant is one conjunct per request: where its method can
  have led it (`Stages`), that it has seen what its path holds now (`Sees`), that its
  temporary file lies beside its target in an existing directory (`TempOf`), that a
  `remove_dir_all` under way unlinks files only (`Emptying`), what its answer says
  (`Outcome`), and, for a request that met no other, that what each call found still
  holds at the next (`Holds`). `Bystander` shows once that no step of another request
  disturbs any of it, `Proceeds` covers the calls that only look. `AnswersAreTrue`,
  `TemporariesExplained` and `AnsweredAsDocumented` follow, for any number of requests.

TLC checked the invariants on small instances before they were proved.

Only model-checked: the liveness properties `WorkCompletes`, `EntriesExpire`,
`ShutdownCompletes`, `StreamEnds`, `Recovers`, `ShutdownReturns`, `LeavingNoticed` and
`ClientFinishes`; fairness is out of the prover's reach.

## What is not modelled

Text (output is counted in chunks; a character split over two reads is not
represented), wire formats, logging, authentication, the OCI document, command
lines. An empty `argv` is answered 400 before anything happens. `GET` handlers
only read. Draining open SSE streams during shutdown is not part of
`ServerClosed` yet: a stream ends when its task does, so it delays shutdown by no
more than a slow client does, which is outside the fairness assumed here.
The parent-death signal is taken to reach the runtime together with the release
of the lock. Deleting a namespace is not taken to delete the veth that reaches
into it. In `ToolProxy` a client closes both directions at once
(no half-closed sockets), a frame is written and read as a whole, and the writer's
mutex is the atomicity of `WriteFrame`.

`NftRules` takes the kernel's word: a batch is applied whole or not at all. Each
netlink dump is one step. In `Sysroot` uid and gid are one number; which line of
`/etc/subuid` applies to the user is left out, the bounds of the range are not
(`detect`). Trees an operator unpacked by hand contain the parents of what
they contain, and no owner is the last id (`TreesAssumption`). The operator does nothing
while a command runs. `/bin/sh`, the kinds of mount sources, digests and compression
are left out, except as an `init` or `fix` that fails. In `Workspace` there are no
symbolic links, so nothing escapes the root, special files are there from the beginning
and not made while requests run, and a directory's entries are read in one step. Of a
listing only the status is checked, not its entries. Deeper trees, where
`create_dir_all` and `remove_dir_all` are several calls that can each meet another request, are left out.

The OCI document (`bundle.rs`) is computed from the configuration without state or
concurrency; the SDKs for Node and .NET are clients of the streams modelled here; the
shell command and authentication keep no state.

## Plan

1. Done: all modules above; every invariant, action property and refinement that a
   passing run checks is proved for all values of the constants.
2. Remove the two-level assumption of `Workspace`: `create_dir_all` and `remove_dir_all`
   as walks, and `TempsExplained` for them.
