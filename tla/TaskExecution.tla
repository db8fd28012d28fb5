--------------------------- MODULE TaskExecution ---------------------------
(***************************************************************************)
(* The execution service: the task store (runtime/tasks/store.rs), one     *)
(* runner per task with its two output readers (runtime/execution), the    *)
(* POST and DELETE handlers (api/exec.rs), the cleanup loop and graceful   *)
(* shutdown (application.rs).                                              *)
(*                                                                         *)
(* Granularity: a step is what runs between two points where another       *)
(* thread can observe the state: a critical section of one of the two      *)
(* RwLocks, one atomic operation on the active counter, or the code        *)
(* between two awaits that touches only the task's own locals.             *)
(*                                                                         *)
(* Instants are kept as their distance to now, saturated at 0; Tick is a   *)
(* second (or any unit) passing.  Output text is counted in chunks, a      *)
(* chunk being what one read() returns.                                    *)
(***************************************************************************)
EXTENDS TaskHistory, FiniteSets

CONSTANTS Requested,       \* timeout_seconds values of requests; None if absent
          DefaultTimeout,  \* 300 in submit
          MaxTimeout,      \* sandbox.max_timeout_seconds
          Retention,       \* 300 in create and publish
          MaxChunks        \* bound: chunks a child writes to each stream

ASSUME TasksFinite == IsFiniteSet(Tasks)
ASSUME NoneIsNoValue == None \notin ExitCodes
ASSUME TimesAreNaturals ==
  /\ Requested \subseteq Nat \cup {None}
  /\ DefaultTimeout \in Nat
  /\ MaxTimeout \in Nat
  /\ Retention \in Nat \ {0}
  /\ MaxChunks \in Nat

VARIABLES
  \* the store: stored, history (TaskHistory) and
  snapshot,        \* TaskSnapshot.status and .exit_code
  ttl,             \* Task.expires - now
  cancellations,   \* ids whose oneshot sender is in the map
  count,           \* ActiveTasks.count
  \* the cleanup loop
  cleaner,         \* "idle" (in select!), "sweep" (in cleanup), "stopped"
  due,             \* tasks with expires <= the `now` that cleanup read
  stopPermit,      \* CleanupSupervisor.stop holds its notify_one permit
  \* runners
  runner,          \* where run_task is, per task
  outcome,         \* the terminal event the runner has decided on
  rxOpen,          \* tasks whose cancel receiver is alive
  timer,           \* time left of tokio::time::timeout
  reader,          \* state of each output reader task
  \* the child process and its pipes (external)
  child,           \* "none", "running", "killed" (signal sent), "exited"
  held,            \* another process also holds the pipes' other ends
  fed,             \* write_all on stdin can complete
  unwritten,       \* chunks the child may still write, per stream
  pipe,            \* chunks in the pipe, per stream
  \* handlers and shutdown
  server,          \* "serving", "draining" (signal received), "closed"
  post,            \* the POST handler that creates the task
  delete,          \* a DELETE handler of the task
  shut,            \* where ExecutionService::shutdown is
  woken,           \* notify_waiters called since `notified` was created
  sandbox,         \* "running", "stopped"
  \* ghosts
  acked,           \* a DELETE of the task was answered 204
  age              \* time since the terminal event, up to Retention

storeVars   == <<stored, history, snapshot, ttl, due, age>>
cancelVars  == <<cancellations, rxOpen, acked>>
runVars     == <<runner, outcome, timer>>
readVars    == <<reader>>
childVars   == <<child, held, fed, unwritten, pipe>>
handlerVars == <<server, post, delete>>
shutVars    == <<count, cleaner, stopPermit, shut, woken, sandbox>>
vars == <<storeVars, cancelVars, runVars, readVars, childVars, handlerVars,
          shutVars>>

Streams == OutputNames

(* submit: request.timeout_seconds.unwrap_or(300).min(max_timeout) *)
EffectiveTimeout(r) ==
  LET s == IF r = None THEN DefaultTimeout ELSE r
  IN  IF s < MaxTimeout THEN s ELSE MaxTimeout

(* A runner owns its TaskLease from spawn until the lease is dropped. *)
LeaseStates == {"spawned", "exec", "stdin", "wait", "killing", "reaping",
                "drain", "clear", "drop"}
Leases == {t \in Tasks : runner[t] \in LeaseStates}

ReaderStates == {"none", "reading", "holding", "eof", "failed"}
ReaderDone == {"none", "eof", "failed"}

-----------------------------------------------------------------------------
(* TaskStore::publish, one critical section of the inner lock. A task that *)
(* is no longer in the map is left alone. A terminal event moves `expires` *)
(* past the `now` any cleanup in progress has read.                        *)

StatusOfTimeoutIsFailed(e) == IF e.name = "timed_out" THEN "failed"
                              ELSE IF IsTerminal(e) THEN e.name ELSE "running"

StatusOf(e) == IF IsTerminal(e) THEN e.name ELSE "running"

(* Slips: the retention of a task runs from its creation only, and a       *)
(* timeout is reported as a failure (StatusOfTimeoutIsFailed).             *)
PublishKeepsExpiry(t, e) ==
  \/ /\ t \in stored
     /\ history' = [history EXCEPT ![t] = Append(@, e)]
     /\ IF IsTerminal(e)
        THEN /\ snapshot' = [snapshot EXCEPT ![t] = [status |-> StatusOf(e),
                                                     exit_code |-> e.code]]
             /\ age' = [age EXCEPT ![t] = 0]
        ELSE UNCHANGED <<snapshot, age>>
     /\ UNCHANGED <<stored, ttl, due>>
  \/ /\ t \notin stored
     /\ UNCHANGED storeVars

Publish(t, e) ==
  \/ /\ t \in stored
     /\ history' = [history EXCEPT ![t] = Append(@, e)]
     /\ IF IsTerminal(e)
        THEN /\ snapshot' = [snapshot EXCEPT ![t] = [status |-> StatusOf(e),
                                                     exit_code |-> e.code]]
             /\ ttl' = [ttl EXCEPT ![t] = Retention]
             /\ due' = due \ {t}
             /\ age' = [age EXCEPT ![t] = 0]
        ELSE UNCHANGED <<snapshot, ttl, due, age>>
     /\ UNCHANGED stored
  \/ /\ t \notin stored
     /\ UNCHANGED storeVars

-----------------------------------------------------------------------------
(* POST /v1/exec: submit and TaskStore::create. The handler's future is    *)
(* dropped at an await when its client disconnects. Empty argv answers 400 *)
(* and touches nothing.                                                    *)

PostStart(t) ==
  /\ server = "serving"
  /\ post[t] = "none"
  /\ post' = [post EXCEPT ![t] = "insert"]
  /\ UNCHANGED <<storeVars, cancelVars, runVars, readVars, childVars, server,
                 delete, shutVars>>

CreateInsert(t) ==
  /\ post[t] = "insert"
  /\ post' = [post EXCEPT ![t] = "register"]
  /\ stored' = stored \cup {t}
  /\ snapshot' = [snapshot EXCEPT ![t] = [status |-> "running", exit_code |-> None]]
  /\ ttl' = [ttl EXCEPT ![t] = Retention]
  /\ UNCHANGED <<history, due, age, cancelVars, runVars, readVars, childVars,
                 server, delete, shutVars>>

(* A slip: the sender is not kept. *)
CreateForgetsSender(t) ==
  /\ post[t] = "register"
  /\ post' = [post EXCEPT ![t] = "replied"]
  /\ rxOpen' = rxOpen \cup {t}
  /\ count' = count + 1
  /\ runner' = [runner EXCEPT ![t] = "spawned"]
  /\ UNCHANGED <<storeVars, cancellations, acked, outcome, timer, readVars,
                 childVars, server, delete, cleaner, stopPermit, shut, woken,
                 sandbox>>

(* From the second lock to the reply there is no await: the sender is      *)
(* registered, the counter incremented and the runner spawned.             *)
CreateRegister(t) ==
  /\ post[t] = "register"
  /\ post' = [post EXCEPT ![t] = "replied"]
  /\ cancellations' = cancellations \cup {t}
  /\ rxOpen' = rxOpen \cup {t}
  /\ count' = count + 1
  /\ runner' = [runner EXCEPT ![t] = "spawned"]
  /\ UNCHANGED <<storeVars, acked, outcome, timer, readVars, childVars, server,
                 delete, cleaner, stopPermit, shut, woken, sandbox>>

PostDropped(t) ==
  /\ post[t] \in {"insert", "register"}
  /\ post' = [post EXCEPT ![t] = "dropped"]
  /\ UNCHANGED <<storeVars, cancelVars, runVars, readVars, childVars, server,
                 delete, shutVars>>

-----------------------------------------------------------------------------
(* DELETE /v1/exec/{id}: cancel under the cancellations lock, then, if it  *)
(* returned false, a look at the store that decides between 409 and 404.   *)

DeleteStart(t) ==
  /\ server = "serving"
  /\ post[t] = "replied"
  /\ delete[t] = "none"
  /\ delete' = [delete EXCEPT ![t] = "cancel"]
  /\ UNCHANGED <<storeVars, cancelVars, runVars, readVars, childVars, server,
                 post, shutVars>>

(* TaskStore::cancel: the sender leaves the map; send succeeds when the    *)
(* receiver is still alive.                                                *)
Cancel(t) ==
  /\ delete[t] = "cancel"
  /\ cancellations' = cancellations \ {t}
  /\ IF t \in cancellations /\ t \in rxOpen
     THEN /\ acked' = acked \cup {t}
          /\ delete' = [delete EXCEPT ![t] = "none"]
     ELSE /\ delete' = [delete EXCEPT ![t] = "lookup"]
          /\ UNCHANGED acked
  /\ UNCHANGED <<storeVars, rxOpen, runVars, readVars, childVars, server, post,
                 shutVars>>

(* Conflict or not found, and dropping the handler, leave the same state.  *)
DeleteReply(t) ==
  /\ delete[t] # "none"
  /\ delete' = [delete EXCEPT ![t] = "none"]
  /\ UNCHANGED <<storeVars, cancelVars, runVars, readVars, childVars, server,
                 post, shutVars>>

-----------------------------------------------------------------------------
(* run_task *)

PublishStarted(t) ==
  /\ runner[t] = "spawned"
  /\ runner' = [runner EXCEPT ![t] = "exec"]
  /\ Publish(t, Event("started"))
  /\ UNCHANGED <<cancelVars, outcome, timer, readVars, childVars, handlerVars,
                 shutVars>>

(* sandbox.exec failed: the receiver stays alive until run_task returns.   *)
ExecFails(t) ==
  /\ runner[t] = "exec"
  /\ runner' = [runner EXCEPT ![t] = "drain"]
  /\ outcome' = [outcome EXCEPT ![t] = Event("failed")]
  /\ UNCHANGED <<storeVars, cancelVars, timer, readVars, childVars, handlerVars,
                 shutVars>>

(* The child runs. It may start processes that keep the pipes open, and    *)
(* stdin may be absent, small enough for the pipe, or have to be read.     *)
ExecSpawns(t) ==
  /\ runner[t] = "exec"
  /\ runner' = [runner EXCEPT ![t] = "stdin"]
  /\ child' = [child EXCEPT ![t] = "running"]
  /\ \E h, f \in BOOLEAN : /\ held' = [held EXCEPT ![t] = h]
                           /\ fed' = [fed EXCEPT ![t] = f]
  /\ UNCHANGED <<storeVars, cancelVars, outcome, timer, readVars, unwritten,
                 pipe, handlerVars, shutVars>>

(* write_all returns: everything taken, or the other end closed. Only then *)
(* is the pipe dropped, are the readers spawned and is the timeout armed.  *)
WriteStdin(t) ==
  /\ runner[t] = "stdin"
  /\ fed[t] \/ (child[t] = "exited" /\ ~held[t])
  /\ runner' = [runner EXCEPT ![t] = "wait"]
  /\ reader' = [reader EXCEPT ![t] = [s \in Streams |-> "reading"]]
  /\ \E r \in Requested : timer' = [timer EXCEPT ![t] = EffectiveTimeout(r)]
  /\ fed' = [fed EXCEPT ![t] = TRUE]
  /\ UNCHANGED <<storeVars, cancelVars, outcome, child, held, unwritten, pipe,
                 handlerVars, shutVars>>

(* select!: child.wait() is ready. The child may have died of a signal of  *)
(* its own (no code), and waiting for it may fail.                         *)
WaitExit(t) ==
  /\ runner[t] = "wait"
  /\ child[t] = "exited"
  /\ runner' = [runner EXCEPT ![t] = "drain"]
  /\ rxOpen' = rxOpen \ {t}
  /\ outcome' \in {[outcome EXCEPT ![t] = e] :
                     e \in {Finished(c) : c \in ExitCodes \cup {None}}
                             \cup {Event("failed")}}
  /\ UNCHANGED <<storeVars, cancellations, acked, timer, readVars, childVars,
                 handlerVars, shutVars>>

(* select!: the cancel receiver resolved. It does so when its sender sent, *)
(* and also when its sender was dropped: `_ = cancel` matches both.        *)
WaitCancel(t) ==
  /\ runner[t] = "wait"
  /\ t \notin cancellations
  /\ runner' = [runner EXCEPT ![t] = "killing"]
  /\ rxOpen' = rxOpen \ {t}
  /\ child' = [child EXCEPT ![t] = IF @ = "running" THEN "killed" ELSE @]
  /\ UNCHANGED <<storeVars, cancellations, acked, outcome, timer, readVars, held,
                 fed, unwritten, pipe, handlerVars, shutVars>>

WaitKilled(t) ==
  /\ runner[t] = "killing"
  /\ child[t] = "exited"
  /\ runner' = [runner EXCEPT ![t] = "drain"]
  /\ outcome' = [outcome EXCEPT ![t] = Finished(None)]
  /\ UNCHANGED <<storeVars, cancelVars, timer, readVars, childVars, handlerVars,
                 shutVars>>

(* A slip: the timeout arm waits for the child without killing it. *)
TimeoutOnlyWaits(t) ==
  /\ runner[t] \in {"wait", "killing"}
  /\ timer[t] = 0
  /\ runner' = [runner EXCEPT ![t] = "reaping"]
  /\ rxOpen' = rxOpen \ {t}
  /\ UNCHANGED <<storeVars, cancellations, acked, outcome, timer, readVars,
                 childVars, handlerVars, shutVars>>

(* The timeout covers the whole select!, the kill after a cancel included. *)
TimeoutFires(t) ==
  /\ runner[t] \in {"wait", "killing"}
  /\ timer[t] = 0
  /\ runner' = [runner EXCEPT ![t] = "reaping"]
  /\ rxOpen' = rxOpen \ {t}
  /\ child' = [child EXCEPT ![t] = IF @ = "running" THEN "killed" ELSE @]
  /\ UNCHANGED <<storeVars, cancellations, acked, outcome, timer, readVars, held,
                 fed, unwritten, pipe, handlerVars, shutVars>>

Reaped(t) ==
  /\ runner[t] = "reaping"
  /\ child[t] = "exited"
  /\ runner' = [runner EXCEPT ![t] = "drain"]
  /\ outcome' = [outcome EXCEPT ![t] = Event("timed_out")]
  /\ UNCHANGED <<storeVars, cancelVars, timer, readVars, childVars, handlerVars,
                 shutVars>>

(* A slip: the terminal event does not wait for the readers. *)
PublishTerminalAtOnce(t) ==
  /\ runner[t] = "drain"
  /\ runner' = [runner EXCEPT ![t] = "clear"]
  /\ Publish(t, outcome[t])
  /\ UNCHANGED <<cancelVars, outcome, timer, readVars, childVars, handlerVars,
                 shutVars>>

(* await_output, then the terminal event. *)
PublishTerminal(t) ==
  /\ runner[t] = "drain"
  /\ \A s \in Streams : reader[t][s] \in ReaderDone
  /\ runner' = [runner EXCEPT ![t] = "clear"]
  /\ Publish(t, outcome[t])
  /\ UNCHANGED <<cancelVars, outcome, timer, readVars, childVars, handlerVars,
                 shutVars>>

(* A slip: the early return after a failed exec does not clear. *)
ClearOnlyAfterChild(t) ==
  /\ runner[t] = "clear"
  /\ runner' = [runner EXCEPT ![t] = "drop"]
  /\ cancellations' = IF child[t] = "none" THEN cancellations
                      ELSE cancellations \ {t}
  /\ rxOpen' = rxOpen \ {t}
  /\ UNCHANGED <<storeVars, acked, outcome, timer, readVars, childVars,
                 handlerVars, shutVars>>

(* clear_cancellation; run_task returns and drops what it owns. *)
ClearCancellation(t) ==
  /\ runner[t] = "clear"
  /\ runner' = [runner EXCEPT ![t] = "drop"]
  /\ cancellations' = cancellations \ {t}
  /\ rxOpen' = rxOpen \ {t}
  /\ UNCHANGED <<storeVars, acked, outcome, timer, readVars, childVars,
                 handlerVars, shutVars>>

(* TaskLease::drop: fetch_sub, and notify_waiters when it returned 1. *)
DropLease(t) ==
  /\ runner[t] = "drop"
  /\ count' = count - 1
  /\ runner' = [runner EXCEPT ![t] = IF count = 1 THEN "notify" ELSE "done"]
  /\ UNCHANGED <<storeVars, cancelVars, outcome, timer, readVars, childVars,
                 handlerVars, cleaner, stopPermit, shut, woken, sandbox>>

NotifyIdle(t) ==
  /\ runner[t] = "notify"
  /\ runner' = [runner EXCEPT ![t] = "done"]
  /\ woken' = (woken \/ shut \in {"recheck", "await"})
  /\ UNCHANGED <<storeVars, cancelVars, outcome, timer, readVars, childVars,
                 handlerVars, count, cleaner, stopPermit, shut, sandbox>>

-----------------------------------------------------------------------------
(* spawn_output_reader: read, publish, until end of file or an error. *)

WritersGone(t) == child[t] \in {"none", "exited"} /\ ~held[t]

ReadChunk(t, s) ==
  /\ reader[t][s] = "reading"
  /\ pipe[t][s] > 0
  /\ pipe' = [pipe EXCEPT ![t][s] = @ - 1]
  /\ reader' = [reader EXCEPT ![t][s] = "holding"]
  /\ UNCHANGED <<storeVars, cancelVars, runVars, child, held, fed, unwritten,
                 handlerVars, shutVars>>

PublishChunk(t, s) ==
  /\ reader[t][s] = "holding"
  /\ reader' = [reader EXCEPT ![t][s] = "reading"]
  /\ Publish(t, Event(s))
  /\ UNCHANGED <<cancelVars, runVars, childVars, handlerVars, shutVars>>

ReadEof(t, s) ==
  /\ reader[t][s] = "reading"
  /\ pipe[t][s] = 0
  /\ WritersGone(t)
  /\ reader' = [reader EXCEPT ![t][s] = "eof"]
  /\ UNCHANGED <<storeVars, cancelVars, runVars, childVars, handlerVars, shutVars>>

ReadFails(t, s) ==
  /\ reader[t][s] = "reading"
  /\ reader' = [reader EXCEPT ![t][s] = "failed"]
  /\ UNCHANGED <<storeVars, cancelVars, runVars, childVars, handlerVars, shutVars>>

-----------------------------------------------------------------------------
(* The child and the processes it started (external). *)

ChildWrites(t, s) ==
  /\ ~WritersGone(t)
  /\ unwritten[t][s] > 0
  /\ unwritten' = [unwritten EXCEPT ![t][s] = @ - 1]
  /\ pipe' = [pipe EXCEPT ![t][s] = @ + 1]
  /\ UNCHANGED <<storeVars, cancelVars, runVars, readVars, child, held, fed,
                 handlerVars, shutVars>>

ChildTakesStdin(t) ==
  /\ child[t] = "running"
  /\ ~fed[t]
  /\ fed' = [fed EXCEPT ![t] = TRUE]
  /\ UNCHANGED <<storeVars, cancelVars, runVars, readVars, child, held, unwritten,
                 pipe, handlerVars, shutVars>>

ChildExits(t) ==
  /\ child[t] \in {"running", "killed"}
  /\ child' = [child EXCEPT ![t] = "exited"]
  /\ UNCHANGED <<storeVars, cancelVars, runVars, readVars, held, fed, unwritten,
                 pipe, handlerVars, shutVars>>

PipesReleased(t) ==
  /\ held[t]
  /\ held' = [held EXCEPT ![t] = FALSE]
  /\ UNCHANGED <<storeVars, cancelVars, runVars, readVars, child, fed, unwritten,
                 pipe, handlerVars, shutVars>>

-----------------------------------------------------------------------------
(* The cleanup loop: cleanup reads `now`, then waits for the write lock.   *)

CleanupTick ==
  /\ cleaner = "idle"
  /\ cleaner' = "sweep"
  /\ due' = {t \in stored : ttl[t] = 0}
  /\ UNCHANGED <<stored, history, snapshot, ttl, age, cancelVars, runVars,
                 readVars, childVars, handlerVars, count, stopPermit, shut,
                 woken, sandbox>>

(* Slips: cleanup drops the senders too, or keeps unfinished tasks. *)
CleanupDropsSenders ==
  /\ cleaner = "sweep"
  /\ cleaner' = "idle"
  /\ stored' = stored \ due
  /\ cancellations' = cancellations \ due
  /\ due' = {}
  /\ UNCHANGED <<history, snapshot, ttl, age, rxOpen, acked, runVars, readVars,
                 childVars, handlerVars, count, stopPermit, shut, woken, sandbox>>

CleanupKeepsRunning ==
  /\ cleaner = "sweep"
  /\ cleaner' = "idle"
  /\ stored' = stored \ {t \in due : snapshot[t].status # "running"}
  /\ due' = {}
  /\ UNCHANGED <<history, snapshot, ttl, age, cancelVars, runVars, readVars,
                 childVars, handlerVars, count, stopPermit, shut, woken, sandbox>>

Cleanup ==
  /\ cleaner = "sweep"
  /\ cleaner' = "idle"
  /\ stored' = stored \ due
  /\ due' = {}
  /\ UNCHANGED <<history, snapshot, ttl, age, cancelVars, runVars, readVars,
                 childVars, handlerVars, count, stopPermit, shut, woken, sandbox>>

CleanupStops ==
  /\ cleaner = "idle"
  /\ stopPermit
  /\ stopPermit' = FALSE
  /\ cleaner' = "stopped"
  /\ UNCHANGED <<storeVars, cancelVars, runVars, readVars, childVars, handlerVars,
                 count, shut, woken, sandbox>>

-----------------------------------------------------------------------------
(* Graceful shutdown: a signal stops axum from accepting, axum returns     *)
(* when no request is in flight, then ExecutionService::shutdown runs.     *)

ShutdownSignal ==
  /\ server = "serving"
  /\ server' = "draining"
  /\ UNCHANGED <<storeVars, cancelVars, runVars, readVars, childVars, post, delete,
                 shutVars>>

(* A slip: the server is aborted, not drained. *)
ServerAborts ==
  /\ server = "draining"
  /\ server' = "closed"
  /\ shut' = "check"
  /\ UNCHANGED <<storeVars, cancelVars, runVars, readVars, childVars, post, delete,
                 count, cleaner, stopPermit, woken, sandbox>>

ServerClosed ==
  /\ server = "draining"
  /\ \A t \in Tasks : post[t] \notin {"insert", "register"} /\ delete[t] = "none"
  /\ server' = "closed"
  /\ shut' = "check"
  /\ UNCHANGED <<storeVars, cancelVars, runVars, readVars, childVars, post, delete,
                 count, cleaner, stopPermit, woken, sandbox>>

(* wait_for_idle: load, create the Notified future, load again, await it.  *)
IdleCheck ==
  /\ shut \in {"check", "recheck"}
  /\ shut' = CASE count = 0 -> "stopCleanup"
               [] count # 0 /\ shut = "check" -> "register"
               [] OTHER -> "await"
  /\ UNCHANGED <<storeVars, cancelVars, runVars, readVars, childVars, handlerVars,
                 count, cleaner, stopPermit, woken, sandbox>>

IdleRegister ==
  /\ shut = "register"
  /\ shut' = "recheck"
  /\ woken' = FALSE
  /\ UNCHANGED <<storeVars, cancelVars, runVars, readVars, childVars, handlerVars,
                 count, cleaner, stopPermit, sandbox>>

IdleWoken ==
  /\ shut = "await"
  /\ woken
  /\ shut' = "check"
  /\ UNCHANGED <<storeVars, cancelVars, runVars, readVars, childVars, handlerVars,
                 count, cleaner, stopPermit, woken, sandbox>>

(* shutdown_cleanup: notify_one, then join the loop. *)
StopCleanup ==
  /\ shut = "stopCleanup"
  /\ shut' = "joinCleanup"
  /\ stopPermit' = TRUE
  /\ UNCHANGED <<storeVars, cancelVars, runVars, readVars, childVars, handlerVars,
                 count, cleaner, woken, sandbox>>

JoinCleanup ==
  /\ shut = "joinCleanup"
  /\ cleaner = "stopped"
  /\ shut' = "sandbox"
  /\ UNCHANGED <<storeVars, cancelVars, runVars, readVars, childVars, handlerVars,
                 count, cleaner, stopPermit, woken, sandbox>>

(* sandbox.shutdown: the container and everything in it are killed. *)
SandboxShutdown ==
  /\ shut = "sandbox"
  /\ shut' = "returned"
  /\ sandbox' = "stopped"
  /\ UNCHANGED <<storeVars, cancelVars, runVars, readVars, childVars, handlerVars,
                 count, cleaner, stopPermit, woken>>

-----------------------------------------------------------------------------

Earlier(n) == IF n = 0 THEN 0 ELSE n - 1

(* Time passes for the armed timeouts, the expiry of stored tasks and the  *)
(* age of published results.                                               *)
Tick ==
  /\ ttl' = [t \in Tasks |-> Earlier(ttl[t])]
  /\ timer' = [t \in Tasks |-> IF runner[t] \in {"wait", "killing"}
                               THEN Earlier(timer[t]) ELSE timer[t]]
  /\ age' = [t \in Tasks |-> IF Ended(history[t]) /\ age[t] < Retention
                             THEN age[t] + 1 ELSE age[t]]
  /\ UNCHANGED <<stored, history, snapshot, due, cancelVars, runner, outcome,
                 readVars, childVars, handlerVars, shutVars>>

Init ==
  /\ HistoryInit
  /\ snapshot = [t \in Tasks |-> [status |-> "running", exit_code |-> None]]
  /\ ttl = [t \in Tasks |-> 0]
  /\ cancellations = {}
  /\ count = 0
  /\ cleaner = "idle" /\ due = {} /\ stopPermit = FALSE
  /\ runner = [t \in Tasks |-> "none"]
  /\ outcome = [t \in Tasks |-> Event("failed")]
  /\ rxOpen = {}
  /\ timer = [t \in Tasks |-> 0]
  /\ reader = [t \in Tasks |-> [s \in Streams |-> "none"]]
  /\ child = [t \in Tasks |-> "none"]
  /\ held = [t \in Tasks |-> FALSE]
  /\ fed = [t \in Tasks |-> FALSE]
  /\ unwritten = [t \in Tasks |-> [s \in Streams |-> MaxChunks]]
  /\ pipe = [t \in Tasks |-> [s \in Streams |-> 0]]
  /\ server = "serving"
  /\ post = [t \in Tasks |-> "none"]
  /\ delete = [t \in Tasks |-> "none"]
  /\ shut = "none" /\ woken = FALSE /\ sandbox = "running"
  /\ acked = {}
  /\ age = [t \in Tasks |-> 0]

Handler(t) ==
  \/ PostStart(t) \/ CreateInsert(t) \/ CreateRegister(t) \/ PostDropped(t)
  \/ DeleteStart(t) \/ Cancel(t) \/ DeleteReply(t)

(* What the runner of t does by itself. *)
Runner(t) ==
  \/ PublishStarted(t) \/ ExecFails(t) \/ ExecSpawns(t) \/ WriteStdin(t)
  \/ WaitExit(t) \/ WaitCancel(t) \/ WaitKilled(t) \/ TimeoutFires(t)
  \/ Reaped(t) \/ PublishTerminal(t) \/ ClearCancellation(t)
  \/ DropLease(t) \/ NotifyIdle(t)

Reader(t, s) ==
  ReadChunk(t, s) \/ PublishChunk(t, s) \/ ReadEof(t, s) \/ ReadFails(t, s)

Child(t) ==
  \/ \E s \in Streams : ChildWrites(t, s)
  \/ ChildTakesStdin(t) \/ ChildExits(t) \/ PipesReleased(t)

CleanupLoop == CleanupTick \/ Cleanup \/ CleanupStops

Shutdown ==
  \/ IdleCheck \/ IdleRegister \/ IdleWoken
  \/ StopCleanup \/ JoinCleanup \/ SandboxShutdown

Next ==
  \/ \E t \in Tasks : Handler(t) \/ Runner(t) \/ Child(t)
  \/ \E t \in Tasks, s \in Streams : Reader(t, s)
  \/ CleanupLoop \/ ShutdownSignal \/ ServerClosed \/ Shutdown \/ Tick

Spec == Init /\ [][Next]_vars

-----------------------------------------------------------------------------
(* Fairness. What is assumed of the program: its tasks are scheduled, the  *)
(* clock advances, and a process that was sent SIGKILL dies. `select!`     *)
(* polls the stop branch between two ticks of the 60 s interval, hence the *)
(* strong fairness of CleanupStops. Nothing is assumed of clients, of what *)
(* the child computes, or of whether reads fail.                           *)

HandlerSteps(t) == CreateInsert(t) \/ CreateRegister(t) \/ Cancel(t) \/ DeleteReply(t)
ReaderSteps(t, s) == ReadChunk(t, s) \/ PublishChunk(t, s) \/ ReadEof(t, s)

ProgramFairness ==
  /\ \A t \in Tasks : /\ WF_vars(HandlerSteps(t))
                      /\ WF_vars(Runner(t))
                      /\ WF_vars(child[t] = "killed" /\ ChildExits(t))
  /\ \A t \in Tasks, s \in Streams : WF_vars(ReaderSteps(t, s))
  /\ WF_vars(CleanupTick) /\ WF_vars(Cleanup) /\ SF_vars(CleanupStops)
  /\ WF_vars(ServerClosed) /\ WF_vars(Shutdown) /\ WF_vars(Tick)

(* What the code relies on without enforcing it: the child takes its       *)
(* standard input, and the pipes are closed some time after it is gone.    *)
ChildFairness ==
  \A t \in Tasks : WF_vars(ChildTakesStdin(t)) /\ WF_vars(PipesReleased(t))

ProgramFairSpec == Spec /\ ProgramFairness
FairSpec == ProgramFairSpec /\ ChildFairness

-----------------------------------------------------------------------------
(* Properties *)

Statuses == {"running", "finished", "timed_out", "failed"}

StoreType ==
  /\ stored \subseteq Tasks
  /\ history \in [Tasks -> Seq(Events)]
  /\ snapshot \in [Tasks -> [status : Statuses,
                             exit_code : ExitCodes \cup {None}]]
  /\ ttl \in [Tasks -> 0..Retention]
  /\ due \subseteq Tasks
  /\ age \in [Tasks -> 0..Retention]

RunType ==
  /\ cancellations \subseteq Tasks
  /\ rxOpen \subseteq Tasks
  /\ acked \subseteq Tasks
  /\ runner \in [Tasks -> LeaseStates \cup {"none", "notify", "done"}]
  /\ outcome \in [Tasks -> {e \in Events : IsTerminal(e)}]
  /\ timer \in [Tasks -> 0..MaxTimeout]
  /\ reader \in [Tasks -> [Streams -> ReaderStates]]

ChildType ==
  /\ child \in [Tasks -> {"none", "running", "killed", "exited"}]
  /\ held \in [Tasks -> BOOLEAN]
  /\ fed \in [Tasks -> BOOLEAN]
  /\ unwritten \in [Tasks -> [Streams -> Nat]]
  /\ pipe \in [Tasks -> [Streams -> Nat]]

ServerType ==
  /\ server \in {"serving", "draining", "closed"}
  /\ post \in [Tasks -> {"none", "insert", "register", "replied", "dropped"}]
  /\ delete \in [Tasks -> {"none", "cancel", "lookup"}]
  /\ count \in Nat
  /\ cleaner \in {"idle", "sweep", "stopped"}
  /\ stopPermit \in BOOLEAN
  /\ shut \in {"none", "check", "register", "recheck", "await", "stopCleanup",
               "joinCleanup", "sandbox", "returned"}
  /\ woken \in BOOLEAN
  /\ sandbox \in {"running", "stopped"}

(* The values each variable takes: in particular a timeout never exceeds   *)
(* sandbox.max_timeout_seconds.                                            *)
TypeOK == StoreType /\ RunType /\ ChildType /\ ServerType

(* The inductive invariant, part by part. A POST inserts its task, then    *)
(* registers its sender and spawns its runner, each once.                  *)
CreatedInOrder ==
  \A t \in Tasks :
    /\ post[t] \in {"none", "insert"} => t \notin stored
    /\ post[t] = "replied" <=> runner[t] # "none"

(* Where the runner is tells what the log of its task can hold: nothing    *)
(* before `started` is published, no terminal event before the runner      *)
(* publishes it and always one after that, and only at the end.            *)
LogFollowsRunner ==
  \A t \in Tasks :
    /\ runner[t] \in {"none", "spawned"} => history[t] = <<>>
    /\ runner[t] \in {"exec", "stdin", "wait", "killing", "reaping", "drain"}
         => ~Ended(history[t]) /\ (t \in stored => history[t] # <<>>)
    /\ runner[t] \in {"clear", "drop", "notify", "done"} /\ t \in stored
         => Ended(history[t])
    /\ Ended(history[t]) => IsTerminal(history[t][Len(history[t])])

(* Readers live within the run: none before the child was spawned, and     *)
(* await_output has joined both before the terminal event.                 *)
ReadersWithinRun ==
  \A t \in Tasks, s \in Streams :
    reader[t][s] \in {"reading", "holding"} =>
      runner[t] \in {"wait", "killing", "reaping", "drain"}

(* Until the select! ends the runner keeps the receiver, so the sender is  *)
(* in the map or a DELETE was answered 204.                                *)
CancelChannel ==
  \A t \in Tasks :
    runner[t] \in {"spawned", "exec", "stdin", "wait"} =>
      t \in rxOpen /\ (t \in cancellations \/ t \in acked)

(* Only the runner signals the child, and it then waits for its death.     *)
KilledByRunner ==
  \A t \in Tasks :
    /\ child[t] = "running" => runner[t] \in {"stdin", "wait"}
    /\ child[t] = "killed" => runner[t] \in {"killing", "reaping"}
    /\ runner[t] = "killing" => t \in acked
    /\ runner[t] = "reaping" => timer[t] = 0

(* Whatever a GET returns agrees with the log an SSE subscriber of the     *)
(* same moment sees: the status and exit code are those of its terminal    *)
(* event, and `running` as long as it has none (publish).                  *)
SnapshotMatchesHistory ==
  \A t \in stored :
    LET log == history[t]
        last == log[Len(log)]
    IN  snapshot[t] = IF Ended(log)
                      THEN [status |-> last.name, exit_code |-> last.code]
                      ELSE [status |-> "running", exit_code |-> None]

(* No chunk is lost between the child and the log: what it has not written *)
(* yet, what is in the pipe, what a reader holds between its read and its  *)
(* publish, and what the log has make up everything; at end of file the    *)
(* pipe is empty and nobody can write to it any more.                      *)
Chunks(log, s) == {i \in DOMAIN log : log[i].name = s}
InHand(t, s) == IF reader[t][s] = "holding" THEN 1 ELSE 0

CountedAt(t, s) ==
  /\ runner[t] \in {"none", "spawned", "exec", "stdin"} => reader[t][s] = "none"
  /\ reader[t][s] = "none" /\ runner[t] # "stdin" =>
       /\ child[t] = "none" /\ ~held[t]
       /\ pipe[t][s] = 0 /\ unwritten[t][s] = MaxChunks
  /\ reader[t][s] = "eof" => pipe[t][s] = 0 /\ WritersGone(t)
  /\ t \in stored /\ reader[t][s] # "failed" =>
       Cardinality(Chunks(history[t], s)) + InHand(t, s) + pipe[t][s]
         + unwritten[t][s] = MaxChunks

OutputCounted == \A t \in Tasks, s \in Streams : CountedAt(t, s)

(* Once a task has its terminal event, every chunk the child and its       *)
(* descendants wrote is in its log, unless reading the pipe failed         *)
(* (await_output before the terminal publish, run_task).                   *)
OutputComplete ==
  \A t \in stored, s \in Streams :
    Ended(history[t]) /\ reader[t][s] # "failed" =>
      Cardinality(Chunks(history[t], s)) + unwritten[t][s] = MaxChunks

(* The service kills a child only because a DELETE of its task was         *)
(* answered 204 or because its timeout elapsed; in particular no other     *)
(* path drops the oneshot sender of a waiting runner.                      *)
KillOnlyOnRequest ==
  \A t \in Tasks : child[t] = "killed" => t \in acked \/ timer[t] = 0

(* The cancellation map holds no sender of a task whose runner has         *)
(* returned: entries cannot pile up.                                       *)
NoStaleSender ==
  \A t \in cancellations : runner[t] \in LeaseStates \ {"drop"}

(* The two clocks of a finished task agree: what is left of its retention  *)
(* and its age make up Retention, and a sweep in progress has listed it    *)
(* only if it was over-age when the sweep read the clock.                  *)
RetentionCounted ==
  \A t \in stored :
    Ended(history[t]) =>
      /\ age[t] + ttl[t] = Retention
      /\ t \in due => age[t] = Retention

(* Graceful shutdown loses no accepted task: when the sandbox is stopped   *)
(* no child is alive, no reader is at work, and every task whose POST was  *)
(* answered has its terminal event in the store, unless it expired         *)
(* (run_server, wait_for_idle, run_task).                                  *)
StopIsClean ==
  sandbox = "stopped" => \A t \in Tasks :
    /\ child[t] \in {"none", "exited"}
    /\ \A s \in Streams : reader[t][s] \in ReaderDone
    /\ post[t] = "replied" /\ t \in stored => Ended(history[t])

Inv ==
  /\ TypeOK
  /\ CreatedInOrder
  /\ LogFollowsRunner
  /\ ReadersWithinRun
  /\ CancelChannel
  /\ KilledByRunner
  /\ SnapshotMatchesHistory
  /\ KillOnlyOnRequest
  /\ NoStaleSender
  /\ OutputCounted
  /\ RetentionCounted
  /\ StopIsClean

(* A result stays readable for the retention time counted from the         *)
(* terminal event, also when cleanup read its `now` before that event.     *)
ResultRetained ==
  [][\A t \in stored \ stored' : Ended(history[t]) => age[t] = Retention]_vars

(* The runners, handlers, cleanup loop and shutdown together implement     *)
(* GracefulShutdown, hence inherit its properties.                         *)
PostPhase(p) == CASE p = "none" -> "none"
                  [] p \in {"insert", "register"} -> "handling"
                  [] OTHER -> "over"
LeasePhase(r) == IF r \in LeaseStates \ {"drop"} THEN "active" ELSE r

Stop == INSTANCE GracefulShutdown WITH
          post <- [t \in Tasks |-> PostPhase(post[t])],
          lease <- [t \in Tasks |-> LeasePhase(runner[t])]

ImplementsShutdown == Stop!Spec

(* Every accepted task is eventually over, its lease returned, provided    *)
(* its child takes its input and its pipes close. After a signal the       *)
(* process eventually stops its sandbox: the drain, the wait for idle and  *)
(* the join of the cleanup loop all end.                                   *)
WorkCompletes ==
  /\ \A t \in Tasks : runner[t] = "spawned" ~> runner[t] = "done"
  /\ server = "draining" ~> sandbox = "stopped"

(* The store does not grow for ever: every entry is eventually removed,    *)
(* the one of a POST dropped before its runner existed too.                *)
EntriesExpire ==
  \A t \in Tasks : t \in stored ~> (t \notin stored \/ cleaner = "stopped")

(* What the documentation says and the code does not do,                   *)
(* docs/http_api.md:101 and :205: the timeout bounds the execution of the  *)
(* task, and the process has been terminated when it elapsed.              *)
ExecutionBounded ==
  \A t \in Tasks : child[t] = "running" ~> child[t] # "running"
=============================================================================
