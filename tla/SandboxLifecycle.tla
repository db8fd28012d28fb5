-------------------------- MODULE SandboxLifecycle --------------------------
(***************************************************************************)
(* The sandbox of one managed bundle directory: lifecycle::start, the      *)
(* shutdown of its session, and what server processes started one after    *)
(* the other, or at the same time, leave on the host. The host's resources *)
(* carry names derived from the bundle directory (instance::id), so a      *)
(* process meets what an earlier one left behind.                          *)
(*                                                                         *)
(* Each resource is tagged with the process that created it. A step is one *)
(* runtime or netlink command, or a group of them nobody can observe in    *)
(* between; a process can crash after every step. While `flaky` commands   *)
(* may fail, the runtime may exit and processes may crash.                 *)
(***************************************************************************)
EXTENDS FiniteSets

CONSTANTS Procs,     \* server processes; each can be started again and again
          None,      \* no process
          Configs    \* what config.toml may say when a process starts

ASSUME NoneIsNoProc == None \notin Procs
ASSUME ConfigsTyped ==
  Configs \subseteq [mode : {"nat", "none", "host"}, tools : BOOLEAN]

VARIABLES
  lock,       \* the process holding flock on .lock
  phase,      \* where each process is
  config,     \* the configuration each process was started with
  runtime,    \* its foreground runtime: "none", "starting", "up", "exited"
  container,  \* who started the container known under the instance id
  running,    \* the container's state is "running"
  veth,       \* owner of the host veth (and of its peer)
  netns,      \* owner of the named network namespace
  socket,     \* owner of the tool socket in the bundle directory
  shared,     \* "bridge", "rules": kept for all instances
  flaky,      \* faults may still happen
  excused     \* ghost: resources a fault may have left behind

hostVars == <<container, running, veth, netns, socket, shared, excused>>
vars == <<lock, phase, config, runtime, hostVars, flaky>>

Owners == Procs \cup {None}
Resources == {"container", "veth", "netns", "socket"}
Present == {r \in Resources :
              \/ r = "container" /\ container # None
              \/ r = "veth" /\ veth # None
              \/ r = "netns" /\ netns # None
              \/ r = "socket" /\ socket # None}

IsNat(p) == config[p].mode = "nat"
Goto(p, ph) == phase' = [phase EXCEPT ![p] = ph]

(* The process returns from main: everything it owns is dropped. The child *)
(* is killed (kill_on_drop), then the lock file is closed.                 *)
Leave(p) ==
  /\ Goto(p, "off")
  /\ lock' = None
  /\ runtime' = [runtime EXCEPT ![p] = "none"]

-----------------------------------------------------------------------------
(* Commands on the host (external programs and the kernel). *)

(* container::remove: kill, then delete --force; a missing container is    *)
(* fine. An error leaves the container as it was or killed.                *)
RemoveSucceeds ==
  /\ container' = None
  /\ running' = FALSE
  /\ excused' = excused \ {"container"}
RemoveFails ==
  /\ flaky
  /\ UNCHANGED container
  /\ running' \in {running, FALSE}
  /\ excused' = excused \cup {"container"}

(* cleanup_resources: the veth, then the namespace. Failures are warnings: *)
(* the caller never learns of them.                                        *)
CleanupResources ==
  \E failed \in IF flaky THEN SUBSET {"veth", "netns"} ELSE {{}} :
    /\ veth' = IF "veth" \in failed THEN veth ELSE None
    /\ netns' = IF "netns" \in failed THEN netns ELSE None
    /\ excused' = (excused \ {"veth", "netns"}) \cup failed

(* ToolProxy::shutdown ends with remove_stale_socket. *)
RemoveSocket ==
  \/ socket' = None /\ excused' = excused \ {"socket"}
  \/ flaky /\ UNCHANGED socket /\ excused' = excused \cup {"socket"}

-----------------------------------------------------------------------------
(* lifecycle::start *)

(* A slip: a lock that does not exclude (LOCK_SH, or its result dropped).  *)
AcquireSharedLock(p) ==
  /\ phase[p] = "off"
  /\ lock' = p
  /\ Goto(p, "locked")
  /\ \E c \in Configs : config' = [config EXCEPT ![p] = c]
  /\ UNCHANGED <<runtime, hostVars, flaky>>

(* acquire_lock: LOCK_EX | LOCK_NB. A process that finds the lock taken    *)
(* returns without having touched anything.                                *)
AcquireLock(p) ==
  /\ phase[p] = "off"
  /\ lock = None
  /\ lock' = p
  /\ Goto(p, "locked")
  /\ \E c \in Configs : config' = [config EXCEPT ![p] = c]
  /\ UNCHANGED <<runtime, hostVars, flaky>>

(* Configuration, features, sysroot, NAT support or the runtime's probe.   *)
CheckFails(p) ==
  /\ flaky
  /\ phase[p] = "locked"
  /\ Leave(p)
  /\ UNCHANGED <<config, hostVars, flaky>>

(* A slip: `let _ = runtime.remove().await`. *)
RemoveOldIgnoresErrors(p) ==
  /\ phase[p] = "locked"
  /\ RemoveSucceeds \/ RemoveFails
  /\ Goto(p, "removed")
  /\ UNCHANGED <<lock, config, runtime, veth, netns, socket, shared, flaky>>

RemoveOld(p) ==
  /\ phase[p] = "locked"
  /\ \/ RemoveSucceeds /\ Goto(p, "removed") /\ UNCHANGED <<lock, runtime>>
     \/ RemoveFails /\ Leave(p)
  /\ UNCHANGED <<config, veth, netns, socket, shared, flaky>>

(* A slip: prepare does not clean up first. *)
CleanOldSkipped(p) ==
  /\ phase[p] = "removed"
  /\ Goto(p, IF IsNat(p) THEN "bridge" ELSE "network")
  /\ UNCHANGED <<lock, config, runtime, hostVars, flaky>>

(* NetworkSession::prepare cleans up whatever the mode, then returns       *)
(* unless it is NAT.                                                       *)
CleanOld(p) ==
  /\ phase[p] = "removed"
  /\ CleanupResources
  /\ Goto(p, IF IsNat(p) THEN "bridge" ELSE "network")
  /\ UNCHANGED <<lock, config, runtime, container, running, socket, shared, flaky>>

(* ensure_bridge, ensure_nat_rules: shared with other instances. *)
EnsureShared(p) ==
  /\ phase[p] = "bridge"
  /\ \/ /\ shared' = {"bridge", "rules"}
        /\ Goto(p, "netns")
        /\ UNCHANGED <<lock, runtime>>
     \/ /\ flaky
        /\ shared' \in {shared, shared \cup {"bridge"}}
        /\ Leave(p)
  /\ UNCHANGED <<config, container, running, veth, netns, socket, excused, flaky>>

(* NetworkNamespace::add refuses an existing name. When it fails nothing   *)
(* is cleaned up: the error returns before prepare_nat's own cleanup.      *)
AddNamespace(p) ==
  /\ phase[p] = "netns"
  /\ \/ /\ netns = None
        /\ netns' = p
        /\ excused' = excused \ {"netns"}
        /\ Goto(p, "veth")
        /\ UNCHANGED <<lock, runtime>>
     \/ /\ netns # None
        /\ Leave(p)
        /\ UNCHANGED <<netns, excused>>
     \/ /\ flaky /\ netns = None
        /\ netns' \in {None, p}
        /\ excused' = excused \cup {"netns"}
        /\ Leave(p)
  /\ UNCHANGED <<config, container, running, veth, socket, shared, flaky>>

(* The veth pair is created, attached, moved and configured; any error is  *)
(* followed by cleanup_resources, which may fail to remove a pair that was *)
(* created before the error.                                               *)
AddVeth(p) ==
  /\ phase[p] = "veth"
  /\ \/ /\ veth = None
        /\ veth' = p
        /\ excused' = excused \ {"veth"}
        /\ Goto(p, "network")
        /\ UNCHANGED <<lock, runtime, netns>>
     \/ /\ veth # None \/ flaky
        /\ CleanupResources
        /\ Leave(p)
     \/ /\ veth = None /\ flaky
        /\ veth' = p
        /\ \/ netns' = None /\ excused' = (excused \ {"netns"}) \cup {"veth"}
           \/ netns' = netns /\ excused' = excused \cup {"veth", "netns"}
        /\ Leave(p)
  /\ UNCHANGED <<config, container, running, socket, shared, flaky>>

(* ToolProxy::start: without tools there is no proxy, and a socket left by *)
(* an earlier run with tools stays where it is.                            *)
StartProxy(p) ==
  /\ phase[p] = "network"
  /\ \/ /\ ~config[p].tools
        /\ Goto(p, "bundle")
        /\ UNCHANGED <<socket, excused>>
     \/ /\ config[p].tools
        /\ socket' = p
        /\ excused' = excused \ {"socket"}
        /\ Goto(p, "bundle")
     \/ /\ config[p].tools /\ flaky
        /\ socket' \in {socket, None}
        /\ Goto(p, "abortNetwork")
        /\ UNCHANGED excused
  /\ UNCHANGED <<lock, config, runtime, container, running, veth, netns, shared, flaky>>

(* prepare_managed_bundle and spawn_container. *)
SpawnContainer(p) ==
  /\ phase[p] = "bundle"
  /\ \/ /\ runtime' = [runtime EXCEPT ![p] = "starting"]
        /\ Goto(p, "spawned")
     \/ /\ flaky
        /\ Goto(p, IF config[p].tools THEN "abortProxy" ELSE "abortNetwork")
        /\ UNCHANGED runtime
  /\ UNCHANGED <<lock, config, hostVars, flaky>>

(* StartupResources::cleanup: the proxy, then the network session. *)
AbortProxy(p) ==
  /\ phase[p] = "abortProxy"
  /\ RemoveSocket
  /\ Goto(p, "abortNetwork")
  /\ UNCHANGED <<lock, config, runtime, container, running, veth, netns, shared, flaky>>

(* NetworkSession::cleanup does nothing unless the mode is NAT. *)
NetworkCleanup(p) ==
  \/ IsNat(p) /\ CleanupResources
  \/ ~IsNat(p) /\ UNCHANGED <<veth, netns, excused>>

AbortNetwork(p) ==
  /\ phase[p] = "abortNetwork"
  /\ NetworkCleanup(p)
  /\ Leave(p)
  /\ UNCHANGED <<config, container, running, socket, shared, flaky>>

(* wait_until_running asks for the state of the instance id, then whether  *)
(* the foreground runtime has exited.                                      *)
BecomesReady(p) ==
  /\ phase[p] = "spawned"
  /\ container # None /\ running
  /\ Goto(p, "configure")
  /\ UNCHANGED <<lock, config, runtime, hostVars, flaky>>

NotReady(p) ==
  /\ phase[p] = "spawned"
  /\ \/ runtime[p] = "exited" /\ ~running
     \/ flaky
  /\ Goto(p, "stop")
  /\ UNCHANGED <<lock, config, runtime, hostVars, flaky>>

(* configure_network: DNS for NAT, the loopback for `none`. *)
ConfigureNetwork(p) ==
  /\ phase[p] = "configure"
  /\ \/ Goto(p, "bind")
     \/ flaky /\ config[p].mode # "host" /\ Goto(p, "stop")
  /\ UNCHANGED <<lock, config, runtime, hostVars, flaky>>

(* The outer timeout elapses: `?` returns without sandbox.shutdown.        *)
StartupTimeout(p) ==
  /\ flaky
  /\ phase[p] \in {"spawned", "configure"}
  /\ Leave(p)
  /\ running' \in {running, FALSE}
  /\ excused' = excused \cup Present
  /\ UNCHANGED <<config, container, veth, netns, socket, shared, flaky>>

-----------------------------------------------------------------------------
(* run_server *)

(* A listener that cannot be bound stops the sandbox; a failing            *)
(* local_addr()? does not.                                                 *)
BindListener(p) ==
  /\ phase[p] = "bind"
  /\ \/ /\ Goto(p, "serving")
        /\ UNCHANGED <<lock, runtime, running, excused>>
     \/ /\ flaky
        /\ Goto(p, "stop")
        /\ UNCHANGED <<lock, runtime, running, excused>>
     \/ /\ flaky
        /\ Leave(p)
        /\ running' \in {running, FALSE}
        /\ excused' = excused \cup Present
  /\ UNCHANGED <<config, container, veth, netns, socket, shared, flaky>>

(* A signal, and the drain that GracefulShutdown describes. *)
ServerStops(p) ==
  /\ phase[p] = "serving"
  /\ Goto(p, "stop")
  /\ UNCHANGED <<lock, config, runtime, hostVars, flaky>>

(* ContainerSession::shutdown: each part is attempted whatever the others  *)
(* returned. Killing the foreground runtime may or may not end the         *)
(* container.                                                              *)
StopRuntime(p) ==
  /\ phase[p] = "stop"
  /\ Goto(p, "stopContainer")
  /\ runtime' = [runtime EXCEPT ![p] = "none"]
  /\ running' \in {running, FALSE}
  /\ UNCHANGED <<lock, config, container, veth, netns, socket, shared, excused, flaky>>

(* A slip: `?` on the removal of the container. *)
StopContainerReturnsEarly(p) ==
  /\ phase[p] = "stopContainer"
  /\ \/ RemoveSucceeds /\ Goto(p, "stopNetwork") /\ UNCHANGED <<lock, runtime>>
     \/ RemoveFails /\ Leave(p)
  /\ UNCHANGED <<config, veth, netns, socket, shared, flaky>>

StopContainer(p) ==
  /\ phase[p] = "stopContainer"
  /\ RemoveSucceeds \/ RemoveFails
  /\ Goto(p, "stopNetwork")
  /\ UNCHANGED <<lock, config, runtime, veth, netns, socket, shared, flaky>>

StopNetwork(p) ==
  /\ phase[p] = "stopNetwork"
  /\ NetworkCleanup(p)
  /\ Goto(p, "stopProxy")
  /\ UNCHANGED <<lock, config, runtime, container, running, socket, shared, flaky>>

StopProxy(p) ==
  /\ phase[p] = "stopProxy"
  /\ \/ config[p].tools /\ RemoveSocket
     \/ ~config[p].tools /\ UNCHANGED <<socket, excused>>
  /\ Leave(p)
  /\ UNCHANGED <<config, container, running, veth, netns, shared, flaky>>

-----------------------------------------------------------------------------
(* The foreground runtime (external): it refuses an id that is in use, and *)
(* when it exits by itself it deletes the container or leaves it stopped.  *)

RuntimeStarts(p) ==
  /\ runtime[p] = "starting"
  /\ container = None
  /\ runtime' = [runtime EXCEPT ![p] = "up"]
  /\ container' = p
  /\ running' = TRUE
  /\ excused' = excused \ {"container"}
  /\ UNCHANGED <<lock, phase, config, veth, netns, socket, shared, flaky>>

RuntimeRefuses(p) ==
  /\ runtime[p] = "starting"
  /\ container # None \/ flaky
  /\ runtime' = [runtime EXCEPT ![p] = "exited"]
  /\ UNCHANGED <<lock, phase, config, hostVars, flaky>>

RuntimeExits(p) ==
  /\ flaky
  /\ runtime[p] = "up"
  /\ runtime' = [runtime EXCEPT ![p] = "exited"]
  /\ container' \in {None, container}
  /\ running' = FALSE
  /\ UNCHANGED <<lock, phase, config, veth, netns, socket, shared, excused, flaky>>

(* The process is killed: the kernel closes the lock and sends the         *)
(* parent-death signal to the runtime.                                     *)
Crash(p) ==
  /\ flaky
  /\ phase[p] # "off"
  /\ Leave(p)
  /\ running' \in {running, FALSE}
  /\ excused' = excused \cup Present
  /\ UNCHANGED <<config, container, veth, netns, socket, shared, flaky>>

FaultsEnd ==
  /\ flaky
  /\ flaky' = FALSE
  /\ UNCHANGED <<lock, phase, config, runtime, hostVars>>

-----------------------------------------------------------------------------

Init ==
  /\ lock = None
  /\ phase = [p \in Procs |-> "off"]
  /\ config \in [Procs -> Configs]
  /\ runtime = [p \in Procs |-> "none"]
  /\ container = None /\ running = FALSE
  /\ veth = None /\ netns = None /\ socket = None
  /\ shared = {}
  /\ flaky = TRUE
  /\ excused = {}

Starting(p) ==
  \/ RemoveOld(p) \/ CleanOld(p) \/ EnsureShared(p) \/ AddNamespace(p)
  \/ AddVeth(p) \/ StartProxy(p) \/ SpawnContainer(p) \/ BecomesReady(p)
  \/ NotReady(p) \/ ConfigureNetwork(p) \/ BindListener(p)

Stopping(p) ==
  \/ AbortProxy(p) \/ AbortNetwork(p)
  \/ StopRuntime(p) \/ StopContainer(p) \/ StopNetwork(p) \/ StopProxy(p)

Runtime(p) == RuntimeStarts(p) \/ RuntimeRefuses(p) \/ RuntimeExits(p)

Next ==
  \/ \E p \in Procs :
       \/ AcquireLock(p) \/ CheckFails(p) \/ StartupTimeout(p) \/ Crash(p)
       \/ Starting(p) \/ ServerStops(p) \/ Stopping(p) \/ Runtime(p)
  \/ FaultsEnd

Spec == Init /\ [][Next]_vars

(* Processes that were started run, and so does the runtime they spawned.  *)
(* Nobody has to start a process, to stop one or to repair the host.       *)
Fairness == \A p \in Procs : WF_vars(Starting(p) \/ Stopping(p)) /\ WF_vars(Runtime(p))

FairSpec == Spec /\ Fairness

-----------------------------------------------------------------------------
(* Properties *)

StartPhases == {"locked", "removed", "bridge", "netns", "veth", "network",
                "bundle", "spawned", "configure", "bind"}
StopPhases == {"abortProxy", "abortNetwork", "stop", "stopContainer",
               "stopNetwork", "stopProxy"}

(* The values each variable takes. *)
TypeOK ==
  /\ lock \in Owners
  /\ phase \in [Procs -> {"off", "serving"} \cup StartPhases \cup StopPhases]
  /\ config \in [Procs -> Configs]
  /\ runtime \in [Procs -> {"none", "starting", "up", "exited"}]
  /\ container \in Owners
  /\ running \in BOOLEAN
  /\ veth \in Owners /\ netns \in Owners /\ socket \in Owners
  /\ shared \subseteq {"bridge", "rules"}
  /\ flaky \in BOOLEAN
  /\ excused \subseteq Resources

(* One process at a time works on the resources of an instance. *)
LockHolder == \A p \in Procs : phase[p] # "off" <=> lock = p

(* A foreground runtime never outlives the session that owns it. *)
RuntimeOwned ==
  \A p \in Procs :
    runtime[p] # "none" =>
      phase[p] \in {"spawned", "configure", "bind", "serving", "stop"}

(* A server that accepts requests runs them in the container it started,   *)
(* on the network and behind the tool socket it set up, never in what an   *)
(* earlier process left under the same names, although wait_until_running  *)
(* only asks for the instance id.                                          *)
OwnSandbox ==
  \A p \in Procs :
    phase[p] \in {"configure", "bind", "serving"} =>
      /\ container \in {p, None}
      /\ IsNat(p) => veth = p /\ netns = p /\ shared = {"bridge", "rules"}
      /\ config[p].tools => socket = p

(* Whatever is left once no process runs was left by a fault: a crash, a   *)
(* command that failed, or the startup deadline. Every error path that     *)
(* start and shutdown handle cleans up all that was set up before it.      *)
LeftoversExplained == lock = None => Present \subseteq excused

(* The inductive invariant: what a process has set up so far is its own,   *)
(* and what is there beyond that was left by a fault.                      *)
SessionPhases == {"spawned", "configure", "bind", "serving", "stop"}
NetworkPhases == SessionPhases \cup {"network", "bundle", "abortProxy",
                   "abortNetwork", "stopContainer", "stopNetwork"}
SocketPhases == SessionPhases \cup {"bundle", "abortProxy", "stopContainer",
                  "stopNetwork", "stopProxy"}

OwnsWhatItSetUp ==
  \A p \in Procs :
    /\ phase[p] \in {"bridge", "netns", "veth"} => IsNat(p)
    /\ phase[p] \in {"removed", "bridge", "netns", "veth", "network", "bundle"}
         => container = None
    /\ phase[p] \in SessionPhases => container \in {p, None}
    /\ IsNat(p) /\ phase[p] \in {"netns", "veth"} \cup NetworkPhases
         => shared = {"bridge", "rules"}
    /\ IsNat(p) /\ phase[p] \in {"veth"} \cup NetworkPhases => netns = p
    /\ IsNat(p) /\ phase[p] \in NetworkPhases => veth = p
    /\ config[p].tools /\ phase[p] \in SocketPhases => socket = p

HeldOrExcused ==
  /\ container # None /\ "container" \notin excused =>
       \E p \in Procs : phase[p] \in SessionPhases \cup {"stopContainer"}
  /\ netns # None /\ "netns" \notin excused =>
       \E p \in Procs : IsNat(p) /\ phase[p] \in {"veth"} \cup NetworkPhases
  /\ veth # None /\ "veth" \notin excused =>
       \E p \in Procs : IsNat(p) /\ phase[p] \in NetworkPhases
  /\ socket # None /\ "socket" \notin excused =>
       \E p \in Procs : config[p].tools /\ phase[p] \in SocketPhases

Inv ==
  /\ TypeOK
  /\ LockHolder
  /\ RuntimeOwned
  /\ OwnsWhatItSetUp
  /\ HeldOrExcused

(* Once faults have stopped, a process that gets the lock ends up serving, *)
(* whatever earlier processes left on the host.                            *)
Recovers ==
  \A p \in Procs : ~flaky /\ phase[p] = "locked" ~> phase[p] = "serving"
=============================================================================
