-------------------------- MODULE GracefulShutdown --------------------------
(***************************************************************************)
(* How the server stops: axum drains the requests in flight, then          *)
(* ExecutionService::shutdown waits until no task is active, stops the     *)
(* cleanup loop and only then the sandbox. The runners are reduced to the  *)
(* life of the lease each one owns; TaskExecution implements this          *)
(* specification with the real runners.                                    *)
(***************************************************************************)
EXTENDS Naturals, FiniteSets

CONSTANT Tasks

ASSUME TasksFinite == IsFiniteSet(Tasks)

VARIABLES
  server,       \* "serving", "draining" (signal received), "closed"
  post,         \* the POST that creates the task: "none", "handling", "over"
  lease,        \* "none", "active", "drop", "notify", "done"
  count,        \* ActiveTasks.count
  shut,         \* where ExecutionService::shutdown is
  woken,        \* notify_waiters called since the Notified future was created
  cleaner,      \* "idle" (in select!), "sweep" (in cleanup), "stopped"
  stopPermit,   \* CleanupSupervisor.stop holds its notify_one permit
  sandbox       \* "running", "stopped"

vars == <<server, post, lease, count, shut, woken, cleaner, stopPermit, sandbox>>

(* The tasks wait_for_idle has to wait for. *)
Leased == {t \in Tasks : lease[t] \in {"active", "drop"}}

-----------------------------------------------------------------------------
(* A POST handler starts while axum accepts; it ends with a runner that    *)
(* owns a lease, or is dropped before its runner existed.                  *)

PostStart(t) ==
  /\ server = "serving"
  /\ post[t] = "none"
  /\ post' = [post EXCEPT ![t] = "handling"]
  /\ UNCHANGED <<server, lease, count, shut, woken, cleaner, stopPermit, sandbox>>

PostSpawns(t) ==
  /\ post[t] = "handling"
  /\ post' = [post EXCEPT ![t] = "over"]
  /\ lease' = [lease EXCEPT ![t] = "active"]
  /\ count' = count + 1
  /\ UNCHANGED <<server, shut, woken, cleaner, stopPermit, sandbox>>

PostDropped(t) ==
  /\ post[t] = "handling"
  /\ post' = [post EXCEPT ![t] = "over"]
  /\ UNCHANGED <<server, lease, count, shut, woken, cleaner, stopPermit, sandbox>>

(* The runner of the task is over and is about to drop its lease. *)
RunnerReturns(t) ==
  /\ lease[t] = "active"
  /\ lease' = [lease EXCEPT ![t] = "drop"]
  /\ UNCHANGED <<server, post, count, shut, woken, cleaner, stopPermit, sandbox>>

(* A slip: fetch_sub returns the value before the subtraction, not after. *)
DropLeaseComparesZero(t) ==
  /\ lease[t] = "drop"
  /\ count' = count - 1
  /\ lease' = [lease EXCEPT ![t] = IF count = 0 THEN "notify" ELSE "done"]
  /\ UNCHANGED <<server, post, shut, woken, cleaner, stopPermit, sandbox>>

(* TaskLease::drop: fetch_sub, and notify_waiters when it returned 1. *)
DropLease(t) ==
  /\ lease[t] = "drop"
  /\ count' = count - 1
  /\ lease' = [lease EXCEPT ![t] = IF count = 1 THEN "notify" ELSE "done"]
  /\ UNCHANGED <<server, post, shut, woken, cleaner, stopPermit, sandbox>>

NotifyIdle(t) ==
  /\ lease[t] = "notify"
  /\ lease' = [lease EXCEPT ![t] = "done"]
  /\ woken' = (woken \/ shut \in {"recheck", "await"})
  /\ UNCHANGED <<server, post, count, shut, cleaner, stopPermit, sandbox>>

-----------------------------------------------------------------------------
(* The cleanup loop: a select! of the interval and the stop notification. *)

CleanupTick ==
  /\ cleaner = "idle"
  /\ cleaner' = "sweep"
  /\ UNCHANGED <<server, post, lease, count, shut, woken, stopPermit, sandbox>>

Cleanup ==
  /\ cleaner = "sweep"
  /\ cleaner' = "idle"
  /\ UNCHANGED <<server, post, lease, count, shut, woken, stopPermit, sandbox>>

CleanupStops ==
  /\ cleaner = "idle"
  /\ stopPermit
  /\ stopPermit' = FALSE
  /\ cleaner' = "stopped"
  /\ UNCHANGED <<server, post, lease, count, shut, woken, sandbox>>

-----------------------------------------------------------------------------

ShutdownSignal ==
  /\ server = "serving"
  /\ server' = "draining"
  /\ UNCHANGED <<post, lease, count, shut, woken, cleaner, stopPermit, sandbox>>

(* A slip: the server is aborted, not drained. *)
ServerAborts ==
  /\ server = "draining"
  /\ server' = "closed"
  /\ shut' = "check"
  /\ UNCHANGED <<post, lease, count, woken, cleaner, stopPermit, sandbox>>

(* axum::serve returns when no request is in flight. *)
ServerClosed ==
  /\ server = "draining"
  /\ \A t \in Tasks : post[t] # "handling"
  /\ server' = "closed"
  /\ shut' = "check"
  /\ UNCHANGED <<post, lease, count, woken, cleaner, stopPermit, sandbox>>

(* wait_for_idle: load, create the Notified future, load again, await it. *)
IdleCheck ==
  /\ shut \in {"check", "recheck"}
  /\ shut' = CASE count = 0 -> "stopCleanup"
               [] count # 0 /\ shut = "check" -> "register"
               [] OTHER -> "await"
  /\ UNCHANGED <<server, post, lease, count, woken, cleaner, stopPermit, sandbox>>

(* A slip: the counter is not read again once `notified` exists. *)
IdleRegisterThenAwait ==
  /\ shut = "register"
  /\ shut' = "await"
  /\ woken' = FALSE
  /\ UNCHANGED <<server, post, lease, count, cleaner, stopPermit, sandbox>>

IdleRegister ==
  /\ shut = "register"
  /\ shut' = "recheck"
  /\ woken' = FALSE
  /\ UNCHANGED <<server, post, lease, count, cleaner, stopPermit, sandbox>>

IdleWoken ==
  /\ shut = "await"
  /\ woken
  /\ shut' = "check"
  /\ UNCHANGED <<server, post, lease, count, woken, cleaner, stopPermit, sandbox>>

(* shutdown_cleanup: notify_one, then join the loop. *)
StopCleanup ==
  /\ shut = "stopCleanup"
  /\ shut' = "joinCleanup"
  /\ stopPermit' = TRUE
  /\ UNCHANGED <<server, post, lease, count, woken, cleaner, sandbox>>

JoinCleanup ==
  /\ shut = "joinCleanup"
  /\ cleaner = "stopped"
  /\ shut' = "sandbox"
  /\ UNCHANGED <<server, post, lease, count, woken, cleaner, stopPermit, sandbox>>

(* sandbox.shutdown: the container and everything in it are killed. *)
SandboxShutdown ==
  /\ shut = "sandbox"
  /\ shut' = "returned"
  /\ sandbox' = "stopped"
  /\ UNCHANGED <<server, post, lease, count, woken, cleaner, stopPermit>>

-----------------------------------------------------------------------------

Init ==
  /\ server = "serving"
  /\ post = [t \in Tasks |-> "none"]
  /\ lease = [t \in Tasks |-> "none"]
  /\ count = 0
  /\ shut = "none" /\ woken = FALSE
  /\ cleaner = "idle" /\ stopPermit = FALSE
  /\ sandbox = "running"

Lease(t) == RunnerReturns(t) \/ DropLease(t) \/ NotifyIdle(t)

Shutdown ==
  \/ IdleCheck \/ IdleRegister \/ IdleWoken
  \/ StopCleanup \/ JoinCleanup \/ SandboxShutdown

Next ==
  \/ \E t \in Tasks : PostStart(t) \/ PostSpawns(t) \/ PostDropped(t) \/ Lease(t)
  \/ CleanupTick \/ Cleanup \/ CleanupStops
  \/ ShutdownSignal \/ ServerClosed \/ Shutdown

Spec == Init /\ [][Next]_vars

(* The program's tasks are scheduled, requests in flight end, and every    *)
(* runner returns (what TaskExecution's TaskCompletes says of run_task).   *)
(* select! polls the stop branch between two ticks of the 60 s interval,   *)
(* hence the strong fairness of CleanupStops.                              *)
Fairness ==
  /\ \A t \in Tasks : WF_vars(PostSpawns(t) \/ PostDropped(t)) /\ WF_vars(Lease(t))
  /\ WF_vars(Cleanup) /\ SF_vars(CleanupStops)
  /\ WF_vars(ServerClosed) /\ WF_vars(Shutdown)

FairSpec == Spec /\ Fairness

-----------------------------------------------------------------------------
(* Properties *)

(* The values each variable takes. *)
TypeOK ==
  /\ server \in {"serving", "draining", "closed"}
  /\ post \in [Tasks -> {"none", "handling", "over"}]
  /\ lease \in [Tasks -> {"none", "active", "drop", "notify", "done"}]
  /\ count \in Nat
  /\ shut \in {"none", "check", "register", "recheck", "await", "stopCleanup",
               "joinCleanup", "sandbox", "returned"}
  /\ woken \in BOOLEAN
  /\ cleaner \in {"idle", "sweep", "stopped"}
  /\ stopPermit \in BOOLEAN
  /\ sandbox \in {"running", "stopped"}

(* The active counter is the number of leases in existence, so             *)
(* wait_for_idle neither returns early nor waits for nobody.               *)
CountIsLeases == count = Cardinality(Leased)

(* Graceful shutdown waits for accepted tasks: when the sandbox is stopped *)
(* no runner is left, no handler in flight can still spawn one, and the    *)
(* cleanup loop is gone (ExecutionService::shutdown after axum::serve).    *)
NoTaskAfterStop ==
  sandbox = "stopped" =>
    /\ Leased = {}
    /\ \A t \in Tasks : post[t] # "handling"
    /\ cleaner = "stopped"

(* No lost wakeup: whenever wait_for_idle sleeps although no task is       *)
(* active, it has been notified or the last lease is about to notify it.   *)
NoLostWakeup ==
  shut = "await" /\ count = 0 =>
    woken \/ \E t \in Tasks : lease[t] = "notify"

(* After a signal the process eventually stops its sandbox: the drain, the *)
(* wait for idle and the join of the cleanup loop all end.                 *)
ShutdownCompletes == server = "draining" ~> sandbox = "stopped"

(* The inductive invariant. The phases of shutdown are ordered: the wait   *)
(* for idle starts once no handler is in flight, and what follows it once  *)
(* no task is active; a second wakeup is never needed because after the    *)
(* drain a lease is never created again.                                   *)
Drained == shut # "none" => server = "closed"
ClosedIsQuiet == server = "closed" => \A t \in Tasks : post[t] # "handling"
HandlerBeforeLease == \A t \in Tasks : lease[t] # "none" => post[t] = "over"
StoppingIsIdle ==
  /\ shut \in {"stopCleanup", "joinCleanup", "sandbox", "returned"} => count = 0
  /\ shut \in {"sandbox", "returned"} => cleaner = "stopped"
  /\ sandbox = "stopped" => shut = "returned"

Inv ==
  /\ TypeOK
  /\ Drained
  /\ ClosedIsQuiet
  /\ HandlerBeforeLease
  /\ CountIsLeases
  /\ StoppingIsIdle
  /\ NoLostWakeup
=============================================================================
