---------------------- MODULE GracefulShutdown_proofs ----------------------
(***************************************************************************)
(* Proofs about GracefulShutdown, for any finite set of tasks.             *)
(***************************************************************************)
EXTENDS GracefulShutdown, FiniteSetTheorems, TLAPS

(* The leased tasks are finitely many, so their number is a natural.       *)
LEMMA LeasedFinite ==
  /\ IsFiniteSet(Leased)
  /\ Cardinality(Leased) \in Nat
<1>1. Leased \subseteq Tasks
  BY DEF Leased
<1>2. IsFiniteSet(Leased)
  BY <1>1, TasksFinite, FS_Subset
<1>3. QED
  BY <1>2, FS_CardinalityType

(* The shutdown state machine starts in its inductive invariant.           *)
LEMMA InitInv == Init => Inv
<1> SUFFICES ASSUME Init PROVE Inv
  OBVIOUS
<1>1. Leased = {}
  BY DEF Init, Leased
<1>2. CountIsLeases
  BY <1>1, FS_EmptySet DEF Init, CountIsLeases
<1>3. QED
  BY <1>2 DEF Init, Inv, TypeOK, Drained, ClosedIsQuiet, HandlerBeforeLease,
              StoppingIsIdle, NoLostWakeup

(* A step that touches no lease and not the counter keeps their agreement. *)
LEMMA CountKept ==
  ASSUME CountIsLeases, lease' = lease, count' = count
  PROVE  CountIsLeases'
BY DEF CountIsLeases, Leased

(* Spawning a runner adds exactly one lease and one to the counter.        *)
LEMMA CountSpawn ==
  ASSUME Inv, NEW t \in Tasks, PostSpawns(t)
  PROVE  CountIsLeases'
<1>1. t \notin Leased
  BY DEF Inv, HandlerBeforeLease, PostSpawns, Leased
<1>2. Leased' = Leased \cup {t}
  BY DEF Inv, TypeOK, PostSpawns, Leased
<1>3. Cardinality(Leased') = Cardinality(Leased) + 1
  BY <1>1, <1>2, LeasedFinite, FS_AddElement
<1>4. QED
  BY <1>3 DEF Inv, CountIsLeases, PostSpawns

(* Dropping a lease takes exactly one from the counter, which is not zero. *)
LEMMA CountDrop ==
  ASSUME Inv, NEW t \in Tasks, DropLease(t)
  PROVE  /\ CountIsLeases'
         /\ count' \in Nat
<1>1. t \in Leased
  BY DEF DropLease, Leased
<1>2. Leased' = Leased \ {t}
  BY DEF Inv, TypeOK, DropLease, Leased
<1>3. Cardinality(Leased') = Cardinality(Leased) - 1
  BY <1>1, <1>2, LeasedFinite, FS_RemoveElement
<1>4. Cardinality(Leased) # 0
  BY <1>1, LeasedFinite, FS_EmptySet
<1>5. QED
  BY <1>3, <1>4, LeasedFinite DEF Inv, CountIsLeases, DropLease

(* Without a lease the counter is zero only if no task is leased.          *)
LEMMA ZeroMeansIdle ==
  ASSUME CountIsLeases, count = 0
  PROVE  Leased = {}
BY LeasedFinite, FS_EmptySet DEF CountIsLeases

(* Every step of the server, the leases, the cleanup loop and the shutdown *)
(* sequence preserves the invariant.                                       *)
LEMMA NextInv == Inv /\ [Next]_vars => Inv'
<1> SUFFICES ASSUME Inv, [Next]_vars PROVE Inv'
  OBVIOUS
<1> USE DEF Inv, TypeOK, Drained, ClosedIsQuiet, HandlerBeforeLease,
            StoppingIsIdle, NoLostWakeup
<1>1. ASSUME NEW t \in Tasks, PostStart(t) PROVE Inv'
  BY <1>1, CountKept DEF PostStart
<1>2. ASSUME NEW t \in Tasks, PostSpawns(t) PROVE Inv'
  <2>1. server # "closed" /\ shut = "none"
    BY <1>2 DEF PostSpawns
  <2>2. CountIsLeases'
    BY <1>2, CountSpawn
  <2>3. QED
    BY <1>2, <2>1, <2>2 DEF PostSpawns
<1>3. ASSUME NEW t \in Tasks, PostDropped(t) PROVE Inv'
  BY <1>3, CountKept DEF PostDropped
<1>4. ASSUME NEW t \in Tasks, RunnerReturns(t) PROVE Inv'
  <2>1. Leased' = Leased
    BY <1>4 DEF RunnerReturns, Leased
  <2>2. CountIsLeases'
    BY <1>4, <2>1 DEF RunnerReturns, CountIsLeases
  <2>3. QED
    BY <1>4, <2>2 DEF RunnerReturns
<1>5. ASSUME NEW t \in Tasks, DropLease(t) PROVE Inv'
  <2>1. CountIsLeases' /\ count' \in Nat /\ count' = count - 1
    BY <1>5, CountDrop DEF DropLease
  <2>2. count # 0
    BY <2>1
  <2>3. NoLostWakeup'
    BY <1>5, <2>1 DEF DropLease
  <2>4. QED
    BY <1>5, <2>1, <2>2, <2>3 DEF DropLease
<1>6. ASSUME NEW t \in Tasks, NotifyIdle(t) PROVE Inv'
  <2>1. Leased' = Leased
    BY <1>6 DEF NotifyIdle, Leased
  <2>2. CountIsLeases'
    BY <1>6, <2>1 DEF NotifyIdle, CountIsLeases
  <2>3. QED
    BY <1>6, <2>2 DEF NotifyIdle
<1>7. CASE CleanupTick
  BY <1>7, CountKept DEF CleanupTick
<1>8. CASE Cleanup
  BY <1>8, CountKept DEF Cleanup
<1>9. CASE CleanupStops
  BY <1>9, CountKept DEF CleanupStops
<1>10. CASE ShutdownSignal
  BY <1>10, CountKept DEF ShutdownSignal
<1>11. CASE ServerClosed
  BY <1>11, CountKept DEF ServerClosed
<1>12. CASE IdleCheck
  BY <1>12, CountKept DEF IdleCheck
<1>13. CASE IdleRegister
  BY <1>13, CountKept DEF IdleRegister
<1>14. CASE IdleWoken
  BY <1>14, CountKept DEF IdleWoken
<1>15. CASE StopCleanup
  BY <1>15, CountKept DEF StopCleanup
<1>16. CASE JoinCleanup
  BY <1>16, CountKept DEF JoinCleanup
<1>17. CASE SandboxShutdown
  BY <1>17, CountKept DEF SandboxShutdown
<1>18. CASE UNCHANGED vars
  BY <1>18, CountKept DEF vars
<1>19. QED
  BY <1>1, <1>2, <1>3, <1>4, <1>5, <1>6, <1>7, <1>8, <1>9, <1>10, <1>11,
     <1>12, <1>13, <1>14, <1>15, <1>16, <1>17, <1>18 DEF Next, Lease, Shutdown

(* The inductive invariant holds in every reachable state: the counter is  *)
(* the number of leases, and wait_for_idle loses no wakeup.                *)
THEOREM Invariance == Spec => []Inv
<1>1. QED
  BY InitInv, NextInv, PTL DEF Spec

(* For every number of tasks, when the sandbox is stopped no runner is     *)
(* left, no handler can still spawn one and the cleanup loop is gone.      *)
THEOREM StopsOnlyWhenIdle == Spec => []NoTaskAfterStop
<1>1. Inv => NoTaskAfterStop
  <2> SUFFICES ASSUME Inv, sandbox = "stopped"
               PROVE  /\ Leased = {}
                      /\ \A t \in Tasks : post[t] # "handling"
                      /\ cleaner = "stopped"
    BY DEF NoTaskAfterStop
  <2>1. shut = "returned" /\ count = 0 /\ cleaner = "stopped"
    BY DEF Inv, StoppingIsIdle
  <2>2. Leased = {}
    BY <2>1, ZeroMeansIdle DEF Inv
  <2>3. QED
    BY <2>1, <2>2 DEF Inv, Drained, ClosedIsQuiet
<1>2. QED
  BY <1>1, Invariance, PTL
=============================================================================
