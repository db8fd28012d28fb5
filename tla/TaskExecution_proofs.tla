----------------------- MODULE TaskExecution_proofs -----------------------
(***************************************************************************)
(* Proofs about TaskExecution, for any finite set of tasks, any exit       *)
(* codes, any timeouts and any amount of output.                           *)
(***************************************************************************)
EXTENDS TaskExecution, SequenceTheorems, FiniteSetTheorems, TLAPS

(* Every event of events.rs is one of Events. *)
LEMMA PlainEvents ==
  \A n \in {"started", "timed_out", "failed", "stdout", "stderr"} :
    Event(n) \in Events /\ Event(n).name = n /\ Event(n).code = None
BY Zenon DEF Event, Events, OutputNames

LEMMA FinishedEvents ==
  \A c \in ExitCodes \cup {None} :
    Finished(c) \in Events /\ IsTerminal(Finished(c))
BY Zenon DEF Finished, Events, IsTerminal

(* Which of them are terminal. *)
LEMMA TerminalEvents ==
  /\ IsTerminal(Event("failed")) /\ IsTerminal(Event("timed_out"))
  /\ \A s \in Streams : ~IsTerminal(Event(s))
  /\ ~IsTerminal(Event("started"))
BY DEF Event, IsTerminal, Streams, OutputNames

(* What publish stores in the snapshot for a terminal event. *)
LEMMA EventFields ==
  \A e \in Events : /\ e.code \in ExitCodes \cup {None}
                    /\ IsTerminal(e) => StatusOf(e) \in Statuses
                    /\ IsTerminal(e) => StatusOf(e) = e.name
BY DEF StatusOf, Statuses, IsTerminal, Events, Event, Finished, OutputNames

(* Publishing keeps the store well typed. *)
LEMMA PublishType ==
  ASSUME StoreType, NEW t \in Tasks, NEW e \in Events, Publish(t, e)
  PROVE  StoreType'
<1>1. e.code \in ExitCodes \cup {None} /\ (IsTerminal(e) => StatusOf(e) \in Statuses)
  BY EventFields
<1>2. Retention \in 0..Retention /\ 0 \in 0..Retention
  BY TimesAreNaturals
<1>3. CASE t \notin stored
  BY <1>3 DEF StoreType, Publish, storeVars
<1>4. CASE t \in stored
  <2>1. Append(history[t], e) \in Seq(Events)
    BY AppendProperties DEF StoreType
  <2>2. history' = [history EXCEPT ![t] = Append(history[t], e)] /\ stored' = stored
    BY <1>4 DEF Publish
  <2>3. history' \in [Tasks -> Seq(Events)]
    BY <2>1, <2>2 DEF StoreType
  <2>4. CASE IsTerminal(e)
    <3>1. [status |-> StatusOf(e), exit_code |-> e.code]
            \in [status : Statuses, exit_code : ExitCodes \cup {None}]
      BY <1>1, <2>4
    <3>2. /\ snapshot' = [snapshot EXCEPT ![t] = [status |-> StatusOf(e),
                                                  exit_code |-> e.code]]
          /\ ttl' = [ttl EXCEPT ![t] = Retention]
          /\ due' = due \ {t}
          /\ age' = [age EXCEPT ![t] = 0]
      BY <1>4, <2>4 DEF Publish
    <3>3. snapshot' \in [Tasks -> [status : Statuses,
                                   exit_code : ExitCodes \cup {None}]]
      BY <3>1, <3>2 DEF StoreType
    <3>4. QED
      BY <1>2, <2>2, <2>3, <3>2, <3>3 DEF StoreType
  <2>5. CASE ~IsTerminal(e)
    <3>1. UNCHANGED <<snapshot, ttl, due, age>>
      BY <1>4, <2>5 DEF Publish
    <3>2. QED
      BY <2>2, <2>3, <3>1 DEF StoreType
  <2>6. QED
    BY <2>4, <2>5
<1>5. QED
  BY <1>3, <1>4

(* The timeout of a task is at most sandbox.max_timeout_seconds. *)
LEMMA TimeoutType == \A r \in Requested : EffectiveTimeout(r) \in 0..MaxTimeout
BY TimesAreNaturals DEF EffectiveTimeout

(* The initial state is well typed. *)
LEMMA InitType == Init => TypeOK
<1> SUFFICES ASSUME Init PROVE TypeOK
  OBVIOUS
<1>1. StoreType
  BY TimesAreNaturals DEF Init, HistoryInit, StoreType, Statuses
<1>2. Event("failed") \in {e \in Events : IsTerminal(e)}
  BY PlainEvents, TerminalEvents
<1>3. RunType
  BY <1>2, TimesAreNaturals DEF Init, RunType, LeaseStates, ReaderStates
<1>4. ChildType /\ ServerType
  BY TimesAreNaturals DEF Init, ChildType, ServerType
<1>5. QED
  BY <1>1, <1>3, <1>4 DEF TypeOK

(* The variables of one group keep their types in a step that leaves the   *)
(* group alone.                                                            *)
LEMMA StoreKept == ASSUME StoreType, UNCHANGED storeVars PROVE StoreType'
BY DEF StoreType, storeVars

LEMMA RunKept ==
  ASSUME RunType, UNCHANGED <<cancelVars, runVars, readVars>> PROVE RunType'
BY DEF RunType, cancelVars, runVars, readVars

LEMMA ChildKept == ASSUME ChildType, UNCHANGED childVars PROVE ChildType'
BY DEF ChildType, childVars

LEMMA ServerKept ==
  ASSUME ServerType, UNCHANGED <<handlerVars, shutVars>> PROVE ServerType'
BY DEF ServerType, handlerVars, shutVars

(* Every step keeps the variables well typed; that the counter does not    *)
(* fall below zero is the part GracefulShutdown's invariant supplies.      *)
LEMMA NextType == TypeOK /\ [Next]_vars /\ count' \in Nat => TypeOK'
<1> SUFFICES ASSUME TypeOK, [Next]_vars, count' \in Nat PROVE TypeOK'
  OBVIOUS
<1> USE StoreKept, RunKept, ChildKept, ServerKept DEF TypeOK
<1>1. ASSUME NEW t \in Tasks, Handler(t) PROVE TypeOK'
  <2>1. CASE PostStart(t)
    BY <2>1 DEF PostStart, ServerType, handlerVars, shutVars
  <2>2. CASE CreateInsert(t)
    BY <2>2, TimesAreNaturals DEF CreateInsert, StoreType, ServerType,
       storeVars, handlerVars, shutVars, Statuses
  <2>3. CASE CreateRegister(t)
    BY <2>3 DEF CreateRegister, RunType, ServerType, cancelVars, runVars,
       readVars, handlerVars, shutVars, LeaseStates
  <2>4. CASE PostDropped(t)
    BY <2>4 DEF PostDropped, ServerType, handlerVars, shutVars
  <2>5. CASE DeleteStart(t)
    BY <2>5 DEF DeleteStart, ServerType, handlerVars, shutVars
  <2>6. CASE Cancel(t)
    BY <2>6 DEF Cancel, RunType, ServerType, cancelVars, runVars, readVars,
       handlerVars, shutVars
  <2>7. CASE DeleteReply(t)
    BY <2>7 DEF DeleteReply, ServerType, handlerVars, shutVars
  <2>8. QED
    BY <1>1, <2>1, <2>2, <2>3, <2>4, <2>5, <2>6, <2>7 DEF Handler
<1>2. ASSUME NEW t \in Tasks, Runner(t) PROVE TypeOK'
  <2>1. CASE PublishStarted(t)
    BY <2>1, PublishType, PlainEvents DEF PublishStarted, RunType,
       cancelVars, runVars, readVars, LeaseStates
  <2>2. CASE ExecFails(t)
    BY <2>2, PlainEvents, FinishedEvents, TerminalEvents DEF ExecFails,
       RunType, cancelVars, runVars, readVars, LeaseStates
  <2>3. CASE ExecSpawns(t)
    BY <2>3 DEF ExecSpawns, RunType, ChildType, cancelVars, runVars,
       readVars, childVars, LeaseStates
  <2>4. CASE WriteStdin(t)
    BY <2>4, TimeoutType DEF WriteStdin, RunType, ChildType, cancelVars,
       runVars, readVars, childVars, LeaseStates, ReaderStates
  <2>5. CASE WaitExit(t)
    BY <2>5, PlainEvents, FinishedEvents, TerminalEvents DEF WaitExit,
       RunType, cancelVars, runVars, readVars, LeaseStates
  <2>6. CASE WaitCancel(t)
    BY <2>6 DEF WaitCancel, RunType, ChildType, cancelVars, runVars,
       readVars, childVars, LeaseStates
  <2>7. CASE WaitKilled(t)
    BY <2>7, PlainEvents, FinishedEvents, TerminalEvents DEF WaitKilled,
       RunType, cancelVars, runVars, readVars, LeaseStates
  <2>8. CASE TimeoutFires(t)
    BY <2>8 DEF TimeoutFires, RunType, ChildType, cancelVars, runVars,
       readVars, childVars, LeaseStates
  <2>9. CASE Reaped(t)
    BY <2>9, PlainEvents, FinishedEvents, TerminalEvents DEF Reaped,
       RunType, cancelVars, runVars, readVars, LeaseStates
  <2>10. CASE PublishTerminal(t)
    <3>1. outcome[t] \in Events
      BY DEF RunType
    <3>2. QED
      BY <2>10, <3>1, PublishType DEF PublishTerminal, RunType, LeaseStates, cancelVars,
         runVars, readVars
  <2>11. CASE ClearCancellation(t)
    BY <2>11 DEF ClearCancellation, RunType, cancelVars, runVars, readVars,
       LeaseStates
  <2>12. CASE DropLease(t)
    BY <2>12 DEF DropLease, RunType, ServerType, cancelVars, runVars,
       readVars, handlerVars, shutVars, LeaseStates
  <2>13. CASE NotifyIdle(t)
    BY <2>13 DEF NotifyIdle, RunType, ServerType, cancelVars, runVars,
       readVars, handlerVars, shutVars, LeaseStates
  <2>14. QED
    BY <1>2, <2>1, <2>2, <2>3, <2>4, <2>5, <2>6, <2>7, <2>8, <2>9, <2>10, <2>11, <2>12, <2>13 DEF Runner
<1>3. ASSUME NEW t \in Tasks, Child(t) PROVE TypeOK'
  <2>1. ASSUME NEW s \in Streams, ChildWrites(t, s) PROVE TypeOK'
    BY <2>1 DEF ChildWrites, ChildType, childVars
  <2>2. CASE ChildTakesStdin(t)
    BY <2>2 DEF ChildTakesStdin, ChildType, childVars
  <2>3. CASE ChildExits(t)
    BY <2>3 DEF ChildExits, ChildType, childVars
  <2>4. CASE PipesReleased(t)
    BY <2>4 DEF PipesReleased, ChildType, childVars
  <2>5. QED
    BY <1>3, <2>1, <2>2, <2>3, <2>4 DEF Child
<1>4. ASSUME NEW t \in Tasks, NEW s \in Streams, Reader(t, s) PROVE TypeOK'
  <2>1. CASE ReadChunk(t, s)
    BY <2>1 DEF ReadChunk, RunType, ChildType, cancelVars, runVars,
       readVars, childVars, ReaderStates
  <2>2. CASE PublishChunk(t, s)
    BY <2>2, PublishType, PlainEvents DEF PublishChunk, RunType, cancelVars,
       runVars, readVars, ReaderStates, Streams, OutputNames
  <2>3. CASE ReadEof(t, s)
    BY <2>3 DEF ReadEof, RunType, cancelVars, runVars, readVars,
       ReaderStates
  <2>4. CASE ReadFails(t, s)
    BY <2>4 DEF ReadFails, RunType, cancelVars, runVars, readVars,
       ReaderStates
  <2>5. QED
    BY <1>4, <2>1, <2>2, <2>3, <2>4 DEF Reader
<1>5. CASE CleanupTick
  BY <1>5 DEF CleanupTick, StoreType, ServerType, storeVars, handlerVars,
     shutVars
<1>6. CASE Cleanup
  BY <1>6 DEF Cleanup, StoreType, ServerType, storeVars, handlerVars,
     shutVars
<1>7. CASE CleanupStops
  BY <1>7 DEF CleanupStops, ServerType, handlerVars, shutVars
<1>8. CASE ShutdownSignal
  BY <1>8 DEF ShutdownSignal, ServerType, handlerVars, shutVars
<1>9. CASE ServerClosed
  BY <1>9 DEF ServerClosed, ServerType, handlerVars, shutVars
<1>10. CASE IdleCheck
  BY <1>10 DEF IdleCheck, ServerType, handlerVars, shutVars
<1>11. CASE IdleRegister
  BY <1>11 DEF IdleRegister, ServerType, handlerVars, shutVars
<1>12. CASE IdleWoken
  BY <1>12 DEF IdleWoken, ServerType, handlerVars, shutVars
<1>13. CASE StopCleanup
  BY <1>13 DEF StopCleanup, ServerType, handlerVars, shutVars
<1>14. CASE JoinCleanup
  BY <1>14 DEF JoinCleanup, ServerType, handlerVars, shutVars
<1>15. CASE SandboxShutdown
  BY <1>15 DEF SandboxShutdown, ServerType, handlerVars, shutVars
<1>16. CASE Tick
  <2>1. \A n \in Nat : \A k \in 0..n : Earlier(k) \in 0..n
    BY DEF Earlier
  <2>2. ttl' \in [Tasks -> 0..Retention] /\ timer' \in [Tasks -> 0..MaxTimeout]
    BY <1>16, <2>1, TimesAreNaturals DEF Tick, StoreType, RunType
  <2>3. age' \in [Tasks -> 0..Retention]
    <3>1. \A k \in 0..Retention : k < Retention => k + 1 \in 0..Retention
      BY TimesAreNaturals
    <3>2. QED
      BY <1>16, <3>1 DEF Tick, StoreType
  <2>4. StoreType' /\ RunType'
    BY <1>16, <2>2, <2>3 DEF Tick, StoreType, RunType, cancelVars, readVars
  <2>5. QED
    BY <1>16, <2>4 DEF Tick
<1>17. CASE UNCHANGED vars
  BY <1>17 DEF vars
<1>18. QED
  BY <1>1, <1>2, <1>3, <1>4, <1>5, <1>6, <1>7, <1>8, <1>9, <1>10, <1>11,
     <1>12, <1>13, <1>14, <1>15, <1>16, <1>17 DEF Next, CleanupLoop,
     Shutdown

-----------------------------------------------------------------------------
(* TaskExecution implements GracefulShutdown. *)

(* The initial states map to initial states. *)
LEMMA InitRefines == Init => Stop!Init
BY DEF Init, Stop!Init, PostPhase, LeasePhase, LeaseStates

(* The phase of each state a handler goes through. *)
LEMMA PostPhases ==
  /\ PostPhase("none") = "none"
  /\ PostPhase("insert") = "handling" /\ PostPhase("register") = "handling"
  /\ PostPhase("replied") = "over" /\ PostPhase("dropped") = "over"
BY DEF PostPhase

(* What a step of one task does to the mapped handler and lease. *)
LEMMA PostUpdate ==
  ASSUME TypeOK, NEW t \in Tasks, NEW p, post' = [post EXCEPT ![t] = p]
  PROVE  [u \in Tasks |-> PostPhase(post[u])]' =
           [[u \in Tasks |-> PostPhase(post[u])] EXCEPT ![t] = PostPhase(p)]
BY DEF TypeOK, ServerType

LEMMA LeaseUpdate ==
  ASSUME TypeOK, NEW t \in Tasks, NEW r, runner' = [runner EXCEPT ![t] = r]
  PROVE  [u \in Tasks |-> LeasePhase(runner[u])]' =
           [[u \in Tasks |-> LeasePhase(runner[u])] EXCEPT ![t] = LeasePhase(r)]
BY DEF TypeOK, RunType

(* A step that keeps what a runner, a handler, the cleanup loop and the    *)
(* shutdown sequence show is a stuttering step of GracefulShutdown.        *)
LEMMA Stutters ==
  ASSUME [u \in Tasks |-> PostPhase(post[u])]' = [u \in Tasks |-> PostPhase(post[u])],
         [u \in Tasks |-> LeasePhase(runner[u])]' = [u \in Tasks |-> LeasePhase(runner[u])],
         server' = server, UNCHANGED shutVars
  PROVE  UNCHANGED Stop!vars
BY DEF Stop!vars, shutVars

(* A step of a runner that keeps its lease. *)
LEMMA LeaseKept ==
  ASSUME TypeOK, NEW t \in Tasks, NEW r,
         LeasePhase(runner[t]) = LeasePhase(r),
         runner' = [runner EXCEPT ![t] = r],
         UNCHANGED <<handlerVars, shutVars>>
  PROVE  UNCHANGED Stop!vars
<1>1. [u \in Tasks |-> LeasePhase(runner[u])]' = [u \in Tasks |-> LeasePhase(runner[u])]
  BY DEF TypeOK, RunType
<1>2. QED
  BY <1>1, Stutters DEF handlerVars

(* Every step maps to a step or a stutter. *)
LEMMA StepRefines == TypeOK /\ [Next]_vars => [Stop!Next]_(Stop!vars)
<1> SUFFICES ASSUME TypeOK, [Next]_vars PROVE [Stop!Next]_(Stop!vars)
  OBVIOUS
<1> USE DEF handlerVars, shutVars
<1>1. ASSUME NEW t \in Tasks, Handler(t) PROVE [Stop!Next]_(Stop!vars)
  <2>1. CASE PostStart(t)
    <3>1. Stop!PostStart(t)
      BY <2>1, PostUpdate DEF PostStart, Stop!PostStart, PostPhase, runVars
    <3>2. QED
      BY <3>1 DEF Stop!Next, Stop!Lease
  <2>2. CASE CreateInsert(t)
    <3>1. [u \in Tasks |-> PostPhase(post[u])]' = [u \in Tasks |-> PostPhase(post[u])]
      BY <2>2 DEF CreateInsert, PostPhase, TypeOK, ServerType
    <3>2. QED
      BY <2>2, <3>1, Stutters DEF CreateInsert, runVars
  <2>3. CASE CreateRegister(t)
    <3>1. Stop!PostSpawns(t)
      <4>1. [u \in Tasks |-> PostPhase(post[u])]' =
              [[u \in Tasks |-> PostPhase(post[u])] EXCEPT ![t] = "over"]
        <5>1. post' = [post EXCEPT ![t] = "replied"]
          BY <2>3 DEF CreateRegister
        <5>2. [u \in Tasks |-> PostPhase(post[u])]' =
                [[u \in Tasks |-> PostPhase(post[u])] EXCEPT
                   ![t] = PostPhase("replied")]
          BY <5>1, PostUpdate
        <5>3. QED
          BY <5>2, PostPhases
      <4>2. [u \in Tasks |-> LeasePhase(runner[u])]' =
              [[u \in Tasks |-> LeasePhase(runner[u])] EXCEPT ![t] = "active"]
        <5>1. LeasePhase("spawned") = "active"
          BY DEF LeasePhase, LeaseStates
        <5>2. QED
          BY <2>3, <5>1, LeaseUpdate DEF CreateRegister
      <4>3. PostPhase(post[t]) = "handling"
        BY <2>3, PostPhases DEF CreateRegister
      <4>4. QED
        BY <2>3, <4>1, <4>2, <4>3 DEF CreateRegister, Stop!PostSpawns
    <3>2. QED
      BY <3>1 DEF Stop!Next, Stop!Lease
  <2>4. CASE PostDropped(t)
    <3>1. Stop!PostDropped(t)
      <4>1. [u \in Tasks |-> PostPhase(post[u])]' =
              [[u \in Tasks |-> PostPhase(post[u])] EXCEPT ![t] = "over"]
        <5>1. post' = [post EXCEPT ![t] = "dropped"]
          BY <2>4 DEF PostDropped
        <5>2. [u \in Tasks |-> PostPhase(post[u])]' =
                [[u \in Tasks |-> PostPhase(post[u])] EXCEPT
                   ![t] = PostPhase("dropped")]
          BY <5>1, PostUpdate
        <5>3. QED
          BY <5>2, PostPhases
      <4>2. PostPhase(post[t]) = "handling"
        BY <2>4, PostPhases DEF PostDropped
      <4>3. QED
        BY <2>4, <4>1, <4>2 DEF PostDropped, Stop!PostDropped, runVars
    <3>2. QED
      BY <3>1 DEF Stop!Next, Stop!Lease
  <2>5. CASE DeleteStart(t)
    BY <2>5, Stutters DEF DeleteStart, runVars
  <2>6. CASE Cancel(t)
    BY <2>6, Stutters DEF Cancel, runVars
  <2>7. CASE DeleteReply(t)
    BY <2>7, Stutters DEF DeleteReply, runVars
  <2>8. QED
    BY <1>1, <2>1, <2>2, <2>3, <2>4, <2>5, <2>6, <2>7 DEF Handler
<1>2. ASSUME NEW t \in Tasks, Runner(t) PROVE [Stop!Next]_(Stop!vars)
  <2>1. CASE PublishStarted(t)
    BY <2>1, LeaseKept DEF PublishStarted, LeasePhase, LeaseStates
  <2>2. CASE ExecFails(t)
    BY <2>2, LeaseKept DEF ExecFails, LeasePhase, LeaseStates
  <2>3. CASE ExecSpawns(t)
    BY <2>3, LeaseKept DEF ExecSpawns, LeasePhase, LeaseStates
  <2>4. CASE WriteStdin(t)
    BY <2>4, LeaseKept DEF WriteStdin, LeasePhase, LeaseStates
  <2>5. CASE WaitExit(t)
    BY <2>5, LeaseKept DEF WaitExit, LeasePhase, LeaseStates
  <2>6. CASE WaitCancel(t)
    BY <2>6, LeaseKept DEF WaitCancel, LeasePhase, LeaseStates
  <2>7. CASE WaitKilled(t)
    BY <2>7, LeaseKept DEF WaitKilled, LeasePhase, LeaseStates
  <2>8. CASE TimeoutFires(t)
    BY <2>8, LeaseKept DEF TimeoutFires, LeasePhase, LeaseStates
  <2>9. CASE Reaped(t)
    BY <2>9, LeaseKept DEF Reaped, LeasePhase, LeaseStates
  <2>10. CASE PublishTerminal(t)
    BY <2>10, LeaseKept DEF PublishTerminal, LeasePhase, LeaseStates
  <2>11. CASE ClearCancellation(t)
    <3>1. Stop!RunnerReturns(t)
      BY <2>11, LeaseUpdate DEF ClearCancellation, Stop!RunnerReturns, PostPhase, LeasePhase,
         LeaseStates
    <3>2. QED
      BY <3>1 DEF Stop!Next, Stop!Lease
  <2>12. CASE DropLease(t)
    <3>1. Stop!DropLease(t)
      BY <2>12, LeaseUpdate DEF DropLease, Stop!DropLease, PostPhase, LeasePhase,
         LeaseStates
    <3>2. QED
      BY <3>1 DEF Stop!Next, Stop!Lease
  <2>13. CASE NotifyIdle(t)
    <3>1. Stop!NotifyIdle(t)
      BY <2>13, LeaseUpdate DEF NotifyIdle, Stop!NotifyIdle, PostPhase, LeasePhase,
         LeaseStates
    <3>2. QED
      BY <3>1 DEF Stop!Next, Stop!Lease
  <2>14. QED
    BY <1>2, <2>1, <2>2, <2>3, <2>4, <2>5, <2>6, <2>7, <2>8, <2>9,
       <2>10, <2>11, <2>12, <2>13 DEF Runner
<1>3. ASSUME NEW t \in Tasks, Child(t) PROVE [Stop!Next]_(Stop!vars)
  BY <1>3, Stutters DEF Child, ChildWrites, ChildTakesStdin, ChildExits,
                        PipesReleased, runVars
<1>4. ASSUME NEW t \in Tasks, NEW s \in Streams, Reader(t, s)
      PROVE  [Stop!Next]_(Stop!vars)
  BY <1>4, Stutters DEF Reader, ReadChunk, PublishChunk, ReadEof, ReadFails, runVars
<1>5. CASE CleanupTick
  BY <1>5 DEF CleanupTick, Stop!CleanupTick, Stop!Next, runVars
<1>6. CASE Cleanup
  BY <1>6 DEF Cleanup, Stop!Cleanup, Stop!Next, runVars
<1>7. CASE CleanupStops
  BY <1>7 DEF CleanupStops, Stop!CleanupStops, Stop!Next, runVars
<1>8. CASE ShutdownSignal
  BY <1>8 DEF ShutdownSignal, Stop!ShutdownSignal, Stop!Next, runVars
<1>9. CASE ServerClosed
  BY <1>9 DEF ServerClosed, Stop!ServerClosed, Stop!Next, runVars, PostPhase
<1>10. CASE IdleCheck
  BY <1>10 DEF IdleCheck, Stop!IdleCheck, Stop!Next, Stop!Shutdown, runVars
<1>11. CASE IdleRegister
  BY <1>11 DEF IdleRegister, Stop!IdleRegister, Stop!Next, Stop!Shutdown, runVars
<1>12. CASE IdleWoken
  BY <1>12 DEF IdleWoken, Stop!IdleWoken, Stop!Next, Stop!Shutdown, runVars
<1>13. CASE StopCleanup
  BY <1>13 DEF StopCleanup, Stop!StopCleanup, Stop!Next, Stop!Shutdown, runVars
<1>14. CASE JoinCleanup
  BY <1>14 DEF JoinCleanup, Stop!JoinCleanup, Stop!Next, Stop!Shutdown, runVars
<1>15. CASE SandboxShutdown
  BY <1>15 DEF SandboxShutdown, Stop!SandboxShutdown, Stop!Next, Stop!Shutdown, runVars
<1>16. CASE Tick
  BY <1>16, Stutters DEF Tick
<1>17. CASE UNCHANGED vars
  BY <1>17, Stutters DEF vars, runVars
<1>18. QED
  BY <1>1, <1>2, <1>3, <1>4, <1>5, <1>6, <1>7, <1>8, <1>9, <1>10, <1>11,
     <1>12, <1>13, <1>14, <1>15, <1>16, <1>17 DEF Next, CleanupLoop,
     Shutdown

(* GracefulShutdown's lemmas, under the refinement mapping. *)
StopP == INSTANCE GracefulShutdown_proofs WITH
           post <- [t \in Tasks |-> PostPhase(post[t])],
           lease <- [t \in Tasks |-> LeasePhase(runner[t])]

LEMMA StopFinite == StopP!IsFiniteSet(Tasks)
BY TasksFinite DEF IsFiniteSet, StopP!IsFiniteSet

LEMMA SameInit == Stop!Init => StopP!Init
BY DEF Stop!Init, StopP!Init

LEMMA SameStep == [Stop!Next]_(Stop!vars) => [StopP!Next]_(StopP!vars)
BY DEF Stop!Next, Stop!vars, Stop!PostStart, Stop!PostSpawns, Stop!PostDropped,
       Stop!Lease, Stop!RunnerReturns, Stop!DropLease, Stop!NotifyIdle,
       Stop!CleanupTick, Stop!Cleanup, Stop!CleanupStops, Stop!ShutdownSignal,
       Stop!ServerClosed, Stop!Shutdown, Stop!IdleCheck, Stop!IdleRegister,
       Stop!IdleWoken, Stop!StopCleanup, Stop!JoinCleanup, Stop!SandboxShutdown,
       StopP!Next, StopP!vars, StopP!PostStart, StopP!PostSpawns, StopP!PostDropped,
       StopP!Lease, StopP!RunnerReturns, StopP!DropLease, StopP!NotifyIdle,
       StopP!CleanupTick, StopP!Cleanup, StopP!CleanupStops, StopP!ShutdownSignal,
       StopP!ServerClosed, StopP!Shutdown, StopP!IdleCheck, StopP!IdleRegister,
       StopP!IdleWoken, StopP!StopCleanup, StopP!JoinCleanup, StopP!SandboxShutdown

(* Types and the shutdown invariant are inductive together: the second     *)
(* keeps the counter from falling below zero.                              *)
LEMMA TypeInduction ==
  TypeOK /\ StopP!Inv /\ [Next]_vars => TypeOK' /\ StopP!Inv'
<1> SUFFICES ASSUME TypeOK, StopP!Inv, [Next]_vars PROVE TypeOK' /\ StopP!Inv'
  OBVIOUS
<1>1. [StopP!Next]_(StopP!vars)
  BY StepRefines, SameStep
<1>2. StopP!Inv'
  BY <1>1, StopFinite, StopP!NextInv
<1>3. count' \in Nat
  BY <1>2 DEF StopP!Inv, StopP!TypeOK
<1>4. QED
  BY <1>2, <1>3, NextType

(* In every reachable state the variables have their types, for every      *)
(* number of tasks and every limit; with it the counter of active tasks    *)
(* is never negative.                                                      *)
THEOREM TypeCorrect == Spec => [](TypeOK /\ StopP!Inv)
<1>1. Init => TypeOK /\ StopP!Inv
  BY InitType, InitRefines, SameInit, StopFinite, StopP!InitInv
<1>2. QED
  BY <1>1, TypeInduction, PTL DEF Spec

(* The runners, handlers, cleanup loop and shutdown of the execution       *)
(* service implement GracefulShutdown.                                     *)
THEOREM RefinesShutdown == Spec => ImplementsShutdown
<1>1. TypeOK /\ [Next]_vars => [Stop!Next]_(Stop!vars)
  BY StepRefines
<1>2. QED
  BY <1>1, InitRefines, TypeCorrect, PTL DEF Spec, ImplementsShutdown, Stop!Spec

-----------------------------------------------------------------------------
(* The inductive invariant of the runner, its readers and the log. *)

(* Appending an event to a log. *)
LEMMA AppendLog ==
  ASSUME NEW log \in Seq(Events), NEW e \in Events
  PROVE  LET new == Append(log, e)
         IN  /\ new # <<>>
             /\ new[Len(new)] = e
             /\ Ended(new) <=> Ended(log) \/ IsTerminal(e)
<1> DEFINE new == Append(log, e)
<1>1. /\ new \in Seq(Events) /\ Len(new) = Len(log) + 1 /\ new[Len(new)] = e
      /\ DOMAIN new = 1..(Len(log) + 1) /\ DOMAIN log = 1..Len(log)
      /\ \A j \in 1..Len(log) : new[j] = log[j]
  BY AppendProperties, LenProperties
<1>2. new # <<>>
  BY <1>1, EmptySeq
<1>3. Ended(new) <=> Ended(log) \/ IsTerminal(e)
  BY <1>1, LenProperties DEF Ended
<1>4. QED
  BY <1>1, <1>2, <1>3

(* What publish does to the log and the snapshot of a task. *)
LEMMA PublishLog ==
  ASSUME StoreType, NEW t \in Tasks, NEW e \in Events, Publish(t, e)
  PROVE  /\ stored' = stored
         /\ \A u \in Tasks \ {t} : history'[u] = history[u] /\ snapshot'[u] = snapshot[u]
         /\ t \notin stored => history'[t] = history[t] /\ snapshot'[t] = snapshot[t]
         /\ t \in stored =>
              /\ history'[t] # <<>>
              /\ history'[t][Len(history'[t])] = e
              /\ Ended(history'[t]) <=> Ended(history[t]) \/ IsTerminal(e)
              /\ IsTerminal(e) => snapshot'[t] = [status |-> e.name, exit_code |-> e.code]
              /\ ~IsTerminal(e) => snapshot'[t] = snapshot[t]
<1>1. IsTerminal(e) => StatusOf(e) = e.name
  BY EventFields
<1>2. CASE t \notin stored
  BY <1>2 DEF Publish, storeVars
<1>3. CASE t \in stored
  <2>1. history[t] \in Seq(Events) /\ history'[t] = Append(history[t], e)
    BY <1>3 DEF Publish, StoreType
  <2>2. /\ history'[t] # <<>>
        /\ history'[t][Len(history'[t])] = e
        /\ Ended(history'[t]) <=> Ended(history[t]) \/ IsTerminal(e)
    BY <2>1, AppendLog
  <2>3. stored' = stored /\ \A u \in Tasks \ {t} : history'[u] = history[u]
    BY <1>3 DEF Publish, StoreType
  <2>4. CASE IsTerminal(e)
    <3>1. snapshot' = [snapshot EXCEPT ![t] = [status |-> e.name, exit_code |-> e.code]]
      BY <1>1, <1>3, <2>4 DEF Publish
    <3>2. QED
      BY <1>3, <2>2, <2>3, <2>4, <3>1 DEF StoreType
  <2>5. CASE ~IsTerminal(e)
    <3>1. snapshot' = snapshot
      BY <1>3, <2>5 DEF Publish
    <3>2. QED
      BY <1>3, <2>2, <2>3, <2>5, <3>1
  <2>6. QED
    BY <2>4, <2>5
<1>4. QED
  BY <1>2, <1>3

LogInv == CreatedInOrder /\ LogFollowsRunner /\ ReadersWithinRun /\ SnapshotMatchesHistory
KillInv == CancelChannel /\ KilledByRunner /\ KillOnlyOnRequest /\ NoStaleSender

LEMMA EmptyNotEnded == ~Ended(<<>>)
BY DEF Ended

(* Init establishes both halves of the invariant. *)
LEMMA InitLogKill == Init => LogInv /\ KillInv
BY EmptyNotEnded DEF Init, HistoryInit, LogInv, CreatedInOrder, LogFollowsRunner, ReadersWithinRun,
   SnapshotMatchesHistory, KillInv, CancelChannel, KilledByRunner,
   KillOnlyOnRequest, NoStaleSender, Leases

(* Steps that leave alone what a half talks about. *)
LEMMA LogKept ==
  ASSUME LogInv, UNCHANGED <<post, stored, history, snapshot, runner, reader>>
  PROVE  LogInv'
BY DEF LogInv, CreatedInOrder, LogFollowsRunner, ReadersWithinRun,
       SnapshotMatchesHistory

LEMMA KillKept ==
  ASSUME KillInv, UNCHANGED <<cancelVars, runner, timer, child>>
  PROVE  KillInv'
BY DEF KillInv, CancelChannel, KilledByRunner, KillOnlyOnRequest, NoStaleSender,
       Leases, cancelVars

(* The log keeps following its runner and the snapshot the log: only the   *)
(* publishing steps append, and nothing is appended after the runner has    *)
(* published its terminal event, because both readers have ended.           *)
LEMMA LogStep == TypeOK /\ LogInv /\ KillInv /\ [Next]_vars => LogInv'
<1> SUFFICES ASSUME TypeOK, LogInv, KillInv, [Next]_vars PROVE LogInv'
  OBVIOUS
<1> USE DEF storeVars, cancelVars, runVars, readVars, childVars, handlerVars
<1>1. ASSUME NEW t \in Tasks, Handler(t) PROVE LogInv'
  <2>1. CASE PostStart(t)
    BY <2>1 DEF PostStart, LogInv, CreatedInOrder, LogFollowsRunner,
       ReadersWithinRun, SnapshotMatchesHistory, TypeOK, StoreType, RunType,
       ServerType
  <2>2. CASE CreateInsert(t)
    <3>1. /\ post[t] = "insert" /\ post' = [post EXCEPT ![t] = "register"]
          /\ stored' = stored \cup {t}
          /\ snapshot' = [snapshot EXCEPT ![t] =
                            [status |-> "running", exit_code |-> None]]
          /\ UNCHANGED <<history, runner, reader>>
      BY <2>2 DEF CreateInsert
    <3>2. runner[t] = "none" /\ history[t] = <<>>
      BY <3>1 DEF LogInv, CreatedInOrder, LogFollowsRunner
    <3>3. CreatedInOrder' /\ ReadersWithinRun'
      BY <3>1 DEF LogInv, CreatedInOrder, ReadersWithinRun, TypeOK, ServerType
    <3>4. LogFollowsRunner'
      BY <3>1, <3>2, EmptyNotEnded DEF LogInv, LogFollowsRunner
    <3>5. SnapshotMatchesHistory'
      BY <3>1, <3>2, EmptyNotEnded DEF LogInv, SnapshotMatchesHistory, TypeOK, StoreType
    <3>6. QED
      BY <3>3, <3>4, <3>5 DEF LogInv
  <2>3. CASE CreateRegister(t)
    BY <2>3 DEF CreateRegister, LogInv, CreatedInOrder, LogFollowsRunner,
       ReadersWithinRun, SnapshotMatchesHistory, TypeOK, StoreType, RunType,
       ServerType
  <2>4. CASE PostDropped(t)
    BY <2>4 DEF PostDropped, LogInv, CreatedInOrder, LogFollowsRunner,
       ReadersWithinRun, SnapshotMatchesHistory, TypeOK, StoreType, RunType,
       ServerType
  <2>5. CASE DeleteStart(t) \/ Cancel(t) \/ DeleteReply(t)
    BY <2>5, LogKept DEF DeleteStart, Cancel, DeleteReply
  <2>6. QED
    BY <1>1, <2>1, <2>2, <2>3, <2>4, <2>5 DEF Handler
<1>2. ASSUME NEW t \in Tasks, Runner(t) PROVE LogInv'
  <2>1. CASE PublishStarted(t)
    <3>1. Event("started") \in Events /\ ~IsTerminal(Event("started"))
      BY PlainEvents, TerminalEvents
    <3>2. /\ stored' = stored
          /\ \A u \in Tasks \ {t} : history'[u] = history[u] /\ snapshot'[u] = snapshot[u]
          /\ t \notin stored => history'[t] = history[t] /\ snapshot'[t] = snapshot[t]
      BY <2>1, <3>1, PublishLog DEF PublishStarted, TypeOK
    <3>3. t \in stored =>
            /\ history'[t] # <<>>
            /\ history'[t][Len(history'[t])] = Event("started")
            /\ Ended(history'[t]) <=> Ended(history[t]) \/ IsTerminal(Event("started"))
            /\ IsTerminal(Event("started")) => snapshot'[t] = [status |-> Event("started").name, exit_code |-> Event("started").code]
            /\ ~IsTerminal(Event("started")) => snapshot'[t] = snapshot[t]
      BY <2>1, <3>1, PublishLog DEF PublishStarted, TypeOK
    <3>4. history[t] = <<>> /\ ~Ended(history[t])
      BY <2>1, EmptyNotEnded DEF PublishStarted, LogInv, LogFollowsRunner
    <3>5. CreatedInOrder' /\ ReadersWithinRun'
      BY <2>1, <3>2 DEF PublishStarted, LogInv, CreatedInOrder, ReadersWithinRun, TypeOK,
                       RunType
    <3>6. LogFollowsRunner'
      BY <2>1, <3>1, <3>2, <3>3, <3>4 DEF PublishStarted, LogInv, LogFollowsRunner, TypeOK, RunType
    <3>7. SnapshotMatchesHistory'
      BY <3>1, <3>2, <3>3, <3>4 DEF LogInv, SnapshotMatchesHistory, TypeOK, StoreType
    <3>8. QED
      BY <3>5, <3>6, <3>7 DEF LogInv
  <2>2. CASE ExecFails(t)
    BY <2>2 DEF ExecFails, LogInv, CreatedInOrder, LogFollowsRunner,
       ReadersWithinRun, SnapshotMatchesHistory, TypeOK, StoreType, RunType,
       ServerType
  <2>3. CASE ExecSpawns(t)
    BY <2>3 DEF ExecSpawns, LogInv, CreatedInOrder, LogFollowsRunner,
       ReadersWithinRun, SnapshotMatchesHistory, TypeOK, StoreType, RunType,
       ServerType
  <2>4. CASE WriteStdin(t)
    BY <2>4 DEF WriteStdin, LogInv, CreatedInOrder, LogFollowsRunner,
       ReadersWithinRun, SnapshotMatchesHistory, TypeOK, StoreType, RunType,
       ServerType
  <2>5. CASE WaitExit(t)
    BY <2>5 DEF WaitExit, LogInv, CreatedInOrder, LogFollowsRunner,
       ReadersWithinRun, SnapshotMatchesHistory, TypeOK, StoreType, RunType,
       ServerType
  <2>6. CASE WaitCancel(t)
    BY <2>6 DEF WaitCancel, LogInv, CreatedInOrder, LogFollowsRunner,
       ReadersWithinRun, SnapshotMatchesHistory, TypeOK, StoreType, RunType,
       ServerType
  <2>7. CASE WaitKilled(t)
    BY <2>7 DEF WaitKilled, LogInv, CreatedInOrder, LogFollowsRunner,
       ReadersWithinRun, SnapshotMatchesHistory, TypeOK, StoreType, RunType,
       ServerType
  <2>8. CASE TimeoutFires(t)
    BY <2>8 DEF TimeoutFires, LogInv, CreatedInOrder, LogFollowsRunner,
       ReadersWithinRun, SnapshotMatchesHistory, TypeOK, StoreType, RunType,
       ServerType
  <2>9. CASE Reaped(t)
    <3>1. /\ runner[t] = "reaping" /\ runner' = [runner EXCEPT ![t] = "drain"]
          /\ UNCHANGED <<stored, history, snapshot, reader, post>>
      BY <2>9 DEF Reaped
    <3>2. CreatedInOrder' /\ ReadersWithinRun'
      BY <3>1 DEF LogInv, CreatedInOrder, ReadersWithinRun, TypeOK, RunType
    <3>3. LogFollowsRunner' /\ SnapshotMatchesHistory'
      BY <3>1 DEF LogInv, LogFollowsRunner, SnapshotMatchesHistory, TypeOK, RunType
    <3>4. QED
      BY <3>2, <3>3 DEF LogInv
  <2>10. CASE PublishTerminal(t)
    <3>1. outcome[t] \in Events /\ IsTerminal(outcome[t])
      BY DEF TypeOK, RunType
    <3>2. /\ stored' = stored
          /\ \A u \in Tasks \ {t} : history'[u] = history[u] /\ snapshot'[u] = snapshot[u]
          /\ t \notin stored => history'[t] = history[t] /\ snapshot'[t] = snapshot[t]
      BY <2>10, <3>1, PublishLog DEF PublishTerminal, TypeOK
    <3>3. t \in stored =>
            /\ history'[t] # <<>>
            /\ history'[t][Len(history'[t])] = outcome[t]
            /\ Ended(history'[t]) <=> Ended(history[t]) \/ IsTerminal(outcome[t])
            /\ IsTerminal(outcome[t]) => snapshot'[t] = [status |-> outcome[t].name, exit_code |-> outcome[t].code]
            /\ ~IsTerminal(outcome[t]) => snapshot'[t] = snapshot[t]
      BY <2>10, <3>1, PublishLog DEF PublishTerminal, TypeOK
    <3>4. ~Ended(history[t])
      BY <2>10 DEF PublishTerminal, LogInv, LogFollowsRunner
    <3>5. CreatedInOrder' /\ ReadersWithinRun'
      BY <2>10, <3>2 DEF PublishTerminal, LogInv, CreatedInOrder, ReadersWithinRun, TypeOK,
                       RunType, ReaderDone
    <3>6. LogFollowsRunner'
      BY <2>10, <3>1, <3>2, <3>3, <3>4 DEF PublishTerminal, LogInv, LogFollowsRunner, TypeOK, RunType
    <3>7. SnapshotMatchesHistory'
      BY <3>1, <3>2, <3>3, <3>4 DEF LogInv, SnapshotMatchesHistory, TypeOK, StoreType
    <3>8. QED
      BY <3>5, <3>6, <3>7 DEF LogInv
  <2>11. CASE ClearCancellation(t)
    BY <2>11 DEF ClearCancellation, LogInv, CreatedInOrder, LogFollowsRunner,
       ReadersWithinRun, SnapshotMatchesHistory, TypeOK, StoreType, RunType,
       ServerType
  <2>12. CASE DropLease(t)
    BY <2>12 DEF DropLease, LogInv, CreatedInOrder, LogFollowsRunner,
       ReadersWithinRun, SnapshotMatchesHistory, TypeOK, StoreType, RunType,
       ServerType
  <2>13. CASE NotifyIdle(t)
    BY <2>13 DEF NotifyIdle, LogInv, CreatedInOrder, LogFollowsRunner,
       ReadersWithinRun, SnapshotMatchesHistory, TypeOK, StoreType, RunType,
       ServerType
  <2>14. QED
    BY <1>2, <2>1, <2>2, <2>3, <2>4, <2>5, <2>6, <2>7, <2>8, <2>9, <2>10,
       <2>11, <2>12, <2>13 DEF Runner
<1>3. ASSUME NEW t \in Tasks, Child(t) PROVE LogInv'
  BY <1>3, LogKept DEF Child, ChildWrites, ChildTakesStdin, ChildExits,
     PipesReleased
<1>4. ASSUME NEW t \in Tasks, NEW s \in Streams, Reader(t, s) PROVE LogInv'
  <2>1. CASE ReadChunk(t, s)
    BY <2>1 DEF ReadChunk, LogInv, CreatedInOrder, LogFollowsRunner,
       ReadersWithinRun, SnapshotMatchesHistory, TypeOK, StoreType, RunType,
       ServerType
  <2>2. CASE PublishChunk(t, s)
    <3>1. Event(s) \in Events /\ ~IsTerminal(Event(s))
      BY PlainEvents, TerminalEvents DEF Streams, OutputNames
    <3>2. /\ stored' = stored
          /\ \A u \in Tasks \ {t} : history'[u] = history[u] /\ snapshot'[u] = snapshot[u]
          /\ t \notin stored => history'[t] = history[t] /\ snapshot'[t] = snapshot[t]
      BY <2>2, <3>1, PublishLog DEF PublishChunk, TypeOK
    <3>3. t \in stored =>
            /\ history'[t] # <<>>
            /\ history'[t][Len(history'[t])] = Event(s)
            /\ Ended(history'[t]) <=> Ended(history[t]) \/ IsTerminal(Event(s))
            /\ IsTerminal(Event(s)) => snapshot'[t] = [status |-> Event(s).name, exit_code |-> Event(s).code]
            /\ ~IsTerminal(Event(s)) => snapshot'[t] = snapshot[t]
      BY <2>2, <3>1, PublishLog DEF PublishChunk, TypeOK
    <3>4. ~Ended(history[t]) /\ runner[t] \in {"wait", "killing", "reaping", "drain"}
      BY <2>2 DEF PublishChunk, LogInv, LogFollowsRunner, ReadersWithinRun
    <3>5. CreatedInOrder' /\ ReadersWithinRun'
      BY <2>2, <3>2 DEF PublishChunk, LogInv, CreatedInOrder, ReadersWithinRun, TypeOK,
                       RunType, ReaderStates
    <3>6. LogFollowsRunner'
      BY <2>2, <3>1, <3>2, <3>3, <3>4 DEF PublishChunk, LogInv, LogFollowsRunner, TypeOK, RunType
    <3>7. SnapshotMatchesHistory'
      BY <3>1, <3>2, <3>3, <3>4 DEF LogInv, SnapshotMatchesHistory, TypeOK, StoreType
    <3>8. QED
      BY <3>5, <3>6, <3>7 DEF LogInv
  <2>3. CASE ReadEof(t, s)
    BY <2>3 DEF ReadEof, LogInv, CreatedInOrder, LogFollowsRunner,
       ReadersWithinRun, SnapshotMatchesHistory, TypeOK, StoreType, RunType,
       ServerType
  <2>4. CASE ReadFails(t, s)
    BY <2>4 DEF ReadFails, LogInv, CreatedInOrder, LogFollowsRunner,
       ReadersWithinRun, SnapshotMatchesHistory, TypeOK, StoreType, RunType,
       ServerType
  <2>5. QED
    BY <1>4, <2>1, <2>2, <2>3, <2>4 DEF Reader
<1>5. CASE CleanupTick \/ CleanupStops \/ ShutdownSignal \/ ServerClosed \/
   IdleCheck \/ IdleRegister \/ IdleWoken \/ StopCleanup \/ JoinCleanup \/
   SandboxShutdown
  BY <1>5, LogKept DEF CleanupTick, CleanupStops, ShutdownSignal,
     ServerClosed, IdleCheck, IdleRegister, IdleWoken, StopCleanup, JoinCleanup,
     SandboxShutdown
<1>6. CASE Cleanup
  BY <1>6 DEF Cleanup, LogInv, CreatedInOrder, LogFollowsRunner,
     ReadersWithinRun, SnapshotMatchesHistory, TypeOK, StoreType, RunType,
     ServerType
<1>7. CASE Tick
  BY <1>7, LogKept DEF Tick
<1>8. CASE UNCHANGED vars
  BY <1>8, LogKept DEF vars
<1>9. QED
  BY <1>1, <1>2, <1>3, <1>4, <1>5, <1>6, <1>7, <1>8 DEF Next, CleanupLoop,
     Shutdown

(* The cancel channel and the signals: the sender of a waiting runner       *)
(* leaves the map only by a DELETE that is answered 204.                    *)
LEMMA KillStep == TypeOK /\ LogInv /\ KillInv /\ [Next]_vars => KillInv'
<1> SUFFICES ASSUME TypeOK, LogInv, KillInv, [Next]_vars PROVE KillInv'
  OBVIOUS
<1> USE DEF storeVars, cancelVars, runVars, readVars, childVars, handlerVars
<1>1. ASSUME NEW t \in Tasks, Handler(t) PROVE KillInv'
  <2>1. CASE CreateRegister(t)
    BY <2>1 DEF CreateRegister, KillInv, CancelChannel, KilledByRunner,
       KillOnlyOnRequest, NoStaleSender, Leases, LeaseStates, TypeOK, RunType,
       ChildType, CreatedInOrder, LogInv, Earlier
  <2>2. CASE Cancel(t)
    BY <2>2 DEF Cancel, KillInv, CancelChannel, KilledByRunner,
       KillOnlyOnRequest, NoStaleSender, Leases, LeaseStates, TypeOK, RunType,
       ChildType, CreatedInOrder, LogInv, Earlier
  <2>3. CASE PostStart(t) \/ CreateInsert(t) \/ PostDropped(t) \/
     DeleteStart(t) \/ DeleteReply(t)
    BY <2>3, KillKept DEF PostStart, CreateInsert, PostDropped, DeleteStart,
       DeleteReply
  <2>4. QED
    BY <1>1, <2>1, <2>2, <2>3 DEF Handler
<1>2. ASSUME NEW t \in Tasks, Runner(t) PROVE KillInv'
  <2>1. CASE PublishStarted(t)
    BY <2>1 DEF PublishStarted, KillInv, CancelChannel, KilledByRunner,
       KillOnlyOnRequest, NoStaleSender, Leases, LeaseStates, TypeOK, RunType,
       ChildType, CreatedInOrder, LogInv, Earlier
  <2>2. CASE ExecFails(t)
    BY <2>2 DEF ExecFails, KillInv, CancelChannel, KilledByRunner,
       KillOnlyOnRequest, NoStaleSender, Leases, LeaseStates, TypeOK, RunType,
       ChildType, CreatedInOrder, LogInv, Earlier
  <2>3. CASE ExecSpawns(t)
    BY <2>3 DEF ExecSpawns, KillInv, CancelChannel, KilledByRunner,
       KillOnlyOnRequest, NoStaleSender, Leases, LeaseStates, TypeOK, RunType,
       ChildType, CreatedInOrder, LogInv, Earlier
  <2>4. CASE WriteStdin(t)
    BY <2>4 DEF WriteStdin, KillInv, CancelChannel, KilledByRunner,
       KillOnlyOnRequest, NoStaleSender, Leases, LeaseStates, TypeOK, RunType,
       ChildType, CreatedInOrder, LogInv, Earlier
  <2>5. CASE WaitExit(t)
    BY <2>5 DEF WaitExit, KillInv, CancelChannel, KilledByRunner,
       KillOnlyOnRequest, NoStaleSender, Leases, LeaseStates, TypeOK, RunType,
       ChildType, CreatedInOrder, LogInv, Earlier
  <2>6. CASE WaitCancel(t)
    BY <2>6 DEF WaitCancel, KillInv, CancelChannel, KilledByRunner,
       KillOnlyOnRequest, NoStaleSender, Leases, LeaseStates, TypeOK, RunType,
       ChildType, CreatedInOrder, LogInv, Earlier
  <2>7. CASE WaitKilled(t)
    BY <2>7 DEF WaitKilled, KillInv, CancelChannel, KilledByRunner,
       KillOnlyOnRequest, NoStaleSender, Leases, LeaseStates, TypeOK, RunType,
       ChildType, CreatedInOrder, LogInv, Earlier
  <2>8. CASE TimeoutFires(t)
    BY <2>8 DEF TimeoutFires, KillInv, CancelChannel, KilledByRunner,
       KillOnlyOnRequest, NoStaleSender, Leases, LeaseStates, TypeOK, RunType,
       ChildType, CreatedInOrder, LogInv, Earlier
  <2>9. CASE Reaped(t)
    BY <2>9 DEF Reaped, KillInv, CancelChannel, KilledByRunner,
       KillOnlyOnRequest, NoStaleSender, Leases, LeaseStates, TypeOK, RunType,
       ChildType, CreatedInOrder, LogInv, Earlier
  <2>10. CASE PublishTerminal(t)
    BY <2>10 DEF PublishTerminal, KillInv, CancelChannel, KilledByRunner,
       KillOnlyOnRequest, NoStaleSender, Leases, LeaseStates, TypeOK, RunType,
       ChildType, CreatedInOrder, LogInv, Earlier
  <2>11. CASE ClearCancellation(t)
    BY <2>11 DEF ClearCancellation, KillInv, CancelChannel, KilledByRunner,
       KillOnlyOnRequest, NoStaleSender, Leases, LeaseStates, TypeOK, RunType,
       ChildType, CreatedInOrder, LogInv, Earlier
  <2>12. CASE DropLease(t)
    BY <2>12 DEF DropLease, KillInv, CancelChannel, KilledByRunner,
       KillOnlyOnRequest, NoStaleSender, Leases, LeaseStates, TypeOK, RunType,
       ChildType, CreatedInOrder, LogInv, Earlier
  <2>13. CASE NotifyIdle(t)
    BY <2>13 DEF NotifyIdle, KillInv, CancelChannel, KilledByRunner,
       KillOnlyOnRequest, NoStaleSender, Leases, LeaseStates, TypeOK, RunType,
       ChildType, CreatedInOrder, LogInv, Earlier
  <2>14. QED
    BY <1>2, <2>1, <2>2, <2>3, <2>4, <2>5, <2>6, <2>7, <2>8, <2>9, <2>10,
       <2>11, <2>12, <2>13 DEF Runner
<1>3. ASSUME NEW t \in Tasks, Child(t) PROVE KillInv'
  <2>1. CASE ChildExits(t)
    BY <2>1 DEF ChildExits, KillInv, CancelChannel, KilledByRunner,
       KillOnlyOnRequest, NoStaleSender, Leases, LeaseStates, TypeOK, RunType,
       ChildType, CreatedInOrder, LogInv, Earlier
  <2>2. CASE (\E s \in Streams : ChildWrites(t, s)) \/ ChildTakesStdin(t) \/
     PipesReleased(t)
    BY <2>2, KillKept DEF ChildWrites, ChildTakesStdin, PipesReleased
  <2>3. QED
    BY <1>3, <2>1, <2>2 DEF Child
<1>4. ASSUME NEW t \in Tasks, NEW s \in Streams, Reader(t, s) PROVE KillInv'
  BY <1>4, KillKept DEF Reader, ReadChunk, PublishChunk, ReadEof, ReadFails
<1>5. CASE CleanupTick \/ Cleanup \/ CleanupStops \/ ShutdownSignal \/
   ServerClosed \/ IdleCheck \/ IdleRegister \/ IdleWoken \/ StopCleanup \/
   JoinCleanup \/ SandboxShutdown
  BY <1>5, KillKept DEF CleanupTick, Cleanup, CleanupStops, ShutdownSignal,
     ServerClosed, IdleCheck, IdleRegister, IdleWoken, StopCleanup, JoinCleanup,
     SandboxShutdown
<1>6. CASE Tick
  BY <1>6, TimesAreNaturals DEF Tick, KillInv, CancelChannel, KilledByRunner,
     KillOnlyOnRequest, NoStaleSender, Leases, LeaseStates, TypeOK, RunType,
     ChildType, CreatedInOrder, LogInv, Earlier
<1>7. CASE UNCHANGED vars
  BY <1>7, KillKept DEF vars
<1>8. QED
  BY <1>1, <1>2, <1>3, <1>4, <1>5, <1>6, <1>7 DEF Next, CleanupLoop, Shutdown

(* A terminal event restarts both clocks and takes the task off the list of  *)
(* a sweep in progress; time moves them in opposite directions.             *)
LEMMA PublishRetention ==
  ASSUME StoreType, RetentionCounted, NEW t \in Tasks, NEW e \in Events,
         Publish(t, e), ~Ended(history[t])
  PROVE  RetentionCounted'
<1>1. CASE t \notin stored
  BY <1>1 DEF Publish, storeVars, RetentionCounted
<1>2. CASE t \in stored
  <2>1. /\ stored' = stored
        /\ \A u \in Tasks \ {t} : history'[u] = history[u]
        /\ Ended(history'[t]) <=> IsTerminal(e)
    BY <1>2, PublishLog
  <2>2. CASE IsTerminal(e)
    <3>1. /\ ttl' = [ttl EXCEPT ![t] = Retention]
          /\ due' = due \ {t}
          /\ age' = [age EXCEPT ![t] = 0]
      BY <1>2, <2>2 DEF Publish
    <3>2. QED
      BY <2>1, <3>1, TimesAreNaturals DEF RetentionCounted, StoreType
  <2>3. CASE ~IsTerminal(e)
    <3>1. UNCHANGED <<ttl, due, age>>
      BY <1>2, <2>3 DEF Publish
    <3>2. QED
      BY <2>1, <2>3, <3>1 DEF RetentionCounted, StoreType
  <2>4. QED
    BY <2>2, <2>3
<1>3. QED
  BY <1>1, <1>2

(* Where a publishing step stands in the log of its task. *)
LEMMA PublishGuards ==
  ASSUME LogInv, NEW t \in Tasks
  PROVE  /\ PublishStarted(t) => history[t] = <<>> /\ ~Ended(history[t])
         /\ PublishTerminal(t) =>
              ~Ended(history[t]) /\ (t \in stored => history[t] # <<>>)
         /\ \A s \in Streams : PublishChunk(t, s) =>
              ~Ended(history[t]) /\ (t \in stored => history[t] # <<>>)
<1>1. PublishStarted(t) => history[t] = <<>> /\ ~Ended(history[t])
  BY EmptyNotEnded DEF PublishStarted, LogInv, LogFollowsRunner
<1>2. PublishTerminal(t) =>
        ~Ended(history[t]) /\ (t \in stored => history[t] # <<>>)
  BY DEF PublishTerminal, LogInv, LogFollowsRunner
<1>3. ASSUME NEW s \in Streams, PublishChunk(t, s)
      PROVE  ~Ended(history[t]) /\ (t \in stored => history[t] # <<>>)
  BY <1>3 DEF PublishChunk, LogInv, LogFollowsRunner, ReadersWithinRun
<1>4. QED
  BY <1>1, <1>2, <1>3

(* Every step publishes one event of one task, inserts a task whose log is  *)
(* empty, removes what a sweep listed, reads the clock for a sweep, lets    *)
(* time pass, or leaves the store alone.                                    *)
StoreStep ==
  \/ \E t \in Tasks, e \in Events :
       /\ Publish(t, e)
       /\ ~Ended(history[t])
       /\ t \in stored => ((e.name = "started") <=> (history[t] = <<>>))
  \/ \E t \in Tasks :
       /\ t \notin stored
       /\ history[t] = <<>>
       /\ stored' = stored \cup {t}
       /\ UNCHANGED <<history, due, age>>
       /\ \A u \in Tasks \ {t} : ttl'[u] = ttl[u]
  \/ stored' = stored \ due /\ due' = {} /\ UNCHANGED <<history, ttl, age>>
  \/ due' = {t \in stored : ttl[t] = 0} /\ UNCHANGED <<stored, history, ttl, age>>
  \/ Tick
  \/ UNCHANGED <<stored, history, ttl, due, age>>

LEMMA NextStore == TypeOK /\ LogInv /\ [Next]_vars => StoreStep
<1> SUFFICES ASSUME TypeOK, LogInv, [Next]_vars PROVE StoreStep
  OBVIOUS
<1> USE DEF storeVars
<1>1. ASSUME NEW t \in Tasks, Handler(t) PROVE StoreStep
  <2>1. CASE CreateInsert(t)
    BY <2>1 DEF CreateInsert, LogInv, CreatedInOrder, LogFollowsRunner, TypeOK,
                StoreType, StoreStep
  <2>2. CASE PostStart(t) \/ CreateRegister(t) \/ PostDropped(t) \/
             DeleteStart(t) \/ Cancel(t) \/ DeleteReply(t)
    BY <2>2 DEF PostStart, CreateRegister, PostDropped, DeleteStart, Cancel,
                DeleteReply, StoreStep
  <2>3. QED
    BY <1>1, <2>1, <2>2 DEF Handler
<1>2. ASSUME NEW t \in Tasks, Runner(t) PROVE StoreStep
  <2>1. CASE PublishStarted(t)
    <3>1. /\ Event("started") \in Events /\ Event("started").name = "started"
          /\ Publish(t, Event("started"))
          /\ history[t] = <<>> /\ ~Ended(history[t])
      BY <2>1, PlainEvents, PublishGuards DEF PublishStarted, Event
    <3>2. QED
      BY <3>1 DEF StoreStep
  <2>2. CASE PublishTerminal(t)
    <3>1. /\ outcome[t] \in Events /\ outcome[t].name # "started"
          /\ Publish(t, outcome[t])
          /\ ~Ended(history[t]) /\ (t \in stored => history[t] # <<>>)
      BY <2>2, PublishGuards DEF PublishTerminal, TypeOK, RunType, IsTerminal
    <3>2. QED
      BY <3>1 DEF StoreStep
  <2>3. CASE ExecFails(t) \/ ExecSpawns(t) \/ WriteStdin(t) \/ WaitExit(t) \/
             WaitCancel(t) \/ WaitKilled(t) \/ TimeoutFires(t) \/ Reaped(t) \/
             ClearCancellation(t) \/ DropLease(t) \/ NotifyIdle(t)
    BY <2>3 DEF ExecFails, ExecSpawns, WriteStdin, WaitExit, WaitCancel,
                WaitKilled, TimeoutFires, Reaped, ClearCancellation, DropLease,
                NotifyIdle, StoreStep
  <2>4. QED
    BY <1>2, <2>1, <2>2, <2>3 DEF Runner
<1>3. ASSUME NEW t \in Tasks, Child(t) PROVE StoreStep
  BY <1>3 DEF Child, ChildWrites, ChildTakesStdin, ChildExits, PipesReleased,
              StoreStep
<1>4. ASSUME NEW t \in Tasks, NEW s \in Streams, Reader(t, s) PROVE StoreStep
  <2>1. CASE PublishChunk(t, s)
    <3>1. /\ Event(s) \in Events /\ Event(s).name # "started"
          /\ Publish(t, Event(s))
          /\ ~Ended(history[t]) /\ (t \in stored => history[t] # <<>>)
      BY <2>1, PlainEvents, PublishGuards
         DEF PublishChunk, Streams, OutputNames, Event
    <3>2. QED
      BY <3>1 DEF StoreStep
  <2>2. CASE ReadChunk(t, s) \/ ReadEof(t, s) \/ ReadFails(t, s)
    BY <2>2 DEF ReadChunk, ReadEof, ReadFails, StoreStep
  <2>3. QED
    BY <1>4, <2>1, <2>2 DEF Reader
<1>5. CASE Cleanup
  BY <1>5 DEF Cleanup, StoreStep
<1>6. CASE CleanupTick
  BY <1>6 DEF CleanupTick, StoreStep
<1>7. CASE Tick
  BY <1>7 DEF StoreStep
<1>8. CASE CleanupStops \/ ShutdownSignal \/ ServerClosed \/ Shutdown
  BY <1>8 DEF CleanupStops, ShutdownSignal, ServerClosed, Shutdown, IdleCheck,
              IdleRegister, IdleWoken, StopCleanup, JoinCleanup, SandboxShutdown,
              StoreStep
<1>9. CASE UNCHANGED vars
  BY <1>9 DEF vars, StoreStep
<1>10. QED
  BY <1>1, <1>2, <1>3, <1>4, <1>5, <1>6, <1>7, <1>8, <1>9 DEF Next, CleanupLoop

-----------------------------------------------------------------------------
(* Output is conserved on its way from the child to the log. *)

(* Appending an event adds its index to the chunks of its own stream. *)
LEMMA AppendChunks ==
  ASSUME NEW log \in Seq(Events), NEW e \in Events, NEW s
  PROVE  /\ Cardinality(Chunks(log, s)) \in Nat
         /\ Cardinality(Chunks(Append(log, e), s))
              = Cardinality(Chunks(log, s)) + (IF e.name = s THEN 1 ELSE 0)
<1>1. Len(log) \in Nat /\ DOMAIN log = 1..Len(log)
  OBVIOUS
<1>2. IsFiniteSet(Chunks(log, s))
  <2>1. IsFiniteSet(1..Len(log))
    BY <1>1, FS_Interval
  <2>2. QED
    BY <1>1, <2>1, FS_Subset DEF Chunks
<1>3. /\ DOMAIN Append(log, e) = 1..(Len(log) + 1)
      /\ \A i \in 1..Len(log) : Append(log, e)[i] = log[i]
      /\ Append(log, e)[Len(log) + 1] = e
  OBVIOUS
<1>4. Cardinality(Chunks(log, s)) \in Nat
  BY <1>2, FS_CardinalityType
<1>5. CASE e.name = s
  <2>1. Chunks(Append(log, e), s) = Chunks(log, s) \cup {Len(log) + 1}
    BY <1>1, <1>3, <1>5 DEF Chunks
  <2>2. Len(log) + 1 \notin Chunks(log, s)
    BY <1>1 DEF Chunks
  <2>3. Cardinality(Chunks(log, s) \cup {Len(log) + 1})
          = Cardinality(Chunks(log, s)) + 1
    BY <1>2, <2>2, FS_AddElement
  <2>4. QED
    BY <1>4, <1>5, <2>1, <2>3
<1>6. CASE e.name # s
  <2>1. Chunks(Append(log, e), s) = Chunks(log, s)
    BY <1>1, <1>3, <1>6 DEF Chunks
  <2>2. QED
    BY <1>4, <1>6, <2>1
<1>7. QED
  BY <1>5, <1>6

LEMMA NoChunks == \A s : Cardinality(Chunks(<<>>, s)) = 0
<1>1. \A s : Chunks(<<>>, s) = {}
  BY DEF Chunks
<1>2. QED
  BY <1>1, FS_EmptySet

LEMMA ChunksCount ==
  ASSUME StoreType, NEW t \in Tasks, NEW s
  PROVE  Cardinality(Chunks(history[t], s)) \in Nat
<1>1. history[t] \in Seq(Events) /\ Event("failed") \in Events
  BY PlainEvents DEF StoreType
<1>2. QED
  BY <1>1, AppendChunks

(* What a publish does to the chunks of every stream. *)
LEMMA PublishChunks ==
  ASSUME StoreType, NEW t \in Tasks, NEW e \in Events, Publish(t, e), NEW s
  PROVE  /\ stored' = stored
         /\ \A u \in Tasks \ {t} : history'[u] = history[u]
         /\ t \in stored => Cardinality(Chunks(history'[t], s))
              = Cardinality(Chunks(history[t], s)) + (IF e.name = s THEN 1 ELSE 0)
<1>1. history[t] \in Seq(Events)
  BY DEF StoreType
<1>2. t \in stored => history'[t] = Append(history[t], e)
  BY DEF Publish, StoreType
<1>3. stored' = stored /\ \A u \in Tasks \ {t} : history'[u] = history[u]
  BY DEF Publish, storeVars, StoreType
<1>4. Cardinality(Chunks(Append(history[t], e), s))
        = Cardinality(Chunks(history[t], s)) + (IF e.name = s THEN 1 ELSE 0)
  BY <1>1, AppendChunks
<1>5. CASE t \in stored
  <2>1. history'[t] = Append(history[t], e)
    BY <1>2, <1>5
  <2>2. QED
    BY <1>3, <1>4, <2>1
<1>6. QED
  BY <1>3, <1>5

(* A step that concerns neither the task nor the stream. *)
LEMMA CountedKept ==
  ASSUME NEW t, NEW s, CountedAt(t, s),
         runner'[t] = runner[t], reader'[t][s] = reader[t][s],
         child'[t] = child[t], held'[t] = held[t],
         pipe'[t][s] = pipe[t][s], unwritten'[t][s] = unwritten[t][s],
         t \in stored' => t \in stored, history'[t] = history[t]
  PROVE  CountedAt(t, s)'
BY DEF CountedAt, InHand, WritersGone, Chunks

(* The runner moves on past the spawn, with the output where it was. *)
LEMMA CountedRunner ==
  ASSUME NEW t, NEW s, CountedAt(t, s),
         \/ runner[t] \in {"none", "spawned"} /\ runner'[t] \in {"spawned", "exec"}
         \/ /\ runner[t] \notin {"none", "spawned", "stdin"}
            /\ runner'[t] \notin {"none", "spawned", "exec", "stdin"},
         reader'[t][s] = reader[t][s], held'[t] = held[t],
         child'[t] = child[t] \/ child[t] = "running",
         pipe'[t][s] = pipe[t][s], unwritten'[t][s] = unwritten[t][s],
         t \in stored' => t \in stored, history'[t] = history[t]
  PROVE  CountedAt(t, s)'
BY DEF CountedAt, InHand, WritersGone, Chunks

(* Every chunk stays accounted for. *)
LEMMA OutputStep ==
  TypeOK /\ LogInv /\ KillInv /\ OutputCounted /\ [Next]_vars => OutputCounted'
<1> SUFFICES ASSUME TypeOK, LogInv, KillInv, OutputCounted, [Next]_vars,
                    NEW u \in Tasks, NEW z \in Streams
             PROVE  CountedAt(u, z)'
  BY DEF OutputCounted
<1> USE DEF storeVars, cancelVars, runVars, readVars, childVars, handlerVars
<1>0. CountedAt(u, z)
  BY DEF OutputCounted
<1>1. ASSUME NEW t \in Tasks, Handler(t) PROVE CountedAt(u, z)'
  <2>1. CASE CreateInsert(t)
    <3>1. CASE u = t
      <4>1. runner[t] = "none" /\ history[t] = <<>>
        BY <2>1 DEF CreateInsert, LogInv, CreatedInOrder, LogFollowsRunner
      <4>2. /\ reader[t][z] = "none" /\ child[t] = "none" /\ ~held[t]
            /\ pipe[t][z] = 0 /\ unwritten[t][z] = MaxChunks
        BY <1>0, <3>1, <4>1 DEF CountedAt
      <4>3. UNCHANGED <<runner, reader, child, held, pipe, unwritten, history>>
        BY <2>1 DEF CreateInsert
      <4>4. Cardinality(Chunks(history[t], z)) = 0
        BY <4>1, NoChunks
      <4>5. QED
        BY <3>1, <4>1, <4>2, <4>3, <4>4, TimesAreNaturals
           DEF CountedAt, InHand, WritersGone
    <3>2. CASE u # t
      BY <1>0, <2>1, <3>2, CountedKept DEF CreateInsert
    <3>3. QED
      BY <3>1, <3>2
  <2>2. CASE CreateRegister(t)
    <3>1. runner[t] = "none"
      BY <2>2 DEF CreateRegister, LogInv, CreatedInOrder
    <3>2. CASE u = t
      BY <1>0, <2>2, <3>1, <3>2, CountedRunner DEF CreateRegister, TypeOK, RunType
    <3>3. CASE u # t
      BY <1>0, <2>2, <3>3, CountedKept DEF CreateRegister, TypeOK, RunType
    <3>4. QED
      BY <3>2, <3>3
  <2>3. CASE PostStart(t) \/ PostDropped(t) \/ DeleteStart(t) \/ Cancel(t) \/
             DeleteReply(t)
    BY <1>0, <2>3, CountedKept DEF PostStart, PostDropped, DeleteStart, Cancel,
       DeleteReply
  <2>4. QED
    BY <1>1, <2>1, <2>2, <2>3 DEF Handler
<1>2. ASSUME NEW t \in Tasks, Runner(t) PROVE CountedAt(u, z)'
  <2>1. CASE u # t
    <3>1. ASSUME NEW e \in Events, Publish(t, e)
          PROVE  (u \in stored' => u \in stored) /\ history'[u] = history[u]
      BY <2>1, <3>1, PublishChunks DEF TypeOK
    <3>2. Event("started") \in Events /\ outcome[t] \in Events
      BY PlainEvents DEF TypeOK, RunType
    <3>3. (u \in stored' => u \in stored) /\ history'[u] = history[u]
      BY <1>2, <3>1, <3>2 DEF Runner, PublishStarted, ExecFails, ExecSpawns,
         WriteStdin, WaitExit, WaitCancel, WaitKilled, TimeoutFires, Reaped,
         PublishTerminal, ClearCancellation, DropLease, NotifyIdle
    <3>4. /\ runner'[u] = runner[u] /\ reader'[u] = reader[u]
          /\ child'[u] = child[u] /\ held'[u] = held[u]
          /\ pipe' = pipe /\ unwritten' = unwritten
      BY <1>2, <2>1 DEF Runner, PublishStarted, ExecFails, ExecSpawns,
         WriteStdin, WaitExit, WaitCancel, WaitKilled, TimeoutFires, Reaped,
         PublishTerminal, ClearCancellation, DropLease, NotifyIdle, TypeOK,
         RunType, ChildType
    <3>5. QED
      BY <1>0, <3>3, <3>4, CountedKept
  <2>2. CASE u = t /\ PublishStarted(t)
    <3>1. Event("started") \in Events /\ Event("started").name # z
      BY PlainEvents DEF Streams, OutputNames
    <3>2. stored' = stored
      BY <2>2, <3>1, PublishChunks DEF PublishStarted, TypeOK
    <3>3. t \in stored => Cardinality(Chunks(history'[t], z))
            = Cardinality(Chunks(history[t], z))
      <4>1. t \in stored => Cardinality(Chunks(history'[t], z))
              = Cardinality(Chunks(history[t], z)) + 0
        BY <2>2, <3>1, PublishChunks DEF PublishStarted, TypeOK
      <4>2. Cardinality(Chunks(history[t], z)) \in Nat
        BY ChunksCount DEF TypeOK
      <4>3. QED
        BY <4>1, <4>2
    <3>4. /\ runner[t] = "spawned" /\ runner'[t] = "exec"
          /\ UNCHANGED <<reader, child, held, pipe, unwritten>>
      BY <2>2 DEF PublishStarted, TypeOK, RunType
    <3>5. QED
      BY <1>0, <2>2, <3>2, <3>3, <3>4 DEF CountedAt, InHand, WritersGone
  <2>3. CASE u = t /\ PublishTerminal(t)
    <3>1. outcome[t] \in Events /\ outcome[t].name # z
      BY DEF TypeOK, RunType, IsTerminal, Streams, OutputNames
    <3>2. stored' = stored
      BY <2>3, <3>1, PublishChunks DEF PublishTerminal, TypeOK
    <3>3. t \in stored => Cardinality(Chunks(history'[t], z))
            = Cardinality(Chunks(history[t], z))
      <4>1. t \in stored => Cardinality(Chunks(history'[t], z))
              = Cardinality(Chunks(history[t], z)) + 0
        BY <2>3, <3>1, PublishChunks DEF PublishTerminal, TypeOK
      <4>2. Cardinality(Chunks(history[t], z)) \in Nat
        BY ChunksCount DEF TypeOK
      <4>3. QED
        BY <4>1, <4>2
    <3>4. /\ runner[t] = "drain" /\ runner'[t] = "clear"
          /\ UNCHANGED <<reader, child, held, pipe, unwritten>>
      BY <2>3 DEF PublishTerminal, TypeOK, RunType
    <3>5. QED
      BY <1>0, <2>3, <3>2, <3>3, <3>4 DEF CountedAt, InHand, WritersGone
  <2>4. CASE u = t /\ ExecFails(t)
    BY <1>0, <2>4, CountedRunner DEF ExecFails, TypeOK, RunType
  <2>5. CASE u = t /\ ExecSpawns(t)
    <3>1. /\ runner[t] = "exec" /\ runner'[t] = "stdin"
          /\ UNCHANGED <<stored, history, reader, pipe, unwritten>>
      BY <2>5 DEF ExecSpawns, TypeOK, RunType
    <3>2. QED
      BY <1>0, <2>5, <3>1 DEF CountedAt, InHand, Chunks
  <2>6. CASE u = t /\ WriteStdin(t)
    <3>1. /\ runner[t] = "stdin" /\ runner'[t] = "wait" /\ reader'[t][z] = "reading"
          /\ UNCHANGED <<stored, history, pipe, unwritten>>
      BY <2>6 DEF WriteStdin, TypeOK, RunType
    <3>2. QED
      BY <1>0, <2>6, <3>1 DEF CountedAt, InHand, Chunks
  <2>7. CASE u = t /\ (WaitExit(t) \/ WaitCancel(t) \/ WaitKilled(t) \/
                      TimeoutFires(t) \/ Reaped(t) \/ ClearCancellation(t) \/
                      DropLease(t) \/ NotifyIdle(t))
    <3>1. /\ runner[t] \notin {"none", "spawned", "exec", "stdin"}
          /\ runner'[t] \notin {"none", "spawned", "exec", "stdin"}
          /\ child'[t] = child[t] \/ child[t] = "running"
          /\ UNCHANGED <<stored, history, reader, held, pipe, unwritten>>
      BY <2>7 DEF WaitExit, WaitCancel, WaitKilled, TimeoutFires, Reaped,
         ClearCancellation, DropLease, NotifyIdle, TypeOK, RunType, ChildType
    <3>2. QED
      BY <1>0, <2>7, <3>1, CountedRunner
  <2>8. QED
    BY <1>2, <2>1, <2>2, <2>3, <2>4, <2>5, <2>6, <2>7 DEF Runner
<1>3. ASSUME NEW t \in Tasks, Child(t) PROVE CountedAt(u, z)'
  <2>1. ASSUME NEW s \in Streams, ChildWrites(t, s) PROVE CountedAt(u, z)'
    <3>1. CASE u = t /\ z = s
      <4>1. /\ ~WritersGone(t)
            /\ pipe'[t][s] = pipe[t][s] + 1
            /\ unwritten'[t][s] = unwritten[t][s] - 1
            /\ pipe[t][s] \in Nat /\ unwritten[t][s] \in Nat
            /\ UNCHANGED <<stored, history, runner, reader, child, held>>
        BY <2>1 DEF ChildWrites, TypeOK, ChildType
      <4>2. reader[t][s] # "eof" /\ (reader[t][s] = "none" => runner[t] = "stdin")
        BY <1>0, <3>1, <4>1 DEF CountedAt, WritersGone
      <4>3. Cardinality(Chunks(history[t], s)) \in Nat
        BY ChunksCount DEF TypeOK
      <4>4. t \in stored /\ reader[t][s] # "failed" =>
              (Cardinality(Chunks(history[t], s)) + InHand(t, s) + pipe[t][s]
                + unwritten[t][s] = MaxChunks)'
        BY <1>0, <3>1, <4>1, <4>3 DEF CountedAt, InHand
      <4>5. QED
        BY <1>0, <3>1, <4>1, <4>2, <4>4 DEF CountedAt
    <3>2. CASE u # t \/ z # s
      BY <1>0, <2>1, <3>2, CountedKept DEF ChildWrites, TypeOK, ChildType
    <3>3. QED
      BY <3>1, <3>2
  <2>2. CASE ChildTakesStdin(t)
    BY <1>0, <2>2, CountedKept DEF ChildTakesStdin
  <2>3. CASE ChildExits(t)
    BY <1>0, <2>3 DEF ChildExits, CountedAt, InHand, WritersGone, Chunks,
       TypeOK, ChildType
  <2>4. CASE PipesReleased(t)
    BY <1>0, <2>4 DEF PipesReleased, CountedAt, InHand, WritersGone, Chunks,
       TypeOK, ChildType
  <2>5. QED
    BY <1>3, <2>1, <2>2, <2>3, <2>4 DEF Child
<1>4. ASSUME NEW t \in Tasks, NEW s \in Streams, Reader(t, s)
      PROVE  CountedAt(u, z)'
  <2>1. CASE u # t \/ z # s
    <3>1. /\ reader'[u][z] = reader[u][z] /\ pipe'[u][z] = pipe[u][z]
          /\ UNCHANGED <<runner, child, held, unwritten>>
      BY <1>4, <2>1 DEF Reader, ReadChunk, PublishChunk, ReadEof, ReadFails,
         TypeOK, RunType, ChildType
    <3>2. CASE PublishChunk(t, s)
      <4>1. Event(s) \in Events /\ Event(s).name = s /\ Publish(t, Event(s))
        BY <3>2, PlainEvents DEF PublishChunk, Streams, OutputNames
      <4>2. stored' = stored /\ (u # t => history'[u] = history[u])
        BY <4>1, PublishChunks DEF TypeOK
      <4>3. u \in stored => Cardinality(Chunks(history'[u], z))
              = Cardinality(Chunks(history[u], z))
        <5>1. CASE u # t
          BY <4>2, <5>1
        <5>2. CASE u = t
          <6>1. t \in stored => Cardinality(Chunks(history'[t], z))
                  = Cardinality(Chunks(history[t], z)) + 0
            BY <2>1, <4>1, <5>2, PublishChunks DEF TypeOK
          <6>2. Cardinality(Chunks(history[t], z)) \in Nat
            BY ChunksCount DEF TypeOK
          <6>3. QED
            BY <5>2, <6>1, <6>2
        <5>3. QED
          BY <5>1, <5>2
      <4>4. QED
        BY <1>0, <3>1, <4>2, <4>3 DEF CountedAt, InHand, WritersGone
    <3>3. CASE ReadChunk(t, s) \/ ReadEof(t, s) \/ ReadFails(t, s)
      <4>1. UNCHANGED <<stored, history>>
        BY <3>3 DEF ReadChunk, ReadEof, ReadFails
      <4>2. QED
        BY <1>0, <3>1, <4>1, CountedKept
    <3>4. QED
      BY <1>4, <3>2, <3>3 DEF Reader
  <2>2. CASE u = t /\ z = s /\ ReadChunk(t, s)
    <3>1. /\ reader[t][s] = "reading" /\ reader'[t][s] = "holding"
          /\ pipe[t][s] \in Nat \ {0} /\ pipe'[t][s] = pipe[t][s] - 1
          /\ unwritten[t][s] \in Nat
          /\ UNCHANGED <<stored, history, runner, child, held, unwritten>>
      BY <2>2 DEF ReadChunk, TypeOK, RunType, ChildType
    <3>2. Cardinality(Chunks(history[t], s)) \in Nat
      BY ChunksCount DEF TypeOK
    <3>3. QED
      BY <1>0, <2>2, <3>1, <3>2 DEF CountedAt, InHand
  <2>3. CASE u = t /\ z = s /\ PublishChunk(t, s)
    <3>1. /\ reader[t][s] = "holding" /\ reader'[t][s] = "reading"
          /\ pipe[t][s] \in Nat /\ unwritten[t][s] \in Nat
          /\ UNCHANGED <<runner, child, held, pipe, unwritten>>
      BY <2>3 DEF PublishChunk, TypeOK, RunType, ChildType
    <3>2. Event(s) \in Events /\ Event(s).name = s /\ Publish(t, Event(s))
      BY <2>3, PlainEvents DEF PublishChunk, Streams, OutputNames
    <3>3. /\ stored' = stored
          /\ t \in stored => Cardinality(Chunks(history'[t], s))
               = Cardinality(Chunks(history[t], s)) + 1
      BY <3>2, PublishChunks DEF TypeOK
    <3>4. Cardinality(Chunks(history[t], s)) \in Nat
      BY ChunksCount DEF TypeOK
    <3>5. QED
      BY <1>0, <2>3, <3>1, <3>3, <3>4 DEF CountedAt, InHand
  <2>4. CASE u = t /\ z = s /\ ReadEof(t, s)
    BY <1>0, <2>4 DEF ReadEof, CountedAt, InHand, WritersGone, Chunks, TypeOK,
       RunType
  <2>5. CASE u = t /\ z = s /\ ReadFails(t, s)
    BY <1>0, <2>5 DEF ReadFails, CountedAt, InHand, WritersGone, Chunks, TypeOK,
       RunType
  <2>6. QED
    BY <1>4, <2>1, <2>2, <2>3, <2>4, <2>5 DEF Reader
<1>5. CASE CleanupTick \/ Cleanup \/ CleanupStops \/ ShutdownSignal \/
   ServerClosed \/ IdleCheck \/ IdleRegister \/ IdleWoken \/ StopCleanup \/
   JoinCleanup \/ SandboxShutdown \/ Tick
  BY <1>0, <1>5, CountedKept DEF CleanupTick, Cleanup, CleanupStops,
     ShutdownSignal, ServerClosed, IdleCheck, IdleRegister, IdleWoken,
     StopCleanup, JoinCleanup, SandboxShutdown, Tick
<1>6. CASE UNCHANGED vars
  BY <1>0, <1>6, CountedKept DEF vars
<1>7. QED
  BY <1>1, <1>2, <1>3, <1>4, <1>5, <1>6 DEF Next, CleanupLoop, Shutdown

-----------------------------------------------------------------------------
LEMMA RetentionStep ==
  TypeOK /\ LogInv /\ RetentionCounted /\ [Next]_vars => RetentionCounted'
<1> SUFFICES ASSUME TypeOK, LogInv, RetentionCounted, [Next]_vars
             PROVE  RetentionCounted'
  OBVIOUS
<1>0. StoreStep
  BY NextStore
<1>1. ASSUME NEW t \in Tasks, NEW e \in Events, Publish(t, e), ~Ended(history[t])
      PROVE  RetentionCounted'
  BY <1>1, PublishRetention DEF TypeOK
<1>2. ASSUME NEW t \in Tasks, history[t] = <<>>, stored' = stored \cup {t},
             UNCHANGED <<history, due, age>>,
             \A u \in Tasks \ {t} : ttl'[u] = ttl[u]
      PROVE  RetentionCounted'
  BY <1>2, EmptyNotEnded DEF RetentionCounted, TypeOK, StoreType
<1>3. CASE stored' = stored \ due /\ due' = {} /\ UNCHANGED <<history, ttl, age>>
  BY <1>3 DEF RetentionCounted
<1>4. CASE /\ due' = {t \in stored : ttl[t] = 0}
           /\ UNCHANGED <<stored, history, ttl, age>>
  BY <1>4, TimesAreNaturals DEF RetentionCounted, TypeOK, StoreType
<1>5. CASE Tick
  BY <1>5, TimesAreNaturals DEF Tick, Earlier, RetentionCounted, TypeOK, StoreType
<1>6. CASE UNCHANGED <<stored, history, ttl, due, age>>
  BY <1>6 DEF RetentionCounted
<1>7. QED
  BY <1>0, <1>1, <1>2, <1>3, <1>4, <1>5, <1>6 DEF StoreStep

(* With no lease left every runner has returned or never existed, so it    *)
(* has published its terminal event and joined its child and its readers.  *)
LEMMA IdleIsClean == TypeOK /\ StopP!Inv /\ LogInv /\ KillInv => StopIsClean
<1> SUFFICES ASSUME TypeOK, StopP!Inv, LogInv, KillInv, sandbox = "stopped",
                    NEW t \in Tasks
             PROVE  /\ child[t] \in {"none", "exited"}
                    /\ \A s \in Streams : reader[t][s] \in ReaderDone
                    /\ post[t] = "replied" /\ t \in stored => Ended(history[t])
  BY DEF StopIsClean
<1>1. count = 0 /\ StopP!CountIsLeases
  BY DEF StopP!Inv, StopP!StoppingIsIdle
<1>2. StopP!Leased = {}
  BY <1>1, StopFinite, StopP!ZeroMeansIdle
<1>3. LeasePhase(runner[t]) \notin {"active", "drop"}
  BY <1>2 DEF StopP!Leased
<1>4. runner[t] \in {"none", "notify", "done"}
  BY <1>3 DEF LeasePhase, LeaseStates, TypeOK, RunType
<1>5. child[t] \in {"none", "exited"}
  BY <1>4 DEF KillInv, KilledByRunner, TypeOK, ChildType
<1>6. \A s \in Streams : reader[t][s] \in ReaderDone
  BY <1>4 DEF LogInv, ReadersWithinRun, TypeOK, RunType, ReaderStates, ReaderDone
<1>7. post[t] = "replied" /\ t \in stored => Ended(history[t])
  BY <1>4 DEF LogInv, CreatedInOrder, LogFollowsRunner
<1>8. QED
  BY <1>5, <1>6, <1>7

(* The whole invariant of TaskExecution holds in every reachable state, for *)
(* every number of tasks, timeout, retention time and amount of output.    *)
THEOREM Invariance == Spec => []Inv
<1>1. Init => LogInv /\ KillInv /\ RetentionCounted
  BY InitLogKill DEF Init, HistoryInit, RetentionCounted
<1>2. Init => OutputCounted
  BY TimesAreNaturals DEF Init, HistoryInit, OutputCounted, CountedAt
<1>3. TypeOK /\ LogInv /\ KillInv /\ OutputCounted /\ RetentionCounted
        /\ [Next]_vars
        => LogInv' /\ KillInv' /\ OutputCounted' /\ RetentionCounted'
  BY LogStep, KillStep, OutputStep, RetentionStep
<1>4. TypeOK /\ StopP!Inv /\ LogInv /\ KillInv /\ OutputCounted
        /\ RetentionCounted => Inv
  BY IdleIsClean DEF Inv, LogInv, KillInv
<1>5. QED
  BY <1>1, <1>2, <1>3, <1>4, TypeCorrect, PTL DEF Spec

(* GET and SSE never disagree: in every state the snapshot of a stored task *)
(* is the one its log implies (TaskStore::publish updates both at once).    *)
THEOREM SnapshotsAgree == Spec => []SnapshotMatchesHistory
<1>1. Inv => SnapshotMatchesHistory
  BY DEF Inv
<1>2. QED
  BY <1>1, Invariance, PTL

(* A child is killed only for an acknowledged DELETE or an elapsed timeout. *)
THEOREM KillsJustified == Spec => []KillOnlyOnRequest
<1>1. Inv => KillOnlyOnRequest
  BY DEF Inv
<1>2. QED
  BY <1>1, Invariance, PTL

(* No sender outlives its runner in the cancellation map, whichever of exit,*)
(* DELETE, timeout and failed exec ended it (clear_cancellation).           *)
THEOREM SendersCleared == Spec => []NoStaleSender
<1>1. Inv => NoStaleSender
  BY DEF Inv
<1>2. QED
  BY <1>1, Invariance, PTL

(* Graceful shutdown loses no accepted task: when the sandbox is stopped no *)
(* child is alive, no reader is at work, and every answered task that is    *)
(* still stored has its terminal event (run_server, wait_for_idle).         *)
THEOREM ShutdownLosesNothing == Spec => []StopIsClean
<1>1. Inv => StopIsClean
  BY DEF Inv
<1>2. QED
  BY <1>1, Invariance, PTL

(* The terminal event comes after all output: whatever the interleaving of  *)
(* the child, its descendants, the two readers, cancellation and timeout,   *)
(* a log that has ended holds every chunk that was written, unless reading  *)
(* failed. At the end both readers saw end of file, or never existed.       *)
THEOREM NoOutputLost == Spec => []OutputComplete
<1>1. Inv => OutputComplete
  <2> SUFFICES ASSUME Inv, NEW t \in stored, NEW s \in Streams,
                      Ended(history[t]), reader[t][s] # "failed"
               PROVE  Cardinality(Chunks(history[t], s)) + unwritten[t][s] = MaxChunks
    BY DEF OutputComplete
  <2>1. t \in Tasks /\ StoreType
    BY DEF Inv, TypeOK, StoreType
  <2>2. CountedAt(t, s) /\ reader[t][s] \in ReaderStates
    BY <2>1 DEF Inv, OutputCounted, TypeOK, RunType
  <2>3. runner[t] \notin {"none", "spawned", "exec", "stdin", "wait", "killing",
                         "reaping", "drain"}
    BY <2>1, EmptyNotEnded DEF Inv, LogFollowsRunner
  <2>4. reader[t][s] \in {"none", "eof"}
    BY <2>1, <2>2, <2>3 DEF Inv, ReadersWithinRun, ReaderStates
  <2>5. Cardinality(Chunks(history[t], s)) + 0 + 0 + unwritten[t][s] = MaxChunks
    BY <2>2, <2>3, <2>4 DEF CountedAt, InHand
  <2>6. Cardinality(Chunks(history[t], s)) \in Nat /\ unwritten[t][s] \in Nat
    BY <2>1, ChunksCount DEF Inv, TypeOK, ChildType
  <2>7. QED
    BY <2>5, <2>6
<1>2. QED
  BY <1>1, Invariance, PTL

(* The event log of every task behaves as TaskHistory says: it opens with   *)
(* `started`, only grows at its end, and nothing follows its terminal event *)
(* whatever readers, runner and cleanup do.                                 *)
THEOREM RefinesHistory == Spec => HistorySpec
<1>1. Init => HistoryInit
  BY DEF Init
<1>2. Inv /\ [Next]_vars => [HistoryNext]_hvars
  <2> SUFFICES ASSUME Inv, [Next]_vars PROVE [HistoryNext]_hvars
    OBVIOUS
  <2>1. StoreStep /\ StoreType
    BY NextStore DEF Inv, LogInv, TypeOK
  <2>2. ASSUME NEW t \in Tasks, NEW e \in Events, Publish(t, e), ~Ended(history[t]),
               t \in stored => ((e.name = "started") <=> (history[t] = <<>>))
        PROVE  [HistoryNext]_hvars
    BY <2>2 DEF Publish, storeVars, Append1, HistoryNext, hvars
  <2>3. ASSUME NEW t \in Tasks, t \notin stored, history[t] = <<>>,
               stored' = stored \cup {t}, UNCHANGED history
        PROVE  [HistoryNext]_hvars
    BY <2>3 DEF Insert, HistoryNext
  <2>4. CASE stored' = stored \ due /\ UNCHANGED history
    BY <2>1, <2>4 DEF Expire, HistoryNext, StoreType
  <2>5. CASE UNCHANGED hvars
    BY <2>5
  <2>6. QED
    BY <2>1, <2>2, <2>3, <2>4, <2>5 DEF StoreStep, Tick, hvars
<1>3. QED
  BY <1>1, <1>2, Invariance, PTL DEF Spec, HistorySpec

(* What TaskHistory promises: every log it allows is well formed. *)
LEMMA HistoryWellFormed ==
  HistorySpec => [](\A t \in Tasks : WellFormedLog(history[t]))
<1> DEFINE LogType == history \in [Tasks -> Seq(Events)]
           LogShape == \A t \in Tasks : WellFormedLog(history[t])
<1>1. HistoryInit => LogType /\ LogShape
  BY EmptySeq DEF HistoryInit, WellFormedLog
<1>2. LogType /\ LogShape /\ [HistoryNext]_hvars => LogType' /\ LogShape'
  <2> SUFFICES ASSUME LogType, LogShape, [HistoryNext]_hvars
               PROVE  LogType' /\ LogShape'
    OBVIOUS
  <2>1. CASE UNCHANGED history
    BY <2>1
  <2>2. ASSUME NEW t \in Tasks, NEW e \in Events, Append1(t, e)
        PROVE  LogType' /\ LogShape'
    <3> DEFINE L == history[t]
               M == Append(L, e)
    <3>1. /\ L \in Seq(Events) /\ WellFormedLog(L) /\ ~Ended(L)
          /\ (e.name = "started") <=> (L = <<>>)
          /\ history' = [history EXCEPT ![t] = M]
      BY <2>2 DEF Append1
    <3>2. /\ M \in Seq(Events) /\ Len(L) \in Nat /\ Len(M) = Len(L) + 1
          /\ DOMAIN L = 1..Len(L) /\ DOMAIN M = 1..(Len(L) + 1)
          /\ M[Len(L) + 1] = e /\ \A i \in 1..Len(L) : M[i] = L[i]
      BY <3>1, AppendProperties, LenProperties
    <3>3. (L = <<>>) <=> (Len(L) = 0)
      BY <3>1, EmptySeq
    <3>4. LogType'
      BY <3>1, <3>2
    <3>5. WellFormedLog(M)
      <4> HIDE DEF L, M
      <4>1. SUFFICES ASSUME NEW i \in DOMAIN M
                     PROVE  /\ M[i].name = "started" <=> i = 1
                            /\ IsTerminal(M[i]) => i = Len(M)
        BY DEF WellFormedLog
      <4>2. CASE i \in 1..Len(L)
        <5>1. i \in DOMAIN L /\ M[i] = L[i]
          BY <3>2, <4>2
        <5>2. ~IsTerminal(L[i]) /\ (L[i].name = "started" <=> i = 1)
          BY <3>1, <5>1 DEF WellFormedLog, Ended
        <5>3. QED
          BY <5>1, <5>2
      <4>3. CASE i = Len(L) + 1
        <5>1. M[i] = e /\ i = Len(M) /\ (i = 1 <=> Len(L) = 0)
          BY <3>2, <4>3
        <5>2. QED
          BY <3>1, <3>3, <5>1
      <4>4. QED
        BY <3>2, <4>1, <4>2, <4>3
    <3>6. ASSUME NEW u \in Tasks PROVE WellFormedLog(history'[u])
      <4>1. CASE u = t
        BY <3>1, <3>5, <4>1
      <4>2. CASE u # t
        <5>1. history'[u] = history[u]
          BY <3>1, <4>2
        <5>2. QED
          BY <5>1
      <4>3. QED
        BY <4>1, <4>2
    <3>7. QED
      BY <3>4, <3>6
  <2>3. QED
    BY <2>1, <2>2 DEF HistoryNext, Insert, Expire, hvars
<1>3. LogShape => \A t \in Tasks : WellFormedLog(history[t])
  OBVIOUS
<1>4. QED
  BY <1>1, <1>2, <1>3, PTL DEF HistorySpec

(* Every log the service keeps, of a running task too, opens with its one   *)
(* `started` event and has nothing after its terminal event: the runner and *)
(* its two readers never publish out of turn.                               *)
THEOREM LogsWellFormed == Spec => [](\A t \in Tasks : WellFormedLog(history[t]))
BY RefinesHistory, HistoryWellFormed, PTL

(* A result is final: once a GET has answered anything but `running`, the   *)
(* status and exit code stay what they were for as long as the task is      *)
(* stored. A late reader, DELETE or timeout does not change them.           *)
THEOREM ResultsAreFinal ==
  Spec => [][\A t \in stored \cap stored' :
               snapshot[t].status # "running" => snapshot'[t] = snapshot[t]]_vars
<1>1. ASSUME Inv, Inv', [Next]_vars, [HistoryNext]_hvars,
             NEW t \in stored \cap stored', snapshot[t].status # "running"
      PROVE  snapshot'[t] = snapshot[t]
  <2>1. t \in Tasks /\ Ended(history[t])
    <3>1. t \in Tasks
      BY <1>1 DEF Inv, TypeOK, StoreType
    <3>2. ~Ended(history[t]) => snapshot[t] = [status |-> "running", exit_code |-> None]
      BY <1>1 DEF Inv, SnapshotMatchesHistory
    <3>3. QED
      BY <1>1, <3>1, <3>2
  <2>2. history'[t] = history[t]
    BY <1>1, <2>1 DEF HistoryNext, Insert, Append1, Expire, hvars, Inv, TypeOK, StoreType
  <2>3. SnapshotMatchesHistory /\ SnapshotMatchesHistory'
    BY <1>1 DEF Inv
  <2>4. QED
    BY <1>1, <2>2, <2>3 DEF SnapshotMatchesHistory
<1>2. Inv /\ Inv' /\ [Next]_vars /\ [HistoryNext]_hvars =>
        [\A t \in stored \cap stored' :
           snapshot[t].status # "running" => snapshot'[t] = snapshot[t]]_vars
  BY <1>1
<1>3. QED
  BY <1>2, Invariance, RefinesHistory, PTL DEF Spec, HistorySpec

(* Cleanup removes a finished task only when its whole retention time has   *)
(* passed since the terminal event, also when it read the clock before that *)
(* event was published.                                                     *)
THEOREM ResultsRetained == Spec => ResultRetained
<1>1. Inv /\ [Next]_vars =>
        [\A t \in stored \ stored' : Ended(history[t]) => age[t] = Retention]_vars
  <2> SUFFICES ASSUME Inv, [Next]_vars, NEW t \in stored \ stored',
                      Ended(history[t])
               PROVE  age[t] = Retention
    OBVIOUS
  <2>1. StoreStep
    BY NextStore DEF Inv, LogInv
  <2>2. stored' = stored \ due
    BY <2>1 DEF StoreStep, Publish, storeVars, Tick
  <2>3. QED
    BY <2>2 DEF Inv, RetentionCounted
<1>2. QED
  BY <1>1, Invariance, PTL DEF Spec, ResultRetained
=============================================================================
