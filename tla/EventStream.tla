---------------------------- MODULE EventStream ----------------------------
(***************************************************************************)
(* GET /v1/exec/{id}/events: the server-sent events of one task            *)
(* (api/exec.rs events, TaskStore::subscribe) over tokio's broadcast       *)
(* channel of bounded capacity. The log grows as TaskHistory says; each    *)
(* subscriber replays the log it cloned and then reads the channel.        *)
(***************************************************************************)
EXTENDS TaskHistory, SequencesExt

CONSTANTS task,      \* the task whose events are streamed
          Subs,      \* the requests for its stream
          Capacity,  \* broadcast::channel(128)
          MaxLen     \* bound: output stops when the log has this many events

ASSUME TaskInTasks == task \in Tasks
ASSUME CapacityPositive == Capacity \in Nat \ {0} /\ MaxLen \in Nat

VARIABLES
  ring,    \* the channel's slots: what was sent, and its position
  tail,    \* position of the next send
  phase,   \* per request: "none", "open", then how it ended: "done" after a
           \* terminal event, "lagged", "closed", "gone" (client left)
  log,     \* the part of the cloned history not yet sent to the client
  next,    \* position the receiver reads next
  got      \* ghost: events the client was sent

subVars == <<phase, log, next, got>>
vars == <<stored, history, ring, tail, phase, log, next, got>>

Open == {s \in Subs : phase[s] = "open"}
EmptySlot == [pos |-> -1, event |-> Event("started")]

-----------------------------------------------------------------------------
(* publish: under the write lock the event is pushed on the history and    *)
(* sent. A send without receivers fails and moves nothing (external).      *)

Send(e) ==
  IF Open = {}
  THEN UNCHANGED <<ring, tail>>
  ELSE /\ ring' = [ring EXCEPT ![tail % Capacity] = [pos |-> tail, event |-> e]]
       /\ tail' = tail + 1

Publish(e) ==
  /\ Append1(task, e)
  /\ Len(history[task]) < MaxLen \/ IsTerminal(e)
  /\ Send(e)
  /\ UNCHANGED subVars

(* cleanup drops the task and with it the channel's only sender. *)
Expires ==
  /\ task \in stored
  /\ Expire({task})
  /\ UNCHANGED <<ring, tail, subVars>>

-----------------------------------------------------------------------------
(* The handler. subscribe clones the history and creates the receiver      *)
(* under one read lock; an expired task answers 404 and opens nothing.     *)

(* A slip: the history is cloned under an earlier lock, and an event is    *)
(* published before the receiver exists.                                   *)
SubscribeTwoLocks(s) ==
  /\ phase[s] = "none"
  /\ task \in stored
  /\ phase' = [phase EXCEPT ![s] = "open"]
  /\ log' = [log EXCEPT ![s] = IF history[task] = <<>> THEN <<>>
                              ELSE Front(history[task])]
  /\ next' = [next EXCEPT ![s] = tail]
  /\ UNCHANGED <<hvars, ring, tail, got>>

Subscribe(s) ==
  /\ phase[s] = "none"
  /\ task \in stored
  /\ phase' = [phase EXCEPT ![s] = "open"]
  /\ log' = [log EXCEPT ![s] = history[task]]
  /\ next' = [next EXCEPT ![s] = tail]
  /\ UNCHANGED <<hvars, ring, tail, got>>

Yield(s, e) ==
  /\ got' = [got EXCEPT ![s] = Append(@, e)]
  /\ phase' = [phase EXCEPT ![s] = IF IsTerminal(e) THEN "done" ELSE @]

(* A slip: an event is sent without being taken from the replay. *)
ReplayRepeats(s) ==
  /\ phase[s] = "open"
  /\ log[s] # <<>>
  /\ Yield(s, Head(log[s]))
  /\ UNCHANGED <<hvars, ring, tail, log, next>>

Replay(s) ==
  /\ phase[s] = "open"
  /\ log[s] # <<>>
  /\ Yield(s, Head(log[s]))
  /\ log' = [log EXCEPT ![s] = Tail(@)]
  /\ UNCHANGED <<hvars, ring, tail, next>>

(* receiver.recv(): the slot of `next` holds that position, a later one    *)
(* (the receiver lagged), or an earlier one (nothing to receive yet).      *)
Slot(s) == ring[next[s] % Capacity]

(* A slip: after Lagged the stream goes on with what the slot holds now. *)
ReceiveSkippingLag(s) ==
  /\ phase[s] = "open"
  /\ log[s] = <<>>
  /\ Slot(s).pos >= next[s]
  /\ Yield(s, Slot(s).event)
  /\ next' = [next EXCEPT ![s] = Slot(s).pos + 1]
  /\ UNCHANGED <<hvars, ring, tail, log>>

Receive(s) ==
  /\ phase[s] = "open"
  /\ log[s] = <<>>
  /\ Slot(s).pos = next[s]
  /\ Yield(s, Slot(s).event)
  /\ next' = [next EXCEPT ![s] = @ + 1]
  /\ UNCHANGED <<hvars, ring, tail, log>>

(* Slips: a full channel taken for one that overflowed, and a receiver     *)
(* that is not told that its sender is gone.                               *)
ReceiveFailsWhenFull(s) ==
  /\ phase[s] = "open"
  /\ log[s] = <<>>
  /\ tail - next[s] >= Capacity
  /\ phase' = [phase EXCEPT ![s] = "lagged"]
  /\ UNCHANGED <<hvars, ring, tail, log, next, got>>

ReceiveFailsOnLagOnly(s) ==
  /\ phase[s] = "open"
  /\ log[s] = <<>>
  /\ Slot(s).pos > next[s]
  /\ phase' = [phase EXCEPT ![s] = "lagged"]
  /\ UNCHANGED <<hvars, ring, tail, log, next, got>>

(* Err(Lagged) and Err(Closed) both end `while let Ok(event)`. *)
ReceiveFails(s) ==
  /\ phase[s] = "open"
  /\ log[s] = <<>>
  /\ \/ /\ Slot(s).pos > next[s]
        /\ phase' = [phase EXCEPT ![s] = "lagged"]
     \/ /\ next[s] = tail
        /\ task \notin stored
        /\ phase' = [phase EXCEPT ![s] = "closed"]
  /\ UNCHANGED <<hvars, ring, tail, log, next, got>>

Disconnect(s) ==
  /\ phase[s] = "open"
  /\ phase' = [phase EXCEPT ![s] = "gone"]
  /\ UNCHANGED <<hvars, ring, tail, log, next, got>>

-----------------------------------------------------------------------------

(* The state create leaves behind: the task is stored, its log is empty.   *)
Init ==
  /\ stored = {task}
  /\ history = [t \in Tasks |-> <<>>]
  /\ ring = [i \in 0..(Capacity - 1) |-> EmptySlot]
  /\ tail = 0
  /\ phase = [s \in Subs |-> "none"]
  /\ log = [s \in Subs |-> <<>>]
  /\ next = [s \in Subs |-> 0]
  /\ got = [s \in Subs |-> <<>>]

Stream(s) == Replay(s) \/ Receive(s) \/ ReceiveFails(s)

Next ==
  \/ \E e \in Events : Publish(e)
  \/ Expires
  \/ \E s \in Subs : Subscribe(s) \/ Stream(s) \/ Disconnect(s)

Spec == Init /\ [][Next]_vars

(* Clients keep reading, and the cleanup loop removes every task           *)
(* (TaskExecution's EntriesExpire).                                        *)
FairSpec == Spec /\ WF_vars(Expires) /\ \A s \in Subs : WF_vars(Stream(s))

-----------------------------------------------------------------------------
(* Properties *)

(* The values each variable takes. *)
TypeOK ==
  /\ stored \subseteq Tasks
  /\ history \in [Tasks -> Seq(Events)]
  /\ ring \in [0..(Capacity - 1) -> [pos : Nat \cup {-1}, event : Events]]
  /\ tail \in Nat
  /\ phase \in [Subs -> {"none", "open", "done", "lagged", "closed", "gone"}]
  /\ log \in [Subs -> Seq(Events)]
  /\ next \in [Subs -> Nat]
  /\ got \in [Subs -> Seq(Events)]

(* Whenever a client subscribes, and however slowly it reads, what it was  *)
(* sent is a prefix of the task's log: the replay joins the live events    *)
(* without a gap, a duplicate or a swap (events, subscribe).               *)
DeliversPrefix == \A s \in Subs : IsPrefix(got[s], history[task])

(* A stream that ended after a terminal event has sent the whole log.      *)
DoneIsComplete ==
  \A s \in Subs : phase[s] = "done" => got[s] = history[task] /\ Ended(got[s])

(* Only a client that fell more than the channel's capacity behind is cut  *)
(* off by lagging.                                                         *)
LaggedWasBehind ==
  \A s \in Subs :
    phase[s] = "lagged" => Len(history[task]) - Len(got[s]) > Capacity

(* The log being streamed, and hence what a client has been sent of it. *)
LogWellFormed == WellFormedLog(history[task])

(* Of the log, an open stream has sent a prefix, holds the next part to    *)
(* replay, and has the rest ahead of it in the channel.                    *)
SentThenReplayThenChannel ==
  /\ \A s \in Subs : phase[s] = "none" => got[s] = <<>>
  /\ \A s \in Open :
       /\ next[s] <= tail
       /\ Len(got[s]) + Len(log[s]) + (tail - next[s]) = Len(history[task])
       /\ ~Ended(got[s])
       /\ \A i \in 1..Len(log[s]) : log[s][i] = history[task][Len(got[s]) + i]

(* A slot holds the event of its position, counted from the end of the     *)
(* log, or has been overwritten by a later one.                            *)
SlotsInPlace ==
  \A i \in 0..(Capacity - 1) :
    ring[i].pos < tail /\ (ring[i].pos >= 0 => ring[i].pos % Capacity = i)

SlotsHoldLog ==
  \A s \in Open : \A p \in next[s]..(tail - 1) :
    LET slot == ring[p % Capacity]
    IN  /\ slot.pos >= p
        /\ slot.pos = p =>
             slot.event = history[task][Len(history[task]) - tail + p + 1]

Inv ==
  /\ TypeOK
  /\ LogWellFormed
  /\ SentThenReplayThenChannel
  /\ SlotsInPlace
  /\ SlotsHoldLog
  /\ DeliversPrefix
  /\ DoneIsComplete
  /\ LaggedWasBehind

(* A client that stays connected and reads gets to the end of its stream,  *)
(* also when its task is removed unfinished.                               *)
StreamEnds == \A s \in Subs : phase[s] = "open" ~> phase[s] # "open"
=============================================================================
