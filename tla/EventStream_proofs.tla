------------------------ MODULE EventStream_proofs ------------------------
(***************************************************************************)
(* EventStream proved for every number of subscribers, every capacity of   *)
(* the channel and every length of the log: clients are sent prefixes of   *)
(* the log, and a finished stream has sent all of it.                      *)
(***************************************************************************)
EXTENDS EventStream, SequenceTheorems, TLAPS

(* What the proof needs of Append and of a prefix. *)
LEMMA AppendFacts ==
  ASSUME NEW S, NEW log1 \in Seq(S), NEW e \in S
  PROVE  /\ Append(log1, e) \in Seq(S)
         /\ Len(Append(log1, e)) = Len(log1) + 1
         /\ Append(log1, e)[Len(log1) + 1] = e
         /\ \A i \in 1..Len(log1) : Append(log1, e)[i] = log1[i]
BY AppendProperties, LenProperties

LEMMA PrefixIsPointwise ==
  ASSUME NEW S, NEW a \in Seq(S), NEW b \in Seq(S)
  PROVE  IsPrefix(a, b) <=>
           /\ Len(a) <= Len(b)
           /\ \A i \in 1..Len(a) : a[i] = b[i]
<1>1. Len(a) \in Nat /\ Len(b) \in Nat
  BY LenProperties
<1>2. CASE Len(a) <= Len(b)
  <2>1. /\ SubSeq(a, 1, Len(a)) \in Seq(S) /\ SubSeq(b, 1, Len(a)) \in Seq(S)
        /\ Len(SubSeq(a, 1, Len(a))) = Len(a) /\ Len(SubSeq(b, 1, Len(a))) = Len(a)
        /\ \A i \in 1..Len(a) : /\ SubSeq(a, 1, Len(a))[i] = a[i]
                                /\ SubSeq(b, 1, Len(a))[i] = b[i]
    BY <1>1, <1>2, SubSeqProperties, LenProperties
  <2>2. QED
    BY <1>1, <1>2, <2>1, SeqEqual DEF IsPrefix
<1>3. CASE ~(Len(a) <= Len(b))
  BY <1>3 DEF IsPrefix
<1>4. QED
  BY <1>2, <1>3

LEMMA PrefixGrows ==
  ASSUME NEW S, NEW a \in Seq(S), NEW b \in Seq(S), NEW e \in S, IsPrefix(a, b)
  PROVE  IsPrefix(a, Append(b, e))
<1>1. /\ Len(a) \in Nat /\ Len(b) \in Nat
      /\ Len(a) <= Len(b) /\ \A i \in 1..Len(a) : a[i] = b[i]
  BY PrefixIsPointwise, LenProperties
<1>2. /\ Append(b, e) \in Seq(S) /\ Len(Append(b, e)) = Len(b) + 1
      /\ \A i \in 1..Len(b) : Append(b, e)[i] = b[i]
  BY AppendFacts
<1>3. Len(a) <= Len(Append(b, e)) /\ \A i \in 1..Len(a) : a[i] = Append(b, e)[i]
  BY <1>1, <1>2
<1>4. QED
  BY <1>2, <1>3, PrefixIsPointwise

(* Where in the log the event of channel position p is: the channel holds  *)
(* the last tl - n of its k events.                                        *)
LEMMA PositionInLog ==
  ASSUME NEW g \in Nat, NEW r \in Nat, NEW n \in Nat, NEW k \in Nat, NEW tl \in Nat,
         NEW p \in n..tl, p # tl, g + r + (tl - n) = k
  PROVE  k - tl + p + 1 \in 1..k
OBVIOUS

LEMMA NextIndex == \A g \in Nat : \A i \in Int : g + (i + 1) = (g + 1) + i
OBVIOUS

LEMMA ReplayWithinLog ==
  ASSUME NEW g \in Nat, NEW r \in Nat, NEW n \in Nat, NEW k \in Nat, NEW tl \in Nat,
         n <= tl, g + r + (tl - n) = k, NEW i \in 1..r
  PROVE  g + i \in 1..k
OBVIOUS

LEMMA InitInv == Init => Inv
<1> SUFFICES ASSUME Init PROVE Inv
  OBVIOUS
<1>1. TypeOK
  BY TaskInTasks, CapacityPositive, EmptySeq
     DEF Init, TypeOK, EmptySlot, Event, Events, OutputNames
<1>2. history[task] = <<>> /\ \A s \in Subs : got[s] = <<>> /\ phase[s] = "none"
  BY TaskInTasks DEF Init
<1>3. LogWellFormed
  BY <1>2, EmptySeq DEF LogWellFormed, WellFormedLog
<1>4. /\ SentThenReplayThenChannel /\ SlotsInPlace /\ SlotsHoldLog
      /\ DoneIsComplete /\ LaggedWasBehind
  BY <1>2, CapacityPositive
     DEF Init, SentThenReplayThenChannel, SlotsInPlace, SlotsHoldLog, DoneIsComplete,
         LaggedWasBehind, Open, EmptySlot
<1>5. DeliversPrefix
  <2>1. IsPrefix(<<>>, <<>>)
    BY EmptySeq DEF IsPrefix
  <2>2. QED
    BY <1>2, <2>1 DEF DeliversPrefix
<1>6. QED
  BY <1>1, <1>3, <1>4, <1>5 DEF Inv

-----------------------------------------------------------------------------
(* Two positions that share a slot are at least a whole round apart. *)
LEMMA SameSlot ==
  ASSUME NEW C \in Nat \ {0}, NEW a \in Nat, NEW b \in Nat, a > b, a % C = b % C
  PROVE  a - b >= C
BY SMTT(20)

LEMMA LagGrows ==
  ASSUME Inv, NEW e \in Events, Append1(task, e), UNCHANGED <<phase, got>>
  PROVE  LaggedWasBehind'
<1> SUFFICES ASSUME NEW s \in Subs, phase[s] = "lagged"
             PROVE  Len(history'[task]) - Len(got[s]) > Capacity
  BY DEF LaggedWasBehind
<1>1. /\ history[task] \in Seq(Events) /\ got[s] \in Seq(Events)
      /\ history'[task] = Append(history[task], e)
  BY TaskInTasks DEF Append1, Inv, TypeOK
<1> DEFINE k == Len(history[task])
           g == Len(got[s])
<1>2. /\ k \in Nat /\ g \in Nat /\ Len(history'[task]) = k + 1 /\ k - g > Capacity
  <2>1. k \in Nat /\ g \in Nat /\ Len(history'[task]) = k + 1
    BY <1>1, LenProperties, AppendFacts
  <2>2. k - g > Capacity
    BY DEF Inv, LaggedWasBehind
  <2>3. QED
    BY <2>1, <2>2
<1> HIDE DEF k, g
<1>3. (k + 1) - g > Capacity
  BY <1>2, CapacityPositive
<1>4. QED
  BY <1>2, <1>3 DEF k, g

(* What Append1 appends keeps a log well formed. *)
LEMMA AppendWellFormed ==
  ASSUME NEW L \in Seq(Events), NEW e \in Events,
         WellFormedLog(L), ~Ended(L), (e.name = "started") <=> (L = <<>>)
  PROVE  WellFormedLog(Append(L, e))
<1> DEFINE M == Append(L, e)
<1>1. /\ Len(L) \in Nat /\ DOMAIN L = 1..Len(L)
      /\ Len(M) = Len(L) + 1 /\ DOMAIN M = 1..(Len(L) + 1)
      /\ M[Len(L) + 1] = e /\ \A i \in 1..Len(L) : M[i] = L[i]
      /\ M \in Seq(Events)
  BY AppendFacts, LenProperties
<1>2. (L = <<>>) <=> (Len(L) = 0)
  BY EmptySeq
<1> HIDE DEF M
<1>3. ASSUME NEW i \in DOMAIN M
      PROVE  /\ M[i].name = "started" <=> i = 1
             /\ IsTerminal(M[i]) => i = Len(M)
  <2>1. CASE i \in 1..Len(L)
    <3>1. M[i] = L[i] /\ i \in DOMAIN L
      BY <1>1, <2>1
    <3>2. ~IsTerminal(L[i]) /\ (L[i].name = "started" <=> i = 1)
      BY <3>1 DEF WellFormedLog, Ended
    <3>3. QED
      BY <3>1, <3>2
  <2>2. CASE i = Len(L) + 1
    <3>1. M[i] = e /\ i = Len(M) /\ (i = 1 <=> Len(L) = 0)
      BY <1>1, <2>2
    <3>2. QED
      BY <1>2, <3>1
  <2>3. QED
    BY <1>1, <2>1, <2>2
<1>4. WellFormedLog(M)
  BY <1>3 DEF WellFormedLog
<1>5. QED
  BY <1>4 DEF M

(* The log grows by one event. *)
LEMMA PublishInv ==
  ASSUME Inv, NEW e \in Events, Publish(e)
  PROVE  Inv'
<1> DEFINE L == history[task]
<1> USE TaskInTasks
<1>1. /\ L \in Seq(Events) /\ Len(L) \in Nat
      /\ L' = Append(L, e) /\ ~Ended(L)
      /\ history' \in [Tasks -> Seq(Events)]
  BY LenProperties, AppendProperties DEF Publish, Append1, Inv, TypeOK
<1>2. /\ L' \in Seq(Events) /\ Len(L') = Len(L) + 1 /\ L'[Len(L) + 1] = e
      /\ \A i \in 1..Len(L) : L'[i] = L[i]
      /\ DOMAIN L = 1..Len(L) /\ DOMAIN L' = 1..(Len(L) + 1)
  BY <1>1, AppendFacts, LenProperties
<1>3. UNCHANGED <<stored, phase, log, next, got>>
  BY DEF Publish, Append1, subVars
<1>7. LaggedWasBehind'
  BY <1>3, LagGrows DEF Publish
<1>8. LogWellFormed'
  <2>1. WellFormedLog(L) /\ ((e.name = "started") <=> (L = <<>>))
    BY DEF Inv, LogWellFormed, Publish, Append1
  <2>2. WellFormedLog(Append(L, e))
    BY <1>1, <2>1, AppendWellFormed
  <2>3. QED
    BY <1>1, <2>2 DEF LogWellFormed
<1>4. CASE Open = {}
  <2>1. UNCHANGED <<ring, tail>>
    BY <1>4 DEF Publish, Send
  <2>2. QED
    <3>1. TypeOK'
      BY <1>1, <1>3, <2>1 DEF Inv, TypeOK
    <3>3. SentThenReplayThenChannel' /\ SlotsInPlace' /\ SlotsHoldLog'
      BY <1>3, <1>4, <2>1
         DEF Inv, SentThenReplayThenChannel, SlotsInPlace, SlotsHoldLog, Open
    <3>4. DeliversPrefix'
      BY <1>1, <1>3, PrefixGrows DEF Inv, TypeOK, DeliversPrefix
    <3>5. DoneIsComplete'
      BY <1>1, <1>3 DEF Inv, DoneIsComplete
    <3>6. QED
      BY <1>7, <1>8, <3>1, <3>3, <3>4, <3>5 DEF Inv
<1>5. CASE Open # {}
  <2>1. /\ ring' = [ring EXCEPT ![tail % Capacity] = [pos |-> tail, event |-> e]]
        /\ tail' = tail + 1
    BY <1>5 DEF Publish, Send
  <2>2. tail \in Nat /\ tail % Capacity \in 0..(Capacity - 1)
    BY CapacityPositive DEF Inv, TypeOK
  <2>3. TypeOK'
    BY <1>1, <1>3, <2>1, <2>2 DEF Inv, TypeOK
  <2>5. SentThenReplayThenChannel'
    <3>1. \A s \in Subs : phase'[s] = "none" => got'[s] = <<>>
      BY <1>3 DEF Inv, SentThenReplayThenChannel
    <3>2. ASSUME NEW s \in Open'
          PROVE  /\ next'[s] <= tail'
                 /\ Len(got'[s]) + Len(log'[s]) + (tail' - next'[s]) = Len(L')
                 /\ ~Ended(got'[s])
                 /\ \A i \in 1..Len(log'[s]) : log'[s][i] = L'[Len(got'[s]) + i]
      <4>1. s \in Open /\ s \in Subs
        BY <1>3 DEF Open
      <4>2. /\ next[s] \in Nat /\ Len(got[s]) \in Nat /\ Len(log[s]) \in Nat
        BY <4>1, LenProperties DEF Inv, TypeOK
      <4>3. /\ next[s] <= tail
            /\ Len(got[s]) + Len(log[s]) + (tail - next[s]) = Len(L)
            /\ ~Ended(got[s])
            /\ \A i \in 1..Len(log[s]) : log[s][i] = L[Len(got[s]) + i]
        BY <4>1 DEF Inv, SentThenReplayThenChannel
      <4>4. \A i \in 1..Len(log[s]) : Len(got[s]) + i \in 1..Len(L)
        BY <1>1, <2>2, <4>2, <4>3, ReplayWithinLog
      <4>5. \A i \in 1..Len(log'[s]) : log'[s][i] = L'[Len(got'[s]) + i]
        BY <1>2, <1>3, <4>3, <4>4
      <4>6. /\ next'[s] <= tail'
            /\ Len(got'[s]) + Len(log'[s]) + (tail' - next'[s]) = Len(L')
        <5>1. /\ got'[s] = got[s] /\ log'[s] = log[s] /\ next'[s] = next[s]
              /\ tail' = tail + 1 /\ Len(L') = Len(L) + 1
          BY <1>2, <1>3, <2>1
        <5>2. /\ next[s] <= tail + 1
              /\ Len(got[s]) + Len(log[s]) + ((tail + 1) - next[s]) = Len(L) + 1
          <6>1. /\ next[s] <= tail /\ next[s] \in Nat /\ tail \in Nat
                /\ Len(got[s]) + Len(log[s]) + (tail - next[s]) = Len(L)
                /\ Len(got[s]) \in Nat /\ Len(log[s]) \in Nat /\ Len(L) \in Nat
            BY <1>1, <2>2, <4>2, <4>3
          <6>2. Len(got[s]) + Len(log[s]) + ((tail + 1) - next[s]) = Len(L) + 1
            <7> DEFINE g == Len(got[s])
                       r == Len(log[s])
                       k == Len(L)
                       n == next[s]
            <7>1. /\ g \in Nat /\ r \in Nat /\ k \in Nat /\ n \in Nat /\ tail \in Nat
                  /\ g + r + (tail - n) = k
              BY <6>1
            <7> HIDE DEF g, r, k, n
            <7>2. g + r + ((tail + 1) - n) = k + 1
              BY <7>1
            <7>3. QED
              BY <7>2 DEF g, r, k, n
          <6>3. next[s] <= tail + 1
            BY <6>1
          <6>4. QED
            BY <6>2, <6>3
        <5>3. QED
          BY <5>1, <5>2
      <4>7. QED
        BY <1>3, <4>3, <4>5, <4>6
    <3>3. QED
      BY <3>1, <3>2 DEF SentThenReplayThenChannel
  <2>6. SlotsInPlace' /\ SlotsHoldLog'
    <3>1. \A i \in 0..(Capacity - 1) :
            ring'[i].pos < tail' /\ (ring'[i].pos >= 0 => ring'[i].pos % Capacity = i)
      <4>1. SUFFICES ASSUME NEW i \in 0..(Capacity - 1)
                     PROVE  /\ ring'[i].pos < tail + 1
                            /\ ring'[i].pos >= 0 => ring'[i].pos % Capacity = i
        BY <2>1
      <4>2. ring[i].pos < tail /\ (ring[i].pos >= 0 => ring[i].pos % Capacity = i)
        BY DEF Inv, SlotsInPlace
      <4>4. ring[i] \in [pos : Nat \cup {-1}, event : Events]
        BY DEF Inv, TypeOK
      <4>5. QED
        BY <2>1, <2>2, <4>2, <4>4 DEF Inv, TypeOK
    <3>2. ASSUME NEW s \in Open', NEW p \in next'[s]..(tail' - 1)
          PROVE  LET slot == ring'[p % Capacity]
                 IN  /\ slot.pos >= p
                     /\ slot.pos = p => slot.event = L'[Len(L') - tail' + p + 1]
      <4>1. s \in Open /\ s \in Subs /\ next[s] \in Nat /\ p \in next[s]..tail
        BY <1>3, <2>1, <2>2 DEF Open, Inv, TypeOK
      <4>2. p \in Nat /\ p % Capacity \in 0..(Capacity - 1)
        BY <2>2, <4>1, CapacityPositive
      <4>3. CASE p = tail
        BY <1>1, <1>2, <2>1, <2>2, <4>3 DEF Inv, TypeOK
      <4>4. CASE p # tail /\ p % Capacity = tail % Capacity
        BY <2>1, <2>2, <4>1, <4>4 DEF Inv, TypeOK
      <4>5. CASE p # tail /\ p % Capacity # tail % Capacity
        <5>1. ring'[p % Capacity] = ring[p % Capacity]
          BY <2>1, <2>2, <4>2, <4>5 DEF Inv, TypeOK
        <5>2. /\ ring[p % Capacity].pos >= p
              /\ ring[p % Capacity].pos = p =>
                   ring[p % Capacity].event = L[Len(L) - tail + p + 1]
          BY <2>2, <4>1, <4>5 DEF Inv, SlotsHoldLog
        <5>3. Len(L) - tail + p + 1 \in 1..Len(L)
          <6>1. /\ Len(got[s]) + Len(log[s]) + (tail - next[s]) = Len(L)
                /\ Len(got[s]) \in Nat /\ Len(log[s]) \in Nat
            BY <4>1, LenProperties DEF Inv, SentThenReplayThenChannel, TypeOK
          <6>2. QED
            BY <1>1, <2>2, <4>1, <4>5, <6>1, PositionInLog
        <5>4. Len(L') - tail' + p + 1 = Len(L) - tail + p + 1
          <6>1. tail' = tail + 1 /\ Len(L') = Len(L) + 1
            BY <1>2, <2>1
          <6>2. Len(L) \in Nat /\ tail \in Nat /\ p \in Nat
            BY <1>1, <2>2, <4>2, LenProperties
          <6>3. QED
            BY <6>1, <6>2
        <5>5. QED
          BY <1>2, <5>1, <5>2, <5>3, <5>4
      <4>6. QED
        BY <4>3, <4>4, <4>5
    <3>3. QED
      BY <3>1, <3>2 DEF SlotsInPlace, SlotsHoldLog
  <2>7. DeliversPrefix'
    BY <1>1, <1>3, PrefixGrows DEF Inv, TypeOK, DeliversPrefix
  <2>8. DoneIsComplete'
    BY <1>1, <1>3 DEF Inv, DoneIsComplete
  <2>9. QED
    BY <1>7, <1>8, <2>3, <2>5, <2>6, <2>7, <2>8 DEF Inv
<1>6. QED
  BY <1>4, <1>5

-----------------------------------------------------------------------------
(* A stream sends the event of the log that follows what it has sent. *)
LEMMA YieldPrefix ==
  ASSUME NEW L \in Seq(Events), NEW g \in Seq(Events), NEW e \in Events,
         IsPrefix(g, L), ~Ended(g), Len(g) + 1 <= Len(L), L[Len(g) + 1] = e,
         \A i \in DOMAIN L : IsTerminal(L[i]) => i = Len(L)
  PROVE  /\ Append(g, e) \in Seq(Events)
         /\ Len(Append(g, e)) = Len(g) + 1
         /\ IsPrefix(Append(g, e), L)
         /\ IsTerminal(e) => Append(g, e) = L /\ Ended(L)
         /\ ~IsTerminal(e) => ~Ended(Append(g, e))
<1> DEFINE h == Append(g, e)
<1>1. /\ Len(L) \in Nat /\ Len(g) \in Nat /\ DOMAIN L = 1..Len(L) /\ DOMAIN g = 1..Len(g)
      /\ \A i \in 1..Len(g) : g[i] = L[i]
  BY LenProperties, PrefixIsPointwise
<1>2. /\ h \in Seq(Events) /\ Len(h) = Len(g) + 1 /\ h[Len(g) + 1] = e
      /\ \A i \in 1..Len(g) : h[i] = g[i]
      /\ DOMAIN h = 1..(Len(g) + 1)
  BY AppendFacts, LenProperties
<1> HIDE DEF h
<1>3. \A i \in 1..Len(h) : h[i] = L[i]
  BY <1>1, <1>2
<1>4. IsPrefix(h, L)
  BY <1>1, <1>2, <1>3, PrefixIsPointwise
<1>5. ASSUME IsTerminal(e) PROVE h = L /\ Ended(L)
  <2>1. Len(g) + 1 = Len(L) /\ Ended(L)
    <3>1. Len(g) + 1 \in DOMAIN L
      BY <1>1
    <3>2. QED
      BY <1>5, <3>1 DEF Ended
  <2>2. QED
    BY <1>2, <1>3, <2>1, SeqEqual
<1>6. ASSUME ~IsTerminal(e) PROVE ~Ended(h)
  BY <1>1, <1>2, <1>6 DEF Ended
<1>7. QED
  BY <1>2, <1>4, <1>5, <1>6 DEF h

(* What sending the next event does to the parts of the invariant that     *)
(* speak of what was sent.                                                 *)
LEMMA YieldInv ==
  ASSUME Inv, NEW s \in Open, NEW e \in Events, Yield(s, e),
         UNCHANGED <<hvars, ring, tail>>,
         Len(got[s]) + 1 <= Len(history[task]), history[task][Len(got[s]) + 1] = e
  PROVE  /\ got' \in [Subs -> Seq(Events)]
         /\ phase' \in [Subs -> {"none", "open", "done", "lagged", "closed", "gone"}]
         /\ Len(got'[s]) = Len(got[s]) + 1
         /\ s \in Open' => ~Ended(got'[s])
         /\ \A u \in Subs \ {s} : got'[u] = got[u] /\ phase'[u] = phase[u]
         /\ phase'[s] \in {"open", "done"}
         /\ LogWellFormed' /\ DeliversPrefix' /\ DoneIsComplete' /\ LaggedWasBehind'
<1> DEFINE L == history[task]
<1>1. /\ s \in Subs /\ phase[s] = "open" /\ L \in Seq(Events) /\ L' = L
      /\ got[s] \in Seq(Events)
  BY TaskInTasks DEF Open, Inv, TypeOK, hvars
<1>2. IsPrefix(got[s], L) /\ ~Ended(got[s]) /\ \A i \in DOMAIN L : IsTerminal(L[i]) => i = Len(L)
  BY <1>1 DEF Inv, DeliversPrefix, SentThenReplayThenChannel, LogWellFormed, WellFormedLog
<1>3. /\ got' = [got EXCEPT ![s] = Append(got[s], e)]
      /\ phase' = [phase EXCEPT ![s] = IF IsTerminal(e) THEN "done" ELSE "open"]
  BY <1>1 DEF Yield
<1>4. /\ Append(got[s], e) \in Seq(Events)
      /\ Len(Append(got[s], e)) = Len(got[s]) + 1
      /\ IsPrefix(Append(got[s], e), L)
      /\ IsTerminal(e) => Append(got[s], e) = L /\ Ended(L)
      /\ ~IsTerminal(e) => ~Ended(Append(got[s], e))
  BY <1>1, <1>2, YieldPrefix
<1>5. got'[s] = Append(got[s], e) /\ phase'[s] = IF IsTerminal(e) THEN "done" ELSE "open"
  BY <1>1, <1>3 DEF Inv, TypeOK
<1>6. \A u \in Subs \ {s} : got'[u] = got[u] /\ phase'[u] = phase[u]
  BY <1>1, <1>3 DEF Inv, TypeOK
<1>7. LogWellFormed'
  BY <1>1 DEF Inv, LogWellFormed
<1>8. DeliversPrefix'
  BY <1>1, <1>4, <1>5, <1>6 DEF Inv, DeliversPrefix
<1>9. DoneIsComplete'
  BY <1>1, <1>4, <1>5, <1>6 DEF Inv, DoneIsComplete
<1>10. /\ got' \in [Subs -> Seq(Events)]
       /\ phase' \in [Subs -> {"none", "open", "done", "lagged", "closed", "gone"}]
  BY <1>1, <1>3, <1>4 DEF Inv, TypeOK
<1>11. LaggedWasBehind'
  BY <1>1, <1>5, <1>6 DEF Inv, LaggedWasBehind
<1>12. QED
  BY <1>4, <1>5, <1>6, <1>7, <1>8, <1>9, <1>10, <1>11 DEF Open

LEMMA ReplayInv ==
  ASSUME Inv, NEW s \in Subs, Replay(s)
  PROVE  Inv'
<1> DEFINE L == history[task]
           e == Head(log[s])
<1>1. /\ s \in Open /\ log[s] \in Seq(Events) /\ log[s] # <<>>
      /\ got[s] \in Seq(Events) /\ L \in Seq(Events) /\ tail \in Nat /\ next[s] \in Nat
  BY TaskInTasks DEF Replay, Open, Inv, TypeOK
<1>2. /\ Tail(log[s]) \in Seq(Events) /\ Len(Tail(log[s])) = Len(log[s]) - 1
      /\ \A i \in 1..Len(Tail(log[s])) : Tail(log[s])[i] = log[s][i + 1]
      /\ e \in Events /\ e = log[s][1]
      /\ Len(log[s]) \in Nat \ {0} /\ Len(got[s]) \in Nat /\ Len(L) \in Nat
  BY <1>1, HeadTailProperties, LenProperties, EmptySeq
<1>3. /\ next[s] <= tail
      /\ Len(got[s]) + Len(log[s]) + (tail - next[s]) = Len(L)
      /\ \A i \in 1..Len(log[s]) : log[s][i] = L[Len(got[s]) + i]
  BY <1>1 DEF Inv, SentThenReplayThenChannel
<1>4. Len(got[s]) + 1 <= Len(L) /\ L[Len(got[s]) + 1] = e
  <2>2. 1 \in 1..Len(log[s])
    BY <1>2
  <2>0. Len(got[s]) + 1 \in 1..Len(L)
    BY <1>1, <1>2, <1>3, <2>2, ReplayWithinLog
  <2>1. Len(got[s]) + 1 <= Len(L)
    BY <1>2, <2>0
  <2>3. QED
    BY <1>2, <1>3, <2>1, <2>2
<1>5. /\ Yield(s, e) /\ UNCHANGED <<hvars, ring, tail>>
      /\ UNCHANGED next /\ log' = [log EXCEPT ![s] = Tail(log[s])]
      /\ UNCHANGED <<stored, history>> /\ L' = L
  BY DEF Replay, hvars
<1>6. /\ got' \in [Subs -> Seq(Events)]
      /\ phase' \in [Subs -> {"none", "open", "done", "lagged", "closed", "gone"}]
      /\ Len(got'[s]) = Len(got[s]) + 1
      /\ s \in Open' => ~Ended(got'[s])
      /\ \A u \in Subs \ {s} : got'[u] = got[u] /\ phase'[u] = phase[u]
      /\ phase'[s] \in {"open", "done"}
      /\ LogWellFormed' /\ DeliversPrefix' /\ DoneIsComplete' /\ LaggedWasBehind'
  BY <1>1, <1>2, <1>4, <1>5, YieldInv
<1>7. TypeOK'
  BY <1>2, <1>5, <1>6 DEF Inv, TypeOK
<1>8. SentThenReplayThenChannel'
  <2>1. \A u \in Subs : phase'[u] = "none" => got'[u] = <<>>
    BY <1>6 DEF Inv, SentThenReplayThenChannel
  <2>2. ASSUME NEW u \in Open'
        PROVE  /\ next'[u] <= tail'
               /\ Len(got'[u]) + Len(log'[u]) + (tail' - next'[u]) = Len(L')
               /\ ~Ended(got'[u])
               /\ \A i \in 1..Len(log'[u]) : log'[u][i] = L'[Len(got'[u]) + i]
    <3>1. CASE u # s
      <4>1. u \in Open /\ got'[u] = got[u] /\ log'[u] = log[u] /\ next'[u] = next[u]
        BY <1>5, <1>6, <3>1 DEF Open, Inv, TypeOK
      <4>2. QED
        BY <1>5, <4>1 DEF Inv, SentThenReplayThenChannel
    <3>2. CASE u = s
      <4>1. log'[s] = Tail(log[s]) /\ next'[s] = next[s] /\ tail' = tail
        BY <1>1, <1>5 DEF Inv, TypeOK
      <4>2. Len(got'[s]) + Len(log'[s]) + (tail' - next'[s]) = Len(L')
        <5>1. (Len(got[s]) + 1) + (Len(log[s]) - 1) + (tail - next[s]) = Len(L)
          <6>1. /\ next[s] <= tail /\ next[s] \in Nat /\ tail \in Nat
                /\ Len(got[s]) + Len(log[s]) + (tail - next[s]) = Len(L)
                /\ Len(got[s]) \in Nat /\ Len(log[s]) \in Nat /\ Len(L) \in Nat
            BY <1>1, <1>2, <1>3
          <6> DEFINE g == Len(got[s])
                     r == Len(log[s])
                     k == Len(L)
                     n == next[s]
          <6>2. /\ g \in Nat /\ r \in Nat /\ k \in Nat /\ n \in Nat /\ tail \in Nat
                /\ g + r + (tail - n) = k
            BY <6>1
          <6> HIDE DEF g, r, k, n
          <6>3. (g + 1) + (r - 1) + (tail - n) = k
            BY <6>2
          <6>4. QED
            BY <6>3 DEF g, r, k, n
        <5>2. QED
          BY <1>2, <1>5, <1>6, <4>1, <5>1
      <4>3. ASSUME NEW i \in 1..Len(Tail(log[s]))
            PROVE  Tail(log[s])[i] = L[Len(got'[s]) + i]
        <5>1. i + 1 \in 1..Len(log[s]) /\ Len(got[s]) + (i + 1) = Len(got'[s]) + i
          <6>1. /\ Len(log[s]) \in Nat /\ Len(got[s]) \in Nat
                /\ Len(Tail(log[s])) = Len(log[s]) - 1 /\ Len(got'[s]) = Len(got[s]) + 1
            BY <1>2, <1>6
          <6>2. i \in 1..(Len(log[s]) - 1)
            BY <6>1
          <6>3. i + 1 \in 1..Len(log[s])
            BY <6>1, <6>2
          <6>4. Len(got[s]) + (i + 1) = (Len(got[s]) + 1) + i
            <7>1. i \in Int /\ Len(got[s]) \in Nat
              BY <6>1, <6>2
            <7>2. QED
              BY <7>1, NextIndex
          <6>5. QED
            BY <6>1, <6>3, <6>4
        <5>2. QED
          BY <1>2, <1>3, <5>1
      <4>4. QED
        <5>1. ~Ended(got'[s]) /\ next'[s] <= tail'
          BY <1>3, <1>6, <2>2, <3>2, <4>1
        <5>2. \A i \in 1..Len(log'[s]) : log'[s][i] = L'[Len(got'[s]) + i]
          BY <1>5, <4>1, <4>3
        <5>3. QED
          BY <3>2, <4>2, <5>1, <5>2
    <3>3. QED
      BY <3>1, <3>2
  <2>3. QED
    BY <2>1, <2>2 DEF SentThenReplayThenChannel
<1>9. SlotsInPlace' /\ SlotsHoldLog'
  <2>1. Open' \subseteq Open
    BY <1>1, <1>6 DEF Open
  <2>2. QED
    BY <1>5, <2>1 DEF Inv, SlotsInPlace, SlotsHoldLog
<1>10. QED
  BY <1>6, <1>7, <1>8, <1>9 DEF Inv

LEMMA ReceiveInv ==
  ASSUME Inv, NEW s \in Subs, Receive(s)
  PROVE  Inv'
<1> DEFINE L == history[task]
           e == Slot(s).event
<1>1. /\ s \in Open /\ log[s] = <<>> /\ Slot(s).pos = next[s]
      /\ got[s] \in Seq(Events) /\ L \in Seq(Events) /\ tail \in Nat /\ next[s] \in Nat
  BY TaskInTasks DEF Receive, Open, Inv, TypeOK
<1>2. next[s] % Capacity \in 0..(Capacity - 1)
  BY <1>1, CapacityPositive
<1>3. next[s] < tail /\ e \in Events
  BY <1>1, <1>2 DEF Slot, Inv, SlotsInPlace, TypeOK
<1>4. e = L[Len(L) - tail + next[s] + 1]
  <2>1. next[s] \in next[s]..(tail - 1)
    BY <1>1, <1>3
  <2>2. QED
    BY <1>1, <2>1 DEF Slot, Inv, SlotsHoldLog
<1> DEFINE g == Len(got[s])
           k == Len(L)
           n == next[s]
<1>5. /\ g \in Nat /\ k \in Nat /\ n \in Nat /\ n < tail /\ tail \in Nat
      /\ g + 0 + (tail - n) = k
  BY <1>1, <1>3, LenProperties, EmptySeq DEF Inv, SentThenReplayThenChannel
<1>6. g + 1 <= k /\ L[g + 1] = e
  <2> HIDE DEF g, k, n
  <2>1. g + 1 <= k /\ k - tail + n + 1 = g + 1
    BY <1>5
  <2>2. e = L[k - tail + n + 1]
    BY <1>4 DEF k, n
  <2>3. QED
    BY <2>1, <2>2
<1>7. /\ Yield(s, e) /\ UNCHANGED <<hvars, ring, tail>>
      /\ UNCHANGED log /\ next' = [next EXCEPT ![s] = next[s] + 1]
      /\ UNCHANGED <<stored, history>> /\ L' = L
  BY DEF Receive, hvars
<1>8. /\ got' \in [Subs -> Seq(Events)]
      /\ phase' \in [Subs -> {"none", "open", "done", "lagged", "closed", "gone"}]
      /\ Len(got'[s]) = Len(got[s]) + 1
      /\ s \in Open' => ~Ended(got'[s])
      /\ \A u \in Subs \ {s} : got'[u] = got[u] /\ phase'[u] = phase[u]
      /\ phase'[s] \in {"open", "done"}
      /\ LogWellFormed' /\ DeliversPrefix' /\ DoneIsComplete' /\ LaggedWasBehind'
  BY <1>1, <1>3, <1>6, <1>7, YieldInv
<1>9. TypeOK'
  <2>1. next' \in [Subs -> Nat]
    BY <1>1, <1>7 DEF Inv, TypeOK
  <2>2. QED
    BY <1>7, <1>8, <2>1 DEF Inv, TypeOK
<1>10. Open' \subseteq Open /\ next'[s] = next[s] + 1
       /\ \A u \in Subs \ {s} : next'[u] = next[u]
  BY <1>1, <1>7, <1>8 DEF Open, Inv, TypeOK
<1>11. SentThenReplayThenChannel'
  <2>1. \A u \in Subs : phase'[u] = "none" => got'[u] = <<>>
    BY <1>8 DEF Inv, SentThenReplayThenChannel
  <2>2. ASSUME NEW u \in Open'
        PROVE  /\ next'[u] <= tail'
               /\ Len(got'[u]) + Len(log'[u]) + (tail' - next'[u]) = Len(L')
               /\ ~Ended(got'[u])
               /\ \A i \in 1..Len(log'[u]) : log'[u][i] = L'[Len(got'[u]) + i]
    <3>1. CASE u # s
      <4>1. u \in Open /\ got'[u] = got[u] /\ log'[u] = log[u] /\ next'[u] = next[u]
        BY <1>7, <1>8, <1>10, <3>1 DEF Open
      <4>2. QED
        BY <1>7, <4>1 DEF Inv, SentThenReplayThenChannel
    <3>2. CASE u = s
      <4>1. log'[s] = <<>> /\ Len(log'[s]) = 0 /\ tail' = tail
        BY <1>1, <1>7, EmptySeq
      <4>2. Len(got'[s]) + Len(log'[s]) + (tail' - next'[s]) = Len(L') /\ next'[s] <= tail'
        <5> HIDE DEF g, k, n
        <5>1. (g + 1) + 0 + (tail - (n + 1)) = k /\ n + 1 <= tail
          BY <1>5
        <5>2. QED
          BY <1>7, <1>8, <1>10, <4>1, <5>1 DEF g, k, n
      <4>3. QED
        BY <1>8, <2>2, <3>2, <4>1, <4>2
    <3>3. QED
      BY <3>1, <3>2
  <2>3. QED
    BY <2>1, <2>2 DEF SentThenReplayThenChannel
<1>12. SlotsInPlace' /\ SlotsHoldLog'
  <2>1. ASSUME NEW u \in Open', NEW p \in next'[u]..(tail' - 1)
        PROVE  u \in Open /\ p \in next[u]..(tail - 1)
    <3>1. u \in Open /\ next[u] \in Nat /\ next'[u] \in Nat /\ next[u] <= next'[u]
      <4>1. u \in Open /\ u \in Subs /\ next[u] \in Nat
        BY <1>10 DEF Open, Inv, TypeOK
      <4>2. next'[u] = next[u] \/ next'[u] = next[u] + 1
        BY <1>10, <4>1
      <4>3. QED
        BY <4>1, <4>2
    <3>2. QED
      BY <1>1, <1>7, <3>1
  <2>2. QED
    BY <1>7, <2>1 DEF Inv, SlotsInPlace, SlotsHoldLog
<1>13. QED
  BY <1>8, <1>9, <1>11, <1>12 DEF Inv

LEMMA SubscribeInv ==
  ASSUME Inv, NEW s \in Subs, Subscribe(s)
  PROVE  Inv'
<1> DEFINE L == history[task]
<1>1. /\ phase[s] = "none" /\ got[s] = <<>> /\ L \in Seq(Events) /\ tail \in Nat
      /\ Len(L) \in Nat /\ Len(got[s]) = 0
  BY TaskInTasks, LenProperties, EmptySeq
     DEF Subscribe, Inv, TypeOK, SentThenReplayThenChannel
<1>2. /\ phase' = [phase EXCEPT ![s] = "open"]
      /\ log' = [log EXCEPT ![s] = L]
      /\ next' = [next EXCEPT ![s] = tail]
      /\ UNCHANGED <<stored, history, ring, tail, got>>
  BY DEF Subscribe, hvars
<1>3. TypeOK'
  BY <1>1, <1>2 DEF Inv, TypeOK
<1>4. LogWellFormed' /\ DeliversPrefix' /\ DoneIsComplete' /\ LaggedWasBehind'
  BY <1>2 DEF Inv, TypeOK, LogWellFormed, DeliversPrefix, DoneIsComplete, LaggedWasBehind
<1>5. /\ phase'[s] = "open" /\ log'[s] = L /\ next'[s] = tail
      /\ \A u \in Subs \ {s} : /\ phase'[u] = phase[u] /\ log'[u] = log[u]
                               /\ next'[u] = next[u]
  BY <1>2 DEF Inv, TypeOK
<1>6. SentThenReplayThenChannel'
  <2>1. \A u \in Subs : phase'[u] = "none" => got'[u] = <<>>
    BY <1>2, <1>5 DEF Inv, SentThenReplayThenChannel
  <2>2. ASSUME NEW u \in Open'
        PROVE  /\ next'[u] <= tail'
               /\ Len(got'[u]) + Len(log'[u]) + (tail' - next'[u]) = Len(L')
               /\ ~Ended(got'[u])
               /\ \A i \in 1..Len(log'[u]) : log'[u][i] = L'[Len(got'[u]) + i]
    <3>1. CASE u # s
      <4>1. /\ u \in Open /\ got'[u] = got[u] /\ log'[u] = log[u] /\ next'[u] = next[u]
            /\ L' = L /\ tail' = tail
        BY <1>2, <1>5, <3>1 DEF Open
      <4>2. QED
        BY <4>1 DEF Inv, SentThenReplayThenChannel
    <3>2. CASE u = s
      <4>1. ~Ended(got'[s])
        BY <1>1, <1>2 DEF Ended
      <4>2. 0 + Len(L) + (tail - tail) = Len(L) /\ \A i \in 1..Len(L) : L[i] = L[0 + i]
        BY <1>1
      <4>3. /\ next'[s] = tail /\ tail' = tail /\ L' = L /\ log'[s] = L
            /\ Len(got'[s]) = 0 /\ tail <= tail
        BY <1>1, <1>2, <1>5
      <4>4. QED
        BY <3>2, <4>1, <4>2, <4>3
    <3>3. QED
      BY <3>1, <3>2
  <2>3. QED
    BY <2>1, <2>2 DEF SentThenReplayThenChannel
<1>7. SlotsInPlace' /\ SlotsHoldLog'
  <2>1. ASSUME NEW u \in Open', NEW p \in next'[u]..(tail' - 1)
        PROVE  u \in Open /\ p \in next[u]..(tail - 1)
    BY <1>1, <1>2, <1>5 DEF Open
  <2>2. QED
    BY <1>2, <2>1 DEF Inv, SlotsInPlace, SlotsHoldLog
<1>8. QED
  BY <1>3, <1>4, <1>6, <1>7 DEF Inv

(* Steps that close a stream, remove the task, or change nothing. *)
LEMMA CloseInv ==
  ASSUME Inv, UNCHANGED <<history, ring, tail, log, next, got>>, stored' \subseteq stored,
         phase' \in [Subs -> {"none", "open", "done", "lagged", "closed", "gone"}],
         \A u \in Subs : phase'[u] = phase[u] \/ phase'[u] \in {"lagged", "closed", "gone"},
         LaggedWasBehind'
  PROVE  Inv'
<1>1. TypeOK'
  BY DEF Inv, TypeOK
<1>2. Open' \subseteq Open
  BY DEF Open
<1>3. LogWellFormed' /\ DeliversPrefix' /\ DoneIsComplete'
  BY DEF Inv, LogWellFormed, DeliversPrefix, DoneIsComplete
<1>4. SentThenReplayThenChannel' /\ SlotsInPlace' /\ SlotsHoldLog'
  BY <1>2 DEF Inv, SentThenReplayThenChannel, SlotsInPlace, SlotsHoldLog
<1>5. QED
  BY <1>1, <1>3, <1>4 DEF Inv

(* A receiver that finds a later event in its slot is a whole round of the *)
(* channel behind.                                                         *)
LEMMA ReceiveFailsLag ==
  ASSUME Inv, NEW s \in Subs, ReceiveFails(s)
  PROVE  LaggedWasBehind'
<1> DEFINE k == Len(history[task])
           g == Len(got[s])
           n == next[s]
           p == Slot(s).pos
<1>1. /\ s \in Open /\ log[s] = <<>> /\ history[task] \in Seq(Events)
      /\ got[s] \in Seq(Events) /\ n \in Nat /\ tail \in Nat
      /\ n % Capacity \in 0..(Capacity - 1)
  <2>1. /\ s \in Open /\ log[s] = <<>> /\ history[task] \in Seq(Events)
        /\ got[s] \in Seq(Events) /\ n \in Nat /\ tail \in Nat
    BY TaskInTasks DEF ReceiveFails, Open, Inv, TypeOK
  <2>2. QED
    BY <2>1, CapacityPositive
<1>2. k \in Nat /\ g \in Nat /\ n <= tail /\ g + 0 + (tail - n) = k
  BY <1>1, LenProperties, EmptySeq DEF Inv, SentThenReplayThenChannel
<1>3. p \in Nat \cup {-1} /\ p < tail /\ (p >= 0 => p % Capacity = n % Capacity)
  BY <1>1 DEF Slot, Inv, TypeOK, SlotsInPlace
<1>4. ASSUME p > n PROVE k - g > Capacity
  <2> HIDE DEF k, g, n, p
  <2>1. p \in Nat /\ p % Capacity = n % Capacity /\ n \in Nat /\ p > n
    BY <1>1, <1>3, <1>4
  <2>2. p - n >= Capacity
    BY <2>1, SameSlot, CapacityPositive
  <2>3. QED
    BY <1>1, <1>2, <1>3, <2>1, <2>2, CapacityPositive
<1>5. /\ UNCHANGED <<history, got>>
      /\ \A u \in Subs \ {s} : phase'[u] = phase[u]
      /\ phase'[s] = "lagged" => p > n
  BY <1>1 DEF ReceiveFails, hvars, Inv, TypeOK
<1>6. QED
  BY <1>4, <1>5 DEF Inv, LaggedWasBehind

LEMMA NextInv == Inv /\ [Next]_vars => Inv'
<1> SUFFICES ASSUME Inv, [Next]_vars PROVE Inv'
  OBVIOUS
<1>1. ASSUME NEW e \in Events, Publish(e) PROVE Inv'
  BY <1>1, PublishInv
<1>2. CASE Expires
  BY <1>2, CloseInv DEF Expires, Expire, subVars, Inv, TypeOK, LaggedWasBehind
<1>3. ASSUME NEW s \in Subs, Subscribe(s) PROVE Inv'
  BY <1>3, SubscribeInv
<1>4. ASSUME NEW s \in Subs, Replay(s) PROVE Inv'
  BY <1>4, ReplayInv
<1>5. ASSUME NEW s \in Subs, Receive(s) PROVE Inv'
  BY <1>5, ReceiveInv
<1>6. ASSUME NEW s \in Subs, ReceiveFails(s) \/ Disconnect(s) PROVE Inv'
  <2>1. CASE ReceiveFails(s)
    BY <2>1, ReceiveFailsLag, CloseInv DEF ReceiveFails, hvars, Inv, TypeOK
  <2>2. CASE Disconnect(s)
    <3>1. LaggedWasBehind'
      BY <2>2 DEF Disconnect, hvars, Inv, TypeOK, LaggedWasBehind
    <3>2. QED
      BY <2>2, <3>1, CloseInv DEF Disconnect, hvars, Inv, TypeOK
  <2>3. QED
    BY <1>6, <2>1, <2>2
<1>7. CASE UNCHANGED vars
  BY <1>7, CloseInv DEF vars, Inv, TypeOK, LaggedWasBehind
<1>8. QED
  BY <1>1, <1>2, <1>3, <1>4, <1>5, <1>6, <1>7 DEF Next, Stream

(* The inductive invariant holds in every reachable state. *)
THEOREM Invariance == Spec => []Inv
BY InitInv, NextInv, PTL DEF Spec

(* What any client was sent is at any time a prefix of the task's log, for *)
(* every capacity of the channel and however the log, the subscriptions    *)
(* and the slow readers interleave.                                        *)
THEOREM StreamsDeliverPrefixes == Spec => []DeliversPrefix
<1>1. Inv => DeliversPrefix
  BY DEF Inv
<1>2. QED
  BY <1>1, Invariance, PTL

(* A client is cut off by lagging only when it was more than the capacity  *)
(* of the channel behind the log.                                          *)
THEOREM OnlySlowClientsLag == Spec => []LaggedWasBehind
<1>1. Inv => LaggedWasBehind
  BY DEF Inv
<1>2. QED
  BY <1>1, Invariance, PTL

(* A stream that ended by itself after a terminal event has sent the whole *)
(* log of its task.                                                        *)
THEOREM FinishedStreamsAreComplete == Spec => []DoneIsComplete
<1>1. Inv => DoneIsComplete
  BY DEF Inv
<1>2. QED
  BY <1>1, Invariance, PTL

(* A prefix of a well-formed log is well formed: if it reaches the         *)
(* terminal event it is the whole log.                                     *)
LEMMA PrefixWellFormed ==
  ASSUME NEW a \in Seq(Events), NEW b \in Seq(Events),
         IsPrefix(a, b), WellFormedLog(b)
  PROVE  WellFormedLog(a)
<1>1. /\ Len(a) \in Nat /\ Len(b) \in Nat
      /\ DOMAIN a = 1..Len(a) /\ DOMAIN b = 1..Len(b)
  BY LenProperties
<1>2. Len(a) <= Len(b) /\ \A i \in 1..Len(a) : a[i] = b[i]
  BY PrefixIsPointwise
<1>3. SUFFICES ASSUME NEW i \in DOMAIN a
               PROVE  /\ a[i].name = "started" <=> i = 1
                      /\ IsTerminal(a[i]) => i = Len(a)
  BY DEF WellFormedLog
<1>4. i \in 1..Len(a) /\ i \in 1..Len(b) /\ (i = Len(b) => i = Len(a))
  <2>1. i \in 1..Len(a)
    BY <1>1, <1>3
  <2>2. QED
    BY <1>1, <1>2, <2>1
<1>5. (b[i].name = "started" <=> i = 1) /\ (IsTerminal(b[i]) => i = Len(b))
  BY <1>1, <1>4 DEF WellFormedLog
<1>6. a[i] = b[i]
  BY <1>2, <1>4
<1>7. QED
  BY <1>4, <1>5, <1>6

(* Whenever a client subscribes, in the middle of a run or after its end,  *)
(* its stream opens with the one `started` event of the task and nothing   *)
(* follows the terminal event in it (subscribe, events, is_terminal).      *)
THEOREM ClientsSeeWellFormedStreams ==
  Spec => [](\A s \in Subs : WellFormedLog(got[s]))
<1>1. ASSUME Inv, NEW s \in Subs PROVE WellFormedLog(got[s])
  BY <1>1, TaskInTasks, PrefixWellFormed DEF Inv, TypeOK, DeliversPrefix, LogWellFormed
<1>2. Inv => \A s \in Subs : WellFormedLog(got[s])
  BY <1>1
<1>3. QED
  BY <1>2, Invariance, PTL
=============================================================================
