-------------------------- MODULE ToolProxy_proofs --------------------------
(***************************************************************************)
(* For every set of connections and every size of the socket's buffers:    *)
(* the invariant of ToolProxy is inductive, hence EXIT follows all of a    *)
(* tool's output, a tool is killed only for a reason, and none is left     *)
(* running after shutdown.                                                 *)
(***************************************************************************)
EXTENDS ToolProxy, TLAPS

(* What each part of the invariant depends on: first, places and tools. *)
LEMMA EarlyFrame ==
  EarlyIsBare /\ RunningIsWatched /\ UNCHANGED <<pc, stdin, out, leader, desc>>
  => (EarlyIsBare /\ RunningIsWatched)'
  BY DEF EarlyIsBare, RunningIsWatched

(* The ends of outputs are about pipes and forwarding tasks. *)
LEMMA OutputFrame ==
  OutputEnds /\ UNCHANGED <<pc, out, leader, desc, held, pipe, connected>>
  => OutputEnds'
  BY DEF OutputEnds, PipeOpen, Alive

(* EXIT is about the frames sent and the outputs. *)
LEMMA ExitFrame ==
  ExitIsSentLast /\ ExitEndsOutput /\ UNCHANGED <<pc, out, leader, desc, held, pipe, toClient, exit>>
  => (ExitIsSentLast /\ ExitEndsOutput)'
  BY DEF ExitIsSentLast, ExitEndsOutput, PipeOpen, Alive

(* The client's side. *)
LEMMA ClientFrame ==
  ClientSide /\ UNCHANGED <<pc, stdin, leader, held, toServer, client, connected>>
  => ClientSide'
  BY DEF ClientSide

(* Kills are about the tool and its client. *)
LEMMA KillFrame ==
  KillExplained /\ UNCHANGED <<shut, leader, held, client, connected>>
  => KillExplained'
  BY DEF KillExplained, Stopping

(* Tracking is about the server's tasks. *)
LEMMA TrackedFrame ==
  Tracked /\ UNCHANGED <<listener, shut, connections, taken, pc, heard>>
  => Tracked'
  BY DEF Tracked, Stopping, Ended

(* The end of shutdown is about tools and tasks. *)
LEMMA ToolFrame ==
  NoToolSurvives /\ UNCHANGED <<shut, pc, leader>>
  => NoToolSurvives'
  BY DEF NoToolSurvives, Ended

(* The accept loop preserves the invariant. *)
LEMMA AcceptLoopStep ==
  ASSUME Inv, AcceptLoop
  PROVE  Inv'
<1> USE OutputStreams, BufPositive, NoneIsNoCode DEF Inv, listenVars, taskVars,
       forwardVars, toolVars, wireVars, clientVars, connVars
<1>1. CASE AcceptFails
  <2> USE <1>1 DEF AcceptFails, Refused
  <2>1. TypeOK'
    BY DEF TypeOK, Places, Unsplit, Awaits, Requests, Replies, Codes,
       Listening, Stages
  <2>2. (EarlyIsBare /\ RunningIsWatched)'
    BY DEF TypeOK, EarlyIsBare, RunningIsWatched, Early
  <2>3. OutputEnds'
    BY DEF TypeOK, OutputEnds, PipeOpen, Alive
  <2>4. (ExitIsSentLast /\ ExitEndsOutput)'
    BY DEF TypeOK, ExitIsSentLast, ExitEndsOutput, PipeOpen, Alive
  <2>5. ClientSide'
    BY DEF ClientSide
  <2>6. Tracked'
    BY DEF Tracked, Ended, Stopping
  <2>7. NoToolSurvives'
    BY DEF NoToolSurvives, Ended
  <2>8. KillExplained'
    BY KillFrame
  <2>9. QED
    BY <2>1, <2>2, <2>3, <2>4, <2>5, <2>6, <2>7, <2>8 DEF Inv
<1>2. CASE AcceptStops
  <2> USE <1>2 DEF AcceptStops, Refused
  <2>1. TypeOK'
    BY DEF TypeOK, Places, Unsplit, Awaits, Requests, Replies, Codes,
       Listening, Stages
  <2>2. (EarlyIsBare /\ RunningIsWatched)'
    BY DEF TypeOK, EarlyIsBare, RunningIsWatched, Early
  <2>3. OutputEnds'
    BY DEF TypeOK, OutputEnds, PipeOpen, Alive
  <2>4. (ExitIsSentLast /\ ExitEndsOutput)'
    BY DEF TypeOK, ExitIsSentLast, ExitEndsOutput, PipeOpen, Alive
  <2>5. ClientSide'
    BY DEF ClientSide
  <2>6. Tracked'
    BY DEF Tracked, Ended, Stopping
  <2>7. NoToolSurvives'
    BY DEF NoToolSurvives, Ended
  <2>8. KillExplained'
    BY KillFrame
  <2>9. QED
    BY <2>1, <2>2, <2>3, <2>4, <2>5, <2>6, <2>7, <2>8 DEF Inv
<1>3. CASE AcceptRecheck
  <2> USE <1>3 DEF AcceptRecheck
  <2>1. TypeOK'
    BY DEF TypeOK, Places, Unsplit, Awaits, Requests, Replies, Codes,
       Listening, Stages
  <2>2. Tracked'
    BY DEF Tracked, Ended, Stopping
  <2>3. (EarlyIsBare /\ RunningIsWatched /\ OutputEnds /\ ExitIsSentLast /\
     ExitEndsOutput /\ ClientSide /\ KillExplained /\ NoToolSurvives)'
    BY EarlyFrame, OutputFrame, ExitFrame, ClientFrame, KillFrame, ToolFrame
  <2>4. QED
    BY <2>1, <2>2, <2>3 DEF Inv
<1>4. CASE AcceptTick
  <2> USE <1>4 DEF AcceptTick, Unfinished
  <2>1. TypeOK'
    BY DEF TypeOK
  <2>2. Tracked'
    BY DEF Tracked, Ended, Stopping
  <2>3. (EarlyIsBare /\ RunningIsWatched /\ OutputEnds /\ ExitIsSentLast /\
     ExitEndsOutput /\ ClientSide /\ KillExplained /\ NoToolSurvives)'
    BY EarlyFrame, OutputFrame, ExitFrame, ClientFrame, KillFrame, ToolFrame
  <2>4. QED
    BY <2>1, <2>2, <2>3 DEF Inv
<1>5. ASSUME NEW c \in Conns, Accept(c) PROVE Inv'
  <2> USE <1>5 DEF Accept
  <2>1. TypeOK'
    BY DEF TypeOK, Places, Unsplit, Awaits, Requests, Replies, Codes,
       Listening, Stages
  <2>2. (EarlyIsBare /\ RunningIsWatched)'
    BY DEF TypeOK, EarlyIsBare, RunningIsWatched, Early
  <2>3. OutputEnds'
    BY DEF TypeOK, OutputEnds, PipeOpen, Alive
  <2>4. (ExitIsSentLast /\ ExitEndsOutput)'
    BY DEF TypeOK, ExitIsSentLast, ExitEndsOutput, PipeOpen, Alive
  <2>5. ClientSide'
    BY DEF ClientSide
  <2>6. Tracked'
    BY DEF Tracked, Ended, Stopping
  <2>7. NoToolSurvives'
    BY DEF NoToolSurvives, Ended
  <2>8. KillExplained'
    BY KillFrame
  <2>9. QED
    BY <2>1, <2>2, <2>3, <2>4, <2>5, <2>6, <2>7, <2>8 DEF Inv
<1>6. ASSUME NEW c \in Conns, AddConnection(c) PROVE Inv'
  <2> USE <1>6 DEF AddConnection, Unfinished
  <2>1. TypeOK'
    BY DEF TypeOK, Places, Unsplit, Awaits, Requests, Replies, Codes,
       Listening, Stages
  <2>2. (EarlyIsBare /\ RunningIsWatched)'
    BY DEF TypeOK, EarlyIsBare, RunningIsWatched, Early
  <2>3. OutputEnds'
    BY DEF TypeOK, OutputEnds, PipeOpen, Alive
  <2>4. (ExitIsSentLast /\ ExitEndsOutput)'
    BY DEF TypeOK, ExitIsSentLast, ExitEndsOutput, PipeOpen, Alive
  <2>5. ClientSide'
    BY DEF ClientSide
  <2>6. Tracked'
    <3>1. shut \in {"serving", "flagged", "stopping"}
      BY DEF TypeOK, Tracked, Stages
    <3>2. \A d \in Conns :
            pc'[d] \notin {"none", "queued", "hand"} /\ ~Ended(d)' => d \in connections'
      <4> SUFFICES ASSUME NEW d \in Conns, pc'[d] \notin {"none", "queued", "hand"}, ~Ended(d)'
                   PROVE  d \in connections'
        OBVIOUS
      <4>1. CASE d = c
        BY <4>1
      <4>2. CASE d # c
        <5>1. pc'[d] = pc[d]
          BY <4>2 DEF TypeOK
        <5>2. ~Ended(d) /\ d \in connections
          BY <3>1, <5>1 DEF Tracked, Ended
        <5>3. QED
          BY <5>2
      <4>3. QED
        BY <4>1, <4>2
    <3>3. \A d \in Conns : pc'[d] # "hand" /\ (pc'[d] = "queued" => pc[d] = "queued")
      BY DEF TypeOK, Tracked
    <3>4. QED
      BY <3>1, <3>2, <3>3 DEF Tracked, Stopping
  <2>7. NoToolSurvives'
    BY DEF NoToolSurvives, Ended
  <2>8. KillExplained'
    BY KillFrame
  <2>9. QED
    BY <2>1, <2>2, <2>3, <2>4, <2>5, <2>6, <2>7, <2>8 DEF Inv
<1>7. QED
  BY <1>1, <1>2, <1>3, <1>4, <1>5, <1>6 DEF AcceptLoop

(* shutdown preserves the invariant. *)
LEMMA ShutdownStep ==
  ASSUME Inv, Shutdown \/ Stop
  PROVE  Inv'
<1> USE OutputStreams, BufPositive, NoneIsNoCode DEF Inv, listenVars, taskVars,
       forwardVars, toolVars, wireVars, clientVars, connVars
<1>1. CASE NotifyWaiters
  <2> USE <1>1 DEF NotifyWaiters
  <2>1. TypeOK'
    BY DEF TypeOK, Places, Unsplit, Awaits, Requests, Replies, Codes,
       Listening, Stages
  <2>2. KillExplained'
    BY DEF KillExplained, Stopping
  <2>3. Tracked'
    BY DEF Tracked, Ended, Stopping
  <2>4. NoToolSurvives'
    BY DEF NoToolSurvives, Ended
  <2>5. (EarlyIsBare /\ RunningIsWatched /\ OutputEnds /\ ExitIsSentLast /\
     ExitEndsOutput /\ ClientSide)'
    BY EarlyFrame, OutputFrame, ExitFrame, ClientFrame
  <2>6. QED
    BY <2>1, <2>2, <2>3, <2>4, <2>5 DEF Inv
<1>2. CASE JoinListener
  <2> USE <1>2 DEF JoinListener, Refused
  <2>1. TypeOK'
    BY DEF TypeOK, Places, Unsplit, Awaits, Requests, Replies, Codes,
       Listening, Stages
  <2>2. (EarlyIsBare /\ RunningIsWatched)'
    BY DEF TypeOK, EarlyIsBare, RunningIsWatched, Early
  <2>3. OutputEnds'
    BY DEF TypeOK, OutputEnds, PipeOpen, Alive
  <2>4. (ExitIsSentLast /\ ExitEndsOutput)'
    BY DEF TypeOK, ExitIsSentLast, ExitEndsOutput, PipeOpen, Alive
  <2>5. ClientSide'
    BY DEF ClientSide
  <2>6. KillExplained'
    BY DEF KillExplained, Stopping
  <2>7. Tracked'
    BY DEF Tracked, Ended, Stopping
  <2>8. NoToolSurvives'
    BY DEF NoToolSurvives, Ended
  <2>9. QED
    BY <2>1, <2>2, <2>3, <2>4, <2>5, <2>6, <2>7, <2>8 DEF Inv
<1>3. CASE RemoveSocket
  <2> USE <1>3 DEF RemoveSocket
  <2>1. TypeOK'
    BY DEF TypeOK, Places, Unsplit, Awaits, Requests, Replies, Codes,
       Listening, Stages
  <2>2. KillExplained'
    BY DEF KillExplained, Stopping
  <2>3. Tracked'
    BY DEF Tracked, Ended, Stopping
  <2>4. NoToolSurvives'
    BY DEF TypeOK, NoToolSurvives, Tracked, RunningIsWatched, Ended,
       EarlyIsBare, Early
  <2>5. (EarlyIsBare /\ RunningIsWatched /\ OutputEnds /\ ExitIsSentLast /\
     ExitEndsOutput /\ ClientSide)'
    BY EarlyFrame, OutputFrame, ExitFrame, ClientFrame
  <2>6. QED
    BY <2>1, <2>2, <2>3, <2>4, <2>5 DEF Inv
<1>4. ASSUME NEW c \in Conns, JoinNext(c) PROVE Inv'
  <2> USE <1>4 DEF JoinNext
  <2>1. TypeOK'
    BY DEF TypeOK
  <2>2. Tracked'
    BY DEF Tracked, Ended, Stopping
  <2>3. (EarlyIsBare /\ RunningIsWatched /\ OutputEnds /\ ExitIsSentLast /\
     ExitEndsOutput /\ ClientSide /\ KillExplained /\ NoToolSurvives)'
    BY EarlyFrame, OutputFrame, ExitFrame, ClientFrame, KillFrame, ToolFrame
  <2>4. QED
    BY <2>1, <2>2, <2>3 DEF Inv
<1>5. CASE Stop
  <2> USE <1>5 DEF Stop
  <2>1. TypeOK'
    BY DEF TypeOK, Places, Unsplit, Awaits, Requests, Replies, Codes,
       Listening, Stages
  <2>2. KillExplained'
    BY DEF KillExplained, Stopping
  <2>3. Tracked'
    BY DEF Tracked, Ended, Stopping
  <2>4. NoToolSurvives'
    BY DEF NoToolSurvives, Ended
  <2>5. (EarlyIsBare /\ RunningIsWatched /\ OutputEnds /\ ExitIsSentLast /\
     ExitEndsOutput /\ ClientSide)'
    BY EarlyFrame, OutputFrame, ExitFrame, ClientFrame
  <2>6. QED
    BY <2>1, <2>2, <2>3, <2>4, <2>5 DEF Inv
<1>6. CASE Deadline
  <2> USE <1>6 DEF Deadline
  <2>1. TypeOK'
    BY DEF TypeOK, Places, Unsplit, Awaits, Requests, Replies, Codes,
       Listening, Stages
  <2>2. KillExplained'
    BY DEF KillExplained, Stopping
  <2>3. Tracked'
    BY DEF Tracked, Ended, Stopping
  <2>4. NoToolSurvives'
    BY DEF NoToolSurvives, Ended
  <2>5. (EarlyIsBare /\ RunningIsWatched /\ OutputEnds /\ ExitIsSentLast /\
     ExitEndsOutput /\ ClientSide)'
    BY EarlyFrame, OutputFrame, ExitFrame, ClientFrame
  <2>6. QED
    BY <2>1, <2>2, <2>3, <2>4, <2>5 DEF Inv
<1>7. QED
  BY <1>1, <1>2, <1>3, <1>4, <1>5, <1>6 DEF Shutdown

(* The task of a connection preserves the invariant. *)
LEMMA ConnectionStep ==
  ASSUME Inv, NEW c \in Conns, HandleConnection(c) \/ Selected(c) \/ AbortConnection(c)
  PROVE  Inv'
<1> USE OutputStreams, BufPositive, NoneIsNoCode DEF Inv, listenVars, taskVars,
       forwardVars, toolVars, wireVars, clientVars, connVars
<1>1. CASE FirstPoll(c)
  <2> USE <1>1 DEF FirstPoll, Step, Goto, TaskOnly
  <2>1. TypeOK'
    BY DEF TypeOK, Places, Unsplit, Awaits, Requests, Replies, Codes,
       Listening, Stages
  <2>2. (EarlyIsBare /\ RunningIsWatched)'
    BY DEF TypeOK, EarlyIsBare, RunningIsWatched, Early
  <2>3. OutputEnds'
    BY DEF TypeOK, OutputEnds, PipeOpen, Alive
  <2>4. (ExitIsSentLast /\ ExitEndsOutput)'
    BY DEF TypeOK, ExitIsSentLast, ExitEndsOutput, PipeOpen, Alive
  <2>5. ClientSide'
    BY DEF ClientSide
  <2>6. Tracked'
    BY DEF Tracked, Ended, Stopping
  <2>7. NoToolSurvives'
    BY DEF NoToolSurvives, Ended
  <2>8. KillExplained'
    BY KillFrame
  <2>9. QED
    BY <2>1, <2>2, <2>3, <2>4, <2>5, <2>6, <2>7, <2>8 DEF Inv
<1>2. CASE OpenFails(c)
  <2> USE <1>2 DEF OpenFails, Step, Goto, ReadFrame
  <2>1. TypeOK'
    BY DEF TypeOK, Places, Unsplit, Awaits, Requests, Replies, Codes,
       Listening, Stages
  <2>2. (EarlyIsBare /\ RunningIsWatched)'
    BY DEF TypeOK, EarlyIsBare, RunningIsWatched, Early
  <2>3. OutputEnds'
    BY DEF TypeOK, OutputEnds, PipeOpen, Alive
  <2>4. (ExitIsSentLast /\ ExitEndsOutput)'
    BY DEF TypeOK, ExitIsSentLast, ExitEndsOutput, PipeOpen, Alive
  <2>5. ClientSide'
    BY DEF ClientSide
  <2>6. Tracked'
    BY DEF Tracked, Ended, Stopping
  <2>7. NoToolSurvives'
    BY DEF NoToolSurvives, Ended
  <2>8. KillExplained'
    BY KillFrame
  <2>9. QED
    BY <2>1, <2>2, <2>3, <2>4, <2>5, <2>6, <2>7, <2>8 DEF Inv
<1>3. CASE OpenStarts(c)
  <2> USE <1>3 DEF OpenStarts, Step, Goto, ReadFrame
  <2>1. TypeOK'
    BY DEF TypeOK, Places, Unsplit, Awaits, Requests, Replies, Codes,
       Listening, Stages
  <2>2. (EarlyIsBare /\ RunningIsWatched)'
    BY DEF TypeOK, EarlyIsBare, RunningIsWatched, Early
  <2>3. OutputEnds'
    BY DEF TypeOK, OutputEnds, EarlyIsBare, PipeOpen, Alive, Early
  <2>4. (ExitIsSentLast /\ ExitEndsOutput)'
    BY DEF TypeOK, ExitIsSentLast, ExitEndsOutput, PipeOpen, Alive
  <2>5. ClientSide'
    BY DEF TypeOK, ClientSide, EarlyIsBare, Early, PipeOpen, Alive,
       RunningIsWatched
  <2>6. KillExplained'
    BY DEF TypeOK, KillExplained, Stopping
  <2>7. Tracked'
    BY DEF Tracked, Ended, Stopping
  <2>8. NoToolSurvives'
    BY DEF NoToolSurvives, Ended
  <2>9. QED
    BY <2>1, <2>2, <2>3, <2>4, <2>5, <2>6, <2>7, <2>8 DEF Inv
<1>4. CASE OpenLost(c)
  <2> USE <1>4 DEF OpenLost, Step, Goto, TaskOnly, Lost
  <2>1. TypeOK'
    BY DEF TypeOK, Places, Unsplit, Awaits, Requests, Replies, Codes,
       Listening, Stages
  <2>2. (EarlyIsBare /\ RunningIsWatched)'
    BY DEF TypeOK, EarlyIsBare, RunningIsWatched, Early
  <2>3. OutputEnds'
    BY DEF TypeOK, OutputEnds, PipeOpen, Alive
  <2>4. (ExitIsSentLast /\ ExitEndsOutput)'
    BY DEF TypeOK, ExitIsSentLast, ExitEndsOutput, PipeOpen, Alive
  <2>5. ClientSide'
    BY DEF ClientSide
  <2>6. Tracked'
    BY DEF Tracked, Ended, Stopping
  <2>7. NoToolSurvives'
    BY DEF NoToolSurvives, Ended
  <2>8. KillExplained'
    BY KillFrame
  <2>9. QED
    BY <2>1, <2>2, <2>3, <2>4, <2>5, <2>6, <2>7, <2>8 DEF Inv
<1>5. CASE OpenStopped(c)
  <2> USE <1>5 DEF OpenStopped, Step, Goto, TaskOnly
  <2>1. TypeOK'
    BY DEF TypeOK, Places, Unsplit, Awaits, Requests, Replies, Codes,
       Listening, Stages
  <2>2. (EarlyIsBare /\ RunningIsWatched)'
    BY DEF TypeOK, EarlyIsBare, RunningIsWatched, Early
  <2>3. OutputEnds'
    BY DEF TypeOK, OutputEnds, PipeOpen, Alive
  <2>4. (ExitIsSentLast /\ ExitEndsOutput)'
    BY DEF TypeOK, ExitIsSentLast, ExitEndsOutput, PipeOpen, Alive
  <2>5. ClientSide'
    BY DEF ClientSide
  <2>6. Tracked'
    BY DEF Tracked, Ended, Stopping
  <2>7. NoToolSurvives'
    BY DEF NoToolSurvives, Ended
  <2>8. KillExplained'
    BY KillFrame
  <2>9. QED
    BY <2>1, <2>2, <2>3, <2>4, <2>5, <2>6, <2>7, <2>8 DEF Inv
<1>6. CASE SendError(c)
  <2> USE <1>6 DEF SendError, Step, Goto, WriteFrame
  <2>1. TypeOK'
    BY DEF TypeOK, Places, Unsplit, Awaits, Requests, Replies, Codes,
       Listening, Stages
  <2>2. (EarlyIsBare /\ RunningIsWatched)'
    BY DEF TypeOK, EarlyIsBare, RunningIsWatched, Early
  <2>3. OutputEnds'
    BY DEF TypeOK, OutputEnds, PipeOpen, Alive
  <2>4. (ExitIsSentLast /\ ExitEndsOutput)'
    BY DEF TypeOK, ExitIsSentLast, ExitEndsOutput, PipeOpen, Alive
  <2>5. ClientSide'
    BY DEF ClientSide
  <2>6. Tracked'
    BY DEF Tracked, Ended, Stopping
  <2>7. NoToolSurvives'
    BY DEF NoToolSurvives, Ended
  <2>8. KillExplained'
    BY KillFrame
  <2>9. QED
    BY <2>1, <2>2, <2>3, <2>4, <2>5, <2>6, <2>7, <2>8 DEF Inv
<1>7. CASE SendStartFailure(c)
  <2> USE <1>7 DEF SendStartFailure, WriteExit, Goto, WriteFrame
  <2>1. TypeOK'
    BY DEF TypeOK, Places, Unsplit, Awaits, Requests, Replies, Codes,
       Listening, Stages
  <2>2. (EarlyIsBare /\ RunningIsWatched)'
    BY DEF TypeOK, EarlyIsBare, RunningIsWatched, Early
  <2>3. OutputEnds'
    BY DEF TypeOK, OutputEnds, PipeOpen, Alive
  <2>4. (ExitIsSentLast /\ ExitEndsOutput)'
    BY DEF TypeOK, ExitIsSentLast, ExitEndsOutput, OutputEnds, EarlyIsBare,
       Early, PipeOpen, Alive, Codes
  <2>5. ClientSide'
    BY DEF ClientSide
  <2>6. Tracked'
    BY DEF Tracked, Ended, Stopping
  <2>7. NoToolSurvives'
    BY DEF NoToolSurvives, Ended
  <2>8. KillExplained'
    BY KillFrame
  <2>9. QED
    BY <2>1, <2>2, <2>3, <2>4, <2>5, <2>6, <2>7, <2>8 DEF Inv
<1>8. CASE ReplyUnsent(c)
  <2> USE <1>8 DEF ReplyUnsent, Goto, TaskOnly
  <2>1. TypeOK'
    BY DEF TypeOK, Places, Unsplit, Awaits, Requests, Replies, Codes,
       Listening, Stages
  <2>2. (EarlyIsBare /\ RunningIsWatched)'
    BY DEF TypeOK, EarlyIsBare, RunningIsWatched, Early
  <2>3. OutputEnds'
    BY DEF TypeOK, OutputEnds, PipeOpen, Alive
  <2>4. (ExitIsSentLast /\ ExitEndsOutput)'
    BY DEF TypeOK, ExitIsSentLast, ExitEndsOutput, PipeOpen, Alive
  <2>5. ClientSide'
    BY DEF ClientSide
  <2>6. Tracked'
    BY DEF Tracked, Ended, Stopping
  <2>7. NoToolSurvives'
    BY DEF NoToolSurvives, Ended
  <2>8. KillExplained'
    BY KillFrame
  <2>9. QED
    BY <2>1, <2>2, <2>3, <2>4, <2>5, <2>6, <2>7, <2>8 DEF Inv
<1>9. CASE StopStarted(c)
  <2> USE <1>9 DEF StopStarted, Step, Goto, KillGroup
  <2>1. TypeOK'
    BY DEF TypeOK, Places, Unsplit, Awaits, Requests, Replies, Codes,
       Listening, Stages
  <2>2. (EarlyIsBare /\ RunningIsWatched)'
    BY DEF TypeOK, EarlyIsBare, RunningIsWatched, Early
  <2>3. OutputEnds'
    BY DEF TypeOK, OutputEnds, PipeOpen, Alive
  <2>4. (ExitIsSentLast /\ ExitEndsOutput)'
    BY DEF TypeOK, ExitIsSentLast, ExitEndsOutput, PipeOpen, Alive
  <2>5. ClientSide'
    BY DEF ClientSide
  <2>6. KillExplained'
    BY DEF KillExplained, Stopping
  <2>7. Tracked'
    BY DEF Tracked, Ended, Stopping
  <2>8. NoToolSurvives'
    BY DEF NoToolSurvives, Ended
  <2>9. QED
    BY <2>1, <2>2, <2>3, <2>4, <2>5, <2>6, <2>7, <2>8 DEF Inv
<1>10. CASE StoppedReaped(c)
  <2> USE <1>10 DEF StoppedReaped, Step, Goto, TaskOnly
  <2>1. TypeOK'
    BY DEF TypeOK, Places, Unsplit, Awaits, Requests, Replies, Codes,
       Listening, Stages
  <2>2. (EarlyIsBare /\ RunningIsWatched)'
    BY DEF TypeOK, EarlyIsBare, RunningIsWatched, Early
  <2>3. OutputEnds'
    BY DEF TypeOK, OutputEnds, PipeOpen, Alive
  <2>4. (ExitIsSentLast /\ ExitEndsOutput)'
    BY DEF TypeOK, ExitIsSentLast, ExitEndsOutput, PipeOpen, Alive
  <2>5. ClientSide'
    BY DEF ClientSide
  <2>6. Tracked'
    BY DEF Tracked, Ended, Stopping
  <2>7. NoToolSurvives'
    BY DEF NoToolSurvives, Ended
  <2>8. KillExplained'
    BY KillFrame
  <2>9. QED
    BY <2>1, <2>2, <2>3, <2>4, <2>5, <2>6, <2>7, <2>8 DEF Inv
<1>11. CASE StartForwarding(c)
  <2> USE <1>11 DEF StartForwarding, Step, Goto
  <2>1. TypeOK'
    BY DEF TypeOK, Places, Unsplit, Awaits, Requests, Replies, Codes,
       Listening, Stages
  <2>2. (EarlyIsBare /\ RunningIsWatched)'
    BY DEF TypeOK, EarlyIsBare, RunningIsWatched, Early
  <2>3. OutputEnds'
    BY DEF TypeOK, OutputEnds, PipeOpen, Alive
  <2>4. (ExitIsSentLast /\ ExitEndsOutput)'
    BY DEF TypeOK, ExitIsSentLast, ExitEndsOutput, OutputEnds, EarlyIsBare,
       Early, PipeOpen, Alive, Codes
  <2>5. ClientSide'
    BY DEF ClientSide
  <2>6. Tracked'
    BY DEF Tracked, Ended, Stopping
  <2>7. NoToolSurvives'
    BY DEF NoToolSurvives, Ended
  <2>8. KillExplained'
    BY KillFrame
  <2>9. QED
    BY <2>1, <2>2, <2>3, <2>4, <2>5, <2>6, <2>7, <2>8 DEF Inv
<1>12. CASE StillRunning(c)
  <2> USE <1>12 DEF StillRunning, Step, Goto, TaskOnly
  <2>1. TypeOK'
    BY DEF TypeOK, Places, Unsplit, Awaits, Requests, Replies, Codes,
       Listening, Stages
  <2>2. (EarlyIsBare /\ RunningIsWatched)'
    BY DEF TypeOK, EarlyIsBare, RunningIsWatched, Early
  <2>3. OutputEnds'
    BY DEF TypeOK, OutputEnds, PipeOpen, Alive
  <2>4. (ExitIsSentLast /\ ExitEndsOutput)'
    BY DEF TypeOK, ExitIsSentLast, ExitEndsOutput, PipeOpen, Alive
  <2>5. ClientSide'
    BY DEF ClientSide
  <2>6. Tracked'
    BY DEF Tracked, Ended, Stopping
  <2>7. NoToolSurvives'
    BY DEF NoToolSurvives, Ended
  <2>8. KillExplained'
    BY KillFrame
  <2>9. QED
    BY <2>1, <2>2, <2>3, <2>4, <2>5, <2>6, <2>7, <2>8 DEF Inv
<1>13. CASE SelectTick(c)
  <2> USE <1>13 DEF SelectTick, Step, Goto, TaskOnly
  <2>1. TypeOK'
    BY DEF TypeOK, Places, Unsplit, Awaits, Requests, Replies, Codes,
       Listening, Stages
  <2>2. (EarlyIsBare /\ RunningIsWatched)'
    BY DEF TypeOK, EarlyIsBare, RunningIsWatched, Early
  <2>3. OutputEnds'
    BY DEF TypeOK, OutputEnds, PipeOpen, Alive
  <2>4. (ExitIsSentLast /\ ExitEndsOutput)'
    BY DEF TypeOK, ExitIsSentLast, ExitEndsOutput, PipeOpen, Alive
  <2>5. ClientSide'
    BY DEF ClientSide
  <2>6. Tracked'
    BY DEF Tracked, Ended, Stopping
  <2>7. NoToolSurvives'
    BY DEF NoToolSurvives, Ended
  <2>8. KillExplained'
    BY KillFrame
  <2>9. QED
    BY <2>1, <2>2, <2>3, <2>4, <2>5, <2>6, <2>7, <2>8 DEF Inv
<1>14. CASE ReportStdin(c)
  <2> USE <1>14 DEF ReportStdin, Step, Goto, KillGroup, WriteFrame
  <2>1. TypeOK'
    BY DEF TypeOK, Places, Unsplit, Awaits, Requests, Replies, Codes,
       Listening, Stages
  <2>2. (EarlyIsBare /\ RunningIsWatched)'
    BY DEF TypeOK, EarlyIsBare, RunningIsWatched, Early
  <2>3. OutputEnds'
    BY DEF TypeOK, OutputEnds, PipeOpen, Alive
  <2>4. (ExitIsSentLast /\ ExitEndsOutput)'
    BY DEF TypeOK, ExitIsSentLast, ExitEndsOutput, PipeOpen, Alive
  <2>5. ClientSide'
    BY DEF ClientSide
  <2>6. KillExplained'
    BY DEF TypeOK, KillExplained, ClientSide, OutputEnds, EarlyIsBare, Early,
       Tracked, Stopping, RunningIsWatched
  <2>7. Tracked'
    BY DEF Tracked, Ended, Stopping
  <2>8. NoToolSurvives'
    BY DEF NoToolSurvives, Ended
  <2>9. QED
    BY <2>1, <2>2, <2>3, <2>4, <2>5, <2>6, <2>7, <2>8 DEF Inv
<1>15. CASE ReportUnsent(c)
  <2> USE <1>15 DEF ReportUnsent, Step, Goto, KillGroup
  <2>1. TypeOK'
    BY DEF TypeOK, Places, Unsplit, Awaits, Requests, Replies, Codes,
       Listening, Stages
  <2>2. (EarlyIsBare /\ RunningIsWatched)'
    BY DEF TypeOK, EarlyIsBare, RunningIsWatched, Early
  <2>3. OutputEnds'
    BY DEF TypeOK, OutputEnds, PipeOpen, Alive
  <2>4. (ExitIsSentLast /\ ExitEndsOutput)'
    BY DEF TypeOK, ExitIsSentLast, ExitEndsOutput, PipeOpen, Alive
  <2>5. ClientSide'
    BY DEF ClientSide
  <2>6. KillExplained'
    BY DEF KillExplained, Stopping
  <2>7. Tracked'
    BY DEF Tracked, Ended, Stopping
  <2>8. NoToolSurvives'
    BY DEF NoToolSurvives, Ended
  <2>9. QED
    BY <2>1, <2>2, <2>3, <2>4, <2>5, <2>6, <2>7, <2>8 DEF Inv
<1>16. CASE Reaped(c)
  <2> USE <1>16 DEF Reaped, Goto
  <2>1. TypeOK'
    BY DEF TypeOK, Places, Unsplit, Awaits, Requests, Replies, Codes,
       Listening, Stages
  <2>2. (EarlyIsBare /\ RunningIsWatched)'
    BY DEF TypeOK, EarlyIsBare, RunningIsWatched, Early
  <2>3. OutputEnds'
    BY DEF TypeOK, OutputEnds, PipeOpen, Alive
  <2>4. (ExitIsSentLast /\ ExitEndsOutput)'
    BY DEF TypeOK, ExitIsSentLast, ExitEndsOutput, PipeOpen, Alive
  <2>5. ClientSide'
    BY DEF ClientSide
  <2>6. Tracked'
    BY DEF Tracked, Ended, Stopping
  <2>7. NoToolSurvives'
    BY DEF NoToolSurvives, Ended
  <2>8. KillExplained'
    BY KillFrame
  <2>9. QED
    BY <2>1, <2>2, <2>3, <2>4, <2>5, <2>6, <2>7, <2>8 DEF Inv
<1>17. CASE Drained(c)
  <2> USE <1>17 DEF Drained, Step, Goto, TaskOnly, Awaited
  <2>1. TypeOK'
    BY DEF TypeOK, Places, Unsplit, Awaits, Requests, Replies, Codes,
       Listening, Stages
  <2>2. (EarlyIsBare /\ RunningIsWatched)'
    BY DEF TypeOK, EarlyIsBare, RunningIsWatched, Early
  <2>3. OutputEnds'
    BY DEF TypeOK, OutputEnds, PipeOpen, Alive
  <2>4. (ExitIsSentLast /\ ExitEndsOutput)'
    BY DEF TypeOK, ExitIsSentLast, ExitEndsOutput, PipeOpen, Alive
  <2>5. ClientSide'
    BY DEF ClientSide
  <2>6. Tracked'
    BY DEF Tracked, Ended, Stopping
  <2>7. NoToolSurvives'
    BY DEF NoToolSurvives, Ended
  <2>8. KillExplained'
    BY KillFrame
  <2>9. QED
    BY <2>1, <2>2, <2>3, <2>4, <2>5, <2>6, <2>7, <2>8 DEF Inv
<1>18. CASE SendExit(c)
  <2> USE <1>18 DEF SendExit, WriteExit, Goto, WriteFrame
  <2>1. TypeOK'
    BY DEF TypeOK, Places, Unsplit, Awaits, Requests, Replies, Codes,
       Listening, Stages
  <2>2. (EarlyIsBare /\ RunningIsWatched)'
    BY DEF TypeOK, EarlyIsBare, RunningIsWatched, Early
  <2>3. OutputEnds'
    BY DEF TypeOK, OutputEnds, PipeOpen, Alive
  <2>4. (ExitIsSentLast /\ ExitEndsOutput)'
    BY DEF TypeOK, ExitIsSentLast, ExitEndsOutput, OutputEnds, EarlyIsBare,
       Early, PipeOpen, Alive, Codes
  <2>5. ClientSide'
    BY DEF ClientSide
  <2>6. Tracked'
    BY DEF Tracked, Ended, Stopping
  <2>7. NoToolSurvives'
    BY DEF NoToolSurvives, Ended
  <2>8. KillExplained'
    BY KillFrame
  <2>9. QED
    BY <2>1, <2>2, <2>3, <2>4, <2>5, <2>6, <2>7, <2>8 DEF Inv
<1>19. ASSUME NEW s \in Streams, DrainFails(c, s) PROVE Inv'
  <2> USE <1>19 DEF DrainFails, Step, Goto, TaskOnly, Awaited
  <2>1. TypeOK'
    BY DEF TypeOK, Places, Unsplit, Awaits, Requests, Replies, Codes,
       Listening, Stages
  <2>2. (EarlyIsBare /\ RunningIsWatched)'
    BY DEF TypeOK, EarlyIsBare, RunningIsWatched, Early
  <2>3. OutputEnds'
    BY DEF TypeOK, OutputEnds, PipeOpen, Alive
  <2>4. (ExitIsSentLast /\ ExitEndsOutput)'
    BY DEF TypeOK, ExitIsSentLast, ExitEndsOutput, PipeOpen, Alive
  <2>5. ClientSide'
    BY DEF ClientSide
  <2>6. Tracked'
    BY DEF Tracked, Ended, Stopping
  <2>7. NoToolSurvives'
    BY DEF NoToolSurvives, Ended
  <2>8. KillExplained'
    BY KillFrame
  <2>9. QED
    BY <2>1, <2>2, <2>3, <2>4, <2>5, <2>6, <2>7, <2>8 DEF Inv
<1>20. CASE SelectStdinEnd(c)
  <2> USE <1>20 DEF SelectStdinEnd, Step, Goto
  <2>1. TypeOK'
    BY DEF TypeOK, Places, Unsplit, Awaits, Requests, Replies, Codes,
       Listening, Stages
  <2>2. (EarlyIsBare /\ RunningIsWatched)'
    BY DEF TypeOK, EarlyIsBare, RunningIsWatched, Early
  <2>3. OutputEnds'
    BY DEF TypeOK, OutputEnds, PipeOpen, Alive
  <2>4. (ExitIsSentLast /\ ExitEndsOutput)'
    BY DEF TypeOK, ExitIsSentLast, ExitEndsOutput, PipeOpen, Alive
  <2>5. ClientSide'
    BY DEF ClientSide
  <2>6. Tracked'
    BY DEF Tracked, Ended, Stopping
  <2>7. NoToolSurvives'
    BY DEF NoToolSurvives, Ended
  <2>8. KillExplained'
    BY KillFrame
  <2>9. QED
    BY <2>1, <2>2, <2>3, <2>4, <2>5, <2>6, <2>7, <2>8 DEF Inv
<1>21. CASE SelectStdinFails(c)
  <2> USE <1>21 DEF SelectStdinFails, Step, Goto
  <2>1. TypeOK'
    BY DEF TypeOK, Places, Unsplit, Awaits, Requests, Replies, Codes,
       Listening, Stages
  <2>2. (EarlyIsBare /\ RunningIsWatched)'
    BY DEF TypeOK, EarlyIsBare, RunningIsWatched, Early
  <2>3. OutputEnds'
    BY DEF TypeOK, OutputEnds, PipeOpen, Alive
  <2>4. (ExitIsSentLast /\ ExitEndsOutput)'
    BY DEF TypeOK, ExitIsSentLast, ExitEndsOutput, PipeOpen, Alive
  <2>5. ClientSide'
    BY DEF ClientSide
  <2>6. Tracked'
    BY DEF Tracked, Ended, Stopping
  <2>7. NoToolSurvives'
    BY DEF NoToolSurvives, Ended
  <2>8. KillExplained'
    BY KillFrame
  <2>9. QED
    BY <2>1, <2>2, <2>3, <2>4, <2>5, <2>6, <2>7, <2>8 DEF Inv
<1>22. CASE SelectShutdown(c)
  <2> USE <1>22 DEF SelectShutdown, Step, Goto, KillGroup
  <2>1. TypeOK'
    BY DEF TypeOK, Places, Unsplit, Awaits, Requests, Replies, Codes,
       Listening, Stages
  <2>2. (EarlyIsBare /\ RunningIsWatched)'
    BY DEF TypeOK, EarlyIsBare, RunningIsWatched, Early
  <2>3. OutputEnds'
    BY DEF TypeOK, OutputEnds, PipeOpen, Alive
  <2>4. (ExitIsSentLast /\ ExitEndsOutput)'
    BY DEF TypeOK, ExitIsSentLast, ExitEndsOutput, PipeOpen, Alive
  <2>5. ClientSide'
    BY DEF ClientSide
  <2>6. KillExplained'
    BY DEF TypeOK, KillExplained, ClientSide, OutputEnds, EarlyIsBare, Early,
       Tracked, Stopping, RunningIsWatched
  <2>7. Tracked'
    BY DEF Tracked, Ended, Stopping
  <2>8. NoToolSurvives'
    BY DEF NoToolSurvives, Ended
  <2>9. QED
    BY <2>1, <2>2, <2>3, <2>4, <2>5, <2>6, <2>7, <2>8 DEF Inv
<1>23. ASSUME NEW s \in Streams, SelectOutputEnd(c, s) PROVE Inv'
  <2> USE <1>23 DEF SelectOutputEnd, Step, Goto
  <2>1. TypeOK'
    BY DEF TypeOK, Places, Unsplit, Awaits, Requests, Replies, Codes,
       Listening, Stages
  <2>2. (EarlyIsBare /\ RunningIsWatched)'
    BY DEF TypeOK, EarlyIsBare, RunningIsWatched, Early
  <2>3. OutputEnds'
    BY DEF TypeOK, OutputEnds, PipeOpen, Alive
  <2>4. (ExitIsSentLast /\ ExitEndsOutput)'
    BY DEF TypeOK, ExitIsSentLast, ExitEndsOutput, PipeOpen, Alive
  <2>5. ClientSide'
    BY DEF ClientSide
  <2>6. Tracked'
    BY DEF Tracked, Ended, Stopping
  <2>7. NoToolSurvives'
    BY DEF NoToolSurvives, Ended
  <2>8. KillExplained'
    BY KillFrame
  <2>9. QED
    BY <2>1, <2>2, <2>3, <2>4, <2>5, <2>6, <2>7, <2>8 DEF Inv
<1>24. ASSUME NEW s \in Streams, SelectOutputFails(c, s) PROVE Inv'
  <2> USE <1>24 DEF SelectOutputFails, Step, Goto, KillGroup
  <2>1. TypeOK'
    BY DEF TypeOK, Places, Unsplit, Awaits, Requests, Replies, Codes,
       Listening, Stages
  <2>2. (EarlyIsBare /\ RunningIsWatched)'
    BY DEF TypeOK, EarlyIsBare, RunningIsWatched, Early
  <2>3. OutputEnds'
    BY DEF TypeOK, OutputEnds, PipeOpen, Alive
  <2>4. (ExitIsSentLast /\ ExitEndsOutput)'
    BY DEF TypeOK, ExitIsSentLast, ExitEndsOutput, PipeOpen, Alive
  <2>5. ClientSide'
    BY DEF ClientSide
  <2>6. KillExplained'
    BY DEF TypeOK, KillExplained, ClientSide, OutputEnds, EarlyIsBare, Early,
       Tracked, Stopping, RunningIsWatched
  <2>7. Tracked'
    BY DEF Tracked, Ended, Stopping
  <2>8. NoToolSurvives'
    BY DEF NoToolSurvives, Ended
  <2>9. QED
    BY <2>1, <2>2, <2>3, <2>4, <2>5, <2>6, <2>7, <2>8 DEF Inv
<1>25. CASE AbortConnection(c)
  <2> USE <1>25 DEF AbortConnection, Goto, Awaits
  <2>1. TypeOK'
    BY DEF TypeOK, Places, Unsplit, Requests, Replies, Codes, Listening,
       Stages
  <2>2. (EarlyIsBare /\ RunningIsWatched)'
    BY DEF TypeOK, EarlyIsBare, RunningIsWatched, Early
  <2>3. OutputEnds'
    BY DEF TypeOK, OutputEnds, PipeOpen, Alive
  <2>4. (ExitIsSentLast /\ ExitEndsOutput)'
    BY DEF TypeOK, ExitIsSentLast, ExitEndsOutput, PipeOpen, Alive
  <2>5. ClientSide'
    BY DEF ClientSide
  <2>6. KillExplained'
    BY DEF KillExplained, Stopping
  <2>7. Tracked'
    BY DEF Tracked, Ended, Stopping
  <2>8. NoToolSurvives'
    BY DEF NoToolSurvives, Ended
  <2>9. QED
    BY <2>1, <2>2, <2>3, <2>4, <2>5, <2>6, <2>7, <2>8 DEF Inv
<1>26. QED
  BY <1>1, <1>2, <1>3, <1>4, <1>5, <1>6, <1>7, <1>8, <1>9, <1>10, <1>11,
     <1>12, <1>13, <1>14, <1>15, <1>16, <1>17, <1>18, <1>19, <1>20, <1>21,
     <1>22, <1>23, <1>24, <1>25 DEF HandleConnection, Selected

(* The forwarding tasks preserve the invariant. *)
LEMMA ForwardStep ==
  ASSUME Inv, NEW c \in Conns, ForwardStdin(c) \/ \E s \in Streams : ForwardOutput(c, s)
  PROVE  Inv'
<1> USE OutputStreams, BufPositive, NoneIsNoCode DEF Inv, listenVars, taskVars,
       forwardVars, toolVars, wireVars, clientVars, connVars
<1>1. CASE StdinChunk(c)
  <2> USE <1>1 DEF StdinChunk, ReadFrame
  <2>1. TypeOK'
    BY DEF TypeOK
  <2>2. (EarlyIsBare /\ RunningIsWatched)'
    BY DEF TypeOK, EarlyIsBare, RunningIsWatched, Early
  <2>3. ClientSide'
    BY DEF ClientSide
  <2>4. (OutputEnds /\ ExitIsSentLast /\ ExitEndsOutput /\ KillExplained /\
     Tracked /\ NoToolSurvives)'
    BY OutputFrame, ExitFrame, KillFrame, TrackedFrame, ToolFrame
  <2>5. QED
    BY <2>1, <2>2, <2>3, <2>4 DEF Inv
<1>2. CASE StdinEof(c)
  <2> USE <1>2 DEF StdinEof, ReadFrame
  <2>1. TypeOK'
    BY DEF TypeOK
  <2>2. (EarlyIsBare /\ RunningIsWatched)'
    BY DEF TypeOK, EarlyIsBare, RunningIsWatched, Early
  <2>3. ClientSide'
    BY DEF ClientSide
  <2>4. (OutputEnds /\ ExitIsSentLast /\ ExitEndsOutput /\ KillExplained /\
     Tracked /\ NoToolSurvives)'
    BY OutputFrame, ExitFrame, KillFrame, TrackedFrame, ToolFrame
  <2>5. QED
    BY <2>1, <2>2, <2>3, <2>4 DEF Inv
<1>3. CASE StdinJunk(c)
  <2> USE <1>3 DEF StdinJunk, ReadFrame
  <2>1. TypeOK'
    BY DEF TypeOK
  <2>2. (EarlyIsBare /\ RunningIsWatched)'
    BY DEF TypeOK, EarlyIsBare, RunningIsWatched, Early
  <2>3. ClientSide'
    BY DEF ClientSide
  <2>4. (OutputEnds /\ ExitIsSentLast /\ ExitEndsOutput /\ KillExplained /\
     Tracked /\ NoToolSurvives)'
    BY OutputFrame, ExitFrame, KillFrame, TrackedFrame, ToolFrame
  <2>5. QED
    BY <2>1, <2>2, <2>3, <2>4 DEF Inv
<1>4. CASE StdinLost(c)
  <2> USE <1>4 DEF StdinLost, Lost
  <2>1. TypeOK'
    BY DEF TypeOK
  <2>2. (EarlyIsBare /\ RunningIsWatched)'
    BY DEF TypeOK, EarlyIsBare, RunningIsWatched, Early
  <2>3. ClientSide'
    BY DEF ClientSide
  <2>4. (OutputEnds /\ ExitIsSentLast /\ ExitEndsOutput /\ KillExplained /\
     Tracked /\ NoToolSurvives)'
    BY OutputFrame, ExitFrame, KillFrame, TrackedFrame, ToolFrame
  <2>5. QED
    BY <2>1, <2>2, <2>3, <2>4 DEF Inv
<1>5. CASE StdinBroken(c)
  <2> USE <1>5 DEF StdinBroken, PipeOpen, Alive
  <2>1. TypeOK'
    BY DEF TypeOK
  <2>2. (EarlyIsBare /\ RunningIsWatched)'
    BY DEF TypeOK, EarlyIsBare, RunningIsWatched, Early
  <2>3. ClientSide'
    BY DEF ClientSide
  <2>4. (OutputEnds /\ ExitIsSentLast /\ ExitEndsOutput /\ KillExplained /\
     Tracked /\ NoToolSurvives)'
    BY OutputFrame, ExitFrame, KillFrame, TrackedFrame, ToolFrame
  <2>5. QED
    BY <2>1, <2>2, <2>3, <2>4 DEF Inv
<1>6. ASSUME NEW s \in Streams, OutputReads(c, s) PROVE Inv'
  <2> USE <1>6 DEF OutputReads
  <2>1. TypeOK'
    BY DEF TypeOK
  <2>2. (EarlyIsBare /\ RunningIsWatched)'
    BY DEF TypeOK, EarlyIsBare, RunningIsWatched, Early
  <2>3. OutputEnds'
    BY DEF TypeOK, OutputEnds, PipeOpen, Alive
  <2>4. (ExitIsSentLast /\ ExitEndsOutput)'
    BY DEF TypeOK, ExitIsSentLast, ExitEndsOutput, PipeOpen, Alive
  <2>5. (ClientSide /\ KillExplained /\ Tracked /\ NoToolSurvives)'
    BY ClientFrame, KillFrame, TrackedFrame, ToolFrame
  <2>6. QED
    BY <2>1, <2>2, <2>3, <2>4, <2>5 DEF Inv
<1>7. ASSUME NEW s \in Streams, OutputEof(c, s) PROVE Inv'
  <2> USE <1>7 DEF OutputEof, PipeOpen, Alive
  <2>1. TypeOK'
    BY DEF TypeOK
  <2>2. (EarlyIsBare /\ RunningIsWatched)'
    BY DEF TypeOK, EarlyIsBare, RunningIsWatched, Early
  <2>3. OutputEnds'
    BY DEF TypeOK, OutputEnds
  <2>4. (ExitIsSentLast /\ ExitEndsOutput)'
    BY DEF TypeOK, ExitIsSentLast, ExitEndsOutput
  <2>5. (ClientSide /\ KillExplained /\ Tracked /\ NoToolSurvives)'
    BY ClientFrame, KillFrame, TrackedFrame, ToolFrame
  <2>6. QED
    BY <2>1, <2>2, <2>3, <2>4, <2>5 DEF Inv
<1>8. ASSUME NEW s \in Streams, OutputWrites(c, s) PROVE Inv'
  <2> USE <1>8 DEF OutputWrites, WriteFrame
  <2>1. TypeOK'
    BY DEF TypeOK, Places, Unsplit, Awaits, Requests, Replies, Codes,
       Listening, Stages
  <2>2. (EarlyIsBare /\ RunningIsWatched)'
    BY DEF TypeOK, EarlyIsBare, RunningIsWatched, Early
  <2>3. OutputEnds'
    BY DEF TypeOK, OutputEnds, PipeOpen, Alive
  <2>4. (ExitIsSentLast /\ ExitEndsOutput)'
    <3>1. exit[c] = None
      BY DEF TypeOK, ExitIsSentLast, ExitEndsOutput
    <3>2. QED
      BY <3>1 DEF TypeOK, ExitIsSentLast, ExitEndsOutput, PipeOpen, Alive
  <2>5. (ClientSide /\ KillExplained /\ Tracked /\ NoToolSurvives)'
    BY ClientFrame, KillFrame, TrackedFrame, ToolFrame
  <2>6. QED
    BY <2>1, <2>2, <2>3, <2>4, <2>5 DEF Inv
<1>9. ASSUME NEW s \in Streams, OutputFails(c, s) PROVE Inv'
  <2> USE <1>9 DEF OutputFails
  <2>1. TypeOK'
    BY DEF TypeOK
  <2>2. (EarlyIsBare /\ RunningIsWatched)'
    BY DEF TypeOK, EarlyIsBare, RunningIsWatched, Early
  <2>3. OutputEnds'
    BY DEF TypeOK, OutputEnds, PipeOpen, Alive
  <2>4. (ExitIsSentLast /\ ExitEndsOutput)'
    BY DEF TypeOK, ExitIsSentLast, ExitEndsOutput, PipeOpen, Alive
  <2>5. (ClientSide /\ KillExplained /\ Tracked /\ NoToolSurvives)'
    BY ClientFrame, KillFrame, TrackedFrame, ToolFrame
  <2>6. QED
    BY <2>1, <2>2, <2>3, <2>4, <2>5 DEF Inv
<1>10. QED
  BY <1>1, <1>2, <1>3, <1>4, <1>5, <1>6, <1>7, <1>8, <1>9 DEF ForwardStdin,
     ForwardOutput

(* The tool preserves the invariant. *)
LEMMA ToolStep ==
  ASSUME Inv, NEW c \in Conns, Tool(c)
  PROVE  Inv'
<1> USE OutputStreams, BufPositive, NoneIsNoCode DEF Inv, listenVars, taskVars,
       forwardVars, toolVars, wireVars, clientVars, connVars
<1>1. CASE StdinTaken(c)
  <2> USE <1>1 DEF StdinTaken, PipeOpen, Alive
  <2>1. TypeOK'
    BY DEF TypeOK
  <2>2. (EarlyIsBare /\ RunningIsWatched)'
    BY DEF TypeOK, EarlyIsBare, RunningIsWatched, Early
  <2>3. ClientSide'
    BY DEF ClientSide
  <2>4. (OutputEnds /\ ExitIsSentLast /\ ExitEndsOutput /\ KillExplained /\
     Tracked /\ NoToolSurvives)'
    BY OutputFrame, ExitFrame, KillFrame, TrackedFrame, ToolFrame
  <2>5. QED
    BY <2>1, <2>2, <2>3, <2>4 DEF Inv
<1>2. CASE ToolForks(c)
  <2> USE <1>2 DEF ToolForks
  <2>1. TypeOK'
    BY DEF TypeOK
  <2>2. (EarlyIsBare /\ RunningIsWatched)'
    BY DEF TypeOK, EarlyIsBare, RunningIsWatched, Early
  <2>3. OutputEnds'
    BY DEF TypeOK, OutputEnds, PipeOpen, Alive
  <2>4. (ExitIsSentLast /\ ExitEndsOutput)'
    BY DEF TypeOK, ExitIsSentLast, ExitEndsOutput, PipeOpen, Alive
  <2>5. (ClientSide /\ KillExplained /\ Tracked /\ NoToolSurvives)'
    BY ClientFrame, KillFrame, TrackedFrame, ToolFrame
  <2>6. QED
    BY <2>1, <2>2, <2>3, <2>4, <2>5 DEF Inv
<1>3. CASE ToolExits(c)
  <2> USE <1>3 DEF ToolExits
  <2>1. TypeOK'
    BY DEF TypeOK
  <2>2. (EarlyIsBare /\ RunningIsWatched)'
    BY DEF TypeOK, EarlyIsBare, RunningIsWatched, Early
  <2>3. OutputEnds'
    BY DEF TypeOK, OutputEnds, PipeOpen, Alive
  <2>4. (ExitIsSentLast /\ ExitEndsOutput)'
    BY DEF TypeOK, ExitIsSentLast, ExitEndsOutput, PipeOpen, Alive
  <2>5. ClientSide'
    BY DEF ClientSide
  <2>6. KillExplained'
    BY DEF KillExplained, Stopping
  <2>7. NoToolSurvives'
    BY DEF NoToolSurvives, Ended
  <2>8. Tracked'
    BY TrackedFrame
  <2>9. QED
    BY <2>1, <2>2, <2>3, <2>4, <2>5, <2>6, <2>7, <2>8 DEF Inv
<1>4. CASE DescendantsEnd(c)
  <2> USE <1>4 DEF DescendantsEnd
  <2>1. TypeOK'
    BY DEF TypeOK
  <2>2. (EarlyIsBare /\ RunningIsWatched)'
    BY DEF TypeOK, EarlyIsBare, RunningIsWatched, Early
  <2>3. OutputEnds'
    BY DEF TypeOK, OutputEnds, PipeOpen, Alive
  <2>4. (ExitIsSentLast /\ ExitEndsOutput)'
    BY DEF TypeOK, ExitIsSentLast, ExitEndsOutput, PipeOpen, Alive
  <2>5. (ClientSide /\ KillExplained /\ Tracked /\ NoToolSurvives)'
    BY ClientFrame, KillFrame, TrackedFrame, ToolFrame
  <2>6. QED
    BY <2>1, <2>2, <2>3, <2>4, <2>5 DEF Inv
<1>5. ASSUME NEW s \in Streams, ToolWrites(c, s) PROVE Inv'
  <2> USE <1>5 DEF ToolWrites, PipeOpen, Alive
  <2>1. TypeOK'
    BY DEF TypeOK
  <2>2. OutputEnds'
    BY DEF TypeOK, OutputEnds
  <2>3. (ExitIsSentLast /\ ExitEndsOutput)'
    BY DEF TypeOK, ExitIsSentLast, ExitEndsOutput
  <2>4. (EarlyIsBare /\ RunningIsWatched /\ ClientSide /\ KillExplained /\
     Tracked /\ NoToolSurvives)'
    BY EarlyFrame, ClientFrame, KillFrame, TrackedFrame, ToolFrame
  <2>5. QED
    BY <2>1, <2>2, <2>3, <2>4 DEF Inv
<1>6. ASSUME NEW fd \in Streams \cup {"stdin"}, ToolCloses(c, fd) PROVE Inv'
  <2> USE <1>6 DEF ToolCloses, PipeOpen, Alive
  <2>1. TypeOK'
    BY DEF TypeOK
  <2>2. OutputEnds'
    BY DEF TypeOK, OutputEnds
  <2>3. (ExitIsSentLast /\ ExitEndsOutput)'
    BY DEF TypeOK, ExitIsSentLast, ExitEndsOutput
  <2>4. ClientSide'
    BY DEF ClientSide
  <2>5. KillExplained'
    BY DEF KillExplained, Stopping
  <2>6. (EarlyIsBare /\ RunningIsWatched /\ Tracked /\ NoToolSurvives)'
    BY EarlyFrame, TrackedFrame, ToolFrame
  <2>7. QED
    BY <2>1, <2>2, <2>3, <2>4, <2>5, <2>6 DEF Inv
<1>7. QED
  BY <1>1, <1>2, <1>3, <1>4, <1>5, <1>6 DEF Tool

(* The client preserves the invariant. *)
LEMMA ClientStep ==
  ASSUME Inv, NEW c \in Conns, Client(c)
  PROVE  Inv'
<1> USE OutputStreams, BufPositive, NoneIsNoCode DEF Inv, listenVars, taskVars,
       forwardVars, toolVars, wireVars, clientVars, connVars
<1>1. CASE Dial(c)
  <2> USE <1>1 DEF Dial
  <2>1. TypeOK'
    BY DEF TypeOK, Places, Unsplit, Awaits, Requests, Replies, Codes,
       Listening, Stages
  <2>2. (EarlyIsBare /\ RunningIsWatched)'
    <3>1. pc[c] = "none"
      BY DEF ClientSide
    <3>2. QED
      BY <3>1 DEF TypeOK, EarlyIsBare, RunningIsWatched, Early
  <2>3. OutputEnds'
    <3>1. pc[c] = "none"
      BY DEF ClientSide
    <3>2. QED
      BY <3>1 DEF TypeOK, OutputEnds, EarlyIsBare, Early, PipeOpen, Alive
  <2>4. (ExitIsSentLast /\ ExitEndsOutput)'
    <3>1. pc[c] = "none"
      BY DEF ClientSide
    <3>2. QED
      BY <3>1 DEF TypeOK, ExitIsSentLast, ExitEndsOutput, PipeOpen, Alive
  <2>5. ClientSide'
    BY DEF TypeOK, ClientSide, EarlyIsBare, Early, PipeOpen, Alive,
       RunningIsWatched
  <2>6. KillExplained'
    BY DEF TypeOK, KillExplained, ClientSide, OutputEnds, EarlyIsBare, Early,
       Tracked, Stopping, RunningIsWatched
  <2>7. Tracked'
    BY DEF Tracked, Ended, Stopping
  <2>8. NoToolSurvives'
    BY DEF TypeOK, NoToolSurvives, Tracked, RunningIsWatched, Ended,
       EarlyIsBare, Early
  <2>9. QED
    BY <2>1, <2>2, <2>3, <2>4, <2>5, <2>6, <2>7, <2>8 DEF Inv
<1>2. CASE SendOpen(c)
  <2> USE <1>2 DEF SendOpen, ClientSends
  <2>1. TypeOK'
    BY DEF TypeOK, Places, Unsplit, Awaits, Requests, Replies, Codes,
       Listening, Stages
  <2>2. ClientSide'
    BY DEF ClientSide
  <2>3. KillExplained'
    BY DEF KillExplained, Stopping
  <2>4. (EarlyIsBare /\ RunningIsWatched /\ OutputEnds /\ ExitIsSentLast /\
     ExitEndsOutput /\ Tracked /\ NoToolSurvives)'
    BY EarlyFrame, OutputFrame, ExitFrame, TrackedFrame, ToolFrame
  <2>5. QED
    BY <2>1, <2>2, <2>3, <2>4 DEF Inv
<1>3. CASE ReceiveFrame(c)
  <2> USE <1>3 DEF ReceiveFrame
  <2>1. TypeOK'
    BY DEF TypeOK
  <2>2. (ExitIsSentLast /\ ExitEndsOutput)'
    BY DEF TypeOK, ExitIsSentLast, ExitEndsOutput, PipeOpen, Alive
  <2>3. (EarlyIsBare /\ RunningIsWatched /\ OutputEnds /\ ClientSide /\
     KillExplained /\ Tracked /\ NoToolSurvives)'
    BY EarlyFrame, OutputFrame, ClientFrame, KillFrame, TrackedFrame,
       ToolFrame
  <2>4. QED
    BY <2>1, <2>2, <2>3 DEF Inv
<1>4. CASE ReceiveExit(c)
  <2> USE <1>4 DEF ReceiveExit, Leave, Close
  <2>1. TypeOK'
    BY DEF TypeOK
  <2>2. OutputEnds'
    BY DEF TypeOK, OutputEnds, PipeOpen, Alive
  <2>3. (ExitIsSentLast /\ ExitEndsOutput)'
    BY DEF TypeOK, ExitIsSentLast, ExitEndsOutput, PipeOpen, Alive
  <2>4. ClientSide'
    BY DEF TypeOK, ClientSide
  <2>5. KillExplained'
    BY DEF TypeOK, KillExplained, Stopping
  <2>6. (EarlyIsBare /\ RunningIsWatched /\ Tracked /\ NoToolSurvives)'
    BY EarlyFrame, TrackedFrame, ToolFrame
  <2>7. QED
    BY <2>1, <2>2, <2>3, <2>4, <2>5, <2>6 DEF Inv
<1>5. CASE LocalFailure(c)
  <2> USE <1>5 DEF LocalFailure, Leave, Close
  <2>1. TypeOK'
    <3>1. result' \in [Conns -> Codes \cup {None, "localFailure"}]
      BY DEF TypeOK
    <3>2. client' \in [Conns -> {"idle", "opening", "receiving", "rogue", "done"}]
      BY DEF TypeOK
    <3>3. input' \in [Conns -> BOOLEAN] /\ connected' \in [Conns -> BOOLEAN]
      BY DEF TypeOK
    <3>4. toClient' \in [Conns -> Seq(Replies)]
      BY DEF TypeOK
    <3>5. QED
      BY <3>1, <3>2, <3>3, <3>4 DEF TypeOK
  <2>2. OutputEnds'
    BY DEF TypeOK, OutputEnds, PipeOpen, Alive
  <2>3. (ExitIsSentLast /\ ExitEndsOutput)'
    BY DEF TypeOK, ExitIsSentLast, ExitEndsOutput, PipeOpen, Alive
  <2>4. ClientSide'
    BY DEF TypeOK, ClientSide
  <2>5. KillExplained'
    BY DEF TypeOK, KillExplained, Stopping
  <2>6. (EarlyIsBare /\ RunningIsWatched /\ Tracked /\ NoToolSurvives)'
    BY EarlyFrame, TrackedFrame, ToolFrame
  <2>7. QED
    BY <2>1, <2>2, <2>3, <2>4, <2>5, <2>6 DEF Inv
<1>6. CASE ForwardInput(c)
  <2> USE <1>6 DEF ForwardInput, ClientSends
  <2>1. TypeOK'
    BY DEF TypeOK, Places, Unsplit, Awaits, Requests, Replies, Codes,
       Listening, Stages
  <2>2. ClientSide'
    BY DEF ClientSide
  <2>3. (EarlyIsBare /\ RunningIsWatched /\ OutputEnds /\ ExitIsSentLast /\
     ExitEndsOutput /\ KillExplained /\ Tracked /\ NoToolSurvives)'
    BY EarlyFrame, OutputFrame, ExitFrame, KillFrame, TrackedFrame, ToolFrame
  <2>4. QED
    BY <2>1, <2>2, <2>3 DEF Inv
<1>7. CASE InputBroken(c)
  <2> USE <1>7 DEF InputBroken, Close
  <2>1. TypeOK'
    BY DEF TypeOK
  <2>2. OutputEnds'
    BY DEF TypeOK, OutputEnds, PipeOpen, Alive
  <2>3. (ExitIsSentLast /\ ExitEndsOutput)'
    BY DEF TypeOK, ExitIsSentLast, ExitEndsOutput, PipeOpen, Alive
  <2>4. ClientSide'
    BY DEF ClientSide
  <2>5. KillExplained'
    BY DEF KillExplained, Stopping
  <2>6. (EarlyIsBare /\ RunningIsWatched /\ Tracked /\ NoToolSurvives)'
    BY EarlyFrame, TrackedFrame, ToolFrame
  <2>7. QED
    BY <2>1, <2>2, <2>3, <2>4, <2>5, <2>6 DEF Inv
<1>8. CASE InputEof(c)
  <2> USE <1>8 DEF InputEof, ClientSends
  <2>1. TypeOK'
    BY DEF TypeOK, Places, Unsplit, Awaits, Requests, Replies, Codes,
       Listening, Stages
  <2>2. ClientSide'
    BY DEF ClientSide
  <2>3. (EarlyIsBare /\ RunningIsWatched /\ OutputEnds /\ ExitIsSentLast /\
     ExitEndsOutput /\ KillExplained /\ Tracked /\ NoToolSurvives)'
    BY EarlyFrame, OutputFrame, ExitFrame, KillFrame, TrackedFrame, ToolFrame
  <2>4. QED
    BY <2>1, <2>2, <2>3 DEF Inv
<1>9. CASE InputEofUnsent(c)
  <2> USE <1>9 DEF InputEofUnsent
  <2>1. TypeOK'
    BY DEF TypeOK
  <2>2. (EarlyIsBare /\ RunningIsWatched /\ OutputEnds /\ ExitIsSentLast /\
     ExitEndsOutput /\ ClientSide /\ KillExplained /\ Tracked /\
     NoToolSurvives)'
    BY EarlyFrame, OutputFrame, ExitFrame, ClientFrame, KillFrame,
       TrackedFrame, ToolFrame
  <2>3. QED
    BY <2>1, <2>2 DEF Inv
<1>10. CASE ClientFails(c)
  <2> USE <1>10 DEF ClientFails, Leave, Close
  <2>1. TypeOK'
    BY DEF TypeOK
  <2>2. OutputEnds'
    BY DEF TypeOK, OutputEnds, PipeOpen, Alive
  <2>3. (ExitIsSentLast /\ ExitEndsOutput)'
    BY DEF TypeOK, ExitIsSentLast, ExitEndsOutput, PipeOpen, Alive
  <2>4. ClientSide'
    BY DEF TypeOK, ClientSide
  <2>5. KillExplained'
    BY DEF TypeOK, KillExplained, Stopping
  <2>6. (EarlyIsBare /\ RunningIsWatched /\ Tracked /\ NoToolSurvives)'
    BY EarlyFrame, TrackedFrame, ToolFrame
  <2>7. QED
    BY <2>1, <2>2, <2>3, <2>4, <2>5, <2>6 DEF Inv
<1>11. CASE ClientMisbehaves(c)
  <2> USE <1>11 DEF ClientMisbehaves, ClientSends
  <2>1. TypeOK'
    BY DEF TypeOK, Places, Unsplit, Awaits, Requests, Replies, Codes,
       Listening, Stages
  <2>2. ClientSide'
    BY DEF TypeOK, ClientSide
  <2>3. KillExplained'
    BY DEF KillExplained, Stopping
  <2>4. (EarlyIsBare /\ RunningIsWatched /\ OutputEnds /\ ExitIsSentLast /\
     ExitEndsOutput /\ Tracked /\ NoToolSurvives)'
    BY EarlyFrame, OutputFrame, ExitFrame, TrackedFrame, ToolFrame
  <2>5. QED
    BY <2>1, <2>2, <2>3, <2>4 DEF Inv
<1>12. QED
  BY <1>1, <1>2, <1>3, <1>4, <1>5, <1>6, <1>7, <1>8, <1>9, <1>10, <1>11 DEF
     Client, Receive

(* The invariant holds initially: nobody is connected. *)
LEMMA InitInv == Init => Inv
<1> SUFFICES ASSUME Init PROVE Inv
  OBVIOUS
<1> USE NoneIsNoCode DEF Init
<1>1. TypeOK
  BY DEF TypeOK, Listening, Stages, Places, Codes
<1>2. EarlyIsBare /\ RunningIsWatched /\ OutputEnds /\ ExitIsSentLast
  BY DEF EarlyIsBare, Early, RunningIsWatched, OutputEnds, ExitIsSentLast, Codes
<1>3. ClientSide /\ Tracked
  BY DEF ClientSide, Tracked, Stopping, Ended
<1>4. ExitEndsOutput /\ KillExplained /\ NoToolSurvives
  BY DEF ExitEndsOutput, KillExplained, NoToolSurvives
<1>5. QED
  BY <1>1, <1>2, <1>3, <1>4 DEF Inv

(* Every step of the specification preserves the invariant. *)
LEMMA StepInv == Inv /\ [Next]_vars => Inv'
<1> SUFFICES ASSUME Inv, [Next]_vars PROVE Inv'
  OBVIOUS
<1>1. CASE AcceptLoop
  BY <1>1, AcceptLoopStep
<1>2. CASE Shutdown \/ Stop
  BY <1>2, ShutdownStep
<1>3. ASSUME NEW c \in Conns, HandleConnection(c) \/ Selected(c) \/ AbortConnection(c)
      PROVE  Inv'
  BY <1>3, ConnectionStep
<1>4. ASSUME NEW c \in Conns, ForwardStdin(c) \/ \E s \in Streams : ForwardOutput(c, s)
      PROVE  Inv'
  BY <1>4, ForwardStep
<1>5. ASSUME NEW c \in Conns, Tool(c) PROVE Inv'
  BY <1>5, ToolStep
<1>6. ASSUME NEW c \in Conns, Client(c) PROVE Inv'
  BY <1>6, ClientStep
<1>7. CASE UNCHANGED vars
  <2> USE <1>7 DEF vars, listenVars, taskVars, connVars, forwardVars, toolVars,
         wireVars, clientVars
  <2>1. TypeOK'
    BY DEF Inv, TypeOK
  <2>2. (EarlyIsBare /\ RunningIsWatched /\ OutputEnds /\ ExitIsSentLast /\ ExitEndsOutput)'
    BY EarlyFrame, OutputFrame, ExitFrame DEF Inv
  <2>3. (ClientSide /\ Tracked /\ KillExplained /\ NoToolSurvives)'
    BY ClientFrame, TrackedFrame, KillFrame, ToolFrame DEF Inv
  <2>4. QED
    BY <2>1, <2>2, <2>3 DEF Inv
<1>8. QED
  BY <1>1, <1>2, <1>3, <1>4, <1>5, <1>6, <1>7 DEF Next

(* The conjunction of TypeOK, the bookkeeping of connections, forwarding   *)
(* tasks and tools, and the three promises holds in every reachable state. *)
THEOREM Invariance == Spec => []Inv
  BY InitInv, StepInv, PTL DEF Spec

(* handle_connection sends EXIT after all of the tool's output, and last.  *)
THEOREM ExitAfterOutput == Spec => []ExitEndsOutput
<1>1. Inv => ExitEndsOutput
  BY DEF Inv
<1>2. QED
  BY <1>1, Invariance, PTL

(* kill_process_group and kill_on_drop meet a running tool only at a       *)
(* shutdown, or when the client left or misbehaved, or the tool closed its *)
(* standard input.                                                         *)
THEOREM KillHasAReason == Spec => []KillExplained
<1>1. Inv => KillExplained
  BY DEF Inv
<1>2. QED
  BY <1>1, Invariance, PTL

(* When ToolProxy::shutdown has returned every connection task has ended   *)
(* and no tool runs.                                                       *)
THEOREM ShutdownLeavesNoTool == Spec => []NoToolSurvives
<1>1. Inv => NoToolSurvives
  BY DEF Inv
<1>2. QED
  BY <1>1, Invariance, PTL
=============================================================================
