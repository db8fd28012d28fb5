----------------------------- MODULE ToolProxy -----------------------------
(***************************************************************************)
(* The host-side tool proxy (src/proxy): the accept loop, one task per     *)
(* connection with its three forwarding tasks and its tool process, the    *)
(* shutdown with its deadline, and the Go client at the other end          *)
(* (sdks/proxy/main.go). The tool and its descendants are external.        *)
(***************************************************************************)
EXTENDS Naturals, Sequences

CONSTANTS Conns,   \* invocations: a client, its connection and its tool
          Streams, \* the tool's outputs: "stdout", "stderr"
          Buf,     \* bound: frames a direction of the socket holds
          None     \* no result, no EXIT frame

(* What arrives at the server. "junk" is a frame out of place, of another  *)
(* kind, of too many bytes or with a payload its kind does not allow.      *)
Requests == {"open", "stdin", "eof", "junk"}

(* An EXIT frame is represented by its code: the tool's own, 128 + signal, *)
(* or TOOL_START_FAILURE.                                                  *)
Codes == {"own", "signal", "startFailure"}
Replies == Streams \cup {"error"} \cup Codes

ASSUME OutputStreams == Streams \subseteq {"stdout", "stderr"}
ASSUME BufPositive == Buf \in Nat \ {0}
ASSUME NoneIsNoCode == None \notin Codes \cup {"localFailure"}

VARIABLES
  listener,    \* where accept_loop is
  shut,        \* where ToolProxy::shutdown is
  connections, \* ProxyState.connections, the JoinSet
  taken,       \* the JoinSet shutdown_connections took
  pc,          \* where the connection's task is
  heard,       \* connections whose `notified()` is ready
  stdin,       \* the task forward_stdin
  out,         \* the tasks forward_output
  leader,      \* the tool process; "exited" and "killed" until it is reaped
  desc,        \* its descendants: none, in its group, outside of it
  held,        \* the pipe ends the tool and its descendants have open
  pipe,        \* output in the pipes, in chunks
  toServer,    \* frames on the socket
  toClient,
  exit,        \* ghost: the code of the EXIT frame sent
  client,      \* where the client's main goroutine is; "rogue": another
               \* program, which broke the protocol
  input,       \* its goroutine forwardInput is running
  connected,   \* its end of the socket is open
  result       \* the exit code of a Go client that was not killed

listenVars == <<listener, shut, connections, taken>>
taskVars == <<pc, heard>>
forwardVars == <<stdin, out>>
toolVars == <<leader, desc, held, pipe>>
wireVars == <<toServer, toClient, exit>>
clientVars == <<client, input, connected, result>>
connVars == <<forwardVars, toolVars, wireVars, clientVars>>
vars == <<listenVars, taskVars, connVars>>

-----------------------------------------------------------------------------
(* Who holds what *)

Stopping == shut # "serving"
Ended(c) == pc[c] \in {"done", "aborted", "refused"}
Forwarding == {"reading", "writing"}

(* The stream belongs to the task until it is split; then forward_stdin    *)
(* owns the reader, the task and both forward_output share the writer.     *)
Unsplit == {"queued", "hand", "spawned", "open", "fail", "failed", "started", "reapStopped"}
WriterHeld(c) ==
  \/ pc[c] # "none" /\ ~Ended(c)
  \/ \E s \in Streams : out[c][s] \in Forwarding
ReaderHeld(c) == pc[c] \in Unsplit \/ stdin[c] \in Forwarding
ServerClosed(c) == ~WriterHeld(c) /\ ~ReaderHeld(c)

Alive(c) == leader[c] = "running" \/ desc[c] # "none"
PipeOpen(c, fd) == fd \in held[c] /\ Alive(c)

(* read_frame fails when the client has left and everything is read;       *)
(* write_frame fails when the client has left, and waits for room.         *)
ReadFrame(c, f) ==
  /\ toServer[c] # <<>>
  /\ f = Head(toServer[c])
  /\ toServer' = [toServer EXCEPT ![c] = Tail(@)]
Lost(c) == toServer[c] = <<>> /\ ~connected[c]
WriteFrame(c, f) ==
  /\ connected[c]
  /\ Len(toClient[c]) < Buf
  /\ toClient' = [toClient EXCEPT ![c] = Append(@, f)]

-----------------------------------------------------------------------------
(* accept_loop *)

(* Dropping the listener closes the connections nobody accepted. *)
Refused(inHand) ==
  [c \in Conns |-> IF pc[c] \in {"queued"} \cup inHand THEN "refused" ELSE pc[c]]

Accept(c) ==
  /\ listener = "select"
  /\ pc[c] = "queued"
  /\ listener' = "got"
  /\ pc' = [pc EXCEPT ![c] = "hand"]
  /\ UNCHANGED <<shut, connections, taken, heard, connVars>>

(* An error of accept ends the loop for good. *)
AcceptFails ==
  /\ listener = "select"
  /\ \E c \in Conns : pc[c] = "queued"
  /\ listener' = "end"
  /\ pc' = Refused({})
  /\ UNCHANGED <<shut, connections, taken, heard, connVars>>

(* The loop returns when it is notified, or when it sees the flag: at the  *)
(* top, or with a connection it has just accepted.                         *)
AcceptStops ==
  /\ listener \in {"select", "got"}
  /\ Stopping
  /\ listener' = "end"
  /\ pc' = Refused({"hand"})
  /\ UNCHANGED <<shut, connections, taken, heard, connVars>>

AcceptRecheck ==
  /\ listener = "got"
  /\ ~Stopping
  /\ listener' = "adding"
  /\ UNCHANGED <<shut, connections, taken, taskVars, connVars>>

(* reap_finished, also every second without a connection. *)
Unfinished(tasks) == {c \in tasks : ~Ended(c)}

AcceptTick ==
  /\ listener = "select"
  /\ connections' = Unfinished(connections)
  /\ UNCHANGED <<listener, shut, taken, taskVars, connVars>>

AddConnection(c) ==
  /\ listener = "adding"
  /\ pc[c] = "hand"
  /\ listener' = "select"
  /\ connections' = Unfinished(connections) \cup {c}
  /\ pc' = [pc EXCEPT ![c] = "spawned"]
  /\ UNCHANGED <<shut, taken, heard, connVars>>

-----------------------------------------------------------------------------
(* handle_connection *)

TaskOnly == UNCHANGED <<listenVars, connVars>>

(* Leaving a select! drops its `notified()`. *)
Goto(c, p) == pc' = [pc EXCEPT ![c] = p] /\ heard' = heard \ {c}
Step(c, p, q) == pc[c] = p /\ Goto(c, q)

(* EXIT ends the connection. *)
WriteExit(c, code) ==
  /\ WriteFrame(c, code)
  /\ exit' = [exit EXCEPT ![c] = code]
  /\ Goto(c, "done")

(* The first poll creates the first `notified()`. *)
FirstPoll(c) ==
  /\ Step(c, "spawned", "open")
  /\ TaskOnly

(* The request is invalid, names no tool, or its environment or program    *)
(* cannot be loaded.                                                       *)
OpenFails(c) ==
  /\ Step(c, "open", "fail")
  /\ \E f \in Requests : ReadFrame(c, f)
  /\ UNCHANGED <<listenVars, forwardVars, toolVars, toClient, exit, clientVars>>

OpenStarts(c) ==
  /\ Step(c, "open", "started")
  /\ ReadFrame(c, "open")
  /\ leader' = [leader EXCEPT ![c] = "running"]
  /\ held' = [held EXCEPT ![c] = Streams \cup {"stdin"}]
  /\ UNCHANGED <<listenVars, forwardVars, desc, pipe, toClient, exit, clientVars>>

(* A client that left before its request is answered all the same. *)
OpenLost(c) ==
  /\ Step(c, "open", "fail")
  /\ Lost(c)
  /\ TaskOnly

OpenStopped(c) ==
  /\ Step(c, "open", "done")
  /\ c \in heard
  /\ TaskOnly

(* send_failure: ERROR, then EXIT with TOOL_START_FAILURE. *)
SendError(c) ==
  /\ Step(c, "fail", "failed")
  /\ WriteFrame(c, "error")
  /\ UNCHANGED <<listenVars, forwardVars, toolVars, toServer, exit, clientVars>>

SendStartFailure(c) ==
  /\ pc[c] = "failed"
  /\ WriteExit(c, "startFailure")
  /\ UNCHANGED <<listenVars, forwardVars, toolVars, toServer, clientVars>>

(* kill_process_group: the tool and the descendants still in its group. *)
KillGroup(c) ==
  /\ leader' = [leader EXCEPT ![c] = IF @ = "running" THEN "killed" ELSE @]
  /\ desc' = [desc EXCEPT ![c] = IF @ = "group" THEN "none" ELSE @]
  /\ UNCHANGED <<held, pipe>>

(* The flag is looked at again once the tool has been started. *)
StopStarted(c) ==
  /\ Step(c, "started", "reapStopped")
  /\ Stopping
  /\ KillGroup(c)
  /\ UNCHANGED <<listenVars, forwardVars, wireVars, clientVars>>

StoppedReaped(c) ==
  /\ Step(c, "reapStopped", "done")
  /\ leader[c] # "running"
  /\ TaskOnly

StartForwarding(c) ==
  /\ Step(c, "started", "loop")
  /\ ~Stopping
  /\ stdin' = [stdin EXCEPT ![c] = "reading"]
  /\ out' = [out EXCEPT ![c] = [s \in Streams |-> "reading"]]
  /\ UNCHANGED <<listenVars, toolVars, wireVars, clientVars>>

(* try_wait at the top of the loop finds the tool running. A new           *)
(* `notified()` is created on the way to select!, so a notification sent   *)
(* before it is missed.                                                    *)
StillRunning(c) ==
  /\ Step(c, "loop", "select")
  /\ leader[c] = "running"
  /\ TaskOnly

SelectTick(c) ==
  /\ Step(c, "select", "loop")
  /\ TaskOnly

SelectStdinEnd(c) ==
  /\ Step(c, "select", "loop")
  /\ stdin[c] = "ok"
  /\ stdin' = [stdin EXCEPT ![c] = "off"]
  /\ UNCHANGED <<listenVars, out, toolVars, wireVars, clientVars>>

SelectStdinFails(c) ==
  /\ Step(c, "select", "report")
  /\ stdin[c] = "err"
  /\ stdin' = [stdin EXCEPT ![c] = "off"]
  /\ UNCHANGED <<listenVars, out, toolVars, wireVars, clientVars>>

(* The failure of the stdin channel is reported before the tool is killed. *)
ReportStdin(c) ==
  /\ Step(c, "report", "reaping")
  /\ WriteFrame(c, "error")
  /\ KillGroup(c)
  /\ UNCHANGED <<listenVars, forwardVars, toServer, exit, clientVars>>

ReportUnsent(c) ==
  /\ Step(c, "report", "reaping")
  /\ ~connected[c]
  /\ KillGroup(c)
  /\ UNCHANGED <<listenVars, forwardVars, wireVars, clientVars>>

(* A slip: the end of an output is taken for a failure to forward it. *)
SelectOutputEndKills(c, s) ==
  /\ Step(c, "select", "reaping")
  /\ out[c][s] = "ok"
  /\ out' = [out EXCEPT ![c][s] = "joined"]
  /\ KillGroup(c)
  /\ UNCHANGED <<listenVars, stdin, wireVars, clientVars>>

SelectOutputEnd(c, s) ==
  /\ Step(c, "select", "loop")
  /\ out[c][s] = "ok"
  /\ out' = [out EXCEPT ![c][s] = "joined"]
  /\ UNCHANGED <<listenVars, stdin, toolVars, wireVars, clientVars>>

SelectOutputFails(c, s) ==
  /\ Step(c, "select", "reaping")
  /\ out[c][s] = "err"
  /\ out' = [out EXCEPT ![c][s] = "failed"]
  /\ KillGroup(c)
  /\ UNCHANGED <<listenVars, stdin, wireVars, clientVars>>

SelectShutdown(c) ==
  /\ Step(c, "select", "reaping")
  /\ c \in heard
  /\ KillGroup(c)
  /\ UNCHANGED <<listenVars, forwardVars, wireVars, clientVars>>

(* A slip: the stdin forwarding is awaited instead of aborted. *)
ReapedAwaitsStdin(c) ==
  /\ pc[c] \in {"loop", "reaping"}
  /\ leader[c] # "running"
  /\ stdin[c] \notin Forwarding
  /\ Goto(c, "drain")
  /\ TaskOnly

(* try_wait or wait returned the status: the loop is left, and a stdin     *)
(* forwarding that is still running is aborted.                            *)
Reaped(c) ==
  /\ pc[c] \in {"loop", "reaping"}
  /\ leader[c] # "running"
  /\ Goto(c, "drain")
  /\ stdin' = [stdin EXCEPT ![c] = "off"]
  /\ UNCHANGED <<listenVars, out, toolVars, wireVars, clientVars>>

(* Both outputs are awaited, stdout first, unless the loop has seen their  *)
(* end; a failure returns without EXIT.                                    *)
Awaited(c, s) == out[c][s] \in {"ok", "joined", "failed"}

(* A slip: EXIT does not wait for the outputs. *)
DrainedEarly(c) ==
  /\ Step(c, "drain", "exit")
  /\ TaskOnly

Drained(c) ==
  /\ Step(c, "drain", "exit")
  /\ \A s \in Streams : Awaited(c, s)
  /\ TaskOnly

DrainFails(c, s) ==
  /\ Step(c, "drain", "done")
  /\ out[c][s] = "err"
  /\ s = "stderr" => \A r \in Streams \ {s} : Awaited(c, r)
  /\ TaskOnly

(* exit_code *)
SendExit(c) ==
  /\ pc[c] = "exit"
  /\ WriteExit(c, IF leader[c] = "exited" THEN "own" ELSE "signal")
  /\ UNCHANGED <<listenVars, forwardVars, toolVars, toServer, clientVars>>

ReplyUnsent(c) ==
  /\ pc[c] \in {"fail", "failed", "exit"}
  /\ ~connected[c]
  /\ Goto(c, "done")
  /\ TaskOnly

-----------------------------------------------------------------------------
(* The forwarding tasks, which outlive a connection task that is aborted *)

StdinChunk(c) ==
  /\ stdin[c] = "reading"
  /\ ReadFrame(c, "stdin")
  /\ stdin' = [stdin EXCEPT ![c] = "writing"]
  /\ UNCHANGED <<listenVars, taskVars, out, toolVars, toClient, exit, clientVars>>

StdinEof(c) ==
  /\ stdin[c] = "reading"
  /\ ReadFrame(c, "eof")
  /\ stdin' = [stdin EXCEPT ![c] = "ok"]
  /\ UNCHANGED <<listenVars, taskVars, out, toolVars, toClient, exit, clientVars>>

StdinJunk(c) ==
  /\ stdin[c] = "reading"
  /\ ReadFrame(c, "junk")
  /\ stdin' = [stdin EXCEPT ![c] = "err"]
  /\ UNCHANGED <<listenVars, taskVars, out, toolVars, toClient, exit, clientVars>>

(* A slip: a client that is gone is taken for one that ended its input. *)
StdinLostIsEof(c) ==
  /\ stdin[c] = "reading"
  /\ Lost(c)
  /\ stdin' = [stdin EXCEPT ![c] = "ok"]
  /\ UNCHANGED <<listenVars, taskVars, out, toolVars, wireVars, clientVars>>

StdinLost(c) ==
  /\ stdin[c] = "reading"
  /\ Lost(c)
  /\ stdin' = [stdin EXCEPT ![c] = "err"]
  /\ UNCHANGED <<listenVars, taskVars, out, toolVars, wireVars, clientVars>>

(* write_all to the tool succeeds when there is room, which is up to the   *)
(* tool, and fails when nobody has the pipe open.                          *)
StdinTaken(c) ==
  /\ stdin[c] = "writing"
  /\ PipeOpen(c, "stdin")
  /\ stdin' = [stdin EXCEPT ![c] = "reading"]
  /\ UNCHANGED <<listenVars, taskVars, out, toolVars, wireVars, clientVars>>

StdinBroken(c) ==
  /\ stdin[c] = "writing"
  /\ ~PipeOpen(c, "stdin")
  /\ stdin' = [stdin EXCEPT ![c] = "err"]
  /\ UNCHANGED <<listenVars, taskVars, out, toolVars, wireVars, clientVars>>

OutputReads(c, s) ==
  /\ out[c][s] = "reading"
  /\ pipe[c][s] > 0
  /\ pipe' = [pipe EXCEPT ![c][s] = @ - 1]
  /\ out' = [out EXCEPT ![c][s] = "writing"]
  /\ UNCHANGED <<listenVars, taskVars, stdin, leader, desc, held, wireVars, clientVars>>

OutputEof(c, s) ==
  /\ out[c][s] = "reading"
  /\ pipe[c][s] = 0
  /\ ~PipeOpen(c, s)
  /\ out' = [out EXCEPT ![c][s] = "ok"]
  /\ UNCHANGED <<listenVars, taskVars, stdin, toolVars, wireVars, clientVars>>

OutputWrites(c, s) ==
  /\ out[c][s] = "writing"
  /\ WriteFrame(c, s)
  /\ out' = [out EXCEPT ![c][s] = "reading"]
  /\ UNCHANGED <<listenVars, taskVars, stdin, toolVars, toServer, exit, clientVars>>

OutputFails(c, s) ==
  /\ out[c][s] = "writing"
  /\ ~connected[c]
  /\ out' = [out EXCEPT ![c][s] = "err"]
  /\ UNCHANGED <<listenVars, taskVars, stdin, toolVars, wireVars, clientVars>>

-----------------------------------------------------------------------------
(* ToolProxy::shutdown *)

(* stop: the flag, then notify_waiters, which reaches who is in a select!. *)
Stop ==
  /\ shut = "serving"
  /\ shut' = "flagged"
  /\ UNCHANGED <<listener, connections, taken, taskVars, connVars>>

NotifyWaiters ==
  /\ shut = "flagged"
  /\ shut' = "stopping"
  /\ heard' = {c \in Conns : pc[c] \in {"open", "select"}}
  /\ UNCHANGED <<listener, connections, taken, pc, connVars>>

(* A slip: the listener is left alone. *)
JoinListenerSkipped ==
  /\ shut = "stopping"
  /\ shut' = "joining"
  /\ taken' = connections
  /\ connections' = {}
  /\ UNCHANGED <<listener, taskVars, connVars>>

(* The accept loop, notified or not, is aborted where it awaits and is     *)
(* awaited. Then nobody adds a connection, and shutdown_connections takes  *)
(* the JoinSet.                                                            *)
JoinListener ==
  /\ shut = "stopping"
  /\ listener \in {"select", "adding", "end"}
  /\ shut' = "joining"
  /\ listener' = "end"
  /\ pc' = Refused({"hand"})
  /\ taken' = connections
  /\ connections' = {}
  /\ UNCHANGED <<heard, connVars>>

JoinNext(c) ==
  /\ shut \in {"joining", "aborting"}
  /\ c \in taken
  /\ Ended(c)
  /\ taken' = taken \ {c}
  /\ UNCHANGED <<listener, shut, connections, taskVars, connVars>>

(* A slip: the connections are joined for as long as it takes. *)
DeadlineNever == FALSE /\ UNCHANGED vars

(* Two seconds have passed: abort_all. *)
Deadline ==
  /\ shut = "joining"
  /\ taken # {}
  /\ shut' = "aborting"
  /\ UNCHANGED <<listener, connections, taken, taskVars, connVars>>

(* The places where a connection's task awaits, and can be aborted. *)
Awaits == {"spawned", "open", "fail", "failed", "select", "report", "reaping",
           "reapStopped", "drain", "exit"}

(* A slip: the tool is started without kill_on_drop. *)
AbortLeavesTool(c) ==
  /\ shut = "aborting"
  /\ c \in taken
  /\ pc[c] \in Awaits
  /\ Goto(c, "aborted")
  /\ TaskOnly

(* Dropping the task drops the Child: kill_on_drop signals the tool, but   *)
(* not its group. The forwarding tasks are detached.                       *)
AbortConnection(c) ==
  /\ shut = "aborting"
  /\ c \in taken
  /\ pc[c] \in Awaits
  /\ Goto(c, "aborted")
  /\ leader' = [leader EXCEPT ![c] = IF @ = "running" THEN "killed" ELSE @]
  /\ UNCHANGED <<listenVars, forwardVars, desc, held, pipe, wireVars, clientVars>>

RemoveSocket ==
  /\ shut \in {"joining", "aborting"}
  /\ taken = {}
  /\ shut' = "stopped"
  /\ UNCHANGED <<listener, connections, taken, taskVars, connVars>>

-----------------------------------------------------------------------------
(* The tool: external *)

ToolWrites(c, s) ==
  /\ PipeOpen(c, s)
  /\ pipe[c][s] = 0
  /\ pipe' = [pipe EXCEPT ![c][s] = 1]
  /\ UNCHANGED <<listenVars, taskVars, forwardVars, leader, desc, held, wireVars, clientVars>>

ToolCloses(c, fd) ==
  /\ PipeOpen(c, fd)
  /\ held' = [held EXCEPT ![c] = @ \ {fd}]
  /\ UNCHANGED <<listenVars, taskVars, forwardVars, leader, desc, pipe, wireVars, clientVars>>

ToolForks(c) ==
  /\ leader[c] = "running"
  /\ desc[c] = "none"
  /\ \E d \in {"group", "detached"} : desc' = [desc EXCEPT ![c] = d]
  /\ UNCHANGED <<listenVars, taskVars, forwardVars, leader, held, pipe, wireVars, clientVars>>

ToolExits(c) ==
  /\ leader[c] = "running"
  /\ leader' = [leader EXCEPT ![c] = "exited"]
  /\ UNCHANGED <<listenVars, taskVars, forwardVars, desc, held, pipe, wireVars, clientVars>>

DescendantsEnd(c) ==
  /\ desc[c] # "none"
  /\ desc' = [desc EXCEPT ![c] = "none"]
  /\ UNCHANGED <<listenVars, taskVars, forwardVars, leader, held, pipe, wireVars, clientVars>>

-----------------------------------------------------------------------------
(* The client *)

(* Closing discards what has not been read. *)
Close(c) ==
  /\ input' = [input EXCEPT ![c] = FALSE]
  /\ connected' = [connected EXCEPT ![c] = FALSE]
  /\ toClient' = [toClient EXCEPT ![c] = <<>>]
Leave(c, code) ==
  /\ client' = [client EXCEPT ![c] = "done"]
  /\ result' = [result EXCEPT ![c] = IF client[c] = "rogue" THEN None ELSE code]
  /\ Close(c)

ClientSends(c, f) ==
  /\ connected[c]
  /\ ~ServerClosed(c)
  /\ Len(toServer[c]) < Buf
  /\ toServer' = [toServer EXCEPT ![c] = Append(@, f)]

Dial(c) ==
  /\ client[c] = "idle"
  /\ listener # "end"
  /\ client' = [client EXCEPT ![c] = "opening"]
  /\ connected' = [connected EXCEPT ![c] = TRUE]
  /\ pc' = [pc EXCEPT ![c] = "queued"]
  /\ UNCHANGED <<listenVars, heard, forwardVars, toolVars, wireVars, input, result>>

SendOpen(c) ==
  /\ client[c] = "opening"
  /\ ClientSends(c, "open")
  /\ client' = [client EXCEPT ![c] = "receiving"]
  /\ input' = [input EXCEPT ![c] = TRUE]
  /\ UNCHANGED <<listenVars, taskVars, forwardVars, toolVars, toClient, exit, connected, result>>

(* forwardInput: a chunk, or the end of the input. A chunk that cannot be  *)
(* sent closes the connection, the end does not.                           *)
ForwardInput(c) ==
  /\ input[c]
  /\ ClientSends(c, "stdin")
  /\ UNCHANGED <<listenVars, taskVars, forwardVars, toolVars, toClient, exit, clientVars>>

InputBroken(c) ==
  /\ input[c]
  /\ ServerClosed(c)
  /\ Close(c)
  /\ UNCHANGED <<listenVars, taskVars, forwardVars, toolVars, toServer, exit, client, result>>

InputEof(c) ==
  /\ input[c]
  /\ ClientSends(c, "eof")
  /\ input' = [input EXCEPT ![c] = FALSE]
  /\ UNCHANGED <<listenVars, taskVars, forwardVars, toolVars, toClient, exit, client, connected, result>>

InputEofUnsent(c) ==
  /\ input[c]
  /\ ServerClosed(c)
  /\ input' = [input EXCEPT ![c] = FALSE]
  /\ UNCHANGED <<listenVars, taskVars, forwardVars, toolVars, wireVars, client, connected, result>>

(* receiveOutput *)
ReceiveFrame(c) ==
  /\ client[c] \in {"receiving", "rogue"}
  /\ toClient[c] # <<>>
  /\ Head(toClient[c]) \notin Codes
  /\ toClient' = [toClient EXCEPT ![c] = Tail(@)]
  /\ UNCHANGED <<listenVars, taskVars, forwardVars, toolVars, toServer, exit, clientVars>>

ReceiveExit(c) ==
  /\ client[c] \in {"receiving", "rogue"}
  /\ toClient[c] # <<>>
  /\ Head(toClient[c]) \in Codes
  /\ Leave(c, Head(toClient[c]))
  /\ UNCHANGED <<listenVars, taskVars, forwardVars, toolVars, toServer, exit>>

(* Nobody listens, the request cannot be sent, or the server closed before *)
(* its EXIT frame.                                                         *)
LocalFailure(c) ==
  /\ \/ client[c] = "idle" /\ listener = "end"
     \/ client[c] = "opening" /\ ServerClosed(c)
     \/ /\ client[c] \in {"receiving", "rogue"}
        /\ ~connected[c] \/ (toClient[c] = <<>> /\ ~WriterHeld(c))
  /\ Leave(c, "localFailure")
  /\ UNCHANGED <<listenVars, taskVars, forwardVars, toolVars, toServer, exit>>

(* The client is killed, or its own standard streams fail. *)
ClientFails(c) ==
  /\ client[c] \in {"opening", "receiving", "rogue"}
  /\ Leave(c, None)
  /\ UNCHANGED <<listenVars, taskVars, forwardVars, toolVars, toServer, exit>>

(* Another program speaks the protocol, and breaks it. *)
ClientMisbehaves(c) ==
  /\ client[c] \in {"opening", "receiving"}
  /\ ClientSends(c, "junk")
  /\ client' = [client EXCEPT ![c] = "rogue"]
  /\ input' = [input EXCEPT ![c] = FALSE]
  /\ UNCHANGED <<listenVars, taskVars, forwardVars, toolVars, toClient, exit, connected, result>>

-----------------------------------------------------------------------------

(* ToolProxy::start has bound the socket and spawned the accept loop. *)
Init ==
  /\ listener = "select" /\ shut = "serving"
  /\ connections = {} /\ taken = {} /\ heard = {}
  /\ pc = [c \in Conns |-> "none"]
  /\ stdin = [c \in Conns |-> "off"]
  /\ out = [c \in Conns |-> [s \in Streams |-> "off"]]
  /\ leader = [c \in Conns |-> "none"]
  /\ desc = [c \in Conns |-> "none"]
  /\ held = [c \in Conns |-> {}]
  /\ pipe = [c \in Conns |-> [s \in Streams |-> 0]]
  /\ toServer = [c \in Conns |-> <<>>]
  /\ toClient = [c \in Conns |-> <<>>]
  /\ exit = [c \in Conns |-> None]
  /\ client = [c \in Conns |-> "idle"]
  /\ input = [c \in Conns |-> FALSE]
  /\ connected = [c \in Conns |-> FALSE]
  /\ result = [c \in Conns |-> None]

AcceptLoop ==
  \/ AcceptFails \/ AcceptStops \/ AcceptRecheck \/ AcceptTick
  \/ \E c \in Conns : Accept(c) \/ AddConnection(c)

Shutdown ==
  \/ NotifyWaiters \/ JoinListener \/ Deadline \/ RemoveSocket
  \/ \E c \in Conns : JoinNext(c)

HandleConnection(c) ==
  \/ FirstPoll(c) \/ OpenFails(c) \/ OpenStarts(c) \/ OpenLost(c) \/ OpenStopped(c)
  \/ SendError(c) \/ SendStartFailure(c) \/ ReplyUnsent(c)
  \/ StopStarted(c) \/ StoppedReaped(c) \/ StartForwarding(c)
  \/ StillRunning(c) \/ SelectTick(c) \/ ReportStdin(c) \/ ReportUnsent(c)
  \/ Reaped(c) \/ Drained(c) \/ SendExit(c)
  \/ \E s \in Streams : DrainFails(c, s)
Selected(c) ==
  \/ SelectStdinEnd(c) \/ SelectStdinFails(c) \/ SelectShutdown(c)
  \/ \E s \in Streams : SelectOutputEnd(c, s) \/ SelectOutputFails(c, s)
ForwardStdin(c) ==
  StdinChunk(c) \/ StdinEof(c) \/ StdinJunk(c) \/ StdinLost(c) \/ StdinBroken(c)
ForwardOutput(c, s) ==
  OutputReads(c, s) \/ OutputEof(c, s) \/ OutputWrites(c, s) \/ OutputFails(c, s)

Tool(c) ==
  \/ StdinTaken(c) \/ ToolForks(c) \/ ToolExits(c) \/ DescendantsEnd(c)
  \/ \E s \in Streams : ToolWrites(c, s)
  \/ \E fd \in Streams \cup {"stdin"} : ToolCloses(c, fd)
Receive(c) ==
  SendOpen(c) \/ ReceiveFrame(c) \/ ReceiveExit(c) \/ LocalFailure(c)
Client(c) ==
  \/ Dial(c) \/ Receive(c)
  \/ ForwardInput(c) \/ InputBroken(c) \/ InputEof(c) \/ InputEofUnsent(c)
  \/ ClientFails(c) \/ ClientMisbehaves(c)

Next ==
  \/ AcceptLoop \/ Shutdown \/ Stop
  \/ \E c \in Conns :
       \/ HandleConnection(c) \/ Selected(c) \/ AbortConnection(c)
       \/ ForwardStdin(c) \/ \E s \in Streams : ForwardOutput(c, s)
       \/ Tool(c) \/ Client(c)

Spec == Init /\ [][Next]_vars

(* The tasks of the server run, its timers expire, a branch of select!     *)
(* that is ready is taken, and a task that is aborted gets to an await.    *)
(* Nothing is assumed of the tools and of the clients.                     *)
FairSpec ==
  /\ Spec
  /\ WF_vars(AcceptLoop) /\ WF_vars(Shutdown)
  /\ \A c \in Conns :
       /\ WF_vars(HandleConnection(c)) /\ SF_vars(Selected(c) \/ AbortConnection(c))
       /\ WF_vars(ForwardStdin(c))
       /\ \A s \in Streams : WF_vars(ForwardOutput(c, s))

-----------------------------------------------------------------------------
(* Properties *)

Listening == {"select", "got", "adding", "end"}
Stages == {"serving", "flagged", "stopping", "joining", "aborting", "stopped"}
Places == Unsplit \cup Awaits \cup {"none", "loop", "done", "aborted", "refused"}

(* The values each variable takes. *)
TypeOK ==
  /\ listener \in Listening
  /\ shut \in Stages
  /\ connections \in SUBSET Conns
  /\ taken \in SUBSET Conns
  /\ heard \in SUBSET Conns
  /\ pc \in [Conns -> Places]
  /\ stdin \in [Conns -> {"off", "reading", "writing", "ok", "err"}]
  /\ out \in [Conns -> [Streams -> {"off", "reading", "writing", "ok", "err", "joined", "failed"}]]
  /\ leader \in [Conns -> {"none", "running", "exited", "killed"}]
  /\ desc \in [Conns -> {"none", "group", "detached"}]
  /\ held \in [Conns -> SUBSET (Streams \cup {"stdin"})]
  /\ pipe \in [Conns -> [Streams -> Nat]]
  /\ toServer \in [Conns -> Seq(Requests)]
  /\ toClient \in [Conns -> Seq(Replies)]
  /\ exit \in [Conns -> Codes \cup {None}]
  /\ client \in [Conns -> {"idle", "opening", "receiving", "rogue", "done"}]
  /\ input \in [Conns -> BOOLEAN]
  /\ connected \in [Conns -> BOOLEAN]
  /\ result \in [Conns -> Codes \cup {None, "localFailure"}]

(* EXIT is the last frame of a connection, and when it is sent nothing of  *)
(* the tool's output is left in a pipe or in the hands of a forwarding     *)
(* task (handle_connection awaits both outputs first).                     *)
ExitEndsOutput ==
  \A c \in Conns : exit[c] # None =>
    /\ toClient[c] # <<>> => toClient[c][Len(toClient[c])] = exit[c]
    /\ exit[c] # "startFailure" =>
         \A s \in Streams : pipe[c][s] = 0 /\ ~PipeOpen(c, s) /\ out[c][s] \in {"ok", "joined"}

(* The proxy kills a tool only when it is being shut down, when the client *)
(* left or broke the protocol, or when the tool gave up its standard input *)
(* while the client was still sending.                                     *)
KillExplained ==
  \A c \in Conns :
    leader[c] = "killed" =>
      Stopping \/ ~connected[c] \/ client[c] = "rogue" \/ "stdin" \notin held[c]

(* After shutdown has returned no connection task is left, and no tool     *)
(* that was not told to end: whatever was accepted while it was stopping,  *)
(* and whoever missed the notification.                                    *)
NoToolSurvives ==
  shut = "stopped" =>
    \A c \in Conns : leader[c] # "running" /\ (pc[c] # "none" => Ended(c))

(* Before its tool is started a connection has nothing else, and before    *)
(* the outputs are forwarded they are not read.                            *)
Early == {"none", "queued", "hand", "spawned", "open", "fail", "failed", "refused"}
EarlyIsBare ==
  \A c \in Conns :
    /\ pc[c] \in Early => leader[c] = "none" /\ desc[c] = "none"
    /\ pc[c] \in Early \cup {"started"} =>
         stdin[c] = "off" /\ \A s \in Streams : out[c][s] = "off"

(* Somebody waits for every running tool. *)
RunningIsWatched ==
  \A c \in Conns :
    leader[c] = "running" => pc[c] \in {"started", "loop", "select", "report"}

(* How forwarding an output ends, and what EXIT waits for. *)
OutputEnds ==
  \A c \in Conns : \A s \in Streams :
    /\ out[c][s] \in {"ok", "joined"} => pipe[c][s] = 0 /\ ~PipeOpen(c, s)
    /\ out[c][s] \in {"err", "failed"} => ~connected[c]
    /\ pc[c] = "exit" => out[c][s] \in {"ok", "joined", "failed"}
ExitIsSentLast ==
  \A c \in Conns :
    /\ exit[c] # None => pc[c] = "done"
    /\ exit[c] = "startFailure" => \A s \in Streams : out[c][s] = "off"

(* Who is connected, who sends junk, and what makes forward_stdin fail. *)
ClientSide ==
  \A c \in Conns :
    /\ client[c] = "idle" => pc[c] = "none"
    /\ client[c] \in {"idle", "done"} => ~connected[c]
    /\ \A i \in 1..Len(toServer[c]) :
         toServer[c][i] = "junk" => client[c] \in {"rogue", "done"}
    /\ stdin[c] = "err" \/ pc[c] = "report" =>
         \/ ~connected[c] \/ client[c] = "rogue"
         \/ "stdin" \notin held[c] \/ leader[c] # "running"

(* Every connection task is in the JoinSet of the server or of shutdown.   *)
Tracked ==
  /\ listener \notin {"got", "adding"} => \A c \in Conns : pc[c] # "hand"
  /\ listener = "end" => \A c \in Conns : pc[c] # "queued"
  /\ \A c, d \in Conns : pc[c] = "hand" /\ pc[d] = "hand" => c = d
  /\ shut \in {"joining", "aborting", "stopped"} => listener = "end"
  /\ \A c \in Conns :
       pc[c] \notin {"none", "queued", "hand"} /\ ~Ended(c) =>
         IF shut \in {"serving", "flagged", "stopping"} THEN c \in connections
         ELSE c \in taken
  /\ shut = "stopped" => taken = {}
  /\ heard # {} => Stopping

Inv ==
  /\ TypeOK
  /\ EarlyIsBare /\ RunningIsWatched /\ OutputEnds /\ ExitIsSentLast
  /\ ClientSide /\ Tracked
  /\ ExitEndsOutput /\ KillExplained /\ NoToolSurvives

(* shutdown returns, whatever tools and clients do: a connection that      *)
(* missed the notification, waits for a client that does not read or for   *)
(* an output that a descendant holds open is aborted at the deadline.      *)
ShutdownReturns == Stopping ~> shut = "stopped"

(* A client that leaves while the server reads from it takes its tool with *)
(* it.                                                                     *)
LeavingNoticed ==
  \A c \in Conns :
    (stdin[c] = "reading" /\ toServer[c] = <<>> /\ ~connected[c]) ~> leader[c] # "running"

(* If tools and their descendants end and clients read what they are sent, *)
(* every client gets to an end: no forwarding task, no client and no       *)
(* connection task waits for another for ever.                             *)
ClientFinishes ==
  (\A c \in Conns :
     WF_vars(ToolExits(c)) /\ WF_vars(DescendantsEnd(c)) /\ WF_vars(Receive(c)))
  => \A c \in Conns : client[c] = "receiving" ~> client[c] = "done"
=============================================================================
