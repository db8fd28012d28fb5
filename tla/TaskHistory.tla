---------------------------- MODULE TaskHistory ----------------------------
(***************************************************************************)
(* What the task store promises about the event log of a task, whatever    *)
(* the runner, its readers, the cleanup loop and the HTTP handlers do:     *)
(* the log opens with `started`, it grows at its end only and only while   *)
(* the task is stored, and nothing follows its terminal event.             *)
(* TaskExecution implements this specification, and EventStream composes   *)
(* it with the subscribers of a log.                                       *)
(***************************************************************************)
EXTENDS Naturals, Sequences

CONSTANTS Tasks,       \* task ids (Uuid::new_v4: never reused)
          ExitCodes,   \* the exit codes a child can report
          None         \* Option::None (no exit code, no requested timeout)

VARIABLES stored,      \* ids present in TaskStore::inner
          history      \* the log of each task; unreadable once out of `stored`

hvars == <<stored, history>>

(* events.rs: an event is its name and the exit code `finished` carries.   *)
Event(n) == [name |-> n, code |-> None]
Finished(c) == [name |-> "finished", code |-> c]
OutputNames == {"stdout", "stderr"}
Events == {Event(n) : n \in {"started", "timed_out", "failed"} \cup OutputNames}
            \cup {Finished(c) : c \in ExitCodes \cup {None}}

(* api/exec.rs is_terminal *)
IsTerminal(e) == e.name \in {"finished", "timed_out", "failed"}

(* The log already holds its terminal event. *)
Ended(log) == \E i \in DOMAIN log : IsTerminal(log[i])

-----------------------------------------------------------------------------

HistoryInit ==
  /\ stored = {}
  /\ history = [t \in Tasks |-> <<>>]

Insert(t) ==
  /\ t \notin stored
  /\ history[t] = <<>>
  /\ stored' = stored \cup {t}
  /\ UNCHANGED history

Append1(t, e) ==
  /\ t \in stored
  /\ ~Ended(history[t])
  /\ (e.name = "started") <=> (history[t] = <<>>)
  /\ history' = [history EXCEPT ![t] = Append(@, e)]
  /\ UNCHANGED stored

Expire(S) ==
  /\ stored' = stored \ S
  /\ UNCHANGED history

HistoryNext ==
  \/ \E t \in Tasks : Insert(t)
  \/ \E t \in Tasks, e \in Events : Append1(t, e)
  \/ \E S \in SUBSET Tasks : Expire(S)

HistorySpec == HistoryInit /\ [][HistoryNext]_hvars

(* What the readers of a log rely on: `started` comes first and only       *)
(* there, and only the last event is terminal (run_task, publish).         *)
WellFormedLog(log) ==
  \A i \in DOMAIN log : /\ log[i].name = "started" <=> i = 1
                        /\ IsTerminal(log[i]) => i = Len(log)
=============================================================================
