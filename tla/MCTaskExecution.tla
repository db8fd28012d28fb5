-------------------------- MODULE MCTaskExecution --------------------------
(* TaskExecution on small instances. *)
EXTENDS TaskExecution

(* Requests without timeout_seconds get the default, which the maximum     *)
(* cuts off; timeout_seconds = 0 elapses at once.                          *)
Requests == {None, 0}
NoTimeoutAsked == {None}
=============================================================================
