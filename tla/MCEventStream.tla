--------------------------- MODULE MCEventStream ---------------------------
(* EventStream on small instances. *)
EXTENDS EventStream

(* The requests are interchangeable; not used where liveness is checked. *)
Symmetry == Permutations(Subs)
=============================================================================
