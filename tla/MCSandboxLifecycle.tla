------------------------- MODULE MCSandboxLifecycle -------------------------
(* SandboxLifecycle on small instances. *)
EXTENDS SandboxLifecycle

(* Every network mode, with and without tools: a process may be restarted  *)
(* with another configuration than the one that left the host as it is.    *)
AllConfigs == [mode : {"nat", "none", "host"}, tools : BOOLEAN]
=============================================================================
