------------------------------ MODULE MCSysroot ------------------------------
(* Sysroot on a small instance. *)
EXTENDS Sysroot

SmallNames == {"etc", "passwd", "motd", "proc", "workspace", "data"}
Etc == <<"etc">>
Passwd == <<"etc", "passwd">>
Motd == <<"etc", "motd">>
SmallSystemMounts == {<<"proc">>}
SmallWorkspace == <<"workspace">>
SmallExtraMounts == {<<"etc", "data">>}

File(p) == [kind |-> "file", path |-> p]
Whiteout(p) == [kind |-> "whiteout", path |-> p]
Opaque(p) == [kind |-> "opaque", path |-> p]

(* A second layer that removes a directory, one that makes it opaque and   *)
(* fills it again, one that does so in the wrong order.                    *)
Base == <<File(Passwd), File(Motd)>>
SmallImages ==
  {<<Base, <<Whiteout(Etc)>>>>, <<Base, <<Opaque(Etc), File(Motd)>>>>,
   <<Base, <<File(Motd), Opaque(Etc)>>>>}

(* By hand: trees with several owners, partly shifted; the root of one is  *)
(* owned by the last id of a container.                                    *)
Tree(r, e, f) == (<<>> :> r) @@ (Etc :> e) @@ (Passwd :> f)
SmallProvisioned == {Tree(0, 1, 3), Tree(1, 0, 5)}

(* Commands are interchangeable. *)
Symmetry == Permutations(Procs)

Feature(c, u) == [cgroups |-> c, user_namespace |-> u]
SmallFeatures ==
  {Feature("required", "enabled"), Feature("auto", "disabled")}
=============================================================================
