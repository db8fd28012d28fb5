----------------------------- MODULE MCWorkspace -----------------------------
(* Workspace on a small instance: a directory and a file in it. *)
EXTENDS Workspace

SmallNames == {"d", "f"}
Dir == <<"d">>
File == <<"d", "f">>
SmallPaths == {<<>>, Dir, File}

Root == <<>> :> "dir"
SmallTrees ==
  {Root, Root @@ (Dir :> "dir"), Root @@ (Dir :> "old"),
   Root @@ (Dir :> "dir") @@ (File :> "old"), Root @@ (Dir :> Special),
   Root @@ (Dir :> "dir") @@ (File :> Special)}

(* Requests are interchangeable. *)
Symmetry == Permutations(Requests)
=============================================================================
