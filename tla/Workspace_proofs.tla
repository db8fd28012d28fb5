-------------------------- MODULE Workspace_proofs --------------------------
(***************************************************************************)
(* Proofs about Workspace, for any number of requests and any workspace    *)
(* of two levels, with every interleaving of the handlers' calls.          *)
(***************************************************************************)
EXTENDS Workspace, SequenceTheorems, TLAPS

Reading == {"read", "list", "stat"}
Deleting == {"unlink", "opendir", "empty"}
Writing == {"ancestor", "canonical", "check", "mkdir", "chmod", "create",
            "write", "rename", "cleanup"}
Locations ==
  {"new", "resolve", "metadata", "answered", "dropped"} \cup
    Reading \cup Deleting \cup Writing

TypeOK ==
  /\ IsTree(tree)
  /\ inode \in [Paths -> Nat]
  /\ temp \in [Requests -> Paths \cup {Nothing}]
  /\ written \in [Requests -> BOOLEAN]
  /\ op \in [Requests -> {"get", "put", "delete"}]
  /\ path \in [Requests -> Paths]
  /\ pc \in [Requests -> Locations]
  /\ names \in [Requests -> SUBSET (Paths \cup Requests)]
  /\ opened \in [Requests -> Nat]
  /\ answer \in [Requests -> {0, 200, 204, 400, 404, 409, 500}]
  /\ DOMAIN got = Requests /\ DOMAIN seen = Requests
  /\ applied \in [Requests -> BOOLEAN]
  /\ alone \in [Requests -> BOOLEAN]

(* A handler is only where its method takes it. *)
Stages(r) ==
  /\ pc[r] \in Reading => op[r] = "get"
  /\ pc[r] \in Deleting => op[r] = "delete"
  /\ pc[r] \in Writing => op[r] = "put"
  /\ pc[r] = "metadata" => op[r] # "put"
  /\ op[r] = "put" => path[r] # <<>>
  /\ op[r] = "delete" /\ path[r] = <<>> =>
       pc[r] \in {"new", "resolve", "answered", "dropped"}

(* A request that is under way has seen what its path holds now. *)
Sees(r) == Active(r) => Find(path[r]) \in seen[r]

(* A temporary file lies beside its target, in a directory that exists. *)
TempOf(r) ==
  /\ temp[r] # Nothing =>
       /\ op[r] = "put" /\ temp[r] = Front(path[r])
       /\ temp[r] \in DOMAIN tree /\ tree[temp[r]] = "dir"
       /\ pc[r] \in {"write", "rename", "cleanup", "dropped"}
  /\ pc[r] = "rename" => written[r]

(* What remove_dir_all has listed are files and temporary files. *)
Emptying(r) ==
  pc[r] = "empty" =>
    /\ Len(path[r]) = 1
    /\ \A e \in names[r] : e \notin Requests => Len(e) = 2

Answered(r) ==
  /\ answer[r] = 404 => Absent \in seen[r]
  /\ op[r] = "delete" /\ answer[r] = 204 => Absent \in seen[r]
  /\ op[r] = "put" /\ answer[r] = 409 => "dir" \in seen[r]
  /\ op[r] = "get" /\ answer[r] = 409 => Special \in seen[r]
  /\ op[r] = "put" /\ answer[r] = 204 => applied[r]
  /\ alone[r] =>
       \E held \in seen[r] : answer[r] = Answers(op[r], path[r], held)

Outcome(r) ==
  /\ pc[r] = "new" => got[r] = Nothing
  /\ got[r] # Nothing =>
       got[r] \in seen[r] \ {Partial, Special, "dir", "notdir", Absent}
  /\ applied[r] => pc[r] = "answered" /\ answer[r] = 204 /\ r \in seen[r]
  /\ pc[r] = "answered" => Answered(r)

(* What a handler that met no other request has found so far still holds. *)
Holds(r) ==
  /\ pc[r] = "metadata" => Find(path[r]) \notin {Absent, "notdir"}
  /\ pc[r] = "read" => IsRegular(path[r])
  /\ pc[r] = "unlink" => IsFile(path[r])
  /\ pc[r] \in {"list", "stat", "opendir", "empty"} => Find(path[r]) = "dir"
  /\ pc[r] = "stat" => names[r] \subseteq Entries(path[r])
  /\ pc[r] = "empty" =>
       opened[r] = inode[path[r]] /\ Entries(path[r]) \subseteq names[r]
  /\ pc[r] \in {"ancestor", "canonical"} => Find(path[r]) = Absent
  /\ pc[r] = "canonical" => SubSeq(path[r], 1, opened[r]) \in DOMAIN tree
  /\ pc[r] = "check" => Find(path[r]) # "notdir"
  /\ pc[r] \in {"mkdir", "chmod", "create", "write", "rename"} =>
       Find(path[r]) \notin {"dir", "notdir"}
  /\ pc[r] \in {"chmod", "create"} => Find(Front(path[r])) = "dir"
  /\ pc[r] \in {"write", "rename"} => temp[r] # Nothing
  /\ pc[r] # "cleanup"
Undisturbed(r) ==
  alone[r] /\ Active(r) =>
    /\ \A s \in Requests \ {r} : ~Active(s)
    /\ Holds(r)

Sound(r) ==
  /\ Stages(r) /\ Sees(r) /\ TempOf(r)
  /\ Emptying(r) /\ Outcome(r) /\ Undisturbed(r)

Inv == TypeOK /\ \A r \in Requests : Sound(r)

-----------------------------------------------------------------------------
(* Paths of two levels. *)

LEMMA PathFacts ==
  ASSUME NEW p \in Paths
  PROVE  /\ p \in Seq(Names)
         /\ Len(p) \in {0, 1, 2}
         /\ Len(p) = 0 <=> p = <<>>
         /\ p # <<>> => Front(p) \in Paths /\ Len(Front(p)) = Len(p) - 1
         /\ Len(p) = 1 => Front(p) = <<>>
<1>1. \/ p = <<>>
      \/ \E a \in Names : p = <<a>>
      \/ \E a \in Names, b \in Names : p = <<a, b>>
  BY PathsAssumption
<1>2. p \in Seq(Names) /\ Len(p) \in {0, 1, 2} /\ (Len(p) = 0 <=> p = <<>>)
  <2>1. CASE p = <<>>
    BY <2>1
  <2>2. ASSUME NEW a \in Names, p = <<a>> PROVE p \in Seq(Names) /\ Len(p) = 1
    BY <2>2
  <2>3. ASSUME NEW a \in Names, NEW b \in Names, p = <<a, b>>
        PROVE  p \in Seq(Names) /\ Len(p) = 2
    BY <2>3
  <2>4. Len(<<>>) = 0
    OBVIOUS
  <2>5. QED
    BY <1>1, <2>1, <2>2, <2>3, <2>4
<1>3. p # <<>> => Front(p) \in Paths
  BY PathsAssumption
<1>4. p # <<>> => Len(Front(p)) = Len(p) - 1 /\ Front(p) \in Seq(Names)
  <2>1. HAVE p # <<>>
  <2>2. Len(p) - 1 \in 0 .. Len(p) /\ 1 \in 1 .. Len(p) + 1
    BY <1>2, <2>1
  <2>3. QED
    BY <1>2, <2>2, SubSeqProperties DEF Front
<1>5. Len(p) = 1 => Front(p) = <<>>
  BY <1>2, <1>4
<1>6. QED
  BY <1>2, <1>3, <1>4, <1>5

LEMMA PrefixPoints ==
  ASSUME NEW s \in Paths, NEW t \in Paths
  PROVE  IsPrefix(s, t) <=> /\ Len(s) <= Len(t)
                            /\ \A i \in 1 .. Len(s) : s[i] = t[i]
<1>1. Len(s) \in Nat /\ Len(t) \in Nat /\ s \in Seq(Names) /\ t \in Seq(Names)
  BY PathFacts
<1>2. CASE Len(s) <= Len(t)
  <2>1. SubSeq(s, 1, Len(s)) = s
    BY <1>1, SubSeqFull
  <2>2. /\ SubSeq(t, 1, Len(s)) \in Seq(Names)
        /\ Len(SubSeq(t, 1, Len(s))) = Len(s)
        /\ \A i \in 1 .. Len(s) : SubSeq(t, 1, Len(s))[i] = t[i]
    BY <1>1, <1>2, SubSeqProperties
  <2>3. (s = SubSeq(t, 1, Len(s))) <=> \A i \in 1 .. Len(s) : s[i] = t[i]
    BY <1>1, <2>2, SeqEqual
  <2>4. QED
    BY <1>2, <2>1, <2>3 DEF IsPrefix
<1>3. QED
  BY <1>2 DEF IsPrefix

(* The prefixes of a path are the root, itself and its parent. *)
LEMMA PrefixCases ==
  ASSUME NEW p \in Paths, NEW q \in Paths
  PROVE  IsPrefix(p, q) <=> p = <<>> \/ p = q \/ (q # <<>> /\ p = Front(q))
<1>1. /\ p \in Seq(Names) /\ Len(p) \in {0, 1, 2} /\ (Len(p) = 0 <=> p = <<>>)
      /\ q \in Seq(Names) /\ Len(q) \in {0, 1, 2} /\ (Len(q) = 0 <=> q = <<>>)
      /\ Len(q) = 1 => Front(q) = <<>>
  BY PathFacts
<1>2. p = <<>> => IsPrefix(p, q)
  BY <1>1, PrefixPoints
<1>3. p = q => IsPrefix(p, q)
  BY <1>1, PrefixPoints
<1>4. Len(q) = 2 => /\ Front(q) \in Seq(Names) /\ Len(Front(q)) = 1
                    /\ Front(q)[1] = q[1]
  BY <1>1, SubSeqProperties DEF Front
<1>5. Len(q) = 2 /\ p = Front(q) => IsPrefix(p, q)
  BY <1>1, <1>4, PrefixPoints
<1>6. Len(q) = 2 /\ Len(p) = 1 /\ p[1] = q[1] => p = Front(q)
  BY <1>1, <1>4, SeqEqual
<1>7. Len(p) = Len(q) /\ IsPrefix(p, q) => p = q
  BY <1>1, PrefixPoints, SeqEqual
<1>8. Len(p) = 1 /\ Len(q) = 2 /\ IsPrefix(p, q) => p[1] = q[1]
  BY <1>1, PrefixPoints
<1>9. IsPrefix(p, q) => Len(p) <= Len(q)
  BY PrefixPoints
<1>10. IsPrefix(p, q) => p = <<>> \/ p = q \/ (q # <<>> /\ p = Front(q))
  BY <1>1, <1>6, <1>7, <1>8, <1>9
<1>11. q # <<>> /\ p = Front(q) => IsPrefix(p, q)
  BY <1>1, <1>2, <1>5
<1>12. QED
  BY <1>2, <1>3, <1>10, <1>11

-----------------------------------------------------------------------------
(* Trees. *)

LEMMA InTree ==
  ASSUME NEW t, IsTree(t), NEW p \in DOMAIN t
  PROVE  /\ p \in Paths
         /\ t[p] \notin {"notdir", Absent, Partial}
         /\ t[p] = "dir" => Len(p) # 2
         /\ p # <<>> => Front(p) \in DOMAIN t /\ t[Front(p)] = "dir"
BY DEF IsTree

(* What a lookup finds depends on the path and its parent alone. *)
LEMMA Looked ==
  ASSUME NEW t, IsTree(t), NEW p \in Paths
  PROVE  /\ p \in DOMAIN t => Lookup(t, p) = t[p]
         /\ p \notin DOMAIN t =>
              /\ p # <<>>
              /\ Lookup(t, p) = IF Front(p) \in DOMAIN t /\ t[Front(p)] # "dir"
                                THEN "notdir" ELSE Absent
<1>1. <<>> \in DOMAIN t /\ t[<<>>] = "dir" /\ DOMAIN t \subseteq Paths
  BY DEF IsTree
<1>2. ASSUME p \notin DOMAIN t
      PROVE  (\E q \in DOMAIN t : IsStrictPrefix(q, p) /\ t[q] # "dir")
               <=> Front(p) \in DOMAIN t /\ t[Front(p)] # "dir"
  <2>1. p # <<>>
    BY <1>1, <1>2
  <2>2. ASSUME NEW q \in DOMAIN t
        PROVE  IsStrictPrefix(q, p) <=> q = <<>> \/ q = Front(p)
    <3>1. IsPrefix(q, p) <=> q = <<>> \/ q = p \/ q = Front(p)
      BY <1>1, <2>1, PrefixCases
    <3>2. q # p
      BY <1>2
    <3>3. QED
      BY <3>1, <3>2 DEF IsStrictPrefix
  <2>3. QED
    BY <1>1, <2>2
<1>3. p \notin DOMAIN t => p # <<>>
  BY <1>1
<1>4. QED
  BY <1>2, <1>3 DEF Lookup

(* Lookup of a path and of its parent. *)
LEMMA Kinds ==
  ASSUME NEW t, IsTree(t), NEW p \in Paths
  PROVE  /\ Lookup(t, p) = "dir" <=> p \in DOMAIN t /\ t[p] = "dir"
         /\ Lookup(t, p) \notin {"notdir", Absent} <=> p \in DOMAIN t
         /\ Lookup(t, p) = "dir" => Len(p) \in {0, 1}
         /\ Lookup(t, p) # Partial
         /\ p # <<>> /\ Lookup(t, p) # "notdir" =>
              Lookup(t, Front(p)) \in {"dir", Absent}
<1>1. CASE p \in DOMAIN t
  <2>1. /\ Lookup(t, p) = t[p] /\ t[p] \notin {"notdir", Absent, Partial}
        /\ t[p] = "dir" => Len(p) # 2
        /\ p # <<>> => Front(p) \in DOMAIN t /\ t[Front(p)] = "dir"
    BY <1>1, Looked, InTree
  <2>2. p # <<>> => Lookup(t, Front(p)) = "dir"
    BY <2>1, PathFacts, Looked
  <2>3. QED
    BY <1>1, <2>1, <2>2, PathFacts
<1>2. CASE p \notin DOMAIN t
  <2>1. /\ p # <<>>
        /\ Lookup(t, p) = IF Front(p) \in DOMAIN t /\ t[Front(p)] # "dir"
                          THEN "notdir" ELSE Absent
    BY <1>2, Looked
  <2>2. Front(p) \in Paths /\ Len(p) \in {1, 2} /\ Len(Front(p)) = Len(p) - 1
    BY <2>1, PathFacts
  <2>3. Front(p) \in DOMAIN t => Lookup(t, Front(p)) = t[Front(p)]
    BY <2>2, Looked
  <2>4. ASSUME Front(p) \notin DOMAIN t PROVE Lookup(t, Front(p)) = Absent
    <3>1. Front(p) # <<>>
      BY <2>4 DEF IsTree
    <3>2. Len(Front(p)) = 1
      BY <2>2, <3>1, PathFacts
    <3>3. Front(Front(p)) = <<>>
      BY <2>2, <3>2, PathFacts
    <3>4. <<>> \in DOMAIN t /\ t[<<>>] = "dir"
      BY DEF IsTree
    <3>5. QED
      BY <2>2, <2>4, <3>3, <3>4, Looked
  <2>5. Lookup(t, p) \in {"notdir", Absent}
    BY <2>1
  <2>6. p # <<>> /\ Lookup(t, p) # "notdir" =>
          Lookup(t, Front(p)) \in {"dir", Absent}
    BY <2>1, <2>3, <2>4
  <2>7. QED
    BY <1>2, <2>5, <2>6 DEF Absent, Partial
<1>3. QED
  BY <1>1, <1>2

(* Unlinking a path: the rest stays, and the path is then absent. *)
LEMMA Unlinked ==
  ASSUME IsTree(tree), NEW p \in DOMAIN tree, p # <<>>,
         tree[p] # "dir" \/ \A q \in DOMAIN tree : q # <<>> => Front(q) # p
  PROVE  /\ IsTree(Without(p))
         /\ DOMAIN Without(p) = DOMAIN tree \ {p}
         /\ \A q \in DOMAIN tree \ {p} : Without(p)[q] = tree[q]
         /\ Lookup(Without(p), p) = Absent
<1> DEFINE t == Without(p)
<1>1. p \in Paths /\ Front(p) \in DOMAIN tree /\ tree[Front(p)] = "dir"
  BY InTree
<1>2. ASSUME NEW q \in DOMAIN tree PROVE IsPrefix(p, q) <=> q = p
  <2>1. q \in Paths /\ (q # <<>> => tree[Front(q)] = "dir")
    BY InTree
  <2>2. IsPrefix(p, q) <=> p = q \/ (q # <<>> /\ p = Front(q))
    BY <1>1, <2>1, PrefixCases
  <2>3. q # <<>> => p # Front(q)
    BY <2>1
  <2>4. QED
    BY <2>2, <2>3
<1>3. DOMAIN t = DOMAIN tree \ {p} /\ \A q \in DOMAIN tree \ {p} : t[q] = tree[q]
  BY <1>2 DEF Without
<1>4. ASSUME NEW q \in DOMAIN t
      PROVE  /\ q \in Paths
             /\ t[q] \notin {"notdir", Absent, Partial}
             /\ Len(q) = 2 => t[q] # "dir"
             /\ q # <<>> => Front(q) \in DOMAIN t /\ t[Front(q)] = "dir"
  <2>1. /\ q \in Paths /\ tree[q] \notin {"notdir", Absent, Partial}
        /\ tree[q] = "dir" => Len(q) # 2
        /\ q # <<>> => Front(q) \in DOMAIN tree /\ tree[Front(q)] = "dir"
    BY <1>3, InTree
  <2>2. q # <<>> => Front(q) # p
    BY <1>3, <2>1
  <2>3. QED
    BY <1>3, <2>1, <2>2
<1>5. <<>> \in DOMAIN t /\ t[<<>>] = "dir"
  BY <1>3 DEF IsTree
<1>6. IsTree(t)
  BY <1>4, <1>5 DEF IsTree
<1>7. Front(p) # p
  BY <1>1, PathFacts
<1>8. Front(p) \in DOMAIN t /\ t[Front(p)] = "dir" /\ p \notin DOMAIN t
  BY <1>1, <1>3, <1>7
<1>9. Lookup(t, p) = Absent
  BY <1>1, <1>6, <1>8, Looked
<1>10. QED
  BY <1>3, <1>6, <1>9

(* Putting a file or a directory at a path whose parent is a directory. *)
LEMMA Put ==
  ASSUME IsTree(tree), NEW p \in Paths, p # <<>>, NEW what,
         Front(p) \in DOMAIN tree, tree[Front(p)] = "dir",
         what \notin {"notdir", Absent, Partial},
         what = "dir" => Len(p) = 1,
         Lookup(tree, p) # "dir"
  PROVE  /\ IsTree(With(p, what))
         /\ DOMAIN With(p, what) = DOMAIN tree \cup {p}
         /\ \A q \in DOMAIN tree \ {p} : With(p, what)[q] = tree[q]
         /\ Lookup(With(p, what), p) = what
<1> DEFINE t == With(p, what)
<1>1. /\ DOMAIN t = DOMAIN tree \cup {p} /\ t[p] = what
      /\ \A q \in DOMAIN tree \ {p} : t[q] = tree[q]
  BY DEF With
<1>2. p \in DOMAIN tree => tree[p] # "dir"
  BY Kinds
<1>3. Front(p) # p
  BY PathFacts
<1>4. ASSUME NEW q \in DOMAIN t
      PROVE  /\ q \in Paths
             /\ t[q] \notin {"notdir", Absent, Partial}
             /\ Len(q) = 2 => t[q] # "dir"
             /\ q # <<>> => Front(q) \in DOMAIN t /\ t[Front(q)] = "dir"
  <2>1. CASE q = p
    BY <1>1, <1>3, <2>1
  <2>2. CASE q # p
    <3>1. /\ q \in DOMAIN tree /\ q \in Paths
          /\ tree[q] \notin {"notdir", Absent, Partial}
          /\ tree[q] = "dir" => Len(q) # 2
          /\ q # <<>> => Front(q) \in DOMAIN tree /\ tree[Front(q)] = "dir"
      BY <1>1, <2>2, InTree
    <3>2. q # <<>> => Front(q) # p
      BY <1>2, <3>1
    <3>3. QED
      BY <1>1, <2>2, <3>1, <3>2
  <2>3. QED
    BY <2>1, <2>2
<1>5. <<>> \in DOMAIN t /\ t[<<>>] = "dir"
  BY <1>1 DEF IsTree
<1>6. IsTree(t)
  BY <1>4, <1>5 DEF IsTree
<1>7. Lookup(t, p) = what
  BY <1>1, <1>6, Looked
<1>8. QED
  BY <1>1, <1>6, <1>7

(* The nearest ancestor that exists is a prefix of the path in the tree. *)
LEMMA Nearest ==
  ASSUME IsTree(tree), NEW p \in Paths,
         NEW n, n = Max({Len(q) : q \in {x \in DOMAIN tree : IsPrefix(x, p)}})
  PROVE  n \in Nat /\ SubSeq(p, 1, n) \in DOMAIN tree
<1> DEFINE S == {Len(q) : q \in {x \in DOMAIN tree : IsPrefix(x, p)}}
<1>1. <<>> \in DOMAIN tree /\ DOMAIN tree \subseteq Paths
  BY DEF IsTree
<1>2. S \subseteq {0, 1, 2}
  BY <1>1, PathFacts
<1>3. 0 \in S
  <2>1. Len(<<>>) = 0
    OBVIOUS
  <2>2. IsPrefix(<<>>, p)
    BY <1>1, PrefixCases
  <2>3. QED
    BY <1>1, <2>1, <2>2
<1>4. \E x \in S : \A y \in S : x >= y
  <2> HIDE DEF S
  <2>1. CASE 2 \in S
    <3>1. \A y \in S : 2 >= y
      BY <1>2
    <3>2. QED
      BY <2>1, <3>1
  <2>2. CASE 2 \notin S /\ 1 \in S
    <3>1. \A y \in S : 1 >= y
      BY <1>2, <2>2
    <3>2. QED
      BY <2>2, <3>1
  <2>3. CASE 2 \notin S /\ 1 \notin S
    <3>1. \A y \in S : 0 >= y
      BY <1>2, <2>3
    <3>2. QED
      BY <1>3, <3>1
  <2>4. QED
    BY <2>1, <2>2, <2>3
<1>5. n \in S
  <2>1. n = CHOOSE x \in S : \A y \in S : x >= y
    BY DEF Max
  <2>2. QED
    BY <1>4, <2>1
<1>6. PICK q \in DOMAIN tree : IsPrefix(q, p) /\ n = Len(q)
  BY <1>5
<1>7. q \in Seq(Names)
  BY <1>1, PathFacts
<1>8. q = SubSeq(p, 1, n)
  BY <1>6, <1>7, SubSeqFull DEF IsPrefix
<1>9. QED
  BY <1>2, <1>5, <1>6, <1>8

(* Names of temporary files and paths do not mix. *)
LEMMA Apart ==
  ASSUME NEW p \in Paths
  PROVE  /\ p \notin Requests /\ p # Nothing
         /\ \A r \in Requests :
              r \notin {"dir", "notdir", Absent, Partial, Special, Nothing} /\ r \notin Paths
BY PathsAssumption

-----------------------------------------------------------------------------
(* A step of another request leaves q's handler where it is; it may remove *)
(* q's temporary file, and it may change the tree, but no directory that   *)
(* holds a temporary file goes and q sees what its path becomes.           *)
Aside(q) ==
  /\ op'[q] = op[q] /\ path'[q] = path[q]
  /\ pc'[q] = pc[q] /\ names'[q] = names[q] /\ answer'[q] = answer[q]
  /\ got'[q] = got[q] /\ written'[q] = written[q] /\ applied'[q] = applied[q]
  /\ temp'[q] \in {temp[q], Nothing}
  /\ temp'[q] # Nothing => temp[q] \in DOMAIN tree' /\ tree'[temp[q]] = "dir"
  /\ seen[q] \subseteq seen'[q]
  /\ Active(q) => Lookup(tree', path[q]) \in seen'[q]
  /\ alone'[q] => alone[q]

LEMMA Bystander ==
  ASSUME Inv, NEW p \in Requests, NEW q \in Requests \ {p}, Aside(q),
         Active(p) \/ ~Active(q) \/ ~alone'[q]
  PROVE  Sound(q)'
<1>1. Sound(q)
  BY DEF Inv
<1>2. Stages(q)'
  BY <1>1 DEF Sound, Stages, Aside
<1>3. Sees(q)'
  BY <1>1 DEF Sound, Sees, Aside, Active, Find
<1>4. TempOf(q)'
  BY <1>1 DEF Sound, TempOf, Aside
<1>5. Emptying(q)'
  BY <1>1 DEF Sound, Emptying, Aside
<1>6. Outcome(q)'
  BY <1>1 DEF Sound, Outcome, Answered, Aside
<1>7. Undisturbed(q)'
  <2>1. ~(alone'[q] /\ Active(q)')
    BY <1>1 DEF Sound, Undisturbed, Aside, Active
  <2>2. QED
    BY <2>1 DEF Undisturbed
<1>8. QED
  BY <1>2, <1>3, <1>4, <1>5, <1>6, <1>7 DEF Sound

(* The entries of a directory are files below it and temporary files. *)
LEMMA EntryFacts ==
  ASSUME IsTree(tree), NEW p \in Paths, NEW e \in Entries(p)
  PROVE  /\ e \in Paths \cup Requests
         /\ e \in Requests <=> e \notin Paths
         /\ e \in Requests => temp[e] = p
         /\ e \notin Requests => /\ e \in DOMAIN tree /\ e # <<>>
                                 /\ Len(e) = Len(p) + 1
         /\ Exists(e)
<1>1. CASE e \in DOMAIN tree /\ e # <<>> /\ Front(e) = p
  <2>1. e \in Paths
    BY <1>1, InTree
  <2>2. e \notin Requests /\ Len(p) = Len(e) - 1 /\ Len(e) \in Nat
    BY <1>1, <2>1, Apart, PathFacts
  <2>3. QED
    BY <1>1, <2>1, <2>2 DEF Exists
<1>2. CASE e \in Requests /\ temp[e] = p
  BY <1>2, Apart DEF Exists
<1>3. QED
  BY <1>1, <1>2 DEF Entries, TempsIn

(* The answers by what the path holds. *)
LEMMA Documents ==
  ASSUME NEW o \in {"get", "put", "delete"}, NEW p, NEW held
  PROVE  /\ o = "delete" /\ p = <<>> /\ held # "notdir" =>
              Answers(o, p, held) = 400
         /\ held = "notdir" => Answers(o, p, held) = 500
         /\ o = "put" /\ held = "dir" => Answers(o, p, held) = 409
         /\ o = "put" /\ held \notin {"dir", "notdir"} =>
              Answers(o, p, held) = 204
         /\ o # "put" /\ (o = "delete" => p # <<>>) /\ held = Absent =>
              Answers(o, p, held) = 404
         /\ o = "get" /\ held = Special => Answers(o, p, held) = 409
         /\ o = "get" /\ held \notin {Absent, "notdir", Special} =>
              Answers(o, p, held) = 200
         /\ o = "delete" /\ p # <<>> /\ held \notin {Absent, "notdir"} =>
              Answers(o, p, held) = 204
<1>1. Answers(o, p, held) =
        IF o # "put" /\ held = "notdir" THEN 500 ELSE Documented(o, p, held)
  BY DEF Answers, NotAsDocumented
<1>2. o = "put" => Documented(o, p, held) =
        IF held = "dir" THEN 409 ELSE IF held = "notdir" THEN 500 ELSE 204
  BY DEF Documented
<1>3. o = "get" => Documented(o, p, held) =
        IF held \in {Absent, "notdir"} THEN 404
        ELSE IF held = Special THEN 409 ELSE 200
  BY DEF Documented
<1>4. o = "delete" => Documented(o, p, held) =
        IF p = <<>> THEN 400 ELSE IF held \in {Absent, "notdir"} THEN 404 ELSE 204
  BY DEF Documented
<1>5. "dir" # "notdir" /\ Absent # "notdir" /\ Special \notin {Absent, "notdir"}
  BY DEF Absent, Special
<1>6. QED
  BY <1>1, <1>2, <1>3, <1>4, <1>5

-----------------------------------------------------------------------------
(* A step of r's handler that changes neither the files nor what others    *)
(* see: most calls look at the tree only.                                  *)
Moves(r) ==
  /\ tree' = tree /\ inode' = inode /\ temp' = temp /\ written' = written
  /\ op' = op /\ path' = path /\ seen' = seen /\ applied' = applied
  /\ alone' = alone
  /\ pc' = [pc EXCEPT ![r] = pc'[r]]
  /\ answer' = [answer EXCEPT ![r] = answer'[r]]
  /\ names' = [names EXCEPT ![r] = names'[r]]
  /\ opened' = [opened EXCEPT ![r] = opened'[r]]
  /\ DOMAIN got' = Requests
  /\ \A q \in Requests \ {r} : got'[q] = got[q]
Fits(r) ==
  /\ pc'[r] \in Locations /\ answer'[r] \in {0, 200, 204, 400, 404, 409, 500}
  /\ names'[r] \subseteq Paths \cup Requests /\ opened'[r] \in Nat

LEMMA Proceeds ==
  ASSUME Inv, NEW r \in Requests, Active(r), Moves(r), Fits(r),
         Stages(r)', TempOf(r)', Emptying(r)', pc'[r] # "new",
         \/ got'[r] = got[r]
         \/ got'[r] \in seen[r] \ {Partial, Special, "dir", "notdir", Absent},
         pc'[r] = "answered" => Answered(r)',
         alone[r] /\ Active(r)' => Holds(r)'
  PROVE  Inv'
<1>1. TypeOK /\ Sound(r)
  BY DEF Inv
<1>2. TypeOK'
  <2>1. IsTree(tree)'
    BY <1>1 DEF TypeOK, Moves
  <2>2. pc' \in [Requests -> Locations]
    BY <1>1 DEF TypeOK, Moves, Fits
  <2>3. answer' \in [Requests -> {0, 200, 204, 400, 404, 409, 500}]
    BY <1>1 DEF TypeOK, Moves, Fits
  <2>4. names' \in [Requests -> SUBSET (Paths \cup Requests)]
    BY <1>1 DEF TypeOK, Moves, Fits
  <2>5. opened' \in [Requests -> Nat]
    BY <1>1 DEF TypeOK, Moves, Fits
  <2>6. QED
    BY <1>1, <2>1, <2>2, <2>3, <2>4, <2>5 DEF TypeOK, Moves
<1>3. ASSUME NEW q \in Requests \ {r} PROVE Sound(q)'
  <2>1. Sound(q)
    BY DEF Inv
  <2>2. Aside(q)
    BY <1>1, <2>1 DEF TypeOK, Sound, Sees, TempOf, Find, Aside, Moves
  <2>3. QED
    BY <2>2, Bystander
<1>4. Sees(r)'
  BY <1>1 DEF Sound, Sees, Find, Moves
<1>5. Outcome(r)'
  BY <1>1 DEF Sound, Outcome, Active, Moves
<1>6. Undisturbed(r)'
  BY <1>1 DEF Sound, Undisturbed, Active, Moves, TypeOK
<1>7. QED
  BY <1>2, <1>3, <1>4, <1>5, <1>6 DEF Inv, Sound

-----------------------------------------------------------------------------
(* Every step keeps the invariant. *)

LEMMA RefuseRootStep ==
  ASSUME Inv, NEW r \in Requests, RefuseRoot(r)
  PROVE  Inv'
<1>1. TypeOK /\ Sound(r) /\ path[r] \in Paths
  BY DEF Inv, TypeOK
<1>2. /\ pc[r] = "resolve" /\ pc'[r] = "answered" /\ answer'[r] = 400
      /\ op[r] = "delete" /\ path[r] = <<>>
      /\ names'[r] = names[r] /\ opened'[r] = opened[r] /\ got'[r] = got[r]
  BY <1>1 DEF TypeOK, RefuseRoot, Goto, Reply, files, request, local, ghosts
<1>3. Moves(r)
  BY <1>1 DEF TypeOK, Moves, RefuseRoot, Goto, Reply, files, request, local,
     ghosts
<1>4. /\ Active(r) /\ Find(path[r]) \in seen[r] /\ ~applied[r]
      /\ alone[r] => Holds(r)
  BY <1>1, <1>2 DEF Sound, Sees, Outcome, Undisturbed, Active
<1>5. Fits(r)
  BY <1>1, <1>2 DEF Fits, TypeOK, Locations, Reading, Deleting, Writing
<1>6. Stages(r)'
  BY <1>1, <1>2, <1>3 DEF Sound, Stages, Moves, Reading, Deleting, Writing
<1>7. TempOf(r)'
  BY <1>1, <1>2, <1>3 DEF Sound, TempOf, Moves
<1>8. Emptying(r)'
  BY <1>2 DEF Emptying
<1>9. pc'[r] = "answered" => Answered(r)'
  <2>1. pc'[r] = "answered" /\ alone[r] =>
          answer'[r] = Answers(op[r], path[r], Find(path[r]))
    <3>1. Find(path[r]) # "notdir"
      <4>1. IsTree(tree) /\ <<>> \in DOMAIN tree /\ tree[<<>>] = "dir"
        BY <1>1 DEF TypeOK, IsTree
      <4>2. Lookup(tree, path[r]) = "dir"
        BY <1>1, <1>2, <4>1, Looked
      <4>3. QED
        BY <4>2 DEF Find
    <3>2. QED
      BY <1>1, <1>2, <3>1, Documents DEF TypeOK
  <2>2. QED
    BY <1>1, <1>2, <1>3, <1>4, <2>1 DEF Answered, Stages, Sound, Moves,
       Reading, Deleting, Writing
<1>10. QED
  BY <1>2, <1>3, <1>4, <1>5, <1>6, <1>7, <1>8, <1>9, Proceeds DEF Active

LEMMA ResolvePathStep ==
  ASSUME Inv, NEW r \in Requests, Inspect(r, "resolve", "metadata")
  PROVE  Inv'
<1>1. TypeOK /\ Sound(r) /\ path[r] \in Paths
  BY DEF Inv, TypeOK
<1>2. /\ pc[r] = "resolve" /\ op[r] # "put"
      /\ op[r] = "delete" => path[r] # <<>>
      /\ names'[r] = names[r] /\ opened'[r] = opened[r] /\ got'[r] = got[r]
      /\ \/ /\ Find(path[r]) = Absent
            /\ pc'[r] = "answered" /\ answer'[r] = 404
         \/ /\ Find(path[r]) = "notdir"
            /\ pc'[r] = "answered" /\ answer'[r] = 500
         \/ /\ Find(path[r]) \notin {Absent, "notdir"}
            /\ pc'[r] = "metadata" /\ answer'[r] = answer[r]
  BY <1>1 DEF TypeOK, Inspect, Goto, Reply, files, request, local, ghosts
<1>3. Moves(r)
  BY <1>1 DEF TypeOK, Moves, Inspect, Goto, Reply, files, request, local,
     ghosts
<1>4. /\ Active(r) /\ Find(path[r]) \in seen[r] /\ ~applied[r]
      /\ alone[r] => Holds(r)
  BY <1>1, <1>2 DEF Sound, Sees, Outcome, Undisturbed, Active
<1>5. Fits(r)
  BY <1>1, <1>2 DEF Fits, TypeOK, Locations, Reading, Deleting, Writing
<1>6. Stages(r)'
  BY <1>1, <1>2, <1>3 DEF Sound, Stages, Moves, Reading, Deleting, Writing
<1>7. TempOf(r)'
  BY <1>1, <1>2, <1>3 DEF Sound, TempOf, Moves
<1>8. Emptying(r)'
  BY <1>2 DEF Emptying
<1>9. pc'[r] = "answered" => Answered(r)'
  <2>1. pc'[r] = "answered" /\ alone[r] =>
          answer'[r] = Answers(op[r], path[r], Find(path[r]))
    BY <1>1, <1>2, <1>4, Documents DEF Holds, IsFile, TypeOK
  <2>2. QED
    BY <1>1, <1>2, <1>3, <1>4, <2>1 DEF Answered, Stages, Sound, Moves,
       Reading, Deleting, Writing
<1>10. alone[r] /\ Active(r)' => Holds(r)'
  BY <1>1, <1>2, <1>3, <1>4 DEF Holds, Moves, Active, Find, IsFile, Absent
<1>11. QED
  BY <1>2, <1>3, <1>4, <1>5, <1>6, <1>7, <1>8, <1>9, <1>10, Proceeds

LEMMA MetadataStep ==
  ASSUME Inv, NEW r \in Requests, Metadata(r)
  PROVE  Inv'
<1>1. TypeOK /\ Sound(r) /\ path[r] \in Paths
  BY DEF Inv, TypeOK
<1>2. /\ pc[r] = "metadata" /\ op[r] # "put"
      /\ op[r] = "delete" => path[r] # <<>>
      /\ op[r] = "get" => Find(path[r]) # Special
      /\ names'[r] = names[r] /\ opened'[r] = opened[r] /\ got'[r] = got[r]
      /\ \/ /\ Find(path[r]) = Absent
            /\ pc'[r] = "answered" /\ answer'[r] = 404
         \/ /\ Find(path[r]) = "notdir"
            /\ pc'[r] = "answered" /\ answer'[r] = 500
         \/ /\ Find(path[r]) \notin {Absent, "notdir"}
            /\ pc'[r] = IF Find(path[r]) = "dir"
                       THEN IF op[r] = "get" THEN "list" ELSE "opendir"
                       ELSE IF op[r] = "get" THEN "read" ELSE "unlink"
            /\ answer'[r] = answer[r]
  BY <1>1 DEF TypeOK, Metadata, Inspect, Goto, Reply, files, request, local,
     ghosts
<1>3. Moves(r)
  BY <1>1 DEF TypeOK, Moves, Metadata, Inspect, Goto, Reply, files, request,
     local, ghosts
<1>4. /\ Active(r) /\ Find(path[r]) \in seen[r] /\ ~applied[r]
      /\ alone[r] => Holds(r)
  BY <1>1, <1>2 DEF Sound, Sees, Outcome, Undisturbed, Active
<1>5. Fits(r)
  BY <1>1, <1>2 DEF Fits, TypeOK, Locations, Reading, Deleting, Writing
<1>6. Stages(r)'
  BY <1>1, <1>2, <1>3 DEF Sound, Stages, Moves, Reading, Deleting, Writing,
     TypeOK
<1>7. TempOf(r)'
  BY <1>1, <1>2, <1>3 DEF Sound, TempOf, Moves
<1>8. Emptying(r)'
  BY <1>2 DEF Emptying
<1>9. pc'[r] = "answered" => Answered(r)'
  <2>1. pc'[r] = "answered" /\ alone[r] =>
          answer'[r] = Answers(op[r], path[r], Find(path[r]))
    BY <1>1, <1>2, <1>4, Documents DEF Holds, IsFile, TypeOK
  <2>2. QED
    BY <1>1, <1>2, <1>3, <1>4, <2>1 DEF Answered, Stages, Sound, Moves,
       Reading, Deleting, Writing
<1>10. alone[r] /\ Active(r)' => Holds(r)'
  BY <1>1, <1>2, <1>3, <1>4 DEF Holds, Moves, Active, Find, IsFile,
     IsRegular, Absent
<1>11. QED
  BY <1>2, <1>3, <1>4, <1>5, <1>6, <1>7, <1>8, <1>9, <1>10, Proceeds

LEMMA RefuseSpecialStep ==
  ASSUME Inv, NEW r \in Requests, RefuseSpecial(r)
  PROVE  Inv'
<1>1. TypeOK /\ Sound(r) /\ path[r] \in Paths
  BY DEF Inv, TypeOK
<1>2. /\ pc[r] = "metadata" /\ pc'[r] = "answered" /\ answer'[r] = 409
      /\ op[r] = "get" /\ Find(path[r]) = Special
      /\ names'[r] = names[r] /\ opened'[r] = opened[r] /\ got'[r] = got[r]
  BY <1>1 DEF TypeOK, RefuseSpecial, Goto, Reply, files, request, local, ghosts
<1>3. Moves(r)
  BY <1>1 DEF TypeOK, Moves, RefuseSpecial, Goto, Reply, files, request, local,
     ghosts
<1>4. /\ Active(r) /\ Find(path[r]) \in seen[r] /\ ~applied[r]
      /\ alone[r] => Holds(r)
  BY <1>1, <1>2 DEF Sound, Sees, Outcome, Undisturbed, Active
<1>5. Fits(r)
  BY <1>1, <1>2 DEF Fits, TypeOK, Locations, Reading, Deleting, Writing
<1>6. Stages(r)'
  BY <1>1, <1>2, <1>3 DEF Sound, Stages, Moves, Reading, Deleting, Writing
<1>7. TempOf(r)'
  BY <1>1, <1>2, <1>3 DEF Sound, TempOf, Moves
<1>8. Emptying(r)'
  BY <1>2 DEF Emptying
<1>9. pc'[r] = "answered" => Answered(r)'
  <2>1. pc'[r] = "answered" /\ alone[r] =>
          answer'[r] = Answers(op[r], path[r], Find(path[r]))
    BY <1>1, <1>2, <1>4, Documents DEF Holds, IsFile, TypeOK
  <2>2. QED
    BY <1>1, <1>2, <1>3, <1>4, <2>1 DEF Answered, Stages, Sound, Moves,
       Reading, Deleting, Writing
<1>10. QED
  BY <1>2, <1>3, <1>4, <1>5, <1>6, <1>7, <1>8, <1>9, Proceeds DEF Active

LEMMA ReadFileStep ==
  ASSUME Inv, NEW r \in Requests, ReadFile(r)
  PROVE  Inv'
<1>1. TypeOK /\ Sound(r) /\ path[r] \in Paths
  BY DEF Inv, TypeOK
<1>2. /\ pc[r] = "read" /\ pc'[r] = "answered"
      /\ names'[r] = names[r] /\ opened'[r] = opened[r]
      /\ \/ /\ IsRegular(path[r]) /\ answer'[r] = 200 /\ got'[r] = Find(path[r])
         \/ /\ ~IsRegular(path[r]) /\ answer'[r] = 500 /\ got'[r] = got[r]
  BY <1>1 DEF TypeOK, ReadFile, Goto, Reply, files, request, local, ghosts
<1>3. Moves(r)
  BY <1>1 DEF TypeOK, Moves, ReadFile, Goto, Reply, files, request, local,
     ghosts
<1>4. /\ Active(r) /\ Find(path[r]) \in seen[r] /\ ~applied[r]
      /\ alone[r] => Holds(r)
  BY <1>1, <1>2 DEF Sound, Sees, Outcome, Undisturbed, Active
<1>5. Fits(r)
  BY <1>1, <1>2 DEF Fits, TypeOK, Locations, Reading, Deleting, Writing
<1>6. Stages(r)'
  BY <1>1, <1>2, <1>3 DEF Sound, Stages, Moves, Reading, Deleting, Writing
<1>7. TempOf(r)'
  BY <1>1, <1>2, <1>3 DEF Sound, TempOf, Moves
<1>8. Emptying(r)'
  BY <1>2 DEF Emptying
<1>9. pc'[r] = "answered" => Answered(r)'
  <2>1. pc'[r] = "answered" /\ alone[r] =>
          answer'[r] = Answers(op[r], path[r], Find(path[r]))
    BY <1>1, <1>2, <1>4, Documents DEF Holds, IsFile, IsRegular, TypeOK,
       Sound, Stages, Reading
  <2>2. QED
    BY <1>1, <1>2, <1>3, <1>4, <2>1 DEF Answered, Stages, Sound, Moves,
       Reading, Deleting, Writing
<1>10. \/ got'[r] = got[r]
       \/ got'[r] \in seen[r] \ {Partial, Special, "dir", "notdir", Absent}
  BY <1>1, <1>2, <1>4, Kinds DEF IsFile, IsRegular, Find, TypeOK
<1>11. QED
  BY <1>2, <1>3, <1>4, <1>5, <1>6, <1>7, <1>8, <1>9, <1>10, Proceeds
     DEF Active

LEMMA ReadDirStep ==
  ASSUME Inv, NEW r \in Requests, ReadDir(r)
  PROVE  Inv'
<1>1. TypeOK /\ Sound(r) /\ path[r] \in Paths
  BY DEF Inv, TypeOK
<1>2. /\ pc[r] = "list" /\ opened'[r] = opened[r] /\ got'[r] = got[r]
      /\ \/ /\ Find(path[r]) = "dir" /\ pc'[r] = "stat"
            /\ names'[r] = Entries(path[r]) /\ answer'[r] = answer[r]
         \/ /\ Find(path[r]) # "dir" /\ pc'[r] = "answered"
            /\ names'[r] = names[r] /\ answer'[r] = 500
  BY <1>1 DEF TypeOK, ReadDir, Goto, Reply, files, request, local, ghosts
<1>3. Moves(r)
  BY <1>1 DEF TypeOK, Moves, ReadDir, Goto, Reply, files, request, local,
     ghosts
<1>4. /\ Active(r) /\ Find(path[r]) \in seen[r] /\ ~applied[r]
      /\ alone[r] => Holds(r)
  BY <1>1, <1>2 DEF Sound, Sees, Outcome, Undisturbed, Active
<1>5. Entries(path[r])' = Entries(path[r])
  BY <1>3 DEF Moves, Entries, TempsIn
<1>6. Fits(r)
  BY <1>1, <1>2, EntryFacts DEF Fits, TypeOK, Locations, Reading, Deleting,
     Writing
<1>7. Stages(r)'
  BY <1>1, <1>2, <1>3 DEF Sound, Stages, Moves, Reading, Deleting, Writing
<1>8. TempOf(r)'
  BY <1>1, <1>2, <1>3 DEF Sound, TempOf, Moves
<1>9. Emptying(r)'
  BY <1>2 DEF Emptying
<1>10. pc'[r] = "answered" => Answered(r)'
  <2>1. pc'[r] = "answered" /\ alone[r] =>
          answer'[r] = Answers(op[r], path[r], Find(path[r]))
    BY <1>1, <1>2, <1>4, <1>5, Documents DEF Holds, IsFile, TypeOK
  <2>2. QED
    BY <1>1, <1>2, <1>3, <1>4, <2>1 DEF Answered, Stages, Sound, Moves,
       Reading, Deleting, Writing
<1>11. alone[r] /\ Active(r)' => Holds(r)'
  BY <1>1, <1>2, <1>3, <1>4, <1>5 DEF Holds, Moves, Active, Find, IsFile,
     Absent
<1>12. QED
  BY <1>2, <1>3, <1>4, <1>6, <1>7, <1>8, <1>9, <1>10, <1>11, Proceeds

LEMMA StatEntryStep ==
  ASSUME Inv, NEW r \in Requests, NEW e, StatEntry(r, e)
  PROVE  Inv'
<1>1. TypeOK /\ Sound(r) /\ path[r] \in Paths
  BY DEF Inv, TypeOK
<1>2. /\ pc[r] = "stat" /\ opened'[r] = opened[r] /\ got'[r] = got[r]
      /\ names'[r] = names[r] \ {e} /\ e \in names[r]
      /\ \/ Exists(e) /\ pc'[r] = "stat" /\ answer'[r] = answer[r]
         \/ ~Exists(e) /\ pc'[r] = "answered" /\ answer'[r] = 500
  BY <1>1 DEF TypeOK, StatEntry, Goto, Reply, files, request, local, ghosts
<1>3. Moves(r)
  BY <1>1 DEF TypeOK, Moves, StatEntry, Goto, Reply, files, request, local,
     ghosts
<1>4. /\ Active(r) /\ Find(path[r]) \in seen[r] /\ ~applied[r]
      /\ alone[r] => Holds(r)
  BY <1>1, <1>2 DEF Sound, Sees, Outcome, Undisturbed, Active
<1>5. Entries(path[r])' = Entries(path[r])
  BY <1>3 DEF Moves, Entries, TempsIn
<1>6. alone[r] => Exists(e)
  BY <1>1, <1>2, <1>4, EntryFacts DEF Holds, TypeOK
<1>7. Fits(r)
  BY <1>1, <1>2 DEF Fits, TypeOK, Locations, Reading, Deleting, Writing
<1>8. Stages(r)'
  BY <1>1, <1>2, <1>3 DEF Sound, Stages, Moves, Reading, Deleting, Writing
<1>9. TempOf(r)'
  BY <1>1, <1>2, <1>3 DEF Sound, TempOf, Moves
<1>10. Emptying(r)'
  BY <1>2 DEF Emptying
<1>11. pc'[r] = "answered" => Answered(r)'
  <2>1. pc'[r] = "answered" /\ alone[r] =>
          answer'[r] = Answers(op[r], path[r], Find(path[r]))
    BY <1>1, <1>2, <1>4, <1>5, <1>6, Documents DEF Holds, IsFile, TypeOK
  <2>2. QED
    BY <1>1, <1>2, <1>3, <1>4, <2>1 DEF Answered, Stages, Sound, Moves,
       Reading, Deleting, Writing
<1>12. alone[r] /\ Active(r)' => Holds(r)'
  BY <1>1, <1>2, <1>3, <1>4, <1>5, <1>6 DEF Holds, Moves, Active, Find,
     IsFile, Absent
<1>13. QED
  BY <1>2, <1>3, <1>4, <1>7, <1>8, <1>9, <1>10, <1>11, <1>12, Proceeds

LEMMA ListedStep ==
  ASSUME Inv, NEW r \in Requests, Listed(r)
  PROVE  Inv'
<1>1. TypeOK /\ Sound(r) /\ path[r] \in Paths
  BY DEF Inv, TypeOK
<1>2. /\ pc[r] = "stat" /\ pc'[r] = "answered" /\ answer'[r] = 200
      /\ names'[r] = names[r] /\ opened'[r] = opened[r] /\ got'[r] = got[r]
  BY <1>1 DEF TypeOK, Listed, Goto, Reply, files, request, local, ghosts
<1>3. Moves(r)
  BY <1>1 DEF TypeOK, Moves, Listed, Goto, Reply, files, request, local,
     ghosts
<1>4. /\ Active(r) /\ Find(path[r]) \in seen[r] /\ ~applied[r]
      /\ alone[r] => Holds(r)
  BY <1>1, <1>2 DEF Sound, Sees, Outcome, Undisturbed, Active
<1>5. Fits(r)
  BY <1>1, <1>2 DEF Fits, TypeOK, Locations, Reading, Deleting, Writing
<1>6. Stages(r)'
  BY <1>1, <1>2, <1>3 DEF Sound, Stages, Moves, Reading, Deleting, Writing
<1>7. TempOf(r)'
  BY <1>1, <1>2, <1>3 DEF Sound, TempOf, Moves
<1>8. Emptying(r)'
  BY <1>2 DEF Emptying
<1>9. pc'[r] = "answered" => Answered(r)'
  <2>1. pc'[r] = "answered" /\ alone[r] =>
          answer'[r] = Answers(op[r], path[r], Find(path[r]))
    <3>1. op[r] = "get" /\ (alone[r] => Find(path[r]) = "dir")
      BY <1>1, <1>2, <1>4 DEF Sound, Stages, Reading, Holds
    <3>2. QED
      BY <1>2, <3>1, Documents DEF Absent, Special
  <2>2. QED
    BY <1>1, <1>2, <1>3, <1>4, <2>1 DEF Answered, Stages, Sound, Moves,
       Reading, Deleting, Writing
<1>10. QED
  BY <1>2, <1>3, <1>4, <1>5, <1>6, <1>7, <1>8, <1>9, Proceeds DEF Active

LEMMA OpenDirStep ==
  ASSUME Inv, NEW r \in Requests, OpenDir(r)
  PROVE  Inv'
<1>1. TypeOK /\ Sound(r) /\ path[r] \in Paths
  BY DEF Inv, TypeOK
<1>2. /\ pc[r] = "opendir" /\ got'[r] = got[r]
      /\ \/ /\ Find(path[r]) = "dir" /\ pc'[r] = "empty"
            /\ names'[r] = Entries(path[r]) /\ opened'[r] = inode[path[r]]
            /\ answer'[r] = answer[r]
         \/ /\ Find(path[r]) # "dir" /\ pc'[r] = "answered"
            /\ names'[r] = names[r] /\ opened'[r] = opened[r]
            /\ answer'[r] = 500
  BY <1>1 DEF TypeOK, OpenDir, Goto, Reply, files, request, local, ghosts
<1>3. Moves(r)
  BY <1>1 DEF TypeOK, Moves, OpenDir, Goto, Reply, files, request, local,
     ghosts
<1>4. /\ Active(r) /\ Find(path[r]) \in seen[r] /\ ~applied[r]
      /\ alone[r] => Holds(r)
  BY <1>1, <1>2 DEF Sound, Sees, Outcome, Undisturbed, Active
<1>5. Entries(path[r])' = Entries(path[r])
  BY <1>3 DEF Moves, Entries, TempsIn
<1>6. Fits(r)
  BY <1>1, <1>2, EntryFacts DEF Fits, TypeOK, Locations, Reading, Deleting,
     Writing
<1>7. Stages(r)'
  BY <1>1, <1>2, <1>3 DEF Sound, Stages, Moves, Reading, Deleting, Writing
<1>8. TempOf(r)'
  BY <1>1, <1>2, <1>3 DEF Sound, TempOf, Moves
<1>9. Emptying(r)'
  <2>1. CASE Find(path[r]) = "dir" /\ names'[r] = Entries(path[r])
    <3>1. path[r] # <<>>
      BY <1>1, <1>2 DEF Sound, Stages, Deleting
    <3>2. Len(path[r]) = 1
      BY <1>1, <2>1, <3>1, Kinds, PathFacts DEF Find, TypeOK
    <3>3. ASSUME NEW e \in names'[r], e \notin Requests PROVE Len(e) = 2
      <4>1. e \in Entries(path[r]) /\ IsTree(tree)
        BY <1>1, <2>1, <3>3 DEF TypeOK
      <4>2. Len(e) = Len(path[r]) + 1
        BY <1>1, <3>3, <4>1, EntryFacts
      <4>3. QED
        BY <3>2, <4>2
    <3>4. QED
      BY <1>3, <3>2, <3>3 DEF Emptying, Moves
  <2>2. CASE pc'[r] = "answered"
    BY <2>2 DEF Emptying
  <2>3. QED
    BY <1>2, <2>1, <2>2
<1>10. pc'[r] = "answered" => Answered(r)'
  <2>1. pc'[r] = "answered" /\ alone[r] =>
          answer'[r] = Answers(op[r], path[r], Find(path[r]))
    BY <1>1, <1>2, <1>4, <1>5, Documents DEF Holds, IsFile, TypeOK
  <2>2. QED
    BY <1>1, <1>2, <1>3, <1>4, <2>1 DEF Answered, Stages, Sound, Moves,
       Reading, Deleting, Writing
<1>11. alone[r] /\ Active(r)' => Holds(r)'
  BY <1>1, <1>2, <1>3, <1>4, <1>5 DEF Holds, Moves, Active, Find, IsFile,
     Absent
<1>12. QED
  BY <1>2, <1>3, <1>4, <1>6, <1>7, <1>8, <1>9, <1>10, <1>11, Proceeds

LEMMA ResolveTargetStep ==
  ASSUME Inv, NEW r \in Requests, ResolveTarget(r)
  PROVE  Inv'
<1>1. TypeOK /\ Sound(r) /\ path[r] \in Paths
  BY DEF Inv, TypeOK
<1>2. /\ pc[r] = "resolve" /\ op[r] = "put"
      /\ names'[r] = names[r] /\ opened'[r] = opened[r] /\ got'[r] = got[r]
      /\ \/ /\ Find(path[r]) = "notdir"
            /\ pc'[r] = "answered" /\ answer'[r] = 500
         \/ /\ Find(path[r]) = Absent
            /\ pc'[r] = "ancestor" /\ answer'[r] = answer[r]
         \/ /\ Find(path[r]) \notin {Absent, "notdir"}
            /\ pc'[r] = "check" /\ answer'[r] = answer[r]
  BY <1>1 DEF TypeOK, ResolveTarget, Goto, Reply, files, request, local,
     ghosts
<1>3. Moves(r)
  BY <1>1 DEF TypeOK, Moves, ResolveTarget, Goto, Reply, files, request,
     local, ghosts
<1>4. /\ Active(r) /\ Find(path[r]) \in seen[r] /\ ~applied[r]
      /\ alone[r] => Holds(r)
  BY <1>1, <1>2 DEF Sound, Sees, Outcome, Undisturbed, Active
<1>5. Fits(r)
  BY <1>1, <1>2 DEF Fits, TypeOK, Locations, Reading, Deleting, Writing
<1>6. Stages(r)'
  BY <1>1, <1>2, <1>3 DEF Sound, Stages, Moves, Reading, Deleting, Writing
<1>7. TempOf(r)'
  BY <1>1, <1>2, <1>3 DEF Sound, TempOf, Moves
<1>8. Emptying(r)'
  BY <1>2 DEF Emptying
<1>9. pc'[r] = "answered" => Answered(r)'
  <2>1. pc'[r] = "answered" /\ alone[r] =>
          answer'[r] = Answers(op[r], path[r], Find(path[r]))
    BY <1>1, <1>2, <1>4, Documents DEF Holds, IsFile, TypeOK
  <2>2. QED
    BY <1>1, <1>2, <1>3, <1>4, <2>1 DEF Answered, Stages, Sound, Moves,
       Reading, Deleting, Writing
<1>10. alone[r] /\ Active(r)' => Holds(r)'
  BY <1>1, <1>2, <1>3, <1>4 DEF Holds, Moves, Active, Find, IsFile, Absent
<1>11. QED
  BY <1>2, <1>3, <1>4, <1>5, <1>6, <1>7, <1>8, <1>9, <1>10, Proceeds

LEMMA FindAncestorStep ==
  ASSUME Inv, NEW r \in Requests, FindAncestor(r)
  PROVE  Inv'
<1>1. TypeOK /\ Sound(r) /\ path[r] \in Paths
  BY DEF Inv, TypeOK
<1>2. /\ pc[r] = "ancestor" /\ names'[r] = names[r] /\ got'[r] = got[r]
      /\ \/ /\ Find(path[r]) = "notdir" /\ pc'[r] = "answered"
            /\ answer'[r] = 500 /\ opened'[r] = opened[r]
         \/ /\ Find(path[r]) # "notdir" /\ pc'[r] = "canonical"
            /\ answer'[r] = answer[r]
            /\ opened'[r] = Max({Len(q) :
                  q \in {x \in DOMAIN tree : IsPrefix(x, path[r])}})
  BY <1>1 DEF TypeOK, FindAncestor, Goto, Reply, files, request, local, ghosts
<1>3. Moves(r)
  BY <1>1 DEF TypeOK, Moves, FindAncestor, Goto, Reply, files, request, local,
     ghosts
<1>4. /\ Active(r) /\ Find(path[r]) \in seen[r] /\ ~applied[r]
      /\ alone[r] => Holds(r)
  BY <1>1, <1>2 DEF Sound, Sees, Outcome, Undisturbed, Active
<1>5. Find(path[r]) # "notdir" =>
        opened'[r] \in Nat /\ SubSeq(path[r], 1, opened'[r]) \in DOMAIN tree
  BY <1>1, <1>2, Nearest DEF TypeOK
<1>6. Fits(r)
  BY <1>1, <1>2, <1>5 DEF Fits, TypeOK, Locations, Reading, Deleting, Writing
<1>7. Stages(r)'
  BY <1>1, <1>2, <1>3 DEF Sound, Stages, Moves, Reading, Deleting, Writing
<1>8. TempOf(r)'
  BY <1>1, <1>2, <1>3 DEF Sound, TempOf, Moves
<1>9. Emptying(r)'
  BY <1>2 DEF Emptying
<1>10. pc'[r] = "answered" => Answered(r)'
  <2>1. pc'[r] = "answered" /\ alone[r] =>
          answer'[r] = Answers(op[r], path[r], Find(path[r]))
    BY <1>1, <1>2, <1>4, <1>5, Documents DEF Holds, IsFile, TypeOK, Absent
  <2>2. QED
    BY <1>1, <1>2, <1>3, <1>4, <2>1 DEF Answered, Stages, Sound, Moves,
       Reading, Deleting, Writing
<1>11. alone[r] /\ Active(r)' => Holds(r)'
  BY <1>1, <1>2, <1>3, <1>4, <1>5 DEF Holds, Moves, Active, Find, IsFile,
     Absent
<1>12. QED
  BY <1>2, <1>3, <1>4, <1>6, <1>7, <1>8, <1>9, <1>10, <1>11, Proceeds

LEMMA ResolveAncestorStep ==
  ASSUME Inv, NEW r \in Requests, ResolveAncestor(r)
  PROVE  Inv'
<1>1. TypeOK /\ Sound(r) /\ path[r] \in Paths
  BY DEF Inv, TypeOK
<1>2. /\ pc[r] = "canonical"
      /\ names'[r] = names[r] /\ opened'[r] = opened[r] /\ got'[r] = got[r]
      /\ \/ /\ SubSeq(path[r], 1, opened[r]) \in DOMAIN tree
            /\ pc'[r] = "check" /\ answer'[r] = answer[r]
         \/ /\ SubSeq(path[r], 1, opened[r]) \notin DOMAIN tree
            /\ pc'[r] = "answered" /\ answer'[r] = 500
  BY <1>1 DEF TypeOK, ResolveAncestor, Goto, Reply, files, request, local,
     ghosts
<1>3. Moves(r)
  BY <1>1 DEF TypeOK, Moves, ResolveAncestor, Goto, Reply, files, request,
     local, ghosts
<1>4. /\ Active(r) /\ Find(path[r]) \in seen[r] /\ ~applied[r]
      /\ alone[r] => Holds(r)
  BY <1>1, <1>2 DEF Sound, Sees, Outcome, Undisturbed, Active
<1>5. Fits(r)
  BY <1>1, <1>2 DEF Fits, TypeOK, Locations, Reading, Deleting, Writing
<1>6. Stages(r)'
  BY <1>1, <1>2, <1>3 DEF Sound, Stages, Moves, Reading, Deleting, Writing
<1>7. TempOf(r)'
  BY <1>1, <1>2, <1>3 DEF Sound, TempOf, Moves
<1>8. Emptying(r)'
  BY <1>2 DEF Emptying
<1>9. pc'[r] = "answered" => Answered(r)'
  <2>1. pc'[r] = "answered" /\ alone[r] =>
          answer'[r] = Answers(op[r], path[r], Find(path[r]))
    BY <1>1, <1>2, <1>4, Documents DEF Holds, IsFile, TypeOK
  <2>2. QED
    BY <1>1, <1>2, <1>3, <1>4, <2>1 DEF Answered, Stages, Sound, Moves,
       Reading, Deleting, Writing
<1>10. alone[r] /\ Active(r)' => Holds(r)'
  BY <1>1, <1>2, <1>3, <1>4 DEF Holds, Moves, Active, Find, IsFile, Absent
<1>11. QED
  BY <1>2, <1>3, <1>4, <1>5, <1>6, <1>7, <1>8, <1>9, <1>10, Proceeds

LEMMA CheckTargetStep ==
  ASSUME Inv, NEW r \in Requests, CheckTarget(r)
  PROVE  Inv'
<1>1. TypeOK /\ Sound(r) /\ path[r] \in Paths
  BY DEF Inv, TypeOK
<1>2. /\ pc[r] = "check"
      /\ names'[r] = names[r] /\ opened'[r] = opened[r] /\ got'[r] = got[r]
      /\ \/ /\ Find(path[r]) = "dir"
            /\ pc'[r] = "answered" /\ answer'[r] = 409
         \/ /\ Find(path[r]) # "dir"
            /\ pc'[r] = "mkdir" /\ answer'[r] = answer[r]
  BY <1>1 DEF TypeOK, CheckTarget, Goto, Reply, files, request, local, ghosts
<1>3. Moves(r)
  BY <1>1 DEF TypeOK, Moves, CheckTarget, Goto, Reply, files, request, local,
     ghosts
<1>4. /\ Active(r) /\ Find(path[r]) \in seen[r] /\ ~applied[r]
      /\ alone[r] => Holds(r)
  BY <1>1, <1>2 DEF Sound, Sees, Outcome, Undisturbed, Active
<1>5. Fits(r)
  BY <1>1, <1>2 DEF Fits, TypeOK, Locations, Reading, Deleting, Writing
<1>6. Stages(r)'
  BY <1>1, <1>2, <1>3 DEF Sound, Stages, Moves, Reading, Deleting, Writing
<1>7. TempOf(r)'
  BY <1>1, <1>2, <1>3 DEF Sound, TempOf, Moves
<1>8. Emptying(r)'
  BY <1>2 DEF Emptying
<1>9. pc'[r] = "answered" => Answered(r)'
  <2>1. pc'[r] = "answered" /\ alone[r] =>
          answer'[r] = Answers(op[r], path[r], Find(path[r]))
    BY <1>1, <1>2, <1>4, Documents DEF Holds, IsFile, TypeOK, Sound, Stages,
       Writing
  <2>2. QED
    BY <1>1, <1>2, <1>3, <1>4, <2>1 DEF Answered, Stages, Sound, Moves,
       Reading, Deleting, Writing
<1>10. alone[r] /\ Active(r)' => Holds(r)'
  BY <1>1, <1>2, <1>3, <1>4 DEF Holds, Moves, Active, Find, IsFile, Absent
<1>11. QED
  BY <1>2, <1>3, <1>4, <1>5, <1>6, <1>7, <1>8, <1>9, <1>10, Proceeds

LEMMA SetPermissionsStep ==
  ASSUME Inv, NEW r \in Requests, SetPermissions(r)
  PROVE  Inv'
<1>1. TypeOK /\ Sound(r) /\ path[r] \in Paths
  BY DEF Inv, TypeOK
<1>2. /\ pc[r] = "chmod"
      /\ names'[r] = names[r] /\ opened'[r] = opened[r] /\ got'[r] = got[r]
      /\ \/ /\ Front(path[r]) \in DOMAIN tree
            /\ pc'[r] = "create" /\ answer'[r] = answer[r]
         \/ /\ Front(path[r]) \notin DOMAIN tree
            /\ pc'[r] = "answered" /\ answer'[r] = 500
  BY <1>1 DEF TypeOK, SetPermissions, Goto, Reply, files, request, local,
     ghosts
<1>3. Moves(r)
  BY <1>1 DEF TypeOK, Moves, SetPermissions, Goto, Reply, files, request,
     local, ghosts
<1>4. /\ Active(r) /\ Find(path[r]) \in seen[r] /\ ~applied[r]
      /\ alone[r] => Holds(r)
  BY <1>1, <1>2 DEF Sound, Sees, Outcome, Undisturbed, Active
<1>5. alone[r] => Front(path[r]) \in DOMAIN tree
  <2>1. Front(path[r]) \in Paths
    BY <1>1, <1>2, PathFacts DEF Sound, Stages, Writing
  <2>2. QED
    BY <1>1, <1>2, <1>4, <2>1, Kinds DEF Holds, Find, TypeOK
<1>6. Fits(r)
  BY <1>1, <1>2 DEF Fits, TypeOK, Locations, Reading, Deleting, Writing
<1>7. Stages(r)'
  BY <1>1, <1>2, <1>3 DEF Sound, Stages, Moves, Reading, Deleting, Writing
<1>8. TempOf(r)'
  BY <1>1, <1>2, <1>3 DEF Sound, TempOf, Moves
<1>9. Emptying(r)'
  BY <1>2 DEF Emptying
<1>10. pc'[r] = "answered" => Answered(r)'
  <2>1. pc'[r] = "answered" /\ alone[r] =>
          answer'[r] = Answers(op[r], path[r], Find(path[r]))
    BY <1>1, <1>2, <1>4, <1>5, Documents DEF Holds, IsFile, TypeOK
  <2>2. QED
    BY <1>1, <1>2, <1>3, <1>4, <2>1 DEF Answered, Stages, Sound, Moves,
       Reading, Deleting, Writing
<1>11. alone[r] /\ Active(r)' => Holds(r)'
  BY <1>1, <1>2, <1>3, <1>4, <1>5 DEF Holds, Moves, Active, Find, IsFile,
     Absent
<1>12. QED
  BY <1>2, <1>3, <1>4, <1>6, <1>7, <1>8, <1>9, <1>10, <1>11, Proceeds

LEMMA DropStep ==
  ASSUME Inv, NEW r \in Requests, Drop(r)
  PROVE  Inv'
<1>1. TypeOK /\ Sound(r) /\ path[r] \in Paths
  BY DEF Inv, TypeOK
<1>2. /\ Active(r) /\ pc'[r] = "dropped" /\ answer'[r] = answer[r]
      /\ names'[r] = names[r] /\ opened'[r] = opened[r] /\ got'[r] = got[r]
  BY <1>1 DEF TypeOK, Drop, Goto, Reply, files, request, local, ghosts
<1>3. Moves(r)
  BY <1>1 DEF TypeOK, Moves, Drop, Goto, Reply, files, request, local, ghosts
<1>4. /\ Active(r) /\ Find(path[r]) \in seen[r] /\ ~applied[r]
      /\ alone[r] => Holds(r)
  BY <1>1, <1>2 DEF Sound, Sees, Outcome, Undisturbed, Active
<1>5. Fits(r)
  BY <1>1, <1>2 DEF Fits, TypeOK, Locations, Reading, Deleting, Writing
<1>6. Stages(r)'
  BY <1>1, <1>2, <1>3 DEF Sound, Stages, Moves, Reading, Deleting, Writing
<1>7. TempOf(r)'
  BY <1>1, <1>2, <1>3 DEF Sound, TempOf, Moves, Active
<1>8. Emptying(r)'
  BY <1>2 DEF Emptying
<1>9. QED
  BY <1>2, <1>3, <1>4, <1>5, <1>6, <1>7, <1>8, Proceeds DEF Active

LEMMA UnlinkFailsStep ==
  ASSUME Inv, NEW r \in Requests, ~IsFile(path[r]), Unlink(r)
  PROVE  Inv'
<1>1. TypeOK /\ Sound(r) /\ path[r] \in Paths
  BY DEF Inv, TypeOK
<1>2. /\ pc[r] = "unlink" /\ pc'[r] = "answered" /\ answer'[r] = 500
      /\ names'[r] = names[r] /\ opened'[r] = opened[r] /\ got'[r] = got[r]
  BY <1>1 DEF TypeOK, Unlink, Goto, Reply, files, request, local, ghosts
<1>3. Moves(r)
  BY <1>1 DEF TypeOK, Moves, Unlink, Goto, Reply, files, request, local,
     ghosts
<1>4. /\ Active(r) /\ Find(path[r]) \in seen[r] /\ ~applied[r]
      /\ alone[r] => Holds(r)
  BY <1>1, <1>2 DEF Sound, Sees, Outcome, Undisturbed, Active
<1>5. Fits(r)
  BY <1>1, <1>2 DEF Fits, TypeOK, Locations, Reading, Deleting, Writing
<1>6. Stages(r)'
  BY <1>1, <1>2, <1>3 DEF Sound, Stages, Moves, Reading, Deleting, Writing
<1>7. TempOf(r)'
  BY <1>1, <1>2, <1>3 DEF Sound, TempOf, Moves
<1>8. Emptying(r)'
  BY <1>2 DEF Emptying
<1>9. pc'[r] = "answered" => Answered(r)'
  <2>1. pc'[r] = "answered" /\ alone[r] =>
          answer'[r] = Answers(op[r], path[r], Find(path[r]))
    BY <1>1, <1>2, <1>4, Documents DEF Holds, IsFile, TypeOK
  <2>2. QED
    BY <1>1, <1>2, <1>3, <1>4, <2>1 DEF Answered, Stages, Sound, Moves,
       Reading, Deleting, Writing
<1>10. QED
  BY <1>2, <1>3, <1>4, <1>5, <1>6, <1>7, <1>8, <1>9, Proceeds DEF Active

LEMMA EntryGoneStep ==
  ASSUME Inv, NEW r \in Requests, NEW e,
         ~(opened[r] = inode[path[r]] /\ Exists(e)), RemoveEntry(r, e)
  PROVE  Inv'
<1>1. TypeOK /\ Sound(r) /\ path[r] \in Paths
  BY DEF Inv, TypeOK
<1>2. /\ pc[r] = "empty" /\ pc'[r] = "empty" /\ answer'[r] = answer[r]
      /\ opened'[r] = opened[r] /\ got'[r] = got[r]
      /\ names'[r] = names[r] \ {e} /\ e \in names[r]
  BY <1>1 DEF TypeOK, RemoveEntry, Goto, Reply, files, request, local, ghosts
<1>3. Moves(r)
  BY <1>1 DEF TypeOK, Moves, RemoveEntry, Goto, Reply, files, request, local,
     ghosts
<1>4. /\ Active(r) /\ Find(path[r]) \in seen[r] /\ ~applied[r]
      /\ alone[r] => Holds(r)
  BY <1>1, <1>2 DEF Sound, Sees, Outcome, Undisturbed, Active
<1>5. Entries(path[r])' = Entries(path[r])
  BY <1>3 DEF Moves, Entries, TempsIn
<1>6. alone[r] => e \notin Entries(path[r])
  BY <1>1, <1>2, <1>4, EntryFacts DEF Holds, TypeOK
<1>7. Fits(r)
  BY <1>1, <1>2 DEF Fits, TypeOK, Locations, Reading, Deleting, Writing
<1>8. Stages(r)'
  BY <1>1, <1>2, <1>3 DEF Sound, Stages, Moves, Reading, Deleting, Writing
<1>9. TempOf(r)'
  BY <1>1, <1>2, <1>3 DEF Sound, TempOf, Moves
<1>10. Emptying(r)'
  BY <1>1, <1>2, <1>3 DEF Sound, Emptying, Moves
<1>11. alone[r] /\ Active(r)' => Holds(r)'
  BY <1>1, <1>2, <1>3, <1>4, <1>5, <1>6 DEF Holds, Moves, Active, Find,
     IsFile, Absent
<1>12. QED
  BY <1>2, <1>3, <1>4, <1>7, <1>8, <1>9, <1>10, <1>11, Proceeds

LEMMA DirGoneStep ==
  ASSUME Inv, NEW r \in Requests, ~(Find(path[r]) = "dir" /\ Entries(path[r]) = {}), RemoveDir(r)
  PROVE  Inv'
<1>1. TypeOK /\ Sound(r) /\ path[r] \in Paths
  BY DEF Inv, TypeOK
<1>2. /\ pc[r] = "empty" /\ pc'[r] = "answered" /\ names[r] = {}
      /\ names'[r] = names[r] /\ opened'[r] = opened[r] /\ got'[r] = got[r]
      /\ \/ Find(path[r]) = Absent /\ answer'[r] = 204
         \/ answer'[r] = 500
  BY <1>1 DEF TypeOK, RemoveDir, Goto, Reply, files, request, local, ghosts
<1>3. Moves(r)
  BY <1>1 DEF TypeOK, Moves, RemoveDir, Goto, Reply, files, request, local,
     ghosts
<1>4. /\ Active(r) /\ Find(path[r]) \in seen[r] /\ ~applied[r]
      /\ alone[r] => Holds(r)
  BY <1>1, <1>2 DEF Sound, Sees, Outcome, Undisturbed, Active
<1>5. ~alone[r]
  BY <1>2, <1>4 DEF Holds
<1>6. Fits(r)
  BY <1>1, <1>2 DEF Fits, TypeOK, Locations, Reading, Deleting, Writing
<1>7. Stages(r)'
  BY <1>1, <1>2, <1>3 DEF Sound, Stages, Moves, Reading, Deleting, Writing
<1>8. TempOf(r)'
  BY <1>1, <1>2, <1>3 DEF Sound, TempOf, Moves
<1>9. Emptying(r)'
  BY <1>2 DEF Emptying
<1>10. pc'[r] = "answered" => Answered(r)'
  <2>1. pc'[r] = "answered" /\ alone[r] =>
          answer'[r] = Answers(op[r], path[r], Find(path[r]))
    BY <1>1, <1>2, <1>4, <1>5, Documents DEF Holds, IsFile, TypeOK
  <2>2. QED
    BY <1>1, <1>2, <1>3, <1>4, <2>1 DEF Answered, Stages, Sound, Moves,
       Reading, Deleting, Writing
<1>11. QED
  BY <1>2, <1>3, <1>4, <1>6, <1>7, <1>8, <1>9, <1>10, Proceeds DEF Active

LEMMA ParentThereStep ==
  ASSUME Inv, NEW r \in Requests, Find(Front(path[r])) # Absent, EnsureDirectory(r)
  PROVE  Inv'
<1>1. TypeOK /\ Sound(r) /\ path[r] \in Paths
  BY DEF Inv, TypeOK
<1>2. /\ pc[r] = "mkdir"
      /\ names'[r] = names[r] /\ opened'[r] = opened[r] /\ got'[r] = got[r]
      /\ \/ /\ Find(Front(path[r])) = "dir"
            /\ pc'[r] = "chmod" /\ answer'[r] = answer[r]
         \/ /\ Find(Front(path[r])) # "dir"
            /\ pc'[r] = "answered" /\ answer'[r] = 500
  BY <1>1 DEF TypeOK, EnsureDirectory, Goto, Reply, files, request, local,
     ghosts
<1>3. Moves(r)
  BY <1>1 DEF TypeOK, Moves, EnsureDirectory, Goto, Reply, files, request,
     local, ghosts
<1>4. /\ Active(r) /\ Find(path[r]) \in seen[r] /\ ~applied[r]
      /\ alone[r] => Holds(r)
  BY <1>1, <1>2 DEF Sound, Sees, Outcome, Undisturbed, Active
<1>5. alone[r] => Find(Front(path[r])) = "dir"
  <2>1. path[r] # <<>>
    BY <1>1, <1>2 DEF Sound, Stages, Writing
  <2>2. Find(path[r]) # "notdir" => Find(Front(path[r])) \in {"dir", Absent}
    BY <1>1, <2>1, Kinds DEF Find, TypeOK
  <2>3. QED
    BY <1>2, <1>4, <2>2 DEF Holds
<1>6. Fits(r)
  BY <1>1, <1>2 DEF Fits, TypeOK, Locations, Reading, Deleting, Writing
<1>7. Stages(r)'
  BY <1>1, <1>2, <1>3 DEF Sound, Stages, Moves, Reading, Deleting, Writing
<1>8. TempOf(r)'
  BY <1>1, <1>2, <1>3 DEF Sound, TempOf, Moves
<1>9. Emptying(r)'
  BY <1>2 DEF Emptying
<1>10. pc'[r] = "answered" => Answered(r)'
  <2>1. pc'[r] = "answered" /\ alone[r] =>
          answer'[r] = Answers(op[r], path[r], Find(path[r]))
    BY <1>1, <1>2, <1>4, <1>5, Documents DEF Holds, IsFile, TypeOK
  <2>2. QED
    BY <1>1, <1>2, <1>3, <1>4, <2>1 DEF Answered, Stages, Sound, Moves,
       Reading, Deleting, Writing
<1>11. alone[r] /\ Active(r)' => Holds(r)'
  BY <1>1, <1>2, <1>3, <1>4, <1>5 DEF Holds, Moves, Active, Find, IsFile,
     Absent
<1>12. QED
  BY <1>2, <1>3, <1>4, <1>6, <1>7, <1>8, <1>9, <1>10, <1>11, Proceeds

LEMMA CannotCreateStep ==
  ASSUME Inv, NEW r \in Requests, Find(Front(path[r])) # "dir", CreateTemporary(r)
  PROVE  Inv'
<1>1. TypeOK /\ Sound(r) /\ path[r] \in Paths
  BY DEF Inv, TypeOK
<1>2. /\ pc[r] = "create" /\ pc'[r] = "cleanup" /\ answer'[r] = answer[r]
      /\ names'[r] = names[r] /\ opened'[r] = opened[r] /\ got'[r] = got[r]
  BY <1>1 DEF TypeOK, CreateTemporary, Goto, Reply, files, request, local,
     ghosts
<1>3. Moves(r)
  BY <1>1 DEF TypeOK, Moves, CreateTemporary, Goto, Reply, files, request,
     local, ghosts
<1>4. /\ Active(r) /\ Find(path[r]) \in seen[r] /\ ~applied[r]
      /\ alone[r] => Holds(r)
  BY <1>1, <1>2 DEF Sound, Sees, Outcome, Undisturbed, Active
<1>5. Fits(r)
  BY <1>1, <1>2 DEF Fits, TypeOK, Locations, Reading, Deleting, Writing
<1>6. Stages(r)'
  BY <1>1, <1>2, <1>3 DEF Sound, Stages, Moves, Reading, Deleting, Writing
<1>7. TempOf(r)'
  BY <1>1, <1>2, <1>3 DEF Sound, TempOf, Moves
<1>8. Emptying(r)'
  BY <1>2 DEF Emptying
<1>9. alone[r] /\ Active(r)' => Holds(r)'
  BY <1>1, <1>2, <1>3, <1>4 DEF Holds, Moves, Active, Find, IsFile, Absent
<1>10. QED
  BY <1>2, <1>3, <1>4, <1>5, <1>6, <1>7, <1>8, <1>9, Proceeds

LEMMA RenameFailsStep ==
  ASSUME Inv, NEW r \in Requests, ~(temp[r] # Nothing /\ Find(path[r]) # "dir"), Rename(r)
  PROVE  Inv'
<1>1. TypeOK /\ Sound(r) /\ path[r] \in Paths
  BY DEF Inv, TypeOK
<1>2. /\ pc[r] = "rename" /\ pc'[r] = "cleanup" /\ answer'[r] = answer[r]
      /\ names'[r] = names[r] /\ opened'[r] = opened[r] /\ got'[r] = got[r]
  BY <1>1 DEF TypeOK, Rename, Goto, Reply, files, request, local, ghosts
<1>3. Moves(r)
  BY <1>1 DEF TypeOK, Moves, Rename, Goto, Reply, files, request, local,
     ghosts
<1>4. /\ Active(r) /\ Find(path[r]) \in seen[r] /\ ~applied[r]
      /\ alone[r] => Holds(r)
  BY <1>1, <1>2 DEF Sound, Sees, Outcome, Undisturbed, Active
<1>5. Fits(r)
  BY <1>1, <1>2 DEF Fits, TypeOK, Locations, Reading, Deleting, Writing
<1>6. Stages(r)'
  BY <1>1, <1>2, <1>3 DEF Sound, Stages, Moves, Reading, Deleting, Writing
<1>7. TempOf(r)'
  BY <1>1, <1>2, <1>3 DEF Sound, TempOf, Moves
<1>8. Emptying(r)'
  BY <1>2 DEF Emptying
<1>9. alone[r] /\ Active(r)' => Holds(r)'
  BY <1>1, <1>2, <1>3, <1>4 DEF Holds, Moves, Active, Find, IsFile, Absent
<1>10. QED
  BY <1>2, <1>3, <1>4, <1>5, <1>6, <1>7, <1>8, <1>9, Proceeds

LEMMA UnlinksStep ==
  ASSUME Inv, NEW r \in Requests, IsFile(path[r]), Unlink(r)
  PROVE  Inv'
<1>1. TypeOK /\ Sound(r) /\ path[r] \in Paths
  BY DEF Inv, TypeOK
<1>2. /\ pc[r] = "unlink" /\ pc'[r] = "answered" /\ answer'[r] = 204
  BY <1>1 DEF TypeOK, Unlink, Goto, Reply, files, request, local, ghosts,
     Becomes, Active
<1>3. /\ inode' = inode /\ temp' = temp /\ written' = written /\ op' = op
      /\ path' = path /\ applied' = applied /\ alone' = alone
      /\ names' = names /\ opened' = opened /\ got' = got
      /\ pc' = [pc EXCEPT ![r] = pc'[r]]
      /\ answer' = [answer EXCEPT ![r] = answer'[r]]
      /\ tree' = Without(path[r])
      /\ DOMAIN seen' = Requests
      /\ \A q \in Requests : /\ seen[q] \subseteq seen'[q]
                             /\ Active(q) => Lookup(tree', path[q]) \in seen'[q]
                             /\ ~Active(q) => seen'[q] = seen[q]
  BY <1>1 DEF TypeOK, Unlink, Goto, Reply, files, request, local, ghosts,
     Becomes, Active
<1>4. /\ Active(r) /\ Find(path[r]) \in seen[r] /\ ~applied[r]
      /\ alone[r] => Holds(r)
  BY <1>1, <1>2 DEF Sound, Sees, Outcome, Undisturbed, Active
<1>5. /\ path[r] \in DOMAIN tree /\ tree[path[r]] # "dir" /\ path[r] # <<>>
      /\ op[r] = "delete"
  BY <1>1, <1>2, Kinds, Looked
     DEF IsFile, Find, TypeOK, Sound, Stages, Deleting
<1>6. /\ IsTree(tree') /\ Lookup(tree', path[r]) = Absent
      /\ DOMAIN tree' = DOMAIN tree \ {path[r]}
      /\ \A q \in DOMAIN tree \ {path[r]} : tree'[q] = tree[q]
  <2> DEFINE x == path[r]
  <2>1. IsTree(tree) /\ x \in DOMAIN tree /\ x # <<>>
    BY <1>1, <1>5 DEF TypeOK
  <2>2. tree[x] # "dir" \/ \A q \in DOMAIN tree : q # <<>> => Front(q) # x
    BY <1>5
  <2>3. /\ IsTree(Without(x)) /\ Lookup(Without(x), x) = Absent
        /\ DOMAIN Without(x) = DOMAIN tree \ {x}
        /\ \A q \in DOMAIN tree \ {x} : Without(x)[q] = tree[q]
    <3> HIDE DEF x
    <3>1. QED
      BY <2>1, <2>2, Unlinked
  <2>4. QED
    BY <1>3, <2>3
<1>7. TypeOK'
  BY <1>1, <1>2, <1>3, <1>6 DEF TypeOK, Locations, Reading, Deleting, Writing
<1>8. ASSUME NEW q \in Requests \ {r} PROVE Sound(q)'
  <2>1. Sound(q)
    BY DEF Inv
  <2>2. Aside(q)
    BY <1>1, <1>3, <2>1, <1>5, <1>6 DEF TypeOK, Sound, Sees, TempOf, Find,
       Aside
  <2>3. QED
    BY <1>4, <2>2, Bystander
<1>9. Stages(r)'
  BY <1>1, <1>2, <1>3 DEF Sound, Stages, Reading, Deleting, Writing
<1>10. Sees(r)'
  BY <1>1, <1>2, <1>3, <1>4, <1>5, <1>6 DEF Sound, Sees, Active, Find
<1>11. TempOf(r)'
  BY <1>1, <1>2, <1>3 DEF Sound, TempOf
<1>12. Emptying(r)'
  BY <1>2 DEF Emptying
<1>13. Outcome(r)'
  <2>1. pc'[r] = "answered" /\ alone[r] =>
          answer'[r] = Answers(op[r], path[r], Find(path[r]))
    BY <1>1, <1>2, <1>3, <1>4, <1>5, <1>6, Documents DEF Holds, IsFile, TypeOK
  <2>2. pc'[r] = "answered" => Answered(r)'
    BY <1>1, <1>2, <1>3, <1>4, <1>5, <1>6, <2>1 DEF Answered, Stages, Sound,
       Reading, Deleting, Writing
  <2>3. QED
    BY <1>1, <1>2, <1>3, <1>4, <2>2 DEF Sound, Outcome, Active
<1>14. Undisturbed(r)'
  <2>1. ASSUME alone'[r], Active(r)' PROVE Holds(r)'
    BY <1>1, <1>2, <1>3, <1>4, <1>5, <1>6, <2>1 DEF Holds, Active, Find,
       IsFile, Absent
  <2>2. QED
    BY <1>1, <1>3, <1>4, <2>1 DEF Sound, Undisturbed, Active, TypeOK
<1>15. QED
  BY <1>7, <1>8, <1>9, <1>10, <1>11, <1>12, <1>13, <1>14
     DEF Inv, Sound

LEMMA RemovesDirStep ==
  ASSUME Inv, NEW r \in Requests, Find(path[r]) = "dir",
         Entries(path[r]) = {}, RemoveDir(r)
  PROVE  Inv'
<1>1. TypeOK /\ Sound(r) /\ path[r] \in Paths
  BY DEF Inv, TypeOK
<1>2. /\ pc[r] = "empty" /\ pc'[r] = "answered" /\ answer'[r] = 204
  BY <1>1 DEF TypeOK, RemoveDir, Goto, Reply, files, request, local, ghosts,
     Becomes, Active, Absent
<1>3. /\ inode' = inode /\ temp' = temp /\ written' = written /\ op' = op
      /\ path' = path /\ applied' = applied /\ alone' = alone
      /\ names' = names /\ opened' = opened /\ got' = got
      /\ pc' = [pc EXCEPT ![r] = pc'[r]]
      /\ answer' = [answer EXCEPT ![r] = answer'[r]]
      /\ tree' = Without(path[r])
      /\ DOMAIN seen' = Requests
      /\ \A q \in Requests : /\ seen[q] \subseteq seen'[q]
                             /\ Active(q) => Lookup(tree', path[q]) \in seen'[q]
                             /\ ~Active(q) => seen'[q] = seen[q]
  BY <1>1 DEF TypeOK, RemoveDir, Goto, Reply, files, request, local, ghosts,
     Becomes, Active, Absent
<1>4. /\ Active(r) /\ Find(path[r]) \in seen[r] /\ ~applied[r]
      /\ alone[r] => Holds(r)
  BY <1>1, <1>2 DEF Sound, Sees, Outcome, Undisturbed, Active
<1>5. /\ path[r] \in DOMAIN tree /\ path[r] # <<>> /\ op[r] = "delete"
      /\ \A q \in DOMAIN tree : q # <<>> => Front(q) # path[r]
      /\ \A q \in Requests : temp[q] # path[r]
  BY <1>1, <1>2, Kinds
     DEF Find, TypeOK, Sound, Stages, Deleting, Entries, TempsIn
<1>6. /\ IsTree(tree') /\ Lookup(tree', path[r]) = Absent
      /\ DOMAIN tree' = DOMAIN tree \ {path[r]}
      /\ \A q \in DOMAIN tree \ {path[r]} : tree'[q] = tree[q]
  <2> DEFINE x == path[r]
  <2>1. IsTree(tree) /\ x \in DOMAIN tree /\ x # <<>>
    BY <1>1, <1>5 DEF TypeOK
  <2>2. tree[x] # "dir" \/ \A q \in DOMAIN tree : q # <<>> => Front(q) # x
    BY <1>5
  <2>3. /\ IsTree(Without(x)) /\ Lookup(Without(x), x) = Absent
        /\ DOMAIN Without(x) = DOMAIN tree \ {x}
        /\ \A q \in DOMAIN tree \ {x} : Without(x)[q] = tree[q]
    <3> HIDE DEF x
    <3>1. QED
      BY <2>1, <2>2, Unlinked
  <2>4. QED
    BY <1>3, <2>3
<1>7. TypeOK'
  BY <1>1, <1>2, <1>3, <1>6 DEF TypeOK, Locations, Reading, Deleting, Writing
<1>8. ASSUME NEW q \in Requests \ {r} PROVE Sound(q)'
  <2>1. Sound(q)
    BY DEF Inv
  <2>2. Aside(q)
    BY <1>1, <1>3, <2>1, <1>5, <1>6 DEF TypeOK, Sound, Sees, TempOf, Find,
       Aside
  <2>3. QED
    BY <1>4, <2>2, Bystander
<1>9. Stages(r)'
  BY <1>1, <1>2, <1>3 DEF Sound, Stages, Reading, Deleting, Writing
<1>10. Sees(r)'
  BY <1>1, <1>2, <1>3, <1>4, <1>5, <1>6 DEF Sound, Sees, Active, Find
<1>11. TempOf(r)'
  BY <1>1, <1>2, <1>3 DEF Sound, TempOf
<1>12. Emptying(r)'
  BY <1>2 DEF Emptying
<1>13. Outcome(r)'
  <2>1. pc'[r] = "answered" /\ alone[r] =>
          answer'[r] = Answers(op[r], path[r], Find(path[r]))
    BY <1>2, <1>5, Documents DEF Absent
  <2>2. pc'[r] = "answered" => Answered(r)'
    BY <1>1, <1>2, <1>3, <1>4, <1>5, <1>6, <2>1 DEF Answered, Stages, Sound,
       Reading, Deleting, Writing
  <2>3. QED
    BY <1>1, <1>2, <1>3, <1>4, <2>2 DEF Sound, Outcome, Active
<1>14. Undisturbed(r)'
  <2>1. ASSUME alone'[r], Active(r)' PROVE Holds(r)'
    BY <1>1, <1>2, <1>3, <1>4, <1>5, <1>6, <2>1 DEF Holds, Active, Find,
       IsFile, Absent
  <2>2. QED
    BY <1>1, <1>3, <1>4, <2>1 DEF Sound, Undisturbed, Active, TypeOK
<1>15. QED
  BY <1>7, <1>8, <1>9, <1>10, <1>11, <1>12, <1>13, <1>14
     DEF Inv, Sound

LEMMA RemovesTempStep ==
  ASSUME Inv, NEW r \in Requests, NEW e \in Requests,
         opened[r] = inode[path[r]], Exists(e), RemoveEntry(r, e)
  PROVE  Inv'
<1>1. TypeOK /\ Sound(r) /\ path[r] \in Paths
  BY DEF Inv, TypeOK
<1>2. /\ pc[r] = "empty" /\ e \in names[r] /\ names'[r] = names[r] \ {e}
  BY <1>1 DEF TypeOK, RemoveEntry, Goto, Reply, files, request, local, ghosts,
     Becomes, Active
<1>3. /\ tree' = tree /\ inode' = inode /\ written' = written /\ op' = op
      /\ path' = path /\ pc' = pc /\ answer' = answer /\ opened' = opened
      /\ got' = got /\ seen' = seen /\ applied' = applied /\ alone' = alone
      /\ names' = [names EXCEPT ![r] = names'[r]]
      /\ temp' = [temp EXCEPT ![e] = Nothing]
  BY <1>1 DEF TypeOK, RemoveEntry, Goto, Reply, files, request, local, ghosts,
     Becomes, Active
<1>4. /\ Active(r) /\ Find(path[r]) \in seen[r] /\ ~applied[r]
      /\ alone[r] => Holds(r)
  BY <1>1, <1>2 DEF Sound, Sees, Outcome, Undisturbed, Active
<1>5. Entries(path[r])' \subseteq Entries(path[r]) \ {e}
  <2>1. e \notin DOMAIN tree
    BY <1>1, Apart, InTree DEF TypeOK
  <2>2. temp'[e] # path[r]
    BY <1>1, <1>3, Apart DEF TypeOK
  <2>3. QED
    BY <1>1, <1>3, <2>1, <2>2 DEF Entries, TempsIn, TypeOK
<1>6. TypeOK'
  BY <1>1, <1>2, <1>3 DEF TypeOK, Locations, Reading, Deleting, Writing
<1>7. ASSUME NEW q \in Requests \ {r} PROVE Sound(q)'
  <2>1. Sound(q)
    BY DEF Inv
  <2>2. Aside(q)
    BY <1>1, <1>3, <2>1 DEF TypeOK, Sound, Sees, TempOf, Find, Aside
  <2>3. QED
    BY <1>4, <2>2, Bystander
<1>8. Stages(r)'
  BY <1>1, <1>2, <1>3 DEF Sound, Stages, Reading, Deleting, Writing
<1>9. Sees(r)'
  BY <1>1, <1>2, <1>3, <1>4, <1>5 DEF Sound, Sees, Active, Find
<1>10. TempOf(r)'
  BY <1>1, <1>2, <1>3 DEF Sound, TempOf
<1>11. Emptying(r)'
  BY <1>1, <1>2, <1>3 DEF Sound, Emptying
<1>12. Outcome(r)'
  <2>1. pc'[r] = "answered" /\ alone[r] =>
          answer'[r] = Answers(op[r], path[r], Find(path[r]))
    BY <1>1, <1>2, <1>3, <1>4, <1>5, Documents DEF Holds, IsFile, TypeOK
  <2>2. pc'[r] = "answered" => Answered(r)'
    BY <1>1, <1>2, <1>3, <1>4, <1>5, <2>1 DEF Answered, Stages, Sound,
       Reading, Deleting, Writing
  <2>3. QED
    BY <1>1, <1>2, <1>3, <1>4, <2>2 DEF Sound, Outcome, Active
<1>13. Undisturbed(r)'
  <2>1. ASSUME alone'[r], Active(r)' PROVE Holds(r)'
    BY <1>1, <1>2, <1>3, <1>4, <1>5, <2>1 DEF Holds, Active, Find, IsFile,
       Absent
  <2>2. QED
    BY <1>1, <1>3, <1>4, <2>1 DEF Sound, Undisturbed, Active, TypeOK
<1>14. QED
  BY <1>6, <1>7, <1>8, <1>9, <1>10, <1>11, <1>12, <1>13
     DEF Inv, Sound

LEMMA RemovesFileStep ==
  ASSUME Inv, NEW r \in Requests, NEW e, e \notin Requests,
         opened[r] = inode[path[r]], Exists(e), RemoveEntry(r, e)
  PROVE  Inv'
<1>1. TypeOK /\ Sound(r) /\ path[r] \in Paths
  BY DEF Inv, TypeOK
<1>2. /\ pc[r] = "empty" /\ e \in names[r] /\ names'[r] = names[r] \ {e}
  BY <1>1 DEF TypeOK, RemoveEntry, Goto, Reply, files, request, local, ghosts,
     Becomes, Active
<1>3. /\ inode' = inode /\ temp' = temp /\ written' = written /\ op' = op
      /\ path' = path /\ pc' = pc /\ answer' = answer /\ opened' = opened
      /\ got' = got /\ applied' = applied /\ alone' = alone
      /\ names' = [names EXCEPT ![r] = names'[r]]
      /\ tree' = Without(e)
      /\ DOMAIN seen' = Requests
      /\ \A q \in Requests : /\ seen[q] \subseteq seen'[q]
                             /\ Active(q) => Lookup(tree', path[q]) \in seen'[q]
                             /\ ~Active(q) => seen'[q] = seen[q]
  BY <1>1 DEF TypeOK, RemoveEntry, Goto, Reply, files, request, local, ghosts,
     Becomes, Active
<1>4. /\ Active(r) /\ Find(path[r]) \in seen[r] /\ ~applied[r]
      /\ alone[r] => Holds(r)
  BY <1>1, <1>2 DEF Sound, Sees, Outcome, Undisturbed, Active
<1>5. e \in DOMAIN tree /\ e # <<>> /\ tree[e] # "dir" /\ e # path[r]
  <2>1. e \in DOMAIN tree
    BY DEF Exists
  <2>2. Len(e) = 2 /\ Len(path[r]) = 1
    BY <1>1, <1>2 DEF Sound, Emptying
  <2>3. e \in Paths /\ tree[e] # "dir"
    BY <1>1, <2>1, <2>2, InTree DEF TypeOK
  <2>4. e # <<>> /\ e # path[r]
    <3>1. Len(<<>>) = 0
      OBVIOUS
    <3>2. QED
      BY <2>2, <3>1
  <2>5. QED
    BY <2>1, <2>3, <2>4
<1>6. /\ IsTree(tree') /\ DOMAIN tree' = DOMAIN tree \ {e}
      /\ \A q \in DOMAIN tree \ {e} : tree'[q] = tree[q]
  <2>1. IsTree(tree)
    BY <1>1 DEF TypeOK
  <2>2. /\ IsTree(Without(e)) /\ DOMAIN Without(e) = DOMAIN tree \ {e}
        /\ \A q \in DOMAIN tree \ {e} : Without(e)[q] = tree[q]
    BY <1>5, <2>1, Unlinked
  <2>3. QED
    BY <1>3, <2>2
<1>7. Entries(path[r])' \subseteq Entries(path[r]) \ {e}
  BY <1>1, <1>3, <1>5, <1>6 DEF Entries, TempsIn, TypeOK
<1>8. Find(path[r]) = "dir" => Find(path[r])' = "dir"
  <2>1. HAVE Find(path[r]) = "dir"
  <2>2. path[r] \in DOMAIN tree /\ tree[path[r]] = "dir"
    BY <1>1, <2>1, Kinds DEF Find, TypeOK
  <2>3. path[r] \in DOMAIN tree' /\ tree'[path[r]] = "dir"
    BY <1>5, <1>6, <2>2
  <2>4. Lookup(tree', path[r]) = "dir"
    BY <1>1, <1>6, <2>3, Kinds
  <2>5. QED
    BY <1>3, <2>4 DEF Find
<1>9. TypeOK'
  BY <1>1, <1>2, <1>3, <1>6 DEF TypeOK, Locations, Reading, Deleting, Writing
<1>10. ASSUME NEW q \in Requests \ {r} PROVE Sound(q)'
  <2>1. Sound(q)
    BY DEF Inv
  <2>2. Aside(q)
    BY <1>1, <1>3, <2>1, <1>5, <1>6 DEF TypeOK, Sound, Sees, TempOf, Find,
       Aside
  <2>3. QED
    BY <1>4, <2>2, Bystander
<1>11. Stages(r)'
  BY <1>1, <1>2, <1>3 DEF Sound, Stages, Reading, Deleting, Writing
<1>12. Sees(r)'
  BY <1>1, <1>2, <1>3, <1>4, <1>5, <1>6, <1>7, <1>8 DEF Sound, Sees, Active,
     Find
<1>13. TempOf(r)'
  BY <1>1, <1>2, <1>3 DEF Sound, TempOf
<1>14. Emptying(r)'
  BY <1>1, <1>2, <1>3 DEF Sound, Emptying
<1>15. Outcome(r)'
  <2>1. pc'[r] = "answered" /\ alone[r] =>
          answer'[r] = Answers(op[r], path[r], Find(path[r]))
    BY <1>1, <1>2, <1>3, <1>4, <1>5, <1>6, <1>7, <1>8, Documents
       DEF Holds, IsFile, TypeOK
  <2>2. pc'[r] = "answered" => Answered(r)'
    BY <1>1, <1>2, <1>3, <1>4, <1>5, <1>6, <1>7, <1>8, <2>1 DEF Answered,
       Stages, Sound, Reading, Deleting, Writing
  <2>3. QED
    BY <1>1, <1>2, <1>3, <1>4, <2>2 DEF Sound, Outcome, Active
<1>16. Undisturbed(r)'
  <2>1. ASSUME alone'[r], Active(r)' PROVE Holds(r)'
    BY <1>1, <1>2, <1>3, <1>4, <1>5, <1>6, <1>7, <1>8, <2>1 DEF Holds, Active,
       Find, IsFile, Absent
  <2>2. QED
    BY <1>1, <1>3, <1>4, <2>1 DEF Sound, Undisturbed, Active, TypeOK
<1>17. QED
  BY <1>9, <1>10, <1>11, <1>12, <1>13, <1>14, <1>15, <1>16
     DEF Inv, Sound

LEMMA MakesParentStep ==
  ASSUME Inv, NEW r \in Requests, Find(Front(path[r])) = Absent, EnsureDirectory(r)
  PROVE  Inv'
<1>1. TypeOK /\ Sound(r) /\ path[r] \in Paths
  BY DEF Inv, TypeOK
<1>2. /\ pc[r] = "mkdir" /\ pc'[r] = "chmod"
      /\ inode' = [inode EXCEPT ![Front(path[r])] = @ + 1]
  BY <1>1 DEF TypeOK, EnsureDirectory, Goto, Reply, files, request, local,
     ghosts, Becomes, Active
<1>3. /\ temp' = temp /\ written' = written /\ op' = op /\ path' = path
      /\ answer' = answer /\ applied' = applied /\ alone' = alone
      /\ names' = names /\ opened' = opened /\ got' = got
      /\ pc' = [pc EXCEPT ![r] = pc'[r]]
      /\ tree' = With(Front(path[r]), "dir")
      /\ DOMAIN seen' = Requests
      /\ \A q \in Requests : /\ seen[q] \subseteq seen'[q]
                             /\ Active(q) => Lookup(tree', path[q]) \in seen'[q]
                             /\ ~Active(q) => seen'[q] = seen[q]
  BY <1>1 DEF TypeOK, EnsureDirectory, Goto, Reply, files, request, local,
     ghosts, Becomes, Active
<1>4. /\ Active(r) /\ Find(path[r]) \in seen[r] /\ ~applied[r]
      /\ alone[r] => Holds(r)
  BY <1>1, <1>2 DEF Sound, Sees, Outcome, Undisturbed, Active
<1>5. path[r] # <<>> /\ Front(path[r]) \in Paths
  BY <1>1, <1>2, PathFacts DEF Sound, Stages, Writing
<1>6. /\ Front(path[r]) \notin DOMAIN tree /\ Front(path[r]) # <<>>
      /\ Len(Front(path[r])) = 1 /\ Front(Front(path[r])) = <<>>
      /\ <<>> \in DOMAIN tree /\ tree[<<>>] = "dir"
  <2>1. <<>> \in DOMAIN tree /\ tree[<<>>] = "dir" /\ IsTree(tree)
    BY <1>1 DEF IsTree, TypeOK
  <2>2. Front(path[r]) \notin DOMAIN tree
    BY <1>5, <2>1, Kinds DEF Find
  <2>3. Front(path[r]) # <<>>
    BY <2>1, <2>2
  <2>4. Len(path[r]) \in {0, 1, 2} /\ Len(Front(path[r])) = Len(path[r]) - 1
    BY <1>1, <1>5, PathFacts
  <2>5. Len(Front(path[r])) = 1
    <3>1. Len(Front(path[r])) # 0
      BY <1>5, <2>3, PathFacts
    <3>2. Len(path[r]) # 0
      BY <1>1, <1>5, PathFacts
    <3>3. QED
      BY <2>4, <3>1, <3>2
  <2>6. QED
    BY <1>5, <2>1, <2>2, <2>3, <2>5, PathFacts
<1>7. /\ IsTree(tree') /\ Lookup(tree', Front(path[r])) = "dir"
      /\ DOMAIN tree' = DOMAIN tree \cup {Front(path[r])}
      /\ \A q \in DOMAIN tree : tree'[q] = tree[q]
  <2>1. "dir" \notin {"notdir", Absent, Partial} /\ Absent # "dir"
    BY DEF Absent, Partial
  <2>2. Lookup(tree, Front(path[r])) # "dir"
    BY <2>1 DEF Find
  <2>3. IsTree(tree)
    BY <1>1 DEF TypeOK
  <2> DEFINE d == Front(path[r])
  <2>4. /\ IsTree(With(d, "dir")) /\ Lookup(With(d, "dir"), d) = "dir"
        /\ DOMAIN With(d, "dir") = DOMAIN tree \cup {d}
        /\ \A q \in DOMAIN tree \ {d} : With(d, "dir")[q] = tree[q]
    <3> HIDE DEF d
    <3>1. /\ d \in Paths /\ d # <<>> /\ Len(d) = 1 /\ Lookup(tree, d) # "dir"
          /\ Front(d) \in DOMAIN tree /\ tree[Front(d)] = "dir"
      BY <1>5, <1>6, <2>2 DEF d
    <3>2. QED
      BY <2>1, <2>3, <3>1, Put
  <2>5. QED
    BY <1>3, <1>6, <2>4
<1>8. Lookup(tree', path[r]) = Absent
  <2>1. path[r] \notin DOMAIN tree
    BY <1>1, <1>5, <1>6, InTree DEF TypeOK
  <2>2. path[r] \notin DOMAIN tree' /\ Front(path[r]) \in DOMAIN tree'
    BY <1>1, <1>5, <1>7, <2>1, PathFacts
  <2>3. tree'[Front(path[r])] = "dir"
    BY <1>5, <1>7, <2>2, Looked
  <2>4. QED
    BY <1>1, <1>7, <2>2, <2>3, Looked
<1>9. TypeOK'
  <2>1. inode' \in [Paths -> Nat]
    BY <1>1, <1>2, <1>5 DEF TypeOK
  <2>2. QED
    BY <1>1, <1>2, <1>3, <1>7, <2>1
       DEF TypeOK, Locations, Reading, Deleting, Writing
<1>10. ASSUME NEW q \in Requests \ {r} PROVE Sound(q)'
  <2>1. Sound(q)
    BY DEF Inv
  <2>2. Aside(q)
    BY <1>1, <1>3, <2>1, <1>6, <1>7 DEF TypeOK, Sound, Sees, TempOf, Find,
       Aside
  <2>3. QED
    BY <1>4, <2>2, Bystander
<1>11. Stages(r)'
  BY <1>1, <1>2, <1>3 DEF Sound, Stages, Reading, Deleting, Writing
<1>12. Sees(r)'
  BY <1>1, <1>2, <1>3, <1>4, <1>5, <1>6, <1>7, <1>8 DEF Sound, Sees, Active,
     Find
<1>13. TempOf(r)'
  BY <1>1, <1>2, <1>3 DEF Sound, TempOf
<1>14. Emptying(r)'
  BY <1>2 DEF Emptying
<1>15. Outcome(r)'
  <2>1. pc'[r] = "answered" /\ alone[r] =>
          answer'[r] = Answers(op[r], path[r], Find(path[r]))
    BY <1>1, <1>2, <1>3, <1>4, <1>5, <1>6, <1>7, <1>8, Documents
       DEF Holds, IsFile, TypeOK
  <2>2. pc'[r] = "answered" => Answered(r)'
    BY <1>1, <1>2, <1>3, <1>4, <1>5, <1>6, <1>7, <1>8, <2>1 DEF Answered,
       Stages, Sound, Reading, Deleting, Writing
  <2>3. QED
    BY <1>1, <1>2, <1>3, <1>4, <2>2 DEF Sound, Outcome, Active
<1>16. Undisturbed(r)'
  <2>1. ASSUME alone'[r], Active(r)' PROVE Holds(r)'
    BY <1>1, <1>2, <1>3, <1>4, <1>5, <1>6, <1>7, <1>8, <2>1 DEF Holds, Active,
       Find, IsFile, Absent
  <2>2. QED
    BY <1>1, <1>3, <1>4, <2>1 DEF Sound, Undisturbed, Active, TypeOK
<1>17. QED
  BY <1>9, <1>10, <1>11, <1>12, <1>13, <1>14, <1>15, <1>16
     DEF Inv, Sound

LEMMA CreatesStep ==
  ASSUME Inv, NEW r \in Requests, Find(Front(path[r])) = "dir", CreateTemporary(r)
  PROVE  Inv'
<1>1. TypeOK /\ Sound(r) /\ path[r] \in Paths
  BY DEF Inv, TypeOK
<1>2. /\ pc[r] = "create" /\ pc'[r] = "write"
      /\ temp' = [temp EXCEPT ![r] = Front(path[r])]
  BY <1>1 DEF TypeOK, CreateTemporary, Goto, Reply, files, request, local,
     ghosts
<1>3. /\ tree' = tree /\ inode' = inode /\ written' = written /\ op' = op
      /\ path' = path /\ answer' = answer /\ seen' = seen
      /\ applied' = applied /\ alone' = alone /\ names' = names
      /\ opened' = opened /\ got' = got
      /\ pc' = [pc EXCEPT ![r] = pc'[r]]
  BY <1>1 DEF TypeOK, CreateTemporary, Goto, Reply, files, request, local,
     ghosts
<1>4. /\ Active(r) /\ Find(path[r]) \in seen[r] /\ ~applied[r]
      /\ alone[r] => Holds(r)
  BY <1>1, <1>2 DEF Sound, Sees, Outcome, Undisturbed, Active
<1>5. /\ Front(path[r]) \in Paths /\ Front(path[r]) # Nothing /\ op[r] = "put"
      /\ Front(path[r]) \in DOMAIN tree /\ tree[Front(path[r])] = "dir"
  <2>1. Front(path[r]) \in Paths /\ op[r] = "put"
    BY <1>1, <1>2, PathFacts DEF Sound, Stages, Writing
  <2>2. QED
    BY <1>1, <2>1, Kinds, Apart DEF Find, TypeOK
<1>6. TypeOK'
  BY <1>1, <1>2, <1>3, <1>5 DEF TypeOK, Locations, Reading, Deleting, Writing
<1>7. ASSUME NEW q \in Requests \ {r} PROVE Sound(q)'
  <2>1. Sound(q)
    BY DEF Inv
  <2>2. Aside(q)
    BY <1>1, <1>3, <2>1, <1>2 DEF TypeOK, Sound, Sees, TempOf, Find, Aside
  <2>3. QED
    BY <1>4, <2>2, Bystander
<1>8. Stages(r)'
  BY <1>1, <1>2, <1>3 DEF Sound, Stages, Reading, Deleting, Writing
<1>9. Sees(r)'
  BY <1>1, <1>2, <1>3, <1>4, <1>5 DEF Sound, Sees, Active, Find
<1>10. TempOf(r)'
  BY <1>1, <1>2, <1>3, <1>4, <1>5 DEF Sound, TempOf, TypeOK
<1>11. Emptying(r)'
  BY <1>2 DEF Emptying
<1>12. Outcome(r)'
  <2>1. pc'[r] = "answered" /\ alone[r] =>
          answer'[r] = Answers(op[r], path[r], Find(path[r]))
    BY <1>1, <1>2, <1>3, <1>4, <1>5, Documents DEF Holds, IsFile, TypeOK
  <2>2. pc'[r] = "answered" => Answered(r)'
    BY <1>1, <1>2, <1>3, <1>4, <1>5, <2>1 DEF Answered, Stages, Sound,
       Reading, Deleting, Writing
  <2>3. QED
    BY <1>1, <1>2, <1>3, <1>4, <2>2 DEF Sound, Outcome, Active
<1>13. Undisturbed(r)'
  <2>1. ASSUME alone'[r], Active(r)' PROVE Holds(r)'
    BY <1>1, <1>2, <1>3, <1>4, <1>5, <2>1 DEF Holds, Active, Find, IsFile,
       Absent, TypeOK
  <2>2. QED
    BY <1>1, <1>3, <1>4, <2>1 DEF Sound, Undisturbed, Active, TypeOK
<1>14. QED
  BY <1>6, <1>7, <1>8, <1>9, <1>10, <1>11, <1>12, <1>13
     DEF Inv, Sound

LEMMA WriteAllStep ==
  ASSUME Inv, NEW r \in Requests, WriteAll(r)
  PROVE  Inv'
<1>1. TypeOK /\ Sound(r) /\ path[r] \in Paths
  BY DEF Inv, TypeOK
<1>2. /\ pc[r] = "write" /\ pc'[r] = "rename"
      /\ written' = [written EXCEPT ![r] = TRUE]
  BY <1>1 DEF TypeOK, WriteAll, Goto, Reply, files, request, local, ghosts
<1>3. /\ tree' = tree /\ inode' = inode /\ temp' = temp /\ op' = op
      /\ path' = path /\ answer' = answer /\ seen' = seen
      /\ applied' = applied /\ alone' = alone /\ names' = names
      /\ opened' = opened /\ got' = got
      /\ pc' = [pc EXCEPT ![r] = pc'[r]]
  BY <1>1 DEF TypeOK, WriteAll, Goto, Reply, files, request, local, ghosts
<1>4. /\ Active(r) /\ Find(path[r]) \in seen[r] /\ ~applied[r]
      /\ alone[r] => Holds(r)
  BY <1>1, <1>2 DEF Sound, Sees, Outcome, Undisturbed, Active
<1>5. TypeOK'
  BY <1>1, <1>2, <1>3 DEF TypeOK, Locations, Reading, Deleting, Writing
<1>6. ASSUME NEW q \in Requests \ {r} PROVE Sound(q)'
  <2>1. Sound(q)
    BY DEF Inv
  <2>2. Aside(q)
    BY <1>1, <1>3, <2>1, <1>2 DEF TypeOK, Sound, Sees, TempOf, Find, Aside
  <2>3. QED
    BY <1>4, <2>2, Bystander
<1>7. Stages(r)'
  BY <1>1, <1>2, <1>3 DEF Sound, Stages, Reading, Deleting, Writing
<1>8. Sees(r)'
  BY <1>1, <1>2, <1>3, <1>4 DEF Sound, Sees, Active, Find
<1>9. TempOf(r)'
  BY <1>1, <1>2, <1>3 DEF Sound, TempOf, TypeOK
<1>10. Emptying(r)'
  BY <1>2 DEF Emptying
<1>11. Outcome(r)'
  <2>1. pc'[r] = "answered" /\ alone[r] =>
          answer'[r] = Answers(op[r], path[r], Find(path[r]))
    BY <1>1, <1>2, <1>3, <1>4, Documents DEF Holds, IsFile, TypeOK
  <2>2. pc'[r] = "answered" => Answered(r)'
    BY <1>1, <1>2, <1>3, <1>4, <2>1 DEF Answered, Stages, Sound, Reading,
       Deleting, Writing
  <2>3. QED
    BY <1>1, <1>2, <1>3, <1>4, <2>2 DEF Sound, Outcome, Active
<1>12. Undisturbed(r)'
  <2>1. ASSUME alone'[r], Active(r)' PROVE Holds(r)'
    BY <1>1, <1>2, <1>3, <1>4, <2>1 DEF Holds, Active, Find, IsFile, Absent
  <2>2. QED
    BY <1>1, <1>3, <1>4, <2>1 DEF Sound, Undisturbed, Active, TypeOK
<1>13. QED
  BY <1>5, <1>6, <1>7, <1>8, <1>9, <1>10, <1>11, <1>12
     DEF Inv, Sound

LEMMA WriteFailsStep ==
  ASSUME Inv, NEW r \in Requests, WriteFails(r)
  PROVE  Inv'
<1>1. TypeOK /\ Sound(r) /\ path[r] \in Paths
  BY DEF Inv, TypeOK
<1>2. /\ pc[r] = "write" /\ pc'[r] = "cleanup"
      /\ alone' = [alone EXCEPT ![r] = FALSE]
  BY <1>1 DEF TypeOK, WriteFails, Goto, Reply, files, request, local, ghosts
<1>3. /\ tree' = tree /\ inode' = inode /\ temp' = temp
      /\ written' = written /\ op' = op /\ path' = path /\ answer' = answer
      /\ seen' = seen /\ applied' = applied /\ names' = names
      /\ opened' = opened /\ got' = got
      /\ pc' = [pc EXCEPT ![r] = pc'[r]]
  BY <1>1 DEF TypeOK, WriteFails, Goto, Reply, files, request, local, ghosts
<1>4. /\ Active(r) /\ Find(path[r]) \in seen[r] /\ ~applied[r]
      /\ alone[r] => Holds(r)
  BY <1>1, <1>2 DEF Sound, Sees, Outcome, Undisturbed, Active
<1>5. TypeOK'
  BY <1>1, <1>2, <1>3 DEF TypeOK, Locations, Reading, Deleting, Writing
<1>6. ASSUME NEW q \in Requests \ {r} PROVE Sound(q)'
  <2>1. Sound(q)
    BY DEF Inv
  <2>2. Aside(q)
    BY <1>1, <1>3, <2>1, <1>2 DEF TypeOK, Sound, Sees, TempOf, Find, Aside
  <2>3. QED
    BY <1>4, <2>2, Bystander
<1>7. Stages(r)'
  BY <1>1, <1>2, <1>3 DEF Sound, Stages, Reading, Deleting, Writing
<1>8. Sees(r)'
  BY <1>1, <1>2, <1>3, <1>4 DEF Sound, Sees, Active, Find
<1>9. TempOf(r)'
  BY <1>1, <1>2, <1>3 DEF Sound, TempOf
<1>10. Emptying(r)'
  BY <1>2 DEF Emptying
<1>11. Outcome(r)'
  <2>1. pc'[r] = "answered" /\ alone[r] =>
          answer'[r] = Answers(op[r], path[r], Find(path[r]))
    BY <1>1, <1>2, <1>3, <1>4, Documents DEF Holds, IsFile, TypeOK
  <2>2. pc'[r] = "answered" => Answered(r)'
    BY <1>1, <1>2, <1>3, <1>4, <2>1 DEF Answered, Stages, Sound, Reading,
       Deleting, Writing
  <2>3. QED
    BY <1>1, <1>2, <1>3, <1>4, <2>2 DEF Sound, Outcome, Active
<1>12. Undisturbed(r)'
  BY <1>1, <1>2 DEF Undisturbed, TypeOK
<1>13. QED
  BY <1>5, <1>6, <1>7, <1>8, <1>9, <1>10, <1>11, <1>12
     DEF Inv, Sound

LEMMA RenamesStep ==
  ASSUME Inv, NEW r \in Requests, temp[r] # Nothing, Find(path[r]) # "dir",
         Rename(r)
  PROVE  Inv'
<1>1. TypeOK /\ Sound(r) /\ path[r] \in Paths
  BY DEF Inv, TypeOK
<1>2. /\ pc[r] = "rename" /\ pc'[r] = "answered" /\ answer'[r] = 204
      /\ temp' = [temp EXCEPT ![r] = Nothing]
      /\ applied' = [applied EXCEPT ![r] = TRUE]
  BY <1>1 DEF TypeOK, Rename, Goto, Reply, files, request, local, ghosts,
     Becomes, Active
<1>3. /\ inode' = inode /\ written' = written /\ op' = op /\ path' = path
      /\ alone' = alone /\ names' = names /\ opened' = opened /\ got' = got
      /\ pc' = [pc EXCEPT ![r] = pc'[r]]
      /\ answer' = [answer EXCEPT ![r] = answer'[r]]
      /\ tree' = With(path[r], IF written[r] THEN r ELSE Partial)
      /\ DOMAIN seen' = Requests
      /\ \A q \in Requests : /\ seen[q] \subseteq seen'[q]
                             /\ Active(q) => Lookup(tree', path[q]) \in seen'[q]
                             /\ ~Active(q) => seen'[q] = seen[q]
  BY <1>1 DEF TypeOK, Rename, Goto, Reply, files, request, local, ghosts,
     Becomes, Active
<1>4. /\ Active(r) /\ Find(path[r]) \in seen[r] /\ ~applied[r]
      /\ alone[r] => Holds(r)
  BY <1>1, <1>2 DEF Sound, Sees, Outcome, Undisturbed, Active
<1>5. /\ path[r] # <<>> /\ Front(path[r]) \in DOMAIN tree /\ op[r] = "put"
      /\ tree[Front(path[r])] = "dir" /\ written[r]
  BY <1>1, <1>2 DEF Sound, Stages, Writing, TempOf
<1>6. r \notin {"dir", "notdir", Absent, Partial, Nothing}
  BY <1>1, Apart
<1>7. /\ IsTree(tree') /\ Lookup(tree', path[r]) = r
      /\ DOMAIN tree' = DOMAIN tree \cup {path[r]}
      /\ \A q \in DOMAIN tree \ {path[r]} : tree'[q] = tree[q]
  <2>1. tree' = With(path[r], r)
    BY <1>3, <1>5
  <2>2. IsTree(tree) /\ Lookup(tree, path[r]) # "dir"
    BY <1>1 DEF Find, TypeOK
  <2>3. /\ IsTree(With(path[r], r)) /\ Lookup(With(path[r], r), path[r]) = r
        /\ DOMAIN With(path[r], r) = DOMAIN tree \cup {path[r]}
        /\ \A q \in DOMAIN tree \ {path[r]} : With(path[r], r)[q] = tree[q]
    BY <1>1, <1>5, <1>6, <2>2, Put
  <2>4. QED
    BY <2>1, <2>3
<1>8. path[r] \in DOMAIN tree => tree[path[r]] # "dir"
  BY <1>1, Kinds DEF Find, TypeOK
<1>9. TypeOK'
  BY <1>1, <1>2, <1>3, <1>7 DEF TypeOK, Locations, Reading, Deleting, Writing
<1>10. ASSUME NEW q \in Requests \ {r} PROVE Sound(q)'
  <2>1. Sound(q)
    BY DEF Inv
  <2>2. Aside(q)
    BY <1>1, <1>3, <2>1, <1>2, <1>7, <1>8 DEF TypeOK, Sound, Sees, TempOf,
       Find, Aside
  <2>3. QED
    BY <1>4, <2>2, Bystander
<1>11. Stages(r)'
  BY <1>1, <1>2, <1>3 DEF Sound, Stages, Reading, Deleting, Writing
<1>12. Sees(r)'
  BY <1>1, <1>2, <1>3, <1>4, <1>5, <1>6, <1>7, <1>8 DEF Sound, Sees, Active,
     Find
<1>13. TempOf(r)'
  BY <1>1, <1>2, <1>3 DEF Sound, TempOf, TypeOK
<1>14. Emptying(r)'
  BY <1>2 DEF Emptying
<1>15. Outcome(r)'
  <2>1. alone[r] =>
          answer'[r] = Answers(op[r], path[r], Find(path[r]))
    BY <1>2, <1>4, <1>5, Documents DEF Holds
  <2>2. applied'[r] /\ r \in seen'[r] /\ Find(path[r]) \in seen'[r]
    BY <1>1, <1>2, <1>3, <1>4, <1>7 DEF TypeOK
  <2>3. Answered(r)'
    BY <1>2, <1>3, <1>5, <2>1, <2>2 DEF Answered
  <2>4. QED
    BY <1>1, <1>2, <1>3, <1>4, <2>2, <2>3 DEF Sound, Outcome
<1>16. Undisturbed(r)'
  <2>1. ASSUME alone'[r], Active(r)' PROVE Holds(r)'
    BY <1>1, <1>2, <1>3, <1>4, <1>5, <1>6, <1>7, <1>8, <2>1 DEF Holds, Active,
       Find, IsFile, Absent
  <2>2. QED
    BY <1>1, <1>3, <1>4, <2>1 DEF Sound, Undisturbed, Active, TypeOK
<1>17. QED
  BY <1>9, <1>10, <1>11, <1>12, <1>13, <1>14, <1>15, <1>16
     DEF Inv, Sound

LEMMA CleanUpStep ==
  ASSUME Inv, NEW r \in Requests, CleanUp(r)
  PROVE  Inv'
<1>1. TypeOK /\ Sound(r) /\ path[r] \in Paths
  BY DEF Inv, TypeOK
<1>2. /\ pc[r] = "cleanup" /\ pc'[r] = "answered" /\ answer'[r] = 500
      /\ temp' = [temp EXCEPT ![r] = Nothing]
  BY <1>1 DEF TypeOK, CleanUp, Goto, Reply, files, request, local, ghosts
<1>3. /\ tree' = tree /\ inode' = inode /\ written' = written /\ op' = op
      /\ path' = path /\ seen' = seen /\ applied' = applied
      /\ alone' = alone /\ names' = names /\ opened' = opened /\ got' = got
      /\ pc' = [pc EXCEPT ![r] = pc'[r]]
      /\ answer' = [answer EXCEPT ![r] = answer'[r]]
  BY <1>1 DEF TypeOK, CleanUp, Goto, Reply, files, request, local, ghosts
<1>4. /\ Active(r) /\ Find(path[r]) \in seen[r] /\ ~applied[r]
      /\ alone[r] => Holds(r)
  BY <1>1, <1>2 DEF Sound, Sees, Outcome, Undisturbed, Active
<1>5. TypeOK'
  BY <1>1, <1>2, <1>3 DEF TypeOK, Locations, Reading, Deleting, Writing
<1>6. ASSUME NEW q \in Requests \ {r} PROVE Sound(q)'
  <2>1. Sound(q)
    BY DEF Inv
  <2>2. Aside(q)
    BY <1>1, <1>3, <2>1, <1>2 DEF TypeOK, Sound, Sees, TempOf, Find, Aside
  <2>3. QED
    BY <1>4, <2>2, Bystander
<1>7. Stages(r)'
  BY <1>1, <1>2, <1>3 DEF Sound, Stages, Reading, Deleting, Writing
<1>8. Sees(r)'
  BY <1>1, <1>2, <1>3, <1>4 DEF Sound, Sees, Active, Find
<1>9. TempOf(r)'
  BY <1>1, <1>2, <1>3 DEF Sound, TempOf, TypeOK
<1>10. Emptying(r)'
  BY <1>2 DEF Emptying
<1>11. Outcome(r)'
  <2>1. pc'[r] = "answered" /\ alone[r] =>
          answer'[r] = Answers(op[r], path[r], Find(path[r]))
    BY <1>1, <1>2, <1>3, <1>4, Documents DEF Holds, IsFile, TypeOK
  <2>2. pc'[r] = "answered" => Answered(r)'
    BY <1>1, <1>2, <1>3, <1>4, <2>1 DEF Answered, Stages, Sound, Reading,
       Deleting, Writing
  <2>3. QED
    BY <1>1, <1>2, <1>3, <1>4, <2>2 DEF Sound, Outcome, Active
<1>12. Undisturbed(r)'
  <2>1. ASSUME alone'[r], Active(r)' PROVE Holds(r)'
    BY <1>1, <1>2, <1>3, <1>4, <2>1 DEF Holds, Active, Find, IsFile, Absent
  <2>2. QED
    BY <1>1, <1>3, <1>4, <2>1 DEF Sound, Undisturbed, Active, TypeOK
<1>13. QED
  BY <1>5, <1>6, <1>7, <1>8, <1>9, <1>10, <1>11, <1>12
     DEF Inv, Sound

(* A request that comes in: it is alone when nobody else is under way, and *)
(* those who are no longer are.                                            *)
LEMMA ArriveStep ==
  ASSUME Inv, NEW r \in Requests, Arrive(r)
  PROVE  Inv'
<1>1. TypeOK /\ Sound(r) /\ path[r] \in Paths
  BY DEF Inv, TypeOK
<1>2. /\ pc[r] = "new" /\ pc'[r] = "resolve" /\ seen'[r] = {Find(path[r])}
      /\ alone'[r] = \A s \in Requests : ~Active(s)
  BY <1>1 DEF TypeOK, Arrive, Goto
<1>3. /\ tree' = tree /\ inode' = inode /\ temp' = temp /\ written' = written
      /\ op' = op /\ path' = path /\ answer' = answer /\ applied' = applied
      /\ names' = names /\ opened' = opened /\ got' = got
      /\ pc' = [pc EXCEPT ![r] = pc'[r]]
      /\ DOMAIN seen' = Requests /\ alone' \in [Requests -> BOOLEAN]
      /\ \A q \in Requests \ {r} :
           /\ seen'[q] = seen[q]
           /\ alone'[q] = IF Active(q) THEN FALSE ELSE alone[q]
  BY <1>1 DEF TypeOK, Arrive, Goto, files, request, local
<1>4. TypeOK'
  BY <1>1, <1>2, <1>3 DEF TypeOK, Locations, Reading, Deleting, Writing
<1>5. ASSUME NEW q \in Requests \ {r} PROVE Sound(q)'
  <2>1. Sound(q)
    BY DEF Inv
  <2>2. Aside(q)
    <3>1. alone'[q] => alone[q]
      BY <1>3
    <3>2. pc'[q] = pc[q]
      BY <1>1, <1>3 DEF TypeOK
    <3>3. QED
      BY <1>3, <2>1, <3>1, <3>2 DEF Sound, Sees, TempOf, Find, Aside
  <2>3. ~Active(q) \/ ~alone'[q]
    BY <1>3
  <2>4. QED
    BY <2>2, <2>3, Bystander
<1>6. Stages(r)'
  BY <1>1, <1>2, <1>3 DEF Sound, Stages, Reading, Deleting, Writing
<1>7. Sees(r)'
  BY <1>1, <1>2, <1>3 DEF Sees, Find
<1>8. TempOf(r)'
  BY <1>1, <1>2, <1>3 DEF Sound, TempOf
<1>9. Emptying(r)'
  BY <1>2 DEF Emptying
<1>10. Outcome(r)'
  BY <1>1, <1>2, <1>3 DEF Sound, Outcome
<1>11. Undisturbed(r)'
  <2>1. Holds(r)'
    BY <1>2 DEF Holds
  <2>2. alone'[r] => \A s \in Requests \ {r} : ~Active(s)'
    <3>1. alone'[r] => \A s \in Requests \ {r} : ~Active(s)
      BY <1>2
    <3>2. \A s \in Requests \ {r} : pc'[s] = pc[s]
      BY <1>1, <1>3 DEF TypeOK
    <3>3. QED
      BY <3>1, <3>2 DEF Active
  <2>3. QED
    BY <2>1, <2>2 DEF Undisturbed
<1>12. QED
  BY <1>4, <1>5, <1>6, <1>7, <1>8, <1>9, <1>10, <1>11
     DEF Inv, Sound

-----------------------------------------------------------------------------
LEMMA InitInv == Init => Inv
<1>1. SUFFICES ASSUME Init PROVE Inv
  OBVIOUS
<1>2. IsTree(tree)
  BY <1>1, PathsAssumption DEF Init
<1>3. TypeOK
  BY <1>1, <1>2 DEF Init, TypeOK, Locations
<1>4. ASSUME NEW r \in Requests PROVE Sound(r)
  BY <1>1 DEF Init, Sound, Stages, Sees, TempOf, Emptying, Outcome,
     Undisturbed, Active, Reading, Deleting, Writing
<1>5. QED
  BY <1>3, <1>4 DEF Inv

LEMMA HandlerStep ==
  ASSUME Inv, NEW r \in Requests, Handler(r)
  PROVE  Inv'
<1>1. CASE RefuseRoot(r)
  BY <1>1, RefuseRootStep
<1>2. CASE Inspect(r, "resolve", "metadata")
  BY <1>2, ResolvePathStep
<1>3. CASE Metadata(r) \/ RefuseSpecial(r)
  BY <1>3, MetadataStep, RefuseSpecialStep
<1>4. CASE ReadFile(r) \/ ReadDir(r) \/ Listed(r) \/ OpenDir(r)
  BY <1>4, ReadFileStep, ReadDirStep, ListedStep, OpenDirStep
<1>5. ASSUME NEW e \in names[r], StatEntry(r, e) PROVE Inv'
  BY <1>5, StatEntryStep
<1>6. ASSUME NEW e \in names[r], RemoveEntry(r, e) PROVE Inv'
  <2>1. CASE ~(opened[r] = inode[path[r]] /\ Exists(e))
    BY <1>6, <2>1, EntryGoneStep
  <2>2. CASE opened[r] = inode[path[r]] /\ Exists(e) /\ e \in Requests
    BY <1>6, <2>2, RemovesTempStep
  <2>3. CASE opened[r] = inode[path[r]] /\ Exists(e) /\ e \notin Requests
    BY <1>6, <2>3, RemovesFileStep
  <2>4. QED
    BY <2>1, <2>2, <2>3
<1>7. CASE Unlink(r)
  BY <1>7, UnlinkFailsStep, UnlinksStep
<1>8. CASE RemoveDir(r)
  BY <1>8, DirGoneStep, RemovesDirStep
<1>9. CASE ResolveTarget(r) \/ FindAncestor(r) \/ ResolveAncestor(r)
  BY <1>9, ResolveTargetStep, FindAncestorStep, ResolveAncestorStep
<1>10. CASE CheckTarget(r) \/ SetPermissions(r)
  BY <1>10, CheckTargetStep, SetPermissionsStep
<1>11. CASE EnsureDirectory(r)
  BY <1>11, ParentThereStep, MakesParentStep
<1>12. CASE CreateTemporary(r)
  BY <1>12, CannotCreateStep, CreatesStep
<1>13. CASE WriteAll(r) \/ WriteFails(r) \/ CleanUp(r)
  BY <1>13, WriteAllStep, WriteFailsStep, CleanUpStep
<1>14. CASE Rename(r)
  BY <1>14, RenameFailsStep, RenamesStep
<1>15. QED
  BY <1>1, <1>2, <1>3, <1>4, <1>5, <1>6, <1>7, <1>8, <1>9, <1>10, <1>11,
     <1>12, <1>13, <1>14 DEF Handler

LEMMA NextInv == Inv /\ [Next]_vars => Inv'
<1>1. SUFFICES ASSUME Inv, [Next]_vars PROVE Inv'
  OBVIOUS
<1>2. CASE UNCHANGED vars
  <2>1. UNCHANGED <<tree, inode, temp, written, op, path, pc, answer, names,
                    opened, got, seen, applied, alone>>
    BY <1>2 DEF vars, files, request, local, ghosts
  <2>2. TypeOK'
    BY <1>1, <2>1 DEF Inv, TypeOK
  <2>3. ASSUME NEW r \in Requests PROVE Sound(r)'
    <3>1. Sound(r)
      BY <1>1 DEF Inv
    <3>2. QED
      BY <2>1, <3>1 DEF Sound, Stages, Sees, TempOf, Emptying, Outcome,
         Answered, Undisturbed, Holds, Active, Find, IsFile,
         IsRegular, Entries, TempsIn
  <2>4. QED
    BY <2>2, <2>3 DEF Inv
<1>3. ASSUME NEW r \in Requests, Arrive(r) \/ Handler(r) \/ Drop(r)
      PROVE  Inv'
  BY <1>1, <1>3, ArriveStep, HandlerStep, DropStep
<1>4. QED
  BY <1>1, <1>2, <1>3 DEF Next

(* The invariant the results rest on: a handler is where its method takes  *)
(* it, every request under way has seen what its path holds, a temporary   *)
(* file lies in an existing directory beside its target, and what a        *)
(* handler that met no other request has found still holds.                *)
THEOREM Invariance == Spec => []Inv
<1>1. Init => Inv
  BY InitInv
<1>2. Inv /\ [Next]_vars => Inv'
  BY NextInv
<1>3. QED
  BY <1>1, <1>2, PTL DEF Spec

(* However the handlers of any number of requests interleave, an answer of *)
(* 200, 204, 404 or 409 is true of a moment while the request ran.         *)
THEOREM AnswersAreTrue == Spec => []AnswersTrue
<1>1. Inv => AnswersTrue
  <2>1. SUFFICES ASSUME Inv, NEW r \in Requests, pc[r] = "answered"
                 PROVE  /\ got[r] # Nothing =>
                             got[r] \in seen[r] \
                               {Partial, Special, "dir", "notdir", Absent}
                        /\ Answered(r)
                        /\ applied[r] => answer[r] = 204 /\ r \in seen[r]
    BY DEF AnswersTrue, Answered
  <2>2. QED
    BY <2>1 DEF Inv, Sound, Outcome
<1>2. QED
  BY <1>1, Invariance, PTL

(* A temporary file is one of a PUT at work or dropped half-way, and lies  *)
(* in a directory that exists: remove_dir_all never takes the directory    *)
(* from under it, and no failure leaves it behind.                         *)
THEOREM TemporariesExplained == Spec => []TempsExplained
<1>1. Inv => TempsExplained
  <2>1. SUFFICES ASSUME Inv, NEW r \in Requests, temp[r] # Nothing
                 PROVE  /\ pc[r] \in {"write", "rename", "cleanup", "dropped"}
                        /\ Find(temp[r]) = "dir"
    BY DEF TempsExplained
  <2>2. /\ temp[r] \in DOMAIN tree /\ tree[temp[r]] = "dir" /\ IsTree(tree)
        /\ pc[r] \in {"write", "rename", "cleanup", "dropped"}
    BY <2>1 DEF Inv, Sound, TempOf, TypeOK
  <2>3. Find(temp[r]) = "dir"
    BY <2>2, Looked, InTree DEF Find
  <2>4. QED
    BY <2>2, <2>3
<1>2. QED
  BY <1>1, Invariance, PTL

(* A request that meets no other request and no failing disk is answered   *)
(* as docs/http_api.md says, whatever the requests before it, dropped ones *)
(* included, left in the workspace; except that a GET or DELETE below a    *)
(* file is answered 500 where the document says 404.                       *)
THEOREM AnsweredAsDocumented == Spec => []AloneAsDocumented
<1>1. Inv => AloneAsDocumented
  BY DEF Inv, Sound, Outcome, Answered, AloneAsDocumented
<1>2. QED
  BY <1>1, Invariance, PTL
=============================================================================
