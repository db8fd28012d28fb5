--------------------------- MODULE Sysroot_proofs ---------------------------
(***************************************************************************)
(* Proofs about Sysroot, for any number of commands, any images, trees,    *)
(* mounts and subordinate ranges, and any number of changes in between.    *)
(***************************************************************************)
EXTENDS Sysroot, SequenceTheorems, TLAPS

Paths == Seq(Names)

-----------------------------------------------------------------------------
(* Paths and prefixes. *)

LEMMA PrefixPoints ==
  ASSUME NEW s \in Paths, NEW t \in Paths
  PROVE  IsPrefix(s, t) <=> /\ Len(s) <= Len(t)
                            /\ \A i \in 1 .. Len(s) : s[i] = t[i]
<1>1. Len(s) \in Nat /\ Len(t) \in Nat
  BY DEF Paths
<1>2. CASE Len(s) <= Len(t)
  <2>1. SubSeq(s, 1, Len(s)) = s
    BY SubSeqFull DEF Paths
  <2>2. /\ SubSeq(t, 1, Len(s)) \in Paths
        /\ Len(SubSeq(t, 1, Len(s))) = Len(s)
        /\ \A i \in 1 .. Len(s) : SubSeq(t, 1, Len(s))[i] = t[i]
    BY <1>1, <1>2, SubSeqProperties DEF Paths
  <2>3. (s = SubSeq(t, 1, Len(s))) <=> \A i \in 1 .. Len(s) : s[i] = t[i]
    BY <2>2, SeqEqual DEF Paths
  <2>4. QED
    BY <1>2, <2>1, <2>3 DEF IsPrefix
<1>3. QED
  BY <1>2 DEF IsPrefix

LEMMA PrefixesOf ==
  ASSUME NEW t \in Paths
  PROVE  \A n : n \in Prefixes(t) <=> n \in Paths /\ IsPrefix(n, t)
<1>1. ASSUME NEW l \in 0 .. Len(t)
      PROVE  SubSeq(t, 1, l) \in Paths /\ IsPrefix(SubSeq(t, 1, l), t)
  <2>1. /\ SubSeq(t, 1, l) \in Paths
        /\ Len(SubSeq(t, 1, l)) = l
        /\ \A i \in 1 .. l : SubSeq(t, 1, l)[i] = t[i]
    BY <1>1, SubSeqProperties DEF Paths
  <2>2. Len(t) \in Nat /\ l <= Len(t)
    BY <1>1 DEF Paths
  <2>3. QED
    BY <2>1, <2>2, PrefixPoints
<1>2. ASSUME NEW n \in Paths, IsPrefix(n, t) PROVE n \in Prefixes(t)
  <2>1. Len(n) \in 0 .. Len(t) /\ n = SubSeq(t, 1, Len(n))
    BY <1>2, SubSeqFull DEF Paths, IsPrefix
  <2>2. QED
    BY <2>1 DEF Prefixes
<1>3. QED
  BY <1>1, <1>2 DEF Prefixes

LEMMA PrefixTrans ==
  ASSUME NEW r \in Paths, NEW s \in Paths, NEW t \in Paths,
         IsPrefix(r, s), IsPrefix(s, t)
  PROVE  IsPrefix(r, t)
<1>1. Len(r) \in Nat /\ Len(s) \in Nat /\ Len(t) \in Nat
  BY DEF Paths
<1>2. /\ Len(r) <= Len(s) /\ \A i \in 1 .. Len(r) : r[i] = s[i]
      /\ Len(s) <= Len(t) /\ \A i \in 1 .. Len(s) : s[i] = t[i]
  BY PrefixPoints
<1>3. QED
  BY <1>1, <1>2, PrefixPoints

(* A strict prefix is shorter. *)
LEMMA StrictPrefix ==
  ASSUME NEW s \in Paths, NEW t \in Paths
  PROVE  IsStrictPrefix(s, t) <=> IsPrefix(s, t) /\ Len(s) < Len(t)
<1>1. Len(s) \in Nat /\ Len(t) \in Nat
  BY DEF Paths
<1>2. IsPrefix(s, t) /\ s # t => Len(s) # Len(t)
  BY PrefixPoints, SeqEqual DEF Paths
<1>3. QED
  BY <1>1, <1>2, PrefixPoints DEF IsStrictPrefix

LEMMA RootPath ==
  ASSUME NEW n \in Paths
  PROVE  /\ <<>> \in Paths
         /\ IsPrefix(<<>>, n) /\ IsPrefix(n, n)
         /\ ~IsStrictPrefix(n, <<>>)
         /\ IsPrefix(n, <<>>) => n = <<>>
<1>1. <<>> \in Paths /\ Len(<<>>) = 0 /\ Len(n) \in Nat
  BY DEF Paths
<1>2. IsPrefix(<<>>, n)
  BY <1>1, PrefixPoints
<1>3. IsPrefix(n, n)
  BY <1>1, PrefixPoints
<1>4. ~IsStrictPrefix(n, <<>>)
  BY <1>1, StrictPrefix
<1>5. QED
  BY <1>1, <1>2, <1>3, <1>4 DEF IsStrictPrefix

(* Below a directory n, the path m goes through a child of n. *)
LEMMA ThroughChild ==
  ASSUME NEW n \in Paths, NEW m \in Paths, IsStrictPrefix(n, m)
  PROVE  \E c \in Prefixes(m) : c # <<>> /\ Front(c) = n /\ IsPrefix(c, m)
<1> DEFINE c == SubSeq(m, 1, Len(n) + 1)
<1>1. /\ Len(n) \in Nat /\ Len(m) \in Nat /\ Len(n) < Len(m)
      /\ \A i \in 1 .. Len(n) : n[i] = m[i]
  BY PrefixPoints, StrictPrefix DEF Paths
<1>2. /\ c \in Paths /\ Len(c) = Len(n) + 1
      /\ \A i \in 1 .. Len(n) + 1 : c[i] = m[i]
  BY <1>1, SubSeqProperties DEF Paths
<1> HIDE DEF c
<1>3. IsPrefix(c, m)
  BY <1>1, <1>2, PrefixPoints
<1>4. c # <<>>
  BY <1>1, <1>2
<1>5. /\ Front(c) \in Paths /\ Len(Front(c)) = Len(n)
      /\ \A i \in 1 .. Len(n) : Front(c)[i] = c[i]
  <2>1. Front(c) = SubSeq(c, 1, Len(n))
    BY <1>1, <1>2 DEF Front
  <2>2. QED
    BY <1>1, <1>2, <2>1, SubSeqProperties DEF Paths
<1>6. Front(c) = n
  BY <1>1, <1>2, <1>5, SeqEqual DEF Paths
<1>7. QED
  BY <1>2, <1>3, <1>4, <1>6, PrefixesOf

-----------------------------------------------------------------------------
(* Trees. *)

LEMMA EmptyTree ==
  /\ IsTree(NoTree) /\ DOMAIN NoTree = {}
  /\ \A t : IsTree(t) => (t = NoTree <=> DOMAIN t = {})
<1>1. DOMAIN NoTree = {}
  BY DEF NoTree
<1>2. IsTree(NoTree)
  BY <1>1 DEF IsTree, NoTree
<1>3. ASSUME NEW t, IsTree(t), DOMAIN t = {} PROVE t = NoTree
  BY <1>1, <1>3 DEF IsTree, NoTree
<1>4. QED
  BY <1>1, <1>2, <1>3

(* Only the empty tree has no root. *)
LEMMA RootIn ==
  ASSUME NEW t, IsTree(t), DOMAIN t # {} PROVE <<>> \in DOMAIN t
<1>1. PICK n \in DOMAIN t : TRUE
  OBVIOUS
<1>2. n \in Paths /\ Prefixes(n) \subseteq DOMAIN t
  BY DEF IsTree, Paths
<1>3. <<>> \in Prefixes(n)
  BY <1>2, RootPath, PrefixesOf
<1>4. QED
  BY <1>2, <1>3

LEMMA ClosedPrefixes ==
  ASSUME NEW n \in Paths
  PROVE  /\ n \in Prefixes(n) /\ <<>> \in Prefixes(n)
         /\ Prefixes(n) \subseteq Paths
         /\ \A m \in Prefixes(n) : Prefixes(m) \subseteq Prefixes(n)
<1>1. n \in Prefixes(n) /\ <<>> \in Prefixes(n) /\ Prefixes(n) \subseteq Paths
  BY RootPath, PrefixesOf
<1>2. ASSUME NEW m \in Prefixes(n), NEW k \in Prefixes(m) PROVE k \in Prefixes(n)
  <2>1. m \in Paths /\ IsPrefix(m, n)
    BY PrefixesOf
  <2>2. k \in Paths /\ IsPrefix(k, m)
    BY <2>1, PrefixesOf
  <2>3. IsPrefix(k, n)
    BY <2>1, <2>2, PrefixTrans
  <2>4. QED
    BY <2>2, <2>3, PrefixesOf
<1>3. QED
  BY <1>1, <1>2

LEMMA GrowTree ==
  ASSUME NEW t, IsTree(t), NEW S \in SUBSET Paths,
         \A n \in S : Prefixes(n) \subseteq S
  PROVE  /\ IsTree(Grow(t, S))
         /\ DOMAIN Grow(t, S) = DOMAIN t \cup S
         /\ \A n \in DOMAIN t : Grow(t, S)[n] = t[n]
         /\ \A n \in S \ DOMAIN t : Grow(t, S)[n] = 0
<1>1. /\ DOMAIN Grow(t, S) = DOMAIN t \cup S
      /\ \A n \in DOMAIN t : Grow(t, S)[n] = t[n]
      /\ \A n \in S \ DOMAIN t : Grow(t, S)[n] = 0
  BY DEF Grow
<1>2. 0 \in 0 .. MaxId - 1
  BY HostsAssumption
<1>3. Grow(t, S) \in [DOMAIN t \cup S -> 0 .. MaxId - 1]
  BY <1>2 DEF Grow, IsTree
<1>4. QED
  BY <1>1, <1>3 DEF IsTree, Paths

LEMMA HiddenBelow ==
  ASSUME NEW e \in Entries, NEW n \in Paths, NEW m \in Prefixes(n), Hidden(e, m)
  PROVE  Hidden(e, n)
<1>1. m \in Paths /\ IsPrefix(m, n) /\ e.path \in Paths
  BY PrefixesOf DEF Entries, Paths
<1>2. CASE e.kind = "whiteout" /\ IsPrefix(e.path, m)
  BY <1>1, <1>2, PrefixTrans DEF Hidden
<1>3. CASE e.kind = "opaque" /\ IsStrictPrefix(e.path, m)
  <2>1. IsPrefix(e.path, m) /\ Len(e.path) < Len(m)
    BY <1>1, <1>3, StrictPrefix
  <2>2. Len(m) <= Len(n)
    BY <1>1 DEF IsPrefix
  <2>3. Len(e.path) < Len(n)
    BY <1>1, <2>1, <2>2 DEF Paths
  <2>4. IsPrefix(e.path, n)
    BY <1>1, <2>1, PrefixTrans
  <2>5. QED
    BY <1>1, <1>3, <2>3, <2>4, StrictPrefix DEF Hidden
<1>4. QED
  BY <1>2, <1>3 DEF Hidden

(* An entry turns a tree into a tree: hidden paths go, added ones come. *)
LEMMA EntryTree ==
  ASSUME NEW t, IsTree(t), NEW e \in Entries
  PROVE  /\ IsTree(apply_entry(t, e))
         /\ \A n \in Paths : n \in DOMAIN apply_entry(t, e) <=>
              Added(e, n) \/ (n \in DOMAIN t /\ ~Hidden(e, n))
<1>1. e.path \in Paths /\ e.kind \in {"file", "whiteout", "opaque"}
  BY DEF Entries, Paths
<1>2. CASE e.kind = "file"
  <2>1. /\ Prefixes(e.path) \in SUBSET Paths
        /\ \A n \in Prefixes(e.path) : Prefixes(n) \subseteq Prefixes(e.path)
    BY <1>1, ClosedPrefixes
  <2>2. apply_entry(t, e) = Grow(t, Prefixes(e.path))
    BY <1>2 DEF apply_entry
  <2>3. \A n \in Paths : ~Hidden(e, n) /\ (Added(e, n) <=> n \in Prefixes(e.path))
    BY <1>1, <1>2, PrefixesOf DEF Hidden, Added
  <2>4. /\ IsTree(Grow(t, Prefixes(e.path)))
        /\ DOMAIN Grow(t, Prefixes(e.path)) = DOMAIN t \cup Prefixes(e.path)
    BY <2>1, GrowTree
  <2>5. QED
    BY <2>2, <2>3, <2>4
<1>3. CASE e.kind # "file"
  <2> DEFINE D == {m \in DOMAIN t : ~Hidden(e, m)}
  <2>1. apply_entry(t, e) = [n \in D |-> t[n]]
    BY <1>3 DEF apply_entry
  <2>2. \A n \in D : Prefixes(n) \subseteq D
    <3>1. SUFFICES ASSUME NEW n \in D, NEW m \in Prefixes(n) PROVE m \in D
      OBVIOUS
    <3>2. n \in Paths /\ m \in DOMAIN t
      BY DEF IsTree, Paths
    <3>3. QED
      BY <3>1, <3>2, HiddenBelow
  <2>3. IsTree(apply_entry(t, e))
    BY <2>1, <2>2 DEF IsTree
  <2>4. QED
    BY <1>3, <2>1, <2>3 DEF Added
<1>4. QED
  BY <1>2, <1>3

LEMMA ShiftTree ==
  ASSUME NEW t, IsTree(t), NEW n \in DOMAIN t, NEW v \in 0 .. MaxId - 1
  PROVE  /\ IsTree([t EXCEPT ![n] = v])
         /\ DOMAIN [t EXCEPT ![n] = v] = DOMAIN t
         /\ [t EXCEPT ![n] = v][n] = v
         /\ \A m \in DOMAIN t \ {n} : [t EXCEPT ![n] = v][m] = t[m]
BY DEF IsTree

-----------------------------------------------------------------------------
(* Ranges of ids. *)

(* The ranges first_range accepts. *)
Accepted == {h \in Hosts : h + Size - 1 <= MaxId}

LEMMA Ranges ==
  ASSUME NEW h \in Accepted
  PROVE  /\ h \in Nat /\ Size \in Nat /\ Size > 0 /\ h # NoHost /\ h # Unresolved
         /\ MaxId \in Nat /\ h + Size <= MaxId + 1
         /\ \A id \in 0 .. MaxId - 1 :
              mapped_id(id, h) <=> id >= h /\ id < h + Size
BY HostsAssumption DEF Accepted, mapped_id, RangeEnd, NoHost, Unresolved

(* What shift_entry does to an id that shifted_id accepts. *)
LEMMA Shifts ==
  ASSUME NEW id \in 0 .. MaxId - 1, NEW h \in Accepted,
         shifted_id(id, h) # Unresolved
  PROVE  LET v == lchown(id, shifted_id(id, h)) IN
         /\ v \in 0 .. MaxId - 1 /\ Settled(v, h)
         /\ v = id \/ (id < Size /\ ~mapped_id(id, h) /\ v = id + h)
         /\ Settled(id, h) => v = id
<1> DEFINE w == shifted_id(id, h)
<1>1. /\ h \in Nat /\ Size \in Nat /\ Size > 0 /\ MaxId \in Nat /\ id \in Nat
      /\ h + Size <= MaxId + 1 /\ id <= MaxId - 1
  BY Ranges
<1>2. CASE mapped_id(id, h)
  <2>1. w = id
    BY <1>2 DEF shifted_id
  <2>2. QED
    BY <1>1, <1>2, <2>1 DEF lchown, Settled
<1>3. CASE ~mapped_id(id, h)
  <2>1. id < Size /\ w = h + id
    BY <1>1, <1>3 DEF shifted_id
  <2>2. CASE w = MaxId
    BY <1>1, <1>3, <2>1, <2>2 DEF lchown, Settled
  <2>3. CASE w # MaxId
    <3>1. w \in 0 .. MaxId - 1
      BY <1>1, <2>1, <2>3
    <3>2. mapped_id(w, h)
      BY <1>1, <2>1, <3>1, Ranges
    <3>3. ~(id = Size - 1 /\ id + h = MaxId)
      BY <1>1, <2>1, <2>3
    <3>4. QED
      BY <1>1, <1>3, <2>1, <2>3, <3>1, <3>2, <3>3 DEF lchown, Settled
  <2>4. QED
    BY <2>2, <2>3
<1>4. QED
  BY <1>2, <1>3

-----------------------------------------------------------------------------
(* The inductive invariant. *)

Locations == {"idle", "extract", "install", "config", "write", "load", "mounts",
              "identity", "shift", "mark", "prepared"}
Trees == UNION {[D -> 0 .. MaxId - 1] : D \in SUBSET Paths}

TypeOK ==
  /\ IsTree(rootfs) /\ IsTree(orig) /\ DOMAIN orig = DOMAIN rootfs
  /\ mounts \subseteq AllMounts
  /\ marker \in Accepted \cup {NoHost} /\ host \in Hosts \cup {NoHost}
  /\ walked \subseteq Accepted
  /\ pc \in [Procs -> Locations]
  /\ image \in [Procs -> Images \cup {<<>>}]
  /\ layer \in [Procs -> Nat] /\ entry \in [Procs -> Nat]
  /\ staging \in [Procs -> Trees] /\ \A p \in Procs : IsTree(staging[p])
  /\ action \in [Procs -> Accepted \cup {NoHost}]
  /\ todo \in [Procs -> SUBSET Paths]

(* Only the command that created config.toml writes it. *)
ConfigOwner ==
  \A p \in Procs : pc[p] = "write" =>
    config = "partial" /\ \A q \in Procs : pc[q] = "write" => q = p

(* Commands that run together have resolved the same range, and the marker *)
(* does not name another one while one of them walks the tree.             *)
OneMapping ==
  \A p \in Procs :
    /\ action[p] \in {NoHost, host}
    /\ pc[p] = "idle" => action[p] = NoHost
    /\ pc[p] \in {"shift", "mark"} =>
         action[p] \in walked /\ marker \in {NoHost, action[p]}

(* A command past its load has a tree, and the mounts it has visited. *)
MountsMade ==
  \A p \in Procs :
    /\ pc[p] = "mounts" =>
         /\ DOMAIN rootfs # {} /\ todo[p] \subseteq AllMounts
         /\ mounts \ todo[p] \subseteq DOMAIN rootfs
    /\ pc[p] \in {"identity", "shift", "mark", "prepared"} =>
         DOMAIN rootfs # {} /\ mounts \subseteq DOMAIN rootfs

(* A walk shifts the root before anything else, and everything that was    *)
(* there when it began is shifted or below a path it has still to visit.   *)
RootFirst ==
  \A p \in Procs : pc[p] = "shift" =>
    /\ todo[p] \subseteq DOMAIN rootfs
    /\ \/ todo[p] = {<<>>}
       \/ <<>> \notin todo[p] /\ Settled(rootfs[<<>>], action[p])

WalkCovers ==
  \A p \in Procs : \A n \in DOMAIN rootfs \ late :
    /\ pc[p] = "shift" => \/ Settled(rootfs[n], action[p])
                          \/ \E m \in todo[p] : IsPrefix(m, n)
    /\ pc[p] = "mark" => Settled(rootfs[n], action[p])

(* Above the ids of a container, what was shifted is not shifted again.    *)
ShiftedAbove ==
  RangesAbove =>
    \A n \in DOMAIN rootfs :
      rootfs[n] # orig[n] => \E h \in walked : rootfs[n] = orig[n] + h

(* With ranges that lie apart, an owner that was changed was shifted once, *)
(* into the range the root is in: hence all into the same one. In a range  *)
(* at the very end, which is then the only one, the root may have stayed.  *)
ShiftedWithRoot ==
  RangesApart =>
    \A n \in DOMAIN rootfs :
      rootfs[n] # orig[n] =>
        /\ orig[n] < Size
        /\ \E h \in walked :
             /\ rootfs[n] = orig[n] + h
             /\ mapped_id(rootfs[<<>>], h) \/ h + Size > MaxId

(* The staging tree holds what the entries applied so far add and none of  *)
(* the later ones of them hides.                                           *)
Whole(i) == Contents(i) \ Clobbered(i)
Precedes(a, b, l, k) == a < l \/ (a = l /\ b < k)
Reached(i, l, k, n) ==
  \/ n = <<>>
  \/ \E a \in DOMAIN i : \E b \in DOMAIN i[a] :
       /\ Precedes(a, b, l, k) /\ Added(i[a][b], n)
       /\ \A c \in DOMAIN i : \A d \in DOMAIN i[c] :
            Precedes(a, b, c, d) /\ Precedes(c, d, l, k) => ~Hidden(i[c][d], n)

Unpacked ==
  \A p \in Procs :
    /\ pc[p] = "idle" => layer[p] = 1 /\ entry[p] = 1
    /\ pc[p] = "extract" =>
         /\ image[p] \in Images /\ layer[p] \in 1 .. Len(image[p]) + 1
         /\ layer[p] <= Len(image[p]) =>
              entry[p] \in 1 .. Len(image[p][layer[p]]) + 1
         /\ layer[p] > Len(image[p]) => entry[p] = 1
         /\ \A n \in Paths : n \in DOMAIN staging[p] <=>
                             Reached(image[p], layer[p], entry[p], n)
    /\ pc[p] = "install" =>
         /\ image[p] \in Images
         /\ \A n \in Paths : n \in DOMAIN staging[p] <=>
              \/ n \in Whole(image[p])
              \/ n \in WithParents(SystemMounts \cup {Workspace})

WholeImage ==
  installed # <<>> =>
    /\ Whole(installed) \cup SystemMounts \subseteq DOMAIN rootfs
    /\ DOMAIN rootfs \subseteq Whole(installed) \cup MountPaths

Inv == /\ TypeOK
       /\ ConfigOwner
       /\ OneMapping
       /\ MountsMade
       /\ RootFirst
       /\ WalkCovers
       /\ MarkerMeansShifted
       /\ ShiftedAbove
       /\ ShiftedWithRoot
       /\ Unpacked
       /\ WholeImage

-----------------------------------------------------------------------------
(* Unpacking, entry by entry. *)

LEMMA AsTree ==
  ASSUME NEW t, IsTree(t) PROVE t \in Trees
BY DEF IsTree, Trees, Paths

LEMMA StagingRoot ==
  IsTree(Grow(NoTree, {<<>>})) /\ DOMAIN Grow(NoTree, {<<>>}) = {<<>>}
<1>1. <<>> \in Paths
  BY DEF Paths
<1>2. \A n \in {<<>>} : Prefixes(n) \subseteq {<<>>}
  BY <1>1, RootPath, PrefixesOf
<1>3. IsTree(NoTree) /\ DOMAIN NoTree = {} /\ {<<>>} \in SUBSET Paths
  BY <1>1, EmptyTree
<1>4. /\ IsTree(Grow(NoTree, {<<>>}))
      /\ DOMAIN Grow(NoTree, {<<>>}) = DOMAIN NoTree \cup {<<>>}
  BY <1>2, <1>3, GrowTree
<1>5. QED
  BY <1>3, <1>4

LEMMA ImageEntries ==
  ASSUME NEW i \in Images
  PROVE  /\ Len(i) \in Nat /\ DOMAIN i = 1 .. Len(i)
         /\ \A l \in DOMAIN i : Len(i[l]) \in Nat /\ DOMAIN i[l] = 1 .. Len(i[l])
         /\ \A l \in DOMAIN i : \A k \in DOMAIN i[l] :
              /\ i[l][k] \in Entries /\ i[l][k].path \in Paths
              /\ ~Hidden(i[l][k], <<>>)
<1>1. i \in Seq(Seq(Entries))
  BY ImagesAssumption
<1>2. Len(i) \in Nat /\ DOMAIN i = 1 .. Len(i)
  BY <1>1
<1>3. \A l \in DOMAIN i : i[l] \in Seq(Entries)
  BY <1>1
<1>4. ASSUME NEW l \in DOMAIN i
      PROVE  /\ Len(i[l]) \in Nat /\ DOMAIN i[l] = 1 .. Len(i[l])
             /\ \A k \in DOMAIN i[l] : i[l][k] \in Entries
  BY <1>3
<1>5. ASSUME NEW l \in DOMAIN i, NEW k \in DOMAIN i[l]
      PROVE  i[l][k].path \in Paths /\ ~Hidden(i[l][k], <<>>)
  <2>1. i[l][k].path \in Paths
    BY <1>4 DEF Entries, Paths
  <2>2. i[l][k].kind = "whiteout" => i[l][k].path # <<>>
    BY ImagesAssumption
  <2>3. QED
    BY <2>1, <2>2, RootPath DEF Hidden
<1>6. QED
  BY <1>2, <1>4, <1>5

(* Nothing is reached yet but the staging directory. *)
LEMMA ReachedNone ==
  ASSUME NEW i \in Images, NEW n
  PROVE  Reached(i, 1, 1, n) <=> n = <<>>
<1>1. \A a \in DOMAIN i : \A b \in DOMAIN i[a] : ~Precedes(a, b, 1, 1)
  BY ImageEntries DEF Precedes
<1>2. QED
  BY <1>1 DEF Reached

(* One entry more: it adds, or it leaves what it does not hide. *)
LEMMA ReachedEntry ==
  ASSUME NEW i \in Images, NEW l \in DOMAIN i, NEW k \in DOMAIN i[l],
         NEW n \in Paths
  PROVE  Reached(i, l, k + 1, n) <=>
           Added(i[l][k], n) \/ (Reached(i, l, k, n) /\ ~Hidden(i[l][k], n))
<1> USE ImageEntries
<1>1. ASSUME NEW c \in DOMAIN i, NEW d \in DOMAIN i[c]
      PROVE  /\ Precedes(c, d, l, k + 1) <=> Precedes(c, d, l, k) \/ (c = l /\ d = k)
             /\ ~(Precedes(l, k, c, d) /\ Precedes(c, d, l, k + 1))
  BY DEF Precedes
<1>2. CASE n = <<>>
  BY <1>2 DEF Reached
<1>3. ASSUME n # <<>>, Added(i[l][k], n) PROVE Reached(i, l, k + 1, n)
  BY <1>1, <1>3 DEF Reached
<1>4. ASSUME n # <<>>, Reached(i, l, k, n), ~Hidden(i[l][k], n)
      PROVE  Reached(i, l, k + 1, n)
  BY <1>1, <1>4 DEF Reached
<1>5. ASSUME n # <<>>, Reached(i, l, k + 1, n), ~Added(i[l][k], n)
      PROVE  Reached(i, l, k, n) /\ ~Hidden(i[l][k], n)
  <2>1. PICK a \in DOMAIN i : \E b \in DOMAIN i[a] :
          /\ Precedes(a, b, l, k + 1) /\ Added(i[a][b], n)
          /\ \A c \in DOMAIN i : \A d \in DOMAIN i[c] :
               Precedes(a, b, c, d) /\ Precedes(c, d, l, k + 1) => ~Hidden(i[c][d], n)
    BY <1>5 DEF Reached
  <2>2. PICK b \in DOMAIN i[a] :
          /\ Precedes(a, b, l, k + 1) /\ Added(i[a][b], n)
          /\ \A c \in DOMAIN i : \A d \in DOMAIN i[c] :
               Precedes(a, b, c, d) /\ Precedes(c, d, l, k + 1) => ~Hidden(i[c][d], n)
    BY <2>1
  <2>3. Precedes(a, b, l, k)
    BY <1>1, <1>5, <2>2
  <2>4. ~Hidden(i[l][k], n)
    BY <1>1, <2>2, <2>3
  <2>5. Reached(i, l, k, n)
    BY <1>1, <2>2, <2>3 DEF Reached
  <2>6. QED
    BY <2>4, <2>5
<1>6. QED
  BY <1>2, <1>3, <1>4, <1>5

(* The end of a layer is the beginning of the next one. *)
LEMMA ReachedLayer ==
  ASSUME NEW i \in Images, NEW l \in DOMAIN i, NEW n
  PROVE  Reached(i, l, Len(i[l]) + 1, n) <=> Reached(i, l + 1, 1, n)
<1>1. \A c \in DOMAIN i : \A d \in DOMAIN i[c] :
        Precedes(c, d, l, Len(i[l]) + 1) <=> Precedes(c, d, l + 1, 1)
  <2>1. SUFFICES ASSUME NEW c \in DOMAIN i, NEW d \in DOMAIN i[c]
                 PROVE  Precedes(c, d, l, Len(i[l]) + 1) <=> Precedes(c, d, l + 1, 1)
    OBVIOUS
  <2>2. c \in Nat /\ l \in Nat /\ d \in 1 .. Len(i[c]) /\ Len(i[c]) \in Nat
    BY ImageEntries
  <2>3. c = l => d < Len(i[l]) + 1
    BY <2>2
  <2>4. QED
    BY <2>2, <2>3 DEF Precedes
<1>2. QED
  BY <1>1 DEF Reached

(* After the last layer exactly the contents of the image are reached, but *)
(* for what its own layer took away again.                                 *)
LEMMA ReachedAll ==
  ASSUME NEW i \in Images, NEW n \in Paths
  PROVE  Reached(i, Len(i) + 1, 1, n) <=> n \in Whole(i)
<1> USE ImageEntries
<1>1. \A c \in DOMAIN i : \A d \in DOMAIN i[c] : Precedes(c, d, Len(i) + 1, 1)
  BY DEF Precedes
<1>2. ASSUME Reached(i, Len(i) + 1, 1, n), n # <<>> PROVE n \in Whole(i)
  <2>1. PICK a \in DOMAIN i : \E b \in DOMAIN i[a] :
          /\ Added(i[a][b], n)
          /\ \A c \in DOMAIN i : \A d \in DOMAIN i[c] :
               Precedes(a, b, c, d) => ~Hidden(i[c][d], n)
    BY <1>1, <1>2 DEF Reached
  <2>2. PICK b \in DOMAIN i[a] :
          /\ Added(i[a][b], n)
          /\ \A c \in DOMAIN i : \A d \in DOMAIN i[c] :
               Precedes(a, b, c, d) => ~Hidden(i[c][d], n)
    BY <2>1
  <2>3. Adds(i[a], n)
    BY <2>2 DEF Adds
  <2>4. KeptAbove(i, a, n)
    BY <2>2 DEF KeptAbove, Hides, Precedes
  <2>5. n \in Prefixes(i[a][b].path)
    BY <2>2, PrefixesOf DEF Added
  <2>6. i[a][b] \in UNION {ToSet(l) : l \in ToSet(i)}
    BY DEF ToSet
  <2>7. n \in UNION {Prefixes(e.path) : e \in UNION {ToSet(l) : l \in ToSet(i)}}
    BY <2>5, <2>6
  <2>8. n \in Contents(i)
    BY <2>3, <2>4, <2>7 DEF Contents
  <2>9. \A d \in DOMAIN i[a] : d > b => ~Hidden(i[a][d], n)
    BY <2>2 DEF Precedes
  <2>10. n \notin Clobbered(i)
    BY <2>2, <2>4, <2>9 DEF Clobbered
  <2>11. QED
    BY <2>8, <2>10 DEF Whole
<1>3. ASSUME n \in Whole(i), n # <<>> PROVE Reached(i, Len(i) + 1, 1, n)
  <2>1. PICK a \in DOMAIN i :
          /\ KeptAbove(i, a, n)
          /\ \E b \in DOMAIN i[a] :
               Added(i[a][b], n) /\ \A d \in DOMAIN i[a] : d > b => ~Hidden(i[a][d], n)
    BY <1>3 DEF Whole, Clobbered
  <2>2. PICK b \in DOMAIN i[a] :
          Added(i[a][b], n) /\ \A d \in DOMAIN i[a] : d > b => ~Hidden(i[a][d], n)
    BY <2>1
  <2>3. ASSUME NEW c \in DOMAIN i, NEW d \in DOMAIN i[c], Precedes(a, b, c, d)
        PROVE  ~Hidden(i[c][d], n)
    <3>1. CASE c > a
      BY <2>1, <3>1 DEF KeptAbove, Hides
    <3>2. CASE c = a /\ b < d
      BY <2>2, <3>2
    <3>3. QED
      BY <2>3, <3>1, <3>2 DEF Precedes
  <2>4. QED
    BY <1>1, <2>2, <2>3 DEF Reached
<1>4. <<>> \in Whole(i)
  BY DEF Whole, Contents, Clobbered
<1>5. QED
  BY <1>2, <1>3, <1>4 DEF Reached

(* An image whose whiteouts come first in their layers loses nothing. *)
LEMMA NothingClobbered ==
  ASSUME NEW i \in Images,
         \A l \in DOMAIN i : \A b \in DOMAIN i[l] : \A d \in DOMAIN i[l] :
           d > b /\ i[l][b].kind = "file" => i[l][d].kind = "file"
  PROVE  Clobbered(i) = {}
<1>1. SUFFICES ASSUME NEW n \in Clobbered(i) PROVE FALSE
  OBVIOUS
<1>2. PICK a \in DOMAIN i : Adds(i[a], n) /\ KeptAbove(i, a, n)
  BY <1>1 DEF Clobbered, Contents
<1>3. PICK b \in DOMAIN i[a] : Added(i[a][b], n)
  BY <1>2 DEF Adds
<1>4. PICK d \in DOMAIN i[a] : d > b /\ Hidden(i[a][d], n)
  BY <1>1, <1>2, <1>3 DEF Clobbered
<1>5. QED
  BY <1>3, <1>4 DEF Added, Hidden

LEMMA ContentsPaths ==
  ASSUME NEW i \in Images PROVE Contents(i) \subseteq Paths
<1>1. \A e \in UNION {ToSet(l) : l \in ToSet(i)} : e.path \in Paths
  BY ImageEntries DEF ToSet
<1>2. <<>> \in Paths
  BY DEF Paths
<1>3. QED
  BY <1>1, <1>2, ClosedPrefixes DEF Contents

(* The mount points with their parents. *)
LEMMA MountPoints ==
  /\ AllMounts \subseteq Paths
  /\ WithParents(SystemMounts \cup {Workspace}) \subseteq Paths
  /\ \A n \in WithParents(SystemMounts \cup {Workspace}) :
       Prefixes(n) \subseteq WithParents(SystemMounts \cup {Workspace})
  /\ SystemMounts \subseteq WithParents(SystemMounts \cup {Workspace})
  /\ WithParents(SystemMounts \cup {Workspace}) \subseteq MountPaths
<1>1. AllMounts \subseteq Paths /\ SystemMounts \cup {Workspace} \subseteq AllMounts
  BY TreesAssumption DEF AllMounts, Paths
<1>2. QED
  BY <1>1, ClosedPrefixes DEF WithParents, MountPaths

-----------------------------------------------------------------------------
(* The steps of a command, apart from its end and from those that change   *)
(* the tree.                                                               *)
LEMMA LocalStep ==
  ASSUME Inv, NEW p \in Procs,
         \/ StartInit(p) \/ ApplyEntry(p) \/ NextLayer(p) \/ PrepareStaging(p)
         \/ Install(p) \/ KeepConfig(p) \/ CreateConfig(p) \/ WriteConfig(p)
         \/ StartFix(p) \/ LoadConfig(p) \/ MountsReady(p) \/ AlreadyPrepared(p)
         \/ BeginShift(p) \/ ShiftDone(p) \/ WriteMarker(p)
  PROVE  Inv'
<1> USE DEF Inv, At, disk, settings, unpack, local, ghosts
<1>1. CASE StartInit(p)
  <2>1. TypeOK'
    <3>1. Grow(NoTree, {<<>>}) \in Trees
      BY StagingRoot, AsTree
    <3>2. PICK i \in Images : image' = [image EXCEPT ![p] = i]
      BY <1>1 DEF StartInit
    <3>3. /\ image' \in [Procs -> Images \cup {<<>>}]
          /\ staging' \in [Procs -> Trees] /\ \A q \in Procs : IsTree(staging'[q])
      BY <1>1, <3>1, <3>2, StagingRoot DEF StartInit, TypeOK
    <3>4. QED
      BY <1>1, <3>3 DEF StartInit, TypeOK, Locations
  <2>2. ConfigOwner'
    BY <1>1 DEF StartInit, ConfigOwner, TypeOK
  <2>3. OneMapping'
    BY <1>1 DEF StartInit, OneMapping, TypeOK
  <2>4. MountsMade'
    BY <1>1 DEF StartInit, MountsMade, TypeOK
  <2>5. RootFirst'
    BY <1>1 DEF StartInit, RootFirst, TypeOK
  <2>6. WalkCovers'
    BY <1>1 DEF StartInit, WalkCovers, TypeOK
  <2>7. MarkerMeansShifted'
    BY <1>1 DEF StartInit, MarkerMeansShifted, TypeOK
  <2>8. ShiftedAbove' /\ ShiftedWithRoot'
    BY <1>1 DEF StartInit, ShiftedAbove, ShiftedWithRoot, RangesAbove,
                  RangesApart, TypeOK
  <2>9. Unpacked'
    <3>1. PICK i \in Images : image' = [image EXCEPT ![p] = i]
      BY <1>1 DEF StartInit
    <3>2. image'[p] = i /\ layer'[p] = 1 /\ entry'[p] = 1
      BY <1>1, <3>1 DEF StartInit, TypeOK, Unpacked
    <3>3. Len(i) \in Nat /\ \A l \in DOMAIN i : Len(i[l]) \in Nat
      BY ImageEntries
    <3>4. \A n \in Paths : n \in DOMAIN staging'[p] <=> Reached(i, 1, 1, n)
      BY <1>1, StagingRoot, ReachedNone DEF StartInit, TypeOK
    <3>5. \A q \in Procs \ {p} : /\ pc'[q] = pc[q] /\ image'[q] = image[q]
                                /\ staging'[q] = staging[q]
      BY <1>1, <3>1 DEF StartInit, TypeOK
    <3>6. pc'[p] = "extract" /\ layer' = layer /\ entry' = entry
      BY <1>1 DEF StartInit, TypeOK
    <3>7. /\ 1 \in 1 .. Len(i) + 1 /\ ~(1 > Len(i) + 1)
          /\ 1 <= Len(i) => 1 \in 1 .. Len(i[1]) + 1
      BY <3>3, ImageEntries
    <3>8. QED
      <4> DEFINE U(q) ==
            /\ pc'[q] = "idle" => layer'[q] = 1 /\ entry'[q] = 1
            /\ pc'[q] = "extract" =>
                 /\ image'[q] \in Images /\ layer'[q] \in 1 .. Len(image'[q]) + 1
                 /\ layer'[q] <= Len(image'[q]) =>
                      entry'[q] \in 1 .. Len(image'[q][layer'[q]]) + 1
                 /\ layer'[q] > Len(image'[q]) => entry'[q] = 1
                 /\ \A n \in Paths : n \in DOMAIN staging'[q] <=>
                                     Reached(image'[q], layer'[q], entry'[q], n)
            /\ pc'[q] = "install" =>
                 /\ image'[q] \in Images
                 /\ \A n \in Paths : n \in DOMAIN staging'[q] <=>
                      \/ n \in Whole(image'[q])
                      \/ n \in WithParents(SystemMounts \cup {Workspace})
      <4>1. U(p)
        BY <3>2, <3>4, <3>6, <3>7
      <4>2. ASSUME NEW q \in Procs \ {p} PROVE U(q)
        BY <3>5, <3>6, <4>2 DEF Unpacked
      <4>3. QED
        BY <4>1, <4>2 DEF Unpacked
  <2>10. WholeImage'
    BY <1>1 DEF StartInit, WholeImage, TypeOK
  <2>11. QED
    BY <2>1, <2>2, <2>3, <2>4, <2>5, <2>6,
       <2>7, <2>8, <2>9, <2>10 DEF Inv
<1>2. CASE ApplyEntry(p)
  <2>1. TypeOK'
    <3>1. /\ image[p] \in Images /\ layer[p] \in DOMAIN image[p]
          /\ entry[p] \in DOMAIN image[p][layer[p]]
          /\ image[p][layer[p]][entry[p]] \in Entries
      BY <1>2, ImageEntries DEF ApplyEntry, Unpacked, TypeOK
    <3>2. IsTree(apply_entry(staging[p], image[p][layer[p]][entry[p]]))
      BY <3>1, EntryTree DEF TypeOK
    <3>3. staging' \in [Procs -> Trees] /\ \A q \in Procs : IsTree(staging'[q])
      BY <1>2, <3>2, AsTree DEF ApplyEntry, TypeOK
    <3>4. entry' \in [Procs -> Nat]
      BY <1>2 DEF ApplyEntry, TypeOK
    <3>5. QED
      BY <1>2, <3>3, <3>4 DEF ApplyEntry, TypeOK
  <2>2. ConfigOwner'
    BY <1>2 DEF ApplyEntry, ConfigOwner, TypeOK
  <2>3. OneMapping'
    BY <1>2 DEF ApplyEntry, OneMapping, TypeOK
  <2>4. MountsMade'
    BY <1>2 DEF ApplyEntry, MountsMade, TypeOK
  <2>5. RootFirst'
    BY <1>2 DEF ApplyEntry, RootFirst, TypeOK
  <2>6. WalkCovers'
    BY <1>2 DEF ApplyEntry, WalkCovers, TypeOK
  <2>7. MarkerMeansShifted'
    BY <1>2 DEF ApplyEntry, MarkerMeansShifted, TypeOK
  <2>8. ShiftedAbove' /\ ShiftedWithRoot'
    BY <1>2 DEF ApplyEntry, ShiftedAbove, ShiftedWithRoot, RangesAbove,
                  RangesApart, TypeOK
  <2>9. Unpacked'
    <3>1. /\ image[p] \in Images /\ layer[p] \in DOMAIN image[p]
          /\ entry[p] \in DOMAIN image[p][layer[p]]
          /\ image[p][layer[p]][entry[p]] \in Entries
      BY <1>2, ImageEntries DEF ApplyEntry, Unpacked, TypeOK
    <3>2. \A n \in Paths : n \in DOMAIN staging'[p] <=>
            Reached(image[p], layer[p], entry[p] + 1, n)
      BY <1>2, <3>1, EntryTree, ReachedEntry DEF ApplyEntry, Unpacked, TypeOK
    <3>3. /\ pc' = pc /\ image' = image /\ layer' = layer /\ entry'[p] = entry[p] + 1
          /\ \A q \in Procs \ {p} : staging'[q] = staging[q] /\ entry'[q] = entry[q]
      BY <1>2 DEF ApplyEntry, TypeOK
    <3>4. /\ layer[p] \in 1 .. Len(image[p])
          /\ entry[p] + 1 \in 1 .. Len(image[p][layer[p]]) + 1
      BY <3>1, ImageEntries
    <3>5. layer[p] <= Len(image[p])
      BY <1>2 DEF ApplyEntry
    <3>6. Len(image[p]) \in Nat /\ layer[p] \in Nat
      BY <3>1, ImageEntries DEF TypeOK
    <3>7. /\ layer[p] \in 1 .. Len(image[p]) + 1 /\ ~(layer[p] > Len(image[p]))
      BY <3>4, <3>5, <3>6
    <3>8. pc[p] = "extract"
      BY <1>2 DEF ApplyEntry
    <3>9. QED
      BY <3>1, <3>2, <3>3, <3>4, <3>7, <3>8 DEF Unpacked
  <2>10. WholeImage'
    BY <1>2 DEF ApplyEntry, WholeImage, TypeOK
  <2>11. QED
    BY <2>1, <2>2, <2>3, <2>4, <2>5, <2>6,
       <2>7, <2>8, <2>9, <2>10 DEF Inv
<1>3. CASE NextLayer(p)
  <2>1. TypeOK'
    BY <1>3 DEF NextLayer, TypeOK, Locations
  <2>2. ConfigOwner'
    BY <1>3 DEF NextLayer, ConfigOwner, TypeOK
  <2>3. OneMapping'
    BY <1>3 DEF NextLayer, OneMapping, TypeOK
  <2>4. MountsMade'
    BY <1>3 DEF NextLayer, MountsMade, TypeOK
  <2>5. RootFirst'
    BY <1>3 DEF NextLayer, RootFirst, TypeOK
  <2>6. WalkCovers'
    BY <1>3 DEF NextLayer, WalkCovers, TypeOK
  <2>7. MarkerMeansShifted'
    BY <1>3 DEF NextLayer, MarkerMeansShifted, TypeOK
  <2>8. ShiftedAbove' /\ ShiftedWithRoot'
    BY <1>3 DEF NextLayer, ShiftedAbove, ShiftedWithRoot, RangesAbove,
                  RangesApart, TypeOK
  <2>9. Unpacked'
    <3>1. /\ pc[p] = "extract" /\ image[p] \in Images /\ layer[p] \in DOMAIN image[p]
          /\ entry[p] = Len(image[p][layer[p]]) + 1
      BY <1>3, ImageEntries DEF NextLayer, Unpacked, TypeOK
    <3>2. \A n \in Paths : n \in DOMAIN staging[p] <=>
            Reached(image[p], layer[p] + 1, 1, n)
      BY <3>1, ReachedLayer DEF Unpacked
    <3>3. /\ pc' = pc /\ image' = image /\ staging' = staging
          /\ layer'[p] = layer[p] + 1 /\ entry'[p] = 1
          /\ \A q \in Procs \ {p} : layer'[q] = layer[q] /\ entry'[q] = entry[q]
      BY <1>3 DEF NextLayer, TypeOK
    <3>4. /\ layer[p] + 1 \in 1 .. Len(image[p]) + 1
          /\ layer[p] + 1 <= Len(image[p]) =>
               1 \in 1 .. Len(image[p][layer[p] + 1]) + 1
      <4>1. /\ Len(image[p]) \in Nat /\ DOMAIN image[p] = 1 .. Len(image[p])
            /\ \A l \in DOMAIN image[p] : Len(image[p][l]) \in Nat
        BY <3>1, ImageEntries
      <4>2. layer[p] \in 1 .. Len(image[p])
        BY <3>1, <4>1
      <4>3. layer[p] + 1 <= Len(image[p]) => Len(image[p][layer[p] + 1]) \in Nat
        BY <4>1, <4>2
      <4>4. QED
        BY <4>1, <4>2, <4>3
    <3>5. QED
      <4> DEFINE U(q) ==
            /\ pc'[q] = "idle" => layer'[q] = 1 /\ entry'[q] = 1
            /\ pc'[q] = "extract" =>
                 /\ image'[q] \in Images /\ layer'[q] \in 1 .. Len(image'[q]) + 1
                 /\ layer'[q] <= Len(image'[q]) =>
                      entry'[q] \in 1 .. Len(image'[q][layer'[q]]) + 1
                 /\ layer'[q] > Len(image'[q]) => entry'[q] = 1
                 /\ \A n \in Paths : n \in DOMAIN staging'[q] <=>
                                     Reached(image'[q], layer'[q], entry'[q], n)
            /\ pc'[q] = "install" =>
                 /\ image'[q] \in Images
                 /\ \A n \in Paths : n \in DOMAIN staging'[q] <=>
                      \/ n \in Whole(image'[q])
                      \/ n \in WithParents(SystemMounts \cup {Workspace})
      <4>1. U(p)
        BY <3>1, <3>2, <3>3, <3>4
      <4>2. ASSUME NEW q \in Procs \ {p} PROVE U(q)
        BY <3>3, <4>2 DEF Unpacked
      <4>3. QED
        BY <4>1, <4>2 DEF Unpacked
  <2>10. WholeImage'
    BY <1>3 DEF NextLayer, WholeImage, TypeOK
  <2>11. QED
    BY <2>1, <2>2, <2>3, <2>4, <2>5, <2>6,
       <2>7, <2>8, <2>9, <2>10 DEF Inv
<1>4. CASE PrepareStaging(p)
  <2>1. TypeOK'
    <3> DEFINE W == WithParents(SystemMounts \cup {Workspace})
    <3>1. W \in SUBSET Paths /\ \A n \in W : Prefixes(n) \subseteq W
      BY MountPoints
    <3>2. /\ IsTree(staging[p]) /\ staging'[p] = Grow(staging[p], W)
          /\ \A q \in Procs \ {p} : staging'[q] = staging[q] /\ pc'[q] = pc[q]
      BY <1>4 DEF PrepareStaging, TypeOK
    <3>3. IsTree(staging'[p]) /\ DOMAIN staging'[p] = DOMAIN staging[p] \cup W
      <4> HIDE DEF W
      <4>1. \A n \in W : Prefixes(n) \subseteq W
        BY <3>1
      <4>2. /\ IsTree(Grow(staging[p], W))
            /\ DOMAIN Grow(staging[p], W) = DOMAIN staging[p] \cup W
        BY <3>1, <3>2, <4>1, GrowTree
      <4>3. QED
        BY <3>2, <4>2
    <3>4. /\ staging' \in [Procs -> Trees] /\ \A q \in Procs : IsTree(staging'[q])
      BY <1>4, <3>2, <3>3, AsTree DEF PrepareStaging, TypeOK
    <3>5. QED
      BY <1>4, <3>4 DEF PrepareStaging, TypeOK, Locations
  <2>2. ConfigOwner'
    BY <1>4 DEF PrepareStaging, ConfigOwner, TypeOK
  <2>3. OneMapping'
    BY <1>4 DEF PrepareStaging, OneMapping, TypeOK
  <2>4. MountsMade'
    BY <1>4 DEF PrepareStaging, MountsMade, TypeOK
  <2>5. RootFirst'
    BY <1>4 DEF PrepareStaging, RootFirst, TypeOK
  <2>6. WalkCovers'
    BY <1>4 DEF PrepareStaging, WalkCovers, TypeOK
  <2>7. MarkerMeansShifted'
    BY <1>4 DEF PrepareStaging, MarkerMeansShifted, TypeOK
  <2>8. ShiftedAbove' /\ ShiftedWithRoot'
    BY <1>4 DEF PrepareStaging, ShiftedAbove, ShiftedWithRoot, RangesAbove,
                  RangesApart, TypeOK
  <2>9. Unpacked'
    <3> DEFINE W == WithParents(SystemMounts \cup {Workspace})
    <3>1. W \in SUBSET Paths /\ \A n \in W : Prefixes(n) \subseteq W
      BY MountPoints
    <3>2. /\ IsTree(staging[p]) /\ staging'[p] = Grow(staging[p], W)
          /\ \A q \in Procs \ {p} : staging'[q] = staging[q] /\ pc'[q] = pc[q]
      BY <1>4 DEF PrepareStaging, TypeOK
    <3>3. IsTree(staging'[p]) /\ DOMAIN staging'[p] = DOMAIN staging[p] \cup W
      <4> HIDE DEF W
      <4>1. \A n \in W : Prefixes(n) \subseteq W
        BY <3>1
      <4>2. /\ IsTree(Grow(staging[p], W))
            /\ DOMAIN Grow(staging[p], W) = DOMAIN staging[p] \cup W
        BY <3>1, <3>2, <4>1, GrowTree
      <4>3. QED
        BY <3>2, <4>2
    <3>4. /\ pc[p] = "extract" /\ image[p] \in Images /\ image' = image
          /\ layer[p] = Len(image[p]) + 1 /\ entry[p] = 1
          /\ layer' = layer /\ entry' = entry
      BY <1>4, ImageEntries DEF PrepareStaging, Unpacked, TypeOK
    <3>5. \A n \in Paths : n \in DOMAIN staging[p] <=> n \in Whole(image[p])
      BY <3>4, ReachedAll DEF Unpacked
    <3>6. pc'[p] = "install"
      BY <1>4 DEF PrepareStaging, TypeOK
    <3>7. QED
      BY <3>2, <3>3, <3>4, <3>5, <3>6 DEF Unpacked
  <2>10. WholeImage'
    BY <1>4 DEF PrepareStaging, WholeImage, TypeOK
  <2>11. QED
    BY <2>1, <2>2, <2>3, <2>4, <2>5, <2>6,
       <2>7, <2>8, <2>9, <2>10 DEF Inv
<1>5. CASE Install(p)
  <2>1. TypeOK'
    <3>1. /\ DOMAIN rootfs = {} /\ rootfs' = staging[p] /\ orig' = staging[p]
          /\ IsTree(staging[p])
      BY <1>5, EmptyTree DEF Install, TypeOK
    <3>2. staging' \in [Procs -> Trees] /\ \A q \in Procs : IsTree(staging'[q])
      BY <1>5, EmptyTree, AsTree DEF Install, TypeOK
    <3>3. QED
      BY <1>5, <3>1, <3>2 DEF Install, TypeOK, Locations
  <2>2. ConfigOwner'
    BY <1>5 DEF Install, ConfigOwner, TypeOK
  <2>3. OneMapping'
    <3>1. DOMAIN rootfs = {}
      BY <1>5, EmptyTree DEF Install, TypeOK
    <3>2. \A q \in Procs : pc[q] \notin {"shift", "mark"}
      BY <3>1 DEF MountsMade
    <3>3. QED
      BY <1>5, <3>2 DEF Install, OneMapping, TypeOK
  <2>4. MountsMade'
    <3>1. /\ DOMAIN rootfs = {} /\ rootfs' = staging[p] /\ orig' = staging[p]
          /\ IsTree(staging[p])
      BY <1>5, EmptyTree DEF Install, TypeOK
    <3>2. \A q \in Procs :
            pc[q] \notin {"mounts", "identity", "shift", "mark", "prepared"}
      BY <3>1 DEF MountsMade
    <3>3. \A q \in Procs :
            pc'[q] \notin {"mounts", "identity", "shift", "mark", "prepared"}
      BY <1>5, <3>2 DEF Install, TypeOK
    <3>4. QED
      BY <3>3 DEF MountsMade
  <2>5. RootFirst'
    <3>1. /\ DOMAIN rootfs = {} /\ rootfs' = staging[p] /\ orig' = staging[p]
          /\ IsTree(staging[p])
      BY <1>5, EmptyTree DEF Install, TypeOK
    <3>2. \A q \in Procs :
            pc[q] \notin {"mounts", "identity", "shift", "mark", "prepared"}
      BY <3>1 DEF MountsMade
    <3>3. \A q \in Procs :
            pc'[q] \notin {"mounts", "identity", "shift", "mark", "prepared"}
      BY <1>5, <3>2 DEF Install, TypeOK
    <3>4. QED
      BY <3>3 DEF RootFirst
  <2>6. WalkCovers'
    <3>1. /\ DOMAIN rootfs = {} /\ rootfs' = staging[p] /\ orig' = staging[p]
          /\ IsTree(staging[p])
      BY <1>5, EmptyTree DEF Install, TypeOK
    <3>2. \A q \in Procs :
            pc[q] \notin {"mounts", "identity", "shift", "mark", "prepared"}
      BY <3>1 DEF MountsMade
    <3>3. \A q \in Procs :
            pc'[q] \notin {"mounts", "identity", "shift", "mark", "prepared"}
      BY <1>5, <3>2 DEF Install, TypeOK
    <3>4. QED
      BY <3>3 DEF WalkCovers
  <2>7. MarkerMeansShifted'
    BY <1>5 DEF Install, MarkerMeansShifted, TypeOK
  <2>8. ShiftedAbove' /\ ShiftedWithRoot'
    BY <1>5 DEF Install, ShiftedAbove, ShiftedWithRoot, RangesAbove,
                  RangesApart, TypeOK
  <2>9. Unpacked'
    BY <1>5 DEF Install, Unpacked, TypeOK
  <2>10. WholeImage'
    <3>1. /\ DOMAIN rootfs = {} /\ rootfs' = staging[p] /\ orig' = staging[p]
          /\ IsTree(staging[p])
      BY <1>5, EmptyTree DEF Install, TypeOK
    <3>2. installed' = image[p] /\ pc[p] = "install"
      BY <1>5 DEF Install
    <3>3. \A n \in Paths : n \in DOMAIN staging[p] <=>
              \/ n \in Whole(image[p])
              \/ n \in WithParents(SystemMounts \cup {Workspace})
      BY <3>2 DEF Unpacked
    <3>4. Whole(image[p]) \subseteq Paths
      BY <3>2, ContentsPaths DEF Unpacked, Whole
    <3>5. DOMAIN staging[p] \subseteq Paths
      BY <3>1 DEF IsTree, Paths
    <3>6. QED
      BY <3>1, <3>2, <3>3, <3>4, <3>5, MountPoints DEF WholeImage
  <2>11. QED
    BY <2>1, <2>2, <2>3, <2>4, <2>5, <2>6,
       <2>7, <2>8, <2>9, <2>10 DEF Inv
<1>6. CASE KeepConfig(p)
  <2>1. TypeOK'
    BY <1>6 DEF KeepConfig, TypeOK, Locations
  <2>2. ConfigOwner'
    BY <1>6 DEF KeepConfig, ConfigOwner, TypeOK
  <2>3. OneMapping'
    BY <1>6 DEF KeepConfig, OneMapping, TypeOK
  <2>4. MountsMade'
    BY <1>6 DEF KeepConfig, MountsMade, TypeOK
  <2>5. RootFirst'
    BY <1>6 DEF KeepConfig, RootFirst, TypeOK
  <2>6. WalkCovers'
    BY <1>6 DEF KeepConfig, WalkCovers, TypeOK
  <2>7. MarkerMeansShifted'
    BY <1>6 DEF KeepConfig, MarkerMeansShifted, TypeOK
  <2>8. ShiftedAbove' /\ ShiftedWithRoot'
    BY <1>6 DEF KeepConfig, ShiftedAbove, ShiftedWithRoot, RangesAbove,
                  RangesApart, TypeOK
  <2>9. Unpacked'
    BY <1>6 DEF KeepConfig, Unpacked, TypeOK
  <2>10. WholeImage'
    BY <1>6 DEF KeepConfig, WholeImage, TypeOK
  <2>11. QED
    BY <2>1, <2>2, <2>3, <2>4, <2>5, <2>6,
       <2>7, <2>8, <2>9, <2>10 DEF Inv
<1>7. CASE CreateConfig(p)
  <2>1. TypeOK'
    BY <1>7 DEF CreateConfig, TypeOK, Locations
  <2>2. ConfigOwner'
    BY <1>7 DEF CreateConfig, ConfigOwner, TypeOK
  <2>3. OneMapping'
    BY <1>7 DEF CreateConfig, OneMapping, TypeOK
  <2>4. MountsMade'
    BY <1>7 DEF CreateConfig, MountsMade, TypeOK
  <2>5. RootFirst'
    BY <1>7 DEF CreateConfig, RootFirst, TypeOK
  <2>6. WalkCovers'
    BY <1>7 DEF CreateConfig, WalkCovers, TypeOK
  <2>7. MarkerMeansShifted'
    BY <1>7 DEF CreateConfig, MarkerMeansShifted, TypeOK
  <2>8. ShiftedAbove' /\ ShiftedWithRoot'
    BY <1>7 DEF CreateConfig, ShiftedAbove, ShiftedWithRoot, RangesAbove,
                  RangesApart, TypeOK
  <2>9. Unpacked'
    BY <1>7 DEF CreateConfig, Unpacked, TypeOK
  <2>10. WholeImage'
    BY <1>7 DEF CreateConfig, WholeImage, TypeOK
  <2>11. QED
    BY <2>1, <2>2, <2>3, <2>4, <2>5, <2>6,
       <2>7, <2>8, <2>9, <2>10 DEF Inv
<1>8. CASE WriteConfig(p)
  <2>1. TypeOK'
    BY <1>8 DEF WriteConfig, TypeOK, Locations
  <2>2. ConfigOwner'
    BY <1>8 DEF WriteConfig, ConfigOwner, TypeOK
  <2>3. OneMapping'
    BY <1>8 DEF WriteConfig, OneMapping, TypeOK
  <2>4. MountsMade'
    BY <1>8 DEF WriteConfig, MountsMade, TypeOK
  <2>5. RootFirst'
    BY <1>8 DEF WriteConfig, RootFirst, TypeOK
  <2>6. WalkCovers'
    BY <1>8 DEF WriteConfig, WalkCovers, TypeOK
  <2>7. MarkerMeansShifted'
    BY <1>8 DEF WriteConfig, MarkerMeansShifted, TypeOK
  <2>8. ShiftedAbove' /\ ShiftedWithRoot'
    BY <1>8 DEF WriteConfig, ShiftedAbove, ShiftedWithRoot, RangesAbove,
                  RangesApart, TypeOK
  <2>9. Unpacked'
    BY <1>8 DEF WriteConfig, Unpacked, TypeOK
  <2>10. WholeImage'
    BY <1>8 DEF WriteConfig, WholeImage, TypeOK
  <2>11. QED
    BY <2>1, <2>2, <2>3, <2>4, <2>5, <2>6,
       <2>7, <2>8, <2>9, <2>10 DEF Inv
<1>9. CASE StartFix(p)
  <2>1. TypeOK'
    BY <1>9 DEF StartFix, TypeOK, Locations
  <2>2. ConfigOwner'
    BY <1>9 DEF StartFix, ConfigOwner, TypeOK
  <2>3. OneMapping'
    BY <1>9 DEF StartFix, OneMapping, TypeOK
  <2>4. MountsMade'
    BY <1>9 DEF StartFix, MountsMade, TypeOK
  <2>5. RootFirst'
    BY <1>9 DEF StartFix, RootFirst, TypeOK
  <2>6. WalkCovers'
    BY <1>9 DEF StartFix, WalkCovers, TypeOK
  <2>7. MarkerMeansShifted'
    BY <1>9 DEF StartFix, MarkerMeansShifted, TypeOK
  <2>8. ShiftedAbove' /\ ShiftedWithRoot'
    BY <1>9 DEF StartFix, ShiftedAbove, ShiftedWithRoot, RangesAbove,
                  RangesApart, TypeOK
  <2>9. Unpacked'
    BY <1>9 DEF StartFix, Unpacked, TypeOK
  <2>10. WholeImage'
    BY <1>9 DEF StartFix, WholeImage, TypeOK
  <2>11. QED
    BY <2>1, <2>2, <2>3, <2>4, <2>5, <2>6,
       <2>7, <2>8, <2>9, <2>10 DEF Inv
<1>10. CASE LoadConfig(p)
  <2>1. TypeOK'
    <3>1. resolve \in {NoHost, host} /\ resolve \in Accepted \cup {NoHost}
      BY <1>10 DEF LoadConfig, Loadable, resolve, detect, available, Accepted, TypeOK
    <3>2. action' \in [Procs -> Accepted \cup {NoHost}]
      BY <1>10, <3>1 DEF LoadConfig, TypeOK
    <3>3. todo' \in [Procs -> SUBSET Paths]
      BY <1>10, MountPoints DEF LoadConfig, TypeOK
    <3>4. QED
      BY <1>10, <3>2, <3>3 DEF LoadConfig, TypeOK, Locations
  <2>2. ConfigOwner'
    BY <1>10 DEF LoadConfig, ConfigOwner, TypeOK
  <2>3. OneMapping'
    <3>1. resolve \in {NoHost, host} /\ resolve \in Accepted \cup {NoHost}
      BY <1>10 DEF LoadConfig, Loadable, resolve, detect, available, Accepted, TypeOK
    <3>2. /\ pc'[p] = "mounts" /\ action'[p] = resolve
          /\ \A q \in Procs \ {p} : pc'[q] = pc[q] /\ action'[q] = action[q]
          /\ host' = host /\ marker' = marker /\ walked' = walked
      BY <1>10 DEF LoadConfig, TypeOK
    <3>3. QED
      BY <3>1, <3>2 DEF OneMapping
  <2>4. MountsMade'
    <3>1. DOMAIN rootfs # {}
      BY <1>10, EmptyTree DEF LoadConfig, Loadable, TypeOK
    <3>2. /\ pc'[p] = "mounts" /\ todo'[p] = mounts /\ mounts \subseteq AllMounts
          /\ \A q \in Procs \ {p} : pc'[q] = pc[q] /\ todo'[q] = todo[q]
          /\ rootfs' = rootfs /\ mounts' = mounts
      BY <1>10 DEF LoadConfig, TypeOK
    <3>3. QED
      BY <3>1, <3>2 DEF MountsMade
  <2>5. RootFirst'
    BY <1>10 DEF LoadConfig, RootFirst, TypeOK
  <2>6. WalkCovers'
    BY <1>10 DEF LoadConfig, WalkCovers, TypeOK
  <2>7. MarkerMeansShifted'
    BY <1>10 DEF LoadConfig, MarkerMeansShifted, TypeOK
  <2>8. ShiftedAbove' /\ ShiftedWithRoot'
    BY <1>10 DEF LoadConfig, ShiftedAbove, ShiftedWithRoot, RangesAbove,
                  RangesApart, TypeOK
  <2>9. Unpacked'
    BY <1>10 DEF LoadConfig, Unpacked, TypeOK
  <2>10. WholeImage'
    BY <1>10 DEF LoadConfig, WholeImage, TypeOK
  <2>11. QED
    BY <2>1, <2>2, <2>3, <2>4, <2>5, <2>6,
       <2>7, <2>8, <2>9, <2>10 DEF Inv
<1>11. CASE MountsReady(p)
  <2>1. TypeOK'
    BY <1>11 DEF MountsReady, TypeOK, Locations
  <2>2. ConfigOwner'
    BY <1>11 DEF MountsReady, ConfigOwner, TypeOK
  <2>3. OneMapping'
    BY <1>11 DEF MountsReady, OneMapping, TypeOK
  <2>4. MountsMade'
    BY <1>11 DEF MountsReady, MountsMade, TypeOK
  <2>5. RootFirst'
    BY <1>11 DEF MountsReady, RootFirst, TypeOK
  <2>6. WalkCovers'
    BY <1>11 DEF MountsReady, WalkCovers, TypeOK
  <2>7. MarkerMeansShifted'
    BY <1>11 DEF MountsReady, MarkerMeansShifted, TypeOK
  <2>8. ShiftedAbove' /\ ShiftedWithRoot'
    BY <1>11 DEF MountsReady, ShiftedAbove, ShiftedWithRoot, RangesAbove,
                  RangesApart, TypeOK
  <2>9. Unpacked'
    BY <1>11 DEF MountsReady, Unpacked, TypeOK
  <2>10. WholeImage'
    BY <1>11 DEF MountsReady, WholeImage, TypeOK
  <2>11. QED
    BY <2>1, <2>2, <2>3, <2>4, <2>5, <2>6,
       <2>7, <2>8, <2>9, <2>10 DEF Inv
<1>12. CASE AlreadyPrepared(p)
  <2>1. TypeOK'
    BY <1>12 DEF AlreadyPrepared, TypeOK, Locations
  <2>2. ConfigOwner'
    BY <1>12 DEF AlreadyPrepared, ConfigOwner, TypeOK
  <2>3. OneMapping'
    BY <1>12 DEF AlreadyPrepared, OneMapping, TypeOK
  <2>4. MountsMade'
    BY <1>12 DEF AlreadyPrepared, MountsMade, TypeOK
  <2>5. RootFirst'
    BY <1>12 DEF AlreadyPrepared, RootFirst, TypeOK
  <2>6. WalkCovers'
    BY <1>12 DEF AlreadyPrepared, WalkCovers, TypeOK
  <2>7. MarkerMeansShifted'
    BY <1>12 DEF AlreadyPrepared, MarkerMeansShifted, TypeOK
  <2>8. ShiftedAbove' /\ ShiftedWithRoot'
    BY <1>12 DEF AlreadyPrepared, ShiftedAbove, ShiftedWithRoot, RangesAbove,
                  RangesApart, TypeOK
  <2>9. Unpacked'
    BY <1>12 DEF AlreadyPrepared, Unpacked, TypeOK
  <2>10. WholeImage'
    BY <1>12 DEF AlreadyPrepared, WholeImage, TypeOK
  <2>11. QED
    BY <2>1, <2>2, <2>3, <2>4, <2>5, <2>6,
       <2>7, <2>8, <2>9, <2>10 DEF Inv
<1>13. CASE BeginShift(p)
  <2>1. TypeOK'
    <3>1. /\ IsTree(rootfs) /\ DOMAIN rootfs # {}
      BY <1>13 DEF BeginShift, MountsMade, TypeOK
    <3>2. <<>> \in DOMAIN rootfs /\ <<>> \in Paths
      BY <3>1, RootIn, EmptySeq DEF Paths
    <3>3. /\ pc'[p] = "shift" /\ todo'[p] = {<<>>}
          /\ \A q \in Procs \ {p} : pc'[q] = pc[q] /\ todo'[q] = todo[q]
          /\ rootfs' = rootfs /\ action' = action /\ late' = late
      BY <1>13 DEF BeginShift, TypeOK
    <3>4. todo' \in [Procs -> SUBSET Paths]
      BY <1>13, <3>2 DEF BeginShift, TypeOK
    <3>5. QED
      BY <1>13, <3>4 DEF BeginShift, TypeOK, Locations
  <2>2. ConfigOwner'
    BY <1>13 DEF BeginShift, ConfigOwner, TypeOK
  <2>3. OneMapping'
    <3>1. /\ walked' = walked \cup {action[p]} /\ marker' = marker /\ host' = host
          /\ action' = action /\ pc'[p] = "shift" /\ marker = NoHost
          /\ \A q \in Procs \ {p} : pc'[q] = pc[q]
      BY <1>13 DEF BeginShift, TypeOK
    <3>2. QED
      BY <3>1 DEF OneMapping
  <2>4. MountsMade'
    BY <1>13 DEF BeginShift, MountsMade, TypeOK
  <2>5. RootFirst'
    <3>1. /\ IsTree(rootfs) /\ DOMAIN rootfs # {}
      BY <1>13 DEF BeginShift, MountsMade, TypeOK
    <3>2. <<>> \in DOMAIN rootfs /\ <<>> \in Paths
      BY <3>1, RootIn, EmptySeq DEF Paths
    <3>3. /\ pc'[p] = "shift" /\ todo'[p] = {<<>>}
          /\ \A q \in Procs \ {p} : pc'[q] = pc[q] /\ todo'[q] = todo[q]
          /\ rootfs' = rootfs /\ action' = action /\ late' = late
      BY <1>13 DEF BeginShift, TypeOK
    <3>4. QED
      BY <3>2, <3>3 DEF RootFirst
  <2>6. WalkCovers'
    <3>1. /\ IsTree(rootfs) /\ DOMAIN rootfs # {}
      BY <1>13 DEF BeginShift, MountsMade, TypeOK
    <3>2. <<>> \in DOMAIN rootfs /\ <<>> \in Paths
      BY <3>1, RootIn, EmptySeq DEF Paths
    <3>3. /\ pc'[p] = "shift" /\ todo'[p] = {<<>>}
          /\ \A q \in Procs \ {p} : pc'[q] = pc[q] /\ todo'[q] = todo[q]
          /\ rootfs' = rootfs /\ action' = action /\ late' = late
      BY <1>13 DEF BeginShift, TypeOK
    <3>4. \A n \in DOMAIN rootfs : IsPrefix(<<>>, n)
      BY <3>1, RootPath DEF IsTree, Paths
    <3>5. QED
      BY <3>3, <3>4 DEF WalkCovers
  <2>7. MarkerMeansShifted'
    BY <1>13 DEF BeginShift, MarkerMeansShifted, TypeOK
  <2>8. ShiftedAbove' /\ ShiftedWithRoot'
    <3>1. /\ walked \subseteq walked' /\ rootfs' = rootfs /\ orig' = orig
      BY <1>13 DEF BeginShift
    <3>2. RangesAbove' => RangesAbove
      BY <3>1 DEF RangesAbove
    <3>3. RangesApart' => RangesApart
      BY <3>1 DEF RangesApart
    <3>4. ShiftedAbove'
      BY <3>1, <3>2 DEF ShiftedAbove
    <3>5. ShiftedWithRoot'
      BY <3>1, <3>3 DEF ShiftedWithRoot
    <3>6. QED
      BY <3>4, <3>5
  <2>9. Unpacked'
    BY <1>13 DEF BeginShift, Unpacked, TypeOK
  <2>10. WholeImage'
    BY <1>13 DEF BeginShift, WholeImage, TypeOK
  <2>11. QED
    BY <2>1, <2>2, <2>3, <2>4, <2>5, <2>6,
       <2>7, <2>8, <2>9, <2>10 DEF Inv
<1>14. CASE ShiftDone(p)
  <2>1. TypeOK'
    BY <1>14 DEF ShiftDone, TypeOK, Locations
  <2>2. ConfigOwner'
    BY <1>14 DEF ShiftDone, ConfigOwner, TypeOK
  <2>3. OneMapping'
    BY <1>14 DEF ShiftDone, OneMapping, TypeOK
  <2>4. MountsMade'
    BY <1>14 DEF ShiftDone, MountsMade, TypeOK
  <2>5. RootFirst'
    BY <1>14 DEF ShiftDone, RootFirst, TypeOK
  <2>6. WalkCovers'
    BY <1>14 DEF ShiftDone, WalkCovers, TypeOK
  <2>7. MarkerMeansShifted'
    BY <1>14 DEF ShiftDone, MarkerMeansShifted, TypeOK
  <2>8. ShiftedAbove' /\ ShiftedWithRoot'
    BY <1>14 DEF ShiftDone, ShiftedAbove, ShiftedWithRoot, RangesAbove,
                  RangesApart, TypeOK
  <2>9. Unpacked'
    BY <1>14 DEF ShiftDone, Unpacked, TypeOK
  <2>10. WholeImage'
    BY <1>14 DEF ShiftDone, WholeImage, TypeOK
  <2>11. QED
    BY <2>1, <2>2, <2>3, <2>4, <2>5, <2>6,
       <2>7, <2>8, <2>9, <2>10 DEF Inv
<1>15. CASE WriteMarker(p)
  <2>1. TypeOK'
    BY <1>15 DEF WriteMarker, TypeOK, Locations
  <2>2. ConfigOwner'
    BY <1>15 DEF WriteMarker, ConfigOwner, TypeOK
  <2>3. OneMapping'
    <3>1. \A q \in Procs : pc[q] \in {"shift", "mark"} => action[q] = host
      BY Ranges DEF OneMapping, TypeOK
    <3>2. /\ pc[p] = "mark" /\ pc'[p] = "prepared" /\ marker' = action[p]
          /\ action' = action /\ host' = host /\ walked' = walked
          /\ \A q \in Procs \ {p} : pc'[q] = pc[q]
      BY <1>15 DEF WriteMarker, TypeOK
    <3>3. QED
      BY <3>1, <3>2 DEF OneMapping
  <2>4. MountsMade'
    BY <1>15 DEF WriteMarker, MountsMade, TypeOK
  <2>5. RootFirst'
    BY <1>15 DEF WriteMarker, RootFirst, TypeOK
  <2>6. WalkCovers'
    BY <1>15 DEF WriteMarker, WalkCovers, TypeOK
  <2>7. MarkerMeansShifted'
    <3>1. pc[p] = "mark" /\ marker' = action[p] /\ rootfs' = rootfs /\ late' = late
      BY <1>15 DEF WriteMarker
    <3>2. \A n \in DOMAIN rootfs \ late : Settled(rootfs[n], action[p])
      BY <3>1 DEF WalkCovers
    <3>3. QED
      BY <3>1, <3>2 DEF MarkerMeansShifted
  <2>8. ShiftedAbove' /\ ShiftedWithRoot'
    BY <1>15 DEF WriteMarker, ShiftedAbove, ShiftedWithRoot, RangesAbove,
                  RangesApart, TypeOK
  <2>9. Unpacked'
    BY <1>15 DEF WriteMarker, Unpacked, TypeOK
  <2>10. WholeImage'
    BY <1>15 DEF WriteMarker, WholeImage, TypeOK
  <2>11. QED
    BY <2>1, <2>2, <2>3, <2>4, <2>5, <2>6,
       <2>7, <2>8, <2>9, <2>10 DEF Inv
<1>16. QED
  BY <1>1, <1>2, <1>3, <1>4, <1>5, <1>6, <1>7, <1>8,
     <1>9, <1>10, <1>11, <1>12, <1>13, <1>14, <1>15

(* A command that ends takes nothing with it but its own state. *)
LEMMA EndStep ==
  ASSUME Inv, NEW p \in Procs, End(p),
         config' = config \/ pc[p] = "write",
         UNCHANGED <<rootfs, marker, settings, ghosts>>
  PROVE  Inv'
<1> USE DEF Inv, settings, ghosts
<1>1. TypeOK'
  <2>1. staging' \in [Procs -> Trees] /\ \A q \in Procs : IsTree(staging'[q])
    BY EmptyTree, AsTree DEF End, TypeOK
  <2>2. QED
    BY <2>1 DEF End, TypeOK, Locations
<1>2. /\ \A q \in Procs \ {p} :
           /\ pc'[q] = pc[q] /\ image'[q] = image[q] /\ layer'[q] = layer[q]
           /\ entry'[q] = entry[q] /\ staging'[q] = staging[q]
           /\ action'[q] = action[q] /\ todo'[q] = todo[q]
      /\ pc'[p] = "idle" /\ action'[p] = NoHost /\ layer'[p] = 1 /\ entry'[p] = 1
  BY DEF End, TypeOK
<1>3. ConfigOwner'
  BY <1>2 DEF ConfigOwner
<1>4. OneMapping'
  BY <1>2 DEF OneMapping
<1>5. MountsMade'
  BY <1>2 DEF MountsMade
<1>6. RootFirst'
  BY <1>2 DEF RootFirst
<1>7. WalkCovers'
  BY <1>2 DEF WalkCovers
<1>8. /\ MarkerMeansShifted' /\ ShiftedAbove' /\ ShiftedWithRoot' /\ WholeImage'
  BY DEF MarkerMeansShifted, ShiftedAbove, ShiftedWithRoot, WholeImage, RangesAbove,
         RangesApart
<1>9. Unpacked'
  BY <1>2 DEF Unpacked
<1>10. QED
  BY <1>1, <1>3, <1>4, <1>5, <1>6, <1>7, <1>8, <1>9

(* A mount target is created beside walks: what appears after a marked     *)
(* walk began is late.                                                     *)
LEMMA EnsureMountStep ==
  ASSUME Inv, NEW p \in Procs, NEW n \in todo[p], EnsureMount(p, n)
  PROVE  Inv'
<1> USE DEF Inv, settings, unpack
<1>1. /\ pc[p] = "mounts" /\ n \in AllMounts /\ DOMAIN rootfs # {}
      /\ IsTree(rootfs) /\ IsTree(orig) /\ DOMAIN orig = DOMAIN rootfs
  BY DEF EnsureMount, MountsMade, TypeOK
<1>2. /\ n \in Paths /\ n \in Prefixes(n) /\ Prefixes(n) \in SUBSET Paths
      /\ \A m \in Prefixes(n) : Prefixes(m) \subseteq Prefixes(n)
  BY <1>1, MountPoints, ClosedPrefixes
<1>3. <<>> \in DOMAIN rootfs
  BY <1>1, RootIn
<1>4. /\ IsTree(rootfs') /\ DOMAIN rootfs' = DOMAIN rootfs \cup Prefixes(n)
      /\ \A m \in DOMAIN rootfs : rootfs'[m] = rootfs[m]
      /\ \A m \in Prefixes(n) \ DOMAIN rootfs : rootfs'[m] = 0
  <2> DEFINE P == Prefixes(n)
  <2>1. rootfs' = Grow(rootfs, P)
    BY DEF EnsureMount
  <2>2. P \in SUBSET Paths /\ \A m \in P : Prefixes(m) \subseteq P
    BY <1>2
  <2> HIDE DEF P
  <2>3. /\ IsTree(Grow(rootfs, P)) /\ DOMAIN Grow(rootfs, P) = DOMAIN rootfs \cup P
        /\ \A m \in DOMAIN rootfs : Grow(rootfs, P)[m] = rootfs[m]
        /\ \A m \in P \ DOMAIN rootfs : Grow(rootfs, P)[m] = 0
    BY <1>1, <2>2, GrowTree
  <2>4. QED
    BY <1>1, <2>1, <2>3 DEF P
<1>5. /\ IsTree(orig') /\ DOMAIN orig' = DOMAIN rootfs \cup Prefixes(n)
      /\ \A m \in DOMAIN rootfs : orig'[m] = orig[m]
      /\ \A m \in Prefixes(n) \ DOMAIN rootfs : orig'[m] = 0
  <2> DEFINE P == Prefixes(n)
  <2>1. orig' = Grow(orig, P)
    BY DEF EnsureMount
  <2>2. P \in SUBSET Paths /\ \A m \in P : Prefixes(m) \subseteq P
    BY <1>2
  <2> HIDE DEF P
  <2>3. /\ IsTree(Grow(orig, P)) /\ DOMAIN Grow(orig, P) = DOMAIN orig \cup P
        /\ \A m \in DOMAIN orig : Grow(orig, P)[m] = orig[m]
        /\ \A m \in P \ DOMAIN orig : Grow(orig, P)[m] = 0
    BY <1>1, <2>2, GrowTree
  <2>4. QED
    BY <1>1, <2>1, <2>3 DEF P
<1>6. /\ pc' = pc /\ action' = action /\ marker' = marker /\ mounts' = mounts
      /\ \A q \in Procs \ {p} : todo'[q] = todo[q]
      /\ todo'[p] = todo[p] \ {n}
  BY DEF EnsureMount, TypeOK
<1>7. /\ late \subseteq late'
      /\ (marker # NoHost \/ \E q \in Procs : pc[q] \in {"shift", "mark"})
           => \A m \in DOMAIN rootfs' \ late' : m \in DOMAIN rootfs
  BY <1>4 DEF EnsureMount
<1>8. TypeOK'
  <2>1. todo' \in [Procs -> SUBSET Paths]
    BY DEF EnsureMount, TypeOK
  <2>2. QED
    BY <1>4, <1>5, <2>1 DEF EnsureMount, TypeOK
<1>9. ConfigOwner'
  BY DEF EnsureMount, ConfigOwner
<1>10. OneMapping'
  BY DEF EnsureMount, OneMapping
<1>11. MountsMade'
  BY <1>1, <1>2, <1>4, <1>6 DEF MountsMade
<1>12. RootFirst'
  BY <1>1, <1>3, <1>4, <1>6 DEF RootFirst
<1>13. WalkCovers'
  <2>1. SUFFICES ASSUME NEW q \in Procs, NEW m \in DOMAIN rootfs' \ late',
                        pc[q] \in {"shift", "mark"}
                 PROVE  /\ pc[q] = "shift" => \/ Settled(rootfs'[m], action[q])
                                              \/ \E k \in todo'[q] : IsPrefix(k, m)
                        /\ pc[q] = "mark" => Settled(rootfs'[m], action[q])
    BY <1>6 DEF WalkCovers
  <2>2. m \in DOMAIN rootfs \ late /\ rootfs'[m] = rootfs[m]
    BY <1>4, <1>7, <2>1
  <2>3. todo'[q] = todo[q]
    BY <1>1, <1>6, <2>1
  <2>4. QED
    BY <2>2, <2>3 DEF WalkCovers
<1>14. MarkerMeansShifted'
  <2>1. SUFFICES ASSUME marker # NoHost, NEW m \in DOMAIN rootfs' \ late'
                 PROVE  Settled(rootfs'[m], marker)
    BY <1>6 DEF MarkerMeansShifted
  <2>2. m \in DOMAIN rootfs \ late /\ rootfs'[m] = rootfs[m]
    BY <1>4, <1>7, <2>1
  <2>3. QED
    BY <2>1, <2>2 DEF MarkerMeansShifted
<1>15. ShiftedAbove' /\ ShiftedWithRoot'
  <2>1. walked' = walked
    BY DEF EnsureMount
  <2>2. \A m \in DOMAIN rootfs' : rootfs'[m] # orig'[m] =>
          /\ m \in DOMAIN rootfs /\ rootfs'[m] = rootfs[m] /\ orig'[m] = orig[m]
          /\ rootfs[m] # orig[m]
    BY <1>4, <1>5
  <2>3. rootfs'[<<>>] = rootfs[<<>>]
    BY <1>3, <1>4
  <2>4. ShiftedAbove'
    BY <2>1, <2>2 DEF ShiftedAbove, RangesAbove
  <2>5. ShiftedWithRoot'
    BY <2>1, <2>2, <2>3 DEF ShiftedWithRoot, RangesApart
  <2>6. QED
    BY <2>4, <2>5
<1>16. Unpacked'
  BY DEF EnsureMount, Unpacked
<1>17. WholeImage'
  <2>1. Prefixes(n) \subseteq MountPaths
    BY <1>1 DEF MountPaths, WithParents
  <2>2. installed' = installed
    BY DEF EnsureMount
  <2>3. QED
    BY <1>4, <2>1, <2>2 DEF WholeImage
<1>18. QED
  BY <1>8, <1>9, <1>10, <1>11, <1>12, <1>13, <1>14, <1>15, <1>16, <1>17

(* One lchown of a walk, beside other walks. *)
LEMMA ShiftEntryStep ==
  ASSUME Inv, NEW p \in Procs, NEW n \in todo[p], ShiftEntry(p, n)
  PROVE  Inv'
<1> DEFINE h == action[p]
           v == lchown(rootfs[n], shifted_id(rootfs[n], h))
<1> USE DEF Inv, settings, unpack, ghosts
<1>1. /\ pc[p] = "shift" /\ n \in DOMAIN rootfs /\ todo[p] \subseteq DOMAIN rootfs
      /\ IsTree(rootfs) /\ IsTree(orig) /\ DOMAIN orig = DOMAIN rootfs
  BY DEF ShiftEntry, RootFirst, TypeOK
<1>2. h \in walked /\ h \in Accepted /\ h # NoHost
  BY <1>1, Ranges DEF OneMapping, TypeOK
<1>3. rootfs[n] \in 0 .. MaxId - 1 /\ shifted_id(rootfs[n], h) # Unresolved
  BY <1>1 DEF ShiftEntry, IsTree
<1>4. /\ v \in 0 .. MaxId - 1 /\ Settled(v, h)
      /\ \/ v = rootfs[n]
         \/ rootfs[n] < Size /\ ~mapped_id(rootfs[n], h) /\ v = rootfs[n] + h
      /\ Settled(rootfs[n], h) => v = rootfs[n]
  BY <1>2, <1>3, Shifts
<1>5. rootfs' = [rootfs EXCEPT ![n] = v]
  BY <1>1 DEF ShiftEntry
<1> HIDE DEF h, v
<1>6. /\ IsTree(rootfs') /\ DOMAIN rootfs' = DOMAIN rootfs
      /\ rootfs'[n] = v /\ \A m \in DOMAIN rootfs \ {n} : rootfs'[m] = rootfs[m]
  BY <1>1, <1>4, <1>5, ShiftTree
<1>7. /\ pc' = pc /\ action' = action /\ marker' = marker /\ mounts' = mounts
      /\ late' = late /\ orig' = orig /\ installed' = installed /\ walked' = walked
      /\ \A q \in Procs \ {p} : todo'[q] = todo[q]
      /\ todo'[p] = (todo[p] \ {n}) \cup Children(rootfs, n)
  BY DEF ShiftEntry, TypeOK
<1>8. \A m \in DOMAIN rootfs : Settled(rootfs[m], h) => Settled(rootfs'[m], h)
  BY <1>1, <1>4, <1>6
<1>9. \A q \in Procs : pc[q] \in {"shift", "mark"} => action[q] = h
  <2>1. \A q \in Procs : pc[q] \in {"shift", "mark"} => action[q] # NoHost
    BY Ranges DEF OneMapping, TypeOK
  <2>2. QED
    BY <1>1, <1>2, <2>1 DEF OneMapping, h
<1>10. Children(rootfs, n) \subseteq DOMAIN rootfs \ {<<>>}
  BY DEF Children
<1>11. TypeOK'
  <2>1. DOMAIN rootfs \subseteq Paths
    BY <1>1 DEF IsTree, Paths
  <2>2. todo' \in [Procs -> SUBSET Paths]
    BY <1>10, <2>1 DEF ShiftEntry, TypeOK
  <2>3. QED
    BY <1>6, <2>2 DEF ShiftEntry, TypeOK
<1>12. ConfigOwner'
  BY DEF ShiftEntry, ConfigOwner
<1>13. OneMapping'
  BY DEF ShiftEntry, OneMapping
<1>14. MountsMade'
  BY <1>1, <1>6, <1>7 DEF MountsMade
<1>15. <<>> \notin todo'[p] /\ Settled(rootfs'[<<>>], h)
  <2>1. <<>> \in DOMAIN rootfs
    BY <1>1, RootIn
  <2>2. CASE n = <<>>
    BY <1>1, <1>4, <1>6, <1>7, <1>10, <2>2 DEF RootFirst
  <2>3. CASE n # <<>>
    <3>1. <<>> \notin todo[p] /\ Settled(rootfs[<<>>], h)
      BY <1>1, <2>3 DEF RootFirst, h
    <3>2. QED
      BY <1>6, <1>7, <1>10, <2>1, <2>3, <3>1
  <2>4. QED
    BY <2>2, <2>3
<1>16. RootFirst'
  <2>1. SUFFICES ASSUME NEW q \in Procs, pc[q] = "shift"
                 PROVE  /\ todo'[q] \subseteq DOMAIN rootfs'
                        /\ \/ todo'[q] = {<<>>}
                           \/ /\ <<>> \notin todo'[q]
                              /\ Settled(rootfs'[<<>>], action[q])
    BY <1>7 DEF RootFirst
  <2>2. CASE q = p
    BY <1>1, <1>6, <1>7, <1>10, <1>15, <2>2 DEF h
  <2>3. CASE q # p
    BY <1>6, <1>7, <1>9, <1>15, <2>1, <2>3 DEF RootFirst
  <2>4. QED
    BY <2>2, <2>3
<1>17. WalkCovers'
  <2>1. SUFFICES ASSUME NEW q \in Procs, NEW m \in DOMAIN rootfs \ late,
                        pc[q] \in {"shift", "mark"}
                 PROVE  /\ pc[q] = "shift" => \/ Settled(rootfs'[m], h)
                                              \/ \E k \in todo'[q] : IsPrefix(k, m)
                        /\ pc[q] = "mark" => Settled(rootfs'[m], h)
    BY <1>6, <1>7, <1>9 DEF WalkCovers
  <2>2. CASE q # p
    BY <1>7, <1>8, <1>9, <2>1, <2>2 DEF WalkCovers
  <2>3. CASE q = p
    <3>1. CASE Settled(rootfs[m], h)
      BY <1>8, <3>1
    <3>2. CASE ~Settled(rootfs[m], h)
      <4>1. PICK k \in todo[p] : IsPrefix(k, m)
        BY <1>1, <3>2 DEF WalkCovers, h
      <4>2. CASE k # n
        BY <1>1, <1>7, <2>3, <4>1, <4>2
      <4>3. CASE k = n /\ m = n
        BY <1>1, <1>4, <1>6, <2>3, <4>3
      <4>4. CASE k = n /\ m # n
        <5>1. n \in Paths /\ m \in Paths /\ Prefixes(m) \subseteq DOMAIN rootfs
          BY <1>1 DEF IsTree, Paths
        <5>2. PICK c \in Prefixes(m) : c # <<>> /\ Front(c) = n /\ IsPrefix(c, m)
          BY <4>1, <4>4, <5>1, ThroughChild DEF IsStrictPrefix
        <5>3. c \in todo'[p]
          BY <1>7, <5>1, <5>2 DEF Children
        <5>4. QED
          BY <1>1, <2>3, <5>2, <5>3
      <4>5. QED
        BY <4>2, <4>3, <4>4
    <3>3. QED
      BY <3>1, <3>2
  <2>4. QED
    BY <2>2, <2>3
<1>18. MarkerMeansShifted'
  <2>1. marker \in {NoHost, h}
    BY <1>1 DEF OneMapping, h
  <2>2. QED
    BY <1>6, <1>7, <1>8, <2>1 DEF MarkerMeansShifted
<1>19. \A m \in DOMAIN rootfs :
         /\ rootfs[m] \in Nat /\ rootfs[m] < MaxId /\ orig[m] \in Nat
         /\ \/ rootfs'[m] = rootfs[m]
            \/ /\ m = n /\ rootfs[m] < Size /\ ~mapped_id(rootfs[m], h)
               /\ rootfs'[m] = rootfs[m] + h
  BY <1>1, <1>4, <1>6, HostsAssumption DEF IsTree
<1>20. ShiftedAbove'
  <2>1. SUFFICES ASSUME RangesAbove, NEW m \in DOMAIN rootfs, rootfs'[m] # orig[m]
                 PROVE  \E g \in walked : rootfs'[m] = orig[m] + g
    BY <1>6, <1>7 DEF ShiftedAbove, RangesAbove
  <2>2. CASE rootfs'[m] = rootfs[m]
    BY <2>1, <2>2 DEF ShiftedAbove
  <2>3. CASE rootfs'[m] # rootfs[m]
    <3>1. rootfs[m] < Size /\ rootfs'[m] = rootfs[m] + h
      BY <1>19, <2>3
    <3>2. rootfs[m] = orig[m]
      <4>1. SUFFICES ASSUME rootfs[m] # orig[m] PROVE FALSE
        OBVIOUS
      <4>2. PICK g \in walked : rootfs[m] = orig[m] + g
        BY <2>1, <4>1 DEF ShiftedAbove
      <4>3. g \in Nat /\ Size <= g /\ Size \in Nat
        BY <2>1, Ranges DEF RangesAbove, TypeOK
      <4>4. QED
        BY <1>19, <3>1, <4>2, <4>3
    <3>3. QED
      BY <1>2, <3>1, <3>2
  <2>4. QED
    BY <2>2, <2>3
<1>21. ShiftedWithRoot'
  <2>1. SUFFICES ASSUME RangesApart, NEW m \in DOMAIN rootfs, rootfs'[m] # orig[m]
                 PROVE  /\ orig[m] < Size
                        /\ \E g \in walked :
                             /\ rootfs'[m] = orig[m] + g
                             /\ mapped_id(rootfs'[<<>>], g) \/ g + Size > MaxId
    BY <1>6, <1>7 DEF ShiftedWithRoot, RangesApart
  <2>2. ASSUME NEW g \in walked, g # h PROVE Size <= g
    <3>1. g \in Nat /\ h \in Nat /\ Size \in Nat
      BY <1>2, Ranges DEF TypeOK
    <3>2. CASE g < h
      BY <1>2, <2>1, <3>2 DEF RangesApart
    <3>3. CASE h < g
      BY <1>2, <2>1, <3>1, <3>3 DEF RangesApart
    <3>4. QED
      BY <2>2, <3>1, <3>2, <3>3
  <2>3. \A g \in walked : /\ g \in Accepted /\ g \in Nat /\ Size \in Nat
                          /\ MaxId \in Nat /\ g + Size <= MaxId + 1
    BY Ranges DEF TypeOK
  <2>4. <<>> \in DOMAIN rootfs
    BY <1>1, RootIn
  <2>5. CASE rootfs'[m] = rootfs[m]
    <3>1. /\ orig[m] < Size
          /\ \E g \in walked : /\ rootfs[m] = orig[m] + g
                               /\ mapped_id(rootfs[<<>>], g) \/ g + Size > MaxId
      BY <2>1, <2>5 DEF ShiftedWithRoot
    <3>2. PICK g \in walked : /\ rootfs[m] = orig[m] + g
                              /\ mapped_id(rootfs[<<>>], g) \/ g + Size > MaxId
      BY <3>1
    <3>3. mapped_id(rootfs[<<>>], g) => rootfs'[<<>>] = rootfs[<<>>]
      <4>1. SUFFICES ASSUME mapped_id(rootfs[<<>>], g), rootfs'[<<>>] # rootfs[<<>>]
                     PROVE  FALSE
        OBVIOUS
      <4>2. rootfs[<<>>] < Size /\ ~mapped_id(rootfs[<<>>], h)
        BY <1>19, <2>4, <4>1
      <4>3. rootfs[<<>>] >= g
        BY <4>1 DEF mapped_id
      <4>4. g # h
        BY <4>1, <4>2
      <4>5. QED
        BY <1>19, <2>2, <2>3, <2>4, <4>2, <4>3, <4>4
    <3>4. QED
      BY <2>5, <3>1, <3>2, <3>3
  <2>6. CASE rootfs'[m] # rootfs[m]
    <3>1. /\ m = n /\ rootfs[m] < Size /\ ~mapped_id(rootfs[m], h)
          /\ rootfs'[m] = rootfs[m] + h
      BY <1>19, <2>6
    <3>2. rootfs[m] = orig[m]
      <4>1. SUFFICES ASSUME rootfs[m] # orig[m] PROVE FALSE
        OBVIOUS
      <4>2. orig[m] < Size /\ \E g \in walked : rootfs[m] = orig[m] + g
        BY <2>1, <4>1 DEF ShiftedWithRoot
      <4>3. PICK g \in walked : rootfs[m] = orig[m] + g
        BY <4>2
      <4>4. CASE g = h
        <5>1. rootfs[m] \in 0 .. MaxId - 1 /\ rootfs[m] >= h /\ rootfs[m] < h + Size
          BY <1>19, <2>3, <4>2, <4>3, <4>4
        <5>2. QED
          BY <1>2, <3>1, <5>1, Ranges
      <4>5. CASE g # h
        BY <1>19, <2>2, <2>3, <3>1, <4>3, <4>5
      <4>6. QED
        BY <4>4, <4>5
    <3>3. mapped_id(rootfs'[<<>>], h) \/ h + Size > MaxId
      <4>1. CASE mapped_id(rootfs'[<<>>], h)
        BY <4>1
      <4>2. CASE rootfs'[<<>>] = Size - 1 /\ rootfs'[<<>>] + h = MaxId
        BY <1>2, <2>3, <4>2
      <4>3. QED
        BY <1>15, <4>1, <4>2 DEF Settled
    <3>4. QED
      BY <1>2, <3>1, <3>2, <3>3
  <2>7. QED
    BY <2>5, <2>6
<1>22. Unpacked'
  BY DEF ShiftEntry, Unpacked
<1>23. WholeImage'
  BY <1>6, <1>7 DEF WholeImage
<1>24. QED
  BY <1>11, <1>12, <1>13, <1>14, <1>16, <1>17, <1>18, <1>20, <1>21, <1>22, <1>23

(* Between commands nobody walks, writes or unpacks. *)
LEMMA EditStep ==
  ASSUME Inv,
         \/ \E n \in ExtraMounts : AddMount(n)
         \/ \E g \in Hosts \cup {NoHost} : ChangeRange(g)
         \/ RemoveSysroot
  PROVE  Inv'
<1> USE DEF Inv, Edit, local, unpack, ghosts
<1>1. \A p \in Procs : pc[p] = "idle" /\ pc'[p] = "idle" /\ action[p] = NoHost
  BY DEF AddMount, ChangeRange, RemoveSysroot, OneMapping
<1>2. ConfigOwner' /\ MountsMade' /\ RootFirst' /\ WalkCovers'
  BY <1>1 DEF ConfigOwner, MountsMade, RootFirst, WalkCovers
<1>3. OneMapping'
  BY <1>1 DEF OneMapping, AddMount, ChangeRange, RemoveSysroot
<1>4. Unpacked'
  BY <1>1 DEF Unpacked, AddMount, ChangeRange, RemoveSysroot
<1>5. ASSUME NEW n \in ExtraMounts, AddMount(n)
      PROVE  /\ TypeOK' /\ MarkerMeansShifted' /\ WholeImage'
             /\ ShiftedAbove' /\ ShiftedWithRoot'
  BY <1>5 DEF AddMount, TypeOK, AllMounts, MarkerMeansShifted, ShiftedAbove,
              ShiftedWithRoot, RangesAbove, RangesApart, WholeImage
<1>6. ASSUME NEW g \in Hosts \cup {NoHost}, ChangeRange(g)
      PROVE  /\ TypeOK' /\ MarkerMeansShifted' /\ WholeImage'
             /\ ShiftedAbove' /\ ShiftedWithRoot'
  BY <1>6 DEF ChangeRange, TypeOK, MarkerMeansShifted, ShiftedAbove,
              ShiftedWithRoot, RangesAbove, RangesApart, WholeImage
<1>7. CASE RemoveSysroot
  <2>1. DOMAIN rootfs' = {} /\ IsTree(rootfs') /\ IsTree(orig') /\ DOMAIN orig' = {}
    BY <1>7, EmptyTree DEF RemoveSysroot
  <2>2. TypeOK'
    BY <1>7, <2>1 DEF RemoveSysroot, TypeOK
  <2>3. MarkerMeansShifted' /\ ShiftedAbove' /\ ShiftedWithRoot' /\ WholeImage'
    BY <1>7, <2>1 DEF RemoveSysroot, MarkerMeansShifted, ShiftedAbove,
                      ShiftedWithRoot, WholeImage
  <2>4. QED
    BY <1>2, <1>3, <1>4, <2>2, <2>3
<1>8. QED
  BY <1>2, <1>3, <1>4, <1>5, <1>6, <1>7

LEMMA InitInv == Init => Inv
<1> SUFFICES ASSUME Init PROVE Inv
  OBVIOUS
<1>1. IsTree(rootfs) /\ orig = rootfs
  BY EmptyTree, TreesAssumption DEF Init
<1>2. TypeOK
  <2>1. staging \in [Procs -> Trees] /\ \A p \in Procs : IsTree(staging[p])
    BY EmptyTree, AsTree DEF Init
  <2>2. QED
    BY <1>1, <2>1 DEF Init, TypeOK, Locations, AllMounts
<1>3. ConfigOwner /\ OneMapping /\ MountsMade /\ RootFirst /\ WalkCovers
  BY DEF Init, ConfigOwner, OneMapping, MountsMade, RootFirst, WalkCovers
<1>4. MarkerMeansShifted /\ ShiftedAbove /\ ShiftedWithRoot
  BY <1>1 DEF Init, MarkerMeansShifted, ShiftedAbove, ShiftedWithRoot
<1>5. Unpacked /\ WholeImage
  BY DEF Init, Unpacked, WholeImage
<1>6. QED
  BY <1>2, <1>3, <1>4, <1>5 DEF Inv

LEMMA NextInv == Inv /\ [Next]_vars => Inv'
<1> SUFFICES ASSUME Inv, [Next]_vars PROVE Inv'
  OBVIOUS
<1>1. ASSUME NEW p \in Procs, Command(p) PROVE Inv'
  <2>1. CASE \/ StartInit(p) \/ ApplyEntry(p) \/ NextLayer(p) \/ PrepareStaging(p)
             \/ Install(p) \/ KeepConfig(p) \/ CreateConfig(p) \/ WriteConfig(p)
             \/ StartFix(p) \/ LoadConfig(p) \/ MountsReady(p)
             \/ AlreadyPrepared(p) \/ BeginShift(p) \/ ShiftDone(p) \/ WriteMarker(p)
    BY <2>1, LocalStep
  <2>2. CASE \/ InstallFails(p) \/ WriteConfigFails(p) \/ LoadFails(p)
             \/ OtherMapping(p) \/ Finish(p) \/ FailOrCrash(p)
             \/ \E n \in todo[p] : ShiftFails(p, n)
    BY <2>2, EndStep DEF InstallFails, WriteConfigFails, LoadFails, OtherMapping,
                         Finish, FailOrCrash, ShiftFails, disk
  <2>3. CASE \E n \in todo[p] : EnsureMount(p, n) \/ ShiftEntry(p, n)
    BY <2>3, EnsureMountStep, ShiftEntryStep
  <2>4. QED
    BY <1>1, <2>1, <2>2, <2>3 DEF Command
<1>2. CASE UNCHANGED vars
  BY <1>2 DEF Inv, TypeOK, ConfigOwner, OneMapping, MountsMade, RootFirst, WalkCovers,
              MarkerMeansShifted, ShiftedAbove, ShiftedWithRoot, RangesAbove,
              RangesApart, Unpacked, WholeImage, vars, disk, settings, local, unpack,
              ghosts
<1>3. QED
  BY <1>1, <1>2, EditStep DEF Next

(* Whatever commands run together, crash, fail and run again, and whatever *)
(* the operator changes between them, the invariant holds.                 *)
THEOREM Invariance == Spec => []Inv
<1>1. Init => Inv
  BY InitInv
<1>2. Inv /\ [Next]_vars => Inv'
  BY NextInv
<1>3. QED
  BY <1>1, <1>2, PTL DEF Spec

-----------------------------------------------------------------------------
(* A sysroot made by init is the whole image with the system's mount       *)
(* points, for any image but for what a layer adds before a whiteout of    *)
(* its own, whoever else ran or crashed; past its mounts, a command misses *)
(* none of the configured targets (README.md, "installs the result         *)
(* atomically").                                                           *)
THEOREM InstallsWhole == Spec => []CompleteInstall
<1>1. Inv => CompleteInstall
  BY DEF Inv, WholeImage, Whole, MountsMade, CompleteInstall, sysroot_issues
<1>2. QED
  BY <1>1, Invariance, PTL

(* Over crashes, reruns, concurrent fixes and changes of /etc/subuid no    *)
(* owner is shifted twice, whatever ranges above the ids of a container    *)
(* are walked with, and all are shifted with the same range, if those      *)
(* ranges lie apart or there is only one.                                  *)
THEOREM OwnersShiftedOnce == Spec => []ShiftedOnce
<1>1. Inv => ShiftedOnce
  <2>1. SUFFICES ASSUME Inv PROVE ShiftedOnce
    OBVIOUS
  <2>2. SUFFICES ASSUME RangesApart
                 PROVE  \E h \in walked \cup {0} :
                          \A n \in DOMAIN rootfs : rootfs[n] \in {orig[n], orig[n] + h}
    BY <2>1 DEF Inv, ShiftedAbove, ShiftedOnce
  <2>3. CASE \A n \in DOMAIN rootfs : rootfs[n] = orig[n]
    BY <2>3
  <2>4. ASSUME NEW k \in DOMAIN rootfs, rootfs[k] # orig[k]
        PROVE  \E h \in walked \cup {0} :
                 \A n \in DOMAIN rootfs : rootfs[n] \in {orig[n], orig[n] + h}
    <3>1. PICK g \in walked : /\ rootfs[k] = orig[k] + g
                              /\ mapped_id(rootfs[<<>>], g) \/ g + Size > MaxId
      BY <2>1, <2>2, <2>4 DEF Inv, ShiftedWithRoot
    <3>2. rootfs[<<>>] \in 0 .. MaxId - 1
      BY <2>1, <2>4, RootIn DEF Inv, TypeOK, IsTree
    <3>3. ASSUME NEW h \in walked,
                 mapped_id(rootfs[<<>>], h) \/ h + Size > MaxId
          PROVE  h = g
      <4>1. /\ g \in Nat /\ h \in Nat /\ Size \in Nat /\ MaxId \in Nat
            /\ mapped_id(rootfs[<<>>], g) <=> rootfs[<<>>] >= g /\ rootfs[<<>>] < g + Size
            /\ mapped_id(rootfs[<<>>], h) <=> rootfs[<<>>] >= h /\ rootfs[<<>>] < h + Size
        BY <2>1, <3>2, Ranges DEF Inv, TypeOK
      <4>2. ~(g < h)
        <5>1. SUFFICES ASSUME g < h PROVE FALSE
          OBVIOUS
        <5>2. Size <= g /\ g + Size <= h /\ h + Size <= MaxId
          BY <2>2, <5>1 DEF RangesApart
        <5>3. QED
          BY <3>1, <3>2, <3>3, <4>1, <5>2
      <4>3. ~(h < g)
        <5>1. SUFFICES ASSUME h < g PROVE FALSE
          OBVIOUS
        <5>2. Size <= h /\ h + Size <= g /\ g + Size <= MaxId
          BY <2>2, <5>1 DEF RangesApart
        <5>3. QED
          BY <3>1, <3>2, <3>3, <4>1, <5>2
      <4>4. QED
        BY <4>1, <4>2, <4>3
    <3>4. \A n \in DOMAIN rootfs : rootfs[n] \in {orig[n], orig[n] + g}
      BY <2>1, <2>2, <3>3 DEF Inv, ShiftedWithRoot
    <3>5. QED
      BY <3>4
  <2>5. QED
    BY <2>3, <2>4
<1>2. QED
  BY <1>1, Invariance, PTL

(* The marker is only written over a tree whose walk was complete, and     *)
(* stays true of every path that walk could see.                           *)
THEOREM MarkerKept == Spec => []MarkerMeansShifted
<1>1. Inv => MarkerMeansShifted
  BY DEF Inv
<1>2. QED
  BY <1>1, Invariance, PTL

(* No step of a command removes a path, replaces a tree or replaces a      *)
(* complete config.toml (README.md, "never overwritten").                  *)
THEOREM Preserves == Spec => NeverOverwritten
<1> DEFINE A == \/ \A p \in Procs : pc[p] = "idle"
                \/ /\ DOMAIN rootfs \subseteq DOMAIN rootfs'
                   /\ \A n \in DOMAIN orig : orig'[n] = orig[n]
                   /\ rootfs # NoTree => installed' = installed
                   /\ config = "good" => config' = "good"
<1>1. Inv /\ [Next]_vars => [A]_vars
  <2>1. SUFFICES ASSUME Inv, Next PROVE A
    OBVIOUS
  <2>2. ASSUME NEW p \in Procs, Command(p) PROVE A
    <3> USE DEF disk, settings, local, unpack, ghosts, At
    <3>1. CASE UNCHANGED <<rootfs, config, orig, installed>>
      BY <3>1
    <3>2. CASE Install(p)
      <4>1. DOMAIN rootfs = {} /\ DOMAIN orig = {} /\ rootfs = NoTree
        BY <2>1, <3>2, EmptyTree DEF Inv, TypeOK, Install
      <4>2. QED
        BY <3>2, <4>1 DEF Install
    <3>3. CASE CreateConfig(p) \/ WriteConfig(p)
      BY <3>3 DEF CreateConfig, WriteConfig
    <3>4. CASE WriteConfigFails(p)
      BY <2>1, <3>4 DEF WriteConfigFails, Inv, ConfigOwner
    <3>5. ASSUME NEW n \in todo[p], EnsureMount(p, n) PROVE A
      BY <2>1, <3>5 DEF EnsureMount, Grow, Inv, TypeOK
    <3>6. ASSUME NEW n \in todo[p], ShiftEntry(p, n) PROVE A
      <4>1. DOMAIN rootfs' = DOMAIN rootfs
        BY <3>6 DEF ShiftEntry
      <4>2. QED
        BY <3>6, <4>1 DEF ShiftEntry
    <3>7. CASE \/ StartInit(p) \/ ApplyEntry(p) \/ NextLayer(p) \/ PrepareStaging(p)
               \/ InstallFails(p) \/ KeepConfig(p) \/ StartFix(p) \/ LoadConfig(p)
               \/ LoadFails(p) \/ MountsReady(p) \/ AlreadyPrepared(p)
               \/ OtherMapping(p) \/ BeginShift(p) \/ ShiftDone(p) \/ WriteMarker(p)
               \/ Finish(p) \/ FailOrCrash(p) \/ \E n \in todo[p] : ShiftFails(p, n)
      <4>1. UNCHANGED <<rootfs, config, orig, installed>>
        BY <3>7 DEF StartInit, ApplyEntry, NextLayer, PrepareStaging, InstallFails,
             KeepConfig, StartFix, LoadConfig, LoadFails, MountsReady,
             AlreadyPrepared, OtherMapping, BeginShift, ShiftDone, WriteMarker,
             Finish, FailOrCrash, ShiftFails
      <4>2. QED
        BY <3>1, <4>1
    <3>8. QED
      BY <2>2, <3>2, <3>3, <3>4, <3>5, <3>6, <3>7 DEF Command
  <2>3. CASE ~\E p \in Procs : Command(p)
    BY <2>1, <2>3 DEF Next, AddMount, ChangeRange, RemoveSysroot, Edit
  <2>4. QED
    BY <2>2, <2>3
<1>2. QED
  BY <1>1, Invariance, PTL DEF Spec, NeverOverwritten
=============================================================================
