--------------------------- MODULE NftRules_proofs ---------------------------
(***************************************************************************)
(* Proofs about NftRules, for any number of starts, any configurations and *)
(* any number of changes by other programs.                                *)
(***************************************************************************)
EXTENDS NftRules, SequenceTheorems, FiniteSetTheorems,
        WellFoundedInduction, TLAPS

-----------------------------------------------------------------------------
(* The inductive invariant. *)

Locations == Working \cup {"off", "rejected", "ok", "raced", "refused", "failed"}
RuleSet == {Rule(tag, b, s) : tag \in Tags, b \in BOOLEAN, s \in Configured}
Views == [table : BOOLEAN, chains : SUBSET Chains,
          state : [Chains -> [count : Nat, managed : SUBSET Tags]]]

TypeOK ==
  /\ Configured # {}
  /\ table \in BOOLEAN /\ flushed \in BOOLEAN
  /\ DOMAIN rules = (IF table THEN Chains ELSE {})
  /\ \A c \in DOMAIN rules : rules[c] \in Seq(RuleSet)
  /\ genid \in Nat /\ foreign \in Nat
  /\ pc \in [Starts -> Locations]
  /\ settings \in [Starts -> Configured]
  /\ view \in [Starts -> Views]
  /\ gen \in [Starts -> Nat] /\ attempt \in [Starts -> Nat]
  /\ quiet \in [Starts -> BOOLEAN]

(* A chain is empty, or its first rules are the ones it is for; of the     *)
(* stamps there are none, or one of each.                                  *)
Shape(rs, c) ==
  \/ Len(rs) = 0
  \/ /\ Len(rs) >= Len(TagsOf(c))
     /\ \A i \in DOMAIN TagsOf(c) : rs[i].tag = TagsOf(c)[i]
     /\ \/ \A i \in DOMAIN rs : ~rs[i].stamped
        \/ /\ \A i \in DOMAIN rs : rs[i].stamped => rs[i].tag \in ToSet(TagsOf(c))
           /\ \A t \in ToSet(TagsOf(c)) :
                \E i \in DOMAIN rs : rs[i].stamped /\ rs[i].tag = t
Shapes == \A c \in DOMAIN rules : Shape(rules[c], c)

(* Hence a dump shows a chain that lacks all its rules or none. *)
Sane(state, c) ==
  \/ state = DefaultRuleState
  \/ state.count >= Len(TagsOf(c)) /\ state.managed \in {{}, ToSet(TagsOf(c))}

SeenTable == Working \ {"table"}
SeenChain(c) ==
  SeenTable \ (IF c = "forward" THEN {"forward"} ELSE {"forward", "postrouting"})
SeenRules(c) == IF c = "forward" THEN {"postroutingRules", "decide", "batch"}
                ELSE {"decide", "batch"}

ViewSane(p) ==
  /\ \A c \in Chains : Sane(view[p].state[c], c)
  /\ pc[p] \in SeenTable =>
       /\ ~view[p].table => /\ view[p].chains = {}
                            /\ \A c \in Chains : view[p].state[c] = DefaultRuleState
       /\ pc[p] \notin {"decide", "batch"} => view[p].table
  /\ pc[p] = "batch" => ~NothingToDo(view[p])

(* What a start has seen in an attempt is still there, unless another      *)
(* program removed something.                                              *)
ViewHolds(p) ==
  quiet[p] /\ pc[p] \in SeenTable =>
    /\ view[p].table => table
    /\ view[p].chains \subseteq DOMAIN rules
    /\ \A c \in Chains : view[p].state[c].count > 0 =>
         c \in DOMAIN rules /\ Len(rules[c]) > 0

Complete == table /\ \A c \in Chains : Len(rules[c]) > 0

Outcome(p) ==
  /\ pc[p] = "ok" /\ quiet[p] => Complete
  /\ pc[p] = "refused" => ~quiet[p]

(* While nothing was removed under a start: every chain has exactly its    *)
(* rules, a table that was seen was seen with all of them, and an attempt  *)
(* fails without a table only for a change elsewhere.                      *)
SawAll(p) ==
  \A c \in Chains :
    /\ pc[p] \in SeenChain(c) => c \in view[p].chains
    /\ pc[p] \in SeenRules(c) => view[p].state[c].count > 0

ChainsExact == \A c \in DOMAIN rules : Len(rules[c]) = Len(TagsOf(c))

Undisturbed(p) ==
  /\ pc[p] \in Working => quiet[p]
  /\ pc[p] \in SeenTable /\ view[p].table => SawAll(p)
  /\ pc[p] = "table" /\ ~table => attempt[p] <= foreign
  /\ pc[p] \in SeenTable /\ ~view[p].table => attempt[p] <= foreign
  /\ pc[p] = "batch" /\ gen[p] # genid /\ ~table => attempt[p] + 1 <= foreign
  /\ pc[p] = "raced" => foreign >= 2

Unflushed == ~flushed => ChainsExact /\ \A p \in Starts : Undisturbed(p)

(* While no other program has changed anything: the first batch completes  *)
(* the rules, and an attempt that is repeated finds them complete.         *)
AmongStarts(p) ==
  /\ pc[p] = "batch" => gen[p] <= genid
  /\ pc[p] \in SeenTable /\ genid = 0 =>
       /\ view[p].table <=> table
       /\ table => \A c \in Chains :
                     pc[p] \in SeenChain(c) => c \in view[p].chains
  /\ pc[p] \in Working /\ attempt[p] > 0 => genid > 0
  /\ pc[p] \in SeenTable /\ attempt[p] > 0 => view[p].table /\ SawAll(p)
  /\ pc[p] # "raced" /\ quiet[p]

Untouched ==
  foreign = 0 => (genid > 0 => Complete) /\ \A p \in Starts : AmongStarts(p)

Inv == /\ TypeOK
       /\ Shapes
       /\ \A p \in Starts : ViewSane(p) /\ ViewHolds(p) /\ Outcome(p)
       /\ Unflushed
       /\ Untouched

-----------------------------------------------------------------------------
(* Rules, dumps and what a batch appends. *)

LEMMA RuleFields ==
  /\ \A tag \in Tags, b \in BOOLEAN, s \in Configured :
       Rule(tag, b, s) \in RuleSet /\ Rule(tag, b, s).tag = tag
  /\ \A tag, s : Rule(tag, TRUE, s).stamped /\ ~Rule(tag, FALSE, s).stamped
  /\ \A r \in RuleSet : r.tag \in Tags
<1>1. \A tag, b, s : Rule(tag, b, s).tag = tag
  BY DEF Rule
<1>2. \A tag, s : Rule(tag, TRUE, s).stamped /\ ~Rule(tag, FALSE, s).stamped
  BY DEF Rule
<1>3. \A tag \in Tags, b \in BOOLEAN, s \in Configured :
        Rule(tag, b, s) \in RuleSet /\ Rule(tag, b, s).tag = tag
  BY <1>1 DEF RuleSet
<1>4. \A r \in RuleSet : r.tag \in Tags
  BY <1>1 DEF RuleSet
<1>5. QED
  BY <1>2, <1>3, <1>4

LEMMA TagsOfChains ==
  /\ TagsOf("forward") = <<"ingress", "reply">>
  /\ TagsOf("postrouting") = <<"masquerade">>
  /\ \A c \in Chains :
       /\ TagsOf(c) \in Seq(Tags) /\ Len(TagsOf(c)) \in {1, 2}
       /\ DOMAIN TagsOf(c) = 1 .. Len(TagsOf(c))
       /\ ToSet(TagsOf(c)) # {} /\ ToSet(TagsOf(c)) \subseteq Tags
       /\ \A i, j \in DOMAIN TagsOf(c) : TagsOf(c)[i] = TagsOf(c)[j] => i = j
       /\ \A t \in ToSet(TagsOf(c)) : \E i \in DOMAIN TagsOf(c) : TagsOf(c)[i] = t
<1>1. /\ TagsOf("forward") = <<"ingress", "reply">>
      /\ TagsOf("postrouting") = <<"masquerade">>
  BY DEF TagsOf
<1> DEFINE P(c) ==
       /\ TagsOf(c) \in Seq(Tags) /\ Len(TagsOf(c)) \in {1, 2}
       /\ DOMAIN TagsOf(c) = 1 .. Len(TagsOf(c))
       /\ ToSet(TagsOf(c)) # {} /\ ToSet(TagsOf(c)) \subseteq Tags
       /\ \A i, j \in DOMAIN TagsOf(c) : TagsOf(c)[i] = TagsOf(c)[j] => i = j
       /\ \A t \in ToSet(TagsOf(c)) : \E i \in DOMAIN TagsOf(c) : TagsOf(c)[i] = t
<1>2. P("forward")
  <2> DEFINE f == <<"ingress", "reply">>
  <2>1. /\ f \in Seq(Tags) /\ Len(f) = 2 /\ DOMAIN f = 1 .. 2
        /\ f[1] = "ingress" /\ f[2] = "reply"
    BY DEF Tags
  <2> HIDE DEF f
  <2>2. ToSet(f) = {"ingress", "reply"}
    BY <2>1 DEF ToSet
  <2>3. \A i \in DOMAIN f : i = 1 \/ i = 2
    BY <2>1
  <2>4. TagsOf("forward") = f
    BY <1>1 DEF f
  <2>5. QED
    BY <2>1, <2>2, <2>3, <2>4 DEF Tags
<1>3. P("postrouting")
  <2> DEFINE f == <<"masquerade">>
  <2>1. /\ f \in Seq(Tags) /\ Len(f) = 1 /\ DOMAIN f = 1 .. 1
        /\ f[1] = "masquerade"
    BY DEF Tags
  <2> HIDE DEF f
  <2>2. QED
    BY <1>1, <2>1 DEF ToSet, f
<1>4. QED
  BY <1>1, <1>2, <1>3 DEF Chains

LEMMA DumpSane ==
  ASSUME NEW c \in Chains, NEW rs \in Seq(RuleSet), Shape(rs, c)
  PROVE  /\ RuleState(rs) \in [count : Nat, managed : SUBSET Tags]
         /\ RuleState(rs).count = Len(rs)
         /\ Sane(RuleState(rs), c)
<1> DEFINE M == {r.tag : r \in {q \in ToSet(rs) : q.stamped}}
<1>1. RuleState(rs) = [count |-> Len(rs), managed |-> M]
  BY DEF RuleState
<1>2. \A t : t \in M <=> \E i \in DOMAIN rs : rs[i].stamped /\ rs[i].tag = t
  BY DEF ToSet
<1> HIDE DEF M
<1>3. Len(rs) \in Nat /\ DOMAIN rs = 1 .. Len(rs) /\ \A i \in DOMAIN rs : rs[i] \in RuleSet
  OBVIOUS
<1>4. M \subseteq Tags
  BY <1>2, <1>3, RuleFields
<1>5. CASE Len(rs) = 0
  <2>1. M = {}
    BY <1>2, <1>3, <1>5
  <2>2. QED
    BY <1>1, <1>4, <1>5, <2>1 DEF Sane, DefaultRuleState
<1>6. CASE Len(rs) # 0
  <2>1. Len(rs) >= Len(TagsOf(c))
    BY <1>6 DEF Shape
  <2>2. M = {} \/ M = ToSet(TagsOf(c))
    <3>1. CASE \A i \in DOMAIN rs : ~rs[i].stamped
      BY <1>2, <3>1
    <3>2. CASE /\ \A i \in DOMAIN rs : rs[i].stamped => rs[i].tag \in ToSet(TagsOf(c))
               /\ \A t \in ToSet(TagsOf(c)) :
                    \E i \in DOMAIN rs : rs[i].stamped /\ rs[i].tag = t
      <4>1. \A t : t \in M <=> t \in ToSet(TagsOf(c))
        BY <1>2, <3>2
      <4>2. QED
        BY <4>1
    <3>3. QED
      BY <1>6, <3>1, <3>2 DEF Shape
  <2>3. QED
    BY <1>1, <1>3, <1>4, <2>1, <2>2 DEF Sane
<1>7. QED
  BY <1>5, <1>6

LEMMA MissingAllOrNone ==
  ASSUME NEW v \in Views, NEW c \in Chains, Sane(v.state[c], c)
  PROVE  Missing(v, c) = IF v.state[c].count = 0 THEN TagsOf(c) ELSE <<>>
<1> DEFINE st == v.state[c]
<1>1. st.count \in Nat /\ st.managed \in SUBSET Tags
  BY DEF Views
<1>2. \/ st.count = 0 /\ st.managed = {}
      \/ st.count >= Len(TagsOf(c)) /\ st.managed \in {{}, ToSet(TagsOf(c))}
  BY DEF Sane, DefaultRuleState
<1> HIDE DEF st
<1>3. CASE c = "forward"
  <2>1. Len(TagsOf(c)) = 2 /\ ToSet(TagsOf(c)) = {"ingress", "reply"}
    BY <1>3 DEF TagsOf, ToSet
  <2>2. /\ should_add_rule(st, "ingress") <=> st.count = 0
        /\ should_add_rule(st, "reply") <=> st.count = 0
    BY <1>1, <1>2, <2>1 DEF should_add_rule
  <2>3. <<"ingress">> \o <<"reply">> = <<"ingress", "reply">> /\ <<>> \o <<>> = <<>>
    <3> DEFINE w == <<"ingress">> \o <<"reply">>
               f == <<"ingress", "reply">>
    <3>1. w \in Seq(Tags) /\ Len(w) = 2 /\ w[1] = "ingress" /\ w[2] = "reply"
      BY DEF Tags
    <3>2. f \in Seq(Tags) /\ Len(f) = 2 /\ f[1] = "ingress" /\ f[2] = "reply"
      BY DEF Tags
    <3> HIDE DEF w, f
    <3>3. \A i \in 1 .. 2 : w[i] = f[i]
      BY <3>1, <3>2
    <3>4. w = f
      BY <3>1, <3>2, <3>3, SeqEqual
    <3>5. <<>> \o <<>> = <<>>
      OBVIOUS
    <3>6. QED
      BY <3>4, <3>5 DEF w, f
  <2>4. CASE st.count = 0
    <3>1. Missing(v, c) = <<"ingress">> \o <<"reply">>
      BY <1>3, <2>2, <2>4 DEF Missing, st
    <3>2. QED
      BY <1>3, <2>3, <2>4, <3>1 DEF TagsOf, st
  <2>5. CASE st.count # 0
    <3>1. Missing(v, c) = <<>> \o <<>>
      BY <1>3, <2>2, <2>5 DEF Missing, st
    <3>2. QED
      BY <2>3, <2>5, <3>1 DEF st
  <2>6. QED
    BY <2>4, <2>5
<1>4. CASE c # "forward"
  <2>1. Len(TagsOf(c)) = 1 /\ ToSet(TagsOf(c)) = {"masquerade"}
    BY <1>4 DEF TagsOf, ToSet
  <2>2. should_add_rule(st, "masquerade") <=> st.count = 0
    BY <1>1, <1>2, <2>1 DEF should_add_rule
  <2>3. QED
    BY <1>4, <2>2 DEF Missing, TagsOf, st
<1>5. QED
  BY <1>3, <1>4

LEMMA NothingMeansSeen ==
  ASSUME NEW v \in Views, \A c \in Chains : Sane(v.state[c], c)
  PROVE  NothingToDo(v) <=>
           v.table /\ v.chains = Chains /\ \A c \in Chains : v.state[c].count > 0
<1>1. \A c \in Chains : v.state[c].count \in Nat
  BY DEF Views
<1>2. \A c \in Chains : Missing(v, c) = <<>> <=> v.state[c].count > 0
  BY <1>1, MissingAllOrNone, TagsOfChains
<1>3. QED
  BY <1>2 DEF NothingToDo

(* The rules a start appends to a chain. *)
NewRules(c, s) == [i \in DOMAIN TagsOf(c) |-> Rule(TagsOf(c)[i], TRUE, s)]

LEMMA NewRulesShape ==
  ASSUME NEW c \in Chains, NEW s \in Configured, NEW rs \in Seq(RuleSet), Shape(rs, c)
  PROVE  /\ rs \o NewRules(c, s) \in Seq(RuleSet)
         /\ Len(rs \o NewRules(c, s)) = Len(rs) + Len(TagsOf(c))
         /\ Shape(rs \o NewRules(c, s), c)
<1> DEFINE L == Len(TagsOf(c))
           b == NewRules(c, s)
           new == rs \o b
<1>1. L \in {1, 2} /\ DOMAIN TagsOf(c) = 1 .. L /\ TagsOf(c) \in Seq(Tags)
  BY TagsOfChains
<1>2. /\ DOMAIN b = 1 .. L
      /\ \A i \in 1 .. L : b[i] = Rule(TagsOf(c)[i], TRUE, s) /\ TagsOf(c)[i] \in Tags
  BY <1>1 DEF NewRules
<1>3. \A i \in 1 .. L : /\ b[i] \in RuleSet /\ b[i].tag = TagsOf(c)[i]
                        /\ b[i].stamped
  <2>1. SUFFICES ASSUME NEW i \in 1 .. L
                 PROVE  /\ b[i] \in RuleSet /\ b[i].tag = TagsOf(c)[i]
                        /\ b[i].stamped
    OBVIOUS
  <2>2. b[i] = Rule(TagsOf(c)[i], TRUE, s) /\ TagsOf(c)[i] \in Tags
    BY <1>2
  <2> HIDE DEF b
  <2>3. b[i] \in RuleSet
    BY <2>2, RuleFields
  <2>4. QED
    BY <2>2, <2>3 DEF Rule
<1>4. b \in Seq(RuleSet) /\ Len(b) = L
  <2>1. b \in [1 .. L -> RuleSet]
    BY <1>2, <1>3 DEF NewRules
  <2>2. QED
    BY <1>1, <2>1
<1> HIDE DEF b
<1>5. /\ new \in Seq(RuleSet) /\ Len(new) = Len(rs) + L /\ Len(rs) \in Nat
      /\ \A i \in 1 .. Len(rs) : new[i] = rs[i]
      /\ \A i \in 1 .. L : new[Len(rs) + i] = b[i]
      /\ DOMAIN rs = 1 .. Len(rs) /\ DOMAIN new = 1 .. Len(rs) + L
  BY <1>1, <1>4
<1>6. \A i \in DOMAIN new : \/ i \in 1 .. Len(rs)
                            \/ \E j \in 1 .. L : i = Len(rs) + j
  <2>1. SUFFICES ASSUME NEW i \in 1 .. Len(rs) + L, i \notin 1 .. Len(rs)
                 PROVE  \E j \in 1 .. L : i = Len(rs) + j
    BY <1>5
  <2>2. i - Len(rs) \in 1 .. L /\ i = Len(rs) + (i - Len(rs))
    BY <1>1, <1>5, <2>1
  <2>3. QED
    BY <2>2
<1> HIDE DEF new
<1>7. \A i \in DOMAIN TagsOf(c) : new[i].tag = TagsOf(c)[i]
  <2>1. CASE Len(rs) = 0
    BY <1>1, <1>3, <1>5, <2>1
  <2>2. CASE Len(rs) # 0
    BY <1>1, <1>5, <2>2 DEF Shape
  <2>3. QED
    BY <2>1, <2>2
<1>8. \A i \in DOMAIN new : new[i].stamped => new[i].tag \in ToSet(TagsOf(c))
  <2>1. \A i \in 1 .. Len(rs) : rs[i].stamped => rs[i].tag \in ToSet(TagsOf(c))
    BY <1>5 DEF Shape
  <2>2. \A j \in 1 .. L : b[j].tag \in ToSet(TagsOf(c))
    BY <1>1, <1>3 DEF ToSet
  <2>3. QED
    BY <1>5, <1>6, <2>1, <2>2
<1>9. \A t \in ToSet(TagsOf(c)) :
        \E i \in DOMAIN new : new[i].stamped /\ new[i].tag = t
  <2>1. SUFFICES ASSUME NEW j \in 1 .. L
                 PROVE  \E i \in DOMAIN new : /\ new[i].stamped
                                              /\ new[i].tag = TagsOf(c)[j]
    BY <1>1 DEF ToSet
  <2>2. Len(rs) + j \in DOMAIN new
    BY <1>1, <1>5
  <2>3. QED
    BY <1>3, <1>5, <2>2
<1>10. QED
  <2>1. Shape(new, c)
    BY <1>1, <1>5, <1>7, <1>8, <1>9 DEF Shape
  <2>2. QED
    BY <1>5, <2>1 DEF new, b

(* What a dump does to a view. *)
LEMMA EmptyViewFields ==
  /\ EmptyView \in Views /\ ~EmptyView.table /\ EmptyView.chains = {}
  /\ \A c \in Chains : /\ EmptyView.state[c] = DefaultRuleState
                       /\ Sane(DefaultRuleState, c)
  /\ DefaultRuleState \in [count : Nat, managed : SUBSET Tags]
  /\ DefaultRuleState.count = 0
BY DEF EmptyView, DefaultRuleState, Views, Sane

LEMMA TableField ==
  ASSUME NEW v \in Views, NEW b \in BOOLEAN
  PROVE  /\ [v EXCEPT !.table = b] \in Views
         /\ [v EXCEPT !.table = b].table <=> b
         /\ [v EXCEPT !.table = b].chains = v.chains
         /\ [v EXCEPT !.table = b].state = v.state
BY DEF Views

LEMMA ChainsField ==
  ASSUME NEW v \in Views, NEW C \in SUBSET Chains
  PROVE  /\ [v EXCEPT !.chains = C] \in Views
         /\ [v EXCEPT !.chains = C].table <=> v.table
         /\ [v EXCEPT !.chains = C].chains = C
         /\ [v EXCEPT !.chains = C].state = v.state
BY DEF Views

LEMMA StateField ==
  ASSUME NEW v \in Views, NEW c \in Chains,
         NEW st \in [count : Nat, managed : SUBSET Tags]
  PROVE  /\ [v EXCEPT !.state[c] = st] \in Views
         /\ [v EXCEPT !.state[c] = st].table <=> v.table
         /\ [v EXCEPT !.state[c] = st].chains = v.chains
         /\ [v EXCEPT !.state[c] = st].state[c] = st
         /\ \A d \in Chains \ {c} : [v EXCEPT !.state[c] = st].state[d] = v.state[d]
BY DEF Views

(* Who has seen everything sends no batch. *)
LEMMA SawAllNothing ==
  ASSUME Inv, NEW p \in Starts, pc[p] \in {"decide", "batch"},
         view[p].table, SawAll(p)
  PROVE  NothingToDo(view[p]) /\ pc[p] # "batch"
<1>1. view[p] \in Views /\ \A c \in Chains : Sane(view[p].state[c], c)
  BY DEF Inv, TypeOK, ViewSane
<1>2. /\ \A c \in Chains : c \in view[p].chains /\ view[p].state[c].count > 0
      /\ view[p].chains \subseteq Chains
  BY <1>1 DEF SawAll, SeenChain, SeenRules, SeenTable, Working, Views
<1>3. /\ view[p].table /\ view[p].chains = Chains
      /\ \A c \in Chains : view[p].state[c].count > 0
  BY <1>2
<1>4. NothingToDo(view[p]) <=> /\ view[p].table /\ view[p].chains = Chains
                              /\ \A c \in Chains : view[p].state[c].count > 0
  BY <1>1, NothingMeansSeen
<1>5. QED
  BY <1>3, <1>4 DEF Inv, ViewSane

(* What the outcomes of a batch say. *)
LEMMA BatchOutcomes ==
  ASSUME Inv, NEW p \in Starts, pc[p] = "batch"
  PROVE  /\ BatchErrors(p) = {} =>
              /\ gen[p] = genid
              /\ IF table THEN view[p].table /\ view[p].chains = Chains
                 ELSE ~view[p].table
         /\ (\E e \in BatchErrors(p) : is_retryable_nft_error(e)) =>
              gen[p] # genid \/ (table /\ (~view[p].table \/ view[p].chains # Chains))
         /\ (\E e \in BatchErrors(p) : ~is_retryable_nft_error(e)) =>
              \/ ~table /\ view[p].table
              \/ view[p].chains \ DOMAIN rules # {}
<1>1. view[p].chains \subseteq Chains /\ DOMAIN rules = (IF table THEN Chains ELSE {})
  BY DEF Inv, TypeOK, Views
<1>2. CASE gen[p] # genid
  <2>1. BatchErrors(p) = {"ERESTART"}
    BY <1>2 DEF BatchErrors
  <2>2. QED
    BY <1>2, <2>1 DEF is_retryable_nft_error
<1>3. CASE gen[p] = genid /\ table /\ (~view[p].table \/ DOMAIN rules \ view[p].chains # {})
  <2>1. BatchErrors(p) = {"EEXIST"}
    BY <1>3 DEF BatchErrors
  <2>2. QED
    BY <1>1, <1>3, <2>1 DEF is_retryable_nft_error
<1>4. CASE gen[p] = genid /\ ~table /\ view[p].table
  <2>1. BatchErrors(p) = {"ENOENT"}
    BY <1>4 DEF BatchErrors
  <2>2. QED
    BY <1>4, <2>1 DEF is_retryable_nft_error
<1>5. CASE /\ gen[p] = genid
           /\ ~(table /\ (~view[p].table \/ DOMAIN rules \ view[p].chains # {}))
           /\ ~(~table /\ view[p].table)
  <2>1. \/ BatchErrors(p) = {}
        \/ BatchErrors(p) = {"ENOENT"} /\ view[p].chains \ DOMAIN rules # {}
    BY <1>5 DEF BatchErrors
  <2>2. QED
    BY <1>1, <1>5, <2>1 DEF is_retryable_nft_error
<1>6. QED
  BY <1>2, <1>3, <1>4, <1>5

-----------------------------------------------------------------------------
(* Every step keeps the invariant. *)

LEMMA StartStep ==
  ASSUME Inv, NEW p \in Starts, Start(p)
  PROVE  Inv'
<1> USE DEF Inv
<1>1. /\ table' = table /\ rules' = rules /\ genid' = genid
      /\ foreign' = foreign /\ flushed' = flushed
      /\ \A q \in Starts \ {p} : /\ pc'[q] = pc[q] /\ view'[q] = view[q]
                                /\ gen'[q] = gen[q] /\ attempt'[q] = attempt[q]
                                /\ quiet'[q] = quiet[q]
      /\ pc[p] \notin Working /\ pc'[p] \in {"table", "rejected"}
      /\ attempt'[p] = 0 /\ view'[p] = EmptyView /\ gen'[p] = 0 /\ quiet'[p]
  BY DEF Start, At, kernel, ghosts, TypeOK
<1>2. TypeOK'
  <2>1. PICK s \in Configured :
          /\ pc' = [pc EXCEPT ![p] =
                      IF network_settings_ok(s) THEN "table" ELSE "rejected"]
          /\ settings' = [settings EXCEPT ![p] = s]
    BY DEF Start
  <2>2. pc' \in [Starts -> Locations] /\ settings' \in [Starts -> Configured]
    BY <2>1 DEF TypeOK, Locations, Working
  <2>3. view' \in [Starts -> Views]
    BY EmptyViewFields DEF Start, TypeOK
  <2>4. QED
    BY <1>1, <2>2, <2>3 DEF Start, TypeOK
<1>3. Shapes'
  BY <1>1 DEF Shapes
<1>4. \A q \in Starts : ViewSane(q)'
  <2>1. ASSUME NEW q \in Starts \ {p} PROVE ViewSane(q)'
    BY <1>1 DEF ViewSane, SeenTable, SeenChain, SeenRules, Working
  <2>2. ViewSane(p)'
    BY <1>1, EmptyViewFields DEF ViewSane, SeenTable, SeenChain, SeenRules,
       Working
  <2>3. QED
    BY <2>1, <2>2
<1>5. \A q \in Starts : ViewHolds(q)'
  <2>1. ASSUME NEW q \in Starts \ {p} PROVE ViewHolds(q)'
    BY <1>1 DEF ViewHolds, SeenTable, SeenChain, SeenRules, Working
  <2>2. ViewHolds(p)'
    BY <1>1 DEF ViewHolds, SeenTable, SeenChain, SeenRules, Working
  <2>3. QED
    BY <2>1, <2>2
<1>6. \A q \in Starts : Outcome(q)'
  <2>1. ASSUME NEW q \in Starts \ {p} PROVE Outcome(q)'
    BY <1>1 DEF Outcome, Complete, SeenTable, SeenChain, SeenRules, Working
  <2>2. Outcome(p)'
    BY <1>1 DEF Outcome, Complete, SeenTable, SeenChain, SeenRules, Working
  <2>3. QED
    BY <2>1, <2>2
<1>7. ASSUME ~flushed' PROVE ChainsExact'
  BY <1>1, <1>7 DEF ChainsExact, Unflushed
<1>8. ASSUME ~flushed' PROVE \A q \in Starts : Undisturbed(q)'
  <2>1. ASSUME NEW q \in Starts \ {p} PROVE Undisturbed(q)'
    BY <1>1, <1>8 DEF Unflushed, Undisturbed, SawAll, SeenTable, SeenChain,
       SeenRules, Working
  <2>2. Undisturbed(p)'
    BY <1>1, <1>8 DEF Unflushed, Undisturbed, SawAll, TypeOK, SeenTable,
       SeenChain, SeenRules, Working
  <2>3. QED
    BY <2>1, <2>2
<1>9. ASSUME foreign' = 0, genid' > 0 PROVE Complete'
  BY <1>1, <1>9 DEF Untouched, Complete
<1>10. ASSUME foreign' = 0 PROVE \A q \in Starts : AmongStarts(q)'
  <2>1. ASSUME NEW q \in Starts \ {p} PROVE AmongStarts(q)'
    BY <1>1, <1>10 DEF Untouched, AmongStarts, SawAll, SeenTable, SeenChain,
       SeenRules, Working
  <2>2. AmongStarts(p)'
    BY <1>1, <1>10 DEF Untouched, AmongStarts, SawAll, SeenTable, SeenChain,
       SeenRules, Working
  <2>3. QED
    BY <2>1, <2>2
<1>11. QED
  BY <1>2, <1>3, <1>4, <1>5, <1>6, <1>7, <1>8, <1>9, <1>10
     DEF Unflushed, Untouched

LEMMA nft_table_existsStep ==
  ASSUME Inv, NEW p \in Starts, nft_table_exists(p)
  PROVE  Inv'
<1> USE DEF Inv
<1>1. /\ table' = table /\ rules' = rules /\ genid' = genid
      /\ foreign' = foreign /\ flushed' = flushed
      /\ \A q \in Starts \ {p} : /\ pc'[q] = pc[q] /\ view'[q] = view[q]
                                /\ gen'[q] = gen[q] /\ attempt'[q] = attempt[q]
                                /\ quiet'[q] = quiet[q]
      /\ pc[p] = "table" /\ pc'[p] = (IF table THEN "forward" ELSE "decide")
      /\ view'[p] \in Views
      /\ (view'[p].table <=> table) /\ view'[p].chains = {}
      /\ \A c \in Chains : view'[p].state[c] = DefaultRuleState
      /\ gen' = gen /\ attempt' = attempt /\ quiet' = quiet
  <2> DEFINE w == [EmptyView EXCEPT !.table = table]
  <2>1. /\ w \in Views /\ (w.table <=> table) /\ w.chains = {}
        /\ \A c \in Chains : w.state[c] = DefaultRuleState
    BY EmptyViewFields, TableField DEF TypeOK
  <2>2. view' = [view EXCEPT ![p] = w]
    BY DEF nft_table_exists
  <2> HIDE DEF w
  <2>3. view'[p] = w /\ \A q \in Starts \ {p} : view'[q] = view[q]
    BY <2>2 DEF TypeOK
  <2>4. QED
    BY <2>1, <2>3 DEF nft_table_exists, At, kernel, ghosts, TypeOK
<1>2. TypeOK'
  BY <1>1 DEF nft_table_exists, At, kernel, ghosts, TypeOK, Locations, Working
<1>3. Shapes'
  BY <1>1 DEF Shapes
<1>4. \A q \in Starts : ViewSane(q)'
  <2>1. ASSUME NEW q \in Starts \ {p} PROVE ViewSane(q)'
    BY <1>1 DEF ViewSane, SeenTable, SeenChain, SeenRules, Working
  <2>2. ViewSane(p)'
    BY <1>1, EmptyViewFields DEF ViewSane, SeenTable, SeenChain, SeenRules,
       Working
  <2>3. QED
    BY <2>1, <2>2
<1>5. \A q \in Starts : ViewHolds(q)'
  <2>1. ASSUME NEW q \in Starts \ {p} PROVE ViewHolds(q)'
    BY <1>1 DEF ViewHolds, SeenTable, SeenChain, SeenRules, Working
  <2>2. ViewHolds(p)'
    BY <1>1, EmptyViewFields DEF ViewHolds, SeenTable, SeenChain, SeenRules,
       Working
  <2>3. QED
    BY <2>1, <2>2
<1>6. \A q \in Starts : Outcome(q)'
  <2>1. ASSUME NEW q \in Starts \ {p} PROVE Outcome(q)'
    BY <1>1 DEF Outcome, Complete, SeenTable, SeenChain, SeenRules, Working
  <2>2. Outcome(p)'
    BY <1>1 DEF Outcome, Complete, SeenTable, SeenChain, SeenRules, Working
  <2>3. QED
    BY <2>1, <2>2
<1>7. ASSUME ~flushed' PROVE ChainsExact'
  BY <1>1, <1>7 DEF ChainsExact, Unflushed
<1>8. ASSUME ~flushed' PROVE \A q \in Starts : Undisturbed(q)'
  <2>1. ASSUME NEW q \in Starts \ {p} PROVE Undisturbed(q)'
    BY <1>1, <1>8 DEF Unflushed, Undisturbed, SawAll, SeenTable, SeenChain,
       SeenRules, Working
  <2>2. Undisturbed(p)'
    BY <1>1, <1>8 DEF Unflushed, Undisturbed, SawAll, SeenTable, SeenChain,
       SeenRules, Working
  <2>3. QED
    BY <2>1, <2>2
<1>9. ASSUME foreign' = 0, genid' > 0 PROVE Complete'
  BY <1>1, <1>9 DEF Untouched, Complete
<1>10. ASSUME foreign' = 0 PROVE \A q \in Starts : AmongStarts(q)'
  <2>1. ASSUME NEW q \in Starts \ {p} PROVE AmongStarts(q)'
    BY <1>1, <1>10 DEF Untouched, AmongStarts, SawAll, SeenTable, SeenChain,
       SeenRules, Working
  <2>2. AmongStarts(p)'
    BY <1>1, <1>10 DEF Untouched, AmongStarts, SawAll, Complete, SeenTable,
       SeenChain, SeenRules, Working
  <2>3. QED
    BY <2>1, <2>2
<1>11. QED
  BY <1>2, <1>3, <1>4, <1>5, <1>6, <1>7, <1>8, <1>9, <1>10
     DEF Unflushed, Untouched

LEMMA nft_chain_existsStep ==
  ASSUME Inv, NEW p \in Starts, NEW c \in Chains,
         NEW next \in IF c = "forward" THEN {"postrouting"} ELSE {"forwardRules"},
         nft_chain_exists(p, c, next)
  PROVE  Inv'
<1> USE DEF Inv
<1>1. /\ table' = table /\ rules' = rules /\ genid' = genid
      /\ foreign' = foreign /\ flushed' = flushed
      /\ \A q \in Starts \ {p} : /\ pc'[q] = pc[q] /\ view'[q] = view[q]
                                /\ gen'[q] = gen[q] /\ attempt'[q] = attempt[q]
                                /\ quiet'[q] = quiet[q]
      /\ \/ c = "forward" /\ pc[p] = "forward" /\ pc'[p] = "postrouting"
         \/ c = "postrouting" /\ pc[p] = "postrouting" /\ pc'[p] = "forwardRules"
      /\ view'[p] \in Views /\ (view'[p].table <=> view[p].table)
      /\ view'[p].chains = view[p].chains \cup ({c} \cap DOMAIN rules)
      /\ view'[p].state = view[p].state
      /\ gen' = gen /\ attempt' = attempt /\ quiet' = quiet
  <2> DEFINE v == view[p]
             C == v.chains \cup ({c} \cap DOMAIN rules)
             w == [v EXCEPT !.chains = C]
  <2>1. v \in Views /\ C \in SUBSET Chains
    BY DEF TypeOK, Views
  <2>2. view' = [view EXCEPT ![p] = w]
    BY DEF nft_chain_exists
  <2>3. /\ w \in Views /\ (w.table <=> v.table)
        /\ w.chains = C /\ w.state = v.state
    <3> HIDE DEF v, C
    <3>1. QED
      BY <2>1, ChainsField
  <2> HIDE DEF w
  <2>4. view'[p] = w /\ \A q \in Starts \ {p} : view'[q] = view[q]
    BY <2>2 DEF TypeOK
  <2>5. /\ pc[p] = c /\ pc'[p] = next
        /\ \A q \in Starts \ {p} : pc'[q] = pc[q]
    BY DEF nft_chain_exists, At, TypeOK
  <2>6. \/ c = "forward" /\ next = "postrouting"
        \/ c = "postrouting" /\ next = "forwardRules"
    BY DEF Chains
  <2>7. QED
    BY <2>3, <2>4, <2>5, <2>6 DEF nft_chain_exists, kernel, ghosts
<1>2. TypeOK'
  BY <1>1 DEF nft_chain_exists, At, kernel, ghosts, TypeOK, Locations, Working
<1>3. Shapes'
  BY <1>1 DEF Shapes
<1>4. \A q \in Starts : ViewSane(q)'
  <2>1. ASSUME NEW q \in Starts \ {p} PROVE ViewSane(q)'
    BY <1>1 DEF ViewSane, SeenTable, SeenChain, SeenRules, Working
  <2>2. ViewSane(p)'
    BY <1>1 DEF ViewSane, Chains, TypeOK, SeenTable, SeenChain, SeenRules,
       Working
  <2>3. QED
    BY <2>1, <2>2
<1>5. \A q \in Starts : ViewHolds(q)'
  <2>1. ASSUME NEW q \in Starts \ {p} PROVE ViewHolds(q)'
    BY <1>1 DEF ViewHolds, SeenTable, SeenChain, SeenRules, Working
  <2>2. ViewHolds(p)'
    BY <1>1 DEF ViewHolds, Chains, TypeOK, ViewSane, SeenTable, SeenChain,
       SeenRules, Working
  <2>3. QED
    BY <2>1, <2>2
<1>6. \A q \in Starts : Outcome(q)'
  <2>1. ASSUME NEW q \in Starts \ {p} PROVE Outcome(q)'
    BY <1>1 DEF Outcome, Complete, SeenTable, SeenChain, SeenRules, Working
  <2>2. Outcome(p)'
    BY <1>1 DEF Outcome, Complete, SeenTable, SeenChain, SeenRules, Working
  <2>3. QED
    BY <2>1, <2>2
<1>7. ASSUME ~flushed' PROVE ChainsExact'
  BY <1>1, <1>7 DEF ChainsExact, Unflushed
<1>8. ASSUME ~flushed' PROVE \A q \in Starts : Undisturbed(q)'
  <2>1. ASSUME NEW q \in Starts \ {p} PROVE Undisturbed(q)'
    BY <1>1, <1>8 DEF Unflushed, Undisturbed, SawAll, SeenTable, SeenChain,
       SeenRules, Working
  <2>2. Undisturbed(p)'
    BY <1>1, <1>8 DEF Unflushed, Undisturbed, SawAll, Chains, TypeOK,
       ViewHolds, ViewSane, ChainsExact, SeenTable, SeenChain, SeenRules,
       Working
  <2>3. QED
    BY <2>1, <2>2
<1>9. ASSUME foreign' = 0, genid' > 0 PROVE Complete'
  BY <1>1, <1>9 DEF Untouched, Complete
<1>10. ASSUME foreign' = 0 PROVE \A q \in Starts : AmongStarts(q)'
  <2>1. ASSUME NEW q \in Starts \ {p} PROVE AmongStarts(q)'
    BY <1>1, <1>10 DEF Untouched, AmongStarts, SawAll, SeenTable, SeenChain,
       SeenRules, Working
  <2>2. AmongStarts(p)'
    BY <1>1, <1>10 DEF Untouched, AmongStarts, SawAll, Chains, TypeOK,
       Complete, SeenTable, SeenChain, SeenRules, Working
  <2>3. QED
    BY <2>1, <2>2
<1>11. QED
  BY <1>2, <1>3, <1>4, <1>5, <1>6, <1>7, <1>8, <1>9, <1>10
     DEF Unflushed, Untouched

LEMMA nft_rule_stateStep ==
  ASSUME Inv, NEW p \in Starts, NEW c \in Chains,
         NEW here \in IF c = "forward" THEN {"forwardRules"} ELSE {"postroutingRules"},
         NEW next \in IF c = "forward" THEN {"postroutingRules"} ELSE {"decide"},
         nft_rule_state(p, c, here, next)
  PROVE  Inv'
<1> USE DEF Inv
<1>1. /\ table' = table /\ rules' = rules /\ genid' = genid
      /\ foreign' = foreign /\ flushed' = flushed
      /\ \A q \in Starts \ {p} : /\ pc'[q] = pc[q] /\ view'[q] = view[q]
                                /\ gen'[q] = gen[q] /\ attempt'[q] = attempt[q]
                                /\ quiet'[q] = quiet[q]
      /\ \/ /\ c = "forward" /\ pc[p] = "forwardRules"
            /\ pc'[p] = "postroutingRules"
         \/ /\ c = "postrouting" /\ pc[p] = "postroutingRules"
            /\ pc'[p] = "decide"
      /\ view'[p] \in Views /\ (view'[p].table <=> view[p].table)
      /\ view'[p].chains = view[p].chains
      /\ view'[p].state[c] = (IF c \in view[p].chains \cap DOMAIN rules
                             THEN RuleState(rules[c]) ELSE DefaultRuleState)
      /\ \A d \in Chains \ {c} : view'[p].state[d] = view[p].state[d]
      /\ gen' = gen /\ attempt' = attempt /\ quiet' = quiet
  <2> DEFINE v == view[p]
             st == IF c \in v.chains \cap DOMAIN rules
                   THEN RuleState(rules[c]) ELSE DefaultRuleState
             w == [v EXCEPT !.state[c] = st]
  <2>1. v \in Views /\ st \in [count : Nat, managed : SUBSET Tags]
    BY EmptyViewFields, DumpSane DEF TypeOK, Shapes
  <2>2. view' = [view EXCEPT ![p] = w]
    BY DEF nft_rule_state
  <2>3. /\ w \in Views /\ (w.table <=> v.table) /\ w.chains = v.chains
        /\ w.state[c] = st
        /\ \A d \in Chains \ {c} : w.state[d] = v.state[d]
    <3> HIDE DEF v, st
    <3>1. QED
      BY <2>1, StateField
  <2> HIDE DEF w
  <2>4. view'[p] = w /\ \A q \in Starts \ {p} : view'[q] = view[q]
    BY <2>2 DEF TypeOK
  <2>5. /\ pc[p] = here /\ pc'[p] = next
        /\ \A q \in Starts \ {p} : pc'[q] = pc[q]
    BY DEF nft_rule_state, At, TypeOK
  <2>6. \/ c = "forward" /\ here = "forwardRules" /\ next = "postroutingRules"
        \/ c = "postrouting" /\ here = "postroutingRules" /\ next = "decide"
    BY DEF Chains
  <2>7. QED
    BY <2>3, <2>4, <2>5, <2>6 DEF nft_rule_state, kernel, ghosts
<1>2. /\ Sane(view'[p].state[c], c)
      /\ IF c \in view[p].chains \cap DOMAIN rules
         THEN view'[p].state[c].count = Len(rules[c])
         ELSE view'[p].state[c].count = 0
  BY <1>1, EmptyViewFields, DumpSane DEF TypeOK, Shapes
<1>3. \A d \in Chains : d = c \/ view'[p].state[d] = view[p].state[d]
  BY <1>1
<1>4. TypeOK'
  BY <1>1 DEF nft_rule_state, At, kernel, ghosts, TypeOK, Locations, Working
<1>5. Shapes'
  BY <1>1 DEF Shapes
<1>6. \A q \in Starts : ViewSane(q)'
  <2>1. ASSUME NEW q \in Starts \ {p} PROVE ViewSane(q)'
    BY <1>1 DEF ViewSane, SeenTable, SeenChain, SeenRules, Working
  <2>2. ViewSane(p)'
    BY <1>1, <1>2, <1>3 DEF ViewSane, Chains, TypeOK, SeenTable, SeenChain,
       SeenRules, Working
  <2>3. QED
    BY <2>1, <2>2
<1>7. \A q \in Starts : ViewHolds(q)'
  <2>1. ASSUME NEW q \in Starts \ {p} PROVE ViewHolds(q)'
    BY <1>1 DEF ViewHolds, SeenTable, SeenChain, SeenRules, Working
  <2>2. ViewHolds(p)'
    <3>1. SUFFICES ASSUME quiet[p]
                   PROVE  /\ view'[p].table => table
                          /\ view'[p].chains \subseteq DOMAIN rules
                          /\ \A d \in Chains : view'[p].state[d].count > 0 =>
                               d \in DOMAIN rules /\ Len(rules[d]) > 0
      BY <1>1 DEF ViewHolds
    <3>2. /\ view[p].table => table
          /\ view[p].chains \subseteq DOMAIN rules
          /\ \A d \in Chains : view[p].state[d].count > 0 =>
               d \in DOMAIN rules /\ Len(rules[d]) > 0
      BY <1>1, <3>1 DEF ViewHolds, SeenTable, Working
    <3>3. view'[p].state[c].count > 0 => c \in DOMAIN rules /\ Len(rules[c]) > 0
      BY <1>2
    <3>4. QED
      BY <1>1, <1>3, <3>2, <3>3
  <2>3. QED
    BY <2>1, <2>2
<1>8. \A q \in Starts : Outcome(q)'
  <2>1. ASSUME NEW q \in Starts \ {p} PROVE Outcome(q)'
    BY <1>1 DEF Outcome, Complete, SeenTable, SeenChain, SeenRules, Working
  <2>2. Outcome(p)'
    BY <1>1 DEF Outcome, Complete, SeenTable, SeenChain, SeenRules, Working
  <2>3. QED
    BY <2>1, <2>2
<1>9. ASSUME ~flushed' PROVE ChainsExact'
  BY <1>1, <1>9 DEF ChainsExact, Unflushed
<1>10. ASSUME ~flushed' PROVE \A q \in Starts : Undisturbed(q)'
  <2>1. ASSUME NEW q \in Starts \ {p} PROVE Undisturbed(q)'
    BY <1>1, <1>10 DEF Unflushed, Undisturbed, SawAll, SeenTable, SeenChain,
       SeenRules, Working
  <2>2. Undisturbed(p)'
    BY <1>1, <1>2, <1>3, TagsOfChains, <1>10 DEF Unflushed, Undisturbed,
       SawAll, Chains, TypeOK, ViewHolds, ViewSane, ChainsExact, SeenTable,
       SeenChain, SeenRules, Working
  <2>3. QED
    BY <2>1, <2>2
<1>11. ASSUME foreign' = 0, genid' > 0 PROVE Complete'
  BY <1>1, <1>11 DEF Untouched, Complete
<1>12. ASSUME foreign' = 0 PROVE \A q \in Starts : AmongStarts(q)'
  <2>1. ASSUME NEW q \in Starts \ {p} PROVE AmongStarts(q)'
    BY <1>1, <1>12 DEF Untouched, AmongStarts, SawAll, SeenTable, SeenChain,
       SeenRules, Working
  <2>2. AmongStarts(p)'
    BY <1>1, <1>2, <1>3, <1>12 DEF Untouched, AmongStarts, SawAll, Chains,
       TypeOK, Complete, SeenTable, SeenChain, SeenRules, Working
  <2>3. QED
    BY <2>1, <2>2
<1>13. QED
  BY <1>4, <1>5, <1>6, <1>7, <1>8, <1>9, <1>10, <1>11, <1>12
     DEF Unflushed, Untouched

LEMMA AlreadyInstalledStep ==
  ASSUME Inv, NEW p \in Starts, AlreadyInstalled(p)
  PROVE  Inv'
<1> USE DEF Inv
<1>1. /\ table' = table /\ rules' = rules /\ genid' = genid
      /\ foreign' = foreign /\ flushed' = flushed
      /\ \A q \in Starts \ {p} : /\ pc'[q] = pc[q] /\ view'[q] = view[q]
                                /\ gen'[q] = gen[q] /\ attempt'[q] = attempt[q]
                                /\ quiet'[q] = quiet[q]
      /\ pc[p] = "decide" /\ pc'[p] = "ok" /\ NothingToDo(view[p])
      /\ view' = view /\ gen' = gen /\ attempt' = attempt /\ quiet' = quiet
  BY DEF AlreadyInstalled, At, kernel, ghosts, TypeOK
<1>2. /\ view[p].table /\ view[p].chains = Chains
      /\ \A c \in Chains : view[p].state[c].count > 0
  <2>1. view[p] \in Views /\ \A c \in Chains : Sane(view[p].state[c], c)
    BY DEF TypeOK, ViewSane
  <2>2. QED
    BY <1>1, <2>1, NothingMeansSeen
<1>3. TypeOK'
  BY <1>1 DEF AlreadyInstalled, At, kernel, ghosts, TypeOK, Locations, Working
<1>4. Shapes'
  BY <1>1 DEF Shapes
<1>5. \A q \in Starts : ViewSane(q)'
  <2>1. ASSUME NEW q \in Starts \ {p} PROVE ViewSane(q)'
    BY <1>1 DEF ViewSane, SeenTable, SeenChain, SeenRules, Working
  <2>2. ViewSane(p)'
    BY <1>1 DEF ViewSane, SeenTable, SeenChain, SeenRules, Working
  <2>3. QED
    BY <2>1, <2>2
<1>6. \A q \in Starts : ViewHolds(q)'
  <2>1. ASSUME NEW q \in Starts \ {p} PROVE ViewHolds(q)'
    BY <1>1 DEF ViewHolds, SeenTable, SeenChain, SeenRules, Working
  <2>2. ViewHolds(p)'
    BY <1>1 DEF ViewHolds, SeenTable, SeenChain, SeenRules, Working
  <2>3. QED
    BY <2>1, <2>2
<1>7. \A q \in Starts : Outcome(q)'
  <2>1. ASSUME NEW q \in Starts \ {p} PROVE Outcome(q)'
    BY <1>1 DEF Outcome, Complete, SeenTable, SeenChain, SeenRules, Working
  <2>2. Outcome(p)'
    BY <1>1, <1>2 DEF Outcome, Complete, ViewHolds, SeenTable, SeenChain,
       SeenRules, Working
  <2>3. QED
    BY <2>1, <2>2
<1>8. ASSUME ~flushed' PROVE ChainsExact'
  BY <1>1, <1>8 DEF ChainsExact, Unflushed
<1>9. ASSUME ~flushed' PROVE \A q \in Starts : Undisturbed(q)'
  <2>1. ASSUME NEW q \in Starts \ {p} PROVE Undisturbed(q)'
    BY <1>1, <1>9 DEF Unflushed, Undisturbed, SawAll, SeenTable, SeenChain,
       SeenRules, Working
  <2>2. Undisturbed(p)'
    BY <1>1, <1>9 DEF Unflushed, Undisturbed, SawAll, SeenTable, SeenChain,
       SeenRules, Working
  <2>3. QED
    BY <2>1, <2>2
<1>10. ASSUME foreign' = 0, genid' > 0 PROVE Complete'
  BY <1>1, <1>10 DEF Untouched, Complete
<1>11. ASSUME foreign' = 0 PROVE \A q \in Starts : AmongStarts(q)'
  <2>1. ASSUME NEW q \in Starts \ {p} PROVE AmongStarts(q)'
    BY <1>1, <1>11 DEF Untouched, AmongStarts, SawAll, SeenTable, SeenChain,
       SeenRules, Working
  <2>2. AmongStarts(p)'
    BY <1>1, <1>11 DEF Untouched, AmongStarts, SawAll, SeenTable, SeenChain,
       SeenRules, Working
  <2>3. QED
    BY <2>1, <2>2
<1>12. QED
  BY <1>3, <1>4, <1>5, <1>6, <1>7, <1>8, <1>9, <1>10, <1>11
     DEF Unflushed, Untouched

LEMMA latest_nft_generation_idStep ==
  ASSUME Inv, NEW p \in Starts, latest_nft_generation_id(p)
  PROVE  Inv'
<1> USE DEF Inv
<1>1. /\ table' = table /\ rules' = rules /\ genid' = genid
      /\ foreign' = foreign /\ flushed' = flushed
      /\ \A q \in Starts \ {p} : /\ pc'[q] = pc[q] /\ view'[q] = view[q]
                                /\ gen'[q] = gen[q] /\ attempt'[q] = attempt[q]
                                /\ quiet'[q] = quiet[q]
      /\ pc[p] = "decide" /\ pc'[p] = "batch" /\ ~NothingToDo(view[p])
      /\ gen'[p] = genid
      /\ view' = view /\ attempt' = attempt /\ quiet' = quiet
  BY DEF latest_nft_generation_id, At, kernel, ghosts, TypeOK
<1>2. TypeOK'
  BY <1>1 DEF latest_nft_generation_id, At, kernel, ghosts, TypeOK, Locations,
     Working
<1>3. Shapes'
  BY <1>1 DEF Shapes
<1>4. \A q \in Starts : ViewSane(q)'
  <2>1. ASSUME NEW q \in Starts \ {p} PROVE ViewSane(q)'
    BY <1>1 DEF ViewSane, SeenTable, SeenChain, SeenRules, Working
  <2>2. ViewSane(p)'
    BY <1>1 DEF ViewSane, SeenTable, SeenChain, SeenRules, Working
  <2>3. QED
    BY <2>1, <2>2
<1>5. \A q \in Starts : ViewHolds(q)'
  <2>1. ASSUME NEW q \in Starts \ {p} PROVE ViewHolds(q)'
    BY <1>1 DEF ViewHolds, SeenTable, SeenChain, SeenRules, Working
  <2>2. ViewHolds(p)'
    BY <1>1 DEF ViewHolds, SeenTable, SeenChain, SeenRules, Working
  <2>3. QED
    BY <2>1, <2>2
<1>6. \A q \in Starts : Outcome(q)'
  <2>1. ASSUME NEW q \in Starts \ {p} PROVE Outcome(q)'
    BY <1>1 DEF Outcome, Complete, SeenTable, SeenChain, SeenRules, Working
  <2>2. Outcome(p)'
    BY <1>1 DEF Outcome, Complete, SeenTable, SeenChain, SeenRules, Working
  <2>3. QED
    BY <2>1, <2>2
<1>7. ASSUME ~flushed' PROVE ChainsExact'
  BY <1>1, <1>7 DEF ChainsExact, Unflushed
<1>8. ASSUME ~flushed' PROVE \A q \in Starts : Undisturbed(q)'
  <2>1. ASSUME NEW q \in Starts \ {p} PROVE Undisturbed(q)'
    BY <1>1, <1>8 DEF Unflushed, Undisturbed, SawAll, SeenTable, SeenChain,
       SeenRules, Working
  <2>2. Undisturbed(p)'
    BY <1>1, <1>8 DEF Unflushed, Undisturbed, SawAll, SeenTable, SeenChain,
       SeenRules, Working
  <2>3. QED
    BY <2>1, <2>2
<1>9. ASSUME foreign' = 0, genid' > 0 PROVE Complete'
  BY <1>1, <1>9 DEF Untouched, Complete
<1>10. ASSUME foreign' = 0 PROVE \A q \in Starts : AmongStarts(q)'
  <2>1. ASSUME NEW q \in Starts \ {p} PROVE AmongStarts(q)'
    BY <1>1, <1>10 DEF Untouched, AmongStarts, SawAll, SeenTable, SeenChain,
       SeenRules, Working
  <2>2. AmongStarts(p)'
    <3>1. AmongStarts(p) /\ genid \in Nat /\ gen'[p] <= genid
      BY <1>1, <1>10 DEF Untouched, TypeOK
    <3>2. SawAll(p) => SawAll(p)'
      BY <1>1 DEF SawAll, SeenTable, SeenChain, SeenRules, Working
    <3>3. \A c \in Chains : pc[p] \in SeenChain(c)
      BY <1>1 DEF SeenTable, SeenChain, Working
    <3>4. pc[p] \in SeenTable /\ pc[p] \in Working
      BY <1>1 DEF SeenTable, Working
    <3>5. QED
      BY <1>1, <3>1, <3>2, <3>3, <3>4 DEF AmongStarts
  <2>3. QED
    BY <2>1, <2>2
<1>11. QED
  BY <1>2, <1>3, <1>4, <1>5, <1>6, <1>7, <1>8, <1>9, <1>10
     DEF Unflushed, Untouched

LEMMA CommitStep ==
  ASSUME Inv, NEW p \in Starts, Commit(p)
  PROVE  Inv'
<1> USE DEF Inv
<1>1. /\ \A q \in Starts \ {p} : /\ pc'[q] = pc[q] /\ view'[q] = view[q]
                                /\ gen'[q] = gen[q] /\ attempt'[q] = attempt[q]
                                /\ quiet'[q] = quiet[q]
      /\ foreign' = foreign /\ flushed' = flushed
      /\ table' /\ genid' = genid + 1
      /\ pc[p] = "batch" /\ pc'[p] = "ok" /\ BatchErrors(p) = {}
      /\ view' = view /\ gen' = gen /\ attempt' = attempt /\ quiet' = quiet
  BY DEF Commit, At, kernel, ghosts, TypeOK
<1> DEFINE old(c) == IF c \in DOMAIN rules THEN rules[c] ELSE <<>>
           empty(c) == view[p].state[c].count = 0
<1>2. /\ gen[p] = genid
      /\ IF table THEN view[p].table /\ view[p].chains = Chains ELSE ~view[p].table
  BY <1>1, BatchOutcomes
<1>3. ASSUME NEW c \in Chains
      PROVE  /\ old(c) \in Seq(RuleSet) /\ Shape(old(c), c)
             /\ rules'[c] = IF empty(c) THEN old(c) \o NewRules(c, settings[p]) ELSE old(c)
  <2>1. old(c) \in Seq(RuleSet) /\ Shape(old(c), c)
    <3>1. CASE c \in DOMAIN rules
      BY <3>1 DEF TypeOK, Shapes
    <3>2. CASE c \notin DOMAIN rules
      <4>1. <<>> \in Seq(RuleSet) /\ Len(<<>>) = 0
        OBVIOUS
      <4>2. QED
        BY <3>2, <4>1 DEF Shape
    <3>3. QED
      BY <3>1, <3>2
  <2>2. Missing(view[p], c) = IF empty(c) THEN TagsOf(c) ELSE <<>>
    <3>1. view[p] \in Views /\ Sane(view[p].state[c], c)
      BY DEF TypeOK, ViewSane
    <3>2. QED
      BY <3>1, MissingAllOrNone
  <2>3. rules'[c] = old(c) \o [i \in DOMAIN Missing(view[p], c) |->
                                Rule(Missing(view[p], c)[i], TRUE, settings[p])]
    BY DEF Commit
  <2> HIDE DEF old
  <2>4. CASE empty(c)
    BY <2>1, <2>2, <2>3, <2>4 DEF NewRules
  <2>5. CASE ~empty(c)
    <3>1. [i \in DOMAIN Missing(view[p], c) |->
             Rule(Missing(view[p], c)[i], TRUE, settings[p])] = <<>>
      BY <2>2, <2>5
    <3>2. QED
      BY <2>1, <2>3, <2>5, <3>1, ConcatEmptySeq
  <2>6. QED
    BY <2>1, <2>4, <2>5
<1> HIDE DEF old, empty
<1>4. ASSUME NEW c \in Chains
      PROVE  /\ rules'[c] \in Seq(RuleSet) /\ Shape(rules'[c], c)
             /\ Len(old(c)) \in Nat
             /\ Len(rules'[c]) = Len(old(c)) + IF empty(c) THEN Len(TagsOf(c)) ELSE 0
  <2>1. settings[p] \in Configured
    BY DEF TypeOK
  <2>2. /\ old(c) \in Seq(RuleSet) /\ Shape(old(c), c)
        /\ rules'[c] = IF empty(c) THEN old(c) \o NewRules(c, settings[p]) ELSE old(c)
    BY <1>3
  <2>3. /\ old(c) \o NewRules(c, settings[p]) \in Seq(RuleSet)
        /\ Len(old(c) \o NewRules(c, settings[p])) = Len(old(c)) + Len(TagsOf(c))
        /\ Shape(old(c) \o NewRules(c, settings[p]), c)
    BY <2>1, <2>2, NewRulesShape
  <2>4. Len(old(c)) \in Nat
    BY <2>2
  <2>5. CASE empty(c)
    BY <2>2, <2>3, <2>4, <2>5
  <2>6. CASE ~empty(c)
    BY <2>2, <2>4, <2>6
  <2>7. QED
    BY <2>5, <2>6
<1>5. DOMAIN rules' = Chains
  BY DEF Commit
<1>6. \A c \in Chains :
        /\ Len(rules'[c]) \in Nat
        /\ (empty(c) \/ Len(old(c)) > 0) => Len(rules'[c]) > 0
        /\ c \in DOMAIN rules => old(c) = rules[c]
        /\ c \notin DOMAIN rules => Len(old(c)) = 0
  <2>1. SUFFICES ASSUME NEW c \in Chains
                 PROVE  /\ Len(rules'[c]) \in Nat
                        /\ (empty(c) \/ Len(old(c)) > 0) => Len(rules'[c]) > 0
                        /\ c \in DOMAIN rules => old(c) = rules[c]
                        /\ c \notin DOMAIN rules => Len(old(c)) = 0
    OBVIOUS
  <2>2. /\ Len(old(c)) \in Nat /\ Len(TagsOf(c)) \in {1, 2}
        /\ Len(rules'[c]) = Len(old(c)) + IF empty(c) THEN Len(TagsOf(c)) ELSE 0
    BY <1>4, TagsOfChains
  <2>3. c \in DOMAIN rules => old(c) = rules[c]
    BY DEF old
  <2>4. c \notin DOMAIN rules => old(c) = <<>>
    BY DEF old
  <2>5. c \notin DOMAIN rules => Len(old(c)) = 0
    BY <2>4
  <2>6. Len(rules'[c]) \in Nat /\ ((empty(c) \/ Len(old(c)) > 0) => Len(rules'[c]) > 0)
    <3> HIDE DEF old, empty
    <3>1. CASE empty(c)
      <4>1. Len(rules'[c]) = Len(old(c)) + Len(TagsOf(c))
        BY <2>2, <3>1
      <4>2. Len(TagsOf(c)) \in Nat /\ Len(TagsOf(c)) > 0
        BY <2>2
      <4>3. QED
        BY <2>2, <4>1, <4>2
    <3>2. CASE ~empty(c)
      BY <2>2, <3>2
    <3>3. QED
      BY <3>1, <3>2
  <2>7. QED
    BY <2>3, <2>5, <2>6
<1>9. TypeOK'
  <2>1. pc' \in [Starts -> Locations] /\ table' \in BOOLEAN
    BY <1>1 DEF Commit, At, TypeOK, Locations
  <2>2. DOMAIN rules' = (IF table' THEN Chains ELSE {})
    BY <1>1, <1>5
  <2>3. \A c \in DOMAIN rules' : rules'[c] \in Seq(RuleSet)
    BY <1>4, <1>5
  <2>4. settings' = settings
    BY DEF Commit
  <2>5. genid' \in Nat
    BY <1>1 DEF TypeOK
  <2>6. QED
    BY <1>1, <2>1, <2>2, <2>3, <2>4, <2>5 DEF TypeOK
<1>10. Shapes'
  BY <1>4, <1>5 DEF Shapes
<1>11. \A q \in Starts : ViewSane(q)'
  <2>1. ASSUME NEW q \in Starts \ {p} PROVE ViewSane(q)'
    BY <1>1 DEF ViewSane, SeenTable, SeenChain, SeenRules, Working
  <2>2. ViewSane(p)'
    BY <1>1 DEF ViewSane, SeenTable, SeenChain, SeenRules, Working
  <2>3. QED
    BY <2>1, <2>2
<1>12. \A q \in Starts : ViewHolds(q)'
  <2>1. ASSUME NEW q \in Starts \ {p} PROVE ViewHolds(q)'
    <3>1. \A c \in DOMAIN rules : Len(rules[c]) > 0 => Len(rules'[c]) > 0
      BY <1>6 DEF TypeOK
    <3>2. QED
      BY <1>1, <1>5, <3>1 DEF ViewHolds, TypeOK
  <2>2. ViewHolds(p)'
    BY <1>1 DEF ViewHolds, SeenTable, Working
  <2>3. QED
    BY <2>1, <2>2
<1>13. \A q \in Starts : Outcome(q)'
  <2>1. Complete => Complete'
    BY <1>1, <1>6 DEF Complete, TypeOK
  <2>2. ASSUME quiet[p] PROVE Complete'
    <3>1. \A c \in Chains : ~empty(c) => c \in DOMAIN rules /\ Len(rules[c]) > 0
      <4>1. \A c \in Chains : view[p].state[c].count \in Nat
        BY DEF TypeOK, Views
      <4>2. QED
        BY <1>1, <2>2, <4>1 DEF ViewHolds, empty, SeenTable, Working
    <3>2. QED
      BY <1>1, <1>6, <3>1 DEF Complete
  <2>3. ASSUME NEW q \in Starts \ {p} PROVE Outcome(q)'
    BY <1>1, <2>1 DEF Outcome
  <2>4. Outcome(p)'
    BY <1>1, <2>2 DEF Outcome
  <2>5. QED
    BY <2>3, <2>4
<1>14. ASSUME ~flushed' PROVE ChainsExact'
  <2>1. ~flushed
    BY <1>1, <1>14
  <2>2. ~view[p].table
    BY <1>1, <2>1, SawAllNothing DEF Unflushed, Undisturbed, SeenTable, Working
  <2>3. \A c \in Chains : empty(c) /\ c \notin DOMAIN rules
    BY <1>1, <1>2, <2>2, EmptyViewFields
       DEF ViewSane, SeenTable, Working, empty, TypeOK
  <2>4. \A c \in Chains : Len(rules'[c]) = Len(TagsOf(c))
    BY <1>4, <1>6, <2>3, TagsOfChains
  <2>5. QED
    BY <1>5, <2>4 DEF ChainsExact
<1>15. ASSUME ~flushed' PROVE \A q \in Starts : Undisturbed(q)'
  <2>1. ASSUME NEW q \in Starts \ {p} PROVE Undisturbed(q)'
    BY <1>1, <1>15 DEF Unflushed, Undisturbed, SawAll, SeenTable, SeenChain,
       SeenRules, Working
  <2>2. Undisturbed(p)'
    BY <1>1, <1>15 DEF Unflushed, Undisturbed, SawAll, SeenTable, SeenChain,
       SeenRules, Working
  <2>3. QED
    BY <2>1, <2>2
<1>16. ASSUME foreign' = 0, genid' > 0 PROVE Complete'
  <2>1. quiet[p]
    BY <1>1, <1>16 DEF Untouched, AmongStarts
  <2>2. \A c \in Chains : ~empty(c) => c \in DOMAIN rules /\ Len(rules[c]) > 0
    <3>1. \A c \in Chains : view[p].state[c].count \in Nat
      BY DEF TypeOK, Views
    <3>2. QED
      BY <1>1, <2>1, <3>1 DEF ViewHolds, empty, SeenTable, Working
  <2>3. QED
    BY <1>1, <1>6, <2>2 DEF Complete
<1>17. ASSUME foreign' = 0 PROVE \A q \in Starts : AmongStarts(q)'
  <2>1. foreign = 0 /\ genid \in Nat /\ genid' = genid + 1 /\ gen \in [Starts -> Nat]
    BY <1>1, <1>17 DEF TypeOK
  <2>2. ASSUME NEW q \in Starts \ {p} PROVE AmongStarts(q)'
    BY <1>1, <2>1 DEF Untouched, AmongStarts, SawAll
  <2>3. AmongStarts(p)'
    BY <1>1, <2>1 DEF Untouched, AmongStarts, SeenTable, Working
  <2>4. QED
    BY <2>2, <2>3
<1>18. QED
  BY <1>9, <1>10, <1>11, <1>12, <1>13, <1>14, <1>15, <1>16, <1>17
     DEF Unflushed, Untouched

LEMMA RetryStep ==
  ASSUME Inv, NEW p \in Starts, Retry(p)
  PROVE  Inv'
<1> USE DEF Inv
<1>1. /\ table' = table /\ rules' = rules /\ genid' = genid
      /\ foreign' = foreign /\ flushed' = flushed
      /\ \A q \in Starts \ {p} : /\ pc'[q] = pc[q] /\ view'[q] = view[q]
                                /\ gen'[q] = gen[q] /\ attempt'[q] = attempt[q]
                                /\ quiet'[q] = quiet[q]
      /\ pc[p] = "batch" /\ pc'[p] = "table" /\ attempt'[p] = attempt[p] + 1
      /\ quiet'[p]
      /\ view' = view /\ gen' = gen
  BY DEF Retry, At, kernel, ghosts, TypeOK
<1>2. gen[p] # genid \/ (table /\ (~view[p].table \/ view[p].chains # Chains))
  BY <1>1, BatchOutcomes DEF Retry
<1>3. TypeOK'
  BY <1>1 DEF Retry, At, kernel, ghosts, TypeOK, Locations, Working
<1>4. Shapes'
  BY <1>1 DEF Shapes
<1>5. \A q \in Starts : ViewSane(q)'
  <2>1. ASSUME NEW q \in Starts \ {p} PROVE ViewSane(q)'
    BY <1>1 DEF ViewSane, SeenTable, SeenChain, SeenRules, Working
  <2>2. ViewSane(p)'
    BY <1>1 DEF ViewSane, SeenTable, SeenChain, SeenRules, Working
  <2>3. QED
    BY <2>1, <2>2
<1>6. \A q \in Starts : ViewHolds(q)'
  <2>1. ASSUME NEW q \in Starts \ {p} PROVE ViewHolds(q)'
    BY <1>1 DEF ViewHolds, SeenTable, SeenChain, SeenRules, Working
  <2>2. ViewHolds(p)'
    BY <1>1 DEF ViewHolds, SeenTable, SeenChain, SeenRules, Working
  <2>3. QED
    BY <2>1, <2>2
<1>7. \A q \in Starts : Outcome(q)'
  <2>1. ASSUME NEW q \in Starts \ {p} PROVE Outcome(q)'
    BY <1>1 DEF Outcome, Complete, SeenTable, SeenChain, SeenRules, Working
  <2>2. Outcome(p)'
    BY <1>1 DEF Outcome, Complete, SeenTable, SeenChain, SeenRules, Working
  <2>3. QED
    BY <2>1, <2>2
<1>8. ASSUME ~flushed' PROVE ChainsExact'
  BY <1>1, <1>8 DEF ChainsExact, Unflushed
<1>9. ASSUME ~flushed' PROVE \A q \in Starts : Undisturbed(q)'
  <2>1. ASSUME NEW q \in Starts \ {p} PROVE Undisturbed(q)'
    BY <1>1, <1>9 DEF Unflushed, Undisturbed, SawAll, SeenTable, SeenChain,
       SeenRules, Working
  <2>2. Undisturbed(p)'
    BY <1>1, <1>2, <1>9 DEF Unflushed, Undisturbed, SawAll, SeenTable,
       SeenChain, SeenRules, Working
  <2>3. QED
    BY <2>1, <2>2
<1>10. ASSUME foreign' = 0, genid' > 0 PROVE Complete'
  BY <1>1, <1>10 DEF Untouched, Complete
<1>11. ASSUME foreign' = 0 PROVE \A q \in Starts : AmongStarts(q)'
  <2>1. ASSUME NEW q \in Starts \ {p} PROVE AmongStarts(q)'
    BY <1>1, <1>11 DEF Untouched, AmongStarts, SawAll, SeenTable, SeenChain,
       SeenRules, Working
  <2>2. AmongStarts(p)'
    <3>1. genid > 0
      <4>1. gen[p] <= genid /\ gen[p] \in Nat /\ genid \in Nat
        BY <1>1, <1>11 DEF Untouched, AmongStarts, TypeOK
      <4>2. CASE gen[p] # genid
        BY <4>1, <4>2
      <4>3. CASE gen[p] = genid
        <5>1. SUFFICES ASSUME genid = 0 PROVE FALSE
          BY <4>1
        <5>2. table /\ view[p].table /\ \A c \in Chains : c \in view[p].chains
          BY <1>1, <1>2, <4>3, <5>1, <1>11
             DEF Untouched, AmongStarts, SeenTable, SeenChain, Working
        <5>3. view[p].chains \subseteq Chains
          BY DEF TypeOK, Views
        <5>4. QED
          BY <1>2, <4>3, <5>2, <5>3
      <4>4. QED
        BY <4>2, <4>3
    <3>2. foreign = 0 /\ genid' = genid
      BY <1>1, <1>11
    <3>3. QED
      BY <1>1, <3>1, <3>2 DEF Untouched, AmongStarts, SeenTable, Working
  <2>3. QED
    BY <2>1, <2>2
<1>12. QED
  BY <1>3, <1>4, <1>5, <1>6, <1>7, <1>8, <1>9, <1>10, <1>11
     DEF Unflushed, Untouched

LEMMA GiveUpStep ==
  ASSUME Inv, NEW p \in Starts, GiveUp(p)
  PROVE  Inv'
<1> USE DEF Inv
<1>1. /\ table' = table /\ rules' = rules /\ genid' = genid
      /\ foreign' = foreign /\ flushed' = flushed
      /\ \A q \in Starts \ {p} : /\ pc'[q] = pc[q] /\ view'[q] = view[q]
                                /\ gen'[q] = gen[q] /\ attempt'[q] = attempt[q]
                                /\ quiet'[q] = quiet[q]
      /\ pc[p] = "batch" /\ pc'[p] = "raced" /\ attempt[p] >= 2
      /\ view' = view /\ gen' = gen /\ attempt' = attempt /\ quiet' = quiet
  BY DEF GiveUp, At, kernel, ghosts, Attempts, TypeOK
<1>2. TypeOK'
  BY <1>1 DEF GiveUp, At, kernel, ghosts, Attempts, TypeOK, Locations, Working
<1>3. Shapes'
  BY <1>1 DEF Shapes
<1>4. \A q \in Starts : ViewSane(q)'
  <2>1. ASSUME NEW q \in Starts \ {p} PROVE ViewSane(q)'
    BY <1>1 DEF ViewSane, SeenTable, SeenChain, SeenRules, Working
  <2>2. ViewSane(p)'
    BY <1>1 DEF ViewSane, SeenTable, SeenChain, SeenRules, Working
  <2>3. QED
    BY <2>1, <2>2
<1>5. \A q \in Starts : ViewHolds(q)'
  <2>1. ASSUME NEW q \in Starts \ {p} PROVE ViewHolds(q)'
    BY <1>1 DEF ViewHolds, SeenTable, SeenChain, SeenRules, Working
  <2>2. ViewHolds(p)'
    BY <1>1 DEF ViewHolds, SeenTable, SeenChain, SeenRules, Working
  <2>3. QED
    BY <2>1, <2>2
<1>6. \A q \in Starts : Outcome(q)'
  <2>1. ASSUME NEW q \in Starts \ {p} PROVE Outcome(q)'
    BY <1>1 DEF Outcome, Complete, SeenTable, SeenChain, SeenRules, Working
  <2>2. Outcome(p)'
    BY <1>1 DEF Outcome, Complete, SeenTable, SeenChain, SeenRules, Working
  <2>3. QED
    BY <2>1, <2>2
<1>7. ASSUME ~flushed' PROVE ChainsExact'
  BY <1>1, <1>7 DEF ChainsExact, Unflushed
<1>8. ASSUME ~flushed' PROVE \A q \in Starts : Undisturbed(q)'
  <2>1. ASSUME NEW q \in Starts \ {p} PROVE Undisturbed(q)'
    BY <1>1, <1>8 DEF Unflushed, Undisturbed, SawAll, SeenTable, SeenChain,
       SeenRules, Working
  <2>2. Undisturbed(p)'
    <3>1. ~view[p].table
      BY <1>1, <1>8, SawAllNothing DEF Unflushed, Undisturbed, SeenTable, Working
    <3>2. attempt[p] <= foreign /\ attempt[p] >= 2 /\ foreign \in Nat
      BY <1>1, <1>8, <3>1 DEF Unflushed, Undisturbed, SeenTable, Working, TypeOK
    <3>3. attempt[p] \in Nat
      BY DEF TypeOK
    <3>4. foreign >= 2
      BY <3>2, <3>3
    <3>5. QED
      BY <1>1, <3>4 DEF Undisturbed, SeenTable, Working
  <2>3. QED
    BY <2>1, <2>2
<1>9. ASSUME foreign' = 0, genid' > 0 PROVE Complete'
  BY <1>1, <1>9 DEF Untouched, Complete
<1>10. ASSUME foreign' = 0 PROVE \A q \in Starts : AmongStarts(q)'
  <2>1. ASSUME NEW q \in Starts \ {p} PROVE AmongStarts(q)'
    BY <1>1, <1>10 DEF Untouched, AmongStarts, SawAll, SeenTable, SeenChain,
       SeenRules, Working
  <2>2. AmongStarts(p)'
    <3>1. attempt[p] > 0
      BY <1>1 DEF TypeOK
    <3>2. view[p].table /\ SawAll(p)
      BY <1>1, <3>1, <1>10 DEF Untouched, AmongStarts, SeenTable, Working
    <3>3. QED
      BY <1>1, <3>2, SawAllNothing
  <2>3. QED
    BY <2>1, <2>2
<1>11. QED
  BY <1>2, <1>3, <1>4, <1>5, <1>6, <1>7, <1>8, <1>9, <1>10
     DEF Unflushed, Untouched

LEMMA RefusedStep ==
  ASSUME Inv, NEW p \in Starts, Refused(p)
  PROVE  Inv'
<1> USE DEF Inv
<1>1. /\ table' = table /\ rules' = rules /\ genid' = genid
      /\ foreign' = foreign /\ flushed' = flushed
      /\ \A q \in Starts \ {p} : /\ pc'[q] = pc[q] /\ view'[q] = view[q]
                                /\ gen'[q] = gen[q] /\ attempt'[q] = attempt[q]
                                /\ quiet'[q] = quiet[q]
      /\ pc[p] = "batch" /\ pc'[p] = "refused"
      /\ view' = view /\ gen' = gen /\ attempt' = attempt /\ quiet' = quiet
  BY DEF Refused, At, kernel, ghosts, TypeOK
<1>2. (~table /\ view[p].table) \/ view[p].chains \ DOMAIN rules # {}
  BY <1>1, BatchOutcomes DEF Refused
<1>3. TypeOK'
  BY <1>1 DEF Refused, At, kernel, ghosts, TypeOK, Locations, Working
<1>4. Shapes'
  BY <1>1 DEF Shapes
<1>5. \A q \in Starts : ViewSane(q)'
  <2>1. ASSUME NEW q \in Starts \ {p} PROVE ViewSane(q)'
    BY <1>1 DEF ViewSane, SeenTable, SeenChain, SeenRules, Working
  <2>2. ViewSane(p)'
    BY <1>1 DEF ViewSane, SeenTable, SeenChain, SeenRules, Working
  <2>3. QED
    BY <2>1, <2>2
<1>6. \A q \in Starts : ViewHolds(q)'
  <2>1. ASSUME NEW q \in Starts \ {p} PROVE ViewHolds(q)'
    BY <1>1 DEF ViewHolds, SeenTable, SeenChain, SeenRules, Working
  <2>2. ViewHolds(p)'
    BY <1>1 DEF ViewHolds, SeenTable, SeenChain, SeenRules, Working
  <2>3. QED
    BY <2>1, <2>2
<1>7. \A q \in Starts : Outcome(q)'
  <2>1. ASSUME NEW q \in Starts \ {p} PROVE Outcome(q)'
    BY <1>1 DEF Outcome, Complete, SeenTable, SeenChain, SeenRules, Working
  <2>2. Outcome(p)'
    BY <1>1, <1>2 DEF Outcome, Complete, ViewHolds, SeenTable, SeenChain,
       SeenRules, Working
  <2>3. QED
    BY <2>1, <2>2
<1>8. ASSUME ~flushed' PROVE ChainsExact'
  BY <1>1, <1>8 DEF ChainsExact, Unflushed
<1>9. ASSUME ~flushed' PROVE \A q \in Starts : Undisturbed(q)'
  <2>1. ASSUME NEW q \in Starts \ {p} PROVE Undisturbed(q)'
    BY <1>1, <1>9 DEF Unflushed, Undisturbed, SawAll, SeenTable, SeenChain,
       SeenRules, Working
  <2>2. Undisturbed(p)'
    BY <1>1, <1>9 DEF Unflushed, Undisturbed, SawAll, SeenTable, SeenChain,
       SeenRules, Working
  <2>3. QED
    BY <2>1, <2>2
<1>10. ASSUME foreign' = 0, genid' > 0 PROVE Complete'
  BY <1>1, <1>10 DEF Untouched, Complete
<1>11. ASSUME foreign' = 0 PROVE \A q \in Starts : AmongStarts(q)'
  <2>1. ASSUME NEW q \in Starts \ {p} PROVE AmongStarts(q)'
    BY <1>1, <1>11 DEF Untouched, AmongStarts, SawAll, SeenTable, SeenChain,
       SeenRules, Working
  <2>2. AmongStarts(p)'
    BY <1>1, <1>11 DEF Untouched, AmongStarts, SawAll, SeenTable, SeenChain,
       SeenRules, Working
  <2>3. QED
    BY <2>1, <2>2
<1>12. QED
  BY <1>3, <1>4, <1>5, <1>6, <1>7, <1>8, <1>9, <1>10, <1>11
     DEF Unflushed, Untouched

LEMMA NetlinkFailsStep ==
  ASSUME Inv, NEW p \in Starts, NetlinkFails(p)
  PROVE  Inv'
<1> USE DEF Inv
<1>1. /\ table' = table /\ rules' = rules /\ genid' = genid
      /\ foreign' = foreign /\ flushed' = flushed
      /\ \A q \in Starts \ {p} : /\ pc'[q] = pc[q] /\ view'[q] = view[q]
                                /\ gen'[q] = gen[q] /\ attempt'[q] = attempt[q]
                                /\ quiet'[q] = quiet[q]
      /\ pc'[p] = "failed"
      /\ view' = view /\ gen' = gen /\ attempt' = attempt /\ quiet' = quiet
  BY DEF NetlinkFails, At, kernel, ghosts, TypeOK
<1>2. TypeOK'
  BY <1>1 DEF NetlinkFails, At, kernel, ghosts, TypeOK, Locations, Working
<1>3. Shapes'
  BY <1>1 DEF Shapes
<1>4. \A q \in Starts : ViewSane(q)'
  <2>1. ASSUME NEW q \in Starts \ {p} PROVE ViewSane(q)'
    BY <1>1 DEF ViewSane, SeenTable, SeenChain, SeenRules, Working
  <2>2. ViewSane(p)'
    BY <1>1 DEF ViewSane, SeenTable, SeenChain, SeenRules, Working
  <2>3. QED
    BY <2>1, <2>2
<1>5. \A q \in Starts : ViewHolds(q)'
  <2>1. ASSUME NEW q \in Starts \ {p} PROVE ViewHolds(q)'
    BY <1>1 DEF ViewHolds, SeenTable, SeenChain, SeenRules, Working
  <2>2. ViewHolds(p)'
    BY <1>1 DEF ViewHolds, SeenTable, SeenChain, SeenRules, Working
  <2>3. QED
    BY <2>1, <2>2
<1>6. \A q \in Starts : Outcome(q)'
  <2>1. ASSUME NEW q \in Starts \ {p} PROVE Outcome(q)'
    BY <1>1 DEF Outcome, Complete, SeenTable, SeenChain, SeenRules, Working
  <2>2. Outcome(p)'
    BY <1>1 DEF Outcome, Complete, SeenTable, SeenChain, SeenRules, Working
  <2>3. QED
    BY <2>1, <2>2
<1>7. ASSUME ~flushed' PROVE ChainsExact'
  BY <1>1, <1>7 DEF ChainsExact, Unflushed
<1>8. ASSUME ~flushed' PROVE \A q \in Starts : Undisturbed(q)'
  <2>1. ASSUME NEW q \in Starts \ {p} PROVE Undisturbed(q)'
    BY <1>1, <1>8 DEF Unflushed, Undisturbed, SawAll, SeenTable, SeenChain,
       SeenRules, Working
  <2>2. Undisturbed(p)'
    BY <1>1, <1>8 DEF Unflushed, Undisturbed, SawAll, SeenTable, SeenChain,
       SeenRules, Working
  <2>3. QED
    BY <2>1, <2>2
<1>9. ASSUME foreign' = 0, genid' > 0 PROVE Complete'
  BY <1>1, <1>9 DEF Untouched, Complete
<1>10. ASSUME foreign' = 0 PROVE \A q \in Starts : AmongStarts(q)'
  <2>1. ASSUME NEW q \in Starts \ {p} PROVE AmongStarts(q)'
    BY <1>1, <1>10 DEF Untouched, AmongStarts, SawAll, SeenTable, SeenChain,
       SeenRules, Working
  <2>2. AmongStarts(p)'
    BY <1>1, <1>10 DEF Untouched, AmongStarts, SawAll, SeenTable, SeenChain,
       SeenRules, Working
  <2>3. QED
    BY <2>1, <2>2
<1>11. QED
  BY <1>2, <1>3, <1>4, <1>5, <1>6, <1>7, <1>8, <1>9, <1>10
     DEF Unflushed, Untouched

LEMMA UnrelatedStep ==
  ASSUME Inv, Unrelated
  PROVE  Inv'
<1> USE DEF Inv
<1>1. /\ pc' = pc /\ view' = view /\ gen' = gen /\ attempt' = attempt
      /\ genid' = genid + 1 /\ foreign' = foreign + 1
      /\ table' = table /\ rules' = rules /\ flushed' = flushed /\ quiet' = quiet
  BY DEF Unrelated, Foreign, TypeOK
<1>2. TypeOK'
  BY <1>1 DEF Unrelated, Foreign, TypeOK, Locations, Working
<1>3. Shapes'
  BY <1>1 DEF Shapes
<1>4. \A q \in Starts : ViewSane(q)'
  BY <1>1 DEF ViewSane, SeenTable, SeenChain, SeenRules, Working
<1>5. \A q \in Starts : ViewHolds(q)'
  BY <1>1 DEF ViewHolds, SeenTable, SeenChain, SeenRules, Working
<1>6. \A q \in Starts : Outcome(q)'
  BY <1>1 DEF Outcome, Complete, SeenTable, SeenChain, SeenRules, Working
<1>7. ASSUME ~flushed' PROVE ChainsExact'
  BY <1>1, <1>7 DEF ChainsExact, Unflushed
<1>8. ASSUME ~flushed' PROVE \A q \in Starts : Undisturbed(q)'
  <2>1. SUFFICES ASSUME NEW q \in Starts PROVE Undisturbed(q)'
    OBVIOUS
  <2>2. Undisturbed(q) /\ ViewHolds(q)
    BY <1>1, <1>8 DEF Unflushed
  <2>3. foreign \in Nat /\ attempt[q] \in Nat /\ foreign' = foreign + 1
    BY <1>1 DEF TypeOK
  <2>4. pc[q] = "batch" /\ ~table => attempt[q] <= foreign
    BY <2>2 DEF Undisturbed, ViewHolds, SeenTable, Working
  <2>5. SawAll(q)' <=> SawAll(q)
    BY <1>1 DEF SawAll
  <2>6. QED
    BY <1>1, <2>2, <2>3, <2>4, <2>5 DEF Undisturbed
<1>9. ASSUME foreign' = 0, genid' > 0 PROVE Complete'
  BY <1>1, <1>9 DEF TypeOK
<1>10. ASSUME foreign' = 0 PROVE \A q \in Starts : AmongStarts(q)'
  BY <1>1, <1>10 DEF TypeOK
<1>11. QED
  BY <1>2, <1>3, <1>4, <1>5, <1>6, <1>7, <1>8, <1>9, <1>10
     DEF Unflushed, Untouched

LEMMA DeleteTableStep ==
  ASSUME Inv, DeleteTable
  PROVE  Inv'
<1> USE DEF Inv
<1>1. /\ pc' = pc /\ view' = view /\ gen' = gen /\ attempt' = attempt
      /\ genid' = genid + 1 /\ foreign' = foreign + 1
      /\ table /\ ~table' /\ table' \in BOOLEAN /\ DOMAIN rules' = {}
      /\ flushed' \in BOOLEAN /\ \A p \in Starts : ~quiet'[p]
      /\ ~flushed' => ~flushed /\ \A p \in Starts : pc[p] \notin Working
  <2>1. rules' = <<>> /\ table' = FALSE
    BY DEF DeleteTable, Foreign
  <2>2. DOMAIN rules' = {}
    BY <2>1
  <2>3. flushed' = (flushed \/ \E p \in Starts : pc[p] \in Working)
    BY DEF DeleteTable
  <2>4. flushed' \in BOOLEAN
    BY <2>3
  <2>5. ~flushed' => ~flushed /\ \A p \in Starts : pc[p] \notin Working
    BY <2>3
  <2>6. QED
    BY <2>1, <2>2, <2>4, <2>5 DEF DeleteTable, Foreign
<1>2. TypeOK'
  BY <1>1 DEF DeleteTable, Foreign, TypeOK, Locations, Working
<1>3. Shapes'
  BY <1>1 DEF Shapes
<1>4. \A q \in Starts : ViewSane(q)'
  BY <1>1 DEF ViewSane, SeenTable, SeenChain, SeenRules, Working
<1>5. \A q \in Starts : ViewHolds(q)'
  BY <1>1 DEF ViewHolds, SeenTable, SeenChain, SeenRules, Working
<1>6. \A q \in Starts : Outcome(q)'
  BY <1>1 DEF Outcome, Complete, SeenTable, SeenChain, SeenRules, Working
<1>7. ASSUME ~flushed' PROVE ChainsExact'
  BY <1>1, <1>7 DEF ChainsExact, Unflushed
<1>8. ASSUME ~flushed' PROVE \A q \in Starts : Undisturbed(q)'
  <2>1. SUFFICES ASSUME NEW q \in Starts PROVE Undisturbed(q)'
    OBVIOUS
  <2>2. pc'[q] \notin Working /\ Undisturbed(q) /\ foreign \in Nat
    BY <1>1, <1>8 DEF Unflushed, TypeOK
  <2>3. QED
    BY <1>1, <2>2 DEF Undisturbed, SeenTable, Working
<1>9. ASSUME foreign' = 0, genid' > 0 PROVE Complete'
  BY <1>1, <1>9 DEF TypeOK
<1>10. ASSUME foreign' = 0 PROVE \A q \in Starts : AmongStarts(q)'
  BY <1>1, <1>10 DEF TypeOK
<1>11. QED
  BY <1>2, <1>3, <1>4, <1>5, <1>6, <1>7, <1>8, <1>9, <1>10
     DEF Unflushed, Untouched

LEMMA FlushTableStep ==
  ASSUME Inv, FlushTable
  PROVE  Inv'
<1> USE DEF Inv
<1>1. /\ pc' = pc /\ view' = view /\ gen' = gen /\ attempt' = attempt
      /\ genid' = genid + 1 /\ foreign' = foreign + 1
      /\ table /\ table' /\ flushed' /\ DOMAIN rules' = Chains
      /\ \A c \in Chains : rules'[c] = <<>>
      /\ \A p \in Starts : ~quiet'[p]
  BY DEF FlushTable, Foreign, TypeOK
<1>2. TypeOK'
  BY <1>1 DEF FlushTable, Foreign, TypeOK, Locations, Working
<1>3. Shapes'
  BY <1>1 DEF Shapes, Shape
<1>4. \A q \in Starts : ViewSane(q)'
  BY <1>1 DEF ViewSane, SeenTable, SeenChain, SeenRules, Working
<1>5. \A q \in Starts : ViewHolds(q)'
  BY <1>1 DEF ViewHolds, SeenTable, SeenChain, SeenRules, Working
<1>6. \A q \in Starts : Outcome(q)'
  BY <1>1 DEF Outcome, Complete, SeenTable, SeenChain, SeenRules, Working
<1>7. ASSUME ~flushed' PROVE ChainsExact'
  BY <1>1, <1>7 DEF ChainsExact, Unflushed
<1>8. ASSUME ~flushed' PROVE \A q \in Starts : Undisturbed(q)'
  BY <1>1, <1>8 DEF Unflushed, Undisturbed, SawAll, SeenTable, SeenChain,
     SeenRules, Working
<1>9. ASSUME foreign' = 0, genid' > 0 PROVE Complete'
  BY <1>1, <1>9 DEF TypeOK
<1>10. ASSUME foreign' = 0 PROVE \A q \in Starts : AmongStarts(q)'
  BY <1>1, <1>10 DEF TypeOK
<1>11. QED
  BY <1>2, <1>3, <1>4, <1>5, <1>6, <1>7, <1>8, <1>9, <1>10
     DEF Unflushed, Untouched

LEMMA InitInv == Init => Inv
<1> SUFFICES ASSUME Init PROVE Inv
  OBVIOUS
<1>1. PICK s \in Configured, kind \in Found : rules = Before(kind, s)
  BY DEF Init
<1>2. ASSUME NEW c \in Chains, NEW r,
             r = RulesFor(c, TRUE, s) \/ r = RulesFor(c, FALSE, s)
      PROVE  r \in Seq(RuleSet) /\ Len(r) = Len(TagsOf(c)) /\ Shape(r, c)
  <2> DEFINE L == Len(TagsOf(c))
  <2>1. /\ L \in {1, 2} /\ DOMAIN TagsOf(c) = 1 .. L
        /\ \A i \in 1 .. L : TagsOf(c)[i] \in Tags
    BY TagsOfChains
  <2>2. /\ DOMAIN r = 1 .. L /\ r = [i \in 1 .. L |-> r[i]]
        /\ \/ \A i \in 1 .. L : r[i] = Rule(TagsOf(c)[i], TRUE, s)
           \/ \A i \in 1 .. L : r[i] = Rule(TagsOf(c)[i], FALSE, s)
    BY <1>2, <2>1 DEF RulesFor
  <2>3. \A i \in 1 .. L : r[i] \in RuleSet /\ r[i].tag = TagsOf(c)[i]
    <3>1. SUFFICES ASSUME NEW i \in 1 .. L
                   PROVE  r[i] \in RuleSet /\ r[i].tag = TagsOf(c)[i]
      OBVIOUS
    <3>2. TagsOf(c)[i] \in Tags
      BY <2>1
    <3>3. CASE r[i] = Rule(TagsOf(c)[i], TRUE, s)
      <4>1. /\ Rule(TagsOf(c)[i], TRUE, s) \in RuleSet
            /\ Rule(TagsOf(c)[i], TRUE, s).tag = TagsOf(c)[i]
        BY <1>1, <3>2, RuleFields
      <4>2. QED
        BY <3>3, <4>1
    <3>4. CASE r[i] = Rule(TagsOf(c)[i], FALSE, s)
      <4>1. /\ Rule(TagsOf(c)[i], FALSE, s) \in RuleSet
            /\ Rule(TagsOf(c)[i], FALSE, s).tag = TagsOf(c)[i]
        BY <1>1, <3>2, RuleFields
      <4>2. QED
        BY <3>4, <4>1
    <3>5. QED
      BY <2>2, <3>3, <3>4
  <2>4. r \in [1 .. L -> RuleSet]
    BY <2>2, <2>3
  <2>5. r \in Seq(RuleSet) /\ Len(r) = L
    BY <2>1, <2>4
  <2>6. \/ \A i \in 1 .. L : r[i].stamped
        \/ \A i \in 1 .. L : ~r[i].stamped
    <3>1. ASSUME NEW i \in 1 .. L, r[i] = Rule(TagsOf(c)[i], TRUE, s)
          PROVE  r[i].stamped
      BY <3>1 DEF Rule
    <3>2. ASSUME NEW i \in 1 .. L, r[i] = Rule(TagsOf(c)[i], FALSE, s)
          PROVE  ~r[i].stamped
      BY <3>2, RuleFields
    <3>3. QED
      BY <2>2, <3>1, <3>2
  <2>7. Shape(r, c)
    BY <2>1, <2>2, <2>3, <2>5, <2>6 DEF Shape, ToSet
  <2>8. QED
    BY <2>5, <2>7
<1>3. \/ DOMAIN rules = {}
      \/ /\ DOMAIN rules = Chains
         /\ \/ \A c \in Chains : rules[c] = RulesFor(c, TRUE, s)
            \/ \A c \in Chains : rules[c] = RulesFor(c, FALSE, s)
            \/ rules = [c \in Chains |-> <<>>]
  <2>1. CASE rules = <<>>
    BY <2>1
  <2>2. CASE rules = [c \in Chains |-> RulesFor(c, TRUE, s)]
    BY <2>2
  <2>3. CASE rules = [c \in Chains |-> RulesFor(c, FALSE, s)]
    BY <2>3
  <2>4. CASE rules = [c \in Chains |-> <<>>]
    BY <2>4
  <2>5. kind \in {"nothing", "stamped", "old", "emptied"}
    BY FoundAssumption
  <2>6. QED
    BY <1>1, <2>1, <2>2, <2>3, <2>4, <2>5 DEF Before
<1>4. \A c \in DOMAIN rules :
        /\ c \in Chains /\ rules[c] \in Seq(RuleSet) /\ Shape(rules[c], c)
        /\ rules # [d \in Chains |-> <<>>] => Len(rules[c]) = Len(TagsOf(c))
  <2>1. <<>> \in Seq(RuleSet) /\ \A c : Shape(<<>>, c)
    BY DEF Shape
  <2>2. QED
    BY <1>2, <1>3, <2>1
<1>5. flushed \in BOOLEAN /\ (~flushed => rules # [c \in Chains |-> <<>>])
  BY DEF Init
<1>6. table \in BOOLEAN /\ DOMAIN rules = (IF table THEN Chains ELSE {})
  <2>1. Chains # {}
    BY DEF Chains
  <2>2. QED
    BY <1>3, <2>1 DEF Init
<1>7. TypeOK
  <2>1. settings \in [Starts -> Configured]
    BY <1>1 DEF Init
  <2>2. QED
    BY <1>1, <1>4, <1>5, <1>6, <2>1, EmptyViewFields DEF Init, TypeOK, Locations
<1>8. Shapes
  BY <1>4 DEF Shapes
<1>9. \A p \in Starts : /\ pc[p] = "off" /\ view[p] = EmptyView
                        /\ attempt[p] = 0 /\ quiet[p]
  BY DEF Init
<1>10. \A p \in Starts : ViewSane(p) /\ ViewHolds(p) /\ Outcome(p)
  BY <1>9, EmptyViewFields
     DEF ViewSane, ViewHolds, Outcome, SeenTable, Working
<1>11. Unflushed
  BY <1>4, <1>5, <1>9 DEF Unflushed, ChainsExact, Undisturbed, SeenTable, Working
<1>12. Untouched
  BY <1>9 DEF Init, Untouched, AmongStarts, SeenTable, Working
<1>13. QED
  BY <1>7, <1>8, <1>10, <1>11, <1>12 DEF Inv

LEMMA NextInv == Inv /\ [Next]_vars => Inv'
<1> SUFFICES ASSUME Inv, [Next]_vars PROVE Inv'
  OBVIOUS
<1>1. ASSUME NEW p \in Starts, Start(p) \/ install_nft_rules(p) PROVE Inv'
  <2>1. CASE Dump(p)
    BY <2>1, nft_table_existsStep, nft_chain_existsStep, nft_rule_stateStep
       DEF Dump, Chains
  <2>2. QED
    BY <1>1, <2>1, StartStep, AlreadyInstalledStep, latest_nft_generation_idStep,
       CommitStep, RetryStep, GiveUpStep, RefusedStep, NetlinkFailsStep
       DEF install_nft_rules
<1>2. CASE Unrelated \/ DeleteTable \/ FlushTable
  BY <1>2, UnrelatedStep, DeleteTableStep, FlushTableStep
<1>3. CASE UNCHANGED vars
  <2>1. /\ table' = table /\ rules' = rules /\ genid' = genid /\ pc' = pc
        /\ settings' = settings /\ view' = view /\ gen' = gen /\ attempt' = attempt
        /\ foreign' = foreign /\ flushed' = flushed /\ quiet' = quiet
    BY <1>3 DEF vars, kernel, ghosts
  <2>2. TypeOK' /\ Shapes'
    BY <2>1 DEF Inv, TypeOK, Shapes
  <2>3. \A p \in Starts : ViewSane(p)' /\ ViewHolds(p)' /\ Outcome(p)'
    BY <2>1 DEF Inv, ViewSane, ViewHolds, Outcome, Complete
  <2>4. Unflushed' /\ Untouched'
    BY <2>1 DEF Inv, Unflushed, ChainsExact, Undisturbed, Untouched, AmongStarts,
                SawAll, Complete
  <2>5. QED
    BY <2>2, <2>3, <2>4 DEF Inv
<1>4. QED
  BY <1>1, <1>2, <1>3 DEF Next

(* The invariant holds however the dumps and batches of any number of      *)
(* starts and the changes of other programs interleave.                    *)
THEOREM Invariance == Spec => []Inv
<1>1. Init => Inv
  BY InitInv
<1>2. Inv /\ [Next]_vars => Inv'
  BY NextInv
<1>3. QED
  BY <1>1, <1>2, PTL DEF Spec

-----------------------------------------------------------------------------
(* A chain that is not empty has every rule it is for. *)
LEMMA ChainServes ==
  ASSUME Inv, NEW c \in DOMAIN rules, Len(rules[c]) > 0, NEW t \in ToSet(TagsOf(c))
  PROVE  Occurrences(t) # {}
<1>1. c \in Chains /\ rules[c] \in Seq(RuleSet) /\ Shape(rules[c], c)
  BY DEF Inv, TypeOK, Shapes
<1>2. PICK i \in DOMAIN TagsOf(c) : TagsOf(c)[i] = t
  BY <1>1, TagsOfChains
<1>3. i \in DOMAIN rules[c] /\ rules[c][i].tag = t
  BY <1>1, <1>2, TagsOfChains DEF Shape
<1>4. <<c, i>> \in UNION {{d} \X DOMAIN rules[d] : d \in DOMAIN rules}
  BY <1>3
<1>5. <<c, i>> \in Occurrences(t)
  BY <1>3, <1>4 DEF Occurrences
<1>6. QED
  BY <1>5

LEMMA TagHasChain ==
  \A t \in Tags : \E c \in Chains : t \in ToSet(TagsOf(c))
<1>1. /\ "ingress" \in ToSet(TagsOf("forward")) /\ "reply" \in ToSet(TagsOf("forward"))
      /\ "masquerade" \in ToSet(TagsOf("postrouting"))
  BY DEF TagsOf, ToSet
<1>2. QED
  BY <1>1 DEF Tags, Chains

(* No rule is in a chain twice as long as nobody flushed the table or      *)
(* deleted it under the dumps of a start: linux.rs installs concurrently   *)
(* and only NLM_F_EXCL keeps the batches apart.                            *)
THEOREM NoRuleTwice == Spec => []NoDuplicates
<1>1. Inv => NoDuplicates
  <2>1. SUFFICES ASSUME Inv, ~flushed, NEW t \in Tags
                 PROVE  Cardinality(Occurrences(t)) <= 1
    BY DEF NoDuplicates
  <2>2. \A c \in DOMAIN rules :
          /\ c \in Chains /\ rules[c] \in Seq(RuleSet) /\ Shape(rules[c], c)
          /\ Len(rules[c]) = Len(TagsOf(c))
    BY <2>1 DEF Inv, TypeOK, Shapes, Unflushed, ChainsExact
  <2>3. \A c \in DOMAIN rules : \A i \in DOMAIN rules[c] :
          i \in DOMAIN TagsOf(c) /\ rules[c][i].tag = TagsOf(c)[i]
    BY <2>2, TagsOfChains DEF Shape
  <2>4. ASSUME NEW o \in Occurrences(t)
        PROVE  /\ o = <<o[1], o[2]>> /\ o[1] \in Chains
               /\ o[2] \in DOMAIN TagsOf(o[1]) /\ TagsOf(o[1])[o[2]] = t
    <3>1. PICK c \in DOMAIN rules : o \in {c} \X DOMAIN rules[c]
      BY DEF Occurrences
    <3>2. o = <<o[1], o[2]>> /\ o[1] = c /\ o[2] \in DOMAIN rules[c]
      BY <3>1
    <3>3. rules[o[1]][o[2]].tag = t
      BY DEF Occurrences
    <3>4. QED
      BY <2>2, <2>3, <3>2, <3>3
  <2>5. ASSUME NEW o \in Occurrences(t), NEW u \in Occurrences(t) PROVE o = u
    <3>1. /\ o[1] \in Chains /\ o[2] \in DOMAIN TagsOf(o[1]) /\ TagsOf(o[1])[o[2]] = t
          /\ u[1] \in Chains /\ u[2] \in DOMAIN TagsOf(u[1]) /\ TagsOf(u[1])[u[2]] = t
          /\ o = <<o[1], o[2]>> /\ u = <<u[1], u[2]>>
      BY <2>4
    <3>2. \A c, d \in Chains : \A i \in DOMAIN TagsOf(c), j \in DOMAIN TagsOf(d) :
            TagsOf(c)[i] = TagsOf(d)[j] => c = d /\ i = j
      BY DEF Chains, TagsOf
    <3>3. o[1] = u[1] /\ o[2] = u[2]
      BY <3>1, <3>2
    <3>4. QED
      BY <3>1, <3>3
  <2>6. CASE Occurrences(t) = {}
    BY <2>6, FS_EmptySet
  <2>7. CASE Occurrences(t) # {}
    <3>1. PICK o \in Occurrences(t) : TRUE
      BY <2>7
    <3>2. Occurrences(t) = {o}
      BY <2>5, <3>1
    <3>3. QED
      BY <3>2, FS_Singleton
  <2>8. QED
    BY <2>6, <2>7
<1>2. QED
  BY <1>1, Invariance, PTL

(* A start that got Ok finds the table, both chains and the three rules,   *)
(* unless another program removed some since its attempt began.            *)
THEOREM OkIsInstalled == Spec => []OkMeansInstalled
<1>1. Inv => OkMeansInstalled
  <2>1. SUFFICES ASSUME Inv, NEW p \in Starts, pc[p] = "ok", quiet[p]
                 PROVE  table /\ \A t \in Tags : Occurrences(t) # {}
    BY DEF OkMeansInstalled
  <2>2. table /\ DOMAIN rules = Chains /\ \A c \in Chains : Len(rules[c]) > 0
    BY <2>1 DEF Inv, Outcome, Complete, TypeOK
  <2>3. QED
    BY <2>1, <2>2, ChainServes, TagHasChain
<1>2. QED
  BY <1>1, Invariance, PTL

(* Three attempts are enough for any number of starts: they run out only   *)
(* when other programs changed the ruleset, and an error that is not       *)
(* repeated means that something was removed.                              *)
THEOREM FailuresExplained == Spec => []FailureExplained
<1>1. Inv => FailureExplained
  <2>1. SUFFICES ASSUME Inv, NEW p \in Starts
                 PROVE  /\ pc[p] = "raced" => foreign >= (IF flushed THEN 1 ELSE 2)
                        /\ pc[p] = "refused" => ~quiet[p]
    BY DEF FailureExplained
  <2>2. foreign \in Nat /\ (pc[p] = "raced" => foreign # 0)
    BY <2>1 DEF Inv, TypeOK, Untouched, AmongStarts
  <2>3. ~flushed /\ pc[p] = "raced" => foreign >= 2
    BY <2>1 DEF Inv, Unflushed, Undisturbed
  <2>4. QED
    BY <2>1, <2>2, <2>3 DEF Inv, Outcome
<1>2. QED
  BY <1>1, Invariance, PTL

-----------------------------------------------------------------------------
(* The arithmetic of the masks. What Pow2 computes and what the bits of a  *)
(* word say is shown with a least counterexample: the library's theorems   *)
(* on induction take an operator, this one only a set.                     *)
LEMMA LeastElement ==
  ASSUME NEW T \in SUBSET Nat, T # {}
  PROVE  \E x \in T : \A y \in T : x <= y
<1> DEFINE Less == {ss \in Nat \X Nat : ss[1] < ss[2]}
<1>1. IsWellFoundedOn(Less, Nat)
  BY NatLessThanWellFounded, Zenon DEF OpToRel
<1>2. PICK x \in T : \A y \in T : <<y, x>> \notin Less
  <2> HIDE DEF Less
  <2>1. QED
    BY <1>1, WFMin
<1>3. ASSUME NEW y \in T, y < x PROVE FALSE
  <2>1. <<y, x>> \in Nat \X Nat /\ <<y, x>>[1] = y /\ <<y, x>>[2] = x
    OBVIOUS
  <2>2. <<y, x>> \in Less
    BY <1>3, <2>1, Zenon
  <2>3. QED
    BY <1>2, <2>2, Zenon
<1>4. QED
  BY <1>3

(* Induction: a set of numbers with 0 and with every successor is Nat. *)
LEMMA Induction ==
  ASSUME NEW S \in SUBSET Nat, 0 \in S, \A n \in Nat : n \in S => n + 1 \in S
  PROVE  S = Nat
<1>1. SUFFICES ASSUME Nat \ S # {} PROVE FALSE
  OBVIOUS
<1>2. PICK x \in Nat \ S : \A y \in Nat \ S : x <= y
  BY <1>1, LeastElement
<1>3. x # 0 /\ x - 1 \in Nat
  BY <1>2
<1>4. x - 1 \in S
  BY <1>2, <1>3
<1>5. (x - 1) + 1 \in S
  BY <1>3, <1>4
<1>6. QED
  BY <1>2, <1>3, <1>5

LEMMA PowersOf2 ==
  /\ Pow2[0] = 1
  /\ \A n \in Nat : Pow2[n] \in Nat /\ Pow2[n] > 0 /\ Pow2[n + 1] = 2 * Pow2[n]
<1> DEFINE Def(g) == [n \in Nat |-> IF n = 0 THEN 1 ELSE 2 * g[n - 1]]
           Upto(n, f) == f[0] = 1 /\ \A i \in 0 .. n - 1 : f[i + 1] = 2 * f[i]
           S == {n \in Nat : \E f \in [0 .. n -> Nat] : Upto(n, f)}
           Same(n) == \A f, g : Upto(n, f) /\ Upto(n, g) => f[n] = g[n]
<1>1. S = Nat
  <2>1. 0 \in S
    <3>1. [i \in 0 .. 0 |-> 1] \in [0 .. 0 -> Nat] /\ Upto(0, [i \in 0 .. 0 |-> 1])
      OBVIOUS
    <3>2. QED
      BY <3>1
  <2>2. ASSUME NEW n \in Nat, n \in S PROVE n + 1 \in S
    <3>1. PICK f \in [0 .. n -> Nat] : Upto(n, f)
      BY <2>2
    <3> DEFINE h == [i \in 0 .. n + 1 |-> IF i = n + 1 THEN 2 * f[n] ELSE f[i]]
    <3>2. h \in [0 .. n + 1 -> Nat] /\ Upto(n + 1, h)
      BY <3>1
    <3> HIDE DEF h, Upto
    <3>3. QED
      BY <3>2
  <2> HIDE DEF S
  <2>3. S \in SUBSET Nat
    BY DEF S
  <2>4. QED
    BY <2>1, <2>2, <2>3, Induction
<1>2. \A n \in Nat : Same(n)
  <2> DEFINE Z == {n \in Nat : Same(n)}
  <2>1. 0 \in Z
    OBVIOUS
  <2>2. ASSUME NEW n \in Nat, n \in Z PROVE n + 1 \in Z
    <3>1. SUFFICES ASSUME NEW f, NEW g, Upto(n + 1, f), Upto(n + 1, g)
                   PROVE  f[n + 1] = g[n + 1]
      OBVIOUS
    <3>2. Upto(n, f) /\ Upto(n, g) /\ f[n + 1] = 2 * f[n] /\ g[n + 1] = 2 * g[n]
      BY <3>1
    <3>3. f[n] = g[n]
      BY <2>2, <3>2
    <3>4. QED
      BY <3>2, <3>3
  <2> HIDE DEF Z
  <2>3. Z \in SUBSET Nat
    BY DEF Z
  <2>4. Z = Nat
    BY <2>1, <2>2, <2>3, Induction
  <2>5. QED
    BY <2>4 DEF Z
<1> DEFINE F(n) == CHOOSE f \in [0 .. n -> Nat] : Upto(n, f)
           G == [n \in Nat |-> F(n)[n]]
<1>3. \A n \in Nat : F(n) \in [0 .. n -> Nat] /\ Upto(n, F(n))
  BY <1>1
<1> HIDE DEF F
<1>4. /\ G[0] = 1
      /\ \A n \in Nat : G[n] \in Nat /\ G[n + 1] = 2 * G[n]
  <2>1. G[0] = 1 /\ \A n \in Nat : G[n] \in Nat
    BY <1>3
  <2>2. ASSUME NEW n \in Nat PROVE G[n + 1] = 2 * G[n]
    <3>1. Upto(n + 1, F(n + 1)) /\ Upto(n, F(n))
      BY <1>3
    <3>2. Upto(n, F(n + 1)) /\ F(n + 1)[n + 1] = 2 * F(n + 1)[n]
      BY <3>1
    <3>3. F(n + 1)[n] = F(n)[n]
      <4> HIDE DEF Upto
      <4>1. QED
        BY <1>2, <3>1, <3>2
    <3>4. G[n] = F(n)[n] /\ G[n + 1] = F(n + 1)[n + 1]
      OBVIOUS
    <3>5. QED
      BY <3>2, <3>3, <3>4
  <2>3. QED
    BY <2>1, <2>2
<1>5. G = Def(G)
  <2>1. ASSUME NEW n \in Nat PROVE G[n] = (IF n = 0 THEN 1 ELSE 2 * G[n - 1])
    <3> HIDE DEF G
    <3>1. CASE n = 0
      BY <1>4, <3>1
    <3>2. CASE n # 0
      <4>1. n - 1 \in Nat /\ (n - 1) + 1 = n
        BY <3>2
      <4>2. G[(n - 1) + 1] = 2 * G[n - 1]
        BY <1>4, <4>1
      <4>3. QED
        BY <3>2, <4>1, <4>2
    <3>3. QED
      BY <3>1, <3>2
  <2>2. G = [n \in Nat |-> G[n]]
    OBVIOUS
  <2> HIDE DEF G
  <2>3. QED
    BY <2>1, <2>2
<1>6. Pow2 = Def(Pow2)
  <2> HIDE DEF G, Def
  <2>1. Pow2 = CHOOSE g : g = Def(g)
    BY Zenon DEF Pow2, Def
  <2>2. QED
    BY <1>5, <2>1, Zenon
<1>7. /\ Pow2[0] = 1
      /\ \A n \in Nat : Pow2[n + 1] = 2 * Pow2[n]
  BY <1>6
<1>8. \A n \in Nat : Pow2[n] \in Nat /\ Pow2[n] > 0
  <2> DEFINE Z == {n \in Nat : Pow2[n] \in Nat /\ Pow2[n] > 0}
  <2>1. 0 \in Z /\ \A n \in Nat : n \in Z => n + 1 \in Z
    BY <1>7
  <2>2. Z \in SUBSET Nat
    OBVIOUS
  <2> HIDE DEF Z
  <2>3. Z = Nat
    BY <2>1, <2>2, Induction
  <2>4. QED
    BY <2>3 DEF Z
<1>9. QED
  BY <1>7, <1>8

LEMMA PowersAdd == \A m, n \in Nat : Pow2[m + n] = Pow2[m] * Pow2[n]
<1>1. SUFFICES ASSUME NEW m \in Nat PROVE \A n \in Nat : Pow2[m + n] = Pow2[m] * Pow2[n]
  OBVIOUS
<1> DEFINE Z == {n \in Nat : Pow2[m + n] = Pow2[m] * Pow2[n]}
<1>2. 0 \in Z
  BY PowersOf2
<1>3. ASSUME NEW n \in Nat, n \in Z PROVE n + 1 \in Z
  <2>1. Pow2[(m + n) + 1] = 2 * Pow2[m + n] /\ Pow2[n + 1] = 2 * Pow2[n]
    BY PowersOf2
  <2>2. Pow2[m + n] = Pow2[m] * Pow2[n] /\ Pow2[m] \in Nat /\ Pow2[n] \in Nat
    BY <1>3, PowersOf2
  <2>3. m + (n + 1) = (m + n) + 1
    OBVIOUS
  <2>4. QED
    BY <2>1, <2>2, <2>3
<1>4. Z \in SUBSET Nat
  OBVIOUS
<1> HIDE DEF Z
<1>5. Z = Nat
  BY <1>2, <1>3, <1>4, Induction
<1>6. QED
  BY <1>5 DEF Z

(* Division by positive numbers. *)
LEMMA Quotient ==
  ASSUME NEW a \in Nat, NEW b \in Nat, b > 0, NEW q \in Nat, NEW r \in 0 .. b - 1,
         a = (q * b) + r
  PROVE  a \div b = q /\ a % b = r
OBVIOUS

LEMMA Division ==
  ASSUME NEW a \in Nat, NEW b \in Nat, b > 0
  PROVE  /\ a \div b \in Nat /\ a % b \in 0 .. b - 1
         /\ a = ((a \div b) * b) + (a % b)
OBVIOUS

LEMMA DivideTwice ==
  ASSUME NEW a \in Nat, NEW b \in Nat, b > 0, NEW c \in Nat, c > 0
  PROVE  (a \div b) \div c = a \div (b * c)
OBVIOUS

(* A word is determined by its bits. *)
LEMMA SameBits ==
  \A n \in Nat : \A v, w \in 0 .. Pow2[n] - 1 :
    (\A i \in 0 .. n - 1 : Bit(v, i) = Bit(w, i)) => v = w
<1> DEFINE P(n) == \A v, w \in 0 .. Pow2[n] - 1 :
                     (\A i \in 0 .. n - 1 : Bit(v, i) = Bit(w, i)) => v = w
           Z == {n \in Nat : P(n)}
<1>1. 0 \in Z
  BY PowersOf2
<1>2. ASSUME NEW n \in Nat, P(n) PROVE P(n + 1)
  <2>1. SUFFICES ASSUME NEW v \in 0 .. Pow2[n + 1] - 1, NEW w \in 0 .. Pow2[n + 1] - 1,
                        \A i \in 0 .. n : Bit(v, i) = Bit(w, i)
                 PROVE  v = w
    OBVIOUS
  <2>2. /\ Pow2[n] \in Nat /\ Pow2[n + 1] = 2 * Pow2[n]
        /\ v \in Nat /\ w \in Nat
    BY <2>1, PowersOf2
  <2>3. v \div 2 \in 0 .. Pow2[n] - 1 /\ w \div 2 \in 0 .. Pow2[n] - 1
    BY <2>1, <2>2
  <2>4. v % 2 = w % 2
    <3>1. Bit(v, 0) = v % 2 /\ Bit(w, 0) = w % 2
      BY <2>2, PowersOf2 DEF Bit
    <3>2. QED
      BY <2>1, <3>1
  <2>5. ASSUME NEW i \in 0 .. n - 1 PROVE Bit(v \div 2, i) = Bit(w \div 2, i)
    <3>1. Pow2[i] \in Nat /\ Pow2[i] > 0 /\ Pow2[i + 1] = 2 * Pow2[i]
      BY PowersOf2
    <3>2. /\ (v \div 2) \div Pow2[i] = v \div Pow2[i + 1]
          /\ (w \div 2) \div Pow2[i] = w \div Pow2[i + 1]
      BY <2>2, <3>1, DivideTwice
    <3>3. Bit(v, i + 1) = Bit(w, i + 1)
      BY <2>1
    <3>4. QED
      BY <3>2, <3>3 DEF Bit
  <2>6. v \div 2 = w \div 2
    BY <1>2, <2>3, <2>5
  <2>7. QED
    BY <2>2, <2>4, <2>6
<1> HIDE DEF P
<1>3. Z \in SUBSET Nat /\ \A n \in Nat : n \in Z => n + 1 \in Z
  BY <1>2
<1> HIDE DEF Z
<1>4. Z = Nat
  BY <1>1, <1>3, Induction
<1>5. QED
  BY <1>4 DEF Z, P

(* The mask of a prefix: all the powers of two from the host bits up. *)
LEMMA Masks ==
  ASSUME NEW p \in 0 .. Width
  PROVE  /\ Pow2[Width] = Pow2[p] * Pow2[Width - p]
         /\ prefix_mask(p) = (Pow2[p] - 1) * Pow2[Width - p]
         /\ prefix_mask(p) = Pow2[Width] - Pow2[Width - p]
         /\ prefix_mask(p) \in Word
<1> DEFINE k == Width - p
           P == Pow2[p]
           B == Pow2[k]
           W == Pow2[Width]
<1>1. Width \in Nat /\ p \in Nat /\ k \in Nat /\ p + k = Width
  BY WidthAssumption
<1>2. /\ P \in Nat /\ P > 0 /\ B \in Nat /\ B > 0 /\ W \in Nat /\ W > 0
      /\ W = P * B
  <2>1. Pow2[p + k] = P * B
    BY <1>1, PowersAdd
  <2>2. QED
    BY <1>1, <2>1, PowersOf2
<1>3. CASE p = 0
  <2>1. P = 1
    BY <1>3, PowersOf2
  <2>2. QED
    BY <1>1, <1>2, <1>3, <2>1 DEF prefix_mask, Word
<1>4. CASE p # 0
  <2> HIDE DEF P, B, W, k
  <2>1. (W - 1) * B = (B - 1) * W + (W - B)
    BY <1>2
  <2>2. W - B = (P - 1) * B /\ W >= B
    BY <1>2
  <2>3. W - B \in 0 .. W - 1 /\ B - 1 \in Nat
    BY <1>2, <2>2
  <2>4. ((W - 1) * B) % W = W - B
    <3> DEFINE a == (W - 1) * B
               q == B - 1
               r == W - B
    <3>1. a \in Nat /\ a = (q * W) + r /\ q \in Nat /\ r \in 0 .. W - 1
      BY <1>2, <2>1, <2>3
    <3> HIDE DEF a, q, r
    <3>2. a % W = r
      BY <1>2, <3>1, Quotient
    <3>3. QED
      BY <3>2 DEF a, r
  <2>5. prefix_mask(p) = W - B
    BY <1>4, <2>4 DEF prefix_mask, W, B, k
  <2>6. QED
    BY <1>2, <2>2, <2>3, <2>5 DEF P, B, W, k, Word
<1>5. QED
  BY <1>3, <1>4

LEMMA Reassociate ==
  \A x, c, y \in Nat : x * ((2 * c) * y) = (2 * (x * c)) * y + 0
BY SMTT(30)

LEMMA MaskBits ==
  ASSUME NEW p \in 0 .. Width, NEW i \in 0 .. Width - 1
  PROVE  Bit(prefix_mask(p), i) = IF i < Width - p THEN 0 ELSE 1
<1> DEFINE k == Width - p
<1>1. Width \in Nat /\ p \in Nat /\ k \in Nat /\ i \in Nat
  BY WidthAssumption
<1>2. /\ Pow2[p] \in Nat /\ Pow2[p] > 0 /\ Pow2[k] \in Nat /\ Pow2[k] > 0
      /\ Pow2[i] \in Nat /\ Pow2[i] > 0
  BY <1>1, PowersOf2
<1>3. prefix_mask(p) = (Pow2[p] - 1) * Pow2[k]
  BY Masks
<1>4. CASE i < k
  <2> DEFINE C == Pow2[(k - i) - 1]
  <2>1. (k - i) - 1 \in Nat /\ (k - i) \in Nat /\ ((k - i) - 1) + 1 = k - i /\ (k - i) + i = k
    BY <1>1, <1>4
  <2>2. C \in Nat /\ Pow2[k - i] = 2 * C
    BY <2>1, PowersOf2
  <2>3. Pow2[k] = (2 * C) * Pow2[i]
    <3>1. Pow2[(k - i) + i] = Pow2[k - i] * Pow2[i]
      BY <1>1, <2>1, PowersAdd
    <3>2. QED
      BY <2>1, <2>2, <3>1
  <2> HIDE DEF C, k
  <2> DEFINE Q == (Pow2[p] - 1) * C
  <2>4. Q \in Nat
    BY <1>2, <2>2
  <2>5. prefix_mask(p) = (2 * Q) * Pow2[i] + 0
    <3>1. Pow2[p] - 1 \in Nat
      BY <1>2
    <3>2. QED
      BY <1>2, <1>3, <2>2, <2>3, <3>1, Reassociate
  <2> HIDE DEF Q
  <2>6. prefix_mask(p) \div Pow2[i] = 2 * Q
    BY <1>2, <2>4, <2>5, Quotient
  <2>7. (2 * Q) % 2 = 0
    BY <2>4
  <2>8. QED
    BY <1>4, <2>6, <2>7 DEF Bit, k
<1>5. CASE i >= k
  <2> DEFINE j == i - k
             R == Pow2[(p - j) - 1]
  <2>1. /\ j \in Nat /\ k + j = i /\ p - j \in Nat /\ (p - j) - 1 \in Nat
        /\ ((p - j) - 1) + 1 = p - j /\ (p - j) + j = p
    BY <1>1, <1>5
  <2>2. R \in Nat /\ R > 0 /\ Pow2[p - j] = 2 * R /\ Pow2[j] \in Nat /\ Pow2[j] > 0
    BY <2>1, PowersOf2
  <2>3. Pow2[p] = (2 * R) * Pow2[j] /\ Pow2[i] = Pow2[k] * Pow2[j]
    <3>1. Pow2[(p - j) + j] = Pow2[p - j] * Pow2[j] /\ Pow2[k + j] = Pow2[k] * Pow2[j]
      BY <1>1, <2>1, PowersAdd
    <3>2. QED
      BY <2>1, <2>2, <3>1
  <2> HIDE DEF R, j, k
  <2>4. Pow2[p] - 1 = (2 * R - 1) * Pow2[j] + (Pow2[j] - 1)
    BY <2>2, <2>3
  <2>5. (Pow2[p] - 1) \div Pow2[j] = 2 * R - 1
    <3>1. /\ 2 * R - 1 \in Nat /\ Pow2[j] - 1 \in 0 .. Pow2[j] - 1
          /\ Pow2[p] - 1 \in Nat
      BY <1>2, <2>2
    <3>2. QED
      BY <2>2, <2>4, <3>1, Quotient
  <2>6. prefix_mask(p) \div Pow2[k] = Pow2[p] - 1
    <3>1. prefix_mask(p) = (Pow2[p] - 1) * Pow2[k] + 0 /\ Pow2[p] - 1 \in Nat
      BY <1>2, <1>3
    <3>2. QED
      BY <1>2, <3>1, Quotient
  <2>7. prefix_mask(p) \in Nat
    BY <1>2, <1>3
  <2>8. prefix_mask(p) \div Pow2[i] = 2 * R - 1
    BY <1>2, <2>2, <2>3, <2>5, <2>6, <2>7, DivideTwice
  <2>9. (2 * R - 1) % 2 = 1
    BY <2>2
  <2>10. QED
    BY <1>1, <1>5, <2>8, <2>9 DEF Bit, k
<1>6. QED
  BY <1>1, <1>4, <1>5

(* Masking an address rounds it down to the first of its block. *)
LEMMA MaskRounds ==
  ASSUME NEW v \in Word, NEW p \in 0 .. Width
  PROVE  BitAnd(v, prefix_mask(p)) = (v \div Pow2[Width - p]) * Pow2[Width - p]
<1> DEFINE k == Width - p
           m == prefix_mask(p)
           q == v \div Pow2[k]
           r == q * Pow2[k]
           Is(x) == \A i \in 0 .. Width - 1 : Bit(x, i) = Bit(v, i) * Bit(m, i)
<1>1. /\ Width \in Nat /\ p \in Nat /\ k \in Nat
      /\ Pow2[k] \in Nat /\ Pow2[k] > 0 /\ Pow2[Width] \in Nat
      /\ v \in Nat
  BY WidthAssumption, PowersOf2 DEF Word
<1>2. q \in Nat /\ r \in Nat /\ r <= v
  BY <1>1, Division
<1>3. r \in Word
  BY <1>1, <1>2 DEF Word
<1>4. ASSUME NEW i \in 0 .. Width - 1 PROVE Bit(r, i) = Bit(v, i) * Bit(m, i)
  <2> HIDE DEF q, r, k, m
  <2>1. /\ i \in Nat /\ Pow2[i] \in Nat /\ Pow2[i] > 0 /\ r = q * Pow2[k] + 0
        /\ Bit(v, i) \in 0 .. 1
    <3>1. i \in Nat /\ Pow2[i] \in Nat /\ Pow2[i] > 0
      BY <1>1, PowersOf2
    <3>2. v \div Pow2[i] \in Nat
      BY <1>1, <3>1, Division
    <3>3. QED
      BY <1>1, <1>2, <3>1, <3>2 DEF Bit, r
  <2>2. CASE i < k
    <3> DEFINE C == Pow2[(k - i) - 1]
    <3>1. (k - i) - 1 \in Nat /\ (k - i) \in Nat /\ ((k - i) - 1) + 1 = k - i
          /\ (k - i) + i = k
      BY <1>1, <2>1, <2>2
    <3>2. C \in Nat /\ Pow2[k - i] = 2 * C
      BY <3>1, PowersOf2
    <3>3. Pow2[k] = (2 * C) * Pow2[i]
      <4>1. Pow2[(k - i) + i] = Pow2[k - i] * Pow2[i]
        BY <2>1, <3>1, PowersAdd
      <4>2. QED
        BY <3>1, <3>2, <4>1
    <3> HIDE DEF C
    <3>4. r = (2 * (q * C)) * Pow2[i] + 0 /\ q * C \in Nat
      BY <1>1, <1>2, <2>1, <3>2, <3>3
    <3>5. r \div Pow2[i] = 2 * (q * C)
      BY <2>1, <3>4, Quotient
    <3>6. Bit(r, i) = 0
      BY <3>4, <3>5 DEF Bit
    <3>7. Bit(m, i) = 0
      BY <2>2, MaskBits DEF k, m
    <3>8. QED
      BY <2>1, <3>6, <3>7
  <2>3. CASE i >= k
    <3>1. i - k \in Nat /\ k + (i - k) = i
      BY <1>1, <2>1, <2>3
    <3>2. /\ Pow2[i] = Pow2[k] * Pow2[i - k]
          /\ Pow2[i - k] \in Nat /\ Pow2[i - k] > 0
      <4>1. Pow2[k + (i - k)] = Pow2[k] * Pow2[i - k]
        BY <1>1, <3>1, PowersAdd
      <4>2. QED
        BY <3>1, <4>1, PowersOf2
    <3>3. r \div Pow2[k] = q
      BY <1>1, <1>2, <2>1, Quotient
    <3>4. r \div Pow2[i] = q \div Pow2[i - k]
      BY <1>1, <1>2, <3>2, <3>3, DivideTwice
    <3>5. v \div Pow2[i] = q \div Pow2[i - k]
      BY <1>1, <3>2, DivideTwice DEF q
    <3>6. Bit(m, i) = 1
      BY <1>1, <2>1, <2>3, MaskBits DEF k, m
    <3>7. QED
      BY <2>1, <3>4, <3>5, <3>6 DEF Bit
  <2>4. QED
    BY <1>1, <2>1, <2>2, <2>3
<1>5. ASSUME NEW x \in Word, Is(x) PROVE x = r
  <2>1. \A i \in 0 .. Width - 1 : Bit(x, i) = Bit(r, i)
    BY <1>4, <1>5
  <2> HIDE DEF r
  <2>2. QED
    BY <1>1, <1>3, <2>1, SameBits DEF Word
<1> HIDE DEF Is, r
<1>6. Is(r)
  BY <1>4 DEF Is
<1>7. BitAnd(v, m) = CHOOSE x \in Word : Is(x)
  BY DEF BitAnd, Is
<1>8. BitAnd(v, m) = r
  BY <1>3, <1>5, <1>6, <1>7
<1>9. QED
  BY <1>8 DEF r

(* A subnet is an interval of addresses: from its address rounded down,    *)
(* which the masks compute, to the address with all host bits set.         *)
LEMMA Blocks ==
  ASSUME NEW s, s.prefix \in 0 .. Width, s.address \in Word
  PROVE  LET B == Pow2[Width - s.prefix]
         IN  /\ B \in Nat /\ B > 0
             /\ network(s) \in Word
             /\ broadcast(s) = network(s) + (B - 1)
             /\ Block(s) = network(s) .. broadcast(s)
             /\ \A a \in Word : contains(s, a) <=> a \in Block(s)
<1> DEFINE B == Pow2[Width - s.prefix]
           P == Pow2[s.prefix]
           W == Pow2[Width]
           q == s.address \div B
           n == q * B
<1>1. /\ B \in Nat /\ B > 0 /\ P \in Nat /\ W \in Nat /\ W = P * B
      /\ s.address \in Nat /\ s.address < W
  <2>1. Width \in Nat /\ s.prefix \in Nat /\ Width - s.prefix \in Nat
    BY WidthAssumption
  <2>2. W = P * B
    BY Masks
  <2>3. QED
    BY <2>1, <2>2, PowersOf2 DEF Word
<1>2. network(s) = n
  BY MaskRounds DEF network
<1>3. prefix_mask(s.prefix) = W - B
  BY Masks
<1>4. \A a \in Word : /\ BitAnd(a, prefix_mask(s.prefix)) = (a \div B) * B
                      /\ a \in Nat /\ a < W
  BY <1>1, MaskRounds DEF Word
<1>5. \A a \in Word : contains(s, a) <=> (a \div B) * B = n
  BY <1>2, <1>4 DEF contains
<1>6. \A a \in Word : a \in Block(s) <=> a \div B = q
  BY DEF Block
<1>7. Block(s) \subseteq Word
  BY DEF Block
<1> HIDE DEF B, P, W
<1>8. q \in Nat /\ n \in Nat /\ n <= s.address
  BY <1>1, Division
<1>9. n + (B - 1) < W
  <2>1. q < P
    <3>1. CASE q >= P
      <4>1. q * B >= P * B
        BY <1>1, <1>8, <3>1
      <4>2. QED
        BY <1>1, <1>8, <4>1
    <3>2. QED
      BY <1>1, <1>8, <3>1
  <2> HIDE DEF q
  <2>2. (q + 1) * B <= P * B
    BY <1>1, <1>8, <2>1
  <2>3. QED
    BY <1>1, <1>8, <2>2
<1>10. ASSUME NEW a \in Word
       PROVE  /\ (a \div B) * B = n <=> a \div B = q
              /\ a \div B = q <=> a \in n .. n + (B - 1)
  <2> DEFINE d == a \div B
  <2>1. a \in Nat /\ d \in Nat /\ a % B \in 0 .. B - 1 /\ a = (d * B) + (a % B)
    BY <1>1, <1>4, Division
  <2>2. d = q <=> a \in n .. n + (B - 1)
    <3>1. CASE d = q
      <4> HIDE DEF d, q
      <4>1. QED
        BY <1>1, <1>8, <2>1, <3>1
    <3>2. ASSUME a \in n .. n + (B - 1) PROVE d = q
      <4> DEFINE r == a - n
      <4>1. r \in 0 .. B - 1 /\ a = (q * B) + r
        BY <1>1, <1>8, <2>1, <3>2
      <4> HIDE DEF r, q
      <4>2. QED
        BY <1>1, <1>8, <2>1, <4>1, Quotient
    <3>3. QED
      BY <3>1, <3>2
  <2>3. d * B = n <=> d = q
    <3>1. CASE d < q
      <4> HIDE DEF d, q
      <4>1. QED
        BY <1>1, <1>8, <2>1, <3>1
    <3>2. CASE q < d
      <4> HIDE DEF d, q
      <4>1. QED
        BY <1>1, <1>8, <2>1, <3>2
    <3>3. QED
      BY <1>8, <2>1, <3>1, <3>2
  <2>4. QED
    BY <2>2, <2>3
<1>11. n \in Word /\ n .. n + (B - 1) \subseteq Word
  BY <1>1, <1>8, <1>9 DEF Word, W
<1>12. broadcast(s) = n + (B - 1)
  BY <1>1, <1>2, <1>3, <1>8 DEF broadcast, W
<1> HIDE DEF n, q
<1>13. Block(s) = n .. n + (B - 1)
  BY <1>6, <1>7, <1>10, <1>11
<1>14. QED
  BY <1>1, <1>2, <1>5, <1>6, <1>10, <1>11, <1>12, <1>13 DEF B

LEMMA Interval ==
  ASSUME NEW lo \in Nat, NEW B \in Nat, B > 0
  PROVE  /\ Min(lo .. lo + (B - 1)) = lo /\ Max(lo .. lo + (B - 1)) = lo + (B - 1)
         /\ Cardinality(lo .. lo + (B - 1)) = B
<1> DEFINE hi == lo + (B - 1)
<1>1. hi \in Nat /\ lo <= hi /\ (hi - lo) + 1 = B
  OBVIOUS
<1>2. Min(lo .. hi) = lo
  BY <1>1 DEF Min
<1>3. Max(lo .. hi) = hi
  BY <1>1 DEF Max
<1>4. Cardinality(lo .. hi) = B
  BY <1>1, FS_Interval
<1>5. QED
  BY <1>2, <1>3, <1>4

LEMMA HostBits ==
  ASSUME NEW p \in 0 .. Width
  PROVE  p <= Width - 2 <=> Pow2[Width - p] >= 4
<1>1. Width \in Nat /\ p \in Nat /\ Width - p \in Nat
  BY WidthAssumption
<1>2. Pow2[0] = 1 /\ Pow2[0 + 1] = 2
  BY PowersOf2
<1>3. CASE p <= Width - 2
  <2> DEFINE j == (Width - p) - 2
  <2>1. j \in Nat /\ Width - p = (j + 1) + 1
    BY <1>1, <1>3
  <2>2. Pow2[(j + 1) + 1] = 2 * Pow2[j + 1] /\ Pow2[j + 1] = 2 * Pow2[j]
        /\ Pow2[j] \in Nat /\ Pow2[j] > 0
    BY <2>1, PowersOf2
  <2>3. QED
    BY <1>3, <2>1, <2>2
<1>4. CASE p > Width - 2
  <2>1. Width - p = 0 \/ Width - p = 0 + 1
    BY <1>1, <1>4
  <2>2. QED
    BY <1>1, <1>2, <1>4, <2>1
<1>5. QED
  BY <1>1, <1>3, <1>4

(* In every configuration, whatever the width of an address: the checks of  *)
(* network_settings by masks accept exactly the networks whose gateway and *)
(* container addresses are different usable addresses of their block.      *)
THEOREM AcceptsWellFormed ==
  ASSUME NEW raw \in RawSettings
  PROVE  network_settings_ok(raw) <=> WellFormed(raw)
<1> DEFINE s == raw.subnet
           B == Pow2[Width - s.prefix]
           lo == network(s)
           hi == broadcast(s)
<1>1. /\ raw.gateway \in Word /\ raw.address \in Word
      /\ s.address \in Word /\ s.prefix \in 0 .. Width + 1
  BY DEF RawSettings
<1>2. CASE ~(s.prefix <= Width)
  BY <1>2 DEF network_settings_ok, WellFormed
<1>3. CASE s.prefix <= Width
  <2>1. s.prefix \in 0 .. Width
    BY <1>1, <1>3, WidthAssumption
  <2>2. /\ B \in Nat /\ B > 0 /\ lo \in Word /\ hi = lo + (B - 1)
        /\ Block(s) = lo .. hi
        /\ \A a \in Word : contains(s, a) <=> a \in Block(s)
    BY <1>1, <2>1, Blocks
  <2>3. lo \in Nat
    BY <2>2, PowersOf2, WidthAssumption DEF Word
  <2>4. Min(Block(s)) = lo /\ Max(Block(s)) = hi /\ Cardinality(Block(s)) = B
    BY <2>2, <2>3, Interval
  <2>5. Usable(s) = IF s.prefix <= Width - 2 THEN Block(s) \ {lo, hi} ELSE Block(s)
    BY <2>1, <2>4, HostBits DEF Usable
  <2>6. QED
    BY <1>1, <1>3, <2>2, <2>4, <2>5 DEF network_settings_ok, WellFormed
<1>4. QED
  BY <1>2, <1>3

(* Whatever the width of an address: network_settings accepts exactly the  *)
(* well-formed networks, and the masked comparison in the rules that       *)
(* install_nft_rules builds from them matches the addresses of the subnet. *)
THEOREM SettingsAreSound == Spec => []SettingsSound
<1>1. SettingsSound
  <2>1. SUFFICES ASSUME NEW raw \in RawSettings, network_settings_ok(raw), NEW a \in Word
                 PROVE  Matches(Rule("masquerade", TRUE, raw), a)
                          <=> a \in Block(raw.subnet)
    BY AcceptsWellFormed DEF SettingsSound
  <2> DEFINE s == raw.subnet
             r == Rule("masquerade", TRUE, raw)
  <2>2. /\ s.address \in Word /\ s.prefix \in 0 .. Width
        /\ s.address = network(s)
    BY <2>1, WidthAssumption DEF RawSettings, network_settings_ok
  <2>3. r.mask = prefix_mask(s.prefix) /\ r.address = s.address
    BY DEF Rule
  <2>4. contains(s, a) <=> a \in Block(s)
    BY <2>2, Blocks
  <2>5. QED
    BY <2>2, <2>3, <2>4 DEF Matches, contains
<1>2. QED
  BY <1>1, PTL
=============================================================================
