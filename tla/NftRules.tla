------------------------------- MODULE NftRules -------------------------------
(***************************************************************************)
(* install_nft_rules: servers that start at the same time, each with its   *)
(* own bundle directory and configuration, create the shared nftables      *)
(* table "kekkai_rt", its two chains and three rules. A start reads the    *)
(* kernel's state in five dumps, then the generation id, then sends one    *)
(* batch; the dumps of one start, the batches of others and the changes of *)
(* other programs interleave. The kernel is external, modelled by what the *)
(* code relies on: a batch is applied whole or not at all, it is refused   *)
(* with ERESTART when the generation moved, NLM_F_EXCL gives EEXIST.       *)
(***************************************************************************)
EXTENDS Subnet, SequencesExt

CONSTANTS Starts,       \* server processes that start
          Configured,   \* the networks their configurations may give
          Found,        \* what the host may hold before the first start
          MaxForeign    \* changes of the ruleset by other programs

ASSUME ForeignAssumption == MaxForeign \in Nat
ASSUME FoundAssumption == Found \subseteq {"nothing", "stamped", "old", "emptied"}

Chains == {"forward", "postrouting"}
Tags == {"ingress", "reply", "masquerade"}
TagsOf(chain) ==
  IF chain = "forward" THEN <<"ingress", "reply">> ELSE <<"masquerade">>

VARIABLES
  table,      \* the table exists
  rules,      \* the rules of each chain that exists
  genid,      \* generation of the ruleset
  pc,         \* where each start is
  settings,   \* its network settings
  view,       \* what its dumps of this attempt have shown
  gen,        \* the generation id it has read
  attempt,    \* attempts that failed before this one
  foreign,    \* changes by other programs so far
  flushed,    \* ghost: a start may have seen chains without rules
  quiet       \* ghost: nothing was removed since the attempt began

kernel == <<table, rules, genid>>
ghosts == <<foreign, flushed, quiet>>
vars == <<kernel, pc, settings, view, gen, attempt, ghosts>>

(* A rule matches packets of the masked subnet on the bridge; rules of     *)
(* versions before the user data was added carry no stamp.                 *)
Rule(tag, stamped, s) ==
  [tag |-> tag, stamped |-> stamped, bridge |-> s.bridge,
   address |-> s.subnet.address, mask |-> prefix_mask(s.subnet.prefix)]
RulesFor(chain, stamped, s) ==
  [i \in DOMAIN TagsOf(chain) |-> Rule(TagsOf(chain)[i], stamped, s)]
Matches(rule, a) == BitAnd(a, rule.mask) = rule.address

(* RuleState: how many rules the chain has, and which tags are stamped. *)
RuleState(rs) ==
  [count |-> Len(rs), managed |-> {r.tag : r \in {q \in ToSet(rs) : q.stamped}}]
DefaultRuleState == [count |-> 0, managed |-> {}]
EmptyView ==
  [table |-> FALSE, chains |-> {}, state |-> [c \in Chains |-> DefaultRuleState]]

(* What a host may look like before: nothing, the rules of an earlier      *)
(* start or of an old version, the chains without their rules.             *)
Before(kind, s) ==
  CASE kind = "nothing" -> <<>>
    [] kind = "stamped" -> [c \in Chains |-> RulesFor(c, TRUE, s)]
    [] kind = "old" -> [c \in Chains |-> RulesFor(c, FALSE, s)]
    [] kind = "emptied" -> [c \in Chains |-> <<>>]

Init ==
  /\ \E s \in Configured, kind \in Found : rules = Before(kind, s)
  /\ table = (DOMAIN rules # {})
  /\ genid = 0
  /\ pc = [p \in Starts |-> "off"]
  /\ settings = [p \in Starts |-> CHOOSE s \in Configured : TRUE]
  /\ view = [p \in Starts |-> EmptyView]
  /\ gen = [p \in Starts |-> 0]
  /\ attempt = [p \in Starts |-> 0]
  /\ foreign = 0
  /\ flushed = (rules = [c \in Chains |-> <<>>])
  /\ quiet = [p \in Starts |-> TRUE]

At(p, from, to) == pc[p] = from /\ pc' = [pc EXCEPT ![p] = to]

Working == {"table", "forward", "postrouting", "forwardRules",
            "postroutingRules", "decide", "batch"}

(* Config::load hands over the settings, or refuses them. A server that    *)
(* has ended may be started again; the rules it installed are kept.        *)
Start(p) ==
  /\ pc[p] \notin Working
  /\ \E s \in Configured :
       /\ pc' = [pc EXCEPT ![p] =
                   IF network_settings_ok(s) THEN "table" ELSE "rejected"]
       /\ settings' = [settings EXCEPT ![p] = s]
  /\ attempt' = [attempt EXCEPT ![p] = 0]
  /\ view' = [view EXCEPT ![p] = EmptyView]
  /\ gen' = [gen EXCEPT ![p] = 0]
  /\ quiet' = [quiet EXCEPT ![p] = TRUE]
  /\ UNCHANGED <<kernel, foreign, flushed>>

-----------------------------------------------------------------------------
(* The dumps of install_nft_rules_once. Without a table nothing else is    *)
(* asked, without a chain not for its rules.                               *)
nft_table_exists(p) ==
  /\ At(p, "table", IF table THEN "forward" ELSE "decide")
  /\ view' = [view EXCEPT ![p] = [EmptyView EXCEPT !.table = table]]
  /\ UNCHANGED <<kernel, settings, gen, attempt, ghosts>>

nft_chain_exists(p, c, next) ==
  /\ At(p, c, next)
  /\ view' = [view EXCEPT ![p].chains = @ \cup ({c} \cap DOMAIN rules)]
  /\ UNCHANGED <<kernel, settings, gen, attempt, ghosts>>

nft_rule_state(p, c, here, next) ==
  /\ At(p, here, next)
  /\ view' = [view EXCEPT ![p].state[c] =
                IF c \in view[p].chains \cap DOMAIN rules
                THEN RuleState(rules[c]) ELSE DefaultRuleState]
  /\ UNCHANGED <<kernel, settings, gen, attempt, ghosts>>

Dump(p) ==
  \/ nft_table_exists(p)
  \/ nft_chain_exists(p, "forward", "postrouting")
  \/ nft_chain_exists(p, "postrouting", "forwardRules")
  \/ nft_rule_state(p, "forward", "forwardRules", "postroutingRules")
  \/ nft_rule_state(p, "postrouting", "postroutingRules", "decide")

(* A slip: unstamped rules of an older version do not count. *)
MutShouldAdd(state, tag) == tag \notin state.managed

(* A missing stamp is a missing rule unless the chain is as full as an     *)
(* older version left it: there the rules come in the order of TagsOf.     *)
should_add_rule(state, tag) ==
  /\ tag \notin state.managed
  /\ IF state.managed = {}
     THEN IF tag = "reply" THEN state.count < 2 ELSE state.count = 0
     ELSE state.count < (IF tag = "masquerade" THEN 1 ELSE 2)

Missing(v, c) ==
  LET add(tag) == IF should_add_rule(v.state[c], tag) THEN <<tag>> ELSE <<>>
  IN  IF c = "forward" THEN add("ingress") \o add("reply") ELSE add("masquerade")

(* A slip: the rules of chains that exist are not looked at. *)
MutNothingToDo(v) == v.table /\ v.chains = Chains

NothingToDo(v) ==
  v.table /\ v.chains = Chains /\ \A c \in Chains : Missing(v, c) = <<>>

AlreadyInstalled(p) ==
  /\ At(p, "decide", "ok")
  /\ NothingToDo(view[p])
  /\ UNCHANGED <<kernel, settings, view, gen, attempt, ghosts>>

latest_nft_generation_id(p) ==
  /\ At(p, "decide", "batch")
  /\ ~NothingToDo(view[p])
  /\ gen' = [gen EXCEPT ![p] = genid]
  /\ UNCHANGED <<kernel, settings, view, attempt, ghosts>>

-----------------------------------------------------------------------------
(* The batch. Its messages: the table and the chains the dumps did not     *)
(* show, each to be created anew, then the missing rules, appended.        *)
BatchErrors(p) ==
  LET v == view[p] IN
  CASE gen[p] # genid -> {"ERESTART"}
    [] gen[p] = genid /\ table /\ (~v.table \/ DOMAIN rules \ v.chains # {})
         -> {"EEXIST"}
    [] gen[p] = genid /\ ~table /\ v.table -> {"ENOENT"}
    [] OTHER -> IF \E c \in v.chains \ DOMAIN rules : Missing(v, c) # <<>>
                THEN {"ENOENT"} ELSE {}

Commit(p) ==
  /\ At(p, "batch", "ok")
  /\ BatchErrors(p) = {}
  /\ table' = TRUE
  /\ rules' = [c \in Chains |->
                 (IF c \in DOMAIN rules THEN rules[c] ELSE <<>>)
                   \o [i \in DOMAIN Missing(view[p], c) |->
                         Rule(Missing(view[p], c)[i], TRUE, settings[p])]]
  /\ genid' = genid + 1
  /\ UNCHANGED <<settings, view, gen, attempt, ghosts>>

is_retryable_nft_error(error) == error \in {"EEXIST", "ERESTART"}

(* A slip: the state is read again only once. *)
MutAttempts == 2
Attempts == 3

(* install_nft_rules: the first attempts are repeated on EEXIST and        *)
(* ERESTART, from the first dump on.                                       *)
Retry(p) ==
  /\ At(p, "batch", "table")
  /\ attempt[p] < Attempts - 1
  /\ \E e \in BatchErrors(p) : is_retryable_nft_error(e)
  /\ attempt' = [attempt EXCEPT ![p] = @ + 1]
  /\ quiet' = [quiet EXCEPT ![p] = TRUE]
  /\ UNCHANGED <<kernel, settings, view, gen, foreign, flushed>>

GiveUp(p) ==
  /\ At(p, "batch", "raced")
  /\ attempt[p] >= Attempts - 1
  /\ \E e \in BatchErrors(p) : is_retryable_nft_error(e)
  /\ UNCHANGED <<kernel, settings, view, gen, attempt, ghosts>>

Refused(p) ==
  /\ At(p, "batch", "refused")
  /\ \E e \in BatchErrors(p) : ~is_retryable_nft_error(e)
  /\ UNCHANGED <<kernel, settings, view, gen, attempt, ghosts>>

(* Every netlink request may fail for a reason of its own: no permission,  *)
(* no memory, no nf_tables. `?` ends the start.                            *)
NetlinkFails(p) ==
  /\ pc[p] \in Working
  /\ pc' = [pc EXCEPT ![p] = "failed"]
  /\ UNCHANGED <<kernel, settings, view, gen, attempt, ghosts>>

-----------------------------------------------------------------------------
(* Other programs: a change elsewhere in the ruleset, `nft delete table`   *)
(* and `nft flush table` on the runtime's own.                             *)
Foreign(t, r) ==
  /\ foreign < MaxForeign
  /\ foreign' = foreign + 1
  /\ table' = t
  /\ rules' = r
  /\ genid' = genid + 1
  /\ UNCHANGED <<pc, settings, view, gen, attempt>>

Unrelated == Foreign(table, rules) /\ UNCHANGED <<flushed, quiet>>

DeleteTable ==
  /\ table
  /\ Foreign(FALSE, <<>>)
  /\ quiet' = [p \in Starts |-> FALSE]
  /\ flushed' = (flushed \/ \E p \in Starts : pc[p] \in Working)

FlushTable ==
  /\ table
  /\ Foreign(TRUE, [c \in DOMAIN rules |-> <<>>])
  /\ quiet' = [p \in Starts |-> FALSE]
  /\ flushed' = TRUE

install_nft_rules(p) ==
  \/ Dump(p)
  \/ AlreadyInstalled(p)
  \/ latest_nft_generation_id(p)
  \/ Commit(p)
  \/ Retry(p)
  \/ GiveUp(p)
  \/ Refused(p)
  \/ NetlinkFails(p)

Next ==
  \/ \E p \in Starts : Start(p) \/ install_nft_rules(p)
  \/ Unrelated
  \/ DeleteTable
  \/ FlushTable

Spec == Init /\ [][Next]_vars

-----------------------------------------------------------------------------
Occurrences(tag) ==
  {o \in UNION {{c} \X DOMAIN rules[c] : c \in DOMAIN rules} :
     rules[o[1]][o[2]].tag = tag}

(* However the starts interleave, and whatever version installed the rules *)
(* first, no rule is appended twice. The dumps are older than the          *)
(* generation id that guards the batch (linux.rs:381), so this rests on    *)
(* NLM_F_EXCL: chains without their rules are the exception, flushed by    *)
(* another program or deleted under a start's dumps. There two starts can  *)
(* both append.                                                            *)
NoDuplicates ==
  flushed \/ \A tag \in Tags : Cardinality(Occurrences(tag)) <= 1

(* A start that got Ok, by its own batch or because its dumps showed       *)
(* everything, finds the table, both chains and the three rules in place,  *)
(* unless another program removed some since the attempt began.            *)
OkMeansInstalled ==
  \A p \in Starts :
    pc[p] = "ok" /\ quiet[p] =>
      table /\ \A tag \in Tags : Occurrences(tag) # {}

(* Starts alone never make each other fail: the three attempts run out     *)
(* only if other programs changed the ruleset at least twice, or once by   *)
(* taking rules from under a start, and an error that is not repeated      *)
(* means that something was removed under this start.                      *)
FailureExplained ==
  \A p \in Starts :
    /\ pc[p] = "raced" => foreign >= (IF flushed THEN 1 ELSE 2)
    /\ pc[p] = "refused" => ~quiet[p]

(* README.md, "multiple instances must still use non-conflicting           *)
(* configured network addresses": when two instances with disjoint subnets *)
(* are up, both starts having got Ok, each has its container's address     *)
(* translated. Rules are recognised by their user data (linux.rs:564),     *)
(* whatever bridge and subnet they match.                                  *)
ServesOwnSubnet ==
  \A p, q \in Starts :
    /\ pc[p] = "ok" /\ quiet[p] /\ pc[q] = "ok" /\ quiet[q]
    /\ Block(settings[p].subnet) \cap Block(settings[q].subnet) = {}
    => \E c \in Chains : \E r \in ToSet(rules[c]) :
         r.tag = "masquerade" /\ Matches(r, settings[p].address)

(* Whatever network the first start is given: network_settings accepts     *)
(* exactly the well-formed ones, for every prefix length from 0 to beyond  *)
(* the last, and the masked comparison in the rules it would install       *)
(* matches exactly the addresses of the subnet.                            *)
SettingsSound ==
  (\A p \in Starts : pc[p] = "off") => \A raw \in RawSettings :
    /\ network_settings_ok(raw) <=> WellFormed(raw)
    /\ network_settings_ok(raw) =>
         \A a \in Word : Matches(Rule("masquerade", TRUE, raw), a)
                           <=> a \in Block(raw.subnet)
=============================================================================
