-------------------------------- MODULE Router --------------------------------
(***************************************************************************)
(* The table of routing rules (app/router/router.go).  ReloadRules and     *)
(* RemoveRule, which the API calls while the instance runs, change it      *)
(* under a lock that PickRoute does not take: for every connection the     *)
(* dispatcher walks through the table as it finds it, once, or twice when  *)
(* the rules are tried again with the addresses of the domain.             *)
(*                                                                         *)
(* rules is a slice, which two words describe: an array and a length.  A   *)
(* walk loads the one and the other, in either order, and a change may     *)
(* come between; where that makes it read what is no rule, it panics.      *)
(***************************************************************************)
EXTENDS Integers, Sequences, SequencesExt

CONSTANTS
  Configs,      \* what ReloadRules is called with
  FirstConfig,  \* what Init was called with
  Strategy,     \* domainStrategy: "AsIs", "IpIfNonMatch" or "IpOnDemand"
  Skips,        \* whether there is no domain, or it must not be resolved
  RuleTags,     \* what RemoveRule is called with
  Pickers,      \* goroutines that call PickRoute
  MaxChanges    \* bound of the model: changes of the table

\* What the constants must satisfy; a rule matches always, with addresses, or never.
RouterAssumption ==
  /\ Strategy \in {"AsIs", "IpIfNonMatch", "IpOnDemand"} /\ MaxChanges \in Nat
  /\ \A c \in Configs \cup {FirstConfig} :
       /\ {c.append} \subseteq BOOLEAN
       /\ \A r \in Range(c.rules) : r.when \in {"always", "ip", "never"}

VARIABLES
  arrays,     \* the arrays of rules, numbered as they are made
  rules,      \* r.rules: an array and a length
  balancers,  \* the tags in r.balancers
  reload,     \* the ReloadRules under way: what it has still to add
  changes,    \* changes so far; a rule is the n-th of change c
  table,      \* the rules after the last change that is complete (a history)
  target,     \* the rules after the one under way (a history)
  pick        \* pick[p]: a call of PickRoute

vars == <<arrays, rules, balancers, reload, changes, table, target, pick>>

Idle == [busy |-> FALSE, replaces |-> FALSE, todo |-> <<>>]
Walk == [ptr |-> 0, len |-> -1, i |-> 1]
NoPick ==
  [pc |-> "idle", skip |-> FALSE, ips |-> FALSE, walk |-> Walk, rule |-> {},
   seen |-> {}, blurred |-> FALSE]   \* histories: tables since the call, and whether none was whole

-----------------------------------------------------------------------------
(* The table.                                                              *)

\* The rules of a configuration as objects.
Made(c, n) ==
  [i \in DOMAIN c.rules |-> [of |-> <<n, i>>, when |-> c.rules[i].when,
                             ruleTag |-> c.rules[i].ruleTag, balancer |-> c.rules[i].balancer]]

RuleExists(rs, tag) == tag # "" /\ \E r \in Range(rs) : r.ruleTag = tag

\* The tags of balancers in the order in which they are built, up to the first
\* that is in the map already.
Built(map, tags) ==
  LET ok == {k \in 0..Len(tags) : \A i \in 1..k :
               tags[i] \notin map \cup {tags[j] : j \in 1..i - 1}}
  IN SubSeq(tags, 1, CHOOSE k \in ok : \A j \in ok : j <= k)

\* What is refused of a rule to be added to rs.
Refused(rs, map, r) == RuleExists(rs, r.ruleTag) \/ (r.balancer # "" /\ r.balancer \notin map)

\* The table once all of todo is added, up to the first that is refused.
Final(rs, map, todo) ==
  FoldLeft(LAMBDA acc, r : IF acc.stop \/ Refused(acc.rules, map, r)
                             THEN [acc EXCEPT !.stop = TRUE]
                             ELSE [acc EXCEPT !.rules = Append(@, r)],
           [rules |-> rs, stop |-> FALSE], todo).rules

Init ==
  /\ arrays = <<[cap |-> Len(FirstConfig.rules), items |-> Made(FirstConfig, 0)]>>
  /\ rules = [ptr |-> 1, len |-> Len(FirstConfig.rules)]
  /\ balancers = Range(FirstConfig.balancers)
  /\ reload = Idle /\ changes = 0
  /\ table = Made(FirstConfig, 0) /\ target = Made(FirstConfig, 0)
  /\ pick = [p \in Pickers |-> NoPick]

Current == SubSeq(arrays[rules.ptr].items, 1, rules.len)

\* A change begins, after which the rules will be t: calls of PickRoute may see it.
Begins(t, replaces) ==
  /\ changes < MaxChanges /\ ~reload.busy
  /\ changes' = changes + 1
  /\ target' = t
  /\ pick' = [p \in Pickers |-> IF pick[p].pc \in {"idle", "done", "panic"} THEN pick[p]
                                ELSE [pick[p] EXCEPT !.seen = @ \cup {t},
                                                     !.blurred = @ \/ replaces]]

\* ReloadRules, up to its loop over the rules: the lock, a new table unless the
\* rules are to be appended, and the balancers.
ReloadRules(c) ==
  LET old == IF c.append THEN Current ELSE <<>>
      map == IF c.append THEN balancers ELSE {}
      built == Built(map, c.balancers)
      todo == IF built = c.balancers THEN Made(c, changes + 1) ELSE <<>>
  IN /\ Begins(Final(old, map \cup Range(built), todo), ~c.append)
     /\ reload' = [busy |-> TRUE, replaces |-> ~c.append, todo |-> todo]
     /\ balancers' = map \cup Range(built)
     /\ IF c.append
          THEN UNCHANGED <<arrays, rules>>
          ELSE /\ arrays' = Append(arrays, [cap |-> Len(c.rules), items |-> <<>>])
               /\ rules' = [ptr |-> Len(arrays) + 1, len |-> 0]
     /\ UNCHANGED table

\* The room of an array that append has made for n elements.
Room(n) == CHOOSE c \in {0, 1, 2, 4, 8} : c >= n /\ c < 2 * n + (IF n = 0 THEN 1 ELSE 0)

\* append(r.rules, rr): in place while there is room, else in a larger array.
AppendRule(r) ==
  LET a == arrays[rules.ptr]
  IN IF rules.len < a.cap
       THEN /\ arrays' = [arrays EXCEPT ![rules.ptr].items = Append(SubSeq(@, 1, rules.len), r)]
            /\ rules' = [rules EXCEPT !.len = @ + 1]
       ELSE /\ arrays' = Append(arrays, [cap |-> Room(rules.len + 1), items |-> Append(Current, r)])
            /\ rules' = [ptr |-> Len(arrays) + 1, len |-> rules.len + 1]

\* One round of the loop, or the end of ReloadRules with or without an error.
AddNext ==
  /\ reload.busy
  /\ IF reload.todo = <<>> \/ Refused(Current, balancers, Head(reload.todo))
       THEN /\ reload' = Idle
            /\ table' = Current
            /\ UNCHANGED <<arrays, rules>>
       ELSE /\ AppendRule(Head(reload.todo))
            /\ reload' = [reload EXCEPT !.todo = Tail(@)]
            /\ UNCHANGED table
  /\ UNCHANGED <<balancers, changes, target, pick>>

\* RemoveRule: the other rules in a new array.
RemoveRule(tag) ==
  LET kept == SelectSeq(Current, LAMBDA r : r.ruleTag # tag)
  IN /\ tag # ""
     /\ Begins(kept, FALSE)
     /\ arrays' = Append(arrays, [cap |-> Room(Len(kept)), items |-> kept])
     /\ rules' = [ptr |-> Len(arrays) + 1, len |-> Len(kept)]
     /\ table' = kept
     /\ UNCHANGED <<balancers, reload>>

-----------------------------------------------------------------------------
(* PickRoute.                                                              *)

\* The call, with addresses at hand if the strategy is IpOnDemand.
PickRoute(p) ==
  /\ pick[p].pc = "idle"
  /\ \E skip \in Skips :
       pick' = [pick EXCEPT ![p] = [NoPick EXCEPT
                  !.pc = "load", !.skip = skip, !.ips = (Strategy = "IpOnDemand" /\ ~skip),
                  !.seen = {table, target}, !.blurred = reload.replaces]]
  /\ UNCHANGED <<arrays, rules, balancers, reload, changes, table, target>>

\* range r.rules: its two words, one after the other.
Load(p) ==
  /\ pick[p].pc = "load"
  /\ \E word \in {"ptr", "len"} :
       /\ pick[p].walk[word] = Walk[word]
       /\ LET w == [pick[p].walk EXCEPT ![word] = rules[word]]
          IN pick' = [pick EXCEPT ![p].walk = w,
                        ![p].blurred = @ \/ \E x \in {"ptr", "len"} : w[x] \notin {Walk[x], rules[x]},
                        ![p].pc = IF w.ptr # 0 /\ w.len # -1 THEN "apply" ELSE "load"]
  /\ UNCHANGED <<arrays, rules, balancers, reload, changes, table, target>>

Apply(r, ips) == r.when = "always" \/ (r.when = "ip" /\ ips)

\* One round of the loop.
ApplyRule(p) ==
  LET w == pick[p].walk
      items == arrays[w.ptr].items
  IN /\ pick[p].pc = "apply" /\ w.i <= w.len
     /\ pick' = IF w.i > Len(items) THEN [pick EXCEPT ![p].pc = "panic"]
                ELSE IF Apply(items[w.i], pick[p].ips)
                  THEN [pick EXCEPT ![p].pc = "done", ![p].rule = {items[w.i]}]
                ELSE [pick EXCEPT ![p].walk.i = @ + 1]
     /\ UNCHANGED <<arrays, rules, balancers, reload, changes, table, target>>

\* No rule applies: the addresses are asked for and the rules tried again, or ErrNoClue.
NoneApplies(p) ==
  /\ pick[p].pc = "apply" /\ pick[p].walk.i > pick[p].walk.len
  /\ pick' = IF Strategy # "IpIfNonMatch" \/ pick[p].skip \/ pick[p].ips
               THEN [pick EXCEPT ![p].pc = "done"]
               ELSE [pick EXCEPT ![p].pc = "load", ![p].ips = TRUE, ![p].walk = Walk]
  /\ UNCHANGED <<arrays, rules, balancers, reload, changes, table, target>>

Next ==
  \/ \E c \in Configs : ReloadRules(c)
  \/ AddNext
  \/ \E tag \in RuleTags : RemoveRule(tag)
  \/ \E p \in Pickers : PickRoute(p) \/ Load(p) \/ ApplyRule(p) \/ NoneApplies(p)

Spec == Init /\ [][Next]_vars

-----------------------------------------------------------------------------
TypeOK ==
  /\ rules.ptr \in DOMAIN arrays /\ rules.len \in 0..Len(arrays[rules.ptr].items)
  /\ \A a \in Range(arrays) : Len(a.items) <= a.cap
  /\ \A p \in Pickers : pick[p].pc \in {"idle", "load", "apply", "done", "panic"}

\* The rule a whole table gives, as a set of at most one.
FirstOf(t, ips) ==
  LET hits == {i \in DOMAIN t : Apply(t[i], ips)}
  IN {t[i] : i \in {j \in hits : \A k \in hits : j <= k}}

(* PickRoute takes no lock and may see half of a reload, or the words of   *)
(* two slices.  A rule it returns is nevertheless the one that a whole     *)
(* table gives, one that was in force or being loaded during the call; and *)
(* when it finds none, no table was being replaced and the words were of   *)
(* one slice, one of those tables has none for it.                         *)
PickIsOfATable ==
  \A p \in Pickers : pick[p].pc = "done" =>
    IF pick[p].rule # {}
      THEN \E t \in pick[p].seen : pick[p].rule = FirstOf(t, pick[p].ips)
      ELSE pick[p].blurred \/ \E t \in pick[p].seen : FirstOf(t, pick[p].ips) = {}

(* The rules at any time, a reload that failed halfway included: no two    *)
(* share a ruleTag, so that RemoveRule removes one, and the balancer of    *)
(* each is in the map that the API sets overrides in.                      *)
RulesAreDistinct ==
  /\ \A i, j \in 1..rules.len : Current[i].ruleTag = Current[j].ruleTag => i = j \/ Current[i].ruleTag = ""
  /\ \A i \in 1..rules.len : Current[i].balancer \in balancers \cup {""}
================================================================================
