----------------------------- MODULE Balancing ------------------------------
(***************************************************************************)
(* Balancers (app/router) and the observatory they ask                     *)
(* (app/observatory/observer.go).  The observatory probes the outbounds,   *)
(* one after the other or all at once, and writes what it finds into shared*)
(* records, field by field and under a lock; strategies read the list and  *)
(* the records without it.  A slice header that is read while it is written*)
(* may be torn, and what such a pick does then is not defined.             *)
(***************************************************************************)
EXTENDS Integers, Sequences, SequencesExt, FiniteSets, FiniteSetsExt, TLC

CONSTANTS
  Outbounds,    \* what the observatory probes: a sequence of tags, in their order
  Selections,   \* what SelectOutbounds may return: a set of sequences of tags
  Strategies,   \* "leastPing", "leastLoad", "roundRobin", "random"
  Concurrent,   \* EnableConcurrency
  Delays,       \* what a probe that succeeds may measure
  Settings,     \* of leastLoad: Expected, Baselines and MaxRTT
  Targets,      \* what SetOverrideTarget may be called with; "" removes the override
  Pickers,      \* calls of Balancer.PickOutbound
  MaxRounds     \* bound: rounds of probes

Tags == Range(Outbounds)
Dead == 99999999
Blank == [tag |-> "", alive |-> FALSE, delay |-> 0]

\* What the constants must satisfy.
BalancingAssumption ==
  /\ \A c \in Selections : Range(c) \subseteq Tags
  /\ Strategies \subseteq {"leastPing", "leastLoad", "roundRobin", "random"}
  /\ \A d \in Delays : d < Dead
  /\ "" \notin Tags

VARIABLES
  status,      \* o.status: the records, in the order of their first results
  probes,      \* the goroutine that probes an outbound: how far it is, and its result
  todo,        \* outbounds of this round whose probes have not begun
  rounds,
  finished,
  override,    \* the balancer's override
  strategy, settings,
  index,       \* of round robin
  picks,       \* calls of PickOutbound: local variables, result, and what was true meanwhile
  last,        \* what the records say of each outbound; "coming": alive, its delay not yet written
  turns        \* turns[t]: by how much t is ahead in round robin since the list has changed

vars == <<status, probes, todo, rounds, finished, override, strategy, settings, index, picks, last, turns>>

Idle == [pc |-> "idle", result |-> 0]
NewPick ==
  [pc |-> "start", cands |-> <<>>, n |-> 0, i |-> 1, found |-> <<>>, alive |-> <<>>, nodes |-> <<>>,
   tag |-> "", least |-> Dead, wasAlive |-> {}, wasDead |-> {}, overrides |-> {}]

Init ==
  /\ status = <<>>
  /\ probes = [t \in Tags |-> Idle] /\ todo = {} /\ rounds = 0 /\ finished = FALSE
  /\ override = "" /\ strategy \in Strategies
  /\ settings \in Settings
  /\ index = 0
  /\ picks = [p \in Pickers |-> NewPick]
  /\ last = [t \in Tags |-> "unknown"]
  /\ turns = [list |-> <<>>, of |-> [t \in Tags |-> 0]]

-----------------------------------------------------------------------------
(* The observatory. *)

pickVars == <<override, strategy, settings, index, picks, turns>>
Locked == \E t \in Tags : probes[t].pc \notin {"idle", "probing"}
Location(t) == {k \in 1 .. Len(status) : status[k].tag = t}
At(t) == CHOOSE k \in 1 .. Len(status) : status[k].tag = t

\* background begins a round.
Begin ==
  /\ ~finished /\ rounds < MaxRounds
  /\ todo = {} /\ \A t \in Tags : probes[t] = Idle
  /\ todo' = Tags /\ rounds' = rounds + 1
  /\ UNCHANGED <<status, probes, finished, last, pickVars>>

Probe(t) ==
  /\ t \in todo
  /\ Concurrent \/ (~finished /\ \A u \in Tags : probes[u] = Idle)
  /\ todo' = todo \ {t}
  /\ probes' = [probes EXCEPT ![t].pc = "probing"]
  /\ UNCHANGED <<status, rounds, finished, last, pickVars>>

\* updateStatusForResult takes the lock and looks for the record.
Found(t) ==
  /\ probes[t].pc = "probing" /\ ~Locked
  /\ \E d \in Delays \cup {Dead} :
       probes' = [probes EXCEPT ![t] = [pc |-> IF Location(t) = {} THEN "append" ELSE "alive", result |-> d]]
  /\ UNCHANGED <<status, todo, rounds, finished, last, pickVars>>

AppendStatus(t) ==
  /\ probes[t].pc = "append"
  /\ status' = Append(status, Blank)
  /\ probes' = [probes EXCEPT ![t].pc = "tag"]
  /\ UNCHANGED <<todo, rounds, finished, last, pickVars>>

\* The picks under way, for which an outbound has come or gone.
Noted(t, alive) ==
  [p \in Pickers |->
    IF picks[p].pc \in {"start", "done", "undefined"} THEN picks[p]
    ELSE IF alive THEN [picks[p] EXCEPT !.wasAlive = @ \cup {t}]
    ELSE [picks[p] EXCEPT !.wasDead = @ \cup {t}]]

\* A record that has a tag and no result yet says that the outbound is dead.
SetTag(t) ==
  /\ probes[t].pc = "tag"
  /\ status' = [status EXCEPT ![Len(status)].tag = t]
  /\ probes' = [probes EXCEPT ![t].pc = "alive"]
  /\ last' = [last EXCEPT ![t] = "dead"]
  /\ picks' = Noted(t, FALSE)
  /\ UNCHANGED <<todo, rounds, finished, override, strategy, settings, index, turns>>

\* Mutant: a failure changes the delay only.
SetAliveOnly(t) ==
  /\ probes[t].pc = "alive"
  /\ LET alive == probes[t].result # Dead IN
     /\ status' = [status EXCEPT ![At(t)].alive = alive \/ @]
     /\ last' = [last EXCEPT ![t] = IF alive THEN (IF @ = "alive" THEN @ ELSE "coming") ELSE "dead"]
     /\ picks' = Noted(t, alive)
  /\ probes' = [probes EXCEPT ![t].pc = "delay"]
  /\ UNCHANGED <<todo, rounds, finished, override, strategy, settings, index, turns>>

SetAlive(t) ==
  /\ probes[t].pc = "alive"
  /\ LET alive == probes[t].result # Dead IN
     /\ status' = [status EXCEPT ![At(t)].alive = alive]
     /\ last' = [last EXCEPT ![t] = IF alive THEN (IF @ = "alive" THEN @ ELSE "coming") ELSE "dead"]
     /\ picks' = Noted(t, alive)
  /\ probes' = [probes EXCEPT ![t].pc = "delay"]
  /\ UNCHANGED <<todo, rounds, finished, override, strategy, settings, index, turns>>

SetDelay(t) ==
  /\ probes[t].pc = "delay"
  /\ status' = [status EXCEPT ![At(t)].delay = probes[t].result]
  /\ probes' = [probes EXCEPT ![t] = Idle]
  /\ last' = [last EXCEPT ![t] = IF @ = "coming" THEN "alive" ELSE @]
  /\ UNCHANGED <<todo, rounds, finished, pickVars>>

Close ==
  /\ ~finished /\ finished' = TRUE
  /\ UNCHANGED <<status, probes, todo, rounds, last, pickVars>>

-----------------------------------------------------------------------------
(* The balancer. *)

obsVars == <<status, probes, todo, rounds, finished, last>>

SetOverrideTarget ==
  /\ \E target \in Targets \ {override} :
       /\ override' = target
       /\ picks' = [p \in Pickers |-> IF picks[p].pc = "override"
                                     THEN [picks[p] EXCEPT !.overrides = @ \cup {target}] ELSE picks[p]]
  /\ UNCHANGED <<obsVars, strategy, settings, index, turns>>

ByDelay == strategy \in {"leastPing", "leastLoad"}
\* An outbound without a result, which counts as alive unless delays are compared.
Unprobed(t) == last[t] = "unknown" /\ ~ByDelay

\* PickOutbound selects its candidates.
SelectOutbounds(p) ==
  /\ picks[p].pc \in {"start", "done"}
  /\ \E c \in Selections :
       picks' = [picks EXCEPT ![p] =
         [NewPick EXCEPT !.pc = "override", !.cands = c, !.overrides = {override},
                         !.wasAlive = {t \in Tags : last[t] \in {"alive", "coming"} \/ Unprobed(t)},
                         !.wasDead = {t \in Tags : last[t] # "alive" /\ ~Unprobed(t)}]]
  /\ UNCHANGED <<obsVars, override, strategy, settings, index, turns>>

GetOverride(p) ==
  /\ picks[p].pc = "override"
  /\ picks' = [picks EXCEPT ![p] = IF override # "" THEN [@ EXCEPT !.pc = "done", !.tag = override]
                                                     ELSE [@ EXCEPT !.pc = "observe"]]
  /\ UNCHANGED <<obsVars, override, strategy, settings, index, turns>>

\* Lengths at which append allocates: the length may then be seen before the array.
Grows == Len(status) \in {0, 1, 2, 4}

GetObservation(p) ==
  /\ picks[p].pc = "observe"
  /\ \/ picks' = [picks EXCEPT ![p].pc = IF ByDelay THEN "look" ELSE "index", ![p].n = Len(status)]
     \/ /\ Grows /\ \E t \in Tags : probes[t].pc = "append"
        /\ picks' = [picks EXCEPT ![p].pc = "undefined"]
  /\ UNCHANGED <<obsVars, override, strategy, settings, index, turns>>

\* leastPing and leastLoad: the tag and Alive of a record are read,
Look(p) ==
  LET k == picks[p] IN
  /\ k.pc = "look" /\ k.i <= k.n
  /\ picks' = [picks EXCEPT ![p] = IF status[k.i].alive /\ status[k.i].tag \in Range(k.cands)
                                   THEN [@ EXCEPT !.pc = "compare"] ELSE [@ EXCEPT !.i = @ + 1]]
  /\ UNCHANGED <<obsVars, override, strategy, settings, index, turns>>

\* then its Delay, to compare it,
Compare(p) ==
  LET k == picks[p]
      limit == IF strategy = "leastPing" THEN k.least
               ELSE IF settings.maxRTT = 0 THEN Dead + 1 ELSE settings.maxRTT IN
  /\ k.pc = "compare"
  /\ picks' = [picks EXCEPT ![p] = IF status[k.i].delay < limit
                                   THEN [@ EXCEPT !.pc = "take"] ELSE [@ EXCEPT !.pc = "look", !.i = @ + 1]]
  /\ UNCHANGED <<obsVars, override, strategy, settings, index, turns>>

\* and once more, to keep it.
Take(p) ==
  LET k == picks[p]
      e == status[k.i] IN
  /\ k.pc = "take"
  /\ picks' = [picks EXCEPT ![p] =
       IF strategy = "leastPing"
       THEN [@ EXCEPT !.pc = "look", !.i = @ + 1, !.tag = e.tag, !.least = e.delay]
       ELSE [@ EXCEPT !.pc = "look", !.i = @ + 1, !.nodes = Append(@, [tag |-> e.tag, cost |-> e.delay])]]
  /\ UNCHANGED <<obsVars, override, strategy, settings, index, turns>>

PickLeastPing(p) ==
  /\ strategy = "leastPing"
  /\ picks[p].pc = "look" /\ picks[p].i > picks[p].n
  /\ picks' = [picks EXCEPT ![p].pc = "done"]
  /\ UNCHANGED <<obsVars, override, strategy, settings, index, turns>>

\* leastloadSort: by cost, then by tag.
leastloadSort(nodes) ==
  LET rank(x) == CHOOSE i \in DOMAIN Outbounds : Outbounds[i] = x.tag IN
  SortSeq(nodes, LAMBDA a, b : a.cost < b.cost \/ (a.cost = b.cost /\ rank(a) < rank(b)))

(* selectLeastLoad: baseline by baseline, from where the one before has    *)
(* stopped, until there are as many as expected.                           *)
selectLeastLoad(nodes) ==
  LET n == Len(nodes)
      expected == IF settings.expected <= 0 THEN 1 ELSE settings.expected
      upTo(b, acc) ==
        IF acc >= expected THEN acc
        ELSE Max({acc} \cup {k \in acc + 1 .. n : \A i \in acc + 1 .. k : nodes[i].cost < b})
      count == FoldLeft(LAMBDA acc, b : upTo(b, acc), 0, settings.baselines) IN
  IF settings.expected > n THEN nodes
  ELSE IF settings.baselines = <<>> THEN SubSeq(nodes, 1, Min({n, expected}))
  ELSE SubSeq(nodes, 1, IF settings.expected > 0 /\ count < expected THEN expected ELSE count)

PickLeastLoad(p) ==
  /\ strategy = "leastLoad"
  /\ picks[p].pc = "look" /\ picks[p].i > picks[p].n
  /\ LET selects == selectLeastLoad(leastloadSort(picks[p].nodes)) IN
     \E tag \in IF selects = <<>> THEN {""} ELSE {selects[k].tag : k \in 1 .. Len(selects)} :
       picks' = [picks EXCEPT ![p].pc = "done", ![p].tag = tag, ![p].alive = selects]
  /\ UNCHANGED <<obsVars, override, strategy, settings, index, turns>>

\* roundRobin and random: a map from tags to records is made first,
Index(p) ==
  LET k == picks[p] IN
  /\ k.pc = "index" /\ k.i <= k.n
  /\ picks' = [picks EXCEPT ![p].i = @ + 1, ![p].found = (status[k.i].tag :> k.i) @@ @]
  /\ UNCHANGED <<obsVars, override, strategy, settings, index, turns>>

\* then Alive is read for each candidate that has a record.
CheckAlive(p) ==
  LET k == picks[p]
      c == k.cands[k.i - k.n] IN
  /\ k.pc = "index" /\ k.i > k.n /\ k.i <= k.n + Len(k.cands)
  /\ picks' = [picks EXCEPT ![p].i = @ + 1,
       ![p].alive = IF c \notin DOMAIN k.found \/ status[k.found[c]].alive THEN Append(@, c) ELSE @]
  /\ UNCHANGED <<obsVars, override, strategy, settings, index, turns>>

AllChecked(p) == picks[p].pc = "index" /\ picks[p].i > picks[p].n + Len(picks[p].cands)

PickRandom(p) ==
  /\ AllChecked(p) /\ strategy = "random"
  /\ \E tag \in IF picks[p].alive = <<>> THEN {""} ELSE Range(picks[p].alive) :
       picks' = [picks EXCEPT ![p].pc = "done", ![p].tag = tag]
  /\ UNCHANGED <<obsVars, override, strategy, settings, index, turns>>

NextIndex(n) == (index + 1) % n

\* By how much the turns of each outbound exceed the least.
Lead(of, list) == [t \in Tags |-> IF t \in list THEN of[t] - Min({of[u] : u \in list}) ELSE 0]

PickRoundRobin(p) ==
  LET list == picks[p].alive
      n == Len(list)
      tag == list[(index % n) + 1]
      counted == IF turns.list = list THEN turns.of ELSE [t \in Tags |-> 0] IN
  /\ AllChecked(p) /\ strategy = "roundRobin"
  /\ IF n = 0
     THEN /\ picks' = [picks EXCEPT ![p].pc = "done"]
          /\ UNCHANGED <<index, turns>>
     ELSE /\ index' = NextIndex(n)
          /\ picks' = [picks EXCEPT ![p].pc = "done", ![p].tag = tag]
          /\ turns' = [list |-> list, of |-> Lead([counted EXCEPT ![tag] = @ + 1], Range(list))]
  /\ UNCHANGED <<obsVars, override, strategy, settings>>

Next ==
  \/ Begin \/ Close \/ SetOverrideTarget
  \/ \E t \in Tags : Probe(t) \/ Found(t) \/ AppendStatus(t) \/ SetTag(t) \/ SetAlive(t) \/ SetDelay(t)
  \/ \E p \in Pickers :
       \/ SelectOutbounds(p) \/ GetOverride(p) \/ GetObservation(p)
       \/ Look(p) \/ Compare(p) \/ Take(p) \/ PickLeastPing(p) \/ PickLeastLoad(p)
       \/ Index(p) \/ CheckAlive(p) \/ PickRandom(p) \/ PickRoundRobin(p)

Spec == Init /\ [][Next]_vars

-----------------------------------------------------------------------------
Done(p) == picks[p].pc = "done"

(* Though records are read while they are written, an outbound that a      *)
(* strategy returns is a candidate and counted as alive at some moment of  *)
(* the pick; an empty answer, which leads to the fallback, means that every*)
(* candidate was dead at some moment of it, or that leastLoad found none   *)
(* good enough; and an override is one that was set when it was read.      *)
PickedWasAlive ==
  \A p \in Pickers : Done(p) =>
    LET k == picks[p] IN
    \/ k.tag # "" /\ k.tag \in k.overrides
    \/ k.tag \in Range(k.cands) /\ k.tag \in k.wasAlive
    \/ k.tag = "" /\ (Range(k.cands) \subseteq k.wasDead \/ strategy = "leastLoad")

(* What leastLoad selects, for all settings, against what they mean: with  *)
(* n expected, the nodes below the first baseline that at least n nodes are*)
(* below; if there is none, the n best; if none were expected, none; all,  *)
(* if there are less than expected; without baselines the n best.          *)
LoadIsRight ==
  \A p \in Pickers : Done(p) /\ strategy = "leastLoad" /\ picks[p].tag \notin picks[p].overrides \ {""} =>
    LET nodes == Range(picks[p].nodes)
        below(b) == {x \in nodes : x.cost < b}
        n == Max({1, settings.expected})
        enough == {k \in DOMAIN settings.baselines : Cardinality(below(settings.baselines[k])) >= n}
        selects == Range(picks[p].alive) IN
    /\ \A x \in selects, y \in nodes \ selects : x.cost <= y.cost
    /\ IF settings.expected > Cardinality(nodes) THEN selects = nodes
       ELSE IF settings.baselines # <<>> /\ enough # {} THEN selects = below(settings.baselines[Min(enough)])
       ELSE Cardinality(selects) = IF settings.baselines # <<>> /\ settings.expected <= 0 THEN 0
                                   ELSE Min({n, Cardinality(nodes)})

(* Round robin is fair: while the list of outbounds that are alive stays   *)
(* the same, no outbound of it is given twice more often than another,     *)
(* whatever the index was when the list became this one.                   *)
RoundIsFair ==
  \A t, u \in Range(turns.list) : turns.of[t] <= turns.of[u] + 1

=============================================================================
