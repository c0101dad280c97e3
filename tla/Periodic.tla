------------------------------- MODULE Periodic -------------------------------
(***************************************************************************)
(* task.Periodic (common/task/periodic.go) as the sweeper of a table: the  *)
(* owner puts an entry into the table and calls Start; Execute removes     *)
(* what has expired and returns an error when the table is empty, which    *)
(* ends the task.  The DNS cache (app/dns/cache_controller.go), the        *)
(* pending DNS requests and the subscribers of common/signal/pubsub are    *)
(* swept in this way.                                                      *)
(***************************************************************************)
EXTENDS Integers

CONSTANTS
  Owners,      \* goroutines that put entries into the table
  MaxPuts,     \* how many entries an owner puts; unbounded if Forever
  Forever

\* What the constants must satisfy.
PeriodicAssumption == MaxPuts \in Nat /\ Forever \in BOOLEAN

Timers == {"t1", "t2"}     \* goroutines of time.AfterFunc
Goroutines == Owners \cup Timers

VARIABLES
  table,     \* owners whose entry is in the table
  expired,   \* those whose entry has expired
  running,   \* t.running
  armed,     \* AfterFuncs that are pending
  at,        \* at[g]
  puts       \* puts[o]

vars == <<table, expired, running, armed, at, puts>>

TypeOK ==
  /\ expired \subseteq table /\ table \subseteq Owners
  /\ running \in BOOLEAN /\ armed \in Nat
  /\ at \in [Goroutines -> {"off", "start", "execute", "failed", "rearm"}]
  /\ puts \in [Owners -> 0..MaxPuts]

Init ==
  /\ table = {} /\ expired = {}
  /\ running = FALSE /\ armed = 0
  /\ at = [g \in Goroutines |-> "off"]
  /\ puts = [o \in Owners |-> 0]

Goto(g, to) == at' = [at EXCEPT ![g] = to]

\* updateIP, addPendingRequest, Subscribe, up to the unlock.
Put(o) ==
  /\ at[o] = "off"
  /\ IF Forever THEN UNCHANGED puts
                ELSE puts[o] < MaxPuts /\ puts' = [puts EXCEPT ![o] = @ + 1]
  /\ table' = table \cup {o} /\ expired' = expired \ {o}
  /\ Goto(o, "start")
  /\ UNCHANGED <<running, armed>>

Expire(o) ==
  /\ o \in table \ expired
  /\ expired' = expired \cup {o}
  /\ UNCHANGED <<table, running, armed, at, puts>>


\* Start.
Start(o) ==
  /\ at[o] = "start"
  /\ IF running THEN Goto(o, "off") /\ UNCHANGED running
                ELSE Goto(o, "execute") /\ running' = TRUE
  /\ UNCHANGED <<table, expired, armed, puts>>

\* The AfterFunc; nobody closes the task, so that hasClosed is false.
Tick(g) ==
  /\ armed > 0 /\ at[g] = "off"
  /\ armed' = armed - 1
  /\ Goto(g, "execute")
  /\ UNCHANGED <<table, expired, running, puts>>

\* Execute: CacheCleanup.
Execute(g) ==
  /\ at[g] = "execute"
  /\ table' = table \ expired /\ expired' = {}
  /\ Goto(g, IF table = {} THEN "failed" ELSE "rearm")
  /\ UNCHANGED <<running, armed, puts>>

\* Execute returned an error.
Fail(g) ==
  /\ at[g] = "failed"
  /\ running' = FALSE
  /\ Goto(g, "off")
  /\ UNCHANGED <<table, expired, armed, puts>>

\* time.AfterFunc.
Rearm(g) ==
  /\ at[g] = "rearm"
  /\ armed' = IF running THEN armed + 1 ELSE armed
  /\ Goto(g, "off")
  /\ UNCHANGED <<table, expired, running, puts>>

Sweep(g) == Execute(g) \/ Fail(g) \/ Rearm(g)

Next ==
  \/ \E o \in Owners : Put(o) \/ Expire(o) \/ Start(o)
  \/ \E g \in Timers : Tick(g)
  \/ \E g \in Goroutines : Sweep(g)

Spec == Init /\ [][Next]_vars

(* Goroutines run and timers expire; entries expire; an owner that is      *)
(* Forever puts again and again.                                           *)
Fairness ==
  /\ \A o \in Owners : WF_vars(Start(o)) /\ WF_vars(Expire(o))
  /\ \A o \in Owners : Forever => WF_vars(Put(o))
  /\ WF_vars(\E g \in Timers : Tick(g))
  /\ \A g \in Goroutines : WF_vars(Sweep(g))

FairSpec == Spec /\ Fairness

-----------------------------------------------------------------------------
\* The goroutines that execute the task and go on with it.
Chain == {g \in Goroutines : at[g] \in {"execute", "rearm"}}

(* However many owners start it at once, the task has one chain of         *)
(* executions, a pending AfterFunc or a goroutine, and none unless it says *)
(* that it runs.                                                           *)
OneChain ==
  /\ armed <= 1 /\ \A g, h \in Chain : g = h
  /\ armed = 0 \/ Chain = {}
  /\ ~running => armed = 0 /\ Chain = {}

(* While entries keep being put, a table with something in it is swept.    *)
Swept == table # {} ~> \E g \in Goroutines : at[g] = "execute"

(* cache_controller.go:41, "CacheCleanup clears expired items from cache". *)
ExpiredIsCleared == \A o \in Owners : o \in expired ~> o \notin expired
=============================================================================
