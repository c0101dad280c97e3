------------------------------- MODULE UdpWorker -------------------------------
(***************************************************************************)
(* The UDP worker of an inbound (app/proxyman/inbound/worker.go): packets  *)
(* with the same source (and destination) belong to one connection, which  *)
(* the proxy handles in a goroutine of its own and which a periodic task   *)
(* cleans up when it stands idle.  The module follows the connections of   *)
(* one identifier; others do not interact with them.                       *)
(***************************************************************************)
EXTENDS Integers, FiniteSets

CONSTANT MaxConns    \* how many connections are made

\* What the constants must satisfy.
WorkerAssumption == MaxConns \in Nat

Conns == 1..MaxConns

VARIABLES
  made,        \* how many connections were made
  active,      \* activeConn[id], a set of at most one
  done,        \* connections that were closed
  inactive,    \* conn.inactive
  idle,        \* connections whose last activity is two minutes ago
  at,          \* at[c]: the goroutine of callback
  strayed      \* connections another one's removeConn took away (a history)

vars == <<made, active, done, inactive, idle, at, strayed>>

TypeOK ==
  /\ made \in 0..MaxConns
  /\ active \subseteq 1..made /\ Cardinality(active) <= 1
  /\ done \cup inactive \cup idle \cup strayed \subseteq 1..made
  /\ at \in [Conns -> {"off", "process", "close", "check", "remove", "returned"}]

Init ==
  /\ made = 0 /\ active = {} /\ done = {} /\ inactive = {} /\ idle = {} /\ strayed = {}
  /\ at = [c \in Conns |-> "off"]

Goto(c, to) == at' = [at EXCEPT ![c] = to]

\* callback with getConnection: the connection that is there is used again.
PacketFound ==
  /\ active # {} /\ active \cap done = {}
  /\ idle' = idle \ active
  /\ UNCHANGED <<made, active, done, inactive, at, strayed>>

\* There is none, or it is closed: a new one takes its place.
PacketNew ==
  /\ active \subseteq done
  /\ made < MaxConns
  /\ made' = made + 1
  /\ active' = {made'}
  /\ Goto(made', "process")
  /\ UNCHANGED <<done, inactive, idle, strayed>>

\* The proxy reads from or writes to the connection.
Activity(c) ==
  /\ at[c] = "process" /\ c \in idle /\ c \notin done
  /\ idle' = idle \ {c}
  /\ UNCHANGED <<made, active, done, inactive, at, strayed>>

TwoMinutes(c) ==
  /\ c <= made /\ c \notin idle
  /\ idle' = idle \cup {c}
  /\ UNCHANGED <<made, active, done, inactive, at, strayed>>

\* Process returns, on its own or because the connection was closed.
ProcessReturns(c) ==
  /\ at[c] = "process"
  /\ Goto(c, "close")
  /\ UNCHANGED <<made, active, done, inactive, idle, strayed>>

\* conn.Close().
CloseConn(c) ==
  /\ at[c] = "close"
  /\ done' = done \cup {c}
  /\ Goto(c, "check")
  /\ UNCHANGED <<made, active, inactive, idle, strayed>>

\* if !conn.inactive.
CheckInactive(c) ==
  /\ at[c] = "check"
  /\ IF c \in inactive THEN Goto(c, "returned") /\ UNCHANGED inactive
                       ELSE Goto(c, "remove") /\ inactive' = inactive \cup {c}
  /\ UNCHANGED <<made, active, done, idle, strayed>>

\* removeConn.
RemoveConn(c) ==
  /\ at[c] = "remove"
  /\ active' = {}
  /\ strayed' = strayed \cup (active \ {c})
  /\ Goto(c, "returned")
  /\ UNCHANGED <<made, done, inactive, idle>>

\* clean.
Clean ==
  LET old == active \cap idle IN
  /\ old # {}
  /\ active' = active \ (old \ inactive)
  /\ inactive' = inactive \cup old
  /\ done' = done \cup old
  /\ UNCHANGED <<made, idle, at, strayed>>

Ends(c) == CloseConn(c) \/ CheckInactive(c) \/ RemoveConn(c)

Next ==
  \/ PacketFound \/ PacketNew \/ Clean
  \/ \E c \in Conns : Activity(c) \/ TwoMinutes(c) \/ ProcessReturns(c) \/ Ends(c)

Spec == Init /\ [][Next]_vars

(* Goroutines run and the checker runs; a proxy's Process returns once the *)
(* connection is closed, since its reads fail.                             *)
Fairness ==
  /\ WF_vars(Clean)
  /\ \A c \in Conns : WF_vars(Ends(c)) /\ WF_vars(c \in done /\ ProcessReturns(c))

FairSpec == Spec /\ Fairness

-----------------------------------------------------------------------------
(* A connection that is closed gives up its place in the map.              *)
ClosedGoes == \A c \in Conns : c \in done ~> c \notin active

(* A connection that is idle for good is closed, unless another one's      *)
(* removeConn has taken it from the checker.                               *)
IdleIsClosed ==
  \A c \in Conns : <>[](c \in idle) => <>(c \in done \/ c \in strayed)

(* worker.go:342, "conn not removed by checker": what the goroutine of a   *)
(* connection then removes from the map is this connection.                *)
RemovesOwn == strayed = {}

(* An open connection is the one in the map, or was taken from there by    *)
(* another one's removeConn.                                               *)
OpenIsActive == \A c \in 1..made : c \in active \cup done \cup strayed
=============================================================================
