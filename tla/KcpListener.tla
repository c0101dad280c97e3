------------------------------ MODULE KcpListener -----------------------------
(***************************************************************************)
(* The listener of mKCP (transport/internet/kcp/listener.go) on its UDP    *)
(* hub (transport/internet/udp/hub.go): the hub reads packets into a       *)
(* bounded channel, one goroutine of the listener takes them from there    *)
(* and gives them to the connection they are of, which the first one       *)
(* makes, and connections that have terminated take themselves out of the  *)
(* table.  What a connection does with its packets is KcpState.            *)
(***************************************************************************)
EXTENDS Integers, Sequences

CONSTANTS
  Ids,        \* ConnectionIDs: remote address, port and conversation
  Capacity,   \* of the hub's channel
  MaxConns,   \* bound of the model: connections that are made
  Twice,      \* two goroutines of a connection may enter StateTerminated
  MayClose    \* the listener may be closed

\* What the constants must satisfy.
ListenerAssumption == Capacity \in Nat \ {0} /\ MaxConns \in Nat

VARIABLES
  open,       \* the hub's socket
  cache,      \* the hub's channel
  ended,      \* the channel is closed
  hand,       \* the packets handlePackets has taken and not yet handled, one or none
  sessions,   \* sessions[i]: the connection under an id; 0: none
  conns,      \* connections in the order they were made
  closing     \* Close: "no", "hub" (the hub is closed) or "done"

vars == <<open, cache, ended, hand, sessions, conns, closing>>

\* A packet: an id, and whether its first segment is a terminate command.
Packets == [id : Ids, terminate : BOOLEAN]

Init ==
  /\ open = TRUE /\ cache = <<>> /\ ended = FALSE /\ hand = <<>>
  /\ sessions = [i \in Ids |-> 0] /\ conns = <<>>
  /\ closing = "no"

-----------------------------------------------------------------------------
(* Hub.start.                                                              *)

\* A packet that finds the channel full is dropped.
Arrive(p) ==
  /\ open /\ ~ended
  /\ Len(cache) < Capacity
  /\ cache' = Append(cache, p)
  /\ UNCHANGED <<open, ended, hand, sessions, conns, closing>>

\* The read fails.
HubEnds ==
  /\ ~open /\ ~ended
  /\ ended' = TRUE
  /\ UNCHANGED <<open, cache, hand, sessions, conns, closing>>

-----------------------------------------------------------------------------
\* handlePackets.
Take ==
  /\ cache # <<>> /\ hand = <<>>
  /\ hand' = <<Head(cache)>> /\ cache' = Tail(cache)
  /\ UNCHANGED <<open, ended, sessions, conns, closing>>

\* terms: calls of Terminate that are under way; killed: Close made one of them.
NewConnection(i) == [id |-> i, over |-> FALSE, terms |-> 0, killed |-> FALSE]

\* OnReceive, under the lock: a packet of no connection makes one, unless it
\* terminates; Input may bring the connection to its end, in a goroutine.
OnReceive ==
  /\ hand # <<>>
  /\ LET i == Head(hand).id
     IN IF sessions[i] # 0
          THEN UNCHANGED <<sessions, conns>>
          ELSE IF Head(hand).terminate
          THEN UNCHANGED <<sessions, conns>>
          ELSE /\ Len(conns) < MaxConns
               /\ conns' = Append(conns, NewConnection(i))
               /\ sessions' = [sessions EXCEPT ![i] = Len(conns) + 1]
  /\ hand' = <<>>
  /\ UNCHANGED <<open, cache, ended, closing>>

\* SetState(StateTerminated): by a packet, by Close of its user, or by a timeout.
Terminated(c) ==
  /\ ~conns[c].over \/ (Twice /\ conns[c].terms = 1 /\ ~conns[c].killed)
  /\ conns' = [conns EXCEPT ![c].over = TRUE, ![c].terms = @ + 1]
  /\ UNCHANGED <<open, cache, ended, hand, sessions, closing>>

\* Connection.Terminate: Writer.Close removes whatever has the id.
Terminate(c) ==
  /\ conns[c].terms > 0
  /\ conns' = [conns EXCEPT ![c].terms = @ - 1]
  /\ sessions' = [sessions EXCEPT ![conns[c].id] = 0]
  /\ UNCHANGED <<open, cache, ended, hand, closing>>

-----------------------------------------------------------------------------
(* Listener.Close.                                                         *)

CloseHub ==
  /\ MayClose /\ closing = "no"
  /\ open' = FALSE /\ closing' = "hub"
  /\ UNCHANGED <<cache, ended, hand, sessions, conns>>

CloseSessions ==
  /\ closing = "hub" /\ closing' = "done"
  /\ conns' = [c \in DOMAIN conns |->
                 IF \E i \in Ids : sessions[i] = c
                 THEN [conns[c] EXCEPT !.terms = @ + 1, !.killed = TRUE] ELSE conns[c]]
  /\ UNCHANGED <<open, cache, ended, hand, sessions>>

-----------------------------------------------------------------------------
Next ==
  \/ \E p \in Packets : Arrive(p)
  \/ HubEnds \/ Take \/ OnReceive
  \/ \E c \in DOMAIN conns : Terminated(c) \/ Terminate(c)
  \/ CloseHub \/ CloseSessions

Spec == Init /\ [][Next]_vars

\* Goroutines run, and a connection nobody writes to terminates by its timeouts.
Fairness ==
  /\ WF_vars(HubEnds) /\ WF_vars(Take) /\ WF_vars(OnReceive) /\ WF_vars(CloseSessions)
  /\ \A c \in 1..MaxConns : WF_vars(c \in DOMAIN conns /\ (Terminate(c) \/ (~conns[c].over /\ Terminated(c))))
FairSpec == Spec /\ Fairness

-----------------------------------------------------------------------------
TypeOK ==
  /\ cache \in Seq(Packets) /\ Len(cache) <= Capacity /\ Len(hand) <= 1
  /\ sessions \in [Ids -> 0..Len(conns)]
  /\ closing \in {"no", "hub", "done"} /\ open = (closing = "no")

(* A connection that has not terminated is the one its packets are given   *)
(* to: no other connection of the same id is made beside it, and none that *)
(* went before takes it out of the table.                                  *)
LiveIsFound ==
  ~Twice => \A c \in DOMAIN conns :
    (~conns[c].over /\ closing = "no") => sessions[conns[c].id] = c

(* Remove deletes by id: a connection that is under an id and has ended is *)
(* about to be removed, so that the next packet finds a new one.           *)
EndedIsRemoved ==
  \A i \in Ids : sessions[i] # 0 /\ conns[sessions[i]].over => conns[sessions[i]].terms > 0

(* listener.go:149, "Already Accepted connections are not closed", which   *)
(* does not hold: Close terminates every connection of the table.          *)
AcceptedStayOpen == \A c \in DOMAIN conns : ~conns[c].killed

(* After Close the table becomes and stays empty, though packets that were *)
(* in the hub's channel may still make connections.                        *)
ClosedIsEmpty == closing # "no" ~> [](\A i \in Ids : sessions[i] = 0)
================================================================================
