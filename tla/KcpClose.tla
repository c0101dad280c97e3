------------------------------ MODULE KcpClose -------------------------------
(***************************************************************************)
(* The life of an mKCP connection (transport/internet/kcp/connection.go):  *)
(* the state machines of both ends, how they close, and what becomes of    *)
(* the data the client end still had to send.                              *)
(*                                                                         *)
(* The data path is what module KcpArq shows it to be: a window of numbers *)
(* at the client, a set of numbers received at the server, acknowledge-    *)
(* ments that are true.  The server sends no data.  Input and flush are    *)
(* one step each; the server's reader goroutine, which looks at the state, *)
(* then at the data, then at the state again, takes a step for each look.  *)
(***************************************************************************)
EXTENDS Integers, FiniteSets

CONSTANTS
  MaxPush,         \* bound: buffers the client writes
  NetCap,          \* bound: packets in the network; more are lost
  Timeouts,        \* whether the idle, linger and close timeouts may expire
  ServerMayClose   \* whether the server application closes before it sees EOF

\* What the constants must satisfy.
CloseAssumption ==
  /\ MaxPush \in Nat /\ NetCap \in Nat
  /\ Timeouts \in BOOLEAN /\ ServerMayClose \in BOOLEAN

Ends == {"client", "server"}
Peer(e) == IF e = "client" THEN "server" ELSE "client"

States == {"Active", "ReadyToClose", "PeerClosed", "Terminating", "PeerTerminating",
           "Terminated"}
Closing == {"ReadyToClose", "Terminating", "Terminated"}   \* ReadMultiBuffer gives EOF

VARIABLES
  state,       \* state[e]
  sending,     \* the client's sending window
  pushed,      \* number of buffers the client has written
  window,      \* numbers received and not yet read by the server
  read,        \* numbers below this were read
  rpc,         \* where the server's reader is
  net

vars == <<state, sending, pushed, window, read, rpc, net>>

Numbers == 0..(MaxPush - 1)
Kinds   == {"data", "ack", "ping", "terminate"}
Packets == [to : Ends, kind : Kinds, close : BOOLEAN, numbers : SUBSET Numbers]

TypeOK ==
  /\ state \in [Ends -> States]
  /\ sending \subseteq Numbers /\ pushed \in 0..MaxPush
  /\ window \subseteq Numbers /\ read \in 0..MaxPush
  /\ rpc \in {"top", "read", "check", "eof"}
  /\ net \subseteq Packets

Init ==
  /\ state = [e \in Ends |-> "Active"]
  /\ sending = {} /\ pushed = 0
  /\ window = {} /\ read = 0
  /\ rpc = "top"
  /\ net = {}

Transmit(packets) ==
  \E carried \in SUBSET packets :
    /\ Cardinality(net \cup carried) <= NetCap
    /\ net' = net \cup carried

Take(packet) == packet \in net /\ net' \in {net, net \ {packet}}

-----------------------------------------------------------------------------
(* SetState: entering any state but Active and ReadyToClose clears the     *)
(* sending window (CloseWrite).                                            *)

ClearsWindow(s) == s \in {"PeerClosed", "Terminating", "PeerTerminating", "Terminated"}

\* The sending window of end e that has gone from its state to s.
WindowIn(e, s) == IF s # state[e] /\ ClearsWindow(s) THEN {} ELSE sending

\* The state after Close().
CloseState(s) ==
  CASE s = "Active"          -> "ReadyToClose"
    [] s = "PeerClosed"      -> "Terminating"
    [] s = "PeerTerminating" -> "Terminated"
    [] OTHER                 -> s

\* The state after HandleOption and, for a terminate command, the switch in Input.
OptionState(s, close) ==
  CASE close /\ s = "ReadyToClose" -> "Terminating"
    [] close /\ s = "Active"       -> "PeerClosed"
    [] OTHER                       -> s

TerminateState(s) ==
  CASE s \in {"Active", "PeerClosed"} -> "PeerTerminating"
    [] s = "ReadyToClose"             -> "Terminating"
    [] s = "Terminating"              -> "Terminated"
    [] OTHER                          -> s

InputState(s, packet) ==
  IF packet.kind = "terminate"
    THEN TerminateState(OptionState(s, packet.close))
    ELSE OptionState(s, packet.close)

SetState(e, s) ==
  /\ state' = [state EXCEPT ![e] = s]
  /\ sending' = IF e = "client" THEN WindowIn(e, s) ELSE sending

-----------------------------------------------------------------------------
(* The applications.                                                       *)

Write ==
  /\ state["client"] = "Active"
  /\ pushed < MaxPush
  /\ sending' = sending \cup {pushed}
  /\ pushed' = pushed + 1
  /\ UNCHANGED <<state, window, read, rpc, net>>

Close(e) ==
  /\ state[e] \notin Closing
  /\ e = "server" => ServerMayClose \/ rpc = "eof"
  /\ SetState(e, CloseState(state[e]))
  /\ UNCHANGED <<pushed, window, read, rpc, net>>

\* ReadMultiBuffer in a loop until it reports EOF.
ReaderLooks ==
  /\ rpc = "top"
  /\ rpc' = IF state["server"] \in Closing THEN "eof" ELSE "read"
  /\ UNCHANGED <<state, sending, pushed, window, read, net>>

ReaderReads ==
  /\ rpc = "read"
  /\ IF read \in window
       THEN /\ read' = CHOOSE n \in 0..MaxPush : /\ read..(n - 1) \subseteq window
                                                 /\ n > read /\ n \notin window
            /\ window' = {n \in window : n >= read'}
            /\ rpc' = "top"
       ELSE rpc' = "check" /\ UNCHANGED <<read, window>>
  /\ UNCHANGED <<state, sending, pushed, net>>

\* Otherwise it waits for dataInput, at most 16 seconds, and starts again.
ReaderChecks ==
  /\ rpc = "check"
  /\ rpc' = IF state["server"] = "PeerTerminating" THEN "eof" ELSE "top"
  /\ UNCHANGED <<state, sending, pushed, window, read, net>>

-----------------------------------------------------------------------------
(* Input and flush.                                                        *)

Received == {n \in Numbers : n < read} \cup window

Input(packet) ==
  LET e == packet.to
      s == InputState(state[e], packet)
  IN  /\ state[e] # "Terminated"
      /\ Take(packet)
      /\ state' = [state EXCEPT ![e] = s]
      /\ IF e = "client"
           THEN sending' = WindowIn(e, s) \ packet.numbers /\ UNCHANGED window
           ELSE /\ UNCHANGED sending
                /\ window' = window \cup {n \in packet.numbers : n >= read}
      /\ UNCHANGED <<pushed, read, rpc>>

Packet(e, kind, s, numbers) ==
  [to |-> Peer(e), kind |-> kind, close |-> s = "ReadyToClose", numbers |-> numbers]

\* The last part of flush in state s: acknowledgements, data and a ping.
FlushedPackets(e, s) ==
  IF e = "client"
    THEN {Packet(e, "data", s, {n}) : n \in WindowIn(e, s)} \cup {Packet(e, "ping", s, {})}
    ELSE {Packet(e, "ack", s, Received), Packet(e, "ping", s, {n \in Numbers : n < read})}

PingNumbers(e) == IF e = "server" THEN {n \in Numbers : n < read} ELSE {}


WindowEmpty(e) == e = "server" \/ sending = {}


\* The state after the timeouts of PeerTerminating and, unless flush itself has
\* just entered it, of ReadyToClose.
Linger(s, entered, expired) ==
  CASE s = "PeerTerminating" /\ expired -> "Terminating"
    [] s = "ReadyToClose" /\ ~entered /\ expired -> "Terminating"
    [] OTHER -> s

\* flush, in the order of its conditions; expired tells whether the timeout that
\* runs in the present state has expired (30s idle, 15s, 8s or 4s).
Flush(e, expired) ==
  LET s1 == IF state[e] = "Active" /\ expired THEN "ReadyToClose" ELSE state[e]
      s2 == IF s1 = "ReadyToClose" /\ WindowEmpty(e) THEN "Terminating" ELSE s1
      s3 == Linger(s2, state[e] = "Active", expired)
  IN  /\ state[e] # "Terminated"
      /\ IF s2 = "Terminating"
           THEN /\ Transmit({Packet(e, "terminate", s2, PingNumbers(e))})
                /\ SetState(e, IF state[e] = "Terminating" /\ expired THEN "Terminated" ELSE s2)
           ELSE /\ Transmit(FlushedPackets(e, s3))
                /\ SetState(e, s3)
      /\ UNCHANGED <<pushed, window, read, rpc>>

-----------------------------------------------------------------------------
Next ==
  \/ Write \/ ReaderLooks \/ ReaderReads \/ ReaderChecks
  \/ \E e \in Ends : Close(e) \/ \E expired \in {FALSE, Timeouts} : Flush(e, expired)
  \/ \E packet \in net : Input(packet)

Spec == Init /\ [][Next]_vars

(* The ping updater calls flush until the connection is Terminated, and    *)
(* the time a state may last passes.                                       *)
Fairness ==
  /\ \A e \in Ends : WF_vars(Flush(e, Timeouts))
  /\ WF_vars(ReaderLooks \/ ReaderReads \/ ReaderChecks)
  /\ WF_vars(Close("server"))

FairSpec == Spec /\ Fairness

-----------------------------------------------------------------------------
(* A client that closed gives up its side (Terminating) only when all it   *)
(* wrote has arrived, as long as no timeout expires and the server does    *)
(* not close first.                                                        *)
ClosedAfterDelivery ==
  state["client"] \in {"Terminating", "Terminated"} => \A n \in 0..(pushed - 1) : n \in Received

(* The server's reader sees EOF only when everything the client wrote has  *)
(* arrived, read or not.                                                   *)
EofAfterArrival == rpc = "eof" => \A n \in 0..(pushed - 1) : n \in Received

(* buf/copy.go:110: Copy, which stops at EOF, "dumps all payload".         *)
EofAfterRead == rpc = "eof" => read = pushed

(* An end that was closed is destroyed at last, with every packet lost: no *)
(* timeout is missing on the way.                                          *)
ClosedIsDestroyed ==
  \A e \in Ends : state[e] \in Closing ~> state[e] = "Terminated"
=============================================================================
