------------------------------- MODULE KcpArq --------------------------------
(***************************************************************************)
(* One direction of an mKCP connection (transport/internet/kcp): the       *)
(* SendingWorker of one end and the ReceivingWorker of the other, joined   *)
(* by UDP, which loses, duplicates and reorders packets.                   *)
(*                                                                         *)
(* A buffer is its segment number.  The SendingWindow's list is ordered by *)
(* number because Push hands the numbers out in order, so it is a set, and *)
(* so is the acknowledgement list.  Numbers wrap at 2 * (Half + 1); the    *)
(* wrapping subtractions of the code are Sub.  Timeouts, round trip times  *)
(* and fast resends only decide which segments are due: any may be.        *)
(***************************************************************************)
EXTENDS Integers, FiniteSets

CONSTANTS
  Half,          \* half of the range of a segment number, less one (0x7FFFFFFF)
  MaxPush,       \* bound: buffers pushed
  SendWindow,    \* SendingWorker.windowSize
  RecvWindow,    \* ReceivingWorker.windowSize
  InFlight,      \* Config.GetSendingInFlightSize()
  InitialNext,   \* initial remoteNextNumber (32 in the code)
  Magic,         \* factor on cwnd (20 in the code)
  AckLimit,      \* numbers in an acknowledgement (128 in the code)
  NetCap         \* bound: packets in the network; more are lost

\* Segment numbers are unsigned integers of 32 bits in the code.
Modulus == 2 * (Half + 1)

\* What the constants must satisfy: the numbers do not wrap before MaxPush.
ASSUME ArqAssumption ==
  /\ {Half, MaxPush, SendWindow, RecvWindow, InFlight, InitialNext, Magic, NetCap}
       \subseteq Nat
  /\ AckLimit \in Nat \ {0}
  /\ MaxPush + RecvWindow <= Half
  /\ InitialNext < Modulus

Numbers == 0..(MaxPush - 1)

Sub(a, b) == (a - b) % Modulus
Minimum(a, b) == IF a < b THEN a ELSE b
Maximum(a, b) == IF a < b THEN b ELSE a

VARIABLES
  cache, transmitted,            \* SendingWindow; the numbers with transmit > 0
  nextNumber, firstUnacknowledged, firstUpdated, remoteNextNumber,
  window, recvNext,              \* ReceivingWindow, ReceivingWorker.nextNumber
  acklist, dirty,                \* AckList.numbers and AckList.dirty
  net                            \* packets on their way, both directions

senderVars   == <<cache, transmitted, nextNumber, firstUnacknowledged, firstUpdated,
                  remoteNextNumber>>
receiverVars == <<window, recvNext, acklist, dirty>>
vars == <<senderVars, receiverVars, net>>

Packets ==
  [type : {"data"}, number : Numbers, sendingNext : 0..MaxPush]
    \cup [type : {"ack"}, receivingNext : 0..MaxPush, numbers : SUBSET Numbers]
    \cup [type : {"sendingPing"}, sendingNext : 0..MaxPush]
    \cup [type : {"receivingPing"}, receivingNext : 0..MaxPush]

TypeOK ==
  /\ cache \subseteq Numbers /\ transmitted \subseteq cache
  /\ nextNumber \in 0..MaxPush /\ firstUnacknowledged \in 0..MaxPush
  /\ firstUpdated \in {0, 1}
  /\ remoteNextNumber \in Nat
  /\ window \subseteq Numbers /\ recvNext \in 0..MaxPush
  /\ acklist \subseteq Numbers /\ dirty \in {0, 1}
  /\ net \subseteq Packets

Init ==
  /\ cache = {} /\ transmitted = {}
  /\ nextNumber = 0 /\ firstUnacknowledged = 0 /\ firstUpdated = 0
  /\ remoteNextNumber = InitialNext
  /\ window = {} /\ recvNext = 0
  /\ acklist = {} /\ dirty = 0
  /\ net = {}

-----------------------------------------------------------------------------
(* The network.  Of the packets written in one flush any may be lost.      *)

Transmit(packets) ==
  \E carried \in SUBSET packets :
    /\ Cardinality(net \cup carried) <= NetCap
    /\ net' = net \cup carried

\* A delivered packet may stay behind, to be delivered again later.
Take(packet) == packet \in net /\ net' \in {net, net \ {packet}}

-----------------------------------------------------------------------------
(* The sending end.                                                        *)

\* Push refuses only when the window holds more than windowSize segments.
Push ==
  /\ nextNumber < MaxPush
  /\ Cardinality(cache) <= SendWindow
  /\ cache' = cache \cup {nextNumber}
  /\ nextNumber' = nextNumber + 1
  /\ UNCHANGED <<transmitted, firstUnacknowledged, firstUpdated, remoteNextNumber,
                 receiverVars, net>>

\* FindFirstUnacknowledged after the window became w.
FindFirstUnacknowledged(w) ==
  LET first == IF w = {} THEN nextNumber ELSE CHOOSE n \in w : \A m \in w : n <= m
  IN  /\ firstUnacknowledged' = first
      /\ firstUpdated' = IF first # firstUnacknowledged THEN 1 ELSE firstUpdated

SetWindow(w) ==
  /\ cache' = w
  /\ transmitted' = transmitted \cap w
  /\ FindFirstUnacknowledged(w)

\* Mutant: una itself is cleared.
ClearedThrough(una) == {n \in cache : n > una}

\* SendingWindow.Clear(una)
Cleared(una) == {n \in cache : n >= una}

\* processAck: first <= number < nextNumber, in wrapping arithmetic.
AckInRange(number, first) ==
  /\ Sub(number, first) <= Half
  /\ Sub(number, nextNumber) >= Half

\* ProcessSegment of an acknowledgement.
ProcessAck(packet) ==
  /\ packet.type = "ack" /\ Take(packet)
  /\ remoteNextNumber' = Maximum(remoteNextNumber, (packet.receivingNext + RecvWindow) % Modulus)
  /\ LET kept  == Cleared(packet.receivingNext)
         first == IF kept = {} THEN nextNumber ELSE CHOOSE n \in kept : \A m \in kept : n <= m
     IN  SetWindow(kept \ {n \in packet.numbers : AckInRange(n, first)})
  /\ UNCHANGED <<nextNumber, receiverVars>>

\* ProcessReceivingNext of the peer's ping; it says nothing about the peer's window.
ProcessReceivingNext(packet) ==
  /\ packet.type = "receivingPing" /\ Take(packet)
  /\ SetWindow(Cleared(packet.receivingNext))
  /\ UNCHANGED <<nextNumber, remoteNextNumber, receiverVars>>

\* cwnd of SendingWorker.Flush without congestion control.
Cwnd == Magic * Minimum(InFlight, Sub(remoteNextNumber, firstUnacknowledged))

\* Flush visits the due segments in order; the limit is compared after a segment
\* is written, so one is written even when cwnd is 0.
FirstOf(due, limit) ==
  {n \in due : Cardinality({m \in due : m < n}) < Maximum(1, limit)}

DataPacket(n) == [type |-> "data", number |-> n, sendingNext |-> firstUnacknowledged]
SendingPing   == [type |-> "sendingPing", sendingNext |-> firstUnacknowledged]

FlushSending ==
  /\ firstUpdated' = 0
  /\ IF cache = {}
       THEN /\ Transmit(IF firstUpdated = 1 THEN {SendingPing} ELSE {})
            /\ UNCHANGED transmitted
       ELSE \E due \in SUBSET cache :
              /\ cache \ transmitted \subseteq due
              /\ Transmit({DataPacket(n) : n \in FirstOf(due, Cwnd)})
              /\ transmitted' = transmitted \cup FirstOf(due, Cwnd)
  /\ UNCHANGED <<cache, nextNumber, firstUnacknowledged, remoteNextNumber, receiverVars>>

\* The ping that flush sends every three seconds.
PingSending ==
  /\ Transmit({SendingPing})
  /\ UNCHANGED <<senderVars, receiverVars>>

-----------------------------------------------------------------------------
(* The receiving end.                                                      *)

\* AckList.Clear(una)
ClearAcks(una) == {n \in acklist : n >= una}

\* ProcessSegment of data: outside the window it is ignored, not acknowledged.
ProcessData(packet) ==
  /\ packet.type = "data" /\ Take(packet)
  /\ IF Sub(packet.number, recvNext) >= RecvWindow
       THEN UNCHANGED receiverVars
       ELSE /\ acklist' = ClearAcks(packet.sendingNext) \cup {packet.number}
            /\ dirty' = 1
            /\ window' = window \cup {packet.number}
            /\ UNCHANGED recvNext
  /\ UNCHANGED senderVars

\* ProcessSendingNext of the peer's ping.
ProcessSendingNext(packet) ==
  /\ packet.type = "sendingPing" /\ Take(packet)
  /\ acklist' = ClearAcks(packet.sendingNext)
  /\ dirty' = IF acklist' # acklist THEN 1 ELSE dirty
  /\ UNCHANGED <<window, recvNext, senderVars>>

\* ReadMultiBuffer: every segment without a gap is taken.
ReadMultiBuffer ==
  /\ recvNext \in window
  /\ recvNext' = CHOOSE n \in 0..MaxPush : /\ recvNext..(n - 1) \subseteq window
                                           /\ n > recvNext /\ n \notin window
  /\ window' = {n \in window : n >= recvNext'}
  /\ UNCHANGED <<acklist, dirty, senderVars, net>>

Ack(numbers) == [type |-> "ack", receivingNext |-> recvNext, numbers |-> numbers]

\* The due numbers fill segments, and in the last one there may be room for the
\* others.  A segment with only others is written if dirty says so.
AckPackets(due, full, last) ==
  {Ack(s) : s \in full} \cup
    IF ~(due \subseteq UNION full) \/ (dirty = 1 /\ full = {}) THEN {Ack(last)} ELSE {}

\* AckList.Flush
FlushReceiving ==
  /\ \E due \in SUBSET acklist :
     \E full \in SUBSET {s \in SUBSET due : Cardinality(s) = AckLimit} :
     \E last \in SUBSET (acklist \ UNION full) :
       /\ due \subseteq UNION full \cup last
       /\ Cardinality(last) = Minimum(AckLimit, Cardinality(acklist \ UNION full))
       /\ Transmit(AckPackets(due, full, last))
  /\ dirty' = 0
  /\ UNCHANGED <<window, recvNext, acklist, senderVars>>

PingReceiving ==
  /\ Transmit({[type |-> "receivingPing", receivingNext |-> recvNext]})
  /\ UNCHANGED <<senderVars, receiverVars>>

-----------------------------------------------------------------------------
Input(packet) ==
  \/ ProcessAck(packet) \/ ProcessReceivingNext(packet)
  \/ ProcessData(packet) \/ ProcessSendingNext(packet)

Next ==
  \/ Push \/ FlushSending \/ PingSending
  \/ ReadMultiBuffer \/ FlushReceiving \/ PingReceiving
  \/ \E packet \in net : Input(packet)

Spec == Init /\ [][Next]_vars

\* Delivery of a packet's last copy.
Deliver(packet) == Input(packet) /\ net' = net \ {packet}

(* Both updaters go on flushing and pinging and the application goes on    *)
(* reading.  The network is fair: a packet in flight arrives, and a        *)
(* segment, acknowledgement or ping written again and again is not lost    *)
(* every time.                                                             *)
Fairness ==
  /\ WF_vars(ReadMultiBuffer)
  /\ \A packet \in Packets : WF_vars(Deliver(packet))
  /\ \A n \in Numbers : SF_vars(FlushSending /\ n \in cache /\ DataPacket(n) \in net')
  /\ SF_vars(FlushReceiving /\ net' # net)
  /\ SF_vars(PingReceiving /\ net' # net)

FairSpec == Spec /\ Fairness

-----------------------------------------------------------------------------
Received(n) == n < recvNext \/ n \in window

(* The sender forgets a buffer only when the receiver has it: stale,       *)
(* duplicated and reordered acknowledgements and pings, and segments that  *)
(* arrive outside the receiving window, lose nothing.                      *)
NothingLost == \A n \in 0..(nextNumber - 1) : n \in cache \/ Received(n)

(* What an acknowledgement or a ping on its way says is true, however old  *)
(* it is: the numbers were received, and everything below ReceivingNext    *)
(* was read.                                                               *)
AcksAreTrue ==
  \A packet \in net :
    /\ packet.type = "ack" =>
         packet.receivingNext <= recvNext /\ \A n \in packet.numbers : Received(n)
    /\ packet.type = "receivingPing" => packet.receivingNext <= recvNext

(* AckList.Clear drops the acknowledgement of a number only when the       *)
(* sender no longer needs it: a segment held at both ends is still going   *)
(* to be acknowledged.                                                     *)
AckRemembered == \A n \in cache : n \in window => n \in acklist

(* The receiver buffers only segments of its current window, so a late     *)
(* duplicate of something already read is never kept.                      *)
WindowBounded == \A n \in window : recvNext <= n /\ n < recvNext + RecvWindow

(* The windows of both ends and what is on its way between them agree: the *)
(* sender forgets nothing that is not received, no acknowledgement is      *)
(* false, none that is needed is dropped, and nothing is received twice.   *)
KcpDelivers == NothingLost /\ AcksAreTrue /\ AckRemembered /\ WindowBounded

(* Every buffer that is pushed is read by the peer, also when the receiver *)
(* announced a window of zero and when every acknowledgement was lost.     *)
AllDelivered == \A n \in Numbers : nextNumber > n ~> recvNext > n

(* The sender learns of it: its window empties (which a connection that is *)
(* being closed waits for), although a segment received again after it was *)
(* read is not acknowledged.                                               *)
SenderDrains == cache # {} ~> cache = {}
=============================================================================
