------------------------------ MODULE KcpProofs -------------------------------
(***************************************************************************)
(* Proofs about the windows of mKCP, for numbers of any width, windows of  *)
(* any sizes and a network that holds any number of packets: type          *)
(* correctness, and that both ends and what is on its way between them     *)
(* agree (KcpDelivers).  A connection is followed until its numbers would  *)
(* wrap, as ArqAssumption says.  Then, for any number of them, that a      *)
(* listener's table follows its connections (KcpListener), and that a      *)
(* connection ends after all was delivered (KcpClose).                     *)
(*                                                                         *)
(* NothingLost is not inductive: that a packet may make the sender forget  *)
(* a segment is right only if what the packet says is true, what it says   *)
(* was taken from the list of acknowledgements, and that this list still   *)
(* has what the sender needs depends on the SendingNext of old packets.    *)
(* KcpInv says this of all of them.                                        *)
(***************************************************************************)
EXTENDS KcpArq, Sequences, WellFoundedInduction, TLAPS

\* The sender's window holds segments that were pushed, from firstUnacknowledged on.
SenderInv ==
  /\ firstUnacknowledged <= nextNumber
  /\ \A n \in cache : firstUnacknowledged <= n /\ n < nextNumber

\* The receiver has what was pushed, and acknowledges what it has or had.
ReceiverInv ==
  /\ recvNext <= nextNumber
  /\ \A n \in window : n < nextNumber
  /\ \A n \in acklist : Received(n)

\* However old a packet is, the sender needs no acknowledgement below its SendingNext.
PacketInv ==
  \A packet \in net :
    /\ packet.type = "data" => packet.number < nextNumber
    /\ packet.type \in {"data", "sendingPing"} =>
         /\ packet.sendingNext <= nextNumber
         /\ \A n \in cache : packet.sendingNext <= n

KcpInv == TypeOK /\ SenderInv /\ ReceiverInv /\ PacketInv /\ KcpDelivers

-----------------------------------------------------------------------------
\* Numbers that wrap, and least numbers.

\* A set of numbers has a least one.
LEMMA LeastNumber ==
  ASSUME NEW S \in SUBSET Nat, S # {}
  PROVE  \E n \in S : \A m \in S : n <= m
<1> DEFINE Less == {ss \in Nat \X Nat : ss[1] < ss[2]}
<1>1. IsWellFoundedOn(Less, Nat)
  BY NatLessThanWellFounded DEF OpToRel
<1>2. PICK n \in S : \A m \in S : <<m, n>> \notin Less
  <2> HIDE DEF Less
  <2>. QED  BY <1>1, WFMin, Zenon
<1>3. \A m \in S : ~(m < n)
  BY <1>2, Zenon
<1>. QED  BY <1>3

\* A difference of numbers wraps if it is negative.
LEMMA SubWraps ==
  ASSUME NEW M \in Nat, NEW x \in Int, -M <= x, x < M
  PROVE  x % M = IF x < 0 THEN x + M ELSE x
<1>1. CASE x < 0
  BY <1>1
<1>2. CASE x >= 0
  BY <1>2
<1>. QED  BY <1>1, <1>2

\* The wrapping comparison of ProcessSegment keeps exactly what is in the window.
LEMMA InWindow ==
  ASSUME NEW n \in Numbers, NEW r \in 0..MaxPush
  PROVE  Sub(n, r) < RecvWindow <=> r <= n /\ n < r + RecvWindow
<1>1. /\ Modulus \in Nat /\ Half \in Nat /\ RecvWindow \in Nat /\ MaxPush \in Nat
      /\ MaxPush + RecvWindow <= Half /\ Modulus = 2 * (Half + 1)
  BY ArqAssumption DEF Modulus
<1>2. n - r \in Int /\ -Modulus <= n - r /\ n - r < Modulus
  BY <1>1 DEF Numbers
<1>3. Sub(n, r) = IF n - r < 0 THEN n - r + Modulus ELSE n - r
  BY <1>1, <1>2, SubWraps DEF Sub
<1>. QED  BY <1>1, <1>3 DEF Numbers

-----------------------------------------------------------------------------
\* Steps of the sender that forget segments.

\* FindFirstUnacknowledged finds a number that is not above what the window holds.
LEMMA FirstOfWindow ==
  ASSUME TypeOK, SenderInv, NEW w \in SUBSET cache, FindFirstUnacknowledged(w)
  PROVE  /\ firstUnacknowledged' \in 0..MaxPush /\ firstUnacknowledged' <= nextNumber
         /\ \A n \in w : firstUnacknowledged' <= n
         /\ firstUpdated' \in {0, 1}
<1> DEFINE IsLeast(n) == n \in w /\ \A m \in w : n <= m
<1>1. MaxPush \in Nat /\ nextNumber \in 0..MaxPush /\ w \subseteq Nat
  BY ArqAssumption DEF TypeOK, Numbers
<1>2. firstUpdated' \in {0, 1}
  BY DEF TypeOK, FindFirstUnacknowledged
<1>3. CASE w = {}
  BY <1>1, <1>2, <1>3 DEF FindFirstUnacknowledged
<1>4. CASE w # {}
  <2>1. firstUnacknowledged' = CHOOSE n \in w : \A m \in w : n <= m
    BY <1>4 DEF FindFirstUnacknowledged
  <2>2. \E n \in w : \A m \in w : n <= m
    BY <1>1, <1>4, LeastNumber
  <2>3. firstUnacknowledged' \in w /\ \A m \in w : firstUnacknowledged' <= m
    BY <2>1, <2>2
  <2>. QED  BY <1>1, <1>2, <2>3 DEF TypeOK, SenderInv, Numbers
<1>. QED  BY <1>3, <1>4

\* The sender may forget what the receiver has.
LEMMA Forgets ==
  ASSUME KcpInv, NEW w \in SUBSET cache, SetWindow(w), net' \subseteq net,
         \A n \in cache : n \in w \/ Received(n),
         remoteNextNumber' \in Nat, UNCHANGED <<nextNumber, receiverVars>>
  PROVE  KcpInv'
<1> USE DEF KcpInv
<1>1. UNCHANGED <<nextNumber, window, recvNext, acklist, dirty>> /\ cache' = w
  BY DEF receiverVars, SetWindow
<1>2. /\ firstUnacknowledged' \in 0..MaxPush /\ firstUnacknowledged' <= nextNumber
      /\ \A n \in w : firstUnacknowledged' <= n
      /\ firstUpdated' \in {0, 1}
  BY FirstOfWindow DEF SetWindow
<1>3. TypeOK'
  BY <1>1, <1>2 DEF TypeOK, SetWindow, Packets
<1>4. SenderInv'
  BY <1>1, <1>2 DEF SenderInv
<1>5. ReceiverInv'
  BY <1>1 DEF ReceiverInv, Received
<1>6. PacketInv'
  BY <1>1 DEF PacketInv
<1>7. NothingLost' /\ AcksAreTrue' /\ AckRemembered' /\ WindowBounded'
  BY <1>1 DEF KcpDelivers, NothingLost, AcksAreTrue, AckRemembered, WindowBounded, Received
<1>. QED  BY <1>3, <1>4, <1>5, <1>6, <1>7 DEF KcpDelivers

-----------------------------------------------------------------------------
\* Steps that send packets.

\* What a packet on its way may say.
IsTrue(packet) ==
  /\ packet \in Packets
  /\ packet.type = "data" => packet.number < nextNumber
  /\ packet.type \in {"data", "sendingPing"} =>
       /\ packet.sendingNext <= nextNumber
       /\ \A n \in cache : packet.sendingNext <= n
  /\ packet.type = "ack" =>
       packet.receivingNext <= recvNext /\ \A n \in packet.numbers : Received(n)
  /\ packet.type = "receivingPing" => packet.receivingNext <= recvNext

\* A flush or a ping changes nothing but what is on its way, and flags.
LEMMA Sends ==
  ASSUME KcpInv, NEW packets, Transmit(packets), \A packet \in packets : IsTrue(packet),
         UNCHANGED <<cache, nextNumber, firstUnacknowledged, remoteNextNumber,
                     window, recvNext, acklist>>,
         transmitted' \in SUBSET cache, firstUpdated' \in {0, 1}, dirty' \in {0, 1}
  PROVE  KcpInv'
<1> USE DEF KcpInv
<1>1. \A packet \in net' : packet \in net \/ IsTrue(packet)
  BY DEF Transmit
<1>2. \A packet \in net : packet \in Packets
  BY DEF TypeOK
<1>3. TypeOK'
  <2>1. net' \subseteq Packets
    BY <1>1, <1>2 DEF IsTrue
  <2>. QED  BY <2>1 DEF TypeOK, Packets
<1>4. SenderInv' /\ ReceiverInv'
  BY DEF SenderInv, ReceiverInv, Received
<1>5. PacketInv'
  BY <1>1 DEF PacketInv, IsTrue
<1>6. NothingLost' /\ AckRemembered' /\ WindowBounded'
  BY DEF KcpDelivers, NothingLost, AckRemembered, WindowBounded, Received
<1>7. AcksAreTrue'
  BY <1>1 DEF KcpDelivers, AcksAreTrue, IsTrue, Received
<1>. QED  BY <1>3, <1>4, <1>5, <1>6, <1>7 DEF KcpDelivers

\* Packets of the sender.
LEMMA SenderPackets ==
  ASSUME KcpInv
  PROVE  /\ IsTrue(SendingPing)
         /\ \A n \in cache : IsTrue(DataPacket(n))
<1> USE DEF KcpInv
<1>1. SendingPing \in Packets /\ SendingPing.type = "sendingPing"
      /\ SendingPing.sendingNext = firstUnacknowledged
  BY DEF TypeOK, Packets, SendingPing
<1>2. \A n \in cache : /\ DataPacket(n) \in Packets /\ DataPacket(n).type = "data"
                       /\ DataPacket(n).number = n
                       /\ DataPacket(n).sendingNext = firstUnacknowledged
  BY DEF TypeOK, Packets, DataPacket
<1>3. IsTrue(SendingPing)
  BY <1>1 DEF IsTrue, SenderInv
<1>4. \A n \in cache : IsTrue(DataPacket(n))
  BY <1>2 DEF IsTrue, SenderInv
<1>. QED  BY <1>3, <1>4

\* Packets of the receiver.
LEMMA ReceiverPackets ==
  ASSUME KcpInv
  PROVE  /\ \A numbers \in SUBSET acklist : IsTrue(Ack(numbers))
         /\ IsTrue([type |-> "receivingPing", receivingNext |-> recvNext])
<1> USE DEF KcpInv
<1> DEFINE ping == [type |-> "receivingPing", receivingNext |-> recvNext]
<1>1. ping \in Packets /\ ping.type = "receivingPing" /\ ping.receivingNext = recvNext
  BY DEF TypeOK, Packets
<1>2. recvNext <= recvNext
  BY DEF TypeOK
<1>3. IsTrue(ping)
  BY <1>1, <1>2 DEF IsTrue
<1>4. ASSUME NEW numbers \in SUBSET acklist
      PROVE  IsTrue(Ack(numbers))
  <2>1. /\ Ack(numbers) \in Packets /\ Ack(numbers).type = "ack"
        /\ Ack(numbers).receivingNext = recvNext /\ Ack(numbers).numbers = numbers
    BY DEF TypeOK, Packets, Ack
  <2>. QED  BY <2>1, <1>2 DEF IsTrue, ReceiverInv
<1>. QED  BY <1>3, <1>4

-----------------------------------------------------------------------------
\* The steps of Next.

(* A write puts the next number into the sending window and keeps the      *)
(* invariant.                                                              *)
LEMMA PushStep ==
  ASSUME KcpInv, Push
  PROVE  KcpInv'
<1> USE DEF KcpInv
<1>1. /\ cache' = cache \cup {nextNumber} /\ nextNumber' = nextNumber + 1
      /\ nextNumber < MaxPush
      /\ UNCHANGED <<transmitted, firstUnacknowledged, firstUpdated, remoteNextNumber,
                     window, recvNext, acklist, dirty, net>>
  BY DEF Push, receiverVars
<1>2. MaxPush \in Nat /\ nextNumber \in 0..MaxPush
  BY ArqAssumption DEF TypeOK
<1>3. TypeOK'
  BY <1>1, <1>2 DEF TypeOK, Numbers, Packets
<1>4. SenderInv'
  BY <1>1, <1>2 DEF SenderInv, TypeOK, Numbers
<1>5. ReceiverInv'
  BY <1>1, <1>2 DEF ReceiverInv, Received, TypeOK, Numbers
<1>6. PacketInv'
  <2> SUFFICES ASSUME NEW packet \in net
               PROVE  /\ packet.type = "data" => packet.number < nextNumber + 1
                      /\ packet.type \in {"data", "sendingPing"} =>
                           /\ packet.sendingNext <= nextNumber + 1
                           /\ \A n \in cache \cup {nextNumber} : packet.sendingNext <= n
    BY <1>1 DEF PacketInv
  <2>1. /\ packet.type = "data" => packet.number \in Int
        /\ packet.type \in {"data", "sendingPing"} => packet.sendingNext \in Int
    BY DEF TypeOK, Packets, Numbers
  <2>. QED  BY <1>2, <2>1 DEF PacketInv
<1>7. NothingLost' /\ AckRemembered'
  BY <1>1, <1>2 DEF KcpDelivers, NothingLost, AckRemembered, Received, ReceiverInv,
                    TypeOK, Numbers
<1>8. AcksAreTrue' /\ WindowBounded'
  BY <1>1 DEF KcpDelivers, AcksAreTrue, WindowBounded, Received
<1>. QED  BY <1>3, <1>4, <1>5, <1>6, <1>7, <1>8 DEF KcpDelivers

(* What the sending worker transmits, segments and pings, is true, and the *)
(* invariant stays.                                                        *)
LEMMA SendingSteps ==
  ASSUME KcpInv, FlushSending \/ PingSending
  PROVE  KcpInv'
<1>1. CASE PingSending
  <2>1. \A packet \in {SendingPing} : IsTrue(packet)
    BY SenderPackets
  <2>. QED  BY <1>1, <2>1, Sends DEF PingSending, senderVars, receiverVars, KcpInv, TypeOK
<1>2. CASE FlushSending
  <2>1. /\ UNCHANGED <<cache, nextNumber, firstUnacknowledged, remoteNextNumber,
                       window, recvNext, acklist, dirty>>
        /\ firstUpdated' \in {0, 1} /\ dirty' \in {0, 1}
    BY <1>2 DEF FlushSending, receiverVars, KcpInv, TypeOK
  <2>2. CASE cache = {}
    <3> DEFINE packets == IF firstUpdated = 1 THEN {SendingPing} ELSE {}
    <3>1. Transmit(packets) /\ UNCHANGED transmitted
      BY <1>2, <2>2 DEF FlushSending
    <3>2. \A packet \in packets : IsTrue(packet)
      BY SenderPackets
    <3>3. transmitted' \in SUBSET cache
      BY <3>1 DEF KcpInv, TypeOK
    <3> HIDE DEF packets
    <3>. QED  BY <2>1, <3>1, <3>2, <3>3, Sends
  <2>3. CASE cache # {}
    <3>1. PICK due \in SUBSET cache :
            /\ Transmit({DataPacket(n) : n \in FirstOf(due, Cwnd)})
            /\ transmitted' = transmitted \cup FirstOf(due, Cwnd)
      BY <1>2, <2>3, ZenonT(60) DEF FlushSending
    <3> DEFINE packets == {DataPacket(n) : n \in FirstOf(due, Cwnd)}
    <3>2. FirstOf(due, Cwnd) \subseteq cache
      BY DEF FirstOf
    <3>3. \A packet \in packets : IsTrue(packet)
      BY <3>2, SenderPackets
    <3>4. transmitted' \in SUBSET cache
      BY <3>1, <3>2 DEF KcpInv, TypeOK
    <3>5. Transmit(packets)
      BY <3>1
    <3> HIDE DEF packets
    <3>. QED  BY <2>1, <3>3, <3>4, <3>5, Sends
  <2>. QED  BY <2>2, <2>3
<1>. QED  BY <1>1, <1>2

(* So is what the receiving worker transmits, acknowledgements and pings.  *)
LEMMA ReceivingSteps ==
  ASSUME KcpInv, FlushReceiving \/ PingReceiving
  PROVE  KcpInv'
<1>1. CASE PingReceiving
  <2> DEFINE packets == {[type |-> "receivingPing", receivingNext |-> recvNext]}
  <2>1. \A packet \in packets : IsTrue(packet)
    BY ReceiverPackets
  <2>2. /\ Transmit(packets) /\ UNCHANGED <<senderVars, receiverVars>>
    BY <1>1 DEF PingReceiving
  <2> HIDE DEF packets
  <2>. QED  BY <2>1, <2>2, Sends DEF senderVars, receiverVars, KcpInv, TypeOK
<1>2. CASE FlushReceiving
  <2>1. PICK due \in SUBSET acklist, full \in SUBSET SUBSET acklist, last \in SUBSET acklist :
          Transmit(AckPackets(due, full, last))
    BY <1>2 DEF FlushReceiving
  <2>2. \A packet \in AckPackets(due, full, last) :
          \E numbers \in SUBSET acklist : packet = Ack(numbers)
    BY DEF AckPackets
  <2>3. \A packet \in AckPackets(due, full, last) : IsTrue(packet)
    BY <2>2, ReceiverPackets
  <2>4. /\ UNCHANGED <<cache, nextNumber, firstUnacknowledged, remoteNextNumber,
                       window, recvNext, acklist>>
        /\ transmitted' \in SUBSET cache /\ firstUpdated' \in {0, 1} /\ dirty' \in {0, 1}
    BY <1>2 DEF FlushReceiving, senderVars, KcpInv, TypeOK
  <2>. QED  BY <2>1, <2>3, <2>4, Sends
<1>. QED  BY <1>1, <1>2

(* A packet that is taken from the network says something true, however    *)
(* late it comes.                                                          *)
LEMMA TakenIsTrue ==
  ASSUME KcpInv, NEW packet, Take(packet)
  PROVE  net' \subseteq net /\ packet \in net /\ IsTrue(packet)
BY DEF Take, KcpInv, TypeOK, PacketInv, KcpDelivers, AcksAreTrue, IsTrue

\* Acknowledgements and pings of the receiver.
LEMMA AcknowledgingSteps ==
  ASSUME KcpInv, NEW packet, ProcessAck(packet) \/ ProcessReceivingNext(packet)
  PROVE  KcpInv'
<1>1. Take(packet) /\ packet.type \in {"ack", "receivingPing"}
      /\ UNCHANGED <<nextNumber, receiverVars>>
  BY DEF ProcessAck, ProcessReceivingNext
<1>2. /\ net' \subseteq net /\ packet \in Packets
      /\ packet.receivingNext \in 0..MaxPush /\ packet.receivingNext <= recvNext
      /\ packet.type = "ack" => \A n \in packet.numbers : Received(n)
  BY <1>1, TakenIsTrue DEF IsTrue, Packets
<1>3. \A n \in cache : n \in Cleared(packet.receivingNext) \/ Received(n)
  BY <1>2, ArqAssumption DEF Cleared, Received, KcpInv, TypeOK, Numbers
<1>4. remoteNextNumber' \in Nat
  <2>1. (packet.receivingNext + RecvWindow) % Modulus \in Nat
    BY <1>2, ArqAssumption DEF Modulus
  <2>. QED  BY <2>1 DEF ProcessAck, ProcessReceivingNext, Maximum, KcpInv, TypeOK
<1>5. \E w \in SUBSET cache : SetWindow(w) /\ \A n \in cache : n \in w \/ Received(n)
  <2>1. CASE ProcessReceivingNext(packet)
    <3>1. Cleared(packet.receivingNext) \in SUBSET cache
      BY DEF Cleared
    <3>2. SetWindow(Cleared(packet.receivingNext))
      BY <2>1 DEF ProcessReceivingNext
    <3>. QED  BY <1>3, <3>1, <3>2
  <2>2. CASE ProcessAck(packet)
    <3> DEFINE kept  == Cleared(packet.receivingNext)
               first == IF kept = {} THEN nextNumber ELSE CHOOSE n \in kept : \A m \in kept : n <= m
               w     == kept \ {n \in packet.numbers : AckInRange(n, first)}
    <3>1. SetWindow(w)
      BY <2>2 DEF ProcessAck
    <3>2. kept \subseteq cache
      BY DEF Cleared
    <3>3. packet.type = "ack"
      BY <2>2 DEF ProcessAck
    <3> HIDE DEF kept, first
    <3>4. w \in SUBSET cache
      BY <3>2
    <3>5. \A n \in cache : n \in w \/ Received(n)
      BY <1>2, <1>3, <3>3 DEF kept
    <3>. QED  BY <3>1, <3>4, <3>5
  <2>. QED  BY <2>1, <2>2
<1>. QED  BY <1>1, <1>2, <1>4, <1>5, Forgets

\* Data and pings of the sender.
LEMMA DeliveringSteps ==
  ASSUME KcpInv, NEW packet, ProcessData(packet) \/ ProcessSendingNext(packet)
  PROVE  KcpInv'
<1> USE DEF KcpInv
<1>1. Take(packet) /\ packet.type \in {"data", "sendingPing"}
      /\ UNCHANGED <<cache, transmitted, nextNumber, firstUnacknowledged, firstUpdated,
                     remoteNextNumber, recvNext>>
  BY DEF ProcessData, ProcessSendingNext, senderVars, receiverVars
<1>2. /\ net' \subseteq net /\ packet \in Packets
      /\ packet.sendingNext \in 0..MaxPush
      /\ \A n \in cache : packet.sendingNext <= n
      /\ packet.type = "data" => packet.number \in Numbers /\ packet.number < nextNumber
  BY <1>1, TakenIsTrue DEF IsTrue, Packets
<1> DEFINE Adds(more) ==
        /\ window' = window \cup more
        /\ \A n \in more : n < nextNumber /\ recvNext <= n /\ n < recvNext + RecvWindow
        /\ acklist' \subseteq acklist \cup more
        /\ \A n \in cache : n \in acklist => n \in acklist'
        /\ more \subseteq acklist'
        /\ dirty' \in {0, 1}
<1>3. \E more \in SUBSET Numbers : Adds(more)
  <2>1. CASE ProcessData(packet) /\ Sub(packet.number, recvNext) < RecvWindow
    <3>1. packet.number \in Numbers /\ packet.number < nextNumber /\ recvNext \in 0..MaxPush
      BY <1>2, <2>1 DEF ProcessData, TypeOK
    <3>2. recvNext <= packet.number /\ packet.number < recvNext + RecvWindow
      BY <2>1, <3>1, InWindow
    <3>3. /\ acklist' = ClearAcks(packet.sendingNext) \cup {packet.number}
          /\ dirty' = 1 /\ window' = window \cup {packet.number}
      <4>1. Sub(packet.number, recvNext) \in Int /\ RecvWindow \in Int
        BY <3>1, ArqAssumption DEF Sub, Modulus, Numbers
      <4>2. ~(Sub(packet.number, recvNext) >= RecvWindow)
        BY <2>1, <4>1
      <4>. QED  BY <2>1, <4>2 DEF ProcessData
    <3>4. {packet.number} \in SUBSET Numbers
      BY <3>1
    <3>. QED  BY <1>2, <3>1, <3>2, <3>3, <3>4, Zenon DEF ClearAcks
  <2>2. CASE ProcessData(packet) /\ ~(Sub(packet.number, recvNext) < RecvWindow)
    <3>1. packet.number \in Numbers /\ recvNext \in 0..MaxPush
      BY <1>2, <2>2 DEF ProcessData, TypeOK
    <3>2. Sub(packet.number, recvNext) >= RecvWindow
      BY <2>2, <3>1, ArqAssumption DEF Sub, Modulus, Numbers
    <3>3. UNCHANGED <<window, acklist, dirty>>
      BY <2>2, <3>2 DEF ProcessData, receiverVars
    <3>4. Adds({})
      BY <3>3 DEF TypeOK
    <3>5. {} \in SUBSET Numbers
      OBVIOUS
    <3> HIDE DEF Adds
    <3>. QED  BY <3>4, <3>5
  <2>3. CASE ProcessSendingNext(packet)
    <3>1. /\ acklist' = ClearAcks(packet.sendingNext) /\ window' = window
          /\ dirty' \in {0, 1}
      BY <2>3 DEF ProcessSendingNext, TypeOK
    <3>2. Adds({})
      BY <1>2, <3>1 DEF ClearAcks, TypeOK, Numbers
    <3>5. {} \in SUBSET Numbers
      OBVIOUS
    <3> HIDE DEF Adds
    <3>. QED  BY <3>2, <3>5
  <2>. QED  BY <2>1, <2>2, <2>3
<1>4. PICK more \in SUBSET Numbers : Adds(more)
  BY <1>3
<1>5. \A n : Received(n) => Received(n)'
  BY <1>1, <1>4 DEF Received
<1>6. TypeOK'
  BY <1>1, <1>2, <1>4 DEF TypeOK, Packets
<1>7. SenderInv'
  BY <1>1 DEF SenderInv
<1>8. ReceiverInv'
  BY <1>1, <1>4 DEF ReceiverInv, Received
<1>9. PacketInv'
  BY <1>1, <1>2 DEF PacketInv
<1>10. NothingLost' /\ AckRemembered' /\ WindowBounded'
  BY <1>1, <1>4 DEF KcpDelivers, NothingLost, AckRemembered, WindowBounded, Received
<1>11. AcksAreTrue'
  BY <1>1, <1>2, <1>5 DEF KcpDelivers, AcksAreTrue
<1>. QED  BY <1>6, <1>7, <1>8, <1>9, <1>10, <1>11 DEF KcpDelivers

\* Reading moves recvNext to the first gap.
LEMMA ReadingStep ==
  ASSUME KcpInv, ReadMultiBuffer
  PROVE  KcpInv'
<1> USE DEF KcpInv
<1> DEFINE IsGap(n) == recvNext..(n - 1) \subseteq window /\ n > recvNext /\ n \notin window
           Above == {n \in 0..MaxPush : n > recvNext /\ n \notin window}
<1>1. /\ recvNext \in window /\ window' = {n \in window : n >= recvNext'}
      /\ recvNext' = CHOOSE n \in 0..MaxPush : IsGap(n)
      /\ UNCHANGED <<cache, transmitted, nextNumber, firstUnacknowledged, firstUpdated,
                     remoteNextNumber, acklist, dirty, net>>
  BY DEF ReadMultiBuffer, senderVars
<1>2. MaxPush \in Nat /\ recvNext \in 0..MaxPush /\ window \subseteq Numbers
  BY ArqAssumption DEF TypeOK
<1>3. \E n \in 0..MaxPush : IsGap(n)
  <2>1. MaxPush \in Above
    BY <1>1, <1>2 DEF Numbers
  <2>2. Above \in SUBSET Nat
    BY <1>2
  <2> HIDE DEF Above
  <2>3. PICK n \in Above : \A m \in Above : n <= m
    BY <2>1, <2>2, LeastNumber
  <2> USE DEF Above
  <2>4. recvNext..(n - 1) \subseteq window
    <3> SUFFICES ASSUME NEW k \in recvNext..(n - 1)
                 PROVE  k \in window
      OBVIOUS
    <3>1. k \in 0..MaxPush /\ k < n
      BY <1>2
    <3>2. k \notin Above
      BY <1>2, <2>3, <3>1
    <3>. QED  BY <1>1, <1>2, <3>1, <3>2
  <2>. QED  BY <2>4
<1> HIDE DEF Above
<1>4. recvNext' \in 0..MaxPush /\ IsGap(recvNext')
  BY <1>1, <1>3
<1>5. recvNext' <= nextNumber
  <2>1. recvNext' - 1 \in recvNext..(recvNext' - 1)
    <3>1. recvNext' \in Int /\ recvNext \in Int /\ recvNext' > recvNext
      BY <1>2, <1>4
    <3>2. \A a, b \in Int : b > a => b - 1 \in a..(b - 1)
      OBVIOUS
    <3> HIDE DEF KcpInv
    <3>. QED  BY <3>1, <3>2, Zenon
  <2>2. recvNext' - 1 \in window
    BY <1>4, <2>1
  <2>. QED  BY <1>2, <1>4, <2>2 DEF ReceiverInv, TypeOK
<1>6. \A n \in Nat : Received(n) => Received(n)'
  BY <1>1, <1>2, <1>4 DEF Received
<1>7. TypeOK'
  BY <1>1, <1>4, Zenon DEF TypeOK, Packets
<1>8. SenderInv' /\ PacketInv'
  BY <1>1 DEF SenderInv, PacketInv
<1>9. ReceiverInv'
  BY <1>1, <1>5, <1>6, ArqAssumption DEF ReceiverInv, TypeOK, Numbers
<1>10. NothingLost'
  <2>1. 0..(nextNumber - 1) \subseteq Nat
    OBVIOUS
  <2>. QED  BY <1>1, <1>6, <2>1 DEF KcpDelivers, NothingLost
<1>11. AckRemembered'
  BY <1>1 DEF KcpDelivers, AckRemembered
<1>12. WindowBounded'
  BY <1>1, <1>2, <1>4, ArqAssumption DEF KcpDelivers, WindowBounded, Numbers
<1>13. AcksAreTrue'
  <2> SUFFICES ASSUME NEW packet \in net
               PROVE  /\ packet.type = "ack" =>
                           packet.receivingNext <= recvNext' /\ \A n \in packet.numbers : Received(n)'
                      /\ packet.type = "receivingPing" => packet.receivingNext <= recvNext'
    BY <1>1 DEF AcksAreTrue
  <2>1. /\ packet.type = "ack" => packet.receivingNext \in Int /\ packet.numbers \subseteq Nat
        /\ packet.type = "receivingPing" => packet.receivingNext \in Int
    BY ArqAssumption DEF TypeOK, Packets, Numbers
  <2>. QED  BY <1>2, <1>4, <1>6, <2>1 DEF KcpDelivers, AcksAreTrue
<1>. QED  BY <1>7, <1>8, <1>9, <1>10, <1>11, <1>12, <1>13 DEF KcpDelivers

(* Every step of both ends and of the network keeps KcpInv.                *)
LEMMA KcpInvStep == KcpInv /\ [Next]_vars => KcpInv'
<1> SUFFICES ASSUME KcpInv, [Next]_vars
             PROVE  KcpInv'
  OBVIOUS
<1>1. CASE Push
  BY <1>1, PushStep
<1>2. CASE FlushSending \/ PingSending
  BY <1>2, SendingSteps
<1>3. CASE FlushReceiving \/ PingReceiving
  BY <1>3, ReceivingSteps
<1>4. CASE ReadMultiBuffer
  BY <1>4, ReadingStep
<1>5. CASE \E packet \in net : Input(packet)
  BY <1>5, AcknowledgingSteps, DeliveringSteps DEF Input
<1>6. CASE UNCHANGED vars
  BY <1>6 DEF vars, senderVars, receiverVars, KcpInv, TypeOK, SenderInv, ReceiverInv, PacketInv,
              KcpDelivers, NothingLost, AcksAreTrue, AckRemembered, WindowBounded, Received, Packets
<1>. QED  BY <1>1, <1>2, <1>3, <1>4, <1>5, <1>6 DEF Next

(* KcpInv holds of a new connection.                                       *)
LEMMA KcpInvInit == Init => KcpInv
BY ArqAssumption DEF Init, KcpInv, TypeOK, SenderInv, ReceiverInv, PacketInv, KcpDelivers,
   NothingLost, AcksAreTrue, AckRemembered, WindowBounded, Received, Numbers

\* The state of both ends keeps its type, and every packet is one of the four kinds.
THEOREM TypeCorrect == Spec => []TypeOK
<1>1. KcpInv => TypeOK
  BY DEF KcpInv
<1>. QED  BY KcpInvInit, KcpInvStep, <1>1, PTL DEF Spec

\* The ends of an mKCP connection agree, whatever the network loses, repeats and
\* reorders: processAck and ProcessReceivingNext forget only what was received,
\* AckList.Clear drops no acknowledgement the sender needs, and ProcessSegment keeps
\* exactly what belongs into the window.
THEOREM Delivers == Spec => []KcpDelivers
<1>1. KcpInv => KcpDelivers
  BY DEF KcpInv
<1>. QED  BY KcpInvInit, KcpInvStep, <1>1, PTL DEF Spec

-----------------------------------------------------------------------------
(* The listener (module KcpListener, here with variables of its own).      *)

CONSTANTS Ids, Capacity, MaxConns, Twice, MayClose
VARIABLES open, hub, ended, hand, sessions, conns, closing

Listener == INSTANCE KcpListener WITH cache <- hub

Connection == [id : Ids, over : BOOLEAN, terms : Nat, killed : BOOLEAN]

\* What the table has under an id is a connection of that id.
Table ==
  /\ hub \in Seq(Listener!Packets) /\ hand \in Seq(Listener!Packets)
  /\ conns \in Seq(Connection)
  /\ sessions \in [Ids -> Nat]
  /\ \A i \in Ids : sessions[i] # 0 => sessions[i] \in DOMAIN conns /\ conns[sessions[i]].id = i

\* As long as connections end once each and the listener is open, the one in the table
\* is the one that lives, or the last step of whose end is to come.
Alone ==
  ~Twice /\ closing = "no" =>
    \A c \in DOMAIN conns :
      /\ conns[c].terms \in (IF conns[c].over THEN {0, 1} ELSE {0})
      /\ ~conns[c].over \/ conns[c].terms = 1 => sessions[conns[c].id] = c

ListenerInv == Table /\ Alone /\ Listener!EndedIsRemoved

\* One connection changes, and keeps its id.
LEMMA ConnectionChanges ==
  ASSUME Table, NEW c \in DOMAIN conns, NEW v \in Connection, v.id = conns[c].id,
         conns' = [conns EXCEPT ![c] = v]
  PROVE  /\ conns' \in Seq(Connection) /\ DOMAIN conns' = DOMAIN conns
         /\ conns'[c] = v /\ \A d \in DOMAIN conns \ {c} : conns'[d] = conns[d]
         /\ \A d \in DOMAIN conns : conns[d] \in Connection /\ conns'[d].id = conns[d].id
BY DEF Table

(* Every step of the listener and of its connections keeps ListenerInv.    *)
LEMMA ListenerStep == ListenerInv /\ [Listener!Next]_(Listener!vars) => ListenerInv'
<1> SUFFICES ASSUME ListenerInv, [Listener!Next]_(Listener!vars)
             PROVE  ListenerInv'
  OBVIOUS
<1> USE DEF ListenerInv
<1>1. ASSUME NEW p \in Listener!Packets, Listener!Arrive(p) PROVE ListenerInv'
  <2>1. hub' \in Seq(Listener!Packets) /\ UNCHANGED <<hand, conns, sessions, closing>>
    BY <1>1 DEF Listener!Arrive, Table
  <2>. QED  BY <2>1 DEF Table, Alone, Listener!EndedIsRemoved
<1>2. CASE Listener!HubEnds
  BY <1>2 DEF Listener!HubEnds, Table, Alone, Listener!EndedIsRemoved
<1>3. CASE Listener!Take
  <2>1. /\ hub' \in Seq(Listener!Packets) /\ hand' \in Seq(Listener!Packets)
        /\ UNCHANGED <<conns, sessions, closing>>
    BY <1>3 DEF Listener!Take, Table
  <2>. QED  BY <2>1 DEF Table, Alone, Listener!EndedIsRemoved
<1>4. CASE Listener!OnReceive
  <2>. hand # <<>> /\ hand' = <<>> /\ UNCHANGED <<hub, closing>>
    BY <1>4 DEF Listener!OnReceive
  <2>. Head(hand) \in Listener!Packets
    BY DEF Table
  <2>1. Head(hand).id \in Ids
    BY DEF Listener!Packets
  <2>2. CASE UNCHANGED <<sessions, conns>>
    <3>1. hand' \in Seq(Listener!Packets)
      BY <2>1
    <3>. QED  BY <2>1, <2>2, <3>1 DEF Table, Alone, Listener!EndedIsRemoved
  <2>3. CASE ~UNCHANGED <<sessions, conns>>
    <3> DEFINE i == Head(hand).id
               v == Listener!NewConnection(i)
    <3>1. /\ sessions[i] = 0 /\ conns' = Append(conns, v)
          /\ sessions' = [sessions EXCEPT ![i] = Len(conns) + 1]
      BY <1>4, <2>3 DEF Listener!OnReceive
    <3>2. /\ v \in Connection /\ v.id = i /\ v.over = FALSE /\ v.terms = 0
      BY <2>1 DEF Listener!NewConnection, Connection
    <3> HIDE DEF v, i
    <3>3. /\ conns' \in Seq(Connection) /\ DOMAIN conns' = DOMAIN conns \cup {Len(conns) + 1}
          /\ Len(conns) \in Nat /\ Len(conns) + 1 \notin DOMAIN conns
          /\ conns'[Len(conns) + 1] = v /\ \A d \in DOMAIN conns : conns'[d] = conns[d]
          /\ \A d \in DOMAIN conns : conns[d] \in Connection
      BY <3>1, <3>2 DEF Table
    <3>. \A d \in DOMAIN conns : conns[d].id \in Ids
      BY <3>3 DEF Connection
    <3>4. /\ sessions' \in [Ids -> Nat] /\ sessions'[i] = Len(conns) + 1 /\ i \in Ids
          /\ \A j \in Ids \ {i} : sessions'[j] = sessions[j]
      BY <2>1, <3>1, <3>3 DEF Table, i
    <3>5. Table'
      BY <2>1, <3>2, <3>3, <3>4, SMTT(30) DEF Table
    <3>6. Alone'
      BY <2>1, <3>1, <3>2, <3>3, <3>4 DEF Alone, Table
    <3>7. Listener!EndedIsRemoved'
      <4> SUFFICES ASSUME NEW j \in Ids, sessions'[j] # 0, conns'[sessions'[j]].over
                   PROVE  conns'[sessions'[j]].terms > 0
        BY DEF Listener!EndedIsRemoved
      <4>1. j # i /\ sessions'[j] = sessions[j]
        BY <3>2, <3>3, <3>4
      <4>2. sessions[j] \in DOMAIN conns
        BY <4>1 DEF Table
      <4>. QED  BY <3>3, <4>1, <4>2, SMTT(30) DEF Listener!EndedIsRemoved
    <3>. QED  BY <3>5, <3>6, <3>7, SMTT(30)
  <2>. QED  BY <2>2, <2>3
<1>5. ASSUME NEW c \in DOMAIN conns, Listener!Terminated(c) PROVE ListenerInv'
  <2> DEFINE u == [conns[c] EXCEPT !.over = TRUE]
             v == [u EXCEPT !.terms = @ + 1]
  <2>. conns[c] \in Connection
    BY DEF Table
  <2>1. /\ conns' = [conns EXCEPT ![c] = v]
        /\ ~conns[c].over \/ Twice
        /\ UNCHANGED <<hub, hand, sessions, closing>>
    BY <1>5, Zenon DEF Listener!Terminated
  <2>2. /\ v \in Connection /\ v.id = conns[c].id /\ v.over = TRUE
        /\ v.terms = conns[c].terms + 1
    <3>1. u \in Connection /\ u.id = conns[c].id /\ u.over = TRUE /\ u.terms = conns[c].terms
      BY Zenon DEF Connection
    <3> HIDE DEF u
    <3>. QED  BY <3>1 DEF Connection
  <2> HIDE DEF u, v
  <2>3. /\ conns' \in Seq(Connection) /\ DOMAIN conns' = DOMAIN conns
        /\ conns'[c] = v /\ \A d \in DOMAIN conns \ {c} : conns'[d] = conns[d]
        /\ \A d \in DOMAIN conns : conns[d] \in Connection /\ conns'[d].id = conns[d].id
    BY <2>1, <2>2, ConnectionChanges, Zenon
  <2>4. Table'
    BY <2>1, <2>3 DEF Table
  <2>5. Alone'
    BY <2>1, <2>2, <2>3 DEF Alone, Connection
  <2>6. Listener!EndedIsRemoved'
    BY <2>1, <2>2, <2>3, SMTT(30) DEF Listener!EndedIsRemoved, Table, Connection
  <2>. QED  BY <2>4, <2>5, <2>6
<1>6. ASSUME NEW c \in DOMAIN conns, Listener!Terminate(c) PROVE ListenerInv'
  <2> DEFINE v == [conns[c] EXCEPT !.terms = @ - 1]
             i == conns[c].id
  <2>. conns[c] \in Connection
    BY DEF Table
  <2>1. /\ conns' = [conns EXCEPT ![c] = v] /\ conns[c].terms > 0
        /\ sessions' = [sessions EXCEPT ![i] = 0] /\ UNCHANGED <<hub, hand, closing>>
    BY <1>6 DEF Listener!Terminate
  <2>2. /\ v \in Connection /\ v.id = i /\ v.over = conns[c].over /\ i \in Ids
        /\ v.terms = conns[c].terms - 1
    BY <2>1 DEF Connection
  <2> HIDE DEF v
  <2>3. /\ conns' \in Seq(Connection) /\ DOMAIN conns' = DOMAIN conns
        /\ conns'[c] = v /\ \A d \in DOMAIN conns \ {c} : conns'[d] = conns[d]
        /\ \A d \in DOMAIN conns : conns[d] \in Connection /\ conns'[d].id = conns[d].id
    BY <2>1, <2>2, ConnectionChanges, Zenon
  <2>4. /\ sessions' \in [Ids -> Nat] /\ sessions'[i] = 0
        /\ \A j \in Ids \ {i} : sessions'[j] = sessions[j]
    BY <2>1, <2>2 DEF Table
  <2>5. Table'
    BY <2>1, <2>3, <2>4 DEF Table
  <2>6. Alone'
    BY <2>1, <2>2, <2>3, <2>4 DEF Alone, Connection
  <2>7. Listener!EndedIsRemoved'
    BY <2>1, <2>2, <2>3, <2>4, SMTT(30) DEF Listener!EndedIsRemoved, Table, Connection
  <2>. QED  BY <2>5, <2>6, <2>7
<1>7. CASE Listener!CloseHub
  BY <1>7 DEF Listener!CloseHub, Table, Alone, Listener!EndedIsRemoved
<1>8. CASE Listener!CloseSessions
  <2>1. /\ closing' # "no" /\ UNCHANGED <<hub, hand, sessions>>
        /\ conns' = [c \in DOMAIN conns |->
                       IF \E i \in Ids : sessions[i] = c
                       THEN [conns[c] EXCEPT !.terms = @ + 1, !.killed = TRUE] ELSE conns[c]]
    BY <1>8, Zenon DEF Listener!CloseSessions
  <2>2. \A c \in DOMAIN conns :
          /\ conns[c] \in Connection /\ conns'[c] \in Connection
          /\ conns'[c].id = conns[c].id /\ conns'[c].over = conns[c].over
          /\ conns'[c].terms >= conns[c].terms
    <3> SUFFICES ASSUME NEW c \in DOMAIN conns
                 PROVE  /\ conns[c] \in Connection /\ conns'[c] \in Connection
                        /\ conns'[c].id = conns[c].id /\ conns'[c].over = conns[c].over
                        /\ conns'[c].terms >= conns[c].terms
      BY SMTT(30)
    <3>1. conns[c] \in Connection
      BY DEF Table
    <3> DEFINE u == [conns[c] EXCEPT !.terms = @ + 1]
               v == [u EXCEPT !.killed = TRUE]
    <3>2. conns'[c] = v \/ conns'[c] = conns[c]
      BY <2>1, Zenon
    <3>3. /\ v \in Connection /\ v.id = conns[c].id /\ v.over = conns[c].over
          /\ v.terms = conns[c].terms + 1 /\ conns[c].terms \in Nat
      <4>1. /\ u \in Connection /\ u.id = conns[c].id /\ u.over = conns[c].over
            /\ u.terms = conns[c].terms + 1 /\ conns[c].terms \in Nat
        BY <3>1 DEF Connection
      <4> HIDE DEF u
      <4>. QED  BY <4>1, Zenon DEF Connection
    <3> HIDE DEF u, v
    <3>. QED  BY <3>1, <3>2, <3>3
  <2>3. conns' \in Seq(Connection) /\ DOMAIN conns' = DOMAIN conns
    <3>1. Len(conns) \in Nat /\ DOMAIN conns = 1..Len(conns)
      BY DEF Table
    <3>2. conns' = [c \in 1..Len(conns) |-> conns'[c]]
      BY <2>1, <3>1, Zenon
    <3>3. \A c \in 1..Len(conns) : conns'[c] \in Connection
      BY <2>2, <3>1, SMTT(30)
    <3>. QED  BY <3>1, <3>2, <3>3
  <2>4. Table'
    BY <2>1, <2>2, <2>3, ZenonT(60) DEF Table
  <2>. Alone'
    BY <2>1, ZenonT(60) DEF Alone
  <2>5. Listener!EndedIsRemoved'
    <3> SUFFICES ASSUME NEW i \in Ids, sessions[i] # 0, conns'[sessions[i]].over
                 PROVE  conns'[sessions[i]].terms > 0
      BY <2>1, Zenon DEF Listener!EndedIsRemoved
    <3>1. sessions[i] \in DOMAIN conns
      BY DEF Table
    <3>2. conns[sessions[i]].terms > 0 /\ conns[sessions[i]].terms \in Nat
      BY <2>2, <3>1 DEF Listener!EndedIsRemoved, Connection
    <3>3. conns'[sessions[i]].terms \in Nat
      BY <2>2, <3>1, SMTT(30) DEF Connection
    <3>. QED  BY <2>2, <3>1, <3>2, <3>3, SMTT(30)
  <2>. QED  BY <2>4, <2>5, SMTT(30)
<1>9. CASE UNCHANGED Listener!vars
  BY <1>9 DEF Listener!vars, Table, Alone, Listener!EndedIsRemoved
<1>. QED  BY <1>1, <1>2, <1>3, <1>4, <1>5, <1>6, <1>7, <1>8, <1>9, SMTT(30) DEF Listener!Next

\* Listener.OnReceive and Remove: however packets, timeouts and Close interleave, a
\* connection that has ended is about to leave the table, so that the next packet of
\* its id makes a new one; and a connection that lives is the one that gets the packets of
\* its id, as long as no connection enters StateTerminated twice and the listener is open.
THEOREM PacketsFindConnections ==
  Listener!Spec => [](Listener!LiveIsFound /\ Listener!EndedIsRemoved)
<1>1. Listener!Init => ListenerInv
  BY DEF Listener!Init, ListenerInv, Table, Alone, Listener!EndedIsRemoved
<1>2. ListenerInv => Listener!LiveIsFound /\ Listener!EndedIsRemoved
  BY DEF ListenerInv, Alone, Listener!LiveIsFound
<1>. QED  BY <1>1, <1>2, ListenerStep, PTL DEF Listener!Spec

-----------------------------------------------------------------------------
(* How a connection ends (module KcpClose): NetCap is that of KcpArq, the  *)
(* other constants and the variables are its own.                          *)

CONSTANTS MaxData, Timeouts, ServerMayClose
VARIABLES state, sending, pushed, arrived, read, rpc, wire

Ending == INSTANCE KcpClose WITH MaxPush <- MaxData, window <- arrived, net <- wire

\* The client has given up its side.
Over == state["client"] \in {"Terminating", "Terminated"}

\* Until then it keeps what has not arrived; afterwards everything has.
Kept ==
  /\ state["client"] \in {"Active", "ReadyToClose", "Terminating", "Terminated"}
  /\ \A n \in 0..(pushed - 1) : n \in Ending!Received \/ (~Over /\ n \in sending)

\* Whatever says that the client is over is true: its own commands, and what the server,
\* which closes when it has seen EOF, says in return; acknowledgements are true.
Told ==
  /\ rpc = "eof" \/ state["server"] \notin {"Active", "PeerClosed"} => Over
  /\ \A packet \in wire :
       /\ packet.kind = "terminate" => Over
       /\ packet.to = "client" =>
            /\ packet.close => Over
            /\ packet.numbers \subseteq Ending!Received

EndingInv == Ending!TypeOK /\ Kept /\ Told

\* What was received stays received, and the reader takes it in order.
LEMMA ReaderTakes ==
  ASSUME MaxData \in Nat, Ending!TypeOK, read \in arrived, Ending!ReaderReads
  PROVE  /\ read' \in 0..MaxData /\ arrived' \subseteq arrived
         /\ Ending!Received \subseteq Ending!Received'
<1> USE DEF Ending!Numbers
<1> DEFINE Gap == {n \in 0..MaxData : n > read /\ n \notin arrived}
           Taken(n) == read..(n - 1) \subseteq arrived /\ n > read /\ n \notin arrived
<1>1. MaxData \in Gap /\ Gap \in SUBSET Nat
  BY DEF Ending!TypeOK
<1>2. PICK least \in Gap : \A n \in Gap : least <= n
  BY <1>1, LeastNumber, ZenonT(60)
<1>3. least \in 0..MaxData /\ Taken(least)
  BY <1>2 DEF Ending!TypeOK
<1>4. read' = CHOOSE n \in 0..MaxData : Taken(n)
  BY DEF Ending!ReaderReads
<1>5. read' \in 0..MaxData /\ Taken(read')
  BY <1>3, <1>4
<1>6. arrived' = {n \in arrived : n >= read'}
  BY DEF Ending!ReaderReads
<1>7. ASSUME NEW n \in Ending!Received PROVE n \in Ending!Received'
  <2>1. n \in Ending!Numbers /\ (n < read \/ n \in arrived)
    BY <1>7 DEF Ending!Received, Ending!TypeOK
  <2>2. read \in Int /\ (n < read \/ n >= read)
    BY <2>1 DEF Ending!TypeOK
  <2>. QED  BY <1>5, <1>6, <2>1, <2>2 DEF Ending!Received, Ending!TypeOK
<1>. QED  BY <1>5, <1>6, <1>7

\* An end transmits packets of its own, which keep what is told.
LEMMA EndTransmits ==
  ASSUME EndingInv, NEW packets, Ending!Transmit(packets),
         UNCHANGED <<arrived, read, rpc>>,
         state'["server"] = state["server"] \/ Over', Over => Over',
         \A packet \in packets :
           /\ packet \in Ending!Packets
           /\ packet.kind = "terminate" => Over'
           /\ packet.to = "client" =>
                /\ packet.close => Over'
                /\ packet.numbers \subseteq Ending!Received
  PROVE  wire' \subseteq Ending!Packets /\ Told'
<1>1. \A packet \in wire' : packet \in wire \/ packet \in packets
  BY DEF Ending!Transmit
<1>2. Ending!Received' = Ending!Received
  BY DEF Ending!Received
<1>. QED  BY <1>1, <1>2 DEF EndingInv, Ending!TypeOK, Told

\* The applications.
LEMMA ApplicationSteps ==
  ASSUME MaxData \in Nat, EndingInv, ServerMayClose = FALSE,
         \/ Ending!Write \/ Ending!ReaderLooks \/ Ending!ReaderReads \/ Ending!ReaderChecks
         \/ \E e \in Ending!Ends : Ending!Close(e)
  PROVE  EndingInv'
<1> USE DEF EndingInv
<1>1. CASE Ending!Write
  <2>1. /\ sending' = sending \cup {pushed} /\ pushed' = pushed + 1 /\ pushed < MaxData
        /\ UNCHANGED <<state, arrived, read, rpc, wire>> /\ state["client"] = "Active"
    BY <1>1 DEF Ending!Write
  <2>2. Ending!TypeOK'
    BY <2>1, SMTT(30) DEF Ending!TypeOK, Ending!Numbers
  <2>3. Kept' /\ Told'
    BY <2>1, SMTT(30) DEF Kept, Told, Over, Ending!Received, Ending!TypeOK
  <2>. QED  BY <2>2, <2>3
<1>2. CASE Ending!ReaderLooks
  BY <1>2, SMTT(30) DEF Ending!ReaderLooks, Ending!Closing, Ending!TypeOK, Kept, Told, Over, Ending!Received
<1>3. CASE Ending!ReaderChecks
  BY <1>3 DEF Ending!ReaderChecks, Ending!TypeOK, Kept, Told, Over, Ending!Received
<1>4. CASE Ending!ReaderReads
  <2>1. rpc' \in {"top", "check"} /\ UNCHANGED <<state, sending, pushed, wire>>
    BY <1>4 DEF Ending!ReaderReads
  <2>2. /\ read' \in 0..MaxData /\ arrived' \subseteq arrived
        /\ Ending!Received \subseteq Ending!Received'
    <3>1. CASE read \in arrived
      BY <1>4, <3>1, ReaderTakes
    <3>2. CASE read \notin arrived
      BY <1>4, <3>2 DEF Ending!ReaderReads, Ending!Received, Ending!TypeOK
    <3>. QED  BY <3>1, <3>2
  <2>3. Ending!TypeOK'
    BY <2>1, <2>2 DEF Ending!TypeOK
  <2>. Over' = Over
    BY <2>1, SMTT(30) DEF Over
  <2>4. Kept' /\ Told'
    BY <2>1, <2>2 DEF Kept, Told
  <2>. QED  BY <2>3, <2>4
<1>5. ASSUME NEW e \in Ending!Ends, Ending!Close(e) PROVE EndingInv'
  <2>1. /\ state' = [state EXCEPT ![e] = Ending!CloseState(state[e])]
        /\ UNCHANGED <<pushed, arrived, read, rpc, wire>>
        /\ state[e] \notin Ending!Closing
        /\ e = "server" => rpc = "eof"
    BY <1>5 DEF Ending!Close, Ending!SetState
  <2>2. Ending!CloseState(state[e]) \in Ending!States
    BY DEF Ending!CloseState, Ending!TypeOK, Ending!States
  <2>3. sending' = sending
    <3>1. CASE e = "server"
      BY <1>5, <3>1 DEF Ending!Close, Ending!SetState
    <3>2. CASE e = "client"
      <4>1. state[e] = "Active"
        BY <2>1, <3>2 DEF Kept, Ending!Closing
      <4>. QED  BY <1>5, <4>1 DEF Ending!Close, Ending!SetState, Ending!WindowIn, Ending!CloseState, Ending!ClearsWindow
    <3>. QED  BY <3>1, <3>2 DEF Ending!Ends
  <2>4. Ending!TypeOK'
    BY <2>1, <2>2, <2>3, SMTT(30) DEF Ending!TypeOK
  <2>5. CASE e = "server"
    <3>1. Over /\ state'["client"] = state["client"]
      BY <2>1, <2>5, SMTT(30) DEF Told, Ending!TypeOK, Ending!Ends
    <3>. QED  BY <2>1, <2>3, <2>4, <3>1, SMTT(30) DEF Kept, Told, Over, Ending!Received
  <2>6. CASE e = "client"
    <3>1. /\ state["client"] = "Active" /\ state'["client"] = "ReadyToClose"
          /\ state'["server"] = state["server"]
      BY <2>1, <2>6 DEF Kept, Ending!TypeOK, Ending!Ends, Ending!Closing, Ending!CloseState
    <3>. QED  BY <2>1, <2>3, <2>4, <3>1 DEF Kept, Told, Over, Ending!Received
  <2>. QED  BY <2>5, <2>6 DEF Ending!Ends
<1>. QED  BY <1>1, <1>2, <1>3, <1>4, <1>5

\* A packet comes in.
LEMMA InputStep ==
  ASSUME MaxData \in Nat, EndingInv, NEW packet \in wire, Ending!Input(packet)
  PROVE  EndingInv'
<1> USE DEF EndingInv
<1> DEFINE e == packet.to
           s == Ending!InputState(state[e], packet)
<1>1. /\ wire' \subseteq wire /\ state' = [state EXCEPT ![e] = s]
      /\ UNCHANGED <<pushed, read, rpc>> /\ state[e] # "Terminated"
  BY DEF Ending!Input, Ending!Take
<1>2. packet \in Ending!Packets
  BY DEF Ending!TypeOK
<1>3. /\ e \in Ending!Ends /\ packet.numbers \subseteq Ending!Numbers
      /\ packet.kind \in Ending!Kinds /\ packet.close \in BOOLEAN
  BY <1>2 DEF Ending!Packets
<1>4. state[e] \in Ending!States /\ s \in Ending!States
  BY <1>3 DEF Ending!TypeOK, Ending!States, Ending!InputState, Ending!OptionState, Ending!TerminateState
<1>5. CASE e = "client"
  <2>1. /\ state'["client"] = s /\ state'["server"] = state["server"]
        /\ sending' = Ending!WindowIn(e, s) \ packet.numbers /\ arrived' = arrived
    BY <1>1, <1>5, SMTT(30) DEF Ending!Input, Ending!TypeOK, Ending!Ends
  <2>2. packet.numbers \subseteq Ending!Received /\ Ending!Received' = Ending!Received
    BY <1>1, <1>5, <2>1 DEF Told, Ending!Received
  <2>3. CASE Over
    <3>1. Over' /\ s \in {"Terminating", "Terminated"}
      BY <1>5, <2>1, <2>3, SMTT(30) DEF Over, Ending!InputState, Ending!OptionState, Ending!TerminateState
    <3>2. Kept' /\ Told'
      BY <1>1, <2>1, <2>2, <2>3, <3>1, SMTT(30) DEF Kept, Told, Over
    <3>3. Ending!TypeOK'
      BY <1>1, <1>4, <2>1, ZenonT(60) DEF Ending!TypeOK, Ending!WindowIn
    <3>. QED  BY <3>2, <3>3
  <2>4. CASE ~Over
    <3>1. packet.kind # "terminate" /\ packet.close = FALSE
      BY <1>3, <1>5, <2>4 DEF Told
    <3>2. s = state["client"]
      BY <1>5, <3>1 DEF Ending!InputState, Ending!OptionState
    <3>3. sending' = sending \ packet.numbers /\ state' = state
      BY <1>1, <1>5, <2>1, <3>2 DEF Ending!WindowIn, Ending!TypeOK
    <3>4. Kept' /\ Told'
      BY <1>1, <2>2, <3>3 DEF Kept, Told, Over
    <3>5. Ending!TypeOK'
      BY <1>1, <2>1, <3>3, ZenonT(60) DEF Ending!TypeOK
    <3>. QED  BY <3>4, <3>5
  <2>. QED  BY <2>3, <2>4, SMTT(30)
<1>6. CASE e = "server"
  <2>1. /\ state'["client"] = state["client"] /\ state'["server"] = s
        /\ sending' = sending /\ arrived' = arrived \cup {n \in packet.numbers : n >= read}
    BY <1>1, <1>6 DEF Ending!Input, Ending!TypeOK, Ending!Ends
  <2>2. Ending!Received \subseteq Ending!Received' /\ Over' = Over
    BY <1>1, <2>1 DEF Ending!Received, Over
  <2>3. Ending!TypeOK'
    BY <1>1, <1>3, <1>4, <2>1 DEF Ending!TypeOK
  <2>4. s \notin {"Active", "PeerClosed"} => Over
    BY <1>6 DEF Told, Ending!InputState, Ending!OptionState, Ending!TerminateState
  <2>5. Kept' /\ Told'
    BY <1>1, <2>1, <2>2, <2>4 DEF Kept, Told
  <2>. QED  BY <2>3, <2>5
<1>. QED  BY <1>3, <1>5, <1>6, SMTT(30) DEF Ending!Ends

\* flush, while no timeout expires.
LEMMA FlushStep ==
  ASSUME MaxData \in Nat, EndingInv, NEW e \in Ending!Ends, Ending!Flush(e, FALSE)
  PROVE  EndingInv'
<1> USE DEF EndingInv
<1>1. /\ state[e] # "Terminated" /\ UNCHANGED <<pushed, arrived, read, rpc>>
      /\ state[e] \in Ending!States /\ Ending!Received' = Ending!Received
  BY DEF Ending!Flush, Ending!TypeOK, Ending!Received
<1> DEFINE p == Ending!Packet(e, "terminate", "Terminating", Ending!PingNumbers(e))
<1>2. Ending!Received \subseteq Ending!Numbers /\ Ending!PingNumbers(e) \subseteq Ending!Received
  BY DEF Ending!Received, Ending!PingNumbers, Ending!TypeOK
<1>3. CASE state[e] = "Terminating" \/ (state[e] = "ReadyToClose" /\ Ending!WindowEmpty(e))
  <2>1. Ending!Transmit({p}) /\ Ending!SetState(e, "Terminating")
    BY <1>3, ZenonT(60) DEF Ending!Flush
  <2>2. /\ state' = [state EXCEPT ![e] = "Terminating"] /\ sending' \in {sending, {}}
        /\ e = "server" => sending' = sending
        /\ state["client"] = "Terminating" => sending' = sending
    BY <2>1 DEF Ending!SetState, Ending!WindowIn, Ending!Ends
  <2>3. Over' /\ (e = "server" => state'["client"] = state["client"])
    BY <1>3, <2>2 DEF Over, Told, Ending!Ends, Ending!TypeOK
  <2>4. Kept'
    BY <1>1, <1>3, <2>2, <2>3 DEF Kept, Over, Ending!WindowEmpty, Ending!TypeOK, Ending!Ends
  <2>5. /\ p \in Ending!Packets /\ p.numbers \subseteq Ending!Received
    BY <1>2 DEF Ending!Packet, Ending!Packets, Ending!Peer, Ending!Ends, Ending!Kinds
  <2>6. wire' \subseteq Ending!Packets /\ Told'
    BY <1>1, <2>1, <2>3, <2>5, EndTransmits
  <2>7. Ending!TypeOK'
    BY <1>1, <2>2, <2>6 DEF Ending!TypeOK, Ending!States
  <2>. QED  BY <2>4, <2>6, <2>7, SMTT(30)
<1>4. CASE ~(state[e] = "Terminating" \/ (state[e] = "ReadyToClose" /\ Ending!WindowEmpty(e)))
  <2>1. Ending!Transmit(Ending!FlushedPackets(e, state[e])) /\ Ending!SetState(e, state[e])
    BY <1>1, <1>4 DEF Ending!Flush, Ending!Linger, Ending!States
  <2>2. state' = state /\ sending' = sending /\ Ending!WindowIn(e, state[e]) = sending
    BY <2>1 DEF Ending!SetState, Ending!WindowIn, Ending!TypeOK
  <2>3. Over' = Over /\ Kept'
    BY <1>1, <2>2, SMTT(30) DEF Kept, Over
  <2>4. ASSUME NEW packet \in Ending!FlushedPackets(e, state[e])
        PROVE  /\ packet \in Ending!Packets /\ packet.kind # "terminate"
               /\ packet.to = "client" => /\ packet.close => Over
                                          /\ packet.numbers \subseteq Ending!Received
    <3>1. PICK kind \in {"data", "ack", "ping"}, numbers \in SUBSET Ending!Numbers :
            /\ packet = Ending!Packet(e, kind, state[e], numbers)
            /\ e = "server" => numbers \subseteq Ending!Received
      <4>1. CASE e = "client"
        <5>1. \/ \E n \in sending : packet = Ending!Packet(e, "data", state[e], {n})
              \/ packet = Ending!Packet(e, "ping", state[e], {})
          BY <2>2, <2>4, <4>1 DEF Ending!FlushedPackets
        <5>2. {} \in SUBSET Ending!Numbers /\ \A n \in sending : {n} \in SUBSET Ending!Numbers
          BY DEF Ending!TypeOK
        <5>. QED  BY <4>1, <5>1, <5>2, Zenon
      <4>2. CASE e = "server"
        <5>1. {n \in Ending!Numbers : n < read} \subseteq Ending!Received
          BY DEF Ending!Received
        <5>2. \/ packet = Ending!Packet(e, "ack", state[e], Ending!Received)
              \/ packet = Ending!Packet(e, "ping", state[e], {n \in Ending!Numbers : n < read})
          BY <2>4, <4>2, SMTT(30) DEF Ending!FlushedPackets
        <5>. QED  BY <1>2, <5>1, <5>2
      <4>. QED  BY <4>1, <4>2 DEF Ending!Ends
    <3>2. /\ packet \in Ending!Packets /\ packet.kind = kind /\ packet.numbers = numbers
          /\ packet.to = Ending!Peer(e) /\ packet.close = (state[e] = "ReadyToClose")
      BY <3>1, SMTT(30) DEF Ending!Packet, Ending!Packets, Ending!Peer, Ending!Ends, Ending!Kinds
    <3>. QED  BY <3>1, <3>2, Zenon DEF Ending!Peer, Ending!Ends, Told
  <2>5. wire' \subseteq Ending!Packets /\ Told'
    BY <1>1, <2>1, <2>2, <2>3, <2>4, EndTransmits, SMTT(30)
  <2>6. Ending!TypeOK'
    BY <1>1, <2>2, <2>5 DEF Ending!TypeOK
  <2>. QED  BY <2>3, <2>5, <2>6
<1>. QED  BY <1>3, <1>4, SMTT(30)

\* Connection.Close and flush: over any network, as long as no timeout expires and the
\* server closes when it has seen EOF, a client that closes gives up only when all it
\* wrote has arrived, and only then does the reader of the server see EOF.
THEOREM ClosesAfterDelivery ==
  ASSUME MaxData \in Nat, Timeouts = FALSE, ServerMayClose = FALSE
  PROVE  Ending!Spec => [](Ending!ClosedAfterDelivery /\ Ending!EofAfterArrival)
<1>1. Ending!Init => EndingInv
  BY DEF Ending!Init, EndingInv, Ending!TypeOK, Ending!States, Ending!Ends, Kept, Told, Over
<1>2. EndingInv /\ [Ending!Next]_(Ending!vars) => EndingInv'
  <2> SUFFICES ASSUME EndingInv, [Ending!Next]_(Ending!vars)
               PROVE  EndingInv'
    OBVIOUS
  <2>1. CASE UNCHANGED Ending!vars
    BY <2>1 DEF Ending!vars, EndingInv, Ending!TypeOK, Kept, Told, Over, Ending!Received
  <2>. QED  BY <2>1, ApplicationSteps, InputStep, FlushStep, Zenon DEF Ending!Next
<1>3. EndingInv => Ending!ClosedAfterDelivery /\ Ending!EofAfterArrival
  BY DEF EndingInv, Kept, Told, Over, Ending!ClosedAfterDelivery, Ending!EofAfterArrival
<1>. QED  BY <1>1, <1>2, <1>3, PTL DEF Ending!Spec

\* A connection of mKCP ends whole: a client's Close loses nothing, EOF comes last, and the
\* listener's table follows its connections.
KcpEndsWhole ==
  /\ Ending!ClosedAfterDelivery /\ Ending!EofAfterArrival
  /\ Listener!LiveIsFound /\ Listener!EndedIsRemoved

\* The two together, under the hypotheses of ClosesAfterDelivery.
THEOREM EndsWhole ==
  ASSUME MaxData \in Nat, Timeouts = FALSE, ServerMayClose = FALSE
  PROVE  Ending!Spec /\ Listener!Spec => []KcpEndsWhole
<1>1. Ending!Spec => [](Ending!ClosedAfterDelivery /\ Ending!EofAfterArrival)
  BY ClosesAfterDelivery, Zenon
<1>. QED  BY <1>1, PacketsFindConnections, PTL DEF KcpEndsWhole
=============================================================================
