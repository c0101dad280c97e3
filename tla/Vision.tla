-------------------------------- MODULE Vision --------------------------------
(***************************************************************************)
(* XTLS Vision (proxy/proxy.go, proxy/vless/encoding/encoding.go): a VLESS *)
(* connection that carries TLS pads the first packets of both directions,  *)
(* and, once both ends have seen that the carried connection is TLS 1.3,   *)
(* leaves its own TLS layer.  Each end guesses this from the traffic that  *)
(* passes it in either direction; the two goroutines of an end share what  *)
(* they have guessed without a lock.  A sender tells the receiver with the *)
(* command of a padded block that padding ends (1) or that what follows is *)
(* on the bare connection (2).                                             *)
(*                                                                         *)
(* A packet is a number and what a filter can tell of it.  On the wire are *)
(* pieces: the user's UUID, the command and the lengths of a block, its    *)
(* content, its padding; a reader gets them in fragments of any size.      *)
(***************************************************************************)
EXTENDS Integers, Sequences, SequencesExt

CONSTANTS
  Talks,       \* which of the Conversations are carried
  ToFilter,    \* NumberOfPacketToFilter of a new state
  MaxBuffers,  \* packets in one MultiBuffer
  Cuts         \* where a fragment may end: inside the "head" of a block, or
               \* before the "padding" of the block that ends TLS

\* A packet: what the filter sees in it, and how much of the other direction
\* must have arrived before it is sent.
Packet(type, after) == [type |-> type, after |-> after]

\* TLS 1.3; with a server hello in two packets; with a cipher Vision does not
\* know; with data before the answer; TLS 1.2; something else.
Conversations ==
  [tls13 |-> [up |-> <<Packet("clientHello", 0), Packet("other", 1), Packet("data", 2), Packet("data", 3)>>,
              down |-> <<Packet("hello13", 1), Packet("data", 1), Packet("data", 2), Packet("data", 3)>>],
   split |-> [up |-> <<Packet("clientHello", 0), Packet("data", 2), Packet("data", 3)>>,
              down |-> <<Packet("helloPart", 1), Packet("rest13", 1), Packet("data", 1)>>],
   old |-> [up |-> <<Packet("clientHello", 0), Packet("data", 1)>>,
            down |-> <<Packet("helloOld", 1), Packet("data", 2)>>],
   early |-> [up |-> <<Packet("clientHello", 0), Packet("data", 0), Packet("other", 0), Packet("data", 0)>>,
              down |-> <<Packet("hello13", 1), Packet("data", 1)>>],
   tls12 |-> [up |-> <<Packet("clientHello", 0), Packet("other", 2), Packet("data", 3)>>,
              down |-> <<Packet("hello12", 1), Packet("other", 1), Packet("other", 2), Packet("data", 3)>>],
   plain |-> [up |-> <<Packet("other", 0), Packet("other", 1), Packet("other", 2)>>,
              down |-> <<Packet("other", 1), Packet("other", 1), Packet("other", 1)>>]]

\* What the constants must satisfy.
VisionAssumption == Talks \subseteq DOMAIN Conversations /\ ToFilter \in Nat /\ MaxBuffers \in Nat \ {0}

VARIABLES
  script,   \* the conversation
  ts,       \* ts[e]: TrafficState of the client or the server
  wr,       \* wr[d]: the writer of a direction
  wire,     \* wire[d]: pieces under way
  got       \* got[d]: what the other end's application has got

vars == <<script, ts, wr, wire, got>>

Directions == {"up", "down"}
Other(d) == IF d = "up" THEN "down" ELSE "up"
WriterOf == [up |-> "client", down |-> "server"]
ReaderOf == [up |-> "server", down |-> "client"]

NewTrafficState ==
  [num |-> ToFilter, enable |-> FALSE, tls |-> FALSE, tls12 |-> FALSE, hello |-> 0,
   within |-> TRUE, head |-> -1, content |-> -1, padding |-> -1, command |-> 0, readRaw |-> FALSE,
   pads |-> TRUE, switch |-> FALSE]

\* mb: the packets of a call of WriteMultiBuffer; out: its pieces so far.
NewWriter ==
  [pc |-> "idle", next |-> 1, mb |-> <<>>, i |-> 1, out |-> <<>>, uuid |-> TRUE, raw |-> FALSE]

Init ==
  /\ script \in {Conversations[t] : t \in Talks}
  /\ ts = [e \in {"client", "server"} |-> NewTrafficState]
  /\ wr = [d \in Directions |-> NewWriter]
  /\ wire = [d \in Directions |-> <<>>]
  /\ got = [d \in Directions |-> <<>>]

-----------------------------------------------------------------------------
\* XtlsFilterTls of one packet.  A server hello may take two packets, of which
\* the second tells the version; "Old": a cipher Vision does not know.  Any
\* packet of either direction counts as a part of an unfinished hello.
Hellos == {"hello13", "hello12", "helloOld", "helloPart"}

FilterOne(f, p) ==
  LET hello == IF p.type \in Hellos THEN (IF p.type = "helloPart" THEN 2 ELSE 1) ELSE f.t.hello
      t == [f.t EXCEPT !.num = @ - 1,
                       !.hello = IF hello > 0 THEN hello - 1 ELSE 0,
                       !.tls12 = @ \/ p.type \in Hellos,
                       !.tls = @ \/ p.type \in Hellos \cup {"clientHello"}]
      known == hello > 0 /\ p.type \in {"hello13", "rest13"}
      stop == known \/ hello = 1
  IN IF f.stop THEN f
     ELSE [t |-> [t EXCEPT !.num = IF stop THEN 0 ELSE @, !.enable = @ \/ known], stop |-> stop]

XtlsFilterTls(t, mb) ==
  LET f[i \in 0..Len(mb)] == IF i = 0 THEN [t |-> t, stop |-> FALSE] ELSE FilterOne(f[i - 1], mb[i])
  IN IF t.num <= 0 THEN t ELSE f[Len(mb)].t

-----------------------------------------------------------------------------
(* The writer: XtlsWrite and VisionWriter.WriteMultiBuffer.                *)

\* XtlsPadding, with or without padding; the UUID goes before the first block.
XtlsPadding(w, content, command, pad) ==
  (IF w.uuid THEN <<[kind |-> "uuid"]>> ELSE <<>>) \o
  <<[kind |-> "command", is |-> command], [kind |-> "length", content |-> Len(content), padding |-> pad]>> \o
  content \o [i \in 1..pad |-> [kind |-> "padding", of |-> command]]

Content(p) == [kind |-> "content", p |-> p]

\* What the application of this end has sent and the direction may carry now.
Ready(d) ==
  {n \in 1..MaxBuffers :
     /\ wr[d].next + n - 1 <= Len(script[d])
     /\ \A i \in wr[d].next..wr[d].next + n - 1 : script[d][i].after <= Len(got[Other(d)])}

\* reader.ReadMultiBuffer, the change to the bare connection, and the filter.
Read(d) ==
  LET e == WriterOf[d]
  IN \E n \in Ready(d) :
       LET mb == SubSeq(script[d], wr[d].next, wr[d].next + n - 1)
           raw == wr[d].raw \/ ts[e].switch
       IN /\ wr[d].pc = "idle"
          /\ ts' = [ts EXCEPT ![e] = XtlsFilterTls([@ EXCEPT !.switch = FALSE], IF raw THEN <<>> ELSE mb)]
          /\ wr' = [wr EXCEPT ![d] = [@ EXCEPT !.pc = IF ~raw /\ ts[e].pads THEN "look" ELSE "write",
                                               !.next = @ + n, !.mb = mb, !.i = 1, !.raw = raw, !.out = <<>>]]
          /\ UNCHANGED <<script, wire, got>>

\* The client has nothing to send within 500 ms: a block without content.
Camouflage ==
  /\ wr["up"].pc = "idle" /\ wr["up"].next = 1 /\ wr["up"].uuid
  /\ wire' = [wire EXCEPT !["up"] = XtlsPadding(wr["up"], <<>>, 0, 1)]
  /\ wr' = [wr EXCEPT !["up"].uuid = FALSE]
  /\ UNCHANGED <<script, ts, got>>

Current(d) == wr[d].mb[wr[d].i]
AtLast(d) == wr[d].i = Len(wr[d].mb)

\* One packet of the loop is done; with the last, or by "break", so is the loop.
Emit(d, command, break) ==
  \E pad \in {0, 1} :
    LET w == wr[d]
        block == w.out \o XtlsPadding(w, <<Content(Current(d))>>, command, pad)
        rest == IF break THEN [i \in 1..Len(w.mb) - w.i |-> Content(w.mb[w.i + i])] ELSE <<>>
    IN wr' = [wr EXCEPT ![d] = [w EXCEPT !.out = block \o rest, !.uuid = FALSE, !.i = @ + 1,
                                         !.pc = IF break \/ AtLast(d) THEN "write" ELSE "look"]]

\* Mutant: application data ends the padding even if it is not the last packet.
LookEarly(d) ==
  LET e == WriterOf[d]
  IN /\ wr[d].pc = "look"
     /\ ts[e].tls /\ Current(d).type = "data"
     /\ ts' = [ts EXCEPT ![e].switch = @ \/ ts[e].enable, ![e].pads = FALSE]
     /\ Emit(d, IF ts[e].enable THEN 2 ELSE 1, FALSE)
     /\ UNCHANGED <<script, wire, got>>

\* TLS application data: the first look at EnableXtls.
LookData(d) ==
  LET e == WriterOf[d]
  IN /\ wr[d].pc = "look"
     /\ ts[e].tls /\ Current(d).type = "data"
     /\ ts' = [ts EXCEPT ![e].switch = @ \/ ts[e].enable]
     /\ wr' = [wr EXCEPT ![d].pc = "command"]
     /\ UNCHANGED <<script, wire, got>>

\* The command, with a second look.
CommandData(d) ==
  LET e == WriterOf[d]
  IN /\ wr[d].pc = "command"
     /\ ts' = [ts EXCEPT ![e].pads = FALSE]
     /\ Emit(d, IF ~AtLast(d) THEN 0 ELSE IF ts[e].enable THEN 2 ELSE 1, FALSE)
     /\ UNCHANGED <<script, wire, got>>

\* Any other packet; the padding ends early if this does not look like TLS.
LookOther(d) ==
  LET e == WriterOf[d]
      early == ~ts[e].tls12 /\ ts[e].num <= 1
  IN /\ wr[d].pc = "look"
     /\ ~(ts[e].tls /\ Current(d).type = "data")
     /\ ts' = [ts EXCEPT ![e].pads = @ /\ ~early]
     /\ Emit(d, IF early THEN 1 ELSE IF ~AtLast(d) \/ ts[e].pads THEN 0 ELSE IF ts[e].enable THEN 2 ELSE 1, early)
     /\ UNCHANGED <<script, wire, got>>

\* The write to the TLS layer or to the bare connection.
Write(d) ==
  LET w == wr[d]
      bare == [i \in DOMAIN w.mb |-> [kind |-> IF w.raw THEN "raw" ELSE "content", p |-> w.mb[i]]]
  IN /\ w.pc = "write"
     /\ wire' = [wire EXCEPT ![d] = @ \o IF w.out = <<>> THEN bare ELSE w.out]
     /\ wr' = [wr EXCEPT ![d].pc = "idle"]
     /\ UNCHANGED <<script, ts, got>>

-----------------------------------------------------------------------------
(* The reader: XtlsRead and VisionReader.ReadMultiBuffer.                  *)

Garbage == [kind |-> "content", p |-> [type |-> "garbage"]]

\* The end of a block: another follows, or nothing is padded any more.
BlockDone(u) ==
  IF u.head > 0 \/ u.content > 0 \/ u.padding > 0 THEN u
  ELSE IF u.command = 0 THEN [u EXCEPT !.head = 2]
  ELSE [u EXCEPT !.head = -1, !.content = -1, !.padding = -1, !.over = TRUE]

\* One piece of a buffer.  A piece that is read as what it is not is garbage.
UnpadPiece(u, x) ==
  IF u.over THEN [u EXCEPT !.out = Append(@, x)]
  ELSE BlockDone(
    CASE u.head = 2 /\ x.kind = "command" -> [u EXCEPT !.head = 1, !.command = x.is]
      [] u.head = 1 /\ x.kind = "length" -> [u EXCEPT !.head = 0, !.content = x.content, !.padding = x.padding]
      [] u.head <= 0 /\ u.content > 0 /\ x.kind = "content" -> [u EXCEPT !.content = @ - 1, !.out = Append(@, x)]
      [] u.head <= 0 /\ u.content <= 0 /\ x.kind = "padding" -> [u EXCEPT !.padding = @ - 1]
      [] OTHER -> [u EXCEPT !.out = Append(@, Garbage)])

\* XtlsUnpadding of a buffer: outside of a block it must begin with the UUID.
XtlsUnpadding(t, b) ==
  LET begins == t.head = -1 /\ t.content = -1 /\ t.padding = -1
      u == [head |-> IF begins THEN 2 ELSE t.head, content |-> t.content, padding |-> t.padding,
            command |-> t.command, over |-> FALSE, out |-> <<>>]
      c == IF begins THEN Tail(b) ELSE b
      f[i \in 0..Len(c)] == IF i = 0 THEN u ELSE UnpadPiece(f[i - 1], c[i])
  IN IF begins /\ Head(b).kind # "uuid" THEN [u EXCEPT !.head = -1, !.out = b] ELSE f[Len(c)]

\* What VisionReader concludes from it.
AfterUnpadding(t) ==
  IF t.content > 0 \/ t.padding > 0 \/ t.command = 0 THEN [t EXCEPT !.within = TRUE]
  ELSE [t EXCEPT !.within = FALSE, !.readRaw = @ \/ t.command = 2]

Packets(out) == [i \in DOMAIN out |-> IF out[i].kind = "content" THEN out[i].p ELSE [type |-> "garbage"]]

\* A fragment: the pieces TLS has for a Read.  The UUID comes with its block's
\* head; a command comes with its lengths, and the padding of the last block of
\* TLS with its content, unless they may be cut.
Fragments(d) ==
  {n \in 1..Len(wire[d]) :
     /\ \A i \in 1..n : wire[d][i].kind # "raw"
     /\ wire[d][n].kind # "uuid"
     /\ wire[d][n].kind = "command" => "head" \in Cuts /\ (n = 1 \/ wire[d][n - 1].kind # "uuid")
     /\ n < Len(wire[d]) /\ wire[d][n + 1].kind = "padding" =>
          "padding" \in Cuts \/ wire[d][n + 1].of # 2}

\* What is on the bare connection behind a fragment: TLS may have read of it.
RawAfter(d, n) ==
  {k \in 0..Len(wire[d]) - n : \A i \in n + 1..n + k : wire[d][i].kind = "raw"}

\* A Read.  When it is the last of TLS, input and rawInput are taken over, but
\* only behind something to deliver.
ReadTls(d) ==
  LET e == ReaderOf[d]
  IN /\ ~ts[e].readRaw
     /\ \E n \in Fragments(d) : \E k \in RawAfter(d, n) :
          LET b == SubSeq(wire[d], 1, n)
              u == XtlsUnpadding(ts[e], b)
              looks == ts[e].within \/ ts[e].num > 0
              t == IF looks THEN AfterUnpadding([ts[e] EXCEPT !.head = u.head, !.content = u.content,
                                                              !.padding = u.padding, !.command = u.command])
                   ELSE ts[e]
              mb == Packets(IF looks THEN u.out ELSE b)
              ahead == IF t.readRaw THEN k ELSE 0
              rawInput == [i \in 1..ahead |-> wire[d][n + i].p]
          IN /\ k > 0 => t.readRaw
             /\ ts' = [ts EXCEPT ![e] = XtlsFilterTls(t, mb)]
             /\ got' = [got EXCEPT ![d] = @ \o mb \o IF mb = <<>> THEN <<>> ELSE rawInput]
             /\ wire' = [wire EXCEPT ![d] = SubSeq(@, n + ahead + 1, Len(@))]
     /\ UNCHANGED <<script, wr>>

\* CopyRawConnIfExist, after what the TLS layer had read ahead; a TLS layer
\* that meets what is not a record, and the converse, yield garbage.
ReadBare(d) ==
  LET bare == wire[d] # <<>> /\ Head(wire[d]).kind = "raw"
  IN /\ wire[d] # <<>> /\ (bare \/ ts[ReaderOf[d]].readRaw)
     /\ got' = [got EXCEPT ![d] = Append(@, IF bare /\ ts[ReaderOf[d]].readRaw THEN Head(wire[d]).p
                                             ELSE [type |-> "garbage"])]
     /\ wire' = [wire EXCEPT ![d] = Tail(@)]
     /\ UNCHANGED <<script, ts, wr>>

-----------------------------------------------------------------------------
Step(d) ==
  \/ Read(d) \/ LookData(d) \/ CommandData(d) \/ LookOther(d) \/ Write(d)
  \/ ReadTls(d) \/ ReadBare(d)

Next == Camouflage \/ \E d \in Directions : Step(d)

Spec == Init /\ [][Next]_vars

-----------------------------------------------------------------------------
TypeOK ==
  /\ \A e \in {"client", "server"} :
       ts[e].num <= ToFilter /\ ts[e].head \in -1..2 /\ ts[e].command \in 0..2
  /\ \A d \in Directions : wr[d].next \in 1..Len(script[d]) + 1

(* However the packets are grouped, padded and fragmented, and whenever    *)
(* each end makes up its mind, both applications get exactly what was      *)
(* sent, in order: no padding is taken for content, neither end leaves TLS *)
(* or stops to unpad at another place than the other, and when nothing is  *)
(* under way nothing is missing.                                           *)
BothIntact ==
  \A d \in Directions :
    /\ IsPrefix(got[d], script[d])
    /\ wire[d] = <<>> /\ wr[d].pc = "idle" => Len(got[d]) = wr[d].next - 1

(* "XTLS Vision processes struct TLS Conn's input and rawInput"            *)
(* (encoding.go:197): once the reader has left TLS, what TLS had read      *)
(* ahead of the bare connection is delivered too, so that nothing is       *)
(* missing when nothing is under way.                                      *)
ReadAheadKept ==
  \A d \in Directions :
    ts[ReaderOf[d]].readRaw /\ wire[d] = <<>> /\ wr[d].pc = "idle" => Len(got[d]) = wr[d].next - 1

(* A conversation in TLS 1.3 that goes on ends on the bare connection, in  *)
(* both directions.                                                        *)
LeavesTls ==
  \A d \in Directions :
    (\E i \in DOMAIN script.down : script.down[i].type \in {"hello13", "rest13"})
       /\ got[d] = script[d] /\ Len(script[d]) > 1
    => ts[ReaderOf[d]].readRaw
================================================================================
