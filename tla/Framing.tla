-------------------------------- MODULE Framing --------------------------------
(***************************************************************************)
(* Chunked streams (common/crypto/auth.go, chunk.go) and the splitting of  *)
(* MultiBuffers under them (common/buf/multi_buffer.go), as VMess and      *)
(* Shadowsocks use them.  A chunk has its size before it, masked, and      *)
(* padding behind it.  The masks and the lengths of the paddings are drawn *)
(* by both ends from generators with the same seed, so that the two must   *)
(* draw the same number of values for the same chunk.                      *)
(*                                                                         *)
(* A masked size is the place of the mask that was used and the size: with *)
(* any other mask it is unreadable.  Bytes are numbered as they are given  *)
(* to the writer; the reader gets what has arrived, in parts of any size.  *)
(***************************************************************************)
EXTENDS Integers, Sequences, FiniteSets, SequencesExt

CONSTANTS
  Kind,         \* "stream" or "packet": AuthenticationWriter; "chunk": ChunkStreamWriter
  Masked,       \* whether sizes are masked and chunks padded
  BufSize,      \* buf.Size, 8192
  SliceSize,    \* sliceSize of ChunkStreamWriter, 8192
  Overhead, SizeBytes, MaxPadding,
  Lengths,      \* lengths of the buffers that are written
  MaxCalls,     \* bound: calls of WriteMultiBuffer, of at most two buffers
  ReadSize      \* readSize, 16

\* What the constants must satisfy.
FramingAssumption ==
  /\ Kind \in {"stream", "packet", "chunk"} /\ Masked \in BOOLEAN
  /\ BufSize > Overhead + SizeBytes + MaxPadding /\ ReadSize \in Nat \ {0}

VARIABLES
  calls, last,    \* calls made, last byte given to the writer
  todo,           \* pieces the writer has yet to seal
  batch,          \* mb2Write
  shake,          \* lengths of padding that have been drawn, by place
  wpos, rpos,     \* places of the two generators
  wire,           \* chunks under way
  rd,             \* the reader
  sent, got,      \* pieces put on the wire, and what the reader has returned
  ended           \* the writer: "no", "end" written, or "error"

vars == <<calls, last, todo, batch, shake, wpos, rpos, wire, rd, sent, got, ended>>
writerVars == <<calls, last, todo, batch, wpos, sent, ended>>

NewReader == [soft |-> 0, hasSize |-> FALSE, padding |-> 0, left |-> 0, done |-> FALSE, mb |-> <<>>]

Init ==
  /\ calls = 0 /\ last = 0 /\ todo = <<>> /\ batch = <<>>
  /\ shake = <<>> /\ wpos = 0 /\ rpos = 0
  /\ wire = <<>> /\ rd = NewReader
  /\ sent = <<>> /\ got = <<>> /\ ended = "no"

-----------------------------------------------------------------------------
(* MultiBuffers: sequences of buffers, which are sequences of bytes.       *)

MinOf(a, b) == IF a < b THEN a ELSE b
Flat(mb) == FlattenSeq(mb)

\* SplitSize: whole buffers while they fit, or a part of the first.
SplitSize(mb, size) ==
  LET fits == {i \in 1..Len(mb) : Len(Flat(SubSeq(mb, 1, i))) <= size}
      n == Cardinality(fits)
  IN IF mb = <<>> THEN [rest |-> mb, part |-> <<>>]
     ELSE IF Len(mb[1]) > size
       THEN [rest |-> <<SubSeq(mb[1], size + 1, Len(mb[1]))>> \o Tail(mb), part |-> <<SubSeq(mb[1], 1, size)>>]
     ELSE [rest |-> SubSeq(mb, n + 1, Len(mb)), part |-> SubSeq(mb, 1, n)]

\* SplitBytes: as many bytes as there is room for.
SplitBytes(mb, room) ==
  LET bytes == Flat(mb)
      n == MinOf(room, Len(bytes))
  IN [rest |-> <<SubSeq(bytes, n + 1, Len(bytes))>>, part |-> SubSeq(bytes, 1, n)]

\* The pieces of a MultiBuffer, in the loops of writeStream and WriteMultiBuffer.
RECURSIVE StreamPieces(_, _)
StreamPieces(mb, room) ==
  LET s == SplitBytes(mb, room)
  IN <<s.part>> \o IF Flat(s.rest) = <<>> THEN <<>> ELSE StreamPieces(s.rest, room)

RECURSIVE ChunkPieces(_)
ChunkPieces(mb) ==
  LET s == SplitSize(mb, SliceSize)
  IN <<Flat(s.part)>> \o IF Flat(s.rest) = <<>> THEN <<>> ELSE ChunkPieces(s.rest)

-----------------------------------------------------------------------------
(* The writer.                                                             *)

\* payloadSize of writeStream.
PayloadSize == BufSize - Overhead - SizeBytes - IF Masked THEN MaxPadding ELSE 0

\* WriteMultiBuffer begins, with the loop that makes the pieces.
WriteMultiBuffer ==
  \E n \in 0..2 : \E len \in [1..n -> Lengths] :
    LET start(i) == last + IF i = 1 THEN 0 ELSE len[1]
        mb == [i \in 1..n |-> [j \in 1..len[i] |-> start(i) + j]]
        pieces == IF Flat(mb) = <<>> THEN << <<>> >>
                  ELSE CASE Kind = "stream" -> StreamPieces(mb, PayloadSize)
                         [] Kind = "packet" -> SelectSeq(mb, LAMBDA b : b # <<>>)
                         [] OTHER -> ChunkPieces(mb)
    IN /\ ended = "no" /\ todo = <<>> /\ batch = <<>>
       /\ calls < MaxCalls /\ calls' = calls + 1
       /\ last' = last + Len(Flat(mb))
       /\ todo' = pieces
       /\ UNCHANGED <<batch, shake, wpos, rpos, wire, rd, sent, got, ended>>

Padded == Masked /\ Kind # "chunk"

\* The next length of padding at a place: what was drawn there, or any.
Drawn(place) == IF place <= Len(shake) THEN {shake[place]} ELSE 0..MaxPadding - 1

\* Mutant: the size is masked before the padding is drawn.
SealSwapped ==
  LET bytes == Head(todo)
      next == IF Padded THEN wpos + 1 ELSE wpos
  IN \E pad \in IF Padded THEN Drawn(next + 1) ELSE {0} :
       LET size == Len(bytes) + pad + IF Kind = "chunk" THEN 0 ELSE Overhead
       IN /\ todo # <<>> /\ todo' = Tail(todo)
          /\ wpos' = IF Masked THEN next + 1 ELSE next
          /\ shake' = IF Padded /\ next >= Len(shake) THEN shake \o <<0, pad>> ELSE shake
          /\ batch' = Append(batch, [at |-> wpos + 1, size |-> size, bytes |-> bytes])
          /\ UNCHANGED <<calls, last, rpos, wire, rd, sent, got, ended>>

\* seal of one piece: the padding is drawn, the size is masked.  In a packet
\* stream a piece that is too large is left out, after the draw.
Seal ==
  LET bytes == Head(todo)
      place == wpos + 1
      drawn == IF Padded THEN place ELSE wpos
  IN \E pad \in IF Padded THEN Drawn(place) ELSE {0} :
       LET size == Len(bytes) + pad + IF Kind = "chunk" THEN 0 ELSE Overhead
           large == Kind # "chunk" /\ SizeBytes + size > BufSize
       IN /\ todo # <<>>
          /\ shake' = IF Padded /\ place > Len(shake) THEN shake \o <<pad, 0>> ELSE shake
          /\ wpos' = IF Masked /\ ~large THEN drawn + 1 ELSE drawn
          /\ IF large /\ Kind = "stream"
               THEN todo' = <<>> /\ batch' = <<>> /\ ended' = "error"
               ELSE /\ todo' = Tail(todo)
                    /\ batch' = IF large THEN batch
                                ELSE Append(batch, [at |-> wpos', size |-> size, bytes |-> bytes])
                    /\ UNCHANGED ended
          /\ UNCHANGED <<calls, last, rpos, wire, rd, sent, got>>

\* The chunks of a call go to the connection; an empty one ends the stream.
Flush ==
  /\ todo = <<>> /\ batch # <<>>
  /\ wire' = wire \o batch
  /\ sent' = sent \o [i \in DOMAIN batch |-> batch[i].bytes]
  /\ batch' = <<>>
  /\ ended' = IF \E i \in DOMAIN batch : batch[i].bytes = <<>> THEN "end" ELSE ended
  /\ UNCHANGED <<calls, last, todo, shake, wpos, rpos, rd, got>>

-----------------------------------------------------------------------------
(* The reader.                                                             *)

\* readSize: the padding and the mask are drawn, unless the size is known.
Place == IF rd.hasSize THEN rpos ELSE rpos + (IF Padded THEN 1 ELSE 0) + (IF Masked THEN 1 ELSE 0)
Padding == IF ~Padded THEN 0 ELSE IF rd.hasSize THEN rd.padding ELSE shake[rpos + 1]
Readable == ~Masked \/ Head(wire).at = Place

Unreadable == << -1 >>

\* readInternal of AuthenticationReader; soft after the first chunk of a call.
\* arrived: nothing, the size, or the whole of the next chunk.
ReadChunk(arrived) ==
  LET c == Head(wire)
      end == Readable /\ c.size = Overhead + Padding
  IN /\ Kind # "chunk" /\ ~rd.done /\ wire # <<>>
     /\ arrived = "whole" \/ rd.soft > 0
     /\ rd.soft < ReadSize
     /\ rpos' = Place
     /\ IF end
          THEN /\ wire' = Tail(wire)
               /\ rd' = [rd EXCEPT !.done = TRUE, !.hasSize = FALSE, !.soft = 0, !.mb = <<>>]
               /\ got' = got \o rd.mb
          ELSE IF arrived = "size"
            THEN /\ rd' = [rd EXCEPT !.hasSize = TRUE, !.padding = Padding, !.soft = 0, !.mb = <<>>]
                 /\ got' = got \o rd.mb
                 /\ UNCHANGED wire
            ELSE /\ wire' = Tail(wire)
                 /\ rd' = [rd EXCEPT !.hasSize = FALSE, !.soft = @ + 1,
                                     !.mb = Append(@, IF Readable THEN SubSeq(c.bytes, 1, c.size - Padding - Overhead)
                                                      ELSE Unreadable)]
                 /\ UNCHANGED got
     /\ UNCHANGED <<writerVars, shake>>

\* errSoft before a size, or the last round: the call returns.
ReadReturns ==
  /\ rd.soft > 0
  /\ got' = got \o rd.mb
  /\ rd' = [rd EXCEPT !.soft = 0, !.mb = <<>>]
  /\ UNCHANGED <<writerVars, shake, rpos, wire>>

\* ReadMultiBuffer of ChunkStreamReader: a size, and any part of what it announces.
ReadPart ==
  LET c == Head(wire)
      left == IF rd.left > 0 THEN rd.left ELSE c.size
  IN /\ Kind = "chunk" /\ ~rd.done /\ wire # <<>>
     /\ rpos' = IF rd.left > 0 THEN rpos ELSE Place
     /\ IF left = 0
          THEN rd' = [rd EXCEPT !.done = TRUE] /\ wire' = Tail(wire) /\ UNCHANGED got
          ELSE \E n \in 1..left :
                 LET done == c.size - left
                 IN /\ rd' = [rd EXCEPT !.left = left - n]
                    /\ wire' = IF n = left THEN Tail(wire) ELSE wire
                    /\ got' = Append(got, IF rd.left > 0 \/ Readable THEN SubSeq(c.bytes, done + 1, done + n)
                                          ELSE Unreadable)
     /\ UNCHANGED <<writerVars, shake>>

Next ==
  \/ WriteMultiBuffer \/ Seal \/ Flush
  \/ \E arrived \in {"size", "whole"} : ReadChunk(arrived)
  \/ ReadReturns \/ ReadPart

Spec == Init /\ [][Next]_vars

-----------------------------------------------------------------------------
TypeOK ==
  /\ calls \in 0..MaxCalls /\ rd.soft \in 0..ReadSize
  /\ ended \in {"no", "end", "error"}
  /\ wpos \in Nat /\ rpos \in Nat

(* What the reader returns is what was written, byte for byte in a stream  *)
(* and packet for packet otherwise, however it arrives and whatever the    *)
(* lengths of the paddings: both ends draw from their generators in step.  *)
(* A stream of bytes never fails for want of room, and the reader ends     *)
(* only at the end and after everything.                                   *)
FramesInStep ==
  LET all == SelectSeq(sent, LAMBDA p : p # <<>>)
  IN /\ IF Kind = "packet" THEN IsPrefix(got, all) ELSE IsPrefix(Flat(got), Flat(all))
     /\ rd.done => ended = "end" /\ wire = <<>> /\ Flat(got) = Flat(all)
     /\ Kind # "packet" => ended # "error" /\ IsPrefix(Flat(all), [i \in 1..last |-> i])

(* A piece of a MultiBuffer that SplitSize cuts off is its beginning, not  *)
(* longer than asked for, and not empty if there is anything to cut.       *)
SplitIsRight ==
  \A n \in 0..2 : \A len \in [1..n -> Lengths], size \in 1..SliceSize :
    LET mb == [i \in 1..n |-> [j \in 1..len[i] |-> <<i, j>>]]
        s == SplitSize(mb, size)
    IN /\ Flat(s.part) \o Flat(s.rest) = Flat(mb)
       /\ Len(Flat(s.part)) <= size
       /\ Flat(mb) # <<>> /\ len[1] > 0 => Flat(s.part) # <<>>
================================================================================
