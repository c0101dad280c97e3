------------------------------ MODULE MuxFrames ------------------------------
(***************************************************************************)
(* The sessions of one mux connection (common/mux): a client worker and a  *)
(* server worker exchange New, Keep and End frames over two ordered,       *)
(* bounded links.  At either end every session has a goroutine that copies *)
(* its input into frames (fetchInput at the client, handle at the server), *)
(* and one reader goroutine (fetchOutput, ServerWorker.run) takes all      *)
(* frames and writes their payload to the sessions' outputs.               *)
(*                                                                         *)
(* A payload is the number of the piece it carries.  Session ids are those *)
(* of Allocate, which never gives one out twice (module MuxClient).        *)
(***************************************************************************)
EXTENDS Integers, Sequences, TLAPS

CONSTANTS
  Sessions,   \* the sessions' ids
  Pieces,     \* bound: pieces of payload per session and direction
  LinkCap     \* how many frames a link holds before its writers block

\* What the constants must satisfy.
FramesAssumption == Pieces \in Nat /\ LinkCap \in Nat \ {0} /\ 0 \notin Sessions

Ends == {"client", "server"}
Peer(e) == IF e = "client" THEN "server" ELSE "client"

VARIABLES
  link,    \* link[e]: the frames on their way to end e
  sess,    \* sess[e][i]: "none", "open", or why it was closed
  copier,  \* copier[e][i]: where the session's goroutine is
  taken,   \* taken[e][i]: pieces it has read from the session's input
  sent,    \* sent[e][i]: pieces it has written to the link
  got,     \* got[e][i]: pieces written to the session's output at e
  reply    \* reply[e]: the id the reader is writing an End for, or 0

vars == <<link, sess, copier, taken, sent, got, reply>>

Frames == [id : Sessions, status : {"New", "Keep", "End"}, piece : 0..Pieces]

TypeOK ==
  /\ link \in [Ends -> Seq(Frames)] /\ \A e \in Ends : Len(link[e]) <= LinkCap
  /\ sess \in [Ends -> [Sessions -> {"none", "open", "ended", "refused", "done"}]]
  /\ copier \in [Ends -> [Sessions -> {"off", "first", "new", "copy", "keep", "end", "close"}]]
  /\ taken \in [Ends -> [Sessions -> 0..Pieces]]
  /\ sent \in [Ends -> [Sessions -> 0..Pieces]]
  /\ got \in [Ends -> [Sessions -> Seq(1..Pieces)]]
  /\ reply \in [Ends -> Sessions \cup {0}]

Init ==
  /\ link = [e \in Ends |-> <<>>]
  /\ sess = [e \in Ends |-> [i \in Sessions |-> "none"]]
  /\ copier = [e \in Ends |-> [i \in Sessions |-> "off"]]
  /\ taken = [e \in Ends |-> [i \in Sessions |-> 0]]
  /\ sent = [e \in Ends |-> [i \in Sessions |-> 0]]
  /\ got = [e \in Ends |-> [i \in Sessions |-> <<>>]]
  /\ reply = [e \in Ends |-> 0]

Frame(i, status, piece) == [id |-> i, status |-> status, piece |-> piece]

\* A write to the link blocks while it is full.
WriteFrame(e, frame) ==
  /\ Len(link[Peer(e)]) < LinkCap
  /\ link' = [link EXCEPT ![Peer(e)] = Append(@, frame)]

\* Session.Close, for the given reason; it interrupts the input and closes the output.
CloseSession(e, i, why) ==
  [sess EXCEPT ![e][i] = IF @ = "open" THEN why ELSE @]

-----------------------------------------------------------------------------
(* fetchInput and handle.                                                  *)

Dispatch(i) ==
  /\ sess["client"][i] = "none"
  /\ sess' = [sess EXCEPT !["client"][i] = "open"]
  /\ copier' = [copier EXCEPT !["client"][i] = "first"]
  /\ UNCHANGED <<link, taken, sent, got, reply>>

Goto(e, i, pc) == copier' = [copier EXCEPT ![e][i] = pc]

\* writeFirstPayload without a payload, after 100 ms.
FirstTimeout(i) ==
  /\ copier["client"][i] = "first"
  /\ WriteFrame("client", Frame(i, "New", 0))
  /\ Goto("client", i, "copy")
  /\ UNCHANGED <<sess, taken, sent, got, reply>>

\* The copier reads a piece from an input that was not interrupted.
ReadInput(e, i) ==
  /\ copier[e][i] \in {"first", "copy"}
  /\ sess[e][i] = "open"
  /\ taken[e][i] < Pieces
  /\ taken' = [taken EXCEPT ![e][i] = @ + 1]
  /\ Goto(e, i, IF copier[e][i] = "first" THEN "new" ELSE "keep")
  /\ UNCHANGED <<link, sess, sent, got, reply>>

\* Writer.WriteMultiBuffer; getNextFrameMeta makes the client's first frame a New.
WriteInput(e, i) ==
  /\ copier[e][i] \in {"new", "keep"}
  /\ WriteFrame(e, Frame(i, IF copier[e][i] = "new" THEN "New" ELSE "Keep", taken[e][i]))
  /\ sent' = [sent EXCEPT ![e][i] = taken[e][i]]
  /\ Goto(e, i, "copy")
  /\ UNCHANGED <<sess, taken, got, reply>>

\* The input ends, fails, or was interrupted.
InputEnds(e, i) ==
  /\ copier[e][i] \in {"first", "copy"}
  /\ Goto(e, i, "end")
  /\ UNCHANGED <<link, sess, taken, sent, got, reply>>

\* Mutant: no End frame is written.
EndForgotten(e, i) ==
  /\ copier[e][i] = "end"
  /\ sess' = CloseSession(e, i, "done")
  /\ Goto(e, i, "off")
  /\ UNCHANGED <<link, taken, sent, got, reply>>

\* Writer.Close, then Session.Close.
EndSession(e, i) ==
  \/ /\ copier[e][i] = "end"
     /\ WriteFrame(e, Frame(i, "End", 0))
     /\ Goto(e, i, "close")
     /\ UNCHANGED <<sess, taken, sent, got, reply>>
  \/ /\ copier[e][i] = "close"
     /\ sess' = CloseSession(e, i, "done")
     /\ Goto(e, i, "off")
     /\ UNCHANGED <<link, taken, sent, got, reply>>

-----------------------------------------------------------------------------
(* The readers.                                                            *)

\* The reader of e takes the next frame, of the given status.
Receive(e, status) ==
  /\ reply[e] = 0
  /\ link[e] # <<>>
  /\ Head(link[e]).status = status
  /\ link' = [link EXCEPT ![e] = Tail(@)]

\* The payload is written to the session's output, or that fails and the session
\* is closed; opened is sess with the session open.
Deliver(e, frame, opened) ==
  \/ /\ got' = [got EXCEPT ![e][frame.id] = Append(@, frame.piece)]
     /\ sess' = opened
  \/ /\ sess' = [opened EXCEPT ![e][frame.id] = "refused"]
     /\ UNCHANGED got

\* handleStatusNew of the server; the client discards a New frame, but gets none.
ReceiveNew ==
  /\ Receive("server", "New")
  /\ LET frame == Head(link["server"])
         opened == [sess EXCEPT !["server"][frame.id] = "open"]
     IN  /\ IF frame.piece = 0
              THEN sess' = opened /\ UNCHANGED got
              ELSE Deliver("server", frame, opened)
         /\ Goto("server", frame.id, "copy")
  /\ UNCHANGED <<taken, sent, reply>>

\* handleStatusKeep.
ReceiveKeep(e) ==
  /\ Receive(e, "Keep")
  /\ LET frame == Head(link[e])
     IN  IF sess[e][frame.id] = "open"
           THEN Deliver(e, frame, sess) /\ UNCHANGED reply
           ELSE reply' = [reply EXCEPT ![e] = frame.id] /\ UNCHANGED <<sess, got>>
  /\ UNCHANGED <<copier, taken, sent>>

\* The closingWriter of handleStatusKeep: only then does the reader go on.
ReplyEnd(e) ==
  /\ reply[e] # 0
  /\ WriteFrame(e, Frame(reply[e], "End", 0))
  /\ reply' = [reply EXCEPT ![e] = 0]
  /\ UNCHANGED <<sess, copier, taken, sent, got>>

\* handleStatusEnd.
ReceiveEnd(e) ==
  /\ Receive(e, "End")
  /\ sess' = CloseSession(e, Head(link[e]).id, "ended")
  /\ UNCHANGED <<copier, taken, sent, got, reply>>

-----------------------------------------------------------------------------
Read(e) ==
  \/ e = "server" /\ ReceiveNew
  \/ ReceiveKeep(e) \/ ReplyEnd(e) \/ ReceiveEnd(e)

Next ==
  \/ \E i \in Sessions : Dispatch(i) \/ FirstTimeout(i)
  \/ \E e \in Ends, i \in Sessions :
       ReadInput(e, i) \/ WriteInput(e, i) \/ InputEnds(e, i) \/ EndSession(e, i)
  \/ \E e \in Ends : Read(e)

Spec == Init /\ [][Next]_vars

(* The readers and the copiers run; an interrupted input is noticed, but   *)
(* an input that was not may last for ever.                                *)
Fairness ==
  /\ \A e \in Ends : WF_vars(Read(e))
  /\ \A e \in Ends, i \in Sessions :
       /\ SF_vars(WriteInput(e, i))
       /\ SF_vars(EndSession(e, i))
       /\ WF_vars(sess[e][i] \notin {"none", "open"} /\ InputEnds(e, i))

FairSpec == Spec /\ Fairness

-----------------------------------------------------------------------------
(* What a session's output gets is what the other end's input gave, from   *)
(* its first piece on, with nothing left out, repeated or reordered.       *)
InOrder ==
  \A e \in Ends, i \in Sessions :
    /\ got[e][i] = [k \in 1..Len(got[e][i]) |-> k]
    /\ Len(got[e][i]) <= sent[Peer(e)][i]

(* A session closed by an End frame has got everything, if the other end   *)
(* did not give the session up before its input ended.                     *)
CompleteAtEnd ==
  \A e \in Ends, i \in Sessions :
    sess[e][i] = "ended" /\ sess[Peer(e)][i] \in {"open", "done"}
      => Len(got[e][i]) = sent[Peer(e)][i]

(* An end that has closed a session, for whatever reason, makes the other  *)
(* close it too, as long as the links have room.                           *)
ClosedAtBoth ==
  \A e \in Ends, i \in Sessions :
    sess[e][i] \notin {"none", "open"} ~> sess[Peer(e)][i] # "open"

(* server.go:256, client.go:335: "Notify remote peer to close this         *)
(* session."  The notification can be written: the two readers, which are  *)
(* the only ones to empty the links, do not wait for each other.           *)
NotificationPossible ==
  ~ \A e \in Ends : reply[e] # 0 /\ Len(link[e]) = LinkCap

-----------------------------------------------------------------------------
(***************************************************************************)
(* Proofs, for every set of sessions, amount of payload and capacity of    *)
(* the links.                                                              *)
(***************************************************************************)

(* What a queue of frames has of a session: payload, an End, a New.        *)
IsData(f, i) == f.id = i /\ f.status # "End" /\ f.piece # 0
DataOf(q, i) == {k \in DOMAIN q : IsData(q[k], i)}
Has(q, i)    == \E k \in DOMAIN q : q[k].id = i
HasEnd(q, i) == \E k \in DOMAIN q : q[k].id = i /\ q[k].status = "End"
HasNew(q, i) == \E k \in DOMAIN q : q[k].id = i /\ q[k].status = "New"

(* Of m pieces that were written n were delivered; the payload in the      *)
(* queue is in order, and as long as the receiver is live it is the rest.  *)
Flow(q, i, n, m, live) ==
  /\ n <= m
  /\ \A k \in DataOf(q, i) : q[k].piece <= m
  /\ \A j, k \in DataOf(q, i) : j < k => q[j].piece < q[k].piece
  /\ live =>
       /\ \A k \in DataOf(q, i) : q[k].piece > n
       /\ \A x \in 1..m : x > n => \E k \in DataOf(q, i) : q[k].piece = x

(* No payload after an End.                                                *)
Stopped(q, i) ==
  \A k \in DOMAIN q : q[k].id = i /\ q[k].status = "End" => \A j \in DataOf(q, i) : j < k

(* One New at most, none once it was received, and before any Keep.        *)
Greeted(q, i, none) ==
  /\ HasNew(q, i) => none
  /\ \A j, k \in DOMAIN q :
       q[j].id = i /\ q[j].status = "New" /\ q[k].id = i /\ q[k].status = "New" => j = k
  /\ \A k \in DOMAIN q : q[k].id = i /\ q[k].status = "Keep" =>
       ~none \/ \E j \in DOMAIN q : q[j].id = i /\ q[j].status = "New" /\ j < k

(* A frame is appended to a queue.                                         *)
LEMMA Appended ==
  ASSUME NEW F, NEW q \in Seq(F), NEW f \in F
  PROVE  LET a == Append(q, f) IN
         /\ a \in Seq(F) /\ Len(q) \in Nat /\ Len(q) + 1 \notin DOMAIN q
         /\ DOMAIN a = DOMAIN q \cup {Len(q) + 1}
         /\ a[Len(q) + 1] = f
         /\ \A k \in DOMAIN q : a[k] = q[k] /\ k \in Nat /\ k < Len(q) + 1
OBVIOUS

(* The first frame is taken from a queue.                                  *)
LEMMA Dropped ==
  ASSUME NEW F, NEW q \in Seq(F), q # <<>>
  PROVE  /\ Tail(q) \in Seq(F) /\ 1 \in DOMAIN q /\ Head(q) = q[1] /\ Head(q) \in F
         /\ \A k \in DOMAIN Tail(q) : k \in Nat /\ k + 1 \in DOMAIN q /\ Tail(q)[k] = q[k + 1]
         /\ \A k \in DOMAIN q : /\ k \in Nat /\ k >= 1
                               /\ k # 1 => k - 1 \in DOMAIN Tail(q) /\ Tail(q)[k - 1] = q[k]
OBVIOUS

(* The pieces that frames carry are numbers.                               *)
LEMMA PiecesAreNumbers ==
  ASSUME NEW f \in Frames, Pieces \in Nat
  PROVE  f.piece \in Nat
BY DEF Frames

(* A frame that is no payload of a session does not change its flow.       *)
LEMMA AppendOther ==
  ASSUME NEW q \in Seq(Frames), NEW f \in Frames, NEW i, ~IsData(f, i)
  PROVE  /\ \A n, m, live : Flow(q, i, n, m, live) => Flow(Append(q, f), i, n, m, live)
         /\ Stopped(q, i) => Stopped(Append(q, f), i)
         /\ f.id # i \/ f.status # "End" => (HasEnd(Append(q, f), i) => HasEnd(q, i))
         /\ f.id # i => (Has(Append(q, f), i) => Has(q, i))
         /\ HasNew(q, i) => HasNew(Append(q, f), i)
         /\ \A none : f.id # i \/ f.status = "End" =>
              (Greeted(q, i, none) => Greeted(Append(q, f), i, none))
<1> DEFINE a == Append(q, f)
<1>1. /\ a \in Seq(Frames) /\ Len(q) \in Nat /\ Len(q) + 1 \notin DOMAIN q
      /\ DOMAIN a = DOMAIN q \cup {Len(q) + 1}
      /\ a[Len(q) + 1] = f
      /\ \A k \in DOMAIN q : a[k] = q[k] /\ k \in Nat /\ k < Len(q) + 1
  BY Appended
<1> HIDE DEF a
<1>2. DataOf(a, i) = DataOf(q, i) /\ \A k \in DataOf(q, i) : a[k] = q[k]
  BY <1>1, SMTT(30) DEF DataOf
<1>3. \A n, m, live : Flow(q, i, n, m, live) => Flow(a, i, n, m, live)
  BY <1>2, SMTT(30) DEF Flow
<1>4. Stopped(q, i) => Stopped(a, i)
  BY <1>1, <1>2 DEF Stopped, DataOf
<1>5. /\ f.id # i \/ f.status # "End" => (HasEnd(a, i) => HasEnd(q, i))
      /\ f.id # i => (Has(a, i) => Has(q, i))
  BY <1>1 DEF HasEnd, Has
<1>6. HasNew(q, i) => HasNew(a, i)
  BY <1>1 DEF HasNew
<1>7. f.id # i \/ f.status = "End" => (HasNew(a, i) => HasNew(q, i))
  BY <1>1, SMTT(30) DEF HasNew
<1>8. ASSUME f.id # i \/ f.status = "End", NEW none, Greeted(q, i, none)
      PROVE  Greeted(a, i, none)
  <2>1. \A k \in DOMAIN a : a[k].id = i /\ a[k].status \in {"New", "Keep"} =>
          k \in DOMAIN q /\ a[k] = q[k]
    BY <1>1, <1>8, SMTT(30)
  <2>2. \A j, k \in DOMAIN a :
          a[j].id = i /\ a[j].status = "New" /\ a[k].id = i /\ a[k].status = "New" => j = k
    BY <1>8, <2>1, SMTT(30) DEF Greeted
  <2>3. \A k \in DOMAIN a : a[k].id = i /\ a[k].status = "Keep" =>
          ~none \/ \E j \in DOMAIN a : a[j].id = i /\ a[j].status = "New" /\ j < k
    BY <1>1, <1>8, <2>1, SMTT(30) DEF Greeted
  <2>4. HasNew(a, i) => none
    BY <1>7, <1>8, SMTT(30) DEF Greeted
  <2>. QED  BY <2>2, <2>3, <2>4, SMTT(30) DEF Greeted
<1>. QED  BY <1>3, <1>4, <1>5, <1>6, <1>8, SMTT(30) DEF a

(* Payload that is written is the next piece.                              *)
LEMMA AppendData ==
  ASSUME NEW q \in Seq(Frames), NEW f \in Frames, NEW i, IsData(f, i),
         Pieces \in Nat, NEW n \in Nat, NEW m \in Nat, NEW live \in BOOLEAN, Flow(q, i, n, m, live), f.piece = m + 1
  PROVE  Flow(Append(q, f), i, n, m + 1, live)
<1> DEFINE a == Append(q, f)
<1>1. /\ a \in Seq(Frames) /\ Len(q) \in Nat /\ Len(q) + 1 \notin DOMAIN q
      /\ DOMAIN a = DOMAIN q \cup {Len(q) + 1}
      /\ a[Len(q) + 1] = f
      /\ \A k \in DOMAIN q : a[k] = q[k] /\ k \in Nat /\ k < Len(q) + 1
  BY Appended
<1> HIDE DEF a
<1>2. /\ DataOf(a, i) = DataOf(q, i) \cup {Len(q) + 1}
      /\ \A k \in DataOf(q, i) : a[k] = q[k] /\ k \in Nat /\ k < Len(q) + 1
  BY <1>1, SMTT(30) DEF DataOf
<1>3. \A k \in DataOf(q, i) : q[k].piece \in Nat
  <2>. SUFFICES ASSUME NEW k \in DataOf(q, i) PROVE q[k].piece \in Nat
    OBVIOUS
  <2>1. q[k] \in Frames
    BY SMTT(30) DEF DataOf
  <2>. QED  BY <2>1, PiecesAreNumbers, SMTT(30)
<1>4. \A k \in DataOf(a, i) : a[k].piece <= m + 1
  BY <1>1, <1>2, <1>3, SMTT(30) DEF Flow
<1>5. \A j, k \in DataOf(a, i) : j < k => a[j].piece < a[k].piece
  BY <1>1, <1>2, <1>3, SMTT(30) DEF Flow
<1>6. ASSUME live
      PROVE  /\ \A k \in DataOf(a, i) : a[k].piece > n
             /\ \A x \in 1..(m + 1) : x > n => \E k \in DataOf(a, i) : a[k].piece = x
  BY <1>1, <1>2, <1>3, <1>6, SMTT(30) DEF Flow
<1>7. n <= m + 1
  BY SMTT(30) DEF Flow
<1>. QED  BY <1>4, <1>5, <1>6, <1>7, Zenon DEF Flow, a

(* A frame that is no payload of the session is taken.                     *)
LEMMA TailOther ==
  ASSUME NEW q \in Seq(Frames), q # <<>>, NEW i
  PROVE  /\ Stopped(q, i) => Stopped(Tail(q), i)
         /\ HasEnd(Tail(q), i) => HasEnd(q, i)
         /\ Has(Tail(q), i) => Has(q, i)
         /\ HasNew(Tail(q), i) => HasNew(q, i)
         /\ Head(q).id # i \/ Head(q).status # "New" =>
              /\ HasNew(q, i) => HasNew(Tail(q), i)
              /\ \A none : Greeted(q, i, none) => Greeted(Tail(q), i, none)
         /\ ~IsData(Head(q), i) =>
              \A n, m, live : Flow(q, i, n, m, live) => Flow(Tail(q), i, n, m, live)
<1> DEFINE t == Tail(q)
<1>1. /\ t \in Seq(Frames) /\ 1 \in DOMAIN q /\ Head(q) = q[1]
      /\ \A k \in DOMAIN t : k \in Nat /\ k + 1 \in DOMAIN q /\ t[k] = q[k + 1]
      /\ \A k \in DOMAIN q : /\ k \in Nat /\ k >= 1
                            /\ k # 1 => k - 1 \in DOMAIN t /\ t[k - 1] = q[k]
  BY Dropped
<1> HIDE DEF t
<1>2. \A k \in DataOf(t, i) : k \in Nat /\ k + 1 \in DataOf(q, i) /\ t[k] = q[k + 1]
  BY <1>1 DEF DataOf
<1>3. Stopped(q, i) => Stopped(t, i)
  BY <1>1, <1>2, SMTT(30) DEF Stopped
<1>4. (HasEnd(t, i) => HasEnd(q, i)) /\ (Has(t, i) => Has(q, i)) /\ (HasNew(t, i) => HasNew(q, i))
  BY <1>1 DEF HasEnd, Has, HasNew
<1>5. ASSUME Head(q).id # i \/ Head(q).status # "New"
      PROVE  /\ HasNew(q, i) => HasNew(t, i)
             /\ \A none : Greeted(q, i, none) => Greeted(t, i, none)
  <2>1. \A k \in DOMAIN q : q[k].id = i /\ q[k].status = "New" =>
          k \in Nat /\ k - 1 \in DOMAIN t /\ t[k - 1] = q[k]
    BY <1>1, <1>5
  <2>2. HasNew(q, i) => HasNew(t, i)
    BY <2>1, SMTT(30) DEF HasNew
  <2>3. ASSUME NEW none, Greeted(q, i, none) PROVE Greeted(t, i, none)
    <3>1. HasNew(t, i) => none
      BY <1>4, <2>3 DEF Greeted
    <3>2. ASSUME NEW j \in DOMAIN t, NEW k \in DOMAIN t, t[j].id = i, t[j].status = "New",
                 t[k].id = i, t[k].status = "New"
          PROVE  j = k
      <4>1. j + 1 = k + 1 /\ j \in Nat /\ k \in Nat
        BY <1>1, <2>3, <3>2, SMTT(30) DEF Greeted
      <4>. QED  BY <4>1, SMTT(30)
    <3>3. ASSUME NEW k \in DOMAIN t, t[k].id = i, t[k].status = "Keep", none
          PROVE  \E j \in DOMAIN t : t[j].id = i /\ t[j].status = "New" /\ j < k
      <4>1. k \in Nat /\ k + 1 \in DOMAIN q /\ t[k] = q[k + 1]
        BY <1>1, SMTT(30)
      <4>2. PICK j \in DOMAIN q : q[j].id = i /\ q[j].status = "New" /\ j < k + 1
        BY <2>3, <3>3, <4>1, SMTT(30) DEF Greeted
      <4>3. j \in Nat /\ j - 1 \in DOMAIN t /\ t[j - 1] = q[j] /\ j - 1 < k
        BY <2>1, <4>1, <4>2, SMTT(30)
      <4>. QED  BY <4>2, <4>3, SMTT(30)
    <3>. QED  BY <3>1, <3>2, <3>3, SMTT(30) DEF Greeted
  <2>. QED  BY <2>2, <2>3, SMTT(30)
<1>6. ASSUME ~IsData(Head(q), i), NEW n, NEW m, NEW live, Flow(q, i, n, m, live)
      PROVE  Flow(t, i, n, m, live)
  <2>1. \A k \in DataOf(q, i) : k \in Nat /\ k - 1 \in DataOf(t, i) /\ t[k - 1] = q[k]
    BY <1>1, <1>6, SMTT(30) DEF DataOf
  <2>2. \A j, k \in DataOf(t, i) : j < k => t[j].piece < t[k].piece
    BY <1>2, <1>6, SMTT(30) DEF Flow
  <2>3. \A k \in DataOf(t, i) : t[k].piece <= m /\ (live => t[k].piece > n)
    BY <1>2, <1>6, SMTT(30) DEF Flow
  <2>4. live => \A x \in 1..m : x > n => \E k \in DataOf(t, i) : t[k].piece = x
    BY <1>6, <2>1, SMTT(30) DEF Flow
  <2>. QED  BY <1>6, <2>2, <2>3, <2>4, SMTT(30) DEF Flow
<1>. QED  BY <1>3, <1>4, <1>5, <1>6, ZenonT(60) DEF t

(* Payload that is taken is the next piece, if the receiver is live.       *)
LEMMA TailData ==
  ASSUME NEW q \in Seq(Frames), q # <<>>, NEW i, IsData(Head(q), i),
         Pieces \in Nat, NEW n \in Nat, NEW m \in Nat, NEW live \in BOOLEAN, Flow(q, i, n, m, live)
  PROVE  /\ Flow(Tail(q), i, n, m, FALSE)
         /\ live => Head(q).piece = n + 1 /\ Flow(Tail(q), i, n + 1, m, TRUE)
<1> DEFINE t == Tail(q)
<1>1. /\ t \in Seq(Frames) /\ 1 \in DOMAIN q /\ Head(q) = q[1]
      /\ \A k \in DOMAIN t : k \in Nat /\ k + 1 \in DOMAIN q /\ t[k] = q[k + 1]
      /\ \A k \in DOMAIN q : /\ k \in Nat /\ k >= 1
                            /\ k # 1 => k - 1 \in DOMAIN t /\ t[k - 1] = q[k]
  BY Dropped
<1> HIDE DEF t
<1>2. \A k \in DataOf(t, i) : k \in Nat /\ k + 1 \in DataOf(q, i) /\ t[k] = q[k + 1]
  BY <1>1 DEF DataOf
<1>3. \A k \in DataOf(q, i) : /\ k \in Nat /\ k >= 1 /\ q[k].piece \in Nat
                              /\ k # 1 => k - 1 \in DataOf(t, i) /\ t[k - 1] = q[k]
  <2>. SUFFICES ASSUME NEW k \in DataOf(q, i)
                PROVE  /\ k \in Nat /\ k >= 1 /\ q[k].piece \in Nat
                       /\ k # 1 => k - 1 \in DataOf(t, i) /\ t[k - 1] = q[k]
    OBVIOUS
  <2>1. k \in DOMAIN q /\ q[k] \in Frames /\ IsData(q[k], i)
    BY DEF DataOf
  <2>2. q[k].piece \in Nat
    BY <2>1, PiecesAreNumbers, SMTT(30)
  <2>. QED  BY <1>1, <2>1, <2>2, SMTT(30) DEF DataOf
<1>4. 1 \in DataOf(q, i)
  BY <1>1, SMTT(30) DEF DataOf
<1>5. /\ n <= m /\ \A k \in DataOf(t, i) : t[k].piece <= m
      /\ \A j, k \in DataOf(t, i) : j < k => t[j].piece < t[k].piece
  BY <1>2, SMTT(30) DEF Flow
<1>6. ASSUME live PROVE Head(q).piece = n + 1
  <2>1. q[1].piece \in Nat /\ q[1].piece > n /\ q[1].piece <= m
    BY <1>3, <1>4, <1>6, SMTT(30) DEF Flow
  <2>2. PICK k \in DataOf(q, i) : q[k].piece = n + 1
    BY <1>6, <2>1, SMTT(30) DEF Flow
  <2>3. k = 1 \/ q[1].piece < q[k].piece
    BY <1>3, <1>4, SMTT(30) DEF Flow
  <2>. QED  BY <1>1, <2>1, <2>2, <2>3, SMTT(30)
<1>7. ASSUME live
      PROVE  /\ n + 1 <= m
             /\ \A k \in DataOf(t, i) : t[k].piece > n + 1
             /\ \A x \in 1..m : x > n + 1 => \E k \in DataOf(t, i) : t[k].piece = x
  <2>1. n + 1 <= m
    BY <1>1, <1>4, <1>6, <1>7, SMTT(30) DEF Flow
  <2>2. ASSUME NEW k \in DataOf(t, i) PROVE t[k].piece > n + 1
    <3>1. k + 1 \in DataOf(q, i) /\ t[k] = q[k + 1] /\ k \in Nat /\ k + 1 # 1 /\ 1 < k + 1
      BY <1>1, <1>2, SMTT(30) DEF DataOf
    <3>2. q[1].piece < q[k + 1].piece
      BY <1>4, <3>1, SMTT(30) DEF Flow
    <3>. QED  BY <1>1, <1>3, <1>6, <1>7, <3>1, <3>2, SMTT(30)
  <2>3. ASSUME NEW x \in 1..m, x > n + 1 PROVE \E k \in DataOf(t, i) : t[k].piece = x
    <3>1. PICK k \in DataOf(q, i) : q[k].piece = x
      BY <1>7, <2>3, SMTT(30) DEF Flow
    <3>2. k # 1
      BY <1>1, <1>6, <1>7, <2>3, <3>1, SMTT(30)
    <3>. QED  BY <1>3, <3>1, <3>2, SMTT(30)
  <2>. QED  BY <2>1, <2>2, <2>3, SMTT(30)
<1>. QED  BY <1>5, <1>6, <1>7, Zenon DEF Flow, t

(* An End that is taken from a live session finds all of it delivered.     *)
LEMMA TailEnd ==
  ASSUME NEW q \in Seq(Frames), q # <<>>, NEW i, Head(q).id = i, Head(q).status = "End",
         Stopped(q, i), NEW n \in Nat, NEW m \in Nat, Flow(q, i, n, m, TRUE)
  PROVE  n = m
<1>1. 1 \in DOMAIN q /\ Head(q) = q[1] /\ \A k \in DOMAIN q : k \in Nat /\ k >= 1
  BY Dropped
<1>2. DataOf(q, i) = {}
  BY <1>1, SMTT(30) DEF Stopped, DataOf
<1>. QED  BY <1>2, SMTT(30) DEF Flow

(* The New of a session, and a Keep that follows it.                       *)
LEMMA Greets ==
  ASSUME NEW q \in Seq(Frames), NEW f \in Frames, f.status # "End"
  PROVE  /\ ~Has(q, f.id) /\ f.status = "New" => Greeted(Append(q, f), f.id, TRUE)
         /\ f.status = "New" => HasNew(Append(q, f), f.id)
         /\ HasNew(q, f.id) => HasNew(Append(q, f), f.id)
         /\ f.status = "Keep" /\ Greeted(q, f.id, FALSE) => Greeted(Append(q, f), f.id, FALSE)
         /\ f.status = "Keep" /\ Greeted(q, f.id, TRUE) /\ HasNew(q, f.id) => Greeted(Append(q, f), f.id, TRUE)
         /\ HasEnd(Append(q, f), f.id) => HasEnd(q, f.id)
<1> DEFINE a == Append(q, f)
           i == f.id
<1>1. /\ a \in Seq(Frames) /\ Len(q) \in Nat /\ Len(q) + 1 \notin DOMAIN q
      /\ DOMAIN a = DOMAIN q \cup {Len(q) + 1}
      /\ a[Len(q) + 1] = f
      /\ \A k \in DOMAIN q : a[k] = q[k] /\ k \in Nat /\ k < Len(q) + 1
  BY Appended
<1> HIDE DEF a
<1>2. ~Has(q, i) /\ f.status = "New" => Greeted(a, i, TRUE)
  BY <1>1 DEF Has, HasNew, Greeted
<1>3. (f.status = "New" => HasNew(a, i)) /\ (HasNew(q, i) => HasNew(a, i))
  BY <1>1 DEF HasNew
<1>4. f.status = "Keep" => (HasNew(a, i) => HasNew(q, i))
  BY <1>1, SMTT(30) DEF HasNew
<1>5. ASSUME f.status = "Keep", NEW none, Greeted(q, i, none), ~none \/ HasNew(q, i)
      PROVE  Greeted(a, i, none)
  <2>1. \A k \in DOMAIN a : a[k].id = i /\ a[k].status = "New" => k \in DOMAIN q /\ a[k] = q[k]
    BY <1>1, <1>5, SMTT(30)
  <2>2. \A j, k \in DOMAIN a :
          a[j].id = i /\ a[j].status = "New" /\ a[k].id = i /\ a[k].status = "New" => j = k
    BY <1>5, <2>1, SMTT(30) DEF Greeted
  <2>3. \A k \in DOMAIN a : a[k].id = i /\ a[k].status = "Keep" =>
          ~none \/ \E j \in DOMAIN a : a[j].id = i /\ a[j].status = "New" /\ j < k
    BY <1>1, <1>5, SMTT(30) DEF Greeted, HasNew
  <2>4. HasNew(a, i) => none
    BY <1>4, <1>5, SMTT(30) DEF Greeted
  <2>. QED  BY <2>2, <2>3, <2>4, SMTT(30) DEF Greeted
<1>6. HasEnd(a, i) => HasEnd(q, i)
  BY <1>1 DEF HasEnd
<1>. QED  BY <1>2, <1>3, <1>5, <1>6, ZenonT(60) DEF a

(* What the first frame of a queue says: a Keep, that the session is there;*)
(* a New, that there is no other.                                          *)
LEMMA FirstFrame ==
  ASSUME NEW q \in Seq(Frames), q # <<>>, NEW i, Head(q).id = i
  PROVE  /\ Has(q, i)
         /\ Head(q).status = "End" => HasEnd(q, i)
         /\ Head(q).status = "New" => HasNew(q, i)
         /\ Head(q).status = "New" => ~Greeted(q, i, FALSE)
         /\ Head(q).status = "Keep" => ~Greeted(q, i, TRUE)
         /\ Head(q).status = "New" /\ Greeted(q, i, TRUE) => Greeted(Tail(q), i, FALSE)
<1>1. /\ Tail(q) \in Seq(Frames) /\ 1 \in DOMAIN q /\ Head(q) = q[1]
      /\ \A k \in DOMAIN Tail(q) : k \in Nat /\ k + 1 \in DOMAIN q /\ Tail(q)[k] = q[k + 1] /\ k # 0
      /\ \A k \in DOMAIN q : k \in Nat /\ k >= 1
  BY Dropped
<1>2. /\ Has(q, i)
      /\ Head(q).status = "End" => HasEnd(q, i)
      /\ Head(q).status = "New" => HasNew(q, i)
  BY <1>1 DEF Has, HasEnd, HasNew
<1>3. Head(q).status = "New" => ~Greeted(q, i, FALSE)
  BY <1>2 DEF Greeted
<1>4. Head(q).status = "Keep" => ~Greeted(q, i, TRUE)
  BY <1>1, SMTT(30) DEF Greeted
<1>5. ASSUME Head(q).status = "New", Greeted(q, i, TRUE)
      PROVE  Greeted(Tail(q), i, FALSE)
  <2>1. \A k \in DOMAIN Tail(q) : ~(Tail(q)[k].id = i /\ Tail(q)[k].status = "New")
    <3>. SUFFICES ASSUME NEW k \in DOMAIN Tail(q), Tail(q)[k].id = i, Tail(q)[k].status = "New"
                  PROVE  FALSE
      BY SMTT(30)
    <3>1. k + 1 = 1 /\ k \in Nat /\ k # 0
      BY <1>1, <1>5 DEF Greeted
    <3>. QED  BY <3>1
  <2>. QED  BY <2>1, SMTT(30) DEF Greeted, HasNew
<1>. QED  BY <1>2, <1>3, <1>4, <1>5, ZenonT(60)

(* What an output has got, and one more.                                   *)
Counted(s) == s = [k \in 1..Len(s) |-> k]

(* An output that has got 1, 2, ... and gets the next one has still got    *)
(* them all, in order.                                                     *)
LEMMA CountOn ==
  ASSUME NEW s \in Seq(Nat), Counted(s)
  PROVE  Len(Append(s, Len(s) + 1)) = Len(s) + 1 /\ Counted(Append(s, Len(s) + 1))
<1> DEFINE a == Append(s, Len(s) + 1)
<1>1. Len(a) = Len(s) + 1 /\ Len(s) \in Nat /\ a = [k \in 1..Len(a) |-> a[k]]
  OBVIOUS
<1>2. \A k \in 1..Len(a) : a[k] = IF k = Len(s) + 1 THEN k ELSE s[k]
  OBVIOUS
<1>3. \A k \in 1..Len(s) : s[k] = k
  BY DEF Counted
<1>4. \A k \in 1..Len(a) : a[k] = k
  BY <1>1, <1>2, <1>3
<1>. QED  BY <1>1, <1>4 DEF Counted

(* The invariant of a connection.  Live: frames of the session are still   *)
(* delivered at e.  Given: e gave the session up because of the other end  *)
(* or of its output.  Gone: e wrote the session's End after its input.     *)
Live(e, i)  == sess[e][i] \in {"none", "open"}
Given(e, i) == sess[e][i] \in {"ended", "refused"}
Gone(e, i)  == copier[e][i] \in {"close", "off"} /\ sess[e][i] # "none"

Arrives(e, i) ==
  LET n == Len(got[e][i])  m == sent[Peer(e)][i] IN
  /\ Counted(got[e][i])
  /\ Flow(link[e], i, n, m, FALSE)
  /\ Live(e, i) => Flow(link[e], i, n, m, TRUE)

Copies(e, i) ==
  /\ taken[e][i] = IF copier[e][i] \in {"new", "keep"} THEN sent[e][i] + 1 ELSE sent[e][i]
  /\ sess[e][i] = "done" => copier[e][i] = "off"
  /\ copier[e][i] # "off" => sess[e][i] # "none"

(* What made e close, or will: the other end had given the session up, or  *)
(* had ended it after its last piece.                                      *)
Stops(e, i) ==
  LET o == Peer(e) IN
  /\ HasEnd(link[e], i) \/ reply[o] = i \/ sess[e][i] = "ended" => Given(o, i) \/ Gone(o, i)
  /\ \/ Given(o, i)
     \/ Stopped(link[e], i) /\ (sess[e][i] = "ended" => Len(got[e][i]) = sent[o][i])

(* A session is opened by the client, and by its New at the server.        *)
Opens(i) ==
  /\ sess["client"][i] = "none" =>
       /\ sess["server"][i] = "none"
       /\ ~Has(link["client"], i) /\ ~Has(link["server"], i)
  /\ copier["client"][i] \in {"first", "new"} =>
       sess["server"][i] = "none" /\ ~Has(link["server"], i)
  /\ copier["client"][i] \in {"copy", "keep"} =>
       sess["server"][i] # "none" \/ HasNew(link["server"], i)
  /\ sess["server"][i] = "none" =>
       /\ Greeted(link["server"], i, TRUE)
       /\ ~Has(link["client"], i) /\ sess["client"][i] # "refused"
  /\ sess["server"][i] # "none" => Greeted(link["server"], i, FALSE)

SessionInv(i) ==
  Opens(i) /\ \A e \in Ends : Arrives(e, i) /\ Copies(e, i) /\ Stops(e, i)

KeepsCarry ==
  \A e \in Ends : \A k \in DOMAIN link[e] : link[e][k].status = "Keep" => link[e][k].piece # 0

ConnInv == TypeOK /\ KeepsCarry /\ \A i \in Sessions : SessionInv(i)

(* A connection has two ends, each the peer of the other.                  *)
LEMMA TwoEnds ==
  ASSUME NEW e \in Ends
  PROVE  /\ Peer(e) \in Ends /\ Peer(Peer(e)) = e /\ Peer(e) # e
         /\ Ends = {e, Peer(e)} /\ "client" \in Ends /\ "server" \in Ends
         /\ Peer("client") = "server" /\ Peer("server") = "client"
BY DEF Ends, Peer

(* A step leaves the state of a session alone.                             *)
Same(i) ==
  \A e \in Ends :
    /\ sess'[e][i] = sess[e][i] /\ copier'[e][i] = copier[e][i]
    /\ taken'[e][i] = taken[e][i] /\ sent'[e][i] = sent[e][i] /\ got'[e][i] = got[e][i]
    /\ reply'[e] = i => reply[e] = i

(* And none of its frames is sent or received.                             *)
Passed(i) ==
  \A e \in Ends :
    \/ link'[e] = link[e]
    \/ \E f \in Frames : link'[e] = Append(link[e], f) /\ f.id # i
    \/ link[e] # <<>> /\ link'[e] = Tail(link[e]) /\ Head(link[e]).id # i

(* A step that leaves the state of a session alone and moves no frame of   *)
(* it keeps what the invariant says of the session.                        *)
LEMMA OtherSessions ==
  ASSUME TypeOK, NEW i \in Sessions, SessionInv(i), Same(i), Passed(i)
  PROVE  SessionInv(i)'
<1>1. ASSUME NEW e \in Ends
      PROVE  /\ \A n, m, live : Flow(link[e], i, n, m, live) => Flow(link'[e], i, n, m, live)
             /\ Stopped(link[e], i) => Stopped(link'[e], i)
             /\ HasEnd(link'[e], i) => HasEnd(link[e], i)
             /\ Has(link'[e], i) => Has(link[e], i)
             /\ HasNew(link[e], i) => HasNew(link'[e], i)
             /\ \A none : Greeted(link[e], i, none) => Greeted(link'[e], i, none)
  <2>1. link[e] \in Seq(Frames)
    BY SMTT(30) DEF TypeOK
  <2>2. CASE link'[e] = link[e]
    BY <2>2, ZenonT(60)
  <2>3. ASSUME NEW f \in Frames, link'[e] = Append(link[e], f), f.id # i
        PROVE  <1>1!2
    BY <2>1, <2>3, AppendOther, ZenonT(60) DEF IsData
  <2>4. CASE link[e] # <<>> /\ link'[e] = Tail(link[e]) /\ Head(link[e]).id # i
    BY <2>1, <2>4, TailOther, ZenonT(60) DEF IsData
  <2>. QED  BY <2>2, <2>3, <2>4, ZenonT(60) DEF Passed
<1>2. ASSUME NEW e \in Ends PROVE Arrives(e, i)' /\ Copies(e, i)' /\ Stops(e, i)'
  <2> DEFINE o == Peer(e)
  <2>1. o \in Ends /\ Arrives(e, i) /\ Copies(e, i) /\ Stops(e, i)
    BY TwoEnds, SMTT(30) DEF SessionInv
  <2>2. /\ sess'[e][i] = sess[e][i] /\ got'[e][i] = got[e][i] /\ copier'[e][i] = copier[e][i]
        /\ sent'[e][i] = sent[e][i] /\ taken'[e][i] = taken[e][i]
        /\ sess'[o][i] = sess[o][i] /\ copier'[o][i] = copier[o][i] /\ sent'[o][i] = sent[o][i]
        /\ reply'[o] = i => reply[o] = i
    BY <2>1, ZenonT(60) DEF Same
  <2>. HIDE DEF o
  <2>3. Arrives(e, i)'
    BY <1>1, <2>1, <2>2, ZenonT(60) DEF Arrives, Live, o
  <2>4. Copies(e, i)'
    BY <2>1, <2>2, ZenonT(60) DEF Copies
  <2>5. (Given(o, i)' <=> Given(o, i)) /\ (Gone(o, i)' <=> Gone(o, i))
    BY <2>2, ZenonT(60) DEF Given, Gone
  <2>6. Stops(e, i)'
    BY <1>1, <2>1, <2>2, <2>5, ZenonT(60) DEF Stops, o
  <2>. QED  BY <2>3, <2>4, <2>6, SMTT(30)
<1>3. Opens(i)'
  <2>1. Opens(i) /\ "client" \in Ends /\ "server" \in Ends
    BY SMTT(30) DEF SessionInv, Ends
  <2>2. /\ sess'["client"][i] = sess["client"][i] /\ copier'["client"][i] = copier["client"][i]
        /\ sess'["server"][i] = sess["server"][i]
    BY <2>1, SMTT(30) DEF Same
  <2>3. /\ Has(link'["client"], i) => Has(link["client"], i)
        /\ Has(link'["server"], i) => Has(link["server"], i)
        /\ HasNew(link["server"], i) => HasNew(link'["server"], i)
        /\ Greeted(link["server"], i, TRUE) => Greeted(link'["server"], i, TRUE)
        /\ Greeted(link["server"], i, FALSE) => Greeted(link'["server"], i, FALSE)
    BY <1>1, <2>1, ZenonT(60)
  <2>. QED  BY <2>1, <2>2, <2>3, ZenonT(60) DEF Opens
<1>. QED  BY <1>2, <1>3, SMTT(30) DEF SessionInv

(* So it is enough to look at the session a step is about.                 *)
LEMMA AllSessions ==
  ASSUME ConnInv, NEW i \in Sessions, SessionInv(i)',
         \A j \in Sessions \ {i} : Same(j) /\ Passed(j)
  PROVE  \A j \in Sessions : SessionInv(j)'
BY OtherSessions, SMTT(30) DEF ConnInv

(* A step of one end that sends and receives nothing.                      *)
LEMMA QuietSteps ==
  ASSUME ConnInv, NEW e \in Ends, NEW i \in Sessions,
         UNCHANGED <<link, got, sent, reply>>,
         \A d \in Ends, j \in Sessions : d # e \/ j # i =>
           /\ sess'[d][j] = sess[d][j] /\ copier'[d][j] = copier[d][j] /\ taken'[d][j] = taken[d][j],
         Copies(e, i)', Opens(i)', Live(e, i)' => Live(e, i), Given(e, i)' <=> Given(e, i),
         Gone(e, i) => Gone(e, i)', sess'[e][i] = "ended" => sess[e][i] = "ended"
  PROVE  \A j \in Sessions : SessionInv(j)'
<1> DEFINE o == Peer(e)
<1>1. o \in Ends /\ o # e /\ Ends = {e, o} /\ Peer(o) = e
  BY TwoEnds, ZenonT(60)
<1>2. SessionInv(i)
  BY ZenonT(60) DEF ConnInv
<1>3. /\ Arrives(e, i) /\ Copies(e, i) /\ Stops(e, i)
      /\ Arrives(o, i) /\ Copies(o, i) /\ Stops(o, i)
  BY <1>1, <1>2, ZenonT(60) DEF SessionInv
<1>4. /\ sess'[o][i] = sess[o][i] /\ copier'[o][i] = copier[o][i] /\ taken'[o][i] = taken[o][i]
      /\ link' = link /\ got' = got /\ sent' = sent /\ reply' = reply
  BY <1>1, ZenonT(60)
<1>. HIDE DEF o
<1>5. Copies(o, i)'
  BY <1>3, <1>4, ZenonT(60) DEF Copies
<1>6. Arrives(e, i)' /\ Arrives(o, i)'
  BY <1>3, <1>4, ZenonT(60) DEF Arrives, Live
<1>7. (Given(o, i)' <=> Given(o, i)) /\ (Gone(o, i)' <=> Gone(o, i))
  BY <1>4, ZenonT(60) DEF Given, Gone
<1>8. Stops(e, i)'
  BY <1>3, <1>4, <1>7, ZenonT(60) DEF Stops, o
<1>9. Stops(o, i)'
  BY <1>1, <1>3, <1>4, ZenonT(60) DEF Stops
<1>10. SessionInv(i)'
  BY <1>1, <1>3, <1>5, <1>6, <1>8, <1>9, ZenonT(60) DEF SessionInv
<1>11. ASSUME NEW j \in Sessions \ {i} PROVE Same(j) /\ Passed(j)
  BY <1>4, ZenonT(60) DEF Same, Passed
<1>. QED  BY <1>10, <1>11, AllSessions, ZenonT(60)

(* One value of a function of ends and sessions changes.                   *)
LEMMA Changed ==
  ASSUME NEW V, NEW f \in [Ends -> [Sessions -> V]], NEW e \in Ends, NEW i \in Sessions,
         NEW v \in V
  PROVE  /\ [f EXCEPT ![e][i] = v] \in [Ends -> [Sessions -> V]]
         /\ [f EXCEPT ![e][i] = v][e][i] = v
         /\ \A d \in Ends, j \in Sessions : d # e \/ j # i =>
              [f EXCEPT ![e][i] = v][d][j] = f[d][j]
BY SMTT(30)

(* Dispatch, a read of the input and an end of a copier that sends nothing *)
(* keep the invariant.                                                     *)
LEMMA QuietActions ==
  ASSUME FramesAssumption, ConnInv, NEW e \in Ends, NEW i \in Sessions,
         \/ e = "client" /\ Dispatch(i)
         \/ ReadInput(e, i) \/ InputEnds(e, i)
         \/ EndSession(e, i) /\ copier[e][i] = "close"
  PROVE  ConnInv'
<1>. USE DEF Goto, CloseSession
<1>1. /\ TypeOK /\ SessionInv(i) /\ Opens(i) /\ Copies(e, i) /\ Pieces \in Nat
      /\ "client" \in Ends /\ "server" \in Ends
  BY SMTT(30) DEF ConnInv, SessionInv, FramesAssumption, Ends
<1>2. /\ link' = link /\ got' = got /\ sent' = sent /\ reply' = reply
      /\ sess' \in [Ends -> [Sessions -> {"none", "open", "ended", "refused", "done"}]]
      /\ copier' \in [Ends -> [Sessions -> {"off", "first", "new", "copy", "keep", "end", "close"}]]
      /\ taken' \in [Ends -> [Sessions -> 0..Pieces]]
  <2>1. CASE e = "client" /\ Dispatch(i)
    BY <1>1, <2>1, SMTT(30) DEF TypeOK, Dispatch
  <2>2. CASE ReadInput(e, i)
    <3>1. /\ link' = link /\ got' = got /\ sent' = sent /\ reply' = reply /\ sess' = sess
          /\ copier' = [copier EXCEPT ![e][i] = IF copier[e][i] = "first" THEN "new" ELSE "keep"]
          /\ taken' = [taken EXCEPT ![e][i] = taken[e][i] + 1]
      BY <2>2, SMTT(30) DEF ReadInput
    <3>2. taken[e][i] + 1 \in 0..Pieces
      BY <1>1, <2>2, SMTT(30) DEF ReadInput, TypeOK
    <3>3. taken' \in [Ends -> [Sessions -> 0..Pieces]]
      BY <1>1, <3>1, <3>2, Changed, SMTT(30) DEF TypeOK
    <3>. QED  BY <1>1, <3>1, <3>3, SMTT(30) DEF TypeOK
  <2>3. CASE InputEnds(e, i)
    BY <1>1, <2>3, SMTT(30) DEF TypeOK, InputEnds
  <2>4. CASE EndSession(e, i) /\ copier[e][i] = "close"
    <3>1. /\ link' = link /\ got' = got /\ sent' = sent /\ reply' = reply /\ taken' = taken
          /\ sess' = [sess EXCEPT ![e][i] = IF sess[e][i] = "open" THEN "done" ELSE sess[e][i]]
          /\ copier' = [copier EXCEPT ![e][i] = "off"]
      BY <2>4, SMTT(30) DEF EndSession
    <3>. QED  BY <1>1, <3>1, SMTT(30) DEF TypeOK
  <2>. QED  BY <2>1, <2>2, <2>3, <2>4, ZenonT(60)
<1>3. TypeOK' /\ KeepsCarry'
  BY <1>1, <1>2, ZenonT(60) DEF TypeOK, KeepsCarry, ConnInv
<1>4. ASSUME NEW d \in Ends, NEW j \in Sessions, d # e \/ j # i
      PROVE  sess'[d][j] = sess[d][j] /\ copier'[d][j] = copier[d][j] /\ taken'[d][j] = taken[d][j]
  <2>1. CASE e = "client" /\ Dispatch(i)
    BY <1>1, <1>4, <2>1, Zenon DEF TypeOK, Dispatch
  <2>2. CASE ReadInput(e, i)
    BY <1>1, <1>4, <2>2, ZenonT(60) DEF TypeOK, ReadInput
  <2>3. CASE InputEnds(e, i)
    <3>1. sess' = sess /\ taken' = taken /\ copier' = [copier EXCEPT ![e][i] = "end"]
      BY <2>3, SMTT(30) DEF InputEnds
    <3>. QED  BY <1>1, <1>4, <3>1 DEF TypeOK
  <2>4. CASE EndSession(e, i) /\ copier[e][i] = "close"
    <3>1. /\ sess' = [sess EXCEPT ![e][i] = IF sess[e][i] = "open" THEN "done" ELSE sess[e][i]]
          /\ copier' = [copier EXCEPT ![e][i] = "off"] /\ taken' = taken
      BY <2>4 DEF EndSession
    <3>. QED  BY <1>1, <1>4, <3>1, ZenonT(60) DEF TypeOK
  <2>. QED  BY <2>1, <2>2, <2>3, <2>4, ZenonT(60)
<1>5. \/ /\ e = "client" /\ sess[e][i] = "none" /\ copier[e][i] = "off"
         /\ sess'[e][i] = "open" /\ copier'[e][i] = "first" /\ taken'[e][i] = taken[e][i]
      \/ /\ copier[e][i] \in {"first", "copy"} /\ sess[e][i] = "open" /\ sess'[e][i] = "open"
         /\ copier'[e][i] = (IF copier[e][i] = "first" THEN "new" ELSE "keep")
         /\ taken'[e][i] = taken[e][i] + 1
      \/ /\ copier[e][i] \in {"first", "copy"} /\ copier'[e][i] = "end"
         /\ sess'[e][i] = sess[e][i] /\ taken'[e][i] = taken[e][i]
      \/ /\ copier[e][i] = "close" /\ copier'[e][i] = "off"
         /\ sess'[e][i] = (IF sess[e][i] = "open" THEN "done" ELSE sess[e][i])
         /\ taken'[e][i] = taken[e][i]
  <2>1. CASE e = "client" /\ Dispatch(i)
    BY <1>1, <2>1, SMTT(30) DEF TypeOK, Dispatch, Copies
  <2>2. CASE ReadInput(e, i)
    BY <1>1, <2>2, ZenonT(60) DEF TypeOK, ReadInput, Copies
  <2>3. CASE InputEnds(e, i)
    BY <1>1, <2>3, SMTT(30) DEF TypeOK, InputEnds, Copies
  <2>4. CASE EndSession(e, i) /\ copier[e][i] = "close"
    BY <1>1, <2>4 DEF TypeOK, EndSession, Copies
  <2>. QED  BY <2>1, <2>2, <2>3, <2>4, ZenonT(60)
<1>6. taken[e][i] \in Nat /\ sent[e][i] \in Nat
  BY <1>1 DEF TypeOK
<1>7. Copies(e, i)'
  BY <1>1, <1>2, <1>5, <1>6, Zenon DEF Copies
<1>8. /\ Live(e, i)' => Live(e, i)
      /\ Given(e, i)' <=> Given(e, i)
      /\ Gone(e, i) => Gone(e, i)'
      /\ sess'[e][i] = "ended" => sess[e][i] = "ended"
  BY <1>1, <1>5, ZenonT(60) DEF Live, Given, Gone, Copies
<1>9. Opens(i)'
  <2>1. CASE e = "client"
    <3>1. sess'["server"][i] = sess["server"][i]
      BY <1>1, <1>4, <2>1, ZenonT(60)
    <3>. QED  BY <1>1, <1>2, <1>5, <2>1, <3>1, ZenonT(60) DEF Opens, Copies
  <2>2. CASE e = "server"
    <3>1. sess'["client"][i] = sess["client"][i] /\ copier'["client"][i] = copier["client"][i]
      BY <1>1, <1>4, <2>2, ZenonT(60)
    <3>2. (sess'["server"][i] = "none") <=> (sess["server"][i] = "none")
      BY <1>1, <1>5, <2>2, ZenonT(60) DEF Copies
    <3>. QED  BY <1>1, <1>2, <2>2, <3>1, <3>2, ZenonT(60) DEF Opens
  <2>. QED  BY <2>1, <2>2, ZenonT(60) DEF Ends
<1>10. \A j \in Sessions : SessionInv(j)'
  BY <1>2, <1>4, <1>7, <1>8, <1>9, QuietSteps, ZenonT(60)
<1>. QED  BY <1>3, <1>10, SMTT(30) DEF ConnInv

(* A step of one end that sends a frame: payload, or none.                 *)
LEMMA SendSteps ==
  ASSUME FramesAssumption, ConnInv, NEW e \in Ends, NEW i \in Sessions,
         NEW f \in Frames, f.id = i,
         UNCHANGED <<sess, taken, got>>,
         link' = [link EXCEPT ![Peer(e)] = Append(link[Peer(e)], f)],
         \A d \in Ends, j \in Sessions : d # e \/ j # i =>
           copier'[d][j] = copier[d][j] /\ sent'[d][j] = sent[d][j],
         \A d \in Ends, j \in Sessions : reply'[d] = j => reply[d] = j,
         Copies(e, i)', Opens(i)',
         \/ /\ ~IsData(f, i) /\ sent'[e][i] = sent[e][i] /\ (Gone(e, i) => Gone(e, i)')
            /\ f.status = "End" => Given(e, i) \/ Gone(e, i)'
         \/ IsData(f, i) /\ f.piece = sent[e][i] + 1 /\ sent'[e][i] = sent[e][i] + 1 /\ ~Gone(e, i)
  PROVE  \A j \in Sessions : SessionInv(j)'
<1> DEFINE o == Peer(e)
<1>1. o \in Ends /\ o # e /\ Ends = {e, o} /\ Peer(o) = e
  BY TwoEnds, ZenonT(60)
<1>2. /\ link[o] \in Seq(Frames) /\ sent[e][i] \in Nat /\ Len(got[o][i]) \in Nat /\ Pieces \in Nat
      /\ link'[o] = Append(link[o], f) /\ link'[e] = link[e]
  <2>1. /\ link[o] \in Seq(Frames) /\ link \in [Ends -> Seq(Frames)] /\ Pieces \in Nat
        /\ sent[e][i] \in 0..Pieces /\ got[o][i] \in Seq(1..Pieces)
    BY <1>1 DEF ConnInv, TypeOK, FramesAssumption
  <2>2. sent[e][i] \in Nat /\ Len(got[o][i]) \in Nat
    BY <2>1
  <2>3. link'[o] = Append(link[o], f) /\ link'[e] = link[e]
    BY <1>1, <2>1, ZenonT(60)
  <2>. QED  BY <2>1, <2>2, <2>3, ZenonT(60)
<1>3. /\ Arrives(e, i) /\ Stops(e, i)
      /\ Arrives(o, i) /\ Copies(o, i) /\ Stops(o, i)
  BY <1>1, ZenonT(60) DEF SessionInv, ConnInv
<1>4. /\ sess' = sess /\ got' = got /\ taken' = taken
      /\ copier'[o][i] = copier[o][i] /\ sent'[o][i] = sent[o][i]
      /\ reply'[o] = i => reply[o] = i
      /\ reply'[e] = i => reply[e] = i
  BY <1>1, ZenonT(60)
<1>. HIDE DEF o
<1>5. Copies(o, i)' /\ Arrives(e, i)'
  BY <1>2, <1>3, <1>4, ZenonT(60) DEF Copies, Arrives, Live, o
<1>6. Stops(e, i)'
  BY <1>2, <1>3, <1>4, ZenonT(60) DEF Stops, Given, Gone, o
<1>7. ASSUME ~IsData(f, i), sent'[e][i] = sent[e][i], Gone(e, i) => Gone(e, i)',
             f.status = "End" => Given(e, i) \/ Gone(e, i)'
      PROVE  Arrives(o, i)' /\ Stops(o, i)'
  <2>1. /\ \A n, m, live : Flow(link[o], i, n, m, live) => Flow(link'[o], i, n, m, live)
        /\ Stopped(link[o], i) => Stopped(link'[o], i)
        /\ f.status # "End" => (HasEnd(link'[o], i) => HasEnd(link[o], i))
    BY <1>2, <1>7, AppendOther
  <2>2. Arrives(o, i)'
    BY <1>1, <1>3, <1>4, <1>7, <2>1, Zenon DEF Arrives, Live
  <2>3. Given(e, i)' <=> Given(e, i)
    BY <1>4, ZenonT(60) DEF Given
  <2>4. Stops(o, i)'
    BY <1>1, <1>3, <1>4, <1>7, <2>1, <2>3, ZenonT(60) DEF Stops
  <2>. QED  BY <2>2, <2>4, ZenonT(60)
<1>8. ASSUME IsData(f, i), f.piece = sent[e][i] + 1, sent'[e][i] = sent[e][i] + 1, ~Gone(e, i)
      PROVE  Arrives(o, i)' /\ Stops(o, i)'
  <2> DEFINE n == Len(got[o][i])
             m == sent[e][i]
  <2>1. /\ Flow(link[o], i, n, m, FALSE) => Flow(link'[o], i, n, m + 1, FALSE)
        /\ Flow(link[o], i, n, m, TRUE) => Flow(link'[o], i, n, m + 1, TRUE)
    <3>. SUFFICES ASSUME NEW live \in BOOLEAN, Flow(link[o], i, n, m, live)
                  PROVE  Flow(Append(link[o], f), i, n, m + 1, live)
      BY <1>2, Zenon
    <3>. QED  BY <1>2, <1>8, AppendData
  <2>2. Arrives(o, i)'
    BY <1>1, <1>3, <1>4, <1>8, <2>1, ZenonT(60) DEF Arrives, Live
  <2>3. Given(e, i)' <=> Given(e, i)
    BY <1>4, Zenon DEF Given
  <2>4. HasEnd(link'[o], i) => HasEnd(link[o], i)
    <3>1. f.status # "End"
      BY <1>8, ZenonT(60) DEF IsData
    <3>2. HasEnd(Append(link[o], f), f.id) => HasEnd(link[o], f.id)
      BY <1>2, <3>1, Greets, ZenonT(60)
    <3>. QED  BY <1>2, <3>2, ZenonT(60)
  <2>5. ~HasEnd(link'[o], i) => Stopped(link'[o], i)
    BY ZenonT(60) DEF HasEnd, Stopped
  <2>6. Stops(o, i)'
    BY <1>1, <1>3, <1>4, <1>8, <2>3, <2>4, <2>5, ZenonT(60) DEF Stops
  <2>. QED  BY <2>2, <2>6, Zenon
<1>9. SessionInv(i)'
  BY <1>1, <1>5, <1>6, <1>7, <1>8, ZenonT(60) DEF SessionInv
<1>10. ASSUME NEW j \in Sessions \ {i} PROVE Same(j) /\ Passed(j)
  <2>1. Same(j)
    BY <1>4, ZenonT(60) DEF Same
  <2>2. Passed(j)
    BY <1>1, <1>2, ZenonT(60) DEF Passed
  <2>. QED  BY <2>1, <2>2, ZenonT(60)
<1>. QED  BY <1>9, <1>10, AllSessions, ZenonT(60)

(* A session that sends is open at the client, and what is sent to the     *)
(* server opens it there first.                                            *)
LEMMA SendOpens ==
  ASSUME ConnInv, NEW e \in Ends, NEW i \in Sessions, NEW f \in Frames, f.id = i,
         sess' = sess, sess[e][i] # "none",
         link' = [link EXCEPT ![Peer(e)] = Append(link[Peer(e)], f)],
         e = "server" => copier'["client"][i] = copier["client"][i],
         e = "client" =>
           \/ f.status = "New" /\ copier[e][i] \in {"first", "new"} /\ copier'[e][i] = "copy"
           \/ f.status = "Keep" /\ copier[e][i] = "keep" /\ copier'[e][i] = "copy"
           \/ f.status = "End" /\ copier'[e][i] \notin {"first", "new"}
              /\ (copier'[e][i] \in {"copy", "keep"} => copier[e][i] \in {"copy", "keep"})
  PROVE  Opens(i)'
<1>1. Opens(i) /\ "client" \in Ends /\ "server" \in Ends
  BY SMTT(30) DEF ConnInv, SessionInv, Ends
<1>2. link["client"] \in Seq(Frames) /\ link["server"] \in Seq(Frames)
  BY <1>1, SMTT(30) DEF ConnInv, TypeOK
<1>3. CASE e = "server"
  <2>1. link'["server"] = link["server"]
    BY <1>1, <1>3, ZenonT(60) DEF Peer, ConnInv, TypeOK
  <2>. QED  BY <1>1, <1>3, <2>1, ZenonT(60) DEF Opens
<1>4. CASE e = "client"
  <2>1. link'["server"] = Append(link["server"], f) /\ link'["client"] = link["client"]
    BY <1>1, <1>4, SMTT(30) DEF Peer, ConnInv, TypeOK
  <2>2. CASE f.status = "New" /\ copier[e][i] \in {"first", "new"} /\ copier'[e][i] = "copy"
    <3>1. sess["server"][i] = "none" /\ ~Has(link["server"], i)
      BY <1>1, <1>4, <2>2, ZenonT(60) DEF Opens
    <3>2. Greeted(link'["server"], i, TRUE) /\ HasNew(link'["server"], i)
      BY <1>2, <2>1, <2>2, <3>1, Greets, ZenonT(60)
    <3>. QED  BY <1>1, <1>4, <2>1, <2>2, <3>1, <3>2, ZenonT(60) DEF Opens
  <2>3. CASE f.status = "Keep" /\ copier[e][i] = "keep" /\ copier'[e][i] = "copy"
    <3>1. sess["server"][i] # "none" \/ HasNew(link["server"], i)
      BY <1>1, <1>4, <2>3, ZenonT(60) DEF Opens
    <3>2. /\ Greeted(link["server"], i, FALSE) => Greeted(link'["server"], i, FALSE)
          /\ Greeted(link["server"], i, TRUE) /\ HasNew(link["server"], i) => Greeted(link'["server"], i, TRUE)
          /\ HasNew(link["server"], i) => HasNew(link'["server"], i)
      BY <1>2, <2>1, <2>3, Greets, ZenonT(60)
    <3>. QED  BY <1>1, <1>4, <2>1, <2>3, <3>1, <3>2, ZenonT(60) DEF Opens
  <2>4. CASE f.status = "End" /\ copier'[e][i] \notin {"first", "new"}
             /\ (copier'[e][i] \in {"copy", "keep"} => copier[e][i] \in {"copy", "keep"})
    <3>1. /\ HasNew(link["server"], i) => HasNew(link'["server"], i)
          /\ \A none : Greeted(link["server"], i, none) => Greeted(link'["server"], i, none)
      BY <1>2, <2>1, <2>4, AppendOther, ZenonT(60) DEF IsData
    <3>. QED  BY <1>1, <1>4, <2>1, <2>4, <3>1, ZenonT(60) DEF Opens
  <2>. QED  BY <1>4, <2>2, <2>3, <2>4, SMTT(30)
<1>. QED  BY <1>3, <1>4, ZenonT(60) DEF Ends

(* What a written frame does to the links: it is appended at the peer,     *)
(* within the capacity.                                                    *)
LEMMA SendTypes ==
  ASSUME FramesAssumption, ConnInv, NEW e \in Ends, NEW f \in Frames,
         f.status = "Keep" => f.piece # 0, WriteFrame(e, f)
  PROVE  /\ link' = [link EXCEPT ![Peer(e)] = Append(link[Peer(e)], f)]
         /\ link' \in [Ends -> Seq(Frames)] /\ \A d \in Ends : Len(link'[d]) <= LinkCap
         /\ KeepsCarry'
<1> DEFINE o == Peer(e)
<1>1. o \in Ends /\ o # e /\ Ends = {e, o}
  BY TwoEnds, SMTT(30)
<1>2. /\ link[o] \in Seq(Frames) /\ link[e] \in Seq(Frames) /\ LinkCap \in Nat
      /\ link \in [Ends -> Seq(Frames)] /\ Len(link[e]) <= LinkCap
  BY <1>1 DEF ConnInv, TypeOK, FramesAssumption
<1>3. Len(link[o]) < LinkCap /\ link' = [link EXCEPT ![o] = Append(link[o], f)]
  BY SMTT(30) DEF WriteFrame
<1>. HIDE DEF o
<1>4. /\ Append(link[o], f) \in Seq(Frames) /\ Len(link[o]) \in Nat
      /\ DOMAIN Append(link[o], f) = DOMAIN link[o] \cup {Len(link[o]) + 1}
      /\ Append(link[o], f)[Len(link[o]) + 1] = f
      /\ \A k \in DOMAIN link[o] : Append(link[o], f)[k] = link[o][k]
  <2> DEFINE q == link[o]
  <2>1. q \in Seq(Frames)
    BY <1>2, SMTT(30)
  <2>. HIDE DEF q
  <2>2. /\ Append(q, f) \in Seq(Frames) /\ Len(q) \in Nat
        /\ DOMAIN Append(q, f) = DOMAIN q \cup {Len(q) + 1}
        /\ Append(q, f)[Len(q) + 1] = f
        /\ \A k \in DOMAIN q : Append(q, f)[k] = q[k]
    BY <2>1, Appended, SMTT(30)
  <2>. QED  BY <2>2, ZenonT(60) DEF q
<1>5. link'[o] = Append(link[o], f) /\ link'[e] = link[e] /\ link' \in [Ends -> Seq(Frames)]
  BY <1>1, <1>2, <1>3, <1>4, SMTT(30)
<1>6. Len(link'[o]) <= LinkCap
  BY <1>2, <1>3, <1>5, SMTT(30)
<1>7. KeepsCarry'
  BY <1>1, <1>4, <1>5, ZenonT(60) DEF KeepsCarry, ConnInv
<1>. QED  BY <1>1, <1>2, <1>3, <1>5, <1>6, <1>7, SMTT(30) DEF o

(* The frames a copier writes, New, Keep and End, keep the invariant.      *)
LEMMA CopierSends ==
  ASSUME FramesAssumption, ConnInv, NEW e \in Ends, NEW i \in Sessions,
         \/ e = "client" /\ FirstTimeout(i)
         \/ WriteInput(e, i)
         \/ EndSession(e, i) /\ copier[e][i] = "end"
  PROVE  ConnInv'
<1> DEFINE first == e = "client" /\ FirstTimeout(i)
           status0 == IF first THEN "New" ELSE IF copier[e][i] = "end" THEN "End"
                      ELSE IF copier[e][i] = "new" THEN "New" ELSE "Keep"
           piece0 == IF copier[e][i] \in {"new", "keep"} THEN taken[e][i] ELSE 0
           pc0 == IF copier[e][i] = "end" THEN "close" ELSE "copy"
           f == Frame(i, status0, piece0)
<1>1. /\ TypeOK /\ SessionInv(i) /\ Opens(i) /\ Copies(e, i) /\ Pieces \in Nat
      /\ copier[e][i] # "off" /\ sess[e][i] # "none"
  <2>1. TypeOK /\ SessionInv(i) /\ Opens(i) /\ Copies(e, i) /\ Pieces \in Nat
    BY ZenonT(60) DEF ConnInv, SessionInv, FramesAssumption
  <2>2. copier[e][i] # "off"
    BY SMTT(30) DEF FirstTimeout, WriteInput, EndSession
  <2>. QED  BY <2>1, <2>2, SMTT(30) DEF Copies
<1>2. taken[e][i] \in 0..Pieces /\ sent[e][i] \in Nat /\ taken[e][i] \in Nat /\ 0 \in 0..Pieces
  BY <1>1, SMTT(30) DEF TypeOK
<1>3. /\ f \in Frames /\ f.id = i /\ f.status = status0 /\ f.piece = piece0
  BY <1>2, ZenonT(60) DEF Frames, Frame
<1>4. /\ sess' = sess /\ taken' = taken /\ got' = got /\ reply' = reply
      /\ copier' = [copier EXCEPT ![e][i] = pc0]
      /\ WriteFrame(e, f)
      /\ \/ copier[e][i] = "first" /\ status0 = "New" /\ piece0 = 0 /\ sent' = sent
         \/ /\ copier[e][i] = "new" /\ status0 = "New" /\ piece0 = taken[e][i]
            /\ sent' = [sent EXCEPT ![e][i] = taken[e][i]]
         \/ /\ copier[e][i] = "keep" /\ status0 = "Keep" /\ piece0 = taken[e][i]
            /\ sent' = [sent EXCEPT ![e][i] = taken[e][i]]
         \/ copier[e][i] = "end" /\ status0 = "End" /\ piece0 = 0 /\ sent' = sent
  <2>1. CASE e = "client" /\ FirstTimeout(i)
    BY <2>1, ZenonT(60) DEF FirstTimeout, Goto
  <2>2. CASE WriteInput(e, i)
    <3>1. ~first
      BY <2>2, SMTT(30) DEF WriteInput, FirstTimeout
    <3>. QED  BY <2>2, <3>1, ZenonT(60) DEF WriteInput, Goto
  <2>3. CASE EndSession(e, i) /\ copier[e][i] = "end"
    <3>1. ~first
      BY <2>3, ZenonT(60) DEF FirstTimeout
    <3>. QED  BY <2>3, <3>1, ZenonT(60) DEF EndSession, Goto
  <2>. QED  BY <2>1, <2>2, <2>3, ZenonT(60)
<1>5. pc0 \in {"copy", "close"} /\ (pc0 = "close" <=> copier[e][i] = "end")
  BY ZenonT(60)
<1>. HIDE DEF f, status0, piece0, pc0, first
<1>6. /\ copier' \in [Ends -> [Sessions -> {"off", "first", "new", "copy", "keep", "end", "close"}]]
      /\ copier'[e][i] = pc0
      /\ \A d \in Ends, j \in Sessions : d # e \/ j # i => copier'[d][j] = copier[d][j]
  BY <1>1, <1>4, <1>5, SMTT(30) DEF TypeOK
<1>7. /\ sent' \in [Ends -> [Sessions -> 0..Pieces]]
      /\ \A d \in Ends, j \in Sessions : d # e \/ j # i => sent'[d][j] = sent[d][j]
      /\ sent'[e][i] = IF copier[e][i] \in {"new", "keep"} THEN taken[e][i] ELSE sent[e][i]
  <2>1. sent \in [Ends -> [Sessions -> 0..Pieces]]
    BY <1>1, SMTT(30) DEF TypeOK
  <2>2. CASE sent' = sent /\ copier[e][i] \notin {"new", "keep"}
    BY <2>1, <2>2, SMTT(30)
  <2>3. CASE sent' = [sent EXCEPT ![e][i] = taken[e][i]] /\ copier[e][i] \in {"new", "keep"}
    BY <1>2, <2>1, <2>3, Changed
  <2>. QED  BY <1>4, <2>2, <2>3, SMTT(30)
<1>8. copier[e][i] \in {"new", "keep"} => taken[e][i] = sent[e][i] + 1 /\ piece0 = sent[e][i] + 1 /\ piece0 # 0
  BY <1>1, <1>2, <1>4 DEF Copies
<1>9. f.status = "Keep" => f.piece # 0
  BY <1>3, <1>4, <1>8
<1>10. /\ link' = [link EXCEPT ![Peer(e)] = Append(link[Peer(e)], f)]
       /\ link' \in [Ends -> Seq(Frames)] /\ \A d \in Ends : Len(link'[d]) <= LinkCap
       /\ KeepsCarry'
  BY <1>3, <1>4, <1>9, SendTypes, SMTT(30)
<1>11. TypeOK'
  BY <1>1, <1>4, <1>6, <1>7, <1>10, ZenonT(60) DEF TypeOK
<1>12. Copies(e, i)'
  BY <1>1, <1>2, <1>4, <1>5, <1>6, <1>7, <1>8, ZenonT(60) DEF Copies
<1>13. Opens(i)'
  <2>1. e = "server" => copier'["client"][i] = copier["client"][i]
    BY <1>6, ZenonT(60) DEF Ends
  <2>2. \/ f.status = "New" /\ copier[e][i] \in {"first", "new"} /\ copier'[e][i] = "copy"
        \/ f.status = "Keep" /\ copier[e][i] = "keep" /\ copier'[e][i] = "copy"
        \/ f.status = "End" /\ copier'[e][i] = "close"
    BY <1>3, <1>4, <1>5, <1>6, SMTT(30)
  <2>. QED  BY <1>1, <1>3, <1>4, <1>10, <2>1, <2>2, SendOpens, ZenonT(60)
<1>14. \/ /\ ~IsData(f, i) /\ sent'[e][i] = sent[e][i] /\ (Gone(e, i) => Gone(e, i)')
          /\ f.status = "End" => Given(e, i) \/ Gone(e, i)'
       \/ IsData(f, i) /\ f.piece = sent[e][i] + 1 /\ sent'[e][i] = sent[e][i] + 1 /\ ~Gone(e, i)
  <2>1. CASE copier[e][i] \in {"new", "keep"}
    BY <1>3, <1>4, <1>7, <1>8, <2>1, ZenonT(60) DEF IsData, Gone
  <2>2. CASE copier[e][i] \notin {"new", "keep"}
    BY <1>1, <1>3, <1>4, <1>5, <1>6, <1>7, <2>2, SMTT(30) DEF IsData, Gone
  <2>. QED  BY <2>1, <2>2, ZenonT(60)
<1>15. /\ UNCHANGED <<sess, taken, got>> /\ f.id = i
       /\ \A d \in Ends, j \in Sessions : d # e \/ j # i =>
            copier'[d][j] = copier[d][j] /\ sent'[d][j] = sent[d][j]
       /\ \A d \in Ends, j \in Sessions : reply'[d] = j => reply[d] = j
  BY <1>3, <1>4, <1>6, <1>7, SMTT(30)
<1>16. \A j \in Sessions : SessionInv(j)'
  BY <1>3, <1>10, <1>12, <1>13, <1>14, <1>15, SendSteps, ZenonT(60)
<1>. QED  BY <1>10, <1>11, <1>16 DEF ConnInv

(* The End with which a reader answers a frame for a session it does not   *)
(* have keeps the invariant.                                               *)
LEMMA ReaderReplies ==
  ASSUME FramesAssumption, ConnInv, NEW e \in Ends, ReplyEnd(e)
  PROVE  ConnInv'
<1>0. PICK i \in Sessions : i = reply[e]
  BY DEF ConnInv, TypeOK, ReplyEnd
<1> DEFINE o == Peer(e)
           f == Frame(i, "End", 0)
<1>1. i \in Sessions /\ Pieces \in Nat /\ 0 \notin Sessions
  BY SMTT(30) DEF FramesAssumption
<1>2. o \in Ends /\ Peer(o) = e /\ "client" \in Ends /\ "server" \in Ends
      /\ Peer("client") = "server" /\ Peer("server") = "client"
  BY TwoEnds, SMTT(30)
<1>3. /\ f \in Frames /\ f.id = i /\ f.status = "End" /\ f.piece = 0
  BY <1>1, SMTT(30) DEF Frames, Frame
<1>4. /\ sess' = sess /\ taken' = taken /\ got' = got /\ copier' = copier /\ sent' = sent
      /\ WriteFrame(e, f) /\ reply' = [reply EXCEPT ![e] = 0]
  BY <1>0, SMTT(30) DEF ReplyEnd
<1>5. /\ reply' \in [Ends -> Sessions \cup {0}]
      /\ \A d \in Ends, j \in Sessions : reply'[d] = j => reply[d] = j
  BY <1>1, <1>4, Zenon DEF ConnInv, TypeOK
<1>6. Given(e, i) \/ Gone(e, i)
  BY <1>0, <1>1, <1>2, ZenonT(60) DEF ConnInv, SessionInv, Stops
<1>. HIDE DEF f
<1>7. /\ link' = [link EXCEPT ![Peer(e)] = Append(link[Peer(e)], f)]
      /\ link' \in [Ends -> Seq(Frames)] /\ \A d \in Ends : Len(link'[d]) <= LinkCap
      /\ KeepsCarry'
  BY <1>3, <1>4, SendTypes, SMTT(30)
<1>8. TypeOK'
  BY <1>4, <1>5, <1>7, SMTT(30) DEF TypeOK, ConnInv
<1>9. Copies(e, i)'
  BY <1>1, <1>4, ZenonT(60) DEF Copies, ConnInv, SessionInv
<1>10. e = "client" => copier[e][i] \notin {"first", "new"}
  <2>. SUFFICES ASSUME e = "client", copier[e][i] \in {"first", "new"} PROVE FALSE
    BY SMTT(30)
  <2>1. sess["server"][i] = "none" /\ sess["client"][i] # "refused"
    BY <1>1, ZenonT(60) DEF ConnInv, SessionInv, Opens
  <2>2. sess["client"][i] = "ended"
    BY <1>6, <2>1, SMTT(30) DEF Given, Gone
  <2>3. Given("server", i) \/ Gone("server", i)
    BY <1>1, <1>2, <2>2, ZenonT(60) DEF ConnInv, SessionInv, Stops
  <2>. QED  BY <2>1, <2>3, SMTT(30) DEF Given, Gone
<1>11. Opens(i)'
  <2>1. sess[e][i] # "none"
    BY <1>6, SMTT(30) DEF Given, Gone
  <2>. QED  BY <1>1, <1>3, <1>4, <1>7, <1>10, <2>1, SendOpens, ZenonT(60)
<1>12. ~IsData(f, i) /\ (Gone(e, i) => Gone(e, i)') /\ (f.status = "End" => Given(e, i) \/ Gone(e, i)')
  BY <1>3, <1>4, <1>6, ZenonT(60) DEF IsData, Gone
<1>13. /\ UNCHANGED <<sess, taken, got>>
       /\ \A d \in Ends, j \in Sessions : d # e \/ j # i =>
            copier'[d][j] = copier[d][j] /\ sent'[d][j] = sent[d][j]
       /\ sent'[e][i] = sent[e][i]
  BY <1>4, Zenon
<1>14. \A j \in Sessions : SessionInv(j)'
  <2>1. /\ UNCHANGED <<sess, taken, got>> /\ f.id = i /\ f \in Frames
        /\ \A d \in Ends, j \in Sessions : reply'[d] = j => reply[d] = j
        /\ link' = [link EXCEPT ![Peer(e)] = Append(link[Peer(e)], f)]
    BY <1>3, <1>5, <1>7, <1>13, Zenon
  <2>2. \/ /\ ~IsData(f, i) /\ sent'[e][i] = sent[e][i] /\ (Gone(e, i) => Gone(e, i)')
           /\ f.status = "End" => Given(e, i) \/ Gone(e, i)'
        \/ IsData(f, i) /\ f.piece = sent[e][i] + 1 /\ sent'[e][i] = sent[e][i] + 1 /\ ~Gone(e, i)
    BY <1>12, <1>13, SMTT(30)
  <2>. HIDE DEF o
  <2>. QED  BY <1>9, <1>11, <1>13, <2>1, <2>2, SendSteps, ZenonT(60)
<1>. QED  BY <1>7, <1>8, <1>14, SMTT(30) DEF ConnInv

(* A step of one end that takes a frame: its payload is written to the     *)
(* output, or there is none, or the session is closed.                     *)
LEMMA ReceiveSteps ==
  ASSUME FramesAssumption, ConnInv, NEW e \in Ends, NEW i \in Sessions, NEW h \in Frames,
         link[e] # <<>>, h = Head(link[e]), h.id = i,
         UNCHANGED <<taken, sent>>, link' = [link EXCEPT ![e] = Tail(link[e])],
         \A d \in Ends, j \in Sessions : d # e \/ j # i =>
           /\ sess'[d][j] = sess[d][j] /\ copier'[d][j] = copier[d][j] /\ got'[d][j] = got[d][j]
           /\ reply'[d] = j => reply[d] = j,
         Copies(e, i)', Opens(i)',
         Given(e, i) => Given(e, i)', Gone(e, i) => Gone(e, i)',
         reply'[e] = i => reply[e] = i \/ Given(e, i)' \/ Gone(e, i)',
         \/ /\ Live(e, i) /\ IsData(h, i) /\ sess'[e][i] = "open"
            /\ got'[e][i] = Append(got[e][i], h.piece)
         \/ /\ got'[e][i] = got[e][i] /\ (Live(e, i)' => Live(e, i) /\ ~IsData(h, i))
            /\ sess'[e][i] = "ended" => sess[e][i] = "ended" \/ (Live(e, i) /\ h.status = "End")
  PROVE  \A j \in Sessions : SessionInv(j)'
<1> DEFINE o == Peer(e)
           n == Len(got[e][i])
           m == sent[o][i]
           q == link[e]
<1>1. o \in Ends /\ o # e /\ Ends = {e, o} /\ Peer(o) = e
  BY TwoEnds, ZenonT(60)
<1>2. /\ q \in Seq(Frames) /\ q # <<>> /\ m \in Nat /\ n \in Nat /\ Pieces \in Nat
      /\ got[e][i] \in Seq(Nat) /\ link'[e] = Tail(q) /\ link'[o] = link[o]
  <2>1. /\ link \in [Ends -> Seq(Frames)] /\ Pieces \in Nat
        /\ sent[o][i] \in 0..Pieces /\ got[e][i] \in Seq(1..Pieces)
    BY <1>1 DEF ConnInv, TypeOK, FramesAssumption
  <2>2. sent[o][i] \in Nat /\ Len(got[e][i]) \in Nat /\ got[e][i] \in Seq(Nat)
    BY <2>1
  <2>3. link'[e] = Tail(q) /\ link'[o] = link[o]
    BY <1>1, <2>1, ZenonT(60)
  <2>. QED  BY <2>1, <2>2, <2>3, ZenonT(60)
<1>3. /\ Arrives(e, i) /\ Stops(e, i)
      /\ Arrives(o, i) /\ Copies(o, i) /\ Stops(o, i)
  BY <1>1, ZenonT(60) DEF SessionInv, ConnInv
<1>4. /\ sent' = sent /\ taken' = taken /\ got'[o][i] = got[o][i]
      /\ sess'[o][i] = sess[o][i] /\ copier'[o][i] = copier[o][i]
      /\ reply'[o] = i => reply[o] = i
  BY <1>1, ZenonT(60)
<1>. HIDE DEF o, n, m, q
<1>5. Copies(o, i)' /\ Arrives(o, i)'
  <2>1. Copies(o, i)'
    BY <1>3, <1>4, ZenonT(60) DEF Copies
  <2>2. Arrives(o, i)'
    BY <1>1, <1>2, <1>3, <1>4, ZenonT(60) DEF Arrives, Live
  <2>. QED  BY <2>1, <2>2, ZenonT(60)
<1>6. Stops(o, i)'
  BY <1>1, <1>2, <1>3, <1>4, ZenonT(60) DEF Stops
<1>7. /\ Stopped(q, i) => Stopped(Tail(q), i)
      /\ HasEnd(Tail(q), i) => HasEnd(q, i)
      /\ ~IsData(h, i) => \A x, y, live : Flow(q, i, x, y, live) => Flow(Tail(q), i, x, y, live)
      /\ h.status = "End" => HasEnd(q, i)
  BY <1>2, TailOther, FirstFrame, ZenonT(60) DEF q
<1>8. /\ Counted(got[e][i]) /\ Flow(q, i, n, m, FALSE)
      /\ Live(e, i) => Flow(q, i, n, m, TRUE)
  BY <1>3, ZenonT(60) DEF Arrives, n, m, q, o
<1>9. IsData(h, i) =>
        /\ Flow(Tail(q), i, n, m, FALSE)
        /\ Live(e, i) => h.piece = n + 1 /\ Flow(Tail(q), i, n + 1, m, TRUE)
  <2>1. IsData(h, i) /\ Flow(q, i, n, m, FALSE) => Flow(Tail(q), i, n, m, FALSE)
    BY <1>2, TailData, ZenonT(60) DEF q
  <2>2. IsData(h, i) /\ Flow(q, i, n, m, TRUE) => h.piece = n + 1 /\ Flow(Tail(q), i, n + 1, m, TRUE)
    BY <1>2, TailData, ZenonT(60) DEF q
  <2>. QED  BY <1>8, <2>1, <2>2, ZenonT(60)
<1>10. (Given(o, i)' <=> Given(o, i)) /\ (Gone(o, i)' <=> Gone(o, i))
  BY <1>4, ZenonT(60) DEF Given, Gone
<1>11. ASSUME Live(e, i), IsData(h, i), sess'[e][i] = "open", got'[e][i] = Append(got[e][i], h.piece)
       PROVE  Arrives(e, i)' /\ Stops(e, i)'
  <2>1. h.piece = n + 1 /\ Flow(Tail(q), i, n + 1, m, TRUE)
    BY <1>9, <1>11, ZenonT(60)
  <2>2. Len(got'[e][i]) = n + 1 /\ Counted(got'[e][i])
    BY <1>2, <1>8, <1>11, <2>1, CountOn DEF n
  <2>3. Flow(Tail(q), i, n + 1, m, FALSE)
    BY <2>1, Zenon DEF Flow
  <2>4. Arrives(e, i)'
    BY <1>2, <1>4, <2>1, <2>2, <2>3, ZenonT(60) DEF Arrives, m, o
  <2>5. Stops(e, i)'
    BY <1>2, <1>3, <1>4, <1>7, <1>10, <1>11, ZenonT(60) DEF Stops, q, o
  <2>. QED  BY <2>4, <2>5, ZenonT(60)
<1>12. ASSUME got'[e][i] = got[e][i], Live(e, i)' => Live(e, i) /\ ~IsData(h, i),
              sess'[e][i] = "ended" => sess[e][i] = "ended" \/ (Live(e, i) /\ h.status = "End")
       PROVE  Arrives(e, i)' /\ Stops(e, i)'
  <2>1. Flow(Tail(q), i, n, m, FALSE) /\ (Live(e, i)' => Flow(Tail(q), i, n, m, TRUE))
    BY <1>7, <1>8, <1>9, <1>12, ZenonT(60)
  <2>2. Arrives(e, i)'
    BY <1>2, <1>4, <1>8, <1>12, <2>1, ZenonT(60) DEF Arrives, m, n, o
  <2>3. Live(e, i) /\ h.status = "End" /\ Stopped(q, i) => n = m
    BY <1>2, <1>8, TailEnd, ZenonT(60) DEF q
  <2>4. Stops(e, i)'
    BY <1>2, <1>3, <1>4, <1>7, <1>10, <1>12, <2>3, ZenonT(60) DEF Stops, q, n, m, o
  <2>. QED  BY <2>2, <2>4, Zenon
<1>13. SessionInv(i)'
  BY <1>1, <1>5, <1>6, <1>11, <1>12, ZenonT(60) DEF SessionInv
<1>14. ASSUME NEW j \in Sessions \ {i} PROVE Same(j) /\ Passed(j)
  <2>1. Same(j)
    BY <1>4, ZenonT(60) DEF Same
  <2>2. Passed(j)
    BY <1>1, <1>2, ZenonT(60) DEF Passed, q
  <2>. QED  BY <2>1, <2>2, ZenonT(60)
<1>. QED  BY <1>13, <1>14, AllSessions, ZenonT(60)

(* A frame that is taken leaves true what is known of sessions not yet     *)
(* opened at the other end.                                                *)
LEMMA ReceiveOpens ==
  ASSUME ConnInv, NEW e \in Ends, NEW i \in Sessions, NEW h \in Frames,
         link[e] # <<>>, h = Head(link[e]), h.id = i,
         link' = [link EXCEPT ![e] = Tail(link[e])],
         \A d \in Ends : d # e => sess'[d][i] = sess[d][i] /\ copier'[d][i] = copier[d][i],
         h.status = "New" => e = "server" /\ sess'[e][i] # "none",
         h.status # "New" =>
           /\ copier'[e][i] = copier[e][i]
           /\ sess'[e][i] = "none" <=> sess[e][i] = "none"
  PROVE  Opens(i)'
<1>1. Opens(i) /\ "client" \in Ends /\ "server" \in Ends
  BY SMTT(30) DEF ConnInv, SessionInv, Ends
<1>2. /\ link["client"] \in Seq(Frames) /\ link["server"] \in Seq(Frames)
      /\ link'[e] = Tail(link[e]) /\ \A d \in Ends : d # e => link'[d] = link[d]
  BY <1>1, SMTT(30) DEF ConnInv, TypeOK
<1>3. CASE e = "client"
  <2>1. sess'["server"][i] = sess["server"][i] /\ link'["server"] = link["server"]
    BY <1>1, <1>2, <1>3, ZenonT(60)
  <2>2. Has(link["client"], i)
    BY <1>2, <1>3, FirstFrame, ZenonT(60)
  <2>3. sess["server"][i] # "none" /\ sess["client"][i] # "none"
    BY <1>1, <2>2, ZenonT(60) DEF Opens
  <2>. QED  BY <1>1, <1>3, <2>1, <2>3, ZenonT(60) DEF Opens
<1>4. CASE e = "server"
  <2>1. /\ sess'["client"][i] = sess["client"][i] /\ copier'["client"][i] = copier["client"][i]
        /\ link'["client"] = link["client"] /\ link'["server"] = Tail(link["server"])
    BY <1>1, <1>2, <1>4, SMTT(30)
  <2>2. Has(link["server"], i)
    BY <1>2, <1>4, FirstFrame, ZenonT(60)
  <2>3. sess["client"][i] # "none" /\ copier["client"][i] \notin {"first", "new"}
    BY <1>1, <2>2, SMTT(30) DEF Opens
  <2>4. CASE h.status = "New"
    <3>1. Greeted(link["server"], i, TRUE)
      BY <1>1, <1>2, <1>4, <2>4, FirstFrame, ZenonT(60) DEF Opens
    <3>2. Greeted(link'["server"], i, FALSE)
      BY <1>2, <1>4, <2>1, <2>4, <3>1, FirstFrame, ZenonT(60)
    <3>. QED  BY <1>4, <2>1, <2>3, <2>4, <3>2, ZenonT(60) DEF Opens
  <2>5. CASE h.status # "New"
    <3>1. /\ HasNew(link["server"], i) => HasNew(link'["server"], i)
          /\ \A none : Greeted(link["server"], i, none) => Greeted(link'["server"], i, none)
      BY <1>2, <1>4, <2>1, <2>5, TailOther, ZenonT(60)
    <3>. QED  BY <1>1, <1>4, <2>1, <2>3, <2>5, <3>1, Zenon DEF Opens
  <2>. QED  BY <2>4, <2>5, ZenonT(60)
<1>. QED  BY <1>3, <1>4, ZenonT(60) DEF Ends

(* What a received frame is, and what its leaving does to the links.       *)
LEMMA ReceiveTypes ==
  ASSUME ConnInv, FramesAssumption, NEW e \in Ends, NEW st, Receive(e, st)
  PROVE  \E h \in Frames :
           /\ link[e] # <<>> /\ h = Head(link[e]) /\ h.id \in Sessions /\ h.status = st
           /\ h.piece \in 0..Pieces /\ (st = "Keep" => h.piece # 0)
           /\ link' = [link EXCEPT ![e] = Tail(link[e])] /\ reply[e] = 0
           /\ link' \in [Ends -> Seq(Frames)]
           /\ \A d \in Ends : Len(link'[d]) <= LinkCap
           /\ KeepsCarry'
<1> DEFINE q == link[e]
<1>1. /\ link \in [Ends -> Seq(Frames)] /\ q \in Seq(Frames) /\ q # <<>> /\ LinkCap \in Nat
      /\ Len(q) <= LinkCap /\ reply[e] = 0
      /\ link' = [link EXCEPT ![e] = Tail(q)] /\ Head(q).status = st
  BY DEF ConnInv, TypeOK, Receive, FramesAssumption
<1>2. \A d \in Ends : link'[d] = IF d = e THEN Tail(q) ELSE link[d]
  BY <1>1
<1>3. KeepsCarry
  BY DEF ConnInv
<1>4. Len(Tail(q)) <= LinkCap
  BY <1>1, SMTT(30)
<1>. HIDE DEF q
<1>5. /\ Tail(q) \in Seq(Frames) /\ 1 \in DOMAIN q /\ Head(q) = q[1] /\ Head(q) \in Frames
      /\ \A k \in DOMAIN Tail(q) : k + 1 \in DOMAIN q /\ Tail(q)[k] = q[k + 1]
  BY <1>1, Dropped, SMTT(30)
<1>6. /\ Head(q).id \in Sessions /\ Head(q).piece \in 0..Pieces
  BY <1>5, SMTT(30) DEF Frames
<1>7. st = "Keep" => Head(q).piece # 0
  BY <1>1, <1>3, <1>5, SMTT(30) DEF KeepsCarry, q
<1>8. link' \in [Ends -> Seq(Frames)]
  BY <1>1, <1>5, SMTT(30)
<1>9. \A d \in Ends : Len(link'[d]) <= LinkCap
  BY <1>2, <1>4, ZenonT(60) DEF ConnInv, TypeOK
<1>10. KeepsCarry'
  <2>. SUFFICES ASSUME NEW d \in Ends, NEW k \in DOMAIN link'[d], link'[d][k].status = "Keep"
                PROVE  link'[d][k].piece # 0
    BY DEF KeepsCarry
  <2>1. CASE d = e
    <3>1. link'[d][k] = q[k + 1] /\ k + 1 \in DOMAIN q
      BY <1>2, <1>5, <2>1, ZenonT(60)
    <3>. QED  BY <1>3, <3>1, SMTT(30) DEF KeepsCarry, q
  <2>2. CASE d # e
    BY <1>2, <1>3, <2>2 DEF KeepsCarry
  <2>. QED  BY <2>1, <2>2
<1>. QED  BY <1>1, <1>5, <1>6, <1>7, <1>8, <1>9, <1>10, ZenonT(60) DEF q

(* handleStatusNew keeps the invariant.                                    *)
LEMMA NewReceived ==
  ASSUME FramesAssumption, ConnInv, ReceiveNew
  PROVE  ConnInv'
<1> DEFINE e == "server"
<1>1. e \in Ends /\ Receive(e, "New") /\ Pieces \in Nat
  BY SMTT(30) DEF ReceiveNew, Ends, FramesAssumption
<1>2. PICK h \in Frames :
           /\ link[e] # <<>> /\ h = Head(link[e]) /\ h.id \in Sessions /\ h.status = "New"
           /\ h.piece \in 0..Pieces
           /\ link' = [link EXCEPT ![e] = Tail(link[e])] /\ reply[e] = 0
           /\ link' \in [Ends -> Seq(Frames)]
           /\ \A d \in Ends : Len(link'[d]) <= LinkCap
           /\ KeepsCarry'
  BY <1>1, ReceiveTypes, SMTT(30)
<1>3. PICK i \in Sessions : i = h.id
  BY <1>2, SMTT(30)
<1>4. /\ sess \in [Ends -> [Sessions -> {"none", "open", "ended", "refused", "done"}]]
      /\ copier \in [Ends -> [Sessions -> {"off", "first", "new", "copy", "keep", "end", "close"}]]
      /\ got \in [Ends -> [Sessions -> Seq(1..Pieces)]]
      /\ Opens(i) /\ Copies(e, i) /\ link[e] \in Seq(Frames) /\ got[e][i] \in Seq(1..Pieces)
  BY <1>1, SMTT(30) DEF ConnInv, TypeOK, SessionInv
<1>5. sess[e][i] = "none" /\ copier[e][i] = "off"
  <2>1. ~Greeted(link[e], i, FALSE)
    BY <1>2, <1>3, <1>4, FirstFrame, ZenonT(60)
  <2>. QED  BY <1>4, <2>1, ZenonT(60) DEF Opens, Copies
<1>6. /\ taken' = taken /\ sent' = sent /\ reply' = reply
      /\ copier' = [copier EXCEPT ![e][i] = "copy"]
      /\ \/ h.piece = 0 /\ sess' = [sess EXCEPT ![e][i] = "open"] /\ got' = got
         \/ /\ h.piece # 0 /\ sess' = [sess EXCEPT ![e][i] = "open"]
            /\ got' = [got EXCEPT ![e][i] = Append(got[e][i], h.piece)]
         \/ /\ h.piece # 0 /\ got' = got
            /\ sess' = [[sess EXCEPT ![e][i] = "open"] EXCEPT ![e][i] = "refused"]
  BY <1>2, <1>3, SMTT(30) DEF ReceiveNew, Deliver, Goto
<1>. HIDE DEF e
<1>7. /\ sess' \in [Ends -> [Sessions -> {"none", "open", "ended", "refused", "done"}]]
      /\ \A d \in Ends, j \in Sessions : d # e \/ j # i => sess'[d][j] = sess[d][j]
      /\ \/ h.piece = 0 /\ sess'[e][i] = "open"
         \/ h.piece # 0 /\ sess'[e][i] = "open" /\ got'[e][i] = Append(got[e][i], h.piece)
         \/ h.piece # 0 /\ sess'[e][i] = "refused" /\ got' = got
  <2>1. CASE sess' = [sess EXCEPT ![e][i] = "open"]
    <3>2. /\ sess' \in [Ends -> [Sessions -> {"none", "open", "ended", "refused", "done"}]]
          /\ \A d \in Ends, j \in Sessions : d # e \/ j # i => sess'[d][j] = sess[d][j]
          /\ sess'[e][i] = "open"
      BY <1>1, <1>4, <2>1, Changed, SMTT(30)
    <3>3. sess' # [[sess EXCEPT ![e][i] = "open"] EXCEPT ![e][i] = "refused"]
      BY <1>1, <1>4, <3>2, SMTT(30)
    <3>4. h.piece # 0 => got'[e][i] = Append(got[e][i], h.piece)
      BY <1>1, <1>4, <1>6, <3>3, SMTT(30)
    <3>. QED  BY <3>2, <3>4, ZenonT(60)
  <2>2. CASE h.piece # 0 /\ got' = got /\ sess' = [[sess EXCEPT ![e][i] = "open"] EXCEPT ![e][i] = "refused"]
    <3> DEFINE u == [sess EXCEPT ![e][i] = "open"]
    <3>1. /\ u \in [Ends -> [Sessions -> {"none", "open", "ended", "refused", "done"}]]
          /\ \A d \in Ends, j \in Sessions : d # e \/ j # i => u[d][j] = sess[d][j]
      BY <1>1, <1>4, Changed, SMTT(30)
    <3>2. sess' = [u EXCEPT ![e][i] = "refused"]
      BY <2>2, SMTT(30)
    <3>. HIDE DEF u
    <3>3. /\ sess' \in [Ends -> [Sessions -> {"none", "open", "ended", "refused", "done"}]]
          /\ \A d \in Ends, j \in Sessions : d # e \/ j # i => sess'[d][j] = u[d][j]
          /\ sess'[e][i] = "refused"
      BY <1>1, <3>1, <3>2, Changed, SMTT(30)
    <3>. QED  BY <2>2, <3>1, <3>3, SMTT(30)
  <2>. QED  BY <1>6, <2>1, <2>2, SMTT(30)
<1>8. /\ copier' \in [Ends -> [Sessions -> {"off", "first", "new", "copy", "keep", "end", "close"}]]
      /\ copier'[e][i] = "copy"
      /\ \A d \in Ends, j \in Sessions : d # e \/ j # i => copier'[d][j] = copier[d][j]
  BY <1>1, <1>4, <1>6, SMTT(30)
<1>9. /\ got' \in [Ends -> [Sessions -> Seq(1..Pieces)]]
      /\ \A d \in Ends, j \in Sessions : d # e \/ j # i => got'[d][j] = got[d][j]
      /\ h.piece = 0 => got' = got
  <2>1. CASE got' = got
    BY <1>4, <2>1, SMTT(30)
  <2>2. CASE h.piece # 0 /\ got' = [got EXCEPT ![e][i] = Append(got[e][i], h.piece)]
    <3>1. h.piece \in 1..Pieces
      BY <1>1, <1>2, <2>2, SMTT(30)
    <3>2. Append(got[e][i], h.piece) \in Seq(1..Pieces)
      BY <1>4, <3>1, SMTT(30)
    <3>. QED  BY <1>1, <1>4, <2>2, <3>2, Changed, SMTT(30)
  <2>. QED  BY <1>6, <2>1, <2>2, SMTT(30)
<1>10. TypeOK'
  BY <1>2, <1>6, <1>7, <1>8, <1>9, SMTT(30) DEF TypeOK, ConnInv
<1>11. Copies(e, i)'
  BY <1>4, <1>5, <1>6, <1>7, <1>8, ZenonT(60) DEF Copies
<1>12. Opens(i)'
  <2>1. \A d \in Ends : d # e => sess'[d][i] = sess[d][i] /\ copier'[d][i] = copier[d][i]
    BY <1>7, <1>8, ZenonT(60)
  <2>2. /\ h.status = "New" => e = "server" /\ sess'[e][i] # "none"
        /\ h.status # "New" =>
             /\ copier'[e][i] = copier[e][i]
             /\ sess'[e][i] = "none" <=> sess[e][i] = "none"
    BY <1>2, <1>7, SMTT(30) DEF e
  <2>3. /\ link[e] # <<>> /\ h = Head(link[e]) /\ h.id = i
        /\ link' = [link EXCEPT ![e] = Tail(link[e])]
    BY <1>2, <1>3, SMTT(30)
  <2>. QED  BY <1>1, <2>1, <2>2, <2>3, ReceiveOpens, ZenonT(60)
<1>13. ~Given(e, i) /\ ~Gone(e, i) /\ Live(e, i)
  BY <1>5, SMTT(30) DEF Given, Gone, Live
<1>14. \/ /\ Live(e, i) /\ IsData(h, i) /\ sess'[e][i] = "open"
          /\ got'[e][i] = Append(got[e][i], h.piece)
       \/ /\ got'[e][i] = got[e][i] /\ (Live(e, i)' => Live(e, i) /\ ~IsData(h, i))
          /\ sess'[e][i] = "ended" => sess[e][i] = "ended" \/ (Live(e, i) /\ h.status = "End")
  <2>1. CASE h.piece = 0
    BY <1>2, <1>7, <1>9, <1>13, <2>1, ZenonT(60) DEF IsData
  <2>2. CASE h.piece # 0
    BY <1>2, <1>3, <1>7, <1>13, <2>2, ZenonT(60) DEF IsData, Live
  <2>. QED  BY <2>1, <2>2, ZenonT(60)
<1>15. \A d \in Ends, j \in Sessions : d # e \/ j # i =>
         /\ sess'[d][j] = sess[d][j] /\ copier'[d][j] = copier[d][j] /\ got'[d][j] = got[d][j]
         /\ reply'[d] = j => reply[d] = j
  BY <1>6, <1>7, <1>8, <1>9, SMTT(30)
<1>16. \A j \in Sessions : SessionInv(j)'
  <2>1. /\ UNCHANGED <<taken, sent>> /\ link' = [link EXCEPT ![e] = Tail(link[e])]
        /\ link[e] # <<>> /\ h = Head(link[e]) /\ h.id = i
        /\ reply'[e] = i => reply[e] = i \/ Given(e, i)' \/ Gone(e, i)'
    BY <1>2, <1>3, <1>6, Zenon
  <2>. QED  BY <1>1, <1>11, <1>12, <1>13, <1>14, <1>15, <2>1, ReceiveSteps, ZenonT(60)
<1>. QED  BY <1>2, <1>10, <1>16, SMTT(30) DEF ConnInv

(* handleStatusKeep keeps the invariant.                                   *)
LEMMA KeepReceived ==
  ASSUME FramesAssumption, ConnInv, NEW e \in Ends, ReceiveKeep(e)
  PROVE  ConnInv'
<1>1. Receive(e, "Keep") /\ Pieces \in Nat
  BY ZenonT(60) DEF ReceiveKeep, FramesAssumption
<1>2. PICK h \in Frames :
           /\ link[e] # <<>> /\ h = Head(link[e]) /\ h.id \in Sessions /\ h.status = "Keep"
           /\ h.piece \in 0..Pieces /\ h.piece # 0
           /\ link' = [link EXCEPT ![e] = Tail(link[e])] /\ reply[e] = 0
           /\ link' \in [Ends -> Seq(Frames)]
           /\ \A d \in Ends : Len(link'[d]) <= LinkCap
           /\ KeepsCarry'
  BY <1>1, ReceiveTypes, SMTT(30)
<1>3. PICK i \in Sessions : i = h.id
  BY <1>2, SMTT(30)
<1>4. /\ sess \in [Ends -> [Sessions -> {"none", "open", "ended", "refused", "done"}]]
      /\ got \in [Ends -> [Sessions -> Seq(1..Pieces)]]
      /\ reply \in [Ends -> Sessions \cup {0}] /\ got[e][i] \in Seq(1..Pieces)
      /\ Opens(i) /\ Copies(e, i) /\ link["client"] \in Seq(Frames) /\ link["server"] \in Seq(Frames)
  BY ZenonT(60) DEF ConnInv, TypeOK, SessionInv, Ends
<1>5. sess[e][i] # "none"
  <2>1. CASE e = "client"
    <3>1. Has(link["client"], i)
      BY <1>2, <1>3, <1>4, <2>1, FirstFrame, ZenonT(60)
    <3>. QED  BY <1>4, <2>1, <3>1, Zenon DEF Opens
  <2>2. CASE e = "server"
    <3>1. ~Greeted(link["server"], i, TRUE)
      BY <1>2, <1>3, <1>4, <2>2, FirstFrame, Zenon
    <3>. QED  BY <1>4, <2>2, <3>1, Zenon DEF Opens
  <2>. QED  BY <2>1, <2>2 DEF Ends
<1>6. /\ taken' = taken /\ sent' = sent /\ copier' = copier
      /\ \/ /\ sess[e][i] = "open" /\ sess' = sess /\ reply' = reply
            /\ got' = [got EXCEPT ![e][i] = Append(got[e][i], h.piece)]
         \/ /\ sess[e][i] = "open" /\ got' = got /\ reply' = reply
            /\ sess' = [sess EXCEPT ![e][i] = "refused"]
         \/ /\ sess[e][i] # "open" /\ sess' = sess /\ got' = got
            /\ reply' = [reply EXCEPT ![e] = i]
  BY <1>2, <1>3, ZenonT(60) DEF ReceiveKeep, Deliver
<1>7. /\ sess' \in [Ends -> [Sessions -> {"none", "open", "ended", "refused", "done"}]]
      /\ \A d \in Ends, j \in Sessions : d # e \/ j # i => sess'[d][j] = sess[d][j]
      /\ sess'[e][i] = sess[e][i] \/ (sess[e][i] = "open" /\ sess'[e][i] = "refused")
  <2>1. CASE sess' = sess
    BY <1>4, <2>1, SMTT(30)
  <2>2. CASE sess[e][i] = "open" /\ sess' = [sess EXCEPT ![e][i] = "refused"]
    BY <1>4, <2>2, Changed, SMTT(30)
  <2>. QED  BY <1>6, <2>1, <2>2, SMTT(30)
<1>8. /\ got' \in [Ends -> [Sessions -> Seq(1..Pieces)]]
      /\ \A d \in Ends, j \in Sessions : d # e \/ j # i => got'[d][j] = got[d][j]
  <2>1. CASE got' = got
    BY <1>4, <2>1, SMTT(30)
  <2>2. CASE got' = [got EXCEPT ![e][i] = Append(got[e][i], h.piece)]
    <3>1. h.piece \in 1..Pieces
      BY <1>1, <1>2, SMTT(30)
    <3>2. Append(got[e][i], h.piece) \in Seq(1..Pieces)
      BY <1>4, <3>1, SMTT(30)
    <3>. QED  BY <1>4, <2>2, <3>2, Changed, SMTT(30)
  <2>. QED  BY <1>6, <2>1, <2>2, SMTT(30)
<1>9. /\ reply' \in [Ends -> Sessions \cup {0}]
      /\ \A d \in Ends, j \in Sessions : d # e \/ j # i => (reply'[d] = j => reply[d] = j)
      /\ reply'[e] = i => reply[e] = i \/ sess[e][i] # "open"
  BY <1>4, <1>6, ZenonT(60)
<1>10. TypeOK'
  BY <1>2, <1>6, <1>7, <1>8, <1>9, Zenon DEF TypeOK, ConnInv
<1>11. Copies(e, i)'
  BY <1>4, <1>6, <1>7, ZenonT(60) DEF Copies
<1>12. Opens(i)'
  <2>1. \A d \in Ends : d # e => sess'[d][i] = sess[d][i] /\ copier'[d][i] = copier[d][i]
    BY <1>6, <1>7, SMTT(30)
  <2>2. /\ h.status = "New" => e = "server" /\ sess'[e][i] # "none"
        /\ h.status # "New" =>
             /\ copier'[e][i] = copier[e][i]
             /\ sess'[e][i] = "none" <=> sess[e][i] = "none"
    BY <1>2, <1>5, <1>6, <1>7, SMTT(30)
  <2>3. /\ link[e] # <<>> /\ h = Head(link[e]) /\ h.id = i
        /\ link' = [link EXCEPT ![e] = Tail(link[e])]
    BY <1>2, <1>3, SMTT(30)
  <2>. QED  BY <2>1, <2>2, <2>3, ReceiveOpens, ZenonT(60)
<1>13. /\ Given(e, i) => Given(e, i)'
       /\ Gone(e, i) => Gone(e, i)'
       /\ reply'[e] = i => reply[e] = i \/ Given(e, i)' \/ Gone(e, i)'
  <2>1. sess[e][i] \in {"none", "open", "ended", "refused", "done"}
    BY <1>4, SMTT(30)
  <2>2. sess[e][i] # "open" => Given(e, i)' \/ Gone(e, i)'
    BY <1>4, <1>5, <1>6, <1>7, <2>1, ZenonT(60) DEF Given, Gone, Copies
  <2>3. (Given(e, i) => Given(e, i)') /\ (Gone(e, i) => Gone(e, i)')
    BY <1>6, <1>7, SMTT(30) DEF Given, Gone
  <2>. QED  BY <1>9, <2>2, <2>3, ZenonT(60)
<1>14. \/ /\ Live(e, i) /\ IsData(h, i) /\ sess'[e][i] = "open"
          /\ got'[e][i] = Append(got[e][i], h.piece)
       \/ /\ got'[e][i] = got[e][i] /\ (Live(e, i)' => Live(e, i) /\ ~IsData(h, i))
          /\ sess'[e][i] = "ended" => sess[e][i] = "ended" \/ (Live(e, i) /\ h.status = "End")
  <2>1. CASE sess' = sess /\ sess[e][i] = "open" /\ got' = [got EXCEPT ![e][i] = Append(got[e][i], h.piece)]
    <3>1. got'[e][i] = Append(got[e][i], h.piece)
      BY <1>4, <2>1, SMTT(30)
    <3>. QED  BY <1>2, <1>3, <2>1, <3>1, ZenonT(60) DEF IsData, Live
  <2>2. CASE got' = got /\ sess' = [sess EXCEPT ![e][i] = "refused"]
    <3>1. sess'[e][i] = "refused"
      BY <1>4, <2>2, SMTT(30)
    <3>. QED  BY <2>2, <3>1, SMTT(30) DEF Live
  <2>3. CASE sess' = sess /\ got' = got /\ sess[e][i] # "open"
    BY <1>5, <2>3, SMTT(30) DEF Live
  <2>. QED  BY <1>6, <2>1, <2>2, <2>3, ZenonT(60)
<1>15. \A d \in Ends, j \in Sessions : d # e \/ j # i =>
         /\ sess'[d][j] = sess[d][j] /\ copier'[d][j] = copier[d][j] /\ got'[d][j] = got[d][j]
         /\ reply'[d] = j => reply[d] = j
  BY <1>6, <1>7, <1>8, <1>9, SMTT(30)
<1>16. \A j \in Sessions : SessionInv(j)'
  <2>1. /\ UNCHANGED <<taken, sent>> /\ link' = [link EXCEPT ![e] = Tail(link[e])]
        /\ link[e] # <<>> /\ h = Head(link[e]) /\ h.id = i
    BY <1>2, <1>3, <1>6, Zenon
  <2>. QED  BY <1>11, <1>12, <1>13, <1>14, <1>15, <2>1, ReceiveSteps, ZenonT(60)
<1>. QED  BY <1>2, <1>10, <1>16 DEF ConnInv

(* handleStatusEnd keeps the invariant.                                    *)
LEMMA EndReceived ==
  ASSUME FramesAssumption, ConnInv, NEW e \in Ends, ReceiveEnd(e)
  PROVE  ConnInv'
<1>1. Receive(e, "End") /\ Pieces \in Nat
  BY SMTT(30) DEF ReceiveEnd, FramesAssumption
<1>2. PICK h \in Frames :
           /\ link[e] # <<>> /\ h = Head(link[e]) /\ h.id \in Sessions /\ h.status = "End"
           /\ h.piece \in 0..Pieces
           /\ link' = [link EXCEPT ![e] = Tail(link[e])] /\ reply[e] = 0
           /\ link' \in [Ends -> Seq(Frames)]
           /\ \A d \in Ends : Len(link'[d]) <= LinkCap
           /\ KeepsCarry'
  BY <1>1, ReceiveTypes, SMTT(30)
<1>3. PICK i \in Sessions : i = h.id
  BY <1>2, SMTT(30)
<1>4. /\ sess \in [Ends -> [Sessions -> {"none", "open", "ended", "refused", "done"}]]
      /\ got \in [Ends -> [Sessions -> Seq(1..Pieces)]]
      /\ reply \in [Ends -> Sessions \cup {0}] /\ got[e][i] \in Seq(1..Pieces)
      /\ Opens(i) /\ Copies(e, i) /\ link["client"] \in Seq(Frames) /\ link["server"] \in Seq(Frames)
  BY Zenon DEF ConnInv, TypeOK, SessionInv, Ends
<1>5. /\ taken' = taken /\ sent' = sent /\ copier' = copier /\ got' = got /\ reply' = reply
      /\ sess' = [sess EXCEPT ![e][i] = IF sess[e][i] = "open" THEN "ended" ELSE sess[e][i]]
  BY <1>2, <1>3, SMTT(30) DEF ReceiveEnd, CloseSession
<1>6. /\ sess' \in [Ends -> [Sessions -> {"none", "open", "ended", "refused", "done"}]]
      /\ \A d \in Ends, j \in Sessions : d # e \/ j # i => sess'[d][j] = sess[d][j]
      /\ sess'[e][i] = IF sess[e][i] = "open" THEN "ended" ELSE sess[e][i]
  BY <1>4, <1>5, SMTT(30)
<1>7. copier' = copier
  BY <1>5, SMTT(30)
<1>8. TypeOK'
  BY <1>2, <1>5, <1>6, SMTT(30) DEF TypeOK, ConnInv
<1>9. Copies(e, i)'
  BY <1>4, <1>5, <1>6, ZenonT(60) DEF Copies
<1>10. Opens(i)'
  <2>1. \A d \in Ends : d # e => sess'[d][i] = sess[d][i] /\ copier'[d][i] = copier[d][i]
    BY <1>6, <1>7, SMTT(30)
  <2>2. /\ h.status = "New" => e = "server" /\ sess'[e][i] # "none"
        /\ h.status # "New" =>
             /\ copier'[e][i] = copier[e][i]
             /\ sess'[e][i] = "none" <=> sess[e][i] = "none"
    BY <1>2, <1>5, <1>6, <1>7, ZenonT(60)
  <2>3. /\ link[e] # <<>> /\ h = Head(link[e]) /\ h.id = i
        /\ link' = [link EXCEPT ![e] = Tail(link[e])]
    BY <1>2, <1>3, SMTT(30)
  <2>. QED  BY <2>1, <2>2, <2>3, ReceiveOpens, ZenonT(60)
<1>11. (Given(e, i) => Given(e, i)') /\ (Gone(e, i) => Gone(e, i)')
  BY <1>6, <1>7, SMTT(30) DEF Given, Gone
<1>12. /\ got'[e][i] = got[e][i] /\ (Live(e, i)' => Live(e, i) /\ ~IsData(h, i))
       /\ sess'[e][i] = "ended" => sess[e][i] = "ended" \/ (Live(e, i) /\ h.status = "End")
  BY <1>2, <1>5, <1>6, ZenonT(60) DEF Live, IsData
<1>13. \A d \in Ends, j \in Sessions : d # e \/ j # i =>
         /\ sess'[d][j] = sess[d][j] /\ copier'[d][j] = copier[d][j] /\ got'[d][j] = got[d][j]
         /\ reply'[d] = j => reply[d] = j
  BY <1>5, <1>6, ZenonT(60)
<1>14. \A j \in Sessions : SessionInv(j)'
  <2>1. /\ UNCHANGED <<taken, sent>> /\ link' = [link EXCEPT ![e] = Tail(link[e])]
        /\ link[e] # <<>> /\ h = Head(link[e]) /\ h.id = i
        /\ reply'[e] = i => reply[e] = i \/ Given(e, i)' \/ Gone(e, i)'
    BY <1>2, <1>3, <1>5
  <2>. QED  BY <1>9, <1>10, <1>11, <1>12, <1>13, <2>1, ReceiveSteps, ZenonT(60)
<1>. QED  BY <1>2, <1>8, <1>14, SMTT(30) DEF ConnInv

(* Every step of the connection keeps the invariant.                       *)
LEMMA ConnStep ==
  ASSUME FramesAssumption, ConnInv, [Next]_vars
  PROVE  ConnInv'
<1>. "client" \in Ends
  BY DEF Ends
<1>1. CASE UNCHANGED vars
  <2>1. /\ link' = link /\ sess' = sess /\ copier' = copier /\ taken' = taken
        /\ sent' = sent /\ got' = got /\ reply' = reply
    BY <1>1, SMTT(30) DEF vars
  <2>2. TypeOK' /\ KeepsCarry'
    BY <2>1, SMTT(30) DEF ConnInv, TypeOK, KeepsCarry
  <2>3. ASSUME NEW i \in Sessions PROVE SessionInv(i)'
    <3>1. Same(i) /\ Passed(i)
      BY <2>1, SMTT(30) DEF Same, Passed
    <3>. QED  BY <3>1, OtherSessions, SMTT(30) DEF ConnInv
  <2>. QED  BY <2>2, <2>3, SMTT(30) DEF ConnInv
<1>2. ASSUME NEW i \in Sessions, Dispatch(i) \/ FirstTimeout(i)
      PROVE  ConnInv'
  BY <1>2, QuietActions, CopierSends, ZenonT(60)
<1>3. ASSUME NEW e \in Ends, NEW i \in Sessions,
             ReadInput(e, i) \/ WriteInput(e, i) \/ InputEnds(e, i) \/ EndSession(e, i)
      PROVE  ConnInv'
  <2>1. EndSession(e, i) => copier[e][i] \in {"end", "close"}
    BY ZenonT(60) DEF EndSession
  <2>. QED  BY <1>3, <2>1, QuietActions, CopierSends, ZenonT(60)
<1>4. ASSUME NEW e \in Ends, Read(e)
      PROVE  ConnInv'
  BY <1>4, NewReceived, KeepReceived, ReaderReplies, EndReceived, SMTT(30) DEF Read
<1>. QED  BY <1>1, <1>2, <1>3, <1>4 DEF Next

(* For any number of sessions and of pieces, and any capacity of the two   *)
(* links: what fetchOutput and ServerWorker.run write to a session's       *)
(* output is what the other end read from its input, in that order and     *)
(* from the first piece on; and an End frame that closes a session finds   *)
(* all of it written, unless the other end had given the session up.       *)
THEOREM SessionsAreWhole ==
  FramesAssumption => (Spec => [](InOrder /\ CompleteAtEnd))
<1>. SUFFICES ASSUME FramesAssumption PROVE Spec => [](InOrder /\ CompleteAtEnd)
  OBVIOUS
<1>1. Init => ConnInv
  <2>. SUFFICES ASSUME Init PROVE ConnInv
    OBVIOUS
  <2>1. /\ link = [e \in Ends |-> <<>>] /\ \A e \in Ends : DOMAIN link[e] = {}
        /\ Pieces \in Nat /\ LinkCap \in Nat
    BY SMTT(30) DEF Init, FramesAssumption
  <2>2. TypeOK
    BY <2>1 DEF Init, TypeOK
  <2>3. KeepsCarry
    BY <2>1 DEF KeepsCarry
  <2>4. ASSUME NEW i \in Sessions PROVE SessionInv(i)
    <3>1. ASSUME NEW e \in Ends PROVE Arrives(e, i) /\ Copies(e, i) /\ Stops(e, i)
      <4>1. /\ Peer(e) \in Ends
            /\ got[e][i] = <<>> /\ sent[Peer(e)][i] = 0 /\ sess[e][i] = "none"
            /\ copier[e][i] = "off" /\ taken[e][i] = 0 /\ sent[e][i] = 0 /\ reply[Peer(e)] # i
        BY TwoEnds DEF Init, FramesAssumption
      <4>2. Counted(<<>>) /\ Len(<<>>) = 0
        BY SMTT(30) DEF Counted
      <4>3. DataOf(link[e], i) = {} /\ ~HasEnd(link[e], i) /\ Stopped(link[e], i)
        BY <2>1, SMTT(30) DEF DataOf, HasEnd, Stopped
      <4>4. Flow(link[e], i, 0, 0, TRUE) /\ Flow(link[e], i, 0, 0, FALSE)
        BY <4>3 DEF Flow
      <4>. QED  BY <4>1, <4>2, <4>3, <4>4, ZenonT(60) DEF Arrives, Copies, Stops
    <3>2. Opens(i)
      <4>1. /\ sess["client"][i] = "none" /\ sess["server"][i] = "none" /\ copier["client"][i] = "off"
            /\ DOMAIN link["client"] = {} /\ DOMAIN link["server"] = {}
        BY <2>1 DEF Init, Ends
      <4>. QED  BY <4>1, ZenonT(60) DEF Opens, Has, HasNew, Greeted
    <3>. QED  BY <3>1, <3>2, SMTT(30) DEF SessionInv
  <2>. QED  BY <2>2, <2>3, <2>4, SMTT(30) DEF ConnInv
<1>2. ConnInv /\ [Next]_vars => ConnInv'
  BY ConnStep, SMTT(30)
<1>3. ConnInv => InOrder /\ CompleteAtEnd
  <2>. SUFFICES ASSUME ConnInv, NEW e \in Ends, NEW i \in Sessions
                PROVE  /\ got[e][i] = [k \in 1..Len(got[e][i]) |-> k]
                       /\ Len(got[e][i]) <= sent[Peer(e)][i]
                       /\ sess[e][i] = "ended" /\ sess[Peer(e)][i] \in {"open", "done"}
                            => Len(got[e][i]) = sent[Peer(e)][i]
    BY ZenonT(60) DEF InOrder, CompleteAtEnd
  <2>1. Arrives(e, i) /\ Stops(e, i)
    BY SMTT(30) DEF ConnInv, SessionInv
  <2>2. got[e][i] = [k \in 1..Len(got[e][i]) |-> k]
    BY <2>1, SMTT(30) DEF Arrives, Counted
  <2>3. Len(got[e][i]) <= sent[Peer(e)][i]
    BY <2>1, ZenonT(60) DEF Arrives, Flow
  <2>4. sess[e][i] = "ended" /\ sess[Peer(e)][i] \in {"open", "done"}
          => Len(got[e][i]) = sent[Peer(e)][i]
    BY <2>1, ZenonT(60) DEF Stops, Given
  <2>. QED  BY <2>2, <2>3, <2>4, ZenonT(60)
<1>. QED  BY <1>1, <1>2, <1>3, PTL DEF Spec
=============================================================================
