----------------------------- MODULE UploadQueue ------------------------------
(***************************************************************************)
(* The server's upload queue of an XHTTP session                           *)
(* (transport/internet/splithttp/upload_queue.go) with the requests around *)
(* it (hub.go, ServeHTTP): every POST pushes one packet in a goroutine of  *)
(* its own, the connection's handler reads, and the handler and the end of *)
(* the GET close.  A packet carries a sequence number and Size pieces of   *)
(* payload, or, in stream-up mode, the body of the POST as a Reader.       *)
(***************************************************************************)
EXTENDS Integers, Sequences, FiniteSets

CONSTANTS
  Posts,        \* the POST requests
  Streams,      \* those that carry a Reader
  SeqOf,        \* the sequence number of every other one
  Size,         \* pieces of payload in a packet
  MaxPackets,   \* scMaxBufferedPosts
  MayClose      \* the handler or the GET may end at any time

\* What the constants must satisfy.
QueueAssumption ==
  /\ Streams \subseteq Posts /\ SeqOf \in [Posts -> Nat]
  /\ Size \in Nat \ {0} /\ MaxPackets \in Nat \ {0}

VARIABLES
  pushed,    \* pushedPackets, the channel
  over,      \* the channel is closed
  heap,      \* packets out of the channel and not yet read
  rest,      \* rest[p]: pieces of p that are still to be read
  nextSeq, closed, nomore,
  reader,    \* reader, a set of at most one stream
  mutex,     \* who holds writeCloseMutex: {"push"}, {"close"} or nobody
  post,      \* post[p]: where the request is
  rd,        \* where the handler's Read is
  taken,     \* the stream Read has received and not yet stored
  closer,    \* closer[c]: where a call of Close is
  shut,      \* streams that were closed
  out        \* what the handler has read: pairs of number and piece

vars == <<pushed, over, heap, rest, nextSeq, closed, nomore, reader, mutex,
          post, rd, taken, closer, shut, out>>

Closers == {"handler", "get"}
Ended == {"eof", "large", "left"}

TypeOK ==
  /\ pushed \in Seq(Posts) /\ Len(pushed) <= MaxPackets
  /\ heap \subseteq Posts /\ rest \in [Posts -> 0..Size]
  /\ over \in BOOLEAN /\ closed \in BOOLEAN /\ nomore \in BOOLEAN
  /\ nextSeq \in Nat
  /\ reader \subseteq Streams /\ taken \subseteq Streams /\ shut \subseteq Streams
  /\ mutex \subseteq {"push", "close"}
  /\ post \in [Posts -> {"idle", "send", "queued", "refused", "back"}]
  /\ rd \in {"idle", "first", "stored", "loop", "more", "stream"} \cup Ended
  /\ closer \in [Closers -> {"idle", "lock", "drain", "back"}]
  /\ over => closed

Init ==
  /\ pushed = <<>> /\ over = FALSE
  /\ heap = {} /\ rest = [p \in Posts |-> Size]
  /\ nextSeq = 0 /\ closed = FALSE /\ nomore = FALSE
  /\ reader = {} /\ taken = {} /\ shut = {}
  /\ mutex = {}
  /\ post = [p \in Posts |-> "idle"]
  /\ rd = "idle"
  /\ closer = [c \in Closers |-> "idle"]
  /\ out = <<>>

-----------------------------------------------------------------------------
(* Push.                                                                   *)

\* The lock, the two refusals and nomore.
Accept(p) ==
  /\ post[p] = "idle" /\ mutex = {}
  /\ IF closed \/ nomore
     THEN post' = [post EXCEPT ![p] = "refused"] /\ UNCHANGED <<mutex, nomore>>
     ELSE /\ post' = [post EXCEPT ![p] = "send"]
          /\ mutex' = {"push"}
          /\ nomore' = (p \in Streams)
  /\ UNCHANGED <<pushed, over, heap, rest, nextSeq, closed, reader, rd, taken, closer, shut, out>>

\* The send, which waits while the channel is full, and the unlock.
Send(p) ==
  /\ post[p] = "send" /\ Len(pushed) < MaxPackets
  /\ pushed' = Append(pushed, p)
  /\ mutex' = {}
  /\ post' = [post EXCEPT ![p] = "queued"]
  /\ UNCHANGED <<over, heap, rest, nextSeq, closed, nomore, reader, rd, taken, closer, shut, out>>

\* ServeHTTP of a stream waits for its conn to be done; the client keeps it open.
PostReturns(p) ==
  /\ post[p] = "queued"
  /\ p \in Streams => p \in shut
  /\ post' = [post EXCEPT ![p] = "back"]
  /\ UNCHANGED <<pushed, over, heap, rest, nextSeq, closed, nomore, reader, mutex, rd, taken, closer, shut, out>>

-----------------------------------------------------------------------------
(* Read, in the handler's goroutine.                                       *)

Read ==
  /\ rd = "idle"
  /\ rd' = CASE reader # {} -> "stream"
             [] reader = {} /\ closed -> "eof"
             [] reader = {} /\ ~closed -> IF heap = {} THEN "first" ELSE "loop"
  /\ UNCHANGED <<pushed, over, heap, rest, nextSeq, closed, nomore, reader, mutex, post, taken, closer, shut, out>>

\* A receive from the closed channel: EOF.
ReceiveNothing ==
  /\ rd \in {"first", "more"}
  /\ pushed = <<>> /\ over
  /\ rd' = "eof"
  /\ UNCHANGED <<pushed, over, heap, rest, nextSeq, closed, nomore, reader, mutex, post, taken, closer, shut, out>>

\* The receive for an empty heap, and the one behind a misordered packet.
Receive ==
  /\ rd \in {"first", "more"}
  /\ pushed # <<>>
  /\ LET p == Head(pushed) IN
       IF rd = "first" /\ p \in Streams
       THEN rd' = "stored" /\ taken' = {p} /\ UNCHANGED heap
       ELSE rd' = "loop" /\ heap' = heap \cup {p} /\ UNCHANGED taken
  /\ pushed' = Tail(pushed)
  /\ UNCHANGED <<over, rest, nextSeq, closed, nomore, reader, mutex, post, closer, shut, out>>

\* h.reader = packet.Reader, without a lock.
StoreReader ==
  /\ rd = "stored"
  /\ reader' = taken /\ taken' = {}
  /\ rd' = "stream"
  /\ UNCHANGED <<pushed, over, heap, rest, nextSeq, closed, nomore, mutex, post, closer, shut, out>>

\* Reading from a Reader ends when it is closed.
StreamEnds ==
  /\ rd = "stream"
  /\ reader \subseteq shut
  /\ rd' = "eof"
  /\ UNCHANGED <<pushed, over, heap, rest, nextSeq, closed, nomore, reader, mutex, post, taken, closer, shut, out>>

First(h) == {p \in h : \A q \in h : SeqOf[p] <= SeqOf[q]}

\* The pieces of p after the first Size - rest[p].
Pieces(p, n) == [i \in 1..n |-> <<SeqOf[p], Size - rest[p] + i>>]

\* The packet is the next one; the caller's buffer takes some of it or all.
Copy(p) ==
  /\ SeqOf[p] = nextSeq
  /\ \E n \in 1..rest[p] :
       /\ out' = out \o Pieces(p, n)
       /\ rest' = [rest EXCEPT ![p] = @ - n]
       /\ IF n < rest[p] THEN UNCHANGED <<heap, nextSeq>>
                         ELSE heap' = heap \ {p} /\ nextSeq' = nextSeq + 1
  /\ rd' = "idle"

\* A packet before its turn: too many of them are an error.
Misordered(p) ==
  /\ SeqOf[p] > nextSeq
  /\ IF Cardinality(heap \ {p}) > MaxPackets
     THEN rd' = "large" /\ heap' = heap \ {p}
     ELSE rd' = "more" /\ UNCHANGED heap
  /\ UNCHANGED <<rest, nextSeq, out>>

\* Mutant: a packet that was read before is read again.
RepeatedRead(p) ==
  /\ SeqOf[p] < nextSeq
  /\ heap' = heap \ {p}
  /\ out' = Append(out, <<SeqOf[p], 1>>)
  /\ rd' = "idle"
  /\ UNCHANGED <<rest, nextSeq>>

\* A packet that was read before.
Repeated(p) ==
  /\ SeqOf[p] < nextSeq
  /\ heap' = heap \ {p}
  /\ rd' = IF heap' = {} THEN "idle" ELSE "loop"
  /\ UNCHANGED <<rest, nextSeq, out>>

Pop ==
  /\ rd = "loop"
  /\ \E p \in First(heap) : Copy(p) \/ Misordered(p) \/ Repeated(p)
  /\ UNCHANGED <<pushed, over, closed, nomore, reader, mutex, post, taken, closer, shut>>

\* The handler has enough: the other side of the connection has failed.
Leave ==
  /\ MayClose
  /\ rd \in {"idle", "stream"}
  /\ rd' = "left"
  /\ UNCHANGED <<pushed, over, heap, rest, nextSeq, closed, nomore, reader, mutex, post, taken, closer, shut, out>>

-----------------------------------------------------------------------------
(* Close, by the handler that has done reading or by the GET that ended.   *)

CallClose(c) ==
  /\ closer[c] = "idle"
  /\ IF c = "handler" THEN rd \in Ended ELSE MayClose
  /\ closer' = [closer EXCEPT ![c] = "lock"]
  /\ UNCHANGED <<pushed, over, heap, rest, nextSeq, closed, nomore, reader, mutex, post, rd, taken, shut, out>>

Lock(c) ==
  /\ closer[c] = "lock" /\ mutex = {}
  /\ mutex' = {"close"}
  /\ closed' = TRUE
  /\ closer' = [closer EXCEPT ![c] = "drain"]
  /\ UNCHANGED <<pushed, over, heap, rest, nextSeq, nomore, reader, post, rd, taken, shut, out>>

\* The loop that empties the channel, its close, and the Reader's.
Drain(c) ==
  /\ closer[c] = "drain"
  /\ LET found == {pushed[i] : i \in DOMAIN pushed} \cap Streams
     IN reader' = IF found # {} THEN found ELSE reader
  /\ pushed' = <<>> /\ over' = TRUE
  /\ shut' = shut \cup reader'
  /\ mutex' = {}
  /\ closer' = [closer EXCEPT ![c] = "back"]
  /\ UNCHANGED <<heap, rest, nextSeq, closed, nomore, post, rd, taken, out>>

-----------------------------------------------------------------------------
PostStep(p) == Accept(p) \/ Send(p) \/ PostReturns(p)
ReadStep == Read \/ ReceiveNothing \/ Receive \/ StoreReader \/ StreamEnds \/ Pop
CloseStep(c) == Lock(c) \/ Drain(c)

Next ==
  \/ \E p \in Posts : PostStep(p)
  \/ ReadStep \/ Leave
  \/ \E c \in Closers : CallClose(c) \/ CloseStep(c)

Spec == Init /\ [][Next]_vars

(* Goroutines run, the requests arrive, a waiter gets the mutex in the end, *)
(* and the handler closes the connection it has done reading.              *)
Fairness ==
  /\ \A p \in Posts : SF_vars(PostStep(p))
  /\ WF_vars(ReadStep)
  /\ \A c \in Closers : SF_vars(CloseStep(c))
  /\ WF_vars(CallClose("handler"))

FairSpec == Spec /\ Fairness

-----------------------------------------------------------------------------
(* The handler reads the payloads in the order of their numbers, each      *)
(* piece once, whatever the order in which the POSTs arrive, whichever of  *)
(* them is repeated and however short its buffer is.                       *)
InOrder ==
  \A i \in DOMAIN out : out[i] = <<(i - 1) \div Size, ((i - 1) % Size) + 1>>

(* "We want to constrain memory usage somehow" (upload_queue.go:128): the  *)
(* heap holds at most two packets more than maxPackets.                    *)
HeapBounded == Cardinality(heap) <= MaxPackets + 2

(* One stream is accepted in a session, the others are refused.            *)
OneStream == Cardinality({p \in Streams : post[p] \notin {"idle", "refused"}}) <= 1

(* When the handler has closed the connection, the stream it read, or      *)
(* would have read, is closed, so that the POST that brought it returns.   *)
StreamShut ==
  closer["handler"] = "back" => \A p \in Streams : post[p] = "queued" => p \in shut

(* While nobody closes, everything that is posted is read, if no more than *)
(* MaxPackets + 1 packets can be ahead of their turn.                      *)
AllRead == <>(Len(out) = Size * Cardinality({SeqOf[p] : p \in Posts}))

(* upload_queue.go:129: "let's tear down the connection".                  *)
TornDown == rd = "large" ~> closed

(* hub.go:260: "after GET is done, the connection is finished".            *)
FinishedAfterGet == closer["get"] = "back" ~> \A p \in Streams : post[p] # "queued"
=============================================================================
