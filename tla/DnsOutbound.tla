----------------------------- MODULE DnsOutbound ------------------------------
(***************************************************************************)
(* The DNS outbound (proxy/dns/dns.go): a link whose messages are DNS      *)
(* queries.  Process runs two tasks.  request reads the queries, has a     *)
(* goroutine answer those for addresses from the DNS client, drops or      *)
(* refuses others, or writes them to the server; response brings what the  *)
(* server answers.  The connection to the server is dialled with the first *)
(* query that is written, and response waits for it on connReady.          *)
(***************************************************************************)
EXTENDS Integers, Sequences

CONSTANTS
  N,            \* queries of the client, in order
  NonIPQuery,   \* "drop", "reject" or "skip"
  BlockTypes,   \* kinds of queries that are blocked
  OwnLink,      \* the link is the DNS client's own
  MayFail       \* dialling and the connection may fail

\* "ip" asks for addresses, "other" for something else; "bad" cannot be parsed.
Kinds == {"ip", "other", "bad"}
Queries == 1..N

\* What the constants must satisfy.
DnsOutboundAssumption ==
  /\ N \in Nat /\ NonIPQuery \in {"drop", "reject", "skip"} /\ BlockTypes \subseteq Kinds
  /\ {OwnLink, MayFail} \subseteq BOOLEAN

VARIABLES
  kind,       \* kind[q]
  sent,       \* queries the client has sent
  client,     \* its end of the link: "open", "ended" or "reset"
  request,    \* where the task is, the query it is at, and its error
  response,   \* the same, with a reply of the server
  conn,       \* outboundConn.conn: "nil", "open" or "closed"
  ready,      \* connReady: whether it holds a token, and whether it is closed
  workers,    \* goroutines that answer a query
  server,     \* the server: queries it has got, replies on the way, whether it ended
  process,    \* "running", or "returned" with the link closed
  answers     \* answers[q]: what the client has got for a query, by whom

vars == <<kind, sent, client, request, response, conn, ready, workers, server, process, answers>>

Init ==
  /\ kind \in [Queries -> Kinds] /\ sent = 0 /\ client = "open"
  /\ request = [pc |-> "read", q |-> 0, err |-> FALSE]
  /\ response = [pc |-> "load", q |-> 0, err |-> FALSE]
  /\ conn = "nil" /\ ready = [token |-> FALSE, closed |-> FALSE]
  /\ workers = {} /\ server = [got |-> {}, replies |-> {}, ended |-> FALSE]
  /\ process = "running" /\ answers = [q \in Queries |-> <<>>]

-----------------------------------------------------------------------------
(* The client and the server.                                              *)

Ask ==
  /\ client = "open" /\ sent < N
  /\ sent' = sent + 1
  /\ UNCHANGED <<kind, client, request, response, conn, ready, workers, server, process, answers>>

ClientEnds ==
  /\ client = "open"
  /\ client' \in {"ended", "reset"}
  /\ UNCHANGED <<kind, sent, request, response, conn, ready, workers, server, process, answers>>

Reply(q) ==
  /\ q \in server.got /\ ~server.ended
  /\ server' = [server EXCEPT !.got = @ \ {q}, !.replies = @ \cup {q}]
  /\ UNCHANGED <<kind, sent, client, request, response, conn, ready, workers, process, answers>>

ServerEnds ==
  /\ MayFail /\ conn = "open" /\ ~server.ended
  /\ server' = [server EXCEPT !.ended = TRUE]
  /\ UNCHANGED <<kind, sent, client, request, response, conn, ready, workers, process, answers>>

-----------------------------------------------------------------------------
(* request.                                                                *)

RequestAt(pc) == request' = [request EXCEPT !.pc = pc]
RequestEnds(err) == request' = [request EXCEPT !.pc = "close", !.err = err]

\* reader.ReadMessage: a query, of which some may be in a buffer although the
\* link has been interrupted, or the end of the link.
ReadMessage ==
  /\ request.pc = "read"
  /\ \/ request.q < sent /\ request' = [request EXCEPT !.pc = "handle", !.q = @ + 1]
     \/ request.q = sent /\ client # "open" /\ RequestEnds(client = "reset")
     \/ process = "returned" /\ RequestEnds(TRUE)
  /\ UNCHANGED <<kind, sent, client, response, conn, ready, workers, server, process, answers>>

\* What becomes of it; the answer of a goroutine is by "lookup" or "refused".
Handle ==
  LET q == request.q
      goes(by) == workers' = workers \cup {[q |-> q, by |-> by]}
      stays == UNCHANGED workers
      refuses == IF NonIPQuery = "reject" THEN goes("refused") ELSE stays
  IN /\ request.pc = "handle"
     /\ IF OwnLink THEN RequestAt("write") /\ stays
        ELSE IF kind[q] \in BlockTypes THEN RequestEnds(FALSE) /\ refuses
        ELSE IF kind[q] = "ip" THEN RequestAt("read") /\ goes("lookup")
        ELSE IF NonIPQuery = "skip" THEN RequestAt("write") /\ stays
        ELSE RequestAt("read") /\ refuses
     /\ UNCHANGED <<kind, sent, client, response, conn, ready, server, process, answers>>

\* outboundConn.Write: the lock, kept while there is a connection to be dialled.
Write ==
  /\ request.pc = "write"
  /\ RequestAt(IF conn = "nil" THEN "dial" ELSE "send")
  /\ UNCHANGED <<kind, sent, client, response, conn, ready, workers, server, process, answers>>

Locked == request.pc \in {"dial", "signal"}

\* A query that cannot be written for want of a connection is dropped.
Dial ==
  /\ request.pc = "dial"
  /\ \/ conn' = "open" /\ RequestAt("signal")
     \/ MayFail /\ UNCHANGED conn /\ RequestAt("read")
  /\ UNCHANGED <<kind, sent, client, response, ready, workers, server, process, answers>>

\* c.connReady <- struct{}{}
Signal ==
  /\ request.pc = "signal" /\ ~ready.token /\ ~ready.closed
  /\ ready' = [ready EXCEPT !.token = TRUE]
  /\ RequestAt("send")
  /\ UNCHANGED <<kind, sent, client, response, conn, workers, server, process, answers>>

\* c.conn.Write; what is written after the server has ended is lost, or fails.
Send ==
  /\ request.pc = "send"
  /\ \/ ~server.ended /\ server' = [server EXCEPT !.got = @ \cup {request.q}] /\ RequestAt("read")
     \/ server.ended /\ UNCHANGED server /\ (RequestAt("read") \/ RequestEnds(TRUE))
  /\ UNCHANGED <<kind, sent, client, response, conn, ready, workers, process, answers>>

\* defer conn.Close()
Close ==
  /\ request.pc = "close"
  /\ ready' = [ready EXCEPT !.closed = TRUE]
  /\ conn' = IF conn = "open" THEN "closed" ELSE conn
  /\ RequestAt("done")
  /\ UNCHANGED <<kind, sent, client, response, workers, server, process, answers>>

-----------------------------------------------------------------------------
(* response, and the goroutines that answer.                               *)

\* outboundConn.Read: the connection under the lock, or the wait for one.
Load ==
  /\ response.pc = "load" /\ ~Locked
  /\ response' = [response EXCEPT !.pc = IF conn = "nil" THEN "wait" ELSE "read"]
  /\ UNCHANGED <<kind, sent, client, request, conn, ready, workers, server, process, answers>>

Wait ==
  /\ response.pc = "wait" /\ (ready.token \/ ready.closed)
  /\ response' = [response EXCEPT !.pc = IF ready.token THEN "read" ELSE "done"]
  /\ ready' = [ready EXCEPT !.token = FALSE]
  /\ UNCHANGED <<kind, sent, client, request, conn, workers, server, process, answers>>

\* conn.Read: a reply, or the end of the connection on either side.
Read ==
  /\ response.pc = "read"
  /\ \/ \E q \in server.replies :
          /\ conn = "open"
          /\ server' = [server EXCEPT !.replies = @ \ {q}]
          /\ response' = [response EXCEPT !.pc = "write", !.q = q]
     \/ /\ conn = "closed" \/ (server.ended /\ server.replies = {})
        /\ response' = [response EXCEPT !.pc = "done", !.err = (conn = "closed")]
        /\ UNCHANGED server
  /\ UNCHANGED <<kind, sent, client, request, conn, ready, workers, process, answers>>

\* writer.WriteMessage on the link, one message whole; it fails when the link is closed.
Answer(q, by) ==
  answers' = IF process = "running" THEN [answers EXCEPT ![q] = Append(@, by)] ELSE answers

WriteReply ==
  /\ response.pc = "write"
  /\ Answer(response.q, "server")
  /\ response' = IF process = "running" THEN [response EXCEPT !.pc = "load"]
                 ELSE [response EXCEPT !.pc = "done", !.err = TRUE]
  /\ UNCHANGED <<kind, sent, client, request, conn, ready, workers, server, process>>

\* handleIPQuery, whose lookup may fail without a code: then there is no answer.
HandleIPQuery(w) ==
  /\ w.by = "lookup"
  /\ Answer(w.q, w.by) \/ UNCHANGED answers

\* rejectNonIPQuery, which cannot build a message without a name.
RejectNonIPQuery(w) ==
  /\ w.by = "refused"
  /\ IF kind[w.q] = "bad" THEN UNCHANGED answers ELSE Answer(w.q, w.by)

Work(w) ==
  /\ w \in workers
  /\ workers' = workers \ {w}
  /\ HandleIPQuery(w) \/ RejectNonIPQuery(w)
  /\ UNCHANGED <<kind, sent, client, request, response, conn, ready, server, process>>

-----------------------------------------------------------------------------
\* Handler.Dispatch after Process: the link is closed.
Returns ==
  /\ process = "running"
  /\ process' = "returned"
  /\ UNCHANGED <<kind, sent, client, request, response, conn, ready, workers, server, answers>>

\* task.Run returns, with the first error or when both tasks have ended.
RunReturns ==
  LET ended(t) == t.pc = "done"
  IN /\ (ended(request) /\ ended(response)) \/ \E t \in {request, response} : ended(t) /\ t.err
     /\ Returns

\* The timer of inactivity, or the context's end.
Cancelled == Returns

Request == ReadMessage \/ Handle \/ Write \/ Dial \/ Signal \/ Send \/ Close
Response == Load \/ Wait \/ Read \/ WriteReply

Next ==
  \/ Ask \/ ClientEnds \/ ServerEnds \/ \E q \in Queries : Reply(q)
  \/ Request \/ Response \/ (\E w \in workers : Work(w)) \/ RunReturns \/ Cancelled

Spec == Init /\ [][Next]_vars

\* The goroutines run and lookups return; nobody has to ask, to answer or to end.
Fairness ==
  /\ WF_vars(Request) /\ WF_vars(Response) /\ WF_vars(RunReturns)
  /\ WF_vars(\E w \in workers : Work(w))
FairSpec == Spec /\ Fairness

-----------------------------------------------------------------------------
TypeOK ==
  /\ sent \in 0..N /\ request.q \in 0..sent
  /\ request.pc \in {"read", "handle", "write", "dial", "signal", "send", "close", "done"}
  /\ response.pc \in {"load", "wait", "read", "write", "done"}
  /\ conn \in {"nil", "open", "closed"} /\ process \in {"running", "returned"}
  /\ server.got \cup server.replies \subseteq Queries

\* Who answers a query, if anybody does.
AnsweredBy(q) ==
  IF OwnLink THEN "server"
  ELSE IF kind[q] \in BlockTypes THEN IF NonIPQuery = "reject" THEN "refused" ELSE "nobody"
  ELSE IF kind[q] = "ip" THEN "lookup"
  ELSE IF NonIPQuery = "skip" THEN "server"
  ELSE IF NonIPQuery = "reject" THEN "refused" ELSE "nobody"

(* What the client of the DNS outbound gets: for a query at most one       *)
(* answer, from the DNS client, the server or as a refusal as the          *)
(* configuration says; and the server has seen no query but its own.       *)
AnsweredOnce ==
  /\ \A q \in Queries : answers[q] \in {<<>>, <<AnsweredBy(q)>>}
  /\ \A q \in server.got \cup server.replies : AnsweredBy(q) = "server" /\ answers[q] = <<>>

(* outboundConn: whoever waits on connReady when there is a connection is  *)
(* woken, the token never finds another or a closed channel, which would   *)
(* block or panic with the lock held, and when request has ended there is  *)
(* no open connection left.                                                *)
ReadyIsRight ==
  /\ response.pc = "wait" /\ conn # "nil" => ready.token \/ ready.closed \/ request.pc = "signal"
  /\ request.pc = "signal" => ~ready.token /\ ~ready.closed
  /\ request.pc = "done" => conn # "open"

(* Process: once the client has gone, the link was idle too long or a task *)
(* failed, both tasks and every goroutine end and the link is closed.      *)
ProcessEnds ==
  client # "open" \/ process = "returned" ~>
    process = "returned" /\ request.pc = "done" /\ response.pc = "done" /\ workers = {}

(* What the server answers reaches the client, unless the link ends first. *)
RepliesArrive ==
  \A q \in Queries : q \in server.replies ~>
    answers[q] # <<>> \/ process = "returned" \/ request.pc \in {"close", "done"}
================================================================================
