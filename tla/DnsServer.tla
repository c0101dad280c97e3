------------------------------ MODULE DnsServer -------------------------------
(***************************************************************************)
(* A name server of the DNS app: its cache (app/dns/cache_controller.go,   *)
(* dnscommon.go), the subscriptions by which a query waits for the cache to*)
(* be filled (common/signal/pubsub), and how it asks: over UDP, with a     *)
(* table of pending requests (app/dns/nameserver_udp.go), or in a goroutine*)
(* and a stream for each question, over TCP, HTTPS or QUIC.                *)
(*                                                                         *)
(* The network may lose, repeat and delay packets.  An answer is about the *)
(* question the remote server was asked.  A record is valid for some time, *)
(* then expired, then cleaned up.                                          *)
(***************************************************************************)
EXTENDS Integers, FiniteSets

CONSTANTS
  Queries,        \* calls of QueryIP
  Domains, DomainOf,
  OptionOf,       \* OptionOf[q]: the families the query wants
  DisableCache,
  Transport,      \* "udp", "tcp", "doh" or "quic"
  OwnNames,       \* domains that are the name of the server itself
  IdSpace,        \* 2^16 identifiers
  MayExpire, MayLose,
  MaxRetries      \* a bound on truncated answers

Families == {4, 6}

\* What the constants must satisfy.
DnsAssumption ==
  /\ DomainOf \in [Queries -> Domains]
  /\ OptionOf \in [Queries -> (SUBSET Families) \ {{}}]
  /\ {DisableCache, MayExpire, MayLose} \subseteq BOOLEAN
  /\ Transport \in {"udp", "tcp", "doh", "quic"} /\ OwnNames \subseteq Domains
  /\ IdSpace \in Nat \ {0} /\ MaxRetries \in Nat

Ids == 0..(IdSpace - 1)
Questions == [dom : Domains, fam : Families, edns : BOOLEAN]

VARIABLES
  ips,        \* ips[d][f]: the record, a set of at most one of what was answered
  valid,      \* valid[d][f]: it has not expired
  requests,   \* pairs of identifier and question: the pending requests
  reqID,      \* the identifiers handed out
  net,        \* questions on their way, with their identifier
  handling,   \* answers HandleResponse has matched with a request
  retries,
  pc,         \* pc[q]
  todo,       \* todo[q]: the families that are still to be asked for
  sub,        \* sub[q][f]: something is in the subscriber's buffer
  streams,    \* streams[q][f]: where the goroutine is that asks in a stream of its own
  failed,     \* failed[q]: errors in noResponseErrCh
  quic        \* the connection of DNS over QUIC, and how many were replaced while active

udpVars == <<requests, reqID, net, handling, retries>>
streamVars == <<streams, failed, quic>>
vars == <<ips, valid, udpVars, pc, todo, sub, streamVars>>

TypeOK ==
  /\ \A d \in Domains, f \in Families : ips[d][f] \subseteq (Domains \X Families) /\ Cardinality(ips[d][f]) <= 1
  /\ valid \in [Domains -> [Families -> BOOLEAN]]
  /\ requests \subseteq Ids \X Questions
  /\ \A r, s \in requests : r[1] = s[1] => r = s
  /\ reqID \in Nat /\ retries \in 0..MaxRetries
  /\ net \subseteq Ids \X Questions
  /\ pc \in [Queries -> {"idle", "subscribed", "send", "wait4", "wait6", "find", "hit", "answered", "notfound", "timeout", "failed"}]
  /\ todo \in [Queries -> SUBSET Families]
  /\ sub \in [Queries -> [Families -> BOOLEAN]]
  /\ streams \in [Queries -> [Families -> {"none", "check", "open", "asked"}]]
  /\ failed \in [Queries -> 0..2]
  /\ quic \in [current : {"none", "active", "dead"}, replaced : 0 .. 2 * Cardinality(Queries)]

Init ==
  /\ ips = [d \in Domains |-> [f \in Families |-> {}]]
  /\ valid = [d \in Domains |-> [f \in Families |-> FALSE]]
  /\ requests = {} /\ reqID = 0 /\ net = {} /\ handling = {} /\ retries = 0
  /\ pc = [q \in Queries |-> "idle"]
  /\ todo = [q \in Queries |-> {}]
  /\ sub = [q \in Queries |-> [f \in Families |-> FALSE]]
  /\ streams = [q \in Queries |-> [f \in Families |-> "none"]]
  /\ failed = [q \in Queries |-> 0]
  /\ quic = [current |-> "none", replaced |-> 0]

-----------------------------------------------------------------------------
(* The cache.                                                              *)

\* findIPsForDomain with getIPs: a wanted family without a valid record is
\* errRecordNotFound; anything else is an answer.
Found(d, option) == \A f \in option : valid[d][f]

Expire(d, f) ==
  /\ MayExpire /\ valid[d][f]
  /\ valid' = [valid EXCEPT ![d][f] = FALSE]
  /\ UNCHANGED <<ips, requests, reqID, net, handling, retries, pc, todo, sub, streamVars>>

\* CacheCleanup.
CacheCleanup ==
  /\ \E d \in Domains, f \in Families : ips[d][f] # {} /\ ~valid[d][f]
  /\ ips' = [d \in Domains |-> [f \in Families |-> IF valid[d][f] THEN ips[d][f] ELSE {}]]
  /\ UNCHANGED <<valid, requests, reqID, net, handling, retries, pc, todo, sub, streamVars>>

\* Mutant: only the subscribers of the answered family are told.
PublishOwn(d, f, g) == g = f

\* What updateIP publishes when family f of d was answered: f, and, with a
\* cache, the other family if it has a valid record.
Published(d, f, g) == g = f \/ (~DisableCache /\ valid[d][g])

\* pub.Publish: to the subscribers that are not closed.
Publish(d, f) ==
  sub' = [q \in Queries |-> [g \in Families |->
            \/ sub[q][g]
            \/ /\ DomainOf[q] = d /\ g \in OptionOf[q] /\ Published(d, f, g)
               /\ \/ pc[q] \in {"subscribed", "send", "wait4"}
                  \/ pc[q] = "wait6" /\ g = 6]]

-----------------------------------------------------------------------------
(* QueryIP.                                                                *)

\* registerSubscribers.
RegisterSubscribers(q) ==
  /\ pc[q] = "idle"
  /\ pc' = [pc EXCEPT ![q] = "subscribed"]
  /\ UNCHANGED <<ips, valid, requests, reqID, net, handling, retries, todo, sub, streamVars>>

LookIntoCache(q) ==
  /\ pc[q] = "subscribed"
  /\ IF ~DisableCache /\ Found(DomainOf[q], OptionOf[q])
     THEN pc' = [pc EXCEPT ![q] = "hit"] /\ UNCHANGED todo
     ELSE pc' = [pc EXCEPT ![q] = "send"] /\ todo' = [todo EXCEPT ![q] = OptionOf[q]]
  /\ UNCHANGED <<ips, valid, requests, reqID, net, handling, retries, sub, streamVars>>

\* newReqID.
NewReqID == (reqID + 1) % IdSpace

\* addPendingRequest replaces a request with the same identifier.
AddPending(id, question) ==
  requests' = {r \in requests : r[1] # id} \cup {<<id, question>>}

\* Mutant: the identifier is not a new one.
AskSame(question) ==
  /\ AddPending(reqID % IdSpace, question)
  /\ UNCHANGED reqID
  /\ net' = net \cup {<<reqID % IdSpace, question>>}

Ask(question) ==
  /\ reqID' = reqID + 1
  /\ AddPending(NewReqID, question)
  /\ net' = net \cup {<<NewReqID, question>>}

\* One turn of the loop of sendQuery: A before AAAA.
SendQuery(q) ==
  /\ Transport = "udp"
  /\ pc[q] = "send" /\ todo[q] # {}
  /\ LET f == IF 4 \in todo[q] THEN 4 ELSE 6 IN
       /\ Ask([dom |-> DomainOf[q], fam |-> f, edns |-> FALSE])
       /\ todo' = [todo EXCEPT ![q] = @ \ {f}]
  /\ UNCHANGED <<ips, valid, handling, retries, pc, sub, streamVars>>

WaitStart(q) ==
  /\ pc[q] = "send" /\ todo[q] = {}
  /\ pc' = [pc EXCEPT ![q] = IF 4 \in OptionOf[q] THEN "wait4" ELSE "wait6"]
  /\ UNCHANGED <<ips, valid, requests, reqID, net, handling, retries, todo, sub, streamVars>>

\* sub4.Wait(), sub4.Close().
Wait4(q) ==
  /\ pc[q] = "wait4" /\ sub[q][4]
  /\ sub' = [sub EXCEPT ![q][4] = FALSE]
  /\ pc' = [pc EXCEPT ![q] = IF 6 \in OptionOf[q] THEN "wait6" ELSE "find"]
  /\ UNCHANGED <<ips, valid, requests, reqID, net, handling, retries, todo, streamVars>>

Wait6(q) ==
  /\ pc[q] = "wait6" /\ sub[q][6]
  /\ sub' = [sub EXCEPT ![q][6] = FALSE]
  /\ pc' = [pc EXCEPT ![q] = "find"]
  /\ UNCHANGED <<ips, valid, requests, reqID, net, handling, retries, todo, streamVars>>

FindAnswer(q) ==
  /\ pc[q] = "find"
  /\ pc' = [pc EXCEPT ![q] = IF Found(DomainOf[q], OptionOf[q]) THEN "answered" ELSE "notfound"]
  /\ UNCHANGED <<ips, valid, requests, reqID, net, handling, retries, todo, sub, streamVars>>

\* ctx.Done().
Timeout(q) ==
  /\ pc[q] \in {"wait4", "wait6"}
  /\ pc' = [pc EXCEPT ![q] = "timeout"]
  /\ UNCHANGED <<ips, valid, requests, reqID, net, handling, retries, todo, sub, streamVars>>

-----------------------------------------------------------------------------
(* Answers.                                                                *)

Lose(p) ==
  /\ MayLose /\ p \in net
  /\ net' = net \ {p}
  /\ UNCHANGED <<ips, valid, requests, reqID, handling, retries, pc, todo, sub, streamVars>>

\* HandleResponse up to the unlock: the pending request with the answer's
\* identifier, if there is one.  The network may repeat the answer.
MatchRequest(p, again, truncated) ==
  /\ p \in net
  /\ again => MayLose
  /\ net' = IF again THEN net ELSE net \ {p}
  /\ \E r \in requests : r[1] = p[1]
  /\ LET r == CHOOSE x \in requests : x[1] = p[1] IN
       /\ requests' = requests \ {r}
       /\ handling' = handling \cup {[req |-> r[2], about |-> <<p[2].dom, p[2].fam>>, truncated |-> truncated]}
  /\ UNCHANGED <<ips, valid, reqID, retries, pc, todo, sub, streamVars>>

\* "cannot find the pending request".
NoRequest(p) ==
  /\ p \in net
  /\ \A r \in requests : r[1] # p[1]
  /\ net' = net \ {p}
  /\ UNCHANGED <<ips, valid, requests, reqID, handling, retries, pc, todo, sub, streamVars>>

\* A truncated answer to a question without EDNS0 is asked for again.
Retried(h) == h.truncated /\ ~h.req.edns

Retry(h) ==
  /\ h \in handling /\ Retried(h)
  /\ retries < MaxRetries
  /\ retries' = retries + 1
  /\ handling' = handling \ {h}
  /\ Ask([h.req EXCEPT !.edns = TRUE])
  /\ UNCHANGED <<ips, valid, pc, todo, sub, streamVars>>

\* updateIP.
UpdateIP(h) ==
  /\ h \in handling /\ ~Retried(h)
  /\ handling' = handling \ {h}
  /\ ips' = [ips EXCEPT ![h.req.dom][h.req.fam] = {h.about}]
  /\ valid' = [valid EXCEPT ![h.req.dom][h.req.fam] = TRUE]
  /\ Publish(h.req.dom, h.req.fam)
  /\ UNCHANGED <<requests, reqID, net, retries, pc, todo, streamVars>>

\* RequestsCleanup, eight seconds after the request.
RequestsCleanup(r) ==
  /\ MayLose /\ r \in requests
  /\ requests' = requests \ {r}
  /\ UNCHANGED <<ips, valid, reqID, net, handling, retries, pc, todo, sub, streamVars>>

-----------------------------------------------------------------------------
(* TCP, HTTPS and QUIC.                                                    *)

\* What a goroutine does with an error: it goes to the channel of its query,
\* which has room for two.
ToldOf(q) == failed' = [failed EXCEPT ![q] = @ + 1]

\* sendQuery starts a goroutine for each question.
SendStreams(q) ==
  /\ Transport # "udp" /\ ~(Transport = "doh" /\ DomainOf[q] \in OwnNames)
  /\ pc[q] = "send" /\ todo[q] # {}
  /\ streams' = [streams EXCEPT ![q] = [f \in Families |->
                   IF f \notin todo[q] THEN "none" ELSE IF Transport = "quic" THEN "check" ELSE "asked"]]
  /\ todo' = [todo EXCEPT ![q] = {}]
  /\ UNCHANGED <<ips, valid, udpVars, pc, sub, failed, quic>>

\* "tries to resolve itself!": one error and no goroutine.
ResolvesItself(q) ==
  /\ Transport = "doh" /\ DomainOf[q] \in OwnNames
  /\ pc[q] = "send" /\ todo[q] # {}
  /\ todo' = [todo EXCEPT ![q] = {}]
  /\ ToldOf(q)
  /\ UNCHANGED <<ips, valid, udpVars, pc, sub, streams, quic>>

Become(q, f, at) == streams' = [streams EXCEPT ![q][f] = at]

\* getConnection under RLock: the connection is used if it is active.
CheckConnection(q, f) ==
  /\ streams[q][f] = "check"
  /\ Become(q, f, IF quic.current = "active" THEN "asked" ELSE "open")
  /\ UNCHANGED <<ips, valid, udpVars, pc, todo, sub, failed, quic>>

(* getConnection under Lock: the connection is not looked at again, so the *)
(* one that another goroutine has opened meanwhile is replaced, and stays  *)
(* open.  Both tries may fail.                                             *)
OpenConnection(q, f) ==
  /\ streams[q][f] = "open"
  /\ \/ /\ quic' = [current |-> "active",
                     replaced |-> quic.replaced + IF quic.current = "active" THEN 1 ELSE 0]
        /\ Become(q, f, "asked") /\ UNCHANGED failed
     \/ Become(q, f, "none") /\ ToldOf(q) /\ UNCHANGED quic
  /\ UNCHANGED <<ips, valid, udpVars, pc, todo, sub>>

QuicDies ==
  /\ quic.current = "active" /\ quic' = [quic EXCEPT !.current = "dead"]
  /\ UNCHANGED <<ips, valid, udpVars, pc, todo, sub, streams, failed>>

\* Dialling, writing, reading or parsing fails, or the deadline passes.
StreamFails(q, f) ==
  /\ streams[q][f] = "asked"
  /\ Become(q, f, "none") /\ ToldOf(q)
  /\ UNCHANGED <<ips, valid, udpVars, pc, todo, sub, quic>>

\* The response of the goroutine's own stream goes to updateIP.
StreamAnswers(q, f) ==
  /\ streams[q][f] = "asked"
  /\ Become(q, f, "none")
  /\ ips' = [ips EXCEPT ![DomainOf[q]][f] = {<<DomainOf[q], f>>}]
  /\ valid' = [valid EXCEPT ![DomainOf[q]][f] = TRUE]
  /\ Publish(DomainOf[q], f)
  /\ UNCHANGED <<udpVars, pc, todo, failed, quic>>

\* err := <-noResponseErrCh.
NoResponse(q) ==
  /\ pc[q] \in {"wait4", "wait6"} /\ failed[q] > 0
  /\ failed' = [failed EXCEPT ![q] = @ - 1]
  /\ pc' = [pc EXCEPT ![q] = "failed"]
  /\ UNCHANGED <<ips, valid, udpVars, todo, sub, streams, quic>>

StreamStep ==
  \E q \in Queries, f \in Families :
    CheckConnection(q, f) \/ OpenConnection(q, f) \/ StreamFails(q, f) \/ StreamAnswers(q, f)

-----------------------------------------------------------------------------
QueryStep(q) ==
  \/ RegisterSubscribers(q) \/ LookIntoCache(q) \/ SendQuery(q) \/ WaitStart(q)
  \/ Wait4(q) \/ Wait6(q) \/ FindAnswer(q) \/ SendStreams(q)
  \/ ResolvesItself(q) \/ NoResponse(q)
AnswerStep ==
  \/ \E p \in net, truncated \in BOOLEAN :
       /\ truncated => retries + Cardinality(handling) < MaxRetries
       /\ MatchRequest(p, FALSE, truncated)
  \/ \E p \in net : NoRequest(p)
  \/ \E h \in handling : Retry(h) \/ UpdateIP(h)

Next ==
  \/ \E q \in Queries : QueryStep(q) \/ Timeout(q)
  \/ AnswerStep \/ StreamStep \/ QuicDies
  \/ \E p \in net : Lose(p) \/ MatchRequest(p, TRUE, FALSE)
  \/ \E r \in requests : RequestsCleanup(r)
  \/ \E d \in Domains, f \in Families : Expire(d, f)
  \/ CacheCleanup

Spec == Init /\ [][Next]_vars

(* Goroutines run, and packets that are not lost arrive.                   *)
Fairness ==
  /\ \A q \in Queries : WF_vars(QueryStep(q))
  /\ WF_vars(AnswerStep) /\ WF_vars(StreamStep)

FairSpec == Spec /\ Fairness

-----------------------------------------------------------------------------

(* With a cache, no query waits for something it could find: when every    *)
(* family it wants has a valid record, it has been told.                   *)
NoLostWakeup ==
  ~DisableCache =>
    \A q \in Queries : \A f \in OptionOf[q] :
      pc[q] = (IF f = 4 THEN "wait4" ELSE "wait6") /\ Found(DomainOf[q], OptionOf[q]) => sub[q][f]

(* A query that was told finds what it was told about, unless it expired.  *)
ToldIsFound == MayExpire \/ \A q \in Queries : pc[q] # "notfound"

(* If nothing is lost, every query returns, even if an answer is truncated *)
(* and asked for again or a stream fails; no timeout need end it. *)
QueriesReturn ==
  \A q \in Queries : <>(pc[q] \in {"hit", "answered", "notfound", "timeout", "failed"})
=============================================================================
