----------------------------- MODULE Dispatcher -----------------------------
(***************************************************************************)
(* DefaultDispatcher (app/dispatcher): one connection on its way from an   *)
(* inbound to an outbound handler.  Dispatch makes the link; a goroutine   *)
(* looks at the first payload through a cachedReader, so that the handler  *)
(* still gets it, may change the destination, and hands the link to the    *)
(* handler the router has picked.  Meanwhile the inbound writes, closes or *)
(* interrupts the link and handlers come and go.                           *)
(***************************************************************************)
EXTENDS Integers, Sequences, SequencesExt, FiniteSets

CONSTANTS
  Requests,     \* the connections: records as in Init
  Sniffers,     \* the content sniffers of its network, in order
  Tags,         \* tags of outbound handlers
  Chunks,       \* bound: chunks the inbound writes
  Hollow        \* those of them that are empty buffers

\* What the constants must satisfy.
DispatcherAssumption == Chunks \in Nat /\ Hollow \subseteq 1 .. Chunks /\ Sniffers \in Seq(STRING)

None == "none"
NoResult == [protocol |-> "", domain |-> ""]

VARIABLES
  req,          \* the connection: address, sniffing request, forced tag, what the router says
  handlers,     \* the tags of the outbound manager, Head the default's
  up,           \* the uplink pipe: data and state
  down,         \* the state of the downlink pipe
  written,      \* chunks the inbound has written
  cancelled,    \* whether the context is done
  cache,        \* of the cachedReader
  pending,      \* the sniffers that have not said no
  attempts,     \* totalAttempt
  pc,
  meta, content,    \* results of sniffing
  target, routeTarget,
  handler,
  got           \* what the handler has read

vars == <<req, handlers, up, down, written, cancelled, cache, pending, attempts, pc, meta, content,
          target, routeTarget, handler, got>>

linkVars == <<up, down, written, cancelled>>

\* Payload without the empty buffers.
Data(mb) == SelectSeq(mb, LAMBDA c : c \notin Hollow)

-----------------------------------------------------------------------------
(* Init is Dispatch: the address is both targets of the session.           *)
Init ==
  /\ req \in Requests
  /\ handlers \in {SetToSeq(s) : s \in SUBSET Tags}
  /\ up = [data |-> <<>>, state |-> "open"] /\ down = "open"
  /\ written = 0 /\ cancelled = FALSE
  /\ cache = <<>> /\ pending = Sniffers /\ attempts = 0
  /\ pc = IF req.enabled THEN "metadata" ELSE "route"
  /\ meta = NoResult /\ content = NoResult
  /\ target = req.address /\ routeTarget = None
  /\ handler = None /\ got = <<>>

(* The inbound, the context and the outbound manager. *)

InboundWrites ==
  /\ up.state = "open" /\ written < Chunks
  /\ up' = [up EXCEPT !.data = Append(@, written + 1)]
  /\ written' = written + 1
  /\ UNCHANGED <<req, handlers, down, cancelled, cache, pending, attempts, pc, meta, content, target, routeTarget, handler, got>>

InboundEnds ==
  /\ up.state = "open"
  /\ \/ up' = [up EXCEPT !.state = "closed"] /\ UNCHANGED <<down, cancelled>>
     \/ /\ up' = [data |-> <<>>, state |-> "errord"]
        /\ down' = IF down = "open" THEN "errord" ELSE down
        /\ cancelled' = TRUE
  /\ UNCHANGED <<req, handlers, written, cache, pending, attempts, pc, meta, content, target, routeTarget, handler, got>>

HandlerGoes ==
  /\ handlers # <<>>
  /\ \E i \in 1 .. Len(handlers) : handlers' = RemoveAt(handlers, i)
  /\ UNCHANGED <<req, up, down, written, cancelled, cache, pending, attempts, pc, meta, content, target, routeTarget, handler, got>>

-----------------------------------------------------------------------------
(* The cachedReader. *)

\* What a read of the pipe may return; a timeout is another error.
ReadPipe ==
  CASE up.state = "errord" -> {[mb |-> <<>>, err |-> "closed"]}
    [] up.state # "errord" /\ up.data # <<>> -> {[mb |-> up.data, err |-> "nil"]}
    [] up.state = "closed" /\ up.data = <<>> -> {[mb |-> <<>>, err |-> "eof"]}
    [] OTHER -> {}


Merge(mb) == IF Data(mb) = <<>> THEN cache ELSE cache \o mb

ReadMultiBuffer ==
  IF Data(cache) # <<>> THEN {[mb |-> cache, err |-> "nil", from |-> "cache"]}
  ELSE {[mb |-> r.mb, err |-> r.err, from |-> "pipe"] : r \in ReadPipe}

\* Interrupt of the cachedReader drops the cache, then interrupts the pipe.
InterruptReader ==
  /\ cache' = <<>>
  /\ up' = IF up.state = "open" THEN [data |-> <<>>, state |-> "errord"] ELSE up

CloseWriter == down' = IF down = "open" THEN "closed" ELSE down

-----------------------------------------------------------------------------
(* Sniffing. *)

\* newFakeDNSSniffer, the only metadata sniffer: the domain behind the address.
SniffMetadata ==
  IF req.fake = "known" THEN [protocol |-> "fakedns", domain |-> "fakeDomain"] ELSE NoResult

Metadata ==
  /\ pc = "metadata"
  /\ meta' = SniffMetadata
  /\ pc' = IF req.metadataOnly THEN "result" ELSE "cache"
  /\ UNCHANGED <<req, handlers, linkVars, cache, pending, attempts, content, target, routeTarget, handler, got>>

\* Mutant: sniffing waits for the first payload as long as it takes.
SniffWaits ==
  /\ pc = "cache"
  /\ cancelled \/ (\E r \in ReadPipe : r.err # "nil")
  /\ pc' = "result"
  /\ UNCHANGED <<req, handlers, linkVars, cache, pending, attempts, meta, content, target, routeTarget, handler, got>>

\* The loop ends when the context is done, or when the pipe has an error or is too slow.
SniffEnds ==
  /\ pc = "cache"
  /\ cancelled \/ (\E r \in ReadPipe : r.err # "nil") \/ ReadPipe = {}
  /\ pc' = "result"
  /\ UNCHANGED <<req, handlers, linkVars, cache, pending, attempts, meta, content, target, routeTarget, handler, got>>

(* Sniffer.Sniff asks the sniffers in turn: the first that matches wins,   *)
(* one that needs more data is the only one left, those without a clue     *)
(* stay; verdict[s] is what sniffer s says of the payload.                 *)
Sniff(verdict) ==
  LET decides(i) == verdict[pending[i]] \in {"match", "more"}
      first == CHOOSE i \in 1 .. Len(pending) : decides(i) /\ \A j \in 1 .. i - 1 : ~decides(j)
      clueless == SelectSeq(pending, LAMBDA s : verdict[s] = "noclue") IN
  IF \E i \in 1 .. Len(pending) : decides(i)
  THEN [err |-> IF verdict[pending[first]] = "match" THEN "nil" ELSE "more",
        by |-> pending[first],
        pending |-> IF verdict[pending[first]] = "match" THEN pending ELSE <<pending[first]>>]
  ELSE [err |-> IF clueless = <<>> THEN "unknown" ELSE "noclue", by |-> None,
        pending |-> IF clueless = <<>> THEN pending ELSE clueless]

\* One turn of the loop: Cache, Sniff, and whether to go on; slow: the time is up.
CacheAndSniff ==
  /\ pc = "cache" /\ ~cancelled
  /\ \E r \in ReadPipe, slow \in BOOLEAN :
       /\ r.err = "nil"
       /\ up' = [up EXCEPT !.data = <<>>]
       /\ cache' = Merge(r.mb)
       /\ IF Data(Merge(r.mb)) = <<>>
          THEN /\ attempts' = attempts + 1
               /\ pc' = IF attempts + 1 >= 2 \/ slow THEN "result" ELSE "cache"
               /\ UNCHANGED <<pending, content>>
          ELSE \E verdict \in [ToSet(pending) -> {"match", "more", "noclue", "no"}] :
                 LET s == Sniff(verdict)
                     n == IF s.err = "noclue" THEN attempts + 1 ELSE attempts IN
                 /\ attempts' = n /\ pending' = s.pending
                 /\ content' = IF s.err = "nil"
                               THEN [protocol |-> s.by, domain |-> IF s.by = "bittorrent" THEN "" ELSE "contentDomain"]
                               ELSE NoResult
                 /\ pc' = IF s.err \in {"nil", "unknown"} \/ n >= 2 \/ slow THEN "result" ELSE "cache"
  /\ UNCHANGED <<req, handlers, down, written, cancelled, meta, target, routeTarget, handler, got>>

\* The protocol whose domain it is, and the domain: of a composite, the metadata's.
Result == IF meta # NoResult THEN meta ELSE content

\* strings.HasPrefix in one direction or the other.
Alike(a, b) == a = b \/ {a, b} \in {{"http1", "http"}, {"fakedns", "fakedns+others"}}

shouldOverride ==
  /\ Result.domain # "" /\ Result.domain \notin req.exclude
  /\ \E p \in req.override :
       \/ Alike(Result.protocol, p)
       \/ Result.protocol # "bittorrent" /\ p = "fakedns" /\ req.fake # "no"

Override ==
  /\ pc = "result"
  /\ IF shouldOverride
     THEN IF req.routeOnly /\ Result.protocol # "fakedns" /\ req.fake = "no"
          THEN routeTarget' = Result.domain /\ UNCHANGED target
          ELSE target' = Result.domain /\ UNCHANGED routeTarget
     ELSE UNCHANGED <<target, routeTarget>>
  /\ pc' = "route"
  /\ UNCHANGED <<req, handlers, linkVars, cache, pending, attempts, meta, content, handler, got>>

-----------------------------------------------------------------------------
(* routedDispatch: the forced tag or the router's, else the default.       *)

Refuse ==
  /\ CloseWriter /\ InterruptReader
  /\ pc' = "done"
  /\ UNCHANGED handler

Give(h) == handler' = h /\ pc' = "handler" /\ UNCHANGED <<up, down, cache>>

GiveDefault ==
  /\ pc = "default"
  /\ IF handlers = <<>> THEN Refuse ELSE Give(Head(handlers))
  /\ UNCHANGED <<req, handlers, written, cancelled, pending, attempts, meta, content, target, routeTarget, got>>

routedDispatch ==
  /\ pc = "route"
  /\ CASE req.forced # None -> IF req.forced \in ToSet(handlers) THEN Give(req.forced) ELSE Refuse
       [] req.forced = None /\ req.route \in ToSet(handlers) -> Give(req.route)
       [] OTHER -> pc' = "default" /\ UNCHANGED <<handler, up, down, cache>>
  /\ UNCHANGED <<req, handlers, written, cancelled, pending, attempts, meta, content, target, routeTarget, got>>

\* handler.Dispatch reads to the end of the stream, or gives up before it.
HandlerReads ==
  /\ pc = "handler"
  /\ \E r \in ReadMultiBuffer :
       /\ r.err = "nil"
       /\ got' = got \o r.mb
       /\ IF r.from = "cache" THEN cache' = <<>> /\ UNCHANGED up
          ELSE up' = [up EXCEPT !.data = <<>>] /\ UNCHANGED cache
  /\ UNCHANGED <<req, handlers, down, written, cancelled, pending, attempts, pc, meta, content, target, routeTarget, handler>>

HandlerEnds ==
  /\ pc = "handler"
  /\ CloseWriter /\ InterruptReader
  /\ pc' = "done"
  /\ UNCHANGED <<req, handlers, written, cancelled, pending, attempts, meta, content, target, routeTarget, handler, got>>

Next ==
  \/ InboundWrites \/ InboundEnds \/ HandlerGoes
  \/ Metadata \/ CacheAndSniff \/ SniffEnds \/ Override
  \/ routedDispatch \/ GiveDefault \/ HandlerReads \/ HandlerEnds

Spec == Init /\ [][Next]_vars

\* The goroutine of Dispatch runs, and time passes.
Fairness ==
  /\ WF_vars(Metadata) /\ WF_vars(CacheAndSniff \/ SniffEnds) /\ WF_vars(Override)
  /\ WF_vars(routedDispatch) /\ WF_vars(GiveDefault)

FairSpec == Spec /\ Fairness

-----------------------------------------------------------------------------
(* Sniffing costs nothing: as long as nobody has interrupted the link, what*)
(* the handler has read, what the cachedReader holds and what is in the    *)
(* pipe are together what the inbound wrote, in order, however many turns  *)
(* the sniffer took and whatever it concluded.                             *)
SniffingLosesNothing ==
  up.state # "errord" /\ pc # "done" =>
    Data(got \o cache \o up.data) = Data([i \in 1 .. written |-> i])

(* The targets: an address that belongs to the pool of fake addresses is   *)
(* replaced by the domain it stands for if fakedns (or fakedns+others) is  *)
(* to be overridden and the domain is not excluded, whatever the content   *)
(* looks like; and with routeOnly a real address stays what it was.        *)
TargetIsRight ==
  pc \in {"route", "default", "handler"} =>
    /\ (/\ req.enabled /\ req.fake = "known" /\ "fakeDomain" \notin req.exclude
        /\ req.override \cap {"fakedns", "fakedns+others"} # {}) => target = "fakeDomain"
    /\ req.routeOnly /\ req.fake = "no" => target = req.address

(* Nobody is left with half a link: when the goroutine of Dispatch has     *)
(* ended, the inbound's reader and its writer both return, whether a       *)
(* handler had the link, the forced tag was missing or there was no        *)
(* default handler any more.                                               *)
LinkIsReleased ==
  pc = "done" => down # "open" /\ up.state # "open" /\ Data(cache) = <<>>

(* Every connection is handed to a handler or refused, whatever the inbound*)
(* sends and even if it sends nothing.                                     *)
IsDispatched == <>(pc \in {"handler", "done"})

=============================================================================
