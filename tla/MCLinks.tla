------------------------------- MODULE MCLinks --------------------------------
(***************************************************************************)
(* Links between goroutines: a pipe that blocks its writers (the extended  *)
(* module), one that discards, the links of the UDP dispatcher, proxied    *)
(* connections from peer to peer, the framing of their bytes, the switch of*)
(* XTLS Vision from padded to plain bytes, the clients, sessions and upload*)
(* queues of XHTTP, parallel tasks, and the channel of the statistics.     *)
(*                                                                         *)
(* The variable part says which of them a behaviour is about; nothing      *)
(* happens to the others.                                                  *)
(***************************************************************************)
EXTENDS PipeProofs, TLC

VARIABLES
  part,   \* what a behaviour is about
  \* Pipe
  pipeData, pipeState, pipeReadSignal, pipeWriteSignal, pipeErrChan, pipeRpc, pipeWpc,
  pipeMb, pipeWrites, pipeRres, pipeWres, pipeAccepted, pipeTaken,
  \* UdpDispatcher
  made, conn, shut, ended, removed, fired, udpDispatcherCanceled, handler, has,
  udpDispatcherFailed, cache, packets, done, eof,
  \* Relay
  in, out, detached, relayConn, reached, link, task, proc, cancelled,
  \* Framing
  calls, last, todo, batch, shake, wpos, rpos, wire, rd, sent, got, framingEnded,
  \* Vision
  script, ts, wr, visionWire, visionGot,
  \* UploadQueue
  pushed, over, heap, rest, nextSeq, closed, nomore, reader, mutex, post,
  uploadQueueRd, uploadQueueTaken, closer, uploadQueueShut, uploadQueueOut,
  \* XhttpSessions
  xhttpSessionsEntry, xhttpSessionsSess, xhttpSessionsReq,
  \* XhttpDial
  clients, pool, dial, posts,
  \* StatsChannel
  channel, subscribers, current, signalled, runner, queue, statsChannelShut,
  publishers, senders, client, statsChannelGot, statsChannelSent, panicked

\* Writers differ in nothing but their names.
WriterSymmetry == Permutations(Writers)

\* The requests of a session.
Kinds == <<"get", "post", "stream">>

sessionsVars == <<entry, sess, req>>
runVars == <<begun, returned, errs, gone, tokens, failed, canceled, turns, outcome>>
discardingVars == <<pipeData, pipeState, pipeReadSignal, pipeWriteSignal, pipeErrChan,
                    pipeRpc, pipeWpc, pipeMb, pipeWrites, pipeRres, pipeWres,
                    pipeAccepted, pipeTaken>>
udpDispatcherVars == <<made, conn, shut, ended, removed, fired, udpDispatcherCanceled,
                       handler, has, udpDispatcherFailed, cache, packets, done, eof>>
relayVars == <<in, out, detached, relayConn, reached, link, task, proc, cancelled>>
framingVars == <<calls, last, todo, batch, shake, wpos, rpos, wire, rd, sent, got,
                 framingEnded>>
visionVars == <<script, ts, wr, visionWire, visionGot>>
uploadQueueVars == <<pushed, over, heap, rest, nextSeq, closed, nomore, reader, mutex,
                     post, uploadQueueRd, uploadQueueTaken, closer, uploadQueueShut,
                     uploadQueueOut>>
xhttpSessionsVars == <<xhttpSessionsEntry, xhttpSessionsSess, xhttpSessionsReq>>
xhttpDialVars == <<clients, pool, dial, posts>>
statsChannelVars == <<channel, subscribers, current, signalled, runner, queue,
                      statsChannelShut, publishers, senders, client, statsChannelGot,
                      statsChannelSent, panicked>>

\* A pipe with discardOverflow.
Discarding == INSTANCE Pipe WITH
  DiscardOverflow <- TRUE, MaxBuffers <- 1, data <- pipeData, state <- pipeState,
  readSignal <- pipeReadSignal, writeSignal <- pipeWriteSignal, errChan <- pipeErrChan,
  rpc <- pipeRpc, wpc <- pipeWpc, mb <- pipeMb, writes <- pipeWrites, rres <- pipeRres,
  wres <- pipeWres, accepted <- pipeAccepted, taken <- pipeTaken

\* The UDP dispatcher with two writers.
Rays == INSTANCE UdpDispatcher WITH
  Writers <- {1, 2}, MaxRays <- 2, Capacity <- 1, MaxPackets <- 1,
  canceled <- udpDispatcherCanceled, failed <- udpDispatcherFailed

\* Requests through HTTP and Trojan, VLESS and VMess.
Request == INSTANCE Relay WITH
  Pairs <- {<<"http", "trojan">>, <<"vless", "vmess">>}, Detached <- {FALSE},
  Chunks <- [client |-> 2, server |-> 0], Limit <- 0, Idle <- FALSE, conn <- relayConn

\* A response through HTTP and VMess, with timers.
Response == INSTANCE Relay WITH
  Pairs <- {<<"vmess", "http">>}, Detached <- {TRUE},
  Chunks <- [client |-> 0, server |-> 2], Limit <- 0, Idle <- TRUE, conn <- relayConn

\* Requests through the other proxies.
Others == INSTANCE Relay WITH
  Pairs <- {<<"socks", "freedom">>, <<"shadowsocks", "loopback">>, <<"dokodemo", "shadowsocks">>, <<"trojan", "socks">>, <<"socks", "vless">>},
  Detached <- {FALSE}, Chunks <- [client |-> 1, server |-> 0], Limit <- 0,
  Idle <- FALSE, conn <- relayConn

\* A stream of bytes, masked and padded.
Streamed == INSTANCE Framing WITH
  BufSize <- 6, SliceSize <- 2, Overhead <- 1, SizeBytes <- 1, MaxPadding <- 2,
  ReadSize <- 2, MaxCalls <- 2, Kind <- "stream", Masked <- TRUE, Lengths <- {1, 3},
  ended <- framingEnded

\* Packets, masked and padded.
Packets == INSTANCE Framing WITH
  BufSize <- 6, SliceSize <- 2, Overhead <- 1, SizeBytes <- 1, MaxPadding <- 2,
  ReadSize <- 2, MaxCalls <- 2, Kind <- "packet", Masked <- TRUE, Lengths <- {0, 1, 2},
  ended <- framingEnded

\* Packets that may be too large.
Unmasked == INSTANCE Framing WITH
  BufSize <- 6, SliceSize <- 2, Overhead <- 1, SizeBytes <- 1, MaxPadding <- 2,
  ReadSize <- 2, MaxCalls <- 2, Kind <- "packet", Masked <- FALSE, Lengths <- {1, 5},
  ended <- framingEnded

\* Chunks without authentication.
Chunked == INSTANCE Framing WITH
  BufSize <- 6, SliceSize <- 2, Overhead <- 1, SizeBytes <- 1, MaxPadding <- 2,
  ReadSize <- 2, MaxCalls <- 2, Kind <- "chunk", Masked <- FALSE, Lengths <- {1, 3},
  ended <- framingEnded

\* A TLS connection in XTLS Vision.
Vision == INSTANCE Vision WITH
  Talks <- {"tls13", "split", "old", "tls12"}, ToFilter <- 8, MaxBuffers <- 2,
  Cuts <- {}, wire <- visionWire, got <- visionGot

\* A connection that is not TLS.
Plain == INSTANCE Vision WITH
  Talks <- {"plain"}, ToFilter <- 3, MaxBuffers <- 2, Cuts <- {}, wire <- visionWire,
  got <- visionGot

\* Packets of one session, one of them repeated.
Upload == INSTANCE UploadQueue WITH
  Posts <- 1..4, Streams <- {}, SeqOf <- [p \in 1..4 |-> IF p = 4 THEN 1 ELSE p - 1],
  Size <- 1, MaxPackets <- 1, MayClose <- TRUE, rd <- uploadQueueRd,
  taken <- uploadQueueTaken, shut <- uploadQueueShut, out <- uploadQueueOut

\* Three streams for one session.
Stream == INSTANCE UploadQueue WITH
  Posts <- 1..3, Streams <- 1..3, SeqOf <- [p \in 1..3 |-> p - 1], Size <- 1,
  MaxPackets <- 1, MayClose <- TRUE, rd <- uploadQueueRd, taken <- uploadQueueTaken,
  shut <- uploadQueueShut, out <- uploadQueueOut

\* Requests that the mode does not allow.
Forbid == INSTANCE XhttpSessions WITH
  Requests <- 1..3, Kind <- <<"get", "stream", "other">>, Forbidden <- {"post"},
  MayReap <- TRUE, entry <- xhttpSessionsEntry, sess <- xhttpSessionsSess,
  req <- xhttpSessionsReq

\* Packets of one connection.
Sending == INSTANCE XhttpDial WITH
  Separate <- FALSE, MaxConcurrency <- 1, MaxConnections <- 0, CMaxReuseTimes <- 0,
  HMaxRequestTimes <- 2, MayExpire <- FALSE, MayFail <- FALSE, Chunks <- 4,
  MaxClients <- 5, Dials <- {1}, Modes <- {"packet-up"}

\* Connections that share clients.
Pools == INSTANCE XhttpDial WITH
  Separate <- FALSE, MaxConcurrency <- 1, MaxConnections <- 0, CMaxReuseTimes <- 2,
  HMaxRequestTimes <- 0, MayExpire <- FALSE, MayFail <- TRUE, Chunks <- 1,
  MaxClients <- 4, Dials <- {1, 2}, Modes <- {"stream-one", "packet-up"}

\* Streams, up and down apart.
Separated == INSTANCE XhttpDial WITH
  Separate <- TRUE, MaxConcurrency <- 0, MaxConnections <- 1, CMaxReuseTimes <- 2,
  HMaxRequestTimes <- 1, MayExpire <- TRUE, MayFail <- TRUE, Chunks <- 1,
  MaxClients <- 4, Dials <- {1, 2}, Modes <- {"stream-up"}

\* Clients of a channel.
Stats == INSTANCE StatsChannel WITH
  Clients <- 1..2, Messages <- 1..2, BufferSize <- 1, SubsLimit <- 0,
  Blocking <- FALSE, MayLeave <- TRUE, MayCancel <- TRUE, shut <- statsChannelShut,
  got <- statsChannelGot, sent <- statsChannelSent

\* A channel that blocks.
Publishing == INSTANCE StatsChannel WITH
  Clients <- 1..3, Messages <- 1..2, BufferSize <- 1, SubsLimit <- 2, Blocking <- TRUE,
  MayLeave <- FALSE, MayCancel <- FALSE, shut <- statsChannelShut,
  got <- statsChannelGot, sent <- statsChannelSent

ASSUME PartsAssumption ==
  /\ Sessions!SessionsAssumption
  /\ Request!RelayAssumption
  /\ Response!RelayAssumption
  /\ Others!RelayAssumption
  /\ Streamed!FramingAssumption
  /\ Packets!FramingAssumption
  /\ Unmasked!FramingAssumption
  /\ Chunked!FramingAssumption
  /\ Vision!VisionAssumption
  /\ Plain!VisionAssumption
  /\ Upload!QueueAssumption
  /\ Stream!QueueAssumption
  /\ Forbid!SessionsAssumption
  /\ Sending!DialAssumption
  /\ Pools!DialAssumption
  /\ Separated!DialAssumption
  /\ Stats!StatsAssumption
  /\ Publishing!StatsAssumption

Unused == "unused"   \* what the variables of the other parts are

PartsInit ==
  /\ part \in {"blocking", "discarding", "rays", "request", "response", "others", "masked", "packets", "unmasked", "chunks", "vision", "plain", "upload", "streaming", "sessions", "tasks", "forbidden", "sending", "pool", "separate", "stats", "publishing"}
  /\ Init
  /\ Sessions!Init
  /\ Run!Init
  /\ \/ part = "discarding" /\ Discarding!Init
     \/ part # "discarding" /\ pipeData = Unused /\ pipeState = Unused
        /\ pipeReadSignal = Unused /\ pipeWriteSignal = Unused /\ pipeErrChan = Unused
        /\ pipeRpc = Unused /\ pipeWpc = Unused /\ pipeMb = Unused
        /\ pipeWrites = Unused /\ pipeRres = Unused /\ pipeWres = Unused
        /\ pipeAccepted = Unused /\ pipeTaken = Unused
  /\ \/ part = "rays" /\ Rays!Init
     \/ part # "rays" /\ made = Unused /\ conn = Unused /\ shut = Unused
        /\ ended = Unused /\ removed = Unused /\ fired = Unused
        /\ udpDispatcherCanceled = Unused /\ handler = Unused /\ has = Unused
        /\ udpDispatcherFailed = Unused /\ cache = Unused /\ packets = Unused
        /\ done = Unused /\ eof = Unused
  /\ \/ part = "request" /\ Request!Init
     \/ part = "response" /\ Response!Init
     \/ part = "others" /\ Others!Init
     \/ part \notin {"request", "response", "others"} /\ in = Unused /\ out = Unused
        /\ detached = Unused /\ relayConn = Unused /\ reached = Unused /\ link = Unused
        /\ task = Unused /\ proc = Unused /\ cancelled = Unused
  /\ \/ part = "masked" /\ Streamed!Init
     \/ part = "packets" /\ Packets!Init
     \/ part = "unmasked" /\ Unmasked!Init
     \/ part = "chunks" /\ Chunked!Init
     \/ part \notin {"masked", "packets", "unmasked", "chunks"} /\ calls = Unused
        /\ last = Unused /\ todo = Unused /\ batch = Unused /\ shake = Unused
        /\ wpos = Unused /\ rpos = Unused /\ wire = Unused /\ rd = Unused
        /\ sent = Unused /\ got = Unused /\ framingEnded = Unused
  /\ \/ part = "vision" /\ Vision!Init
     \/ part = "plain" /\ Plain!Init
     \/ part \notin {"vision", "plain"} /\ script = Unused /\ ts = Unused /\ wr = Unused
        /\ visionWire = Unused /\ visionGot = Unused
  /\ \/ part = "upload" /\ Upload!Init
     \/ part = "streaming" /\ Stream!Init
     \/ part \notin {"upload", "streaming"} /\ pushed = Unused /\ over = Unused
        /\ heap = Unused /\ rest = Unused /\ nextSeq = Unused /\ closed = Unused
        /\ nomore = Unused /\ reader = Unused /\ mutex = Unused /\ post = Unused
        /\ uploadQueueRd = Unused /\ uploadQueueTaken = Unused /\ closer = Unused
        /\ uploadQueueShut = Unused /\ uploadQueueOut = Unused
  /\ \/ part = "forbidden" /\ Forbid!Init
     \/ part # "forbidden" /\ xhttpSessionsEntry = Unused /\ xhttpSessionsSess = Unused
        /\ xhttpSessionsReq = Unused
  /\ \/ part = "sending" /\ Sending!Init
     \/ part = "pool" /\ Pools!Init
     \/ part = "separate" /\ Separated!Init
     \/ part \notin {"sending", "pool", "separate"} /\ clients = Unused /\ pool = Unused
        /\ dial = Unused /\ posts = Unused
  /\ \/ part = "stats" /\ Stats!Init
     \/ part = "publishing" /\ Publishing!Init
     \/ part \notin {"stats", "publishing"} /\ channel = Unused /\ subscribers = Unused
        /\ current = Unused /\ signalled = Unused /\ runner = Unused /\ queue = Unused
        /\ statsChannelShut = Unused /\ publishers = Unused /\ senders = Unused
        /\ client = Unused /\ statsChannelGot = Unused /\ statsChannelSent = Unused
        /\ panicked = Unused

PartsNext ==
  \/ part = "blocking" /\ Next
     /\ UNCHANGED <<part, discardingVars, udpDispatcherVars, relayVars, framingVars, visionVars, uploadQueueVars, sessionsVars, runVars, xhttpSessionsVars, xhttpDialVars, statsChannelVars>>
  \/ part = "discarding" /\ Discarding!Next
     /\ UNCHANGED <<part, pipeVars, udpDispatcherVars, relayVars, framingVars, visionVars, uploadQueueVars, sessionsVars, runVars, xhttpSessionsVars, xhttpDialVars, statsChannelVars>>
  \/ part = "rays" /\ Rays!Next
     /\ UNCHANGED <<part, pipeVars, discardingVars, relayVars, framingVars, visionVars, uploadQueueVars, sessionsVars, runVars, xhttpSessionsVars, xhttpDialVars, statsChannelVars>>
  \/ part = "request" /\ Request!Next
     /\ UNCHANGED <<part, pipeVars, discardingVars, udpDispatcherVars, framingVars, visionVars, uploadQueueVars, sessionsVars, runVars, xhttpSessionsVars, xhttpDialVars, statsChannelVars>>
  \/ part = "response" /\ Response!Next
     /\ UNCHANGED <<part, pipeVars, discardingVars, udpDispatcherVars, framingVars, visionVars, uploadQueueVars, sessionsVars, runVars, xhttpSessionsVars, xhttpDialVars, statsChannelVars>>
  \/ part = "others" /\ Others!Next
     /\ UNCHANGED <<part, pipeVars, discardingVars, udpDispatcherVars, framingVars, visionVars, uploadQueueVars, sessionsVars, runVars, xhttpSessionsVars, xhttpDialVars, statsChannelVars>>
  \/ part = "masked" /\ Streamed!Next
     /\ UNCHANGED <<part, pipeVars, discardingVars, udpDispatcherVars, relayVars, visionVars, uploadQueueVars, sessionsVars, runVars, xhttpSessionsVars, xhttpDialVars, statsChannelVars>>
  \/ part = "packets" /\ Packets!Next
     /\ UNCHANGED <<part, pipeVars, discardingVars, udpDispatcherVars, relayVars, visionVars, uploadQueueVars, sessionsVars, runVars, xhttpSessionsVars, xhttpDialVars, statsChannelVars>>
  \/ part = "unmasked" /\ Unmasked!Next
     /\ UNCHANGED <<part, pipeVars, discardingVars, udpDispatcherVars, relayVars, visionVars, uploadQueueVars, sessionsVars, runVars, xhttpSessionsVars, xhttpDialVars, statsChannelVars>>
  \/ part = "chunks" /\ Chunked!Next
     /\ UNCHANGED <<part, pipeVars, discardingVars, udpDispatcherVars, relayVars, visionVars, uploadQueueVars, sessionsVars, runVars, xhttpSessionsVars, xhttpDialVars, statsChannelVars>>
  \/ part = "vision" /\ Vision!Next
     /\ UNCHANGED <<part, pipeVars, discardingVars, udpDispatcherVars, relayVars, framingVars, uploadQueueVars, sessionsVars, runVars, xhttpSessionsVars, xhttpDialVars, statsChannelVars>>
  \/ part = "plain" /\ Plain!Next
     /\ UNCHANGED <<part, pipeVars, discardingVars, udpDispatcherVars, relayVars, framingVars, uploadQueueVars, sessionsVars, runVars, xhttpSessionsVars, xhttpDialVars, statsChannelVars>>
  \/ part = "upload" /\ Upload!Next
     /\ UNCHANGED <<part, pipeVars, discardingVars, udpDispatcherVars, relayVars, framingVars, visionVars, sessionsVars, runVars, xhttpSessionsVars, xhttpDialVars, statsChannelVars>>
  \/ part = "streaming" /\ Stream!Next
     /\ UNCHANGED <<part, pipeVars, discardingVars, udpDispatcherVars, relayVars, framingVars, visionVars, sessionsVars, runVars, xhttpSessionsVars, xhttpDialVars, statsChannelVars>>
  \/ part = "sessions" /\ Sessions!Next
     /\ UNCHANGED <<part, pipeVars, discardingVars, udpDispatcherVars, relayVars, framingVars, visionVars, uploadQueueVars, runVars, xhttpSessionsVars, xhttpDialVars, statsChannelVars>>
  \/ part = "tasks" /\ Run!Next
     /\ UNCHANGED <<part, pipeVars, discardingVars, udpDispatcherVars, relayVars, framingVars, visionVars, uploadQueueVars, sessionsVars, xhttpSessionsVars, xhttpDialVars, statsChannelVars>>
  \/ part = "forbidden" /\ Forbid!Next
     /\ UNCHANGED <<part, pipeVars, discardingVars, udpDispatcherVars, relayVars, framingVars, visionVars, uploadQueueVars, sessionsVars, runVars, xhttpDialVars, statsChannelVars>>
  \/ part = "sending" /\ Sending!Next
     /\ UNCHANGED <<part, pipeVars, discardingVars, udpDispatcherVars, relayVars, framingVars, visionVars, uploadQueueVars, sessionsVars, runVars, xhttpSessionsVars, statsChannelVars>>
  \/ part = "pool" /\ Pools!Next
     /\ UNCHANGED <<part, pipeVars, discardingVars, udpDispatcherVars, relayVars, framingVars, visionVars, uploadQueueVars, sessionsVars, runVars, xhttpSessionsVars, statsChannelVars>>
  \/ part = "separate" /\ Separated!Next
     /\ UNCHANGED <<part, pipeVars, discardingVars, udpDispatcherVars, relayVars, framingVars, visionVars, uploadQueueVars, sessionsVars, runVars, xhttpSessionsVars, statsChannelVars>>
  \/ part = "stats" /\ Stats!Next
     /\ UNCHANGED <<part, pipeVars, discardingVars, udpDispatcherVars, relayVars, framingVars, visionVars, uploadQueueVars, sessionsVars, runVars, xhttpSessionsVars, xhttpDialVars>>
  \/ part = "publishing" /\ Publishing!Next
     /\ UNCHANGED <<part, pipeVars, discardingVars, udpDispatcherVars, relayVars, framingVars, visionVars, uploadQueueVars, sessionsVars, runVars, xhttpSessionsVars, xhttpDialVars>>

PartsSpec == PartsInit /\ [][PartsNext]_<<part, pipeVars, discardingVars, udpDispatcherVars, relayVars, framingVars, visionVars, uploadQueueVars, sessionsVars, runVars, xhttpSessionsVars, xhttpDialVars, statsChannelVars>>

-----------------------------------------------------------------------------
(* A proxied connection: header, payload and end reach the server in this  *)
(* order, whatever times out or is interrupted; the outbound takes a       *)
(* request for finished only when the client has ended its stream and all  *)
(* of it was written; and a response the inbound takes for finished is all *)
(* the server sent, unless the outbound was cancelled or its header never  *)
(* came.                                                                   *)
StreamsAreWhole ==
  /\ part = "request" => Request!RequestInOrder /\ Request!RequestIsWhole /\ Request!ResponseIsWhole
  /\ part = "response" => Response!RequestIsWhole /\ Response!ResponseIsWhole
  /\ part = "others" => Others!RequestInOrder /\ Others!RequestIsWhole

(* What a reader of framed bytes returns is what the writer was given,     *)
(* byte for byte in a stream and packet for packet otherwise, however it   *)
(* arrives and whatever the paddings: the generators at both ends are      *)
(* drawn from in step. A stream never fails for want of room in a buffer,  *)
(* and the reader ends only at the end and after everything.               *)
FramesInStep ==
  /\ part = "masked" => Streamed!FramesInStep
  /\ part = "packets" => Packets!FramesInStep
  /\ part = "unmasked" => Unmasked!FramesInStep
  /\ part = "chunks" => Chunked!FramesInStep

(* XTLS Vision: however the packets of a conversation are grouped, padded  *)
(* and fragmented, and whenever each end makes up its mind, both           *)
(* applications get exactly what was sent, in order; no padding is taken   *)
(* for content, and neither end leaves TLS at another place than the       *)
(* other. A conversation in TLS 1.3 that goes on ends on the bare          *)
(* connection, in both directions.                                         *)
VisionIntact ==
  /\ part = "vision" => Vision!BothIntact /\ Vision!LeavesTls
  /\ part = "plain" => Plain!BothIntact /\ Plain!LeavesTls

(* The upload queue: what is read is the payloads in the order of their    *)
(* sequence numbers, from a heap that stays within its limit; of several   *)
(* streams one at most is read, and every other one that was taken from    *)
(* the channel is closed. The channel of the statistics: no subscriber     *)
(* gets a message twice, and from a channel that blocks every one gets     *)
(* them in order. A pipe that discards what exceeds its limit drops whole  *)
(* MultiBuffers, without an error. With two writers, too, no link of the   *)
(* UDP dispatcher is left open or goes for the sake of another. Requests   *)
(* that the mode of an XHTTP server forbids leave the session of the       *)
(* others its owner.                                                       *)
QueuesKept ==
  /\ part = "upload" => Upload!InOrder /\ Upload!HeapBounded
  /\ part = "discarding" => Discarding!WriteOutcome
  /\ part = "rays" => Rays!RaysAccounted
  /\ part = "streaming" => Stream!OneStream /\ Stream!StreamShut
  /\ part = "stats" => Stats!AtMostOnce
  /\ part = "publishing" => Publishing!InOrder
  /\ part = "forbidden" => Forbid!SessionsOwned

(* The clients of XHTTP: one is taken no more than cMaxReuseTimes times, a *)
(* pool holds no more than maxConnections, and no more than                *)
(* hMaxRequestTimes requests go through one, but for those with which      *)
(* connections begin. OpenUsage never counts a connection that is closed   *)
(* for a client that may still be taken, and is exact where no connection  *)
(* changes its client.                                                     *)
XmuxLimits ==
  /\ part = "separate" => Separated!LimitsKept /\ Separated!UsageIsRight
  /\ part = "sending" => Sending!LimitsKept /\ Sending!UsageIsRight
  /\ part = "pool" => Pools!LimitsKept /\ Pools!UsageIsRight
=============================================================================
