---------------------------- MODULE MCServicesLive ----------------------------
(***************************************************************************)
(* What parallel tasks (the extended module), the wrapper, the name server,*)
(* mKCP, XHTTP and the shared services do in the end.                      *)
(*                                                                         *)
(* The variable part says which of them a behaviour is about; nothing      *)
(* happens to the others.                                                  *)
(***************************************************************************)
EXTENDS TaskRun

VARIABLES
  part,   \* what a behaviour is about
  \* XrayJni
  running, xrayInst, created, xrayJniStarted, pc, inst, feature,
  \* DnsServer
  ips, valid, requests, reqID, net, handling, retries, dnsServerPc, todo, sub, streams,
  failed, quic,
  \* DnsOutbound
  kind, sent, client, request, response, conn, ready, workers, server, process, answers,
  \* Periodic
  table, expired, periodicRunning, armed, at, puts,
  \* UploadQueue
  pushed, over, heap, rest, nextSeq, closed, nomore, reader, mutex, post, rd, taken,
  closer, shut, out,
  \* StatsChannel
  channel, subscribers, current, signalled, runner, queue, statsChannelShut,
  publishers, senders, statsChannelClient, got, statsChannelSent, panicked,
  \* ActivityTimer
  lock, updated, hooked, fired, task, activityTimerRunning, activityTimerArmed, check,
  activityTimerPc, quiet,
  \* UdpWorker
  made, active, udpWorkerDone, inactive, idle, udpWorkerAt, strayed,
  \* KcpArq
  cache, transmitted, nextNumber, firstUnacknowledged, firstUpdated, remoteNextNumber,
  window, recvNext, acklist, dirty, kcpArqNet,
  \* KcpListener
  open, kcpListenerCache, ended, hand, sessions, conns, closing,
  \* HappyEyeballs
  given, happyEyeballsIps, next, try, results, timer, win, cancelled,
  happyEyeballsOver, happyEyeballsOpen, happyEyeballsReturned,
  \* XhttpDial
  clients, pool, dial, posts,
  \* XhttpSessions
  entry, sess, req

xrayJniVars == <<running, xrayInst, created, xrayJniStarted, pc, inst, feature>>
dnsServerVars == <<ips, valid, requests, reqID, net, handling, retries, dnsServerPc,
                   todo, sub, streams, failed, quic>>
dnsOutboundVars == <<kind, sent, client, request, response, conn, ready, workers,
                     server, process, answers>>
periodicVars == <<table, expired, periodicRunning, armed, at, puts>>
uploadQueueVars == <<pushed, over, heap, rest, nextSeq, closed, nomore, reader, mutex,
                     post, rd, taken, closer, shut, out>>
statsChannelVars == <<channel, subscribers, current, signalled, runner, queue,
                      statsChannelShut, publishers, senders, statsChannelClient, got,
                      statsChannelSent, panicked>>
activityTimerVars == <<lock, updated, hooked, fired, task, activityTimerRunning,
                       activityTimerArmed, check, activityTimerPc, quiet>>
udpWorkerVars == <<made, active, udpWorkerDone, inactive, idle, udpWorkerAt, strayed>>
kcpArqVars == <<cache, transmitted, nextNumber, firstUnacknowledged, firstUpdated,
                remoteNextNumber, window, recvNext, acklist, dirty, kcpArqNet>>
kcpListenerVars == <<open, kcpListenerCache, ended, hand, sessions, conns, closing>>
happyEyeballsVars == <<given, happyEyeballsIps, next, try, results, timer, win,
                       cancelled, happyEyeballsOver, happyEyeballsOpen,
                       happyEyeballsReturned>>
xhttpDialVars == <<clients, pool, dial, posts>>
xhttpSessionsVars == <<entry, sess, req>>

\* The wrapper.
Jni == INSTANCE XrayJni WITH
  Callers <- {1, 2}, MaxInstances <- 2, NumFeatures <- 2, Panics <- FALSE,
  HostSerialises <- TRUE, started <- xrayJniStarted

\* A name server with a cache.
Cached == INSTANCE DnsServer WITH
  Queries <- {1, 2}, Domains <- {"a"}, DomainOf <- [q \in {1, 2} |-> "a"],
  OptionOf <- [q \in {1, 2} |-> IF q = 1 THEN {4, 6} ELSE {4}], IdSpace <- 64,
  MayExpire <- FALSE, MayLose <- FALSE, OwnNames <- {}, Transport <- "udp",
  DisableCache <- FALSE, MaxRetries <- 0, pc <- dnsServerPc

\* A name server without.
Uncached == INSTANCE DnsServer WITH
  Queries <- {1, 2}, Domains <- {"a"}, DomainOf <- [q \in {1, 2} |-> "a"],
  OptionOf <- [q \in {1, 2} |-> IF q = 1 THEN {4, 6} ELSE {4}], IdSpace <- 64,
  MayExpire <- FALSE, MayLose <- FALSE, OwnNames <- {}, Transport <- "udp",
  DisableCache <- TRUE, MaxRetries <- 0, pc <- dnsServerPc

\* A name server that is asked over TCP.
Tcp == INSTANCE DnsServer WITH
  Queries <- {1, 2}, Domains <- {"a"}, DomainOf <- [q \in {1, 2} |-> "a"],
  OptionOf <- [q \in {1, 2} |-> IF q = 1 THEN {4, 6} ELSE {4}], IdSpace <- 64,
  MayExpire <- FALSE, MayLose <- FALSE, OwnNames <- {}, Transport <- "tcp",
  DisableCache <- FALSE, MaxRetries <- 0, pc <- dnsServerPc

\* A name server that is asked for itself.
Itself == INSTANCE DnsServer WITH
  Queries <- {1, 2}, Domains <- {"a"}, DomainOf <- [q \in {1, 2} |-> "a"],
  OptionOf <- [q \in {1, 2} |-> IF q = 1 THEN {4, 6} ELSE {4}], IdSpace <- 64,
  MayExpire <- FALSE, MayLose <- FALSE, OwnNames <- {"a"}, Transport <- "doh",
  DisableCache <- FALSE, MaxRetries <- 0, pc <- dnsServerPc

\* The DNS outbound.
Outbound == INSTANCE DnsOutbound WITH
  N <- 1, NonIPQuery <- "skip", BlockTypes <- {}, OwnLink <- FALSE, MayFail <- TRUE

\* A periodic task.
Sweep == INSTANCE Periodic WITH
  Owners <- {"a", "b"}, MaxPuts <- 0, Forever <- TRUE, running <- periodicRunning

\* Packets of one session.
Upload == INSTANCE UploadQueue WITH
  Posts <- 1..3, Streams <- {}, SeqOf <- [p \in 1..3 |-> p - 1], Size <- 2,
  MaxPackets <- 2, MayClose <- FALSE

\* A channel that blocks.
Pressing == INSTANCE StatsChannel WITH
  Clients <- {1}, Messages <- 1..2, BufferSize <- 1, SubsLimit <- 1, Blocking <- TRUE,
  MayLeave <- FALSE, MayCancel <- FALSE, shut <- statsChannelShut,
  client <- statsChannelClient, sent <- statsChannelSent

\* A channel that does not.
Spawning == INSTANCE StatsChannel WITH
  Clients <- {1}, Messages <- 1..2, BufferSize <- 1, SubsLimit <- 0, Blocking <- FALSE,
  MayLeave <- FALSE, MayCancel <- FALSE, shut <- statsChannelShut,
  client <- statsChannelClient, sent <- statsChannelSent

\* A timer.
Timer == INSTANCE ActivityTimer WITH
  Callers <- {1}, running <- activityTimerRunning, armed <- activityTimerArmed,
  pc <- activityTimerPc

\* Connections of one client.
Worker == INSTANCE UdpWorker WITH
  MaxConns <- 2, done <- udpWorkerDone, at <- udpWorkerAt

\* The windows of mKCP.
Arq == INSTANCE KcpArq WITH
  Half <- 7, MaxPush <- 2, SendWindow <- 1, RecvWindow <- 1, InFlight <- 2,
  InitialNext <- 0, Magic <- 1, AckLimit <- 1, NetCap <- 1, net <- kcpArqNet

\* The listener of mKCP.
Listener == INSTANCE KcpListener WITH
  Ids <- {1}, Capacity <- 1, MaxConns <- 2, Twice <- TRUE, MayClose <- TRUE,
  cache <- kcpListenerCache

\* Dialling the addresses of a name.
Race == INSTANCE HappyEyeballs WITH
  MaxIPs <- 2, MaxConcurrentTry <- 2, Interleaves <- {1}, MayCancel <- TRUE,
  ips <- happyEyeballsIps, over <- happyEyeballsOver, open <- happyEyeballsOpen,
  returned <- happyEyeballsReturned

\* Packets of one connection.
Sending == INSTANCE XhttpDial WITH
  Separate <- FALSE, MaxConcurrency <- 1, MaxConnections <- 0, CMaxReuseTimes <- 0,
  HMaxRequestTimes <- 1, MayExpire <- FALSE, MayFail <- TRUE, Chunks <- 2,
  MaxClients <- 3, Dials <- {1}, Modes <- {"packet-up"}

\* Requests of one session.
Sessions == INSTANCE XhttpSessions WITH
  Requests <- 1..2, Kind <- <<"get", "stream">>, Forbidden <- {}, MayReap <- TRUE

ASSUME PartsAssumption ==
  /\ Cached!DnsAssumption
  /\ Uncached!DnsAssumption
  /\ Tcp!DnsAssumption
  /\ Itself!DnsAssumption
  /\ Outbound!DnsOutboundAssumption
  /\ Sweep!PeriodicAssumption
  /\ Upload!QueueAssumption
  /\ Pressing!StatsAssumption
  /\ Spawning!StatsAssumption
  /\ Timer!CallersAssumption
  /\ Worker!WorkerAssumption
  /\ Listener!ListenerAssumption
  /\ Race!RaceAssumption
  /\ Sending!DialAssumption
  /\ Sessions!SessionsAssumption

PartsInit ==
  /\ part \in {"run", "jni", "cached", "uncached", "tcp", "itself", "outbound", "sweep", "upload", "waiting", "spawning", "timer", "worker", "arq", "listener", "race", "sending", "sessions"}
  /\ Init
  /\ \/ part = "jni" /\ Jni!Init
     \/ part # "jni" /\ Jni!Init
  /\ \/ part = "cached" /\ Cached!Init
     \/ part = "uncached" /\ Uncached!Init
     \/ part = "tcp" /\ Tcp!Init
     \/ part = "itself" /\ Itself!Init
     \/ part \notin {"cached", "uncached", "tcp", "itself"} /\ Cached!Init
  /\ \/ part = "outbound" /\ Outbound!Init
     \/ part # "outbound" /\ kind = <<"other">> /\ Outbound!Init
  /\ \/ part = "sweep" /\ Sweep!Init
     \/ part # "sweep" /\ Sweep!Init
  /\ \/ part = "upload" /\ Upload!Init
     \/ part # "upload" /\ Upload!Init
  /\ \/ part = "waiting" /\ Pressing!Init
     \/ part = "spawning" /\ Spawning!Init
     \/ part \notin {"waiting", "spawning"} /\ Pressing!Init
  /\ \/ part = "timer" /\ Timer!Init
     \/ part # "timer" /\ Timer!Init
  /\ \/ part = "worker" /\ Worker!Init
     \/ part # "worker" /\ Worker!Init
  /\ \/ part = "arq" /\ Arq!Init
     \/ part # "arq" /\ Arq!Init
  /\ \/ part = "listener" /\ Listener!Init
     \/ part # "listener" /\ Listener!Init
  /\ \/ part = "race" /\ Race!Init
     \/ part # "race"
        /\ given = [seq |-> <<<<4, 1>>, <<4, 2>>>>, six |-> FALSE, interleave |-> 1]
        /\ Race!Init
  /\ \/ part = "sending" /\ Sending!Init
     \/ part # "sending" /\ Sending!Init
  /\ \/ part = "sessions" /\ Sessions!Init
     \/ part # "sessions" /\ Sessions!Init

PartsNext ==
  \/ part = "run" /\ Next
     /\ UNCHANGED <<part, xrayJniVars, dnsServerVars, dnsOutboundVars, periodicVars, uploadQueueVars, statsChannelVars, activityTimerVars, udpWorkerVars, kcpArqVars, kcpListenerVars, happyEyeballsVars, xhttpDialVars, xhttpSessionsVars>>
  \/ part = "jni" /\ Jni!Next
     /\ UNCHANGED <<part, vars, dnsServerVars, dnsOutboundVars, periodicVars, uploadQueueVars, statsChannelVars, activityTimerVars, udpWorkerVars, kcpArqVars, kcpListenerVars, happyEyeballsVars, xhttpDialVars, xhttpSessionsVars>>
  \/ part = "cached" /\ Cached!Next
     /\ UNCHANGED <<part, vars, xrayJniVars, dnsOutboundVars, periodicVars, uploadQueueVars, statsChannelVars, activityTimerVars, udpWorkerVars, kcpArqVars, kcpListenerVars, happyEyeballsVars, xhttpDialVars, xhttpSessionsVars>>
  \/ part = "uncached" /\ Uncached!Next
     /\ UNCHANGED <<part, vars, xrayJniVars, dnsOutboundVars, periodicVars, uploadQueueVars, statsChannelVars, activityTimerVars, udpWorkerVars, kcpArqVars, kcpListenerVars, happyEyeballsVars, xhttpDialVars, xhttpSessionsVars>>
  \/ part = "tcp" /\ Tcp!Next
     /\ UNCHANGED <<part, vars, xrayJniVars, dnsOutboundVars, periodicVars, uploadQueueVars, statsChannelVars, activityTimerVars, udpWorkerVars, kcpArqVars, kcpListenerVars, happyEyeballsVars, xhttpDialVars, xhttpSessionsVars>>
  \/ part = "itself" /\ Itself!Next
     /\ UNCHANGED <<part, vars, xrayJniVars, dnsOutboundVars, periodicVars, uploadQueueVars, statsChannelVars, activityTimerVars, udpWorkerVars, kcpArqVars, kcpListenerVars, happyEyeballsVars, xhttpDialVars, xhttpSessionsVars>>
  \/ part = "outbound" /\ Outbound!Next
     /\ UNCHANGED <<part, vars, xrayJniVars, dnsServerVars, periodicVars, uploadQueueVars, statsChannelVars, activityTimerVars, udpWorkerVars, kcpArqVars, kcpListenerVars, happyEyeballsVars, xhttpDialVars, xhttpSessionsVars>>
  \/ part = "sweep" /\ Sweep!Next
     /\ UNCHANGED <<part, vars, xrayJniVars, dnsServerVars, dnsOutboundVars, uploadQueueVars, statsChannelVars, activityTimerVars, udpWorkerVars, kcpArqVars, kcpListenerVars, happyEyeballsVars, xhttpDialVars, xhttpSessionsVars>>
  \/ part = "upload" /\ Upload!Next
     /\ UNCHANGED <<part, vars, xrayJniVars, dnsServerVars, dnsOutboundVars, periodicVars, statsChannelVars, activityTimerVars, udpWorkerVars, kcpArqVars, kcpListenerVars, happyEyeballsVars, xhttpDialVars, xhttpSessionsVars>>
  \/ part = "waiting" /\ Pressing!Next
     /\ UNCHANGED <<part, vars, xrayJniVars, dnsServerVars, dnsOutboundVars, periodicVars, uploadQueueVars, activityTimerVars, udpWorkerVars, kcpArqVars, kcpListenerVars, happyEyeballsVars, xhttpDialVars, xhttpSessionsVars>>
  \/ part = "spawning" /\ Spawning!Next
     /\ UNCHANGED <<part, vars, xrayJniVars, dnsServerVars, dnsOutboundVars, periodicVars, uploadQueueVars, activityTimerVars, udpWorkerVars, kcpArqVars, kcpListenerVars, happyEyeballsVars, xhttpDialVars, xhttpSessionsVars>>
  \/ part = "timer" /\ Timer!Next
     /\ UNCHANGED <<part, vars, xrayJniVars, dnsServerVars, dnsOutboundVars, periodicVars, uploadQueueVars, statsChannelVars, udpWorkerVars, kcpArqVars, kcpListenerVars, happyEyeballsVars, xhttpDialVars, xhttpSessionsVars>>
  \/ part = "worker" /\ Worker!Next
     /\ UNCHANGED <<part, vars, xrayJniVars, dnsServerVars, dnsOutboundVars, periodicVars, uploadQueueVars, statsChannelVars, activityTimerVars, kcpArqVars, kcpListenerVars, happyEyeballsVars, xhttpDialVars, xhttpSessionsVars>>
  \/ part = "arq" /\ Arq!Next
     /\ UNCHANGED <<part, vars, xrayJniVars, dnsServerVars, dnsOutboundVars, periodicVars, uploadQueueVars, statsChannelVars, activityTimerVars, udpWorkerVars, kcpListenerVars, happyEyeballsVars, xhttpDialVars, xhttpSessionsVars>>
  \/ part = "listener" /\ Listener!Next
     /\ UNCHANGED <<part, vars, xrayJniVars, dnsServerVars, dnsOutboundVars, periodicVars, uploadQueueVars, statsChannelVars, activityTimerVars, udpWorkerVars, kcpArqVars, happyEyeballsVars, xhttpDialVars, xhttpSessionsVars>>
  \/ part = "race" /\ Race!Next
     /\ UNCHANGED <<part, vars, xrayJniVars, dnsServerVars, dnsOutboundVars, periodicVars, uploadQueueVars, statsChannelVars, activityTimerVars, udpWorkerVars, kcpArqVars, kcpListenerVars, xhttpDialVars, xhttpSessionsVars>>
  \/ part = "sending" /\ Sending!Next
     /\ UNCHANGED <<part, vars, xrayJniVars, dnsServerVars, dnsOutboundVars, periodicVars, uploadQueueVars, statsChannelVars, activityTimerVars, udpWorkerVars, kcpArqVars, kcpListenerVars, happyEyeballsVars, xhttpSessionsVars>>
  \/ part = "sessions" /\ Sessions!Next
     /\ UNCHANGED <<part, vars, xrayJniVars, dnsServerVars, dnsOutboundVars, periodicVars, uploadQueueVars, statsChannelVars, activityTimerVars, udpWorkerVars, kcpArqVars, kcpListenerVars, happyEyeballsVars, xhttpDialVars>>

PartsSpec == PartsInit /\ [][PartsNext]_<<part, vars, xrayJniVars, dnsServerVars, dnsOutboundVars, periodicVars, uploadQueueVars, statsChannelVars, activityTimerVars, udpWorkerVars, kcpArqVars, kcpListenerVars, happyEyeballsVars, xhttpDialVars, xhttpSessionsVars>>

-----------------------------------------------------------------------------
(* Every QueryIP returns, with and without a cache, over UDP and in        *)
(* streams, of which each may fail. The DNS outbound ends when its client  *)
(* does, with everything it has started, and what the server answers       *)
(* reaches the client unless the link ends first.                          *)
QueriesAnswered ==
  /\ (part = "cached" /\ Cached!Fairness => Cached!QueriesReturn)
  /\ (part = "uncached" /\ Uncached!Fairness => Uncached!QueriesReturn)
  /\ (part = "tcp" /\ Tcp!Fairness => Tcp!QueriesReturn)
  /\ (part = "itself" /\ Itself!Fairness => Itself!QueriesReturn)
  /\ (part = "outbound" /\ Outbound!Fairness => Outbound!ProcessEnds /\ Outbound!RepliesArrive)

(* StartXray and StopXray return, the race of happy eyeballs ends, and the *)
(* goroutine that sends packets for XHTTP does not outlive its connection. *)
(* Run returns as soon as a task fails, the context is done or all tasks   *)
(* have returned, and the goroutine of every task that returns ends,       *)
(* although nobody may be listening any more.                              *)
TasksEnd ==
  /\ (part = "run" /\ Fairness => RunReturns /\ GoroutinesEnd)
  /\ (part = "jni" /\ Jni!Fairness => Jni!CallsReturn)
  /\ (part = "race" /\ Race!Fairness => Race!RaceEnds)
  /\ (part = "sending" /\ Sending!Fairness => Sending!LoopEnds)

(* Every subscriber gets every message that was published while it was     *)
(* subscribed, from a channel that blocks and from one that spawns         *)
(* goroutines; every packet of a session is read from the upload queue;    *)
(* and over a network that loses packets but not all of them, everything   *)
(* written to an mKCP connection is delivered and its window emptied, even *)
(* from a window of zero.                                                  *)
MessagesDelivered ==
  /\ (part = "waiting" /\ Pressing!Fairness => Pressing!Delivered)
  /\ (part = "spawning" /\ Spawning!Fairness => Spawning!Delivered)
  /\ (part = "upload" /\ Upload!Fairness => Upload!AllRead)
  /\ (part = "arq" /\ Arq!Fairness => Arq!AllDelivered /\ Arq!SenderDrains)

(* What nobody uses goes: a timer nobody updates fires, an idle connection *)
(* of the UDP worker is closed, one that is closed leaves the table, an    *)
(* expired entry is swept by a periodic task, and in the end every session *)
(* of the XHTTP server is closed and forgotten, whichever requests came,   *)
(* and so is every connection of an mKCP listener after its Close.         *)
IdleIsNoticed ==
  /\ (part = "timer" /\ Timer!Fairness => Timer!FiresWhenIdle)
  /\ (part = "worker" /\ Worker!Fairness => Worker!IdleIsClosed /\ Worker!ClosedGoes)
  /\ (part = "sweep" /\ Sweep!Fairness => Sweep!Swept)
  /\ (part = "sessions" /\ Sessions!Fairness => Sessions!SessionsEnd)
  /\ (part = "listener" /\ Listener!Fairness => Listener!ClosedIsEmpty)
=============================================================================
