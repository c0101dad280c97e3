----------------------------- MODULE MCLinksLive ------------------------------
(***************************************************************************)
(* The links of the UDP dispatcher (the extended module), and what links,  *)
(* mux, the reverse proxy, proxied connections and the dispatcher do in the*)
(* end.                                                                    *)
(*                                                                         *)
(* The variable part says which of them a behaviour is about; nothing      *)
(* happens to the others.                                                  *)
(***************************************************************************)
EXTENDS UdpDispatcher

VARIABLES
  part,   \* what a behaviour is about
  \* Pipe
  data, state, readSignal, writeSignal, errChan, rpc, wpc, mb, writes, rres, wres,
  accepted, taken,
  \* MuxClient
  workers, muxClientMade, muxClientDone, closed, sessions, count, monitor, pc, pick,
  tries, id, assigned, over, released,
  \* MuxFrames
  link, sess, copier, muxFramesTaken, sent, got, reply,
  \* Xudp
  map, status, mux, xudpPc, entry, xudpLink, dead, session, error, xudpHandler, gone,
  \* Reverse
  wk, bridge, portal, user, peak, failures,
  \* Relay
  in, out, detached, relayConn, reached, relayLink, task, proc, cancelled,
  \* Dispatcher
  req, handlers, up, down, written, dispatcherCancelled, dispatcherCache, pending,
  attempts, dispatcherPc, meta, content, target, routeTarget, dispatcherHandler,
  dispatcherGot

pipeVars == <<data, state, readSignal, writeSignal, errChan, rpc, wpc, mb, writes,
              rres, wres, accepted, taken>>
muxClientVars == <<workers, muxClientMade, muxClientDone, closed, sessions, count,
                   monitor, pc, pick, tries, id, assigned, over, released>>
muxFramesVars == <<link, sess, copier, muxFramesTaken, sent, got, reply>>
xudpVars == <<map, status, mux, xudpPc, entry, xudpLink, dead, session, error,
              xudpHandler, gone>>
reverseVars == <<wk, bridge, portal, user, peak, failures>>
relayVars == <<in, out, detached, relayConn, reached, relayLink, task, proc, cancelled>>
dispatcherVars == <<req, handlers, up, down, written, dispatcherCancelled,
                    dispatcherCache, pending, attempts, dispatcherPc, meta, content,
                    target, routeTarget, dispatcherHandler, dispatcherGot>>

\* A pipe.
Pipes == INSTANCE Pipe WITH
  Readers <- {1}, Writers <- {1, 2}, TimeoutReaders <- {}, Limit <- 0,
  DiscardOverflow <- FALSE, MaxWrites <- 1, MaxBuffers <- 1

\* A mux client.
Client == INSTANCE MuxClient WITH
  Links <- {1, 2}, MaxConcurrency <- 2, MaxConnection <- 2, IdSpace <- 8, Tries <- 1,
  MaxWorkers <- 1, Failures <- TRUE, made <- muxClientMade, done <- muxClientDone

\* Frames.
Frames == INSTANCE MuxFrames WITH
  Sessions <- {1}, Pieces <- 1, LinkCap <- 10, taken <- muxFramesTaken

\* XUDP.
Xudp == INSTANCE Xudp WITH
  MaxNew <- 2, pc <- xudpPc, link <- xudpLink, handler <- xudpHandler

\* A portal and its bridge.
Reverse == INSTANCE Reverse WITH
  Users <- {1}, DrainAfter <- 1, Load <- 2, Most <- 9, Tries <- 1, Slots <- {1, 2},
  MaxFailures <- 0, Counting <- FALSE

\* A proxied connection.
Relay == INSTANCE Relay WITH
  Pairs <- {<<"vless", "http">>}, Detached <- {FALSE},
  Chunks <- [client |-> 1, server |-> 0], Limit <- 0, Idle <- FALSE, conn <- relayConn,
  link <- relayLink

\* The dispatcher.
Sniffing == INSTANCE Dispatcher WITH
  Requests <- {[address |-> "ip", fake |-> "no", enabled |-> TRUE, metadataOnly |-> FALSE, routeOnly |-> FALSE, override |-> {"http"}, exclude |-> {}, forced |-> "none", route |-> "a"]},
  Sniffers <- <<"http1", "bittorrent">>, Chunks <- 2, Hollow <- {1}, Tags <- {"a"},
  cancelled <- dispatcherCancelled, cache <- dispatcherCache, pc <- dispatcherPc,
  handler <- dispatcherHandler, got <- dispatcherGot

ASSUME PartsAssumption ==
  /\ Xudp!XudpAssumption
  /\ Reverse!ReverseAssumption
  /\ Relay!RelayAssumption
  /\ Sniffing!DispatcherAssumption

PartsInit ==
  /\ part \in {"rays", "pipe", "client", "frames", "xudp", "reverse", "relay", "sniffing"}
  /\ Init
  /\ \/ part = "pipe" /\ Pipes!Init
     \/ part # "pipe" /\ Pipes!Init
  /\ \/ part = "client" /\ Client!Init
     \/ part # "client" /\ Client!Init
  /\ \/ part = "frames" /\ Frames!Init
     \/ part # "frames" /\ Frames!Init
  /\ \/ part = "xudp" /\ Xudp!Init
     \/ part # "xudp" /\ Xudp!Init
  /\ \/ part = "reverse" /\ Reverse!Init
     \/ part # "reverse" /\ Reverse!Init
  /\ \/ part = "relay" /\ Relay!Init
     \/ part # "relay" /\ Relay!Init
  /\ \/ part = "sniffing" /\ Sniffing!Init
     \/ part # "sniffing" /\ handlers = <<>> /\ Sniffing!Init

PartsNext ==
  \/ part = "rays" /\ Next
     /\ UNCHANGED <<part, pipeVars, muxClientVars, muxFramesVars, xudpVars, reverseVars, relayVars, dispatcherVars>>
  \/ part = "pipe" /\ Pipes!Next
     /\ UNCHANGED <<part, vars, muxClientVars, muxFramesVars, xudpVars, reverseVars, relayVars, dispatcherVars>>
  \/ part = "client" /\ Client!Next
     /\ UNCHANGED <<part, vars, pipeVars, muxFramesVars, xudpVars, reverseVars, relayVars, dispatcherVars>>
  \/ part = "frames" /\ Frames!Next
     /\ UNCHANGED <<part, vars, pipeVars, muxClientVars, xudpVars, reverseVars, relayVars, dispatcherVars>>
  \/ part = "xudp" /\ Xudp!Next
     /\ UNCHANGED <<part, vars, pipeVars, muxClientVars, muxFramesVars, reverseVars, relayVars, dispatcherVars>>
  \/ part = "reverse" /\ Reverse!Next
     /\ UNCHANGED <<part, vars, pipeVars, muxClientVars, muxFramesVars, xudpVars, relayVars, dispatcherVars>>
  \/ part = "relay" /\ Relay!Next
     /\ UNCHANGED <<part, vars, pipeVars, muxClientVars, muxFramesVars, xudpVars, reverseVars, dispatcherVars>>
  \/ part = "sniffing" /\ Sniffing!Next
     /\ UNCHANGED <<part, vars, pipeVars, muxClientVars, muxFramesVars, xudpVars, reverseVars, relayVars>>

PartsSpec == PartsInit /\ [][PartsNext]_<<part, vars, pipeVars, muxClientVars, muxFramesVars, xudpVars, reverseVars, relayVars, dispatcherVars>>

-----------------------------------------------------------------------------
(* With a reader that goes on reading every write to a pipe returns, what  *)
(* was accepted is read, and Close releases a reader that waits, although  *)
(* one token of a signal serves everybody who waits for it. The UDP        *)
(* dispatcher: a link whose other end is gone does not stay in use, and    *)
(* the goroutine that reads a link that was removed ends.                  *)
LinksMove ==
  /\ (part = "pipe" /\ Pipes!Fairness => Pipes!WritesReturn /\ Pipes!CloseReleasesReaders /\ Pipes!AcceptedIsRead)
  /\ (part = "rays" /\ Fairness => DeadRayGoes /\ HandlerReturns)

(* Everything mux opens is given back: a session closed at one end is      *)
(* closed at the other, a worker that has no session ends, and the links   *)
(* of a flow nobody holds any more are interrupted. The portal of a        *)
(* reverse proxy again and again has a worker that is not draining, and    *)
(* one that drains and carries nothing is closed.                          *)
MuxWindsDown ==
  /\ (part = "frames" /\ Frames!Fairness => Frames!ClosedAtBoth)
  /\ (part = "client" /\ Client!Fairness => Client!IdleWorkerEnds)
  /\ (part = "xudp" /\ Xudp!Fairness => Xudp!LinksEnd)
  /\ (part = "reverse" /\ Reverse!Fairness => Reverse!Replaced /\ Reverse!DrainEnds)

(* A proxied connection one of whose peers breaks off, or both of whose    *)
(* peers have finished, is given back without the help of a timer; and     *)
(* every connection is handed to a handler or refused, whatever the        *)
(* inbound sends and even if it sends nothing.                             *)
EndsByItself ==
  /\ (part = "relay" /\ Relay!Fairness => Relay!EndsByItself)
  /\ (part = "sniffing" /\ Sniffing!Fairness => Sniffing!IsDispatched)
=============================================================================
