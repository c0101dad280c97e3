-------------------------------- MODULE MCKcp ---------------------------------
(***************************************************************************)
(* mKCP: the windows, how a connection ends and the table of the listener, all*)
(* in the extended module, which has the proofs about them; and what becomes*)
(* of connections, whatever is lost and however the goroutines of one end  *)
(* interleave.                                                             *)
(*                                                                         *)
(* The variable part says which of them a behaviour is about; nothing      *)
(* happens to the others.                                                  *)
(***************************************************************************)
EXTENDS KcpProofs

VARIABLES
  part,   \* what a behaviour is about
  \* KcpClose
  ends, kcpCloseSending, kcpClosePushed, kcpCloseWindow, kcpCloseRead, kcpCloseRpc,
  kcpCloseNet,
  \* KcpState
  kcpStateState, expired, idle, pending, unsent, released, late, closes, writes, pc,
  target, resume

endingVars == <<state, sending, pushed, arrived, read, rpc, wire>>
listenerVars == <<open, hub, ended, hand, sessions, conns, closing>>
kcpCloseVars == <<ends, kcpCloseSending, kcpClosePushed, kcpCloseWindow, kcpCloseRead,
                  kcpCloseRpc, kcpCloseNet>>
kcpStateVars == <<kcpStateState, expired, idle, pending, unsent, released, late,
                  closes, writes, pc, target, resume>>

\* The two ends.
Closing == INSTANCE KcpClose WITH
  MaxPush <- 1, NetCap <- 2, Timeouts <- TRUE, ServerMayClose <- TRUE, state <- ends,
  window <- kcpCloseWindow, net <- kcpCloseNet, sending <- kcpCloseSending,
  pushed <- kcpClosePushed, read <- kcpCloseRead, rpc <- kcpCloseRpc

\* Goroutines that close.
States == INSTANCE KcpState WITH
  MaxCloses <- 1, MaxWrites <- 0, Silences <- FALSE, PeerCloses <- TRUE,
  state <- kcpStateState

\* Goroutines that write.
Writing == INSTANCE KcpState WITH
  MaxCloses <- 0, MaxWrites <- 1, Silences <- FALSE, PeerCloses <- FALSE,
  state <- kcpStateState

\* A peer that falls silent.
Silence == INSTANCE KcpState WITH
  MaxCloses <- 0, MaxWrites <- 0, Silences <- TRUE, PeerCloses <- FALSE,
  state <- kcpStateState

ASSUME PartsAssumption ==
  /\ Ending!CloseAssumption
  /\ Listener!ListenerAssumption
  /\ Closing!CloseAssumption
  /\ States!StateAssumption
  /\ Writing!StateAssumption
  /\ Silence!StateAssumption

PartsInit ==
  /\ part \in {"windows", "ending", "listener", "closing", "states", "writing", "silence"}
  /\ Init
  /\ Ending!Init
  /\ Listener!Init
  /\ \/ part = "closing" /\ Closing!Init
     \/ part # "closing" /\ Closing!Init
  /\ \/ part = "states" /\ States!Init
     \/ part = "writing" /\ Writing!Init
     \/ part = "silence" /\ Silence!Init
     \/ part \notin {"states", "writing", "silence"} /\ States!Init

PartsNext ==
  \/ part = "windows" /\ Next
     /\ UNCHANGED <<part, endingVars, listenerVars, kcpCloseVars, kcpStateVars>>
  \/ part = "ending" /\ Ending!Next
     /\ UNCHANGED <<part, vars, listenerVars, kcpCloseVars, kcpStateVars>>
  \/ part = "listener" /\ Listener!Next
     /\ UNCHANGED <<part, vars, endingVars, kcpCloseVars, kcpStateVars>>
  \/ part = "closing" /\ Closing!Next
     /\ UNCHANGED <<part, vars, endingVars, listenerVars, kcpStateVars>>
  \/ part = "states" /\ States!Next
     /\ UNCHANGED <<part, vars, endingVars, listenerVars, kcpCloseVars>>
  \/ part = "writing" /\ Writing!Next
     /\ UNCHANGED <<part, vars, endingVars, listenerVars, kcpCloseVars>>
  \/ part = "silence" /\ Silence!Next
     /\ UNCHANGED <<part, vars, endingVars, listenerVars, kcpCloseVars>>

PartsSpec == PartsInit /\ [][PartsNext]_<<part, vars, endingVars, listenerVars, kcpCloseVars, kcpStateVars>>

-----------------------------------------------------------------------------
=============================================================================
