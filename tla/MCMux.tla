-------------------------------- MODULE MCMux ---------------------------------
(***************************************************************************)
(* mux: the workers and sessions of a client, the frames of two sessions on*)
(* one connection and a flow that moves from connection to connection (all *)
(* in the extended module, which has the proofs about them), and the workers*)
(* of a reverse proxy.                                                     *)
(*                                                                         *)
(* The variable part says which of them a behaviour is about; nothing      *)
(* happens to the others.                                                  *)
(***************************************************************************)
EXTENDS MuxProofs, TLC

VARIABLES
  part,   \* what a behaviour is about
  \* MuxClient
  muxClientWorkers, muxClientMade, muxClientDone, muxClientClosed, muxClientSessions,
  muxClientCount, muxClientMonitor, muxClientPc, muxClientPick, muxClientTries,
  muxClientId, muxClientAssigned, muxClientOver, muxClientReleased,
  \* Reverse
  wk, bridge, portal, user, peak, failures

\* Links differ in nothing but their names.
LinkSymmetry == Permutations(Links)

connVars == <<wires, sess, copier, taken, sent, got, reply>>
xudpVars == <<map, status, mux, frame, entry, link, dead, session, error, handler, gone>>
competingVars == <<muxClientWorkers, muxClientMade, muxClientDone, muxClientClosed,
                   muxClientSessions, muxClientCount, muxClientMonitor, muxClientPc,
                   muxClientPick, muxClientTries, muxClientId, muxClientAssigned,
                   muxClientOver, muxClientReleased>>
reverseVars == <<wk, bridge, portal, user, peak, failures>>

\* A mux client whose connections never fail.
Competing == INSTANCE MuxClient WITH
  MaxConcurrency <- 1, MaxConnection <- 2, IdSpace <- 8, Tries <- 4, MaxWorkers <- 3,
  Failures <- FALSE, workers <- muxClientWorkers, made <- muxClientMade,
  done <- muxClientDone, closed <- muxClientClosed, sessions <- muxClientSessions,
  count <- muxClientCount, monitor <- muxClientMonitor, pc <- muxClientPc,
  pick <- muxClientPick, tries <- muxClientTries, id <- muxClientId,
  assigned <- muxClientAssigned, over <- muxClientOver, released <- muxClientReleased

\* A portal and its bridge.
Reverse == INSTANCE Reverse WITH
  Users <- {1}, DrainAfter <- 1, Load <- 1, Most <- 9, Tries <- 2, Slots <- {1, 2},
  MaxFailures <- 0, Counting <- TRUE

\* A portal and a bridge whose connections fail.
Failing == INSTANCE Reverse WITH
  Users <- {1}, DrainAfter <- 1, Load <- 1, Most <- 9, Tries <- 2, Slots <- {1},
  MaxFailures <- 1, Counting <- TRUE

ASSUME PartsAssumption ==
  /\ Xudp!XudpAssumption
  /\ Reverse!ReverseAssumption
  /\ Failing!ReverseAssumption

Unused == "unused"   \* what the variables of the other parts are

PartsInit ==
  /\ part \in {"client", "competing", "frames", "xudp", "reverse", "failing"}
  /\ Init
  /\ Conn!Init
  /\ Xudp!Init
  /\ \/ part = "competing" /\ Competing!Init
     \/ part # "competing" /\ muxClientWorkers = Unused /\ muxClientMade = Unused
        /\ muxClientDone = Unused /\ muxClientClosed = Unused
        /\ muxClientSessions = Unused /\ muxClientCount = Unused
        /\ muxClientMonitor = Unused /\ muxClientPc = Unused /\ muxClientPick = Unused
        /\ muxClientTries = Unused /\ muxClientId = Unused /\ muxClientAssigned = Unused
        /\ muxClientOver = Unused /\ muxClientReleased = Unused
  /\ \/ part = "reverse" /\ Reverse!Init
     \/ part = "failing" /\ Failing!Init
     \/ part \notin {"reverse", "failing"} /\ wk = Unused /\ bridge = Unused
        /\ portal = Unused /\ user = Unused /\ peak = Unused /\ failures = Unused

PartsNext ==
  \/ part = "client" /\ Next
     /\ UNCHANGED <<part, competingVars, connVars, xudpVars, reverseVars>>
  \/ part = "competing" /\ Competing!Next
     /\ UNCHANGED <<part, vars, connVars, xudpVars, reverseVars>>
  \/ part = "frames" /\ Conn!Next
     /\ UNCHANGED <<part, vars, competingVars, xudpVars, reverseVars>>
  \/ part = "xudp" /\ Xudp!Next
     /\ UNCHANGED <<part, vars, competingVars, connVars, reverseVars>>
  \/ part = "reverse" /\ Reverse!Next
     /\ UNCHANGED <<part, vars, competingVars, connVars, xudpVars>>
  \/ part = "failing" /\ Failing!Next
     /\ UNCHANGED <<part, vars, competingVars, connVars, xudpVars>>

PartsSpec == PartsInit /\ [][PartsNext]_<<part, vars, competingVars, connVars, xudpVars, reverseVars>>

-----------------------------------------------------------------------------
(* As long as connections do not fail, every link a client dispatches      *)
(* finds a worker, and no two sessions of a worker have the same           *)
(* identifier.                                                             *)
AnyLinkFindsWorker == part = "competing" => Competing!LinkFindsWorker /\ Competing!IdsUnique

(* However late the bridge learns of what the portal does, it never holds  *)
(* more active workers than the most connections it has ever counted call  *)
(* for.                                                                    *)
WorkersBounded ==
  /\ part = "reverse" => Reverse!WorkersBounded
  /\ part = "failing" => Failing!WorkersBounded
=============================================================================
