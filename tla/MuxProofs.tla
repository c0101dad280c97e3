------------------------------ MODULE MuxProofs -------------------------------
(***************************************************************************)
(* Proofs about mux (common/mux): about module MuxClient for every set of  *)
(* links, every number of workers and every strategy; about module Xudp    *)
(* for every number of New frames of a flow; and about module MuxFrames    *)
(* for every set of sessions, amount of payload and capacity of the links. *)
(***************************************************************************)
EXTENDS MuxClient, FiniteSetTheorems, TLAPS

(* The links that have, or had, a session.                                 *)
Served == {l \in Links : pc[l] \in {"assign", "fetch", "off"}}

(* The types that matter, and that a session is in a worker.               *)
Shape ==
  /\ closed \subseteq Workers
  /\ sessions \in [Workers -> SUBSET Links]
  /\ count \in [Workers -> Nat]
  /\ pc \in [Links -> {"pick", "check", "allocate", "assign", "fetch", "off", "failed"}]
  /\ pick = [l \in Links |-> pick[l]]
  /\ id \in [Links -> Nat]
  /\ \A l \in Served : pick[l] \in Workers

(* An open session is in the manager of its worker, and that manager is    *)
(* not closed.                                                             *)
Registered ==
  \A l \in Links :
    pc[l] \in {"assign", "fetch"} /\ l \notin over
      => l \in sessions[pick[l]] /\ pick[l] \notin closed

(* The id Allocate hands out is a number, whether it wraps or not.         *)
LEMMA NextIdNatural ==
  ASSUME count \in [Workers -> Nat], NEW w \in Workers
  PROVE  NextId(w) \in Nat
  BY ClientAssumption DEF ClientAssumption, NextId

(* At first there is no session and nothing to register.                   *)
LEMMA ShapeInit == Init => Shape /\ Registered
  BY DEF Init, Shape, Registered, Served

(* Every step of a link, a worker or the cleanup keeps the types.          *)
LEMMA ShapeStep == Shape /\ [Next]_vars => Shape'
<1> SUFFICES ASSUME Shape, [Next]_vars PROVE Shape'
  OBVIOUS
<1> USE DEF Shape, workerVars, linkVars, Served
<1>1. ASSUME NEW l \in Links, PickWorker(l) PROVE Shape'
  <2>1. \E w : pick' = [pick EXCEPT ![l] = w]
    BY <1>1 DEF PickWorker
  <2> QED BY <1>1, <2>1, ZenonT(60) DEF PickWorker
<1>2. ASSUME NEW l \in Links, CheckFull(l) PROVE Shape'
  BY <1>2 DEF CheckFull, Refused
<1>3. ASSUME NEW l \in Links, NEW w \in Workers, Allocate(l, w) PROVE Shape'
  <2>1. NextId(w) \in Nat
    BY NextIdNatural
  <2> QED BY <1>3, <2>1 DEF Allocate, Refused
<1>4. ASSUME NEW l \in Links, Assign(l) PROVE Shape'
  BY <1>4 DEF Assign
<1>5. ASSUME NEW l \in Links, FetchEnds(l) PROVE Shape'
  BY <1>5 DEF FetchEnds, Remove
<1>6. ASSUME NEW l \in Links, PeerEnds(l) PROVE Shape'
  BY <1>6 DEF PeerEnds, Remove
<1>7. CASE CleanupTask
  BY <1>7 DEF CleanupTask
<1>8. ASSUME NEW w \in Workers, ConnectionEnds(w) \/ MonitorLooks(w) \/ WorkerStep(w) PROVE Shape'
  BY <1>8 DEF ConnectionEnds, MonitorLooks, WorkerStep, MonitorCloses, MonitorDone, MonitorEnds
<1>9. CASE UNCHANGED vars
  BY <1>9 DEF vars
<1> QED
  BY <1>1, <1>2, <1>3, <1>4, <1>5, <1>6, <1>7, <1>8, <1>9 DEF Next, LinkStep

(* A session leaves its manager only when it is over, and a manager closes *)
(* only with all of its sessions over.                                     *)
LEMMA RegisteredStep == Shape /\ Registered /\ [Next]_vars => Registered'
<1> SUFFICES ASSUME Shape, Registered, [Next]_vars PROVE Registered'
  OBVIOUS
<1> USE DEF Shape, Registered, workerVars, linkVars, Served
<1>1. ASSUME NEW l \in Links, PickWorker(l) PROVE Registered'
  <2>1. PICK w : pick' = [pick EXCEPT ![l] = w]
    BY <1>1 DEF PickWorker
  <2> QED BY <1>1, <2>1 DEF PickWorker
<1>2. ASSUME NEW l \in Links, CheckFull(l) PROVE Registered'
  BY <1>2 DEF CheckFull, Refused
<1>3. ASSUME NEW l \in Links, NEW w \in Workers, Allocate(l, w) PROVE Registered'
  BY <1>3 DEF Allocate, Refused, NoSession
<1>4. ASSUME NEW l \in Links, Assign(l) PROVE Registered'
  BY <1>4 DEF Assign
<1>5. ASSUME NEW l \in Links, FetchEnds(l) PROVE Registered'
  BY <1>5 DEF FetchEnds, Remove, CloseSessions
<1>6. ASSUME NEW l \in Links, PeerEnds(l) PROVE Registered'
  BY <1>6 DEF PeerEnds, Remove, CloseSessions
<1>7. CASE CleanupTask
  BY <1>7 DEF CleanupTask
<1>8. ASSUME NEW w \in Workers, ConnectionEnds(w) \/ MonitorLooks(w) \/ MonitorDone(w)
      PROVE Registered'
  BY <1>8 DEF ConnectionEnds, MonitorLooks, MonitorDone
<1>9. ASSUME NEW w \in Workers, MonitorCloses(w) PROVE Registered'
  BY <1>9 DEF MonitorCloses
<1>10. ASSUME NEW w \in Workers, MonitorEnds(w) PROVE Registered'
  BY <1>10 DEF MonitorEnds, CloseSessions
<1>11. CASE UNCHANGED vars
  BY <1>11 DEF vars
<1> QED
  BY <1>1, <1>2, <1>3, <1>4, <1>5, <1>6, <1>7, <1>8, <1>9, <1>10, <1>11
  DEF Next, LinkStep, WorkerStep

(* A worker that closes leaves no session open behind it: a Dispatch       *)
(* racing with the monitor either gets no session or keeps the manager     *)
(* from closing for idleness.                                              *)
THEOREM NoSessionStranded == Spec => []NoneStranded
<1>1. Init => Shape /\ Registered
  BY ShapeInit
<1>2. Shape /\ Registered /\ [Next]_vars => (Shape /\ Registered)'
  BY ShapeStep, RegisteredStep
<1>3. Registered => NoneStranded
  BY DEF Registered, NoneStranded
<1> QED BY <1>1, <1>2, <1>3, PTL DEF Spec

-----------------------------------------------------------------------------
(* Session ids, for a strategy whose limit fits into the ids' type.        *)

Limited == MaxConnection \in 1..(IdSpace - 1)

(* Ids were given out in the order of count.                               *)
Numbered ==
  /\ \A l \in Served : id[l] <= count[pick[l]]
  /\ IdsUnique

(* A number below the modulus is its own remainder.                        *)
LEMMA SmallModulo ==
  ASSUME NEW n \in Nat, NEW m \in Nat, n < m
  PROVE  n % m = n
  OBVIOUS

(* Below the limit of connections the uint16 count does not wrap.          *)
LEMMA NextIdIsNext ==
  ASSUME Limited, Shape, NEW w \in Workers, ~NoSession(w)
  PROVE  NextId(w) = count[w] + 1
<1>1. IdSpace \in Nat /\ MaxConnection \in Nat /\ count[w] \in Nat
  BY ClientAssumption DEF ClientAssumption, Shape
<1>2. MaxConnection % IdSpace = MaxConnection
  BY <1>1, SmallModulo DEF Limited
<1>3. count[w] < MaxConnection
  BY <1>1, <1>2 DEF NoSession, Limited
<1>4. count[w] + 1 \in Nat /\ count[w] + 1 < IdSpace
  BY <1>1, <1>3 DEF Limited
<1> QED BY <1>1, <1>4, SmallModulo DEF NextId

(* Allocate is the only step that hands out an id, and it is a new one.    *)
LEMMA NumberedStep ==
  ASSUME Limited, Shape, Numbered, [Next]_vars
  PROVE  Numbered'
<1> USE DEF Shape, Numbered, IdsUnique, workerVars, linkVars, Served
<1>1. ASSUME NEW l \in Links, PickWorker(l) PROVE Numbered'
  <2>1. PICK w : pick' = [pick EXCEPT ![l] = w]
    BY <1>1 DEF PickWorker
  <2> QED BY <1>1, <2>1 DEF PickWorker
<1>2. ASSUME NEW l \in Links, CheckFull(l) PROVE Numbered'
  BY <1>2 DEF CheckFull, Refused
<1>3. ASSUME NEW l \in Links, NEW w \in Workers, Allocate(l, w) PROVE Numbered'
  <2>1. CASE NoSession(w)
    BY <1>3, <2>1 DEF Allocate, Refused
  <2>2. CASE ~NoSession(w)
    <3>1. NextId(w) = count[w] + 1
      BY <2>2, NextIdIsNext
    <3>2. /\ count' = [count EXCEPT ![w] = count[w] + 1]
          /\ id' = [id EXCEPT ![l] = count[w] + 1]
          /\ pc' = [pc EXCEPT ![l] = "assign"]
          /\ pick' = pick /\ pick[l] = w
      BY <1>3, <2>2, <3>1 DEF Allocate
    <3>3. Served' = Served \cup {l}
      BY <3>2
    <3>4. \A m \in Served' : id'[m] <= count'[pick'[m]]
      BY <3>2, <3>3
    <3>5. \A m \in Served : m # l /\ pick[m] = w => id'[m] # id'[l]
      BY <3>2
    <3> QED BY <3>2, <3>3, <3>4, <3>5
  <2> QED BY <2>1, <2>2
<1>4. ASSUME NEW l \in Links, Assign(l) PROVE Numbered'
  BY <1>4 DEF Assign
<1>5. ASSUME NEW l \in Links, FetchEnds(l) PROVE Numbered'
  BY <1>5 DEF FetchEnds
<1>6. ASSUME NEW l \in Links, PeerEnds(l) PROVE Numbered'
  BY <1>6 DEF PeerEnds
<1>7. CASE CleanupTask
  BY <1>7 DEF CleanupTask
<1>8. ASSUME NEW w \in Workers, ConnectionEnds(w) \/ MonitorLooks(w) \/ WorkerStep(w)
      PROVE Numbered'
  BY <1>8 DEF ConnectionEnds, MonitorLooks, WorkerStep, MonitorCloses, MonitorDone, MonitorEnds
<1>9. CASE UNCHANGED vars
  BY <1>9 DEF vars
<1> QED
  BY <1>1, <1>2, <1>3, <1>4, <1>5, <1>6, <1>7, <1>8, <1>9 DEF Next, LinkStep

(* No two links ever get the same session id in one worker, although       *)
(* Allocate computes it in 16 bits: the limit is reached before it wraps.  *)
THEOREM IdsNeverReused == Limited => (Spec => []IdsUnique)
<1> SUFFICES ASSUME Limited PROVE Spec => []IdsUnique
  OBVIOUS
<1>1. Init => Shape /\ Numbered
  BY ShapeInit DEF Init, Numbered, IdsUnique, Served
<1>2. Shape /\ Numbered /\ [Next]_vars => (Shape /\ Numbered)'
  BY ShapeStep, NumberedStep
<1>3. Numbered => IdsUnique
  BY DEF Numbered
<1> QED BY <1>1, <1>2, <1>3, PTL DEF Spec

-----------------------------------------------------------------------------
(* The limits of the strategy.                                             *)

Bounded ==
  \A w \in Workers :
    /\ IsFiniteSet(sessions[w])
    /\ MaxConcurrency > 0 => Cardinality(sessions[w]) <= MaxConcurrency
    /\ count[w] <= MaxConnection

(* Steps that only remove sessions keep the bounds.                        *)
LEMMA BoundedSmaller ==
  ASSUME Bounded, Shape, count' = count, sessions' \in [Workers -> SUBSET Links],
         \A w \in Workers : sessions'[w] \subseteq sessions[w]
  PROVE  Bounded'
<1> SUFFICES ASSUME NEW w \in Workers
             PROVE  /\ IsFiniteSet(sessions'[w])
                    /\ MaxConcurrency > 0 => Cardinality(sessions'[w]) <= MaxConcurrency
                    /\ count'[w] <= MaxConnection
  BY DEF Bounded
<1>1. IsFiniteSet(sessions'[w]) /\ Cardinality(sessions'[w]) <= Cardinality(sessions[w])
  BY FS_Subset DEF Bounded
<1>2. Cardinality(sessions'[w]) \in Nat /\ Cardinality(sessions[w]) \in Nat
  BY <1>1, FS_CardinalityType DEF Bounded
<1> QED BY <1>1, <1>2, ClientAssumption DEF Bounded, ClientAssumption

(* Allocate checks the limits again under the lock of the manager.         *)
LEMMA BoundedAllocate ==
  ASSUME Limited, Bounded, Shape, NEW l \in Links, NEW w \in Workers, Allocate(l, w)
  PROVE  Bounded'
<1>1. CASE NoSession(w)
  BY <1>1 DEF Allocate, Bounded
<1>2. CASE ~NoSession(w)
  <2>1. /\ count' = [count EXCEPT ![w] = count[w] + 1]
        /\ sessions' = [sessions EXCEPT ![w] = sessions[w] \cup {l}]
    BY <1>2, NextIdIsNext DEF Allocate
  <2>2. /\ IsFiniteSet(sessions[w] \cup {l})
        /\ Cardinality(sessions[w] \cup {l}) <= Cardinality(sessions[w]) + 1
    <3>1. IsFiniteSet(sessions[w])
      BY DEF Bounded
    <3>2. /\ IsFiniteSet(sessions[w] \cup {l})
          /\ \/ Cardinality(sessions[w] \cup {l}) = Cardinality(sessions[w])
             \/ Cardinality(sessions[w] \cup {l}) = Cardinality(sessions[w]) + 1
      BY <3>1, FS_AddElement
    <3> QED BY <3>1, <3>2, FS_CardinalityType
  <2>3. Cardinality(sessions[w]) \in Nat /\ Cardinality(sessions[w] \cup {l}) \in Nat
    BY <2>2, FS_CardinalityType DEF Bounded
  <2>4. MaxConcurrency > 0 => Cardinality(sessions[w]) < MaxConcurrency
    BY <1>2, <2>3, ClientAssumption DEF NoSession, ClientAssumption
  <2>5. count[w] < MaxConnection
    <3>1. IdSpace \in Nat /\ MaxConnection \in Nat /\ count[w] \in Nat
      BY ClientAssumption DEF ClientAssumption, Shape
    <3>2. MaxConnection % IdSpace = MaxConnection
      BY <3>1, SmallModulo DEF Limited
    <3> QED BY <1>2, <3>1, <3>2 DEF NoSession, Limited
  <2>6. MaxConcurrency > 0 => Cardinality(sessions[w] \cup {l}) <= MaxConcurrency
    BY <2>2, <2>3, <2>4, ClientAssumption DEF ClientAssumption
  <2>7. count[w] + 1 <= MaxConnection
    BY <2>5, ClientAssumption DEF ClientAssumption, Shape
  <2> QED BY <2>1, <2>2, <2>6, <2>7 DEF Bounded, Shape
<1> QED BY <1>1, <1>2

(* Every step keeps the bounds.                                            *)
LEMMA BoundedStep ==
  ASSUME Limited, Bounded, Shape, Shape', [Next]_vars
  PROVE  Bounded'
<1> USE DEF workerVars, linkVars
<1>1. ASSUME NEW l \in Links, NEW w \in Workers, Allocate(l, w) PROVE Bounded'
  BY <1>1, BoundedAllocate
<1>2. ASSUME NEW l \in Links, FetchEnds(l) \/ PeerEnds(l) PROVE Bounded'
  <2>1. count' = count /\ \A w \in Workers : sessions'[w] \subseteq sessions[w]
    BY <1>2 DEF FetchEnds, PeerEnds, Remove, Shape
  <2> QED BY <2>1, BoundedSmaller DEF Shape
<1>3. ASSUME NEW w \in Workers, MonitorEnds(w) PROVE Bounded'
  <2>1. count' = count /\ \A v \in Workers : sessions'[v] \subseteq sessions[v]
    BY <1>3 DEF MonitorEnds, Shape
  <2> QED BY <2>1, BoundedSmaller DEF Shape
<1>4. CASE UNCHANGED <<sessions, count>>
  BY <1>4 DEF Bounded
<1>5. ASSUME NEW l \in Links, PickWorker(l) \/ CheckFull(l) \/ Assign(l)
      PROVE UNCHANGED <<sessions, count>>
  BY <1>5 DEF PickWorker, CheckFull, Assign
<1>6. ASSUME NEW w \in Workers,
             ConnectionEnds(w) \/ MonitorLooks(w) \/ MonitorCloses(w) \/ MonitorDone(w)
      PROVE UNCHANGED <<sessions, count>>
  BY <1>6 DEF ConnectionEnds, MonitorLooks, MonitorCloses, MonitorDone
<1>7. CleanupTask \/ UNCHANGED vars => UNCHANGED <<sessions, count>>
  BY DEF CleanupTask, vars
<1> QED
  BY <1>1, <1>2, <1>3, <1>4, <1>5, <1>6, <1>7 DEF Next, LinkStep, WorkerStep

(* However many goroutines pass the check of Dispatch together, Allocate   *)
(* keeps the number of sessions within both limits of the strategy.        *)
THEOREM LimitsKept == Limited => (Spec => []WithinLimits)
<1> SUFFICES ASSUME Limited PROVE Spec => []WithinLimits
  OBVIOUS
<1>1. Init => Shape /\ Bounded
  <2>1. SUFFICES ASSUME Init PROVE Bounded
    BY ShapeInit
  <2>2. IsFiniteSet({}) /\ Cardinality({}) = 0
    BY FS_EmptySet
  <2> QED BY <2>1, <2>2, ClientAssumption DEF Init, Bounded, ClientAssumption
<1>2. Shape /\ Bounded /\ [Next]_vars => (Shape /\ Bounded)'
  BY ShapeStep, BoundedStep
<1>3. Bounded => WithinLimits
  BY DEF Bounded, WithinLimits
<1> QED BY <1>1, <1>2, <1>3, PTL DEF Spec

-----------------------------------------------------------------------------
(* Flows that move between connections (module Xudp).                      *)

CONSTANT MaxNew
VARIABLES map, status, mux, frame, entry, link, dead, session, error, handler, gone

Xudp == INSTANCE Xudp WITH pc <- frame

(* The New frames that work on an entry.                                   *)
Working == {n \in Xudp!News : frame[n] \in {"detach", "rewrite", "dispatch", "install"}}

(* An entry somebody works on is in the map, is marked, and is nobody      *)
(* else's; but for the first step its old session is closed.               *)
Owned ==
  /\ \A n \in Working : entry[n] \in Xudp!News /\ map = entry[n] /\ status[map] = "Initializing"
  /\ \A n, m \in Working : n = m
  /\ \A n \in Working : frame[n] # "detach" =>
       mux[entry[n]] = Xudp!None \/ session[mux[entry[n]]] = "closed"

(* A session that is not closed is the one its entry names, and the entry  *)
(* is in the map.                                                          *)
Attached ==
  \A n \in Xudp!News : session[n] \in {"open", "stopping"} =>
    entry[n] = map /\ map # Xudp!None /\ mux[map] = n /\ status[map] # "Expiring"

(* A frame that has not come has no entry; and only an entry that is still *)
(* marked may have no session.                                             *)
Fresh ==
  /\ \A n \in Xudp!News : frame[n] = "new" =>
       /\ mux[n] = Xudp!None /\ map # n /\ status[n] = "Initializing" /\ session[n] = "none"
       /\ \A m \in Xudp!News : entry[m] # n
  /\ \A x \in Xudp!News : status[x] # "Initializing" => mux[x] # Xudp!None
  /\ \A n \in Xudp!News : n \in gone => frame[n] \in {"back", "broken"}
  /\ \A n \in Xudp!News : frame[n] = "add" => session[n] # "none"

(* The types that matter.                                                  *)
XudpShape ==
  /\ map \in Xudp!News \cup {Xudp!None}
  /\ status \in [Xudp!News -> {"Initializing", "Active", "Expiring"}]
  /\ mux \in [Xudp!News -> Xudp!News \cup {Xudp!None}]
  /\ frame \in [Xudp!News -> {"new", "detach", "rewrite", "dispatch", "install", "add", "back", "broken"}]
  /\ entry \in [Xudp!News -> Xudp!News \cup {Xudp!None}]
  /\ session \in [Xudp!News -> {"none", "open", "stopping", "closed"}]

XudpInv == XudpShape /\ Owned /\ Attached /\ Fresh /\ Xudp!MuxIsSet

(* None is not a frame.                                                    *)
LEMMA NoneIsNoNew == MaxNew \in Nat => Xudp!None \notin Xudp!News
BY DEF Xudp!None, Xudp!News

(* A session that begins to close stays attached until it is closed, so    *)
(* that nothing else changes; gone, handler and error do not matter.       *)
LEMMA XudpCloses ==
  ASSUME XudpInv, NEW n \in Xudp!News, session[n] = "open",
         session' = [session EXCEPT ![n] = "stopping"],
         UNCHANGED <<map, status, mux, frame, entry>>,
         \A m \in Xudp!News : m \in gone' => frame[m] \in {"back", "broken"}
  PROVE  XudpInv'
<1> USE DEF XudpInv
<1>1. /\ session' \in [Xudp!News -> {"none", "open", "stopping", "closed"}]
      /\ session'[n] = "stopping" /\ \A m \in Xudp!News \ {n} : session'[m] = session[m]
  BY DEF XudpShape
<1>2. XudpShape' /\ Working' = Working
  BY <1>1 DEF XudpShape, Working
<1>3. Owned'
  BY <1>1, <1>2 DEF Owned, XudpShape, Xudp!None, Working
<1>4. Attached'
  BY <1>1 DEF Attached
<1>5. Fresh' /\ Xudp!MuxIsSet'
  BY <1>1 DEF Fresh, Xudp!MuxIsSet
<1>. QED  BY <1>2, <1>3, <1>4, <1>5

(* Steps that move a frame and change nothing else that matters.           *)
LEMMA XudpMoves ==
  ASSUME XudpInv, NEW n \in Xudp!News, NEW to,
         frame' = [frame EXCEPT ![n] = to],
         \/ frame[n] = "detach" /\ to = "rewrite" /\ session[mux[entry[n]]] = "closed"
         \/ frame[n] = "rewrite" /\ to \in {"dispatch", "install"}
         \/ frame[n] = "dispatch" /\ to = "install"
         \/ frame[n] = "add" /\ to = "back"
         \/ frame[n] = "new" /\ to \in {"back", "broken"},
         UNCHANGED <<map, status, mux, entry, session>>,
         gone' = gone \/ (gone' = gone \cup {n} /\ to = "broken")
  PROVE  XudpInv'
<1> USE DEF XudpInv
<1>1. /\ frame'[n] = to /\ \A m \in Xudp!News \ {n} : frame'[m] = frame[m]
      /\ XudpShape'
  BY DEF XudpShape
<1>2. \A m \in Xudp!News : m \in Working' => m \in Working
  BY <1>1 DEF Working
<1>3. Owned'
  BY <1>1, <1>2 DEF Owned, Working
<1>4. Attached'
  BY DEF Attached
<1>5. Fresh'
  BY <1>1 DEF Fresh
<1>6. Xudp!MuxIsSet'
  BY <1>1 DEF Xudp!MuxIsSet
<1>. QED  BY <1>1, <1>3, <1>4, <1>5, <1>6

(* handleStatusNew.                                                        *)
LEMMA XudpFrames ==
  ASSUME MaxNew \in Nat, XudpInv, NEW n \in Xudp!News, Xudp!Frame(n)
  PROVE  XudpInv'
<1> USE NoneIsNoNew DEF XudpInv
<1>1. CASE Xudp!Lookup(n)
  <2>. /\ frame[n] = "new" /\ UNCHANGED <<mux, session, gone>>
    BY <1>1 DEF Xudp!Lookup
  <2>1. CASE map = Xudp!None
    <3>1. /\ map' = n /\ entry' = [entry EXCEPT ![n] = n]
          /\ frame' = [frame EXCEPT ![n] = "dispatch"] /\ status' = status
      BY <1>1, <2>1 DEF Xudp!Lookup, Xudp!Goto
    <3>2. /\ frame'[n] = "dispatch" /\ \A m \in Xudp!News \ {n} : frame'[m] = frame[m]
          /\ entry'[n] = n /\ \A m \in Xudp!News \ {n} : entry'[m] = entry[m]
          /\ XudpShape'
      BY <3>1 DEF XudpShape
    <3>3. Working = {} /\ \A m \in Xudp!News : session[m] \notin {"open", "stopping"}
      BY <2>1 DEF Owned, Attached
    <3>4. \A m \in Xudp!News : m \in Working' => m = n
      BY <3>2, <3>3 DEF Working
    <3>5. Owned'
      BY <3>1, <3>2, <3>4 DEF Owned, Fresh, Working
    <3>6. Attached'
      BY <3>3 DEF Attached
    <3>7. Fresh'
      BY <3>1, <3>2 DEF Fresh
    <3>8. Xudp!MuxIsSet'
      BY <3>2 DEF Xudp!MuxIsSet
    <3>. QED  BY <3>2, <3>5, <3>6, <3>7, <3>8
  <2>2. CASE map # Xudp!None /\ status[map] = "Initializing"
    <3>1. frame' = [frame EXCEPT ![n] = "back"] /\ UNCHANGED <<map, entry, status>>
      BY <1>1, <2>2 DEF Xudp!Lookup, Xudp!Goto
    <3>. QED  BY <3>1, XudpMoves, ZenonT(60)
  <2>3. CASE map # Xudp!None /\ status[map] # "Initializing"
    <3>1. /\ status' = [status EXCEPT ![map] = "Initializing"]
          /\ entry' = [entry EXCEPT ![n] = map]
          /\ frame' = [frame EXCEPT ![n] = "detach"] /\ map' = map
      BY <1>1, <2>3 DEF Xudp!Lookup, Xudp!Goto
    <3>2. /\ frame'[n] = "detach" /\ \A m \in Xudp!News \ {n} : frame'[m] = frame[m]
          /\ entry'[n] = map /\ \A m \in Xudp!News \ {n} : entry'[m] = entry[m]
          /\ map \in Xudp!News
          /\ status'[map] = "Initializing" /\ \A x \in Xudp!News \ {map} : status'[x] = status[x]
          /\ XudpShape'
      BY <2>3, <3>1 DEF XudpShape
    <3>3. Working = {}
      BY <2>3 DEF Owned
    <3>4. \A m \in Xudp!News : m \in Working' => m = n
      BY <3>2, <3>3 DEF Working
    <3>5. Owned'
      BY <3>1, <3>2, <3>4 DEF Owned, Working
    <3>6. Attached'
      BY <3>1, <3>2 DEF Attached, Fresh
    <3>7. Fresh'
      BY <2>3, <3>1, <3>2 DEF Fresh
    <3>8. Xudp!MuxIsSet'
      BY <2>3, <3>2 DEF Xudp!MuxIsSet, Fresh, Owned, Working
    <3>. QED  BY <3>2, <3>5, <3>6, <3>7, <3>8
  <2>. QED  BY <2>1, <2>2, <2>3
<1>2. CASE Xudp!Detach(n)
  <2> DEFINE old == mux[entry[n]]
  <2>1. frame[n] = "detach" /\ UNCHANGED <<map, status, mux, entry, gone>>
    BY <1>2 DEF Xudp!Detach
  <2>2. old \in Xudp!News
    BY <2>1, SMTT(30) DEF Xudp!MuxIsSet, Owned, Working, XudpShape
  <2>3. CASE session[old] = "open" /\ Xudp!StartClose(old) /\ UNCHANGED frame
    <3>1. session' = [session EXCEPT ![old] = "stopping"]
      BY <2>3 DEF Xudp!StartClose
    <3>. QED  BY <2>1, <2>2, <2>3, <3>1, XudpCloses, Zenon DEF Fresh
  <2>4. CASE session[old] = "closed" /\ Xudp!Goto(n, "rewrite") /\ UNCHANGED session
    BY <2>1, <2>4, XudpMoves, Zenon DEF Xudp!Goto
  <2>. QED  BY <1>2, <2>3, <2>4, SMTT(30) DEF Xudp!Detach
<1>3. CASE Xudp!Rewrite(n)
  <2>1. /\ frame[n] = "rewrite" /\ UNCHANGED <<map, status, mux, entry, session, gone>>
        /\ \E to \in {"dispatch", "install"} : frame' = [frame EXCEPT ![n] = to]
    BY <1>3 DEF Xudp!Rewrite, Xudp!Goto
  <2>. QED  BY <2>1, XudpMoves, Zenon
<1>4. CASE Xudp!Dispatch(n)
  <2>1. frame[n] = "dispatch" /\ UNCHANGED <<status, mux, entry, session, gone>>
    BY <1>4 DEF Xudp!Dispatch
  <2>2. CASE frame' = [frame EXCEPT ![n] = "install"] /\ map' = map
    BY <2>1, <2>2, XudpMoves, ZenonT(60)
  <2>3. CASE frame' = [frame EXCEPT ![n] = "broken"] /\ map' = Xudp!None
    <3>1. /\ frame'[n] = "broken" /\ \A m \in Xudp!News \ {n} : frame'[m] = frame[m]
          /\ XudpShape'
      BY <2>1, <2>3 DEF XudpShape
    <3>2. Working' = {} /\ n \in Working
      BY <2>1, <3>1 DEF Working, Owned
    <3>3. \A m \in Xudp!News : session[m] \notin {"open", "stopping"}
      BY <2>1, <3>2 DEF Attached, Owned
    <3>4. Owned' /\ Attached'
      BY <2>1, <3>2, <3>3, SMTT(30) DEF Owned, Attached
    <3>5. Fresh' /\ Xudp!MuxIsSet'
      BY <2>1, <2>3, <3>1, SMTT(30) DEF Fresh, Xudp!MuxIsSet
    <3>. QED  BY <3>1, <3>4, <3>5
  <2>. QED  BY <1>4, <2>2, <2>3 DEF Xudp!Dispatch, Xudp!Goto
<1>5. CASE Xudp!Install(n)
  <2>1. /\ frame[n] = "install" /\ UNCHANGED <<map, entry, gone>>
        /\ mux' = [mux EXCEPT ![entry[n]] = n] /\ status' = [status EXCEPT ![entry[n]] = "Active"]
        /\ session' = [session EXCEPT ![n] = "open"] /\ frame' = [frame EXCEPT ![n] = "add"]
    BY <1>5 DEF Xudp!Install, Xudp!Goto
  <2>2. n \in Working /\ entry[n] = map /\ map \in Xudp!News
    BY <2>1 DEF Working, Owned
  <2>3. /\ frame'[n] = "add" /\ \A m \in Xudp!News \ {n} : frame'[m] = frame[m]
        /\ session'[n] = "open" /\ \A m \in Xudp!News \ {n} : session'[m] = session[m]
        /\ mux'[map] = n /\ \A x \in Xudp!News \ {map} : mux'[x] = mux[x]
        /\ status'[map] = "Active" /\ \A x \in Xudp!News \ {map} : status'[x] = status[x]
        /\ XudpShape'
    BY <2>1, <2>2, SMTT(30) DEF XudpShape
  <2>4. Working' = {}
    BY <2>2, <2>3, SMTT(30) DEF Working, Owned
  <2>5. \A m \in Xudp!News : session[m] \notin {"open", "stopping"}
    BY <2>1, <2>2, SMTT(30) DEF Attached, Owned
  <2>6. Owned' /\ Attached'
    BY <2>1, <2>2, <2>3, <2>4, <2>5, SMTT(30) DEF Owned, Attached
  <2>7. Fresh'
    BY <2>1, <2>2, <2>3 DEF Fresh
  <2>8. Xudp!MuxIsSet'
    BY <2>4 DEF Xudp!MuxIsSet, Working
  <2>. QED  BY <2>3, <2>6, <2>7, <2>8
<1>6. CASE Xudp!Add(n)
  <2>1. frame[n] = "add" /\ n \notin gone
    BY <1>6 DEF Xudp!Add, Fresh
  <2>2. /\ frame' = [frame EXCEPT ![n] = "back"]
        /\ UNCHANGED <<map, status, mux, entry, session, gone>>
    BY <1>6, <2>1 DEF Xudp!Add, Xudp!Goto
  <2>. QED  BY <2>1, <2>2, XudpMoves, Zenon
<1>. QED  BY <1>1, <1>2, <1>3, <1>4, <1>5, <1>6 DEF Xudp!Frame

(* Session.Close comes to its end: the entry expires, unless somebody is   *)
(* about to attach it again.                                               *)
LEMMA XudpFinishes ==
  ASSUME XudpInv, NEW n \in Xudp!News, Xudp!FinishClose(n)
  PROVE  XudpInv'
<1> USE DEF XudpInv
<1>1. /\ session[n] = "stopping" /\ session' = [session EXCEPT ![n] = "closed"]
      /\ status' = [status EXCEPT ![entry[n]] = Xudp!Expire(entry[n])]
      /\ UNCHANGED <<map, mux, frame, entry, gone>>
  BY DEF Xudp!FinishClose
<1>2. entry[n] = map /\ map \in Xudp!News /\ mux[map] = n /\ status[map] # "Expiring"
  BY <1>1 DEF Attached, XudpShape
<1>3. /\ session'[n] = "closed" /\ \A m \in Xudp!News \ {n} : session'[m] = session[m]
      /\ status'[map] = Xudp!Expire(map)
      /\ \A x \in Xudp!News \ {map} : status'[x] = status[x]
      /\ XudpShape'
  BY <1>1, <1>2 DEF XudpShape, Xudp!Expire
<1>4. status[map] = "Initializing" => status'[map] = "Initializing"
  BY <1>3, SMTT(30) DEF Xudp!Expire
<1>5. Owned'
  BY <1>1, <1>2, <1>3, <1>4, SMTT(30) DEF Owned, Working, XudpShape, Xudp!None
<1>6. Attached'
  BY <1>1, <1>2, <1>3, SMTT(30) DEF Attached
<1>7. Fresh' /\ Xudp!MuxIsSet'
  BY <1>1, <1>2, <1>3, SMTT(30) DEF Fresh, Xudp!MuxIsSet, Xudp!Expire
<1>. QED  BY <1>3, <1>5, <1>6, <1>7

(* The other steps: handlers, the ends of sessions, workers and links, and *)
(* the cleaning goroutine.                                                 *)
LEMMA XudpOthers ==
  ASSUME MaxNew \in Nat, XudpInv,
         \/ \E n \in Xudp!News : Xudp!Handle(n) \/ Xudp!End(n) \/ Xudp!WorkerEnds(n) \/ Xudp!TargetEnds(n)
         \/ Xudp!Clean
         \/ UNCHANGED Xudp!vars
  PROVE  XudpInv'
<1> USE NoneIsNoNew DEF XudpInv
<1>1. ASSUME UNCHANGED <<map, status, mux, frame, entry, session, gone>> PROVE XudpInv'
  BY <1>1, SMTT(30) DEF XudpShape, Owned, Attached, Fresh, Xudp!MuxIsSet, Working
<1>2. ASSUME NEW n \in Xudp!News, session[n] = "open", Xudp!StartClose(n),
             UNCHANGED <<map, status, mux, frame, entry, gone>>
      PROVE  XudpInv'
  BY <1>2, XudpCloses, ZenonT(60) DEF Xudp!StartClose, Fresh
<1>3. ASSUME NEW n \in Xudp!News, Xudp!Handle(n) PROVE XudpInv'
  BY <1>1, <1>2, <1>3, SMTT(30) DEF Xudp!Handle, Xudp!HandlerReads, Xudp!HandlerWrites, Xudp!HandlerExits
<1>4. ASSUME NEW n \in Xudp!News, Xudp!End(n) PROVE XudpInv'
  BY <1>2, <1>4 DEF Xudp!End
<1>5. ASSUME NEW n \in Xudp!News, Xudp!WorkerEnds(n) PROVE XudpInv'
  <2>1. /\ gone' = gone \cup {n} /\ UNCHANGED <<map, status, mux, entry>>
        /\ frame[n] \in {"new", "back", "broken"}
        /\ frame' = [frame EXCEPT ![n] = IF frame[n] = "new" THEN "broken" ELSE frame[n]]
    BY <1>5 DEF Xudp!WorkerEnds, Xudp!Goto
  <2>2. CASE frame[n] = "new"
    <3>1. session' = session
      BY <1>5, <2>2 DEF Xudp!WorkerEnds, Fresh
    <3>. QED  BY <2>1, <2>2, <3>1, XudpMoves, ZenonT(60)
  <2>3. CASE frame[n] # "new"
    <3>1. frame' = frame
      BY <2>1, <2>3 DEF XudpShape
    <3>2. CASE session[n] = "open"
      <4>1. session' = [session EXCEPT ![n] = "stopping"]
        BY <1>5, <3>2 DEF Xudp!WorkerEnds, Xudp!StartClose
      <4>. QED  BY <2>1, <2>3, <3>1, <3>2, <4>1, XudpCloses, ZenonT(60) DEF Fresh
    <3>3. CASE session[n] # "open"
      <4>1. session' = session
        BY <1>5, <3>3, ZenonT(60) DEF Xudp!WorkerEnds
      <4>2. Fresh'
        BY <2>1, <2>3, <3>1, <4>1, ZenonT(60) DEF Fresh
      <4>. QED  BY <2>1, <3>1, <4>1, <4>2, SMTT(30) DEF XudpShape, Owned, Attached, Xudp!MuxIsSet, Working
    <3>. QED  BY <3>2, <3>3
  <2>. QED  BY <2>2, <2>3
<1>6. ASSUME NEW n \in Xudp!News, Xudp!TargetEnds(n) PROVE XudpInv'
  BY <1>1, <1>6, ZenonT(60) DEF Xudp!TargetEnds
<1>7. CASE Xudp!Clean
  <2>1. /\ map # Xudp!None /\ status[map] = "Expiring" /\ map' = Xudp!None
        /\ UNCHANGED <<status, mux, frame, entry, session, gone>>
    BY <1>7, ZenonT(60) DEF Xudp!Clean
  <2>2. Working = {} /\ \A m \in Xudp!News : session[m] \notin {"open", "stopping"}
    BY <2>1, Zenon DEF Owned, Attached
  <2>3. Working' = {}
    BY <2>1, <2>2 DEF Working
  <2>. QED  BY <2>1, <2>2, <2>3, SMTT(30) DEF XudpShape, Owned, Attached, Fresh, Xudp!MuxIsSet
<1>8. CASE UNCHANGED Xudp!vars
  BY <1>1, <1>8 DEF Xudp!vars
<1>. QED  BY <1>3, <1>4, <1>5, <1>6, <1>7, <1>8, SMTT(30)

(* handleStatusNew, Session.Close and the cleaning goroutine: whichever    *)
(* connections a flow moves between, and however many New frames for it    *)
(* meet, an open session is the one its entry in XUDPManager.Map names,    *)
(* which the cleaner leaves alone, and no frame finds an entry whose Mux   *)
(* is nil.                                                                 *)
THEOREM FlowsAreFound ==
  Xudp!XudpAssumption => (Xudp!Spec => [](Xudp!OpenIsFound /\ Xudp!MuxIsSet))
<1> SUFFICES ASSUME MaxNew \in Nat
             PROVE  Xudp!Spec => [](Xudp!OpenIsFound /\ Xudp!MuxIsSet)
  BY DEF Xudp!XudpAssumption
<1>1. Xudp!Init => XudpInv
  BY NoneIsNoNew DEF Xudp!Init, XudpInv, XudpShape, Owned, Attached, Fresh, Xudp!MuxIsSet, Working
<1>2. XudpInv /\ [Xudp!Next]_(Xudp!vars) => XudpInv'
  BY XudpFrames, XudpFinishes, XudpOthers DEF Xudp!Next
<1>3. XudpInv => Xudp!OpenIsFound /\ Xudp!MuxIsSet
  BY DEF XudpInv, Attached, Xudp!OpenIsFound
<1>. QED  BY <1>1, <1>2, <1>3, PTL DEF Xudp!Spec

-----------------------------------------------------------------------------
(* The frames of one connection (module MuxFrames, which has the proof).   *)

CONSTANTS Sessions, Pieces, LinkCap
VARIABLES wires, sess, copier, taken, sent, got, reply

Conn == INSTANCE MuxFrames WITH link <- wires

(* What mux carries arrives: the frames of TCP sessions over one           *)
(* connection, and the packets of an XUDP flow over several.               *)
FlowsAreWhole ==
  /\ Conn!CompleteAtEnd /\ Conn!InOrder
  /\ Xudp!OpenIsFound /\ Xudp!MuxIsSet

(* The two together: a connection of any size and a flow of any length.    *)
THEOREM FlowsWhole ==
  Conn!FramesAssumption /\ Xudp!XudpAssumption => (Conn!Spec /\ Xudp!Spec => []FlowsAreWhole)
BY Conn!SessionsAreWhole, FlowsAreFound, PTL DEF FlowsAreWhole
=============================================================================
