------------------------------ MODULE MuxClient ------------------------------
(***************************************************************************)
(* The client side of mux (common/mux/client.go, session.go): how the      *)
(* ClientManager finds a worker for a link, how a worker's SessionManager  *)
(* hands out sessions within its limits, and how workers and sessions are  *)
(* closed.                                                                 *)
(*                                                                         *)
(* Every link is dispatched by a goroutine of its own.  What the lock of   *)
(* the picker or of a session manager protects is one step; the checks     *)
(* Dispatch makes before Allocate and the assignment of the link to the    *)
(* session after it hold no lock and are steps of their own.               *)
(***************************************************************************)
EXTENDS Integers, Sequences, FiniteSets

CONSTANTS
  Links,             \* the links to dispatch
  MaxConcurrency, MaxConnection,   \* ClientStrategy; 0 is no limit
  IdSpace,           \* 2^16 in the code: session ids and count are uint16
  Tries,             \* 16 in the code
  MaxWorkers,        \* bound: workers the factory creates
  Failures           \* whether connections fail and idle workers close

ASSUME ClientAssumption ==
  /\ MaxConcurrency \in Nat /\ MaxConnection \in Nat /\ Tries \in Nat \ {0}
  /\ IdSpace \in Nat \ {0} /\ MaxWorkers \in Nat /\ Failures \in BOOLEAN

Workers == 1..MaxWorkers

VARIABLES
  workers,    \* IncrementalWorkerPicker.workers
  made,       \* number of workers created
  done,       \* workers whose done instance is closed
  closed,     \* workers whose session manager is closed
  sessions,   \* sessions[w]: the links that have a session in the manager of w
  count,      \* count[w]
  monitor,    \* monitor[w]: where the monitor goroutine is
  pc, pick, tries, id,   \* of each link: its goroutine, worker, attempts, session id
  assigned,   \* links assigned to their session
  over,       \* links whose session is closed
  released    \* links that were interrupted and closed by Session.Close

vars == <<workers, made, done, closed, sessions, count, monitor, pc, pick, tries, id,
          assigned, over, released>>
workerVars == <<workers, made, done, closed, monitor>>
linkVars   == <<assigned, over, released>>

TypeOK ==
  /\ workers \in Seq(Workers) /\ made \in 0..MaxWorkers
  /\ done \subseteq Workers /\ closed \subseteq Workers
  /\ sessions \in [Workers -> SUBSET Links]
  /\ count \in [Workers -> 0..(IdSpace - 1)]
  /\ monitor \in [Workers -> {"wait", "empty", "close", "off"}]
  /\ pc \in [Links -> {"pick", "check", "allocate", "assign", "fetch", "off", "failed"}]
  /\ pick \in [Links -> Workers \cup {0}]
  /\ tries \in [Links -> 0..Tries]
  /\ id \in [Links -> 0..(IdSpace - 1)]
  /\ assigned \subseteq Links /\ over \subseteq Links /\ released \subseteq Links

Init ==
  /\ workers = <<>> /\ made = 0
  /\ done = {} /\ closed = {}
  /\ sessions = [w \in Workers |-> {}]
  /\ count = [w \in Workers |-> 0]
  /\ monitor = [w \in Workers |-> "wait"]
  /\ pc = [l \in Links |-> "pick"]
  /\ pick = [l \in Links |-> 0]
  /\ tries = [l \in Links |-> 0]
  /\ id = [l \in Links |-> 0]
  /\ assigned = {} /\ over = {} /\ released = {}

IsFull(w) ==
  \/ MaxConnection > 0 /\ count[w] >= MaxConnection
  \/ w \in done
  \/ MaxConcurrency > 0 /\ Cardinality(sessions[w]) >= MaxConcurrency

-----------------------------------------------------------------------------
(* IncrementalWorkerPicker.                                                *)

Cleanup == SelectSeq(workers, LAMBDA w : w \notin done)

Swap(s, i, j) == [s EXCEPT ![i] = s[j], ![j] = s[i]]

\* Mutant: the number of sessions is not looked at.
AvailableOpen(i) == workers[i] \notin done /\ \A j \in 1..(i - 1) : workers[j] \in done

\* The lowest index of a worker that is not full.
Available(i) == ~IsFull(workers[i]) /\ \A j \in 1..(i - 1) : IsFull(workers[j])

\* pickInternal swaps the available worker with the last, and then returns what
\* is at the available one's old index.
PickWorker(l) ==
  LET last == Len(workers)
  IN  /\ pc[l] = "pick"
      /\ \/ \E i \in 1..last :
              /\ Available(i)
              /\ workers' = Swap(workers, i, last)
              /\ pick' = [pick EXCEPT ![l] = workers'[i]]
              /\ UNCHANGED made
         \/ /\ \A i \in 1..last : IsFull(workers[i])
            /\ made < MaxWorkers
            /\ made' = made + 1
            /\ workers' = Append(Cleanup, made + 1)
            /\ pick' = [pick EXCEPT ![l] = made + 1]
      /\ pc' = [pc EXCEPT ![l] = "check"]
      /\ UNCHANGED <<done, closed, sessions, count, monitor, tries, id, linkVars>>

\* cleanupFunc of the periodic task.
CleanupTask ==
  /\ workers # Cleanup
  /\ workers' = Cleanup
  /\ UNCHANGED <<made, done, closed, sessions, count, monitor, pc, pick, tries, id, linkVars>>

-----------------------------------------------------------------------------
(* ClientManager.Dispatch and ClientWorker.Dispatch.                       *)

\* The worker refused; ClientManager.Dispatch tries again, Tries times in all.
Refused(l) ==
  /\ tries' = [tries EXCEPT ![l] = @ + 1]
  /\ pc' = [pc EXCEPT ![l] = IF tries'[l] = Tries THEN "failed" ELSE "pick"]

CheckFull(l) ==
  /\ pc[l] = "check"
  /\ IF IsFull(pick[l])
       THEN Refused(l)
       ELSE pc' = [pc EXCEPT ![l] = "allocate"] /\ UNCHANGED tries
  /\ UNCHANGED <<workerVars, sessions, count, pick, id, linkVars>>

\* Mutant: Allocate relies on the check of Dispatch.
ClosedOnly(w) == w \in closed

\* The condition under which Allocate returns nil.
NoSession(w) ==
  \/ w \in closed
  \/ MaxConcurrency > 0 /\ Cardinality(sessions[w]) >= MaxConcurrency
  \/ MaxConnection % IdSpace > 0 /\ count[w] >= MaxConnection % IdSpace

NextId(w) == (count[w] + 1) % IdSpace

Allocate(l, w) ==
  /\ pc[l] = "allocate" /\ pick[l] = w
  /\ IF NoSession(w)
       THEN Refused(l) /\ UNCHANGED <<sessions, count, id>>
       ELSE /\ count' = [count EXCEPT ![w] = NextId(w)]
            /\ id' = [id EXCEPT ![l] = NextId(w)]
            /\ sessions' = [sessions EXCEPT ![w] = @ \cup {l}]
            /\ pc' = [pc EXCEPT ![l] = "assign"]
            /\ UNCHANGED tries
  /\ UNCHANGED <<workerVars, pick, linkVars>>

\* s.input and s.output are set, and fetchInput is started.
Assign(l) ==
  /\ pc[l] = "assign"
  /\ assigned' = assigned \cup {l}
  /\ pc' = [pc EXCEPT ![l] = "fetch"]
  /\ UNCHANGED <<workerVars, sessions, count, pick, tries, id, over, released>>

-----------------------------------------------------------------------------
(* Session.Close.                                                          *)

\* The sessions of the links in ls are closed: what they were assigned is closed.
CloseSessions(ls) ==
  /\ over' = over \cup ls
  /\ released' = released \cup ((ls \ over) \cap assigned)

\* Remove, which a closed manager ignores.
Remove(l) ==
  sessions' = IF pick[l] \in closed THEN sessions
                                    ELSE [sessions EXCEPT ![pick[l]] = @ \ {l}]

\* fetchInput ends: Session.Close.
FetchEnds(l) ==
  /\ pc[l] = "fetch"
  /\ CloseSessions({l})
  /\ IF l \in over THEN UNCHANGED sessions ELSE Remove(l)
  /\ pc' = [pc EXCEPT ![l] = "off"]
  /\ UNCHANGED <<workerVars, count, pick, tries, id, assigned>>

\* The reader of the worker gets an End frame for a session it knows, or cannot
\* write to its output.
PeerEnds(l) ==
  /\ pc[l] = "fetch"
  /\ l \notin over
  /\ pick[l] \notin done \cup closed
  /\ CloseSessions({l})
  /\ Remove(l)
  /\ UNCHANGED <<workerVars, count, pc, pick, tries, id, assigned>>

-----------------------------------------------------------------------------
(* The worker's end.                                                       *)

\* The outbound's Process returns, or fetchOutput does.
ConnectionEnds(w) ==
  /\ Failures
  /\ w <= made /\ w \notin done
  /\ done' = done \cup {w}
  /\ UNCHANGED <<workers, made, closed, sessions, count, monitor, pc, pick, tries, id, linkVars>>

\* Mutant: the session manager closes without looking again.
MonitorHasty(w) ==
  /\ monitor[w] = "empty"
  /\ closed' = closed \cup {w}
  /\ monitor' = [monitor EXCEPT ![w] = "close"]
  /\ UNCHANGED <<workers, made, done, sessions, count, pc, pick, tries, id, linkVars>>

\* monitor every 16 seconds: Size, then CloseIfNoSession, then done.Close.
MonitorLooks(w) ==
  /\ Failures
  /\ w <= made
  /\ monitor[w] = "wait"
  /\ w \notin done
  /\ sessions[w] = {}
  /\ monitor' = [monitor EXCEPT ![w] = "empty"]
  /\ UNCHANGED <<workers, made, done, closed, sessions, count, pc, pick, tries, id, linkVars>>

MonitorCloses(w) ==
  /\ monitor[w] = "empty"
  /\ IF w \in closed \/ sessions[w] = {}
       THEN closed' = closed \cup {w} /\ monitor' = [monitor EXCEPT ![w] = "close"]
       ELSE UNCHANGED closed /\ monitor' = [monitor EXCEPT ![w] = "wait"]
  /\ UNCHANGED <<workers, made, done, sessions, count, pc, pick, tries, id, linkVars>>

MonitorDone(w) ==
  /\ monitor[w] = "close"
  /\ done' = done \cup {w}
  /\ monitor' = [monitor EXCEPT ![w] = "wait"]
  /\ UNCHANGED <<workers, made, closed, sessions, count, pc, pick, tries, id, linkVars>>

\* monitor after done: SessionManager.Close, unless it was closed for idleness.
MonitorEnds(w) ==
  /\ monitor[w] = "wait"
  /\ w \in done
  /\ IF w \in closed
       THEN UNCHANGED <<closed, sessions, over, released>>
       ELSE /\ closed' = closed \cup {w}
            /\ CloseSessions(sessions[w])
            /\ sessions' = [sessions EXCEPT ![w] = {}]
  /\ monitor' = [monitor EXCEPT ![w] = "off"]
  /\ UNCHANGED <<workers, made, done, count, pc, pick, tries, id, assigned>>

-----------------------------------------------------------------------------
LinkStep(l) ==
  PickWorker(l) \/ CheckFull(l) \/ (\E w \in Workers : Allocate(l, w)) \/ Assign(l)
WorkerStep(w) == MonitorCloses(w) \/ MonitorDone(w) \/ MonitorEnds(w)

Next ==
  \/ \E l \in Links : LinkStep(l) \/ FetchEnds(l) \/ PeerEnds(l)
  \/ CleanupTask
  \/ \E w \in Workers : ConnectionEnds(w) \/ MonitorLooks(w) \/ WorkerStep(w)

Spec == Init /\ [][Next]_vars

(* Goroutines run and tickers tick; links last as long as they like.       *)
Fairness ==
  /\ \A l \in Links : WF_vars(LinkStep(l))
  /\ \A w \in Workers : WF_vars(WorkerStep(w)) /\ WF_vars(MonitorLooks(w))

FairSpec == Spec /\ Fairness

-----------------------------------------------------------------------------
(* However many goroutines pass the check of Dispatch together, a worker   *)
(* has no more sessions than its strategy allows.                          *)
WithinLimits ==
  \A w \in Workers :
    /\ MaxConcurrency > 0 => Cardinality(sessions[w]) <= MaxConcurrency
    /\ MaxConnection > 0 => count[w] <= MaxConnection

(* No two links ever have the same session id in one worker.               *)
IdsUnique ==
  \A l, m \in Links :
    l # m /\ {l, m} \subseteq {k \in Links : pc[k] \in {"assign", "fetch", "off"}}
      => pick[l] # pick[m] \/ id[l] # id[m]

(* A worker that closes, for idleness or because its connection ended,     *)
(* leaves no session open behind it.                                       *)
NoneStranded ==
  \A l \in Links : pc[l] \in {"assign", "fetch"} /\ pick[l] \in closed => l \in over

(* While no connection fails, every link finds a worker, although          *)
(* pickInternal may return a full one and others compete for the rest.     *)
LinkFindsWorker == Failures \/ \A l \in Links : pc[l] # "failed"

(* A worker without sessions closes, so that its connection does.          *)
IdleWorkerEnds ==
  \A w \in Workers : w <= made /\ sessions[w] = {} ~> w \in done \/ sessions[w] # {}

(* session.go:163: "Close closes all resources associated with this        *)
(* session."  When a session is closed and its goroutine has ended, its    *)
(* link was closed.                                                        *)
ClosedIsReleased == \A l \in Links : l \in over /\ pc[l] = "off" => l \in released
=============================================================================
