------------------------------ MODULE KcpState -------------------------------
(***************************************************************************)
(* The goroutines of one end of an mKCP connection                         *)
(* (transport/internet/kcp/connection.go) that read and set its state: the *)
(* application's Close and Write, the packet input, and the two updaters,  *)
(* both of which run flush.  The state is an atomic variable, but every    *)
(* change is a read followed by SetState, and SetState stores first the    *)
(* state, then stateBeginTime; each of these is a step.  The peer may send *)
(* anything at any time.                                                   *)
(*                                                                         *)
(* flush takes the time once, at its start, and subtracts stateBeginTime   *)
(* and lastIncomingTime from it as uint32.  A time stamp that was written  *)
(* since then may be later than flush's time, and the difference wraps to  *)
(* a huge one: late[u] holds the stamps for which this may happen.         *)
(*                                                                         *)
(* An Updater's semaphore is free exactly while its goroutine does not     *)
(* run, so WakeUp starts the goroutine if it is "off" and is lost if not.  *)
(***************************************************************************)
EXTENDS Integers

CONSTANTS
  MaxCloses,    \* bound: calls of Close by the application
  MaxWrites,    \* bound: buffers the application writes
  Silences,     \* whether the peer may be silent for 30 seconds
  PeerCloses    \* whether the peer closes the connection

\* What the constants must satisfy.
StateAssumption ==
  MaxCloses \in Nat /\ MaxWrites \in Nat /\ {Silences, PeerCloses} \subseteq BOOLEAN

States   == {"Active", "ReadyToClose", "PeerClosed", "Terminating", "PeerTerminating",
             "Terminated"}
Updaters == {"data", "ping"}
Threads  == Updaters \cup {"close", "write", "input"}
Tests    == {"terminated", "idle", "empty", "terminating", "peerTerminating", "readyToClose"}
Resting  == {"off", "start", "loop", "output", "exit"}   \* an updater outside flush's tests
PCs      == Resting \cup Tests \cup {"switch", "store", "begin", "push", "wake", "terminate"}

VARIABLES
  state,
  expired,    \* whether the present state's timeout has run since stateBeginTime
  idle,       \* whether nothing came in for 30 seconds
  pending,    \* whether the sending window holds segments
  unsent,     \* whether one of them was never written to the network
  released,   \* whether Terminate has run
  late,       \* late[u]: stamps written since flush took the time
  closes, writes,
  pc,         \* pc[t]
  target,     \* target[t]: the argument of the SetState t is in
  resume      \* resume[t]: where t continues after SetState or Close

vars == <<state, expired, idle, pending, unsent, released, late, closes, writes, pc, target, resume>>

TypeOK ==
  /\ state \in States
  /\ expired \in BOOLEAN /\ idle \in BOOLEAN
  /\ pending \in BOOLEAN /\ unsent \in BOOLEAN /\ released \in BOOLEAN
  /\ late \in [Updaters -> SUBSET {"begin", "input"}]
  /\ closes \in 0..MaxCloses /\ writes \in 0..MaxWrites
  /\ pc \in [Threads -> PCs]
  /\ target \in [Threads -> States]
  /\ resume \in [Threads -> PCs]

\* Mutant: NewConnection does not wake the ping updater.
InitAsleep ==
  /\ state = "Active" /\ expired = FALSE /\ idle = FALSE
  /\ pending = FALSE /\ unsent = FALSE /\ released = FALSE
  /\ late = [u \in Updaters |-> {}]
  /\ closes = 0 /\ writes = 0
  /\ pc = [t \in Threads |-> "off"]
  /\ target = [t \in Threads |-> "Active"]
  /\ resume = [t \in Threads |-> "off"]

\* NewConnection wakes the ping updater.
Init ==
  /\ state = "Active" /\ expired = FALSE /\ idle = FALSE
  /\ pending = FALSE /\ unsent = FALSE /\ released = FALSE
  /\ late = [u \in Updaters |-> {}]
  /\ closes = 0 /\ writes = 0
  /\ pc = [t \in Threads |-> IF t = "ping" THEN "start" ELSE "off"]
  /\ target = [t \in Threads |-> "Active"]
  /\ resume = [t \in Threads |-> "off"]

Goto(t, to) == pc' = [pc EXCEPT ![t] = to]

\* pc of the updaters after WakeUp of those in woken.
WakeUp(p, woken) == [t \in Threads |-> IF t \in woken /\ p[t] = "off" THEN "start" ELSE p[t]]

\* Where flush has yet to compare its time with a stamp.
Before == [begin |-> PCs \ Resting, input |-> {"terminated", "idle"}]

\* late after the stamp was written.
Stamp(stamp) ==
  late' = [u \in Updaters |-> IF pc[u] \in Before[stamp] THEN late[u] \cup {stamp} ELSE late[u]]

\* Thread t calls SetState(s) and then goes on at next.
CallSetState(t, s, next) ==
  /\ pc' = [pc EXCEPT ![t] = "store"]
  /\ target' = [target EXCEPT ![t] = s]
  /\ resume' = [resume EXCEPT ![t] = next]

-----------------------------------------------------------------------------
(* SetState.                                                               *)

StoreState(t) ==
  /\ pc[t] = "store"
  /\ state' = target[t]
  /\ Goto(t, "begin")
  /\ UNCHANGED <<expired, idle, pending, unsent, released, late, closes, writes, target, resume>>

\* The rest of SetState; Terminate runs in a goroutine of its own.
BeginState(t) ==
  /\ pc[t] = "begin"
  /\ expired' = FALSE
  /\ Stamp("begin")
  /\ LET clears == target[t] \notin {"Active", "ReadyToClose"}
     IN  /\ pending' = (pending /\ ~clears)
         /\ unsent' = (unsent /\ ~clears)
  /\ LET back == [pc EXCEPT ![t] = resume[t]]
     IN  pc' = IF target[t] = "Terminated" THEN WakeUp(back, Updaters) ELSE back
  /\ released' = (released \/ target[t] = "Terminated")
  /\ target' = [target EXCEPT ![t] = "Active"]
  /\ resume' = [resume EXCEPT ![t] = "off"]
  /\ UNCHANGED <<state, idle, closes, writes>>

-----------------------------------------------------------------------------
(* Close, called by the application or by flush.                           *)

CallClose ==
  /\ pc["close"] = "off"
  /\ closes < MaxCloses
  /\ closes' = closes + 1
  /\ pc' = [pc EXCEPT !["close"] = "switch"]
  /\ resume' = [resume EXCEPT !["close"] = "off"]
  /\ UNCHANGED <<state, expired, idle, pending, unsent, released, late, writes, target>>

Close(t) ==
  /\ pc[t] = "switch"
  /\ \/ state = "Active" /\ CallSetState(t, "ReadyToClose", resume[t])
     \/ state = "PeerClosed" /\ CallSetState(t, "Terminating", resume[t])
     \/ state = "PeerTerminating" /\ CallSetState(t, "Terminated", resume[t])
     \/ /\ state \in {"ReadyToClose", "Terminating", "Terminated"}
        /\ Goto(t, resume[t])
        /\ resume' = [resume EXCEPT ![t] = "off"]
        /\ UNCHANGED target
  /\ UNCHANGED <<state, expired, idle, pending, unsent, released, late, closes, writes>>

-----------------------------------------------------------------------------
(* Input of one packet.                                                    *)

Arrival ==
  /\ pc["input"] = "off"
  /\ ~released
  /\ idle' = FALSE
  /\ Stamp("input")

\* A data segment, acknowledgement or ping that changes no state.  It may empty
\* the window; all but a ping wake the data updater.
InputPlain ==
  /\ Arrival
  /\ \/ ~unsent /\ pending' = FALSE
     \/ UNCHANGED pending
  /\ pc' \in {pc, WakeUp(pc, {"data"})}
  /\ UNCHANGED <<state, expired, unsent, released, closes, writes, target, resume>>

\* HandleOption of a segment with the close option; then it is done (a ping), or
\* wakes the data updater, or is a terminate command.
InputClose ==
  /\ PeerCloses /\ Arrival
  /\ \E next \in {"off", "wake", "terminate"} :
       \/ state = "ReadyToClose" /\ CallSetState("input", "Terminating", next)
       \/ state = "Active" /\ CallSetState("input", "PeerClosed", next)
  /\ UNCHANGED <<state, expired, pending, unsent, released, closes, writes>>

\* The switch of a terminate command.
InputTerminate ==
  /\ \/ PeerCloses /\ Arrival
     \/ pc["input"] = "terminate" /\ UNCHANGED <<idle, late>>
  /\ \/ state \in {"Active", "PeerClosed"} /\ CallSetState("input", "PeerTerminating", "off")
     \/ state = "ReadyToClose" /\ CallSetState("input", "Terminating", "off")
     \/ state = "Terminating" /\ CallSetState("input", "Terminated", "off")
     \/ /\ state \in {"PeerTerminating", "Terminated"}
        /\ Goto("input", "off")
        /\ UNCHANGED <<target, resume>>
  /\ UNCHANGED <<state, expired, pending, unsent, released, closes, writes>>

-----------------------------------------------------------------------------
(* writeMultiBufferInternal: a look at the state, Push, WakeUp.            *)

Write ==
  /\ pc["write"] = "off"
  /\ state = "Active"
  /\ writes < MaxWrites
  /\ writes' = writes + 1
  /\ Goto("write", "push")
  /\ UNCHANGED <<state, expired, idle, pending, unsent, released, late, closes, target, resume>>

\* A released window takes nothing.
Push ==
  /\ pc["write"] = "push"
  /\ IF released
       THEN Goto("write", "off") /\ UNCHANGED <<pending, unsent>>
       ELSE Goto("write", "wake") /\ pending' = TRUE /\ unsent' = TRUE
  /\ UNCHANGED <<state, expired, idle, released, late, closes, writes, target, resume>>

WakeData(t) ==
  /\ pc[t] = "wake"
  /\ pc' = WakeUp([pc EXCEPT ![t] = "off"], {"data"})
  /\ UNCHANGED <<state, expired, idle, pending, unsent, released, late, closes, writes, target,
                 resume>>

-----------------------------------------------------------------------------
(* The updaters.                                                           *)

ShouldTerminate(u) ==
  IF u = "data" THEN state \in {"Terminating", "Terminated"} ELSE state = "Terminated"

ShouldContinue(u) == ~ShouldTerminate(u) /\ (u = "data" => pending)

\* Updater.run up to the first test of the loop, the loop with its wait for the
\* ticker, and the deferred Signal.
Run(u) ==
  /\ \/ pc[u] = "start" /\ Goto(u, IF ShouldTerminate(u) THEN "exit" ELSE "loop")
     \/ pc[u] = "loop" /\ Goto(u, IF ShouldContinue(u) THEN "terminated" ELSE "exit")
     \/ pc[u] = "exit" /\ Goto(u, "off")
  /\ late' = [late EXCEPT ![u] = {}]
  /\ UNCHANGED <<state, expired, idle, pending, unsent, released, closes, writes, target, resume>>

\* The outcomes of comparing flush's time with a stamp.
Passed(u, stamp, timeout) == IF stamp \in late[u] THEN BOOLEAN ELSE {timeout}

\* flush: one look at the state per step, in the order of the code.
TestState(u) ==
  \E over \in Passed(u, "begin", expired), silent \in Passed(u, "input", idle) :
    LET SetStateIf(condition, s, then, otherwise) ==
          IF condition THEN CallSetState(u, s, then) ELSE Goto(u, otherwise) /\ UNCHANGED <<target, resume>>
    IN  /\ \/ /\ pc[u] = "terminated"
              /\ Goto(u, IF state = "Terminated" THEN "loop" ELSE "idle")
              /\ UNCHANGED <<target, resume>>
           \/ /\ pc[u] = "idle"
              /\ LET closing == state = "Active" /\ silent
                 IN  /\ Goto(u, IF closing THEN "switch" ELSE "empty")
                     /\ resume' = [resume EXCEPT ![u] = IF closing THEN "empty" ELSE "off"]
              /\ UNCHANGED target
           \/ /\ pc[u] = "empty"
              /\ SetStateIf(state = "ReadyToClose" /\ ~pending, "Terminating",
                            "terminating", "terminating")
           \/ /\ pc[u] = "terminating"
              /\ SetStateIf(state = "Terminating" /\ over, "Terminated", "loop",
                            IF state = "Terminating" THEN "loop" ELSE "peerTerminating")
           \/ /\ pc[u] = "peerTerminating"
              /\ SetStateIf(state = "PeerTerminating" /\ over, "Terminating",
                            "readyToClose", "readyToClose")
           \/ /\ pc[u] = "readyToClose"
              /\ SetStateIf(state = "ReadyToClose" /\ over, "Terminating", "output", "output")
        /\ late' = [late EXCEPT ![u] = {stamp \in @ : pc'[u] \in Before[stamp]}]
        /\ UNCHANGED <<state, expired, idle, pending, unsent, released, closes, writes>>

\* The workers' Flush: what is in the window is written.
Output(u) ==
  /\ pc[u] = "output"
  /\ unsent' = FALSE
  /\ Goto(u, "loop")
  /\ UNCHANGED <<state, expired, idle, pending, released, late, closes, writes, target, resume>>

-----------------------------------------------------------------------------
StateTimeout ==
  /\ ~expired
  /\ expired' = TRUE
  /\ UNCHANGED <<state, idle, pending, unsent, released, late, closes, writes, pc, target, resume>>

IdleTimeout ==
  /\ Silences /\ ~idle
  /\ idle' = TRUE
  /\ UNCHANGED <<state, expired, pending, unsent, released, late, closes, writes, pc, target, resume>>

Step(t) == StoreState(t) \/ BeginState(t) \/ Close(t) \/ WakeData(t)
UpdaterStep(u) == Step(u) \/ Run(u) \/ TestState(u) \/ Output(u)

Next ==
  \/ CallClose \/ Step("close")
  \/ Write \/ Push \/ Step("write")
  \/ InputPlain \/ InputClose \/ InputTerminate \/ Step("input")
  \/ \E u \in Updaters : UpdaterStep(u)
  \/ StateTimeout \/ IdleTimeout

Spec == Init /\ [][Next]_vars

(* Every goroutine runs, tickers tick, and time passes.                    *)
Fairness ==
  /\ WF_vars(Step("close"))
  /\ WF_vars(Push \/ Step("write"))
  /\ WF_vars(Step("input") \/ (pc["input"] = "terminate" /\ InputTerminate))
  /\ \A u \in Updaters : WF_vars(UpdaterStep(u))
  /\ WF_vars(StateTimeout)

FairSpec == Spec /\ Fairness

-----------------------------------------------------------------------------
(* A WakeUp that arrives while the data updater is leaving is lost, but    *)
(* the ping updater runs the same flush: what was pushed on an active      *)
(* connection is written to the network.                                   *)
PushedIsSent == unsent ~> (~unsent \/ state # "Active")


(* connection.go:457: "Close closes the connection."  Once it was called,  *)
(* the connection is released at last.                                     *)
CloseReleases == closes > 0 ~> released

(* connection.go:40: ReadyToClose is a connection "closed locally": by its *)
(* application, or because nothing came in for 30 seconds.                 *)
ClosedLocally == state = "ReadyToClose" => closes > 0 \/ Silences

(* connection.go:44 calls a Terminated connection destroyed: it never      *)
(* becomes anything else.                                                  *)
TerminatedIsFinal == [][state = "Terminated" => state' = "Terminated"]_vars
=============================================================================
