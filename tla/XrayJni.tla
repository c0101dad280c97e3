------------------------------- MODULE XrayJni -------------------------------
(***************************************************************************)
(* The Android wrapper jni_workspaces/xray_go/main.go: the exported calls  *)
(* StartXray and StopXray over the two globals running and xrayInst,       *)
(* together with core.Instance's Start and Close, which bring the          *)
(* registered features of one server instance up and down one by one.      *)
(*                                                                         *)
(* Threads of the host application call the exported functions.  Every     *)
(* atomic operation on running, every read or write of xrayInst and every  *)
(* feature started or closed is a step of its own.                         *)
(***************************************************************************)
EXTENDS Integers

CONSTANTS
  Callers,          \* threads of the host application
  MaxInstances,     \* bound: core.New is called at most this often
  NumFeatures,      \* features registered in an instance
  Panics,           \* whether LoadConfig, core.New or a feature's Start may panic
  HostSerialises    \* whether the host keeps StartXray and StopXray apart

ASSUME JniAssumption ==
  /\ MaxInstances \in Nat
  /\ NumFeatures \in Nat \ {0}
  /\ Panics \in BOOLEAN
  /\ HostSerialises \in BOOLEAN

Instances == 1..MaxInstances
Features  == 1..NumFeatures

\* A nil core.Server.
None == 0

VARIABLES
  running,    \* the int32 flag
  xrayInst,   \* the published instance or None
  created,    \* number of instances core.New has returned
  started,    \* started[i]: the features of instance i that are up
  pc,         \* pc[c]: where caller c is
  inst,       \* inst[c]: the instance caller c works on
  feature     \* feature[c]: the feature the loop of Start or Close is at

vars == <<running, xrayInst, created, started, pc, inst, feature>>

StartPCs == {"emptyPath", "load", "start", "abort", "recover", "fail", "publish"}
StopPCs  == {"check", "lookup", "lock", "close", "clear"}
PCs      == StartPCs \cup StopPCs \cup {"idle", "crashed"}

TypeOK ==
  /\ running \in {0, 1}
  /\ xrayInst \in Instances \cup {None}
  /\ created \in 0..MaxInstances
  /\ started \in [Instances -> SUBSET Features]
  /\ pc \in [Callers -> PCs]
  /\ inst \in [Callers -> Instances \cup {None}]
  /\ feature \in [Callers -> Features]

Init ==
  /\ running = 0
  /\ xrayInst = None
  /\ created = 0
  /\ started = [i \in Instances |-> {}]
  /\ pc = [c \in Callers |-> "idle"]
  /\ inst = [c \in Callers |-> None]
  /\ feature = [c \in Callers |-> 1]

\* An unrecovered panic of one thread is the end of the process.
Crashed == \E c \in Callers : pc[c] = "crashed"

At(c, from) == ~Crashed /\ pc[c] = from
Goto(c, to) == pc' = [pc EXCEPT ![c] = to]

\* The call returns to the host.  The codes -1, -2, -3, -4 and -9 of a failed
\* start have one effect, so the model does not keep them apart.
Return(c) == Goto(c, "idle")

\* The host may promise never to overlap a StartXray and a StopXray.
HostMayStart == HostSerialises => \A c \in Callers : pc[c] \notin StopPCs
HostMayStop  == HostSerialises => \A c \in Callers : pc[c] \notin StartPCs

-----------------------------------------------------------------------------
(* StartXray and startXrayInternal.                                        *)

\* Mutant: the flag is stored instead of compared and swapped.
StartAlways(c) ==
  /\ At(c, "idle")
  /\ HostMayStart
  /\ running' = 1
  /\ Goto(c, "emptyPath") \/ Goto(c, "load")
  /\ UNCHANGED <<xrayInst, created, started, inst, feature>>

StartXray(c) ==
  /\ At(c, "idle")
  /\ HostMayStart
  /\ \/ running = 1 /\ Return(c) /\ UNCHANGED running
     \/ /\ running = 0
        /\ running' = 1
        /\ Goto(c, "emptyPath") \/ Goto(c, "load")
  /\ UNCHANGED <<xrayInst, created, started, inst, feature>>

\* path == "": the flag is put back before the call returns.
EmptyPath(c) ==
  /\ At(c, "emptyPath")
  /\ running' = 0
  /\ Return(c)
  /\ UNCHANGED <<xrayInst, created, started, inst, feature>>

\* Mutant: the instance is published before it is started.
PublishEarly(c) ==
  /\ At(c, "load")
  /\ created < MaxInstances
  /\ created' = created + 1
  /\ inst' = [inst EXCEPT ![c] = created + 1]
  /\ xrayInst' = created + 1
  /\ feature' = [feature EXCEPT ![c] = 1]
  /\ Goto(c, "start")
  /\ UNCHANGED <<running, started>>

\* core.LoadConfig and core.New touch no shared state: one step, three outcomes.
LoadAndNew(c) ==
  /\ At(c, "load")
  /\ \/ /\ created < MaxInstances
        /\ created' = created + 1
        /\ inst' = [inst EXCEPT ![c] = created + 1]
        /\ feature' = [feature EXCEPT ![c] = 1]
        /\ Goto(c, "start")
     \/ /\ Goto(c, "fail")
        /\ UNCHANGED <<created, inst, feature>>
     \/ /\ Panics
        /\ Goto(c, "recover")
        /\ UNCHANGED <<created, inst, feature>>
  /\ UNCHANGED <<running, xrayInst, started>>

\* Instance.Start: the next feature starts, returns an error, or panics.
StartFeature(c) ==
  /\ At(c, "start")
  /\ \/ /\ started' = [started EXCEPT ![inst[c]] = @ \cup {feature[c]}]
        /\ IF feature[c] = NumFeatures
             THEN Goto(c, "publish") /\ UNCHANGED feature
             ELSE /\ feature' = [feature EXCEPT ![c] = @ + 1]
                  /\ UNCHANGED pc
     \/ /\ Goto(c, "abort")
        /\ feature' = [feature EXCEPT ![c] = 1]
        /\ UNCHANGED started
     \/ Panics /\ Goto(c, "recover") /\ UNCHANGED <<feature, started>>
  /\ UNCHANGED <<running, xrayInst, created, inst>>

\* Instance.Close closes every feature in order, whether or not it was started.
CloseFeature(c) ==
  /\ started' = [started EXCEPT ![inst[c]] = @ \ {feature[c]}]
  /\ feature' = [feature EXCEPT ![c] = IF @ < NumFeatures THEN @ + 1 ELSE 1]

\* Mutant: a failed start returns without srv.Close().
AbortWithoutClose(c) ==
  /\ At(c, "abort")
  /\ Goto(c, "fail")
  /\ UNCHANGED <<running, xrayInst, created, started, inst, feature>>

\* srv.Start failed: srv.Close() closes what had been started.
AbortStart(c) ==
  /\ At(c, "abort")
  /\ CloseFeature(c)
  /\ IF feature[c] < NumFeatures
       THEN UNCHANGED pc
       ELSE Goto(c, "fail")
  /\ UNCHANGED <<running, xrayInst, created, inst>>

\* The deferred recover of startXrayInternal.
Recover(c) ==
  /\ At(c, "recover")
  /\ running' = 0
  /\ Goto(c, "fail")
  /\ UNCHANGED <<xrayInst, created, started, inst, feature>>

\* StartXray after startXrayInternal returned a code other than 0.
FailStart(c) ==
  /\ At(c, "fail")
  /\ running' = 0
  /\ Return(c)
  /\ UNCHANGED <<xrayInst, created, started, inst, feature>>

Publish(c) ==
  /\ At(c, "publish")
  /\ xrayInst' = inst[c]
  /\ Return(c)
  /\ UNCHANGED <<running, created, started, inst, feature>>

-----------------------------------------------------------------------------
(* StopXray.                                                               *)

StopXray(c) ==
  /\ At(c, "idle")
  /\ HostMayStop
  /\ \/ running = 0 /\ Return(c) /\ UNCHANGED running
     \/ running = 1 /\ running' = 0 /\ Goto(c, "check")
  /\ UNCHANGED <<xrayInst, created, started, inst, feature>>

CheckInstance(c) ==
  /\ At(c, "check")
  /\ \/ xrayInst = None /\ Return(c)
     \/ xrayInst # None /\ Goto(c, "lookup")
  /\ UNCHANGED <<running, xrayInst, created, started, inst, feature>>

\* xrayInst is read a second time for the method call; a nil server panics, and
\* StopXray recovers nothing.
LookupInstance(c) ==
  /\ At(c, "lookup")
  /\ \/ xrayInst = None /\ Goto(c, "crashed") /\ UNCHANGED inst
     \/ /\ xrayInst # None
        /\ inst' = [inst EXCEPT ![c] = xrayInst]
        /\ Goto(c, "lock")
  /\ UNCHANGED <<running, xrayInst, created, started, feature>>

\* Instance.Close takes the instance's statusLock for the whole loop.
LockInstance(c) ==
  /\ At(c, "lock")
  /\ \A d \in Callers : pc[d] = "close" => inst[d] # inst[c]
  /\ Goto(c, "close")
  /\ feature' = [feature EXCEPT ![c] = 1]
  /\ UNCHANGED <<running, xrayInst, created, started, inst>>

CloseInstance(c) ==
  /\ At(c, "close")
  /\ CloseFeature(c)
  /\ IF feature[c] < NumFeatures THEN UNCHANGED pc ELSE Goto(c, "clear")
  /\ UNCHANGED <<running, xrayInst, created, inst>>

ClearInstance(c) ==
  /\ At(c, "clear")
  /\ xrayInst' = None
  /\ Return(c)
  /\ UNCHANGED <<running, created, started, inst, feature>>

-----------------------------------------------------------------------------
Progress(c) ==
  \/ EmptyPath(c) \/ LoadAndNew(c) \/ StartFeature(c) \/ AbortStart(c)
  \/ Recover(c) \/ FailStart(c) \/ Publish(c)
  \/ CheckInstance(c) \/ LookupInstance(c) \/ LockInstance(c)
  \/ CloseInstance(c) \/ ClearInstance(c)

Next == \E c \in Callers : StartXray(c) \/ StopXray(c) \/ Progress(c)

Spec == Init /\ [][Next]_vars

Fairness == \A c \in Callers : WF_vars(Progress(c))

FairSpec == Spec /\ Fairness

-----------------------------------------------------------------------------
(* core/xray.go:23 asks of the users of core.Server that at any time at    *)
(* most one Server instance is running: no two instances have features up. *)
AtMostOneInstance ==
  \A i, j \in Instances : started[i] # {} /\ started[j] # {} => i = j

Quiescent == \A c \in Callers : pc[c] = "idle"

(* What IsXrayRunning reports between calls is true: with the flag set the *)
(* published instance is completely up, with the flag clear nothing is up  *)
(* and nothing is published.  A failed StartXray therefore leaves no       *)
(* feature behind and a StopXray that returned closes everything.          *)
StatusAccurate ==
  Quiescent =>
    /\ running = 1 => xrayInst # None /\ started[xrayInst] = Features
    /\ running = 0 => xrayInst = None /\ \A i \in Instances : started[i] = {}

(* Whatever the host overlaps and whatever panics: the published instance   *)
(* is completely up unless a StopXray that is closing it, and will clear   *)
(* xrayInst, is still in flight.  A later StopXray never finds the remains *)
(* of an aborted start or of a finished stop.                              *)
PublishedIsWhole ==
  xrayInst # None =>
    \/ started[xrayInst] = Features
    \/ \E c \in Callers : pc[c] \in {"close", "clear"} /\ inst[c] = xrayInst

(* Every StartXray and StopXray returns to the host: neither the loops nor *)
(* the lock of Instance.Close keeps a caller for ever.                     *)
CallsReturn == \A c \in Callers : pc[c] # "idle" ~> pc[c] = "idle"
=============================================================================
