--------------------------- MODULE InstanceProofs ----------------------------
(***************************************************************************)
(* Proofs for the run on the instance. XrayJni, for any set of callers and *)
(* any number of instances and features: as long as the host keeps         *)
(* StartXray and StopXray apart and nothing panics, at most one instance   *)
(* has features up and the running flag tells the truth between calls; and *)
(* whatever the host overlaps and whatever panics, what is published is    *)
(* whole. Then the parts of a running instance that are kept here as       *)
(* instances of their modules: periodic tasks, activity timers, the UDP    *)
(* worker of an inbound and the managers of the handlers.                  *)
(***************************************************************************)
EXTENDS XrayJni, Sequences, TLAPS

\* What a caller inside StartXray owns: the flag, and the only instance with
\* features up; the features up are exactly those its loop has passed.
Starting(c) ==
  /\ running = 1
  /\ xrayInst = None
  /\ pc[c] # "recover"
  /\ pc[c] \in {"start", "abort", "publish"} =>
       /\ inst[c] \in 1..created
       /\ \A i \in Instances : started[i] # {} => i = inst[c]
  /\ pc[c] \in {"emptyPath", "load", "fail"} => \A i \in Instances : started[i] = {}
  /\ pc[c] = "start" => started[inst[c]] = 1..(feature[c] - 1)
  /\ pc[c] = "abort" => started[inst[c]] \subseteq feature[c]..NumFeatures
  /\ pc[c] = "publish" => started[inst[c]] = Features

\* What a caller inside StopXray owns: the published instance.
Stopping(c) ==
  /\ running = 0
  /\ xrayInst # None
  /\ \A i \in Instances : started[i] # {} => i = xrayInst
  /\ pc[c] \in {"lock", "close", "clear"} => inst[c] = xrayInst
  /\ pc[c] = "close" => started[xrayInst] \subseteq feature[c]..NumFeatures
  /\ pc[c] = "clear" => started[xrayInst] = {}

\* Between calls: IsXrayRunning tells the truth.
Resting ==
  /\ running = 1 => /\ xrayInst # None
                    /\ started[xrayInst] = Features
                    /\ \A i \in Instances : started[i] # {} => i = xrayInst
  /\ running = 0 => /\ xrayInst = None
                    /\ \A i \in Instances : started[i] = {}

Exclusive ==
  \A c, d \in Callers : pc[c] # "idle" /\ pc[d] # "idle" => c = d

JniInv ==
  /\ TypeOK
  /\ ~Crashed
  /\ Exclusive
  /\ \A c \in Callers : pc[c] \in StartPCs => Starting(c)
  /\ \A c \in Callers : pc[c] \in StopPCs => Stopping(c)
  /\ (\A c \in Callers : pc[c] = "idle") => Resting

-----------------------------------------------------------------------------
(* What JniAssumption says of the constants.                               *)
LEMMA Bounds == MaxInstances \in Nat /\ NumFeatures \in Nat /\ NumFeatures >= 1
  BY JniAssumption DEF JniAssumption

(* The type invariant is inductive on its own, whatever the host does.     *)
THEOREM TypeCorrect == Spec => []TypeOK
<1>1. Init => TypeOK
  BY Bounds DEF Init, TypeOK, Instances, Features, None, PCs
<1>2. TypeOK /\ [Next]_vars => TypeOK'
  <2> SUFFICES ASSUME TypeOK, [Next]_vars PROVE TypeOK'
    OBVIOUS
  <2> USE Bounds DEF TypeOK, Instances, Features, PCs, StartPCs, StopPCs,
                            At, Goto, Return, None
  <2>1. CASE UNCHANGED vars
    BY <2>1 DEF vars
  <2>2. ASSUME NEW c \in Callers, StartXray(c) PROVE TypeOK'
    BY <2>2, Zenon DEF StartXray
  <2>3. ASSUME NEW c \in Callers, StopXray(c) PROVE TypeOK'
    BY <2>3, Zenon DEF StopXray
  <2>4. ASSUME NEW c \in Callers, EmptyPath(c) PROVE TypeOK'
    BY <2>4 DEF EmptyPath
  <2>5. ASSUME NEW c \in Callers, LoadAndNew(c) PROVE TypeOK'
    <3>1. running' \in {0, 1} /\ xrayInst' \in Instances \cup {None}
      BY <2>5 DEF LoadAndNew
    <3>2. created' \in 0..MaxInstances /\ inst' \in [Callers -> Instances \cup {None}]
      <4>1. CASE created < MaxInstances /\ created' = created + 1
                 /\ inst' = [inst EXCEPT ![c] = created + 1]
        <5>1. created + 1 \in 1..MaxInstances
          BY <4>1
        <5> QED
          BY <4>1, <5>1
      <4>2. CASE UNCHANGED <<created, inst>>
        BY <4>2
      <4> QED
        BY <2>5, <4>1, <4>2 DEF LoadAndNew
    <3>3. started' \in [Instances -> SUBSET Features]
      BY <2>5 DEF LoadAndNew
    <3>4. pc' \in [Callers -> PCs]
      BY <2>5, Zenon DEF LoadAndNew
    <3>5. feature' \in [Callers -> Features]
      BY <2>5 DEF LoadAndNew
    <3> QED
      BY <3>1, <3>2, <3>3, <3>4, <3>5
  <2>6. ASSUME NEW c \in Callers, StartFeature(c) PROVE TypeOK'
    <3>1. running' \in {0, 1} /\ xrayInst' \in Instances \cup {None}
      BY <2>6 DEF StartFeature
    <3>2. created' \in 0..MaxInstances /\ inst' \in [Callers -> Instances \cup {None}]
      BY <2>6 DEF StartFeature
    <3>3. started' \in [Instances -> SUBSET Features]
      BY <2>6 DEF StartFeature
    <3>4. pc' \in [Callers -> PCs]
      BY <2>6 DEF StartFeature
    <3>5. feature' \in [Callers -> Features]
      BY <2>6 DEF StartFeature
    <3> QED
      BY <3>1, <3>2, <3>3, <3>4, <3>5
  <2>7. ASSUME NEW c \in Callers, AbortStart(c) PROVE TypeOK'
    <3>1. running' \in {0, 1} /\ xrayInst' \in Instances \cup {None}
      BY <2>7 DEF AbortStart, CloseFeature
    <3>2. created' \in 0..MaxInstances /\ inst' \in [Callers -> Instances \cup {None}]
      BY <2>7 DEF AbortStart, CloseFeature
    <3>3. started' \in [Instances -> SUBSET Features]
      BY <2>7, Zenon DEF AbortStart, CloseFeature
    <3>4. pc' \in [Callers -> PCs]
      BY <2>7 DEF AbortStart, CloseFeature
    <3>5. feature' \in [Callers -> Features]
      BY <2>7 DEF AbortStart, CloseFeature
    <3> QED
      BY <3>1, <3>2, <3>3, <3>4, <3>5
  <2>8. ASSUME NEW c \in Callers, Recover(c) PROVE TypeOK'
    BY <2>8 DEF Recover
  <2>9. ASSUME NEW c \in Callers, FailStart(c) PROVE TypeOK'
    BY <2>9 DEF FailStart
  <2>10. ASSUME NEW c \in Callers, Publish(c) PROVE TypeOK'
    BY <2>10 DEF Publish
  <2>11. ASSUME NEW c \in Callers, CheckInstance(c) PROVE TypeOK'
    BY <2>11, Zenon DEF CheckInstance
  <2>12. ASSUME NEW c \in Callers, LookupInstance(c) PROVE TypeOK'
    BY <2>12, ZenonT(60) DEF LookupInstance
  <2>13. ASSUME NEW c \in Callers, LockInstance(c) PROVE TypeOK'
    BY <2>13 DEF LockInstance
  <2>14. ASSUME NEW c \in Callers, CloseInstance(c) PROVE TypeOK'
    <3>1. running' \in {0, 1} /\ xrayInst' \in Instances \cup {None}
      BY <2>14 DEF CloseInstance, CloseFeature
    <3>2. created' \in 0..MaxInstances /\ inst' \in [Callers -> Instances \cup {None}]
      BY <2>14 DEF CloseInstance, CloseFeature
    <3>3. started' \in [Instances -> SUBSET Features]
      BY <2>14, Zenon DEF CloseInstance, CloseFeature
    <3>4. pc' \in [Callers -> PCs]
      BY <2>14 DEF CloseInstance, CloseFeature
    <3>5. feature' \in [Callers -> Features]
      BY <2>14 DEF CloseInstance, CloseFeature
    <3> QED
      BY <3>1, <3>2, <3>3, <3>4, <3>5
  <2>15. ASSUME NEW c \in Callers, ClearInstance(c) PROVE TypeOK'
    BY <2>15 DEF ClearInstance
  <2> QED
    BY <2>1, <2>2, <2>3, <2>4, <2>5, <2>6, <2>7, <2>8, <2>9, <2>10, <2>11, <2>12,
       <2>13, <2>14, <2>15 DEF Next, Progress
<1>3. QED
  BY <1>1, <1>2, PTL DEF Spec

-----------------------------------------------------------------------------
(* The inductive step: with the host serialising and nothing panicking, no *)
(* action breaks JniInv.                                                   *)
LEMMA JniInvStep ==
  ASSUME HostSerialises, ~Panics, JniInv, TypeOK', [Next]_vars
  PROVE  JniInv'
<1> USE Bounds DEF TypeOK, Instances, Features, PCs, StartPCs, StopPCs, At, Goto,
                   Return, None, Crashed
<1> DEFINE Rest == /\ ~Crashed'
                   /\ Exclusive'
                   /\ \A c \in Callers : pc'[c] \in StartPCs => Starting(c)'
                   /\ \A c \in Callers : pc'[c] \in StopPCs => Stopping(c)'
                   /\ (\A c \in Callers : pc'[c] = "idle") => Resting'
<1> SUFFICES Rest
  BY DEF JniInv
\* While one caller is inside, every other one is idle; so the invariant about
\* all callers comes down to one about that caller.
<1>0. ASSUME NEW c \in Callers, pc[c] # "idle", NEW to \in PCs \ {"crashed"}, Goto(c, to),
             to \in StartPCs => Starting(c)',
             to \in StopPCs => Stopping(c)',
             to = "idle" => Resting'
      PROVE  Rest
  <2>1. \A d \in Callers : d # c => pc[d] = "idle"
    BY <1>0 DEF JniInv, Exclusive
  <2>2. pc'[c] = to /\ \A d \in Callers : d # c => pc'[d] = "idle"
    BY <1>0, <2>1 DEF JniInv
  <2> QED
    BY <1>0, <2>2 DEF Exclusive
<1>1. CASE UNCHANGED vars
  BY <1>1 DEF vars, JniInv, Exclusive, Starting, Stopping, Resting
<1>2. ASSUME NEW c \in Callers, StartXray(c) PROVE Rest
  <2>1. CASE running = 1
    BY <1>2, <2>1 DEF StartXray, JniInv, Exclusive, Starting, Stopping, Resting
  <2>2. CASE running = 0
    <3>1. \A d \in Callers : pc[d] = "idle"
      BY <1>2, <2>2 DEF StartXray, HostMayStart, JniInv, Starting
    <3> QED
      BY <1>2, <2>2, <3>1 DEF StartXray, JniInv, Exclusive, Starting, Resting
  <2> QED
    BY <2>1, <2>2 DEF JniInv
<1>3. ASSUME NEW c \in Callers, StopXray(c) PROVE Rest
  <2>1. CASE running = 0
    BY <1>3, <2>1 DEF StopXray, JniInv, Exclusive, Starting, Stopping, Resting
  <2>2. CASE running = 1
    <3>1. \A d \in Callers : pc[d] = "idle"
      BY <1>3, <2>2 DEF StopXray, HostMayStop, JniInv, Stopping
    <3> QED
      BY <1>3, <2>2, <3>1 DEF StopXray, JniInv, Exclusive, Stopping, Resting
  <2> QED
    BY <2>1, <2>2 DEF JniInv
<1>4. ASSUME NEW c \in Callers, EmptyPath(c) PROVE Rest
  BY <1>4 DEF EmptyPath, JniInv, Exclusive, Starting, Stopping, Resting
<1>5. ASSUME NEW c \in Callers, LoadAndNew(c) PROVE Rest
  <2>0. /\ pc[c] = "load" /\ Starting(c)
        /\ UNCHANGED <<running, xrayInst, started>>
    BY <1>5 DEF LoadAndNew, JniInv
  <2>1. CASE /\ created' = created + 1 /\ Goto(c, "start")
             /\ inst' = [inst EXCEPT ![c] = created + 1]
             /\ feature' = [feature EXCEPT ![c] = 1]
    <3>1. inst'[c] = created + 1 /\ feature'[c] = 1 /\ inst'[c] \in Instances
      BY <2>1 DEF JniInv
    <3>2. started'[inst'[c]] = {} /\ inst'[c] \in 1..created'
      BY <2>0, <2>1, <3>1 DEF Starting, JniInv
    <3>3. Starting(c)'
      BY <2>0, <2>1, <3>1, <3>2 DEF Starting, JniInv
    <3> QED
      BY <1>0, <2>0, <2>1, <3>3, Zenon
  <2>2. CASE Goto(c, "fail") /\ UNCHANGED <<created, inst, feature>>
    <3>1. Starting(c)'
      BY <2>0, <2>2 DEF Starting, JniInv
    <3> QED
      BY <1>0, <2>0, <2>2, <3>1, Zenon
  <2> QED
    BY <1>5, <2>1, <2>2 DEF LoadAndNew
<1>6. ASSUME NEW c \in Callers, StartFeature(c) PROVE Rest
  <2>0. /\ pc[c] = "start" /\ Starting(c)
        /\ UNCHANGED <<running, xrayInst, created, inst>>
    BY <1>6 DEF StartFeature, JniInv
  <2>i. inst[c] \in Instances /\ feature[c] \in Features
    BY <2>0 DEF Starting, JniInv
  <2>1. CASE /\ started' = [started EXCEPT ![inst[c]] = @ \cup {feature[c]}]
             /\ feature[c] = NumFeatures /\ Goto(c, "publish")
    <3>1. started'[inst[c]] = Features
      BY <2>0, <2>1, <2>i DEF Starting, JniInv
    <3>2. \A i \in Instances : started'[i] # {} => i = inst[c]
      BY <2>0, <2>1, <2>i DEF Starting, JniInv
    <3>3. Starting(c)'
      BY <2>0, <2>1, <3>1, <3>2 DEF Starting, JniInv
    <3> QED
      BY <1>0, <2>0, <2>1, <3>3, Zenon
  <2>2. CASE /\ started' = [started EXCEPT ![inst[c]] = @ \cup {feature[c]}]
             /\ feature[c] # NumFeatures
             /\ feature' = [feature EXCEPT ![c] = @ + 1] /\ UNCHANGED pc
    <3>1. started'[inst[c]] = 1..(feature'[c] - 1)
      BY <2>0, <2>2, <2>i DEF Starting, JniInv
    <3>2. \A i \in Instances : started'[i] # {} => i = inst[c]
      BY <2>0, <2>2, <2>i DEF Starting, JniInv
    <3>3. Starting(c)' /\ Goto(c, "start")
      BY <2>0, <2>2, <3>1, <3>2 DEF Starting, JniInv
    <3> QED
      BY <1>0, <2>0, <3>3, Zenon
  <2>3. CASE /\ Goto(c, "abort") /\ UNCHANGED started
             /\ feature' = [feature EXCEPT ![c] = 1]
    <3>1. Starting(c)'
      BY <2>0, <2>3, <2>i DEF Starting, JniInv
    <3> QED
      BY <1>0, <2>0, <2>3, <3>1, Zenon
  <2> QED
    BY <1>6, <2>1, <2>2, <2>3 DEF StartFeature
<1>7. ASSUME NEW c \in Callers, AbortStart(c) PROVE Rest
  <2>0. /\ pc[c] = "abort" /\ Starting(c)
        /\ UNCHANGED <<running, xrayInst, created, inst>>
    BY <1>7 DEF AbortStart, JniInv
  <2>i. inst[c] \in Instances /\ feature[c] \in Features
    BY <2>0 DEF Starting, JniInv
  <2>s. /\ started'[inst[c]] \subseteq (feature[c] + 1)..NumFeatures
        /\ \A i \in Instances : started'[i] # {} => i = inst[c]
    BY <1>7, <2>0, <2>i DEF AbortStart, CloseFeature, Starting, JniInv
  <2>1. CASE feature[c] < NumFeatures
    <3>1. feature'[c] = feature[c] + 1 /\ Goto(c, "abort")
      BY <1>7, <2>0, <2>1 DEF AbortStart, CloseFeature, JniInv
    <3>2. Starting(c)'
      BY <2>0, <2>s, <3>1 DEF Starting, JniInv
    <3> QED
      BY <1>0, <2>0, <3>1, <3>2, Zenon
  <2>2. CASE ~(feature[c] < NumFeatures)
    <3>1. \A i \in Instances : started'[i] = {}
      BY <2>s, <2>2, <2>i
    <3>2. Goto(c, "fail") /\ Starting(c)'
      BY <1>7, <2>0, <2>2, <3>1 DEF AbortStart, Starting, JniInv
    <3> QED
      BY <1>0, <2>0, <3>2, ZenonT(60)
  <2> QED
    BY <2>1, <2>2
<1>8. ASSUME NEW c \in Callers, Recover(c) PROVE Rest
  BY <1>8 DEF Recover, JniInv, Starting
<1>9. ASSUME NEW c \in Callers, FailStart(c) PROVE Rest
  BY <1>9 DEF FailStart, JniInv, Exclusive, Starting, Stopping, Resting
<1>10. ASSUME NEW c \in Callers, Publish(c) PROVE Rest
  BY <1>10 DEF Publish, JniInv, Exclusive, Starting, Stopping, Resting
<1>11. ASSUME NEW c \in Callers, CheckInstance(c) PROVE Rest
  BY <1>11 DEF CheckInstance, JniInv, Exclusive, Starting, Stopping, Resting
<1>12. ASSUME NEW c \in Callers, LookupInstance(c) PROVE Rest
  <2>1. /\ pc[c] = "lookup" /\ Stopping(c) /\ Goto(c, "lock")
        /\ inst' = [inst EXCEPT ![c] = xrayInst]
        /\ UNCHANGED <<running, xrayInst, created, started, feature>>
    BY <1>12 DEF LookupInstance, JniInv, Stopping
  <2>2. Stopping(c)'
    BY <2>1 DEF Stopping, JniInv
  <2> QED
    BY <1>0, <2>1, <2>2, Zenon
<1>13. ASSUME NEW c \in Callers, LockInstance(c) PROVE Rest
  BY <1>13 DEF LockInstance, JniInv, Exclusive, Starting, Stopping, Resting
<1>14. ASSUME NEW c \in Callers, CloseInstance(c) PROVE Rest
  <2>0. /\ pc[c] = "close" /\ Stopping(c)
        /\ UNCHANGED <<running, xrayInst, created, inst>>
    BY <1>14 DEF CloseInstance, JniInv
  <2>i. xrayInst \in Instances /\ inst[c] = xrayInst /\ feature[c] \in Features
    BY <2>0 DEF Stopping, JniInv
  <2>s. /\ started'[xrayInst] \subseteq (feature[c] + 1)..NumFeatures
        /\ \A i \in Instances : started'[i] # {} => i = xrayInst
    BY <1>14, <2>0, <2>i DEF CloseInstance, CloseFeature, Stopping, JniInv
  <2>1. CASE feature[c] < NumFeatures
    <3>1. feature'[c] = feature[c] + 1 /\ Goto(c, "close")
      BY <1>14, <2>0, <2>1 DEF CloseInstance, CloseFeature, JniInv
    <3>2. Stopping(c)'
      BY <2>0, <2>i, <2>s, <3>1 DEF Stopping, JniInv
    <3> QED
      BY <1>0, <2>0, <3>1, <3>2, Zenon
  <2>2. CASE ~(feature[c] < NumFeatures)
    <3>1. started'[xrayInst] = {}
      BY <2>s, <2>2, <2>i
    <3>2. Goto(c, "clear") /\ Stopping(c)'
      BY <1>14, <2>0, <2>2, <2>i, <2>s, <3>1 DEF CloseInstance, Stopping, JniInv
    <3> QED
      BY <1>0, <2>0, <3>2, Zenon
  <2> QED
    BY <2>1, <2>2
<1>15. ASSUME NEW c \in Callers, ClearInstance(c) PROVE Rest
  <2>1. pc[c] = "clear" /\ Stopping(c) /\ Goto(c, "idle") /\ xrayInst' = None
    BY <1>15 DEF ClearInstance, JniInv
  <2>2. Resting'
    BY <1>15, <2>1 DEF ClearInstance, Resting, Stopping, JniInv
  <2> QED
    BY <1>0, <2>1, <2>2, Zenon
<1> QED
  BY <1>1, <1>2, <1>3, <1>4, <1>5, <1>6, <1>7, <1>8, <1>9, <1>10, <1>11, <1>12,
     <1>13, <1>14, <1>15 DEF Next, Progress

(* With the host keeping StartXray and StopXray apart and without panics,  *)
(* at most one server instance is ever running, as core/xray.go:23 demands.*)
THEOREM OneInstance ==
  ASSUME HostSerialises, ~Panics
  PROVE  Spec => []AtMostOneInstance
<1>1. Init => JniInv
  BY Bounds DEF Init, JniInv, TypeOK, Exclusive, Resting, Instances, Features, PCs,
                StartPCs, StopPCs, Crashed, None
<1>2. JniInv /\ TypeOK' /\ [Next]_vars => JniInv'
  BY JniInvStep
<1>3. JniInv => AtMostOneInstance
  BY DEF JniInv, AtMostOneInstance, Starting, Stopping, Resting, TypeOK, PCs, Crashed,
         StartPCs, StopPCs
<1>4. QED
  BY <1>1, <1>2, <1>3, TypeCorrect, PTL DEF Spec

(* Under the same assumptions the flag IsXrayRunning reads is accurate     *)
(* whenever no call is in flight: a failed start leaves nothing behind and *)
(* a stop leaves nothing up.                                               *)
THEOREM FlagAccurate ==
  ASSUME HostSerialises, ~Panics
  PROVE  Spec => []StatusAccurate
<1>1. Init => JniInv
  BY Bounds DEF Init, JniInv, TypeOK, Exclusive, Resting, Instances, Features, PCs,
                StartPCs, StopPCs, Crashed, None
<1>2. JniInv /\ TypeOK' /\ [Next]_vars => JniInv'
  BY JniInvStep
<1>3. JniInv => StatusAccurate
  BY DEF JniInv, StatusAccurate, Quiescent, Resting
<1>4. QED
  BY <1>1, <1>2, <1>3, TypeCorrect, PTL DEF Spec

-----------------------------------------------------------------------------
(* Without any promise of the host.  Callers overlap, so that an instance  *)
(* is protected only by who knows of it: nobody else works on one that is  *)
(* being made until it is published.                                       *)

\* Where a caller works on an instance it has made and not yet published.
Making == {"start", "abort", "publish"}

\* Where a caller works on an instance it has found published.
Unmaking == {"lock", "close", "clear"}

\* The instance of c is neither published nor known to another caller, and as far
\* up as the loop of Start has come.
Private(c) ==
  /\ inst[c] \in Instances /\ inst[c] # xrayInst
  /\ \A d \in Callers : pc[d] \in Making \cup Unmaking /\ inst[d] = inst[c] => d = c
  /\ pc[c] = "start" => started[inst[c]] = 1..(feature[c] - 1)
  /\ pc[c] = "publish" => started[inst[c]] = Features

WholeInv ==
  /\ TypeOK
  /\ xrayInst <= created
  /\ \A c \in Callers : inst[c] <= created
  /\ \A i \in Instances : i > created => started[i] = {}
  /\ \A c \in Callers : pc[c] \in Making => Private(c)
  /\ \A c \in Callers : pc[c] \in Unmaking => inst[c] \in Instances
  /\ PublishedIsWhole


(* The inductive step, for any host and with panics: no action breaks      *)
(* WholeInv.                                                               *)
LEMMA WholeInvStep ==
  ASSUME WholeInv, TypeOK', [Next]_vars
  PROVE  WholeInv'
<1> USE Bounds DEF TypeOK, Instances, Features, PCs, StartPCs, StopPCs, Making, Unmaking,
                   At, Goto, Return, None
\* A caller that leaves, or stays out of, the work on an instance.
<1>0. ASSUME NEW c \in Callers, NEW to, Goto(c, to), to \notin Making \cup Unmaking,
             pc[c] \notin {"close", "clear"},
             UNCHANGED <<xrayInst, created, started, inst, feature>>
      PROVE  WholeInv'
  <2>1. \A d \in Callers : pc'[d] \in Making => Private(d)'
    BY <1>0 DEF WholeInv, Private
  <2>2. PublishedIsWhole'
    BY <1>0 DEF WholeInv, PublishedIsWhole
  <2> QED
    BY <1>0, <2>1, <2>2 DEF WholeInv
<1>1. CASE UNCHANGED vars
  BY <1>1 DEF vars, WholeInv, Private, PublishedIsWhole
<1>2. ASSUME NEW c \in Callers, StartXray(c) PROVE WholeInv'
  BY <1>0, <1>2, Zenon DEF StartXray
<1>3. ASSUME NEW c \in Callers, StopXray(c) PROVE WholeInv'
  BY <1>0, <1>3, Zenon DEF StopXray
<1>4. ASSUME NEW c \in Callers, EmptyPath(c) PROVE WholeInv'
  BY <1>0, <1>4, Zenon DEF EmptyPath
\* The new instance is one that nobody knows of.
<1>5. ASSUME NEW c \in Callers, LoadAndNew(c) PROVE WholeInv'
  <2>1. CASE /\ created < MaxInstances /\ created' = created + 1 /\ Goto(c, "start")
             /\ inst' = [inst EXCEPT ![c] = created + 1]
             /\ feature' = [feature EXCEPT ![c] = 1]
    <3>0. UNCHANGED <<running, xrayInst, started>> /\ pc[c] = "load"
      BY <1>5 DEF LoadAndNew
    <3>1. /\ inst'[c] = created + 1 /\ feature'[c] = 1 /\ pc'[c] = "start"
          /\ \A d \in Callers : d # c => inst'[d] = inst[d] /\ feature'[d] = feature[d] /\ pc'[d] = pc[d]
      BY <2>1 DEF WholeInv
    <3>2. started'[inst'[c]] = {} /\ inst'[c] \in Instances /\ inst'[c] # xrayInst'
      BY <2>1, <3>0, <3>1 DEF WholeInv
    <3>3. \A d \in Callers : d # c => inst'[d] # inst'[c]
      BY <3>1 DEF WholeInv
    <3>4. ASSUME NEW d \in Callers, pc'[d] \in Making PROVE Private(d)'
      <4>1. CASE d = c
        BY <3>1, <3>2, <3>3, <4>1 DEF Private
      <4>2. CASE d # c
        <5>1. Private(d) /\ inst'[d] = inst[d] /\ pc'[d] = pc[d] /\ feature'[d] = feature[d]
          BY <3>1, <3>4, <4>2 DEF WholeInv
        <5>2. \A e \in Callers : pc'[e] \in Making \cup Unmaking /\ inst'[e] = inst'[d] => e = d
          BY <3>1, <3>3, <4>2, <5>1 DEF Private
        <5> QED
          BY <3>0, <5>1, <5>2 DEF Private
      <4> QED
        BY <4>1, <4>2
    <3>5. PublishedIsWhole'
      BY <3>0, <3>1, Zenon DEF WholeInv, PublishedIsWhole
    <3>6. xrayInst' <= created' /\ \A d \in Callers : inst'[d] <= created'
      BY <2>1, <3>0, <3>1 DEF WholeInv
    <3> QED
      BY <2>1, <3>0, <3>1, <3>2, <3>4, <3>5, <3>6 DEF WholeInv
  <2>2. CASE Goto(c, "fail") /\ UNCHANGED <<created, inst, feature>>
    BY <1>0, <1>5, <2>2, Zenon DEF LoadAndNew
  <2>3. CASE Goto(c, "recover") /\ UNCHANGED <<created, inst, feature>>
    BY <1>0, <1>5, <2>3, Zenon DEF LoadAndNew
  <2> QED
    BY <1>5, <2>1, <2>2, <2>3 DEF LoadAndNew
\* What the loop of Start changes is private.
<1>6. ASSUME NEW c \in Callers, StartFeature(c) PROVE WholeInv'
  <2>0. /\ pc[c] = "start" /\ Private(c)
        /\ UNCHANGED <<running, xrayInst, created, inst>>
    BY <1>6 DEF StartFeature, WholeInv
  <2>i. /\ inst[c] \in Instances /\ inst[c] # xrayInst /\ inst[c] <= created
        /\ feature[c] \in Features
        /\ \A d \in Callers : d # c /\ pc[d] \in Making => inst[d] # inst[c]
    BY <2>0 DEF WholeInv, Private
  <2>1. CASE /\ started' = [started EXCEPT ![inst[c]] = @ \cup {feature[c]}]
             /\ \/ feature[c] = NumFeatures /\ Goto(c, "publish") /\ UNCHANGED feature
                \/ /\ feature[c] # NumFeatures
                   /\ feature' = [feature EXCEPT ![c] = @ + 1] /\ UNCHANGED pc
    <3>1. /\ started'[inst[c]] = 1..feature[c]
          /\ \A i \in Instances : i # inst[c] => started'[i] = started[i]
      BY <2>0, <2>1, <2>i DEF WholeInv, Private
    <3>2. \A d \in Callers : d # c => pc'[d] = pc[d] /\ feature'[d] = feature[d]
      BY <2>1 DEF WholeInv
    <3>3. Private(c)'
      <4>1. CASE feature[c] = NumFeatures
        BY <2>0, <2>1, <2>i, <3>1, <3>2, <4>1 DEF WholeInv, Private
      <4>2. CASE feature[c] # NumFeatures
        BY <2>0, <2>1, <2>i, <3>1, <3>2, <4>2 DEF WholeInv, Private
      <4> QED
        BY <4>1, <4>2
    <3>4. ASSUME NEW d \in Callers, d # c, pc'[d] \in Making PROVE Private(d)'
      <4>1. Private(d) /\ inst[d] # inst[c]
        BY <2>i, <3>2, <3>4 DEF WholeInv
      <4>2. \A e \in Callers : pc'[e] \in Making \cup Unmaking => pc[e] \in Making \cup Unmaking
        BY <2>0, <3>2
      <4>3. started'[inst[d]] = started[inst[d]]
        BY <3>1, <4>1 DEF Private
      <4> QED
        BY <2>0, <3>2, <3>4, <4>1, <4>2, <4>3 DEF Private
    <3>5. PublishedIsWhole'
      <4>1. xrayInst # None => started'[xrayInst] = started[xrayInst]
        BY <2>i, <3>1 DEF WholeInv
      <4>2. \A d \in Callers : pc[d] \in {"close", "clear"} => pc'[d] = pc[d]
        BY <2>0, <3>2
      <4> QED
        BY <2>0, <4>1, <4>2 DEF WholeInv, PublishedIsWhole
    <3>6. \A i \in Instances : i > created' => started'[i] = {}
      BY <2>0, <2>i, <3>1 DEF WholeInv
    <3>7. \A d \in Callers : pc'[d] \in Unmaking => inst'[d] \in Instances
      BY <2>0, <2>i, <3>2 DEF WholeInv
    <3> QED
      BY <2>0, <3>3, <3>4, <3>5, <3>6, <3>7 DEF WholeInv
  <2>2. CASE /\ Goto(c, "abort") /\ UNCHANGED started
             /\ feature' = [feature EXCEPT ![c] = 1]
    <3>1. \A d \in Callers : d # c => pc'[d] = pc[d] /\ feature'[d] = feature[d]
      BY <2>2 DEF WholeInv
    <3>2. pc'[c] = "abort"
      BY <2>2 DEF WholeInv
    <3>3. \A d \in Callers : pc'[d] \in Making => Private(d)'
      BY <2>0, <2>2, <2>i, <3>1, <3>2 DEF WholeInv, Private
    <3>4. PublishedIsWhole'
      BY <2>0, <2>2, <3>1 DEF WholeInv, PublishedIsWhole
    <3> QED
      BY <2>0, <2>2, <2>i, <3>1, <3>2, <3>3, <3>4 DEF WholeInv
  <2>3. CASE Goto(c, "recover") /\ UNCHANGED <<feature, started>>
    BY <1>0, <2>0, <2>3, Zenon
  <2> QED
    BY <1>6, <2>1, <2>2, <2>3 DEF StartFeature
\* And so is what srv.Close() changes after a start that failed.
<1>7. ASSUME NEW c \in Callers, AbortStart(c) PROVE WholeInv'
  <2>0. /\ pc[c] = "abort" /\ Private(c)
        /\ UNCHANGED <<running, xrayInst, created, inst>>
        /\ pc'[c] \in {"abort", "fail"}
    BY <1>7 DEF AbortStart, WholeInv
  <2>1. /\ inst[c] \in Instances /\ inst[c] # xrayInst /\ inst[c] <= created
        /\ \A d \in Callers : d # c /\ pc[d] \in Making => inst[d] # inst[c]
    BY <2>0 DEF WholeInv, Private
  <2>2. \A d \in Callers : d # c => pc'[d] = pc[d] /\ feature'[d] = feature[d]
    BY <1>7 DEF AbortStart, CloseFeature, WholeInv
  <2>3. /\ \A i \in Instances : i # inst[c] => started'[i] = started[i]
        /\ started'[inst[c]] \subseteq started[inst[c]]
    BY <1>7, <2>1 DEF AbortStart, CloseFeature, WholeInv
  <2>4. ASSUME NEW d \in Callers, pc'[d] \in Making PROVE Private(d)'
    <3>1. Private(d) /\ (d # c => inst[d] # inst[c] /\ started'[inst[d]] = started[inst[d]])
      BY <2>0, <2>1, <2>2, <2>3, <2>4 DEF WholeInv, Private
    <3>2. \A e \in Callers : pc'[e] \in Making \cup Unmaking => pc[e] \in Making \cup Unmaking
      BY <2>0, <2>2
    <3> QED
      BY <2>0, <2>2, <2>4, <3>1, <3>2 DEF Private
  <2>5. PublishedIsWhole'
    <3>1. xrayInst # None => started'[xrayInst] = started[xrayInst]
      BY <2>1, <2>3 DEF WholeInv
    <3> QED
      BY <2>0, <2>2, <3>1 DEF WholeInv, PublishedIsWhole
  <2>6. \A i \in Instances : i > created' => started'[i] = {}
    BY <2>0, <2>1, <2>3 DEF WholeInv
  <2>7. \A d \in Callers : pc'[d] \in Unmaking => inst'[d] \in Instances
    BY <2>0, <2>2 DEF WholeInv
  <2> QED
    BY <2>0, <2>4, <2>5, <2>6, <2>7 DEF WholeInv
<1>8. ASSUME NEW c \in Callers, Recover(c) PROVE WholeInv'
  BY <1>0, <1>8, Zenon DEF Recover
<1>9. ASSUME NEW c \in Callers, FailStart(c) PROVE WholeInv'
  BY <1>0, <1>9, Zenon DEF FailStart
\* Nobody else has begun to close the instance that becomes the published one.
<1>10. ASSUME NEW c \in Callers, Publish(c) PROVE WholeInv'
  <2>1. /\ pc[c] = "publish" /\ Private(c)
        /\ UNCHANGED <<running, created, started, inst, feature>>
        /\ xrayInst' = inst[c] /\ pc'[c] = "idle"
        /\ \A d \in Callers : d # c => pc'[d] = pc[d]
    BY <1>10 DEF Publish, WholeInv
  <2>2. PublishedIsWhole'
    BY <2>1 DEF Private, PublishedIsWhole
  <2>3. \A d \in Callers : pc'[d] \in Making => Private(d)'
    BY <2>1 DEF WholeInv, Private
  <2>4. xrayInst' <= created'
    BY <2>1 DEF WholeInv
  <2> QED
    BY <2>1, <2>2, <2>3, <2>4 DEF WholeInv
<1>11. ASSUME NEW c \in Callers, CheckInstance(c) PROVE WholeInv'
  BY <1>0, <1>11, Zenon DEF CheckInstance
<1>12. ASSUME NEW c \in Callers, LookupInstance(c) PROVE WholeInv'
  <2>1. CASE xrayInst = None
    BY <1>0, <1>12, <2>1, Zenon DEF LookupInstance
  <2>2. CASE xrayInst # None
    <3>1. /\ pc[c] = "lookup" /\ pc'[c] = "lock" /\ inst'[c] = xrayInst
          /\ UNCHANGED <<running, xrayInst, created, started, feature>>
          /\ \A d \in Callers : d # c => pc'[d] = pc[d] /\ inst'[d] = inst[d]
      BY <1>12, <2>2 DEF LookupInstance, WholeInv
    <3>2. \A d \in Callers : pc'[d] \in Making => Private(d)'
      BY <3>1 DEF WholeInv, Private
    <3>3. PublishedIsWhole'
      BY <3>1 DEF WholeInv, PublishedIsWhole
    <3> QED
      BY <2>2, <3>1, <3>2, <3>3, Zenon DEF WholeInv
  <2> QED
    BY <2>1, <2>2
<1>13. ASSUME NEW c \in Callers, LockInstance(c) PROVE WholeInv'
  <2>1. /\ pc[c] = "lock" /\ pc'[c] = "close"
        /\ UNCHANGED <<running, xrayInst, created, started, inst>>
        /\ \A d \in Callers : d # c => pc'[d] = pc[d] /\ feature'[d] = feature[d]
    BY <1>13 DEF LockInstance, WholeInv
  <2>2. \A d \in Callers : pc'[d] \in Making => Private(d)'
    BY <2>1 DEF WholeInv, Private
  <2>3. PublishedIsWhole'
    BY <2>1 DEF WholeInv, PublishedIsWhole
  <2> QED
    BY <2>1, <2>2, <2>3 DEF WholeInv
\* The instance that is closed is nobody's private one; if it is the published
\* one, the caller itself is the stop that is still in flight.
<1>14. ASSUME NEW c \in Callers, CloseInstance(c) PROVE WholeInv'
  <2>0. /\ pc[c] = "close" /\ inst[c] \in Instances /\ inst[c] <= created
        /\ UNCHANGED <<running, xrayInst, created, inst>>
        /\ pc'[c] \in {"close", "clear"}
    BY <1>14 DEF CloseInstance, WholeInv
  <2>1. \A d \in Callers : d # c => pc'[d] = pc[d] /\ feature'[d] = feature[d]
    BY <1>14 DEF CloseInstance, CloseFeature, WholeInv
  <2>2. \A i \in Instances : i # inst[c] => started'[i] = started[i]
    BY <1>14, <2>0 DEF CloseInstance, CloseFeature, WholeInv
  <2>3. ASSUME NEW d \in Callers, pc'[d] \in Making PROVE Private(d)'
    <3>1. d # c /\ Private(d)
      BY <2>0, <2>1, <2>3 DEF WholeInv
    <3>2. inst[c] # inst[d]
      BY <2>0, <3>1 DEF Private
    <3> QED
      BY <2>0, <2>1, <2>2, <3>1, <3>2 DEF Private
  <2>4. PublishedIsWhole'
    <3>1. CASE inst[c] = xrayInst
      BY <2>0, <3>1 DEF PublishedIsWhole
    <3>2. CASE inst[c] # xrayInst
      BY <2>0, <2>1, <2>2, <3>2 DEF WholeInv, PublishedIsWhole
    <3> QED
      BY <3>1, <3>2
  <2>5. \A i \in Instances : i > created' => started'[i] = {}
    BY <2>0, <2>2 DEF WholeInv
  <2>6. \A d \in Callers : pc'[d] \in Unmaking => inst'[d] \in Instances
    BY <2>0, <2>1 DEF WholeInv
  <2> QED
    BY <2>0, <2>3, <2>4, <2>5, <2>6 DEF WholeInv
<1>15. ASSUME NEW c \in Callers, ClearInstance(c) PROVE WholeInv'
  <2>1. /\ pc[c] = "clear" /\ pc'[c] = "idle" /\ xrayInst' = None
        /\ UNCHANGED <<running, created, started, inst, feature>>
        /\ \A d \in Callers : d # c => pc'[d] = pc[d]
    BY <1>15 DEF ClearInstance, WholeInv
  <2>2. \A d \in Callers : pc'[d] \in Making => Private(d)'
    BY <2>1 DEF WholeInv, Private
  <2>3. PublishedIsWhole' /\ xrayInst' <= created'
    BY <2>1 DEF PublishedIsWhole, WholeInv
  <2> QED
    BY <2>1, <2>2, <2>3 DEF WholeInv
<1> QED
  BY <1>1, <1>2, <1>3, <1>4, <1>5, <1>6, <1>7, <1>8, <1>9, <1>10, <1>11, <1>12,
     <1>13, <1>14, <1>15 DEF Next, Progress

(* Whatever the host overlaps and whatever panics, the instance xrayInst   *)
(* names is completely up or being closed by a StopXray in flight: no      *)
(* start publishes a half-started instance, and no stop or aborted start   *)
(* takes features from one that stays published.                           *)
THEOREM PublishedWhole == Spec => []PublishedIsWhole
<1>1. Init => WholeInv
  BY Bounds DEF Init, WholeInv, TypeOK, PublishedIsWhole, Instances, Features, PCs,
                Making, Unmaking, None
<1>2. WholeInv /\ TypeOK' /\ [Next]_vars => WholeInv'
  BY WholeInvStep
<1>3. WholeInv => PublishedIsWhole
  BY DEF WholeInv
<1>4. QED
  BY <1>1, <1>2, <1>3, TypeCorrect, PTL DEF Spec

-----------------------------------------------------------------------------
(* The periodic task of a table (module Periodic).                         *)

CONSTANTS Owners, MaxPuts, Forever
VARIABLES table, expired, sweeping, armed, sweeper, puts

Sweep == INSTANCE Periodic WITH running <- sweeping, at <- sweeper

\* The goroutines that are part of a chain of executions, or end one.
Executing == {g \in Sweep!Goroutines : sweeper[g] \in {"execute", "failed", "rearm"}}

\* The flag, an AfterFunc that is pending and a goroutine that executes: the first is set
\* as long as there is one of the others, and there are never two of them.
SweepInv ==
  /\ sweeper \in [Sweep!Goroutines -> {"off", "start", "execute", "failed", "rearm"}]
  /\ \/ sweeping = FALSE /\ armed = 0 /\ Executing = {}
     \/ sweeping = TRUE /\ armed = 1 /\ Executing = {}
     \/ sweeping = TRUE /\ armed = 0 /\ \E g \in Sweep!Goroutines : Executing = {g}

(* Every step of the task and of its owners keeps SweepInv.               *)
LEMMA SweepStep == SweepInv /\ [Sweep!Next]_(Sweep!vars) => SweepInv'
<1> SUFFICES ASSUME SweepInv, [Sweep!Next]_(Sweep!vars)
             PROVE  SweepInv'
  OBVIOUS
<1> USE DEF SweepInv, Executing, Sweep!Goroutines, Sweep!Goto
<1>1. CASE UNCHANGED Sweep!vars
  BY <1>1 DEF Sweep!vars
<1>2. ASSUME NEW o \in Owners, Sweep!Put(o) PROVE SweepInv'
  BY <1>2 DEF Sweep!Put
<1>3. ASSUME NEW o \in Owners, Sweep!Expire(o) PROVE SweepInv'
  BY <1>3 DEF Sweep!Expire
<1>4. ASSUME NEW o \in Owners, Sweep!Start(o) PROVE SweepInv'
  BY <1>4 DEF Sweep!Start
<1>5. ASSUME NEW g \in Sweep!Timers, Sweep!Tick(g) PROVE SweepInv'
  BY <1>5 DEF Sweep!Tick
<1>6. ASSUME NEW g \in Sweep!Goroutines, Sweep!Execute(g) PROVE SweepInv'
  BY <1>6 DEF Sweep!Execute
<1>7. ASSUME NEW g \in Sweep!Goroutines, Sweep!Fail(g) PROVE SweepInv'
  BY <1>7 DEF Sweep!Fail
<1>8. ASSUME NEW g \in Sweep!Goroutines, Sweep!Rearm(g) PROVE SweepInv'
  BY <1>8 DEF Sweep!Rearm
<1>. QED  BY <1>1, <1>2, <1>3, <1>4, <1>5, <1>6, <1>7, <1>8, Zenon DEF Sweep!Next, Sweep!Sweep

\* Periodic.Start and checkedExecute: however many goroutines start the task, and whenever
\* it ends and is started again, there is one chain of executions, and none while the flag is
\* not set.
THEOREM SweptByOne == Sweep!Spec => []Sweep!OneChain
<1>1. Sweep!Init => SweepInv
  BY DEF Sweep!Init, SweepInv, Executing
<1>2. SweepInv => Sweep!OneChain
  BY DEF SweepInv, Executing, Sweep!OneChain, Sweep!Chain
<1>. QED  BY <1>1, <1>2, SweepStep, PTL DEF Sweep!Spec

-----------------------------------------------------------------------------
(* The idle timer of a connection (module ActivityTimer).                  *)

CONSTANT SetTimeouts
VARIABLES timerLock, updated, hooked, fired, task, tasks, timers, check, setting, quiet

Timer == INSTANCE ActivityTimer
  WITH Callers <- SetTimeouts, lock <- timerLock, running <- tasks, armed <- timers, pc <- setting

\* onTimeout is forgotten as it is called.
TimerInv == \/ hooked = TRUE /\ fired = 0
            \/ hooked = FALSE /\ fired = 1

\* finish and SetTimeout(0): however many checks and calls find the connection idle, it is
\* cancelled once.
THEOREM CancelledOnce == Timer!Spec => []Timer!FiresOnce
<1>1. Timer!Init => TimerInv
  BY DEF Timer!Init, TimerInv
<1>2. TimerInv /\ [Timer!Next]_(Timer!vars) => TimerInv'
  <2> SUFFICES ASSUME TimerInv, [Timer!Next]_(Timer!vars)
               PROVE  TimerInv'
    OBVIOUS
  <2>1. ASSUME Timer!Finish PROVE TimerInv'
    BY <2>1 DEF Timer!Finish, Timer!CallOnTimeout, TimerInv
  <2>2. ASSUME UNCHANGED <<hooked, fired>> PROVE TimerInv'
    BY <2>2 DEF TimerInv
  <2>3. CASE UNCHANGED Timer!vars \/ Timer!Update \/ Timer!BecomeQuiet
    BY <2>2, <2>3 DEF Timer!vars, Timer!Update, Timer!BecomeQuiet
  <2>4. ASSUME NEW k \in Timer!Tasks, Timer!TaskStep(k) PROVE TimerInv'
    BY <2>1, <2>2, <2>4
       DEF Timer!TaskStep, Timer!Tick, Timer!Check, Timer!CheckFinishes, Timer!Rearm
  <2>5. ASSUME NEW c \in SetTimeouts, Timer!CallSetTimeout(c) \/ Timer!CallStep(c)
        PROVE  TimerInv'
    BY <2>1, <2>2, <2>5
       DEF Timer!CallSetTimeout, Timer!CallStep, Timer!SetZero, Timer!LockAndReplace,
           Timer!UpdateSelf, Timer!Start, Timer!FirstCheck, Timer!Unlock
  <2>. QED  BY <2>3, <2>4, <2>5 DEF Timer!Next
<1>3. TimerInv => Timer!FiresOnce
  BY DEF TimerInv, Timer!FiresOnce
<1>. QED  BY <1>1, <1>2, <1>3, PTL DEF Timer!Spec

-----------------------------------------------------------------------------
(* The connections of an inbound's UDP worker (module UdpWorker).          *)

CONSTANT MaxConns
VARIABLES made, active, done, inactive, idle, callback, strayed

Worker == INSTANCE UdpWorker WITH at <- callback

\* What the goroutine of a connection has closed.
WorkerInv ==
  /\ made \in 0..MaxConns /\ active \subseteq 1..made
  /\ callback \in [1..MaxConns -> {"off", "process", "close", "check", "remove", "returned"}]
  /\ \A c \in 1..MaxConns : callback[c] \in {"check", "remove", "returned"} => c \in done
  /\ Worker!OpenIsActive

(* Every step of the UDP worker keeps WorkerInv.                           *)
LEMMA WorkerStep ==
  ASSUME MaxConns \in Nat, WorkerInv, [Worker!Next]_(Worker!vars)
  PROVE  WorkerInv'
<1> USE DEF WorkerInv, Worker!OpenIsActive, Worker!Conns, Worker!Goto
<1>1. CASE UNCHANGED Worker!vars
  BY <1>1 DEF Worker!vars
<1>2. CASE Worker!PacketFound
  BY <1>2 DEF Worker!PacketFound
<1>3. CASE Worker!PacketNew
  BY <1>3 DEF Worker!PacketNew
<1>4. CASE Worker!Clean
  BY <1>4, Zenon DEF Worker!Clean
<1>5. ASSUME NEW c \in Worker!Conns, Worker!Activity(c) \/ Worker!TwoMinutes(c) PROVE WorkerInv'
  BY <1>5, Zenon DEF Worker!Activity, Worker!TwoMinutes
<1>6. ASSUME NEW c \in Worker!Conns, Worker!ProcessReturns(c) PROVE WorkerInv'
  BY <1>6 DEF Worker!ProcessReturns
<1>7. ASSUME NEW c \in Worker!Conns, Worker!CloseConn(c) PROVE WorkerInv'
  BY <1>7 DEF Worker!CloseConn
<1>8. ASSUME NEW c \in Worker!Conns, Worker!CheckInactive(c) PROVE WorkerInv'
  BY <1>8 DEF Worker!CheckInactive
<1>9. ASSUME NEW c \in Worker!Conns, Worker!RemoveConn(c) PROVE WorkerInv'
  BY <1>9 DEF Worker!RemoveConn
<1>. QED  BY <1>1, <1>2, <1>3, <1>4, <1>5, <1>6, <1>7, <1>8, <1>9 DEF Worker!Next, Worker!Ends

\* getConnection, clean and removeConn: a connection that is open is the one in the table,
\* or another one's removeConn has taken it from there.
THEOREM OpenFound == Worker!WorkerAssumption => (Worker!Spec => []Worker!OpenIsActive)
<1> SUFFICES ASSUME MaxConns \in Nat
             PROVE  Worker!Spec => []Worker!OpenIsActive
  BY DEF Worker!WorkerAssumption
<1>1. Worker!Init => WorkerInv
  BY DEF Worker!Init, WorkerInv, Worker!OpenIsActive, Worker!Conns
<1>2. WorkerInv /\ [Worker!Next]_(Worker!vars) => WorkerInv'
  BY WorkerStep
<1>3. WorkerInv => Worker!OpenIsActive
  BY DEF WorkerInv
<1>. QED  BY <1>1, <1>2, <1>3, PTL DEF Worker!Spec

(* A periodic task is never executed by two chains of timers, an activity  *)
(* timer never fires twice, and an open connection of the UDP worker is in *)
(* its table unless the removeConn of another one took it from there.      *)
OneAtATime == Sweep!OneChain /\ Timer!FiresOnce /\ Worker!OpenIsActive

\* Periodic tasks, timers and the UDP worker together, for any number of goroutines,
\* calls and connections.
THEOREM AllOneAtATime ==
  Worker!WorkerAssumption => (Sweep!Spec /\ Timer!Spec /\ Worker!Spec => []OneAtATime)
BY SweptByOne, CancelledOnce, OpenFound, PTL DEF OneAtATime

-----------------------------------------------------------------------------
(***************************************************************************)
(* The managers of the handlers, for any handlers, ports and selectors.    *)
(***************************************************************************)
CONSTANTS Inbounds, Ports, Networks, Outbounds, TagOf, Selectors, Matches, Selecting, MaxChanges
VARIABLES managing, inbounds, listening, outbounds, default, tagsCache, cached, selects, got, held

Managers == INSTANCE Handlers WITH Callers <- Selecting, phase <- managing, at <- selects

(* A worker belongs to a set of handlers when one of them has it in its    *)
(* list.                                                                   *)
LEMMA WorkerHasHandler ==
  \A H, w : w \in Managers!WorkersOf(H) <=>
              \E h \in H : w \in Managers!Range(Managers!NewAlwaysOnInboundHandler(h))
  BY DEF Managers!WorkersOf

(* The first workers of a handler are workers of the handler.              *)
LEMMA FirstAreWorkers ==
  \A h, k : Managers!Before(h, k) \subseteq Managers!Range(Managers!NewAlwaysOnInboundHandler(h))
  BY DEF Managers!Before, Managers!Range

(* Whatever fails to start, at most the workers of handlers in the tables  *)
(* listen.                                                                 *)
LEMMA StartedAreManaged ==
  ASSUME Managers!StartInbounds
  PROVE  listening' \subseteq Managers!WorkersOf(inbounds)
<1>1. PICK full \in SUBSET inbounds :
        \/ full = inbounds /\ listening' = Managers!WorkersOf(full)
        \/ \E h \in inbounds \ full : \E k :
             listening' = Managers!WorkersOf(full) \cup Managers!Before(h, k)
  BY Zenon DEF Managers!StartInbounds
<1>2. CASE full = inbounds /\ listening' = Managers!WorkersOf(full)
  BY <1>2, SMTT(30)
<1>3. ASSUME NEW h \in inbounds \ full, NEW k,
             listening' = Managers!WorkersOf(full) \cup Managers!Before(h, k)
      PROVE  listening' \subseteq Managers!WorkersOf(inbounds)
  BY <1>3, WorkerHasHandler, FirstAreWorkers, SMTT(30)
<1> QED BY <1>1, <1>2, <1>3, SMTT(30)

(* Every listener is found from the tables, and none is left when the      *)
(* manager is closed: ListenersManaged is inductive as it stands.          *)
THEOREM ListenersFound == Managers!Spec => []Managers!ListenersManaged
<1>1. Managers!Init => Managers!ListenersManaged
  BY SMTT(30) DEF Managers!Init, Managers!ListenersManaged
<1>2. Managers!ListenersManaged /\ [Managers!Next]_(Managers!vars) => Managers!ListenersManaged'
  <2> SUFFICES ASSUME Managers!ListenersManaged, [Managers!Next]_(Managers!vars)
               PROVE  Managers!ListenersManaged'
    OBVIOUS
  <2> USE DEF Managers!ListenersManaged
  <2>1. CASE Managers!Start
    <3>1. listening' \subseteq Managers!WorkersOf(inbounds) BY <2>1, StartedAreManaged, SMTT(30) DEF Managers!Start
    <3> QED BY <2>1, <3>1, WorkerHasHandler, SMTT(30) DEF Managers!Start
  <2>2. CASE Managers!Close
    BY <2>2, WorkerHasHandler, SMTT(30) DEF Managers!Close
  <2>3. ASSUME NEW h \in Inbounds, Managers!AddInbound(h) PROVE Managers!ListenersManaged'
    <3>1. inbounds' = inbounds \cup {h} /\ managing' = managing BY <2>3, ZenonT(60) DEF Managers!AddInbound
    <3>2. \/ listening' = listening
          \/ managing = "running" /\ \E k : listening' = listening \cup Managers!Before(h, k)
      BY <2>3, ZenonT(60) DEF Managers!AddInbound, Managers!HandlerStart
    <3> QED BY <3>1, <3>2, WorkerHasHandler, FirstAreWorkers, SMTT(30)
  <2>4. ASSUME NEW tag, Managers!RemoveInbound(tag) PROVE Managers!ListenersManaged'
    <3>1. /\ inbounds' = inbounds \ Managers!WithTag(inbounds, tag) /\ managing' = managing
          /\ listening' = listening \ Managers!WorkersOf(Managers!WithTag(inbounds, tag))
      BY <2>4, ZenonT(60) DEF Managers!RemoveInbound
    <3> QED BY <3>1, WorkerHasHandler, SMTT(30)
  <2>5. CASE UNCHANGED <<managing, inbounds, listening>>
    BY <2>5, WorkerHasHandler, SMTT(30)
  <2>6. ASSUME NEW h, Managers!AddOutbound(h) PROVE UNCHANGED <<managing, inbounds, listening>>
    BY <2>6, ZenonT(60) DEF Managers!AddOutbound, Managers!inVars
  <2>7. ASSUME NEW tag, Managers!RemoveOutbound(tag) PROVE UNCHANGED <<managing, inbounds, listening>>
    BY <2>7, ZenonT(60) DEF Managers!RemoveOutbound, Managers!inVars
  <2>8. ASSUME NEW c, NEW s, Managers!SelectBegins(c, s) PROVE UNCHANGED <<managing, inbounds, listening>>
    BY <2>8, SMTT(30) DEF Managers!SelectBegins, Managers!inVars
  <2>9. ASSUME NEW c, Managers!SelectLoads(c) \/ Managers!SelectFills(c) \/ Managers!SelectReturns(c)
        PROVE UNCHANGED <<managing, inbounds, listening>>
    BY <2>9, SMTT(30) DEF Managers!SelectLoads, Managers!SelectFills, Managers!SelectReturns, Managers!inVars
  <2>10. CASE UNCHANGED Managers!vars
    BY <2>10, <2>5, SMTT(30) DEF Managers!vars, Managers!inVars
  <2> QED BY <2>1, <2>2, <2>3, <2>4, <2>5, <2>6, <2>7, <2>8, <2>9, <2>10, SMTT(30) DEF Managers!Next
<1> QED BY <1>1, <1>2, PTL DEF Managers!Spec

\* Select: the map in use holds nothing but what Select makes of the table, and an
\* older map, which a caller may still look into, nothing but what was right when it
\* was replaced, so since that caller's call.
SelectInv ==
  /\ outbounds \subseteq Outbounds
  /\ tagsCache \in Nat \ {0}
  /\ cached \in [1..tagsCache -> [Selectors -> SUBSET SUBSET Managers!Tags]]
  /\ selects \in [Selecting -> [pc : {"idle", "load", "miss", "returned"}, with : Selectors, map : 0..tagsCache]]
  /\ got \in [Selecting -> SUBSET Managers!Tags]
  /\ held \in [Selecting -> SUBSET SUBSET Managers!Tags]
  /\ \A s \in Selectors : cached[tagsCache][s] \subseteq {Managers!Selection(outbounds, s)}
  /\ \A c \in Selecting : selects[c].pc # "idle" =>
       selects[c].map # 0 /\ Managers!Selection(outbounds, selects[c].with) \in held[c]
  /\ \A c \in Selecting : selects[c].pc = "load" =>
       cached[selects[c].map][selects[c].with] \subseteq held[c]
  /\ Managers!SelectIsCurrent

(* What Select makes of a table are tags of the handlers.                  *)
LEMMA SelectionsAreTags ==
  ASSUME NEW H \in SUBSET Outbounds, NEW s
  PROVE  Managers!Selection(H, s) \in SUBSET Managers!Tags
  BY SMTT(30) DEF Managers!Selection, Managers!Tags

(* A table that changes under the lock, with a new map and the callers'    *)
(* history extended, leaves what SelectInv says of every caller true.      *)
LEMMA ChangeKeepsSelect ==
  ASSUME SelectInv, Managers!ResetCache, Managers!Told, outbounds' \subseteq Outbounds,
         UNCHANGED <<selects, got>>
  PROVE  SelectInv'
<1> DEFINE Empty == [s \in Selectors |-> {}]
<1>1. /\ tagsCache' = tagsCache + 1 /\ tagsCache' \in Nat \ {0}
      /\ cached' \in [1..tagsCache' -> [Selectors -> SUBSET SUBSET Managers!Tags]]
      /\ cached'[tagsCache'] = Empty
      /\ \A m \in 1..tagsCache : cached'[m] = cached[m]
  <2>1. cached \in Seq([Selectors -> SUBSET SUBSET Managers!Tags]) /\ Len(cached) = tagsCache
    BY DEF SelectInv
  <2>2. Empty \in [Selectors -> SUBSET SUBSET Managers!Tags]
    OBVIOUS
  <2>3. cached' = Append(cached, Empty) /\ tagsCache' = tagsCache + 1
    BY DEF Managers!ResetCache, Managers!Empty
  <2> HIDE DEF Empty
  <2>4. tagsCache \in Nat \ {0} BY DEF SelectInv
  <2>5. cached' \in Seq([Selectors -> SUBSET SUBSET Managers!Tags]) /\ Len(cached') = tagsCache'
    BY <2>1, <2>2, <2>3, SMTT(30)
  <2>6. cached' \in [1..tagsCache' -> [Selectors -> SUBSET SUBSET Managers!Tags]]
    BY <2>5, SMTT(30)
  <2>7. cached'[tagsCache'] = Empty /\ \A m \in 1..tagsCache : cached'[m] = cached[m]
    BY <2>1, <2>2, <2>3, <2>4, SMTT(30)
  <2> QED BY <2>3, <2>4, <2>6, <2>7, SMTT(30)
<1>2. \A s \in Selectors : cached'[tagsCache'][s] = {}
  BY <1>1, SMTT(30)
<1> HIDE DEF Empty
<1>3. \A c \in Selecting :
        held'[c] = IF selects[c].pc = "idle" THEN {}
                   ELSE held[c] \cup {Managers!Selection(outbounds', selects[c].with)}
  BY SMTT(30) DEF Managers!Told
<1>4. held' \in [Selecting -> SUBSET SUBSET Managers!Tags]
  BY SelectionsAreTags, SMTT(30) DEF Managers!Told, SelectInv
<1>5. selects \in [Selecting -> [pc : {"idle", "load", "miss", "returned"}, with : Selectors, map : 0..tagsCache']]
  BY <1>1, SMTT(30) DEF SelectInv
<1>6. ASSUME NEW c \in Selecting, selects[c].pc # "idle"
      PROVE  selects[c].map # 0 /\ Managers!Selection(outbounds', selects[c].with) \in held'[c]
  BY <1>3, <1>6, ZenonT(60) DEF SelectInv
<1>7. ASSUME NEW c \in Selecting, selects[c].pc = "load"
      PROVE  cached'[selects[c].map][selects[c].with] \subseteq held'[c]
  <2>1. selects[c].map \in 1..tagsCache /\ cached[selects[c].map][selects[c].with] \subseteq held[c]
    BY <1>7, SMTT(30) DEF SelectInv
  <2>2. cached'[selects[c].map] = cached[selects[c].map] BY <1>1, <2>1, SMTT(30)
  <2>3. held[c] \subseteq held'[c] BY <1>3, <1>7, Zenon
  <2> QED BY <2>1, <2>2, <2>3
<1>8. ASSUME NEW c \in Selecting, selects[c].pc = "returned"
      PROVE  got[c] \in held'[c]
  BY <1>3, <1>8, ZenonT(60) DEF SelectInv, Managers!SelectIsCurrent
<1> QED BY <1>1, <1>2, <1>4, <1>5, <1>6, <1>7, <1>8, SMTT(30) DEF SelectInv, Managers!SelectIsCurrent

(* Every step keeps SelectInv.                                             *)
LEMMA SelectStep ==
  ASSUME SelectInv, [Managers!Next]_(Managers!vars), Selectors # {}
  PROVE  SelectInv'
<1>1. CASE UNCHANGED <<outbounds, tagsCache, cached, selects, got, held>>
  BY <1>1, ZenonT(60) DEF SelectInv, Managers!SelectIsCurrent, Managers!Selection
<1>2. CASE Managers!Start \/ Managers!Close
  BY <1>1, <1>2, SMTT(30) DEF Managers!Start, Managers!Close, Managers!outVars, Managers!callVars
<1>3. ASSUME NEW h, Managers!AddInbound(h) PROVE SelectInv'
  BY <1>1, <1>3, ZenonT(60) DEF Managers!AddInbound, Managers!outVars, Managers!callVars
<1>4. ASSUME NEW tag, Managers!RemoveInbound(tag) PROVE SelectInv'
  BY <1>1, <1>4, ZenonT(60) DEF Managers!RemoveInbound, Managers!outVars, Managers!callVars
<1>5. ASSUME NEW h \in Outbounds, Managers!AddOutbound(h) PROVE SelectInv'
  <2>1. outbounds' \subseteq Outbounds BY <1>5, ZenonT(60) DEF Managers!AddOutbound, SelectInv
  <2> QED BY <1>5, <2>1, ChangeKeepsSelect, ZenonT(60) DEF Managers!AddOutbound, Managers!callVars
<1>6. ASSUME NEW tag, Managers!RemoveOutbound(tag) PROVE SelectInv'
  <2>1. outbounds' \subseteq Outbounds BY <1>6, ZenonT(60) DEF Managers!RemoveOutbound, SelectInv
  <2> QED BY <1>6, <2>1, ChangeKeepsSelect, ZenonT(60) DEF Managers!RemoveOutbound, Managers!callVars
<1>7. ASSUME NEW c \in Selecting, NEW s \in Selectors, Managers!SelectBegins(c, s) PROVE SelectInv'
  BY <1>7, SelectionsAreTags, SMTT(30) DEF Managers!SelectBegins, SelectInv, Managers!SelectIsCurrent
<1>8. ASSUME NEW c \in Selecting, Managers!SelectLoads(c) PROVE SelectInv'
  <2> DEFINE hit == cached[selects[c].map][selects[c].with]
  <2>1. hit \subseteq held[c] /\ UNCHANGED <<outbounds, tagsCache, cached, held>>
    BY <1>8, SMTT(30) DEF Managers!SelectLoads, Managers!outVars, SelectInv
  <2>2. PICK to \in {"miss", "returned"} :
          /\ selects' = [selects EXCEPT ![c].pc = to]
          /\ \/ to = "miss" /\ got' = got
             \/ \E tags \in hit : got' = [got EXCEPT ![c] = tags]
    BY <1>8, SMTT(30) DEF Managers!SelectLoads
  <2> HIDE DEF hit
  <2>3. CASE to = "miss" /\ got' = got
    BY <1>8, <2>1, <2>2, <2>3, SMTT(30) DEF Managers!SelectLoads, SelectInv, Managers!SelectIsCurrent
  <2>4. ASSUME NEW tags \in hit, got' = [got EXCEPT ![c] = tags] PROVE SelectInv'
    <3>1. tags \in held[c] BY <2>1, SMTT(30)
    <3>2. tags \in SUBSET Managers!Tags BY <3>1, SMTT(30) DEF SelectInv
    <3>3. selects[c].pc = "load" BY <1>8, SMTT(30) DEF Managers!SelectLoads
    <3>4. Managers!SelectIsCurrent'
      BY <2>1, <2>2, <2>4, <3>1, SMTT(30) DEF SelectInv, Managers!SelectIsCurrent
    <3>5. got' \in [Selecting -> SUBSET Managers!Tags]
      BY <2>4, <3>2, SMTT(30) DEF SelectInv
    <3>6. /\ selects' \in [Selecting -> [pc : {"idle", "load", "miss", "returned"}, with : Selectors, map : 0..tagsCache]]
          /\ \A d \in Selecting : selects'[d].with = selects[d].with /\ selects'[d].map = selects[d].map
          /\ \A d \in Selecting : selects'[d].pc # "idle" => selects[d].pc # "idle"
          /\ \A d \in Selecting : selects'[d].pc = "load" => selects[d].pc = "load"
      BY <2>2, <3>3, ZenonT(60) DEF SelectInv
    <3> QED BY <2>1, <3>4, <3>5, <3>6, SMTT(30) DEF SelectInv
  <2> QED BY <2>2, <2>3, <2>4, SMTT(30)
<1>9. ASSUME NEW c \in Selecting, Managers!SelectFills(c) PROVE SelectInv'
  BY <1>9, SelectionsAreTags DEF Managers!SelectFills, SelectInv, Managers!SelectIsCurrent
<1>10. ASSUME NEW c \in Selecting, Managers!SelectReturns(c) PROVE SelectInv'
  <2> DEFINE s == CHOOSE s \in Selectors : TRUE
  <2>1. s \in Selectors BY SMTT(30)
  <2>2. /\ selects' = [selects EXCEPT ![c] = [pc |-> "idle", with |-> s, map |-> 0]]
        /\ got' = [got EXCEPT ![c] = {}] /\ held' = [held EXCEPT ![c] = {}]
        /\ UNCHANGED <<outbounds, tagsCache, cached>>
    BY <1>10, SMTT(30) DEF Managers!SelectReturns, Managers!Idle
  <2> HIDE DEF s
  <2>3. /\ selects' \in [Selecting -> [pc : {"idle", "load", "miss", "returned"}, with : Selectors, map : 0..tagsCache]]
        /\ got' \in [Selecting -> SUBSET Managers!Tags]
        /\ held' \in [Selecting -> SUBSET SUBSET Managers!Tags]
        /\ selects'[c].pc = "idle"
        /\ \A d \in Selecting \ {c} : selects'[d] = selects[d] /\ got'[d] = got[d] /\ held'[d] = held[d]
    BY <2>1, <2>2, SMTT(30) DEF SelectInv
  <2>4. Managers!SelectIsCurrent'
    BY <2>3, ZenonT(60) DEF SelectInv, Managers!SelectIsCurrent
  <2> QED BY <2>2, <2>3, <2>4, ZenonT(60) DEF SelectInv
<1>11. CASE UNCHANGED Managers!vars
  BY <1>1, <1>11 DEF Managers!vars, Managers!outVars, Managers!callVars
<1> QED BY <1>2, <1>3, <1>4, <1>5, <1>6, <1>7, <1>8, <1>9, <1>10, <1>11 DEF Managers!Next

(* Select, whose look into the cache is outside the lock, returns what     *)
(* matched at some moment of the call, for any callers and changes.        *)
THEOREM SelectedWasCurrent ==
  Managers!HandlersAssumption => (Managers!Spec => []Managers!SelectIsCurrent)
<1> SUFFICES ASSUME Selectors # {}
             PROVE  Managers!Spec => []Managers!SelectIsCurrent
  BY ZenonT(60) DEF Managers!HandlersAssumption
<1>1. Managers!Init => SelectInv
  BY DEF Managers!Init, Managers!Empty, Managers!Idle, SelectInv, Managers!SelectIsCurrent
<1>2. SelectInv /\ [Managers!Next]_(Managers!vars) => SelectInv'
  BY SelectStep, SMTT(30)
<1>3. SelectInv => Managers!SelectIsCurrent
  BY DEF SelectInv
<1> QED BY <1>1, <1>2, <1>3, PTL DEF Managers!Spec

(* What Select returns is a selection of the outbounds that were there at  *)
(* some time during the call; and a port that is listened on belongs to a  *)
(* handler the inbound manager holds, so that Close closes it.             *)
HandlersAreCurrent == Managers!SelectIsCurrent /\ Managers!ListenersManaged

(* The managers of the handlers, for any handlers, callers and changes.    *)
THEOREM AllCurrent ==
  Managers!HandlersAssumption => (Managers!Spec => []HandlersAreCurrent)
BY ListenersFound, SelectedWasCurrent, PTL DEF HandlersAreCurrent
=============================================================================
