------------------------------- MODULE Instance --------------------------------
(***************************************************************************)
(* How an Xray instance is put together (core/xray.go): the apps of the    *)
(* configuration are created in its order; each may require features of    *)
(* others with a callback, which runs as soon as all of them are there;    *)
(* features everybody needs are added if the configuration lacks them.     *)
(* Then the instance is started and closed.  The configuration is chosen   *)
(* in Init.                                                                *)
(***************************************************************************)
EXTENDS Integers, Sequences, FiniteSets, SequencesExt

CONSTANTS
  Types,       \* feature types
  Essential,   \* those of essentialFeatures, as a sequence
  MaxApps,     \* how many apps a configuration has
  Optional,    \* types of apps with optional features
  Fallible     \* types that may fail

\* What the constants must satisfy.
InstanceAssumption == ToSet(Essential) \cup Optional \cup Fallible \subseteq Types /\ MaxApps \in Nat

\* The callbacks: that of an app's required and that of its optional features.
Callbacks == {"required", "optional"} \X (1..MaxApps)

VARIABLES
  apps,        \* the feature types of config.App, in order
  req, opt,    \* req[t], opt[t]: the features an app of type t requires
  bad,         \* types whose required callback returns an error
  next,        \* what is done next: the index of an app, then the rest
  features,    \* s.features: types in the order they were added
  pending,     \* s.pendingResolutions, as a sequence of callbacks
  pendingOpt,  \* s.pendingOptionalResolutions
  called,      \* the callbacks that were called, in order
  phase,       \* "create", "add", "essential", "made", "failed", "running", "broken", "closed"
  running, started

vars == <<apps, req, opt, bad, next, features, pending, pendingOpt, called, phase, running, started>>
config == <<apps, req, opt, bad>>
resolutions == <<features, pending, pendingOpt, called>>

TypeOK ==
  /\ next \in 1..(MaxApps + Len(Essential) + 1)
  /\ features \in Seq(Types)
  /\ ToSet(called) \subseteq Callbacks
  /\ ToSet(pending) \subseteq {"required"} \X (1..MaxApps)
  /\ ToSet(pendingOpt) \subseteq {"optional"} \X (1..MaxApps)
  /\ phase \in {"create", "add", "essential", "made", "failed", "running", "broken", "closed"}
  /\ running \in BOOLEAN /\ started \in 0..Len(features)

Init ==
  /\ apps \in BoundedSeq(Types, MaxApps)
  /\ req \in [Types -> SUBSET Types]
  /\ opt \in {f \in [Types -> SUBSET Types] : \A t \in Types \ Optional : f[t] = {}}
  /\ bad \in SUBSET Fallible
  /\ next = 1 /\ features = <<>> /\ pending = <<>> /\ pendingOpt = <<>> /\ called = <<>>
  /\ phase = "create" /\ running = FALSE /\ started = 0

-----------------------------------------------------------------------------
Deps(c) == IF c[1] = "required" THEN req[apps[c[2]]] ELSE opt[apps[c[2]]]

\* The callback returns an error.
Err(c) == c[1] = "required" /\ apps[c[2]] \in bad

\* foundAll, by getFeature.
FoundAll(c, fs) == Deps(c) \subseteq ToSet(fs)

\* callbackResolution of the callbacks cs, one after the other.  A required one
\* calls OptionalFeatures, which calls the optional one or puts it aside.
OptionalOf(cs) ==
  [k \in DOMAIN SelectSeq(cs, LAMBDA c : c[1] = "required") |->
     <<"optional", SelectSeq(cs, LAMBDA c : c[1] = "required")[k][2]>>]
CallsOf(cs, fs) ==
  FlattenSeq([k \in DOMAIN cs |-> <<cs[k]>> \o
    SelectSeq(OptionalOf(<<cs[k]>>), LAMBDA o : FoundAll(o, fs))])
PutAside(cs, fs) == SelectSeq(OptionalOf(cs), LAMBDA o : ~FoundAll(o, fs))

\* CreateObject: the constructor calls RequireFeatures, and returns the error of a
\* callback that was called at once.
Create ==
  LET r == <<"required", next>>
      now == SelectSeq(<<r>>, LAMBDA c : FoundAll(c, features))
  IN
  /\ phase = "create" /\ next <= Len(apps)
  /\ called' = called \o CallsOf(now, features)
  /\ pendingOpt' = pendingOpt \o PutAside(now, features)
  /\ pending' = IF now = <<>> THEN Append(pending, r) ELSE pending
  /\ phase' = IF now # <<>> /\ Err(r) THEN "failed" ELSE "add"
  /\ UNCHANGED config /\ UNCHANGED <<next, features, running, started>>

\* What AddFeature does with the resolutions that features fs make available.
\* Only the error of the last callback counts.
Resolve(fs, available) ==
  /\ called' = called \o CallsOf(available, fs)
  /\ phase' = IF available # <<>> /\ Err(Last(available)) THEN "failed"
              ELSE IF phase = "add" THEN "create" ELSE phase

\* Mutant: the resolutions are looked at before the feature is appended.
AddedLate(t) ==
  LET Ready(c) == FoundAll(c, features)
      available == SelectSeq(pending, Ready) \o SelectSeq(pendingOpt, Ready)
  IN
  /\ features' = Append(features, t)
  /\ pending' = SelectSeq(pending, LAMBDA c : ~Ready(c))
  /\ pendingOpt' = SelectSeq(pendingOpt, LAMBDA c : ~Ready(c)) \o PutAside(available, features')
  /\ Resolve(features', available)

\* AddFeature of an instance that is not running.
Added(t) ==
  LET Ready(c) == FoundAll(c, Append(features, t))
      available == SelectSeq(pending, Ready) \o SelectSeq(pendingOpt, Ready)
  IN
  /\ features' = Append(features, t)
  /\ pending' = SelectSeq(pending, LAMBDA c : ~Ready(c))
  /\ pendingOpt' = SelectSeq(pendingOpt, LAMBDA c : ~Ready(c)) \o PutAside(available, features')
  /\ Resolve(features', available)

AddFeature ==
  /\ phase = "add"
  /\ Added(apps[next])
  /\ next' = next + 1
  /\ UNCHANGED config /\ UNCHANGED <<running, started>>

\* All apps are there.
AppsDone ==
  /\ phase = "create" /\ next = Len(apps) + 1
  /\ phase' = "essential" /\ next' = 1
  /\ UNCHANGED config /\ UNCHANGED resolutions /\ UNCHANGED <<running, started>>

AddEssential ==
  /\ phase = "essential" /\ next <= Len(Essential)
  /\ IF Essential[next] \in ToSet(features)
     THEN UNCHANGED resolutions /\ UNCHANGED phase
     ELSE Added(Essential[next])
  /\ next' = next + 1
  /\ UNCHANGED config /\ UNCHANGED <<running, started>>

\* "not all dependencies are resolved."
CheckPending ==
  /\ phase = "essential" /\ next = Len(Essential) + 1
  /\ phase' = IF pending = <<>> THEN "made" ELSE "failed"
  /\ UNCHANGED config /\ UNCHANGED resolutions /\ UNCHANGED <<next, running, started>>

\* Start, in the order of the features; the first error, after k of them, ends it.
Start(k) ==
  /\ phase = "made" /\ k <= Len(features)
  /\ running' = TRUE /\ started' = k
  /\ phase' = IF k = Len(features) THEN "running" ELSE "broken"
  /\ UNCHANGED config /\ UNCHANGED resolutions /\ UNCHANGED next

\* Close closes every feature.
Close ==
  /\ phase \in {"running", "broken"}
  /\ running' = FALSE /\ started' = 0
  /\ phase' = "closed"
  /\ UNCHANGED config /\ UNCHANGED resolutions /\ UNCHANGED next

Next ==
  \/ Create \/ AddFeature \/ AppsDone \/ AddEssential \/ CheckPending \/ Close
  \/ \E k \in 0..(MaxApps + Len(Essential)) : Start(k)

Spec == Init /\ [][Next]_vars

-----------------------------------------------------------------------------
(* xray.go:277, "registers a callback, which will be called when all       *)
(* dependent features are registered": a callback is called once, whatever *)
(* the order of the apps, and not before its features are there.           *)
CalledOnce ==
  /\ \A j, k \in DOMAIN called : called[j] = called[k] => j = k
  /\ \A j \in DOMAIN called : Deps(called[j]) \subseteq ToSet(features)

(* A callback whose features are all there is not left waiting.            *)
NoneForgotten ==
  \A c \in ToSet(pending) \cup ToSet(pendingOpt) : ~(Deps(c) \subseteq ToSet(features))

(* An instance that New returns has called the required callback of each   *)
(* of its apps and has every essential feature.                            *)
Resolved ==
  phase \in {"made", "running", "broken"} =>
    /\ \A k \in 1..Len(apps) : <<"required", k>> \in ToSet(called)
    /\ ToSet(Essential) \subseteq ToSet(features)
=============================================================================
