------------------------------ MODULE MCInstance ------------------------------
(***************************************************************************)
(* The wrapper and the instance it starts: a host that keeps StartXray and *)
(* StopXray apart (the extended module), one that does not, every          *)
(* configuration of features, the handlers that come and go, and the       *)
(* balancers that choose among them by what the observatories saw, and the *)
(* timers and periodic tasks that all of them use.                         *)
(*                                                                         *)
(* The variable part says which of them a behaviour is about; nothing      *)
(* happens to the others.                                                  *)
(***************************************************************************)
EXTENDS InstanceProofs

VARIABLES
  part,   \* what a behaviour is about
  \* XrayJni
  xrayJniRunning, xrayJniXrayInst, xrayJniCreated, xrayJniStarted, xrayJniPc,
  xrayJniInst, xrayJniFeature,
  \* Instance
  apps, req, opt, bad, next, features, pending, pendingOpt, called, phase,
  instanceRunning, instanceStarted,
  \* Balancing
  status, probes, todo, rounds, finished, override, strategy, settings, index, picks,
  last, turns,
  \* HealthPing
  handlers, healthPingRounds, ticking, results, now, history, wronged

\* Inbounds that compete for ports, one of them on a Unix socket; outbounds of which
\* two have the same tag.
InboundPorts == [i |-> <<1, 2>>, j |-> <<2>>, k |-> <<>>]
InboundNetworks == [i |-> {"tcp", "udp"}, j |-> {"tcp"}, k |-> {"unix"}]
Tagging == [i |-> "x", j |-> "y", k |-> "", a |-> "a", b |-> "b", c |-> "a"]
Matching == <<{"a", "b"}>>

\* How many outbounds leastLoad wants, and its baselines.
LoadSettings ==
  [expected : 0..2, baselines : {<<>>, <<2>>, <<2, 3>>, <<3, 2>>, <<1, 2>>}, maxRTT : {0}]

managersVars == <<managing, inbounds, listening, outbounds, default, tagsCache, cached,
                  selects, got, held>>
sweepVars == <<table, expired, sweeping, armed, sweeper, puts>>
timerVars == <<timerLock, updated, hooked, fired, task, tasks, timers, check, setting,
               quiet>>
workerVars == <<made, active, done, inactive, idle, callback, strayed>>
freeVars == <<xrayJniRunning, xrayJniXrayInst, xrayJniCreated, xrayJniStarted,
              xrayJniPc, xrayJniInst, xrayJniFeature>>
instanceVars == <<apps, req, opt, bad, next, features, pending, pendingOpt, called,
                  phase, instanceRunning, instanceStarted>>
balancingVars == <<status, probes, todo, rounds, finished, override, strategy,
                   settings, index, picks, last, turns>>
healthPingVars == <<handlers, healthPingRounds, ticking, results, now, history, wronged>>

\* A host that overlaps calls, with panics.
Free == INSTANCE XrayJni WITH
  Callers <- {1, 2}, MaxInstances <- 2, Panics <- TRUE, HostSerialises <- FALSE,
  running <- xrayJniRunning, xrayInst <- xrayJniXrayInst, created <- xrayJniCreated,
  started <- xrayJniStarted, pc <- xrayJniPc, inst <- xrayJniInst,
  feature <- xrayJniFeature

\* New, Start and Close.
Core == INSTANCE Instance WITH
  Types <- {"a", "b", "e"}, Essential <- <<"e">>, MaxApps <- 2, Optional <- {},
  Fallible <- {"b"}, running <- instanceRunning, started <- instanceStarted

\* The same, with optional features.
Wishes == INSTANCE Instance WITH
  Types <- {"a", "e"}, Essential <- <<"e">>, MaxApps <- 3, Optional <- {"a", "e"},
  Fallible <- {"a"}, running <- instanceRunning, started <- instanceStarted

\* LeastPing while the observatory probes.
Ping == INSTANCE Balancing WITH
  Outbounds <- <<"a", "b">>, Selections <- {<<"a", "b">>}, Pickers <- {1},
  Settings <- {[expected |-> 0, baselines |-> <<>>, maxRTT |-> 0]},
  Strategies <- {"leastPing"}, Concurrent <- TRUE, Delays <- {1, 2}, Targets <- {},
  MaxRounds <- 2

\* RoundRobin.
Round == INSTANCE Balancing WITH
  Outbounds <- <<"a", "b">>, Selections <- {<<"a", "b">>}, Pickers <- {1},
  Settings <- {[expected |-> 0, baselines |-> <<>>, maxRTT |-> 0]},
  Strategies <- {"roundRobin"}, Concurrent <- FALSE, Delays <- {1}, Targets <- {},
  MaxRounds <- 2

\* Random, with overrides.
Random == INSTANCE Balancing WITH
  Outbounds <- <<"a", "b">>, Selections <- {<<"a", "b">>}, Pickers <- {1},
  Settings <- {[expected |-> 0, baselines |-> <<>>, maxRTT |-> 0]},
  Strategies <- {"random"}, Concurrent <- FALSE, Delays <- {1}, Targets <- {"", "b"},
  MaxRounds <- 1

\* LeastLoad.
Load == INSTANCE Balancing WITH
  Outbounds <- <<"a", "b">>, Selections <- {<<"a", "b">>}, Pickers <- {1},
  Settings <- LoadSettings, Strategies <- {"leastLoad"}, Concurrent <- FALSE,
  Delays <- {1, 2}, Targets <- {}, MaxRounds <- 1

\* The burst observatory.
Burst == INSTANCE HealthPing WITH
  Tags <- {"a"}, Permanent <- {}, Sampling <- 2, MaxRounds <- 2, MaxTime <- 4,
  Rtts <- {1, 2}, rounds <- healthPingRounds

ASSUME PartsAssumption ==
  /\ Managers!HandlersAssumption
  /\ Sweep!PeriodicAssumption
  /\ Timer!CallersAssumption
  /\ Worker!WorkerAssumption
  /\ Core!InstanceAssumption
  /\ Wishes!InstanceAssumption
  /\ Ping!BalancingAssumption
  /\ Round!BalancingAssumption
  /\ Random!BalancingAssumption
  /\ Load!BalancingAssumption
  /\ Burst!PingAssumption

Unused == "unused"   \* what the variables of the other parts are

PartsInit ==
  /\ part \in {"serial", "free", "features", "optional", "inbounds", "outbounds", "ping", "round", "random", "load", "burst", "sweep", "timer", "worker"}
  /\ Init
  /\ Managers!Init
  /\ Sweep!Init
  /\ Timer!Init
  /\ Worker!Init
  /\ \/ part = "free" /\ Free!Init
     \/ part # "free" /\ xrayJniRunning = Unused /\ xrayJniXrayInst = Unused
        /\ xrayJniCreated = Unused /\ xrayJniStarted = Unused /\ xrayJniPc = Unused
        /\ xrayJniInst = Unused /\ xrayJniFeature = Unused
  /\ \/ part = "features" /\ Core!Init
     \/ part = "optional" /\ Wishes!Init
     \/ part \notin {"features", "optional"} /\ apps = Unused /\ req = Unused
        /\ opt = Unused /\ bad = Unused /\ next = Unused /\ features = Unused
        /\ pending = Unused /\ pendingOpt = Unused /\ called = Unused /\ phase = Unused
        /\ instanceRunning = Unused /\ instanceStarted = Unused
  /\ \/ part = "ping" /\ Ping!Init
     \/ part = "round" /\ Round!Init
     \/ part = "random" /\ Random!Init
     \/ part = "load" /\ Load!Init
     \/ part \notin {"ping", "round", "random", "load"} /\ status = Unused
        /\ probes = Unused /\ todo = Unused /\ rounds = Unused /\ finished = Unused
        /\ override = Unused /\ strategy = Unused /\ settings = Unused /\ index = Unused
        /\ picks = Unused /\ last = Unused /\ turns = Unused
  /\ \/ part = "burst" /\ Burst!Init
     \/ part # "burst" /\ handlers = Unused /\ healthPingRounds = Unused
        /\ ticking = Unused /\ results = Unused /\ now = Unused /\ history = Unused
        /\ wronged = Unused

PartsNext ==
  \/ part = "serial" /\ Next
     /\ UNCHANGED <<part, freeVars, instanceVars, managersVars, balancingVars, healthPingVars, sweepVars, timerVars, workerVars>>
  \/ part = "free" /\ Free!Next
     /\ UNCHANGED <<part, vars, instanceVars, managersVars, balancingVars, healthPingVars, sweepVars, timerVars, workerVars>>
  \/ part = "features" /\ Core!Next
     /\ UNCHANGED <<part, vars, freeVars, managersVars, balancingVars, healthPingVars, sweepVars, timerVars, workerVars>>
  \/ part = "optional" /\ Wishes!Next
     /\ UNCHANGED <<part, vars, freeVars, managersVars, balancingVars, healthPingVars, sweepVars, timerVars, workerVars>>
  \/ part = "inbounds" /\ Managers!Next
     /\ UNCHANGED <<part, vars, freeVars, instanceVars, balancingVars, healthPingVars, sweepVars, timerVars, workerVars, outbounds, default, tagsCache, cached, selects, got, held>>
  \/ part = "outbounds" /\ Managers!Next
     /\ UNCHANGED <<part, vars, freeVars, instanceVars, balancingVars, healthPingVars, sweepVars, timerVars, workerVars, managing, inbounds, listening>>
  \/ part = "ping" /\ Ping!Next
     /\ UNCHANGED <<part, vars, freeVars, instanceVars, managersVars, healthPingVars, sweepVars, timerVars, workerVars>>
  \/ part = "round" /\ Round!Next
     /\ UNCHANGED <<part, vars, freeVars, instanceVars, managersVars, healthPingVars, sweepVars, timerVars, workerVars>>
  \/ part = "random" /\ Random!Next
     /\ UNCHANGED <<part, vars, freeVars, instanceVars, managersVars, healthPingVars, sweepVars, timerVars, workerVars>>
  \/ part = "load" /\ Load!Next
     /\ UNCHANGED <<part, vars, freeVars, instanceVars, managersVars, healthPingVars, sweepVars, timerVars, workerVars>>
  \/ part = "burst" /\ Burst!Next
     /\ UNCHANGED <<part, vars, freeVars, instanceVars, managersVars, balancingVars, sweepVars, timerVars, workerVars>>
  \/ part = "sweep" /\ Sweep!Next
     /\ UNCHANGED <<part, vars, freeVars, instanceVars, managersVars, balancingVars, healthPingVars, timerVars, workerVars>>
  \/ part = "timer" /\ Timer!Next
     /\ UNCHANGED <<part, vars, freeVars, instanceVars, managersVars, balancingVars, healthPingVars, sweepVars, workerVars>>
  \/ part = "worker" /\ Worker!Next
     /\ UNCHANGED <<part, vars, freeVars, instanceVars, managersVars, balancingVars, healthPingVars, sweepVars, timerVars>>

PartsSpec == PartsInit /\ [][PartsNext]_<<part, vars, freeVars, instanceVars, managersVars, balancingVars, healthPingVars, sweepVars, timerVars, workerVars>>

-----------------------------------------------------------------------------
(* RequireFeatures and AddFeature, whatever the order of the apps: no      *)
(* callback whose features are all there is left pending, none is called   *)
(* twice, and each one called was given all the features it asked for. A   *)
(* host that overlaps its calls, with panics, still finds an instance      *)
(* published only when it is whole.                                        *)
CallbacksOnce ==
  /\ part = "features" => Core!NoneForgotten /\ Core!CalledOnce /\ Core!Resolved
  /\ part = "optional" => Wishes!NoneForgotten /\ Wishes!CalledOnce /\ Wishes!Resolved
  /\ part = "free" => Free!PublishedIsWhole

(* Though the records of the observatory are read while they are written,  *)
(* field by field and without its lock, an outbound that leastPing,        *)
(* roundRobin or random returns is a candidate and counted as alive at     *)
(* some moment of the pick; an empty answer means that every candidate was *)
(* dead at some moment of it. While the list of outbounds that are alive   *)
(* stays the same, roundRobin gives none of them two times more often than *)
(* another; leastLoad selects what its baselines and its expected number   *)
(* mean, for all settings; and the statistics of the burst observatory are *)
(* of the latest results and of valid ones only.                           *)
BalancersAreRight ==
  /\ part = "ping" => Ping!PickedWasAlive
  /\ part = "round" => Round!PickedWasAlive /\ Round!RoundIsFair
  /\ part = "random" => Random!PickedWasAlive
  /\ part = "load" => Load!LoadIsRight
  /\ part = "burst" => Burst!StatisticsAreRecent
=============================================================================
