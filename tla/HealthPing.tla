----------------------------- MODULE HealthPing -----------------------------
(***************************************************************************)
(* The burst observatory (app/observatory/burst): rounds of pings through  *)
(* every selected outbound, spread over an interval, whose results go into *)
(* one ring per outbound.  Rounds overlap: a new one starts with each tick *)
(* of the scheduler though the one before still waits for slow pings, and  *)
(* outbound handlers are added and removed meanwhile.                      *)
(***************************************************************************)
EXTENDS Integers, Sequences, FiniteSets, SequencesExt, FiniteSetsExt

CONSTANTS
  Tags,        \* the outbound handlers there may be
  Permanent,   \* those of them that are always there
  Sampling,    \* SamplingCount: pings of an outbound in a round, and the size of a ring
  MaxRounds,   \* bound: rounds, the initial one included
  MaxTime,     \* bound: ticks of the clock, one per interval
  Rtts         \* round trip times a ping may measure

\* What the constants must satisfy.
PingAssumption ==
  Permanent \subseteq Tags /\ Sampling \in Nat \ {0} /\ MaxRounds \in Nat /\ MaxTime \in Nat /\ Rtts \subseteq Nat \ {0}

rttFailed == 99        \* the value that stands for a failed ping
Validity == 2          \* results are valid for two intervals
Empty == [time |-> 0, value |-> 0]

VARIABLES
  handlers,    \* what the selector would return now
  rounds,      \* the calls of doCheck: tags, pings that are out, results that came, state
  ticking,     \* whether the scheduler runs
  results,     \* h.Results: rings by tag
  now,
  history,     \* history[t]: every result put for t since its ring was made
  wronged      \* tags whose results a Cleanup deleted although they were selected then

vars == <<handlers, rounds, ticking, results, now, history, wronged>>

-----------------------------------------------------------------------------
(* The ring of an outbound. *)

calcIndex(r, step) == IF r.idx + step >= Sampling THEN (r.idx + step) % Sampling ELSE r.idx + step

NewHealthPingResult == [idx |-> -1, rtts |-> [i \in 0 .. Sampling - 1 |-> Empty]]

Put(r, d) ==
  LET i == calcIndex(r, 1) IN
  [idx |-> i, rtts |-> [r.rtts EXCEPT ![i] = [time |-> now, value |-> d]]]

\* getStatistics: failures, successes, and their average.
getStatistics(r) ==
  LET valid == {i \in DOMAIN r.rtts : r.rtts[i].value # 0 /\ now - r.rtts[i].time <= Validity}
      good == {i \in valid : r.rtts[i].value # rttFailed} IN
  [All |-> Cardinality(valid),
   Fail |-> Cardinality(valid \ good),
   Average |-> IF good = {} THEN 0
               ELSE MapThenSumSet(LAMBDA i : r.rtts[i].value, good) \div Cardinality(good)]

\* createResult: an outbound is alive if a valid ping of it has come back.
Alive(r) == getStatistics(r).All # getStatistics(r).Fail

-----------------------------------------------------------------------------
Init ==
  /\ handlers \in {Permanent \cup s : s \in SUBSET Tags}
  /\ rounds = <<>> /\ ticking = FALSE
  /\ results = <<>>
  /\ now = 1
  /\ history = [t \in Tags |-> <<>>]
  /\ wronged = {}

Round(kind, n) ==
  [kind |-> kind, tags |-> handlers, out |-> [t \in handlers |-> n], came |-> <<>>,
   state |-> "check"]

\* StartScheduler: the first round is preceded by one ping of everybody (Check).
StartScheduler ==
  /\ ~ticking /\ rounds = <<>>
  /\ ticking' = TRUE
  /\ rounds' = <<Round("initial", 1), Round("scheduled", Sampling)>>
  /\ UNCHANGED <<handlers, results, now, history, wronged>>

\* The ticker fires: time passes and another round starts.
Tick ==
  /\ ticking /\ now < MaxTime
  /\ now' = now + 1
  /\ rounds' = IF Len(rounds) < MaxRounds THEN Append(rounds, Round("scheduled", Sampling)) ELSE rounds
  /\ UNCHANGED <<handlers, ticking, results, history, wronged>>

StopScheduler ==
  /\ ticking
  /\ ticking' = FALSE
  /\ UNCHANGED <<handlers, rounds, results, now, history, wronged>>

HandlersChange ==
  /\ \E t \in Tags \ Permanent : handlers' = SymDiff(handlers, {t})
  /\ UNCHANGED <<rounds, ticking, results, now, history, wronged>>

\* A ping returns: a time, a failure, or zero when the network itself is down.
PingReturns(k) ==
  /\ rounds[k].state = "check"
  /\ \E t \in rounds[k].tags, v \in Rtts \cup {0, rttFailed} :
       /\ rounds[k].out[t] > 0
       /\ rounds' = [rounds EXCEPT ![k].out[t] = @ - 1, ![k].came = Append(@, <<t, v>>)]
  /\ UNCHANGED <<handlers, ticking, results, now, history, wronged>>

PutResult(t, v) ==
  LET r == IF t \in DOMAIN results THEN results[t] ELSE NewHealthPingResult IN
  /\ results' = [u \in DOMAIN results \cup {t} |-> IF u = t THEN Put(r, v) ELSE results[u]]
  /\ history' = [history EXCEPT ![t] = Append(@, [time |-> now, value |-> v])]

\* The loop of doCheck takes a result; zero is none.
Collect(k) ==
  /\ rounds[k].state = "check" /\ rounds[k].came # <<>>
  /\ LET r == Head(rounds[k].came) IN
     IF r[2] > 0 THEN PutResult(r[1], r[2]) ELSE UNCHANGED <<results, history>>
  /\ rounds' = [rounds EXCEPT ![k].came = Tail(@)]
  /\ UNCHANGED <<handlers, ticking, now, wronged>>

CheckDone(k) == rounds[k].came = <<>> /\ \A t \in rounds[k].tags : rounds[k].out[t] = 0

(* After a scheduled check the results of all but the outbounds it was     *)
(* about are deleted.                                                      *)
Cleanup(k) ==
  /\ rounds[k].state = "check" /\ CheckDone(k)
  /\ rounds' = [rounds EXCEPT ![k] = [@ EXCEPT !.state = "done", !.tags = {}, !.out = <<>>]]
  /\ LET gone == IF rounds[k].kind = "scheduled" THEN DOMAIN results \ rounds[k].tags ELSE {} IN
     /\ results' = [t \in DOMAIN results \ gone |-> results[t]]
     /\ history' = [t \in Tags |-> IF t \in gone THEN <<>> ELSE history[t]]
     /\ wronged' = gone \cap handlers
  /\ UNCHANGED <<handlers, ticking, now>>

Next ==
  \/ StartScheduler \/ Tick \/ StopScheduler \/ HandlersChange
  \/ \E k \in 1 .. Len(rounds) : PingReturns(k) \/ Collect(k) \/ Cleanup(k)

Spec == Init /\ [][Next]_vars

-----------------------------------------------------------------------------
(* What the balancer is told of an outbound is the truth about its last    *)
(* SamplingCount results, of those the valid ones: nothing older lingers in*)
(* the ring and nothing newer is missing, though rounds overlap, and it is *)
(* alive exactly if one of them succeeded.                                 *)
StatisticsAreRecent ==
  \A t \in DOMAIN results :
    LET h == history[t]
        last == {i \in 1 .. Len(h) : i > Len(h) - Sampling /\ now - h[i].time <= Validity}
        good == {i \in last : h[i].value # rttFailed} IN
    /\ getStatistics(results[t]).All = Cardinality(last)
    /\ getStatistics(results[t]).Fail = Cardinality(last \ good)
    /\ Alive(results[t]) <=> good # {}
    /\ good # {} => getStatistics(results[t]).Average
                      = MapThenSumSet(LAMBDA i : h[i].value, good) \div Cardinality(good)

(* Cleanup removes the results of outbounds that were removed, and of no   *)
(* others.  The code calls it with the tags that were selected when the    *)
(* round began.                                                            *)
CleanupSparesValid == wronged = {}

=============================================================================
