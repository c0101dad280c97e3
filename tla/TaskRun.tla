-------------------------------- MODULE TaskRun --------------------------------
(***************************************************************************)
(* task.Run (common/task/task.go) on its semaphore                         *)
(* (common/signal/semaphore/semaphore.go): every proxy runs the two        *)
(* directions of a connection with it.  A failure ends Run while other     *)
(* tasks still run; they go on to use the semaphore and the channel.       *)
(***************************************************************************)
EXTENDS Integers

CONSTANT N     \* len(tasks)

ASSUME NAssumption == N \in Nat

Tasks == 1..N

VARIABLES
  started,    \* tasks whose goroutine was started, a prefix of Tasks
  returned,   \* tasks whose f() has returned
  errs,       \* those for which it returned an error
  left,       \* tasks whose goroutine has ended
  tokens,     \* permits in the semaphore
  done,       \* the channel of errors, of capacity 1: the task the error is from
  canceled,   \* {ctx} if ctx is done
  i,          \* turns of the last loop
  result      \* what Run has returned: a set of at most one

vars == <<started, returned, errs, left, tokens, done, canceled, i, result>>

Results == {"nil", "error", "ctx"}

TypeOK ==
  /\ started \subseteq Tasks /\ returned \subseteq started
  /\ errs \subseteq returned /\ left \subseteq returned
  /\ tokens \in 0..N /\ i \in 0..N
  /\ done \subseteq errs
  /\ canceled \subseteq {"ctx"}
  /\ result \subseteq Results

\* semaphore.New(n).
Permits == N

Init ==
  /\ started = {} /\ returned = {} /\ errs = {} /\ left = {}
  /\ tokens = Permits /\ done = {} /\ canceled = {} /\ i = 0 /\ result = {}

\* One turn of the first loop.
StartTask(t) ==
  /\ t \in Tasks \ started /\ \A u \in Tasks : u < t => u \in started
  /\ tokens > 0
  /\ tokens' = tokens - 1
  /\ started' = started \cup {t}
  /\ UNCHANGED <<returned, errs, left, done, canceled, i, result>>

\* f().
Passes(t) ==
  /\ t \in started \ returned
  /\ returned' = returned \cup {t}
  /\ UNCHANGED <<started, errs, left, tokens, done, canceled, i, result>>

Fails(t) ==
  /\ t \in started \ returned
  /\ returned' = returned \cup {t} /\ errs' = errs \cup {t}
  /\ UNCHANGED <<started, left, tokens, done, canceled, i, result>>

\* Mutant: a task signals whether it failed or not.
SignalAnyway(t) ==
  /\ t \in returned \ left
  /\ tokens < N
  /\ tokens' = tokens + 1
  /\ left' = left \cup {t}
  /\ UNCHANGED <<started, returned, errs, done, canceled, i, result>>

\* err == nil: s.Signal(), which waits for room in its channel.
Signal(t) ==
  /\ t \in (returned \ left) \ errs
  /\ tokens < N
  /\ tokens' = tokens + 1
  /\ left' = left \cup {t}
  /\ UNCHANGED <<started, returned, errs, done, canceled, i, result>>

\* Mutant: the error is forgotten.
ReportDrops(t) ==
  /\ t \in errs \ left
  /\ left' = left \cup {t}
  /\ UNCHANGED <<started, returned, errs, tokens, done, canceled, i, result>>

\* The error is sent if there is room.
Report(t) ==
  /\ t \in errs \ left
  /\ done' = IF done = {} THEN {t} ELSE done
  /\ left' = left \cup {t}
  /\ UNCHANGED <<started, returned, errs, tokens, canceled, i, result>>

CancelContext ==
  /\ canceled = {}
  /\ canceled' = {"ctx"}
  /\ UNCHANGED <<started, returned, errs, left, tokens, done, i, result>>

\* The second loop.
Waiting == started = Tasks /\ i < N /\ result = {}

TakeError ==
  /\ Waiting /\ done # {}
  /\ done' = {} /\ result' = {"error"}
  /\ UNCHANGED <<started, returned, errs, left, tokens, canceled, i>>

TakeContext ==
  /\ Waiting /\ canceled # {}
  /\ result' = {"ctx"}
  /\ UNCHANGED <<started, returned, errs, left, tokens, done, canceled, i>>

TakePermit ==
  /\ Waiting /\ tokens > 0
  /\ tokens' = tokens - 1 /\ i' = i + 1
  /\ UNCHANGED <<started, returned, errs, left, done, canceled, result>>

ReturnNil ==
  /\ started = Tasks /\ i = N /\ result = {}
  /\ result' = {"nil"}
  /\ UNCHANGED <<started, returned, errs, left, tokens, done, canceled, i>>

Run ==
  \/ \E t \in Tasks : StartTask(t)
  \/ TakeError \/ TakeContext \/ TakePermit \/ ReturnNil
Goroutine(t) == Signal(t) \/ Report(t)

Next ==
  \/ Run \/ CancelContext
  \/ \E t \in Tasks : Passes(t) \/ Fails(t) \/ Goroutine(t)

Spec == Init /\ [][Next]_vars

(* Goroutines run.  That f() returns is not assumed.                       *)
Fairness ==
  /\ WF_vars(Run)
  /\ \A t \in Tasks : WF_vars(Goroutine(t))

FairSpec == Spec /\ Fairness

-----------------------------------------------------------------------------
(* task.go:19, "returns the first error encountered or nil if all tasks    *)
(* pass": nil means that every task has returned, and none with an error.  *)
NilMeansAllPassed == result = {"nil"} => returned = Tasks /\ errs = {}

(* A task that passed finds room in the semaphore.                         *)
SignalHasRoom == \A t \in (returned \ left) \ errs : tokens < N

(* Both: what Run returns is true, and the goroutines it leaves behind do  *)
(* not block on its semaphore.                                             *)
RunIsRight == NilMeansAllPassed /\ SignalHasRoom

(* The goroutine of a task that returns ends, though Run no longer listens. *)
GoroutinesEnd == \A t \in Tasks : t \in returned ~> t \in left

(* Run returns as soon as a task fails, the context is done or all tasks   *)
(* have returned, whatever the other tasks do.                             *)
RunReturns == (errs # {} \/ canceled # {} \/ returned = Tasks) ~> result # {}
=============================================================================
