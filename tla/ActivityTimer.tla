---------------------------- MODULE ActivityTimer -----------------------------
(***************************************************************************)
(* signal.ActivityTimer on top of task.Periodic: a connection's idle timer *)
(* (common/signal/timer.go, common/task/periodic.go).  CancelAfterInacti-  *)
(* vity creates it with one check task; SetTimeout, called when one        *)
(* direction of the connection has ended, replaces the task by another.    *)
(* A check that has begun is not stopped by closing its task.              *)
(*                                                                         *)
(* Task 0 is the first one; a caller of SetTimeout stands for the task it  *)
(* creates.  The timer's lock is not reentrant.                            *)
(***************************************************************************)
EXTENDS Integers

CONSTANT Callers   \* the calls of SetTimeout

\* What the constants must satisfy.
CallersAssumption == 0 \notin Callers

Tasks == Callers \cup {0}

VARIABLES
  lock,      \* the caller that holds the timer's lock between two steps
  updated,   \* how many elements the channel of size one holds
  hooked,    \* onTimeout is not nil
  fired,     \* how many times it was called
  task,      \* the checkTask, a set of at most one task
  running,   \* tasks that run
  armed,     \* tasks whose AfterFunc is pending
  check,     \* check[k]: the goroutine of task k's timer
  pc,        \* pc[c]: a call of SetTimeout
  quiet      \* no further Update will come

vars == <<lock, updated, hooked, fired, task, running, armed, check, pc, quiet>>

TypeOK ==
  /\ lock \subseteq Callers
  /\ updated \in 0..1 /\ fired \in Nat
  /\ hooked \in BOOLEAN /\ quiet \in BOOLEAN
  /\ task \subseteq Tasks /\ running \subseteq Tasks /\ armed \subseteq running
  /\ check \in [Tasks -> {"off", "execute", "finish", "rearm"}]
  /\ pc \in [Callers -> {"idle", "lock", "update", "start", "execute", "finish", "rearm", "back"}]

\* The first SetTimeout, in CancelAfterInactivity, has nobody to race with.
Init ==
  /\ lock = {}
  /\ updated = 0
  /\ hooked = TRUE /\ fired = 0
  /\ task = {0} /\ running = {0} /\ armed = {0}
  /\ check = [k \in Tasks |-> "off"]
  /\ pc = [c \in Callers |-> "idle"]
  /\ quiet = FALSE

Update ==
  /\ ~quiet
  /\ updated' = 1
  /\ UNCHANGED <<lock, hooked, fired, task, running, armed, check, pc, quiet>>

BecomeQuiet ==
  /\ ~quiet
  /\ quiet' = TRUE
  /\ UNCHANGED <<lock, updated, hooked, fired, task, running, armed, check, pc>>

\* Periodic.Close of the tasks in ks.
ClosePeriodic(ks) == running' = running \ ks /\ armed' = armed \ ks

-----------------------------------------------------------------------------
(* The goroutine of a task's timer: checkedExecute.                        *)

\* hasClosed.
Tick(k) ==
  /\ k \in armed
  /\ check[k] = "off"
  /\ armed' = armed \ {k}
  /\ check' = [check EXCEPT ![k] = "execute"]
  /\ UNCHANGED <<lock, updated, hooked, fired, task, running, pc, quiet>>

\* check.
Check(k) ==
  /\ check[k] = "execute"
  /\ updated' = 0
  /\ check' = [check EXCEPT ![k] = IF updated = 1 THEN "rearm" ELSE "finish"]
  /\ UNCHANGED <<lock, hooked, fired, task, running, armed, pc, quiet>>

CallOnTimeout ==
  /\ hooked' = FALSE
  /\ fired' = IF hooked THEN fired + 1 ELSE fired

\* finish, under the lock.
Finish ==
  /\ lock = {}
  /\ CallOnTimeout
  /\ ClosePeriodic(task)
  /\ task' = {}

CheckFinishes(k) ==
  /\ check[k] = "finish"
  /\ Finish
  /\ check' = [check EXCEPT ![k] = "rearm"]
  /\ UNCHANGED <<lock, updated, pc, quiet>>

\* The end of checkedExecute.
Rearm(k) ==
  /\ check[k] = "rearm"
  /\ armed' = armed \cup ({k} \cap running)
  /\ check' = [check EXCEPT ![k] = "off"]
  /\ UNCHANGED <<lock, updated, hooked, fired, task, running, pc, quiet>>

-----------------------------------------------------------------------------
(* SetTimeout.                                                             *)

Goto(c, to) == pc' = [pc EXCEPT ![c] = to]

CallSetTimeout(c) ==
  /\ pc[c] = "idle"
  /\ Goto(c, "lock")
  /\ UNCHANGED <<lock, updated, hooked, fired, task, running, armed, check, quiet>>

\* SetTimeout(0).
SetZero(c) ==
  /\ pc[c] = "lock"
  /\ Finish
  /\ Goto(c, "back")
  /\ UNCHANGED <<lock, updated, check, quiet>>

LockAndReplace(c) ==
  /\ pc[c] = "lock"
  /\ lock = {}
  /\ lock' = {c}
  /\ ClosePeriodic(task)
  /\ task' = {c}
  /\ Goto(c, "update")
  /\ UNCHANGED <<updated, hooked, fired, check, quiet>>

UpdateSelf(c) ==
  /\ pc[c] = "update"
  /\ updated' = 1
  /\ Goto(c, "start")
  /\ UNCHANGED <<lock, hooked, fired, task, running, armed, check, quiet>>

\* Periodic.Start: running is set, and the first check is made by the caller.
Start(c) ==
  /\ pc[c] = "start"
  /\ running' = running \cup {c}
  /\ Goto(c, "execute")
  /\ UNCHANGED <<lock, updated, hooked, fired, task, armed, check, quiet>>

\* Without an element the check calls finish, which waits for the lock its own
\* goroutine holds: no step leaves "finish".
FirstCheck(c) ==
  /\ pc[c] = "execute"
  /\ updated' = 0
  /\ Goto(c, IF updated = 1 THEN "rearm" ELSE "finish")
  /\ UNCHANGED <<lock, hooked, fired, task, running, armed, check, quiet>>


\* Mutant: the new task's AfterFunc is forgotten.
UnlockOnly(c) ==
  /\ pc[c] = "rearm"
  /\ lock' = {}
  /\ Goto(c, "back")
  /\ UNCHANGED <<updated, hooked, fired, task, running, armed, check, quiet>>

Unlock(c) ==
  /\ pc[c] = "rearm"
  /\ armed' = armed \cup ({c} \cap running)
  /\ lock' = {}
  /\ Goto(c, "back")
  /\ UNCHANGED <<updated, hooked, fired, task, running, check, quiet>>

-----------------------------------------------------------------------------
TaskStep(k) == Tick(k) \/ Check(k) \/ CheckFinishes(k) \/ Rearm(k)
CallStep(c) ==
  \/ SetZero(c) \/ LockAndReplace(c) \/ UpdateSelf(c) \/ Start(c)
  \/ FirstCheck(c) \/ Unlock(c)

Next ==
  \/ Update \/ BecomeQuiet
  \/ \E k \in Tasks : TaskStep(k)
  \/ \E c \in Callers : CallSetTimeout(c) \/ CallStep(c)

Spec == Init /\ [][Next]_vars

(* Timers expire, goroutines run, a waiter gets a lock that is free again  *)
(* and again, and the connection is quiet at last.                         *)
Fairness ==
  /\ WF_vars(BecomeQuiet)
  /\ \A k \in Tasks : SF_vars(TaskStep(k))
  /\ \A c \in Callers : SF_vars(CallStep(c))

FairSpec == Spec /\ Fairness

-----------------------------------------------------------------------------
(* The connection is cancelled once, however many checks and calls of      *)
(* SetTimeout find it idle.                                                *)
FiresOnce == fired <= 1

(* A connection on which nothing happens any more is cancelled, unless a   *)
(* SetTimeout waits for its own lock: no closed, replaced or finished task *)
(* leaves the timer without a check.                                       *)
FiresWhenIdle == quiet ~> fired = 1 \/ \E c \in Callers : pc[c] = "finish"

(* timer_test.go:37, TestActivityTimerNonBlocking: SetTimeout returns.     *)
SetTimeoutReturns == \A c \in Callers : pc[c] = "lock" ~> pc[c] = "back"
=============================================================================
