---------------------------- MODULE HappyEyeballs ----------------------------
(***************************************************************************)
(* TcpRaceDial (transport/internet/happy_eyeballs.go): the addresses of a  *)
(* name are dialled one after the other without waiting for the earlier    *)
(* ones to fail, and the first connection wins.  The loop of TcpRaceDial,  *)
(* the goroutines of tcpTryDial, the timer and the caller's context run    *)
(* concurrently.  Timers are those of Go 1.23 and later: after Stop or     *)
(* Reset no earlier tick is received.                                      *)
(***************************************************************************)
EXTENDS Integers, Sequences, FiniteSets, SequencesExt

CONSTANTS
  MaxIPs,             \* bound: how many addresses a name has
  MaxConcurrentTry,
  Interleaves,        \* values of interleave
  MayCancel           \* whether the caller's context ends

\* What the constants must satisfy; DialSystem does not race with a limit of 0.
RaceAssumption == MaxIPs \in Nat /\ MaxIPs >= 2 /\ MaxConcurrentTry \in Nat \ {0} /\ MayCancel \in BOOLEAN

VARIABLES
  given,       \* the addresses, prioritizeIPv6 and interleave
  ips,         \* the addresses as sorted
  next,        \* nextTryIndex
  try,         \* try[i]: the goroutine that dials ips[i]
  results,     \* resultCh
  timer,       \* whether the timer is running
  win,         \* index of winConn, 0 for nil
  cancelled,   \* newCtx
  over,        \* ctx
  open,        \* connections that are open
  returned

vars == <<given, ips, next, try, results, timer, win, cancelled, over, open, returned>>

Indices == 1..MaxIPs

-----------------------------------------------------------------------------
(* sortIPs.                                                                *)

\* s: what is left of the two families, whose turn it is, and how many it had.
RECURSIVE Consume(_, _, _)
Consume(s, interleave, out) ==
  LET mine == s.left[s.turn]
      other == IF s.turn = 4 THEN 6 ELSE 4
      more == Append(out, Head(mine))
      swap == s.had + 1 = interleave
  IN IF Len(mine) = 1 THEN more \o s.left[other]
     ELSE Consume([left |-> [s.left EXCEPT ![s.turn] = Tail(@)],
                   turn |-> IF swap THEN other ELSE s.turn,
                   had |-> IF swap THEN 0 ELSE s.had + 1], interleave, more)

\* An address is its family and its place in the answer.
Family(seq, f) == SelectSeq(seq, LAMBDA a : a[1] = f)

sortIPs(seq, prioritizeIPv6, interleave) ==
  IF Family(seq, 4) = <<>> \/ Family(seq, 6) = <<>> THEN seq
  ELSE Consume([left |-> [f \in {4, 6} |-> Family(seq, f)],
                turn |-> IF prioritizeIPv6 THEN 6 ELSE 4, had |-> 0], interleave, <<>>)

Answers == UNION {[1..n -> {4, 6}] : n \in 2..MaxIPs}

Init ==
  /\ \E a \in Answers, six \in BOOLEAN, k \in Interleaves :
       /\ given = [seq |-> [i \in DOMAIN a |-> <<a[i], i>>], six |-> six, interleave |-> k]
       /\ ips = sortIPs([i \in DOMAIN a |-> <<a[i], i>>], six, k)
  /\ next = 1 /\ try = [i \in Indices |-> "off"]
  /\ results = <<>> /\ timer = TRUE
  /\ win = 0 /\ cancelled = FALSE /\ over = FALSE
  /\ open = {} /\ returned = "no"

activeNum == Cardinality({i \in Indices : try[i] # "off"}) + Len(results)

-----------------------------------------------------------------------------
(* tcpTryDial: Dial returns, with or without a connection, and the         *)
(* goroutine looks at its context before it reports.                       *)

Dialled(i) ==
  /\ try[i] = "dials"
  /\ \/ try' = [try EXCEPT ![i] = "connected"] /\ open' = open \cup {i}
     \/ try' = [try EXCEPT ![i] = "failed"] /\ UNCHANGED open
  /\ UNCHANGED <<given, ips, next, results, timer, win, cancelled, over, returned>>

\* Mutant: the context is not looked at.
ReportBlindly(i) ==
  /\ try[i] \in {"connected", "failed"}
  /\ results' = Append(results, [i |-> i, conn |-> try[i] = "connected" /\ ~cancelled])
  /\ try' = [try EXCEPT ![i] = "off"]
  /\ UNCHANGED <<given, ips, next, timer, win, cancelled, over, open, returned>>

Report(i) ==
  LET conn == try[i] = "connected" /\ ~cancelled
  IN /\ try[i] \in {"connected", "failed"}
     /\ results' = Append(results, [i |-> i, conn |-> conn])
     /\ open' = IF conn THEN open ELSE open \ {i}
     /\ try' = [try EXCEPT ![i] = "off"]
     /\ UNCHANGED <<given, ips, next, timer, win, cancelled, over, returned>>

-----------------------------------------------------------------------------
(* The loop of TcpRaceDial.                                                *)

\* A result after the caller's context has ended.
TakeLate ==
  /\ returned = "no" /\ results # <<>> /\ over
  /\ results' = Tail(results)
  /\ cancelled' = TRUE /\ timer' = FALSE
  /\ open' = open \ {win, Head(results).i}
  /\ returned' = IF activeNum = 1 THEN "context" ELSE "no"
  /\ UNCHANGED <<given, ips, next, try, win, over>>

\* Any other result: the first connection wins, a failure brings the next
\* address forward, and the last result ends the race.
TakeResult ==
  LET r == Head(results)
      w == IF r.conn /\ win = 0 THEN r.i ELSE win
  IN /\ returned = "no" /\ results # <<>> /\ ~over
     /\ results' = Tail(results)
     /\ win' = w /\ cancelled' = (cancelled \/ r.conn)
     /\ open' = IF r.conn /\ win # 0 THEN open \ {r.i} ELSE open
     /\ timer' = (w = 0 /\ next <= Len(ips))
     /\ returned' = IF activeNum # 1 THEN "no"
                    ELSE IF w # 0 THEN "connection" ELSE IF next > Len(ips) THEN "error" ELSE "no"
     /\ UNCHANGED <<given, ips, next, try, over>>

\* The timer fires: the next address, or the panic.
Fire ==
  LET impossible == next > Len(ips) \/ activeNum = MaxConcurrentTry
  IN /\ returned = "no" /\ timer
     /\ IF impossible THEN returned' = "panic" /\ UNCHANGED <<next, try, timer>>
        ELSE /\ try' = [try EXCEPT ![next] = "dials"]
             /\ next' = next + 1
             /\ timer' = ~(next = Len(ips) \/ activeNum + 1 = MaxConcurrentTry)
             /\ UNCHANGED returned
     /\ UNCHANGED <<given, ips, results, win, cancelled, over, open>>

\* The caller gives up; newCtx is derived from its context.
Cancel ==
  /\ MayCancel /\ ~over
  /\ over' = TRUE /\ cancelled' = TRUE
  /\ UNCHANGED <<given, ips, next, try, results, timer, win, open, returned>>

Next ==
  \/ TakeLate \/ TakeResult \/ Fire \/ Cancel
  \/ \E i \in Indices : Dialled(i) \/ Report(i)

Spec == Init /\ [][Next]_vars

\* A dial ends, by its timeout if by nothing else.
Fairness ==
  /\ WF_vars(TakeLate) /\ WF_vars(TakeResult) /\ WF_vars(Fire)
  /\ \A i \in Indices : WF_vars(Dialled(i)) /\ WF_vars(Report(i))

FairSpec == Spec /\ Fairness

-----------------------------------------------------------------------------
TypeOK ==
  /\ next \in 1..MaxIPs + 1 /\ win \in 0..MaxIPs
  /\ open \subseteq Indices
  /\ returned \in {"no", "connection", "error", "context", "panic"}

(* TcpRaceDial hands over the connection that won and no other is open,    *)
(* or none is; nothing still dials when it returns; it fails only after    *)
(* every address has; no more dials than allowed run at a time, and what   *)
(* the code calls impossible is.                                           *)
RaceIsRight ==
  /\ returned # "panic"
  /\ activeNum <= MaxConcurrentTry
  /\ returned # "no" => activeNum = 0 /\ open = IF returned = "connection" THEN {win} ELSE {}
  /\ returned = "error" => next = Len(ips) + 1

(* The place of an address among all, by its family and its place there:   *)
(* families take turns of interleave addresses while both have any.        *)
Place(f, i) ==
  LET first == f = IF given.six THEN 6 ELSE 4
      others == Len(Family(given.seq, 10 - f))
      turns == ((i - 1) \div given.interleave) + IF first THEN 0 ELSE 1
      before == given.interleave * turns
  IN i + IF before < others THEN before ELSE others

(* sortIPs puts every address where the interleaving of RFC 8305 wants it. *)
SortedAsTurns ==
  \A f \in {4, 6} : \A i \in DOMAIN Family(given.seq, f) :
    Family(given.seq, 10 - f) # <<>> /\ given.interleave > 0 => ips[Place(f, i)] = Family(given.seq, f)[i]

(* The race ends.                                                          *)
RaceEnds == <>(returned # "no")
================================================================================
