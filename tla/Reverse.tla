------------------------------- MODULE Reverse -------------------------------
(***************************************************************************)
(* The reverse proxy (app/reverse/bridge.go, portal.go).  The bridge opens *)
(* connections to the portal; the portal uses each as a mux client whose   *)
(* sessions carry its users' connections, and one control session.  A      *)
(* worker that has carried many connections is drained: the portal tells   *)
(* the bridge over the control session, the bridge opens another, and the  *)
(* drained one is closed by mux when its last session has ended.           *)
(*                                                                         *)
(* Monitor, heartbeats, the clean-up of the picker, the mux monitor and    *)
(* the users' goroutines run concurrently; the link delivers in order, so  *)
(* that what the bridge knows of a worker is what the portal had said of   *)
(* it some time before.                                                    *)
(***************************************************************************)
EXTENDS Integers, Sequences, FiniteSets, SequencesExt

CONSTANTS
  Slots,         \* bound: workers at a time
  Users,         \* users of the portal, each with one connection at a time
  DrainAfter,    \* 256 in the code
  Load,          \* 16: connections per worker before another one is opened
  Most,          \* 9999
  Tries,         \* 16
  MaxFailures,   \* bound: connections that fail
  Counting       \* whether peak is kept

\* What the constants must satisfy.
ReverseAssumption ==
  /\ DrainAfter \in Nat \ {0} /\ Load \in Nat
  /\ Tries \in Nat \ {0} /\ MaxFailures \in Nat /\ Most \in Nat /\ Counting \in BOOLEAN

VARIABLES
  wk,        \* wk[w]: a worker, its two ends
  bridge,    \* Bridge.workers
  portal,    \* StaticMuxPicker.workers
  user,      \* user[u]
  peak,      \* history: the most connections Monitor has counted
  failures

vars == <<wk, bridge, portal, user, peak, failures>>

NoWorker ==
  [link |-> "none", told |-> "ACTIVE", knows |-> "ACTIVE", seen |-> 0, bclosed |-> TRUE, pclosed |-> TRUE,
   draining |-> FALSE, beats |-> FALSE, total |-> 0, control |-> FALSE]
NoUser == [pc |-> "off", w |-> 0, tries |-> 0]

Init ==
  /\ wk = [w \in Slots |-> NoWorker]
  /\ bridge = <<>> /\ portal = <<>>
  /\ user = [u \in Users |-> NoUser]
  /\ peak = 0 /\ failures = 0

\* The ends of a worker that is closed; what is not read again is reset.
PortalClosed(r) ==
  [r EXCEPT !.pclosed = TRUE, !.link = "down", !.control = FALSE, !.draining = FALSE,
            !.told = "ACTIVE", !.total = 0]
BridgeClosed(r) == [r EXCEPT !.bclosed = TRUE, !.knows = "ACTIVE", !.seen = 0]

\* Sessions of the mux client, and of the users among them.
Carries(w) == {u \in Users : user[u].pc = "on" /\ user[u].w = w}
ActiveConnections(w) == Cardinality(Carries(w)) + IF wk[w].control THEN 1 ELSE 0

\* A worker that nothing refers to any more, kept being what the bridge keeps.
Free(w, kept) ==
  /\ wk[w].bclosed /\ wk[w].pclosed /\ ~wk[w].beats
  /\ ~Contains(kept, w) /\ ~Contains(portal, w)
  /\ \A u \in Users : user[u].w # w

-----------------------------------------------------------------------------
(* The bridge.                                                             *)

IsActive(w) == wk[w].knows = "ACTIVE" /\ ~wk[w].bclosed

Sum(s) ==
  LET f[i \in 0..Len(s)] == IF i = 0 THEN 0 ELSE f[i - 1] + wk[s[i]].seen
  IN f[Len(s)]

\* Mutant: another worker is opened at the load, not above it.
MonitorAtLoad ==
  LET kept == SelectSeq(bridge, IsActive)
      w == CHOOSE x \in Slots : Free(x, kept)
  IN /\ peak' = IF Counting /\ Sum(kept) > peak THEN Sum(kept) ELSE peak
     /\ IF kept = <<>> \/ Sum(kept) \div Len(kept) >= Load
          THEN /\ \E x \in Slots : Free(x, kept)
               /\ wk' = [wk EXCEPT ![w] = [NoWorker EXCEPT !.link = "dialing", !.bclosed = FALSE]]
               /\ bridge' = Append(kept, w)
          ELSE bridge' = kept /\ UNCHANGED wk
     /\ UNCHANGED <<portal, user, failures>>

\* Bridge.monitor, with cleanup and NewBridgeWorker.
Monitor ==
  LET kept == SelectSeq(bridge, IsActive)
      needs == kept = <<>> \/ Sum(kept) \div Len(kept) > Load
      w == CHOOSE x \in Slots : Free(x, kept)
  IN /\ peak' = IF Counting /\ Sum(kept) > peak THEN Sum(kept) ELSE peak
     /\ IF needs
          THEN /\ \E x \in Slots : Free(x, kept)
               /\ wk' = [wk EXCEPT ![w] = [NoWorker EXCEPT !.link = "dialing", !.bclosed = FALSE]]
               /\ bridge' = Append(kept, w)
          ELSE bridge' = kept /\ UNCHANGED wk
     /\ UNCHANGED <<portal, user, failures>>

\* The frames under way reach the bridge: handleInternalConn, and new sessions.
Deliver(w) ==
  /\ wk[w].link = "up" /\ ~wk[w].bclosed
  /\ wk' = [wk EXCEPT ![w].knows = wk[w].told, ![w].seen = ActiveConnections(w)]
  /\ UNCHANGED <<bridge, portal, user, peak, failures>>

\* The ServerWorker of the bridge ends with its link.
BridgeSees(w) ==
  /\ wk[w].link = "down" /\ ~wk[w].bclosed
  /\ wk' = [wk EXCEPT ![w] = BridgeClosed(@)]
  /\ UNCHANGED <<bridge, portal, user, peak, failures>>

-----------------------------------------------------------------------------
(* The portal.                                                             *)

\* Portal.HandleConnection of a link of the bridge: NewPortalWorker opens the
\* control session, and Periodic.Start makes the first heartbeat.
Accept(w) ==
  /\ wk[w].link = "dialing"
  /\ wk' = [wk EXCEPT ![w] = [@ EXCEPT !.link = "up", !.pclosed = FALSE, !.control = TRUE,
                                       !.total = 1, !.beats = TRUE]]
  /\ portal' = Append(portal, w)
  /\ UNCHANGED <<bridge, user, peak, failures>>

\* PortalWorker.heartbeat: every fifth repeats that the worker is active, which
\* the bridge believes already.  An error ends the periodic task.
Heartbeat(w) ==
  /\ wk[w].beats
  /\ wk' = [wk EXCEPT ![w] =
       IF @.pclosed \/ @.draining THEN [@ EXCEPT !.beats = FALSE]
       ELSE IF @.total > DrainAfter THEN [@ EXCEPT !.draining = TRUE, !.told = "DRAIN", !.control = FALSE]
       ELSE @]
  /\ UNCHANGED <<bridge, portal, user, peak, failures>>

\* The mux client's monitor: without a session the worker and its link close.
Tick(w) ==
  /\ ~wk[w].pclosed /\ ActiveConnections(w) = 0
  /\ wk' = [wk EXCEPT ![w] = PortalClosed(@)]
  /\ UNCHANGED <<bridge, portal, user, peak, failures>>

\* The mux client meets the end of its link, and closes its sessions.
PortalSees(w) ==
  /\ wk[w].link = "down" /\ ~wk[w].pclosed
  /\ wk' = [wk EXCEPT ![w] = PortalClosed(@)]
  /\ user' = [u \in Users |-> IF u \in Carries(w) THEN NoUser ELSE user[u]]
  /\ UNCHANGED <<bridge, portal, peak, failures>>

\* StaticMuxPicker.cleanup.
Cleanup ==
  /\ portal' = SelectSeq(portal, LAMBDA w : ~wk[w].pclosed)
  /\ UNCHANGED <<wk, bridge, user, peak, failures>>

\* The first of some workers with the fewest connections; 0 if there is none.
Least(some) ==
  LET fewest == {i \in some : \A j \in some : ActiveConnections(portal[i]) <= ActiveConnections(portal[j])}
  IN IF some = {} THEN 0 ELSE CHOOSE i \in fewest : \A j \in fewest : i <= j

\* StaticMuxPicker.PickAvailable, for ClientManager.Dispatch.
PickAvailable(u) ==
  LET usable == {i \in DOMAIN portal : ~wk[portal[i]].pclosed /\ ActiveConnections(portal[i]) < Most}
      fresh == Least({i \in usable : ~wk[portal[i]].draining})
      any == IF fresh # 0 THEN fresh ELSE Least(usable)
  IN /\ user[u].pc = "off"
     /\ user' = [user EXCEPT ![u] = IF any = 0 THEN NoUser
                                    ELSE [@ EXCEPT !.pc = "picked", !.w = portal[any]]]
     /\ UNCHANGED <<wk, bridge, portal, peak, failures>>

\* ClientWorker.Dispatch: the worker may have been closed in the meantime.
Dispatch(u) ==
  LET w == user[u].w
  IN /\ user[u].pc = "picked"
     /\ IF wk[w].pclosed
          THEN /\ user' = [user EXCEPT ![u] = IF @.tries + 1 = Tries THEN NoUser
                                              ELSE [NoUser EXCEPT !.tries = user[u].tries + 1]]
               /\ UNCHANGED wk
          ELSE /\ user' = [user EXCEPT ![u] = [@ EXCEPT !.pc = "on", !.tries = 0]]
               /\ wk' = [wk EXCEPT ![w].total = IF @ > DrainAfter THEN @ ELSE @ + 1]
     /\ UNCHANGED <<bridge, portal, peak, failures>>

\* The user's connection ends.
End(u) ==
  /\ user[u].pc = "on"
  /\ user' = [user EXCEPT ![u] = NoUser]
  /\ UNCHANGED <<wk, bridge, portal, peak, failures>>

\* The outbound of the bridge cannot connect, or the connection breaks.
LinkFails(w) ==
  /\ wk[w].link \in {"dialing", "up"} /\ failures < MaxFailures
  /\ wk' = [wk EXCEPT ![w].link = "down"]
  /\ failures' = failures + 1
  /\ UNCHANGED <<bridge, portal, user, peak>>

-----------------------------------------------------------------------------
WorkerStep(w) == Deliver(w) \/ BridgeSees(w) \/ Accept(w) \/ Heartbeat(w) \/ Tick(w) \/ PortalSees(w)

Next ==
  \/ Monitor \/ Cleanup
  \/ \E w \in Slots : WorkerStep(w) \/ LinkFails(w)
  \/ \E u \in Users : PickAvailable(u) \/ Dispatch(u) \/ End(u)

Spec == Init /\ [][Next]_vars

\* Periodic tasks run again and again and the link delivers; nobody need connect,
\* and no connection need end.
Fairness ==
  /\ WF_vars(Monitor) /\ WF_vars(Cleanup)
  /\ \A w \in Slots :
       /\ WF_vars(Deliver(w)) /\ WF_vars(BridgeSees(w)) /\ WF_vars(Accept(w))
       /\ WF_vars(Heartbeat(w)) /\ WF_vars(Tick(w)) /\ WF_vars(PortalSees(w))
  /\ \A u \in Users : WF_vars(Dispatch(u))

FairSpec == Spec /\ Fairness

-----------------------------------------------------------------------------
TypeOK ==
  /\ \A w \in Slots : wk[w].link \in {"none", "dialing", "up", "down"}
  /\ bridge \in Seq(Slots) /\ portal \in Seq(Slots)

(* However late the bridge learns of what the portal does, it never holds  *)
(* more active workers than the most connections it has ever counted call  *)
(* for.                                                                    *)
WorkersBounded ==
  Cardinality({w \in ToSet(bridge) : IsActive(w)}) <= 1 + peak \div (Load + 1)

(* Whatever the users do, and though no connection need ever end, the      *)
(* portal again and again has an open worker that is not draining: a       *)
(* drained or broken worker is replaced.                                   *)
Replaced ==
  []<>(\E w \in ToSet(portal) : ~wk[w].draining /\ ~wk[w].pclosed)

(* A draining worker that carries nothing is closed at both ends.          *)
DrainEnds ==
  \A w \in Slots : (wk[w].draining /\ Carries(w) = {}) ~> (wk[w].bclosed \/ Carries(w) # {})
================================================================================
