--------------------------------- MODULE Xudp ---------------------------------
(***************************************************************************)
(* XUDP (common/mux/session.go, server.go): a UDP flow with a global id    *)
(* outlives the mux connection it came in by.  When a client that has lost *)
(* its connection sends a New frame with the same id on another one, the   *)
(* server detaches the flow's link from the old session and attaches it to *)
(* the new.                                                                *)
(*                                                                         *)
(* One global id, and a number of New frames for it, each on a connection, *)
(* and so with a ServerWorker, of its own; a number stands for the frame,  *)
(* its session, and the XUDP entry or link it creates.  The lock of the    *)
(* session's manager is held during the whole of Session.Close, which is   *)
(* two steps here: the handle goroutine may run in between (Gosched).      *)
(***************************************************************************)
EXTENDS Integers

CONSTANT MaxNew   \* bound: New frames

\* What the constants must satisfy.
XudpAssumption == MaxNew \in Nat

News == 1..MaxNew
None == 0

VARIABLES
  map,       \* the entry in XUDPManager.Map
  status,    \* status[x] of an entry
  mux,       \* mux[x]: the session in the entry's Mux field
  pc,        \* pc[n]: the worker's reader in handleStatusNew
  entry,     \* entry[n]: the entry it works on
  link,      \* link[n]: the link of its session
  dead,      \* links that were interrupted, or ended by the target
  session,   \* session[n]: "none", "open", "stopping" (in Close) or "closed"
  error,     \* links with an error set by ReturnAnError
  handler,   \* handler[n]: the handle goroutine of the session
  gone       \* workers whose session manager is closed

vars == <<map, status, mux, pc, entry, link, dead, session, error, handler, gone>>

TypeOK ==
  /\ map \in News \cup {None}
  /\ status \in [News -> {"Initializing", "Active", "Expiring"}]
  /\ mux \in [News -> News \cup {None}]
  /\ pc \in [News -> {"new", "detach", "rewrite", "dispatch", "install", "add", "back", "broken"}]
  /\ entry \in [News -> News \cup {None}] /\ link \in [News -> News \cup {None}]
  /\ dead \subseteq News /\ error \subseteq News /\ gone \subseteq News
  /\ session \in [News -> {"none", "open", "stopping", "closed"}]
  /\ handler \in [News -> {"off", "read", "wait", "write", "exit"}]

Init ==
  /\ map = None
  /\ status = [x \in News |-> "Initializing"]
  /\ mux = [x \in News |-> None]
  /\ pc = [n \in News |-> "new"]
  /\ entry = [n \in News |-> None] /\ link = [n \in News |-> None]
  /\ dead = {} /\ error = {} /\ gone = {}
  /\ session = [n \in News |-> "none"]
  /\ handler = [n \in News |-> "off"]

Goto(n, to) == pc' = [pc EXCEPT ![n] = to]

-----------------------------------------------------------------------------
(* Session.Close.                                                          *)

\* Up to Gosched: ReturnAnError gives the error to a handle that waits for a
\* packet, or leaves it for one that will.
StartClose(n) ==
  LET waiting == {m \in News : handler[m] = "wait" /\ link[m] = link[n]}
  IN  /\ session' = [session EXCEPT ![n] = "stopping"]
      /\ \/ waiting = {} /\ error' = error \cup {link[n]} /\ UNCHANGED handler
         \/ \E m \in waiting : handler' = [handler EXCEPT ![m] = "exit"] /\ UNCHANGED error

\* Mutant: the entry expires whatever its status.
Expired(x) == "Expiring"

\* An entry that somebody is about to attach again does not expire.
Expire(x) == IF status[x] = "Active" THEN "Expiring" ELSE status[x]

\* Recover, and the rest of Close.
FinishClose(n) ==
  /\ session[n] = "stopping"
  /\ session' = [session EXCEPT ![n] = "closed"]
  /\ error' = error \ {link[n]}
  /\ status' = [status EXCEPT ![entry[n]] = Expire(entry[n])]
  /\ UNCHANGED <<map, mux, pc, entry, link, dead, handler, gone>>

-----------------------------------------------------------------------------
(* handleStatusNew.                                                        *)

\* What is done under the lock of the XUDPManager.
Lookup(n) ==
  /\ pc[n] = "new"
  /\ \/ /\ map = None
        /\ map' = n
        /\ entry' = [entry EXCEPT ![n] = n]
        /\ Goto(n, "dispatch")
        /\ UNCHANGED status
     \/ /\ map # None /\ status[map] = "Initializing"
        /\ Goto(n, "back")
        /\ UNCHANGED <<map, entry, status>>
     \/ /\ map # None /\ status[map] # "Initializing"
        /\ status' = [status EXCEPT ![map] = "Initializing"]
        /\ entry' = [entry EXCEPT ![n] = map]
        /\ Goto(n, "detach")
        /\ UNCHANGED map
  /\ UNCHANGED <<mux, link, dead, session, error, handler, gone>>

\* x.Mux.Close(false), which waits for a Close that is under way.
Detach(n) ==
  LET old == mux[entry[n]]
  IN  /\ pc[n] = "detach"
      /\ \/ session[old] = "open" /\ StartClose(old) /\ UNCHANGED pc
         \/ session[old] = "closed" /\ Goto(n, "rewrite") /\ UNCHANGED <<session, error, handler>>
      /\ UNCHANGED <<map, status, mux, entry, link, dead, gone>>

\* The packet is written to the old link, or that is interrupted.
Rewrite(n) ==
  LET old == link[mux[entry[n]]]
  IN  /\ pc[n] = "rewrite"
      /\ IF old \in dead
           THEN Goto(n, "dispatch") /\ UNCHANGED link
           ELSE Goto(n, "install") /\ link' = [link EXCEPT ![n] = old]
      /\ UNCHANGED <<map, status, mux, entry, dead, session, error, handler, gone>>

Dispatch(n) ==
  /\ pc[n] = "dispatch"
  /\ \/ /\ link' = [link EXCEPT ![n] = n]
        /\ Goto(n, "install")
        /\ UNCHANGED map
     \/ map' = None /\ Goto(n, "broken") /\ UNCHANGED link
  /\ UNCHANGED <<status, mux, entry, dead, session, error, handler, gone>>

\* x.Mux and x.Status are set without a lock.
Install(n) ==
  /\ pc[n] = "install"
  /\ mux' = [mux EXCEPT ![entry[n]] = n]
  /\ status' = [status EXCEPT ![entry[n]] = "Active"]
  /\ session' = [session EXCEPT ![n] = "open"]
  /\ Goto(n, "add")
  /\ UNCHANGED <<map, entry, link, dead, error, handler, gone>>

\* Add fails if the worker has closed: the new session is closed again.
Add(n) ==
  /\ pc[n] = "add"
  /\ IF n \in gone
       THEN Goto(n, "broken") /\ StartClose(n)
       ELSE /\ Goto(n, "back")
            /\ handler' = [handler EXCEPT ![n] = "read"]
            /\ UNCHANGED <<session, error>>
  /\ UNCHANGED <<map, status, mux, entry, link, dead, gone>>

-----------------------------------------------------------------------------
(* handle.                                                                 *)

HandlerGoto(n, to) == handler' = [handler EXCEPT ![n] = to]

\* pipe.ReadMultiBuffer: a packet or the end of the link, or else it waits, for
\* those or for an error that is there already.
HandlerReads(n) ==
  /\ handler[n] \in {"read", "wait"}
  /\ \/ link[n] \notin dead /\ HandlerGoto(n, "write") /\ UNCHANGED error
     \/ link[n] \in dead /\ HandlerGoto(n, "exit") /\ UNCHANGED error
     \/ link[n] \notin error /\ handler[n] = "read" /\ HandlerGoto(n, "wait") /\ UNCHANGED error
     \/ link[n] \in error /\ HandlerGoto(n, "exit") /\ error' = error \ {link[n]}
  /\ UNCHANGED <<map, status, mux, pc, entry, link, dead, session, gone>>

\* The write blocks as long as the old connection does, and fails when it ends.
HandlerWrites(n) ==
  /\ handler[n] = "write"
  /\ \/ HandlerGoto(n, "read")
     \/ n \in gone /\ HandlerGoto(n, "exit")
  /\ UNCHANGED <<map, status, mux, pc, entry, link, dead, session, error, gone>>

\* The End frame, and Session.Close.
HandlerExits(n) ==
  /\ handler[n] = "exit"
  /\ \/ session[n] = "open" /\ StartClose(n)
     \/ session[n] = "closed" /\ HandlerGoto(n, "off") /\ UNCHANGED <<session, error>>
  /\ UNCHANGED <<map, status, mux, pc, entry, link, dead, gone>>

-----------------------------------------------------------------------------
(* The other ways to close, and the end of an entry.                       *)

\* handleStatusEnd.
End(n) ==
  /\ pc[n] = "back" /\ n \notin gone
  /\ session[n] = "open"
  /\ StartClose(n)
  /\ UNCHANGED <<map, status, mux, pc, entry, link, dead, gone>>

\* The connection ends: run returns, SessionManager.Close.
WorkerEnds(n) ==
  /\ pc[n] \in {"new", "back", "broken"} /\ n \notin gone
  /\ session[n] # "stopping"
  /\ gone' = gone \cup {n}
  /\ IF session[n] = "open" THEN StartClose(n) ELSE UNCHANGED <<session, error, handler>>
  /\ Goto(n, IF pc[n] = "new" THEN "broken" ELSE pc[n])
  /\ UNCHANGED <<map, status, mux, entry, link, dead>>

\* The target ends the link.
TargetEnds(l) ==
  /\ l \in {link[n] : n \in News} \ (dead \cup {None})
  /\ dead' = dead \cup {l}
  /\ UNCHANGED <<map, status, mux, pc, entry, link, session, error, handler, gone>>

\* The goroutine started by init, a minute after the entry began to expire.
Clean ==
  /\ map # None /\ status[map] = "Expiring"
  /\ dead' = dead \cup {link[mux[map]]}
  /\ map' = None
  /\ UNCHANGED <<status, mux, pc, entry, link, session, error, handler, gone>>

-----------------------------------------------------------------------------
Frame(n) == Lookup(n) \/ Detach(n) \/ Rewrite(n) \/ Dispatch(n) \/ Install(n) \/ Add(n)
Handle(n) == HandlerReads(n) \/ HandlerWrites(n) \/ HandlerExits(n)

Next ==
  \/ \E n \in News :
       Frame(n) \/ FinishClose(n) \/ Handle(n) \/ End(n) \/ WorkerEnds(n) \/ TargetEnds(n)
  \/ Clean

Spec == Init /\ [][Next]_vars

(* A frame that is being handled is handled to its end, Close returns, and *)
(* the cleaning goroutine comes round.                                     *)
Fairness ==
  /\ \A n \in News :
       WF_vars(pc[n] # "new" /\ Frame(n)) /\ WF_vars(FinishClose(n)) /\ WF_vars(HandlerExits(n))
  /\ SF_vars(Clean)

FairSpec == Spec /\ Fairness

-----------------------------------------------------------------------------
(* A reader that found an entry never meets one whose Mux is nil, although *)
(* entries enter the map before they have one.                             *)
MuxIsSet == \A n \in News : pc[n] \in {"detach", "rewrite"} => mux[entry[n]] # None

(* A flow whose session is open is in the map, and the entry leads to that *)
(* session: a New frame on another connection finds it, and the cleaning   *)
(* goroutine leaves it alone.                                              *)
OpenIsFound ==
  \A n \in News :
    pc[n] = "back" /\ session[n] = "open"
      => map # None /\ mux[map] = n /\ status[map] # "Expiring"

(* A link nobody is attached to any more is closed at last.                *)
LinksEnd ==
  \A n \in News :
    session[n] = "closed"
      ~> \/ link[n] \in dead
         \/ \E m \in News : link[m] = link[n] /\ session[m] # "closed"

(* session.go:178: "Stop existing handle(), then trigger writer.Close()."  *)
(* After Close, the session's handle does not read from the link, which    *)
(* may belong to another session by then.                                  *)
HandleStopped == \A n \in News : session[n] = "closed" => handler[n] \notin {"read", "wait", "write"}
=============================================================================
