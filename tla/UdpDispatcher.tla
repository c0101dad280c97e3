----------------------------- MODULE UdpDispatcher -----------------------------
(***************************************************************************)
(* udp.Dispatcher (transport/internet/udp/dispatcher.go): the packets of   *)
(* one UDP client go through one link to the routing dispatcher, made when *)
(* it is needed and removed when it fails, stands idle or is no longer     *)
(* wanted; and the net.PacketConn on top of it (dispatcherConn).           *)
(***************************************************************************)
EXTENDS Integers, FiniteSets, FiniteSetTheorems, TLAPS

CONSTANTS
  Writers,     \* goroutines that call Dispatch
  MaxRays,     \* how many entries are made
  Capacity,    \* of the cache of a dispatcherConn
  MaxPackets   \* how many packets come back

\* What the constants must satisfy.
ASSUME UdpAssumption == {MaxRays, Capacity, MaxPackets} \subseteq Nat

Rays == 1..MaxRays

VARIABLES
  made,      \* how many entries were made
  conn,      \* v.conn, a set of at most one entry
  shut,      \* entries whose reader was interrupted and writer closed
  ended,     \* entries whose link ended at its other side
  removed,   \* entries RemoveRay has taken away (a history)
  fired,     \* entries whose timer has fired
  canceled,  \* entries whose context was canceled
  handler,   \* handler[r]: handleInput
  has,       \* has[w]: the entry Dispatch works with
  failed,    \* writers whose write failed
  cache,     \* packets in the cache, the set of those that came before Close and
             \* the number of the others
  packets, done, eof

vars == <<made, conn, shut, ended, removed, fired, canceled, handler, has, failed,
          cache, packets, done, eof>>
rayVars == <<conn, shut, canceled>>
readVars == <<cache, packets, done, eof>>

TypeOK ==
  /\ made \in 0..MaxRays
  /\ conn \subseteq 1..made /\ Cardinality(conn) <= 1
  /\ shut \cup ended \cup removed \cup canceled \subseteq 1..made
  /\ fired \subseteq Rays
  /\ handler \in [Rays -> {"off", "loop", "cancel", "close", "returned"}]
  /\ has \in [Writers -> SUBSET Rays] /\ failed \subseteq Writers
  /\ cache \in [early : Nat, late : Nat] /\ cache.early + cache.late <= Capacity
  /\ packets \in 0..MaxPackets /\ {done, eof} \subseteq BOOLEAN

Init ==
  /\ made = 0 /\ conn = {} /\ shut = {} /\ ended = {} /\ removed = {}
  /\ fired = {} /\ canceled = {} /\ failed = {}
  /\ handler = [r \in Rays |-> "off"]
  /\ has = [w \in Writers |-> {}]
  /\ cache = [early |-> 0, late |-> 0]
  /\ packets = 0 /\ done = FALSE /\ eof = FALSE

-----------------------------------------------------------------------------
\* Mutant: the entry is forgotten, its link stays open.
RemoveOpen(r) ==
  /\ conn' = conn \ {r}
  /\ canceled' = canceled \cup (conn \cap {r})
  /\ UNCHANGED shut

\* entry.cancel: the closure removeRay of getInboundRay.
CancelRay(r) ==
  IF r \in conn
  THEN conn' = {} /\ shut' = shut \cup {r} /\ canceled' = canceled \cup {r}
  ELSE UNCHANGED rayVars

\* getInboundRay: the entry that is there.
GetRay(w) ==
  /\ has[w] = {} /\ conn # {}
  /\ has' = [has EXCEPT ![w] = conn]
  /\ UNCHANGED <<made, ended, removed, fired, handler, failed>> /\ UNCHANGED <<rayVars, readVars>>

\* A new one.  (If the routing dispatcher fails nothing changes: the timer of the
\* entry that was not stored fires in vain.)
NewRay(w) ==
  /\ has[w] = {} /\ conn = {} /\ made < MaxRays
  /\ made' = made + 1
  /\ conn' = {made'}
  /\ has' = [has EXCEPT ![w] = {made'}]
  /\ handler' = [handler EXCEPT ![made'] = "loop"]
  /\ UNCHANGED <<shut, canceled, ended, removed, fired, failed>> /\ UNCHANGED readVars

\* The write of Dispatch.
Write(w) ==
  /\ has[w] # {} /\ w \notin failed
  /\ IF has[w] \subseteq shut \cup ended
     THEN failed' = failed \cup {w} /\ UNCHANGED has
     ELSE has' = [has EXCEPT ![w] = {}] /\ UNCHANGED failed
  /\ UNCHANGED <<made, ended, removed, fired, handler>> /\ UNCHANGED <<rayVars, readVars>>

\* It failed.
WriteFailed(w) ==
  /\ w \in failed
  /\ \E r \in has[w] : CancelRay(r)
  /\ has' = [has EXCEPT ![w] = {}] /\ failed' = failed \ {w}
  /\ UNCHANGED <<made, ended, removed, fired, handler>> /\ UNCHANGED readVars

\* The timer of CancelAfterInactivity, a minute after the last packet from the link.
TimerFires(r) ==
  /\ r <= made /\ r \notin fired
  /\ fired' = fired \cup {r}
  /\ CancelRay(r)
  /\ UNCHANGED <<made, ended, removed, handler, has, failed>> /\ UNCHANGED readVars

\* RemoveRay, when the client's connection ends.
RemoveRay ==
  /\ conn # {}
  /\ removed' = removed \cup conn
  /\ conn' = {} /\ shut' = shut \cup conn
  /\ UNCHANGED <<made, canceled, ended, fired, handler, has, failed>> /\ UNCHANGED readVars

\* The other side of the link closes or interrupts it.
LinkEnds(r) ==
  /\ r <= made /\ r \notin ended
  /\ ended' = ended \cup {r}
  /\ UNCHANGED <<made, removed, fired, handler, has, failed>> /\ UNCHANGED <<rayVars, readVars>>

-----------------------------------------------------------------------------
(* handleInput.                                                            *)

\* Its context is canceled, or ReadMultiBuffer fails.
InputEnds(r) ==
  /\ handler[r] = "loop"
  /\ r \in canceled \cup shut \cup ended
  /\ handler' = [handler EXCEPT ![r] = "cancel"]
  /\ UNCHANGED <<made, ended, removed, fired, has, failed>> /\ UNCHANGED <<rayVars, readVars>>

\* conn.cancel().
InputCancels(r) ==
  /\ handler[r] = "cancel"
  /\ CancelRay(r)
  /\ handler' = [handler EXCEPT ![r] = "close"]
  /\ UNCHANGED <<made, ended, removed, fired, has, failed>> /\ UNCHANGED readVars

\* callClose: dispatcherConn.Close.
InputCloses(r) ==
  /\ handler[r] = "close"
  /\ handler' = [handler EXCEPT ![r] = "returned"]
  /\ done' = TRUE
  /\ UNCHANGED <<made, ended, removed, fired, has, failed, cache, packets, eof>> /\ UNCHANGED rayVars

Kept == cache.early + cache.late

\* The send on the channel does not block.
HasRoom == Kept < Capacity

\* A packet comes from the link: dispatcherConn.callback.  When the connection is
\* closed and there is room, select takes either case.
Callback(r) ==
  /\ handler[r] = "loop" /\ packets < MaxPackets
  /\ packets' = packets + 1
  /\ \/ HasRoom /\ cache' = IF done THEN [cache EXCEPT !.late = @ + 1]
                                    ELSE [cache EXCEPT !.early = @ + 1]
     \/ (done \/ ~HasRoom) /\ UNCHANGED cache
  /\ UNCHANGED <<made, ended, removed, fired, handler, has, failed, done, eof>> /\ UNCHANGED rayVars

\* ReadFrom takes the oldest packet.
ReadFrom ==
  /\ ~eof /\ Kept > 0
  /\ cache' = IF cache.early > 0 THEN [cache EXCEPT !.early = @ - 1] ELSE [cache EXCEPT !.late = @ - 1]
  /\ UNCHANGED <<made, ended, removed, fired, handler, has, failed, packets, done, eof>> /\ UNCHANGED rayVars

\* io.EOF.
ReadEOF ==
  /\ ~eof /\ done /\ Kept = 0
  /\ eof' = TRUE
  /\ UNCHANGED <<made, ended, removed, fired, handler, has, failed, cache, packets, done>> /\ UNCHANGED rayVars

\* The owner closes the connection.
Close ==
  /\ done' = TRUE
  /\ UNCHANGED <<made, ended, removed, fired, handler, has, failed, cache, packets, eof>> /\ UNCHANGED rayVars

HandleInput(r) == InputEnds(r) \/ InputCancels(r) \/ InputCloses(r)

Next ==
  \/ \E w \in Writers : GetRay(w) \/ NewRay(w) \/ Write(w) \/ WriteFailed(w)
  \/ \E r \in Rays : TimerFires(r) \/ LinkEnds(r) \/ HandleInput(r) \/ Callback(r)
  \/ RemoveRay \/ ReadFrom \/ ReadEOF \/ Close

Spec == Init /\ [][Next]_vars

(* Goroutines run.                                                         *)
Fairness == \A r \in Rays : WF_vars(HandleInput(r))

FairSpec == Spec /\ Fairness

-----------------------------------------------------------------------------
(* No link is left open: an entry is the current one, or both ends of its  *)
(* link were shut.                                                         *)
NoLeakedRay == \A r \in 1..made : r \in conn \/ r \in shut

(* dispatcher.go:73, "sometimes the entry is already removed by others,    *)
(* don't close again": a late cancel of an older entry does not shut the   *)
(* newer one.  An entry is shut because its own link ended, its own timer  *)
(* fired or RemoveRay took it away.                                        *)
OwnCause == shut \subseteq ended \cup fired \cup removed

(* What came before Close is read before the end of the stream.            *)
EarlyIsRead == eof => cache.early = 0

(* The links of the dispatcher are accounted for: none is left open, none  *)
(* is shut for the sake of another, and what they brought is read.         *)
RaysAccounted == NoLeakedRay /\ OwnCause /\ EarlyIsRead

(* A link that ended does not stay the current one, where every packet of  *)
(* the client would be lost in it.                                         *)
DeadRayGoes == \A r \in Rays : r \in ended ~> r \notin conn

(* The goroutine of every entry that was shut returns.                     *)
HandlerReturns == \A r \in Rays : r \in shut ~> handler[r] = "returned"

-----------------------------------------------------------------------------
(* Proofs, for any number of writers, entries and packets.                 *)

(* That RaysAccounted holds of a cancel depends on who calls it: a writer  *)
(* that failed or a handler that ends has seen that its entry was shut,    *)
(* canceled or at its end, and an entry that was shut or canceled is never *)
(* the current one again.                                                  *)
RayInv ==
  /\ TypeOK
  /\ conn \subseteq {made}
  /\ conn \cap shut = {} /\ canceled \subseteq shut
  /\ \A r \in Rays : handler[r] \in {"cancel", "close"} => r \in canceled \cup shut \cup ended
  /\ \A w \in failed : has[w] # {} /\ has[w] \subseteq shut \cup ended
  /\ eof => done
  /\ RaysAccounted

\* Sets with one member at most, and entries that were made.
LEMMA Sizes ==
  /\ Cardinality({}) <= 1 /\ \A r : Cardinality({r}) <= 1
  /\ MaxRays \in Nat /\ Capacity \in Nat /\ MaxPackets \in Nat
  /\ made \in 0..MaxRays => made \in Nat /\ 1..made \subseteq Rays
<1>1. Cardinality({}) = 0
  BY FS_EmptySet
<1>2. \A r : Cardinality({r}) = 1
  BY FS_Singleton, Zenon
<1>3. MaxRays \in Nat /\ Capacity \in Nat /\ MaxPackets \in Nat
  BY UdpAssumption
<1>4. made \in 0..MaxRays => made \in Nat /\ 1..made \subseteq Rays
  BY <1>3 DEF Rays
<1>5. Cardinality({}) <= 1
  BY <1>1
<1>6. ASSUME NEW r
      PROVE  Cardinality({r}) <= 1
  <2>1. Cardinality({r}) = 1
    BY <1>2
  <2>. QED  BY <2>1
<1>. QED  BY <1>3, <1>4, <1>5, <1>6, Zenon

\* What entry.cancel leaves of the invariant, called by somebody who knows a cause.
LEMMA CancelKeeps ==
  ASSUME RayInv, NEW r \in 1..made, CancelRay(r), r \in shut \cup ended \cup fired'
  PROVE  /\ conn' \subseteq {made} /\ shut \subseteq shut' /\ shut' \cup canceled' \subseteq 1..made
         /\ conn' \cap shut' = {} /\ canceled' \subseteq shut'
         /\ \A q \in 1..made : q \in conn' \/ q \in shut'
         /\ shut' \subseteq shut \cup ended \cup fired'
         /\ Cardinality(conn') <= 1
<1>1. CASE r \in conn
  BY <1>1, Sizes, SMTT(30) DEF CancelRay, RayInv, TypeOK, RaysAccounted, NoLeakedRay
<1>2. CASE r \notin conn
  BY <1>2, Zenon DEF CancelRay, rayVars, RayInv, TypeOK, RaysAccounted, NoLeakedRay
<1>. QED  BY <1>1, <1>2

(* RayInv holds before the first packet.                                   *)
LEMMA RayInvInit == Init => RayInv
<1> SUFFICES ASSUME Init
             PROVE  RayInv
  OBVIOUS
<1>1. cache = [early |-> 0, late |-> 0] /\ handler = [r \in Rays |-> "off"]
      /\ has = [w \in Writers |-> {}]
  BY DEF Init
<1>2. TypeOK
  <2>1. Cardinality(conn) <= 1
    BY Sizes, Zenon DEF Init
  <2>2. cache \in [early : Nat, late : Nat] /\ cache.early + cache.late <= Capacity
    BY <1>1, Sizes
  <2>3. made \in 0..MaxRays /\ packets \in 0..MaxPackets
    BY UdpAssumption DEF Init
  <2>4. {done, eof} \subseteq BOOLEAN /\ fired \subseteq Rays /\ failed \subseteq Writers
    BY Zenon DEF Init
  <2>5. /\ handler \in [Rays -> {"off", "loop", "cancel", "close", "returned"}]
        /\ has \in [Writers -> SUBSET Rays]
    BY <1>1
  <2>6. conn \subseteq 1..made /\ shut \cup ended \cup removed \cup canceled \subseteq 1..made
    BY DEF Init
  <2>. QED  BY <2>1, <2>2, <2>3, <2>4, <2>5, <2>6 DEF TypeOK
<1>. QED  BY <1>1, <1>2 DEF Init, RayInv, RaysAccounted, NoLeakedRay, OwnCause, EarlyIsRead

(* Every step of the writers, the handlers and the timers keeps RayInv.    *)
LEMMA RayInvStep == RayInv /\ [Next]_vars => RayInv'
<1> SUFFICES ASSUME RayInv, [Next]_vars
             PROVE  RayInv'
  OBVIOUS
<1> USE DEF RayInv, TypeOK, RaysAccounted, NoLeakedRay, OwnCause, EarlyIsRead, rayVars, readVars
<1>1. ASSUME NEW w \in Writers, GetRay(w)
      PROVE  RayInv'
  BY <1>1, Sizes DEF GetRay
<1>2. ASSUME NEW w \in Writers, NewRay(w)
      PROVE  RayInv'
  <2>1. made + 1 \in Rays /\ made + 1 \in 0..MaxRays /\ made \in Nat
    BY <1>2, Sizes DEF NewRay, Rays
  <2>2. TypeOK'
    <3>1. /\ made' = made + 1 /\ conn' = {made + 1}
          /\ has' = [has EXCEPT ![w] = {made + 1}]
          /\ handler' = [handler EXCEPT ![made + 1] = "loop"]
      BY <1>2 DEF NewRay
    <3>2. conn' \subseteq 1..made'
      BY <2>1, <3>1
    <3>3. Cardinality(conn') <= 1
      BY <3>1, Sizes, Zenon
    <3>. QED  BY <1>2, <2>1, <3>1, <3>2, <3>3 DEF NewRay
  <2>3. /\ conn' \subseteq {made'} /\ conn' \cap shut' = {}
        /\ NoLeakedRay'
    BY <1>2, <2>1 DEF NewRay
  <2>4. \A r \in Rays : handler'[r] \in {"cancel", "close"} => r \in canceled \cup shut \cup ended
    BY <1>2, <2>1 DEF NewRay
  <2>5. \A v \in failed : has'[v] # {} /\ has'[v] \subseteq shut \cup ended
    BY <1>2, <2>1 DEF NewRay
  <2>. QED  BY <1>2, <2>2, <2>3, <2>4, <2>5 DEF NewRay
<1>3. ASSUME NEW w \in Writers, Write(w)
      PROVE  RayInv'
  BY <1>3 DEF Write
<1>4. ASSUME NEW w \in Writers, WriteFailed(w)
      PROVE  RayInv'
  <2>1. PICK r \in has[w] : CancelRay(r)
    BY <1>4 DEF WriteFailed
  <2>2. r \in shut \cup ended /\ r \in 1..made
    BY <1>4 DEF WriteFailed
  <2>. QED  BY <1>4, <2>1, <2>2, CancelKeeps DEF WriteFailed
<1>5. ASSUME NEW r \in Rays, TimerFires(r)
      PROVE  RayInv'
  <2>1. r \in 1..made /\ r \in fired'
    BY <1>5 DEF TimerFires, Rays
  <2>. QED  BY <1>5, <2>1, CancelKeeps DEF TimerFires
<1>6. ASSUME NEW r \in Rays, LinkEnds(r)
      PROVE  RayInv'
  BY <1>6, SMTT(30) DEF LinkEnds, Rays
<1>7. ASSUME NEW r \in Rays, InputEnds(r)
      PROVE  RayInv'
  BY <1>7 DEF InputEnds
<1>8. ASSUME NEW r \in Rays, InputCancels(r)
      PROVE  RayInv'
  <2>1. r \in shut \cup ended /\ r \in 1..made
    BY <1>8 DEF InputCancels
  <2>. QED  BY <1>8, <2>1, CancelKeeps DEF InputCancels
<1>9. ASSUME NEW r \in Rays, InputCloses(r)
      PROVE  RayInv'
  BY <1>9 DEF InputCloses
<1>10. ASSUME NEW r \in Rays, Callback(r)
       PROVE  RayInv'
  <2>1. /\ cache' \in [early : Nat, late : Nat] /\ cache'.early + cache'.late <= Capacity
        /\ done => cache'.early = cache.early
    BY <1>10, UdpAssumption DEF Callback, HasRoom, Kept
  <2>. QED  BY <1>10, <2>1, UdpAssumption DEF Callback
<1>11. CASE RemoveRay
  BY <1>11, Sizes, Zenon DEF RemoveRay
<1>12. CASE ReadFrom
  <2>1. /\ cache' \in [early : Nat, late : Nat] /\ cache'.early + cache'.late <= Capacity
    BY <1>12, UdpAssumption DEF ReadFrom, Kept
  <2>. QED  BY <1>12, <2>1 DEF ReadFrom
<1>13. CASE ReadEOF
  BY <1>13 DEF ReadEOF, Kept
<1>14. CASE Close
  BY <1>14 DEF Close
<1>15. CASE UNCHANGED vars
  BY <1>15 DEF vars
<1>. QED  BY <1>1, <1>2, <1>3, <1>4, <1>5, <1>6, <1>7, <1>8, <1>9, <1>10, <1>11, <1>12, <1>13,
             <1>14, <1>15, ZenonT(60) DEF Next, HandleInput

\* However cancels, timers, RemoveRay and the ends of links interleave, no link of
\* udp.Dispatcher is left open or shut for the sake of another, and ReadFrom returns
\* every packet that was in the cache before Close.
THEOREM AllAccounted == Spec => []RaysAccounted
<1>1. RayInv => RaysAccounted
  BY DEF RayInv
<1>. QED  BY RayInvInit, RayInvStep, <1>1, PTL DEF Spec

\* The state of the dispatcher keeps its type; one entry at most is the current one.
THEOREM TypeCorrect == Spec => []TypeOK
<1>1. RayInv => TypeOK
  BY DEF RayInv
<1>. QED  BY RayInvInit, RayInvStep, <1>1, PTL DEF Spec
=============================================================================
