---------------------------- MODULE XhttpSessions -----------------------------
(***************************************************************************)
(* The server of the XHTTP transport (transport/internet/splithttp/hub.go):*)
(* ServeHTTP for the requests that bear the same session id.  Whichever    *)
(* comes first makes the session; POSTs push into its upload queue, the    *)
(* GET hands it to the inbound as a connection and closes it in the end,   *)
(* and a reaper closes a session whose GET does not come within its time.  *)
(* The queue is UploadQueue's; here it has room for every POST.            *)
(***************************************************************************)
EXTENDS Integers, FiniteSets, Sequences, SequenceTheorems, TLAPS

CONSTANTS
  Requests,     \* the requests of one session id
  Kind,         \* Kind[r]: "get", "post" (packet-up), "stream" (stream-up) or "other"
  Forbidden,    \* kinds that the configured mode does not allow
  MayReap       \* the reaper's 30 seconds may be up

\* What the constants must satisfy.
SessionsAssumption ==
  /\ Kind \in [Requests -> {"get", "post", "stream", "other"}]
  /\ Forbidden \subseteq {"post", "stream"}

VARIABLES
  entry,    \* what sessions holds under the id; 0: nothing
  sess,     \* the sessions, numbered as they are made
  req       \* req[r]: where a request is, and the session it was given

vars == <<entry, sess, req>>

Gets == {r \in Requests : Kind[r] = "get"}

NewSession ==
  [connected |-> FALSE,    \* isFullyConnected
   due |-> FALSE,          \* shouldReap
   reaper |-> "start",     \* the goroutine that waits for either
   closed |-> FALSE, nomore |-> FALSE, got |-> {},     \* the upload queue
   intime |-> FALSE]       \* a history: a GET came while the reaper waited

Init ==
  /\ entry = 0 /\ sess = <<>>
  /\ req = [r \in Requests |-> [pc |-> "new", of |-> 0]]

Goto(r, pc) == req' = [req EXCEPT ![r].pc = pc]
Mine(r) == sess[req[r].of]

-----------------------------------------------------------------------------
(* upsertSession.                                                          *)

\* The host, the path or the padding is not what the configuration says.
Refuse(r) ==
  /\ req[r].pc = "new"
  /\ Goto(r, "refused")
  /\ UNCHANGED <<entry, sess>>

\* The fast path.
Load(r) ==
  /\ req[r].pc = "new"
  /\ req' = [req EXCEPT ![r] = [pc |-> IF entry = 0 THEN "slow" ELSE "have", of |-> entry]]
  /\ UNCHANGED <<entry, sess>>

\* Mutant: what another request has stored meanwhile is replaced.
UpsertUnchecked(r) ==
  /\ req[r].pc = "slow"
  /\ sess' = Append(sess, NewSession) /\ entry' = Len(sess) + 1
  /\ req' = [req EXCEPT ![r] = [pc |-> "have", of |-> entry']]

\* The slow path, under sessionMu.
Upsert(r) ==
  /\ req[r].pc = "slow"
  /\ IF entry # 0 THEN UNCHANGED <<entry, sess>>
     ELSE sess' = Append(sess, NewSession) /\ entry' = Len(sess) + 1
  /\ req' = [req EXCEPT ![r] = [pc |-> "have", of |-> entry']]

-----------------------------------------------------------------------------
(* The reaper of session s.                                                *)

\* time.Sleep is over: a goroutine that waits takes this, one that comes later may.
Fire(s) ==
  /\ MayReap /\ ~sess[s].due
  /\ sess' = [sess EXCEPT ![s].due = TRUE,
                          ![s].reaper = IF @ = "parked" THEN "delete" ELSE @]
  /\ UNCHANGED <<entry, req>>

\* The select; with both channels closed it takes either.
Select(s) ==
  /\ sess[s].reaper = "start"
  /\ \E to \in IF ~sess[s].due /\ ~sess[s].connected THEN {"parked"}
               ELSE (IF sess[s].due THEN {"delete"} ELSE {}) \cup
                    (IF sess[s].connected THEN {"off"} ELSE {}) :
       sess' = [sess EXCEPT ![s].reaper = to]
  /\ UNCHANGED <<entry, req>>

\* Whatever session the id names now.
ReaperDeletes(s) ==
  /\ sess[s].reaper = "delete"
  /\ entry' = 0
  /\ sess' = [sess EXCEPT ![s].reaper = "close"]
  /\ UNCHANGED req

ReaperCloses(s) ==
  /\ sess[s].reaper = "close"
  /\ sess' = [sess EXCEPT ![s].reaper = "off", ![s].closed = TRUE]
  /\ UNCHANGED <<entry, req>>

-----------------------------------------------------------------------------
(* The methods.                                                            *)

\* uploadQueue.Push; a body that cannot be read, is too large, or is not
\* allowed by the mode is answered before.
Push(r) ==
  /\ req[r].pc = "have" /\ Kind[r] \in {"post", "stream"}
  /\ \/ Goto(r, "failed") /\ UNCHANGED sess
     \/ /\ Kind[r] \notin Forbidden
        /\ IF Mine(r).closed \/ Mine(r).nomore
             THEN Goto(r, "failed") /\ UNCHANGED sess
             ELSE /\ sess' = [sess EXCEPT ![req[r].of].got = @ \cup {r},
                                          ![req[r].of].nomore = (Kind[r] = "stream")]
                  /\ Goto(r, IF Kind[r] = "stream" THEN "streaming" ELSE "ok")
  /\ UNCHANGED entry

\* stream-up: until the queue closes its reader, or the client goes.
StreamEnds(r) ==
  /\ req[r].pc = "streaming"
  /\ Goto(r, "ok")
  /\ UNCHANGED <<entry, sess>>

Unsupported(r) ==
  /\ req[r].pc = "have" /\ Kind[r] = "other"
  /\ Goto(r, "failed")
  /\ UNCHANGED <<entry, sess>>

\* The GET takes the session from its reaper and gives it to the inbound.
Serve(r) ==
  /\ req[r].pc = "have" /\ Kind[r] = "get"
  /\ sess' = [sess EXCEPT ![req[r].of].connected = TRUE,
                          ![req[r].of].reaper = IF @ = "parked" THEN "off" ELSE @,
                          ![req[r].of].intime = @ \/ Mine(r).reaper = "parked"]
  /\ Goto(r, "serving")
  /\ UNCHANGED entry

\* The request or the inbound is done: conn.Close.
GetEnds(r) ==
  /\ req[r].pc = "serving"
  /\ sess' = [sess EXCEPT ![req[r].of].closed = TRUE]
  /\ Goto(r, "delete")
  /\ UNCHANGED entry

\* The deferred Delete.
GetDeletes(r) ==
  /\ req[r].pc = "delete"
  /\ entry' = 0
  /\ Goto(r, "ok")
  /\ UNCHANGED sess

-----------------------------------------------------------------------------
Serves(r) ==
  \/ Load(r) \/ Refuse(r) \/ Upsert(r) \/ Push(r) \/ StreamEnds(r) \/ Unsupported(r)
  \/ Serve(r) \/ GetEnds(r) \/ GetDeletes(r)

Reaps(s) == Fire(s) \/ Select(s) \/ ReaperDeletes(s) \/ ReaperCloses(s)

Next == (\E r \in Requests : Serves(r)) \/ (\E s \in DOMAIN sess : Reaps(s))

Spec == Init /\ [][Next]_vars

\* Handlers and reapers run, connections end, and 30 seconds pass.
Fairness ==
  /\ \A r \in Requests : WF_vars(req[r].pc # "new" /\ Serves(r))
  /\ \A s \in 1..Cardinality(Requests) : WF_vars(s \in DOMAIN sess /\ Reaps(s))
FairSpec == Spec /\ Fairness

-----------------------------------------------------------------------------
TypeOK ==
  /\ entry \in 0..Len(sess) /\ Len(sess) <= Cardinality(Requests)
  /\ \A s \in DOMAIN sess : sess[s].reaper \in {"start", "parked", "delete", "close", "off"}
  /\ \A r \in Requests : req[r].of \in 0..Len(sess)

(* As long as no reaper's time is up and no GET has ended there is one     *)
(* session: of the requests that come together one makes it and the others *)
(* find it, so that what a POST brings is read by the GET.                 *)
OneSession ==
  /\ \A s \in DOMAIN sess : ~sess[s].due
  /\ \A r \in Gets : req[r].pc \notin {"delete", "ok"}
  => Len(sess) <= 1 /\ entry = Len(sess)

(* A queue that is open has somebody who is going to close it: its reaper, *)
(* or a GET that took it over; none is handed over to nobody.              *)
QueueHasOwner ==
  \A s \in DOMAIN sess :
    \/ sess[s].closed
    \/ sess[s].reaper # "off"
    \/ \E r \in Gets : req[r].of = s /\ req[r].pc = "serving"

(* "the session lives as long as the GET request": once a GET has come in  *)
(* time, nothing but the end of a GET closes the queue.                    *)
LivesWithGet ==
  \A s \in DOMAIN sess : sess[s].intime /\ sess[s].closed =>
    \E r \in Gets : req[r].of = s /\ req[r].pc \in {"delete", "ok"}

(* The sessions of one id have their owners, from the first request to the *)
(* end of the GET.                                                         *)
SessionsOwned == OneSession /\ QueueHasOwner /\ LivesWithGet

(* In the end the queue of every session is closed and the table is empty, *)
(* whichever requests came, failed or never came.                          *)
SessionsEnd == <>[](entry = 0 /\ \A s \in DOMAIN sess : sess[s].closed)

-----------------------------------------------------------------------------
(* Proofs, for any requests in any modes.                                  *)

Session ==
  [connected : BOOLEAN, due : BOOLEAN, reaper : {"start", "parked", "delete", "close", "off"},
   closed : BOOLEAN, nomore : BOOLEAN, got : SUBSET Requests, intime : BOOLEAN]

Held == {"have", "streaming", "serving", "delete"}
Places == Held \cup {"new", "refused", "slow", "failed", "ok"}

Typed ==
  /\ sess \in Seq(Session) /\ entry \in 0..Len(sess)
  /\ req \in [Requests -> [pc : Places, of : 0..Len(sess)]]
  /\ \A r \in Requests : /\ req[r].pc \in Held => req[r].of # 0
                         /\ req[r].pc \in {"serving", "delete"} => r \in Gets

(* A reaper that is on its way to close the queue has seen that the time   *)
(* is up; one that was told of a GET in time has ended, and so has one     *)
(* that has closed the queue itself; and a GET that tells a reaper that it *)
(* has come closes the queue in its place.                                 *)
Owners ==
  \A s \in DOMAIN sess :
    /\ sess[s].reaper \in {"delete", "close"} => sess[s].due
    /\ sess[s].intime => sess[s].reaper = "off"
    /\ sess[s].closed => \/ sess[s].reaper = "off"
                         \/ \E r \in Gets : req[r].of = s /\ req[r].pc \in {"delete", "ok"}
    /\ sess[s].connected => \/ sess[s].closed
                            \/ \E r \in Gets : req[r].of = s /\ req[r].pc = "serving"

SessionInv == Typed /\ Owners /\ SessionsOwned

\* A step that changes one session.
LEMMA OneChanges ==
  ASSUME Typed, NEW s \in DOMAIN sess, NEW v \in Session, sess' = [sess EXCEPT ![s] = v]
  PROVE  /\ sess' \in Seq(Session) /\ Len(sess') = Len(sess) /\ DOMAIN sess' = DOMAIN sess
         /\ sess'[s] = v /\ \A t \in DOMAIN sess \ {s} : sess'[t] = sess[t]
BY DEF Typed

\* A request has moved to pc.
Moved(r, pc) ==
  /\ req' \in [Requests -> [pc : Places, of : 0..Len(sess)]]
  /\ \A q \in Requests : /\ req'[q].pc \in Held => req'[q].of # 0
                         /\ req'[q].pc \in {"serving", "delete"} => q \in Gets
  /\ req'[r].pc = pc /\ req'[r].of = req[r].of
  /\ \A q \in Requests \ {r} : req'[q] = req[q]

(* Goto moves one request and leaves the types and the others alone.       *)
LEMMA OneMoves ==
  ASSUME Typed, NEW r \in Requests, NEW pc \in Places, Goto(r, pc),
         pc \in Held => req[r].pc \in Held, pc \in {"serving", "delete"} => r \in Gets
  PROVE  Moved(r, pc)
BY DEF Typed, Goto, Moved

(* SessionInv holds before the first request.                              *)
LEMMA SessionInvInit == Init => SessionInv
<1> SUFFICES ASSUME Init
             PROVE  SessionInv
  OBVIOUS
<1>1. sess = <<>> /\ entry = 0 /\ Len(sess) = 0 /\ DOMAIN sess = {} /\ sess \in Seq(Session)
  BY DEF Init
<1>2. Typed
  BY <1>1 DEF Init, Typed, Places, Held
<1>. QED  BY <1>1, <1>2 DEF SessionInv, Owners, SessionsOwned, OneSession, QueueHasOwner, LivesWithGet

\* Requests that leave the sessions as they are.
LEMMA QuietSteps ==
  ASSUME SessionInv, NEW r \in Requests,
         Refuse(r) \/ Load(r) \/ StreamEnds(r) \/ Unsupported(r) \/ GetDeletes(r)
  PROVE  SessionInv'
<1> USE DEF SessionInv
<1>1. UNCHANGED sess /\ req[r].pc # "serving"
  BY DEF Refuse, Load, StreamEnds, Unsupported, GetDeletes
<1>2. /\ req' \in [Requests -> [pc : Places, of : 0..Len(sess)]]
      /\ \A q \in Requests : /\ req'[q].pc \in Held => req'[q].of # 0
                             /\ req'[q].pc \in {"serving", "delete"} => q \in Gets
      /\ req'[r].pc # "serving"
      /\ \A q \in Requests \ {r} : req'[q] = req[q]
      /\ req[r].pc \in {"delete", "ok"} => req'[r].pc \in {"delete", "ok"} /\ req'[r].of = req[r].of
  <2>1. CASE Load(r)
    <3>1. req' = [req EXCEPT ![r] = [pc |-> IF entry = 0 THEN "slow" ELSE "have", of |-> entry]]
      BY <2>1 DEF Load
    <3>. QED  BY <2>1, <3>1 DEF Load, Typed, Places, Held
  <2>2. CASE Refuse(r)
    <3>1. Goto(r, "refused") /\ req[r].pc = "new"
      BY <2>2 DEF Refuse
    <3>2. Moved(r, "refused")
      BY <3>1, OneMoves DEF Places, Held
    <3>. QED  BY <3>1, <3>2 DEF Moved
  <2>3. CASE StreamEnds(r) \/ GetDeletes(r)
    <3>1. Goto(r, "ok") /\ req[r].pc \in {"streaming", "delete"}
      BY <2>3 DEF StreamEnds, GetDeletes
    <3>2. Moved(r, "ok")
      BY <3>1, OneMoves DEF Places, Held
    <3>. QED  BY <3>1, <3>2 DEF Moved
  <2>4. CASE Unsupported(r)
    <3>1. Goto(r, "failed") /\ req[r].pc = "have"
      BY <2>4 DEF Unsupported
    <3>2. Moved(r, "failed")
      BY <3>1, OneMoves DEF Places, Held
    <3>. QED  BY <3>1, <3>2 DEF Moved
  <2>. QED  BY <2>1, <2>2, <2>3, <2>4
<1>3. entry' = entry \/ (entry' = 0 /\ r \in Gets /\ req'[r].pc = "ok")
  <2>1. CASE GetDeletes(r)
    <3>1. Goto(r, "ok") /\ entry' = 0 /\ req[r].pc = "delete"
      BY <2>1 DEF GetDeletes
    <3>2. Moved(r, "ok")
      BY <3>1, OneMoves DEF Places, Held
    <3>. QED  BY <3>1, <3>2 DEF Moved, Typed
  <2>2. CASE ~GetDeletes(r)
    BY <2>2 DEF Refuse, Load, StreamEnds, Unsupported
  <2>. QED  BY <2>1, <2>2
<1>4. Typed'
  BY <1>1, <1>2, <1>3 DEF Typed
<1>5. Owners'
  BY <1>1, <1>2 DEF Owners, Gets
<1>6. OneSession'
  BY <1>1, <1>2, <1>3 DEF SessionsOwned, OneSession, Gets
<1>7. QueueHasOwner'
  BY <1>1, <1>2 DEF SessionsOwned, QueueHasOwner, Gets
<1>8. LivesWithGet'
  BY <1>1, <1>2 DEF SessionsOwned, LivesWithGet, Gets
<1>. QED  BY <1>4, <1>5, <1>6, <1>7, <1>8 DEF SessionsOwned

\* A request that makes the session, or finds that another has.
LEMMA UpsertStep ==
  ASSUME SessionInv, NEW r \in Requests, Upsert(r)
  PROVE  SessionInv'
<1> USE DEF SessionInv
<1>1. /\ req[r].pc = "slow" /\ req' = [req EXCEPT ![r] = [pc |-> "have", of |-> entry']]
  BY DEF Upsert
<1>2. CASE entry # 0
  <2>1. UNCHANGED <<entry, sess>>
    BY <1>2 DEF Upsert
  <2>2. Typed'
    BY <1>1, <1>2, <2>1 DEF Typed, Places, Held
  <2>3. \A q \in Requests : /\ q # r => req'[q] = req[q]
                            /\ req[q].pc \in {"serving", "delete", "ok"} => q # r
    BY <1>1 DEF Typed
  <2>4. req'[r].pc = "have"
    BY <1>1 DEF Typed
  <2>5. Owners'
    BY <2>1, <2>3 DEF Owners, Gets
  <2>6. OneSession' /\ QueueHasOwner' /\ LivesWithGet'
    BY <2>1, <2>3, <2>4 DEF SessionsOwned, OneSession, QueueHasOwner, LivesWithGet, Gets
  <2>. QED  BY <2>2, <2>5, <2>6 DEF SessionsOwned
<1>3. CASE entry = 0
  <2>1. sess' = Append(sess, NewSession) /\ entry' = Len(sess) + 1
    BY <1>3 DEF Upsert
  <2>2. NewSession \in Session
    BY DEF NewSession, Session
  <2>3. /\ sess' \in Seq(Session) /\ Len(sess') = Len(sess) + 1 /\ Len(sess) \in Nat
        /\ DOMAIN sess' = DOMAIN sess \cup {Len(sess) + 1}
        /\ sess'[Len(sess) + 1] = NewSession
        /\ \A s \in DOMAIN sess : sess'[s] = sess[s]
    BY <2>1, <2>2 DEF Typed
  <2>4. Typed'
    BY <1>1, <2>1, <2>3 DEF Typed, Places, Held
  <2>5. \A q \in Requests : /\ q # r => req'[q] = req[q]
                            /\ req[q].pc \in {"serving", "delete", "ok"} => q # r
    BY <1>1 DEF Typed
  <2>6. req'[r].pc = "have"
    BY <1>1 DEF Typed
  <2>7. /\ NewSession.reaper = "start" /\ NewSession.connected = FALSE /\ NewSession.due = FALSE
        /\ NewSession.closed = FALSE /\ NewSession.intime = FALSE
    BY DEF NewSession
  <2>8. Owners'
    BY <2>3, <2>5, <2>7 DEF Owners, Gets
  <2>9. QueueHasOwner' /\ LivesWithGet'
    BY <2>3, <2>5, <2>7 DEF SessionsOwned, QueueHasOwner, LivesWithGet, Gets
  <2>10. OneSession'
    <3>1. ASSUME \A s \in DOMAIN sess' : ~sess'[s].due,
                 \A q \in Gets : req'[q].pc \notin {"delete", "ok"}
          PROVE  Len(sess) = 0
      <4>1. \A s \in DOMAIN sess : ~sess[s].due
        BY <3>1, <2>3
      <4>2. \A q \in Gets : req[q].pc \notin {"delete", "ok"}
        BY <3>1, <2>5 DEF Gets
      <4>. QED  BY <1>3, <4>1, <4>2 DEF SessionsOwned, OneSession
    <3>. QED  BY <2>1, <2>3, <3>1 DEF OneSession
  <2>. QED  BY <2>4, <2>8, <2>9, <2>10 DEF SessionsOwned
<1>. QED  BY <1>2, <1>3

\* The reaper of a session.
LEMMA ReaperSteps ==
  ASSUME SessionInv, NEW s \in DOMAIN sess, Reaps(s)
  PROVE  SessionInv'
<1> USE DEF SessionInv
<1>1. sess[s] \in Session /\ UNCHANGED req
  BY DEF Typed, Reaps, Fire, Select, ReaperDeletes, ReaperCloses
<1>2. \E v \in Session :
        /\ sess' = [sess EXCEPT ![s] = v]
        /\ v.connected = sess[s].connected /\ v.intime = sess[s].intime
        /\ sess[s].due => v.due
        /\ sess[s].closed => v.closed
        /\ v.reaper \in {"delete", "close"} => v.due
        /\ sess[s].reaper = "off" => v.reaper = "off"
        /\ v.reaper = "off" => v.closed \/ sess[s].connected \/ sess[s].reaper = "off"
        /\ v.closed => sess[s].closed \/ (sess[s].reaper = "close" /\ v.reaper = "off")
        /\ entry' = entry \/ (entry' = 0 /\ v.due)
  <2>1. CASE Fire(s)
    <3> DEFINE v == [sess[s] EXCEPT !.due = TRUE,
                                    !.reaper = IF @ = "parked" THEN "delete" ELSE @]
    <3>1. sess' = [sess EXCEPT ![s] = v] /\ entry' = entry
      BY <2>1, <1>1, Zenon DEF Fire, Session
    <3>2. v \in Session
      BY <1>1, Zenon DEF Session
    <3>3. /\ v.connected = sess[s].connected /\ v.intime = sess[s].intime /\ v.due = TRUE
          /\ v.closed = sess[s].closed
          /\ v.reaper = IF sess[s].reaper = "parked" THEN "delete" ELSE sess[s].reaper
      BY <1>1 DEF Session
    <3> HIDE DEF v
    <3>. QED  BY <1>1, <3>1, <3>2, <3>3, Zenon
  <2>2. CASE Select(s)
    <3>1. PICK to \in {"parked", "delete", "off"} :
            /\ sess' = [sess EXCEPT ![s].reaper = to]
            /\ to = "delete" => sess[s].due
            /\ to = "off" => sess[s].connected
      BY <2>2, <1>1, Zenon DEF Select, Session
    <3> DEFINE v == [sess[s] EXCEPT !.reaper = to]
    <3>2. v \in Session /\ sess' = [sess EXCEPT ![s] = v]
      BY <1>1, <3>1 DEF Session
    <3>3. sess[s].reaper = "start" /\ entry' = entry
      BY <2>2 DEF Select
    <3>. QED  BY <1>1, <3>1, <3>2, <3>3, Zenon DEF Session
  <2>3. CASE ReaperDeletes(s)
    <3> DEFINE v == [sess[s] EXCEPT !.reaper = "close"]
    <3>1. v \in Session /\ sess' = [sess EXCEPT ![s] = v] /\ entry' = 0
          /\ sess[s].reaper = "delete"
      BY <2>3, <1>1 DEF ReaperDeletes, Session
    <3>. QED  BY <1>1, <3>1, Zenon DEF Owners, Session
  <2>4. CASE ReaperCloses(s)
    <3> DEFINE v == [sess[s] EXCEPT !.reaper = "off", !.closed = TRUE]
    <3>1. v \in Session /\ sess' = [sess EXCEPT ![s] = v] /\ entry' = entry
          /\ sess[s].reaper = "close"
      BY <2>4, <1>1, Zenon DEF ReaperCloses, Session
    <3>. QED  BY <1>1, <3>1, Zenon DEF Session
  <2>. QED  BY <2>1, <2>2, <2>3, <2>4 DEF Reaps
<1>3. PICK v \in Session :
        /\ sess' = [sess EXCEPT ![s] = v]
        /\ v.connected = sess[s].connected /\ v.intime = sess[s].intime
        /\ sess[s].due => v.due
        /\ sess[s].closed => v.closed
        /\ v.reaper \in {"delete", "close"} => v.due
        /\ sess[s].reaper = "off" => v.reaper = "off"
        /\ v.reaper = "off" => v.closed \/ sess[s].connected \/ sess[s].reaper = "off"
        /\ v.closed => sess[s].closed \/ (sess[s].reaper = "close" /\ v.reaper = "off")
        /\ entry' = entry \/ (entry' = 0 /\ v.due)
  BY <1>2, Zenon
<1>4. /\ sess' \in Seq(Session) /\ Len(sess') = Len(sess) /\ DOMAIN sess' = DOMAIN sess
      /\ sess'[s] = v /\ \A t \in DOMAIN sess \ {s} : sess'[t] = sess[t]
  BY <1>3, OneChanges, Zenon
<1>5. Typed'
  BY <1>1, <1>3, <1>4 DEF Typed
<1>6. Owners'
  BY <1>1, <1>3, <1>4 DEF Owners
<1>7. OneSession'
  BY <1>1, <1>3, <1>4 DEF SessionsOwned, OneSession
<1>8. QueueHasOwner'
  BY <1>1, <1>3, <1>4 DEF SessionsOwned, QueueHasOwner, Owners
<1>9. LivesWithGet'
  BY <1>1, <1>3, <1>4 DEF SessionsOwned, LivesWithGet, Owners
<1>. QED  BY <1>5, <1>6, <1>7, <1>8, <1>9 DEF SessionsOwned

\* A POST changes what the queue holds, not who owns it.
LEMMA PushStep ==
  ASSUME SessionInv, NEW r \in Requests, Push(r)
  PROVE  SessionInv'
<1> USE DEF SessionInv
<1>1. /\ req[r].pc = "have" /\ r \notin Gets /\ entry' = entry
      /\ req[r].of \in DOMAIN sess /\ sess[req[r].of] \in Session
  BY DEF Push, Typed, Held, Gets
<1>2. \E pc \in {"failed", "streaming", "ok"} : Goto(r, pc)
  BY DEF Push
<1>3. PICK pc \in {"failed", "streaming", "ok"} : Moved(r, pc)
  BY <1>1, <1>2, OneMoves DEF Places, Held
<1>4. \E v \in Session :
        /\ sess' = [sess EXCEPT ![req[r].of] = v]
        /\ v.connected = sess[req[r].of].connected /\ v.due = sess[req[r].of].due
        /\ v.reaper = sess[req[r].of].reaper /\ v.closed = sess[req[r].of].closed
        /\ v.intime = sess[req[r].of].intime
  <2>1. CASE UNCHANGED sess
    <3>1. sess' = [sess EXCEPT ![req[r].of] = sess[req[r].of]]
      BY <1>1, <2>1 DEF Typed
    <3>. QED  BY <1>1, <3>1, Zenon
  <2>2. CASE sess' = [sess EXCEPT ![req[r].of].got = @ \cup {r},
                                  ![req[r].of].nomore = (Kind[r] = "stream")]
    <3> DEFINE v == [sess[req[r].of] EXCEPT !.got = @ \cup {r}, !.nomore = (Kind[r] = "stream")]
    <3>1. v \in Session /\ sess' = [sess EXCEPT ![req[r].of] = v]
      BY <1>1, <2>2, Zenon DEF Session, Typed
    <3>2. /\ v.connected = sess[req[r].of].connected /\ v.due = sess[req[r].of].due
          /\ v.reaper = sess[req[r].of].reaper /\ v.closed = sess[req[r].of].closed
          /\ v.intime = sess[req[r].of].intime
      BY <1>1 DEF Session
    <3> HIDE DEF v
    <3>. QED  BY <3>1, <3>2, Zenon
  <2>. QED  BY <2>1, <2>2 DEF Push
<1>5. /\ sess' \in Seq(Session) /\ Len(sess') = Len(sess) /\ DOMAIN sess' = DOMAIN sess
      /\ \A t \in DOMAIN sess :
           /\ sess'[t].connected = sess[t].connected /\ sess'[t].due = sess[t].due
           /\ sess'[t].reaper = sess[t].reaper /\ sess'[t].closed = sess[t].closed
           /\ sess'[t].intime = sess[t].intime
  BY <1>1, <1>4, OneChanges, Zenon
<1>6. \A q \in Gets : q \in Requests /\ q # r /\ req'[q] = req[q]
  BY <1>1, <1>3 DEF Gets, Moved
<1>7. Typed'
  BY <1>1, <1>3, <1>5 DEF Typed, Moved
<1>8. Owners'
  BY <1>5, <1>6 DEF Owners
<1>9. OneSession'
  BY <1>1, <1>5, <1>6 DEF SessionsOwned, OneSession
<1>10. QueueHasOwner' /\ LivesWithGet'
  BY <1>5, <1>6 DEF SessionsOwned, QueueHasOwner, LivesWithGet
<1>. QED  BY <1>7, <1>8, <1>9, <1>10 DEF SessionsOwned

\* A GET takes over the session of its reaper.
LEMMA ServeStep ==
  ASSUME SessionInv, NEW r \in Requests, Serve(r)
  PROVE  SessionInv'
<1> USE DEF SessionInv
<1> DEFINE s == req[r].of
           v == [sess[s] EXCEPT !.connected = TRUE, !.reaper = IF @ = "parked" THEN "off" ELSE @,
                                !.intime = @ \/ sess[s].reaper = "parked"]
<1>1. /\ req[r].pc = "have" /\ r \in Gets /\ entry' = entry /\ Goto(r, "serving")
      /\ s \in DOMAIN sess /\ sess[s] \in Session
  BY DEF Serve, Typed, Held, Gets
<1>2. Moved(r, "serving")
  BY <1>1, OneMoves DEF Places, Held
<1>3. v \in Session /\ sess' = [sess EXCEPT ![s] = v]
  BY <1>1, Zenon DEF Serve, Mine, Session
<1>4. /\ v.connected = TRUE /\ v.due = sess[s].due /\ v.closed = sess[s].closed
      /\ v.reaper = IF sess[s].reaper = "parked" THEN "off" ELSE sess[s].reaper
      /\ v.intime = (sess[s].intime \/ sess[s].reaper = "parked")
  BY <1>1 DEF Session
<1> HIDE DEF v, s
<1>5. /\ sess' \in Seq(Session) /\ Len(sess') = Len(sess) /\ DOMAIN sess' = DOMAIN sess
      /\ sess'[s] = v /\ \A t \in DOMAIN sess \ {s} : sess'[t] = sess[t]
  BY <1>1, <1>3, OneChanges, Zenon
<1>6. /\ req'[r].pc = "serving" /\ req'[r].of = s
      /\ \A q \in Gets : q # r => req'[q] = req[q]
  BY <1>2 DEF Moved, s, Gets
<1>. \A q \in Gets : req[q].pc \in {"delete", "ok"} => req'[q] = req[q]
  BY <1>1, <1>6
<1>7. Typed'
  BY <1>1, <1>2, <1>5 DEF Typed, Moved
<1>8. Owners'
  <2> SUFFICES ASSUME NEW t \in DOMAIN sess
               PROVE  /\ sess'[t].reaper \in {"delete", "close"} => sess'[t].due
                      /\ sess'[t].intime => sess'[t].reaper = "off"
                      /\ sess'[t].closed =>
                           \/ sess'[t].reaper = "off"
                           \/ \E q \in Gets : req'[q].of = t /\ req'[q].pc \in {"delete", "ok"}
                      /\ sess'[t].connected =>
                           \/ sess'[t].closed
                           \/ \E q \in Gets : req'[q].of = t /\ req'[q].pc = "serving"
    BY <1>5 DEF Owners
  <2>1. CASE t = s
    <3>1. /\ sess'[t].reaper \in {"delete", "close"} => sess'[t].due
          /\ sess'[t].intime => sess'[t].reaper = "off"
      BY <1>1, <1>4, <1>5, <2>1, Zenon DEF Owners
    <3>2. ASSUME sess'[t].closed, sess'[t].reaper # "off"
          PROVE  \E q \in Gets : req'[q].of = t /\ req'[q].pc \in {"delete", "ok"}
      <4>1. sess[s].closed /\ sess[s].reaper # "off"
        BY <1>4, <1>5, <2>1, <3>2
      <4>2. PICK q \in Gets : req[q].of = s /\ req[q].pc \in {"delete", "ok"}
        BY <1>1, <4>1 DEF Owners
      <4>. QED  BY <4>2, <2>1
    <3>. QED  BY <1>1, <1>6, <2>1, <3>1, <3>2
  <2>2. CASE t # s
    BY <1>1, <1>5, <1>6, <2>2 DEF Owners
  <2>. QED  BY <2>1, <2>2
<1>9. OneSession'
  BY <1>1, <1>4, <1>5, <1>6 DEF SessionsOwned, OneSession
<1>10. QueueHasOwner'
  BY <1>1, <1>4, <1>5, <1>6 DEF SessionsOwned, QueueHasOwner
<1>11. LivesWithGet'
  <2> SUFFICES ASSUME NEW t \in DOMAIN sess, sess'[t].intime, sess'[t].closed
               PROVE  \E q \in Gets : req'[q].of = t /\ req'[q].pc \in {"delete", "ok"}
    BY <1>5 DEF LivesWithGet
  <2>1. CASE t = s
    <3>1. sess[s].closed /\ (sess[s].intime \/ sess[s].reaper = "parked")
      BY <1>4, <1>5, <2>1, Zenon
    <3>2. PICK q \in Gets : req[q].of = s /\ req[q].pc \in {"delete", "ok"}
      BY <1>1, <3>1 DEF SessionsOwned, LivesWithGet, Owners
    <3>. QED  BY <3>2, <2>1
  <2>2. CASE t # s
    BY <1>1, <1>5, <1>6, <2>2 DEF SessionsOwned, LivesWithGet
  <2>. QED  BY <2>1, <2>2
<1>. QED  BY <1>7, <1>8, <1>9, <1>10, <1>11 DEF SessionsOwned

\* The end of a GET closes the queue.
LEMMA GetEndsStep ==
  ASSUME SessionInv, NEW r \in Requests, GetEnds(r)
  PROVE  SessionInv'
<1> USE DEF SessionInv
<1> DEFINE s == req[r].of
           v == [sess[s] EXCEPT !.closed = TRUE]
<1>1. /\ req[r].pc = "serving" /\ r \in Gets /\ entry' = entry /\ Goto(r, "delete")
      /\ s \in DOMAIN sess /\ sess[s] \in Session
  BY DEF GetEnds, Typed, Held, Gets
<1>2. Moved(r, "delete")
  BY <1>1, OneMoves DEF Places, Held
<1>3. v \in Session /\ sess' = [sess EXCEPT ![s] = v]
  BY <1>1, Zenon DEF GetEnds, Session
<1>4. /\ v.connected = sess[s].connected /\ v.due = sess[s].due /\ v.closed = TRUE
      /\ v.reaper = sess[s].reaper /\ v.intime = sess[s].intime
  BY <1>1 DEF Session
<1> HIDE DEF v, s
<1>5. /\ sess' \in Seq(Session) /\ Len(sess') = Len(sess) /\ DOMAIN sess' = DOMAIN sess
      /\ sess'[s] = v /\ \A t \in DOMAIN sess \ {s} : sess'[t] = sess[t]
  BY <1>1, <1>3, OneChanges, Zenon
<1>6. /\ req'[r].pc = "delete" /\ req'[r].of = s
      /\ \A q \in Gets : q # r => req'[q] = req[q]
  BY <1>2 DEF Moved, s, Gets
<1>7. Typed'
  BY <1>1, <1>2, <1>5 DEF Typed, Moved
<1>. \A t \in DOMAIN sess \ {s} : \A q \in Gets :
        req[q].of = t /\ req[q].pc = "serving" => q # r
  BY DEF s
<1>8. Owners'
  <2> SUFFICES ASSUME NEW t \in DOMAIN sess
               PROVE  /\ sess'[t].reaper \in {"delete", "close"} => sess'[t].due
                      /\ sess'[t].intime => sess'[t].reaper = "off"
                      /\ sess'[t].closed =>
                           \/ sess'[t].reaper = "off"
                           \/ \E q \in Gets : req'[q].of = t /\ req'[q].pc \in {"delete", "ok"}
                      /\ sess'[t].connected =>
                           \/ sess'[t].closed
                           \/ \E q \in Gets : req'[q].of = t /\ req'[q].pc = "serving"
    BY <1>5 DEF Owners
  <2>1. CASE t = s
    BY <1>1, <1>4, <1>5, <1>6, <2>1 DEF Owners
  <2>2. CASE t # s
    BY <1>1, <1>5, <1>6, <2>2 DEF Owners
  <2>. QED  BY <2>1, <2>2
<1>9. OneSession'
  BY <1>1, <1>6 DEF OneSession
<1>10. QueueHasOwner'
  BY <1>1, <1>4, <1>5, <1>6 DEF SessionsOwned, QueueHasOwner, s
<1>11. LivesWithGet'
  <2> SUFFICES ASSUME NEW t \in DOMAIN sess, sess'[t].intime, sess'[t].closed
               PROVE  \E q \in Gets : req'[q].of = t /\ req'[q].pc \in {"delete", "ok"}
    BY <1>5 DEF LivesWithGet
  <2>1. CASE t = s
    BY <1>1, <1>6, <2>1
  <2>2. CASE t # s
    BY <1>1, <1>5, <1>6, <2>2 DEF SessionsOwned, LivesWithGet
  <2>. QED  BY <2>1, <2>2
<1>. QED  BY <1>7, <1>8, <1>9, <1>10, <1>11 DEF SessionsOwned

\* However the requests of a session and its reaper interleave in ServeHTTP and
\* upsertSession: one session is made as long as none has ended, somebody is going
\* to close every queue that is open, and nobody but the end of a GET closes one
\* whose GET came in time.
THEOREM AllOwned == Spec => []SessionsOwned
<1>1. SessionInv /\ [Next]_vars => SessionInv'
  <2> SUFFICES ASSUME SessionInv, [Next]_vars
               PROVE  SessionInv'
    OBVIOUS
  <2>1. CASE UNCHANGED vars
    BY <2>1 DEF vars, SessionInv, Typed, Owners, SessionsOwned, OneSession, QueueHasOwner,
                LivesWithGet
  <2>2. CASE \E r \in Requests : Serves(r)
    BY <2>2, QuietSteps, UpsertStep, PushStep, ServeStep, GetEndsStep DEF Serves
  <2>3. CASE \E s \in DOMAIN sess : Reaps(s)
    BY <2>3, ReaperSteps
  <2>. QED  BY <2>1, <2>2, <2>3 DEF Next
<1>2. SessionInv => SessionsOwned
  BY DEF SessionInv
<1>. QED  BY SessionInvInit, <1>1, <1>2, PTL DEF Spec
================================================================================
