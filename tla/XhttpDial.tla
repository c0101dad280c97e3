------------------------------ MODULE XhttpDial -------------------------------
(***************************************************************************)
(* The client of the XHTTP transport (transport/internet/splithttp):       *)
(* connections are dialled over a pool of HTTP clients that are shared and *)
(* replaced by the limits of xmux (mux.go), with one pool for each pair of *)
(* a destination and its settings (dialer.go, getHTTPClient).  A           *)
(* connection is one request (stream-one), two (stream-up), or one that    *)
(* brings what is received and a POST for every chunk that is sent         *)
(* (packet-up), whose loop changes its client when that is used up.        *)
(***************************************************************************)
EXTENDS Integers, Sequences, FiniteSets

CONSTANTS
  Dials,             \* calls of Dial
  Modes,             \* "stream-one", "stream-up", "packet-up"
  Separate,          \* downloadSettings: a pool of its own for what is received
  MaxConcurrency, MaxConnections, CMaxReuseTimes, HMaxRequestTimes,   \* xmux, 0 for no limit
  MayExpire,         \* hMaxReusableSecs is set
  MayFail,           \* requests may fail
  Chunks,            \* writes to a connection
  MaxClients         \* bound of the model: HTTP clients that are made

\* What the constants must satisfy; the configuration refuses both limits at once.
DialAssumption ==
  /\ Modes \subseteq {"stream-one", "stream-up", "packet-up"}
  /\ {MaxConcurrency, MaxConnections, CMaxReuseTimes, HMaxRequestTimes, Chunks} \subseteq Nat
  /\ MaxConcurrency = 0 \/ MaxConnections = 0

VARIABLES
  clients,   \* the XmuxClients, numbered as they are made
  pool,      \* pool[m]: xmuxClients of a manager
  dial,      \* dial[d]: a connection and the variables of its Dial
  posts      \* posts[d]: the POSTs of packet-up that are under way

vars == <<clients, pool, dial, posts>>

Managers == {"up", "down"}
Unlimited == 2147483647

NewClient ==
  [open |-> 0, left |-> IF CMaxReuseTimes > 0 THEN CMaxReuseTimes - 1 ELSE -1,
   requests |-> IF HMaxRequestTimes > 0 THEN HMaxRequestTimes ELSE Unlimited,
   closed |-> FALSE, old |-> FALSE,
   uses |-> 1, sent |-> 0]     \* histories: how often it was returned, and asked

NoDial ==
  [pc |-> "new", mode |-> "stream-one", up |-> 0, down |-> 0,
   counted |-> {},             \* a history: the clients whose OpenUsage it raised
   closes |-> 0,               \* closed
   link |-> "open",            \* uploadPipeReader: "open", "closed" or "broken"
   pending |-> 0, written |-> 0, seq |-> 0,
   loop |-> "off"]             \* the goroutine that sends

Init ==
  /\ clients = <<>> /\ pool = [m \in Managers |-> {}]
  /\ dial \in [Dials -> {[NoDial EXCEPT !.mode = m] : m \in Modes}]
  /\ posts = [d \in Dials |-> {}]

-----------------------------------------------------------------------------
\* What keeps a client in its pool.
Reusable(c) ==
  /\ ~clients[c].closed /\ clients[c].left # 0
  /\ clients[c].requests > 0 /\ ~clients[c].old

\* Mutant: one connection too many.
GetOneMore(m, c) ==
  LET kept == {k \in pool[m] : Reusable(k)}
      free == {k \in kept : MaxConcurrency > 0 => clients[k].open < MaxConcurrency}
      new == kept = {} \/ (MaxConnections > 0 /\ Cardinality(kept) <= MaxConnections) \/ free = {}
  IN /\ Len(clients) < MaxClients \/ ~new
     /\ c \in IF new THEN {Len(clients) + 1} ELSE free
     /\ clients' = IF new THEN Append(clients, NewClient)
                   ELSE [clients EXCEPT ![c].left = IF @ > 0 THEN @ - 1 ELSE @,
                                        ![c].uses = @ + 1]
     /\ pool' = [pool EXCEPT ![m] = kept \cup {c}]

\* XmuxManager.GetXmuxClient, under globalDialerAccess; c is what it returns.
GetXmuxClient(m, c) ==
  LET kept == {k \in pool[m] : Reusable(k)}
      free == {k \in kept : MaxConcurrency > 0 => clients[k].open < MaxConcurrency}
      new == kept = {} \/ (MaxConnections > 0 /\ Cardinality(kept) < MaxConnections) \/ free = {}
  IN /\ Len(clients) < MaxClients \/ ~new
     /\ c \in IF new THEN {Len(clients) + 1} ELSE free
     /\ clients' = IF new THEN Append(clients, NewClient)
                   ELSE [clients EXCEPT ![c].left = IF @ > 0 THEN @ - 1 ELSE @,
                                        ![c].uses = @ + 1]
     /\ pool' = [pool EXCEPT ![m] = kept \cup {c}]

Expire(c) ==
  /\ MayExpire /\ ~clients[c].old
  /\ clients' = [clients EXCEPT ![c].old = TRUE]
  /\ UNCHANGED <<pool, dial, posts>>

\* A request through a client.
Ask(c, spent) == [clients EXCEPT ![c].sent = @ + 1, ![c].requests = @ - spent]

-----------------------------------------------------------------------------
(* Dial.                                                                   *)

GetClient(d) ==
  /\ dial[d].pc = "new"
  /\ \E c \in 1..Len(clients) + 1 :
       /\ GetXmuxClient("up", c)
       /\ dial' = [dial EXCEPT ![d].up = c, ![d].down = c,
                               ![d].pc = IF Separate THEN "second" ELSE "count"]
  /\ UNCHANGED posts

GetSecond(d) ==
  /\ dial[d].pc = "second"
  /\ \E c \in 1..Len(clients) + 1 :
       GetXmuxClient("down", c) /\ dial' = [dial EXCEPT ![d].down = c, ![d].pc = "count"]
  /\ UNCHANGED posts

\* The clients whose OpenUsage the connection changes, once each.
Both(d) == {dial[d].up, dial[d].down}
Usage(C, n) == [c \in DOMAIN clients |-> IF c \in C THEN [clients[c] EXCEPT !.open = @ + n]
                                          ELSE clients[c]]

Count(d) ==
  /\ dial[d].pc = "count"
  /\ clients' = Usage(Both(d), 1)
  /\ dial' = [dial EXCEPT ![d].pc = "open", ![d].counted = Both(d)]
  /\ UNCHANGED <<pool, posts>>

\* The request whose response is what the connection receives.
OpenDown(d) ==
  /\ dial[d].pc = "open"
  /\ clients' = Ask(IF dial[d].mode = "stream-one" THEN dial[d].up ELSE dial[d].down, 1)
  /\ dial' = [dial EXCEPT ![d].pc = IF dial[d].mode = "stream-up" THEN "upload" ELSE "conn",
                          ![d].loop = IF dial[d].mode = "packet-up" THEN "read" ELSE "off"]
  /\ UNCHANGED <<pool, posts>>

OpenUp(d) ==
  /\ dial[d].pc = "upload"
  /\ clients' = Ask(dial[d].up, 1)
  /\ dial' = [dial EXCEPT ![d].pc = "conn"]
  /\ UNCHANGED <<pool, posts>>

\* OpenStream's goroutine: the request failed, and its client is used no more.
StreamFails(d) ==
  LET c == IF dial[d].mode = "stream-one" THEN dial[d].up ELSE dial[d].down
  IN /\ MayFail /\ dial[d].pc \in {"upload", "conn"} /\ ~clients[c].closed
     /\ clients' = [clients EXCEPT ![c].closed = TRUE]
     /\ UNCHANGED <<pool, dial, posts>>

\* uploadWriter.Write, one buffer.
Write(d) ==
  /\ dial[d].pc = "conn" /\ dial[d].mode = "packet-up"
  /\ dial[d].link = "open" /\ dial[d].written < Chunks
  /\ dial' = [dial EXCEPT ![d].pending = @ + 1, ![d].written = @ + 1]
  /\ UNCHANGED <<clients, pool, posts>>

\* splitConn.Close: onClose once, with the clients the variables now name, and both ends.
Close(d) ==
  /\ dial[d].pc = "conn" /\ dial[d].closes < 2
  /\ clients' = IF dial[d].closes = 0 THEN Usage(Both(d), -1) ELSE clients
  /\ dial' = [dial EXCEPT ![d].closes = @ + 1,
                          ![d].link = IF @ = "open" THEN "closed" ELSE @]
  /\ UNCHANGED <<pool, posts>>

-----------------------------------------------------------------------------
(* The loop that sends.                                                    *)

\* A chunk is all that was written, or the pipe has ended.
Take(d) ==
  /\ dial[d].loop = "read" /\ (dial[d].pending > 0 \/ dial[d].link # "open")
  /\ dial' = [dial EXCEPT ![d].pending = 0, ![d].loop = IF dial[d].pending > 0 THEN "spend" ELSE "ended"]
  /\ UNCHANGED <<clients, pool, posts>>

\* LeftRequests.Add(-1), and whether the client is used up.
Spend(d) ==
  /\ dial[d].loop = "spend"
  /\ clients' = [clients EXCEPT ![dial[d].up].requests = @ - 1]
  /\ dial' = [dial EXCEPT ![d].loop =
                IF clients'[dial[d].up].requests <= 0 \/ clients'[dial[d].up].old
                  THEN "renew" ELSE "post"]
  /\ UNCHANGED <<pool, posts>>

\* Another client takes its place, in the variable that onClose reads too.
Renew(d) ==
  /\ dial[d].loop = "renew"
  /\ \E c \in 1..Len(clients) + 1 :
       GetXmuxClient("up", c) /\ dial' = [dial EXCEPT ![d].up = c, ![d].loop = "post"]
  /\ UNCHANGED posts

Post(d) ==
  /\ dial[d].loop = "post"
  /\ clients' = Ask(dial[d].up, 0)
  /\ posts' = [posts EXCEPT ![d] = @ \cup {[n |-> dial[d].seq, on |-> dial[d].up, failed |-> FALSE]}]
  /\ dial' = [dial EXCEPT ![d].loop = "wait", ![d].seq = @ + 1]
  /\ UNCHANGED pool

\* The request was written, or PostPacket returned; the next need not wait longer.
Wrote(d) ==
  /\ dial[d].loop = "wait"
  /\ dial' = [dial EXCEPT ![d].loop = "read"]
  /\ UNCHANGED <<clients, pool, posts>>

\* PostPacket: the response is there, or the client is gone, or its status is bad.
PostPacket(d, p) ==
  /\ ~p.failed
  /\ \/ /\ posts' = [posts EXCEPT ![d] = @ \ {p}]
        /\ UNCHANGED clients
     \/ /\ MayFail
        /\ posts' = [posts EXCEPT ![d] = (@ \ {p}) \cup {[p EXCEPT !.failed = TRUE]}]
        /\ \E gone \in BOOLEAN : clients' = [clients EXCEPT ![p.on].closed = @ \/ gone]
  /\ UNCHANGED <<pool, dial>>

\* A POST failed: nothing more is sent, and nothing more can be written.
Interrupt(d, p) ==
  /\ p.failed
  /\ posts' = [posts EXCEPT ![d] = @ \ {p}]
  /\ dial' = [dial EXCEPT ![d].link = "broken", ![d].pending = 0]
  /\ UNCHANGED <<clients, pool>>

-----------------------------------------------------------------------------
Step(d) ==
  \/ GetClient(d) \/ GetSecond(d) \/ Count(d) \/ OpenDown(d) \/ OpenUp(d)
  \/ Take(d) \/ Spend(d) \/ Renew(d) \/ Post(d) \/ Wrote(d)
  \/ \E p \in posts[d] : PostPacket(d, p) \/ Interrupt(d, p)

Next ==
  \/ \E d \in Dials : Step(d) \/ StreamFails(d) \/ Write(d) \/ Close(d)
  \/ \E c \in DOMAIN clients : Expire(c)

Spec == Init /\ [][Next]_vars

\* Goroutines run, and requests are answered or fail.
Fairness == \A d \in Dials : WF_vars(Step(d))
FairSpec == Spec /\ Fairness

-----------------------------------------------------------------------------
TypeOK ==
  /\ pool \in [Managers -> SUBSET DOMAIN clients]
  /\ \A c \in DOMAIN clients : clients[c].left >= -1 /\ clients[c].open \in Int
  /\ \A d \in Dials :
       /\ dial[d].pc \in {"new", "second", "count", "open", "upload", "conn"}
       /\ dial[d].loop \in {"off", "read", "spend", "renew", "post", "wait", "ended"}
       /\ dial[d].link \in {"open", "closed", "broken"}

Users(c) == {d \in Dials : c \in dial[d].counted /\ dial[d].closes = 0}

(* OpenUsage, which GetXmuxClient compares with maxConcurrency: for a      *)
(* client that may still be taken it never counts a connection that is     *)
(* closed, however often Close is called, so that no client is passed over *)
(* that has room; and it is exact where no connection changes its client.  *)
UsageIsRight ==
  \A c \in DOMAIN clients :
    /\ Reusable(c) => clients[c].open <= Cardinality(Users(c))
    /\ HMaxRequestTimes = 0 /\ ~MayExpire => clients[c].open = Cardinality(Users(c))

\* The requests of a connection that do not look at LeftRequests first.
Unasked == IF "stream-up" \in Modes /\ ~Separate THEN 2 ELSE 1

(* The limits of xmux: a client is returned no more than cMaxReuseTimes    *)
(* times, a pool holds no more than maxConnections, and through a client   *)
(* no more than hMaxRequestTimes requests go, but for those with which the *)
(* connections begin that took it while one was left.                      *)
LimitsKept ==
  /\ \A c \in DOMAIN clients :
       /\ CMaxReuseTimes > 0 => clients[c].uses <= CMaxReuseTimes
       /\ HMaxRequestTimes > 0 =>
            clients[c].sent < HMaxRequestTimes + Unasked * Cardinality(Dials)
  /\ MaxConnections > 0 => \A m \in Managers : Cardinality(pool[m]) <= MaxConnections

(* The goroutine of packet-up: it does not outlive a connection that was   *)
(* closed or whose POST failed.                                            *)
LoopEnds ==
  \A d \in Dials : dial[d].link # "open" /\ dial[d].loop # "off" ~> dial[d].loop = "ended"
================================================================================
