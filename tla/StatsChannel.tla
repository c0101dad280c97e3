---------------------------- MODULE StatsChannel ------------------------------
(***************************************************************************)
(* The publish/subscribe channel of the stats app (app/stats/channel.go)   *)
(* with the clients of the routing statistics that start it when the first *)
(* of them subscribes and close it when the last one leaves                *)
(* (features/stats/stats.go, SubscribeRunnableChannel and Unsubscribe-     *)
(* ClosableChannel).  Every Start makes a new closed signal and a new      *)
(* goroutine, its runner; the field c.closed is read anew in every turn.   *)
(* The channels have room for at least one message.                        *)
(***************************************************************************)
EXTENDS Integers, Sequences, FiniteSets, SequencesExt

CONSTANTS
  Clients, Messages,   \* Messages == 1..n are published in this order
  BufferSize, SubsLimit, Blocking,
  MayLeave,            \* clients may leave
  MayCancel            \* the context of a message may be cancelled

\* What the constants must satisfy.
StatsAssumption ==
  /\ BufferSize \in Nat \ {0} /\ SubsLimit \in Nat
  /\ {Blocking, MayLeave, MayCancel} \subseteq BOOLEAN

Runners == 1..Cardinality(Clients)

VARIABLES
  channel,      \* c.channel
  subscribers,  \* c.subscribers
  current,      \* the closed signal in c.closed: the runner made with it, 0 for nil
  signalled,    \* the closed signals that were closed
  runner,       \* runner[r]: at, the signal it waits for, the subscribers to do, the message
  queue,        \* queue[s]: the channel of subscriber s
  shut,         \* subscribers whose channel is closed
  publishers,   \* messages held by publish, in goroutines or in the publisher
  senders,      \* pairs of message and subscriber held by broadcast goroutines
  client,       \* client[s]: where the client is
  got,          \* got[s]: what it received
  sent,         \* messages published so far
  panicked      \* a goroutine sent to a closed channel or closed it again

vars == <<channel, subscribers, current, signalled, runner, queue, shut,
          publishers, senders, client, got, sent, panicked>>

Off == [at |-> "off", waits |-> 0, todo |-> <<>>, msg |-> 0]

TypeOK ==
  /\ channel \in Seq(Messages) /\ Len(channel) <= BufferSize
  /\ subscribers \in Seq(Clients)
  /\ SubsLimit > 0 => Len(subscribers) <= SubsLimit
  /\ current \in {0} \cup Runners /\ signalled \subseteq Runners
  /\ \A r \in Runners :
       runner[r] \in [at : {"off", "top", "select", "send", "close", "shut"}, waits : {0} \cup Runners,
                      todo : Seq(Clients), msg : {0} \cup Messages]
  /\ \A s \in Clients : queue[s] \in Seq(Messages) /\ Len(queue[s]) <= BufferSize
  /\ shut \subseteq Clients
  /\ publishers \subseteq Messages /\ senders \subseteq Messages \X Clients
  /\ client \in [Clients -> {"idle", "start", "subscribe", "receive", "unsubscribe", "check", "close", "gone"}]
  /\ sent \in 0..Cardinality(Messages) /\ panicked \in BOOLEAN

Init ==
  /\ channel = <<>> /\ subscribers = <<>>
  /\ current = 0 /\ signalled = {}
  /\ runner = [r \in Runners |-> Off]
  /\ queue = [s \in Clients |-> <<>>] /\ shut = {}
  /\ publishers = {} /\ senders = {}
  /\ client = [s \in Clients |-> "idle"]
  /\ got = [s \in Clients |-> <<>>]
  /\ sent = 0 /\ panicked = FALSE

Running == current # 0 /\ current \notin signalled

Become(s, at) == client' = [client EXCEPT ![s] = at]

-----------------------------------------------------------------------------
(* A client: SubscribeRunnableChannel, the receiving loop of               *)
(* SubscribeRoutingStats, UnsubscribeClosableChannel.                      *)

Arrive(s) ==
  /\ client[s] = "idle"
  /\ Become(s, IF subscribers = <<>> THEN "start" ELSE "subscribe")
  /\ UNCHANGED <<channel, subscribers, current, signalled, runner, queue, shut, publishers, senders, got, sent, panicked>>

\* Start.
Start(s) ==
  /\ client[s] = "start"
  /\ IF Running THEN UNCHANGED <<current, runner>>
                ELSE /\ current' = current + 1
                     /\ runner' = [runner EXCEPT ![current'] = [Off EXCEPT !.at = "top"]]
  /\ Become(s, "subscribe")
  /\ UNCHANGED <<channel, subscribers, signalled, queue, shut, publishers, senders, got, sent, panicked>>

\* Subscribe.
Subscribe(s) ==
  /\ client[s] = "subscribe"
  /\ IF SubsLimit > 0 /\ Len(subscribers) >= SubsLimit
     THEN Become(s, "gone") /\ UNCHANGED subscribers
     ELSE Become(s, "receive") /\ subscribers' = Append(subscribers, s)
  /\ UNCHANGED <<channel, current, signalled, runner, queue, shut, publishers, senders, got, sent, panicked>>

Receive(s) ==
  /\ client[s] = "receive"
  /\ queue[s] # <<>>
  /\ got' = [got EXCEPT ![s] = Append(@, Head(queue[s]))]
  /\ queue' = [queue EXCEPT ![s] = Tail(@)]
  /\ UNCHANGED <<channel, subscribers, current, signalled, runner, shut, publishers, senders, client, sent, panicked>>

\* The client ends, or its channel was closed upstream.
Leave(s) ==
  /\ client[s] = "receive"
  /\ MayLeave \/ (s \in shut /\ queue[s] = <<>>)
  /\ Become(s, "unsubscribe")
  /\ UNCHANGED <<channel, subscribers, current, signalled, runner, queue, shut, publishers, senders, got, sent, panicked>>

Unsubscribe(s) ==
  /\ client[s] = "unsubscribe"
  /\ subscribers' = Remove(subscribers, s)
  /\ Become(s, "check")
  /\ UNCHANGED <<channel, current, signalled, runner, queue, shut, publishers, senders, got, sent, panicked>>

LastOne(s) ==
  /\ client[s] = "check"
  /\ Become(s, IF subscribers = <<>> THEN "close" ELSE "gone")
  /\ UNCHANGED <<channel, subscribers, current, signalled, runner, queue, shut, publishers, senders, got, sent, panicked>>

\* Close.
Close(s) ==
  /\ client[s] = "close"
  /\ signalled' = IF Running THEN signalled \cup {current} ELSE signalled
  /\ Become(s, "gone")
  /\ UNCHANGED <<channel, subscribers, current, runner, queue, shut, publishers, senders, got, sent, panicked>>

-----------------------------------------------------------------------------
(* The publisher.                                                          *)

\* Publish: an early exit if closed; else the send, which waits in publish, in
\* a goroutine of its own if the channel does not block.
Publish ==
  /\ sent < Cardinality(Messages)
  /\ Blocking => publishers = {}
  /\ sent' = sent + 1
  /\ IF current # 0 /\ current \in signalled
     THEN UNCHANGED <<channel, publishers>>
     ELSE IF Len(channel) < BufferSize
          THEN channel' = Append(channel, sent') /\ UNCHANGED publishers
          ELSE publishers' = publishers \cup {sent'} /\ UNCHANGED channel
  /\ UNCHANGED <<subscribers, current, signalled, runner, queue, shut, senders, client, got, panicked>>

\* publish: the send, or the end of the context.
PublishWaits(m) ==
  /\ m \in publishers
  /\ publishers' = publishers \ {m}
  /\ \/ Len(channel) < BufferSize /\ channel' = Append(channel, m)
     \/ MayCancel /\ UNCHANGED channel
  /\ UNCHANGED <<subscribers, current, signalled, runner, queue, shut, senders, client, got, sent, panicked>>

-----------------------------------------------------------------------------
(* A runner.                                                               *)

\* The select evaluates c.closed and waits.
EnterSelect(r) ==
  /\ runner[r].at = "top"
  /\ runner' = [runner EXCEPT ![r] = [Off EXCEPT !.at = "select", !.waits = current]]
  /\ UNCHANGED <<channel, subscribers, current, signalled, queue, shut, publishers, senders, client, got, sent, panicked>>

\* A message, for the subscribers of this moment.
Take(r) ==
  /\ runner[r].at = "select"
  /\ channel # <<>>
  /\ channel' = Tail(channel)
  /\ runner' = [runner EXCEPT ![r] = [@ EXCEPT !.at = "send", !.todo = subscribers, !.msg = Head(channel)]]
  /\ UNCHANGED <<subscribers, current, signalled, queue, shut, publishers, senders, client, got, sent, panicked>>

Advance(r) == runner' = [runner EXCEPT ![r].todo = Tail(@)]

\* Mutant: a subscriber without room is passed over.
BroadcastDrops(r, s) ==
  /\ IF Len(queue[s]) < BufferSize THEN queue' = [queue EXCEPT ![s] = Append(@, runner[r].msg)]
                                   ELSE UNCHANGED queue
  /\ Advance(r) /\ UNCHANGED <<senders, panicked>>

\* broadcast waits for room or for the end of the context; broadcastNonBlocking
\* leaves the message to another goroutine.  A closed channel panics.
Broadcast(r, s) ==
  \/ s \in shut /\ panicked' = TRUE /\ UNCHANGED <<queue, senders, runner>>
  \/ /\ s \notin shut /\ Len(queue[s]) < BufferSize
     /\ queue' = [queue EXCEPT ![s] = Append(@, runner[r].msg)]
     /\ Advance(r) /\ UNCHANGED <<senders, panicked>>
  \/ /\ s \notin shut /\ Len(queue[s]) = BufferSize /\ ~Blocking
     /\ senders' = senders \cup {<<runner[r].msg, s>>}
     /\ Advance(r) /\ UNCHANGED <<queue, panicked>>
  \/ /\ Blocking /\ MayCancel
     /\ Advance(r) /\ UNCHANGED <<queue, senders, panicked>>

BroadcastNext(r) ==
  /\ runner[r].at = "send"
  /\ IF runner[r].todo = <<>>
     THEN runner' = [runner EXCEPT ![r] = [Off EXCEPT !.at = "top"]] /\ UNCHANGED <<queue, senders, panicked>>
     ELSE Broadcast(r, Head(runner[r].todo))
  /\ UNCHANGED <<channel, subscribers, current, signalled, shut, publishers, client, got, sent>>

\* A broadcast in a goroutine of its own.
SendLater(m, s) ==
  /\ <<m, s>> \in senders
  /\ senders' = senders \ {<<m, s>>}
  /\ \/ s \in shut /\ panicked' = TRUE /\ UNCHANGED queue
     \/ /\ s \notin shut /\ Len(queue[s]) < BufferSize
        /\ queue' = [queue EXCEPT ![s] = Append(@, m)]
        /\ UNCHANGED panicked
     \/ MayCancel /\ UNCHANGED <<queue, panicked>>
  /\ UNCHANGED <<channel, subscribers, current, signalled, runner, shut, publishers, client, got, sent>>

\* The signal it waits for.
SeeClosed(r) ==
  /\ runner[r].at = "select"
  /\ runner[r].waits \in signalled
  /\ runner' = [runner EXCEPT ![r] = [Off EXCEPT !.at = "close", !.todo = subscribers]]
  /\ UNCHANGED <<channel, subscribers, current, signalled, queue, shut, publishers, senders, client, got, sent, panicked>>

\* Unsubscribe(sub), for each subscriber of the list, and the return.
DropNext(r) ==
  /\ runner[r].at = "close"
  /\ IF runner[r].todo = <<>>
     THEN runner' = [runner EXCEPT ![r] = Off] /\ UNCHANGED subscribers
     ELSE /\ subscribers' = Remove(subscribers, Head(runner[r].todo))
          /\ runner' = [runner EXCEPT ![r].at = "shut"]
  /\ UNCHANGED <<channel, current, signalled, queue, shut, publishers, senders, client, got, sent, panicked>>

\* close(sub).
ShutNext(r) ==
  /\ runner[r].at = "shut"
  /\ LET s == Head(runner[r].todo) IN
       /\ panicked' = (panicked \/ s \in shut)
       /\ shut' = shut \cup {s}
  /\ runner' = [runner EXCEPT ![r].at = "close", ![r].todo = Tail(@)]
  /\ UNCHANGED <<channel, subscribers, current, signalled, queue, publishers, senders, client, got, sent>>

-----------------------------------------------------------------------------
ClientStep(s) ==
  \/ Arrive(s) \/ Start(s) \/ Subscribe(s) \/ Receive(s) \/ Unsubscribe(s)
  \/ LastOne(s) \/ Close(s)
RunnerStep(r) == EnterSelect(r) \/ Take(r) \/ BroadcastNext(r) \/ SeeClosed(r) \/ DropNext(r) \/ ShutNext(r)

\* A panic ends the process; the model just goes on.
Next ==
  \/ \E s \in Clients : ClientStep(s) \/ Leave(s)
  \/ Publish \/ \E m \in Messages : PublishWaits(m)
  \/ \E r \in Runners : RunnerStep(r)
  \/ \E m \in Messages, s \in Clients : SendLater(m, s)

Spec == Init /\ [][Next]_vars

(* Goroutines run; all messages are published; clients receive what there is. *)
Fairness ==
  /\ \A s \in Clients : WF_vars(ClientStep(s))
  /\ WF_vars(Publish) /\ \A m \in Messages : WF_vars(PublishWaits(m))
  /\ \A r \in Runners : WF_vars(RunnerStep(r))
  /\ \A m \in Messages, s \in Clients : SF_vars(SendLater(m, s))

FairSpec == Spec /\ Fairness

-----------------------------------------------------------------------------
(* No client receives a message twice, however many runners there are.     *)
AtMostOnce == \A s \in Clients : \A i, j \in DOMAIN got[s] : i # j => got[s][i] # got[s][j]

(* A channel that blocks keeps the order of its publisher for every client. *)
InOrder == \A s \in Clients : \A i, j \in DOMAIN got[s] : i < j => got[s][i] < got[s][j]

(* A client that subscribed before a message was published receives it, if *)
(* nobody leaves and no context ends, however slow it is.                  *)
Delivered ==
  \A s \in Clients : \A m \in Messages :
    client[s] = "receive" /\ sent < m ~> m \in Range(got[s])

(* channel.go:138: "the published message with guaranteed delivery.        *)
(* message is discarded only when the context is early cancelled."  A      *)
(* goroutine that holds a message for a subscriber does not die of it.     *)
DeliveryIsSafe == ~panicked

(* features/stats/stats.go:64: "close it if there is no more subscriber":  *)
(* a client that stays is not cut off.                                     *)
NotCutOff == \A s \in Clients : client[s] = "receive" => s \notin shut
=============================================================================
