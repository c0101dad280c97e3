-------------------------------- MODULE Relay --------------------------------
(***************************************************************************)
(* One proxied connection from end to end: the Process method of an        *)
(* inbound proxy, the two pipes of the link that Dispatch made, and the    *)
(* Process method of an outbound proxy, called by outbound.Handler.Dispatch*)
(* Each side runs two tasks (task.Run): one copies requests, one copies    *)
(* responses.  Proxies differ in what surrounds the copying, which is      *)
(* their script; payload is numbered chunks.                               *)
(***************************************************************************)
EXTENDS Integers, Sequences, SequencesExt

CONSTANTS
  Pairs,       \* pairs of inbound and outbound proxies, by name
  Detached,    \* whether the context says TimeoutOnly: a set of BOOLEANs
  Chunks,      \* Chunks[p]: how many chunks peer p sends at most
  Limit,       \* a pipe that holds more than this many chunks is full
  Idle         \* whether inactivity timers may fire

\* What the constants must satisfy.
RelayAssumption ==
  /\ Chunks \in [{"client", "server"} -> Nat]
  /\ Limit \in Nat /\ Idle \in BOOLEAN /\ Detached \subseteq BOOLEAN

VARIABLES
  in, out,     \* the two proxies
  detached,    \* whether the outbound ignores the inbound's context
  conn,        \* conn[p]: the connection with peer p
  reached,     \* reached[p]: what was written to it
  link,        \* link[d]: the pipe of direction d
  task,        \* task[t]: the tasks
  proc,        \* proc[s]: how far Process of side s is, then what it returns
  cancelled    \* sides whose context is cancelled

vars == <<in, out, detached, conn, reached, link, task, proc, cancelled>>

-----------------------------------------------------------------------------
(* The proxies.  "header" writes the header of the protocol, "once" is     *)
(* CopyOnceTimeout, "first" waits for the first payload, "flush" is        *)
(* SetBuffered(false), "copy" is buf.Copy, "end" writes the chunk that     *)
(* ends a stream, "parse" reads the header of a response.                  *)

VmessInbound ==
  [request |-> <<"copy">>, response |-> <<"header", "first", "flush", "copy", "end">>, early |-> FALSE]

VlessInbound ==
  [request |-> <<"copy">>, response |-> <<"header", "first", "flush", "copy">>, early |-> FALSE]

ShadowsocksInbound ==
  [request |-> <<"copy">>, response |-> <<"header", "first", "flush", "copy">>, early |-> FALSE]

TrojanInbound == [request |-> <<"copy">>, response |-> <<"copy">>, early |-> FALSE]

SocksInbound == [request |-> <<"copy">>, response |-> <<"copy">>, early |-> FALSE]

\* What came with the CONNECT request is written before the tasks start.
HttpInbound == [request |-> <<"copy">>, response |-> <<"copy">>, early |-> TRUE]

DokodemoInbound == [request |-> <<"copy">>, response |-> <<"copy">>, early |-> FALSE]

VmessOutbound ==
  [request |-> <<"header", "once", "flush", "copy", "end">>, response |-> <<"parse", "copy">>,
   awaits |-> FALSE, timer |-> TRUE]

VlessOutbound ==
  [request |-> <<"header", "once", "flush", "copy">>, response |-> <<"parse", "copy">>,
   awaits |-> FALSE, timer |-> TRUE]

ShadowsocksOutbound ==
  [request |-> <<"header", "once", "flush", "copy">>, response |-> <<"parse", "copy">>,
   awaits |-> FALSE, timer |-> TRUE]

\* ConnWriter puts the header before the first payload.
TrojanOutbound ==
  [request |-> <<"once", "flush", "header", "copy">>, response |-> <<"copy">>,
   awaits |-> FALSE, timer |-> TRUE]

SocksOutbound ==
  [request |-> <<"copy">>, response |-> <<"copy">>, awaits |-> FALSE, timer |-> TRUE]

\* The first payload is read before the connection is made.
HttpOutbound ==
  [request |-> <<"copy">>, response |-> <<"copy">>, awaits |-> TRUE, timer |-> TRUE]

FreedomOutbound ==
  [request |-> <<"copy">>, response |-> <<"copy">>, awaits |-> FALSE, timer |-> TRUE]

LoopbackOutbound ==
  [request |-> <<"copy">>, response |-> <<"copy">>, awaits |-> FALSE, timer |-> FALSE]

InboundProxy ==
  [vmess |-> VmessInbound, vless |-> VlessInbound, shadowsocks |-> ShadowsocksInbound,
   trojan |-> TrojanInbound, socks |-> SocksInbound, http |-> HttpInbound,
   dokodemo |-> DokodemoInbound]

OutboundProxy ==
  [vmess |-> VmessOutbound, vless |-> VlessOutbound, shadowsocks |-> ShadowsocksOutbound,
   trojan |-> TrojanOutbound, socks |-> SocksOutbound, http |-> HttpOutbound,
   freedom |-> FreedomOutbound, loopback |-> LoopbackOutbound]

-----------------------------------------------------------------------------
Tasks == {"inRequest", "inResponse", "outRequest", "outResponse"}

Side(t) == IF t \in {"inRequest", "inResponse"} THEN "in" ELSE "out"

Script(t) ==
  CASE t = "inRequest"  -> in.request
    [] t = "inResponse" -> in.response
    [] t = "outRequest" -> out.request
    [] t = "outResponse" -> out.response

\* What a task reads from and writes to: a connection or a pipe.
Source(t) ==
  CASE t = "inRequest"  -> "client"
    [] t = "inResponse" -> "down"
    [] t = "outRequest" -> "up"
    [] t = "outResponse" -> "server"

Target(t) ==
  CASE t = "inRequest"  -> "up"
    [] t = "inResponse" -> "client"
    [] t = "outRequest" -> "server"
    [] t = "outResponse" -> "down"

Peers == {"client", "server"}

HeaderMark == 0
EndMark == 1 + Chunks["client"] + Chunks["server"]

\* The writer of a task is buffered until the script has flushed it.
Buffering(t) == \E i \in task[t].at .. Len(Script(t)) : Script(t)[i] = "flush"

\* Mutant: the first payload goes out without the header.
PayloadFirst(t, data) == data

\* The header goes before the first payload when the script has it later.
WithHeader(t, data) ==
  IF \E i \in task[t].at .. Len(Script(t)) : Script(t)[i] = "header"
  THEN <<HeaderMark>> \o data ELSE data

Init ==
  /\ \E pair \in Pairs : in = InboundProxy[pair[1]] /\ out = OutboundProxy[pair[2]]
  /\ detached \in Detached
  /\ conn = [p \in Peers |-> [sent |-> 0, got |-> 0, end |-> "open", closed |-> FALSE]]
  /\ reached = [p \in Peers |-> <<>>]
  /\ link = [d \in {"up", "down"} |-> [data |-> <<>>, state |-> "open"]]
  /\ task = [t \in Tasks |-> [at |-> 1, held |-> <<>>, buf |-> <<>>, res |-> "run"]]
  /\ proc = [in |-> IF in.early THEN "early" ELSE "copy",
             out |-> IF out.awaits THEN "await" ELSE "dial"]
  /\ cancelled = {}

(* A read: the data or the error it may return, nothing while it blocks.   *)
ReadConn(c) ==
  CASE c.closed \/ c.end \in {"reset", "gone"} -> {[data |-> <<>>, err |-> "other"]}
    [] ~c.closed /\ c.end \in {"open", "eof"} /\ c.got < c.sent -> {[data |-> <<c.got + 1>>, err |-> "nil"]}
    [] ~c.closed /\ c.end = "eof" /\ c.got = c.sent -> {[data |-> <<>>, err |-> "eof"]}
    [] OTHER -> {}

ReadLink(l) ==
  CASE l.state = "errord" -> {[data |-> <<>>, err |-> "closed"]}
    [] l.state # "errord" /\ l.data # <<>> -> {[data |-> l.data, err |-> "nil"]}
    [] l.state = "closed" /\ l.data = <<>> -> {[data |-> <<>>, err |-> "eof"]}
    [] OTHER -> {}

ReadMultiBuffer(t) ==
  IF Source(t) \in Peers THEN ReadConn(conn[Source(t)]) ELSE ReadLink(link[Source(t)])

Consume(t, data) ==
  IF Source(t) \in Peers
  THEN conn' = [conn EXCEPT ![Source(t)].got = @ + Len(data)] /\ UNCHANGED link
  ELSE link' = [link EXCEPT ![Source(t)].data = IF data = <<>> THEN @ ELSE <<>>] /\ UNCHANGED conn

Writable(p) == ~conn[p].closed /\ conn[p].end \in {"open", "eof"}

\* pipe.Close keeps the data, pipe.Interrupt drops it; neither undoes the other.
CloseLink(l) == IF l.state = "open" THEN [l EXCEPT !.state = "closed"] ELSE l

InterruptLink(l) == IF l.state = "open" THEN [data |-> <<>>, state |-> "errord"] ELSE l

(* The end of a task.  task.OnSuccess closes the pipe it wrote to when,    *)
(* and only when, the task succeeded.                                      *)
OnSuccess(t, l) == IF Target(t) \in Peers THEN l ELSE [l EXCEPT ![Target(t)] = CloseLink(@)]

\* The VMess inbound flushes its writer on the way out, whatever happened.
FlushOnExit(t) ==
  IF t = "inResponse" /\ in = VmessInbound /\ Writable("client")
  THEN [reached EXCEPT !["client"] = @ \o task[t].buf] ELSE reached

-----------------------------------------------------------------------------
(* What the peers do, from when there is a connection to when it is closed.*)

Heard(p) == ~conn[p].closed /\ (p = "server" => proc.out \notin {"await", "dial"} /\ task["outRequest"].res # "never")

PeerSends(p) ==
  /\ conn[p].end = "open" /\ Heard(p) /\ conn[p].sent < Chunks[p]
  /\ conn' = [conn EXCEPT ![p].sent = @ + 1]
  /\ UNCHANGED <<in, out, detached, reached, link, task, proc, cancelled>>

PeerEnds(p) ==
  /\ conn[p].end = "open" /\ Heard(p)
  /\ conn' = [conn EXCEPT ![p].end = "eof"]
  /\ UNCHANGED <<in, out, detached, reached, link, task, proc, cancelled>>

PeerResets(p) ==
  /\ conn[p].end \in {"open", "eof"} /\ Heard(p)
  /\ conn' = [conn EXCEPT ![p].end = IF @ = "open" THEN "reset" ELSE "gone"]
  /\ UNCHANGED <<in, out, detached, reached, link, task, proc, cancelled>>

-----------------------------------------------------------------------------
(* The tasks. *)

Running(t) ==
  /\ task[t].res = "run"
  /\ proc[Side(t)] \notin {"early", "await", "dial"}

Doing(t, step) == Running(t) /\ task[t].at <= Len(Script(t)) /\ Script(t)[task[t].at] = step

Fails(t, err) ==
  /\ task' = [task EXCEPT ![t].res = err, ![t].held = <<>>, ![t].buf = <<>>]
  /\ reached' = FlushOnExit(t)

\* A write to the connection of a task, through its writer.
WriteConn(t, data) ==
  IF Buffering(t)
  THEN /\ task' = [task EXCEPT ![t].buf = @ \o data, ![t].held = <<>>,
                               ![t].at = IF Script(t)[@] = "copy" THEN @ ELSE @ + 1]
       /\ UNCHANGED reached
  ELSE \/ /\ Writable(Target(t))
          /\ reached' = [reached EXCEPT ![Target(t)] = @ \o data]
          /\ task' = [task EXCEPT ![t].held = <<>>,
                                  ![t].at = IF Script(t)[@] = "copy" THEN @ ELSE @ + 1]
       \/ /\ ~Writable(Target(t))
          /\ Fails(t, "other")

Header(t) ==
  /\ Doing(t, "header")
  /\ WriteConn(t, IF HeaderMark \in ToSet(task[t].buf \o reached[Target(t)]) THEN <<>> ELSE <<HeaderMark>>)
  /\ UNCHANGED <<in, out, detached, conn, link, proc, cancelled>>

\* CopyOnceTimeout: a timeout is no error, the end of the stream is one.
Once(t) ==
  /\ Doing(t, "once")
  /\ \/ \E r \in ReadMultiBuffer(t) :
          /\ Consume(t, r.data)
          /\ IF r.err = "nil" THEN WriteConn(t, WithHeader(t, r.data)) ELSE Fails(t, r.err)
     \/ /\ task' = [task EXCEPT ![t].at = @ + 1]
        /\ UNCHANGED <<conn, link, reached>>
  /\ UNCHANGED <<in, out, detached, proc, cancelled>>

First(t) ==
  /\ Doing(t, "first")
  /\ \E r \in ReadMultiBuffer(t) :
       /\ Consume(t, r.data)
       /\ IF r.err = "nil" THEN WriteConn(t, r.data) ELSE Fails(t, r.err)
  /\ UNCHANGED <<in, out, detached, proc, cancelled>>

Flush(t) ==
  /\ Doing(t, "flush")
  /\ IF Writable(Target(t)) \/ task[t].buf = <<>>
     THEN /\ reached' = [reached EXCEPT ![Target(t)] = @ \o task[t].buf]
          /\ task' = [task EXCEPT ![t].at = @ + 1, ![t].buf = <<>>]
     ELSE Fails(t, "other")
  /\ UNCHANGED <<in, out, detached, conn, link, proc, cancelled>>

\* The header of a response is the first thing the server sends.
Parse(t) ==
  /\ Doing(t, "parse")
  /\ \E r \in ReadMultiBuffer(t) :
       /\ Consume(t, r.data)
       /\ IF r.err = "nil" THEN task' = [task EXCEPT ![t].at = @ + 1] /\ UNCHANGED reached
          ELSE Fails(t, r.err)
  /\ UNCHANGED <<in, out, detached, proc, cancelled>>

\* buf.Copy: io.EOF is the end and no error.
CopyReads(t) ==
  /\ Doing(t, "copy") /\ task[t].held = <<>>
  /\ \E r \in ReadMultiBuffer(t) :
       /\ Consume(t, r.data)
       /\ CASE r.err = "nil" -> task' = [task EXCEPT ![t].held = r.data] /\ UNCHANGED reached
            [] r.err = "eof" -> task' = [task EXCEPT ![t].at = @ + 1] /\ UNCHANGED reached
            [] OTHER -> Fails(t, r.err)
  /\ UNCHANGED <<in, out, detached, proc, cancelled>>

CopyWrites(t) ==
  /\ Doing(t, "copy") /\ task[t].held # <<>>
  /\ IF Target(t) \in Peers
     THEN WriteConn(t, task[t].held) /\ UNCHANGED link
     ELSE LET l == link[Target(t)] IN
          \/ /\ l.state # "open"
             /\ Fails(t, "closed") /\ UNCHANGED link
          \/ /\ l.state = "open" /\ Len(l.data) <= Limit
             /\ link' = [link EXCEPT ![Target(t)].data = @ \o task[t].held]
             /\ task' = [task EXCEPT ![t].held = <<>>] /\ UNCHANGED reached
  /\ UNCHANGED <<in, out, detached, conn, proc, cancelled>>

End(t) ==
  /\ Doing(t, "end")
  /\ WriteConn(t, <<EndMark>>)
  /\ UNCHANGED <<in, out, detached, conn, link, proc, cancelled>>

TaskReturns(t) ==
  /\ Running(t) /\ task[t].at > Len(Script(t))
  /\ task' = [task EXCEPT ![t].res = "nil"]
  /\ link' = OnSuccess(t, link)
  /\ UNCHANGED <<in, out, detached, conn, reached, proc, cancelled>>

Step(t) ==
  Header(t) \/ Once(t) \/ First(t) \/ Flush(t) \/ Parse(t) \/ CopyReads(t) \/ CopyWrites(t)
  \/ End(t) \/ TaskReturns(t)

-----------------------------------------------------------------------------
(* The two Process methods. *)

NeverRun(s) == [t \in Tasks |-> IF Side(t) = s THEN [task[t] EXCEPT !.res = "never"] ELSE task[t]]

\* The HTTP inbound writes what it has buffered, if anything; an error here
\* returns without interrupting the link.
EarlyPayload ==
  /\ proc.in = "early"
  /\ \/ proc' = [proc EXCEPT !.in = "copy"] /\ UNCHANGED <<conn, link, task>>
     \/ /\ conn["client"].got < conn["client"].sent
        /\ conn' = [conn EXCEPT !["client"].got = @ + 1]
        /\ IF link["up"].state = "open"
           THEN /\ link' = [link EXCEPT !["up"].data = @ \o <<conn["client"].got + 1>>]
                /\ proc' = [proc EXCEPT !.in = "copy"] /\ UNCHANGED task
           ELSE /\ proc' = [proc EXCEPT !.in = "closed"]
                /\ task' = NeverRun("in") /\ UNCHANGED link
  /\ UNCHANGED <<in, out, detached, reached, cancelled>>

\* The HTTP outbound ignores an error of this read.
AwaitFirst ==
  /\ proc.out = "await"
  /\ \E r \in ReadLink(link["up"]) :
       /\ link' = [link EXCEPT !["up"].data = IF r.err = "nil" THEN <<>> ELSE @]
       /\ task' = [task EXCEPT !["outRequest"].held = r.data]
  /\ proc' = [proc EXCEPT !.out = "dial"]
  /\ UNCHANGED <<in, out, detached, conn, reached, cancelled>>

\* The HTTP outbound writes the first payload while it makes its connection.
Dial ==
  /\ proc.out = "dial"
  /\ \/ /\ proc' = [proc EXCEPT !.out = "copy"]
        /\ reached' = [reached EXCEPT !["server"] = @ \o task["outRequest"].held]
        /\ task' = [task EXCEPT !["outRequest"].held = <<>>]
     \/ proc' = [proc EXCEPT !.out = "other"] /\ task' = NeverRun("out") /\ UNCHANGED reached
  /\ UNCHANGED <<in, out, detached, conn, link, cancelled>>

\* What task.Run may return: an error of a task, the context's, or nil.
RunResults(s) ==
  ({task[t].res : t \in {u \in Tasks : Side(u) = s}} \ {"run", "nil"})
  \cup (IF s \in cancelled THEN {"canceled"} ELSE {})
  \cup (IF \A t \in Tasks : Side(t) = s => task[t].res = "nil" THEN {"nil"} ELSE {})

\* The inbound interrupts the link when task.Run returns an error.
InReturns ==
  /\ proc.in = "copy"
  /\ \E r \in RunResults("in") :
       /\ proc' = [proc EXCEPT !.in = r]
       /\ link' = IF r = "nil" THEN link ELSE [d \in {"up", "down"} |-> InterruptLink(link[d])]
  /\ UNCHANGED <<in, out, detached, conn, reached, task, cancelled>>

\* tcpWorker.callback after Process: cancel, then Close.
WorkerCloses ==
  /\ proc.in \notin {"early", "copy"} /\ ~conn["client"].closed
  /\ conn' = [conn EXCEPT !["client"].closed = TRUE]
  /\ cancelled' = cancelled \cup (IF detached THEN {"in"} ELSE {"in", "out"})
  /\ UNCHANGED <<in, out, detached, reached, link, task, proc>>

\* The outbound closes its connection when task.Run has returned.
OutReturns ==
  /\ proc.out = "copy"
  /\ \E r \in RunResults("out") : proc' = [proc EXCEPT !.out = r]
  /\ conn' = [conn EXCEPT !["server"].closed = TRUE]
  /\ UNCHANGED <<in, out, detached, reached, link, task, cancelled>>

\* outbound.Handler.Dispatch after Process: these errors pass for success.
Benign == {"nil", "eof", "closed", "canceled"}

DispatchEnds ==
  /\ \E d \in {"up", "down"} : link[d].state = "open"
  /\ proc.out \notin {"await", "dial", "copy"}
  /\ link' = [up |-> InterruptLink(link["up"]),
              down |-> IF proc.out \in Benign THEN CloseLink(link["down"]) ELSE InterruptLink(link["down"])]
  /\ UNCHANGED <<in, out, detached, conn, reached, task, proc, cancelled>>

\* The timers of CancelAfterInactivity.
InTimer ==
  /\ Idle /\ proc.in = "copy" /\ "in" \notin cancelled
  /\ cancelled' = cancelled \cup (IF detached THEN {"in"} ELSE {"in", "out"})
  /\ UNCHANGED <<in, out, detached, conn, reached, link, task, proc>>

OutTimer ==
  /\ Idle /\ out.timer /\ proc.out = "copy" /\ "out" \notin cancelled
  /\ cancelled' = cancelled \cup {"out"}
  /\ UNCHANGED <<in, out, detached, conn, reached, link, task, proc>>

Next ==
  \/ \E p \in Peers : PeerSends(p) \/ PeerEnds(p) \/ PeerResets(p)
  \/ \E t \in Tasks : Step(t)
  \/ EarlyPayload \/ AwaitFirst \/ Dial
  \/ InReturns \/ WorkerCloses \/ OutReturns \/ DispatchEnds
  \/ InTimer \/ OutTimer

Spec == Init /\ [][Next]_vars

(* Goroutines run, worker and dispatcher finish what they began, timers    *)
(* fire in the end where there are any.                                    *)
Fairness ==
  /\ \A t \in Tasks : WF_vars(Step(t))
  /\ WF_vars(EarlyPayload) /\ WF_vars(AwaitFirst) /\ WF_vars(Dial)
  /\ WF_vars(InReturns) /\ WF_vars(WorkerCloses)
  /\ WF_vars(OutReturns) /\ WF_vars(DispatchEnds)
  /\ WF_vars(InTimer) /\ WF_vars(OutTimer)

FairSpec == Spec /\ Fairness

-----------------------------------------------------------------------------
\* The chunks of a peer, those of its header left out.
Payload(p) ==
  [i \in 1 .. conn[p].sent |-> i]

(* What reaches the server is, in this order, the header of the protocol   *)
(* if there is one, what the client sent, and the end of the stream, and   *)
(* the end only after all of it: the timeout of CopyOnceTimeout, the       *)
(* buffered writer and a reader that was interrupted lose or swap nothing. *)
RequestInOrder ==
  LET has(step) == \E i \in 1 .. Len(out.request) : out.request[i] = step IN
  IsPrefix(reached["server"],
    (IF has("header") THEN <<HeaderMark>> ELSE <<>>) \o Payload("client")
      \o (IF has("end") /\ conn["client"].end # "open" THEN <<EndMark>> ELSE <<>>))

(* A request that ends as a success was a whole one: the outbound's copying*)
(* ends without error only when the client has ended its stream and all of *)
(* it has been written to the server, because only a task that succeeded   *)
(* closes the pipe and everything else interrupts it.                      *)
RequestIsWhole ==
  task["outRequest"].res = "nil" =>
    /\ conn["client"].end # "open"
    /\ Payload("client") = SelectSeq(reached["server"], LAMBDA c : c \notin {HeaderMark, EndMark})

(* The same for the response, with one exception: when the outbound was    *)
(* cancelled (by its timer, or with the inbound), or met the end of the    *)
(* server's stream before a header, Dispatch closes the pipe as if the     *)
(* response were complete.                                                 *)
ResponseIsWhole ==
  task["inResponse"].res = "nil" =>
    \/ /\ conn["server"].end # "open"
       /\ SelectSeq(reached["client"], LAMBDA c : c \notin {HeaderMark, EndMark})
            = SelectSeq(Payload("server"), LAMBDA c : c > IF out.response[1] = "parse" THEN 1 ELSE 0)
    \/ proc.out \in {"eof", "canceled"}

(* Everything ends: the connections are closed and no task is left.        *)
Over ==
  /\ conn["client"].closed
  /\ conn["server"].closed \/ task["outRequest"].res = "never"
  /\ \A t \in Tasks : task[t].res # "run"

(* A connection one of whose peers breaks off, or both of whose peers have *)
(* finished, is given back without the help of a timer: both Process       *)
(* methods return and none of the four goroutines stays behind.  (A peer   *)
(* that finished first and is gone later is noticed by a timer only.)      *)
EndsByItself ==
  ((\E p \in Peers : conn[p].end = "reset") \/ (\A p \in Peers : conn[p].end # "open")) ~> Over

=============================================================================
