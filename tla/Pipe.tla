-------------------------------- MODULE Pipe ---------------------------------
(***************************************************************************)
(* transport/pipe: the in-memory pipe that joins an inbound and an         *)
(* outbound connection.  Any number of goroutines write and read; a writer *)
(* blocks while more than Limit units are buffered (or drops its data when *)
(* discardOverflow is set), a reader blocks while nothing is buffered.     *)
(*                                                                         *)
(* A section under p.Mutex is one step.  The two Notifiers and errChan are *)
(* channels of capacity one, modelled by their length.  The done.Instance  *)
(* is closed in the same locked section that leaves state "open", so it is *)
(* the predicate Done.  A MultiBuffer is a sequence of buffers of one size *)
(* unit each.                                                              *)
(***************************************************************************)
EXTENDS Integers, Sequences

CONSTANTS
  Readers, Writers,
  TimeoutReaders,    \* the readers that call ReadMultiBufferTimeout
  Limit,             \* pipeOption.limit; negative: no limit
  DiscardOverflow,   \* pipeOption.discardOverflow
  MaxWrites,         \* bound: WriteMultiBuffer calls of each writer
  MaxBuffers         \* bound: buffers in one MultiBuffer

ASSUME PipeAssumption ==
  /\ Limit \in Int
  /\ MaxWrites \in Nat
  /\ MaxBuffers \in Nat
  /\ DiscardOverflow \in BOOLEAN

\* Buffer j of the k-th MultiBuffer that writer w writes.
Buffers == Writers \X (1..MaxWrites) \X (1..MaxBuffers)

VARIABLES
  data, state,               \* p.data and p.state
  readSignal, writeSignal,   \* tokens in the two Notifiers
  errChan,                   \* errors in errChan
  rpc, wpc,                  \* where each reader and writer is
  mb,                        \* mb[w]: the MultiBuffer w is writing or wrote last
  writes,                    \* writes[w]: number of writes w has begun
  rres, wres,                \* what each call returned (or is about to return)
  accepted, taken            \* history: buffers put into and read from data

pipeVars == <<data, state, readSignal, writeSignal, errChan, rpc, wpc, mb, writes,
              rres, wres, accepted, taken>>

TypeOK ==
  /\ data \in Seq(Buffers)
  /\ state \in {"open", "closed", "errord"}
  /\ readSignal \in {0, 1}
  /\ writeSignal \in {0, 1}
  /\ errChan \in {0, 1}
  /\ rpc \in [Readers -> {"idle", "read", "signal", "wait"}]
  /\ wpc \in [Writers -> {"idle", "write", "signal", "wait"}]
  /\ mb \in [Writers -> Seq(Buffers)]
  /\ writes \in [Writers -> 0..MaxWrites]
  /\ rres \in [Readers -> {"none", "data", "EOF", "ErrClosedPipe", "timeout", "error"}]
  /\ wres \in [Writers -> {"none", "ok", "dropped", "ErrClosedPipe"}]
  /\ accepted \in Seq(Buffers)
  /\ taken \in Seq(Buffers)

Init ==
  /\ data = <<>> /\ state = "open"
  /\ readSignal = 0 /\ writeSignal = 0 /\ errChan = 0
  /\ rpc = [r \in Readers |-> "idle"] /\ wpc = [w \in Writers |-> "idle"]
  /\ mb = [w \in Writers |-> <<>>] /\ writes = [w \in Writers |-> 0]
  /\ rres = [r \in Readers |-> "none"] /\ wres = [w \in Writers |-> "none"]
  /\ accepted = <<>> /\ taken = <<>>

Done == state # "open"

isFull(curSize) == Limit >= 0 /\ curSize > Limit

-----------------------------------------------------------------------------
(* WriteMultiBuffer.                                                       *)

NewBuffers(w, n) == [j \in 1..n |-> <<w, writes[w] + 1, j>>]

\* An empty MultiBuffer returns nil at once, also on a closed pipe.
BeginWrite(w) ==
  /\ wpc[w] = "idle"
  /\ writes[w] < MaxWrites
  /\ writes' = [writes EXCEPT ![w] = @ + 1]
  /\ \E n \in 0..MaxBuffers :
       /\ mb' = [mb EXCEPT ![w] = NewBuffers(w, n)]
       /\ IF n = 0
            THEN wres' = [wres EXCEPT ![w] = "ok"] /\ UNCHANGED wpc
            ELSE /\ wres' = [wres EXCEPT ![w] = "none"]
                 /\ wpc' = [wpc EXCEPT ![w] = "write"]
  /\ UNCHANGED <<data, state, readSignal, writeSignal, errChan, rpc, rres, accepted, taken>>

\* Mutant: the new buffers are merged in front of the old ones.
WriteInFront(w) ==
  /\ wpc[w] = "write"
  /\ state = "open" /\ ~isFull(Len(data))
  /\ data' = mb[w] \o data
  /\ accepted' = accepted \o mb[w]
  /\ wpc' = [wpc EXCEPT ![w] = "signal"]
  /\ wres' = [wres EXCEPT ![w] = "ok"]
  /\ UNCHANGED <<state, readSignal, writeSignal, errChan, rpc, mb, writes, rres, taken>>

\* writeMultiBufferInternal with room: the buffers are appended; nil and
\* errSlowDown both lead to readSignal.Signal() and a nil result.
WriteAccepted(w) ==
  /\ wpc[w] = "write"
  /\ state = "open" /\ ~isFull(Len(data))
  /\ data' = data \o mb[w]
  /\ accepted' = accepted \o mb[w]
  /\ wpc' = [wpc EXCEPT ![w] = "signal"]
  /\ wres' = [wres EXCEPT ![w] = "ok"]
  /\ UNCHANGED <<state, readSignal, writeSignal, errChan, rpc, mb, writes, rres, taken>>

\* errBufferFull: the data is dropped, or the writer goes to wait.
WriteFull(w) ==
  /\ wpc[w] = "write"
  /\ state = "open" /\ isFull(Len(data))
  /\ IF DiscardOverflow
       THEN /\ wpc' = [wpc EXCEPT ![w] = "idle"]
            /\ wres' = [wres EXCEPT ![w] = "dropped"]
       ELSE /\ wpc' = [wpc EXCEPT ![w] = "wait"]
            /\ UNCHANGED wres
  /\ UNCHANGED <<data, state, readSignal, writeSignal, errChan, rpc, mb, writes, rres,
                 accepted, taken>>

\* Mutant: the error of a write to a closed pipe is swallowed.
WriteRefusedQuietly(w) ==
  /\ wpc[w] = "write"
  /\ state # "open"
  /\ wpc' = [wpc EXCEPT ![w] = "signal"]
  /\ wres' = [wres EXCEPT ![w] = "ok"]
  /\ UNCHANGED <<data, state, readSignal, writeSignal, errChan, rpc, mb, writes, rres,
                 accepted, taken>>

\* Closed or interrupted: the data is released, the reader is signalled all the same.
WriteRefused(w) ==
  /\ wpc[w] = "write"
  /\ state # "open"
  /\ wpc' = [wpc EXCEPT ![w] = "signal"]
  /\ wres' = [wres EXCEPT ![w] = "ErrClosedPipe"]
  /\ UNCHANGED <<data, state, readSignal, writeSignal, errChan, rpc, mb, writes, rres,
                 accepted, taken>>

WriteInternal(w) == WriteAccepted(w) \/ WriteFull(w) \/ WriteRefused(w)

SignalReader(w) ==
  /\ wpc[w] = "signal"
  /\ readSignal' = 1
  /\ wpc' = [wpc EXCEPT ![w] = "idle"]
  /\ UNCHANGED <<data, state, writeSignal, errChan, rpc, mb, writes, rres, wres, accepted, taken>>

\* The select on writeSignal and done.
WriterWakes(w) ==
  /\ wpc[w] = "wait"
  /\ \/ /\ writeSignal = 1
        /\ writeSignal' = 0
        /\ wpc' = [wpc EXCEPT ![w] = "write"]
        /\ UNCHANGED wres
     \/ /\ Done
        /\ wpc' = [wpc EXCEPT ![w] = "idle"]
        /\ wres' = [wres EXCEPT ![w] = "ErrClosedPipe"]
        /\ UNCHANGED writeSignal
  /\ UNCHANGED <<data, state, readSignal, errChan, rpc, mb, writes, rres, accepted, taken>>

-----------------------------------------------------------------------------
(* ReadMultiBuffer and ReadMultiBufferTimeout.                             *)

BeginRead(r) ==
  /\ rpc[r] = "idle"
  /\ rpc' = [rpc EXCEPT ![r] = "read"]
  /\ rres' = [rres EXCEPT ![r] = "none"]
  /\ UNCHANGED <<data, state, readSignal, writeSignal, errChan, wpc, mb, writes, wres,
                 accepted, taken>>

\* readMultiBufferInternal: everything buffered, an error, or nothing yet.
ReadInternal(r) ==
  /\ rpc[r] = "read"
  /\ \/ /\ state # "errord" /\ data # <<>>
        /\ taken' = taken \o data
        /\ data' = <<>>
        /\ rres' = [rres EXCEPT ![r] = "data"]
        /\ rpc' = [rpc EXCEPT ![r] = "signal"]
     \/ /\ state = "closed" /\ data = <<>>
        /\ rres' = [rres EXCEPT ![r] = "EOF"]
        /\ rpc' = [rpc EXCEPT ![r] = "signal"]
        /\ UNCHANGED <<taken, data>>
     \/ /\ state = "errord"
        /\ rres' = [rres EXCEPT ![r] = "ErrClosedPipe"]
        /\ rpc' = [rpc EXCEPT ![r] = "signal"]
        /\ UNCHANGED <<taken, data>>
     \/ /\ state = "open" /\ data = <<>>
        /\ rpc' = [rpc EXCEPT ![r] = "wait"]
        /\ UNCHANGED <<taken, data, rres>>
  /\ UNCHANGED <<state, readSignal, writeSignal, errChan, wpc, mb, writes, wres, accepted>>

\* Mutant: a reader does not signal the writers.
SignalNobody(r) ==
  /\ rpc[r] = "signal"
  /\ rpc' = [rpc EXCEPT ![r] = "idle"]
  /\ UNCHANGED <<data, state, readSignal, writeSignal, errChan, wpc, mb, writes, rres, wres,
                 accepted, taken>>

SignalWriter(r) ==
  /\ rpc[r] = "signal"
  /\ writeSignal' = 1
  /\ rpc' = [rpc EXCEPT ![r] = "idle"]
  /\ UNCHANGED <<data, state, readSignal, errChan, wpc, mb, writes, rres, wres, accepted, taken>>

\* The select: readSignal, done, and errChan or the timer.
ReaderWakes(r) ==
  /\ rpc[r] = "wait"
  /\ \/ /\ readSignal = 1
        /\ readSignal' = 0
        /\ rpc' = [rpc EXCEPT ![r] = "read"]
        /\ UNCHANGED <<errChan, rres>>
     \/ /\ Done
        /\ rpc' = [rpc EXCEPT ![r] = "read"]
        /\ UNCHANGED <<readSignal, errChan, rres>>
     \/ /\ r \notin TimeoutReaders
        /\ errChan = 1
        /\ errChan' = 0
        /\ rpc' = [rpc EXCEPT ![r] = "idle"]
        /\ rres' = [rres EXCEPT ![r] = "error"]
        /\ UNCHANGED readSignal
     \/ /\ r \in TimeoutReaders
        /\ rpc' = [rpc EXCEPT ![r] = "idle"]
        /\ rres' = [rres EXCEPT ![r] = "timeout"]
        /\ UNCHANGED <<readSignal, errChan>>
  /\ UNCHANGED <<data, state, writeSignal, wpc, mb, writes, wres, accepted, taken>>

-----------------------------------------------------------------------------
(* Close, Interrupt, ReturnAnError and Recover, called by either end.      *)

\* A second Close, or a Close after Interrupt, returns without effect.
Close ==
  /\ state = "open"
  /\ state' = "closed"
  /\ UNCHANGED <<data, readSignal, writeSignal, errChan, rpc, wpc, mb, writes, rres, wres,
                 accepted, taken>>

\* Interrupting a pipe that is already closed has no effect: its data stays.
Interrupt ==
  /\ state = "open"
  /\ state' = "errord"
  /\ data' = <<>>
  /\ UNCHANGED <<readSignal, writeSignal, errChan, rpc, wpc, mb, writes, rres, wres,
                 accepted, taken>>

\* The send blocks while an earlier error has not been received.
ReturnAnError ==
  /\ errChan = 0
  /\ errChan' = 1
  /\ UNCHANGED <<data, state, readSignal, writeSignal, rpc, wpc, mb, writes, rres, wres,
                 accepted, taken>>

RecoverError ==
  /\ errChan = 1
  /\ errChan' = 0
  /\ UNCHANGED <<data, state, readSignal, writeSignal, rpc, wpc, mb, writes, rres, wres,
                 accepted, taken>>

WriterStep(w) == WriteInternal(w) \/ SignalReader(w) \/ WriterWakes(w)
ReaderStep(r) == ReadInternal(r) \/ SignalWriter(r) \/ ReaderWakes(r)

Next ==
  \/ \E w \in Writers : BeginWrite(w) \/ WriterStep(w)
  \/ \E r \in Readers : BeginRead(r) \/ ReaderStep(r)
  \/ Close \/ Interrupt \/ ReturnAnError \/ RecoverError

Spec == Init /\ [][Next]_pipeVars

(* Every goroutine that can run does, and the relay loops at the reading   *)
(* end (buf.Copy) call ReadMultiBuffer again after each result.            *)
Fairness ==
  /\ \A w \in Writers : WF_pipeVars(WriterStep(w))
  /\ \A r \in Readers : WF_pipeVars(ReaderStep(r)) /\ WF_pipeVars(BeginRead(r))

FairSpec == Spec /\ Fairness

-----------------------------------------------------------------------------
(* The pipe is a stream (module Stream): what the readers take is what the *)
(* writers had accepted, in order, complete up to an Interrupt.            *)
Contract == INSTANCE Stream WITH sent <- accepted, received <- taken, status <- state

(* The pipe implements the stream it stands for, through every             *)
(* interleaving of reads, writes, Close and Interrupt.                     *)
IsStream == Contract!StreamSpec

(* io.EOF is returned only when nothing that was ever accepted is still to *)
(* be read, and it stays that way: no write is accepted behind an EOF.     *)
EofIsFinal ==
  \A r \in Readers : rres[r] = "EOF" => state = "closed" /\ taken = accepted

IsIn(b, s) == \E i \in 1..Len(s) : s[i] = b

(* WriteMultiBuffer is all or nothing: a nil result (without overflow)     *)
(* means every buffer of the call went into the pipe, io.ErrClosedPipe or  *)
(* a discarded overflow means none did, also for a writer that was blocked *)
(* when the pipe closed.                                                   *)
WriteOutcome ==
  \A w \in Writers : \A j \in 1..Len(mb[w]) :
    /\ wres[w] = "ok" => IsIn(mb[w][j], accepted)
    /\ wres[w] \in {"dropped", "ErrClosedPipe", "none"} => ~IsIn(mb[w][j], accepted)

(* isFull compares with ">" before a write is appended, so the buffer may  *)
(* exceed its limit, but never by more than one MultiBuffer, however many  *)
(* writers are released at the same time.                                  *)
BoundedOvershoot == Limit >= 0 => Len(data) <= Limit + MaxBuffers

(* A write is all or nothing, and takes the buffer over its limit by at    *)
(* most its own size.                                                      *)
WritesAreWhole == WriteOutcome /\ BoundedOvershoot

(* No wake-up of a blocked reader is lost: if it waits while data is       *)
(* buffered, the token is there, or a writer is about to leave it, or      *)
(* another reader is on its way to the data.                               *)
NoLostReaderWakeup ==
  \A r \in Readers : rpc[r] = "wait" /\ data # <<>> =>
    \/ readSignal = 1
    \/ \E w \in Writers : wpc[w] = "signal"
    \/ \E s \in Readers : rpc[s] = "read"

(* No wake-up of a blocked writer is lost although one token serves all of *)
(* them: if it waits on an open pipe that was emptied, the token is there, *)
(* or a reader is about to leave it, or another writer took it and is      *)
(* about to write, which makes the reader signal again.                    *)
NoLostWriterWakeup ==
  \A w \in Writers : wpc[w] = "wait" /\ state = "open" /\ data = <<>> =>
    \/ writeSignal = 1
    \/ \E r \in Readers : rpc[r] = "signal"
    \/ \E v \in Writers : wpc[v] = "write"

(* No wake-up is lost, though one token of a signal serves all who wait.   *)
NoLostWakeup == NoLostReaderWakeup /\ NoLostWriterWakeup

(* impl.go:25 calls limit the "maximum buffer size in bytes".              *)
SizeWithinLimit == Limit >= 0 => Len(data) <= Limit

(* Every WriteMultiBuffer returns as long as the readers go on reading: no *)
(* writer is left behind by the shared token, whether or not the pipe      *)
(* closes.                                                                 *)
WritesReturn == \A w \in Writers : wpc[w] # "idle" ~> wpc[w] = "idle"

(* A ReadMultiBuffer blocked when the pipe is closed or interrupted        *)
(* returns.                                                                *)
CloseReleasesReaders ==
  \A r \in Readers : (rpc[r] # "idle" /\ state # "open") ~> rpc[r] = "idle"

(* Everything a writer was told is written reaches a reader, unless the    *)
(* pipe is interrupted; closing it does not lose anything.                 *)
AcceptedIsRead ==
  \A b \in Buffers : IsIn(b, accepted) ~> (IsIn(b, taken) \/ state = "errord")
=============================================================================
