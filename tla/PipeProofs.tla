----------------------------- MODULE PipeProofs ------------------------------
(***************************************************************************)
(* Proofs about Pipe for any sets of readers and writers, any limit, any   *)
(* number of writes and any size of MultiBuffer: it implements Stream,     *)
(* EOF is final, a write is all or nothing and exceeds the limit by at     *)
(* most one MultiBuffer, and no wake-up is lost although one token serves  *)
(* every waiting goroutine.  Then about the sessions of the XHTTP server   *)
(* and about parallel tasks.                                               *)
(***************************************************************************)
EXTENDS Pipe, SequenceTheorems, FiniteSetTheorems, TLAPS

(* What PipeAssumption says of the constants.                              *)
LEMMA PipeBounds ==
  /\ Limit \in Int /\ MaxWrites \in Nat /\ MaxBuffers \in Nat
  /\ DiscardOverflow \in BOOLEAN
  BY PipeAssumption DEF PipeAssumption

\* What a writer adds is a proper extension of what was there.
LEMMA ProperExtension ==
  ASSUME NEW S, NEW s \in Seq(S), NEW t \in Seq(S), t # <<>>
  PROVE  /\ s \o t \in Seq(S)
         /\ Len(s \o t) > Len(s)
         /\ SubSeq(s \o t, 1, Len(s)) = s
<1>1. Len(t) > 0
  OBVIOUS
<1>2. Len(s \o t) = Len(s) + Len(t)
  OBVIOUS
<1>3. SubSeq(s \o t, 1, Len(s)) = s
  OBVIOUS
<1> QED
  BY <1>1, <1>2, <1>3

(* A MultiBuffer that a writer makes has as many buffers as it asked for.  *)
LEMMA NewBuffersType ==
  ASSUME TypeOK, NEW w \in Writers, writes[w] < MaxWrites, NEW n \in 0..MaxBuffers
  PROVE  NewBuffers(w, n) \in Seq(Buffers) /\ Len(NewBuffers(w, n)) = n
<1>1. writes[w] + 1 \in 1..MaxWrites
  BY PipeBounds DEF TypeOK
<1>2. \A j \in 1..n : <<w, writes[w] + 1, j>> \in Buffers
  BY <1>1, PipeBounds DEF Buffers
<1>3. n \in Nat
  BY PipeBounds
<1> QED
  BY <1>2, <1>3 DEF NewBuffers

(* Every variable of the pipe keeps its type.                              *)
THEOREM TypeCorrect == Spec => []TypeOK
<1>1. Init => TypeOK
  BY PipeBounds DEF Init, TypeOK
<1>2. TypeOK /\ [Next]_pipeVars => TypeOK'
  <2> SUFFICES ASSUME TypeOK, [Next]_pipeVars PROVE TypeOK'
    OBVIOUS
  <2>1. ASSUME NEW w \in Writers, BeginWrite(w) PROVE TypeOK'
    <3>1. PICK n \in 0..MaxBuffers :
            /\ mb' = [mb EXCEPT ![w] = NewBuffers(w, n)]
            /\ wres' \in {[wres EXCEPT ![w] = "ok"], [wres EXCEPT ![w] = "none"]}
            /\ wpc' \in {wpc, [wpc EXCEPT ![w] = "write"]}
      BY <2>1, Zenon DEF BeginWrite
    <3>2. NewBuffers(w, n) \in Seq(Buffers)
      BY <2>1, NewBuffersType DEF BeginWrite
    <3>3. mb' \in [Writers -> Seq(Buffers)]
      BY <3>1, <3>2 DEF TypeOK
    <3>4. writes' \in [Writers -> 0..MaxWrites]
      BY <2>1, PipeBounds DEF TypeOK, BeginWrite
    <3>5. /\ wres' \in [Writers -> {"none", "ok", "dropped", "ErrClosedPipe"}]
          /\ wpc' \in [Writers -> {"idle", "write", "signal", "wait"}]
      BY <3>1, Zenon DEF TypeOK
    <3> QED
      BY <2>1, <3>3, <3>4, <3>5 DEF TypeOK, BeginWrite
  <2>2. ASSUME NEW w \in Writers, WriteAccepted(w) PROVE TypeOK'
    BY <2>2 DEF TypeOK, WriteAccepted
  <2>3. ASSUME NEW w \in Writers, WriteFull(w) PROVE TypeOK'
    BY <2>3, ZenonT(60) DEF TypeOK, WriteFull
  <2>4. ASSUME NEW w \in Writers, WriteRefused(w) PROVE TypeOK'
    BY <2>4 DEF TypeOK, WriteRefused
  <2>5. ASSUME NEW w \in Writers, SignalReader(w) PROVE TypeOK'
    BY <2>5 DEF TypeOK, SignalReader
  <2>6. ASSUME NEW w \in Writers, WriterWakes(w) PROVE TypeOK'
    BY <2>6, Zenon DEF TypeOK, WriterWakes
  <2>7. ASSUME NEW r \in Readers, BeginRead(r) PROVE TypeOK'
    BY <2>7 DEF TypeOK, BeginRead
  <2>8. ASSUME NEW r \in Readers, ReadInternal(r) PROVE TypeOK'
    <3>1. data' \in Seq(Buffers) /\ taken' \in Seq(Buffers)
      <4>1. \/ taken' = taken \o data /\ data' = <<>>
            \/ taken' = taken /\ data' = data
        BY <2>8 DEF ReadInternal
      <4>2. data \in Seq(Buffers) /\ taken \in Seq(Buffers)
        BY DEF TypeOK
      <4>3. taken \o data \in Seq(Buffers) /\ <<>> \in Seq(Buffers)
        BY <4>2
      <4> QED
        BY <4>1, <4>2, <4>3, Zenon
    <3>2. /\ rpc' \in [Readers -> {"idle", "read", "signal", "wait"}]
          /\ rres' \in [Readers -> {"none", "data", "EOF", "ErrClosedPipe", "timeout", "error"}]
      BY <2>8, ZenonT(60) DEF TypeOK, ReadInternal
    <3> QED
      BY <2>8, <3>1, <3>2 DEF TypeOK, ReadInternal
  <2>9. ASSUME NEW r \in Readers, SignalWriter(r) PROVE TypeOK'
    BY <2>9 DEF TypeOK, SignalWriter
  <2>10. ASSUME NEW r \in Readers, ReaderWakes(r) PROVE TypeOK'
    BY <2>10, ZenonT(60) DEF TypeOK, ReaderWakes
  <2>11. CASE Close \/ Interrupt \/ ReturnAnError \/ RecoverError
    <3>1. CASE Close
      BY <3>1 DEF TypeOK, Close
    <3>2. CASE Interrupt
      BY <3>2 DEF TypeOK, Interrupt
    <3>3. CASE ReturnAnError
      BY <3>3 DEF TypeOK, ReturnAnError
    <3>4. CASE RecoverError
      BY <3>4 DEF TypeOK, RecoverError
    <3> QED
      BY <2>11, <3>1, <3>2, <3>3, <3>4
  <2>12. CASE UNCHANGED pipeVars
    BY <2>12 DEF TypeOK, pipeVars
  <2> QED
    BY <2>1, <2>2, <2>3, <2>4, <2>5, <2>6, <2>7, <2>8, <2>9, <2>10, <2>11, <2>12
       DEF Next, WriterStep, WriteInternal, ReaderStep
<1> QED
  BY <1>1, <1>2, PTL DEF Spec

-----------------------------------------------------------------------------
(* The inductive invariant.                                                *)

\* Nothing is lost or duplicated between the writers and the readers.
Conserved ==
  /\ state # "errord" => accepted = taken \o data
  /\ state = "errord" => data = <<>>

\* A writer that still holds a MultiBuffer holds a proper one.
Pending ==
  \A w \in Writers : wpc[w] \in {"write", "wait"} =>
    mb[w] # <<>> /\ Len(mb[w]) <= MaxBuffers

PipeInv ==
  /\ TypeOK /\ Conserved /\ Pending
  /\ EofIsFinal /\ BoundedOvershoot /\ NoLostReaderWakeup /\ NoLostWriterWakeup

\* The parts of the invariant that a step touching none of their variables keeps.
LEMMA FlowKept ==
  ASSUME Conserved, EofIsFinal, BoundedOvershoot,
         UNCHANGED <<data, state, accepted, taken>>,
         \A r \in Readers : rres'[r] = "EOF" => rres[r] = "EOF"
  PROVE  Conserved' /\ EofIsFinal' /\ BoundedOvershoot'
  BY DEF Conserved, EofIsFinal, BoundedOvershoot

(* A new pipe is empty and nobody waits.                                   *)
LEMMA PipeInvInit == Init => PipeInv
<1> SUFFICES ASSUME Init PROVE PipeInv
  OBVIOUS
<1>1. TypeOK
  BY PipeBounds DEF Init, TypeOK
<1>2. Conserved /\ Pending
  BY DEF Init, Conserved, Pending
<1>3. EofIsFinal /\ BoundedOvershoot
  BY PipeBounds DEF Init, EofIsFinal, BoundedOvershoot
<1>4. NoLostReaderWakeup /\ NoLostWriterWakeup
  BY DEF Init, NoLostReaderWakeup, NoLostWriterWakeup
<1> QED
  BY <1>1, <1>2, <1>3, <1>4 DEF PipeInv
-----------------------------------------------------------------------------
(* Every step of a writer, a reader, Close and Interrupt keeps the         *)
(* invariant.                                                              *)
LEMMA PipeInvStep == PipeInv /\ TypeOK' /\ [Next]_pipeVars => PipeInv'
<1> SUFFICES ASSUME PipeInv, TypeOK', [Next]_pipeVars
             PROVE  (Conserved /\ Pending /\ EofIsFinal /\ BoundedOvershoot
                      /\ NoLostReaderWakeup /\ NoLostWriterWakeup)'
  BY DEF PipeInv
<1> DEFINE Goal == (Conserved /\ Pending /\ EofIsFinal /\ BoundedOvershoot
                      /\ NoLostReaderWakeup /\ NoLostWriterWakeup)'
<1>1. ASSUME NEW w \in Writers, BeginWrite(w) PROVE Goal
  <2>1. (Conserved /\ EofIsFinal /\ BoundedOvershoot)'
    BY <1>1, FlowKept DEF BeginWrite, PipeInv
  <2>2. PICK n \in 0..MaxBuffers :
          /\ mb' = [mb EXCEPT ![w] = NewBuffers(w, n)]
          /\ wpc' = IF n = 0 THEN wpc ELSE [wpc EXCEPT ![w] = "write"]
    BY <1>1, Zenon DEF BeginWrite
  <2>3. NewBuffers(w, n) \in Seq(Buffers) /\ Len(NewBuffers(w, n)) = n
    BY <1>1, NewBuffersType DEF BeginWrite, PipeInv
  <2>4. Pending'
    BY <1>1, <2>2, <2>3, PipeBounds DEF Pending, PipeInv, TypeOK, BeginWrite
  <2>5. NoLostReaderWakeup'
    BY <1>1, <2>2 DEF PipeInv, NoLostReaderWakeup, TypeOK, BeginWrite
  <2>6. NoLostWriterWakeup'
    BY <1>1, <2>2 DEF PipeInv, NoLostWriterWakeup, TypeOK, BeginWrite
  <2> QED
    BY <2>1, <2>4, <2>5, <2>6
<1>2. ASSUME NEW w \in Writers, WriteAccepted(w) PROVE Goal
  <2>1. /\ state = "open" /\ state' = "open" /\ mb[w] # <<>> /\ Len(mb[w]) <= MaxBuffers
        /\ mb[w] \in Seq(Buffers) /\ data \in Seq(Buffers) /\ taken \in Seq(Buffers)
        /\ data' = data \o mb[w] /\ accepted' = accepted \o mb[w] /\ taken' = taken
        /\ accepted = taken \o data
    BY <1>2 DEF WriteAccepted, PipeInv, Pending, TypeOK, Conserved
  <2>2. Conserved'
    <3>1. (taken \o data) \o mb[w] = taken \o (data \o mb[w])
      <4>1. \A s, t, u \in Seq(Buffers) : (s \o t) \o u = s \o (t \o u)
        BY ConcatAssociative, SMTT(30)
      <4> QED
        BY <2>1, <4>1, Zenon
    <3>2. accepted' = taken' \o data'
      BY <2>1, <3>1, Zenon
    <3> QED
      BY <2>1, <3>2, Zenon DEF Conserved
  <2>3. Pending'
    BY <1>2 DEF WriteAccepted, PipeInv, Pending, TypeOK
  <2>4. EofIsFinal'
    BY <1>2, <2>1 DEF WriteAccepted, PipeInv, EofIsFinal
  <2>5. BoundedOvershoot'
    <3>1. /\ Len(data') = Len(data) + Len(mb[w])
          /\ Len(data) \in Nat /\ Len(mb[w]) \in Nat
      BY <2>1
    <3>2. Limit >= 0 => Len(data) <= Limit
      BY <1>2, <3>1, PipeBounds DEF WriteAccepted, isFull
    <3>3. Limit >= 0 => Len(data') <= Limit + MaxBuffers
      BY <2>1, <3>1, <3>2, PipeBounds
    <3> QED
      BY <3>3 DEF BoundedOvershoot
  <2>6. NoLostReaderWakeup'
    BY <1>2 DEF WriteAccepted, PipeInv, NoLostReaderWakeup, TypeOK
  <2>7. data' # <<>>
    <3>1. Len(mb[w]) > 0 /\ Len(data') = Len(data) + Len(mb[w])
      BY <2>1
    <3> QED
      BY <2>1, <3>1
  <2>8. NoLostWriterWakeup'
    BY <2>7 DEF NoLostWriterWakeup
  <2> QED
    BY <2>2, <2>3, <2>4, <2>5, <2>6, <2>8
<1>3. ASSUME NEW w \in Writers, WriteFull(w) PROVE Goal
  <2>1. (Conserved /\ EofIsFinal /\ BoundedOvershoot)'
    BY <1>3, FlowKept DEF WriteFull, PipeInv
  <2>2. Pending'
    BY <1>3 DEF WriteFull, PipeInv, Pending, TypeOK
  <2>3. NoLostReaderWakeup'
    BY <1>3 DEF WriteFull, PipeInv, NoLostReaderWakeup, TypeOK
  <2>4. data # <<>>
    BY <1>3, PipeBounds DEF WriteFull, isFull
  <2>5. NoLostWriterWakeup'
    BY <1>3, <2>4 DEF WriteFull, NoLostWriterWakeup
  <2> QED
    BY <2>1, <2>2, <2>3, <2>5
<1>4. ASSUME NEW w \in Writers, WriteRefused(w) PROVE Goal
  <2>1. (Conserved /\ EofIsFinal /\ BoundedOvershoot)'
    BY <1>4, FlowKept DEF WriteRefused, PipeInv
  <2>2. Pending'
    BY <1>4 DEF WriteRefused, PipeInv, Pending, TypeOK
  <2>3. NoLostReaderWakeup'
    BY <1>4 DEF WriteRefused, PipeInv, NoLostReaderWakeup, TypeOK
  <2>4. NoLostWriterWakeup'
    BY <1>4 DEF WriteRefused, NoLostWriterWakeup
  <2> QED
    BY <2>1, <2>2, <2>3, <2>4
<1>5. ASSUME NEW w \in Writers, SignalReader(w) PROVE Goal
  <2>1. (Conserved /\ EofIsFinal /\ BoundedOvershoot)'
    BY <1>5, FlowKept DEF SignalReader, PipeInv
  <2>2. Pending'
    BY <1>5 DEF SignalReader, PipeInv, Pending, TypeOK
  <2>3. NoLostReaderWakeup'
    BY <1>5 DEF SignalReader, NoLostReaderWakeup
  <2>4. NoLostWriterWakeup'
    BY <1>5 DEF SignalReader, PipeInv, NoLostWriterWakeup, TypeOK
  <2> QED
    BY <2>1, <2>2, <2>3, <2>4
<1>6. ASSUME NEW w \in Writers, WriterWakes(w) PROVE Goal
  <2>1. (Conserved /\ EofIsFinal /\ BoundedOvershoot)'
    BY <1>6, FlowKept DEF WriterWakes, PipeInv
  <2>2. Pending'
    BY <1>6 DEF WriterWakes, PipeInv, Pending, TypeOK
  <2>3. NoLostReaderWakeup'
    BY <1>6 DEF WriterWakes, PipeInv, NoLostReaderWakeup, TypeOK
  <2>4. NoLostWriterWakeup'
    BY <1>6 DEF WriterWakes, PipeInv, NoLostWriterWakeup, TypeOK, Done
  <2> QED
    BY <2>1, <2>2, <2>3, <2>4
<1>7. ASSUME NEW r \in Readers, BeginRead(r) PROVE Goal
  <2>1. (Conserved /\ EofIsFinal /\ BoundedOvershoot)'
    <3>1. \A q \in Readers : rres'[q] = "EOF" => rres[q] = "EOF"
      BY <1>7 DEF BeginRead, PipeInv, TypeOK
    <3> QED
      BY <1>7, <3>1, FlowKept DEF BeginRead, PipeInv
  <2>2. Pending'
    BY <1>7 DEF BeginRead, PipeInv, Pending
  <2>3. NoLostReaderWakeup'
    BY <1>7 DEF BeginRead, PipeInv, NoLostReaderWakeup, TypeOK
  <2>4. NoLostWriterWakeup'
    BY <1>7 DEF BeginRead, PipeInv, NoLostWriterWakeup, TypeOK
  <2> QED
    BY <2>1, <2>2, <2>3, <2>4
<1>8. ASSUME NEW r \in Readers, ReadInternal(r) PROVE Goal
  <2>1. Pending'
    BY <1>8 DEF ReadInternal, PipeInv, Pending
  <2>2. CASE state # "errord" /\ data # <<>>
    <3>1. /\ taken' = taken \o data /\ data' = <<>> /\ state' = state /\ accepted' = accepted
          /\ rres' = [rres EXCEPT ![r] = "data"] /\ rpc' = [rpc EXCEPT ![r] = "signal"]
          /\ UNCHANGED <<wpc, readSignal, writeSignal>>
      BY <1>8, <2>2 DEF ReadInternal
    <3>2. Conserved'
      BY <2>2, <3>1 DEF Conserved, PipeInv, TypeOK
    <3>3. EofIsFinal'
      <4>1. ASSUME NEW q \in Readers, rres[q] = "EOF" PROVE FALSE
        <5>1. taken = taken \o data /\ taken \in Seq(Buffers) /\ data \in Seq(Buffers)
          BY <2>2, <4>1 DEF EofIsFinal, Conserved, PipeInv, TypeOK
        <5> QED
          BY <2>2, <5>1, ConcatEqualIffEmpty
      <4>2. ASSUME NEW q \in Readers PROVE rres'[q] # "EOF"
        BY <3>1, <4>1 DEF PipeInv, TypeOK
      <4> QED
        BY <4>2 DEF EofIsFinal
    <3>4. BoundedOvershoot'
      BY <3>1, PipeBounds DEF BoundedOvershoot
    <3>5. NoLostReaderWakeup'
      BY <3>1 DEF NoLostReaderWakeup
    <3>6. NoLostWriterWakeup'
      BY <3>1 DEF NoLostWriterWakeup, PipeInv, TypeOK
    <3> QED
      BY <2>1, <3>2, <3>3, <3>4, <3>5, <3>6
  <2>3. CASE state = "errord" \/ data = <<>>
    <3>1. /\ UNCHANGED <<data, state, accepted, taken, readSignal, writeSignal, wpc>>
          /\ data = <<>>
      BY <1>8, <2>3 DEF ReadInternal, PipeInv, Conserved
    <3>2. Conserved' /\ BoundedOvershoot'
      BY <3>1 DEF PipeInv, Conserved, BoundedOvershoot
    <3>3. EofIsFinal'
      <4>1. state = "closed" => taken = accepted
        BY <3>1 DEF PipeInv, Conserved, TypeOK
      <4>2. \A q \in Readers : rres'[q] = "EOF" => rres[q] = "EOF" \/ state = "closed"
        BY <1>8, <2>3 DEF ReadInternal, PipeInv, TypeOK
      <4> QED
        BY <3>1, <4>1, <4>2 DEF PipeInv, EofIsFinal
    <3>4. NoLostReaderWakeup'
      BY <3>1 DEF NoLostReaderWakeup
    <3>5. NoLostWriterWakeup'
      <4>1. \A q \in Readers : rpc[q] = "signal" => rpc'[q] = "signal"
        BY <1>8 DEF ReadInternal, PipeInv, TypeOK
      <4> QED
        BY <3>1, <4>1 DEF PipeInv, NoLostWriterWakeup
    <3> QED
      BY <2>1, <3>2, <3>3, <3>4, <3>5
  <2> QED
    BY <2>2, <2>3
<1>9. ASSUME NEW r \in Readers, SignalWriter(r) PROVE Goal
  <2>1. (Conserved /\ EofIsFinal /\ BoundedOvershoot)'
    BY <1>9, FlowKept DEF SignalWriter, PipeInv
  <2>2. Pending'
    BY <1>9 DEF SignalWriter, PipeInv, Pending
  <2>3. NoLostReaderWakeup'
    BY <1>9 DEF SignalWriter, PipeInv, NoLostReaderWakeup, TypeOK
  <2>4. NoLostWriterWakeup'
    BY <1>9 DEF SignalWriter, NoLostWriterWakeup
  <2> QED
    BY <2>1, <2>2, <2>3, <2>4
<1>10. ASSUME NEW r \in Readers, ReaderWakes(r) PROVE Goal
  <2>1. (Conserved /\ EofIsFinal /\ BoundedOvershoot)'
    <3>1. \A q \in Readers : rres'[q] = "EOF" => rres[q] = "EOF"
      BY <1>10 DEF ReaderWakes, PipeInv, TypeOK
    <3> QED
      BY <1>10, <3>1, FlowKept DEF ReaderWakes, PipeInv
  <2>2. Pending'
    BY <1>10 DEF ReaderWakes, PipeInv, Pending
  <2>3. NoLostReaderWakeup'
    BY <1>10 DEF ReaderWakes, PipeInv, NoLostReaderWakeup, TypeOK
  <2>4. NoLostWriterWakeup'
    BY <1>10 DEF ReaderWakes, PipeInv, NoLostWriterWakeup, TypeOK
  <2> QED
    BY <2>1, <2>2, <2>3, <2>4
<1>11. CASE Close
  BY <1>11 DEF Close, PipeInv, TypeOK, Conserved, Pending, EofIsFinal, BoundedOvershoot,
               NoLostReaderWakeup, NoLostWriterWakeup
<1>12. CASE Interrupt
  <2>1. Conserved' /\ BoundedOvershoot'
    BY <1>12, PipeBounds DEF Interrupt, Conserved, BoundedOvershoot
  <2>2. Pending' /\ EofIsFinal'
    BY <1>12 DEF Interrupt, PipeInv, Pending, EofIsFinal
  <2>3. NoLostReaderWakeup' /\ NoLostWriterWakeup'
    BY <1>12 DEF Interrupt, NoLostReaderWakeup, NoLostWriterWakeup
  <2> QED
    BY <2>1, <2>2, <2>3
<1>13. CASE ReturnAnError \/ RecoverError \/ UNCHANGED pipeVars
  <2>1. UNCHANGED <<data, state, readSignal, writeSignal, rpc, wpc, mb, rres, accepted, taken>>
    BY <1>13 DEF ReturnAnError, RecoverError, pipeVars
  <2> QED
    BY <2>1 DEF PipeInv, Conserved, Pending, EofIsFinal, BoundedOvershoot,
                NoLostReaderWakeup, NoLostWriterWakeup
<1> QED
  BY <1>1, <1>2, <1>3, <1>4, <1>5, <1>6, <1>7, <1>8, <1>9, <1>10, <1>11, <1>12, <1>13
     DEF Next, WriterStep, WriteInternal, ReaderStep

(* PipeInv holds in every reachable state.                                 *)
LEMMA PipeInvariant == Spec => []PipeInv
<1>1. PipeInv /\ TypeOK' /\ [Next]_pipeVars => PipeInv'
  BY PipeInvStep
<1> QED
  BY <1>1, PipeInvInit, TypeCorrect, PTL DEF Spec

(* A reader that is told EOF has read, with the others, everything that    *)
(* was ever accepted, and nothing is accepted after it.                    *)
THEOREM EofFinal == Spec => []EofIsFinal
  BY PipeInvariant, PTL DEF PipeInv

(* The buffer exceeds its limit by at most one MultiBuffer.                *)
THEOREM Overshoot == Spec => []BoundedOvershoot
  BY PipeInvariant, PTL DEF PipeInv

(* No wake-up of a blocked reader or writer is lost, although Signal       *)
(* leaves at most one token for all of them.                               *)
THEOREM AllWoken == Spec => []NoLostWakeup
  BY PipeInvariant, PTL DEF PipeInv, NoLostWakeup

-----------------------------------------------------------------------------
(* What the result of a write says.                                        *)

\* A buffer in the pipe can be told from those of a later write, which makes the
\* results of earlier writes of no concern.
OutcomeInv ==
  /\ \A w \in Writers : \A j \in 1..Len(mb[w]) : mb[w][j][1] = w /\ mb[w][j][2] = writes[w]
  /\ \A i \in 1..Len(accepted) : accepted[i][2] <= writes[accepted[i][1]]
  /\ \A w \in Writers : wpc[w] \in {"write", "wait"} => wres[w] = "none"
  /\ WriteOutcome

(* A buffer is in a concatenation if it is in one of the parts.            *)
LEMMA IsInConcat ==
  ASSUME NEW S, NEW s \in Seq(S), NEW t \in Seq(S), NEW b
  PROVE  IsIn(b, s \o t) <=> IsIn(b, s) \/ IsIn(b, t)
<1>1. ASSUME IsIn(b, s) PROVE IsIn(b, s \o t)
  BY <1>1 DEF IsIn
<1>2. ASSUME IsIn(b, t) PROVE IsIn(b, s \o t)
  <2>1. PICK i \in 1..Len(t) : t[i] = b
    BY <1>2 DEF IsIn
  <2>2. (s \o t)[Len(s) + i] = b /\ Len(s) + i \in 1..Len(s \o t)
    BY <2>1
  <2> QED
    BY <2>2 DEF IsIn
<1>3. ASSUME IsIn(b, s \o t) PROVE IsIn(b, s) \/ IsIn(b, t)
  <2>1. PICK i \in 1..Len(s \o t) : (s \o t)[i] = b
    BY <1>3 DEF IsIn
  <2>2. CASE i <= Len(s)
    BY <2>1, <2>2 DEF IsIn
  <2>3. CASE i > Len(s)
    <3>1. t[i - Len(s)] = b /\ i - Len(s) \in 1..Len(t)
      BY <2>1, <2>3
    <3> QED
      BY <3>1 DEF IsIn
  <2> QED
    BY <2>1, <2>2, <2>3
<1> QED
  BY <1>1, <1>2, <1>3

(* Every step keeps OutcomeInv.                                            *)
LEMMA OutcomeStep ==
  ASSUME TypeOK, OutcomeInv, TypeOK', [Next]_pipeVars
  PROVE  OutcomeInv'
\* Steps that accept nothing and begin nothing: a call that had no result yet may
\* get one that says nothing was written.
<1>0. ASSUME UNCHANGED <<mb, writes, accepted>>,
             \A w \in Writers : \/ wres'[w] = wres[w]
                                \/ wres[w] = "none" /\ wres'[w] \in {"dropped", "ErrClosedPipe"},
             \A w \in Writers : wpc'[w] \in {"write", "wait"} =>
                                  wpc[w] \in {"write", "wait"} /\ wres'[w] = wres[w]
      PROVE  OutcomeInv'
  BY <1>0 DEF OutcomeInv, WriteOutcome
<1>1. ASSUME NEW w \in Writers, BeginWrite(w) PROVE OutcomeInv'
  <2>1. PICK n \in 0..MaxBuffers :
          /\ mb' = [mb EXCEPT ![w] = NewBuffers(w, n)]
          /\ n = 0 => wres' = [wres EXCEPT ![w] = "ok"] /\ wpc' = wpc
          /\ n # 0 => wres' = [wres EXCEPT ![w] = "none"] /\ wpc' = [wpc EXCEPT ![w] = "write"]
    BY <1>1, Zenon DEF BeginWrite
  <2>2. /\ wpc[w] = "idle" /\ writes[w] < MaxWrites
        /\ writes'[w] = writes[w] + 1 /\ writes[w] \in Nat
        /\ \A v \in Writers : v # w => writes'[v] = writes[v]
        /\ accepted' = accepted
    BY <1>1, PipeBounds DEF BeginWrite, TypeOK
  <2>3. /\ mb'[w] = NewBuffers(w, n) /\ Len(mb'[w]) = n
        /\ \A j \in 1..n : mb'[w][j] = <<w, writes[w] + 1, j>>
        /\ \A v \in Writers : v # w => mb'[v] = mb[v]
    <3>1. Len(NewBuffers(w, n)) = n
      BY <1>1, NewBuffersType DEF BeginWrite
    <3> QED
      BY <2>1, <3>1 DEF NewBuffers, TypeOK
  <2>4. \A v \in Writers : v # w => wres'[v] = wres[v] /\ wpc'[v] = wpc[v]
    BY <2>1, SMTT(30) DEF TypeOK
  <2>5. \A v \in Writers : \A j \in 1..Len(mb'[v]) : mb'[v][j][1] = v /\ mb'[v][j][2] = writes'[v]
    BY <2>2, <2>3, SMTT(30) DEF OutcomeInv
  <2>6. \A i \in 1..Len(accepted') : accepted'[i][2] <= writes'[accepted'[i][1]]
    <3> SUFFICES ASSUME NEW i \in 1..Len(accepted)
                 PROVE  accepted[i][2] <= writes'[accepted[i][1]]
      BY <2>2
    <3>1. accepted[i][1] \in Writers /\ accepted[i][2] \in Nat
      <4>1. accepted[i] \in Buffers
        BY SMTT(30) DEF TypeOK
      <4> QED
        BY <4>1, PipeBounds DEF Buffers
    <3>2. accepted[i][2] <= writes[accepted[i][1]]
      BY DEF OutcomeInv
    <3> QED
      BY <2>2, <3>1, <3>2
  <2>7. \A v \in Writers : wpc'[v] \in {"write", "wait"} => wres'[v] = "none"
    BY <2>1, <2>2, <2>4, SMTT(30) DEF OutcomeInv, TypeOK
  <2>8. WriteOutcome'
    <3> SUFFICES ASSUME NEW v \in Writers, NEW j \in 1..Len(mb'[v])
                 PROVE  /\ wres'[v] = "ok" => IsIn(mb'[v][j], accepted)
                        /\ wres'[v] \in {"dropped", "ErrClosedPipe", "none"} => ~IsIn(mb'[v][j], accepted)
      BY <2>2 DEF WriteOutcome
    <3>1. CASE v # w
      BY <2>3, <2>4, <3>1 DEF OutcomeInv, WriteOutcome
    <3>2. CASE v = w
      <4>1. n # 0 /\ wres'[w] = "none"
        BY <2>1, <2>3, <3>2, SMTT(30) DEF TypeOK
      <4>2. mb'[w][j][1] = w /\ mb'[w][j][2] = writes[w] + 1
        BY <2>3, <3>2
      <4>3. \A i \in 1..Len(accepted) : accepted[i][1] = w => accepted[i][2] <= writes[w]
        BY DEF OutcomeInv
      <4>4. ~IsIn(mb'[w][j], accepted)
        BY <2>2, <4>2, <4>3 DEF IsIn
      <4> QED
        BY <3>2, <4>1, <4>4, SMTT(30)
    <3> QED
      BY <3>1, <3>2
  <2> QED
    BY <2>5, <2>6, <2>7, <2>8 DEF OutcomeInv
<1>2. ASSUME NEW w \in Writers, WriteAccepted(w) PROVE OutcomeInv'
  <2>1. /\ accepted' = accepted \o mb[w] /\ UNCHANGED <<mb, writes>>
        /\ accepted \in Seq(Buffers) /\ mb[w] \in Seq(Buffers)
        /\ wres'[w] = "ok" /\ wpc'[w] = "signal"
        /\ \A v \in Writers : v # w => wres'[v] = wres[v] /\ wpc'[v] = wpc[v]
    BY <1>2 DEF WriteAccepted, TypeOK
  <2>2. \A b : IsIn(b, accepted') <=> IsIn(b, accepted) \/ IsIn(b, mb[w])
    BY <2>1, IsInConcat
  <2>3. \A i \in 1..Len(accepted') : accepted'[i][2] <= writes'[accepted'[i][1]]
    <3> SUFFICES ASSUME NEW i \in 1..Len(accepted')
                 PROVE  accepted'[i][2] <= writes[accepted'[i][1]]
      BY <2>1, SMTT(30)
    <3>1. IsIn(accepted'[i], accepted) \/ IsIn(accepted'[i], mb[w])
      BY <2>2, SMTT(30) DEF IsIn
    <3>2. CASE IsIn(accepted'[i], accepted)
      BY <3>2 DEF IsIn, OutcomeInv
    <3>3. CASE IsIn(accepted'[i], mb[w])
      <4>1. accepted'[i][1] = w /\ accepted'[i][2] = writes[w]
        BY <3>3 DEF IsIn, OutcomeInv
      <4>2. writes[w] \in Nat
        BY PipeBounds DEF TypeOK
      <4> QED
        BY <4>1, <4>2
    <3> QED
      BY <3>1, <3>2, <3>3
  <2>4. WriteOutcome'
    <3> SUFFICES ASSUME NEW v \in Writers, NEW j \in 1..Len(mb[v])
                 PROVE  /\ wres'[v] = "ok" => IsIn(mb[v][j], accepted')
                        /\ wres'[v] \in {"dropped", "ErrClosedPipe", "none"} => ~IsIn(mb[v][j], accepted')
      BY <2>1 DEF WriteOutcome
    <3>1. CASE v = w
      <4>1. IsIn(mb[w][j], mb[w])
        BY <3>1 DEF IsIn
      <4> QED
        BY <2>1, <2>2, <3>1, <4>1
    <3>2. CASE v # w
      <4>1. ~IsIn(mb[v][j], mb[w])
        BY <3>2, SMTT(30) DEF IsIn, OutcomeInv
      <4> QED
        BY <2>1, <2>2, <3>2, <4>1 DEF OutcomeInv, WriteOutcome
    <3> QED
      BY <3>1, <3>2
  <2> QED
    BY <2>1, <2>3, <2>4, SMTT(30) DEF OutcomeInv
<1>3. ASSUME NEW w \in Writers, WriteFull(w) PROVE OutcomeInv'
  BY <1>0, <1>3, SMTT(30) DEF WriteFull, OutcomeInv, TypeOK
<1>4. ASSUME NEW w \in Writers, WriteRefused(w) PROVE OutcomeInv'
  BY <1>0, <1>4 DEF WriteRefused, OutcomeInv, TypeOK
<1>5. ASSUME NEW w \in Writers, SignalReader(w) PROVE OutcomeInv'
  BY <1>0, <1>5 DEF SignalReader, TypeOK
<1>6. ASSUME NEW w \in Writers, WriterWakes(w) PROVE OutcomeInv'
  <2>1. UNCHANGED <<mb, writes, accepted>> /\ wpc[w] = "wait" /\ wres[w] = "none"
    BY <1>6 DEF WriterWakes, OutcomeInv
  <2>2. CASE wpc' = [wpc EXCEPT ![w] = "write"] /\ UNCHANGED wres
    BY <1>0, <2>1, <2>2 DEF TypeOK
  <2>3. CASE /\ wpc' = [wpc EXCEPT ![w] = "idle"]
             /\ wres' = [wres EXCEPT ![w] = "ErrClosedPipe"]
    BY <1>0, <2>1, <2>3 DEF TypeOK
  <2> QED
    BY <1>6, <2>2, <2>3 DEF WriterWakes
<1>7. ASSUME UNCHANGED <<mb, writes, wres, wpc, accepted>> PROVE OutcomeInv'
  BY <1>0, <1>7
<1>8. ASSUME NEW r \in Readers, BeginRead(r) \/ ReadInternal(r) \/ SignalWriter(r) \/ ReaderWakes(r)
      PROVE  OutcomeInv'
  BY <1>7, <1>8 DEF BeginRead, ReadInternal, SignalWriter, ReaderWakes
<1>9. CASE Close \/ Interrupt \/ ReturnAnError \/ RecoverError \/ UNCHANGED pipeVars
  BY <1>7, <1>9 DEF Close, Interrupt, ReturnAnError, RecoverError, pipeVars
<1> QED
  BY <1>1, <1>2, <1>3, <1>4, <1>5, <1>6, <1>8, <1>9
     DEF Next, WriterStep, WriteInternal, ReaderStep

(* WriteMultiBuffer is all or nothing, also for a writer that is blocked   *)
(* when the pipe is closed or interrupted or that drops its data, and one  *)
(* call takes the buffer over its limit by at most its own size.           *)
THEOREM WritesWhole == Spec => []WritesAreWhole
<1>1. Init => OutcomeInv
  BY DEF Init, OutcomeInv, WriteOutcome
<1>2. TypeOK /\ OutcomeInv /\ TypeOK' /\ [Next]_pipeVars => OutcomeInv'
  BY OutcomeStep
<1>3. PipeInv /\ OutcomeInv => WritesAreWhole
  BY DEF PipeInv, OutcomeInv, WritesAreWhole
<1> QED
  BY <1>1, <1>2, <1>3, TypeCorrect, PipeInvariant, PTL DEF Spec

-----------------------------------------------------------------------------
(* The pipe implements the stream of module Stream: readers receive, in    *)
(* order and without gaps, what the writers' calls put in.                 *)
THEOREM PipeImplementsStream == Spec => IsStream
<1>1. Init => Contract!StreamInit
  BY DEF Init, Contract!StreamInit
<1>2. PipeInv /\ [Next]_pipeVars => [Contract!StreamNext]_(Contract!streamVars)
  <2> SUFFICES ASSUME PipeInv, [Next]_pipeVars
               PROVE  Contract!StreamNext \/ UNCHANGED <<accepted, taken, state>>
    BY DEF Contract!streamVars
  <2>1. ASSUME NEW w \in Writers, WriteAccepted(w) PROVE Contract!Send
    <3>1. /\ accepted \in Seq(Buffers) /\ mb[w] \in Seq(Buffers) /\ mb[w] # <<>>
          /\ accepted' = accepted \o mb[w]
      BY <2>1 DEF WriteAccepted, PipeInv, TypeOK, Pending
    <3>2. Len(accepted') > Len(accepted) /\ SubSeq(accepted', 1, Len(accepted)) = accepted
      BY <3>1, ProperExtension
    <3> QED
      BY <2>1, <3>2 DEF WriteAccepted, Contract!Send
  <2>2. ASSUME NEW r \in Readers, ReadInternal(r), state # "errord", data # <<>>
        PROVE  Contract!Receive
    <3>1. /\ accepted = taken \o data /\ taken' = taken \o data
          /\ UNCHANGED <<accepted, state>>
          /\ taken \in Seq(Buffers) /\ data \in Seq(Buffers)
      BY <2>2 DEF ReadInternal, PipeInv, Conserved, TypeOK
    <3>2. taken # accepted
      BY <2>2, <3>1, ConcatEqualIffEmpty
    <3> QED
      BY <2>2, <3>1, <3>2 DEF Contract!Receive
  <2>3. ASSUME NEW r \in Readers, ReadInternal(r), state = "errord" \/ data = <<>>
        PROVE  UNCHANGED <<accepted, taken, state>>
    BY <2>3 DEF ReadInternal
  <2>4. CASE Close
    BY <2>4 DEF Close, Contract!EndOfStream, Contract!StreamNext
  <2>5. CASE Interrupt
    BY <2>5 DEF Interrupt, Contract!Abort, Contract!StreamNext
  <2>6. ASSUME NEW w \in Writers,
               BeginWrite(w) \/ WriteFull(w) \/ WriteRefused(w) \/ SignalReader(w)
                 \/ WriterWakes(w)
        PROVE  UNCHANGED <<accepted, taken, state>>
    BY <2>6 DEF BeginWrite, WriteFull, WriteRefused, SignalReader, WriterWakes
  <2>7. ASSUME NEW r \in Readers, BeginRead(r) \/ SignalWriter(r) \/ ReaderWakes(r)
        PROVE  UNCHANGED <<accepted, taken, state>>
    BY <2>7 DEF BeginRead, SignalWriter, ReaderWakes
  <2>8. CASE ReturnAnError \/ RecoverError \/ UNCHANGED pipeVars
    BY <2>8 DEF ReturnAnError, RecoverError, pipeVars
  <2> QED
    BY <2>1, <2>2, <2>3, <2>4, <2>5, <2>6, <2>7, <2>8
       DEF Next, WriterStep, WriteInternal, ReaderStep, Contract!StreamNext
<1> QED
  BY <1>1, <1>2, PipeInvariant, PTL DEF Spec, IsStream, Contract!StreamSpec

-----------------------------------------------------------------------------
(***************************************************************************)
(* The sessions of the XHTTP server, of which XhttpSessions has the proof. *)
(***************************************************************************)
CONSTANTS Requests, Kind, Forbidden, MayReap
VARIABLES entry, sess, req

Sessions == INSTANCE XhttpSessions

(* The sessions of the XHTTP server: of the requests that come together    *)
(* one makes the session and the others find it; an upload queue that is   *)
(* open has a reaper or a GET that is going to close it; and once a GET    *)
(* has come in time nothing but the end of a GET closes it.                *)
SessionsOwned == Sessions!SessionsOwned

(* Every session of the XHTTP server has its owners, for any requests.     *)
THEOREM AllSessionsOwned == Sessions!Spec => []SessionsOwned
BY Sessions!AllOwned DEF SessionsOwned

-----------------------------------------------------------------------------
(***************************************************************************)
(* Parallel tasks (module TaskRun), with which both directions of a        *)
(* connection are run, for any number of them.                             *)
(***************************************************************************)
CONSTANT NumTasks
VARIABLES begun, returned, errs, gone, tokens, failed, canceled, turns, outcome

Run == INSTANCE TaskRun WITH
  N <- NumTasks, started <- begun, left <- gone, done <- failed, i <- turns, result <- outcome

(* What task.Run returns is true, and the goroutines it leaves behind do   *)
(* not block on its semaphore.                                             *)
RunIsRight == Run!RunIsRight


\* The tasks that have signalled.
Signalled == gone \ errs

(* The permits are counted: each was taken by the start of a task or by a  *)
(* turn of the second loop, and given back by a task that passed.  The     *)
(* second loop begins when all tasks were started, and Run returns nil     *)
(* after its last turn.                                                    *)
Counted ==
  /\ tokens + Cardinality(begun) + turns = NumTasks + Cardinality(Signalled)
  /\ turns > 0 => begun = Run!Tasks
  /\ outcome = {"nil"} => turns = NumTasks /\ begun = Run!Tasks

RunInv == NumTasks \in Nat /\ Run!TypeOK /\ Counted

(* The sets that are counted are finite; a subset has no more members, and *)
(* one with as many members as there are tasks is all of them.             *)
LEMMA Sizes ==
  ASSUME NumTasks \in Nat, NEW S \in SUBSET Run!Tasks
  PROVE  /\ IsFiniteSet(S)
         /\ Cardinality(S) \in Nat
         /\ Cardinality(Run!Tasks) = NumTasks
         /\ Cardinality(S) = NumTasks => S = Run!Tasks
         /\ \A T \in SUBSET S : Cardinality(T) <= Cardinality(S)
         /\ \A t \in Run!Tasks \ S : Cardinality(S \cup {t}) = Cardinality(S) + 1
<1>1. IsFiniteSet(Run!Tasks) /\ Cardinality(Run!Tasks) = NumTasks
  BY FS_Interval DEF Run!Tasks
<1>2. IsFiniteSet(S) /\ (Cardinality(S) = Cardinality(Run!Tasks) => S = Run!Tasks)
  BY <1>1, FS_Subset
<1>3. Cardinality(S) \in Nat
  BY <1>2, FS_CardinalityType
<1>4. \A T \in SUBSET S : Cardinality(T) <= Cardinality(S)
  BY <1>2, FS_Subset
<1>5. \A t \in Run!Tasks \ S : Cardinality(S \cup {t}) = Cardinality(S) + 1
  BY <1>2, FS_AddElement
<1> QED BY <1>1, <1>2, <1>3, <1>4, <1>5

(* New makes as many permits as there are tasks.                           *)
LEMMA RunBegins == NumTasks \in Nat /\ Run!Init => RunInv
<1> SUFFICES ASSUME NumTasks \in Nat, Run!Init PROVE RunInv
  OBVIOUS
<1>1. Cardinality({}) = 0
  BY FS_EmptySet
<1>2. Run!TypeOK
  BY DEF Run!Init, Run!TypeOK, Run!Permits
<1>3. Signalled = {}
  BY DEF Run!Init, Signalled
<1>4. Counted
  BY <1>1, <1>3 DEF Run!Init, Counted, Run!Permits
<1> QED BY <1>2, <1>4 DEF RunInv

(* A task that has passed and not yet signalled leaves room for its permit. *)
LEMMA Room ==
  ASSUME RunInv, NEW t \in (returned \ gone) \ errs
  PROVE  tokens < NumTasks
<1>1. /\ NumTasks \in Nat
      /\ Signalled \in SUBSET Run!Tasks /\ begun \in SUBSET Run!Tasks /\ t \in Run!Tasks \ Signalled
  BY DEF RunInv, Run!TypeOK, Signalled
<1>2. Cardinality(Signalled \cup {t}) = Cardinality(Signalled) + 1
  BY <1>1, Sizes
<1>3. Signalled \cup {t} \in SUBSET begun
  BY DEF RunInv, Run!TypeOK, Signalled
<1>4. Cardinality(Signalled \cup {t}) <= Cardinality(begun)
  BY <1>1, <1>3, Sizes
<1>5. Cardinality(Signalled) \in Nat /\ Cardinality(begun) \in Nat
  BY <1>1, Sizes
<1> QED BY <1>1, <1>2, <1>4, <1>5 DEF RunInv, Run!TypeOK, Counted

(* No step of Run or of a task loses or invents a permit.                  *)
LEMMA RunStep == RunInv /\ [Run!Next]_(Run!vars) => RunInv'
<1> SUFFICES ASSUME RunInv, [Run!Next]_(Run!vars) PROVE RunInv'
  OBVIOUS
<1>0. /\ Signalled \in SUBSET Run!Tasks /\ begun \in SUBSET Run!Tasks
      /\ Cardinality(Signalled) \in Nat /\ Cardinality(begun) \in Nat
      /\ NumTasks \in Nat
  BY Sizes DEF RunInv, Run!TypeOK, Signalled
<1>1. ASSUME NEW t \in Run!Tasks, Run!StartTask(t) PROVE RunInv'
  <2>1. Run!TypeOK'
    BY <1>0, <1>1 DEF Run!StartTask, RunInv, Run!TypeOK
  <2>2. Cardinality(begun') = Cardinality(begun) + 1
    BY <1>0, <1>1, Sizes DEF Run!StartTask
  <2>3. Signalled' = Signalled /\ turns = 0
    BY <1>1 DEF Run!StartTask, Signalled, RunInv, Run!TypeOK, Counted
  <2>4. outcome # {"nil"}
    BY <1>1 DEF Run!StartTask, RunInv, Counted
  <2>5. Counted'
    BY <1>0, <1>1, <2>2, <2>3, <2>4 DEF Run!StartTask, RunInv, Run!TypeOK, Counted
  <2> QED BY <2>1, <2>5 DEF RunInv
<1>2. ASSUME NEW t \in Run!Tasks, Run!Passes(t) PROVE RunInv'
  BY <1>2 DEF Run!Passes, RunInv, Run!TypeOK, Counted, Signalled
<1>3. ASSUME NEW t \in Run!Tasks, Run!Fails(t) PROVE RunInv'
  <2>1. Signalled' = Signalled
    BY <1>3 DEF Run!Fails, Signalled, RunInv, Run!TypeOK
  <2>2. Run!TypeOK'
    BY <1>3 DEF Run!Fails, RunInv, Run!TypeOK
  <2> QED BY <1>3, <2>1, <2>2 DEF Run!Fails, RunInv, Counted
<1>4. ASSUME NEW t \in Run!Tasks, Run!Signal(t) PROVE RunInv'
  <2>1. Signalled' = Signalled \cup {t} /\ t \notin Signalled
    BY <1>4 DEF Run!Signal, Signalled
  <2>2. Cardinality(Signalled') = Cardinality(Signalled) + 1
    BY <1>0, <2>1, Sizes
  <2>3. Run!TypeOK'
    BY <1>0, <1>4 DEF Run!Signal, RunInv, Run!TypeOK
  <2>4. Counted'
    BY <1>0, <1>4, <2>2 DEF Run!Signal, RunInv, Run!TypeOK, Counted
  <2> QED BY <2>3, <2>4 DEF RunInv
<1>5. ASSUME NEW t \in Run!Tasks, Run!Report(t) PROVE RunInv'
  <2>1. Signalled' = Signalled
    BY <1>5 DEF Run!Report, Signalled
  <2>2. Run!TypeOK'
    BY <1>5 DEF Run!Report, RunInv, Run!TypeOK
  <2> QED BY <1>5, <2>1, <2>2 DEF Run!Report, RunInv, Counted
<1>6. CASE Run!CancelContext
  BY <1>6 DEF Run!CancelContext, RunInv, Run!TypeOK, Counted, Signalled
<1>7. CASE Run!TakeError
  BY <1>7 DEF Run!TakeError, RunInv, Run!TypeOK, Counted, Signalled, Run!Results
<1>8. CASE Run!TakeContext
  BY <1>8 DEF Run!TakeContext, RunInv, Run!TypeOK, Counted, Signalled, Run!Results
<1>9. CASE Run!TakePermit
  BY <1>0, <1>9 DEF Run!TakePermit, Run!Waiting, RunInv, Run!TypeOK, Counted, Signalled
<1>10. CASE Run!ReturnNil
  BY <1>10 DEF Run!ReturnNil, RunInv, Run!TypeOK, Counted, Signalled, Run!Results
<1>11. CASE UNCHANGED Run!vars
  BY <1>11 DEF Run!vars, RunInv, Run!TypeOK, Counted, Signalled
<1> QED BY <1>1, <1>2, <1>3, <1>4, <1>5, <1>6, <1>7, <1>8, <1>9, <1>10, <1>11
       DEF Run!Next, Run!Run, Run!Goroutine

(* What Counted says when Run has returned nil: there were as many signals *)
(* as tasks.                                                               *)
LEMMA CountGivesNil == RunInv => Run!NilMeansAllPassed
<1> SUFFICES ASSUME RunInv, outcome = {"nil"} PROVE returned = Run!Tasks /\ errs = {}
  BY DEF Run!NilMeansAllPassed
<1>1. Signalled \in SUBSET Run!Tasks /\ Run!Tasks \in SUBSET Run!Tasks /\ NumTasks \in Nat
  BY DEF RunInv, Run!TypeOK, Signalled
<1>2. /\ Cardinality(Signalled) \in Nat /\ Cardinality(Run!Tasks) = NumTasks
      /\ Cardinality(Signalled) <= NumTasks
      /\ Cardinality(Signalled) = NumTasks => Signalled = Run!Tasks
  BY <1>1, Sizes
<1>3. Cardinality(Signalled) = NumTasks
  BY <1>1, <1>2 DEF RunInv, Run!TypeOK, Counted
<1> QED BY <1>2, <1>3 DEF Signalled, RunInv, Run!TypeOK

(* Run's variables keep their types, for any number of tasks.              *)
THEOREM RunTypeCorrect == NumTasks \in Nat => (Run!Spec => []Run!TypeOK)
BY RunBegins, RunStep, PTL DEF Run!Spec, RunInv

(* The lemma Room for all tasks at once, and CountGivesNil.                *)
LEMMA CountGivesRight == RunInv => RunIsRight
<1>1. RunInv => Run!SignalHasRoom
  BY Room DEF Run!SignalHasRoom
<1> QED BY <1>1, CountGivesNil DEF RunIsRight, Run!RunIsRight

(* Run returns nil only if every task has returned without an error, and a *)
(* task that passed never waits for room in the semaphore.                 *)
THEOREM RunCorrect == NumTasks \in Nat => (Run!Spec => []RunIsRight)
BY RunBegins, RunStep, CountGivesRight, PTL DEF Run!Spec
=============================================================================
