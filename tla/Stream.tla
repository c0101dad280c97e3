-------------------------------- MODULE Stream --------------------------------
(***************************************************************************)
(* What a pipe promises the two ends of a connection: a stream of buffers  *)
(* that arrives in order, complete and without duplicates, up to the point *)
(* where it is interrupted.  Closing forbids further sending but lets      *)
(* everything already sent be received.                                    *)
(***************************************************************************)
EXTENDS Sequences, Naturals

VARIABLES sent, received, status

streamVars == <<sent, received, status>>

StreamInit == sent = <<>> /\ received = <<>> /\ status = "open"

\* Some buffers are appended, all of them or none.
Send ==
  /\ status = "open"
  /\ Len(sent') > Len(sent)
  /\ SubSeq(sent', 1, Len(sent)) = sent
  /\ UNCHANGED <<received, status>>

\* The receiver gets everything sent since the last receive.
Receive ==
  /\ status # "errord"
  /\ received # sent
  /\ received' = sent
  /\ UNCHANGED <<sent, status>>

EndOfStream == status = "open" /\ status' = "closed" /\ UNCHANGED <<sent, received>>

Abort == status = "open" /\ status' = "errord" /\ UNCHANGED <<sent, received>>

StreamNext == Send \/ Receive \/ EndOfStream \/ Abort

StreamSpec == StreamInit /\ [][StreamNext]_streamVars
=============================================================================
