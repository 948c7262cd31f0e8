---------------------------- MODULE FileTransfer ----------------------------
(***************************************************************************)
(* What the Go-Back-N programs of a2/ promise together: the chunks of the  *)
(* file appear in the copy one by one, in order, none twice; the receiver  *)
(* ends only when no more than Missing chunks at the end of the file are   *)
(* not in the copy (0 would be a complete copy), and writes nothing after; *)
(* the sender ends only after the receiver.                                *)
(***************************************************************************)
EXTENDS Integers, Sequences

CONSTANTS
  NumChunks,   \* chunks of the file
  Missing      \* chunks the copy of a receiver that has ended may lack

VARIABLES
  copy,        \* the chunks written
  closed,      \* the receiving program has ended
  confirmed    \* the sending program has ended

ftvars == <<copy, closed, confirmed>>

Init ==
  /\ copy = <<>>
  /\ closed = FALSE
  /\ confirmed = FALSE

Write ==
  /\ ~closed
  /\ Len(copy) < NumChunks
  /\ copy' = Append(copy, Len(copy) + 1)
  /\ UNCHANGED <<closed, confirmed>>

Close ==
  /\ ~closed
  /\ Len(copy) + Missing >= NumChunks
  /\ closed' = TRUE
  /\ UNCHANGED <<copy, confirmed>>

Confirm ==
  /\ closed
  /\ ~confirmed
  /\ confirmed' = TRUE
  /\ UNCHANGED <<copy, closed>>

Next == Write \/ Close \/ Confirm

Spec == Init /\ [][Next]_ftvars
=============================================================================
