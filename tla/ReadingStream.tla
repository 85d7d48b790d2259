--------------------------- MODULE ReadingStream ---------------------------
(***************************************************************************)
(* What the path from a Bluetooth callback to the database promises,       *)
(* without its lock, its channel or its goroutines: a stream that accepts  *)
(* readings while it is open, hands every accepted reading to the writer   *)
(* once and in the order it was accepted, holds a bounded number of them,  *)
(* and ends only after it has been sealed and everything was handed over.  *)
(*                                                                         *)
(* ReadingQueue is the code; it implements this specification.             *)
(***************************************************************************)
EXTENDS Naturals, Sequences

CONSTANTS
  Reading,   \* the readings that can be offered to the stream
  Capacity   \* how many accepted readings may be waiting or being written

VARIABLES
  accepted,  \* every reading the stream took, oldest first
  handled,   \* every reading the writer is finished with, oldest first
  stage      \* "open", then "sealed", then "ended"

vars == <<accepted, handled, stage>>

Init ==
  /\ accepted = <<>>
  /\ handled = <<>>
  /\ stage = "open"

\* A reading is taken: only while the stream is open and not over capacity.
Accept(r) ==
  /\ stage = "open"
  /\ Len(accepted) - Len(handled) < Capacity
  /\ accepted' = Append(accepted, r)
  /\ UNCHANGED <<handled, stage>>

\* The writer is finished with the oldest reading it has not handled yet.
Handle ==
  /\ stage # "ended"
  /\ Len(handled) < Len(accepted)
  /\ handled' = Append(handled, accepted[Len(handled) + 1])
  /\ UNCHANGED <<accepted, stage>>

Seal ==
  /\ stage = "open"
  /\ stage' = "sealed"
  /\ UNCHANGED <<accepted, handled>>

\* The stream ends only when it is sealed and nothing is left to hand over.
End ==
  /\ stage = "sealed"
  /\ handled = accepted
  /\ stage' = "ended"
  /\ UNCHANGED <<accepted, handled>>

Next ==
  \/ \E r \in Reading : Accept(r)
  \/ Handle
  \/ Seal
  \/ End

SafeSpec == Init /\ [][Next]_vars

\* Once sealed the stream runs dry and ends.
Fairness == WF_vars(Handle) /\ WF_vars(End)

Spec == SafeSpec /\ Fairness
=============================================================================
