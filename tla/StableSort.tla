------------------------------ MODULE StableSort ------------------------------
(***************************************************************************)
(* What the internal sort promises: the lines that the sort of one buffer  *)
(* has to write come out one at a time and in order, and all of them do.   *)
(***************************************************************************)
EXTENDS Naturals, Sequences

VARIABLES
  expected,  \* the lines to write, in order
  out        \* the lines written

Init == out = << >>

WriteLine ==
  /\ Len(out) < Len(expected)
  /\ out' = Append(out, expected[Len(out) + 1])
  /\ UNCHANGED expected

Spec == Init /\ [][WriteLine]_<<expected, out>>

FairSpec == Spec /\ WF_<<expected, out>>(WriteLine)
=============================================================================
