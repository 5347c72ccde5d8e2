---------------------------- MODULE MCSortMerge ----------------------------
(* Instances of SortMerge for TLC. *)
EXTENDS SortMerge

\* Every buffer of NLines lines over two keys.
TwoKeys == [1..NLines -> {1, 2}]

\* Three keys, all of them in each half.
Thirds == { [i \in 1..NLines |-> 1 + (i % 3)] }
=============================================================================
