---------------------------- MODULE MCSortParts ----------------------------
(* What SortMerge takes for granted of its parts: a behaviour is either one of
   the heap or one call of sequential_sort.

   The nodes of the heap are those of a merge tree for four threads and ten lines:
   the root, its two children and the four leaves, with MERGE_END. *)
EXTENDS MergeHeap

CONSTANTS End, Root, Lo, Hi, LoLo, LoHi, HiLo, HiHi, MaxLines, Keys

VARIABLES mem, start, toTemp, done

sorting == <<mem, start, toTemp, done>>

Sorting == INSTANCE SeqSort

Levels ==
  [n \in Items |-> CASE n = End          -> 0
                     [] n = Root         -> 1
                     [] n \in {Lo, Hi}   -> 2
                     [] OTHER            -> 3]

TenLines ==
  [n \in Items |-> CASE n = End              -> 0
                     [] n = Root             -> 3
                     [] n \in {Lo, Hi}       -> 2
                     [] n \in {LoLo, HiLo}   -> 1
                     [] OTHER                -> 2]

NothingToSort == start = << >> /\ mem = << >> /\ toTemp = FALSE /\ done = TRUE

PartsInit == Init /\ (NothingToSort \/ Sorting!Init)

PartsNext ==
  \/ start = << >> /\ Next /\ UNCHANGED sorting
  \/ Sorting!Sort /\ UNCHANGED vars

PartsSpec == PartsInit /\ [][PartsNext]_<<vars, sorting>>

SortsStably == Sorting!SortsStably
=============================================================================
