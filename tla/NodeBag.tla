------------------------------- MODULE NodeBag -------------------------------
(***************************************************************************)
(* What SortMerge assumes of the queue's heap: a bag of merge nodes, any   *)
(* one of which may be taken out.                                          *)
(***************************************************************************)
EXTENDS Naturals, Bags

CONSTANT Items

VARIABLE bag

Init == bag = EmptyBag

Insert(n) == bag' = bag (+) SetToBag({n})
Remove(n) == BagIn(n, bag) /\ bag' = bag (-) SetToBag({n})

Spec == Init /\ [][\E n \in Items : Insert(n) \/ Remove(n)]_bag
=============================================================================
