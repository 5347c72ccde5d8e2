------------------------------ MODULE MergeHeap ------------------------------
(***************************************************************************)
(* The heap of merge nodes behind the queue of sort(1)'s threads: the      *)
(* array of lib/heap.c, ordered by compare_nodes (sort.c).                 *)
(*                                                                         *)
(* The environment is that of SortMerge: a node is put in when it is not   *)
(* there, and has fewer lines left when it comes back.                     *)
(***************************************************************************)
EXTENDS Naturals, Sequences, SequencesExt

CONSTANTS
  Items,    \* the merge nodes
  Level,    \* node->level
  Lines     \* the lines each node starts with (node->nlo + node->nhi)

ASSUME ItemsAssumption == Level \in [Items -> Nat] /\ Lines \in [Items -> Nat]

VARIABLES
  heap,   \* heap->array[1 .. heap->count]
  left    \* the lines each node still has to merge

vars == <<heap, left>>

\* compare_nodes (a, b): 1 if this holds, else 0.  It is never negative.
Higher(a, b) == Level[a] < Level[b] \/ (Level[a] = Level[b] /\ left[a] < left[b])

CompareNodes(a, b) == IF Higher(a, b) THEN 1 ELSE 0

Item(s, k, x) == [s EXCEPT ![k] = x]

\* heapify_up: the new element is at k, its ancestors that do not come before it
\* move down.
RECURSIVE HeapifyUp(_, _, _)
HeapifyUp(s, k, new) ==
  IF k # 1 /\ CompareNodes(s[k \div 2], new) <= 0
  THEN HeapifyUp(Item(s, k, s[k \div 2]), k \div 2, new)
  ELSE Item(s, k, new)

\* heapify_down: the element belongs at parent or below; the child that comes
\* first moves up.
RECURSIVE HeapifyDown(_, _, _)
HeapifyDown(s, parent, element) ==
  LET count == Len(s)
      first == 2 * parent
      child == IF first < count /\ CompareNodes(s[first], s[first + 1]) < 0
               THEN first + 1 ELSE first
  IN IF parent <= count \div 2 /\ CompareNodes(s[child], element) > 0
     THEN HeapifyDown(Item(s, parent, s[child]), child, element)
     ELSE Item(s, parent, element)

\* A mutant: the last element stays in the array when it takes the top's place.
MutWithoutTop(s) ==
  IF Len(s) = 1 THEN << >> ELSE HeapifyDown(s, 1, s[Len(s)])

\* The array after the top has been taken: the last element moves to the top and
\* from there down.
WithoutTop(s) ==
  IF Len(s) = 1 THEN << >> ELSE HeapifyDown(Front(s), 1, s[Len(s)])

Init ==
  /\ heap = << >>
  /\ left = Lines

\* heap_insert
HeapInsert(n) ==
  /\ n \notin ToSet(heap)
  /\ heap' = HeapifyUp(Append(heap, n), Len(heap) + 1, n)
  /\ UNCHANGED left

\* heap_remove_top; the thread that took the node then merges some of its lines.
HeapRemoveTop ==
  /\ heap # << >>
  /\ heap' = WithoutTop(heap)
  /\ \E l \in 0 .. left[heap[1]] : left' = [left EXCEPT ![heap[1]] = l]

Next == (\E n \in Items : HeapInsert(n)) \/ HeapRemoveTop

Spec == Init /\ [][Next]_vars

-----------------------------------------------------------------------------
(* Properties.                                                             *)

Bag == INSTANCE NodeBag WITH bag <- [n \in ToSet(heap) |->
                                       Cardinality({ i \in DOMAIN heap : heap[i] = n })]

\* The heap is a bag of nodes: sifting up and down never loses, duplicates or
\* invents one, whatever the order of insertions and removals and although
\* compare_nodes is not the three-way comparison that heap.c expects.
ImplementsNodeBag == Bag!Spec

\* A node that comes before all those in the heap is the next one to be popped, in
\* whatever disorder earlier removals have left them: MERGE_END stops the threads
\* at once.
UrgentOnTop ==
  [][\A n \in Items :
       HeapInsert(n) /\ (\A m \in ToSet(heap) : Higher(n, m)) => heap'[1] = n]_vars

\* Both: the queue that SortMerge takes for granted.
ImplementsQueue == ImplementsNodeBag /\ UrgentOnTop
=============================================================================
