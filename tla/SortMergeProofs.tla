-------------------------- MODULE SortMergeProofs --------------------------
(***************************************************************************)
(* Theorems about SortMerge, for any number of threads and lines and any   *)
(* buffer: type correctness; that a node is handed to one thread at a      *)
(* time; that sortlines leaves no thread and no lock behind; and that no   *)
(* node with lines to merge is ever forgotten.                             *)
(***************************************************************************)
EXTENDS SortMerge, FiniteSetTheorems, WellFoundedInduction, TLAPS

USE SizesAssumption, InputsAssumption, NamesAssumption

-----------------------------------------------------------------------------
(* Of some numbers one is the least.                                       *)

Below == { p \in Nat \X Nat : p[1] < p[2] }

LEMMA BelowWellFounded == IsWellFoundedOn(Below, Nat)
<1>1. Below = OpToRel(<, Nat)
  BY DEF Below, OpToRel
<1> QED
  BY <1>1, NatLessThanWellFounded

LEMMA Least ==
  ASSUME NEW S \in SUBSET Nat, S # {}
  PROVE  \E x \in S : \A y \in S : x <= y
<1>1. PICK x \in S : \A y \in S : <<y, x>> \notin Below
  BY BelowWellFounded, WFMin
<1>2. \A y \in S : ~(y < x)
  BY <1>1 DEF Below
<1> QED
  BY <1>1, <1>2

-----------------------------------------------------------------------------
(* The tree.                                                               *)

LEMMA NodesAreSequences ==
  ASSUME NEW n \in Nodes
  PROVE  /\ n \in Paths
         /\ n \in Seq({0, 1})
         /\ Len(n) \in Nat
BY DEF Nodes, Paths

LEMMA RootIsNode == Root \in Nodes /\ Root \in Threads /\ Main \in Threads
<1>1. Root \in [1..0 -> {0, 1}]
  BY DEF Root
<1>2. Root \in Paths
  <2>1. 0 \in 0..(NThreads - 1)
    OBVIOUS
  <2> QED
    BY <1>1, <2>1 DEF Paths
<1> QED
  BY <1>2 DEF Nodes, Threads, Main

LEMMA ChildrenOf ==
  ASSUME NEW n \in Nodes
  PROVE  /\ Lo(n) \in Seq({0, 1}) /\ Hi(n) \in Seq({0, 1})
         /\ Len(Lo(n)) = Len(n) + 1 /\ Len(Hi(n)) = Len(n) + 1
         /\ Lo(n)[Len(n) + 1] = 0 /\ Hi(n)[Len(n) + 1] = 1
         /\ \A i \in 1..Len(n) : Lo(n)[i] = n[i] /\ Hi(n)[i] = n[i]
         /\ Parent(Lo(n)) = n /\ Parent(Hi(n)) = n
         /\ Lo(n) # Root /\ Hi(n) # Root
<1>1. n \in Seq({0, 1}) /\ Len(n) \in Nat
  BY NodesAreSequences
<1>2. /\ Lo(n) \in Seq({0, 1}) /\ Hi(n) \in Seq({0, 1})
      /\ Len(Lo(n)) = Len(n) + 1 /\ Len(Hi(n)) = Len(n) + 1
      /\ Lo(n)[Len(n) + 1] = 0 /\ Hi(n)[Len(n) + 1] = 1
      /\ \A i \in 1..Len(n) : Lo(n)[i] = n[i] /\ Hi(n)[i] = n[i]
  BY <1>1 DEF Lo, Hi
<1>3. Parent(Lo(n)) = n
  <2>1. Parent(Lo(n)) = SubSeq(Lo(n), 1, Len(n))
    BY <1>1, <1>2 DEF Parent
  <2> QED
    BY <1>1, <1>2, <2>1
<1>4. Parent(Hi(n)) = n
  <2>1. Parent(Hi(n)) = SubSeq(Hi(n), 1, Len(n))
    BY <1>1, <1>2 DEF Parent
  <2> QED
    BY <1>1, <1>2, <2>1
<1>5. Lo(n) # Root /\ Hi(n) # Root
  BY <1>1, <1>2 DEF Root
<1> QED
  BY <1>2, <1>3, <1>4, <1>5

LEMMA SplitMakesNodes ==
  ASSUME NEW n \in Nodes, NodeThreads[n] > 1
  PROVE  Lo(n) \in Nodes /\ Hi(n) \in Nodes /\ Lo(n) \in Threads
<1>1. Lo(n) \in Paths /\ Hi(n) \in Paths
  BY TreeAssumption
<1>2. Lo(n) \in Nodes /\ Hi(n) \in Nodes
  BY <1>1, ChildrenOf DEF Nodes
<1> QED
  BY <1>2, ChildrenOf DEF Threads

\* Where a thread works on a node of the tree, the node it delivers to is one.
LEMMA ParentIsNode ==
  ASSUME NEW n \in Nodes, n # Root
  PROVE  Parent(n) \in Nodes
BY TreeAssumption

LEMMA InitNodeType ==
  ASSUME NEW n \in Nodes
  PROVE  InitNode(n) \in NodeFields
<1>1. NodeLines[n] \in Nat /\ NodeStart[n] \in Nat /\ Level(n) \in Nat
  BY TreeAssumption, NodesAreSequences DEF Level
<1> DEFINE nlo == NodeLines[n] \div 2
           lo  == Level(n) * NLines + NodeStart[n]
<1>2. nlo \in Nat /\ lo \in Nat
  BY <1>1
<1>3. lo + nlo \in Nat /\ NodeLines[n] - nlo \in Int
  BY <1>1, <1>2
<1> QED
  BY <1>2, <1>3 DEF InitNode, NodeFields

LEMMA CellType ==
  ASSUME TypeOK, NEW a
  PROVE  Cell(a) \in Line \cup {Junk}
BY DEF TypeOK, Cell

LEMMA NthType ==
  ASSUME NEW S \in SUBSET (Line \cup {Junk}), NEW k
  PROVE  Nth(S, k) \in Line \cup {Junk}
<1> DEFINE kth == { x \in S : Cardinality({ y \in S : Before(y, x) }) = k - 1 }
<1>1. CASE kth = {}
  BY <1>1 DEF Nth
<1>2. CASE kth # {}
  <2>1. (CHOOSE x \in kth : TRUE) \in kth
    BY <1>2
  <2> QED
    BY <1>2, <2>1 DEF Nth
<1> QED
  BY <1>1, <1>2

LEMMA InitType == Init => TypeOK
<1> SUFFICES ASSUME Init PROVE TypeOK
  OBVIOUS
<1>1. input \in [1..NLines -> Nat \ {0}]
  BY DEF Init
<1>2. mem \in [Cells -> Line \cup {Junk}]
  <2> SUFFICES ASSUME NEW a \in Cells, a < NLines
               PROVE  <<input[a + 1], a + 1>> \in Line
    BY DEF Init
  <2>1. a \in Nat
    BY DEF Cells
  <2>2. a + 1 \in 1..NLines
    BY <2>1
  <2> QED
    BY <1>1, <2>2 DEF Line
<1>3. node \in [Nodes -> NodeFields]
  BY InitNodeType DEF Init
<1>4. /\ pc \in [Threads -> PCs]
      /\ at \in [Threads -> Nodes \cup {End}]
  BY DEF Init, PCs, Threads
<1>5. loc \in [Threads -> Locals]
  BY DEF Init, Locals, NoLocals
<1> QED
  BY <1>1, <1>2, <1>3, <1>4, <1>5 DEF Init, TypeOK

-----------------------------------------------------------------------------
(* Steps keep the types: first what the actions are made of.               *)

LEMMA AdvanceType ==
  ASSUME TypeOK, NEW t \in Threads, NEW next \in PCs, Advance(t, next)
  PROVE  /\ queue' \in [Nodes \cup {End} -> Nat]
         /\ queued' \in [Nodes \cup {End} -> BOOLEAN]
         /\ pc' \in [Threads -> PCs]
BY DEF TypeOK, Advance

LEMMA QueueInsertType ==
  ASSUME TypeOK, NEW t \in Threads, NEW n \in Nodes \cup {End}, NEW next \in PCs, QueueInsert(t, n, next)
  PROVE  /\ queue' \in [Nodes \cup {End} -> Nat]
         /\ queued' \in [Nodes \cup {End} -> BOOLEAN]
         /\ pc' \in [Threads -> PCs]
<1>1. /\ queue' \in [Nodes \cup {End} -> Nat]
      /\ queued' \in [Nodes \cup {End} -> BOOLEAN]
  BY DEF TypeOK, QueueInsert
<1>2. pc' \in [Threads -> PCs]
  <2>1. "pop" \in PCs
    BY DEF PCs
  <2> QED
    BY <2>1 DEF TypeOK, QueueInsert, Waiting
<1> QED
  BY <1>1, <1>2

LEMMA QueueCheckInsertType ==
  ASSUME TypeOK, NEW t \in Threads, NEW n \in Nodes \cup {End}, NEW next \in PCs, QueueCheckInsert(t, n, next)
  PROVE  /\ queue' \in [Nodes \cup {End} -> Nat]
         /\ queued' \in [Nodes \cup {End} -> BOOLEAN]
         /\ pc' \in [Threads -> PCs]
BY AdvanceType, QueueInsertType DEF QueueCheckInsert

\* Changing fields of a record.
LEMMA NodeFieldTypes ==
  ASSUME NEW nd \in NodeFields, NEW x \in Nat
  PROVE  /\ [nd EXCEPT !.lo = x] \in NodeFields
         /\ [nd EXCEPT !.hi = x] \in NodeFields
         /\ [nd EXCEPT !.endLo = x] \in NodeFields
         /\ [nd EXCEPT !.endHi = x] \in NodeFields
         /\ nd.lo + 1 \in Nat /\ nd.hi + 1 \in Nat
<1>1. nd = [lo |-> nd.lo, hi |-> nd.hi, endLo |-> nd.endLo, endHi |-> nd.endHi,
            nlo |-> nd.nlo, nhi |-> nd.nhi]
  BY DEF NodeFields
<1>2. /\ nd.lo \in Nat /\ nd.hi \in Nat /\ nd.endLo \in Nat /\ nd.endHi \in Nat
      /\ nd.nlo \in Int /\ nd.nhi \in Int
  BY DEF NodeFields
<1>3. [nd EXCEPT !.lo = x] \in NodeFields
  BY <1>1, <1>2 DEF NodeFields
<1>4. [nd EXCEPT !.hi = x] \in NodeFields
  BY <1>1, <1>2 DEF NodeFields
<1>5. [nd EXCEPT !.endLo = x] \in NodeFields
  BY <1>1, <1>2 DEF NodeFields
<1>6. [nd EXCEPT !.endHi = x] \in NodeFields
  BY <1>1, <1>2 DEF NodeFields
<1> QED
  BY <1>2, <1>3, <1>4, <1>5, <1>6

LEMMA LocalTypes ==
  ASSUME NEW l \in Locals, NEW x \in Nat, NEW y \in Nat, NEW z \in Nat
  PROVE  /\ [l EXCEPT !.left = x] \in Locals
         /\ [l EXCEPT !.left = x, !.endLo = y, !.endHi = z] \in Locals
         /\ [l EXCEPT !.left = x, !.dest = y] \in Locals
BY DEF Locals

LEMMA EmitType ==
  ASSUME TypeOK, NEW t \in Threads, NEW l \in Line \cup {Junk}, loc[t].left > 0, Emit(t, l)
  PROVE  /\ mem' \in [Cells -> Line \cup {Junk}]
         /\ out' \in Seq(Line \cup {Junk})
         /\ loc' \in [Threads -> Locals]
<1>1. loc[t] \in Locals /\ loc[t].left - 1 \in Nat /\ loc[t].dest + 1 \in Nat
  BY DEF TypeOK, Locals
<1>2. CASE at[t] = Root
  <2>1. out' \in Seq(Line \cup {Junk})
    <3>1. out' = out \/ out' = Append(out, l)
      BY <1>2 DEF Emit, WriteUnique
    <3>2. out \in Seq(Line \cup {Junk})
      BY DEF TypeOK
    <3> QED
      BY <3>1, <3>2
  <2>2. loc' \in [Threads -> Locals]
    <3>1. loc' = [loc EXCEPT ![t] = [loc[t] EXCEPT !.left = loc[t].left - 1]]
      BY <1>2 DEF Emit
    <3> QED
      BY <1>1, <3>1, LocalTypes DEF TypeOK
  <2> QED
    BY <1>2, <2>1, <2>2 DEF Emit, TypeOK
<1>3. CASE at[t] # Root
  <2>1. loc' = [loc EXCEPT ![t] = [loc[t] EXCEPT !.left = loc[t].left - 1,
                                                !.dest = loc[t].dest + 1]]
    BY <1>3 DEF Emit, TypeOK
  <2>2. loc' \in [Threads -> Locals]
    BY <1>1, <2>1, LocalTypes DEF TypeOK
  <2> QED
    BY <1>3, <2>2 DEF Emit, TypeOK
<1> QED
  BY <1>2, <1>3

LEMMA TakeType ==
  ASSUME TypeOK, NEW t \in Threads, at[t] \in Nodes, loc[t].left > 0, TakeLo(t) \/ TakeHi(t)
  PROVE  /\ mem' \in [Cells -> Line \cup {Junk}]
         /\ out' \in Seq(Line \cup {Junk})
         /\ loc' \in [Threads -> Locals]
         /\ node' \in [Nodes -> NodeFields]
<1>1. node[at[t]] \in NodeFields
  BY DEF TypeOK
<1>2. /\ mem' \in [Cells -> Line \cup {Junk}]
      /\ out' \in Seq(Line \cup {Junk})
      /\ loc' \in [Threads -> Locals]
  BY CellType, EmitType DEF TakeLo, TakeHi
<1>3. node' \in [Nodes -> NodeFields]
  <2> DEFINE n == at[t]
  <2>1. CASE TakeLo(t)
    <3>1. node' = [node EXCEPT ![n] = [node[n] EXCEPT !.lo = node[n].lo + 1]]
      BY <2>1 DEF TakeLo
    <3> QED
      BY <1>1, <3>1, NodeFieldTypes DEF TypeOK
  <2>2. CASE TakeHi(t)
    <3>1. node' = [node EXCEPT ![n] = [node[n] EXCEPT !.hi = node[n].hi + 1]]
      BY <2>2 DEF TakeHi
    <3> QED
      BY <1>1, <3>1, NodeFieldTypes DEF TypeOK
  <2> QED
    BY <2>1, <2>2
<1> QED
  BY <1>2, <1>3

LEMMA SortLeafType ==
  ASSUME TypeOK, NEW t \in Threads, at[t] \in Nodes, SortLeaf(t)
  PROVE  TypeOK'
<1> DEFINE n   == at[t]
           lo  == NodeStart[n]
           nlo == NodeLines[n] \div 2
           nhi == NodeLines[n] - nlo
           hi  == lo + nlo
           nd  == [node[n] EXCEPT !.lo = lo, !.endLo = hi, !.hi = hi, !.endHi = hi + nhi]
<1>1. lo \in Nat /\ hi \in Nat /\ hi + nhi \in Nat
  <2>1. NodeLines[n] \in Nat /\ NodeStart[n] \in Nat
    BY TreeAssumption
  <2> QED
    BY <2>1
<1>2. mem' \in [Cells -> Line \cup {Junk}]
  <2> DEFINE loLines == { Cell(c) : c \in lo .. hi - 1 }
             hiLines == { Cell(c) : c \in hi .. hi + nhi - 1 }
             tempHi == Temp(n) + nlo \div 2
             scratch == (IF nlo > 1 THEN Temp(n) .. tempHi - 1 ELSE {})
                          \cup
                        (IF nhi > 1 THEN tempHi .. tempHi + nhi \div 2 - 1 ELSE {})
  <2>1. \A c \in Cells : mem[c] \in Line \cup {Junk}
    BY DEF TypeOK
  <2>2. loLines \subseteq Line \cup {Junk} /\ hiLines \subseteq Line \cup {Junk}
    BY CellType
  <2>3. mem' = [c \in Cells |-> CASE c \in lo .. hi - 1       -> Nth(loLines, c - lo + 1)
                                 [] c \in hi .. hi + nhi - 1 -> Nth(hiLines, c - hi + 1)
                                 [] c \in scratch            -> Junk
                                 [] OTHER                    -> mem[c]]
    BY Zenon DEF SortLeaf
  <2> HIDE DEF loLines, hiLines, scratch, lo, hi, nlo, nhi
  <2>4. \A k : Nth(loLines, k) \in Line \cup {Junk} /\ Nth(hiLines, k) \in Line \cup {Junk}
    BY <2>2, NthType
  <2> QED
    BY <2>1, <2>3, <2>4
<1>3. node' \in [Nodes -> NodeFields]
  <2>1. node' = [node EXCEPT ![n] = nd]
    BY DEF SortLeaf, TypeOK
  <2>2. node[n] \in NodeFields
    BY DEF TypeOK
  <2> HIDE DEF lo, hi, nhi, n
  <2>3. nd = [[[[node[n] EXCEPT !.lo = lo] EXCEPT !.endLo = hi]
                 EXCEPT !.hi = hi] EXCEPT !.endHi = hi + nhi]
    BY <2>2 DEF NodeFields
  <2>4. [node[n] EXCEPT !.lo = lo] \in NodeFields
    BY <1>1, <2>2, NodeFieldTypes
  <2>5. [[node[n] EXCEPT !.lo = lo] EXCEPT !.endLo = hi] \in NodeFields
    BY <1>1, <2>4, NodeFieldTypes
  <2>6. [[[node[n] EXCEPT !.lo = lo] EXCEPT !.endLo = hi] EXCEPT !.hi = hi] \in NodeFields
    BY <1>1, <2>5, NodeFieldTypes
  <2>7. nd \in NodeFields
    BY <1>1, <2>3, <2>6, NodeFieldTypes
  <2> QED
    BY <2>1, <2>7 DEF TypeOK
<1>4. /\ queue' \in [Nodes \cup {End} -> Nat]
      /\ queued' \in [Nodes \cup {End} -> BOOLEAN]
      /\ pc' \in [Threads -> PCs]
  BY AdvanceType DEF SortLeaf, PCs
<1> QED
  BY <1>2, <1>3, <1>4 DEF TypeOK, SortLeaf

LEMMA LockNodeType ==
  ASSUME TypeOK, NEW t \in Threads, LockNode(t)
  PROVE  TypeOK'
<1> DEFINE n == at[t]
<1>1. n \in Nodes \cup {End} /\ End \notin Nodes
  BY NodesAreSequences DEF TypeOK, Nodes
<1>2. /\ lock' \in [Nodes \cup {End} -> Threads \cup {NoThread}]
      /\ queued' \in [Nodes \cup {End} -> BOOLEAN]
      /\ pc' \in [Threads -> PCs]
  BY DEF TypeOK, LockNode, PCs
<1>3. loc' \in [Threads -> Locals]
  <2>1. CASE n = End
    BY <2>1 DEF LockNode, TypeOK
  <2>2. CASE n # End
    <3> DEFINE l == [left |-> MaxMerge(n), lo0 |-> node[n].lo, hi0 |-> node[n].hi,
                     dest |-> IF n = Root THEN 0 ELSE Dest(n),
                     endLo |-> node[n].endLo, endHi |-> node[n].endHi]
    <3>1. n \in Nodes /\ node[n] \in NodeFields
      BY <1>1, <2>2 DEF TypeOK
    <3>2. /\ MaxMerge(n) \in Nat /\ node[n].lo \in Nat /\ node[n].hi \in Nat
          /\ node[n].endLo \in Nat /\ node[n].endHi \in Nat
      BY <3>1, TreeAssumption DEF NodeFields
    <3>3. ASSUME n # Root PROVE Dest(n) \in Nat
      <4>1. node[Parent(n)] \in NodeFields
        BY <3>1, <3>3, ParentIsNode DEF TypeOK
      <4> QED
        BY <4>1 DEF Dest, NodeFields
    <3>4. l \in Locals
      BY <3>2, <3>3 DEF Locals
    <3>5. loc' = [loc EXCEPT ![t] = l]
      BY <2>2 DEF LockNode
    <3> QED
      BY <3>4, <3>5 DEF TypeOK
  <2> QED
    BY <2>1, <2>2
<1> QED
  BY <1>2, <1>3 DEF TypeOK, LockNode

LEMMA PublishType ==
  ASSUME TypeOK, NEW t \in Threads, at[t] \in Nodes, Publish(t)
  PROVE  TypeOK'
<1> DEFINE n  == at[t]
           p  == Parent(n)
           d  == loc[t].dest
           nd == [node[n] EXCEPT !.nlo = @ - (node[n].lo - loc[t].lo0),
                                 !.nhi = @ - (node[n].hi - loc[t].hi0)]
<1>1. node[n] \in NodeFields /\ loc[t] \in Locals
  BY DEF TypeOK
<1>2. nd \in NodeFields
  <2>1. node[n] = [lo |-> node[n].lo, hi |-> node[n].hi, endLo |-> node[n].endLo,
                   endHi |-> node[n].endHi, nlo |-> node[n].nlo, nhi |-> node[n].nhi]
    BY <1>1 DEF NodeFields
  <2>2. /\ node[n].nlo - (node[n].lo - loc[t].lo0) \in Int
        /\ node[n].nhi - (node[n].hi - loc[t].hi0) \in Int
    <3>1. /\ node[n].nlo \in Int /\ node[n].lo \in Int
          /\ node[n].nhi \in Int /\ node[n].hi \in Int
      BY <1>1 DEF NodeFields
    <3>2. loc[t].lo0 \in Int /\ loc[t].hi0 \in Int
      BY <1>1 DEF Locals
    <3> HIDE DEF n
    <3> QED
      BY <3>1, <3>2
  <2> QED
    BY <1>1, <2>1, <2>2 DEF NodeFields
<1>3. node' \in [Nodes -> NodeFields]
  <2> DEFINE node1 == [node EXCEPT ![n] = nd]
  <2>1. node1 \in [Nodes -> NodeFields]
    BY <1>2 DEF TypeOK
  <2>2. \/ node' = node1
        \/ node' = [node1 EXCEPT ![p].endLo = d]
        \/ node' = [node1 EXCEPT ![p].endHi = d]
    BY DEF Publish
  <2>3. d \in Nat
    BY <1>1 DEF Locals
  <2> HIDE DEF node1, p, d
  <2>4. CASE node' = [node1 EXCEPT ![p].endLo = d]
    <3>1. node' = [node1 EXCEPT ![p] = [node1[p] EXCEPT !.endLo = d]]
      BY <2>4
    <3>2. p \in Nodes => [node1[p] EXCEPT !.endLo = d] \in NodeFields
      BY <2>1, <2>3, NodeFieldTypes
    <3> QED
      BY <2>1, <3>1, <3>2
  <2>5. CASE node' = [node1 EXCEPT ![p].endHi = d]
    <3>1. node' = [node1 EXCEPT ![p] = [node1[p] EXCEPT !.endHi = d]]
      BY <2>5
    <3>2. p \in Nodes => [node1[p] EXCEPT !.endHi = d] \in NodeFields
      BY <2>1, <2>3, NodeFieldTypes
    <3> QED
      BY <2>1, <3>1, <3>2
  <2> QED
    BY <2>1, <2>2, <2>4, <2>5
<1>4. /\ queue' \in [Nodes \cup {End} -> Nat]
      /\ queued' \in [Nodes \cup {End} -> BOOLEAN]
      /\ pc' \in [Threads -> PCs]
  BY AdvanceType DEF Publish, PCs
<1>5. loc' \in [Threads -> Locals]
  BY DEF Publish, TypeOK, NoLocals, Locals
<1> QED
  BY <1>3, <1>4, <1>5 DEF Publish, TypeOK

LEMMA SplitType ==
  ASSUME TypeOK, NEW t \in Threads, at[t] \in Nodes, Split(t)
  PROVE  TypeOK'
<1>1. Lo(at[t]) \in Threads /\ Hi(at[t]) \in Nodes
  BY SplitMakesNodes DEF Split, WorthSplitting
<1>2. "call" \in PCs
  BY DEF PCs
<1>3. kids' \in [Threads -> SUBSET Threads]
  BY <1>1 DEF Split, TypeOK
<1> QED
  BY <1>1, <1>2, <1>3 DEF Split, TypeOK

LEMMA MergeEndType ==
  ASSUME TypeOK, NEW t \in Threads, at[t] \in Nodes, MergeEnd(t)
  PROVE  TypeOK'
<1>1. /\ loc[t] \in Locals /\ node[at[t]] \in NodeFields
      /\ loc[t].left \in Nat /\ SizeMax \in Nat
  BY SizesAssumption DEF TypeOK, Locals
<1>2. PICK left \in {loc[t].left, SizeMax}, endLo \in {loc[t].endLo, node[at[t]].endLo},
           endHi \in {loc[t].endHi, node[at[t]].endHi} :
        loc' = [loc EXCEPT ![t].left = left, ![t].endLo = endLo, ![t].endHi = endHi]
  BY DEF MergeEnd
<1>3. loc' = [loc EXCEPT ![t] = [loc[t] EXCEPT !.left = left, !.endLo = endLo,
                                              !.endHi = endHi]]
  BY <1>2 DEF TypeOK
<1>4. left \in Nat /\ endLo \in Nat /\ endHi \in Nat
  BY <1>1, <1>2 DEF Locals, NodeFields
<1>5. loc' \in [Threads -> Locals]
  BY <1>1, <1>4, <1>3, LocalTypes DEF TypeOK
<1>6. /\ queue' \in [Nodes \cup {End} -> Nat]
      /\ queued' \in [Nodes \cup {End} -> BOOLEAN]
      /\ pc' \in [Threads -> PCs]
  BY AdvanceType DEF MergeEnd, PCs
<1> QED
  BY <1>5, <1>6 DEF MergeEnd, TypeOK

\* The steps that only move a thread or a node of the heap.
Moves(t) ==
  \/ BecomeLeaf(t) \/ InsertLeaf(t) \/ Wait(t) \/ SpuriousWakeup(t) \/ DrainEnd(t)
  \/ CheckSelf(t) \/ CheckParent(t) \/ UnlockNode(t) \/ EndUnlock(t) \/ EndInsert(t)
  \/ Return(t)

LEMMA MovesType ==
  ASSUME TypeOK, NEW t \in Threads, Merging(t) => at[t] \in Nodes, Moves(t)
  PROVE  TypeOK'
<1>1. /\ "leaf" \in PCs /\ "pop" \in PCs /\ "wait" \in PCs /\ "publish" \in PCs
      /\ "parent" \in PCs /\ "unlock" \in PCs /\ "endinsert" \in PCs /\ "join" \in PCs
      /\ "done" \in PCs
  BY DEF PCs
<1>2. at[t] \in Nodes \cup {End}
  BY DEF TypeOK
<1>3. /\ queue' \in [Nodes \cup {End} -> Nat]
      /\ queued' \in [Nodes \cup {End} -> BOOLEAN]
      /\ pc' \in [Threads -> PCs]
  <2>1. CASE InsertLeaf(t) \/ EndInsert(t)
    BY <1>1, <1>2, <2>1, QueueInsertType DEF InsertLeaf, EndInsert
  <2>2. CASE CheckSelf(t)
    BY <1>1, <1>2, <2>2, QueueCheckInsertType DEF CheckSelf
  <2>3. CASE CheckParent(t)
    <3>1. at[t] \in Nodes
      BY <2>3 DEF CheckParent, Merging
    <3> QED
      BY <1>1, <2>3, <3>1, ParentIsNode, QueueCheckInsertType, QueueInsertType, AdvanceType
         DEF CheckParent
  <2>4. CASE BecomeLeaf(t) \/ Wait(t) \/ SpuriousWakeup(t) \/ DrainEnd(t)
    BY <1>1, <2>4, AdvanceType DEF BecomeLeaf, Wait, SpuriousWakeup, DrainEnd
  <2>5. CASE UnlockNode(t) \/ EndUnlock(t) \/ Return(t)
    BY <1>1, <2>5, AdvanceType DEF UnlockNode, EndUnlock, Return
  <2> QED
    BY <2>1, <2>2, <2>3, <2>4, <2>5 DEF Moves
<1>4. lock' \in [Nodes \cup {End} -> Threads \cup {NoThread}]
  BY DEF Moves, TypeOK, BecomeLeaf, InsertLeaf, Wait, SpuriousWakeup, DrainEnd, CheckSelf,
         CheckParent, UnlockNode, EndUnlock, EndInsert, Return
<1>5. UNCHANGED <<input, mem, out, node, at, kids, loc>>
  BY DEF Moves, BecomeLeaf, InsertLeaf, Wait, SpuriousWakeup, DrainEnd, CheckSelf,
         CheckParent, UnlockNode, EndUnlock, EndInsert, Return
<1> QED
  BY <1>3, <1>4, <1>5 DEF TypeOK

LEMMA TypeStep ==
  ASSUME TypeOK, Places, [Next]_vars
  PROVE  TypeOK'
<1>1. CASE UNCHANGED vars
  BY <1>1 DEF TypeOK, vars
<1>2. ASSUME NEW t \in Threads, Step(t) \/ SpuriousWakeup(t) PROVE TypeOK'
  <2>0. /\ Merging(t) => at[t] \in Nodes
        /\ Descending(t) => at[t] \in Nodes
    BY DEF Places
  <2>1. CASE Split(t)
    BY <2>0, <2>1, SplitType DEF Descending, Split
  <2>2. CASE SortLeaf(t)
    BY <2>0, <2>2, SortLeafType DEF Descending, SortLeaf
  <2>3. CASE Pop(t)
    <3>1. PICK n \in Nodes \cup {End} :
            /\ queue[n] > 0
            /\ queue' = [queue EXCEPT ![n] = @ - 1]
            /\ at' = [at EXCEPT ![t] = n]
      BY <2>3 DEF Pop
    <3>2. queue[n] - 1 \in Nat
      BY <3>1 DEF TypeOK
    <3> QED
      BY <2>3, <3>1, <3>2 DEF Pop, TypeOK, PCs
  <2>4. CASE LockNode(t)
    BY <2>4, LockNodeType
  <2>5. CASE MergeLine(t)
    <3>1. at[t] \in Nodes /\ loc[t].left > 0 /\ (TakeLo(t) \/ TakeHi(t))
      BY <2>0, <2>5 DEF MergeLine, Merging
    <3> QED
      BY <2>5, <3>1, TakeType DEF MergeLine, TypeOK
  <2>6. CASE MergeEnd(t)
    BY <2>0, <2>6, MergeEndType DEF Merging, MergeEnd
  <2>7. CASE DrainLine(t)
    <3>1. at[t] \in Nodes /\ loc[t].left > 0 /\ (TakeLo(t) \/ TakeHi(t))
      BY <2>0, <2>7 DEF DrainLine, Merging, CanDrainLo, CanDrainHi
    <3> QED
      BY <2>7, <3>1, TakeType DEF DrainLine, TypeOK
  <2>8. CASE Publish(t)
    BY <2>0, <2>8, PublishType DEF Merging, Publish
  <2>9. CASE Join(t)
    BY <2>9 DEF Join, TypeOK
  <2>10. CASE Moves(t)
    BY <2>0, <2>10, MovesType
  <2> QED
    BY <1>2, <2>1, <2>2, <2>3, <2>4, <2>5, <2>6, <2>7, <2>8, <2>9, <2>10 DEF Step, Moves
<1> QED
  BY <1>1, <1>2 DEF Next, Finished

-----------------------------------------------------------------------------
(* The subtree under a node.                                               *)

LEMMA UnderItself ==
  ASSUME NEW n \in Nodes
  PROVE  Under(n, n)
BY NodesAreSequences DEF Under

LEMMA UnderChild ==
  ASSUME NEW n \in Nodes, NEW m \in Nodes
  PROVE  /\ Under(Lo(n), m) \/ Under(Hi(n), m) => Under(n, m) /\ m # n
         /\ ~(Under(Lo(n), m) /\ Under(Hi(n), m))
<1>1. /\ Len(n) \in Nat /\ Len(m) \in Nat
      /\ Len(Lo(n)) = Len(n) + 1 /\ Len(Hi(n)) = Len(n) + 1
      /\ Lo(n)[Len(n) + 1] = 0 /\ Hi(n)[Len(n) + 1] = 1
      /\ \A i \in 1..Len(n) : Lo(n)[i] = n[i] /\ Hi(n)[i] = n[i]
  BY NodesAreSequences, ChildrenOf
<1>2. ASSUME NEW c \in {Lo(n), Hi(n)}, Under(c, m)
      PROVE  Under(n, m) /\ m # n /\ m[Len(n) + 1] = c[Len(n) + 1]
  BY <1>1, <1>2 DEF Under
<1> QED
  BY <1>1, <1>2

LEMMA UnderParent ==
  ASSUME NEW n \in Nodes, NEW m \in Nodes, m # Root, Under(n, Parent(m))
  PROVE  Under(n, m)
<1>1. n \in Seq({0, 1}) /\ m \in Seq({0, 1}) /\ Len(m) \in Nat \ {0} /\ Len(n) \in Nat
  BY NodesAreSequences DEF Root
<1>2. Len(Parent(m)) = Len(m) - 1 /\ \A i \in 1..(Len(m) - 1) : Parent(m)[i] = m[i]
  <2> DEFINE k == Len(m) - 1
  <2>1. k \in Nat /\ 1 \in 1..(Len(m) + 1) /\ k \in 0..Len(m)
    BY <1>1
  <2>2. Parent(m) = SubSeq(m, 1, k)
    BY DEF Parent
  <2>3. Len(SubSeq(m, 1, k)) = k /\ \A i \in 1..k : SubSeq(m, 1, k)[i] = m[i]
    <3> HIDE DEF k
    <3> QED
      BY <1>1, <2>1
  <2> QED
    BY <2>2, <2>3
<1> QED
  BY <1>1, <1>2 DEF Under

LEMMA AboveChild ==
  ASSUME NEW n \in Nodes, NEW m \in Nodes, Under(n, Lo(m)) \/ Under(n, Hi(m))
  PROVE  Under(n, m) \/ Under(m, n)
<1>1. /\ Len(n) \in Nat /\ Len(m) \in Nat
      /\ Len(Lo(m)) = Len(m) + 1 /\ Len(Hi(m)) = Len(m) + 1
      /\ \A i \in 1..Len(m) : Lo(m)[i] = m[i] /\ Hi(m)[i] = m[i]
  BY NodesAreSequences, ChildrenOf
<1>2. CASE Len(n) <= Len(m)
  BY <1>1, <1>2 DEF Under
<1>3. CASE Len(n) = Len(m) + 1
  BY <1>1, <1>3 DEF Under
<1> QED
  BY <1>1, <1>2, <1>3 DEF Under

-----------------------------------------------------------------------------
(* A node is handed out once.                                              *)

\* How the other threads are left by a step of t that does not divide work.
OthersStay(t) ==
  \A u \in Threads \ {t} :
    at'[u] = at[u] /\ (pc'[u] = pc[u] \/ (pc[u] = "wait" /\ pc'[u] = "pop"))

\* What a step of thread t that does not divide work may do to the subtree of a
\* thread that still does.
LEMMA FreshFrame ==
  ASSUME TypeOK, Places, Fresh,
         NEW t \in Threads, pc[t] # "idle",
         OthersStay(t),
         Descending(t)' => Descending(t) /\ at'[t] = at[t],
         at'[t] = at[t] \/ at'[t] \notin Nodes \/ queue[at'[t]] > 0,
         \A m \in Nodes : queue'[m] # queue[m] \/ queued'[m] # queued[m] =>
           \/ m = at[t] /\ ~Descending(t)'
           \/ ~Descending(t) /\ at[t] \in Nodes \ {Root} /\ m = Parent(at[t])
           \/ queue[m] > 0
  PROVE  Fresh'
<1> SUFFICES ASSUME NEW s \in Threads, Descending(s)'
             PROVE  /\ \A m \in Nodes : Under(at[s], m)' =>
                         /\ ~queued'[m] /\ queue'[m] = 0
                         /\ \A u \in Threads : at'[u] = m => u = s \/ pc'[u] = "idle"
                    /\ \A u \in Threads : Under(at[s], u)' /\ u # at'[s] => pc'[u] = "idle"
  BY DEF Fresh
<1>1. Descending(s) /\ at'[s] = at[s]
  BY DEF Descending, OthersStay
<1> DEFINE n == at[s]
<1>2. n \in Nodes
  BY <1>1 DEF Places
<1>3. \A m : Under(at[s], m)' <=> Under(n, m)
  BY <1>1 DEF Under
<1>4. \A m \in Nodes : Under(n, m) =>
         /\ ~queued[m] /\ queue[m] = 0
         /\ \A u \in Threads : at[u] = m => u = s \/ pc[u] = "idle"
  BY <1>1 DEF Fresh
<1>5. \A u \in Threads : Under(n, u) /\ u # n => pc[u] = "idle"
  BY <1>1 DEF Fresh
<1>6. ASSUME NEW m \in Nodes, Under(n, m)
      PROVE  queued'[m] = queued[m] /\ queue'[m] = queue[m]
  <2>1. CASE s = t
    BY <1>1, <1>4, <1>6, <2>1
  <2>2. CASE s # t
    <3>1. m # at[t]
      BY <1>4, <1>6, <2>2
    <3>2. ASSUME at[t] \in Nodes \ {Root}, m = Parent(at[t]) PROVE FALSE
      <4>1. Under(n, at[t])
        BY <1>2, <1>6, <3>2, UnderParent
      <4> QED
        BY <1>4, <2>2, <3>2, <4>1
    <3> QED
      BY <1>4, <1>6, <3>1, <3>2
  <2> QED
    BY <2>1, <2>2
<1>7. ASSUME NEW m \in Nodes, Under(n, m), NEW u \in Threads, at'[u] = m
      PROVE  u = s \/ pc'[u] = "idle"
  <2>1. CASE u = t
    BY <1>4, <1>7, <2>1
  <2>2. CASE u # t
    BY <1>4, <1>7, <2>2 DEF OthersStay
  <2> QED
    BY <2>1, <2>2
<1>8. ASSUME NEW u \in Threads, Under(n, u), u # n
      PROVE  pc'[u] = "idle"
  BY <1>5, <1>8 DEF OthersStay
<1> QED
  BY <1>1, <1>3, <1>4, <1>6, <1>7, <1>8

LEMMA EndIsNoNode == End \notin Nodes
BY NamesAssumption DEF Nodes

\* A step of t that does not touch the heap and does not pop or lock a node.
LEMMA HandedUnchanged ==
  ASSUME Handed, UNCHANGED <<queue, queued>>,
         \A n \in Nodes : HandedTo(n)' = HandedTo(n)
  PROVE  Handed'
BY DEF Handed

\* The threads to which a node is handed stay the same where thread t goes from
\* one other place to another, and a waiting thread may wake up.
LEMMA SameHanded ==
  ASSUME NEW t \in Threads, pc[t] # "lock", pc'[t] # "lock",
         OthersStay(t), NEW n
  PROVE  HandedTo(n)' = HandedTo(n)
BY DEF HandedTo, OthersStay

LEMMA HandedInsert ==
  ASSUME TypeOK, Handed, NEW n \in Nodes \cup {End}, n \in Nodes => ~queued[n],
         queue' = [queue EXCEPT ![n] = @ + 1],
         queued' = [queued EXCEPT ![n] = TRUE],
         \A m \in Nodes : HandedTo(m)' = HandedTo(m)
  PROVE  Handed'
<1> SUFFICES ASSUME NEW m \in Nodes
             PROVE  /\ queue'[m] <= 1
                    /\ queue'[m] = 1 => queued'[m]
                    /\ \A t \in HandedTo(m) :
                         queued'[m] /\ queue'[m] = 0 /\ \A u \in HandedTo(m) : u = t
  BY DEF Handed
<1>1. /\ queue[m] \in Nat /\ queue[m] <= 1
      /\ queue[m] = 1 => queued[m]
      /\ \A t \in HandedTo(m) :
           queued[m] /\ queue[m] = 0 /\ \A u \in HandedTo(m) : u = t
  BY DEF TypeOK, Handed
<1>2. CASE m = n
  <2>1. queue[m] = 0 /\ HandedTo(m) = {}
    BY <1>1, <1>2
  <2>2. queue'[m] = 1 /\ queued'[m]
    BY <1>2, <2>1 DEF TypeOK
  <2> QED
    BY <2>1, <2>2
<1>3. CASE m # n
  <2>1. queue'[m] = queue[m] /\ queued'[m] = queued[m]
    BY <1>3 DEF TypeOK
  <2> QED
    BY <1>1, <2>1
<1> QED
  BY <1>2, <1>3

LEMMA PlacesFrame ==
  ASSUME Places, NEW t \in Threads, OthersStay(t),
         pc'[t] # "idle",
         Descending(t)' => Descending(t) /\ at'[t] = at[t],
         Merging(t)' => at'[t] \in Nodes,
         Ending(t)' => at'[t] = End
  PROVE  Places'
<1> SUFFICES ASSUME NEW u \in Threads
             PROVE  /\ pc'[u] = "idle" => at'[u] = u
                    /\ Descending(u)' => at'[u] \in Nodes /\ Len(u) <= Len(at'[u])
                    /\ Merging(u)' => at'[u] \in Nodes
                    /\ Ending(u)' => at'[u] = End
  BY DEF Places
<1>1. /\ pc[u] = "idle" => at[u] = u
      /\ Descending(u) => at[u] \in Nodes /\ Len(u) <= Len(at[u])
      /\ Merging(u) => at[u] \in Nodes
      /\ Ending(u) => at[u] = End
  BY DEF Places
<1>2. CASE u = t
  BY <1>1, <1>2
<1>3. CASE u # t
  <2>1. at'[u] = at[u] /\ (pc'[u] = pc[u] \/ (pc[u] = "wait" /\ pc'[u] = "pop"))
    BY <1>3 DEF OthersStay
  <2> QED
    BY <1>1, <2>1 DEF Descending, Merging, Ending
<1> QED
  BY <1>2, <1>3

LEMMA AdvanceStays ==
  ASSUME TypeOK, NEW t \in Threads, NEW next, Advance(t, next), UNCHANGED at
  PROVE  OthersStay(t) /\ pc'[t] = next /\ UNCHANGED <<queue, queued>>
BY DEF TypeOK, Advance, OthersStay

LEMMA InsertStays ==
  ASSUME TypeOK, NEW t \in Threads, pc[t] # "wait", NEW n, NEW next,
         QueueInsert(t, n, next), UNCHANGED at
  PROVE  OthersStay(t) /\ pc'[t] = next
BY DEF TypeOK, QueueInsert, OthersStay, Waiting

\* A step that leaves the heap alone.
LEMMA AdvanceHandOver ==
  ASSUME TypeOK, HandOver, NEW t \in Threads, pc[t] \notin {"idle", "lock"},
         OthersStay(t), UNCHANGED <<at, queue, queued>>,
         pc'[t] \notin {"idle", "lock"},
         Descending(t)' => Descending(t),
         Merging(t)' => at[t] \in Nodes,
         Ending(t)' => at[t] = End
  PROVE  HandOver'
<1>1. Places'
  BY PlacesFrame DEF HandOver, Descending
<1>2. Fresh'
  <2>1. Descending(t)' => Descending(t) /\ at'[t] = at[t]
    OBVIOUS
  <2> QED
    BY <2>1, FreshFrame DEF HandOver
<1>3. Handed'
  BY SameHanded, HandedUnchanged DEF HandOver
<1> QED
  BY <1>1, <1>2, <1>3 DEF HandOver

\* A step that puts a node into the heap.
LEMMA InsertHandOver ==
  ASSUME TypeOK, HandOver, NEW t \in Threads, pc[t] \notin {"idle", "lock", "wait"},
         NEW n \in Nodes \cup {End}, NEW next, QueueInsert(t, n, next), UNCHANGED at,
         next \in {"pop", "join"} \/ (next \in {"parent", "unlock"} /\ at[t] \in Nodes),
         n \in Nodes => ~queued[n],
         n \in Nodes => \/ n = at[t]
                        \/ ~Descending(t) /\ at[t] \in Nodes \ {Root} /\ n = Parent(at[t])
  PROVE  HandOver'
<1>1. OthersStay(t) /\ pc'[t] = next
  BY InsertStays
<1>2. ~Descending(t)' /\ (Merging(t)' => at[t] \in Nodes) /\ ~Ending(t)'
  BY <1>1 DEF Descending, Merging, Ending
<1>3. Places'
  BY <1>1, <1>2, PlacesFrame DEF HandOver
<1>4. /\ queue' = [queue EXCEPT ![n] = @ + 1]
      /\ queued' = [queued EXCEPT ![n] = TRUE]
  BY DEF QueueInsert
<1>5. Fresh'
  <2>1. ASSUME NEW m \in Nodes, queue'[m] # queue[m] \/ queued'[m] # queued[m]
        PROVE  m = n
    BY <1>4, <2>1 DEF TypeOK
  <2>2. \A m \in Nodes : queue'[m] # queue[m] \/ queued'[m] # queued[m] =>
           \/ m = at[t] /\ ~Descending(t)'
           \/ ~Descending(t) /\ at[t] \in Nodes \ {Root} /\ m = Parent(at[t])
           \/ queue[m] > 0
    BY <1>2, <2>1
  <2> QED
    BY <1>1, <1>2, <2>2, FreshFrame DEF HandOver
<1>6. Handed'
  <2>1. \A m \in Nodes : HandedTo(m)' = HandedTo(m)
    BY <1>1, SameHanded
  <2> QED
    BY <1>4, <2>1, HandedInsert DEF HandOver
<1> QED
  BY <1>3, <1>5, <1>6 DEF HandOver

LEMMA CheckInsertHandOver ==
  ASSUME TypeOK, HandOver, NEW t \in Threads, pc[t] \in {"check", "parent"}, at[t] \in Nodes,
         NEW n \in Nodes, NEW next \in {"parent", "unlock"},
         QueueCheckInsert(t, n, next), UNCHANGED at,
         n = at[t] \/ (at[t] # Root /\ n = Parent(at[t]))
  PROVE  HandOver'
<1>1. ~Descending(t)
  BY DEF Descending
<1>2. CASE ~queued[n] /\ Mergeable(n)
  <2>1. QueueInsert(t, n, next) /\ n \in Nodes \cup {End}
    BY <1>2 DEF QueueCheckInsert
  <2>2. /\ pc[t] \notin {"idle", "lock", "wait"}
        /\ next \in {"pop", "join"} \/ (next \in {"parent", "unlock"} /\ at[t] \in Nodes)
    OBVIOUS
  <2>3. /\ n \in Nodes => ~queued[n]
        /\ n \in Nodes => \/ n = at[t]
                          \/ ~Descending(t) /\ at[t] \in Nodes \ {Root} /\ n = Parent(at[t])
    BY <1>1, <1>2
  <2> QED
    BY <2>1, <2>2, <2>3, InsertHandOver
<1>3. CASE ~(~queued[n] /\ Mergeable(n))
  <2>1. OthersStay(t) /\ pc'[t] = next /\ UNCHANGED <<queue, queued>>
    BY <1>3, AdvanceStays DEF QueueCheckInsert
  <2> QED
    BY <2>1, AdvanceHandOver DEF Descending, Ending
<1> QED
  BY <1>2, <1>3

LEMMA SplitHandOver ==
  ASSUME TypeOK, HandOver, NEW t \in Threads, Split(t)
  PROVE  HandOver'
<1> DEFINE n == at[t]
           new == Lo(n)
<1>1. /\ Descending(t) /\ n \in Nodes /\ Len(t) <= Len(n)
      /\ Lo(n) \in Nodes /\ Hi(n) \in Nodes /\ new \in Threads
  BY SplitMakesNodes DEF Split, WorthSplitting, Descending, HandOver, Places
<1>2. /\ Under(n, Lo(n)) /\ Under(n, Hi(n)) /\ Lo(n) # n /\ Hi(n) # n
      /\ Under(Lo(n), Lo(n)) /\ Under(Hi(n), Hi(n)) /\ ~Under(Hi(n), Lo(n)) /\ ~Under(Lo(n), Hi(n))
  BY <1>1, UnderItself, UnderChild
<1>3. /\ Len(n) \in Nat /\ Len(t) \in Nat /\ t \in Nodes
      /\ Len(Lo(n)) = Len(n) + 1 /\ Len(Hi(n)) = Len(n) + 1
  BY <1>1, NodesAreSequences, ChildrenOf DEF Threads
<1>4. new # t /\ pc[new] = "idle" /\ at[new] = new
  <2>1. pc[new] = "idle"
    BY <1>1, <1>2 DEF HandOver, Fresh
  <2> QED
    BY <1>1, <1>3, <2>1 DEF HandOver, Places
<1>5. /\ at' = [at EXCEPT ![t] = Hi(n)]
      /\ pc' = [pc EXCEPT ![new] = "call"]
      /\ UNCHANGED <<queue, queued>>
      /\ pc[t] = "call"
  BY DEF Split
<1>6. /\ at'[t] = Hi(n) /\ pc'[t] = "call"
      /\ at'[new] = new /\ pc'[new] = "call"
      /\ \A u \in Threads \ {t, new} : at'[u] = at[u] /\ pc'[u] = pc[u]
  BY <1>1, <1>4, <1>5 DEF TypeOK
<1> HIDE DEF n, new
<1>7. Places'
  <2> SUFFICES ASSUME NEW u \in Threads
               PROVE  /\ pc'[u] = "idle" => at'[u] = u
                      /\ Descending(u)' => at'[u] \in Nodes /\ Len(u) <= Len(at'[u])
                      /\ Merging(u)' => at'[u] \in Nodes
                      /\ Ending(u)' => at'[u] = End
    BY DEF Places
  <2>1. CASE u = t
    BY <1>1, <1>3, <1>6, <2>1 DEF Merging, Ending
  <2>2. CASE u = new
    BY <1>1, <1>3, <1>6, <2>2 DEF Merging, Ending, new
  <2>3. CASE u \notin {t, new}
    BY <1>6, <2>3 DEF HandOver, Places, Descending, Merging, Ending
  <2> QED
    BY <2>1, <2>2, <2>3
<1>8. Fresh'
  <2> SUFFICES ASSUME NEW s \in Threads, Descending(s)'
               PROVE  /\ \A m \in Nodes : Under(at[s], m)' =>
                           /\ ~queued'[m] /\ queue'[m] = 0
                           /\ \A u \in Threads : at'[u] = m => u = s \/ pc'[u] = "idle"
                      /\ \A u \in Threads : Under(at[s], u)' /\ u # at'[s] => pc'[u] = "idle"
    BY DEF Fresh
  <2>1. /\ \A m \in Nodes : Under(n, m) =>
             /\ ~queued[m] /\ queue[m] = 0
             /\ \A u \in Threads : at[u] = m => u = t \/ pc[u] = "idle"
        /\ \A u \in Threads : Under(n, u) /\ u # n => pc[u] = "idle"
    BY <1>1 DEF HandOver, Fresh, n
  <2>2. \A m : Under(at[s], m)' <=> Under(at'[s], m)
    BY DEF Under
  <2>3. CASE s \in {t, new}
    <3>1. at'[s] \in {Lo(n), Hi(n)}
      BY <1>6, <2>3 DEF new
    <3>2. ASSUME NEW m \in Nodes, Under(at'[s], m)
          PROVE  Under(n, m) /\ m # n
      BY <1>1, <3>1, <3>2, UnderChild
    <3>3. ASSUME NEW m \in Nodes, Under(at'[s], m)
          PROVE  /\ ~queued'[m] /\ queue'[m] = 0
                 /\ \A u \in Threads : at'[u] = m => u = s \/ pc'[u] = "idle"
      <4>1. ~queued[m] /\ queue[m] = 0
        BY <2>1, <3>2, <3>3
      <4>2. ASSUME NEW u \in Threads, at'[u] = m PROVE u = s \/ pc'[u] = "idle"
        <5>1. CASE u \notin {t, new}
          BY <1>6, <2>1, <3>2, <3>3, <4>2, <5>1
        <5>2. CASE u \in {t, new} /\ u # s
          BY <1>2, <1>4, <1>6, <2>3, <3>3, <4>2, <5>2 DEF new
        <5> QED
          BY <5>1, <5>2
      <4> QED
        BY <1>5, <4>1, <4>2
    <3>4. ASSUME NEW u \in Threads, Under(at'[s], u), u # at'[s]
          PROVE  pc'[u] = "idle"
      <4>1. u \in Nodes
        BY DEF Threads
      <4>2. pc[u] = "idle"
        BY <2>1, <3>2, <3>4, <4>1
      <4>3. u # t /\ u # new
        BY <1>2, <1>5, <1>6, <2>3, <3>4, <4>2 DEF new
      <4> QED
        BY <1>6, <4>2, <4>3
    <3> QED
      BY <2>2, <3>3, <3>4
  <2>4. CASE s \notin {t, new}
    <3>1. at'[s] = at[s] /\ pc'[s] = pc[s] /\ Descending(s)
      BY <1>6, <2>4 DEF Descending
    <3>2. at[s] \in Nodes
      BY <3>1 DEF HandOver, Places
    <3>3. /\ \A m \in Nodes : Under(at[s], m) =>
               /\ ~queued[m] /\ queue[m] = 0
               /\ \A u \in Threads : at[u] = m => u = s \/ pc[u] = "idle"
          /\ \A u \in Threads : Under(at[s], u) /\ u # at[s] => pc[u] = "idle"
      BY <3>1 DEF HandOver, Fresh
    <3>4. ~Under(at[s], n) /\ ~Under(n, at[s])
      <4>1. ~Under(at[s], n)
        BY <1>1, <1>5, <2>4, <3>3 DEF n
      <4>2. ~Under(n, at[s])
        BY <2>1, <2>4, <3>1, <3>2 DEF Descending
      <4> QED
        BY <4>1, <4>2
    <3>5. ~Under(at[s], Lo(n)) /\ ~Under(at[s], Hi(n))
      BY <1>1, <3>2, <3>4, AboveChild
    <3>6. ASSUME NEW m \in Nodes, Under(at[s], m)
          PROVE  \A u \in Threads : at'[u] = m => u = s \/ pc'[u] = "idle"
      BY <1>6, <3>3, <3>5, <3>6 DEF new
    <3>7. ASSUME NEW u \in Threads, Under(at[s], u), u # at[s]
          PROVE  pc'[u] = "idle"
      BY <1>5, <1>6, <3>3, <3>5, <3>7 DEF new
    <3> QED
      BY <1>5, <2>2, <3>1, <3>3, <3>6, <3>7
  <2> QED
    BY <2>3, <2>4
<1>9. Handed'
  <2>1. \A m \in Nodes : HandedTo(m)' = HandedTo(m)
    BY <1>4, <1>5, <1>6 DEF HandedTo
  <2> QED
    BY <1>5, <2>1, HandedUnchanged DEF HandOver
<1> QED
  BY <1>7, <1>8, <1>9 DEF HandOver

LEMMA PopHandOver ==
  ASSUME TypeOK, HandOver, NEW t \in Threads, Pop(t)
  PROVE  HandOver'
<1>1. PICK n \in Nodes \cup {End} :
        /\ queue[n] > 0
        /\ queue' = [queue EXCEPT ![n] = @ - 1]
        /\ at' = [at EXCEPT ![t] = n]
  BY DEF Pop
<1>2. /\ at'[t] = n /\ pc[t] = "pop" /\ pc'[t] = "lock" /\ UNCHANGED queued
      /\ \A u \in Threads \ {t} : at'[u] = at[u] /\ pc'[u] = pc[u]
  BY <1>1 DEF TypeOK, Pop
<1>3. OthersStay(t) /\ ~Descending(t)' /\ ~Merging(t)' /\ ~Ending(t)'
  BY <1>2 DEF OthersStay, Descending, Merging, Ending
<1>4. Places'
  BY <1>2, <1>3, PlacesFrame DEF HandOver
<1>5. Fresh'
  <2>1. at'[t] = at[t] \/ at'[t] \notin Nodes \/ queue[at'[t]] > 0
    BY <1>1, <1>2
  <2>2. ASSUME NEW m \in Nodes, queue'[m] # queue[m] \/ queued'[m] # queued[m]
        PROVE  queue[m] > 0
    BY <1>1, <1>2, <2>2 DEF TypeOK
  <2> QED
    BY <1>2, <1>3, <2>1, <2>2, FreshFrame DEF HandOver
<1>6. Handed'
  <2> SUFFICES ASSUME NEW m \in Nodes
               PROVE  /\ queue'[m] <= 1
                      /\ queue'[m] = 1 => queued'[m]
                      /\ \A u \in HandedTo(m)' :
                           queued'[m] /\ queue'[m] = 0 /\ \A v \in HandedTo(m)' : v = u
    BY DEF Handed
  <2>1. /\ queue[m] \in Nat /\ queue[m] <= 1
        /\ queue[m] = 1 => queued[m]
        /\ \A u \in HandedTo(m) :
             queued[m] /\ queue[m] = 0 /\ \A v \in HandedTo(m) : v = u
    BY DEF TypeOK, HandOver, Handed
  <2>2. CASE m = n
    <3>1. queue[m] = 1 /\ queued[m] /\ HandedTo(m) = {}
      BY <1>1, <2>1, <2>2
    <3>2. queue'[m] = 0 /\ queued'[m]
      BY <1>1, <1>2, <2>2, <3>1 DEF TypeOK
    <3>3. \A u \in HandedTo(m)' : u = t
      BY <1>2, <3>1 DEF HandedTo
    <3> QED
      BY <3>2, <3>3
  <2>3. CASE m # n
    <3>1. queue'[m] = queue[m] /\ queued'[m] = queued[m]
      BY <1>1, <1>2, <2>3 DEF TypeOK
    <3>2. HandedTo(m)' = HandedTo(m)
      BY <1>2, <2>3 DEF HandedTo
    <3> QED
      BY <2>1, <3>1, <3>2
  <2> QED
    BY <2>2, <2>3
<1> QED
  BY <1>4, <1>5, <1>6 DEF HandOver

LEMMA LockHandOver ==
  ASSUME TypeOK, HandOver, NEW t \in Threads, LockNode(t)
  PROVE  HandOver'
<1> DEFINE n == at[t]
<1>1. /\ at' = at /\ pc[t] = "lock" /\ UNCHANGED queue
      /\ queued' = [queued EXCEPT ![n] = FALSE]
      /\ \A u \in Threads \ {t} : at'[u] = at[u] /\ pc'[u] = pc[u]
      /\ n \in Nodes \cup {End}
  BY DEF TypeOK, LockNode
<1>2. pc'[t] = IF n = End THEN "endunlock" ELSE "merge"
  BY DEF TypeOK, LockNode
<1>3. /\ OthersStay(t) /\ ~Descending(t)' /\ (Merging(t)' => n \in Nodes)
      /\ (Ending(t)' => n = End)
  BY <1>1, <1>2 DEF OthersStay, Descending, Merging, Ending
<1>4. Places'
  BY <1>1, <1>2, <1>3, PlacesFrame DEF HandOver
<1>5. Fresh'
  <2>1. ASSUME NEW m \in Nodes, queue'[m] # queue[m] \/ queued'[m] # queued[m]
        PROVE  m = n /\ ~Descending(t)'
    BY <1>1, <1>3, <2>1 DEF TypeOK
  <2> QED
    BY <1>1, <1>3, <2>1, FreshFrame DEF HandOver
<1>6. Handed'
  <2> SUFFICES ASSUME NEW m \in Nodes
               PROVE  /\ queue'[m] <= 1
                      /\ queue'[m] = 1 => queued'[m]
                      /\ \A u \in HandedTo(m)' :
                           queued'[m] /\ queue'[m] = 0 /\ \A v \in HandedTo(m)' : v = u
    BY DEF Handed
  <2>1. /\ queue[m] \in Nat /\ queue[m] <= 1
        /\ queue[m] = 1 => queued[m]
        /\ \A u \in HandedTo(m) :
             queued[m] /\ queue[m] = 0 /\ \A v \in HandedTo(m) : v = u
    BY DEF TypeOK, HandOver, Handed
  <2>2. CASE m = n
    <3>1. t \in HandedTo(m)
      BY <1>1, <2>2 DEF HandedTo
    <3>2. HandedTo(m)' = {}
      BY <1>1, <1>2, <2>1, <3>1 DEF HandedTo
    <3> QED
      BY <1>1, <2>1, <3>1, <3>2
  <2>3. CASE m # n
    <3>1. queue'[m] = queue[m] /\ queued'[m] = queued[m]
      BY <1>1, <2>3 DEF TypeOK
    <3>2. HandedTo(m)' = HandedTo(m)
      BY <1>1, <1>2, <2>3 DEF HandedTo
    <3> QED
      BY <2>1, <3>1, <3>2
  <2> QED
    BY <2>2, <2>3
<1> QED
  BY <1>4, <1>5, <1>6 DEF HandOver

LEMMA UnchangedHandOver ==
  ASSUME HandOver, UNCHANGED <<pc, at, queue, queued>>
  PROVE  HandOver'
BY DEF HandOver, Places, Fresh, Handed, HandedTo, Under, Descending, Merging, Ending

LEMMA HandOverStep ==
  ASSUME TypeOK, HandOver, [Next]_vars
  PROVE  HandOver'
<1>1. CASE UNCHANGED vars
  BY <1>1, UnchangedHandOver DEF vars
<1>2. ASSUME NEW t \in Threads, Step(t) \/ SpuriousWakeup(t) PROVE HandOver'
  <2>0. /\ Merging(t) => at[t] \in Nodes
        /\ Descending(t) => at[t] \in Nodes
        /\ Ending(t) => at[t] = End
    BY DEF HandOver, Places
  <2>1. CASE Split(t)
    BY <2>1, SplitHandOver
  <2>2. CASE BecomeLeaf(t) \/ SortLeaf(t)
    <3>1. /\ UNCHANGED at /\ Descending(t) /\ pc[t] \in {"call", "leaf"}
          /\ Advance(t, "leaf") \/ Advance(t, "insert")
      BY <2>2 DEF BecomeLeaf, SortLeaf, Descending
    <3>2. /\ OthersStay(t) /\ UNCHANGED <<queue, queued>>
          /\ pc'[t] \in {"leaf", "insert"}
      BY <3>1, AdvanceStays
    <3> QED
      BY <3>1, <3>2, AdvanceHandOver DEF Merging, Ending
  <2>3. CASE InsertLeaf(t)
    <3>1. pc[t] = "insert" /\ QueueInsert(t, at[t], "pop") /\ UNCHANGED at
      BY <2>3 DEF InsertLeaf
    <3>2. at[t] \in Nodes /\ ~queued[at[t]]
      BY <2>0, <3>1, UnderItself DEF HandOver, Fresh, Descending
    <3> QED
      BY <3>1, <3>2, InsertHandOver
  <2>4. CASE Pop(t)
    BY <2>4, PopHandOver
  <2>5. CASE LockNode(t)
    BY <2>5, LockHandOver
  <2>6. CASE Wait(t) \/ SpuriousWakeup(t) \/ UnlockNode(t) \/ EndUnlock(t) \/ Return(t)
    <3>1. /\ UNCHANGED at /\ pc[t] \notin {"idle", "lock"}
          /\ \/ Advance(t, "wait") \/ Advance(t, "pop") \/ Advance(t, "done")
             \/ Advance(t, "endinsert") /\ pc[t] = "endunlock"
      BY <2>6 DEF Wait, SpuriousWakeup, UnlockNode, EndUnlock, Return
    <3>2. /\ OthersStay(t) /\ UNCHANGED <<queue, queued>>
          /\ \/ pc'[t] \in {"wait", "pop", "done"}
             \/ pc'[t] = "endinsert" /\ pc[t] = "endunlock"
      BY <3>1, AdvanceStays
    <3> QED
      BY <2>0, <3>1, <3>2, AdvanceHandOver DEF Merging, Descending, Ending
  <2>7. CASE MergeEnd(t) \/ DrainEnd(t) \/ Publish(t)
    <3>1. /\ UNCHANGED at /\ Merging(t) /\ pc[t] \notin {"idle", "lock"}
          /\ Advance(t, "drain") \/ Advance(t, "publish") \/ Advance(t, "check")
      BY <2>7 DEF MergeEnd, DrainEnd, Publish, Merging
    <3>2. /\ OthersStay(t) /\ UNCHANGED <<queue, queued>>
          /\ pc'[t] \in {"drain", "publish", "check"}
      BY <3>1, AdvanceStays
    <3> QED
      BY <2>0, <3>1, <3>2, AdvanceHandOver DEF Descending, Ending
  <2>8. CASE MergeLine(t) \/ DrainLine(t) \/ Join(t)
    BY <2>8, UnchangedHandOver DEF MergeLine, DrainLine, Join
  <2>9. CASE CheckSelf(t)
    <3>1. pc[t] = "check" /\ QueueCheckInsert(t, at[t], "parent") /\ UNCHANGED at
      BY <2>9 DEF CheckSelf
    <3>2. at[t] \in Nodes
      BY <2>0, <3>1 DEF Merging
    <3> QED
      BY <3>1, <3>2, CheckInsertHandOver
  <2>10. CASE CheckParent(t)
    <3>1. pc[t] = "parent" /\ UNCHANGED at
      BY <2>10 DEF CheckParent
    <3>2. at[t] \in Nodes
      BY <2>0, <3>1 DEF Merging
    <3>3. CASE at[t] # Root
      <4>1. QueueCheckInsert(t, Parent(at[t]), "unlock") /\ Parent(at[t]) \in Nodes
        BY <2>10, <3>2, <3>3, ParentIsNode DEF CheckParent
      <4> QED
        BY <3>1, <3>2, <3>3, <4>1, CheckInsertHandOver
    <3>4. CASE at[t] = Root /\ QueueInsert(t, End, "unlock")
      BY <3>1, <3>2, <3>4, InsertHandOver, EndIsNoNode
    <3>5. CASE at[t] = Root /\ Advance(t, "unlock")
      <4>1. OthersStay(t) /\ pc'[t] = "unlock" /\ UNCHANGED <<queue, queued>>
        BY <3>1, <3>5, AdvanceStays
      <4> QED
        BY <3>1, <3>2, <4>1, AdvanceHandOver DEF Descending, Ending
    <3> QED
      BY <2>10, <3>3, <3>4, <3>5 DEF CheckParent
  <2>11. CASE EndInsert(t)
    <3>1. pc[t] = "endinsert" /\ QueueInsert(t, at[t], "join") /\ UNCHANGED at
      BY <2>11 DEF EndInsert
    <3>2. at[t] = End
      BY <2>0, <3>1 DEF Ending
    <3> QED
      BY <3>1, <3>2, InsertHandOver, EndIsNoNode
  <2> QED
    BY <1>2, <2>1, <2>2, <2>3, <2>4, <2>5, <2>6, <2>7, <2>8, <2>9, <2>10, <2>11 DEF Step
<1> QED
  BY <1>1, <1>2 DEF Next, Finished

LEMMA InitHandOver == Init => HandOver
<1> SUFFICES ASSUME Init PROVE HandOver
  OBVIOUS
<1>1. /\ \A t \in Threads : pc[t] = (IF t = Main THEN "call" ELSE "idle") /\ at[t] = t
      /\ \A n \in Nodes : ~queued[n] /\ queue[n] = 0
      /\ Threads \subseteq Nodes
  BY DEF Init, Threads
<1>2. Places
  <2>1. \A t \in Threads : Len(t) <= Len(t)
    BY <1>1, NodesAreSequences
  <2> QED
    BY <1>1, <2>1 DEF Places, Descending, Merging, Ending
<1>3. Fresh
  BY <1>1 DEF Fresh, Descending, Main
<1>4. Handed
  BY <1>1 DEF Handed, HandedTo
<1> QED
  BY <1>2, <1>3, <1>4 DEF HandOver

-----------------------------------------------------------------------------
(* The theorems.                                                           *)

\* The inductive invariant: the types, and why a node is handed out once.
THEOREM Invariance == Spec => [](TypeOK /\ HandOver)
<1>1. Init => TypeOK /\ HandOver
  BY InitType, InitHandOver
<1>2. TypeOK /\ HandOver /\ [Next]_vars => TypeOK' /\ HandOver'
  BY TypeStep, HandOverStep DEF HandOver
<1> QED
  BY <1>1, <1>2, PTL DEF Spec

\* Every variable keeps its type: the merge counters never go below zero, and no
\* thread strays from the nodes of the tree (mergelines_node, sortlines).
THEOREM TypeCorrect == Spec => []TypeOK
BY Invariance, PTL

\* Whatever the number of threads and lines, no node is ever in the heap twice or
\* handed to two threads (queue_insert, queue_pop, queue_check_insert).
THEOREM HandedOnce == Spec => []NodeHandedOnce
<1>1. TypeOK /\ HandOver => NodeHandedOnce
  <2> SUFFICES ASSUME TypeOK, HandOver, NEW n \in Nodes
               PROVE  queue[n] + Cardinality(HandedTo(n)) <= 1
    BY DEF NodeHandedOnce
  <2>1. /\ queue[n] \in Nat /\ queue[n] <= 1
        /\ \A t \in HandedTo(n) : queue[n] = 0 /\ \A u \in HandedTo(n) : u = t
    BY DEF TypeOK, HandOver, Handed
  <2>2. CASE HandedTo(n) = {}
    BY <2>1, <2>2, FS_EmptySet
  <2>3. CASE HandedTo(n) # {}
    <3>1. PICK t \in HandedTo(n) : TRUE
      BY <2>3
    <3>2. HandedTo(n) = {t} /\ queue[n] = 0
      BY <2>1, <3>1
    <3>3. Cardinality(HandedTo(n)) = 1
      <4>1. \A x : Cardinality({x}) = 1
        BY FS_Singleton
      <4> QED
        BY <3>2, <4>1
    <3> QED
      BY <3>2, <3>3
  <2> QED
    BY <2>2, <2>3
<1> QED
  BY <1>1, Invariance, PTL

-----------------------------------------------------------------------------
(* The inductive invariant.  Each thread that runs is still to be joined   *)
(* by a thread that runs itself and started higher in the tree; and a lock *)
(* belongs to a thread that works on its node.                             *)

Runs(t) == pc[t] \notin {"idle", "done"}

Joined ==
  /\ \A t \in Threads : Runs(t) /\ t # Main => \E c \in Threads : t \in kids[c]
  /\ \A c \in Threads : \A t \in kids[c] : Runs(c) /\ Len(c) < Len(t)

Owned ==
  \A n \in Nodes \cup {End} : lock[n] # NoThread =>
    /\ lock[n] \in Threads /\ at[lock[n]] = n
    /\ Merging(lock[n]) \/ pc[lock[n]] = "endunlock"

Family == Joined /\ Owned
Facts == TypeOK /\ HandOver

-----------------------------------------------------------------------------
\* If any thread runs, the main thread does: of those that run, one that started
\* highest in the tree has nobody to join it.
LEMMA MainRunsLongest ==
  ASSUME Facts, Family, NEW t \in Threads, Runs(t)
  PROVE  Runs(Main)
<1> DEFINE depths == { Len(u) : u \in { v \in Threads : Runs(v) } }
<1>1. \A u \in Threads : Len(u) \in Nat
  BY NodesAreSequences DEF Threads
<1>2. depths \in SUBSET Nat /\ depths # {}
  BY <1>1
<1>3. PICK d \in depths : \A e \in depths : d <= e
  BY <1>2, Least
<1>4. PICK u \in Threads : Runs(u) /\ Len(u) = d
  BY <1>3
<1>5. ASSUME u # Main PROVE FALSE
  <2>1. PICK c \in Threads : u \in kids[c]
    BY <1>4, <1>5 DEF Family, Joined
  <2>2. Runs(c) /\ Len(c) < Len(u)
    BY <2>1 DEF Family, Joined
  <2>3. Len(c) \in depths
    BY <2>2
  <2> QED
    BY <1>1, <1>3, <1>4, <2>2, <2>3
<1> QED
  BY <1>4, <1>5

-----------------------------------------------------------------------------
(* Steps keep the invariant.                                               *)

\* A step that neither starts nor ends a thread.
LEMMA SameJoined ==
  ASSUME Joined, UNCHANGED kids, \A u \in Threads : Runs(u)' <=> Runs(u)
  PROVE  Joined'
BY DEF Joined

\* A step of t that changes no lock and keeps t at the node of its lock.
LEMMA SameOwned ==
  ASSUME Facts, Owned, NEW t \in Threads, UNCHANGED lock, OthersStay(t),
         Merging(t) \/ pc[t] = "endunlock" =>
           at'[t] = at[t] /\ (Merging(t)' \/ pc'[t] = "endunlock")
  PROVE  Owned'
<1> SUFFICES ASSUME NEW n \in Nodes \cup {End}, lock[n] # NoThread
             PROVE  /\ at'[lock[n]] = n
                    /\ Merging(lock[n])' \/ pc'[lock[n]] = "endunlock"
  BY DEF Owned
<1>1. /\ lock[n] \in Threads /\ at[lock[n]] = n
      /\ Merging(lock[n]) \/ pc[lock[n]] = "endunlock"
  BY DEF Owned
<1>2. CASE lock[n] = t
  BY <1>1, <1>2
<1>3. CASE lock[n] # t
  <2>1. at'[lock[n]] = at[lock[n]] /\ pc'[lock[n]] = pc[lock[n]]
    BY <1>1, <1>3 DEF OthersStay, Merging
  <2> QED
    BY <1>1, <2>1 DEF Merging
<1> QED
  BY <1>2, <1>3

\* A step of t to another place, with or without an insertion into the queue.
LEMMA StayFamily ==
  ASSUME Facts, Family, NEW t \in Threads, OthersStay(t), UNCHANGED <<lock, kids>>,
         Runs(t), Runs(t)',
         Merging(t) \/ pc[t] = "endunlock" =>
           at'[t] = at[t] /\ (Merging(t)' \/ pc'[t] = "endunlock")
  PROVE  Family'
<1>1. Owned'
  BY SameOwned DEF Family
<1>2. \A u \in Threads : Runs(u)' <=> Runs(u)
  BY DEF OthersStay, Runs
<1> QED
  BY <1>1, <1>2, SameJoined DEF Family

LEMMA SplitFamily ==
  ASSUME Facts, Family, NEW t \in Threads, Split(t)
  PROVE  Family'
<1> DEFINE new == Lo(at[t])
<1>1. /\ Descending(t) /\ at[t] \in Nodes /\ Len(t) <= Len(at[t])
      /\ new \in Threads /\ Len(new) = Len(at[t]) + 1 /\ new # at[t]
  BY SplitMakesNodes, ChildrenOf, NodesAreSequences
  DEF Split, WorthSplitting, Descending, Facts, HandOver, Places
<1>2. Under(at[t], new)
  BY <1>1, ChildrenOf, NodesAreSequences DEF Under
<1>3. pc[new] = "idle" /\ new # t
  BY <1>1, <1>2 DEF Facts, HandOver, Fresh, Descending
<1>4. /\ pc[t] = "call" /\ pc' = [pc EXCEPT ![new] = "call"]
      /\ at' = [at EXCEPT ![t] = Hi(at[t])] /\ lock' = lock
      /\ kids' = [kids EXCEPT ![t] = @ \cup {new}]
  BY DEF Split
<1>5. /\ pc \in [Threads -> PCs] /\ at \in [Threads -> Nodes \cup {End}]
      /\ kids \in [Threads -> SUBSET Threads]
  BY DEF Facts, TypeOK
<1>6. /\ \A u \in Threads : u # new => pc'[u] = pc[u]
      /\ pc'[new] = "call"
      /\ \A u \in Threads : u # t => at'[u] = at[u]
      /\ \A c \in Threads : kids[c] \subseteq kids'[c]
      /\ \A c \in Threads : kids'[c] \subseteq kids[c] \cup (IF c = t THEN {new} ELSE {})
      /\ new \in kids'[t]
  BY <1>1, <1>4, <1>5
<1>7. Len(t) < Len(new)
  BY <1>1, NodesAreSequences DEF Threads
<1>8. Joined'
  <2>1. ASSUME NEW u \in Threads, Runs(u)', u # Main
        PROVE  \E c \in Threads : u \in kids'[c]
    <3>1. CASE u = new
      BY <1>6, <3>1
    <3>2. CASE u # new
      <4>1. Runs(u)
        BY <1>6, <2>1, <3>2 DEF Runs
      <4>2. PICK c \in Threads : u \in kids[c]
        BY <2>1, <4>1 DEF Family, Joined
      <4> QED
        BY <1>6, <4>2
    <3> QED
      BY <3>1, <3>2
  <2>2. ASSUME NEW c \in Threads, NEW u \in kids'[c]
        PROVE  Runs(c)' /\ Len(c) < Len(u)
    <3>1. CASE u \in kids[c]
      BY <1>6, <3>1 DEF Family, Joined, Runs
    <3>2. CASE u \notin kids[c]
      <4>1. c = t /\ u = new
        BY <1>6, <2>2, <3>2
      <4> QED
        BY <1>3, <1>4, <1>6, <1>7, <4>1 DEF Runs
    <3> QED
      BY <3>1, <3>2
  <2> QED
    BY <2>1, <2>2 DEF Joined
<1>9. Owned'
  <2> SUFFICES ASSUME NEW n \in Nodes \cup {End}, lock[n] # NoThread
               PROVE  /\ lock[n] \in Threads /\ at'[lock[n]] = n
                      /\ Merging(lock[n])' \/ pc'[lock[n]] = "endunlock"
    BY <1>4 DEF Owned
  <2>1. /\ lock[n] \in Threads /\ at[lock[n]] = n
        /\ Merging(lock[n]) \/ pc[lock[n]] = "endunlock"
    BY DEF Family, Owned
  <2>2. lock[n] # new /\ lock[n] # t
    BY <1>3, <1>4, <2>1 DEF Merging
  <2> QED
    BY <1>4, <1>6, <2>1, <2>2 DEF Merging
<1> QED
  BY <1>8, <1>9 DEF Family

LEMMA LockFamily ==
  ASSUME Facts, Family, NEW t \in Threads, LockNode(t)
  PROVE  Family'
<1>1. /\ pc[t] = "lock" /\ lock' = [lock EXCEPT ![at[t]] = t] /\ UNCHANGED <<at, kids>>
      /\ \E next \in {"endunlock", "merge"} : pc' = [pc EXCEPT ![t] = next]
  BY DEF LockNode
<1>2. /\ pc'[t] \in {"endunlock", "merge"}
      /\ \A u \in Threads \ {t} : pc'[u] = pc[u]
      /\ lock'[at[t]] = t
      /\ \A n \in Nodes \cup {End} : n # at[t] => lock'[n] = lock[n]
  BY <1>1 DEF Facts, TypeOK
<1>3. Joined'
  BY <1>1, <1>2, SameJoined DEF Family, Runs
<1>4. Owned'
  <2> SUFFICES ASSUME NEW n \in Nodes \cup {End}, lock'[n] # NoThread
               PROVE  /\ lock'[n] \in Threads /\ at[lock'[n]] = n
                      /\ Merging(lock[n])' \/ pc'[lock'[n]] = "endunlock"
    BY <1>1 DEF Owned, Merging
  <2>1. CASE n = at[t]
    BY <1>2, <2>1 DEF Merging
  <2>2. CASE n # at[t]
    <3>1. /\ lock[n] \in Threads /\ at[lock[n]] = n /\ lock'[n] = lock[n]
          /\ Merging(lock[n]) \/ pc[lock[n]] = "endunlock"
      BY <1>2, <2>2 DEF Family, Owned
    <3> QED
      BY <1>1, <1>2, <3>1 DEF Merging
  <2> QED
    BY <2>1, <2>2
<1> QED
  BY <1>3, <1>4 DEF Family

LEMMA UnlockFamily ==
  ASSUME Facts, Family, NEW t \in Threads, UnlockNode(t) \/ EndUnlock(t)
  PROVE  Family'
<1>1. /\ pc[t] \in {"unlock", "endunlock"} /\ lock' = [lock EXCEPT ![at[t]] = NoThread]
      /\ UNCHANGED <<at, kids>>
      /\ Advance(t, "pop") \/ Advance(t, "endinsert")
  BY DEF UnlockNode, EndUnlock
<1>2. /\ OthersStay(t) /\ pc'[t] \in {"pop", "endinsert"}
      /\ lock'[at[t]] = NoThread
      /\ \A n \in Nodes \cup {End} : n # at[t] => lock'[n] = lock[n]
  BY <1>1, AdvanceStays DEF Facts, TypeOK
<1>3. Joined'
  BY <1>1, <1>2, SameJoined DEF Family, Runs, OthersStay
<1>4. Owned'
  <2> SUFFICES ASSUME NEW n \in Nodes \cup {End}, n # at[t], lock[n] # NoThread
               PROVE  /\ lock[n] \in Threads /\ at[lock[n]] = n
                      /\ Merging(lock[n])' \/ pc'[lock[n]] = "endunlock"
    BY <1>1, <1>2 DEF Owned, Merging
  <2>1. /\ lock[n] \in Threads /\ at[lock[n]] = n
        /\ Merging(lock[n]) \/ pc[lock[n]] = "endunlock"
    BY DEF Family, Owned
  <2>2. lock[n] # t
    BY <2>1
  <2> QED
    BY <1>1, <1>2, <2>1, <2>2 DEF OthersStay, Merging
<1> QED
  BY <1>3, <1>4 DEF Family

\* pthread_join waits for a thread that is done; sortlines returns when it has
\* joined all its threads.
LEMMA EndFamily ==
  ASSUME Facts, Family, NEW t \in Threads, Join(t) \/ Return(t)
  PROVE  Family'
<1>1. CASE Join(t)
  <2>1. PICK k \in kids[t] : pc[k] = "done" /\ kids' = [kids EXCEPT ![t] = @ \ {k}]
    BY <1>1 DEF Join
  <2>2. UNCHANGED <<pc, at, lock>> /\ kids \in [Threads -> SUBSET Threads]
    BY <1>1 DEF Join, Facts, TypeOK
  <2>3. \A c \in Threads : kids'[c] \subseteq kids[c] /\ kids[c] \ {k} \subseteq kids'[c]
    BY <2>1, <2>2
  <2>4. Joined'
    BY <2>1, <2>2, <2>3 DEF Family, Joined, Runs
  <2>5. Owned'
    BY <2>2 DEF Family, Owned, Merging
  <2> QED
    BY <2>4, <2>5 DEF Family
<1>2. CASE Return(t)
  <2>1. /\ pc[t] = "join" /\ kids[t] = {} /\ UNCHANGED <<lock, at, kids>> /\ Advance(t, "done")
    BY <1>2 DEF Return
  <2>2. OthersStay(t) /\ pc'[t] = "done"
    BY <2>1, AdvanceStays DEF Facts
  <2>3. Owned'
    BY <2>1, <2>2, SameOwned DEF Family, Merging
  <2>4. \A u \in Threads : u # t => (Runs(u)' <=> Runs(u))
    BY <2>2 DEF OthersStay, Runs
  <2>5. Joined'
    BY <2>1, <2>2, <2>4 DEF Family, Joined, Runs
  <2> QED
    BY <2>3, <2>5 DEF Family
<1> QED
  BY <1>1, <1>2

LEMMA FamilyStep ==
  ASSUME Facts, Family, [Next]_vars
  PROVE  Family'
<1>1. CASE UNCHANGED vars
  BY <1>1 DEF vars, Family, Joined, Owned, Runs, Merging
<1>2. ASSUME NEW t \in Threads, Step(t) \/ SpuriousWakeup(t) PROVE Family'
  <2>1. CASE Split(t) \/ LockNode(t) \/ UnlockNode(t) \/ EndUnlock(t) \/ Join(t) \/ Return(t)
    BY <2>1, SplitFamily, LockFamily, UnlockFamily, EndFamily
  <2>2. CASE \/ BecomeLeaf(t) \/ SortLeaf(t) \/ Wait(t) \/ SpuriousWakeup(t)
             \/ MergeEnd(t) \/ DrainEnd(t) \/ Publish(t)
    <3>1. /\ UNCHANGED <<at, lock, kids>>
          /\ \/ pc[t] \in {"call", "leaf", "pop", "wait"}
                /\ \E next \in {"leaf", "insert", "wait", "pop"} : Advance(t, next)
             \/ Merging(t) /\ \E next \in {"drain", "publish", "check"} : Advance(t, next)
      BY <2>2 DEF BecomeLeaf, SortLeaf, Wait, SpuriousWakeup, MergeEnd, DrainEnd, Publish, Merging
    <3>2. /\ OthersStay(t)
          /\ \/ pc[t] \in {"call", "leaf", "pop", "wait"} /\ pc'[t] \in {"leaf", "insert", "wait", "pop"}
             \/ Merging(t) /\ pc'[t] \in {"drain", "publish", "check"}
      BY <3>1, AdvanceStays DEF Facts
    <3> QED
      BY <3>1, <3>2, StayFamily DEF Runs, Merging
  <2>3. CASE Pop(t)
    <3>1. /\ pc[t] = "pop" /\ pc' = [pc EXCEPT ![t] = "lock"] /\ UNCHANGED <<lock, kids>>
          /\ \E n \in Nodes \cup {End} : at' = [at EXCEPT ![t] = n]
      BY <2>3 DEF Pop
    <3>2. OthersStay(t) /\ pc'[t] = "lock"
      BY <3>1 DEF OthersStay, Facts, TypeOK
    <3> QED
      BY <3>1, <3>2, StayFamily DEF Runs, Merging
  <2>4. CASE MergeLine(t) \/ DrainLine(t)
    BY <2>4 DEF MergeLine, DrainLine, Family, Joined, Owned, Runs, Merging
  <2>5. CASE InsertLeaf(t) \/ EndInsert(t)
    <3>1. /\ pc[t] \in {"insert", "endinsert"} /\ UNCHANGED <<at, lock, kids>>
          /\ \E next \in {"pop", "join"} : QueueInsert(t, at[t], next)
      BY <2>5 DEF InsertLeaf, EndInsert
    <3>2. OthersStay(t) /\ pc'[t] \in {"pop", "join"}
      BY <3>1, InsertStays DEF Facts
    <3> QED
      BY <3>1, <3>2, StayFamily DEF Runs, Merging
  <2>6. CASE CheckSelf(t) \/ CheckParent(t)
    <3>1. /\ pc[t] \in {"check", "parent"} /\ UNCHANGED <<at, lock, kids>>
          /\ \E next \in {"parent", "unlock"} :
               Advance(t, next) \/ \E n : QueueInsert(t, n, next)
      BY <2>6 DEF CheckSelf, CheckParent, QueueCheckInsert
    <3>2. OthersStay(t) /\ pc'[t] \in {"parent", "unlock"}
      BY <3>1, AdvanceStays, InsertStays DEF Facts
    <3> QED
      BY <3>1, <3>2, StayFamily DEF Runs, Merging
  <2> QED
    BY <1>2, <2>1, <2>2, <2>3, <2>4, <2>5, <2>6 DEF Step
<1> QED
  BY <1>1, <1>2 DEF Next, Finished

LEMMA InitFamily == Init => Family
BY DEF Init, Family, Joined, Owned, Runs, Main

-----------------------------------------------------------------------------

\* When sortlines returns to sort(), which destroys the queue, the tree and their
\* mutexes: every thread that was started has ended, although each is only joined by
\* the one that created it, and no lock is held.
THEOREM ReturnsLast == Spec => []DestroyedUnused
<1>1. Facts /\ Family => DestroyedUnused
  <2> SUFFICES ASSUME Facts, Family, ~Runs(Main) PROVE DestroyedUnused
    BY DEF DestroyedUnused, Runs
  <2>1. \A t \in Threads : ~Runs(t)
    BY MainRunsLongest
  <2>2. ASSUME NEW n \in Nodes \cup {End}, lock[n] # NoThread PROVE FALSE
    <3>1. lock[n] \in Threads /\ Runs(lock[n])
      BY <2>2 DEF Family, Owned, Merging, Runs
    <3> QED
      BY <2>1, <3>1
  <2> QED
    BY <2>1, <2>2 DEF DestroyedUnused, Runs
<1>2. Facts /\ Family /\ [Next]_vars => Family'
  BY FamilyStep
<1>3. Spec => []Facts
  BY Invariance DEF Facts
<1> QED
  BY InitFamily, <1>1, <1>2, <1>3, PTL DEF Spec

-----------------------------------------------------------------------------
(* The inductive invariant.  Besides the property: a node that is marked   *)
(* as queued is in the heap or about to be locked, so that a thread that   *)
(* finds the mark may leave the node to others.                            *)

\* Thread t is bound to put n, or MERGE_END, into the heap.
Minds(t, n) ==
  \/ at[t] = n /\ pc[t] \in {"insert", "lock", "merge", "drain", "publish", "check"}
  \/ at[t] \notin {Root, End} /\ Parent(at[t]) = n /\ pc[t] \in {"check", "parent"}
MindsEnd(t) ==
  \/ at[t] = End /\ pc[t] \in {"lock", "endunlock", "endinsert"}
  \/ at[t] = Root /\ pc[t] \in {"check", "parent"}

MarkTrue(n) == queued[n] => queue[n] > 0 \/ HandedTo(n) # {}
MarksTrue == \A n \in Nodes : MarkTrue(n)

Work == NoStrandedWork /\ MarksTrue

LEMMA AttendedBy ==
  /\ \A n : AttendedTo(n) <=> queue[n] > 0 \/ \E t \in Threads : Minds(t, n)
  /\ EndAttendedTo <=> queue[End] > 0 \/ \E t \in Threads : MindsEnd(t)
BY DEF AttendedTo, EndAttendedTo, Minds, MindsEnd

\* What a check of a node sees.
LEMMA WorkIsMergeable ==
  ASSUME TypeOK, NEW n \in Nodes, HasWork(n)
  PROVE  Mergeable(n)
<1>1. node[n] \in NodeFields
  BY DEF TypeOK
<1>2. node[n].lo \in Nat /\ node[n].hi \in Nat /\ node[n].endLo \in Nat /\ node[n].endHi \in Nat
  BY <1>1 DEF NodeFields
<1>3. /\ node[n].endLo - node[n].lo > 0 => node[n].lo # node[n].endLo
      /\ node[n].endHi - node[n].hi > 0 => node[n].hi # node[n].endHi
  BY <1>2
<1>4. (node[n].endLo - node[n].lo) + (node[n].endHi - node[n].hi) > 0 =>
        node[n].endLo - node[n].lo > 0 \/ node[n].endHi - node[n].hi > 0
  BY <1>2
<1> QED
  BY <1>3, <1>4 DEF HasWork, Mergeable

-----------------------------------------------------------------------------
(* A step of t: it has to account for the nodes that t has minded, that    *)
(* get lines or that leave the heap; the other threads mind what they did. *)

LEMMA WorkFrame ==
  ASSUME Facts, Work, NEW t \in Threads, OthersStay(t),
         \A n \in Nodes :
           /\ queue[n] \in Nat /\ queue'[n] \in Nat
           /\ HasWork(n)' => \/ queue'[n] > 0 \/ Minds(t, n)'
                             \/ HasWork(n) /\ queue[n] <= queue'[n] /\ ~Minds(t, n)
                             \/ queue[n] <= queue'[n] /\ (queue[n] > 0 \/ HandedTo(n) # {})
                                  /\ t \notin HandedTo(n),
         queue[End] \in Nat /\ queue'[End] \in Nat,
         RootFinished' => \/ queue'[End] > 0 \/ MindsEnd(t)'
                          \/ RootFinished /\ queue[End] <= queue'[End] /\ ~MindsEnd(t)
  PROVE  NoStrandedWork'
<1>1. ASSUME NEW u \in Threads, u # t
      PROVE  /\ \A n : Minds(u, n) => Minds(u, n)'
             /\ MindsEnd(u) => MindsEnd(u)'
  BY <1>1 DEF OthersStay, Minds, MindsEnd
<1>2. ASSUME NEW n \in Nodes, HasWork(n)' PROVE AttendedTo(n)'
  <2>0. AttendedTo(n)' <=> queue'[n] > 0 \/ \E u \in Threads : Minds(u, n)'
    BY DEF AttendedTo, Minds
  <2>1. CASE queue'[n] > 0 \/ Minds(t, n)'
    BY <2>0, <2>1
  <2>2. CASE HasWork(n) /\ queue[n] <= queue'[n] /\ ~Minds(t, n)
    <3>1. queue[n] > 0 \/ \E u \in Threads : Minds(u, n)
      BY <2>2, AttendedBy DEF Work, NoStrandedWork
    <3> QED
      BY <1>1, <2>0, <2>2, <3>1
  <2>3. CASE /\ queue[n] <= queue'[n] /\ (queue[n] > 0 \/ HandedTo(n) # {})
             /\ t \notin HandedTo(n)
    <3>1. \A u \in HandedTo(n) : u \in Threads /\ u # t /\ Minds(u, n)
      BY <2>3 DEF HandedTo, Minds
    <3> QED
      BY <1>1, <2>0, <2>3, <3>1
  <2> QED
    BY <1>2, <2>1, <2>2, <2>3
<1>3. ASSUME RootFinished' PROVE EndAttendedTo'
  <2>0. EndAttendedTo' <=> queue'[End] > 0 \/ \E u \in Threads : MindsEnd(u)'
    BY DEF EndAttendedTo, MindsEnd
  <2>1. CASE queue'[End] > 0 \/ MindsEnd(t)'
    BY <2>0, <2>1
  <2>2. CASE RootFinished /\ queue[End] <= queue'[End] /\ ~MindsEnd(t)
    <3>1. queue[End] > 0 \/ \E u \in Threads : MindsEnd(u)
      BY <2>2, AttendedBy DEF Work, NoStrandedWork, RootFinished
    <3> QED
      BY <1>1, <2>0, <2>2, <3>1
  <2> QED
    BY <1>3, <2>1, <2>2
<1> QED
  BY <1>2, <1>3 DEF NoStrandedWork, RootFinished

LEMMA MarksFrame ==
  ASSUME Facts, Work, NEW t \in Threads, OthersStay(t),
         \A n \in Nodes :
           /\ queue[n] \in Nat /\ queue'[n] \in Nat
           /\ queued'[n] => \/ queue'[n] > 0 \/ (at'[t] = n /\ pc'[t] = "lock")
                            \/ queued[n] /\ queue[n] <= queue'[n] /\ t \notin HandedTo(n)
  PROVE  MarksTrue'
<1> SUFFICES ASSUME NEW n \in Nodes, queued'[n]
             PROVE  queue'[n] > 0 \/ \E u \in Threads : pc'[u] = "lock" /\ at'[u] = n
  BY DEF MarksTrue, MarkTrue, HandedTo
<1>1. CASE queued[n] /\ queue[n] <= queue'[n] /\ t \notin HandedTo(n)
  <2>1. queue[n] > 0 \/ HandedTo(n) # {}
    BY <1>1 DEF Work, MarksTrue, MarkTrue
  <2>2. \A u \in HandedTo(n) : u \in Threads /\ pc'[u] = "lock" /\ at'[u] = n
    BY <1>1 DEF HandedTo, OthersStay
  <2> QED
    BY <1>1, <2>1, <2>2
<1> QED
  BY <1>1

LEMMA Counts ==
  ASSUME TypeOK, NEW n \in Nodes \cup {End}
  PROVE  queue[n] \in Nat
BY DEF TypeOK

\* A step of t that leaves the heap alone and keeps minding what t has minded.
LEMMA QuietWork ==
  ASSUME Facts, Work, NEW t \in Threads, OthersStay(t), pc[t] # "lock",
         UNCHANGED <<queue, queued>>,
         \A n \in Nodes : Minds(t, n) => Minds(t, n)',
         \A n \in Nodes : HasWork(n)' => HasWork(n) \/ Minds(t, n)',
         MindsEnd(t) => MindsEnd(t)',
         RootFinished' => RootFinished \/ MindsEnd(t)'
  PROVE  Work'
<1>1. t \notin UNION { HandedTo(n) : n \in Nodes }
  BY DEF HandedTo
<1>2. NoStrandedWork'
  BY <1>1, Counts, WorkFrame DEF Facts
<1>3. MarksTrue'
  BY <1>1, Counts, MarksFrame DEF Facts
<1> QED
  BY <1>2, <1>3 DEF Work

\* An insertion by t, which gives up only what it inserts.
LEMMA InsertWork ==
  ASSUME Facts, Work, NEW t \in Threads, pc[t] \notin {"wait", "lock"}, NEW next,
         NEW m \in Nodes \cup {End}, QueueInsert(t, m, next), UNCHANGED <<node, at>>,
         \A n \in Nodes : Minds(t, n) => n = m \/ Minds(t, n)',
         MindsEnd(t) => m = End \/ MindsEnd(t)'
  PROVE  Work'
<1>1. /\ OthersStay(t)
      /\ \A n \in Nodes \cup {End} : /\ queue[n] \in Nat /\ queue'[n] \in Nat
                                     /\ queue[n] <= queue'[n]
                                     /\ n = m => queue'[n] > 0
                                     /\ n # m => queued'[n] = queued[n]
      /\ t \notin UNION { HandedTo(n) : n \in Nodes }
  <2>1. OthersStay(t)
    BY InsertStays DEF Facts
  <2>2. /\ queue \in [Nodes \cup {End} -> Nat] /\ queued \in [Nodes \cup {End} -> BOOLEAN]
        /\ queue' = [queue EXCEPT ![m] = @ + 1] /\ queued' = [queued EXCEPT ![m] = TRUE]
    BY DEF Facts, TypeOK, QueueInsert
  <2>3. \A n \in Nodes \cup {End} : /\ queue[n] \in Nat
                                    /\ queue'[n] = IF n = m THEN queue[n] + 1 ELSE queue[n]
                                    /\ n # m => queued'[n] = queued[n]
    BY <2>2
  <2> QED
    BY <2>1, <2>3 DEF HandedTo
<1>2. \A n : HasWork(n)' => HasWork(n)
  BY DEF HasWork
<1>3. RootFinished' => RootFinished
  BY DEF RootFinished
<1>4. NoStrandedWork'
  BY <1>1, <1>2, <1>3, WorkFrame
<1>5. MarksTrue'
  <2>1. \A n \in Nodes :
          /\ queue[n] \in Nat /\ queue'[n] \in Nat
          /\ queued'[n] => \/ queue'[n] > 0 \/ (at'[t] = n /\ pc'[t] = "lock")
                           \/ queued[n] /\ queue[n] <= queue'[n] /\ t \notin HandedTo(n)
    BY <1>1, Zenon
  <2>2. OthersStay(t)
    BY <1>1
  <2> QED
    BY <2>1, <2>2, MarksFrame, Zenon
<1> QED
  BY <1>4, <1>5 DEF Work

\* queue_check_insert: t gives up a node that it finds marked, or without lines to
\* merge.
LEMMA CheckWork ==
  ASSUME Facts, Work, NEW t \in Threads, pc[t] \notin {"wait", "lock"}, NEW next,
         next # "lock",
         NEW m \in Nodes, QueueCheckInsert(t, m, next), UNCHANGED <<node, at>>,
         \A n \in Nodes : Minds(t, n) => n = m \/ (pc'[t] = next => Minds(t, n)'),
         MindsEnd(t) => (pc'[t] = next => MindsEnd(t)')
  PROVE  Work'
<1>1. CASE ~queued[m] /\ Mergeable(m)
  <2>1. QueueInsert(t, m, next)
    BY <1>1 DEF QueueCheckInsert
  <2>2. pc'[t] = next
    BY <2>1, InsertStays DEF Facts
  <2> QED
    BY <2>1, <2>2, InsertWork
<1>2. CASE ~(~queued[m] /\ Mergeable(m))
  <2>1. /\ OthersStay(t) /\ pc'[t] = next /\ UNCHANGED <<queue, queued>>
    BY <1>2, AdvanceStays DEF QueueCheckInsert, Facts
  <2>2. \A n : HasWork(n)' => HasWork(n)
    BY DEF HasWork
  <2>3. RootFinished' => RootFinished
    BY DEF RootFinished
  <2>4. HasWork(m) => queue[m] > 0 \/ HandedTo(m) # {}
    BY <1>2, WorkIsMergeable DEF Facts, Work, MarksTrue, MarkTrue
  <2>5. t \notin UNION { HandedTo(n) : n \in Nodes }
    BY DEF HandedTo
  <2>6. NoStrandedWork'
    BY <2>1, <2>2, <2>3, <2>4, <2>5, Counts, WorkFrame DEF Facts
  <2>7. MarksTrue'
    BY <2>1, <2>5, Counts, MarksFrame DEF Facts
  <2> QED
    BY <2>6, <2>7 DEF Work
<1> QED
  BY <1>1, <1>2

-----------------------------------------------------------------------------
(* The steps.                                                              *)

LEMMA SplitWork ==
  ASSUME Facts, Work, NEW t \in Threads, Split(t)
  PROVE  Work'
<1> DEFINE new == Lo(at[t])
<1>1. /\ Descending(t) /\ at[t] \in Nodes /\ new \in Threads /\ new # at[t]
  BY SplitMakesNodes, ChildrenOf, NodesAreSequences
  DEF Split, WorthSplitting, Descending, Facts, HandOver, Places
<1>2. Under(at[t], new)
  BY <1>1, ChildrenOf, NodesAreSequences DEF Under
<1>3. pc[new] = "idle" /\ new # t /\ pc[t] = "call"
  BY <1>1, <1>2 DEF Facts, HandOver, Fresh, Descending, Split
<1>4. /\ pc' = [pc EXCEPT ![new] = "call"] /\ at' = [at EXCEPT ![t] = Hi(at[t])]
      /\ UNCHANGED <<node, queue, queued>>
  BY DEF Split
<1>5. \A u \in Threads :
        /\ u \notin {t, new} => pc'[u] = pc[u] /\ at'[u] = at[u]
        /\ u \in {t, new} => pc[u] \in {"call", "idle"} /\ pc'[u] = "call"
  BY <1>1, <1>3, <1>4 DEF Facts, TypeOK
<1>6. \A u \in Threads : /\ \A n : Minds(u, n)' <=> Minds(u, n)
                         /\ MindsEnd(u)' <=> MindsEnd(u)
                         /\ \A n : (u \in HandedTo(n))' <=> u \in HandedTo(n)
  BY <1>5 DEF Minds, MindsEnd, HandedTo
<1>7. \A n : (HasWork(n)' <=> HasWork(n)) /\ (RootFinished' <=> RootFinished)
  BY <1>4 DEF HasWork, RootFinished
<1>8. /\ \A n : AttendedTo(n)' <=> queue'[n] > 0 \/ \E u \in Threads : Minds(u, n)'
      /\ EndAttendedTo' <=> queue'[End] > 0 \/ \E u \in Threads : MindsEnd(u)'
  BY DEF AttendedTo, EndAttendedTo, Minds, MindsEnd
<1>9. NoStrandedWork'
  BY <1>4, <1>6, <1>7, <1>8, AttendedBy DEF Work, NoStrandedWork, RootFinished
<1>10. \A n : HandedTo(n)' = HandedTo(n)
  BY <1>6 DEF HandedTo
<1>11. MarksTrue'
  BY <1>4, <1>10 DEF Work, MarksTrue, MarkTrue
<1> QED
  BY <1>9, <1>11 DEF Work

LEMMA PopWork ==
  ASSUME Facts, Work, NEW t \in Threads, Pop(t)
  PROVE  Work'
<1>1. PICK m \in Nodes \cup {End} :
        /\ queue[m] > 0 /\ queue' = [queue EXCEPT ![m] = @ - 1]
        /\ at' = [at EXCEPT ![t] = m]
  BY DEF Pop
<1>2. /\ pc[t] = "pop" /\ pc' = [pc EXCEPT ![t] = "lock"] /\ UNCHANGED <<node, queued>>
  BY DEF Pop
<1>3. /\ OthersStay(t) /\ pc'[t] = "lock" /\ at'[t] = m
  BY <1>1, <1>2 DEF Facts, TypeOK, OthersStay
<1>4. \A n \in Nodes \cup {End} : /\ queue[n] \in Nat /\ queue'[n] \in Nat
                                  /\ n # m => queue[n] <= queue'[n]
  <2>1. queue \in [Nodes \cup {End} -> Nat]
    BY DEF Facts, TypeOK
  <2>2. \A n \in Nodes \cup {End} :
          queue[n] \in Nat /\ queue'[n] = IF n = m THEN queue[n] - 1 ELSE queue[n]
    BY <1>1, <2>1
  <2> QED
    BY <1>1, <2>2
<1>5. /\ \A n : ~Minds(t, n) /\ (n = m => Minds(t, n)')
      /\ ~MindsEnd(t) /\ (m = End => MindsEnd(t)')
      /\ t \notin UNION { HandedTo(n) : n \in Nodes }
  BY <1>2, <1>3 DEF Minds, MindsEnd, HandedTo
<1>6. \A n : (HasWork(n)' => HasWork(n)) /\ (RootFinished' => RootFinished)
  BY <1>2 DEF HasWork, RootFinished
<1>7. NoStrandedWork'
  BY <1>3, <1>4, <1>5, <1>6, WorkFrame
<1>8. MarksTrue'
  BY <1>2, <1>3, <1>4, <1>5, MarksFrame
<1> QED
  BY <1>7, <1>8 DEF Work

LEMMA LockWork ==
  ASSUME Facts, Work, NEW t \in Threads, LockNode(t)
  PROVE  Work'
<1>1. /\ pc[t] = "lock" /\ queued' = [queued EXCEPT ![at[t]] = FALSE]
      /\ UNCHANGED <<node, queue, at>>
      /\ at[t] = End => pc' = [pc EXCEPT ![t] = "endunlock"]
      /\ at[t] # End => pc' = [pc EXCEPT ![t] = "merge"]
  BY DEF LockNode
<1>2. /\ OthersStay(t)
      /\ pc'[t] = IF at[t] = End THEN "endunlock" ELSE "merge"
      /\ at[t] \in Nodes \cup {End} /\ ~queued'[at[t]]
      /\ \A n \in Nodes : n # at[t] => queued'[n] = queued[n]
  BY <1>1 DEF Facts, TypeOK, OthersStay
<1>3. /\ \A n \in Nodes : Minds(t, n) => Minds(t, n)'
      /\ MindsEnd(t) => MindsEnd(t)'
  BY <1>1, <1>2, EndIsNoNode DEF Minds, MindsEnd
<1>4. \A n : (HasWork(n)' => HasWork(n)) /\ (RootFinished' => RootFinished)
  BY <1>1 DEF HasWork, RootFinished
<1>5. \A n \in Nodes : n # at[t] => t \notin HandedTo(n)
  BY DEF HandedTo
<1>6. NoStrandedWork'
  BY <1>1, <1>2, <1>3, <1>4, Counts, WorkFrame DEF Facts
<1>7. MarksTrue'
  BY <1>1, <1>2, <1>5, Counts, MarksFrame DEF Facts
<1> QED
  BY <1>6, <1>7 DEF Work

LEMMA SortLeafWork ==
  ASSUME Facts, Work, NEW t \in Threads, SortLeaf(t)
  PROVE  Work'
<1>1. /\ pc[t] = "leaf" /\ Advance(t, "insert") /\ UNCHANGED at
      /\ \E a, b, c, d : node' = [node EXCEPT ![at[t]].lo = a, ![at[t]].endLo = b,
                                              ![at[t]].hi = c, ![at[t]].endHi = d]
  BY DEF SortLeaf
<1>2. OthersStay(t) /\ pc'[t] = "insert" /\ UNCHANGED <<queue, queued>>
  BY <1>1, AdvanceStays DEF Facts
<1>3. at[t] \in Nodes /\ node \in [Nodes -> NodeFields]
  BY <1>1 DEF Facts, TypeOK, HandOver, Places, Descending
<1>4. \A n \in Nodes : n # at[t] => node'[n] = node[n]
  BY <1>1, <1>3
<1>5. node'[Root].nlo = node[Root].nlo /\ node'[Root].nhi = node[Root].nhi
  BY <1>1, <1>3, RootIsNode DEF NodeFields
<1>6. \A n \in Nodes : HasWork(n)' => HasWork(n) \/ n = at[t]
  BY <1>4 DEF HasWork
<1>7. RootFinished' => RootFinished
  BY <1>5 DEF RootFinished
<1>8. /\ \A n : ~Minds(t, n) /\ (n = at[t] => Minds(t, n)')
      /\ ~MindsEnd(t)
  BY <1>1, <1>2 DEF Minds, MindsEnd
<1> QED
  BY <1>1, <1>2, <1>6, <1>7, <1>8, QuietWork

\* A line taken from a node: the thread that takes it minds the node.
LEMMA TakeWork ==
  ASSUME Facts, Work, NEW t \in Threads, MergeLine(t) \/ DrainLine(t)
  PROVE  Work'
<1>1. /\ pc[t] \in {"merge", "drain"} /\ UNCHANGED <<pc, at, queue, queued>>
      /\ \E x : \/ node' = [node EXCEPT ![at[t]].lo = x]
                \/ node' = [node EXCEPT ![at[t]].hi = x]
  BY DEF MergeLine, DrainLine, TakeLo, TakeHi
<1>2. at[t] \in Nodes /\ node \in [Nodes -> NodeFields]
  BY <1>1 DEF Facts, TypeOK, HandOver, Places, Merging
<1>3. \A n \in Nodes : n # at[t] => node'[n] = node[n]
  BY <1>1, <1>2
<1>4. node'[Root].nlo = node[Root].nlo /\ node'[Root].nhi = node[Root].nhi
  <2>1. PICK x : \/ node' = [node EXCEPT ![at[t]].lo = x]
                 \/ node' = [node EXCEPT ![at[t]].hi = x]
    BY <1>1
  <2>2. CASE at[t] # Root
    BY <1>3, <2>2, RootIsNode
  <2>3. CASE at[t] = Root
    <3>1. \/ node'[Root] = [node[Root] EXCEPT !.lo = x]
          \/ node'[Root] = [node[Root] EXCEPT !.hi = x]
      BY <1>2, <2>1, <2>3
    <3>2. node[Root] \in NodeFields
      BY <1>2, RootIsNode
    <3> QED
      BY <3>1, <3>2 DEF NodeFields
  <2> QED
    BY <2>2, <2>3
<1>5. \A n \in Nodes : HasWork(n)' => HasWork(n) \/ n = at[t]
  BY <1>3 DEF HasWork
<1>6. /\ OthersStay(t) /\ (RootFinished' => RootFinished)
      /\ \A n : Minds(t, n) => Minds(t, n)'
      /\ MindsEnd(t) => MindsEnd(t)'
      /\ Minds(t, at[t])'
  BY <1>1, <1>4 DEF OthersStay, RootFinished, Minds, MindsEnd
<1> QED
  BY <1>1, <1>5, <1>6, QuietWork

\* What is delivered to the parent, and the count of the lines left, are minded by
\* the thread that has delivered.
LEMMA PublishWork ==
  ASSUME Facts, Work, NEW t \in Threads, Publish(t)
  PROVE  Work'
<1> DEFINE n == at[t]
           p == Parent(n)
<1>1. pc[t] = "publish" /\ Advance(t, "check") /\ UNCHANGED at
  BY DEF Publish
<1>2. OthersStay(t) /\ pc'[t] = "check" /\ UNCHANGED <<queue, queued>>
  BY <1>1, AdvanceStays DEF Facts
<1>3. n \in Nodes /\ n # End /\ (n # Root => p \in Nodes) /\ node \in [Nodes -> NodeFields]
  BY <1>1, ParentIsNode, EndIsNoNode DEF Facts, TypeOK, HandOver, Places, Merging
<1>4. \E nd, x :
        \/ n = Root /\ node' = [node EXCEPT ![n] = nd]
        \/ n # Root /\ node' = [node EXCEPT ![n] = nd, ![p].endLo = x]
        \/ n # Root /\ node' = [node EXCEPT ![n] = nd, ![p].endHi = x]
  <2> DEFINE nd == [node[n] EXCEPT !.nlo = @ - (node[n].lo - loc[t].lo0),
                                   !.nhi = @ - (node[n].hi - loc[t].hi0)]
  <2>1. node' = IF n = Root THEN [node EXCEPT ![n] = nd]
                ELSE IF n[Len(n)] = 0
                THEN [node EXCEPT ![n] = nd, ![p].endLo = loc[t].dest]
                ELSE [node EXCEPT ![n] = nd, ![p].endHi = loc[t].dest]
    BY DEF Publish
  <2> HIDE DEF nd
  <2>2. CASE n = Root
    <3>1. node' = [node EXCEPT ![n] = nd]
      BY <2>1, <2>2
    <3> QED
      BY <2>2, <3>1
  <2>3. CASE n # Root
    <3>1. \/ node' = [node EXCEPT ![n] = nd, ![p].endLo = loc[t].dest]
          \/ node' = [node EXCEPT ![n] = nd, ![p].endHi = loc[t].dest]
      BY <2>1, <2>3
    <3> QED
      BY <2>3, <3>1
  <2> QED
    BY <2>2, <2>3
<1> HIDE DEF p
<1>5. \A m \in Nodes : m # n /\ (n = Root \/ m # p) => node'[m] = node[m]
  BY <1>3, <1>4
<1>6. n # Root => node'[Root].nlo = node[Root].nlo /\ node'[Root].nhi = node[Root].nhi
  <2> SUFFICES ASSUME n # Root
               PROVE  node'[Root].nlo = node[Root].nlo /\ node'[Root].nhi = node[Root].nhi
    OBVIOUS
  <2>1. CASE p # Root
    BY <1>5, <2>1, RootIsNode
  <2>2. CASE p = Root
    <3>1. PICK x : node'[Root] = [node[Root] EXCEPT !.endLo = x] \/ node'[Root] = [node[Root] EXCEPT !.endHi = x]
      BY <1>3, <1>4, <2>2
    <3>2. node[Root] \in NodeFields
      BY <1>3, RootIsNode
    <3> QED
      BY <3>1, <3>2 DEF NodeFields
  <2> QED
    BY <2>1, <2>2
<1>7. /\ \A m : Minds(t, m) => Minds(t, m)'
      /\ \A m : m = n \/ (n # Root /\ m = p) => Minds(t, m)'
      /\ MindsEnd(t) => MindsEnd(t)'
      /\ n = Root => MindsEnd(t)'
  BY <1>1, <1>2, <1>3 DEF Minds, MindsEnd, p
<1>8. \A m \in Nodes : HasWork(m)' => HasWork(m) \/ Minds(t, m)'
  <2> SUFFICES ASSUME NEW m \in Nodes, HasWork(m)', ~Minds(t, m)'
               PROVE  HasWork(m)
    OBVIOUS
  <2>1. node'[m] = node[m]
    BY <1>5, <1>7
  <2> QED
    BY <2>1 DEF HasWork
<1>9. RootFinished' => RootFinished \/ MindsEnd(t)'
  BY <1>6, <1>7 DEF RootFinished
<1> QED
  BY <1>1, <1>2, <1>7, <1>8, <1>9, QuietWork

LEMMA CheckSelfWork ==
  ASSUME Facts, Work, NEW t \in Threads, CheckSelf(t)
  PROVE  Work'
<1>1. pc[t] = "check" /\ QueueCheckInsert(t, at[t], "parent") /\ UNCHANGED <<node, at>>
  BY DEF CheckSelf
<1>2. at[t] \in Nodes
  BY <1>1 DEF Facts, HandOver, Places, Merging
<1>3. /\ \A n : Minds(t, n) => n = at[t] \/ (pc'[t] = "parent" => Minds(t, n)')
      /\ MindsEnd(t) => (pc'[t] = "parent" => MindsEnd(t)')
  BY <1>1, EndIsNoNode, <1>2 DEF Minds, MindsEnd
<1> QED
  BY <1>1, <1>2, <1>3, CheckWork

LEMMA CheckParentWork ==
  ASSUME Facts, Work, NEW t \in Threads, CheckParent(t)
  PROVE  Work'
<1>1. pc[t] = "parent" /\ UNCHANGED <<node, at>>
  BY DEF CheckParent
<1>2. at[t] \in Nodes /\ at[t] # End
  BY <1>1, EndIsNoNode DEF Facts, HandOver, Places, Merging
<1>3. CASE at[t] # Root
  <2>1. Parent(at[t]) \in Nodes /\ QueueCheckInsert(t, Parent(at[t]), "unlock")
    BY <1>2, <1>3, ParentIsNode DEF CheckParent
  <2>2. (\A n : Minds(t, n) => n = Parent(at[t])) /\ ~MindsEnd(t)
    BY <1>1, <1>2, <1>3 DEF Minds, MindsEnd
  <2> QED
    BY <1>1, <2>1, <2>2, CheckWork
<1>4. CASE at[t] = Root
  <2>1. \A n : ~Minds(t, n)
    BY <1>1, <1>4 DEF Minds
  <2>2. CASE RootFinished
    <3>1. QueueInsert(t, End, "unlock")
      BY <1>4, <2>2 DEF CheckParent
    <3> QED
      BY <1>1, <2>1, <3>1, InsertWork
  <2>3. CASE ~RootFinished
    <3>1. Advance(t, "unlock")
      BY <1>4, <2>3 DEF CheckParent
    <3>2. OthersStay(t) /\ UNCHANGED <<queue, queued>>
      BY <1>1, <3>1, AdvanceStays DEF Facts
    <3>3. ~RootFinished'
      BY <1>1, <2>3 DEF RootFinished
    <3>4. \A n : HasWork(n)' => HasWork(n)
      BY <1>1 DEF HasWork
    <3>5. t \notin UNION { HandedTo(n) : n \in Nodes }
      BY <1>1 DEF HandedTo
    <3>6. NoStrandedWork'
      BY <2>1, <3>2, <3>3, <3>4, <3>5, Counts, WorkFrame DEF Facts
    <3>7. MarksTrue'
      BY <3>2, <3>5, Counts, MarksFrame DEF Facts
    <3> QED
      BY <3>6, <3>7 DEF Work
  <2> QED
    BY <2>2, <2>3
<1> QED
  BY <1>3, <1>4

LEMMA WorkStep ==
  ASSUME Facts, Work, [Next]_vars
  PROVE  Work'
<1>1. CASE UNCHANGED vars
  BY <1>1 DEF vars, Work, NoStrandedWork, MarksTrue, MarkTrue, HandedTo, HasWork, AttendedTo,
     EndAttendedTo
<1>2. ASSUME NEW t \in Threads, Step(t) \/ SpuriousWakeup(t) PROVE Work'
  <2>1. CASE \/ BecomeLeaf(t) \/ Wait(t) \/ SpuriousWakeup(t) \/ MergeEnd(t) \/ DrainEnd(t)
             \/ UnlockNode(t) \/ EndUnlock(t) \/ Return(t)
    <3>1. /\ UNCHANGED <<node, at>>
          /\ \/ pc[t] \in {"call", "pop", "wait", "unlock", "join"}
                /\ \E next \in {"leaf", "wait", "pop", "done"} : Advance(t, next)
             \/ pc[t] = "merge" /\ Advance(t, "drain")
             \/ pc[t] = "drain" /\ Advance(t, "publish")
             \/ pc[t] = "endunlock" /\ Advance(t, "endinsert")
      BY <2>1 DEF BecomeLeaf, Wait, SpuriousWakeup, MergeEnd, DrainEnd, UnlockNode,
         EndUnlock, Return
    <3>2. /\ OthersStay(t) /\ UNCHANGED <<queue, queued>>
          /\ \/ pc[t] \in {"call", "pop", "wait", "unlock", "join"}
             \/ pc[t] = "merge" /\ pc'[t] = "drain"
             \/ pc[t] = "drain" /\ pc'[t] = "publish"
             \/ pc[t] = "endunlock" /\ pc'[t] = "endinsert"
      BY <3>1, AdvanceStays DEF Facts
    <3>3. /\ pc[t] # "lock"
          /\ \A n : Minds(t, n) => Minds(t, n)'
          /\ MindsEnd(t) => MindsEnd(t)'
      BY <3>1, <3>2 DEF Minds, MindsEnd
    <3>4. /\ \A n : HasWork(n)' => HasWork(n)
          /\ RootFinished' => RootFinished
      BY <3>1 DEF HasWork, RootFinished
    <3> QED
      BY <3>2, <3>3, <3>4, QuietWork
  <2>2. CASE InsertLeaf(t) \/ EndInsert(t)
    <3>1. /\ UNCHANGED <<node, at>> /\ at[t] \in Nodes \cup {End}
          /\ \/ pc[t] = "insert" /\ QueueInsert(t, at[t], "pop")
             \/ pc[t] = "endinsert" /\ QueueInsert(t, at[t], "join")
      BY <2>2 DEF InsertLeaf, EndInsert, Facts, TypeOK
    <3>2. /\ \A n : Minds(t, n) => n = at[t]
          /\ MindsEnd(t) => at[t] = End
      BY <3>1 DEF Minds, MindsEnd
    <3> QED
      BY <3>1, <3>2, InsertWork
  <2>3. CASE Join(t)
    BY <2>3 DEF Join, Work, NoStrandedWork, MarksTrue, MarkTrue, HandedTo, HasWork, AttendedTo,
       EndAttendedTo
  <2> QED
    BY <1>2, <2>1, <2>2, <2>3, SplitWork, SortLeafWork, PopWork, LockWork, TakeWork, PublishWork,
       CheckSelfWork, CheckParentWork DEF Step
<1> QED
  BY <1>1, <1>2 DEF Next, Finished

LEMMA InitWork == Init => Work
<1> SUFFICES ASSUME Init PROVE Work
  OBVIOUS
<1>1. /\ \A n \in Nodes : node[n] = InitNode(n) /\ ~queued[n]
      /\ \A n \in Nodes : NodeLines[n] \in Nat
  BY TreeAssumption DEF Init
<1>2. \A n \in Nodes : InitNode(n) \in NodeFields
  BY InitNodeType
<1>3. \A n \in Nodes : ~HasWork(n)
  <2> SUFFICES ASSUME NEW n \in Nodes PROVE ~HasWork(n)
    OBVIOUS
  <2>0. InitNode(n).endLo = InitNode(n).lo /\ InitNode(n).endHi = InitNode(n).hi
    BY DEF InitNode
  <2>1. /\ node[n].endLo = node[n].lo /\ node[n].endHi = node[n].hi
        /\ node[n].lo \in Nat /\ node[n].hi \in Nat
    BY <1>1, <1>2, <2>0 DEF NodeFields
  <2>2. node[n].endLo - node[n].lo = 0 /\ node[n].endHi - node[n].hi = 0
    BY <2>1
  <2> QED
    BY <2>2 DEF HasWork
<1>4. node[Root].nlo + node[Root].nhi # 0
  <2>1. NodeLines[Root] \in Nat /\ Root \in Nodes
    BY RootIsNode, <1>1
  <2>2. /\ InitNode(Root).nlo = NodeLines[Root] \div 2
        /\ InitNode(Root).nhi = NodeLines[Root] - NodeLines[Root] \div 2
    BY DEF InitNode
  <2>3. NodeLines[Root] = NLines
    BY TreeAssumption
  <2>4. node[Root] = InitNode(Root)
    BY <1>1, <2>1
  <2>5. NLines \div 2 + (NLines - NLines \div 2) # 0
    BY SizesAssumption
  <2> QED
    BY <2>2, <2>3, <2>4, <2>5
<1> QED
  BY <1>1, <1>3, <1>4 DEF Work, NoStrandedWork, MarksTrue, MarkTrue

-----------------------------------------------------------------------------

\* A node that has lines to merge is in the heap or minded by a thread that is bound to
\* put it there, and so is MERGE_END once the root is finished: wherever a thread finds
\* nothing to do at a node, another one comes (queue_check_insert,
\* queue_check_insert_parent).
THEOREM NoWorkLost == Spec => []NoStrandedWork
<1>1. Work => NoStrandedWork
  BY DEF Work
<1>2. Facts /\ Work /\ [Next]_vars => Work'
  BY WorkStep
<1>3. Spec => []Facts
  BY Invariance DEF Facts
<1> QED
  BY InitWork, <1>1, <1>2, <1>3, PTL DEF Spec
=============================================================================
