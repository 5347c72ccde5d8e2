------------------------------ MODULE SortMerge ------------------------------
(***************************************************************************)
(* The parallel internal sort of sort(1): sortlines, the binary merge tree *)
(* and the queue of merge nodes that the worker threads share (sort.c,     *)
(* merge_tree_init .. sortlines).                                          *)
(*                                                                         *)
(* The lines live in one array of cells.  sort.c stores it backwards; here *)
(* cell 0 is the first line and the pointers grow.  Cells 0..NLines-1 hold *)
(* the input (area 0); a node at level k merges from area k and a child    *)
(* delivers into the area of its parent.                                   *)
(*                                                                         *)
(* One action is one critical section, or one iteration of a merge loop.   *)
(* The heap is represented by the multiplicity of each node in it, and any *)
(* node in it may be popped; MergeHeap is the heap itself.                 *)
(***************************************************************************)
EXTENDS Integers, Sequences, FiniteSets

CONSTANTS
  NThreads,        \* threads asked for (--parallel)
  NLines,          \* lines in the buffer
  SubthreadLines,  \* SUBTHREAD_LINES_HEURISTIC
  SizeMax,         \* SIZE_MAX, the value an unsigned 0 wraps to
  Inputs,          \* the buffers to sort, each a function 1..NLines -> keys
  Unique,          \* TRUE for sort -u
  End,             \* the MERGE_END node
  NoThread         \* the owner of a free lock

ASSUME SizesAssumption ==
  /\ NThreads \in Nat \ {0}
  /\ NLines \in Nat /\ NLines >= 2
  /\ SubthreadLines \in Nat /\ SubthreadLines >= 4
  /\ SizeMax \in Nat /\ SizeMax > NLines
  /\ Unique \in BOOLEAN

ASSUME InputsAssumption == Inputs \subseteq [1..NLines -> Nat \ {0}]

-----------------------------------------------------------------------------
(* The merge tree.  A node is the path to it from the root: 0 is a step to *)
(* the low child and 1 a step to the high child.                           *)

Paths == UNION { [1..d -> {0, 1}] : d \in 0..(NThreads - 1) }

Root == << >>
Lo(n) == Append(n, 0)
Hi(n) == Append(n, 1)
Parent(n) == SubSeq(n, 1, Len(n) - 1)

\* The share of x that goes to the low (b = 0) or the high (b = 1) half.
Share(x, b) == IF b = 0 THEN x \div 2 ELSE x - x \div 2

NodeThreads[n \in Paths] ==
  IF n = Root THEN NThreads
              ELSE Share(NodeThreads[Parent(n)], n[Len(n)])

Nodes == { n \in Paths : n = Root \/ NodeThreads[Parent(n)] > 1 }

\* The number of lines a node merges, and where they start in an area.
NodeLines[n \in Paths] ==
  IF n = Root THEN NLines ELSE Share(NodeLines[Parent(n)], n[Len(n)])

NodeStart[n \in Paths] ==
  IF n = Root THEN 0
  ELSE NodeStart[Parent(n)]
         + (IF n[Len(n)] = 0 THEN 0 ELSE NodeLines[Parent(n)] \div 2)

\* MERGE_END is level 0 and MERGE_ROOT level 1.
Level(n) == IF n = End THEN 0 ELSE Len(n) + 1

\* MAX_MERGE: how many lines to merge before looking for other work.
MaxMerge(n) == NLines \div 4^(Level(n) + 1) + 1

\* A thread is named after the node at which it starts: the main thread at the
\* root, each other one at the low child that pthread_create starts it for.
Main == Root
Threads == { n \in Nodes : n = Root \/ n[Len(n)] = 0 }

ASSUME NamesAssumption == End \notin Paths /\ NoThread \notin Paths

\* sort() reserves bytes_per_line for each line: one area per level, or one
\* and a half for a single thread.
Areas == CHOOSE m \in 1..NThreads :
           2^(m - 1) >= NThreads /\ (m = 1 \/ 2^(m - 2) < NThreads)
Cells == 0 .. (IF NThreads > 1 THEN Areas * NLines
                               ELSE (3 * NLines) \div 2) - 1

\* What the divisions of threads and lines come to, equation by equation: the tree is
\* complete, its depth is within that of Paths and there is an area for each of its
\* levels, every share is a number, and a child has its parent's low or high half.
ASSUME TreeAssumption ==
  /\ NodeLines[Root] = NLines /\ NodeStart[Root] = 0
  /\ \A n \in Nodes : NodeThreads[n] > 1 => Lo(n) \in Paths /\ Hi(n) \in Paths
  /\ \A n \in Nodes : NodeLines[n] \in Nat /\ NodeStart[n] \in Nat /\ MaxMerge(n) \in Nat
  /\ Areas \in Nat /\ \A n \in Nodes : Len(n) < Areas
  /\ \A n \in Nodes \ {Root} :
       LET p == Parent(n)
           b == n[Len(n)]
       IN /\ p \in Nodes
          /\ NodeLines[n] = Share(NodeLines[p], b)
          /\ NodeStart[n] = NodeStart[p] + (IF b = 0 THEN 0 ELSE NodeLines[p] \div 2)

-----------------------------------------------------------------------------
(* Lines.  A line is a key with its place in the input; Junk is what a     *)
(* cell holds when no line has been stored in it, or scratch was left.     *)

Line == (Nat \ {0}) \X (Nat \ {0})
Junk == <<0, 0>>

\* A mutant: equal lines are taken from the high side first.
MutLessEq(a, b) == a[1] < b[1]

\* compare() under -s or -u: the keys decide, and equal keys compare equal.
LessEq(a, b) == a[1] <= b[1]

\* The order a stable sort must produce, and the k-th line of a set in it.
Before(a, b) == a[1] < b[1] \/ (a[1] = b[1] /\ a[2] < b[2])
Nth(S, k) ==
  LET kth == { x \in S : Cardinality({ y \in S : Before(y, x) }) = k - 1 }
  IN IF kth = {} THEN Junk ELSE CHOOSE x \in kth : TRUE

-----------------------------------------------------------------------------
VARIABLES
  input,    \* the buffer being sorted (never changes)
  mem,      \* the line cells
  out,      \* the lines written to the output file
  node,     \* the fields of struct merge_node that hold lines
  queued,   \* node->queued
  lock,     \* the owner of node->lock
  queue,    \* how many times each node is in the heap
  pc,       \* where each thread is
  at,       \* the node it works on
  kids,     \* the threads it created and has not joined
  loc       \* the locals of mergelines_node

vars == <<input, mem, out, node, queued, lock, queue, pc, at, kids, loc>>

NodeFields == [lo : Nat, hi : Nat, endLo : Nat, endHi : Nat,
               nlo : Int, nhi : Int]
Locals == [left : Nat, lo0 : Nat, hi0 : Nat, dest : Nat, endLo : Nat, endHi : Nat]
NoLocals == [left |-> 0, lo0 |-> 0, hi0 |-> 0, dest |-> 0, endLo |-> 0, endHi |-> 0]

PCs == {"idle", "call", "leaf", "insert", "pop", "wait", "lock", "merge",
        "drain", "publish", "check", "parent", "unlock", "endunlock",
        "endinsert", "join", "done"}

TypeOK ==
  /\ input \in [1..NLines -> Nat \ {0}]
  /\ mem \in [Cells -> Line \cup {Junk}]
  /\ out \in Seq(Line \cup {Junk})
  /\ node \in [Nodes -> NodeFields]
  /\ queued \in [Nodes \cup {End} -> BOOLEAN]
  /\ lock \in [Nodes \cup {End} -> Threads \cup {NoThread}]
  /\ queue \in [Nodes \cup {End} -> Nat]
  /\ pc \in [Threads -> PCs]
  /\ at \in [Threads -> Nodes \cup {End}]
  /\ kids \in [Threads -> SUBSET Threads]
  /\ loc \in [Threads -> Locals]

InputLine(i) == <<input[i], i>>
InputLines == { InputLine(i) : i \in 1..NLines }

\* Reading a cell outside the buffer yields no line.
Cell(a) == IF a \in Cells THEN mem[a] ELSE Junk

\* init_node: every node of the tree starts with no line available.
InitNode(n) ==
  LET lo == Level(n) * NLines + NodeStart[n]
      nlo == NodeLines[n] \div 2
  IN [lo |-> lo, endLo |-> lo, hi |-> lo + nlo, endHi |-> lo + nlo,
      nlo |-> nlo, nhi |-> NodeLines[n] - nlo]

Init ==
  /\ input \in Inputs
  /\ mem = [a \in Cells |-> IF a < NLines THEN <<input[a + 1], a + 1>> ELSE Junk]
  /\ out = << >>
  /\ node = [n \in Nodes |-> InitNode(n)]
  /\ queued = [n \in Nodes \cup {End} |-> FALSE]
  /\ lock = [n \in Nodes \cup {End} |-> NoThread]
  /\ queue = [n \in Nodes \cup {End} |-> 0]
  /\ pc = [t \in Threads |-> IF t = Main THEN "call" ELSE "idle"]
  /\ at = [t \in Threads |-> t]
  /\ kids = [t \in Threads |-> {}]
  /\ loc = [t \in Threads |-> NoLocals]

-----------------------------------------------------------------------------
(* The heap of nodes with work, guarded by queue->mutex, whose critical    *)
(* sections are single steps.                                              *)

Waiting == { t \in Threads : pc[t] = "wait" }

\* queue_insert by thread t, which then continues at next.  The signal wakes
\* one thread of those that wait, if there is one.
QueueInsert(t, n, next) ==
  /\ queue' = [queue EXCEPT ![n] = @ + 1]
  /\ queued' = [queued EXCEPT ![n] = TRUE]
  /\ IF Waiting = {}
     THEN pc' = [pc EXCEPT ![t] = next]
     ELSE \E w \in Waiting : pc' = [pc EXCEPT ![t] = next, ![w] = "pop"]

Advance(t, next) ==
  /\ pc' = [pc EXCEPT ![t] = next]
  /\ UNCHANGED <<queue, queued>>

\* There are lines to merge at n: both sides have some, or one has and the
\* other has none left to come.
Mergeable(n) ==
  LET nd == node[n] IN
  IF nd.lo # nd.endLo THEN nd.hi # nd.endHi \/ nd.nhi = 0
                      ELSE nd.hi # nd.endHi /\ nd.nlo = 0

\* Mutants: the queued flag is not looked at; a side that has no more lines to
\* come is not told from one that is late.
MutInsertTwice(t, n, next) ==
  IF Mergeable(n) THEN QueueInsert(t, n, next) ELSE Advance(t, next)
MutInsertBoth(t, n, next) ==
  IF ~queued[n] /\ node[n].lo # node[n].endLo /\ node[n].hi # node[n].endHi
  THEN QueueInsert(t, n, next) ELSE Advance(t, next)

\* queue_check_insert by thread t.
QueueCheckInsert(t, n, next) ==
  IF ~queued[n] /\ Mergeable(n) THEN QueueInsert(t, n, next)
                                ELSE Advance(t, next)

-----------------------------------------------------------------------------
(* sortlines: dividing the work.                                           *)

WorthSplitting(n) == NodeThreads[n] > 1 /\ SubthreadLines <= NodeLines[n]

\* pthread_create succeeds: the new thread sorts the low half, this one goes
\* on with the high half.
Split(t) ==
  /\ pc[t] = "call" /\ WorthSplitting(at[t])
  /\ at' = [at EXCEPT ![t] = Hi(at[t])]
  /\ pc' = [pc EXCEPT ![Lo(at[t])] = "call"]
  /\ kids' = [kids EXCEPT ![t] = @ \cup {Lo(at[t])}]
  /\ UNCHANGED <<input, mem, out, node, queued, lock, queue, loc>>

\* One thread is enough, or pthread_create failed.
BecomeLeaf(t) ==
  /\ pc[t] = "call"
  /\ Advance(t, "leaf")
  /\ UNCHANGED <<input, mem, out, node, lock, at, kids, loc>>

\* A mutant: the leaves share their scratch space.
MutTemp(n) == NLines

\* Where the scratch space of a leaf starts: temp = lines - total_lines.
Temp(n) == NLines + NodeStart[n]

\* The leaf sorts its two halves in place, with scratch space in area 1, and
\* records them in its node.
SortLeaf(t) ==
  LET n   == at[t]
      lo  == NodeStart[n]
      nlo == NodeLines[n] \div 2
      nhi == NodeLines[n] - nlo
      hi  == lo + nlo
      loLines == { Cell(c) : c \in lo .. hi - 1 }
      hiLines == { Cell(c) : c \in hi .. hi + nhi - 1 }
      tempHi == Temp(n) + nlo \div 2
      scratch == (IF nlo > 1 THEN Temp(n) .. tempHi - 1 ELSE {})
                   \cup
                 (IF nhi > 1 THEN tempHi .. tempHi + nhi \div 2 - 1 ELSE {})
  IN /\ pc[t] = "leaf"
     /\ mem' = [c \in Cells |-> CASE c \in lo .. hi - 1       -> Nth(loLines, c - lo + 1)
                                  [] c \in hi .. hi + nhi - 1 -> Nth(hiLines, c - hi + 1)
                                  [] c \in scratch            -> Junk
                                  [] OTHER                    -> mem[c]]
     /\ node' = [node EXCEPT ![n].lo = lo, ![n].endLo = hi,
                             ![n].hi = hi, ![n].endHi = hi + nhi]
     /\ Advance(t, "insert")
     /\ UNCHANGED <<input, out, lock, at, kids, loc>>

InsertLeaf(t) ==
  /\ pc[t] = "insert"
  /\ QueueInsert(t, at[t], "pop")
  /\ UNCHANGED <<input, mem, out, node, lock, at, kids, loc>>

-----------------------------------------------------------------------------
(* merge_loop: getting a node.                                             *)

\* queue_pop takes a node out of the heap; it is locked in a later step.
Pop(t) ==
  /\ pc[t] = "pop"
  /\ \E n \in Nodes \cup {End} :
       /\ queue[n] > 0
       /\ queue' = [queue EXCEPT ![n] = @ - 1]
       /\ at' = [at EXCEPT ![t] = n]
  /\ pc' = [pc EXCEPT ![t] = "lock"]
  /\ UNCHANGED <<input, mem, out, node, queued, lock, kids, loc>>

Wait(t) ==
  /\ pc[t] = "pop" /\ \A n \in Nodes \cup {End} : queue[n] = 0
  /\ Advance(t, "wait")
  /\ UNCHANGED <<input, mem, out, node, lock, at, kids, loc>>

\* pthread_cond_wait may return without a signal.
SpuriousWakeup(t) ==
  /\ pc[t] = "wait"
  /\ Advance(t, "pop")
  /\ UNCHANGED <<input, mem, out, node, lock, at, kids, loc>>

\* *node->dest is the end of the lines of a side of the parent.
Dest(n) == IF n[Len(n)] = 0 THEN node[Parent(n)].endLo ELSE node[Parent(n)].endHi

\* lock_node at the end of queue_pop, and the first lines of mergelines_node.
LockNode(t) ==
  LET n == at[t] IN
  /\ pc[t] = "lock" /\ lock[n] = NoThread
  /\ lock' = [lock EXCEPT ![n] = t]
  /\ queued' = [queued EXCEPT ![n] = FALSE]
  /\ IF n = End
     THEN pc' = [pc EXCEPT ![t] = "endunlock"] /\ UNCHANGED loc
     ELSE /\ pc' = [pc EXCEPT ![t] = "merge"]
          /\ loc' = [loc EXCEPT ![t] =
                [left |-> MaxMerge(n), lo0 |-> node[n].lo, hi0 |-> node[n].hi,
                 dest |-> IF n = Root THEN 0 ELSE Dest(n),
                 endLo |-> node[n].endLo, endHi |-> node[n].endHi]]
  /\ UNCHANGED <<input, mem, out, node, queue, at, kids>>

-----------------------------------------------------------------------------
(* mergelines_node: one line at a time.  A child may move the ends of the  *)
(* available lines meanwhile, in a race with the loops that compare with   *)
(* them: an end is either read anew for each line or kept in a register    *)
(* since the start of the loop (loc.endLo, loc.endHi), as "node" is        *)
(* restrict.  Stores are taken to become visible in the order of the code. *)

\* A mutant: of equal lines the last one is kept.
MutWriteLast(l) ==
  IF Unique /\ out # << >> /\ out[Len(out)][1] = l[1]
  THEN [out EXCEPT ![Len(out)] = l] ELSE Append(out, l)

\* write_unique
WriteUnique(l) ==
  IF Unique /\ out # << >> /\ out[Len(out)][1] = l[1] THEN out ELSE Append(out, l)

\* Store a line: to the output at the root, else to the destination.
Emit(t, l) ==
  IF at[t] = Root
  THEN /\ out' = WriteUnique(l)
       /\ loc' = [loc EXCEPT ![t].left = @ - 1]
       /\ UNCHANGED mem
  ELSE /\ mem' = [mem EXCEPT ![loc[t].dest] = l]
       /\ loc' = [loc EXCEPT ![t].left = @ - 1, ![t].dest = @ + 1]
       /\ UNCHANGED out

TakeLo(t) ==
  /\ Emit(t, Cell(node[at[t]].lo))
  /\ node' = [node EXCEPT ![at[t]].lo = @ + 1]

TakeHi(t) ==
  /\ Emit(t, Cell(node[at[t]].hi))
  /\ node' = [node EXCEPT ![at[t]].hi = @ + 1]

BothAvailable(n) == node[n].lo # node[n].endLo /\ node[n].hi # node[n].endHi

\* An iteration of the first loop.
MergeLine(t) ==
  LET nd == node[at[t]] IN
  /\ pc[t] = "merge" /\ BothAvailable(at[t]) /\ loc[t].left > 0
  /\ IF LessEq(Cell(nd.lo), Cell(nd.hi)) THEN TakeLo(t) ELSE TakeHi(t)
  /\ UNCHANGED <<input, queued, lock, queue, pc, at, kids>>

\* A side has no lines available, or had none when its end was read.
LoEmpty(t) == node[at[t]].lo \in {node[at[t]].endLo, loc[t].endLo}
HiEmpty(t) == node[at[t]].hi \in {node[at[t]].endHi, loc[t].endHi}

\* The first loop ends.  When it ends because to_merge is 0, the decrement in
\* its condition has wrapped to_merge around.
MergeEnd(t) ==
  /\ pc[t] = "merge"
  /\ \E left \in {loc[t].left, SizeMax}, endLo \in {loc[t].endLo, node[at[t]].endLo},
                     endHi \in {loc[t].endHi, node[at[t]].endHi} :
       /\ \/ (LoEmpty(t) \/ HiEmpty(t)) /\ left = loc[t].left
          \/ BothAvailable(at[t]) /\ loc[t].left = 0 /\ left = SizeMax
       /\ loc' = [loc EXCEPT ![t].left = left, ![t].endLo = endLo, ![t].endHi = endHi]
  /\ Advance(t, "drain")
  /\ UNCHANGED <<input, mem, out, node, lock, at, kids>>

HiExhausted(t) == node[at[t]].nhi = node[at[t]].hi - loc[t].hi0
LoExhausted(t) == node[at[t]].nlo = node[at[t]].lo - loc[t].lo0

\* A mutant: to_merge is not looked at.
MutCanDrainLo(t) == HiExhausted(t) /\ node[at[t]].lo # node[at[t]].endLo

CanDrainLo(t) ==
  HiExhausted(t) /\ node[at[t]].lo # node[at[t]].endLo /\ loc[t].left > 0
CanDrainHi(t) ==
  /\ ~HiExhausted(t) /\ LoExhausted(t)
  /\ node[at[t]].hi # node[at[t]].endHi /\ loc[t].left > 0

\* An iteration of the second loop: one side has no more lines to come.
DrainLine(t) ==
  /\ pc[t] = "drain"
  /\ \/ CanDrainLo(t) /\ TakeLo(t)
     \/ CanDrainHi(t) /\ TakeHi(t)
  /\ UNCHANGED <<input, queued, lock, queue, pc, at, kids>>

DrainEnd(t) ==
  /\ pc[t] = "drain"
  /\ \/ ~CanDrainLo(t) /\ ~CanDrainHi(t)
     \/ CanDrainLo(t) /\ LoEmpty(t)
     \/ CanDrainHi(t) /\ HiEmpty(t)
  /\ Advance(t, "publish")
  /\ UNCHANGED <<input, mem, out, node, lock, at, kids, loc>>

\* *node->dest = dest, stored without the parent's lock, and the counts of the
\* lines that remain.
Publish(t) ==
  LET n  == at[t]
      p  == Parent(n)
      nd == [node[n] EXCEPT !.nlo = @ - (node[n].lo - loc[t].lo0),
                            !.nhi = @ - (node[n].hi - loc[t].hi0)]
  IN /\ pc[t] = "publish"
     /\ node' = IF n = Root THEN [node EXCEPT ![n] = nd]
                ELSE IF n[Len(n)] = 0
                THEN [node EXCEPT ![n] = nd, ![p].endLo = loc[t].dest]
                ELSE [node EXCEPT ![n] = nd, ![p].endHi = loc[t].dest]
     /\ loc' = [loc EXCEPT ![t] = NoLocals]
     /\ Advance(t, "check")
     /\ UNCHANGED <<input, mem, out, lock, at, kids>>

-----------------------------------------------------------------------------
(* merge_loop: putting nodes that can be worked on into the heap.          *)

CheckSelf(t) ==
  /\ pc[t] = "check"
  /\ QueueCheckInsert(t, at[t], "parent")
  /\ UNCHANGED <<input, mem, out, node, lock, at, kids, loc>>

RootFinished == node[Root].nlo + node[Root].nhi = 0

\* queue_check_insert_parent, which holds the parent's lock while it looks.
CheckParent(t) ==
  LET n == at[t] IN
  /\ pc[t] = "parent"
  /\ IF n # Root
     THEN lock[Parent(n)] = NoThread /\ QueueCheckInsert(t, Parent(n), "unlock")
     ELSE IF RootFinished THEN QueueInsert(t, End, "unlock")
                          ELSE Advance(t, "unlock")
  /\ UNCHANGED <<input, mem, out, node, lock, at, kids, loc>>

UnlockNode(t) ==
  /\ pc[t] = "unlock"
  /\ lock' = [lock EXCEPT ![at[t]] = NoThread]
  /\ Advance(t, "pop")
  /\ UNCHANGED <<input, mem, out, node, at, kids, loc>>

-----------------------------------------------------------------------------
(* merge_loop: MERGE_END was popped; sortlines returns.                    *)

EndUnlock(t) ==
  /\ pc[t] = "endunlock"
  /\ lock' = [lock EXCEPT ![at[t]] = NoThread]
  /\ Advance(t, "endinsert")
  /\ UNCHANGED <<input, mem, out, node, at, kids, loc>>

\* A mutant: MERGE_END is not put back.
MutEndInsert(t) ==
  /\ pc[t] = "endinsert"
  /\ Advance(t, "join")
  /\ UNCHANGED <<input, mem, out, node, lock, at, kids, loc>>

\* Reinsert MERGE_END so that other threads can pop it.
EndInsert(t) ==
  /\ pc[t] = "endinsert"
  /\ QueueInsert(t, at[t], "join")
  /\ UNCHANGED <<input, mem, out, node, lock, at, kids, loc>>

\* pthread_join, the thread created last first.
Join(t) ==
  /\ pc[t] = "join"
  /\ \E k \in kids[t] :
       /\ \A j \in kids[t] : Len(j) <= Len(k)
       /\ pc[k] = "done"
       /\ kids' = [kids EXCEPT ![t] = @ \ {k}]
  /\ UNCHANGED <<input, mem, out, node, queued, lock, queue, pc, at, loc>>

\* A mutant: sortlines returns without joining the thread it created.
MutReturn(t) ==
  /\ pc[t] = "join"
  /\ Advance(t, "done")
  /\ UNCHANGED <<input, mem, out, node, lock, at, kids, loc>>

Return(t) ==
  /\ pc[t] = "join" /\ kids[t] = {}
  /\ Advance(t, "done")
  /\ UNCHANGED <<input, mem, out, node, lock, at, kids, loc>>

-----------------------------------------------------------------------------
Step(t) ==
  \/ Split(t) \/ BecomeLeaf(t) \/ SortLeaf(t) \/ InsertLeaf(t)
  \/ Pop(t) \/ Wait(t) \/ LockNode(t)
  \/ MergeLine(t) \/ MergeEnd(t) \/ DrainLine(t) \/ DrainEnd(t) \/ Publish(t)
  \/ CheckSelf(t) \/ CheckParent(t) \/ UnlockNode(t)
  \/ EndUnlock(t) \/ EndInsert(t) \/ Join(t) \/ Return(t)

\* The sort is over: merge_tree_destroy follows.
Finished == pc[Main] = "done" /\ UNCHANGED vars

Next == (\E t \in Threads : Step(t) \/ SpuriousWakeup(t)) \/ Finished

Spec == Init /\ [][Next]_vars

\* Every thread that can take a step is scheduled; nothing makes a spurious
\* wakeup happen.
FairSpec == Spec /\ \A t \in Threads : WF_vars(Step(t))

-----------------------------------------------------------------------------
(* Properties.                                                             *)

\* What sort must write: the lines in stable order, with -u only the first of
\* those that compare equal.
StableOrder[keys \in Inputs] ==
  LET first == { i \in 1..NLines : Unique => \A j \in 1..(i - 1) : keys[j] # keys[i] }
      lines == { <<keys[i], i>> : i \in first }
  IN [k \in 1..Cardinality(lines) |-> Nth(lines, k)]
Expected == StableOrder[input]

Sort == INSTANCE StableSort WITH expected <- Expected

\* However the threads interleave, the lines come out one by one in the order
\* of the stable sort, none early, lost or twice (mergelines_node writes to the
\* output while other threads still deliver lines to the root), and in the end
\* all of them have come out.
ImplementsStableSort == Sort!FairSpec

\* A node is in the heap, or popped and not yet locked, at most once: two
\* threads are never handed the same node (queue_pop clears node->queued only
\* after it has left the queue's mutex and locked the node).
HandedTo(n) == { t \in Threads : pc[t] = "lock" /\ at[t] = n }
NodeHandedOnce ==
  \A n \in Nodes : queue[n] + Cardinality(HandedTo(n)) <= 1

\* Why a node is handed out once, as an inductive invariant.  Places: where a
\* thread is on a node of the tree.  Fresh: below a thread that still divides or
\* sorts, nothing has been queued and no other thread works, so its insertion of
\* the leaf, which does not look at node->queued, cannot be a second one.
\* Handed: node->queued stays set from the insertion until the node is locked.
Under(n, m) == Len(n) <= Len(m) /\ \A i \in 1..Len(n) : m[i] = n[i]
Descending(t) == pc[t] \in {"call", "leaf", "insert"}
Merging(t) == pc[t] \in {"merge", "drain", "publish", "check", "parent", "unlock"}
Ending(t) == pc[t] \in {"endunlock", "endinsert"}

Places ==
  \A t \in Threads :
    /\ pc[t] = "idle" => at[t] = t
    /\ Descending(t) => at[t] \in Nodes /\ Len(t) <= Len(at[t])
    /\ Merging(t) => at[t] \in Nodes
    /\ Ending(t) => at[t] = End

Fresh ==
  \A t \in Threads : Descending(t) =>
    /\ \A m \in Nodes : Under(at[t], m) =>
         /\ ~queued[m] /\ queue[m] = 0
         /\ \A u \in Threads : at[u] = m => u = t \/ pc[u] = "idle"
    /\ \A u \in Threads : Under(at[t], u) /\ u # at[t] => pc[u] = "idle"

Handed ==
  \A n \in Nodes :
    /\ queue[n] <= 1
    /\ queue[n] = 1 => queued[n]
    /\ \A t \in HandedTo(n) :
         queued[n] /\ queue[n] = 0 /\ \A u \in HandedTo(n) : u = t

HandOver == Places /\ Fresh /\ Handed

\* The cells that hold lines not yet written: the lines available to each node,
\* those a thread has merged but not yet published, and those that a thread
\* still has to sort.
InFlight(t) ==
  IF pc[t] \in {"merge", "drain", "publish"} /\ at[t] # Root
  THEN Dest(at[t]) .. loc[t].dest - 1 ELSE {}
Unsorted(t) ==
  IF pc[t] \in {"call", "leaf"}
  THEN NodeStart[at[t]] .. NodeStart[at[t]] + NodeLines[at[t]] - 1 ELSE {}
Available(n) ==
  (node[n].lo .. node[n].endLo - 1) \cup (node[n].hi .. node[n].endHi - 1)
LiveCells ==
  (UNION { Available(n) : n \in Nodes })
    \cup (UNION { InFlight(t) \cup Unsorted(t) : t \in Threads })

\* Every input line is in exactly one live cell or in the output, where with -u
\* a line may be missing if an equal one is there: no merge overwrites a line
\* that is still needed, and no scratch space overlaps one (init_node's areas,
\* sortlines' temp).
Written == { out[i] : i \in DOMAIN out }
LinesConserved ==
  LET cells == LiveCells
      live  == { Cell(c) : c \in cells }
      safe  == live \cup Written
  IN
  /\ Cardinality(live) = Cardinality(cells)
  /\ live \cap Written = {}
  /\ safe \subseteq InputLines
  /\ \A l \in InputLines \ safe : Unique /\ \E m \in Written : m[1] = l[1]

\* A node that has lines to merge is in the heap, or some thread is bound to put
\* it there: its holder, or one that has just delivered lines to it.  Likewise
\* MERGE_END once the root has merged all its lines.  Otherwise all threads
\* could end up waiting (queue_check_insert and queue_check_insert_parent).
HasWork(n) ==
  LET lo == node[n].endLo - node[n].lo
      hi == node[n].endHi - node[n].hi
  IN lo + hi > 0 /\ (lo > 0 \/ node[n].nlo = 0) /\ (hi > 0 \/ node[n].nhi = 0)
AttendedTo(n) ==
  \/ queue[n] > 0
  \/ \E t \in Threads :
       \/ at[t] = n /\ pc[t] \in {"insert", "lock", "merge", "drain", "publish", "check"}
       \/ at[t] \notin {Root, End} /\ Parent(at[t]) = n /\ pc[t] \in {"check", "parent"}
EndAttendedTo ==
  \/ queue[End] > 0
  \/ \E t \in Threads :
       \/ at[t] = End /\ pc[t] \in {"lock", "endunlock", "endinsert"}
       \/ at[t] = Root /\ pc[t] \in {"check", "parent"}
NoStrandedWork ==
  /\ \A n \in Nodes : HasWork(n) => AttendedTo(n)
  /\ node[Root].nlo + node[Root].nhi = 0 => EndAttendedTo

\* MERGE_END is handed out, and a thread leaves its merge loop, only when every
\* line has been written.
EndAfterOutput ==
  queue[End] > 0 \/ (\E t \in Threads : at[t] = End) => out = Expected

\* When sortlines returns to sort(), which then destroys the queue and the tree,
\* no thread is left that could touch them and no lock is held.
DestroyedUnused ==
  pc[Main] = "done" =>
    /\ \A t \in Threads : pc[t] \in {"idle", "done"}
    /\ \A n \in Nodes \cup {End} : lock[n] = NoThread

\* Every thread that was started comes to its end, so that sort() goes on.
SortlinesReturns == <>[](\A t \in Threads : pc[t] \in {"idle", "done"})
=============================================================================
