---------------------------- MODULE SortOrderProofs ----------------------------
(***************************************************************************)
(* Theorems about SortMerge, for any number of threads and lines and any   *)
(* buffer: the parallel sort writes what a stable sort of the buffer       *)
(* would, line by line, and the merge ends only when all is written.       *)
(***************************************************************************)
EXTENDS SortLinesProofs

USE SizesAssumption

-----------------------------------------------------------------------------
(* The inductive invariant.                                                *)

\* The place of a line in the input, counted as the cells are.
Origin(l) == l[2] - 1

\* Two lines of n's share come from one half of it.
SameHalf(n, k, l) == Origin(k) < Middle(n) <=> Origin(l) < Middle(n)

\* Cell c holds a line for n to merge, be it available or on its way from a child.
Arrives(c, n) ==
  c \in Available(n) \/ \E u \in Threads : c \in InFlight(u) /\ Parent(at[u]) = n

\* A line arrives at the nodes that have its place in their share, on the side of
\* the half it comes from; an unsorted one has not moved.
Placed ==
  /\ \A n \in Nodes, c \in Cells : Arrives(c, n) =>
       /\ Within(Origin(mem[c]), n)
       /\ c < Base(n) + Half(n) <=> Origin(mem[c]) < Middle(n)
  /\ \A u \in Threads : \A c \in Unsorted(u) : Origin(mem[c]) = c

\* The lines of one half of n come in order: one behind the other at n, and behind
\* them those that have come to the nodes below.
InOrder ==
  \A n, m \in Nodes, c, d \in Cells :
    /\ Under(n, m) /\ Arrives(c, n) /\ Arrives(d, m)
    /\ SameHalf(n, mem[c], mem[d])
    /\ n = m => c < d
    => Before(mem[c], mem[d])

\* The lines to write: with -u the first of each key.
Firsts ==
  { l \in InputLines : Unique => \A k \in InputLines : k[1] = l[1] => l[2] <= k[2] }

\* The first of them have been written, in order, and before all that are left.
Prefix ==
  /\ \A i \in 1 .. Len(out) : out[i] \in Firsts /\ Rank(Firsts, out[i]) = i - 1
  /\ \A l \in Written, c \in LiveCells : Before(l, mem[c])

Order == Placed /\ InOrder /\ Prefix

-----------------------------------------------------------------------------
(* Lines, and the cells they arrive in.                                    *)

LEMMA LineNumbers ==
  ASSUME TypeOK, NEW l \in InputLines
  PROVE  /\ l \in Line /\ l[1] \in Nat /\ l[2] \in Nat /\ Origin(l) \in Nat
         /\ Origin(l) < NLines /\ l = InputLine(l[2])
<1>1. PICK i \in 1..NLines : l = <<input[i], i>>
  BY DEF InputLines, InputLine
<1>2. input[i] \in Nat \ {0}
  BY DEF TypeOK
<1> QED
  BY <1>1, <1>2 DEF Line, Origin, InputLine

LEMMA BeforeAfter ==
  ASSUME TypeOK, NEW k \in InputLines, NEW l \in InputLines
  PROVE  /\ k = l \/ Before(k, l) \/ Before(l, k)
         /\ ~(Before(k, l) /\ Before(l, k)) /\ ~Before(k, k)
<1>1. k = <<k[1], k[2]>> /\ l = <<l[1], l[2]>>
  BY LineNumbers DEF InputLine
<1>2. k[1] \in Nat /\ k[2] \in Nat /\ l[1] \in Nat /\ l[2] \in Nat
  BY LineNumbers
<1>3. k[2] = l[2] => k = l
  BY LineNumbers
<1> QED
  BY <1>2, <1>3 DEF Before

LEMMA BeforeTrans ==
  ASSUME TypeOK, NEW j \in InputLines, NEW k \in InputLines, NEW l \in InputLines,
         Before(j, k), Before(k, l)
  PROVE  Before(j, l)
<1>1. /\ j[1] \in Nat /\ j[2] \in Nat /\ k[1] \in Nat /\ k[2] \in Nat
      /\ l[1] \in Nat /\ l[2] \in Nat
  BY LineNumbers
<1> QED
  BY <1>1 DEF Before

LEMMA LiveLine ==
  ASSUME Facts, Layout, Conserved, NEW c \in LiveCells
  PROVE  c \in Cells /\ mem[c] \in InputLines /\ Cell(c) = mem[c]
BY LiveCellsAreCells DEF Conserved, OneEach, Cell

\* What comes to a node lies in its share of the area it merges, behind what it
\* has merged of that side.
LEMMA ArrivesIn ==
  ASSUME Facts, Layout, NEW n \in Nodes, NEW c, Arrives(c, n)
  PROVE  /\ c \in LiveCells /\ c \in Cells /\ c \in Nat /\ In(c, Area(n), n)
         /\ c < Base(n) + Half(n) => node[n].lo <= c
         /\ Base(n) + Half(n) <= c => node[n].hi <= c
<1>0. Base(n) \in Nat /\ Half(n) \in Nat
  BY Starts, Numbers
<1>1. CASE c \in Available(n)
  <2>1. c \in LiveCells
    BY <1>1, LiveCell
  <2>2. /\ c \in Nat /\ In(c, Area(n), n)
        /\ \/ node[n].lo <= c /\ c < Base(n) + Half(n)
           \/ node[n].hi <= c /\ Base(n) + Half(n) <= c
    BY <1>1, AvailableIn
  <2> QED
    BY <1>0, <2>1, <2>2, LiveCellsAreCells
<1>2. ASSUME NEW u \in Threads, c \in InFlight(u), Parent(at[u]) = n
      PROVE  /\ c \in LiveCells /\ c \in Cells /\ c \in Nat /\ In(c, Area(n), n)
             /\ c < Base(n) + Half(n) => node[n].lo <= c
             /\ Base(n) + Half(n) <= c => node[n].hi <= c
  <2> DEFINE x == at[u]
  <2>1. c \in LiveCells /\ c \in Cells
    BY <1>2, LiveCell, LiveCellsAreCells
  <2>2. /\ Working(u) /\ x \in Nodes /\ x # Root
        /\ c \in Nat /\ Dest(x) <= c /\ In(c, Len(x), x)
    BY <1>2, InFlightIn
  <2>3. ~Sorted(n) /\ Dest(x) \in Nat /\ Drop(x) <= Dest(x) /\ loc[u].dest <= Drop(x) + NodeLines[x]
    BY <1>2, <2>2, InDest
  <2>4. /\ Len(x) = Len(n) + 1 /\ x[Len(x)] \in {0, 1}
        /\ x[Len(x)] = 0 => NodeStart[x] = NodeStart[n] /\ Stop(x) = Middle(n)
        /\ x[Len(x)] = 1 => NodeStart[x] = Middle(n) /\ Stop(x) = Stop(n)
    BY <1>2, <2>2, ChildShare
  <2>5. /\ x[Len(x)] = 0 => Drop(x) = Base(n) /\ NodeLines[x] = Half(n)
        /\ x[Len(x)] # 0 => Drop(x) = Base(n) + Half(n)
    BY <1>2, <2>2, <2>3, DropIsSide
  <2>6. Area(n) = Len(x)
    BY <2>3, <2>4, Starts DEF Area
  <2>7. In(c, Area(n), n)
    <3>1. Within(c - Len(x) * NLines, x)
      BY <2>2 DEF In
    <3>2. c - Len(x) * NLines \in Int
      BY <2>2, AreaNumber, NodesAreSequences
    <3>3. /\ NodeStart[n] \in Nat /\ Middle(n) \in Nat /\ Stop(n) \in Nat
          /\ NodeStart[n] <= Middle(n) /\ Middle(n) <= Stop(n)
      BY Bounds
    <3>4. Within(c - Len(x) * NLines, n)
      BY <2>4, <3>1, <3>2, <3>3 DEF Within
    <3> QED
      BY <2>6, <3>4 DEF In
  <2>8. /\ node[n].lo \in Nat /\ node[n].hi \in Nat /\ node[n].endLo \in Nat /\ node[n].endHi \in Nat
        /\ node[n].lo <= node[n].endLo /\ node[n].hi <= node[n].endHi
    BY Pointers DEF Layout, Shape, Chain, Facts
  <2>9. CASE x[Len(x)] = 0
    <3>1. node[n].lo <= c
      BY <1>2, <2>2, <2>8, <2>9 DEF Dest
    <3>2. c < Base(n) + Half(n)
      <4>1. c < loc[u].dest /\ loc[u].dest \in Nat
        BY <1>2, InFlightIn, LocalNumbers DEF Facts
      <4> QED
        BY <1>0, <2>2, <2>3, <2>5, <2>9, <4>1
    <3> QED
      BY <1>0, <2>1, <2>2, <2>7, <3>1, <3>2
  <2>10. CASE x[Len(x)] # 0
    <3>1. node[n].hi <= c
      BY <1>2, <2>2, <2>8, <2>10 DEF Dest
    <3>2. Base(n) + Half(n) <= c
      BY <1>0, <2>2, <2>3, <2>5, <2>10
    <3> QED
      BY <1>0, <2>1, <2>2, <2>7, <3>1, <3>2
  <2> QED
    BY <2>9, <2>10
<1> QED
  BY <1>1, <1>2 DEF Arrives

-----------------------------------------------------------------------------
(* A side that has been merged to its end: nothing is left below it.       *)

\* Node x has merged all its lines.
Emptied(x) == node[x].lo = Base(x) + Half(x) /\ node[x].hi = Base(x) + NodeLines[x]

\* Once a node has merged all lines of a side, the child has delivered all.
LEMMA AllDelivered ==
  ASSUME Facts, Layout, NEW x \in Nodes, x # Root, ~Sorted(Parent(x)),
         LET p == Parent(x)
         IN IF x[Len(x)] = 0 THEN node[p].lo = Base(p) + Half(p)
                             ELSE node[p].hi = Base(p) + NodeLines[p]
  PROVE  Dest(x) = Drop(x) + NodeLines[x]
<1> DEFINE p == Parent(x)
           b == Base(p)
           h == Half(p)
<1>1. p \in Nodes
  BY ParentIsNode
<1>2. /\ node[p].lo \in Nat /\ node[p].hi \in Nat /\ node[p].endLo \in Nat /\ node[p].endHi \in Nat
      /\ b \in Nat /\ h \in Nat /\ NodeLines[p] \in Nat
  BY <1>1, Pointers, Starts, Numbers DEF Facts
<1>3. /\ node[p].lo <= node[p].endLo /\ node[p].endLo <= b + h
      /\ node[p].hi <= node[p].endHi /\ node[p].endHi <= b + NodeLines[p]
  BY <1>1 DEF Layout, Shape, Chain
<1>4. /\ x[Len(x)] = 0 => Drop(x) = b /\ NodeLines[x] = h
      /\ x[Len(x)] # 0 => Drop(x) = b + h /\ NodeLines[x] = NodeLines[p] - h
  BY DropIsSide
<1>5. Dest(x) = (IF x[Len(x)] = 0 THEN node[p].endLo ELSE node[p].endHi)
  BY DEF Dest
<1>6. IF x[Len(x)] = 0 THEN node[p].lo = b + h ELSE node[p].hi = b + NodeLines[p]
  OBVIOUS
<1> HIDE DEF p, b, h
<1>7. CASE x[Len(x)] = 0
  BY <1>2, <1>3, <1>4, <1>5, <1>6, <1>7
<1>8. CASE x[Len(x)] # 0
  BY <1>2, <1>3, <1>4, <1>5, <1>6, <1>8
<1> QED
  BY <1>7, <1>8


LEMMA NoneToCome ==
  ASSUME NEW d \in Nat, NEW e \in Nat, NEW u \in Int, NEW v \in Int, d + e = d + e - u - v
  PROVE  u + v = 0
OBVIOUS

\* A child that has delivered all has nothing left, and no merge under way there.
LEMMA Drained ==
  ASSUME Facts, Layout, NEW x \in Nodes, x # Root, ~Sorted(Parent(x)),
         Dest(x) = Drop(x) + NodeLines[x]
  PROVE  /\ Emptied(x)
         /\ \A u \in Threads : at[u] = x => InFlight(u) = {}
<1> DEFINE b == Base(x)
           h == Half(x)
           e == NodeLines[x]
           d == Drop(x)
<1>1. /\ node[x].lo \in Nat /\ node[x].hi \in Nat /\ node[x].endLo \in Nat /\ node[x].endHi \in Nat
      /\ node[x].nlo \in Int /\ node[x].nhi \in Int
      /\ b \in Nat /\ h \in Nat /\ e \in Nat /\ h <= e /\ d \in Nat
  BY Pointers, Starts, Numbers DEF Facts
<1>2. /\ node[x].lo <= b + h /\ node[x].hi <= b + e
  <2>1. /\ node[x].lo <= node[x].endLo /\ node[x].endLo <= b + h
        /\ node[x].hi <= node[x].endHi /\ node[x].endHi <= b + e
    BY DEF Layout, Shape, Chain
  <2> HIDE DEF b, h, e
  <2> QED
    BY <1>1, <2>1
<1>3. d + e = d + e - node[x].nlo - node[x].nhi
  BY DEF Layout, Shape, Delivered
<1>4. Left(x) /\ \A u \in Threads : Taken(u)
  BY DEF Layout, Shape
<1> DEFINE nlo == node[x].nlo
           nhi == node[x].nhi
<1>8. nlo + nhi = 0 /\ nlo \in Int /\ nhi \in Int
  <2>1. d + e = d + e - nlo - nhi
    BY <1>3
  <2> HIDE DEF d, e, nlo, nhi
  <2> QED
    BY <1>1, <2>1, NoneToCome DEF nlo, nhi
<1>5. ASSUME NEW u \in Threads, Working(u), at[u] = x
      PROVE  Emptied(x) /\ InFlight(u) = {}
  <2>1. /\ node[x].nlo = b + h - loc[u].lo0 /\ loc[u].lo0 <= node[x].lo
        /\ node[x].nhi = b + e - loc[u].hi0 /\ loc[u].hi0 <= node[x].hi
        /\ loc[u].dest = d + (node[x].lo - b) + (node[x].hi - b - h)
    BY <1>4, <1>5 DEF Taken
  <2>2. loc[u].lo0 \in Nat /\ loc[u].hi0 \in Nat /\ loc[u].dest \in Nat
    BY LocalNumbers DEF Facts
  <2> HIDE DEF b, h, e, d
  <2> DEFINE lo0 == loc[u].lo0
             hi0 == loc[u].hi0
  <2>3. node[x].lo = b + h /\ node[x].hi = b + e
    <3>1. nlo = b + h - lo0 /\ lo0 <= node[x].lo /\ nhi = b + e - hi0 /\ hi0 <= node[x].hi
      BY <2>1
    <3>2. lo0 \in Nat /\ hi0 \in Nat
      BY <2>2
    <3> HIDE DEF nlo, nhi, lo0, hi0
    <3>3. 0 <= nlo
      BY <1>1, <1>2, <3>1, <3>2
    <3>4. 0 <= nhi
      BY <1>1, <1>2, <3>1, <3>2
    <3>5. nlo = 0 /\ nhi = 0
      BY <1>8, <3>3, <3>4
    <3>6. node[x].lo = b + h
      BY <1>1, <1>2, <3>1, <3>2, <3>5
    <3>7. node[x].hi = b + e
      BY <1>1, <1>2, <3>1, <3>2, <3>5
    <3> QED
      BY <3>6, <3>7
  <2>4. loc[u].dest = d + e
    BY <1>1, <2>1, <2>2, <2>3
  <2>5. InFlight(u) \subseteq Dest(x) .. loc[u].dest - 1
    BY <1>5 DEF InFlight
  <2>6. InFlight(u) = {}
    <3>1. Dest(x) = d + e
      BY DEF d, e
    <3>2. d + e \in Nat
      BY <1>1
    <3>3. Dest(x) .. loc[u].dest - 1 = {}
      BY <2>4, <3>1, <3>2
    <3> QED
      BY <2>5, <3>3
  <2> QED
    BY <2>3, <2>6 DEF Emptied, b, h, e
<1>6. CASE \A u \in Threads : ~(Working(u) /\ at[u] = x)
  <2>1. node[x].nlo = b + h - node[x].lo /\ node[x].nhi = b + e - node[x].hi
    BY <1>4, <1>6 DEF Left
  <2>2. \A u \in Threads : at[u] = x => InFlight(u) = {}
    BY <1>6 DEF InFlight, Working
  <2> HIDE DEF b, h, e, d
  <2>3. nlo = b + h - node[x].lo /\ nhi = b + e - node[x].hi
    BY <2>1
  <2> HIDE DEF nlo, nhi
  <2>4. node[x].lo = b + h /\ node[x].hi = b + e
    <3>1. 0 <= nlo
      BY <1>1, <1>2, <2>3
    <3>2. 0 <= nhi
      BY <1>1, <1>2, <2>3
    <3>3. nlo = 0 /\ nhi = 0
      BY <1>8, <3>1, <3>2
    <3>4. node[x].lo = b + h
      <4> DEFINE lo == node[x].lo
      <4>1. 0 = b + h - lo /\ lo \in Nat /\ b \in Nat /\ h \in Nat
        BY <1>1, <2>3, <3>3
      <4> HIDE DEF lo
      <4>2. lo = b + h
        BY <4>1
      <4> QED
        BY <4>2 DEF lo
    <3>5. node[x].hi = b + e
      <4> DEFINE hi == node[x].hi
      <4>1. 0 = b + e - hi /\ hi \in Nat /\ b \in Nat /\ e \in Nat
        BY <1>1, <2>3, <3>3
      <4> HIDE DEF hi
      <4>2. hi = b + e
        BY <4>1
      <4> QED
        BY <4>2 DEF hi
    <3> QED
      BY <3>4, <3>5
  <2> QED
    BY <2>2, <2>4 DEF Emptied, b, h, e
<1>7. \A u \in Threads : ~Working(u) => InFlight(u) = {}
  BY DEF InFlight, Working
<1> QED
  BY <1>5, <1>6, <1>7

LEMMA AllDeliveredFromEmptied ==
  ASSUME Facts, Layout, NEW x \in Nodes, x # Root, ~Sorted(Parent(x)), Emptied(Parent(x))
  PROVE  Dest(x) = Drop(x) + NodeLines[x]
BY AllDelivered DEF Emptied

\* Below a node that has merged all its lines, all others have as well, down to
\* the leaves.
LEMMA EmptiedBelow ==
  ASSUME Facts, Layout, NEW x \in Nodes, Emptied(x), NEW m \in Nodes, Under(x, m),
         \A a \in Nodes : Under(x, a) /\ Strictly(a, m) => ~Sorted(a)
  PROVE  Emptied(m)
<1> DEFINE Bad(y) == Under(x, y) /\ Under(y, m) /\ ~Emptied(y)
           bad == { Len(y) : y \in { z \in Nodes : Bad(z) } }
<1> SUFFICES ASSUME bad # {} PROVE FALSE
  BY UnderItself
<1>1. bad \in SUBSET Nat
  BY NodesAreSequences
<1>2. PICK d \in bad : \A e \in bad : d <= e
  BY <1>1, Least
<1>3. PICK y \in Nodes : Bad(y) /\ Len(y) = d
  BY <1>2
<1> DEFINE p == Parent(y)
<1>4. Strictly(x, y)
  BY <1>3 DEF Strictly
<1>5. y # Root /\ p \in Nodes /\ Under(x, p) /\ Strictly(p, y) /\ Len(y) = Len(p) + 1
  BY <1>4, AboveParent, ChildShare
<1>6. Len(p) \in Nat /\ Len(y) \in Nat /\ Len(m) \in Nat
  BY <1>5, NodesAreSequences
<1>7. Under(p, m)
  <2>1. Len(p) <= Len(m)
    BY <1>3, <1>5, <1>6 DEF Under
  <2>2. \A i \in 1..Len(p) : m[i] = p[i]
    BY <1>3, <1>5, <1>6 DEF Under, Strictly
  <2> QED
    BY <2>1, <2>2 DEF Under
<1>8. p # m
  BY <1>3, <1>5, <1>6 DEF Under
<1>9. ~Sorted(p)
  BY <1>5, <1>7, <1>8 DEF Strictly
<1>10. Emptied(p)
  <2>1. ~(Len(p) \in bad)
    BY <1>2, <1>3, <1>5, <1>6
  <2> QED
    BY <1>5, <1>7, <2>1
<1>11. Emptied(y)
  BY <1>5, <1>9, <1>10, AllDeliveredFromEmptied, Drained
<1> QED
  BY <1>3, <1>11

\* So that no line below it is live.
LEMMA NothingBelow ==
  ASSUME Facts, Layout, NEW x \in Nodes, Emptied(x)
  PROVE  /\ \A m \in Nodes : Under(x, m) => \A c : ~Arrives(c, m)
         /\ \A u \in Threads : at[u] \in Nodes /\ Under(x, at[u]) => Unsorted(u) = {}
<1>1. ASSUME NEW m \in Nodes, Under(x, m), NEW c, c \in Available(m)
      PROVE  FALSE
  <2>1. /\ c \in Nat
        /\ \/ node[m].lo <= c /\ c < node[m].endLo
           \/ node[m].hi <= c /\ c < node[m].endHi
    BY <1>1, AvailableIn
  <2>2. /\ node[m].lo \in Nat /\ node[m].hi \in Nat /\ node[m].endLo \in Nat /\ node[m].endHi \in Nat
        /\ Base(m) \in Nat /\ Half(m) \in Nat /\ NodeLines[m] \in Nat
    BY Pointers, Starts, Numbers DEF Facts
  <2>3. CASE \E a \in Nodes : Strictly(a, m) /\ Sorted(a)
    <3>1. node[m] = InitNode(m)
      BY <2>3 DEF Layout, BelowSorted
    <3>2. node[m].lo = node[m].endLo /\ node[m].hi = node[m].endHi
      BY <3>1, AsInit
    <3> QED
      BY <2>1, <2>2, <3>2
  <2>4. CASE ~\E a \in Nodes : Strictly(a, m) /\ Sorted(a)
    <3>1. node[m].lo = Base(m) + Half(m) /\ node[m].hi = Base(m) + NodeLines[m]
      BY <1>1, <2>4, EmptiedBelow DEF Emptied
    <3>2. node[m].endLo <= Base(m) + Half(m) /\ node[m].endHi <= Base(m) + NodeLines[m]
      BY DEF Layout, Shape, Chain
    <3> QED
      BY <2>1, <2>2, <3>1, <3>2
  <2> QED
    BY <2>3, <2>4
<1>2. ASSUME NEW u \in Threads, NEW c, c \in InFlight(u), Under(x, Parent(at[u]))
      PROVE  FALSE
  <2> DEFINE n == at[u]
             p == Parent(n)
  <2>1. Working(u) /\ n \in Nodes /\ n # Root
    BY <1>2, InFlightIn
  <2>2. p \in Nodes /\ ~Sorted(p) /\ Strictly(p, n)
    BY <2>1, InDest, ChildShare
  <2>3. ASSUME NEW a \in Nodes, Under(x, a), Strictly(a, p)
        PROVE  ~Sorted(a)
    <3>1. Strictly(a, n)
      BY <2>1, <2>3, StrictlyParent DEF Strictly
    <3>2. BelowSorted /\ pc[u] # "idle"
      BY <2>1 DEF Layout, Working
    <3> QED
      BY <2>1, <3>1, <3>2, NotBelowSorted
  <2>4. Emptied(p)
    BY <1>2, <2>2, <2>3, EmptiedBelow
  <2>5. InFlight(u) = {}
    BY <2>1, <2>2, <2>4, AllDeliveredFromEmptied, Drained
  <2> QED
    BY <1>2, <2>5
<1>3. ASSUME NEW u \in Threads, at[u] \in Nodes, Under(x, at[u]), Unsorted(u) # {}
      PROVE  FALSE
  <2> DEFINE n == at[u]
  <2>1. Dividing(u) /\ Descending(u) /\ pc[u] # "idle"
    BY <1>3 DEF Unsorted, Dividing, Descending
  <2>2. \A a \in Nodes : Strictly(a, n) => ~Sorted(a)
    BY <1>3, <2>1, NotBelowSorted DEF Layout
  <2>3. Emptied(n)
    BY <1>3, <2>2, EmptiedBelow
  <2>4. node[n] = InitNode(n)
    BY <2>1 DEF Layout, Around
  <2>5. node[n].lo = Base(n) /\ node[n].hi = Base(n) + Half(n)
    BY <1>3, <2>4, AsInit
  <2>6. Base(n) \in Nat /\ Half(n) \in Nat /\ NodeLines[n] \in Nat /\ NodeStart[n] \in Nat
    BY <1>3, Starts, Numbers
  <2>7. NodeLines[n] = 0
    BY <2>3, <2>5, <2>6 DEF Emptied
  <2>8. NodeStart[n] .. NodeStart[n] + NodeLines[n] - 1 = {}
    BY <2>6, <2>7
  <2> QED
    BY <1>3, <2>8 DEF Unsorted
<1> QED
  BY <1>1, <1>2, <1>3 DEF Arrives


-----------------------------------------------------------------------------
(* The line that a merge takes is the first of those that its node has left. *)

LEMMA ChildToward ==
  ASSUME NEW n \in Nodes, NEW m \in Nodes, Strictly(n, m)
  PROVE  \E x \in Nodes : x # Root /\ Parent(x) = n /\ Under(x, m) /\ x[Len(x)] = m[Len(n) + 1]
<1> DEFINE On(y) == Strictly(n, y) /\ Under(y, m)
           on == { Len(y) : y \in { z \in Nodes : On(z) } }
<1>1. on \in SUBSET Nat /\ on # {}
  BY NodesAreSequences, UnderItself
<1>2. PICK d \in on : \A e \in on : d <= e
  BY <1>1, Least
<1>3. PICK x \in Nodes : On(x) /\ Len(x) = d
  BY <1>2
<1> DEFINE p == Parent(x)
<1>4. x # Root /\ p \in Nodes /\ Under(n, p) /\ Strictly(p, x) /\ Len(x) = Len(p) + 1
  BY <1>3, AboveParent, ChildShare
<1>5. Len(p) \in Nat /\ Len(x) \in Nat /\ Len(m) \in Nat
  BY <1>4, NodesAreSequences
<1>6. Under(p, m)
  <2>1. Len(p) <= Len(m)
    BY <1>3, <1>4, <1>5 DEF Under
  <2>2. \A i \in 1..Len(p) : m[i] = p[i]
    BY <1>3, <1>4, <1>5 DEF Under, Strictly
  <2> QED
    BY <2>1, <2>2 DEF Under
<1>7. p = n
  <2> SUFFICES ASSUME p # n PROVE FALSE
    OBVIOUS
  <2>1. Len(p) \in on
    BY <1>4, <1>6 DEF Strictly
  <2> QED
    BY <1>2, <1>3, <1>4, <1>5, <2>1
<1>8. x[Len(x)] = m[Len(n) + 1]
  BY <1>3, <1>4, <1>5, <1>7 DEF Under
<1> QED
  BY <1>3, <1>4, <1>7, <1>8

\* Below a leaf nothing arrives.
LEMMA NothingBelowSorted ==
  ASSUME Facts, Layout, NEW n \in Nodes, NEW m \in Nodes, Strictly(n, m), Sorted(n), NEW c
  PROVE  ~Arrives(c, m)
<1>1. c \notin Available(m)
  <2>1. node[m] = InitNode(m)
    BY DEF Layout, BelowSorted
  <2>2. node[m].lo = node[m].endLo /\ node[m].hi = node[m].endHi
    BY <2>1, AsInit
  <2>3. /\ node[m].lo \in Nat /\ node[m].hi \in Nat
    BY Pointers DEF Facts
  <2> QED
    BY <2>2, <2>3 DEF Available
<1>2. ASSUME NEW u \in Threads, c \in InFlight(u), Parent(at[u]) = m
      PROVE  FALSE
  <2>1. Working(u) /\ at[u] \in Nodes /\ at[u] # Root
    BY <1>2, InFlightIn
  <2>2. Strictly(n, at[u])
    BY <1>2, <2>1, StrictlyParent DEF Strictly
  <2>3. BelowSorted /\ pc[u] # "idle"
    BY <2>1 DEF Layout, Working
  <2> QED
    BY <2>1, <2>2, <2>3, NotBelowSorted
<1> QED
  BY <1>1, <1>2 DEF Arrives

LEMMA PlacedAt ==
  ASSUME Facts, Layout, Conserved, Placed, NEW n \in Nodes, NEW c, Arrives(c, n)
  PROVE  /\ c \in Nat /\ c \in Cells /\ c \in LiveCells /\ mem[c] \in InputLines
         /\ Origin(mem[c]) \in Nat /\ Within(Origin(mem[c]), n)
         /\ c < Base(n) + Half(n) => node[n].lo <= c /\ Origin(mem[c]) < Middle(n)
         /\ Base(n) + Half(n) <= c => node[n].hi <= c /\ ~(Origin(mem[c]) < Middle(n))
<1>1. /\ c \in LiveCells /\ c \in Cells /\ c \in Nat
      /\ c < Base(n) + Half(n) => node[n].lo <= c
      /\ Base(n) + Half(n) <= c => node[n].hi <= c
  BY ArrivesIn
<1>2. mem[c] \in InputLines
  BY <1>1, LiveLine
<1>3. Origin(mem[c]) \in Nat
  BY <1>2, LineNumbers DEF Facts
<1>4. /\ Within(Origin(mem[c]), n)
      /\ c < Base(n) + Half(n) <=> Origin(mem[c]) < Middle(n)
  BY <1>1 DEF Placed
<1>5. Base(n) \in Nat /\ Half(n) \in Nat
  BY Starts, Numbers
<1> QED
  BY <1>1, <1>2, <1>3, <1>4, <1>5

\* When a node has merged all lines of a side, none of that half is left below it.
LEMMA SideTaken ==
  ASSUME Facts, Layout, Conserved, Placed, NEW n \in Nodes, NEW m \in Nodes, Under(n, m),
         NEW d, Arrives(d, m)
  PROVE  /\ node[n].hi = Base(n) + NodeLines[n] => Origin(mem[d]) < Middle(n)
         /\ node[n].lo = Base(n) + Half(n) => ~(Origin(mem[d]) < Middle(n))
<1> DEFINE o == Origin(mem[d])
<1>1. /\ Base(n) \in Nat /\ Half(n) \in Nat /\ NodeLines[n] \in Nat
      /\ NodeStart[n] \in Nat /\ Middle(n) \in Nat /\ Stop(n) \in Nat
      /\ NodeStart[m] \in Nat /\ Stop(m) \in Nat
  BY Starts, Numbers, Bounds
<1>2. d \in Nat /\ o \in Nat /\ Within(o, m)
  BY PlacedAt
<1>3. CASE m = n
  <2>1. /\ d < Base(n) + Half(n) => node[n].lo <= d /\ o < Middle(n)
        /\ Base(n) + Half(n) <= d => node[n].hi <= d /\ ~(o < Middle(n))
    BY <1>3, PlacedAt
  <2>2. d < Base(n) + NodeLines[n]
    <3>1. In(d, Area(n), n)
      BY <1>3, ArrivesIn
    <3> DEFINE a == Area(n) * NLines
               s == NodeStart[n]
    <3>2. a \in Nat /\ Base(n) = a + s /\ d - a < s + NodeLines[n]
      BY <3>1, AreaNumber, Starts DEF Base, In, Within, Stop
    <3> HIDE DEF a, s
    <3>3. s \in Nat
      BY <1>1 DEF s
    <3> QED
      BY <1>1, <1>2, <3>2, <3>3
  <2> HIDE DEF o
  <2>3. d < Base(n) + Half(n) \/ Base(n) + Half(n) <= d
    BY <1>1, <1>2
  <2>4. ~(node[n].hi = Base(n) + NodeLines[n] /\ node[n].hi <= d)
    BY <1>1, <1>2, <2>2
  <2>5. ~(node[n].lo = Base(n) + Half(n) /\ node[n].lo <= d /\ d < Base(n) + Half(n))
    BY <1>1, <1>2
  <2>6. /\ node[n].hi = Base(n) + NodeLines[n] => o < Middle(n)
        /\ node[n].lo = Base(n) + Half(n) => ~(o < Middle(n))
    BY <2>1, <2>3, <2>4, <2>5
  <2> QED
    BY <2>6 DEF o
<1>4. CASE m # n
  <2>1. Strictly(n, m) /\ ~Sorted(n)
    BY <1>4, NothingBelowSorted DEF Strictly
  <2>2. PICK x \in Nodes : x # Root /\ Parent(x) = n /\ Under(x, m) /\ x[Len(x)] = m[Len(n) + 1]
    BY <2>1, ChildToward
  <2>3. /\ m[Len(n) + 1] = 0 => o < Middle(n)
        /\ m[Len(n) + 1] # 0 => ~(o < Middle(n))
    <3>1. InSide(n, m)
      BY <2>1, Side
    <3> HIDE DEF o
    <3> QED
      BY <1>1, <1>2, <3>1 DEF InSide, Within
  <2>4. ~Emptied(x)
    BY <2>2, NothingBelow
  <2>5. ~(Dest(x) = Drop(x) + NodeLines[x])
    BY <2>1, <2>2, <2>4, Drained
  <2>6. ~(IF x[Len(x)] = 0 THEN node[n].lo = Base(n) + Half(n)
                           ELSE node[n].hi = Base(n) + NodeLines[n])
    BY <2>1, <2>2, <2>5, AllDelivered
  <2> QED
    BY <2>2, <2>3, <2>6
<1> QED
  BY <1>3, <1>4


\* The first line available on a side comes before all others from that half.
LEMMA HeadFirst ==
  ASSUME Facts, Layout, Conserved, Placed, InOrder, NEW n \in Nodes, NEW h,
         \/ h = node[n].lo /\ h # node[n].endLo
         \/ h = node[n].hi /\ h # node[n].endHi,
         NEW m \in Nodes, Under(n, m), NEW d, Arrives(d, m), d # h,
         SameHalf(n, mem[h], mem[d])
  PROVE  Before(mem[h], mem[d])
<1>1. /\ node[n].lo \in Nat /\ node[n].hi \in Nat /\ node[n].endLo \in Nat /\ node[n].endHi \in Nat
      /\ Base(n) \in Nat /\ Half(n) \in Nat
  BY Pointers, Starts, Numbers DEF Facts
<1>2. /\ node[n].lo <= node[n].endLo /\ node[n].endLo <= Base(n) + Half(n)
      /\ Base(n) + Half(n) <= node[n].hi /\ node[n].hi <= node[n].endHi
  BY DEF Layout, Shape, Chain
<1>3. h \in Available(n)
  BY <1>1, <1>2 DEF Available
<1>4. Arrives(h, n)
  BY <1>3 DEF Arrives
<1>5. h \in Cells /\ d \in Cells /\ h \in Nat /\ d \in Nat
  BY <1>4, ArrivesIn
<1>6. ASSUME n = m PROVE h < d
  <2>1. /\ d < Base(n) + Half(n) => node[n].lo <= d /\ Origin(mem[d]) < Middle(n)
        /\ Base(n) + Half(n) <= d => node[n].hi <= d /\ ~(Origin(mem[d]) < Middle(n))
    BY <1>6, PlacedAt
  <2>2. /\ h < Base(n) + Half(n) => Origin(mem[h]) < Middle(n)
        /\ Base(n) + Half(n) <= h => ~(Origin(mem[h]) < Middle(n))
    BY <1>4, PlacedAt
  <2> DEFINE low(c) == Origin(mem[c]) < Middle(n)
             k == Base(n) + Half(n)
  <2>3. low(h) <=> low(d)
    BY DEF SameHalf
  <2>4. /\ d < k => node[n].lo <= d /\ low(d)
        /\ k <= d => node[n].hi <= d /\ ~low(d)
        /\ h < k => low(h)
        /\ k <= h => ~low(h)
        /\ k \in Nat
    BY <1>1, <2>1, <2>2
  <2> HIDE DEF low
  <2>5. CASE h = node[n].lo /\ h # node[n].endLo
    <3>1. h < k
      BY <1>1, <1>2, <2>5
    <3>2. node[n].lo <= d
      BY <1>5, <2>3, <2>4, <3>1
    <3> QED
      BY <1>5, <2>5, <3>2
  <2>6. CASE h = node[n].hi /\ h # node[n].endHi
    <3>1. k <= h
      BY <1>1, <1>2, <2>6
    <3>2. node[n].hi <= d
      BY <1>5, <2>3, <2>4, <3>1
    <3> QED
      BY <1>5, <2>6, <3>2
  <2> QED
    BY <2>5, <2>6
<1> QED
  BY <1>4, <1>5, <1>6 DEF InOrder

\* Of the two heads the merge takes the first, and a side without lines has none
\* to come.
LEMMA TakesFirst ==
  ASSUME Facts, Layout, Conserved, Placed, InOrder,
         NEW t \in Threads, NEW src \in Nat, Takes(t, src), NEW n \in Nodes, n = at[t],
         NEW m \in Nodes, Under(n, m), NEW d, Arrives(d, m), d # src
  PROVE  Before(mem[src], mem[d])
<1> DEFINE lo == node[n].lo
           hi == node[n].hi
<1>1. /\ lo \in Nat /\ hi \in Nat /\ node[n].endLo \in Nat /\ node[n].endHi \in Nat
      /\ Base(n) \in Nat /\ Half(n) \in Nat /\ NodeLines[n] \in Nat
  BY Pointers, Starts, Numbers DEF Facts
<1>2. /\ lo <= node[n].endLo /\ node[n].endLo <= Base(n) + Half(n)
      /\ Base(n) + Half(n) <= hi /\ hi <= node[n].endHi
      /\ node[n].endHi <= Base(n) + NodeLines[n]
  BY DEF Layout, Shape, Chain
<1>3. lo # node[n].endLo => Arrives(lo, n) /\ Origin(mem[lo]) < Middle(n)
  <2> SUFFICES ASSUME lo # node[n].endLo PROVE Arrives(lo, n) /\ Origin(mem[lo]) < Middle(n)
    OBVIOUS
  <2>1. lo \in Available(n) /\ lo < Base(n) + Half(n)
    BY <1>1, <1>2 DEF Available
  <2> QED
    BY <2>1, PlacedAt DEF Arrives
<1>4. hi # node[n].endHi => Arrives(hi, n) /\ ~(Origin(mem[hi]) < Middle(n))
  <2> SUFFICES ASSUME hi # node[n].endHi PROVE Arrives(hi, n) /\ ~(Origin(mem[hi]) < Middle(n))
    OBVIOUS
  <2>1. hi \in Available(n) /\ Base(n) + Half(n) <= hi
    BY <1>1, <1>2 DEF Available
  <2> QED
    BY <2>1, PlacedAt DEF Arrives
<1>5. /\ Working(t) /\ Chosen(t, src)
      /\ \/ src = lo /\ lo # node[n].endLo
         \/ src = hi /\ hi # node[n].endHi
  BY DEF Takes
<1>6. CASE BothAvailable(n) /\ src = (IF LessEq(Cell(lo), Cell(hi)) THEN lo ELSE hi)
  <2>1. lo # node[n].endLo /\ hi # node[n].endHi
    BY <1>6 DEF BothAvailable
  <2>2. /\ mem[lo] \in InputLines /\ mem[hi] \in InputLines /\ Cell(lo) = mem[lo] /\ Cell(hi) = mem[hi]
        /\ mem[d] \in InputLines /\ TypeOK
    BY <1>3, <1>4, <2>1, PlacedAt, LiveLine DEF Facts
  <2>3. /\ LessEq(mem[lo], mem[hi]) => Before(mem[lo], mem[hi])
        /\ ~LessEq(mem[lo], mem[hi]) => Before(mem[hi], mem[lo])
    <3> DEFINE a == mem[lo]
               b == mem[hi]
    <3>1. /\ a[1] \in Nat /\ a[2] \in Nat /\ b[1] \in Nat /\ b[2] \in Nat
          /\ Middle(n) \in Nat
      BY <2>2, LineNumbers, Bounds
    <3>2. a[2] - 1 < Middle(n) /\ ~(b[2] - 1 < Middle(n))
      BY <1>3, <1>4, <2>1 DEF Origin
    <3> HIDE DEF a, b
    <3>3. a[2] < b[2]
      BY <3>1, <3>2
    <3>4. /\ LessEq(a, b) => Before(a, b)
          /\ ~LessEq(a, b) => Before(b, a)
      BY <3>1, <3>3 DEF LessEq, Before
    <3> QED
      BY <3>4 DEF a, b
  <2>4. SameHalf(n, mem[lo], mem[d]) /\ d # lo => Before(mem[lo], mem[d])
    BY <2>1, HeadFirst
  <2>5. SameHalf(n, mem[hi], mem[d]) /\ d # hi => Before(mem[hi], mem[d])
    BY <2>1, HeadFirst
  <2>6. SameHalf(n, mem[lo], mem[d]) \/ SameHalf(n, mem[hi], mem[d])
    BY <1>3, <1>4, <2>1 DEF SameHalf
  <2>7. CASE LessEq(mem[lo], mem[hi])
    <3>1. src = lo /\ Before(mem[lo], mem[hi])
      BY <1>6, <2>2, <2>3, <2>7
    <3> QED
      BY <2>2, <2>4, <2>5, <2>6, <3>1, BeforeTrans
  <2>8. CASE ~LessEq(mem[lo], mem[hi])
    <3>1. src = hi /\ Before(mem[hi], mem[lo])
      BY <1>6, <2>2, <2>3, <2>8
    <3> QED
      BY <2>2, <2>4, <2>5, <2>6, <3>1, BeforeTrans
  <2> QED
    BY <2>7, <2>8
<1>7. /\ node[n].nlo = Base(n) + Half(n) - loc[t].lo0
      /\ node[n].nhi = Base(n) + NodeLines[n] - loc[t].hi0
      /\ loc[t].lo0 \in Nat /\ loc[t].hi0 \in Nat
  BY <1>5, LocalNumbers DEF Layout, Shape, Taken, Facts
<1>8. CASE HiExhausted(t) /\ src = lo
  <2>1. hi = Base(n) + NodeLines[n]
    <3>1. node[n].nhi = hi - loc[t].hi0
      BY <1>8 DEF HiExhausted
    <3> DEFINE b == Base(n)
               e == NodeLines[n]
               x == loc[t].hi0
    <3>2. b + e - x = hi - x /\ b \in Nat /\ e \in Nat /\ x \in Nat /\ hi \in Nat
      BY <1>1, <1>7, <3>1
    <3> HIDE DEF b, e, x, hi
    <3>3. hi = b + e
      BY <3>2
    <3> QED
      BY <3>3 DEF b, e
  <2>2. lo # node[n].endLo
    BY <1>1, <1>2, <1>5, <1>8, <2>1
  <2>3. Origin(mem[d]) < Middle(n)
    BY <2>1, SideTaken
  <2>4. SameHalf(n, mem[lo], mem[d])
    BY <1>3, <2>2, <2>3 DEF SameHalf
  <2> QED
    BY <1>8, <2>2, <2>4, HeadFirst
<1>9. CASE LoExhausted(t) /\ src = hi
  <2>1. lo = Base(n) + Half(n)
    <3>1. node[n].nlo = lo - loc[t].lo0
      BY <1>9 DEF LoExhausted
    <3> DEFINE b == Base(n)
               e == Half(n)
               x == loc[t].lo0
    <3>2. b + e - x = lo - x /\ b \in Nat /\ e \in Nat /\ x \in Nat /\ lo \in Nat
      BY <1>1, <1>7, <3>1
    <3> HIDE DEF b, e, x, lo
    <3>3. lo = b + e
      BY <3>2
    <3> QED
      BY <3>3 DEF b, e
  <2>2. hi # node[n].endHi
    BY <1>1, <1>2, <1>5, <1>9, <2>1
  <2>3. ~(Origin(mem[d]) < Middle(n))
    BY <2>1, SideTaken
  <2>4. SameHalf(n, mem[hi], mem[d])
    BY <1>4, <2>2, <2>3 DEF SameHalf
  <2> QED
    BY <1>9, <2>2, <2>4, HeadFirst
<1> QED
  BY <1>5, <1>6, <1>8, <1>9 DEF Chosen

-----------------------------------------------------------------------------
(* Steps that only move the bounds, or take cells out.                     *)

LEMMA StayInOrder ==
  ASSUME Placed, InOrder,
         \A n \in Nodes : Base(n)' = Base(n),
         \A n \in Nodes, c \in Cells : Arrives(c, n)' => Arrives(c, n) /\ mem'[c] = mem[c],
         \A c : (\E u \in Threads : c \in Unsorted(u)') =>
                  mem'[c] = mem[c] /\ \E u \in Threads : c \in Unsorted(u)
  PROVE  Placed' /\ InOrder'
<1>1. Placed'
  <2>1. ASSUME NEW n \in Nodes, NEW c \in Cells, Arrives(c, n)'
        PROVE  /\ Within(Origin(mem'[c]), n)
               /\ c < Base(n)' + Half(n) <=> Origin(mem'[c]) < Middle(n)
    <3>1. Arrives(c, n) /\ mem'[c] = mem[c] /\ Base(n)' = Base(n)
      BY <2>1
    <3> QED
      BY <3>1 DEF Placed
  <2>2. ASSUME NEW u \in Threads, NEW c \in Unsorted(u)' PROVE Origin(mem'[c]) = c
    <3>1. mem'[c] = mem[c] /\ \E v \in Threads : c \in Unsorted(v)
      BY <2>2
    <3> QED
      BY <3>1 DEF Placed
  <2> QED
    BY <2>1, <2>2 DEF Placed
<1>2. InOrder'
  <2> SUFFICES ASSUME NEW n \in Nodes, NEW m \in Nodes, NEW c \in Cells, NEW d \in Cells,
                      Under(n, m), Arrives(c, n)', Arrives(d, m)',
                      SameHalf(n, mem'[c], mem'[d]), n = m => c < d
               PROVE  Before(mem'[c], mem'[d])
    BY DEF InOrder
  <2>1. Arrives(c, n) /\ mem'[c] = mem[c] /\ Arrives(d, m) /\ mem'[d] = mem[d]
    OBVIOUS
  <2> QED
    BY <2>1 DEF InOrder
<1> QED
  BY <1>1, <1>2

LEMMA StayPrefix ==
  ASSUME Prefix, UNCHANGED <<input, out>>,
         \A c \in LiveCells' : \E d \in LiveCells : mem'[c] = mem[d]
  PROVE  Prefix'
<1>1. Firsts' = Firsts /\ Written' = Written
  BY DEF Firsts, InputLines, InputLine, Written
<1>2. \A l \in Written', c \in LiveCells' : Before(l, mem'[c])
  BY <1>1 DEF Prefix
<1>3. \A i \in 1 .. Len(out') : out'[i] \in Firsts' /\ Rank(Firsts', out'[i]) = i - 1
  BY <1>1 DEF Prefix
<1> QED
  BY <1>2, <1>3 DEF Prefix

LEMMA UnmovedOrder ==
  ASSUME Conserved, Order, Unmoved
  PROVE  Order'
<1>1. UNCHANGED <<input, mem, out, node>>
  BY DEF Unmoved
<1>2. \A n \in Nodes : Base(n)' = Base(n)
  BY <1>1 DEF Base, Area, Sorted
<1>3. ASSUME NEW n \in Nodes, NEW c, Arrives(c, n)' PROVE Arrives(c, n)
  <2>1. CASE c \in Available(n)'
    BY <2>1 DEF Unmoved, Arrives
  <2>2. ASSUME NEW u \in Threads, c \in InFlight(u)', Parent(at'[u]) = n PROVE Arrives(c, n)
    <3>1. c \in InFlight(u)
      BY <2>2 DEF Unmoved
    <3>2. at'[u] = at[u]
      BY <3>1 DEF Unmoved, InFlight, Working
    <3> QED
      BY <2>2, <3>1, <3>2 DEF Arrives
  <2> QED
    BY <1>3, <2>1, <2>2 DEF Arrives
<1>4. \A c : (\E u \in Threads : c \in Unsorted(u)') => \E u \in Threads : c \in Unsorted(u)
  BY DEF Unmoved
<1>5. Placed' /\ InOrder'
  BY <1>1, <1>2, <1>3, <1>4, StayInOrder DEF Order
<1>6. Prefix'
  BY <1>1, UnmovedConserved, StayPrefix DEF Order
<1> QED
  BY <1>5, <1>6 DEF Order

LEMMA PublishOrder ==
  ASSUME Facts, Layout, Conserved, Order, NEW t \in Threads, Publish(t)
  PROVE  Order'
<1>0. PICK n \in Nodes : n = at[t]
  BY PublishNode
<1> DEFINE p == Parent(n)
<1>1. /\ UNCHANGED <<input, mem, out, at>>
      /\ \A m \in Nodes : n = Root \/ m # p => Available(m)' = Available(m)
      /\ n # Root => p \in Nodes /\ Available(p)' = Available(p) \cup InFlight(t)
      /\ InFlight(t)' = {}
      /\ \A u \in Threads : u # t => InFlight(u)' = InFlight(u)
      /\ \A u \in Threads : Unsorted(u)' = Unsorted(u)
  BY <1>0, PublishCells
<1>2. ASSUME NEW m \in Nodes PROVE Base(m)' = Base(m)
  <2>1. CASE node'[m].endHi = node[m].endHi
    BY <2>1 DEF Base, Area, Sorted
  <2>2. CASE node'[m].endHi # node[m].endHi
    <3>1. n # Root /\ m = p /\ ~Sorted(p) /\ n[Len(n)] # 0 /\ node'[p].endHi = loc[t].dest
      BY <1>0, <2>2, PublishNode
    <3>2. Working(t)
      BY PublishNode DEF Working
    <3>3. Dest(n) = node[p].endHi /\ Dest(n) \in Nat /\ Dest(n) <= loc[t].dest
      BY <1>0, <3>1, <3>2, InDest DEF Dest
    <3>4. loc[t].dest \in Nat
      BY LocalNumbers DEF Facts
    <3>5. ~(node'[m].endHi <= NLines) /\ ~(node[m].endHi <= NLines)
      <4> DEFINE x == node[p].endHi
                 y == loc[t].dest
      <4>1. x \in Nat /\ y \in Nat /\ x <= y /\ ~(x <= NLines)
        BY <3>1, <3>3, <3>4 DEF Sorted
      <4> HIDE DEF x, y
      <4>2. ~(y <= NLines)
        BY <4>1
      <4> QED
        BY <3>1, <4>1, <4>2 DEF x, y
    <3> QED
      BY <3>5 DEF Base, Area, Sorted
  <2> QED
    BY <2>1, <2>2
<1>3. ASSUME NEW m \in Nodes, NEW c, Arrives(c, m)' PROVE Arrives(c, m)
  <2>1. CASE c \in Available(m)'
    <3>1. CASE n # Root /\ m = p
      <4>1. c \in Available(p) \/ c \in InFlight(t)
        BY <1>1, <2>1, <3>1
      <4> QED
        BY <1>0, <3>1, <4>1 DEF Arrives
    <3>2. CASE ~(n # Root /\ m = p)
      BY <1>1, <2>1, <3>2 DEF Arrives
    <3> QED
      BY <3>1, <3>2
  <2>2. ASSUME NEW u \in Threads, c \in InFlight(u)', Parent(at'[u]) = m PROVE Arrives(c, m)
    <3>1. u # t /\ c \in InFlight(u) /\ at'[u] = at[u]
      BY <1>1, <2>2
    <3> QED
      BY <2>2, <3>1 DEF Arrives
  <2> QED
    BY <1>3, <2>1, <2>2 DEF Arrives
<1>4. Placed' /\ InOrder'
  BY <1>1, <1>2, <1>3, StayInOrder DEF Order
<1>5. Prefix'
  BY <1>1, PublishConserved, StayPrefix DEF Order
<1> QED
  BY <1>4, <1>5 DEF Order

-----------------------------------------------------------------------------
(* A line is taken.                                                        *)

\* What arrives after a line is taken: what did, without that line, and the line at
\* the parent.
LEMMA TakeArrives ==
  ASSUME Facts, Layout, NEW t \in Threads, NEW src \in Nat, Takes(t, src),
         NEW n \in Nodes, n = at[t], NEW m \in Nodes, NEW c, Arrives(c, m)'
  PROVE  \/ Arrives(c, m) /\ c # src /\ mem'[c] = mem[c]
         \/ n # Root /\ m = Parent(n) /\ c = loc[t].dest
<1>1. /\ Working(t) /\ UNCHANGED <<input, at>>
      /\ src \in Available(n) /\ Available(n)' = Available(n) \ {src}
      /\ \A k \in Nodes : k # n => Available(k)' = Available(k)
      /\ \A u \in Threads : u # t \/ n = Root => InFlight(u)' = InFlight(u)
      /\ n # Root => InFlight(t)' = InFlight(t) \cup {loc[t].dest}
  BY TakeCells
<1>2. n = Root => mem' = mem
  BY TakeCells
<1>3. n # Root => \A e \in LiveCells : mem'[e] = mem[e]
  BY TakeCells
<1>4. ASSUME Arrives(c, m) PROVE mem'[c] = mem[c]
  <2>1. c \in LiveCells
    BY <1>4, ArrivesIn
  <2> QED
    BY <1>2, <1>3, <2>1
<1>5. CASE c \in Available(m)'
  <2>1. c \in Available(m)
    BY <1>1, <1>5
  <2>2. c # src
    BY <1>1, <1>5, OneNode
  <2> QED
    BY <1>4, <2>1, <2>2 DEF Arrives
<1>6. ASSUME NEW u \in Threads, c \in InFlight(u)', Parent(at'[u]) = m
      PROVE  \/ Arrives(c, m) /\ c # src /\ mem'[c] = mem[c]
             \/ n # Root /\ m = Parent(n) /\ c = loc[t].dest
  <2>1. at'[u] = at[u]
    BY <1>1
  <2>2. CASE c \in InFlight(u)
    <3>1. c # src
      BY <1>1, <2>2, InFlightElsewhere
    <3>2. Arrives(c, m)
      BY <1>6, <2>1, <2>2 DEF Arrives
    <3> QED
      BY <1>4, <3>1, <3>2
  <2>3. CASE c \notin InFlight(u)
    BY <1>1, <1>6, <2>1, <2>3
  <2> QED
    BY <2>2, <2>3
<1> QED
  BY <1>5, <1>6 DEF Arrives

LEMMA TakeBase ==
  ASSUME NEW t \in Threads, NEW src \in Nat, Takes(t, src), NEW m \in Nodes
  PROVE  Base(m)' = Base(m)
<1>1. node'[m].endHi = node[m].endHi
  BY DEF Takes
<1> QED
  BY <1>1 DEF Base, Area, Sorted

\* A line stored at the parent has its place in the half that the child delivers to.
LEMMA TakePlaced ==
  ASSUME Facts, Layout, Conserved, Placed, NEW t \in Threads, NEW src \in Nat, Takes(t, src),
         NEW n \in Nodes, n = at[t], n # Root
  PROVE  LET p == Parent(n)
             d == loc[t].dest
             o == Origin(mem[src])
         IN /\ Within(o, p) /\ Within(o, n) /\ o \in Nat
            /\ d < Base(p) + Half(p) <=> o < Middle(p)
            /\ n[Len(n)] = 0 <=> o < Middle(p)
<1> DEFINE p == Parent(n)
           d == loc[t].dest
           o == Origin(mem[src])
<1>1. /\ Working(t) /\ src \in Available(n)
      /\ d \in Nat /\ In(d, Len(n), n)
  BY TakeCells
<1>2. Arrives(src, n)
  BY <1>1 DEF Arrives
<1>3. o \in Nat /\ Within(o, n)
  BY <1>2, PlacedAt
<1>4. /\ p \in Nodes /\ Len(n) = Len(p) + 1 /\ n[Len(n)] \in {0, 1} /\ Strictly(p, n)
      /\ n[Len(n)] = 0 => NodeStart[n] = NodeStart[p] /\ Stop(n) = Middle(p)
      /\ n[Len(n)] = 1 => NodeStart[n] = Middle(p) /\ Stop(n) = Stop(p)
  BY ChildShare
<1>5. ~Sorted(p)
  BY <1>1, InDest
<1> DEFINE a == Len(n) * NLines
<1>6. a \in Nat /\ Base(p) = a + NodeStart[p]
  <2>1. Len(p) \in Nat /\ Len(n) \in Nat
    BY <1>4, NodesAreSequences
  <2>2. Area(p) = Len(n)
    BY <1>4, <1>5, Starts DEF Area
  <2> QED
    BY <2>1, <2>2, AreaNumber DEF Base
<1>7. NodeStart[n] <= d - a /\ d - a < Stop(n)
  BY <1>1 DEF In, Within
<1>8. NodeStart[n] <= o /\ o < Stop(n)
  BY <1>3 DEF Within
<1>9. /\ NodeStart[p] \in Nat /\ Middle(p) \in Nat /\ Stop(p) \in Nat /\ Half(p) \in Nat
      /\ NodeStart[p] <= Middle(p) /\ Middle(p) <= Stop(p)
      /\ Middle(p) = NodeStart[p] + Half(p)
  BY <1>4, Bounds, Numbers DEF Middle
<1> HIDE DEF p, d, o, a
<1>10. CASE n[Len(n)] = 0
  <2>1. o < Middle(p) /\ NodeStart[p] <= o /\ o < Stop(p)
    BY <1>3, <1>4, <1>8, <1>9, <1>10
  <2>2. d < Base(p) + Half(p)
    BY <1>1, <1>4, <1>6, <1>7, <1>9, <1>10 DEF d
  <2> QED
    BY <1>3, <1>10, <2>1, <2>2 DEF p, d, o, Within
<1>11. CASE n[Len(n)] = 1
  <2>1. ~(o < Middle(p)) /\ NodeStart[p] <= o /\ o < Stop(p)
    BY <1>3, <1>4, <1>8, <1>9, <1>11
  <2>2. ~(d < Base(p) + Half(p))
    BY <1>1, <1>4, <1>6, <1>7, <1>9, <1>11 DEF d
  <2> QED
    BY <1>3, <1>11, <2>1, <2>2 DEF p, d, o, Within
<1> QED
  BY <1>4, <1>10, <1>11

\* Behind a line stored at the parent there is none of its half but those below the
\* node it comes from.
LEMMA TakeLast ==
  ASSUME Facts, Layout, Conserved, Placed, NEW t \in Threads, NEW src \in Nat, Takes(t, src),
         NEW n \in Nodes, n = at[t], n # Root, NEW m \in Nodes, Under(Parent(n), m),
         NEW e \in Cells, Arrives(e, m), SameHalf(Parent(n), mem[src], mem[e])
  PROVE  \/ m = Parent(n) /\ e < loc[t].dest
         \/ Under(n, m)
<1> DEFINE p == Parent(n)
           d == loc[t].dest
           o == Origin(mem[src])
           q == Origin(mem[e])
<1>1. /\ Working(t) /\ d \in Nat /\ In(d, Len(n), n) /\ d \notin LiveCells
  BY TakeCells
<1>2. /\ d < Base(p) + Half(p) <=> o < Middle(p)
      /\ n[Len(n)] = 0 <=> o < Middle(p)
  BY TakePlaced
<1>3. o < Middle(p) <=> q < Middle(p)
  BY DEF SameHalf
<1>4. /\ p \in Nodes /\ Len(n) = Len(p) + 1 /\ n[Len(n)] \in {0, 1}
      /\ n[Len(n)] = 0 => NodeStart[n] = NodeStart[p] /\ Stop(n) = Middle(p)
      /\ n[Len(n)] = 1 => NodeStart[n] = Middle(p) /\ Stop(n) = Stop(p)
  BY ChildShare
<1>5. /\ ~Sorted(p) /\ Dest(n) \in Nat /\ Drop(n) <= Dest(n) /\ Dest(n) <= d
  BY <1>1, InDest
<1>6. e \in Nat /\ q \in Nat /\ Within(q, m) /\ In(e, Area(m), m)
  BY PlacedAt, ArrivesIn
<1>7. CASE m = p
  <2> SUFFICES ASSUME ~(e < d) PROVE FALSE
    BY <1>7
  <2>1. e < Base(p) + Half(p) <=> q < Middle(p)
    BY <1>7 DEF Placed
  <2>2. In(e, Len(n), n)
    <3> DEFINE a == Len(n) * NLines
    <3>1. Len(p) \in Nat /\ Len(n) \in Nat /\ Area(p) = Len(n)
      BY <1>4, <1>5, Starts, NodesAreSequences DEF Area
    <3>2. a \in Nat /\ Base(p) = a + NodeStart[p]
      BY <3>1, AreaNumber DEF Base
    <3>3. NodeStart[p] <= e - a /\ e - a < Stop(p)
      BY <1>6, <1>7, <3>1 DEF In, Within
    <3>4. /\ NodeStart[p] \in Nat /\ Middle(p) \in Nat /\ Stop(p) \in Nat /\ Half(p) \in Nat
          /\ Middle(p) = NodeStart[p] + Half(p)
      BY <1>4, Bounds, Numbers DEF Middle
    <3>5. e < Base(p) + Half(p) <=> n[Len(n)] = 0
      BY <1>2, <1>3, <2>1
    <3> HIDE DEF p, a, d, o, q
    <3>6. NodeStart[n] <= e - a /\ e - a < Stop(n)
      BY <1>4, <1>6, <3>2, <3>3, <3>4, <3>5
    <3> QED
      BY <3>6 DEF In, Within, a
  <2>3. Dest(n) <= e
    BY <1>1, <1>5, <1>6
  <2>4. /\ \A k \in Nodes : e \notin Available(k)
        /\ \A u \in Threads : e \in InFlight(u) => at[u] = n
    BY <1>5, <1>6, <2>2, <2>3, BeyondDelivered
  <2>5. PICK u \in Threads : e \in InFlight(u)
    BY <2>4 DEF Arrives
  <2>6. u = t
    BY <1>1, <2>4, <2>5, InFlightIn, Alone DEF Layout
  <2>7. e < d
    BY <2>5, <2>6, InFlightIn
  <2> QED
    BY <2>7
<1>8. CASE m # p
  <2>1. Strictly(p, m)
    BY <1>8 DEF Strictly
  <2>2. PICK x \in Nodes : x # Root /\ Parent(x) = p /\ Under(x, m) /\ x[Len(x)] = m[Len(p) + 1]
    BY <1>4, <2>1, ChildToward
  <2>3. InSide(p, m)
    BY <1>4, <2>1, Side
  <2>4. m[Len(p) + 1] = 0 <=> q < Middle(p)
    <3>1. /\ NodeStart[m] \in Nat /\ Stop(m) \in Nat /\ Middle(p) \in Nat
      BY <1>4, Bounds
    <3> HIDE DEF p, q
    <3> QED
      BY <1>6, <2>3, <3>1 DEF InSide, Within
  <2>5. x[Len(x)] \in {0, 1}
    BY <2>2, ChildShare
  <2>6. x[Len(x)] = n[Len(n)]
    BY <1>2, <1>3, <1>4, <2>2, <2>4, <2>5
  <2>7. x = n
    BY <2>2, <2>6, Siblings
  <2> QED
    BY <2>2, <2>7
<1> QED
  BY <1>7, <1>8

LEMMA TakeInOrder ==
  ASSUME Facts, Layout, Conserved, Placed, InOrder,
         NEW t \in Threads, NEW src \in Nat, Takes(t, src)
  PROVE  Placed' /\ InOrder'
<1>0. PICK n \in Nodes : n = at[t]
  BY DEF Takes
<1> DEFINE p == Parent(n)
           d == loc[t].dest
<1>1. /\ src \in Available(n) /\ src \in LiveCells /\ src \in Nat /\ src \in Cells
      /\ \A u \in Threads : Unsorted(u)' = Unsorted(u)
  BY <1>0, TakeCells, LiveCellsAreCells
<1>2. Arrives(src, n)
  BY <1>1 DEF Arrives
<1>3. \A m \in Nodes : Base(m)' = Base(m)
  BY TakeBase
<1>4. \A e \in LiveCells : mem'[e] = mem[e]
  BY <1>0, TakeCells
<1>5. ASSUME NEW e, NEW u \in Threads, e \in Unsorted(u)
      PROVE  mem'[e] = mem[e]
  <2>1. e \in LiveCells
    BY <1>5, LiveCell
  <2> QED
    BY <1>4, <2>1
<1>6. CASE n = Root
  <2>1. \A m \in Nodes, e \in Cells : Arrives(e, m)' => Arrives(e, m) /\ mem'[e] = mem[e]
    BY <1>0, <1>6, TakeArrives
  <2>2. \A e : (\E u \in Threads : e \in Unsorted(u)') =>
                 mem'[e] = mem[e] /\ \E u \in Threads : e \in Unsorted(u)
    BY <1>1, <1>5
  <2> QED
    BY <1>3, <2>1, <2>2, StayInOrder
<1>7. CASE n # Root
  <2>1. d \in Cells /\ d \in Nat /\ mem'[d] = mem[src]
    BY <1>0, <1>7, TakeCells
  <2>2. p \in Nodes /\ Strictly(p, n)
    BY <1>7, ChildShare
  <2>3. /\ Within(Origin(mem[src]), p)
        /\ d < Base(p) + Half(p) <=> Origin(mem[src]) < Middle(p)
    BY <1>0, <1>7, TakePlaced
  <2>4. \A m \in Nodes, e \in Cells : Arrives(e, m)' =>
          \/ Arrives(e, m) /\ e # src /\ mem'[e] = mem[e]
          \/ m = p /\ e = d
    BY <1>0, TakeArrives
  <2>5. \A m \in Nodes, e \in Cells :
          Under(p, m) /\ Arrives(e, m) /\ SameHalf(p, mem[src], mem[e]) =>
            (m = p /\ e < d) \/ Under(n, m)
    BY <1>0, <1>7, TakeLast
  <2> HIDE DEF p, d
  <2>6. Placed'
    <3>1. ASSUME NEW m \in Nodes, NEW e \in Cells, Arrives(e, m)'
          PROVE  /\ Within(Origin(mem'[e]), m)
                 /\ e < Base(m)' + Half(m) <=> Origin(mem'[e]) < Middle(m)
      <4>1. CASE Arrives(e, m) /\ mem'[e] = mem[e]
        BY <1>3, <4>1 DEF Placed
      <4>2. CASE m = p /\ e = d
        <5>1. mem'[e] = mem[src] /\ Base(m)' = Base(p)
          BY <1>3, <2>1, <4>2
        <5> QED
          BY <2>3, <4>2, <5>1
      <4> QED
        BY <2>4, <3>1, <4>1, <4>2
    <3>2. ASSUME NEW u \in Threads, NEW e \in Unsorted(u)' PROVE Origin(mem'[e]) = e
      BY <1>1, <1>5, <3>2 DEF Placed
    <3> QED
      BY <3>1, <3>2 DEF Placed
  <2>7. InOrder'
    <3> SUFFICES ASSUME NEW a \in Nodes, NEW m \in Nodes, NEW c \in Cells, NEW e \in Cells,
                        Under(a, m), Arrives(c, a)', Arrives(e, m)',
                        SameHalf(a, mem'[c], mem'[e]), a = m => c < e
                 PROVE  Before(mem'[c], mem'[e])
      BY DEF InOrder
    <3>1. /\ (Arrives(c, a) /\ c # src /\ mem'[c] = mem[c]) \/ (a = p /\ c = d)
          /\ (Arrives(e, m) /\ e # src /\ mem'[e] = mem[e]) \/ (m = p /\ e = d)
      BY <2>4
    <3>2. CASE /\ Arrives(c, a) /\ mem'[c] = mem[c]
               /\ Arrives(e, m) /\ mem'[e] = mem[e]
      BY <3>2 DEF InOrder
    <3>3. CASE a = p /\ c = d /\ Arrives(e, m) /\ e # src /\ mem'[e] = mem[e]
      <4>1. mem'[c] = mem[src] /\ SameHalf(p, mem[src], mem[e]) /\ Under(p, m)
        BY <2>1, <3>3
      <4>2. (m = p /\ e < d) \/ Under(n, m)
        BY <2>5, <3>3, <4>1
      <4>3. ~(m = p /\ e < d)
        <5> SUFFICES ASSUME m = p, e < d PROVE FALSE
          OBVIOUS
        <5>1. d < e /\ e \in Nat
          BY <3>3, ArrivesIn
        <5> QED
          BY <2>1, <5>1
      <4>4. Before(mem[src], mem[e])
        BY <1>0, <3>3, <4>2, <4>3, TakesFirst
      <4> QED
        BY <3>3, <4>1, <4>4
    <3>4. CASE Arrives(c, a) /\ mem'[c] = mem[c] /\ m = p /\ e = d
      <4>1. Strictly(a, n)
        BY <1>7, <3>4, StrictlyParent DEF p
      <4>2. mem'[e] = mem[src] /\ SameHalf(a, mem[c], mem[src])
        BY <2>1, <3>4
      <4>3. Before(mem[c], mem[src])
        BY <1>1, <1>2, <3>4, <4>1, <4>2 DEF InOrder, Strictly
      <4> QED
        BY <3>4, <4>2, <4>3
    <3>5. CASE a = p /\ c = d /\ m = p /\ e = d
      BY <2>1, <3>5
    <3> QED
      BY <3>1, <3>2, <3>3, <3>4, <3>5
  <2> QED
    BY <2>6, <2>7
<1> QED
  BY <1>6, <1>7

-----------------------------------------------------------------------------
(* A leaf sorts its lines.                                                 *)

\* While a thread still divides or sorts, no line of the half it has in its share has
\* come to a node above it.
LEMMA NoneArrivesAbove ==
  ASSUME Facts, Layout, Conserved, Placed, NEW t \in Threads, Descending(t),
         NEW n \in Nodes, n = at[t], NEW a \in Nodes, Strictly(a, n), NEW c, Arrives(c, a)
  PROVE  Origin(mem[c]) < Middle(a) <=> n[Len(a) + 1] # 0
<1> DEFINE o == Origin(mem[c])
<1>1. Untaken(a, n) /\ InSide(a, n)
  BY Side DEF Layout, Around
<1>2. /\ ~Sorted(a) /\ node[a].lo = Base(a) /\ node[a].hi = Base(a) + Half(a)
      /\ n[Len(a) + 1] = 0 => node[a].endLo = Base(a)
      /\ n[Len(a) + 1] # 0 => node[a].endHi = Base(a) + Half(a)
  BY <1>1 DEF Untaken
<1>3. /\ c \in Nat /\ o \in Nat
      /\ c < Base(a) + Half(a) => node[a].lo <= c /\ o < Middle(a)
      /\ Base(a) + Half(a) <= c => node[a].hi <= c /\ ~(o < Middle(a))
  BY PlacedAt
<1>4. /\ node[a].endLo \in Nat /\ node[a].endHi \in Nat /\ Base(a) \in Nat /\ Half(a) \in Nat
      /\ Len(a) \in Nat
  BY Pointers, Starts, Numbers DEF Facts
<1>5. CASE c \in Available(a)
  <2>1. \/ node[a].lo <= c /\ c < node[a].endLo /\ c < Base(a) + Half(a)
        \/ node[a].hi <= c /\ c < node[a].endHi /\ Base(a) + Half(a) <= c
    BY <1>5, AvailableIn
  <2> HIDE DEF o
  <2>2. CASE n[Len(a) + 1] = 0
    BY <1>2, <1>3, <1>4, <2>1, <2>2 DEF o
  <2>3. CASE n[Len(a) + 1] # 0
    BY <1>2, <1>3, <1>4, <2>1, <2>3 DEF o
  <2> QED
    BY <2>2, <2>3
<1>6. ASSUME NEW u \in Threads, c \in InFlight(u), Parent(at[u]) = a
      PROVE  o < Middle(a) <=> n[Len(a) + 1] # 0
  <2>1. PICK x \in Nodes : x = at[u]
    BY <1>6, InFlightIn
  <2>2. Working(u) /\ x # Root /\ Dest(x) <= c /\ c < loc[u].dest
    BY <1>6, <2>1, InFlightIn
  <2>3. PICK y \in Nodes : y # Root /\ Parent(y) = a /\ Under(y, n) /\ y[Len(y)] = n[Len(a) + 1]
    BY ChildToward
  <2>4. x # y
    <3> SUFFICES ASSUME x = y PROVE FALSE
      OBVIOUS
    <3>1. CASE x = n
      <4>1. u = t
        BY <2>1, <2>2, <3>1, UnderItself, FreshAlone DEF Working
      <4> QED
        BY <2>2, <4>1 DEF Working, Descending
    <3>2. CASE x # n
      <4>1. Strictly(x, n)
        BY <2>3, <3>2 DEF Strictly
      <4>2. Untaken(x, n)
        BY <2>1, <2>2, <4>1, NothingToTake
      <4>3. loc[u].dest = Drop(x) /\ Drop(x) <= Dest(x) /\ Dest(x) \in Nat
        BY <2>1, <2>2, <4>2, InDest DEF Untaken
      <4> DEFINE x1 == Dest(x)
                 x2 == loc[u].dest
      <4>4. x1 \in Nat /\ x1 <= c /\ c < x2 /\ x2 <= x1 /\ x2 \in Nat /\ c \in Nat
        BY <1>3, <2>2, <4>3, LocalNumbers DEF Facts
      <4> HIDE DEF x1, x2
      <4> QED
        BY <4>4
    <3> QED
      BY <3>1, <3>2
  <2>5. x[Len(x)] # n[Len(a) + 1]
    BY <1>6, <2>1, <2>2, <2>3, <2>4, Siblings
  <2>6. /\ x[Len(x)] \in {0, 1} /\ y[Len(y)] \in {0, 1}
    BY <2>2, <2>3, ChildShare
  <2>7. /\ Dest(x) \in Nat /\ Drop(x) <= Dest(x) /\ loc[u].dest <= Drop(x) + NodeLines[x]
        /\ loc[u].dest \in Nat /\ Drop(x) \in Nat /\ NodeLines[x] \in Nat
    BY <2>1, <2>2, InDest, LocalNumbers, Starts, Numbers DEF Facts
  <2>8. /\ x[Len(x)] = 0 => Drop(x) = Base(a) /\ NodeLines[x] = Half(a)
        /\ x[Len(x)] # 0 => Drop(x) = Base(a) + Half(a)
    BY <1>2, <1>6, <2>1, <2>2, DropIsSide
  <2> HIDE DEF o
  <2>9. CASE x[Len(x)] = 0
    <3>1. c < Base(a) + Half(a)
      BY <1>3, <1>4, <2>2, <2>7, <2>8, <2>9
    <3> QED
      BY <1>3, <2>5, <2>9, <3>1 DEF o
  <2>10. CASE x[Len(x)] # 0
    <3>1. Base(a) + Half(a) <= c
      BY <1>3, <1>4, <2>2, <2>7, <2>8, <2>10
    <3>2. n[Len(a) + 1] = 0
      BY <2>3, <2>5, <2>6, <2>10
    <3> QED
      BY <1>3, <3>1, <3>2 DEF o
  <2> QED
    BY <2>9, <2>10
<1> QED
  BY <1>5, <1>6 DEF Arrives

LEMMA NthBefore ==
  ASSUME TypeOK, NEW a \in Int, NEW b \in Int, OneEach(a .. b - 1),
         NEW c \in a .. b - 1, NEW d \in a .. b - 1, c < d
  PROVE  LET S == LinesOf(a .. b - 1)
         IN Before(Nth(S, c - a + 1), Nth(S, d - a + 1))
<1> DEFINE S == LinesOf(a .. b - 1)
<1>1. a <= b
  OBVIOUS
<1>2. Distinct(S) /\ Cardinality(S) = b - a
  BY <1>1, OneEachDistinct
<1> DEFINE i == c - a + 1
           j == d - a + 1
<1>3. i \in 1 .. Cardinality(S) /\ j \in 1 .. Cardinality(S) /\ i < j
  BY <1>2
<1> HIDE DEF S, i, j
<1>4. /\ Nth(S, i) \in S /\ Rank(S, Nth(S, i)) = i - 1
      /\ Nth(S, j) \in S /\ Rank(S, Nth(S, j)) = j - 1
  BY <1>2, <1>3, NthLine
<1> DEFINE x == Nth(S, i)
           y == Nth(S, j)
<1>5. x = y \/ Before(x, y) \/ Before(y, x)
  <2>1. x \in Line /\ y \in Line /\ (x[2] = y[2] => x = y)
    BY <1>2, <1>4 DEF Distinct
  <2> HIDE DEF x, y
  <2> QED
    BY <2>1 DEF Line, Before
<1>6. i \in Int /\ j \in Int
  BY <1>3, <1>2
<1>7. Rank(S, x) < Rank(S, y)
  BY <1>3, <1>4, <1>6
<1>8. ~(x = y)
  BY <1>4, <1>3, <1>6
<1>9. ~Before(y, x)
  <2> SUFFICES ASSUME Before(y, x) PROVE FALSE
    OBVIOUS
  <2>1. Rank(S, y) < Rank(S, x)
    BY <1>2, <1>4, RankGrows
  <2> QED
    BY <1>3, <1>4, <1>6, <2>1
<1> QED
  BY <1>5, <1>8, <1>9 DEF S, i, j

\* What a leaf sorts: each half has kept the lines of its places, now in order.
LEMMA SortLeafLines ==
  ASSUME Facts, Layout, Conserved, Placed, NEW t \in Threads, SortLeaf(t),
         NEW n \in Nodes, n = at[t]
  PROVE  LET A == NodeStart[n] .. Stop(n) - 1
         IN /\ A = Unsorted(t) /\ A \subseteq LiveCells
            /\ \A c \in LiveCells \ A : mem'[c] = mem[c]
            /\ \A c \in A : \E e \in A : mem'[c] = mem[e]
            /\ \A c \in A : Within(Origin(mem'[c]), n)
                            /\ (c < Middle(n) <=> Origin(mem'[c]) < Middle(n))
            /\ \A c, d \in A : c < d /\ SameHalf(n, mem'[c], mem'[d]) => Before(mem'[c], mem'[d])
<1> DEFINE lo == NodeStart[n]
           hi == Middle(n)
           end == Stop(n)
           A == lo .. end - 1
           B == lo .. hi - 1
           C == hi .. end - 1
<1>1. /\ lo \in Nat /\ hi \in Nat /\ end \in Nat /\ lo <= hi /\ hi <= end
      /\ A = Unsorted(t) /\ A \subseteq LiveCells /\ A = B \cup C
      /\ OneEach(B) /\ OneEach(C)
  BY SortLeafHalves DEF Middle, Stop
<1>2. /\ \A c \in B : mem'[c] = Nth(LinesOf(B), c - lo + 1)
      /\ \A c \in C : mem'[c] = Nth(LinesOf(C), c - hi + 1)
      /\ \A c \in LiveCells \ A : mem'[c] = mem[c]
      /\ \A c \in B : \E e \in B : mem'[c] = mem[e]
      /\ \A c \in C : \E e \in C : mem'[c] = mem[e]
  BY SortLeafHalves DEF Middle, Stop
<1>3. \A e \in A : Origin(mem[e]) = e
  BY <1>1 DEF Placed
<1>4. ASSUME NEW c \in B, NEW d \in B, c < d PROVE Before(mem'[c], mem'[d])
  <2>1. Before(Nth(LinesOf(B), c - lo + 1), Nth(LinesOf(B), d - lo + 1))
    <3>1. lo \in Int /\ hi \in Int /\ OneEach(lo .. hi - 1) /\ TypeOK
      BY <1>1 DEF Facts
    <3>2. c \in lo .. hi - 1 /\ d \in lo .. hi - 1 /\ c < d
      BY <1>4
    <3> HIDE DEF lo, hi
    <3> QED
      BY <3>1, <3>2, NthBefore DEF B
  <2> QED
    BY <1>2, <2>1
<1>5. ASSUME NEW c \in C, NEW d \in C, c < d PROVE Before(mem'[c], mem'[d])
  <2>1. Before(Nth(LinesOf(C), c - hi + 1), Nth(LinesOf(C), d - hi + 1))
    <3>1. hi \in Int /\ end \in Int /\ OneEach(hi .. end - 1) /\ TypeOK
      BY <1>1 DEF Facts
    <3>2. c \in hi .. end - 1 /\ d \in hi .. end - 1 /\ c < d
      BY <1>5
    <3> HIDE DEF hi, end
    <3> QED
      BY <3>1, <3>2, NthBefore DEF C
  <2> QED
    BY <1>2, <2>1
<1>6. ASSUME NEW c \in A
      PROVE  /\ Within(Origin(mem'[c]), n)
             /\ c < hi <=> Origin(mem'[c]) < hi
             /\ c < hi <=> c \in B
             /\ c \in C <=> ~(c \in B)
  <2>1. c \in Nat /\ (c < hi <=> c \in B) /\ (c \in C <=> ~(c \in B))
    <3> HIDE DEF lo, hi, end
    <3> QED
      BY <1>1, <1>6
  <2>2. CASE c \in B
    <3>1. PICK e \in B : mem'[c] = mem[e]
      BY <1>2, <2>2
    <3>2. Origin(mem'[c]) = e
      BY <1>1, <1>3, <3>1
    <3>3. e < hi /\ lo <= e /\ e < end
      <4> HIDE DEF lo, hi, end
      <4> QED
        BY <1>1
    <3> QED
      BY <2>1, <2>2, <3>2, <3>3 DEF Within
  <2>3. CASE c \in C
    <3>1. PICK e \in C : mem'[c] = mem[e]
      BY <1>2, <2>3
    <3>2. Origin(mem'[c]) = e
      BY <1>1, <1>3, <3>1
    <3>3. ~(e < hi) /\ lo <= e /\ e < end
      <4> HIDE DEF lo, hi, end
      <4> QED
        BY <1>1
    <3> QED
      BY <2>1, <2>3, <3>2, <3>3 DEF Within
  <2> QED
    BY <2>1, <2>2, <2>3
<1>7. ASSUME NEW c \in A, NEW d \in A, c < d, SameHalf(n, mem'[c], mem'[d])
      PROVE  Before(mem'[c], mem'[d])
  <2>1. c \in B <=> d \in B
    BY <1>6, <1>7 DEF SameHalf
  <2> QED
    BY <1>4, <1>5, <1>6, <1>7, <2>1
<1>8. \A c \in A : \E e \in A : mem'[c] = mem[e]
  <2> HIDE DEF A, B, C
  <2> QED
    BY <1>1, <1>2
<1> QED
  BY <1>1, <1>2, <1>6, <1>7, <1>8

LEMMA SortLeafArrives ==
  ASSUME Facts, Layout, Conserved, NEW t \in Threads, SortLeaf(t), NEW n \in Nodes, n = at[t],
         NEW m \in Nodes, NEW c, Arrives(c, m)'
  PROVE  \/ m = n /\ c \in Unsorted(t)
         \/ m # n /\ ~Strictly(n, m) /\ Arrives(c, m) /\ c \notin Unsorted(t)
<1>1. /\ Available(n)' = Unsorted(t)
      /\ \A k \in Nodes : k # n => Available(k)' = Available(k)
      /\ \A u \in Threads : InFlight(u)' = InFlight(u)
  BY SortLeafMoves
<1>2. /\ pc[t] = "leaf" /\ UNCHANGED at /\ Descending(t)
      /\ \A k \in Nodes : Strictly(n, k) => node[k] = InitNode(k)
  BY SortLeafNode DEF Descending, Layout, Around
<1>3. CASE c \in Available(m)'
  <2>1. CASE m = n
    BY <1>1, <1>3, <2>1
  <2>2. CASE m # n
    <3>1. c \in Available(m)
      BY <1>1, <1>3, <2>2
    <3>2. ~Strictly(n, m)
      <4> SUFFICES ASSUME Strictly(n, m) PROVE FALSE
        OBVIOUS
      <4>1. node[m].lo = node[m].endLo /\ node[m].hi = node[m].endHi
        BY <1>2, AsInit
      <4>2. node[m].lo \in Nat /\ node[m].hi \in Nat
        BY Pointers DEF Facts
      <4> QED
        BY <3>1, <4>1, <4>2 DEF Available
    <3> QED
      BY <2>2, <3>1, <3>2, UnsortedNotAvailable DEF Arrives
  <2> QED
    BY <2>1, <2>2
<1>4. ASSUME NEW u \in Threads, c \in InFlight(u)', Parent(at'[u]) = m
      PROVE  m # n /\ ~Strictly(n, m) /\ Arrives(c, m) /\ c \notin Unsorted(t)
  <2>1. c \in InFlight(u) /\ at'[u] = at[u]
    BY <1>1, <1>2, <1>4
  <2>2. Working(u) /\ at[u] \in Nodes /\ at[u] # Root
    BY <2>1, InFlightIn
  <2>3. ~Under(n, m)
    <3> SUFFICES ASSUME Under(n, m) PROVE FALSE
      OBVIOUS
    <3>1. Under(n, at[u])
      BY <1>4, <2>1, <2>2, StrictlyParent DEF Strictly
    <3>2. u = t
      BY <1>2, <2>2, <3>1, FreshAlone DEF Working
    <3> QED
      BY <1>2, <2>2, <3>2 DEF Working
  <2>4. m # n /\ ~Strictly(n, m)
    BY <2>3, UnderItself DEF Strictly
  <2> QED
    BY <1>4, <2>1, <2>4, InFlightElsewhere DEF Arrives
<1> QED
  BY <1>3, <1>4 DEF Arrives

LEMMA SortLeafOrder ==
  ASSUME Facts, Layout, Conserved, Order, NEW t \in Threads, SortLeaf(t)
  PROVE  Order'
<1>0. PICK n \in Nodes : n = at[t]
  BY SortLeafNode
<1> DEFINE A == NodeStart[n] .. Stop(n) - 1
<1>1. /\ A = Unsorted(t) /\ A \subseteq LiveCells
      /\ \A c \in LiveCells \ A : mem'[c] = mem[c]
      /\ \A c \in A : \E e \in A : mem'[c] = mem[e]
      /\ \A c \in A : Within(Origin(mem'[c]), n)
                      /\ (c < Middle(n) <=> Origin(mem'[c]) < Middle(n))
      /\ \A c, d \in A : c < d /\ SameHalf(n, mem'[c], mem'[d]) => Before(mem'[c], mem'[d])
  BY <1>0, SortLeafLines DEF Order
<1>2. /\ \A u \in Threads : u # t => Unsorted(u)' = Unsorted(u)
      /\ Unsorted(t)' = {} /\ LiveCells' = LiveCells /\ Descending(t)
      /\ UNCHANGED <<input, out>>
  BY <1>0, SortLeafMoves, SortLeafLive, SortLeafNode DEF Descending
<1> HIDE DEF A
<1>3. ASSUME NEW m \in Nodes, NEW c, Arrives(c, m)'
      PROVE  \/ m = n /\ c \in A
             \/ m # n /\ ~Strictly(n, m) /\ Arrives(c, m) /\ mem'[c] = mem[c]
  <2>1. \/ m = n /\ c \in Unsorted(t)
        \/ m # n /\ ~Strictly(n, m) /\ Arrives(c, m) /\ c \notin Unsorted(t)
    BY <1>0, <1>3, SortLeafArrives
  <2>2. Arrives(c, m) => c \in LiveCells
    BY ArrivesIn
  <2> QED
    BY <1>1, <2>1, <2>2
<1>4. \A m \in Nodes : m # n => Base(m)' = Base(m)
  BY <1>0, SortLeafNode, SameNode
<1>5. Base(n)' = NodeStart[n]
  <2>1. node'[n].endHi = Stop(n) /\ Stop(n) <= NLines
    BY <1>0, SortLeafNode, WithinArea DEF Stop
  <2>2. Sorted(n)'
    BY <2>1 DEF Sorted
  <2>3. NodeStart[n] \in Nat
    BY Numbers
  <2>4. Area(n)' = 0
    BY <2>2 DEF Area
  <2>5. Base(n)' = 0 * NLines + NodeStart[n]
    BY <2>4 DEF Base
  <2> QED
    BY <2>3, <2>5
<1>6. Placed'
  <2>1. ASSUME NEW m \in Nodes, NEW c \in Cells, Arrives(c, m)'
        PROVE  /\ Within(Origin(mem'[c]), m)
               /\ c < Base(m)' + Half(m) <=> Origin(mem'[c]) < Middle(m)
    <3>1. CASE m = n /\ c \in A
      BY <1>1, <1>5, <3>1 DEF Middle
    <3>2. CASE m # n /\ Arrives(c, m) /\ mem'[c] = mem[c]
      BY <1>4, <3>2 DEF Order, Placed
    <3> QED
      BY <1>3, <2>1, <3>1, <3>2
  <2>2. ASSUME NEW u \in Threads, NEW c \in Unsorted(u)' PROVE Origin(mem'[c]) = c
    <3>1. u # t /\ c \in Unsorted(u)
      BY <1>2, <2>2
    <3>2. c \notin A /\ c \in LiveCells
      BY <1>1, <3>1, UnsortedOnce, LiveCell
    <3> QED
      BY <1>1, <3>1, <3>2 DEF Order, Placed
  <2> QED
    BY <2>1, <2>2 DEF Placed
<1>7. InOrder'
  <2> SUFFICES ASSUME NEW a \in Nodes, NEW m \in Nodes, NEW c \in Cells, NEW e \in Cells,
                      Under(a, m), Arrives(c, a)', Arrives(e, m)',
                      SameHalf(a, mem'[c], mem'[e]), a = m => c < e
               PROVE  Before(mem'[c], mem'[e])
    BY DEF InOrder
  <2>1. \/ a = n /\ c \in A
        \/ a # n /\ ~Strictly(n, a) /\ Arrives(c, a) /\ mem'[c] = mem[c]
    BY <1>3
  <2>2. \/ m = n /\ e \in A
        \/ m # n /\ ~Strictly(n, m) /\ Arrives(e, m) /\ mem'[e] = mem[e]
    BY <1>3
  <2>3. CASE a = n /\ c \in A /\ m = n /\ e \in A
    BY <1>1, <2>3
  <2>4. CASE Arrives(c, a) /\ mem'[c] = mem[c] /\ Arrives(e, m) /\ mem'[e] = mem[e]
    BY <2>4 DEF Order, InOrder
  <2>5. CASE a # n /\ Arrives(c, a) /\ mem'[c] = mem[c] /\ m = n /\ e \in A
    <3>1. Strictly(a, n)
      BY <2>5 DEF Strictly
    <3>2. Origin(mem[c]) < Middle(a) <=> n[Len(a) + 1] # 0
      BY <1>0, <1>2, <2>5, <3>1, NoneArrivesAbove DEF Order
    <3>3. InSide(a, n) /\ Within(Origin(mem'[e]), n)
      BY <1>1, <2>5, <3>1, Side
    <3>4. Origin(mem'[e]) < Middle(a) <=> n[Len(a) + 1] = 0
      <4> DEFINE o == Origin(mem'[e])
      <4>1. o \in Nat
        <5>1. PICK d \in A : mem'[e] = mem[d]
          BY <1>1, <2>5
        <5>2. mem[d] \in InputLines
          BY <1>1, <5>1, LiveLine
        <5> QED
          BY <5>1, <5>2, LineNumbers DEF Facts
      <4>2. NodeStart[n] \in Nat /\ Stop(n) \in Nat /\ Middle(a) \in Nat
        BY Bounds
      <4> HIDE DEF o
      <4>3. Within(o, n)
        BY <3>3 DEF o
      <4>4. o < Middle(a) <=> n[Len(a) + 1] = 0
        BY <3>3, <4>1, <4>2, <4>3 DEF InSide, Within
      <4> QED
        BY <4>4 DEF o
    <3> QED
      BY <2>5, <3>2, <3>4 DEF SameHalf
  <2>6. CASE a = n /\ m # n /\ ~Strictly(n, m)
    BY <2>6 DEF Strictly
  <2> QED
    BY <2>1, <2>2, <2>3, <2>4, <2>5, <2>6
<1>8. Prefix'
  <2>1. \A c \in LiveCells' : \E d \in LiveCells : mem'[c] = mem[d]
    BY <1>1, <1>2
  <2> QED
    BY <1>2, <2>1, StayPrefix DEF Order
<1> QED
  BY <1>6, <1>7, <1>8 DEF Order

-----------------------------------------------------------------------------
(* A line is written.                                                      *)

LEMMA FirstsDistinct ==
  ASSUME TypeOK
  PROVE  Distinct(Firsts)
<1> DEFINE f == [i \in 1..NLines |-> InputLine(i)]
<1>1. f \in Bijection(1..NLines, InputLines)
  <2>1. f \in [1..NLines -> InputLines]
    BY DEF InputLines
  <2>2. \A i, j \in 1..NLines : f[i] = f[j] => i = j
    BY DEF InputLine
  <2>3. \A l \in InputLines : \E i \in 1..NLines : f[i] = l
    BY DEF InputLines
  <2> QED
    BY <2>1, <2>2, <2>3, Fun_IsBij
<1>2. IsFiniteSet(1..NLines)
  BY FS_Interval
<1>3. IsFiniteSet(InputLines)
  BY <1>1, <1>2, FS_Bijection DEF ExistsBijection
<1>4. Firsts \subseteq InputLines
  BY DEF Firsts
<1>5. IsFiniteSet(Firsts)
  BY <1>3, <1>4, FS_Subset
<1>6. \A x, y \in Firsts : x[2] = y[2] => x = y
  BY <1>4, LineNumbers
<1>7. Firsts \subseteq Line
  BY <1>4, LineNumbers
<1> QED
  BY <1>5, <1>6, <1>7 DEF Distinct

\* Of a key, there is one line to write.
LEMMA FirstOfKey ==
  ASSUME TypeOK, Unique, NEW k \in Firsts, NEW l \in Firsts, k[1] = l[1]
  PROVE  k = l
<1>1. k \in InputLines /\ l \in InputLines
  BY DEF Firsts
<1>2. k[2] <= l[2] /\ l[2] <= k[2]
  BY <1>1 DEF Firsts
<1>3. k[2] \in Nat /\ l[2] \in Nat /\ k = InputLine(k[2]) /\ l = InputLine(l[2])
  BY <1>1, LineNumbers
<1>4. k[2] = l[2]
  BY <1>2, <1>3
<1> QED
  BY <1>3, <1>4

LEMMA WrittenLines ==
  ASSUME TypeOK, Prefix
  PROVE  /\ Len(out) \in Nat /\ DOMAIN out = 1 .. Len(out)
         /\ Written \subseteq Firsts /\ Firsts \subseteq InputLines
         /\ out # << >> => Len(out) \in 1 .. Len(out) /\ out[Len(out)] \in Written
         /\ \A k \in Written : k = out[Len(out)] \/ Before(k, out[Len(out)])
<1>1. out \in Seq(Line \cup {Junk})
  BY DEF TypeOK
<1>2. Len(out) \in Nat /\ DOMAIN out = 1 .. Len(out)
  BY <1>1
<1>3. Written \subseteq Firsts /\ Firsts \subseteq InputLines
  BY <1>2 DEF Written, Prefix, Firsts
<1>4. out # << >> => Len(out) \in 1 .. Len(out) /\ out[Len(out)] \in Written
  <2>1. out # << >> => Len(out) \in 1 .. Len(out)
    BY <1>1
  <2> QED
    BY <1>2, <2>1 DEF Written
<1>5. ASSUME NEW i \in 1 .. Len(out)
      PROVE  out[i] = out[Len(out)] \/ Before(out[i], out[Len(out)])
  <2> DEFINE k == out[i]
             l == out[Len(out)]
  <2>1. /\ k \in Firsts /\ Rank(Firsts, k) = i - 1
        /\ l \in Firsts /\ Rank(Firsts, l) = Len(out) - 1
    <3>1. Len(out) \in 1 .. Len(out)
      BY <1>2
    <3> QED
      BY <3>1 DEF Prefix
  <2>2. k = l \/ Before(k, l) \/ Before(l, k)
    BY <1>3, <2>1, BeforeAfter
  <2>3. ~Before(l, k)
    <3> SUFFICES ASSUME Before(l, k) PROVE FALSE
      OBVIOUS
    <3>1. Rank(Firsts, l) < Rank(Firsts, k)
      BY <2>1, FirstsDistinct, RankGrows
    <3> QED
      BY <1>2, <2>1, <3>1
  <2> QED
    BY <2>2, <2>3
<1> QED
  BY <1>2, <1>3, <1>4, <1>5 DEF Written

\* A line that comes before all others left, and after those written, is the next.
LEMMA NextLine ==
  ASSUME TypeOK, Conserved, Prefix, NEW src \in LiveCells,
         \A c \in LiveCells : c # src => Before(mem[src], mem[c]),
         ~(Unique /\ out # << >> /\ out[Len(out)][1] = mem[src][1])
  PROVE  mem[src] \in Firsts /\ Rank(Firsts, mem[src]) = Len(out)
<1> DEFINE l == mem[src]
           last == out[Len(out)]
<1>1. l \in InputLines /\ \A k \in Written : k \in InputLines /\ Before(k, l)
  BY DEF Conserved, OneEach, Prefix
<1>2. /\ Len(out) \in Nat /\ DOMAIN out = 1 .. Len(out)
      /\ Written \subseteq Firsts /\ Firsts \subseteq InputLines
      /\ out # << >> => Len(out) \in 1 .. Len(out) /\ last \in Written
      /\ \A k \in Written : k = last \/ Before(k, last)
  BY WrittenLines
<1>3. out = << >> => Written = {} /\ Len(out) = 0
  BY DEF Written
<1>4. ASSUME NEW k \in InputLines, Before(k, l)
      PROVE  k \in Written \/ (Unique /\ \E m \in Written : m[1] = k[1])
  <2>1. ASSUME NEW c \in LiveCells, mem[c] = k PROVE FALSE
    <3>1. c # src
      BY <1>1, <1>4, <2>1, BeforeAfter
    <3>2. Before(l, k)
      BY <2>1, <3>1
    <3> QED
      BY <1>1, <1>4, <3>2, BeforeAfter
  <2> QED
    BY <2>1 DEF Conserved
<1>5. ~(Unique /\ \E m \in Written : m[1] = l[1])
  <2> SUFFICES ASSUME Unique, NEW m \in Written, m[1] = l[1] PROVE FALSE
    OBVIOUS
  <2>1. out # << >>
    BY <1>3
  <2>2. last \in Written /\ (m = last \/ Before(m, last)) /\ Before(last, l)
    BY <1>1, <1>2, <2>1
  <2>3. m[1] \in Nat /\ last[1] \in Nat /\ l[1] \in Nat
    BY <1>1, <2>2, LineNumbers
  <2>4. m[1] <= last[1] /\ last[1] <= l[1]
    BY <2>2, <2>3 DEF Before
  <2>5. last[1] = l[1]
    BY <2>3, <2>4
  <2> QED
    BY <2>1, <2>5
<1>6. l \in Firsts
  <2> SUFFICES ASSUME Unique, NEW k \in InputLines, k[1] = l[1], ~(l[2] <= k[2]) PROVE FALSE
    BY <1>1 DEF Firsts
  <2>1. k[2] \in Nat /\ l[2] \in Nat /\ k[1] \in Nat
    BY <1>1, LineNumbers
  <2>2. Before(k, l)
    BY <2>1 DEF Before
  <2>3. \E m \in Written : m[1] = l[1]
    BY <1>4, <2>2
  <2> QED
    BY <1>5, <2>3
<1>7. ASSUME NEW k \in Firsts, Before(k, l) PROVE k \in Written
  <2> SUFFICES ASSUME Unique, NEW m \in Written, m[1] = k[1] PROVE k \in Written
    BY <1>2, <1>4, <1>7
  <2>1. m \in Firsts
    BY <1>2
  <2> QED
    BY <2>1, FirstOfKey
<1>8. Earlier(Firsts, l) = Written
  BY <1>1, <1>2, <1>7 DEF Earlier
<1>9. CASE out = << >>
  <2>1. Rank(Firsts, l) = Cardinality({})
    BY <1>3, <1>8, <1>9 DEF Rank
  <2> QED
    BY <1>3, <1>6, <1>9, <2>1, FS_EmptySet
<1>10. CASE out # << >>
  <2>1. last \in Firsts /\ Rank(Firsts, last) = Len(out) - 1
    BY <1>2, <1>10 DEF Prefix
  <2>2. Written = Earlier(Firsts, last) \cup {last}
    <3>1. ASSUME NEW k \in Firsts, Before(k, last) PROVE k \in Written
      <4>1. Before(k, l)
        BY <1>1, <1>2, <1>10, <3>1, BeforeTrans
      <4> QED
        BY <1>7, <4>1
    <3> QED
      BY <1>2, <1>10, <3>1 DEF Earlier
  <2>3. last \notin Earlier(Firsts, last)
    BY <1>2, <2>1, BeforeAfter DEF Earlier
  <2>4. IsFiniteSet(Earlier(Firsts, last))
    BY FirstsDistinct, FS_Subset DEF Distinct, Earlier
  <2>5. Cardinality(Earlier(Firsts, last) \cup {last}) = Cardinality(Earlier(Firsts, last)) + 1
    BY <2>3, <2>4, FS_AddElement
  <2>6. Rank(Firsts, l) = Rank(Firsts, last) + 1
    BY <1>8, <2>2, <2>5 DEF Rank
  <2> QED
    BY <1>2, <1>6, <2>1, <2>6
<1> QED
  BY <1>9, <1>10

\* At the root the line taken comes before all that are left.
LEMMA RootTakesFirst ==
  ASSUME Facts, Layout, Conserved, Order, NEW t \in Threads, NEW src \in Nat, Takes(t, src),
         at[t] = Root, NEW c \in LiveCells, c # src
  PROVE  Before(mem[src], mem[c])
<1>1. Root \in Nodes /\ Working(t) /\ pc[t] # "idle" /\ ~Descending(t)
  BY RootIsNode DEF Takes, Working, Descending
<1>2. \A m \in Nodes : Arrives(c, m) => Before(mem[src], mem[c])
  BY <1>1, RootAbove, TakesFirst DEF Order
<1>3. ASSUME NEW u \in Threads, c \in InFlight(u) PROVE Before(mem[src], mem[c])
  <2>1. Parent(at[u]) \in Nodes
    BY <1>3, InFlightIn, ChildShare
  <2> QED
    BY <1>2, <1>3, <2>1 DEF Arrives
<1>4. ASSUME NEW u \in Threads, c \in Unsorted(u) PROVE FALSE
  <2>1. Descending(u) /\ at[u] \in Nodes
    BY <1>4, UnsortedIn
  <2>2. CASE at[u] = Root
    <3>1. t = u
      BY <1>1, <2>1, <2>2, UnderItself, FreshAlone
    <3> QED
      BY <1>1, <2>1, <3>1
  <2>3. CASE at[u] # Root
    <3>1. Strictly(at[t], at[u])
      BY <2>1, <2>3, RootAbove DEF Strictly
    <3>2. ~BothAvailable(at[t]) /\ ~CanDrainLo(t) /\ ~CanDrainHi(t)
      BY <1>1, <2>1, <3>1, NothingToTake
    <3> QED
      BY <3>2 DEF Takes
  <2> QED
    BY <2>2, <2>3
<1> QED
  BY <1>2, <1>3, <1>4, LiveCell DEF Arrives

LEMMA WritePrefix ==
  ASSUME TypeOK, Conserved, Prefix, NEW src \in LiveCells,
         \A c \in LiveCells : c # src => Before(mem[src], mem[c]),
         LiveCells' = LiveCells \ {src}, UNCHANGED <<input, mem>>, out' = WriteUnique(mem[src])
  PROVE  Prefix'
<1> DEFINE l == mem[src]
<1>1. Firsts' = Firsts
  BY DEF Firsts, InputLines, InputLine
<1>2. \A k \in Written', c \in LiveCells' : Before(k, mem'[c])
  <2>1. Written' \subseteq Written \cup {l}
    BY WriteEffect
  <2> QED
    BY <2>1 DEF Prefix
<1>3. \A i \in 1 .. Len(out') : out'[i] \in Firsts /\ Rank(Firsts, out'[i]) = i - 1
  <2>1. CASE Unique /\ out # << >> /\ out[Len(out)][1] = l[1]
    <3>1. out' = out
      BY <2>1 DEF WriteUnique
    <3> QED
      BY <3>1 DEF Prefix
  <2>2. CASE ~(Unique /\ out # << >> /\ out[Len(out)][1] = l[1])
    <3>1. out' = Append(out, l)
      BY <2>2 DEF WriteUnique
    <3>2. l \in Firsts /\ Rank(Firsts, l) = Len(out)
      BY <2>2, NextLine
    <3>3. out \in Seq(Line \cup {Junk}) /\ Len(out) \in Nat
      BY WrittenLines DEF TypeOK
    <3>4. /\ Len(out') = Len(out) + 1 /\ out'[Len(out) + 1] = l
          /\ \A i \in 1 .. Len(out) : out'[i] = out[i]
      BY <3>1, <3>3
    <3>5. ASSUME NEW i \in 1 .. Len(out')
          PROVE  out'[i] \in Firsts /\ Rank(Firsts, out'[i]) = i - 1
      <4>1. CASE i \in 1 .. Len(out)
        BY <3>4, <4>1 DEF Prefix
      <4>2. CASE i = Len(out) + 1
        BY <3>2, <3>3, <3>4, <4>2
      <4> QED
        BY <3>3, <3>4, <4>1, <4>2
    <3> QED
      BY <3>5
  <2> QED
    BY <2>1, <2>2
<1> QED
  BY <1>1, <1>2, <1>3 DEF Prefix

LEMMA TakeOrder ==
  ASSUME Facts, Layout, Conserved, Order, NEW t \in Threads, NEW src \in Nat, Takes(t, src)
  PROVE  Order'
<1>0. PICK n \in Nodes : n = at[t]
  BY DEF Takes
<1>1. Placed' /\ InOrder'
  BY TakeInOrder DEF Order
<1>2. UNCHANGED input /\ src \in LiveCells
  BY <1>0, TakeCells
<1>3. CASE n = Root
  <2>1. LiveCells' = LiveCells \ {src} /\ mem' = mem /\ out' = WriteUnique(mem[src])
    BY <1>0, <1>3, TakeCells
  <2>2. \A c \in LiveCells : c # src => Before(mem[src], mem[c])
    BY <1>0, <1>3, RootTakesFirst
  <2>3. Prefix'
    BY <1>2, <2>1, <2>2, WritePrefix DEF Facts, Order
  <2> QED
    BY <1>1, <2>3 DEF Order
<1>4. CASE n # Root
  <2> DEFINE d == loc[t].dest
  <2>1. /\ LiveCells' = (LiveCells \ {src}) \cup {d} /\ out' = out
        /\ mem'[d] = mem[src] /\ \A c \in LiveCells : mem'[c] = mem[c]
    BY <1>0, <1>4, TakeCells
  <2> HIDE DEF d
  <2>2. \A c \in LiveCells' : \E e \in LiveCells : mem'[c] = mem[e]
    BY <1>2, <2>1
  <2>3. Prefix'
    BY <1>2, <2>1, <2>2, StayPrefix DEF Order
  <2> QED
    BY <1>1, <2>3 DEF Order
<1> QED
  BY <1>3, <1>4

-----------------------------------------------------------------------------
(* Every step keeps the order.                                             *)

LEMMA InitOrder == Init => Order
<1> SUFFICES ASSUME Init PROVE Order
  OBVIOUS
<1>1. /\ mem = [a \in Cells |-> IF a < NLines THEN <<input[a + 1], a + 1>> ELSE Junk]
      /\ out = << >> /\ \A n \in Nodes : node[n] = InitNode(n)
      /\ \A t \in Threads : pc[t] = (IF t = Main THEN "call" ELSE "idle") /\ at[t] = t
  BY DEF Init
<1>2. ASSUME NEW n \in Nodes PROVE Available(n) = {}
  <2>1. /\ node[n].lo = Base(n) /\ node[n].endLo = Base(n)
        /\ node[n].hi = Base(n) + Half(n) /\ node[n].endHi = Base(n) + Half(n)
        /\ Base(n) \in Nat /\ Half(n) \in Nat
    BY <1>1, AsInit, Starts, Numbers
  <2> QED
    BY <2>1 DEF Available
<1>3. \A u \in Threads : InFlight(u) = {}
  BY <1>1 DEF InFlight
<1>4. ASSUME NEW u \in Threads, NEW c \in Unsorted(u) PROVE Origin(mem[c]) = c
  <2>1. u = Main /\ pc[u] = "call" /\ at[u] = Root
    BY <1>1, <1>4 DEF Unsorted, Main
  <2>2. NodeStart[Root] = 0 /\ NodeLines[Root] = NLines
    BY TreeAssumption
  <2>3. c \in NodeStart[Root] .. NodeStart[Root] + NodeLines[Root] - 1
    BY <1>4, <2>1 DEF Unsorted
  <2>4. c \in 0 .. NLines - 1
    BY <2>2, <2>3
  <2>5. c \in Cells
    <3>1. In(c, 0, Root)
      BY <2>4, TreeAssumption DEF In, Within, Stop
    <3> QED
      BY <2>4, <3>1, RootIsNode, InCells
  <2>6. mem[c] = <<input[c + 1], c + 1>>
    BY <1>1, <2>4, <2>5
  <2> QED
    BY <2>4, <2>6 DEF Origin
<1>5. \A n \in Nodes : \A c : ~Arrives(c, n)
  BY <1>2, <1>3 DEF Arrives
<1>6. Written = {} /\ 1 .. Len(out) = {}
  BY <1>1 DEF Written
<1>7. Placed /\ InOrder
  BY <1>4, <1>5 DEF Placed, InOrder
<1>8. Prefix
  BY <1>6 DEF Prefix
<1> QED
  BY <1>7, <1>8 DEF Order

LEMMA OrderStep ==
  ASSUME Facts, Layout, Conserved, Order, [Next]_vars
  PROVE  Order'
BY StepEffects, UnmovedOrder, TakeOrder, SortLeafOrder, PublishOrder

-----------------------------------------------------------------------------
(* All of them are written before the merge ends.                          *)

\* The sequence to write is the lines to write, in order.
LEMMA ExpectedLines ==
  ASSUME input \in Inputs
  PROVE  Expected = [k \in 1 .. Cardinality(Firsts) |-> Nth(Firsts, k)]
<1> DEFINE first == { i \in 1..NLines : Unique => \A j \in 1..(i - 1) : input[j] # input[i] }
           lines == { <<input[i], i>> : i \in first }
<1>1. Expected = [k \in 1 .. Cardinality(lines) |-> Nth(lines, k)]
  BY DEF Expected, StableOrder
<1>2. ASSUME NEW i \in 1..NLines PROVE i \in first <=> InputLine(i) \in Firsts
  <2> DEFINE l == InputLine(i)
  <2>1. l \in InputLines /\ l[1] = input[i] /\ l[2] = i
    BY DEF InputLines, InputLine
  <2>2. l \in Firsts <=> (Unique => \A k \in InputLines : k[1] = input[i] => i <= k[2])
    BY <2>1 DEF Firsts
  <2>3. (\A k \in InputLines : k[1] = input[i] => i <= k[2])
          <=> \A j \in 1..NLines : input[j] = input[i] => i <= j
    <3>1. \A j \in 1..NLines : InputLine(j)[1] = input[j] /\ InputLine(j)[2] = j
      BY DEF InputLine
    <3> QED
      BY <3>1 DEF InputLines
  <2>4. (\A j \in 1..NLines : input[j] = input[i] => i <= j)
          <=> \A j \in 1..(i - 1) : input[j] # input[i]
    <3>1. ASSUME \A j \in 1..NLines : input[j] = input[i] => i <= j, NEW j \in 1..(i - 1),
                 input[j] = input[i]
          PROVE  FALSE
      <4>1. j \in 1..NLines /\ ~(i <= j)
        OBVIOUS
      <4> QED
        BY <3>1, <4>1
    <3>2. ASSUME \A j \in 1..(i - 1) : input[j] # input[i], NEW j \in 1..NLines,
                 input[j] = input[i]
          PROVE  i <= j
      <4>1. ~(j \in 1..(i - 1))
        BY <3>2
      <4> QED
        BY <4>1
    <3> QED
      BY <3>1, <3>2
  <2> QED
    BY <2>2, <2>3, <2>4
<1>3. lines = Firsts
  <2>1. lines = { InputLine(i) : i \in first }
    BY DEF InputLine
  <2>2. first \subseteq 1..NLines
    OBVIOUS
  <2>3. Firsts = { InputLine(i) : i \in { j \in 1..NLines : InputLine(j) \in Firsts } }
    BY DEF Firsts, InputLines
  <2> HIDE DEF first
  <2>4. first = { j \in 1..NLines : InputLine(j) \in Firsts }
    BY <1>2, <2>2
  <2> QED
    BY <2>1, <2>3, <2>4
<1> QED
  BY <1>1, <1>3

\* What is written is a prefix of it.
LEMMA WrittenExpected ==
  ASSUME TypeOK, Prefix, input \in Inputs
  PROVE  /\ Len(out) \in Nat /\ Cardinality(Firsts) \in Nat /\ Len(out) <= Cardinality(Firsts)
         /\ \A i \in 1 .. Len(out) : out[i] = Expected[i]
         /\ Len(out) = Cardinality(Firsts) => out = Expected
<1> DEFINE c == Cardinality(Firsts)
<1>1. Len(out) \in Nat /\ out \in Seq(Line \cup {Junk})
  BY WrittenLines DEF TypeOK
<1>2. c \in Nat /\ Distinct(Firsts)
  BY FirstsDistinct, FS_CardinalityType DEF Distinct
<1>3. Len(out) <= c
  <2>1. CASE Len(out) = 0
    BY <1>2, <2>1
  <2>2. CASE Len(out) # 0
    <3>1. Len(out) \in 1 .. Len(out)
      BY <1>1, <2>2
    <3>2. out[Len(out)] \in Firsts /\ Rank(Firsts, out[Len(out)]) = Len(out) - 1
      BY <3>1 DEF Prefix
    <3>3. Len(out) - 1 \in 0 .. c - 1
      BY <1>2, <3>2, RankBounds
    <3> QED
      BY <1>1, <1>2, <3>3
  <2> QED
    BY <2>1, <2>2
<1>4. ASSUME NEW i \in 1 .. Len(out) PROVE i \in 1 .. c /\ out[i] = Expected[i]
  <2>1. i \in 1 .. c
    BY <1>1, <1>2, <1>3
  <2>2. Nth(Firsts, i) \in Firsts /\ Rank(Firsts, Nth(Firsts, i)) = i - 1
    BY <1>2, <2>1, NthLine
  <2>3. out[i] \in Firsts /\ Rank(Firsts, out[i]) = i - 1
    BY DEF Prefix
  <2>4. out[i] = Nth(Firsts, i)
    BY <1>2, <2>2, <2>3, RankOnce
  <2> QED
    BY <2>1, <2>4, ExpectedLines
<1>5. ASSUME Len(out) = c PROVE out = Expected
  <2>1. out = [i \in 1 .. c |-> out[i]]
    BY <1>1, <1>5
  <2>2. Expected = [i \in 1 .. c |-> Expected[i]]
    BY ExpectedLines
  <2>3. \A i \in 1 .. c : out[i] = Expected[i]
    BY <1>4, <1>5
  <2> QED
    BY <2>1, <2>2, <2>3
<1> QED
  BY <1>1, <1>2, <1>3, <1>4, <1>5

\* What a step writes is the next line.
LEMMA WrittenNext ==
  ASSUME TypeOK, Prefix, Prefix', TypeOK', input \in Inputs, UNCHANGED input,
         out' # out, NEW l, out' = Append(out, l)
  PROVE  Len(out) < Cardinality(Firsts) /\ out' = Append(out, Expected[Len(out) + 1])
<1>1. Firsts' = Firsts
  BY DEF Firsts, InputLines, InputLine
<1>2. Len(out) \in Nat /\ out \in Seq(Line \cup {Junk})
  BY WrittenLines DEF TypeOK
<1>3. Len(out') = Len(out) + 1 /\ out'[Len(out) + 1] = l
  BY <1>2
<1>4. l \in Firsts /\ Rank(Firsts, l) = Len(out)
  <2>1. \A i \in 1 .. Len(out') : out'[i] \in Firsts /\ Rank(Firsts, out'[i]) = i - 1
    BY <1>1 DEF Prefix
  <2>2. Len(out) + 1 \in 1 .. Len(out') /\ (Len(out) + 1) - 1 = Len(out)
    BY <1>2, <1>3
  <2> QED
    BY <1>3, <2>1, <2>2
<1>5. Cardinality(Firsts) \in Nat /\ Len(out) \in 0 .. Cardinality(Firsts) - 1 /\ Distinct(Firsts)
  BY <1>4, FirstsDistinct, RankBounds
<1>6. Len(out) + 1 \in 1 .. Cardinality(Firsts)
  BY <1>2, <1>5
<1>7. Nth(Firsts, Len(out) + 1) \in Firsts /\ Rank(Firsts, Nth(Firsts, Len(out) + 1)) = Len(out)
  <2>1. (Len(out) + 1) - 1 = Len(out)
    BY <1>2
  <2> QED
    BY <1>5, <1>6, <2>1, NthLine
<1>8. Expected[Len(out) + 1] = l
  BY <1>4, <1>5, <1>6, <1>7, ExpectedLines, RankOnce
<1> QED
  BY <1>2, <1>5, <1>8

\* MERGE_END has been handed out.
EndSeen == queue[End] > 0 \/ \E t \in Threads : at[t] = End

Complete == input \in Inputs /\ (EndSeen => out = Expected)

\* When the root is found finished, no line is left.
LEMMA FinishedRoot ==
  ASSUME Facts, Layout, Conserved, Prefix, input \in Inputs, NEW t \in Threads,
         pc[t] = "parent", at[t] = Root, RootFinished
  PROVE  out = Expected
<1>1. Root \in Nodes /\ Merging(t)
  BY RootIsNode DEF Merging
<1>2. \A u \in Threads : ~(Working(u) /\ at[u] = Root)
  <2> SUFFICES ASSUME NEW u \in Threads, Working(u), at[u] = Root PROVE FALSE
    OBVIOUS
  <2>1. Merging(u)
    BY WorksOnNode
  <2>2. lock[Root] = u /\ lock[Root] = t
    BY <1>1, <2>1 DEF Layout, Held
  <2> QED
    BY <2>2 DEF Working
<1>3. Emptied(Root)
  <2> DEFINE b == Base(Root)
             h == Half(Root)
             e == NodeLines[Root]
             lo == node[Root].lo
             hi == node[Root].hi
             nlo == node[Root].nlo
             nhi == node[Root].nhi
  <2>1. nlo = b + h - lo /\ nhi = b + e - hi
    BY <1>1, <1>2 DEF Layout, Shape, Left
  <2>2. /\ lo <= node[Root].endLo /\ node[Root].endLo <= b + h
        /\ hi <= node[Root].endHi /\ node[Root].endHi <= b + e
    BY <1>1 DEF Layout, Shape, Chain
  <2>3. /\ lo \in Nat /\ hi \in Nat /\ node[Root].endLo \in Nat /\ node[Root].endHi \in Nat
        /\ b \in Nat /\ h \in Nat /\ e \in Nat
    BY <1>1, Pointers, Starts, Numbers DEF Facts
  <2>4. nlo + nhi = 0
    BY DEF RootFinished
  <2>5. lo <= b + h /\ hi <= b + e
    <3> HIDE DEF b, h, e, lo, hi
    <3> QED
      BY <2>2, <2>3
  <2> HIDE DEF b, h, e, lo, hi, nlo, nhi
  <2>6. 0 <= nlo /\ 0 <= nhi /\ nlo \in Int /\ nhi \in Int
    BY <2>1, <2>3, <2>5
  <2>7. nlo = 0 /\ nhi = 0
    BY <2>4, <2>6
  <2>8. lo = b + h /\ hi = b + e
    BY <2>1, <2>3, <2>7
  <2> QED
    BY <2>8 DEF Emptied, b, h, e, lo, hi
<1>4. LiveCells = {}
  <2> SUFFICES ASSUME NEW c \in LiveCells PROVE FALSE
    OBVIOUS
  <2>1. \A m \in Nodes : ~Arrives(c, m)
    BY <1>1, <1>3, RootAbove, NothingBelow
  <2>2. ASSUME NEW u \in Threads, c \in InFlight(u) PROVE FALSE
    <3>1. Parent(at[u]) \in Nodes
      BY <2>2, InFlightIn, ChildShare
    <3> QED
      BY <2>1, <2>2, <3>1 DEF Arrives
  <2>3. ASSUME NEW u \in Threads, c \in Unsorted(u) PROVE FALSE
    <3>1. at[u] \in Nodes
      BY <2>3, UnsortedIn
    <3>2. Unsorted(u) = {}
      BY <1>1, <1>3, <3>1, RootAbove, NothingBelow
    <3> QED
      BY <2>3, <3>2
  <2> QED
    BY <2>1, <2>2, <2>3, LiveCell DEF Arrives
<1>5. \A l \in Firsts : l \in Written
  <2> SUFFICES ASSUME NEW l \in Firsts PROVE l \in Written
    OBVIOUS
  <2>1. l \in Written \/ (Unique /\ \E m \in Written : m[1] = l[1])
    BY <1>4 DEF Conserved, Firsts
  <2>2. ASSUME Unique, NEW m \in Written, m[1] = l[1] PROVE l \in Written
    <3>1. m \in Firsts
      BY WrittenLines DEF Facts
    <3> QED
      BY <2>2, <3>1, FirstOfKey DEF Facts
  <2> QED
    BY <2>1, <2>2
<1>6. Len(out) \in Nat /\ Cardinality(Firsts) \in Nat /\ Len(out) <= Cardinality(Firsts)
  BY WrittenExpected DEF Facts
<1>7. Len(out) = Cardinality(Firsts)
  <2> SUFFICES ASSUME Len(out) \in 0 .. Cardinality(Firsts) - 1 PROVE FALSE
    BY <1>6
  <2>1. PICK l \in Firsts : Rank(Firsts, l) = Len(out)
    BY FirstsDistinct, RankTaken DEF Facts
  <2>2. PICK i \in 1 .. Len(out) : out[i] = l
    BY <1>5, WrittenLines DEF Written, Facts
  <2>3. Rank(Firsts, out[i]) = i - 1
    BY DEF Prefix
  <2> QED
    BY <1>6, <2>1, <2>2, <2>3
<1> QED
  BY <1>7, WrittenExpected DEF Facts

\* Only the thread that finds the root finished hands MERGE_END out.
LEMMA EndSeenBy ==
  ASSUME Facts, [Next]_vars, EndSeen'
  PROVE  \/ EndSeen
         \/ \E t \in Threads : pc[t] = "parent" /\ at[t] = Root /\ RootFinished
<1> SUFFICES ASSUME ~EndSeen
             PROVE  \E t \in Threads : pc[t] = "parent" /\ at[t] = Root /\ RootFinished
  OBVIOUS
<1>1. End \notin Nodes
  BY NamesAssumption DEF Nodes
<1>2. ~(queue[End] > 0) /\ \A t \in Threads : at[t] # End
  BY DEF EndSeen
<1>3. queue[End] \in Nat
  BY DEF Facts, TypeOK
<1>4. CASE UNCHANGED <<queue, at>>
  BY <1>2, <1>4 DEF EndSeen
<1>5. ASSUME NEW t \in Threads, Step(t) \/ SpuriousWakeup(t)
      PROVE  \/ UNCHANGED <<queue, at>>
             \/ pc[t] = "parent" /\ at[t] = Root /\ RootFinished
  <2>1. ASSUME NEW n \in Nodes, NEW next, QueueInsert(t, n, next), at' = at PROVE FALSE
    <3>1. queue'[End] = queue[End]
      BY <1>1, <2>1 DEF QueueInsert, Facts, TypeOK
    <3> QED
      BY <1>2, <2>1, <3>1 DEF EndSeen
  <2>2. CASE Split(t)
    <3>1. at[t] \in Nodes /\ Hi(at[t]) \in Nodes
      BY <2>2, SplitThreads
    <3>2. \A u \in Threads : at'[u] # End
      BY <1>1, <1>2, <2>2, <3>1 DEF Split, Facts, TypeOK
    <3>3. queue' = queue
      BY <2>2 DEF Split
    <3> QED
      BY <1>2, <3>2, <3>3 DEF EndSeen
  <2>3. CASE Pop(t)
    <3>1. PICK n \in Nodes \cup {End} : queue[n] > 0 /\ queue' = [queue EXCEPT ![n] = @ - 1]
                                        /\ at' = [at EXCEPT ![t] = n]
      BY <2>3 DEF Pop
    <3>2. n \in Nodes
      BY <1>2, <3>1
    <3>3. queue'[End] = queue[End]
      BY <1>1, <3>1, <3>2 DEF Facts, TypeOK
    <3>4. \A u \in Threads : at'[u] # End
      BY <1>1, <1>2, <3>1, <3>2 DEF Facts, TypeOK
    <3> QED
      BY <1>2, <3>3, <3>4 DEF EndSeen
  <2>4. CASE InsertLeaf(t)
    <3>1. at[t] \in Nodes
      BY <2>4, WorksOnNode DEF InsertLeaf, Descending
    <3> QED
      BY <2>1, <2>4, <3>1 DEF InsertLeaf
  <2>5. CASE CheckSelf(t)
    <3>1. at[t] \in Nodes
      BY <2>5, WorksOnNode DEF CheckSelf, Merging
    <3> QED
      BY <2>1, <2>5, <3>1 DEF CheckSelf, QueueCheckInsert, Advance
  <2>6. CASE CheckParent(t)
    <3>1. at[t] \in Nodes
      BY <2>6, WorksOnNode DEF CheckParent, Merging
    <3>2. at[t] # Root => Parent(at[t]) \in Nodes
      BY <3>1, ChildShare
    <3>3. CASE at[t] # Root
      <4>1. QueueCheckInsert(t, Parent(at[t]), "unlock") /\ at' = at
        BY <2>6, <3>3 DEF CheckParent
      <4> QED
        BY <2>1, <3>2, <3>3, <4>1 DEF QueueCheckInsert, Advance
    <3>4. CASE at[t] = Root
      BY <2>6, <3>4 DEF CheckParent, Advance
    <3> QED
      BY <3>3, <3>4
  <2>7. CASE EndInsert(t)
    <3>1. at[t] = End
      BY <2>7 DEF EndInsert, Facts, HandOver, Places, Ending
    <3> QED
      BY <1>2, <3>1
  <2>8. CASE \/ BecomeLeaf(t) \/ SortLeaf(t) \/ Wait(t) \/ SpuriousWakeup(t)
             \/ UnlockNode(t) \/ EndUnlock(t) \/ Return(t) \/ DrainEnd(t)
             \/ MergeEnd(t) \/ Publish(t)
    BY <2>8 DEF BecomeLeaf, SortLeaf, Wait, SpuriousWakeup, UnlockNode, EndUnlock, Return,
                DrainEnd, MergeEnd, Publish, Advance
  <2>9. CASE LockNode(t) \/ Join(t) \/ MergeLine(t) \/ DrainLine(t)
    BY <2>9 DEF LockNode, Join, MergeLine, DrainLine
  <2> QED
    BY <1>5, <2>2, <2>3, <2>4, <2>5, <2>6, <2>7, <2>8, <2>9 DEF Step
<1>6. CASE UNCHANGED vars
  BY <1>4, <1>6 DEF vars
<1> QED
  BY <1>4, <1>5, <1>6 DEF Next, Finished

LEMMA OutputSteps ==
  ASSUME Facts, Layout, [Next]_vars
  PROVE  UNCHANGED input /\ (out' = out \/ \E l : out' = Append(out, l))
<1>1. CASE Unmoved
  BY <1>1 DEF Unmoved
<1>2. ASSUME NEW t \in Threads, SortLeaf(t) \/ Publish(t)
      PROVE  UNCHANGED <<input, out>>
  BY <1>2, SortLeafNode, PublishNode
<1>3. ASSUME NEW t \in Threads, NEW src \in Nat, Takes(t, src)
      PROVE  UNCHANGED input /\ (out' = out \/ \E l : out' = Append(out, l))
  BY <1>3 DEF Takes, WriteUnique
<1> QED
  BY <1>1, <1>2, <1>3, StepEffects

\* A step leaves the output alone or writes the next line of it.
LEMMA OutputOrder ==
  ASSUME Facts, Facts', Layout, Conserved, Order, Order', input \in Inputs, [Next]_vars
  PROVE  /\ Expected' = Expected
         /\ \/ out' = out
            \/ Len(out) < Len(Expected) /\ out' = Append(out, Expected[Len(out) + 1])
<1>1. UNCHANGED input /\ (out' = out \/ \E l : out' = Append(out, l))
  BY OutputSteps
<1>2. Expected' = Expected
  BY <1>1 DEF Expected
<1>3. Len(Expected) = Cardinality(Firsts)
  <2>1. Cardinality(Firsts) \in Nat
    BY WrittenExpected DEF Facts, Order
  <2> QED
    BY <2>1, ExpectedLines
<1>4. out' # out => Len(out) < Cardinality(Firsts) /\ out' = Append(out, Expected[Len(out) + 1])
  BY <1>1, WrittenNext DEF Facts, Order
<1> QED
  BY <1>2, <1>3, <1>4

LEMMA CompleteStep ==
  ASSUME Facts, Facts', Layout, Conserved, Order, Order', Complete, [Next]_vars
  PROVE  Complete'
<1>1. input \in Inputs /\ UNCHANGED input
  BY OutputSteps DEF Complete
<1>2. ASSUME EndSeen' PROVE out' = Expected'
  <2>1. out = Expected
    BY <1>1, <1>2, EndSeenBy, FinishedRoot DEF Complete, Order
  <2>2. Len(out) \in Nat
    BY <1>1, WrittenExpected DEF Facts, Order
  <2>3. Expected' = Expected /\ out' = out
    BY <1>1, <2>1, <2>2, OutputOrder
  <2> QED
    BY <2>1, <2>3
<1> QED
  BY <1>1, <1>2 DEF Complete

LEMMA InitComplete == Init => Complete
<1> SUFFICES ASSUME Init PROVE Complete
  OBVIOUS
<1>1. End \notin Nodes
  BY NamesAssumption DEF Nodes
<1>2. ~(queue[End] > 0) /\ \A t \in Threads : at[t] # End
  BY <1>1 DEF Init, Threads
<1> QED
  BY <1>2 DEF Complete, EndSeen, Init

-----------------------------------------------------------------------------

\* All of what the proofs below rest on, as one invariant.
Ordered == Facts /\ Layout /\ Conserved /\ Order /\ Complete

LEMMA AlwaysOrdered == Spec => []Ordered
<1>1. Init => Layout /\ Conserved /\ Order /\ Complete
  BY InitLayout, InitConserved, InitOrder, InitComplete
<1>2. /\ Facts /\ Facts' /\ [Next]_vars
      /\ Layout /\ Conserved /\ Order /\ Complete
      => Layout' /\ Conserved' /\ Order' /\ Complete'
  BY LayoutStep, ConservedStep, OrderStep, CompleteStep
<1>3. Spec => []Facts
  BY Invariance DEF Facts
<1> QED
  BY <1>1, <1>2, <1>3, PTL DEF Spec, Ordered

\* However the threads interleave, MERGE_END is put in the queue, and so a thread ends
\* its merge loop, only when the lines of the buffer have all been written, in stable
\* order and with -u one of each key (queue_check_insert_parent, merge_loop).
THEOREM EndsComplete == Spec => []EndAfterOutput
<1>1. Ordered => EndAfterOutput
  BY DEF Ordered, Complete, EndSeen, EndAfterOutput
<1> QED
  BY <1>1, AlwaysOrdered, PTL

\* However the threads interleave, the lines are written one at a time and each in its
\* turn: the safety part of ImplementsStableSort (mergelines_node, write_unique).
THEOREM WritesInOrder == Spec => Sort!Spec
<1>1. Init => Sort!Init
  BY DEF Init, Sort!Init
<1>2. Ordered /\ Ordered' /\ [Next]_vars => [Sort!WriteLine]_<<Expected, out>>
  BY OutputOrder DEF Ordered, Complete, Sort!WriteLine
<1> QED
  BY <1>1, <1>2, AlwaysOrdered, PTL DEF Spec, Sort!Spec
================================================================================
