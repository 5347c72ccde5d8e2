---------------------------- MODULE SortLinesProofs ----------------------------
(***************************************************************************)
(* Where the lines are while SortMerge runs, for any number of threads and *)
(* lines and any buffer: the nodes' shares of the line cells, the          *)
(* invariant Layout of the pointers that divide them, and the theorem that *)
(* no line is lost, copied or overwritten while the threads sort and merge *)
(* (mergelines_node, sortlines), nor left in the scratch space.            *)
(***************************************************************************)
EXTENDS SortMergeProofs, FunctionTheorems

USE SizesAssumption

-----------------------------------------------------------------------------
(* The shares of the nodes.                                                *)

Half(n) == NodeLines[n] \div 2
Middle(n) == NodeStart[n] + Half(n)
Stop(n) == NodeStart[n] + NodeLines[n]
Strictly(n, m) == Under(n, m) /\ n # m

\* The x-th line is in n's share; cell c is at the place of one in area k.
Within(x, n) == NodeStart[n] <= x /\ x < Stop(n)
In(c, k, n) == Within(c - k * NLines, n)

LEMMA Numbers ==
  ASSUME NEW n \in Nodes
  PROVE  /\ NodeLines[n] \in Nat /\ NodeStart[n] \in Nat /\ Half(n) \in Nat
         /\ Half(n) <= NodeLines[n] /\ (NodeLines[n] >= 2 => Half(n) >= 1)
<1>1. NodeLines[n] \in Nat /\ NodeStart[n] \in Nat
  BY TreeAssumption
<1> QED
  BY <1>1 DEF Half

LEMMA Bounds ==
  ASSUME NEW n \in Nodes
  PROVE  /\ NodeStart[n] \in Nat /\ Middle(n) \in Nat /\ Stop(n) \in Nat
         /\ NodeStart[n] <= Middle(n) /\ Middle(n) <= Stop(n)
BY Numbers DEF Middle, Stop

\* A child has one half of its parent's share.
LEMMA ChildShare ==
  ASSUME NEW c \in Nodes, c # Root
  PROVE  LET p == Parent(c)
             b == c[Len(c)]
         IN /\ p \in Nodes /\ Len(c) = Len(p) + 1 /\ b \in {0, 1} /\ Strictly(p, c)
            /\ b = 0 => /\ NodeStart[c] = NodeStart[p] /\ Stop(c) = Middle(p)
                        /\ NodeLines[c] = Half(p)
            /\ b = 1 => /\ NodeStart[c] = Middle(p) /\ Stop(c) = Stop(p)
                        /\ NodeLines[c] = NodeLines[p] - Half(p)
<1> DEFINE p == Parent(c)
<1>1. /\ p \in Nodes /\ NodeLines[c] = Share(NodeLines[p], c[Len(c)])
      /\ NodeStart[c] = NodeStart[p] + (IF c[Len(c)] = 0 THEN 0 ELSE NodeLines[p] \div 2)
  BY TreeAssumption
<1>2. c \in Seq({0, 1}) /\ Len(c) \in Nat /\ Len(c) # 0
  BY NodesAreSequences DEF Root
<1>3. c[Len(c)] \in {0, 1}
  BY <1>2
<1>4. Under(p, c)
  BY <1>1, UnderItself, UnderParent
<1>5. Len(p) = Len(c) - 1
  <2> DEFINE k == Len(c) - 1
  <2>1. k \in Nat /\ k <= Len(c) /\ 1 \in 1..(Len(c) + 1) /\ p = SubSeq(c, 1, k)
    BY <1>2 DEF Parent
  <2> HIDE DEF p
  <2>2. Len(SubSeq(c, 1, k)) = k
    <3> HIDE DEF k
    <3> QED
      BY <1>2, <2>1
  <2> QED
    BY <2>1, <2>2
<1>6. NodeLines[p] \in Nat /\ NodeStart[p] \in Nat
  BY <1>1, Numbers
<1>7. c[Len(c)] = 0 => /\ NodeStart[c] = NodeStart[p] /\ Stop(c) = Middle(p)
                       /\ NodeLines[c] = Half(p)
  BY <1>1, <1>6 DEF Share, Half, Middle, Stop
<1>8. c[Len(c)] = 1 => /\ NodeStart[c] = Middle(p) /\ Stop(c) = Stop(p)
                       /\ NodeLines[c] = NodeLines[p] - Half(p)
  BY <1>1, <1>6 DEF Share, Half, Middle, Stop
<1> QED
  BY <1>1, <1>2, <1>3, <1>4, <1>5, <1>7, <1>8 DEF Strictly

\* A node is of one length with a node above it only if it is the same one.
LEMMA SameLength ==
  ASSUME NEW n \in Nodes, NEW m \in Nodes, Under(n, m), Len(m) <= Len(n)
  PROVE  n = m
<1>1. /\ n \in Seq({0, 1}) /\ m \in Seq({0, 1}) /\ Len(n) \in Nat /\ Len(m) \in Nat
  BY NodesAreSequences
<1>2. Len(n) = Len(m) /\ \A i \in 1..Len(n) : n[i] = m[i]
  BY <1>1 DEF Under
<1> QED
  BY <1>1, <1>2

\* What is strictly above a node is above its parent.
LEMMA AboveParent ==
  ASSUME NEW n \in Nodes, NEW m \in Nodes, Strictly(n, m)
  PROVE  /\ m # Root /\ Parent(m) \in Nodes /\ Under(n, Parent(m))
         /\ \A i \in 1..Len(n) + 1 : i < Len(m) => Parent(m)[i] = m[i]
<1>1. /\ m \in Seq({0, 1}) /\ Len(n) \in Nat /\ Len(m) \in Nat
  BY NodesAreSequences
<1>2. Len(n) < Len(m)
  BY <1>1, SameLength DEF Strictly, Under
<1>3. m # Root
  BY <1>1, <1>2 DEF Root
<1>4. /\ Parent(m) \in Nodes /\ Len(m) = Len(Parent(m)) + 1 /\ Under(Parent(m), m)
  BY <1>3, ChildShare DEF Strictly
<1>5. Len(Parent(m)) \in Nat /\ \A i \in 1..Len(Parent(m)) : m[i] = Parent(m)[i]
  BY <1>4, NodesAreSequences DEF Under
<1> QED
  BY <1>1, <1>2, <1>3, <1>4, <1>5 DEF Under, Strictly

\* The share of a node under n is in the half of n's share that the path takes.
InSide(n, m) ==
  IF m[Len(n) + 1] = 0
  THEN NodeStart[n] <= NodeStart[m] /\ Stop(m) <= Middle(n)
  ELSE m[Len(n) + 1] = 1 /\ Middle(n) <= NodeStart[m] /\ Stop(m) <= Stop(n)

LEMMA Side ==
  ASSUME NEW n \in Nodes, NEW m \in Nodes, Strictly(n, m)
  PROVE  InSide(n, m)
<1> DEFINE bad == { Len(x) : x \in { y \in Nodes : Strictly(n, y) /\ ~InSide(n, y) } }
<1> SUFFICES ASSUME bad # {} PROVE FALSE
  OBVIOUS
<1>1. bad \in SUBSET Nat
  BY NodesAreSequences
<1>2. PICK d \in bad : \A e \in bad : d <= e
  BY <1>1, Least
<1>3. PICK x \in Nodes : Strictly(n, x) /\ ~InSide(n, x) /\ Len(x) = d
  BY <1>2
<1> DEFINE p == Parent(x)
<1>4. /\ x # Root /\ p \in Nodes /\ Under(n, p)
      /\ \A i \in 1..Len(n) + 1 : i < Len(x) => p[i] = x[i]
  BY <1>3, AboveParent
<1>5. /\ Len(x) = Len(p) + 1 /\ x[Len(x)] \in {0, 1}
      /\ x[Len(x)] = 0 => NodeStart[x] = NodeStart[p] /\ Stop(x) = Middle(p)
      /\ x[Len(x)] = 1 => NodeStart[x] = Middle(p) /\ Stop(x) = Stop(p)
  BY <1>4, ChildShare
<1>6. /\ NodeStart[p] \in Nat /\ Middle(p) \in Nat /\ Stop(p) \in Nat
      /\ NodeStart[p] <= Middle(p) /\ Middle(p) <= Stop(p)
      /\ NodeStart[n] \in Nat /\ Middle(n) \in Nat /\ Stop(n) \in Nat
  BY <1>4, Bounds
<1>7. Len(p) \in Nat /\ Len(n) \in Nat
  BY <1>4, NodesAreSequences
<1>8. CASE n = p
  BY <1>3, <1>5, <1>6, <1>7, <1>8 DEF InSide
<1>9. CASE n # p
  <2>1. Strictly(n, p)
    BY <1>4, <1>9 DEF Strictly
  <2>2. Len(n) < Len(p)
    BY <1>4, <1>7, <1>9, SameLength
  <2>3. p[Len(n) + 1] = x[Len(n) + 1]
    BY <1>4, <1>5, <1>7, <2>2
  <2>4. InSide(n, p)
    <3>1. ~(Len(p) \in bad)
      BY <1>2, <1>3, <1>5, <1>7
    <3> QED
      BY <1>4, <2>1, <3>1
  <2>5. NodeStart[p] <= NodeStart[x] /\ Stop(x) <= Stop(p)
    BY <1>5, <1>6
  <2>6. NodeStart[x] \in Nat /\ Stop(x) \in Nat
    BY Bounds
  <2>7. InSide(n, x)
    BY <1>6, <2>3, <2>4, <2>5, <2>6 DEF InSide
  <2> QED
    BY <1>3, <2>7
<1> QED
  BY <1>8, <1>9

LEMMA Nested ==
  ASSUME NEW n \in Nodes, NEW m \in Nodes, Under(n, m)
  PROVE  NodeStart[n] <= NodeStart[m] /\ Stop(m) <= Stop(n)
<1>1. /\ NodeStart[n] \in Nat /\ Middle(n) \in Nat /\ Stop(n) \in Nat
      /\ NodeStart[n] <= Middle(n) /\ Middle(n) <= Stop(n)
      /\ NodeStart[m] \in Nat /\ Stop(m) \in Nat
  BY Bounds
<1>2. CASE n # m
  <2>1. InSide(n, m)
    BY <1>2, Side DEF Strictly
  <2> QED
    BY <1>1, <2>1 DEF InSide
<1> QED
  BY <1>1, <1>2

\* Two nodes that share a line are one under the other.
LEMMA Apart ==
  ASSUME NEW n \in Nodes, NEW m \in Nodes, NEW x \in Int, Within(x, n), Within(x, m)
  PROVE  Under(n, m) \/ Under(m, n)
<1> DEFINE Bad(y) == Within(x, y) /\ ~Under(y, m) /\ ~Under(m, y)
           bad == { Len(y) : y \in { z \in Nodes : Bad(z) } }
<1> SUFFICES ASSUME bad # {} PROVE FALSE
  OBVIOUS
<1>1. bad \in SUBSET Nat
  BY NodesAreSequences
<1>2. PICK d \in bad : \A e \in bad : d <= e
  BY <1>1, Least
<1>3. PICK y \in Nodes : Bad(y) /\ Len(y) = d
  BY <1>2
<1>4. Len(m) \in Nat /\ Len(y) \in Nat /\ y \in Seq({0, 1})
  BY NodesAreSequences
<1>5. y # Root
  BY <1>3, <1>4 DEF Root, Under
<1> DEFINE p == Parent(y)
<1>6. /\ p \in Nodes /\ Len(y) = Len(p) + 1 /\ y[Len(y)] \in {0, 1} /\ Under(p, y)
      /\ y[Len(y)] = 0 => NodeStart[y] = NodeStart[p] /\ Stop(y) = Middle(p)
      /\ y[Len(y)] = 1 => NodeStart[y] = Middle(p) /\ Stop(y) = Stop(p)
  BY <1>5, ChildShare DEF Strictly
<1>7. /\ NodeStart[p] \in Nat /\ Middle(p) \in Nat /\ Stop(p) \in Nat
      /\ NodeStart[p] <= Middle(p) /\ Middle(p) <= Stop(p)
      /\ NodeStart[m] \in Nat /\ Stop(m) \in Nat
      /\ Len(p) \in Nat
  BY <1>6, Bounds, NodesAreSequences
<1>8. Within(x, p)
  BY <1>3, <1>6, <1>7 DEF Within
<1>9. ~Bad(p)
  BY <1>2, <1>3, <1>6, <1>7
<1>10. ~Under(m, p)
  BY <1>3, <1>5, UnderParent
<1>11. Strictly(p, m)
  BY <1>8, <1>9, <1>10, <1>6, UnderItself DEF Strictly
<1>12. InSide(p, m)
  BY <1>6, <1>11, Side
<1>13. m[Len(p) + 1] = y[Len(y)]
  BY <1>3, <1>6, <1>7, <1>12 DEF InSide, Within
<1>14. Under(y, m)
  <2>1. Len(p) < Len(m)
    BY <1>4, <1>6, <1>7, <1>11, SameLength DEF Strictly, Under
  <2>2. \A i \in 1..Len(p) : m[i] = y[i]
    BY <1>6, <1>11 DEF Strictly, Under
  <2>3. \A i \in 1..Len(y) : m[i] = y[i]
    <3> TAKE i \in 1..Len(y)
    <3>1. i \in 1..Len(p) \/ i = Len(y)
      BY <1>6, <1>7
    <3> QED
      BY <1>6, <1>13, <2>2, <3>1
  <2> QED
    BY <1>4, <1>6, <1>7, <2>1, <2>3 DEF Under
<1> QED
  BY <1>3, <1>14

-----------------------------------------------------------------------------
(* The areas.                                                              *)

LEMMA AreaNumber ==
  ASSUME NEW k \in Nat
  PROVE  k * NLines \in Nat /\ (k + 1) * NLines = k * NLines + NLines
OBVIOUS

LEMMA AreasApart ==
  ASSUME NEW k \in Nat, NEW j \in Nat, k < j
  PROVE  k * NLines + NLines <= j * NLines
<1> DEFINE d == j - k - 1
<1>1. d \in Nat /\ j = k + 1 + d
  OBVIOUS
<1>2. j * NLines = k * NLines + NLines + d * NLines
  BY <1>1
<1>3. d * NLines \in Nat /\ k * NLines \in Nat
  BY <1>1, AreaNumber
<1> HIDE DEF d
<1> QED
  BY <1>2, <1>3

LEMMA RootAbove ==
  ASSUME NEW n \in Nodes
  PROVE  Under(Root, n)
BY NodesAreSequences DEF Under, Root

LEMMA InArea ==
  ASSUME NEW n \in Nodes, NEW k \in Nat, NEW c \in Int, In(c, k, n)
  PROVE  k * NLines <= c /\ c < k * NLines + NLines
<1>1. /\ NodeStart[n] \in Nat /\ Stop(n) \in Nat /\ Stop(n) <= NLines
  <2>1. Root \in Nodes /\ Stop(Root) = NLines
    BY RootIsNode, TreeAssumption DEF Stop
  <2> QED
    BY <2>1, RootAbove, Nested, Bounds
<1> DEFINE a == k * NLines
<1>2. a \in Nat /\ NodeStart[n] <= c - a /\ c - a < Stop(n)
  BY AreaNumber DEF In, Within
<1> HIDE DEF a
<1>3. a <= c /\ c < a + NLines
  BY <1>1, <1>2
<1> QED
  BY <1>3 DEF a

\* A cell that is at the place of lines of two nodes is in one area, and one of the
\* nodes is under the other.
LEMMA Meet ==
  ASSUME NEW n \in Nodes, NEW m \in Nodes, NEW k \in Nat, NEW j \in Nat, NEW c \in Int,
         In(c, k, n), In(c, j, m)
  PROVE  k = j /\ (Under(n, m) \/ Under(m, n))
<1>1. /\ k * NLines <= c /\ c < k * NLines + NLines
      /\ j * NLines <= c /\ c < j * NLines + NLines
  BY InArea
<1>2. k * NLines \in Nat /\ j * NLines \in Nat
  BY AreaNumber
<1>3. ~(k < j) /\ ~(j < k)
  <2>1. k < j => k * NLines + NLines <= j * NLines
    BY AreasApart
  <2>2. j < k => j * NLines + NLines <= k * NLines
    BY AreasApart
  <2> DEFINE a == k * NLines
             b == j * NLines
  <2>3. /\ a \in Nat /\ b \in Nat /\ a <= c /\ c < a + NLines /\ b <= c /\ c < b + NLines
        /\ (k < j => a + NLines <= b) /\ (j < k => b + NLines <= a)
    BY <1>1, <1>2, <2>1, <2>2
  <2> HIDE DEF a, b
  <2> QED
    BY <2>3
<1>4. k = j
  BY <1>3
<1>5. c - k * NLines \in Int
  BY <1>2
<1>6. Within(c - k * NLines, n) /\ Within(c - k * NLines, m)
  BY <1>4 DEF In
<1> QED
  BY <1>4, <1>5, <1>6, Apart

\* There is memory for area 0, and for each area that some node's child delivers to.
LEMMA InCells ==
  ASSUME NEW n \in Nodes, NEW k \in Nat, NEW c \in Int, In(c, k, n),
         k = 0 \/ \E m \in Nodes : m # Root /\ Len(m) = k
  PROVE  c \in Cells
<1>1. k * NLines <= c /\ c < k * NLines + NLines
  BY InArea
<1>2. CASE k = 0
  <2>1. 0 <= c /\ c < NLines
    BY <1>1, <1>2
  <2>2. Root \in Nodes /\ Len(Root) = 0 /\ Areas \in Nat /\ \A x \in Nodes : Len(x) < Areas
    BY RootIsNode, TreeAssumption DEF Root
  <2>3. Areas \in Nat /\ 0 < Areas
    BY <2>2
  <2>4. 0 * NLines + NLines <= Areas * NLines
    BY <2>3, AreasApart
  <2>5. Areas * NLines \in Nat
    BY <2>3, AreaNumber
  <2>6. NLines <= Areas * NLines
    BY <2>4
  <2> DEFINE a == Areas * NLines
  <2>7. a \in Nat /\ NLines <= a /\ Cells = 0 .. (IF NThreads > 1 THEN a ELSE (3 * NLines) \div 2) - 1
    BY <2>5, <2>6 DEF Cells
  <2> HIDE DEF a
  <2> QED
    BY <2>1, <2>7
<1>3. CASE k # 0
  <2>1. PICK m \in Nodes : m # Root /\ Len(m) = k
    BY <1>3
  <2>2. k < Areas /\ Areas \in Nat
    BY <2>1, TreeAssumption
  <2>3. NThreads > 1
    <3>1. PICK d \in 0..(NThreads - 1) : m \in [1..d -> {0, 1}]
      BY DEF Nodes, Paths
    <3>2. Len(m) = d
      BY <3>1
    <3> QED
      BY <1>3, <2>1, <3>2
  <2>4. k * NLines + NLines <= Areas * NLines /\ k * NLines \in Nat /\ Areas * NLines \in Nat
    BY <2>2, AreasApart, AreaNumber
  <2> DEFINE a == Areas * NLines
             b == k * NLines
  <2>5. a \in Nat /\ b \in Nat /\ b + NLines <= a /\ b <= c /\ c < b + NLines /\ Cells = 0 .. a - 1
    BY <1>1, <2>3, <2>4 DEF Cells
  <2> HIDE DEF a, b
  <2> QED
    BY <2>5
<1> QED
  BY <1>2, <1>3

-----------------------------------------------------------------------------
(* The inductive invariant.  A leaf has its lines in area 0, another node  *)
(* merges in the area of its level.                                        *)

Sorted(n) == node[n].endHi <= NLines
Area(n) == IF Sorted(n) THEN 0 ELSE Level(n)
Base(n) == Area(n) * NLines + NodeStart[n]
Drop(n) == Len(n) * NLines + NodeStart[n]
Dividing(t) == pc[t] \in {"call", "leaf"}
Working(t) == pc[t] \in {"merge", "drain", "publish"}

\* A thread that merges has locked its node.
Held == \A t \in Threads : Merging(t) => lock[at[t]] = t

\* The pointers of a node divide its share: lines merged, lines available and lines
\* to come of the low half, then the same of the high half.  A leaf has all its
\* lines at once, a node without children that is no leaf none ever.
Chain(n) ==
  /\ Base(n) <= node[n].lo /\ node[n].lo <= node[n].endLo
  /\ node[n].endLo <= Base(n) + Half(n)
  /\ Base(n) + Half(n) <= node[n].hi /\ node[n].hi <= node[n].endHi
  /\ node[n].endHi <= Base(n) + NodeLines[n]
  /\ Sorted(n) => node[n].endLo = Base(n) + Half(n) /\ node[n].endHi = Base(n) + NodeLines[n]
  /\ ~Sorted(n) /\ Lo(n) \notin Nodes =>
       node[n].endLo = Base(n) /\ node[n].endHi = Base(n) + Half(n)

\* What a node has delivered to its parent, and what it has left to merge, as the
\* counts tell while no thread merges there.
Delivered(n) ==
  n # Root /\ ~Sorted(Parent(n)) =>
    Dest(n) = Drop(n) + NodeLines[n] - node[n].nlo - node[n].nhi
Left(n) ==
  (\A t \in Threads : ~(Working(t) /\ at[t] = n)) =>
     /\ node[n].nlo = Base(n) + Half(n) - node[n].lo
     /\ node[n].nhi = Base(n) + NodeLines[n] - node[n].hi

\* What a thread that merges has taken since it began.
Taken(t) ==
  Working(t) =>
    LET n == at[t] IN
    /\ node[n].nlo = Base(n) + Half(n) - loc[t].lo0 /\ loc[t].lo0 <= node[n].lo
    /\ node[n].nhi = Base(n) + NodeLines[n] - loc[t].hi0 /\ loc[t].hi0 <= node[n].hi
    /\ n # Root => loc[t].dest = Drop(n) + (node[n].lo - Base(n)) + (node[n].hi - Base(n) - Half(n))

Shape ==
  /\ \A n \in Nodes : Chain(n) /\ Delivered(n) /\ Left(n)
  /\ \A t \in Threads : Taken(t)

\* Below a leaf nothing happens.
BelowSorted ==
  \A m, n \in Nodes : Strictly(m, n) /\ Sorted(m) =>
    /\ node[n] = InitNode(n) /\ queue[n] = 0
    /\ \A u \in Threads : at[u] = n => pc[u] = "idle"

\* Node m is as init_node left it, but for lines that came to the side away from n.
Untaken(m, n) ==
  /\ SubthreadLines <= NodeLines[m] /\ ~Sorted(m)
  /\ node[m].lo = Base(m) /\ node[m].hi = Base(m) + Half(m)
  /\ node[m].nlo = Half(m) /\ node[m].nhi = NodeLines[m] - Half(m)
  /\ IF n[Len(m) + 1] = 0 THEN node[m].endLo = Base(m)
                          ELSE node[m].endHi = Base(m) + Half(m)

\* Around a thread that has not sorted its lines yet nothing is merged: not below
\* it, and not above it for want of its lines.
Around ==
  \A t \in Threads : Descending(t) =>
    /\ Dividing(t) => node[at[t]] = InitNode(at[t])
    /\ \A m \in Nodes : Strictly(at[t], m) => node[m] = InitNode(m)
    /\ \A m \in Nodes : Strictly(m, at[t]) => Untaken(m, at[t])

Layout == Held /\ Shape /\ BelowSorted /\ Around

-----------------------------------------------------------------------------
(* What the invariant says of a state.                                     *)

LEMMA Starts ==
  ASSUME NEW n \in Nodes
  PROVE  /\ Level(n) = Len(n) + 1 /\ Len(n) \in Nat /\ Area(n) \in Nat
         /\ Base(n) \in Nat /\ Drop(n) \in Nat
         /\ Level(n) * NLines + NodeStart[n] \in Nat
<1>1. Level(n) = Len(n) + 1 /\ Len(n) \in Nat
  BY NodesAreSequences, EndIsNoNode DEF Level
<1>2. Area(n) \in Nat
  BY <1>1 DEF Area
<1>3. /\ Len(n) * NLines \in Nat /\ Area(n) * NLines \in Nat /\ Level(n) * NLines \in Nat
      /\ NodeStart[n] \in Nat
  BY <1>1, <1>2, AreaNumber, Numbers
<1> QED
  BY <1>1, <1>2, <1>3 DEF Base, Drop

LEMMA Pointers ==
  ASSUME TypeOK, NEW n \in Nodes
  PROVE  /\ node[n] \in NodeFields
         /\ node[n].lo \in Nat /\ node[n].hi \in Nat /\ node[n].endLo \in Nat
         /\ node[n].endHi \in Nat /\ node[n].nlo \in Int /\ node[n].nhi \in Int
<1>1. node[n] \in NodeFields
  BY DEF TypeOK
<1> QED
  BY <1>1 DEF NodeFields

LEMMA LocalNumbers ==
  ASSUME TypeOK, NEW t \in Threads
  PROVE  /\ loc[t].lo0 \in Nat /\ loc[t].hi0 \in Nat /\ loc[t].dest \in Nat
         /\ loc[t].left \in Nat
<1>1. loc[t] \in Locals
  BY DEF TypeOK
<1> QED
  BY <1>1 DEF Locals

\* Beyond area 0 are the areas of all levels, and the high half of area 1.
LEMMA Beyond ==
  ASSUME NEW n \in Nodes
  PROVE  Level(n) * NLines + NodeStart[n] + Half(n) > NLines
<1>1. /\ Level(n) = Len(n) + 1 /\ Len(n) \in Nat /\ NodeStart[n] \in Nat /\ Half(n) \in Nat
      /\ Len(n) * NLines \in Nat /\ Level(n) * NLines = Len(n) * NLines + NLines
  BY Starts, Numbers, AreaNumber
<1>2. CASE Len(n) = 0
  <2>1. n = Root /\ NodeLines[Root] = NLines
    BY <1>2, NodesAreSequences, TreeAssumption DEF Root
  <2>2. Half(n) >= 1
    BY <2>1, Numbers
  <2> QED
    BY <1>1, <2>2
<1>3. CASE Len(n) # 0
  <2>1. NLines <= Len(n) * NLines
    <3>1. 0 * NLines + NLines <= Len(n) * NLines
      BY <1>1, <1>3, AreasApart
    <3> QED
      BY <1>1, <3>1
  <2> QED
    BY <1>1, <2>1
<1> QED
  BY <1>2, <1>3

LEMMA AsInit ==
  ASSUME NEW n \in Nodes, node[n] = InitNode(n)
  PROVE  /\ ~Sorted(n) /\ Base(n) = Level(n) * NLines + NodeStart[n]
         /\ node[n].lo = Base(n) /\ node[n].endLo = Base(n)
         /\ node[n].hi = Base(n) + Half(n) /\ node[n].endHi = Base(n) + Half(n)
         /\ node[n].nlo = Half(n) /\ node[n].nhi = NodeLines[n] - Half(n)
<1> DEFINE b == Level(n) * NLines + NodeStart[n]
<1>1. /\ node[n].lo = b /\ node[n].endLo = b
      /\ node[n].hi = b + Half(n) /\ node[n].endHi = b + Half(n)
      /\ node[n].nlo = Half(n) /\ node[n].nhi = NodeLines[n] - Half(n)
  BY DEF InitNode, Half
<1>2. b \in Nat /\ Half(n) \in Nat /\ b + Half(n) > NLines
  BY Starts, Numbers, Beyond
<1> HIDE DEF b
<1>3. ~Sorted(n)
  BY <1>1, <1>2 DEF Sorted
<1>4. Base(n) = b
  BY <1>3 DEF Base, Area, b
<1> QED
  BY <1>1, <1>3, <1>4 DEF b

\* Where a child delivers is one of the sides of its parent.
LEMMA DropIsSide ==
  ASSUME NEW n \in Nodes, n # Root, ~Sorted(Parent(n))
  PROVE  LET p == Parent(n) IN
         /\ n[Len(n)] = 0 => Drop(n) = Base(p) /\ NodeLines[n] = Half(p)
         /\ n[Len(n)] # 0 => Drop(n) = Base(p) + Half(p) /\ NodeLines[n] = NodeLines[p] - Half(p)
<1> DEFINE p == Parent(n)
           a == Len(n) * NLines
<1>1. /\ p \in Nodes /\ Len(n) = Len(p) + 1 /\ n[Len(n)] \in {0, 1}
      /\ n[Len(n)] = 0 => NodeStart[n] = NodeStart[p] /\ NodeLines[n] = Half(p)
      /\ n[Len(n)] = 1 => /\ NodeStart[n] = NodeStart[p] + Half(p)
                          /\ NodeLines[n] = NodeLines[p] - Half(p)
  BY ChildShare DEF Middle
<1>2. Level(p) = Len(n)
  BY <1>1, Starts
<1>3. Base(p) = a + NodeStart[p] /\ Drop(n) = a + NodeStart[n]
  BY <1>2 DEF Base, Area, Drop
<1>4. a \in Nat /\ NodeStart[p] \in Nat /\ Half(p) \in Nat
  BY <1>1, NodesAreSequences, AreaNumber, Numbers
<1> HIDE DEF a
<1> QED
  BY <1>1, <1>3, <1>4

LEMMA NotBelowSorted ==
  ASSUME BelowSorted, NEW t \in Threads, pc[t] # "idle", at[t] \in Nodes,
         NEW m \in Nodes, Strictly(m, at[t])
  PROVE  ~Sorted(m)
BY DEF BelowSorted

LEMMA ParentNotSorted ==
  ASSUME BelowSorted, NEW t \in Threads, pc[t] # "idle", at[t] \in Nodes, at[t] # Root
  PROVE  Parent(at[t]) \in Nodes /\ ~Sorted(Parent(at[t]))
<1>1. Parent(at[t]) \in Nodes /\ Strictly(Parent(at[t]), at[t])
  BY ChildShare
<1> QED
  BY <1>1, NotBelowSorted

LEMMA WorksOnNode ==
  ASSUME Facts, NEW t \in Threads
  PROVE  /\ Working(t) \/ Merging(t) => at[t] \in Nodes /\ Merging(t)
         /\ Descending(t) => at[t] \in Nodes
BY DEF Facts, HandOver, Places, Working, Merging

LEMMA Alone ==
  ASSUME Held, NEW t \in Threads, NEW u \in Threads, Working(t), Working(u), at[t] = at[u]
  PROVE  t = u
BY DEF Held, Working, Merging

LEMMA FreshAlone ==
  ASSUME Facts, NEW t \in Threads, Descending(t), NEW u \in Threads,
         at[u] \in Nodes, Under(at[t], at[u]), pc[u] # "idle"
  PROVE  u = t
BY DEF Facts, HandOver, Fresh

\* Above a thread that has not sorted its lines yet, nothing can be merged.
LEMMA NothingToTake ==
  ASSUME Facts, Layout, NEW u \in Threads, Working(u), NEW t \in Threads, Descending(t),
         Strictly(at[u], at[t])
  PROVE  /\ ~BothAvailable(at[u]) /\ ~CanDrainLo(u) /\ ~CanDrainHi(u)
         /\ node[at[u]].lo = loc[u].lo0 /\ node[at[u]].hi = loc[u].hi0
         /\ Untaken(at[u], at[t])
<1> DEFINE m == at[u]
<1>1. m \in Nodes /\ at[t] \in Nodes
  BY WorksOnNode
<1>2. Untaken(m, at[t])
  BY <1>1 DEF Layout, Around
<1>3. /\ node[m].nlo = Base(m) + Half(m) - loc[u].lo0 /\ node[m].nhi = Base(m) + NodeLines[m] - loc[u].hi0
      /\ Chain(m)
  BY <1>1 DEF Layout, Shape, Taken
<1>4. /\ Base(m) \in Nat /\ Half(m) \in Nat /\ NodeLines[m] \in Nat
      /\ (NodeLines[m] >= 2 => Half(m) >= 1) /\ Half(m) = NodeLines[m] \div 2
      /\ loc[u].lo0 \in Nat /\ loc[u].hi0 \in Nat
  BY <1>1, Starts, Numbers, LocalNumbers DEF Facts, Half
<1>5. NodeLines[m] >= 4 /\ Half(m) >= 1 /\ NodeLines[m] - Half(m) >= 1
  BY <1>2, <1>4 DEF Untaken
<1>6. node[m].lo = loc[u].lo0 /\ node[m].hi = loc[u].hi0
  <2>1. /\ node[m].lo = Base(m) /\ node[m].hi = Base(m) + Half(m)
        /\ node[m].nlo = Half(m) /\ node[m].nhi = NodeLines[m] - Half(m)
    BY <1>2 DEF Untaken
  <2>2. Half(m) = Base(m) + Half(m) - loc[u].lo0
    BY <1>3, <2>1
  <2>3. NodeLines[m] - Half(m) = Base(m) + NodeLines[m] - loc[u].hi0
    BY <1>3, <2>1
  <2>4. loc[u].lo0 = Base(m)
    BY <1>4, <2>2
  <2>5. loc[u].hi0 = Base(m) + Half(m)
    BY <1>4, <2>3
  <2> QED
    BY <2>1, <2>4, <2>5
<1>7. ~HiExhausted(u) /\ ~LoExhausted(u)
  BY <1>2, <1>4, <1>5, <1>6 DEF HiExhausted, LoExhausted, Untaken
<1>8. ~BothAvailable(m)
  BY <1>2 DEF Untaken, BothAvailable
<1> QED
  BY <1>2, <1>6, <1>7, <1>8 DEF CanDrainLo, CanDrainHi

-----------------------------------------------------------------------------
(* Most steps move no line: they only bring their thread to another place. *)

\* t is the thread that takes the step.
Quiet(t) ==
  /\ UNCHANGED <<input, mem, out, node>>
  /\ OthersStay(t) /\ pc[t] # "idle" /\ pc'[t] # "idle"
  /\ \A u \in Threads : /\ loc'[u].lo0 = loc[u].lo0 /\ loc'[u].hi0 = loc[u].hi0
                        /\ loc'[u].dest = loc[u].dest
  /\ (pc'[t] \in {"merge", "drain", "publish"}) <=> Working(t)
  /\ Merging(t)' => Merging(t) /\ at'[t] = at[t]
  /\ (pc'[t] \in {"call", "leaf"}) <=> Dividing(t)
  /\ Descending(t)' => Descending(t) /\ at'[t] = at[t]
  /\ at'[t] = at[t] \/ at'[t] \notin Nodes \/ queue[at'[t]] > 0
  /\ \A n \in Nodes : \/ queue'[n] = queue[n] \/ queue[n] > 0 \/ n = at[t]
                      \/ at[t] \in Nodes \ {Root} /\ n = Parent(at[t])
  /\ \A n \in Nodes : lock'[n] = lock[n] \/ (n = at[t] /\ Merging(t) /\ ~Merging(t)')

LEMMA AdvanceQuiet ==
  ASSUME Facts, NEW t \in Threads, NEW next,
         Advance(t, next), UNCHANGED <<input, mem, out, node, lock, at, loc>>,
         \/ pc[t] = "call" /\ next = "leaf"
         \/ pc[t] = "pop" /\ next = "wait"
         \/ pc[t] = "wait" /\ next = "pop"
         \/ pc[t] = "drain" /\ next = "publish"
         \/ pc[t] = "check" /\ next = "parent"
         \/ pc[t] = "parent" /\ next = "unlock"
         \/ pc[t] = "join" /\ next = "done"
  PROVE  Quiet(t)
<1>1. OthersStay(t) /\ pc'[t] = next /\ UNCHANGED <<queue, queued>>
  BY AdvanceStays DEF Facts
<1> QED
  BY <1>1 DEF Quiet, Working, Merging, Dividing, Descending

LEMMA InsertQuiet ==
  ASSUME Facts, NEW t \in Threads, NEW n \in Nodes \cup {End}, NEW next,
         QueueInsert(t, n, next), UNCHANGED <<input, mem, out, node, lock, at, loc>>,
         \/ pc[t] = "insert" /\ next = "pop" /\ n = at[t]
         \/ pc[t] = "endinsert" /\ next = "join" /\ n = End
         \/ pc[t] = "check" /\ next = "parent" /\ n = at[t]
         \/ pc[t] = "parent" /\ next = "unlock"
              /\ (n = End \/ (at[t] \in Nodes \ {Root} /\ n = Parent(at[t])))
  PROVE  Quiet(t)
<1>1. OthersStay(t) /\ pc'[t] = next
  BY InsertStays DEF Facts
<1>2. \A m \in Nodes : m # n => queue'[m] = queue[m]
  BY DEF QueueInsert, Facts, TypeOK
<1>3. End \notin Nodes
  BY EndIsNoNode
<1> QED
  BY <1>1, <1>2, <1>3 DEF Quiet, Working, Merging, Dividing, Descending

\* The steps that are not quiet.
Moving(t) ==
  \/ Split(t) \/ SortLeaf(t) \/ (LockNode(t) /\ at[t] # End)
  \/ MergeLine(t) \/ DrainLine(t) \/ Publish(t)

LEMMA StepKinds ==
  ASSUME Facts, NEW t \in Threads, Step(t) \/ SpuriousWakeup(t)
  PROVE  Moving(t) \/ Quiet(t)
<1>0. at[t] \in Nodes \cup {End} /\ (Merging(t) => at[t] \in Nodes) /\ (Ending(t) => at[t] = End)
  BY DEF Facts, TypeOK, HandOver, Places
<1>1. CASE BecomeLeaf(t) \/ Wait(t) \/ SpuriousWakeup(t) \/ DrainEnd(t) \/ Return(t)
  BY <1>1, AdvanceQuiet DEF BecomeLeaf, Wait, SpuriousWakeup, DrainEnd, Return
<1>2. CASE InsertLeaf(t)
  BY <1>0, <1>2, InsertQuiet DEF InsertLeaf
<1>3. CASE EndInsert(t)
  BY <1>0, <1>3, InsertQuiet DEF EndInsert, Ending
<1>4. CASE CheckSelf(t)
  BY <1>0, <1>4, InsertQuiet, AdvanceQuiet DEF CheckSelf, QueueCheckInsert
<1>5. CASE CheckParent(t)
  <2>1. at[t] \in Nodes
    BY <1>0, <1>5 DEF CheckParent, Merging
  <2>2. at[t] # Root => Parent(at[t]) \in Nodes
    BY <2>1, ParentIsNode
  <2> QED
    BY <1>5, <2>1, <2>2, InsertQuiet, AdvanceQuiet DEF CheckParent, QueueCheckInsert
<1>6. CASE Pop(t)
  <2>1. PICK n \in Nodes \cup {End} :
          queue[n] > 0 /\ queue' = [queue EXCEPT ![n] = @ - 1] /\ at' = [at EXCEPT ![t] = n]
    BY <1>6 DEF Pop
  <2>2. /\ pc[t] = "pop" /\ pc' = [pc EXCEPT ![t] = "lock"]
        /\ UNCHANGED <<input, mem, out, node, lock, loc>>
    BY <1>6 DEF Pop
  <2>3. OthersStay(t) /\ pc'[t] = "lock" /\ at'[t] = n
    BY <2>1, <2>2 DEF OthersStay, Facts, TypeOK
  <2>4. \A m \in Nodes : queue'[m] = queue[m] \/ queue[m] > 0
    BY <2>1 DEF Facts, TypeOK
  <2> QED
    BY <2>1, <2>2, <2>3, <2>4 DEF Quiet, Working, Merging, Dividing, Descending
<1>7. CASE MergeEnd(t)
  <2>1. PICK left \in {loc[t].left, SizeMax}, endLo \in {loc[t].endLo, node[at[t]].endLo},
             endHi \in {loc[t].endHi, node[at[t]].endHi} :
          loc' = [loc EXCEPT ![t].left = left, ![t].endLo = endLo, ![t].endHi = endHi]
    BY <1>7 DEF MergeEnd
  <2>2. loc \in [Threads -> Locals]
    BY DEF Facts, TypeOK
  <2>3. \A u \in Threads : /\ loc'[u].lo0 = loc[u].lo0 /\ loc'[u].hi0 = loc[u].hi0
                           /\ loc'[u].dest = loc[u].dest
    BY <2>1, <2>2 DEF Locals
  <2>4. /\ pc[t] = "merge" /\ Advance(t, "drain")
        /\ UNCHANGED <<input, mem, out, node, lock, at>>
    BY <1>7 DEF MergeEnd
  <2>5. OthersStay(t) /\ pc'[t] = "drain" /\ UNCHANGED <<queue, queued>>
    BY <2>4, AdvanceStays DEF Facts
  <2> QED
    BY <2>3, <2>4, <2>5 DEF Quiet, Working, Merging, Dividing, Descending
<1>8. CASE UnlockNode(t) \/ EndUnlock(t)
  <2>1. /\ pc[t] \in {"unlock", "endunlock"} /\ lock' = [lock EXCEPT ![at[t]] = NoThread]
        /\ UNCHANGED <<input, mem, out, node, at, loc>>
        /\ Advance(t, "pop") \/ Advance(t, "endinsert")
    BY <1>8 DEF UnlockNode, EndUnlock
  <2>2. /\ OthersStay(t) /\ pc'[t] \in {"pop", "endinsert"} /\ UNCHANGED <<queue, queued>>
    BY <2>1, AdvanceStays DEF Facts
  <2>3. \A n \in Nodes \cup {End} : lock'[n] = lock[n] \/ n = at[t]
    BY <2>1 DEF Facts, TypeOK
  <2>4. pc[t] = "endunlock" => at[t] \notin Nodes
    BY <1>0, EndIsNoNode DEF Ending
  <2> QED
    BY <2>1, <2>2, <2>3, <2>4 DEF Quiet, Working, Merging, Dividing, Descending
<1>9. CASE Join(t)
  BY <1>9 DEF Join, Quiet, OthersStay, Working, Merging, Dividing, Descending
<1>10. CASE LockNode(t) /\ at[t] = End
  <2>1. /\ pc[t] = "lock" /\ lock' = [lock EXCEPT ![End] = t] /\ pc' = [pc EXCEPT ![t] = "endunlock"]
        /\ UNCHANGED <<input, mem, out, node, queue, at, loc>>
    BY <1>10 DEF LockNode
  <2>2. OthersStay(t) /\ pc'[t] = "endunlock" /\ \A n \in Nodes : lock'[n] = lock[n]
    BY <2>1, EndIsNoNode DEF OthersStay, Facts, TypeOK
  <2> QED
    BY <2>1, <2>2 DEF Quiet, Working, Merging, Dividing, Descending
<1> QED
  BY <1>10, <1>1, <1>2, <1>3, <1>4, <1>5, <1>6, <1>7, <1>8, <1>9 DEF Step, Moving

LEMMA QuietWorking ==
  ASSUME Facts, NEW t \in Threads, Quiet(t), NEW u \in Threads
  PROVE  /\ Working(u)' <=> Working(u)
         /\ Working(u) => at'[u] = at[u]
         /\ Merging(u)' => Merging(u) /\ at'[u] = at[u]
         /\ Dividing(u)' <=> Dividing(u)
         /\ Descending(u)' => Descending(u) /\ at'[u] = at[u]
         /\ Dividing(u) => at'[u] = at[u]
<1>1. CASE u = t
  BY <1>1 DEF Quiet, Working, Merging, Dividing, Descending
<1>2. CASE u # t
  BY <1>2 DEF Quiet, OthersStay, Working, Merging, Dividing, Descending
<1> QED
  BY <1>1, <1>2

LEMMA SameNode ==
  ASSUME NEW n \in Nodes, node'[n] = node[n]
  PROVE  /\ Sorted(n)' <=> Sorted(n)
         /\ Area(n)' = Area(n) /\ Base(n)' = Base(n)
         /\ Chain(n) => Chain(n)'
         /\ \A m : Untaken(n, m) => Untaken(n, m)'
<1>1. Sorted(n)' <=> Sorted(n)
  BY DEF Sorted
<1>2. Area(n)' = Area(n) /\ Base(n)' = Base(n)
  BY <1>1 DEF Area, Base
<1> QED
  BY <1>1, <1>2 DEF Chain, Untaken

LEMMA SameShape ==
  ASSUME Shape, UNCHANGED node,
         \A u \in Threads : Working(u) => Working(u)' /\ at'[u] = at[u],
         \A u \in Threads : Working(u)' => Taken(u)'
  PROVE  Shape'
<1>0. \A n \in Nodes : node'[n] = node[n]
  OBVIOUS
<1>1. ASSUME NEW n \in Nodes PROVE Chain(n)'
  BY <1>0, SameNode DEF Shape
<1>2. ASSUME NEW n \in Nodes PROVE Delivered(n)'
  <2>1. n # Root => Parent(n) \in Nodes
    BY ParentIsNode
  <2> QED
    BY <1>0, <2>1, SameNode DEF Shape, Delivered, Dest, Drop
<1>3. ASSUME NEW n \in Nodes PROVE Left(n)'
  <2> SUFFICES ASSUME \A u \in Threads : ~(Working(u)' /\ at'[u] = n)
               PROVE  /\ node'[n].nlo = Base(n)' + Half(n) - node'[n].lo
                      /\ node'[n].nhi = Base(n)' + NodeLines[n] - node'[n].hi
    BY DEF Left, Half
  <2>1. \A u \in Threads : ~(Working(u) /\ at[u] = n)
    OBVIOUS
  <2> QED
    BY <1>0, <2>1, SameNode DEF Shape, Left
<1> QED
  BY <1>1, <1>2, <1>3 DEF Shape, Taken

LEMMA QuietLayout ==
  ASSUME Facts, Layout, NEW t \in Threads, Quiet(t)
  PROVE  Layout'
<1>0. node' = node /\ \A n \in Nodes : node'[n] = node[n]
  BY DEF Quiet
<1>1. Held'
  <2> SUFFICES ASSUME NEW u \in Threads, Merging(u)' PROVE lock'[at'[u]] = u
    BY DEF Held
  <2>1. Merging(u) /\ at'[u] = at[u] /\ lock[at[u]] = u
    BY QuietWorking DEF Layout, Held
  <2>2. at[u] \in Nodes
    BY <2>1, WorksOnNode
  <2>3. \/ lock'[at[u]] = lock[at[u]]
        \/ at[u] = at[t] /\ Merging(t) /\ ~Merging(t)'
    BY <2>2 DEF Quiet
  <2>4. Merging(t) => lock[at[t]] = t
    BY DEF Layout, Held
  <2> QED
    BY <2>1, <2>3, <2>4
<1>2. Shape'
  <2>1. \A u \in Threads : Working(u) => Working(u)' /\ at'[u] = at[u]
    BY QuietWorking
  <2>2. ASSUME NEW u \in Threads, Working(u)' PROVE Taken(u)'
    <3>1. Working(u) /\ at'[u] = at[u] /\ at[u] \in Nodes
      BY <2>2, QuietWorking, WorksOnNode
    <3>2. loc'[u].lo0 = loc[u].lo0 /\ loc'[u].hi0 = loc[u].hi0 /\ loc'[u].dest = loc[u].dest
      BY DEF Quiet
    <3> QED
      BY <1>0, <3>1, <3>2, SameNode DEF Layout, Shape, Taken, Half, Drop
  <2> QED
    BY <1>0, <2>1, <2>2, SameShape DEF Layout
<1>3. BelowSorted'
  <2> SUFFICES ASSUME NEW m \in Nodes, NEW n \in Nodes, Strictly(m, n), Sorted(m)'
               PROVE  /\ node'[n] = InitNode(n) /\ queue'[n] = 0
                      /\ \A u \in Threads : at'[u] = n => pc'[u] = "idle"
    BY DEF BelowSorted, Strictly, Under, InitNode
  <2>1. Sorted(m)
    BY <1>0, SameNode
  <2>2. /\ node[n] = InitNode(n) /\ queue[n] = 0
        /\ \A u \in Threads : at[u] = n => pc[u] = "idle"
    BY <2>1 DEF Layout, BelowSorted
  <2>3. at[t] # n /\ pc[t] # "idle"
    BY <2>2 DEF Quiet
  <2>4. ASSUME at[t] \in Nodes \ {Root}, n = Parent(at[t]) PROVE FALSE
    <3>1. Strictly(m, at[t])
      <4>1. Under(m, at[t]) /\ Strictly(n, at[t])
        BY <2>4, UnderParent, ChildShare DEF Strictly
      <4>2. m # at[t]
        BY <4>1, SameLength, NodesAreSequences DEF Strictly, Under
      <4> QED
        BY <4>1, <4>2 DEF Strictly
    <3> QED
      BY <2>1, <2>3, <2>4, <3>1, NotBelowSorted DEF Layout
  <2>5. queue'[n] = 0
    BY <2>2, <2>3, <2>4 DEF Quiet
  <2>6. ASSUME NEW u \in Threads, at'[u] = n PROVE pc'[u] = "idle"
    BY <2>2, <2>3, <2>6 DEF Quiet, OthersStay
  <2> QED
    BY <1>0, <2>2, <2>5, <2>6
<1>4. Around'
  <2> SUFFICES ASSUME NEW u \in Threads, Descending(u)'
               PROVE  /\ Dividing(u)' => node'[at'[u]] = InitNode(at'[u])
                      /\ \A m \in Nodes : Strictly(at'[u], m) => node'[m] = InitNode(m)
                      /\ \A m \in Nodes : Strictly(m, at'[u]) => Untaken(m, at[u])'
    BY DEF Around, Strictly, Under, InitNode
  <2>1. Descending(u) /\ at'[u] = at[u] /\ (Dividing(u)' => Dividing(u))
    BY QuietWorking
  <2> QED
    BY <1>0, <2>1, SameNode DEF Layout, Around, Untaken
<1> QED
  BY <1>1, <1>2, <1>3, <1>4 DEF Layout

-----------------------------------------------------------------------------
(* Locking a node, dividing the work and sorting a leaf.                   *)

LEMMA LockLayout ==
  ASSUME Facts, Layout, NEW t \in Threads, LockNode(t), at[t] # End
  PROVE  Layout' /\ loc'[t].dest = (IF at[t] = Root THEN 0 ELSE Dest(at[t]))
<1> DEFINE n == at[t]
<1>0. n \in Nodes /\ NoThread \notin Threads
  BY NamesAssumption DEF Facts, TypeOK, Threads, Nodes
<1>1. /\ pc[t] = "lock" /\ lock[n] = NoThread /\ UNCHANGED <<node, queue, at>>
      /\ lock' = [lock EXCEPT ![n] = t] /\ pc' = [pc EXCEPT ![t] = "merge"]
      /\ loc' = [loc EXCEPT ![t] = [left |-> MaxMerge(n), lo0 |-> node[n].lo, hi0 |-> node[n].hi,
                                    dest |-> IF n = Root THEN 0 ELSE Dest(n),
                                    endLo |-> node[n].endLo, endHi |-> node[n].endHi]]
  BY DEF LockNode
<1>2. /\ lock'[n] = t /\ \A m \in Nodes : m # n => lock'[m] = lock[m]
      /\ pc'[t] = "merge" /\ \A u \in Threads : u # t => pc'[u] = pc[u]
      /\ loc'[t].lo0 = node[n].lo /\ loc'[t].hi0 = node[n].hi
      /\ loc'[t].dest = (IF n = Root THEN 0 ELSE Dest(n))
      /\ \A u \in Threads : u # t => loc'[u] = loc[u]
  BY <1>0, <1>1 DEF Facts, TypeOK
<1>3. \A m \in Nodes : node'[m] = node[m]
  BY <1>1
<1>4. \A u \in Threads : Merging(u) => at[u] # n
  BY <1>0, <1>1 DEF Layout, Held
<1>5. Held'
  <2> SUFFICES ASSUME NEW u \in Threads, Merging(u)' PROVE lock'[at'[u]] = u
    BY DEF Held
  <2>1. CASE u = t
    BY <1>1, <1>2, <2>1
  <2>2. CASE u # t
    <3>1. Merging(u)
      BY <1>2, <2>2 DEF Merging
    <3>2. at[u] \in Nodes /\ at[u] # n
      BY <1>4, <3>1, WorksOnNode
    <3> QED
      BY <1>1, <1>2, <3>1, <3>2 DEF Layout, Held
  <2> QED
    BY <2>1, <2>2
<1>6. Taken(t)'
  <2>1. /\ node[n].nlo = Base(n) + Half(n) - node[n].lo
        /\ node[n].nhi = Base(n) + NodeLines[n] - node[n].hi
    BY <1>0, <1>4, WorksOnNode DEF Layout, Shape, Left
  <2>2. ASSUME n # Root
        PROVE  Dest(n) = Drop(n) + (node[n].lo - Base(n)) + (node[n].hi - Base(n) - Half(n))
    <3>1. ~Sorted(Parent(n))
      BY <1>0, <1>1, <2>2, ParentNotSorted DEF Layout
    <3>2. Dest(n) = Drop(n) + NodeLines[n] - node[n].nlo - node[n].nhi
      BY <1>0, <2>2, <3>1 DEF Layout, Shape, Delivered
    <3>3. /\ Drop(n) \in Nat /\ NodeLines[n] \in Nat /\ Base(n) \in Nat /\ Half(n) \in Nat
          /\ node[n].lo \in Nat /\ node[n].hi \in Nat
      BY <1>0, Starts, Numbers, Pointers DEF Facts
    <3>4. Dest(n) = Drop(n) + NodeLines[n] - (Base(n) + Half(n) - node[n].lo)
                      - (Base(n) + NodeLines[n] - node[n].hi)
      BY <2>1, <3>2
    <3> HIDE DEF n
    <3> QED
      BY <3>3, <3>4
  <2>3. node[n].lo <= node[n].lo /\ node[n].hi <= node[n].hi
    BY <1>0, Pointers DEF Facts
  <2>4. Base(n)' = Base(n) /\ Half(n)' = Half(n) /\ Drop(n)' = Drop(n)
    BY <1>0, <1>1, <1>3, SameNode DEF Half, Drop
  <2> QED
    BY <1>1, <1>2, <2>1, <2>2, <2>3, <2>4 DEF Taken
<1>7. Shape'
  <2>1. \A u \in Threads : Working(u) => u # t /\ Working(u)' /\ at'[u] = at[u]
    BY <1>1, <1>2 DEF Working
  <2>2. ASSUME NEW u \in Threads, Working(u)', u # t PROVE Taken(u)'
    <3>1. Working(u) /\ at[u] \in Nodes
      BY <1>2, <2>2, WorksOnNode DEF Working
    <3> QED
      BY <1>1, <1>2, <1>3, <2>2, <3>1, SameNode DEF Layout, Shape, Taken, Half, Drop
  <2> QED
    BY <1>1, <1>6, <2>1, <2>2, SameShape DEF Layout
<1>8. BelowSorted'
  <2> SUFFICES ASSUME NEW m \in Nodes, NEW x \in Nodes, Strictly(m, x), Sorted(m)'
               PROVE  /\ node'[x] = InitNode(x) /\ queue'[x] = 0
                      /\ \A u \in Threads : at'[u] = x => pc'[u] = "idle"
    BY DEF BelowSorted, Strictly, Under, InitNode
  <2>1. /\ node[x] = InitNode(x) /\ queue[x] = 0
        /\ \A u \in Threads : at[u] = x => pc[u] = "idle"
    BY <1>3, SameNode DEF Layout, BelowSorted
  <2> QED
    BY <1>1, <1>2, <1>3, <2>1
<1>9. Around'
  <2> SUFFICES ASSUME NEW u \in Threads, Descending(u)'
               PROVE  /\ Dividing(u)' => node'[at'[u]] = InitNode(at'[u])
                      /\ \A m \in Nodes : Strictly(at'[u], m) => node'[m] = InitNode(m)
                      /\ \A m \in Nodes : Strictly(m, at'[u]) => Untaken(m, at[u])'
    BY DEF Around, Strictly, Under, InitNode
  <2>1. Descending(u) /\ at'[u] = at[u] /\ (Dividing(u)' => Dividing(u))
    BY <1>1, <1>2 DEF Descending, Dividing
  <2> QED
    BY <1>1, <1>3, <2>1, SameNode DEF Layout, Around, Untaken
<1> QED
  BY <1>2, <1>5, <1>7, <1>8, <1>9 DEF Layout

\* What Split does to the two threads.
LEMMA SplitThreads ==
  ASSUME Facts, NEW t \in Threads, Split(t)
  PROVE  LET n == at[t]
             new == Lo(n)
         IN /\ n \in Nodes /\ Lo(n) \in Nodes /\ Hi(n) \in Nodes /\ new \in Threads
            /\ new # t /\ pc[new] = "idle" /\ at[new] = new /\ pc[t] = "call"
            /\ pc'[new] = "call" /\ \A u \in Threads : u # new => pc'[u] = pc[u]
            /\ at'[t] = Hi(n) /\ \A u \in Threads : u # t => at'[u] = at[u]
            /\ SubthreadLines <= NodeLines[n]
            /\ UNCHANGED <<input, mem, out, node, lock, queue, loc>>
<1> DEFINE n == at[t]
           new == Lo(n)
<1>1. /\ pc[t] = "call" /\ NodeThreads[n] > 1 /\ SubthreadLines <= NodeLines[n]
      /\ pc' = [pc EXCEPT ![new] = "call"] /\ at' = [at EXCEPT ![t] = Hi(n)]
      /\ UNCHANGED <<input, mem, out, node, lock, queue, loc>>
  BY DEF Split, WorthSplitting
<1>2. Descending(t) /\ n \in Nodes
  BY <1>1, WorksOnNode DEF Descending
<1>3. Lo(n) \in Nodes /\ Hi(n) \in Nodes /\ new \in Threads
  BY <1>1, <1>2, SplitMakesNodes
<1>4. Under(n, new) /\ new # n
  BY <1>2, <1>3, UnderChild, UnderItself
<1>5. pc[new] = "idle"
  BY <1>2, <1>3, <1>4 DEF Facts, HandOver, Fresh
<1>6. at[new] = new
  BY <1>3, <1>5 DEF Facts, HandOver, Places
<1>7. /\ pc'[new] = "call" /\ (\A u \in Threads : u # new => pc'[u] = pc[u])
      /\ at'[t] = Hi(n) /\ (\A u \in Threads : u # t => at'[u] = at[u])
  BY <1>1, <1>3 DEF Facts, TypeOK
<1> QED
  BY <1>1, <1>2, <1>3, <1>5, <1>6, <1>7

\* A child of a node that is as init_node left it, with what is around it.
LEMMA AroundChild ==
  ASSUME Facts, Layout, NEW n \in Nodes, NEW c \in Nodes, c \in {Lo(n), Hi(n)},
         SubthreadLines <= NodeLines[n], node[n] = InitNode(n),
         \A m \in Nodes : Strictly(n, m) => node[m] = InitNode(m),
         \A m \in Nodes : Strictly(m, n) => Untaken(m, n)
  PROVE  /\ \A m \in Nodes : Under(c, m) => node[m] = InitNode(m)
         /\ \A m \in Nodes : Strictly(m, c) => Untaken(m, c)
<1>1. ASSUME NEW m \in Nodes, Under(c, m) PROVE node[m] = InitNode(m)
  BY <1>1, UnderChild DEF Strictly
<1>2. Parent(c) = n /\ Len(c) = Len(n) + 1 /\ Len(n) \in Nat /\ \A i \in 1..Len(n) : c[i] = n[i]
  BY ChildrenOf, NodesAreSequences
<1>3. ASSUME NEW m \in Nodes, Strictly(m, c) PROVE Untaken(m, c)
  <2>1. Under(m, n)
    BY <1>2, <1>3, AboveParent
  <2>2. CASE m = n
    BY <2>2, AsInit DEF Untaken
  <2>3. CASE m # n
    <3>1. Strictly(m, n) /\ Untaken(m, n)
      BY <2>1, <2>3 DEF Strictly
    <3>2. Len(m) < Len(n) /\ Len(m) \in Nat
      BY <3>1, SameLength, NodesAreSequences DEF Strictly, Under
    <3>3. c[Len(m) + 1] = n[Len(m) + 1]
      BY <1>2, <3>2
    <3> QED
      BY <3>1, <3>3 DEF Untaken
  <2> QED
    BY <2>2, <2>3
<1> QED
  BY <1>1, <1>3

LEMMA SplitLayout ==
  ASSUME Facts, Layout, NEW t \in Threads, Split(t)
  PROVE  Layout'
<1> DEFINE n == at[t]
           new == Lo(n)
<1>1. /\ n \in Nodes /\ Lo(n) \in Nodes /\ Hi(n) \in Nodes /\ new \in Threads
      /\ new # t /\ pc[new] = "idle" /\ at[new] = new /\ pc[t] = "call"
      /\ pc'[new] = "call" /\ (\A u \in Threads : u # new => pc'[u] = pc[u])
      /\ at'[t] = Hi(n) /\ (\A u \in Threads : u # t => at'[u] = at[u])
      /\ SubthreadLines <= NodeLines[n]
      /\ UNCHANGED <<input, mem, out, node, lock, queue, loc>>
  BY SplitThreads
<1>2. \A m \in Nodes : node'[m] = node[m]
  BY <1>1
<1>3. \A u \in Threads : /\ Working(u)' <=> Working(u)
                         /\ Merging(u)' <=> Merging(u)
                         /\ Merging(u) \/ Working(u) => at'[u] = at[u]
  BY <1>1 DEF Working, Merging
<1>4. Held'
  BY <1>1, <1>3 DEF Layout, Held
<1>5. Shape'
  <2>1. ASSUME NEW u \in Threads, Working(u)' PROVE Taken(u)'
    <3>1. Working(u) /\ at[u] \in Nodes /\ at'[u] = at[u]
      BY <1>3, <2>1, WorksOnNode
    <3> QED
      BY <1>1, <1>2, <3>1, SameNode DEF Layout, Shape, Taken, Half, Drop
  <2> QED
    BY <1>1, <1>3, <2>1, SameShape DEF Layout
<1>6. /\ node[n] = InitNode(n)
      /\ \A m \in Nodes : Strictly(n, m) => node[m] = InitNode(m)
      /\ \A m \in Nodes : Strictly(m, n) => Untaken(m, n)
  BY <1>1 DEF Layout, Around, Descending, Dividing
<1>7. ~Sorted(n)
  BY <1>1, <1>6, AsInit
<1>8. BelowSorted'
  <2> SUFFICES ASSUME NEW m \in Nodes, NEW x \in Nodes, Strictly(m, x), Sorted(m)'
               PROVE  /\ node'[x] = InitNode(x) /\ queue'[x] = 0
                      /\ \A u \in Threads : at'[u] = x => pc'[u] = "idle"
    BY DEF BelowSorted, Strictly, Under, InitNode
  <2>1. /\ Sorted(m) /\ node[x] = InitNode(x) /\ queue[x] = 0
        /\ \A u \in Threads : at[u] = x => pc[u] = "idle"
    BY <1>2, SameNode DEF Layout, BelowSorted
  <2>2. ASSUME x = Lo(n) \/ x = Hi(n) PROVE FALSE
    <3>1. Parent(x) = n
      BY <1>1, <2>2, ChildrenOf
    <3>2. Under(m, n)
      BY <3>1, AboveParent
    <3>3. Strictly(m, n)
      BY <1>7, <2>1, <3>2 DEF Strictly
    <3> QED
      BY <1>1, <2>1, <3>3, NotBelowSorted DEF Layout
  <2>3. ASSUME NEW u \in Threads, at'[u] = x PROVE pc'[u] = "idle"
    BY <1>1, <2>1, <2>2, <2>3
  <2> QED
    BY <1>1, <2>1, <2>3
<1>9. Around'
  <2> SUFFICES ASSUME NEW u \in Threads, Descending(u)'
               PROVE  /\ Dividing(u)' => node'[at'[u]] = InitNode(at'[u])
                      /\ \A m \in Nodes : Strictly(at'[u], m) => node'[m] = InitNode(m)
                      /\ \A m \in Nodes : Strictly(m, at'[u]) => Untaken(m, at[u])'
    BY DEF Around, Strictly, Under, InitNode
  <2>1. CASE u = t \/ u = new
    <3>1. at'[u] \in Nodes /\ at'[u] \in {Lo(n), Hi(n)}
      BY <1>1, <2>1
    <3>2. /\ \A m \in Nodes : Under(at'[u], m) => node[m] = InitNode(m)
          /\ \A m \in Nodes : Strictly(m, at'[u]) => Untaken(m, at'[u])
      BY <1>1, <1>6, <3>1, AroundChild
    <3>3. Under(at'[u], at'[u])
      BY <3>1, UnderItself
    <3> QED
      BY <1>2, <3>1, <3>2, <3>3, SameNode DEF Strictly
  <2>2. CASE u # t /\ u # new
    <3>1. Descending(u) /\ at'[u] = at[u] /\ (Dividing(u)' => Dividing(u)) /\ at[u] \in Nodes
      BY <1>1, <2>2, WorksOnNode DEF Descending, Dividing
    <3> QED
      BY <1>2, <3>1, SameNode DEF Layout, Around
  <2> QED
    BY <2>1, <2>2
<1> QED
  BY <1>4, <1>5, <1>8, <1>9 DEF Layout

\* What SortLeaf does but for the lines themselves.
LEMMA SortLeafNode ==
  ASSUME Facts, Layout, NEW t \in Threads, SortLeaf(t)
  PROVE  LET n == at[t] IN
         /\ n \in Nodes /\ pc[t] = "leaf" /\ pc'[t] = "insert"
         /\ \A u \in Threads : u # t => pc'[u] = pc[u]
         /\ \A m \in Nodes : m # n => node'[m] = node[m]
         /\ node'[n].lo = NodeStart[n] /\ node'[n].endLo = NodeStart[n] + Half(n)
         /\ node'[n].hi = NodeStart[n] + Half(n) /\ node'[n].endHi = NodeStart[n] + NodeLines[n]
         /\ node'[n].nlo = Half(n) /\ node'[n].nhi = NodeLines[n] - Half(n)
         /\ node[n] = InitNode(n) /\ ~Sorted(n)
         /\ UNCHANGED <<input, out, queue, lock, at, loc>>
<1> DEFINE n == at[t]
           lo == NodeStart[n]
           hi == lo + Half(n)
<1>1. /\ pc[t] = "leaf" /\ Advance(t, "insert") /\ UNCHANGED <<input, out, lock, at, loc>>
      /\ node' = [node EXCEPT ![n].lo = lo, ![n].endLo = hi, ![n].hi = hi,
                              ![n].endHi = hi + (NodeLines[n] - Half(n))]
  BY DEF SortLeaf, Half
<1>2. n \in Nodes /\ node[n] = InitNode(n) /\ node[n] \in NodeFields
  BY <1>1, WorksOnNode DEF Descending, Dividing, Layout, Around, Facts, TypeOK
<1>3. ~Sorted(n) /\ node[n].nlo = Half(n) /\ node[n].nhi = NodeLines[n] - Half(n)
  BY <1>2, AsInit
<1>4. /\ pc'[t] = "insert" /\ (\A u \in Threads : u # t => pc'[u] = pc[u]) /\ UNCHANGED queue
  BY <1>1 DEF Advance, Facts, TypeOK
<1>5. lo \in Nat /\ Half(n) \in Nat /\ NodeLines[n] \in Nat
  BY <1>2, Numbers
<1>6. hi + (NodeLines[n] - Half(n)) = NodeStart[n] + NodeLines[n]
  BY <1>5
<1>7. /\ \A m \in Nodes : m # n => node'[m] = node[m]
      /\ node'[n].lo = NodeStart[n] /\ node'[n].endLo = NodeStart[n] + Half(n)
      /\ node'[n].hi = NodeStart[n] + Half(n) /\ node'[n].endHi = NodeStart[n] + NodeLines[n]
      /\ node'[n].nlo = node[n].nlo /\ node'[n].nhi = node[n].nhi
  <2>1. node \in [Nodes -> NodeFields]
    BY DEF Facts, TypeOK
  <2> DEFINE a == NodeStart[n]
             b == NodeStart[n] + Half(n)
             c == NodeStart[n] + NodeLines[n]
  <2>2. node' = [node EXCEPT ![n].lo = a, ![n].endLo = b, ![n].hi = b, ![n].endHi = c]
    BY <1>1, <1>6
  <2> HIDE DEF a, b, c
  <2>3. /\ \A m \in Nodes : m # n => node'[m] = node[m]
        /\ node'[n].lo = a /\ node'[n].endLo = b /\ node'[n].hi = b /\ node'[n].endHi = c
        /\ node'[n].nlo = node[n].nlo /\ node'[n].nhi = node[n].nhi
    BY <1>2, <2>1, <2>2 DEF NodeFields
  <2> QED
    BY <2>3 DEF a, b, c
<1> QED
  BY <1>1, <1>2, <1>3, <1>4, <1>7

LEMMA WithinArea ==
  ASSUME NEW n \in Nodes
  PROVE  NodeStart[n] + NodeLines[n] <= NLines
<1>1. Root \in Nodes /\ Stop(Root) = NLines
  BY RootIsNode, TreeAssumption DEF Stop
<1> QED
  BY <1>1, RootAbove, Nested DEF Stop

LEMMA SortLeafLayout ==
  ASSUME Facts, Layout, NEW t \in Threads, SortLeaf(t)
  PROVE  Layout'
<1> DEFINE n == at[t]
<1>1. /\ n \in Nodes /\ pc[t] = "leaf" /\ pc'[t] = "insert"
      /\ \A u \in Threads : u # t => pc'[u] = pc[u]
      /\ \A m \in Nodes : m # n => node'[m] = node[m]
      /\ node'[n].lo = NodeStart[n] /\ node'[n].endLo = NodeStart[n] + Half(n)
      /\ node'[n].hi = NodeStart[n] + Half(n) /\ node'[n].endHi = NodeStart[n] + NodeLines[n]
      /\ node'[n].nlo = Half(n) /\ node'[n].nhi = NodeLines[n] - Half(n)
      /\ node[n] = InitNode(n) /\ ~Sorted(n)
      /\ UNCHANGED <<input, out, queue, lock, at, loc>>
  BY SortLeafNode
<1>2. /\ NodeStart[n] \in Nat /\ NodeLines[n] \in Nat /\ Half(n) \in Nat /\ Half(n) <= NodeLines[n]
      /\ NodeStart[n] + NodeLines[n] <= NLines
  BY <1>1, Numbers, WithinArea
<1>3. Sorted(n)' /\ Base(n)' = NodeStart[n]
  <2>1. Sorted(n)'
    BY <1>1, <1>2 DEF Sorted
  <2>2. Base(n)' = 0 * NLines + NodeStart[n]
    BY <1>1, <2>1 DEF Base, Area
  <2> QED
    BY <1>2, <2>1, <2>2
<1>4. Descending(t) /\ \A u \in Threads : Working(u) => at[u] # n /\ u # t
  <2>1. Descending(t) /\ Under(n, n)
    BY <1>1, UnderItself DEF Descending
  <2>2. \A u \in Threads : Working(u) => pc[u] # "idle" /\ u # t
    BY <1>1 DEF Working
  <2> QED
    BY <1>1, <2>1, <2>2, FreshAlone
<1>5. \A u \in Threads : /\ Working(u)' <=> Working(u)
                         /\ Merging(u)' <=> Merging(u)
  BY <1>1 DEF Working, Merging
<1>6. Held'
  BY <1>1, <1>5 DEF Layout, Held
<1>7. Shape'
  <2>1. ASSUME NEW m \in Nodes PROVE Chain(m)'
    <3>1. CASE m = n
      <4>1. /\ node'[m].lo = Base(m)' /\ node'[m].endLo = Base(m)' + Half(m)
            /\ node'[m].hi = Base(m)' + Half(m) /\ node'[m].endHi = Base(m)' + NodeLines[m]
            /\ Sorted(m)' /\ Base(m)' \in Nat
        BY <1>1, <1>2, <1>3, <3>1
      <4>2. NodeLines[m] \in Nat /\ Half(m) \in Nat /\ Half(m) <= NodeLines[m]
        BY Numbers
      <4>3. /\ Base(m)' <= Base(m)' + Half(m) /\ Base(m)' + Half(m) <= Base(m)' + NodeLines[m]
            /\ Base(m)' <= Base(m)' /\ Base(m)' + Half(m) <= Base(m)' + Half(m)
            /\ Base(m)' + NodeLines[m] <= Base(m)' + NodeLines[m]
        BY <4>1, <4>2
      <4> QED
        BY <4>1, <4>3 DEF Chain, Half
    <3>2. CASE m # n
      BY <1>1, <3>2, SameNode DEF Layout, Shape
    <3> QED
      BY <3>1, <3>2
  <2>2. ASSUME NEW m \in Nodes, m # Root, ~Sorted(Parent(m))'
        PROVE  Dest(m)' = Drop(m) + NodeLines[m] - node'[m].nlo - node'[m].nhi
    <3>1. Parent(m) \in Nodes /\ Parent(m) # n
      BY <1>1, <1>3, <2>2, ParentIsNode
    <3>2. node'[Parent(m)] = node[Parent(m)]
      BY <1>1, <3>1
    <3>3. ~Sorted(Parent(m)) /\ Dest(m)' = Dest(m)
      BY <2>2, <3>2 DEF Sorted, Dest
    <3>4. Dest(m) = Drop(m) + NodeLines[m] - node[m].nlo - node[m].nhi
      BY <2>2, <3>3 DEF Layout, Shape, Delivered
    <3>5. node'[m].nlo = node[m].nlo /\ node'[m].nhi = node[m].nhi
      BY <1>1, AsInit
    <3> QED
      BY <3>3, <3>4, <3>5
  <2>3. ASSUME NEW m \in Nodes, \A u \in Threads : ~(Working(u)' /\ at'[u] = m)
        PROVE  /\ node'[m].nlo = Base(m)' + Half(m) - node'[m].lo
               /\ node'[m].nhi = Base(m)' + NodeLines[m] - node'[m].hi
    <3>1. CASE m = n
      <4>1. Half(n) = NodeStart[n] + Half(n) - NodeStart[n]
        BY <1>2
      <4>2. NodeLines[n] - Half(n) = NodeStart[n] + NodeLines[n] - (NodeStart[n] + Half(n))
        BY <1>2
      <4> QED
        BY <1>1, <1>3, <3>1, <4>1, <4>2
    <3>2. CASE m # n
      <4>1. \A u \in Threads : ~(Working(u) /\ at[u] = m)
        BY <1>1, <1>5, <2>3
      <4> QED
        BY <1>1, <3>2, <4>1, SameNode DEF Layout, Shape, Left
    <3> QED
      BY <3>1, <3>2
  <2>4. ASSUME NEW u \in Threads, Working(u)' PROVE Taken(u)'
    <3>1. Working(u) /\ at[u] \in Nodes /\ at[u] # n
      BY <1>4, <1>5, <2>4, WorksOnNode
    <3> QED
      BY <1>1, <3>1, SameNode DEF Layout, Shape, Taken, Half, Drop
  <2>5. \A m \in Nodes : Delivered(m)' /\ Left(m)'
    BY <2>2, <2>3 DEF Delivered, Left, Drop, Half
  <2> QED
    BY <2>1, <2>4, <2>5 DEF Shape, Taken
<1>8. BelowSorted'
  <2> SUFFICES ASSUME NEW m \in Nodes, NEW x \in Nodes, Strictly(m, x), Sorted(m)'
               PROVE  /\ node'[x] = InitNode(x) /\ queue'[x] = 0
                      /\ \A u \in Threads : at'[u] = x => pc'[u] = "idle"
    BY DEF BelowSorted, Strictly, Under, InitNode
  <2>1. CASE m = n
    <3>1. node[x] = InitNode(x) /\ x # n
      BY <1>4, <2>1 DEF Layout, Around, Strictly
    <3>2. queue[x] = 0 /\ \A u \in Threads : at[u] = x => u = t \/ pc[u] = "idle"
      BY <1>4, <2>1 DEF Facts, HandOver, Fresh, Strictly
    <3> QED
      BY <1>1, <3>1, <3>2
  <2>2. CASE m # n
    <3>1. /\ Sorted(m) /\ node[x] = InitNode(x) /\ queue[x] = 0
          /\ \A u \in Threads : at[u] = x => pc[u] = "idle"
      BY <1>1, <2>2, SameNode DEF Layout, BelowSorted
    <3> QED
      BY <1>1, <3>1
  <2> QED
    BY <2>1, <2>2
<1>9. Around'
  <2> SUFFICES ASSUME NEW u \in Threads, Descending(u)'
               PROVE  /\ Dividing(u)' => node'[at'[u]] = InitNode(at'[u])
                      /\ \A m \in Nodes : Strictly(at'[u], m) => node'[m] = InitNode(m)
                      /\ \A m \in Nodes : Strictly(m, at'[u]) => Untaken(m, at[u])'
    BY DEF Around, Strictly, Under, InitNode
  <2>1. Descending(u) /\ at'[u] = at[u] /\ (Dividing(u)' => Dividing(u)) /\ at[u] \in Nodes
    BY <1>1, <1>4, WorksOnNode DEF Descending, Dividing
  <2>2. /\ Dividing(u) => node[at[u]] = InitNode(at[u])
        /\ \A m \in Nodes : Strictly(at[u], m) => node[m] = InitNode(m)
        /\ \A m \in Nodes : Strictly(m, at[u]) => Untaken(m, at[u])
    BY <2>1 DEF Layout, Around
  <2>3. CASE u = t
    <3>1. ~Dividing(u)'
      BY <1>1, <2>3 DEF Dividing
    <3> QED
      BY <1>1, <2>1, <2>2, <2>3, <3>1, SameNode DEF Strictly
  <2>4. CASE u # t
    <3>1. ~Under(at[u], n) /\ ~Under(n, at[u])
      BY <1>1, <1>4, <2>1, <2>4, FreshAlone DEF Descending
    <3>2. at[u] # n
      BY <1>1, <3>1, UnderItself
    <3> QED
      BY <1>1, <2>1, <2>2, <3>1, <3>2, SameNode DEF Strictly
  <2> QED
    BY <2>3, <2>4
<1> QED
  BY <1>6, <1>7, <1>8, <1>9 DEF Layout

-----------------------------------------------------------------------------
(* Merging a line.                                                         *)

\* Cell src is the one to take a line from at the node of t.
Chosen(t, src) ==
  LET n == at[t] IN
  \/ /\ BothAvailable(n)
     /\ src = (IF LessEq(Cell(node[n].lo), Cell(node[n].hi)) THEN node[n].lo ELSE node[n].hi)
  \/ HiExhausted(t) /\ src = node[n].lo
  \/ LoExhausted(t) /\ src = node[n].hi

\* Thread t takes the line of cell src.
Takes(t, src) ==
  LET n == at[t] IN
  /\ n \in Nodes /\ Working(t) /\ UNCHANGED <<input, queue, lock, pc, at>>
  /\ \A m \in Nodes : m # n => node'[m] = node[m]
  /\ node'[n].endLo = node[n].endLo /\ node'[n].endHi = node[n].endHi
  /\ node'[n].nlo = node[n].nlo /\ node'[n].nhi = node[n].nhi
  /\ \/ /\ src = node[n].lo /\ src # node[n].endLo
        /\ node'[n].lo = src + 1 /\ node'[n].hi = node[n].hi
     \/ /\ src = node[n].hi /\ src # node[n].endHi
        /\ node'[n].lo = node[n].lo /\ node'[n].hi = src + 1
  /\ \A u \in Threads : loc'[u].lo0 = loc[u].lo0 /\ loc'[u].hi0 = loc[u].hi0
  /\ \A u \in Threads : u # t => loc'[u].dest = loc[u].dest
  /\ loc'[t].dest = loc[t].dest + (IF n = Root THEN 0 ELSE 1)
  /\ BothAvailable(n) \/ CanDrainLo(t) \/ CanDrainHi(t)
  /\ Chosen(t, src)
  /\ n = Root => mem' = mem /\ out' = WriteUnique(Cell(src))
  /\ n # Root => out' = out /\ mem' = [mem EXCEPT ![loc[t].dest] = Cell(src)]

LEMMA EmitLocals ==
  ASSUME TypeOK, NEW t \in Threads, NEW l, Emit(t, l)
  PROVE  /\ \A u \in Threads : loc'[u].lo0 = loc[u].lo0 /\ loc'[u].hi0 = loc[u].hi0
         /\ \A u \in Threads : u # t => loc'[u].dest = loc[u].dest
         /\ loc'[t].dest = loc[t].dest + (IF at[t] = Root THEN 0 ELSE 1)
<1>1. loc \in [Threads -> Locals] /\ loc[t].dest \in Nat
  BY LocalNumbers DEF TypeOK
<1>2. CASE at[t] = Root
  <2>1. loc' = [loc EXCEPT ![t].left = @ - 1]
    BY <1>2 DEF Emit
  <2> QED
    BY <1>1, <1>2, <2>1 DEF Locals
<1>3. CASE at[t] # Root
  <2>1. loc' = [loc EXCEPT ![t].left = @ - 1, ![t].dest = @ + 1]
    BY <1>3 DEF Emit
  <2> QED
    BY <1>1, <1>3, <2>1 DEF Locals
<1> QED
  BY <1>2, <1>3

LEMMA TakeEffect ==
  ASSUME Facts, NEW t \in Threads, MergeLine(t) \/ DrainLine(t)
  PROVE  \E src \in Nat : Takes(t, src)
<1> DEFINE n == at[t]
<1>1. /\ pc[t] \in {"merge", "drain"} /\ UNCHANGED <<input, queue, lock, pc, at>>
      /\ BothAvailable(n) \/ CanDrainLo(t) \/ CanDrainHi(t)
      /\ \/ TakeLo(t) /\ node[n].lo # node[n].endLo /\ Chosen(t, node[n].lo)
         \/ TakeHi(t) /\ node[n].hi # node[n].endHi /\ Chosen(t, node[n].hi)
  BY DEF MergeLine, DrainLine, BothAvailable, CanDrainLo, CanDrainHi, Chosen
<1>2. n \in Nodes /\ Working(t) /\ node \in [Nodes -> NodeFields]
  BY <1>1, WorksOnNode DEF Working, Facts, TypeOK
<1>3. node[n].lo \in Nat /\ node[n].hi \in Nat
  BY <1>2, Pointers DEF Facts
<1>4. CASE TakeLo(t) /\ node[n].lo # node[n].endLo /\ Chosen(t, node[n].lo)
  <2> DEFINE src == node[n].lo
  <2>1. Emit(t, Cell(src)) /\ node' = [node EXCEPT ![n].lo = @ + 1]
    BY <1>4 DEF TakeLo
  <2>2. /\ \A m \in Nodes : m # n => node'[m] = node[m]
        /\ node'[n].endLo = node[n].endLo /\ node'[n].endHi = node[n].endHi
        /\ node'[n].nlo = node[n].nlo /\ node'[n].nhi = node[n].nhi
        /\ node'[n].lo = src + 1 /\ node'[n].hi = node[n].hi
    BY <1>2, <2>1 DEF NodeFields
  <2>3. /\ \A u \in Threads : loc'[u].lo0 = loc[u].lo0 /\ loc'[u].hi0 = loc[u].hi0
        /\ \A u \in Threads : u # t => loc'[u].dest = loc[u].dest
        /\ loc'[t].dest = loc[t].dest + (IF n = Root THEN 0 ELSE 1)
    BY <2>1, EmitLocals DEF Facts
  <2>4. /\ n = Root => mem' = mem /\ out' = WriteUnique(Cell(src))
        /\ n # Root => out' = out /\ mem' = [mem EXCEPT ![loc[t].dest] = Cell(src)]
    BY <2>1 DEF Emit
  <2>5. Takes(t, src)
    BY <1>1, <1>2, <1>4, <2>2, <2>3, <2>4 DEF Takes
  <2> QED
    BY <1>3, <2>5
<1>5. CASE TakeHi(t) /\ node[n].hi # node[n].endHi /\ Chosen(t, node[n].hi)
  <2> DEFINE src == node[n].hi
  <2>1. Emit(t, Cell(src)) /\ node' = [node EXCEPT ![n].hi = @ + 1]
    BY <1>5 DEF TakeHi
  <2>2. /\ \A m \in Nodes : m # n => node'[m] = node[m]
        /\ node'[n].endLo = node[n].endLo /\ node'[n].endHi = node[n].endHi
        /\ node'[n].nlo = node[n].nlo /\ node'[n].nhi = node[n].nhi
        /\ node'[n].lo = node[n].lo /\ node'[n].hi = src + 1
    BY <1>2, <2>1 DEF NodeFields
  <2>3. /\ \A u \in Threads : loc'[u].lo0 = loc[u].lo0 /\ loc'[u].hi0 = loc[u].hi0
        /\ \A u \in Threads : u # t => loc'[u].dest = loc[u].dest
        /\ loc'[t].dest = loc[t].dest + (IF n = Root THEN 0 ELSE 1)
    BY <2>1, EmitLocals DEF Facts
  <2>4. /\ n = Root => mem' = mem /\ out' = WriteUnique(Cell(src))
        /\ n # Root => out' = out /\ mem' = [mem EXCEPT ![loc[t].dest] = Cell(src)]
    BY <2>1 DEF Emit
  <2>5. Takes(t, src)
    BY <1>1, <1>2, <1>5, <2>2, <2>3, <2>4 DEF Takes
  <2> QED
    BY <1>3, <2>5
<1> QED
  BY <1>1, <1>4, <1>5

LEMMA OneMore ==
  ASSUME NEW d \in Nat, NEW b \in Nat, NEW h \in Nat,
         NEW x \in Nat, NEW y \in Nat, NEW v \in Nat, NEW w \in Nat, v + w = x + y + 1
  PROVE  d + (v - b) + (w - b - h) = d + (x - b) + (y - b - h) + 1
OBVIOUS

LEMMA TakeLayout ==
  ASSUME Facts, Layout, NEW t \in Threads, NEW src \in Nat, Takes(t, src)
  PROVE  Layout'
<1> DEFINE n == at[t]
<1>1. /\ n \in Nodes /\ Working(t) /\ UNCHANGED <<input, queue, lock, pc, at>>
      /\ \A m \in Nodes : m # n => node'[m] = node[m]
      /\ node'[n].endLo = node[n].endLo /\ node'[n].endHi = node[n].endHi
      /\ node'[n].nlo = node[n].nlo /\ node'[n].nhi = node[n].nhi
      /\ \/ /\ src = node[n].lo /\ src # node[n].endLo
            /\ node'[n].lo = src + 1 /\ node'[n].hi = node[n].hi
         \/ /\ src = node[n].hi /\ src # node[n].endHi
            /\ node'[n].lo = node[n].lo /\ node'[n].hi = src + 1
      /\ \A u \in Threads : loc'[u].lo0 = loc[u].lo0 /\ loc'[u].hi0 = loc[u].hi0
      /\ \A u \in Threads : u # t => loc'[u].dest = loc[u].dest
      /\ loc'[t].dest = loc[t].dest + (IF n = Root THEN 0 ELSE 1)
      /\ BothAvailable(n) \/ CanDrainLo(t) \/ CanDrainHi(t)
  BY DEF Takes
<1>2. \A m \in Nodes : /\ Sorted(m)' <=> Sorted(m)
                       /\ Base(m)' = Base(m) /\ Drop(m)' = Drop(m)
                       /\ node'[m].endLo = node[m].endLo /\ node'[m].endHi = node[m].endHi
                       /\ node'[m].nlo = node[m].nlo /\ node'[m].nhi = node[m].nhi
  <2> SUFFICES ASSUME NEW m \in Nodes
               PROVE  /\ Sorted(m)' <=> Sorted(m)
                      /\ Base(m)' = Base(m) /\ Drop(m)' = Drop(m)
                      /\ node'[m].endLo = node[m].endLo /\ node'[m].endHi = node[m].endHi
                      /\ node'[m].nlo = node[m].nlo /\ node'[m].nhi = node[m].nhi
    OBVIOUS
  <2>1. /\ node'[m].endLo = node[m].endLo /\ node'[m].endHi = node[m].endHi
        /\ node'[m].nlo = node[m].nlo /\ node'[m].nhi = node[m].nhi
    BY <1>1
  <2>2. Sorted(m)' <=> Sorted(m)
    BY <2>1 DEF Sorted
  <2> QED
    BY <2>1, <2>2 DEF Base, Area, Drop
<1>3. /\ node[n].lo \in Nat /\ node[n].hi \in Nat /\ node[n].endLo \in Nat /\ node[n].endHi \in Nat
      /\ Base(n) \in Nat /\ Half(n) \in Nat /\ Drop(n) \in Nat
      /\ loc[t].lo0 \in Nat /\ loc[t].hi0 \in Nat /\ loc[t].dest \in Nat
  BY <1>1, Pointers, Starts, Numbers, LocalNumbers DEF Facts
<1>4. /\ node[n].lo <= node'[n].lo /\ node'[n].lo <= node[n].endLo
      /\ node[n].hi <= node'[n].hi /\ node'[n].hi <= node[n].endHi
      /\ node'[n].lo \in Nat /\ node'[n].hi \in Nat
      /\ node'[n].lo + node'[n].hi = node[n].lo + node[n].hi + 1
  <2>1. node[n].lo <= node[n].endLo /\ node[n].hi <= node[n].endHi
    BY <1>1 DEF Layout, Shape, Chain
  <2>2. CASE /\ src = node[n].lo /\ src # node[n].endLo
             /\ node'[n].lo = src + 1 /\ node'[n].hi = node[n].hi
    BY <1>3, <2>1, <2>2
  <2>3. CASE /\ src = node[n].hi /\ src # node[n].endHi
             /\ node'[n].lo = node[n].lo /\ node'[n].hi = src + 1
    BY <1>3, <2>1, <2>3
  <2> QED
    BY <1>1, <2>2, <2>3
<1>5. Held'
  BY <1>1 DEF Layout, Held, Merging
<1>6. Shape'
  <2>1. ASSUME NEW m \in Nodes PROVE Chain(m)'
    <3>1. CASE m = n
      <4>1. /\ Base(n) <= node[n].lo /\ node[n].endLo <= Base(n) + Half(n)
            /\ Base(n) + Half(n) <= node[n].hi /\ node[n].endHi <= Base(n) + NodeLines[n]
            /\ Sorted(n) => node[n].endLo = Base(n) + Half(n) /\ node[n].endHi = Base(n) + NodeLines[n]
            /\ ~Sorted(n) /\ Lo(n) \notin Nodes =>
                 node[n].endLo = Base(n) /\ node[n].endHi = Base(n) + Half(n)
        BY <1>1 DEF Layout, Shape, Chain
      <4>2. Base(n) <= node'[n].lo
        BY <1>3, <1>4, <4>1
      <4>3. Base(n) + Half(n) <= node'[n].hi
        BY <1>3, <1>4, <4>1
      <4>4. /\ Base(n)' <= node'[n].lo /\ node'[n].lo <= node'[n].endLo
            /\ node'[n].endLo <= Base(n)' + Half(n)
            /\ Base(n)' + Half(n) <= node'[n].hi /\ node'[n].hi <= node'[n].endHi
            /\ node'[n].endHi <= Base(n)' + NodeLines[n]
        BY <1>1, <1>2, <1>4, <4>1, <4>2, <4>3
      <4>5. /\ Sorted(n)' => node'[n].endLo = Base(n)' + Half(n) /\ node'[n].endHi = Base(n)' + NodeLines[n]
            /\ ~Sorted(n)' /\ Lo(n) \notin Nodes =>
                 node'[n].endLo = Base(n)' /\ node'[n].endHi = Base(n)' + Half(n)
        BY <1>1, <1>2, <4>1
      <4>6. /\ Base(m)' <= node'[m].lo /\ node'[m].lo <= node'[m].endLo
            /\ node'[m].endLo <= Base(m)' + Half(m)
            /\ Base(m)' + Half(m) <= node'[m].hi /\ node'[m].hi <= node'[m].endHi
            /\ node'[m].endHi <= Base(m)' + NodeLines[m]
            /\ Sorted(m)' => node'[m].endLo = Base(m)' + Half(m) /\ node'[m].endHi = Base(m)' + NodeLines[m]
            /\ ~Sorted(m)' /\ Lo(m) \notin Nodes =>
                 node'[m].endLo = Base(m)' /\ node'[m].endHi = Base(m)' + Half(m)
        BY <1>1, <3>1, <4>4, <4>5
      <4> QED
        BY <4>6 DEF Chain, Half
    <3>2. CASE m # n
      BY <1>1, <3>2, SameNode DEF Layout, Shape
    <3> QED
      BY <3>1, <3>2
  <2>2. ASSUME NEW m \in Nodes, m # Root, ~Sorted(Parent(m))'
        PROVE  Dest(m)' = Drop(m) + NodeLines[m] - node'[m].nlo - node'[m].nhi
    <3>1. Parent(m) \in Nodes
      BY <2>2, ParentIsNode
    <3>2. ~Sorted(Parent(m)) /\ Dest(m)' = Dest(m)
      BY <1>2, <2>2, <3>1 DEF Dest
    <3> QED
      BY <1>2, <2>2, <3>2 DEF Layout, Shape, Delivered
  <2>3. ASSUME NEW m \in Nodes, \A u \in Threads : ~(Working(u)' /\ at'[u] = m)
        PROVE  /\ node'[m].nlo = Base(m)' + Half(m) - node'[m].lo
               /\ node'[m].nhi = Base(m)' + NodeLines[m] - node'[m].hi
    <3>1. m # n /\ \A u \in Threads : ~(Working(u) /\ at[u] = m)
      BY <1>1, <2>3 DEF Working
    <3> QED
      BY <1>1, <3>1, SameNode DEF Layout, Shape, Left
  <2>4. ASSUME NEW u \in Threads, Working(u)' PROVE Taken(u)'
    <3>1. Working(u) /\ at[u] \in Nodes /\ at'[u] = at[u]
      BY <1>1, <2>4, WorksOnNode DEF Working
    <3>2. CASE u # t
      <4>1. at[u] # n
        BY <1>1, <3>1, <3>2, Alone DEF Layout
      <4> QED
        BY <1>1, <3>1, <3>2, <4>1, SameNode DEF Layout, Shape, Taken, Half, Drop
    <3>3. CASE u = t
      <4>1. /\ node[n].nlo = Base(n) + Half(n) - loc[t].lo0 /\ loc[t].lo0 <= node[n].lo
            /\ node[n].nhi = Base(n) + NodeLines[n] - loc[t].hi0 /\ loc[t].hi0 <= node[n].hi
            /\ n # Root => loc[t].dest = Drop(n) + (node[n].lo - Base(n)) + (node[n].hi - Base(n) - Half(n))
        BY <1>1 DEF Layout, Shape, Taken
      <4>2. loc[t].lo0 <= node'[n].lo
        BY <1>3, <1>4, <4>1
      <4>3. loc[t].hi0 <= node'[n].hi
        BY <1>3, <1>4, <4>1
      <4>4. n # Root => loc'[t].dest = Drop(n) + (node'[n].lo - Base(n)) + (node'[n].hi - Base(n) - Half(n))
        <5> SUFFICES ASSUME n # Root
                     PROVE  loc'[t].dest = Drop(n) + (node'[n].lo - Base(n)) + (node'[n].hi - Base(n) - Half(n))
          OBVIOUS
        <5>1. loc'[t].dest = Drop(n) + (node[n].lo - Base(n)) + (node[n].hi - Base(n) - Half(n)) + 1
          BY <1>1, <4>1
        <5> DEFINE d == Drop(n)
                   b == Base(n)
                   h == Half(n)
                   x == node[n].lo
                   y == node[n].hi
                   v == node'[n].lo
                   w == node'[n].hi
        <5>2. /\ d \in Nat /\ b \in Nat /\ h \in Nat /\ x \in Nat /\ y \in Nat /\ v \in Nat /\ w \in Nat
              /\ v + w = x + y + 1
          BY <1>3, <1>4
        <5>3. loc'[t].dest = d + (x - b) + (y - b - h) + 1
          BY <5>1
        <5> HIDE DEF d, b, h, x, y, v, w
        <5>4. d + (v - b) + (w - b - h) = d + (x - b) + (y - b - h) + 1
          BY <5>2
        <5>5. loc'[t].dest = d + (v - b) + (w - b - h)
          BY <5>3, <5>4
        <5> QED
          BY <5>5 DEF d, b, h, x, y, v, w
      <4>5. /\ node'[n].nlo = Base(n)' + Half(n) - loc'[t].lo0 /\ loc'[t].lo0 <= node'[n].lo
            /\ node'[n].nhi = Base(n)' + NodeLines[n] - loc'[t].hi0 /\ loc'[t].hi0 <= node'[n].hi
            /\ n # Root => loc'[t].dest = Drop(n)' + (node'[n].lo - Base(n)') + (node'[n].hi - Base(n)' - Half(n))
        <5>1. Base(n)' = Base(n) /\ Drop(n)' = Drop(n)
          BY <1>1, <1>2
        <5> QED
          BY <1>1, <4>1, <4>2, <4>3, <4>4, <5>1
      <4> QED
        BY <1>1, <3>3, <4>5 DEF Taken, Half
    <3> QED
      BY <3>2, <3>3
  <2>5. \A m \in Nodes : Delivered(m)' /\ Left(m)'
    BY <2>2, <2>3 DEF Delivered, Left, Drop, Half
  <2> QED
    BY <2>1, <2>4, <2>5 DEF Shape, Taken
<1>7. BelowSorted'
  <2> SUFFICES ASSUME NEW m \in Nodes, NEW x \in Nodes, Strictly(m, x), Sorted(m)'
               PROVE  /\ node'[x] = InitNode(x) /\ queue'[x] = 0
                      /\ \A u \in Threads : at'[u] = x => pc'[u] = "idle"
    BY DEF BelowSorted, Strictly, Under, InitNode
  <2>1. /\ node[x] = InitNode(x) /\ queue[x] = 0
        /\ \A u \in Threads : at[u] = x => pc[u] = "idle"
    BY <1>2 DEF Layout, BelowSorted
  <2>2. x # n
    BY <1>1, <2>1 DEF Working
  <2> QED
    BY <1>1, <2>1, <2>2
<1>8. Around'
  <2> SUFFICES ASSUME NEW u \in Threads, Descending(u)'
               PROVE  /\ Dividing(u)' => node'[at'[u]] = InitNode(at'[u])
                      /\ \A m \in Nodes : Strictly(at'[u], m) => node'[m] = InitNode(m)
                      /\ \A m \in Nodes : Strictly(m, at'[u]) => Untaken(m, at[u])'
    BY DEF Around, Strictly, Under, InitNode
  <2>1. Descending(u) /\ at'[u] = at[u] /\ (Dividing(u)' => Dividing(u)) /\ at[u] \in Nodes
    BY <1>1, WorksOnNode DEF Descending, Dividing
  <2>2. /\ Dividing(u) => node[at[u]] = InitNode(at[u])
        /\ \A m \in Nodes : Strictly(at[u], m) => node[m] = InitNode(m)
        /\ \A m \in Nodes : Strictly(m, at[u]) => Untaken(m, at[u])
    BY <2>1 DEF Layout, Around
  <2>3. u # t /\ pc[t] # "idle"
    BY <1>1, <2>1 DEF Descending, Working
  <2>4. ~Under(at[u], n)
    BY <1>1, <2>1, <2>3, FreshAlone
  <2>5. ~Strictly(n, at[u])
    BY <1>1, <2>1, NothingToTake
  <2>6. at[u] # n
    BY <1>1, <2>4, UnderItself
  <2> QED
    BY <1>1, <2>1, <2>2, <2>4, <2>5, <2>6, SameNode DEF Strictly
<1> QED
  BY <1>5, <1>6, <1>7, <1>8 DEF Layout

-----------------------------------------------------------------------------
(* Publishing what was merged.                                             *)

LEMMA Siblings ==
  ASSUME NEW n \in Nodes, NEW m \in Nodes, n # Root, m # Root, Parent(n) = Parent(m),
         n[Len(n)] = m[Len(m)]
  PROVE  n = m
<1>1. /\ n \in Seq({0, 1}) /\ m \in Seq({0, 1}) /\ Len(n) \in Nat /\ Len(m) \in Nat
  BY NodesAreSequences
<1> DEFINE p == Parent(n)
<1>2. /\ p \in Nodes /\ Len(n) = Len(p) + 1 /\ Len(m) = Len(p) + 1 /\ Len(p) \in Nat
      /\ Under(p, n) /\ Under(p, m)
  BY ChildShare, NodesAreSequences DEF Strictly
<1>3. \A i \in 1..Len(n) : n[i] = m[i]
  <2> TAKE i \in 1..Len(n)
  <2>1. i \in 1..Len(p) \/ i = Len(n)
    BY <1>2
  <2>2. i \in 1..Len(p) => n[i] = p[i] /\ m[i] = p[i]
    BY <1>2 DEF Under
  <2> QED
    BY <1>2, <2>1, <2>2
<1> QED
  BY <1>1, <1>2, <1>3

LEMMA StrictlyParent ==
  ASSUME NEW n \in Nodes, n # Root, NEW m \in Nodes, Under(m, Parent(n))
  PROVE  Strictly(m, n)
<1>1. Under(m, n) /\ Parent(n) \in Nodes /\ Strictly(Parent(n), n)
  BY UnderParent, ChildShare
<1>2. m # n
  BY <1>1, SameLength, NodesAreSequences DEF Strictly, Under
<1> QED
  BY <1>1, <1>2 DEF Strictly

LEMMA ParentHasChildren ==
  ASSUME NEW n \in Nodes, n # Root
  PROVE  Lo(Parent(n)) \in Nodes
<1>1. Parent(n) \in Nodes /\ NodeThreads[Parent(n)] > 1
  BY ParentIsNode DEF Nodes
<1> QED
  BY <1>1, SplitMakesNodes

\* What Publish does to the nodes.
LEMMA PublishNode ==
  ASSUME Facts, Layout, NEW t \in Threads, Publish(t)
  PROVE  LET n == at[t]
             p == Parent(n)
         IN /\ n \in Nodes /\ pc[t] = "publish" /\ pc'[t] = "check"
            /\ \A u \in Threads : u # t => pc'[u] = pc[u] /\ loc'[u] = loc[u]
            /\ UNCHANGED <<input, mem, out, lock, at, queue>>
            /\ node'[n].lo = node[n].lo /\ node'[n].hi = node[n].hi
            /\ node'[n].endLo = node[n].endLo /\ node'[n].endHi = node[n].endHi
            /\ node'[n].nlo = node[n].nlo - (node[n].lo - loc[t].lo0)
            /\ node'[n].nhi = node[n].nhi - (node[n].hi - loc[t].hi0)
            /\ \A m \in Nodes : m # n /\ (n = Root \/ m # p) => node'[m] = node[m]
            /\ n # Root =>
                 /\ p \in Nodes /\ p # n /\ ~Sorted(p)
                 /\ node'[p].lo = node[p].lo /\ node'[p].hi = node[p].hi
                 /\ node'[p].nlo = node[p].nlo /\ node'[p].nhi = node[p].nhi
                 /\ n[Len(n)] = 0 => node'[p].endLo = loc[t].dest /\ node'[p].endHi = node[p].endHi
                 /\ n[Len(n)] # 0 => node'[p].endHi = loc[t].dest /\ node'[p].endLo = node[p].endLo
<1> DEFINE n == at[t]
           p == Parent(n)
           x == node[n].nlo - (node[n].lo - loc[t].lo0)
           y == node[n].nhi - (node[n].hi - loc[t].hi0)
           d == loc[t].dest
           nd == [node[n] EXCEPT !.nlo = x, !.nhi = y]
<1>1. /\ pc[t] = "publish" /\ Advance(t, "check") /\ loc' = [loc EXCEPT ![t] = NoLocals]
      /\ UNCHANGED <<input, mem, out, lock, at>>
      /\ n = Root => node' = [node EXCEPT ![n] = nd]
      /\ n # Root /\ n[Len(n)] = 0 => node' = [node EXCEPT ![n] = nd, ![p].endLo = d]
      /\ n # Root /\ n[Len(n)] # 0 => node' = [node EXCEPT ![n] = nd, ![p].endHi = d]
  BY DEF Publish
<1>2. /\ n \in Nodes /\ node \in [Nodes -> NodeFields] /\ node[n] \in NodeFields
  BY <1>1, WorksOnNode DEF Working, Facts, TypeOK
<1>3. n # Root => p \in Nodes /\ p # n /\ ~Sorted(p)
  BY <1>1, <1>2, ParentNotSorted, ChildShare DEF Layout, Strictly
<1>4. /\ nd.lo = node[n].lo /\ nd.hi = node[n].hi /\ nd.endLo = node[n].endLo
      /\ nd.endHi = node[n].endHi /\ nd.nlo = x /\ nd.nhi = y
  <2> HIDE DEF x, y
  <2> QED
    BY <1>2 DEF NodeFields
<1>5. /\ pc'[t] = "check" /\ \A u \in Threads : u # t => pc'[u] = pc[u] /\ loc'[u] = loc[u]
      /\ UNCHANGED queue
  BY <1>1 DEF Advance, Facts, TypeOK
<1> HIDE DEF nd, p, d, n
<1>6. node'[n] = nd /\ \A m \in Nodes : m # n /\ (n = Root \/ m # p) => node'[m] = node[m]
  <2>1. CASE n = Root
    BY <1>1, <1>2, <2>1
  <2>2. CASE n # Root
    BY <1>1, <1>2, <1>3, <2>2
  <2> QED
    BY <2>1, <2>2
<1>7. ASSUME n # Root
      PROVE  /\ node'[p].lo = node[p].lo /\ node'[p].hi = node[p].hi
             /\ node'[p].nlo = node[p].nlo /\ node'[p].nhi = node[p].nhi
             /\ n[Len(n)] = 0 => node'[p].endLo = d /\ node'[p].endHi = node[p].endHi
             /\ n[Len(n)] # 0 => node'[p].endHi = d /\ node'[p].endLo = node[p].endLo
  <2>1. node[p] \in NodeFields
    BY <1>2, <1>3, <1>7
  <2>2. CASE n[Len(n)] = 0
    <3>1. node'[p] = [node[p] EXCEPT !.endLo = d]
      BY <1>1, <1>2, <1>3, <1>7, <2>2
    <3> QED
      BY <2>1, <2>2, <3>1 DEF NodeFields
  <2>3. CASE n[Len(n)] # 0
    <3>1. node'[p] = [node[p] EXCEPT !.endHi = d]
      BY <1>1, <1>2, <1>3, <1>7, <2>3
    <3> QED
      BY <2>1, <2>3, <3>1 DEF NodeFields
  <2> QED
    BY <2>2, <2>3
<1> QED
  BY <1>1, <1>2, <1>3, <1>4, <1>5, <1>6, <1>7 DEF n, p, d

LEMMA Sums ==
  ASSUME NEW d \in Nat, NEW b \in Nat, NEW h \in Nat, NEW c \in Nat, NEW x \in Nat, NEW y \in Nat,
         NEW v \in Nat, NEW w \in Nat, v <= x, w <= y, x <= b + h, y <= b + c
  PROVE  /\ d + c - (b + h - v) - (b + c - w) = d + (v - b) + (w - b - h)
         /\ d + (v - b) + (w - b - h) <= d + (x - b) + (y - b - h)
         /\ d + (x - b) + (y - b - h) <= d + c
         /\ x # b + h \/ y # b + c => d + (x - b) + (y - b - h) < d + c
<1>1. d + c - (b + h - v) - (b + c - w) = d + (v - b) + (w - b - h)
  OBVIOUS
<1>2. d + (v - b) + (w - b - h) <= d + (x - b) + (y - b - h)
  OBVIOUS
<1>3. d + (x - b) + (y - b - h) <= d + c
  OBVIOUS
<1>4. x # b + h \/ y # b + c => d + (x - b) + (y - b - h) < d + c
  OBVIOUS
<1> QED
  BY <1>1, <1>2, <1>3, <1>4

\* Where a thread that merges at a node other than the root is in its parent's area.
LEMMA InDest ==
  ASSUME Facts, Layout, NEW t \in Threads, Working(t), at[t] # Root
  PROVE  LET n == at[t] IN
         /\ n \in Nodes /\ Parent(n) \in Nodes /\ ~Sorted(Parent(n))
         /\ Dest(n) \in Nat /\ Drop(n) <= Dest(n) /\ Dest(n) <= loc[t].dest
         /\ loc[t].dest <= Drop(n) + NodeLines[n]
         /\ node[n].lo # node[n].endLo \/ node[n].hi # node[n].endHi =>
              loc[t].dest < Drop(n) + NodeLines[n]
         /\ node[n].lo = Base(n) /\ node[n].hi = Base(n) + Half(n) => loc[t].dest = Drop(n)
<1> DEFINE n == at[t]
           p == Parent(n)
<1>1. n \in Nodes /\ p \in Nodes /\ ~Sorted(p) /\ pc[t] # "idle"
  BY WorksOnNode, ParentNotSorted DEF Working, Layout
<1>2. /\ Drop(n) \in Nat /\ Base(n) \in Nat /\ Half(n) \in Nat /\ NodeLines[n] \in Nat
      /\ node[n].lo \in Nat /\ node[n].hi \in Nat /\ node[n].endLo \in Nat /\ node[n].endHi \in Nat
      /\ loc[t].lo0 \in Nat /\ loc[t].hi0 \in Nat
  BY <1>1, Starts, Numbers, Pointers, LocalNumbers DEF Facts
<1>3. /\ node[n].nlo = Base(n) + Half(n) - loc[t].lo0 /\ loc[t].lo0 <= node[n].lo
      /\ node[n].nhi = Base(n) + NodeLines[n] - loc[t].hi0 /\ loc[t].hi0 <= node[n].hi
      /\ loc[t].dest = Drop(n) + (node[n].lo - Base(n)) + (node[n].hi - Base(n) - Half(n))
  BY DEF Layout, Shape, Taken
<1>4. /\ node[n].lo <= node[n].endLo /\ node[n].endLo <= Base(n) + Half(n)
      /\ node[n].hi <= node[n].endHi /\ node[n].endHi <= Base(n) + NodeLines[n]
  BY <1>1 DEF Layout, Shape, Chain
<1>5. Dest(n) = Drop(n) + NodeLines[n] - node[n].nlo - node[n].nhi
  BY <1>1 DEF Layout, Shape, Delivered
<1>6. Dest(n) \in Nat /\ Drop(n) <= Dest(n)
  <2>1. Chain(p) /\ node[p].endLo \in Nat /\ node[p].endHi \in Nat
    BY <1>1, Pointers DEF Layout, Shape, Facts
  <2>2. Base(p) \in Nat /\ Half(p) \in Nat /\ node[p].lo \in Nat /\ node[p].hi \in Nat
    BY <1>1, Starts, Numbers, Pointers DEF Facts
  <2>3. CASE n[Len(n)] = 0
    <3>1. Drop(n) = Base(p) /\ Dest(n) = node[p].endLo
      BY <1>1, <2>3, DropIsSide DEF Dest
    <3> QED
      BY <2>1, <2>2, <3>1 DEF Chain
  <2>4. CASE n[Len(n)] # 0
    <3>1. Drop(n) = Base(p) + Half(p) /\ Dest(n) = node[p].endHi
      BY <1>1, <2>4, DropIsSide DEF Dest
    <3> QED
      BY <2>1, <2>2, <3>1 DEF Chain
  <2> QED
    BY <2>3, <2>4
<1>7. node[n].lo <= Base(n) + Half(n) /\ node[n].hi <= Base(n) + NodeLines[n]
  <2>1. node[n].lo <= Base(n) + Half(n)
    BY <1>2, <1>4
  <2>2. node[n].hi <= Base(n) + NodeLines[n]
    BY <1>2, <1>4
  <2> QED
    BY <2>1, <2>2
<1> DEFINE d == Drop(n)
           b == Base(n)
           h == Half(n)
           c == NodeLines[n]
           x == node[n].lo
           y == node[n].hi
           v == loc[t].lo0
           w == loc[t].hi0
<1>8. /\ d \in Nat /\ b \in Nat /\ h \in Nat /\ c \in Nat /\ x \in Nat /\ y \in Nat
      /\ v \in Nat /\ w \in Nat /\ v <= x /\ w <= y /\ x <= b + h /\ y <= b + c
  BY <1>2, <1>3, <1>7
<1>9. /\ Dest(n) = d + c - (b + h - v) - (b + c - w)
      /\ loc[t].dest = d + (x - b) + (y - b - h)
      /\ (x # node[n].endLo => x # b + h) /\ (y # node[n].endHi => y # b + c)
  <2>1. x # node[n].endLo => x # b + h
    BY <1>2, <1>4
  <2>2. y # node[n].endHi => y # b + c
    <3> SUFFICES ASSUME y = b + c PROVE y = node[n].endHi
      OBVIOUS
    <3>1. node[n].endHi <= y /\ y <= node[n].endHi
      BY <1>4
    <3> QED
      BY <1>2, <3>1
  <2> QED
    BY <1>3, <1>5, <2>1, <2>2
<1> HIDE DEF d, b, h, c, x, y, v, w
<1>10. /\ Dest(n) <= loc[t].dest /\ loc[t].dest <= d + c
       /\ x # node[n].endLo \/ y # node[n].endHi => loc[t].dest < d + c
       /\ x = b /\ y = b + h => loc[t].dest = d
  <2>1. Dest(n) <= loc[t].dest /\ loc[t].dest <= d + c
    BY <1>8, <1>9, Sums
  <2>2. x # node[n].endLo \/ y # node[n].endHi => loc[t].dest < d + c
    BY <1>8, <1>9, Sums
  <2>3. x = b /\ y = b + h => loc[t].dest = d
    BY <1>8, <1>9
  <2> QED
    BY <2>1, <2>2, <2>3
<1> QED
  BY <1>1, <1>6, <1>10 DEF d, b, h, c, x, y

LEMMA PublishLayout ==
  ASSUME Facts, Layout, NEW t \in Threads, Publish(t)
  PROVE  Layout'
<1> DEFINE n == at[t]
           p == Parent(n)
<1>1. /\ n \in Nodes /\ pc[t] = "publish" /\ pc'[t] = "check"
      /\ \A u \in Threads : u # t => pc'[u] = pc[u] /\ loc'[u] = loc[u]
      /\ UNCHANGED <<input, mem, out, lock, at, queue>>
      /\ node'[n].lo = node[n].lo /\ node'[n].hi = node[n].hi
      /\ node'[n].endLo = node[n].endLo /\ node'[n].endHi = node[n].endHi
      /\ node'[n].nlo = node[n].nlo - (node[n].lo - loc[t].lo0)
      /\ node'[n].nhi = node[n].nhi - (node[n].hi - loc[t].hi0)
      /\ \A m \in Nodes : m # n /\ (n = Root \/ m # p) => node'[m] = node[m]
  BY PublishNode
<1>2. n # Root =>
        /\ p \in Nodes /\ p # n /\ ~Sorted(p)
        /\ node'[p].lo = node[p].lo /\ node'[p].hi = node[p].hi
        /\ node'[p].nlo = node[p].nlo /\ node'[p].nhi = node[p].nhi
        /\ n[Len(n)] = 0 => node'[p].endLo = loc[t].dest /\ node'[p].endHi = node[p].endHi
        /\ n[Len(n)] # 0 => node'[p].endHi = loc[t].dest /\ node'[p].endLo = node[p].endLo
  BY PublishNode
<1>3. Working(t) /\ pc[t] # "idle"
  BY <1>1 DEF Working
<1>4. n # Root =>
        /\ Dest(n) \in Nat /\ Drop(n) <= Dest(n) /\ Dest(n) <= loc[t].dest
        /\ loc[t].dest <= Drop(n) + NodeLines[n] /\ loc[t].dest \in Nat /\ Drop(n) \in Nat
  BY <1>1, <1>3, InDest, LocalNumbers, Starts DEF Facts
<1>5. \A m \in Nodes : /\ node'[m].lo = node[m].lo /\ node'[m].hi = node[m].hi
                       /\ m # n => node'[m].nlo = node[m].nlo /\ node'[m].nhi = node[m].nhi
                       /\ n = Root \/ m # p =>
                            node'[m].endLo = node[m].endLo /\ node'[m].endHi = node[m].endHi
  BY <1>1, <1>2
<1>6. ASSUME n # Root
      PROVE  /\ n[Len(n)] = 0 => Drop(n) = Base(p) /\ NodeLines[n] = Half(p)
             /\ n[Len(n)] # 0 => Drop(n) = Base(p) + Half(p) /\ NodeLines[n] = NodeLines[p] - Half(p)
             /\ Base(p) \in Nat /\ Half(p) \in Nat /\ NodeLines[p] \in Nat /\ NodeLines[n] \in Nat
             /\ Base(p) + Half(p) > NLines
  <2>1. Base(p) = Level(p) * NLines + NodeStart[p]
    BY <1>2, <1>6 DEF Base, Area
  <2>2. Base(p) + Half(p) > NLines
    BY <1>2, <1>6, <2>1, Beyond
  <2> QED
    BY <1>1, <1>2, <1>6, <2>2, DropIsSide, Starts, Numbers
<1>7. \A m \in Nodes : (Sorted(m)' <=> Sorted(m))
  <2> SUFFICES ASSUME NEW m \in Nodes PROVE Sorted(m)' <=> Sorted(m)
    OBVIOUS
  <2>1. CASE n = Root \/ m # p \/ n[Len(n)] = 0
    <3>1. node'[m].endHi = node[m].endHi
      BY <1>2, <1>5, <2>1
    <3> QED
      BY <3>1 DEF Sorted
  <2>2. CASE n # Root /\ m = p /\ n[Len(n)] # 0
    <3>1. node'[m].endHi = loc[t].dest /\ ~Sorted(m)
      BY <1>2, <2>2
    <3>2. loc[t].dest > NLines
      BY <1>4, <1>6, <2>2
    <3> QED
      BY <1>4, <2>2, <3>1, <3>2 DEF Sorted
  <2> QED
    BY <2>1, <2>2
<1>8. \A m \in Nodes : Base(m)' = Base(m) /\ Drop(m)' = Drop(m)
  BY <1>7 DEF Base, Area, Drop
<1>9. Held'
  <2> SUFFICES ASSUME NEW u \in Threads, Merging(u)' PROVE lock'[at'[u]] = u
    BY DEF Held
  <2>1. Merging(u)
    BY <1>1 DEF Merging
  <2> QED
    BY <1>1, <2>1 DEF Layout, Held
<1>10. ASSUME NEW m \in Nodes PROVE Chain(m)'
  <2>1. Chain(m)
    BY DEF Layout, Shape
  <2>2. CASE n = Root \/ m # p
    BY <1>5, <1>7, <1>8, <2>1, <2>2 DEF Chain, Half
  <2>3. CASE n # Root /\ m = p
    <3>1. Lo(m) \in Nodes
      BY <1>1, <2>3, ParentHasChildren
    <3>2. /\ Base(m) \in Nat /\ Half(m) \in Nat /\ NodeLines[m] \in Nat
          /\ node[m].lo \in Nat /\ node[m].hi \in Nat
          /\ node[m].endLo \in Nat /\ node[m].endHi \in Nat
      BY Starts, Numbers, Pointers DEF Facts
    <3>3. ~Sorted(m) /\ ~Sorted(m)'
      BY <1>2, <1>7, <2>3
    <3>4. /\ Base(m) <= node[m].lo /\ node[m].lo <= node[m].endLo
          /\ node[m].endLo <= Base(m) + Half(m)
          /\ Base(m) + Half(m) <= node[m].hi /\ node[m].hi <= node[m].endHi
          /\ node[m].endHi <= Base(m) + NodeLines[m]
      BY <2>1 DEF Chain
    <3>5. /\ node[m].lo <= node'[m].endLo /\ node'[m].endLo <= Base(m) + Half(m)
          /\ node[m].hi <= node'[m].endHi /\ node'[m].endHi <= Base(m) + NodeLines[m]
      <4>1. CASE n[Len(n)] = 0
        <5>1. /\ node'[m].endLo = loc[t].dest /\ node'[m].endHi = node[m].endHi
              /\ Dest(n) = node[m].endLo /\ Drop(n) + NodeLines[n] = Base(m) + Half(m)
          BY <1>2, <1>6, <2>3, <4>1 DEF Dest
        <5>2. node[m].endLo <= node'[m].endLo /\ node'[m].endLo <= Base(m) + Half(m)
          BY <1>4, <2>3, <5>1
        <5>3. node[m].lo <= node'[m].endLo
          BY <1>4, <2>3, <3>2, <3>4, <5>1, <5>2
        <5> QED
          BY <3>4, <5>1, <5>2, <5>3
      <4>2. CASE n[Len(n)] # 0
        <5>1. /\ node'[m].endHi = loc[t].dest /\ node'[m].endLo = node[m].endLo
              /\ Dest(n) = node[m].endHi
              /\ Drop(n) + NodeLines[n] = Base(m) + Half(m) + (NodeLines[m] - Half(m))
          BY <1>2, <1>6, <2>3, <4>2 DEF Dest
        <5>2. Base(m) + Half(m) + (NodeLines[m] - Half(m)) = Base(m) + NodeLines[m]
          BY <3>2
        <5>3. node[m].endHi <= node'[m].endHi /\ node'[m].endHi <= Base(m) + NodeLines[m]
          BY <1>4, <2>3, <5>1, <5>2
        <5>4. node[m].hi <= node'[m].endHi
          BY <1>4, <2>3, <3>2, <3>4, <5>1, <5>3
        <5> QED
          BY <3>4, <5>1, <5>3, <5>4
      <4> QED
        BY <4>1, <4>2
    <3>6. node'[m].lo = node[m].lo /\ node'[m].hi = node[m].hi /\ Base(m)' = Base(m)
      BY <1>5, <1>8
    <3> QED
      BY <3>1, <3>3, <3>4, <3>5, <3>6 DEF Chain, Half
  <2> QED
    BY <2>2, <2>3
<1>11. /\ node'[n].nlo = Base(n) + Half(n) - node[n].lo
       /\ node'[n].nhi = Base(n) + NodeLines[n] - node[n].hi
  <2>1. /\ node[n].nlo = Base(n) + Half(n) - loc[t].lo0
        /\ node[n].nhi = Base(n) + NodeLines[n] - loc[t].hi0
    BY <1>3 DEF Layout, Shape, Taken
  <2>2. /\ Base(n) \in Nat /\ Half(n) \in Nat /\ NodeLines[n] \in Nat
        /\ node[n].lo \in Nat /\ node[n].hi \in Nat /\ loc[t].lo0 \in Nat /\ loc[t].hi0 \in Nat
        /\ node[n].nlo \in Int /\ node[n].nhi \in Int
    BY <1>1, Starts, Numbers, Pointers, LocalNumbers DEF Facts
  <2>3. node'[n].nlo = Base(n) + Half(n) - loc[t].lo0 - (node[n].lo - loc[t].lo0)
    BY <1>1, <2>1, <2>2
  <2>4. node'[n].nhi = Base(n) + NodeLines[n] - loc[t].hi0 - (node[n].hi - loc[t].hi0)
    BY <1>1, <2>1, <2>2
  <2>5. node'[n].nlo = Base(n) + Half(n) - node[n].lo
    BY <2>2, <2>3
  <2>6. node'[n].nhi = Base(n) + NodeLines[n] - node[n].hi
    BY <2>2, <2>4
  <2> QED
    BY <2>5, <2>6
<1>12. ASSUME NEW m \in Nodes, m # Root, ~Sorted(Parent(m))'
       PROVE  Dest(m)' = Drop(m) + NodeLines[m] - node'[m].nlo - node'[m].nhi
  <2>1. Parent(m) \in Nodes /\ ~Sorted(Parent(m))
    BY <1>7, <1>12, ParentIsNode
  <2>2. Dest(m) = Drop(m) + NodeLines[m] - node[m].nlo - node[m].nhi
    BY <1>12, <2>1 DEF Layout, Shape, Delivered
  <2>3. CASE m = n
    <3>1. Dest(n)' = loc[t].dest
      BY <1>1, <1>2, <1>12, <2>3 DEF Dest
    <3>2. loc[t].dest = Drop(n) + (node[n].lo - Base(n)) + (node[n].hi - Base(n) - Half(n))
      BY <1>3, <1>12, <2>3 DEF Layout, Shape, Taken
    <3>3. /\ Base(n) \in Nat /\ Half(n) \in Nat /\ NodeLines[n] \in Nat /\ Drop(n) \in Nat
          /\ node[n].lo \in Nat /\ node[n].hi \in Nat
      BY <1>1, Starts, Numbers, Pointers DEF Facts
    <3>4. Drop(n) + NodeLines[n] - node'[n].nlo - node'[n].nhi =
            Drop(n) + NodeLines[n] - (Base(n) + Half(n) - node[n].lo)
                                   - (Base(n) + NodeLines[n] - node[n].hi)
      BY <1>11
    <3>5. Drop(n) + (node[n].lo - Base(n)) + (node[n].hi - Base(n) - Half(n)) =
            Drop(n) + NodeLines[n] - (Base(n) + Half(n) - node[n].lo)
                                   - (Base(n) + NodeLines[n] - node[n].hi)
      BY <3>3
    <3> QED
      BY <1>1, <2>3, <3>1, <3>2, <3>4, <3>5
  <2>4. CASE m # n
    <3>1. Dest(m)' = Dest(m)
      <4>1. CASE n = Root \/ Parent(m) # p
        BY <1>5, <2>1, <4>1 DEF Dest
      <4>2. CASE n # Root /\ Parent(m) = p
        <5>1. m[Len(m)] # n[Len(n)] /\ m[Len(m)] \in {0, 1} /\ n[Len(n)] \in {0, 1}
          BY <1>1, <1>12, <2>4, <4>2, Siblings, ChildShare
        <5> QED
          BY <1>2, <4>2, <5>1 DEF Dest
      <4> QED
        BY <4>1, <4>2
    <3> QED
      BY <1>5, <2>2, <2>4, <3>1
  <2> QED
    BY <2>3, <2>4
<1>13. ASSUME NEW m \in Nodes, \A u \in Threads : ~(Working(u)' /\ at'[u] = m)
       PROVE  /\ node'[m].nlo = Base(m)' + Half(m) - node'[m].lo
              /\ node'[m].nhi = Base(m)' + NodeLines[m] - node'[m].hi
  <2>1. CASE m = n
    BY <1>1, <1>8, <1>11, <2>1
  <2>2. CASE m # n
    <3>1. \A u \in Threads : ~(Working(u) /\ at[u] = m)
      BY <1>1, <1>13, <2>2 DEF Working
    <3> QED
      BY <1>5, <1>8, <2>2, <3>1 DEF Layout, Shape, Left
  <2> QED
    BY <2>1, <2>2
<1>14. ASSUME NEW u \in Threads, Working(u)' PROVE Taken(u)'
  <2>1. u # t
    BY <1>1, <1>14 DEF Working
  <2>2. Working(u) /\ at[u] \in Nodes /\ at'[u] = at[u] /\ loc'[u] = loc[u]
    BY <1>1, <1>14, <2>1, WorksOnNode DEF Working
  <2>3. at[u] # n
    BY <1>3, <2>1, <2>2, Alone DEF Layout
  <2> QED
    BY <1>5, <1>8, <2>2, <2>3 DEF Layout, Shape, Taken, Half
<1>15. Shape'
  <2>1. \A m \in Nodes : Delivered(m)' /\ Left(m)'
    BY <1>12, <1>13 DEF Delivered, Left, Drop, Half
  <2> QED
    BY <1>10, <1>14, <2>1 DEF Shape, Taken
<1>16. BelowSorted'
  <2> SUFFICES ASSUME NEW m \in Nodes, NEW x \in Nodes, Strictly(m, x), Sorted(m)'
               PROVE  /\ node'[x] = InitNode(x) /\ queue'[x] = 0
                      /\ \A u \in Threads : at'[u] = x => pc'[u] = "idle"
    BY DEF BelowSorted, Strictly, Under, InitNode
  <2>1. /\ Sorted(m) /\ node[x] = InitNode(x) /\ queue[x] = 0
        /\ \A u \in Threads : at[u] = x => pc[u] = "idle"
    BY <1>7 DEF Layout, BelowSorted
  <2>2. x # n
    BY <1>3, <2>1
  <2>3. ASSUME n # Root, x = p PROVE FALSE
    <3>1. Strictly(m, n)
      BY <1>1, <2>3, StrictlyParent DEF Strictly
    <3> QED
      BY <1>1, <1>3, <2>1, <3>1, NotBelowSorted DEF Layout
  <2> QED
    BY <1>1, <2>1, <2>2, <2>3
<1>17. Around'
  <2> SUFFICES ASSUME NEW u \in Threads, Descending(u)'
               PROVE  /\ Dividing(u)' => node'[at'[u]] = InitNode(at'[u])
                      /\ \A m \in Nodes : Strictly(at'[u], m) => node'[m] = InitNode(m)
                      /\ \A m \in Nodes : Strictly(m, at'[u]) => Untaken(m, at[u])'
    BY DEF Around, Strictly, Under, InitNode
  <2>1. u # t /\ Descending(u) /\ at'[u] = at[u] /\ (Dividing(u)' => Dividing(u)) /\ at[u] \in Nodes
    BY <1>1, WorksOnNode DEF Descending, Dividing
  <2>2. /\ Dividing(u) => node[at[u]] = InitNode(at[u])
        /\ \A m \in Nodes : Strictly(at[u], m) => node[m] = InitNode(m)
        /\ \A m \in Nodes : Strictly(m, at[u]) => Untaken(m, at[u])
    BY <2>1 DEF Layout, Around
  <2>3. ~Under(at[u], n)
    BY <1>1, <1>3, <2>1, FreshAlone
  <2>4. n # Root => ~Under(at[u], p)
    BY <1>1, <2>1, <2>3, UnderParent
  <2>5. \A m \in Nodes : Under(at[u], m) => node'[m] = node[m]
    BY <1>1, <2>3, <2>4
  <2>6. ASSUME NEW m \in Nodes, Strictly(m, at[u]) PROVE Untaken(m, at[u])'
    <3>1. Untaken(m, at[u])
      BY <2>2, <2>6
    <3>2. node'[m].nlo = node[m].nlo /\ node'[m].nhi = node[m].nhi
      <4>1. CASE m = n
        <5>1. node[n].lo = loc[t].lo0 /\ node[n].hi = loc[t].hi0
          BY <1>3, <2>1, <2>6, <4>1, NothingToTake
        <5>2. /\ loc[t].lo0 \in Nat /\ loc[t].hi0 \in Nat /\ node[n].nlo \in Int /\ node[n].nhi \in Int
          BY <1>1, LocalNumbers, Pointers DEF Facts
        <5> QED
          BY <1>1, <4>1, <5>1, <5>2
      <4> QED
        BY <1>5, <4>1
    <3>3. IF at[u][Len(m) + 1] = 0 THEN node'[m].endLo = Base(m) ELSE node'[m].endHi = Base(m) + Half(m)
      <4>0. IF at[u][Len(m) + 1] = 0 THEN node[m].endLo = Base(m) ELSE node[m].endHi = Base(m) + Half(m)
        BY <3>1 DEF Untaken
      <4>1. CASE n = Root \/ m # p
        BY <1>5, <4>0, <4>1
      <4>2. CASE n # Root /\ m = p
        <5>1. /\ Len(n) = Len(m) + 1 /\ n[Len(n)] \in {0, 1} /\ Under(m, n) /\ Len(m) \in Nat
          BY <1>1, <4>2, ChildShare, NodesAreSequences DEF Strictly
        <5>2. CASE at[u][Len(m) + 1] # n[Len(n)]
          <6>1. at[u][Len(m) + 1] \in {0, 1}
            BY <2>1, <2>6, Side DEF InSide
          <6> QED
            BY <1>2, <4>0, <4>2, <5>1, <5>2, <6>1
        <5>3. CASE at[u][Len(m) + 1] = n[Len(n)]
          <6>1. Under(n, at[u])
            <7>1. Len(n) <= Len(at[u])
              <8>1. Len(m) < Len(at[u]) /\ Len(at[u]) \in Nat
                BY <2>1, <2>6, SameLength, NodesAreSequences DEF Strictly, Under
              <8> QED
                BY <5>1, <8>1
            <7>2. \A i \in 1..Len(m) : n[i] = m[i] /\ at[u][i] = m[i]
              BY <2>6, <5>1 DEF Strictly, Under
            <7>3. \A i \in 1..Len(n) : at[u][i] = n[i]
              <8> TAKE i \in 1..Len(n)
              <8>1. i \in 1..Len(m) \/ i = Len(n)
                BY <5>1
              <8> QED
                BY <5>1, <5>3, <7>2, <8>1
            <7> QED
              BY <7>1, <7>3 DEF Under
          <6>2. Strictly(n, at[u])
            BY <1>1, <2>3, <6>1, UnderItself DEF Strictly
          <6>3. Untaken(n, at[u])
            BY <1>3, <2>1, <6>2, NothingToTake
          <6>4. loc[t].dest = Drop(n)
            BY <1>3, <4>2, <6>3, InDest DEF Untaken
          <6> QED
            BY <1>2, <1>6, <4>0, <4>2, <5>1, <5>3, <6>4
        <5> QED
          BY <5>2, <5>3
      <4> QED
        BY <4>1, <4>2
    <3>4. /\ SubthreadLines <= NodeLines[m] /\ ~Sorted(m)'
          /\ node'[m].lo = Base(m)' /\ node'[m].hi = Base(m)' + Half(m)
          /\ node'[m].nlo = Half(m) /\ node'[m].nhi = NodeLines[m] - Half(m)
          /\ IF at'[u][Len(m) + 1] = 0 THEN node'[m].endLo = Base(m)' ELSE node'[m].endHi = Base(m)' + Half(m)
      <4>1. Base(m)' = Base(m) /\ (Sorted(m)' <=> Sorted(m))
        BY <1>7, <1>8
      <4>2. node'[m].lo = node[m].lo /\ node'[m].hi = node[m].hi
        BY <1>5
      <4>3. /\ SubthreadLines <= NodeLines[m] /\ ~Sorted(m)
            /\ node[m].lo = Base(m) /\ node[m].hi = Base(m) + Half(m)
            /\ node[m].nlo = Half(m) /\ node[m].nhi = NodeLines[m] - Half(m)
        BY <3>1 DEF Untaken
      <4> QED
        BY <2>1, <3>2, <3>3, <4>1, <4>2, <4>3
    <3> QED
      BY <3>4 DEF Untaken, Half
  <2>7. Under(at[u], at[u])
    BY <2>1, UnderItself
  <2> QED
    BY <2>1, <2>2, <2>5, <2>6, <2>7 DEF Strictly
<1> QED
  BY <1>9, <1>15, <1>16, <1>17 DEF Layout

-----------------------------------------------------------------------------
(* The layout of the lines is an invariant.                                *)

LEMMA InitLayout == Init => Layout
<1> SUFFICES ASSUME Init PROVE Layout
  OBVIOUS
<1>1. /\ \A t \in Threads : pc[t] = (IF t = Main THEN "call" ELSE "idle") /\ at[t] = t
      /\ \A n \in Nodes : node[n] = InitNode(n) /\ queue[n] = 0
  BY DEF Init
<1>2. ASSUME NEW n \in Nodes
      PROVE  /\ ~Sorted(n) /\ node[n].lo = Base(n) /\ node[n].endLo = Base(n)
             /\ node[n].hi = Base(n) + Half(n) /\ node[n].endHi = Base(n) + Half(n)
             /\ node[n].nlo = Half(n) /\ node[n].nhi = NodeLines[n] - Half(n)
             /\ Base(n) \in Nat /\ Half(n) \in Nat /\ NodeLines[n] \in Nat /\ Half(n) <= NodeLines[n]
             /\ Drop(n) \in Nat
  BY <1>1, AsInit, Starts, Numbers
<1>3. Held
  BY <1>1 DEF Held, Merging
<1>4. ASSUME NEW n \in Nodes PROVE Chain(n)
  <2>1. Base(n) <= Base(n) + Half(n) /\ Base(n) + Half(n) <= Base(n) + NodeLines[n]
    BY <1>2
  <2>2. Base(n) <= Base(n) /\ Base(n) + Half(n) <= Base(n) + Half(n)
    BY <1>2
  <2> QED
    BY <1>2, <2>1, <2>2 DEF Chain
<1>5. ASSUME NEW n \in Nodes, n # Root PROVE Delivered(n)
  <2> DEFINE p == Parent(n)
  <2>1. p \in Nodes /\ n[Len(n)] \in {0, 1}
    BY <1>5, ChildShare
  <2>2. Dest(n) = Drop(n)
    BY <1>2, <1>5, <2>1, DropIsSide DEF Dest
  <2>3. Drop(n) = Drop(n) + NodeLines[n] - Half(n) - (NodeLines[n] - Half(n))
    BY <1>2
  <2> QED
    BY <1>2, <2>2, <2>3 DEF Delivered
<1>6. ASSUME NEW n \in Nodes PROVE Left(n)
  <2>1. Half(n) = Base(n) + Half(n) - Base(n)
    BY <1>2
  <2>2. NodeLines[n] - Half(n) = Base(n) + NodeLines[n] - (Base(n) + Half(n))
    BY <1>2
  <2> QED
    BY <1>2, <2>1, <2>2 DEF Left
<1>7. Shape
  BY <1>1, <1>4, <1>5, <1>6 DEF Shape, Delivered, Taken, Working
<1>8. BelowSorted
  BY <1>2 DEF BelowSorted
<1>9. Around
  <2> SUFFICES ASSUME NEW m \in Nodes, Strictly(m, Root) PROVE FALSE
    BY <1>1, RootIsNode DEF Around, Descending, Dividing, Main
  <2> QED
    BY RootIsNode, AboveParent
<1> QED
  BY <1>3, <1>7, <1>8, <1>9 DEF Layout

LEMMA MovingLayout ==
  ASSUME Facts, Layout, NEW t \in Threads, Moving(t)
  PROVE  Layout'
<1>1. CASE MergeLine(t) \/ DrainLine(t)
  <2>1. PICK src \in Nat : Takes(t, src)
    BY <1>1, TakeEffect
  <2> QED
    BY <2>1, TakeLayout
<1>2. CASE LockNode(t) /\ at[t] # End
  BY <1>2, LockLayout
<1> QED
  BY <1>1, <1>2, SplitLayout, SortLeafLayout, PublishLayout DEF Moving

LEMMA LayoutStep ==
  ASSUME Facts, Layout, [Next]_vars
  PROVE  Layout'
<1>1. CASE UNCHANGED vars
  <2>1. UNCHANGED <<node, queue, lock, pc, at, loc>>
    BY <1>1 DEF vars
  <2>2. Held' /\ BelowSorted'
    BY <2>1 DEF Layout, Held, Merging, BelowSorted, Sorted
  <2>3. Around'
    BY <2>1 DEF Layout, Around, Descending, Dividing, Untaken, Sorted, Base, Area
  <2>4. Shape'
    <3>1. \A u \in Threads : Working(u)' => Taken(u)'
      BY <2>1 DEF Layout, Shape, Taken, Working, Base, Area, Sorted, Drop, Half
    <3> QED
      BY <2>1, <3>1, SameShape DEF Layout, Working
  <2> QED
    BY <2>2, <2>3, <2>4 DEF Layout
<1>2. ASSUME NEW t \in Threads, Step(t) \/ SpuriousWakeup(t) PROVE Layout'
  BY <1>2, StepKinds, MovingLayout, QuietLayout
<1> QED
  BY <1>1, <1>2 DEF Next, Finished

-----------------------------------------------------------------------------
(* The lines of a set in stable order.                                     *)

\* Finitely many lines, at most one from each place of the input.
Distinct(S) ==
  S \subseteq Line /\ IsFiniteSet(S) /\ \A x, y \in S : x[2] = y[2] => x = y

Earlier(S, x) == { y \in S : Before(y, x) }
Rank(S, x) == Cardinality(Earlier(S, x))

LEMMA RankGrows ==
  ASSUME NEW S, Distinct(S), NEW x \in S, NEW y \in S, Before(x, y)
  PROVE  Rank(S, x) < Rank(S, y)
<1>1. \A z \in S : z \in Line /\ z[1] \in Nat /\ z[2] \in Nat
  BY DEF Distinct, Line
<1>2. Earlier(S, x) \subseteq Earlier(S, y)
  BY <1>1 DEF Earlier, Before
<1>3. x \in Earlier(S, y) /\ x \notin Earlier(S, x)
  BY <1>1 DEF Earlier, Before
<1>4. IsFiniteSet(Earlier(S, y)) /\ Rank(S, y) \in Nat
  BY FS_Subset, FS_CardinalityType DEF Distinct, Earlier, Rank
<1>5. /\ Rank(S, x) \in Nat /\ Rank(S, x) <= Rank(S, y)
      /\ Rank(S, y) = Rank(S, x) => Earlier(S, y) = Earlier(S, x)
  BY <1>2, <1>4, FS_Subset, FS_CardinalityType DEF Rank
<1> QED
  BY <1>3, <1>4, <1>5

LEMMA RankBounds ==
  ASSUME NEW S, Distinct(S), NEW x \in S
  PROVE  Rank(S, x) \in 0 .. Cardinality(S) - 1 /\ Cardinality(S) \in Nat
<1>1. IsFiniteSet(S) /\ Cardinality(S) \in Nat
  BY FS_CardinalityType DEF Distinct
<1>2. x \notin Earlier(S, x)
  BY DEF Distinct, Line, Earlier, Before
<1>3. /\ IsFiniteSet(Earlier(S, x)) /\ Rank(S, x) <= Cardinality(S)
      /\ Cardinality(S) = Rank(S, x) => S = Earlier(S, x)
  BY <1>1, FS_Subset DEF Earlier, Rank
<1>4. Rank(S, x) \in Nat
  BY <1>3, FS_CardinalityType DEF Rank
<1> QED
  BY <1>1, <1>2, <1>3, <1>4

LEMMA RankOnce ==
  ASSUME NEW S, Distinct(S), NEW x \in S, NEW y \in S, Rank(S, x) = Rank(S, y)
  PROVE  x = y
<1>1. x[1] \in Nat /\ x[2] \in Nat /\ y[1] \in Nat /\ y[2] \in Nat
  BY DEF Distinct, Line
<1>2. x # y => Before(x, y) \/ Before(y, x)
  BY <1>1 DEF Before, Distinct
<1>3. Rank(S, x) \in Nat /\ Rank(S, y) \in Nat
  BY RankBounds
<1> QED
  BY <1>2, <1>3, RankGrows

LEMMA RankTaken ==
  ASSUME NEW S, Distinct(S), NEW k \in 0 .. Cardinality(S) - 1
  PROVE  \E x \in S : Rank(S, x) = k
<1> DEFINE c == Cardinality(S)
           r == [x \in S |-> Rank(S, x)]
<1>1. c \in Nat /\ IsFiniteSet(S)
  BY FS_CardinalityType DEF Distinct
<1>2. IsFiniteSet(0 .. c - 1) /\ Cardinality(0 .. c - 1) = c
  BY <1>1, FS_Interval
<1>3. r \in [S -> 0 .. c - 1]
  BY RankBounds
<1>4. r \in Injection(S, 0 .. c - 1)
  <2>1. \A x, y \in S : r[x] = r[y] => x = y
    BY RankOnce
  <2> QED
    BY <1>3, <2>1, Fun_IsInj
<1>5. r \in Surjection(S, 0 .. c - 1)
  BY <1>2, <1>4, FS_Injection
<1>6. \A j \in 0 .. c - 1 : \E x \in S : r[x] = j
  BY <1>5 DEF Surjection
<1> QED
  BY <1>6

\* Nth is one to one between 1..Cardinality(S) and S.
LEMMA NthLine ==
  ASSUME NEW S, Distinct(S), NEW k \in 1 .. Cardinality(S)
  PROVE  Nth(S, k) \in S /\ Rank(S, Nth(S, k)) = k - 1
<1> DEFINE kth == { x \in S : Rank(S, x) = k - 1 }
<1>1. IsFiniteSet(S) /\ Cardinality(S) \in Nat
  BY FS_CardinalityType DEF Distinct
<1>2. kth # {}
  BY <1>1, RankTaken
<1>3. Nth(S, k) = CHOOSE x \in kth : TRUE
  BY <1>2 DEF Nth, Rank, Earlier
<1>4. Nth(S, k) \in kth
  BY <1>2, <1>3
<1> QED
  BY <1>4

LEMMA NthOnce ==
  ASSUME NEW S, Distinct(S), NEW j \in 1 .. Cardinality(S), NEW k \in 1 .. Cardinality(S),
         Nth(S, j) = Nth(S, k)
  PROVE  j = k
<1>1. Rank(S, Nth(S, j)) = j - 1 /\ Rank(S, Nth(S, k)) = k - 1
  BY NthLine
<1>2. Cardinality(S) \in Nat
  BY FS_CardinalityType DEF Distinct
<1> QED
  BY <1>1, <1>2

LEMMA NthAll ==
  ASSUME NEW S, Distinct(S), NEW x \in S
  PROVE  \E k \in 1 .. Cardinality(S) : Nth(S, k) = x
<1> DEFINE k == Rank(S, x) + 1
<1>1. Rank(S, x) \in 0 .. Cardinality(S) - 1 /\ Cardinality(S) \in Nat
  BY RankBounds
<1>2. k \in 1 .. Cardinality(S) /\ k - 1 = Rank(S, x)
  BY <1>1
<1>3. Nth(S, k) \in S /\ Rank(S, Nth(S, k)) = k - 1
  BY <1>2, NthLine
<1>4. Nth(S, k) = x
  BY <1>2, <1>3, RankOnce
<1> QED
  BY <1>2, <1>4

-----------------------------------------------------------------------------
(* Lines in cells.                                                         *)

\* The cells of C hold input lines, no two the same.
OneEach(C) ==
  /\ C \subseteq Cells
  /\ \A c \in C : mem[c] \in InputLines
  /\ \A c, d \in C : mem[c] = mem[d] => c = d

LinesOf(C) == { Cell(c) : c \in C }

LEMMA OneEachDistinct ==
  ASSUME TypeOK, NEW a \in Int, NEW b \in Int, a <= b, OneEach(a .. b - 1)
  PROVE  Distinct(LinesOf(a .. b - 1)) /\ Cardinality(LinesOf(a .. b - 1)) = b - a
<1> DEFINE C == a .. b - 1
           S == LinesOf(C)
           f == [c \in C |-> mem[c]]
<1>1. \A c \in C : Cell(c) = mem[c]
  BY DEF OneEach, Cell
<1>2. S = { mem[c] : c \in C }
  BY <1>1 DEF LinesOf
<1>3. S \subseteq InputLines
  BY <1>2 DEF OneEach
<1>4. /\ S \subseteq Line /\ \A x, y \in S : x[2] = y[2] => x = y
  <2>1. \A i \in 1 .. NLines : input[i] \in Nat \ {0} /\ i \in Nat \ {0}
    BY DEF TypeOK
  <2> QED
    BY <1>3, <2>1 DEF InputLines, InputLine, Line
<1>5. f \in Bijection(C, S)
  <2>1. f \in [C -> S]
    BY <1>2
  <2>2. \A c, d \in C : f[c] = f[d] => c = d
    BY DEF OneEach
  <2>3. \A x \in S : \E c \in C : f[c] = x
    BY <1>2
  <2> QED
    BY <2>1, <2>2, <2>3, Fun_IsBij
<1>6. IsFiniteSet(C) /\ Cardinality(C) = b - a
  <2>1. b - 1 \in Int
    OBVIOUS
  <2>2. IsFiniteSet(C) /\ Cardinality(C) = IF a > b - 1 THEN 0 ELSE (b - 1) - a + 1
    BY <2>1, FS_Interval
  <2> QED
    BY <2>2
<1>7. IsFiniteSet(S) /\ Cardinality(S) = Cardinality(C)
  BY <1>5, <1>6, FS_Bijection DEF ExistsBijection
<1> QED
  BY <1>4, <1>6, <1>7 DEF Distinct

\* Storing the lines of cells a..b-1 in order keeps all of them, each in one cell.
LEMMA SortsRange ==
  ASSUME TypeOK, NEW a \in Int, NEW b \in Int, OneEach(a .. b - 1)
  PROVE  LET C == a .. b - 1
             S == LinesOf(C)
         IN /\ \A c \in C : \E d \in C : Nth(S, c - a + 1) = mem[d]
            /\ \A d \in C : \E c \in C : Nth(S, c - a + 1) = mem[d]
            /\ \A c, d \in C : Nth(S, c - a + 1) = Nth(S, d - a + 1) => c = d
<1> DEFINE C == a .. b - 1
           S == LinesOf(C)
<1>1. CASE a > b
  BY <1>1
<1>2. CASE a <= b
  <2>1. Distinct(S) /\ Cardinality(S) = b - a
    BY <1>2, OneEachDistinct
  <2>2. \A c \in C : c - a + 1 \in 1 .. Cardinality(S)
    BY <1>2, <2>1
  <2>3. S = { mem[d] : d \in C }
    BY DEF LinesOf, OneEach, Cell
  <2>4. \A c \in C : \E d \in C : Nth(S, c - a + 1) = mem[d]
    BY <2>1, <2>2, <2>3, NthLine
  <2>5. \A d \in C : \E c \in C : Nth(S, c - a + 1) = mem[d]
    <3> SUFFICES ASSUME NEW d \in C
                 PROVE  \E c \in C : Nth(S, c - a + 1) = mem[d]
      OBVIOUS
    <3>1. PICK k \in 1 .. Cardinality(S) : Nth(S, k) = mem[d]
      BY <2>1, <2>3, NthAll
    <3>2. k + a - 1 \in C /\ (k + a - 1) - a + 1 = k
      BY <1>2, <2>1
    <3> QED
      BY <3>1, <3>2
  <2>6. \A c, d \in C : Nth(S, c - a + 1) = Nth(S, d - a + 1) => c = d
    <3> SUFFICES ASSUME NEW c \in C, NEW d \in C, Nth(S, c - a + 1) = Nth(S, d - a + 1)
                 PROVE  c = d
      OBVIOUS
    <3>1. c - a + 1 = d - a + 1
      BY <2>1, <2>2, NthOnce
    <3> QED
      BY <3>1
  <2> QED
    BY <2>4, <2>5, <2>6
<1> QED
  BY <1>1, <1>2

-----------------------------------------------------------------------------
(* The invariant: every line is in one live cell or has been written.      *)

Conserved ==
  /\ OneEach(LiveCells)
  /\ \A c \in LiveCells : mem[c] \notin Written
  /\ Written \subseteq InputLines
  /\ \A l \in InputLines : \/ l \in Written
                           \/ \E c \in LiveCells : mem[c] = l
                           \/ Unique /\ \E m \in Written : m[1] = l[1]

LEMMA SameConserved ==
  ASSUME Conserved, LiveCells' = LiveCells, UNCHANGED <<input, out>>,
         \A c \in LiveCells : mem'[c] = mem[c]
  PROVE  Conserved'
<1>1. InputLines' = InputLines /\ Written' = Written
  BY DEF InputLines, InputLine, Written
<1>2. OneEach(LiveCells)'
  BY <1>1 DEF Conserved, OneEach
<1> QED
  BY <1>1, <1>2 DEF Conserved

\* A line goes from cell src to cell d.
LEMMA MoveConserved ==
  ASSUME Conserved, NEW src \in LiveCells, NEW d \in Cells, d \notin LiveCells,
         LiveCells' = (LiveCells \ {src}) \cup {d}, UNCHANGED <<input, out>>,
         mem'[d] = mem[src], \A c \in LiveCells : mem'[c] = mem[c]
  PROVE  Conserved'
<1>1. InputLines' = InputLines /\ Written' = Written
  BY DEF InputLines, InputLine, Written
<1>2. OneEach(LiveCells)'
  <2>1. LiveCells' \subseteq Cells
    BY DEF Conserved, OneEach
  <2>2. \A c \in LiveCells' : mem'[c] \in InputLines
    BY DEF Conserved, OneEach
  <2>3. \A c, e \in LiveCells' : mem'[c] = mem'[e] => c = e
    BY DEF Conserved, OneEach
  <2> QED
    BY <1>1, <2>1, <2>2, <2>3 DEF OneEach
<1>3. \A c \in LiveCells' : mem'[c] \notin Written
  BY DEF Conserved
<1>4. ASSUME NEW l \in InputLines, NEW c \in LiveCells, mem[c] = l
      PROVE  \E e \in LiveCells' : mem'[e] = l
  <2>1. CASE c = src
    BY <1>4, <2>1
  <2>2. CASE c # src
    BY <1>4, <2>2
  <2> QED
    BY <2>1, <2>2
<1> QED
  BY <1>1, <1>2, <1>3, <1>4 DEF Conserved

LEMMA WriteEffect ==
  ASSUME TypeOK, NEW l, out' = WriteUnique(l)
  PROVE  \/ Written' = Written \cup {l}
         \/ Written' = Written /\ Unique /\ \E m \in Written : m[1] = l[1]
<1>1. out \in Seq(Line \cup {Junk})
  BY DEF TypeOK
<1>2. CASE Unique /\ out # << >> /\ out[Len(out)][1] = l[1]
  <2>1. out' = out /\ Len(out) \in DOMAIN out
    BY <1>1, <1>2 DEF WriteUnique
  <2> QED
    BY <1>2, <2>1 DEF Written
<1>3. CASE ~(Unique /\ out # << >> /\ out[Len(out)][1] = l[1])
  <2>1. out' = Append(out, l)
    BY <1>3 DEF WriteUnique
  <2>2. /\ DOMAIN out = 1 .. Len(out) /\ DOMAIN out' = 1 .. Len(out) + 1 /\ Len(out) \in Nat
        /\ out'[Len(out) + 1] = l /\ \A i \in 1 .. Len(out) : out'[i] = out[i]
    BY <1>1, <2>1
  <2>3. Written' \subseteq Written \cup {l}
    <3> SUFFICES ASSUME NEW i \in DOMAIN out'
                 PROVE  out'[i] \in Written \cup {l}
      BY DEF Written
    <3>1. i \in 1 .. Len(out) \/ i = Len(out) + 1
      BY <2>2
    <3> QED
      BY <2>2, <3>1 DEF Written
  <2>4. Written \cup {l} \subseteq Written'
    <3>1. \A i \in DOMAIN out : i \in DOMAIN out' /\ out'[i] = out[i]
      BY <2>2
    <3>2. Len(out) + 1 \in DOMAIN out' /\ out'[Len(out) + 1] = l
      BY <2>2
    <3> QED
      BY <3>1, <3>2 DEF Written
  <2> QED
    BY <2>3, <2>4
<1> QED
  BY <1>2, <1>3

\* The line of cell src is written.
LEMMA WriteConserved ==
  ASSUME TypeOK, Conserved, NEW src \in LiveCells,
         LiveCells' = LiveCells \ {src}, UNCHANGED <<input, mem>>, out' = WriteUnique(mem[src])
  PROVE  Conserved'
<1> DEFINE l == mem[src]
<1>1. InputLines' = InputLines
  BY DEF InputLines, InputLine
<1>2. \/ Written' = Written \cup {l}
      \/ Written' = Written /\ Unique /\ \E m \in Written : m[1] = l[1]
  BY WriteEffect
<1>3. OneEach(LiveCells)'
  BY <1>1 DEF Conserved, OneEach
<1>4. \A c \in LiveCells' : mem'[c] \notin Written'
  BY <1>2 DEF Conserved, OneEach
<1>5. Written' \subseteq InputLines
  BY <1>2 DEF Conserved, OneEach
<1>6. ASSUME NEW k \in InputLines
      PROVE  \/ k \in Written'
             \/ \E c \in LiveCells' : mem'[c] = k
             \/ Unique /\ \E m \in Written' : m[1] = k[1]
  <2>1. CASE k = l
    BY <1>2, <2>1
  <2>2. CASE k # l
    BY <1>2, <2>2 DEF Conserved
  <2> QED
    BY <2>1, <2>2
<1> QED
  BY <1>1, <1>3, <1>4, <1>5, <1>6 DEF Conserved

\* The lines of some cells change places.
LEMMA PermuteConserved ==
  ASSUME Conserved, NEW A \in SUBSET LiveCells, LiveCells' = LiveCells, UNCHANGED <<input, out>>,
         \A c \in LiveCells \ A : mem'[c] = mem[c],
         \A c \in A : \E d \in A : mem'[c] = mem[d],
         \A d \in A : \E c \in A : mem'[c] = mem[d],
         \A c, d \in A : mem'[c] = mem'[d] => c = d
  PROVE  Conserved'
<1>1. InputLines' = InputLines /\ Written' = Written
  BY DEF InputLines, InputLine, Written
<1>2. \A c \in LiveCells : \E d \in LiveCells : mem'[c] = mem[d] /\ (d \in A <=> c \in A)
  OBVIOUS
<1>3. \A d \in LiveCells : \E c \in LiveCells : mem'[c] = mem[d]
  OBVIOUS
<1>4. \A c, d \in LiveCells : mem'[c] = mem'[d] => c = d
  <2> SUFFICES ASSUME NEW c \in LiveCells, NEW d \in LiveCells, mem'[c] = mem'[d]
               PROVE  c = d
    OBVIOUS
  <2>1. CASE c \in A /\ d \in A
    BY <2>1
  <2>2. CASE c \notin A /\ d \notin A
    BY <2>2 DEF Conserved, OneEach
  <2>3. ~(c \in A <=> d \in A) => FALSE
    BY <1>2 DEF Conserved, OneEach
  <2> QED
    BY <2>1, <2>2, <2>3
<1>5. OneEach(LiveCells)'
  BY <1>1, <1>2, <1>4 DEF Conserved, OneEach
<1>6. \A c \in LiveCells' : mem'[c] \notin Written
  BY <1>2 DEF Conserved
<1>7. ASSUME NEW l \in InputLines, NEW d \in LiveCells, mem[d] = l
      PROVE  \E c \in LiveCells' : mem'[c] = l
  BY <1>3, <1>7
<1> QED
  BY <1>1, <1>5, <1>6, <1>7 DEF Conserved

-----------------------------------------------------------------------------
(* The live cells, and how they keep apart.                                *)

LEMMA LiveCell ==
  ASSUME NEW c
  PROVE  c \in LiveCells <=> \/ \E n \in Nodes : c \in Available(n)
                             \/ \E u \in Threads : c \in InFlight(u)
                             \/ \E u \in Threads : c \in Unsorted(u)
<1> DEFINE A == { Available(n) : n \in Nodes }
           B == { InFlight(u) \cup Unsorted(u) : u \in Threads }
<1>1. LiveCells = (UNION A) \cup (UNION B)
  BY DEF LiveCells
<1>2. c \in UNION A <=> \E n \in Nodes : c \in Available(n)
  OBVIOUS
<1>3. c \in UNION B <=> \E u \in Threads : c \in InFlight(u) \/ c \in Unsorted(u)
  OBVIOUS
<1> HIDE DEF A, B
<1>4. c \in LiveCells <=> c \in UNION A \/ c \in UNION B
  BY <1>1
<1> QED
  BY <1>2, <1>3, <1>4

LEMMA AvailableIn ==
  ASSUME Facts, Layout, NEW n \in Nodes, NEW c \in Available(n)
  PROVE  /\ c \in Nat /\ In(c, Area(n), n)
         /\ ~Sorted(n) => Lo(n) \in Nodes
         /\ \/ /\ node[n].lo <= c /\ c < node[n].endLo /\ c < Base(n) + Half(n)
            \/ /\ node[n].hi <= c /\ c < node[n].endHi /\ Base(n) + Half(n) <= c
<1>1. /\ node[n].lo \in Nat /\ node[n].hi \in Nat /\ node[n].endLo \in Nat /\ node[n].endHi \in Nat
      /\ Base(n) \in Nat /\ Half(n) \in Nat /\ NodeLines[n] \in Nat /\ Half(n) <= NodeLines[n]
  BY Pointers, Starts, Numbers DEF Facts
<1>2. Chain(n)
  BY DEF Layout, Shape
<1> DEFINE b == Base(n)
           h == Half(n)
<1>3. /\ b <= node[n].lo /\ node[n].lo <= node[n].endLo /\ node[n].endLo <= b + h
      /\ b + h <= node[n].hi /\ node[n].hi <= node[n].endHi
      /\ node[n].endHi <= b + NodeLines[n]
      /\ ~Sorted(n) /\ Lo(n) \notin Nodes => node[n].endLo = b /\ node[n].endHi = b + h
  BY <1>2 DEF Chain
<1> HIDE DEF b, h
<1>4. c \in Nat
  BY <1>1 DEF Available
<1>5. \/ node[n].lo <= c /\ c < node[n].endLo
      \/ node[n].hi <= c /\ c < node[n].endHi
  BY <1>1 DEF Available
<1>6. b \in Nat /\ h \in Nat /\ NodeLines[n] \in Nat /\ h <= NodeLines[n]
  BY <1>1 DEF b, h
<1>7. \/ node[n].lo <= c /\ c < node[n].endLo /\ c < b + h
      \/ node[n].hi <= c /\ c < node[n].endHi /\ b + h <= c
  <2>1. CASE node[n].lo <= c /\ c < node[n].endLo
    BY <1>1, <1>3, <1>4, <1>6, <2>1
  <2>2. CASE node[n].hi <= c /\ c < node[n].endHi
    BY <1>1, <1>3, <1>4, <1>6, <2>2
  <2> QED
    BY <1>5, <2>1, <2>2
<1>8. b <= c /\ c < b + NodeLines[n]
  <2>1. CASE node[n].lo <= c /\ c < node[n].endLo
    BY <1>1, <1>3, <1>4, <1>6, <2>1
  <2>2. CASE node[n].hi <= c /\ c < node[n].endHi
    BY <1>1, <1>3, <1>4, <1>6, <2>2
  <2> QED
    BY <1>5, <2>1, <2>2
<1>9. ~Sorted(n) => Lo(n) \in Nodes
  <2> SUFFICES ASSUME ~Sorted(n), Lo(n) \notin Nodes PROVE FALSE
    OBVIOUS
  <2>1. node[n].endLo = b /\ node[n].endHi = b + h
    BY <1>3
  <2> QED
    BY <1>1, <1>3, <1>4, <1>5, <1>6, <2>1
<1>10. In(c, Area(n), n)
  <2> DEFINE a == Area(n) * NLines
             s == NodeStart[n]
  <2>1. a \in Nat /\ s \in Nat /\ b = a + s
    BY Starts, AreaNumber, Bounds DEF b, Base
  <2>2. In(c, Area(n), n) <=> s <= c - a /\ c - a < s + NodeLines[n]
    BY DEF In, Within, Stop
  <2> HIDE DEF a, s
  <2> QED
    BY <1>4, <1>6, <1>8, <2>1, <2>2
<1> QED
  BY <1>4, <1>7, <1>9, <1>10 DEF b, h

\* Cells that thread u merges into are in its node's share of the parent's area.
LEMMA InFlightIn ==
  ASSUME Facts, Layout, NEW u \in Threads, NEW c \in InFlight(u)
  PROVE  /\ Working(u) /\ at[u] \in Nodes /\ at[u] # Root
         /\ c \in Nat /\ Dest(at[u]) <= c /\ c < loc[u].dest /\ In(c, Len(at[u]), at[u])
<1> DEFINE n == at[u]
           d == loc[u].dest
<1>1. Working(u) /\ n # Root /\ c \in Dest(n) .. d - 1
  BY DEF InFlight, Working
<1>2. /\ n \in Nodes /\ Dest(n) \in Nat /\ Drop(n) <= Dest(n)
      /\ d <= Drop(n) + NodeLines[n]
  BY <1>1, InDest
<1>3. d \in Nat /\ Drop(n) \in Nat /\ NodeLines[n] \in Nat
  BY <1>2, LocalNumbers, Starts, Numbers DEF Facts
<1>4. c \in Nat /\ Dest(n) <= c /\ c < d
  BY <1>1, <1>2, <1>3
<1>5. In(c, Len(n), n)
  <2> DEFINE a == Len(n) * NLines
             s == NodeStart[n]
  <2>1. a \in Nat /\ s \in Nat /\ Drop(n) = a + s
    BY <1>2, Starts, AreaNumber, Bounds DEF Drop
  <2>2. In(c, Len(n), n) <=> s <= c - a /\ c - a < s + NodeLines[n]
    BY DEF In, Within, Stop
  <2> HIDE DEF a, s, d, n
  <2> QED
    BY <1>2, <1>3, <1>4, <2>1, <2>2
<1> QED
  BY <1>1, <1>2, <1>4, <1>5

LEMMA UnsortedIn ==
  ASSUME Facts, NEW u \in Threads, NEW c \in Unsorted(u)
  PROVE  Dividing(u) /\ Descending(u) /\ at[u] \in Nodes /\ c \in Nat /\ In(c, 0, at[u])
<1>1. Dividing(u) /\ Descending(u)
  BY DEF Unsorted, Dividing, Descending
<1>2. at[u] \in Nodes
  BY <1>1, WorksOnNode
<1>3. NodeStart[at[u]] \in Nat /\ NodeLines[at[u]] \in Nat
  BY <1>2, Numbers
<1>4. c \in NodeStart[at[u]] .. NodeStart[at[u]] + NodeLines[at[u]] - 1
  BY DEF Unsorted
<1>5. c \in Nat /\ In(c, 0, at[u])
  BY <1>3, <1>4 DEF In, Within, Stop
<1> QED
  BY <1>1, <1>2, <1>5

LEMMA LiveCellsAreCells ==
  ASSUME Facts, Layout
  PROVE  LiveCells \subseteq Cells
<1>1. ASSUME NEW n \in Nodes, NEW c \in Available(n) PROVE c \in Cells
  <2>1. c \in Nat /\ In(c, Area(n), n) /\ (~Sorted(n) => Lo(n) \in Nodes)
    BY <1>1, AvailableIn
  <2>2. CASE Sorted(n)
    <3>1. In(c, 0, n)
      BY <2>1, <2>2 DEF Area
    <3> QED
      BY <2>1, <3>1, InCells
  <2>3. CASE ~Sorted(n)
    <3>1. Lo(n) \in Nodes /\ Lo(n) # Root /\ Len(Lo(n)) = Area(n) /\ Area(n) \in Nat
      BY <2>1, <2>3, ChildrenOf, Starts DEF Area
    <3> QED
      BY <2>1, <3>1, InCells
  <2> QED
    BY <2>2, <2>3
<1>2. ASSUME NEW u \in Threads, NEW c \in InFlight(u) PROVE c \in Cells
  <2>1. at[u] \in Nodes /\ at[u] # Root /\ c \in Nat /\ In(c, Len(at[u]), at[u])
    BY <1>2, InFlightIn
  <2>2. Len(at[u]) \in Nat
    BY <2>1, NodesAreSequences
  <2> QED
    BY <2>1, <2>2, InCells
<1>3. ASSUME NEW u \in Threads, NEW c \in Unsorted(u) PROVE c \in Cells
  BY <1>3, UnsortedIn, InCells
<1> QED
  BY <1>1, <1>2, <1>3, LiveCell

\* What comes after the lines a node has delivered, in its share of its parent's
\* area, belongs to nobody but the thread that merges at the node.
LEMMA BeyondDelivered ==
  ASSUME Facts, Layout, NEW n \in Nodes, n # Root, ~Sorted(Parent(n)),
         NEW c \in Nat, In(c, Len(n), n), Dest(n) <= c
  PROVE  /\ \A m \in Nodes : c \notin Available(m)
         /\ \A u \in Threads : c \notin Unsorted(u)
         /\ \A u \in Threads : c \in InFlight(u) => at[u] = n
<1> DEFINE p == Parent(n)
<1>1. Len(n) \in Nat /\ p \in Nodes /\ Len(n) = Len(p) + 1 /\ Len(p) \in Nat /\ n[Len(n)] \in {0, 1}
  BY ChildShare, NodesAreSequences
<1>2. ASSUME NEW m \in Nodes, c \in Available(m) PROVE FALSE
  <2>1. In(c, Area(m), m) /\ Area(m) \in Nat
    BY <1>2, AvailableIn, Starts
  <2>2. Area(m) = Len(n) /\ (Under(n, m) \/ Under(m, n))
    BY <1>1, <2>1, Meet
  <2>3. Len(m) \in Nat /\ Len(m) + 1 = Len(n)
    BY <1>1, <2>2, Starts DEF Area
  <2>4. Strictly(m, n)
    BY <2>2, <2>3, <1>1 DEF Under, Strictly
  <2>5. Under(m, p)
    BY <2>4, AboveParent
  <2>6. m = p
    BY <1>1, <2>3, <2>5, SameLength
  <2>7. /\ \/ node[p].lo <= c /\ c < node[p].endLo /\ c < Base(p) + Half(p)
           \/ node[p].hi <= c /\ c < node[p].endHi /\ Base(p) + Half(p) <= c
    BY <1>1, <1>2, <2>6, AvailableIn
  <2>8. /\ node[p].lo \in Nat /\ node[p].endLo \in Nat /\ node[p].endHi \in Nat
        /\ Base(p) \in Nat /\ Half(p) \in Nat /\ Drop(n) \in Nat /\ NodeLines[n] \in Nat
    BY <1>1, Pointers, Starts, Numbers DEF Facts
  <2>9. Drop(n) <= c /\ c < Drop(n) + NodeLines[n]
    <3> DEFINE a == Len(n) * NLines
               s == NodeStart[n]
    <3>1. a \in Nat /\ s \in Nat /\ Drop(n) = a + s
      BY <1>1, AreaNumber, Bounds DEF Drop
    <3>2. s <= c - a /\ c - a < s + NodeLines[n]
      BY DEF In, Within, Stop
    <3> HIDE DEF a, s
    <3> QED
      BY <2>8, <3>1, <3>2
  <2>10. CASE n[Len(n)] = 0
    <3>1. Drop(n) = Base(p) /\ NodeLines[n] = Half(p) /\ Dest(n) = node[p].endLo
      BY <2>10, DropIsSide DEF Dest
    <3> QED
      BY <2>7, <2>8, <2>9, <3>1
  <2>11. CASE n[Len(n)] # 0
    <3>1. Drop(n) = Base(p) + Half(p) /\ Dest(n) = node[p].endHi
      BY <2>11, DropIsSide DEF Dest
    <3> QED
      BY <2>7, <2>8, <2>9, <3>1
  <2> QED
    BY <2>10, <2>11
<1>3. ASSUME NEW u \in Threads, c \in Unsorted(u) PROVE FALSE
  <2>1. at[u] \in Nodes /\ In(c, 0, at[u])
    BY <1>3, UnsortedIn
  <2>2. 0 = Len(n)
    BY <1>1, <2>1, Meet
  <2> QED
    BY <1>1, <2>2
<1>4. ASSUME NEW u \in Threads, c \in InFlight(u) PROVE at[u] = n
  <2>1. at[u] \in Nodes /\ In(c, Len(at[u]), at[u]) /\ Len(at[u]) \in Nat
    BY <1>4, InFlightIn, NodesAreSequences
  <2>2. Len(at[u]) = Len(n) /\ (Under(n, at[u]) \/ Under(at[u], n))
    BY <1>1, <2>1, Meet
  <2> QED
    BY <1>1, <2>1, <2>2, SameLength
<1> QED
  BY <1>2, <1>3, <1>4

\* No line is available to two nodes.
LEMMA AvailableOnce ==
  ASSUME Facts, Layout, NEW n \in Nodes, NEW m \in Nodes,
         NEW c \in Available(n), c \in Available(m), Under(m, n)
  PROVE  m = n
<1>1. /\ In(c, Area(n), n) /\ In(c, Area(m), m) /\ c \in Nat
      /\ Area(n) \in Nat /\ Area(m) \in Nat /\ Len(n) \in Nat /\ Len(m) \in Nat
  BY AvailableIn, Starts
<1>2. Area(n) = Area(m)
  BY <1>1, Meet
<1>3. CASE Sorted(m)
  <2>1. Sorted(n)
    BY <1>1, <1>2, <1>3, Starts DEF Area
  <2>2. ~Strictly(m, n)
    BY <1>3, <2>1, AsInit DEF Layout, BelowSorted
  <2> QED
    BY <2>2 DEF Strictly
<1>4. CASE ~Sorted(m)
  <2>1. Len(n) + 1 = Len(m) + 1
    BY <1>1, <1>2, <1>4, Starts DEF Area
  <2> QED
    BY <1>1, <2>1, SameLength
<1> QED
  BY <1>3, <1>4

\* A line that a thread still has to sort is available to no node.
LEMMA UnsortedNotAvailable ==
  ASSUME Facts, Layout, NEW u \in Threads, NEW c \in Unsorted(u), NEW m \in Nodes
  PROVE  c \notin Available(m)
<1> SUFFICES ASSUME c \in Available(m) PROVE FALSE
  OBVIOUS
<1> DEFINE n == at[u]
<1>1. Dividing(u) /\ Descending(u) /\ n \in Nodes /\ c \in Nat /\ In(c, 0, n)
  BY UnsortedIn
<1>2. In(c, Area(m), m) /\ Area(m) \in Nat
  BY AvailableIn, Starts
<1>3. Area(m) = 0 /\ (Under(n, m) \/ Under(m, n))
  BY <1>1, <1>2, Meet
<1>4. Sorted(m)
  BY <1>3, Starts DEF Area
<1>5. node[n] = InitNode(n) /\ \A k \in Nodes : Strictly(n, k) => node[k] = InitNode(k)
  BY <1>1 DEF Layout, Around
<1>6. CASE Under(n, m)
  <2>1. node[m] = InitNode(m)
    BY <1>5, <1>6 DEF Strictly
  <2> QED
    BY <1>4, <2>1, AsInit
<1>7. CASE Under(m, n) /\ m # n
  <2>1. pc[u] # "idle"
    BY <1>1 DEF Dividing
  <2> QED
    BY <1>1, <1>4, <1>7, <2>1, NotBelowSorted DEF Layout, Strictly
<1>8. CASE m = n
  BY <1>4, <1>5, <1>8, AsInit
<1> QED
  BY <1>3, <1>6, <1>7, <1>8

LEMMA UnsortedOnce ==
  ASSUME Facts, NEW t \in Threads, NEW u \in Threads, NEW c \in Unsorted(t), c \in Unsorted(u)
  PROVE  t = u
<1>1. /\ Descending(t) /\ at[t] \in Nodes /\ c \in Nat /\ In(c, 0, at[t])
      /\ Descending(u) /\ at[u] \in Nodes /\ In(c, 0, at[u])
  BY UnsortedIn
<1>2. Under(at[t], at[u]) \/ Under(at[u], at[t])
  BY <1>1, Meet
<1>3. pc[t] # "idle" /\ pc[u] # "idle"
  BY <1>1 DEF Descending
<1> QED
  BY <1>1, <1>2, <1>3, FreshAlone

LEMMA InFlightElsewhere ==
  ASSUME Facts, Layout, NEW u \in Threads, NEW c \in InFlight(u)
  PROVE  /\ \A m \in Nodes : c \notin Available(m)
         /\ \A v \in Threads : c \notin Unsorted(v)
         /\ \A v \in Threads : c \in InFlight(v) => v = u
<1>1. /\ Working(u) /\ at[u] \in Nodes /\ at[u] # Root
      /\ c \in Nat /\ Dest(at[u]) <= c /\ In(c, Len(at[u]), at[u])
  BY InFlightIn
<1>2. ~Sorted(Parent(at[u]))
  BY <1>1, InDest
<1>3. ASSUME NEW v \in Threads, c \in InFlight(v) PROVE v = u
  <2>1. at[v] = at[u] /\ Working(v)
    BY <1>1, <1>2, <1>3, BeyondDelivered, InFlightIn
  <2> QED
    BY <1>1, <2>1, Alone DEF Layout
<1> QED
  BY <1>1, <1>2, <1>3, BeyondDelivered

\* The part of area 1 that a leaf uses as scratch space holds no line.
LEMMA ScratchIsFree ==
  ASSUME Facts, Layout, NEW t \in Threads, pc[t] = "leaf", NEW c \in Nat, In(c, 1, at[t])
  PROVE  c \notin LiveCells
<1> DEFINE n == at[t]
<1>1. Descending(t) /\ Dividing(t) /\ n \in Nodes /\ In(c, 1, n) /\ 1 \in Nat /\ c \in Int
  BY WorksOnNode DEF Descending, Dividing
<1> HIDE DEF n
<1>2. /\ node[n] = InitNode(n)
      /\ \A m \in Nodes : Strictly(m, n) => Untaken(m, n)
  BY <1>1 DEF Layout, Around, n
<1>3. ASSUME NEW m \in Nodes, c \in Available(m) PROVE FALSE
  <2>1. In(c, Area(m), m) /\ Area(m) \in Nat /\ Len(m) \in Nat
    BY <1>3, AvailableIn, Starts
  <2>2. 1 = Area(m)
    BY <1>1, <2>1, Meet
  <2>3. ~Sorted(m) /\ Len(m) = 0
    BY <2>1, <2>2, Starts DEF Area
  <2>4. m = Root
    BY <2>3, RootAbove, RootIsNode, SameLength, NodesAreSequences DEF Root
  <2>5. /\ \/ node[m].lo <= c /\ c < node[m].endLo /\ c < Base(m) + Half(m)
           \/ node[m].hi <= c /\ c < node[m].endHi /\ Base(m) + Half(m) <= c
    BY <1>3, AvailableIn
  <2>6. /\ Base(m) \in Nat /\ Half(m) \in Nat /\ NodeStart[m] \in Nat
        /\ node[m].lo \in Nat /\ node[m].hi \in Nat /\ node[m].endLo \in Nat /\ node[m].endHi \in Nat
    BY Starts, Numbers, Pointers DEF Facts
  <2>7. CASE n = m
    <3>1. /\ node[m].lo = Base(m) /\ node[m].endLo = Base(m)
          /\ node[m].hi = Base(m) + Half(m) /\ node[m].endHi = Base(m) + Half(m)
      BY <1>2, <2>7, AsInit
    <3> QED
      BY <2>5, <2>6, <3>1
  <2>8. CASE n # m
    <3>1. Strictly(m, n)
      BY <1>1, <2>4, <2>8, RootAbove DEF Strictly
    <3>2. /\ node[m].lo = Base(m) /\ node[m].hi = Base(m) + Half(m)
          /\ IF n[Len(m) + 1] = 0 THEN node[m].endLo = Base(m)
                                  ELSE node[m].endHi = Base(m) + Half(m)
      BY <1>2, <3>1 DEF Untaken
    <3>3. InSide(m, n)
      BY <1>1, <3>1, Side
    <3>4. /\ NodeStart[n] \in Nat /\ Stop(n) \in Nat /\ Middle(m) = NodeStart[m] + Half(m)
          /\ NodeStart[n] <= c - NLines /\ c - NLines < Stop(n)
          /\ Base(m) = NLines + NodeStart[m]
      BY <1>1, <2>2, Bounds DEF Middle, In, Within, Base
    <3>5. CASE n[Len(m) + 1] = 0
      <4>1. Stop(n) <= Middle(m)
        BY <3>3, <3>5 DEF InSide
      <4>2. c < Base(m) + Half(m)
        BY <2>6, <3>4, <4>1
      <4> QED
        BY <2>5, <2>6, <3>2, <3>5, <4>2
    <3>6. CASE n[Len(m) + 1] # 0
      <4>1. Middle(m) <= NodeStart[n]
        BY <3>3, <3>6 DEF InSide
      <4>2. Base(m) + Half(m) <= c
        BY <2>6, <3>4, <4>1
      <4> QED
        BY <2>5, <2>6, <3>2, <3>6, <4>2
    <3> QED
      BY <3>5, <3>6
  <2> QED
    BY <2>7, <2>8
<1>4. ASSUME NEW u \in Threads, c \in Unsorted(u) PROVE FALSE
  <2>1. at[u] \in Nodes /\ In(c, 0, at[u])
    BY <1>4, UnsortedIn
  <2>2. 1 = 0
    BY <1>1, <2>1, Meet
  <2> QED
    BY <2>2
<1>5. ASSUME NEW u \in Threads, c \in InFlight(u) PROVE FALSE
  <2> DEFINE m == at[u]
  <2>1. /\ Working(u) /\ m \in Nodes /\ m # Root /\ Len(m) \in Nat
        /\ Dest(m) <= c /\ c < loc[u].dest /\ In(c, Len(m), m)
    BY <1>5, InFlightIn, NodesAreSequences
  <2>2. 1 = Len(m) /\ (Under(n, m) \/ Under(m, n))
    BY <1>1, <2>1, Meet
  <2>3. pc[u] # "idle" /\ pc[u] # "leaf"
    BY <2>1 DEF Working
  <2>4. ~Under(n, m)
    BY <1>1, <2>1, <2>3, FreshAlone DEF n
  <2>5. Strictly(m, n)
    BY <2>2, <2>4 DEF Strictly
  <2>6. node[m].lo = Base(m) /\ node[m].hi = Base(m) + Half(m)
    BY <1>2, <2>1, <2>5 DEF Untaken
  <2>7. loc[u].dest = Drop(m) /\ Drop(m) <= Dest(m) /\ Dest(m) \in Nat /\ Drop(m) \in Nat
    BY <2>1, <2>6, InDest, Starts
  <2> QED
    BY <2>1, <2>7
<1> QED
  BY <1>3, <1>4, <1>5, LiveCell

-----------------------------------------------------------------------------
(* The live cells change as their lines do.                                *)

LEMMA LiveCellNext ==
  ASSUME NEW c
  PROVE  c \in LiveCells' <=> \/ \E n \in Nodes : c \in Available(n)'
                              \/ \E u \in Threads : c \in InFlight(u)'
                              \/ \E u \in Threads : c \in Unsorted(u)'
<1> DEFINE A == { Available(n)' : n \in Nodes }
           B == { InFlight(u)' \cup Unsorted(u)' : u \in Threads }
<1>1. LiveCells' = (UNION A) \cup (UNION B)
  BY DEF LiveCells
<1>2. c \in UNION A <=> \E n \in Nodes : c \in Available(n)'
  OBVIOUS
<1>3. c \in UNION B <=> \E u \in Threads : c \in InFlight(u)' \/ c \in Unsorted(u)'
  OBVIOUS
<1> HIDE DEF A, B
<1>4. c \in LiveCells' <=> c \in UNION A \/ c \in UNION B
  BY <1>1
<1> QED
  BY <1>2, <1>3, <1>4

LEMMA SameCells ==
  ASSUME \A n \in Nodes : Available(n)' = Available(n),
         \A u \in Threads : InFlight(u)' = InFlight(u) /\ Unsorted(u)' = Unsorted(u)
  PROVE  LiveCells' = LiveCells
<1> SUFFICES ASSUME NEW c PROVE c \in LiveCells' <=> c \in LiveCells
  OBVIOUS
<1>1. (\E n \in Nodes : c \in Available(n)') <=> (\E n \in Nodes : c \in Available(n))
  OBVIOUS
<1>2. (\E u \in Threads : c \in InFlight(u)') <=> (\E u \in Threads : c \in InFlight(u))
  OBVIOUS
<1>3. (\E u \in Threads : c \in Unsorted(u)') <=> (\E u \in Threads : c \in Unsorted(u))
  OBVIOUS
<1> QED
  BY <1>1, <1>2, <1>3, LiveCell, LiveCellNext

LEMMA SameInFlight ==
  ASSUME NEW u \in Threads, Working(u)' <=> Working(u),
         Working(u) => /\ at'[u] = at[u] /\ loc'[u].dest = loc[u].dest
                       /\ at[u] # Root => Dest(at[u])' = Dest(at[u])
  PROVE  InFlight(u)' = InFlight(u)
<1>1. CASE Working(u)
  <2>1. Working(u)'
    BY <1>1
  <2>2. CASE at[u] = Root
    BY <1>1, <2>2 DEF InFlight
  <2>3. CASE at[u] # Root
    <3>1. Dest(at[u])' = Dest(at[u]) /\ at'[u] = at[u] /\ loc'[u].dest = loc[u].dest
      BY <1>1, <2>3
    <3>2. InFlight(u) = Dest(at[u]) .. loc[u].dest - 1
      BY <1>1, <2>3 DEF InFlight, Working
    <3>3. InFlight(u)' = Dest(at[u])' .. loc'[u].dest - 1
      BY <2>1, <2>3, <3>1 DEF InFlight, Working
    <3> QED
      BY <3>1, <3>2, <3>3
  <2> QED
    BY <2>2, <2>3
<1>2. CASE ~Working(u)
  <2>1. ~Working(u)'
    BY <1>2
  <2> QED
    BY <1>2, <2>1 DEF InFlight, Working
<1> QED
  BY <1>1, <1>2

LEMMA SameUnsorted ==
  ASSUME NEW u \in Threads, Dividing(u)' <=> Dividing(u), Dividing(u) => at'[u] = at[u]
  PROVE  Unsorted(u)' = Unsorted(u)
<1>1. CASE Dividing(u)
  <2>1. Dividing(u)' /\ at'[u] = at[u]
    BY <1>1
  <2> QED
    BY <1>1, <2>1 DEF Unsorted, Dividing
<1>2. CASE ~Dividing(u)
  <2>1. ~Dividing(u)'
    BY <1>2
  <2> QED
    BY <1>2, <2>1 DEF Unsorted, Dividing
<1> QED
  BY <1>1, <1>2

\* All the live cells, and what they are live for, stay the same.
Unmoved ==
  /\ \A n \in Nodes : Available(n)' = Available(n)
  /\ \A u \in Threads : InFlight(u)' = InFlight(u) /\ (Working(u) => at'[u] = at[u])
  /\ \A c : (\E u \in Threads : c \in Unsorted(u)') <=> (\E u \in Threads : c \in Unsorted(u))
  /\ UNCHANGED <<input, mem, out, node>>

LEMMA UnmovedConserved ==
  ASSUME Conserved, Unmoved
  PROVE  LiveCells' = LiveCells /\ Conserved'
<1>1. LiveCells' = LiveCells
  <2>1. \A c : c \in LiveCells' <=> c \in LiveCells
    BY LiveCell, LiveCellNext DEF Unmoved
  <2> QED
    BY <2>1
<1> QED
  BY <1>1, SameConserved DEF Unmoved

LEMMA QuietUnmoved ==
  ASSUME Facts, NEW t \in Threads, Quiet(t)
  PROVE  Unmoved
<1>1. /\ UNCHANGED <<input, mem, out, node>>
      /\ \A u \in Threads : loc'[u].dest = loc[u].dest
  BY DEF Quiet
<1>2. \A n \in Nodes : Available(n)' = Available(n)
  BY <1>1 DEF Available
<1>3. ASSUME NEW u \in Threads
      PROVE  /\ InFlight(u)' = InFlight(u) /\ Unsorted(u)' = Unsorted(u)
             /\ Working(u) => at'[u] = at[u]
  <2>1. /\ Working(u)' <=> Working(u)
        /\ Working(u) => at'[u] = at[u] /\ (at[u] # Root => Dest(at[u])' = Dest(at[u]))
    BY <1>1, QuietWorking DEF Dest
  <2>2. (Dividing(u)' <=> Dividing(u)) /\ (Dividing(u) => at'[u] = at[u])
    BY QuietWorking
  <2> QED
    BY <1>1, <2>1, <2>2, SameInFlight, SameUnsorted
<1> QED
  BY <1>1, <1>2, <1>3 DEF Unmoved

LEMMA LockUnmoved ==
  ASSUME Facts, Layout, NEW t \in Threads, LockNode(t), at[t] # End
  PROVE  Unmoved
<1> DEFINE n == at[t]
<1>1. /\ pc[t] = "lock" /\ pc' = [pc EXCEPT ![t] = "merge"]
      /\ UNCHANGED <<input, mem, out, node, at>>
      /\ \A u \in Threads : u # t => loc'[u] = loc[u]
  BY DEF LockNode, Facts, TypeOK
<1>2. pc'[t] = "merge" /\ \A u \in Threads : u # t => pc'[u] = pc[u]
  BY <1>1 DEF Facts, TypeOK
<1>3. \A m \in Nodes : Available(m)' = Available(m)
  BY <1>1 DEF Available
<1>4. InFlight(t) = {} /\ InFlight(t)' = {} /\ Unsorted(t) = {} /\ Unsorted(t)' = {}
  <2>1. n \in Nodes
    BY DEF Facts, TypeOK
  <2>2. loc'[t].dest = (IF n = Root THEN 0 ELSE Dest(n))
    BY LockLayout
  <2>3. InFlight(t) = {} /\ Unsorted(t) = {} /\ Unsorted(t)' = {}
    BY <1>1, <1>2 DEF InFlight, Unsorted
  <2>4. InFlight(t)' = {}
    <3>1. CASE n = Root
      BY <1>1, <3>1 DEF InFlight
    <3>2. CASE n # Root
      <4>1. Dest(n)' = Dest(n) /\ at'[t] = n
        BY <1>1 DEF Dest
      <4>2. InFlight(t)' = Dest(n) .. Dest(n) - 1
        BY <1>2, <2>2, <3>2, <4>1 DEF InFlight
      <4>3. Dest(n) \in Nat
        BY <2>1, <3>2, ParentIsNode, Pointers DEF Dest, Facts
      <4> QED
        BY <4>2, <4>3
    <3> QED
      BY <3>1, <3>2
  <2> QED
    BY <2>3, <2>4
<1>5. ASSUME NEW u \in Threads, u # t
      PROVE  InFlight(u)' = InFlight(u) /\ Unsorted(u)' = Unsorted(u)
  <2>1. /\ Working(u)' <=> Working(u)
        /\ Working(u) => at'[u] = at[u] /\ (at[u] # Root => Dest(at[u])' = Dest(at[u]))
    BY <1>1, <1>2, <1>5 DEF Dest, Working
  <2>2. (Dividing(u)' <=> Dividing(u)) /\ (Dividing(u) => at'[u] = at[u])
    BY <1>1, <1>2, <1>5 DEF Dividing
  <2> QED
    BY <1>1, <1>5, <2>1, <2>2, SameInFlight, SameUnsorted
<1> QED
  BY <1>1, <1>3, <1>4, <1>5 DEF Unmoved

LEMMA SplitUnmoved ==
  ASSUME Facts, Layout, NEW t \in Threads, Split(t)
  PROVE  Unmoved
<1> DEFINE n == at[t]
<1>0. PICK new \in Threads : new = Lo(n)
  BY SplitThreads
<1>1. /\ n \in Nodes /\ Lo(n) \in Nodes /\ Hi(n) \in Nodes /\ new \in Threads
      /\ new # t /\ pc[new] = "idle" /\ at[new] = new /\ pc[t] = "call"
      /\ pc'[new] = "call" /\ (\A u \in Threads : u # new => pc'[u] = pc[u])
      /\ at'[t] = Hi(n) /\ (\A u \in Threads : u # t => at'[u] = at[u])
      /\ UNCHANGED <<input, mem, out, node, loc>>
  BY <1>0, SplitThreads
<1>2. \A m \in Nodes : Available(m)' = Available(m)
  BY <1>1 DEF Available
<1>3. \A u \in Threads : InFlight(u)' = InFlight(u)
  <2> SUFFICES ASSUME NEW u \in Threads
               PROVE  InFlight(u)' = InFlight(u)
    OBVIOUS
  <2>1. Working(u)' <=> Working(u)
    BY <1>1 DEF Working
  <2>2. Working(u) => u # t
    BY <1>1 DEF Working
  <2>3. Working(u) => at'[u] = at[u] /\ (at[u] # Root => Dest(at[u])' = Dest(at[u]))
    BY <1>1, <2>2 DEF Dest
  <2> QED
    BY <1>1, <2>1, <2>3, SameInFlight
<1>4. \A u \in Threads \ {t, new} : Unsorted(u)' = Unsorted(u)
  BY <1>1 DEF Unsorted
<1>5. /\ Unsorted(t) = NodeStart[n] .. NodeStart[n] + NodeLines[n] - 1
      /\ Unsorted(new) = {}
      /\ Unsorted(t)' = NodeStart[Hi(n)] .. NodeStart[Hi(n)] + NodeLines[Hi(n)] - 1
      /\ Unsorted(new)' = NodeStart[Lo(n)] .. NodeStart[Lo(n)] + NodeLines[Lo(n)] - 1
  <2>1. pc'[t] = "call" /\ at'[new] = Lo(n)
    BY <1>0, <1>1
  <2>2. Unsorted(t) = NodeStart[n] .. NodeStart[n] + NodeLines[n] - 1
    BY <1>1 DEF Unsorted
  <2>3. Unsorted(new) = {}
    BY <1>1 DEF Unsorted
  <2>4. Unsorted(t)' = NodeStart[Hi(n)] .. NodeStart[Hi(n)] + NodeLines[Hi(n)] - 1
    BY <1>1, <2>1 DEF Unsorted
  <2>5. Unsorted(new)' = NodeStart[Lo(n)] .. NodeStart[Lo(n)] + NodeLines[Lo(n)] - 1
    BY <1>0, <1>1, <2>1 DEF Unsorted
  <2> QED
    BY <2>2, <2>3, <2>4, <2>5
<1>6. Unsorted(t) = Unsorted(t)' \cup Unsorted(new)'
  <2> DEFINE s == NodeStart[n]
             k == NodeLines[n]
             h == Half(n)
  <2>1. s \in Nat /\ k \in Nat /\ h \in Nat /\ h <= k
    BY <1>1, Numbers
  <2>2. NodeStart[Lo(n)] = s /\ NodeLines[Lo(n)] = h
    BY <1>1, ChildrenOf, ChildShare
  <2>3. NodeStart[Hi(n)] = s + h /\ NodeLines[Hi(n)] = k - h
    BY <1>1, ChildrenOf, ChildShare DEF Middle
  <2>4. /\ Unsorted(t) = s .. s + k - 1 /\ Unsorted(new)' = s .. s + h - 1
        /\ Unsorted(t)' = s + h .. s + h + (k - h) - 1
    BY <1>5, <2>2, <2>3
  <2> HIDE DEF s, k, h
  <2>5. s .. s + k - 1 = (s .. s + h - 1) \cup (s + h .. s + h + (k - h) - 1)
    BY <2>1
  <2> QED
    BY <2>4, <2>5
<1>7. ASSUME NEW c
      PROVE  (\E u \in Threads : c \in Unsorted(u)') <=> (\E u \in Threads : c \in Unsorted(u))
  <2>1. ASSUME NEW u \in Threads, c \in Unsorted(u)' PROVE \E v \in Threads : c \in Unsorted(v)
    <3>1. CASE u \in {t, new}
      <4>1. c \in Unsorted(t)
        BY <1>6, <2>1, <3>1
      <4> QED
        BY <4>1
    <3>2. CASE u \notin {t, new}
      BY <1>4, <2>1, <3>2
    <3> QED
      BY <3>1, <3>2
  <2>2. ASSUME NEW u \in Threads, c \in Unsorted(u) PROVE \E v \in Threads : c \in Unsorted(v)'
    <3>1. CASE u = t
      <4>1. c \in Unsorted(t)' \/ c \in Unsorted(new)'
        BY <1>6, <2>2, <3>1
      <4> QED
        BY <1>1, <4>1
    <3>2. CASE u = new
      BY <1>5, <2>2, <3>2
    <3>3. CASE u \notin {t, new}
      BY <1>4, <2>2, <3>3
    <3> QED
      BY <3>1, <3>2, <3>3
  <2> QED
    BY <2>1, <2>2
<1>8. \A u \in Threads : Working(u) => at'[u] = at[u]
  BY <1>1 DEF Working
<1> QED
  BY <1>1, <1>2, <1>3, <1>7, <1>8 DEF Unmoved

LEMMA OneNode ==
  ASSUME Facts, Layout, NEW n \in Nodes, NEW m \in Nodes, NEW c \in Available(n), c \in Available(m)
  PROVE  m = n
<1>1. /\ In(c, Area(n), n) /\ In(c, Area(m), m) /\ c \in Nat /\ Area(n) \in Nat /\ Area(m) \in Nat
  BY AvailableIn, Starts
<1>2. Under(n, m) \/ Under(m, n)
  BY <1>1, Meet
<1> QED
  BY <1>2, AvailableOnce

\* What a take does to the cells available to the node.
LEMMA TakeAvailable ==
  ASSUME Facts, Layout, NEW t \in Threads, NEW src \in Nat, Takes(t, src),
         NEW n \in Nodes, n = at[t]
  PROVE  src \in Available(n) /\ Available(n)' = Available(n) \ {src}
<1> DEFINE a == node[n].lo
           b == node[n].endLo
           c == node[n].hi
           d == node[n].endHi
<1>1. /\ node'[n].endLo = b /\ node'[n].endHi = d
      /\ \/ src = a /\ src # b /\ node'[n].lo = src + 1 /\ node'[n].hi = c
         \/ src = c /\ src # d /\ node'[n].lo = a /\ node'[n].hi = src + 1
  BY DEF Takes
<1>2. a \in Nat /\ b \in Nat /\ c \in Nat /\ d \in Nat
  BY Pointers DEF Facts
<1>3. a <= b /\ b <= c /\ c <= d
  <2>1. Base(n) \in Nat /\ Half(n) \in Nat /\ Chain(n)
    BY Starts, Numbers DEF Layout, Shape
  <2>2. a <= b /\ b <= Base(n) + Half(n) /\ Base(n) + Half(n) <= c /\ c <= d
    BY <2>1 DEF Chain
  <2> QED
    BY <1>2, <2>1, <2>2
<1>4. /\ Available(n) = (a .. b - 1) \cup (c .. d - 1)
      /\ Available(n)' = (node'[n].lo .. b - 1) \cup (node'[n].hi .. d - 1)
  BY <1>1 DEF Available
<1> HIDE DEF a, b, c, d
<1>5. CASE src = a /\ src # b /\ node'[n].lo = src + 1 /\ node'[n].hi = c
  <2>1. src \in a .. b - 1 /\ src \notin c .. d - 1
    BY <1>2, <1>3, <1>5
  <2>2. a + 1 .. b - 1 = (a .. b - 1) \ {a}
    BY <1>2
  <2>3. Available(n)' = (a + 1 .. b - 1) \cup (c .. d - 1)
    BY <1>4, <1>5
  <2> QED
    BY <1>4, <1>5, <2>1, <2>2, <2>3
<1>6. CASE src = c /\ src # d /\ node'[n].lo = a /\ node'[n].hi = src + 1
  <2>1. src \in c .. d - 1 /\ src \notin a .. b - 1
    BY <1>2, <1>3, <1>6
  <2>2. c + 1 .. d - 1 = (c .. d - 1) \ {c}
    BY <1>2
  <2>3. Available(n)' = (a .. b - 1) \cup (c + 1 .. d - 1)
    BY <1>4, <1>6
  <2> QED
    BY <1>4, <1>6, <2>1, <2>2, <2>3
<1> QED
  BY <1>1, <1>5, <1>6

\* A take empties the cell of its line and, below the root, fills a free one.
LEMMA TakeCells ==
  ASSUME Facts, Layout, NEW t \in Threads, NEW src \in Nat, Takes(t, src),
         NEW n \in Nodes, n = at[t]
  PROVE  /\ Working(t) /\ UNCHANGED <<input, at>>
         /\ src \in LiveCells /\ Cell(src) = mem[src]
         /\ src \in Available(n) /\ Available(n)' = Available(n) \ {src}
         /\ \A m \in Nodes : m # n => Available(m)' = Available(m)
         /\ \A u \in Threads : Unsorted(u)' = Unsorted(u)
         /\ \A u \in Threads : u # t \/ n = Root => InFlight(u)' = InFlight(u)
         /\ n = Root => /\ LiveCells' = LiveCells \ {src}
                        /\ mem' = mem /\ out' = WriteUnique(mem[src])
         /\ n # Root => LET d == loc[t].dest IN
                        /\ d \in Cells /\ d \in Nat /\ d \notin LiveCells /\ In(d, Len(n), n)
                        /\ InFlight(t)' = InFlight(t) \cup {d}
                        /\ \A c \in InFlight(t) : c < d
                        /\ LiveCells' = (LiveCells \ {src}) \cup {d}
                        /\ mem'[d] = mem[src] /\ \A c \in LiveCells : mem'[c] = mem[c]
                        /\ out' = out
<1>1. /\ Working(t) /\ UNCHANGED <<input, pc, at>>
      /\ \A m \in Nodes : m # n => node'[m] = node[m]
      /\ node'[n].endLo = node[n].endLo /\ node'[n].endHi = node[n].endHi
      /\ \/ src = node[n].lo /\ src # node[n].endLo
         \/ src = node[n].hi /\ src # node[n].endHi
      /\ \A u \in Threads : u # t => loc'[u].dest = loc[u].dest
      /\ loc'[t].dest = loc[t].dest + (IF n = Root THEN 0 ELSE 1)
      /\ n = Root => mem' = mem /\ out' = WriteUnique(Cell(src))
      /\ n # Root => out' = out /\ mem' = [mem EXCEPT ![loc[t].dest] = Cell(src)]
  BY DEF Takes
<1>2. ASSUME NEW m \in Nodes, m # Root PROVE Dest(m)' = Dest(m)
  <2>1. Parent(m) \in Nodes
    BY <1>2, ParentIsNode
  <2>2. node'[Parent(m)].endLo = node[Parent(m)].endLo /\ node'[Parent(m)].endHi = node[Parent(m)].endHi
    BY <1>1, <2>1
  <2> QED
    BY <2>2 DEF Dest
<1>3. \A m \in Nodes : m # n => Available(m)' = Available(m)
  BY <1>1 DEF Available
<1>4. src \in Available(n) /\ Available(n)' = Available(n) \ {src}
  BY TakeAvailable
<1>5. \A u \in Threads : Unsorted(u)' = Unsorted(u)
  BY <1>1 DEF Unsorted
<1>6. ASSUME NEW u \in Threads, u # t \/ n = Root PROVE InFlight(u)' = InFlight(u)
  <2>1. (Working(u)' <=> Working(u)) /\ at'[u] = at[u] /\ loc'[u].dest = loc[u].dest
    <3>1. loc'[u].dest = loc[u].dest
      <4>1. CASE u # t
        BY <1>1, <4>1
      <4>2. CASE u = t
        <5>1. loc'[t].dest = loc[t].dest + 0 /\ loc[t].dest \in Nat
          BY <1>1, <1>6, <4>2, LocalNumbers DEF Facts
        <5> QED
          BY <4>2, <5>1
      <4> QED
        BY <4>1, <4>2
    <3> QED
      BY <1>1, <3>1 DEF Working
  <2>2. Working(u) /\ at[u] # Root => Dest(at[u])' = Dest(at[u])
    <3> SUFFICES ASSUME Working(u), at[u] # Root PROVE Dest(at[u])' = Dest(at[u])
      OBVIOUS
    <3>1. PICK m \in Nodes : m = at[u]
      BY WorksOnNode
    <3>2. Dest(m)' = Dest(m) /\ at'[u] = m
      BY <1>2, <2>1, <3>1
    <3> QED
      BY <3>1, <3>2
  <2> QED
    BY <2>1, <2>2, SameInFlight
<1>7. /\ src \in LiveCells
      /\ \A m \in Nodes : m # n => src \notin Available(m)
      /\ \A u \in Threads : src \notin InFlight(u) /\ src \notin Unsorted(u)
  BY <1>4, LiveCell, OneNode, InFlightElsewhere, UnsortedNotAvailable
<1>8. src \in Cells /\ Cell(src) = mem[src]
  BY <1>7, LiveCellsAreCells DEF Cell
<1>9. \A c : (\E m \in Nodes : c \in Available(m)') <=>
             (\E m \in Nodes : c \in Available(m)) /\ c # src
  BY <1>3, <1>4, <1>7
<1>10. ASSUME n = Root
       PROVE  /\ LiveCells' = LiveCells \ {src}
              /\ mem' = mem /\ out' = WriteUnique(mem[src])
  <2>1. LiveCells' = LiveCells \ {src}
    <3>1. \A c : c \in LiveCells' <=> c \in LiveCells /\ c # src
      BY <1>5, <1>6, <1>7, <1>9, <1>10, LiveCell, LiveCellNext
    <3> QED
      BY <3>1
  <2> QED
    BY <1>1, <1>8, <1>10, <2>1
<1> DEFINE d == loc[t].dest
<1>11. ASSUME n # Root
       PROVE  /\ d \in Cells /\ d \in Nat /\ d \notin LiveCells /\ In(d, Len(n), n)
              /\ InFlight(t)' = InFlight(t) \cup {d}
              /\ \A c \in InFlight(t) : c < d
              /\ LiveCells' = (LiveCells \ {src}) \cup {d}
              /\ mem'[d] = mem[src] /\ \A c \in LiveCells : mem'[c] = mem[c]
              /\ out' = out
  <2>1. /\ Parent(n) \in Nodes /\ ~Sorted(Parent(n)) /\ Dest(n) \in Nat /\ Drop(n) <= Dest(n)
        /\ Dest(n) <= d /\ d < Drop(n) + NodeLines[n] /\ d \in Nat
        /\ Drop(n) \in Nat /\ NodeLines[n] \in Nat
    BY <1>1, <1>11, InDest, LocalNumbers, Starts, Numbers DEF Facts
  <2>2. In(d, Len(n), n) /\ Len(n) \in Nat
    <3> DEFINE a == Len(n) * NLines
               s == NodeStart[n]
    <3>1. Len(n) \in Nat
      BY NodesAreSequences
    <3>2. a \in Nat /\ s \in Nat /\ Drop(n) = a + s
      BY <3>1, AreaNumber, Bounds DEF Drop
    <3>3. In(d, Len(n), n) <=> s <= d - a /\ d - a < s + NodeLines[n]
      BY DEF In, Within, Stop
    <3> HIDE DEF a, s, d
    <3> QED
      BY <2>1, <3>1, <3>2, <3>3
  <2>3. d \in Cells
    BY <1>11, <2>1, <2>2, InCells
  <2>4. /\ InFlight(t) = Dest(n) .. d - 1 /\ InFlight(t)' = Dest(n) .. d
    <3>1. InFlight(t) = Dest(n) .. d - 1
      BY <1>1, <1>11 DEF InFlight, Working
    <3>2. InFlight(t)' = Dest(n)' .. loc'[t].dest - 1
      BY <1>1, <1>11 DEF InFlight, Working
    <3>3. loc'[t].dest = d + 1 /\ Dest(n)' = Dest(n)
      BY <1>1, <1>2, <1>11
    <3>4. (d + 1) - 1 = d
      BY <2>1
    <3> HIDE DEF d
    <3>5. InFlight(t)' = Dest(n) .. (d + 1) - 1
      BY <3>2, <3>3
    <3> QED
      BY <3>1, <3>4, <3>5
  <2> HIDE DEF d
  <2>5. /\ InFlight(t)' = InFlight(t) \cup {d} /\ d \notin InFlight(t)
        /\ \A c \in InFlight(t) : c < d
    BY <2>1, <2>4
  <2>6. /\ \A m \in Nodes : d \notin Available(m)
        /\ \A u \in Threads : d \notin Unsorted(u)
        /\ \A u \in Threads : d \in InFlight(u) => at[u] = n
    BY <1>11, <2>1, <2>2, BeyondDelivered
  <2>7. \A u \in Threads : d \notin InFlight(u)
    <3> SUFFICES ASSUME NEW u \in Threads, d \in InFlight(u) PROVE FALSE
      OBVIOUS
    <3>1. at[u] = n /\ Working(u)
      BY <2>6, InFlightIn
    <3>2. u = t
      BY <1>1, <3>1, Alone DEF Layout
    <3> QED
      BY <2>5, <3>2
  <2>8. d \notin LiveCells
    BY <2>6, <2>7, LiveCell
  <2>9. \A c : (\E u \in Threads : c \in InFlight(u)') <=>
               (\E u \in Threads : c \in InFlight(u)) \/ c = d
    BY <1>6, <2>5
  <2>10. LiveCells' = (LiveCells \ {src}) \cup {d}
    <3>1. \A c : c \in LiveCells' <=> (c \in LiveCells /\ c # src) \/ c = d
      BY <1>5, <1>7, <1>9, <2>9, LiveCell, LiveCellNext
    <3> QED
      BY <3>1
  <2>11. mem'[d] = mem[src] /\ \A c \in LiveCells : mem'[c] = mem[c]
    <3>1. mem' = [mem EXCEPT ![d] = mem[src]] /\ DOMAIN mem = Cells
      BY <1>1, <1>8, <1>11 DEF d, Facts, TypeOK
    <3> QED
      BY <2>3, <2>8, <3>1, LiveCellsAreCells
  <2> QED
    BY <1>1, <1>11, <2>1, <2>2, <2>3, <2>5, <2>8, <2>10, <2>11
<1> QED
  BY <1>1, <1>3, <1>4, <1>5, <1>6, <1>7, <1>8, <1>10, <1>11

LEMMA TakeConserved ==
  ASSUME Facts, Layout, Conserved, NEW t \in Threads, NEW src \in Nat, Takes(t, src)
  PROVE  Conserved'
<1>1. PICK n \in Nodes : n = at[t]
  BY DEF Takes
<1>2. UNCHANGED input /\ src \in LiveCells
  BY <1>1, TakeCells
<1>3. CASE n = Root
  <2>1. LiveCells' = LiveCells \ {src} /\ mem' = mem /\ out' = WriteUnique(mem[src])
    BY <1>1, <1>3, TakeCells
  <2> QED
    BY <1>2, <2>1, WriteConserved DEF Facts
<1>4. CASE n # Root
  <2> DEFINE d == loc[t].dest
  <2>1. /\ d \in Cells /\ d \notin LiveCells /\ LiveCells' = (LiveCells \ {src}) \cup {d}
        /\ mem'[d] = mem[src] /\ \A c \in LiveCells : mem'[c] = mem[c]
        /\ out' = out
    BY <1>1, <1>4, TakeCells
  <2> HIDE DEF d
  <2> QED
    BY <1>2, <2>1, MoveConserved
<1> QED
  BY <1>3, <1>4

\* The lines on their way from the node become available to its parent.
LEMMA PublishCells ==
  ASSUME Facts, Layout, NEW t \in Threads, Publish(t), NEW n \in Nodes, n = at[t]
  PROVE  /\ UNCHANGED <<input, mem, out, at>>
         /\ \A m \in Nodes : n = Root \/ m # Parent(n) => Available(m)' = Available(m)
         /\ n # Root => /\ Parent(n) \in Nodes
                        /\ Available(Parent(n))' = Available(Parent(n)) \cup InFlight(t)
         /\ n = Root => InFlight(t) = {}
         /\ InFlight(t)' = {}
         /\ \A u \in Threads : u # t => InFlight(u)' = InFlight(u)
         /\ \A u \in Threads : Unsorted(u)' = Unsorted(u)
<1> DEFINE p == Parent(n)
<1>1. /\ pc[t] = "publish" /\ pc'[t] = "check"
      /\ \A u \in Threads : u # t => pc'[u] = pc[u] /\ loc'[u] = loc[u]
      /\ UNCHANGED <<input, mem, out, at>>
      /\ node'[n].lo = node[n].lo /\ node'[n].hi = node[n].hi
      /\ node'[n].endLo = node[n].endLo /\ node'[n].endHi = node[n].endHi
      /\ \A m \in Nodes : m # n /\ (n = Root \/ m # p) => node'[m] = node[m]
  BY PublishNode
<1>2. n # Root =>
        /\ p \in Nodes /\ p # n
        /\ node'[p].lo = node[p].lo /\ node'[p].hi = node[p].hi
        /\ n[Len(n)] = 0 => node'[p].endLo = loc[t].dest /\ node'[p].endHi = node[p].endHi
        /\ n[Len(n)] # 0 => node'[p].endHi = loc[t].dest /\ node'[p].endLo = node[p].endLo
  BY PublishNode
<1>3. Working(t)
  BY <1>1 DEF Working
<1>4. ASSUME NEW m \in Nodes, n = Root \/ m # p PROVE Available(m)' = Available(m)
  <2>1. /\ node'[m].lo = node[m].lo /\ node'[m].endLo = node[m].endLo
        /\ node'[m].hi = node[m].hi /\ node'[m].endHi = node[m].endHi
    BY <1>1, <1>4
  <2> QED
    BY <2>1 DEF Available
<1>5. \A u \in Threads : Unsorted(u)' = Unsorted(u)
  <2> SUFFICES ASSUME NEW u \in Threads PROVE Unsorted(u)' = Unsorted(u)
    OBVIOUS
  <2>1. (Dividing(u)' <=> Dividing(u)) /\ at'[u] = at[u]
    BY <1>1 DEF Dividing
  <2> QED
    BY <2>1, SameUnsorted
<1>6. ASSUME NEW u \in Threads, u # t PROVE InFlight(u)' = InFlight(u)
  <2>1. (Working(u)' <=> Working(u)) /\ at'[u] = at[u] /\ loc'[u].dest = loc[u].dest
    BY <1>1, <1>6 DEF Working
  <2>2. ASSUME Working(u), at[u] # Root PROVE Dest(at[u])' = Dest(at[u])
    <3>1. PICK m \in Nodes : m = at[u]
      BY <2>2, WorksOnNode
    <3>2. m # n
      BY <1>3, <1>6, <2>2, <3>1, Alone DEF Layout
    <3>3. Parent(m) \in Nodes /\ m # Root
      BY <2>2, <3>1, ParentIsNode
    <3>4. IF m[Len(m)] = 0 THEN node'[Parent(m)].endLo = node[Parent(m)].endLo
                           ELSE node'[Parent(m)].endHi = node[Parent(m)].endHi
      <4>1. CASE n # Root /\ Parent(m) = p
        <5>1. m[Len(m)] # n[Len(n)] /\ m[Len(m)] \in {0, 1} /\ n[Len(n)] \in {0, 1}
          BY <3>2, <3>3, <4>1, Siblings, ChildShare
        <5> QED
          BY <1>2, <4>1, <5>1
      <4>2. CASE ~(n # Root /\ Parent(m) = p)
        BY <1>1, <3>3, <4>2
      <4> QED
        BY <4>1, <4>2
    <3>5. Dest(m)' = Dest(m)
      BY <3>4 DEF Dest
    <3> QED
      BY <2>1, <3>1, <3>5
  <2> QED
    BY <2>1, <2>2, SameInFlight
<1>7. InFlight(t)' = {}
  BY <1>1 DEF InFlight
<1>8. n = Root => InFlight(t) = {}
  BY DEF InFlight
<1>9. ASSUME n # Root PROVE p \in Nodes /\ Available(p)' = Available(p) \cup InFlight(t)
  <2> DEFINE d == loc[t].dest
  <2>1. InFlight(t) = Dest(n) .. d - 1
    BY <1>3, <1>9 DEF InFlight, Working
  <2>2. p \in Nodes /\ Dest(n) \in Nat /\ Dest(n) <= d /\ d \in Nat
    BY <1>3, <1>9, InDest, LocalNumbers DEF Facts
  <2>3. Available(p)' = Available(p) \cup InFlight(t)
    <3>1. /\ node[p].lo \in Nat /\ node[p].endLo \in Nat /\ node[p].hi \in Nat /\ node[p].endHi \in Nat
          /\ node[p].lo <= node[p].endLo /\ node[p].hi <= node[p].endHi
      BY <2>2, Pointers DEF Facts, Layout, Shape, Chain
    <3>2. Available(p) = (node[p].lo .. node[p].endLo - 1) \cup (node[p].hi .. node[p].endHi - 1)
      BY DEF Available
    <3>3. CASE n[Len(n)] = 0
      <4>1. Dest(n) = node[p].endLo
        BY <3>3 DEF Dest
      <4>2. Available(p)' = (node[p].lo .. d - 1) \cup (node[p].hi .. node[p].endHi - 1)
        BY <1>1, <1>2, <1>9, <3>3 DEF Available
      <4> HIDE DEF d, p
      <4>3. node[p].lo .. d - 1 = (node[p].lo .. node[p].endLo - 1) \cup (node[p].endLo .. d - 1)
        BY <2>2, <3>1, <4>1
      <4> QED
        BY <2>1, <3>2, <4>1, <4>2, <4>3
    <3>4. CASE n[Len(n)] # 0
      <4>1. Dest(n) = node[p].endHi
        BY <3>4 DEF Dest
      <4>2. Available(p)' = (node[p].lo .. node[p].endLo - 1) \cup (node[p].hi .. d - 1)
        BY <1>1, <1>2, <1>9, <3>4 DEF Available
      <4> HIDE DEF d, p
      <4>3. node[p].hi .. d - 1 = (node[p].hi .. node[p].endHi - 1) \cup (node[p].endHi .. d - 1)
        BY <2>2, <3>1, <4>1
      <4> QED
        BY <2>1, <3>2, <4>1, <4>2, <4>3
    <3> QED
      BY <3>3, <3>4
  <2> QED
    BY <2>2, <2>3
<1> QED
  BY <1>1, <1>4, <1>5, <1>6, <1>7, <1>8, <1>9

LEMMA PublishConserved ==
  ASSUME Facts, Layout, Conserved, NEW t \in Threads, Publish(t)
  PROVE  LiveCells' = LiveCells /\ Conserved'
<1>0. PICK n \in Nodes : n = at[t]
  BY PublishNode
<1> DEFINE p == Parent(n)
<1>1. /\ UNCHANGED <<input, mem, out>>
      /\ \A m \in Nodes : n = Root \/ m # p => Available(m)' = Available(m)
      /\ n # Root => p \in Nodes /\ Available(p)' = Available(p) \cup InFlight(t)
      /\ n = Root => InFlight(t) = {}
      /\ InFlight(t)' = {}
      /\ \A u \in Threads : u # t => InFlight(u)' = InFlight(u)
      /\ \A u \in Threads : Unsorted(u)' = Unsorted(u)
  BY <1>0, PublishCells
<1>2. LiveCells' = LiveCells
  <2> SUFFICES ASSUME NEW c PROVE c \in LiveCells' <=> c \in LiveCells
    OBVIOUS
  <2> HIDE DEF p
  <2>1. \A m \in Nodes : c \in Available(m)' <=>
                            c \in Available(m) \/ (n # Root /\ m = p /\ c \in InFlight(t))
    <3> SUFFICES ASSUME NEW m \in Nodes
                 PROVE  c \in Available(m)' <=>
                          c \in Available(m) \/ (n # Root /\ m = p /\ c \in InFlight(t))
      OBVIOUS
    <3>1. CASE n # Root /\ m = p
      <4>1. Available(m)' = Available(p)'
        BY <3>1 DEF p
      <4> QED
        BY <1>1, <3>1, <4>1
    <3>2. CASE ~(n # Root /\ m = p)
      BY <1>1, <3>2
    <3> QED
      BY <3>1, <3>2
  <2>2. (\E m \in Nodes : c \in Available(m)') <=>
          (\E m \in Nodes : c \in Available(m)) \/ c \in InFlight(t)
    BY <1>1, <2>1
  <2>3. (\E u \in Threads : c \in InFlight(u)) <=>
          (\E u \in Threads : c \in InFlight(u)') \/ c \in InFlight(t)
    BY <1>1
  <2> QED
    BY <1>1, <2>2, <2>3, LiveCell, LiveCellNext
<1> QED
  BY <1>1, <1>2, SameConserved

-----------------------------------------------------------------------------
(* A leaf sorts its lines.                                                 *)

\* What SortLeaf stores: each half in order, and nothing elsewhere but scratch.
LEMMA SortLeafCells ==
  ASSUME Facts, Layout, NEW t \in Threads, SortLeaf(t), NEW n \in Nodes, n = at[t]
  PROVE  LET lo == NodeStart[n]
             hi == lo + Half(n)
             end == lo + NodeLines[n]
         IN /\ \A c \in Cells : c \in lo .. hi - 1 => mem'[c] = Nth(LinesOf(lo .. hi - 1), c - lo + 1)
            /\ \A c \in Cells : c \in hi .. end - 1 => mem'[c] = Nth(LinesOf(hi .. end - 1), c - hi + 1)
            /\ \A c \in Cells : \/ c \in lo .. end - 1
                                \/ c \in Nat /\ In(c, 1, n)
                                \/ mem'[c] = mem[c]
<1> DEFINE lo == NodeStart[n]
           nlo == Half(n)
           nhi == NodeLines[n] - nlo
           hi == lo + nlo
           end == lo + NodeLines[n]
           tempHi == Temp(n) + nlo \div 2
           scratch == (IF nlo > 1 THEN Temp(n) .. tempHi - 1 ELSE {})
                        \cup
                      (IF nhi > 1 THEN tempHi .. tempHi + nhi \div 2 - 1 ELSE {})
           loLines == LinesOf(lo .. hi - 1)
           hiLines == LinesOf(hi .. hi + nhi - 1)
<1>1. mem' = [c \in Cells |-> CASE c \in lo .. hi - 1       -> Nth(loLines, c - lo + 1)
                                [] c \in hi .. hi + nhi - 1 -> Nth(hiLines, c - hi + 1)
                                [] c \in scratch            -> Junk
                                [] OTHER                    -> mem[c]]
  BY DEF SortLeaf, Half, LinesOf
<1>2. /\ lo \in Nat /\ nlo \in Nat /\ nhi \in Nat /\ hi \in Nat /\ end \in Nat
      /\ hi + nhi = end /\ hi <= end /\ lo <= hi /\ end <= NLines
      /\ nlo + nhi = NodeLines[n]
  <2>1. /\ NodeLines[n] \in Nat /\ NodeStart[n] \in Nat /\ Half(n) \in Nat
        /\ Half(n) <= NodeLines[n] /\ NodeStart[n] + NodeLines[n] <= NLines
    BY Numbers, WithinArea
  <2> QED
    BY <2>1
<1>3. \A c \in scratch : c \in Nat /\ In(c, 1, n) /\ NLines <= c
  <2> SUFFICES ASSUME NEW c \in scratch
               PROVE  c \in Nat /\ In(c, 1, n) /\ NLines <= c
    OBVIOUS
  <2>1. Temp(n) = NLines + lo
    BY DEF Temp
  <2>2. In(c, 1, n) <=> lo <= c - 1 * NLines /\ c - 1 * NLines < lo + NodeLines[n]
    BY DEF In, Within, Stop
  <2> DEFINE q == nlo \div 2
             r == nhi \div 2
  <2>3. q \in Nat /\ r \in Nat /\ q <= nlo /\ r <= nhi
    BY <1>2
  <2>4. c \in Temp(n) .. tempHi - 1 \/ c \in tempHi .. tempHi + r - 1
    OBVIOUS
  <2> DEFINE v == tempHi
  <2>7. v = NLines + lo + q
    BY <2>1
  <2> HIDE DEF lo, nlo, nhi, q, r, scratch, v
  <2>8. c \in NLines + lo .. v - 1 \/ c \in v .. v + r - 1
    BY <2>1, <2>4 DEF v
  <2>5. c \in Nat /\ NLines + lo <= c /\ c < NLines + lo + q + r
    BY <1>2, <2>3, <2>7, <2>8
  <2>6. c - NLines < lo + NodeLines[n]
    BY <1>2, <2>3, <2>5
  <2> QED
    BY <1>2, <2>2, <2>5, <2>6
<1> HIDE DEF lo, nlo, nhi, hi, end, scratch, loLines, hiLines, tempHi
<1>4. ASSUME NEW c \in Cells
      PROVE  /\ c \in lo .. hi - 1 => mem'[c] = Nth(loLines, c - lo + 1)
             /\ c \in hi .. end - 1 => mem'[c] = Nth(hiLines, c - hi + 1)
             /\ c \in lo .. end - 1 \/ c \in scratch \/ mem'[c] = mem[c]
  <2>1. /\ c \in lo .. hi - 1 => c \notin hi .. end - 1 /\ c \notin scratch
        /\ c \in hi .. end - 1 => c \notin lo .. hi - 1 /\ c \notin scratch
        /\ c \notin lo .. end - 1 => c \notin lo .. hi - 1 /\ c \notin hi .. end - 1
    <3>1. c \in lo .. hi - 1 => c \notin hi .. end - 1 /\ c \notin scratch
      BY <1>2, <1>3
    <3>2. c \in hi .. end - 1 => c \notin lo .. hi - 1 /\ c \notin scratch
      BY <1>2, <1>3
    <3>3. c \notin lo .. end - 1 => c \notin lo .. hi - 1 /\ c \notin hi .. end - 1
      BY <1>2
    <3> QED
      BY <3>1, <3>2, <3>3
  <2> DEFINE inLo == c \in lo .. hi - 1
             inHi == c \in hi .. end - 1
             inScratch == c \in scratch
  <2>2. mem'[c] = CASE inLo      -> Nth(loLines, c - lo + 1)
                    [] inHi      -> Nth(hiLines, c - hi + 1)
                    [] inScratch -> Junk
                    [] OTHER     -> mem[c]
    BY <1>1, <1>2
  <2>3. /\ inLo => ~inHi /\ ~inScratch
        /\ inHi => ~inLo /\ ~inScratch
    BY <2>1
  <2>4. /\ inLo => mem'[c] = Nth(loLines, c - lo + 1)
        /\ inHi => mem'[c] = Nth(hiLines, c - hi + 1)
        /\ ~inLo /\ ~inHi /\ ~inScratch => mem'[c] = mem[c]
    <3> HIDE DEF inLo, inHi, inScratch
    <3> QED
      BY <2>2, <2>3
  <2> QED
    BY <2>1, <2>4
<1>5. hiLines = LinesOf(hi .. end - 1)
  BY <1>2 DEF hiLines
<1> QED
  BY <1>3, <1>4, <1>5 DEF lo, hi, end, nlo, loLines

\* The lines that the thread had to sort are available to the leaf.
LEMMA SortLeafMoves ==
  ASSUME Facts, Layout, NEW t \in Threads, SortLeaf(t), NEW n \in Nodes, n = at[t]
  PROVE  /\ Available(n) = {} /\ Available(n)' = Unsorted(t) /\ Unsorted(t)' = {}
         /\ \A m \in Nodes : m # n => Available(m)' = Available(m)
         /\ \A u \in Threads : u # t => Unsorted(u)' = Unsorted(u)
         /\ \A u \in Threads : InFlight(u)' = InFlight(u)
<1>0. n = at[t]
  OBVIOUS
<1> DEFINE lo == NodeStart[n]
           hi == lo + Half(n)
           end == lo + NodeLines[n]
<1>1. /\ pc[t] = "leaf" /\ pc'[t] = "insert" /\ node[n] = InitNode(n)
      /\ \A u \in Threads : u # t => pc'[u] = pc[u]
      /\ \A m \in Nodes : m # n => node'[m] = node[m]
      /\ node'[n].lo = lo /\ node'[n].endLo = hi /\ node'[n].hi = hi /\ node'[n].endHi = end
      /\ UNCHANGED <<at, loc>>
  BY <1>0, SortLeafNode DEF SortLeaf
<1>2. Available(n) = {} /\ Unsorted(t) = lo .. end - 1 /\ Unsorted(t)' = {}
  <2>1. /\ node[n].lo = Base(n) /\ node[n].endLo = Base(n)
        /\ node[n].hi = Base(n) + Half(n) /\ node[n].endHi = Base(n) + Half(n)
        /\ Base(n) \in Nat /\ Half(n) \in Nat
    BY <1>1, AsInit, Starts, Numbers
  <2>2. Available(n) = {}
    BY <2>1 DEF Available
  <2>3. Unsorted(t) = lo .. end - 1
    <3>1. Unsorted(t) = NodeStart[at[t]] .. NodeStart[at[t]] + NodeLines[at[t]] - 1
      BY <1>1 DEF Unsorted
    <3>2. NodeStart[at[t]] + NodeLines[at[t]] - 1 = end - 1
      BY <1>0, Numbers
    <3> QED
      BY <1>0, <3>1, <3>2
  <2>4. Unsorted(t)' = {}
    BY <1>1 DEF Unsorted
  <2> QED
    BY <2>2, <2>3, <2>4
<1>3. Available(n)' = Unsorted(t)
  <2>1. lo \in Nat /\ hi \in Nat /\ end \in Nat /\ lo <= hi /\ hi <= end
    <3>1. NodeStart[n] \in Nat /\ Half(n) \in Nat /\ NodeLines[n] \in Nat /\ Half(n) <= NodeLines[n]
      BY Numbers
    <3> QED
      BY <3>1
  <2>2. Available(n)' = (lo .. hi - 1) \cup (hi .. end - 1)
    BY <1>1 DEF Available
  <2> HIDE DEF lo, hi, end
  <2>3. lo .. end - 1 = (lo .. hi - 1) \cup (hi .. end - 1)
    BY <2>1
  <2> QED
    BY <1>2, <2>2, <2>3
<1>4. \A m \in Nodes : m # n => Available(m)' = Available(m)
  BY <1>1 DEF Available
<1>5. \A u \in Threads : u # t => Unsorted(u)' = Unsorted(u)
  BY <1>1 DEF Unsorted
<1>6. ASSUME NEW u \in Threads PROVE InFlight(u)' = InFlight(u)
  <2>1. (Working(u)' <=> Working(u)) /\ at'[u] = at[u] /\ loc'[u].dest = loc[u].dest
    <3>1. Working(u)' <=> Working(u)
      <4>1. CASE u = t
        BY <1>1, <4>1 DEF Working
      <4>2. CASE u # t
        BY <1>1, <4>2 DEF Working
      <4> QED
        BY <4>1, <4>2
    <3> QED
      BY <1>1, <3>1
  <2>2. ASSUME Working(u), at[u] # Root PROVE Dest(at[u])' = Dest(at[u])
    <3>1. PICK m \in Nodes : m = at[u]
      BY <2>2, WorksOnNode
    <3>2. /\ Parent(m) \in Nodes /\ Under(Parent(m), m) /\ ~Sorted(Parent(m))
      BY <2>2, <3>1, ChildShare, InDest DEF Strictly
    <3>3. Parent(m) # n
      <4> SUFFICES ASSUME Parent(m) = n PROVE FALSE
        OBVIOUS
      <4>1. Under(at[t], at[u]) /\ Descending(t) /\ pc[u] # "idle" /\ u # t
        BY <1>0, <1>1, <2>2, <3>1, <3>2 DEF Descending, Working
      <4> QED
        BY <3>1, <4>1, FreshAlone
    <3>4. Dest(m)' = Dest(m)
      BY <1>1, <3>2, <3>3 DEF Dest
    <3> QED
      BY <2>1, <3>1, <3>4
  <2> QED
    BY <2>1, <2>2, SameInFlight
<1> QED
  BY <1>2, <1>3, <1>4, <1>5, <1>6

LEMMA SortLeafLive ==
  ASSUME Facts, Layout, NEW t \in Threads, SortLeaf(t)
  PROVE  LiveCells' = LiveCells
<1>0. PICK n \in Nodes : n = at[t]
  BY SortLeafNode
<1>2. Available(n) = {} /\ Available(n)' = Unsorted(t) /\ Unsorted(t)' = {}
  BY <1>0, SortLeafMoves
<1>4. \A m \in Nodes : m # n => Available(m)' = Available(m)
  BY <1>0, SortLeafMoves
<1>5. \A u \in Threads : u # t => Unsorted(u)' = Unsorted(u)
  BY <1>0, SortLeafMoves
<1>6. \A u \in Threads : InFlight(u)' = InFlight(u)
  BY SortLeafNode, SortLeafMoves
<1> SUFFICES ASSUME NEW c PROVE c \in LiveCells' <=> c \in LiveCells
  OBVIOUS
<1>7. (\E m \in Nodes : c \in Available(m)') <=>
        (\E m \in Nodes : c \in Available(m)) \/ c \in Unsorted(t)
  BY <1>2, <1>4
<1>8. (\E u \in Threads : c \in Unsorted(u)) <=>
        (\E u \in Threads : c \in Unsorted(u)') \/ c \in Unsorted(t)
  BY <1>2, <1>5
<1> QED
  BY <1>6, <1>7, <1>8, LiveCell, LiveCellNext

\* Each half of the leaf's cells gets its own lines in order, the others keep theirs.
LEMMA SortLeafHalves ==
  ASSUME Facts, Layout, Conserved, NEW t \in Threads, SortLeaf(t), NEW n \in Nodes, n = at[t]
  PROVE  LET lo == NodeStart[n]
             hi == lo + Half(n)
             end == lo + NodeLines[n]
             A == lo .. end - 1
             B == lo .. hi - 1
             C == hi .. end - 1
         IN /\ lo \in Nat /\ hi \in Nat /\ end \in Nat /\ lo <= hi /\ hi <= end
            /\ A = Unsorted(t) /\ A \subseteq LiveCells /\ A = B \cup C
            /\ OneEach(A) /\ OneEach(B) /\ OneEach(C)
            /\ \A c \in B : mem'[c] = Nth(LinesOf(B), c - lo + 1)
            /\ \A c \in C : mem'[c] = Nth(LinesOf(C), c - hi + 1)
            /\ \A c \in LiveCells \ A : mem'[c] = mem[c]
            /\ \A c \in B : \E d \in B : mem'[c] = mem[d]
            /\ \A d \in B : \E c \in B : mem'[c] = mem[d]
            /\ \A c, d \in B : mem'[c] = mem'[d] => c = d
            /\ \A c \in C : \E d \in C : mem'[c] = mem[d]
            /\ \A d \in C : \E c \in C : mem'[c] = mem[d]
            /\ \A c, d \in C : mem'[c] = mem'[d] => c = d
<1>0. n = at[t]
  OBVIOUS
<1> DEFINE lo == NodeStart[n]
           hi == lo + Half(n)
           end == lo + NodeLines[n]
           A == lo .. end - 1
           B == lo .. hi - 1
           C == hi .. end - 1
<1>1. lo \in Nat /\ hi \in Nat /\ end \in Nat /\ lo <= hi /\ hi <= end
  <2>1. NodeStart[n] \in Nat /\ Half(n) \in Nat /\ NodeLines[n] \in Nat /\ Half(n) <= NodeLines[n]
    BY Numbers
  <2> QED
    BY <2>1
<1>2. A = Unsorted(t) /\ A \subseteq LiveCells
  <2>1. pc[t] = "leaf"
    BY DEF SortLeaf
  <2>2. A = Unsorted(t)
    <3>1. Unsorted(t) = NodeStart[at[t]] .. NodeStart[at[t]] + NodeLines[at[t]] - 1
      BY <2>1 DEF Unsorted
    <3>2. NodeStart[at[t]] + NodeLines[at[t]] - 1 = end - 1
      BY <1>0, Numbers
    <3> QED
      BY <1>0, <3>1, <3>2
  <2>3. \A c \in Unsorted(t) : c \in LiveCells
    BY LiveCell
  <2> QED
    BY <2>2, <2>3
<1>3. A = B \cup C /\ B \cap C = {}
  <2> HIDE DEF lo, hi, end
  <2> QED
    BY <1>1
<1>4. /\ \A c \in B : mem'[c] = Nth(LinesOf(B), c - lo + 1)
      /\ \A c \in C : mem'[c] = Nth(LinesOf(C), c - hi + 1)
      /\ \A c \in LiveCells \ A : mem'[c] = mem[c]
  <2>1. LiveCells \subseteq Cells
    BY LiveCellsAreCells
  <2>2. /\ \A c \in Cells : c \in B => mem'[c] = Nth(LinesOf(B), c - lo + 1)
        /\ \A c \in Cells : c \in C => mem'[c] = Nth(LinesOf(C), c - hi + 1)
        /\ \A c \in Cells : \/ c \in A
                            \/ c \in Nat /\ In(c, 1, n)
                            \/ mem'[c] = mem[c]
    BY <1>0, SortLeafCells
  <2>3. \A c \in Nat : In(c, 1, n) => c \notin LiveCells
    BY <1>0, ScratchIsFree DEF SortLeaf
  <2> HIDE DEF A, B, C, lo, hi
  <2> QED
    BY <1>2, <1>3, <2>1, <2>2, <2>3
<1> HIDE DEF lo, hi, end, A
<1>5. OneEach(B) /\ OneEach(C) /\ OneEach(A)
  <2> HIDE DEF B, C
  <2> QED
    BY <1>2, <1>3 DEF Conserved, OneEach
<1>6. /\ \A c \in B : \E d \in B : mem'[c] = mem[d]
      /\ \A d \in B : \E c \in B : mem'[c] = mem[d]
      /\ \A c, d \in B : mem'[c] = mem'[d] => c = d
  <2>1. lo \in Int /\ hi \in Int /\ TypeOK
    BY <1>1 DEF Facts
  <2>2. \A c \in B : \E d \in B : Nth(LinesOf(B), c - lo + 1) = mem[d]
    BY <1>5, <2>1, SortsRange
  <2>3. \A d \in B : \E c \in B : Nth(LinesOf(B), c - lo + 1) = mem[d]
    BY <1>5, <2>1, SortsRange
  <2>4. \A c, d \in B : Nth(LinesOf(B), c - lo + 1) = Nth(LinesOf(B), d - lo + 1) => c = d
    BY <1>5, <2>1, SortsRange
  <2> HIDE DEF B
  <2> QED
    BY <1>4, <2>2, <2>3, <2>4
<1>7. /\ \A c \in C : \E d \in C : mem'[c] = mem[d]
      /\ \A d \in C : \E c \in C : mem'[c] = mem[d]
      /\ \A c, d \in C : mem'[c] = mem'[d] => c = d
  <2>1. hi \in Int /\ end \in Int /\ TypeOK
    BY <1>1 DEF Facts
  <2>2. \A c \in C : \E d \in C : Nth(LinesOf(C), c - hi + 1) = mem[d]
    BY <1>5, <2>1, SortsRange
  <2>3. \A d \in C : \E c \in C : Nth(LinesOf(C), c - hi + 1) = mem[d]
    BY <1>5, <2>1, SortsRange
  <2>4. \A c, d \in C : Nth(LinesOf(C), c - hi + 1) = Nth(LinesOf(C), d - hi + 1) => c = d
    BY <1>5, <2>1, SortsRange
  <2> HIDE DEF C
  <2> QED
    BY <1>4, <2>2, <2>3, <2>4
<1> QED
  BY <1>1, <1>2, <1>3, <1>4, <1>5, <1>6, <1>7 DEF A, lo, hi, end

LEMMA SortLeafConserved ==
  ASSUME Facts, Layout, Conserved, NEW t \in Threads, SortLeaf(t)
  PROVE  Conserved'
<1>0. PICK n \in Nodes : n = at[t]
  BY SortLeafNode
<1> DEFINE lo == NodeStart[n]
           hi == lo + Half(n)
           end == lo + NodeLines[n]
           A == lo .. end - 1
           B == lo .. hi - 1
           C == hi .. end - 1
<1>2. A \subseteq LiveCells
  BY <1>0, SortLeafHalves
<1>3. A = B \cup C
  BY <1>0, SortLeafHalves
<1>4. \A c \in LiveCells \ A : mem'[c] = mem[c]
  BY <1>0, SortLeafHalves
<1>5. OneEach(A)
  BY <1>0, SortLeafHalves
<1>6. /\ \A c \in B : \E d \in B : mem'[c] = mem[d]
      /\ \A d \in B : \E c \in B : mem'[c] = mem[d]
      /\ \A c, d \in B : mem'[c] = mem'[d] => c = d
  BY <1>0, SortLeafHalves
<1>7. /\ \A c \in C : \E d \in C : mem'[c] = mem[d]
      /\ \A d \in C : \E c \in C : mem'[c] = mem[d]
      /\ \A c, d \in C : mem'[c] = mem'[d] => c = d
  BY <1>0, SortLeafHalves
<1>12. \A e \in B, f \in C : e # f
  <2>1. NodeStart[n] \in Nat /\ Half(n) \in Nat /\ NodeLines[n] \in Nat
    BY Numbers
  <2>2. lo \in Int /\ hi \in Int /\ end \in Int
    BY <2>1
  <2> HIDE DEF lo, hi, end
  <2> QED
    BY <2>2
<1> HIDE DEF lo, hi, end, A, B, C
<1>8. \A c \in A : \E d \in A : mem'[c] = mem[d]
  BY <1>3, <1>6, <1>7
<1>9. \A d \in A : \E c \in A : mem'[c] = mem[d]
  BY <1>3, <1>6, <1>7
<1>10. \A c, d \in A : mem'[c] = mem'[d] => c = d
  <2>1. ASSUME NEW c \in B, NEW d \in C PROVE mem'[c] # mem'[d]
    <3>1. PICK e \in B : mem'[c] = mem[e]
      BY <1>6
    <3>2. PICK f \in C : mem'[d] = mem[f]
      BY <1>7
    <3>3. e # f /\ e \in A /\ f \in A
      BY <1>3, <1>12
    <3> QED
      BY <1>5, <3>1, <3>2, <3>3 DEF OneEach
  <2> QED
    BY <1>3, <1>6, <1>7, <2>1
<1>11. LiveCells' = LiveCells /\ UNCHANGED <<input, out>>
  BY SortLeafLive DEF SortLeaf
<1> QED
  BY <1>2, <1>4, <1>8, <1>9, <1>10, <1>11, PermuteConserved

-----------------------------------------------------------------------------
(* Every step conserves the lines.                                         *)

LEMMA InitConserved == Init => Conserved
<1> SUFFICES ASSUME Init PROVE Conserved
  OBVIOUS
<1>1. /\ mem = [a \in Cells |-> IF a < NLines THEN <<input[a + 1], a + 1>> ELSE Junk]
      /\ out = << >> /\ \A n \in Nodes : node[n] = InitNode(n)
      /\ \A t \in Threads : pc[t] = (IF t = Main THEN "call" ELSE "idle") /\ at[t] = t
  BY DEF Init
<1>2. ASSUME NEW n \in Nodes PROVE Available(n) = {}
  <2>1. /\ node[n].lo = Base(n) /\ node[n].endLo = Base(n)
        /\ node[n].hi = Base(n) + Half(n) /\ node[n].endHi = Base(n) + Half(n)
        /\ Base(n) \in Nat /\ Half(n) \in Nat
    BY <1>1, AsInit, Starts, Numbers
  <2> QED
    BY <2>1 DEF Available
<1>3. \A u \in Threads : InFlight(u) = {}
  BY <1>1 DEF InFlight
<1>4. Unsorted(Main) = 0 .. NLines - 1
  <2>1. NodeStart[Root] = 0 /\ NodeLines[Root] = NLines /\ pc[Main] = "call" /\ at[Main] = Root
    BY <1>1, TreeAssumption, RootIsNode DEF Main
  <2>2. Unsorted(Main) = NodeStart[Root] .. NodeStart[Root] + NodeLines[Root] - 1
    BY <2>1 DEF Unsorted
  <2>3. NodeStart[Root] + NodeLines[Root] - 1 = NLines - 1
    BY <2>1
  <2> QED
    BY <2>1, <2>2, <2>3
<1>5. \A u \in Threads : u # Main => Unsorted(u) = {}
  BY <1>1 DEF Unsorted
<1>6. LiveCells = 0 .. NLines - 1
  <2>1. \A c : c \in LiveCells <=> c \in 0 .. NLines - 1
    BY <1>2, <1>3, <1>4, <1>5, LiveCell, RootIsNode
  <2> QED
    BY <2>1
<1>7. LiveCells \subseteq Cells
  <2> SUFFICES ASSUME NEW c \in 0 .. NLines - 1 PROVE c \in Cells
    BY <1>6
  <2>1. In(c, 0, Root)
    BY TreeAssumption DEF In, Within, Stop
  <2> QED
    BY <2>1, RootIsNode, InCells
<1>8. \A c \in LiveCells : mem[c] = InputLine(c + 1) /\ c + 1 \in 1 .. NLines /\ c \in Nat
  BY <1>1, <1>6, <1>7 DEF InputLine
<1>9. OneEach(LiveCells)
  <2>1. \A c \in LiveCells : mem[c] \in InputLines
    BY <1>8 DEF InputLines
  <2>2. ASSUME NEW c \in LiveCells, NEW d \in LiveCells, mem[c] = mem[d] PROVE c = d
    <3>1. c + 1 = d + 1
      BY <1>8, <2>2 DEF InputLine
    <3> QED
      BY <1>8, <3>1
  <2> QED
    BY <1>7, <2>1, <2>2 DEF OneEach
<1>10. Written = {}
  BY <1>1 DEF Written
<1>11. \A l \in InputLines : \E c \in LiveCells : mem[c] = l
  <2> SUFFICES ASSUME NEW i \in 1 .. NLines PROVE \E c \in LiveCells : mem[c] = InputLine(i)
    BY DEF InputLines
  <2>1. i - 1 \in LiveCells /\ (i - 1) + 1 = i
    BY <1>6
  <2> QED
    BY <1>8, <2>1
<1> QED
  BY <1>9, <1>10, <1>11 DEF Conserved

LEMMA StepEffects ==
  ASSUME Facts, Layout, [Next]_vars
  PROVE  \/ Unmoved
         \/ \E t \in Threads : (\E src \in Nat : Takes(t, src)) \/ SortLeaf(t) \/ Publish(t)
<1>1. CASE UNCHANGED vars
  <2>1. UNCHANGED <<input, mem, out, node, pc, at, loc>>
    BY <1>1 DEF vars
  <2>2. /\ \A n \in Nodes : Available(n)' = Available(n)
        /\ \A u \in Threads : InFlight(u)' = InFlight(u) /\ Unsorted(u)' = Unsorted(u)
    BY <2>1 DEF Available, InFlight, Unsorted, Dest
  <2> QED
    BY <2>1, <2>2 DEF Unmoved
<1>2. ASSUME NEW t \in Threads, Step(t) \/ SpuriousWakeup(t)
      PROVE  \/ Unmoved
             \/ (\E src \in Nat : Takes(t, src)) \/ SortLeaf(t) \/ Publish(t)
  <2>1. CASE Quiet(t)
    BY <2>1, QuietUnmoved
  <2>2. CASE MergeLine(t) \/ DrainLine(t)
    BY <2>2, TakeEffect
  <2>3. CASE LockNode(t) /\ at[t] # End
    BY <2>3, LockUnmoved
  <2>4. CASE Split(t)
    BY <2>4, SplitUnmoved
  <2> QED
    BY <1>2, <2>1, <2>2, <2>3, <2>4, StepKinds DEF Moving
<1> QED
  BY <1>1, <1>2 DEF Next, Finished

LEMMA ConservedStep ==
  ASSUME Facts, Layout, Conserved, [Next]_vars
  PROVE  Conserved'
BY StepEffects, UnmovedConserved, TakeConserved, SortLeafConserved, PublishConserved

LEMMA ConservedLines ==
  ASSUME Facts, Layout, Conserved
  PROVE  LinesConserved
<1> DEFINE live == { Cell(c) : c \in LiveCells }
           f == [c \in LiveCells |-> mem[c]]
<1>1. \A c \in LiveCells : Cell(c) = mem[c]
  BY LiveCellsAreCells DEF Cell
<1>2. live = { mem[c] : c \in LiveCells }
  BY <1>1
<1>3. f \in Bijection(LiveCells, live)
  <2>1. f \in [LiveCells -> live]
    BY <1>2
  <2>2. \A c, d \in LiveCells : f[c] = f[d] => c = d
    BY DEF Conserved, OneEach
  <2>3. \A x \in live : \E c \in LiveCells : f[c] = x
    BY <1>2
  <2> QED
    BY <2>1, <2>2, <2>3, Fun_IsBij
<1>4. IsFiniteSet(LiveCells)
  <2>1. IsFiniteSet(Cells)
    <3> DEFINE k == IF NThreads > 1 THEN Areas * NLines ELSE (3 * NLines) \div 2
    <3>1. k \in Nat
      BY TreeAssumption, AreaNumber
    <3>2. Cells = 0 .. k - 1
      BY DEF Cells
    <3> HIDE DEF k
    <3> QED
      BY <3>1, <3>2, FS_Interval
  <2> QED
    BY <2>1, LiveCellsAreCells, FS_Subset
<1>5. Cardinality(live) = Cardinality(LiveCells)
  BY <1>3, <1>4, FS_Bijection DEF ExistsBijection
<1>6. live \cap Written = {} /\ live \cup Written \subseteq InputLines
  BY <1>2 DEF Conserved, OneEach
<1>7. \A l \in InputLines \ (live \cup Written) : Unique /\ \E m \in Written : m[1] = l[1]
  BY <1>2 DEF Conserved
<1> HIDE DEF live
<1> QED
  BY <1>5, <1>6, <1>7 DEF LinesConserved, live

-----------------------------------------------------------------------------

\* However the threads interleave, every line of the input is in exactly one cell that
\* still counts or in the output, but for the equal ones that -u drops: no merge stores
\* over a line that is still needed, none is read twice, and no leaf's scratch space
\* holds one (init_node, sortlines, mergelines_node, write_unique).
THEOREM Conservation == Spec => []LinesConserved
<1>1. Facts /\ Layout /\ Conserved /\ [Next]_vars => Layout' /\ Conserved'
  BY LayoutStep, ConservedStep
<1>2. Facts /\ Layout /\ Conserved => LinesConserved
  BY ConservedLines
<1>3. Spec => []Facts
  BY Invariance DEF Facts
<1> QED
  BY InitLayout, InitConserved, <1>1, <1>2, <1>3, PTL DEF Spec
================================================================================
