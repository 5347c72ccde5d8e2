------------------------------- MODULE SeqSort -------------------------------
(***************************************************************************)
(* sequential_sort and mergelines (sort.c): the merge sort of one thread,  *)
(* in place with half as much temporary space, or into a temporary array   *)
(* of the same size.  The arrays are addressed by the number of the line,  *)
(* where sort.c counts downwards from their ends.                          *)
(***************************************************************************)
EXTENDS Naturals, Sequences, FiniteSets, TLC

CONSTANTS
  MaxLines,  \* arrays of 2..MaxLines lines are sorted
  Keys       \* of these keys

VARIABLES
  mem,     \* the cells, by address
  start,   \* the lines before the sort
  toTemp,  \* the to_temp argument
  done

vars == <<mem, start, toTemp, done>>

\* The arrays are far apart: a store beyond either end makes a cell of its own.
ArrayCells(n) == 0 .. n - 1
Temp == 1000
TempCells(n, into) == Temp .. Temp + (IF into THEN n ELSE n \div 2) - 1

\* A mutant: equal lines count as out of order.
MutLessEq(a, b) == a[1] < b[1]

\* compare() on the keys; a line also carries its place in the input.
LessEq(a, b) == a[1] <= b[1]

Put(m, a, line) == (a :> line) @@ m
PutAll(m, dest, from, n) ==
  [i \in dest .. dest + n - 1 |-> m[from + i - dest]] @@ m

\* The loop of mergelines.  When the low side runs out, the rest of the high side
\* is where it belongs; when the high side does, the low side is copied.
RECURSIVE MergeFrom(_, _, _, _, _, _)
MergeFrom(m, t, lo, hi, nlo, nhi) ==
  IF LessEq(m[lo], m[hi])
  THEN LET m1 == Put(m, t, m[lo])
       IN IF nlo = 1 THEN m1 ELSE MergeFrom(m1, t + 1, lo + 1, hi, nlo - 1, nhi)
  ELSE LET m1 == Put(m, t, m[hi])
       IN IF nhi = 1 THEN PutAll(m1, t + 1, lo, nlo)
                     ELSE MergeFrom(m1, t + 1, lo, hi + 1, nlo, nhi - 1)

MergeLines(m, t, n, lo) ==
  MergeFrom(m, t, lo, t + n \div 2, n \div 2, n - n \div 2)

\* Two lines.
SortPair(m, lines, temp, into) ==
  LET swap == ~LessEq(m[lines], m[lines + 1])
  IN CASE into /\ swap  -> Put(Put(m, temp, m[lines + 1]), temp + 1, m[lines])
       [] into /\ ~swap -> Put(Put(m, temp, m[lines]), temp + 1, m[lines + 1])
       [] ~into /\ swap -> Put(Put(Put(m, temp, m[lines]), lines, m[lines + 1]),
                               lines + 1, m[lines])
       [] OTHER         -> m

\* Where the high half goes, or has its scratch space.
HiTemp(temp, nlo, into) == IF into THEN temp + nlo ELSE temp

\* sequential_sort.  The low half goes to the other array than the high one and
\* the result, which is what halves the space.
RECURSIVE SequentialSort(_, _, _, _, _)
SequentialSort(m, lines, n, temp, into) ==
  LET nlo == n \div 2
      nhi == n - nlo
      m1 == SequentialSort(m, lines + nlo, nhi, HiTemp(temp, nlo, into), into)
      m2 == CASE nlo > 1           -> SequentialSort(m1, lines, nlo, temp, ~into)
              [] nlo = 1 /\ ~into -> Put(m1, temp, m1[lines])
              [] OTHER             -> m1
  IN IF n = 2 THEN SortPair(m, lines, temp, into)
     ELSE IF into THEN MergeLines(m2, temp, n, lines)
                  ELSE MergeLines(m2, lines, n, temp)

Init ==
  /\ \E n \in 2..MaxLines : \E keys \in [1..n -> Keys] :
       start = [i \in 1..n |-> <<keys[i], i>>]
  /\ toTemp \in BOOLEAN
  /\ mem = [a \in ArrayCells(Len(start)) \cup TempCells(Len(start), toTemp) |->
              IF a < Temp THEN start[a + 1] ELSE <<0, 0>>]
  /\ done = FALSE

\* One call, from sortlines (in place) or from itself.
Sort ==
  /\ ~done
  /\ mem' = SequentialSort(mem, 0, Len(start), Temp, toTemp)
  /\ done' = TRUE
  /\ UNCHANGED <<start, toTemp>>

Spec == Init /\ [][Sort]_vars

-----------------------------------------------------------------------------
(* Properties.                                                             *)

Before(a, b) == a[1] < b[1] \/ (a[1] = b[1] /\ a[2] < b[2])
Result == [i \in 1..Len(start) |-> mem[(IF toTemp THEN Temp ELSE 0) + i - 1]]

\* The result is the stable sort of the lines, all of them, although the halves
\* are moved back and forth between two arrays that overlap their destination.
\* Nothing is stored outside the lines and the temporary space, which is half as
\* large as the lines where the sort is in place: sortlines relies on it when it
\* gives neighbouring threads neighbouring scratch space.
SortsStably ==
  done =>
    /\ { Result[i] : i \in DOMAIN Result } = { start[i] : i \in DOMAIN start }
    /\ \A i, j \in DOMAIN Result : i < j => Before(Result[i], Result[j])
    /\ DOMAIN mem = ArrayCells(Len(start)) \cup TempCells(Len(start), toTemp)
=============================================================================
