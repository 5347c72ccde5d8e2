---------------------------- MODULE MCSortTemps ----------------------------
(* The command lines that TLC considers. *)
EXTENDS SortTemps

Sorting(n, k) ==
  [buffers |-> n, operands |-> << >>, nmerge |-> k, compress |-> FALSE, fits |-> FALSE,
   fds |-> 99, failing |-> {}, signals |-> FALSE]

\* sort -m -o FILE FILE ...: FILE is number 0.
Merging(ops, k) == [Sorting(0, k) EXCEPT !.operands = ops]

Compressed(s) == [s EXCEPT !.compress = TRUE]

\* Every way to fail, and signals.
Troubled(s) == [s EXCEPT !.failing = {"program", "fork"}, !.signals = TRUE]

\* Temporary files with a compressor and all troubles; several passes with as many
\* processes as are allowed; a short merge; too few descriptors for the passes and
\* for the last merge; operands that are the output.
Everyday ==
  { Troubled(Compressed(Sorting(4, 2))), Troubled(Compressed(Sorting(3, 3))),
    Compressed(Sorting(6, 2)),
    [Sorting(8, 3) EXCEPT !.signals = TRUE],
    [Troubled(Compressed(Merging(<<-1, 0, -2>>, 2))) EXCEPT !.failing = {"fork"}],
    Sorting(1, 2) }
  \cup { [Sorting(n, 4) EXCEPT !.fds = f, !.signals = TRUE] : n \in 4..7, f \in 3..4 }
  \cup { [Compressed(Sorting(4, 4)) EXCEPT !.fits = b, !.fds = f] : b \in BOOLEAN, f \in 4..6 }
  \cup { [Merging(ops, 3) EXCEPT !.fds = f, !.signals = TRUE] :
           ops \in {<<0, -1, 0>>, <<-1, 0, -2, 0>>, <<0, -1, 0, -2, 0>>}, f \in 3..5 }

\* sort -m --compress-program=PROG -o FILE FILE OTHER, where PROG may fail.
OwnInput == { [Compressed(Merging(<<0, -1>>, 2)) EXCEPT !.failing = {"program"}] }

\* sort -m --compress-program=PROG -o FILE FILE FILE
TwiceOwnInput == { Compressed(Merging(<<0, 0>>, 2)) }

\* Four files to merge and one descriptor too few for the pipe of the last, in which all of
\* its data would fit.
FewDescriptors == { [Compressed(Sorting(4, 4)) EXCEPT !.fits = TRUE, !.fds = 5] }
=============================================================================
