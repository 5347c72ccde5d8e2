---------------------------- MODULE MCTailFollow ----------------------------
(* One or two operands, the name of a rotated log, and the command lines. *)
EXTENDS TailFollow, TLC

CONSTANTS a, b, log1, i1, i2, i3

TwoFiles == <<a, b>>
Rotation == {<<a, log1>>, <<log1, a>>, <<a, b>>}

\* Both operands are files, or one is a directory, which may become something else
\* before tail looks at it.
StartDirs ==
  { (a :> i1) @@ (b :> o) @@ (log1 :> "none") : o \in {i2, "directory"} }

Line(follow, retry, pid, ino) ==
  [follow |-> follow, retry |-> retry, pid |-> pid, inotify |-> ino]

Lines ==
  { Line("name", TRUE, FALSE, TRUE), Line("name", FALSE, FALSE, TRUE),
    Line("name", TRUE, FALSE, FALSE), Line("descriptor", FALSE, TRUE, TRUE),
    Line("descriptor", TRUE, TRUE, FALSE), Line("descriptor", FALSE, TRUE, FALSE) }

\* tail -F
FollowName == { Line("name", TRUE, FALSE, TRUE) }
=============================================================================
