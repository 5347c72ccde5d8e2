------------------------------- MODULE MCCopyMove -------------------------------
(* Small disks and command lines for CopyMove.                             *)
EXTENDS CopyMove, TLC

N(d, b) == [dir |-> d, base |-> b, sfx |-> << >>]
One(k) == << 1, k >>
Two(k) == << 2, k >>
MCInodes == {One(k) : k \in 1 .. 6} \cup {Two(k) : k \in 1 .. 4}
MCDevice == [d \in {".", "a", "b", "c"} |-> 1] @@ ("z" :> 2)
MCFaults == {"rename", "open", "create", "write", "link", "unlink", "remove"}

(* Sources: a/f and b/f are two files, b/g is a link to a/f.               *)
Sources == (N("a", "f") :> One(1)) @@ (N("b", "f") :> One(2)) @@ (N("b", "g") :> One(1))

(* What is in the target directory d: nothing, two files, one file twice,  *)
(* a file and a numbered backup of it, a link to a source.                 *)
On(d, k) == << MCDevice[d], k >>
Targeted(d) ==
  { << >>,
    (N(d, "f") :> On(d, 3)) @@ (N(d, "g") :> On(d, 4)),
    (N(d, "f") :> On(d, 3)) @@ (N(d, "g") :> On(d, 3)),
    (N(d, "f") :> On(d, 3)) @@ (Suffixed(N(d, "f"), 1) :> On(d, 4)) }
  \cup IF d = "c" THEN {N(d, "f") :> One(1), N(d, "g") :> One(2)} ELSE {}

Plain == [move |-> FALSE, from |-> << >>, to |-> NoName, backup |-> "none",
          keep |-> FALSE, update |-> FALSE, force |-> FALSE, preserve |-> FALSE,
          deref |-> TRUE, link |-> FALSE, removeFirst |-> FALSE]
Mv == [Plain EXCEPT !.move = TRUE, !.preserve = TRUE, !.deref = FALSE]
CpD == [Plain EXCEPT !.preserve = TRUE, !.deref = FALSE]   \* cp -d
CpL == [Plain EXCEPT !.preserve = TRUE]     \* cp --preserve=links

Methods == {"none", "simple", "existing", "numbered"}
Moving == {[Mv EXCEPT !.backup = m] : m \in Methods}
          \cup {[Mv EXCEPT !.keep = TRUE], [Mv EXCEPT !.update = TRUE]}
Copying == UNION {{[c EXCEPT !.backup = m] : m \in Methods}
                  \cup {[c EXCEPT !.force = TRUE], [c EXCEPT !.removeFirst = TRUE]}
                  : c \in {CpD, CpL}}
           \cup {[CpD EXCEPT !.update = TRUE], [CpD EXCEPT !.keep = TRUE],
                 [Mv EXCEPT !.force = TRUE],
                 [Plain EXCEPT !.link = TRUE], [Plain EXCEPT !.link = TRUE, !.force = TRUE]}

(* Into a directory.  Links are left out where the same base name is       *)
(* copied to twice (see the README).                                       *)
Lists == { << N("a", "f"), N("b", "f") >>,
           << N("a", "f"), N("b", "g") >>, << N("b", "f"), N("b", "g") >>,
           << N("b", "f"), N("a", "f"), N("b", "g") >>,
           << N("a", "f"), N("a", "f") >> }
IntoDirectory(d) ==
  {[dir |-> Sources @@ t,
    cmd |-> (1 :> [c EXCEPT !.from = l, !.to = N(d, "")])] :
     c \in Moving \cup Copying, l \in Lists, t \in Targeted(d)}

(* To a name: another file, a link to the source, the file of which the    *)
(* source is the backup, and a file that is linked to its backup.          *)
Pairs ==
  { [dir |-> (N("a", "f") :> One(1)) @@ (N("c", "g") :> One(3)),
     from |-> N("a", "f"), to |-> N("c", "g")],
    [dir |-> (N("a", "f") :> One(1)) @@ (N("c", "g") :> One(1)),
     from |-> N("a", "f"), to |-> N("c", "g")],
    [dir |-> (N("c", "f") :> One(1)) @@ (Suffixed(N("c", "f"), 0) :> One(2)),
     from |-> Suffixed(N("c", "f"), 0), to |-> N("c", "f")],
    [dir |-> (N("a", "f") :> One(1)) @@ (N("c", "f") :> One(3))
             @@ (Suffixed(N("c", "f"), 0) :> One(3)),
     from |-> N("a", "f"), to |-> N("c", "f")],
    [dir |-> (N("a", "f") :> One(1)) @@ (N("z", "g") :> Two(3)),
     from |-> N("a", "f"), to |-> N("z", "g")] }
ToName == {[dir |-> q.dir, cmd |-> (1 :> [c EXCEPT !.from = << q.from >>, !.to = q.to])] :
             c \in Moving \cup Copying, q \in Pairs}

(* Two processes with the same destination.                                *)
Together(c, t) == [dir |-> Sources @@ t,
                   cmd |-> (1 :> [c EXCEPT !.from = << N("a", "f") >>, !.to = N("c", "f")])
                           @@ (2 :> [c EXCEPT !.from = << N("b", "f") >>, !.to = N("c", "f")])]
InPairs == {Together([Mv EXCEPT !.keep = TRUE], << >>),
            Together([Plain EXCEPT !.keep = TRUE], << >>),
            Together([Plain EXCEPT !.backup = "numbered"], N("c", "f") :> One(3))}

(* The destination of one process is the source of the other: it vanishes  *)
(* after the first rename has met it.                                      *)
Racing == {[dir |-> Sources @@ (N("c", "f") :> One(3)),
            cmd |-> (1 :> [Mv EXCEPT !.from = << N("a", "f") >>, !.to = N("c", "f"),
                                     !.backup = "numbered", !.update = u])
                    @@ (2 :> [Mv EXCEPT !.from = << N("c", "f") >>, !.to = N("c", "h")])] :
             u \in BOOLEAN}

MCCases == IntoDirectory("c") \cup IntoDirectory("z") \cup ToName \cup InPairs \cup Racing

(* Command lines that the documentation covers and the code gets wrong.    *)
Relinked == {[dir |-> Sources,
              cmd |-> (1 :> [CpD EXCEPT !.backup = "numbered", !.to = N("c", ""),
                                 !.from = << N("a", "f"), N("b", "f"), N("b", "g") >>])]}
SetAside == {[dir |-> Sources @@ (N("c", "f") :> One(3))
                     @@ (Suffixed(N(".", "f"), 0) :> One(4)),
              cmd |-> (1 :> [Mv EXCEPT !.backup = "simple", !.to = N("c", ""),
                                       !.from = << N("a", "f"), N("b", "g") >>])]}
=============================================================================
