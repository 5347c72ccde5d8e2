---------------------------- MODULE VmsPipeProofs ----------------------------
(***************************************************************************)
(* Theorems about VmsPipe, for any number of messages, mailboxes of any    *)
(* size and either direction: the context is freed only when nothing is    *)
(* left that would touch it, no message is lost, doubled or overtaken on   *)
(* its way through the FIFO, and a child reads all that its parent wrote.  *)
(***************************************************************************)
EXTENDS VmsPipe, TLAPS

-----------------------------------------------------------------------------
(* The inductive invariant, on the record that the routines run on.        *)

Context ==
  [direction : {0, 1}, read : {-1, 0}, write : {0, 1}, watch : {-1, 0, 1, 2},
   knows : BOOLEAN, queue : Seq(Int), active : Int, rchan : BOOLEAN, wchan : BOOLEAN,
   reading : BOOLEAN, writing : BOOLEAN, lookup : BOOLEAN, timer : BOOLEAN,
   freed : BOOLEAN]
Ast == ({"read"} \X Int) \cup ({"write", "jpi", "timer"} \X BOOLEAN)
Types(s) == s \in [c : Context, box : Seq(Int), asts : Seq(Ast)]

\* There is no AST of the routines r in q, or at most one.
None1(q, r) == \A i \in 1 .. Len(q) : q[i][1] \notin r
Once(q, r) == \A i, j \in 1 .. Len(q) : q[i][1] \in r /\ q[j][1] \in r => i = j

\* A chain of ASTs has one AST that waits for delivery or one call under way, or
\* neither.
Chain(q, r, underWay) == Once(q, r) /\ (underWay => None1(q, r))
Ended(q, r, underWay) == None1(q, r) /\ ~underWay

Watching == {"jpi", "timer"}
NoRead(s) == Ended(s.asts, {"read"}, s.c.reading)
NoWrite(s) == Ended(s.asts, {"write"}, s.c.writing)
NoWatch(s) == Ended(s.asts, Watching, s.c.lookup \/ s.c.timer)

ReadChain(s) == Chain(s.asts, {"read"}, s.c.reading)
WriteChain(s) == Chain(s.asts, {"write"}, s.c.writing)
WatchChain(s) == Chain(s.asts, Watching, s.c.lookup \/ s.c.timer)

\* The three chains, and what the status words say of them.
Reads(s) == ReadChain(s) /\ (s.c.read < 0 => NoRead(s))
Writes(s) == WriteChain(s) /\ (s.c.write = 0 => NoWrite(s))
Watches(s) == /\ WatchChain(s)
              /\ ~ (s.c.lookup /\ s.c.timer)
              /\ s.c.watch <= 0 => NoWatch(s)

Chains(s) == Types(s) /\ Reads(s) /\ Writes(s) /\ Watches(s)
Sound(s) == Chains(s) /\ ~ s.c.freed
Untouched(s) == NoRead(s) /\ NoWrite(s) /\ NoWatch(s)
Safe(s) == Chains(s) /\ (s.c.freed => Untouched(s))

Inv == Safe(State) /\ sent \in Nat

-----------------------------------------------------------------------------
(* Sequences of ASTs.                                                      *)

LEMMA AppendOther ==
  ASSUME NEW q \in Seq(Ast), NEW a \in Ast, NEW r, a[1] \notin r
  PROVE  /\ Append(q, a) \in Seq(Ast)
         /\ None1(q, r) => None1(Append(q, a), r)
         /\ Once(q, r) => Once(Append(q, a), r)
<1>1. /\ Append(q, a) \in Seq(Ast) /\ Len(Append(q, a)) = Len(q) + 1
      /\ Append(q, a)[Len(q) + 1] = a
      /\ \A i \in 1 .. Len(q) : Append(q, a)[i] = q[i]
  OBVIOUS
<1>2. \A i \in 1 .. Len(q) + 1 : i \in 1 .. Len(q) \/ i = Len(q) + 1
  OBVIOUS
<1> QED BY <1>1, <1>2 DEF None1, Once

LEMMA AppendOne ==
  ASSUME NEW q \in Seq(Ast), NEW a \in Ast, NEW r, None1(q, r)
  PROVE  Append(q, a) \in Seq(Ast) /\ Once(Append(q, a), r)
<1>1. /\ Append(q, a) \in Seq(Ast) /\ Len(Append(q, a)) = Len(q) + 1
      /\ \A i \in 1 .. Len(q) : Append(q, a)[i] = q[i]
  OBVIOUS
<1>2. \A i \in 1 .. Len(q) + 1 : i \in 1 .. Len(q) \/ i = Len(q) + 1
  OBVIOUS
<1> QED BY <1>1, <1>2 DEF None1, Once

LEMMA TailKeeps ==
  ASSUME NEW q \in Seq(Ast), q # << >>, NEW r
  PROVE  /\ Tail(q) \in Seq(Ast)
         /\ q[1] \in Ast
         /\ None1(q, r) => None1(Tail(q), r)
         /\ Once(q, r) => Once(Tail(q), r)
         /\ Once(q, r) /\ q[1][1] \in r => None1(Tail(q), r) /\ ~ None1(q, r)
<1>1. /\ Tail(q) \in Seq(Ast) /\ Len(Tail(q)) = Len(q) - 1 /\ Len(q) >= 1
      /\ \A i \in 1 .. Len(Tail(q)) : Tail(q)[i] = q[i + 1] /\ i + 1 \in 1 .. Len(q)
      /\ q[1] \in Ast
  OBVIOUS
<1>2. \A i, j \in 1 .. Len(Tail(q)) : i + 1 = j + 1 => i = j
  BY <1>1
<1>3. \A i \in 1 .. Len(Tail(q)) : i + 1 # 1
  BY <1>1
<1>4. 1 \in 1 .. Len(q)
  BY <1>1
<1> QED BY <1>1, <1>2, <1>3, <1>4 DEF None1, Once

-----------------------------------------------------------------------------
(* The routines.                                                           *)

\* What the chains are in t, where an AST a has been added to those of s.
LEMMA AddAst ==
  ASSUME NEW s, Types(s), NEW t, Types(t), NEW a \in Ast, t.asts = Append(s.asts, a),
         t.c.reading => s.c.reading, t.c.writing => s.c.writing,
         t.c.lookup => s.c.lookup, t.c.timer => s.c.timer
  PROVE  /\ a[1] # "read" => /\ NoRead(s) => NoRead(t)
                             /\ ReadChain(s) => ReadChain(t)
         /\ a[1] # "write" => /\ NoWrite(s) => NoWrite(t)
                              /\ WriteChain(s) => WriteChain(t)
         /\ a[1] \notin Watching => /\ NoWatch(s) => NoWatch(t)
                                    /\ WatchChain(s) => WatchChain(t)
         /\ None1(s.asts, {"read"}) /\ ~ t.c.reading => ReadChain(t)
         /\ None1(s.asts, {"write"}) /\ ~ t.c.writing => WriteChain(t)
         /\ None1(s.asts, Watching) /\ ~ t.c.lookup /\ ~ t.c.timer => WatchChain(t)
<1>1. s.asts \in Seq(Ast)
  BY DEF Types
<1>5. ASSUME NEW r, a[1] \notin r
      PROVE  /\ None1(s.asts, r) => None1(t.asts, r)
             /\ Once(s.asts, r) => Once(t.asts, r)
  BY <1>1, <1>5, AppendOther
<1>6. ASSUME NEW r, None1(s.asts, r) PROVE Once(t.asts, r)
  BY <1>1, <1>6, AppendOne
<1>7. a[1] # "read" => /\ NoRead(s) => NoRead(t)
                       /\ ReadChain(s) => ReadChain(t)
  BY <1>5 DEF Chain, ReadChain, Ended, NoRead
<1>8. a[1] # "write" => /\ NoWrite(s) => NoWrite(t)
                        /\ WriteChain(s) => WriteChain(t)
  BY <1>5 DEF Chain, WriteChain, Ended, NoWrite
<1>9. a[1] \notin Watching => /\ NoWatch(s) => NoWatch(t)
                              /\ WatchChain(s) => WatchChain(t)
  BY <1>5 DEF Chain, WatchChain, Ended, NoWatch
<1>10. /\ None1(s.asts, {"read"}) /\ ~ t.c.reading => ReadChain(t)
       /\ None1(s.asts, {"write"}) /\ ~ t.c.writing => WriteChain(t)
       /\ None1(s.asts, Watching) /\ ~ t.c.lookup /\ ~ t.c.timer => WatchChain(t)
  BY <1>6 DEF Chain, ReadChain, WriteChain, WatchChain
<1> QED BY <1>7, <1>8, <1>9, <1>10

\* A change of the context that starts no call.
LEMMA SameAsts ==
  ASSUME NEW s, NEW t, t.asts = s.asts,
         t.c.reading => s.c.reading, t.c.writing => s.c.writing,
         t.c.lookup => s.c.lookup, t.c.timer => s.c.timer
  PROVE  /\ NoRead(s) => NoRead(t)
         /\ ReadChain(s) => ReadChain(t)
         /\ NoWrite(s) => NoWrite(t)
         /\ WriteChain(s) => WriteChain(t)
         /\ NoWatch(s) => NoWatch(t)
         /\ WatchChain(s) => WatchChain(t)
BY DEF Ended, Chain, NoRead, NoWrite, NoWatch, ReadChain, WriteChain, WatchChain

-----------------------------------------------------------------------------
(* The routines.                                                           *)

\* The routines leave the direction of the pipe as it is.
SameWay(s, t) == t.c.direction = s.c.direction

LEMMA QioReadSound ==
  ASSUME NEW s, Sound(s), NoRead(s), s.c.read >= 0
  PROVE  Sound(QioRead(s)) /\ SameWay(s, QioRead(s))
<1> DEFINE t == QioRead(s)
<1>0. Types(s) /\ s.c \in Context /\ s.box \in Seq(Int) /\ s.asts \in Seq(Ast)
  BY DEF Sound, Chains, Types
<1>1. s = [c |-> s.c, box |-> s.box, asts |-> s.asts]
  BY <1>0 DEF Types
<1>2. CASE s.box # << >> \/ NoWriter
  <2>1. PICK a \in {"read"} \X Int, b \in Seq(Int) :
          t = [c |-> s.c, box |-> b, asts |-> Append(s.asts, a)]
    <3>1. CASE s.box # << >>
      <4>1. Head(s.box) \in Int /\ Tail(s.box) \in Seq(Int)
        BY <1>0, <3>1
      <4>2. t = [c |-> s.c, box |-> Tail(s.box), asts |-> Append(s.asts, <<"read", Head(s.box)>>)]
        BY <1>0, <1>1, <3>1 DEF QioRead
      <4> QED BY <4>1, <4>2
    <3>2. CASE s.box = << >>
      <4>1. None \in Int
        BY DEF None
      <4>2. t = [c |-> s.c, box |-> s.box, asts |-> Append(s.asts, <<"read", None>>)]
        BY <1>0, <1>1, <1>2, <3>2 DEF QioRead
      <4> QED BY <1>0, <4>1, <4>2
    <3> QED BY <3>1, <3>2
  <2>2. a \in Ast /\ a[1] = "read"
    BY DEF Ast
  <2>3. ~ s.c.reading /\ None1(s.asts, {"read"})
    BY DEF NoRead, Ended
  <2> HIDE DEF t
  <2>4. Types(t) /\ t.c = s.c /\ t.asts = Append(s.asts, a)
    BY <1>0, <2>1, <2>2 DEF Types
  <2>5. Reads(t)
    <3>1. s.c.read \in Int
      BY <1>0 DEF Context
    <3>2. ReadChain(t)
      BY <1>0, <2>2, <2>3, <2>4, AddAst
    <3> QED BY <2>4, <3>1, <3>2 DEF Reads
  <2>6. Writes(t)
    BY <1>0, <2>2, <2>4, AddAst DEF Sound, Chains, Writes
  <2>7. Watches(t)
    BY <1>0, <2>2, <2>4, AddAst DEF Sound, Chains, Watches, Watching
  <2> QED BY <2>4, <2>5, <2>6, <2>7 DEF Sound, Chains, SameWay, t
<1>3. CASE s.box = << >> /\ ~ NoWriter
  <2>1. t = [c |-> [s.c EXCEPT !.reading = TRUE], box |-> s.box, asts |-> s.asts]
    BY <1>0, <1>1, <1>3 DEF QioRead
  <2>2. [s.c EXCEPT !.reading = TRUE] \in Context
    BY <1>0 DEF Context
  <2>3. Types(t)
    BY <1>0, <2>1, <2>2 DEF Types
  <2>4. /\ t.asts = s.asts /\ t.c.reading /\ t.c.read = s.c.read /\ t.c.freed = s.c.freed
        /\ t.c.writing = s.c.writing /\ t.c.write = s.c.write /\ t.c.watch = s.c.watch
        /\ t.c.lookup = s.c.lookup /\ t.c.timer = s.c.timer
    BY <1>0, <2>1 DEF Context
  <2>6. SameWay(s, t)
    BY <1>0, <2>1 DEF Context, SameWay
  <2> HIDE DEF t
  <2>5. Reads(t) /\ Writes(t) /\ Watches(t)
    BY <1>0, <2>4 DEF Context, Sound, Chains, Reads, Writes, Watches, ReadChain,
                      WriteChain, WatchChain, Chain, Ended, NoRead, NoWrite, NoWatch
  <2> QED BY <2>3, <2>4, <2>5, <2>6 DEF Sound, Chains, t
<1> QED BY <1>2, <1>3

LEMMA QioWriteSound ==
  ASSUME NEW s, Sound(s), NoWrite(s), s.c.write = 1
  PROVE  /\ Sound(QioWrite(s)) /\ SameWay(s, QioWrite(s))
         /\ QioWrite(s).c.read = s.c.read /\ QioWrite(s).c.watch = s.c.watch
         /\ NoRead(s) => NoRead(QioWrite(s))
<1> DEFINE t == QioWrite(s)
<1>0. Types(s) /\ s.c \in Context /\ s.box \in Seq(Int) /\ s.asts \in Seq(Ast)
  BY DEF Sound, Chains, Types
<1>1. s = [c |-> s.c, box |-> s.box, asts |-> s.asts]
  BY <1>0 DEF Types
<1>2. CASE reader
  <2>1. t = [c |-> [s.c EXCEPT !.writing = TRUE], box |-> s.box, asts |-> s.asts]
    BY <1>0, <1>1, <1>2 DEF QioWrite
  <2>5. [s.c EXCEPT !.writing = TRUE] \in Context
    BY <1>0 DEF Context
  <2>2. Types(t)
    BY <1>0, <2>1, <2>5 DEF Types
  <2>3. /\ t.asts = s.asts /\ t.c.reading = s.c.reading /\ t.c.writing /\ t.c.write = 1
        /\ t.c.lookup = s.c.lookup /\ t.c.timer = s.c.timer /\ t.c.read = s.c.read
        /\ t.c.watch = s.c.watch /\ t.c.freed = s.c.freed
        /\ t.c.direction = s.c.direction
    BY <1>0, <2>1 DEF Context
  <2> HIDE DEF t
  <2>4. Reads(t) /\ Watches(t) /\ (NoRead(s) => NoRead(t))
    BY <2>3 DEF Sound, Chains, Reads, Watches, Ended, Chain, NoRead, NoWatch, ReadChain, WatchChain
  <2>6. Writes(t)
    BY <2>3 DEF Writes, WriteChain, Chain, NoWrite, Ended, None1, Once
  <2> QED BY <2>2, <2>3, <2>4, <2>6 DEF Sound, Chains, SameWay, t
<1>3. CASE ~ reader
  <2> DEFINE a == <<"write", FALSE>>
  <2>1. t = [c |-> s.c, box |-> s.box, asts |-> Append(s.asts, a)]
    BY <1>0, <1>1, <1>3 DEF QioWrite
  <2>2. a \in Ast /\ a[1] = "write"
    BY DEF Ast
  <2> HIDE DEF a
  <2>3. Types(t) /\ t.c = s.c /\ t.asts = Append(s.asts, a)
    BY <1>0, <2>1, <2>2 DEF Types
  <2> HIDE DEF t
  <2>4. ~ t.c.writing /\ None1(s.asts, {"write"})
    BY <2>3 DEF NoWrite, Ended
  <2>5. WriteChain(t)
    BY <1>0, <2>2, <2>3, <2>4, AddAst
  <2>6. Writes(t)
    BY <2>3, <2>5 DEF Writes
  <2>7. Reads(t) /\ (NoRead(s) => NoRead(t))
    BY <1>0, <2>2, <2>3, AddAst DEF Sound, Chains, Reads
  <2>8. Watches(t)
    BY <1>0, <2>2, <2>3, AddAst DEF Sound, Chains, Watches, Watching
  <2> QED BY <2>3, <2>6, <2>7, <2>8 DEF Sound, Chains, SameWay, t
<1> QED BY <1>2, <1>3

LEMMA DeassignReadSound ==
  ASSUME NEW s, Sound(s)
  PROVE  LET t == DeassignRead(s) IN
         /\ Sound(t) /\ t.c.read = s.c.read /\ t.c.write = s.c.write
         /\ SameWay(s, t)
         /\ NoRead(s) => NoRead(t)
         /\ NoWrite(s) => NoWrite(t)
<1> DEFINE t == DeassignRead(s)
           d == [s.c EXCEPT !.rchan = FALSE, !.reading = FALSE]
           a == <<"read", None>>
<1>0. Types(s) /\ s.c \in Context /\ s.box \in Seq(Int) /\ s.asts \in Seq(Ast)
  BY DEF Sound, Chains, Types
<1>1. s = [c |-> s.c, box |-> s.box, asts |-> s.asts]
  BY <1>0 DEF Types
<1>2. /\ d \in Context /\ ~ d.reading /\ d.writing = s.c.writing /\ d.write = s.c.write
      /\ d.lookup = s.c.lookup /\ d.timer = s.c.timer /\ d.read = s.c.read
      /\ d.watch = s.c.watch /\ d.freed = s.c.freed
      /\ d.direction = s.c.direction
  BY <1>0 DEF Context
<1>3. s.c.read \in Int
  BY <1>0 DEF Context
<1>4. t = [c |-> d, box |-> s.box,
           asts |-> IF s.c.reading THEN Append(s.asts, a) ELSE s.asts]
  <2> DEFINE q == IF s.c.reading THEN Append(s.asts, a) ELSE s.asts
  <2>1. t = [s EXCEPT !.c = d, !.asts = q]
    BY DEF DeassignRead
  <2> HIDE DEF t, d, q
  <2>2. t = [c |-> d, box |-> s.box, asts |-> q]
    BY <1>1, <2>1
  <2> QED BY <2>2 DEF q
<1>5. a \in Ast /\ a[1] = "read"
  BY DEF Ast, None
<1>6. Types(t) /\ t.c = d
  BY <1>0, <1>2, <1>4, <1>5 DEF Types
<1> HIDE DEF t, d, a
<1>7. t.asts = IF s.c.reading THEN Append(s.asts, a) ELSE s.asts
  BY <1>4
<1>8. CASE s.c.reading
  <2>1. t.asts = Append(s.asts, a) /\ None1(s.asts, {"read"})
    BY <1>7, <1>8 DEF Sound, Chains, Reads, ReadChain, Chain
  <2>2. ReadChain(t)
    BY <1>0, <1>2, <1>5, <1>6, <2>1, AddAst
  <2>3. s.c.read >= 0 /\ ~ NoRead(s)
    BY <1>3, <1>8 DEF Sound, Chains, Reads, NoRead, Ended
  <2>4. Reads(t)
    BY <1>2, <1>3, <1>6, <2>2, <2>3 DEF Reads
  <2>5. Writes(t) /\ (NoWrite(s) => NoWrite(t))
    BY <1>0, <1>2, <1>5, <1>6, <2>1, AddAst DEF Sound, Chains, Writes
  <2>6. Watches(t)
    BY <1>0, <1>2, <1>5, <1>6, <2>1, AddAst DEF Sound, Chains, Watches, Watching
  <2> QED BY <1>2, <1>6, <2>3, <2>4, <2>5, <2>6 DEF Sound, Chains, SameWay, t
<1>9. CASE ~ s.c.reading
  <2>1. t.asts = s.asts
    BY <1>7, <1>9
  <2>2. Reads(t) /\ Writes(t) /\ Watches(t) /\ (NoRead(s) => NoRead(t))
        /\ (NoWrite(s) => NoWrite(t))
    BY <1>2, <1>6, <2>1, SameAsts DEF Sound, Chains, Reads, Writes, Watches
  <2> QED BY <1>2, <1>6, <2>2 DEF Sound, Chains, SameWay, t
<1> QED BY <1>8, <1>9

\* A new context, with the same ASTs.
LEMMA Update ==
  ASSUME NEW s, Types(s), NEW d \in Context
  PROVE  LET t == [s EXCEPT !.c = d] IN
         Types(t) /\ t.c = d /\ t.box = s.box /\ t.asts = s.asts
BY DEF Types

\* The status words are as the chains say.
LEMMA StatusTypes ==
  ASSUME NEW s, Types(s)
  PROVE  /\ s.c \in Context /\ s.c.read \in {-1, 0} /\ s.c.write \in {0, 1}
         /\ s.c.watch \in {-1, 0, 1, 2} /\ s.c.queue \in Seq(Int)
BY DEF Types, Context

LEMMA WriteNextSafe ==
  ASSUME NEW s, Sound(s), s.c.write = 0
  PROVE  LET t == WriteNext(s) IN
         /\ Safe(t) /\ t.c.read = s.c.read /\ t.c.watch = s.c.watch
         /\ SameWay(s, t)
         /\ s.c.read >= 0 => Sound(t)
         /\ NoRead(s) => NoRead(t)
<1> DEFINE t == WriteNext(s)
<1>0. /\ Types(s) /\ Reads(s) /\ Writes(s) /\ Watches(s) /\ ~ s.c.freed
      /\ s.c \in Context /\ s.c.read \in {-1, 0} /\ s.c.watch \in {-1, 0, 1, 2}
      /\ s.c.queue \in Seq(Int) /\ NoWrite(s)
  BY StatusTypes DEF Sound, Chains, Writes
<1>1. CASE s.c.queue # << >> /\ s.c.wchan
  <2> DEFINE d == [s.c EXCEPT !.write = 1, !.active = Head(s.c.queue),
                       !.queue = Tail(s.c.queue)]
             u == [s EXCEPT !.c = d]
  <2>1. t = QioWrite(u)
    BY <1>1 DEF WriteNext
  <2>2. Head(s.c.queue) \in Int /\ Tail(s.c.queue) \in Seq(Int)
    BY <1>0, <1>1
  <2>3. /\ d \in Context /\ d.write = 1 /\ d.read = s.c.read /\ d.watch = s.c.watch
        /\ d.reading = s.c.reading /\ d.writing = s.c.writing /\ d.lookup = s.c.lookup
        /\ d.timer = s.c.timer /\ d.freed = s.c.freed
        /\ d.direction = s.c.direction
    BY <1>0, <2>2 DEF Context
  <2> HIDE DEF d
  <2>4. Types(u) /\ u.c = d /\ u.asts = s.asts
    BY <1>0, <2>3, Update
  <2> HIDE DEF u, t
  <2>5. Sound(u) /\ NoWrite(u) /\ (NoRead(s) => NoRead(u))
    BY <1>0, <2>3, <2>4, SameAsts DEF Sound, Chains, Reads, Writes, Watches
  <2> QED BY <1>0, <2>1, <2>3, <2>4, <2>5, QioWriteSound DEF Safe, Sound, SameWay, t
<1>2. CASE s.c.queue # << >> /\ ~ s.c.wchan
  <2> DEFINE d == [s.c EXCEPT !.write = 0, !.queue = << >>]
  <2>1. t = [s EXCEPT !.c = d]
    BY <1>2 DEF WriteNext
  <2>3. /\ d \in Context /\ d.write = 0 /\ d.read = s.c.read /\ d.watch = s.c.watch
        /\ d.reading = s.c.reading /\ d.writing = s.c.writing /\ d.lookup = s.c.lookup
        /\ d.timer = s.c.timer /\ d.freed = s.c.freed
        /\ d.direction = s.c.direction
    <3>1. << >> \in Seq(Int)
      OBVIOUS
    <3> QED BY <1>0, <3>1 DEF Context
  <2> HIDE DEF d
  <2>4. Types(t) /\ t.c = d /\ t.asts = s.asts
    BY <1>0, <2>1, <2>3, Update
  <2> HIDE DEF t
  <2>5. Sound(t) /\ (NoRead(s) => NoRead(t))
    BY <1>0, <2>3, <2>4, SameAsts DEF Sound, Chains, Reads, Writes, Watches
  <2> QED BY <2>3, <2>4, <2>5 DEF Safe, Sound, SameWay, t
<1>3. CASE s.c.queue = << >> /\ s.c.read < 0
  <2> DEFINE d == [s.c EXCEPT !.wchan = FALSE, !.freed = s.c.watch <= 0]
  <2>1. t = [s EXCEPT !.c = d]
    BY <1>3 DEF WriteNext, Finish
  <2>2. (s.c.watch <= 0) \in BOOLEAN
    OBVIOUS
  <2>3. /\ d \in Context /\ d.write = s.c.write /\ d.read = s.c.read /\ d.watch = s.c.watch
        /\ d.reading = s.c.reading /\ d.writing = s.c.writing /\ d.lookup = s.c.lookup
        /\ d.timer = s.c.timer /\ (d.freed => s.c.watch <= 0)
        /\ d.direction = s.c.direction
    BY <1>0, <2>2 DEF Context
  <2> HIDE DEF d
  <2>4. Types(t) /\ t.c = d /\ t.asts = s.asts
    BY <1>0, <2>1, <2>3, Update
  <2> HIDE DEF t
  <2>5. Chains(t) /\ NoRead(t) /\ NoWrite(t) /\ (NoWatch(s) => NoWatch(t))
    BY <1>0, <1>3, <2>3, <2>4, SameAsts DEF Chains, Reads, Writes, Watches
  <2>6. t.c.freed => NoWatch(t)
    BY <1>0, <2>3, <2>4, <2>5 DEF Watches
  <2> QED BY <1>0, <1>3, <2>3, <2>4, <2>5, <2>6 DEF Safe, Untouched, SameWay, t
<1>4. CASE s.c.queue = << >> /\ ~ (s.c.read < 0)
  <2>1. t = s
    BY <1>4 DEF WriteNext
  <2> QED BY <1>0, <2>1 DEF Safe, Sound, SameWay
<1> QED BY <1>1, <1>2, <1>3, <1>4

\* What the routines of the watcher and of the queue leave as it was.
Preserved(s, t) ==
  /\ Sound(t) /\ t.c.read = s.c.read /\ t.c.write = s.c.write
  /\ SameWay(s, t)
  /\ NoRead(s) => NoRead(t)
  /\ NoWrite(s) => NoWrite(t)

LEMMA CheckIfChildIsAliveSound ==
  ASSUME NEW s, Sound(s), NoWatch(s), s.c.watch # 0, NEW gone \in BOOLEAN
  PROVE  Preserved(s, CheckIfChildIsAlive(s, gone))
<1> DEFINE t == CheckIfChildIsAlive(s, gone)
<1>0. /\ Types(s) /\ Reads(s) /\ Writes(s) /\ Watches(s) /\ ~ s.c.freed
      /\ s.c \in Context /\ s.c.read \in {-1, 0} /\ s.c.write \in {0, 1}
  BY StatusTypes DEF Sound, Chains
<1>1. CASE s.c.read >= 0 /\ gone
  <2> DEFINE d == [s.c EXCEPT !.watch = -1]
             u == [s EXCEPT !.c = d]
  <2>1. t = DeassignRead(u)
    BY <1>0, <1>1 DEF CheckIfChildIsAlive
  <2>3. /\ d \in Context /\ d.write = s.c.write /\ d.read = s.c.read /\ d.watch = -1
        /\ d.reading = s.c.reading /\ d.writing = s.c.writing /\ d.lookup = s.c.lookup
        /\ d.timer = s.c.timer /\ d.freed = s.c.freed
        /\ d.direction = s.c.direction
    BY <1>0 DEF Context
  <2> HIDE DEF d
  <2>4. Types(u) /\ u.c = d /\ u.asts = s.asts
    BY <1>0, <2>3, Update
  <2> HIDE DEF u, t
  <2>5. Sound(u) /\ (NoWrite(s) => NoWrite(u)) /\ (NoRead(s) => NoRead(u))
    BY <1>0, <2>3, <2>4, SameAsts DEF Sound, Chains, Reads, Writes, Watches
  <2> QED BY <2>1, <2>3, <2>4, <2>5, DeassignReadSound DEF Preserved, SameWay, t
<1>2. CASE s.c.read >= 0 /\ ~ gone
  <2> DEFINE d == [s.c EXCEPT !.watch = 1, !.lookup = TRUE]
  <2>1. t = [s EXCEPT !.c = d]
    BY <1>0, <1>2 DEF CheckIfChildIsAlive
  <2>3. /\ d \in Context /\ d.write = s.c.write /\ d.read = s.c.read /\ d.watch = 1
        /\ d.reading = s.c.reading /\ d.writing = s.c.writing /\ d.lookup
        /\ d.timer = s.c.timer /\ d.freed = s.c.freed
        /\ d.direction = s.c.direction
    BY <1>0 DEF Context
  <2> HIDE DEF d
  <2>4. Types(t) /\ t.c = d /\ t.asts = s.asts
    BY <1>0, <2>1, <2>3, Update
  <2> HIDE DEF t
  <2>5. Watches(t)
    BY <2>3, <2>4 DEF Watches, WatchChain, Chain, NoWatch, Ended, None1, Once
  <2>6. Reads(t) /\ Writes(t) /\ (NoWrite(s) => NoWrite(t)) /\ (NoRead(s) => NoRead(t))
    BY <1>0, <2>3, <2>4 DEF Reads, Writes, ReadChain, WriteChain, Chain, NoRead, NoWrite, Ended
  <2> QED BY <1>0, <2>3, <2>4, <2>5, <2>6 DEF Preserved, SameWay, Sound, Chains, t
<1>3. CASE ~ (s.c.read >= 0)
  <2>1. t = s
    BY <1>0, <1>3 DEF CheckIfChildIsAlive
  <2> QED BY <2>1 DEF Preserved, SameWay
<1> QED BY <1>1, <1>2, <1>3

LEMMA StartChildWatcherSound ==
  ASSUME NEW s, Sound(s), NEW known \in BOOLEAN, NEW gone \in BOOLEAN
  PROVE  Preserved(s, StartChildWatcher(s, known, gone))
<1> DEFINE t == StartChildWatcher(s, known, gone)
<1>0. /\ Types(s) /\ Reads(s) /\ Writes(s) /\ Watches(s) /\ ~ s.c.freed /\ s.c \in Context
  BY StatusTypes DEF Sound, Chains
<1>1. CASE s.c.watch = 0
  <2> DEFINE d == [s.c EXCEPT !.watch = 1, !.knows = known]
             u == [s EXCEPT !.c = d]
  <2>1. t = CheckIfChildIsAlive(u, gone)
    BY <1>1 DEF StartChildWatcher
  <2>3. /\ d \in Context /\ d.write = s.c.write /\ d.read = s.c.read /\ d.watch = 1
        /\ d.reading = s.c.reading /\ d.writing = s.c.writing /\ d.lookup = s.c.lookup
        /\ d.timer = s.c.timer /\ d.freed = s.c.freed
        /\ d.direction = s.c.direction
    BY <1>0 DEF Context
  <2> HIDE DEF d
  <2>4. Types(u) /\ u.c = d /\ u.asts = s.asts
    BY <1>0, <2>3, Update
  <2> HIDE DEF u, t
  <2>5. Sound(u) /\ NoWatch(u) /\ (NoWrite(s) => NoWrite(u)) /\ (NoRead(s) => NoRead(u))
    BY <1>0, <1>1, <2>3, <2>4, SameAsts DEF Sound, Chains, Reads, Writes, Watches
  <2> QED BY <2>1, <2>3, <2>4, <2>5, CheckIfChildIsAliveSound DEF Preserved, SameWay, t
<1>2. CASE s.c.watch # 0
  BY <1>2 DEF StartChildWatcher, Preserved, SameWay
<1> QED BY <1>1, <1>2

\* A change of the queue.
LEMMA QueueSound ==
  ASSUME NEW s, Sound(s), NEW q \in Seq(Int)
  PROVE  Preserved(s, [s EXCEPT !.c.queue = q])
<1> DEFINE d == [s.c EXCEPT !.queue = q]
           t == [s EXCEPT !.c = d]
<1>0. /\ Types(s) /\ Reads(s) /\ Writes(s) /\ Watches(s) /\ ~ s.c.freed /\ s.c \in Context
  BY StatusTypes DEF Sound, Chains
<1>1. /\ d \in Context /\ d.write = s.c.write /\ d.read = s.c.read /\ d.watch = s.c.watch
      /\ d.reading = s.c.reading /\ d.writing = s.c.writing /\ d.lookup = s.c.lookup
      /\ d.timer = s.c.timer /\ d.freed = s.c.freed
      /\ d.direction = s.c.direction
  BY <1>0 DEF Context
<1> HIDE DEF d
<1>2. Types(t) /\ t.c = d /\ t.asts = s.asts
  BY <1>0, <1>1, Update
<1> HIDE DEF t
<1>3. Preserved(s, t)
  BY <1>0, <1>1, <1>2, SameAsts DEF Preserved, SameWay, Sound, Chains, Reads, Writes, Watches
<1> QED BY <1>3 DEF t, d

LEMMA WriteMbxSafe ==
  ASSUME NEW s, Sound(s), NoWrite(s), NEW normal \in BOOLEAN, NEW gone \in BOOLEAN
  PROVE  Safe(WriteMbx(s, normal, gone)) /\ SameWay(s, WriteMbx(s, normal, gone))
<1> DEFINE dropped == IF normal THEN s ELSE [s EXCEPT !.c.queue = << >>]
           watched == IF s.c.active # None /\ s.c.direction = 1
                      THEN StartChildWatcher(dropped, normal, gone)
                      ELSE dropped
           d == [watched.c EXCEPT !.active = None, !.write = 0]
           t == [watched EXCEPT !.c = d]
<1>1. Sound(dropped) /\ NoWrite(dropped) /\ SameWay(s, dropped)
  <2>1. << >> \in Seq(Int)
    OBVIOUS
  <2> QED BY <2>1, QueueSound DEF Preserved, SameWay
<1>2. WriteMbx(s, normal, gone) = WriteNext(t)
  BY DEF WriteMbx
<1> HIDE DEF dropped
<1>3. Sound(watched) /\ NoWrite(watched) /\ SameWay(s, watched)
  BY <1>1, StartChildWatcherSound DEF Preserved, SameWay
<1> HIDE DEF watched
<1>0. /\ Types(watched) /\ Reads(watched) /\ Writes(watched) /\ Watches(watched)
      /\ ~ watched.c.freed /\ watched.c \in Context
  BY <1>3, StatusTypes DEF Sound, Chains
<1>4. /\ d \in Context /\ d.write = 0 /\ d.read = watched.c.read /\ d.watch = watched.c.watch
      /\ d.reading = watched.c.reading /\ d.writing = watched.c.writing
      /\ d.lookup = watched.c.lookup /\ d.timer = watched.c.timer /\ d.freed = watched.c.freed
      /\ d.direction = watched.c.direction
  <2>1. None \in Int
    BY DEF None
  <2> QED BY <1>0, <2>1 DEF Context
<1> HIDE DEF d
<1>5. Types(t) /\ t.c = d /\ t.asts = watched.asts
  BY <1>0, <1>4, Update
<1> HIDE DEF t
<1>6. Sound(t) /\ t.c.write = 0
  BY <1>0, <1>3, <1>4, <1>5, SameAsts DEF Sound, Chains, Reads, Writes, Watches
<1> QED BY <1>2, <1>3, <1>4, <1>5, <1>6, WriteNextSafe DEF SameWay

LEMMA StartWriteSafe ==
  ASSUME NEW s, Sound(s)
  PROVE  LET t == StartWrite(s) IN
         /\ Safe(t) /\ t.c.read = s.c.read /\ t.c.watch = s.c.watch
         /\ SameWay(s, t)
         /\ s.c.read >= 0 => Sound(t)
         /\ NoRead(s) => NoRead(t)
BY WriteNextSafe DEF StartWrite, Safe, Sound, SameWay

LEMMA NextReadSafe ==
  ASSUME NEW s, Sound(s), NoRead(s), s.c.read >= 0
  PROVE  Safe(NextRead(s)) /\ SameWay(s, NextRead(s))
<1>0. /\ Types(s) /\ Reads(s) /\ Writes(s) /\ Watches(s) /\ ~ s.c.freed /\ s.c \in Context
  BY StatusTypes DEF Sound, Chains
<1>1. CASE s.c.watch >= 0
  BY <1>1, QioReadSound DEF NextRead, Safe, Sound
<1>2. CASE ~ (s.c.watch >= 0)
  <2> DEFINE d == [s.c EXCEPT !.read = -1]
             t == [s EXCEPT !.c = d]
  <2>1. NextRead(s) = StartWrite(t)
    BY <1>2 DEF NextRead
  <2>2. /\ d \in Context /\ d.write = s.c.write /\ d.watch = s.c.watch
        /\ d.reading = s.c.reading /\ d.writing = s.c.writing /\ d.lookup = s.c.lookup
        /\ d.timer = s.c.timer /\ d.freed = s.c.freed
        /\ d.direction = s.c.direction
    BY <1>0 DEF Context
  <2> HIDE DEF d
  <2>3. Types(t) /\ t.c = d /\ t.asts = s.asts
    BY <1>0, <2>2, Update
  <2> HIDE DEF t
  <2>4. Sound(t)
    BY <1>0, <2>2, <2>3, SameAsts DEF Sound, Chains, Reads, Writes, Watches
  <2> QED BY <2>1, <2>2, <2>3, <2>4, StartWriteSafe DEF SameWay
<1> QED BY <1>1, <1>2

LEMMA WatchWriterSound ==
  ASSUME NEW s, Sound(s), NEW gone \in BOOLEAN
  PROVE  Preserved(s, WatchWriter(s, gone))
<1>1. CASE s.c.direction = 0
  BY <1>1, StartChildWatcherSound DEF WatchWriter
<1>2. CASE s.c.direction # 0
  BY <1>2 DEF WatchWriter, Preserved, SameWay
<1> QED BY <1>1, <1>2

LEMMA EnqueueSound ==
  ASSUME NEW s, Sound(s), NEW m \in Int
  PROVE  Preserved(s, Enqueue(s, m))
<1>1. Append(s.c.queue, m) \in Seq(Int)
  BY StatusTypes DEF Sound, Chains
<1> QED BY <1>1, QueueSound DEF Enqueue

LEMMA ReadDataSafe ==
  ASSUME NEW s, Sound(s), NoRead(s), s.c.read >= 0, NEW m \in Int, NEW gone \in BOOLEAN
  PROVE  Safe(ReadData(s, m, gone)) /\ SameWay(s, ReadData(s, m, gone))
<1> DEFINE queued == Enqueue(WatchWriter(s, gone), m)
           last == IF queued.c.watch = -1 THEN DeassignRead(Enqueue(queued, Eof)) ELSE queued
<1>1. Sound(queued) /\ NoRead(queued) /\ queued.c.read >= 0 /\ SameWay(s, queued)
  BY WatchWriterSound, EnqueueSound DEF Preserved, SameWay
<1>2. ReadData(s, m, gone) = NextRead(StartWrite(last))
  BY DEF ReadData
<1> HIDE DEF queued
<1>3. Eof \in Int
  BY DEF Eof
<1>4. Preserved(queued, Enqueue(queued, Eof))
  BY <1>1, <1>3, EnqueueSound
<1>5. Sound(last) /\ NoRead(last) /\ last.c.read >= 0 /\ SameWay(s, last)
  BY <1>1, <1>4, DeassignReadSound DEF Preserved, SameWay
<1> HIDE DEF last
<1>6. LET t == StartWrite(last) IN
      Sound(t) /\ NoRead(t) /\ t.c.read >= 0 /\ SameWay(s, t)
  BY <1>5, StartWriteSafe DEF SameWay
<1> QED BY <1>2, <1>6, NextReadSafe DEF SameWay

LEMMA ReadEofSafe ==
  ASSUME NEW s, Sound(s), NoRead(s), s.c.read >= 0, NEW gone \in BOOLEAN
  PROVE  Safe(ReadEof(s, gone)) /\ SameWay(s, ReadEof(s, gone))
<1> DEFINE queued == Enqueue(WatchWriter(s, gone), Eof)
<1>1. Eof \in Int
  BY DEF Eof
<1>2. Sound(queued) /\ NoRead(queued) /\ queued.c.read >= 0 /\ SameWay(s, queued)
  BY <1>1, WatchWriterSound, EnqueueSound DEF Preserved, SameWay
<1>3. ReadEof(s, gone) = NextRead(StartWrite(queued))
  BY DEF ReadEof
<1> HIDE DEF queued
<1>4. LET t == StartWrite(queued) IN
      Sound(t) /\ NoRead(t) /\ t.c.read >= 0 /\ SameWay(s, t)
  BY <1>2, StartWriteSafe DEF SameWay
<1> QED BY <1>3, <1>4, NextReadSafe DEF SameWay

LEMMA ReadEndSafe ==
  ASSUME NEW s, Sound(s), NoRead(s)
  PROVE  Safe(ReadEnd(s)) /\ SameWay(s, ReadEnd(s))
<1> DEFINE d == [s.c EXCEPT !.read = -1]
           t == [s EXCEPT !.c = d]
<1>0. /\ Types(s) /\ Reads(s) /\ Writes(s) /\ Watches(s) /\ ~ s.c.freed /\ s.c \in Context
  BY StatusTypes DEF Sound, Chains
<1>1. ReadEnd(s) = DeassignRead(t)
  BY DEF ReadEnd
<1>2. /\ d \in Context /\ d.write = s.c.write /\ d.watch = s.c.watch
      /\ d.reading = s.c.reading /\ d.writing = s.c.writing /\ d.lookup = s.c.lookup
      /\ d.timer = s.c.timer /\ d.freed = s.c.freed
      /\ d.direction = s.c.direction
  BY <1>0 DEF Context
<1> HIDE DEF d
<1>3. Types(t) /\ t.c = d /\ t.asts = s.asts
  BY <1>0, <1>2, Update
<1> HIDE DEF t
<1>4. Sound(t)
  BY <1>0, <1>2, <1>3, SameAsts DEF Sound, Chains, Reads, Writes, Watches
<1> QED BY <1>1, <1>2, <1>3, <1>4, DeassignReadSound DEF Safe, Sound, SameWay

-----------------------------------------------------------------------------
(* The steps.                                                              *)

\* While an AST waits the context is there; when it runs, its chain has nothing else.
LEMMA RestSound ==
  ASSUME Inv, asts # << >>
  PROVE  /\ Sound(Rest) /\ Rest.c = mbx /\ Types(State) /\ asts[1] \in Ast
         /\ asts[1][1] = "read" => NoRead(Rest) /\ mbx.read >= 0
         /\ asts[1][1] = "write" => NoWrite(Rest)
         /\ asts[1][1] \in Watching => NoWatch(Rest) /\ mbx.watch >= 1
<1>0. Types(State) /\ State.c = mbx /\ State.asts = asts /\ State.box = box
  BY DEF Inv, Safe, Chains, State
<1>1. asts \in Seq(Ast) /\ mbx \in Context /\ box \in Seq(Int)
  BY <1>0 DEF Types, State
<1>2. /\ Tail(asts) \in Seq(Ast) /\ asts[1] \in Ast
      /\ \A r : /\ None1(asts, r) => None1(Tail(asts), r)
                /\ Once(asts, r) => Once(Tail(asts), r)
                /\ Once(asts, r) /\ asts[1][1] \in r =>
                     None1(Tail(asts), r) /\ ~ None1(asts, r)
  BY <1>1, TailKeeps
<1>3. /\ Rest = [c |-> mbx, box |-> box, asts |-> Tail(asts)]
      /\ Types(Rest) /\ Rest.c = mbx /\ Rest.asts = Tail(asts)
  <2>1. \A q : [State EXCEPT !.asts = q] = [c |-> mbx, box |-> box, asts |-> q]
    BY DEF State
  <2>2. Rest = [State EXCEPT !.asts = Tail(asts)]
    BY <1>0 DEF Rest
  <2>3. Rest = [c |-> mbx, box |-> box, asts |-> Tail(asts)]
    BY <2>1, <2>2
  <2> QED BY <1>1, <1>2, <2>3 DEF Types
<1>4. Reads(State) /\ Writes(State) /\ Watches(State)
  BY DEF Inv, Safe, Chains
<1>5. /\ Once(asts, {"read"}) /\ (mbx.reading => None1(asts, {"read"}))
      /\ Once(asts, {"write"}) /\ (mbx.writing => None1(asts, {"write"}))
      /\ Once(asts, Watching) /\ (mbx.lookup \/ mbx.timer => None1(asts, Watching))
  BY <1>0, <1>4 DEF Reads, Writes, Watches, ReadChain, WriteChain, WatchChain, Chain
<1> HIDE DEF Rest, State
<1>6. asts[1][1] \in {"read", "write", "jpi", "timer"}
  BY <1>2 DEF Ast
<1>7. ~ mbx.freed
  BY <1>0, <1>2, <1>5, <1>6
     DEF Inv, Safe, Untouched, NoRead, NoWrite, NoWatch, Ended, Watching
<1>8. Reads(Rest)
  BY <1>0, <1>2, <1>3, <1>4, <1>5 DEF Reads, ReadChain, Chain, NoRead, Ended
<1>9. Writes(Rest)
  BY <1>0, <1>2, <1>3, <1>4, <1>5 DEF Writes, WriteChain, Chain, NoWrite, Ended
<1>10. Watches(Rest)
  BY <1>0, <1>2, <1>3, <1>4, <1>5 DEF Watches, WatchChain, Chain, NoWatch, Ended
<1>11. mbx.read \in {-1, 0} /\ mbx.watch \in {-1, 0, 1, 2}
  BY <1>1 DEF Context
<1>12. asts[1][1] = "read" => NoRead(Rest) /\ mbx.read >= 0
  BY <1>0, <1>2, <1>3, <1>4, <1>5, <1>11 DEF Reads, NoRead, Ended
<1>13. asts[1][1] = "write" => NoWrite(Rest)
  BY <1>2, <1>3, <1>5 DEF NoWrite, Ended
<1>14. asts[1][1] \in Watching => NoWatch(Rest) /\ mbx.watch >= 1
  BY <1>0, <1>2, <1>3, <1>4, <1>5, <1>11 DEF Watches, NoWatch, Ended
<1> QED BY <1>0, <1>2, <1>3, <1>7, <1>8, <1>9, <1>10, <1>12, <1>13, <1>14 DEF Sound, Chains

\* A step keeps the invariant and the direction.
Kept == Inv' /\ mbx'.direction = mbx.direction

LEMMA Outcome ==
  ASSUME NEW s, Safe(s), Becomes(s), sent' \in Nat, s.c.direction = mbx.direction
  PROVE  Kept
<1>1. s = [c |-> s.c, box |-> s.box, asts |-> s.asts]
  BY DEF Safe, Chains, Types
<1>2. State' = s
  BY <1>1 DEF Becomes, State
<1> QED BY <1>2 DEF Inv, Kept, State

LEMMA ReadMbxAstStep == Inv /\ ReadMbxAst => Kept
<1> SUFFICES ASSUME Inv, ReadMbxAst PROVE Kept
  OBVIOUS
<1>1. Sound(Rest) /\ NoRead(Rest) /\ Rest.c.read >= 0 /\ Rest.c = mbx
  BY RestSound DEF ReadMbxAst, Next1
<1>2. sent' \in Nat
  BY DEF Inv, ReadMbxAst, Environment
<1>3. (~ alive) \in BOOLEAN
  OBVIOUS
<1>4. CASE Found \in Data /\ Becomes(ReadData(Rest, Found, ~ alive))
  <2>1. Found \in Int
    BY <1>4, ParametersAssumption DEF Data
  <2> QED BY <1>1, <1>2, <1>3, <1>4, <2>1, ReadDataSafe, Outcome DEF SameWay
<1>5. CASE Found = Eof /\ Becomes(ReadEof(Rest, ~ alive))
  BY <1>1, <1>2, <1>3, <1>5, ReadEofSafe, Outcome DEF SameWay
<1>6. CASE Found = None /\ Becomes(ReadEnd(Rest))
  BY <1>1, <1>2, <1>6, ReadEndSafe, Outcome DEF SameWay
<1> QED BY <1>4, <1>5, <1>6 DEF ReadMbxAst

LEMMA WriteMbxAstStep == Inv /\ WriteMbxAst => Kept
<1> SUFFICES ASSUME Inv, WriteMbxAst PROVE Kept
  OBVIOUS
<1>1. /\ Sound(Rest) /\ NoWrite(Rest) /\ Rest.c = mbx
      /\ asts[1] \in Ast /\ asts[1][1] = "write"
  BY RestSound DEF WriteMbxAst, Next1
<1>2. sent' \in Nat
  BY DEF Inv, WriteMbxAst, Environment
<1>3. Found \in BOOLEAN
  BY <1>1 DEF Found, Ast
<1>4. PICK gone \in BOOLEAN : Becomes(WriteMbx(Rest, Found, gone))
  BY DEF WriteMbxAst
<1> QED BY <1>1, <1>2, <1>3, <1>4, WriteMbxSafe, Outcome DEF SameWay

LEMMA CheckIfChildIsAliveAstStep == Inv /\ CheckIfChildIsAliveAst => Kept
<1> SUFFICES ASSUME Inv, CheckIfChildIsAliveAst PROVE Kept
  OBVIOUS
<1>1. Sound(Rest) /\ NoWatch(Rest) /\ Rest.c.watch # 0 /\ Rest.c = mbx
  BY RestSound DEF CheckIfChildIsAliveAst, Next1, Watching
<1>2. sent' \in Nat
  BY DEF Inv, CheckIfChildIsAliveAst, Environment
<1>3. PICK gone \in BOOLEAN : Becomes(CheckIfChildIsAlive(Rest, gone))
  BY DEF CheckIfChildIsAliveAst, Gone
<1>4. LET t == CheckIfChildIsAlive(Rest, gone) IN Safe(t) /\ SameWay(Rest, t)
  BY <1>1, CheckIfChildIsAliveSound DEF Preserved, Sound, Safe
<1> QED BY <1>1, <1>2, <1>3, <1>4, Outcome DEF SameWay

LEMMA WatchChildAstStep == Inv /\ WatchChildAst => Kept
<1> SUFFICES ASSUME Inv, WatchChildAst PROVE Kept
  OBVIOUS
<1>0. sent' \in Nat
  BY DEF Inv, WatchChildAst, Environment
<1>1. /\ Sound(Rest) /\ NoWatch(Rest) /\ Rest.c = mbx /\ asts[1] \in Ast
      /\ asts[1][1] = "jpi"
  BY RestSound DEF WatchChildAst, Next1, Watching
<1>2. /\ Types(Rest) /\ Reads(Rest) /\ Writes(Rest) /\ Watches(Rest) /\ ~ mbx.freed
      /\ mbx \in Context /\ mbx.read \in {-1, 0} /\ mbx.write \in {0, 1}
  BY <1>1, StatusTypes DEF Sound, Chains
<1>3. Found \in BOOLEAN
  BY <1>1 DEF Found, Ast
<1>4. CASE mbx.read >= 0 /\ ~ Found
  <2> DEFINE d == [mbx EXCEPT !.watch = -1]
             t == [Rest EXCEPT !.c = d]
  <2>1. Becomes(t)
    BY <1>1, <1>2, <1>4 DEF WatchChildAst
  <2>2. /\ d \in Context /\ d.write = mbx.write /\ d.read = mbx.read /\ d.watch = -1
        /\ d.reading = mbx.reading /\ d.writing = mbx.writing /\ d.lookup = mbx.lookup
        /\ d.timer = mbx.timer /\ d.freed = mbx.freed
        /\ d.direction = mbx.direction
    BY <1>2 DEF Context
  <2> HIDE DEF d
  <2>3. Types(t) /\ t.c = d /\ t.asts = Rest.asts
    BY <1>2, <2>2, Update
  <2> HIDE DEF t
  <2>4. Safe(t)
    BY <1>1, <1>2, <2>2, <2>3, SameAsts DEF Safe, Chains, Reads, Writes, Watches
  <2> QED BY <1>0, <2>1, <2>2, <2>3, <2>4, Outcome
<1>5. CASE mbx.read >= 0 /\ Found
  <2> DEFINE d == [mbx EXCEPT !.watch = 2, !.timer = TRUE]
             t == [Rest EXCEPT !.c = d]
  <2>1. Becomes(t)
    BY <1>1, <1>2, <1>5 DEF WatchChildAst
  <2>2. /\ d \in Context /\ d.write = mbx.write /\ d.read = mbx.read /\ d.watch = 2
        /\ d.reading = mbx.reading /\ d.writing = mbx.writing /\ d.lookup = mbx.lookup
        /\ d.timer /\ d.freed = mbx.freed
        /\ d.direction = mbx.direction
    BY <1>2 DEF Context
  <2> HIDE DEF d
  <2>3. Types(t) /\ t.c = d /\ t.asts = Rest.asts
    BY <1>2, <2>2, Update
  <2> HIDE DEF t
  <2>4. Reads(t) /\ Writes(t)
    BY <1>1, <1>2, <2>2, <2>3
       DEF Reads, Writes, ReadChain, WriteChain, Chain, NoRead, NoWrite, Ended
  <2>5. Watches(t)
    BY <1>1, <2>2, <2>3 DEF Watches, WatchChain, Chain, NoWatch, Ended, None1, Once
  <2>6. Safe(t)
    BY <1>2, <2>2, <2>3, <2>4, <2>5 DEF Safe, Chains
  <2> QED BY <1>0, <2>1, <2>2, <2>3, <2>6, Outcome
<1>6. CASE ~ (mbx.read >= 0)
  <2>1. Becomes(Rest)
    BY <1>1, <1>2, <1>6 DEF WatchChildAst
  <2> QED BY <1>0, <1>1, <2>1, Outcome DEF Safe, Sound
<1> QED BY <1>2, <1>3, <1>4, <1>5, <1>6

LEMMA NewAsts ==
  ASSUME NEW s, s = [c |-> s.c, box |-> s.box, asts |-> s.asts], NEW d, NEW q,
         NEW t, t = [s EXCEPT !.c = d, !.asts = q]
  PROVE  t = [c |-> d, box |-> s.box, asts |-> q]
OBVIOUS

\* A call that was under way completes: its chain has an AST instead.
LEMMA CallCompletes ==
  ASSUME Inv, NEW a \in Ast, NEW d \in Context, sent' \in Nat,
         Becomes([State EXCEPT !.c = d, !.asts = Append(asts, a)]),
         d.read = mbx.read, d.write = mbx.write, d.watch = mbx.watch, d.freed = mbx.freed,
         d.direction = mbx.direction,
         d.reading => mbx.reading, d.writing => mbx.writing,
         d.lookup => mbx.lookup, d.timer => mbx.timer,
         \/ a[1] = "read" /\ mbx.reading /\ ~ d.reading
         \/ a[1] = "write" /\ mbx.writing /\ ~ d.writing
         \/ a[1] \in Watching /\ (mbx.lookup \/ mbx.timer) /\ ~ d.lookup /\ ~ d.timer
  PROVE  Kept
<1> DEFINE t == [c |-> d, box |-> box, asts |-> Append(asts, a)]
<1>0. Types(State) /\ State.c = mbx /\ State.asts = asts /\ State.box = box
  BY DEF Inv, Safe, Chains, State
<1>1. asts \in Seq(Ast) /\ mbx \in Context /\ box \in Seq(Int)
  BY <1>0 DEF Types, State
<1>2. Becomes(t)
  <2> DEFINE q == Append(asts, a)
  <2>1. Becomes([State EXCEPT !.c = d, !.asts = q])
    OBVIOUS
  <2>2. State = [c |-> mbx, box |-> box, asts |-> asts]
    BY DEF State
  <2> HIDE DEF q, State
  <2> DEFINE u == [State EXCEPT !.c = d, !.asts = q]
  <2>3. Becomes(u)
    BY <2>1
  <2>4. u = [State EXCEPT !.c = d, !.asts = q]
    OBVIOUS
  <2> HIDE DEF u
  <2>5. u = [c |-> d, box |-> box, asts |-> q]
    BY <1>0, <2>2, <2>4, NewAsts
  <2> QED BY <2>3, <2>5 DEF q
<1>3. Types(t) /\ t.c = d /\ t.asts = Append(State.asts, a)
  BY <1>0, <1>1 DEF Types
<1> HIDE DEF t, State
<1>4. Reads(State) /\ Writes(State) /\ Watches(State)
  BY DEF Inv, Safe, Chains
<1>5. mbx.read \in {-1, 0} /\ mbx.write \in {0, 1} /\ mbx.watch \in {-1, 0, 1, 2}
  BY <1>1 DEF Context
<1>6. ~ mbx.freed
  BY <1>0 DEF Inv, Safe, Untouched, NoRead, NoWrite, NoWatch, Ended
<1>7. CASE a[1] = "read" /\ mbx.reading /\ ~ d.reading
  <2>1. None1(State.asts, {"read"}) /\ mbx.read >= 0
    BY <1>0, <1>4, <1>5, <1>7 DEF Reads, ReadChain, Chain, NoRead, Ended
  <2>2. ReadChain(t)
    BY <1>0, <1>3, <1>7, <2>1, AddAst
  <2>3. Reads(t)
    BY <1>3, <1>5, <2>1, <2>2 DEF Reads
  <2>4. Writes(t)
    BY <1>0, <1>3, <1>4, <1>7, AddAst DEF Writes
  <2>5. Watches(t)
    BY <1>0, <1>3, <1>4, <1>7, AddAst DEF Watches, Watching
  <2> QED BY <1>2, <1>3, <1>6, <2>3, <2>4, <2>5, Outcome DEF Safe, Chains
<1>8. CASE a[1] = "write" /\ mbx.writing /\ ~ d.writing
  <2>1. None1(State.asts, {"write"}) /\ mbx.write # 0
    BY <1>0, <1>4, <1>5, <1>8 DEF Writes, WriteChain, Chain, NoWrite, Ended
  <2>2. WriteChain(t)
    BY <1>0, <1>3, <1>8, <2>1, AddAst
  <2>3. Writes(t)
    BY <1>3, <2>1, <2>2 DEF Writes
  <2>4. Reads(t)
    BY <1>0, <1>3, <1>4, <1>8, AddAst DEF Reads
  <2>5. Watches(t)
    BY <1>0, <1>3, <1>4, <1>8, AddAst DEF Watches, Watching
  <2> QED BY <1>2, <1>3, <1>6, <2>3, <2>4, <2>5, Outcome DEF Safe, Chains
<1>9. CASE a[1] \in Watching /\ (mbx.lookup \/ mbx.timer) /\ ~ d.lookup /\ ~ d.timer
  <2>1. None1(State.asts, Watching) /\ ~ (mbx.watch <= 0)
    BY <1>0, <1>4, <1>9 DEF Watches, WatchChain, Chain, NoWatch, Ended
  <2>2. WatchChain(t)
    BY <1>0, <1>3, <1>9, <2>1, AddAst
  <2>3. Watches(t)
    BY <1>3, <1>9, <2>1, <2>2 DEF Watches
  <2>4. Reads(t) /\ Writes(t)
    BY <1>0, <1>3, <1>4, <1>9, AddAst DEF Reads, Writes, Watching
  <2> QED BY <1>2, <1>3, <1>6, <2>3, <2>4, Outcome DEF Safe, Chains
<1> QED BY <1>7, <1>8, <1>9

LEMMA ReadCompletes ==
  ASSUME Inv, mbx.reading, sent' \in Nat, NEW m \in Int,
         Becomes([State EXCEPT !.c.reading = FALSE, !.asts = Append(@, <<"read", m>>)])
  PROVE  Kept
<1> DEFINE d == [mbx EXCEPT !.reading = FALSE]
           a == <<"read", m>>
<1>1. mbx \in Context
  BY DEF Inv, Safe, Chains, Types, State
<1>2. Becomes([State EXCEPT !.c = d, !.asts = Append(asts, a)])
  BY DEF State
<1>3. /\ d \in Context /\ d.read = mbx.read /\ d.write = mbx.write /\ d.watch = mbx.watch
      /\ d.freed = mbx.freed /\ ~ d.reading /\ d.writing = mbx.writing
      /\ d.direction = mbx.direction
      /\ d.lookup = mbx.lookup /\ d.timer = mbx.timer
  BY <1>1 DEF Context
<1>4. a \in Ast /\ a[1] = "read"
  BY DEF Ast
<1> HIDE DEF a, d
<1> QED BY <1>2, <1>3, <1>4, CallCompletes

LEMMA WriteCompletes ==
  ASSUME Inv, mbx.writing, sent' \in Nat, NEW r \in BOOLEAN,
         Becomes([State EXCEPT !.c.writing = FALSE, !.asts = Append(@, <<"write", r>>)])
  PROVE  Kept
<1> DEFINE d == [mbx EXCEPT !.writing = FALSE]
           a == <<"write", r>>
<1>1. mbx \in Context
  BY DEF Inv, Safe, Chains, Types, State
<1>2. Becomes([State EXCEPT !.c = d, !.asts = Append(asts, a)])
  BY DEF State
<1>3. /\ d \in Context /\ d.read = mbx.read /\ d.write = mbx.write /\ d.watch = mbx.watch
      /\ d.freed = mbx.freed /\ ~ d.writing /\ d.reading = mbx.reading
      /\ d.direction = mbx.direction
      /\ d.lookup = mbx.lookup /\ d.timer = mbx.timer
  BY <1>1 DEF Context
<1>4. a \in Ast /\ a[1] = "write"
  BY DEF Ast
<1> HIDE DEF a, d
<1> QED BY <1>2, <1>3, <1>4, CallCompletes

LEMMA TimerStep == Inv /\ TimerExpires => Kept
<1> SUFFICES ASSUME Inv, TimerExpires PROVE Kept
  OBVIOUS
<1> DEFINE d == [mbx EXCEPT !.timer = FALSE]
           a == <<"timer", TRUE>>
<1>1. mbx \in Context /\ ~ (mbx.lookup /\ mbx.timer)
  BY DEF Inv, Safe, Chains, Types, State, Watches
<1>2. Becomes([State EXCEPT !.c = d, !.asts = Append(asts, a)])
  BY DEF TimerExpires, State
<1>3. /\ d \in Context /\ d.read = mbx.read /\ d.write = mbx.write /\ d.watch = mbx.watch
      /\ d.freed = mbx.freed /\ d.reading = mbx.reading /\ d.writing = mbx.writing
      /\ d.direction = mbx.direction
      /\ d.lookup = mbx.lookup /\ ~ d.timer
  BY <1>1 DEF Context
<1>4. a \in Ast /\ a[1] \in Watching
  BY DEF Ast, Watching
<1>5. mbx.timer /\ sent' \in Nat
  BY DEF TimerExpires, Environment, Inv
<1> HIDE DEF a, d
<1> QED BY <1>1, <1>2, <1>3, <1>4, <1>5, CallCompletes

LEMMA LookupStep == Inv /\ LookupCompletes => Kept
<1> SUFFICES ASSUME Inv, LookupCompletes PROVE Kept
  OBVIOUS
<1>0. PICK gone \in BOOLEAN :
        Becomes([State EXCEPT !.c.lookup = FALSE, !.asts = Append(@, <<"jpi", ~ gone>>)])
  BY DEF LookupCompletes, Gone
<1> DEFINE d == [mbx EXCEPT !.lookup = FALSE]
           a == <<"jpi", ~ gone>>
<1>1. mbx \in Context /\ ~ (mbx.lookup /\ mbx.timer)
  BY DEF Inv, Safe, Chains, Types, State, Watches
<1>2. Becomes([State EXCEPT !.c = d, !.asts = Append(asts, a)])
  BY <1>0 DEF State
<1>3. /\ d \in Context /\ d.read = mbx.read /\ d.write = mbx.write /\ d.watch = mbx.watch
      /\ d.freed = mbx.freed /\ d.reading = mbx.reading /\ d.writing = mbx.writing
      /\ d.direction = mbx.direction
      /\ ~ d.lookup /\ d.timer = mbx.timer
  BY <1>1 DEF Context
<1>4. a \in Ast /\ a[1] \in Watching
  BY DEF Ast, Watching
<1>5. mbx.lookup /\ sent' \in Nat
  BY DEF LookupCompletes, Environment, Inv
<1> HIDE DEF a, d
<1> QED BY <1>1, <1>2, <1>3, <1>4, <1>5, CallCompletes

LEMMA DeliverStep ==
  ASSUME Inv, NEW m \in Int, Deliver(m), sent' \in Nat
  PROVE  Kept
<1>1. CASE mbx.reading
  BY <1>1, ReadCompletes DEF Deliver
<1>2. CASE ~ mbx.reading /\ mbx.rchan
  <2> DEFINE b == Append(box, m)
             t == [c |-> mbx, box |-> b, asts |-> asts]
  <2>1. Becomes([State EXCEPT !.box = b])
    BY <1>2 DEF Deliver, State
  <2>2. Types(State) /\ Safe(State) /\ State.c = mbx /\ State.asts = asts
    BY DEF Inv, Safe, Chains, State
  <2>3. asts \in Seq(Ast) /\ mbx \in Context /\ box \in Seq(Int)
    BY <2>2 DEF Types, State
  <2>4. b \in Seq(Int)
    BY <2>3
  <2> HIDE DEF b
  <2>5. [State EXCEPT !.box = b] = t
    BY DEF State
  <2>6. Types(t) /\ t.c = mbx /\ t.asts = asts
    BY <2>3, <2>4 DEF Types
  <2> HIDE DEF t, State
  <2>7. Safe(t)
    BY <2>2, <2>6, SameAsts DEF Safe, Chains, Untouched, Reads, Writes, Watches
  <2> QED BY <2>1, <2>5, <2>6, <2>7, Outcome
<1>3. CASE ~ mbx.reading /\ ~ mbx.rchan
  <2>1. State.c = mbx
    BY DEF State
  <2> QED BY <1>3, <2>1, Outcome DEF Deliver, Inv
<1> QED BY <1>1, <1>2, <1>3

LEMMA InitInv == Init => Inv
<1> SUFFICES ASSUME Init PROVE Inv
  OBVIOUS
<1>0. PICK d \in {0, 1} :
        mbx = [direction |-> d, read |-> 0, write |-> 0, watch |-> 0, knows |-> FALSE,
               queue |-> << >>, active |-> None, rchan |-> TRUE, wchan |-> TRUE,
               reading |-> TRUE, writing |-> FALSE, lookup |-> FALSE, timer |-> FALSE,
               freed |-> FALSE]
  BY ParametersAssumption DEF Init
<1>1. << >> \in Seq(Int) /\ None \in Int
  BY DEF None
<1>2. mbx \in Context
  BY <1>0, <1>1 DEF Context
<1>3. State = [c |-> mbx, box |-> << >>, asts |-> << >>] /\ sent = 0
  BY DEF State, Init
<1>4. Types(State) /\ State.c = mbx /\ State.asts = << >>
  BY <1>2, <1>3 DEF Types
<1>5. None1(State.asts, {"read"}) /\ None1(State.asts, {"write"}) /\ None1(State.asts, Watching)
  BY <1>4 DEF None1
<1>6. Once(State.asts, {"read"}) /\ Once(State.asts, {"write"}) /\ Once(State.asts, Watching)
  BY <1>4 DEF Once
<1>7. /\ mbx.read = 0 /\ ~ mbx.writing /\ ~ mbx.lookup /\ ~ mbx.timer /\ ~ mbx.freed
  BY <1>0
<1> HIDE DEF State
<1>8. Reads(State) /\ Writes(State) /\ Watches(State)
  BY <1>4, <1>5, <1>6, <1>7 DEF Reads, Writes, Watches, ReadChain, WriteChain, WatchChain,
       Chain, NoRead, NoWrite, NoWatch, Ended
<1> QED BY <1>3, <1>4, <1>7, <1>8 DEF Inv, Safe, Chains

LEMMA NextInv == Inv /\ [Next]_vars => Kept
<1> SUFFICES ASSUME Inv, [Next]_vars PROVE Kept
  OBVIOUS
<1>0. sent \in Nat
  BY DEF Inv
<1>1. ASSUME UNCHANGED <<mbx, box, asts, sent>> PROVE Kept
  BY <1>1 DEF Inv, Kept, State
<1>2. CASE System
  BY <1>2, ReadMbxAstStep, WriteMbxAstStep, CheckIfChildIsAliveAstStep, WatchChildAstStep,
     TimerStep, LookupStep DEF System
<1>3. CASE WriterWrites
  BY <1>0, <1>3, DeliverStep DEF WriterWrites
<1>4. CASE WriterCloses
  BY <1>0, <1>4, DeliverStep DEF WriterCloses, Eof
<1>5. ASSUME Becomes(State), sent' = sent PROVE Kept
  <2>1. State.c = mbx
    BY DEF State
  <2> QED BY <1>0, <1>5, <2>1, Outcome DEF Inv
<1>6. CASE WriterGone
  <2>1. None \in Int
    BY DEF None
  <2> QED BY <1>0, <1>5, <1>6, <2>1, ReadCompletes DEF WriterGone
<1>7. CASE ChildExits
  BY <1>1, <1>7 DEF ChildExits
<1>8. CASE ReaderReads
  BY <1>0, <1>8, WriteCompletes DEF ReaderReads
<1>9. CASE ReaderSeesNoWriter
  BY <1>1, <1>9 DEF ReaderSeesNoWriter
<1>10. CASE ReaderCloses
  BY <1>0, <1>5, <1>10, WriteCompletes DEF ReaderCloses
<1>11. CASE UNCHANGED vars
  BY <1>1, <1>11 DEF vars
<1> QED BY <1>2, <1>3, <1>4, <1>6, <1>7, <1>8, <1>9, <1>10, <1>11 DEF Next, Processes

\* However the processes write, read, close and die, the context of the FIFO is freed only
\* when no read, write, lookup, timer or AST is left that would use it.
THEOREM NeverUsedAfterFree == Spec => []NoUseAfterFree
<1>1. Inv => NoUseAfterFree
  <2> SUFFICES ASSUME Inv, mbx.freed
               PROVE  asts = << >> /\ ~ mbx.reading /\ ~ mbx.writing /\ ~ mbx.lookup /\ ~ mbx.timer
    BY DEF NoUseAfterFree
  <2>1. Types(State) /\ State.c = mbx /\ State.asts = asts /\ Untouched(State)
    BY DEF Inv, Safe, Chains, State
  <2>2. asts \in Seq(Ast)
    BY DEF Inv, Safe, Chains, Types, State
  <2>3. /\ None1(asts, {"read"}) /\ None1(asts, {"write"}) /\ None1(asts, Watching)
        /\ ~ mbx.reading /\ ~ mbx.writing /\ ~ mbx.lookup /\ ~ mbx.timer
    BY <2>1 DEF Untouched, NoRead, NoWrite, NoWatch, Ended
  <2>4. asts = << >>
    <3> SUFFICES ASSUME asts # << >> PROVE FALSE
      OBVIOUS
    <3>1. 1 \in 1 .. Len(asts) /\ asts[1] \in Ast
      BY <2>2
    <3>2. asts[1][1] \in {"read", "write", "jpi", "timer"}
      BY <3>1 DEF Ast
    <3> QED BY <2>3, <3>1, <3>2 DEF None1, Watching
  <2> QED BY <2>3, <2>4
<1>2. Inv /\ [Next]_vars => Inv'
  BY NextInv DEF Kept
<1> QED BY <1>1, <1>2, InitInv, PTL DEF Spec


-----------------------------------------------------------------------------
(* What is on its way.                                                     *)

\* Place p of a pipe that carries the messages 1 .. L and then the end of file.
Item(L, p) == IF p <= L THEN p ELSE Eof

\* The places of the pipe behind place o are those of q.
Holds(q, L, o) == \A k \in 1 .. Len(q) : q[k] = Item(L, o + k)

LEMMA HoldsTail ==
  ASSUME NEW q \in Seq(Int), q # << >>, NEW L \in Nat, NEW o \in Nat, Holds(q, L, o)
  PROVE  /\ Head(q) = Item(L, o + 1) /\ Head(q) \in Int
         /\ Tail(q) \in Seq(Int) /\ Len(Tail(q)) = Len(q) - 1
         /\ Holds(Tail(q), L, o + 1)
<1>1. /\ Len(q) \in Nat /\ Len(q) >= 1 /\ Head(q) = q[1] /\ Head(q) \in Int
      /\ Tail(q) \in Seq(Int) /\ Len(Tail(q)) = Len(q) - 1
      /\ \A k \in 1 .. Len(Tail(q)) : Tail(q)[k] = q[k + 1]
  OBVIOUS
<1>2. \A k \in 1 .. Len(Tail(q)) : k + 1 \in 1 .. Len(q) /\ o + (k + 1) = (o + 1) + k
  BY <1>1
<1>3. Holds(Tail(q), L, o + 1)
  BY <1>1, <1>2 DEF Holds
<1> QED BY <1>1, <1>3 DEF Holds

LEMMA HoldsAppend ==
  ASSUME NEW q \in Seq(Int), NEW L \in Nat, NEW o \in Nat, Holds(q, L, o),
         NEW m \in Int, m = Item(L, o + Len(q) + 1)
  PROVE  /\ Append(q, m) \in Seq(Int) /\ Len(Append(q, m)) = Len(q) + 1
         /\ Holds(Append(q, m), L, o)
<1>1. /\ Append(q, m) \in Seq(Int) /\ Len(Append(q, m)) = Len(q) + 1 /\ Len(q) \in Nat
      /\ Append(q, m)[Len(q) + 1] = m
      /\ \A k \in 1 .. Len(q) : Append(q, m)[k] = q[k]
  OBVIOUS
<1>2. \A k \in 1 .. Len(q) + 1 : k \in 1 .. Len(q) \/ k = Len(q) + 1
  BY <1>1
<1>3. o + (Len(q) + 1) = o + Len(q) + 1
  BY <1>1
<1> QED BY <1>1, <1>2, <1>3 DEF Holds

LEMMA HoldsOne ==
  ASSUME NEW m \in Int, NEW L \in Nat, NEW o \in Nat
  PROVE  /\ <<m>> \in Seq(Int) /\ Len(<<m>>) = 1
         /\ Holds(<<m>>, L, o) <=> m = Item(L, o + 1)
BY DEF Holds

LEMMA HoldsNone ==
  ASSUME NEW L, NEW o
  PROVE  << >> \in Seq(Int) /\ Len(<< >>) = 0 /\ Holds(<< >>, L, o)
BY DEF Holds

\* Up to place L the pipe is the same for more messages, and for fewer.
LEMMA HoldsData ==
  ASSUME NEW q \in Seq(Int), NEW L \in Nat, NEW o \in Nat, Holds(q, L, o),
         NEW M \in Nat, o + Len(q) <= L, o + Len(q) <= M
  PROVE  Holds(q, M, o)
<1>1. Len(q) \in Nat
  OBVIOUS
<1>2. ASSUME NEW k \in 1 .. Len(q) PROVE Item(M, o + k) = Item(L, o + k)
  BY <1>1, <1>2 DEF Item
<1> QED BY <1>2 DEF Holds

\* What g messages, a, q, f and b hold together.
Total(g, a, q, f, b) == g + Len(a) + Len(q) + Len(f) + Len(b)

\* Behind the g messages read there are a, which is being written, the queue q, what the
\* read AST has found, f, and the mailbox b.
Flow(L, g, a, q, f, b) ==
  /\ a \in Seq(Int) /\ q \in Seq(Int) /\ f \in Seq(Int) /\ b \in Seq(Int)
  /\ Holds(a, L, g)
  /\ Holds(q, L, g + Len(a))
  /\ Holds(f, L, g + Len(a) + Len(q))
  /\ Holds(b, L, g + Len(a) + Len(q) + Len(f))
  /\ Total(g, a, q, f, b) = L \/ Total(g, a, q, f, b) = L + 1

LEMMA FlowLens ==
  ASSUME NEW L, NEW g, NEW a, NEW q, NEW f, NEW b, Flow(L, g, a, q, f, b)
  PROVE  Len(a) \in Nat /\ Len(q) \in Nat /\ Len(f) \in Nat /\ Len(b) \in Nat
BY DEF Flow

\* Where the places are all those of messages, they are so in a pipe of more, or fewer.
LEMMA FlowData ==
  ASSUME NEW L \in Nat, NEW M \in Nat, NEW g \in Nat,
         NEW a \in Seq(Int), NEW q \in Seq(Int), NEW f \in Seq(Int),
         Holds(a, L, g), Holds(q, L, g + Len(a)), Holds(f, L, g + Len(a) + Len(q)),
         g + Len(a) + Len(q) + Len(f) <= L, g + Len(a) + Len(q) + Len(f) <= M
  PROVE  Holds(a, M, g) /\ Holds(q, M, g + Len(a)) /\ Holds(f, M, g + Len(a) + Len(q))
<1>1. Len(a) \in Nat /\ Len(q) \in Nat /\ Len(f) \in Nat
  OBVIOUS
<1>2. /\ g + Len(a) \in Nat /\ g + Len(a) <= L /\ g + Len(a) <= M
      /\ g + Len(a) + Len(q) \in Nat
      /\ g + Len(a) + Len(q) <= L /\ g + Len(a) + Len(q) <= M
  BY <1>1
<1>3. Holds(a, M, g)
  BY <1>2, HoldsData
<1>4. Holds(q, M, g + Len(a))
  BY <1>2, HoldsData
<1>5. Holds(f, M, g + Len(a) + Len(q))
  BY <1>2, HoldsData
<1> QED BY <1>3, <1>4, <1>5

\* The head of the queue is written.
LEMMA FlowWrite ==
  ASSUME NEW L \in Nat, NEW g \in Nat, NEW q, NEW f, NEW b, Flow(L, g, << >>, q, f, b),
         q # << >>
  PROVE  /\ Flow(L, g, <<Head(q)>>, Tail(q), f, b)
         /\ Total(g, <<Head(q)>>, Tail(q), f, b) = Total(g, << >>, q, f, b)
<1>1. /\ Len(q) \in Nat /\ Len(f) \in Nat /\ Len(b) \in Nat /\ Len(<< >>) = 0
      /\ q \in Seq(Int) /\ f \in Seq(Int) /\ b \in Seq(Int)
  BY FlowLens, HoldsNone DEF Flow
<1> DEFINE e == << >>
<1>2. g + Len(e) = g /\ g + Len(e) + Len(q) = g + Len(q)
  BY <1>1
<1>3. /\ Holds(q, L, g) /\ Holds(f, L, g + Len(q)) /\ Holds(b, L, g + Len(q) + Len(f))
  BY <1>2 DEF Flow
<1>4. /\ Head(q) = Item(L, g + 1) /\ Head(q) \in Int /\ Tail(q) \in Seq(Int)
      /\ Len(Tail(q)) = Len(q) - 1 /\ Holds(Tail(q), L, g + 1)
  BY <1>1, <1>3, HoldsTail
<1> DEFINE h == <<Head(q)>>
           t == Tail(q)
<1>5. h \in Seq(Int) /\ Len(h) = 1 /\ Holds(h, L, g)
  BY <1>4, HoldsOne
<1>6. Total(g, h, t, f, b) = Total(g, e, q, f, b)
  BY <1>1, <1>4, <1>5 DEF Total
<1>7. Len(t) = Len(q) - 1 /\ t \in Seq(Int) /\ Holds(t, L, g + 1)
  BY <1>4
<1> HIDE DEF h, t
<1>8. g + Len(h) = g + 1 /\ g + Len(h) + Len(t) = g + Len(q)
  BY <1>1, <1>5, <1>7
<1>9. Flow(L, g, h, t, f, b)
  <2>1. Total(g, h, t, f, b) = L \/ Total(g, h, t, f, b) = L + 1
    BY <1>6 DEF Flow
  <2> QED BY <1>1, <1>3, <1>5, <1>7, <1>8, <2>1 DEF Flow
<1> QED BY <1>6, <1>9 DEF h, t

\* What the read AST has found is put into the queue.
LEMMA FlowQueue ==
  ASSUME NEW L \in Nat, NEW g \in Nat, NEW a, NEW q, NEW m \in Int, NEW b,
         Flow(L, g, a, q, <<m>>, b)
  PROVE  /\ Flow(L, g, a, Append(q, m), << >>, b)
         /\ Total(g, a, Append(q, m), << >>, b) = Total(g, a, q, <<m>>, b)
<1> DEFINE e == << >>
           f == <<m>>
           t == Append(q, m)
<1>0. Len(f) = 1 /\ f \in Seq(Int) /\ Len(e) = 0 /\ e \in Seq(Int)
  OBVIOUS
<1>1. /\ Len(a) \in Nat /\ Len(q) \in Nat /\ Len(b) \in Nat
      /\ a \in Seq(Int) /\ q \in Seq(Int) /\ b \in Seq(Int)
      /\ Len(e) = 0 /\ e \in Seq(Int) /\ Len(f) = 1 /\ f \in Seq(Int)
  BY <1>0, FlowLens DEF Flow
<1>2. /\ Holds(a, L, g) /\ Holds(q, L, g + Len(a)) /\ Holds(f, L, g + Len(a) + Len(q))
      /\ Holds(b, L, g + Len(a) + Len(q) + Len(f))
  BY DEF Flow
<1>3. m = Item(L, g + Len(a) + Len(q) + 1)
  BY <1>1, <1>2, HoldsOne
<1>4. t \in Seq(Int) /\ Len(t) = Len(q) + 1 /\ Holds(t, L, g + Len(a))
  BY <1>1, <1>2, <1>3, HoldsAppend
<1>5. Total(g, a, q, f, b) = L \/ Total(g, a, q, f, b) = L + 1
  BY DEF Flow
<1> HIDE DEF t, f, e
<1>6. Total(g, a, t, e, b) = Total(g, a, q, f, b)
  BY <1>1, <1>4 DEF Total
<1>7. Holds(e, L, g + Len(a) + Len(t))
  BY HoldsNone DEF e
<1>8. g + Len(a) + Len(t) + Len(e) = g + Len(a) + Len(q) + Len(f)
  BY <1>1, <1>4
<1>9. Flow(L, g, a, t, e, b)
  BY <1>1, <1>2, <1>4, <1>5, <1>6, <1>7, <1>8 DEF Flow
<1> QED BY <1>6, <1>9 DEF e, f, t

\* A read takes the first message of the mailbox.
LEMMA FlowTake ==
  ASSUME NEW L \in Nat, NEW g \in Nat, NEW a, NEW q, NEW b, Flow(L, g, a, q, << >>, b),
         b # << >>
  PROVE  /\ Flow(L, g, a, q, <<Head(b)>>, Tail(b))
         /\ Total(g, a, q, <<Head(b)>>, Tail(b)) = Total(g, a, q, << >>, b)
         /\ Head(b) # None
<1> DEFINE e == << >>
           f == <<Head(b)>>
           t == Tail(b)
           o == g + Len(a) + Len(q)
<1>1. /\ Len(a) \in Nat /\ Len(q) \in Nat /\ Len(b) \in Nat
      /\ a \in Seq(Int) /\ q \in Seq(Int) /\ b \in Seq(Int) /\ Len(e) = 0
  BY FlowLens, HoldsNone DEF Flow
<1>2. Holds(a, L, g) /\ Holds(q, L, g + Len(a)) /\ Holds(b, L, o + Len(e)) /\ o \in Nat
  BY <1>1 DEF Flow
<1>3. /\ Head(b) = Item(L, o + 1) /\ Head(b) \in Int /\ t \in Seq(Int)
      /\ Len(t) = Len(b) - 1 /\ Holds(t, L, o + 1)
  BY <1>1, <1>2, HoldsTail
<1>4. f \in Seq(Int) /\ Len(f) = 1 /\ Holds(f, L, o)
  BY <1>2, <1>3, HoldsOne
<1>5. Total(g, a, q, e, b) = L \/ Total(g, a, q, e, b) = L + 1
  BY DEF Flow
<1>6. Head(b) # None
  BY <1>2, <1>3 DEF Item, None, Eof
<1> HIDE DEF t, f, e
<1>7. Total(g, a, q, f, t) = Total(g, a, q, e, b)
  BY <1>1, <1>3, <1>4 DEF Total
<1>8. Flow(L, g, a, q, f, t)
  BY <1>1, <1>2, <1>3, <1>4, <1>5, <1>7 DEF Flow
<1> QED BY <1>6, <1>7, <1>8 DEF e, f, t

\* The mailbox is given up: what is left is a pipe again, of fewer messages.
LEMMA FlowDrop ==
  ASSUME NEW L \in Nat, NEW g \in Nat, NEW a, NEW q, NEW f, NEW b, Flow(L, g, a, q, f, b)
  PROVE  \E M \in 0 .. L : Flow(M, g, a, q, f, << >>)
<1> DEFINE e == << >>
           T == g + Len(a) + Len(q) + Len(f)
           M == IF T >= L THEN L ELSE T
<1>1. /\ Len(a) \in Nat /\ Len(q) \in Nat /\ Len(f) \in Nat /\ Len(b) \in Nat
      /\ a \in Seq(Int) /\ q \in Seq(Int) /\ f \in Seq(Int) /\ Len(e) = 0 /\ e \in Seq(Int)
  BY FlowLens, HoldsNone DEF Flow
<1>2. /\ Holds(a, L, g) /\ Holds(q, L, g + Len(a)) /\ Holds(f, L, g + Len(a) + Len(q))
      /\ T + Len(b) = L \/ T + Len(b) = L + 1
  BY DEF Flow, Total
<1>3. M \in 0 .. L /\ T \in Nat /\ M \in Nat /\ (T = M \/ T = M + 1)
  BY <1>1, <1>2
<1>4. Holds(a, M, g) /\ Holds(q, M, g + Len(a)) /\ Holds(f, M, g + Len(a) + Len(q))
  <2>1. CASE T >= L
    BY <1>2, <2>1
  <2>2. CASE ~ (T >= L)
    <3>1. M = T /\ T <= L
      BY <1>3, <2>2
    <3> HIDE DEF M
    <3> QED BY <1>1, <1>2, <1>3, <3>1, FlowData
  <2> QED BY <2>1, <2>2
<1> HIDE DEF M
<1>5. T + Len(e) = T
  BY <1>1, <1>3
<1>6. Total(g, a, q, f, e) = M \/ Total(g, a, q, f, e) = M + 1
  BY <1>3, <1>5 DEF Total
<1>7. Holds(e, M, T)
  BY HoldsNone
<1>8. Flow(M, g, a, q, f, e)
  BY <1>1, <1>4, <1>6, <1>7 DEF Flow
<1> QED BY <1>3, <1>8


\* The queue is made the end of the pipe, behind a message.
LEMMA FlowLast ==
  ASSUME NEW L \in Nat, NEW g \in Nat, NEW a, NEW q, NEW b, Flow(L, g, a, q, << >>, b),
         q # << >>, q[Len(q)] # Eof
  PROVE  \E M \in 0 .. L : Flow(M, g, a, Append(q, Eof), << >>, << >>)
<1> DEFINE e == << >>
           t == Append(q, Eof)
           M == g + Len(a) + Len(q)
<1>1. /\ Len(a) \in Nat /\ Len(q) \in Nat /\ Len(q) \in 1 .. Len(q)
      /\ a \in Seq(Int) /\ q \in Seq(Int) /\ Len(e) = 0 /\ e \in Seq(Int)
  BY FlowLens, HoldsNone DEF Flow
<1>2. Holds(a, L, g) /\ Holds(q, L, g + Len(a)) /\ Holds(e, L, M)
  BY HoldsNone DEF Flow
<1>3. M \in 0 .. L /\ M \in Nat
  <2>1. q[Len(q)] = Item(L, M)
    BY <1>1, <1>2 DEF Holds
  <2> QED BY <1>1, <2>1 DEF Item
<1>4. M + Len(e) <= L /\ M + Len(e) <= M
  BY <1>1, <1>3
<1>5. Holds(a, M, g) /\ Holds(q, M, g + Len(a))
  BY <1>1, <1>2, <1>3, <1>4, FlowData
<1>6. Eof = Item(M, M + 1) /\ Eof \in Int
  BY <1>3 DEF Item, Eof
<1> HIDE DEF M
<1>7. M = g + Len(a) + Len(q)
  BY DEF M
<1>8. t \in Seq(Int) /\ Len(t) = Len(q) + 1 /\ Holds(t, M, g + Len(a))
  BY <1>1, <1>3, <1>5, <1>6, <1>7, HoldsAppend
<1> HIDE DEF t, e
<1>9. Total(g, a, t, e, e) = M + 1
  BY <1>1, <1>3, <1>7, <1>8 DEF Total
<1>10. \A o : Holds(e, M, o)
  BY HoldsNone DEF e
<1>11. Flow(M, g, a, t, e, e)
  BY <1>1, <1>5, <1>8, <1>9, <1>10 DEF Flow
<1> QED BY <1>3, <1>11 DEF e, t

\* Behind an end of file that the read AST has found there is nothing.
LEMMA FlowEof ==
  ASSUME NEW L \in Nat, NEW g \in Nat, NEW a, NEW q, NEW b, Flow(L, g, a, q, <<Eof>>, b)
  PROVE  b = << >>
<1> DEFINE f == <<Eof>>
           o == g + Len(a) + Len(q)
<1>1. /\ Len(a) \in Nat /\ Len(q) \in Nat /\ Len(b) \in Nat /\ o \in Nat
      /\ Eof \in Int /\ Len(f) = 1 /\ b \in Seq(Int)
  BY FlowLens DEF Flow, Eof
<1>2. Eof = Item(L, o + 1)
  BY <1>1, HoldsOne DEF Flow
<1>3. o + 1 > L
  BY <1>1, <1>2 DEF Item, Eof
<1>4. o + 1 + Len(b) = L \/ o + 1 + Len(b) = L + 1
  BY <1>1 DEF Flow, Total
<1>5. Len(b) = 0
  BY <1>1, <1>3, <1>4
<1> QED BY <1>1, <1>5

\* The reader reads a message.
LEMMA FlowRead ==
  ASSUME NEW L \in Nat, NEW g \in Nat, NEW m \in Int, NEW q, NEW f, NEW b,
         Flow(L, g, <<m>>, q, f, b), m # Eof
  PROVE  /\ Flow(L, g + 1, << >>, q, f, b)
         /\ Total(g + 1, << >>, q, f, b) = Total(g, <<m>>, q, f, b)
         /\ m = g + 1 /\ m <= L
<1> DEFINE e == << >>
           a == <<m>>
<1>0. Len(a) = 1 /\ a \in Seq(Int) /\ Len(e) = 0 /\ e \in Seq(Int)
  OBVIOUS
<1>1. /\ Len(q) \in Nat /\ Len(f) \in Nat /\ Len(b) \in Nat
      /\ q \in Seq(Int) /\ f \in Seq(Int) /\ b \in Seq(Int)
  BY FlowLens DEF Flow
<1>2. /\ Holds(a, L, g) /\ Holds(q, L, g + Len(a)) /\ Holds(f, L, g + Len(a) + Len(q))
      /\ Holds(b, L, g + Len(a) + Len(q) + Len(f))
  BY DEF Flow
<1>3. m = g + 1 /\ m <= L
  BY <1>2, HoldsOne DEF Item
<1>4. Total(g, a, q, f, b) = L \/ Total(g, a, q, f, b) = L + 1
  BY DEF Flow
<1>5. Holds(e, L, g + 1)
  BY HoldsNone
<1> HIDE DEF a, e
<1>6. /\ g + 1 + Len(e) = g + Len(a) /\ g + 1 + Len(e) + Len(q) = g + Len(a) + Len(q)
      /\ g + 1 + Len(e) + Len(q) + Len(f) = g + Len(a) + Len(q) + Len(f)
  BY <1>0, <1>1
<1>7. Total(g + 1, e, q, f, b) = Total(g, a, q, f, b)
  BY <1>0, <1>1 DEF Total
<1>8. Flow(L, g + 1, e, q, f, b)
  BY <1>0, <1>1, <1>2, <1>4, <1>5, <1>6, <1>7 DEF Flow
<1> QED BY <1>3, <1>7, <1>8 DEF a, e

\* The reader reads the end of the file: there is nothing behind it.
LEMMA FlowReadEof ==
  ASSUME NEW L \in Nat, NEW g \in Nat, NEW q, NEW f, NEW b, Flow(L, g, <<Eof>>, q, f, b)
  PROVE  /\ Flow(L, g, << >>, q, f, b) /\ g = L
         /\ Total(g, << >>, q, f, b) = L /\ Total(g, <<Eof>>, q, f, b) = L + 1
<1> DEFINE e == << >>
           a == <<Eof>>
<1>0. Len(a) = 1 /\ a \in Seq(Int) /\ Len(e) = 0 /\ e \in Seq(Int) /\ Eof \in Int
  BY DEF Eof
<1>1. /\ Len(q) \in Nat /\ Len(f) \in Nat /\ Len(b) \in Nat
      /\ q \in Seq(Int) /\ f \in Seq(Int) /\ b \in Seq(Int)
  BY FlowLens DEF Flow
<1>2. Eof = Item(L, g + 1)
  BY <1>0, HoldsOne DEF Flow
<1>3. g + 1 > L
  BY <1>2 DEF Item, Eof
<1>4. Total(g, a, q, f, b) = L \/ Total(g, a, q, f, b) = L + 1
  BY DEF Flow
<1> HIDE DEF a, e
<1>5. g + 1 + Len(q) + Len(f) + Len(b) = L \/ g + 1 + Len(q) + Len(f) + Len(b) = L + 1
  BY <1>0, <1>4 DEF Total
<1>6. g = L /\ Len(q) = 0 /\ Len(f) = 0 /\ Len(b) = 0
  BY <1>1, <1>3, <1>5
<1>7. Total(g, e, q, f, b) = L /\ Total(g, a, q, f, b) = L + 1
  BY <1>0, <1>6 DEF Total
<1>8. \A o : Holds(e, L, o) /\ Holds(q, L, o) /\ Holds(f, L, o) /\ Holds(b, L, o)
  BY <1>0, <1>6 DEF Holds
<1>9. Flow(L, g, e, q, f, b)
  BY <1>0, <1>1, <1>7, <1>8 DEF Flow
<1> QED BY <1>6, <1>7, <1>9 DEF a, e

\* A message, or the end of the file, is written into the mailbox, ...
LEMMA FlowSend ==
  ASSUME NEW L \in Nat, NEW M \in Nat, L <= M, M <= L + 1, NEW g \in Nat, NEW a, NEW q,
         NEW f, NEW b, Flow(L, g, a, q, f, b), Total(g, a, q, f, b) = L,
         NEW m \in Int, m = Item(M, L + 1)
  PROVE  /\ Flow(M, g, a, q, f, Append(b, m))
         /\ Total(g, a, q, f, Append(b, m)) = L + 1
<1> DEFINE o == g + Len(a) + Len(q) + Len(f)
           t == Append(b, m)
<1>1. /\ Len(a) \in Nat /\ Len(q) \in Nat /\ Len(f) \in Nat /\ Len(b) \in Nat /\ o \in Nat
      /\ a \in Seq(Int) /\ q \in Seq(Int) /\ f \in Seq(Int) /\ b \in Seq(Int)
  BY FlowLens DEF Flow
<1>2. /\ Holds(a, L, g) /\ Holds(q, L, g + Len(a)) /\ Holds(f, L, g + Len(a) + Len(q))
      /\ Holds(b, L, o)
  BY DEF Flow
<1>3. o + Len(b) = L /\ o <= L /\ o <= M /\ o + Len(b) <= M
  BY <1>1 DEF Total
<1>4. Holds(a, M, g) /\ Holds(q, M, g + Len(a)) /\ Holds(f, M, g + Len(a) + Len(q))
  BY <1>1, <1>2, <1>3, FlowData
<1> HIDE DEF o
<1>5. Holds(b, M, o)
  BY <1>1, <1>2, <1>3, HoldsData
<1>6. t \in Seq(Int) /\ Len(t) = Len(b) + 1 /\ Holds(t, M, o)
  <2>1. m = Item(M, o + Len(b) + 1)
    BY <1>3
  <2> QED BY <1>1, <1>5, <2>1, HoldsAppend
<1> HIDE DEF t
<1>7. Total(g, a, q, f, t) = L + 1
  BY <1>1, <1>3, <1>6 DEF Total, o
<1>8. Total(g, a, q, f, t) = M \/ Total(g, a, q, f, t) = M + 1
  BY <1>7
<1>9. Flow(M, g, a, q, f, t)
  BY <1>1, <1>4, <1>6, <1>8 DEF Flow, o
<1> QED BY <1>7, <1>9 DEF t

\* ... or goes to the read that waits for it.
LEMMA FlowFind ==
  ASSUME NEW L \in Nat, NEW M \in Nat, L <= M, M <= L + 1, NEW g \in Nat, NEW a, NEW q,
         Flow(L, g, a, q, << >>, << >>), Total(g, a, q, << >>, << >>) = L,
         NEW m \in Int, m = Item(M, L + 1)
  PROVE  /\ Flow(M, g, a, q, <<m>>, << >>)
         /\ Total(g, a, q, <<m>>, << >>) = L + 1
<1> DEFINE e == << >>
           f == <<m>>
           o == g + Len(a) + Len(q)
<1>0. Len(f) = 1 /\ f \in Seq(Int) /\ Len(e) = 0 /\ e \in Seq(Int)
  OBVIOUS
<1>1. /\ Len(a) \in Nat /\ Len(q) \in Nat /\ o \in Nat
      /\ a \in Seq(Int) /\ q \in Seq(Int)
  BY FlowLens DEF Flow
<1>2. Holds(a, L, g) /\ Holds(q, L, g + Len(a)) /\ Holds(e, L, o)
  BY HoldsNone DEF Flow
<1>3. o = L /\ o + Len(e) <= L /\ o + Len(e) <= M
  BY <1>0, <1>1 DEF Total
<1>4. Holds(a, M, g) /\ Holds(q, M, g + Len(a))
  BY <1>0, <1>1, <1>2, <1>3, FlowData
<1>5. Holds(f, M, o)
  BY <1>1, <1>3, HoldsOne
<1>6. \A p : Holds(e, M, p)
  BY HoldsNone
<1> HIDE DEF e, f
<1>7. Total(g, a, q, f, e) = L + 1
  <2>1. Total(g, a, q, f, e) = o + Len(f) + Len(e)
    BY DEF Total
  <2> HIDE DEF o
  <2> QED BY <1>0, <1>1, <1>3, <2>1
<1>8. Flow(M, g, a, q, f, e)
  BY <1>0, <1>1, <1>4, <1>5, <1>6, <1>7 DEF Flow
<1> QED BY <1>7, <1>8 DEF e, f


-----------------------------------------------------------------------------
(* The pipe, from what the reader has read to the mailbox.                 *)

\* The pipe is that of all messages sent, and not only of the first of them.
InFull(c) == c.rchan \/ c.direction = 1

OnWay(a, q, f, b, c) ==
  \E L \in 0 .. sent :
    /\ Flow(L, Len(got), a, q, f, b)
    /\ InFull(c) => /\ L = sent
                    /\ Total(Len(got), a, q, f, b) = L + 1 => writer # "open"

Counted == got \in Seq(Int) /\ sent \in Nat

LEMMA OnWayWrite ==
  ASSUME Counted, NEW q, NEW f, NEW b, NEW c, OnWay(<< >>, q, f, b, c), q # << >>
  PROVE  OnWay(<<Head(q)>>, Tail(q), f, b, c)
<1> DEFINE g == Len(got)
<1>1. PICK L \in 0 .. sent :
        /\ Flow(L, g, << >>, q, f, b)
        /\ InFull(c) => L = sent /\ (Total(g, << >>, q, f, b) = L + 1 => writer # "open")
  BY DEF OnWay
<1>2. L \in Nat /\ g \in Nat
  BY DEF Counted
<1> HIDE DEF g
<1>3. /\ Flow(L, g, <<Head(q)>>, Tail(q), f, b)
      /\ Total(g, <<Head(q)>>, Tail(q), f, b) = Total(g, << >>, q, f, b)
  BY <1>1, <1>2, FlowWrite
<1> QED BY <1>1, <1>3 DEF OnWay, g

LEMMA OnWayQueue ==
  ASSUME Counted, NEW a, NEW q, NEW m \in Int, NEW b, NEW c, OnWay(a, q, <<m>>, b, c)
  PROVE  OnWay(a, Append(q, m), << >>, b, c)
<1> DEFINE g == Len(got)
<1>1. PICK L \in 0 .. sent :
        /\ Flow(L, g, a, q, <<m>>, b)
        /\ InFull(c) => L = sent /\ (Total(g, a, q, <<m>>, b) = L + 1 => writer # "open")
  BY DEF OnWay
<1>2. L \in Nat /\ g \in Nat
  BY DEF Counted
<1> HIDE DEF g
<1>3. /\ Flow(L, g, a, Append(q, m), << >>, b)
      /\ Total(g, a, Append(q, m), << >>, b) = Total(g, a, q, <<m>>, b)
  BY <1>1, <1>2, FlowQueue
<1> QED BY <1>1, <1>3 DEF OnWay, g

LEMMA OnWayTake ==
  ASSUME Counted, NEW a, NEW q, NEW b, NEW c, OnWay(a, q, << >>, b, c), b # << >>
  PROVE  OnWay(a, q, <<Head(b)>>, Tail(b), c) /\ Head(b) # None
<1> DEFINE g == Len(got)
<1>1. PICK L \in 0 .. sent :
        /\ Flow(L, g, a, q, << >>, b)
        /\ InFull(c) => L = sent /\ (Total(g, a, q, << >>, b) = L + 1 => writer # "open")
  BY DEF OnWay
<1>2. L \in Nat /\ g \in Nat
  BY DEF Counted
<1> HIDE DEF g
<1>3. /\ Flow(L, g, a, q, <<Head(b)>>, Tail(b)) /\ Head(b) # None
      /\ Total(g, a, q, <<Head(b)>>, Tail(b)) = Total(g, a, q, << >>, b)
  BY <1>1, <1>2, FlowTake
<1> QED BY <1>1, <1>3 DEF OnWay, g

LEMMA OnWayDrop ==
  ASSUME Counted, NEW a, NEW q, NEW f, NEW b, NEW c, OnWay(a, q, f, b, c),
         NEW d, ~ InFull(d)
  PROVE  OnWay(a, q, f, << >>, d)
<1> DEFINE g == Len(got)
<1>1. PICK L \in 0 .. sent : Flow(L, g, a, q, f, b)
  BY DEF OnWay
<1>2. L \in Nat /\ g \in Nat
  BY DEF Counted
<1> HIDE DEF g
<1>3. PICK M \in 0 .. L : Flow(M, g, a, q, f, << >>)
  BY <1>1, <1>2, FlowDrop
<1>4. M \in 0 .. sent
  BY <1>3 DEF Counted
<1> QED BY <1>3, <1>4 DEF OnWay, g

LEMMA OnWayLast ==
  ASSUME Counted, NEW a, NEW q, NEW b, NEW c, OnWay(a, q, << >>, b, c),
         q # << >>, q[Len(q)] # Eof, NEW d, ~ InFull(d)
  PROVE  OnWay(a, Append(q, Eof), << >>, << >>, d)
<1> DEFINE g == Len(got)
<1>1. PICK L \in 0 .. sent : Flow(L, g, a, q, << >>, b)
  BY DEF OnWay
<1>2. L \in Nat /\ g \in Nat
  BY DEF Counted
<1> HIDE DEF g
<1>3. PICK M \in 0 .. L : Flow(M, g, a, Append(q, Eof), << >>, << >>)
  BY <1>1, <1>2, FlowLast
<1>4. M \in 0 .. sent
  BY <1>3 DEF Counted
<1> QED BY <1>3, <1>4 DEF OnWay, g

LEMMA OnWayEof ==
  ASSUME Counted, NEW a, NEW q, NEW b, NEW c, OnWay(a, q, <<Eof>>, b, c)
  PROVE  b = << >>
<1> DEFINE g == Len(got)
<1>1. PICK L \in 0 .. sent : Flow(L, g, a, q, <<Eof>>, b)
  BY DEF OnWay
<1>2. L \in Nat /\ g \in Nat
  BY DEF Counted
<1> HIDE DEF g
<1> QED BY <1>1, <1>2, FlowEof

LEMMA OnWayTypes ==
  ASSUME Counted, NEW a, NEW q, NEW f, NEW b, NEW c, OnWay(a, q, f, b, c)
  PROVE  f \in Seq(Int)
BY DEF OnWay, Flow

-----------------------------------------------------------------------------
(* What the read AST has in its hand.                                      *)

\* f is what the read AST in q has found.
Hand(q, f) ==
  \/ f = << >> /\ \A i \in 1 .. Len(q) : q[i][1] = "read" => q[i][2] = None
  \/ \E i \in 1 .. Len(q) : q[i][1] = "read" /\ q[i][2] # None /\ f = <<q[i][2]>>

LEMMA HandEmpty ==
  ASSUME NEW q, None1(q, {"read"})
  PROVE  Hand(q, << >>) /\ \A f : Hand(q, f) => f = << >>
BY DEF Hand, None1

LEMMA HandAppend ==
  ASSUME NEW q \in Seq(Ast), NEW a \in Ast
  PROVE  /\ a[1] # "read" \/ a[2] = None =>
              \A f : Hand(q, f) => Hand(Append(q, a), f)
         /\ a[1] = "read" /\ a[2] # None => Hand(Append(q, a), <<a[2]>>)
<1> DEFINE t == Append(q, a)
<1>1. /\ Len(t) = Len(q) + 1 /\ Len(q) \in Nat /\ t[Len(q) + 1] = a
      /\ \A i \in 1 .. Len(q) : t[i] = q[i]
  OBVIOUS
<1> HIDE DEF t
<1>2. \A i \in 1 .. Len(t) : i \in 1 .. Len(q) \/ i = Len(q) + 1
  BY <1>1
<1>3. /\ Len(q) + 1 \in 1 .. Len(t)
      /\ \A i \in 1 .. Len(q) : i \in 1 .. Len(t)
  BY <1>1
<1>4. ASSUME a[1] # "read" \/ a[2] = None, NEW f, Hand(q, f) PROVE Hand(t, f)
  <2>1. CASE f = << >> /\ \A i \in 1 .. Len(q) : q[i][1] = "read" => q[i][2] = None
    BY <1>1, <1>2, <1>4, <2>1 DEF Hand
  <2>2. CASE \E i \in 1 .. Len(q) : q[i][1] = "read" /\ q[i][2] # None /\ f = <<q[i][2]>>
    <3>1. PICK i \in 1 .. Len(q) : q[i][1] = "read" /\ q[i][2] # None /\ f = <<q[i][2]>>
      BY <2>2
    <3>2. i \in 1 .. Len(t) /\ t[i] = q[i]
      BY <1>1, <1>3
    <3> QED BY <3>1, <3>2 DEF Hand
  <2> QED BY <1>4, <2>1, <2>2 DEF Hand
<1>5. ASSUME a[1] = "read", a[2] # None PROVE Hand(t, <<a[2]>>)
  BY <1>1, <1>3, <1>5 DEF Hand
<1> QED BY <1>4, <1>5 DEF t

\* The AST in front is delivered.
LEMMA HandTail ==
  ASSUME NEW q \in Seq(Ast), q # << >>, Once(q, {"read"}), NEW f, Hand(q, f)
  PROVE  /\ q[1][1] # "read" => Hand(Tail(q), f)
         /\ q[1][1] = "read" => f = IF q[1][2] = None THEN << >> ELSE <<q[1][2]>>
<1> DEFINE t == Tail(q)
<1>1. /\ Len(t) = Len(q) - 1 /\ Len(q) \in Nat /\ Len(q) >= 1
      /\ \A i \in 1 .. Len(t) : t[i] = q[i + 1] /\ i + 1 \in 1 .. Len(q)
  OBVIOUS
<1> HIDE DEF t
<1>2. \A i \in 1 .. Len(q) : i = 1 \/ (i - 1 \in 1 .. Len(t) /\ (i - 1) + 1 = i)
  BY <1>1
<1>3. 1 \in 1 .. Len(q)
  BY <1>1
<1>4. CASE f = << >> /\ \A i \in 1 .. Len(q) : q[i][1] = "read" => q[i][2] = None
  BY <1>1, <1>3, <1>4 DEF Hand, t
<1>5. CASE \E i \in 1 .. Len(q) : q[i][1] = "read" /\ q[i][2] # None /\ f = <<q[i][2]>>
  <2>1. PICK i \in 1 .. Len(q) : q[i][1] = "read" /\ q[i][2] # None /\ f = <<q[i][2]>>
    BY <1>5
  <2>2. ASSUME q[1][1] # "read" PROVE Hand(t, f)
    <3>1. i - 1 \in 1 .. Len(t) /\ t[i - 1] = q[i]
      BY <1>1, <1>2, <2>1, <2>2
    <3> QED BY <2>1, <3>1 DEF Hand
  <2>3. q[1][1] = "read" => i = 1
    BY <1>3, <2>1 DEF Once
  <2> QED BY <2>1, <2>2, <2>3 DEF t
<1> QED BY <1>4, <1>5 DEF Hand

\* An AST that may wait, in a pipe of direction d with a mailbox b and a writer w, as long
\* as the reader reads: to a child its parent closes the pipe when it has written everything.
Just(a, d, b, w) ==
  /\ a[1] = "write" => a[2] = TRUE
  /\ d = 1 /\ a[1] = "jpi" => a[2] = TRUE
  /\ d = 1 /\ a[1] = "read" /\ a[2] = None => b = << >> /\ w = "closed"
Justs(q, d, b, w) == \A i \in 1 .. Len(q) : Just(q[i], d, b, w)

LEMMA JustsAppend ==
  ASSUME NEW q \in Seq(Ast), NEW a \in Ast, NEW d, NEW b, NEW w, Justs(q, d, b, w), Just(a, d, b, w)
  PROVE  Justs(Append(q, a), d, b, w)
<1>1. /\ Len(Append(q, a)) = Len(q) + 1 /\ Len(q) \in Nat /\ Append(q, a)[Len(q) + 1] = a
      /\ \A i \in 1 .. Len(q) : Append(q, a)[i] = q[i]
  OBVIOUS
<1>2. \A i \in 1 .. Len(q) + 1 : i \in 1 .. Len(q) \/ i = Len(q) + 1
  BY <1>1
<1> QED BY <1>1, <1>2 DEF Justs

LEMMA JustsTail ==
  ASSUME NEW q \in Seq(Ast), q # << >>, NEW d, NEW b, NEW w, Justs(q, d, b, w)
  PROVE  Justs(Tail(q), d, b, w) /\ Just(q[1], d, b, w)
<1>1. /\ Len(Tail(q)) = Len(q) - 1 /\ Len(q) \in Nat /\ 1 \in 1 .. Len(q)
      /\ \A i \in 1 .. Len(Tail(q)) : Tail(q)[i] = q[i + 1] /\ i + 1 \in 1 .. Len(q)
  OBVIOUS
<1> QED BY <1>1 DEF Justs


-----------------------------------------------------------------------------
(* The invariant of the pipe, on the record that the routines run on.      *)

Active(c) == IF c.writing THEN <<c.active>> ELSE << >>
Box(s) == IF s.c.rchan THEN s.box ELSE << >>

\* The channels are given up at the end, and in a pipe to the child the child is alive.
Channels(c, b) ==
  /\ ~ c.rchan => c.watch = -1 \/ c.read = -1
  /\ c.reading => b = << >> /\ c.rchan
  /\ ~ c.wchan => c.queue = << >> /\ c.read = -1
  /\ c.direction = 1 => /\ alive /\ writer # "killed"
                        /\ c.watch # -1 /\ (c.watch # 0 => c.knows)
                        /\ c.read = -1 => b = << >> /\ writer = "closed"

\* As long as the reader reads, with f in the hand of the read AST.
Good(s, f) ==
  /\ OnWay(Active(s.c), s.c.queue, f, Box(s), s.c)
  /\ Channels(s.c, s.box)
  /\ Justs(s.asts, s.c.direction, s.box, writer)

\* A change that the pipe does not see.
Unseen(s, t) ==
  /\ t.box = s.box /\ Active(t.c) = Active(s.c) /\ t.c.queue = s.c.queue
  /\ t.c.rchan = s.c.rchan /\ t.c.direction = s.c.direction

LEMMA UnseenGood ==
  ASSUME NEW s, NEW t, NEW f, Good(s, f), Unseen(s, t), t.asts = s.asts,
         Channels(t.c, t.box)
  PROVE  Good(t, f)
<1>1. Box(t) = Box(s)
  BY DEF Unseen, Box
<1>2. \A a, q, b : OnWay(a, q, f, b, s.c) => OnWay(a, q, f, b, t.c)
  BY DEF Unseen, OnWay, InFull
<1> QED BY <1>1, <1>2 DEF Unseen, Good

\* SYS$QIO of a read: the read has found something, or waits.
LEMMA QioReadGood ==
  ASSUME Counted, NEW s, Sound(s), NoRead(s), Good(s, << >>),
         s.c.read >= 0, s.c.watch >= 0
  PROVE  \E f \in Seq(Int) : Hand(QioRead(s).asts, f) /\ Good(QioRead(s), f)
<1> DEFINE t == QioRead(s)
<1>0. /\ Types(s) /\ s.c \in Context /\ s.box \in Seq(Int) /\ s.asts \in Seq(Ast)
      /\ s.c.read \in {-1, 0} /\ s.c.watch \in {-1, 0, 1, 2}
  BY StatusTypes DEF Sound, Chains, Types
<1>1. s = [c |-> s.c, box |-> s.box, asts |-> s.asts]
  BY <1>0 DEF Types
<1>2. s.c.rchan /\ s.c.wchan /\ ~ s.c.reading
  BY <1>0 DEF Good, Channels, NoRead, Ended
<1>3. None1(s.asts, {"read"})
  BY DEF NoRead, Ended
<1>4. OnWay(Active(s.c), s.c.queue, << >>, s.box, s.c)
  BY <1>2 DEF Good, Box
<1>5. CASE s.box # << >>
  <2> DEFINE m == Head(s.box)
             b == Tail(s.box)
             a == <<"read", m>>
  <2>1. t = [c |-> s.c, box |-> b, asts |-> Append(s.asts, a)]
    BY <1>0, <1>1, <1>5 DEF QioRead
  <2>2. OnWay(Active(s.c), s.c.queue, <<m>>, b, s.c) /\ m # None
    BY <1>4, <1>5, OnWayTake
  <2>3. m \in Int
    BY <1>0, <1>5
  <2>4. a \in Ast /\ a[1] = "read" /\ a[2] = m
    BY <2>3 DEF Ast
  <2> HIDE DEF a, b, m
  <2>5. t.c = s.c /\ t.box = b /\ t.asts = Append(s.asts, a)
    BY <2>1
  <2> HIDE DEF t
  <2>6. Hand(t.asts, <<m>>)
    BY <1>0, <2>2, <2>4, <2>5, HandAppend
  <2>7. Justs(s.asts, s.c.direction, b, writer)
    BY <1>3 DEF Justs, Just, Good, None1
  <2>8. Just(a, s.c.direction, b, writer)
    BY <2>2, <2>4 DEF Just
  <2>9. Justs(t.asts, t.c.direction, t.box, writer)
    BY <1>0, <2>4, <2>5, <2>7, <2>8, JustsAppend
  <2>10. Channels(t.c, t.box)
    BY <1>0, <1>2, <2>5 DEF Good, Channels
  <2>11. Good(t, <<m>>)
    BY <1>2, <2>2, <2>5, <2>9, <2>10 DEF Good, Box
  <2>12. <<m>> \in Seq(Int)
    BY <2>3
  <2> QED BY <2>6, <2>11, <2>12 DEF t
<1>6. CASE s.box = << >> /\ NoWriter
  <2> DEFINE a == <<"read", None>>
  <2>1. t = [c |-> s.c, box |-> s.box, asts |-> Append(s.asts, a)]
    BY <1>0, <1>1, <1>6 DEF QioRead
  <2>2. a \in Ast /\ a[1] = "read" /\ a[2] = None
    BY DEF Ast, None
  <2> HIDE DEF a
  <2>3. t.c = s.c /\ t.box = s.box /\ t.asts = Append(s.asts, a)
    BY <2>1
  <2> HIDE DEF t
  <2>4. Hand(t.asts, << >>)
    BY <1>0, <1>3, <2>2, <2>3, HandAppend, HandEmpty
  <2>5. s.c.direction = 1 => writer = "closed"
    BY <1>6 DEF Good, Channels, NoWriter
  <2>6. Just(a, s.c.direction, s.box, writer)
    BY <1>6, <2>2, <2>5 DEF Just
  <2>7. Justs(t.asts, t.c.direction, t.box, writer)
    BY <1>0, <2>2, <2>3, <2>6, JustsAppend DEF Good
  <2>8. Good(t, << >>)
    BY <1>2, <1>4, <2>3, <2>7 DEF Good, Box
  <2>9. << >> \in Seq(Int)
    OBVIOUS
  <2> QED BY <2>4, <2>8, <2>9 DEF t
<1>7. CASE s.box = << >> /\ ~ NoWriter
  <2> DEFINE d == [s.c EXCEPT !.reading = TRUE]
  <2>1. t = [c |-> d, box |-> s.box, asts |-> s.asts]
    BY <1>0, <1>1, <1>7 DEF QioRead
  <2>2. /\ d.read = s.c.read /\ d.watch = s.c.watch /\ d.queue = s.c.queue
        /\ d.direction = s.c.direction /\ d.active = s.c.active
    BY <1>0 DEF Context
  <2>3. d.rchan = s.c.rchan
    BY <1>0 DEF Context
  <2>4. d.wchan = s.c.wchan
    BY <1>0 DEF Context
  <2>5. d.writing = s.c.writing
    BY <1>0 DEF Context
  <2>6. d.knows = s.c.knows
    BY <1>0 DEF Context
  <2> HIDE DEF d
  <2>7. t.c = d /\ t.box = s.box /\ t.asts = s.asts
    BY <2>1
  <2> HIDE DEF t
  <2>8. Unseen(s, t)
    BY <2>2, <2>3, <2>5, <2>7 DEF Unseen, Active
  <2>9. Channels(t.c, t.box)
    BY <1>2, <1>7, <2>2, <2>3, <2>4, <2>6, <2>7 DEF Good, Channels
  <2>10. Good(t, << >>)
    BY <2>7, <2>8, <2>9, UnseenGood
  <2>11. Hand(t.asts, << >>)
    BY <1>3, <2>7, HandEmpty
  <2>12. << >> \in Seq(Int)
    OBVIOUS
  <2> QED BY <2>10, <2>11, <2>12 DEF t
<1> QED BY <1>5, <1>6, <1>7

\* SYS$QIO of a write, of the buffer that was the head of the queue.
LEMMA WriteNextGood ==
  ASSUME Counted, reader, NEW s, Sound(s), s.c.write = 0, NEW f, Good(s, f)
  PROVE  Good(WriteNext(s), f) /\ WriteNext(s).asts = s.asts
<1> DEFINE t == WriteNext(s)
<1>0. /\ Types(s) /\ s.c \in Context /\ s.box \in Seq(Int) /\ s.asts \in Seq(Ast)
      /\ s.c.read \in {-1, 0} /\ s.c.queue \in Seq(Int)
  BY StatusTypes DEF Sound, Chains, Types
<1>1. s = [c |-> s.c, box |-> s.box, asts |-> s.asts]
  BY <1>0 DEF Types
<1>2. ~ s.c.writing /\ Active(s.c) = << >>
  BY DEF Sound, Chains, Writes, NoWrite, Ended, Active
<1>3. CASE s.c.queue # << >>
  <2>0. s.c.wchan
    BY <1>3 DEF Good, Channels
  <2> DEFINE h == Head(s.c.queue)
             q == Tail(s.c.queue)
             e == [s.c EXCEPT !.write = 1, !.active = h, !.queue = q]
             d == [e EXCEPT !.writing = TRUE]
  <2>1. t = [c |-> d, box |-> s.box, asts |-> s.asts]
    <3>1. t = QioWrite([s EXCEPT !.c = e])
      BY <1>3, <2>0 DEF WriteNext
    <3> HIDE DEF e, d, t
    <3>2. [s EXCEPT !.c = e] = [c |-> e, box |-> s.box, asts |-> s.asts]
      BY <1>1
    <3>3. t = [c |-> [e EXCEPT !.writing = TRUE], box |-> s.box, asts |-> s.asts]
      BY <3>1, <3>2 DEF QioWrite
    <3> QED BY <3>3 DEF d
  <2>2. h \in Int /\ q \in Seq(Int)
    BY <1>0, <1>3
  <2>3. OnWay(<<h>>, q, f, Box(s), s.c)
    BY <1>2, <1>3, OnWayWrite DEF Good
  <2> HIDE DEF h, q
  <2>4. e \in Context
    BY <1>0, <2>2 DEF Context
  <2>5. e.active = h /\ e.queue = q
    BY <1>0 DEF Context
  <2>6. e.read = s.c.read /\ e.watch = s.c.watch /\ e.direction = s.c.direction
    BY <1>0 DEF Context
  <2>7. e.rchan = s.c.rchan /\ e.reading = s.c.reading
    BY <1>0 DEF Context
  <2>8. e.wchan = s.c.wchan /\ e.knows = s.c.knows
    BY <1>0 DEF Context
  <2> HIDE DEF e
  <2>9. d.active = h /\ d.queue = q /\ d.writing
    BY <2>4, <2>5 DEF Context
  <2>10. d.read = s.c.read /\ d.watch = s.c.watch /\ d.direction = s.c.direction
    BY <2>4, <2>6 DEF Context
  <2>11. d.rchan = s.c.rchan /\ d.reading = s.c.reading
    BY <2>4, <2>7 DEF Context
  <2>12. d.wchan = s.c.wchan /\ d.knows = s.c.knows
    BY <2>4, <2>8 DEF Context
  <2> HIDE DEF d
  <2>13. t.c = d /\ t.box = s.box /\ t.asts = s.asts
    BY <2>1
  <2> HIDE DEF t
  <2>14. Active(t.c) = <<h>> /\ Box(t) = Box(s)
    BY <2>9, <2>11, <2>13 DEF Active, Box
  <2>15. OnWay(<<h>>, q, f, Box(s), d)
    BY <2>3, <2>10, <2>11 DEF OnWay, InFull
  <2>16. Channels(t.c, t.box)
    BY <2>0, <2>10, <2>11, <2>12, <2>13 DEF Good, Channels
  <2>17. Justs(t.asts, t.c.direction, t.box, writer)
    BY <2>10, <2>13 DEF Good
  <2>18. Good(t, f)
    BY <2>9, <2>13, <2>14, <2>15, <2>16, <2>17 DEF Good
  <2> QED BY <2>13, <2>18 DEF t
<1>4. CASE s.c.queue = << >> /\ s.c.read < 0
  <2> DEFINE d == [s.c EXCEPT !.wchan = FALSE, !.freed = s.c.watch <= 0]
  <2>1. t = [c |-> d, box |-> s.box, asts |-> s.asts]
    <3>1. t = [s EXCEPT !.c = d]
      BY <1>4 DEF WriteNext, Finish
    <3> HIDE DEF d, t
    <3> QED BY <1>1, <3>1
  <2>2. d.read = s.c.read /\ d.watch = s.c.watch /\ d.direction = s.c.direction
    BY <1>0 DEF Context
  <2>3. d.rchan = s.c.rchan /\ d.reading = s.c.reading
    BY <1>0 DEF Context
  <2>4. d.queue = s.c.queue /\ d.active = s.c.active
    BY <1>0 DEF Context
  <2>5. d.writing = s.c.writing /\ d.knows = s.c.knows
    BY <1>0 DEF Context
  <2> HIDE DEF d
  <2>6. t.c = d /\ t.box = s.box /\ t.asts = s.asts
    BY <2>1
  <2> HIDE DEF t
  <2>7. Unseen(s, t)
    BY <2>2, <2>3, <2>4, <2>5, <2>6 DEF Unseen, Active
  <2>8. Channels(t.c, t.box)
    BY <1>0, <1>4, <2>2, <2>3, <2>4, <2>5, <2>6 DEF Good, Channels
  <2>9. Good(t, f)
    BY <2>6, <2>7, <2>8, UnseenGood
  <2> QED BY <2>6, <2>9 DEF t
<1>5. CASE s.c.queue = << >> /\ ~ (s.c.read < 0)
  BY <1>5 DEF WriteNext
<1> QED BY <1>3, <1>4, <1>5

LEMMA StartWriteGood ==
  ASSUME Counted, reader, NEW s, Sound(s), NEW f, Good(s, f)
  PROVE  Good(StartWrite(s), f) /\ StartWrite(s).asts = s.asts
BY WriteNextGood DEF StartWrite


LEMMA NextReadGood ==
  ASSUME Counted, reader, NEW s, Sound(s), NoRead(s), s.c.read >= 0, Good(s, << >>)
  PROVE  \E f \in Seq(Int) : Hand(NextRead(s).asts, f) /\ Good(NextRead(s), f)
<1>0. /\ Types(s) /\ Reads(s) /\ Writes(s) /\ Watches(s) /\ ~ s.c.freed /\ s.c \in Context
      /\ s.c.read \in {-1, 0} /\ s.c.watch \in {-1, 0, 1, 2}
  BY StatusTypes DEF Sound, Chains
<1>1. CASE s.c.watch >= 0
  BY <1>1, QioReadGood DEF NextRead
<1>2. CASE ~ (s.c.watch >= 0)
  <2> DEFINE d == [s.c EXCEPT !.read = -1]
             t == [s EXCEPT !.c = d]
  <2>1. NextRead(s) = StartWrite(t)
    BY <1>2 DEF NextRead
  <2>2. /\ d \in Context /\ d.write = s.c.write /\ d.watch = s.c.watch
        /\ d.reading = s.c.reading /\ d.writing = s.c.writing /\ d.lookup = s.c.lookup
        /\ d.timer = s.c.timer /\ d.freed = s.c.freed
    BY <1>0 DEF Context
  <2>3. d.direction = s.c.direction /\ d.queue = s.c.queue /\ d.active = s.c.active
    BY <1>0 DEF Context
  <2>4. d.rchan = s.c.rchan
    BY <1>0 DEF Context
  <2>5. d.wchan = s.c.wchan /\ d.read = -1
    BY <1>0 DEF Context
  <2>6. s.c.watch = -1
    BY <1>0, <1>2
  <2> HIDE DEF d
  <2>7. Types(t) /\ t.c = d /\ t.box = s.box /\ t.asts = s.asts
    BY <1>0, <2>2, Update
  <2> HIDE DEF t
  <2>8. Sound(t)
    BY <1>0, <2>2, <2>7, SameAsts DEF Sound, Chains, Reads, Writes, Watches
  <2>9. Unseen(s, t)
    BY <2>2, <2>3, <2>4, <2>7 DEF Unseen, Active
  <2>10. Channels(t.c, t.box)
    BY <2>2, <2>3, <2>4, <2>5, <2>6, <2>7 DEF Good, Channels
  <2>11. Good(t, << >>)
    BY <2>7, <2>9, <2>10, UnseenGood
  <2>12. Good(StartWrite(t), << >>) /\ StartWrite(t).asts = s.asts
    BY <2>7, <2>8, <2>11, StartWriteGood
  <2>13. Hand(s.asts, << >>)
    BY HandEmpty DEF NoRead, Ended
  <2>14. << >> \in Seq(Int)
    OBVIOUS
  <2> QED BY <2>1, <2>12, <2>13, <2>14
<1> QED BY <1>1, <1>2

\* SYS$DASSGN of the channel: what is in the mailbox is lost; in a pipe to the child
\* there is nothing.
LEMMA DeassignReadGood ==
  ASSUME Counted, NEW s, Sound(s), NEW f, Good(s, f), s.c.watch = -1 \/ s.c.read = -1
  PROVE  /\ Good(DeassignRead(s), f)
         /\ Hand(s.asts, f) => Hand(DeassignRead(s).asts, f)
<1> DEFINE t == DeassignRead(s)
           d == [s.c EXCEPT !.rchan = FALSE, !.reading = FALSE]
           a == <<"read", None>>
<1>0. Types(s) /\ s.c \in Context /\ s.box \in Seq(Int) /\ s.asts \in Seq(Ast)
  BY DEF Sound, Chains, Types
<1>1. s = [c |-> s.c, box |-> s.box, asts |-> s.asts]
  BY <1>0 DEF Types
<1>2. /\ d.read = s.c.read /\ d.watch = s.c.watch /\ d.direction = s.c.direction
      /\ d.queue = s.c.queue /\ d.active = s.c.active
  BY <1>0 DEF Context
<1>3. ~ d.rchan /\ ~ d.reading
  BY <1>0 DEF Context
<1>4. d.writing = s.c.writing
  BY <1>0 DEF Context
<1>5. d.wchan = s.c.wchan /\ d.knows = s.c.knows
  BY <1>0 DEF Context
<1>6. t = [c |-> d, box |-> s.box,
           asts |-> IF s.c.reading THEN Append(s.asts, a) ELSE s.asts]
  <2> DEFINE q == IF s.c.reading THEN Append(s.asts, a) ELSE s.asts
  <2>1. t = [s EXCEPT !.c = d, !.asts = q]
    BY DEF DeassignRead
  <2> HIDE DEF t, d, q
  <2>2. t = [c |-> d, box |-> s.box, asts |-> q]
    BY <1>1, <2>1
  <2> QED BY <2>2 DEF q
<1>7. a \in Ast /\ a[1] = "read" /\ a[2] = None
  BY DEF Ast, None
<1> HIDE DEF d, a
<1>8. /\ t.c = d /\ t.box = s.box
      /\ t.asts = IF s.c.reading THEN Append(s.asts, a) ELSE s.asts
  BY <1>6
<1> HIDE DEF t
<1>9. s.c.direction = 1 => s.box = << >> /\ writer = "closed"
  BY DEF Good, Channels
<1>10. Active(t.c) = Active(s.c) /\ Box(t) = << >>
  BY <1>2, <1>3, <1>4, <1>8 DEF Active, Box
<1>11. OnWay(Active(s.c), s.c.queue, f, << >>, d)
  <2>1. CASE s.c.direction = 1
    <3>1. Box(s) = << >> /\ InFull(s.c)
      BY <1>9, <2>1 DEF Box, InFull
    <3>2. OnWay(Active(s.c), s.c.queue, f, << >>, s.c)
      BY <3>1 DEF Good
    <3> QED BY <3>1, <3>2 DEF OnWay
  <2>2. CASE s.c.direction # 1
    <3>1. ~ InFull(d)
      BY <1>2, <1>3, <2>2 DEF InFull
    <3> QED BY <3>1, OnWayDrop DEF Good
  <2> QED BY <2>1, <2>2
<1>12. Channels(t.c, t.box)
  BY <1>2, <1>3, <1>5, <1>8 DEF Good, Channels
<1>13. Just(a, s.c.direction, s.box, writer)
  BY <1>7, <1>9 DEF Just
<1>14. Justs(t.asts, t.c.direction, t.box, writer)
  BY <1>0, <1>2, <1>7, <1>8, <1>13, JustsAppend DEF Good
<1>15. Good(t, f)
  BY <1>2, <1>8, <1>10, <1>11, <1>12, <1>14 DEF Good
<1>16. Hand(s.asts, f) => Hand(t.asts, f)
  BY <1>0, <1>7, <1>8, HandAppend
<1> QED BY <1>15, <1>16 DEF t

LEMMA CheckIfChildIsAliveGood ==
  ASSUME Counted, NEW s, Sound(s), NoWatch(s), s.c.watch >= 1, NEW f, Good(s, f),
         NEW gone \in BOOLEAN, s.c.direction = 1 => ~ gone
  PROVE  LET t == CheckIfChildIsAlive(s, gone) IN
         Good(t, f) /\ (Hand(s.asts, f) => Hand(t.asts, f))
<1> DEFINE t == CheckIfChildIsAlive(s, gone)
<1>0. /\ Types(s) /\ Reads(s) /\ Writes(s) /\ Watches(s) /\ ~ s.c.freed
      /\ s.c \in Context /\ s.c.read \in {-1, 0} /\ s.c.write \in {0, 1}
      /\ s.c.watch \in {-1, 0, 1, 2}
  BY StatusTypes DEF Sound, Chains
<1>1. CASE s.c.read >= 0 /\ gone
  <2> DEFINE d == [s.c EXCEPT !.watch = -1]
             u == [s EXCEPT !.c = d]
  <2>1. t = DeassignRead(u)
    BY <1>0, <1>1 DEF CheckIfChildIsAlive
  <2>2. /\ d \in Context /\ d.write = s.c.write /\ d.read = s.c.read /\ d.watch = -1
        /\ d.reading = s.c.reading /\ d.writing = s.c.writing /\ d.lookup = s.c.lookup
        /\ d.timer = s.c.timer /\ d.freed = s.c.freed
    BY <1>0 DEF Context
  <2>3. d.direction = s.c.direction /\ d.queue = s.c.queue /\ d.active = s.c.active
    BY <1>0 DEF Context
  <2>4. d.rchan = s.c.rchan
    BY <1>0 DEF Context
  <2>5. d.wchan = s.c.wchan
    BY <1>0 DEF Context
  <2> HIDE DEF d
  <2>6. Types(u) /\ u.c = d /\ u.box = s.box /\ u.asts = s.asts
    BY <1>0, <2>2, Update
  <2> HIDE DEF u, t
  <2>7. Sound(u)
    BY <1>0, <2>2, <2>6, SameAsts DEF Sound, Chains, Reads, Writes, Watches
  <2>8. Unseen(s, u)
    BY <2>2, <2>3, <2>4, <2>6 DEF Unseen, Active
  <2>9. Channels(u.c, u.box)
    BY <1>1, <2>2, <2>3, <2>4, <2>5, <2>6 DEF Good, Channels
  <2>10. Good(u, f)
    BY <2>6, <2>8, <2>9, UnseenGood
  <2> QED BY <2>1, <2>2, <2>6, <2>7, <2>10, DeassignReadGood DEF t
<1>2. CASE s.c.read >= 0 /\ ~ gone
  <2> DEFINE d == [s.c EXCEPT !.watch = 1, !.lookup = TRUE]
  <2>1. t = [s EXCEPT !.c = d]
    BY <1>0, <1>2 DEF CheckIfChildIsAlive
  <2>2. /\ d \in Context /\ d.read = s.c.read /\ d.watch = 1
        /\ d.reading = s.c.reading /\ d.writing = s.c.writing
    BY <1>0 DEF Context
  <2>3. d.direction = s.c.direction /\ d.queue = s.c.queue /\ d.active = s.c.active
    BY <1>0 DEF Context
  <2>4. d.rchan = s.c.rchan
    BY <1>0 DEF Context
  <2>5. d.wchan = s.c.wchan /\ d.knows = s.c.knows
    BY <1>0 DEF Context
  <2> HIDE DEF d
  <2>6. t.c = d /\ t.box = s.box /\ t.asts = s.asts
    BY <1>0, <2>1, <2>2, Update
  <2> HIDE DEF t
  <2>7. Unseen(s, t)
    BY <2>2, <2>3, <2>4, <2>6 DEF Unseen, Active
  <2>8. s.c.rchan /\ s.c.wchan
    BY <1>0, <1>2 DEF Good, Channels
  <2>9. /\ s.c.reading => s.box = << >>
        /\ s.c.direction = 1 => alive /\ writer # "killed" /\ s.c.knows
    BY <1>0 DEF Good, Channels
  <2>10. d.rchan /\ d.wchan /\ d.read # -1
    BY <1>2, <2>2, <2>4, <2>5, <2>8
  <2>11. Channels(d, s.box)
    BY <2>2, <2>3, <2>5, <2>9, <2>10 DEF Channels
  <2> QED BY <2>6, <2>7, <2>11, UnseenGood DEF t
<1>3. CASE ~ (s.c.read >= 0)
  BY <1>0, <1>3 DEF CheckIfChildIsAlive
<1> QED BY <1>1, <1>2, <1>3

LEMMA StartChildWatcherGood ==
  ASSUME Counted, NEW s, Sound(s), NEW f, Good(s, f), NEW gone \in BOOLEAN,
         s.c.direction = 1 => ~ gone
  PROVE  LET t == StartChildWatcher(s, TRUE, gone) IN
         Good(t, f) /\ (Hand(s.asts, f) => Hand(t.asts, f))
<1> DEFINE t == StartChildWatcher(s, TRUE, gone)
<1>0. /\ Types(s) /\ Reads(s) /\ Writes(s) /\ Watches(s) /\ ~ s.c.freed /\ s.c \in Context
  BY StatusTypes DEF Sound, Chains
<1>1. CASE s.c.watch = 0
  <2> DEFINE d == [s.c EXCEPT !.watch = 1, !.knows = TRUE]
             u == [s EXCEPT !.c = d]
  <2>1. t = CheckIfChildIsAlive(u, gone)
    BY <1>1 DEF StartChildWatcher
  <2>2. /\ d \in Context /\ d.write = s.c.write /\ d.read = s.c.read /\ d.watch = 1
        /\ d.reading = s.c.reading /\ d.writing = s.c.writing /\ d.lookup = s.c.lookup
        /\ d.timer = s.c.timer /\ d.freed = s.c.freed
    BY <1>0 DEF Context
  <2>3. d.direction = s.c.direction /\ d.queue = s.c.queue /\ d.active = s.c.active
    BY <1>0 DEF Context
  <2>4. d.rchan = s.c.rchan
    BY <1>0 DEF Context
  <2>5. d.wchan = s.c.wchan /\ d.knows
    BY <1>0 DEF Context
  <2> HIDE DEF d
  <2>6. Types(u) /\ u.c = d /\ u.box = s.box /\ u.asts = s.asts
    BY <1>0, <2>2, Update
  <2> HIDE DEF u, t
  <2>7. Sound(u) /\ NoWatch(u)
    BY <1>0, <1>1, <2>2, <2>6, SameAsts DEF Sound, Chains, Reads, Writes, Watches
  <2>8. Unseen(s, u)
    BY <2>2, <2>3, <2>4, <2>6 DEF Unseen, Active
  <2>9. Channels(u.c, u.box)
    BY <1>1, <2>2, <2>3, <2>4, <2>5, <2>6 DEF Good, Channels
  <2>10. Good(u, f)
    BY <2>6, <2>8, <2>9, UnseenGood
  <2>11. u.c.watch >= 1 /\ (u.c.direction = 1 => ~ gone)
    BY <2>2, <2>3, <2>6
  <2> QED BY <2>1, <2>6, <2>7, <2>10, <2>11, CheckIfChildIsAliveGood DEF t
<1>2. CASE s.c.watch # 0
  BY <1>2 DEF StartChildWatcher
<1> QED BY <1>1, <1>2

LEMMA WatchWriterGood ==
  ASSUME Counted, NEW s, Sound(s), NEW f, Good(s, f), NEW gone \in BOOLEAN
  PROVE  Good(WatchWriter(s, gone), f)
<1>1. CASE s.c.direction = 0
  <2>1. s.c.direction = 1 => ~ gone
    BY <1>1
  <2> QED BY <1>1, <2>1, StartChildWatcherGood DEF WatchWriter
<1>2. CASE s.c.direction # 0
  BY <1>2 DEF WatchWriter
<1> QED BY <1>1, <1>2


LEMMA EnqueueGood ==
  ASSUME Counted, NEW s, Sound(s), s.c.read >= 0, NEW m \in Int, Good(s, <<m>>)
  PROVE  LET t == Enqueue(s, m) IN
         /\ Good(t, << >>) /\ t.c.watch = s.c.watch
         /\ t.c.queue # << >> /\ t.c.queue[Len(t.c.queue)] = m
<1> DEFINE q == Append(s.c.queue, m)
           d == [s.c EXCEPT !.queue = q]
           t == [s EXCEPT !.c = d]
<1>0. /\ Types(s) /\ s.c \in Context /\ s.c.read \in {-1, 0} /\ s.c.queue \in Seq(Int)
  BY StatusTypes DEF Sound, Chains
<1>1. Enqueue(s, m) = t
  BY DEF Enqueue
<1>2. q \in Seq(Int) /\ q # << >> /\ q[Len(q)] = m
  BY <1>0
<1>3. OnWay(Active(s.c), q, << >>, Box(s), s.c)
  BY OnWayQueue DEF Good
<1> HIDE DEF q
<1>4. /\ d \in Context /\ d.read = s.c.read /\ d.watch = s.c.watch /\ d.queue = q
      /\ d.direction = s.c.direction /\ d.active = s.c.active
  BY <1>0, <1>2 DEF Context
<1>5. d.rchan = s.c.rchan /\ d.reading = s.c.reading
  BY <1>0 DEF Context
<1>6. d.wchan = s.c.wchan /\ d.knows = s.c.knows
  BY <1>0 DEF Context
<1>7. d.writing = s.c.writing
  BY <1>0 DEF Context
<1> HIDE DEF d
<1>8. t.c = d /\ t.box = s.box /\ t.asts = s.asts
  BY <1>0, <1>4, Update
<1> HIDE DEF t
<1>9. Active(t.c) = Active(s.c) /\ Box(t) = Box(s)
  BY <1>4, <1>5, <1>7, <1>8 DEF Active, Box
<1>10. OnWay(Active(s.c), q, << >>, Box(s), d)
  BY <1>3, <1>4, <1>5 DEF OnWay, InFull
<1>11. s.c.wchan
  BY <1>0 DEF Good, Channels
<1>12. Channels(t.c, t.box)
  BY <1>4, <1>5, <1>6, <1>8, <1>11 DEF Good, Channels
<1>13. Good(t, << >>)
  BY <1>4, <1>8, <1>9, <1>10, <1>12 DEF Good
<1> QED BY <1>1, <1>2, <1>4, <1>8, <1>13

\* The child is gone and has written its last message: the end of the file is put behind
\* it, and the channel given up.
LEMMA LastGood ==
  ASSUME Counted, NEW s, Sound(s), NoRead(s), Good(s, << >>), s.c.watch = -1,
         s.c.read >= 0, s.c.queue # << >>, s.c.queue[Len(s.c.queue)] # Eof
  PROVE  Good(DeassignRead(Enqueue(s, Eof)), << >>)
<1> DEFINE q == Append(s.c.queue, Eof)
           e == [s.c EXCEPT !.queue = q]
           d == [e EXCEPT !.rchan = FALSE, !.reading = FALSE]
           t == DeassignRead(Enqueue(s, Eof))
<1>0. /\ Types(s) /\ s.c \in Context /\ s.c.read \in {-1, 0} /\ s.c.queue \in Seq(Int)
  BY StatusTypes DEF Sound, Chains
<1>1. s = [c |-> s.c, box |-> s.box, asts |-> s.asts]
  BY <1>0 DEF Types
<1>2. q \in Seq(Int)
  BY <1>0 DEF Eof
<1>3. s.c.direction # 1 /\ s.c.wchan /\ ~ s.c.reading
  BY <1>0 DEF Good, Channels, NoRead, Ended
<1>4. \A c : ~ InFull(c) => OnWay(Active(s.c), q, << >>, << >>, c)
  BY OnWayLast DEF Good
<1> HIDE DEF q
<1>5. /\ e \in Context /\ e.read = s.c.read /\ e.watch = s.c.watch /\ e.queue = q
      /\ e.direction = s.c.direction /\ e.active = s.c.active
  BY <1>0, <1>2 DEF Context
<1>6. e.wchan /\ ~ e.reading
  BY <1>0, <1>3 DEF Context
<1>7. e.writing = s.c.writing
  BY <1>0 DEF Context
<1>8. t = [c |-> d, box |-> s.box, asts |-> s.asts]
  <2>1. t = DeassignRead([s EXCEPT !.c = e])
    BY DEF Enqueue, q
  <2> HIDE DEF t, e, d
  <2>2. [s EXCEPT !.c = e] = [c |-> e, box |-> s.box, asts |-> s.asts]
    BY <1>1
  <2>3. t = [c |-> [e EXCEPT !.rchan = FALSE, !.reading = FALSE], box |-> s.box,
             asts |-> s.asts]
    BY <1>6, <2>1, <2>2 DEF DeassignRead
  <2> QED BY <2>3 DEF d
<1> HIDE DEF e
<1>9. /\ d.read = s.c.read /\ d.watch = s.c.watch /\ d.queue = q
      /\ d.direction = s.c.direction /\ d.active = s.c.active
  BY <1>5 DEF Context
<1>10. ~ d.rchan /\ ~ d.reading
  BY <1>5 DEF Context
<1>11. d.wchan
  BY <1>5, <1>6 DEF Context
<1>12. d.writing = s.c.writing
  BY <1>5, <1>7 DEF Context
<1> HIDE DEF d
<1>13. t.c = d /\ t.box = s.box /\ t.asts = s.asts
  BY <1>8
<1> HIDE DEF t
<1>14. Active(t.c) = Active(s.c) /\ Box(t) = << >>
  BY <1>9, <1>10, <1>12, <1>13 DEF Active, Box
<1>15. OnWay(Active(s.c), q, << >>, << >>, d)
  BY <1>3, <1>4, <1>9, <1>10 DEF InFull
<1>16. Channels(t.c, t.box)
  BY <1>3, <1>9, <1>10, <1>11, <1>13 DEF Good, Channels
<1>17. Good(t, << >>)
  BY <1>9, <1>13, <1>14, <1>15, <1>16 DEF Good
<1> QED BY <1>17 DEF t

LEMMA ReadDataGood ==
  ASSUME Counted, reader, NEW s, Sound(s), NoRead(s), s.c.read >= 0,
         NEW m \in Int, m # Eof, Good(s, <<m>>), NEW gone \in BOOLEAN
  PROVE  LET t == ReadData(s, m, gone) IN
         \E f \in Seq(Int) : Hand(t.asts, f) /\ Good(t, f)
<1> DEFINE watched == WatchWriter(s, gone)
           queued == Enqueue(watched, m)
           last == IF queued.c.watch = -1 THEN DeassignRead(Enqueue(queued, Eof)) ELSE queued
<1>1. Sound(watched) /\ NoRead(watched) /\ watched.c.read >= 0 /\ Good(watched, <<m>>)
  BY WatchWriterSound, WatchWriterGood DEF Preserved
<1>2. ReadData(s, m, gone) = NextRead(StartWrite(last))
  BY DEF ReadData
<1> HIDE DEF watched
<1>3. Sound(queued) /\ NoRead(queued) /\ queued.c.read >= 0
  BY <1>1, EnqueueSound DEF Preserved
<1>4. /\ Good(queued, << >>)
      /\ queued.c.queue # << >> /\ queued.c.queue[Len(queued.c.queue)] = m
  BY <1>1, EnqueueGood
<1> HIDE DEF queued
<1>5. Eof \in Int
  BY DEF Eof
<1>6. Preserved(queued, Enqueue(queued, Eof))
  BY <1>3, <1>5, EnqueueSound
<1>7. Sound(last) /\ NoRead(last) /\ last.c.read >= 0
  BY <1>3, <1>6, DeassignReadSound DEF Preserved
<1>8. Good(last, << >>)
  BY <1>3, <1>4, LastGood
<1> HIDE DEF last
<1>9. LET t == StartWrite(last) IN
      Sound(t) /\ NoRead(t) /\ t.c.read >= 0 /\ Good(t, << >>)
  BY <1>7, <1>8, StartWriteSafe, StartWriteGood
<1> QED BY <1>2, <1>9, NextReadGood

LEMMA ReadEofGood ==
  ASSUME Counted, reader, NEW s, Sound(s), NoRead(s), s.c.read >= 0, Good(s, <<Eof>>),
         NEW gone \in BOOLEAN
  PROVE  LET t == ReadEof(s, gone) IN
         \E f \in Seq(Int) : Hand(t.asts, f) /\ Good(t, f)
<1> DEFINE watched == WatchWriter(s, gone)
           queued == Enqueue(watched, Eof)
<1>1. Sound(watched) /\ NoRead(watched) /\ watched.c.read >= 0 /\ Good(watched, <<Eof>>)
  BY WatchWriterSound, WatchWriterGood DEF Preserved
<1>2. ReadEof(s, gone) = NextRead(StartWrite(queued))
  BY DEF ReadEof
<1> HIDE DEF watched
<1>3. Eof \in Int
  BY DEF Eof
<1>4. Sound(queued) /\ NoRead(queued) /\ queued.c.read >= 0
  BY <1>1, <1>3, EnqueueSound DEF Preserved
<1>5. Good(queued, << >>)
  BY <1>1, <1>3, EnqueueGood
<1> HIDE DEF queued
<1>6. LET t == StartWrite(queued) IN
      Sound(t) /\ NoRead(t) /\ t.c.read >= 0 /\ Good(t, << >>)
  BY <1>4, <1>5, StartWriteSafe, StartWriteGood
<1> QED BY <1>2, <1>6, NextReadGood

LEMMA ReadEndGood ==
  ASSUME Counted, NEW s, Sound(s), NoRead(s), Good(s, << >>),
         s.c.direction = 1 => s.box = << >> /\ writer = "closed"
  PROVE  LET t == ReadEnd(s) IN Hand(t.asts, << >>) /\ Good(t, << >>)
<1> DEFINE d == [s.c EXCEPT !.read = -1]
           t == [s EXCEPT !.c = d]
<1>0. /\ Types(s) /\ Reads(s) /\ Writes(s) /\ Watches(s) /\ ~ s.c.freed /\ s.c \in Context
  BY StatusTypes DEF Sound, Chains
<1>1. ReadEnd(s) = DeassignRead(t)
  BY DEF ReadEnd
<1>2. /\ d \in Context /\ d.write = s.c.write /\ d.watch = s.c.watch
      /\ d.reading = s.c.reading /\ d.writing = s.c.writing /\ d.lookup = s.c.lookup
      /\ d.timer = s.c.timer /\ d.freed = s.c.freed
  BY <1>0 DEF Context
<1>3. d.direction = s.c.direction /\ d.queue = s.c.queue /\ d.active = s.c.active
  BY <1>0 DEF Context
<1>4. d.rchan = s.c.rchan
  BY <1>0 DEF Context
<1>5. d.wchan = s.c.wchan /\ d.knows = s.c.knows
  BY <1>0 DEF Context
<1>6. d.read = -1
  BY <1>0 DEF Context
<1> HIDE DEF d
<1>7. Types(t) /\ t.c = d /\ t.box = s.box /\ t.asts = s.asts
  BY <1>0, <1>2, Update
<1> HIDE DEF t
<1>8. Sound(t)
  BY <1>0, <1>2, <1>7, SameAsts DEF Sound, Chains, Reads, Writes, Watches
<1>9. Unseen(s, t)
  BY <1>2, <1>3, <1>4, <1>7 DEF Unseen, Active
<1>10. Channels(t.c, t.box)
  BY <1>2, <1>3, <1>4, <1>5, <1>6, <1>7 DEF Good, Channels
<1>11. Good(t, << >>)
  BY <1>7, <1>9, <1>10, UnseenGood
<1>12. Hand(t.asts, << >>)
  BY <1>7, HandEmpty DEF NoRead, Ended
<1> QED BY <1>1, <1>6, <1>7, <1>8, <1>11, <1>12, DeassignReadGood

\* A message has been read: the next one is written.
LEMMA WriteMbxGood ==
  ASSUME Counted, reader, NEW s, Sound(s), NoWrite(s), NEW f, Good(s, f), Hand(s.asts, f),
         NEW gone \in BOOLEAN, s.c.direction = 1 => ~ gone
  PROVE  LET t == WriteMbx(s, TRUE, gone) IN Hand(t.asts, f) /\ Good(t, f)
<1> DEFINE watched == IF s.c.active # None /\ s.c.direction = 1
                      THEN StartChildWatcher(s, TRUE, gone)
                      ELSE s
           d == [watched.c EXCEPT !.active = None, !.write = 0]
           t == [watched EXCEPT !.c = d]
<1>1. WriteMbx(s, TRUE, gone) = WriteNext(t)
  BY DEF WriteMbx
<1>2. Sound(watched) /\ NoWrite(watched)
  BY StartChildWatcherSound DEF Preserved
<1>3. Good(watched, f) /\ Hand(watched.asts, f)
  BY StartChildWatcherGood
<1> HIDE DEF watched
<1>0. /\ Types(watched) /\ Reads(watched) /\ Writes(watched) /\ Watches(watched)
      /\ ~ watched.c.freed /\ watched.c \in Context
  BY <1>2, StatusTypes DEF Sound, Chains
<1>4. /\ d \in Context /\ d.write = 0 /\ d.read = watched.c.read /\ d.watch = watched.c.watch
      /\ d.reading = watched.c.reading /\ d.writing = watched.c.writing
      /\ d.lookup = watched.c.lookup /\ d.timer = watched.c.timer /\ d.freed = watched.c.freed
  <2>1. None \in Int
    BY DEF None
  <2> QED BY <1>0, <2>1 DEF Context
<1>5. d.direction = watched.c.direction /\ d.queue = watched.c.queue
  BY <1>0 DEF Context
<1>6. d.rchan = watched.c.rchan
  BY <1>0 DEF Context
<1>7. d.wchan = watched.c.wchan /\ d.knows = watched.c.knows
  BY <1>0 DEF Context
<1>8. ~ watched.c.writing
  BY <1>2 DEF NoWrite, Ended
<1> HIDE DEF d
<1>9. Types(t) /\ t.c = d /\ t.box = watched.box /\ t.asts = watched.asts
  BY <1>0, <1>4, Update
<1> HIDE DEF t
<1>10. Sound(t) /\ t.c.write = 0
  BY <1>0, <1>2, <1>4, <1>9, SameAsts DEF Sound, Chains, Reads, Writes, Watches
<1>11. Unseen(watched, t)
  BY <1>4, <1>5, <1>6, <1>8, <1>9 DEF Unseen, Active
<1>12. Channels(t.c, t.box)
  BY <1>3, <1>4, <1>5, <1>6, <1>7, <1>9 DEF Good, Channels
<1>13. Good(t, f)
  BY <1>3, <1>9, <1>11, <1>12, UnseenGood
<1> QED BY <1>1, <1>3, <1>9, <1>10, <1>13, WriteNextGood


-----------------------------------------------------------------------------
(* The steps, again.                                                       *)

\* The reader has read the first of the messages sent; a child at the end, all of them.
GotFirst ==
  /\ Counted /\ Len(got) <= sent
  /\ \A k \in 1 .. Len(got) : got[k] = k
ChildDone == mbx.direction = 1 /\ ended => Len(got) = sent /\ writer # "open"

Carried == reader => \E f \in Seq(Int) : Hand(asts, f) /\ Good(State, f)

PipeInv == Inv /\ GotFirst /\ ChildDone /\ Carried

LEMMA JustsLater ==
  ASSUME NEW q, NEW d, NEW b, NEW w, Justs(q, d, b, w), NEW c, NEW v,
         d = 1 /\ b = << >> /\ w = "closed" => c = << >> /\ v = "closed"
  PROVE  Justs(q, d, c, v)
BY DEF Justs, Just

\* What a step has to show.
LEMMA Carry ==
  ASSUME NEW f \in Seq(Int), Hand(asts', f), NEW L \in 0 .. sent',
         Flow(L, Len(got'), Active(mbx'), mbx'.queue, f, IF mbx'.rchan THEN box' ELSE << >>),
         InFull(mbx') =>
           /\ L = sent'
           /\ Total(Len(got'), Active(mbx'), mbx'.queue, f,
                    IF mbx'.rchan THEN box' ELSE << >>) = L + 1 => writer' # "open",
         Channels(mbx, box)', Justs(asts', mbx'.direction, box', writer')
  PROVE  Carried'
<1>1. /\ State'.c = mbx' /\ State'.box = box' /\ State'.asts = asts'
      /\ State.c = mbx /\ State.box = box /\ State.asts = asts
  BY DEF State
<1>2. Box(State)' = IF mbx'.rchan THEN box' ELSE << >>
  BY <1>1 DEF Box
<1>3. OnWay(Active(State.c), State.c.queue, f, Box(State), State.c)'
  BY <1>1, <1>2 DEF OnWay
<1>4. Channels(State.c, State.box)'
  BY <1>1 DEF Channels
<1>5. Justs(State.asts, State.c.direction, State.box, writer)'
  BY <1>1
<1>6. Good(State, f)'
  BY <1>3, <1>4, <1>5 DEF Good
<1> QED BY <1>6 DEF Carried

\* A step of the FIFO leaves the processes alone.
LEMMA Settled ==
  ASSUME NEW t, Types(t), Becomes(t), UNCHANGED Environment, NEW f \in Seq(Int),
         Hand(t.asts, f), Good(t, f)
  PROVE  Carried'
<1>1. mbx' = t.c /\ box' = t.box /\ asts' = t.asts
  BY DEF Becomes
<1>2. sent' = sent /\ writer' = writer /\ alive' = alive /\ got' = got
  BY DEF Environment
<1>3. PICK L \in 0 .. sent :
        /\ Flow(L, Len(got), Active(t.c), t.c.queue, f, Box(t))
        /\ InFull(t.c) => /\ L = sent
                          /\ Total(Len(got), Active(t.c), t.c.queue, f, Box(t)) = L + 1
                               => writer # "open"
  BY DEF Good, OnWay
<1>4. Box(t) = IF mbx'.rchan THEN box' ELSE << >>
  BY <1>1 DEF Box
<1>5. Channels(mbx, box)'
  BY <1>1, <1>2 DEF Good, Channels
<1>6. Justs(asts', mbx'.direction, box', writer')
  BY <1>1, <1>2 DEF Good
<1> QED BY <1>1, <1>2, <1>3, <1>4, <1>5, <1>6, Carry

\* When an AST runs, what the read AST has found is in its hand.
LEMMA RestGood ==
  ASSUME Inv, asts # << >>, NEW f, Hand(asts, f), Good(State, f)
  PROVE  /\ Good(Rest, f) /\ Rest.c = mbx /\ Rest.box = box /\ Types(Rest)
         /\ Just(asts[1], mbx.direction, box, writer)
         /\ asts[1][1] # "read" => Hand(Rest.asts, f)
         /\ asts[1][1] = "read" => f = IF Found = None THEN << >> ELSE <<Found>>
<1>0. Types(State) /\ State.c = mbx /\ State.asts = asts /\ State.box = box
  BY DEF Inv, Safe, Chains, State
<1>1. asts \in Seq(Ast)
  BY <1>0 DEF Types, State
<1>2. Types(Rest) /\ Rest.c = mbx
  BY RestSound DEF Sound, Chains
<1>3. Rest.asts = Tail(asts) /\ Rest.box = box
  <2>1. Rest = [c |-> mbx, box |-> box, asts |-> Tail(asts)]
    BY DEF Rest, State
  <2> QED BY <2>1
<1>4. Once(asts, {"read"})
  BY <1>0 DEF Inv, Safe, Chains, Reads, ReadChain, Chain
<1> HIDE DEF Rest, State
<1>5. Justs(asts, mbx.direction, box, writer)
  BY <1>0 DEF Good
<1>6. Justs(Tail(asts), mbx.direction, box, writer) /\ Just(asts[1], mbx.direction, box, writer)
  BY <1>1, <1>5, JustsTail
<1>7. Box(Rest) = Box(State)
  BY <1>0, <1>2, <1>3 DEF Box
<1>8. Good(Rest, f)
  BY <1>0, <1>2, <1>3, <1>6, <1>7 DEF Good
<1>9. /\ asts[1][1] # "read" => Hand(Rest.asts, f)
      /\ asts[1][1] = "read" => f = IF Found = None THEN << >> ELSE <<Found>>
  BY <1>1, <1>3, <1>4, HandTail DEF Found
<1> QED BY <1>2, <1>3, <1>6, <1>8, <1>9

LEMMA ReadMbxAstCarried == PipeInv /\ ReadMbxAst => Carried'
<1> SUFFICES ASSUME PipeInv, ReadMbxAst, reader' PROVE Carried'
  BY DEF Carried
<1>0. reader /\ UNCHANGED Environment /\ Counted /\ Inv /\ asts # << >> /\ asts[1][1] = "read"
  BY DEF ReadMbxAst, Environment, PipeInv, GotFirst, Next1
<1>1. PICK f \in Seq(Int) : Hand(asts, f) /\ Good(State, f)
  BY <1>0 DEF PipeInv, Carried
<1>2. Sound(Rest) /\ NoRead(Rest) /\ Rest.c.read >= 0
  BY <1>0, RestSound
<1>3. /\ Good(Rest, f) /\ Rest.c = mbx /\ Rest.box = box
      /\ Just(asts[1], mbx.direction, box, writer)
      /\ f = IF Found = None THEN << >> ELSE <<Found>>
  BY <1>0, <1>1, RestGood
<1>4. (~ alive) \in BOOLEAN
  OBVIOUS
<1>5. CASE Found \in Data /\ Becomes(ReadData(Rest, Found, ~ alive))
  <2> DEFINE t == ReadData(Rest, Found, ~ alive)
  <2>1. Found \in Int /\ Found # Eof /\ Found # None
    BY <1>5, ParametersAssumption DEF Data, Eof, None
  <2>2. Good(Rest, <<Found>>)
    BY <1>3, <2>1
  <2>3. PICK h \in Seq(Int) : Hand(t.asts, h) /\ Good(t, h)
    BY <1>0, <1>2, <1>4, <2>1, <2>2, ReadDataGood
  <2>4. Types(t)
    BY <1>2, <1>4, <2>1, ReadDataSafe DEF Safe, Chains
  <2>5. Becomes(t)
    BY <1>5
  <2> HIDE DEF t
  <2> QED BY <1>0, <2>3, <2>4, <2>5, Settled
<1>6. CASE Found = Eof /\ Becomes(ReadEof(Rest, ~ alive))
  <2> DEFINE t == ReadEof(Rest, ~ alive)
  <2>1. Good(Rest, <<Eof>>)
    BY <1>3, <1>6 DEF Eof, None
  <2>2. PICK h \in Seq(Int) : Hand(t.asts, h) /\ Good(t, h)
    BY <1>0, <1>2, <1>4, <2>1, ReadEofGood
  <2>3. Types(t)
    BY <1>2, <1>4, ReadEofSafe DEF Safe, Chains
  <2>4. Becomes(t)
    BY <1>6
  <2> HIDE DEF t
  <2> QED BY <1>0, <2>2, <2>3, <2>4, Settled
<1>7. CASE Found = None /\ Becomes(ReadEnd(Rest))
  <2> DEFINE t == ReadEnd(Rest)
  <2>1. Good(Rest, << >>)
    BY <1>3, <1>7
  <2>2. Rest.c.direction = 1 => Rest.box = << >> /\ writer = "closed"
    BY <1>0, <1>3, <1>7 DEF Just, Found
  <2>3. Hand(t.asts, << >>) /\ Good(t, << >>)
    BY <1>0, <1>2, <2>1, <2>2, ReadEndGood
  <2>4. Types(t)
    BY <1>2, ReadEndSafe DEF Safe, Chains
  <2>5. Becomes(t)
    BY <1>7
  <2>6. << >> \in Seq(Int)
    OBVIOUS
  <2> HIDE DEF t
  <2> QED BY <1>0, <2>3, <2>4, <2>5, <2>6, Settled
<1> QED BY <1>5, <1>6, <1>7 DEF ReadMbxAst

LEMMA WriteMbxAstCarried == PipeInv /\ WriteMbxAst => Carried'
<1> SUFFICES ASSUME PipeInv, WriteMbxAst, reader' PROVE Carried'
  BY DEF Carried
<1>0. reader /\ UNCHANGED Environment /\ Counted /\ Inv /\ asts # << >> /\ asts[1][1] = "write"
  BY DEF WriteMbxAst, Environment, PipeInv, GotFirst, Next1
<1>1. PICK f \in Seq(Int) : Hand(asts, f) /\ Good(State, f)
  BY <1>0 DEF PipeInv, Carried
<1>2. Sound(Rest) /\ NoWrite(Rest)
  BY <1>0, RestSound
<1>3. /\ Good(Rest, f) /\ Hand(Rest.asts, f) /\ Rest.c = mbx
      /\ Just(asts[1], mbx.direction, box, writer)
  BY <1>0, <1>1, RestGood
<1>4. Found = TRUE
  BY <1>0, <1>3 DEF Just, Found
<1>5. PICK gone \in {~ alive} : Becomes(WriteMbx(Rest, TRUE, gone))
  BY <1>4 DEF WriteMbxAst
<1>6. gone \in BOOLEAN /\ (Rest.c.direction = 1 => ~ gone)
  BY <1>3, <1>5 DEF Good, Channels
<1> DEFINE t == WriteMbx(Rest, TRUE, gone)
<1>7. Hand(t.asts, f) /\ Good(t, f)
  BY <1>0, <1>2, <1>3, <1>6, WriteMbxGood
<1>8. Types(t)
  <2>1. TRUE \in BOOLEAN
    OBVIOUS
  <2> QED BY <1>2, <1>6, <2>1, WriteMbxSafe DEF Safe, Chains
<1>9. Becomes(t)
  BY <1>5
<1> HIDE DEF t
<1> QED BY <1>0, <1>7, <1>8, <1>9, Settled

LEMMA CheckIfChildIsAliveAstCarried == PipeInv /\ CheckIfChildIsAliveAst => Carried'
<1> SUFFICES ASSUME PipeInv, CheckIfChildIsAliveAst, reader' PROVE Carried'
  BY DEF Carried
<1>0. reader /\ UNCHANGED Environment /\ Counted /\ Inv /\ asts # << >> /\ asts[1][1] = "timer"
  BY DEF CheckIfChildIsAliveAst, Environment, PipeInv, GotFirst, Next1
<1>1. PICK f \in Seq(Int) : Hand(asts, f) /\ Good(State, f)
  BY <1>0 DEF PipeInv, Carried
<1>2. Sound(Rest) /\ NoWatch(Rest) /\ Rest.c.watch >= 1
  BY <1>0, RestSound DEF Watching
<1>3. Good(Rest, f) /\ Hand(Rest.asts, f) /\ Rest.c = mbx
  BY <1>0, <1>1, RestGood
<1>4. PICK gone \in Gone : Becomes(CheckIfChildIsAlive(Rest, gone))
  BY DEF CheckIfChildIsAliveAst
<1>5. gone \in BOOLEAN
  BY DEF Gone
<1>6. Rest.c.direction = 1 => ~ gone
  <2>1. Rest.c.direction = 1 => alive /\ mbx.knows
    BY <1>2, <1>3 DEF Good, Channels
  <2>2. mbx.knows => gone = ~ alive
    BY <1>4 DEF Gone
  <2> QED BY <2>1, <2>2
<1> DEFINE t == CheckIfChildIsAlive(Rest, gone)
<1>7. Hand(t.asts, f) /\ Good(t, f)
  BY <1>0, <1>2, <1>3, <1>5, <1>6, CheckIfChildIsAliveGood
<1>8. Types(t)
  <2>1. Rest.c.watch # 0
    BY <1>2
  <2> QED BY <1>2, <1>5, <2>1, CheckIfChildIsAliveSound DEF Preserved, Sound, Chains
<1>9. Becomes(t)
  BY <1>4
<1> HIDE DEF t
<1> QED BY <1>0, <1>7, <1>8, <1>9, Settled


LEMMA WatchChildAstCarried == PipeInv /\ WatchChildAst => Carried'
<1> SUFFICES ASSUME PipeInv, WatchChildAst, reader' PROVE Carried'
  BY DEF Carried
<1>0. reader /\ UNCHANGED Environment /\ Counted /\ Inv /\ asts # << >> /\ asts[1][1] = "jpi"
  BY DEF WatchChildAst, Environment, PipeInv, GotFirst, Next1
<1>1. PICK f \in Seq(Int) : Hand(asts, f) /\ Good(State, f)
  BY <1>0 DEF PipeInv, Carried
<1>2. /\ Sound(Rest) /\ mbx.watch >= 1 /\ mbx \in Context /\ Rest.c = mbx
      /\ mbx.read \in {-1, 0} /\ mbx.write \in {0, 1}
  BY <1>0, RestSound, StatusTypes DEF Watching, Sound, Chains
<1>3. /\ Good(Rest, f) /\ Hand(Rest.asts, f) /\ Types(Rest)
      /\ Just(asts[1], mbx.direction, box, writer)
  BY <1>0, <1>1, RestGood
<1>4. /\ mbx.direction = 1 => Found = TRUE /\ mbx.knows
      /\ ~ mbx.rchan => mbx.read = -1
  BY <1>0, <1>2, <1>3 DEF Just, Found, Good, Channels
<1>5. ASSUME NEW w \in {-1, 2}, w = -1 => mbx.direction # 1, NEW d \in Context,
             NEW t, t = [Rest EXCEPT !.c = d], Becomes(t), mbx.read >= 0,
             d.watch = w, d.read = mbx.read, d.direction = mbx.direction,
             d.queue = mbx.queue, d.active = mbx.active, d.rchan = mbx.rchan,
             d.wchan = mbx.wchan, d.reading = mbx.reading, d.writing = mbx.writing,
             d.knows = mbx.knows
      PROVE  Carried'
  <2>1. Types(t) /\ t.c = d /\ t.box = Rest.box /\ t.asts = Rest.asts
    BY <1>3, <1>5, Update
  <2>2. Unseen(Rest, t)
    BY <1>2, <1>5, <2>1 DEF Unseen, Active
  <2>3. mbx.rchan /\ mbx.read # -1
    BY <1>4, <1>5
  <2>4. d.rchan /\ d.read # -1
    BY <1>5, <2>3
  <2>5. /\ mbx.reading => Rest.box = << >>
        /\ ~ mbx.wchan => mbx.queue = << >> /\ mbx.read = -1
        /\ mbx.direction = 1 => alive /\ writer # "killed"
    BY <1>2, <1>3 DEF Good, Channels
  <2>6. Channels(d, Rest.box)
    BY <1>4, <1>5, <2>3, <2>4, <2>5 DEF Channels
  <2>7. Good(t, f)
    BY <1>3, <2>1, <2>2, <2>6, UnseenGood
  <2> QED BY <1>0, <1>3, <1>5, <2>1, <2>7, Settled
<1>6. CASE mbx.read >= 0 /\ ~ Found
  <2> DEFINE d == [mbx EXCEPT !.watch = -1]
             t == [Rest EXCEPT !.c = d]
  <2>1. Becomes(t)
    BY <1>2, <1>6 DEF WatchChildAst
  <2>2. /\ d \in Context /\ d.watch = -1 /\ d.read = mbx.read
        /\ d.direction = mbx.direction /\ d.queue = mbx.queue /\ d.active = mbx.active
    BY <1>2 DEF Context
  <2>3. d.rchan = mbx.rchan /\ d.wchan = mbx.wchan
    BY <1>2 DEF Context
  <2>4. d.reading = mbx.reading /\ d.writing = mbx.writing /\ d.knows = mbx.knows
    BY <1>2 DEF Context
  <2>5. mbx.direction # 1
    BY <1>4, <1>6
  <2> HIDE DEF d
  <2>6. t = [Rest EXCEPT !.c = d]
    OBVIOUS
  <2> HIDE DEF t
  <2> QED BY <1>5, <1>6, <2>1, <2>2, <2>3, <2>4, <2>5, <2>6
<1>7. CASE mbx.read >= 0 /\ Found
  <2> DEFINE d == [mbx EXCEPT !.watch = 2, !.timer = TRUE]
             t == [Rest EXCEPT !.c = d]
  <2>1. Becomes(t)
    BY <1>2, <1>7 DEF WatchChildAst
  <2>2. /\ d \in Context /\ d.watch = 2 /\ d.read = mbx.read
        /\ d.direction = mbx.direction /\ d.queue = mbx.queue /\ d.active = mbx.active
    BY <1>2 DEF Context
  <2>3. d.rchan = mbx.rchan /\ d.wchan = mbx.wchan
    BY <1>2 DEF Context
  <2>4. d.reading = mbx.reading /\ d.writing = mbx.writing /\ d.knows = mbx.knows
    BY <1>2 DEF Context
  <2> HIDE DEF d
  <2>5. t = [Rest EXCEPT !.c = d]
    OBVIOUS
  <2> HIDE DEF t
  <2> QED BY <1>5, <1>7, <2>1, <2>2, <2>3, <2>4, <2>5
<1>8. CASE ~ (mbx.read >= 0)
  <2>1. Becomes(Rest)
    BY <1>2, <1>8 DEF WatchChildAst
  <2> QED BY <1>0, <1>3, <2>1, Settled
<1>9. Found \in BOOLEAN
  BY <1>0, RestSound DEF Found, Ast
<1> QED BY <1>2, <1>6, <1>7, <1>8, <1>9

\* A lookup completes or the timer expires.
LEMMA CompletesCarried ==
  ASSUME PipeInv, reader, UNCHANGED Environment, NEW a \in Ast, a[1] \in Watching,
         mbx.direction = 1 /\ a[1] = "jpi" => a[2] = TRUE,
         NEW d \in Context, Becomes([State EXCEPT !.c = d, !.asts = Append(asts, a)]),
         d.watch = mbx.watch, d.read = mbx.read, d.direction = mbx.direction,
         d.queue = mbx.queue, d.active = mbx.active, d.rchan = mbx.rchan,
         d.wchan = mbx.wchan, d.reading = mbx.reading, d.writing = mbx.writing,
         d.knows = mbx.knows
  PROVE  Carried'
<1> DEFINE q == Append(asts, a)
           t == [State EXCEPT !.c = d, !.asts = q]
<1>0. Types(State) /\ State.c = mbx /\ State.asts = asts /\ State.box = box
  BY DEF PipeInv, Inv, Safe, Chains, State
<1>1. asts \in Seq(Ast) /\ box \in Seq(Int)
  BY <1>0 DEF Types, State
<1>2. PICK f \in Seq(Int) : Hand(asts, f) /\ Good(State, f)
  BY DEF PipeInv, Carried
<1>3. Becomes(t)
  OBVIOUS
<1>4. State = [c |-> State.c, box |-> State.box, asts |-> State.asts]
  BY DEF State
<1>5. q \in Seq(Ast)
  BY <1>1
<1>6. Hand(q, f)
  BY <1>1, <1>2, HandAppend DEF Watching
<1>7. Justs(q, mbx.direction, box, writer)
  <2>1. Just(a, mbx.direction, box, writer)
    BY DEF Just, Watching
  <2>2. Justs(asts, mbx.direction, box, writer)
    BY <1>0, <1>2 DEF Good
  <2> QED BY <1>1, <2>1, <2>2, JustsAppend
<1> HIDE DEF q, State
<1>8. t = [c |-> d, box |-> box, asts |-> q]
  <2>1. t = [State EXCEPT !.c = d, !.asts = q]
    OBVIOUS
  <2> HIDE DEF t
  <2> QED BY <1>0, <1>4, <2>1, NewAsts
<1>9. Types(t) /\ t.c = d /\ t.box = box /\ t.asts = q
  BY <1>1, <1>5, <1>8 DEF Types
<1> HIDE DEF t
<1>10. Active(d) = Active(mbx) /\ Box(t) = Box(State)
  BY <1>0, <1>9 DEF Active, Box
<1>11. OnWay(Active(d), d.queue, f, Box(t), d)
  <2>1. OnWay(Active(mbx), mbx.queue, f, Box(State), mbx)
    BY <1>0, <1>2 DEF Good
  <2> QED BY <1>10, <2>1 DEF OnWay, InFull
<1>12. Channels(d, box)
  BY <1>0, <1>2 DEF Good, Channels
<1>13. Good(t, f)
  BY <1>7, <1>9, <1>11, <1>12 DEF Good
<1> QED BY <1>3, <1>6, <1>9, <1>13, Settled

LEMMA TimerCarried == PipeInv /\ TimerExpires => Carried'
<1> SUFFICES ASSUME PipeInv, TimerExpires, reader' PROVE Carried'
  BY DEF Carried
<1> DEFINE d == [mbx EXCEPT !.timer = FALSE]
           a == <<"timer", TRUE>>
<1>0. reader /\ UNCHANGED Environment
  BY DEF TimerExpires, Environment
<1>1. mbx \in Context
  BY DEF PipeInv, Inv, Safe, Chains, Types, State
<1>2. Becomes([State EXCEPT !.c = d, !.asts = Append(asts, a)])
  BY DEF TimerExpires, State
<1>3. /\ d \in Context /\ d.read = mbx.read /\ d.watch = mbx.watch
      /\ d.direction = mbx.direction /\ d.queue = mbx.queue /\ d.active = mbx.active
  BY <1>1 DEF Context
<1>4. d.rchan = mbx.rchan /\ d.wchan = mbx.wchan
  BY <1>1 DEF Context
<1>5. d.reading = mbx.reading /\ d.writing = mbx.writing /\ d.knows = mbx.knows
  BY <1>1 DEF Context
<1>6. a \in Ast /\ a[1] \in Watching /\ a[1] # "jpi"
  BY DEF Ast, Watching
<1> HIDE DEF a, d
<1> QED BY <1>0, <1>2, <1>3, <1>4, <1>5, <1>6, CompletesCarried

LEMMA LookupCarried == PipeInv /\ LookupCompletes => Carried'
<1> SUFFICES ASSUME PipeInv, LookupCompletes, reader' PROVE Carried'
  BY DEF Carried
<1>0. reader /\ UNCHANGED Environment /\ mbx.lookup
  BY DEF LookupCompletes, Environment
<1>1. PICK gone \in Gone :
        Becomes([State EXCEPT !.c.lookup = FALSE, !.asts = Append(@, <<"jpi", ~ gone>>)])
  BY DEF LookupCompletes
<1> DEFINE d == [mbx EXCEPT !.lookup = FALSE]
           a == <<"jpi", ~ gone>>
<1>2. /\ mbx \in Context /\ Watches(State) /\ State.c = mbx /\ State.box = box
      /\ Types(State)
  BY DEF PipeInv, Inv, Safe, Chains, Types, State
<1>3. Becomes([State EXCEPT !.c = d, !.asts = Append(asts, a)])
  BY <1>1 DEF State
<1>4. /\ d \in Context /\ d.read = mbx.read /\ d.watch = mbx.watch
      /\ d.direction = mbx.direction /\ d.queue = mbx.queue /\ d.active = mbx.active
  BY <1>2 DEF Context
<1>5. d.rchan = mbx.rchan /\ d.wchan = mbx.wchan
  BY <1>2 DEF Context
<1>6. d.reading = mbx.reading /\ d.writing = mbx.writing /\ d.knows = mbx.knows
  BY <1>2 DEF Context
<1>7. a \in Ast /\ a[1] \in Watching /\ a[2] = ~ gone
  BY DEF Ast, Watching
<1>8. mbx.direction = 1 => a[2] = TRUE
  <2>1. ~ (mbx.watch <= 0)
    BY <1>0, <1>2 DEF Watches, NoWatch, Ended
  <2>2. PICK f \in Seq(Int) : Good(State, f)
    BY <1>0 DEF PipeInv, Carried
  <2>3. mbx.watch # 0
    BY <2>1
  <2>4. mbx.direction = 1 => alive /\ mbx.knows
    BY <1>2, <2>2, <2>3 DEF Good, Channels
  <2>5. mbx.knows => gone = ~ alive
    BY <1>1 DEF Gone
  <2> QED BY <1>7, <2>4, <2>5
<1> HIDE DEF a, d
<1> QED BY <1>0, <1>3, <1>4, <1>5, <1>6, <1>7, <1>8, CompletesCarried


\* The parts of the invariant, for the steps of the processes.
LEMMA CarriedParts ==
  ASSUME PipeInv, reader
  PROVE  /\ asts \in Seq(Ast) /\ box \in Seq(Int) /\ mbx \in Context
         /\ Reads(State) /\ State.c = mbx /\ State.asts = asts
         /\ mbx.reading => None1(asts, {"read"})
         /\ \E f \in Seq(Int) :
              /\ Hand(asts, f)
              /\ OnWay(Active(mbx), mbx.queue, f, IF mbx.rchan THEN box ELSE << >>, mbx)
              /\ Channels(mbx, box)
              /\ Justs(asts, mbx.direction, box, writer)
<1>0. /\ Types(State) /\ Reads(State)
      /\ State.c = mbx /\ State.asts = asts /\ State.box = box
  BY DEF PipeInv, Inv, Safe, Chains, State
<1>1. asts \in Seq(Ast) /\ box \in Seq(Int) /\ mbx \in Context
  BY <1>0 DEF Types, State
<1> HIDE DEF State
<1>2. mbx.reading => None1(asts, {"read"})
  BY <1>0 DEF Reads, ReadChain, Chain
<1>3. PICK f \in Seq(Int) : Hand(asts, f) /\ Good(State, f)
  BY DEF PipeInv, Carried
<1>4. Box(State) = IF mbx.rchan THEN box ELSE << >>
  BY <1>0 DEF Box
<1>5. /\ OnWay(Active(mbx), mbx.queue, f, IF mbx.rchan THEN box ELSE << >>, mbx)
      /\ Channels(mbx, box)
      /\ Justs(asts, mbx.direction, box, writer)
  BY <1>0, <1>3, <1>4 DEF Good
<1> QED BY <1>0, <1>1, <1>2, <1>3, <1>5

\* The writer, still open, writes m, which is a message (then M = sent + 1) or the end of
\* the file.
LEMMA DeliverCarried ==
  ASSUME PipeInv, reader, writer = "open", NEW m \in Int, Deliver(m),
         NEW M \in Nat, M = sent \/ M = sent + 1, m = Item(M, sent + 1), sent' = M,
         M = sent => writer' # "open", mbx.rchan \/ M = sent,
         writer' # "killed", alive' = alive, got' = got
  PROVE  Carried'
<1>0. /\ asts \in Seq(Ast) /\ box \in Seq(Int) /\ mbx \in Context
      /\ mbx.reading => None1(asts, {"read"})
  BY CarriedParts
<1>1. PICK f \in Seq(Int) :
        /\ Hand(asts, f)
        /\ OnWay(Active(mbx), mbx.queue, f, IF mbx.rchan THEN box ELSE << >>, mbx)
        /\ Channels(mbx, box)
        /\ Justs(asts, mbx.direction, box, writer)
  BY CarriedParts
<1>2. sent \in Nat /\ Len(got) \in Nat
  BY DEF PipeInv, GotFirst, Counted
<1> DEFINE g == Len(got)
           b == IF mbx.rchan THEN box ELSE << >>
<1>3. PICK L \in 0 .. sent :
        /\ Flow(L, g, Active(mbx), mbx.queue, f, b)
        /\ InFull(mbx) => /\ L = sent
                          /\ Total(g, Active(mbx), mbx.queue, f, b) = L + 1 => writer # "open"
  BY <1>1 DEF OnWay
<1>4. ASSUME mbx.rchan
      PROVE  /\ L = sent /\ L \in Nat /\ L <= M /\ M <= L + 1 /\ M \in 0 .. sent'
             /\ Total(g, Active(mbx), mbx.queue, f, b) = L
             /\ b = box /\ m = Item(M, L + 1)
             /\ L + 1 = M + 1 => writer' # "open"
  <2>1. L = sent /\ Total(g, Active(mbx), mbx.queue, f, b) # L + 1
    BY <1>3, <1>4 DEF InFull
  <2>2. Total(g, Active(mbx), mbx.queue, f, b) = L
    BY <1>3, <2>1 DEF Flow
  <2>3. L <= M /\ M <= L + 1 /\ M \in 0 .. sent' /\ (L + 1 = M + 1 => M = sent)
    BY <1>2, <2>1
  <2> QED BY <1>2, <1>4, <2>1, <2>2, <2>3
<1>5. mbx.direction = 1 => alive /\ mbx.read # -1 /\ mbx.watch # -1 /\ (mbx.watch # 0 => mbx.knows)
  BY <1>1 DEF Channels
<1>6. CASE mbx.reading
  <2> DEFINE a == <<"read", m>>
             d == [mbx EXCEPT !.reading = FALSE]
  <2>1. mbx' = d /\ box' = box /\ asts' = Append(asts, a)
    BY <1>6 DEF Deliver, Becomes, State
  <2>2. mbx.rchan /\ box = << >>
    BY <1>1, <1>6 DEF Channels
  <2>3. f = << >>
    BY <1>0, <1>1, <1>6, HandEmpty
  <2>4. /\ d.read = mbx.read /\ d.watch = mbx.watch /\ d.queue = mbx.queue
        /\ d.direction = mbx.direction /\ d.active = mbx.active
    BY <1>0 DEF Context
  <2>5. d.rchan = mbx.rchan /\ d.wchan = mbx.wchan
    BY <1>0 DEF Context
  <2>6. d.writing = mbx.writing /\ d.knows = mbx.knows /\ ~ d.reading
    BY <1>0 DEF Context
  <2>7. a \in Ast /\ a[1] = "read" /\ a[2] = m /\ m # None
    <3>1. a \in Ast /\ a[1] = "read" /\ a[2] = m
      BY DEF Ast
    <3>2. m # None
      BY <1>2 DEF Item, None, Eof
    <3> QED BY <3>1, <3>2
  <2> HIDE DEF a, d
  <2>8. Active(mbx') = Active(mbx)
    BY <2>1, <2>4, <2>6 DEF Active
  <2>9. /\ Flow(M, g, Active(mbx), mbx.queue, <<m>>, << >>)
        /\ Total(g, Active(mbx), mbx.queue, <<m>>, << >>) = L + 1
    BY <1>2, <1>3, <1>4, <2>2, <2>3, FlowFind
  <2>10. Hand(asts', <<m>>)
    BY <1>0, <2>1, <2>7, HandAppend
  <2>11. Justs(asts', mbx'.direction, box', writer')
    <3>1. Justs(asts, mbx.direction, box, writer')
      BY <1>1, JustsLater
    <3>2. Just(a, mbx.direction, box, writer')
      BY <2>7 DEF Just
    <3> QED BY <1>0, <2>1, <2>4, <2>7, <3>1, <3>2, JustsAppend
  <2>12. Channels(mbx, box)'
    <3>1. ~ mbx'.reading /\ mbx'.rchan
      BY <2>1, <2>2, <2>5, <2>6
    <3>2. ~ mbx'.wchan => mbx'.queue = << >> /\ mbx'.read = -1
      BY <1>1, <2>1, <2>4, <2>5 DEF Channels
    <3>3. mbx'.direction = 1 =>
            /\ alive' /\ mbx'.watch # -1 /\ (mbx'.watch # 0 => mbx'.knows) /\ mbx'.read # -1
      BY <1>5, <2>1, <2>4, <2>6
    <3> QED BY <3>1, <3>2, <3>3 DEF Channels
  <2>13. (IF mbx'.rchan THEN box' ELSE << >>) = << >> /\ <<m>> \in Seq(Int)
    BY <2>1, <2>2
  <2>14. M \in 0 .. sent' /\ (L + 1 = M + 1 => writer' # "open")
    BY <1>4, <2>2
  <2>15. Len(got') = g /\ mbx'.queue = mbx.queue
    BY <2>1, <2>4
  <2> QED BY <2>8, <2>9, <2>10, <2>11, <2>12, <2>13, <2>14, <2>15, Carry
<1>7. CASE ~ mbx.reading /\ mbx.rchan
  <2> DEFINE t == Append(box, m)
  <2>1. mbx' = mbx /\ box' = t /\ asts' = asts
    BY <1>7 DEF Deliver, Becomes, State
  <2> HIDE DEF t
  <2>2. /\ Flow(M, g, Active(mbx), mbx.queue, f, t)
        /\ Total(g, Active(mbx), mbx.queue, f, t) = L + 1
    BY <1>2, <1>3, <1>4, <1>7, FlowSend DEF t
  <2>3. Justs(asts', mbx'.direction, box', writer')
    BY <1>1, <2>1, JustsLater
  <2>4. Channels(mbx, box)'
    BY <1>1, <1>5, <1>7, <2>1 DEF Channels
  <2>5. (IF mbx'.rchan THEN box' ELSE << >>) = t
    BY <1>7, <2>1
  <2>6. M \in 0 .. sent' /\ (L + 1 = M + 1 => writer' # "open")
    BY <1>4, <1>7
  <2> QED BY <1>1, <2>1, <2>2, <2>3, <2>4, <2>5, <2>6, Carry
<1>8. CASE ~ mbx.reading /\ ~ mbx.rchan
  <2>1. mbx' = mbx /\ box' = box /\ asts' = asts
    BY <1>8 DEF Deliver, Becomes, State
  <2>2. mbx.direction # 1
    BY <1>1, <1>5, <1>8 DEF Channels
  <2>3. Justs(asts', mbx'.direction, box', writer')
    BY <1>1, <2>1, <2>2, JustsLater
  <2>4. Channels(mbx, box)'
    BY <1>1, <2>1, <2>2 DEF Channels
  <2>5. ~ InFull(mbx') /\ (IF mbx'.rchan THEN box' ELSE << >>) = b
    BY <1>8, <2>1, <2>2 DEF InFull
  <2>6. L \in 0 .. sent'
    BY <1>2
  <2> QED BY <1>1, <1>3, <2>1, <2>3, <2>4, <2>5, <2>6, Carry
<1> QED BY <1>6, <1>7, <1>8


LEMMA WriterWritesCarried == PipeInv /\ WriterWrites => Carried'
<1> SUFFICES ASSUME PipeInv, WriterWrites, reader' PROVE Carried'
  BY DEF Carried
<1>1. sent \in Nat
  BY DEF PipeInv, GotFirst, Counted
<1> DEFINE M == sent + 1
<1>2. /\ reader /\ writer = "open" /\ mbx.rchan /\ sent' = M /\ Deliver(M)
      /\ writer' = writer /\ alive' = alive /\ got' = got
  BY DEF WriterWrites
<1>3. M \in Nat /\ M \in Int /\ M # sent /\ M = Item(M, M)
  BY <1>1 DEF Item
<1> QED BY <1>2, <1>3, DeliverCarried

LEMMA WriterClosesCarried == PipeInv /\ WriterCloses => Carried'
<1> SUFFICES ASSUME PipeInv, WriterCloses, reader' PROVE Carried'
  BY DEF Carried
<1>1. sent \in Nat
  BY DEF PipeInv, GotFirst, Counted
<1>2. /\ reader /\ writer = "open" /\ sent' = sent /\ Deliver(Eof)
      /\ writer' = "closing" /\ alive' = alive /\ got' = got
  BY DEF WriterCloses
<1>3. Eof \in Int /\ Eof = Item(sent, sent + 1)
  BY <1>1 DEF Item, Eof
<1> QED BY <1>1, <1>2, <1>3, DeliverCarried

LEMMA WriterGoneCarried == PipeInv /\ WriterGone => Carried'
<1> SUFFICES ASSUME PipeInv, WriterGone, reader' PROVE Carried'
  BY DEF Carried
<1>0. /\ asts \in Seq(Ast) /\ box \in Seq(Int) /\ mbx \in Context /\ reader
      /\ mbx.reading => None1(asts, {"read"})
  BY CarriedParts DEF WriterGone
<1>1. PICK f \in Seq(Int) :
        /\ Hand(asts, f)
        /\ OnWay(Active(mbx), mbx.queue, f, IF mbx.rchan THEN box ELSE << >>, mbx)
        /\ Channels(mbx, box)
        /\ Justs(asts, mbx.direction, box, writer)
  BY <1>0, CarriedParts
<1> DEFINE g == Len(got)
           b == IF mbx.rchan THEN box ELSE << >>
<1>2. PICK L \in 0 .. sent :
        /\ Flow(L, g, Active(mbx), mbx.queue, f, b)
        /\ InFull(mbx) => L = sent
  BY <1>1 DEF OnWay
<1>3. /\ sent' = sent /\ alive' = alive /\ got' = got /\ writer # "closed"
      /\ writer' # "open" /\ (mbx.direction = 1 => writer' = "closed")
  BY DEF WriterGone
<1>4. CASE mbx.reading
  <2> DEFINE a == <<"read", None>>
             d == [mbx EXCEPT !.reading = FALSE]
  <2>1. mbx' = d /\ box' = box /\ asts' = Append(asts, a)
    BY <1>4 DEF WriterGone, Becomes, State
  <2>2. mbx.rchan /\ box = << >>
    BY <1>1, <1>4 DEF Channels
  <2>3. /\ d.read = mbx.read /\ d.watch = mbx.watch /\ d.queue = mbx.queue
        /\ d.direction = mbx.direction /\ d.active = mbx.active
    BY <1>0 DEF Context
  <2>4. d.rchan = mbx.rchan /\ d.wchan = mbx.wchan
    BY <1>0 DEF Context
  <2>5. d.writing = mbx.writing /\ d.knows = mbx.knows /\ ~ d.reading
    BY <1>0 DEF Context
  <2>6. a \in Ast /\ a[1] = "read" /\ a[2] = None
    BY DEF Ast, None
  <2> HIDE DEF a, d
  <2>7. Active(mbx') = Active(mbx) /\ InFull(mbx') = InFull(mbx)
    BY <2>1, <2>3, <2>4, <2>5 DEF Active, InFull
  <2>8. Hand(asts', f)
    BY <1>0, <1>1, <2>1, <2>6, HandAppend
  <2>9. Justs(asts', mbx'.direction, box', writer')
    <3>1. Justs(asts, mbx.direction, box, writer')
      BY <1>1, <1>3, JustsLater
    <3>2. Just(a, mbx.direction, box, writer')
      BY <1>3, <2>2, <2>6 DEF Just
    <3> QED BY <1>0, <2>1, <2>3, <2>6, <3>1, <3>2, JustsAppend
  <2>10. Channels(mbx, box)'
    <3>1. ~ mbx'.reading /\ mbx'.rchan
      BY <2>1, <2>2, <2>4, <2>5
    <3>2. ~ mbx'.wchan => mbx'.queue = << >> /\ mbx'.read = -1
      BY <1>1, <2>1, <2>3, <2>4 DEF Channels
    <3>3. mbx'.direction = 1 =>
            /\ alive' /\ mbx'.watch # -1 /\ (mbx'.watch # 0 => mbx'.knows)
            /\ writer' = "closed" /\ box' = << >>
      BY <1>1, <1>3, <2>1, <2>2, <2>3, <2>5 DEF Channels
    <3> QED BY <3>1, <3>2, <3>3 DEF Channels
  <2>11. (IF mbx'.rchan THEN box' ELSE << >>) = b /\ mbx'.queue = mbx.queue /\ Len(got') = g
    BY <1>3, <2>1, <2>3, <2>4
  <2> QED BY <1>2, <1>3, <2>7, <2>8, <2>9, <2>10, <2>11, Carry
<1>5. CASE ~ mbx.reading
  <2>1. mbx' = mbx /\ box' = box /\ asts' = asts
    BY <1>5 DEF WriterGone, Becomes, State
  <2>2. Justs(asts', mbx'.direction, box', writer')
    BY <1>1, <1>3, <2>1, JustsLater
  <2>3. Channels(mbx, box)'
    BY <1>1, <1>3, <1>5, <2>1 DEF Channels
  <2> QED BY <1>1, <1>2, <1>3, <2>1, <2>2, <2>3, Carry
<1> QED BY <1>4, <1>5

\* What nobody but the child does leaves the pipe as it is.
LEMMA ChildExitsCarried == PipeInv /\ ChildExits => Carried'
<1> SUFFICES ASSUME PipeInv, ChildExits, reader' PROVE Carried'
  BY DEF Carried
<1>0. /\ reader /\ UNCHANGED <<mbx, box, asts, sent, writer, got>> /\ mbx.direction # 1
  <2>1. reader /\ UNCHANGED <<mbx, box, asts, sent, writer, got>> /\ mbx \in Context
    BY CarriedParts DEF ChildExits
  <2> QED BY <2>1 DEF ChildExits
<1>1. PICK f \in Seq(Int) :
        /\ Hand(asts, f)
        /\ OnWay(Active(mbx), mbx.queue, f, IF mbx.rchan THEN box ELSE << >>, mbx)
        /\ Channels(mbx, box)
        /\ Justs(asts, mbx.direction, box, writer)
  BY <1>0, CarriedParts
<1>2. PICK L \in 0 .. sent :
        /\ Flow(L, Len(got), Active(mbx), mbx.queue, f, IF mbx.rchan THEN box ELSE << >>)
        /\ InFull(mbx) =>
             /\ L = sent
             /\ Total(Len(got), Active(mbx), mbx.queue, f,
                      IF mbx.rchan THEN box ELSE << >>) = L + 1 => writer # "open"
  BY <1>1 DEF OnWay
<1>3. Channels(mbx, box)'
  BY <1>0, <1>1 DEF Channels
<1> QED BY <1>0, <1>1, <1>2, <1>3, Carry

\* The reader reads the message that is being written, or the end of the file.
LEMMA ReaderReadsCarried ==
  ASSUME PipeInv, ReaderReads
  PROVE  /\ Carried' /\ GotFirst'
         /\ (mbx.direction = 1 /\ ended' => Len(got') = sent' /\ writer' # "open")
<1>0. /\ asts \in Seq(Ast) /\ mbx \in Context /\ reader /\ ~ ended /\ mbx.writing
      /\ sent' = sent /\ writer' = writer /\ alive' = alive
  BY CarriedParts DEF ReaderReads
<1>1. PICK f \in Seq(Int) :
        /\ Hand(asts, f)
        /\ OnWay(Active(mbx), mbx.queue, f, IF mbx.rchan THEN box ELSE << >>, mbx)
        /\ Channels(mbx, box)
        /\ Justs(asts, mbx.direction, box, writer)
  BY <1>0, CarriedParts
<1> DEFINE g == Len(got)
           b == IF mbx.rchan THEN box ELSE << >>
           m == mbx.active
           a == <<"write", TRUE>>
           d == [mbx EXCEPT !.writing = FALSE]
<1>2. Active(mbx) = <<m>> /\ m \in Int
  BY <1>0 DEF Active, Context
<1>3. PICK L \in 0 .. sent :
        /\ Flow(L, g, <<m>>, mbx.queue, f, b)
        /\ InFull(mbx) => /\ L = sent
                          /\ Total(g, <<m>>, mbx.queue, f, b) = L + 1 => writer # "open"
  BY <1>1, <1>2 DEF OnWay
<1>4. /\ sent \in Nat /\ got \in Seq(Int) /\ g \in Nat /\ g <= sent /\ L \in Nat
      /\ \A k \in 1 .. g : got[k] = k
  BY DEF PipeInv, GotFirst, Counted
<1>5. mbx' = d /\ box' = box /\ asts' = Append(asts, a)
  BY DEF ReaderReads, Becomes, State
<1>6. /\ d.read = mbx.read /\ d.watch = mbx.watch /\ d.queue = mbx.queue
      /\ d.direction = mbx.direction /\ d.knows = mbx.knows
  BY <1>0 DEF Context
<1>7. d.rchan = mbx.rchan /\ d.wchan = mbx.wchan
  BY <1>0 DEF Context
<1>8. d.reading = mbx.reading /\ ~ d.writing
  BY <1>0 DEF Context
<1>9. a \in Ast /\ a[1] = "write" /\ a[2] = TRUE
  BY DEF Ast
<1> HIDE DEF a, d
<1>10. Hand(asts', f)
  BY <1>0, <1>1, <1>5, <1>9, HandAppend
<1>11. Justs(asts', mbx'.direction, box', writer')
  <2>1. Just(a, mbx.direction, box, writer)
    BY <1>9 DEF Just
  <2> QED BY <1>0, <1>1, <1>5, <1>6, <1>9, <2>1, JustsAppend
<1>12. Channels(mbx, box)'
  BY <1>0, <1>1, <1>5, <1>6, <1>7, <1>8 DEF Channels
<1>13. /\ Active(mbx') = << >> /\ mbx'.queue = mbx.queue /\ InFull(mbx') = InFull(mbx)
       /\ (IF mbx'.rchan THEN box' ELSE << >>) = b
  BY <1>5, <1>6, <1>7, <1>8 DEF Active, InFull
<1>14. CASE m = Eof
  <2>1. got' = got /\ ended' = TRUE
    BY <1>14 DEF ReaderReads
  <2>2. Flow(L, g, <<Eof>>, mbx.queue, f, b)
    BY <1>3, <1>14
  <2>3. /\ Flow(L, g, << >>, mbx.queue, f, b) /\ g = L
        /\ Total(g, << >>, mbx.queue, f, b) = L /\ Total(g, <<Eof>>, mbx.queue, f, b) = L + 1
    BY <1>4, <2>2, FlowReadEof
  <2>4. L + 1 # L
    BY <1>4
  <2>5. Carried'
    BY <1>0, <1>3, <1>10, <1>11, <1>12, <1>13, <2>1, <2>3, <2>4, Carry
  <2>6. mbx.direction = 1 => Len(got') = sent' /\ writer' # "open"
    BY <1>0, <1>3, <1>14, <2>1, <2>3 DEF InFull
  <2>7. GotFirst'
    BY <1>0, <1>4, <2>1 DEF GotFirst, Counted
  <2> QED BY <2>5, <2>6, <2>7
<1>15. CASE m # Eof
  <2> DEFINE h == Append(got, m)
  <2>1. got' = h /\ ended' = ended
    BY <1>15 DEF ReaderReads
  <2>2. h \in Seq(Int) /\ Len(h) = g + 1 /\ h[g + 1] = m /\ \A k \in 1 .. g : h[k] = got[k]
    BY <1>2, <1>4
  <2> HIDE DEF h
  <2>3. /\ Flow(L, g + 1, << >>, mbx.queue, f, b)
        /\ Total(g + 1, << >>, mbx.queue, f, b) = Total(g, <<m>>, mbx.queue, f, b)
        /\ m = g + 1 /\ m <= L
    BY <1>2, <1>3, <1>4, <1>15, FlowRead
  <2>4. Len(got') = g + 1
    BY <2>1, <2>2
  <2>5. Carried'
    BY <1>0, <1>3, <1>10, <1>11, <1>12, <1>13, <2>3, <2>4, Carry
  <2>6. GotFirst'
    <3>1. g + 1 <= sent
      BY <1>4, <2>3
    <3>2. \A k \in 1 .. g + 1 : k \in 1 .. g \/ k = g + 1
      BY <1>4
    <3>3. \A k \in 1 .. g + 1 : h[k] = k
      BY <1>4, <2>2, <2>3, <3>2
    <3> QED BY <1>0, <1>4, <2>1, <2>2, <3>1, <3>3 DEF GotFirst, Counted
  <2> QED BY <1>0, <2>1, <2>5, <2>6
<1> QED BY <1>14, <1>15

\* A child that finds no writer has read everything: the FIFO gives up its channels only
\* when nothing is left.
LEMMA SeesNoWriterDone ==
  ASSUME PipeInv, ReaderSeesNoWriter, mbx.direction = 1
  PROVE  Len(got) = sent /\ writer # "open"
<1>0. /\ asts \in Seq(Ast) /\ mbx \in Context /\ reader /\ ~ mbx.writing /\ ~ mbx.wchan
      /\ Reads(State) /\ State.c = mbx /\ State.asts = asts
  BY CarriedParts DEF ReaderSeesNoWriter
<1>1. PICK f \in Seq(Int) :
        /\ Hand(asts, f)
        /\ OnWay(Active(mbx), mbx.queue, f, IF mbx.rchan THEN box ELSE << >>, mbx)
        /\ Channels(mbx, box)
        /\ Justs(asts, mbx.direction, box, writer)
  BY <1>0, CarriedParts
<1>2. mbx.queue = << >> /\ mbx.read = -1 /\ box = << >> /\ writer = "closed"
  BY <1>0, <1>1 DEF Channels
<1>3. f = << >>
  <2>1. None1(asts, {"read"})
    BY <1>0, <1>2 DEF Reads, NoRead, Ended
  <2> QED BY <1>1, <2>1, HandEmpty
<1>4. Active(mbx) = << >> /\ (IF mbx.rchan THEN box ELSE << >>) = << >>
  BY <1>0, <1>2 DEF Active
<1>5. Flow(sent, Len(got), << >>, << >>, << >>, << >>)
  BY <1>1, <1>2, <1>3, <1>4 DEF OnWay, InFull
<1>6. Len(got) \in Nat /\ sent \in Nat /\ Len(got) <= sent
  BY DEF PipeInv, GotFirst, Counted
<1>7. Len(<< >>) = 0
  OBVIOUS
<1>8. Len(got) = sent \/ Len(got) = sent + 1
  <2>1. Total(Len(got), << >>, << >>, << >>, << >>) = Len(got)
    BY <1>6, <1>7 DEF Total
  <2> QED BY <1>5, <2>1 DEF Flow
<1> QED BY <1>2, <1>6, <1>8


LEMMA InitPipe == Init => PipeInv
<1> SUFFICES ASSUME Init PROVE PipeInv
  OBVIOUS
<1>0. PICK d \in {0, 1} :
        mbx = [direction |-> d, read |-> 0, write |-> 0, watch |-> 0, knows |-> FALSE,
               queue |-> << >>, active |-> None, rchan |-> TRUE, wchan |-> TRUE,
               reading |-> TRUE, writing |-> FALSE, lookup |-> FALSE, timer |-> FALSE,
               freed |-> FALSE]
  BY ParametersAssumption DEF Init
<1> DEFINE e == << >>
<1>1. /\ box = e /\ asts = e /\ sent = 0 /\ got = e /\ writer = "open" /\ reader /\ alive
      /\ ~ ended
  BY DEF Init
<1>2. /\ mbx.direction = d /\ mbx.read = 0 /\ mbx.watch = 0 /\ mbx.queue = e
      /\ mbx.rchan /\ mbx.wchan /\ mbx.reading /\ ~ mbx.writing
  BY <1>0
<1>3. Inv
  BY InitInv
<1>4. e \in Seq(Int) /\ Len(e) = 0
  OBVIOUS
<1>5. \A L, o : Holds(e, L, o)
  BY HoldsNone
<1>6. Hand(e, e) /\ \A b : Justs(e, mbx.direction, b, writer)
  BY <1>4 DEF Hand, Justs
<1> HIDE DEF e
<1>7. Total(0, e, e, e, e) = 0
  BY <1>4 DEF Total
<1>8. Flow(0, 0, e, e, e, e)
  BY <1>4, <1>5, <1>7 DEF Flow
<1>9. State.c = mbx /\ State.box = e /\ State.asts = e
  BY <1>1 DEF State
<1>10. Active(mbx) = e /\ Box(State) = e
  BY <1>2, <1>9 DEF Active, Box, e
<1>11. OnWay(e, e, e, e, mbx)
  BY <1>1, <1>4, <1>7, <1>8 DEF OnWay
<1>12. Channels(mbx, e)
  BY <1>1, <1>2 DEF Channels, e
<1>13. Good(State, e)
  BY <1>2, <1>6, <1>9, <1>10, <1>11, <1>12 DEF Good
<1>14. Carried
  BY <1>1, <1>4, <1>6, <1>13 DEF Carried
<1>15. GotFirst /\ ChildDone
  BY <1>1, <1>4 DEF GotFirst, Counted, ChildDone
<1> QED BY <1>3, <1>14, <1>15 DEF PipeInv

\* The steps that leave what has been sent and read, and whether the reader is at the end.
LEMMA CountsStay ==
  ASSUME PipeInv, mbx'.direction = mbx.direction, UNCHANGED <<sent, got, ended>>,
         writer' = writer \/ writer' # "open"
  PROVE  GotFirst' /\ ChildDone'
<1>1. GotFirst'
  BY DEF PipeInv, GotFirst, Counted
<1>2. ChildDone'
  BY DEF PipeInv, ChildDone
<1> QED BY <1>1, <1>2

LEMMA NextPipe == PipeInv /\ [Next]_vars => PipeInv'
<1> SUFFICES ASSUME PipeInv, [Next]_vars PROVE PipeInv'
  OBVIOUS
<1>0. Inv' /\ mbx'.direction = mbx.direction /\ sent \in Nat
  BY NextInv DEF PipeInv, Kept, Inv
<1> SUFFICES GotFirst' /\ ChildDone' /\ Carried'
  BY <1>0 DEF PipeInv
<1>1. CASE System
  <2>1. UNCHANGED Environment
    BY <1>1 DEF System, ReadMbxAst, WriteMbxAst, CheckIfChildIsAliveAst, WatchChildAst,
         TimerExpires, LookupCompletes
  <2>2. GotFirst' /\ ChildDone'
    BY <1>0, <2>1, CountsStay DEF Environment
  <2>3. Carried'
    BY <1>1, ReadMbxAstCarried, WriteMbxAstCarried, CheckIfChildIsAliveAstCarried,
       WatchChildAstCarried, TimerCarried, LookupCarried DEF System
  <2> QED BY <2>2, <2>3
<1>2. CASE WriterWrites
  <2>1. /\ sent' = sent + 1 /\ writer = "open" /\ writer' = writer /\ got' = got
        /\ ended' = ended
    BY <1>2 DEF WriterWrites
  <2>2. GotFirst'
    BY <1>0, <2>1 DEF PipeInv, GotFirst, Counted
  <2>3. ChildDone'
    BY <1>0, <2>1 DEF PipeInv, ChildDone
  <2> QED BY <1>2, <2>2, <2>3, WriterWritesCarried
<1>3. CASE WriterCloses
  <2>1. UNCHANGED <<sent, got, ended>> /\ writer' # "open"
    BY <1>3 DEF WriterCloses
  <2> QED BY <1>0, <1>3, <2>1, CountsStay, WriterClosesCarried
<1>4. CASE WriterGone
  <2>1. UNCHANGED <<sent, got, ended>> /\ writer' # "open"
    BY <1>4 DEF WriterGone
  <2> QED BY <1>0, <1>4, <2>1, CountsStay, WriterGoneCarried
<1>5. CASE ChildExits
  <2>1. UNCHANGED <<sent, got, ended>> /\ writer' = writer
    BY <1>5 DEF ChildExits
  <2> QED BY <1>0, <1>5, <2>1, CountsStay, ChildExitsCarried
<1>6. CASE ReaderReads
  BY <1>0, <1>6, ReaderReadsCarried DEF ChildDone
<1>7. CASE ReaderSeesNoWriter
  <2>1. UNCHANGED <<mbx, box, asts, sent, writer, reader, alive, got>>
    BY <1>7 DEF ReaderSeesNoWriter
  <2>2. GotFirst'
    BY <2>1 DEF PipeInv, GotFirst, Counted
  <2>3. ChildDone'
    BY <1>0, <1>7, <2>1, SeesNoWriterDone DEF ChildDone
  <2>4. Carried'
    <3>1. State' = State
      BY <2>1 DEF State
    <3> QED BY <2>1, <3>1 DEF PipeInv, Carried, Good, OnWay, Channels
  <2> QED BY <2>2, <2>3, <2>4
<1>8. CASE ReaderCloses
  <2>1. UNCHANGED <<sent, writer, got, ended>> /\ ~ reader'
    BY <1>8 DEF ReaderCloses
  <2>2. Carried'
    BY <2>1 DEF Carried
  <2> QED BY <1>0, <2>1, <2>2, CountsStay
<1>9. CASE UNCHANGED vars
  <2>1. UNCHANGED <<mbx, box, asts, sent, writer, reader, alive, got, ended>>
    BY <1>9 DEF vars
  <2>2. Carried'
    <3>1. State' = State
      BY <2>1 DEF State
    <3> QED BY <2>1, <3>1 DEF PipeInv, Carried, Good, OnWay, Channels
  <2> QED BY <1>0, <2>1, <2>2, CountsStay
<1> QED BY <1>1, <1>2, <1>3, <1>4, <1>5, <1>6, <1>7, <1>8, <1>9 DEF Next, Processes

\* Two parts of a pipe, one behind the other.
LEMMA Joined ==
  ASSUME NEW s \in Seq(Int), NEW t \in Seq(Int), NEW L \in Nat,
         Holds(s, L, 0), Holds(t, L, Len(s))
  PROVE  /\ s \o t \in Seq(Int) /\ Len(s \o t) = Len(s) + Len(t)
         /\ Holds(s \o t, L, 0)
<1> DEFINE j == s \o t
<1>1. /\ j \in Seq(Int) /\ Len(j) = Len(s) + Len(t) /\ Len(s) \in Nat /\ Len(t) \in Nat
      /\ \A k \in 1 .. Len(s) + Len(t) : j[k] = IF k <= Len(s) THEN s[k] ELSE t[k - Len(s)]
  OBVIOUS
<1> HIDE DEF j
<1>2. ASSUME NEW k \in 1 .. Len(j) PROVE j[k] = Item(L, 0 + k)
  <2>1. CASE k <= Len(s)
    <3>1. k \in 1 .. Len(s) /\ j[k] = s[k]
      BY <1>1, <1>2, <2>1
    <3> QED BY <3>1 DEF Holds
  <2>2. CASE ~ (k <= Len(s))
    <3> DEFINE i == k - Len(s)
    <3>1. i \in 1 .. Len(t) /\ j[k] = t[i] /\ Len(s) + i = 0 + k
      BY <1>1, <1>2, <2>2
    <3> HIDE DEF i
    <3>2. t[i] = Item(L, Len(s) + i)
      BY <3>1 DEF Holds
    <3> QED BY <3>1, <3>2
  <2> QED BY <2>1, <2>2
<1> QED BY <1>1, <1>2 DEF Holds, j

\* A sequence is determined by its length and its elements.
LEMMA SameSeq ==
  ASSUME NEW s \in Seq(Int), NEW t \in Seq(Int), Len(s) = Len(t),
         \A k \in 1 .. Len(s) : s[k] = t[k]
  PROVE  s = t
<1>1. s \in [1 .. Len(s) -> Int] /\ t \in [1 .. Len(s) -> Int]
  OBVIOUS
<1> QED BY ONLY <1>1, \A k \in 1 .. Len(s) : s[k] = t[k]

LEMMA PipelineSent ==
  ASSUME PipeInv, reader, mbx.rchan
  PROVE  Pipeline = Sent \/ (Pipeline = Append(Sent, Eof) /\ writer # "open")
<1>0. /\ asts \in Seq(Ast) /\ box \in Seq(Int) /\ mbx \in Context
      /\ Reads(State) /\ State.asts = asts
  BY CarriedParts
<1>1. PICK f \in Seq(Int) :
        /\ Hand(asts, f)
        /\ OnWay(Active(mbx), mbx.queue, f, IF mbx.rchan THEN box ELSE << >>, mbx)
  BY CarriedParts
<1>2. /\ sent \in Nat /\ got \in Seq(Int) /\ Len(got) \in Nat /\ Len(got) <= sent
      /\ \A k \in 1 .. Len(got) : got[k] = k
  BY DEF PipeInv, GotFirst, Counted
<1> DEFINE g == Len(got)
           a == Active(mbx)
           q == mbx.queue
<1>3. /\ Flow(sent, g, a, q, f, box)
      /\ Total(g, a, q, f, box) = sent + 1 => writer # "open"
  BY <1>1 DEF OnWay, InFull
<1> DEFINE reads == {i \in DOMAIN asts : asts[i][1] = "read" /\ asts[i][2] # None}
           found == IF reads = {} THEN << >> ELSE <<asts[CHOOSE i \in reads : TRUE][2]>>
<1>4. Pipeline = got \o a \o q \o found \o box
  BY DEF Pipeline, Active
<1>5. found = f
  <2>1. DOMAIN asts = 1 .. Len(asts) /\ Once(asts, {"read"})
    BY <1>0 DEF Reads, ReadChain, Chain
  <2>2. CASE f = << >> /\ \A i \in 1 .. Len(asts) : asts[i][1] = "read" => asts[i][2] = None
    BY <2>1, <2>2
  <2>3. CASE \E i \in 1 .. Len(asts) :
               asts[i][1] = "read" /\ asts[i][2] # None /\ f = <<asts[i][2]>>
    <3>1. PICK i \in 1 .. Len(asts) :
            asts[i][1] = "read" /\ asts[i][2] # None /\ f = <<asts[i][2]>>
      BY <2>3
    <3>2. i \in reads /\ \A j \in reads : j = i
      BY <2>1, <3>1 DEF Once
    <3>3. (CHOOSE j \in reads : TRUE) = i
      BY <3>2
    <3> HIDE DEF reads
    <3> QED BY <3>1, <3>2, <3>3
  <2> QED BY <1>1, <2>2, <2>3 DEF Hand
<1>6. /\ a \in Seq(Int) /\ q \in Seq(Int) /\ f \in Seq(Int) /\ box \in Seq(Int)
      /\ Holds(a, sent, g) /\ Holds(q, sent, g + Len(a))
      /\ Holds(f, sent, g + Len(a) + Len(q))
      /\ Holds(box, sent, g + Len(a) + Len(q) + Len(f))
      /\ \/ g + Len(a) + Len(q) + Len(f) + Len(box) = sent
         \/ g + Len(a) + Len(q) + Len(f) + Len(box) = sent + 1
      /\ g + Len(a) + Len(q) + Len(f) + Len(box) = sent + 1 => writer # "open"
  BY <1>3 DEF Flow, Total
<1>7. Holds(got, sent, 0)
  BY <1>2 DEF Holds, Item
<1> HIDE DEF found, a, q
<1> DEFINE p1 == got \o a
           p2 == p1 \o q
           p3 == p2 \o f
           p4 == p3 \o box
<1>8. p1 \in Seq(Int) /\ Len(p1) = g + Len(a) /\ Holds(p1, sent, 0)
  BY <1>2, <1>6, <1>7, Joined
<1> HIDE DEF p1
<1>9. p2 \in Seq(Int) /\ Len(p2) = g + Len(a) + Len(q) /\ Holds(p2, sent, 0)
  <2>1. Holds(q, sent, Len(p1))
    BY <1>6, <1>8
  <2>2. p1 \in Seq(Int) /\ q \in Seq(Int) /\ sent \in Nat /\ Holds(p1, sent, 0)
    BY <1>2, <1>6, <1>8
  <2>3. /\ p1 \o q \in Seq(Int) /\ Len(p1 \o q) = Len(p1) + Len(q)
        /\ Holds(p1 \o q, sent, 0)
    BY <2>1, <2>2, Joined
  <2> QED BY <1>8, <2>3
<1> HIDE DEF p2
<1>10. p3 \in Seq(Int) /\ Len(p3) = g + Len(a) + Len(q) + Len(f) /\ Holds(p3, sent, 0)
  <2>1. Holds(f, sent, Len(p2))
    BY <1>6, <1>9
  <2>2. p2 \in Seq(Int) /\ f \in Seq(Int) /\ sent \in Nat /\ Holds(p2, sent, 0)
    BY <1>2, <1>6, <1>9
  <2>3. /\ p2 \o f \in Seq(Int) /\ Len(p2 \o f) = Len(p2) + Len(f)
        /\ Holds(p2 \o f, sent, 0)
    BY <2>1, <2>2, Joined
  <2> QED BY <1>9, <2>3
<1> HIDE DEF p3
<1>11. /\ p4 \in Seq(Int) /\ Holds(p4, sent, 0)
       /\ Len(p4) = g + Len(a) + Len(q) + Len(f) + Len(box)
  <2>1. Holds(box, sent, Len(p3))
    BY <1>6, <1>10
  <2>2. p3 \in Seq(Int) /\ box \in Seq(Int) /\ sent \in Nat /\ Holds(p3, sent, 0)
    BY <1>2, <1>6, <1>10
  <2>3. /\ p3 \o box \in Seq(Int) /\ Len(p3 \o box) = Len(p3) + Len(box)
        /\ Holds(p3 \o box, sent, 0)
    BY <2>1, <2>2, Joined
  <2> QED BY <1>10, <2>3
<1> HIDE DEF p4
<1>12. Pipeline = p4
  BY <1>4, <1>5 DEF p1, p2, p3, p4
<1>13. /\ Len(p4) = sent \/ Len(p4) = sent + 1
       /\ Len(p4) = sent + 1 => writer # "open"
  BY <1>6, <1>11
<1>14. \A k \in 1 .. Len(p4) : p4[k] = IF k <= sent THEN k ELSE Eof
  BY <1>2, <1>11 DEF Holds, Item
<1>15. Sent \in Seq(Int) /\ Len(Sent) = sent /\ \A k \in 1 .. sent : Sent[k] = k
  BY <1>2 DEF Sent
<1>16. CASE Len(p4) = sent
  <2>1. \A k \in 1 .. sent : p4[k] = Sent[k]
    BY <1>2, <1>14, <1>15, <1>16
  <2>2. p4 = Sent
    BY <1>11, <1>15, <1>16, <2>1, SameSeq
  <2> QED BY <1>12, <2>2
<1>17. CASE Len(p4) = sent + 1
  <2> DEFINE e == Append(Sent, Eof)
  <2>1. e \in Seq(Int) /\ Len(e) = sent + 1 /\ e[sent + 1] = Eof
        /\ \A k \in 1 .. sent : e[k] = Sent[k]
    BY <1>2, <1>15 DEF Eof
  <2> HIDE DEF e
  <2>2. \A k \in 1 .. sent + 1 : p4[k] = e[k]
    <3>1. \A k \in 1 .. sent + 1 : k \in 1 .. sent \/ k = sent + 1
      BY <1>2
    <3>2. ~ (sent + 1 <= sent) /\ sent + 1 \in 1 .. Len(p4)
      BY <1>2, <1>17
    <3>3. p4[sent + 1] = Eof
      BY <1>14, <3>2
    <3>4. \A k \in 1 .. sent : k \in 1 .. Len(p4) /\ k <= sent
      BY <1>2, <1>17
    <3> QED BY <1>14, <1>15, <2>1, <3>1, <3>3, <3>4
  <2>3. p4 = e
    BY <1>11, <1>17, <2>1, <2>2, SameSeq
  <2> QED BY <1>12, <1>13, <1>17, <2>3 DEF e
<1> QED BY <1>13, <1>16, <1>17

LEMMA GotPrefix ==
  ASSUME GotFirst
  PROVE  /\ IsPrefix(got, Sent)
         /\ Len(got) = sent => got = Sent
<1>1. /\ sent \in Nat /\ got \in Seq(Int) /\ Len(got) \in Nat /\ Len(got) <= sent
      /\ \A k \in 1 .. Len(got) : got[k] = k
  BY DEF GotFirst, Counted
<1>2. Sent \in Seq(Int) /\ Len(Sent) = sent /\ \A k \in 1 .. sent : Sent[k] = k
  BY <1>1 DEF Sent
<1> DEFINE s == SubSeq(got, 1, Len(got))
           t == SubSeq(Sent, 1, Len(got))
<1>3. s \in Seq(Int) /\ Len(s) = Len(got) /\ \A k \in 1 .. Len(got) : s[k] = got[k]
  BY <1>1
<1>4. t \in Seq(Int) /\ Len(t) = Len(got) /\ \A k \in 1 .. Len(got) : t[k] = Sent[k]
  BY <1>1, <1>2
<1>5. \A k \in 1 .. Len(got) : k \in 1 .. sent
  BY <1>1
<1> HIDE DEF s, t
<1>6. s = t
  BY <1>2, <1>3, <1>4, <1>5, SameSeq, <1>1
<1>7. Len(got) = sent => got = Sent
  BY <1>1, <1>2, SameSeq
<1> QED BY <1>1, <1>2, <1>6, <1>7 DEF IsPrefix, s, t

LEMMA PipeInvariant == Spec => []PipeInv
BY InitPipe, NextPipe, PTL DEF Spec

\* As long as somebody reads and the FIFO has the channel it reads from, every message
\* written is in exactly one place, in the order of the writes, and the end of the file is
\* behind them all and only where the writer has closed (vms_read_mbx_ast puts each buffer
\* behind the queue, vms_write_mbx_ast takes the first, and one read and one write at a
\* time are under way).  What the reader has is always the first of what was written.
THEOREM NothingIsLost == Spec => []NothingLost
<1>1. PipeInv => NothingLost
  BY PipelineSent, GotPrefix DEF PipeInv, NothingLost
<1> QED BY <1>1, PipeInvariant, PTL

\* A child that comes to the end of the file has read all that its parent wrote, whether it
\* was told by an end-of-file message or found no writer: the FIFO deassigns its channels
\* only when the mailbox, the queue and the ASTs hold nothing more.
THEOREM ChildReadsAll == Spec => []ChildGetsAll
<1>1. PipeInv => ChildGetsAll
  BY GotPrefix DEF PipeInv, ChildDone, ChildGetsAll, DrainedAtEnd
<1> QED BY <1>1, PipeInvariant, PTL
=============================================================================
