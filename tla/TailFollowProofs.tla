--------------------------- MODULE TailFollowProofs ---------------------------
(***************************************************************************)
(* Theorems about TailFollow, for any number of names, files and changes:  *)
(* tail's descriptors are the ones it knows of, and what it shows of a     *)
(* file that it follows by descriptor has no gap and no repetition, and is *)
(* all that was written when tail ends after the writer.                   *)
(***************************************************************************)
EXTENDS TailFollow, FiniteSetTheorems, WellFoundedInduction, TLAPS

-----------------------------------------------------------------------------
(* The inductive invariant.  The descriptors that are open are those of    *)
(* the operands, one each; when operands are looked at for the first time, *)
(* those before the current one are done and those after it have nothing.  *)

\* The fields of a File_spec that matter for the descriptors.
Fields == {"fd", "size", "ino", "errnum"}

\* An open descriptor.
Opened(e) == {"ino", "pos"} \subseteq DOMAIN e /\ e.ino # "none"

\* A descriptor for each operand that has one, and the others closed.
Table ==
  /\ DOMAIN fds = 1..(N + 1) /\ DOMAIN f = Operands
  /\ \A i \in Operands :
       /\ Fields \subseteq DOMAIN f[i] /\ f[i].fd \in 0..(N + 1)
       /\ f[i].fd # 0 => Opened(fds[f[i].fd])
  /\ \A i, j \in Operands : f[i].fd # 0 /\ f[i].fd = f[j].fd => i = j
  /\ \A d \in DOMAIN fds : (\A i \in Operands : f[i].fd # d) => fds[d] = Closed

\* What is known of operand i is true of its descriptor.
Known(i) ==
  /\ (f[i].fd = 0) <=> (f[i].errnum # "0")
  /\ f[i].fd # 0 => fds[f[i].fd].ino = f[i].ino /\ fds[f[i].fd].pos = f[i].size

Specs ==
  \A i \in Operands :
    CASE Following \/ i < cur -> Known(i)
      [] ~Following /\ i = cur -> (f[i].fd # 0) <=> (pc = "record")
      [] OTHER -> f[i].fd = 0

Descriptors ==
  /\ cur \in Operands /\ table \subseteq Operands /\ ret \in {"events", "again", "poll"}
  /\ ~mixedUp \/ ~ByName => Table /\ Specs

-----------------------------------------------------------------------------
(* Files that are followed by descriptor: no event names a file, and what  *)
(* was shown of one is what stands before the descriptor's position.       *)

Modified == [wd : Nat, mask : {"MODIFY"}, name : {"none"}]

Unnamed ==
  /\ watch \in [Watchable \cup {"dir"} -> Nat] /\ nextWd \in Nat /\ watch["dir"] = 0
  /\ queue \in Seq(Modified)
  /\ pc = "event" => ev \in Modified
  /\ pc \notin {"moved", "recheck", "recheck2"}

Increasing(s) == \A k, l \in DOMAIN s : k < l => s[k] < s[l]
UpTo(s, n) == \A k \in DOMAIN s : s[k] <= n

Contents ==
  /\ dir \in [Names -> Inodes \cup Special \cup {"none"}]
  /\ written \in Nat
  /\ content \in [Inodes -> Seq(Nat)]
  /\ \A o \in Inodes : Increasing(content[o]) /\ UpTo(content[o], written)

\* What has been shown, s, of a file that now has the lines c, by a descriptor at
\* position p: the lines beyond p are new, and all of them if the file has shrunk.
Ahead(s, c, p) ==
  \A k \in DOMAIN s, l \in DOMAIN c : l > p \/ Len(c) < p => s[k] < c[l]

Follows(s, o, p) ==
  /\ o \in Inodes /\ p \in Nat
  /\ Ahead(s, content[o], p)
  /\ o \notin cut => /\ p <= Len(content[o]) /\ Len(s) = p
                     /\ \A k \in 1..p : s[k] = content[o][k]

Shown1(i) ==
  /\ Increasing(out[i]) /\ UpTo(out[i], written)
  /\ IF f[i].fd = 0 THEN out[i] = << >>
                    ELSE Follows(out[i], fds[f[i].fd].ino, fds[f[i].fd].pos)

Shows ==
  /\ out \in [Operands -> Seq(Nat)]
  /\ \A i \in Operands : Shown1(i)
  /\ pc = "dump" => f[cur].fd # 0

Reading == Contents /\ (~ByName => Unnamed /\ Shows)

-----------------------------------------------------------------------------
(* Numbers and descriptors.                                                *)

Below == OpToRel(<, Nat)

LEMMA Least ==
  ASSUME NEW S \in SUBSET Nat, S # {}
  PROVE  \E x \in S : \A y \in S : x <= y
<1>1. IsWellFoundedOn(Below, Nat)
  BY NatLessThanWellFounded DEF Below
<1>2. PICK x \in S : \A y \in S : <<y, x>> \notin Below
  BY <1>1, WFMin
<1>3. \A y \in S : ~(y < x)
  BY <1>2 DEF Below, OpToRel
<1> QED
  BY <1>2, <1>3

LEMMA Counts == N \in Nat \ {0} /\ Operands = 1..N
BY TailAssumption DEF N, Operands

\* Each operand has at most one descriptor, and so there is a free one: open gives it.
LEMMA FreeDescriptor ==
  ASSUME Table
  PROVE  /\ LowestFree(fds) \in 1..(N + 1) /\ fds[LowestFree(fds)] = Closed
         /\ LowestFree(fds) # 0
         /\ \A i \in Operands : f[i].fd # LowestFree(fds)
<1>1. N \in Nat /\ Operands = 1..N /\ DOMAIN fds = 1..(N + 1)
  BY Counts DEF Table
<1>2. \E d \in 1..(N + 1) : fds[d] = Closed
  <2> SUFFICES ASSUME \A d \in 1..(N + 1) : fds[d] # Closed PROVE FALSE
    OBVIOUS
  <2> DEFINE owner == [d \in 1..(N + 1) |-> CHOOSE i \in Operands : f[i].fd = d]
  <2>1. \A d \in 1..(N + 1) : owner[d] \in Operands /\ f[owner[d]].fd = d
    BY <1>1 DEF Table
  <2>2. owner \in [1..(N + 1) -> 1..N]
    BY <1>1, <2>1
  <2>3. /\ IsFiniteSet(1..(N + 1)) /\ Cardinality(1..(N + 1)) = N + 1
        /\ IsFiniteSet(1..N) /\ Cardinality(1..N) = N
    BY <1>1, FS_Interval
  <2> HIDE DEF owner
  <2>4. \E d, e \in 1..(N + 1) : d # e /\ owner[d] = owner[e]
    <3>1. Cardinality(1..N) < Cardinality(1..(N + 1))
      BY <1>1, <2>3
    <3> QED
      BY <2>2, <2>3, <3>1, FS_PigeonHole
  <2> QED
    BY <2>1, <2>4
<1> DEFINE S == { d \in 1..(N + 1) : fds[d] = Closed }
<1>3. S \in SUBSET Nat /\ S # {}
  BY <1>1, <1>2
<1>4. PICK d \in S : \A e \in S : d <= e
  BY <1>3, Least
<1>5. \A e \in 1..(d - 1) : fds[e] # Closed
  BY <1>1, <1>4
<1>6. /\ LowestFree(fds) \in 1..(N + 1) /\ fds[LowestFree(fds)] = Closed
  BY <1>1, <1>4, <1>5 DEF LowestFree
<1>7. ASSUME NEW i \in Operands, f[i].fd = LowestFree(fds) PROVE FALSE
  BY <1>1, <1>6, <1>7 DEF Table, Opened, Closed
<1> QED
  BY <1>1, <1>6, <1>7

\* recheck.  A descriptor may be given up, replaced, or opened and closed again.
Takes(i, s, t) ==
  /\ Fields \subseteq DOMAIN s /\ s.fd \in 0..(N + 1)
  /\ DOMAIN t = DOMAIN fds
  /\ s.fd # 0 => Opened(t[s.fd])
  /\ \A j \in Operands \ {i} : f[j].fd # 0 => s.fd # f[j].fd /\ t[f[j].fd] = fds[f[j].fd]
  /\ \A d \in DOMAIN fds : s.fd # d /\ (\A j \in Operands \ {i} : f[j].fd # d) => t[d] = Closed

Fits(s, t) ==
  /\ (s.fd = 0) <=> (s.errnum # "0")
  /\ s.fd # 0 => t[s.fd].ino = s.ino /\ t[s.fd].pos = s.size

\* A step changes no other operand than i.
Only(i) == DOMAIN f' = Operands /\ \A j \in Operands \ {i} : f'[j] = f[j]

LEMMA OneOperand ==
  ASSUME Table, NEW i \in Operands, Only(i), Takes(i, f'[i], fds')
  PROVE  /\ Table'
         /\ \A j \in Operands \ {i} : f[j].fd # 0 => fds'[f[j].fd] = fds[f[j].fd]
<1>1. DOMAIN fds' = 1..(N + 1) /\ DOMAIN f' = Operands
  BY DEF Table, Takes, Only
<1>2. ASSUME NEW j \in Operands
      PROVE  /\ Fields \subseteq DOMAIN f'[j] /\ f'[j].fd \in 0..(N + 1)
             /\ f'[j].fd # 0 => Opened(fds'[f'[j].fd])
  BY DEF Table, Takes, Only
<1>3. \A j, k \in Operands : f'[j].fd # 0 /\ f'[j].fd = f'[k].fd => j = k
  BY DEF Table, Takes, Only
<1>4. \A d \in DOMAIN fds' : (\A j \in Operands : f'[j].fd # d) => fds'[d] = Closed
  BY DEF Table, Takes, Only
<1> QED
  BY <1>1, <1>2, <1>3, <1>4 DEF Table, Takes

LEMMA RecheckTakes ==
  ASSUME Table, NEW i \in Operands, Known(i)
  PROVE  LET r == Recheck(i) IN Takes(i, r.spec, r.fds) /\ Fits(r.spec, r.fds)
<1> DEFINE old == f[i]
           fd  == LowestFree(fds)
           ino == Target(i)
           opened == [fds EXCEPT ![fd] = [ino |-> ino, pos |-> 0]]
           s == Recheck(i).spec
           t == Recheck(i).fds
<1>1. /\ DOMAIN fds = 1..(N + 1) /\ Fields \subseteq DOMAIN old /\ old.fd \in 0..(N + 1)
      /\ N \in Nat /\ (old.fd # 0 => old.fd \in 1..(N + 1) /\ Opened(fds[old.fd]))
      /\ \A j \in Operands \ {i} : f[j].fd # 0 => f[j].fd # old.fd /\ f[j].fd \in 1..(N + 1)
  BY Counts DEF Table
<1>2. /\ fd \in 1..(N + 1) /\ fds[fd] = Closed /\ fd # 0
      /\ \A j \in Operands : f[j].fd # fd
  BY FreeDescriptor
<1>3. /\ DOMAIN opened = 1..(N + 1) /\ opened[fd] = [ino |-> ino, pos |-> 0]
      /\ \A d \in 1..(N + 1) : d # fd => opened[d] = fds[d]
  BY <1>1, <1>2
<1>4. \A d \in DOMAIN fds : (\A j \in Operands : f[j].fd # d) => fds[d] = Closed
  BY DEF Table
<1>5. ASSUME s.fd = 0, s.errnum # "0", Fields \subseteq DOMAIN s, t = CloseFd(fds, old.fd)
      PROVE  Takes(i, s, t) /\ Fits(s, t)
  <2>1. /\ DOMAIN t = 1..(N + 1)
        /\ \A d \in 1..(N + 1) : t[d] = IF d = old.fd THEN Closed ELSE fds[d]
    BY <1>1, <1>5 DEF CloseFd
  <2> HIDE DEF s, t
  <2> QED
    BY <1>1, <1>4, <1>5, <2>1 DEF Takes, Fits
<1>6. ASSUME ino # "none", s = RecordOpenFd(i, fd, ino, 0),
             (t = opened /\ old.fd = 0) \/ t = CloseFd(opened, old.fd)
      PROVE  Takes(i, s, t) /\ Fits(s, t)
  <2>1. s.fd = fd /\ s.errnum = "0" /\ s.ino = ino /\ s.size = 0 /\ Fields \subseteq DOMAIN s
    BY <1>1, <1>6 DEF Fields, RecordOpenFd
  <2>2. /\ DOMAIN t = 1..(N + 1)
        /\ \A d \in 1..(N + 1) : t[d] = IF d = old.fd THEN Closed ELSE opened[d]
    <3> HIDE DEF opened, s
    <3>1. CASE t = CloseFd(opened, old.fd)
      <4> HIDE DEF t
      <4> QED
        BY <1>3, <3>1 DEF CloseFd
    <3>2. CASE t = opened /\ old.fd = 0
      <4>1. \A d \in 1..(N + 1) : d # old.fd
        BY <1>1, <3>2
      <4> HIDE DEF t
      <4> QED
        BY <1>3, <3>2, <4>1
    <3> QED
      BY <1>6, <3>1, <3>2
  <2>3. t[fd] = [ino |-> ino, pos |-> 0] /\ Opened(t[fd]) /\ t[fd].ino = ino /\ t[fd].pos = 0
    BY <1>2, <1>3, <1>6, <2>2 DEF Opened
  <2> HIDE DEF s, t
  <2>4. Fits(s, t)
    BY <1>2, <2>1, <2>3 DEF Fits
  <2> QED
    BY <1>1, <1>2, <1>3, <1>4, <2>1, <2>2, <2>3, <2>4 DEF Takes
<1>7. ASSUME old.fd # 0, s = [old EXCEPT !.errnum = "0"], t = CloseFd(opened, fd)
      PROVE  Takes(i, s, t) /\ Fits(s, t)
  <2>1. s.fd = old.fd /\ s.errnum = "0" /\ s.ino = old.ino /\ s.size = old.size /\ Fields \subseteq DOMAIN s
    BY <1>1, <1>7 DEF Fields
  <2>2. DOMAIN t = 1..(N + 1) /\ \A d \in 1..(N + 1) : t[d] = fds[d]
    BY <1>2, <1>3, <1>7 DEF CloseFd
  <2> HIDE DEF s, t
  <2> QED
    BY <1>1, <1>4, <1>7, <2>1, <2>2 DEF Takes, Fits, Known
<1>8. CASE (inotify /\ ino = "symlink") \/ Errno(i) # "0" \/ ino = "directory"
  <2>1. /\ s.fd = 0 /\ s.errnum # "0" /\ Fields \subseteq DOMAIN s
        /\ t = CloseFd(fds, old.fd)
    <3>1. CASE inotify /\ ino = "symlink"
      <4>1. s.fd = 0
        BY <1>1, <3>1 DEF Recheck, Fields
      <4>2. s.errnum # "0"
        BY <1>1, <3>1 DEF Recheck, Fields
      <4>3. Fields \subseteq DOMAIN s
        BY <1>1, <3>1 DEF Recheck, Fields
      <4>4. t = CloseFd(fds, old.fd)
        BY <1>1, <3>1 DEF Recheck
      <4> QED
        BY <4>1, <4>2, <4>3, <4>4
    <3>2. CASE ~(inotify /\ ino = "symlink") /\ Errno(i) # "0"
      <4>1. s.fd = 0
        BY <1>1, <3>2 DEF Recheck, Fields
      <4>2. s.errnum # "0"
        BY <1>1, <3>2 DEF Recheck, Fields
      <4>3. Fields \subseteq DOMAIN s
        BY <1>1, <3>2 DEF Recheck, Fields
      <4>4. t = CloseFd(fds, old.fd)
        BY <1>1, <3>2 DEF Recheck
      <4> QED
        BY <4>1, <4>2, <4>3, <4>4
    <3>3. CASE ~(inotify /\ ino = "symlink") /\ Errno(i) = "0" /\ ino = "directory"
      <4>1. s.fd = 0
        BY <1>1, <3>3 DEF Recheck, Fields
      <4>2. s.errnum # "0"
        BY <1>1, <3>3 DEF Recheck, Fields
      <4>3. Fields \subseteq DOMAIN s
        BY <1>1, <3>3 DEF Recheck, Fields
      <4>4. t = CloseFd(fds, old.fd)
        BY <1>1, <3>3 DEF Recheck
      <4> QED
        BY <4>1, <4>2, <4>3, <4>4
    <3> QED
      BY <1>8, <3>1, <3>2, <3>3
  <2> QED
    BY <1>5, <2>1
<1>9. CASE ~(inotify /\ ino = "symlink") /\ Errno(i) = "0" /\ ino # "directory"
  <2>1. ino # "none"
    BY <1>9 DEF Errno
  <2>2. CASE old.fd = 0
    <3>1. s = RecordOpenFd(i, fd, ino, 0) /\ t = opened
      BY <1>9, <2>2 DEF Recheck
    <3> QED
      BY <1>6, <2>1, <2>2, <3>1
  <2>3. CASE old.fd # 0
    <3>1. old.errnum = "0"
      BY <2>3 DEF Known
    <3>2. CASE old.ino # ino
      <4>1. s = RecordOpenFd(i, fd, ino, 0) /\ t = CloseFd(opened, old.fd)
        BY <1>9, <2>3, <3>1, <3>2 DEF Recheck, ClosedBy
      <4> QED
        BY <1>6, <2>1, <4>1
    <3>3. CASE old.ino = ino
      <4>1. s = [old EXCEPT !.errnum = "0"] /\ t = CloseFd(opened, fd)
        BY <1>9, <2>3, <3>1, <3>3 DEF Recheck, ClosedBy
      <4> QED
        BY <1>7, <2>3, <4>1
    <3> QED
      BY <3>2, <3>3
  <2> QED
    BY <2>2, <2>3
<1> QED
  BY <1>8, <1>9

-----------------------------------------------------------------------------
(* The steps.                                                              *)

LEMMA FollowStep ==
  ASSUME Table, Specs, NEW i \in Operands, Only(i), Takes(i, f'[i], fds'), Fits(f'[i], fds'),
         Following, Following'
  PROVE  Table' /\ Specs'
<1>1. \A j \in Operands : Known(j)
  BY DEF Specs
<1>2. Table' /\ \A j \in Operands \ {i} : f[j].fd # 0 => fds'[f[j].fd] = fds[f[j].fd]
  BY OneOperand
<1>3. \A j \in Operands : Known(j)'
  BY <1>1, <1>2 DEF Known, Fits, Only
<1> QED
  BY <1>2, <1>3 DEF Specs

\* A step that reads from a descriptor or changes other fields of a File_spec.
Moves1(i) ==
  /\ Only(i)
  /\ Fields \subseteq DOMAIN f'[i] /\ f'[i].fd = f[i].fd
  /\ f'[i].errnum = f[i].errnum /\ f'[i].ino = f[i].ino
  /\ DOMAIN fds' = DOMAIN fds /\ \A d \in DOMAIN fds : d # f[i].fd => fds'[d] = fds[d]
  /\ f[i].fd # 0 => /\ {"ino", "pos"} \subseteq DOMAIN fds'[f[i].fd]
                    /\ fds'[f[i].fd].ino = fds[f[i].fd].ino
                    /\ fds'[f[i].fd].pos = f'[i].size

LEMMA ReadStep ==
  ASSUME Table, Specs, NEW i \in Operands, Moves1(i), Following, Following'
  PROVE  Table' /\ Specs'
<1>1. Known(i)
  BY DEF Specs
<1>2. /\ f[i].fd \in 0..(N + 1) /\ DOMAIN fds = 1..(N + 1)
      /\ f[i].fd # 0 => Opened(fds[f[i].fd]) /\ f[i].fd \in DOMAIN fds
      /\ \A j \in Operands \ {i} : f[j].fd # 0 => f[j].fd # f[i].fd /\ f[j].fd \in DOMAIN fds
  BY Counts DEF Table
<1>3. \A d \in DOMAIN fds : (\A j \in Operands : f[j].fd # d) => fds[d] = Closed
  BY DEF Table
<1>4. Takes(i, f'[i], fds')
  BY <1>2, <1>3 DEF Moves1, Takes, Opened
<1>5. Fits(f'[i], fds')
  BY <1>1 DEF Moves1, Fits, Known
<1> QED
  BY <1>4, <1>5, FollowStep DEF Moves1

LEMMA Cursor ==
  ASSUME cur \in Operands, NEW a, NEW b, NextOperand(a, b)
  PROVE  cur' \in Operands /\ pc' \in {a, b}
BY Counts DEF NextOperand, Go

\* Steps that leave the operands and their descriptors alone.
Elsewhere ==
  /\ UNCHANGED <<opt, f, fds>> /\ (mixedUp => mixedUp')
  /\ cur' \in Operands /\ table' \subseteq Operands /\ ret' \in {"events", "again", "poll"}
  /\ (Following /\ Following') \/ UNCHANGED <<pc, cur>>

LEMMA ElsewhereStep ==
  ASSUME Descriptors, Elsewhere
  PROVE  Descriptors'
BY DEF Descriptors, Elsewhere, Table, Specs, Known, Following, ByName

LEMMA OthersDescriptors ==
  ASSUME Descriptors,
         \/ \E ino \in Inodes : Write(ino) \/ Truncate(ino)
         \/ \E ino \in Watchable : Release(ino)
         \/ \E n \in Names : Create(n) \/ Unlink(n)
         \/ \E m, n \in Names : Rename(m, n)
         \/ WriterDies
         \/ UNCHANGED vars
  PROVE  Descriptors'
<1>1. UNCHANGED <<opt, f, fds, mixedUp, cur, pc, table, ret>>
  BY DEF Write, Truncate, Create, Unlink, Rename, Others, Release, WriterDies, kernelVars, vars
<1> QED
  BY <1>1, ElsewhereStep DEF Elsewhere, Descriptors

LEMMA ElsewhereSteps ==
  ASSUME Descriptors,
         Choose \/ PollPass \/ Watched \/ CheckWriter \/ Wait \/ FileEvent
  PROVE  Descriptors'
<1> SUFFICES Elsewhere
  BY ElsewhereStep
<1>1. /\ cur \in Operands /\ 1 \in Operands /\ table \subseteq Operands
      /\ ret \in {"events", "again", "poll"}
  BY Counts DEF Descriptors
<1> USE DEF Elsewhere, Go, kernelVars, Following
<1>2. CASE Choose
  BY <1>1, <1>2 DEF Choose
<1>3. CASE PollPass
  BY <1>1, <1>3 DEF PollPass
<1>4. CASE Watched
  BY <1>1, <1>4 DEF Watched, RevertToPolling
<1>5. CASE CheckWriter
  BY <1>1, <1>5 DEF CheckWriter
<1>6. CASE Wait
  BY <1>1, <1>6 DEF Wait
<1>7. CASE FileEvent
  BY <1>1, <1>7 DEF FileEvent, Lookup
<1> QED
  BY <1>2, <1>3, <1>4, <1>5, <1>6, <1>7

\* The operands are opened, one after the other.
LEMMA TailFileDescriptors ==
  ASSUME Descriptors, TailFile
  PROVE  Descriptors'
<1>0. cur' \in Operands /\ UNCHANGED <<opt, mixedUp, table, ret>>
  BY Cursor DEF TailFile, Descriptors, Go
<1> SUFFICES ASSUME ~mixedUp \/ ~ByName
             PROVE  Table' /\ Specs'
  BY <1>0 DEF Descriptors, ByName
<1>1. /\ pc = "open" /\ cur \in Operands /\ Table /\ Specs
      /\ Operands = 1..N /\ N \in Nat /\ \A i \in Operands : i \in Int
  BY Counts DEF TailFile, Descriptors
<1>2. /\ \A i \in Operands : i < cur => Known(i)
      /\ \A i \in Operands : ~(i < cur) => f[i].fd = 0
  BY <1>1 DEF Specs, Following
<1> DEFINE fd == LowestFree(fds)
           e == IF Target(cur) = "directory" THEN "-1" ELSE Errno(cur)
<1>3. /\ fd \in 1..(N + 1) /\ fd # 0 /\ fds[fd] = Closed
      /\ \A i \in Operands : f[i].fd # fd
  BY <1>1, FreeDescriptor
<1>4. /\ DOMAIN f = Operands /\ DOMAIN fds = 1..(N + 1) /\ Fields \subseteq DOMAIN f[cur]
      /\ \A i \in Operands : f[i].fd \in 0..(N + 1)
      /\ \A d \in DOMAIN fds : (\A j \in Operands : f[j].fd # d) => fds[d] = Closed
  BY <1>1 DEF Table
<1>5. CASE e = "0"
  <2>1. /\ fds' = [fds EXCEPT ![fd] = [ino |-> Target(cur), pos |-> Len(content[Target(cur)])]]
        /\ f' = [f EXCEPT ![cur].fd = fd]
        /\ pc' = "record" /\ cur' = cur
    BY <1>5 DEF TailFile, Go
  <2>2. Target(cur) # "none"
    BY <1>5 DEF Errno
  <2>3. /\ Only(cur) /\ f'[cur].fd = fd /\ Fields \subseteq DOMAIN f'[cur]
        /\ DOMAIN fds' = DOMAIN fds /\ Opened(fds'[fd])
        /\ \A d \in DOMAIN fds : d # fd => fds'[d] = fds[d]
    BY <1>1, <1>3, <1>4, <2>1, <2>2 DEF Only, Fields, Opened
  <2>4. Takes(cur, f'[cur], fds')
    BY <1>1, <1>2, <1>3, <1>4, <2>3 DEF Takes
  <2>5. Table' /\ \A j \in Operands \ {cur} : f[j].fd # 0 => fds'[f[j].fd] = fds[f[j].fd]
    BY <1>1, <2>3, <2>4, OneOperand
  <2>6. \A i \in Operands : i < cur => Known(i)'
    BY <1>1, <1>2, <2>3, <2>5 DEF Only, Known
  <2>7. \A i \in Operands : i # cur /\ ~(i < cur) => f'[i].fd = 0
    BY <1>2, <2>3 DEF Only
  <2> QED
    BY <1>1, <1>3, <2>1, <2>3, <2>5, <2>6, <2>7 DEF Specs, Following
<1>6. CASE e # "0"
  <2>1. /\ f' = [f EXCEPT ![cur].errnum = e, ![cur].ignore = ~opt.retry]
        /\ fds' = fds /\ NextOperand("open", "choose")
    BY <1>6 DEF TailFile
  <2>2. /\ Only(cur) /\ f'[cur].fd = f[cur].fd /\ Fields \subseteq DOMAIN f'[cur]
        /\ f'[cur].errnum = e
    <3> HIDE DEF e
    <3> QED
      BY <1>1, <1>4, <2>1 DEF Only, Fields
  <2>3. f[cur].fd = 0
    BY <1>1, <1>2
  <2>4. Takes(cur, f'[cur], fds')
    BY <1>1, <1>4, <2>1, <2>2, <2>3 DEF Takes
  <2>5. Table'
    BY <1>1, <2>2, <2>4, OneOperand
  <2>6. \A i \in Operands : i < cur \/ i = cur => Known(i)'
    BY <1>1, <1>2, <1>6, <2>1, <2>2, <2>3 DEF Only, Known
  <2>7. \A i \in Operands : i # cur /\ ~(i < cur) => f'[i].fd = 0
    BY <1>2, <2>2 DEF Only
  <2>8. \/ cur < N /\ pc' = "open" /\ cur' = cur + 1
        \/ cur = N /\ pc' = "choose" /\ cur' = 1
    BY <1>1, <2>1 DEF NextOperand, Go
  <2>9. CASE cur < N /\ pc' = "open" /\ cur' = cur + 1
    <3>1. \A i \in Operands : (i < cur + 1 <=> i < cur \/ i = cur)
      BY <1>1
    <3>2. \A i \in Operands : i = cur + 1 => i # cur /\ ~(i < cur)
      BY <1>1
    <3>3. cur + 1 \in Operands
      BY <1>1, <2>9
    <3> QED
      BY <2>5, <2>6, <2>7, <2>9, <3>1, <3>2, <3>3 DEF Specs, Following
  <2>10. CASE cur = N /\ pc' = "choose" /\ cur' = 1
    <3>1. (\A i \in Operands : i < cur \/ i = cur) /\ 1 \in Operands
      BY <1>1, <2>10
    <3> QED
      BY <2>5, <2>6, <2>10, <3>1 DEF Specs, Following
  <2> QED
    BY <2>8, <2>9, <2>10
<1> QED
  BY <1>5, <1>6

LEMMA RecordDescriptors ==
  ASSUME Descriptors, Record
  PROVE  Descriptors'
<1>0. cur' \in Operands /\ UNCHANGED <<opt, mixedUp, table, ret>>
  BY Cursor DEF Record, Descriptors, Go
<1> SUFFICES ASSUME ~mixedUp \/ ~ByName
             PROVE  Table' /\ Specs'
  BY <1>0 DEF Descriptors, ByName
<1>1. /\ pc = "record" /\ cur \in Operands /\ Table /\ Specs
      /\ Operands = 1..N /\ N \in Nat /\ \A i \in Operands : i \in Int
  BY Counts DEF Record, Descriptors
<1>2. /\ \A i \in Operands : i < cur => Known(i)
      /\ f[cur].fd # 0
      /\ \A i \in Operands : i # cur /\ ~(i < cur) => f[i].fd = 0
  BY <1>1 DEF Specs, Following
<1> DEFINE fd == f[cur].fd
<1>3. /\ DOMAIN f = Operands /\ Fields \subseteq DOMAIN f[cur]
      /\ fds' = fds /\ NextOperand("open", "choose")
      /\ f' = [f EXCEPT ![cur] = RecordOpenFd(cur, fd, fds[fd].ino, fds[fd].pos)]
  BY <1>1 DEF Record, ReadPos, kernelVars, Table
<1>4. /\ Only(cur) /\ f'[cur].fd = fd /\ Fields \subseteq DOMAIN f'[cur] /\ f'[cur].errnum = "0"
      /\ f'[cur].ino = fds[fd].ino /\ f'[cur].size = fds[fd].pos
  BY <1>1, <1>3 DEF Only, Fields, RecordOpenFd
<1>5. Takes(cur, f'[cur], fds')
  BY <1>1, <1>2, <1>3, <1>4 DEF Takes, Table
<1>6. Table'
  BY <1>1, <1>4, <1>5, OneOperand
<1>7. \A i \in Operands : i < cur \/ i = cur => Known(i)'
  BY <1>1, <1>2, <1>3, <1>4 DEF Only, Known
<1>8. \A i \in Operands : i # cur /\ ~(i < cur) => f'[i].fd = 0
  BY <1>2, <1>4 DEF Only
<1>9. \/ cur < N /\ pc' = "open" /\ cur' = cur + 1
      \/ cur = N /\ pc' = "choose" /\ cur' = 1
  BY <1>1, <1>3 DEF NextOperand, Go
<1>10. CASE cur < N /\ pc' = "open" /\ cur' = cur + 1
  <2>1. \A i \in Operands : (i < cur + 1 <=> i < cur \/ i = cur)
    BY <1>1
  <2>2. \A i \in Operands : i = cur + 1 => i # cur /\ ~(i < cur)
    BY <1>1
  <2>3. cur + 1 \in Operands
    BY <1>1, <1>10
  <2> QED
    BY <1>6, <1>7, <1>8, <1>10, <2>1, <2>2, <2>3 DEF Specs, Following
<1>11. CASE cur = N /\ pc' = "choose" /\ cur' = 1
  <2>1. (\A i \in Operands : i < cur \/ i = cur) /\ 1 \in Operands
    BY <1>1, <1>11
  <2> QED
    BY <1>6, <1>7, <1>11, <2>1 DEF Specs, Following
<1> QED
  BY <1>9, <1>10, <1>11

\* Steps that read, or change what is recorded besides the descriptor and the inode.
LEMMA DumpReads ==
  ASSUME Table, Specs, cur \in Operands, Dump
  PROVE  Moves1(cur)
<1> DEFINE fd == f[cur].fd  n == Len(Unread(fd))
<1>1. /\ fds' = [fds EXCEPT ![fd].pos = @ + n]
      /\ f' = [f EXCEPT ![cur].size = @ + n]
  BY DEF Dump
<1>2. /\ DOMAIN f = Operands /\ Fields \subseteq DOMAIN f[cur]
      /\ fd # 0 => fd \in DOMAIN fds /\ {"ino", "pos"} \subseteq DOMAIN fds[fd]
      /\ fd # 0 => fds[fd].pos = f[cur].size
  BY Counts DEF Table, Opened, Specs, Known, Dump, Following
<1> HIDE DEF fd, n
<1>3. /\ Only(cur) /\ Fields \subseteq DOMAIN f'[cur] /\ f'[cur].fd = f[cur].fd
      /\ f'[cur].errnum = f[cur].errnum /\ f'[cur].ino = f[cur].ino
      /\ f'[cur].size = f[cur].size + n
  BY <1>1, <1>2 DEF Only, Fields
<1>4. /\ DOMAIN fds' = DOMAIN fds /\ \A d \in DOMAIN fds : d # fd => fds'[d] = fds[d]
      /\ fd # 0 => /\ {"ino", "pos"} \subseteq DOMAIN fds'[fd]
                   /\ fds'[fd].ino = fds[fd].ino
                   /\ fds'[fd].pos = fds[fd].pos + n
  BY <1>1, <1>2
<1> QED
  BY <1>2, <1>3, <1>4 DEF Moves1, fd

\* What a look at operand i, which has a descriptor, does to the recorded size.
Stats(i) ==
  /\ Only(i) /\ Fields \subseteq DOMAIN f'[i] /\ f'[i].fd = f[i].fd
  /\ f'[i].errnum = f[i].errnum /\ f'[i].ino = f[i].ino
  /\ \/ f'[i].size = f[i].size /\ fds' = fds
     \/ Truncated(i) /\ f'[i].size = 0 /\ fds' = [fds EXCEPT ![f[i].fd].pos = 0]

LEMMA StatsReads ==
  ASSUME Table, Specs, Following, NEW i \in Operands, Stats(i)
  PROVE  Moves1(i)
<1> DEFINE fd == f[i].fd
<1>1. /\ fd # 0 => fd \in DOMAIN fds /\ {"ino", "pos"} \subseteq DOMAIN fds[fd]
      /\ fd # 0 => fds[fd].pos = f[i].size
  BY Counts DEF Table, Opened, Specs, Known
<1>2. CASE f'[i].size = f[i].size /\ fds' = fds
  BY <1>1, <1>2 DEF Stats, Moves1
<1>3. CASE f'[i].size = 0 /\ fds' = [fds EXCEPT ![fd].pos = 0]
  <2> HIDE DEF fd
  <2>1. /\ DOMAIN fds' = DOMAIN fds /\ \A d \in DOMAIN fds : d # fd => fds'[d] = fds[d]
        /\ fd # 0 => /\ {"ino", "pos"} \subseteq DOMAIN fds'[fd]
                     /\ fds'[fd].ino = fds[fd].ino
                     /\ fds'[fd].pos = 0
    BY <1>1, <1>3
  <2> QED
    BY <1>3, <2>1 DEF Stats, Moves1, fd
<1> QED
  BY <1>2, <1>3 DEF Stats

\* A step that rechecks operand i.
Looks(i) ==
  /\ Only(i) /\ Fields \subseteq DOMAIN f'[i]
  /\ f'[i].fd = Recheck(i).spec.fd /\ f'[i].errnum = Recheck(i).spec.errnum
  /\ f'[i].ino = Recheck(i).spec.ino /\ f'[i].size = Recheck(i).spec.size
  /\ fds' = Recheck(i).fds

LEMMA LookStep ==
  ASSUME Table, Specs, Following, Following', NEW i \in Operands, Looks(i)
  PROVE  Table' /\ Specs'
<1>1. Known(i)
  BY DEF Specs
<1>2. /\ Takes(i, Recheck(i).spec, Recheck(i).fds)
      /\ Fits(Recheck(i).spec, Recheck(i).fds)
  BY <1>1, RecheckTakes
<1>3. Takes(i, f'[i], fds') /\ Fits(f'[i], fds') /\ Only(i)
  BY <1>2 DEF Looks, Takes, Fits
<1> QED
  BY <1>3, FollowStep

LEMMA RecheckedLooks ==
  ASSUME Table, Specs, Following, NEW i \in Operands, Rechecked(i)
  PROVE  Looks(i)
<1>1. Known(i)
  BY DEF Specs
<1>2. DOMAIN f = Operands /\ Fields \subseteq DOMAIN Recheck(i).spec
  BY <1>1, RecheckTakes DEF Table, Takes
<1>3. f' = [f EXCEPT ![i] = Recheck(i).spec] /\ fds' = Recheck(i).fds
  BY DEF Rechecked
<1> QED
  BY <1>2, <1>3 DEF Looks, Only

LEMMA CheckFspecStats ==
  ASSUME Table, Specs, cur \in Operands, CheckFspec
  PROVE  (f' = f /\ fds' = fds) \/ (Stats(cur) /\ f[cur].fd # 0)
<1>1. Following /\ (f[cur].fd # 0 => IsOpen(fds, f[cur].fd))
  BY Counts DEF CheckFspec, Following, Table, IsOpen, Opened, Closed
<1>2. CASE f[cur].fd = 0
  BY <1>2 DEF CheckFspec
<1>3. CASE f[cur].fd # 0
  <2>1. /\ f' = [f EXCEPT ![cur].size = IF Truncated(cur) THEN 0 ELSE @]
        /\ fds' = Rewound(cur)
    BY <1>1, <1>3 DEF CheckFspec
  <2>2. DOMAIN f = Operands /\ Fields \subseteq DOMAIN f[cur]
    BY DEF Table
  <2>3. /\ Only(cur) /\ Fields \subseteq DOMAIN f'[cur] /\ f'[cur].fd = f[cur].fd
        /\ f'[cur].errnum = f[cur].errnum /\ f'[cur].ino = f[cur].ino
        /\ f'[cur].size = IF Truncated(cur) THEN 0 ELSE f[cur].size
    BY <2>1, <2>2 DEF Only, Fields
  <2> QED
    BY <1>3, <2>1, <2>3 DEF Stats, Rewound
<1> QED
  BY <1>2, <1>3

\* A turn of the polling loop leaves the operand alone, looks at its descriptor or, when
\* there is none or names are followed, at its name.
LEMMA PollFileDoes ==
  ASSUME Table, Specs, cur \in Operands, PollFile
  PROVE  \/ f' = f /\ fds' = fds
         \/ Stats(cur) /\ f[cur].fd # 0
         \/ Looks(cur) /\ (f[cur].fd = 0 \/ ByName)
<1>1. Following /\ (f[cur].fd # 0 => IsOpen(fds, f[cur].fd))
  BY Counts DEF PollFile, Following, Table, IsOpen, Opened, Closed
<1>2. DOMAIN f = Operands /\ Fields \subseteq DOMAIN f[cur]
  BY DEF Table
<1>3. CASE f[cur].ignore
  BY <1>3 DEF PollFile
<1>4. CASE ~f[cur].ignore /\ f[cur].fd = 0
  BY <1>1, <1>4, RecheckedLooks DEF PollFile
<1>5. CASE ~f[cur].ignore /\ f[cur].fd # 0
  <2>1. CASE ~Same(cur)
    <3>1. /\ f' = [f EXCEPT ![cur].mtime = mod[fds[f[cur].fd].ino],
                            ![cur].unchanged = 0,
                            ![cur].size = IF Truncated(cur) THEN 0 ELSE @]
          /\ fds' = Rewound(cur)
      BY <1>1, <1>5, <2>1 DEF PollFile
    <3>2. /\ Only(cur) /\ Fields \subseteq DOMAIN f'[cur] /\ f'[cur].fd = f[cur].fd
          /\ f'[cur].errnum = f[cur].errnum /\ f'[cur].ino = f[cur].ino
          /\ f'[cur].size = IF Truncated(cur) THEN 0 ELSE f[cur].size
      BY <1>2, <3>1 DEF Only, Fields
    <3> QED
      BY <1>5, <3>1, <3>2 DEF Stats, Rewound
  <2>2. CASE Same(cur) /\ f[cur].unchanged >= MaxUnchanged /\ ByName
    <3>1. /\ f' = [f EXCEPT ![cur] = [Recheck(cur).spec EXCEPT !.unchanged = 0]]
          /\ fds' = Recheck(cur).fds
      BY <1>1, <1>5, <2>2 DEF PollFile
    <3>2. Fields \subseteq DOMAIN Recheck(cur).spec
      BY <1>1, RecheckTakes DEF Takes, Specs
    <3> QED
      BY <1>2, <2>2, <3>1, <3>2 DEF Looks, Only, Fields
  <2>3. CASE Same(cur) /\ ~(f[cur].unchanged >= MaxUnchanged /\ ByName)
    <3>1. f' = [f EXCEPT ![cur].unchanged = Unchanged(cur)] /\ fds' = fds
      BY <1>1, <1>5, <2>3 DEF PollFile
    <3> QED
      BY <1>2, <1>5, <3>1 DEF Stats, Only, Fields
  <2> QED
    BY <2>1, <2>2, <2>3
<1> QED
  BY <1>3, <1>4, <1>5

LEMMA ReadingSteps ==
  ASSUME Descriptors, Dump \/ CheckFspec \/ PollFile
  PROVE  Descriptors'
<1>1. /\ UNCHANGED <<opt, mixedUp, table>> /\ Following /\ Following' /\ cur' \in Operands
      /\ ret' \in {"events", "again", "poll"}
  <2>1. cur \in Operands /\ 1 \in Operands /\ ret \in {"events", "again", "poll"}
    BY Counts DEF Descriptors
  <2>2. CASE Dump
    <3>1. pc' \in {"events", "again", "poll", "pass"} /\ cur' \in Operands
      <4>1. CASE ret = "events"
        BY <2>1, <2>2, <4>1 DEF Dump, Go
      <4>2. CASE ret = "again"
        BY <2>1, <2>2, <4>2, Cursor DEF Dump
      <4>3. CASE ret = "poll"
        BY <2>1, <2>2, <4>3, Cursor DEF Dump
      <4> QED
        BY <2>1, <4>1, <4>2, <4>3
    <3> QED
      BY <2>1, <2>2, <3>1 DEF Dump, Following
  <2>3. CASE CheckFspec
    <3>1. pc' \in {"events", "again", "dump"} /\ cur' \in Operands
      BY <2>1, <2>3, Cursor DEF CheckFspec, Go
    <3> QED
      BY <2>1, <2>3, <3>1 DEF CheckFspec, Following
  <2>4. CASE PollFile
    <3>1. pc' \in {"poll", "pass", "dump"} /\ cur' \in Operands
      BY <2>1, <2>4, Cursor DEF PollFile, Go
    <3> QED
      BY <2>1, <2>4, <3>1 DEF PollFile, Following
  <2> QED
    BY <2>2, <2>3, <2>4
<1> SUFFICES ASSUME ~mixedUp \/ ~ByName
             PROVE  Table' /\ Specs'
  BY <1>1 DEF Descriptors, ByName
<1>2. Table /\ Specs /\ cur \in Operands
  BY DEF Descriptors
<1>3. CASE f' = f /\ fds' = fds
  BY <1>1, <1>2, <1>3 DEF Table, Specs, Known
<1>4. CASE Dump
  BY <1>1, <1>2, <1>4, DumpReads, ReadStep
<1>5. CASE Stats(cur)
  BY <1>1, <1>2, <1>5, StatsReads, ReadStep
<1>6. CASE Looks(cur)
  BY <1>1, <1>2, <1>6, LookStep
<1> QED
  BY <1>2, <1>3, <1>4, <1>5, <1>6, CheckFspecStats, PollFileDoes

\* recheck at the places of the loop over the events, and where a watch has moved.
LEMMA RecheckSteps ==
  ASSUME Descriptors, Again \/ RecheckNamed \/ RecheckLast
  PROVE  Descriptors'
<1>1. /\ cur \in Operands /\ 1 \in Operands /\ table \subseteq Operands
      /\ ret \in {"events", "again", "poll"}
  BY Counts DEF Descriptors
<1>2. /\ UNCHANGED opt /\ (mixedUp => mixedUp') /\ Following /\ Following' /\ cur' \in Operands
      /\ table' \subseteq Operands /\ ret' \in {"events", "again", "poll"}
      /\ (f' = f /\ fds' = fds) \/ Rechecked(cur)
  <2>1. CASE Again
    <3>1. pc' \in {"events", "again", "stat", "poll"} /\ cur' \in Operands
      BY <1>1, <2>1, Cursor DEF Again, Go, RevertToPolling
    <3> QED
      BY <1>1, <2>1, <3>1 DEF Again, Following, RevertToPolling
  <2>2. CASE RecheckNamed
    <3>1. pc' \in {"recheck2", "stat"} /\ cur' \in Operands
      BY <1>1, <2>2 DEF RecheckNamed, Go
    <3> QED
      BY <1>1, <2>2, <3>1 DEF RecheckNamed, Following
  <2>3. CASE RecheckLast
    BY <1>1, <2>3 DEF RecheckLast, Following, Go
  <2> QED
    BY <2>1, <2>2, <2>3
<1> SUFFICES ASSUME ~mixedUp \/ ~ByName
             PROVE  Table' /\ Specs'
  BY <1>2 DEF Descriptors, ByName
<1>3. Table /\ Specs
  BY DEF Descriptors
<1>4. CASE f' = f /\ fds' = fds
  BY <1>2, <1>3, <1>4 DEF Table, Specs, Known
<1>5. CASE Rechecked(cur)
  BY <1>1, <1>2, <1>3, <1>5, RecheckedLooks, LookStep
<1> QED
  BY <1>2, <1>4, <1>5

LEMMA WatchSteps ==
  ASSUME Descriptors, WatchOperand \/ NameEvent
  PROVE  Descriptors'
<1>1. /\ cur \in Operands /\ 1 \in Operands /\ table \subseteq Operands
      /\ ret \in {"events", "again", "poll"}
  BY Counts DEF Descriptors
<1>2. /\ UNCHANGED <<opt, fds>> /\ (mixedUp => mixedUp') /\ Following /\ Following'
      /\ cur' \in Operands /\ table' \subseteq Operands /\ ret' \in {"events", "again", "poll"}
      /\ f' = f \/ (\E i \in Operands : \E wd, parent :
                      f' = [f EXCEPT ![i].wd = wd] \/ f' = [f EXCEPT ![i].wd = wd, ![i].parent = parent])
  <2>1. CASE WatchOperand
    <3>1. pc' \in {"watch", "watched", "poll"} /\ cur' \in Operands
      BY <1>1, <2>1, Cursor DEF WatchOperand, Go, RevertToPolling
    <3>2. table' \subseteq Operands
      BY <1>1, <2>1 DEF WatchOperand, RevertToPolling
    <3>3. f' = f \/ (\E wd, parent : f' = [f EXCEPT ![cur].wd = wd, ![cur].parent = parent])
      BY <2>1 DEF WatchOperand
    <3>4. UNCHANGED <<opt, fds, ret>> /\ (mixedUp => mixedUp') /\ Following
      BY <2>1 DEF WatchOperand, Following
    <3> QED
      BY <1>1, <3>1, <3>2, <3>3, <3>4 DEF Following
  <2>2. CASE NameEvent
    <3>1. \A i \in Operand(ev.name) : i \in Operands
      BY DEF Operand
    <3>2. /\ pc' \in {"events", "poll", "recheck", "moved"} /\ cur' \in Operands
          /\ table' \subseteq Operands
      <4>1. CASE Operand(ev.name) = {}
        BY <1>1, <2>2, <4>1 DEF NameEvent, Go
      <4>2. CASE Operand(ev.name) # {}
        <5>1. PICK i \in Operand(ev.name) :
                \/ RevertToPolling
                \/ table' = table /\ Go("recheck", i)
                \/ table' = table \ {i} /\ Go("events", 1)
                \/ table' = (table \ {i}) \cup {i} /\ (Go("moved", i) \/ Go("recheck", i))
          BY <2>2, <4>2 DEF NameEvent
        <5> QED
          BY <1>1, <3>1, <5>1 DEF Go, RevertToPolling
      <4> QED
        BY <4>1, <4>2
    <3>3. f' = f \/ (\E i \in Operands : \E wd : f' = [f EXCEPT ![i].wd = wd])
      BY <2>2, <3>1 DEF NameEvent
    <3>4. UNCHANGED <<opt, fds, ret, mixedUp>> /\ Following
      BY <2>2 DEF NameEvent, Following
    <3> QED
      BY <1>1, <3>2, <3>3, <3>4 DEF Following
  <2> QED
    BY <2>1, <2>2
<1> SUFFICES ASSUME ~mixedUp \/ ~ByName
             PROVE  Table' /\ Specs'
  BY <1>2 DEF Descriptors, ByName
<1>3. Table /\ Specs
  BY DEF Descriptors
<1>4. CASE f' = f
  BY <1>2, <1>3, <1>4 DEF Table, Specs, Known
<1>5. ASSUME NEW i \in Operands, NEW wd, NEW parent,
             \/ f' = [f EXCEPT ![i].wd = wd]
             \/ f' = [f EXCEPT ![i].wd = wd, ![i].parent = parent]
      PROVE  Table' /\ Specs'
  <2>1. DOMAIN f = Operands /\ Fields \subseteq DOMAIN f[i]
    BY <1>3 DEF Table
  <2>2. Stats(i)
    BY <1>2, <1>5, <2>1 DEF Stats, Only, Fields
  <2> QED
    BY <1>2, <1>3, <2>2, StatsReads, ReadStep
<1> QED
  BY <1>2, <1>4, <1>5

LEMMA MovedDescriptors ==
  ASSUME Descriptors, Reading, Moved
  PROVE  Descriptors'
<1>1. PICK prev \in Lookup(table \ {cur}, f[cur].wd) :
        /\ f' = [f EXCEPT ![prev] = [Recheck(prev).spec EXCEPT !.wd = 0]]
        /\ fds' = CloseFd(Recheck(prev).fds, Recheck(prev).spec.fd)
        /\ table' = table \ {prev}
        /\ mixedUp' = (mixedUp \/ Recheck(prev).spec.fd # 0)
  BY DEF Moved
<1>2. /\ prev \in Operands /\ cur' \in Operands /\ table' \subseteq Operands
      /\ ret' \in {"events", "again", "poll"}
      /\ UNCHANGED opt /\ Following /\ Following' /\ ByName
  BY <1>1 DEF Descriptors, Lookup, Moved, Go, Following, Reading, Unnamed
<1> SUFFICES ASSUME ~mixedUp'
             PROVE  Table' /\ Specs'
  BY <1>2 DEF Descriptors, ByName
<1>3. Table /\ Specs /\ Recheck(prev).spec.fd = 0
  BY <1>1 DEF Descriptors
<1>4. /\ Fields \subseteq DOMAIN Recheck(prev).spec /\ DOMAIN f = Operands
      /\ Takes(prev, Recheck(prev).spec, Recheck(prev).fds)
      /\ Fits(Recheck(prev).spec, Recheck(prev).fds)
  BY <1>2, <1>3, RecheckTakes DEF Takes, Table, Specs
<1> DEFINE s == Recheck(prev).spec
           t == Recheck(prev).fds
<1>5. /\ Only(prev) /\ Fields \subseteq DOMAIN f'[prev] /\ f'[prev].fd = s.fd
      /\ f'[prev].errnum = s.errnum /\ f'[prev].ino = s.ino /\ f'[prev].size = s.size
  <2> HIDE DEF s
  <2>1. f' = [f EXCEPT ![prev] = [s EXCEPT !.wd = 0]] /\ Fields \subseteq DOMAIN s
    BY <1>1, <1>4 DEF s
  <2> QED
    BY <1>2, <1>4, <2>1 DEF Only, Fields
<1>6. DOMAIN fds' = DOMAIN fds /\ \A d \in DOMAIN fds : fds'[d] = t[d]
  <2> HIDE DEF t, s
  <2>1. fds' = [d \in DOMAIN t |-> IF d = 0 THEN Closed ELSE t[d]]
    BY <1>1, <1>3 DEF CloseFd, t, s
  <2>2. DOMAIN t = DOMAIN fds /\ \A d \in DOMAIN fds : d # 0
    BY <1>3, <1>4, Counts DEF Takes, Table, t
  <2> QED
    BY <2>1, <2>2
<1>7. Takes(prev, f'[prev], fds') /\ Fits(f'[prev], fds')
  <2>1. \A j \in Operands \ {prev} : f[j].fd # 0 => f[j].fd \in DOMAIN fds
    BY <1>3, Counts DEF Table
  <2> HIDE DEF t, s
  <2>2. Takes(prev, s, t) /\ Fits(s, t) /\ s.fd = 0
    BY <1>3, <1>4 DEF s, t
  <2> QED
    BY <1>5, <1>6, <2>1, <2>2 DEF Takes, Fits
<1> QED
  BY <1>2, <1>3, <1>5, <1>7, FollowStep

-----------------------------------------------------------------------------
(* The events of followed descriptors.                                     *)

LEMMA Kind ==
  ASSUME Contents, NEW i \in Operands
  PROVE  /\ Errno(i) = "0" => Target(i) \in Watchable
         /\ Errno(i) = "0" /\ Target(i) # "directory" => Target(i) \in Inodes
         /\ "dir" \notin Watchable
<1>1. Files[i] \in Names
  BY TailAssumption, Counts DEF N
<1>2. Target(i) \in Inodes \cup {"symlink", "directory", "unreadable", "none"}
  BY <1>1, TailAssumption DEF Contents, Target, Kinds
<1>3. "dir" \notin Watchable
  BY TailAssumption DEF Watchable
<1> QED
  BY <1>2, <1>3 DEF Errno, Watchable

LEMMA QueuedEvents ==
  ASSUME Unnamed, ~ByName, NEW q \in Seq(Modified), NEW ino, NEW mask, NEW n
  PROVE  /\ InodeEvent(q, ino, mask) \in Seq(Modified)
         /\ DirEvent(q, mask, n) = q
<1>1. ASSUME NEW e \in Modified PROVE Queued(q, e) \in Seq(Modified)
  BY DEF Queued
<1>2. CASE ino \in Watchable /\ watch[ino] # 0 /\ mask = "MODIFY"
  <2>1. [wd |-> watch[ino], mask |-> mask, name |-> "none"] \in Modified
    BY <1>2 DEF Unnamed, Modified
  <2> QED
    BY <1>1, <1>2, <2>1 DEF InodeEvent, DirEvent, Unnamed
<1> QED
  BY <1>2 DEF InodeEvent, DirEvent, Unnamed

\* Others.
LEMMA OthersUnnamed ==
  ASSUME Unnamed, ~ByName,
         \/ \E ino \in Inodes : Write(ino) \/ Truncate(ino)
         \/ \E ino \in Watchable : Release(ino)
         \/ \E n \in Names : Create(n) \/ Unlink(n)
         \/ \E m, n \in Names : Rename(m, n)
         \/ WriterDies
         \/ UNCHANGED vars
  PROVE  Unnamed'
<1>1. queue \in Seq(Modified) /\ watch \in [Watchable \cup {"dir"} -> Nat]
  BY DEF Unnamed
<1>2. UNCHANGED <<nextWd, pc, ev>>
  BY DEF Write, Truncate, Create, Unlink, Rename, Others, Release, WriterDies, kernelVars, vars
<1>3. queue' \in Seq(Modified)
  <2>1. ASSUME NEW ino \in Inodes, Write(ino) \/ Truncate(ino) PROVE queue' \in Seq(Modified)
    BY <1>1, <2>1, QueuedEvents DEF Write, Truncate
  <2>2. ASSUME NEW ino \in Watchable, Release(ino) PROVE queue' \in Seq(Modified)
    BY <1>1, <2>2, QueuedEvents DEF Release
  <2>3. ASSUME NEW n \in Names, Create(n) \/ Unlink(n) PROVE queue' \in Seq(Modified)
    <3>1. DirEvent(queue, "CREATE", n) = queue
      BY <1>1, QueuedEvents
    <3>2. InodeEvent(queue, dir[n], "ATTRIB") \in Seq(Modified)
      BY <1>1, QueuedEvents
    <3>3. DirEvent(InodeEvent(queue, dir[n], "ATTRIB"), "DELETE", n)
            = InodeEvent(queue, dir[n], "ATTRIB")
      BY <3>2, QueuedEvents
    <3> QED
      BY <1>1, <2>3, <3>1, <3>2, <3>3 DEF Create, Unlink
  <2>4. ASSUME NEW m \in Names, NEW n \in Names, Rename(m, n) PROVE queue' \in Seq(Modified)
    <3>1. DirEvent(queue, "MOVED_TO", n) = queue
      BY <1>1, QueuedEvents
    <3>2. InodeEvent(queue, dir[n], "ATTRIB") \in Seq(Modified)
      BY <1>1, QueuedEvents
    <3>3. InodeEvent(InodeEvent(queue, dir[n], "ATTRIB"), dir[m], "MOVE_SELF") \in Seq(Modified)
      BY <3>2, QueuedEvents
    <3> QED
      BY <2>4, <3>1, <3>3 DEF Rename
  <2>5. CASE WriterDies \/ UNCHANGED vars
    BY <1>1, <2>5 DEF WriterDies, kernelVars, vars
  <2> QED
    BY <2>1, <2>2, <2>3, <2>4, <2>5
<1>4. watch' \in [Watchable \cup {"dir"} -> Nat] /\ watch'["dir"] = 0
  <2>1. ASSUME NEW ino \in Watchable, Release(ino)
        PROVE  watch' \in [Watchable \cup {"dir"} -> Nat] /\ watch'["dir"] = 0
    BY <1>1, <2>1 DEF Release, Unnamed
  <2>2. UNCHANGED watch \/ \E ino \in Watchable : Release(ino)
    BY DEF Write, Truncate, Create, Unlink, Rename, Others, WriterDies, kernelVars, vars
  <2> QED
    BY <2>1, <2>2 DEF Unnamed
<1> QED
  BY <1>2, <1>3, <1>4 DEF Unnamed

LEMMA WatchUnnamed ==
  ASSUME Descriptors, Contents, Unnamed, ~ByName, WatchOperand
  PROVE  Unnamed'
<1>1. /\ cur \in Operands /\ nextWd \in Nat /\ watch["dir"] = 0
      /\ watch \in [Watchable \cup {"dir"} -> Nat] /\ queue \in Seq(Modified)
  BY DEF Descriptors, Unnamed
<1>2. pc' \in {"watch", "watched", "poll"} /\ << >> \in Seq(Modified)
  BY <1>1, Cursor DEF WatchOperand, Go, RevertToPolling
<1>3. queue' \in Seq(Modified)
  BY <1>1, <1>2 DEF WatchOperand, RevertToPolling
<1>4. /\ watch' \in [Watchable \cup {"dir"} -> Nat] /\ watch'["dir"] = 0 /\ nextWd' \in Nat
  <2>1. CASE UNCHANGED <<watch, nextWd>>
    BY <1>1, <2>1
  <2>2. CASE RevertToPolling /\ UNCHANGED nextWd
    <3>1. watch' = [o \in Watchable \cup {"dir"} |-> 0]
      BY <2>2 DEF RevertToPolling, NoWatch
    <3> QED
      BY <1>1, <2>2, <3>1
  <2>3. CASE \E wd \in {0, watch[Target(cur)], nextWd} :
               /\ watch' = IF Errno(cur) = "0" THEN [watch EXCEPT ![Target(cur)] = wd] ELSE watch
               /\ nextWd' = IF wd = nextWd THEN nextWd + 1 ELSE nextWd
               /\ Errno(cur) # "0" => wd = 0
    <3>1. PICK wd \in {0, watch[Target(cur)], nextWd} :
            /\ watch' = IF Errno(cur) = "0" THEN [watch EXCEPT ![Target(cur)] = wd] ELSE watch
            /\ nextWd' = IF wd = nextWd THEN nextWd + 1 ELSE nextWd
      BY <2>3
    <3>2. CASE Errno(cur) = "0"
      <4>1. Target(cur) \in Watchable /\ "dir" \notin Watchable
        BY <1>1, <3>2, Kind
      <4>2. wd \in Nat
        BY <1>1, <4>1
      <4> QED
        BY <1>1, <3>1, <3>2, <4>1, <4>2
    <3>3. CASE Errno(cur) # "0"
      BY <1>1, <3>1, <3>3
    <3> QED
      BY <3>2, <3>3
  <2> QED
    BY <2>1, <2>2, <2>3 DEF WatchOperand
<1> QED
  BY <1>2, <1>3, <1>4 DEF Unnamed

LEMMA TailUnnamed ==
  ASSUME Descriptors, Contents, Unnamed, ~ByName, TailStep
  PROVE  Unnamed'
<1>1. /\ cur \in Operands /\ nextWd \in Nat /\ watch["dir"] = 0
      /\ watch \in [Watchable \cup {"dir"} -> Nat] /\ queue \in Seq(Modified)
      /\ ret \in {"events", "again", "poll"}
      /\ pc = "event" => ev.name = "none" /\ ev.mask = "MODIFY"
  BY DEF Descriptors, Unnamed, Modified
<1>2. ASSUME UNCHANGED <<watch, nextWd>>, queue' = queue,
             pc' \notin {"event", "moved", "recheck", "recheck2"}
      PROVE  Unnamed'
  BY <1>1, <1>2 DEF Unnamed
<1>3. CASE TailFile \/ Record \/ Choose \/ PollPass \/ CheckWriter
  <2>1. CASE TailFile
    <3>1. pc' \in {"open", "choose", "record"} /\ UNCHANGED <<watch, nextWd, queue>>
      BY <1>1, <2>1, Cursor DEF TailFile, Go
    <3> QED
      BY <1>2, <3>1
  <2>2. CASE Record
    <3>1. pc' \in {"open", "choose"} /\ UNCHANGED <<watch, nextWd, queue>>
      BY <1>1, <2>2, Cursor DEF Record, kernelVars
    <3> QED
      BY <1>2, <3>1
  <2>3. CASE Choose
    <3>1. pc' \in {"watch", "poll"} /\ UNCHANGED <<watch, nextWd, queue>>
      BY <2>3 DEF Choose, Go, kernelVars
    <3> QED
      BY <1>2, <3>1
  <2>4. CASE PollPass
    <3>1. pc' \in {"end", "poll"} /\ UNCHANGED <<watch, nextWd, queue>>
      BY <2>4 DEF PollPass, Go, kernelVars
    <3> QED
      BY <1>2, <3>1
  <2>5. CASE CheckWriter
    <3>1. pc' \in {"end", "wait"} /\ UNCHANGED <<watch, nextWd, queue>>
      BY <2>5 DEF CheckWriter, Go, kernelVars
    <3> QED
      BY <1>2, <3>1
  <2> QED
    BY <1>3, <2>1, <2>2, <2>3, <2>4, <2>5
<1>4. CASE Dump \/ CheckFspec \/ PollFile
  <2>1. CASE Dump
    <3>1. CASE ret = "events"
      BY <1>2, <2>1, <3>1 DEF Dump, Go
    <3>2. CASE ret = "again"
      BY <1>1, <1>2, <2>1, <3>2, Cursor DEF Dump
    <3>3. CASE ret = "poll"
      BY <1>1, <1>2, <2>1, <3>3, Cursor DEF Dump
    <3> QED
      BY <1>1, <3>1, <3>2, <3>3
  <2>2. CASE CheckFspec
    <3>1. pc' \in {"events", "again", "dump"}
      BY <1>1, <2>2, Cursor DEF CheckFspec, Go
    <3> QED
      BY <1>2, <2>2, <3>1 DEF CheckFspec
  <2>3. CASE PollFile
    <3>1. pc' \in {"poll", "pass", "dump"}
      BY <1>1, <2>3, Cursor DEF PollFile, Go
    <3> QED
      BY <1>2, <2>3, <3>1 DEF PollFile
  <2> QED
    BY <1>4, <2>1, <2>2, <2>3
<1>5. ASSUME RevertToPolling, UNCHANGED nextWd
      PROVE  Unnamed'
  <2>1. /\ watch' = [o \in Watchable \cup {"dir"} |-> 0] /\ queue' = << >>
        /\ pc' = "poll" /\ << >> \in Seq(Modified)
    BY <1>5 DEF RevertToPolling, NoWatch, Go
  <2> QED
    BY <1>1, <1>5, <2>1 DEF Unnamed
<1>6. CASE Watched
  BY <1>2, <1>5, <1>6 DEF Watched, Go
<1>7. CASE Again
  <2>1. RevertToPolling \/ (UNCHANGED <<watch, queue>> /\ pc' \in {"again", "events", "stat"})
    BY <1>1, <1>7, Cursor DEF Again, Go
  <2> QED
    BY <1>2, <1>5, <1>7, <2>1 DEF Again
<1>8. CASE Wait
  <2>1. CASE queue # << >> /\ ev' = Head(queue) /\ queue' = Tail(queue)
    <3>1. Head(queue) \in Modified /\ Tail(queue) \in Seq(Modified)
      BY <1>1, <2>1
    <3> QED
      BY <1>1, <1>8, <2>1, <3>1 DEF Wait, Unnamed, Go
  <2>2. CASE pc' = "events" /\ UNCHANGED queue
    BY <1>2, <1>8, <2>2 DEF Wait
  <2> QED
    BY <1>8, <2>1, <2>2 DEF Wait, Go
<1>9. CASE FileEvent
  <2>1. pc' \in {"events", "stat"} /\ UNCHANGED kernelVars
    BY <1>1, <1>9 DEF FileEvent, Go, Renaming
  <2> QED
    BY <1>2, <2>1 DEF kernelVars
<1>10. CASE NameEvent \/ Moved \/ RecheckNamed \/ RecheckLast
  BY <1>1, <1>10 DEF NameEvent, Moved, RecheckNamed, RecheckLast, Unnamed
<1> QED
  BY <1>3, <1>4, <1>6, <1>7, <1>8, <1>9, <1>10, WatchUnnamed DEF TailStep


-----------------------------------------------------------------------------
(* The files, and what has been shown of them.                             *)

LEMMA Appended ==
  ASSUME NEW c \in Seq(Nat), NEW w \in Nat, Increasing(c), UpTo(c, w)
  PROVE  /\ Append(c, w + 1) \in Seq(Nat)
         /\ Increasing(Append(c, w + 1)) /\ UpTo(Append(c, w + 1), w + 1)
<1> DEFINE d == Append(c, w + 1)
<1>1. /\ d \in Seq(Nat) /\ DOMAIN d = 1..(Len(c) + 1) /\ DOMAIN c = 1..Len(c) /\ Len(c) \in Nat
      /\ d[Len(c) + 1] = w + 1 /\ \A k \in 1..Len(c) : d[k] = c[k]
      /\ \A k \in 1..Len(c) : c[k] \in Nat
  OBVIOUS
<1> HIDE DEF d
<1>2. \A k \in DOMAIN d : k \in DOMAIN c \/ k = Len(c) + 1
  BY <1>1
<1>3. UpTo(d, w + 1)
  BY <1>1, <1>2 DEF UpTo
<1>4. Increasing(d)
  <2> SUFFICES ASSUME NEW k \in DOMAIN d, NEW l \in DOMAIN d, k < l PROVE d[k] < d[l]
    BY DEF Increasing
  <2>1. k \in DOMAIN c
    BY <1>1
  <2>2. CASE l \in DOMAIN c
    BY <1>1, <2>1, <2>2 DEF Increasing
  <2>3. CASE l = Len(c) + 1
    BY <1>1, <2>1, <2>3 DEF UpTo
  <2> QED
    BY <1>2, <2>2, <2>3
<1> QED
  BY <1>1, <1>3, <1>4 DEF d

LEMMA NextContents ==
  ASSUME Contents, [Next]_vars
  PROVE  Contents'
<1> USE DEF Contents
<1>1. CASE UNCHANGED <<dir, content, written>>
  BY <1>1
<1>2. ASSUME NEW ino \in Inodes, Write(ino) PROVE Contents'
  <2>1. /\ written' = written + 1 /\ UNCHANGED dir
        /\ content' = [content EXCEPT ![ino] = Append(@, written + 1)]
    BY <1>2 DEF Write
  <2>2. /\ Append(content[ino], written + 1) \in Seq(Nat)
        /\ Increasing(Append(content[ino], written + 1))
        /\ UpTo(Append(content[ino], written + 1), written + 1)
    BY Appended
  <2>3. \A o \in Inodes : content'[o] \in Seq(Nat) /\ Increasing(content'[o])
    BY <2>1, <2>2
  <2>4. ASSUME NEW o \in Inodes PROVE UpTo(content'[o], written')
    <3>1. CASE o = ino
      BY <2>1, <2>2, <3>1
    <3>2. CASE o # ino
      <4>1. content'[o] = content[o] /\ \A k \in DOMAIN content[o] : content[o][k] \in Nat
        BY <2>1, <3>2
      <4> QED
        BY <2>1, <4>1 DEF UpTo
    <3> QED
      BY <3>1, <3>2
  <2> QED
    BY <2>1, <2>2, <2>3, <2>4
<1>3. << >> \in Seq(Nat) /\ Increasing(<< >>) /\ UpTo(<< >>, written)
  BY DEF Increasing, UpTo
<1>4. ASSUME NEW ino \in Inodes, Truncate(ino) PROVE Contents'
  BY <1>3, <1>4 DEF Truncate
<1>5. ASSUME NEW n \in Names, Create(n) PROVE Contents'
  <2>1. CASE \E ino \in Inodes : /\ dir' = [dir EXCEPT ![n] = ino]
                                 /\ content' = [content EXCEPT ![ino] = << >>]
    BY <1>3, <1>5, <2>1 DEF Create
  <2>2. CASE UNCHANGED content /\ \E k \in Special : dir' = [dir EXCEPT ![n] = k]
    BY <1>5, <2>2 DEF Create
  <2> QED
    BY <1>5, <2>1, <2>2 DEF Create
<1>6. ASSUME NEW n \in Names, Unlink(n) PROVE Contents'
  BY <1>6 DEF Unlink
<1>7. ASSUME NEW m \in Names, NEW n \in Names, Rename(m, n) PROVE Contents'
  <2>1. /\ UNCHANGED <<content, written>> /\ dir[m] \in Inodes \cup Special \cup {"none"}
        /\ dir' = [dir EXCEPT ![m] = "none", ![n] = dir[m]]
    BY <1>7 DEF Rename
  <2> QED
    BY <2>1
<1>8. CASE UNCHANGED vars \/ WriterDies \/ \E ino \in Watchable : Release(ino)
  BY <1>1, <1>8 DEF vars, osVars, WriterDies, Release
<1>9. CASE TailStep
  <2>1. UNCHANGED osVars
    BY <1>9 DEF TailStep, TailFile, Record, Choose, Dump, PollFile, PollPass, WatchOperand,
       Watched, Again, CheckFspec, CheckWriter, Wait, NameEvent, Moved, RecheckNamed, FileEvent,
       RecheckLast
  <2> QED
    BY <1>1, <2>1 DEF osVars
<1> QED
  BY <1>2, <1>4, <1>5, <1>6, <1>7, <1>8, <1>9 DEF Next

\* The lines beyond position p, shown after s.
LEMMA ReadOn ==
  ASSUME NEW s \in Seq(Nat), NEW c \in Seq(Nat), NEW p \in 0..Len(c), NEW w \in Nat,
         Increasing(s), Increasing(c), UpTo(s, w), UpTo(c, w), Ahead(s, c, p)
  PROVE  LET new == SubSeq(c, p + 1, Len(c))
         IN /\ Len(new) = Len(c) - p /\ s \o new \in Seq(Nat)
            /\ Increasing(s \o new) /\ UpTo(s \o new, w)
            /\ Len(s) = p /\ (\A k \in 1..p : s[k] = c[k]) =>
                 Len(s \o new) = Len(c) /\ \A k \in 1..Len(c) : (s \o new)[k] = c[k]
<1> DEFINE new == SubSeq(c, p + 1, Len(c))
           r == s \o new
<1>1. Len(s) \in Nat /\ Len(c) \in Nat /\ p \in Nat /\ p <= Len(c)
  OBVIOUS
<1>2. /\ new \in Seq(Nat) /\ Len(new) = Len(c) - p
      /\ \A k \in 1..(Len(c) - p) : new[k] = c[p + k]
  BY <1>1
<1>3. DOMAIN s = 1..Len(s) /\ DOMAIN c = 1..Len(c) /\ DOMAIN new = 1..(Len(c) - p)
  BY <1>2
<1>4. /\ r \in Seq(Nat) /\ Len(r) = Len(s) + (Len(c) - p) /\ DOMAIN r = 1..Len(r)
      /\ \A k \in 1..Len(s) : r[k] = s[k]
      /\ \A k \in 1..Len(r) : k > Len(s) => r[k] = new[k - Len(s)]
  <2> HIDE DEF new
  <2>1. r \in Seq(Nat) /\ Len(r) = Len(s) + Len(new) /\ DOMAIN r = 1..Len(r)
    <3>1. new \in Seq(Nat)
      BY <1>2
    <3>2. s \o new \in Seq(Nat)
      BY <3>1
    <3>3. Len(s \o new) = Len(s) + Len(new)
      BY <3>1
    <3> QED
      BY <3>2, <3>3
  <2>2. \A k \in 1..Len(s) : r[k] = s[k]
    BY <1>2
  <2>3. \A k \in 1..(Len(s) + Len(new)) : k > Len(s) => r[k] = new[k - Len(s)]
    BY <1>2
  <2> HIDE DEF r
  <2> QED
    BY <1>2, <2>1, <2>2, <2>3
<1> HIDE DEF new, r
<1>5. ASSUME NEW k \in 1..Len(r), k > Len(s)
      PROVE  /\ p + (k - Len(s)) \in 1..Len(c)
             /\ p + (k - Len(s)) > p
             /\ r[k] = c[p + (k - Len(s))]
  <2>1. k - Len(s) \in 1..(Len(c) - p) /\ k - Len(s) > 0
    BY <1>1, <1>4, <1>5
  <2>2. p + (k - Len(s)) \in 1..Len(c) /\ p + (k - Len(s)) > p
    BY <1>1, <2>1
  <2> QED
    BY <1>2, <1>4, <1>5, <2>1, <2>2
<1>6. UpTo(r, w)
  <2> SUFFICES ASSUME NEW k \in 1..Len(r) PROVE r[k] <= w
    BY <1>4 DEF UpTo
  <2>1. CASE k > Len(s)
    BY <1>3, <1>5, <2>1 DEF UpTo
  <2>2. CASE ~(k > Len(s))
    <3>1. k \in 1..Len(s)
      BY <1>1, <1>4, <2>2
    <3> QED
      BY <1>3, <1>4, <3>1 DEF UpTo
  <2> QED
    BY <2>1, <2>2
<1>7. Increasing(r)
  <2> SUFFICES ASSUME NEW k \in 1..Len(r), NEW l \in 1..Len(r), k < l PROVE r[k] < r[l]
    BY <1>4 DEF Increasing
  <2>1. CASE l <= Len(s)
    <3>1. k \in DOMAIN s /\ l \in DOMAIN s /\ r[k] = s[k] /\ r[l] = s[l]
      BY <1>1, <1>3, <1>4, <2>1
    <3> QED
      BY <3>1 DEF Increasing
  <2>2. CASE k <= Len(s) /\ l > Len(s)
    <3>1. k \in DOMAIN s /\ r[k] = s[k]
      BY <1>1, <1>3, <1>4, <2>2
    <3> QED
      BY <1>3, <1>5, <2>2, <3>1 DEF Ahead
  <2>3. CASE k > Len(s)
    <3>1. p + (k - Len(s)) < p + (l - Len(s)) /\ l > Len(s)
      BY <1>1, <1>4, <2>3
    <3> QED
      BY <1>3, <1>5, <2>3, <3>1 DEF Increasing
  <2> QED
    BY <1>1, <1>4, <2>1, <2>2, <2>3
<1>8. ASSUME Len(s) = p, \A k \in 1..p : s[k] = c[k]
      PROVE  Len(r) = Len(c) /\ \A k \in 1..Len(c) : r[k] = c[k]
  <2>1. Len(r) = Len(c)
    BY <1>1, <1>4, <1>8
  <2>2. ASSUME NEW k \in 1..Len(c) PROVE r[k] = c[k]
    <3>1. CASE k <= p
      BY <1>1, <1>4, <1>8, <3>1
    <3>2. CASE k > p
      <4>1. p + (k - Len(s)) = k
        BY <1>1, <1>8
      <4> QED
        BY <1>5, <1>8, <2>1, <3>2, <4>1
    <3> QED
      BY <1>1, <3>1, <3>2
  <2> QED
    BY <2>1, <2>2
<1> QED
  BY <1>2, <1>4, <1>6, <1>7, <1>8 DEF new, r


\* An operand that a step does not read.
LEMMA NotRead ==
  ASSUME NEW i \in Operands, Shown1(i), f'[i].fd = f[i].fd, out'[i] = out[i],
         f[i].fd # 0 => fds'[f[i].fd] = fds[f[i].fd], UNCHANGED <<content, cut, written>>
  PROVE  Shown1(i)'
BY DEF Shown1, Follows

\* Steps of tail that read nothing and keep the descriptors.
LEMMA NothingRead ==
  ASSUME Shows, \A i \in Operands : f'[i].fd = f[i].fd,
         UNCHANGED <<fds, out, content, cut, written>>, pc' = "dump" => f'[cur'].fd # 0
  PROVE  Shows'
BY NotRead DEF Shows

\* A file that is written, truncated or created.
LEMMA FileShows ==
  ASSUME Contents, NEW i \in Operands, Shown1(i), NEW o \in Inodes, out[i] \in Seq(Nat),
         f'[i].fd = f[i].fd, out'[i] = out[i], UNCHANGED fds, written' \in Nat, written <= written',
         f[i].fd # 0 /\ fds[f[i].fd].ino = o => Follows(out[i], o, fds[f[i].fd].pos)',
         \A p \in Inodes \ {o} : content'[p] = content[p] /\ (p \in cut' <=> p \in cut)
  PROVE  Shown1(i)'
<1>1. UpTo(out[i], written')
  <2> SUFFICES ASSUME NEW k \in DOMAIN out[i] PROVE out[i][k] <= written'
    BY DEF UpTo
  <2>1. out[i][k] \in Nat /\ out[i][k] <= written /\ written \in Nat
    BY DEF Shown1, UpTo, Contents
  <2> QED
    BY <2>1
<1>2. CASE f[i].fd = 0
  BY <1>1, <1>2 DEF Shown1
<1>3. CASE f[i].fd # 0 /\ fds[f[i].fd].ino = o
  BY <1>1, <1>3 DEF Shown1, Follows
<1>4. CASE f[i].fd # 0 /\ fds[f[i].fd].ino # o
  BY <1>1, <1>4 DEF Shown1, Follows
<1> QED
  BY <1>2, <1>3, <1>4

LEMMA WriteShows ==
  ASSUME Contents, Shows, NEW o \in Inodes, Write(o)
  PROVE  Shows'
<1>1. /\ written' = written + 1 /\ content' = [content EXCEPT ![o] = Append(@, written + 1)]
      /\ UNCHANGED <<f, fds, out, cut, pc, cur>> /\ written \in Nat /\ content[o] \in Seq(Nat)
      /\ content \in [Inodes -> Seq(Nat)]
  BY DEF Write, Others, Contents
<1>2. ASSUME NEW i \in Operands PROVE Shown1(i)'
  <2> DEFINE c == content[o]  d == content'[o]  p == fds[f[i].fd].pos
  <2>1. /\ Len(d) = Len(c) + 1 /\ d[Len(c) + 1] = written + 1 /\ c \in Seq(Nat) /\ d \in Seq(Nat)
        /\ \A k \in 1..Len(c) : d[k] = c[k]
    BY <1>1
  <2>2. out[i] \in Seq(Nat) /\ Shown1(i)
    BY DEF Shows
  <2>3. ASSUME f[i].fd # 0, fds[f[i].fd].ino = o
        PROVE  Follows(out[i], o, p)'
    <3>1. /\ Follows(out[i], o, p) /\ UpTo(out[i], written) /\ p \in Nat
          /\ Ahead(out[i], c, p)
      BY <2>2, <2>3 DEF Shown1, Follows
    <3>2. Ahead(out[i], d, p)
      <4>0. DOMAIN d = 1..Len(d) /\ DOMAIN c = 1..Len(c)
        BY <2>1
      <4> HIDE DEF c, d, p
      <4> SUFFICES ASSUME NEW k \in DOMAIN out[i], NEW l \in DOMAIN d, l > p \/ Len(d) < p
                   PROVE  out[i][k] < d[l]
        BY DEF Ahead
      <4>1. CASE l = Len(c) + 1
        <5>1. out[i][k] \in Nat /\ out[i][k] <= written
          BY <2>2, <3>1 DEF UpTo
        <5> QED
          BY <1>1, <2>1, <4>1, <5>1
      <4>2. CASE l # Len(c) + 1
        <5>1. l \in DOMAIN c /\ d[l] = c[l] /\ (l > p \/ Len(c) < p)
          BY <2>1, <3>1, <4>0, <4>2
        <5> QED
          BY <3>1, <5>1 DEF Ahead
      <4> QED
        BY <4>1, <4>2
    <3>3. o \notin cut => /\ p <= Len(d) /\ Len(out[i]) = p /\ \A k \in 1..p : out[i][k] = d[k]
      <4> SUFFICES ASSUME o \notin cut
                   PROVE  p <= Len(d) /\ Len(out[i]) = p /\ \A k \in 1..p : out[i][k] = d[k]
        OBVIOUS
      <4>1. p <= Len(c) /\ Len(out[i]) = p /\ \A k \in 1..p : out[i][k] = c[k]
        BY <3>1 DEF Follows
      <4> HIDE DEF c, d, p
      <4>2. \A k \in 1..p : k \in 1..Len(c)
        BY <2>1, <3>1, <4>1
      <4>3. p <= Len(d)
        BY <2>1, <3>1, <4>1
      <4> QED
        BY <2>1, <4>1, <4>2, <4>3
    <3> QED
      BY <1>1, <3>1, <3>2, <3>3 DEF Follows
  <2>4. written' \in Nat /\ written <= written'
    BY <1>1
  <2>5. \A q \in Inodes \ {o} : content'[q] = content[q] /\ (q \in cut' <=> q \in cut)
    BY <1>1
  <2> QED
    BY <1>1, <2>2, <2>3, <2>4, <2>5, FileShows
<1> QED
  BY <1>1, <1>2 DEF Shows

LEMMA TruncateShows ==
  ASSUME Contents, Shows, NEW o \in Inodes, Truncate(o)
  PROVE  Shows'
<1>1. /\ content' = [content EXCEPT ![o] = << >>] /\ cut' = cut \cup {o}
      /\ UNCHANGED <<f, fds, out, written, pc, cur>> /\ written \in Nat
      /\ content \in [Inodes -> Seq(Nat)]
  BY DEF Truncate, Others, Contents
<1>2. content'[o] = << >> /\ o \in cut'
  BY <1>1
<1>3. ASSUME NEW i \in Operands PROVE Shown1(i)'
  <2>1. out[i] \in Seq(Nat) /\ Shown1(i)
    BY DEF Shows
  <2>2. ASSUME f[i].fd # 0, fds[f[i].fd].ino = o
        PROVE  Follows(out[i], o, fds[f[i].fd].pos)'
    BY <1>1, <1>2, <2>1, <2>2 DEF Follows, Shown1, Ahead
  <2>3. \A q \in Inodes \ {o} : content'[q] = content[q] /\ (q \in cut' <=> q \in cut)
    BY <1>1
  <2>4. written' \in Nat /\ written <= written'
    BY <1>1
  <2> QED
    BY <1>1, <2>1, <2>2, <2>3, <2>4, FileShows
<1> QED
  BY <1>1, <1>3 DEF Shows

LEMMA CreateShows ==
  ASSUME Contents, Table, Shows, NEW n \in Names, Create(n)
  PROVE  Shows'
<1>1. UNCHANGED <<f, fds, out, written, pc, cur>>
  BY DEF Create, Others
<1>2. CASE UNCHANGED <<content, cut>>
  BY <1>1, <1>2, NothingRead DEF Shows
<1>3. ASSUME NEW o \in Inodes, ~Held(fds, o), content' = [content EXCEPT ![o] = << >>],
             cut' = cut \ {o}
      PROVE  Shows'
  <2>1. ASSUME NEW i \in Operands PROVE Shown1(i)'
    <3>1. out[i] \in Seq(Nat) /\ Shown1(i) /\ written \in Nat
      BY DEF Shows, Contents
    <3>2. ~(f[i].fd # 0 /\ fds[f[i].fd].ino = o)
      BY <1>3, Counts DEF Table, Held
    <3>3. \A q \in Inodes \ {o} : content'[q] = content[q] /\ (q \in cut' <=> q \in cut)
      BY <1>3 DEF Contents
    <3>4. written' \in Nat /\ written <= written'
      BY <1>1, <3>1
    <3> QED
      BY <1>1, <3>1, <3>2, <3>3, <3>4, FileShows
  <2> QED
    BY <1>1, <2>1 DEF Shows
<1> QED
  BY <1>2, <1>3 DEF Create

LEMMA OthersShows ==
  ASSUME Contents, Table, Shows,
         \/ \E ino \in Inodes : Write(ino) \/ Truncate(ino)
         \/ \E ino \in Watchable : Release(ino)
         \/ \E n \in Names : Create(n) \/ Unlink(n)
         \/ \E m, n \in Names : Rename(m, n)
         \/ WriterDies
         \/ UNCHANGED vars
  PROVE  Shows'
<1>1. \/ \E ino \in Inodes : Write(ino) \/ Truncate(ino)
      \/ \E n \in Names : Create(n)
      \/ UNCHANGED <<f, fds, out, content, cut, written, pc, cur>>
  BY DEF Unlink, Rename, Others, Release, WriterDies, kernelVars, osVars, vars
<1>2. CASE UNCHANGED <<f, fds, out, content, cut, written, pc, cur>>
  BY <1>2, NothingRead DEF Shows
<1> QED
  BY <1>1, <1>2, WriteShows, TruncateShows, CreateShows


\* An operand that a step reads: the lines r are shown, and descriptor d is at position p.
LEMMA ReadShown ==
  ASSUME NEW i \in Operands, NEW r, NEW d, NEW o, NEW p, d # 0,
         Increasing(r), UpTo(r, written), Follows(r, o, p), out'[i] = r,
         f'[i].fd = d, fds'[d].ino = o, fds'[d].pos = p, UNCHANGED <<content, cut, written>>
  PROVE  Shown1(i)'
BY DEF Shown1, Follows

LEMMA TailFileShows ==
  ASSUME Descriptors, Contents, Shows, ~ByName, TailFile
  PROVE  Shows'
<1>1. /\ pc = "open" /\ cur \in Operands /\ Table /\ Specs /\ UNCHANGED <<content, cut, written>>
      /\ pc' # "dump"
  <2>1. cur \in Operands /\ Table /\ Specs
    BY DEF Descriptors
  <2>2. pc' \in {"open", "choose", "record"}
    BY <2>1, Cursor DEF TailFile, Go
  <2> QED
    BY <2>1, <2>2 DEF TailFile, osVars
<1> DEFINE fd == LowestFree(fds)
           e == IF Target(cur) = "directory" THEN "-1" ELSE Errno(cur)
<1>2. fd \in 1..(N + 1) /\ fd # 0 /\ \A i \in Operands : f[i].fd # fd
  BY <1>1, FreeDescriptor
<1>3. DOMAIN f = Operands /\ DOMAIN fds = 1..(N + 1) /\ Fields \subseteq DOMAIN f[cur]
  BY <1>1 DEF Table
<1>4. CASE e = "0"
  <2> DEFINE o == Target(cur)  c == content[o]
  <2>1. o \in Inodes /\ c \in Seq(Nat) /\ Increasing(c) /\ UpTo(c, written)
    BY <1>1, <1>4, Kind DEF Contents
  <2>2. /\ fds' = [fds EXCEPT ![fd] = [ino |-> o, pos |-> Len(c)]]
        /\ f' = [f EXCEPT ![cur].fd = fd]
        /\ out' = [out EXCEPT ![cur] = c]
    BY <1>4 DEF TailFile
  <2> HIDE DEF fd, c, o
  <2>3. f'[cur].fd = fd /\ \A j \in Operands \ {cur} : f'[j] = f[j]
    BY <1>1, <1>3, <2>2 DEF Fields
  <2>4. /\ fds'[fd].ino = o /\ fds'[fd].pos = Len(c)
        /\ \A d \in DOMAIN fds : d # fd => fds'[d] = fds[d]
    BY <1>2, <1>3, <2>2
  <2>5. /\ out' \in [Operands -> Seq(Nat)] /\ out'[cur] = c
        /\ \A j \in Operands \ {cur} : out'[j] = out[j]
    BY <1>1, <2>1, <2>2 DEF Shows
  <2>6. ASSUME NEW j \in Operands \ {cur} PROVE Shown1(j)'
    <3>1. f[j].fd # 0 => f[j].fd \in DOMAIN fds /\ f[j].fd # fd
      BY <1>1, <1>2, Counts DEF Table
    <3> QED
      BY <1>1, <2>3, <2>4, <2>5, <3>1, NotRead DEF Shows
  <2>7. ASSUME NEW j \in Operands, j = cur PROVE Shown1(j)'
    <3>1. Ahead(c, c, Len(c))
      BY <2>1 DEF Ahead
    <3>2. Follows(c, o, Len(c))
      <4>1. Len(c) \in Nat
        BY <2>1
      <4> QED
        BY <2>1, <3>1, <4>1 DEF Follows, c
    <3> QED
      BY <1>1, <1>2, <2>1, <2>3, <2>4, <2>5, <2>7, <3>2, ReadShown
  <2> QED
    BY <1>1, <2>5, <2>6, <2>7 DEF Shows
<1>5. CASE e # "0"
  <2>1. /\ f' = [f EXCEPT ![cur].errnum = e, ![cur].ignore = ~opt.retry]
        /\ UNCHANGED <<fds, out>>
    BY <1>5 DEF TailFile
  <2>2. \A i \in Operands : f'[i].fd = f[i].fd
    <3> HIDE DEF e
    <3> QED
      BY <1>1, <1>3, <2>1 DEF Fields
  <2> QED
    BY <1>1, <2>1, <2>2, NothingRead
<1> QED
  BY <1>4, <1>5

LEMMA DumpShows ==
  ASSUME Descriptors, Contents, Shows, ~ByName, Dump
  PROVE  Shows'
<1> DEFINE fd == f[cur].fd  o == fds[fd].ino  p == fds[fd].pos  c == content[o]
           s == out[cur]  new == Unread(fd)
<1>1. /\ cur \in Operands /\ Table /\ Specs /\ UNCHANGED <<content, cut, written>>
      /\ ret \in {"events", "again", "poll"} /\ fd # 0
  BY DEF Descriptors, Dump, osVars, Shows
<1>2. pc' # "dump"
  <2>1. CASE ret = "events"
    BY <2>1 DEF Dump, Go
  <2>2. CASE ret = "again"
    BY <1>1, <2>2, Cursor DEF Dump
  <2>3. CASE ret = "poll"
    BY <1>1, <2>3, Cursor DEF Dump
  <2> QED
    BY <1>1, <2>1, <2>2, <2>3
<1>3. /\ DOMAIN f = Operands /\ Fields \subseteq DOMAIN f[cur] /\ fd \in DOMAIN fds
      /\ \A j \in Operands \ {cur} : f[j].fd # 0 => f[j].fd # fd /\ f[j].fd \in DOMAIN fds
      /\ {"ino", "pos"} \subseteq DOMAIN fds[fd]
  BY <1>1, Counts DEF Table, Opened
<1>4. /\ Increasing(s) /\ UpTo(s, written) /\ Follows(s, o, p) /\ s \in Seq(Nat)
      /\ o \in Inodes /\ p \in Nat /\ Ahead(s, c, p) /\ c \in Seq(Nat)
      /\ Increasing(c) /\ UpTo(c, written) /\ written \in Nat
  BY <1>1 DEF Shows, Shown1, Follows, Contents
<1>5. new = SubSeq(c, p + 1, Len(c))
  BY DEF Unread
<1>6. /\ fds' = [fds EXCEPT ![fd].pos = @ + Len(new)]
      /\ f' = [f EXCEPT ![cur].size = @ + Len(new)]
      /\ out' = [out EXCEPT ![cur] = @ \o new]
  BY DEF Dump
<1>7. /\ Increasing(s \o new) /\ UpTo(s \o new, written) /\ s \o new \in Seq(Nat)
      /\ Len(new) \in Nat /\ Follows(s \o new, o, p + Len(new))
  <2>1. CASE p <= Len(c)
    <3>1. /\ Len(new) = Len(c) - p /\ s \o new \in Seq(Nat)
          /\ Increasing(s \o new) /\ UpTo(s \o new, written)
          /\ Len(s) = p /\ (\A k \in 1..p : s[k] = c[k]) =>
               Len(s \o new) = Len(c) /\ \A k \in 1..Len(c) : (s \o new)[k] = c[k]
      <4>1. p \in 0..Len(c)
        BY <1>4, <2>1
      <4> HIDE DEF s, c, p, new
      <4>2. LET n == SubSeq(c, p + 1, Len(c))
            IN /\ Len(n) = Len(c) - p /\ s \o n \in Seq(Nat)
               /\ Increasing(s \o n) /\ UpTo(s \o n, written)
               /\ Len(s) = p /\ (\A k \in 1..p : s[k] = c[k]) =>
                    Len(s \o n) = Len(c) /\ \A k \in 1..Len(c) : (s \o n)[k] = c[k]
        BY <1>4, <4>1, ReadOn
      <4> QED
        BY <1>5, <4>2
    <3>2. p + Len(new) = Len(c) /\ Len(new) \in Nat /\ Len(c) \in Nat
      <4> HIDE DEF c, p, new
      <4> QED
        BY <1>4, <2>1, <3>1
    <3>3. Ahead(s \o new, c, Len(c))
      <4> DEFINE r == s \o new
      <4> HIDE DEF r, c
      <4> QED
        BY <1>4 DEF Ahead
    <3>4. o \notin cut => /\ Len(s \o new) = Len(c)
                          /\ \A k \in 1..Len(c) : (s \o new)[k] = c[k]
      BY <1>4, <3>1 DEF Follows
    <3>5. Follows(s \o new, o, Len(c))
      <4> HIDE DEF s, o, p, new
      <4> QED
        BY <1>4, <3>2, <3>3, <3>4 DEF Follows, c
    <3> QED
      BY <3>1, <3>2, <3>5
  <2>2. CASE p > Len(c)
    <3>1. new = << >>
      <4> HIDE DEF c, p, new
      <4> QED
        BY <1>4, <1>5, <2>2
    <3>2. s \o new = s /\ Len(new) = 0 /\ p + Len(new) = p
      BY <1>4, <3>1
    <3> QED
      BY <1>4, <3>2
  <2> QED
    BY <1>4, <2>1, <2>2
<1> HIDE DEF new
<1>8. f'[cur].fd = fd /\ \A j \in Operands \ {cur} : f'[j] = f[j]
  <2> HIDE DEF fd
  <2>1. f'[cur].fd = f[cur].fd
    BY <1>1, <1>3, <1>6 DEF Fields
  <2> QED
    BY <1>1, <1>3, <1>6, <2>1 DEF fd
<1>9. /\ fds'[fd].ino = o /\ fds'[fd].pos = p + Len(new)
      /\ \A d \in DOMAIN fds : d # fd => fds'[d] = fds[d]
  <2> HIDE DEF fd
  <2> QED
    BY <1>3, <1>6
<1>10. /\ out' \in [Operands -> Seq(Nat)] /\ out'[cur] = s \o new
       /\ \A j \in Operands \ {cur} : out'[j] = out[j]
  BY <1>1, <1>6, <1>7 DEF Shows
<1>11. ASSUME NEW j \in Operands \ {cur} PROVE Shown1(j)'
  BY <1>1, <1>3, <1>8, <1>9, <1>10, NotRead DEF Shows
<1>12. ASSUME NEW j \in Operands, j = cur PROVE Shown1(j)'
  <2> DEFINE r == s \o new  q == p + Len(new)
  <2>1. /\ Increasing(r) /\ UpTo(r, written) /\ Follows(r, o, q)
        /\ out'[j] = r /\ f'[j].fd = fd /\ fds'[fd].ino = o /\ fds'[fd].pos = q
    BY <1>7, <1>8, <1>9, <1>10, <1>12
  <2> HIDE DEF r, q, o, fd
  <2> QED
    BY <1>1, <2>1, ReadShown
<1> QED
  BY <1>1, <1>2, <1>10, <1>11, <1>12 DEF Shows


\* A file that has shrunk is read again from its start: all of it is new.
LEMMA StatsShows ==
  ASSUME Table, Specs, Following, Contents, Shows, NEW i \in Operands, Stats(i), f[i].fd # 0,
         UNCHANGED <<out, content, cut, written>>
  PROVE  \A j \in Operands : Shown1(j)'
<1> DEFINE fd == f[i].fd  o == fds[fd].ino  p == fds[fd].pos  c == content[o]
<1>1. \A j \in Operands : f'[j].fd = f[j].fd
  BY DEF Stats, Only
<1>2. CASE UNCHANGED fds
  BY <1>1, <1>2, NotRead DEF Shows
<1>3. CASE Truncated(i) /\ fds' = [fds EXCEPT ![fd].pos = 0]
  <2>1. /\ Increasing(out[i]) /\ UpTo(out[i], written) /\ Follows(out[i], o, p)
        /\ o \in Inodes /\ p \in Nat /\ Ahead(out[i], c, p) /\ c \in Seq(Nat)
    BY DEF Shows, Shown1, Follows, Contents
  <2>2. Len(c) < p
    BY <1>3 DEF Truncated, Size, Specs, Known
  <2>3. Follows(out[i], o, 0)
    <3>1. Ahead(out[i], c, 0)
      BY <2>1, <2>2 DEF Ahead
    <3>2. o \in cut
      BY <2>1, <2>2 DEF Follows
    <3> HIDE DEF o
    <3> QED
      BY <2>1, <3>1, <3>2 DEF Follows, c
  <2>4. /\ fd \in DOMAIN fds /\ {"ino", "pos"} \subseteq DOMAIN fds[fd]
        /\ \A j \in Operands \ {i} : f[j].fd # 0 => f[j].fd # fd /\ f[j].fd \in DOMAIN fds
    BY Counts DEF Table, Opened
  <2>5. /\ fds'[fd].ino = o /\ fds'[fd].pos = 0
        /\ \A d \in DOMAIN fds : d # fd => fds'[d] = fds[d]
    <3> HIDE DEF fd
    <3> QED
      BY <1>3, <2>4
  <2>6. Shown1(i)'
    BY <1>1, <2>1, <2>3, <2>5, ReadShown
  <2>7. ASSUME NEW j \in Operands \ {i} PROVE Shown1(j)'
    BY <1>1, <2>4, <2>5, NotRead DEF Shows
  <2> QED
    BY <2>6, <2>7
<1> QED
  BY <1>2, <1>3 DEF Stats

\* A descriptor that recheck opens is at the start of the file.
LEMMA RecheckOpens ==
  ASSUME Table, Contents, NEW i \in Operands, f[i].fd = 0, Recheck(i).spec.fd # 0
  PROVE  LET r == Recheck(i)
         IN r.fds[r.spec.fd].ino \in Inodes /\ r.fds[r.spec.fd].pos = 0
<1> DEFINE fd == LowestFree(fds)  ino == Target(i)
<1>1. fd \in 1..(N + 1) /\ DOMAIN fds = 1..(N + 1) /\ Fields \subseteq DOMAIN f[i]
  BY FreeDescriptor DEF Table
<1>2. CASE (inotify /\ ino = "symlink") \/ Errno(i) # "0" \/ ino = "directory"
  <2>1. Recheck(i).spec.fd = 0
    <3>1. CASE inotify /\ ino = "symlink"
      BY <1>1, <3>1 DEF Recheck, Fields
    <3>2. CASE ~(inotify /\ ino = "symlink") /\ Errno(i) # "0"
      BY <1>1, <3>2 DEF Recheck, Fields
    <3>3. CASE ~(inotify /\ ino = "symlink") /\ Errno(i) = "0" /\ ino = "directory"
      BY <1>1, <3>3 DEF Recheck, Fields
    <3> QED
      BY <1>2, <3>1, <3>2, <3>3
  <2> QED
    BY <2>1
<1>3. CASE ~(inotify /\ ino = "symlink") /\ Errno(i) = "0" /\ ino # "directory"
  <2>1. /\ Recheck(i).spec = RecordOpenFd(i, fd, ino, 0)
        /\ Recheck(i).fds = [fds EXCEPT ![fd] = [ino |-> ino, pos |-> 0]]
    BY <1>3 DEF Recheck
  <2>2. RecordOpenFd(i, fd, ino, 0).fd = fd
    BY <1>1 DEF RecordOpenFd, Fields
  <2>3. ino \in Inodes
    BY <1>3, Kind
  <2> HIDE DEF fd, ino
  <2>4. /\ Recheck(i).fds[fd].ino = ino /\ Recheck(i).fds[fd].pos = 0
    BY <1>1, <2>1
  <2> QED
    BY <2>1, <2>2, <2>3, <2>4
<1> QED
  BY <1>2, <1>3

LEMMA LookShows ==
  ASSUME Table, Specs, Following, Contents, Shows, NEW i \in Operands, Looks(i), f[i].fd = 0,
         UNCHANGED <<out, content, cut, written>>
  PROVE  \A j \in Operands : Shown1(j)'
<1>1. Takes(i, f'[i], fds') /\ Only(i)
  <2>1. Takes(i, Recheck(i).spec, Recheck(i).fds)
    BY RecheckTakes DEF Specs
  <2> QED
    BY <2>1 DEF Looks, Takes
<1>2. ASSUME NEW j \in Operands \ {i} PROVE Shown1(j)'
  BY <1>1, <1>2, NotRead DEF Shows, Takes, Only
<1>3. out[i] = << >> /\ Increasing(out[i]) /\ UpTo(out[i], written)
  BY DEF Shows, Shown1
<1>4. CASE f'[i].fd = 0
  BY <1>2, <1>3, <1>4 DEF Shown1
<1>5. CASE f'[i].fd # 0
  <2> DEFINE d == f'[i].fd  o == fds'[d].ino
  <2>1. o \in Inodes /\ fds'[d].pos = 0
    BY <1>5, RecheckOpens DEF Looks
  <2>2. content[o] \in Seq(Nat)
    BY <2>1 DEF Contents
  <2>3. Follows(<< >>, o, 0)
    <3> HIDE DEF o
    <3> QED
      BY <2>1, <2>2 DEF Follows, Ahead
  <2>4. Shown1(i)'
    <3> HIDE DEF o
    <3> QED
      BY <1>3, <1>5, <2>1, <2>3, ReadShown DEF o
  <2> QED
    BY <1>2, <2>4
<1> QED
  BY <1>4, <1>5

LEMMA ReadingShows ==
  ASSUME Descriptors, Contents, Shows, ~ByName, CheckFspec \/ PollFile
  PROVE  Shows'
<1>1. /\ cur \in Operands /\ Table /\ Specs /\ Following
      /\ UNCHANGED <<out, content, cut, written>>
  BY DEF Descriptors, CheckFspec, PollFile, Following, osVars
<1>2. \/ f' = f /\ fds' = fds
      \/ Stats(cur) /\ f[cur].fd # 0
      \/ Looks(cur) /\ f[cur].fd = 0
  BY <1>1, CheckFspecStats, PollFileDoes
<1>3. pc' = "dump" => cur' = cur /\ f[cur].fd # 0
  <2>1. CASE CheckFspec
    <3>1. CASE f[cur].fd = 0
      <4>1. pc' \in {"again", "events"}
        BY <1>1, <2>1, <3>1, Cursor DEF CheckFspec, Go
      <4> QED
        BY <4>1
    <3>2. CASE f[cur].fd # 0
      <4>1. pc' \in {"again", "events"} \/ Go("dump", cur)
        BY <1>1, <2>1, <3>2, Cursor DEF CheckFspec, Go
      <4> QED
        BY <3>2, <4>1 DEF Go
    <3> QED
      BY <3>1, <3>2
  <2>2. CASE PollFile
    <3>1. CASE f[cur].fd = 0
      <4>1. pc' \in {"poll", "pass"}
        BY <1>1, <2>2, <3>1, Cursor DEF PollFile
      <4> QED
        BY <4>1
    <3>2. CASE f[cur].fd # 0
      <4>1. pc' \in {"poll", "pass"} \/ Go("dump", cur)
        BY <1>1, <2>2, <3>2, Cursor DEF PollFile
      <4> QED
        BY <3>2, <4>1 DEF Go
    <3> QED
      BY <3>1, <3>2
  <2> QED
    BY <2>1, <2>2
<1>4. out' \in [Operands -> Seq(Nat)]
  BY <1>1 DEF Shows
<1>5. CASE f' = f /\ fds' = fds
  BY <1>1, <1>3, <1>5, NothingRead
<1>6. CASE Stats(cur) /\ f[cur].fd # 0
  <2>1. \A j \in Operands : Shown1(j)'
    BY <1>1, <1>6, StatsShows
  <2> QED
    BY <1>3, <1>4, <1>6, <2>1 DEF Shows, Stats
<1>7. CASE Looks(cur) /\ f[cur].fd = 0
  <2>1. \A j \in Operands : Shown1(j)'
    BY <1>1, <1>7, LookShows
  <2> QED
    BY <1>3, <1>4, <1>7, <2>1 DEF Shows
<1> QED
  BY <1>2, <1>5, <1>6, <1>7

LEMMA TailShows ==
  ASSUME Descriptors, Contents, Unnamed, Shows, ~ByName, TailStep
  PROVE  Shows'
<1>1. /\ cur \in Operands /\ Table /\ \A i \in Operands : Fields \subseteq DOMAIN f[i]
      /\ UNCHANGED <<content, cut, written>>
  <2>1. UNCHANGED <<osVars, cut>>
    BY DEF TailStep, TailFile, Record, Choose, Dump, PollFile, PollPass, WatchOperand,
       Watched, Again, CheckFspec, CheckWriter, Wait, NameEvent, Moved, RecheckNamed, FileEvent,
       RecheckLast
  <2> QED
    BY <2>1 DEF Descriptors, Table, osVars
<1>2. ASSUME UNCHANGED <<f, fds, out>>, pc' # "dump" PROVE Shows'
  BY <1>1, <1>2, NothingRead
<1>3. CASE Record
  <2>1. \A i \in Operands : f'[i].fd = f[i].fd
    <3>1. f' = [f EXCEPT ![cur] = RecordOpenFd(cur, f[cur].fd, fds[f[cur].fd].ino, ReadPos(f[cur].fd))]
      BY <1>3 DEF Record
    <3> QED
      BY <1>1, <3>1 DEF RecordOpenFd, Fields, Table
  <2>2. pc' \in {"open", "choose"}
    BY <1>1, <1>3, Cursor DEF Record
  <2> QED
    BY <1>1, <1>3, <2>1, <2>2, NothingRead DEF Record, kernelVars
<1>4. CASE WatchOperand
  <2>1. f' = f \/ \E wd, parent : f' = [f EXCEPT ![cur].wd = wd, ![cur].parent = parent]
    BY <1>4 DEF WatchOperand
  <2>2. \A i \in Operands : f'[i].fd = f[i].fd
    <3>1. CASE f' = f
      BY <3>1
    <3>2. ASSUME NEW wd, NEW parent, f' = [f EXCEPT ![cur].wd = wd, ![cur].parent = parent],
                 NEW i \in Operands
          PROVE  f'[i].fd = f[i].fd
      <4>1. DOMAIN f = Operands /\ "fd" \in DOMAIN f[cur]
        BY <1>1 DEF Table, Fields
      <4> QED
        BY <1>1, <3>2, <4>1
    <3> QED
      BY <2>1, <3>1, <3>2
  <2>3. pc' \in {"watch", "watched", "poll"}
    BY <1>1, <1>4, Cursor DEF WatchOperand, Go, RevertToPolling
  <2> QED
    BY <1>1, <1>4, <2>2, <2>3, NothingRead DEF WatchOperand
<1>5. CASE Choose \/ PollPass \/ CheckWriter \/ Watched
  <2>1. pc' # "dump"
    BY <1>5 DEF Choose, PollPass, CheckWriter, Watched, Go, RevertToPolling
  <2> QED
    BY <1>2, <1>5, <2>1 DEF Choose, PollPass, CheckWriter, Watched, kernelVars
<1>6. CASE Wait \/ FileEvent
  <2>1. pc' # "dump"
    BY <1>6 DEF Wait, FileEvent, Go
  <2> QED
    BY <1>2, <1>6, <2>1 DEF Wait, FileEvent, kernelVars
<1>7. CASE Again
  <2>1. UNCHANGED <<f, fds, out>>
    BY <1>7 DEF Again
  <2>2. pc' \in {"again", "events", "stat", "poll"}
    BY <1>1, <1>7, Cursor DEF Again, Go, RevertToPolling
  <2> QED
    BY <1>2, <2>1, <2>2
<1>8. ~(NameEvent \/ Moved \/ RecheckNamed \/ RecheckLast)
  BY DEF Unnamed, Modified, NameEvent, Moved, RecheckNamed, RecheckLast
<1> QED
  BY <1>3, <1>4, <1>5, <1>6, <1>7, <1>8, TailFileShows, DumpShows, ReadingShows DEF TailStep

-----------------------------------------------------------------------------
(* The theorems.                                                           *)

LEMMA InitInvariant ==
  ASSUME Init
  PROVE  Descriptors /\ Reading
<1>1. /\ f = [i \in Operands |-> NewSpec] /\ fds = [d \in 1..(N + 1) |-> Closed]
      /\ pc = "open" /\ cur = 1 /\ table = {} /\ ret = "poll" /\ queue = << >> /\ nextWd = 1
      /\ watch = [o \in Watchable \cup {"dir"} |-> 0] /\ out = [i \in Operands |-> << >>]
      /\ content = [o \in Inodes |-> << >>] /\ written = 0 /\ dir \in Starts
  BY DEF Init, NoWatch
<1>2. /\ \A i \in Operands : f[i].fd = 0 /\ Fields \subseteq DOMAIN f[i]
      /\ 1 \in Operands /\ \A i \in Operands : ~(i < 1)
  BY <1>1, Counts DEF NewSpec, Fields
<1>3. Table
  <2>1. DOMAIN fds = 1..(N + 1) /\ DOMAIN f = Operands /\ N \in Nat
    BY <1>1, Counts
  <2>2. /\ \A i \in Operands : f[i].fd \in 0..(N + 1)
        /\ \A d \in DOMAIN fds : fds[d] = Closed
    BY <1>1, <1>2, <2>1
  <2> QED
    BY <1>2, <2>1, <2>2 DEF Table
<1>4. Specs
  BY <1>1, <1>2 DEF Specs, Following
<1>5. Descriptors
  BY <1>1, <1>2, <1>3, <1>4 DEF Descriptors
<1>6. << >> \in Seq(Nat) /\ Increasing(<< >>) /\ UpTo(<< >>, written) /\ << >> \in Seq(Modified)
  BY DEF Increasing, UpTo
<1>7. Contents
  BY <1>1, <1>6, TailAssumption DEF Contents
<1>8. Unnamed
  BY <1>1, <1>6 DEF Unnamed
<1>9. Shows
  BY <1>1, <1>2, <1>6 DEF Shows, Shown1
<1> QED
  BY <1>5, <1>7, <1>8, <1>9 DEF Reading

LEMMA NextInvariant ==
  ASSUME Descriptors, Reading, [Next]_vars
  PROVE  Descriptors' /\ Reading'
<1> DEFINE others == \/ \E ino \in Inodes : Write(ino) \/ Truncate(ino)
                     \/ \E ino \in Watchable : Release(ino)
                     \/ \E n \in Names : Create(n) \/ Unlink(n)
                     \/ \E m, n \in Names : Rename(m, n)
                     \/ WriterDies
                     \/ UNCHANGED vars
<1>1. TailStep \/ others
  BY DEF Next
<1>2. Descriptors'
  <2>1. CASE others
    BY <2>1, OthersDescriptors
  <2>2. CASE TailStep
    BY <2>2, ElsewhereSteps, TailFileDescriptors, RecordDescriptors, ReadingSteps, RecheckSteps,
       WatchSteps, MovedDescriptors DEF TailStep
  <2> QED
    BY <1>1, <2>1, <2>2
<1>3. Contents'
  BY NextContents DEF Reading
<1>4. UNCHANGED opt
  <2>1. CASE others
    BY <2>1 DEF Write, Truncate, Create, Unlink, Rename, Others, Release, WriterDies, vars
  <2>2. CASE TailStep
    BY <2>2 DEF TailStep, TailFile, Record, Choose, Dump, PollFile, PollPass, WatchOperand,
       Watched, Again, CheckFspec, CheckWriter, Wait, NameEvent, Moved, RecheckNamed, FileEvent,
       RecheckLast
  <2> QED
    BY <1>1, <2>1, <2>2
<1>5. ASSUME ~ByName
      PROVE  Unnamed' /\ Shows'
  <2>1. Contents /\ Unnamed /\ Shows /\ Table
    BY <1>5 DEF Reading, Descriptors
  <2> HIDE DEF others
  <2>2. CASE others
    BY <1>5, <2>1, <2>2, OthersUnnamed, OthersShows DEF others
  <2>3. CASE TailStep
    BY <1>5, <2>1, <2>3, TailUnnamed, TailShows
  <2> QED
    BY <1>1, <2>2, <2>3
<1>6. ByName' <=> ByName
  BY <1>4 DEF ByName
<1> QED
  BY <1>2, <1>3, <1>5, <1>6 DEF Reading

LEMMA Invariants == Spec => [](Descriptors /\ Reading)
<1>1. Init => Descriptors /\ Reading
  BY InitInvariant
<1>2. (Descriptors /\ Reading) /\ [Next]_vars => (Descriptors /\ Reading)'
  BY NextInvariant
<1> QED
  BY <1>1, <1>2, PTL DEF Spec

\* Whatever is done to the files and their names, tail's open descriptors are the ones of
\* its operands, one each, on the file that is recorded (valid_file_spec, tail.c:383; recheck,
\* 982-1109).
THEOREM Described == Spec => []DescriptorsSound
<1>1. Descriptors => DescriptorsSound
  <2> SUFFICES ASSUME Descriptors, Following, ~mixedUp
               PROVE  /\ \A i \in Operands :
                           /\ (f[i].fd = 0) <=> (f[i].errnum # "0")
                           /\ f[i].fd # 0 => IsOpen(fds, f[i].fd) /\ fds[f[i].fd].ino = f[i].ino
                           /\ \A j \in Operands \ {i} : f[i].fd # 0 => f[i].fd # f[j].fd
                      /\ \A d \in DOMAIN fds : IsOpen(fds, d) => \E i \in Operands : f[i].fd = d
    BY DEF DescriptorsSound
  <2>1. Table /\ \A i \in Operands : Known(i)
    BY DEF Descriptors, Specs
  <2>2. ASSUME NEW i \in Operands, f[i].fd # 0 PROVE IsOpen(fds, f[i].fd)
    BY <2>1, <2>2, Counts DEF Table, Opened, IsOpen, Closed
  <2>3. ASSUME NEW d \in DOMAIN fds, IsOpen(fds, d) PROVE \E i \in Operands : f[i].fd = d
    BY <2>1, <2>3 DEF Table, IsOpen
  <2>4. ASSUME NEW i \in Operands, NEW j \in Operands \ {i}, f[i].fd # 0 PROVE f[i].fd # f[j].fd
    BY <2>1, <2>4 DEF Table
  <2> QED
    BY <2>1, <2>2, <2>3, <2>4 DEF Known
<1> QED
  BY <1>1, Invariants, PTL

\* A file that is followed by its descriptor is shown from the start without a gap, and no
\* line twice or out of order, whatever writers do meanwhile (dump_remainder, check_fspec
\* and tail_forever, tail.c:454, 1405 and 1157).
THEOREM ShownFromStart == Spec => []ShownOnce
<1>1. Descriptors /\ Reading => ShownOnce
  <2> SUFFICES ASSUME Descriptors, Reading, Following, ~ByName, NEW i \in Operands
               PROVE  /\ \A k, l \in DOMAIN out[i] : k < l => out[i][k] < out[i][l]
                      /\ f[i].fd # 0 /\ f[i].ino \notin cut =>
                           out[i] = SubSeq(content[f[i].ino], 1, f[i].size)
    BY DEF ShownOnce
  <2>1. Shown1(i) /\ Known(i) /\ Contents /\ out[i] \in Seq(Nat)
    BY DEF Descriptors, Specs, Reading, Shows
  <2>2. ASSUME f[i].fd # 0, f[i].ino \notin cut
        PROVE  out[i] = SubSeq(content[f[i].ino], 1, f[i].size)
    <3> DEFINE s == out[i]  c == content[f[i].ino]  p == f[i].size
    <3>1. Follows(s, f[i].ino, p)
      BY <2>1, <2>2 DEF Shown1, Known
    <3>2. /\ p \in Nat /\ p <= Len(c) /\ Len(s) = p /\ \A k \in 1..p : s[k] = c[k]
          /\ s \in Seq(Nat) /\ c \in Seq(Nat)
      BY <2>1, <2>2, <3>1 DEF Follows, Contents
    <3> HIDE DEF s, c, p
    <3>3. /\ SubSeq(c, 1, p) \in Seq(Nat) /\ Len(SubSeq(c, 1, p)) = p
          /\ \A k \in 1..p : SubSeq(c, 1, p)[k] = c[k]
      BY <3>2
    <3>4. s = SubSeq(c, 1, p)
      BY <3>2, <3>3
    <3> QED
      BY <3>4 DEF s, c, p
  <2> QED
    BY <2>1, <2>2 DEF Shown1, Increasing
<1> QED
  BY <1>1, Invariants, PTL

-----------------------------------------------------------------------------
(* What is written to a file that is followed by descriptor, without       *)
(* --retry, is read in the pass that begins after the writer is dead; or,  *)
(* with inotify, since the last look at the file an event of its watch is  *)
(* on its way.                                                             *)

Plain == ~ByName /\ ~opt.retry

\* An operand that has no descriptor is ignored, and is not opened again.
Settled(i) == f[i].fd = 0 <=> f[i].ignore

\* Polling and inotify have steps of their own.
Modes ==
  /\ pc \in {"open", "record", "choose", "poll", "pass"} => ~inotify
  /\ pc \in {"watch", "watched", "again", "stat", "events", "wait", "event"} => inotify
  /\ pc = "stat" => ret # "poll"
  /\ pc \in {"wait", "event"} => ret = "events"
  /\ pc = "dump" => (ret = "poll" <=> ~inotify)

Caught(i) == f[i].fd # 0 /\ f[i].ino \notin cut => f[i].size = Len(content[f[i].ino])

\* Polling: the operands before the current one are done, in the last pass.
Polled ==
  ~inotify =>
    \A i \in Operands :
      (pc = "end" \/ (noWriter /\ (pc = "pass" \/ (pc \in {"poll", "dump"} /\ i < cur))))
        => Caught(i)

\* The operands that were looked at once more after all the watches were added.
Passed(i) ==
  CASE pc \in {"watch", "watched"} -> FALSE
    [] pc = "again" -> i < cur
    [] pc \in {"stat", "dump"} /\ ret = "again" -> i <= cur
    [] OTHER -> TRUE

Heard(i) ==
  \/ Caught(i)
  \/ \E k \in DOMAIN queue : queue[k].wd = f[i].wd
  \/ pc = "event" /\ ev.wd = f[i].wd
  \/ pc \in {"stat", "dump"} /\ cur = i

Hears ==
  inotify /\ ~mixedUp =>
    \A i \in Operands : Passed(i) => watch[f[i].ino] = f[i].wd /\ Heard(i)

\* Each watch leads to its operand.
Entries ==
  inotify /\ ~mixedUp =>
    /\ \A i \in Operands :
         /\ (pc = "watch" => i < cur) /\ f[i].wd # 0 => i \in table
         /\ pc \notin {"watch", "watched"} => f[i].wd # 0
    /\ \A i, j \in Operands :
         (pc = "watch" => i < cur /\ j < cur) /\ f[i].wd # 0 /\ f[i].wd = f[j].wd => i = j

Listens ==
  /\ noWriter => writer = "dead"
  /\ \A i \in Operands : {"ignore", "wd"} \subseteq DOMAIN f[i]
                           /\ (Following \/ i < cur => Settled(i))
  /\ Modes
  /\ inotify => \A i \in Operands : f[i].fd # 0
  /\ Polled
  /\ Hears
  /\ Entries

\* What is known of a file that is open.
LEMMA OpenFile ==
  ASSUME Descriptors, Reading, ~ByName, Following, NEW i \in Operands, f[i].fd # 0
  PROVE  /\ IsOpen(fds, f[i].fd) /\ f[i].fd \in DOMAIN fds
         /\ fds[f[i].fd].ino = f[i].ino /\ fds[f[i].fd].pos = f[i].size
         /\ f[i].ino \in Inodes /\ f[i].size \in Nat /\ content[f[i].ino] \in Seq(Nat)
         /\ f[i].ino \notin cut => f[i].size <= Len(content[f[i].ino])
<1>1. Table /\ Known(i) /\ Shown1(i) /\ Contents
  BY DEF Descriptors, Specs, Reading, Shows
<1>2. Follows(out[i], f[i].ino, f[i].size)
  BY <1>1 DEF Known, Shown1
<1>3. f[i].fd \in DOMAIN fds /\ fds[f[i].fd] # Closed
  BY <1>1, Counts DEF Table, Opened, Closed
<1> QED
  BY <1>1, <1>2, <1>3 DEF Known, Follows, IsOpen, Contents

\* A file that looks the same has been read to its end; a truncated one counts as cut.
LEMMA LookedAt ==
  ASSUME Descriptors, Reading, ~ByName, Following, NEW i \in Operands, f[i].fd # 0
  PROVE  /\ Same(i) => Caught(i)
         /\ Truncated(i) => f[i].ino \in cut
<1>1. /\ fds[f[i].fd].ino = f[i].ino /\ f[i].size \in Nat /\ content[f[i].ino] \in Seq(Nat)
      /\ f[i].ino \notin cut => f[i].size <= Len(content[f[i].ino])
  BY OpenFile
<1>2. Size(i) = Len(content[f[i].ino]) /\ Size(i) \in Nat
  BY <1>1 DEF Size
<1> QED
  BY <1>1, <1>2 DEF Same, Truncated, Caught

\* After the rest is read, all is.
LEMMA ReadAll ==
  ASSUME Descriptors, Reading, ~ByName, Following, cur \in Operands, f[cur].fd # 0, Dump,
         f'[cur].fd = f[cur].fd, f'[cur].ino = f[cur].ino, UNCHANGED <<content, cut>>
  PROVE  \A i \in Operands : i = cur => Caught(i)'
<1> DEFINE c == content[f[cur].ino]  p == f[cur].size  r == Unread(f[cur].fd)
<1>1. /\ c \in Seq(Nat) /\ p \in Nat /\ (f[cur].ino \notin cut => p <= Len(c))
      /\ fds[f[cur].fd].ino = f[cur].ino /\ fds[f[cur].fd].pos = p
  BY OpenFile
<1>2. r = SubSeq(c, p + 1, Len(c))
  BY <1>1 DEF Unread
<1>3. DOMAIN f = Operands /\ "size" \in DOMAIN f[cur]
  BY DEF Descriptors, Table, Fields
<1>4. f'[cur].size = p + Len(r)
  BY <1>3 DEF Dump
<1> HIDE DEF c, p, r
<1>5. p <= Len(c) => p + Len(r) = Len(c)
  <2> SUFFICES ASSUME p <= Len(c) PROVE p + Len(r) = Len(c)
    OBVIOUS
  <2>1. Len(c) \in Nat /\ Len(r) = IF p + 1 <= Len(c) THEN Len(c) - (p + 1) + 1 ELSE 0
    BY <1>1, <1>2
  <2> QED
    BY <1>1, <2>1
<1> QED
  BY <1>1, <1>4, <1>5 DEF Caught, c

\* Others write only while the writer is alive, and events are added to the queue.
Longer == \A k \in DOMAIN queue : k \in DOMAIN queue' /\ queue'[k] = queue[k]

LEMMA Grows ==
  ASSUME Unnamed, ~ByName, NEW q \in Seq(Modified), NEW ino, NEW mask
  PROVE  LET r == InodeEvent(q, ino, mask)
         IN /\ \A k \in DOMAIN q : k \in DOMAIN r /\ r[k] = q[k]
            /\ ino \in Watchable /\ watch[ino] # 0 /\ mask = "MODIFY" =>
                 \E k \in DOMAIN r : r[k].wd = watch[ino]
<1> DEFINE e == [wd |-> watch[ino], mask |-> mask, name |-> "none"]
           r == InodeEvent(q, ino, mask)
<1>1. CASE ~(ino \in Watchable /\ watch[ino] # 0 /\ mask = "MODIFY")
  BY <1>1 DEF InodeEvent
<1>2. CASE ino \in Watchable /\ watch[ino] # 0 /\ mask = "MODIFY"
  <2>1. e \in Modified /\ e.wd = watch[ino]
    BY <1>2 DEF Unnamed, Modified
  <2>2. r = IF q # << >> /\ Last(q) = e THEN q ELSE Append(q, e)
    BY <1>2 DEF InodeEvent, Queued
  <2> HIDE DEF e, r
  <2>3. CASE q # << >> /\ Last(q) = e
    <3>1. Len(q) \in DOMAIN q /\ q[Len(q)] = e /\ r = q
      BY <2>2, <2>3 DEF Last
    <3> QED
      BY <2>1, <3>1 DEF r
  <2>4. CASE ~(q # << >> /\ Last(q) = e)
    <3>1. r = Append(q, e)
      BY <2>2, <2>4
    <3>2. /\ Len(q) + 1 \in DOMAIN r /\ r[Len(q) + 1] = e
          /\ \A k \in DOMAIN q : k \in DOMAIN r /\ r[k] = q[k]
      BY <2>1, <3>1
    <3> QED
      BY <2>1, <3>2 DEF r
  <2> QED
    BY <2>3, <2>4
<1> QED
  BY <1>1, <1>2

LEMMA OthersQueue ==
  ASSUME Unnamed, ~ByName,
         \/ \E ino \in Inodes : Write(ino) \/ Truncate(ino)
         \/ \E ino \in Watchable : Release(ino)
         \/ \E n \in Names : Create(n) \/ Unlink(n)
         \/ \E m, n \in Names : Rename(m, n)
         \/ WriterDies
         \/ UNCHANGED vars
  PROVE  Longer
<1>1. queue \in Seq(Modified)
  BY DEF Unnamed
<1>2. ASSUME NEW ino \in Inodes, Write(ino) \/ Truncate(ino) PROVE Longer
  BY <1>1, <1>2, Grows DEF Write, Truncate, Longer
<1>3. ASSUME NEW ino \in Watchable, Release(ino) PROVE Longer
  BY <1>1, <1>3, Grows DEF Release, Longer
<1>4. ASSUME NEW n \in Names, Create(n) \/ Unlink(n) PROVE Longer
  <2>1. DirEvent(queue, "CREATE", n) = queue
    BY <1>1, QueuedEvents
  <2>2. InodeEvent(queue, dir[n], "ATTRIB") \in Seq(Modified)
    BY <1>1, QueuedEvents
  <2>3. DirEvent(InodeEvent(queue, dir[n], "ATTRIB"), "DELETE", n)
          = InodeEvent(queue, dir[n], "ATTRIB")
    BY <2>2, QueuedEvents
  <2>4. InodeEvent(queue, dir[n], "ATTRIB") = queue
    BY DEF InodeEvent
  <2> QED
    BY <1>4, <2>1, <2>3, <2>4 DEF Create, Unlink, Longer
<1>5. ASSUME NEW m \in Names, NEW n \in Names, Rename(m, n) PROVE Longer
  <2>1. DirEvent(queue, "MOVED_TO", n) = queue
    BY <1>1, QueuedEvents
  <2>2. \A q, o, k : k # "MODIFY" => InodeEvent(q, o, k) = q
    BY DEF InodeEvent
  <2> QED
    BY <1>5, <2>1, <2>2 DEF Rename, Longer
<1>6. CASE WriterDies \/ UNCHANGED vars
  BY <1>6 DEF WriterDies, kernelVars, vars, Longer
<1> QED
  BY <1>2, <1>3, <1>4, <1>5, <1>6

\* What others do to the file of an operand.
LEMMA OthersFile ==
  ASSUME Descriptors, Reading, ~ByName, Following, NEW i \in Operands, f[i].fd # 0,
         \/ \E ino \in Inodes : Write(ino) \/ Truncate(ino)
         \/ \E ino \in Watchable : Release(ino)
         \/ \E n \in Names : Create(n) \/ Unlink(n)
         \/ \E m, n \in Names : Rename(m, n)
         \/ WriterDies
         \/ UNCHANGED vars
  PROVE  /\ watch'[f[i].ino] = watch[f[i].ino]
         /\ Write(f[i].ino) \/ f[i].ino \in cut'
            \/ (content'[f[i].ino] = content[f[i].ino] /\ f[i].ino \notin cut)
<1> DEFINE o == f[i].ino
<1>1. /\ Held(fds, o) /\ o \in Inodes /\ o \in Watchable \cup {"dir"}
      /\ content \in [Inodes -> Seq(Nat)] /\ watch \in [Watchable \cup {"dir"} -> Nat]
  BY OpenFile DEF Held, Watchable, Reading, Contents, Unnamed
<1> HIDE DEF o
<1>2. ASSUME NEW ino \in Inodes, Write(ino)
      PROVE  Write(o) \/ o \in cut' \/ (content'[o] = content[o] /\ o \notin cut)
  BY <1>1, <1>2 DEF Write
<1>3. ASSUME NEW ino \in Inodes, Truncate(ino)
      PROVE  o \in cut' \/ (content'[o] = content[o] /\ o \notin cut)
  BY <1>1, <1>3 DEF Truncate
<1>4. ASSUME NEW n \in Names, Create(n)
      PROVE  o \in cut' \/ (content'[o] = content[o] /\ o \notin cut)
  BY <1>1, <1>4 DEF Create
<1>5. ASSUME \/ \E ino \in Watchable : Release(ino)
             \/ \E n \in Names : Unlink(n)
             \/ \E m, n \in Names : Rename(m, n)
             \/ WriterDies
             \/ UNCHANGED vars
      PROVE  o \in cut' \/ (content'[o] = content[o] /\ o \notin cut)
  <2>1. UNCHANGED <<content, cut>>
    BY <1>5 DEF Release, Unlink, Rename, WriterDies, osVars, vars
  <2> QED
    BY <2>1
<1>6. watch'[o] = watch[o]
  <2>1. ASSUME NEW ino \in Watchable, Release(ino) PROVE watch'[o] = watch[o]
    BY <1>1, <2>1 DEF Release
  <2>2. UNCHANGED watch \/ \E ino \in Watchable : Release(ino)
    BY DEF Write, Truncate, Create, Unlink, Rename, Others, WriterDies, kernelVars, vars
  <2> QED
    BY <2>1, <2>2
<1> QED
  BY <1>2, <1>3, <1>4, <1>5, <1>6 DEF o

LEMMA OthersListen ==
  ASSUME Descriptors, Reading, Plain, Listens,
         \/ \E ino \in Inodes : Write(ino) \/ Truncate(ino)
         \/ \E ino \in Watchable : Release(ino)
         \/ \E n \in Names : Create(n) \/ Unlink(n)
         \/ \E m, n \in Names : Rename(m, n)
         \/ WriterDies
         \/ UNCHANGED vars
  PROVE  Listens'
<1> DEFINE others == \/ \E ino \in Inodes : Write(ino) \/ Truncate(ino)
                     \/ \E ino \in Watchable : Release(ino)
                     \/ \E n \in Names : Create(n) \/ Unlink(n)
                     \/ \E m, n \in Names : Rename(m, n)
                     \/ WriterDies
                     \/ UNCHANGED vars
<1>1. UNCHANGED <<opt, f, table, pc, cur, ret, ev, inotify, noWriter, mixedUp>>
  BY DEF Write, Truncate, Create, Unlink, Rename, Others, Release, WriterDies, kernelVars, vars
<1>2. /\ ~ByName /\ Unnamed /\ Longer
      /\ noWriter => writer = "dead"
  BY OthersQueue DEF Plain, Reading, Listens
<1>3. /\ writer = "dead" => writer' = "dead"
      /\ writer = "dead" \/ pc = "end" => UNCHANGED <<content, cut>>
  BY DEF Write, Truncate, Create, Unlink, Rename, Others, Release, WriterDies, osVars, vars
<1>4. Polled'
  BY <1>1, <1>2, <1>3 DEF Listens, Polled, Caught
<1>5. Hears'
  <2> SUFFICES ASSUME inotify, ~mixedUp, NEW i \in Operands, Passed(i)
               PROVE  (watch[f[i].ino] = f[i].wd)' /\ Heard(i)'
    BY <1>1 DEF Hears, Passed
  <2>1. /\ Following /\ f[i].fd # 0 /\ watch[f[i].ino] = f[i].wd /\ Heard(i)
        /\ pc \notin {"watch", "watched"}
    BY DEF Listens, Hears, Modes, Following, Passed
  <2>2. f[i].wd # 0
    BY <2>1 DEF Listens, Entries
  <2> HIDE DEF others
  <2>3. /\ watch'[f[i].ino] = watch[f[i].ino]
        /\ Write(f[i].ino) \/ f[i].ino \in cut'
            \/ (content'[f[i].ino] = content[f[i].ino] /\ f[i].ino \notin cut)
    BY <1>2, <2>1, OthersFile DEF others
  <2>4. Heard(i)'
    <3>1. CASE Write(f[i].ino)
      <4>1. f[i].ino \in Watchable /\ queue \in Seq(Modified)
        BY <1>2, <2>1, OpenFile DEF Watchable, Unnamed
      <4>2. \E k \in DOMAIN queue' : queue'[k].wd = watch[f[i].ino]
        BY <1>2, <2>1, <2>2, <3>1, <4>1, Grows DEF Write
      <4> QED
        BY <1>1, <2>1, <4>2 DEF Heard
    <3>2. CASE f[i].ino \in cut'
      BY <1>1, <3>2 DEF Heard, Caught
    <3>3. CASE content'[f[i].ino] = content[f[i].ino] /\ f[i].ino \notin cut
      BY <1>1, <1>2, <2>1, <3>3 DEF Heard, Caught, Longer
    <3> QED
      BY <2>3, <3>1, <3>2, <3>3
  <2> QED
    BY <1>1, <2>1, <2>3, <2>4
<1> HIDE DEF others
<1>6. Modes' /\ Entries'
  BY <1>1 DEF Listens, Modes, Entries
<1> QED
  BY <1>1, <1>2, <1>3, <1>4, <1>5, <1>6 DEF Listens, Settled, Following

\* The operands are opened.
LEMMA StartListen ==
  ASSUME Descriptors, Reading, Plain, Listens, TailFile \/ Record \/ Choose
  PROVE  Listens'
<1>1. /\ cur \in Operands /\ 1 \in Operands /\ Operands = 1..N /\ N \in Nat /\ DOMAIN f = Operands
      /\ \A i \in Operands : Fields \cup {"ignore", "wd"} \subseteq DOMAIN f[i]
      /\ pc \in {"open", "record", "choose"} /\ ~inotify /\ UNCHANGED <<opt, writer>>
      /\ noWriter' = noWriter /\ \A i \in Operands : i \in Int
      /\ Specs /\ ~ByName /\ ~opt.retry
  <2>1. ~ByName /\ ~opt.retry /\ Table /\ Specs /\ cur \in Operands
    BY DEF Plain, Descriptors
  <2>2. /\ DOMAIN f = Operands
        /\ \A i \in Operands : Fields \cup {"ignore", "wd"} \subseteq DOMAIN f[i]
    BY <2>1 DEF Table, Listens
  <2>3. pc \in {"open", "record", "choose"} /\ UNCHANGED <<opt, writer>> /\ noWriter' = noWriter
    BY DEF TailFile, Record, Choose, osVars
  <2> QED
    BY <2>1, <2>2, <2>3, Counts DEF Listens, Modes
<1>2. CASE TailFile \/ Record
  <2>1. /\ ~inotify' /\ pc \in {"open", "record"}
        /\ \A i \in Operands : i < cur => Settled(i)
    BY <1>1, <1>2 DEF TailFile, Record, Listens
  <2>2. /\ \A i \in Operands : {"ignore", "wd"} \subseteq DOMAIN f'[i]
        /\ \A i \in Operands \ {cur} : f'[i] = f[i]
        /\ \/ Go("record", cur)
           \/ NextOperand("open", "choose") /\ (f'[cur].fd = 0 <=> f'[cur].ignore)
    <3>1. CASE Record
      <4> DEFINE r == RecordOpenFd(cur, f[cur].fd, fds[f[cur].fd].ino, ReadPos(f[cur].fd))
      <4>1. f' = [f EXCEPT ![cur] = r] /\ NextOperand("open", "choose")
        BY <3>1 DEF Record
      <4>2. DOMAIN r = DOMAIN f[cur]
        BY DEF RecordOpenFd
      <4>3. r.fd = f[cur].fd
        BY <1>1 DEF RecordOpenFd, Fields
      <4>4. ~r.ignore
        BY <1>1 DEF RecordOpenFd
      <4>5. f[cur].fd # 0
        BY <1>1, <3>1 DEF Specs, Following, Record
      <4> HIDE DEF r
      <4> QED
        BY <1>1, <4>1, <4>2, <4>3, <4>4, <4>5
    <3>2. CASE TailFile
      <4>1. f[cur].fd = 0
        BY <1>1, <3>2 DEF Specs, Following, TailFile
      <4>2. CASE \E fd : f' = [f EXCEPT ![cur].fd = fd] /\ Go("record", cur)
        BY <1>1, <4>2
      <4>3. CASE \E e : /\ f' = [f EXCEPT ![cur].errnum = e, ![cur].ignore = ~opt.retry]
                        /\ NextOperand("open", "choose")
        <5>1. PICK e : /\ f' = [f EXCEPT ![cur].errnum = e, ![cur].ignore = ~opt.retry]
                       /\ NextOperand("open", "choose")
          BY <4>3
        <5>2. f'[cur].ignore = ~opt.retry
          BY <1>1, <5>1
        <5>3. f'[cur].fd = f[cur].fd
          BY <1>1, <5>1 DEF Fields
        <5>4. \A i \in Operands : DOMAIN f'[i] = DOMAIN f[i]
          BY <1>1, <5>1
        <5> QED
          BY <1>1, <4>1, <5>1, <5>2, <5>3, <5>4
      <4> QED
        BY <3>2, <4>2, <4>3 DEF TailFile
    <3> QED
      BY <1>2, <3>1, <3>2
  <2>3. \/ pc' \in {"open", "record"} /\ cur' = cur
        \/ /\ f'[cur].fd = 0 <=> f'[cur].ignore
           /\ \/ cur < N /\ pc' = "open" /\ cur' = cur + 1
              \/ cur = N /\ pc' = "choose" /\ cur' = 1
    BY <1>1, <2>2 DEF NextOperand, Go
  <2>4. \A i \in Operands : (Following \/ i < cur)' => (f'[i].fd = 0 <=> f'[i].ignore)
    <3>1. CASE pc' \in {"open", "record"} /\ cur' = cur
      BY <1>1, <2>1, <2>2, <3>1 DEF Following, Settled
    <3>2. CASE /\ f'[cur].fd = 0 <=> f'[cur].ignore
               /\ cur < N /\ pc' = "open" /\ cur' = cur + 1
      <4>1. \A i \in Operands : i < cur + 1 => i < cur \/ i = cur
        BY <1>1
      <4> QED
        BY <2>1, <2>2, <3>2, <4>1 DEF Following, Settled
    <3>3. CASE /\ f'[cur].fd = 0 <=> f'[cur].ignore
               /\ cur = N /\ pc' = "choose" /\ cur' = 1
      <4>1. \A i \in Operands : i < cur \/ i = cur
        BY <1>1, <3>3
      <4> QED
        BY <2>1, <2>2, <3>3, <4>1 DEF Following, Settled
    <3> QED
      BY <2>3, <3>1, <3>2, <3>3
  <2>5. pc' \in {"open", "record", "choose"}
    BY <2>3
  <2> QED
    BY <1>1, <2>1, <2>2, <2>4, <2>5 DEF Listens, Modes, Polled, Hears, Entries, Settled
<1>3. CASE Choose
  <2>1. /\ f' = f /\ pc' \in {"watch", "poll"} /\ cur' = 1 /\ (inotify' <=> pc' = "watch")
        /\ inotify' => \A i \in Operands : f[i].fd # 0
        /\ \A i \in Operands : Settled(i) /\ ~(i < 1)
    BY <1>1, <1>3 DEF Choose, Go, Listens, Following
  <2> QED
    BY <1>1, <2>1 DEF Listens, Modes, Polled, Hears, Entries, Settled, Passed
<1> QED
  BY <1>2, <1>3

\* What a step leaves of operand i, when it follows descriptors.
Likewise(i) ==
  /\ DOMAIN f'[i] = DOMAIN f[i] /\ f'[i].fd = f[i].fd /\ f'[i].ino = f[i].ino
  /\ f'[i].ignore = f[i].ignore /\ f'[i].wd = f[i].wd

LEMMA Loop ==
  ASSUME Descriptors, Reading, Plain, Listens, Following
  PROVE  /\ cur \in Operands /\ 1 \in Operands /\ Operands = 1..N /\ N \in Nat
         /\ \A i \in Operands : i \in Int
         /\ DOMAIN f = Operands /\ ~ByName /\ ~opt.retry
         /\ \A i \in Operands : Settled(i) /\ Fields \cup {"ignore", "wd"} \subseteq DOMAIN f[i]
         /\ \A i \in Operands : f[i].fd # 0 => IsOpen(fds, f[i].fd)
<1>1. ~ByName /\ ~opt.retry /\ Table /\ cur \in Operands
  BY DEF Plain, Descriptors
<1>2. \A i \in Operands : f[i].fd # 0 => IsOpen(fds, f[i].fd)
  BY <1>1, OpenFile
<1> QED
  BY <1>1, <1>2, Counts DEF Listens, Table

\* Polling: a file has been read to its end, or is going to be.
LEMMA PollFileReads ==
  ASSUME Descriptors, Reading, Plain, Listens, PollFile
  PROVE  /\ Only(cur) /\ Likewise(cur)
         /\ \/ Go("dump", cur)
            \/ NextOperand("poll", "pass") /\ \A i \in Operands : i = cur => Caught(i)'
<1>1. Following /\ UNCHANGED <<content, cut>>
  BY DEF PollFile, Following, osVars
<1>2. /\ cur \in Operands /\ DOMAIN f = Operands /\ ~ByName /\ Settled(cur)
      /\ Fields \cup {"ignore", "wd"} \subseteq DOMAIN f[cur]
      /\ f[cur].fd # 0 => IsOpen(fds, f[cur].fd)
  BY <1>1, Loop
<1>3. CASE f[cur].ignore
  <2>1. f' = f /\ NextOperand("poll", "pass") /\ f[cur].fd = 0
    BY <1>2, <1>3 DEF PollFile, Settled
  <2> QED
    BY <1>2, <2>1 DEF Only, Likewise, Caught
<1>4. CASE ~f[cur].ignore
  <2>1. f[cur].fd # 0 /\ IsOpen(fds, f[cur].fd)
    BY <1>2, <1>4 DEF Settled
  <2>2. CASE Same(cur)
    <3>1. f' = [f EXCEPT ![cur].unchanged = Unchanged(cur)] /\ NextOperand("poll", "pass")
      BY <1>2, <1>4, <2>1, <2>2 DEF PollFile
    <3>2. Only(cur) /\ Likewise(cur) /\ f'[cur].size = f[cur].size
      BY <1>2, <3>1 DEF Only, Likewise, Fields
    <3>3. Caught(cur)
      BY <1>1, <1>2, <2>1, <2>2, LookedAt
    <3> QED
      BY <1>1, <3>1, <3>2, <3>3 DEF Caught, Likewise
  <2>3. CASE ~Same(cur)
    <3>1. /\ \E t : f' = [f EXCEPT ![cur].mtime = t, ![cur].unchanged = 0,
                                   ![cur].size = IF Truncated(cur) THEN 0 ELSE @]
          /\ Go("dump", cur)
      BY <1>2, <1>4, <2>1, <2>3 DEF PollFile
    <3>2. Only(cur) /\ Likewise(cur)
      BY <1>2, <3>1 DEF Only, Likewise, Fields
    <3> QED
      BY <3>1, <3>2
  <2> QED
    BY <2>2, <2>3
<1> QED
  BY <1>3, <1>4

LEMMA CheckFspecReads ==
  ASSUME Descriptors, Reading, Plain, Listens, CheckFspec
  PROVE  /\ Only(cur) /\ Likewise(cur)
         /\ \/ Go("dump", cur)
            \/ /\ IF ret = "again" THEN NextOperand("again", "events") ELSE Go("events", 1)
               /\ \A i \in Operands : i = cur => Caught(i)'
<1>1. Following /\ UNCHANGED <<content, cut>>
  BY DEF CheckFspec, Following, osVars
<1>2. /\ cur \in Operands /\ DOMAIN f = Operands /\ ~ByName
      /\ Fields \cup {"ignore", "wd"} \subseteq DOMAIN f[cur]
      /\ f[cur].fd # 0 => IsOpen(fds, f[cur].fd)
  BY <1>1, Loop
<1>3. f[cur].fd # 0
  BY <1>2 DEF Listens, Modes, CheckFspec
<1>4. /\ f' = [f EXCEPT ![cur].size = IF Truncated(cur) THEN 0 ELSE @]
      /\ IF Same(cur)
         THEN IF ret = "again" THEN NextOperand("again", "events") ELSE Go("events", 1)
         ELSE Go("dump", cur)
  BY <1>2, <1>3 DEF CheckFspec
<1>5. /\ Only(cur) /\ Likewise(cur)
      /\ f'[cur].size = IF Truncated(cur) THEN 0 ELSE f[cur].size
  BY <1>2, <1>4 DEF Only, Likewise, Fields
<1>6. /\ Same(cur) => Caught(cur)
      /\ Truncated(cur) => f[cur].ino \in cut
  BY <1>1, <1>2, <1>3, LookedAt
<1> QED
  BY <1>1, <1>4, <1>5, <1>6 DEF Caught, Likewise

LEMMA DumpAll ==
  ASSUME Descriptors, Reading, Plain, Listens, Dump
  PROVE  /\ Only(cur) /\ Likewise(cur)
         /\ \A i \in Operands : i = cur => Caught(i)'
<1>1. Following /\ UNCHANGED <<content, cut>>
  BY DEF Dump, Following, osVars
<1>2. /\ cur \in Operands /\ DOMAIN f = Operands /\ ~ByName
      /\ Fields \cup {"ignore", "wd"} \subseteq DOMAIN f[cur]
  BY <1>1, Loop
<1>3. f[cur].fd # 0
  BY <1>2 DEF Reading, Shows, Dump
<1>4. \E n : f' = [f EXCEPT ![cur].size = @ + n]
  BY DEF Dump
<1>5. Only(cur) /\ Likewise(cur)
  BY <1>2, <1>4 DEF Only, Likewise, Fields
<1> QED
  BY <1>1, <1>2, <1>3, <1>5, ReadAll DEF Likewise

LEMMA SettledStays ==
  ASSUME Listens, Following, \A i \in Operands : Likewise(i)
  PROVE  \A i \in Operands : /\ {"ignore", "wd"} \subseteq DOMAIN f'[i]
                             /\ (Following \/ i < cur)' => Settled(i)'
BY DEF Listens, Likewise, Settled

LEMMA PollingListen ==
  ASSUME Descriptors, Reading, Plain, Listens, PollFile \/ PollPass \/ (Dump /\ ~inotify)
  PROVE  Listens'
<1>1. /\ Following /\ ~inotify /\ ~inotify' /\ UNCHANGED <<opt, writer, content, cut>>
      /\ pc \in {"poll", "pass", "dump"}
  <2>1. UNCHANGED <<opt, osVars, cut, inotify>> /\ pc \in {"poll", "pass", "dump"}
    BY DEF PollFile, PollPass, Dump
  <2>2. ~inotify
    BY DEF PollFile, PollPass, Listens, Modes
  <2> QED
    BY <2>1, <2>2 DEF osVars, Following
<1>2. /\ cur \in Operands /\ 1 \in Operands /\ Operands = 1..N /\ N \in Nat
      /\ \A i \in Operands : i \in Int
      /\ ~ByName /\ ~opt.retry /\ \A i \in Operands : Settled(i)
      /\ noWriter => writer = "dead"
      /\ \A i \in Operands : noWriter /\ (pc = "pass" \/ i < cur) => Caught(i)
  <2>1. \A i \in Operands : noWriter /\ (pc = "pass" \/ i < cur) => Caught(i)
    BY <1>1 DEF Listens, Polled
  <2> QED
    BY <1>1, <2>1, Loop DEF Listens
<1>3. CASE PollFile \/ Dump
  <2>1. /\ \A i \in Operands : Likewise(i)
        /\ \A i \in Operands \ {cur} : f'[i] = f[i]
        /\ \/ Go("dump", cur) /\ PollFile
           \/ NextOperand("poll", "pass") /\ \A i \in Operands : i = cur => Caught(i)'
    <3>1. Dump => ret = "poll" /\ ~PollFile
      BY <1>1 DEF Listens, Modes, Dump, PollFile
    <3>2. Dump => NextOperand("poll", "pass")
      BY <3>1 DEF Dump
    <3>3. /\ Only(cur) /\ Likewise(cur)
          /\ \/ Go("dump", cur) /\ PollFile
             \/ NextOperand("poll", "pass") /\ \A i \in Operands : i = cur => Caught(i)'
      BY <1>3, <3>2, PollFileReads, DumpAll
    <3> QED
      BY <3>3 DEF Only, Likewise
  <2>2. noWriter' = noWriter
    BY <1>3 DEF PollFile, Dump
  <2>3. \A i \in Operands \ {cur} : Caught(i) => Caught(i)'
    BY <1>1, <2>1 DEF Caught
  <2>4. \/ pc' = "dump" /\ cur' = cur /\ PollFile
        \/ /\ \A i \in Operands : i = cur => Caught(i)'
           /\ \/ cur < N /\ pc' = "poll" /\ cur' = cur + 1
              \/ cur = N /\ pc' = "pass" /\ cur' = 1
    BY <1>2, <2>1 DEF NextOperand, Go
  <2>5. Polled'
    <3>1. CASE pc' = "dump" /\ cur' = cur
      <4>1. \A i \in Operands : i < cur => i # cur
        BY <1>2
      <4> QED
        BY <1>1, <1>2, <2>2, <2>3, <3>1, <4>1 DEF Polled
    <3>2. CASE /\ \A i \in Operands : i = cur => Caught(i)'
               /\ cur < N /\ pc' = "poll" /\ cur' = cur + 1
      <4>1. \A i \in Operands : i < cur + 1 => i < cur \/ i = cur
        BY <1>2
      <4>2. \A i \in Operands : i < cur => i # cur
        BY <1>2
      <4>3. \A i \in Operands : noWriter /\ i < cur + 1 => Caught(i)'
        BY <1>2, <2>3, <3>2, <4>1, <4>2
      <4> QED
        BY <2>2, <3>2, <4>3 DEF Polled
    <3>3. CASE /\ \A i \in Operands : i = cur => Caught(i)'
               /\ cur = N /\ pc' = "pass" /\ cur' = 1
      <4>1. \A i \in Operands : i < cur \/ i = cur
        BY <1>2, <3>3
      <4>2. \A i \in Operands : i < cur => i # cur
        BY <1>2
      <4>3. \A i \in Operands : noWriter => Caught(i)'
        BY <1>2, <2>3, <3>3, <4>1, <4>2
      <4> QED
        BY <2>2, <3>3, <4>3 DEF Polled
    <3> QED
      BY <2>4, <3>1, <3>2, <3>3
  <2>6. Modes'
    <3>1. pc' \in {"dump", "poll", "pass"}
      BY <2>4
    <3>2. pc' = "dump" => ret' = "poll"
      BY <2>4 DEF PollFile
    <3> QED
      BY <1>1, <3>1, <3>2 DEF Modes
  <2> QED
    BY <1>1, <1>2, <2>1, <2>2, <2>5, <2>6, SettledStays DEF Listens, Hears, Entries
<1>4. CASE PollPass
  <2>1. f' = f /\ \A i \in Operands : Likewise(i)
    BY <1>4 DEF PollPass, Likewise
  <2>2. noWriter' => writer' = "dead"
    BY <1>1, <1>2, <1>4 DEF PollPass
  <2>3. CASE pc' = "end" /\ (~AnyLive \/ noWriter)
    <3>1. \A i \in Operands : Caught(i)
      BY <1>2, <1>4, <2>3 DEF AnyLive, Caught, PollPass
    <3>2. \A i \in Operands : Caught(i)'
      BY <1>1, <2>1, <3>1 DEF Caught
    <3> QED
      BY <1>1, <2>1, <2>2, <2>3, <3>2, SettledStays DEF Listens, Modes, Polled, Hears, Entries
  <2>4. CASE pc' = "poll" /\ cur' = 1
    <3>1. \A i \in Operands : ~(i < 1)
      BY <1>2
    <3> QED
      BY <1>1, <2>1, <2>2, <2>4, <3>1, SettledStays DEF Listens, Modes, Polled, Hears, Entries
  <2> QED
    BY <1>4, <2>3, <2>4 DEF PollPass, Stop, Go
<1> QED
  BY <1>3, <1>4

\* With inotify: a look at an operand ends with all read, or with its reading.
LEMMA EntriesStay ==
  ASSUME Listens, \A i \in Operands : Likewise(i), table' = table, inotify' => inotify,
         mixedUp => mixedUp', pc \notin {"watch", "watched"}, pc' \notin {"watch", "watched"}
  PROVE  Entries'
<1> SUFFICES ASSUME inotify', ~mixedUp' PROVE Entries'
  BY DEF Entries
<1>1. /\ \A i \in Operands : f[i].wd # 0 /\ i \in table
      /\ \A i, j \in Operands : f[i].wd = f[j].wd => i = j
  BY DEF Listens, Entries
<1>2. \A i \in Operands : f'[i].wd = f[i].wd
  BY DEF Likewise
<1> QED
  BY <1>1, <1>2 DEF Entries

LEMMA ReadingListens ==
  ASSUME Descriptors, Reading, Plain, Listens, CheckFspec \/ (Dump /\ inotify)
  PROVE  Listens'
<1>1. /\ Following /\ inotify /\ inotify' /\ pc \in {"stat", "dump"}
      /\ UNCHANGED <<opt, writer, content, cut, noWriter, watch, queue, table, ret, ev, mixedUp>>
  <2>1. /\ UNCHANGED <<opt, osVars, cut, inotify, noWriter, watch, queue, table, ret, ev, mixedUp>>
        /\ pc \in {"stat", "dump"}
    BY DEF CheckFspec, Dump
  <2>2. inotify
    BY DEF CheckFspec, Listens, Modes
  <2> QED
    BY <2>1, <2>2 DEF osVars, Following
<1>2. /\ cur \in Operands /\ 1 \in Operands /\ Operands = 1..N /\ N \in Nat
      /\ \A i \in Operands : i \in Int
      /\ ~ByName /\ ~opt.retry
      /\ \A i \in Operands : f[i].fd # 0
      /\ noWriter => writer = "dead"
      /\ ret \in {"events", "again"}
  <2>1. ret \in {"events", "again"}
    BY <1>1 DEF Listens, Modes, Descriptors
  <2> QED
    BY <1>1, <2>1, Loop DEF Listens
<1>3. /\ \A i \in Operands : Likewise(i)
      /\ \A i \in Operands \ {cur} : f'[i] = f[i]
      /\ \/ Go("dump", cur)
         \/ /\ \A i \in Operands : i = cur => Caught(i)'
            /\ \/ ret = "again" /\ NextOperand("again", "events")
               \/ ret = "events" /\ Go("events", 1)
  <2>1. Dump => \/ ret = "again" /\ NextOperand("again", "events")
                \/ ret = "events" /\ Go("events", 1)
    BY <1>2 DEF Dump
  <2>2. /\ Only(cur) /\ Likewise(cur)
        /\ \/ Go("dump", cur)
           \/ /\ \A i \in Operands : i = cur => Caught(i)'
              /\ \/ ret = "again" /\ NextOperand("again", "events")
                 \/ ret = "events" /\ Go("events", 1)
    <3>1. CASE Dump
      BY <2>1, <3>1, DumpAll
    <3>2. CASE CheckFspec
      BY <1>2, <3>2, CheckFspecReads
    <3> QED
      BY <3>1, <3>2
  <2> QED
    BY <2>2 DEF Only, Likewise
<1>4. \/ pc' = "dump" /\ cur' = cur
      \/ /\ \A i \in Operands : i = cur => Caught(i)'
         /\ \/ ret = "again" /\ cur < N /\ pc' = "again" /\ cur' = cur + 1
            \/ ret = "again" /\ cur = N /\ pc' = "events" /\ cur' = 1
            \/ ret = "events" /\ pc' = "events" /\ cur' = 1
  BY <1>2, <1>3 DEF NextOperand, Go
<1>5. Hears'
  <2> SUFFICES ASSUME ~mixedUp, NEW i \in Operands, Passed(i)'
               PROVE  (watch[f[i].ino] = f[i].wd)' /\ Heard(i)'
    BY <1>1 DEF Hears
  <2>1. Passed(i)
    <3>1. CASE pc' = "dump" /\ cur' = cur
      BY <1>1, <3>1 DEF Passed
    <3>2. CASE ret = "again" /\ cur < N /\ pc' = "again" /\ cur' = cur + 1
      <4>1. i < cur + 1 => i <= cur
        BY <1>2
      <4> QED
        BY <1>1, <3>2, <4>1 DEF Passed
    <3>3. CASE ret = "again" /\ cur = N /\ pc' = "events" /\ cur' = 1
      <4>1. i <= cur
        BY <1>2, <3>3
      <4> QED
        BY <1>1, <3>3, <4>1 DEF Passed
    <3>4. CASE ret = "events" /\ pc' = "events" /\ cur' = 1
      BY <1>1, <3>4 DEF Passed
    <3> QED
      BY <1>4, <3>1, <3>2, <3>3, <3>4
  <2>2. watch[f[i].ino] = f[i].wd /\ Heard(i)
    BY <1>1, <2>1 DEF Listens, Hears
  <2>3. (watch[f[i].ino] = f[i].wd)'
    BY <1>1, <1>3, <2>2 DEF Likewise
  <2>4. Heard(i)'
    <3>1. CASE i = cur
      BY <1>4, <3>1 DEF Heard
    <3>2. CASE i # cur
      <4>1. Caught(i) \/ \E k \in DOMAIN queue : queue[k].wd = f[i].wd
        BY <1>1, <2>2, <3>2 DEF Heard
      <4> QED
        BY <1>1, <1>3, <3>2, <4>1 DEF Heard, Caught
    <3> QED
      BY <3>1, <3>2
  <2> QED
    BY <2>3, <2>4
<1>6. Modes' /\ Polled'
  <2>1. pc' \in {"dump", "again", "events"}
    BY <1>4
  <2> QED
    BY <1>1, <1>2, <2>1 DEF Modes, Polled
<1>7. Entries'
  <2>1. pc' \notin {"watch", "watched"}
    BY <1>4
  <2> QED
    BY <1>1, <1>3, <2>1, EntriesStay
<1> QED
  BY <1>1, <1>2, <1>3, <1>5, <1>6, <1>7, SettledStays DEF Listens, Likewise

\* Back to polling, with nothing known of the writer.
LEMMA RevertListens ==
  ASSUME Listens, Following, RevertToPolling, UNCHANGED <<f, writer>>, 1 \in Operands
  PROVE  Listens'
<1>1. pc' = "poll" /\ cur' = 1 /\ ~inotify' /\ ~noWriter'
  BY DEF RevertToPolling, Go
<1>2. \A i \in Operands : Likewise(i)
  BY DEF Likewise
<1> QED
  BY <1>1, <1>2, SettledStays DEF Listens, Modes, Polled, Hears, Entries

\* The watches are added.
LEMMA WatchListens ==
  ASSUME Descriptors, Reading, Plain, Listens, WatchOperand \/ Watched
  PROVE  Listens'
<1>1. /\ Following /\ inotify /\ pc \in {"watch", "watched"}
      /\ UNCHANGED <<opt, writer>>
  <2>1. UNCHANGED <<opt, osVars>> /\ pc \in {"watch", "watched"}
    BY DEF WatchOperand, Watched
  <2> QED
    BY <2>1 DEF osVars, Following, Listens, Modes
<1>2. /\ cur \in Operands /\ 1 \in Operands /\ Operands = 1..N /\ N \in Nat
      /\ \A i \in Operands : i \in Int
      /\ DOMAIN f = Operands /\ ~ByName
      /\ \A i \in Operands : /\ f[i].fd # 0 /\ ~f[i].ignore
                             /\ Fields \cup {"ignore", "wd"} \subseteq DOMAIN f[i]
      /\ noWriter => writer = "dead"
  BY <1>1, Loop DEF Listens, Settled
<1>3. CASE Watched
  <2>1. CASE \E i \in Operands : ~f[i].ignore /\ f[i].fd # 0 /\ f[i].wd = 0
    BY <1>1, <1>2, <1>3, <2>1, RevertListens DEF Watched
  <2>2. CASE \A i \in Operands : f[i].wd # 0
    <3>1. /\ Go("again", 1) /\ UNCHANGED <<inotify, noWriter, f, table, mixedUp>>
      BY <1>2, <1>3, <2>2 DEF Watched
    <3>2. \A i \in Operands : Likewise(i) /\ ~(i < 1)
      BY <1>2, <3>1 DEF Likewise
    <3>3. Entries'
      <4>1. pc = "watched" /\ pc' = "again"
        BY <1>3, <3>1 DEF Watched, Go
      <4> QED
        BY <2>2, <3>1, <4>1 DEF Listens, Entries
    <3>4. Modes' /\ Polled' /\ Hears'
      BY <1>1, <3>1, <3>2 DEF Modes, Polled, Hears, Passed, Go
    <3> QED
      BY <1>1, <1>2, <3>1, <3>2, <3>3, <3>4, SettledStays DEF Listens
  <2> QED
    BY <1>2, <2>1, <2>2
<1>4. CASE WatchOperand
  <2>1. CASE RevertToPolling /\ UNCHANGED f
    BY <1>1, <1>2, <2>1, RevertListens
  <2>2. CASE \E wd, can :
               /\ f' = [f EXCEPT ![cur].wd = wd, ![cur].parent = FALSE]
               /\ (~can => wd = 0)
               /\ table' = IF can /\ Lookup(table, wd) = {} THEN table \cup {cur} ELSE table
               /\ mixedUp' = (mixedUp \/ (can /\ Lookup(table, wd) # {}))
               /\ NextOperand("watch", "watched")
               /\ UNCHANGED <<inotify, noWriter>>
    <3>1. PICK wd, can :
               /\ f' = [f EXCEPT ![cur].wd = wd, ![cur].parent = FALSE]
               /\ (~can => wd = 0)
               /\ table' = IF can /\ Lookup(table, wd) = {} THEN table \cup {cur} ELSE table
               /\ mixedUp' = (mixedUp \/ (can /\ Lookup(table, wd) # {}))
               /\ NextOperand("watch", "watched")
               /\ UNCHANGED <<inotify, noWriter>>
      BY <2>2
    <3>2. /\ \A i \in Operands : /\ DOMAIN f'[i] = DOMAIN f[i] /\ f'[i].fd = f[i].fd
                                 /\ f'[i].ignore = f[i].ignore
          /\ \A i \in Operands \ {cur} : f'[i].wd = f[i].wd
          /\ f'[cur].wd = wd
      BY <1>2, <3>1 DEF Fields
    <3>3. \/ cur < N /\ pc' = "watch" /\ cur' = cur + 1
          \/ cur = N /\ pc' = "watched" /\ cur' = 1
      BY <1>2, <3>1 DEF NextOperand, Go
    <3>4. \A i \in Operands : (pc' = "watch" => i < cur') => i < cur \/ i = cur
      <4>1. CASE pc' = "watch" /\ cur' = cur + 1
        BY <1>2, <4>1
      <4>2. CASE cur = N
        BY <1>2, <4>2
      <4> QED
        BY <3>3, <4>1, <4>2
    <3>5. Entries'
      <4> SUFFICES ASSUME ~mixedUp' PROVE Entries'
        BY DEF Entries
      <4>1. /\ ~mixedUp /\ ~(can /\ Lookup(table, wd) # {})
            /\ wd # 0 => Lookup(table, wd) = {} /\ table' = table \cup {cur}
            /\ table \subseteq table'
        BY <3>1
      <4>2. /\ \A i \in Operands : i < cur /\ f[i].wd # 0 => i \in table
            /\ \A i, j \in Operands : i < cur /\ j < cur /\ f[i].wd # 0 /\ f[i].wd = f[j].wd => i = j
        BY <1>1, <1>4, <4>1 DEF Listens, Entries, WatchOperand
      <4>3. ASSUME NEW i \in Operands, i < cur, wd # 0 PROVE f[i].wd # wd
        BY <4>1, <4>2, <4>3 DEF Lookup
      <4>4. \A i \in Operands : i < cur => i # cur
        BY <1>2
      <4>5. \A i \in Operands : (pc' = "watch" => i < cur') /\ f'[i].wd # 0 => i \in table'
        BY <3>2, <3>4, <4>1, <4>2, <4>4
      <4>6. ASSUME NEW i \in Operands, NEW j \in Operands, i < cur \/ i = cur, j < cur \/ j = cur,
                   f'[i].wd # 0, f'[i].wd = f'[j].wd
            PROVE  i = j
        <5>1. CASE i < cur /\ j < cur
          BY <3>2, <4>2, <4>4, <4>6, <5>1
        <5>2. CASE i < cur /\ j = cur
          BY <3>2, <4>3, <4>4, <4>6, <5>2
        <5>3. CASE i = cur /\ j < cur
          BY <3>2, <4>3, <4>4, <4>6, <5>3
        <5> QED
          BY <4>6, <5>1, <5>2, <5>3
      <4>7. pc' \in {"watch", "watched"}
        BY <3>3
      <4> QED
        BY <3>4, <4>5, <4>6, <4>7 DEF Entries
    <3>6. pc' \in {"watch", "watched"} /\ UNCHANGED <<inotify, noWriter>>
      BY <3>1, <3>3
    <3>7. Modes' /\ Polled' /\ Hears'
      BY <1>1, <3>6 DEF Modes, Polled, Hears, Passed
    <3>8. \A i \in Operands : /\ {"ignore", "wd"} \subseteq DOMAIN f'[i] /\ Settled(i)'
                              /\ f'[i].fd # 0
      BY <1>2, <3>2 DEF Settled
    <3> QED
      BY <1>1, <1>2, <3>5, <3>6, <3>7, <3>8 DEF Listens
  <2> QED
    <3>1. PICK enough \in Enough :
            \/ ~enough /\ RevertToPolling /\ UNCHANGED f
            \/ LET w   == IF ByName THEN AddWatch(watch, "dir") ELSE watch
                   n   == IF w # watch THEN nextWd + 1 ELSE nextWd
                   o   == Target(cur)
                   can == Errno(cur) = "0"
                   wd  == CASE ~can -> 0 [] can /\ w[o] # 0 -> w[o] [] OTHER -> n
               IN /\ f' = [f EXCEPT ![cur].wd = wd, ![cur].parent = ByName]
                  /\ table' = IF can /\ Lookup(table, wd) = {} THEN table \cup {cur} ELSE table
                  /\ mixedUp' = (mixedUp \/ (can /\ Lookup(table, wd) # {}))
                  /\ NextOperand("watch", "watched")
                  /\ UNCHANGED <<inotify, noWriter>>
      BY <1>2, <1>4 DEF WatchOperand
    <3> QED
      BY <1>2, <2>1, <2>2, <3>1
<1> QED
  BY <1>3, <1>4

\* Every operand is looked at once more.
LEMMA AgainListens ==
  ASSUME Descriptors, Reading, Plain, Listens, Again
  PROVE  Listens'
<1>1. pc = "again" /\ UNCHANGED <<opt, osVars, cut>>
  BY DEF Again
<1>2. /\ Following /\ inotify /\ pc = "again" /\ UNCHANGED <<opt, writer, cut>>
  BY <1>1 DEF osVars, Following, Listens, Modes
<1>3. /\ cur \in Operands /\ 1 \in Operands /\ \A i \in Operands : i \in Int
      /\ ~ByName /\ \A i \in Operands : f[i].fd # 0 /\ ~f[i].ignore
      /\ noWriter => writer = "dead"
  BY <1>2, Loop DEF Listens, Settled
<1>4. CASE RevertToPolling
  <2>1. UNCHANGED f
    BY <1>3, <1>4 DEF Again
  <2> QED
    BY <1>2, <1>3, <1>4, <2>1, RevertListens
<1>5. CASE ~RevertToPolling
  <2>1. /\ Go("stat", cur) /\ ret' = "again"
        /\ mixedUp' = (mixedUp \/ (f[cur].fd # 0 /\ watch[f[cur].ino] # f[cur].wd))
        /\ UNCHANGED <<inotify, noWriter, f, watch, queue, table, content, cut>>
    BY <1>3, <1>5 DEF Again, LookAgain, osVars
  <2>2. \A i \in Operands : Likewise(i)
    BY <2>1 DEF Likewise
  <2>3. Hears'
    <3> SUFFICES ASSUME ~mixedUp', NEW i \in Operands, i <= cur
                 PROVE  (watch[f[i].ino] = f[i].wd)' /\ Heard(i)'
      BY <2>1 DEF Hears, Passed, Go
    <3>1. CASE i = cur
      BY <1>3, <2>1, <3>1 DEF Heard, Go
    <3>2. CASE i # cur
      <4>1. i < cur /\ ~mixedUp
        <5>1. ~mixedUp
          BY <2>1
        <5>2. i < cur
          BY <1>3, <3>2
        <5> QED
          BY <5>1, <5>2
      <4>2. watch[f[i].ino] = f[i].wd /\ Heard(i)
        BY <1>2, <4>1 DEF Listens, Hears, Passed
      <4> QED
        BY <1>2, <2>1, <4>2 DEF Heard, Caught
    <3> QED
      BY <3>1, <3>2
  <2>4. Modes' /\ Polled'
    BY <1>2, <2>1 DEF Modes, Polled, Go
  <2>5. Entries'
    BY <1>2, <2>1, <2>2, EntriesStay DEF Go
  <2> QED
    BY <1>2, <1>3, <2>1, <2>2, <2>3, <2>4, <2>5, SettledStays DEF Listens
<1> QED
  BY <1>4, <1>5

\* The events are read one by one, and each leads to a look at its operand.
LEMMA EventListens ==
  ASSUME Descriptors, Reading, Plain, Listens, CheckWriter \/ Wait \/ FileEvent
  PROVE  Listens'
<1>1. /\ UNCHANGED <<opt, osVars, f, watch, inotify, cut, mixedUp>>
      /\ pc \in {"events", "wait", "event"} /\ pc' \in {"events", "wait", "event", "stat", "end"}
  BY DEF CheckWriter, Wait, FileEvent, Go, Renaming, Reading, Unnamed, Modified, Plain, kernelVars
<1>2. /\ Following /\ inotify /\ inotify' /\ UNCHANGED <<writer, content>>
      /\ \A i \in Operands : Likewise(i)
      /\ cur \in Operands /\ ~ByName /\ \A i \in Operands : f[i].fd # 0
      /\ Unnamed /\ (noWriter => writer = "dead")
  BY <1>1 DEF osVars, Following, Listens, Modes, Likewise, Descriptors, Reading, Plain
<1>3. /\ table' = table /\ (noWriter' => writer' = "dead")
      /\ pc' \in {"wait", "event", "stat"} => ret' = "events"
      /\ pc' = "stat" => FileEvent
  <2>1. CASE CheckWriter
    BY <1>2, <2>1 DEF CheckWriter, Go
  <2>2. CASE Wait
    BY <1>2, <2>2 DEF Wait, Go, Listens, Modes
  <2>3. CASE FileEvent
    BY <1>2, <2>3 DEF FileEvent, Go, Listens, Modes, Unnamed, Modified
  <2> QED
    BY <2>1, <2>2, <2>3
<1>4. Modes' /\ Polled'
  BY <1>1, <1>2, <1>3 DEF Modes, Polled
<1>5. Entries'
  BY <1>1, <1>2, <1>3, EntriesStay
<1>6. Hears'
  <2> SUFFICES ASSUME ~mixedUp, NEW i \in Operands
               PROVE  Heard(i)'
    BY <1>1, <1>2 DEF Hears, Listens, Passed
  <2>1. Heard(i)
    BY <1>1, <1>2 DEF Listens, Hears, Passed
  <2>2. \/ Caught(i)
        \/ \E k \in DOMAIN queue : queue[k].wd = f[i].wd
        \/ pc = "event" /\ ev.wd = f[i].wd
    BY <1>1, <2>1 DEF Heard
  <2>3. CASE Caught(i)
    BY <1>1, <1>2, <2>3 DEF Heard, Caught
  <2>4. CASE \E k \in DOMAIN queue : queue[k].wd = f[i].wd
    <3>1. CASE CheckWriter \/ FileEvent
      BY <1>1, <2>4, <3>1 DEF Heard, CheckWriter, FileEvent, kernelVars
    <3>2. CASE Wait
      <4>1. queue \in Seq(Modified) /\ queue # << >>
        BY <1>2, <2>4 DEF Unnamed
      <4>2. ev' = Head(queue) /\ queue' = Tail(queue) /\ pc' = "event"
        BY <3>2, <4>1 DEF Wait, Go
      <4>3. PICK k \in DOMAIN queue : queue[k].wd = f[i].wd
        BY <2>4
      <4>4. CASE k = 1
        BY <1>1, <4>1, <4>2, <4>3, <4>4 DEF Heard
      <4>5. CASE k # 1
        <5>1. k - 1 \in DOMAIN Tail(queue) /\ Tail(queue)[k - 1] = queue[k]
          BY <4>1, <4>5
        <5> QED
          BY <1>1, <4>2, <4>3, <5>1 DEF Heard
      <4> QED
        BY <4>4, <4>5
    <3> QED
      BY <3>1, <3>2
  <2>5. CASE pc = "event" /\ ev.wd = f[i].wd
    <3>1. FileEvent /\ ev.mask = "MODIFY"
      BY <1>2, <2>5 DEF CheckWriter, Wait, Unnamed, Modified
    <3>2. /\ i \in table /\ f[i].wd # 0
          /\ \A j \in Operands : f[j].wd = f[i].wd => j = i
      BY <1>2, <2>5 DEF Listens, Entries
    <3>3. /\ Lookup(table, ev.wd) # {}
          /\ \A j \in Lookup(table, ev.wd) : j = i
      BY <2>5, <3>2 DEF Lookup, Descriptors
    <3>4. pc' = "stat" /\ cur' = i
      BY <3>1, <3>3 DEF FileEvent, Renaming, Go
    <3> QED
      BY <3>4 DEF Heard
  <2> QED
    BY <2>2, <2>3, <2>4, <2>5
<1> QED
  BY <1>1, <1>2, <1>3, <1>4, <1>5, <1>6, SettledStays DEF Listens, Likewise

LEMMA NextListens ==
  ASSUME Descriptors, Reading, Plain, Listens, [Next]_vars
  PROVE  Listens'
<1>1. ~(NameEvent \/ Moved \/ RecheckNamed \/ RecheckLast)
  BY DEF Plain, Reading, Unnamed, Modified, NameEvent, Moved, RecheckNamed, RecheckLast
<1>2. CASE TailStep
  BY <1>1, <1>2, StartListen, PollingListen, ReadingListens, WatchListens, AgainListens,
     EventListens DEF TailStep
<1>3. CASE \/ \E ino \in Inodes : Write(ino) \/ Truncate(ino)
           \/ \E ino \in Watchable : Release(ino)
           \/ \E n \in Names : Create(n) \/ Unlink(n)
           \/ \E m, n \in Names : Rename(m, n)
           \/ WriterDies
           \/ UNCHANGED vars
  BY <1>3, OthersListen
<1> QED
  BY <1>2, <1>3 DEF Next

LEMMA NextPlain ==
  ASSUME [Next]_vars
  PROVE  UNCHANGED opt /\ (Plain' => Plain)
<1>1. UNCHANGED opt
  <2>1. CASE TailStep
    BY <2>1 DEF TailStep, TailFile, Record, Choose, Dump, PollFile, PollPass, WatchOperand,
       Watched, Again, CheckFspec, CheckWriter, Wait, NameEvent, Moved, RecheckNamed, FileEvent,
       RecheckLast
  <2>2. CASE ~TailStep
    BY <2>2 DEF Next, Write, Truncate, Create, Unlink, Rename, Others, Release, WriterDies, vars
  <2> QED
    BY <2>1, <2>2
<1> QED
  BY <1>1 DEF Plain, ByName

LEMMA InitListens ==
  ASSUME Init
  PROVE  Listens
<1>1. /\ f = [i \in Operands |-> NewSpec] /\ pc = "open" /\ cur = 1 /\ ~inotify /\ ~noWriter
  BY DEF Init
<1>2. \A i \in Operands : {"ignore", "wd"} \subseteq DOMAIN f[i] /\ ~(i < 1)
  BY <1>1, Counts DEF NewSpec
<1> QED
  BY <1>1, <1>2 DEF Listens, Modes, Polled, Hears, Entries, Following

\* Without --retry, when tail that follows descriptors ends because the writer is dead, all
\* that was written has been shown, but for that of which events are unread (tail_forever's
\* last pass, tail.c:1157-1317; check_fspec, 1404-1450, and the watches and the events of
\* tail_forever_inotify, 1492-1807).
THEOREM LastWordsShown == Spec => []WriterHeard
<1>1. Init => (Plain => Listens)
  BY InitListens
<1>2. (Plain => Listens) /\ (Descriptors /\ Reading) /\ [Next]_vars => (Plain => Listens)'
  <2> SUFFICES ASSUME Plain => Listens, Descriptors, Reading, [Next]_vars, Plain'
               PROVE  Listens'
    OBVIOUS
  <2>1. Plain
    BY NextPlain
  <2> QED
    BY <2>1, NextListens
<1>3. (Plain => Listens) /\ (Descriptors /\ Reading) => WriterHeard
  <2> SUFFICES ASSUME Listens, Plain, Descriptors, Reading, pc = "end", ~mixedUp, queue = << >>,
                      NEW i \in Operands, f[i].fd # 0, f[i].ino \notin cut
               PROVE  Shown(i, f[i].ino)
    BY DEF WriterHeard, Plain
  <2>1. ~ByName /\ Following
    BY DEF Plain, Following
  <2>2. Caught(i)
    BY DEF Listens, Polled, Hears, Heard, Passed
  <2>3. /\ out[i] \in Seq(Nat) /\ content[f[i].ino] \in Seq(Nat)
        /\ Len(out[i]) = f[i].size /\ f[i].size = Len(content[f[i].ino])
        /\ \A k \in 1..f[i].size : out[i][k] = content[f[i].ino][k]
    <3>1. Known(i) /\ Shown1(i) /\ out[i] \in Seq(Nat) /\ content[f[i].ino] \in Seq(Nat)
      BY <2>1, OpenFile DEF Descriptors, Specs, Reading, Shows
    <3>2. Follows(out[i], f[i].ino, f[i].size)
      BY <3>1 DEF Known, Shown1
    <3> QED
      BY <2>2, <3>1, <3>2 DEF Follows, Caught
  <2> DEFINE s == out[i]  c == content[f[i].ino]
  <2>4. DOMAIN s = DOMAIN c /\ \A k \in DOMAIN c : s[k] = c[k]
    BY <2>3
  <2> HIDE DEF s, c
  <2>5. ToSet(c) \subseteq ToSet(s)
    BY <2>4 DEF ToSet
  <2> QED
    BY <2>5 DEF Shown, s, c
<1> QED
  BY <1>1, <1>2, <1>3, Invariants, PTL DEF Spec
=============================================================================
