--------------------------- MODULE SortTempsProofs ---------------------------
(***************************************************************************)
(* Theorems about SortTemps, for any command lines and any number of files *)
(* and processes: however sort ends, no temporary file is left behind;     *)
(* there are never more child processes than pipe_fork allows; their       *)
(* failures are reported; every temporary file is kept until it has been   *)
(* read; and the output has all the lines, in order.                       *)
(***************************************************************************)
EXTENDS SortTemps, FiniteSetTheorems, SequenceTheorems, WellFoundedInduction, TLAPS

-----------------------------------------------------------------------------
(* The inductive invariant.  While sort runs, every temporary file that    *)
(* has a name is in the list, or in the saved list while fork runs, or has *)
(* just been created; and where the list does not tell, signals are        *)
(* blocked.                                                                *)

Critical == {"created", "forked", "unlinked"}

Typed ==
  /\ made \in Nat
  /\ temphead \in Seq(Temps) /\ hidden \in Seq(Temps)
  /\ pc = "created" => target \in Temps

Listed ==
  linked \cap Temps \subseteq
    ToSet(temphead) \cup ToSet(hidden) \cup (IF pc = "created" THEN {target} ELSE {})

Masked ==
  /\ pc \in Critical => blocked
  /\ IF pc = "forked" THEN temphead = << >> ELSE hidden = << >>
  /\ pc = "unlinked" => ZapPlaces # {} /\ Zapped \notin linked

Inv ==
  /\ Typed
  /\ outcome = "running" => Listed /\ Masked
  /\ NoTempLeft

-----------------------------------------------------------------------------
(* Lists as sets.                                                          *)

LEMMA SetOfEmpty == ToSet(<< >>) = {}
BY DEF ToSet

LEMMA SetOfAppend ==
  ASSUME NEW s \in Seq(Temps), NEW e \in Temps
  PROVE  Append(s, e) \in Seq(Temps) /\ ToSet(Append(s, e)) = ToSet(s) \cup {e}
<1> DEFINE r == Append(s, e)
<1>1. /\ r \in Seq(Temps) /\ DOMAIN r = 1..(Len(s) + 1) /\ DOMAIN s = 1..Len(s)
      /\ Len(s) \in Nat
      /\ \A i \in 1..Len(s) : r[i] = s[i]
      /\ r[Len(s) + 1] = e
  OBVIOUS
<1>2. \A x \in ToSet(r) : x \in ToSet(s) \cup {e}
  BY <1>1 DEF ToSet
<1>3. \A x \in ToSet(s) : x \in ToSet(r)
  BY <1>1 DEF ToSet
<1>4. e \in ToSet(r)
  BY <1>1 DEF ToSet
<1> QED
  BY <1>1, <1>2, <1>3, <1>4

\* Taking one place out of a list loses no other file.
LEMMA SetOfRemove ==
  ASSUME NEW s \in Seq(Temps), NEW k \in DOMAIN s
  PROVE  /\ RemoveAt(s, k) \in Seq(Temps)
         /\ ToSet(s) \ {s[k]} \subseteq ToSet(RemoveAt(s, k))
<1> DEFINE a == SubSeq(s, 1, k - 1)
           b == SubSeq(s, k + 1, Len(s))
           r == a \o b
<1>1. Len(s) \in Nat /\ DOMAIN s = 1..Len(s) /\ k \in 1..Len(s)
  OBVIOUS
<1>2. /\ a \in Seq(Temps) /\ Len(a) = k - 1
      /\ \A i \in 1..(k - 1) : a[i] = s[i]
  BY <1>1
<1>3. /\ b \in Seq(Temps) /\ Len(b) = Len(s) - k
      /\ \A i \in 1..(Len(s) - k) : b[i] = s[k + i]
  BY <1>1
<1> HIDE DEF a, b
<1>4. /\ r \in Seq(Temps) /\ DOMAIN r = 1..(Len(s) - 1)
      /\ \A i \in 1..(k - 1) : r[i] = a[i]
      /\ \A i \in 1..(Len(s) - k) : r[k - 1 + i] = b[i]
  <2>1. /\ r \in Seq(Temps) /\ Len(r) = Len(a) + Len(b)
        /\ \A i \in 1..(Len(a) + Len(b)) :
             r[i] = IF i <= Len(a) THEN a[i] ELSE b[i - Len(a)]
    BY <1>2, <1>3
  <2>2. Len(r) = Len(s) - 1 /\ DOMAIN r = 1..Len(r)
    BY <1>1, <1>2, <1>3, <2>1
  <2>3. \A i \in 1..(k - 1) : r[i] = a[i]
    BY <1>1, <1>2, <1>3, <2>1
  <2>4. ASSUME NEW i \in 1..(Len(s) - k)
        PROVE  r[k - 1 + i] = b[i]
    <3>1. /\ Len(a) = k - 1 /\ Len(b) = Len(s) - k /\ k \in Int /\ i \in Int
          /\ Len(s) \in Nat /\ 1 <= k /\ 1 <= i /\ i <= Len(s) - k
      BY <1>1, <1>2, <1>3
    <3>2. k - 1 + i \in 1..(Len(a) + Len(b))
      BY <3>1
    <3>3. ~(k - 1 + i <= Len(a)) /\ k - 1 + i - Len(a) = i
      BY <3>1
    <3> HIDE DEF r
    <3> QED
      BY <2>1, <3>2, <3>3
  <2> QED
    BY <2>1, <2>2, <2>3, <2>4
<1> HIDE DEF r
<1>5. ASSUME NEW i \in 1..Len(s), i # k
      PROVE  \E j \in DOMAIN r : r[j] = s[i]
  <2>1. CASE i < k
    <3>1. i \in DOMAIN r /\ r[i] = s[i]
      BY <1>1, <1>2, <1>4, <2>1
    <3> QED
      BY <3>1
  <2>2. CASE i > k
    <3>1. i - k \in 1..(Len(s) - k) /\ k - 1 + (i - k) = i - 1 /\ k + (i - k) = i
      BY <1>1, <2>2
    <3>2. r[i - 1] = b[i - k] /\ b[i - k] = s[i]
      BY <1>3, <1>4, <3>1
    <3>3. i - 1 \in DOMAIN r
      BY <1>1, <1>4, <2>2
    <3> QED
      BY <3>2, <3>3
  <2> QED
    BY <1>1, <1>5, <2>1, <2>2
<1>6. RemoveAt(s, k) = r
  BY DEF RemoveAt, a, b, r
<1>7. ASSUME NEW x \in ToSet(s), x # s[k]
      PROVE  x \in ToSet(r)
  <2>1. PICK i \in 1..Len(s) : x = s[i]
    BY <1>1, <1>7 DEF ToSet
  <2>2. PICK j \in DOMAIN r : r[j] = s[i]
    BY <1>5, <1>7, <2>1
  <2> QED
    BY <2>1, <2>2 DEF ToSet
<1> QED
  BY <1>4, <1>6, <1>7

-----------------------------------------------------------------------------
(* Steps that touch neither the files nor the list.                        *)

Quiet ==
  /\ pc \notin Critical /\ pc' \notin Critical
  /\ UNCHANGED <<outcome, temphead, hidden, blocked, linked, made>>

LEMMA QuietStep ==
  ASSUME Inv, Quiet
  PROVE  Inv'
BY DEF Inv, Quiet, Typed, Listed, Masked, NoTempLeft, Critical

LEMMA CreatedPlace == Created \in {"write", "merge", "open"}
BY DEF Created

LEMMA ReapPlace ==
  ASSUME NEW C, NEW p, Reap(C, p)
  PROVE  pc' \in {p, "exit"}
BY DEF Reap, Die, Go

-----------------------------------------------------------------------------
(* One lemma for each step that touches them.                              *)

LEMMA CreateTempFileStep ==
  ASSUME Inv, CreateTempFile
  PROVE  Inv'
<1>1. CASE HasFds(1)
  <2>1. /\ outcome = "running" /\ outcome' = "running" /\ pc = "create" /\ pc' = "created"
        /\ made < MaxTemps /\ made' = made + 1 /\ linked' = linked \cup {made + 1}
        /\ target' = made + 1 /\ blocked'
        /\ UNCHANGED <<temphead, hidden>>
    BY <1>1 DEF CreateTempFile, At, Go, CsEnter
  <2>2. made' \in Nat /\ target' \in Temps
    BY <2>1, ScenariosAssumption DEF Inv, Typed, Temps
  <2>3. Listed'
    BY <2>1 DEF Inv, Listed, Temps
  <2> QED
    BY <2>1, <2>2, <2>3 DEF Inv, Typed, Masked, NoTempLeft, Critical
<1>2. CASE ~HasFds(1)
  <2>1. Quiet
    BY <1>2 DEF CreateTempFile, At, Go, Die, Quiet, Critical
  <2> QED
    BY <2>1, QuietStep
<1> QED
  BY <1>1, <1>2

LEMMA LinkTempStep ==
  ASSUME Inv, LinkTemp
  PROVE  Inv'
<1>1. /\ outcome = "running" /\ outcome' = "running" /\ pc = "created"
      /\ temphead' = Append(temphead, target)
      /\ UNCHANGED <<hidden, linked, made, target>>
      /\ pc' \in {"pipe", Created}
  BY DEF LinkTemp, At, Go, merging, disk, end
<1>2. pc' \notin Critical
  BY <1>1, CreatedPlace DEF Critical
<1>3. temphead' \in Seq(Temps) /\ ToSet(temphead') = ToSet(temphead) \cup {target}
  BY <1>1, SetOfAppend DEF Inv, Typed
<1> QED
  BY <1>1, <1>2, <1>3 DEF Inv, Typed, Listed, Masked, NoTempLeft, Critical

LEMMA EnterForkStep ==
  ASSUME Inv, EnterFork
  PROVE  Inv'
<1>1. /\ outcome = "running" /\ outcome' = "running" /\ pc = "fork" /\ pc' = "forked"
      /\ blocked' /\ hidden' = temphead /\ temphead' = << >>
      /\ UNCHANGED <<linked, made, target>>
  BY DEF EnterFork, Hide, At, Go, merging, disk, end
<1>2. temphead' \in Seq(Temps)
  BY <1>1
<1> QED
  BY <1>1, <1>2, SetOfEmpty DEF Inv, Typed, Listed, Masked, NoTempLeft, Critical

\* After fork, in the parent: the list is what it was.
LEMMA LeaveForkStep ==
  ASSUME Inv, pc = "forked", LeaveFork, pc' \notin Critical,
         UNCHANGED <<outcome, linked, made>>, outcome = "running"
  PROVE  Inv'
<1>1. temphead' = hidden /\ hidden' = << >>
  BY DEF LeaveFork
<1>2. hidden' \in Seq(Temps)
  BY <1>1
<1> QED
  BY <1>1, <1>2, SetOfEmpty DEF Inv, Typed, Listed, Masked, NoTempLeft, Critical

LEMMA ForkedSteps ==
  ASSUME Inv, Forked \/ ForkAgain \/ ForkError
  PROVE  Inv'
<1>1. CASE Forked
  <2>1. pc' \in {"open", Created}
    BY <1>1 DEF Forked, Go
  <2>2. pc' \notin Critical
    BY <2>1, CreatedPlace DEF Critical
  <2> QED
    BY <1>1, <2>2, LeaveForkStep DEF Forked, At, disk, end
<1>2. CASE ForkAgain
  <2>1. pc' \in {"fork", "nofork", "exit"}
    BY <1>2, ReapPlace DEF ForkAgain
  <2>2. pc' \notin Critical
    BY <2>1 DEF Critical
  <2> QED
    BY <1>2, <2>2, LeaveForkStep DEF ForkAgain, At, disk
<1>3. CASE ForkError
  <2>1. pc' \notin Critical
    BY <1>3 DEF ForkError, Go, Critical
  <2> QED
    BY <1>3, <2>1, LeaveForkStep DEF ForkError, At, disk, end
<1> QED
  BY <1>1, <1>2, <1>3

LEMMA UnlinkStep ==
  ASSUME Inv, Unlink
  PROVE  Inv'
<1>1. /\ outcome = "running" /\ outcome' = "running" /\ pc = "zap" /\ pc' = "unlinked"
      /\ blocked' /\ linked' = linked \ {Zapped} /\ ZapPlaces # {}
      /\ UNCHANGED <<job, streams, temphead, hidden, made>>
  BY DEF Unlink, At, Go, CsEnter, merging, end
<1>2. ZapPlaces' = ZapPlaces /\ Zapped' = Zapped
  BY <1>1 DEF ZapPlaces, Zapped, ZapPlace
<1> QED
  BY <1>1, <1>2 DEF Inv, Typed, Listed, Masked, NoTempLeft, Critical

LEMMA UnlistStep ==
  ASSUME Inv, Unlist
  PROVE  Inv'
<1>1. /\ outcome = "running" /\ outcome' = "running" /\ pc = "unlinked" /\ pc' = "merge"
      /\ temphead' = RemoveAt(temphead, ZapPlace)
      /\ UNCHANGED <<hidden, linked, made>>
  BY DEF Unlist, At, Go, merging, disk, end
<1>2. ZapPlace \in DOMAIN temphead
  <2>1. ZapPlaces # {}
    BY <1>1 DEF Inv, Masked
  <2>2. ZapPlace \in ZapPlaces
    BY <2>1 DEF ZapPlace
  <2> QED
    BY <2>2 DEF ZapPlaces
<1>3. /\ temphead' \in Seq(Temps)
      /\ ToSet(temphead) \ {Zapped} \subseteq ToSet(temphead')
  BY <1>1, <1>2, SetOfRemove DEF Inv, Typed, Zapped
<1> QED
  BY <1>1, <1>3 DEF Inv, Typed, Listed, Masked, NoTempLeft, Critical

\* However sort ends: it is not in a critical section, so that the list tells all.
LEMMA CleanupStep ==
  ASSUME Inv, outcome = "running", pc \notin Critical, Cleanup,
         UNCHANGED <<pc, hidden, made>>, outcome' # "running"
  PROVE  Inv'
<1>1. /\ linked' = linked \ ToSet(temphead) /\ temphead' = << >>
  BY DEF Cleanup
<1>2. linked \cap Temps \subseteq ToSet(temphead)
  BY SetOfEmpty DEF Inv, Listed, Masked, Critical
<1>3. temphead' \in Seq(Temps)
  BY <1>1
<1> QED
  BY <1>1, <1>2, <1>3 DEF Inv, Typed, NoTempLeft, Critical

LEMMA EndSteps ==
  ASSUME Inv, Exit \/ Signal \/ SigPipe
  PROVE  Inv'
<1>1. CASE Exit
  BY <1>1, CleanupStep DEF Exit, At, Critical
<1>2. CASE Signal
  <2>1. pc \notin Critical
    BY <1>2 DEF Signal, Inv, Masked
  <2> QED
    BY <1>2, <2>1, CleanupStep DEF Signal
<1>3. CASE SigPipe
  BY <1>3, CleanupStep DEF SigPipe, Critical
<1> QED
  BY <1>1, <1>2, <1>3

\* A child may only remove files, and does not touch the list of sort.
LEMMA ChildSteps ==
  ASSUME Inv, NEW c \in DOMAIN child,
         ChildStep(c) \/ ProgramFails(c) \/ SignalForked(c)
  PROVE  Inv'
<1>1. outcome = "running" /\ UNCHANGED sort /\ linked' \subseteq linked
  BY DEF ChildStep, Exec, Finish, NobodyReads, ProgramFails, SignalForked, Becomes, Is
<1>2. UNCHANGED <<pc, job, target, streams, temphead, hidden, blocked, made, outcome>>
  BY <1>1 DEF sort, merging, list, end
<1>3. ZapPlaces' = ZapPlaces /\ Zapped' = Zapped
  BY <1>2 DEF ZapPlaces, Zapped, ZapPlace
<1> QED
  BY <1>1, <1>2, <1>3 DEF Inv, Typed, Listed, Masked, NoTempLeft


-----------------------------------------------------------------------------
(* The other steps are quiet.                                              *)

LEMMA ProcessSteps ==
  ASSUME Pipe \/ ReapSome \/ NoFork \/ ReapAll
  PROVE  Quiet
<1>1. CASE Pipe
  BY <1>1, CreatedPlace DEF Pipe, At, Go, Quiet, Critical, list, disk, end
<1>2. CASE ReapSome
  BY <1>2, ReapPlace DEF ReapSome, At, Quiet, Critical, list, disk
<1>3. CASE NoFork
  BY <1>3, CreatedPlace DEF NoFork, At, Go, Die, Quiet, Critical, list, disk
<1>4. CASE ReapAll
  <2>1. pc' \in {"exit", "reapall"}
    BY <1>4, ReapPlace DEF ReapAll, At, Go
  <2> QED
    BY <1>4, <2>1 DEF ReapAll, At, Quiet, Critical, list, disk
<1> QED
  BY <1>1, <1>2, <1>3, <1>4

LEMMA BufferSteps ==
  ASSUME WriteOnly \/ ReadBuffer \/ WriteBuffer \/ MergeTemps
  PROVE  Quiet
BY DEF WriteOnly, ReadBuffer, WriteBuffer, MergeTemps, Start, Write, At, Go, Quiet,
       Critical, list, disk, end

LEMMA OpenSteps ==
  ASSUME OpenFile \/ WaitToOpen \/ OpenTemp \/ Opened \/ OpenFailed
  PROVE  Quiet
<1>1. CASE OpenFile
  BY <1>1 DEF OpenFile, At, Go, Quiet, Critical, list, disk, end
<1>2. CASE WaitToOpen
  BY <1>2, ReapPlace DEF WaitToOpen, WaitProc, At, Quiet, Critical, list, disk
<1>3. CASE OpenTemp
  BY <1>3 DEF OpenTemp, At, Go, Quiet, Critical, list, disk, end
<1>4. CASE Opened
  BY <1>4 DEF Opened, At, Go, Quiet, Critical, list, end
<1>5. CASE OpenFailed
  BY <1>5 DEF OpenFailed, At, Go, Die, Quiet, Critical, list, disk
<1> QED
  BY <1>1, <1>2, <1>3, <1>4, <1>5

LEMMA MergeSteps ==
  ASSUME (\E i \in DOMAIN streams : EndOfInput(i)) \/ WaitToZap \/ MergeDone
  PROVE  Quiet
<1>1. ASSUME NEW i \in DOMAIN streams, EndOfInput(i)
      PROVE  Quiet
  BY <1>1 DEF EndOfInput, At, Go, Quiet, Critical, list, disk, end
<1>2. CASE WaitToZap
  BY <1>2, ReapPlace DEF WaitToZap, WaitProc, At, Quiet, Critical, list, disk
<1>3. CASE MergeDone
  <2>1. outcome = "running" /\ pc = "merge" /\ UNCHANGED <<list, linked, made, end>>
    BY <1>3 DEF MergeDone, At
  <2>2. pc' \in {"batch", "endpass", "final", "exit", "reapall", "merge"}
    BY <1>3, <2>1 DEF MergeDone, Go
  <2> QED
    BY <2>1, <2>2 DEF Quiet, Critical, list, end
<1> QED
  BY <1>1, <1>2, <1>3

LEMMA PassSteps ==
  ASSUME Pass \/ MergeBatch \/ EndPass \/ AvoidTrashingInput \/ FinalMerge \/ Squeeze
  PROVE  Quiet
BY DEF Pass, MergeBatch, EndPass, AvoidTrashingInput, FinalMerge, Squeeze, Start, At,
       Go, Quiet, Critical, list, disk, end

LEMMA StutterStep ==
  ASSUME Inv, UNCHANGED vars
  PROVE  Inv'
<1>1. UNCHANGED <<pc, job, target, streams, temphead, hidden, blocked, linked, made, outcome>>
  BY DEF vars, merging, list, disk, end
<1>2. ZapPlaces' = ZapPlaces /\ Zapped' = Zapped
  BY <1>1 DEF ZapPlaces, Zapped, ZapPlace
<1> QED
  BY <1>1, <1>2 DEF Inv, Typed, Listed, Masked, NoTempLeft

-----------------------------------------------------------------------------

LEMMA InitInv == Init => Inv
<1> SUFFICES ASSUME Init PROVE Inv
  OBVIOUS
<1>1. /\ made = 0 /\ temphead = << >> /\ hidden = << >> /\ outcome = "running"
      /\ pc \in {"pass", "read"}
      /\ linked = {OutFile} \cup ToSet(opt.operands)
  BY DEF Init
<1>2. linked \cap Temps = {}
  <2>1. opt \in Scenarios
    BY DEF Init
  <2>2. \A f \in ToSet(opt.operands) : f \notin Temps
    BY <2>1, ScenariosAssumption DEF ToSet, Temps, OutFile
  <2> QED
    BY <1>1, <2>2 DEF Temps, OutFile
<1> QED
  BY <1>1, <1>2 DEF Inv, Typed, Listed, Masked, NoTempLeft, Critical

LEMMA NextInv ==
  ASSUME Inv, [Next]_vars
  PROVE  Inv'
<1>1. CASE SortStep
  BY <1>1, QuietStep, ProcessSteps, BufferSteps, OpenSteps, MergeSteps, PassSteps,
     CreateTempFileStep, LinkTempStep, EnterForkStep, ForkedSteps, UnlinkStep, UnlistStep,
     EndSteps DEF SortStep
<1>2. CASE Signal
  BY <1>2, EndSteps
<1>3. ASSUME NEW c \in DOMAIN child, ChildStep(c) \/ ProgramFails(c) \/ SignalForked(c)
      PROVE  Inv'
  BY <1>3, ChildSteps
<1>4. CASE UNCHANGED vars
  BY <1>4, StutterStep
<1> QED
  BY <1>1, <1>2, <1>3, <1>4 DEF Next

\* However sort ends, by itself, by die or by a signal, no temporary file is left:
\* neither the creation of files nor that of processes has a gap between the list and
\* the directory at which a signal could come.
THEOREM NoTempLeftBehind == Spec => []NoTempLeft
<1>1. Inv => NoTempLeft
  BY DEF Inv
<1> QED
  BY InitInv, NextInv, <1>1, PTL DEF Spec

-----------------------------------------------------------------------------
(* The inductive invariant.  The count is that of the temporary files      *)
(* whose process is unreaped; each unreaped child has such a file, so that *)
(* reaping any child lowers the count; and a process is only started for a *)
(* file that has none.                                                     *)

Node == [state : {"uncompressed", "unreaped", "reaped"}, pid : Nat]
Busy(t) == node[t].state = "unreaped"
Unreaped == { t \in Temps : Busy(t) }

Tabled ==
  \A c \in DOMAIN child :
    ~child[c].reaped => /\ Busy(child[c].temp)
                        /\ node[child[c].temp].pid = c

Table ==
  /\ child \in Seq(Process) /\ node \in [Temps -> Node]
  /\ nprocs = Cardinality(Unreaped)
  /\ Tabled
  /\ \A t \in Temps : t > made => node[t].state = "uncompressed"

\* pipe_fork up to its call of fork, and all of it.
Forking == {"pipe", "reapsome", "fork", "forked"}
PipeFork == Forking \cup {"nofork", "exit"}

Idle(t) == t \in Temps /\ t <= made /\ ~Busy(t)

Places ==
  /\ pc = "created" => Idle(target)
  /\ pc \in Forking => Idle(Subject)
  /\ forRead => pc \in PipeFork

Limited ==
  /\ opt \in Scenarios
  /\ ProcessesLimited
  /\ pc \in {"fork", "forked"} => nprocs <= opt.nmerge + 1

Children == Table /\ Places /\ Limited

-----------------------------------------------------------------------------
(* The count.                                                              *)

LEMMA Numbers ==
  ASSUME Children
  PROVE  /\ opt.nmerge \in Nat /\ nprocs \in Nat /\ IsFiniteSet(Unreaped)
<1>1. opt.nmerge \in Nat
  BY ScenariosAssumption DEF Children, Limited, Scenario
<1>2. IsFiniteSet(Temps)
  BY ScenariosAssumption, FS_Interval DEF Temps
<1>3. Unreaped \in SUBSET Temps
  BY DEF Unreaped
<1>4. IsFiniteSet(Unreaped)
  BY <1>2, <1>3, FS_Subset
<1> QED
  BY <1>1, <1>4, FS_CardinalityType DEF Children, Table

\* A child's file, and what becomes of the children when some are changed in a
\* field that the table does not use.
LEMMA ChildType ==
  ASSUME child \in Seq(Process)
  PROVE  /\ Len(child) \in Nat /\ DOMAIN child = 1..Len(child)
         /\ \A c \in DOMAIN child : child[c] \in Process /\ child[c].temp \in Temps
<1>1. \A x \in Process : x.temp \in Temps
  BY DEF Process
<1>2. Len(child) \in Nat /\ DOMAIN child = 1..Len(child)
  OBVIOUS
<1>3. \A c \in DOMAIN child : child[c] \in Process
  OBVIOUS
<1> QED
  BY <1>1, <1>2, <1>3

LEMMA ChildrenChanged ==
  ASSUME child \in Seq(Process), DOMAIN child' = DOMAIN child,
         child' = [c \in DOMAIN child |-> child'[c]],
         \A c \in DOMAIN child : child'[c] \in Process
  PROVE  child' \in Seq(Process)
<1>1. child' \in [1..Len(child) -> Process] /\ Len(child) \in Nat
  BY ChildType
<1> QED
  BY <1>1

\* reap: the table stays right, no process comes, and one goes if a child has ended.
LEMMA ReapKeeps ==
  ASSUME Children, NEW C, C \subseteq Terminated, NEW p, Reap(C, p), UNCHANGED made
  PROVE  /\ Table'
         /\ \A t \in Temps : Busy(t)' => Busy(t)
         /\ nprocs' \in Nat /\ nprocs' <= nprocs
         /\ C # {} => pc' = "exit" \/ nprocs' <= nprocs - 1
         /\ pc' \in {p, "exit"}
<1>1. CASE \E c \in C : Abnormal(c)
  <2>1. UNCHANGED <<node, nprocs, child, made>> /\ pc' = "exit"
    BY <1>1 DEF Reap, Die, Go, procs
  <2> QED
    BY <2>1, Numbers DEF Children, Table, Tabled, Unreaped, Busy
<1>2. CASE ~ \E c \in C : Abnormal(c)
  <2> DEFINE known == { t \in Temps : node[t].state = "unreaped" /\ node[t].pid \in C }
  <2>1. /\ child' = [c \in DOMAIN child |->
                      IF c \in C THEN [child[c] EXCEPT !.reaped = TRUE] ELSE child[c]]
        /\ node' = [t \in Temps |->
                     IF t \in known THEN [node[t] EXCEPT !.state = "reaped"] ELSE node[t]]
        /\ nprocs' = nprocs - Cardinality(known)
        /\ pc' = p
    BY <1>2 DEF Reap, Go
  <2>2. /\ child \in Seq(Process) /\ node \in [Temps -> Node] /\ Tabled
        /\ nprocs = Cardinality(Unreaped)
    BY DEF Children, Table
  <2>3. /\ child' \in Seq(Process) /\ DOMAIN child' = DOMAIN child
        /\ \A c \in DOMAIN child : /\ child'[c].temp = child[c].temp
                                   /\ c \notin C => child'[c] = child[c]
                                   /\ c \in C => child'[c].reaped
    <3>1. /\ DOMAIN child' = DOMAIN child
          /\ child' = [c \in DOMAIN child |-> child'[c]]
          /\ \A c \in DOMAIN child :
               child'[c] = IF c \in C THEN [child[c] EXCEPT !.reaped = TRUE] ELSE child[c]
      BY <2>1
    <3>2. \A c \in DOMAIN child : [child[c] EXCEPT !.reaped = TRUE] \in Process
      BY <2>2, ChildType DEF Process
    <3>3. \A c \in DOMAIN child : /\ [child[c] EXCEPT !.reaped = TRUE].temp = child[c].temp
                                  /\ [child[c] EXCEPT !.reaped = TRUE].reaped
      BY <2>2, ChildType DEF Process
    <3>4. child' \in Seq(Process)
      BY <2>2, <3>1, <3>2, ChildType, ChildrenChanged
    <3> QED
      BY <3>1, <3>3, <3>4
  <2>4. /\ node' \in [Temps -> Node]
        /\ \A t \in Temps : t \notin known => node'[t] = node[t]
        /\ \A t \in known : node'[t].state = "reaped"
    BY <2>1, <2>2 DEF Node
  <2>5. known \subseteq Unreaped /\ Unreaped' = Unreaped \ known
    BY <2>4 DEF Unreaped, Busy
  <2>6. /\ IsFiniteSet(known) /\ Unreaped \cap known = known
        /\ Cardinality(known) \in Nat /\ Cardinality(known) <= nprocs
        /\ Cardinality(Unreaped') = Cardinality(Unreaped) - Cardinality(known)
    <3>1. IsFiniteSet(Unreaped) /\ known \in SUBSET Unreaped
      BY <2>5, Numbers
    <3>2. IsFiniteSet(known) /\ Cardinality(known) <= Cardinality(Unreaped)
      BY <3>1, FS_Subset
    <3> HIDE DEF known
    <3>3. Cardinality(known) \in Nat
      BY <3>2, FS_CardinalityType
    <3>4. Unreaped \cap known = known
      BY <3>1
    <3>5. Cardinality(Unreaped \ known) = Cardinality(Unreaped) - Cardinality(Unreaped \cap known)
      BY <3>1, FS_Difference
    <3> QED
      BY <2>2, <2>5, <3>2, <3>3, <3>4, <3>5
  <2>7. Tabled'
    <3> SUFFICES ASSUME NEW c \in DOMAIN child', ~child'[c].reaped
                 PROVE  node'[child[c].temp].state = "unreaped" /\ node'[child[c].temp].pid = c
      BY <2>3 DEF Tabled, Busy
    <3>1. c \notin C /\ c \in DOMAIN child /\ ~child[c].reaped
      BY <2>3
    <3>2. Busy(child[c].temp) /\ node[child[c].temp].pid = c /\ child[c].temp \in Temps
      BY <2>2, <3>1, ChildType DEF Tabled
    <3>3. child[c].temp \notin known
      BY <3>1, <3>2
    <3> QED
      BY <2>4, <3>2, <3>3 DEF Busy
  <2>8. C # {} => known # {}
    <3> SUFFICES ASSUME NEW c \in C PROVE known # {}
      OBVIOUS
    <3>1. c \in DOMAIN child /\ ~child[c].reaped
      BY DEF Terminated
    <3>2. Busy(child[c].temp) /\ node[child[c].temp].pid = c /\ child[c].temp \in Temps
      BY <2>2, <3>1, ChildType DEF Tabled
    <3> QED
      BY <3>2 DEF Busy
  <2>9. C # {} => Cardinality(known) >= 1
    BY <2>6, <2>8, FS_EmptySet
  <2>10. \A t \in Temps : t > made => node'[t].state = "uncompressed"
    BY <2>4, <2>5 DEF Children, Table, Unreaped, Busy
  <2>11. Table'
    BY <2>1, <2>2, <2>3, <2>4, <2>6, <2>7, <2>10 DEF Table
  <2>12. \A t \in Temps : Busy(t)' => Busy(t)
    BY <2>4, <2>5 DEF Unreaped, Busy
  <2> HIDE DEF known
  <2> QED
    BY <2>1, <2>2, <2>6, <2>9, <2>11, <2>12, Numbers
<1> QED
  BY <1>1, <1>2

-----------------------------------------------------------------------------
(* Steps that leave the children alone.                                    *)

Alone == UNCHANGED <<opt, node, nprocs, child, made>>

LEMMA AloneKeeps ==
  ASSUME Children, Alone
  PROVE  /\ Table' /\ (opt \in Scenarios)' /\ ProcessesLimited'
         /\ \A t : Idle(t) => Idle(t)'
<1>1. Unreaped' = Unreaped /\ Tabled'
  BY DEF Children, Table, Tabled, Alone, Unreaped, Busy
<1> QED
  BY <1>1 DEF Children, Table, Limited, ProcessesLimited, Alone, Idle, Busy

\* Steps outside pipe_fork, and the last ones of it.
Aside ==
  /\ Alone /\ pc' \notin Forking \cup {"created"}
  /\ forRead' => pc' \in PipeFork

LEMMA AsideStep ==
  ASSUME Children, Aside
  PROVE  Children'
<1>1. pc' \notin {"fork", "forked"}
  BY DEF Aside, Forking
<1> QED
  BY <1>1, AloneKeeps DEF Aside, Children, Places, Limited

\* Steps that are none of pipe_fork's and leave sort where it is.
Still == Alone /\ UNCHANGED <<pc, job, files, streams, target, forRead>>

LEMMA StillStep ==
  ASSUME Children, Still
  PROVE  Children'
<1>1. Subject' = Subject
  BY DEF Still, Subject, NextInput, Batch
<1> QED
  BY <1>1, AloneKeeps DEF Still, Alone, Children, Places, Limited

-----------------------------------------------------------------------------
(* The steps of pipe_fork.                                                 *)

LEMMA PipeStep ==
  ASSUME Children, Pipe
  PROVE  Children'
<1>1. /\ pc = "pipe" /\ UNCHANGED <<job, files, streams, target>> /\ Alone
      /\ \/ pc' \in {"reapsome", "fork"} /\ forRead' = forRead
            /\ (pc' = "fork" => ~TooMany)
         \/ pc' \in {"openfailed", Created} /\ ~forRead'
  BY DEF Pipe, At, Go, Alone, array, merging, procs, disk
<1>2. CASE pc' \in {"openfailed", Created} /\ ~forRead'
  BY <1>1, <1>2, CreatedPlace, AsideStep DEF Aside, Forking
<1>3. CASE pc' \in {"reapsome", "fork"} /\ forRead' = forRead /\ (pc' = "fork" => ~TooMany)
  <2>1. Subject' = Subject
    BY <1>1, <1>3 DEF Subject, NextInput, Batch
  <2>2. Idle(Subject)
    BY <1>1 DEF Children, Places, Forking
  <2>3. ~TooMany => nprocs <= opt.nmerge + 1
    BY Numbers DEF TooMany
  <2> QED
    BY <1>1, <1>3, <2>1, <2>2, <2>3, AloneKeeps
    DEF Children, Places, Limited, Alone, PipeFork, Forking
<1> QED
  BY <1>1, <1>2, <1>3

LEMMA ReapSomeStep ==
  ASSUME Children, ReapSome
  PROVE  Children'
<1>1. /\ pc = "reapsome" /\ Terminated # {} /\ Reap(Terminated, "fork")
      /\ UNCHANGED <<opt, job, files, streams, target, forRead, made>>
  BY DEF ReapSome, At, array, merging, disk
<1>2. /\ Table' /\ \A t \in Temps : Busy(t)' => Busy(t)
      /\ nprocs' \in Nat /\ nprocs' <= nprocs
      /\ pc' = "exit" \/ nprocs' <= nprocs - 1
      /\ pc' \in {"fork", "exit"}
  BY <1>1, ReapKeeps
<1>3. Subject' = Subject /\ Idle(Subject)
  BY <1>1 DEF Subject, NextInput, Batch, Children, Places, Forking
<1>4. Idle(Subject)'
  BY <1>1, <1>2, <1>3 DEF Idle
<1>5. nprocs' <= opt.nmerge + 2 /\ (pc' = "fork" => nprocs' <= opt.nmerge + 1)
  BY <1>2, Numbers DEF Children, Limited, ProcessesLimited
<1> QED
  BY <1>1, <1>2, <1>4, <1>5
  DEF Children, Places, Limited, ProcessesLimited, PipeFork, Forking

LEMMA ForkSteps ==
  ASSUME Children, EnterFork \/ ForkAgain \/ ForkError \/ NoFork
  PROVE  Children'
<1>1. CASE EnterFork
  <2>1. /\ pc = "fork" /\ pc' = "forked" /\ Alone
        /\ UNCHANGED <<job, files, streams, target, forRead>>
    BY <1>1 DEF EnterFork, At, Go, Alone, array, merging, procs, disk
  <2>2. Subject' = Subject /\ Idle(Subject)
    BY <2>1 DEF Subject, NextInput, Batch, Children, Places, Forking
  <2> QED
    BY <2>1, <2>2, AloneKeeps DEF Children, Places, Limited, Alone, PipeFork, Forking
<1>2. CASE ForkAgain
  <2>1. /\ pc = "forked" /\ Reap(Terminated, IF tries > 1 THEN "fork" ELSE "nofork")
        /\ UNCHANGED <<opt, job, files, streams, target, forRead, made>>
    BY <1>2 DEF ForkAgain, At, array, merging, disk
  <2>2. /\ Table' /\ \A t \in Temps : Busy(t)' => Busy(t)
        /\ nprocs' \in Nat /\ nprocs' <= nprocs
        /\ pc' \in {"fork", "nofork", "exit"}
    BY <2>1, ReapKeeps
  <2>3. Subject' = Subject /\ Idle(Subject)
    BY <2>1 DEF Subject, NextInput, Batch, Children, Places, Forking
  <2>4. Idle(Subject)'
    BY <2>1, <2>2, <2>3 DEF Idle
  <2>5. nprocs' <= opt.nmerge + 2 /\ nprocs' <= opt.nmerge + 1
    BY <2>1, <2>2, Numbers DEF Children, Limited
  <2> QED
    BY <2>1, <2>2, <2>4, <2>5
    DEF Children, Places, Limited, ProcessesLimited, PipeFork, Forking
<1>3. CASE ForkError
  BY <1>3, AsideStep
  DEF ForkError, At, Go, Aside, Alone, procs, disk, PipeFork, Forking
<1>4. CASE NoFork
  BY <1>4, CreatedPlace, AsideStep
  DEF NoFork, At, Go, Die, Aside, Alone, procs, disk, PipeFork, Forking
<1> QED
  BY <1>1, <1>2, <1>3, <1>4

\* One process more, for a file that had none.
LEMMA ForkedStep ==
  ASSUME Inv, Children, Forked
  PROVE  Children'
<1> DEFINE p == Len(child) + 1
           kid == [temp |-> Subject, temphead |-> temphead, state |-> "forked",
                   reaped |-> FALSE, does |-> IF forRead THEN "decompress" ELSE "compress"]
<1>1. /\ pc = "forked" /\ ~forRead' /\ UNCHANGED <<opt, made>>
      /\ child' = Append(child, kid)
      /\ node' = [node EXCEPT ![Subject] = [state |-> "unreaped", pid |-> p]]
      /\ nprocs' = nprocs + 1
      /\ pc' \in {"open", Created}
  BY DEF Forked, At, Go, LeaveFork, Counted, array, disk
<1>2. Idle(Subject) /\ nprocs <= opt.nmerge + 1
  BY <1>1 DEF Children, Places, Limited, Forking
<1>3. child \in Seq(Process) /\ node \in [Temps -> Node] /\ p \in Nat /\ Tabled
  BY DEF Children, Table
<1>4. kid \in Process
  BY <1>2 DEF Process, Inv, Typed, Idle
<1>5. /\ node' \in [Temps -> Node]
      /\ \A t \in Temps : t # Subject => node'[t] = node[t]
      /\ node'[Subject].state = "unreaped" /\ node'[Subject].pid = p
  BY <1>1, <1>2, <1>3 DEF Node, Idle
<1>6. /\ child' \in Seq(Process) /\ DOMAIN child' = DOMAIN child \cup {p}
      /\ \A c \in DOMAIN child : child'[c] = child[c]
      /\ child'[p].temp = Subject
  <2> HIDE DEF kid
  <2>1. /\ child' \in Seq(Process) /\ Len(child') = p /\ child'[p] = kid
        /\ \A c \in 1..Len(child) : child'[c] = child[c]
    BY <1>1, <1>3, <1>4
  <2> USE DEF kid
  <2> QED
    BY <1>3, <2>1, ChildType
<1>7. nprocs' = Cardinality(Unreaped')
  <2>1. Unreaped' = Unreaped \cup {Subject} /\ Subject \notin Unreaped
    BY <1>2, <1>5 DEF Unreaped, Busy, Idle
  <2>2. Cardinality(Unreaped \cup {Subject}) = Cardinality(Unreaped) + 1
    BY <2>1, Numbers, FS_AddElement
  <2> QED
    BY <1>1, <2>1, <2>2 DEF Children, Table
<1>8. Tabled'
  <2> SUFFICES ASSUME NEW c \in DOMAIN child', ~child'[c].reaped
               PROVE  /\ node'[child'[c].temp].state = "unreaped"
                      /\ node'[child'[c].temp].pid = c
    BY DEF Tabled, Busy
  <2>1. CASE c = p
    BY <1>5, <1>6, <2>1
  <2>2. CASE c # p
    <3>1. c \in DOMAIN child /\ child'[c] = child[c]
      BY <1>6, <2>2
    <3>2. /\ node[child[c].temp].state = "unreaped" /\ node[child[c].temp].pid = c
          /\ child[c].temp \in Temps
      BY <1>3, <3>1, ChildType DEF Tabled, Busy
    <3>3. child[c].temp # Subject
      BY <1>2, <3>2 DEF Idle, Busy
    <3> QED
      BY <1>5, <3>1, <3>2, <3>3
  <2> QED
    BY <2>1, <2>2
<1>9. \A t \in Temps : t > made' => node'[t].state = "uncompressed"
  <2>1. Subject <= made
    BY <1>2 DEF Idle
  <2>2. \A t \in Temps : t > made => t # Subject
    BY <2>1, ScenariosAssumption DEF Inv, Typed, Temps
  <2> QED
    BY <1>1, <1>5, <2>2 DEF Children, Table
<1>10. Table'
  BY <1>5, <1>6, <1>7, <1>8, <1>9 DEF Table
<1>11. pc' \notin Forking \cup {"created"}
  BY <1>1, CreatedPlace DEF Forking
<1>12. nprocs' <= opt'.nmerge + 2
  BY <1>1, <1>2, Numbers
<1> QED
  BY <1>1, <1>10, <1>11, <1>12 DEF Children, Places, Limited, ProcessesLimited, Forking

-----------------------------------------------------------------------------
(* The steps that lead to pipe_fork.                                       *)

LEMMA CreateSteps ==
  ASSUME Inv, Children, CreateTempFile \/ LinkTemp
  PROVE  Children'
<1>1. CASE CreateTempFile /\ HasFds(1)
  <2>1. /\ pc = "create" /\ pc' = "created" /\ made < MaxTemps /\ made' = made + 1
        /\ target' = made + 1 /\ forRead' = forRead /\ UNCHANGED <<opt, node, nprocs, child>>
    BY <1>1 DEF CreateTempFile, At, Go, procs
  <2>2. made \in Nat /\ MaxTemps \in Nat
    BY ScenariosAssumption DEF Inv, Typed
  <2>3. target' \in Temps /\ node[target'].state = "uncompressed"
    BY <2>1, <2>2 DEF Temps, Children, Table
  <2>4. Idle(target)'
    BY <2>1, <2>2, <2>3 DEF Idle, Busy
  <2>5. Unreaped' = Unreaped /\ Tabled'
    BY <2>1 DEF Children, Table, Tabled, Unreaped, Busy
  <2>6. \A t \in Temps : t > made' => t > made
    BY <2>1, <2>2 DEF Temps
  <2>7. Table'
    BY <2>1, <2>5, <2>6 DEF Children, Table
  <2> QED
    BY <2>1, <2>4, <2>7
    DEF Children, Places, Limited, ProcessesLimited, PipeFork, Forking
<1>2. CASE CreateTempFile /\ ~HasFds(1)
  <2>1. /\ pc = "create" /\ pc' \in {"squeeze", "exit"} /\ forRead' = forRead /\ Alone
    BY <1>2 DEF CreateTempFile, At, Go, Die, Alone, procs
  <2> QED
    BY <2>1, AsideStep DEF Children, Places, Aside, PipeFork, Forking
<1>3. CASE LinkTemp
  <2>1. /\ pc = "created" /\ pc' \in {"pipe", Created} /\ Alone
        /\ UNCHANGED <<job, files, streams, target, forRead>>
    BY <1>3 DEF LinkTemp, At, Go, Alone, array, merging, procs, disk
  <2>2. ~forRead /\ Idle(target)
    BY <2>1 DEF Children, Places, PipeFork, Forking
  <2>3. Subject' = target /\ Idle(target)'
    BY <2>1, <2>2, AloneKeeps DEF Subject, Alone, Idle, Busy
  <2>4. pc' \notin {"fork", "forked", "created"}
    BY <2>1, CreatedPlace
  <2> QED
    BY <2>1, <2>2, <2>3, <2>4, AloneKeeps DEF Children, Places, Limited
<1> QED
  BY <1>1, <1>2, <1>3

LEMMA OpenTempStep ==
  ASSUME Inv, Children, OpenTemp
  PROVE  Children'
<1>1. /\ pc = "open" /\ Alone /\ UNCHANGED <<job, files, streams, target>>
      /\ ~Plain(NextInput) /\ ~MustWait(NextInput)
      /\ \/ pc' = "pipe" /\ forRead'
         \/ pc' = "openfailed" /\ forRead' = forRead
  BY DEF OpenTemp, At, Go, Alone, array, merging, procs, disk
<1>2. CASE pc' = "openfailed" /\ forRead' = forRead
  BY <1>1, <1>2, AsideStep DEF Children, Places, Aside, PipeFork, Forking
<1>3. CASE pc' = "pipe" /\ forRead'
  <2>1. Subject' = NextInput
    BY <1>1, <1>3 DEF Subject, NextInput, Batch
  <2>2. /\ NextInput \in Temps /\ ~Busy(NextInput)
        /\ ~(NextInput > made)
    BY <1>1 DEF Plain, MustWait, Busy, Children, Table
  <2>3. Idle(NextInput)
    BY <2>2, ScenariosAssumption DEF Idle, Inv, Typed, Temps
  <2>4. Idle(Subject)'
    BY <1>1, <2>1, <2>3 DEF Alone, Idle, Busy
  <2> QED
    BY <1>1, <1>3, <2>4, AloneKeeps DEF Children, Places, Limited, PipeFork, Forking
<1> QED
  BY <1>1, <1>2, <1>3

-----------------------------------------------------------------------------
(* The other steps.                                                        *)

\* wait_proc and reap_all.
LEMMA WaitSteps ==
  ASSUME Children, WaitToOpen \/ WaitToZap \/ ReapAll
  PROVE  Children'
<1>1. ASSUME NEW C, C \subseteq Terminated, Reap(C, pc), ~forRead,
             pc \in {"open", "zap", "reapall"}, UNCHANGED <<opt, forRead, made>>
      PROVE  Children'
  <2>1. /\ Table' /\ nprocs' \in Nat /\ nprocs' <= nprocs /\ pc' \in {pc, "exit"}
    BY <1>1, ReapKeeps
  <2>2. nprocs' <= opt.nmerge + 2
    BY <2>1, Numbers DEF Children, Limited, ProcessesLimited
  <2> QED
    BY <1>1, <2>1, <2>2
    DEF Children, Places, Limited, ProcessesLimited, PipeFork, Forking
<1>2. pc \in {"open", "zap", "reapall"} => ~forRead
  BY DEF Children, Places, PipeFork, Forking
<1>3. CASE WaitToOpen \/ WaitToZap
  <2>1. /\ pc \in {"open", "zap"} /\ UNCHANGED <<opt, forRead, made>>
        /\ \E t : WaitProc(t)
    BY <1>3 DEF WaitToOpen, WaitToZap, At, disk
  <2>2. PICK t : WaitProc(t)
    BY <2>1
  <2> QED
    BY <1>1, <1>2, <2>1, <2>2 DEF WaitProc
<1>4. CASE ReapAll /\ nprocs = 0
  BY <1>2, <1>4, AsideStep
  DEF ReapAll, At, Go, Aside, Alone, procs, disk, PipeFork, Forking
<1>5. CASE ReapAll /\ nprocs # 0
  BY <1>1, <1>2, <1>5 DEF ReapAll, At, disk
<1> QED
  BY <1>3, <1>4, <1>5

LEMMA SortAsideSteps ==
  ASSUME Children,
         \/ WriteOnly \/ ReadBuffer \/ WriteBuffer \/ MergeTemps
         \/ OpenFile \/ Opened \/ OpenFailed
         \/ (\E i \in DOMAIN streams : EndOfInput(i)) \/ Unlink \/ Unlist \/ MergeDone
         \/ Pass \/ MergeBatch \/ EndPass \/ AvoidTrashingInput \/ FinalMerge \/ Squeeze
  PROVE  Children'
<1> SUFFICES /\ Alone /\ forRead' = forRead
             /\ pc \notin PipeFork /\ pc' \notin Forking \cup {"created"}
  BY AsideStep DEF Aside, Children, Places
<1>1. CASE WriteOnly \/ ReadBuffer \/ WriteBuffer \/ MergeTemps
  BY <1>1 DEF WriteOnly, ReadBuffer, WriteBuffer, MergeTemps, Start, At, Go, Alone,
     procs, disk, PipeFork, Forking
<1>2. CASE OpenFile \/ Opened \/ OpenFailed
  BY <1>2 DEF OpenFile, Opened, OpenFailed, At, Go, Die, Alone, procs, disk, PipeFork, Forking
<1>3. CASE (\E i \in DOMAIN streams : EndOfInput(i)) \/ Unlink \/ Unlist
  BY <1>3 DEF EndOfInput, Unlink, Unlist, At, Go, Alone, procs, disk, PipeFork, Forking
<1>4. CASE MergeDone
  <2>1. pc = "merge" /\ UNCHANGED <<opt, forRead, procs, made>>
    BY <1>4 DEF MergeDone, At
  <2>2. pc' \in {"batch", "endpass", "final", "exit", "reapall"}
    BY <1>4 DEF MergeDone, Go
  <2> QED
    BY <2>1, <2>2 DEF Alone, procs, PipeFork, Forking
<1>5. CASE Pass \/ MergeBatch \/ EndPass \/ AvoidTrashingInput \/ FinalMerge \/ Squeeze
  BY <1>5 DEF Pass, MergeBatch, EndPass, AvoidTrashingInput, FinalMerge, Squeeze, Start,
     At, Go, Alone, procs, disk, PipeFork, Forking
<1> QED
  BY <1>1, <1>2, <1>3, <1>4, <1>5

LEMMA EndOfSort ==
  ASSUME Children, Exit \/ Signal \/ SigPipe \/ UNCHANGED vars
  PROVE  Children'
<1>1. Still
  BY DEF Exit, Signal, SigPipe, Still, Alone, vars, array, merging, procs, disk
<1> QED
  BY <1>1, StillStep

\* A child changes its own state, which the table does not hold.
LEMMA ChildrenSteps ==
  ASSUME Children, NEW c \in DOMAIN child,
         ChildStep(c) \/ ProgramFails(c) \/ SignalForked(c)
  PROVE  Children'
<1>1. PICK st \in {"runs", "ok", "failed", "sigpipe"} :
        child' = [child EXCEPT ![c].state = st] /\ UNCHANGED sort
  BY DEF ChildStep, Exec, Finish, NobodyReads, ProgramFails, SignalForked, Becomes
<1>2. UNCHANGED <<opt, pc, job, files, streams, target, forRead, node, nprocs, made>>
  BY <1>1 DEF sort, array, merging
<1>3. child \in Seq(Process) /\ Tabled
  BY DEF Children, Table
<1>4. /\ DOMAIN child' = DOMAIN child /\ child' = [k \in DOMAIN child |-> child'[k]]
      /\ \A k \in DOMAIN child :
           child'[k] = IF k = c THEN [child[k] EXCEPT !.state = st] ELSE child[k]
  BY <1>1
<1>5. \A k \in DOMAIN child : /\ child'[k] \in Process
                              /\ child'[k].temp = child[k].temp
                              /\ child'[k].reaped = child[k].reaped
  BY <1>3, <1>4, ChildType DEF Process
<1>6. child' \in Seq(Process)
  BY <1>3, <1>4, <1>5, ChildrenChanged
<1>7. Unreaped' = Unreaped /\ Subject' = Subject /\ Tabled'
  BY <1>2, <1>3, <1>4, <1>5 DEF Unreaped, Busy, Subject, NextInput, Batch, Tabled
<1> QED
  BY <1>2, <1>6, <1>7 DEF Children, Table, Places, Limited, ProcessesLimited, Idle, Busy

-----------------------------------------------------------------------------

LEMMA InitChildren == Init => Children
<1> SUFFICES ASSUME Init PROVE Children
  OBVIOUS
<1>1. /\ opt \in Scenarios /\ pc \in {"pass", "read"} /\ forRead = FALSE
      /\ node = [t \in Temps |-> [state |-> "uncompressed", pid |-> 0]]
      /\ nprocs = 0 /\ child = << >>
  BY DEF Init
<1>2. opt.nmerge \in Nat
  BY <1>1, ScenariosAssumption DEF Scenario
<1>3. Unreaped = {}
  BY <1>1 DEF Unreaped, Busy
<1>4. child \in Seq(Process) /\ Tabled /\ node \in [Temps -> Node]
  BY <1>1 DEF Tabled, Node
<1>5. Table
  BY <1>1, <1>3, <1>4, FS_EmptySet DEF Table
<1> QED
  BY <1>1, <1>2, <1>5 DEF Children, Places, Limited, ProcessesLimited, PipeFork, Forking

LEMMA NextChildren ==
  ASSUME Inv, Children, [Next]_vars
  PROVE  Children'
<1>1. CASE SortStep
  BY <1>1, PipeStep, ReapSomeStep, ForkSteps, ForkedStep, CreateSteps, OpenTempStep,
     WaitSteps, SortAsideSteps, EndOfSort DEF SortStep
<1>2. ASSUME NEW c \in DOMAIN child, ChildStep(c) \/ ProgramFails(c) \/ SignalForked(c)
      PROVE  Children'
  BY <1>2, ChildrenSteps
<1> QED
  BY <1>1, <1>2, EndOfSort DEF Next

\* pipe_fork: there are never more than NMERGE + 2 unreaped children, because a child that
\* has ended is always in the table, so that reap_some makes room, and because no process
\* takes the place of another in the table.
THEOREM ChildrenLimited == Spec => []ProcessesLimited
<1>1. Children => ProcessesLimited
  BY DEF Children, Limited
<1> QED
  BY InitInv, NextInv, InitChildren, NextChildren, <1>1, PTL DEF Spec


-----------------------------------------------------------------------------
(* The inductive invariant.  A child that has been reaped has not failed,  *)
(* as reap dies of one that has; and sort, unless it only merges, comes to *)
(* its end by reap_all or by die.                                          *)

Reported ==
  /\ \A c \in DOMAIN child : child[c].reaped => child[c].state = "ok"
  /\ pc = "exit" /\ why = "done" /\ opt.buffers > 0 => nprocs = 0
  /\ outcome = "ok" => pc = "exit" /\ why = "done"

\* Steps that reap nothing and do not come to the end of sort by themselves.
Onward ==
  /\ UNCHANGED <<opt, child, nprocs>> /\ outcome' # "ok"
  /\ pc' = "exit" => why' # "done"

LEMMA OnwardStep ==
  ASSUME Reported, Onward
  PROVE  Reported'
BY DEF Reported, Onward

\* reap
LEMMA ReapReports ==
  ASSUME Children, Reported, NEW C, C \subseteq Terminated, NEW p, p # "exit",
         Reap(C, p), UNCHANGED <<opt, outcome>>, outcome = "running"
  PROVE  Reported'
<1>1. CASE \E c \in C : Abnormal(c)
  BY <1>1 DEF Reap, Die, Go, procs, Reported
<1>2. CASE ~ \E c \in C : Abnormal(c)
  <2>1. /\ child' = [c \in DOMAIN child |->
                      IF c \in C THEN [child[c] EXCEPT !.reaped = TRUE] ELSE child[c]]
        /\ pc' = p
    BY <1>2 DEF Reap, Go
  <2>2. ASSUME NEW c \in DOMAIN child', child'[c].reaped
        PROVE  child'[c].state = "ok"
    <3>1. c \in DOMAIN child /\ child[c] \in Process
      BY <2>1, <2>2, ChildType DEF Children, Table
    <3>2. CASE c \in C
      <4>1. child[c].state = "ok"
        BY <1>2, <3>2 DEF Abnormal
      <4>2. child'[c] = [child[c] EXCEPT !.reaped = TRUE]
        BY <2>1, <3>1, <3>2
      <4> QED
        BY <3>1, <4>1, <4>2 DEF Process
    <3>3. CASE c \notin C
      BY <2>1, <2>2, <3>1, <3>3 DEF Reported
    <3> QED
      BY <3>2, <3>3
  <2> QED
    BY <2>1, <2>2 DEF Reported
<1> QED
  BY <1>1, <1>2

LEMMA ReapingSteps ==
  ASSUME Children, Reported, ReapSome \/ WaitToOpen \/ WaitToZap \/ ForkAgain \/ ReapAll
  PROVE  Reported'
<1>1. CASE ReapSome
  BY <1>1, ReapReports DEF ReapSome, At
<1>2. CASE WaitToOpen \/ WaitToZap
  <2>1. /\ pc \in {"open", "zap"} /\ UNCHANGED <<opt, outcome>> /\ outcome = "running"
        /\ \E t : WaitProc(t)
    BY <1>2 DEF WaitToOpen, WaitToZap, At
  <2>2. PICK t : WaitProc(t)
    BY <2>1
  <2> QED
    BY <2>1, <2>2, ReapReports DEF WaitProc
<1>3. CASE ForkAgain
  BY <1>3, ReapReports DEF ForkAgain, At
<1>4. CASE ReapAll /\ nprocs = 0
  BY <1>4 DEF ReapAll, At, Go, procs, Reported
<1>5. CASE ReapAll /\ nprocs # 0
  BY <1>5, ReapReports DEF ReapAll, At
<1> QED
  BY <1>1, <1>2, <1>3, <1>4, <1>5

LEMMA ForkedReports ==
  ASSUME Children, Reported, Forked
  PROVE  Reported'
<1> DEFINE kid == [temp |-> Subject, temphead |-> temphead, state |-> "forked",
                   reaped |-> FALSE, does |-> IF forRead THEN "decompress" ELSE "compress"]
<1>1. /\ child' = Append(child, kid) /\ child \in Seq(Process)
      /\ pc' \in {"open", Created} /\ UNCHANGED outcome /\ outcome = "running"
  BY DEF Forked, At, Go, end, Children, Table
<1>2. ~kid.reaped
  OBVIOUS
<1> HIDE DEF kid
<1>3. \A c \in DOMAIN child' :
        (c \in DOMAIN child /\ child'[c] = child[c]) \/ child'[c] = kid
  BY <1>1
<1>4. pc' # "exit" /\ outcome' # "ok"
  BY <1>1, CreatedPlace
<1> QED
  BY <1>2, <1>3, <1>4 DEF Reported

LEMMA OnwardSteps ==
  ASSUME Reported,
         \/ WriteOnly \/ ReadBuffer \/ WriteBuffer \/ MergeTemps
         \/ CreateTempFile \/ LinkTemp \/ Pipe \/ EnterFork \/ ForkError \/ NoFork
         \/ OpenFile \/ OpenTemp \/ Opened \/ OpenFailed
         \/ (\E i \in DOMAIN streams : EndOfInput(i)) \/ Unlink \/ Unlist
         \/ Pass \/ MergeBatch \/ EndPass \/ AvoidTrashingInput \/ FinalMerge \/ Squeeze
  PROVE  Reported'
<1> SUFFICES Onward
  BY OnwardStep
<1>1. CASE WriteOnly \/ ReadBuffer \/ WriteBuffer \/ MergeTemps
  BY <1>1 DEF WriteOnly, ReadBuffer, WriteBuffer, MergeTemps, Start, At, Go, Onward,
     procs, end
<1>2. CASE CreateTempFile \/ LinkTemp \/ Pipe \/ EnterFork \/ ForkError \/ NoFork
  BY <1>2, CreatedPlace DEF CreateTempFile, LinkTemp, Pipe, EnterFork, ForkError, NoFork,
     At, Go, Die, Onward, procs, end
<1>3. CASE OpenFile \/ OpenTemp \/ Opened \/ OpenFailed
  BY <1>3 DEF OpenFile, OpenTemp, Opened, OpenFailed, At, Go, Die, Onward, procs, end
<1>4. CASE (\E i \in DOMAIN streams : EndOfInput(i)) \/ Unlink \/ Unlist
  BY <1>4 DEF EndOfInput, Unlink, Unlist, At, Go, Onward, procs, end
<1>5. CASE Pass \/ MergeBatch \/ EndPass \/ AvoidTrashingInput \/ FinalMerge \/ Squeeze
  BY <1>5 DEF Pass, MergeBatch, EndPass, AvoidTrashingInput, FinalMerge, Squeeze, Start,
     At, Go, Onward, procs, end
<1> QED
  BY <1>1, <1>2, <1>3, <1>4, <1>5

\* A merge ends sort at once only if there was nothing to sort.
LEMMA MergeDoneReports ==
  ASSUME Reported, MergeDone
  PROVE  Reported'
<1>1. /\ UNCHANGED <<opt, child, nprocs, outcome>> /\ outcome = "running"
      /\ pc' = "exit" => opt.buffers = 0
  BY DEF MergeDone, At, Go, procs, end
<1> QED
  BY <1>1 DEF Reported

LEMMA EndReports ==
  ASSUME Reported, Exit \/ Signal \/ SigPipe \/ UNCHANGED vars
  PROVE  Reported'
<1>1. CASE Exit
  BY <1>1 DEF Exit, At, procs, Reported
<1>2. CASE Signal \/ SigPipe
  BY <1>2 DEF Signal, SigPipe, procs, Reported
<1>3. CASE UNCHANGED vars
  BY <1>3 DEF vars, procs, end, Reported
<1> QED
  BY <1>1, <1>2, <1>3

\* A child that still runs has not been reaped.
LEMMA ChildReports ==
  ASSUME Children, Reported, NEW c \in DOMAIN child,
         ChildStep(c) \/ ProgramFails(c) \/ SignalForked(c)
  PROVE  Reported'
<1>1. PICK st \in {"runs", "ok", "failed", "sigpipe"} :
        child' = [child EXCEPT ![c].state = st] /\ UNCHANGED sort
  BY DEF ChildStep, Exec, Finish, NobodyReads, ProgramFails, SignalForked, Becomes
<1>2. /\ UNCHANGED <<opt, pc, nprocs, why, outcome>> /\ ~child[c].reaped
  BY <1>1 DEF sort, end, Reported, ChildStep, Exec, Finish, NobodyReads, ProgramFails,
     SignalForked, Is
<1>3. \A k \in DOMAIN child' :
        /\ k \in DOMAIN child
        /\ IF k = c THEN child'[k].reaped = child[k].reaped ELSE child'[k] = child[k]
  BY <1>1, ChildType DEF Children, Table, Process
<1> QED
  BY <1>2, <1>3 DEF Reported

LEMMA InitReported == Init => Reported
BY DEF Init, Reported

LEMMA NextReported ==
  ASSUME Children, Reported, [Next]_vars
  PROVE  Reported'
<1>1. CASE SortStep
  BY <1>1, ReapingSteps, ForkedReports, OnwardSteps, MergeDoneReports, EndReports
  DEF SortStep
<1>2. ASSUME NEW c \in DOMAIN child, ChildStep(c) \/ ProgramFails(c) \/ SignalForked(c)
      PROVE  Reported'
  BY <1>2, ChildReports
<1> QED
  BY <1>1, <1>2, EndReports DEF Next

\* sort that reads its input, as opposed to sort -m, reaps all its children before it
\* exits with success, so that the failure of the compression program, at any of its
\* runs, cannot go unnoticed (reap_all, reap).
THEOREM SortingReportsFailure == Spec => [](opt.buffers > 0 => FailureReported)
<1>1. ASSUME Children, Reported PROVE opt.buffers > 0 => FailureReported
  <2> SUFFICES ASSUME opt.buffers > 0, outcome = "ok", NEW c \in DOMAIN child
               PROVE  child[c].state # "failed"
    BY DEF FailureReported
  <2>1. nprocs = 0
    BY <1>1 DEF Reported
  <2>2. Unreaped = {}
    BY <1>1, <2>1, Numbers, FS_EmptySet DEF Children, Table
  <2>3. child[c].temp \in Temps
    BY <1>1, ChildType DEF Children, Table
  <2>4. child[c].reaped
    BY <1>1, <2>2, <2>3 DEF Children, Table, Tabled, Unreaped
  <2> QED
    BY <1>1, <2>4 DEF Reported
<1> QED
  BY InitInv, NextInv, InitChildren, NextChildren, InitReported, NextReported, <1>1, PTL
  DEF Spec

-----------------------------------------------------------------------------
(* The inductive invariant.  While the buffers are written, the list has   *)
(* their files; then the array has them, the temporary ones first, each of *)
(* them once, and a file of the array or of this pass has its name as long *)
(* as it is not an input of the merge under way that has come to its end.  *)

Making == {"create", "created", "pipe", "reapsome", "fork", "forked", "nofork"}
Merges == {"open", "openfailed", "merge", "zap", "unlinked", "squeeze"}
Between == {"pass", "batch", "endpass", "avoid", "final"}
Closing == {"merge", "zap", "unlinked"}
Filling == pc \in {"read", "write"} \/ (pc \in Making /\ job.goal = "buffer")
Combining == pc \in Merges \/ (pc \in Making /\ job.goal # "buffer")

Array ==
  /\ files \in Seq(Int) /\ done \in Seq(Int)
  /\ ntemps \in Nat /\ ntemps <= Len(files)
  /\ \A x \in ToSet(files) \cup ToSet(done) : x <= made

Once ==
  /\ \A i \in 1..ntemps, j \in DOMAIN files : files[i] = files[j] => i = j
  /\ \A i, j \in DOMAIN done : done[i] = done[j] => i = j
  /\ ToSet(done) \cap ToSet(files) = {}

Output ==
  target \in Temps =>
    target <= made /\ target \in linked /\ target \notin ToSet(files) \cup ToSet(done)

IsList(s) == Len(s) \in Nat /\ s = [i \in 1..Len(s) |-> s[i]]

IsStream(s) == s = [file |-> s.file, pid |-> s.pid, eof |-> s.eof, got |-> s.got]

Inputs ==
  /\ IsList(streams)
  /\ \A i \in DOMAIN streams :
       /\ IsStream(streams[i])
       /\ streams[i].eof => pc \in Closing
       /\ job.goal # "copy" => i <= job.n /\ streams[i].file = files[i]

Present ==
  \A x \in (ToSet(files) \cup ToSet(done)) \cap Temps :
    \/ x \in linked
    \/ \E i \in DOMAIN streams :
         i <= job.ntemps /\ streams[i].eof /\ streams[i].file = x

Jobs ==
  /\ job = [goal |-> job.goal, n |-> job.n, ntemps |-> job.ntemps]
  /\ job.n \in Int /\ job.ntemps \in Int
  /\ Combining => /\ job.goal # "buffer" /\ 0 <= job.n
                  /\ 0 <= job.ntemps /\ job.ntemps <= ntemps
                  /\ IF job.goal = "copy" THEN job.ntemps = 0 ELSE job.n <= Len(files)
                  /\ pc \notin {"create", "squeeze"} /\ job.goal # "final" => target \in Temps
  /\ pc \in Between \cup {"read"} => target = None /\ streams = << >>
  /\ pc = "squeeze" => job.n >= 3 /\ job.goal # "copy"
  /\ forRead => job.goal # "buffer" /\ Len(streams) < Len(Batch)

\* The list, wherever it is kept.
FullList == IF pc = "forked" THEN hidden ELSE temphead

Buffered ==
  Filling =>
    /\ files = << >> /\ done = << >> /\ ntemps = 0 /\ streams = << >>
    /\ \A k, l \in DOMAIN FullList : FullList[k] = FullList[l] => k = l
    /\ \A x \in ToSet(FullList) :
         x \in linked /\ x <= made /\ (pc = "created" => x # target)

AtWork == outcome = "running" /\ pc \notin {"reapall", "exit"}

Orphans == \A c \in DOMAIN child : child[c].temphead = << >>

Lifetimes ==
  /\ Orphans
  /\ AtWork => Array /\ Once /\ Output /\ Inputs /\ Present /\ Jobs /\ Buffered

-----------------------------------------------------------------------------
(* Sequences.                                                              *)

LEMMA Elements ==
  ASSUME NEW s, NEW x
  PROVE  x \in ToSet(s) <=> \E i \in DOMAIN s : x = s[i]
BY DEF ToSet

\* What is left of a sequence after the first n.
LEMMA Rest ==
  ASSUME NEW s \in Seq(Int), NEW n \in Nat
  PROVE  LET r == SubSeq(s, n + 1, Len(s))
         IN /\ r \in Seq(Int)
            /\ Len(r) = IF n < Len(s) THEN Len(s) - n ELSE 0
            /\ \A i \in DOMAIN r : n + i \in DOMAIN s /\ r[i] = s[n + i]
<1>1. Len(s) \in Nat /\ DOMAIN s = 1..Len(s)
  OBVIOUS
<1>2. CASE n < Len(s)
  <2> DEFINE r == SubSeq(s, n + 1, Len(s))
  <2>1. n + 1 \in 1..(Len(s) + 1) /\ Len(s) \in n..Len(s)
    BY <1>1, <1>2
  <2>2. /\ r \in Seq(Int) /\ Len(r) = Len(s) - n
        /\ \A i \in 1..(Len(s) - n) : r[i] = s[n + i]
    <3>1. ASSUME NEW k \in 1..Len(s)
          PROVE  LET b == SubSeq(s, k, Len(s))
                 IN b \in Seq(Int) /\ Len(b) = Len(s) - k + 1
                    /\ \A i \in 1..(Len(s) - k + 1) : b[i] = s[k + i - 1]
      BY <1>1
    <3>2. n + 1 \in 1..Len(s) /\ Len(s) - (n + 1) + 1 = Len(s) - n
      BY <1>1, <1>2
    <3>3. \A i \in 1..(Len(s) - n) : n + 1 + i - 1 = n + i
      BY <1>1
    <3>4. /\ r \in Seq(Int) /\ Len(r) = Len(s) - (n + 1) + 1
          /\ \A i \in 1..(Len(s) - (n + 1) + 1) : r[i] = s[n + 1 + i - 1]
      BY <3>1, <3>2
    <3> HIDE DEF r
    <3> QED
      BY <3>2, <3>3, <3>4
  <2>3. DOMAIN r = 1..(Len(s) - n)
    BY <2>2
  <2> HIDE DEF r
  <2>4. \A i \in 1..(Len(s) - n) : n + i \in 1..Len(s)
    BY <1>1
  <2>5. \A i \in DOMAIN r : n + i \in DOMAIN s /\ r[i] = s[n + i]
    BY <1>1, <2>2, <2>3, <2>4
  <2>6. /\ r \in Seq(Int)
        /\ Len(r) = IF n < Len(s) THEN Len(s) - n ELSE 0
    BY <1>2, <2>2
  <2> QED
    BY <2>5, <2>6 DEF r
<1>3. CASE ~(n < Len(s))
  <2>1. SubSeq(s, n + 1, Len(s)) = << >>
    BY <1>1, <1>3
  <2> QED
    BY <1>3, <2>1
<1> QED
  BY <1>2, <1>3

\* One sequence after another.
LEMMA Joined ==
  ASSUME NEW s \in Seq(Int), NEW t \in Seq(Int)
  PROVE  /\ s \o t \in Seq(Int) /\ Len(s \o t) = Len(s) + Len(t)
         /\ \A i \in DOMAIN s : (s \o t)[i] = s[i]
         /\ \A i \in DOMAIN (s \o t) : i > Len(s) => /\ i - Len(s) \in DOMAIN t
                                                     /\ (s \o t)[i] = t[i - Len(s)]
         /\ \A i \in DOMAIN (s \o t) : ~(i > Len(s)) => i \in DOMAIN s
<1> DEFINE r == s \o t
<1>1. /\ Len(s) \in Nat /\ Len(t) \in Nat /\ DOMAIN s = 1..Len(s) /\ DOMAIN t = 1..Len(t)
  OBVIOUS
<1>2. /\ r \in Seq(Int) /\ Len(r) = Len(s) + Len(t)
      /\ \A i \in 1..(Len(s) + Len(t)) : r[i] = IF i <= Len(s) THEN s[i] ELSE t[i - Len(s)]
  OBVIOUS
<1>3. DOMAIN r = 1..(Len(s) + Len(t))
  BY <1>2
<1> HIDE DEF r
<1>4. \A i \in DOMAIN s : r[i] = s[i]
  BY <1>1, <1>2
<1>5. \A i \in DOMAIN r : i > Len(s) => i - Len(s) \in DOMAIN t /\ r[i] = t[i - Len(s)]
  BY <1>1, <1>2, <1>3
<1>6. \A i \in DOMAIN r : ~(i > Len(s)) => i \in DOMAIN s
  BY <1>1, <1>3
<1> QED
  BY <1>2, <1>4, <1>5, <1>6 DEF r

\* The inputs with one more.
LEMMA Longer ==
  ASSUME NEW s, IsList(s), NEW e
  PROVE  /\ IsList(Append(s, e)) /\ DOMAIN s = 1..Len(s) /\ Len(s) \in Nat
         /\ DOMAIN Append(s, e) = DOMAIN s \cup {Len(s) + 1}
         /\ \A i \in DOMAIN s : Append(s, e)[i] = s[i]
         /\ Append(s, e)[Len(s) + 1] = e
<1> DEFINE S == { s[i] : i \in 1..Len(s) } \cup {e}
           n == Len(s)
<1>1. n \in Nat /\ s = [i \in 1..n |-> s[i]]
  BY DEF IsList
<1>2. s \in [1..n -> S]
  BY <1>1
<1>3. s \in Seq(S) /\ e \in S
  BY <1>1, <1>2
<1> HIDE DEF S
<1>4. /\ Append(s, e) \in Seq(S) /\ Len(Append(s, e)) = n + 1 /\ DOMAIN s = 1..n
      /\ \A i \in 1..n : Append(s, e)[i] = s[i]
      /\ Append(s, e)[n + 1] = e
  BY <1>3
<1>5. IsList(Append(s, e)) /\ DOMAIN Append(s, e) = 1..(n + 1)
  <2> DEFINE r == Append(s, e)
  <2>1. r \in Seq(S) /\ Len(r) = n + 1 /\ n + 1 \in Nat
    BY <1>1, <1>4
  <2> HIDE DEF r, n
  <2>2. r \in [1..Len(r) -> S]
    BY <2>1
  <2>3. r = [i \in 1..Len(r) |-> r[i]] /\ DOMAIN r = 1..(n + 1)
    BY <2>1, <2>2
  <2> QED
    BY <2>1, <2>3 DEF IsList, r
<1> HIDE DEF n
<1>6. 1..(n + 1) = 1..n \cup {n + 1}
  BY <1>1
<1> QED
  BY <1>1, <1>4, <1>5, <1>6 DEF n

\* The inputs without the last one.
LEMMA Shorter ==
  ASSUME NEW s, IsList(s), Len(s) # 0
  PROVE  /\ IsList(Front(s)) /\ DOMAIN Front(s) = 1..(Len(s) - 1)
         /\ DOMAIN s = 1..Len(s) /\ Len(s) \in Nat
         /\ \A i \in DOMAIN Front(s) : i \in DOMAIN s /\ Front(s)[i] = s[i]
<1> DEFINE S == { s[i] : i \in 1..Len(s) }
           n == Len(s)
<1>1. n \in Nat /\ n # 0 /\ s = [i \in 1..n |-> s[i]]
  BY DEF IsList
<1>2. s \in [1..n -> S]
  BY <1>1
<1>3. s \in Seq(S) /\ DOMAIN s = 1..n
  BY <1>1, <1>2
<1> HIDE DEF S
<1>4. /\ SubSeq(s, 1, n - 1) \in Seq(S) /\ Len(SubSeq(s, 1, n - 1)) = n - 1
      /\ \A i \in 1..(n - 1) : SubSeq(s, 1, n - 1)[i] = s[i]
  BY <1>1, <1>3
<1>5. /\ IsList(Front(s)) /\ DOMAIN Front(s) = 1..(n - 1)
      /\ \A i \in 1..(n - 1) : Front(s)[i] = s[i]
  BY <1>4 DEF Front, IsList
<1> HIDE DEF n
<1>6. \A i \in 1..(n - 1) : i \in 1..n
  BY <1>1
<1> QED
  BY <1>1, <1>3, <1>5, <1>6 DEF n

LEMMA Lesser ==
  ASSUME NEW a \in Nat, NEW b \in Nat
  PROVE  /\ Min({a, b}) \in Nat /\ Min({a, b}) <= a /\ Min({a, b}) <= b
         /\ Min({a, b}) \in {a, b}
<1>1. \E x \in {a, b} : \A y \in {a, b} : x =< y
  OBVIOUS
<1>2. Min({a, b}) \in {a, b} /\ \A y \in {a, b} : Min({a, b}) =< y
  BY <1>1 DEF Min
<1> QED
  BY <1>2

-----------------------------------------------------------------------------
(* Steps that leave the files, the merge and the list alone.               *)

Passing ==
  /\ Orphans'
  /\ AtWork' =>
       /\ AtWork
       /\ UNCHANGED <<files, done, ntemps, job, streams, target, linked, made>>
       /\ pc' \in Between \cup {"read", "squeeze", "created"} => pc' = pc
       /\ Combining' => Combining
       /\ Filling' => Filling /\ FullList' = FullList
       /\ pc \in Closing => pc' \in Closing
       /\ pc \in {"create", "squeeze"} => pc' = pc
       /\ forRead' => forRead \/ (pc \in Merges /\ Len(streams) < Len(Batch))

LEMMA PassingStep ==
  ASSUME Lifetimes, Passing
  PROVE  Lifetimes'
<1> SUFFICES ASSUME AtWork'
             PROVE  (Array /\ Once /\ Output /\ Inputs /\ Present /\ Jobs /\ Buffered)'
  BY DEF Lifetimes, Passing
<1>1. /\ AtWork /\ Array /\ Once /\ Output /\ Inputs /\ Present /\ Jobs /\ Buffered
      /\ UNCHANGED <<files, done, ntemps, job, streams, target, linked, made>>
  BY DEF Lifetimes, Passing
<1>2. Array' /\ Once' /\ Output' /\ Present'
  BY <1>1 DEF Array, Once, Output, Present
<1>3. Inputs'
  BY <1>1 DEF Passing, Inputs, IsList
<1>4. Jobs'
  <2>1. Batch' = Batch
    BY <1>1 DEF Batch
  <2> QED
    BY <1>1, <2>1 DEF Passing, Jobs, Combining
<1>5. Buffered'
  <2>1. CASE Filling'
    <3>1. pc' = "created" => pc = "created"
      BY DEF Passing
    <3> QED
      BY <1>1, <2>1, <3>1 DEF Passing, Buffered
  <2>2. CASE ~Filling'
    BY <2>2 DEF Buffered
  <2> QED
    BY <2>1, <2>2
<1> QED
  BY <1>2, <1>3, <1>4, <1>5

\* The children never have a list.
LEMMA ReapOrphans ==
  ASSUME Children, Orphans, NEW C, NEW p, Reap(C, p)
  PROVE  Orphans'
<1>1. CASE \E c \in C : Abnormal(c)
  BY <1>1 DEF Reap, procs, Orphans
<1>2. CASE ~ \E c \in C : Abnormal(c)
  <2>1. child' = [c \in DOMAIN child |->
                    IF c \in C THEN [child[c] EXCEPT !.reaped = TRUE] ELSE child[c]]
    BY <1>2 DEF Reap
  <2>2. \A c \in DOMAIN child : child[c] \in Process
    BY ChildType DEF Children, Table
  <2>3. \A c \in DOMAIN child' : c \in DOMAIN child /\ child'[c].temphead = child[c].temphead
    BY <2>1, <2>2 DEF Process
  <2> QED
    BY <2>3 DEF Orphans
<1> QED
  BY <1>1, <1>2

\* A child whose temporary file is for sort to write, or to read.
LEMMA CreatedAt ==
  /\ job.goal = "buffer" => Created = "write"
  /\ job.goal # "buffer" => Created \in {"merge", "open"}
BY DEF Created

LEMMA ReapingLifetimes ==
  ASSUME Children, Lifetimes, ReapSome \/ WaitToOpen \/ WaitToZap \/ ReapAll
  PROVE  Lifetimes'
<1> SUFFICES Passing
  BY PassingStep
<1> USE DEF Passing, Combining, Filling, Making, Merges, Between, Closing, FullList, AtWork
<1>1. Orphans
  BY DEF Lifetimes
<1>2. CASE ReapSome
  <2>1. Orphans' /\ pc' \in {"fork", "exit"}
    BY <1>1, <1>2, ReapOrphans, ReapPlace DEF ReapSome
  <2> QED
    BY <1>2, <2>1 DEF ReapSome, At, array, merging, list, disk
<1>3. CASE WaitToOpen \/ WaitToZap
  <2>1. /\ pc \in {"open", "zap"} /\ outcome = "running" /\ \E t : WaitProc(t)
        /\ UNCHANGED <<array, merging, list, disk, forRead>>
    BY <1>3 DEF WaitToOpen, WaitToZap, At
  <2>2. Orphans' /\ pc' \in {pc, "exit"}
    BY <1>1, <2>1, ReapOrphans, ReapPlace DEF WaitProc
  <2> QED
    BY <2>1, <2>2 DEF array, merging, list, disk
<1>4. CASE ReapAll
  <2>1. pc' \in {"exit", "reapall"}
    BY <1>4, ReapPlace DEF ReapAll, At, Go
  <2>2. Orphans'
    BY <1>1, <1>4, ReapOrphans DEF ReapAll, procs, Orphans
  <2> QED
    BY <2>1, <2>2
<1> QED
  BY <1>2, <1>3, <1>4

LEMMA PipeForkLifetimes ==
  ASSUME Inv, Children, Lifetimes, Pipe \/ EnterFork \/ ForkAgain \/ ForkError \/ NoFork
  PROVE  Lifetimes'
<1> SUFFICES Passing
  BY PassingStep
<1>1. Orphans /\ (AtWork => Jobs)
  BY DEF Lifetimes
<1> USE DEF Passing, Combining, Filling, Making, Merges, Between, Closing, FullList, AtWork
<1>2. CASE Pipe
  BY <1>1, <1>2, CreatedAt DEF Pipe, At, Go, array, merging, list, procs, disk, end, Orphans, Jobs
<1>3. CASE EnterFork
  BY <1>1, <1>3 DEF EnterFork, At, Go, array, merging, procs, disk, end, Orphans
<1>4. CASE ForkAgain
  <2>1. Orphans' /\ pc' \in {"fork", "nofork", "exit"}
    BY <1>1, <1>4, ReapOrphans, ReapPlace DEF ForkAgain
  <2> QED
    BY <1>4, <2>1 DEF ForkAgain, LeaveFork, At, array, merging, disk
<1>5. CASE ForkError
  BY <1>1, <1>5 DEF ForkError, LeaveFork, At, Go, array, merging, procs, disk, end, Orphans
<1>6. CASE NoFork
  BY <1>1, <1>6, CreatedAt DEF NoFork, At, Go, Die, array, merging, list, procs, disk, Orphans
<1> QED
  BY <1>2, <1>3, <1>4, <1>5, <1>6

LEMMA LeavingLifetimes ==
  ASSUME Lifetimes, WriteOnly \/ OpenTemp \/ Unlist \/ Exit \/ Signal \/ SigPipe \/ UNCHANGED vars
  PROVE  Lifetimes'
<1> SUFFICES Passing
  BY PassingStep
<1>1. Orphans /\ (AtWork => Jobs)
  BY DEF Lifetimes
<1> USE DEF Passing, Combining, Filling, Making, Merges, Between, Closing, FullList, AtWork
<1>2. CASE WriteOnly
  <2>1. pc' = "reapall" /\ child' = child
    BY <1>2 DEF WriteOnly, Go, procs
  <2> QED
    BY <1>1, <2>1 DEF Orphans
<1>3. CASE OpenTemp
  BY <1>1, <1>3 DEF OpenTemp, At, Go, array, merging, list, procs, disk, end, Orphans, Jobs
<1>4. CASE Unlist
  BY <1>1, <1>4 DEF Unlist, At, Go, array, merging, procs, disk, end, Orphans
<1>5. CASE Exit \/ Signal \/ SigPipe
  BY <1>1, <1>5 DEF Exit, Signal, SigPipe, procs, Orphans
<1>6. CASE UNCHANGED vars
  BY <1>1, <1>6 DEF vars, array, merging, list, procs, disk, end, Orphans
<1> QED
  BY <1>2, <1>3, <1>4, <1>5, <1>6

\* A child changes only itself, and has no list to clean up.
LEMMA ChildLifetimes ==
  ASSUME Children, Lifetimes, NEW c \in DOMAIN child,
         ChildStep(c) \/ ProgramFails(c) \/ SignalForked(c)
  PROVE  Lifetimes'
<1>1. PICK st \in {"runs", "ok", "failed", "sigpipe"} :
        child' = [child EXCEPT ![c].state = st] /\ UNCHANGED sort
  BY DEF ChildStep, Exec, Finish, NobodyReads, ProgramFails, SignalForked, Becomes
<1>2. child[c].temphead = << >>
  BY DEF Lifetimes, Orphans
<1>3. linked' = linked
  <2>1. CASE SignalForked(c)
    <3>1. linked' = linked \ ToSet(<< >>)
      BY <1>2, <2>1 DEF SignalForked
    <3> QED
      BY <3>1, SetOfEmpty
  <2>2. CASE ChildStep(c) \/ ProgramFails(c)
    BY <2>2 DEF ChildStep, Exec, Finish, NobodyReads, ProgramFails, Becomes
  <2> QED
    BY <2>1, <2>2
<1>4. Orphans'
  <2>1. \A k \in DOMAIN child' : k \in DOMAIN child /\ child'[k].temphead = child[k].temphead
    BY <1>1, ChildType DEF Children, Table, Process
  <2> QED
    BY <2>1 DEF Lifetimes, Orphans
<1>5. Passing
  BY <1>1, <1>3, <1>4
  DEF sort, array, merging, list, end, Passing, Combining, Filling, FullList, AtWork
<1> QED
  BY <1>5, PassingStep


-----------------------------------------------------------------------------
(* Steps that change them.                                                 *)

Parts == Array /\ Once /\ Output /\ Inputs /\ Present /\ Jobs /\ Buffered

LEMMA PartsSuffice ==
  ASSUME Orphans', AtWork' => Parts'
  PROVE  Lifetimes'
BY DEF Lifetimes, Parts

LEMMA HaveParts ==
  ASSUME Children, Lifetimes
  PROVE  Orphans /\ (AtWork => Parts) /\ (forRead => pc \in PipeFork)
BY DEF Lifetimes, Parts, Children, Places

LEMMA ListType ==
  ASSUME NEW s \in Seq(Temps)
  PROVE  /\ s \in Seq(Int) /\ Len(s) \in Nat /\ 1..Len(s) = DOMAIN s
         /\ ToSet(s) \subseteq Int
<1>1. Len(s) \in Nat /\ s \in [1..Len(s) -> Temps] /\ Temps \subseteq Int
  BY ScenariosAssumption DEF Temps
<1>2. s \in [1..Len(s) -> Int]
  BY <1>1
<1> QED
  BY <1>1, <1>2 DEF ToSet

LEMMA ReadBufferLifetimes ==
  ASSUME Children, Lifetimes, ReadBuffer
  PROVE  Lifetimes'
<1>1. /\ pc = "read" /\ pc' = "create" /\ outcome = "running" /\ UNCHANGED outcome
      /\ UNCHANGED <<files, done, ntemps, streams, target, temphead, hidden, linked, made, child>>
      /\ job' = [goal |-> "buffer", n |-> 0, ntemps |-> 0] /\ forRead' = forRead
  BY DEF ReadBuffer, Start, At, Go, array, list, procs, disk, end
<1>2. Array /\ Once /\ Output /\ Inputs /\ Present /\ Jobs /\ Buffered /\ Orphans /\ ~forRead
  BY <1>1, HaveParts DEF Parts, AtWork, PipeFork, Forking
<1>3. streams = << >> /\ files = << >> /\ done = << >>
  BY <1>1, <1>2 DEF Buffered, Filling
<1>4. Array' /\ Once' /\ Output' /\ Present' /\ Orphans'
  BY <1>1, <1>2, <1>3 DEF Array, Once, Output, Present, Orphans
<1>5. Inputs'
  BY <1>1, <1>2, <1>3 DEF Inputs, IsList
<1>6. Buffered'
  BY <1>1, <1>2 DEF Buffered, Filling, FullList
<1>7. ~Combining' /\ pc' \notin Between \cup {"read", "squeeze"} /\ ~forRead'
  BY <1>1, <1>2 DEF Combining, Merges, Between
<1>8. /\ job' = [goal |-> job'.goal, n |-> job'.n, ntemps |-> job'.ntemps]
      /\ job'.n \in Int /\ job'.ntemps \in Int
  BY <1>1
<1>9. Jobs'
  BY <1>7, <1>8 DEF Jobs
<1> QED
  BY <1>4, <1>5, <1>6, <1>9, PartsSuffice DEF Parts

LEMMA WriteBufferLifetimes ==
  ASSUME Children, Lifetimes, WriteBuffer
  PROVE  Lifetimes'
<1>1. /\ pc = "write" /\ pc' = "read" /\ outcome = "running" /\ UNCHANGED outcome
      /\ UNCHANGED <<files, done, ntemps, streams, job, temphead, hidden, linked, made, child>>
      /\ target' = None /\ forRead' = forRead
  BY DEF WriteBuffer, Write, At, Go, list, procs, end
<1>2. Array /\ Once /\ Output /\ Inputs /\ Present /\ Jobs /\ Buffered /\ Orphans /\ ~forRead
  BY <1>1, HaveParts DEF Parts, AtWork, PipeFork, Forking
<1>3. streams = << >> /\ None \notin Temps
  BY <1>1, <1>2 DEF Buffered, Filling, None, Temps
<1>4. Array' /\ Once' /\ Output' /\ Present' /\ Orphans'
  BY <1>1, <1>2, <1>3 DEF Array, Once, Output, Present, Orphans
<1>5. Inputs'
  BY <1>1, <1>2, <1>3 DEF Inputs, IsList
<1>6. Buffered'
  BY <1>1, <1>2 DEF Buffered, Filling, FullList
<1>7. ~Combining' /\ pc' # "squeeze" /\ ~forRead'
  BY <1>1, <1>2 DEF Combining, Merges, Making
<1>8. Jobs'
  BY <1>1, <1>2, <1>3, <1>7 DEF Jobs
<1> QED
  BY <1>4, <1>5, <1>6, <1>8, PartsSuffice DEF Parts

\* The list becomes the array.
LEMMA MergeTempsLifetimes ==
  ASSUME Inv, Children, Lifetimes, MergeTemps
  PROVE  Lifetimes'
<1>1. /\ pc = "read" /\ pc' = "pass" /\ outcome = "running" /\ UNCHANGED outcome
      /\ UNCHANGED <<done, streams, job, target, temphead, hidden, linked, made, child>>
      /\ files' = temphead /\ ntemps' = Len(temphead) /\ forRead' = forRead
  BY DEF MergeTemps, At, Go, merging, list, procs, disk, end
<1>2. Array /\ Once /\ Output /\ Inputs /\ Present /\ Jobs /\ Buffered /\ Orphans /\ ~forRead
  BY <1>1, HaveParts DEF Parts, AtWork, PipeFork, Forking
<1>3. /\ streams = << >> /\ done = << >> /\ target = None /\ None \notin Temps
      /\ \A k, l \in DOMAIN temphead : temphead[k] = temphead[l] => k = l
      /\ \A x \in ToSet(temphead) : x \in linked /\ x <= made
  BY <1>1, <1>2 DEF Buffered, Filling, FullList, Jobs, None, Temps
<1>4. ToSet(done) = {} /\ done' = << >>
  BY <1>1, <1>3, SetOfEmpty
<1>5. temphead \in Seq(Int) /\ Len(temphead) \in Nat /\ 1..Len(temphead) = DOMAIN temphead
  BY ListType DEF Inv, Typed
<1>6. Array'
  BY <1>1, <1>2, <1>3, <1>4, <1>5 DEF Array
<1>7. Once' /\ Output' /\ Present' /\ Orphans'
  BY <1>1, <1>2, <1>3, <1>4, <1>5 DEF Once, Output, Present, Orphans
<1>8. Inputs'
  BY <1>1, <1>2, <1>3 DEF Inputs, IsList
<1>9. Buffered' /\ Jobs'
  BY <1>1, <1>2, <1>3 DEF Buffered, Filling, Making, Jobs, Combining, Merges, Between
<1> QED
  BY <1>6, <1>7, <1>8, <1>9, PartsSuffice DEF Parts

LEMMA CreateLifetimes ==
  ASSUME Inv, Children, Lifetimes, CreateTempFile
  PROVE  Lifetimes'
<1>1. /\ pc = "create" /\ outcome = "running" /\ UNCHANGED outcome
      /\ UNCHANGED <<files, done, ntemps, streams, job, temphead, hidden, child, forRead>>
  BY DEF CreateTempFile, At, array, procs
<1>2. Array /\ Once /\ Output /\ Inputs /\ Present /\ Jobs /\ Buffered /\ Orphans /\ ~forRead
  BY <1>1, HaveParts DEF Parts, AtWork, PipeFork, Forking
<1>3. CASE HasFds(1)
  <2>1. /\ pc' = "created" /\ made' = made + 1 /\ linked' = linked \cup {made + 1}
        /\ target' = made + 1
    BY <1>3 DEF CreateTempFile, Go
  <2>2. made \in Nat /\ ToSet(temphead) \subseteq Int
    BY ListType DEF Inv, Typed
  <2>3. ToSet(files) \cup ToSet(done) \subseteq Int
    BY <1>2 DEF Array, ToSet
  <2>4. \A x \in ToSet(files) \cup ToSet(done) : x <= made + 1 /\ x # made + 1
    BY <1>2, <2>2, <2>3 DEF Array
  <2>5. Array'
    BY <1>1, <1>2, <2>1, <2>4 DEF Array
  <2>6. Once' /\ Present' /\ Orphans'
    BY <1>1, <1>2, <2>1 DEF Once, Present, Orphans
  <2>7. Output'
    BY <1>1, <2>1, <2>2, <2>4 DEF Output
  <2>8. Inputs'
    BY <1>1, <1>2, <2>1 DEF Inputs, IsList, Closing
  <2>14. target' \in Temps
    BY <1>3, <2>1, <2>2, ScenariosAssumption DEF CreateTempFile, Temps
  <2>9. Jobs'
    BY <1>1, <1>2, <2>1, <2>14 DEF Jobs, Combining, Merges, Making, Between
  <2>10. Filling' => Filling
    BY <1>1, <2>1 DEF Filling, Making
  <2>11. FullList = temphead /\ FullList' = temphead
    BY <1>1, <2>1 DEF FullList
  <2>12. Filling => \A x \in ToSet(temphead) : x <= made + 1 /\ x # made + 1
    BY <1>2, <2>2, <2>11 DEF Buffered
  <2>13. Buffered'
    BY <1>1, <1>2, <2>1, <2>10, <2>11, <2>12 DEF Buffered
  <2> QED
    BY <2>5, <2>6, <2>7, <2>8, <2>9, <2>13, PartsSuffice DEF Parts
<1>4. CASE ~HasFds(1)
  <2>1. /\ UNCHANGED <<made, linked, target>>
        /\ \/ pc' = "exit"
           \/ job.goal = "squeeze" /\ job.n > 2 /\ pc' = "squeeze"
    BY <1>4 DEF CreateTempFile, Go, Die
  <2>2. CASE pc' = "exit"
    BY <1>1, <1>2, <2>2, PartsSuffice DEF AtWork, Orphans
  <2>3. CASE job.goal = "squeeze" /\ job.n > 2 /\ pc' = "squeeze"
    <3>1. Array' /\ Once' /\ Output' /\ Present' /\ Orphans'
      BY <1>1, <1>2, <2>1 DEF Array, Once, Output, Present, Orphans
    <3>2. Inputs' /\ Buffered'
      BY <1>1, <1>2, <2>3 DEF Inputs, IsList, Closing, Buffered, Filling, Making
    <3>3. job.n \in Int /\ Combining
      BY <1>1, <1>2, <2>3 DEF Jobs, Combining, Making
    <3>4. Jobs'
      BY <1>1, <1>2, <2>3, <3>3 DEF Jobs, Combining, Between
    <3> QED
      BY <3>1, <3>2, <3>4, PartsSuffice DEF Parts
  <2> QED
    BY <2>1, <2>2, <2>3
<1> QED
  BY <1>3, <1>4

LEMMA LinkLifetimes ==
  ASSUME Inv, Children, Lifetimes, LinkTemp
  PROVE  Lifetimes'
<1>1. /\ pc = "created" /\ pc' \in {"pipe", Created} /\ outcome = "running" /\ UNCHANGED outcome
      /\ UNCHANGED <<files, done, ntemps, streams, job, target, forRead, linked, made, child>>
      /\ temphead' = Append(temphead, target)
  BY DEF LinkTemp, At, Go, array, merging, procs, disk, end
<1>2. Array /\ Once /\ Output /\ Inputs /\ Present /\ Jobs /\ Buffered /\ Orphans /\ ~forRead
  BY <1>1, HaveParts DEF Parts, AtWork, PipeFork, Forking
<1>3. Array' /\ Once' /\ Output' /\ Present' /\ Orphans'
  BY <1>1, <1>2 DEF Array, Once, Output, Present, Orphans
<1>4. Inputs' /\ Jobs'
  BY <1>1, <1>2, CreatedAt DEF Inputs, IsList, Closing, Jobs, Combining, Merges, Making, Between
<1>5. Buffered'
  <2> SUFFICES ASSUME Filling' PROVE Buffered'
    BY DEF Buffered
  <2>1. /\ Filling /\ pc' # "created" /\ pc' # "forked"
    BY <1>1, CreatedAt DEF Filling, Making
  <2>2. FullList = temphead /\ FullList' = Append(temphead, target)
    BY <1>1, <2>1 DEF FullList
  <2>3. /\ temphead \in Seq(Temps) /\ target \in Temps /\ target \in linked /\ target <= made
    BY <1>1, <1>2 DEF Inv, Typed, Output
  <2>4. \A x \in ToSet(Append(temphead, target)) : x \in linked /\ x <= made
    BY <1>1, <1>2, <2>1, <2>2, <2>3, SetOfAppend DEF Buffered
  <2>5. \A k \in DOMAIN temphead : temphead[k] # target
    BY <1>1, <1>2, <2>1, <2>2, Elements DEF Buffered
  <2>6. \A k, l \in DOMAIN Append(temphead, target) :
          Append(temphead, target)[k] = Append(temphead, target)[l] => k = l
    <3> DEFINE r == Append(temphead, target)
    <3>1. /\ DOMAIN r = DOMAIN temphead \cup {Len(temphead) + 1} /\ r[Len(temphead) + 1] = target
          /\ \A k \in DOMAIN temphead : r[k] = temphead[k]
      <4>1. /\ Len(temphead) \in Nat /\ DOMAIN temphead = 1..Len(temphead)
            /\ r \in Seq(Temps) /\ Len(r) = Len(temphead) + 1 /\ DOMAIN r = 1..Len(r)
            /\ \A k \in 1..Len(temphead) : r[k] = temphead[k]
            /\ r[Len(temphead) + 1] = target
        BY <2>3
      <4> HIDE DEF r
      <4> QED
        BY <4>1
    <3> HIDE DEF r
    <3>2. \A k, l \in DOMAIN temphead : temphead[k] = temphead[l] => k = l
      BY <1>2, <2>1, <2>2 DEF Buffered
    <3>3. \A k, l \in DOMAIN r : r[k] = r[l] => k = l
      BY <2>5, <3>1, <3>2
    <3> QED
      BY <3>3 DEF r
  <2> QED
    BY <1>1, <1>2, <2>1, <2>2, <2>4, <2>6 DEF Buffered
<1> QED
  BY <1>3, <1>4, <1>5, PartsSuffice DEF Parts


\* From one place between merges to another.
LEMMA BetweenLifetimes ==
  ASSUME Children, Lifetimes, {pc, pc'} \subseteq Between, AtWork, ~forRead',
         UNCHANGED <<outcome, files, done, ntemps, job, streams, target, linked, made, child>>
  PROVE  Lifetimes'
<1>1. Array /\ Once /\ Output /\ Inputs /\ Present /\ Jobs /\ Orphans
  BY HaveParts DEF Parts
<1>2. streams = << >>
  BY <1>1 DEF Jobs
<1>3. Array' /\ Once' /\ Output' /\ Orphans' /\ Present' /\ Inputs'
  BY <1>1, <1>2 DEF Array, Once, Output, Orphans, Present, Inputs, IsList
<1>4. Jobs' /\ Buffered'
  BY <1>1 DEF Jobs, Combining, Merges, Making, Between, Buffered, Filling
<1> QED
  BY <1>1, <1>3, <1>4, PartsSuffice DEF Parts

\* A merge that is to be begun, from a place where none is under way.
LEMMA NewJobLifetimes ==
  ASSUME Children, Lifetimes, pc \in Between, AtWork, ~forRead', pc' \in {"create", "open"},
         UNCHANGED <<outcome, files, done, ntemps, streams, target, linked, made, child>>,
         NEW goal, NEW n \in Nat, NEW temps \in Nat,
         job' = [goal |-> goal, n |-> n, ntemps |-> temps],
         goal # "buffer", temps <= ntemps,
         IF goal = "copy" THEN temps = 0 ELSE n <= Len(files),
         pc' = "create" \/ goal = "final"
  PROVE  Lifetimes'
<1>1. Array /\ Once /\ Output /\ Inputs /\ Present /\ Jobs /\ Orphans
  BY HaveParts DEF Parts
<1>2. streams = << >> /\ target = None
  BY <1>1 DEF Jobs
<1>3. Array' /\ Once' /\ Output' /\ Orphans'
  BY <1>1 DEF Array, Once, Output, Orphans
<1>4. Present' /\ Inputs'
  BY <1>1, <1>2 DEF Present, Inputs, IsList
<1>5. /\ job' = [goal |-> job'.goal, n |-> job'.n, ntemps |-> job'.ntemps]
      /\ job'.goal = goal /\ job'.n = n /\ job'.ntemps = temps
      /\ n \in Int /\ temps \in Int /\ 0 <= n /\ 0 <= temps
  OBVIOUS
<1>6. Jobs'
  BY <1>5 DEF Jobs, Between
<1>7. Buffered'
  BY DEF Buffered, Filling
<1> QED
  BY <1>1, <1>3, <1>4, <1>6, <1>7, PartsSuffice DEF Parts

LEMMA MergeBatchLifetimes ==
  ASSUME Children, Lifetimes, MergeBatch
  PROVE  Lifetimes'
<1> DEFINE n == Len(files)
<1>1. /\ pc = "batch" /\ outcome = "running" /\ UNCHANGED outcome
      /\ UNCHANGED <<files, done, ntemps, streams, target, linked, made, child, forRead>>
      /\ UNCHANGED <<temphead, hidden>>
  BY DEF MergeBatch, At, array, list, procs, disk, end
<1>2. Array /\ Jobs /\ Orphans /\ ~forRead /\ AtWork
  BY <1>1, HaveParts DEF Parts, AtWork, PipeFork, Forking
<1>3. /\ n \in Nat /\ Len(done) \in Nat /\ ntemps \in Nat
      /\ opt.nmerge \in Nat /\ opt.nmerge >= 2
  BY <1>2, ScenariosAssumption DEF Array, Children, Limited, Scenario
<1>4. CASE n >= opt.nmerge
  <2>1. /\ job' = [goal |-> "batch", n |-> opt.nmerge, ntemps |-> Min({ntemps, opt.nmerge})]
        /\ pc' = "create"
    BY <1>3, <1>4 DEF MergeBatch, Start, Go
  <2>2. /\ Min({ntemps, opt.nmerge}) \in Nat /\ Min({ntemps, opt.nmerge}) <= ntemps
        /\ opt.nmerge <= Len(files)
    BY <1>3, <1>4, Lesser
  <2> QED
    BY <1>1, <1>2, <1>3, <2>1, <2>2, NewJobLifetimes DEF Between
<1>5. CASE n < opt.nmerge /\ CheapSlots < n
  <2> DEFINE k == n - CheapSlots + 1
  <2>1. CheapSlots \in Nat /\ CheapSlots >= 1
    BY <1>3 DEF CheapSlots
  <2>2. k \in Nat /\ k <= n
    <3> HIDE DEF n
    <3> QED
      BY <1>3, <1>5, <2>1
  <2>3. ~(n >= opt.nmerge)
    BY <1>3, <1>5
  <2>4. job' = [goal |-> "short", n |-> k, ntemps |-> Min({ntemps, k})] /\ pc' = "create"
    BY <1>5, <2>3 DEF MergeBatch, Start, Go
  <2> HIDE DEF k
  <2>5. Min({ntemps, k}) \in Nat /\ Min({ntemps, k}) <= ntemps
    BY <1>3, <2>2, Lesser
  <2> QED
    BY <1>1, <1>2, <2>2, <2>4, <2>5, NewJobLifetimes DEF Between
<1>6. CASE ~(n >= opt.nmerge) /\ ~(n < opt.nmerge /\ CheapSlots < n)
  <2>1. pc' = "endpass" /\ UNCHANGED job
    BY <1>6 DEF MergeBatch, Go
  <2> QED
    BY <1>1, <1>2, <2>1, BetweenLifetimes DEF Between
<1> QED
  BY <1>4, <1>5, <1>6

LEMMA BetweenMerges ==
  ASSUME Children, Lifetimes, Pass \/ AvoidTrashingInput \/ FinalMerge
  PROVE  Lifetimes'
<1>1. /\ pc \in {"pass", "avoid", "final"} /\ outcome = "running" /\ UNCHANGED outcome
      /\ UNCHANGED <<files, done, ntemps, streams, target, linked, made, child, forRead>>
  BY DEF Pass, AvoidTrashingInput, FinalMerge, At, array, merging, procs, disk, end
<1>2. Array /\ ~forRead /\ AtWork
  BY <1>1, HaveParts DEF Parts, AtWork, PipeFork, Forking
<1>3. Len(files) \in Nat /\ ntemps \in Nat
  BY <1>2 DEF Array
<1>4. CASE Pass
  BY <1>1, <1>2, <1>4, BetweenLifetimes DEF Pass, At, Go, merging, Between
<1>5. CASE AvoidTrashingInput
  <2>1. \/ /\ job' = [goal |-> "copy", n |-> 1, ntemps |-> 0] /\ pc' = "create"
        \/ UNCHANGED job /\ pc' = "final"
    BY <1>5 DEF AvoidTrashingInput, Start, Go
  <2> QED
    BY <1>1, <1>2, <1>3, <2>1, BetweenLifetimes, NewJobLifetimes DEF Between
<1>6. CASE FinalMerge
  <2>1. job' = [goal |-> "final", n |-> Len(files), ntemps |-> ntemps] /\ pc' = "open"
    BY <1>6 DEF FinalMerge, Go
  <2>2. pc \in Between /\ ~forRead' /\ Len(files) <= Len(files) /\ ntemps <= ntemps
    BY <1>1, <1>2, <1>3 DEF Between
  <2> QED
    BY <1>1, <1>2, <1>3, <2>1, <2>2, NewJobLifetimes
<1> QED
  BY <1>4, <1>5, <1>6

\* The outputs of a pass are the temporary files that the next one starts with.
LEMMA EndPassLifetimes ==
  ASSUME Inv, Children, Lifetimes, EndPass
  PROVE  Lifetimes'
<1>1. /\ pc = "endpass" /\ pc' = "pass" /\ outcome = "running" /\ UNCHANGED outcome
      /\ UNCHANGED <<job, streams, target, linked, made, child, forRead>>
      /\ files' = done \o files /\ ntemps' = ntemps + Len(done) /\ done' = << >>
  BY DEF EndPass, At, Go, merging, list, procs, disk, end
<1>2. Array /\ Once /\ Output /\ Inputs /\ Present /\ Jobs /\ Orphans /\ ~forRead
  BY <1>1, HaveParts DEF Parts, AtWork, PipeFork, Forking
<1>3. streams = << >> /\ target = None /\ None \notin Temps
  BY <1>1, <1>2 DEF Jobs, Between, None, Temps
<1> DEFINE d == Len(done)
           r == done \o files
<1>4. /\ files \in Seq(Int) /\ done \in Seq(Int) /\ d \in Nat /\ Len(files) \in Nat
      /\ DOMAIN done = 1..d /\ DOMAIN files = 1..Len(files)
      /\ ntemps \in Nat /\ ntemps <= Len(files)
  BY <1>2 DEF Array
<1>5. /\ r \in Seq(Int) /\ Len(r) = d + Len(files) /\ DOMAIN r = 1..(d + Len(files))
      /\ \A i \in DOMAIN done : r[i] = done[i]
      /\ \A i \in DOMAIN r : i > d => i - d \in DOMAIN files /\ r[i] = files[i - d]
      /\ \A i \in DOMAIN r : ~(i > d) => i \in DOMAIN done
  <2>1. /\ r \in Seq(Int) /\ Len(r) = d + Len(files)
        /\ \A i \in DOMAIN done : r[i] = done[i]
        /\ \A i \in DOMAIN r : i > d => i - d \in DOMAIN files /\ r[i] = files[i - d]
        /\ \A i \in DOMAIN r : ~(i > d) => i \in DOMAIN done
    BY <1>4, Joined
  <2> HIDE DEF r, d
  <2>2. DOMAIN r = 1..(d + Len(files))
    BY <2>1
  <2> QED
    BY <2>1, <2>2
<1> HIDE DEF d, r
<1>6. ToSet(r) \subseteq ToSet(files) \cup ToSet(done)
  BY <1>5, Elements
<1>7. files' = r /\ ntemps' = ntemps + d /\ ToSet(done') = {}
  BY <1>1, SetOfEmpty DEF r, d
<1>8. Array'
  <2>1. ntemps + d \in Nat /\ ntemps + d <= Len(r) /\ << >> \in Seq(Int)
    BY <1>4, <1>5
  <2>2. \A x \in ToSet(r) : x <= made
    BY <1>2, <1>6 DEF Array
  <2> QED
    BY <1>1, <1>5, <1>7, <2>1, <2>2 DEF Array
<1>9. Once'
  <2>1. ASSUME NEW i \in 1..(ntemps + d), NEW j \in DOMAIN r, r[i] = r[j]
        PROVE  i = j
    <3>1. i \in DOMAIN r /\ i \in Int /\ j \in Int
      BY <1>4, <1>5
    <3>2. CASE i > d /\ j > d
      <4>1. /\ i - d \in DOMAIN files /\ r[i] = files[i - d]
            /\ j - d \in DOMAIN files /\ r[j] = files[j - d]
        BY <1>5, <3>1, <3>2
      <4>2. i - d \in 1..ntemps
        BY <1>4, <3>1, <3>2
      <4>3. i - d = j - d
        BY <1>2, <2>1, <4>1, <4>2 DEF Once
      <4> QED
        BY <1>4, <3>1, <4>3
    <3>3. CASE ~(i > d) /\ ~(j > d)
      BY <1>2, <1>5, <2>1, <3>1, <3>3 DEF Once
    <3>4. CASE i > d /\ ~(j > d)
      BY <1>2, <1>5, <2>1, <3>1, <3>4, Elements DEF Once
    <3>5. CASE ~(i > d) /\ j > d
      BY <1>2, <1>5, <2>1, <3>1, <3>5, Elements DEF Once
    <3> QED
      BY <3>2, <3>3, <3>4, <3>5
  <2> QED
    BY <1>1, <1>7, <2>1 DEF Once
<1>10. Present' /\ Output' /\ Orphans'
  BY <1>1, <1>2, <1>3, <1>6, <1>7 DEF Present, Output, Orphans
<1>11. Inputs' /\ Buffered'
  BY <1>1, <1>2, <1>3 DEF Inputs, IsList, Buffered, Filling, Making
<1>12. Jobs'
  BY <1>1, <1>2, <1>3 DEF Jobs, Combining, Merges, Making, Between
<1> QED
  BY <1>8, <1>9, <1>10, <1>11, <1>12, PartsSuffice DEF Parts


-----------------------------------------------------------------------------
(* The steps of a merge.                                                   *)

\* The next input is the file at its place of the array.
LEMMA NextIsThere ==
  ASSUME Array, Inputs, Jobs, Combining, job.goal # "copy", Len(streams) < Len(Batch)
  PROVE  Len(streams) + 1 <= job.n /\ NextInput = files[Len(streams) + 1]
<1>1. /\ files \in Seq(Int) /\ job.n \in Int /\ 0 <= job.n /\ job.n <= Len(files)
      /\ Len(streams) \in Nat /\ Len(files) \in Nat
  BY DEF Array, Inputs, IsList, Jobs
<1>2. Batch = SubSeq(files, 1, job.n)
  BY DEF Batch
<1>3. /\ Len(SubSeq(files, 1, job.n)) = job.n
      /\ \A i \in 1..job.n : SubSeq(files, 1, job.n)[i] = files[i]
  BY <1>1
<1>4. Len(streams) + 1 \in 1..job.n
  BY <1>1, <1>2, <1>3
<1> QED
  BY <1>1, <1>2, <1>3, <1>4 DEF NextInput

\* One more input is open.
LEMMA OneMoreInput ==
  ASSUME Orphans', AtWork, Parts, Combining, pc \notin {"create", "squeeze"} \cup Closing,
         Len(streams) < Len(Batch), ~forRead', pc' = "open", outcome' = outcome,
         UNCHANGED <<files, done, ntemps, job, target, linked, made>>,
         NEW e, IsStream(e), ~e.eof, e.file = NextInput, streams' = Append(streams, e)
  PROVE  Lifetimes'
<1>1. Array /\ Once /\ Output /\ Inputs /\ Present /\ Jobs
  BY DEF Parts
<1>2. /\ IsList(streams') /\ DOMAIN streams' = DOMAIN streams \cup {Len(streams) + 1}
      /\ \A i \in DOMAIN streams : streams'[i] = streams[i]
      /\ streams'[Len(streams) + 1] = e
  BY <1>1, Longer DEF Inputs
<1>3. Array' /\ Once' /\ Output'
  BY <1>1 DEF Array, Once, Output
<1>4. Present'
  BY <1>1, <1>2 DEF Present
<1>5. Inputs'
  <2>1. \A i \in DOMAIN streams : ~streams[i].eof
    BY <1>1 DEF Inputs
  <2> QED
    BY <1>1, <1>2, <2>1, NextIsThere DEF Inputs
<1>6. Jobs'
  BY <1>1 DEF Jobs, Combining, Merges, Between
<1>7. Buffered'
  BY DEF Buffered, Filling, Making
<1> QED
  BY <1>3, <1>4, <1>5, <1>6, <1>7, PartsSuffice DEF Parts

LEMMA OpenFileLifetimes ==
  ASSUME Children, Lifetimes, OpenFile
  PROVE  Lifetimes'
<1>1. /\ pc = "open" /\ Len(streams) < Len(Batch)
      /\ outcome = "running" /\ UNCHANGED outcome
      /\ UNCHANGED <<files, done, ntemps, job, target, temphead, hidden, linked, made, child, forRead>>
  BY DEF OpenFile, At, array, list, procs, disk, end
<1>2. AtWork /\ Parts /\ Orphans' /\ Combining /\ ~forRead' /\ job.goal # "buffer"
  BY <1>1, HaveParts DEF AtWork, Orphans, Combining, Merges, PipeFork, Forking, Parts, Jobs
<1>3. CASE HasFds(1) /\ NextInput \in linked
  <2> DEFINE e == [file |-> NextInput, pid |-> 0, eof |-> FALSE, got |-> << >>]
  <2>1. streams' = Append(streams, e) /\ pc' = "open"
    BY <1>1, <1>3 DEF OpenFile
  <2>2. IsStream(e) /\ ~e.eof /\ e.file = NextInput
    BY DEF IsStream
  <2> HIDE DEF e
  <2> QED
    BY <1>1, <1>2, <2>1, <2>2, OneMoreInput DEF Closing
<1>4. CASE ~(HasFds(1) /\ NextInput \in linked)
  <2>1. pc' = "openfailed" /\ UNCHANGED streams
    BY <1>4 DEF OpenFile, Go
  <2>2. Passing
    BY <1>1, <1>2, <2>1 DEF Passing, Combining, Filling, Making, Merges, Between, Closing,
       FullList, AtWork
  <2> QED
    BY <2>2, PassingStep
<1> QED
  BY <1>3, <1>4

LEMMA ForkedLifetimes ==
  ASSUME Inv, Children, Lifetimes, Forked
  PROVE  Lifetimes'
<1>1. /\ pc = "forked" /\ ~forRead' /\ outcome = "running" /\ UNCHANGED outcome
      /\ temphead' = hidden
      /\ UNCHANGED <<files, done, ntemps, job, target, linked, made>>
  BY DEF Forked, LeaveFork, At, array, disk, end
<1>2. AtWork /\ Parts /\ Orphans
  BY <1>1, HaveParts DEF AtWork
<1>3. Orphans'
  <2> DEFINE kid == [temp |-> Subject, temphead |-> temphead, state |-> "forked",
                     reaped |-> FALSE, does |-> IF forRead THEN "decompress" ELSE "compress"]
  <2>1. child' = Append(child, kid) /\ child \in Seq(Process)
    BY DEF Forked, Children, Table
  <2>2. kid.temphead = << >>
    BY <1>1 DEF Inv, Masked
  <2> HIDE DEF kid
  <2>3. \A c \in DOMAIN child' :
          (c \in DOMAIN child /\ child'[c] = child[c]) \/ child'[c] = kid
    BY <2>1
  <2> QED
    BY <1>2, <2>2, <2>3 DEF Orphans
<1>4. CASE forRead
  <2> DEFINE e == [file |-> Subject, pid |-> Len(child) + 1, eof |-> FALSE, got |-> << >>]
  <2>1. /\ Len(streams) < Len(Batch) /\ job.goal # "buffer" /\ Combining
    BY <1>1, <1>2, <1>4 DEF Parts, Jobs, Combining, Making
  <2>2. streams' = Append(streams, e) /\ pc' = "open"
    BY <1>4 DEF Forked, Go
  <2>3. IsStream(e) /\ ~e.eof /\ e.file = NextInput
    BY <1>4 DEF IsStream, Subject
  <2> HIDE DEF e
  <2> QED
    BY <1>1, <1>2, <1>3, <2>1, <2>2, <2>3, OneMoreInput DEF Closing
<1>5. CASE ~forRead
  <2>1. streams' = streams /\ pc' = Created
    BY <1>5 DEF Forked, Go
  <2>2. Passing
    BY <1>1, <1>2, <1>3, <2>1, CreatedAt
    DEF Passing, Combining, Filling, Making, Merges, Between, Closing, FullList, AtWork
  <2> QED
    BY <2>2, PassingStep
<1> QED
  BY <1>4, <1>5

LEMMA OpenedLifetimes ==
  ASSUME Children, Lifetimes, Opened
  PROVE  Lifetimes'
<1>1. /\ pc = "open" /\ pc' = "merge" /\ outcome = "running" /\ UNCHANGED outcome
      /\ target' = IF job.goal = "final" THEN OutFile ELSE target
      /\ UNCHANGED <<files, done, ntemps, job, streams, linked, made, child, forRead>>
  BY DEF Opened, At, Go, array, procs, end
<1>2. /\ Array /\ Once /\ Output /\ Inputs /\ Present /\ Jobs /\ Orphans
      /\ ~forRead /\ Combining /\ OutFile \notin Temps
  BY <1>1, HaveParts DEF Parts, AtWork, Combining, Merges, PipeFork, Forking, OutFile, Temps
<1>3. Array' /\ Once' /\ Output' /\ Present' /\ Orphans'
  BY <1>1, <1>2 DEF Array, Once, Output, Present, Orphans
<1>4. Inputs'
  BY <1>1, <1>2 DEF Inputs, IsList, Closing
<1>5. Jobs' /\ Buffered'
  BY <1>1, <1>2 DEF Jobs, Combining, Merges, Between, Making, Buffered, Filling
<1> QED
  BY <1>3, <1>4, <1>5, PartsSuffice DEF Parts

LEMMA InputsFew ==
  ASSUME Inputs, Jobs, Combining, job.goal # "copy"
  PROVE  Len(streams) \in Nat /\ DOMAIN streams = 1..Len(streams) /\ Len(streams) <= job.n
<1>1. Len(streams) \in Nat /\ DOMAIN streams = 1..Len(streams)
  BY DEF Inputs, IsList
<1>2. CASE Len(streams) = 0
  BY <1>2 DEF Jobs
<1>3. CASE Len(streams) # 0
  <2>1. Len(streams) \in DOMAIN streams
    BY <1>1, <1>3
  <2> QED
    BY <1>1, <2>1 DEF Inputs
<1> QED
  BY <1>1, <1>2, <1>3

LEMMA OpenFailedLifetimes ==
  ASSUME Children, Lifetimes, OpenFailed
  PROVE  Lifetimes'
<1>1. /\ pc = "openfailed" /\ outcome = "running" /\ UNCHANGED outcome
      /\ job' = [job EXCEPT !.n = Len(streams)]
      /\ UNCHANGED <<files, done, ntemps, target, streams, linked, made, child, forRead>>
      /\ \/ pc' \in {"exit", "merge"}
         \/ pc' = "squeeze" /\ ~(Len(streams) <= 2) /\ job.goal = "final"
  BY DEF OpenFailed, At, Go, Die, array, procs, disk
<1>2. /\ Array /\ Once /\ Output /\ Inputs /\ Present /\ Jobs /\ Orphans /\ ~forRead /\ Combining
  BY <1>1, HaveParts DEF Parts, AtWork, Combining, Merges, PipeFork, Forking
<1>3. /\ job'.goal = job.goal /\ job'.n = Len(streams) /\ job'.ntemps = job.ntemps
      /\ job' = [goal |-> job'.goal, n |-> job'.n, ntemps |-> job'.ntemps]
  BY <1>1, <1>2 DEF Jobs
<1>4. Len(streams) \in Nat /\ DOMAIN streams = 1..Len(streams)
  BY <1>2 DEF Inputs, IsList
<1>5. Array' /\ Once' /\ Output' /\ Present' /\ Orphans'
  BY <1>1, <1>2, <1>3 DEF Array, Once, Output, Present, Orphans
<1>6. Inputs'
  BY <1>1, <1>2, <1>3, <1>4 DEF Inputs, IsList, Closing
<1>7. job.goal # "copy" => Len(streams) <= Len(files)
  <2> SUFFICES ASSUME job.goal # "copy" PROVE Len(streams) <= Len(files)
    OBVIOUS
  <2>1. Len(streams) <= job.n
    BY <1>2, InputsFew
  <2>2. job.n <= Len(files) /\ job.n \in Int /\ Len(files) \in Nat
    BY <1>2 DEF Jobs, Array
  <2> QED
    BY <1>4, <2>1, <2>2
<1>8. AtWork' => Jobs'
  <2>1. pc' = "squeeze" => Len(streams) >= 3 /\ job.goal # "copy"
    BY <1>1, <1>4
  <2>2. AtWork' => pc' \in {"merge", "squeeze"}
    BY <1>1 DEF AtWork
  <2>3. 0 <= Len(streams) /\ Len(streams) \in Int
    BY <1>4
  <2> QED
    BY <1>1, <1>2, <1>3, <1>7, <2>1, <2>2, <2>3 DEF Jobs, Between
<1>9. AtWork' => Buffered'
  BY <1>1 DEF AtWork, Buffered, Filling, Making
<1> QED
  BY <1>5, <1>6, <1>8, <1>9, PartsSuffice DEF Parts

LEMMA StreamChanged ==
  ASSUME NEW s, IsStream(s), NEW x, NEW g
  PROVE  [[s EXCEPT !.eof = x] EXCEPT !.got = g]
           = [file |-> s.file, pid |-> s.pid, eof |-> x, got |-> g]
<1>1. PICK a, b, c, d : s = [file |-> a, pid |-> b, eof |-> c, got |-> d]
  BY DEF IsStream
<1>2. [s EXCEPT !.eof = x] = [file |-> a, pid |-> b, eof |-> x, got |-> d]
  BY <1>1
<1>3. s.file = a /\ s.pid = b
  BY <1>1
<1>4. [[file |-> a, pid |-> b, eof |-> x, got |-> d] EXCEPT !.got = g]
        = [file |-> a, pid |-> b, eof |-> x, got |-> g]
  OBVIOUS
<1> QED
  BY <1>2, <1>3, <1>4

LEMMA EndOfInputLifetimes ==
  ASSUME Children, Lifetimes, NEW k \in DOMAIN streams, EndOfInput(k)
  PROVE  Lifetimes'
<1>1. /\ pc = "merge" /\ pc' \in {"merge", "zap"} /\ outcome = "running" /\ UNCHANGED outcome
      /\ ~streams[k].eof
      /\ UNCHANGED <<files, done, ntemps, job, target, linked, made, child, forRead>>
  BY DEF EndOfInput, At, Go, array, procs, disk, end
<1>2. PICK got \in Received(streams[k]) :
        streams' = [streams EXCEPT ![k].eof = TRUE, ![k].got = got]
  BY DEF EndOfInput
<1>3. /\ Array /\ Once /\ Output /\ Inputs /\ Present /\ Jobs /\ Orphans /\ ~forRead /\ Combining
  BY <1>1, HaveParts DEF Parts, AtWork, Combining, Merges, PipeFork, Forking
<1> DEFINE e == [file |-> streams[k].file, pid |-> streams[k].pid, eof |-> TRUE, got |-> got]
<1>4. /\ Len(streams) \in Nat /\ streams = [i \in 1..Len(streams) |-> streams[i]]
      /\ IsStream(streams[k])
  BY <1>3 DEF Inputs, IsList
<1>5. streams' = [i \in 1..Len(streams) |-> IF i = k THEN e ELSE streams[i]]
  <2>4. [[streams[k] EXCEPT !.eof = TRUE] EXCEPT !.got = got] = e
    BY <1>4, StreamChanged
  <2>5. DOMAIN streams = 1..Len(streams)
    BY <1>4
  <2>6. streams' = [[streams EXCEPT ![k].eof = TRUE] EXCEPT ![k].got = got]
    BY <1>2
  <2>7. streams' = [i \in DOMAIN streams |->
                      IF i = k THEN [[streams[k] EXCEPT !.eof = TRUE] EXCEPT !.got = got]
                      ELSE streams[i]]
    BY <2>6
  <2> HIDE DEF e
  <2> QED
    BY <2>4, <2>5, <2>7
<1>6. IsStream(e) /\ e.file = streams[k].file
  BY DEF IsStream
<1> HIDE DEF e
<1>7. DOMAIN streams' = DOMAIN streams /\ Len(streams') = Len(streams)
  BY <1>4, <1>5
<1>8. IsList(streams')
  BY <1>4, <1>5, <1>7 DEF IsList
<1>9. \A i \in DOMAIN streams :
        /\ i # k => streams'[i] = streams[i]
        /\ streams'[k] = e
  BY <1>4, <1>5
<1>10. Array' /\ Once' /\ Output' /\ Orphans'
  BY <1>1, <1>3 DEF Array, Once, Output, Orphans
<1>11. Present'
  BY <1>1, <1>3, <1>7, <1>9 DEF Present
<1>12. Inputs'
  BY <1>1, <1>3, <1>6, <1>7, <1>8, <1>9 DEF Inputs, Closing
<1>13. Jobs' /\ Buffered'
  BY <1>1, <1>3 DEF Jobs, Combining, Merges, Between, Making, Buffered, Filling
<1> QED
  BY <1>10, <1>11, <1>12, <1>13, PartsSuffice DEF Parts

\* What zaptemp removes is an input that has come to its end.
LEMMA UnlinkLifetimes ==
  ASSUME Children, Lifetimes, Unlink
  PROVE  Lifetimes'
<1>1. /\ pc = "zap" /\ pc' = "unlinked" /\ outcome = "running" /\ UNCHANGED outcome
      /\ linked' = linked \ {Zapped} /\ ZapPlaces # {}
      /\ UNCHANGED <<files, done, ntemps, job, streams, target, made, child, forRead>>
  BY DEF Unlink, At, Go, array, merging, procs, end
<1>2. /\ Array /\ Once /\ Output /\ Inputs /\ Present /\ Jobs /\ Orphans /\ ~forRead /\ Combining
  BY <1>1, HaveParts DEF Parts, AtWork, Combining, Merges, PipeFork, Forking
<1>3. PICK i \in DOMAIN streams : i <= job.ntemps /\ streams[i].eof /\ streams[i].file = Zapped
  BY <1>1 DEF ZapPlaces, Zapped, ZapPlace
<1>4. job.goal # "copy"
  <2>1. DOMAIN streams = 1..Len(streams) /\ Len(streams) \in Nat
    BY <1>2 DEF Inputs, IsList
  <2> QED
    BY <1>2, <1>3, <2>1 DEF Jobs
<1>5. Zapped \in ToSet(files)
  <2>1. DOMAIN streams = 1..Len(streams) /\ Len(streams) \in Nat /\ i \in Nat /\ i >= 1
    BY <1>2 DEF Inputs, IsList
  <2>2. i <= job.n /\ Zapped = files[i] /\ job.n <= Len(files) /\ job.n \in Int /\ Len(files) \in Nat
    BY <1>2, <1>3, <1>4 DEF Inputs, Jobs, Array
  <2>3. i \in DOMAIN files
    BY <1>2, <2>1, <2>2 DEF Array
  <2> QED
    BY <2>2, <2>3, Elements
<1>6. Array' /\ Once' /\ Orphans'
  BY <1>1, <1>2 DEF Array, Once, Orphans
<1>7. Output'
  BY <1>1, <1>2, <1>5 DEF Output
<1>8. Present'
  BY <1>1, <1>2, <1>3 DEF Present
<1>9. Inputs'
  BY <1>1, <1>2 DEF Inputs, IsList, Closing
<1>10. Jobs' /\ Buffered'
  BY <1>1, <1>2 DEF Jobs, Combining, Merges, Between, Making, Buffered, Filling
<1> QED
  BY <1>6, <1>7, <1>8, <1>9, <1>10, PartsSuffice DEF Parts


LEMMA SqueezeLifetimes ==
  ASSUME Children, Lifetimes, Squeeze
  PROVE  Lifetimes'
<1> DEFINE n == job.n - 1
           temps == Min({ntemps, n})
<1>1. /\ pc = "squeeze" /\ pc' = "create" /\ outcome = "running" /\ UNCHANGED outcome
      /\ job' = [goal |-> "squeeze", n |-> n, ntemps |-> temps]
      /\ streams' = Front(streams)
      /\ UNCHANGED <<files, done, ntemps, target, linked, made, child, forRead>>
  BY DEF Squeeze, Start, At, Go, array, procs, disk, end
<1>2. /\ Array /\ Once /\ Output /\ Inputs /\ Present /\ Jobs /\ Orphans /\ ~forRead /\ Combining
  BY <1>1, HaveParts DEF Parts, AtWork, Combining, Merges, PipeFork, Forking
<1>3. /\ job.n \in Int /\ job.n >= 3 /\ job.goal # "copy" /\ job.n <= Len(files)
      /\ ntemps \in Nat /\ Len(files) \in Nat
  BY <1>1, <1>2 DEF Jobs, Array
<1>4. n \in Nat /\ n <= Len(files)
  BY <1>3
<1>5. temps \in Nat /\ temps <= ntemps
  BY <1>3, <1>4, Lesser
<1>6. Len(streams) \in Nat /\ DOMAIN streams = 1..Len(streams) /\ Len(streams) <= job.n
  BY <1>2, <1>3, InputsFew
<1>7. /\ IsList(streams')
      /\ \A i \in DOMAIN streams' : i <= n /\ i \in DOMAIN streams /\ streams'[i] = streams[i]
  <2>1. CASE Len(streams) # 0
    <3>1. /\ IsList(streams') /\ DOMAIN streams' = 1..(Len(streams) - 1)
          /\ \A i \in DOMAIN streams' : i \in DOMAIN streams /\ streams'[i] = streams[i]
      BY <1>1, <1>2, <2>1, Shorter DEF Inputs
    <3>2. \A i \in 1..(Len(streams) - 1) : i <= job.n - 1
      BY <1>3, <1>6
    <3> QED
      BY <3>1, <3>2
  <2>2. CASE Len(streams) = 0
    <3>1. streams = << >>
      <4>1. streams = [i \in 1..0 |-> streams[i]]
        BY <1>2, <2>2 DEF Inputs, IsList
      <4>2. streams \in [1..0 -> {0}]
        BY <4>1
      <4>3. streams \in Seq({0})
        BY <4>2
      <4> QED
        BY <2>2, <4>3
    <3>2. streams' = << >>
      BY <1>1, <2>2, <3>1 DEF Front
    <3> QED
      BY <3>2 DEF IsList
  <2> QED
    BY <2>1, <2>2
<1> HIDE DEF n, temps
<1>8. Array' /\ Once' /\ Output' /\ Orphans'
  BY <1>1, <1>2 DEF Array, Once, Output, Orphans
<1>9. \A i \in DOMAIN streams : ~streams[i].eof
  BY <1>1, <1>2 DEF Inputs, Closing
<1>10. Present'
  BY <1>1, <1>2, <1>9 DEF Present
<1>11. Inputs'
  BY <1>1, <1>2, <1>3, <1>7, <1>9 DEF Inputs
<1>12. /\ job' = [goal |-> job'.goal, n |-> job'.n, ntemps |-> job'.ntemps]
       /\ job'.goal = "squeeze" /\ job'.n = n /\ job'.ntemps = temps
       /\ n \in Int /\ temps \in Int /\ 0 <= n /\ 0 <= temps
  BY <1>1, <1>4, <1>5
<1>13. Jobs'
  BY <1>1, <1>2, <1>4, <1>5, <1>12 DEF Jobs, Between
<1>14. Buffered'
  BY <1>1 DEF Buffered, Filling
<1> QED
  BY <1>8, <1>10, <1>11, <1>13, <1>14, PartsSuffice DEF Parts

\* What mergefps leaves: the inputs are gone, and the next place has none.
LEMMA AfterMerge ==
  ASSUME Children, Lifetimes, MergeDone,
         pc' \in Between => Array' /\ Once' /\ (\A x \in (ToSet(files') \cup ToSet(done')) \cap Temps : x \in linked)
  PROVE  Lifetimes'
<1>1. /\ pc = "merge" /\ pc' \in {"batch", "endpass", "final", "exit", "reapall"}
      /\ outcome = "running" /\ UNCHANGED outcome
      /\ target' = None /\ streams' = << >>
      /\ UNCHANGED <<job, linked, made, child, forRead>>
  BY DEF MergeDone, Write, At, Go, procs, end
<1>2. Orphans' /\ ~forRead' /\ Jobs
  BY <1>1, HaveParts DEF Parts, AtWork, PipeFork, Forking, Orphans
<1>3. CASE pc' \in {"exit", "reapall"}
  BY <1>2, <1>3, PartsSuffice DEF AtWork
<1>4. CASE pc' \in {"batch", "endpass", "final"}
  <2>1. Array' /\ Once' /\ Present'
    BY <1>1, <1>4 DEF Between, Present
  <2>2. Output' /\ Inputs'
    BY <1>1 DEF Output, None, Temps, Inputs, IsList
  <2>3. Jobs' /\ Buffered'
    BY <1>1, <1>2, <1>4 DEF Jobs, Combining, Merges, Making, Between, Buffered, Filling
  <2> QED
    BY <1>2, <2>1, <2>2, <2>3, PartsSuffice DEF Parts
<1> QED
  BY <1>1, <1>3, <1>4

\* What the merge leaves of the array: the files beyond the first n.
LEMMA LeftOver ==
  ASSUME Array, Once, Inputs, Present, Jobs, Combining, job.goal # "copy"
  PROVE  LET r == SubSeq(files, job.n + 1, Len(files))
         IN /\ r \in Seq(Int) /\ ToSet(r) \subseteq ToSet(files)
            /\ RemainingTemps \in Nat /\ RemainingTemps <= Len(r)
            /\ \A i \in 1..RemainingTemps, j \in DOMAIN r : r[i] = r[j] => i = j
            /\ \A i \in 1..RemainingTemps : \E j \in 1..ntemps : r[i] = files[j]
            /\ \A x \in ToSet(r) \cap Temps : x \in linked
<1> DEFINE n == job.n
           r == SubSeq(files, n + 1, Len(files))
<1>1. /\ n \in Nat /\ n <= Len(files) /\ files \in Seq(Int) /\ Len(files) \in Nat
      /\ DOMAIN files = 1..Len(files) /\ ntemps \in Nat /\ ntemps <= Len(files)
      /\ job.ntemps \in Int /\ job.ntemps <= ntemps
  BY DEF Array, Jobs
<1>2. /\ r \in Seq(Int)
      /\ Len(r) = IF n < Len(files) THEN Len(files) - n ELSE 0
      /\ \A i \in DOMAIN r : n + i \in DOMAIN files /\ r[i] = files[n + i]
  BY <1>1, Rest
<1>3. /\ RemainingTemps \in Nat /\ RemainingTemps <= Len(files) - n
      /\ RemainingTemps > 0 => RemainingTemps = ntemps - n
  <2>1. /\ Min({ntemps, n}) \in Nat /\ Min({ntemps, n}) <= ntemps /\ Min({ntemps, n}) <= n
        /\ Min({ntemps, n}) \in {ntemps, n}
    BY <1>1, Lesser
  <2>2. RemainingTemps = ntemps - Min({ntemps, n})
    BY DEF RemainingTemps
  <2> HIDE DEF n
  <2> QED
    BY <1>1, <2>1, <2>2
<1>4. Len(r) = Len(files) - n /\ DOMAIN r = 1..Len(r)
  <2>1. DOMAIN r = 1..Len(r)
    BY <1>2
  <2> HIDE DEF r, n
  <2>2. ASSUME NEW a \in Nat, NEW b \in Nat, b <= a
        PROVE  (IF b < a THEN a - b ELSE 0) = a - b
    <3>1. CASE b < a
      BY <3>1
    <3>2. CASE ~(b < a)
      <4>1. a = b
        BY <2>2, <3>2
      <4>2. a - b = 0
        BY <4>1
      <4> QED
        BY <3>2, <4>2
    <3> QED
      BY <3>1, <3>2
  <2>3. n \in Nat /\ n <= Len(files)
    BY <1>1 DEF n
  <2>4. Len(r) = IF n < Len(files) THEN Len(files) - n ELSE 0
    BY <1>2
  <2>5. Len(r) = Len(files) - n
    BY <1>1, <2>2, <2>3, <2>4
  <2> QED
    BY <2>1, <2>5
<1> HIDE DEF r, n
<1>5. ToSet(r) \subseteq ToSet(files)
  BY <1>2, Elements
<1>8. \A i \in 1..RemainingTemps : i \in DOMAIN r /\ n + i \in 1..ntemps
  BY <1>1, <1>3, <1>4
<1>9. \A i \in 1..RemainingTemps : \E j \in 1..ntemps : r[i] = files[j]
  BY <1>2, <1>8
<1>6. ASSUME NEW i \in 1..RemainingTemps, NEW j \in DOMAIN r, r[i] = r[j]
      PROVE  i = j
  <2>1. /\ i \in DOMAIN r /\ i \in Int /\ j \in Int /\ n + i \in 1..ntemps
    BY <1>1, <1>4, <1>8
  <2>2. n + i = n + j
    BY <1>2, <1>6, <2>1 DEF Once
  <2> QED
    BY <1>1, <2>1, <2>2
<1>7. ASSUME NEW x \in ToSet(r), x \in Temps, x \notin linked
      PROVE  FALSE
  <2>1. PICK j \in DOMAIN r : x = r[j]
    BY Elements
  <2>2. n + j \in DOMAIN files /\ x = files[n + j] /\ j \in Int /\ j >= 1
    BY <1>2, <1>4, <2>1
  <2>3. PICK i \in DOMAIN streams : i <= job.ntemps /\ streams[i].file = x
    BY <1>5, <1>7 DEF Present
  <2>4. i \in Int /\ i >= 1 /\ i <= n /\ files[i] = x
    BY <2>3 DEF Inputs, IsList, n
  <2>5. i \in 1..ntemps
    BY <1>1, <2>3, <2>4
  <2>6. i = n + j
    BY <2>2, <2>4, <2>5 DEF Once
  <2> QED
    BY <1>1, <2>2, <2>4, <2>6
<1> QED
  BY <1>2, <1>3, <1>4, <1>5, <1>6, <1>7, <1>9 DEF r, n

\* The output joins the outputs of the pass.
LEMMA BatchMerged ==
  ASSUME Children, Lifetimes, MergeDone, job.goal \in {"batch", "short"}
  PROVE  Lifetimes'
<1> DEFINE r == SubSeq(files, job.n + 1, Len(files))
           d == Append(done, target)
<1>1. /\ pc = "merge" /\ outcome = "running" /\ UNCHANGED <<linked, made>>
      /\ done' = d /\ files' = r /\ ntemps' = RemainingTemps
  BY DEF MergeDone, At
<1>2. Array /\ Once /\ Output /\ Inputs /\ Present /\ Jobs /\ Combining
  BY <1>1, HaveParts DEF Parts, AtWork, Combining, Merges
<1>3. /\ target \in Temps /\ target \in linked /\ target \in Int /\ target <= made
      /\ target \notin ToSet(files) \cup ToSet(done)
  BY <1>1, <1>2, ScenariosAssumption DEF Jobs, Output, Temps
<1>4. /\ r \in Seq(Int) /\ ToSet(r) \subseteq ToSet(files)
      /\ RemainingTemps \in Nat /\ RemainingTemps <= Len(r)
      /\ \A i \in 1..RemainingTemps, j \in DOMAIN r : r[i] = r[j] => i = j
      /\ \A x \in ToSet(r) \cap Temps : x \in linked
  BY <1>2, LeftOver
<1>5. done \in Seq(Int) /\ Len(done) \in Nat /\ DOMAIN done = 1..Len(done)
  BY <1>2 DEF Array
<1>6. /\ d \in Seq(Int) /\ ToSet(d) = ToSet(done) \cup {target}
      /\ DOMAIN d = DOMAIN done \cup {Len(done) + 1} /\ d[Len(done) + 1] = target
      /\ \A k \in DOMAIN done : d[k] = done[k]
  <2>1. /\ d \in Seq(Int) /\ Len(d) = Len(done) + 1 /\ DOMAIN d = 1..Len(d)
        /\ \A k \in 1..Len(done) : d[k] = done[k]
        /\ d[Len(done) + 1] = target
    BY <1>3, <1>5
  <2> HIDE DEF d
  <2>2. /\ DOMAIN d = DOMAIN done \cup {Len(done) + 1}
        /\ \A k \in DOMAIN done : d[k] = done[k]
    BY <1>5, <2>1
  <2>3. ToSet(d) = ToSet(done) \cup {target}
    BY <2>1, <2>2 DEF ToSet
  <2> QED
    BY <2>1, <2>2, <2>3
<1> HIDE DEF d, r
<1>7. Array'
  BY <1>1, <1>2, <1>3, <1>4, <1>6 DEF Array
<1>8. Once'
  <2>1. \A k \in DOMAIN done : done[k] # target
    BY <1>3, Elements
  <2>2. \A i, j \in DOMAIN d : d[i] = d[j] => i = j
    BY <1>2, <1>6, <2>1 DEF Once
  <2>3. ToSet(d) \cap ToSet(r) = {}
    BY <1>2, <1>3, <1>4, <1>6 DEF Once
  <2> QED
    BY <1>1, <1>4, <2>2, <2>3 DEF Once
<1>9. ASSUME NEW x \in ToSet(done) \cap Temps PROVE x \in linked
  <2> SUFFICES ASSUME NEW i \in DOMAIN streams, i <= job.ntemps, streams[i].file = x
               PROVE  FALSE
    BY <1>2, <1>9 DEF Present
  <2>1. i \in Nat /\ 1 <= i /\ i <= job.n /\ files[i] = x
    BY <1>1, <1>2 DEF Inputs, IsList
  <2>2. i \in DOMAIN files
    BY <1>1, <1>2, <2>1 DEF Jobs, Array
  <2> QED
    BY <1>2, <1>9, <2>1, <2>2, Elements DEF Once
<1>10. \A x \in (ToSet(files') \cup ToSet(done')) \cap Temps : x \in linked
  BY <1>1, <1>3, <1>4, <1>6, <1>9
<1> QED
  BY <1>7, <1>8, <1>10, AfterMerge

\* The copy of the output file takes its places.
LEMMA CopyMade ==
  ASSUME Children, Lifetimes, MergeDone, job.goal = "copy"
  PROVE  Lifetimes'
<1> DEFINE r == [i \in DOMAIN files |->
                   IF i > ntemps /\ files[i] = OutFile THEN target ELSE files[i]]
<1>1. /\ pc = "merge" /\ outcome = "running" /\ UNCHANGED <<linked, made, done, ntemps>>
      /\ files' = r
  BY DEF MergeDone, At
<1>2. Array /\ Once /\ Output /\ Inputs /\ Present /\ Jobs /\ Combining
  BY <1>1, HaveParts DEF Parts, AtWork, Combining, Merges
<1>3. /\ target \in Temps /\ target \in linked /\ target \in Int /\ target <= made
      /\ target \notin ToSet(files) \cup ToSet(done)
  BY <1>1, <1>2, ScenariosAssumption DEF Jobs, Output, Temps
<1>4. /\ files \in Seq(Int) /\ Len(files) \in Nat /\ DOMAIN files = 1..Len(files)
      /\ ntemps \in Nat /\ ntemps <= Len(files)
  BY <1>2 DEF Array
<1>5. /\ r \in Seq(Int) /\ Len(r) = Len(files) /\ DOMAIN r = DOMAIN files
      /\ \A i \in DOMAIN files : r[i] \in {target, files[i]}
      /\ \A i \in 1..ntemps : i \in DOMAIN files /\ r[i] = files[i]
  <2>1. \A i \in DOMAIN files : r[i] \in Int
    BY <1>3, <1>4
  <2>2. r \in [1..Len(files) -> Int]
    BY <1>4, <2>1
  <2>3. r \in Seq(Int) /\ Len(r) = Len(files)
    BY <1>4, <2>2
  <2>4. \A i \in 1..ntemps : i \in DOMAIN files /\ ~(i > ntemps)
    BY <1>4
  <2> QED
    BY <2>3, <2>4
<1>6. ToSet(r) \subseteq ToSet(files) \cup {target}
  <2> HIDE DEF r
  <2> QED
    BY <1>5 DEF ToSet
<1> HIDE DEF r
<1>7. Array'
  <2>1. \A x \in ToSet(r) \cup ToSet(done) : x <= made
    BY <1>2, <1>3, <1>6 DEF Array
  <2> QED
    BY <1>1, <1>2, <1>4, <1>5, <2>1 DEF Array
<1>8. Once'
  <2>1. \A k \in DOMAIN files : files[k] # target
    BY <1>3, Elements
  <2>2. \A i \in 1..ntemps, j \in DOMAIN r : r[i] = r[j] => i = j
    BY <1>2, <1>5, <2>1 DEF Once
  <2>3. ToSet(done) \cap ToSet(r) = {}
    BY <1>2, <1>3, <1>6 DEF Once
  <2> QED
    BY <1>1, <1>2, <2>2, <2>3 DEF Once
<1>9. \A i \in DOMAIN streams : ~(i <= job.ntemps)
  <2>1. job.ntemps = 0
    BY <1>2 DEF Jobs
  <2>2. DOMAIN streams = 1..Len(streams) /\ Len(streams) \in Nat
    BY <1>2 DEF Inputs, IsList
  <2> QED
    BY <2>1, <2>2
<1>10. \A x \in (ToSet(files') \cup ToSet(done')) \cap Temps : x \in linked
  BY <1>1, <1>2, <1>3, <1>6, <1>9 DEF Present
<1> QED
  BY <1>7, <1>8, <1>10, AfterMerge

\* The output takes the place of its inputs.
LEMMA SqueezeMerged ==
  ASSUME Children, Lifetimes, MergeDone, job.goal = "squeeze"
  PROVE  Lifetimes'
<1> DEFINE r == SubSeq(files, job.n + 1, Len(files))
           q == <<target>> \o r
<1>1. /\ pc = "merge" /\ outcome = "running" /\ UNCHANGED <<linked, made, done>>
      /\ files' = q /\ ntemps' = RemainingTemps + 1
  BY DEF MergeDone, At, Replace
<1>2. Array /\ Once /\ Output /\ Inputs /\ Present /\ Jobs /\ Combining
  BY <1>1, HaveParts DEF Parts, AtWork, Combining, Merges
<1>3. /\ target \in Temps /\ target \in linked /\ target \in Int /\ target <= made
      /\ target \notin ToSet(files) \cup ToSet(done)
  BY <1>1, <1>2, ScenariosAssumption DEF Jobs, Output, Temps
<1>4. /\ r \in Seq(Int) /\ ToSet(r) \subseteq ToSet(files)
      /\ RemainingTemps \in Nat /\ RemainingTemps <= Len(r)
      /\ \A i \in 1..RemainingTemps, j \in DOMAIN r : r[i] = r[j] => i = j
      /\ \A x \in ToSet(r) \cap Temps : x \in linked
  BY <1>2, LeftOver
<1> HIDE DEF r
<1>5. /\ q \in Seq(Int) /\ Len(q) = Len(r) + 1 /\ DOMAIN q = 1..(Len(r) + 1)
      /\ q[1] = target
      /\ \A i \in DOMAIN q : i # 1 => i - 1 \in DOMAIN r /\ q[i] = r[i - 1]
  <2> DEFINE t == <<target>>
  <2>1. t \in Seq(Int) /\ Len(t) = 1 /\ DOMAIN t = 1..1 /\ t[1] = target /\ Len(r) \in Nat
    BY <1>3, <1>4
  <2> HIDE DEF t
  <2>2. /\ q \in Seq(Int) /\ Len(q) = 1 + Len(r)
        /\ \A i \in DOMAIN t : q[i] = t[i]
        /\ \A i \in DOMAIN q : i > 1 => i - 1 \in DOMAIN r /\ q[i] = r[i - 1]
    BY <1>4, <2>1, Joined DEF t
  <2> HIDE DEF q
  <2>3. DOMAIN q = 1..(Len(r) + 1) /\ 1 \in DOMAIN t
    BY <2>1, <2>2
  <2>4. \A i \in DOMAIN q : i # 1 => i > 1
    BY <2>1, <2>3
  <2> QED
    BY <2>1, <2>2, <2>3, <2>4
<1> HIDE DEF q
<1>6. ToSet(q) \subseteq ToSet(r) \cup {target}
  BY <1>5 DEF ToSet
<1>7. Array'
  <2>1. \A x \in ToSet(q) \cup ToSet(done) : x <= made
    BY <1>2, <1>3, <1>4, <1>6 DEF Array
  <2>2. RemainingTemps + 1 \in Nat /\ RemainingTemps + 1 <= Len(q)
    BY <1>4, <1>5
  <2> QED
    BY <1>1, <1>2, <1>5, <2>1, <2>2 DEF Array
<1>8. Once'
  <2>1. \A k \in DOMAIN r : r[k] # target
    BY <1>3, <1>4, Elements
  <2>2. ASSUME NEW i \in 1..(RemainingTemps + 1), NEW j \in DOMAIN q, q[i] = q[j]
        PROVE  i = j
    <3>1. i \in DOMAIN q /\ i \in Int /\ j \in Int /\ (i # 1 => i - 1 \in 1..RemainingTemps)
      BY <1>4, <1>5
    <3>2. i = 1 <=> j = 1
      BY <1>5, <2>1, <2>2, <3>1
    <3>3. CASE i # 1 /\ j # 1
      <4>1. i - 1 = j - 1
        BY <1>4, <1>5, <2>2, <3>1, <3>3
      <4> QED
        BY <3>1, <4>1
    <3> QED
      BY <3>2, <3>3
  <2>3. ToSet(done) \cap ToSet(q) = {}
    BY <1>2, <1>3, <1>4, <1>6 DEF Once
  <2> QED
    BY <1>1, <1>2, <2>2, <2>3 DEF Once
<1>9. ASSUME NEW x \in ToSet(done) \cap Temps PROVE x \in linked
  <2> SUFFICES ASSUME NEW i \in DOMAIN streams, i <= job.ntemps, streams[i].file = x
               PROVE  FALSE
    BY <1>2, <1>9 DEF Present
  <2>1. i \in Nat /\ 1 <= i /\ i <= job.n /\ files[i] = x
    BY <1>1, <1>2 DEF Inputs, IsList
  <2>2. i \in DOMAIN files
    BY <1>1, <1>2, <2>1 DEF Jobs, Array
  <2> QED
    BY <1>2, <1>9, <2>1, <2>2, Elements DEF Once
<1>10. \A x \in (ToSet(files') \cup ToSet(done')) \cap Temps : x \in linked
  BY <1>1, <1>3, <1>4, <1>6, <1>9
<1> QED
  BY <1>7, <1>8, <1>10, AfterMerge

LEMMA MergeDoneLifetimes ==
  ASSUME Children, Lifetimes, MergeDone
  PROVE  Lifetimes'
<1>1. CASE job.goal \notin {"batch", "short", "copy", "squeeze"}
  <2>1. pc' \in {"exit", "reapall"}
    BY <1>1 DEF MergeDone, Go
  <2> QED
    BY <2>1, AfterMerge DEF Between
<1> QED
  BY <1>1, BatchMerged, CopyMade, SqueezeMerged

-----------------------------------------------------------------------------

LEMMA InitLifetimes == Init => Lifetimes
<1> SUFFICES ASSUME Init PROVE Lifetimes
  OBVIOUS
<1>1. /\ opt \in Scenarios /\ pc = (IF opt.buffers = 0 THEN "pass" ELSE "read")
      /\ files = opt.operands /\ ntemps = 0 /\ done = << >>
      /\ job = [goal |-> "none", n |-> 0, ntemps |-> 0]
      /\ target = None /\ streams = << >> /\ forRead = FALSE
      /\ temphead = << >> /\ child = << >> /\ made = 0 /\ OutFile = 0
  BY DEF Init, NoJob, OutFile
<1>2. /\ opt.operands \in Seq(Int) /\ opt.buffers \in Nat
      /\ (opt.buffers > 0) # (opt.operands # << >>)
      /\ \A i \in DOMAIN opt.operands : opt.operands[i] <= OutFile
  BY <1>1, ScenariosAssumption DEF Scenario
<1>3. ToSet(files) \cap Temps = {} /\ ToSet(done) = {} /\ \A x \in ToSet(files) : x <= made
  <2>1. \A x \in ToSet(files) : x \in Int /\ x <= 0
    BY <1>1, <1>2 DEF ToSet
  <2> QED
    BY <1>1, <2>1, SetOfEmpty, ScenariosAssumption DEF Temps
<1>4. Len(files) \in Nat /\ done \in Seq(Int) /\ done = << >> /\ DOMAIN << >> = {}
  BY <1>1, <1>2
<1>5. Array /\ Once
  BY <1>1, <1>2, <1>3, <1>4 DEF Array, Once
<1>6. Output /\ Present
  BY <1>1, <1>3 DEF Output, Present, None, Temps
<1>7. Inputs
  BY <1>1 DEF Inputs, IsList
<1>8. job.goal = "none" /\ job.n = 0 /\ job.ntemps = 0
  BY <1>1
<1>9. Jobs
  BY <1>1, <1>8 DEF Jobs, Combining, Making, Merges
<1>10. Buffered
  <2>1. Filling => files = << >> /\ pc # "forked"
    BY <1>1, <1>2 DEF Filling, Making
  <2>2. FullList = << >> \/ pc = "forked"
    BY <1>1 DEF FullList
  <2> QED
    BY <1>1, <1>4, <2>1, <2>2, SetOfEmpty DEF Buffered
<1>11. Orphans
  BY <1>1 DEF Orphans
<1> QED
  BY <1>5, <1>6, <1>7, <1>9, <1>10, <1>11 DEF Lifetimes

LEMMA NextLifetimes ==
  ASSUME Inv, Children, Lifetimes, [Next]_vars
  PROVE  Lifetimes'
<1>1. CASE SortStep
  <2>1. CASE WriteOnly \/ ReadBuffer \/ WriteBuffer \/ MergeTemps \/ ReapAll \/ CreateTempFile
             \/ LinkTemp
    BY <2>1, LeavingLifetimes, ReadBufferLifetimes, WriteBufferLifetimes,
       MergeTempsLifetimes, ReapingLifetimes, CreateLifetimes, LinkLifetimes
  <2>2. CASE Pipe \/ ReapSome \/ EnterFork \/ Forked \/ ForkAgain \/ ForkError \/ NoFork
    BY <2>2, PipeForkLifetimes, ReapingLifetimes, ForkedLifetimes
  <2>3. CASE OpenFile \/ WaitToOpen \/ OpenTemp \/ Opened \/ OpenFailed
    BY <2>3, OpenFileLifetimes, ReapingLifetimes, LeavingLifetimes, OpenedLifetimes,
       OpenFailedLifetimes
  <2>4. CASE (\E i \in DOMAIN streams : EndOfInput(i)) \/ WaitToZap \/ Unlink \/ Unlist
             \/ MergeDone
    BY <2>4, EndOfInputLifetimes, ReapingLifetimes, UnlinkLifetimes, LeavingLifetimes,
       MergeDoneLifetimes
  <2>5. CASE Pass \/ MergeBatch \/ EndPass \/ AvoidTrashingInput \/ FinalMerge \/ Squeeze
    BY <2>5, BetweenMerges, MergeBatchLifetimes, EndPassLifetimes, SqueezeLifetimes
  <2>6. CASE Exit \/ SigPipe
    BY <2>6, LeavingLifetimes
  <2> QED
    BY <1>1, <2>1, <2>2, <2>3, <2>4, <2>5, <2>6 DEF SortStep
<1>2. ASSUME NEW c \in DOMAIN child, ChildStep(c) \/ ProgramFails(c) \/ SignalForked(c)
      PROVE  Lifetimes'
  BY <1>2, ChildLifetimes
<1> QED
  BY <1>1, <1>2, LeavingLifetimes DEF Next

\* A temporary file keeps its name until its lines have been read, whatever merges it goes
\* through and however often they run out of descriptors: zaptemp unlinks no file but an
\* input that has come to its end, which stands nowhere else in the array or among the
\* outputs, and no child has a list of files to delete (mergefps, merge, pipe_fork).
THEOREM UnreadFilesKept == Spec => []UnreadKept
<1>1. ASSUME Lifetimes PROVE UnreadKept
  <2> SUFFICES ASSUME AtWork, NEW x \in Unread \cap Temps
               PROVE  x \in linked
    BY DEF UnreadKept, AtWork
  <2>1. /\ x \in (ToSet(files) \cup ToSet(done)) \cap Temps
        /\ \A i \in DOMAIN streams : streams[i].file # x
    BY DEF Unread
  <2> QED
    BY <1>1, <2>1 DEF Lifetimes, Present
<1> QED
  BY InitInv, NextInv, InitChildren, NextChildren, InitLifetimes, NextLifetimes, <1>1, PTL
  DEF Spec

-----------------------------------------------------------------------------
(* FlattenSeq.  The files of a list are merged into the concatenation of   *)
(* their contents: what follows is what is needed of it, by descent to the *)
(* shortest list for which it would be false.                              *)

\* The equation that FlattenSeq takes a solution of.
Flattens(f, s, n) == f = [i \in 1..n |-> IF i = 1 THEN s[i] ELSE f[i - 1] \o s[i]]

\* A set of numbers that is not empty has a least element.
LEMMA Least ==
  ASSUME NEW T \in SUBSET Nat, T # {}
  PROVE  \E m \in T : \A k \in T : m <= k
<1>1. IsWellFoundedOn(OpToRel(<, Nat), Nat)
  BY NatLessThanWellFounded
<1> DEFINE R == OpToRel(<, Nat)
<1>2. PICK m \in T : \A k \in T : <<k, m>> \notin R
  <2> HIDE DEF R
  <2> QED BY <1>1, WFMin DEF R
<1>3. ASSUME NEW k \in T PROVE m <= k
  <2>1. m \in Nat /\ k \in Nat
    OBVIOUS
  <2>2. ~ (k < m)
    BY <1>2, <2>1 DEF OpToRel
  <2> QED BY <2>1, <2>2
<1> QED BY <1>3

\* FlattenSeq chooses a function that satisfies an equation: there is one.
LEMMA FlattensExists ==
  ASSUME NEW s, NEW n \in Nat
  PROVE  n > 0 => \E f : Flattens(f, s, n)
<1> DEFINE T == {k \in Nat : k > 0 /\ ~ \E f : Flattens(f, s, k)}
<1>1. SUFFICES ASSUME T # {} PROVE FALSE
  OBVIOUS
<1>2. PICK m \in T : \A k \in T : m <= k
  <2> HIDE DEF T
  <2>1. T \in SUBSET Nat
    BY DEF T
  <2> QED BY <1>1, <2>1, Least
<1>3. m \in Nat /\ m > 0 /\ ~ \E f : Flattens(f, s, m)
  BY <1>2
<1>4. CASE m = 1
  <2> DEFINE g == [i \in 1..1 |-> s[i]]
  <2>1. Flattens(g, s, 1)
    BY DEF Flattens
  <2> QED BY <1>3, <1>4, <2>1
<1>5. CASE m # 1
  <2>1. m - 1 \in Nat /\ m - 1 > 0 /\ m - 1 \notin T
    BY <1>2, <1>3, <1>5
  <2>2. PICK f : Flattens(f, s, m - 1)
    BY <2>1
  <2> DEFINE g == [i \in 1..m |-> IF i = m THEN f[m - 1] \o s[m] ELSE f[i]]
  <2>3. \A i \in 1..m : g[i] = IF i = 1 THEN s[i] ELSE g[i - 1] \o s[i]
    <3>1. \A i \in 1..(m - 1) : f[i] = IF i = 1 THEN s[i] ELSE f[i - 1] \o s[i]
      BY <2>2 DEF Flattens
    <3>2. ASSUME NEW i \in 1..m, i # m PROVE g[i] = IF i = 1 THEN s[i] ELSE g[i - 1] \o s[i]
      <4>1. i \in 1..(m - 1) /\ (i # 1 => i - 1 \in 1..m /\ i - 1 # m)
        BY <1>3, <3>2
      <4> QED BY <3>1, <3>2, <4>1
    <3>3. m \in 1..m /\ m - 1 \in 1..m /\ m - 1 # m
      BY <1>3, <1>5
    <3>4. g[m] = f[m - 1] \o s[m] /\ g[m - 1] = f[m - 1]
      BY <3>3
    <3> HIDE DEF g
    <3> QED BY <1>5, <3>2, <3>4
  <2>4. Flattens(g, s, m)
    <3>1. g = [i \in 1..m |-> g[i]]
      OBVIOUS
    <3> HIDE DEF g
    <3> QED BY <2>3, <3>1 DEF Flattens
  <2> QED BY <1>3, <2>4
<1> QED BY <1>4, <1>5

\* FlattenSeq is the last value of such a function.
LEMMA FlattenIs ==
  ASSUME NEW s, Len(s) \in Nat, Len(s) # 0
  PROVE  \E f : Flattens(f, s, Len(s)) /\ FlattenSeq(s) = f[Len(s)]
<1> DEFINE g == CHOOSE f : f = [i \in 1..Len(s) |-> IF i = 1 THEN s[i] ELSE f[i - 1] \o s[i]]
<1>1. FlattenSeq(s) = g[Len(s)]
  BY DEF FlattenSeq
<1>2. \E f : Flattens(f, s, Len(s))
  BY FlattensExists
<1>3. Flattens(g, s, Len(s))
  BY <1>2 DEF Flattens
<1> QED BY <1>1, <1>3

\* Where two lists agree, so do what they flatten to.
LEMMA FlattensAgree ==
  ASSUME NEW s, NEW t, NEW f, NEW g, NEW n \in Nat, NEW m \in Nat, n <= m,
         Flattens(f, s, n), Flattens(g, t, m), \A i \in 1..n : s[i] = t[i]
  PROVE  \A i \in 1..n : f[i] = g[i]
<1> DEFINE T == {i \in 1..n : f[i] # g[i]}
<1>1. SUFFICES ASSUME T # {} PROVE FALSE
  OBVIOUS
<1>2. PICK k \in T : \A i \in T : k <= i
  <2> HIDE DEF T
  <2>1. T \in SUBSET Nat
    BY DEF T
  <2> QED BY <1>1, <2>1, Least
<1>3. k \in 1..n /\ k \in 1..m /\ f[k] # g[k]
  BY <1>2
<1>4. /\ f[k] = IF k = 1 THEN s[k] ELSE f[k - 1] \o s[k]
      /\ g[k] = IF k = 1 THEN t[k] ELSE g[k - 1] \o t[k]
  BY <1>3 DEF Flattens
<1>5. CASE k # 1
  <2>1. k - 1 \in 1..n /\ ~(k <= k - 1)
    BY <1>3, <1>5
  <2>2. f[k - 1] = g[k - 1]
    BY <1>2, <2>1
  <2> QED
    BY <1>3, <1>4, <1>5, <2>2
<1> QED
  BY <1>3, <1>4, <1>5

\* One more list at the end.
LEMMA FlattenAppend ==
  ASSUME NEW S \in Seq(Seq(Int)), NEW x \in Seq(Int)
  PROVE  FlattenSeq(Append(S, x)) = FlattenSeq(S) \o x
<1> DEFINE T == Append(S, x)
           n == Len(S)
<1>1. /\ n \in Nat /\ T \in Seq(Seq(Int)) /\ Len(T) = n + 1
      /\ \A i \in 1..n : T[i] = S[i]
      /\ T[n + 1] = x
  BY AppendProperties
<1> HIDE DEF T
<1>2. PICK g : Flattens(g, T, n + 1) /\ FlattenSeq(T) = g[n + 1]
  <2>1. Len(T) \in Nat /\ Len(T) # 0
    BY <1>1
  <2> QED
    BY <1>1, <2>1, FlattenIs
<1>3. n + 1 \in 1..(n + 1)
  BY <1>1
<1>4. g[n + 1] = IF n + 1 = 1 THEN x ELSE g[n] \o x
  <2>1. g[n + 1] = IF n + 1 = 1 THEN T[n + 1] ELSE g[(n + 1) - 1] \o T[n + 1]
    BY <1>2, <1>3 DEF Flattens
  <2>2. (n + 1) - 1 = n
    BY <1>1
  <2> QED BY <1>1, <2>1, <2>2
<1>5. CASE n = 0
  <2>1. S = << >> /\ FlattenSeq(S) = << >>
    BY <1>5, EmptySeq DEF FlattenSeq
  <2>2. << >> \o x = x
    BY ConcatEmptySeq
  <2> QED
    BY <1>2, <1>4, <1>5, <2>1, <2>2 DEF T
<1>6. CASE n # 0
  <2>1. PICK f : Flattens(f, S, n) /\ FlattenSeq(S) = f[n]
    BY <1>1, <1>6, FlattenIs
  <2>2. \A i \in 1..n : f[i] = g[i]
    <3> DEFINE m == n + 1
    <3>1. m \in Nat /\ n <= m /\ n \in Nat
      BY <1>1
    <3>2. \A i \in 1..n : S[i] = T[i]
      BY <1>1
    <3>3. Flattens(f, S, n) /\ Flattens(g, T, m)
      BY <1>2, <2>1
    <3> HIDE DEF n, m
    <3> QED
      BY <3>1, <3>2, <3>3, FlattensAgree
  <2>3. n \in 1..n
    BY <1>1, <1>6
  <2>4. g[n + 1] = g[n] \o x
    BY <1>1, <1>4, <1>6
  <2> QED
    BY <1>2, <2>1, <2>2, <2>3, <2>4 DEF T
<1> QED
  BY <1>5, <1>6

\* Every list is empty or one that has got one more element.
LEMMA LastOfList ==
  ASSUME NEW S \in Seq(Seq(Int)), S # << >>
  PROVE  \E R \in Seq(Seq(Int)), x \in Seq(Int) : S = Append(R, x) /\ Len(S) = Len(R) + 1
<1>1. PICK R \in Seq(Seq(Int)), x \in Seq(Int) : S = Append(R, x)
  BY SequenceEmptyOrAppend
<1>2. Len(Append(R, x)) = Len(R) + 1
  BY AppendProperties
<1> QED
  BY <1>1, <1>2

\* Nothing flattens to nothing.
LEMMA FlattenEmpty == FlattenSeq(<< >>) = << >>
BY DEF FlattenSeq

\* Lists of numbers flatten to a list of numbers.
LEMMA FlattenType ==
  ASSUME NEW S \in Seq(Seq(Int))
  PROVE  FlattenSeq(S) \in Seq(Int)
<1> DEFINE B == {k \in Nat : \E R \in Seq(Seq(Int)) : Len(R) = k /\ FlattenSeq(R) \notin Seq(Int)}
<1>1. SUFFICES ASSUME B # {} PROVE FALSE
  BY LenProperties
<1>2. PICK k \in B : \A i \in B : k <= i
  <2> HIDE DEF B
  <2>1. B \in SUBSET Nat
    BY DEF B
  <2> QED BY <1>1, <2>1, Least
<1>3. PICK R \in Seq(Seq(Int)) : Len(R) = k /\ FlattenSeq(R) \notin Seq(Int)
  BY <1>2
<1>4. R # << >>
  BY <1>3, FlattenEmpty, EmptySeq
<1>5. PICK Q \in Seq(Seq(Int)), x \in Seq(Int) : R = Append(Q, x) /\ Len(R) = Len(Q) + 1
  BY <1>4, LastOfList
<1>6. Len(Q) \in Nat /\ ~(k <= Len(Q))
  BY <1>3, <1>5, LenProperties
<1>7. FlattenSeq(Q) \in Seq(Int)
  BY <1>2, <1>6
<1>8. FlattenSeq(R) = FlattenSeq(Q) \o x
  BY <1>5, FlattenAppend
<1> QED
  BY <1>3, <1>7, <1>8, ConcatProperties

\* Three lists are joined in either order.
LEMMA Associative ==
  ASSUME NEW a \in Seq(Int), NEW b \in Seq(Int), NEW c \in Seq(Int)
  PROVE  (a \o b) \o c = a \o (b \o c)
<1> DEFINE l == (a \o b) \o c
           r == a \o (b \o c)
<1>1. /\ Len(a) \in Nat /\ Len(b) \in Nat /\ Len(c) \in Nat
      /\ a \o b \in Seq(Int) /\ b \o c \in Seq(Int) /\ l \in Seq(Int) /\ r \in Seq(Int)
  BY LenProperties, ConcatProperties
<1>2. Len(a \o b) = Len(a) + Len(b) /\ Len(b \o c) = Len(b) + Len(c)
  BY ConcatProperties
<1>3. Len(l) = Len(a) + Len(b) + Len(c) /\ Len(r) = Len(a) + Len(b) + Len(c)
  BY <1>1, <1>2, ConcatProperties
<1>4. ASSUME NEW i \in 1..Len(l) PROVE l[i] = r[i]
  <2>1. l[i] = IF i <= Len(a) + Len(b) THEN (a \o b)[i] ELSE c[i - (Len(a) + Len(b))]
    BY <1>1, <1>2, <1>3, ConcatProperties
  <2>2. r[i] = IF i <= Len(a) THEN a[i] ELSE (b \o c)[i - Len(a)]
    BY <1>1, <1>2, <1>3, ConcatProperties
  <2> QED BY <1>1, <1>2, <1>3, <2>1, <2>2, ConcatProperties
<1> HIDE DEF l, r
<1>5. l = r
  BY <1>1, <1>3, <1>4, SeqEqual
<1> QED
  BY <1>5 DEF l, r

\* What is appended to the second list is appended to both.
LEMMA AppendBehind ==
  ASSUME NEW a \in Seq(Seq(Int)), NEW b \in Seq(Seq(Int)), NEW x \in Seq(Int)
  PROVE  a \o Append(b, x) = Append(a \o b, x) /\ a \o b \in Seq(Seq(Int))
OBVIOUS

\* Lists of lists that are joined flatten to lists that are joined.
LEMMA FlattenConcat ==
  ASSUME NEW S \in Seq(Seq(Int)), NEW T \in Seq(Seq(Int))
  PROVE  FlattenSeq(S \o T) = FlattenSeq(S) \o FlattenSeq(T)
<1> DEFINE Joins(R) == FlattenSeq(S \o R) = FlattenSeq(S) \o FlattenSeq(R)
           B == {k \in Nat : \E R \in Seq(Seq(Int)) : Len(R) = k /\ ~Joins(R)}
<1>1. SUFFICES ASSUME B # {} PROVE FALSE
  BY LenProperties
<1>2. PICK k \in B : \A i \in B : k <= i
  <2> HIDE DEF B
  <2>1. B \in SUBSET Nat
    BY DEF B
  <2> QED BY <1>1, <2>1, Least
<1>3. PICK R \in Seq(Seq(Int)) : Len(R) = k /\ ~Joins(R)
  BY <1>2
<1>4. R # << >>
  <2>1. S \o << >> = S /\ FlattenSeq(S) \o << >> = FlattenSeq(S)
    BY ConcatEmptySeq, FlattenType
  <2>2. Joins(<< >>)
    BY <2>1, FlattenEmpty
  <2> QED
    BY <1>3, <2>2
<1>5. PICK Q \in Seq(Seq(Int)), x \in Seq(Int) : R = Append(Q, x) /\ Len(R) = Len(Q) + 1
  BY <1>4, LastOfList
<1>6. Len(Q) \in Nat /\ ~(k <= Len(Q))
  BY <1>3, <1>5, LenProperties
<1>7. Joins(Q)
  BY <1>2, <1>6
<1>8. S \o R = Append(S \o Q, x) /\ S \o Q \in Seq(Seq(Int))
  BY <1>5, AppendBehind
<1>9. /\ FlattenSeq(S \o R) = FlattenSeq(S \o Q) \o x
      /\ FlattenSeq(R) = FlattenSeq(Q) \o x
  BY <1>5, <1>8, FlattenAppend
<1>10. (FlattenSeq(S) \o FlattenSeq(Q)) \o x = FlattenSeq(S) \o (FlattenSeq(Q) \o x)
  <2>1. FlattenSeq(S) \in Seq(Int) /\ FlattenSeq(Q) \in Seq(Int) /\ x \in Seq(Int)
    BY FlattenType
  <2> QED
    BY <2>1, Associative
<1> QED
  BY <1>3, <1>7, <1>9, <1>10

\* A single list flattens to itself.
LEMMA FlattenOne ==
  ASSUME NEW x \in Seq(Int)
  PROVE  FlattenSeq(<<x>>) = x
<1>1. << >> \in Seq(Seq(Int)) /\ Append(<< >>, x) = <<x>> /\ << >> \o x = x
  BY EmptySeq, ConcatEmptySeq
<1> QED
  BY <1>1, FlattenAppend, FlattenEmpty

\* Lists of one element each flatten to the list of the elements.
LEMMA FlattenUnits ==
  ASSUME NEW S \in Seq(Seq(Int)), NEW e \in Seq(Int), Len(S) = Len(e),
         \A i \in 1..Len(e) : S[i] = <<e[i]>>
  PROVE  FlattenSeq(S) = e
<1> DEFINE Wrong(R, d) == /\ Len(R) = Len(d)
                          /\ \A i \in 1..Len(d) : R[i] = <<d[i]>>
                          /\ FlattenSeq(R) # d
           B == {k \in Nat : \E R \in Seq(Seq(Int)), d \in Seq(Int) : Len(R) = k /\ Wrong(R, d)}
<1>1. SUFFICES ASSUME B # {} PROVE FALSE
  BY LenProperties
<1>2. PICK k \in B : \A i \in B : k <= i
  <2> HIDE DEF B
  <2>1. B \in SUBSET Nat
    BY DEF B
  <2> QED BY <1>1, <2>1, Least
<1>3. PICK R \in Seq(Seq(Int)), d \in Seq(Int) : Len(R) = k /\ Wrong(R, d)
  BY <1>2
<1>4. R # << >> /\ d # << >>
  <2>1. R = << >> <=> d = << >>
    BY <1>3, EmptySeq
  <2> QED
    BY <1>3, <2>1, FlattenEmpty
<1>5. PICK Q \in Seq(Seq(Int)), x \in Seq(Int) : R = Append(Q, x) /\ Len(R) = Len(Q) + 1
  BY <1>4, LastOfList
<1>6. PICK c \in Seq(Int), y \in Int : d = Append(c, y)
  BY <1>4, SequenceEmptyOrAppend
<1>7. /\ Len(Q) \in Nat /\ Len(c) \in Nat /\ Len(d) = Len(c) + 1
      /\ \A i \in 1..Len(c) : d[i] = c[i]
      /\ d[Len(c) + 1] = y
      /\ \A i \in 1..Len(Q) : R[i] = Q[i]
      /\ R[Len(Q) + 1] = x
  BY <1>5, <1>6, AppendProperties, LenProperties
<1>8. Len(Q) = Len(c) /\ ~(k <= Len(Q))
  BY <1>3, <1>5, <1>7
<1>9. x = <<y>>
  <2>1. Len(c) + 1 \in 1..Len(d)
    BY <1>7
  <2> QED
    BY <1>3, <1>7, <1>8, <2>1
<1>10. \A i \in 1..Len(c) : Q[i] = <<c[i]>>
  <2>1. \A i \in 1..Len(c) : i \in 1..Len(d)
    BY <1>7
  <2> QED
    BY <1>3, <1>7, <1>8, <2>1
<1>11. FlattenSeq(Q) = c
  BY <1>2, <1>7, <1>8, <1>10
<1>12. FlattenSeq(R) = c \o <<y>>
  BY <1>5, <1>9, <1>11, FlattenAppend
<1>13. d = c \o <<y>>
  BY <1>6, AppendIsConcat
<1> QED
  BY <1>3, <1>12, <1>13

-----------------------------------------------------------------------------
(* The text of a list s of files with the contents d.                      *)

Texts(d, s) == [i \in DOMAIN s |-> d[s[i]]]
Text(d, s) == FlattenSeq(Texts(d, s))
Readable(d, s) == s \in Seq(Int) /\ \A x \in ToSet(s) : d[x] \in Seq(Int)

\* The contents, file by file.
LEMMA TextsType ==
  ASSUME NEW d, NEW s, Readable(d, s)
  PROVE  /\ Texts(d, s) \in Seq(Seq(Int)) /\ Len(Texts(d, s)) = Len(s)
         /\ Len(s) \in Nat /\ DOMAIN s = 1..Len(s)
         /\ \A i \in 1..Len(s) : Texts(d, s)[i] = d[s[i]] /\ s[i] \in ToSet(s)
<1>1. Len(s) \in Nat /\ DOMAIN s = 1..Len(s)
  BY LenProperties DEF Readable
<1>2. \A i \in 1..Len(s) : s[i] \in ToSet(s) /\ d[s[i]] \in Seq(Int)
  BY <1>1 DEF Readable, ToSet
<1>3. Texts(d, s) = [i \in 1..Len(s) |-> d[s[i]]]
  BY <1>1 DEF Texts
<1>4. [i \in 1..Len(s) |-> d[s[i]]] \in [1..Len(s) -> Seq(Int)]
  BY <1>2
<1> DEFINE t == Texts(d, s)
<1>5. t \in [1..Len(s) -> Seq(Int)]
  BY <1>3, <1>4
<1>6. \A i \in 1..Len(s) : t[i] = d[s[i]]
  BY <1>3
<1> HIDE DEF t
<1>7. t \in Seq(Seq(Int)) /\ Len(t) = Len(s)
  BY <1>1, <1>5
<1> QED
  BY <1>1, <1>2, <1>6, <1>7 DEF t

\* Files that can be read have a text.
LEMMA TextType ==
  ASSUME NEW d, NEW s, Readable(d, s)
  PROVE  Text(d, s) \in Seq(Int)
BY TextsType, FlattenType DEF Text

\* No files have no text.
LEMMA TextEmpty ==
  ASSUME NEW d
  PROVE  Readable(d, << >>) /\ Text(d, << >>) = << >>
<1>1. ToSet(<< >>) = {} /\ << >> \in Seq(Int)
  BY EmptySeq DEF ToSet
<1>2. Readable(d, << >>)
  BY <1>1 DEF Readable
<1>3. Texts(d, << >>) = << >>
  BY <1>2, TextsType, EmptySeq
<1> QED
  BY <1>2, <1>3, FlattenEmpty DEF Text

\* The files of two lists, one after the other.
LEMMA TextJoin ==
  ASSUME NEW d, NEW s, NEW t, Readable(d, s), Readable(d, t)
  PROVE  Readable(d, s \o t) /\ Text(d, s \o t) = Text(d, s) \o Text(d, t)
<1> DEFINE a == Texts(d, s)
           b == Texts(d, t)
           u == s \o t
           c == Texts(d, u)
<1>1. /\ s \in Seq(Int) /\ t \in Seq(Int) /\ Len(s) \in Nat /\ Len(t) \in Nat
      /\ a \in Seq(Seq(Int)) /\ b \in Seq(Seq(Int)) /\ Len(a) = Len(s) /\ Len(b) = Len(t)
      /\ \A i \in 1..Len(s) : a[i] = d[s[i]] /\ s[i] \in ToSet(s)
      /\ \A i \in 1..Len(t) : b[i] = d[t[i]] /\ t[i] \in ToSet(t)
  BY TextsType DEF Readable
<1>2. /\ u \in Seq(Int) /\ Len(u) = Len(s) + Len(t)
      /\ \A i \in 1..(Len(s) + Len(t)) : u[i] = IF i <= Len(s) THEN s[i] ELSE t[i - Len(s)]
  BY <1>1, ConcatProperties
<1>3. /\ a \o b \in Seq(Seq(Int)) /\ Len(a \o b) = Len(s) + Len(t)
      /\ \A i \in 1..(Len(s) + Len(t)) : (a \o b)[i] = IF i <= Len(s) THEN a[i] ELSE b[i - Len(s)]
  <2> HIDE DEF a, b
  <2>1. /\ a \o b \in Seq(Seq(Int)) /\ Len(a \o b) = Len(a) + Len(b)
        /\ \A i \in 1..(Len(a) + Len(b)) : (a \o b)[i] = IF i <= Len(a) THEN a[i] ELSE b[i - Len(a)]
    BY <1>1, ConcatProperties
  <2> QED
    BY <1>1, <2>1
<1> HIDE DEF a, b, u
<1>4. Readable(d, u)
  <2>1. \A i \in 1..(Len(s) + Len(t)) : u[i] \in ToSet(s) \cup ToSet(t)
    <3> SUFFICES ASSUME NEW i \in 1..(Len(s) + Len(t)) PROVE u[i] \in ToSet(s) \cup ToSet(t)
      OBVIOUS
    <3>1. CASE i <= Len(s)
      BY <1>1, <1>2, <3>1
    <3>2. CASE ~(i <= Len(s))
      <4>1. i - Len(s) \in 1..Len(t)
        BY <1>1, <3>2
      <4> QED
        BY <1>1, <1>2, <3>2, <4>1
    <3> QED
      BY <3>1, <3>2
  <2>2. DOMAIN u = 1..(Len(s) + Len(t))
    BY <1>2, LenProperties
  <2>3. \A x \in ToSet(u) : x \in ToSet(s) \cup ToSet(t)
    BY <2>1, <2>2 DEF ToSet
  <2> QED
    BY <1>2, <2>3 DEF Readable
<1>5. /\ c \in Seq(Seq(Int)) /\ Len(c) = Len(s) + Len(t)
      /\ \A i \in 1..(Len(s) + Len(t)) : c[i] = d[u[i]]
  <2>1. /\ c \in Seq(Seq(Int)) /\ Len(c) = Len(u)
        /\ \A i \in 1..Len(u) : c[i] = d[u[i]]
    BY <1>4, TextsType
  <2> HIDE DEF c
  <2> QED
    BY <1>2, <2>1
<1> HIDE DEF c
<1>6. ASSUME NEW i \in 1..(Len(s) + Len(t)) PROVE c[i] = (a \o b)[i]
  <2> DEFINE v == a \o b
  <2>0. /\ c[i] = d[u[i]]
        /\ u[i] = IF i <= Len(s) THEN s[i] ELSE t[i - Len(s)]
        /\ v[i] = IF i <= Len(s) THEN a[i] ELSE b[i - Len(s)]
    BY <1>2, <1>3, <1>5
  <2> HIDE DEF v
  <2>1. CASE i <= Len(s)
    <3>1. i \in 1..Len(s)
      BY <1>1, <2>1
    <3> QED
      BY <1>1, <2>0, <2>1, <3>1 DEF v
  <2>2. CASE ~(i <= Len(s))
    <3>1. i - Len(s) \in 1..Len(t)
      BY <1>1, <2>2
    <3> QED
      BY <1>1, <2>0, <2>2, <3>1 DEF v
  <2> QED
    BY <2>1, <2>2
<1>7. c = a \o b
  BY <1>3, <1>5, <1>6, SeqEqual
<1>8. FlattenSeq(a \o b) = FlattenSeq(a) \o FlattenSeq(b)
  BY <1>1, FlattenConcat
<1> QED
  BY <1>4, <1>7, <1>8 DEF Text, a, b, c, u

\* The text of one file is what is in it.
LEMMA TextOne ==
  ASSUME NEW d, NEW x \in Int, d[x] \in Seq(Int)
  PROVE  Readable(d, <<x>>) /\ Text(d, <<x>>) = d[x]
<1>1. <<x>> \in Seq(Int) /\ DOMAIN <<x>> = 1..1 /\ <<x>>[1] = x
  OBVIOUS
<1>2. Readable(d, <<x>>)
  BY <1>1 DEF Readable, ToSet
<1>3. Texts(d, <<x>>) = <<d[x]>>
  BY <1>1 DEF Texts
<1> QED
  BY <1>2, <1>3, FlattenOne DEF Text

\* The same contents in the same order.
LEMMA TextSame ==
  ASSUME NEW d, NEW s, NEW e, NEW t, Readable(d, s), DOMAIN t = DOMAIN s,
         \A i \in DOMAIN s : e[t[i]] = d[s[i]]
  PROVE  Text(e, t) = Text(d, s)
<1>1. Texts(e, t) = Texts(d, s)
  BY DEF Texts
<1> QED
  BY <1>1 DEF Text

\* The text of files with one element each.
LEMMA TextUnits ==
  ASSUME NEW d, NEW s, Readable(d, s), NEW e \in Seq(Int), Len(s) = Len(e),
         \A i \in 1..Len(e) : d[s[i]] = <<e[i]>>
  PROVE  Text(d, s) = e
<1> DEFINE a == Texts(d, s)
<1>1. a \in Seq(Seq(Int)) /\ Len(a) = Len(e) /\ \A i \in 1..Len(e) : a[i] = <<e[i]>>
  <2>1. /\ a \in Seq(Seq(Int)) /\ Len(a) = Len(s)
        /\ \A i \in 1..Len(s) : a[i] = d[s[i]]
    BY TextsType
  <2> HIDE DEF a
  <2> QED
    BY <2>1
<1> HIDE DEF a
<1> QED
  BY <1>1, FlattenUnits DEF Text, a

\* Elsewhere than in t nothing changes.
LEMMA TextBeside ==
  ASSUME NEW d, NEW s, Readable(d, s), NEW t, t \notin ToSet(s), NEW c
  PROVE  /\ Readable([d EXCEPT ![t] = c], s) \/ ~(ToSet(s) \subseteq DOMAIN d)
         /\ ToSet(s) \subseteq DOMAIN d => Text([d EXCEPT ![t] = c], s) = Text(d, s)
<1> DEFINE e == [d EXCEPT ![t] = c]
<1>1. \A i \in DOMAIN s : s[i] \in ToSet(s)
  BY DEF ToSet
<1>2. ASSUME ToSet(s) \subseteq DOMAIN d
      PROVE  Readable(e, s) /\ Text(e, s) = Text(d, s)
  <2>1. \A x \in ToSet(s) : e[x] = d[x]
    BY <1>2
  <2> HIDE DEF e
  <2>2. Readable(e, s)
    BY <2>1 DEF Readable
  <2>3. Text(e, s) = Text(d, s)
    BY <1>1, <2>1, TextSame
  <2> QED
    BY <2>2, <2>3
<1> QED
  BY <1>2

\* n files give way to one that has their contents.
LEMMA TextMerged ==
  ASSUME NEW d, NEW p, NEW s, Readable(d, p), Readable(d, s), NEW n \in 0..Len(s),
         ToSet(p) \cup ToSet(s) \subseteq DOMAIN d,
         NEW t \in Int, t \in DOMAIN d, t \notin ToSet(p) \cup ToSet(s)
  PROVE  LET e == [d EXCEPT ![t] = Text(d, SubSeq(s, 1, n))]
             r == SubSeq(s, n + 1, Len(s))
         IN /\ Readable(e, p) /\ Readable(e, r) /\ Readable(e, <<t>>)
            /\ Text(e, p \o (<<t>> \o r)) = Text(d, p \o s)
            /\ Text(e, (p \o <<t>>) \o r) = Text(d, p \o s)
<1> DEFINE a == SubSeq(s, 1, n)
           r == SubSeq(s, n + 1, Len(s))
           e == [d EXCEPT ![t] = Text(d, a)]
           o == <<t>>
<1>1. /\ p \in Seq(Int) /\ s \in Seq(Int) /\ Len(s) \in Nat /\ DOMAIN s = 1..Len(s)
      /\ \A i \in 1..Len(s) : s[i] \in ToSet(s) /\ s[i] \in Int
  BY TextsType, ElementOfSeq DEF Readable
<1>2. n \in Int /\ 0 <= n /\ n <= Len(s)
  BY <1>1
<1>3. /\ a \in Seq(Int) /\ Len(a) = n
      /\ \A i \in 1..n : a[i] = s[i]
  BY <1>1, <1>2
<1>4. /\ r \in Seq(Int) /\ Len(r) = Len(s) - n
      /\ \A i \in 1..(Len(s) - n) : r[i] = s[n + i]
  <2>1. n \in Nat
    BY <1>2
  <2>2. /\ r \in Seq(Int)
        /\ Len(r) = IF n < Len(s) THEN Len(s) - n ELSE 0
        /\ \A i \in DOMAIN r : r[i] = s[n + i]
    BY <1>1, <2>1, Rest
  <2> HIDE DEF r
  <2>4. Len(r) = Len(s) - n
    <3>1. CASE n < Len(s)
      BY <2>2, <3>1
    <3>2. CASE ~(n < Len(s))
      <4>1. n = Len(s) /\ Len(s) - n = 0
        <5>1. ASSUME NEW l \in Int, NEW k \in Int, k <= l, ~(k < l)
              PROVE  k = l /\ l - k = 0
          <6>1. k = l
            BY <5>1
          <6> QED
            BY <6>1
        <5>2. Len(s) \in Int
          BY <1>1
        <5> QED
          BY <1>2, <3>2, <5>1, <5>2
      <4> QED
        BY <2>2, <3>2, <4>1
    <3> QED
      BY <3>1, <3>2
  <2>5. DOMAIN r = 1..(Len(s) - n)
    BY <2>2, <2>4, LenProperties
  <2> QED
    BY <2>2, <2>4, <2>5
<1>5. a \o r = s
  <2>1. 1 \in 1..(Len(s) + 1) /\ n \in (1 - 1)..Len(s) /\ Len(s) \in n..Len(s)
    BY <1>1, <1>2
  <2>2. SubSeq(s, 1, n) \o SubSeq(s, n + 1, Len(s)) = SubSeq(s, 1, Len(s))
    BY <1>1, <2>1, ConcatAdjacentSubSeq
  <2> QED
    BY <1>1, <2>2, SubSeqFull
<1> HIDE DEF a, r
<1>6. ToSet(a) \subseteq ToSet(s) /\ ToSet(r) \subseteq ToSet(s)
  <2>1. DOMAIN a = 1..n /\ DOMAIN r = 1..(Len(s) - n)
    BY <1>3, <1>4, LenProperties
  <2>2. \A i \in 1..n : i \in 1..Len(s)
    BY <1>1, <1>2
  <2>3. \A i \in 1..(Len(s) - n) : n + i \in 1..Len(s)
    BY <1>1, <1>2
  <2>4. \A i \in DOMAIN a : a[i] \in ToSet(s)
    BY <1>1, <1>3, <2>1, <2>2
  <2>5. \A i \in DOMAIN r : r[i] \in ToSet(s)
    BY <1>1, <1>4, <2>1, <2>3
  <2> QED
    BY <2>4, <2>5 DEF ToSet
<1>7. Readable(d, a) /\ Readable(d, r)
  BY <1>3, <1>4, <1>6 DEF Readable
<1>8. /\ Readable(e, p) /\ Text(e, p) = Text(d, p)
      /\ Readable(e, r) /\ Text(e, r) = Text(d, r)
  BY <1>6, <1>7, TextBeside
<1>9. e[t] = Text(d, a) /\ e[t] \in Seq(Int)
  BY <1>7, TextType
<1> HIDE DEF e
<1>10. Readable(e, o) /\ Text(e, o) = Text(d, a)
  BY <1>9, TextOne
<1>11. o \in Seq(Int)
  OBVIOUS
<1> HIDE DEF o
<1>12. Readable(e, o \o r) /\ Text(e, o \o r) = Text(d, a) \o Text(d, r)
  <2>1. Readable(e, o) /\ Readable(e, r)
    BY <1>8, <1>10
  <2>2. Readable(e, o \o r) /\ Text(e, o \o r) = Text(e, o) \o Text(e, r)
    BY <2>1, TextJoin
  <2> QED
    BY <1>8, <1>10, <2>2
<1>13. Text(d, s) = Text(d, a) \o Text(d, r)
  BY <1>5, <1>7, TextJoin
<1>14. Text(e, p \o (o \o r)) = Text(d, p) \o Text(d, s)
  <2> DEFINE q == o \o r
  <2>1. Readable(e, p) /\ Readable(e, q)
    BY <1>8, <1>12
  <2> HIDE DEF q
  <2>2. Text(e, p \o q) = Text(e, p) \o Text(e, q)
    BY <2>1, TextJoin
  <2> QED
    BY <1>8, <1>12, <1>13, <2>2 DEF q
<1>15. Text(d, p \o s) = Text(d, p) \o Text(d, s)
  BY TextJoin
<1>16. (p \o o) \o r = p \o (o \o r)
  <2>1. p \in Seq(Int) /\ o \in Seq(Int) /\ r \in Seq(Int)
    BY <1>1, <1>4, <1>11
  <2> QED
    BY <2>1, Associative
<1>17. /\ Readable(e, p) /\ Readable(e, r) /\ Readable(e, o)
       /\ Text(e, p \o (o \o r)) = Text(d, p \o s)
       /\ Text(e, (p \o o) \o r) = Text(d, p \o s)
  BY <1>8, <1>10, <1>14, <1>15, <1>16
<1> QED
  BY <1>17 DEF e, r, a, o

-----------------------------------------------------------------------------
(* The inductive invariant.  As long as no child has failed, the outputs   *)
(* of the pass and the files of the array, read one after the other, have  *)
(* the expected text: Told.  Before, while the buffers are written, the    *)
(* files of the list have one buffer each: Filled.  What comes through a   *)
(* stream is the whole file, because its writer has ended: Reading; the    *)
(* output is not among the files that are counted as temporary, so that    *)
(* the copy takes all its places before the last merge truncates it:       *)
(* Known, and Told once more; and a merge that is about to write has the   *)
(* first job.n files open, or the output for its copy: Goals.              *)

Untroubled == \A c \in DOMAIN child : child[c].state # "failed"

\* Whatever writes f is at its end.
Written(kids, f) ==
  \A c \in DOMAIN kids :
    kids[c].temp = f /\ kids[c].does = "compress" => kids[c].state = "ok"

Stored ==
  /\ Temps \cup {OutFile} \subseteq DOMAIN data
  /\ \A f \in DOMAIN data : data[f] \in Seq(Int)

Known ==
  /\ ToSet(files) \cup ToSet(done) \subseteq DOMAIN data
  /\ \A i \in 1..ntemps : files[i] # OutFile
  /\ OutFile \notin ToSet(done)

Reading ==
  \A i \in DOMAIN streams :
    /\ streams[i].pid \in {0} \cup DOMAIN child
    /\ Written(child, streams[i].file)
    /\ streams[i].eof => streams[i].got = data[streams[i].file]

\* The places where the file being written is in the list.
Enlisted == {"write", "pipe", "reapsome", "fork", "forked", "nofork"}

Filled ==
  Filling =>
    /\ left \in 0..opt.buffers
    /\ pc \in Making \cup {"write"} => left > 0
    /\ Len(FullList) = opt.buffers - left + (IF pc \in Enlisted THEN 1 ELSE 0)
    /\ pc \in Enlisted => FullList[opt.buffers - left + 1] = target
    /\ \A i \in 1..(opt.buffers - left) : data[FullList[i]] = <<i>>

Told ==
  /\ pc \in Between \/ Combining => Text(data, done \o files) = Expected
  /\ pc \in {"pass", "avoid", "final"} \/ (Combining /\ job.goal \notin {"batch", "short"})
       => done = << >>
  /\ pc = "final" \/ (Combining /\ job.goal \in {"squeeze", "final"})
       => OutFile \notin ToSet(files)

Goals ==
  Combining =>
    /\ job.goal \in {"batch", "short", "copy", "squeeze", "final"}
    /\ job.goal = "copy" => /\ job.n = 1 /\ Len(streams) <= 1
                            /\ \A i \in DOMAIN streams : streams[i].file = OutFile
    /\ job.goal = "final" /\ pc # "squeeze" => job.n = Len(files)
    /\ pc \in Closing \cup {"squeeze"} \/ job.goal = "squeeze" => Len(streams) = job.n
    /\ job.goal = "squeeze" => pc \notin {"open", "openfailed"} /\ ~forRead
    /\ pc = "squeeze" => job.goal \in {"final", "squeeze"}
    /\ job.goal = "final" /\ pc \in Closing => target = OutFile

Finished == pc \in {"reapall", "exit"} /\ why = "done" => data[OutFile] = Expected

Held == Known /\ Reading /\ Filled /\ Told /\ Goals
Sound == Stored /\ (AtWork => Held) /\ Finished
Complete == Untroubled => Sound

-----------------------------------------------------------------------------
(* The children.                                                           *)

\* The same children, and what became of those that have ended.
SameKids ==
  /\ DOMAIN child' = DOMAIN child
  /\ \A c \in DOMAIN child :
       /\ child'[c].temp = child[c].temp /\ child'[c].does = child[c].does
       /\ child[c].state \in {"ok", "failed"} => child'[c].state = child[c].state

\* Children that stay as they are write what they wrote.
LEMMA SameKidsLast ==
  ASSUME SameKids
  PROVE  /\ Untroubled' => Untroubled
         /\ \A f : Written(child, f) => Written(child', f)
BY DEF SameKids, Untroubled, Written

\* No child is touched.
LEMMA KidsUnchanged ==
  ASSUME child' = child
  PROVE  SameKids
BY DEF SameKids

\* reap marks children, it does not change what became of them.
LEMMA ReapKids ==
  ASSUME Children, NEW C, NEW p, Reap(C, p)
  PROVE  SameKids
<1>1. CASE \E c \in C : Abnormal(c)
  BY <1>1, KidsUnchanged DEF Reap, procs
<1>2. CASE ~ \E c \in C : Abnormal(c)
  <2>1. child' = [c \in DOMAIN child |->
                    IF c \in C THEN [child[c] EXCEPT !.reaped = TRUE] ELSE child[c]]
    BY <1>2 DEF Reap
  <2>2. \A c \in DOMAIN child : child[c] \in Process
    BY ChildType DEF Children, Table
  <2>3. \A c \in DOMAIN child :
          LET k == [child[c] EXCEPT !.reaped = TRUE]
          IN k.temp = child[c].temp /\ k.does = child[c].does /\ k.state = child[c].state
    BY <2>2 DEF Process
  <2> QED
    BY <2>1, <2>3 DEF SameKids
<1> QED
  BY <1>1, <1>2

\* A step of a child that had not ended.
LEMMA ChildKids ==
  ASSUME Children, NEW c \in DOMAIN child,
         ChildStep(c) \/ ProgramFails(c) \/ SignalForked(c)
  PROVE  SameKids
<1>1. PICK st \in {"runs", "ok", "failed", "sigpipe"} :
        child' = [child EXCEPT ![c].state = st] /\ UNCHANGED sort
  BY DEF ChildStep, Exec, Finish, NobodyReads, ProgramFails, SignalForked, Becomes
<1>2. child[c].state \in {"forked", "runs"}
  BY DEF ChildStep, Exec, Finish, NobodyReads, ProgramFails, SignalForked, Is
<1>3. /\ DOMAIN child' = DOMAIN child
      /\ \A k \in DOMAIN child :
           /\ child'[k].temp = child[k].temp /\ child'[k].does = child[k].does
           /\ k # c => child'[k] = child[k]
  BY <1>1, ChildType DEF Children, Table, Process
<1> QED
  BY <1>2, <1>3 DEF SameKids

\* A file that no unreaped child has written is complete.
LEMMA IdleWritten ==
  ASSUME Children, Reported, NEW f, f \in Temps => ~Busy(f)
  PROVE  Written(child, f)
<1> SUFFICES ASSUME NEW c \in DOMAIN child, child[c].temp = f
             PROVE  child[c].state = "ok"
  BY DEF Written
<1>1. f \in Temps
  BY ChildType DEF Children, Table
<1>2. child[c].reaped
  BY <1>1 DEF Children, Table, Tabled
<1> QED
  BY <1>2 DEF Reported

-----------------------------------------------------------------------------
(* Steps that leave the files, the list and the merge alone.               *)

\* No writer of an input is added, and none comes back.
KidsLast ==
  /\ DOMAIN child \subseteq DOMAIN child'
  /\ \A i \in DOMAIN streams :
       Written(child, streams[i].file) => Written(child', streams[i].file)

Ongoing ==
  /\ UNCHANGED <<opt, data>>
  /\ AtWork' =>
       /\ AtWork /\ UNCHANGED <<files, done, ntemps, job, streams, left>>
       /\ pc' \in Enlisted \cup Closing => target' = target
       /\ pc' \in Between => pc' = pc
       /\ Combining' => Combining
       /\ Filling' => /\ Filling /\ FullList' = FullList
                      /\ pc' \in Enlisted <=> pc \in Enlisted
                      /\ pc' \in Making \cup {"write"} => pc \in Making \cup {"write"}
       /\ pc = "squeeze" => pc' = "squeeze"
       /\ pc' = "squeeze" => pc = "squeeze" \/ job.goal = "squeeze"
       /\ pc' \in Closing \cup {"squeeze"}
            => pc \in Closing \cup {"squeeze"} \/ job.goal = "squeeze"
       /\ job.goal = "final" /\ pc' \in Closing => pc \in Closing
       /\ job.goal = "squeeze" /\ (pc' \in {"open", "openfailed"} \/ forRead')
            => pc \in {"open", "openfailed"} \/ forRead
  /\ pc' \in {"reapall", "exit"} /\ why' = "done"
       => pc \in {"reapall", "exit"} /\ why = "done"

\* Such a step keeps the invariant.
LEMMA OngoingStep ==
  ASSUME Sound, KidsLast, Ongoing
  PROVE  Sound'
<1>1. Expected' = Expected /\ data' = data
  BY DEF Ongoing, Expected
<1>2. Stored' /\ Finished'
  BY <1>1 DEF Sound, Stored, Finished, Ongoing
<1> SUFFICES ASSUME AtWork' PROVE Held'
  BY <1>2 DEF Sound
<1>3. /\ AtWork /\ Held /\ UNCHANGED <<opt, data, files, done, ntemps, job, streams, left>>
  BY DEF Sound, Ongoing
<1>4. Known'
  BY <1>3 DEF Held, Known
<1>5. Reading'
  BY <1>3 DEF Held, Reading, KidsLast
<1>6. Filled'
  <2> SUFFICES ASSUME Filling' PROVE Filled'
    BY DEF Filled
  <2>1. /\ Filling /\ FullList' = FullList
        /\ pc' \in Enlisted <=> pc \in Enlisted
        /\ pc' \in Making \cup {"write"} => pc \in Making \cup {"write"}
        /\ pc' \in Enlisted => target' = target
    BY DEF Ongoing
  <2> QED
    BY <1>3, <2>1 DEF Held, Filled
<1>7. Told'
  <2>1. Combining' => Combining
    BY DEF Ongoing
  <2>2. pc' \in Between => pc' = pc
    BY DEF Ongoing
  <2>3. {"pass", "avoid", "final"} \subseteq Between
    BY DEF Between
  <2> QED
    BY <1>1, <1>3, <2>1, <2>2, <2>3 DEF Held, Told
<1>8. Goals'
  BY <1>3 DEF Held, Goals, Ongoing
<1> QED
  BY <1>4, <1>5, <1>6, <1>7, <1>8 DEF Held

\* A child that has written its file goes on having written it.
LEMMA SameKidsKeep ==
  ASSUME SameKids
  PROVE  KidsLast
BY SameKidsLast DEF SameKids, KidsLast

-----------------------------------------------------------------------------
(* Step by step: the children and the creation of files.                  *)

\* reap_some, wait_proc, reap_all
LEMMA ReapingSound ==
  ASSUME Children, Sound, ReapSome \/ WaitToOpen \/ WaitToZap \/ ReapAll
  PROVE  Sound'
<1> SUFFICES SameKids /\ Ongoing
  BY SameKidsKeep, OngoingStep
<1> USE DEF Ongoing, Combining, Filling, Making, Merges, Between, Closing, Enlisted, FullList,
        AtWork
<1>2. CASE ReapSome
  <2>1. SameKids /\ (\/ pc' = "fork" /\ UNCHANGED why
                     \/ pc' = "exit" /\ why' # "done")
    BY <1>2, ReapKids DEF ReapSome, Reap, Die, Go
  <2> QED
    BY <1>2, <2>1 DEF ReapSome, At, array, merging, list, disk
<1>3. CASE WaitToOpen \/ WaitToZap
  <2>1. PICK t : WaitProc(t)
    BY <1>3 DEF WaitToOpen, WaitToZap
  <2>2. SameKids /\ (\/ pc' = pc /\ UNCHANGED why
                     \/ pc' = "exit" /\ why' # "done")
    BY <2>1, ReapKids DEF WaitProc, Reap, Die, Go
  <2> QED
    BY <1>3, <2>2 DEF WaitToOpen, WaitToZap, At, array, merging, list, disk
<1>4. CASE ReapAll
  <2>1. SameKids /\ pc' \in {"exit", "reapall"} /\ why' \in {why, "program"}
    BY <1>4, ReapKids, KidsUnchanged DEF ReapAll, Reap, Die, Go, At, procs
  <2> QED
    BY <1>4, <2>1 DEF ReapAll, At, array, merging, list, disk
<1> QED
  BY <1>2, <1>3, <1>4

\* pipe_fork up to its end
LEMMA PipeForkSound ==
  ASSUME Children, Lifetimes, Sound, Pipe \/ EnterFork \/ ForkAgain \/ ForkError \/ NoFork
  PROVE  Sound'
<1> SUFFICES SameKids /\ Ongoing
  BY SameKidsKeep, OngoingStep
<1>1. Created = IF job.goal = "buffer" THEN "write"
                ELSE IF job.goal = "squeeze" THEN "merge" ELSE "open"
  BY DEF Created
<1> USE DEF Ongoing, Combining, Filling, Making, Merges, Between, Closing, Enlisted, FullList,
        AtWork
<1>7. AtWork /\ forRead => job.goal # "buffer"
  BY DEF Lifetimes, Jobs
<1>2. CASE Pipe
  BY <1>1, <1>2, <1>7, KidsUnchanged DEF Pipe, At, Go, array, merging, list, procs, disk, end
<1>3. CASE EnterFork
  BY <1>3, KidsUnchanged DEF EnterFork, At, Go, array, merging, procs, disk, end
<1>4. CASE ForkAgain
  <2>1. SameKids /\ (\/ pc' \in {"fork", "nofork"}
                     \/ pc' = "exit" /\ why' # "done")
    BY <1>4, ReapKids DEF ForkAgain, Reap, Die, Go
  <2> QED
    BY <1>4, <2>1 DEF ForkAgain, LeaveFork, At, array, merging, disk
<1>5. CASE ForkError
  BY <1>5, KidsUnchanged DEF ForkError, LeaveFork, At, Go, array, merging, procs, disk, end
<1>6. CASE NoFork
  <2>1. /\ pc = "nofork" /\ outcome = "running" /\ UNCHANGED outcome
        /\ UNCHANGED <<opt, data, files, done, ntemps, job, streams, left, target, forRead,
                       temphead, child>>
        /\ \/ forRead /\ pc' = "exit" /\ why' # "done"
           \/ ~forRead /\ pc' = Created
    BY <1>6 DEF NoFork, At, Go, Die, array, merging, list, procs, disk
  <2> QED
    BY <1>1, <2>1, KidsUnchanged
<1> QED
  BY <1>2, <1>3, <1>4, <1>5, <1>6

\* Steps that lead out of a merge, or out of sort, or nowhere.
LEMMA LeavingSound ==
  ASSUME Sound, OpenTemp \/ Unlink \/ Unlist \/ Exit \/ Signal \/ SigPipe \/ UNCHANGED vars
  PROVE  Sound'
<1> SUFFICES SameKids /\ Ongoing
  BY SameKidsKeep, OngoingStep
<1> USE DEF Ongoing, Combining, Filling, Making, Merges, Between, Closing, Enlisted, FullList,
        AtWork
<1>3. CASE OpenTemp
  <2>1. /\ pc = "open" /\ pc' \in {"pipe", "openfailed"} /\ outcome = "running"
        /\ UNCHANGED <<outcome, opt, data, files, done, ntemps, job, streams, left, target, child>>
    BY <1>3 DEF OpenTemp, At, Go, array, merging, list, procs, disk, end
  <2>2. job.goal # "buffer"
    BY <2>1 DEF Sound, Held, Goals
  <2> QED
    BY <2>1, <2>2, KidsUnchanged
<1>4. CASE Unlink \/ Unlist
  <2>1. /\ pc \in {"zap", "unlinked"} /\ pc' \in {"unlinked", "merge"}
        /\ outcome = "running" /\ UNCHANGED outcome
        /\ UNCHANGED <<opt, data, files, done, ntemps, job, streams, left, target, forRead, child>>
    BY <1>4 DEF Unlink, Unlist, At, Go, array, merging, procs, disk, end
  <2> QED
    BY <2>1, KidsUnchanged
<1>5. CASE Exit \/ Signal \/ SigPipe
  <2>1. ~AtWork' /\ UNCHANGED <<opt, data, pc, why, child>>
    BY <1>5 DEF Exit, Signal, SigPipe, At, procs
  <2> QED
    BY <2>1, KidsUnchanged
<1>6. CASE UNCHANGED vars
  BY <1>6, KidsUnchanged DEF vars, array, merging, list, procs, disk, end
<1> QED
  BY <1>3, <1>4, <1>5, <1>6

\* The children
LEMMA ChildSound ==
  ASSUME Children, Sound, NEW c \in DOMAIN child,
         ChildStep(c) \/ ProgramFails(c) \/ SignalForked(c)
  PROVE  Sound'
<1>1. UNCHANGED sort
  BY DEF ChildStep, Exec, Finish, NobodyReads, ProgramFails, SignalForked, Becomes
<1>2. SameKids
  BY ChildKids
<1>3. Ongoing
  BY <1>1 DEF sort, array, merging, list, end, Ongoing, Combining, Filling, FullList, AtWork
<1> QED
  BY <1>2, <1>3, SameKidsKeep, OngoingStep

\* create_temp_file
LEMMA CreateSound ==
  ASSUME Sound, CreateTempFile
  PROVE  Sound'
<1> SUFFICES SameKids /\ Ongoing
  BY SameKidsKeep, OngoingStep
<1>1. /\ pc = "create" /\ outcome = "running" /\ UNCHANGED outcome
      /\ UNCHANGED <<opt, data, files, done, ntemps, job, streams, left, forRead, temphead, hidden, child>>
      /\ \/ pc' = "created"
         \/ pc' = "squeeze" /\ job.goal = "squeeze"
         \/ pc' = "exit" /\ why' # "done"
  BY DEF CreateTempFile, At, Go, Die, array, procs
<1> QED
  BY <1>1, KidsUnchanged DEF Ongoing, Combining, Filling, Making, Merges, Between, Closing,
     Enlisted, FullList, AtWork

\* The new file is the last of the list.
LEMMA LinkSound ==
  ASSUME Inv, Children, Lifetimes, Sound, LinkTemp
  PROVE  Sound'
<1>1. /\ pc = "created" /\ outcome = "running" /\ UNCHANGED outcome
      /\ UNCHANGED <<opt, data, files, done, ntemps, job, streams, left, target, forRead, child, why>>
      /\ temphead' = Append(temphead, target) /\ pc' \in {"pipe", Created}
  BY DEF LinkTemp, At, Go, array, merging, procs, disk, end
<1>2. SameKids
  BY <1>1, KidsUnchanged
<1>3. CASE job.goal # "buffer"
  <2>1. pc' \in {"pipe", "open", "merge"} /\ (pc' = "merge" => job.goal = "squeeze")
        /\ (pc' = "open" => job.goal # "squeeze")
    BY <1>1, <1>3 DEF Created
  <2>2. ~forRead
    BY <1>1, HaveParts DEF PipeFork, Forking
  <2>3. Ongoing
    BY <1>1, <1>3, <2>1, <2>2 DEF Ongoing, Combining, Filling, Making, Merges, Between, Closing,
       Enlisted, FullList, AtWork
  <2> QED
    BY <1>2, <2>3, SameKidsKeep, OngoingStep
<1>4. CASE job.goal = "buffer"
  <2>1. pc' \in {"pipe", "write"}
    BY <1>1, <1>4 DEF Created
  <2>2. Stored' /\ Finished' /\ ~Combining' /\ pc' \notin Between
    BY <1>1, <1>4, <2>1 DEF Sound, Stored, Finished, Combining, Making, Merges, Between
  <2>3. AtWork /\ Known /\ Reading /\ Filled
    BY <1>1 DEF Sound, Held, AtWork
  <2>4. Known' /\ Reading' /\ Goals' /\ Told'
    BY <1>1, <2>1, <2>2, <2>3 DEF Known, Reading, Goals, Told
  <2>5. Filled'
    <3> DEFINE n == opt.buffers - left
    <3>0. /\ Filling /\ pc \in Making /\ pc \notin Enlisted /\ FullList = temphead
      BY <1>1, <1>4 DEF Filling, Making, Enlisted, FullList
    <3>1. /\ left \in 0..opt.buffers /\ left > 0 /\ Len(temphead) = n
          /\ \A i \in 1..n : data[temphead[i]] = <<i>>
      <4>1. Len(temphead) = opt.buffers - left + 0
        BY <2>3, <3>0 DEF Filled
      <4>2. opt.buffers \in Nat
        BY ScenariosAssumption DEF Children, Limited, Scenario
      <4> QED
        BY <2>3, <3>0, <4>1, <4>2 DEF Filled
    <3>2. temphead \in Seq(Temps) /\ target \in Temps /\ hidden' = hidden
      BY <1>1 DEF Inv, Typed, LinkTemp
    <3>3. /\ Len(temphead') = n + 1 /\ temphead'[n + 1] = target
          /\ \A i \in 1..n : temphead'[i] = temphead[i]
      <4> HIDE DEF n
      <4> QED
        BY <1>1, <3>1, <3>2, AppendProperties
    <3>4. FullList' = temphead' /\ pc' \in Enlisted
      BY <2>1 DEF FullList, Enlisted
    <3> QED
      BY <1>1, <3>1, <3>3, <3>4 DEF Filled
  <2> QED
    BY <1>2, <2>2, <2>4, <2>5 DEF Sound, Held
<1> QED
  BY <1>3, <1>4

-----------------------------------------------------------------------------
(* The buffers.                                                            *)

\* The number of buffers is a number.
LEMMA BufferCount ==
  ASSUME Children
  PROVE  opt.buffers \in Nat
BY ScenariosAssumption DEF Children, Limited, Scenario

\* The output is not a temporary file.
LEMMA NotOutFile ==
  /\ OutFile \notin Temps /\ OutFile \in Int /\ Temps \subseteq Int
BY ScenariosAssumption DEF OutFile, Temps

\* All files of the array and of the pass can be read.
LEMMA CanRead ==
  ASSUME Array, Stored, Known
  PROVE  Readable(data, files) /\ Readable(data, done)
BY DEF Array, Stored, Known, Readable

\* What is written elsewhere than in t stays.
LEMMA StoredKept ==
  ASSUME Stored, NEW t \in DOMAIN data, NEW c \in Seq(Int), data' = [data EXCEPT ![t] = c]
  PROVE  /\ Stored' /\ DOMAIN data' = DOMAIN data /\ data'[t] = c
         /\ \A f \in DOMAIN data : f # t => data'[f] = data[f]
<1>1. /\ DOMAIN data' = DOMAIN data /\ data'[t] = c
      /\ \A f \in DOMAIN data : f # t => data'[f] = data[f]
  OBVIOUS
<1>2. \A f \in DOMAIN data' : data'[f] \in Seq(Int)
  BY <1>1 DEF Stored
<1> QED
  BY <1>1, <1>2 DEF Stored

\* sort: one more buffer
LEMMA ReadBufferSound ==
  ASSUME Children, Lifetimes, Sound, ReadBuffer
  PROVE  Sound'
<1>1. /\ pc = "read" /\ pc' = "create" /\ outcome = "running" /\ UNCHANGED outcome /\ left > 0
      /\ UNCHANGED <<opt, data, files, done, ntemps, left, streams, temphead, child>>
      /\ job' = [goal |-> "buffer", n |-> 0, ntemps |-> 0]
  BY DEF ReadBuffer, Start, At, Go, array, list, procs, disk, end
<1>2. SameKids
  BY <1>1, KidsUnchanged
<1>3. AtWork /\ Known /\ Reading /\ Filled
  BY <1>1 DEF Sound, Held, AtWork
<1>4. Stored' /\ Finished' /\ Known' /\ Reading'
  BY <1>1, <1>3 DEF Sound, Stored, Finished, Known, Reading
<1>5. job'.goal = "buffer"
  BY <1>1
<1>6. Told' /\ Goals'
  BY <1>1, <1>5 DEF Told, Goals, Combining, Merges, Between
<1>7. Filled'
  <2>1. FullList' = temphead /\ FullList = temphead /\ Filling /\ pc \notin Enlisted /\ pc' \notin Enlisted
    BY <1>1 DEF FullList, Filling, Enlisted
  <2> QED
    BY <1>1, <1>3, <2>1 DEF Filled
<1> QED
  BY <1>2, <1>3, <1>4, <1>6, <1>7 DEF Sound, Held

\* The buffer goes to the file that is the last of the list.
LEMMA WriteBufferSound ==
  ASSUME Inv, Children, Lifetimes, Sound, WriteBuffer
  PROVE  Sound'
<1> DEFINE n == opt.buffers - left
<1>1. /\ pc = "write" /\ pc' = "read" /\ outcome = "running" /\ UNCHANGED outcome
      /\ left' = left - 1 /\ data' = [data EXCEPT ![target] = <<n + 1>>]
      /\ UNCHANGED <<opt, files, done, ntemps, job, streams, temphead, child>>
  BY DEF WriteBuffer, Write, At, Go, list, procs, end
<1>2. SameKids
  BY <1>1, KidsUnchanged
<1>3. AtWork /\ Known /\ Reading /\ Filled /\ Stored
  BY <1>1 DEF Sound, Held, AtWork
<1>4. /\ files = << >> /\ done = << >> /\ ntemps = 0 /\ streams = << >>
      /\ \A k, l \in DOMAIN temphead : temphead[k] = temphead[l] => k = l
  BY <1>1, <1>3, HaveParts DEF Parts, Buffered, Filling, FullList
<1>5. /\ left \in 0..opt.buffers /\ left > 0 /\ opt.buffers \in Nat
      /\ Len(temphead) = n + 1 /\ temphead[n + 1] = target
      /\ \A i \in 1..n : data[temphead[i]] = <<i>>
  <2>1. Filling /\ FullList = temphead /\ pc \in Enlisted
    BY <1>1 DEF Filling, FullList, Enlisted
  <2> QED
    BY <1>1, <1>3, <2>1, BufferCount DEF Filled
<1>6. /\ temphead \in Seq(Temps) /\ DOMAIN temphead = 1..(n + 1) /\ n \in Nat
      /\ \A i \in 1..(n + 1) : temphead[i] \in Temps
  <2>1. temphead \in Seq(Temps)
    BY DEF Inv, Typed
  <2>2. n \in Nat
    BY <1>5
  <2> HIDE DEF n
  <2>3. DOMAIN temphead = 1..(n + 1) /\ \A i \in 1..(n + 1) : temphead[i] \in Temps
    BY <1>5, <2>1, LenProperties, ElementOfSeq
  <2> QED
    BY <2>1, <2>2, <2>3
<1> HIDE DEF n
<1>7. target \in DOMAIN data /\ <<n + 1>> \in Seq(Int)
  <2>1. n + 1 \in 1..(n + 1) /\ n + 1 \in Int
    BY <1>6
  <2> QED
    BY <1>3, <1>5, <1>6, <2>1 DEF Stored
<1>8. /\ Stored' /\ DOMAIN data' = DOMAIN data /\ data'[target] = <<n + 1>>
      /\ \A f \in DOMAIN data : f # target => data'[f] = data[f]
  BY <1>1, <1>3, <1>7, StoredKept
<1>9. Known' /\ Reading' /\ Finished'
  BY <1>1, <1>3, <1>4, <1>8 DEF Known, Reading, Finished
<1>10. Told' /\ Goals'
  BY <1>1 DEF Told, Goals, Combining, Merges, Making, Between
<1>11. \A i \in 1..(n + 1) : data'[temphead[i]] = <<i>>
  <2> SUFFICES ASSUME NEW i \in 1..(n + 1) PROVE data'[temphead[i]] = <<i>>
    OBVIOUS
  <2>1. CASE i = n + 1
    BY <1>5, <1>8, <2>1
  <2>2. CASE i # n + 1
    <3>1. i \in 1..n /\ n + 1 \in 1..(n + 1)
      BY <1>6, <2>2
    <3>2. temphead[i] # target
      BY <1>4, <1>5, <1>6, <2>2, <3>1
    <3>3. temphead[i] \in DOMAIN data
      BY <1>3, <1>6 DEF Stored
    <3> QED
      BY <1>5, <1>8, <3>1, <3>2, <3>3
  <2> QED
    BY <2>1, <2>2
<1>12. Filled'
  <2>1. /\ FullList' = temphead /\ pc' \notin Enlisted /\ pc' \notin Making \cup {"write"}
    BY <1>1 DEF FullList, Enlisted, Making
  <2>2. opt'.buffers - left' = n + 1 /\ left' \in 0..opt'.buffers
    BY <1>1, <1>5 DEF n
  <2>3. Len(temphead) = n + 1 + 0
    BY <1>5, <1>6
  <2> QED
    BY <1>11, <2>1, <2>2, <2>3 DEF Filled
<1> QED
  BY <1>2, <1>8, <1>9, <1>10, <1>12 DEF Sound, Held

\* The only buffer goes to the output.
LEMMA WriteOnlySound ==
  ASSUME Sound, WriteOnly
  PROVE  Sound'
<1>1. /\ pc' = "reapall" /\ opt.buffers = 1 /\ UNCHANGED <<opt, child>>
      /\ data' = [data EXCEPT ![OutFile] = <<1>>]
  BY DEF WriteOnly, At, Go, procs
<1>2. OutFile \in DOMAIN data /\ <<1>> \in Seq(Int) /\ Stored
  BY DEF Sound, Stored
<1>3. Stored' /\ data'[OutFile] = <<1>>
  BY <1>1, <1>2, StoredKept
<1>4. Expected' = <<1>>
  <2>1. [i \in 1..1 |-> i] = <<1>>
    OBVIOUS
  <2> QED
    BY <1>1, <2>1 DEF Expected
<1> QED
  BY <1>1, <1>3, <1>4, KidsUnchanged DEF Sound, Finished, AtWork

\* The files of the list, in its order, have all the buffers.
LEMMA MergeTempsSound ==
  ASSUME Inv, Children, Lifetimes, Sound, MergeTemps
  PROVE  Sound'
<1>1. /\ pc = "read" /\ pc' = "pass" /\ outcome = "running" /\ UNCHANGED outcome
      /\ opt.buffers > 1 /\ left = 0
      /\ files' = temphead /\ ntemps' = Len(temphead)
      /\ UNCHANGED <<opt, data, done, left, streams, temphead, job, child>>
  BY DEF MergeTemps, At, Go, merging, list, procs, disk, end
<1>2. SameKids
  BY <1>1, KidsUnchanged
<1>3. AtWork /\ Known /\ Reading /\ Filled /\ Stored
  BY <1>1 DEF Sound, Held, AtWork
<1>4. done = << >> /\ streams = << >>
  BY <1>1, <1>3, HaveParts DEF Parts, Buffered, Filling
<1>5. /\ opt.buffers \in Nat /\ Len(temphead) = opt.buffers
      /\ \A i \in 1..opt.buffers : data[temphead[i]] = <<i>>
  <2>1. Filling /\ FullList = temphead /\ pc \notin Enlisted
    BY <1>1 DEF Filling, FullList, Enlisted
  <2>2. opt.buffers - left = opt.buffers /\ opt.buffers + 0 = opt.buffers /\ opt.buffers \in Nat
    BY <1>1, BufferCount
  <2> QED
    BY <1>1, <1>3, <2>1, <2>2 DEF Filled
<1>6. /\ temphead \in Seq(Temps) /\ temphead \in Seq(Int)
      /\ \A i \in 1..Len(temphead) : temphead[i] \in Temps
      /\ DOMAIN temphead = 1..Len(temphead)
  BY ListType, ElementOfSeq DEF Inv, Typed
<1>7. ToSet(temphead) \subseteq Temps
  BY <1>6 DEF ToSet
<1>8. Readable(data, temphead)
  BY <1>3, <1>6, <1>7 DEF Readable, Stored
<1>9. Text(data, temphead) = Expected
  <2> DEFINE e == [i \in 1..opt.buffers |-> i]
  <2>1. e \in Seq(Int) /\ Len(e) = opt.buffers /\ \A i \in 1..opt.buffers : e[i] = i
    BY <1>5
  <2>2. Expected = e
    BY <1>1 DEF Expected
  <2> HIDE DEF e
  <2>3. Len(temphead) = Len(e) /\ \A i \in 1..Len(e) : data[temphead[i]] = <<e[i]>>
    BY <1>5, <2>1
  <2>4. Text(data, temphead) = e
    BY <1>8, <2>1, <2>3, TextUnits
  <2> QED
    BY <2>2, <2>4
<1>10. << >> \o temphead = temphead
  BY <1>6, ConcatEmptySeq
<1>11. Told'
  BY <1>1, <1>4, <1>9, <1>10 DEF Told, Expected, Combining, Merges, Making
<1>12. Known'
  BY <1>1, <1>3, <1>4, <1>6, <1>7, NotOutFile DEF Known, Stored
<1>13. Stored' /\ Finished' /\ Reading' /\ Goals' /\ Filled'
  BY <1>1, <1>3, <1>4
  DEF Stored, Finished, Reading, Goals, Combining, Merges, Making, Filled, Filling
<1> QED
  BY <1>2, <1>11, <1>12, <1>13 DEF Sound, Held

-----------------------------------------------------------------------------
(* Children that are started, and children that have failed.              *)

\* fork: one more child, which has not failed and writes only the new file.
LEMMA ForkedKids ==
  ASSUME Inv, Children, Forked
  PROVE  /\ Untroubled' => Untroubled
         /\ DOMAIN child' = DOMAIN child \cup {Len(child) + 1} /\ Len(child) \in Nat
         /\ \A f : (f # target \/ forRead) /\ Written(child, f) => Written(child', f)
<1> DEFINE kid == [temp |-> Subject, temphead |-> temphead, state |-> "forked",
                   reaped |-> FALSE, does |-> IF forRead THEN "decompress" ELSE "compress"]
           p == Len(child) + 1
<1>1. child' = Append(child, kid) /\ child \in Seq(Process) /\ pc = "forked"
  BY DEF Forked, At, Children, Table
<1>2. kid \in Process
  BY <1>1 DEF Process, Inv, Typed, Children, Places, Forking, Idle
<1>3. /\ kid.temp = Subject /\ kid.state = "forked"
      /\ kid.does = IF forRead THEN "decompress" ELSE "compress"
  OBVIOUS
<1> HIDE DEF kid
<1>4. /\ DOMAIN child = 1..Len(child) /\ Len(child) \in Nat /\ child'[p] = kid
      /\ DOMAIN child' = 1..(Len(child) + 1)
      /\ \A c \in 1..Len(child) : child'[c] = child[c]
  BY <1>1, <1>2, AppendProperties, LenProperties
<1>5. DOMAIN child' = DOMAIN child \cup {p} /\ \A c \in DOMAIN child : child'[c] = child[c]
  BY <1>4
<1>6. ASSUME NEW f, f # target \/ forRead, Written(child, f)
      PROVE  Written(child', f)
  <2>1. ~(kid.temp = f /\ kid.does = "compress")
    BY <1>3, <1>6 DEF Subject
  <2> HIDE DEF p
  <2> QED
    BY <1>4, <1>5, <1>6, <2>1 DEF Written
<1>7. Untroubled' => Untroubled
  BY <1>5 DEF Untroubled
<1> QED
  BY <1>4, <1>5, <1>6, <1>7

\* A child that has failed has failed for good.
LEMMA TroubleLasts ==
  ASSUME Inv, Children, [Next]_vars
  PROVE  Untroubled' => Untroubled
<1>1. CASE child' = child
  BY <1>1, KidsUnchanged, SameKidsLast
<1>2. CASE ReapSome \/ WaitToOpen \/ WaitToZap \/ ReapAll \/ ForkAgain
  BY <1>2, ReapKids, SameKidsLast, KidsUnchanged
  DEF ReapSome, WaitToOpen, WaitToZap, WaitProc, ReapAll, ForkAgain, procs
<1>3. CASE Forked
  BY <1>3, ForkedKids
<1>4. ASSUME NEW c \in DOMAIN child, ChildStep(c) \/ ProgramFails(c) \/ SignalForked(c)
      PROVE  Untroubled' => Untroubled
  BY <1>4, ChildKids, SameKidsLast
<1>5. CASE SortStep
  <2>1. CASE WriteOnly \/ ReadBuffer \/ WriteBuffer \/ MergeTemps \/ CreateTempFile \/ LinkTemp
    BY <1>1, <2>1 DEF WriteOnly, ReadBuffer, WriteBuffer, MergeTemps, CreateTempFile, LinkTemp,
       procs
  <2>2. CASE Pipe \/ EnterFork \/ ForkError \/ NoFork
    BY <1>1, <2>2 DEF Pipe, EnterFork, ForkError, NoFork, procs
  <2>3. CASE OpenFile \/ OpenTemp \/ Opened \/ OpenFailed \/ Unlink \/ Unlist \/ MergeDone
    BY <1>1, <2>3 DEF OpenFile, OpenTemp, Opened, OpenFailed, Unlink, Unlist, MergeDone, procs
  <2>4. CASE \E i \in DOMAIN streams : EndOfInput(i)
    BY <1>1, <2>4 DEF EndOfInput, procs
  <2>5. CASE Pass \/ MergeBatch \/ EndPass \/ AvoidTrashingInput \/ FinalMerge \/ Squeeze
    BY <1>1, <2>5 DEF Pass, MergeBatch, EndPass, AvoidTrashingInput, FinalMerge, Squeeze, procs
  <2>6. CASE Exit \/ SigPipe
    BY <1>1, <2>6 DEF Exit, SigPipe, procs
  <2> QED
    BY <1>2, <1>3, <1>5, <2>1, <2>2, <2>3, <2>4, <2>5, <2>6 DEF SortStep
<1>6. CASE Signal \/ UNCHANGED vars
  BY <1>1, <1>6 DEF Signal, vars, procs
<1> QED
  BY <1>4, <1>5, <1>6 DEF Next

-----------------------------------------------------------------------------
(* Between the merges.                                                     *)

\* merge: the steps that decide which merge comes next.
LEMMA BetweenSound ==
  ASSUME Children, Lifetimes, Sound, Pass \/ MergeBatch \/ AvoidTrashingInput \/ FinalMerge
  PROVE  Sound'
<1>1. /\ pc \in {"pass", "batch", "avoid", "final"} /\ outcome = "running" /\ UNCHANGED outcome
      /\ UNCHANGED <<opt, data, files, done, ntemps, left, streams, child>>
  BY DEF Pass, MergeBatch, AvoidTrashingInput, FinalMerge, At, array, merging, list, procs, disk,
     end
<1>2. AtWork /\ Known /\ Reading /\ Told /\ Stored
  BY <1>1 DEF Sound, Held, AtWork
<1>3. Array /\ streams = << >>
  BY <1>1, <1>2, HaveParts DEF Parts, Jobs, Between
<1>4. Stored' /\ Known' /\ Reading'
  BY <1>1, <1>2, <1>3 DEF Stored, Known, Reading
<1>5. Text(data', done' \o files') = Expected' /\ Expected' = Expected
  BY <1>1, <1>2 DEF Told, Between, Expected
<1>6. CASE Pass
  <2>1. pc' \in {"batch", "avoid"} /\ done' = << >>
    BY <1>1, <1>2, <1>6 DEF Pass, At, Go, Told
  <2>2. Told' /\ Goals' /\ Filled' /\ Finished'
    BY <1>5, <2>1 DEF Told, Goals, Filled, Finished, Combining, Filling, Merges, Making
  <2> QED
    BY <1>4, <2>2 DEF Sound, Held
<1>7. CASE MergeBatch
  <2>1. \/ pc' = "endpass"
        \/ pc' = "create" /\ job'.goal \in {"batch", "short"}
    <3>1. CASE UNCHANGED job
      BY <1>7, <3>1 DEF MergeBatch, Start, Go
    <3> QED
      BY <1>7 DEF MergeBatch, Start, Go
  <2>2. Told' /\ Goals' /\ Filled' /\ Finished'
    BY <1>5, <2>1 DEF Told, Goals, Filled, Finished, Combining, Filling, Merges, Making, Closing
  <2> QED
    BY <1>4, <2>2 DEF Sound, Held
<1>8. CASE AvoidTrashingInput
  <2>1. done' = << >>
    BY <1>1, <1>2, <1>8 DEF AvoidTrashingInput, At, Told
  <2>2. CASE \E i \in (ntemps + 1)..Len(files) : Same(files[i])
    <3>1. job' = [goal |-> "copy", n |-> 1, ntemps |-> 0] /\ pc' = "create"
      BY <1>8, <2>2 DEF AvoidTrashingInput, Start, Go
    <3>2. job'.goal = "copy" /\ job'.n = 1 /\ Len(streams') <= 1 /\ DOMAIN streams' = {}
      BY <1>1, <1>3, <3>1
    <3>3. Told' /\ Goals' /\ Filled' /\ Finished'
      BY <1>5, <2>1, <3>1, <3>2
      DEF Told, Goals, Filled, Finished, Combining, Filling, Merges, Making, Closing
    <3> QED
      BY <1>4, <3>3 DEF Sound, Held
  <2>3. CASE ~ \E i \in (ntemps + 1)..Len(files) : Same(files[i])
    <3>1. pc' = "final"
      BY <1>8, <2>3 DEF AvoidTrashingInput, Go
    <3>2. OutFile \notin ToSet(files)
      <4>1. DOMAIN files = 1..Len(files) /\ Len(files) \in Nat /\ ntemps \in Nat
        BY <1>3 DEF Array
      <4>2. \A i \in DOMAIN files : i \in 1..ntemps \/ i \in (ntemps + 1)..Len(files)
        BY <4>1
      <4>3. \A i \in DOMAIN files : files[i] # OutFile
        BY <1>2, <2>3, <4>2 DEF Known, Same
      <4> QED
        BY <4>3, Elements
    <3>3. Told' /\ Goals' /\ Filled' /\ Finished'
      BY <1>1, <1>5, <2>1, <3>1, <3>2
      DEF Told, Goals, Filled, Finished, Combining, Filling, Merges, Making, Between
    <3> QED
      BY <1>4, <3>3 DEF Sound, Held
  <2> QED
    BY <2>2, <2>3
<1>9. CASE FinalMerge
  <2>1. /\ pc = "final" /\ pc' = "open"
        /\ job' = [goal |-> "final", n |-> Len(files), ntemps |-> ntemps]
    BY <1>9 DEF FinalMerge, At, Go
  <2>2. done' = << >> /\ OutFile \notin ToSet(files') /\ job'.goal = "final" /\ job'.n = Len(files')
    BY <1>1, <1>2, <2>1 DEF Told
  <2>3. Told' /\ Goals' /\ Filled' /\ Finished'
    BY <1>5, <2>1, <2>2
    DEF Told, Goals, Filled, Finished, Combining, Filling, Merges, Making, Closing
  <2> QED
    BY <1>4, <2>3 DEF Sound, Held
<1> QED
  BY <1>6, <1>7, <1>8, <1>9

\* The outputs of the pass take their places at the start of the array.
LEMMA EndPassSound ==
  ASSUME Children, Lifetimes, Sound, EndPass
  PROVE  Sound'
<1> DEFINE r == done \o files
<1>1. /\ pc = "endpass" /\ pc' = "pass" /\ outcome = "running" /\ UNCHANGED outcome
      /\ UNCHANGED <<opt, data, job, streams, child>>
      /\ files' = r /\ ntemps' = ntemps + Len(done) /\ done' = << >>
  BY DEF EndPass, At, Go, merging, list, procs, disk, end
<1>2. AtWork /\ Known /\ Reading /\ Told /\ Stored
  BY <1>1 DEF Sound, Held, AtWork
<1>3. Array
  BY <1>1, <1>2, HaveParts DEF Parts
<1>4. /\ files \in Seq(Int) /\ done \in Seq(Int) /\ Len(done) \in Nat /\ Len(files) \in Nat
      /\ DOMAIN done = 1..Len(done) /\ DOMAIN files = 1..Len(files)
      /\ ntemps \in Nat /\ ntemps <= Len(files)
  BY <1>3 DEF Array
<1>5. /\ r \in Seq(Int) /\ Len(r) = Len(done) + Len(files)
      /\ \A i \in DOMAIN done : r[i] = done[i]
      /\ \A i \in DOMAIN r : i > Len(done) => i - Len(done) \in DOMAIN files
                                              /\ r[i] = files[i - Len(done)]
      /\ \A i \in DOMAIN r : ~(i > Len(done)) => i \in DOMAIN done
  BY <1>4, Joined
<1> HIDE DEF r
<1>6. DOMAIN r = 1..(Len(done) + Len(files))
  BY <1>5
<1>7. \A i \in DOMAIN r : r[i] \in ToSet(files) \cup ToSet(done)
  BY <1>5, Elements
<1>8. ToSet(r) \subseteq DOMAIN data
  BY <1>2, <1>7, Elements DEF Known
<1>9. ASSUME NEW i \in 1..(ntemps + Len(done)) PROVE r[i] # OutFile
  <2>1. i \in DOMAIN r
    BY <1>4, <1>6
  <2>2. CASE i > Len(done)
    <3>1. i - Len(done) \in 1..ntemps
      BY <1>4, <2>2
    <3> QED
      BY <1>2, <1>5, <2>1, <2>2, <3>1 DEF Known
  <2>3. CASE ~(i > Len(done))
    BY <1>2, <1>5, <2>1, <2>3, Elements DEF Known
  <2> QED
    BY <2>2, <2>3
<1>10. Known'
  BY <1>1, <1>8, <1>9, SetOfEmpty DEF Known
<1>11. << >> \o r = r
  BY <1>5, ConcatEmptySeq
<1>12. Text(data', done' \o files') = Expected' /\ Expected' = Expected
  <2>1. Text(data, r) = Expected
    BY <1>1, <1>2 DEF Told, Between, r
  <2> QED
    BY <1>1, <1>11, <2>1 DEF Expected
<1>13. Told' /\ Goals' /\ Filled' /\ Finished'
  BY <1>1, <1>12 DEF Told, Goals, Filled, Finished, Combining, Filling, Merges, Making
<1>14. Stored' /\ Reading'
  BY <1>1, <1>2 DEF Stored, Reading
<1> QED
  BY <1>10, <1>13, <1>14 DEF Sound, Held

-----------------------------------------------------------------------------
(* The inputs of a merge.                                                  *)

\* The inputs that a merge is to open.
LEMMA BatchLength ==
  ASSUME Array, Jobs, Goals, Combining
  PROVE  Len(Batch) = job.n
<1>1. CASE job.goal = "copy"
  <2>1. Batch = <<OutFile>> /\ job.n = 1
    BY <1>1 DEF Batch, Goals
  <2> QED
    BY <2>1
<1>2. CASE job.goal # "copy"
  <2>1. Batch = SubSeq(files, 1, job.n) /\ files \in Seq(Int) /\ Len(files) \in Nat
        /\ job.n \in Int /\ 0 <= job.n /\ job.n <= Len(files)
    BY <1>2 DEF Batch, Jobs, Array
  <2>2. Len(SubSeq(files, 1, job.n)) = job.n
    BY <2>1
  <2> QED
    BY <2>1, <2>2
<1> QED
  BY <1>1, <1>2

\* open_input_files: one more input, with a file that is complete.
LEMMA OneMoreSound ==
  ASSUME Parts, Sound, AtWork, Combining, job.goal # "squeeze",
         pc \notin {"squeeze"} \cup Closing, Len(streams) < Len(Batch),
         pc' = "open", UNCHANGED <<outcome, opt, data, files, done, ntemps, job>>,
         DOMAIN child \subseteq DOMAIN child',
         \A i \in DOMAIN streams :
           Written(child, streams[i].file) => Written(child', streams[i].file),
         NEW e, e.pid \in {0} \cup DOMAIN child', Written(child', NextInput),
         ~e.eof, e.file = NextInput, streams' = Append(streams, e)
  PROVE  Sound'
<1>1. Array /\ Inputs /\ Jobs /\ Known /\ Reading /\ Told /\ Goals /\ Stored
  BY DEF Parts, Sound, Held
<1>2. /\ DOMAIN streams' = DOMAIN streams \cup {Len(streams) + 1}
      /\ DOMAIN streams = 1..Len(streams) /\ Len(streams) \in Nat
      /\ IsList(streams')
      /\ \A i \in DOMAIN streams : streams'[i] = streams[i]
      /\ streams'[Len(streams) + 1] = e
  BY <1>1, Longer DEF Inputs
<1>3. Known' /\ Stored' /\ Expected' = Expected
  BY <1>1 DEF Known, Stored, Expected
<1>4. Reading'
  BY <1>1, <1>2 DEF Reading
<1>5. Told' /\ Finished' /\ Filled'
  BY <1>1, <1>3 DEF Told, Finished, Filled, Filling, Between, Combining, Merges, Making
<1>6. Goals'
  <2>1. CASE job.goal = "copy"
    <3>1. Len(streams) = 0 /\ NextInput = OutFile
      <4>1. Batch = <<OutFile>> /\ Len(<<OutFile>>) = 1 /\ <<OutFile>>[1] = OutFile
        BY <2>1 DEF Batch
      <4>2. Len(streams) = 0
        BY <1>2, <4>1
      <4>3. NextInput = <<OutFile>>[1]
        BY <4>1, <4>2 DEF NextInput
      <4> QED
        BY <4>1, <4>2, <4>3
    <3>2. Len(streams') = 1
      <4>1. DOMAIN streams = 1..0
        BY <1>2, <3>1
      <4>2. 1..0 = {} /\ Len(streams) + 1 = 1
        BY <3>1
      <4>3. DOMAIN streams' = {1}
        BY <1>2, <4>1, <4>2
      <4>4. DOMAIN streams' = 1..Len(streams') /\ Len(streams') \in Nat
        BY <1>2 DEF IsList
      <4>5. Len(streams') >= 1
        BY <4>3, <4>4
      <4>6. Len(streams') \in 1..Len(streams')
        BY <4>4, <4>5
      <4> QED
        BY <4>3, <4>4, <4>6
    <3>3. \A i \in DOMAIN streams' : streams'[i].file = OutFile
      BY <1>1, <1>2, <2>1, <3>1 DEF Goals
    <3> QED
      BY <1>1, <2>1, <3>2, <3>3 DEF Goals, Closing
  <2>2. CASE job.goal # "copy"
    BY <1>1, <2>2 DEF Goals, Closing
  <2> QED
    BY <2>1, <2>2
<1> QED
  BY <1>3, <1>4, <1>5, <1>6 DEF Sound, Held

\* A file that is not compressed
LEMMA OpenFileSound ==
  ASSUME Children, Reported, Lifetimes, Sound, OpenFile
  PROVE  Sound'
<1>1. /\ pc = "open" /\ Len(streams) < Len(Batch) /\ Plain(NextInput)
      /\ outcome = "running" /\ UNCHANGED outcome
      /\ UNCHANGED <<opt, data, files, done, ntemps, left, job, target, child, forRead>>
  BY DEF OpenFile, At, array, list, procs, disk, end
<1>2. AtWork /\ Parts /\ Combining /\ job.goal # "squeeze" /\ job.goal # "buffer"
  BY <1>1, HaveParts DEF AtWork, Combining, Merges, Sound, Held, Goals
<1>3. CASE HasFds(1) /\ NextInput \in linked
  <2> DEFINE e == [file |-> NextInput, pid |-> 0, eof |-> FALSE, got |-> << >>]
  <2>1. streams' = Append(streams, e) /\ pc' = "open"
    BY <1>1, <1>3 DEF OpenFile
  <2>2. ~e.eof /\ e.file = NextInput /\ e.pid = 0
    OBVIOUS
  <2>3. Written(child, NextInput)
    BY <1>1, IdleWritten DEF Plain, Busy
  <2> HIDE DEF e
  <2> QED
    BY <1>1, <1>2, <2>1, <2>2, <2>3, OneMoreSound DEF Closing
<1>4. CASE ~(HasFds(1) /\ NextInput \in linked)
  <2>1. pc' = "openfailed" /\ UNCHANGED streams
    BY <1>4 DEF OpenFile, Go
  <2>2. Ongoing
    BY <1>1, <1>2, <2>1 DEF Ongoing, Combining, Filling, Making, Merges, Between, Closing,
       Enlisted, AtWork
  <2> QED
    BY <1>1, <2>2, KidsUnchanged, SameKidsKeep, OngoingStep
<1> QED
  BY <1>3, <1>4

\* The file that a child is started to write is not an input.
LEMMA ForkedSound ==
  ASSUME Inv, Children, Reported, Lifetimes, Sound, Forked
  PROVE  Sound'
<1>1. /\ pc = "forked" /\ ~forRead' /\ outcome = "running" /\ UNCHANGED outcome
      /\ temphead' = hidden
      /\ UNCHANGED <<opt, data, files, done, ntemps, left, job, target, why>>
  BY DEF Forked, LeaveFork, At, array, disk, end
<1>2. AtWork /\ Parts /\ Held
  BY <1>1, HaveParts DEF AtWork, Sound
<1>3. Idle(Subject)
  BY <1>1 DEF Children, Places, Forking
<1>4. KidsLast /\ Len(child) + 1 \in DOMAIN child'
  <2>1. /\ DOMAIN child' = DOMAIN child \cup {Len(child) + 1}
        /\ \A f : (f # target \/ forRead) /\ Written(child, f) => Written(child', f)
    BY ForkedKids
  <2>2. ASSUME NEW i \in DOMAIN streams, ~forRead, ~(job.goal = "buffer")
        PROVE  streams[i].file # target
    <3>1. target \in Temps
      BY <1>3, <2>2 DEF Subject, Idle
    <3>2. Combining
      BY <1>1, <2>2 DEF Combining, Making
    <3>3. CASE job.goal = "copy"
      BY <1>2, <3>1, <3>2, <3>3, NotOutFile DEF Held, Goals
    <3>4. CASE job.goal # "copy"
      <4>1. i \in Nat /\ 1 <= i /\ i <= job.n /\ streams[i].file = files[i]
        BY <1>2, <3>4 DEF Parts, Inputs, IsList
      <4>2. i \in DOMAIN files
        BY <1>2, <3>2, <3>4, <4>1 DEF Parts, Jobs, Array
      <4> QED
        BY <1>2, <3>1, <4>1, <4>2, Elements DEF Parts, Output
    <3> QED
      BY <3>3, <3>4
  <2>3. job.goal = "buffer" => streams = << >>
    BY <1>1, <1>2 DEF Parts, Buffered, Filling, Making
  <2> QED
    BY <2>1, <2>2, <2>3 DEF KidsLast
<1>5. CASE forRead
  <2> DEFINE e == [file |-> Subject, pid |-> Len(child) + 1, eof |-> FALSE, got |-> << >>]
  <2>1. /\ Len(streams) < Len(Batch) /\ job.goal # "buffer" /\ Combining /\ job.goal # "squeeze"
    BY <1>1, <1>2, <1>5 DEF Parts, Jobs, Combining, Making, Held, Goals
  <2>2. streams' = Append(streams, e) /\ pc' = "open"
    BY <1>5 DEF Forked, Go
  <2>3. ~e.eof /\ e.file = NextInput /\ e.pid = Len(child) + 1
    BY <1>5 DEF Subject
  <2>4. Written(child', NextInput)
    <3>1. Written(child, NextInput)
      BY <1>3, <1>5, IdleWritten DEF Subject, Idle
    <3> QED
      BY <1>5, <3>1, ForkedKids
  <2> HIDE DEF e
  <2>5. pc \notin {"squeeze"} \cup Closing
    BY <1>1 DEF Closing
  <2>6. e.pid \in {0} \cup DOMAIN child'
    BY <1>4, <2>3
  <2> QED
    BY <1>1, <1>2, <1>4, <2>1, <2>2, <2>3, <2>4, <2>5, <2>6, OneMoreSound DEF KidsLast
<1>6. CASE ~forRead
  <2>1. streams' = streams /\ pc' = Created
    BY <1>6 DEF Forked, Go
  <2>2. Ongoing
    BY <1>1, <1>2, <1>6, <2>1
    DEF Created, Ongoing, Combining, Filling, Making, Merges, Between, Closing, Enlisted,
        FullList, AtWork
  <2> QED
    BY <1>4, <2>2, OngoingStep
<1> QED
  BY <1>5, <1>6

\* The output is truncated only when it is none of the inputs.
LEMMA OpenedSound ==
  ASSUME Children, Lifetimes, Sound, Opened
  PROVE  Sound'
<1>1. /\ pc = "open" /\ pc' = "merge" /\ outcome = "running" /\ UNCHANGED outcome
      /\ Len(streams) = Len(Batch)
      /\ UNCHANGED <<opt, files, done, ntemps, left, job, streams, child, forRead>>
      /\ IF job.goal = "final"
         THEN target' = OutFile /\ data' = [data EXCEPT ![OutFile] = << >>]
         ELSE UNCHANGED <<target, data>>
  BY DEF Opened, At, Go, array, procs, end
<1>2. /\ AtWork /\ Parts /\ Combining /\ Known /\ Reading /\ Told /\ Goals /\ Stored
  BY <1>1, HaveParts DEF AtWork, Combining, Merges, Sound, Held
<1>3. Len(streams) = job.n
  BY <1>1, <1>2, BatchLength DEF Parts
<1>4. Stored' /\ DOMAIN data' = DOMAIN data
  <2>1. OutFile \in DOMAIN data /\ << >> \in Seq(Int)
    BY <1>2, EmptySeq DEF Stored
  <2>2. CASE job.goal = "final"
    BY <1>1, <1>2, <2>1, <2>2, StoredKept
  <2>3. CASE job.goal # "final"
    BY <1>1, <1>2, <2>3 DEF Stored
  <2> QED
    BY <2>2, <2>3
<1>5. Known' /\ Filled' /\ Finished'
  BY <1>1, <1>2, <1>4 DEF Known, Filled, Filling, Making, Finished
<1>6. \A i \in DOMAIN streams : ~streams[i].eof
  BY <1>1, <1>2 DEF Parts, Inputs, Closing
<1>7. Reading'
  BY <1>1, <1>2, <1>6 DEF Reading
<1>8. Goals'
  BY <1>1, <1>2, <1>3 DEF Goals
<1>9. Text(data', done \o files) = Text(data, done \o files)
  <2>1. CASE job.goal = "final"
    <3>1. done = << >> /\ OutFile \notin ToSet(files)
      BY <1>2, <2>1 DEF Told
    <3>2. Readable(data, files) /\ ToSet(files) \subseteq DOMAIN data
      BY <1>2, CanRead DEF Parts, Known
    <3>3. Text([data EXCEPT ![OutFile] = << >>], files) = Text(data, files)
      BY <3>1, <3>2, TextBeside
    <3>4. << >> \o files = files
      BY <1>2, ConcatEmptySeq DEF Parts, Array
    <3> QED
      BY <1>1, <2>1, <3>1, <3>3, <3>4
  <2>2. CASE job.goal # "final"
    BY <1>1, <2>2
  <2> QED
    BY <2>1, <2>2
<1>10. Told'
  BY <1>1, <1>2, <1>9 DEF Told, Expected
<1> QED
  BY <1>4, <1>5, <1>7, <1>8, <1>10 DEF Sound, Held

\* What is not open is left for a later merge.
LEMMA OpenFailedSound ==
  ASSUME Children, Lifetimes, Sound, OpenFailed
  PROVE  Sound'
<1>1. /\ pc = "openfailed" /\ outcome = "running" /\ UNCHANGED outcome
      /\ job' = [job EXCEPT !.n = Len(streams)]
      /\ UNCHANGED <<opt, data, files, done, ntemps, left, target, streams, child, forRead>>
      /\ \/ pc' = "exit" /\ why' # "done"
         \/ pc' = "merge" /\ job.goal # "final" /\ Len(streams) >= 2
         \/ pc' = "squeeze" /\ job.goal = "final"
  <2>1. Len(streams) >= 2 \/ Len(streams) < 2 \/ ~(Len(streams) < 2)
    OBVIOUS
  <2>2. Len(streams) \in Nat
    BY HaveParts DEF OpenFailed, At, AtWork, Parts, Inputs, IsList
  <2>3. ~(Len(streams) < 2) => Len(streams) >= 2
    BY <2>2
  <2> QED
    BY <2>3 DEF OpenFailed, At, Go, Die, array, procs, disk
<1>2. /\ AtWork /\ Parts /\ Combining /\ Known /\ Reading /\ Told /\ Goals /\ Stored
  BY <1>1, HaveParts DEF AtWork, Combining, Merges, Sound, Held
<1>3. job'.goal = job.goal /\ job'.n = Len(streams) /\ Len(streams) \in Nat
  BY <1>1, <1>2 DEF Parts, Jobs, Inputs, IsList
<1>4. Stored' /\ Finished' /\ Known' /\ Reading' /\ Expected' = Expected
  BY <1>1, <1>2 DEF Stored, Finished, Known, Reading, Expected
<1>5. ASSUME AtWork' PROVE Told' /\ Goals' /\ Filled'
  <2>1. pc' \in {"merge", "squeeze"}
    BY <1>1, <1>5 DEF AtWork
  <2>2. Filled'
    BY <2>1 DEF Filled, Filling, Making
  <2>3. Told'
    BY <1>1, <1>2, <1>3, <1>4, <2>1 DEF Told, Between, Merges, Combining
  <2>4. job.goal # "copy" /\ job.goal # "squeeze"
    BY <1>1, <1>2, <1>3, <2>1 DEF Goals
  <2>5. job.goal = "final" => pc' = "squeeze"
    BY <1>1, <2>1
  <2>6. Goals'
    BY <1>1, <1>2, <1>3, <2>1, <2>4, <2>5 DEF Goals, Closing
  <2> QED
    BY <2>2, <2>3, <2>6
<1> QED
  BY <1>4, <1>5 DEF Sound, Held

\* A whole file comes through a stream.
LEMMA EndOfInputSound ==
  ASSUME Children, Lifetimes, Sound, Untroubled, NEW k \in DOMAIN streams, EndOfInput(k)
  PROVE  Sound'
<1>1. /\ pc = "merge" /\ pc' \in {"merge", "zap"} /\ outcome = "running" /\ UNCHANGED outcome
      /\ UNCHANGED <<opt, data, files, done, ntemps, left, job, target, child, forRead>>
  BY DEF EndOfInput, At, Go, array, procs, disk, end
<1>2. PICK got \in Received(streams[k]) :
        streams' = [streams EXCEPT ![k].eof = TRUE, ![k].got = got]
  BY DEF EndOfInput
<1>3. /\ AtWork /\ Parts /\ Combining /\ Known /\ Reading /\ Told /\ Goals /\ Stored
  BY <1>1, HaveParts DEF AtWork, Combining, Merges, Sound, Held
<1>4. got = data[streams[k].file]
  <2>1. streams[k].pid \in {0} \cup DOMAIN child /\ Written(child, streams[k].file)
    BY <1>3 DEF Reading
  <2>2. Received(streams[k]) = {Contents(streams[k].file)}
    BY <2>1 DEF Received, Untroubled
  <2>3. Contents(streams[k].file) = data[streams[k].file]
    BY <2>1 DEF Contents, Written
  <2> QED
    BY <2>2, <2>3
<1> DEFINE e == [file |-> streams[k].file, pid |-> streams[k].pid, eof |-> TRUE, got |-> got]
<1>5. /\ Len(streams) \in Nat /\ streams = [i \in 1..Len(streams) |-> streams[i]]
      /\ IsStream(streams[k])
  BY <1>3 DEF Parts, Inputs, IsList
<1>6. streams' = [i \in 1..Len(streams) |-> IF i = k THEN e ELSE streams[i]]
  <2>4. [[streams[k] EXCEPT !.eof = TRUE] EXCEPT !.got = got] = e
    BY <1>5, StreamChanged
  <2>5. DOMAIN streams = 1..Len(streams)
    BY <1>5
  <2>6. streams' = [[streams EXCEPT ![k].eof = TRUE] EXCEPT ![k].got = got]
    BY <1>2
  <2>7. streams' = [i \in DOMAIN streams |->
                      IF i = k THEN [[streams[k] EXCEPT !.eof = TRUE] EXCEPT !.got = got]
                      ELSE streams[i]]
    BY <2>6
  <2> HIDE DEF e
  <2> QED
    BY <2>4, <2>5, <2>7
<1>7. e.file = streams[k].file /\ e.pid = streams[k].pid /\ e.got = got
  OBVIOUS
<1> HIDE DEF e
<1>8. DOMAIN streams' = DOMAIN streams /\ Len(streams') = Len(streams)
  BY <1>5, <1>6
<1>9. /\ \A i \in DOMAIN streams : i # k => streams'[i] = streams[i]
      /\ streams'[k] = e
  BY <1>5, <1>6
<1>10. Reading'
  BY <1>1, <1>3, <1>4, <1>7, <1>8, <1>9 DEF Reading
<1>11. Goals'
  <2>1. \A i \in DOMAIN streams : streams'[i].file = streams[i].file
    BY <1>7, <1>9
  <2> QED
    BY <1>1, <1>3, <1>8, <2>1 DEF Goals, Combining, Merges, Closing
<1>12. Stored' /\ Known' /\ Told' /\ Finished' /\ Filled'
  BY <1>1, <1>3
  DEF Stored, Known, Told, Finished, Filled, Filling, Making, Combining, Merges, Between, Expected
<1> QED
  BY <1>10, <1>11, <1>12 DEF Sound, Held

\* The last input is closed; its file stays in the array.
LEMMA SqueezeSound ==
  ASSUME Children, Lifetimes, Sound, Squeeze
  PROVE  Sound'
<1> DEFINE n == job.n - 1
<1>1. /\ pc = "squeeze" /\ pc' = "create" /\ outcome = "running" /\ UNCHANGED outcome
      /\ job' = [goal |-> "squeeze", n |-> n, ntemps |-> Min({ntemps, n})]
      /\ streams' = Front(streams)
      /\ UNCHANGED <<opt, data, files, done, ntemps, left, target, child, forRead>>
  BY DEF Squeeze, Start, At, Go, array, procs, disk, end
<1>2. /\ AtWork /\ Parts /\ Combining /\ Known /\ Reading /\ Told /\ Goals /\ Stored /\ ~forRead
  BY <1>1, HaveParts DEF AtWork, Combining, Merges, Sound, Held, PipeFork, Forking
<1>3. Len(streams) = job.n /\ job.n >= 3 /\ job.n \in Int /\ job.goal \in {"final", "squeeze"}
  BY <1>1, <1>2 DEF Goals, Parts, Jobs
<1>4. /\ IsList(streams') /\ DOMAIN streams' = 1..n
      /\ \A i \in DOMAIN streams' : i \in DOMAIN streams /\ streams'[i] = streams[i]
  BY <1>1, <1>2, <1>3, Shorter DEF Parts, Inputs
<1>5. Len(streams') = n
  <2>1. n \in Nat
    BY <1>3
  <2>2. 1..Len(streams') = 1..n /\ Len(streams') \in Nat
    BY <1>4 DEF IsList
  <2> HIDE DEF n
  <2> QED
    BY <2>1, <2>2
<1>6. job'.goal = "squeeze" /\ job'.n = n
  BY <1>1
<1>7. done = << >> /\ OutFile \notin ToSet(files) /\ Text(data, done \o files) = Expected
  BY <1>1, <1>2, <1>3 DEF Told
<1>8. Told'
  BY <1>1, <1>6, <1>7 DEF Told, Expected
<1>9. Goals'
  BY <1>1, <1>2, <1>5, <1>6 DEF Goals, Closing
<1>10. Reading'
  BY <1>1, <1>2, <1>4 DEF Reading
<1>11. Stored' /\ Known' /\ Finished' /\ Filled'
  BY <1>1, <1>2, <1>6 DEF Stored, Known, Finished, Filled, Filling
<1> QED
  BY <1>8, <1>9, <1>10, <1>11 DEF Sound, Held

-----------------------------------------------------------------------------
(* The end of a merge.                                                     *)

\* What mergefps writes.
Merged == FlattenSeq([i \in DOMAIN streams |-> streams[i].got])

\* The lines of the inputs, in their order, are what has come through the streams.
LEMMA WhatIsMerged ==
  ASSUME Array, Inputs, Jobs, Stored, Known, Reading, Goals, Combining, pc \in Closing,
         \A i \in DOMAIN streams : streams[i].eof
  PROVE  /\ Merged \in Seq(Int)
         /\ job.goal = "copy" => Merged = data[OutFile]
         /\ job.goal # "copy" => /\ job.n \in 0..Len(files)
                                 /\ Merged = Text(data, SubSeq(files, 1, job.n))
<1> DEFINE n == job.n
           g == [i \in DOMAIN streams |-> streams[i].got]
<1>1. /\ Len(streams) = n /\ Len(streams) \in Nat /\ DOMAIN streams = 1..n
      /\ \A i \in DOMAIN streams : streams[i].got = data[streams[i].file]
  BY DEF Inputs, IsList, Goals, Reading
<1>2. CASE job.goal = "copy"
  <2>1. n = 1 /\ streams[1].file = OutFile
    BY <1>1, <1>2 DEF Goals
  <2>2. data[OutFile] \in Seq(Int)
    BY DEF Stored
  <2>3. g = <<data[OutFile]>>
    <3>1. DOMAIN streams = 1..1 /\ streams[1].got = data[OutFile]
      BY <1>1, <2>1
    <3> QED
      BY <3>1
  <2>4. FlattenSeq(g) = data[OutFile]
    BY <2>2, <2>3, FlattenOne
  <2> QED
    BY <1>2, <2>2, <2>4 DEF Merged
<1>3. CASE job.goal # "copy"
  <2> DEFINE s == SubSeq(files, 1, n)
  <2>1. n \in Nat /\ n <= Len(files) /\ n \in Int /\ files \in Seq(Int) /\ Len(files) \in Nat
        /\ DOMAIN files = 1..Len(files)
    BY <1>1, <1>3 DEF Jobs, Array
  <2> HIDE DEF n
  <2>2. s \in Seq(Int) /\ Len(s) = n /\ DOMAIN s = 1..n /\ \A i \in 1..n : s[i] = files[i]
    BY <2>1
  <2> HIDE DEF s
  <2>3. \A i \in 1..n : i \in DOMAIN files /\ s[i] \in ToSet(files)
    BY <2>1, <2>2, Elements
  <2>4. Readable(data, s)
    <3>1. ToSet(s) \subseteq ToSet(files)
      BY <2>2, <2>3 DEF ToSet
    <3> QED
      BY <2>2, <3>1 DEF Readable, Known, Stored
  <2>5. \A i \in DOMAIN streams : streams[i].got = data[s[i]]
    BY <1>1, <1>3, <2>2 DEF Inputs
  <2>6. g = Texts(data, s)
    BY <1>1, <2>2, <2>5 DEF Texts
  <2>7. Merged = Text(data, s)
    BY <2>6 DEF Merged, Text
  <2>8. Merged \in Seq(Int)
    BY <2>4, <2>7, TextType
  <2>9. n \in 0..Len(files)
    BY <2>1
  <2> QED
    BY <1>3, <2>7, <2>8, <2>9 DEF s, n
<1> QED
  BY <1>2, <1>3

\* What holds when mergefps writes the last line.
LEMMA AtMergeDone ==
  ASSUME Children, Lifetimes, Sound, MergeDone
  PROVE  /\ pc = "merge" /\ outcome = "running" /\ UNCHANGED outcome
         /\ data' = [data EXCEPT ![target] = Merged] /\ streams' = << >> /\ target' = None
         /\ UNCHANGED <<opt, left, job, child, why>>
         /\ AtWork /\ Combining /\ pc \in Closing /\ Parts /\ Held /\ Stored
         /\ Merged \in Seq(Int) /\ target \in DOMAIN data /\ target \in Int
         /\ job.goal = "copy" => Merged = data[OutFile]
         /\ job.goal # "copy" => /\ job.n \in 0..Len(files)
                                 /\ Merged = Text(data, SubSeq(files, 1, job.n))
         /\ job.goal # "final" => /\ target \in Temps
                                  /\ target \notin ToSet(files) \cup ToSet(done)
<1>1. /\ pc = "merge" /\ outcome = "running" /\ UNCHANGED outcome
      /\ \A i \in DOMAIN streams : streams[i].eof
      /\ data' = [data EXCEPT ![target] = Merged] /\ streams' = << >> /\ target' = None
      /\ UNCHANGED <<opt, left, job, child>>
  BY DEF MergeDone, Write, Merged, At, procs, end
<1>2. UNCHANGED why
  BY DEF MergeDone, end
<1>3. /\ AtWork /\ Combining /\ pc \in Closing /\ Parts /\ Held /\ Stored
  BY <1>1, HaveParts DEF AtWork, Combining, Merges, Closing, Sound
<1>4. /\ Merged \in Seq(Int)
      /\ job.goal = "copy" => Merged = data[OutFile]
      /\ job.goal # "copy" => /\ job.n \in 0..Len(files)
                              /\ Merged = Text(data, SubSeq(files, 1, job.n))
  BY <1>1, <1>3, WhatIsMerged DEF Parts, Held
<1>5. job.goal = "final" => target = OutFile
  BY <1>3 DEF Held, Goals
<1>6. job.goal # "final" => target \in Temps /\ target \notin ToSet(files) \cup ToSet(done)
  BY <1>1, <1>3 DEF Parts, Jobs, Output
<1>7. target \in DOMAIN data /\ target \in Int
  BY <1>3, <1>5, <1>6, NotOutFile DEF Stored
<1> QED
  BY <1>1, <1>2, <1>3, <1>4, <1>6, <1>7

\* What a merge has to leave behind for the invariant to hold.
LEMMA MergeLeaves ==
  ASSUME Children, Lifetimes, Sound, MergeDone, pc' \in Between => Known',
         pc' \in Between => Text(data', done' \o files') = Expected,
         pc' = "final" => done' = << >> /\ OutFile \notin ToSet(files'),
         pc' \in {"exit", "reapall"} => data'[OutFile] = Expected
  PROVE  Sound'
<1>1. pc' \in {"batch", "endpass", "final", "exit", "reapall"}
  BY DEF MergeDone, Go
<1>2. Stored' /\ Expected' = Expected
  BY AtMergeDone, StoredKept DEF Expected
<1>3. Finished'
  BY <1>1, <1>2 DEF Finished
<1> SUFFICES ASSUME AtWork' PROVE Held'
  BY <1>2, <1>3 DEF Sound
<1>4. pc' \in Between /\ ~Combining' /\ ~Filling'
  BY <1>1 DEF AtWork, Between, Combining, Filling, Merges, Making
<1>5. Reading'
  BY AtMergeDone DEF Reading
<1>6. Told'
  BY <1>1, <1>2, <1>4 DEF Told
<1>7. Filled' /\ Goals'
  BY <1>4 DEF Filled, Goals
<1> QED
  BY <1>4, <1>5, <1>6, <1>7 DEF Held


\* mergefiles: the output of a batch joins the outputs of the pass, before the rest.
LEMMA BatchSound ==
  ASSUME Children, Lifetimes, Sound, MergeDone, job.goal \in {"batch", "short"}
  PROVE  Sound'
<1> DEFINE r == SubSeq(files, job.n + 1, Len(files))
           u == <<target>>
<1>1. done' = Append(done, target) /\ files' = r /\ ntemps' = RemainingTemps
      /\ pc' \in {"batch", "endpass"}
  BY DEF MergeDone, Go
<1>2. /\ Array /\ Once /\ Inputs /\ Present /\ Jobs /\ Combining /\ Known /\ Told /\ Stored
      /\ data' = [data EXCEPT ![target] = Text(data, SubSeq(files, 1, job.n))]
      /\ job.n \in 0..Len(files) /\ target \in DOMAIN data /\ target \in Int
      /\ target \in Temps /\ target \notin ToSet(files) \cup ToSet(done)
  BY AtMergeDone DEF Parts, Held
<1>3. Readable(data, files) /\ Readable(data, done)
      /\ ToSet(done) \cup ToSet(files) \subseteq DOMAIN data
  BY <1>2, CanRead DEF Known
<1>4. Text(data', (done \o u) \o r) = Text(data, done \o files)
  <2> DEFINE e == [data EXCEPT ![target] = Text(data, SubSeq(files, 1, job.n))]
  <2>1. target \notin ToSet(done) \cup ToSet(files)
    BY <1>2
  <2>4. job.n \in 0..Len(files) /\ target \in DOMAIN data /\ target \in Int
    BY <1>2
  <2>2. Text(e, (done \o u) \o r) = Text(data, done \o files)
    BY ONLY <1>3, <2>1, <2>4, TextMerged
  <2>3. data' = e
    BY <1>2
  <2> HIDE DEF e, u, r
  <2> QED
    BY <2>2, <2>3
<1>5. done' = done \o u /\ ToSet(done') = ToSet(done) \cup {target}
  <2>1. done \in Seq(Int)
    BY <1>2 DEF Array
  <2>2. Append(done, target) = done \o u
    BY <1>2, <2>1, AppendIsConcat
  <2>3. ToSet(Append(done, target)) = ToSet(done) \cup {target}
    <3> DEFINE d == Append(done, target)
    <3>1. /\ Len(d) = Len(done) + 1 /\ DOMAIN d = 1..Len(d)
          /\ DOMAIN done = 1..Len(done) /\ Len(done) \in Nat
          /\ \A k \in 1..Len(done) : d[k] = done[k]
          /\ d[Len(done) + 1] = target
      BY <1>2, <2>1
    <3> HIDE DEF d
    <3>2. /\ DOMAIN d = DOMAIN done \cup {Len(done) + 1}
          /\ \A k \in DOMAIN done : d[k] = done[k]
      BY <3>1
    <3> QED
      BY <3>1, <3>2 DEF ToSet, d
  <2> QED
    BY <1>1, <2>2, <2>3
<1> HIDE DEF u
<1>6. /\ ToSet(r) \subseteq ToSet(files)
      /\ \A i \in 1..RemainingTemps : \E j \in 1..ntemps : r[i] = files[j]
  BY <1>2, LeftOver
<1>7. Known'
  <2>1. DOMAIN data' = DOMAIN data /\ target # OutFile
    BY <1>2, NotOutFile
  <2>2. \A i \in 1..RemainingTemps : r[i] # OutFile
    BY <1>2, <1>6 DEF Known
  <2> HIDE DEF r
  <2> QED
    BY <1>1, <1>2, <1>5, <1>6, <2>1, <2>2 DEF Known
<1>8. Text(data', done' \o files') = Expected
  BY <1>1, <1>2, <1>4, <1>5 DEF Told
<1> QED
  BY <1>1, <1>7, <1>8, MergeLeaves

\* avoid_trashing_input: the copy has the contents of the output, at all its places.
LEMMA CopySound ==
  ASSUME Children, Lifetimes, Sound, MergeDone, job.goal = "copy"
  PROVE  Sound'
<1> DEFINE r == [i \in DOMAIN files |->
                   IF i > ntemps /\ files[i] = OutFile THEN target ELSE files[i]]
<1>1. files' = r /\ UNCHANGED <<done, ntemps>> /\ pc' = "final"
  BY DEF MergeDone, Go
<1>2. /\ Array /\ Combining /\ Known /\ Told /\ Stored
      /\ data' = [data EXCEPT ![target] = data[OutFile]]
      /\ target \in DOMAIN data /\ target \in Int
      /\ target \in Temps /\ target \notin ToSet(files) \cup ToSet(done)
  BY AtMergeDone DEF Parts, Held
<1>3. done = << >>
  BY <1>2 DEF Told
<1>4. /\ files \in Seq(Int) /\ Len(files) \in Nat /\ DOMAIN files = 1..Len(files)
      /\ ntemps \in Nat /\ ntemps <= Len(files)
  BY <1>2 DEF Array
<1>5. /\ DOMAIN r = DOMAIN files
      /\ \A i \in DOMAIN files : \/ r[i] = target /\ files[i] = OutFile
                                 \/ r[i] = files[i]
      /\ \A i \in 1..ntemps : i \in DOMAIN files /\ r[i] = files[i]
      /\ \A i \in DOMAIN files : r[i] = OutFile => files[i] = OutFile /\ ~(i > ntemps)
  <2>1. \A i \in 1..ntemps : i \in DOMAIN files /\ ~(i > ntemps)
    BY <1>4
  <2>2. target # OutFile
    BY <1>2, NotOutFile
  <2> QED
    BY <2>1, <2>2
<1> HIDE DEF r
<1>6. Readable(data, files) /\ ToSet(files) \subseteq DOMAIN data
  BY <1>2, CanRead DEF Known
<1>7. /\ DOMAIN data' = DOMAIN data /\ data'[target] = data[OutFile]
      /\ \A f \in DOMAIN data : f # target => data'[f] = data[f]
  BY <1>2
<1>8. \A i \in DOMAIN files : data'[r[i]] = data[files[i]]
  <2> SUFFICES ASSUME NEW i \in DOMAIN files PROVE data'[r[i]] = data[files[i]]
    OBVIOUS
  <2>1. files[i] \in DOMAIN data /\ files[i] # target
    BY <1>2, <1>6, Elements
  <2> QED
    BY <1>5, <1>7, <2>1
<1>9. Text(data', r) = Text(data, files)
  BY <1>5, <1>6, <1>8, TextSame
<1>10. r \in Seq(Int)
  <2>1. \A i \in 1..Len(files) : r[i] \in Int
    BY <1>2, <1>4, <1>5
  <2>2. r = [i \in 1..Len(files) |-> r[i]]
    BY <1>4, <1>5 DEF r
  <2>3. r \in [1..Len(files) -> Int]
    BY <2>1, <2>2
  <2> QED
    BY <1>4, <2>3
<1>11. Text(data', done' \o files') = Expected
  <2>1. << >> \o r = r /\ << >> \o files = files
    BY <1>4, <1>10, ConcatEmptySeq
  <2> QED
    BY <1>1, <1>2, <1>3, <1>9, <2>1 DEF Told
<1>12. OutFile \notin ToSet(r)
  <2> SUFFICES ASSUME NEW i \in DOMAIN files, r[i] = OutFile PROVE FALSE
    BY <1>5, Elements
  <2>1. files[i] = OutFile /\ ~(i > ntemps)
    BY <1>5
  <2>2. i \in 1..ntemps
    BY <1>4, <2>1
  <2> QED
    BY <1>2, <2>1, <2>2 DEF Known
<1>13. Known'
  <2>1. \A x \in ToSet(r) : x \in ToSet(files) \cup {target}
    BY <1>5, Elements
  <2>2. \A i \in 1..ntemps : r[i] # OutFile
    BY <1>5, <1>12, Elements
  <2> QED
    BY <1>1, <1>2, <1>3, <1>6, <1>7, <2>1, <2>2, SetOfEmpty DEF Known
<1> QED
  BY <1>1, <1>3, <1>11, <1>12, <1>13, MergeLeaves

\* merge: the output takes the place of its inputs, at the start of the array.
LEMMA SqueezedSound ==
  ASSUME Children, Lifetimes, Sound, MergeDone, job.goal = "squeeze"
  PROVE  Sound'
<1> DEFINE r == SubSeq(files, job.n + 1, Len(files))
           u == <<target>>
           q == u \o r
<1>1. files' = q /\ ntemps' = RemainingTemps + 1 /\ UNCHANGED done /\ pc' = "final"
  BY DEF MergeDone, Go, Replace
<1>2. /\ Array /\ Once /\ Inputs /\ Present /\ Jobs /\ Combining /\ Known /\ Told /\ Stored
      /\ data' = [data EXCEPT ![target] = Text(data, SubSeq(files, 1, job.n))]
      /\ job.n \in 0..Len(files) /\ target \in DOMAIN data /\ target \in Int
      /\ target \in Temps /\ target \notin ToSet(files) \cup ToSet(done)
  BY AtMergeDone DEF Parts, Held
<1>3. Readable(data, files) /\ Readable(data, done)
      /\ ToSet(done) \cup ToSet(files) \subseteq DOMAIN data
  BY <1>2, CanRead DEF Known
<1>4. Text(data', done \o (u \o r)) = Text(data, done \o files)
  <2> DEFINE e == [data EXCEPT ![target] = Text(data, SubSeq(files, 1, job.n))]
  <2>1. target \notin ToSet(done) \cup ToSet(files)
    BY <1>2
  <2>4. job.n \in 0..Len(files) /\ target \in DOMAIN data /\ target \in Int
    BY <1>2
  <2>2. Text(e, done \o (u \o r)) = Text(data, done \o files)
    BY ONLY <1>3, <2>1, <2>4, TextMerged
  <2>3. data' = e
    BY <1>2
  <2> HIDE DEF e, u, r, q
  <2> QED
    BY <2>2, <2>3
<1>5. /\ ToSet(r) \subseteq ToSet(files) /\ r \in Seq(Int) /\ RemainingTemps \in Nat
      /\ RemainingTemps <= Len(r)
      /\ \A i \in 1..RemainingTemps : \E j \in 1..ntemps : r[i] = files[j]
  BY <1>2, LeftOver
<1>6. done = << >> /\ OutFile \notin ToSet(files) /\ target # OutFile
  BY <1>2, NotOutFile DEF Told
<1>7. u \in Seq(Int) /\ ToSet(u) = {target}
  <2>1. u \in Seq(Int) /\ DOMAIN u = 1..1 /\ u[1] = target
    BY <1>2
  <2> HIDE DEF u
  <2> QED
    BY <2>1 DEF ToSet
<1> HIDE DEF u, r
<1>8. /\ ToSet(q) \subseteq ToSet(files) \cup {target}
      /\ q \in Seq(Int) /\ Len(q) = Len(u) + Len(r) /\ Len(q) \in Nat /\ DOMAIN q = 1..Len(q)
  <2>1. /\ Len(u) \in Nat /\ Len(r) \in Nat /\ DOMAIN u = 1..Len(u) /\ DOMAIN r = 1..Len(r)
    BY <1>5, <1>7
  <2>2. /\ q \in Seq(Int) /\ Len(q) = Len(u) + Len(r) /\ Len(q) \in Nat /\ DOMAIN q = 1..Len(q)
        /\ \A i \in DOMAIN u : q[i] = u[i]
        /\ \A i \in DOMAIN q : i > Len(u) => i - Len(u) \in DOMAIN r
                                              /\ q[i] = r[i - Len(u)]
        /\ \A i \in DOMAIN q : ~(i > Len(u)) => i \in DOMAIN u
    BY <1>5, <1>7, Joined
  <2> HIDE DEF q
  <2>3. \A i \in DOMAIN q : q[i] \in ToSet(u) \cup ToSet(r)
    BY <2>2, Elements
  <2>4. ToSet(q) \subseteq ToSet(u) \cup ToSet(r)
    BY <2>3, Elements
  <2> QED
    BY <1>5, <1>7, <2>2, <2>4
<1> HIDE DEF q
<1>9. OutFile \notin ToSet(q)
  BY <1>6, <1>8
<1>10. Known'
  <2>1. DOMAIN data' = DOMAIN data
    BY <1>2
  <2>2. Len(u) = 1
    BY DEF u
  <2>3. \A i \in 1..(RemainingTemps + 1) : i \in 1..Len(q)
    <3>1. RemainingTemps + 1 <= Len(q)
      <4>1. Len(r) \in Nat
        BY <1>5
      <4> QED
        BY <1>5, <1>8, <2>2, <4>1
    <3> QED
      BY <1>5, <1>8, <3>1
  <2>4. \A i \in 1..(RemainingTemps + 1) : q[i] # OutFile
    BY <1>8, <1>9, <2>3, Elements
  <2> QED
    BY <1>1, <1>2, <1>6, <1>8, <2>1, <2>4 DEF Known
<1>11. Text(data', done' \o files') = Expected
  BY <1>1, <1>2, <1>4 DEF Told, q
<1> QED
  BY <1>1, <1>6, <1>9, <1>10, <1>11, MergeLeaves

\* The last merge writes the text of the whole array to the output.
LEMMA FinalSound ==
  ASSUME Children, Lifetimes, Sound, MergeDone, job.goal = "final"
  PROVE  Sound'
<1>1. pc' \in {"exit", "reapall"}
  BY DEF MergeDone, Go
<1>2. /\ Array /\ Told /\ Goals /\ Combining /\ pc = "merge" /\ OutFile \in DOMAIN data
      /\ data' = [data EXCEPT ![target] = Text(data, SubSeq(files, 1, job.n))]
  BY AtMergeDone DEF Parts, Held, Stored
<1>3. target = OutFile /\ job.n = Len(files) /\ done = << >>
  BY <1>2 DEF Goals, Told, Closing
<1>4. SubSeq(files, 1, Len(files)) = files /\ << >> \o files = files
  BY <1>2, SubSeqFull, ConcatEmptySeq DEF Array
<1>5. data'[OutFile] = Expected
  BY <1>2, <1>3, <1>4 DEF Told
<1> QED
  BY <1>1, <1>5, MergeLeaves DEF Between

\* mergefps and what its callers do then
LEMMA MergeDoneSound ==
  ASSUME Children, Lifetimes, Sound, MergeDone
  PROVE  Sound'
<1>1. job.goal \in {"batch", "short", "copy", "squeeze", "final"}
  BY AtMergeDone DEF Held, Goals
<1> QED
  BY <1>1, BatchSound, CopySound, SqueezedSound, FinalSound

-----------------------------------------------------------------------------
(* The beginning, every step, and the theorems.                            *)

\* The operands, each with its own contents.
LEMMA InitComplete == Init => Complete
<1> SUFFICES ASSUME Init PROVE Sound
  BY DEF Complete
<1> DEFINE o == opt.operands
<1>1. /\ opt \in Scenarios /\ pc = (IF opt.buffers = 0 THEN "pass" ELSE "read")
      /\ left = opt.buffers /\ files = o /\ ntemps = 0 /\ done = << >>
      /\ streams = << >> /\ temphead = << >>
      /\ data = [f \in Temps \cup {OutFile} \cup ToSet(o) |->
                   IF f \in ToSet(o) THEN <<f>> ELSE << >>]
  BY DEF Init
<1>2. /\ o \in Seq(Int) /\ opt.buffers \in Nat
      /\ (opt.buffers > 0) # (o # << >>)
  BY <1>1, ScenariosAssumption DEF Scenario
<1> HIDE DEF o
<1>3. /\ ToSet(o) \subseteq Int /\ Len(o) \in Nat /\ DOMAIN o = 1..Len(o)
      /\ \A i \in 1..Len(o) : o[i] \in ToSet(o)
  BY <1>2 DEF ToSet
<1>4. /\ DOMAIN data = Temps \cup {OutFile} \cup ToSet(o)
      /\ \A f \in ToSet(o) : data[f] = <<f>> /\ data[f] \in Seq(Int)
      /\ \A f \in DOMAIN data : data[f] \in Seq(Int)
  <2>1. DOMAIN data = Temps \cup {OutFile} \cup ToSet(o)
    BY <1>1
  <2>2. \A f \in DOMAIN data : data[f] = IF f \in ToSet(o) THEN <<f>> ELSE << >>
    BY <1>1, <2>1
  <2>3. ASSUME NEW f \in ToSet(o) PROVE data[f] = <<f>> /\ <<f>> \in Seq(Int)
    <3>1. data[f] = <<f>>
      BY <2>1, <2>2
    <3>2. f \in Int
      BY <1>3
    <3>3. <<f>> \in Seq(Int)
      BY <3>2
    <3> QED
      BY <3>1, <3>3
  <2>4. << >> \in Seq(Int)
    BY EmptySeq
  <2> QED
    BY <2>1, <2>2, <2>3, <2>4
<1>5. Stored
  BY <1>4 DEF Stored
<1>6. Known
  BY <1>1, <1>4, SetOfEmpty DEF Known
<1>7. Reading /\ Goals /\ Finished
  BY <1>1 DEF Reading, Goals, Combining, Merges, Making, Finished
<1>8. Filled
  <2> SUFFICES ASSUME Filling PROVE Filled
    BY DEF Filled
  <2>1. FullList = << >> /\ pc = "read" /\ opt.buffers > 0
    BY <1>1, <1>2 DEF Filling, FullList, Making
  <2>2. left \in 0..opt.buffers /\ Len(<< >>) = 0 /\ opt.buffers - left = 0 /\ 0 + 0 = 0
    BY <1>1, <1>2
  <2>3. 1..0 = {} /\ pc \notin Enlisted /\ pc \notin Making \cup {"write"}
    BY <2>1 DEF Enlisted, Making
  <2> QED
    BY <2>1, <2>2, <2>3 DEF Filled
<1>9. Told
  <2>1. CASE opt.buffers = 0
    <3>1. Readable(data, o)
      BY <1>2, <1>4 DEF Readable
    <3>2. \A i \in 1..Len(o) : data[o[i]] = <<o[i]>>
      BY <1>3, <1>4
    <3>3. Text(data, o) = o
      BY <1>2, <3>1, <3>2, TextUnits
    <3>4. << >> \o o = o
      BY <1>2, ConcatEmptySeq
    <3> QED
      BY <1>1, <2>1, <3>3, <3>4 DEF Told, Expected, Combining, Merges, Making, o
  <2>2. CASE opt.buffers # 0
    BY <1>1, <2>2 DEF Told, Combining, Merges, Making, Between
  <2> QED
    BY <2>1, <2>2
<1> QED
  BY <1>5, <1>6, <1>7, <1>8, <1>9 DEF Sound, Held

\* Every step keeps the text complete as long as no child has failed.
LEMMA NextComplete ==
  ASSUME Inv, Children, Reported, Lifetimes, Complete, [Next]_vars
  PROVE  Complete'
<1> SUFFICES ASSUME Untroubled' PROVE Sound'
  BY DEF Complete
<1>1. Untroubled /\ Sound
  BY TroubleLasts DEF Complete
<1>2. CASE SortStep
  <2>1. CASE WriteOnly \/ ReadBuffer \/ WriteBuffer \/ MergeTemps \/ ReapAll \/ CreateTempFile
             \/ LinkTemp
    BY <1>1, <2>1, WriteOnlySound, ReadBufferSound, WriteBufferSound, MergeTempsSound,
       ReapingSound, CreateSound, LinkSound
  <2>2. CASE Pipe \/ ReapSome \/ EnterFork \/ Forked \/ ForkAgain \/ ForkError \/ NoFork
    BY <1>1, <2>2, PipeForkSound, ReapingSound, ForkedSound
  <2>3. CASE OpenFile \/ WaitToOpen \/ OpenTemp \/ Opened \/ OpenFailed
    BY <1>1, <2>3, OpenFileSound, ReapingSound, LeavingSound, OpenedSound, OpenFailedSound
  <2>4. CASE (\E i \in DOMAIN streams : EndOfInput(i)) \/ WaitToZap \/ Unlink \/ Unlist
             \/ MergeDone
    BY <1>1, <2>4, EndOfInputSound, ReapingSound, LeavingSound, MergeDoneSound
  <2>5. CASE Pass \/ MergeBatch \/ EndPass \/ AvoidTrashingInput \/ FinalMerge \/ Squeeze
    BY <1>1, <2>5, BetweenSound, EndPassSound, SqueezeSound
  <2>6. CASE Exit \/ SigPipe
    BY <1>1, <2>6, LeavingSound
  <2> QED
    BY <1>2, <2>1, <2>2, <2>3, <2>4, <2>5, <2>6 DEF SortStep
<1>3. ASSUME NEW c \in DOMAIN child, ChildStep(c) \/ ProgramFails(c) \/ SignalForked(c)
      PROVE  Sound'
  BY <1>1, <1>3, ChildSound
<1> QED
  BY <1>1, <1>2, <1>3, LeavingSound DEF Next

\* sort that exits with success has written every buffer, or every operand, once and in
\* order: each temporary file holds the merge of the files that it replaced, at their place
\* in the array, through all passes and however often a merge ran out of descriptors, and
\* the output is read, through a copy, before it is truncated (sort, merge, mergefps,
\* avoid_trashing_input).  It takes that no child has failed: sort -m can exit with success
\* when its last decompressor has failed and lost lines.
THEOREM OutputIsComplete ==
  Spec => []((\A c \in DOMAIN child : child[c].state # "failed") => OutputComplete)
<1>1. ASSUME Reported, Complete
      PROVE  (\A c \in DOMAIN child : child[c].state # "failed") => OutputComplete
  BY <1>1 DEF Reported, Complete, Untroubled, Sound, Finished, OutputComplete
<1> QED
  BY InitInv, NextInv, InitChildren, NextChildren, InitReported, NextReported, InitLifetimes,
     NextLifetimes, InitComplete, NextComplete, <1>1, PTL
  DEF Spec


\* sort that reads its input, with success, has written all its lines in order, whatever
\* failed on the way: a child that failed would have been reaped first (reap_all).
THEOREM SortingWritesAll == Spec => [](opt.buffers > 0 => OutputComplete)
<1>1. ASSUME opt.buffers > 0 => FailureReported,
             (\A c \in DOMAIN child : child[c].state # "failed") => OutputComplete
      PROVE  opt.buffers > 0 => OutputComplete
  BY <1>1 DEF FailureReported, OutputComplete
<1> QED
  BY SortingReportsFailure, OutputIsComplete, <1>1, PTL
=============================================================================
