---------------------------- MODULE CopyMoveProofs ----------------------------
(***************************************************************************)
(* Theorems about CopyMove. For any number of processes, files, operands   *)
(* and faults: with -n no file that is complete under a name that somebody *)
(* copies or moves to is ever replaced, removed or changed. For one        *)
(* process with one file, any disk, options and faults: nothing is lost,   *)
(* neither what is copied or moved nor what the destination held; a name   *)
(* that is replaced by a rename is never missing; and success is told only *)
(* when the file has arrived.                                              *)
(***************************************************************************)
EXTENDS CopyMove, FiniteSetTheorems, WellFoundedInduction, TLAPS

-----------------------------------------------------------------------------
(* The inductive invariant.                                                *)

\* The labels from the last look at the destination to the new file.
Toward == {"lookup", "link", "rename", "clear", "open", "create"}

\* Nothing is moved aside, removed or linked over.
Where(p) ==
  pc[p] \in {"next", "try", "source", "dest", "renamed", "write", "record", "remove",
             "undo", "exit", "killed"} \cup Toward

\* Names of which the process is speaking.
Operand(p) ==
  /\ loc[p].k \in 0 .. Len(Operands(p))
  /\ pc[p] \notin {"next", "exit", "killed"} => loc[p].k \in Numbered(p)

\* A process on its way to a new file has seen that there was none, and still sees
\* it when there is no other.
Unseen(p) ==
  /\ loc[p].aside = NoName
  /\ pc[p] \in Toward => /\ loc[p].new
                         /\ loc[p].err # "EEXIST"
                         /\ Alone => ~ Exists(Dst(p))
  /\ pc[p] = "link" => loc[p].then \in {"record", "done"}

\* Where there are others, it does not link to what it copied before, and mv does not
\* leave the device: the new file comes with the step that checks that there is none.
InOneStep(p) ==
  ~ Alone =>
    /\ loc[p].earlier = NoName
    /\ loc[p].err # "EXDEV"
    /\ pc[p] # "clear"
    /\ pc[p] \in {"try", "rename"} => Moves(p)
    /\ pc[p] = "link" => ~ Moves(p) /\ Links(p)
    /\ pc[p] # "killed" =>
         DOMAIN copies[p] \subseteq (IF pc[p] = "rename" THEN {loc[p].src} ELSE {})

\* A file being written is torn until it is complete, and nobody else writes it.
Writes(p) ==
  pc[p] = "write" =>
    /\ loc[p].out \in Inodes
    /\ data[loc[p].out] = Torn
    /\ \A q \in Running \ {p} : pc[q] = "write" => loc[q].out # loc[p].out

Careful(p) == Where(p) /\ Operand(p) /\ Unseen(p) /\ InOneStep(p) /\ Writes(p)

Fields == DOMAIN Fresh(0)

Shape ==
  /\ case \in Cases
  /\ DOMAIN pc = Procs /\ DOMAIN loc = Procs /\ DOMAIN copies = Procs /\ DOMAIN data = Inodes
  /\ \A p \in Procs : DOMAIN loc[p] = Fields
  /\ \A n \in DOMAIN dir : dir[n] \in Inodes
  /\ \A p \in Procs \ Running : pc[p] = "exit"

Inv == Shape /\ \A p \in Running : Careful(p)   \* where Kept

\* What a step may not do to a file that is whole.
Intact ==
  \A n \in Targets \cap DOMAIN dir :
    data[dir[n]] # Torn => /\ n \in DOMAIN dir'
                           /\ dir'[n] = dir[n]
                           /\ data'[dir[n]] = data[dir[n]]

-----------------------------------------------------------------------------
(* The frame of a step of process p.                                       *)

\* What p leaves alone of the other processes.
Others(p) ==
  /\ case' = case
  /\ DOMAIN pc' = Procs /\ DOMAIN loc' = Procs /\ DOMAIN copies' = Procs
  /\ \A q \in Procs \ {p} : /\ pc'[q] = pc[q] /\ loc'[q] = loc[q]
                            /\ copies'[q] = copies[q]
  /\ DOMAIN loc'[p] = Fields

LEMMA CaseFixed ==
  ASSUME case' = case
  PROVE  /\ Kept' = Kept /\ Alone' = Alone /\ Running' = Running /\ Targets' = Targets
         /\ \A p : /\ Operands(p)' = Operands(p) /\ Moves(p)' = Moves(p)
                   /\ Links(p)' = Links(p)
                   /\ Numbered(p)' = Numbered(p)
         /\ \A p, k : Dest(p, k)' = Dest(p, k) /\ Source(p, k)' = Source(p, k)
BY DEF Kept, Alone, Running, Targets, Operands, Moves, Numbered, Dest, Source, Cmd, Into,
       Keeps, AtOnce, Links, SameDevice

\* The names that a process at work is speaking of.
LEMMA AtWork ==
  ASSUME Inv, Kept, NEW p \in Procs, pc[p] \notin {"next", "exit", "killed"}
  PROVE  /\ p \in Running
         /\ Careful(p)
         /\ loc[p].k \in Numbered(p)
         /\ Dst(p) \in Targets
         /\ Src(p) \notin Targets
         /\ Keeps(p) /\ ~ Cmd(p).update
         /\ Alone \/ AtOnce(p)
<1>1. p \in Running
  BY DEF Inv, Shape
<1>2. Careful(p) /\ loc[p].k \in Numbered(p)
  BY <1>1 DEF Inv, Careful, Operand
<1>3. Dst(p) \in Targets
  BY <1>1, <1>2 DEF Dst, Targets
<1>4. Src(p) \notin Targets
  BY <1>1, <1>2 DEF Src, Kept, Source
<1> QED BY <1>1, <1>2, <1>3, <1>4 DEF Kept

\* A step of p preserves the invariant when it leaves p careful and the files that
\* others write torn.
LEMMA StepOfOne ==
  ASSUME Inv, Kept, NEW p \in Running, Others(p),
         DOMAIN data' = Inodes, \A n \in DOMAIN dir' : dir'[n] \in Inodes,
         Where(p)', Operand(p)', Unseen(p)', InOneStep(p)', Writes(p)',
         \A q \in Running \ {p} : pc[q] = "write" =>
            /\ data'[loc[q].out] = Torn
            /\ pc'[p] = "write" => loc'[p].out # loc[q].out
  PROVE  Inv'
<1> USE CaseFixed DEF Others
<1>1. Shape'
  BY DEF Inv, Shape
<1>2. p \in Procs /\ Running \subseteq Procs
  BY CopyAssumption DEF Inv, Shape, Running
<1>3. ASSUME NEW q \in Running \ {p} PROVE Careful(q)'
  <2>1. Careful(q) /\ ~ Alone
    BY <1>3 DEF Inv, Alone
  <2>2. pc'[q] = pc[q] /\ loc'[q] = loc[q] /\ copies'[q] = copies[q]
    BY <1>2, <1>3
  <2>3. Where(q)' /\ Operand(q)' /\ InOneStep(q)'
    BY <2>1, <2>2 DEF Careful, Where, Operand, InOneStep, Toward
  <2>4. Unseen(q)'
    BY <2>1, <2>2 DEF Careful, Unseen, Toward
  <2>5. Writes(q)'
    BY <1>2, <2>1, <2>2 DEF Careful, Writes
  <2> QED BY <2>3, <2>4, <2>5 DEF Careful
<1>4. Careful(p)'
  BY DEF Careful
<1> QED BY <1>1, <1>3, <1>4 DEF Inv

\* A step that leaves the disk alone.
LEMMA QuietStep ==
  ASSUME Inv, Kept, NEW p \in Running, Others(p), UNCHANGED <<dir, data>>,
         pc'[p] # "write",
         Where(p)', Operand(p)', Unseen(p)', InOneStep(p)'
  PROVE  Inv' /\ Intact
<1>1. Writes(p)'
  BY DEF Writes
<1>2. Inv'
  BY <1>1, StepOfOne DEF Inv, Shape, Careful, Writes
<1>3. Intact
  BY DEF Intact
<1> QED BY <1>2, <1>3

-----------------------------------------------------------------------------
(* The actions that leave the disk alone.                                  *)

LEMMA FreshFields ==
  ASSUME NEW k
  PROVE  /\ Fresh(k).k = k /\ Fresh(k).err = "" /\ Fresh(k).aside = NoName
         /\ Fresh(k).earlier = NoName /\ Fresh(k).renamed = FALSE
         /\ DOMAIN Fresh(k) = Fields
BY DEF Fresh, Fields

LEMMA NextOperandKeeps ==
  ASSUME Inv, Kept, NEW p \in Procs, NextOperand(p)
  PROVE  Inv' /\ Intact
<1>1. p \in Running /\ Careful(p)
  BY DEF Inv, Shape, NextOperand, At
<1>2. Len(Operands(p)) \in Nat
  BY <1>1, CopyAssumption DEF Inv, Shape, Running, Operands, Cmd
<1>3. Others(p) /\ UNCHANGED <<dir, data>>
  BY <1>1 DEF NextOperand, Go, Files, Tables, Others, Inv, Shape, Fields, Fresh
<1>4. CASE loc[p].k < Len(Operands(p))
  <2>1. loc'[p] = Fresh(loc[p].k + 1) /\ copies' = copies
        /\ pc'[p] = (IF Moves(p) THEN "try" ELSE "source")
    BY <1>1, <1>4 DEF NextOperand, Go, Tables, Inv, Shape
  <2>2. /\ loc'[p].k = loc[p].k + 1 /\ loc'[p].err = ""
        /\ loc'[p].aside = NoName /\ loc'[p].earlier = NoName
    BY <2>1, FreshFields
  <2>3. Where(p)'
    BY <2>1 DEF Where
  <2>4. Operand(p)'
    <3>1. loc[p].k + 1 \in 1 .. Len(Operands(p)) /\ loc[p].k + 1 \in 0 .. Len(Operands(p))
      BY <1>1, <1>2, <1>4 DEF Careful, Operand
    <3>2. Operands(p)' = Operands(p)
      BY <1>3, CaseFixed DEF Others
    <3> QED BY <2>2, <3>1, <3>2 DEF Operand, Numbered
  <2>5. Unseen(p)' /\ InOneStep(p)'
    BY <1>1, <1>3, <2>1, <2>2, CaseFixed
    DEF Unseen, InOneStep, Careful, Toward, Others, NextOperand, At
  <2> QED BY <1>1, <1>3, <2>1, <2>3, <2>4, <2>5, QuietStep
<1>5. CASE ~ (loc[p].k < Len(Operands(p)))
  <2>1. loc' = loc /\ copies' = copies /\ pc'[p] = "exit"
    BY <1>1, <1>5 DEF NextOperand, Go, Tables, Inv, Shape
  <2>2. Where(p)' /\ Operand(p)'
    BY <1>1, <1>3, <2>1, CaseFixed DEF Where, Operand, Careful, Others
  <2>3. Unseen(p)' /\ InOneStep(p)'
    BY <1>1, <1>3, <2>1, CaseFixed DEF Unseen, InOneStep, Careful, Toward, Others, NextOperand, At
  <2> QED BY <1>1, <1>3, <2>1, <2>2, <2>3, QuietStep
<1> QED BY <1>4, <1>5

\* To a label at which nothing more is known of the process.
Resting == {"next", "source", "dest", "renamed", "record", "remove", "undo", "exit", "killed"}

LEMMA ToRest ==
  ASSUME Inv, Kept, NEW p \in Running, Careful(p), Others(p), UNCHANGED <<dir, data>>,
         pc'[p] \in Resting,
         pc[p] \notin {"next", "exit", "killed"} \/ pc'[p] \in {"exit", "killed"},
         loc'[p].k = loc[p].k, loc'[p].aside = NoName,
         ~ Alone => loc'[p].earlier = NoName /\ loc'[p].err # "EXDEV",
         ~ Alone /\ pc'[p] # "killed" => DOMAIN copies'[p] = {}
  PROVE  Inv' /\ Intact
<1>1. Where(p)' /\ Operand(p)'
  BY CaseFixed DEF Where, Operand, Careful, Others, Resting
<1>2. Unseen(p)' /\ InOneStep(p)'
  BY CaseFixed DEF Unseen, InOneStep, Careful, Toward, Others, Resting
<1> QED BY <1>1, <1>2, QuietStep DEF Resting

LEMMA FieldNames ==
  Fields = {"k", "err", "src", "nlink", "new", "aside", "earlier", "renamed", "then",
            "in", "out", "why"}
BY DEF Fields, Fresh

LEMMA StatSourceKeeps ==
  ASSUME Inv, Kept, NEW p \in Procs, StatSource(p)
  PROVE  Inv' /\ Intact
<1>1. p \in Running /\ Careful(p) /\ pc[p] = "source"
  BY AtWork DEF StatSource, At
<1>2. pc'[p] \in Resting
  BY <1>1 DEF StatSource, Inv, Shape, Go, Refuse, Return, Resting
<1>3. Others(p) /\ UNCHANGED <<dir, data>>
  BY <1>1, FieldNames DEF StatSource, Go, Refuse, Return, Set, Files, Others, Inv, Shape
<1>4. /\ loc'[p].k = loc[p].k /\ loc'[p].aside = loc[p].aside
      /\ loc'[p].earlier = loc[p].earlier /\ loc'[p].err = loc[p].err
      /\ copies' = copies
  <2>1. \/ loc' = loc
        \/ loc' = [loc EXCEPT ![p].why = "stat"]
        \/ \E i, n : loc' = [loc EXCEPT ![p].src = i, ![p].nlink = n]
    BY DEF StatSource, Refuse, Set
  <2>2. copies' = copies
    BY DEF StatSource
  <2> QED BY <1>1, <2>1, <2>2, FieldNames DEF Inv, Shape
<1> QED BY <1>1, <1>2, <1>3, <1>4, ToRest DEF Careful, Unseen, InOneStep

LEMMA StatDestKeeps ==
  ASSUME Inv, Kept, NEW p \in Procs, StatDest(p)
  PROVE  Inv' /\ Intact
<1>1. p \in Running /\ Careful(p) /\ pc[p] = "dest" /\ Keeps(p) /\ ~ Cmd(p).update
  BY AtWork DEF StatDest, At
<1>2. Verdict(p) = "leave"
  BY <1>1 DEF Verdict
<1>3. CASE Exists(Dst(p)) \/ (Keeps(p) /\ loc[p].err = "EEXIST")
  <2>1. LeaveIt(p) /\ UNCHANGED copies
    BY <1>1, <1>2, <1>3 DEF StatDest
  <2>2. pc'[p] \in Resting
    BY <1>1, <2>1 DEF LeaveIt, Return, Go, Resting, Inv, Shape
  <2>3. Others(p) /\ UNCHANGED <<dir, data>>
    BY <1>1, <2>1, FieldNames DEF StatDest, LeaveIt, Return, Go, Set, Files, Others, Inv, Shape
  <2>4. /\ loc'[p].k = loc[p].k /\ loc'[p].aside = loc[p].aside
        /\ loc'[p].earlier = loc[p].earlier /\ loc'[p].err = loc[p].err
    BY <1>1, <2>1, FieldNames DEF LeaveIt, Set, Inv, Shape
  <2> QED BY <1>1, <2>1, <2>2, <2>3, <2>4, ToRest DEF Careful, Unseen, InOneStep
<1>4. CASE ~ Exists(Dst(p)) /\ ~ (Keeps(p) /\ loc[p].err = "EEXIST")
  <2>1. Set(p, "new", TRUE) /\ Go(p, "lookup") /\ UNCHANGED << ok, copies >>
    BY <1>1, <1>4 DEF StatDest
  <2>2. Others(p) /\ UNCHANGED <<dir, data>> /\ pc'[p] = "lookup"
    BY <1>1, <2>1, FieldNames DEF StatDest, Go, Set, Files, Others, Inv, Shape
  <2>3. /\ loc'[p].k = loc[p].k /\ loc'[p].aside = loc[p].aside
        /\ loc'[p].earlier = loc[p].earlier /\ loc'[p].err = loc[p].err
        /\ loc'[p].new
    BY <1>1, <2>1, FieldNames DEF Set, Inv, Shape
  <2>4. Dst(p)' = Dst(p)
    BY <2>2, <2>3, CaseFixed DEF Dst, Others
  <2>5. Where(p)' /\ Operand(p)'
    BY <1>1, <2>2, <2>3, CaseFixed DEF Where, Toward, Operand, Careful, Others
  <2>6. Unseen(p)' /\ InOneStep(p)'
    BY <1>1, <1>4, <2>1, <2>2, <2>3, <2>4, CaseFixed
    DEF Unseen, InOneStep, Careful, Toward, Others, Exists
  <2> QED BY <1>1, <2>2, <2>5, <2>6, QuietStep
<1> QED BY <1>3, <1>4

LEMMA FindEarlierKeeps ==
  ASSUME Inv, Kept, NEW p \in Procs, FindEarlier(p)
  PROVE  Inv' /\ Intact
<1>1. p \in Running /\ Careful(p) /\ pc[p] = "lookup" /\ (Alone \/ AtOnce(p))
  BY AtWork DEF FindEarlier, At
<1>2. PICK earlier :
        /\ earlier = IF OnlyLooks(p) \/ Enters(p) THEN Lookup(p, loc[p].src) ELSE NoName
        /\ loc' = [loc EXCEPT ![p].earlier = earlier,
                              ![p].then = IF earlier # NoName THEN "done" ELSE "record"]
        /\ pc' = [pc EXCEPT ![p] = IF earlier # NoName \/ Links(p) THEN "link"
                                   ELSE IF Moves(p) THEN "rename" ELSE "open"]
  BY DEF FindEarlier, Go
<1>3. IF Enters(p) THEN RememberCopied(p, loc[p].src, Dst(p)) ELSE UNCHANGED copies
  BY DEF FindEarlier
<1>4. /\ Others(p) /\ UNCHANGED <<dir, data>>
      /\ pc'[p] \in Toward \ {"lookup", "clear"}
  BY <1>1, <1>2, <1>3, FieldNames
  DEF FindEarlier, Files, RememberCopied, Others, Inv, Shape, Toward
<1>5. /\ loc'[p].k = loc[p].k /\ loc'[p].aside = loc[p].aside
      /\ loc'[p].err = loc[p].err /\ loc'[p].new = loc[p].new /\ loc'[p].src = loc[p].src
      /\ loc'[p].then \in {"record", "done"} /\ loc'[p].earlier = earlier
  BY <1>1, <1>2, FieldNames DEF Inv, Shape
<1>6. Dst(p)' = Dst(p)
  BY <1>4, <1>5, CaseFixed DEF Dst, Others
<1>7. Where(p)' /\ Operand(p)' /\ Unseen(p)'
  BY <1>1, <1>4, <1>5, <1>6, CaseFixed
  DEF Where, Toward, Operand, Unseen, Careful, Others, Exists
<1>8. InOneStep(p)'
  <2>1. CASE ~ Alone
    <3>1. DOMAIN copies[p] = {}
      BY <1>1, <2>1 DEF Careful, InOneStep
    <3>2. earlier = NoName
      BY <1>2, <3>1 DEF Lookup, Remembered
    <3>3. CASE Moves(p)
      <4>1. pc'[p] = "rename"
        BY <1>1, <1>2, <2>1, <3>2, <3>3 DEF AtOnce, Inv, Shape
      <4>2. DOMAIN copies'[p] \subseteq {loc[p].src}
        BY <1>1, <1>3, <3>1 DEF RememberCopied, Remembered, Entered, Inv, Shape
      <4> QED BY <1>1, <1>4, <1>5, <2>1, <3>2, <3>3, <4>1, <4>2, CaseFixed
              DEF InOneStep, Careful, Others
    <3>4. CASE ~ Moves(p)
      <4>1. copies' = copies /\ pc'[p] \in {"link", "open"} /\ (pc'[p] = "link" => Links(p))
        BY <1>1, <1>2, <1>3, <2>1, <3>2, <3>4 DEF AtOnce, Enters, Inv, Shape
      <4> QED BY <1>1, <1>4, <1>5, <2>1, <3>1, <3>2, <3>4, <4>1, CaseFixed
              DEF InOneStep, Careful, Others
    <3> QED BY <3>3, <3>4
  <2> QED BY <1>4, <2>1, CaseFixed DEF InOneStep, Others
<1> QED BY <1>1, <1>4, <1>7, <1>8, QuietStep DEF Toward

LEMMA RestingSteps ==
  ASSUME Inv, Kept, NEW p \in Procs,
         RecordRenamed(p) \/ RecordCopied(p) \/ UnBackup(p) \/ Kill(p)
  PROVE  Inv' /\ Intact
<1>1. p \in Running /\ Careful(p)
  BY DEF Inv, Shape, RecordRenamed, RecordCopied, UnBackup, Kill, At
<1>2. /\ pc'[p] \in Resting /\ pc'[p] \notin {"exit"}
      /\ pc[p] \notin {"next", "exit", "killed"} \/ pc'[p] = "killed"
  BY <1>1 DEF RecordRenamed, RecordCopied, UnBackup, Kill, Return, Go, At, Resting, Inv, Shape
<1>3. UNCHANGED <<case, dir, data>>
  BY <1>1 DEF RecordRenamed, RecordCopied, UnBackup, Kill, Files, Careful, Unseen
<1>4. \/ loc' = loc
      \/ loc' = [loc EXCEPT ![p].in = NoInode, ![p].out = NoInode]
  BY DEF RecordRenamed, RecordCopied, UnBackup, Kill
<1>5. copies' = copies \/ ForgetCreated(p, loc[p].src)
  BY DEF RecordRenamed, RecordCopied, UnBackup, Kill, Tables
<1>6. Others(p)
  BY <1>1, <1>3, <1>4, <1>5, FieldNames
  DEF RecordRenamed, RecordCopied, UnBackup, Kill, Return, Go, ForgetCreated, Others, Inv, Shape
<1>7. /\ loc'[p].k = loc[p].k /\ loc'[p].aside = loc[p].aside
      /\ loc'[p].earlier = loc[p].earlier /\ loc'[p].err = loc[p].err
  BY <1>1, <1>4, FieldNames DEF Inv, Shape
<1>8. ~ Alone /\ pc'[p] # "killed" => DOMAIN copies'[p] = {}
  <2>1. ~ Alone /\ pc'[p] # "killed" => DOMAIN copies[p] = {}
    BY <1>1 DEF RecordRenamed, RecordCopied, UnBackup, Kill, Go, At, Careful, InOneStep, Inv, Shape
  <2> QED BY <1>1, <1>5, <2>1 DEF ForgetCreated, Without, Inv, Shape
<1> QED BY <1>1, <1>2, <1>3, <1>6, <1>7, <1>8, ToRest DEF Careful, Unseen, InOneStep

LEMMA RenameKeeps ==
  ASSUME Inv, Kept, NEW p \in Procs, Rename(p)
  PROVE  Inv' /\ Intact
<1>1. /\ p \in Running /\ Careful(p) /\ pc[p] = "rename" /\ (Alone \/ AtOnce(p))
      /\ loc[p].err # "EEXIST"
  BY AtWork DEF Rename, At, Careful, Unseen, Toward
<1>2. CASE CannotMove(p)
  <2>1. loc' = [loc EXCEPT ![p].why = "move"] /\ ForgetCreated(p, loc[p].src)
    BY <1>2 DEF CannotMove, Refuse, Set
  <2>2. pc'[p] = "next"
    BY <1>1, <1>2 DEF CannotMove, Refuse, Return, Go, Inv, Shape
  <2>3. Others(p) /\ UNCHANGED <<dir, data>>
    BY <1>1, <1>2, <2>1, FieldNames
    DEF Rename, CannotMove, Refuse, Return, Go, ForgetCreated, Others, Inv, Shape
  <2>4. /\ loc'[p].k = loc[p].k /\ loc'[p].aside = loc[p].aside
        /\ loc'[p].earlier = loc[p].earlier /\ loc'[p].err = loc[p].err
    BY <1>1, <2>1, FieldNames DEF Inv, Shape
  <2>5. ~ Alone => DOMAIN copies'[p] = {}
    BY <1>1, <2>1 DEF Careful, InOneStep, ForgetCreated, Without, Inv, Shape
  <2> QED BY <1>1, <2>2, <2>3, <2>4, <2>5, ToRest DEF Careful, Unseen, InOneStep, Resting
<1>3. CASE /\ loc[p].err = "EXDEV"
           /\ Set(p, "err", "EXDEV") /\ Go(p, "clear") /\ UNCHANGED << dir, copies, ok >>
  <2>1. Alone
    BY <1>1, <1>3 DEF Careful, InOneStep
  <2>2. Others(p) /\ UNCHANGED <<dir, data>> /\ pc'[p] = "clear"
    BY <1>1, <1>3, FieldNames DEF Rename, Set, Go, Others, Inv, Shape
  <2>3. /\ loc'[p].k = loc[p].k /\ loc'[p].aside = loc[p].aside
        /\ loc'[p].new = loc[p].new /\ loc'[p].err # "EEXIST"
    BY <1>1, <1>3, FieldNames DEF Set, Inv, Shape
  <2>4. Where(p)' /\ Operand(p)' /\ Unseen(p)' /\ InOneStep(p)'
    BY <1>1, <2>1, <2>2, <2>3, CaseFixed
    DEF Where, Toward, Operand, Unseen, InOneStep, Careful, Others, Exists, Dst
  <2> QED BY <1>1, <2>2, <2>4, QuietStep
<1> QED BY <1>1, <1>2, <1>3 DEF Rename

-----------------------------------------------------------------------------
(* The actions that change the disk.                                       *)

LEMMA OpenFilesKeeps ==
  ASSUME Inv, Kept, NEW p \in Procs, OpenFiles(p)
  PROVE  Inv' /\ Intact
<1>1. p \in Running /\ Careful(p) /\ pc[p] = "open" /\ loc[p].new
  BY AtWork DEF OpenFiles, At, Careful, Unseen, Toward
<1>2. CASE Undo(p, "replaced") /\ UNCHANGED << dir, data >>
  <2>1. Others(p) /\ UNCHANGED <<dir, data>> /\ pc'[p] = "undo" /\ UNCHANGED copies
    BY <1>1, <1>2, FieldNames DEF OpenFiles, Undo, Go, Tables, Others, Inv, Shape
  <2>2. /\ loc'[p].k = loc[p].k /\ loc'[p].aside = loc[p].aside
        /\ loc'[p].earlier = loc[p].earlier /\ loc'[p].err = loc[p].err
    BY <1>1, <1>2, FieldNames DEF Undo, Inv, Shape
  <2> QED BY <1>1, <2>1, <2>2, ToRest DEF Careful, Unseen, InOneStep, Resting
<1>3. CASE /\ loc' = [loc EXCEPT ![p].in = loc[p].src, ![p].new = TRUE]
           /\ Go(p, "create") /\ UNCHANGED << dir, data, ok >>
  <2>1. Others(p) /\ UNCHANGED <<dir, data>> /\ pc'[p] = "create" /\ UNCHANGED copies
    BY <1>1, <1>3, FieldNames DEF OpenFiles, Go, Tables, Others, Inv, Shape
  <2>2. /\ loc'[p].k = loc[p].k /\ loc'[p].aside = loc[p].aside /\ loc'[p].new
        /\ loc'[p].earlier = loc[p].earlier /\ loc'[p].err = loc[p].err
    BY <1>1, <1>3, FieldNames DEF Inv, Shape
  <2>3. Where(p)' /\ Operand(p)' /\ Unseen(p)' /\ InOneStep(p)'
    BY <1>1, <2>1, <2>2, CaseFixed
    DEF Where, Toward, Operand, Unseen, InOneStep, Careful, Others, Exists, Dst
  <2> QED BY <1>1, <2>1, <2>3, QuietStep
<1> QED BY <1>1, <1>2, <1>3 DEF OpenFiles

LEMMA CreateKeeps ==
  ASSUME Inv, Kept, NEW p \in Procs, Create(p)
  PROVE  Inv' /\ Intact
<1>1. p \in Running /\ Careful(p) /\ pc[p] = "create" /\ Running \subseteq Procs
  BY AtWork, CopyAssumption DEF Create, At, Inv, Shape, Running
<1>2. CASE Undo(p, "create") /\ UNCHANGED << dir, data >>
  <2>1. Others(p) /\ UNCHANGED <<dir, data>> /\ pc'[p] = "undo" /\ UNCHANGED copies
    BY <1>1, <1>2, FieldNames DEF Create, Undo, Go, Tables, Others, Inv, Shape
  <2>2. /\ loc'[p].k = loc[p].k /\ loc'[p].aside = loc[p].aside
        /\ loc'[p].earlier = loc[p].earlier /\ loc'[p].err = loc[p].err
    BY <1>1, <1>2, FieldNames DEF Undo, Inv, Shape
  <2> QED BY <1>1, <2>1, <2>2, ToRest DEF Careful, Unseen, InOneStep, Resting
<1>3. ASSUME NEW i \in Free(Device[Dst(p).dir]), Vacant(Dst(p)),
             dir' = Entered(dir, Dst(p), i), data' = [data EXCEPT ![i] = Torn],
             Set(p, "out", i), Go(p, "write")
      PROVE  Inv' /\ Intact
  <2>1. /\ i \in Inodes /\ \A n \in DOMAIN dir : dir[n] # i
        /\ \A q \in Procs : loc[q].out # i
    BY <1>3 DEF Free, Names
  <2>2. /\ DOMAIN dir' = DOMAIN dir \cup {Dst(p)} /\ dir'[Dst(p)] = i
        /\ \A n \in DOMAIN dir : dir'[n] = dir[n]
        /\ \A j \in Inodes : data'[j] = IF j = i THEN Torn ELSE data[j]
    BY <1>3, <2>1 DEF Vacant, Exists, Entered, Inv, Shape
  <2>3. Others(p) /\ pc'[p] = "write" /\ UNCHANGED copies /\ DOMAIN data' = Inodes
    BY <1>1, <1>3, FieldNames DEF Create, Set, Go, Tables, Others, Inv, Shape
  <2>4. /\ loc'[p].k = loc[p].k /\ loc'[p].aside = loc[p].aside /\ loc'[p].out = i
        /\ loc'[p].earlier = loc[p].earlier /\ loc'[p].err = loc[p].err
    BY <1>1, <1>3, FieldNames DEF Set, Inv, Shape
  <2>5. Where(p)' /\ Operand(p)' /\ Unseen(p)' /\ InOneStep(p)'
    BY <1>1, <2>3, <2>4, CaseFixed
    DEF Where, Toward, Operand, Unseen, InOneStep, Careful, Others
  <2>6. ASSUME NEW q \in Running \ {p}, pc[q] = "write"
        PROVE  data'[loc[q].out] = Torn /\ loc'[q].out = loc[q].out /\ loc[q].out # i
    BY <1>1, <2>1, <2>2, <2>3, <2>6 DEF Inv, Careful, Writes, Others
  <2>7. Writes(p)'
    BY <1>1, <2>1, <2>2, <2>3, <2>4, <2>6, CaseFixed DEF Writes, Others
  <2>8. Inv'
    BY <1>1, <2>1, <2>2, <2>3, <2>4, <2>5, <2>6, <2>7, StepOfOne DEF Inv, Shape
  <2>9. Intact
    BY <2>1, <2>2 DEF Intact, Inv, Shape
  <2> QED BY <2>8, <2>9
<1> QED BY <1>2, <1>3 DEF Create

LEMMA WriteKeeps ==
  ASSUME Inv, Kept, NEW p \in Procs, Write(p)
  PROVE  Inv' /\ Intact
<1>1. /\ p \in Running /\ Careful(p) /\ pc[p] = "write" /\ Running \subseteq Procs
      /\ loc[p].out \in Inodes /\ data[loc[p].out] = Torn
  BY AtWork, CopyAssumption DEF Write, At, Inv, Shape, Running, Careful, Writes
<1>2. /\ Others(p) /\ UNCHANGED <<dir, copies>> /\ DOMAIN data' = Inodes
      /\ pc'[p] \in {"record", "undo"}
  BY <1>1, FieldNames DEF Write, Undo, Go, Tables, Others, Inv, Shape
<1>3. /\ loc'[p].k = loc[p].k /\ loc'[p].aside = loc[p].aside
      /\ loc'[p].earlier = loc[p].earlier /\ loc'[p].err = loc[p].err
  BY <1>1, FieldNames DEF Write, Undo, Inv, Shape
<1>4. \A j \in Inodes \ {loc[p].out} : data'[j] = data[j]
  BY <1>1 DEF Write, Inv, Shape
<1>5. Where(p)' /\ Operand(p)' /\ Unseen(p)' /\ InOneStep(p)' /\ Writes(p)'
  BY <1>1, <1>2, <1>3, CaseFixed
  DEF Where, Toward, Operand, Unseen, InOneStep, Careful, Others, Writes
<1>6. ASSUME NEW q \in Running \ {p}, pc[q] = "write"
      PROVE  data'[loc[q].out] = Torn
  BY <1>1, <1>4, <1>6 DEF Inv, Careful, Writes
<1>7. Inv'
  BY <1>1, <1>2, <1>5, <1>6, StepOfOne DEF Inv, Shape
<1>8. Intact
  BY <1>1, <1>2, <1>4 DEF Intact, Inv, Shape
<1> QED BY <1>7, <1>8

\* A step to a label at which nothing more is known of the process, which changes the
\* directories and leaves what files hold.
LEMMA ToRestWithFiles ==
  ASSUME Inv, Kept, NEW p \in Running, Careful(p), Others(p), UNCHANGED data,
         \A n \in DOMAIN dir' : dir'[n] \in Inodes,
         \A n \in Targets \cap DOMAIN dir : n \in DOMAIN dir' /\ dir'[n] = dir[n],
         pc'[p] \in Resting, pc[p] \notin {"next", "exit", "killed"},
         loc'[p].k = loc[p].k, loc'[p].aside = NoName,
         ~ Alone => loc'[p].earlier = NoName /\ loc'[p].err # "EXDEV",
         ~ Alone => DOMAIN copies'[p] = {}
  PROVE  Inv' /\ Intact
<1>1. Where(p)' /\ Operand(p)'
  BY CaseFixed DEF Where, Operand, Careful, Others, Resting
<1>2. Unseen(p)' /\ InOneStep(p)' /\ Writes(p)'
  BY CaseFixed DEF Unseen, InOneStep, Writes, Careful, Toward, Others, Resting
<1>3. pc'[p] # "write" /\ DOMAIN data' = Inodes
  BY DEF Resting, Inv, Shape
<1>4. \A q \in Running \ {p} : pc[q] = "write" => data'[loc[q].out] = Torn
  BY DEF Inv, Careful, Writes
<1>5. Inv'
  BY <1>1, <1>2, <1>3, <1>4, StepOfOne
<1>6. Intact
  BY DEF Intact
<1> QED BY <1>5, <1>6

LEMMA TryRenameKeeps ==
  ASSUME Inv, Kept, NEW p \in Procs, TryRename(p)
  PROVE  Inv' /\ Intact
<1>1. /\ p \in Running /\ Careful(p) /\ pc[p] = "try" /\ (Alone \/ AtOnce(p))
      /\ Src(p) \notin Targets /\ loc[p].k \in Numbered(p)
  BY AtWork DEF TryRename, At
<1> DEFINE Result(err) == loc' = [loc EXCEPT ![p].err = err, ![p].new = (err = "0"),
                                             ![p].renamed = (err = "0")]
<1>2. PICK err :
        /\ Result(err)
        /\ err \in {"EXDEV", "ENOENT", "EEXIST", "0", "EACCES"}
        /\ err = "EXDEV" => ~ SameDevice(Src(p), Dst(p))
        /\ \/ UNCHANGED dir
           \/ /\ Exists(Src(p)) /\ Vacant(Dst(p))
              /\ dir' = Renamed(dir, Src(p), Dst(p))
  <2>1. \/ Result("EXDEV") /\ ~ SameDevice(Src(p), Dst(p)) /\ UNCHANGED dir
        \/ Result("ENOENT") /\ UNCHANGED dir
        \/ Result("EEXIST") /\ UNCHANGED dir
        \/ Result("EACCES") /\ UNCHANGED dir
        \/ /\ Result("0") /\ Exists(Src(p)) /\ Vacant(Dst(p))
           /\ dir' = Renamed(dir, Src(p), Dst(p))
    BY Zenon DEF TryRename
  <2> HIDE DEF Result
  <2> QED BY <2>1
<1>3. Others(p) /\ pc'[p] = "source" /\ UNCHANGED << data, copies >>
  BY <1>1, <1>2, FieldNames DEF TryRename, Go, Tables, Others, Inv, Shape
<1>4. /\ loc'[p].k = loc[p].k /\ loc'[p].aside = loc[p].aside
      /\ loc'[p].earlier = loc[p].earlier /\ loc'[p].err = err
  BY <1>1, <1>2, FieldNames DEF Inv, Shape
<1>5. ~ Alone => err # "EXDEV"
  BY <1>1, <1>2 DEF Careful, InOneStep, AtOnce, Src, Dst
<1>6. /\ \A n \in DOMAIN dir' : dir'[n] \in Inodes
      /\ \A n \in Targets \cap DOMAIN dir : n \in DOMAIN dir' /\ dir'[n] = dir[n]
  <2>1. CASE UNCHANGED dir
    BY <2>1 DEF Inv, Shape
  <2>2. CASE /\ Exists(Src(p)) /\ Vacant(Dst(p)) /\ dir' = Renamed(dir, Src(p), Dst(p))
    <3>1. dir' = Entered(Without(dir, Src(p)), Dst(p), dir[Src(p)])
      BY <2>2 DEF Renamed, Exists, Vacant
    <3>2. DOMAIN dir' = (DOMAIN dir \ {Src(p)}) \cup {Dst(p)}
      BY <3>1 DEF Entered, Without
    <3>3. \A n \in DOMAIN dir' : dir'[n] = IF n = Dst(p) THEN dir[Src(p)] ELSE dir[n]
      BY <3>1, <3>2 DEF Entered, Without
    <3> QED BY <1>1, <2>2, <3>2, <3>3 DEF Exists, Vacant, Inv, Shape
  <2> QED BY <1>2, <2>1, <2>2
<1> QED BY <1>1, <1>3, <1>4, <1>5, <1>6, ToRestWithFiles
        DEF Careful, Unseen, InOneStep, Resting

LEMMA RemoveSourceKeeps ==
  ASSUME Inv, Kept, NEW p \in Procs, RemoveSource(p)
  PROVE  Inv' /\ Intact
<1>1. /\ p \in Running /\ Careful(p) /\ pc[p] = "remove" /\ Src(p) \notin Targets
  BY AtWork DEF RemoveSource, At
<1>2. Others(p) /\ pc'[p] = "next" /\ UNCHANGED << data, loc, copies >>
  BY <1>1 DEF RemoveSource, Go, Tables, Others, Inv, Shape
<1>3. /\ \A n \in DOMAIN dir' : dir'[n] \in Inodes
      /\ \A n \in Targets \cap DOMAIN dir : n \in DOMAIN dir' /\ dir'[n] = dir[n]
  BY <1>1 DEF RemoveSource, Without, Inv, Shape
<1> QED BY <1>1, <1>2, <1>3, ToRestWithFiles DEF Careful, Unseen, InOneStep, Resting

LEMMA ClearDestKeeps ==
  ASSUME Inv, Kept, NEW p \in Procs, ClearDest(p)
  PROVE  Inv' /\ Intact
<1>1. /\ p \in Running /\ Careful(p) /\ pc[p] = "clear" /\ Alone /\ ~ Exists(Dst(p))
  BY AtWork DEF ClearDest, At, Careful, Unseen, InOneStep, Toward
<1>2. CASE CannotMove(p)
  <2>1. loc' = [loc EXCEPT ![p].why = "move"] /\ ForgetCreated(p, loc[p].src)
    BY <1>2 DEF CannotMove, Refuse, Set
  <2>2. pc'[p] = "next"
    BY <1>1, <1>2 DEF CannotMove, Refuse, Return, Go, Inv, Shape
  <2>3. Others(p) /\ UNCHANGED <<dir, data>>
    BY <1>1, <1>2, <2>1, FieldNames
    DEF ClearDest, CannotMove, Refuse, Return, Go, ForgetCreated, Others, Inv, Shape
  <2>4. /\ loc'[p].k = loc[p].k /\ loc'[p].aside = loc[p].aside
        /\ loc'[p].earlier = loc[p].earlier /\ loc'[p].err = loc[p].err
    BY <1>1, <2>1, FieldNames DEF Inv, Shape
  <2> QED BY <1>1, <2>2, <2>3, <2>4, ToRest DEF Careful, Unseen, InOneStep, Resting
<1>3. CASE /\ dir' = Without(dir, Dst(p))
           /\ Set(p, "new", TRUE) /\ Go(p, "open") /\ UNCHANGED << copies, ok >>
  <2>1. Others(p) /\ pc'[p] = "open" /\ UNCHANGED << data, copies >>
    BY <1>1, <1>3, FieldNames DEF ClearDest, Go, Set, Others, Inv, Shape
  <2>2. /\ loc'[p].k = loc[p].k /\ loc'[p].aside = loc[p].aside
        /\ loc'[p].err = loc[p].err /\ loc'[p].new
    BY <1>1, <1>3, FieldNames DEF Set, Inv, Shape
  <2>3. DOMAIN dir' = DOMAIN dir /\ \A n \in DOMAIN dir : dir'[n] = dir[n]
    BY <1>1, <1>3 DEF Without, Exists
  <2>4. /\ Where(p)' /\ Operand(p)' /\ Unseen(p)' /\ InOneStep(p)' /\ Writes(p)'
    BY <1>1, <2>1, <2>2, <2>3, CaseFixed
    DEF Where, Toward, Operand, Unseen, InOneStep, Writes, Careful, Others, Exists, Dst
  <2>5. Inv'
    BY <1>1, <2>1, <2>3, <2>4, StepOfOne DEF Inv, Shape, Careful, Writes
  <2>6. Intact
    BY <2>1, <2>3 DEF Intact
  <2> QED BY <2>5, <2>6
<1> QED BY <1>2, <1>3 DEF ClearDest

LEMMA LinkDestKeeps ==
  ASSUME Inv, Kept, NEW p \in Procs, LinkDest(p)
  PROVE  Inv' /\ Intact
<1>1. /\ p \in Running /\ Careful(p) /\ pc[p] = "link" /\ (Alone \/ AtOnce(p))
      /\ loc[p].then \in {"record", "done"}
  BY AtWork DEF LinkDest, At, Careful, Unseen
<1>2. UNCHANGED << case, data, copies >>
  BY DEF LinkDest, Tables
<1>3. ~ (Exists(Dst(p)) /\ Replaces(p) /\ Go(p, "linktemp"))
  <2>1. SUFFICES ASSUME ~ Alone, Replaces(p) PROVE FALSE
    BY <1>1 DEF Careful, Unseen, Toward
  <2>2. loc[p].earlier = NoName /\ ~ Moves(p) /\ Links(p)
    BY <1>1, <2>1 DEF Careful, InOneStep
  <2> QED BY <1>1, <2>1, <2>2 DEF Replaces, AtOnce
<1>4. CASE Undo(p, "link") /\ UNCHANGED dir
  <2>1. Others(p) /\ pc'[p] = "undo"
    BY <1>1, <1>2, <1>4, FieldNames DEF Undo, Go, Others, Inv, Shape
  <2>2. /\ loc'[p].k = loc[p].k /\ loc'[p].aside = loc[p].aside
        /\ loc'[p].earlier = loc[p].earlier /\ loc'[p].err = loc[p].err
    BY <1>1, <1>4, FieldNames DEF Undo, Inv, Shape
  <2> QED BY <1>1, <1>2, <1>4, <2>1, <2>2, ToRest DEF Careful, Unseen, InOneStep, Resting
<1>5. CASE /\ Linkable(p) /\ ~ Exists(Dst(p))
           /\ dir' = Entered(dir, Dst(p), dir[Target(p)]) /\ UNCHANGED loc /\ Linked(p)
  <2>1. Others(p) /\ pc'[p] \in Resting
    BY <1>1, <1>2, <1>5 DEF Linked, Return, Go, Others, Resting, Inv, Shape
  <2>2. /\ \A n \in DOMAIN dir' : dir'[n] \in Inodes
        /\ \A n \in Targets \cap DOMAIN dir : n \in DOMAIN dir' /\ dir'[n] = dir[n]
    BY <1>5 DEF Entered, Exists, Linkable, Inv, Shape
  <2> QED BY <1>1, <1>2, <1>5, <2>1, <2>2, ToRestWithFiles
          DEF Careful, Unseen, InOneStep
<1> QED BY <1>3, <1>4, <1>5 DEF LinkDest, LinkTo

-----------------------------------------------------------------------------
(* The theorem.                                                            *)

\* With -n nothing is moved aside, removed or replaced by a temporary link.
LEMMA NotReached ==
  ASSUME Inv, Kept, NEW p \in Procs
  PROVE  ~ (\/ NameBackup(p) \/ MoveAside(p) \/ UnlinkDest(p) \/ LinkTemp(p)
            \/ RenameTemp(p) \/ UnlinkTemp(p))
<1>1. SUFFICES ASSUME pc[p] \in {"backup", "aside", "unlink", "linktemp", "swap", "untemp"}
               PROVE  FALSE
  BY DEF NameBackup, MoveAside, UnlinkDest, LinkTemp, RenameTemp, UnlinkTemp, At
<1>2. Where(p)
  BY <1>1, AtWork DEF Careful
<1> QED BY <1>1, <1>2 DEF Where, Toward

LEMMA NextKeeps ==
  ASSUME Inv, Kept, Next
  PROVE  Inv' /\ Intact
<1>1. CASE UNCHANGED vars
  <2>1. Inv'
    BY <1>1, CaseFixed DEF vars, Inv, Shape, Careful, Where, Operand, Unseen, InOneStep,
                           Writes, Toward, Exists, Dst
  <2>2. Intact
    BY <1>1 DEF vars, Intact
  <2> QED BY <2>1, <2>2
<1>2. ASSUME NEW p \in Procs, Step(p) \/ Kill(p) PROVE Inv' /\ Intact
  BY <1>2, NextOperandKeeps, TryRenameKeeps, StatSourceKeeps, StatDestKeeps, NotReached,
     FindEarlierKeeps, LinkDestKeeps, RenameKeeps, RestingSteps, ClearDestKeeps,
     OpenFilesKeeps, CreateKeeps, WriteKeeps, RemoveSourceKeeps DEF Step
<1> QED BY <1>1, <1>2 DEF Next

LEMMA CaseStays ==
  ASSUME [Next]_vars
  PROVE  case' = case
<1>1. CASE UNCHANGED vars
  BY <1>1 DEF vars
<1>2. ASSUME NEW p \in Procs, Step(p) \/ Kill(p) PROVE case' = case
  <2>1. CASE NextOperand(p) \/ StatSource(p) \/ StatDest(p) \/ NameBackup(p) \/ FindEarlier(p)
             \/ RecordRenamed(p) \/ RecordCopied(p) \/ Kill(p)
    BY <2>1 DEF NextOperand, StatSource, StatDest, NameBackup, FindEarlier, RecordRenamed,
                RecordCopied, Kill, Files
  <2>2. CASE MoveAside(p) \/ UnlinkDest(p) \/ LinkDest(p) \/ LinkTemp(p) \/ RenameTemp(p)
             \/ UnlinkTemp(p) \/ Rename(p) \/ ClearDest(p)
    BY <2>2 DEF MoveAside, UnlinkDest, LinkDest, LinkTemp, RenameTemp, UnlinkTemp, Rename,
                ClearDest
  <2>3. CASE OpenFiles(p) \/ Create(p) \/ Write(p) \/ RemoveSource(p) \/ UnBackup(p)
    BY <2>3 DEF OpenFiles, Create, Write, RemoveSource, UnBackup
  <2>4. CASE TryRename(p)
    BY <2>4, Zenon DEF TryRename
  <2> QED BY <1>2, <2>1, <2>2, <2>3, <2>4 DEF Step
<1> QED BY <1>1, <1>2 DEF Next

LEMMA InitInv ==
  ASSUME Init, Kept
  PROVE  Inv
<1>1. Shape
  BY CopyAssumption, FreshFields DEF Init, Shape, Running
<1>2. ASSUME NEW p \in Running PROVE Careful(p)
  <2>1. p \in Procs /\ Len(Operands(p)) \in Nat /\ 0 \in 0 .. Len(Operands(p))
    BY <1>1, CopyAssumption DEF Init, Running, Operands, Cmd, Shape
  <2>2. /\ pc[p] = "next" /\ loc[p] = Fresh(0) /\ DOMAIN copies[p] = {}
    BY <2>1 DEF Init, Running
  <2>3. /\ loc[p].k = 0 /\ loc[p].err = "" /\ loc[p].aside = NoName
        /\ loc[p].earlier = NoName
    BY <2>2, FreshFields
  <2> QED BY <2>1, <2>2, <2>3
          DEF Careful, Where, Operand, Unseen, InOneStep, Writes, Toward
<1> QED BY <1>1, <1>2 DEF Inv

(* cp -n and mv -n, as many as there are at once: no step replaces, removes  *)
(* or changes a file that is complete under a name that one of them copies   *)
(* or moves to, for every disk, every operand, every link between the files, *)
(* whatever calls fail and whoever is killed, where nobody makes its         *)
(* destination in more than one step.                                        *)
THEOREM NeverClobbers == Spec => NoClobber
<1> DEFINE IInv == Kept => Inv
<1>1. Init => IInv
  BY InitInv
<1>2. IInv /\ [Next]_vars => IInv' /\ [Kept => Intact]_vars
  <2> SUFFICES ASSUME IInv, [Next]_vars PROVE IInv' /\ [Kept => Intact]_vars
    OBVIOUS
  <2>1. Kept' = Kept
    BY CaseStays, CaseFixed
  <2>2. CASE Next
    BY <2>1, <2>2, NextKeeps
  <2>3. CASE UNCHANGED vars
    BY <2>1, <2>3, CaseFixed
    DEF vars, Inv, Shape, Careful, Where, Operand, Unseen, InOneStep, Writes, Toward,
        Exists, Dst
  <2> QED BY <2>2, <2>3
<1>3. [Kept => Intact]_vars <=>
        [Kept => \A n \in Targets \cap DOMAIN dir :
           data[dir[n]] # Torn => /\ n \in DOMAIN dir'
                                  /\ dir'[n] = dir[n]
                                  /\ data'[dir[n]] = data[dir[n]]]_vars
  BY DEF Intact
<1> QED BY <1>1, <1>2, <1>3, PTL DEF Spec, NoClobber

-----------------------------------------------------------------------------
(* One file: the inductive invariant.                                      *)

\* A single process with one file, which exists.  mv has no -l, and nothing has the
\* name that try_tempname will choose.
OneFile ==
  /\ Alone
  /\ \A p \in Running :
       /\ Len(Operands(p)) = 1
       /\ Source(p, 1) \in DOMAIN case.dir
       /\ ~ (Moves(p) /\ Links(p))
       /\ \A n \in DOMAIN case.dir \cup {Dest(p, 1)} : n.base # "Cu"

From(p) == Source(p, 1)
To(p) == Dest(p, 1)
Whole(p) == Content(p, 1)
Old(p) == case.dir[To(p)]
Beside(p) == [loc[p].aside EXCEPT !.dir = To(p).dir]   \* where un_backup looks

Acted == {"link", "linktemp", "swap", "untemp", "rename", "clear", "open", "create",
          "write", "record", "undo", "remove"}
Room == {"backup", "aside", "unlink", "lookup"}
Chosen == {"lookup", "rename", "open", "link"}

\* The way through copy that the options and the devices lead to.
Way(p) ==
  /\ pc[p] \in {"next", "try", "source", "dest", "renamed", "exit", "killed"} \cup Room \cup Acted
  /\ loc[p].k \in {0, 1}
  /\ pc[p] \notin {"next", "exit", "killed"} => loc[p].k = 1
  /\ pc[p] = "exit" => loc[p].k = 1
  /\ pc[p] \in {"try", "rename", "clear", "remove", "renamed"} => Moves(p)
  /\ pc[p] \in {"link", "linktemp", "swap", "untemp"} => Links(p)
  /\ pc[p] \in {"open", "create", "write"} => ~ Links(p)
  /\ pc[p] \in {"open", "create", "write", "record", "undo", "remove"} /\ Moves(p)
       => ~ SameDevice(From(p), To(p))
  /\ pc[p] = "clear" \/ loc[p].err = "EXDEV" => ~ SameDevice(From(p), To(p))
  /\ pc[p] \in {"backup", "aside"} => Backup(p) # "none"
  /\ pc[p] = "unlink" => /\ Backup(p) = "none" /\ ~ Moves(p)
                         /\ Cmd(p).removeFirst \/ Cmd(p).preserve
  /\ loc[p].earlier = NoName
  /\ pc[p] \in {"linktemp", "swap", "link"} => loc[p].then = "record"
  /\ pc[p] = "untemp" => loc[p].then \in {"record", "undo"}
  /\ pc[p] \in {"try", "source", "dest"} \cup Room \/ loc[p].k = 0 => DOMAIN copies[p] = {}
  /\ loc[p].k = 0 => loc[p].aside = NoName
  /\ pc[p] \in {"try", "source", "dest", "unlink"} => loc[p].aside = NoName
  /\ pc[p] \in Room \cup Acted => loc[p].src = Whole(p)
  /\ pc[p] = "dest" => loc[p].src = Whole(p) \/ (loc[p].err = "EEXIST" /\ Keeps(p))
  /\ pc[p] = "renamed" \/ (pc[p] = "source" /\ loc[p].err = "0") => loc[p].renamed
  /\ loc[p].err = "0" => Moves(p) /\ pc[p] \in {"source", "renamed", "next", "exit", "killed"}
  /\ loc[p].renamed => \/ pc[p] = "source" /\ loc[p].err = "0"
                       \/ pc[p] \in {"renamed", "next", "exit", "killed"}

\* The name of the backup.
Named(p) ==
  /\ Backup(p) = "none" => loc[p].aside = NoName
  /\ loc[p].aside # NoName =>
       \/ \E n \in Nat : loc[p].aside = Suffixed(To(p), n)
       \/ /\ Into(p) /\ Backup(p) = "simple"
          /\ loc[p].aside = [Suffixed(To(p), 0) EXCEPT !.dir = Cwd]
  /\ pc[p] \in {"backup", "aside"} /\ Backup(p) # "numbered" => From(p) # Suffixed(To(p), 0)
  /\ pc[p] = "aside" => loc[p].aside # NoName /\ (Backup(p) = "numbered" => loc[p].aside # Suffixed(To(p), 0))
  /\ pc[p] \in {"lookup"} \cup Acted /\ loc[p].aside # NoName =>
       From(p) # loc[p].aside /\ From(p) # Beside(p)

InPlace(p) == Exists(From(p)) /\ dir[From(p)] = Whole(p)
Brought(p) == Holds(To(p), Whole(p))
Gone(p) == Moves(p) => ~ Exists(From(p))

\* What is to be copied stays whole, until it is at the destination.
Disk(p) ==
  /\ data[Whole(p)] = Whole(p)
  /\ InPlace(p) \/ (Moves(p) /\ Brought(p))
  /\ \/ pc[p] \in {"try", "dest"} \cup Room \cup Acted
     \/ pc[p] = "source" /\ loc[p].err # "0"
     \/ loc[p].k = 0
     => InPlace(p)
  /\ pc[p] \in Room \cup Acted => From(p) # To(p)
  /\ pc[p] \in {"record", "remove"} \/ (pc[p] = "untemp" /\ loc[p].then = "record")
       => Brought(p)
  /\ pc[p] = "swap" => Exists(Temp(p)) /\ dir[Temp(p)] = Whole(p)
  /\ \/ pc[p] \in {"backup", "aside", "unlink"}
     \/ pc[p] \in {"source", "dest"} /\ loc[p].err = "EEXIST"
     => Exists(To(p))
  /\ pc[p] \in Chosen /\ ~ loc[p].new =>
       Backup(p) = "none" /\ Exists(To(p)) /\ dir[To(p)] # Whole(p)
  /\ pc[p] = "create" => loc[p].in = Whole(p)
  /\ pc[p] = "write" => /\ Exists(To(p)) /\ loc[p].out = dir[To(p)]
                        /\ loc[p].out # Whole(p) /\ loc[p].in = Whole(p)

\* What the destination held before is under its name until it is moved aside.
Aside(p) ==
  BacksUp(p) /\ Overwrites(p, 1) =>
    /\ data[Old(p)] = Old(p)
    /\ \/ Exists(To(p)) /\ dir[To(p)] = Old(p)
       \/ loc[p].aside # NoName /\ Exists(loc[p].aside) /\ dir[loc[p].aside] = Old(p)
    /\ pc[p] \in {"try", "source", "dest", "backup", "aside"} \/ loc[p].k = 0 =>
         Exists(To(p)) /\ dir[To(p)] = Old(p)
    /\ pc[p] \in {"lookup"} \cup Acted =>
         loc[p].aside # NoName /\ Exists(loc[p].aside) /\ dir[loc[p].aside] = Old(p)
    /\ pc[p] = "write" => loc[p].out # Old(p)

There(p) ==
  Overwrites(p, 1) /\ Atomically(p, 1) => Exists(To(p)) /\ data[dir[To(p)]] # Torn

\* The destination was not a link to the source.
Apart(p) == Overwrites(p, 1) => Old(p) # Whole(p)

\* What a success tells.
Told(p) ==
  Apart(p) =>
    /\ \/ pc[p] \in {"try", "dest", "rename"} \cup Room
       \/ pc[p] = "source" /\ loc[p].err # "0"
       \/ loc[p].k = 0
       => (Exists(To(p)) => dir[To(p)] # Whole(p))
    /\ pc[p] = "renamed" \/ (pc[p] = "source" /\ loc[p].err = "0") =>
         Brought(p) /\ Gone(p)
    /\ (pc[p] = "next" /\ loc[p].k = 1) \/ pc[p] = "exit" =>
         (ok[p] /\ ~ Keeps(p) /\ ~ Cmd(p).update => Brought(p) /\ Gone(p))

One(p) == Way(p) /\ Named(p) /\ Disk(p) /\ Aside(p) /\ There(p) /\ Told(p)
OneInv ==
  /\ Shape /\ ok \in [Procs -> BOOLEAN] /\ IsFiniteSet(DOMAIN dir)
  /\ \A p \in Running : One(p)

-----------------------------------------------------------------------------
(* The names of one file.                                                  *)

LEMMA OneCase ==
  ASSUME case \in Cases, OneFile, NEW p \in Running
  PROVE  /\ p \in Procs /\ \A q \in Running : q = p
         /\ From(p) \in DOMAIN case.dir /\ From(p) \in Name /\ To(p) \in Name
         /\ Whole(p) \in Inodes /\ (Overwrites(p, 1) => Old(p) \in Inodes)
         /\ Len(Operands(p)) = 1 /\ Numbered(p) = {1} /\ ~ HasTables(p)
         /\ ~ (Moves(p) /\ Links(p))
         /\ From(p).base # "Cu" /\ To(p).base # "Cu"
         /\ Into(p) => To(p).sfx = From(p).sfx
<1>1. p \in DOMAIN case.cmd /\ DOMAIN case.cmd \subseteq Procs
  BY CopyAssumption DEF Running
<1>2. /\ Len(Operands(p)) = 1 /\ From(p) \in DOMAIN case.dir
      /\ ~ (Moves(p) /\ Links(p))
      /\ \A n \in DOMAIN case.dir \cup {To(p)} : n.base # "Cu"
  BY DEF OneFile, From, To
<1>3. /\ DOMAIN case.dir \subseteq Name /\ case.cmd[p].to \in Name
      /\ case.cmd[p].from[1] \in Name
  BY <1>1, <1>2, NameAssumption DEF Operands, Cmd
<1>4. From(p) \in Name /\ From(p) = case.cmd[p].from[1]
  BY <1>3 DEF From, Source, Operands, Cmd
<1>5. /\ To(p) \in Name
      /\ Into(p) => To(p).sfx = From(p).sfx
  <2>1. CASE Into(p)
    <3>1. To(p) = [From(p) EXCEPT !.dir = case.cmd[p].to.dir]
      BY <2>1 DEF To, Dest, From, Cmd
    <3>2. case.cmd[p].to.dir \in DOMAIN Device
      BY <1>3 DEF Name
    <3> QED BY <1>4, <3>1, <3>2 DEF Name
  <2>2. CASE ~ Into(p)
    BY <1>3, <2>2 DEF To, Dest, Cmd
  <2> QED BY <2>1, <2>2
<1>6. Whole(p) \in Inodes /\ (Overwrites(p, 1) => Old(p) \in Inodes)
  BY <1>2, CopyAssumption DEF Whole, Content, From, Old, Overwrites, To
<1>7. Numbered(p) = {1} /\ ~ HasTables(p)
  BY <1>2 DEF Numbered, HasTables
<1> QED BY <1>1, <1>2, <1>4, <1>5, <1>6, <1>7 DEF OneFile, Alone

LEMMA Backups ==
  ASSUME NEW t \in Name, NEW n \in Nat
  PROVE  /\ Suffixed(t, n) \in Name
         /\ Suffixed(t, n).dir = t.dir /\ Suffixed(t, n).base = t.base
         /\ Suffixed(t, n).sfx = Append(t.sfx, n)
         /\ Suffixed(t, n).sfx # t.sfx
         /\ Len(Suffixed(t, n).sfx) \in Nat \ {0}
         /\ Suffixed(t, n).sfx[Len(Suffixed(t, n).sfx)] = n
<1> DEFINE s == Append(t.sfx, n)
<1>1. t.sfx \in Seq(Nat) /\ t = [dir |-> t.dir, base |-> t.base, sfx |-> t.sfx]
      /\ t.dir \in DOMAIN Device /\ t.base \in STRING
  BY DEF Name
<1>2. /\ s \in Seq(Nat) /\ Len(s) = Len(t.sfx) + 1 /\ Len(t.sfx) \in Nat
      /\ s[Len(t.sfx) + 1] = n
  BY <1>1
<1> HIDE DEF s
<1>3. Suffixed(t, n) = [dir |-> t.dir, base |-> t.base, sfx |-> s]
  <2>1. Suffixed(t, n) = [t EXCEPT !.sfx = s]
    BY DEF Suffixed, s
  <2>2. DOMAIN t = {"dir", "base", "sfx"}
    BY <1>1
  <2> QED BY <2>1, <2>2
<1>4. s # t.sfx
  BY <1>2
<1> QED BY <1>1, <1>2, <1>3, <1>4 DEF Name, s

\* A backup is not at the destination, nor where un_backup looks for it.
LEMMA AsideName ==
  ASSUME case \in Cases, OneFile, NEW p \in Running, Named(p), loc[p].aside # NoName
  PROVE  /\ loc[p].aside # To(p) /\ Beside(p) # To(p)
         /\ loc[p].aside.base # "Cu" /\ Beside(p).base # "Cu"
         /\ BacksUp(p) => Beside(p) = loc[p].aside
<1>1. To(p) \in Name /\ To(p).base # "Cu"
  BY OneCase
<1>2. PICK n \in Nat :
        \/ loc[p].aside = Suffixed(To(p), n)
        \/ /\ Into(p) /\ Backup(p) = "simple"
           /\ loc[p].aside = [Suffixed(To(p), n) EXCEPT !.dir = Cwd]
  BY DEF Named
<1> DEFINE s == Suffixed(To(p), n)
<1>3. /\ s \in Name /\ s.dir = To(p).dir /\ s.base = To(p).base /\ s.sfx # To(p).sfx
  BY <1>1, Backups
<1> HIDE DEF s
<1>4. [s EXCEPT !.dir = To(p).dir] = s
  BY <1>3 DEF Name
<1>5. CASE loc[p].aside = s
  BY <1>1, <1>3, <1>4, <1>5 DEF Beside
<1>6. CASE /\ Into(p) /\ Backup(p) = "simple"
           /\ loc[p].aside = [s EXCEPT !.dir = Cwd]
  <2>1. /\ loc[p].aside.base = s.base /\ loc[p].aside.sfx = s.sfx
    BY <1>3, <1>6 DEF Name
  <2>2. Beside(p).base = s.base /\ Beside(p).sfx = s.sfx
    BY <1>3, <1>6 DEF Name, Beside
  <2> QED BY <1>1, <1>3, <1>6, <2>1, <2>2 DEF BacksUp
<1> QED BY <1>2, <1>5, <1>6 DEF s

-----------------------------------------------------------------------------
(* What a call does to a directory.                                        *)

LEMMA WithoutIs ==
  ASSUME NEW d, NEW n
  PROVE  /\ DOMAIN Without(d, n) = DOMAIN d \ {n}
         /\ \A m \in DOMAIN d \ {n} : Without(d, n)[m] = d[m]
         /\ IsFiniteSet(DOMAIN d) => IsFiniteSet(DOMAIN Without(d, n))
<1>1. DOMAIN Without(d, n) = DOMAIN d \ {n}
  BY DEF Without
<1>2. IsFiniteSet(DOMAIN d) => IsFiniteSet(DOMAIN Without(d, n))
  BY <1>1, FS_RemoveElement
<1> QED BY <1>1, <1>2 DEF Without

LEMMA EnteredIs ==
  ASSUME NEW d, NEW n, NEW i
  PROVE  /\ DOMAIN Entered(d, n, i) = DOMAIN d \cup {n}
         /\ Entered(d, n, i)[n] = i
         /\ \A m \in DOMAIN d : m # n => Entered(d, n, i)[m] = d[m]
         /\ IsFiniteSet(DOMAIN d) => IsFiniteSet(DOMAIN Entered(d, n, i))
<1>1. DOMAIN Entered(d, n, i) = DOMAIN d \cup {n}
  BY DEF Entered
<1>2. IsFiniteSet(DOMAIN d) => IsFiniteSet(DOMAIN Entered(d, n, i))
  BY <1>1, FS_AddElement
<1> QED BY <1>1, <1>2 DEF Entered

\* After a rename the new name stands for what the old one did, and the old one is gone
\* unless they were links.
LEMMA RenamedIs ==
  ASSUME NEW d, NEW f \in DOMAIN d, NEW t, t # f, NEW e, e = Renamed(d, f, t)
  PROVE  /\ t \in DOMAIN e /\ e[t] = d[f]
         /\ DOMAIN e \subseteq DOMAIN d \cup {t}
         /\ \A m \in DOMAIN d : m \notin {f, t} => m \in DOMAIN e /\ e[m] = d[m]
         /\ f \in DOMAIN e => t \in DOMAIN d /\ d[t] = d[f] /\ e[f] = d[f]
         /\ \A m \in DOMAIN e : m # t => e[m] = d[m]
         /\ IsFiniteSet(DOMAIN d) => IsFiniteSet(DOMAIN e)
<1>1. CASE t \in DOMAIN d /\ d[t] = d[f]
  BY <1>1 DEF Renamed
<1>2. CASE ~ (t \in DOMAIN d /\ d[t] = d[f])
  <2> DEFINE w == Without(d, f)
  <2>1. /\ DOMAIN w = DOMAIN d \ {f} /\ \A m \in DOMAIN w : w[m] = d[m]
        /\ IsFiniteSet(DOMAIN d) => IsFiniteSet(DOMAIN w)
    BY WithoutIs
  <2> DEFINE i == d[f]
  <2>2. e = Entered(w, t, i)
    BY <1>2 DEF Renamed
  <2> HIDE DEF w, i
  <2>3. /\ DOMAIN e = DOMAIN w \cup {t} /\ e[t] = i
        /\ \A m \in DOMAIN w : m # t => e[m] = w[m]
    BY <2>2 DEF Entered
  <2>4. IsFiniteSet(DOMAIN w) => IsFiniteSet(DOMAIN e)
    BY <2>3, FS_AddElement
  <2> QED BY <1>2, <2>1, <2>3, <2>4 DEF i
<1> QED BY <1>1, <1>2

\* What the command says does not change.
LEMMA CommandFixed ==
  ASSUME case' = case
  PROVE  /\ OneFile' = OneFile /\ Running' = Running
         /\ \A p : /\ From(p)' = From(p) /\ To(p)' = To(p) /\ Whole(p)' = Whole(p)
                   /\ Old(p)' = Old(p) /\ Moves(p)' = Moves(p) /\ Links(p)' = Links(p)
                   /\ Keeps(p)' = Keeps(p) /\ Backup(p)' = Backup(p) /\ Into(p)' = Into(p)
                   /\ BacksUp(p)' = BacksUp(p) /\ Apart(p)' = Apart(p) /\ Cmd(p)' = Cmd(p)
                   /\ Overwrites(p, 1)' = Overwrites(p, 1)
                   /\ Atomically(p, 1)' = Atomically(p, 1)
                   /\ SameDevice(From(p), To(p))' = SameDevice(From(p), To(p))
BY DEF OneFile, Alone, Running, Operands, From, To, Whole, Content, Old, Moves, Links, Keeps,
       Backup, Into, BacksUp, Apart, Cmd, Overwrites, Atomically, SameDevice, Source, Dest

\* Only the process at work takes a step, and its operand is the first.
LEMMA AtFirst ==
  ASSUME OneInv, OneFile, NEW p \in Procs, pc[p] \notin {"next", "exit", "killed"}
  PROVE  /\ p \in Running /\ One(p) /\ loc[p].k = 1
         /\ Src(p) = From(p) /\ Dst(p) = To(p) /\ LastFile(p)
<1>1. p \in Running
  BY DEF OneInv, Shape
<1>2. One(p) /\ loc[p].k = 1 /\ Len(Operands(p)) = 1
  BY <1>1, OneCase DEF OneInv, Shape, One, Way
<1> QED BY <1>1, <1>2 DEF Src, Dst, From, To, LastFile

\* A step of p keeps the invariant when it keeps that of p.
LEMMA OneStep ==
  ASSUME OneInv, OneFile, NEW p \in Running, Others(p), ok' \in [Procs -> BOOLEAN],
         DOMAIN data' = Inodes, \A n \in DOMAIN dir' : dir'[n] \in Inodes,
         IsFiniteSet(DOMAIN dir'), One(p)'
  PROVE  OneInv'
<1>1. \A q \in Running : q = p
  BY DEF OneFile, Alone
<1>2. Running' = Running /\ Running \subseteq Procs
  BY CommandFixed, CopyAssumption DEF Others, OneInv, Shape, Running
<1>3. Shape'
  BY <1>2 DEF Others, OneInv, Shape
<1> QED BY <1>1, <1>2, <1>3 DEF OneInv

-----------------------------------------------------------------------------
(* The steps of one file.                                                  *)

LEMMA NextOperandOne ==
  ASSUME OneInv, OneFile, NEW p \in Procs, NextOperand(p)
  PROVE  OneInv'
<1>1. p \in Running /\ One(p) /\ pc[p] = "next" /\ Len(Operands(p)) = 1
  BY OneCase DEF OneInv, Shape, NextOperand, At
<1>2. Others(p) /\ UNCHANGED <<dir, data, ok, copies>> /\ case' = case
  BY <1>1 DEF NextOperand, Go, Files, Tables, Others, OneInv, Shape, Fields, Fresh
<1>3. loc[p].k = 0 \/ loc[p].k = 1
  BY <1>1 DEF One, Way
<1>4. CASE loc[p].k = 0
  <2>1. loc' = [loc EXCEPT ![p] = Fresh(1)]
        /\ pc' = [pc EXCEPT ![p] = IF Moves(p) THEN "try" ELSE "source"]
    BY <1>1, <1>4 DEF NextOperand, Go
  <2>2. loc'[p] = Fresh(1) /\ pc'[p] = (IF Moves(p) THEN "try" ELSE "source")
    BY <1>1, <2>1 DEF OneInv, Shape
  <2>3. /\ loc'[p].k = 1 /\ loc'[p].err = "" /\ loc'[p].earlier = NoName /\ ~ loc'[p].renamed
        /\ loc'[p].aside = NoName
    BY <2>2, FreshFields
  <2>4. Way(p)' /\ Named(p)'
    BY <1>1, <1>2, <1>4, <2>2, <2>3, CommandFixed DEF One, Way, Named, Room, Acted
  <2>5. Disk(p)' /\ Aside(p)'
    BY <1>1, <1>2, <1>4, <2>2, <2>3, CommandFixed
    DEF One, Disk, Aside, InPlace, Brought, Holds, Exists, Room, Acted, Chosen
  <2>6. There(p)' /\ Told(p)'
    BY <1>1, <1>2, <1>4, <2>2, <2>3, CommandFixed
    DEF One, There, Told, Brought, Gone, Holds, Exists, Room
  <2> QED BY <1>1, <1>2, <2>4, <2>5, <2>6, OneStep DEF One, OneInv, Shape
<1>5. CASE loc[p].k = 1
  <2>1. loc' = loc /\ pc' = [pc EXCEPT ![p] = "exit"]
    BY <1>1, <1>5 DEF NextOperand, Go
  <2>2. loc'[p] = loc[p] /\ pc'[p] = "exit"
    BY <1>1, <2>1 DEF OneInv, Shape
  <2>3. Way(p)' /\ Named(p)'
    BY <1>1, <1>2, <1>5, <2>2, CommandFixed DEF One, Way, Named, Room, Acted
  <2>4. Disk(p)' /\ Aside(p)'
    BY <1>1, <1>2, <1>5, <2>2, CommandFixed
    DEF One, Disk, Aside, InPlace, Brought, Holds, Exists, Room, Acted, Chosen
  <2>5. There(p)' /\ Told(p)'
    BY <1>1, <1>2, <1>5, <2>2, CommandFixed
    DEF One, There, Told, Brought, Gone, Holds, Exists, Room
  <2> QED BY <1>1, <1>2, <2>3, <2>4, <2>5, OneStep DEF One, OneInv, Shape
<1> QED BY <1>3, <1>4, <1>5

LEMMA TryRenameOne ==
  ASSUME OneInv, OneFile, NEW p \in Procs, TryRename(p)
  PROVE  OneInv'
<1>0. pc[p] = "try"
  BY DEF TryRename, At
<1>1. /\ p \in Running /\ One(p) /\ loc[p].k = 1 /\ Src(p) = From(p) /\ Dst(p) = To(p)
  BY <1>0, AtFirst
<1>2. PICK err \in {"EXDEV", "EEXIST", "0", "EACCES"} :
        /\ loc' = [loc EXCEPT ![p].err = err, ![p].new = (err = "0"), ![p].renamed = (err = "0")]
        /\ err = "EXDEV" => ~ SameDevice(From(p), To(p))
        /\ err = "EEXIST" => Exists(To(p))
        /\ err = "0" => /\ Exists(From(p)) /\ ~ Exists(To(p))
                        /\ dir' = Renamed(dir, From(p), To(p))
        /\ err # "0" => dir' = dir
  <2>1. Exists(From(p))
    BY <1>0, <1>1 DEF One, Disk, InPlace
  <2> QED BY <1>1, <2>1 DEF TryRename, Vacant
<1>3. pc' = [pc EXCEPT ![p] = "source"] /\ UNCHANGED << case, data, ok, copies >>
  BY DEF TryRename, Go, Tables
<1>4. Others(p)
  BY <1>1, <1>2, <1>3, FieldNames DEF Others, OneInv, Shape
<1>5. /\ pc'[p] = "source" /\ loc'[p].k = 1 /\ loc'[p].err = err /\ loc'[p].aside = loc[p].aside
      /\ loc'[p].earlier = loc[p].earlier /\ (err = "0" <=> loc'[p].renamed)
      /\ copies'[p] = copies[p]
  BY <1>1, <1>2, <1>3, FieldNames DEF OneInv, Shape
<1>6. Way(p)' /\ Named(p)'
  BY <1>0, <1>1, <1>2, <1>3, <1>5, CommandFixed DEF One, Way, Named, Room, Acted
<1>7. CASE err # "0"
  <2>1. dir' = dir
    BY <1>2, <1>7
  <2>2. Disk(p)' /\ Aside(p)'
    BY <1>0, <1>1, <1>2, <1>3, <1>5, <1>7, <2>1, CommandFixed
    DEF One, Disk, Aside, InPlace, Brought, Holds, Exists, Room, Acted, Chosen
  <2>3. There(p)' /\ Told(p)'
    BY <1>0, <1>1, <1>3, <1>5, <1>7, <2>1, CommandFixed
    DEF One, There, Told, Brought, Gone, Holds, Exists, Room
  <2> QED BY <1>1, <1>3, <1>4, <1>6, <2>1, <2>2, <2>3, OneStep DEF One, OneInv, Shape
<1>8. CASE err = "0"
  <2>1. /\ From(p) \in DOMAIN dir /\ To(p) \notin DOMAIN dir /\ dir[From(p)] = Whole(p)
        /\ dir' = Renamed(dir, From(p), To(p)) /\ To(p) # From(p)
    BY <1>0, <1>1, <1>2, <1>8 DEF Exists, One, Disk, InPlace
  <2>2. /\ To(p) \in DOMAIN dir' /\ dir'[To(p)] = Whole(p) /\ From(p) \notin DOMAIN dir'
        /\ \A m \in DOMAIN dir' : m # To(p) => m \in DOMAIN dir /\ dir'[m] = dir[m]
        /\ IsFiniteSet(DOMAIN dir')
    BY <2>1, RenamedIs DEF OneInv
  <2>3. Disk(p)' /\ Aside(p)'
    BY <1>0, <1>1, <1>3, <1>5, <1>8, <2>1, <2>2, CommandFixed
    DEF One, Disk, Aside, InPlace, Brought, Holds, Exists, Room, Acted, Chosen, Way
  <2>4. There(p)' /\ Told(p)'
    BY <1>0, <1>1, <1>3, <1>5, <1>8, <2>1, <2>2, CommandFixed
    DEF One, Disk, There, Told, Brought, Gone, Holds, Exists, Room
  <2>5. \A n \in DOMAIN dir' : dir'[n] \in Inodes
    BY <2>1, <2>2 DEF OneInv, Shape
  <2> QED BY <1>1, <1>3, <1>4, <1>6, <2>2, <2>3, <2>4, <2>5, OneStep DEF One, OneInv, Shape
<1> QED BY <1>7, <1>8

LEMMA StatSourceOne ==
  ASSUME OneInv, OneFile, NEW p \in Procs, StatSource(p)
  PROVE  OneInv'
<1>0. pc[p] = "source"
  BY DEF StatSource, At
<1>1. /\ p \in Running /\ One(p) /\ loc[p].k = 1 /\ Src(p) = From(p) /\ LastFile(p)
      /\ ~ HasTables(p)
  BY <1>0, AtFirst, OneCase DEF OneInv, Shape
<1>2. UNCHANGED << case, dir, data, copies, faults >>
  BY DEF StatSource, Files
<1>3. /\ ok' = ok
      /\ pc' = [pc EXCEPT ![p] = IF loc[p].err = "0" THEN "renamed" ELSE "dest"]
      /\ \/ loc' = loc /\ (loc[p].err = "0" \/ (loc[p].err = "EEXIST" /\ Keeps(p)))
         \/ /\ loc[p].err # "0"
            /\ loc' = [loc EXCEPT ![p].src = dir[From(p)], ![p].nlink = Nlink(dir[From(p)])]
  <2>1. CASE SkipsStat(p)
    BY <1>1, <2>1 DEF StatSource, Go, SkipsStat
  <2>2. CASE ~ SkipsStat(p)
    <3>1. loc[p].err # "0" /\ Exists(From(p))
      BY <1>0, <1>1, <2>2 DEF SkipsStat, One, Disk, InPlace
    <3>2. ~ GivenTwice(p, dir[From(p)])
      BY <1>1 DEF GivenTwice
    <3> QED BY <1>1, <2>2, <3>1, <3>2 DEF StatSource, Go
  <2> QED BY <2>1, <2>2
<1>4. Others(p)
  BY <1>1, <1>2, <1>3, FieldNames DEF Others, OneInv, Shape
<1>5. /\ pc'[p] = (IF loc[p].err = "0" THEN "renamed" ELSE "dest")
      /\ loc'[p].k = 1 /\ loc'[p].err = loc[p].err /\ loc'[p].aside = loc[p].aside
      /\ loc'[p].earlier = loc[p].earlier /\ loc'[p].renamed = loc[p].renamed
      /\ \/ loc[p].err = "0" \/ (loc[p].err = "EEXIST" /\ Keeps(p))
         \/ loc'[p].src = dir[From(p)]
  BY <1>1, <1>3, FieldNames DEF OneInv, Shape
<1>6. loc[p].err # "0" => dir[From(p)] = Whole(p)
  BY <1>0, <1>1 DEF One, Disk, InPlace
<1>7. Way(p)' /\ Named(p)'
  BY <1>0, <1>1, <1>2, <1>5, <1>6, CommandFixed DEF One, Way, Named, Room, Acted
<1>8. Disk(p)' /\ Aside(p)'
  BY <1>0, <1>1, <1>2, <1>5, CommandFixed
  DEF One, Disk, Aside, InPlace, Brought, Holds, Exists, Room, Acted, Chosen
<1>9. There(p)' /\ Told(p)'
  BY <1>0, <1>1, <1>2, <1>5, CommandFixed
  DEF One, There, Told, Brought, Gone, Holds, Exists, Room
<1> QED BY <1>1, <1>2, <1>3, <1>4, <1>7, <1>8, <1>9, OneStep DEF One, OneInv, Shape

\* The file stays where it is: copy returns and nothing has changed on disk.
LEMMA Returned ==
  ASSUME OneInv, OneFile, NEW p \in Running, One(p), Others(p), UNCHANGED << dir, data >>,
         NEW good \in BOOLEAN, ok' = [ok EXCEPT ![p] = @ /\ good],
         loc[p].k = 1, pc'[p] = "next", loc'[p].k = 1, loc'[p].earlier = NoName,
         loc'[p].err = loc[p].err,
         loc'[p].aside = loc[p].aside \/ (loc'[p].aside = NoName /\ pc[p] \in {"aside"}),
         good /\ Apart(p) /\ ~ Keeps(p) /\ ~ Cmd(p).update => Brought(p) /\ Gone(p)
  PROVE  OneInv'
<1>0. /\ case' = case
      /\ ok' \in [Procs -> BOOLEAN] /\ (ok'[p] => good)
  BY OneCase DEF Others, OneInv, Shape
<1>1. Way(p)' /\ Named(p)'
  BY <1>0, CommandFixed DEF One, Way, Named, Room, Acted
<1>2. Disk(p)'
  BY <1>0, CommandFixed DEF One, Disk, InPlace, Brought, Holds, Exists, Room, Acted, Chosen
<1>3. Aside(p)'
  BY <1>0, CommandFixed DEF One, Aside, Exists, Room, Acted
<1>4. There(p)'
  BY <1>0, CommandFixed DEF One, There, Exists
<1>5. Told(p)'
  BY <1>0, CommandFixed DEF One, Told, Brought, Gone, Holds, Exists, Room
<1> QED BY <1>0, <1>1, <1>2, <1>3, <1>4, <1>5, OneStep DEF One, OneInv, Shape

\* What same_file_ok and the other checks let through: another name, and if it is to be
\* written to, another file.
LEMMA Passed ==
  ASSUME OneInv, OneFile, NEW p \in Running, One(p), pc[p] = "dest", loc[p].k = 1,
         Src(p) = From(p), Dst(p) = To(p), ~ Keeps(p) \/ loc[p].err # "EEXIST",
         Exists(To(p)), Verdict(p) \in {"backup", "unlink", "lookup"}
  PROVE  /\ From(p) # To(p)
         /\ Verdict(p) = "backup" => /\ Backup(p) # "none"
                                     /\ Backup(p) # "numbered" => From(p) # Suffixed(To(p), 0)
         /\ Verdict(p) # "backup" => Backup(p) = "none"
         /\ Verdict(p) = "unlink" => ~ Moves(p) /\ (Cmd(p).removeFirst \/ Cmd(p).preserve)
         /\ Verdict(p) = "lookup" => dir[To(p)] # Whole(p)
<1>1. /\ Exists(From(p)) /\ dir[From(p)] = Whole(p) /\ loc[p].src = Whole(p)
  BY DEF One, Disk, InPlace, Way
<1>2. /\ SameFileOk(p) /\ ~ (Links(p) /\ dir[To(p)] = Whole(p))
      /\ Verdict(p) = (IF Backup(p) # "none"
                         THEN IF SourceIsBackup(p) THEN "source" ELSE "backup"
                       ELSE IF MustUnlink(p) THEN "unlink" ELSE "lookup")
  BY <1>1 DEF Verdict
<1>3. \/ dir[To(p)] # Whole(p)
      \/ Backup(p) # "none" /\ From(p) # To(p)
      \/ Backup(p) = "none" /\ ~ Moves(p) /\ Cmd(p).removeFirst /\ From(p) # To(p)
  BY <1>1, <1>2 DEF SameFileOk
<1>4. From(p) # To(p)
  BY <1>1, <1>3
<1>5. Backup(p) # "none" => ~ SourceIsBackup(p)
  BY <1>2
<1>6. Verdict(p) = "backup" /\ Backup(p) # "numbered" => From(p) # Suffixed(To(p), 0)
  BY <1>1, <1>2, <1>5 DEF SourceIsBackup
<1> QED BY <1>2, <1>3, <1>4, <1>6 DEF MustUnlink

LEMMA StatDestOne ==
  ASSUME OneInv, OneFile, NEW p \in Procs, StatDest(p)
  PROVE  OneInv'
<1>0. pc[p] = "dest"
  BY DEF StatDest, At
<1>1. /\ p \in Running /\ One(p) /\ loc[p].k = 1 /\ Src(p) = From(p) /\ Dst(p) = To(p)
      /\ ~ HasTables(p) /\ loc[p].earlier = NoName /\ loc[p].err # "0"
      /\ DOMAIN copies[p] = {} /\ loc[p].aside = NoName
  BY <1>0, AtFirst, OneCase DEF OneInv, Shape, One, Way
<1>2. UNCHANGED << case, dir, data, faults >>
  BY DEF StatDest, Files
<1> DEFINE left == Keeps(p) /\ loc[p].err = "EEXIST"
<1>3. CASE LeaveIt(p) /\ UNCHANGED copies /\ (left \/ (Exists(To(p)) /\ Verdict(p) = "leave"))
  <2>1. /\ loc' = [loc EXCEPT ![p].renamed = Moves(p)]
        /\ ok' = [ok EXCEPT ![p] = @ /\ TRUE]
    BY <1>3 DEF LeaveIt, Set, Return
  <2>2. /\ loc'[p].k = 1 /\ loc'[p].earlier = NoName /\ loc'[p].err = loc[p].err
        /\ loc'[p].aside = loc[p].aside /\ loc'[p].renamed = Moves(p)
    BY <1>1, <2>1, FieldNames DEF OneInv, Shape
  <2>3. pc' = [pc EXCEPT ![p] = "next"]
    BY <1>3, <2>2 DEF LeaveIt, Return, Go
  <2>4. Others(p) /\ pc'[p] = "next"
    BY <1>1, <1>2, <1>3, <2>1, <2>3, FieldNames DEF Others, OneInv, Shape
  <2>5. Apart(p) /\ ~ Keeps(p) => FALSE
    <3>1. SUFFICES ASSUME ~ Keeps(p), Apart(p) PROVE FALSE
      OBVIOUS
    <3>2. Exists(To(p)) /\ Verdict(p) = "leave"
      BY <1>3, <3>1
    <3>3. dir[To(p)] = loc[p].src
      BY <1>1, <3>1, <3>2 DEF Verdict
    <3>4. dir[To(p)] # Whole(p) /\ loc[p].src = Whole(p)
      BY <1>0, <1>1, <3>1, <3>2 DEF One, Told, Way
    <3> QED BY <3>3, <3>4
  <2>6. TRUE /\ Apart(p) /\ ~ Keeps(p) /\ ~ Cmd(p).update => Brought(p) /\ Gone(p)
    BY <2>5
  <2> QED BY <1>1, <1>2, <2>1, <2>2, <2>4, <2>6, Returned
<1>4. CASE /\ ~ left /\ ~ Exists(To(p))
           /\ Set(p, "new", TRUE) /\ Go(p, "lookup") /\ UNCHANGED << ok, copies >>
  <2>1. /\ loc'[p].k = 1 /\ loc'[p].earlier = NoName /\ loc'[p].err = loc[p].err
        /\ loc'[p].renamed = loc[p].renamed
        /\ loc'[p].aside = NoName /\ loc'[p].src = loc[p].src
        /\ pc'[p] = "lookup" /\ copies' = copies /\ ok' = ok
    BY <1>1, <1>4, FieldNames DEF Set, Go, OneInv, Shape
  <2>2. loc'[p].new
    BY <1>1, <1>4, FieldNames DEF Set, OneInv, Shape
  <2>3. Others(p)
    BY <1>1, <1>2, <1>4, FieldNames DEF Set, Go, Others, OneInv, Shape
  <2>4. From(p) # To(p) /\ loc[p].src = Whole(p)
    BY <1>0, <1>1, <1>4 DEF One, Disk, InPlace, Way
  <2>5. Way(p)' /\ Named(p)'
    BY <1>0, <1>1, <1>2, <2>1, <2>4, CommandFixed DEF One, Way, Named, Room, Acted
  <2>6. Disk(p)'
    BY <1>0, <1>1, <1>2, <2>1, <2>2, <2>4, CommandFixed
    DEF One, Disk, InPlace, Brought, Holds, Exists, Room, Acted, Chosen
  <2>7. Aside(p)' /\ There(p)' /\ Told(p)'
    BY <1>0, <1>1, <1>2, <1>4, <2>1, CommandFixed
    DEF One, Aside, There, Told, Brought, Gone, Holds, Exists, Room, Acted
  <2> QED BY <1>1, <1>2, <2>1, <2>3, <2>5, <2>6, <2>7, OneStep DEF One, OneInv, Shape
<1>5. CASE Cmd(p).update /\ UpToDate(p)
  <2>1. ~ Remembered(p, loc[p].src) /\ Lookup(p, loc[p].src) = NoName
    BY <1>1 DEF Remembered, Lookup
  <2>2. /\ loc' = [loc EXCEPT ![p].renamed = TRUE, ![p].earlier = NoName, ![p].then = "done"]
        /\ ok' = [ok EXCEPT ![p] = @ /\ TRUE] /\ Return(p, TRUE)
        /\ copies' = [copies EXCEPT ![p] = Entered(@, loc[p].src, Dst(p))]
    BY <1>5, <2>1 DEF UpToDate, Return, RememberCopied
  <2>3. /\ loc'[p].k = 1 /\ loc'[p].earlier = NoName /\ loc'[p].err = loc[p].err
        /\ loc'[p].aside = loc[p].aside
    BY <1>1, <2>2, FieldNames DEF OneInv, Shape
  <2>4. loc'[p].renamed
    BY <1>1, <2>2, FieldNames DEF OneInv, Shape
  <2>5. pc' = [pc EXCEPT ![p] = "next"]
    BY <2>2, <2>4 DEF Return, Go
  <2>6. Others(p) /\ pc'[p] = "next"
    BY <1>1, <1>2, <2>2, <2>5, FieldNames DEF Others, OneInv, Shape
  <2> QED BY <1>1, <1>2, <1>5, <2>2, <2>3, <2>6, Returned
<1>6. CASE UNCHANGED copies /\ Refuse(p, Verdict(p))
  <2>1. /\ loc' = [loc EXCEPT ![p].why = Verdict(p)] /\ ok' = [ok EXCEPT ![p] = @ /\ FALSE]
        /\ pc' = [pc EXCEPT ![p] = "next"]
    BY <1>6 DEF Refuse, Set, Return, Go
  <2>2. /\ loc'[p].k = 1 /\ loc'[p].earlier = NoName /\ loc'[p].err = loc[p].err
        /\ loc'[p].aside = loc[p].aside
    BY <1>1, <2>1, FieldNames DEF OneInv, Shape
  <2>3. Others(p) /\ pc'[p] = "next"
    BY <1>1, <1>2, <1>6, <2>1, FieldNames DEF Others, OneInv, Shape
  <2> QED BY <1>1, <1>2, <2>1, <2>2, <2>3, Returned
<1>7. CASE /\ ~ left /\ Exists(To(p)) /\ Verdict(p) \in {"backup", "unlink", "lookup"}
           /\ Set(p, "err", "EEXIST") /\ Go(p, Verdict(p)) /\ UNCHANGED << ok, copies >>
  <2>1. /\ loc'[p].k = 1 /\ loc'[p].earlier = NoName /\ loc'[p].err = "EEXIST"
        /\ loc'[p].renamed = loc[p].renamed
        /\ loc'[p].aside = NoName /\ loc'[p].src = loc[p].src
        /\ pc'[p] = Verdict(p) /\ copies' = copies /\ ok' = ok
    BY <1>1, <1>7, FieldNames DEF Set, Go, OneInv, Shape
  <2>2. Others(p)
    BY <1>1, <1>2, <1>7, FieldNames DEF Set, Go, Others, OneInv, Shape
  <2>3. loc[p].src = Whole(p)
    BY <1>0, <1>1, <1>7 DEF One, Way
  <2>4. /\ From(p) # To(p)
        /\ Verdict(p) = "backup" => /\ Backup(p) # "none"
                                    /\ Backup(p) # "numbered" => From(p) # Suffixed(To(p), 0)
        /\ Verdict(p) # "backup" => Backup(p) = "none"
        /\ Verdict(p) = "unlink" => ~ Moves(p) /\ (Cmd(p).removeFirst \/ Cmd(p).preserve)
        /\ Verdict(p) = "lookup" => dir[To(p)] # Whole(p)
    BY <1>0, <1>1, <1>7, Passed
  <2> DEFINE v == Verdict(p)
  <2>5. v \in {"backup", "unlink", "lookup"} /\ pc'[p] = v
    BY <1>7, <2>1
  <2>6. Suffixed(To(p), 0)' = Suffixed(To(p), 0)
    BY <1>2, CommandFixed DEF Suffixed
  <2> HIDE DEF v
  <2>7. Way(p)'
    BY <1>0, <1>1, <1>2, <2>1, <2>3, <2>4, <2>5, CommandFixed DEF One, Way, Room, Acted, v
  <2>8. Named(p)'
    BY <1>0, <1>1, <1>2, <2>1, <2>3, <2>4, <2>5, <2>6, CommandFixed
    DEF One, Named, Room, Acted, v
  <2>9. Disk(p)'
    BY <1>0, <1>1, <1>2, <1>7, <2>1, <2>4, <2>5, CommandFixed
    DEF One, Disk, InPlace, Brought, Holds, Exists, Room, Acted, Chosen, v
  <2>10. Aside(p)' /\ There(p)' /\ Told(p)'
    BY <1>0, <1>1, <1>2, <1>7, <2>1, <2>4, <2>5, CommandFixed
    DEF One, Aside, There, Told, Brought, Gone, Holds, Exists, Room, Acted, BacksUp, v
  <2> QED BY <1>1, <1>2, <2>1, <2>2, <2>7, <2>8, <2>9, <2>10, OneStep DEF One, OneInv, Shape
<1>8. Keeps(p) \/ ~ (~ Exists(To(p)) /\ loc[p].err = "EEXIST")
  BY <1>0, <1>1 DEF One, Disk
<1> QED BY <1>1, <1>3, <1>4, <1>5, <1>6, <1>7, <1>8 DEF StatDest

-----------------------------------------------------------------------------
(* The number of a backup.                                                 *)

Below == OpToRel(<, Nat)

\* The greatest is the one that has the fewest above it.
LEMMA Greatest ==
  ASSUME NEW T \in SUBSET Nat, IsFiniteSet(T), T # {}
  PROVE  Max(T) \in T
<1> DEFINE above(x) == {y \in T : y > x}
           R == {Cardinality(above(x)) : x \in T}
<1>1. R \subseteq Nat /\ R # {}
  <2>1. \A x \in T : Cardinality(above(x)) \in Nat
    BY FS_Subset, FS_CardinalityType
  <2>2. PICK x \in T : TRUE
    OBVIOUS
  <2>3. Cardinality(above(x)) \in R
    BY <2>2
  <2> QED BY <2>1, <2>3
<1>2. IsWellFoundedOn(Below, Nat)
  BY NatLessThanWellFounded DEF Below
<1>3. PICK r \in R : \A y \in R : <<y, r>> \notin Below
  <2> HIDE DEF R
  <2> QED BY <1>1, <1>2, WFMin
<1>4. PICK m \in T : r = Cardinality(above(m))
  BY <1>3
<1>5. ASSUME NEW y \in T PROVE m >= y
  <2>1. SUFFICES ASSUME y > m PROVE FALSE
    OBVIOUS
  <2>2. /\ above(y) \in SUBSET above(m) /\ y \in above(m) /\ y \notin above(y)
        /\ above(m) \in SUBSET T
    <3>1. m \in Nat /\ y \in Nat /\ ~ (y > y)
      OBVIOUS
    <3>2. ASSUME NEW e \in T, e > y PROVE e > m
      BY <2>1, <3>1, <3>2
    <3> QED BY <2>1, <3>1, <3>2
  <2> DEFINE a == above(y)
             b == above(m)
  <2>3. Cardinality(a) <= Cardinality(b) /\ Cardinality(a) # Cardinality(b)
    <3>1. a \in SUBSET b /\ a # b /\ b \in SUBSET T
      BY <2>2
    <3> HIDE DEF a, b
    <3>2. IsFiniteSet(b)
      BY <3>1, FS_Subset
    <3> QED BY <3>1, <3>2, FS_Subset
  <2>4. Cardinality(a) \in R /\ r \in R /\ r = Cardinality(b)
    BY <1>3, <1>4
  <2> HIDE DEF a, b, above, R
  <2>5. Cardinality(a) \in Nat /\ r \in Nat /\ << Cardinality(a), r >> \notin Below
    BY <1>1, <1>3, <2>4
  <2> QED BY <2>3, <2>4, <2>5 DEF Below, OpToRel
<1> QED BY <1>4, <1>5 DEF Max

\* There are finitely many numbered backups.
LEMMA NumbersFinite ==
  ASSUME IsFiniteSet(DOMAIN dir), NEW name
  PROVE  Numbers(name) \in SUBSET Nat /\ IsFiniteSet(Numbers(name))
<1> DEFINE B == {b \in DOMAIN dir : /\ b.sfx # << >> /\ b = Suffixed(name, Number(b))
                                    /\ Number(b) \in Nat \ {0}}
           f == [b \in B |-> Number(b)]
<1>1. Numbers(name) = {Number(b) : b \in B}
  BY DEF Numbers
<1>2. B \in SUBSET DOMAIN dir /\ \A b \in B : Number(b) \in Nat
  OBVIOUS
<1> HIDE DEF B
<1>3. f \in Surjection(B, Numbers(name))
  BY <1>1 DEF Surjection
<1> HIDE DEF f
<1>4. IsFiniteSet(B)
  BY <1>2, FS_Subset
<1> QED BY <1>1, <1>2, <1>3, <1>4, FS_Surjection

LEMMA BackupNamed ==
  ASSUME OneInv, OneFile, NEW p \in Running, Dst(p) = To(p)
  PROVE  /\ BackupName(p) # NoName
         /\ \/ \E n \in Nat : BackupName(p) = Suffixed(To(p), n)
            \/ /\ Into(p) /\ Backup(p) = "simple"
               /\ BackupName(p) = [Suffixed(To(p), 0) EXCEPT !.dir = Cwd]
         /\ Backup(p) = "numbered" => BackupName(p) # Suffixed(To(p), 0)
<1>0. To(p) \in Name
  BY OneCase DEF OneInv, Shape
<1>1. \A n \in Nat : Suffixed(To(p), n) # NoName
  <2>1. ASSUME NEW n \in Nat PROVE Suffixed(To(p), n) # NoName
    <3>1. Len(Suffixed(To(p), n).sfx) # 0
      BY <1>0, Backups
    <3>2. NoName.sfx = << >>
      BY DEF NoName
    <3> QED BY <3>1, <3>2
  <2> QED BY <2>1
<1>2. CASE IsNumbered(p)
  <2> DEFINE m == Max({0} \cup Numbers(To(p)))
  <2>1. Numbers(To(p)) \in SUBSET Nat /\ IsFiniteSet(Numbers(To(p)))
    BY NumbersFinite DEF OneInv
  <2>2. {0} \cup Numbers(To(p)) \in SUBSET Nat /\ IsFiniteSet({0} \cup Numbers(To(p)))
    <3> DEFINE N == Numbers(To(p))
    <3>1. N \in SUBSET Nat /\ IsFiniteSet(N)
      BY <2>1
    <3> HIDE DEF N
    <3>2. IsFiniteSet({0} \cup N)
      BY <3>1, FS_Singleton, FS_Union
    <3>3. {0} \cup N \in SUBSET Nat
      BY <3>1
    <3> QED BY <3>2, <3>3 DEF N
  <2>3. m \in Nat
    <3> DEFINE T == {0} \cup Numbers(To(p))
    <3>1. T \in SUBSET Nat /\ IsFiniteSet(T) /\ T # {}
      BY <2>2
    <3> HIDE DEF T
    <3>2. Max(T) \in T
      BY <3>1, Greatest
    <3> QED BY <3>1, <3>2 DEF T
  <2>4. BackupName(p) = Suffixed(To(p), m + 1)
    BY <1>2 DEF BackupName
  <2> HIDE DEF m
  <2> DEFINE n == m + 1
  <2>5. n \in Nat /\ n # 0 /\ BackupName(p) = Suffixed(To(p), n)
    BY <2>3, <2>4
  <2> HIDE DEF n
  <2>6. Suffixed(To(p), n) # Suffixed(To(p), 0)
    <3>1. Suffixed(To(p), n).sfx[Len(Suffixed(To(p), n).sfx)] = n
      BY <1>0, <2>5, Backups
    <3>2. Suffixed(To(p), 0).sfx[Len(Suffixed(To(p), 0).sfx)] = 0
      BY <1>0, Backups
    <3> QED BY <2>5, <3>1, <3>2
  <2> QED BY <1>1, <2>5, <2>6
<1>3. CASE ~ IsNumbered(p) /\ Backup(p) = "simple" /\ Into(p)
  <2> DEFINE s == Suffixed(To(p), 0)
  <2>1. BackupName(p) = [s EXCEPT !.dir = Cwd]
    BY <1>3 DEF BackupName
  <2>2. s \in Name /\ Len(s.sfx) # 0
    BY <1>0, Backups
  <2> HIDE DEF s
  <2>3. [s EXCEPT !.dir = Cwd].sfx = s.sfx
    BY <2>2 DEF Name
  <2>4. [s EXCEPT !.dir = Cwd] # NoName
    <3> DEFINE e == [s EXCEPT !.dir = Cwd]
    <3>1. NoName.sfx = << >>
      BY DEF NoName
    <3>2. Len(e.sfx) # 0 /\ Len(NoName.sfx) = 0
      BY <2>2, <2>3, <3>1
    <3> HIDE DEF e
    <3>3. e # NoName
      BY <3>2
    <3> QED BY <3>3 DEF e
  <2> QED BY <1>3, <2>1, <2>4 DEF s
<1>4. CASE ~ IsNumbered(p) /\ ~ (Backup(p) = "simple" /\ Into(p))
  <2>1. BackupName(p) = Suffixed(To(p), 0) /\ Backup(p) # "numbered"
    BY <1>4 DEF BackupName, IsNumbered
  <2> QED BY <1>1, <2>1
<1> QED BY <1>2, <1>3, <1>4

LEMMA NameBackupOne ==
  ASSUME OneInv, OneFile, NEW p \in Procs, NameBackup(p)
  PROVE  OneInv'
<1>0. pc[p] = "backup"
  BY DEF NameBackup, At
<1>1. /\ p \in Running /\ One(p) /\ loc[p].k = 1 /\ Dst(p) = To(p)
  BY <1>0, AtFirst
<1>2. /\ UNCHANGED << case, dir, data, copies, ok >>
      /\ loc' = [loc EXCEPT ![p].aside = BackupName(p)] /\ pc' = [pc EXCEPT ![p] = "aside"]
  BY DEF NameBackup, Files, Tables, Set, Go
<1>3. Others(p)
  BY <1>1, <1>2, FieldNames DEF Others, OneInv, Shape
<1>4. /\ loc'[p].k = 1 /\ loc'[p].earlier = loc[p].earlier /\ loc'[p].err = loc[p].err
      /\ loc'[p].renamed = loc[p].renamed
      /\ loc'[p].aside = BackupName(p) /\ loc'[p].src = loc[p].src
      /\ pc'[p] = "aside" /\ copies' = copies
  BY <1>1, <1>2, FieldNames DEF OneInv, Shape
<1>5. /\ BackupName(p) # NoName
      /\ \/ \E n \in Nat : BackupName(p) = Suffixed(To(p), n)
         \/ /\ Into(p) /\ Backup(p) = "simple"
            /\ BackupName(p) = [Suffixed(To(p), 0) EXCEPT !.dir = Cwd]
      /\ Backup(p) = "numbered" => BackupName(p) # Suffixed(To(p), 0)
  BY <1>1, BackupNamed
<1>6. \A n : Suffixed(To(p), n)' = Suffixed(To(p), n)
  BY <1>2, CommandFixed DEF Suffixed
<1>7. Way(p)'
  BY <1>0, <1>1, <1>2, <1>4, CommandFixed DEF One, Way, Room, Acted
<1>8. Named(p)'
  BY <1>0, <1>1, <1>2, <1>4, <1>5, <1>6, CommandFixed DEF One, Way, Named, Room, Acted
<1>9. Disk(p)'
  BY <1>0, <1>1, <1>2, <1>4, CommandFixed
  DEF One, Disk, InPlace, Brought, Holds, Exists, Room, Acted, Chosen
<1>10. Aside(p)' /\ There(p)' /\ Told(p)'
  BY <1>0, <1>1, <1>2, <1>4, CommandFixed
  DEF One, Aside, There, Told, Brought, Gone, Holds, Exists, Room, Acted
<1> QED BY <1>1, <1>2, <1>3, <1>7, <1>8, <1>9, <1>10, OneStep DEF One, OneInv, Shape

-----------------------------------------------------------------------------
(* Making room.                                                            *)

\* The source is not where the backup goes, nor where un_backup looks for it.
LEMMA SourceNoBackup ==
  ASSUME case \in Cases, OneFile, NEW p \in Running, Named(p), pc[p] = "aside",
         ~ Taken(p), Exists(From(p))
  PROVE  From(p) # loc[p].aside /\ From(p) # Beside(p)
<1>1. /\ To(p) \in Name /\ From(p) \in Name /\ loc[p].aside # NoName
      /\ Into(p) => To(p).sfx = From(p).sfx
  BY OneCase DEF Named
<1>2. CASE \E n \in Nat : loc[p].aside = Suffixed(To(p), n)
  <2>1. PICK n \in Nat : loc[p].aside = Suffixed(To(p), n)
    BY <1>2
  <2> DEFINE s == Suffixed(To(p), n)
  <2>2. /\ s \in Name /\ s.dir = To(p).dir /\ s.sfx[Len(s.sfx)] = n
    BY <1>1, Backups
  <2>3. [s EXCEPT !.dir = To(p).dir] = s
    BY <2>2 DEF Name
  <2>4. Beside(p) = s
    BY <2>1, <2>3 DEF Beside
  <2>5. From(p) # s
    <3>1. SUFFICES ASSUME From(p) = s PROVE FALSE
      OBVIOUS
    <3>2. n = 0
      BY <2>1, <2>2, <3>1 DEF Taken, Number
    <3> QED BY <2>1, <3>1, <3>2 DEF Named
  <2> QED BY <2>1, <2>4, <2>5
<1>3. CASE /\ Into(p) /\ Backup(p) = "simple"
           /\ loc[p].aside = [Suffixed(To(p), 0) EXCEPT !.dir = Cwd]
  <2> DEFINE s == Suffixed(To(p), 0)
  <2>1. s \in Name /\ s.sfx # To(p).sfx
    BY <1>1, Backups
  <2>2. loc[p].aside = [s EXCEPT !.dir = Cwd]
    BY <1>3
  <2> HIDE DEF s
  <2>3. loc[p].aside.sfx = s.sfx /\ Beside(p).sfx = s.sfx
    BY <2>1, <2>2 DEF Name, Beside
  <2> QED BY <1>1, <1>3, <2>1, <2>3
<1> QED BY <1>1, <1>2, <1>3 DEF Named

LEMMA MoveAsideOne ==
  ASSUME OneInv, OneFile, NEW p \in Procs, MoveAside(p)
  PROVE  OneInv'
<1>0. pc[p] = "aside"
  BY DEF MoveAside, At
<1>1. /\ p \in Running /\ One(p) /\ loc[p].k = 1 /\ Dst(p) = To(p)
      /\ loc[p].aside # NoName /\ loc[p].earlier = NoName /\ loc[p].src = Whole(p)
      /\ Exists(To(p)) /\ Exists(From(p)) /\ From(p) # To(p) /\ Backup(p) # "none"
      /\ case \in Cases
  BY <1>0, AtFirst DEF One, Named, Disk, InPlace, Way, Room, OneInv, Shape
<1>2. UNCHANGED << case, data, copies >>
  BY DEF MoveAside, Tables
<1>3. CASE /\ loc' = [loc EXCEPT ![p].aside = NoName, ![p].new = FALSE, ![p].why = "backup"]
           /\ Return(p, FALSE) /\ UNCHANGED dir
  <2>1. ok' = [ok EXCEPT ![p] = @ /\ FALSE] /\ pc' = [pc EXCEPT ![p] = "next"]
    BY <1>3 DEF Return, Go
  <2>2. /\ loc'[p].k = 1 /\ loc'[p].earlier = NoName /\ loc'[p].err = loc[p].err
        /\ loc'[p].aside = NoName
    BY <1>1, <1>3, FieldNames DEF OneInv, Shape
  <2>3. Others(p) /\ pc'[p] = "next"
    BY <1>1, <1>2, <1>3, <2>1, FieldNames DEF Others, OneInv, Shape
  <2> QED BY <1>0, <1>1, <1>2, <1>3, <2>1, <2>2, <2>3, Returned
<1>4. CASE Go(p, "backup") /\ UNCHANGED << dir, ok, loc >>
  <2>1. Others(p) /\ pc'[p] = "backup" /\ loc'[p] = loc[p]
    BY <1>1, <1>2, <1>4 DEF Go, Others, OneInv, Shape
  <2>2. \A n : Suffixed(To(p), n)' = Suffixed(To(p), n)
    BY <1>2, CommandFixed DEF Suffixed
  <2>3. Way(p)' /\ Named(p)'
    BY <1>0, <1>1, <1>2, <2>1, <2>2, CommandFixed DEF One, Way, Named, Room, Acted
  <2>4. Disk(p)'
    BY <1>0, <1>1, <1>2, <1>4, <2>1, CommandFixed
    DEF One, Disk, InPlace, Brought, Holds, Exists, Room, Acted, Chosen
  <2>5. Aside(p)' /\ There(p)' /\ Told(p)'
    BY <1>0, <1>1, <1>2, <1>4, <2>1, CommandFixed
    DEF One, Aside, There, Told, Brought, Gone, Holds, Exists, Room, Acted
  <2> QED BY <1>1, <1>2, <1>4, <2>1, <2>3, <2>4, <2>5, OneStep DEF One, OneInv, Shape
<1>5. CASE /\ ~ Taken(p) /\ dir' = Renamed(dir, To(p), loc[p].aside)
           /\ Set(p, "new", TRUE) /\ Go(p, "lookup") /\ UNCHANGED ok
  <2>1. /\ loc'[p].k = 1 /\ loc'[p].earlier = NoName /\ loc'[p].err = loc[p].err
        /\ loc'[p].renamed = loc[p].renamed
        /\ loc'[p].aside = loc[p].aside /\ loc'[p].src = Whole(p) /\ pc'[p] = "lookup"
    BY <1>1, <1>5, FieldNames DEF Set, Go, OneInv, Shape
  <2>2. loc'[p].new
    BY <1>1, <1>5, FieldNames DEF Set, OneInv, Shape
  <2>3. Others(p)
    BY <1>1, <1>2, <1>5, FieldNames DEF Set, Go, Others, OneInv, Shape
  <2>4. From(p) # loc[p].aside /\ From(p) # Beside(p) /\ loc[p].aside # To(p)
    BY <1>0, <1>1, <1>5, SourceNoBackup, AsideName DEF One
  <2> DEFINE a == loc[p].aside
  <2>5. /\ To(p) \in DOMAIN dir /\ a # To(p) /\ dir' = Renamed(dir, To(p), a)
    BY <1>1, <1>5, <2>4 DEF Exists
  <2> HIDE DEF a
  <2>6. /\ a \in DOMAIN dir' /\ dir'[a] = dir[To(p)]
        /\ \A m \in DOMAIN dir : m \notin {To(p), a} => m \in DOMAIN dir' /\ dir'[m] = dir[m]
        /\ \A m \in DOMAIN dir' : m # a => dir'[m] = dir[m]
        /\ DOMAIN dir' \subseteq DOMAIN dir \cup {a}
        /\ To(p) \in DOMAIN dir' => dir'[To(p)] = dir[To(p)]
        /\ IsFiniteSet(DOMAIN dir')
    BY <2>5, RenamedIs DEF OneInv
  <2>7. From(p) \in DOMAIN dir' /\ dir'[From(p)] = dir[From(p)]
    BY <1>1, <2>4, <2>6 DEF Exists, a
  <2>8. Beside(p)' = Beside(p) /\ \A n : Suffixed(To(p), n)' = Suffixed(To(p), n)
    BY <1>2, <2>1, CommandFixed DEF Beside, Suffixed
  <2>9. Way(p)'
    BY <1>0, <1>1, <1>2, <2>1, CommandFixed DEF One, Way, Room, Acted
  <2>10. Named(p)'
    BY <1>0, <1>1, <1>2, <2>1, <2>4, <2>8, CommandFixed DEF One, Named, Room, Acted
  <2>11. Disk(p)'
    BY <1>0, <1>1, <1>2, <2>1, <2>2, <2>7, CommandFixed
    DEF One, Disk, InPlace, Exists, Room, Acted, Chosen
  <2>12. Aside(p)'
    BY <1>0, <1>1, <1>2, <2>1, <2>6, CommandFixed DEF One, Aside, Exists, Room, Acted, a
  <2>13. There(p)'
    BY <1>1, <1>2, CommandFixed DEF There, Atomically
  <2>14. Told(p)'
    BY <1>0, <1>1, <1>2, <2>1, <2>6, CommandFixed DEF One, Told, Exists, Room
  <2>15. \A n \in DOMAIN dir' : dir'[n] \in Inodes
    BY <2>5, <2>6 DEF OneInv, Shape
  <2> QED BY <1>1, <1>2, <1>5, <2>3, <2>6, <2>9, <2>10, <2>11, <2>12, <2>13, <2>14, <2>15,
             OneStep DEF One, OneInv, Shape
<1> QED
  <2>1. ~ ("backup" = "")
    OBVIOUS
  <2> QED BY <1>1, <1>3, <1>4, <1>5, <2>1 DEF MoveAside

LEMMA UnlinkDestOne ==
  ASSUME OneInv, OneFile, NEW p \in Procs, UnlinkDest(p)
  PROVE  OneInv'
<1>0. pc[p] = "unlink"
  BY DEF UnlinkDest, At
<1>1. /\ p \in Running /\ One(p) /\ loc[p].k = 1 /\ Dst(p) = To(p)
      /\ loc[p].aside = NoName /\ loc[p].earlier = NoName /\ loc[p].src = Whole(p)
      /\ Exists(From(p)) /\ From(p) # To(p) /\ Backup(p) = "none"
      /\ ~ Moves(p) /\ (Cmd(p).removeFirst \/ Cmd(p).preserve)
  BY <1>0, AtFirst DEF One, Named, Disk, InPlace, Way, Room
<1>2. UNCHANGED << case, data, copies >>
  BY DEF UnlinkDest, Tables
<1>3. CASE Refuse(p, "unlink") /\ UNCHANGED dir
  <2>1. /\ loc' = [loc EXCEPT ![p].why = "unlink"] /\ ok' = [ok EXCEPT ![p] = @ /\ FALSE]
        /\ pc' = [pc EXCEPT ![p] = "next"]
    BY <1>3 DEF Refuse, Set, Return, Go
  <2>2. /\ loc'[p].k = 1 /\ loc'[p].earlier = NoName /\ loc'[p].err = loc[p].err
        /\ loc'[p].aside = loc[p].aside
    BY <1>1, <2>1, FieldNames DEF OneInv, Shape
  <2>3. Others(p) /\ pc'[p] = "next"
    BY <1>1, <1>2, <1>3, <2>1, FieldNames DEF Others, OneInv, Shape
  <2> QED BY <1>1, <1>2, <1>3, <2>1, <2>2, <2>3, Returned
<1>4. CASE /\ dir' = Without(dir, To(p)) /\ UNCHANGED ok
           /\ loc' = [loc EXCEPT ![p].new = TRUE] /\ pc' = [pc EXCEPT ![p] = "lookup"]
  <2>1. /\ loc'[p].k = 1 /\ loc'[p].earlier = NoName /\ loc'[p].err = loc[p].err
        /\ loc'[p].renamed = loc[p].renamed
        /\ loc'[p].aside = NoName /\ loc'[p].src = Whole(p) /\ pc'[p] = "lookup"
    BY <1>1, <1>2, <1>4, FieldNames DEF OneInv, Shape
  <2>2. loc'[p].new
    BY <1>1, <1>2, <1>4, FieldNames DEF OneInv, Shape
  <2>3. Others(p)
    BY <1>1, <1>2, <1>4, FieldNames DEF Others, OneInv, Shape
  <2>4. /\ DOMAIN dir' = DOMAIN dir \ {To(p)} /\ \A m \in DOMAIN dir' : dir'[m] = dir[m]
        /\ IsFiniteSet(DOMAIN dir')
    BY <1>2, <1>4, WithoutIs DEF OneInv
  <2>5. Way(p)' /\ Named(p)'
    BY <1>0, <1>1, <1>2, <1>4, <2>1, CommandFixed DEF One, Way, Named, Room, Acted
  <2>6. Disk(p)'
    BY <1>0, <1>1, <1>2, <1>4, <2>1, <2>2, <2>4, CommandFixed
    DEF One, Disk, InPlace, Exists, Room, Acted, Chosen
  <2>7. Aside(p)'
    BY <1>1, <1>2, <1>4, CommandFixed DEF Aside, BacksUp
  <2>8. There(p)'
    BY <1>1, <1>2, <1>4, CommandFixed DEF There, Atomically
  <2>9. Told(p)'
    BY <1>0, <1>1, <1>2, <1>4, <2>1, <2>4, CommandFixed DEF One, Told, Exists, Room
  <2>10. \A n \in DOMAIN dir' : dir'[n] \in Inodes
    BY <2>4 DEF OneInv, Shape
  <2> QED BY <1>1, <1>2, <1>4, <2>3, <2>4, <2>5, <2>6, <2>7, <2>8, <2>9, <2>10, OneStep
          DEF One, OneInv, Shape
<1> QED BY <1>1, <1>3, <1>4 DEF UnlinkDest, Set, Go

LEMMA FindEarlierOne ==
  ASSUME OneInv, OneFile, NEW p \in Procs, FindEarlier(p)
  PROVE  OneInv'
<1>0. pc[p] = "lookup"
  BY DEF FindEarlier, At
<1>1. /\ p \in Running /\ One(p) /\ loc[p].k = 1 /\ Dst(p) = To(p)
      /\ loc[p].src = Whole(p) /\ DOMAIN copies[p] = {} /\ p \in DOMAIN loc /\ p \in DOMAIN pc
  BY <1>0, AtFirst DEF One, Way, Room, OneInv, Shape
<1>2. Lookup(p, loc[p].src) = NoName
  BY <1>1 DEF Lookup, Remembered
<1>3. /\ UNCHANGED << case, dir, data, ok >>
      /\ loc' = [loc EXCEPT ![p].earlier = NoName, ![p].then = "record"]
      /\ pc' = [pc EXCEPT ![p] = IF Links(p) THEN "link" ELSE IF Moves(p) THEN "rename" ELSE "open"]
      /\ (IF Enters(p) THEN RememberCopied(p, loc[p].src, Dst(p)) ELSE UNCHANGED copies)
  BY <1>2 DEF FindEarlier, Files, Go
<1>4. /\ loc'[p].k = 1 /\ loc'[p].earlier = NoName /\ loc'[p].err = loc[p].err
      /\ loc'[p].renamed = loc[p].renamed
      /\ loc'[p].aside = loc[p].aside /\ loc'[p].src = Whole(p) /\ loc'[p].then = "record"
  BY <1>1, <1>3, FieldNames DEF OneInv, Shape
<1>5. loc'[p].new = loc[p].new
  BY <1>1, <1>3, FieldNames DEF OneInv, Shape
<1>6. pc'[p] = (IF Links(p) THEN "link" ELSE IF Moves(p) THEN "rename" ELSE "open")
  BY <1>1, <1>3
<1>7. Others(p)
  BY <1>1, <1>3, FieldNames DEF RememberCopied, Others, OneInv, Shape
<1>8. Beside(p)' = Beside(p) /\ \A n : Suffixed(To(p), n)' = Suffixed(To(p), n)
  BY <1>3, <1>4, CommandFixed DEF Beside, Suffixed
<1>9. Way(p)'
  BY <1>0, <1>1, <1>3, <1>4, <1>6, CommandFixed DEF One, Way, Room, Acted
<1>10. Named(p)'
  BY <1>0, <1>1, <1>3, <1>4, <1>6, <1>8, CommandFixed DEF One, Named, Room, Acted
<1>11. Disk(p)'
  BY <1>0, <1>1, <1>3, <1>4, <1>5, <1>6, CommandFixed
  DEF One, Disk, InPlace, Brought, Holds, Exists, Room, Acted, Chosen
<1>12. Aside(p)' /\ There(p)' /\ Told(p)'
  BY <1>0, <1>1, <1>3, <1>4, <1>6, CommandFixed
  DEF One, Aside, There, Told, Brought, Gone, Holds, Exists, Room, Acted
<1> QED BY <1>1, <1>3, <1>7, <1>9, <1>10, <1>11, <1>12, OneStep DEF One, OneInv, Shape

-----------------------------------------------------------------------------
(* Hard links.                                                             *)

\* goto un_backup: nothing has changed on disk.
LEMMA Undone ==
  ASSUME OneInv, OneFile, NEW p \in Running, One(p), Others(p), UNCHANGED << dir, data, ok, copies >>,
         loc[p].k = 1, pc[p] \in {"link", "linktemp", "untemp", "open", "create", "write"},
         pc'[p] = "undo",
         loc'[p].k = 1, loc'[p].earlier = NoName, loc'[p].err = loc[p].err,
         loc'[p].renamed = loc[p].renamed,
         loc'[p].aside = loc[p].aside, loc'[p].src = loc[p].src
  PROVE  OneInv'
<1>0. case' = case
  BY DEF Others
<1>1. Beside(p)' = Beside(p) /\ \A n : Suffixed(To(p), n)' = Suffixed(To(p), n)
  BY <1>0, CommandFixed DEF Beside, Suffixed
<1>2. ~ (Moves(p) /\ Links(p))
  BY OneCase DEF OneInv, Shape
<1>3. Way(p)'
  BY <1>0, <1>2, CommandFixed DEF One, Way, Room, Acted
<1>4. Named(p)'
  BY <1>0, <1>1, CommandFixed DEF One, Named, Room, Acted
<1>5. Disk(p)'
  BY <1>0, CommandFixed DEF One, Disk, InPlace, Brought, Holds, Exists, Room, Acted, Chosen
<1>6. Aside(p)' /\ There(p)' /\ Told(p)'
  BY <1>0, CommandFixed
  DEF One, Aside, There, Told, Brought, Gone, Holds, Exists, Room, Acted
<1> QED BY <1>3, <1>4, <1>5, <1>6, OneStep DEF One, OneInv, Shape

\* What Undo does to the locals.
LEMMA UndoLocals ==
  ASSUME OneInv, NEW p \in Running, p \in Procs, NEW why, Undo(p, why),
         UNCHANGED << case, copies >>
  PROVE  /\ Others(p) /\ ok' = ok /\ pc'[p] = "undo"
         /\ loc'[p].k = loc[p].k /\ loc'[p].earlier = loc[p].earlier
         /\ loc'[p].err = loc[p].err /\ loc'[p].aside = loc[p].aside
         /\ loc'[p].renamed = loc[p].renamed
         /\ loc'[p].src = loc[p].src
BY FieldNames DEF Undo, Go, Others, OneInv, Shape

\* A step that gives a name to the file to be copied: the name that it has to have, or
\* the temporary one.
LEMMA LinkDestOne ==
  ASSUME OneInv, OneFile, NEW p \in Procs, LinkDest(p)
  PROVE  OneInv'
<1>0. pc[p] = "link"
  BY DEF LinkDest, At
<1>1. /\ p \in Running /\ One(p) /\ loc[p].k = 1 /\ Src(p) = From(p) /\ Dst(p) = To(p)
      /\ loc[p].earlier = NoName /\ loc[p].then = "record" /\ From(p) # To(p)
      /\ Exists(From(p)) /\ dir[From(p)] = Whole(p) /\ Links(p) /\ ~ Moves(p)
      /\ p \in DOMAIN pc /\ data[Whole(p)] = Whole(p) /\ case \in Cases
  BY <1>0, AtFirst, OneCase DEF One, Way, Disk, InPlace, Acted, OneInv, Shape
<1>2. UNCHANGED << case, data, copies >> /\ Target(p) = From(p)
  BY <1>1 DEF LinkDest, Tables, Target
<1>3. CASE Undo(p, "link") /\ UNCHANGED dir
  BY <1>0, <1>1, <1>2, <1>3, UndoLocals, Undone
<1>4. CASE Go(p, "linktemp") /\ UNCHANGED << dir, loc, ok >>
  <2>1. Others(p) /\ pc'[p] = "linktemp" /\ loc'[p] = loc[p]
    BY <1>1, <1>2, <1>4 DEF Go, Others, OneInv, Shape
  <2>2. Beside(p)' = Beside(p) /\ \A n : Suffixed(To(p), n)' = Suffixed(To(p), n)
    BY <1>2, <2>1, CommandFixed DEF Beside, Suffixed
  <2>3. Way(p)'
    BY <1>0, <1>1, <1>2, <2>1, CommandFixed DEF One, Way, Room, Acted
  <2>4. Named(p)'
    BY <1>0, <1>1, <1>2, <2>1, <2>2, CommandFixed DEF One, Named, Room, Acted
  <2>5. Disk(p)'
    BY <1>0, <1>1, <1>2, <1>4, <2>1, CommandFixed
    DEF One, Disk, InPlace, Brought, Holds, Exists, Room, Acted, Chosen
  <2>6. Aside(p)' /\ There(p)' /\ Told(p)'
    BY <1>0, <1>1, <1>2, <1>4, <2>1, CommandFixed
    DEF One, Aside, There, Told, Brought, Gone, Holds, Exists, Room, Acted
  <2> QED BY <1>1, <1>2, <1>4, <2>1, <2>3, <2>4, <2>5, <2>6, OneStep DEF One, OneInv, Shape
<1>5. CASE /\ ~ Exists(To(p)) /\ dir' = Entered(dir, To(p), Whole(p))
           /\ UNCHANGED loc /\ Go(p, "record") /\ UNCHANGED ok
  <2>1. Others(p) /\ pc'[p] = "record" /\ loc'[p] = loc[p]
    BY <1>1, <1>2, <1>5 DEF Go, Others, OneInv, Shape
  <2>2. Beside(p)' = Beside(p) /\ \A n : Suffixed(To(p), n)' = Suffixed(To(p), n)
    BY <1>2, <2>1, CommandFixed DEF Beside, Suffixed
  <2>3. /\ DOMAIN dir' = DOMAIN dir \cup {To(p)} /\ dir'[To(p)] = Whole(p)
        /\ \A m \in DOMAIN dir : m # To(p) => dir'[m] = dir[m]
        /\ IsFiniteSet(DOMAIN dir')
    <3>1. /\ DOMAIN dir' = DOMAIN dir \cup {To(p)} /\ dir'[To(p)] = Whole(p)
          /\ \A m \in DOMAIN dir : m # To(p) => dir'[m] = dir[m]
      BY <1>5 DEF Entered
    <3>2. IsFiniteSet(DOMAIN dir')
      BY <3>1, FS_AddElement DEF OneInv
    <3> QED BY <3>1, <3>2
  <2>4. Way(p)'
    BY <1>0, <1>1, <1>2, <2>1, CommandFixed DEF One, Way, Room, Acted
  <2>5. Named(p)'
    BY <1>0, <1>1, <1>2, <2>1, <2>2, CommandFixed DEF One, Named, Room, Acted
  <2>6. Disk(p)'
    BY <1>0, <1>1, <1>2, <2>1, <2>3, CommandFixed
    DEF One, Disk, InPlace, Brought, Holds, Exists, Room, Acted, Chosen
  <2>7. Aside(p)'
    BY <1>0, <1>1, <1>2, <1>5, <2>1, <2>3, CommandFixed DEF One, Aside, Exists, Room, Acted
  <2>8. There(p)'
    BY <1>1, <1>2, <1>5, CommandFixed DEF One, There
  <2>9. Told(p)'
    BY <1>0, <1>1, <1>2, <2>1, CommandFixed DEF One, Told, Room
  <2>10. \A n \in DOMAIN dir' : dir'[n] \in Inodes
    BY <1>1, <2>3, OneCase DEF OneInv, Shape
  <2> QED BY <1>1, <1>2, <1>5, <2>1, <2>3, <2>4, <2>5, <2>6, <2>7, <2>8, <2>9, <2>10, OneStep
          DEF One, OneInv, Shape
<1>6. CASE /\ Linkable(p) /\ ~ Exists(Dst(p)) /\ LinkTo(p, Dst(p), Linked(p))
  BY <1>1, <1>2, <1>3, <1>5, <1>6 DEF LinkTo, Linked
<1>7. CASE /\ Linkable(p) /\ Exists(Dst(p)) /\ Replaces(p)
           /\ Go(p, "linktemp") /\ UNCHANGED << dir, loc, ok >> /\ Works
  BY <1>4, <1>7
<1>8. CASE /\ ~ Linkable(p) \/ (Exists(Dst(p)) /\ ~ Replaces(p))
           /\ Undo(p, "link") /\ UNCHANGED dir /\ Works
  BY <1>3, <1>8
<1> QED BY <1>6, <1>7, <1>8 DEF LinkDest

LEMMA TempName ==
  ASSUME case \in Cases, OneFile, NEW p \in Running, Dst(p) = To(p)
  PROVE  Temp(p) \notin {From(p), To(p)} /\ Temp(p).base = "Cu"
<1>1. To(p) \in Name /\ From(p).base # "Cu" /\ To(p).base # "Cu"
  BY OneCase
<1>2. Temp(p).base = "Cu"
  BY <1>1 DEF Temp, Name
<1> QED BY <1>1, <1>2

LEMMA LinkTempOne ==
  ASSUME OneInv, OneFile, NEW p \in Procs, LinkTemp(p)
  PROVE  OneInv'
<1>0. pc[p] = "linktemp"
  BY DEF LinkTemp, At
<1>1. /\ p \in Running /\ One(p) /\ loc[p].k = 1 /\ Src(p) = From(p) /\ Dst(p) = To(p)
      /\ loc[p].earlier = NoName /\ loc[p].then = "record" /\ From(p) # To(p)
      /\ Exists(From(p)) /\ dir[From(p)] = Whole(p) /\ Links(p) /\ ~ Moves(p)
      /\ p \in DOMAIN pc /\ data[Whole(p)] = Whole(p) /\ case \in Cases
  BY <1>0, AtFirst, OneCase DEF One, Way, Disk, InPlace, Acted, OneInv, Shape
<1>2. UNCHANGED << case, data, copies >> /\ Target(p) = From(p)
  BY <1>1 DEF LinkTemp, Tables, Target
<1>3. CASE Undo(p, "link") /\ UNCHANGED dir
  BY <1>0, <1>1, <1>2, <1>3, UndoLocals, Undone
<1>4. CASE /\ dir' = Entered(dir, Temp(p), Whole(p))
           /\ UNCHANGED loc /\ Go(p, "swap") /\ UNCHANGED ok
  <2>1. Others(p) /\ pc'[p] = "swap" /\ loc'[p] = loc[p]
    BY <1>1, <1>2, <1>4 DEF Go, Others, OneInv, Shape
  <2>2. Beside(p)' = Beside(p) /\ \A n : Suffixed(To(p), n)' = Suffixed(To(p), n)
    BY <1>2, <2>1, CommandFixed DEF Beside, Suffixed
  <2>3. /\ DOMAIN dir' = DOMAIN dir \cup {Temp(p)} /\ dir'[Temp(p)] = Whole(p)
        /\ \A m \in DOMAIN dir : m # Temp(p) => dir'[m] = dir[m]
    BY <1>4 DEF Entered
  <2>4. IsFiniteSet(DOMAIN dir')
    BY <2>3, FS_AddElement DEF OneInv
  <2>5. /\ Temp(p) \notin {From(p), To(p)}
        /\ loc[p].aside # NoName => Temp(p) # loc[p].aside
    BY <1>1, AsideName, TempName DEF One
  <2>6. Way(p)'
    BY <1>0, <1>1, <1>2, <2>1, CommandFixed DEF One, Way, Room, Acted
  <2>7. Named(p)'
    BY <1>0, <1>1, <1>2, <2>1, <2>2, CommandFixed DEF One, Named, Room, Acted
  <2>13. Temp(p)' = Temp(p)
    BY <1>1, <1>2, <2>1, CommandFixed DEF Temp, Dst, Dest, Into, Cmd, Source, Operands
  <2>8. Disk(p)'
    BY <1>0, <1>1, <1>2, <2>1, <2>3, <2>5, <2>13, CommandFixed
    DEF One, Disk, InPlace, Exists, Room, Acted, Chosen
  <2>9. Aside(p)'
    BY <1>0, <1>1, <1>2, <2>1, <2>3, <2>5, CommandFixed DEF One, Aside, Exists, Room, Acted
  <2>10. There(p)'
    BY <1>1, <1>2, <2>3, <2>5, CommandFixed DEF One, There, Exists
  <2>11. Told(p)'
    BY <1>0, <1>1, <1>2, <2>1, CommandFixed DEF One, Told, Room
  <2>12. \A n \in DOMAIN dir' : dir'[n] \in Inodes
    BY <1>1, <2>3, OneCase DEF OneInv, Shape
  <2> QED BY <1>1, <1>2, <1>4, <2>1, <2>4, <2>6, <2>7, <2>8, <2>9, <2>10, <2>11, <2>12,
             OneStep DEF One, OneInv, Shape
<1> QED BY <1>1, <1>2, <1>3, <1>4 DEF LinkTemp, LinkTo

LEMMA RenameTempOne ==
  ASSUME OneInv, OneFile, NEW p \in Procs, RenameTemp(p)
  PROVE  OneInv'
<1>0. pc[p] = "swap"
  BY DEF RenameTemp, At
<1>1. /\ p \in Running /\ One(p) /\ loc[p].k = 1 /\ Src(p) = From(p) /\ Dst(p) = To(p)
      /\ loc[p].earlier = NoName /\ loc[p].then = "record" /\ From(p) # To(p)
      /\ Exists(From(p)) /\ dir[From(p)] = Whole(p) /\ Links(p) /\ ~ Moves(p)
      /\ p \in DOMAIN pc /\ data[Whole(p)] = Whole(p) /\ case \in Cases
      /\ Exists(Temp(p)) /\ dir[Temp(p)] = Whole(p)
  BY <1>0, AtFirst, OneCase DEF One, Way, Disk, InPlace, Acted, OneInv, Shape
<1>2. UNCHANGED << case, data, copies, ok >> /\ pc' = [pc EXCEPT ![p] = "untemp"]
  BY DEF RenameTemp, Tables, Go
<1>3. pc'[p] = "untemp"
  BY <1>1, <1>2
<1>4. CASE loc' = [loc EXCEPT ![p].then = "undo"] /\ UNCHANGED dir
  <2>1. /\ loc'[p].k = 1 /\ loc'[p].earlier = NoName /\ loc'[p].err = loc[p].err
        /\ loc'[p].renamed = loc[p].renamed
        /\ loc'[p].aside = loc[p].aside /\ loc'[p].src = loc[p].src /\ loc'[p].then = "undo"
    BY <1>1, <1>4, FieldNames DEF OneInv, Shape
  <2>2. Others(p)
    BY <1>1, <1>2, <1>4, FieldNames DEF Others, OneInv, Shape
  <2>3. Beside(p)' = Beside(p) /\ \A n : Suffixed(To(p), n)' = Suffixed(To(p), n)
    BY <1>2, <2>1, CommandFixed DEF Beside, Suffixed
  <2>4. Way(p)'
    BY <1>0, <1>1, <1>2, <1>3, <2>1, CommandFixed DEF One, Way, Room, Acted
  <2>5. Named(p)'
    BY <1>0, <1>1, <1>2, <1>3, <2>1, <2>3, CommandFixed DEF One, Named, Room, Acted
  <2>6. Disk(p)'
    BY <1>0, <1>1, <1>2, <1>3, <1>4, <2>1, CommandFixed
    DEF One, Disk, InPlace, Exists, Room, Acted, Chosen
  <2>7. Aside(p)' /\ There(p)' /\ Told(p)'
    BY <1>0, <1>1, <1>2, <1>3, <1>4, <2>1, CommandFixed
    DEF One, Aside, There, Told, Exists, Room, Acted
  <2> QED BY <1>1, <1>2, <1>4, <2>2, <2>4, <2>5, <2>6, <2>7, OneStep DEF One, OneInv, Shape
<1>5. CASE dir' = Renamed(dir, Temp(p), To(p)) /\ UNCHANGED loc
  <2>1. Others(p) /\ loc'[p] = loc[p]
    BY <1>1, <1>2, <1>5 DEF Others, OneInv, Shape
  <2>2. Beside(p)' = Beside(p) /\ \A n : Suffixed(To(p), n)' = Suffixed(To(p), n)
    BY <1>2, <2>1, CommandFixed DEF Beside, Suffixed
  <2>3. /\ Temp(p) \notin {From(p), To(p)}
        /\ loc[p].aside # NoName => loc[p].aside \notin {Temp(p), To(p)}
    BY <1>1, AsideName, TempName DEF One
  <2> DEFINE x == Temp(p)
  <2>4. x \in DOMAIN dir /\ x # To(p) /\ dir' = Renamed(dir, x, To(p)) /\ dir[x] = Whole(p)
    BY <1>1, <1>5, <2>3 DEF Exists
  <2> HIDE DEF x
  <2>5. /\ To(p) \in DOMAIN dir' /\ dir'[To(p)] = Whole(p)
        /\ \A m \in DOMAIN dir : m \notin {x, To(p)} => m \in DOMAIN dir' /\ dir'[m] = dir[m]
        /\ \A m \in DOMAIN dir' : m # To(p) => dir'[m] = dir[m]
        /\ DOMAIN dir' \subseteq DOMAIN dir \cup {To(p)}
        /\ IsFiniteSet(DOMAIN dir')
    BY <2>4, RenamedIs DEF OneInv
  <2>6. Way(p)'
    BY <1>0, <1>1, <1>2, <1>3, <2>1, CommandFixed DEF One, Way, Room, Acted
  <2>7. Named(p)'
    BY <1>0, <1>1, <1>2, <1>3, <2>1, <2>2, CommandFixed DEF One, Named, Room, Acted
  <2>8. Disk(p)'
    BY <1>0, <1>1, <1>2, <1>3, <2>1, <2>3, <2>5, CommandFixed
    DEF One, Disk, InPlace, Brought, Holds, Exists, Room, Acted, Chosen, x
  <2>9. Aside(p)'
    BY <1>0, <1>1, <1>2, <1>3, <2>1, <2>3, <2>5, CommandFixed
    DEF One, Aside, Exists, Room, Acted, x
  <2>10. There(p)'
    <3>1. Whole(p) # Torn
      BY <1>1, OneCase, NameAssumption
    <3> QED BY <1>1, <1>2, <2>5, <3>1, CommandFixed DEF There, Exists
  <2>11. Told(p)'
    BY <1>0, <1>1, <1>2, <1>3, <2>1, CommandFixed DEF One, Told, Room
  <2>12. \A n \in DOMAIN dir' : dir'[n] \in Inodes
    BY <1>1, <2>5, OneCase DEF OneInv, Shape
  <2> QED BY <1>1, <1>2, <2>1, <2>5, <2>6, <2>7, <2>8, <2>9, <2>10, <2>11, <2>12,
             OneStep DEF One, OneInv, Shape
<1> QED BY <1>1, <1>4, <1>5 DEF RenameTemp, Set

LEMMA UnlinkTempOne ==
  ASSUME OneInv, OneFile, NEW p \in Procs, UnlinkTemp(p)
  PROVE  OneInv'
<1>0. pc[p] = "untemp"
  BY DEF UnlinkTemp, At
<1>1. /\ p \in Running /\ One(p) /\ loc[p].k = 1 /\ Src(p) = From(p) /\ Dst(p) = To(p)
      /\ loc[p].earlier = NoName /\ loc[p].then \in {"record", "undo"} /\ From(p) # To(p)
      /\ Exists(From(p)) /\ dir[From(p)] = Whole(p) /\ Links(p) /\ ~ Moves(p)
      /\ p \in DOMAIN pc /\ case \in Cases
  BY <1>0, AtFirst, OneCase DEF One, Way, Disk, InPlace, Acted, OneInv, Shape
<1>2. /\ UNCHANGED << case, data, copies, ok, loc >> /\ pc' = [pc EXCEPT ![p] = loc[p].then]
      /\ dir' = Without(dir, Temp(p))
  BY <1>1 DEF UnlinkTemp, Tables, Linked, Go
<1>3. pc'[p] = loc[p].then /\ loc'[p] = loc[p] /\ Others(p)
  BY <1>1, <1>2 DEF Others, OneInv, Shape
<1>4. Beside(p)' = Beside(p) /\ \A n : Suffixed(To(p), n)' = Suffixed(To(p), n)
  BY <1>2, CommandFixed DEF Beside, Suffixed
<1>5. /\ Temp(p) \notin {From(p), To(p)}
      /\ loc[p].aside # NoName => Temp(p) # loc[p].aside
  BY <1>1, AsideName, TempName DEF One
<1>6. /\ DOMAIN dir' = DOMAIN dir \ {Temp(p)} /\ \A m \in DOMAIN dir' : dir'[m] = dir[m]
      /\ IsFiniteSet(DOMAIN dir')
  BY <1>2, WithoutIs DEF OneInv
<1>7. Way(p)'
  BY <1>0, <1>1, <1>2, <1>3, CommandFixed DEF One, Way, Room, Acted
<1>8. Named(p)'
  BY <1>0, <1>1, <1>2, <1>3, <1>4, CommandFixed DEF One, Named, Room, Acted
<1>9. Disk(p)'
  BY <1>0, <1>1, <1>2, <1>3, <1>5, <1>6, CommandFixed
  DEF One, Disk, InPlace, Brought, Holds, Exists, Room, Acted, Chosen
<1>10. Aside(p)'
  BY <1>0, <1>1, <1>2, <1>3, <1>5, <1>6, CommandFixed DEF One, Aside, Exists, Room, Acted
<1>11. There(p)'
  BY <1>1, <1>2, <1>5, <1>6, CommandFixed DEF One, There, Exists
<1>12. Told(p)'
  BY <1>0, <1>1, <1>2, <1>3, CommandFixed DEF One, Told, Room
<1>13. \A n \in DOMAIN dir' : dir'[n] \in Inodes
  BY <1>6 DEF OneInv, Shape
<1> QED BY <1>1, <1>2, <1>3, <1>6, <1>7, <1>8, <1>9, <1>10, <1>11, <1>12, <1>13, OneStep
        DEF One, OneInv, Shape


-----------------------------------------------------------------------------
(* Moving by rename.                                                       *)

LEMMA RenameOne ==
  ASSUME OneInv, OneFile, NEW p \in Procs, Rename(p)
  PROVE  OneInv'
<1>0. pc[p] = "rename"
  BY DEF Rename, At
<1>1. /\ p \in Running /\ One(p) /\ loc[p].k = 1 /\ Src(p) = From(p) /\ Dst(p) = To(p)
      /\ loc[p].earlier = NoName /\ loc[p].src = Whole(p) /\ From(p) # To(p) /\ Moves(p)
      /\ Exists(From(p)) /\ dir[From(p)] = Whole(p) /\ ~ Links(p) /\ ~ loc[p].renamed
      /\ p \in DOMAIN pc /\ p \in DOMAIN loc /\ data[Whole(p)] = Whole(p) /\ case \in Cases
  BY <1>0, AtFirst, OneCase DEF One, Way, Disk, InPlace, Acted, OneInv, Shape
<1>2. UNCHANGED << case, data >>
  BY DEF Rename
<1>3. CASE CannotMove(p)
  <2>1. /\ loc' = [loc EXCEPT ![p].why = "move"] /\ ok' = [ok EXCEPT ![p] = @ /\ FALSE]
        /\ pc' = [pc EXCEPT ![p] = "next"] /\ dir' = dir
        /\ copies' = [copies EXCEPT ![p] = Without(@, loc[p].src)]
    BY <1>3 DEF CannotMove, ForgetCreated, Refuse, Set, Return, Go
  <2>2. /\ loc'[p].k = 1 /\ loc'[p].earlier = NoName /\ loc'[p].err = loc[p].err
        /\ loc'[p].aside = loc[p].aside
    BY <1>1, <2>1, FieldNames DEF OneInv, Shape
  <2>3. Others(p) /\ pc'[p] = "next"
    BY <1>1, <1>2, <2>1, FieldNames DEF Others, OneInv, Shape
  <2> QED BY <1>1, <1>2, <2>1, <2>2, <2>3, Returned
<1>4. CASE /\ ~ SameDevice(From(p), To(p)) /\ loc' = [loc EXCEPT ![p].err = "EXDEV"]
           /\ pc' = [pc EXCEPT ![p] = "clear"] /\ UNCHANGED << dir, copies, ok >>
  <2>1. /\ loc'[p].k = 1 /\ loc'[p].earlier = NoName /\ loc'[p].err = "EXDEV"
        /\ loc'[p].aside = loc[p].aside /\ loc'[p].src = Whole(p) /\ ~ loc'[p].renamed
        /\ pc'[p] = "clear"
    BY <1>1, <1>4, FieldNames DEF OneInv, Shape
  <2>2. Others(p)
    BY <1>1, <1>2, <1>4, FieldNames DEF Others, OneInv, Shape
  <2>3. Beside(p)' = Beside(p)
    BY <1>2, <2>1, CommandFixed DEF Beside
  <2>4. \A n : Suffixed(To(p), n)' = Suffixed(To(p), n)
    BY <1>2, CommandFixed DEF Suffixed
  <2>5. Way(p)'
    BY <1>0, <1>1, <1>2, <1>4, <2>1, CommandFixed DEF One, Way, Room, Acted
  <2>6. Named(p)'
    BY <1>0, <1>1, <1>2, <2>1, <2>3, <2>4, CommandFixed DEF One, Named, Room, Acted
  <2>7. Disk(p)'
    BY <1>0, <1>1, <1>2, <1>4, <2>1, CommandFixed
    DEF One, Disk, InPlace, Exists, Room, Acted, Chosen
  <2>8. Aside(p)' /\ There(p)' /\ Told(p)'
    BY <1>0, <1>1, <1>2, <1>4, <2>1, CommandFixed
    DEF One, Aside, There, Told, Exists, Room, Acted
  <2> QED BY <1>1, <1>2, <1>4, <2>2, <2>5, <2>6, <2>7, <2>8, OneStep DEF One, OneInv, Shape
<1>5. CASE /\ loc[p].err = "EEXIST" /\ SameDevice(From(p), To(p))
           /\ dir' = Renamed(dir, From(p), To(p))
           /\ loc' = [loc EXCEPT ![p].renamed = TRUE]
           /\ pc' = [pc EXCEPT ![p] = "renamed"] /\ UNCHANGED << copies, ok >>
  <2>1. /\ loc'[p].k = 1 /\ loc'[p].earlier = NoName /\ loc'[p].err = "EEXIST"
        /\ loc'[p].aside = loc[p].aside /\ loc'[p].renamed /\ pc'[p] = "renamed"
    BY <1>1, <1>5, FieldNames DEF OneInv, Shape
  <2>2. Others(p)
    BY <1>1, <1>2, <1>5, FieldNames DEF Others, OneInv, Shape
  <2>3. \A n : Suffixed(To(p), n)' = Suffixed(To(p), n)
    BY <1>2, CommandFixed DEF Suffixed
  <2>4. loc[p].aside # NoName => loc[p].aside \notin {From(p), To(p)}
    BY <1>0, <1>1, AsideName DEF One, Named, Acted
  <2>5. From(p) \in DOMAIN dir /\ From(p) # To(p) /\ dir' = Renamed(dir, From(p), To(p))
    BY <1>1, <1>5 DEF Exists
  <2>6. /\ To(p) \in DOMAIN dir' /\ dir'[To(p)] = Whole(p)
        /\ \A m \in DOMAIN dir : m \notin {From(p), To(p)} => m \in DOMAIN dir' /\ dir'[m] = dir[m]
        /\ From(p) \in DOMAIN dir' => To(p) \in DOMAIN dir /\ dir[To(p)] = Whole(p)
        /\ \A m \in DOMAIN dir' : m # To(p) => dir'[m] = dir[m]
        /\ DOMAIN dir' \subseteq DOMAIN dir \cup {To(p)}
        /\ IsFiniteSet(DOMAIN dir')
    BY <1>1, <2>5, RenamedIs DEF OneInv
  <2>7. Way(p)'
    BY <1>0, <1>1, <1>2, <2>1, CommandFixed DEF One, Way, Room, Acted
  <2>8. Named(p)'
    BY <1>0, <1>1, <1>2, <2>1, <2>3, CommandFixed DEF One, Named, Room, Acted
  <2>9. Disk(p)'
    BY <1>0, <1>1, <1>2, <2>1, <2>6, CommandFixed
    DEF One, Disk, InPlace, Brought, Holds, Exists, Room, Acted, Chosen
  <2>10. Aside(p)'
    BY <1>0, <1>1, <1>2, <2>1, <2>4, <2>6, CommandFixed DEF One, Aside, Exists, Room, Acted
  <2>11. There(p)'
    <3>1. Whole(p) # Torn
      BY <1>1, OneCase, NameAssumption
    <3> QED BY <1>1, <1>2, <2>6, <3>1, CommandFixed DEF There, Exists
  <2>12. Told(p)'
    BY <1>0, <1>1, <1>2, <2>1, <2>6, CommandFixed
    DEF One, Told, Brought, Gone, Holds, Exists, Room
  <2>13. \A n \in DOMAIN dir' : dir'[n] \in Inodes
    BY <1>1, <2>6, OneCase DEF OneInv, Shape
  <2> QED BY <1>1, <1>2, <1>5, <2>2, <2>6, <2>7, <2>8, <2>9, <2>10, <2>11, <2>12, <2>13,
             OneStep DEF One, OneInv, Shape
<1>6. loc[p].err = "EXDEV" => ~ SameDevice(From(p), To(p))
  BY <1>1 DEF One, Way
<1> QED BY <1>1, <1>3, <1>4, <1>5, <1>6 DEF Rename, Set, Go

LEMMA RecordRenamedOne ==
  ASSUME OneInv, OneFile, NEW p \in Procs, RecordRenamed(p)
  PROVE  OneInv'
<1>0. pc[p] = "renamed"
  BY DEF RecordRenamed, At
<1>1. /\ p \in Running /\ One(p) /\ loc[p].k = 1 /\ loc[p].earlier = NoName /\ loc[p].renamed
      /\ p \in DOMAIN pc
  BY <1>0, AtFirst DEF One, Way, OneInv, Shape
<1>2. UNCHANGED << case, dir, data, loc, copies >>
  BY DEF RecordRenamed, Files
<1>3. /\ ok' = [ok EXCEPT ![p] = @ /\ TRUE] /\ pc' = [pc EXCEPT ![p] = "next"]
  BY <1>1, <1>2 DEF RecordRenamed, Return, Go
<1>4. Others(p) /\ pc'[p] = "next" /\ loc'[p] = loc[p]
  BY <1>1, <1>2, <1>3 DEF Others, OneInv, Shape
<1>5. Apart(p) => Brought(p) /\ Gone(p)
  BY <1>0, <1>1 DEF One, Told
<1> QED BY <1>1, <1>2, <1>3, <1>4, <1>5, Returned

LEMMA ClearDestOne ==
  ASSUME OneInv, OneFile, NEW p \in Procs, ClearDest(p)
  PROVE  OneInv'
<1>0. pc[p] = "clear"
  BY DEF ClearDest, At
<1>1. /\ p \in Running /\ One(p) /\ loc[p].k = 1 /\ Dst(p) = To(p)
      /\ loc[p].earlier = NoName /\ loc[p].src = Whole(p) /\ From(p) # To(p) /\ Moves(p)
      /\ Exists(From(p)) /\ ~ SameDevice(From(p), To(p)) /\ ~ Links(p) /\ case \in Cases
  BY <1>0, AtFirst, OneCase DEF One, Way, Disk, InPlace, Acted, OneInv, Shape
<1>2. UNCHANGED << case, data >>
  BY DEF ClearDest
<1>3. CASE CannotMove(p)
  <2>1. /\ loc' = [loc EXCEPT ![p].why = "move"] /\ ok' = [ok EXCEPT ![p] = @ /\ FALSE]
        /\ pc' = [pc EXCEPT ![p] = "next"] /\ dir' = dir
        /\ copies' = [copies EXCEPT ![p] = Without(@, loc[p].src)]
    BY <1>3 DEF CannotMove, ForgetCreated, Refuse, Set, Return, Go
  <2>2. /\ loc'[p].k = 1 /\ loc'[p].earlier = NoName /\ loc'[p].err = loc[p].err
        /\ loc'[p].aside = loc[p].aside
    BY <1>1, <2>1, FieldNames DEF OneInv, Shape
  <2>3. Others(p) /\ pc'[p] = "next"
    BY <1>1, <1>2, <1>3, <2>1, FieldNames DEF Others, OneInv, Shape
  <2> QED BY <1>1, <1>2, <1>3, <2>1, <2>2, <2>3, Returned
<1>4. CASE /\ dir' = Without(dir, To(p)) /\ UNCHANGED << copies, ok >>
           /\ loc' = [loc EXCEPT ![p].new = TRUE] /\ pc' = [pc EXCEPT ![p] = "open"]
  <2>1. /\ loc'[p].k = 1 /\ loc'[p].earlier = NoName /\ loc'[p].err = loc[p].err
        /\ loc'[p].renamed = loc[p].renamed
        /\ loc'[p].aside = loc[p].aside /\ loc'[p].src = Whole(p) /\ pc'[p] = "open"
    BY <1>1, <1>2, <1>4, FieldNames DEF OneInv, Shape
  <2>2. loc'[p].new
    BY <1>1, <1>2, <1>4, FieldNames DEF OneInv, Shape
  <2>3. Others(p)
    BY <1>1, <1>2, <1>4, FieldNames DEF Others, OneInv, Shape
  <2>4. /\ DOMAIN dir' = DOMAIN dir \ {To(p)} /\ \A m \in DOMAIN dir' : dir'[m] = dir[m]
        /\ IsFiniteSet(DOMAIN dir')
    BY <1>2, <1>4, WithoutIs DEF OneInv
  <2>5. Beside(p)' = Beside(p) /\ \A n : Suffixed(To(p), n)' = Suffixed(To(p), n)
    BY <1>2, <1>4, <2>1, CommandFixed DEF Beside, Suffixed
  <2>6. loc[p].aside # NoName => loc[p].aside # To(p)
    BY <1>1, AsideName DEF One
  <2>7. Way(p)'
    BY <1>0, <1>1, <1>2, <1>4, <2>1, CommandFixed DEF One, Way, Room, Acted
  <2>8. Named(p)'
    BY <1>0, <1>1, <1>2, <1>4, <2>1, <2>5, CommandFixed DEF One, Named, Room, Acted
  <2>9. Disk(p)'
    BY <1>0, <1>1, <1>2, <1>4, <2>1, <2>2, <2>4, CommandFixed
    DEF One, Disk, InPlace, Exists, Room, Acted, Chosen
  <2>10. Aside(p)'
    BY <1>0, <1>1, <1>2, <1>4, <2>1, <2>4, <2>6, CommandFixed DEF One, Aside, Exists, Room, Acted
  <2>11. There(p)'
    BY <1>1, <1>2, <1>4, CommandFixed DEF There, Atomically, From, To
  <2>12. Told(p)'
    BY <1>0, <1>1, <1>2, <1>4, <2>1, CommandFixed DEF One, Told, Room
  <2>13. \A n \in DOMAIN dir' : dir'[n] \in Inodes
    BY <2>4 DEF OneInv, Shape
  <2> QED BY <1>1, <1>2, <1>4, <2>3, <2>4, <2>7, <2>8, <2>9, <2>10, <2>11, <2>12, <2>13, OneStep
          DEF One, OneInv, Shape
<1> QED BY <1>1, <1>3, <1>4 DEF ClearDest, Set, Go


-----------------------------------------------------------------------------
(* Copying.                                                                *)

LEMMA OpenFilesOne ==
  ASSUME OneInv, OneFile, NEW p \in Procs, OpenFiles(p)
  PROVE  OneInv'
<1>0. pc[p] = "open"
  BY DEF OpenFiles, At
<1>1. /\ p \in Running /\ One(p) /\ loc[p].k = 1 /\ Src(p) = From(p) /\ Dst(p) = To(p)
      /\ loc[p].earlier = NoName /\ loc[p].src = Whole(p) /\ From(p) # To(p)
      /\ Exists(From(p)) /\ dir[From(p)] = Whole(p) /\ ~ Links(p)
      /\ (Moves(p) => ~ SameDevice(From(p), To(p))) /\ case \in Cases
  BY <1>0, AtFirst DEF One, Way, Disk, InPlace, Acted, OneInv, Shape
<1>2. UNCHANGED << case, copies >> /\ ~ Replaced(p)
  BY <1>1 DEF OpenFiles, Tables, Replaced
<1>3. There(p)'
  BY <1>1, <1>2, CommandFixed DEF There, Atomically, From, To
<1>4. CASE Undo(p, "open") /\ UNCHANGED << dir, data >>
  BY <1>0, <1>1, <1>2, <1>4, UndoLocals, Undone
<1>5. CASE /\ Exists(To(p)) /\ ~ loc[p].new
           /\ data' = [data EXCEPT ![dir[To(p)]] = Torn]
           /\ loc' = [loc EXCEPT ![p].in = loc[p].src, ![p].out = dir[To(p)]]
           /\ pc' = [pc EXCEPT ![p] = "write"] /\ UNCHANGED << dir, ok >>
  <2>1. /\ loc'[p].k = 1 /\ loc'[p].earlier = NoName /\ loc'[p].err = loc[p].err
        /\ loc'[p].renamed = loc[p].renamed /\ loc'[p].aside = loc[p].aside
        /\ loc'[p].src = Whole(p) /\ pc'[p] = "write"
    BY <1>1, <1>5, FieldNames DEF OneInv, Shape
  <2>2. loc'[p].in = Whole(p) /\ loc'[p].out = dir[To(p)]
    BY <1>1, <1>5, FieldNames DEF OneInv, Shape
  <2>3. Others(p)
    BY <1>1, <1>2, <1>5, FieldNames DEF Others, OneInv, Shape
  <2>4. Backup(p) = "none" /\ dir[To(p)] # Whole(p) /\ Whole(p) \in Inodes
    BY <1>0, <1>1, <1>5, OneCase DEF One, Disk, Chosen
  <2>5. DOMAIN data' = Inodes /\ data'[Whole(p)] = data[Whole(p)]
    BY <1>5, <2>4 DEF OneInv, Shape
  <2>6. Beside(p)' = Beside(p) /\ \A n : Suffixed(To(p), n)' = Suffixed(To(p), n)
    BY <1>2, <2>1, CommandFixed DEF Beside, Suffixed
  <2>7. Way(p)'
    BY <1>0, <1>1, <1>2, <2>1, CommandFixed DEF One, Way, Room, Acted
  <2>8. Named(p)'
    BY <1>0, <1>1, <1>2, <2>1, <2>6, CommandFixed DEF One, Named, Room, Acted
  <2>9. Disk(p)'
    BY <1>0, <1>1, <1>2, <1>5, <2>1, <2>2, <2>4, <2>5, CommandFixed
    DEF One, Disk, InPlace, Exists, Room, Acted, Chosen
  <2>10. Aside(p)'
    BY <1>2, <2>4, CommandFixed DEF Aside, BacksUp
  <2>11. Told(p)'
    BY <1>0, <1>1, <1>2, <2>1, CommandFixed DEF One, Told, Room
  <2> QED BY <1>1, <1>2, <1>3, <1>5, <2>3, <2>5, <2>7, <2>8, <2>9, <2>10, <2>11, OneStep
          DEF One, OneInv, Shape
<1>6. CASE /\ \/ dir' = dir
              \/ dir' = Without(dir, To(p)) /\ Exists(To(p)) /\ ~ loc[p].new
           /\ loc' = [loc EXCEPT ![p].in = loc[p].src, ![p].new = TRUE]
           /\ pc' = [pc EXCEPT ![p] = "create"] /\ UNCHANGED << data, ok >>
  <2>1. /\ loc'[p].k = 1 /\ loc'[p].earlier = NoName /\ loc'[p].err = loc[p].err
        /\ loc'[p].renamed = loc[p].renamed /\ loc'[p].aside = loc[p].aside
        /\ loc'[p].src = Whole(p) /\ pc'[p] = "create"
    BY <1>1, <1>6, FieldNames DEF OneInv, Shape
  <2>2. loc'[p].in = Whole(p)
    BY <1>1, <1>6, FieldNames DEF OneInv, Shape
  <2>3. Others(p)
    BY <1>1, <1>2, <1>6, FieldNames DEF Others, OneInv, Shape
  <2>4. dir' # dir => Backup(p) = "none"
    BY <1>0, <1>1, <1>6 DEF One, Disk, Chosen
  <2>5. /\ DOMAIN dir' \subseteq DOMAIN dir /\ \A m \in DOMAIN dir' : dir'[m] = dir[m]
        /\ \A m \in DOMAIN dir : m # To(p) => m \in DOMAIN dir'
        /\ IsFiniteSet(DOMAIN dir')
    <3>1. CASE dir' = dir
      BY <3>1 DEF OneInv
    <3>2. CASE dir' = Without(dir, To(p))
      <4>1. /\ DOMAIN dir' = DOMAIN dir \ {To(p)} /\ \A m \in DOMAIN dir' : dir'[m] = dir[m]
            /\ IsFiniteSet(DOMAIN dir')
        BY <3>2, WithoutIs DEF OneInv
      <4> QED BY <4>1
    <3> QED BY <1>6, <3>1, <3>2
  <2>6. Beside(p)' = Beside(p) /\ \A n : Suffixed(To(p), n)' = Suffixed(To(p), n)
    BY <1>2, <2>1, CommandFixed DEF Beside, Suffixed
  <2>7. Way(p)'
    BY <1>0, <1>1, <1>2, <2>1, CommandFixed DEF One, Way, Room, Acted
  <2>8. Named(p)'
    BY <1>0, <1>1, <1>2, <2>1, <2>6, CommandFixed DEF One, Named, Room, Acted
  <2>9. Disk(p)'
    BY <1>0, <1>1, <1>2, <1>6, <2>1, <2>2, <2>5, CommandFixed
    DEF One, Disk, InPlace, Exists, Room, Acted, Chosen
  <2>10. Aside(p)'
    <3>1. CASE dir' = dir
      BY <1>0, <1>1, <1>2, <1>6, <2>1, <3>1, CommandFixed DEF One, Aside, Exists, Room, Acted
    <3>2. CASE dir' # dir
      BY <1>2, <2>4, <3>2, CommandFixed DEF Aside, BacksUp
    <3> QED BY <3>1, <3>2
  <2>11. Told(p)'
    BY <1>0, <1>1, <1>2, <2>1, CommandFixed DEF One, Told, Room
  <2>12. \A n \in DOMAIN dir' : dir'[n] \in Inodes
    BY <2>5 DEF OneInv, Shape
  <2> QED BY <1>1, <1>2, <1>3, <1>6, <2>3, <2>5, <2>7, <2>8, <2>9, <2>10, <2>11, <2>12,
             OneStep DEF One, OneInv, Shape
<1> QED BY <1>1, <1>2, <1>4, <1>5, <1>6 DEF OpenFiles, Go

LEMMA CreateOne ==
  ASSUME OneInv, OneFile, NEW p \in Procs, Create(p)
  PROVE  OneInv'
<1>0. pc[p] = "create"
  BY DEF Create, At
<1>1. /\ p \in Running /\ One(p) /\ loc[p].k = 1 /\ Src(p) = From(p) /\ Dst(p) = To(p)
      /\ loc[p].earlier = NoName /\ loc[p].src = Whole(p) /\ From(p) # To(p)
      /\ Exists(From(p)) /\ dir[From(p)] = Whole(p) /\ ~ Links(p) /\ loc[p].in = Whole(p)
      /\ (Moves(p) => ~ SameDevice(From(p), To(p))) /\ case \in Cases
  BY <1>0, AtFirst DEF One, Way, Disk, InPlace, Acted, OneInv, Shape
<1>2. UNCHANGED << case, copies >>
  BY DEF Create, Tables
<1>3. There(p)'
  BY <1>1, <1>2, CommandFixed DEF There, Atomically, From, To
<1>4. ASSUME NEW why, Undo(p, why), UNCHANGED << dir, data >> PROVE OneInv'
  BY <1>0, <1>1, <1>2, <1>4, UndoLocals, Undone
<1>5. ASSUME ~ Exists(To(p)), NEW i \in Free(Device[To(p).dir]),
             dir' = Entered(dir, To(p), i), data' = [data EXCEPT ![i] = Torn],
             loc' = [loc EXCEPT ![p].out = i], pc' = [pc EXCEPT ![p] = "write"], ok' = ok
      PROVE  OneInv'
  <2>1. /\ loc'[p].k = 1 /\ loc'[p].earlier = NoName /\ loc'[p].err = loc[p].err
        /\ loc'[p].renamed = loc[p].renamed /\ loc'[p].aside = loc[p].aside
        /\ loc'[p].src = Whole(p) /\ pc'[p] = "write"
    BY <1>1, <1>5, FieldNames DEF OneInv, Shape
  <2>2. loc'[p].in = Whole(p) /\ loc'[p].out = i
    BY <1>1, <1>5, FieldNames DEF OneInv, Shape
  <2>3. Others(p)
    BY <1>1, <1>2, <1>5, FieldNames DEF Others, OneInv, Shape
  <2>4. i \in Inodes /\ \A n \in DOMAIN dir : dir[n] # i
    BY <1>5 DEF Free, Names
  <2>5. i # Whole(p)
    BY <1>1, <2>4 DEF Exists
  <2>6. DOMAIN data' = Inodes /\ \A j \in Inodes : j # i => data'[j] = data[j]
    BY <1>5 DEF OneInv, Shape
  <2>7. /\ DOMAIN dir' = DOMAIN dir \cup {To(p)} /\ dir'[To(p)] = i
        /\ \A m \in DOMAIN dir : m # To(p) => dir'[m] = dir[m]
    BY <1>5 DEF Entered
  <2>8. IsFiniteSet(DOMAIN dir')
    BY <2>7, FS_AddElement DEF OneInv
  <2>9. Beside(p)' = Beside(p) /\ \A n : Suffixed(To(p), n)' = Suffixed(To(p), n)
    BY <1>2, <2>1, CommandFixed DEF Beside, Suffixed
  <2>10. Whole(p) \in Inodes /\ (Overwrites(p, 1) => Old(p) \in Inodes)
    BY <1>1, OneCase
  <2>11. loc[p].aside # NoName => loc[p].aside # To(p)
    BY <1>1, AsideName DEF One
  <2>12. Way(p)'
    BY <1>0, <1>1, <1>2, <2>1, CommandFixed DEF One, Way, Room, Acted
  <2>13. Named(p)'
    BY <1>0, <1>1, <1>2, <2>1, <2>9, CommandFixed DEF One, Named, Room, Acted
  <2>14. Disk(p)'
    BY <1>0, <1>1, <1>2, <2>1, <2>2, <2>5, <2>6, <2>7, <2>10, CommandFixed
    DEF One, Disk, InPlace, Exists, Room, Acted, Chosen
  <2>15. Aside(p)'
    <3>1. BacksUp(p) /\ Overwrites(p, 1) =>
            /\ loc[p].aside # NoName /\ Exists(loc[p].aside) /\ dir[loc[p].aside] = Old(p)
            /\ data[Old(p)] = Old(p)
      BY <1>0, <1>1 DEF One, Aside, Acted
    <3>2. BacksUp(p) /\ Overwrites(p, 1) => i # Old(p) /\ data'[Old(p)] = Old(p)
      BY <2>4, <2>6, <2>10, <3>1 DEF Exists
    <3> QED BY <1>2, <2>1, <2>2, <2>7, <2>11, <3>1, <3>2, CommandFixed
            DEF Aside, Exists, Room, Acted
  <2>16. Told(p)'
    BY <1>0, <1>1, <1>2, <2>1, CommandFixed DEF One, Told, Room
  <2>17. \A n \in DOMAIN dir' : dir'[n] \in Inodes
    BY <2>4, <2>7 DEF OneInv, Shape
  <2> QED BY <1>1, <1>2, <1>3, <1>5, <2>3, <2>6, <2>8, <2>12, <2>13, <2>14, <2>15, <2>16,
             <2>17, OneStep DEF One, OneInv, Shape
<1> QED BY <1>1, <1>4, <1>5 DEF Create, Vacant, Set, Go

LEMMA WriteOne ==
  ASSUME OneInv, OneFile, NEW p \in Procs, Write(p)
  PROVE  OneInv'
<1>0. pc[p] = "write"
  BY DEF Write, At
<1>1. /\ p \in Running /\ One(p) /\ loc[p].k = 1 /\ loc[p].earlier = NoName
      /\ loc[p].src = Whole(p) /\ ~ Links(p) /\ data[Whole(p)] = Whole(p)
      /\ loc[p].in = Whole(p) /\ loc[p].out = dir[To(p)] /\ Exists(To(p))
      /\ loc[p].out # Whole(p)
      /\ (Moves(p) => ~ SameDevice(From(p), To(p))) /\ case \in Cases
  BY <1>0, AtFirst DEF One, Way, Disk, Acted, OneInv, Shape
<1>2. UNCHANGED << case, copies, dir >>
  BY DEF Write, Tables
<1>3. There(p)'
  BY <1>1, <1>2, CommandFixed DEF There, Atomically, From, To
<1>4. CASE Undo(p, "write") /\ UNCHANGED data
  BY <1>0, <1>1, <1>2, <1>4, UndoLocals, Undone
<1>5. CASE /\ data' = [data EXCEPT ![loc[p].out] = data[loc[p].in]]
           /\ loc' = [loc EXCEPT ![p].in = NoInode, ![p].out = NoInode]
           /\ pc' = [pc EXCEPT ![p] = "record"] /\ UNCHANGED ok
  <2>1. /\ loc'[p].k = 1 /\ loc'[p].earlier = NoName /\ loc'[p].err = loc[p].err
        /\ loc'[p].renamed = loc[p].renamed /\ loc'[p].aside = loc[p].aside
        /\ loc'[p].src = Whole(p) /\ pc'[p] = "record"
    BY <1>1, <1>5, FieldNames DEF OneInv, Shape
  <2>2. Others(p)
    BY <1>1, <1>2, <1>5, FieldNames DEF Others, OneInv, Shape
  <2>3. /\ dir[To(p)] \in Inodes /\ Whole(p) \in Inodes
        /\ Overwrites(p, 1) => Old(p) \in Inodes
    BY <1>1, OneCase DEF Exists, OneInv, Shape
  <2>4. /\ DOMAIN data' = Inodes /\ data'[dir[To(p)]] = Whole(p)
        /\ \A j \in Inodes : j # dir[To(p)] => data'[j] = data[j]
    BY <1>1, <1>5, <2>3 DEF OneInv, Shape
  <2>5. Beside(p)' = Beside(p) /\ \A n : Suffixed(To(p), n)' = Suffixed(To(p), n)
    BY <1>2, <2>1, CommandFixed DEF Beside, Suffixed
  <2>6. Way(p)'
    BY <1>0, <1>1, <1>2, <2>1, CommandFixed DEF One, Way, Room, Acted
  <2>7. Named(p)'
    BY <1>0, <1>1, <1>2, <2>1, <2>5, CommandFixed DEF One, Named, Room, Acted
  <2>8. Disk(p)'
    BY <1>0, <1>1, <1>2, <2>1, <2>3, <2>4, CommandFixed
    DEF One, Disk, InPlace, Brought, Holds, Exists, Room, Acted, Chosen
  <2>9. Aside(p)'
    BY <1>0, <1>1, <1>2, <2>1, <2>3, <2>4, CommandFixed DEF One, Aside, Exists, Room, Acted
  <2>10. Told(p)'
    BY <1>0, <1>1, <1>2, <2>1, CommandFixed DEF One, Told, Room
  <2> QED BY <1>1, <1>2, <1>3, <1>5, <2>2, <2>4, <2>6, <2>7, <2>8, <2>9, <2>10, OneStep
          DEF One, OneInv, Shape
<1> QED BY <1>4, <1>5 DEF Write, Go


LEMMA RecordCopiedOne ==
  ASSUME OneInv, OneFile, NEW p \in Procs, RecordCopied(p)
  PROVE  OneInv'
<1>0. pc[p] = "record"
  BY DEF RecordCopied, At
<1>1. /\ p \in Running /\ One(p) /\ loc[p].k = 1 /\ loc[p].earlier = NoName
      /\ ~ loc[p].renamed /\ Brought(p) /\ p \in DOMAIN pc
  BY <1>0, AtFirst DEF One, Way, Disk, OneInv, Shape
<1>2. UNCHANGED << case, dir, data, loc, copies >>
  BY DEF RecordCopied, Files
<1>3. ok' = [ok EXCEPT ![p] = @ /\ TRUE]
  BY DEF RecordCopied, Return
<1>4. pc' = [pc EXCEPT ![p] = IF Moves(p) THEN "remove" ELSE "next"]
  BY <1>1, <1>2 DEF RecordCopied, Return, Go
<1>5. Others(p) /\ loc'[p] = loc[p] /\ pc'[p] = (IF Moves(p) THEN "remove" ELSE "next")
  BY <1>1, <1>2, <1>4 DEF Others, OneInv, Shape
<1>6. CASE ~ Moves(p)
  BY <1>1, <1>2, <1>3, <1>5, <1>6, Returned DEF Gone
<1>7. CASE Moves(p)
  <2>1. Beside(p)' = Beside(p) /\ \A n : Suffixed(To(p), n)' = Suffixed(To(p), n)
    BY <1>2, CommandFixed DEF Beside, Suffixed
  <2>2. Way(p)'
    BY <1>0, <1>1, <1>2, <1>5, <1>7, CommandFixed DEF One, Way, Room, Acted
  <2>3. Named(p)'
    BY <1>0, <1>1, <1>2, <1>5, <1>7, <2>1, CommandFixed DEF One, Named, Room, Acted
  <2>4. Disk(p)'
    BY <1>0, <1>1, <1>2, <1>5, <1>7, CommandFixed
    DEF One, Disk, InPlace, Brought, Holds, Exists, Room, Acted, Chosen
  <2>5. Aside(p)' /\ There(p)' /\ Told(p)'
    BY <1>0, <1>1, <1>2, <1>5, <1>7, CommandFixed
    DEF One, Aside, There, Told, Exists, Room, Acted
  <2>6. ok' \in [Procs -> BOOLEAN]
    BY <1>3 DEF OneInv
  <2> QED BY <1>1, <1>2, <1>5, <2>2, <2>3, <2>4, <2>5, <2>6, OneStep DEF One, OneInv, Shape
<1> QED BY <1>6, <1>7

LEMMA RemoveSourceOne ==
  ASSUME OneInv, OneFile, NEW p \in Procs, RemoveSource(p)
  PROVE  OneInv'
<1>0. pc[p] = "remove"
  BY DEF RemoveSource, At
<1>1. /\ p \in Running /\ One(p) /\ loc[p].k = 1 /\ Src(p) = From(p)
      /\ loc[p].earlier = NoName /\ From(p) # To(p) /\ Moves(p) /\ Brought(p)
      /\ Exists(From(p)) /\ ~ SameDevice(From(p), To(p)) /\ p \in DOMAIN pc
      /\ (loc[p].aside # NoName => loc[p].aside # From(p))
  BY <1>0, AtFirst DEF One, Way, Named, Disk, InPlace, Acted, OneInv, Shape
<1>2. UNCHANGED << case, data, loc, copies >> /\ pc' = [pc EXCEPT ![p] = "next"]
  BY DEF RemoveSource, Tables, Go
<1>3. Others(p) /\ loc'[p] = loc[p] /\ pc'[p] = "next"
  BY <1>1, <1>2 DEF Others, OneInv, Shape
<1>4. CASE ok' = [ok EXCEPT ![p] = FALSE] /\ UNCHANGED dir
  <2>1. ok' = [ok EXCEPT ![p] = @ /\ FALSE]
    BY <1>4
  <2> QED BY <1>1, <1>2, <1>3, <1>4, <2>1, Returned
<1>5. CASE dir' = Without(dir, From(p)) /\ UNCHANGED ok
  <2>1. /\ DOMAIN dir' = DOMAIN dir \ {From(p)} /\ \A m \in DOMAIN dir' : dir'[m] = dir[m]
        /\ IsFiniteSet(DOMAIN dir')
    BY <1>5, WithoutIs DEF OneInv
  <2>2. Brought(p)' /\ Gone(p)'
    BY <1>1, <1>2, <2>1, CommandFixed DEF Brought, Gone, Holds, Exists
  <2>3. Way(p)' /\ Named(p)'
    BY <1>0, <1>1, <1>2, <1>3, CommandFixed DEF One, Way, Named, Room, Acted
  <2>4. Disk(p)'
    BY <1>0, <1>1, <1>2, <1>3, <2>1, <2>2, CommandFixed DEF One, Disk, Room, Acted, Chosen
  <2>5. Aside(p)'
    BY <1>0, <1>1, <1>2, <1>3, <2>1, CommandFixed DEF One, Aside, Exists, Room, Acted
  <2>6. There(p)'
    BY <1>1, <1>2, CommandFixed DEF There, Atomically, From, To
  <2>7. Told(p)'
    BY <1>1, <1>3, <2>2 DEF Told, Room
  <2>8. \A n \in DOMAIN dir' : dir'[n] \in Inodes
    BY <2>1 DEF OneInv, Shape
  <2> QED BY <1>1, <1>2, <1>3, <1>5, <2>1, <2>3, <2>4, <2>5, <2>6, <2>7, <2>8, OneStep
          DEF One, OneInv, Shape
<1> QED BY <1>1, <1>4, <1>5 DEF RemoveSource

LEMMA UnBackupOne ==
  ASSUME OneInv, OneFile, NEW p \in Procs, UnBackup(p)
  PROVE  OneInv'
<1>0. pc[p] = "undo"
  BY DEF UnBackup, At
<1>1. /\ p \in Running /\ One(p) /\ loc[p].k = 1 /\ Dst(p) = To(p)
      /\ loc[p].earlier = NoName /\ From(p) # To(p)
      /\ Exists(From(p)) /\ dir[From(p)] = Whole(p) /\ p \in DOMAIN pc /\ case \in Cases
      /\ (Moves(p) => ~ SameDevice(From(p), To(p)))
  BY <1>0, AtFirst DEF One, Way, Disk, InPlace, Acted, OneInv, Shape
<1>2. UNCHANGED << case, data, loc >>
  BY DEF UnBackup
<1>3. /\ ok' = [ok EXCEPT ![p] = @ /\ FALSE] /\ pc' = [pc EXCEPT ![p] = "next"]
      /\ DOMAIN copies' = Procs /\ \A q \in Procs \ {p} : copies'[q] = copies[q]
  BY <1>1 DEF UnBackup, Return, Go, ForgetCreated, OneInv, Shape
<1>4. Others(p) /\ loc'[p] = loc[p] /\ pc'[p] = "next"
  BY <1>1, <1>2, <1>3 DEF Others, OneInv, Shape
<1>5. CASE UNCHANGED dir
  BY <1>1, <1>2, <1>3, <1>4, <1>5, Returned
<1>6. CASE /\ loc[p].aside # NoName /\ Exists(Beside(p))
           /\ dir' = Renamed(dir, Beside(p), To(p))
  <2> DEFINE b == Beside(p)
  <2>1. /\ b # To(p) /\ b # From(p) /\ Backup(p) # "none"
        /\ BacksUp(p) => b = loc[p].aside
    BY <1>0, <1>1, <1>6, AsideName DEF One, Named, Acted
  <2>2. b \in DOMAIN dir /\ dir' = Renamed(dir, b, To(p))
    BY <1>6 DEF Exists
  <2> HIDE DEF b
  <2>3. /\ To(p) \in DOMAIN dir' /\ dir'[To(p)] = dir[b]
        /\ \A m \in DOMAIN dir : m \notin {b, To(p)} => m \in DOMAIN dir' /\ dir'[m] = dir[m]
        /\ \A m \in DOMAIN dir' : m # To(p) => dir'[m] = dir[m]
        /\ DOMAIN dir' \subseteq DOMAIN dir \cup {To(p)}
        /\ IsFiniteSet(DOMAIN dir')
    BY <2>1, <2>2, RenamedIs DEF OneInv
  <2>4. From(p) \in DOMAIN dir' /\ dir'[From(p)] = Whole(p)
    BY <1>1, <2>1, <2>3 DEF Exists
  <2>5. Way(p)' /\ Named(p)'
    BY <1>0, <1>1, <1>2, <1>4, CommandFixed DEF One, Way, Named, Room, Acted
  <2>6. Disk(p)'
    BY <1>0, <1>1, <1>2, <1>4, <2>4, CommandFixed
    DEF One, Disk, InPlace, Exists, Room, Acted, Chosen
  <2>7. Aside(p)'
    BY <1>0, <1>1, <1>2, <1>4, <2>1, <2>3, CommandFixed DEF One, Aside, Exists, Room, Acted
  <2>8. There(p)'
    BY <1>2, <2>1, CommandFixed DEF There, Atomically
  <2>9. ok' \in [Procs -> BOOLEAN] /\ ~ ok'[p]
    BY <1>1, <1>3, OneCase DEF OneInv
  <2>10. Told(p)'
    BY <1>1, <1>4, <2>9 DEF Told, Room
  <2>11. \A n \in DOMAIN dir' : dir'[n] \in Inodes
    BY <2>2, <2>3 DEF OneInv, Shape
  <2> QED BY <1>1, <1>2, <1>4, <2>3, <2>5, <2>6, <2>7, <2>8, <2>9, <2>10, <2>11, OneStep
          DEF One, OneInv, Shape
<1> QED BY <1>1, <1>5, <1>6 DEF UnBackup, Beside

LEMMA KillOne ==
  ASSUME OneInv, OneFile, NEW p \in Procs, Kill(p)
  PROVE  OneInv'
<1>1. pc[p] \notin {"exit", "killed"}
  BY DEF Kill
<1>2. /\ p \in Running /\ One(p) /\ p \in DOMAIN pc /\ p \in DOMAIN loc
  BY <1>1 DEF OneInv, Shape
<1>3. /\ UNCHANGED << case, dir, data, copies, ok >> /\ pc' = [pc EXCEPT ![p] = "killed"]
      /\ loc' = [loc EXCEPT ![p].in = NoInode, ![p].out = NoInode]
  BY DEF Kill, Go, Files, Tables
<1>4. Others(p)
  BY <1>2, <1>3, FieldNames DEF Others, OneInv, Shape
<1>5. /\ loc'[p].k = loc[p].k /\ loc'[p].earlier = loc[p].earlier /\ loc'[p].err = loc[p].err
      /\ loc'[p].aside = loc[p].aside /\ pc'[p] = "killed"
  BY <1>2, <1>3, FieldNames DEF OneInv, Shape
<1>6. \A n : Suffixed(To(p), n)' = Suffixed(To(p), n)
  BY <1>3, CommandFixed DEF Suffixed
<1>7. Way(p)'
  BY <1>2, <1>3, <1>5, CommandFixed DEF One, Way, Room, Acted
<1>8. Named(p)'
  BY <1>2, <1>3, <1>5, <1>6, CommandFixed DEF One, Named, Room, Acted
<1>9. Disk(p)'
  BY <1>2, <1>3, <1>5, CommandFixed
  DEF One, Disk, InPlace, Brought, Holds, Exists, Room, Acted, Chosen
<1>10. Aside(p)'
  BY <1>2, <1>3, <1>5, CommandFixed DEF One, Aside, Exists, Room, Acted
<1>11. There(p)' /\ Told(p)'
  BY <1>2, <1>3, <1>5, CommandFixed DEF One, There, Told, Exists, Room
<1> QED BY <1>2, <1>3, <1>4, <1>7, <1>8, <1>9, <1>10, <1>11, OneStep DEF One, OneInv, Shape


-----------------------------------------------------------------------------
(* What holds of one file.                                                 *)

LEMMA InitOne ==
  ASSUME Init, OneFile
  PROVE  OneInv
<1>1. Shape /\ ok \in [Procs -> BOOLEAN] /\ IsFiniteSet(DOMAIN dir)
  BY CopyAssumption, NameAssumption, FreshFields DEF Init, Shape, Running
<1>2. ASSUME NEW p \in Running PROVE One(p)
  <2>1. /\ p \in Procs /\ From(p) \in DOMAIN case.dir /\ Whole(p) \in Inodes
        /\ Overwrites(p, 1) => Old(p) \in Inodes
    BY <1>1, OneCase DEF Shape
  <2>2. /\ pc[p] = "next" /\ loc[p] = Fresh(0) /\ DOMAIN copies[p] = {} /\ dir = case.dir
        /\ \A i \in Inodes : data[i] = i
    BY <2>1 DEF Init, Running
  <2>3. /\ loc[p].k = 0 /\ loc[p].err = "" /\ loc[p].aside = NoName
        /\ loc[p].earlier = NoName /\ ~ loc[p].renamed
    BY <2>2, FreshFields
  <2>4. Way(p) /\ Named(p)
    BY <2>2, <2>3 DEF Way, Named, Room, Acted
  <2>5. Disk(p)
    BY <2>1, <2>2, <2>3
    DEF Disk, InPlace, Exists, Whole, Content, From, Room, Acted, Chosen
  <2>6. Aside(p)
    BY <2>1, <2>2, <2>3 DEF Aside, Exists, Old, Overwrites, To, Room, Acted
  <2>7. There(p)
    BY <2>1, <2>2, NameAssumption DEF There, Exists, Old, Overwrites, To
  <2>8. Told(p)
    <3>1. Apart(p) /\ Exists(To(p)) => dir[To(p)] # Whole(p)
      BY <2>2 DEF Apart, Exists, Old, Overwrites, To
    <3>2. pc[p] = "next" /\ loc[p].k = 0
      BY <2>2, <2>3
    <3> QED BY <3>1, <3>2 DEF Told, Room
  <2> QED BY <2>4, <2>5, <2>6, <2>7, <2>8 DEF One
<1> QED BY <1>1, <1>2 DEF OneInv

LEMMA NextOne ==
  ASSUME OneInv, OneFile, [Next]_vars
  PROVE  OneInv'
<1>1. CASE UNCHANGED vars
  <2>1. case' = case /\ dir' = dir /\ data' = data /\ pc' = pc /\ loc' = loc /\ ok' = ok
        /\ copies' = copies
    BY <1>1 DEF vars
  <2>2. ASSUME NEW p \in Running PROVE One(p)'
    <3>1. One(p)
      BY <2>2 DEF OneInv
    <3>2. Beside(p)' = Beside(p) /\ \A n : Suffixed(To(p), n)' = Suffixed(To(p), n)
      BY <2>1, CommandFixed DEF Beside, Suffixed
    <3>3. Temp(p)' = Temp(p)
      BY <2>1 DEF Temp, Dst, Dest, Into, Cmd, Source, Operands
    <3>4. Way(p)' /\ Named(p)'
      BY <2>1, <3>1, <3>2, CommandFixed DEF One, Way, Named
    <3>5. Disk(p)'
      BY <2>1, <3>1, <3>3, CommandFixed DEF One, Disk, InPlace, Brought, Holds, Exists
    <3>6. Aside(p)' /\ There(p)' /\ Told(p)'
      BY <2>1, <3>1, CommandFixed DEF One, Aside, There, Told, Brought, Gone, Holds, Exists
    <3> QED BY <3>4, <3>5, <3>6 DEF One
  <2>3. Running' = Running
    BY <2>1, CommandFixed
  <2> QED BY <2>1, <2>2, <2>3 DEF OneInv, Shape
<1>2. ASSUME NEW p \in Procs, Step(p) \/ Kill(p) PROVE OneInv'
  <2>1. CASE NextOperand(p) \/ TryRename(p) \/ StatSource(p) \/ StatDest(p)
             \/ NameBackup(p) \/ MoveAside(p) \/ UnlinkDest(p) \/ FindEarlier(p)
    BY <2>1, NextOperandOne, TryRenameOne, StatSourceOne, StatDestOne, NameBackupOne,
       MoveAsideOne, UnlinkDestOne, FindEarlierOne
  <2>2. CASE LinkDest(p) \/ LinkTemp(p) \/ RenameTemp(p) \/ UnlinkTemp(p)
             \/ Rename(p) \/ RecordRenamed(p) \/ ClearDest(p)
    BY <2>2, LinkDestOne, LinkTempOne, RenameTempOne, UnlinkTempOne, RenameOne,
       RecordRenamedOne, ClearDestOne
  <2>3. CASE OpenFiles(p) \/ Create(p) \/ Write(p) \/ RecordCopied(p)
             \/ RemoveSource(p) \/ UnBackup(p) \/ Kill(p)
    BY <2>3, OpenFilesOne, CreateOne, WriteOne, RecordCopiedOne, RemoveSourceOne,
       UnBackupOne, KillOne
  <2> QED BY <1>2, <2>1, <2>2, <2>3 DEF Step
<1> QED BY <1>1, <1>2 DEF Next

LEMMA OneAlways == Spec => [](OneFile => OneInv)
<1> DEFINE IInv == OneFile => OneInv
<1>1. Init => IInv
  BY InitOne
<1>2. IInv /\ [Next]_vars => IInv'
  <2> SUFFICES ASSUME IInv, [Next]_vars PROVE IInv'
    OBVIOUS
  <2>1. OneFile' = OneFile
    BY CaseStays, CommandFixed
  <2> QED BY <2>1, NextOne
<1> QED BY <1>1, <1>2, PTL DEF Spec

(* One file, on any disk, with any options, whatever calls fail and whenever *)
(* the process is killed: what cp copies stays where it is and whole, and    *)
(* what mv moves is, at every moment, whole under its old name or its new    *)
(* one.                                                                      *)
THEOREM SourceSafe == Spec => [](OneFile => NothingLost)
<1>1. OneFile /\ OneInv => NothingLost
  <2> SUFFICES ASSUME OneFile, OneInv, NEW p \in Running
               PROVE  IF Moves(p) THEN Held(Content(p, 1)) ELSE Holds(Source(p, 1), Content(p, 1))
    BY OneCase DEF NothingLost, OneInv, Shape
  <2>1. One(p)
    BY DEF OneInv
  <2>2. data[Whole(p)] = Whole(p) /\ (InPlace(p) \/ (Moves(p) /\ Brought(p)))
    BY <2>1 DEF One, Disk
  <2> QED BY <2>2 DEF InPlace, Brought, Holds, Held, Exists, Whole, From
<1> QED BY <1>1, OneAlways, PTL

(* One file copied or moved with a backup: what its destination held is kept *)
(* whole, under its name or the backup's, through every failure.             *)
THEOREM OldSafe == Spec => [](OneFile => OldKept)
<1>1. OneFile /\ OneInv => OldKept
  <2> SUFFICES ASSUME OneFile, OneInv, NEW p \in Running, BacksUp(p), Overwrites(p, 1)
               PROVE  Held(case.dir[Dest(p, 1)])
    BY OneCase DEF OldKept, OneInv, Shape
  <2>1. Aside(p)
    BY DEF OneInv, One
  <2> QED BY <2>1 DEF Aside, Held, Exists, Old, To
<1> QED BY <1>1, OneAlways, PTL

(* One file moved on its device, or linked with cp -l -f, onto a name that   *)
(* exists: the name is there at every moment, and what it stands for is      *)
(* complete.                                                                 *)
THEOREM NeverWithout == Spec => [](OneFile => NeverMissing)
<1>1. OneFile /\ OneInv => NeverMissing
  <2> SUFFICES ASSUME OneFile, OneInv, NEW p \in Running, Overwrites(p, 1), Atomically(p, 1)
               PROVE  Exists(Dest(p, 1)) /\ data[dir[Dest(p, 1)]] # Torn
    BY OneCase DEF NeverMissing, OneInv, Shape
  <2>1. There(p)
    BY DEF OneInv, One
  <2> QED BY <2>1 DEF There, To
<1> QED BY <1>1, OneAlways, PTL

(* One file, its destination no link to it: when the process says that it    *)
(* succeeded, the destination holds all that the source did, and mv has left *)
(* no source behind. (A rename between two links does nothing, so mv with a  *)
(* backup may move the destination aside onto a link of the source, leave    *)
(* both, and say that it succeeded.)                                         *)
THEOREM ToldRight == Spec => [](OneFile /\ (\A p \in Running : Apart(p)) => SuccessTells)
<1>1. OneFile /\ (\A p \in Running : Apart(p)) /\ OneInv => SuccessTells
  <2> SUFFICES ASSUME OneFile, OneInv, NEW p \in Running, Apart(p),
                      At(p, "exit"), ok[p], ~ Keeps(p), ~ Cmd(p).update
               PROVE  Arrived(p, 1) /\ (Moves(p) => ~ Exists(Source(p, 1)))
    BY OneCase DEF SuccessTells, OneInv, Shape
  <2>1. Told(p)
    BY DEF OneInv, One
  <2>2. Brought(p) /\ Gone(p)
    BY <2>1 DEF Told, At
  <2> QED BY <2>2 DEF Brought, Gone, Arrived, To, Whole, From
<1> QED BY <1>1, OneAlways, PTL
=============================================================================
