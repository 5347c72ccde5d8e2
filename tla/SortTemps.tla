------------------------------ MODULE SortTemps ------------------------------
(***************************************************************************)
(* The temporary files of sort (sort.c): sort() writes each buffer of      *)
(* sorted lines to one, merge() merges them, NMERGE at a time, into others *)
(* and at last onto the output.  With --compress-program every temporary   *)
(* file is written through one child process and read through another.     *)
(* Signals, failures and a lack of descriptors may come at any step.       *)
(*                                                                         *)
(* Files are numbers: OutFile, the other operands (negative) and the       *)
(* temporary files 1..MaxTemps.  The contents of a file are the sequence   *)
(* of the buffers, or operands, whose lines are in it: as the merge is     *)
(* stable, that is the order in which their equal lines come out.          *)
(***************************************************************************)
EXTENDS Integers, Sequences, FiniteSets, SequencesExt

CONSTANTS
  Scenarios,   \* the command lines and circumstances to consider
  MaxTemps     \* bounds how many temporary files are created

Temps == 1..MaxTemps
OutFile == 0

\* What sort is asked to do, and what may happen to it.
Scenario ==
  [buffers  : Nat,              \* how often the input fills the buffer; 0: sort -m
   operands : Seq(Int),         \* the files to merge with -m
   nmerge   : Nat,              \* --batch-size
   compress : BOOLEAN,          \* --compress-program
   fits     : BOOLEAN,          \* a pipe holds all the data of a file
   fds      : Nat,              \* the limit of descriptors, less the standard ones
   failing  : SUBSET {"program", "fork"},   \* what may fail
   signals  : BOOLEAN]          \* sort and its children may be sent signals

ASSUME ScenariosAssumption ==
  /\ Scenarios \subseteq Scenario /\ MaxTemps \in Nat
  /\ \A s \in Scenarios :
       /\ s.nmerge >= 2 /\ (s.buffers > 0) # (s.operands # << >>)
       /\ \A i \in DOMAIN s.operands : s.operands[i] <= OutFile

VARIABLES
  opt,       \* the scenario (it never changes)
  pc,        \* where sort is
  left,      \* how many buffers are still to be written
  files,     \* the array of files from "in" on
  done,      \* the outputs of this pass, which are at the start of the array
  ntemps,    \* how many of files are temporary
  job,       \* the merge, or the buffer, under way
  target,    \* the file being written, or None
  forRead,   \* pipe_fork is called by open_temp
  streams,   \* fps: the open inputs
  temphead,  \* the list of temporary files
  hidden,    \* saved_temphead
  blocked,   \* the caught signals are blocked
  node,      \* the state and the pid of each temporary file
  nprocs,    \* the number of unreaped children
  tries,     \* how often fork may still be tried
  child,     \* the processes started so far; a pid is an index
  data,      \* the contents of the files
  linked,    \* the files that have a name
  made,      \* how many temporary files have been created
  why,       \* why sort is about to exit
  outcome    \* how sort ended

array == <<left, files, done, ntemps>>
merging == <<job, streams, target>>
list == <<temphead, hidden, blocked>>
procs == <<node, nprocs, child>>
disk == <<data, linked, made>>
end == <<why, outcome>>
vars == <<opt, pc, array, merging, forRead, list, procs, tries, disk, end>>

None == -100
ForkTries == 2   \* stands for MAX_FORK_TRIES_COMPRESS and _DECOMPRESS, 4 and 9
NoJob == [goal |-> "none", n |-> 0, ntemps |-> 0]
Process ==
  [temp : Temps, does : {"compress", "decompress"}, temphead : Seq(Temps),
   state : {"forked", "runs", "ok", "failed", "sigpipe"}, reaped : BOOLEAN]
Stream == [file : Int, pid : Nat, eof : BOOLEAN, got : Seq(Int)]

TypeInvariant ==
  /\ opt \in Scenarios
  /\ left \in 0..opt.buffers
  /\ files \in Seq(Int) /\ done \in Seq(Temps)
  /\ ntemps \in 0..Len(files)
  /\ target \in Temps \cup {OutFile, None}
  /\ streams \in Seq(Stream)
  /\ temphead \in Seq(Temps) /\ hidden \in Seq(Temps)
  /\ {blocked, forRead} \subseteq BOOLEAN
  /\ node \in [Temps -> [state : {"uncompressed", "unreaped", "reaped"}, pid : Nat]]
  /\ nprocs \in Nat /\ tries \in Nat
  /\ child \in Seq(Process)
  /\ \A f \in DOMAIN data : data[f] \in Seq(Int)
  /\ linked \subseteq DOMAIN data
  /\ made \in 0..MaxTemps
  /\ outcome \in {"running", "ok", "failed", "signal"}
  /\ nprocs = Cardinality({ t \in Temps : node[t].state = "unreaped" })

\* sort -m merges the operands; otherwise sort reads and writes buffer by buffer.
Init ==
  /\ opt \in Scenarios
  /\ pc = IF opt.buffers = 0 THEN "pass" ELSE "read"
  /\ left = opt.buffers
  /\ files = opt.operands /\ ntemps = 0 /\ done = << >>
  /\ job = NoJob /\ target = None /\ streams = << >> /\ forRead = FALSE
  /\ temphead = << >> /\ hidden = << >> /\ blocked = FALSE
  /\ node = [t \in Temps |-> [state |-> "uncompressed", pid |-> 0]]
  /\ nprocs = 0 /\ tries = 0 /\ child = << >>
  /\ data = [f \in Temps \cup {OutFile} \cup ToSet(opt.operands) |->
               IF f \in ToSet(opt.operands) THEN <<f>> ELSE << >>]
  /\ linked = {OutFile} \cup ToSet(opt.operands) /\ made = 0
  /\ why = "done" /\ outcome = "running"

At(p) == outcome = "running" /\ pc = p
Go(p) == pc' = p

\* die: exit() runs exit_cleanup.
Die(reason) == why' = reason /\ Go("exit")

\* A mutant: sort() leaves its input open.
MutFdsUsed ==
  Len(streams) + (IF target \in Temps THEN 1 ELSE 0) + (IF opt.buffers > 0 THEN 1 ELSE 0)
    + (IF forRead THEN 1 ELSE 0)

\* The descriptors in use: the inputs, the file being written (the output is the
\* standard one), the input of sort() and that of a child being started.
FdsUsed ==
  Len(streams) + (IF target \in Temps THEN 1 ELSE 0) + (IF left > 0 THEN 1 ELSE 0)
    + (IF forRead THEN 1 ELSE 0)
HasFds(n) == FdsUsed + n <= opt.fds

-----------------------------------------------------------------------------
(* The children and the table of their pids.                               *)

Ended(c) == child[c].state \notin {"forked", "runs"}
Terminated == { c \in DOMAIN child : Ended(c) /\ ~child[c].reaped }

\* A mutant: only a child that a signal has killed counts as abnormal.
MutAbnormal(c) == child[c].state = "sigpipe"

Abnormal(c) == child[c].state # "ok"

\* reap, of the children in C, which have terminated; then sort goes on at p.
Reap(C, p) ==
  IF \E c \in C : Abnormal(c)
  THEN Die("program") /\ UNCHANGED procs
  ELSE LET known == { t \in Temps : node[t].state = "unreaped" /\ node[t].pid \in C } IN
       /\ child' = [c \in DOMAIN child |->
                      IF c \in C THEN [child[c] EXCEPT !.reaped = TRUE] ELSE child[c]]
       /\ node' = [t \in Temps |->
                     IF t \in known THEN [node[t] EXCEPT !.state = "reaped"] ELSE node[t]]
       /\ nprocs' = nprocs - Cardinality(known)
       /\ Go(p) /\ UNCHANGED why

\* wait_proc, called when the state of t is UNREAPED.
WaitProc(t) == node[t].pid \in Terminated /\ Reap({node[t].pid}, pc)

\* A mutant: one process too many for the descriptors and the memory.
MutTooMany == nprocs > opt.nmerge + 2

\* A mutant: the processes that a merge needs count as too many.
MutTooManySoon == nprocs > opt.nmerge - 1

TooMany == nprocs > opt.nmerge + 1

\* The file that pipe_fork starts a process for.
Batch == IF job.goal = "copy" THEN <<OutFile>> ELSE SubSeq(files, 1, job.n)
NextInput == Batch[Len(streams) + 1]
Subject == IF forRead THEN NextInput ELSE target

\* Where sort goes on when the temporary file has been created.
Created == CASE job.goal = "buffer"  -> "write"
             [] job.goal = "squeeze" -> "merge"
             [] OTHER                -> "open"

\* pipe_fork: pipe2; without a pipe the file to write is not compressed, and a
\* file to read cannot be opened now.
Pipe ==
  /\ At("pipe")
  /\ CASE HasFds(2)              -> Go(IF TooMany THEN "reapsome" ELSE "fork") /\ forRead' = forRead
       [] ~HasFds(2) /\ forRead  -> Go("openfailed") /\ forRead' = FALSE
       [] ~HasFds(2) /\ ~forRead -> Go(Created) /\ forRead' = FALSE
  /\ tries' = ForkTries
  /\ UNCHANGED <<opt, array, merging, list, procs, disk, end>>

ReapSome ==
  /\ At("reapsome") /\ Terminated # {}
  /\ Reap(Terminated, "fork")
  /\ UNCHANGED <<opt, array, merging, forRead, list, tries, disk, outcome>>

\* A mutant: the child could delete the temporary files.
MutHide == temphead

\* The list as the child finds it.
Hide == << >>

EnterFork ==
  /\ At("fork")
  /\ blocked' = TRUE /\ hidden' = temphead /\ temphead' = Hide
  /\ Go("forked")
  /\ UNCHANGED <<opt, array, merging, forRead, procs, tries, disk, end>>

LeaveFork == blocked' = FALSE /\ temphead' = hidden /\ hidden' = << >>

\* A mutant: the child is not counted.
MutCounted == nprocs

Counted == nprocs + 1

\* fork succeeds: register_proc, and fdopen of the parent's end of the pipe.
Forked ==
  LET p == Len(child) + 1 IN
  /\ At("forked") /\ LeaveFork
  /\ child' = Append(child, [temp |-> Subject, temphead |-> temphead, state |-> "forked",
                             reaped |-> FALSE,
                             does |-> IF forRead THEN "decompress" ELSE "compress"])
  /\ node' = [node EXCEPT ![Subject] = [state |-> "unreaped", pid |-> p]]
  /\ nprocs' = Counted
  /\ streams' = IF forRead
                THEN Append(streams, [file |-> Subject, pid |-> p, eof |-> FALSE, got |-> << >>])
                ELSE streams
  /\ Go(IF forRead THEN "open" ELSE Created) /\ forRead' = FALSE
  /\ UNCHANGED <<opt, array, job, target, tries, disk, end>>

\* EAGAIN: reap_exited, and another try.
ForkAgain ==
  /\ At("forked") /\ "fork" \in opt.failing /\ LeaveFork
  /\ Reap(Terminated, IF tries > 1 THEN "fork" ELSE "nofork")
  /\ tries' = tries - 1
  /\ UNCHANGED <<opt, array, merging, forRead, disk, outcome>>

ForkError ==
  /\ At("forked") /\ "fork" \in opt.failing /\ LeaveFork
  /\ Go("nofork")
  /\ UNCHANGED <<opt, array, merging, forRead, procs, tries, disk, end>>

\* pipe_fork has returned -1.
NoFork ==
  /\ At("nofork")
  /\ IF forRead THEN Die("fork") ELSE Go(Created) /\ UNCHANGED why
  /\ UNCHANGED <<opt, array, merging, forRead, list, procs, tries, disk, outcome>>

-----------------------------------------------------------------------------
(* maybe_create_temp.                                                      *)

\* A mutant: the signals are not blocked.
MutCsEnter == FALSE

CsEnter == TRUE

\* create_temp_file, in the critical section up to mkostemp.
CreateTempFile ==
  /\ At("create")
  /\ IF HasFds(1)
     THEN /\ made < MaxTemps
          /\ made' = made + 1 /\ linked' = linked \cup {made + 1}
          /\ target' = made + 1
          /\ blocked' = CsEnter
          /\ Go("created") /\ UNCHANGED why
     ELSE /\ IF job.goal = "squeeze" /\ job.n > 2
             THEN Go("squeeze") /\ UNCHANGED why ELSE Die("fds")
          /\ UNCHANGED <<made, linked, target, blocked>>
  /\ UNCHANGED <<opt, array, job, streams, forRead, temphead, hidden, procs, tries, data, outcome>>

\* The new file joins the list; then a compressor is started for it.
LinkTemp ==
  /\ At("created")
  /\ temphead' = Append(temphead, target) /\ blocked' = FALSE
  /\ Go(IF opt.compress THEN "pipe" ELSE Created)
  /\ UNCHANGED <<opt, array, merging, forRead, hidden, procs, tries, disk, end>>

\* xfclose(ofp) after the contents have been written.
Write(contents) ==
  /\ data' = [data EXCEPT ![target] = contents]
  /\ target' = None

\* The compressor is gone: a write raises SIGPIPE, unless the pipe had room.
PipeBroken ==
  /\ target \in Temps /\ node[target].state = "unreaped"
  /\ child[node[target].pid].state = "failed"

\* sighandler: cleanup, and the signal once more.
Cleanup == linked' = linked \ ToSet(temphead) /\ temphead' = << >>

SigPipe ==
  /\ outcome = "running" /\ pc \in {"write", "merge"} /\ PipeBroken
  /\ Cleanup /\ outcome' = "signal"
  /\ UNCHANGED <<opt, pc, array, merging, forRead, hidden, blocked, procs, tries, data, made, why>>

-----------------------------------------------------------------------------
(* sort: buffer by buffer into temporary files.                            *)

Start(goal, n, temps) ==
  /\ job' = [goal |-> goal, n |-> n, ntemps |-> temps]
  /\ Go("create")

\* All the lines fit the buffer: they go to the output.
WriteOnly ==
  /\ At("read") /\ opt.buffers = 1 /\ left = 1
  /\ data' = [data EXCEPT ![OutFile] = <<1>>]
  /\ left' = 0 /\ Go("reapall")
  /\ UNCHANGED <<opt, files, done, ntemps, merging, forRead, list, procs, tries, linked, made, end>>

ReadBuffer ==
  /\ At("read") /\ opt.buffers > 1 /\ left > 0
  /\ Start("buffer", 0, 0)
  /\ UNCHANGED <<opt, array, target, streams, forRead, list, procs, tries, disk, end>>

WriteBuffer ==
  /\ At("write")
  /\ Write(<<opt.buffers - left + 1>>)
  /\ left' = left - 1 /\ Go("read")
  /\ UNCHANGED <<opt, files, done, ntemps, job, streams, forRead, list, procs, tries, linked, made, end>>

\* The end of the input: merge the temporary files in the order of the list.
MergeTemps ==
  /\ At("read") /\ opt.buffers > 1 /\ left = 0
  /\ files' = temphead /\ ntemps' = Len(temphead)
  /\ Go("pass")
  /\ UNCHANGED <<opt, left, done, merging, forRead, list, procs, tries, disk, end>>

ReapAll ==
  /\ At("reapall")
  /\ IF nprocs = 0 THEN Go("exit") /\ UNCHANGED <<procs, why>>
                   ELSE Terminated # {} /\ Reap(Terminated, pc)
  /\ UNCHANGED <<opt, array, merging, forRead, list, tries, disk, outcome>>

-----------------------------------------------------------------------------
(* open_input_files.                                                       *)

Plain(f) == f \in Temps => node[f].state = "uncompressed"

OpenFile ==
  /\ At("open") /\ Len(streams) < Len(Batch)
  /\ Plain(NextInput)
  /\ IF HasFds(1) /\ NextInput \in linked
     THEN /\ streams' = Append(streams,
                          [file |-> NextInput, pid |-> 0, eof |-> FALSE, got |-> << >>])
          /\ UNCHANGED pc
     ELSE Go("openfailed") /\ UNCHANGED streams
  /\ UNCHANGED <<opt, array, job, target, forRead, list, procs, tries, disk, end>>

MustWait(t) == node[t].state = "unreaped"

\* open_temp: first the process that wrote the file must have ended.
WaitToOpen ==
  /\ At("open") /\ Len(streams) < Len(Batch)
  /\ ~Plain(NextInput) /\ MustWait(NextInput)
  /\ WaitProc(NextInput)
  /\ UNCHANGED <<opt, array, merging, forRead, list, tries, disk, outcome>>

OpenTemp ==
  /\ At("open") /\ Len(streams) < Len(Batch)
  /\ ~Plain(NextInput) /\ ~MustWait(NextInput)
  /\ IF HasFds(1) /\ NextInput \in linked
     THEN Go("pipe") /\ forRead' = TRUE
     ELSE Go("openfailed") /\ UNCHANGED forRead
  /\ UNCHANGED <<opt, array, merging, list, procs, tries, disk, end>>

\* All inputs are open; the output is truncated now.
Opened ==
  /\ At("open") /\ Len(streams) = Len(Batch)
  /\ IF job.goal = "final"
     THEN target' = OutFile /\ data' = [data EXCEPT ![OutFile] = << >>]
     ELSE UNCHANGED <<target, data>>
  /\ Go("merge")
  /\ UNCHANGED <<opt, array, job, streams, forRead, list, procs, tries, linked, made, end>>

\* mergefiles goes on with two files, the final merge makes room with three.
OpenFailed ==
  /\ At("openfailed")
  /\ IF job.goal = "final"
     THEN IF Len(streams) <= 2 THEN Die("fds") ELSE Go("squeeze") /\ UNCHANGED why
     ELSE IF Len(streams) < 2 THEN Die("fds") ELSE Go("merge") /\ UNCHANGED why
  /\ job' = [job EXCEPT !.n = Len(streams)]
  /\ UNCHANGED <<opt, array, target, streams, forRead, list, procs, tries, disk, outcome>>

-----------------------------------------------------------------------------
(* mergefps: the inputs come to their ends in any order.                   *)

\* What is in a file: of a compressed one nothing is certain before its writer
\* has ended.
Contents(f) ==
  IF \E c \in DOMAIN child : child[c].temp = f /\ child[c].does = "compress"
                               /\ child[c].state # "ok"
  THEN << >> ELSE data[f]

\* What comes through a stream: a child that fails may have left out the end.
Received(s) ==
  IF s.pid # 0 /\ child[s.pid].state = "failed"
  THEN {<< >>, Contents(s.file)} ELSE {Contents(s.file)}

AtEnd(s) == s.pid # 0 => Ended(s.pid)

\* The end of input i: xfclose, and zaptemp for a file that counts as temporary.
EndOfInput(i) ==
  /\ At("merge") /\ i \in DOMAIN streams /\ ~streams[i].eof /\ AtEnd(streams[i])
  /\ \E got \in Received(streams[i]) :
       streams' = [streams EXCEPT ![i].eof = TRUE, ![i].got = got]
  /\ IF i <= job.ntemps THEN Go("zap") ELSE UNCHANGED pc
  /\ UNCHANGED <<opt, array, job, target, forRead, list, procs, tries, disk, end>>

\* The place in the list of the argument of zaptemp.
ZapPlaces ==
  { k \in DOMAIN temphead :
      \E i \in DOMAIN streams :
        i <= job.ntemps /\ streams[i].eof /\ streams[i].file = temphead[k] }
ZapPlace == CHOOSE k \in ZapPlaces : TRUE
Zapped == temphead[ZapPlace]

\* zaptemp: the process that reads or has written the file must have ended.
WaitToZap ==
  /\ At("zap") /\ ZapPlaces # {} /\ node[Zapped].state = "unreaped"
  /\ WaitProc(Zapped)
  /\ UNCHANGED <<opt, array, merging, forRead, list, tries, disk, outcome>>

Unlink ==
  /\ At("zap") /\ ZapPlaces # {} /\ node[Zapped].state # "unreaped"
  /\ blocked' = CsEnter /\ linked' = linked \ {Zapped}
  /\ Go("unlinked")
  /\ UNCHANGED <<opt, array, merging, forRead, temphead, hidden, procs, tries, data, made, end>>

Unlist ==
  /\ At("unlinked")
  /\ temphead' = RemoveAt(temphead, ZapPlace) /\ blocked' = FALSE
  /\ Go("merge")
  /\ UNCHANGED <<opt, array, merging, forRead, hidden, procs, tries, disk, end>>

\* merge in want of descriptors: the output takes the place of its n inputs.
Replace(n) == <<target>> \o SubSeq(files, n + 1, Len(files))

RemainingTemps == ntemps - Min({ntemps, job.n})

\* The last line is written and the output closed; what the caller does then.
MergeDone ==
  /\ At("merge") /\ \A i \in DOMAIN streams : streams[i].eof
  /\ Write(FlattenSeq([i \in DOMAIN streams |-> streams[i].got]))
  /\ streams' = << >>
  /\ CASE job.goal \in {"batch", "short"} ->
            /\ done' = Append(done, target) /\ files' = SubSeq(files, job.n + 1, Len(files))
            /\ ntemps' = RemainingTemps
            /\ Go(IF job.goal = "batch" THEN "batch" ELSE "endpass")
       [] job.goal = "copy" ->
            /\ files' = [i \in DOMAIN files |->
                 IF i > ntemps /\ files[i] = OutFile THEN target ELSE files[i]]
            /\ Go("final") /\ UNCHANGED <<done, ntemps>>
       [] job.goal = "squeeze" ->
            /\ files' = Replace(job.n) /\ ntemps' = RemainingTemps + 1
            /\ Go("final") /\ UNCHANGED done
       [] OTHER ->    \* "final"
            /\ Go(IF opt.buffers = 0 THEN "exit" ELSE "reapall")
            /\ UNCHANGED <<files, done, ntemps>>
  /\ UNCHANGED <<opt, left, job, forRead, list, procs, tries, linked, made, end>>

-----------------------------------------------------------------------------
(* merge.                                                                  *)

Pass ==
  /\ At("pass")
  /\ Go(IF opt.nmerge < Len(files) THEN "batch" ELSE "avoid")
  /\ UNCHANGED <<opt, array, merging, forRead, list, procs, tries, disk, end>>

\* The slots of the next pass that are easily available.
CheapSlots == opt.nmerge - (Len(done) % opt.nmerge)

\* The next merge of the pass, or the end of the pass.
MergeBatch ==
  LET n == Len(files) IN
  /\ At("batch")
  /\ CASE n >= opt.nmerge -> Start("batch", opt.nmerge, Min({ntemps, opt.nmerge}))
       [] n < opt.nmerge /\ CheapSlots < n ->
            Start("short", n - CheapSlots + 1, Min({ntemps, n - CheapSlots + 1}))
       [] OTHER -> Go("endpass") /\ UNCHANGED job
  /\ UNCHANGED <<opt, array, target, streams, forRead, list, procs, tries, disk, end>>

EndPass ==
  /\ At("endpass")
  /\ files' = done \o files /\ ntemps' = ntemps + Len(done) /\ done' = << >>
  /\ Go("pass")
  /\ UNCHANGED <<opt, left, merging, forRead, list, procs, tries, disk, end>>

\* A mutant: the operands are not compared with the output.
MutSame(f) == FALSE

Same(f) == f = OutFile

\* avoid_trashing_input: one copy stands for all occurrences of the output.
AvoidTrashingInput ==
  /\ At("avoid")
  /\ IF \E i \in (ntemps + 1)..Len(files) : Same(files[i])
     THEN Start("copy", 1, 0) ELSE Go("final") /\ UNCHANGED job
  /\ UNCHANGED <<opt, array, target, streams, forRead, list, procs, tries, disk, end>>

FinalMerge ==
  /\ At("final")
  /\ job' = [goal |-> "final", n |-> Len(files), ntemps |-> ntemps]
  /\ Go("open")
  /\ UNCHANGED <<opt, array, target, streams, forRead, list, procs, tries, disk, end>>

\* Close the last input to make room for a temporary file.
Squeeze ==
  /\ At("squeeze")
  /\ streams' = Front(streams)
  /\ Start("squeeze", job.n - 1, Min({ntemps, job.n - 1}))
  /\ UNCHANGED <<opt, array, target, forRead, list, procs, tries, disk, end>>

\* exit_cleanup.
Exit ==
  /\ At("exit")
  /\ Cleanup
  /\ outcome' = IF why = "done" THEN "ok" ELSE "failed"
  /\ UNCHANGED <<opt, pc, array, merging, forRead, hidden, blocked, procs, tries, data, made, why>>

\* A signal for sort.
Signal ==
  /\ outcome = "running" /\ opt.signals /\ ~blocked
  /\ Cleanup /\ outcome' = "signal"
  /\ UNCHANGED <<opt, pc, array, merging, forRead, hidden, blocked, procs, tries, data, made, why>>

SortStep ==
  \/ WriteOnly \/ ReadBuffer \/ WriteBuffer \/ MergeTemps \/ ReapAll
  \/ CreateTempFile \/ LinkTemp
  \/ Pipe \/ ReapSome \/ EnterFork \/ Forked \/ ForkAgain \/ ForkError \/ NoFork
  \/ OpenFile \/ WaitToOpen \/ OpenTemp \/ Opened \/ OpenFailed
  \/ (\E i \in DOMAIN streams : EndOfInput(i)) \/ WaitToZap \/ Unlink \/ Unlist \/ MergeDone
  \/ Pass \/ MergeBatch \/ EndPass \/ AvoidTrashingInput \/ FinalMerge \/ Squeeze
  \/ Exit \/ SigPipe

-----------------------------------------------------------------------------
(* The children.                                                           *)

sort == <<opt, pc, array, merging, forRead, list, node, nprocs, tries, data, made, end>>

Becomes(c, state) == child' = [child EXCEPT ![c].state = state] /\ UNCHANGED <<sort, linked>>
Is(c, state) == outcome = "running" /\ c \in DOMAIN child /\ child[c].state = state
Reads(c) == \E i \in DOMAIN streams : streams[i].pid = c /\ ~streams[i].eof

Exec(c) == Is(c, "forked") /\ Becomes(c, "runs")

\* A compressor ends when sort has closed the file, a decompressor when all its
\* output is in the pipe or has been read.
Finish(c) ==
  /\ Is(c, "runs")
  /\ IF child[c].does = "compress"
     THEN child[c].temp # target
     ELSE opt.fits \/ (pc = "merge" /\ Reads(c))
  /\ Becomes(c, "ok")

\* sort has closed the pipe that a decompressor writes to: its next write kills it,
\* however little there is left to write.
NobodyReads(c) ==
  /\ Is(c, "runs") /\ child[c].does = "decompress"
  /\ ~Reads(c)
  /\ Becomes(c, "sigpipe")

\* The program cannot be executed or fails.
ProgramFails(c) ==
  /\ Is(c, "forked") \/ Is(c, "runs")
  /\ "program" \in opt.failing
  /\ Becomes(c, "failed")

\* A signal meets a child that still has the handlers of sort.
SignalForked(c) ==
  /\ Is(c, "forked") /\ opt.signals
  /\ linked' = linked \ ToSet(child[c].temphead)
  /\ child' = [child EXCEPT ![c].state = "failed"]
  /\ UNCHANGED sort

ChildStep(c) == Exec(c) \/ Finish(c) \/ NobodyReads(c)

Next ==
  \/ SortStep \/ Signal
  \/ \E c \in DOMAIN child : ChildStep(c) \/ ProgramFails(c) \/ SignalForked(c)

\* sort goes on whenever it can, and a child that is neither stopped nor broken
\* goes on with its input.
Spec ==
  /\ Init /\ [][Next]_vars
  /\ WF_vars(SortStep) /\ \A c \in 1..(4 * MaxTemps) : WF_vars(ChildStep(c))

-----------------------------------------------------------------------------
(* Properties.                                                             *)

\* However sort ends, whether by itself, by die or by a signal, and wherever in
\* the creation of files and processes it was: no temporary file is left behind
\* (exit_cleanup, sighandler and the critical sections).
NoTempLeft == outcome # "running" => linked \cap Temps = {}

\* A temporary file is there until it has been read: neither zaptemp nor a child
\* that got a signal before it could exec has removed it too early.
Unread ==
  (ToSet(files) \cup ToSet(done)) \ { streams[i].file : i \in DOMAIN streams }
UnreadKept ==
  outcome = "running" /\ pc \notin {"reapall", "exit"} => Unread \cap Temps \subseteq linked

\* When sort exits with success the output has the lines of every buffer, or of
\* every operand, once and in the order that a stable sort asks for, however many
\* passes it took, with whatever descriptors and processes there were.
Expected ==
  IF opt.buffers = 0 THEN opt.operands ELSE [i \in 1..opt.buffers |-> i]
OutputComplete == outcome = "ok" => data[OutFile] = Expected

\* "Terminate with an error if PROG exits with nonzero status": sort does not
\* exit with success when one of its children has failed.
FailureReported == outcome = "ok" => \A c \in DOMAIN child : child[c].state # "failed"

\* sort blames the program, "terminated abnormally", only if it has failed.
BlamesOnlyFailed == why = "program" => \E c \in DOMAIN child : child[c].state = "failed"

\* This is so when the last file of a merge, with its pipe, can be opened beside the
\* NMERGE - 1 others.  With fewer descriptors merge closes an input before its end, and
\* what becomes of its decompressor is blamed on the program.
BlamesJustly == opt.fds >= opt.nmerge + 2 => BlamesOnlyFailed

\* pipe_fork: "Allow at most NMERGE + 2 subprocesses".
ProcessesLimited == nprocs <= opt.nmerge + 2

\* sort comes to an end: neither wait_proc nor reap_some nor reap_all waits for a
\* child that waits for sort.
SortEnds == <>(outcome # "running")
=============================================================================
