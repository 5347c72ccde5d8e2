# Formal models of gnv-coreutils

TLA+ models of the parts of GNU coreutils, in the version of this repository and
with its port to OpenVMS, whose correctness depends on the order of events:
threads, child processes, signals, timers, asynchronous system traps, file systems that
others change, and failing resources. TLC checks the models on small instances and TLAPS proves theorems about
them for every value of their constants.

Paths below are relative to `src/`; the C files named are those of `reference/coreutils/src` and
`reference/coreutils/lib` (`heap.c`, `backupfile.c`, `file-set.c`), and `vms_vm_pipe.c` is
`vms_source/coreutils/vms/vms_vm_pipe.c`.

    tlc -workers 2 -config MCSortMerge.cfg MCSortMerge    # one of the runs
    tlapm SortMergeProofs.tla                             # the proofs

## 1. Inventory

Coreutils is a hundred programs that share a library. Most are filters or wrappers
of one system call: their state is local to one call, and a test of inputs against
outputs reaches it. The components below are listed in `PROJECT.json` with their
sources. Those with state that several actors change, or that must survive
failures, come first.

### sort: parallel internal sort (`sort.c:3229-3772`)

* State: the array of lines, in `log2(threads) + 1` areas; the binary tree of
  `struct merge_node`, each with its lock, the ends of the lines available to it and
  the counts of those still to come; the queue of nodes with work, a heap under a
  mutex with a condition; the output.
* Operations: `sortlines` splits a node between two threads or sorts a leaf;
  `merge_loop` pops a node, merges a portion of its lines, delivers them to the
  parent or the output, and requeues the node and its parent if they have work.
* Interaction: all threads share the tree, the array and the queue. A child delivers
  into its parent (`*node->dest = dest`) without the lock of the parent.
* Hard: two locks held in turn, a flag (`queued`) that outlives the critical section,
  a leaf inserted without a look at that flag, an unsigned counter that wraps, the
  termination by a node that every thread must pop once.
* Correct if: the output is the stable sort of the lines; no line is lost or
  overwritten; no node is handed to two threads; no node with work is forgotten; all
  threads end before the tree is destroyed.

### sort: queue of merge nodes (`heap.c`, `compare_nodes` of `sort.c:3426`)

* State: an array. Operations: insert, remove the top. It must remain a bag of nodes
  although `compare_nodes` is not the three-way comparison that `heap.c` asks for.

### sort: sequential sort (`sort.c:3229-3331`)

* A recursion over two overlapping arrays: nothing may be stored outside the scratch
  space of half the size, and the result must be the stable sort.

### sort: temporary files, merging and compression processes (`sort.c:590-1270, 2986-3227, 3775-4105`)

* State: the list of temporary files with the state of each (uncompressed, unreaped,
  reaped), the table of children, the number of unreaped ones, the array of files to
  merge, the open streams, the signal mask.
* Operations: write a buffer to a temporary file, merge `NMERGE` files into another,
  fork compressors and decompressors, wait for them, delete files, clean up at exit
  or on a signal.
* Interaction: with children through pipes, exit statuses and the file system; with
  signal handlers through the list.
* Hard: critical sections against signals, also in a child before it executes its
  program; waiting for a process that waits for sort; descriptors that run out in
  the middle of a merge; children that fail after having delivered part of the data.
* Correct if: no temporary file is left and none is deleted too early; success means
  a complete output; failures of children are reported and not invented; sort ends.

### timeout (`timeout.c`)

* State: `timed_out`, `term_signal`, `kill_after`, `monitored_pid`; the timers; the
  dispositions and the pending set of signals; the command.
* Operations: start the command, `settimeout`, `cleanup` as the handler of SIGALRM and
  other signals, wait with `waitpid` and `sigsuspend`, exit with a status.
* Interaction: with the command, the timers and others that send signals.
* Hard: handlers interrupt the main program and each other at any step; one SIGALRM
  may stand for two timers; a pid is reused once it is reaped.
* Correct if: no signal to a reaped pid; a command out of time ends; its end is
  noticed; the status tells what happened.

### VMS pipe FIFO (`vms_vm_pipe.c`)

* State: `struct vms_mbx` for each pipe: two channels, the queue of buffers, the
  status words of the three chains of ASTs (read, write, child watcher).
* Operations: ASTs that complete a read or a write, look up the child, or follow a
  timer; each issues the next asynchronous call.
* Interaction: with both processes through mailboxes, with the child through
  `SYS$GETJPI`. `sort` reaches it through the pipes of its compression processes
  (`src_sort_c.tpu`).
* Hard: the chains stop and restart each other; whoever is last frees the context;
  the exit of the child overtakes its last messages.
* Correct if: messages arrive once and in order, the writer never blocks for good,
  the reader sees the end of the file, nothing touches a freed context.

### tail -f (`tail.c:398-491, 981-1820, 1968-2050`)

* State: a `File_spec` for each operand (descriptor, size, time, inode, error, watch), the table from
  watch descriptors to operands, `disable_inotify`.
* Operations: `tail_file` opens and shows a file; `recheck` looks at a name again; then
  `tail_forever` polls, or `tail_forever_inotify` sets the watches and handles one event at
  a time (`check_fspec`), and goes back to polling where inotify cannot help.
* Interaction: with whoever writes, truncates, renames, removes and makes anew the files, with the
  process of `--pid`, and with the kernel's queue of events.
* Hard: an event tells of a name or an inode as it was, and tail looks at it as it is; descriptors
  and watches are opened and closed in six cases of `recheck`; a new inode may have the number
  of an old one.
* Correct if: its descriptors are open on the files it believes; nothing is shown twice, from the
  middle or not at all; it ends after the writer and not before its last lines are shown.

### cp and mv (`copy.c`, `cp.c`, `mv.c`, `cp-hash.c`, `force-link.c`, `backupfile.c`, `file-set.c`)

* State: the directories and files themselves; the table of destinations made (`dest_info`), of
  sources seen (`src_info`) and of the copies of each inode (`src_to_dest`), in each process.
* Operations: for each operand decide from two stats whether to go on, move the old
  destination aside or remove it, then link, rename, or open, write and close; mv across devices then
  removes the source; a failure renames the backup back.
* Interaction: with the file system, through calls any of which may fail, with
  other processes, and between operands of one command through the tables.
* Hard: what was decided from a stat holds no longer; several steps replace one file by
  another, and the process may be killed between them; a table holds names whose files have changed.
* Correct if: no contents are lost; success means what it says; links are kept; `-n` keeps.

### Components that are not modelled

* *tee, split, dd, rm*: they keep state across failing calls or change the file system in several
  steps; see the plan.
* *sort: keys and line buffers*: sequential code over bytes and locales.
* *VMS replacements of terminal I/O, process start, system information*: translation
  of calls to system services, without concurrent state of their own.
* *text filters, file status and listing, file creation and attributes, checksums and
  encodings, arithmetic, process environment, users and system*: sequential; what
  they compute is text, bytes or numbers out of the reach of TLC.
* *gnulib, build and installation*: library and build procedures; `heap.c`, `backupfile.c` and
  `file-set.c` are the files of them that are modelled.

## 2. Modules

| Module | What it is | Composed with |
|---|---|---|
| `SortMerge` | parallel sort: threads, tree, locks, queue, lines | |
| `StableSort` | abstract: lines come out one by one in stable order | refined by `SortMerge` |
| `MergeHeap` | the queue as an array: sift up, sift down | |
| `NodeBag` | abstract: a bag of nodes | refined by `MergeHeap`; `SortMerge` uses the queue as such a bag |
| `SeqSort` | `sequential_sort` and `mergelines` as functions on an array | `SortMerge` takes its result for the step of a leaf |
| `MCSortParts` | both of these, side by side | `MergeHeap`, `SeqSort` |
| `SortTemps` | temporary files, merges, children, signals | |
| `VmsPipe` | FIFO of one pipe | |
| `Timeout` | timeout and its command | |
| `TailFollow` | tail -f, the directory, the kernel's descriptors, watches and events | |
| `CopyMove` | cp and mv, one or several processes, the disk | |
| `SortMergeProofs` | theorems about the threads and the queue of `SortMerge` | |
| `SortLinesProofs` | theorem about the lines of `SortMerge` | builds on `SortMergeProofs` |
| `SortOrderProofs` | theorems about the output of `SortMerge` | builds on `SortLinesProofs` |
| `SortTempsProofs` | theorems about `SortTemps` | |
| `TimeoutProofs` | theorems about `Timeout` | |
| `TailFollowProofs` | theorems about `TailFollow` | |
| `CopyMoveProofs` | theorems about `CopyMove` | |
| `VmsPipeProofs` | theorems about `VmsPipe` | |
| `MC...` | instances for TLC | |

### SortMerge

A node is the path to it from the root (`<<0, 1>>` is the high child of the low child),
which gives its level, its parent, and its share of lines and threads as
`init_node` computes them. A thread is named after the node at which it starts, so the
set of threads that `sortlines` may create is fixed, and those not yet created are
`idle`. The lines are pairs of a key and their place in the input; the array `mem`
grows upwards, where that of `sort.c` grows downwards.

One action is one critical section or one iteration of a loop; the two loops of
`mergelines_node` are four actions (`MergeLine`, `MergeEnd`, `DrainLine`, `DrainEnd`).

| Code | Definition |
|---|---|
| `merge_tree_init`, `init_node` | `Nodes`, `NodeLines`, `NodeStart`, `InitNode`, `Init` |
| `queue_insert`, `queue_check_insert` | `QueueInsert`, `QueueCheckInsert` |
| `queue_pop` | `Pop` (under the mutex), `Wait`, `SpuriousWakeup`, `LockNode` |
| `mergelines_node` | `MergeLine` ... `DrainEnd`, `Publish` |
| `merge_loop` | `CheckSelf`, `CheckParent`, `UnlockNode`, `EndUnlock`, `EndInsert` |
| `sortlines` | `Split`, `BecomeLeaf`, `SortLeaf`, `InsertLeaf`, `Join`, `Return` |

Where the code races, the model chooses: `node` is a restrict pointer, so that the end of
the lines that a child moves may be read anew in each iteration or kept in a register
(`loc.endLo`, `loc.endHi`). `to_merge--` wraps from 0 to `SizeMax`. `pthread_create` may
fail at any split: `BecomeLeaf` is enabled in every call.

Abstractions: the heap is the multiplicity of each node, and any node may be popped; the
real order is one of these (`MergeHeap` shows that the array is such a bag). The leaf
is sorted in one step by the definition of a stable sort (`SeqSort` shows that
`sequential_sort` computes it, within the scratch space that the step clobbers).
`compare` is the comparison of two numbers, as under `-s` or `-u`; without them ties are
broken by the whole line, which is another total preorder.

### MergeHeap, SeqSort

`MergeHeap` has the array, `HeapifyUp` and `HeapifyDown`, with `compare_nodes` on the level and the
number of lines left, which shrinks between insertions. `SeqSort` runs the recursion
of `sequential_sort` on every buffer of up to `MaxLines` lines, both into the scratch
space and in place; a store outside the arrays enlarges the domain of `mem`.

### SortTemps

The contents of a file are the sequence of the buffers (or operands) whose lines it
holds; as merging is stable, this is the order in which equal lines come out, and a file
is merged wrongly if and only if this sequence is wrong. `sort` is one process with a
program counter; a step ends where a signal, a child or a failing call can be noticed.

| Code | Definition |
|---|---|
| `cs_enter`, `cs_leave`, `create_temp_file`, `maybe_create_temp` | `CreateTempFile`, `LinkTemp` |
| `pipe_fork` | `Pipe`, `ReapSome`, `EnterFork`, `Forked`, `ForkAgain`, `ForkError`, `NoFork` |
| `reap`, `wait_proc`, `reap_exited`, `reap_some`, `reap_all` | `Reap`, `WaitProc`, `ReapSome`, `ReapAll` |
| `open_temp`, `open_input_files` | `OpenFile`, `WaitToOpen`, `OpenTemp`, `Opened`, `OpenFailed` |
| `zaptemp` | `WaitToZap`, `Unlink`, `Unlist` |
| `mergefps`, `mergefiles` | `EndOfInput`, `MergeDone` |
| `merge`, `avoid_trashing_input` | `Pass`, `MergeBatch`, `EndPass`, `AvoidTrashingInput`, `FinalMerge`, `Squeeze` |
| `sort` | `WriteOnly`, `ReadBuffer`, `WriteBuffer`, `MergeTemps` |
| `exit_cleanup`, `sighandler` | `Exit`, `Signal`, `SigPipe` (`Cleanup`) |

The children are modelled from what sort expects of them: `Exec`, `Finish`, `NobodyReads`
(SIGPIPE), `ProgramFails`, and `SignalForked`, where a child that has not yet executed its
program runs the handlers of sort.

`mergefps` is abstracted to the ends of its inputs, which come in any order: that a line
of a file is compared with the others is left out.

### VmsPipe

One action is one AST; ASTs are not interrupted by others of the same mode. The
routines are operators on a record of what they may change (the context, the mailbox, the ASTs
under way), so that calls nest as in the code. Writer, reader, child, the mailbox driver,
`SYS$GETJPI` and the timer are external and do what the code expects of them.

### Timeout

`frames` is the stack of calls of `cleanup` under way; each handler runs in steps (arm
the kill timer, `settime`, disarm, send, to the group, SIGCONT), and between two steps
another signal may start another frame. `pending` is a set, so that two SIGALRM collapse
into one. The command is docile or survives anything but SIGKILL, may stop and end at any time.

### TailFollow

A line is a number, in the order of writing; a file is the sequence of its lines, and a
name stands for an inode, nothing, or something that tail does not follow. Descriptors are the lowest that are
free, as from `open`, so that closing one too many hits another file; inodes are reused. The
kernel merges an event with an equal one at the end of the queue, watches inodes and not names, and forgets a
watch when the inode is released (`IN_IGNORED`).

| Code | Definition |
|---|---|
| `tail_file` | `TailFile` (open, fstat, dump), `Record` (`record_open_fd`) |
| `recheck` | `Recheck`, as an operator that gives the new `File_spec` and descriptors |
| `check_fspec`, `dump_remainder` | `StatFailed`, `Truncated`, `Rewound`, `CheckFspec`, `Dump` |
| `tail_forever` | `PollFile` (one operand), `PollPass` (end of a pass) |
| the set-up of `tail_forever_inotify` | `WatchOperand`, `Watched`, `LookAgain`, `Again` |
| its loop | `CheckWriter`, `Wait`, `NameEvent`, `Moved`, `RecheckNamed`, `FileEvent`, `RecheckLast` |
| `main` | `Choose`, `RevertToPolling` |

Others change the directory and the files between any two steps, and so between the stat of a
file and the read of it, and between its being read and being watched.

Two ghosts: `cut` holds the inodes that were truncated while in use, of which a gap is to be expected,
and `mixedUp` says that one operand has come to have the watch or the descriptor of another. That happens
when a name of the command line is renamed to another one and used again before tail has
looked twice: the finding `tail_rename` is one case of it, and the
code asks for another itself ("FIXME-maybe", `tail.c:2465`). `DescriptorsSound`,
`WriterHeard` and `CatchesUp` leave those behaviours out.

### CopyMove

A file is an inode and its contents, which are the name of the inode that held them at the start, or `Torn` while
they are being written. A name is a directory, a base and the backup suffixes. One action is one
system call that changes something, with the decisions that lead from the last one to it; the stats of source
and destination (`StatSource`, `StatDest`) are steps of their own, so that another process may come between.

| Code | Definition |
|---|---|
| `do_copy`, `do_move`, `copy`, `main` | `NextOperand`, `Return`, `RemoveSource` |
| the first `renameatu` of mv | `TryRename` |
| the checks (`same_file_ok`, `-n`, `-u`, just created, `source_is_dst_backup`) | `StatSource`, `StatDest`, `Verdict` |
| `backup_file_rename` | `NameBackup`, `MoveAside` (a listing, then a rename) |
| unlink before a copy | `UnlinkDest` |
| a destination that is gone after the first rename has met it (`copy.c:2054-2263`) | `Vanished` |
| `src_to_dest`, `remember_copied`, `forget_created`, `create_hard_link`, `force_linkat` | `FindEarlier`, `LinkDest`, `LinkTemp`, `RenameTemp`, `UnlinkTemp` |
| rename, and the way across devices | `Rename`, `RecordRenamed`, `ClearDest` |
| `copy_reg` | `OpenFiles`, `Create`, `Write`, `RecordCopied` |
| `un_backup` | `UnBackup` |

When the first rename of mv says EEXIST and the destination is gone before the stat, the code goes on as if
it were there, with a `dst_sb` that nobody has filled in: `Vanished` lets each check that reads it go either way.

Any call named in `Faults` may fail, `MaxFaults` times, and a process may be killed between any two
steps. The unlink of the temporary name in `force_linkat`, whose result the code ignores, does not fail. Not in the model: directories and recursion, symbolic links, special files, attributes and
timestamps (`-u` finds every existing destination up to date or older, as it comes), sparse files and clones, prompts,
`--parents`, `cp -f -b a a` (`cp.c:754-777`), `--attributes-only`, and install.

## 3. Runs

| Run | Shows |
|---|---|
| `sort_two_threads` | two threads, four lines over two keys, every buffer: the refinement of `StableSort`, that every thread ends, and the invariants, under weak fairness |
| `sort_tree` | three threads, seven lines, `-u`: an uneven tree of depth three in which an inner node is merged into and from at once; `HandOver` is the inductive invariant of the proof |
| `sort_parts` | a heap of up to five of eight nodes on three levels (0, 2, 3) refines `NodeBag`; every buffer of two to eight lines over three keys is sorted stably, in place and not |
| `pipe` | both directions, three messages, mailboxes of two |
| `timeout` | four sets of options, two signals from others |
| `temps` | twenty-six command lines: see `Everyday` in `MCSortTemps` |
| `tail` | six command lines on two names: `-F`, by name and by descriptor, by inotify and by polling, with `--pid`; three changes by others at any moments |
| `copy` | commands into a directory and to a name, on one device and across two: see `MCCases` in `MCCopyMove` |
| `pipe_lost`, `temps_status`, `tail_rename`, `copy_links` | the disagreements of section 5 |

### What the properties say

* `ImplementsStableSort`: at every step the output is a prefix of the stable sort, and at the
  end all of it. `LinesConserved`: each line is in one live cell or in the output, so
  that areas, destinations and scratch space never overlap a line still needed.
  `NodeHandedOnce`: a node is in the heap or on its way to one thread at most once.
  `NoStrandedWork`: a node with work is queued or some thread is bound to queue it.
  `EndAfterOutput`: `MERGE_END` is out only when all lines are. `DestroyedUnused`: when
  `sortlines` returns, no thread and no lock is left. `SortlinesReturns`: it does return.
* `ImplementsQueue`: the heap loses and invents nothing, and a node above all others is popped
  next, even though removals may leave others out of order. `SortsStably`: the result is the stable sort, and
  no cell outside the array and its scratch space is stored into.
* `NoTempLeft`, `UnreadKept`: the critical sections keep the list and the directory in
  step, in sort and in its children. `OutputComplete`, `FailureReported`, `BlamesJustly`:
  status 0 means a complete output and children that succeeded, and, where there are
  descriptors for a merge of `NMERGE` files and a pipe, "terminated abnormally" is said only of
  one that failed (for fewer see section 5). `ProcessesLimited`, `SortEnds`.
* In `VmsPipe`, `NothingLost`: what the reader has, the mailboxes, the ASTs and the queue hold are the
  messages sent, in order, with the end of the file behind them and only after the writer has closed; `ChildGetsAll`: an end
  of file that a child reads comes after all of them. `NoUseAfterFree`, `WriterNotBlocked`, `ReaderEnds`.
* `NoSignalAfterReap`, `StatusTells`: 124 means a timeout, and anything else how the command
  ended (that a timeout gives 124 is not claimed). `TimedOutEnds`, `EndNoticed`.
* `DescriptorsSound`: an operand has a descriptor exactly if its last open succeeded, on the inode that is recorded,
  shared with no other, and no descriptor is left over. `ShownOnce`: what is shown of a file that is followed by
  descriptor is what it holds up to the recorded size, in order. `WriterHeard`: when tail ends after the writer, and the queue of
  events is empty, all that was written to the files followed by descriptor has been shown.
  `CatchesUp`: when the others rest, tail comes to show everything that the names
  stand for. `EndsAfterWriter`.
* In `CopyMove`, `NothingLost`: at every step, whatever failed or was killed, what is copied or moved exists whole.
  `OldKept`: with a backup, so does what the destination held, when one process runs or no call fails. `SuccessTells`: exit status 0 means that each
  destination, or one of its numbered backups, holds the source. `LinksKept`: links are kept and none
  invented. `NeverMissing`: where a destination is replaced by a rename, it never misses. `Restored`: a
  failed copy gives the backup its name back, but not where mv cannot rename or remove (section 5). `NoClobber`: see section 4.

Every property has a mutant in `PROJECT.json`: a change to the modelled code (a flag not
looked at, a lock or a reset left out, an off-by-one) that breaks it in the same run.

### Bounds, and why they are enough

* `NThreads = 2, NLines = 4`: the smallest buffer that is split (`SUBTHREAD_LINES_HEURISTIC`
  is `SubthreadLines = 4` here), with two leaves that deliver to a root while it is being
  merged. `MaxMerge` is 1 there, so that `to_merge` ends loops and wraps around. Two keys give
  every pattern of ties between the halves. `NThreads = 3, NLines = 7` adds an inner node,
  an odd split and two threads that compete for the same parent. `SizeMax = 1000` only has
  to exceed what is merged after the wrap.
* Three messages against mailboxes of two: the writer blocks, the queue in memory holds
  several, and a message can be in each stage at once.
* Two signals from others, besides the timers: one interrupts the handler of the
  timeout, the other the handler of the first.
* `MaxTemps = 12` is not reached by the scenarios, which create at most eleven files. Eight buffers and
  `NMERGE = 3`, or six and 2, take several passes with a short merge in between.
  `ForkTries = 2` stands for `MAX_FORK_TRIES_COMPRESS` (4) and `_DECOMPRESS` (9): one try that
  is repeated and one that is not.
* `fds` counts the descriptors left for sort; scenarios take the values around those at which
  the code changes its way (`OpenFailed`, `Squeeze`).
* `fits` says whether the contents of a file fit a pipe, so that a decompressor can end before it is read; both extremes
  are run, those in between allow no other order of steps. A decompressor whose pipe sort has closed may get SIGPIPE
  either way.
* Tail: two operands and a third name, so that a file may be rotated away, come back, and be moved from one operand to
  the other (`Moves` are these three renames); three inodes, so that one is reused; three changes (`MaxOps`) are a rename, a
  new file and a line in it. The number of changes is what bounds the model: tail itself runs on.
* Copy: up to three operands, because the disagreement over links needs three; two processes, since more add
  no new pair of steps (in one command line the second moves the destination of the first away); one call that fails, as the reaction to a failure is followed at most by
  `un_backup`, whose failure is the same as a kill. Command lines with links and the same base name twice are left to
  the run `copy_links`, as they fail there. One fault, and a kill, for every command line.

### Fairness

* `SortMerge`: each thread that can take a step is scheduled (`WF_vars(Step(t))`); spurious
  wakeups happen but are never required.
* `VmsPipe`: ASTs are delivered, timers expire, lookups complete. The processes owe nothing;
  `ReaderEnds` assumes in its premise a reader that keeps reading.
* `Timeout`: timeout is scheduled, pending signals are delivered unless blocked, a timer
  expires, and the command reaches `exec`; it need not ever end.
* `SortTemps`: sort goes on; a child that is neither stopped nor broken goes on with its
  input. Failures and signals are never required.

* `TailFollow`: tail goes on, and an inode that nobody uses is released at last. Nobody owes a write
  or a rename.
* `CopyMove`: each process goes on; no property of the run needs it.

Deadlock is checked where the system must never stop (`SortMerge`, whose main thread stutters after
its return, and `CopyMove`, which stutters when all processes have ended). `MCSortParts`, `VmsPipe`, `Timeout`, `SortTemps`
and `TailFollow` really come to an end; there the liveness properties say that they do not stop too early.

## 4. Proofs

`SortMergeProofs` proves, for any number of threads and lines, any buffer and with and without `-u`:

* `TypeCorrect`: `Spec => []TypeOK`. No thread leaves the tree, no pointer or counter of
  a merge falls below zero.
* `HandedOnce`: `Spec => []NodeHandedOnce`.
* `Invariance`: both, with the inductive invariant `HandOver`.

`NodeHandedOnce` is not inductive. A node that is popped leaves the heap before its `queued`
flag is cleared, and the flag is what keeps others from inserting it meanwhile: so `Handed`
says that the flag is set from the insertion until the node is locked. `InsertLeaf`, however,
does not look at the flag. That the leaf cannot have been inserted before depends on where all the
others are: `Fresh` says that below a thread that still divides or sorts nothing has been
queued and no other thread works, and `Places` ties each thread to the tree, so that a
thread that starts lower cannot be found elsewhere. Each action of `Step` has its lemma,
and the lemma on splitting carries the geometry: what is under a child is under its
parent, and never under both children.

The assumptions are `SizesAssumption`, `InputsAssumption`, `NamesAssumption` and `TreeAssumption`. The
last one says what the recursive division of threads and lines comes to: the root has all lines and starts at 0, a
child starts where its parent's half does and has that half, shares are numbers, halving ends within `NThreads` levels
and the array has an area for each level. These are facts of arithmetic that would take an
induction over the depth of the tree; TLC evaluates them in every run of `SortMerge`.

`ReturnsLast` is `Spec => []DestroyedUnused`, from `Invariance` and the same assumptions. `sort()` destroys the
queue and the tree as soon as the main thread is back, but that thread joins only its own children. So `Joined` says that each
thread that runs is still to be joined by a thread that runs itself and started higher in the tree; of the
threads that still run, one that started highest can only be the main thread (`MainRunsLongest`, by the
well-foundedness of the order on numbers). `Owned` ties each lock to a thread at work on its node. That a split starts no thread
that already runs is `Fresh` again.

`NoWorkLost` is `Spec => []NoStrandedWork`, from `Invariance` and the same assumptions: the safety half of "the sort does
not hang". A thread leaves a node to others when it finds the `queued` flag set or no lines to merge. The second is right
because whoever delivers lines later looks at the node afterwards; the first only because the flag is never set
for a node that is neither in the heap nor popped and waiting to be locked, which is the converse of `Handed` and has to be
invariant with it (`MarksTrue`). `WorkFrame` carries over what the other threads mind (`Minds`), so that each action
accounts only for its own nodes. That somebody does take the node from the heap is liveness and stays with the runs.

`SortLinesProofs` proves `Conservation`: `Spec => []LinesConserved`, from `Invariance` and the same assumptions: at every
step each line of the input is in exactly one place: in the output, in one cell that a node still has to merge, or in the part of a leaf
that is not sorted yet; with `-u` a line may also be gone once an equal one is in the output. The sort works in one array with two areas for each line and keeps only pointers into it, so that nothing in
the code says that a cell written to is free. `LinesConserved` is not inductive, for it does not say where the pointers
are. `Layout` does: the lines that a node has delivered to its parent and those it has left fill
the node's share of the area of its level from one end to the other (`Shape`), a merge holds the lock of its node and its own
destination (`Held`), nothing below a leaf that is sorted, or below a thread that still divides, is left to merge (`BelowSorted`, `Around`).
With it, `Conserved` says in terms of the cells that every line is in one of them, and that no line is twice, be
it in two cells that count or in a cell and in the output. The proof of a step rests on three facts: the cell that a merge writes to
lies beyond all that its node has delivered (`BeyondDelivered`); no other node has a claim to it (`InFlightElsewhere`, `OneNode`); and a leaf
sorts into and through cells that nobody counts (`ScratchIsFree`), and its result is a permutation of what it was
given (`Rank` and `Nth` are inverse to one another on lines that differ).

`SortOrderProofs` proves, under the same assumptions, `WritesInOrder`: `Spec => Sort!Spec`, every step of the threads leaves the output
alone or writes the next line of the stable sort, and `EndsComplete`: `Spec => []EndAfterOutput`. Threads merge at all
levels of the tree at once and each merge stops at whatever its children have delivered so far, so that the output
is ordered only because of what is still below. The invariant adds three parts to `Layout` and `Conserved`. `Placed`: a
line arrives only at the nodes that have its place in the buffer in their share, on the side of its half, and what a
leaf has not sorted has not moved. `InOrder`: the lines of one half come in order at a node, ahead of those of that half which
are still further down. `Prefix`: the output is the first so many of the lines to write, and what is left comes after all of them. The
step that matters is a merge that takes a line (`TakesFirst`): the head of one side comes before all that is on that side, and
before all on the other side as well, either by comparison with its head or because the other side
is exhausted, and a side that is counted as exhausted has nothing left anywhere below it (`SideTaken`, from `Emptied` and
`NothingBelow`). Equal keys are taken from the low side first, whose places in the buffer are lower: this is where
stability comes from. At the root the line taken is then the next of the stable sort (`NextLine`), and `MERGE_END` goes
into the queue when the root is exhausted, so that nothing is left (`FinishedRoot`).

`SortTempsProofs` proves `NoTempLeftBehind`: `Spec => []NoTempLeft`, for any scenarios and any number
of files, processes and descriptors. A temporary file that has a name is in `temphead`, or in
`saved_temphead` while `fork` runs, or is the one that `mkostemp` has just made
(`Listed`); and wherever the list does not tell all, the signals are blocked, so that
`sighandler` finds a complete list (`Masked`). That the file deleted by `zaptemp` is the one taken
off the list needs the place in the list to be the same before and after the unlink, which is part of
`Masked`. Steps that touch neither files nor list share one lemma (`QuietStep`). The only assumption is
`ScenariosAssumption`: operands are not temporary files of sort.

It also proves `ChildrenLimited`: `Spec => []ProcessesLimited`, for the same generality. `pipe_fork` checks the
count once and reaps, but not in a loop; that one call makes room enough holds only if the child that has ended
is counted. So the invariant says that every unreaped child is in the table under the pid
it has there (`Tabled`), that the count is the size of the table, and that a process is only started for a file
whose last process has been reaped (`Idle`), as a second one would push the first out of the table. From `open_temp` and
`maybe_create_temp` to `fork` the file stays the same (`Places`), also when `fork` is tried again.

`SortingReportsFailure` is `Spec => [](opt.buffers > 0 => FailureReported)`: sort that reads its input does not exit with
success when a child has failed. `Reported` says that every reaped child ended well, as `reap` dies of one that
did not, and that such a sort comes to its end by `reap_all` or by `die`; with `Tabled` a count of 0 then means
that every child has been reaped. The hypothesis is needed: `sort -m` exits without `reap_all`, and there the property is
false (the run `temps_status` and section 5).

`UnreadFilesKept` is `Spec => []UnreadKept`. `zaptemp` unlinks the file whose input has ended, by its name, while the same
file could still be in the array, among the outputs of the pass, or open as another input. The invariant (`Lifetimes`) follows each
file through its life. While the buffers are written, the list holds their files, each once (`Buffered`). Then the array holds them, the
counted temporary files in front, and a counted file stands nowhere else in it and not among the outputs (`Once`). The open inputs are the
first files of the array (`Inputs`), and a file of the array or of the outputs has its name unless it is a counted input that has come to
its end (`Present`). When the merge is done the first `n` files leave the array, so that none of the files that are
left has lost its name (`LeftOver`); the copy that `avoid_trashing_input` makes counts no input at all. No child has a list
of its own (`Orphans`), so a signal before `exec` deletes nothing. Steps that leave files, merge and list alone share
`PassingStep`.

`OutputIsComplete` is `Spec => []((\A c \in DOMAIN child : child[c].state # "failed") => OutputComplete)`: as long as no child has
failed, sort that exits with success has written every buffer or operand once and in the order of a stable sort, for any number of buffers,
operands and passes, any batch size and any lack of descriptors. The property speaks of the end only. The invariant (`Complete`) follows
the text, which is what the outputs of the pass and the files of the array give when they are read one after the other: it is the same
at every step of `merge` (`Told`). The first merge has it from the list, whose files hold one buffer each (`Filled`); a
merge puts the text of its inputs into one file, and that file where they were (`TextMerged`); what it has read of each
is the whole file, because the compressor that wrote it has ended well, which `open_temp` waits for (`Reading`, `IdleWritten`). The output is truncated
only when it is none of the inputs: `avoid_trashing_input` looks at the operands alone, so that no counted temporary file may be the output
(`Known`), and from the copy on none of the files is (`Told`). `Goals` says that a merge which writes has open just the files
that it then takes out of the array, also when some could not be opened or the last was closed again. That texts may be cut and
joined like this is a fact about `FlattenSeq`, which is proved by descent to the shortest list for which it would be
false (`Least`, `FlattenConcat`): an induction on data that needs no operator as a parameter.

The hypothesis is needed: for `sort -m` with a decompressor that fails `OutputComplete` is false (section 5). For sort that reads its input it
is not: `SortingWritesAll`, `Spec => [](opt.buffers > 0 => OutputComplete)`, follows with `SortingReportsFailure`.

`TimeoutProofs` proves, for any options and any number of signals from others, that handlers interrupt
one another as they may and still:

* `TypeCorrect`: `Spec => []TypeOK`.
* `NeverSignalsReaped`: `Spec => []NoSignalAfterReap`.
* `StatusIsTrue`: `Spec => []StatusTells`.

Neither is inductive: that no handler signals a reaped pid depends on where handlers can run. `Quiet` says that from
the block of the signals on the stack of handlers is empty, except while `sigsuspend` lets them through, which is never
between `waitpid` and the exit; `Reaped` says that the command is reaped exactly when the main
program is about to exit. `Told` relates the outcome to how the command ended, or to the two
other ways to end (timeout kills itself with its group, or has not yet stored `monitored_pid`),
and needs `NoCause124`: 124 is never the command's own status in the model, which would hide a timeout. Steps of the
command, the timers and the handlers share one lemma (`OtherStep`): they leave the main program where it is and
a reaped command as it was. The only assumption is `OptionsAssumption`.

`TailFollowProofs` proves three theorems, for any number of operands (the same name twice included), names, inodes and changes by
others at any moments:

* `Described`: `Spec => []DescriptorsSound`. Every open descriptor is that of exactly one operand, and open on
  the inode that the operand records, also while files are replaced and `recheck` opens the new one before it closes the old.
  `Table` says so for every state, the first opening included (`Specs`: the operands before the current one
  are done, those after it have nothing). That `open` always finds a descriptor is a count (`FreeDescriptor`): each
  operand has at most one, and the table has one more. Each way through `recheck` leaves one
  descriptor or none for its operand and does not touch the others (`RecheckTakes`).
* `ShownFromStart`: `Spec => []ShownOnce`. The property compares what is shown with the file only while the file has not been truncated, and
  so is not inductive. `Follows` relates what was shown to what is in the file now and to the position of the descriptor: the lines beyond the
  position are later than all that was shown, and so are all the lines if the file has become shorter than the position, which is
  what makes it right to read it again from the start (`StatsShows`). It also needs that a file followed by
  descriptor is never looked up by its name once it is open, because no event of the directory can arrive (`Unnamed`).
* `LastWordsShown`: `Spec => []WriterHeard`. When polling, `writer_is_dead` is set between two passes, and from then on the
  operands before the current one have been read to their end (`Polled`), as nobody writes any more. With inotify what has been written
  since the last look at a file is announced (`Hears`): an event of its watch is in the queue or has just been read, or tail is at
  that file. This holds only once the file was looked at after all the watches were set (`Passed`), if each watch leads to one
  operand (`Entries`) and is still that of the file, which an open descriptor keeps from being freed; an event that the kernel drops is
  equal to one in the queue. An operand that could not be opened is ignored and stays closed (`Settled`), which is why `--retry` is left out.

The only assumption is `TailAssumption`. It says that inodes are not among the other things that a name may stand for.

`CopyMoveProofs` proves five theorems. `NeverClobbers`: `Spec => NoClobber`, for any number of processes, operands,
directories and files, with any calls that fail and kills at any step. The property is an action property: while
every process is given `-n` and none copies from a name that another one makes, no step replaces, removes or changes a whole
file at a destination. With several processes it asks (`AtOnce`) that each makes its destinations in one
step, by `RENAME_NOREPLACE`, `O_EXCL` or `link`: mv across devices does not, see section 5. The invariant `Inv` says for each process
that it never reaches the steps that move aside, remove or link over (`Where`), that on its way to a new file it has seen that there
was none, and that there still is none if it is alone (`Unseen`), that beside others it takes none of the ways in several steps
(`InOneStep`), and that the file it writes is torn and nobody else's (`Writes`); without the last, a process could go on writing into a file
that another has completed. Each action has a lemma that it keeps this for its own process (`Careful`) and touches no
whole file (`Intact`); `StepOfOne` carries it over to the others. Its only assumption is `CopyAssumption`.

The other four are about one process with one file that exists (`OneFile`), on any disk with any links between its files, with any
options, any number of calls that fail and a kill at any step, on one device or across two:

* `SourceSafe`: `Spec => [](OneFile => NothingLost)`; `OldSafe`: the same of `OldKept`; `NeverWithout`: of `NeverMissing`.
* `ToldRight`: of `SuccessTells`, when the destination was not a link to the source (`Apart`); section 5 says what mv
  with a backup does otherwise.

One invariant, `OneInv`, is behind them. `Way` says which steps the options and the devices lead to, and what has been stored on the
way: each removal of the source must be preceded by a copy of just that inode, so the inode that the stat found is followed
through all the steps. `Disk` says that the source is in place, until the destination is complete; that from the checks
on the two names differ; that a destination which is truncated is not the source's inode; and that a destination
that has not been made room for belongs to a command without a backup. `Aside` does the same for the old
destination, which is under its name up to the rename of the backup and under the backup's after it. The delicate part is names: the
source must be neither where the backup goes nor where `un_backup` looks for it, which with a simple backup into a directory
is another place (`Beside`). That is so because `source_is_dst_backup` has been asked, because a numbered backup is above
all the numbers there are (`Greatest`, by descent on how many are above), and because a backup has one suffix more than the
destination (`Named`, `SourceNoBackup`, `AsideName`). `Told` adds what exit status 0 needs: the rename of two different files
leaves no source. `OneFile` asks that mv has no `-l`, which its command line does not offer, and that no file has the
name that `try_tempname` chooses, as it chooses an unused one. The assumptions are `CopyAssumption` and
`NameAssumption` (a disk has finitely many names, each a directory, a base and suffixes; `Torn` is no inode).

For several files these need the tables of files seen and the backups of each operand as well, and for several processes most of them
are false (section 5); both stay with TLC, as do `LinksKept`, which speaks of two files, and `Restored`, which
is false when the rename that restores fails, too.

`VmsPipeProofs` proves three theorems, for any number of messages, mailboxes of any size and either direction:

* `NeverUsedAfterFree`: `Spec => []NoUseAfterFree`. The code frees the context when three status words say that it may; that
  nothing then comes back to it is not in the words. The invariant (`Safe`) ties each word to its chain of calls and ASTs, the reads,
  the writes and the watch over the child: a chain has at most one call under way or one AST waiting, never both, and
  none once its status word says that it has ended; a freed context has three ended chains. Each
  routine that an AST runs has a lemma for what it leaves of the three chains, and each action one that cites them.
* `NothingIsLost`: `Spec => []NothingLost`. A message passes from the mailbox to the AST of the read that found it, to the queue or
  straight to a write, and to the reader. The property speaks of a FIFO whose channels are open; when they are closed, it says
  nothing of what is still queued, and so is not inductive. `Flow` numbers the places: what the reader has is `1 .. n`, and the write
  under way, the queue, the hand of the read AST and the mailbox go on counting, up to the last message and then the
  end of the file (`Item`). Once the read channel of a child's FIFO is deassigned, the messages flow on to the last one that was found (`OnWay`,
  for some number of messages up to all). The chains of `Safe` are needed again: with two reads under way, two ASTs could have
  messages in hand, in either order.
* `ChildReadsAll`: `Spec => []ChildGetsAll`. A child is told the end of the file by a message, which `Flow` has behind all
  others, or because the FIFO deassigns the channel it writes on; `Channels` says that this happens only with nothing in the queue
  and no read left, and that for a child the reads end only when its parent has closed and the mailbox is empty. A read that reports
  that there is no writer is delivered later than it was found, and `Justs` says that what it reports is still so then.

The only assumption is `ParametersAssumption`.

Only model-checked: liveness, that of `StableSort` included; the refinement of `NodeBag`; what the recursive definitions
compute (`SeqSort`, the sifting in `MergeHeap`) and with it `SortsStably`; of `SortTemps` `TypeInvariant` and
`BlamesJustly`; of `CopyMove` what is said above; the remaining invariants.

## 5. Findings

* **Lost messages** (`pipe_lost`, `vms_vm_pipe.c:691`). When the watcher finds that the child is gone,
  the read channel is deassigned with the child's last messages still in the mailbox, and an
  end of file is queued: the parent reads an orderly but short file. The comment at 978
  says that the FIFO "drains the outpuf from the child into the parent".
* **`sort -m` with a failing decompressor** (`temps_status`, `sort.c:4835`). Nobody waits for
  the process that decompresses the copy of an input that is also the output: sort exits with 0
  and a truncated output.
* **Renaming one followed name to another** (`tail_rename`, `tail.c:1777`). The operand that had the watch is
  looked at again with `recheck`, which may open a new file, and then its descriptor is closed without being
  recorded as closed: `tail -F a b` after `mv a b; echo > a` goes on with a closed descriptor. The comment on `fd`
  says "-1 if it's not open" (`tail.c:143`).
* **A link to a name that has changed** (`copy_links`, `copy.c:2466`). `cp -d --backup=numbered a/f d/f b/g c`, where `b/g` is a
  link to `a/f`, links `c/g` to `c/f`, which by then is the copy of `d/f`, and exits with 0.

All but the first were reproduced with GNU coreutils 9.1, whose code is the same there.

Four more counterexamples are kept as configurations to run by hand:

    tlc -workers 2 -config MCTimeoutAlarm.cfg MCTimeout
    tlc -workers 2 -config MCSortTempsHang.cfg MCSortTemps
    tlc -workers 2 -config MCSortTempsFds.cfg MCSortTemps
    tlc -workers 2 -config MCCopyBackup.cfg MCCopyMove

* **`timeout -k 1 -s ALRM`** (`timeout.c:191`). `send_sig` ignores the signal
  that it passes on; with SIGALRM the timer of `--kill-after` is lost with it, unlike the
  usage text says (278-279).
* **`sort -m -o F F F`** (`sort.c:1184`). With a compress program, both operands stand for one
  copy with one pid; opening it the second time waits for the first decompressor, which waits
  for sort to read.
* **Descriptors and compression** (`sort.c:3973`). With fewer than `NMERGE` + 2 descriptors the last input
  that was opened is closed again to gain one. Its decompressor, if it has not written all by then, gets
  SIGPIPE, however little it has to write, and that is reported as a failure of the program
  (`BlamesOnlyFailed`; `BlamesJustly` is the same with enough descriptors).
* **Simple backups into a directory** (`backupfile.c:374-377`). The name of a simple backup is looked up from the
  current directory and not from the target directory: `mv --backup=simple a/f c` moves `c/f` to
  `./f~`, over whatever is there (`BystandersKept`), and a failure cannot restore it.

Observed while modelling, without a run of their own:

* `compare_nodes` (`sort.c:3434`) never returns a negative number, so that `heapify_down` may prefer
  the lower of two nodes; only the order of work suffers.
* `mergelines_node` stores the end of the parent's lines without a lock (`sort.c:3561`); the model takes stores
  to become visible in program order, which a weakly ordered machine does not promise.
* A signal between `fork` and the store of `monitored_pid` (`timeout.c:536`) makes timeout
  exit and leaves the command running; the comment at 411 knows of this window.
* `cleanup` stores SIGKILL in `term_signal` (`timeout.c:217`): if another signal starts the kill timer while
  the timeout still runs, the timeout then sends SIGKILL at once.
* In `vms_vm_pipe.c` the context is never freed where `write_ast_status` would have to be
  negative (197, 263), and a killed writer leaves the writing half untold (570-574).
* A destination that is made by preserving a link is not recorded in `dest_info`: `cp -d a/f b/g d/g c`, with `b/g` a
  link to `a/f`, overwrites the `c/g` that it has just made, and mv across devices does so too, where a copy of the same
  files without links is refused ("will not overwrite just-created").
* `mv -n` across devices unlinks the destination (`copy.c:2579`) although another process may have made it
  after the stat, and mv removes its source by name, even if it has been replaced meanwhile.
* Two mv with numbered backups to one name: what one of them puts there between the backup and the rename
  of the other is overwritten; and `un_backup` of one process replaces the fresh copy of another.
* `mv -b a/f c/f`, where `a/f`, `c/f` and `c/f~` are links to one file, exits with 0 and leaves them all: a rename between
  two links does nothing, the one to the backup and the one of the source. Links are compared in `same_file_ok` only
  without a backup. GNU coreutils 9.1 does the same.
* When the rename or the removal after a backup fails (`copy.c:2571, 2588`), the function returns without `un_backup`, and
  the old destination stays under the name of its backup; `Restored` speaks of the failures that go to `un_backup`.
* mv whose destination another process takes away between the first rename and the stat compares the source with a
  `dst_sb` that has not been filled in (`copy.c:2075`), and may say that the two are the same file.
* Without `--preserve=links`, cp onto destinations that are links of one another writes both files into one inode; `cp -l`
  takes a destination that is a link to the source already for done. `SuccessTells` and the instances leave these out.
* In `tail.c`, `--pid` with inotify and several files ends with events still queued (1637-1660), of which the last lines are
  not shown; and with `--retry`, a file that appears in the last pass is opened but not read (1304). `WriterHeard` excludes both.
* `tail_forever_inotify` reads the watch descriptors of operands that it ignores without having set them; the model
  takes them for no watch.
* `stream_open` with "w" never returns NULL (it truncates and returns standard output), so that
  the branch of `merge` for an output that lacks a descriptor (`sort.c:3954-3960`) is dead.

## 6. Limits

Not in the models: weak memory (above); the comparison of keys; the reading and formatting of
lines; failures of mailbox drivers other than a missing reader or writer; the failure of
`malloc` (which ends the program); disks that fill up (which end sort through `die`, as
other failures do). In `TailFollow`: what is shown before following (`-n`, `-c`), standard input, pipes,
remote file systems, the removal of the directory, the reading of several events at a time, symbolic links that do not dangle. In
`CopyMove`: see section 2. A pid is never reused in `SortTemps`; its reuse is what `NoSignalAfterReap` is about
in `Timeout`.

## 7. Plan

Done, in this order: `SortMerge` with its abstract specification, heap and sequential sort;
`SortMergeProofs`; `VmsPipe`; `Timeout`; `SortTemps` and `SortTempsProofs`; `TailFollow`; `CopyMove`; `TimeoutProofs`;
`CopyMoveProofs`; `VmsPipeProofs`; `SortLinesProofs` and `SortOrderProofs`; `TailFollowProofs`. To do, in this order:

1. Proofs: `NothingLost` and `OldKept` of `CopyMove` for several files of one process.
2. Composition of `SortTemps` with `VmsPipe`: a decompressor behind a FIFO that loses its last
   messages ends with status 0.
3. Directories in `CopyMove` (`copy_dir`, the ancestors, mv of a tree across devices with
   the removal by `rm`), then `rm` itself.
4. `Tee`: outputs that fail one by one under the four modes of `--output-error`; the abstract
   specification is one prefix of the input for each output.
5. `Split`: `-n r/N` with fewer descriptors than files, and filters that close early.
6. `Dd`: block accounting over short reads and writes, and a signal for statistics at
   any step.
