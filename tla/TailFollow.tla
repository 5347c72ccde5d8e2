----------------------------- MODULE TailFollow -----------------------------
(***************************************************************************)
(* tail -f (tail.c): the files it follows by name or by descriptor, with   *)
(* inotify or by polling, while others write, truncate, rename, remove and *)
(* replace them.                                                           *)
(*                                                                         *)
(* A line is a number, given out in the order of writing.  tail starts     *)
(* with -n +1, so that what is in a file at the start is all shown.  The   *)
(* followed names are in one directory, on a local file system.            *)
(***************************************************************************)
EXTENDS Naturals, Sequences, FiniteSets, SequencesExt

CONSTANTS
  Names,        \* the names in the directory
  Files,        \* the operands, a sequence of names
  Inodes,       \* the inodes of regular files, reused when they are free
  Special,      \* what else a name may stand for: a subset of Kinds
  Starts,       \* what the names may stand for at the start
  Options,      \* the command lines
  MaxUnchanged, \* --max-unchanged-stats
  MaxOps,       \* bound: what others do to the directory and its files
  Moves,        \* bound: the renames they do, pairs of names
  Enough        \* whether inotify_add_watch finds resources: {TRUE} or BOOLEAN

Kinds == {"symlink", "directory", "unreadable"}  \* a symlink dangles

ASSUME TailAssumption ==
  /\ Files \in Seq(Names) /\ Files # << >>
  /\ Special \subseteq Kinds /\ Inodes \cap (Kinds \cup {"none", "dir"}) = {}
  /\ Starts \subseteq [Names -> Inodes \cup Special \cup {"none"}]
  /\ MaxUnchanged \in Nat /\ MaxOps \in Nat
  /\ Moves \subseteq Names \X Names /\ Enough \subseteq BOOLEAN
  /\ Options \subseteq [follow : {"name", "descriptor"}, retry : BOOLEAN,
                        pid : BOOLEAN, inotify : BOOLEAN]

VARIABLES
  opt,      \* the command line
  \* the file system and the kernel
  dir,      \* what each name stands for: "none", a special kind or an inode
  content,  \* the lines in each inode
  mod,      \* its modification time, as a count of modifications
  written,  \* the number of lines written
  ops,      \* the number of things others did
  writer,   \* the process of --pid: "alive" or "dead"
  fds,      \* the descriptors of tail: the inode and position, or Closed
  watch,    \* the inotify watch descriptor of each inode and of the directory
            \* ("dir"), 0 for none
  nextWd,
  queue,    \* the events that wait to be read
  \* tail
  f,        \* the File_spec of each operand
  table,    \* wd_to_name: the operands in it; the key is f[i].wd
  pc, cur,  \* what tail does next, and to which operand
  ret,      \* where it goes from there
  ev,       \* the event it handles
  inotify,  \* ~disable_inotify
  anyInput, \* any_input
  noWriter, \* writer_is_dead
  out,      \* the lines shown for each operand
  cut,      \* (ghost) the inodes that were truncated while in use
  mixedUp   \* (ghost) an operand has the watch of another file, or a descriptor
            \* that is closed: the names changed again before tail looked twice

osVars == <<dir, content, mod, written, ops, writer>>
kernelVars == <<fds, watch, nextWd, queue>>
vars == <<opt, osVars, kernelVars, f, table, pc, cur, ret, ev, inotify,
          anyInput, noWriter, out, cut, mixedUp>>

N == Len(Files)
Operands == 1..N
Watchable == Inodes \cup {"directory"}
ByName == opt.follow = "name"
Closed == [ino |-> "none", pos |-> 0]
NoEvent == [wd |-> 0, mask |-> "none", name |-> "none"]

-----------------------------------------------------------------------------
(* The kernel: descriptors, watches and events.                            *)

IsOpen(t, fd) == fd \in DOMAIN t /\ t[fd] # Closed
LowestFree(t) == CHOOSE d \in DOMAIN t : t[d] = Closed
                                         /\ \A e \in 1..(d - 1) : t[e] # Closed
\* Closing a descriptor that is not open only gives a diagnostic.
CloseFd(t, fd) == [d \in DOMAIN t |-> IF d = fd THEN Closed ELSE t[d]]

Named(ino) == \E n \in Names : dir[n] = ino
Held(t, ino) == \E d \in DOMAIN t : t[d].ino = ino
Unread(fd) == LET c == content[fds[fd].ino]
              IN SubSeq(c, fds[fd].pos + 1, Len(c))

\* An event like the last one in the queue is dropped.
Queued(q, e) == IF q # << >> /\ Last(q) = e THEN q ELSE Append(q, e)
\* An event of a watched inode; the mask of a followed descriptor is IN_MODIFY.
InodeEvent(q, ino, mask) ==
  IF ino \in Watchable /\ watch[ino] # 0 /\ (ByName \/ mask = "MODIFY")
  THEN Queued(q, [wd |-> watch[ino], mask |-> mask, name |-> "none"]) ELSE q
\* An event of the directory, which is watched when names are followed.
DirEvent(q, mask, n) ==
  IF watch["dir"] # 0
  THEN Queued(q, [wd |-> watch["dir"], mask |-> mask, name |-> n]) ELSE q

-----------------------------------------------------------------------------
(* Others.  A writer appends, truncates, and rotates files.                *)

Others == /\ ops < MaxOps /\ writer = "alive" /\ pc # "end"
          /\ ops' = ops + 1
          /\ UNCHANGED <<opt, writer, fds, watch, nextWd, f, table, pc, cur, ret,
                         ev, inotify, anyInput, noWriter, out, mixedUp>>

Write(ino) ==
  /\ Others
  /\ Named(ino) \/ Held(fds, ino)
  /\ written' = written + 1
  /\ content' = [content EXCEPT ![ino] = Append(@, written')]
  /\ mod' = [mod EXCEPT ![ino] = @ + 1]
  /\ queue' = InodeEvent(queue, ino, "MODIFY")
  /\ UNCHANGED <<dir, cut>>

Truncate(ino) ==
  /\ Others
  /\ Named(ino) \/ Held(fds, ino)
  /\ content[ino] # << >>
  /\ content' = [content EXCEPT ![ino] = << >>]
  /\ mod' = [mod EXCEPT ![ino] = @ + 1]
  /\ cut' = cut \cup {ino}
  /\ queue' = InodeEvent(queue, ino, "MODIFY")
  /\ UNCHANGED <<dir, written>>

Create(n) ==
  /\ Others
  /\ dir[n] = "none"
  /\ \/ \E ino \in Inodes :
          /\ ~Named(ino) /\ ~Held(fds, ino) /\ watch[ino] = 0
          /\ dir' = [dir EXCEPT ![n] = ino]
          /\ content' = [content EXCEPT ![ino] = << >>]
          /\ cut' = cut \ {ino}
     \/ \E k \in Special :
          /\ ops = 0  \* bound: only at first
          /\ ~Named(k) /\ (k = "directory" => watch[k] = 0)
          /\ dir' = [dir EXCEPT ![n] = k]
          /\ UNCHANGED <<content, cut>>
  /\ queue' = DirEvent(queue, "CREATE", n)
  /\ UNCHANGED <<mod, written>>

Unlink(n) ==
  /\ Others
  /\ dir[n] # "none"
  /\ dir' = [dir EXCEPT ![n] = "none"]
  /\ queue' = DirEvent(InodeEvent(queue, dir[n], "ATTRIB"), "DELETE", n)
  /\ UNCHANGED <<content, mod, written, cut>>

Rename(m, n) ==
  /\ Others
  /\ <<m, n>> \in Moves /\ dir[m] # "none"
  /\ dir[n] # "directory" /\ (dir[m] = "directory" => dir[n] = "none")
  /\ dir' = [dir EXCEPT ![m] = "none", ![n] = dir[m]]
  /\ queue' = InodeEvent(InodeEvent(DirEvent(queue, "MOVED_TO", n), dir[n], "ATTRIB"),
                         dir[m], "MOVE_SELF")
  /\ UNCHANGED <<content, mod, written, cut>>

\* The last user of an unlinked file is gone; its watch goes with the inode.
Release(ino) ==
  /\ watch[ino] # 0 /\ ~Named(ino) /\ ~Held(fds, ino)
  /\ queue' = InodeEvent(queue, ino, "DELETE_SELF")
  /\ watch' = [watch EXCEPT ![ino] = 0]
  /\ UNCHANGED <<opt, osVars, fds, nextWd, f, table, pc, cur, ret, ev, inotify,
                 anyInput, noWriter, out, cut, mixedUp>>

WriterDies ==
  /\ opt.pid /\ writer = "alive"
  /\ writer' = "dead"
  /\ UNCHANGED <<opt, dir, content, mod, written, ops, kernelVars, f, table, pc, cur,
                 ret, ev, inotify, anyInput, noWriter, out, cut, mixedUp>>

-----------------------------------------------------------------------------
(* One operand.                                                            *)

Target(i) == dir[Files[i]]
Go(at, i) == pc' = at /\ cur' = i
\* The loops over the operands.
NextOperand(at, done) == IF cur < N THEN Go(at, cur + 1) ELSE Go(done, 1)

\* What open and fstat say of a name.
Errno(i) == CASE Target(i) \in {"none", "symlink"} -> "ENOENT"
              [] Target(i) = "unreadable"          -> "EACCES"
              [] OTHER                             -> "0"

\* record_open_fd
RecordOpenFd(i, fd, ino, size) ==
  [f[i] EXCEPT !.fd = fd, !.size = size, !.mtime = mod[ino], !.ino = ino,
               !.unchanged = 0, !.ignore = FALSE, !.errnum = "0"]

\* tail_file, to the end of what is there.
TailFile ==
  /\ pc = "open"
  /\ LET fd == LowestFree(fds)
         e == IF Target(cur) = "directory" THEN "-1" ELSE Errno(cur)
     IN IF e = "0"
        THEN /\ fds' = [fds EXCEPT ![fd] = [ino |-> Target(cur),
                                            pos |-> Len(content[Target(cur)])]]
             /\ f' = [f EXCEPT ![cur].fd = fd]
             /\ out' = [out EXCEPT ![cur] = content[Target(cur)]]
             /\ Go("record", cur)
        ELSE /\ f' = [f EXCEPT ![cur].errnum = e, ![cur].ignore = ~opt.retry]
             /\ NextOperand("open", "choose")
             /\ UNCHANGED <<fds, out>>
  /\ UNCHANGED <<opt, osVars, watch, nextWd, queue, table, ret, ev, inotify,
                 anyInput, noWriter, cut, mixedUp>>

\* A mutant: the size is that of the file now, not that of what was read.
MutReadPos(fd) == Len(content[fds[fd].ino])

ReadPos(fd) == fds[fd].pos

\* It is recorded with the position, because the file may have grown since.
Record ==
  /\ pc = "record"
  /\ LET fd == f[cur].fd
     IN f' = [f EXCEPT ![cur] = RecordOpenFd(cur, fd, fds[fd].ino, ReadPos(fd))]
  /\ NextOperand("open", "choose")
  /\ UNCHANGED <<opt, osVars, kernelVars, table, ret, ev, inotify, anyInput,
                 noWriter, out, cut, mixedUp>>

\* main, from there on.
Choose ==
  /\ pc = "choose"
  /\ LET usable == /\ opt.inotify
                   /\ \E i \in Operands : f[i].fd # 0
                   /\ \A i \in Operands : Target(i) # "symlink"
                   /\ ByName \/ \A i \in Operands : f[i].fd # 0
     IN inotify' = usable /\ Go(IF usable THEN "watch" ELSE "poll", 1)
  /\ UNCHANGED <<opt, osVars, kernelVars, f, table, ret, ev, anyInput, noWriter,
                 out, cut, mixedUp>>

\* A mutant: the old descriptor is not closed when the file was replaced.
MutClosed(i, fd, replaced) == IF replaced THEN 0 ELSE fd

\* The descriptor that recheck closes when all is well.
ClosedBy(i, fd, replaced) == IF replaced THEN f[i].fd ELSE fd

\* recheck: the File_spec and the descriptors after it.
Recheck(i) ==
  LET old == f[i]
      ino == Target(i)
      fd  == LowestFree(fds)
      opened == [fds EXCEPT ![fd] = [ino |-> ino, pos |-> 0]]
      fresh == (old.errnum \notin {"0", "ENOENT"}) \/ old.fd = 0
      replaced == old.ino # ino
      Failed(errnum, ignore) ==
        [spec |-> [old EXCEPT !.errnum = errnum, !.ignore = ignore, !.fd = 0],
         fds  |-> CloseFd(fds, old.fd)]
  IN CASE inotify /\ ino = "symlink" -> Failed("-1", TRUE)
       [] Errno(i) # "0"             -> Failed(Errno(i), old.ignore)
       [] ino = "directory"          -> Failed("-1", ~(opt.retry /\ ByName))
       [] OTHER ->
          IF fresh THEN [spec |-> RecordOpenFd(i, fd, ino, 0), fds |-> opened]
          ELSE [spec |-> IF replaced THEN RecordOpenFd(i, fd, ino, 0)
                                     ELSE [old EXCEPT !.errnum = "0"],
                fds  |-> CloseFd(opened, ClosedBy(i, fd, replaced))]

Rechecked(i) == LET r == Recheck(i) IN f' = [f EXCEPT ![i] = r.spec] /\ fds' = r.fds

\* fstat on a descriptor that is not open.
StatFailed(i) == f' = [f EXCEPT ![i].fd = 0, ![i].errnum = "EBADF"]

Size(i) == Len(content[fds[f[i].fd].ino])

\* A mutant: a file that has not grown counts as truncated.
MutTruncated(i) == Size(i) <= f[i].size

Truncated(i) == Size(i) < f[i].size
Same(i) == Size(i) = f[i].size /\ f[i].mtime = mod[fds[f[i].fd].ino]
\* xlseek to the start.
Rewound(i) == IF Truncated(i) THEN [fds EXCEPT ![f[i].fd].pos = 0] ELSE fds

\* dump_remainder to the end of the file.
Dump ==
  /\ pc = "dump"
  /\ LET fd == f[cur].fd  new == Unread(fd)
     IN /\ out' = [out EXCEPT ![cur] = @ \o new]
        /\ fds' = [fds EXCEPT ![fd].pos = @ + Len(new)]
        /\ f' = [f EXCEPT ![cur].size = @ + Len(new)]
        /\ anyInput' = (anyInput \/ new # << >>)
  /\ CASE ret = "events" -> Go("events", 1)
       [] ret = "again"  -> NextOperand("again", "events")
       [] ret = "poll"   -> NextOperand("poll", "pass")
  /\ UNCHANGED <<opt, osVars, watch, nextWd, queue, table, ret, ev, inotify,
                 noWriter, cut, mixedUp>>

-----------------------------------------------------------------------------
(* tail_forever.                                                           *)

\* n_unchanged_stats after one more time; only its reaching the maximum matters.
Unchanged(i) == IF f[i].unchanged < MaxUnchanged THEN f[i].unchanged + 1
                                                  ELSE f[i].unchanged

PollFile ==
  /\ pc = "poll"
  /\ ret' = "poll"
  /\ LET i == cur
         Skip == f' = f /\ fds' = fds /\ NextOperand("poll", "pass")
     IN CASE f[i].ignore -> Skip
          [] ~f[i].ignore /\ f[i].fd = 0 ->
               Rechecked(i) /\ NextOperand("poll", "pass")
          [] ~f[i].ignore /\ f[i].fd # 0 /\ ~IsOpen(fds, f[i].fd) ->
               StatFailed(i) /\ fds' = fds /\ NextOperand("poll", "pass")
          [] OTHER ->
               IF Same(i)
               THEN /\ IF f[i].unchanged >= MaxUnchanged /\ ByName
                       THEN LET r == Recheck(i)
                            IN /\ f' = [f EXCEPT ![i] = [r.spec EXCEPT !.unchanged = 0]]
                               /\ fds' = r.fds
                       ELSE f' = [f EXCEPT ![i].unchanged = Unchanged(i)] /\ fds' = fds
                    /\ NextOperand("poll", "pass")
               ELSE /\ f' = [f EXCEPT ![i].mtime = mod[fds[f[i].fd].ino],
                                      ![i].unchanged = 0,
                                      ![i].size = IF Truncated(i) THEN 0 ELSE @]
                    /\ fds' = Rewound(i)
                    /\ Go("dump", i)
  /\ UNCHANGED <<opt, osVars, watch, nextWd, queue, table, ev, inotify, anyInput,
                 noWriter, out, cut, mixedUp>>

AnyLive == \/ opt.retry /\ ByName
           \/ \E i \in Operands : f[i].fd # 0 \/ (~f[i].ignore /\ opt.retry)

\* A mutant: once the writer is dead the files are not read again.
MutStop == noWriter \/ (opt.pid /\ writer = "dead")

\* Once the writer is dead, the files are read once more.
Stop == noWriter

PollPass ==
  /\ pc = "pass"
  /\ anyInput' = FALSE
  /\ IF ~AnyLive \/ (~anyInput /\ Stop)
     THEN Go("end", 1) /\ UNCHANGED noWriter
     ELSE /\ Go("poll", 1)
          /\ noWriter' = IF anyInput THEN noWriter ELSE opt.pid /\ writer = "dead"
  /\ UNCHANGED <<opt, osVars, kernelVars, f, table, ret, ev, inotify, out, cut, mixedUp>>

-----------------------------------------------------------------------------
(* tail_forever_inotify.  The wd of an operand without a watch is 0.       *)

NoWatch == [o \in Watchable \cup {"dir"} |-> 0]

\* It returns: main closes the inotify descriptor and polls.
RevertToPolling ==
  /\ Go("poll", 1)
  /\ inotify' = FALSE /\ noWriter' = FALSE
  /\ watch' = NoWatch /\ queue' = << >> /\ table' = {}

\* inotify_add_watch gives the watch that the inode has already, if any.
WdFor(w, o) == IF w[o] # 0 THEN w[o] ELSE nextWd
AddWatch(w, o) == [w EXCEPT ![o] = WdFor(w, o)]
RmWatch(w, wd) == [o \in DOMAIN w |-> IF w[o] = wd THEN 0 ELSE w[o]]
Lookup(t, wd) == { i \in t : f[i].wd = wd }

\* The directory and the file of one operand are watched, in this order.
WatchOperand ==
  /\ pc = "watch"
  /\ \E enough \in Enough :
       CASE f[cur].ignore ->
              /\ NextOperand("watch", "watched")
              /\ UNCHANGED <<inotify, noWriter, f, table, watch, nextWd, queue, mixedUp>>
         [] ~f[cur].ignore /\ ~enough ->
              RevertToPolling /\ UNCHANGED <<f, nextWd, mixedUp>>
         [] OTHER ->
              LET w   == IF ByName THEN AddWatch(watch, "dir") ELSE watch
                  n   == IF w # watch THEN nextWd + 1 ELSE nextWd
                  o   == Target(cur)
                  can == Errno(cur) = "0"
                  wd  == CASE ~can -> 0 [] can /\ w[o] # 0 -> w[o] [] OTHER -> n
              IN /\ f' = [f EXCEPT ![cur].wd = wd, ![cur].parent = ByName]
                 /\ watch' = IF can THEN [w EXCEPT ![o] = wd] ELSE w
                 /\ nextWd' = IF wd = n THEN n + 1 ELSE n
                 /\ table' = IF can /\ Lookup(table, wd) = {} THEN table \cup {cur}
                                                              ELSE table
                 /\ mixedUp' = (mixedUp \/ (can /\ Lookup(table, wd) # {}))
                 /\ NextOperand("watch", "watched")
                 /\ UNCHANGED <<inotify, noWriter, queue>>
  /\ UNCHANGED <<opt, osVars, fds, ret, ev, anyInput, out, cut>>

\* An open file that cannot be watched is followed by polling.
Watched ==
  /\ pc = "watched"
  /\ IF ~ByName /\ \E i \in Operands : ~f[i].ignore /\ f[i].fd # 0 /\ f[i].wd = 0
     THEN RevertToPolling
     ELSE Go("again", 1) /\ UNCHANGED <<inotify, noWriter, watch, queue, table>>
  /\ UNCHANGED <<opt, osVars, fds, nextWd, f, ret, ev, anyInput, out, cut, mixedUp>>

\* New files or data can be there since the last look, before the watch.
LookAgain(i) == ~f[i].ignore

Again ==
  /\ pc = "again"
  /\ ret' = "again"
  /\ IF ~LookAgain(cur)
     THEN /\ NextOperand("again", "events")
          /\ UNCHANGED <<f, fds, inotify, noWriter, watch, queue, table, mixedUp>>
     ELSE \/ /\ ByName
             /\ Rechecked(cur) /\ Go("stat", cur)
             /\ UNCHANGED <<inotify, noWriter, watch, queue, table, mixedUp>>
          \/ /\ ~ByName
             /\ IF /\ f[cur].fd # 0 /\ Target(cur) \notin {"none", "symlink"}
                   /\ Target(cur) # f[cur].ino
                THEN RevertToPolling /\ UNCHANGED mixedUp
                ELSE /\ Go("stat", cur)
                     /\ mixedUp' = (mixedUp \/ (f[cur].fd # 0
                                                /\ watch[f[cur].ino] # f[cur].wd))
                     /\ UNCHANGED <<inotify, noWriter, watch, queue, table>>
             /\ UNCHANGED <<f, fds>>
  /\ UNCHANGED <<opt, osVars, nextWd, ev, anyInput, out, cut>>

\* check_fspec, up to the reading.
CheckFspec ==
  /\ pc = "stat"
  /\ LET i == cur
         Return == IF ret = "again" THEN NextOperand("again", "events") ELSE Go("events", 1)
     IN CASE f[i].fd = 0 -> f' = f /\ fds' = fds /\ Return
          [] f[i].fd # 0 /\ ~IsOpen(fds, f[i].fd) -> StatFailed(i) /\ fds' = fds /\ Return
          [] OTHER ->
               /\ f' = [f EXCEPT ![i].size = IF Truncated(i) THEN 0 ELSE @]
               /\ fds' = Rewound(i)
               /\ IF Same(i) THEN Return ELSE Go("dump", i)
  /\ UNCHANGED <<opt, osVars, watch, nextWd, queue, table, ret, ev, inotify, anyInput,
                 noWriter, out, cut, mixedUp>>

\* The top of the loop over the events, up to poll().
CheckWriter ==
  /\ pc = "events"
  /\ ret' = "events" /\ ev' = NoEvent
  /\ IF (ByName /\ ~opt.retry /\ table = {}) \/ (opt.pid /\ noWriter)
     THEN Go("end", 1) /\ UNCHANGED noWriter
     ELSE Go("wait", 1) /\ noWriter' = (opt.pid /\ writer = "dead")
  /\ UNCHANGED <<opt, osVars, kernelVars, f, table, inotify, anyInput, out, cut, mixedUp>>

\* A mutant: poll() waits for an event in any case.
MutTimesOut == FALSE

\* With --pid, poll() comes back without an event in the end.
TimesOut == opt.pid

\* poll() and the read of an event.
Wait ==
  /\ pc = "wait"
  /\ \/ /\ queue # << >>
        /\ ev' = Head(queue) /\ queue' = Tail(queue)
        /\ Go("event", 1)
     \/ /\ queue = << >> /\ TimesOut
        /\ Go("events", 1)
        /\ UNCHANGED <<ev, queue>>
  /\ UNCHANGED <<opt, osVars, fds, watch, nextWd, f, table, ret, inotify, anyInput,
                 noWriter, out, cut, mixedUp>>

\* The operand that an event of the directory names.
Operand(n) == { i \in Operands : f[i].parent /\ Files[i] = n
                                 /\ \A j \in 1..(i - 1) : Files[j] # n }

\* An event of the directory: the file of that name is watched, in place of
\* what was.
NameEvent ==
  /\ pc = "event" /\ ev.name # "none"
  /\ IF Operand(ev.name) = {}
     THEN Go("events", 1) /\ UNCHANGED <<inotify, noWriter, f, table, watch, nextWd, queue>>
     ELSE \E i \in Operand(ev.name) : \E enough \in Enough :
       LET deleting == ev.mask = "DELETE"
           can == Errno(i) = "0"
           wd  == IF can THEN WdFor(watch, Target(i)) ELSE 0
           new == ~deleting /\ (f[i].wd = 0 \/ wd # f[i].wd)
           rm  == IF new /\ f[i].wd # 0 THEN RmWatch(watch, f[i].wd) ELSE watch
       IN IF ~deleting /\ ~enough
          THEN RevertToPolling /\ UNCHANGED <<f, nextWd>>
          ELSE /\ watch' = IF can /\ ~deleting THEN [rm EXCEPT ![Target(i)] = wd] ELSE rm
               /\ nextWd' = IF can /\ ~deleting /\ wd = nextWd THEN nextWd + 1 ELSE nextWd
               /\ f' = IF new THEN [f EXCEPT ![i].wd = wd] ELSE f
               /\ CASE ~new -> table' = table /\ Go("recheck", i)
                    [] new /\ wd = 0 -> table' = table \ {i} /\ Go("events", 1)
                    [] OTHER ->
                         /\ table' = (table \ {i}) \cup {i}
                         /\ Go(IF Lookup(table \ {i}, wd) # {} THEN "moved" ELSE "recheck", i)
               /\ UNCHANGED <<inotify, noWriter, queue>>
  /\ UNCHANGED <<opt, osVars, fds, ret, ev, anyInput, out, cut, mixedUp>>

\* The file was another operand's, which is looked up anew and then closed.
Moved ==
  /\ pc = "moved"
  /\ \E prev \in Lookup(table \ {cur}, f[cur].wd) :
       LET r == Recheck(prev)
       IN /\ f' = [f EXCEPT ![prev] = [r.spec EXCEPT !.wd = 0]]
          /\ fds' = CloseFd(r.fds, r.spec.fd)
          /\ table' = table \ {prev}
          /\ mixedUp' = (mixedUp \/ r.spec.fd # 0)
  /\ Go("recheck", cur)
  /\ UNCHANGED <<opt, osVars, watch, nextWd, queue, ret, ev, inotify, anyInput, noWriter,
                 out, cut>>

\* The masks after which the name is looked up (again), and nothing is read.
Renaming == {"ATTRIB", "DELETE", "DELETE_SELF", "MOVE_SELF"}

RecheckNamed ==
  /\ pc = "recheck"
  /\ Rechecked(cur)
  /\ Go(IF ev.mask \in Renaming THEN "recheck2" ELSE "stat", cur)
  /\ UNCHANGED <<opt, osVars, watch, nextWd, queue, table, ret, ev, inotify, anyInput,
                 noWriter, out, cut, mixedUp>>

\* An event of a file.
FileEvent ==
  /\ pc = "event" /\ ev.name = "none"
  /\ IF Lookup(table, ev.wd) = {}
     THEN Go("events", 1) /\ table' = table
     ELSE \E i \in Lookup(table, ev.wd) :
            /\ table' = IF ev.mask = "DELETE_SELF" THEN table \ {i} ELSE table
            /\ Go(IF ev.mask \in Renaming THEN "recheck2" ELSE "stat", i)
  /\ UNCHANGED <<opt, osVars, kernelVars, f, ret, ev, inotify, anyInput, noWriter, out, cut, mixedUp>>

RecheckLast ==
  /\ pc = "recheck2"
  /\ Rechecked(cur)
  /\ Go("events", 1)
  /\ UNCHANGED <<opt, osVars, watch, nextWd, queue, table, ret, ev, inotify, anyInput,
                 noWriter, out, cut, mixedUp>>

-----------------------------------------------------------------------------

NewSpec == [fd |-> 0, size |-> 0, mtime |-> 0, ino |-> "none", errnum |-> "0",
            ignore |-> FALSE, unchanged |-> 0, wd |-> 0, parent |-> FALSE]

\* The files are empty at the start.
Init ==
  /\ opt \in Options
  /\ dir \in Starts
  /\ content = [o \in Inodes |-> << >>]
  /\ mod = [o \in Inodes |-> 0]
  /\ written = 0 /\ ops = 0 /\ writer = "alive"
  /\ fds = [d \in 1..(N + 1) |-> Closed]
  /\ watch = NoWatch /\ nextWd = 1 /\ queue = << >>
  /\ f = [i \in Operands |-> NewSpec]
  /\ table = {}
  /\ pc = "open" /\ cur = 1 /\ ret = "poll" /\ ev = NoEvent
  /\ inotify = FALSE /\ anyInput = FALSE /\ noWriter = FALSE
  /\ out = [i \in Operands |-> << >>]
  /\ cut = {} /\ mixedUp = FALSE

TailStep ==
  \/ TailFile \/ Record \/ Choose \/ Dump \/ PollFile \/ PollPass
  \/ WatchOperand \/ Watched \/ Again \/ CheckFspec \/ CheckWriter \/ Wait
  \/ NameEvent \/ Moved \/ RecheckNamed \/ FileEvent \/ RecheckLast

Next ==
  \/ TailStep
  \/ \E ino \in Inodes : Write(ino) \/ Truncate(ino)
  \/ \E ino \in Watchable : Release(ino)
  \/ \E n \in Names : Create(n) \/ Unlink(n)
  \/ \E m, n \in Names : Rename(m, n)
  \/ WriterDies

\* tail runs on, and an inode that nobody uses is freed at last.
Spec == Init /\ [][Next]_vars /\ WF_vars(TailStep)
             /\ WF_vars(\E ino \in Watchable : Release(ino))

-----------------------------------------------------------------------------
(* Properties.                                                             *)

Following == pc \notin {"open", "record"}
Shown(i, ino) == ToSet(content[ino]) \subseteq ToSet(out[i])

\* "File descriptor on which the file is open; -1 if it's not open."
DescriptorIsOpen ==
  Following => \A i \in Operands : f[i].fd # 0 => IsOpen(fds, f[i].fd)

\* The descriptors are tail's own bookkeeping: an operand has one exactly if its
\* last open succeeded (valid_file_spec), it is open on the inode that is recorded,
\* no two operands share one, and none is left over, whatever happens to the names -
\* unless one operand is renamed to another and its name is used again at once.
DescriptorsSound ==
  Following /\ ~mixedUp =>
    /\ \A i \in Operands :
         /\ (f[i].fd = 0) <=> (f[i].errnum # "0")
         /\ f[i].fd # 0 => IsOpen(fds, f[i].fd) /\ fds[f[i].fd].ino = f[i].ino
         /\ \A j \in Operands \ {i} : f[i].fd # 0 => f[i].fd # f[j].fd
    /\ \A d \in DOMAIN fds : IsOpen(fds, d) => \E i \in Operands : f[i].fd = d

\* A file that is followed by descriptor is shown from its start without a gap, as
\* far as its recorded size says, and nothing is shown twice or out of order, even
\* if it is truncated and grows meanwhile.
ShownOnce ==
  Following /\ ~ByName =>
    \A i \in Operands :
      /\ \A k, l \in DOMAIN out[i] : k < l => out[i][k] < out[i][l]
      /\ f[i].fd # 0 /\ f[i].ino \notin cut =>
           out[i] = SubSeq(content[f[i].ino], 1, f[i].size)

\* "Once the writer is dead, read the files once more to avoid a race condition":
\* when tail ends because of --pid, all that was written to the files that it follows
\* by descriptor, and has not just opened because of --retry, has been shown, but for
\* that of which the events have not been read.
WriterHeard ==
  pc = "end" /\ writer = "dead" /\ ~ByName /\ ~opt.retry /\ ~mixedUp /\ queue = << >> =>
    \A i \in Operands : f[i].fd # 0 /\ f[i].ino \notin cut => Shown(i, f[i].ino)

UpToDate(i) ==
  IF ByName
  THEN Target(i) \in Inodes /\ ~f[i].ignore =>
         f[i].ino = Target(i) /\ (f[i].ino \in cut \/ Shown(i, f[i].ino))
  ELSE f[i].fd # 0 => f[i].ino \in cut \/ Shown(i, f[i].ino)

\* When the writers rest, tail comes to show all of the files: by name, those that the
\* names stand for then, unless it has given up on the name.
CatchesUp ==
  <>[](Following /\ (pc = "end" \/ mixedUp \/ \A i \in Operands : UpToDate(i)))

\* tail --pid ends after the writer.
EndsAfterWriter == writer = "dead" ~> pc = "end"
=============================================================================
