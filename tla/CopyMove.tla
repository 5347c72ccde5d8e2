------------------------------ MODULE CopyMove ------------------------------
(***************************************************************************)
(* cp and mv (copy.c, mv.c, cp.c): one or more processes copy or move      *)
(* regular files, to another name or into a directory, on the same device  *)
(* or across two, with backups and hard links. A step is a system call     *)
(* that changes a directory or a file, or the decisions up to the next.    *)
(*                                                                         *)
(* The contents of a file are the inode that held them at the start; a     *)
(* file that is being written, or was left half written, is torn.          *)
(***************************************************************************)
EXTENDS Integers, Sequences, FiniteSets, FiniteSetsExt

CONSTANTS
  Procs,        \* the processes
  Inodes,       \* pairs of a device and a number, reused when they are free
  Device,       \* the device of each directory, a function
  Cwd,          \* the current directory
  Cases,        \* what is on disk and which commands run, at the start
  Faults,       \* the calls that may fail: a subset of Calls
  MaxFaults,    \* bound: how many of them fail
  Killable      \* whether a process may be killed at any point

Calls == {"rename", "open", "create", "write", "link", "unlink", "remove"}

(* A name is a directory, a base and what backups have appended to it: 0   *)
(* for the simple suffix, n for .~n~.                                      *)
NoName == [dir |-> "", base |-> "", sfx |-> << >>]
Suffixed(name, n) == [name EXCEPT !.sfx = Append(@, n)]
Torn == << "torn" >>
NoInode == << >>

ASSUME CopyAssumption ==
  /\ Cwd \in DOMAIN Device
  /\ \A i \in Inodes : i[1] \in {Device[d] : d \in DOMAIN Device}
  /\ Faults \subseteq Calls
  /\ MaxFaults \in Nat
  /\ Killable \in BOOLEAN
  /\ \A c \in Cases : /\ DOMAIN c.cmd \subseteq Procs
                      /\ \A p \in DOMAIN c.cmd : Len(c.cmd[p].from) \in Nat
                      /\ \A n \in DOMAIN c.dir : /\ c.dir[n] \in Inodes
                                                 /\ c.dir[n][1] = Device[n.dir]

(* What names are made of; no inode is Torn, and a disk has finitely many  *)
(* names.                                                                  *)
Name == [dir : DOMAIN Device, base : STRING, sfx : Seq(Nat)]

ASSUME NameAssumption ==
  /\ Torn \notin Inodes
  /\ \A c \in Cases : /\ IsFiniteSet(DOMAIN c.dir) /\ DOMAIN c.dir \subseteq Name
                      /\ \A p \in DOMAIN c.cmd :
                           /\ c.cmd[p].to \in Name
                           /\ \A k \in 1 .. Len(c.cmd[p].from) : c.cmd[p].from[k] \in Name

VARIABLES
  case,     \* the case that runs: constant after Init
  dir,      \* the names there are, with their inodes
  data,     \* what each inode holds
  pc, loc,  \* where each process is, and the locals of its call of copy
  ok,       \* what main will exit with
  seen,     \* x->src_info and x->dest_info
  copies,   \* src_to_dest
  faults    \* the calls that have failed

vars == << case, dir, data, pc, loc, ok, seen, copies, faults >>

-----------------------------------------------------------------------------
\* The command line of a process

Cmd(p) == case.cmd[p]
Operands(p) == Cmd(p).from
Source(p, k) == Operands(p)[k]

(* Into a directory each file keeps its base name; otherwise there is one  *)
(* file and its new name.                                                  *)
Into(p) == Cmd(p).to.base = ""
Dest(p, k) == IF Into(p) THEN [Source(p, k) EXCEPT !.dir = Cmd(p).to.dir]
              ELSE Cmd(p).to

(* The tables of files seen are there only when there are several.         *)
HasTables(p) == Into(p) /\ Len(Operands(p)) > 1
LastFile(p) == ~ Into(p) \/ loc[p].k = Len(Operands(p))
Src(p) == Source(p, loc[p].k)
Dst(p) == Dest(p, loc[p].k)
Moves(p) == Cmd(p).move
Keeps(p) == Cmd(p).keep    \* -n
Links(p) == Cmd(p).link    \* cp -l
Backup(p) == Cmd(p).backup

-----------------------------------------------------------------------------
\* The file system

Exists(name) == name \in DOMAIN dir
Names(i) == {n \in DOMAIN dir : dir[n] = i}
Nlink(i) == Cardinality(Names(i))
SameDevice(n, m) == Device[n.dir] = Device[m.dir]
Without(d, name) == [n \in DOMAIN d \ {name} |-> d[n]]
Entered(d, name, i) == [n \in DOMAIN d \cup {name} |-> IF n = name THEN i ELSE d[n]]

(* rename(2) does nothing when both names are links to the same file.      *)
Renamed(d, from, to) ==
  IF to \in DOMAIN d /\ d[to] = d[from] THEN d
  ELSE Entered(Without(d, from), to, d[from])

(* An inode is free when no name stands for it and nobody has it open.     *)
Free(dev) == {i \in Inodes : /\ i[1] = dev
                             /\ Names(i) = {}
                             /\ \A p \in Procs : i \notin {loc[p].in, loc[p].out}}

(* RENAME_NOREPLACE and O_EXCL: the name must not exist.                   *)
MutVacant(name) == TRUE
Vacant(name) == ~ Exists(name)

MayFail(call) == call \in Faults /\ faults < MaxFaults
Fails == faults' = faults + 1
Works == faults' = faults

-----------------------------------------------------------------------------
Fresh(k) == [k |-> k,               \* the operand
             err |-> "",            \* rename_errno
             src |-> NoInode,       \* src_sb: the inode of the source
             nlink |-> 0,           \*         and its links
             new |-> FALSE,         \* new_dst
             aside |-> NoName,      \* dst_backup
             earlier |-> NoName,    \* earlier_file
             renamed |-> FALSE,     \* *rename_succeeded
             then |-> "",           \* what follows a hard link
             in |-> NoInode, out |-> NoInode,   \* the open files of copy_reg
             why |-> ""]            \* the last error message

Init == /\ case \in Cases
        /\ dir = case.dir
        /\ data = [i \in Inodes |-> i]
        /\ pc = [p \in Procs |-> IF p \in DOMAIN case.cmd THEN "next" ELSE "exit"]
        /\ loc = [p \in Procs |-> Fresh(0)]
        /\ ok = [p \in Procs |-> TRUE]
        /\ seen = [p \in Procs |-> [src |-> {}, dest |-> {}]]
        /\ copies = [p \in Procs |-> << >>]
        /\ faults = 0

At(p, label) == pc[p] = label
Go(p, label) == pc' = [pc EXCEPT ![p] = label]
Files == << case, dir, data, faults >>
Tables == << seen, copies >>

(* copy returns: a failure is remembered for the exit status; after a      *)
(* success that was no rename mv removes the source.                       *)
Return(p, good) ==
  /\ ok' = [ok EXCEPT ![p] = @ /\ good]
  /\ Go(p, IF good /\ Moves(p) /\ ~ loc'[p].renamed THEN "remove" ELSE "next")

Set(p, field, value) == loc' = [loc EXCEPT ![p][field] = value]

(* error() and return false, before anything has to be undone.             *)
Refuse(p, why) == Set(p, "why", why) /\ Return(p, FALSE)

(* error() and goto un_backup.                                             *)
Undo(p, why) ==
  /\ loc' = [loc EXCEPT ![p].why = why, ![p].in = NoInode, ![p].out = NoInode]
  /\ Go(p, "undo")
  /\ UNCHANGED ok

-----------------------------------------------------------------------------
\* The tables of cp-hash.c

Remembered(p, i) == i \in DOMAIN copies[p]

(* remember_copied: the name entered first stays.                          *)
RememberCopied(p, i, name) ==
  copies' = IF Remembered(p, i) THEN copies
            ELSE [copies EXCEPT ![p] = Entered(@, i, name)]

ForgetCreated(p, i) == copies' = [copies EXCEPT ![p] = Without(@, i)]
Lookup(p, i) == IF Remembered(p, i) THEN copies[p][i] ELSE NoName

-----------------------------------------------------------------------------
(* main, do_copy: the next operand, or the end.                            *)
NextOperand(p) ==
  /\ At(p, "next")
  /\ IF loc[p].k < Len(Operands(p))
       THEN /\ loc' = [loc EXCEPT ![p] = Fresh(@.k + 1)]
            /\ Go(p, IF Moves(p) THEN "try" ELSE "source")
       ELSE Go(p, "exit") /\ UNCHANGED loc
  /\ UNCHANGED << Files, Tables, ok >>

(* The first thing mv does: a rename that replaces nothing. The kernel     *)
(* looks at the devices before the names.                                  *)
TryRename(p) ==
  LET result(err) == /\ loc' = [loc EXCEPT ![p].err = err, ![p].new = (err = "0"),
                                           ![p].renamed = (err = "0")]
                     /\ Go(p, "source")
                     /\ UNCHANGED << case, data, ok, Tables >>
  IN /\ At(p, "try")
     /\ \/ ~ SameDevice(Src(p), Dst(p)) /\ result("EXDEV") /\ UNCHANGED dir /\ Works
        \/ /\ SameDevice(Src(p), Dst(p))
           /\ \/ ~ Exists(Src(p)) /\ result("ENOENT") /\ UNCHANGED dir /\ Works
              \/ /\ Exists(Src(p)) /\ Exists(Dst(p))
                 /\ result("EEXIST") /\ UNCHANGED dir /\ Works
              \/ /\ Exists(Src(p)) /\ Vacant(Dst(p))
                 /\ \/ result("0") /\ dir' = Renamed(dir, Src(p), Dst(p)) /\ Works
                    \/ MayFail("rename") /\ result("EACCES") /\ UNCHANGED dir /\ Fails

(* The status of the source (under its new name when it has been renamed   *)
(* and more files follow), and the check for a source given twice.         *)
SkipsStat(p) == \/ loc[p].err = "0" /\ LastFile(p)
                \/ loc[p].err = "EEXIST" /\ Keeps(p)
GivenTwice(p, i) == HasTables(p) /\ ~ Moves(p) /\ Backup(p) = "none"
                    /\ << Src(p), i >> \in seen[p].src

StatSource(p) ==
  LET name == IF loc[p].err = "0" THEN Dst(p) ELSE Src(p)
      further == Go(p, IF loc[p].err = "0" THEN "renamed" ELSE "dest")
  IN /\ At(p, "source")
     /\ \/ SkipsStat(p) /\ further /\ UNCHANGED << loc, ok, seen >>
        \/ /\ ~ SkipsStat(p)
           /\ \/ ~ Exists(name) /\ Refuse(p, "stat") /\ UNCHANGED seen
              \/ /\ Exists(name) /\ GivenTwice(p, dir[name])
                 /\ UNCHANGED << loc, seen >> /\ Return(p, TRUE)
              \/ /\ Exists(name) /\ ~ GivenTwice(p, dir[name])
                 /\ loc' = [loc EXCEPT ![p].src = dir[name], ![p].nlink = Nlink(dir[name])]
                 /\ seen' = [seen EXCEPT ![p].src =
                               IF HasTables(p) /\ ~ Moves(p)
                                 THEN @ \cup {<< Src(p), dir[name] >>} ELSE @]
                 /\ further /\ UNCHANGED ok
     /\ UNCHANGED << Files, copies >>

-----------------------------------------------------------------------------
\* What may be done about a destination that exists

(* same_file_ok, for regular files.                                        *)
SameFileOk(p) ==
  LET d == dir[Dst(p)]
      otherName == Src(p) # Dst(p)
  IN \/ d # loc[p].src
     \/ Links(p)
     \/ Backup(p) # "none" /\ otherName
     \/ /\ Backup(p) = "none" /\ ~ Moves(p) /\ Cmd(p).removeFirst
        /\ Nlink(d) > 1 /\ otherName

MutJustCreated(p) == /\ HasTables(p)
                     /\ Backup(p) # "numbered"
                     /\ << Src(p), dir[Dst(p)] >> \in seen[p].dest
JustCreated(p) == /\ HasTables(p)
                  /\ Backup(p) # "numbered"
                  /\ << Dst(p), dir[Dst(p)] >> \in seen[p].dest

(* source_is_dst_backup: the bases decide, then the inodes.                *)
SourceIsBackup(p) ==
  LET name == Suffixed(Dst(p), 0)
  IN /\ Backup(p) # "numbered"
     /\ Src(p).base = name.base /\ Src(p).sfx = name.sfx
     /\ Exists(name) /\ dir[name] = loc[p].src

MutMustUnlink(p) == ~ Moves(p) /\ Cmd(p).removeFirst
MutInMoveMode(p) == \/ Cmd(p).removeFirst
                    \/ Cmd(p).preserve /\ Nlink(dir[Dst(p)]) > 1
MustUnlink(p) == ~ Moves(p) /\ \/ Cmd(p).removeFirst
                               \/ Cmd(p).preserve /\ Nlink(dir[Dst(p)]) > 1

(* --update finds the destination no older: nothing is copied, but the     *)
(* pair is remembered, and a name that a link of the source was copied to  *)
(* is linked here.                                                         *)
UpToDate(p) ==
  /\ RememberCopied(p, loc[p].src, Dst(p))
  /\ loc' = [loc EXCEPT ![p].renamed = TRUE,
                        ![p].earlier = Lookup(p, loc[p].src),
                        ![p].then = "done"]
  /\ IF Remembered(p, loc[p].src) THEN Go(p, "link") /\ UNCHANGED ok
     ELSE Return(p, TRUE)

(* -n, or cp -l of a file onto itself: nothing is done.                    *)
LeaveIt(p) == Set(p, "renamed", Moves(p)) /\ Return(p, TRUE)

(* The checks of an existing destination, in their order.                  *)
Verdict(p) ==
  IF Keeps(p) THEN "leave"
  ELSE IF ~ SameFileOk(p) THEN "same"
  ELSE IF Links(p) /\ dir[Dst(p)] = loc[p].src THEN "leave"
  ELSE IF JustCreated(p) THEN "created"
  ELSE IF Backup(p) # "none"
         THEN IF SourceIsBackup(p) THEN "source" ELSE "backup"
  ELSE IF MustUnlink(p) THEN "unlink" ELSE "lookup"

(* mv, which has been told that the destination exists, finds it gone: the *)
(* checks are made all the same, of a status that stat has not filled in,  *)
(* so that each may go either way. A backup finds nothing to move aside.   *)
Vanished(p) ==
  \/ Refuse(p, "unset") /\ UNCHANGED copies
  \/ Cmd(p).update /\ UpToDate(p)
  \/ /\ Backup(p) = "none" \/ ~ SourceIsBackup(p)
     /\ Set(p, "new", TRUE) /\ Go(p, IF Backup(p) = "none" THEN "lookup" ELSE "backup")
     /\ UNCHANGED << ok, copies >>

StatDest(p) ==
  LET left == Keeps(p) /\ loc[p].err = "EEXIST"   \* then there is no stat
      there == ~ left /\ Exists(Dst(p))
      gone == ~ left /\ ~ Exists(Dst(p))
  IN /\ At(p, "dest")
     /\ UNCHANGED << Files, seen >>
     /\ \/ left /\ LeaveIt(p) /\ UNCHANGED copies
        \/ /\ gone /\ loc[p].err # "EEXIST"
           /\ Set(p, "new", TRUE) /\ Go(p, "lookup") /\ UNCHANGED << ok, copies >>
        \/ gone /\ loc[p].err = "EEXIST" /\ Vanished(p)
        \/ there /\ Cmd(p).update /\ SameFileOk(p) /\ UpToDate(p)
        \/ /\ there   \* with -u: the destination is older
           /\ UNCHANGED copies
           /\ \/ Verdict(p) \in {"same", "created", "source"} /\ Refuse(p, Verdict(p))
              \/ Verdict(p) = "leave" /\ LeaveIt(p)
              \/ /\ Verdict(p) \in {"backup", "unlink", "lookup"}
                 /\ Set(p, "err", "EEXIST") /\ Go(p, Verdict(p)) /\ UNCHANGED ok

-----------------------------------------------------------------------------
\* Making room for the new file

(* The last thing that a backup has appended, and the numbers of those     *)
(* that there are of a name.                                               *)
Number(name) == name.sfx[Len(name.sfx)]
Numbers(name) ==
  {Number(b) : b \in {b \in DOMAIN dir : /\ b.sfx # << >> /\ b = Suffixed(name, Number(b))
                                         /\ Number(b) \in Nat \ {0}}}
IsNumbered(p) == \/ Backup(p) = "numbered"
                 \/ Backup(p) = "existing" /\ Numbers(Dst(p)) # {}

(* backupfile_internal: a number above those in use; or the simple suffix, *)
(* with which a backup that no directory was opened for goes, under the    *)
(* base name, to the current directory.                                    *)
BackupName(p) ==
  IF IsNumbered(p) THEN Suffixed(Dst(p), Max({0} \cup Numbers(Dst(p))) + 1)
  ELSE IF Backup(p) = "simple" /\ Into(p)
         THEN [Suffixed(Dst(p), 0) EXCEPT !.dir = Cwd]
  ELSE Suffixed(Dst(p), 0)

NameBackup(p) ==
  /\ At(p, "backup")
  /\ Set(p, "aside", BackupName(p)) /\ Go(p, "aside")
  /\ UNCHANGED << Files, Tables, ok >>

(* The rename of the destination; a numbered one must not exist yet, and   *)
(* if it does the directory is read again.                                 *)
MutTaken(p) == FALSE
Taken(p) == Number(loc[p].aside) # 0 /\ Exists(loc[p].aside)
MoveAside(p) ==
  LET aside == loc[p].aside
      noBackup(why) == loc' = [loc EXCEPT ![p].aside = NoName, ![p].new = (why = ""),
                                          ![p].why = why]
  IN /\ At(p, "aside")
     /\ UNCHANGED << case, data, Tables >>
     /\ \/ /\ ~ SameDevice(aside, Dst(p))
           /\ noBackup("backup") /\ Return(p, FALSE) /\ UNCHANGED dir /\ Works
        \/ /\ SameDevice(aside, Dst(p)) /\ ~ Exists(Dst(p))
           /\ noBackup("") /\ Go(p, "lookup") /\ UNCHANGED << dir, ok >> /\ Works
        \/ /\ SameDevice(aside, Dst(p)) /\ Exists(Dst(p)) /\ Taken(p)
           /\ Go(p, "backup") /\ UNCHANGED << dir, ok, loc >> /\ Works
        \/ /\ SameDevice(aside, Dst(p)) /\ Exists(Dst(p)) /\ ~ Taken(p)
           /\ \/ /\ dir' = Renamed(dir, Dst(p), aside) /\ Works
                 /\ Set(p, "new", TRUE) /\ Go(p, "lookup") /\ UNCHANGED ok
              \/ /\ MayFail("rename") /\ Fails /\ noBackup("backup")
                 /\ Return(p, FALSE) /\ UNCHANGED dir

(* cp removes a destination that it must not write through.                *)
UnlinkDest(p) ==
  /\ At(p, "unlink")
  /\ \/ /\ dir' = Without(dir, Dst(p)) /\ Works
        /\ Set(p, "new", TRUE) /\ Go(p, "lookup") /\ UNCHANGED ok
     \/ MayFail("unlink") /\ Refuse(p, "unlink") /\ UNCHANGED dir /\ Fails
  /\ UNCHANGED << case, data, Tables >>

-----------------------------------------------------------------------------
\* The same file copied before: a hard link

(* The pair is entered, or only looked up, or neither.                     *)
MutOnlyLooks(p) == FALSE
OnlyLooks(p) == Moves(p) /\ loc[p].nlink = 1
Enters(p) == /\ ~ OnlyLooks(p) /\ Cmd(p).preserve /\ ~ Links(p)
             /\ (loc[p].nlink > 1 \/ Cmd(p).deref)

FindEarlier(p) ==
  LET earlier == IF OnlyLooks(p) \/ Enters(p) THEN Lookup(p, loc[p].src) ELSE NoName
  IN /\ At(p, "lookup")
     /\ IF Enters(p) THEN RememberCopied(p, loc[p].src, Dst(p)) ELSE UNCHANGED copies
     /\ loc' = [loc EXCEPT ![p].earlier = earlier,
                           ![p].then = IF earlier # NoName THEN "done" ELSE "record"]
     /\ Go(p, IF earlier # NoName \/ Links(p) THEN "link"
              ELSE IF Moves(p) THEN "rename" ELSE "open")
     /\ UNCHANGED << Files, seen, ok >>

(* force_linkat: when the name exists and is to be replaced, the link gets *)
(* a temporary name, which is renamed, and unlinked whether or not that    *)
(* changed anything; whether it could be unlinked is not looked at, and a  *)
(* temporary name that stays for that reason is left out.                  *)
Target(p) == IF loc[p].earlier # NoName THEN loc[p].earlier ELSE Src(p)
Replaces(p) == loc[p].earlier # NoName \/ Cmd(p).force
Temp(p) == [Dst(p) EXCEPT !.base = "Cu", !.sfx = << p >>]   \* try_tempname: unused
Linked(p) == IF loc[p].then = "done" THEN Return(p, TRUE)
             ELSE Go(p, loc[p].then) /\ UNCHANGED ok
Linkable(p) == Exists(Target(p)) /\ SameDevice(Target(p), Dst(p))

LinkTo(p, name, next) ==
  \/ /\ dir' = Entered(dir, name, dir[Target(p)]) /\ Works
     /\ UNCHANGED loc /\ next
  \/ MayFail("link") /\ Undo(p, "link") /\ UNCHANGED dir /\ Fails

LinkDest(p) ==
  /\ At(p, "link")
  /\ \/ Linkable(p) /\ ~ Exists(Dst(p)) /\ LinkTo(p, Dst(p), Linked(p))
     \/ /\ Linkable(p) /\ Exists(Dst(p)) /\ Replaces(p)
        /\ Go(p, "linktemp") /\ UNCHANGED << dir, loc, ok >> /\ Works
     \/ /\ ~ Linkable(p) \/ (Exists(Dst(p)) /\ ~ Replaces(p))
        /\ Undo(p, "link") /\ UNCHANGED dir /\ Works
  /\ UNCHANGED << case, data, Tables >>

LinkTemp(p) ==
  /\ At(p, "linktemp")
  /\ \/ Linkable(p) /\ LinkTo(p, Temp(p), Go(p, "swap") /\ UNCHANGED ok)
     \/ ~ Linkable(p) /\ Undo(p, "link") /\ UNCHANGED dir /\ Works
  /\ UNCHANGED << case, data, Tables >>

RenameTemp(p) ==
  /\ At(p, "swap")
  /\ \/ dir' = Renamed(dir, Temp(p), Dst(p)) /\ UNCHANGED loc /\ Works
     \/ MayFail("rename") /\ Set(p, "then", "undo") /\ UNCHANGED dir /\ Fails
  /\ Go(p, "untemp")
  /\ UNCHANGED << case, data, Tables, ok >>

UnlinkTemp(p) ==
  /\ At(p, "untemp")
  /\ dir' = Without(dir, Temp(p))
  /\ UNCHANGED << case, data, faults, Tables, loc >>
  /\ Linked(p)

-----------------------------------------------------------------------------
\* Moving by rename

(* The second rename, onto a destination that exists; otherwise what the   *)
(* first one said still holds.                                             *)
CannotMove(p) == /\ ForgetCreated(p, loc[p].src)
                 /\ Refuse(p, "move") /\ UNCHANGED dir
Rename(p) ==
  /\ At(p, "rename")
  /\ UNCHANGED << case, data, seen >>
  /\ \/ /\ loc[p].err = "EEXIST" /\ SameDevice(Src(p), Dst(p)) /\ Exists(Src(p))
        /\ \/ /\ dir' = Renamed(dir, Src(p), Dst(p)) /\ Works
              /\ Set(p, "renamed", TRUE) /\ Go(p, "renamed") /\ UNCHANGED << copies, ok >>
           \/ MayFail("rename") /\ CannotMove(p) /\ Fails
     \/ /\ \/ loc[p].err \in {"ENOENT", "EACCES"}
           \/ loc[p].err = "EEXIST" /\ SameDevice(Src(p), Dst(p)) /\ ~ Exists(Src(p))
        /\ CannotMove(p) /\ Works
     \/ /\ loc[p].err = "EXDEV" \/ (loc[p].err = "EEXIST" /\ ~ SameDevice(Src(p), Dst(p)))
        /\ Set(p, "err", "EXDEV") /\ Go(p, "clear") /\ UNCHANGED << dir, copies, ok >> /\ Works

RecordDest(p, i) ==
  seen' = IF HasTables(p) THEN [seen EXCEPT ![p].dest = @ \cup {<< Dst(p), i >>}] ELSE seen

(* A file that was renamed is recorded by the status of its source, unless *)
(* it is the last.                                                         *)
RecordRenamed(p) ==
  /\ At(p, "renamed")
  /\ IF LastFile(p) THEN UNCHANGED seen ELSE RecordDest(p, loc[p].src)
  /\ UNCHANGED << Files, loc, copies >>
  /\ Return(p, TRUE)

(* Across devices the destination is removed first, if there is one.       *)
ClearDest(p) ==
  /\ At(p, "clear")
  /\ \/ /\ dir' = Without(dir, Dst(p)) /\ Works
        /\ Set(p, "new", TRUE) /\ Go(p, "open") /\ UNCHANGED << copies, ok >>
     \/ MayFail("unlink") /\ CannotMove(p) /\ Fails
  /\ UNCHANGED << case, data, seen >>

-----------------------------------------------------------------------------
\* copy_reg

(* The source must still be the file that was looked at. A destination     *)
(* that is not new is truncated; with -f one that cannot be opened is      *)
(* removed, unless that fails too (the two failures count as one).         *)
Replaced(p) == ~ Exists(Src(p)) \/ dir[Src(p)] # loc[p].src
OpenFiles(p) ==
  LET truncate == /\ data' = [data EXCEPT ![dir[Dst(p)]] = Torn]
                  /\ loc' = [loc EXCEPT ![p].in = loc[p].src, ![p].out = dir[Dst(p)]]
                  /\ Go(p, "write") /\ UNCHANGED << dir, ok >>
      create == /\ loc' = [loc EXCEPT ![p].in = loc[p].src, ![p].new = TRUE]
                /\ Go(p, "create") /\ UNCHANGED << data, ok >>
  IN /\ At(p, "open")
     /\ UNCHANGED << case, Tables >>
     /\ \/ Replaced(p) /\ Undo(p, "replaced") /\ UNCHANGED << dir, data >> /\ Works
        \/ /\ ~ Replaced(p) /\ (loc[p].new \/ ~ Exists(Dst(p)))
           /\ create /\ UNCHANGED dir /\ Works
        \/ /\ ~ Replaced(p) /\ ~ loc[p].new /\ Exists(Dst(p))
           /\ \/ truncate /\ Works
              \/ MayFail("open") /\ Cmd(p).force /\ create /\ dir' = Without(dir, Dst(p)) /\ Fails
              \/ MayFail("open") /\ Undo(p, "open") /\ UNCHANGED << dir, data >> /\ Fails

(* O_CREAT | O_EXCL.                                                       *)
Create(p) ==
  /\ At(p, "create")
  /\ UNCHANGED << case, Tables >>
  /\ \/ /\ Vacant(Dst(p))
        /\ \E i \in Free(Device[Dst(p).dir]) :
             /\ dir' = Entered(dir, Dst(p), i)
             /\ data' = [data EXCEPT ![i] = Torn]
             /\ Set(p, "out", i)
        /\ Go(p, "write") /\ UNCHANGED ok /\ Works
     \/ Exists(Dst(p)) /\ Undo(p, "create") /\ UNCHANGED << dir, data >> /\ Works
     \/ MayFail("create") /\ Undo(p, "create") /\ UNCHANGED << dir, data >> /\ Fails

(* All the data, or an error somewhere, which leaves a part.               *)
Write(p) ==
  /\ At(p, "write")
  /\ UNCHANGED << case, dir, Tables >>
  /\ \/ /\ data' = [data EXCEPT ![loc[p].out] = data[loc[p].in]]
        /\ loc' = [loc EXCEPT ![p].in = NoInode, ![p].out = NoInode]
        /\ Go(p, "record") /\ UNCHANGED ok /\ Works
     \/ MayFail("write") /\ Undo(p, "write") /\ UNCHANGED data /\ Fails

RecordCopied(p) ==
  /\ At(p, "record")
  /\ IF Exists(Dst(p)) THEN RecordDest(p, dir[Dst(p)]) ELSE UNCHANGED seen
  /\ UNCHANGED << Files, loc, copies >>
  /\ Return(p, TRUE)

(* do_move: rm of the source that has been copied.                         *)
RemoveSource(p) ==
  /\ At(p, "remove")
  /\ \/ Exists(Src(p)) /\ dir' = Without(dir, Src(p)) /\ UNCHANGED ok /\ Works
     \/ ~ Exists(Src(p)) /\ ok' = [ok EXCEPT ![p] = FALSE] /\ UNCHANGED dir /\ Works
     \/ MayFail("remove") /\ ok' = [ok EXCEPT ![p] = FALSE] /\ UNCHANGED dir /\ Fails
  /\ Go(p, "next")
  /\ UNCHANGED << case, data, Tables, loc >>

(* un_backup: the entry just made is removed, and the backup gets its name *)
(* back, if it is where it is looked for: next to the destination.         *)
MutUnBackup(p) ==
  LET backup == [loc[p].aside EXCEPT !.dir = Dst(p).dir]
  IN /\ At(p, "undo")
     /\ IF loc[p].earlier = NoName THEN ForgetCreated(p, loc[p].src) ELSE UNCHANGED copies
     /\ \/ /\ loc[p].aside # NoName /\ Exists(backup) /\ ~ Exists(Dst(p))
           /\ \/ dir' = Renamed(dir, backup, Dst(p)) /\ Works
              \/ MayFail("rename") /\ UNCHANGED dir /\ Fails
        \/ (loc[p].aside = NoName \/ ~ Exists(backup) \/ Exists(Dst(p))) /\ UNCHANGED dir /\ Works
     /\ UNCHANGED << case, data, seen, loc >>
     /\ Return(p, FALSE)

UnBackup(p) ==
  LET backup == [loc[p].aside EXCEPT !.dir = Dst(p).dir]
  IN /\ At(p, "undo")
     /\ IF loc[p].earlier = NoName THEN ForgetCreated(p, loc[p].src) ELSE UNCHANGED copies
     /\ \/ /\ loc[p].aside # NoName /\ Exists(backup)
           /\ \/ dir' = Renamed(dir, backup, Dst(p)) /\ Works
              \/ MayFail("rename") /\ UNCHANGED dir /\ Fails
        \/ (loc[p].aside = NoName \/ ~ Exists(backup)) /\ UNCHANGED dir /\ Works
     /\ UNCHANGED << case, data, seen, loc >>
     /\ Return(p, FALSE)

Kill(p) ==
  /\ Killable /\ pc[p] \notin {"exit", "killed"}
  /\ Go(p, "killed")
  /\ loc' = [loc EXCEPT ![p].in = NoInode, ![p].out = NoInode]
  /\ UNCHANGED << Files, Tables, ok >>

-----------------------------------------------------------------------------
Step(p) == \/ NextOperand(p) \/ TryRename(p) \/ StatSource(p) \/ StatDest(p)
           \/ NameBackup(p) \/ MoveAside(p) \/ UnlinkDest(p) \/ FindEarlier(p)
           \/ LinkDest(p) \/ LinkTemp(p) \/ RenameTemp(p) \/ UnlinkTemp(p)
           \/ Rename(p) \/ RecordRenamed(p) \/ ClearDest(p)
           \/ OpenFiles(p) \/ Create(p) \/ Write(p) \/ RecordCopied(p)
           \/ RemoveSource(p) \/ UnBackup(p)

Done == \A p \in Procs : pc[p] \in {"exit", "killed"}
Next == (\E p \in Procs : Step(p) \/ Kill(p)) \/ (Done /\ UNCHANGED vars)

Spec == Init /\ [][Next]_vars
Fairness == \A p \in Procs : WF_vars(Step(p))
FairSpec == Spec /\ Fairness

-----------------------------------------------------------------------------
(* Properties                                                              *)

Running == DOMAIN case.cmd
Alone == \A p, q \in Running : p = q
Numbered(p) == 1 .. Len(Operands(p))   \* the numbers of its operands
Content(p, k) == case.dir[Source(p, k)]
Held(v) == \E n \in DOMAIN dir : data[dir[n]] = v
Holds(name, v) == Exists(name) /\ data[dir[name]] = v
Overwrites(p, k) == Dest(p, k) \in DOMAIN case.dir

(* Whatever happens - a call that fails, a process that is killed, a       *)
(* second process - what cp copies stays where it is, and what mv moves is *)
(* somewhere, whole, at every moment: the source goes only when the copy   *)
(* is complete, and no later operand overwrites what an earlier one        *)
(* brought.                                                                *)
NothingLost ==
  \A p \in Running : \A k \in Numbered(p) :
    IF Moves(p) THEN Held(Content(p, k)) ELSE Holds(Source(p, k), Content(p, k))

(* With --backup what a destination held before is not lost either, by a   *)
(* process that is alone, or by several as long as no call of theirs       *)
(* fails: the backup is made before anything is done to the destination,   *)
(* and an earlier backup of the same command is not overwritten by a later *)
(* one. (A simple backup into a directory goes elsewhere: BystandersKept.) *)
BacksUp(p) == Backup(p) # "none" /\ ~ (Backup(p) = "simple" /\ Into(p))
OldKept ==
  \A p \in Running : \A k \in Numbered(p) :
    BacksUp(p) /\ Overwrites(p, k) /\ (Alone \/ faults = 0) => Held(case.dir[Dest(p, k)])

(* When a process says it succeeded (and none of -n and -u let it leave    *)
(* something out), each destination holds what the source did, or one of   *)
(* its numbered backups does, and mv has left no source behind. (cp -l     *)
(* leaves a destination that is a link already to a later operand. With    *)
(* two processes the backup that one restores may replace the copy of      *)
(* another.)                                                               *)
Arrived(p, k) ==
  \/ Holds(Dest(p, k), Content(p, k))
  \/ Backup(p) = "numbered"
     /\ \E n \in Numbers(Dest(p, k)) : Holds(Suffixed(Dest(p, k), n), Content(p, k))
  \/ Links(p) /\ Overwrites(p, k) /\ case.dir[Dest(p, k)] = Content(p, k)
SuccessTells ==
  \A p \in Running :
    Alone /\ At(p, "exit") /\ ok[p] /\ ~ Keeps(p) /\ ~ Cmd(p).update =>
      \A k \in Numbered(p) : /\ Arrived(p, k)
                             /\ Moves(p) => ~ Exists(Source(p, k))

(* With --preserve=links, and with mv, destinations (all different) are    *)
(* links to one file exactly when the sources were.                        *)
LinksKept ==
  \A p \in Running :
    /\ At(p, "exit") /\ ok[p] /\ Cmd(p).preserve /\ ~ Keeps(p) /\ ~ Cmd(p).update
    /\ \A j, k \in Numbered(p) : j # k => Dest(p, j) # Dest(p, k)
    => \A j, k \in Numbered(p) :
          j # k => (dir[Dest(p, j)] = dir[Dest(p, k)] <=> Content(p, j) = Content(p, k))

(* On one device mv without a backup replaces a destination in one step,   *)
(* as cp -l -f does: there is never a moment at which the name is missing  *)
(* or the file is incomplete. (When it preserves links, cp -l -f removes a *)
(* destination that has other names before it links.)                      *)
Atomically(p, k) == /\ SameDevice(Source(p, k), Dest(p, k))
                    /\ Backup(p) = "none"
                    /\ Moves(p) \/ (Links(p) /\ Cmd(p).force /\ ~ Cmd(p).removeFirst
                                                  /\ ~ Cmd(p).preserve)
NeverMissing ==
  \A p \in Running : \A k \in Numbered(p) :
    Overwrites(p, k) /\ Atomically(p, k) =>
      Exists(Dest(p, k)) /\ data[dir[Dest(p, k)]] # Torn

(* When a copy fails after its backup was made, the backup gets its name   *)
(* back, over whatever part of the copy there is (another process may have *)
(* moved it, so the process is alone here). This is not so of mv when it   *)
(* cannot rename the source or remove the destination: it returns without  *)
(* un_backup, and the backup keeps its own name.                           *)
Restored ==
  \A p \in Running :
    /\ Alone /\ At(p, "next") /\ loc[p].k = 1 /\ Overwrites(p, 1)
    /\ loc[p].why \in {"link", "replaced", "open", "create", "write"}
    /\ BacksUp(p)
    => Holds(Dest(p, 1), case.dir[Dest(p, 1)])

(* With -n a file that is whole under a name that a process copies or     *)
(* moves to is never replaced, removed or changed, by that process or by   *)
(* one of any number of others that run at the same time, provided that    *)
(* each of them makes its destinations in one step: mv across devices      *)
(* looks at the destination first and removes it later.                    *)
AtOnce(p) ==
  IF Moves(p) THEN /\ ~ Links(p)
                   /\ \A k \in Numbered(p) : SameDevice(Source(p, k), Dest(p, k))
              ELSE ~ Cmd(p).preserve /\ ~ (Links(p) /\ Cmd(p).force)
Targets == UNION {{Dest(p, k) : k \in Numbered(p)} : p \in Running}
Kept == \A p \in Running : /\ Keeps(p) /\ ~ Cmd(p).update
                           /\ Alone \/ AtOnce(p)
                           /\ \A k \in Numbered(p) : Source(p, k) \notin Targets
NoClobber ==
  [][Kept => \A n \in Targets \cap DOMAIN dir :
       data[dir[n]] # Torn => /\ n \in DOMAIN dir'
                              /\ dir'[n] = dir[n]
                              /\ data'[dir[n]] = data[dir[n]]]_vars

(* A process changes its sources, its destinations and their backups,      *)
(* which are next to them, and no other file.                              *)
Bystanders ==
  {n \in DOMAIN case.dir : \A p \in Running : \A k \in Numbered(p) :
      n \notin {Source(p, k), Dest(p, k), Suffixed(Dest(p, k), 0)}}
BystandersKept == \A n \in Bystanders : Holds(n, case.dir[n])
=============================================================================
