------------------------------- MODULE VmsPipe -------------------------------
(***************************************************************************)
(* The FIFO that the VMS port puts into a pipe between a process and its   *)
(* child (vms_vm_pipe.c): asynchronous system traps (ASTs) read from the   *)
(* mailbox of the writing side into a queue of buffers in memory, and      *)
(* write from there to the mailbox of the reading side, while another      *)
(* chain of ASTs watches whether the child is alive.                       *)
(*                                                                         *)
(* One action is one AST, which runs to its end before another one is      *)
(* delivered, or one step of the processes and the system around them:     *)
(* mailbox drivers, process lookup and timer are external and modelled by  *)
(* what the code expects of them.                                          *)
(***************************************************************************)
EXTENDS Integers, Sequences, SequencesExt

CONSTANTS
  Directions, \* of the pipe: 1, the parent writes and the child reads; 0, the other way
  NMessages,  \* how many messages the writer sends
  BoxSize     \* how many messages a mailbox holds before its writer has to wait

ASSUME ParametersAssumption ==
  Directions \subseteq {0, 1} /\ NMessages \in Nat /\ BoxSize \in Nat \ {0}

Eof == 0                     \* an end-of-file message or buffer
Data == 1..NMessages         \* the messages, numbered as they are written
None == -1                   \* no buffer; as the result of a read: SS$_NOWRITER or SS$_CANCEL

\* The fields of mbx, which is struct vms_mbx with the I/O that is under way for it:
\*   direction  see Directions
\*   read       read_ast_status: -1, shutting down
\*   write      write_ast_status: 1, a write is under way
\*   watch      child_watch_ast_status: 0, 1, 2, or -1, the child is gone
\*   knows      child_pid is that of the child
\*   queue      the buffers between rbuf_flink and rbuf_blink
\*   active     rbuf_active
\*   rchan      read_chan is assigned
\*   wchan      write_chan is assigned
\*   reading    a read waits for a message
\*   writing    a write waits for the reader
\*   lookup     a SYS$GETJPI is under way
\*   timer      the timer runs
\*   freed      the context has been freed
\* An AST is its routine ("read", "write", "jpi" or "timer") with what it finds: the
\* message read, whether the message written was read (or SS$_NOREADER), whether the
\* child was found.
VARIABLES
  mbx,     \* the context of the FIFO
  box,     \* the messages in the mailbox that the FIFO reads
  asts,    \* the ASTs that wait for delivery
  sent,    \* how many messages the writer has written
  writer,  \* the writing side: "open", "closing" (the end of file is written),
           \* "closed" or, without an end of file, "killed"
  reader,  \* whether the reading side has
  alive,   \* whether the child exists
  got,     \* what the reader has read
  ended    \* whether the reader has come to the end of the file

vars == <<mbx, box, asts, sent, writer, reader, alive, got, ended>>

\* install_fifo and the first call of vms_read_mbx_ast: the read that starts the
\* chain has been issued.
Init ==
  /\ \E d \in Directions :
       mbx = [direction |-> d, read |-> 0, write |-> 0, watch |-> 0, knows |-> FALSE,
              queue |-> << >>, active |-> None, rchan |-> TRUE, wchan |-> TRUE,
              reading |-> TRUE, writing |-> FALSE, lookup |-> FALSE, timer |-> FALSE,
              freed |-> FALSE]
  /\ box = << >> /\ asts = << >> /\ sent = 0 /\ got = << >>
  /\ writer = "open" /\ reader = TRUE /\ alive = TRUE /\ ended = FALSE

-----------------------------------------------------------------------------
(* The code runs on a record s of what it can change: the context c, the   *)
(* mailbox box and the ASTs asts.                                          *)

State == [c |-> mbx, box |-> box, asts |-> asts]
Becomes(s) == mbx' = s.c /\ box' = s.box /\ asts' = s.asts

NoWriter == writer \in {"closed", "killed"}

\* SYS$QIO of a read with IO$M_WRITERCHECK.
QioRead(s) ==
  CASE s.box # << >> -> [s EXCEPT !.box = Tail(@),
                                  !.asts = Append(@, <<"read", Head(s.box)>>)]
    [] s.box = << >> /\ NoWriter -> [s EXCEPT !.asts = Append(@, <<"read", None>>)]
    [] OTHER -> [s EXCEPT !.c.reading = TRUE]

\* SYS$QIO of a write with IO$M_READERCHECK; it completes when the reader reads.
QioWrite(s) ==
  IF reader THEN [s EXCEPT !.c.writing = TRUE]
            ELSE [s EXCEPT !.asts = Append(@, <<"write", FALSE>>)]

\* SYS$DASSGN of read_chan cancels the read that waits.
DeassignRead(s) ==
  [s EXCEPT !.c = [@ EXCEPT !.rchan = FALSE, !.reading = FALSE],
            !.asts = IF s.c.reading THEN Append(@, <<"read", None>>) ELSE @]

\* What the watcher may learn at once of its pid: whether there is no such process.
\* The pid of a write that found no reader is not the child's.
Gone == IF mbx.knows THEN {~alive} ELSE BOOLEAN

-----------------------------------------------------------------------------
(* The child watcher.                                                      *)

\* check_if_child_is_alive_ast; gone: SYS$GETJPI fails at once.
CheckIfChildIsAlive(s, gone) ==
  CASE s.c.read >= 0 /\ gone     -> DeassignRead([s EXCEPT !.c.watch = -1])
    [] s.c.read >= 0 /\ ~gone    -> [s EXCEPT !.c = [@ EXCEPT !.watch = 1, !.lookup = TRUE]]
    [] s.c.read < 0 /\ s.c.write < 0 -> [s EXCEPT !.c.freed = TRUE]
    [] OTHER                     -> s

\* start_child_watcher; known: the status block holds the child's pid.
StartChildWatcher(s, known, gone) ==
  IF s.c.watch = 0
  THEN CheckIfChildIsAlive([s EXCEPT !.c = [@ EXCEPT !.watch = 1, !.knows = known]], gone)
  ELSE s

-----------------------------------------------------------------------------
(* vms_write_mbx_ast.                                                      *)

\* A mutant: the context is freed although the watcher still uses it.
MutFinish(s) == [s EXCEPT !.c.wchan = FALSE, !.c.freed = TRUE]

\* The writing process is done and the queue is empty.
Finish(s) == [s EXCEPT !.c = [@ EXCEPT !.wchan = FALSE, !.freed = s.c.watch <= 0]]

\* Write the next buffer; the write fails only without a channel, and then the
\* buffers are dropped.
WriteNext(s) ==
  CASE s.c.queue # << >> /\ s.c.wchan ->
         QioWrite([s EXCEPT !.c = [@ EXCEPT !.write = 1, !.active = Head(s.c.queue),
                                            !.queue = Tail(s.c.queue)]])
    [] s.c.queue # << >> /\ ~s.c.wchan -> [s EXCEPT !.c = [@ EXCEPT !.write = 0,
                                                                    !.queue = << >>]]
    [] s.c.queue = << >> /\ s.c.read < 0 -> Finish(s)
    [] OTHER -> s

\* After a write, successful or without a reader; then the queue is dropped, so
\* that the writer does not have to wait.
WriteMbx(s, normal, gone) ==
  LET dropped == IF normal THEN s ELSE [s EXCEPT !.c.queue = << >>]
      watched == IF s.c.active # None /\ s.c.direction = 1
                 THEN StartChildWatcher(dropped, normal, gone)
                 ELSE dropped
  IN WriteNext([watched EXCEPT !.c = [@ EXCEPT !.active = None, !.write = 0]])

\* Start writing if no write is under way (write_iosb is cleared).
StartWrite(s) == IF s.c.write = 0 THEN WriteNext(s) ELSE s

-----------------------------------------------------------------------------
(* vms_read_mbx_ast.                                                       *)

\* A mutant: a buffer is put in front of the queue.
MutEnqueue(s, m) == [s EXCEPT !.c.queue = <<m>> \o @]

Enqueue(s, m) == [s EXCEPT !.c.queue = Append(@, m)]

\* A mutant: the next read waits until the last buffer has been written.
MutNextRead(s) ==
  CASE s.c.watch >= 0 /\ s.c.write = 1 -> s
    [] s.c.watch >= 0 /\ s.c.write = 0 -> QioRead(s)
    [] OTHER -> StartWrite([s EXCEPT !.c.read = -1])

\* Set up the next read, or shut down where the child is gone.
NextRead(s) ==
  IF s.c.watch >= 0 THEN QioRead(s) ELSE StartWrite([s EXCEPT !.c.read = -1])

WatchWriter(s, gone) ==
  IF s.c.direction = 0 THEN StartChildWatcher(s, TRUE, gone) ELSE s

\* The first message tells the child's pid.  When the child is gone, the data just
\* read is taken to be the last.
ReadData(s, m, gone) ==
  LET queued == Enqueue(WatchWriter(s, gone), m)
      last == IF queued.c.watch = -1 THEN DeassignRead(Enqueue(queued, Eof)) ELSE queued
  IN NextRead(StartWrite(last))

\* A mutant: the end of the file only stops the reading.
MutReadEof(s, gone) == NextRead(StartWrite(WatchWriter(s, gone)))

ReadEof(s, gone) == NextRead(StartWrite(Enqueue(WatchWriter(s, gone), Eof)))

\* No writer is left, or the read was cancelled.
ReadEnd(s) == DeassignRead([s EXCEPT !.c.read = -1])

-----------------------------------------------------------------------------
(* Delivery of ASTs.                                                       *)

Environment == <<sent, writer, reader, alive, got, ended>>

\* The state in which the next AST, routine ast, runs.
Next1(ast) == asts # << >> /\ asts[1][1] = ast
Rest == [State EXCEPT !.asts = Tail(@)]
Found == asts[1][2]

ReadMbxAst ==
  /\ Next1("read")
  /\ \/ Found \in Data /\ Becomes(ReadData(Rest, Found, ~alive))
     \/ Found = Eof /\ Becomes(ReadEof(Rest, ~alive))
     \/ Found = None /\ Becomes(ReadEnd(Rest))
  /\ UNCHANGED Environment

WriteMbxAst ==
  /\ Next1("write")
  /\ \E gone \in IF Found THEN {~alive} ELSE BOOLEAN :
       Becomes(WriteMbx(Rest, Found, gone))
  /\ UNCHANGED Environment

CheckIfChildIsAliveAst ==
  /\ Next1("timer")
  /\ \E gone \in Gone : Becomes(CheckIfChildIsAlive(Rest, gone))
  /\ UNCHANGED Environment

\* vms_watch_child_ast: the lookup has found the child or not.
WatchChildAst ==
  /\ Next1("jpi")
  /\ Becomes(CASE mbx.read >= 0 /\ ~Found -> [Rest EXCEPT !.c.watch = -1]
               [] mbx.read >= 0 /\ Found  -> [Rest EXCEPT !.c = [@ EXCEPT !.watch = 2, !.timer = TRUE]]
               [] mbx.read < 0 /\ mbx.write < 0 -> [Rest EXCEPT !.c.freed = TRUE]
               [] OTHER -> Rest)
  /\ UNCHANGED Environment

-----------------------------------------------------------------------------
(* The system and the processes.                                           *)

TimerExpires ==
  /\ mbx.timer
  /\ Becomes([State EXCEPT !.c.timer = FALSE, !.asts = Append(@, <<"timer", TRUE>>)])
  /\ UNCHANGED Environment

LookupCompletes ==
  /\ mbx.lookup
  /\ \E gone \in Gone :
       Becomes([State EXCEPT !.c.lookup = FALSE, !.asts = Append(@, <<"jpi", ~gone>>)])
  /\ UNCHANGED Environment

\* The message goes to the read that waits for it, or into the mailbox; without a
\* channel that reads the mailbox it is lost.
Deliver(m) ==
  Becomes(CASE mbx.reading -> [State EXCEPT !.c.reading = FALSE,
                                            !.asts = Append(@, <<"read", m>>)]
            [] ~mbx.reading /\ mbx.rchan -> [State EXCEPT !.box = Append(@, m)]
            [] OTHER -> State)

\* The writer waits (RWMBX) while the mailbox is full.
Room == Len(box) < BoxSize \/ ~mbx.rchan

\* A write to the broken pipe fails.
WriterWrites ==
  /\ writer = "open" /\ sent < NMessages /\ mbx.rchan /\ Room
  /\ sent' = sent + 1
  /\ Deliver(sent + 1)
  /\ UNCHANGED <<writer, reader, alive, got, ended>>

\* close() writes an end of file first.
WriterCloses ==
  /\ writer = "open" /\ Room
  /\ writer' = "closing"
  /\ Deliver(Eof)
  /\ UNCHANGED <<sent, reader, alive, got, ended>>

\* The last channel of the writer is deassigned, after close() or because the child
\* is killed: a read that waits finds no writer.
WriterGone ==
  /\ \/ writer = "closing" /\ writer' = "closed"
     \/ writer = "open" /\ mbx.direction = 0 /\ writer' = "killed"
  /\ Becomes(IF mbx.reading THEN [State EXCEPT !.c.reading = FALSE,
                                               !.asts = Append(@, <<"read", None>>)]
                            ELSE State)
  /\ UNCHANGED <<sent, reader, alive, got, ended>>

ChildExits ==
  /\ alive
  /\ IF mbx.direction = 0 THEN NoWriter ELSE ~reader
  /\ alive' = FALSE
  /\ UNCHANGED <<mbx, box, asts, sent, writer, reader, got, ended>>

\* A write completes when its message is read.
ReaderReads ==
  /\ reader /\ ~ended /\ mbx.writing
  /\ IF mbx.active = Eof THEN ended' = TRUE /\ got' = got
                         ELSE ended' = ended /\ got' = Append(got, mbx.active)
  /\ Becomes([State EXCEPT !.c.writing = FALSE, !.asts = Append(@, <<"write", TRUE>>)])
  /\ UNCHANGED <<sent, writer, reader, alive>>

\* With no channel left that writes, the reader is at the end of the file.
ReaderSeesNoWriter ==
  /\ reader /\ ~ended /\ ~mbx.writing /\ ~mbx.wchan
  /\ ended' = TRUE
  /\ UNCHANGED <<mbx, box, asts, sent, writer, reader, alive, got>>

ReaderCloses ==
  /\ reader
  /\ reader' = FALSE
  /\ Becomes(IF mbx.writing THEN [State EXCEPT !.c.writing = FALSE,
                                               !.asts = Append(@, <<"write", FALSE>>)]
                            ELSE State)
  /\ UNCHANGED <<sent, writer, alive, got, ended>>

System == \/ ReadMbxAst \/ WriteMbxAst \/ CheckIfChildIsAliveAst \/ WatchChildAst
          \/ TimerExpires \/ LookupCompletes
Processes == \/ WriterWrites \/ WriterCloses \/ WriterGone \/ ChildExits
             \/ ReaderReads \/ ReaderSeesNoWriter \/ ReaderCloses
Next == System \/ Processes

\* ASTs are delivered, timers expire and lookups complete, whatever the processes do.
Spec == /\ Init /\ [][Next]_vars
        /\ WF_vars(ReadMbxAst \/ WriteMbxAst \/ CheckIfChildIsAliveAst \/ WatchChildAst)
        /\ WF_vars(TimerExpires) /\ WF_vars(LookupCompletes)

\* Where the reader, too, keeps reading until the end of the file.
ReaderReadsOn == WF_vars(ReaderReads) /\ WF_vars(ReaderSeesNoWriter)

-----------------------------------------------------------------------------
(* Properties.                                                             *)

Sent == [i \in 1..sent |-> i]

\* What is on its way, in order: read, being written, queued, found by the read AST
\* that waits for delivery, and in the mailbox.
Pipeline ==
  LET active == IF mbx.writing THEN <<mbx.active>> ELSE << >>
      reads == {i \in DOMAIN asts : asts[i][1] = "read" /\ asts[i][2] # None}
      found == IF reads = {} THEN << >> ELSE <<asts[CHOOSE i \in reads : TRUE][2]>>
  IN got \o active \o mbx.queue \o found \o box

\* As long as the FIFO reads from the writer and somebody reads from it, every
\* message written is in exactly one place, in the order of the writes: read,
\* queued in memory, or in the mailbox; an end of file is behind them all, and only
\* where the writer has written it.  Afterwards, whatever is dropped is dropped from
\* the end.
NothingLost ==
  /\ reader /\ mbx.rchan => \/ Pipeline = Sent
                            \/ Pipeline = Append(Sent, Eof) /\ writer # "open"
  /\ IsPrefix(got, Sent)

\* A reader that sees the end of the file has read all that was written ("This FIFO
\* drains the outpuf from the child into the parent until the parent decides to read
\* it", lines 978-979).
DrainedAtEnd == ended => got = Sent

\* It holds in the other direction, where the end of the file comes from the parent:
\* a child that comes to it has read everything, whatever else has happened.
ChildGetsAll == mbx.direction = 1 => DrainedAtEnd

\* free(context) is the last use of the context: no I/O, lookup, timer or AST that
\* will touch it is left.
NoUseAfterFree ==
  mbx.freed => asts = << >> /\ ~mbx.reading /\ ~mbx.writing /\ ~mbx.lookup /\ ~mbx.timer

\* The writer does not stay blocked in RWMBX, whether or not anybody reads: the FIFO
\* moves messages out of the mailbox into memory, or breaks the pipe.
Blocked == writer = "open" /\ ~Room
WriterNotBlocked == Blocked ~> ~Blocked

\* After an orderly close by the writer, a reader that keeps reading comes to the end.
ReaderEnds == ReaderReadsOn => (writer = "closed" ~> (ended \/ ~reader))
=============================================================================
