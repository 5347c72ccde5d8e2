------------------------------- MODULE Timeout -------------------------------
(***************************************************************************)
(* timeout(1) (timeout.c): a process that starts a command, signals it     *)
(* when its time is up and exits with a status that tells what happened.   *)
(* Its main program is interrupted by signal handlers, which interrupt one *)
(* another (sa_mask is empty), while the command runs, stops and dies on   *)
(* its own.                                                                *)
(*                                                                         *)
(* One action is one step of the main program or of the innermost handler, *)
(* up to the next system call or store that a handler could notice.        *)
(***************************************************************************)
EXTENDS Naturals, Sequences

Signals == {"ALRM", "INT", "TERM", "KILL"}

\* The options of the command line, and the kind of command.
Option ==
  [signal         : Signals,   \* the signal of --signal
   killAfter      : BOOLEAN,   \* --kill-after is given
   foreground     : BOOLEAN,   \* --foreground
   preserveStatus : BOOLEAN,   \* --preserve-status
   docile         : BOOLEAN]   \* the command dies of any signal, not only of KILL

CONSTANTS
  Options,     \* the options to consider
  MaxSignals   \* how many signals others send to timeout

ASSUME OptionsAssumption == Options \subseteq Option /\ MaxSignals \in Nat

\* The ways in which a process ends: by exit, with the status of the command itself,
\* with 124, with 125 or with 128 more than a signal, or by a signal.
Ends == ({"exit"} \X ({"own", "124", "125"} \cup Signals)) \cup ({"signal"} \X Signals)
Running == <<"running", "">>

VARIABLES
  opt,        \* the options given (they never change)
  pc,         \* where the main program is
  frames,     \* the calls of cleanup under way, the innermost one first
  pid,        \* monitored_pid has been stored
  timedOut,   \* timed_out
  term,       \* term_signal
  killAfter,  \* kill_after is not 0
  timer,      \* the timer of the timeout runs
  killTimers, \* how many timers of kill_after run
  pending,    \* the signals that wait for delivery to timeout
  ignored,    \* the signals whose action is SIG_IGN
  command,    \* the child: "none", "forked" (not yet exec'd), "runs", "stopped",
              \* "zombie", "reaped"
  held,       \* the signals that wait for the command to be continued
  cause,      \* how the command ended
  outcome,    \* how timeout ended
  others      \* how many signals others have sent

main == <<opt, pc, pid>>
handler == <<timedOut, term, killAfter, ignored>>
timers == <<timer, killTimers>>
child == <<command, held, cause>>
vars == <<main, frames, handler, timers, pending, child, outcome, others>>

Frame == [sig : Signals, step : {"arm", "settime", "disarm", "send", "group", "cont"},
          got : Signals]

TypeOK ==
  /\ pc \in {"fork", "store", "settime", "block", "wait", "polled", "suspend", "woken",
            "status"}
  /\ frames \in Seq(Frame)
  /\ opt \in Option
  /\ pid \in BOOLEAN /\ timedOut \in BOOLEAN /\ killAfter \in BOOLEAN /\ timer \in BOOLEAN
  /\ term \in Signals
  /\ killTimers \in Nat
  /\ pending \subseteq Signals \cup {"CHLD"}
  /\ ignored \subseteq Signals
  /\ command \in {"none", "forked", "runs", "stopped", "zombie", "reaped"}
  /\ held \subseteq Signals
  /\ cause \in Ends \cup {Running} /\ outcome \in Ends \cup {Running}
  /\ others \in 0..MaxSignals

\* The options are known and the handlers installed.
Init ==
  /\ opt \in Options
  /\ pc = "fork" /\ frames = << >> /\ pid = FALSE
  /\ timedOut = FALSE /\ term = opt.signal /\ killAfter = opt.killAfter /\ ignored = {}
  /\ timer = FALSE /\ killTimers = 0
  /\ pending = {}
  /\ command = "none" /\ held = {} /\ cause = Running
  /\ outcome = Running /\ others = 0

-----------------------------------------------------------------------------
(* The command.                                                            *)

Alive == command \in {"forked", "runs", "stopped"}

\* SIGCHLD is sent when the command dies.
Dies(how, signals) ==
  /\ command' = "zombie" /\ cause' = how /\ held' = {}
  /\ pending' = signals \cup {"CHLD"}

\* kill (monitored_pid, sig), where otherwise signals are pending.  Before exec the
\* child has the handlers of timeout, with a monitored_pid of 0: it exits.
Kill(sig, signals) ==
  \/ /\ ~Alive /\ UNCHANGED child /\ pending' = signals
  \/ /\ command = "forked"
     /\ IF sig = "KILL" THEN Dies(<<"signal", sig>>, signals)
                        ELSE Dies(<<"exit", sig>>, signals)
  \/ /\ command = "runs" /\ Dies(<<"signal", sig>>, signals)
  \/ /\ command = "runs" /\ sig # "KILL" /\ ~opt.docile /\ UNCHANGED child /\ pending' = signals
  \/ /\ command = "stopped" /\ sig = "KILL" /\ Dies(<<"signal", sig>>, signals)
  \/ /\ command = "stopped" /\ sig # "KILL" /\ held' = held \cup {sig}
     /\ UNCHANGED <<command, cause>> /\ pending' = signals

\* kill (monitored_pid, SIGCONT): the command meets the signals it has been sent.
Continue ==
  \/ /\ command # "stopped" /\ UNCHANGED <<child, pending>>
  \/ /\ command = "stopped" /\ \E sig \in held : Dies(<<"signal", sig>>, pending)
  \/ /\ command = "stopped" /\ (held = {} \/ ~opt.docile)
     /\ command' = "runs" /\ held' = {} /\ UNCHANGED <<cause, pending>>

Execs ==
  /\ command = "forked" /\ command' = "runs"
  /\ UNCHANGED <<main, frames, handler, timers, pending, held, cause, outcome, others>>

\* The command exits, or cannot be executed, or is killed by a signal that timeout did
\* not send.
Ended ==
  /\ \/ command \in {"forked", "runs"} /\ Dies(<<"exit", "own">>, pending)
     \/ command = "runs" /\ \E sig \in {"INT", "KILL"} : Dies(<<"signal", sig>>, pending)
  /\ UNCHANGED <<main, frames, handler, timers, outcome, others>>

Stops ==
  /\ command = "runs" /\ command' = "stopped"
  /\ UNCHANGED <<main, frames, handler, timers, pending, held, cause, outcome, others>>

-----------------------------------------------------------------------------
(* Signals and timers.                                                     *)

Raised(sig) == IF sig \in ignored THEN pending ELSE pending \cup {sig}

\* Somebody signals timeout, but not the command.
OtherSignal ==
  /\ others < MaxSignals /\ others' = others + 1
  /\ \E sig \in {"INT", "TERM"} : pending' = Raised(sig)
  /\ UNCHANGED <<main, frames, handler, timers, child, outcome>>

TimerExpires ==
  /\ \/ timer /\ timer' = FALSE /\ UNCHANGED killTimers
     \/ killTimers > 0 /\ killTimers' = killTimers - 1 /\ UNCHANGED timer
  /\ pending' = Raised("ALRM")
  /\ UNCHANGED <<main, frames, handler, child, outcome, others>>

\* Mutants: nothing is blocked; SIGCHLD is not.
MutOpen(sig) == TRUE
MutOpenChld(sig) ==
  sig = "CHLD" \/ pc \in {"fork", "store", "settime", "block", "suspend", "woken"}

\* Whether sig is delivered: block_cleanup_and_chld blocks the signals of cleanup and
\* SIGCHLD, except during sigsuspend, which returns after a handler has run.
Open(sig) == pc \in {"fork", "store", "settime", "block", "suspend", "woken"}

\* A signal stays blocked while its own handler runs.
Deliverable(sig) ==
  sig \in pending /\ Open(sig) /\ \A i \in DOMAIN frames : frames[i].got # sig

Woken == IF pc = "suspend" THEN "woken" ELSE pc

\* chld
DeliverChld ==
  /\ Deliverable("CHLD")
  /\ pending' = pending \ {"CHLD"}
  /\ pc' = Woken
  /\ UNCHANGED <<opt, pid, frames, handler, timers, child, outcome, others>>

\* install_cleanup (SIGQUIT and SIGHUP are like SIGINT).
Caught == {"ALRM", "INT", "TERM", opt.signal}

\* The beginning of cleanup: without a monitored_pid, timeout exits.
DeliverCleanup ==
  \E got \in Caught :
    LET sig == IF got = "ALRM" THEN term ELSE got IN
    /\ Deliverable(got)
    /\ pending' = pending \ {got}
    /\ timedOut' = (timedOut \/ got = "ALRM")
    /\ IF pid
       THEN /\ frames' = <<[sig |-> sig, step |-> "arm", got |-> got]>> \o frames
            /\ pc' = Woken /\ UNCHANGED outcome
       ELSE outcome' = <<"exit", sig>> /\ UNCHANGED <<frames, pc>>
    /\ UNCHANGED <<opt, pid, term, killAfter, ignored, timers, child, others>>

-----------------------------------------------------------------------------
(* cleanup, in the order of its statements.                                *)

At(step) == frames # << >> /\ frames[1].step = step
Sig == frames[1].sig
Go(step) == frames' = [frames EXCEPT ![1].step = step]
Back == frames' = Tail(frames)

\* if (kill_after) term_signal = SIGKILL
Arm ==
  /\ At("arm")
  /\ IF killAfter THEN term' = "KILL" /\ Go("settime")
                  ELSE UNCHANGED term /\ Go("send")
  /\ UNCHANGED <<main, timedOut, killAfter, ignored, timers, pending, child, outcome, others>>

\* settimeout (kill_after, false) creates a timer of its own (timer_create).
SetKillTimer ==
  /\ At("settime") /\ Go("disarm")
  /\ killTimers' = killTimers + 1
  /\ UNCHANGED <<main, handler, timer, pending, child, outcome, others>>

Disarm ==
  /\ At("disarm") /\ Go("send")
  /\ killAfter' = FALSE
  /\ UNCHANGED <<main, timedOut, term, ignored, timers, pending, child, outcome, others>>

\* send_sig (monitored_pid, sig)
Send ==
  /\ At("send")
  /\ Kill(Sig, pending)
  /\ IF opt.foreground THEN Back ELSE Go("group")
  /\ UNCHANGED <<main, handler, timers, outcome, others>>

\* send_sig (0, sig): the command gets the signal a second time, and timeout ignores it
\* unless it is SIGKILL.
Group ==
  /\ At("group")
  /\ IF Sig = "KILL"
     THEN /\ Kill(Sig, pending)
          /\ outcome' = <<"signal", "KILL">>
          /\ UNCHANGED <<frames, ignored>>
     ELSE /\ Kill(Sig, pending \ {Sig}) /\ Go("cont")
          /\ ignored' = ignored \cup {Sig}
          /\ UNCHANGED outcome
  /\ UNCHANGED <<main, timedOut, term, killAfter, timers, others>>

\* A mutant: SIGCONT is not sent.
MutCont ==
  /\ At("cont") /\ Back
  /\ UNCHANGED <<main, handler, timers, pending, child, outcome, others>>

\* send_sig (monitored_pid, SIGCONT) and to the group.
Cont ==
  /\ At("cont") /\ Back
  /\ Continue
  /\ UNCHANGED <<main, handler, timers, outcome, others>>

Cleanup == Arm \/ SetKillTimer \/ Disarm \/ Send \/ Group \/ Cont

-----------------------------------------------------------------------------
(* The main program, while no handler runs.                                *)

Fork ==
  /\ pc = "fork"
  /\ \/ command' = "forked" /\ pc' = "store" /\ UNCHANGED outcome
     \/ outcome' = <<"exit", "125">> /\ UNCHANGED <<command, pc>>
  /\ UNCHANGED <<opt, pid, frames, handler, timers, pending, held, cause, others>>

\* The result of fork() is stored in monitored_pid.
StorePid ==
  /\ pc = "store" /\ pc' = "settime" /\ pid' = TRUE
  /\ UNCHANGED <<opt, frames, handler, timers, pending, child, outcome, others>>

\* settimeout (timeout, true); a duration of 0 starts no timer.
SetTimer ==
  /\ pc = "settime" /\ pc' = "block" /\ timer' \in BOOLEAN
  /\ UNCHANGED <<opt, pid, frames, handler, killTimers, pending, child, outcome, others>>

Block ==
  /\ pc = "block" /\ pc' = "wait"
  /\ UNCHANGED <<opt, pid, frames, handler, timers, pending, child, outcome, others>>

\* waitpid (monitored_pid, &status, WNOHANG)
WaitPid ==
  /\ pc = "wait"
  /\ IF command = "zombie" THEN pc' = "status" /\ command' = "reaped"
                           ELSE pc' = "polled" /\ UNCHANGED command
  /\ UNCHANGED <<opt, pid, frames, handler, timers, pending, held, cause, outcome, others>>

\* sigsuspend (&cleanup_set)
Suspend ==
  /\ pc = "polled" /\ pc' = "suspend"
  /\ UNCHANGED <<opt, pid, frames, handler, timers, pending, child, outcome, others>>

SuspendReturns ==
  /\ pc = "woken" /\ pc' = "wait"
  /\ UNCHANGED <<opt, pid, frames, handler, timers, pending, child, outcome, others>>

\* A mutant: a command that had to be killed counts as timed out.
MutStatus(preserve) ==
  IF timedOut /\ ~preserve THEN <<"exit", "124">> ELSE <<"exit", cause[2]>>

\* The exit status, where preserve is preserve_status.
Status(preserve) ==
  IF timedOut /\ ~preserve /\ cause # <<"signal", "KILL">>
  THEN <<"exit", "124">> ELSE <<"exit", cause[2]>>

\* A command killed by a signal: raise the same if core dumps can be disabled.
Exit ==
  /\ pc = "status"
  /\ outcome' \in {Status(opt.preserveStatus)}
                   \cup (IF cause[1] = "signal" /\ ~timedOut THEN {cause} ELSE {})
  /\ UNCHANGED <<main, frames, handler, timers, pending, child, others>>

Main == frames = << >> /\ \/ Fork \/ StorePid \/ SetTimer \/ Block
                          \/ WaitPid \/ Suspend \/ SuspendReturns \/ Exit
Deliver == DeliverChld \/ DeliverCleanup
Command == Execs \/ Ended \/ Stops

Next ==
  \/ outcome = Running /\ (Main \/ Cleanup \/ Deliver \/ TimerExpires \/ OtherSignal)
  \/ Command

\* timeout is scheduled, its signals are delivered and its timers expire; the command
\* is scheduled at least until it has been executed.
Spec ==
  /\ Init /\ [][Next]_vars
  /\ WF_vars(outcome = Running /\ (Main \/ Cleanup))
  /\ WF_vars(outcome = Running /\ DeliverChld)
  /\ WF_vars(outcome = Running /\ DeliverCleanup)
  /\ WF_vars(outcome = Running /\ TimerExpires)
  /\ WF_vars(Execs)

-----------------------------------------------------------------------------
(* Properties.                                                             *)

\* After waitpid has reaped the command, whose pid may then be that of another
\* process, no handler is left that would signal it ("so we never kill processes
\* after waitpid() returns").
NoSignalAfterReap == command = "reaped" => frames = << >>

\* The exit tells what happened: without a timeout how the command ended, and with one
\* whether the command had to be killed ("Allow users to distinguish if command was
\* forcably killed"); 124 only where the command's own status is not asked for.
StatusTells ==
  pid /\ outcome # Running =>
    /\ ~timedOut => outcome \in {cause, <<"exit", cause[2]>>, <<"signal", "KILL">>}
    /\ timedOut /\ cause = <<"signal", "KILL">> => outcome[2] = "KILL"
    /\ outcome = <<"exit", "124">> => ~opt.preserveStatus

\* A command that is out of time comes to its end: by the signal, for which it is
\* continued if it has stopped, or else by SIGKILL ("also send a KILL signal if COMMAND
\* is still running this long after the initial signal was sent").
TimedOutEnds == timedOut ~> ~Alive

\* timeout notices the end of the command: SIGCHLD cannot slip in between waitpid and
\* sigsuspend.
EndNoticed == command = "zombie" /\ pid ~> outcome # Running
=============================================================================
