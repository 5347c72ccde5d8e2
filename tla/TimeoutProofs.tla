---------------------------- MODULE TimeoutProofs ----------------------------
(***************************************************************************)
(* Theorems about Timeout, for any set of options and any number of        *)
(* signals from others: timeout does not signal a pid that it has reaped,  *)
(* and its exit status tells how the command ended.                        *)
(***************************************************************************)
EXTENDS Timeout, SequenceTheorems, TLAPS

-----------------------------------------------------------------------------
(* Type correctness.                                                       *)

LEMMA WaysToEnd ==
  /\ \A sig \in Signals : <<"signal", sig>> \in Ends /\ <<"exit", sig>> \in Ends
  /\ \A st \in {"own", "124", "125"} : <<"exit", st>> \in Ends
  /\ \A e \in Ends : <<"exit", e[2]>> \in Ends
BY DEF Ends

LEMMA KillType ==
  ASSUME TypeOK, NEW sig \in Signals, NEW signals \in SUBSET (Signals \cup {"CHLD"}),
         Kill(sig, signals)
  PROVE  /\ command' \in {"none", "forked", "runs", "stopped", "zombie", "reaped"}
         /\ held' \subseteq Signals
         /\ cause' \in Ends \cup {Running}
         /\ pending' \subseteq Signals \cup {"CHLD"}
BY WaysToEnd DEF Kill, Dies, Alive, child, TypeOK

\* A handler that goes on or returns leaves a sequence of frames.
LEMMA TopFrame ==
  ASSUME TypeOK, NEW step \in {"arm", "settime", "disarm", "send", "group", "cont"}, At(step)
  PROVE  /\ frames[1] \in Frame
         /\ Tail(frames) \in Seq(Frame)
         /\ \A to \in {"arm", "settime", "disarm", "send", "group", "cont"} :
              [frames EXCEPT ![1].step = to] \in Seq(Frame)
<1>1. frames \in Seq(Frame) /\ frames # << >>
  BY DEF TypeOK, At
<1>2. frames[1] \in Frame /\ Tail(frames) \in Seq(Frame)
  BY <1>1
<1>3. ASSUME NEW to \in {"arm", "settime", "disarm", "send", "group", "cont"}
      PROVE  [frames EXCEPT ![1].step = to] \in Seq(Frame)
  <2>1. [frames[1] EXCEPT !.step = to] \in Frame
    BY <1>2 DEF Frame
  <2> QED BY <1>1, <2>1
<1> QED BY <1>2, <1>3

LEMMA InitType == Init => TypeOK
<1> SUFFICES ASSUME Init PROVE TypeOK
  OBVIOUS
<1>1. opt \in Option /\ MaxSignals \in Nat
  BY OptionsAssumption DEF Init
<1>2. term \in Signals /\ killAfter \in BOOLEAN
  BY <1>1 DEF Init, Option
<1>3. frames \in Seq(Frame) /\ others \in 0..MaxSignals
  BY <1>1 DEF Init
<1> QED BY <1>1, <1>2, <1>3 DEF Init, TypeOK

\* A command that has ended has ended in some way.
Caused == command \in {"zombie", "reaped"} \/ pc = "status" => cause \in Ends

LEMMA NextType == TypeOK /\ Caused /\ [Next]_vars => TypeOK'
<1> SUFFICES ASSUME TypeOK, Caused, [Next]_vars PROVE TypeOK'
  OBVIOUS
<1> USE DEF main, handler, timers, child
<1>1. CASE UNCHANGED vars
  BY <1>1 DEF vars, TypeOK
<1>2. CASE Main
  <2>1. CASE Exit
    <3>1. cause \in Ends
      BY <2>1 DEF Exit, Caused
    <3> QED BY <2>1, <3>1, WaysToEnd DEF Exit, Status, TypeOK
  <2>2. CASE Fork
    BY <2>2, WaysToEnd DEF Fork, TypeOK
  <2> QED BY <1>2, <2>1, <2>2 DEF Main, StorePid, SetTimer, Block, WaitPid, Suspend,
                                  SuspendReturns, TypeOK
<1>3. CASE Arm \/ SetKillTimer \/ Disarm
  <2>1. frames # << >> /\ frames' \in Seq(Frame)
    BY <1>3, TopFrame DEF Arm, SetKillTimer, Disarm, At, Go
  <2>2. term' \in Signals /\ killTimers' \in Nat
    BY <1>3 DEF Arm, SetKillTimer, Disarm, TypeOK, Signals
  <2>4. killAfter' \in BOOLEAN
    <3>1. killAfter' = killAfter \/ killAfter' = FALSE
      BY <1>3 DEF Arm, SetKillTimer, Disarm
    <3> QED BY <3>1 DEF TypeOK
  <2>3. UNCHANGED <<main, timedOut, ignored, timer, pending, child, outcome, others>>
    BY <1>3 DEF Arm, SetKillTimer, Disarm
  <2> QED BY <2>1, <2>2, <2>3, <2>4 DEF TypeOK
<1>4. CASE Send \/ Group \/ Cont
  <2>1. Sig \in Signals /\ frames' \in Seq(Frame)
    BY <1>4, TopFrame DEF Send, Group, Cont, Go, Back, Sig, TypeOK, Frame
  <2>2. CASE Send
    <3>1. UNCHANGED <<main, handler, timers, outcome, others>> /\ Kill(Sig, pending)
      BY <2>2 DEF Send
    <3>2. pending \in SUBSET (Signals \cup {"CHLD"})
      BY DEF TypeOK
    <3> HIDE DEF Sig
    <3>3. /\ command' \in {"none", "forked", "runs", "stopped", "zombie", "reaped"}
          /\ held' \subseteq Signals
          /\ cause' \in Ends \cup {Running}
          /\ pending' \subseteq Signals \cup {"CHLD"}
      BY <2>1, <3>1, <3>2, KillType
    <3> QED BY <2>1, <3>1, <3>3 DEF TypeOK
  <2>3. CASE Group
    <3>1. /\ UNCHANGED <<main, timedOut, term, killAfter, timers, others>>
          /\ Kill(Sig, pending) \/ Kill(Sig, pending \ {Sig})
          /\ ignored' = ignored \/ ignored' = ignored \cup {Sig}
          /\ outcome' = outcome \/ outcome' = <<"signal", "KILL">>
      BY <2>3 DEF Group
    <3>2. pending \in SUBSET (Signals \cup {"CHLD"}) /\ ignored' \subseteq Signals
      BY <2>1, <3>1 DEF TypeOK
    <3>3. outcome' \in Ends \cup {Running}
      BY <3>1, WaysToEnd DEF TypeOK, Signals
    <3> HIDE DEF Sig
    <3>4. /\ command' \in {"none", "forked", "runs", "stopped", "zombie", "reaped"}
          /\ held' \subseteq Signals
          /\ cause' \in Ends \cup {Running}
          /\ pending' \subseteq Signals \cup {"CHLD"}
      BY <2>1, <3>1, <3>2, KillType
    <3> QED BY <2>1, <3>1, <3>2, <3>3, <3>4 DEF TypeOK
  <2>4. CASE Cont
    <3>1. UNCHANGED <<main, handler, timers, outcome, others>> /\ Continue
      BY <2>4 DEF Cont
    <3>2. /\ command' \in {"none", "forked", "runs", "stopped", "zombie", "reaped"}
          /\ held' \subseteq Signals
          /\ cause' \in Ends \cup {Running}
          /\ pending' \subseteq Signals \cup {"CHLD"}
      BY <3>1, WaysToEnd DEF Continue, Dies, TypeOK
    <3> QED BY <2>1, <3>1, <3>2 DEF TypeOK
  <2> QED BY <1>4, <2>2, <2>3, <2>4
<1>5. CASE DeliverChld
  BY <1>5 DEF DeliverChld, Woken, TypeOK
<1>6. CASE DeliverCleanup
  <2> PICK got \in Caught :
        LET sig == IF got = "ALRM" THEN term ELSE got IN
        /\ pending' = pending \ {got}
        /\ timedOut' = (timedOut \/ got = "ALRM")
        /\ IF pid
           THEN /\ frames' = <<[sig |-> sig, step |-> "arm", got |-> got]>> \o frames
                /\ pc' = Woken /\ UNCHANGED outcome
           ELSE outcome' = <<"exit", sig>> /\ UNCHANGED <<frames, pc>>
        /\ UNCHANGED <<opt, pid, term, killAfter, ignored, timers, child, others>>
    BY <1>6 DEF DeliverCleanup
  <2> DEFINE sig == IF got = "ALRM" THEN term ELSE got
  <2>1. got \in Signals /\ sig \in Signals
    BY DEF Caught, TypeOK, Option, Signals
  <2>2. [sig |-> sig, step |-> "arm", got |-> got] \in Frame
    BY <2>1 DEF Frame
  <2>3. frames' \in Seq(Frame)
    <3>1. <<[sig |-> sig, step |-> "arm", got |-> got]>> \in Seq(Frame)
      BY <2>2
    <3>2. frames \in Seq(Frame)
      BY DEF TypeOK
    <3>3. \/ frames' = frames
          \/ frames' = <<[sig |-> sig, step |-> "arm", got |-> got]>> \o frames
      OBVIOUS
    <3> HIDE DEF sig
    <3> QED BY <3>1, <3>2, <3>3, ConcatProperties
  <2> QED BY <2>1, <2>3, WaysToEnd DEF TypeOK, Woken
<1>7. CASE TimerExpires \/ OtherSignal
  <2>1. pending' \subseteq Signals \cup {"CHLD"}
    BY <1>7 DEF TimerExpires, OtherSignal, Raised, TypeOK, Signals
  <2>2. timer' \in BOOLEAN /\ killTimers' \in Nat /\ others' \in 0..MaxSignals
    <3>1. timer' = timer \/ timer' = FALSE
      BY <1>7 DEF TimerExpires, OtherSignal
    <3>2. killTimers' \in Nat /\ others' \in 0..MaxSignals
      BY <1>7, OptionsAssumption DEF TimerExpires, OtherSignal, TypeOK
    <3> QED BY <3>1, <3>2 DEF TypeOK
  <2>3. UNCHANGED <<main, frames, handler, child, outcome>>
    BY <1>7 DEF TimerExpires, OtherSignal
  <2> QED BY <2>1, <2>2, <2>3 DEF TypeOK
<1>8. CASE Command
  <2>1. /\ command' \in {"none", "forked", "runs", "stopped", "zombie", "reaped"}
        /\ held' \subseteq Signals
        /\ cause' \in Ends \cup {Running}
        /\ pending' \subseteq Signals \cup {"CHLD"}
    BY <1>8, WaysToEnd DEF Command, Execs, Ended, Stops, Dies, TypeOK, Signals
  <2>2. UNCHANGED <<main, frames, handler, timers, outcome, others>>
    BY <1>8 DEF Command, Execs, Ended, Stops
  <2> QED BY <2>1, <2>2 DEF TypeOK
<1> QED BY <1>1, <1>2, <1>3, <1>4, <1>5, <1>6, <1>7, <1>8 DEF Next, Cleanup, Deliver

-----------------------------------------------------------------------------
(* The inductive invariant.                                                *)

\* From the moment the signals are blocked no handler is under way, except while
\* sigsuspend lets them through; waitpid is called, and timeout exits, in between.
Quiet == pc \in {"wait", "polled", "status"} => frames = << >>

\* The command is reaped by waitpid, after which the main program only exits.
Reaped == command = "reaped" <=> pc = "status"

\* 124 is what timeout says of a command, never how the command ends.
NoCause124 == cause[2] # "124"

\* timeout ends with the command reaped and a status computed from how it ended, or
\* kills its own group and so itself, or has not stored monitored_pid.
Told ==
  pid /\ outcome # Running =>
    \/ outcome = <<"signal", "KILL">>
    \/ /\ command = "reaped"
       /\ \/ outcome = Status(opt.preserveStatus)
          \/ outcome = cause /\ cause[1] = "signal" /\ ~timedOut
Stored == pc \in {"fork", "store"} <=> ~pid

Inv == TypeOK /\ Caused /\ Quiet /\ Reaped /\ NoCause124 /\ Stored /\ Told

-----------------------------------------------------------------------------
\* Whatever is sent to it and however it ends, a command that has been reaped stays
\* as it was, and no other becomes reaped.
Untouched ==
  /\ command = "reaped" <=> command' = "reaped"
  /\ command = "reaped" => cause' = cause
  /\ \/ cause' = cause /\ (command' = "zombie" => command = "zombie")
     \/ cause' \in Ends /\ cause'[2] # "124"

LEMMA KillLeavesReaped ==
  ASSUME NEW sig \in Signals, NEW signals, Kill(sig, signals)
  PROVE  Untouched
BY WaysToEnd DEF Kill, Dies, Alive, child, Untouched, Signals

LEMMA ContinueLeavesReaped ==
  ASSUME held \subseteq Signals, Continue
  PROVE  Untouched
BY WaysToEnd DEF Continue, Dies, child, Untouched, Signals

LEMMA CommandLeavesReaped ==
  ASSUME Command
  PROVE  Untouched
BY WaysToEnd DEF Command, Execs, Ended, Stops, Dies, Untouched, Signals

\* A step of the command, of a handler or of a timer: the main program waits.
LEMMA OtherStep ==
  ASSUME Inv, TypeOK', Untouched, UNCHANGED <<main, timedOut, outcome>>,
         frames' = frames \/ frames # << >>
  PROVE  Inv'
<1> USE DEF main
<1>1. Quiet' /\ Reaped' /\ Stored'
  BY DEF Inv, Quiet, Reaped, Stored, Untouched
<1>2. Caused' /\ NoCause124'
  BY DEF Inv, Caused, NoCause124, Reaped, Untouched
<1>3. Told'
  BY DEF Inv, Told, Status, Untouched
<1> QED BY <1>1, <1>2, <1>3 DEF Inv

LEMMA InitInv == Init => Inv
<1> SUFFICES ASSUME Init PROVE Inv
  OBVIOUS
<1>1. Caused /\ Quiet /\ Reaped /\ Stored /\ Told
  BY DEF Init, Caused, Quiet, Reaped, Stored, Told
<1>2. NoCause124
  BY DEF Init, NoCause124, Running
<1> QED BY <1>1, <1>2, InitType DEF Inv

LEMMA MainStep == Inv /\ TypeOK' /\ Main /\ outcome = Running => Inv'
<1> SUFFICES ASSUME Inv, TypeOK', Main, outcome = Running PROVE Inv'
  OBVIOUS
<1> USE DEF handler, child
<1>1. Quiet'
  BY DEF Main, Fork, StorePid, SetTimer, Block, WaitPid, Suspend, SuspendReturns, Exit, main, Quiet
<1>2. Reaped' /\ Stored'
  BY DEF Main, Fork, StorePid, SetTimer, Block, WaitPid, Suspend, SuspendReturns, Exit, main,
         Inv, Reaped, Stored
<1>3. Caused' /\ NoCause124'
  BY DEF Main, Fork, StorePid, SetTimer, Block, WaitPid, Suspend, SuspendReturns, Exit, main,
         Inv, Caused, NoCause124
<1>4. Told'
  <2>1. CASE Exit
    BY <2>1 DEF Exit, Inv, Reaped, Told, Status, main
  <2>2. CASE Fork
    BY <2>2 DEF Fork, Inv, Stored, Told
  <2> QED BY <2>1, <2>2 DEF Main, StorePid, SetTimer, Block, WaitPid, Suspend, SuspendReturns, Told
<1> QED BY <1>1, <1>2, <1>3, <1>4 DEF Inv

LEMMA DeliverStep == Inv /\ TypeOK' /\ Deliver /\ outcome = Running => Inv'
<1> SUFFICES ASSUME Inv, TypeOK', Deliver, outcome = Running PROVE Inv'
  OBVIOUS
<1>1. /\ pc \in {"fork", "store", "settime", "block", "suspend", "woken"}
      /\ pc' = pc \/ (pc = "suspend" /\ pc' = "woken")
      /\ UNCHANGED <<opt, pid, child>>
      /\ outcome' = outcome \/ ~pid
  BY DEF Deliver, DeliverChld, DeliverCleanup, Deliverable, Open, Woken
<1> QED BY <1>1 DEF Inv, Caused, Quiet, Reaped, NoCause124, Stored, Told, child

LEMMA CleanupStep == Inv /\ TypeOK' /\ Cleanup => Inv'
<1> SUFFICES ASSUME Inv, TypeOK', Cleanup PROVE Inv'
  OBVIOUS
<1> USE DEF handler
<1>1. frames # << >>
  BY DEF Cleanup, Arm, SetKillTimer, Disarm, Send, Group, Cont, At
<1>2. CASE Arm \/ SetKillTimer \/ Disarm
  <2>1. Untouched
    BY <1>2 DEF Arm, SetKillTimer, Disarm, Untouched, child
  <2> QED BY <1>1, <1>2, <2>1, OtherStep DEF Arm, SetKillTimer, Disarm
<1>3. CASE Send \/ Group \/ Cont
  <2>1. Sig \in Signals /\ held \subseteq Signals
    BY <1>3, TopFrame DEF Inv, TypeOK, Send, Group, Cont, Sig, Frame
  <2>2. Untouched
    BY <1>3, <2>1, KillLeavesReaped, ContinueLeavesReaped DEF Send, Group, Cont
  <2>3. CASE UNCHANGED outcome
    BY <1>1, <1>3, <2>2, <2>3, OtherStep DEF Send, Group, Cont
  <2>4. CASE outcome' = <<"signal", "KILL">> /\ UNCHANGED <<main, frames>>
    BY <2>2, <2>4 DEF Inv, Untouched, main, Caused, Quiet, Reaped, NoCause124, Stored, Told
  <2> QED BY <1>3, <2>3, <2>4 DEF Send, Group, Cont
<1> QED BY <1>2, <1>3 DEF Cleanup

LEMMA NextInv == Inv /\ [Next]_vars => Inv'
<1> SUFFICES ASSUME Inv, [Next]_vars PROVE Inv'
  OBVIOUS
<1>1. TypeOK'
  BY NextType DEF Inv
<1>2. CASE UNCHANGED vars
  BY <1>2 DEF vars, main, handler, timers, child, Inv, TypeOK, Caused, Quiet, Reaped, NoCause124,
              Stored, Told, Status
<1>3. CASE outcome = Running /\ Main
  BY <1>1, <1>3, MainStep
<1>4. CASE outcome = Running /\ Cleanup
  BY <1>1, <1>4, CleanupStep
<1>5. CASE outcome = Running /\ Deliver
  BY <1>1, <1>5, DeliverStep
<1>6. CASE TimerExpires \/ OtherSignal
  <2>1. Untouched /\ UNCHANGED <<main, timedOut, outcome, frames>>
    BY <1>6 DEF TimerExpires, OtherSignal, Untouched, child, handler
  <2> QED BY <1>1, <2>1, OtherStep
<1>7. CASE Command
  <2>1. UNCHANGED <<main, timedOut, outcome, frames>>
    BY <1>7 DEF Command, Execs, Ended, Stops, handler
  <2> QED BY <1>1, <1>7, <2>1, CommandLeavesReaped, OtherStep
<1> QED BY <1>2, <1>3, <1>4, <1>5, <1>6, <1>7 DEF Next

LEMMA Invariance == Spec => []Inv
BY InitInv, NextInv, PTL DEF Spec

-----------------------------------------------------------------------------
\* Type correctness: handlers nest with a signal each, and only options, timers and
\* signals that exist are ever in play.
THEOREM TypeCorrect == Spec => []TypeOK
<1>1. Inv => TypeOK
  BY DEF Inv
<1> QED BY <1>1, Invariance, PTL

\* timeout does not signal a pid that it has reaped: once waitpid has returned it, no
\* handler is under way that still would, and none will start.
THEOREM NeverSignalsReaped == Spec => []NoSignalAfterReap
<1>1. Inv => NoSignalAfterReap
  BY DEF Inv, Reaped, Quiet, NoSignalAfterReap
<1> QED BY <1>1, Invariance, PTL

\* The exit status tells how the command ended, whichever handlers interrupted the
\* main program and one another.
THEOREM StatusIsTrue == Spec => []StatusTells
<1>1. Inv => StatusTells
  BY DEF Inv, Told, Status, NoCause124, StatusTells, TypeOK, Option
<1> QED BY <1>1, Invariance, PTL
=============================================================================
