---------------------------- MODULE MCTimeout ----------------------------
(* The options that TLC considers. *)
EXTENDS Timeout

Given(sig, kill, fg, preserve, dies) ==
  [signal |-> sig, killAfter |-> kill, foreground |-> fg,
   preserveStatus |-> preserve, docile |-> dies]

\* Every mode, with a command that must be killed or dies of the first signal.
Modes == { Given("TERM", TRUE,  FALSE, FALSE, FALSE),
           Given("TERM", FALSE, FALSE, TRUE,  TRUE),
           Given("TERM", TRUE,  TRUE,  FALSE, FALSE),
           Given("KILL", FALSE, TRUE,  FALSE, FALSE) }

\* timeout -k 1 -s ALRM
AlarmSignal == { Given("ALRM", TRUE, FALSE, FALSE, FALSE) }
=============================================================================
