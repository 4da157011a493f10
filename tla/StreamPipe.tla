----------------------------- MODULE StreamPipe -----------------------------
(***************************************************************************)
(* What one item direction of a stream promises its two applications: a    *)
(* bounded first-in first-out pipe whose end is reported only once it is   *)
(* drained, unless the reader's context has ended.                         *)
(***************************************************************************)
EXTENDS Naturals

CONSTANTS
  Window,    \* items that may be written and not yet taken
  Bounded    \* whether the pipe is bounded at all

VARIABLES sent, received, ended, cancelled, sawEOF

pipeVars == <<sent, received, ended, cancelled, sawEOF>>

Init ==
  /\ sent = 0 /\ received = 0
  /\ ended = FALSE /\ cancelled = FALSE /\ sawEOF = FALSE

Write ==
  /\ ~ended
  /\ Bounded => sent - received < Window
  /\ sent' = sent + 1
  /\ UNCHANGED <<received, ended, cancelled, sawEOF>>

Take ==
  /\ received < sent
  /\ received' = received + 1
  /\ UNCHANGED <<sent, ended, cancelled, sawEOF>>

End ==
  /\ ended' = TRUE
  /\ UNCHANGED <<sent, received, cancelled, sawEOF>>

Cancel ==
  /\ cancelled' = TRUE
  /\ UNCHANGED <<sent, received, ended, sawEOF>>

ReportEOF ==
  /\ ended
  /\ received = sent \/ cancelled
  /\ sawEOF' = TRUE
  /\ UNCHANGED <<sent, received, ended, cancelled>>

Next == Write \/ Take \/ End \/ Cancel \/ ReportEOF

Spec == Init /\ [][Next]_pipeVars
=============================================================================
