----------------------------- MODULE MCDeadlines -----------------------------
(* Deadlines with the waits of the EZO driver and the default              *)
(* configuration, in milliseconds.                                         *)
EXTENDS Deadlines

CalWaits == [Ph |-> 900, Do |-> 1300]
ReadWaits == [Ph |-> 900, Do |-> 600]
\* The hypotheses of the theorems of DeadlinesProofs hold of these values.
ASSUME HypothesesHold == WaitsFit /\ QuietWaitsFit
================================================================================
