------------------------------ MODULE MCTimers ------------------------------
(* Constants of the runs of Timers; they are in the range of the theorems.  *)
EXTENDS Timers

ASSUME MCTimersAssumption == DelaysFit
=============================================================================
