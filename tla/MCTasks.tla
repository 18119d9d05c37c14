------------------------------ MODULE MCTasks -------------------------------
(* Constants of the runs of Tasks. *)
EXTENDS Tasks, TLC

CONSTANTS t1, t2, t3

\* MAIN in the middle: one task below it and one above.
Ladder == (t1 :> 1) @@ (t2 :> 2) @@ (t3 :> 3)
\* MAIN more urgent, until tsk_prio makes it an equal.
Two    == (t1 :> 1) @@ (t2 :> 2)

\* The application of each run.
TaskCalls == {"tsk_start", "tsk_stop", "tsk_kill", "tsk_join", "tsk_detach", "tsk_yield",
              "tsk_sleep", "tsk_suspend", "tsk_resume", "tsk_wait", "tsk_give", "tsk_prio"}
FlagCalls == {"tsk_start", "tsk_wait", "tsk_give", "mtx_wait"}
LockCalls == {"tsk_start", "tsk_sleep", "mtx_wait", "mtx_give"}
=============================================================================
