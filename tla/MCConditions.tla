---------------------------- MODULE MCConditions ----------------------------
(* Constants of the runs of Conditions. *)
EXTENDS Conditions, TLC

CONSTANTS t1, t2, t3

Ladder == (t1 :> 1) @@ (t2 :> 2) @@ (t3 :> 3)

MonitorCalls == {"tsk_start", "tsk_stop", "tsk_kill", "tsk_prio",
                 "mtx_wait", "mtx_give", "mtx_kill", "cnd_wait", "cnd_give", "cnd_kill"}
=============================================================================
