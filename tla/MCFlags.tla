------------------------------ MODULE MCFlags -------------------------------
(* Constants of the runs of Flags. *)
EXTENDS Flags, TLC

CONSTANTS t1, t2, t3

Two == (t1 :> 1) @@ (t2 :> 2)

FlagCalls == {"tsk_start", "tsk_kill", "tsk_suspend", "tsk_resume",
              "flg_wait", "flg_give", "flg_clear", "flg_kill"}
=============================================================================
