----------------------------- MODULE MCObjects ------------------------------
(* Constants of the runs of Objects. *)
EXTENDS Objects, TLC

CONSTANTS t1, t2

Two == (t1 :> 1) @@ (t2 :> 2)

ObjectCalls == {"tsk_start", "tsk_kill",
                "sig_wait", "sig_waitISR", "sig_give", "sig_clear", "sig_kill",
                "evt_wait", "evt_give", "evt_kill",
                "mut_wait", "mut_give", "mut_kill",
                "bar_wait", "bar_kill", "mem_wait", "mem_give", "mem_kill"}
=============================================================================
