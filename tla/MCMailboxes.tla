---------------------------- MODULE MCMailboxes -----------------------------
(* Constants of the run of Mailboxes. *)
EXTENDS Mailboxes, TLC

CONSTANTS t1, t2, t3

Pair == (t1 :> 1) @@ (t2 :> 2) @@ (t3 :> 1)

MailboxCalls == {"tsk_start", "tsk_kill", "box_wait", "box_send", "box_kill"}
=============================================================================
