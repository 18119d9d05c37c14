---------------------------- MODULE MCSemaphores ----------------------------
(* Constants of the runs of Semaphores. *)
EXTENDS Semaphores, TLC

CONSTANTS t1, t2, t3, s1

Pair   == (t1 :> 1) @@ (t2 :> 2) @@ (t3 :> 1)

SemaphoreCalls == {"tsk_start", "tsk_stop", "tsk_kill", "tsk_join", "tsk_detach",
                   "sem_wait", "sem_send", "sem_kill", "sem_waitISR", "sem_sendISR"}
HandlerCalls   == {"tsk_start", "sem_wait", "sem_waitISR"}

\* The two tasks other than MAIN start alike: exchanging them changes nothing.
TaskNames == Permutations({t1, t3})
=============================================================================
