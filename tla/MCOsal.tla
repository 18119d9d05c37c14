------------------------------- MODULE MCOsal -------------------------------
(* Constants of the runs of Osal. *)
EXTENDS Osal, TLC

CONSTANTS t1, t2, t3, q1, q2, s1, m1, o1, o2, n1, n2

\* MAIN below the tasks it creates.
Flat == [t \in Task |-> IF t = t1 THEN 1 ELSE 2]

None      == <<>>
Queues    == <<q1>>
TwoQueues == <<q1, q2>>
BinSems   == <<s1>>
MutSems   == <<m1>>
OsTasks   == <<t2, t3>>

OsalCalls == {"OS_QueueCreate", "OS_QueueDelete", "OS_QueueGet", "OS_QueuePut",
              "OS_SemCreate", "OS_SemDelete", "OS_BinSemFlush", "OS_SemTake", "OS_SemGive",
              "OS_MutSemCreate", "OS_MutSemDelete", "OS_MutSemTake", "OS_MutSemGive",
              "OS_TaskCreate", "OS_TaskDelete", "OS_TaskSetPriority", "tsk_stop"}
IdCalls   == {"OS_QueueCreate", "OS_QueueDelete"}

\* The names of tasks are only compared with each other.
TaskNames == Permutations({n1, n2})
=============================================================================
