------------------------------- MODULE Pools --------------------------------
(***************************************************************************)
(* interface/src/os_lst.c and os_mem.c on top of the tasks: blocks on a    *)
(* free list, handed straight to a task that waits for one.  The calls of  *)
(* interrupt handlers are left out.                                        *)
(***************************************************************************)
EXTENDS Tasks

CONSTANTS
  Pool,         \* one of the resources
  Block,        \* its blocks
  NoBlock

ASSUME PoolAssumption == Pool \in Resource /\ IsFiniteSet(Block) /\ NoBlock \notin Block

VARIABLES
  free,         \* the list that mem->next begins
  handed,       \* *data of each task in mem_wait
  held          \* the blocks that each task has got from the pool

P == Res(Pool)

\* mem_init and mem_bind put every block on the list.
PoolInit == /\ free = SetToSeq(Block)
            /\ handed = [t \in Task |-> NoBlock]
            /\ held   = [t \in Task |-> {}]

-----------------------------------------------------------------------------
MemWait(t) ==
  /\ Call(t, "mem_wait")
  /\ \/ /\ free # <<>>
        /\ held' = [held EXCEPT ![t] = @ \cup {Head(free)}]
        /\ free' = Tail(free)
        /\ UNCHANGED kernel
     \/ /\ free = <<>>
        /\ \E delay \in Delays : kernel' = core_tsk_wait(kernel, P, delay)
        /\ UNCHANGED <<free, held>>
  /\ UNCHANGED handed

\* Faulty: the block is handed to the waiting task and goes on the list as well.
mem_give_both(b) ==
  LET t == FirstWaiting(kernel, P)
  IN  /\ kernel' = core_one_wakeup(kernel, P, E_SUCCESS)
      /\ handed' = IF t = NoTask THEN handed ELSE [handed EXCEPT ![t] = b]
      /\ free'   = Append(free, b)

\* Faulty: the task that is woken is told that the pool was killed.
mem_give_stopped(b) ==
  LET t == FirstWaiting(kernel, P)
  IN  /\ kernel' = core_one_wakeup(kernel, P, E_STOPPED)
      /\ IF t = NoTask THEN free' = Append(free, b) /\ UNCHANGED handed
                       ELSE handed' = [handed EXCEPT ![t] = b] /\ UNCHANGED free

mem_give(b) ==
  LET t == FirstWaiting(kernel, P)
  IN  /\ kernel' = core_one_wakeup(kernel, P, E_SUCCESS)
      /\ IF t = NoTask THEN free' = Append(free, b) /\ UNCHANGED handed
                       ELSE handed' = [handed EXCEPT ![t] = b] /\ UNCHANGED free

MemGive(t) ==
  /\ Call(t, "mem_give")
  /\ \E b \in held[t] : mem_give(b) /\ held' = [held EXCEPT ![t] = @ \ {b}]

MemKill(t) ==
  /\ Call(t, "mem_kill")
  /\ kernel' = core_all_wakeup(kernel, P, E_STOPPED)
  /\ UNCHANGED <<free, handed, held>>

PoolNext == \E t \in Task : MemWait(t) \/ MemGive(t) \/ MemKill(t)

\* A task that leaves mem_wait with E_SUCCESS uses the block it was handed; a
\* task that ends first takes it along.
PoolOthers ==
  LET left == {t \in Task : handed[t] # NoBlock /\ kernel'.call[t] # P}
  IN  /\ held'   = [t \in Task |-> IF t \in left THEN held[t] \cup {handed[t]} ELSE held[t]]
      /\ handed' = [t \in Task |-> IF t \in left THEN NoBlock ELSE handed[t]]
      /\ UNCHANGED free

-----------------------------------------------------------------------------
(***************************************************************************)
(* A block is in one place: once on the free list, or handed to one task,  *)
(* or held by one; and nobody waits while a block is free.                 *)
(***************************************************************************)
BlocksOnce ==
  /\ NoRepeat(free)
  /\ \A b \in Block :
       LET places == {t \in Task : b \in held[t]} \cup {<<"handed", t>> : t \in {u \in Task : handed[u] = b}}
       IN  Cardinality(places) = IF b \in ToSet(free) THEN 0 ELSE 1
  /\ free # <<>> => kernel.que[P] = <<>>

(***************************************************************************)
(* A task is told E_SUCCESS exactly when a block was handed to it: a block *)
(* is not lost with a task that was told it got none.                      *)
(***************************************************************************)
HandedToldSo ==
  \A t \in Task : kernel.call[t] = P /\ kernel.guard[t] = NoObject /\ kernel.id[t] # "STOPPED" =>
                    (handed[t] # NoBlock <=> kernel.event[t] = E_SUCCESS)
=============================================================================
