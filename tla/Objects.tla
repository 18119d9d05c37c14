------------------------------ MODULE Objects -------------------------------
(***************************************************************************)
(* An application that uses signals, events, a fast mutex, a barrier and  *)
(* a memory pool side by side: the objects share the tasks, their          *)
(* priorities and their event words.                                       *)
(***************************************************************************)
EXTENDS Signals, FastMutex, Barriers, Pools

\* Every object is a variable of its own, with a queue of its own.
ASSUME ObjectsApart ==
  /\ Signal \cap Event = {}
  /\ {Fast, Barrier, Pool} \cap (Signal \cup Event) = {}
  /\ Barrier \notin {Fast, Pool} /\ Fast # Pool

objects == <<flag, holder, missing, free, handed, held>>

ObjInit == Init /\ SigInit /\ MutInit /\ BarInit /\ PoolInit

\* An object that is not part of a step: what the pool keeps for a task
\* follows the task's calls.
SigSame  == UNCHANGED flag
MutSame  == UNCHANGED holder
BarSame  == UNCHANGED missing
PoolSame == UNCHANGED <<free, handed, held>>

ObjNext ==
  \/ Next     /\ SigSame /\ MutSame /\ BarSame /\ PoolOthers
  \/ SigNext  /\ MutSame /\ BarSame /\ PoolSame
  \/ MutNext  /\ SigSame /\ BarSame /\ PoolSame
  \/ BarNext  /\ SigSame /\ MutSame /\ PoolSame
  \/ PoolNext /\ SigSame /\ MutSame /\ BarSame

ObjSpec == ObjInit /\ [][ObjNext]_<<kernel, objects>>
=============================================================================
