------------------------------- MODULE Flags --------------------------------
(***************************************************************************)
(* interface/src/os_flg.c on top of the tasks: a word of flags, and tasks  *)
(* that wait for any or all of a set, that leave the flags in the object   *)
(* (protect) or take them, and that ignore the flags that were set before. *)
(* What a waiting task still misses is in its event word.                  *)
(***************************************************************************)
EXTENDS Tasks

CONSTANT FlagObject   \* one of the resources

ASSUME FlagAssumption == FlagObject \in Resource

VARIABLES
  flags,              \* flg->flags
  request             \* tsk->mode of each task in flg_wait; `wanted' and `seen'
                      \* are history: what it asked for and what it was given

F == Res(FlagObject)

\* flgAny is the absence of flgAll; os_flg.h allows one of the other two.
Mode == {mode \in SUBSET {"flgAll", "flgProtect", "flgIgnore"} : ~ {"flgProtect", "flgIgnore"} \subseteq mode}

NoRequest == [mode |-> {}, wanted |-> {}, seen |-> {}]

FlgInit == flags = {} /\ request = [t \in Task |-> NoRequest]

-----------------------------------------------------------------------------
FlgWait(t) ==
  /\ Call(t, "flg_wait")
  /\ \E wanted \in SUBSET Flag, mode \in Mode, delay \in Delays :
       LET ready   == IF "flgIgnore" \in mode THEN {} ELSE wanted \cap flags
           missing == wanted \ ready
           waits   == missing # {} /\ ("flgAll" \in mode \/ missing = wanted)
       IN  /\ kernel'  = IF waits THEN core_tsk_wait([kernel EXCEPT !.event[t] = missing], F, delay)
                                  ELSE kernel
           /\ request' = IF kernel'.call[t] = F
                           THEN [request EXCEPT ![t] = [mode |-> mode, wanted |-> wanted, seen |-> ready]]
                           ELSE request
           /\ flags'   = IF "flgProtect" \in mode THEN flags ELSE flags \ wanted

\* One turn of the loop of flg_give, for task t.  `at' is the kernel and what
\* is left of the flags, `set' the flags that were set when the loop began.
Visit(at, t, set) ==
  LET missing == at.kernel.event[t]
      left    == IF "flgProtect" \in request[t].mode THEN at.flags ELSE at.flags \ missing
      rest    == missing \ set
  IN  CASE missing \cap set = {} -> at
        [] missing \cap set # {} /\ rest # {} /\ "flgAll" \in request[t].mode ->
             [kernel |-> [at.kernel EXCEPT !.event[t] = rest], flags |-> left]
        [] OTHER -> [kernel |-> core_tsk_wakeup(at.kernel, t, E_SUCCESS), flags |-> left]

\* Faulty: the loop ends with the first task; all is taken for any.
flg_give_first(set) ==
  IF kernel.que[F] = <<>> THEN [kernel |-> kernel, flags |-> set]
                          ELSE Visit([kernel |-> kernel, flags |-> set], Head(kernel.que[F]), set)
flg_give_any(set) ==
  FoldLeft(LAMBDA at, t : IF at.kernel.event[t] \cap set = {} THEN at
                          ELSE [kernel |-> core_tsk_wakeup(at.kernel, t, E_SUCCESS),
                                flags  |-> at.flags \ at.kernel.event[t]],
           [kernel |-> kernel, flags |-> set], kernel.que[F])

\* The loop runs along the queue while it takes tasks out of it.
flg_give(set) ==
  LET q == kernel.que[F]
      run[i \in 0..Len(q)] == IF i = 0 THEN [kernel |-> kernel, flags |-> set]
                                       ELSE Visit(run[i-1], q[i], set)
  IN  run[Len(q)]

\* flg_give and flg_giveISR.
FlgGive ==
  /\ "flg_give" \in Calls
  /\ \E given \in SUBSET Flag :
       LET done == flg_give(flags \cup given)
       IN  /\ kernel' = done.kernel
           /\ flags'  = done.flags
           /\ request' = [t \in Task |->
                IF kernel.guard[t] = F
                  THEN [request[t] EXCEPT !.seen = @ \cup (given \cap request[t].wanted)]
                  ELSE request[t]]

\* flg_clear and flg_clearISR.
FlgClear ==
  /\ "flg_clear" \in Calls
  /\ \E cleared \in SUBSET Flag : flags' = flags \ cleared
  /\ UNCHANGED <<kernel, request>>

FlgKill(t) ==
  /\ Call(t, "flg_kill")
  /\ kernel' = core_all_wakeup(kernel, F, E_STOPPED)
  /\ UNCHANGED <<flags, request>>

FlgNext == FlgGive \/ FlgClear \/ \E t \in Task : FlgWait(t) \/ FlgKill(t)

\* The request of a task that left its call is dead; the model clears it.
FlgOthers == /\ request' = [t \in Task |-> IF kernel'.call[t] = F THEN request[t] ELSE NoRequest]
             /\ UNCHANGED flags

FlgSpec == /\ Init /\ FlgInit
           /\ [][(Next /\ FlgOthers) \/ FlgNext]_<<kernel, flags, request>>
-----------------------------------------------------------------------------
(***************************************************************************)
(* No task sleeps on a flag that is set, and none sleeps on nothing.       *)
(***************************************************************************)
NobodyMissesFlag ==
  \A t \in Task : kernel.guard[t] = F => kernel.event[t] # {} /\ kernel.event[t] \cap flags = {}

(***************************************************************************)
(* A task that is told E_SUCCESS saw the flags it waited for: all of them, *)
(* or one when it waits for any.  Flags that were set before it came do    *)
(* not count for a task that ignores them.                                 *)
(***************************************************************************)
Served(t) == /\ kernel.call[t] = F /\ kernel.guard[t] = NoObject
             /\ kernel.id[t] # "STOPPED" /\ kernel.event[t] = E_SUCCESS

FlagsComplete ==
  \A t \in Task : Served(t) =>
    LET r == request[t]
    IN  IF "flgAll" \in r.mode THEN r.wanted \subseteq r.seen ELSE r.wanted \cap r.seen # {}
=============================================================================
