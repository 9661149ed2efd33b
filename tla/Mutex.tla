------------------------------ MODULE Mutex --------------------------------
(***************************************************************************)
(* Mutexes with recursion and priority inheritance                         *)
(* (src/kernel/sync/mutex.c, CONFIG_PRIORITY_INHERITANCE = 1) over the     *)
(* scheduler.                                                              *)
(*                                                                         *)
(* mutex_lock is a loop: mutex_trylock (one critical section), then,       *)
(* outside any critical section, the inheritance test on mtx->owner, a     *)
(* scheduler_set_priority of the owner (itself two critical sections for a *)
(* ready owner), and scheduler_block_task. mutex_unlock is one critical    *)
(* section: drop a recursion level, or restore the caller's base priority, *)
(* clear the owner and wake the best waiter.                               *)
(***************************************************************************)
EXTENDS Scheduler

CONSTANTS
  Mutexes,        \* mutexes (model values)
  Recursive,      \* the mutexes initialised with MUTEX_FLAG_RECURSIVE
  Lockers,        \* tasks that call mutex_lock and mutex_unlock
  LockTimeouts,   \* timeouts passed to mutex_lock (0 = TIMEOUT_NONE)
  RecursiveMax,   \* the saturation value of recursive_count (0xFF, uint8_t)
  MaxDepth        \* bound on the locks a task holds on one mutex

ASSUME /\ Recursive \subseteq Mutexes /\ Lockers \subseteq Tasks
       /\ LockTimeouts \subseteq 0 .. TIMEOUT_FOREVER
       /\ RecursiveMax \in Nat \ {0} /\ MaxDepth \in Nat \ {0}

TIMEOUT_NONE == 0

VARIABLES
  locked,         \* mtx->locked
  owner,          \* mtx->owner
  rec_count,      \* mtx->recursive_count
  owner_base,     \* mtx->owner_base_priority
  mtx_arg,        \* the mutex of a task's mutex_lock in progress
  mtx_timeout,    \* the timeout of that call
  held            \* ghost: lock calls that returned OK minus unlocks, per task and mutex

mtxvars == <<locked, owner, rec_count, owner_base, mtx_arg, mtx_timeout, held>>
allvars == <<vars, mtxvars>>

\* tcb->base_priority: written by task_create only, so it stays the
\* creation priority whatever task_set_priority does later.
BasePriority(t) == InitPriority[t]

\* Variant of SetPriorityNow that writes the field without moving the task.
SetPriorityNowInPlace(k, x, p) == [k EXCEPT !.priority[x] = p]

\* scheduler_set_priority(tcb, p) inside a critical section: a ready or
\* running task is unlinked and added back at its new priority.
SetPriorityNow(k, x, p) ==
  IF k.state[x] \in {"READY", "RUNNING"}
  THEN AddTask([RemoveTask(k, x) EXCEPT !.priority[x] = p], x)
  ELSE [k EXCEPT !.priority[x] = p]

\* The tasks inside a mutex_lock(m) call.
Contenders(m) == {t \in Tasks : mtx_arg[t] = m}

-----------------------------------------------------------------------------
(* mutex_lock                                                              *)

\* Return from mutex_lock: its locals are gone.
LockReturns(t) ==
  /\ pc' = [pc EXCEPT ![t] = "call"]
  /\ mtx_arg' = [mtx_arg EXCEPT ![t] = NIL]
  /\ mtx_timeout' = [mtx_timeout EXCEPT ![t] = 0]

\* mutex_lock(mtx, timeout), up to mutex_trylock; an owner does not lock a
\* mutex more than MaxDepth times.
MtxLock(t, m, to) ==
  /\ Runs(t) /\ t \in Lockers /\ held[t][m] < MaxDepth
  /\ Goto(t, "call", "mtx_try")
  /\ mtx_arg' = [mtx_arg EXCEPT ![t] = m]
  /\ mtx_timeout' = [mtx_timeout EXCEPT ![t] = to]
  /\ UNCHANGED <<kvars, arg_task, arg_prio, locks, slept,
                 locked, owner, rec_count, owner_base, held>>

\* Variant of TakesLevel that forgets the owner test.
TakesLevelAnyOwner(t, m) == m \in Recursive

\* The recursive branch of mutex_trylock applies: the caller owns m and m
\* is recursive.
TakesLevel(t, m) == owner[m] = t /\ m \in Recursive

\* mutex_trylock failed: mutex_lock returns KERNEL_ERR_TIMEOUT for
\* TIMEOUT_NONE and goes on to the inheritance test otherwise.
TryFailed(t) ==
  IF mtx_timeout[t] = TIMEOUT_NONE
  THEN LockReturns(t)
  ELSE Goto(t, "mtx_try", "mtx_check") /\ UNCHANGED <<mtx_arg, mtx_timeout>>

\* mutex_trylock, its critical section: take a free mutex, or add a level
\* to one the caller owns recursively (the count saturates at 0xFF but the
\* call still succeeds), or fail.
MtxTry(t) ==
  LET m == mtx_arg[t] IN
  /\ Runs(t) /\ pc[t] = "mtx_try"
  /\ CASE ~locked[m] ->
            /\ locked' = [locked EXCEPT ![m] = TRUE]
            /\ owner' = [owner EXCEPT ![m] = t]
            /\ owner_base' = [owner_base EXCEPT ![m] = priority[t]]
            /\ rec_count' = [rec_count EXCEPT ![m] = 1]
            /\ held' = [held EXCEPT ![t][m] = @ + 1]
            /\ LockReturns(t)
       [] TakesLevel(t, m) ->
            /\ rec_count' = [rec_count EXCEPT ![m] = IF @ < RecursiveMax THEN @ + 1 ELSE @]
            /\ held' = [held EXCEPT ![t][m] = @ + 1]
            /\ LockReturns(t)
            /\ UNCHANGED <<locked, owner, owner_base>>
       [] OTHER ->
            /\ TryFailed(t)
            /\ UNCHANGED <<locked, owner, rec_count, owner_base, held>>
  /\ UNCHANGED <<kvars, arg_task, arg_prio, locks, slept>>

MtxCheck(t) ==
  LET o == owner[mtx_arg[t]] IN
  /\ Runs(t) /\ pc[t] = "mtx_check"
  /\ pc' = [pc EXCEPT ![t] = IF o # NIL /\ priority[o] > priority[t]
                              THEN "mtx_boost" ELSE "mtx_block"]
  /\ UNCHANGED <<kvars, arg_task, arg_prio, locks, slept, mtxvars>>

\* scheduler_set_priority(mtx->owner, self->priority): mtx->owner is read
\* again here. A ready owner is unlinked and re-added by MtxBoostAdd.
MtxBoost(t) ==
  LET x == owner[mtx_arg[t]]
      p == priority[t]
  IN
  /\ Runs(t) /\ pc[t] = "mtx_boost"
  /\ CASE x = NIL ->
            /\ pc' = [pc EXCEPT ![t] = "mtx_block"]
            /\ UNCHANGED <<kvars, arg_task, arg_prio>>
       [] state[x] \in {"READY", "RUNNING"} ->
            /\ Store(RemoveTask(K, x))
            /\ pc' = [pc EXCEPT ![t] = "mtx_boost_add"]
            /\ arg_task' = [arg_task EXCEPT ![t] = x]
            /\ arg_prio' = [arg_prio EXCEPT ![t] = p]
       [] OTHER ->
            /\ Store([K EXCEPT !.priority[x] = p])
            /\ pc' = [pc EXCEPT ![t] = "mtx_block"]
            /\ UNCHANGED <<arg_task, arg_prio>>
  /\ UNCHANGED <<locks, slept, mtxvars>>

\* The rest of scheduler_set_priority: write the field, scheduler_add_task.
MtxBoostAdd(t) ==
  LET x == arg_task[t] IN
  /\ Runs(t) /\ Goto(t, "mtx_boost_add", "mtx_block")
  /\ Store(AddTask([K EXCEPT !.priority[x] = arg_prio[t]], x))
  /\ arg_task' = [arg_task EXCEPT ![t] = NIL]
  /\ arg_prio' = [arg_prio EXCEPT ![t] = 0]
  /\ UNCHANGED <<locks, slept, mtxvars>>

\* scheduler_block_task(BLOCK_MUTEX, mtx, timeout), its critical section.
MtxBlock(t) ==
  /\ Runs(t) /\ Goto(t, "mtx_block", "mtx_yield")
  /\ Store(BlockTask(K, "MUTEX", mtx_arg[t], mtx_timeout[t]))
  /\ UNCHANGED <<arg_task, arg_prio, locks, slept, mtxvars>>

\* The rest of scheduler_block_task; KERNEL_OK loops back to
\* mutex_trylock, any other result is returned.
MtxBlockReturn(t) ==
  /\ Runs(t) /\ pc[t] = "mtx_yield"
  /\ Store(Yield(K))
  /\ IF block_result[t] = KERNEL_OK
     THEN pc' = [pc EXCEPT ![t] = "mtx_try"] /\ UNCHANGED <<mtx_arg, mtx_timeout>>
     ELSE LockReturns(t)
  /\ UNCHANGED <<arg_task, arg_prio, locks, slept, locked, owner, rec_count,
                 owner_base, held>>

-----------------------------------------------------------------------------
(* mutex_unlock                                                            *)

ReleaseNoRestore(k, t, m) == UnblockOne(k, "MUTEX", m, KERNEL_OK)

\* The state mutex_unlock's critical section leaves when it releases m:
\* restore the caller's base priority if it differs, clear the mutex and
\* wake the best waiter.
Release(k, t, m) ==
  LET k1 == IF k.priority[t] # BasePriority(t)
            THEN SetPriorityNow(k, t, BasePriority(t)) ELSE k
  IN UnblockOne(k1, "MUTEX", m, KERNEL_OK)

\* mutex_unlock(mtx) by a task that believes it holds m. A caller that is
\* not mtx->owner gets KERNEL_ERR_STATE and nothing changes; otherwise one
\* critical section drops a recursion level or releases the mutex.
MtxUnlock(t, m) ==
  /\ Runs(t) /\ t \in Lockers /\ pc[t] = "call" /\ held[t][m] > 0
  /\ held' = [held EXCEPT ![t][m] = @ - 1]
  /\ CASE owner[m] # t ->
            UNCHANGED <<kvars, locked, owner, rec_count>>
       [] rec_count[m] > 1 ->
            /\ rec_count' = [rec_count EXCEPT ![m] = @ - 1]
            /\ UNCHANGED <<kvars, locked, owner>>
       [] OTHER ->
            /\ Store(Release(K, t, m))
            /\ locked' = [locked EXCEPT ![m] = FALSE]
            /\ owner' = [owner EXCEPT ![m] = NIL]
            /\ rec_count' = [rec_count EXCEPT ![m] = 0]
  /\ UNCHANGED <<tvars, owner_base, mtx_arg, mtx_timeout>>

-----------------------------------------------------------------------------

\* mutex_init of every mutex, after boot.
MtxInit ==
  /\ Init
  /\ locked = [m \in Mutexes |-> FALSE]
  /\ owner = [m \in Mutexes |-> NIL]
  /\ rec_count = [m \in Mutexes |-> 0]
  /\ owner_base = [m \in Mutexes |-> 0]
  /\ mtx_arg = [t \in AllTasks |-> NIL]
  /\ mtx_timeout = [t \in AllTasks |-> 0]
  /\ held = [t \in AllTasks |-> [m \in Mutexes |-> 0]]

MtxTaskStep(t) ==
  \/ \E m \in Mutexes, to \in LockTimeouts : MtxLock(t, m, to)
  \/ MtxTry(t) \/ MtxCheck(t) \/ MtxBoost(t) \/ MtxBoostAdd(t)
  \/ MtxBlock(t) \/ MtxBlockReturn(t)
  \/ \E m \in Mutexes : MtxUnlock(t, m)

MtxNext ==
  \/ \E t \in Tasks : TaskStep(t) /\ UNCHANGED mtxvars
  \/ SysTick /\ UNCHANGED mtxvars
  \/ PendSV /\ UNCHANGED mtxvars
  \/ \E t \in Tasks : MtxTaskStep(t)

MtxSpec == MtxInit /\ [][MtxNext]_allvars /\ Fairness

-----------------------------------------------------------------------------
(* Properties                                                              *)

MtxTypeOK ==
  /\ TypeOK
  /\ locked \in [Mutexes -> BOOLEAN]
  /\ owner \in [Mutexes -> Tasks \cup {NIL}]
  /\ rec_count \in [Mutexes -> 0 .. RecursiveMax]
  /\ owner_base \in [Mutexes -> Prio]
  /\ mtx_arg \in [AllTasks -> Mutexes \cup {NIL}]
  /\ held \in [AllTasks -> [Mutexes -> 0 .. MaxDepth]]

(* Mutual exclusion, and spec I4 and R3: the levels each task believes it *)
(* holds, counted from the mutex_lock calls that returned KERNEL_OK and    *)
(* its mutex_unlock calls, are exactly the mutex's record: the owner's     *)
(* recursive_count, and none for every other task. Two tasks that both     *)
(* believe they hold m break it, and so does an unlock that releases m     *)
(* while its owner still holds a level.                                    *)
HoldsMatchOwner ==
  \A m \in Mutexes :
    /\ locked[m] <=> owner[m] # NIL
    /\ \A t \in Tasks : held[t][m] = IF owner[m] = t THEN rec_count[m] ELSE 0

PriorityIsBaseOrInherited ==
  \A t \in Tasks :
    \/ priority[t] = BasePriority(t)
    \/ /\ priority[t] < BasePriority(t)
       /\ \E m \in Mutexes : owner[m] = t /\ \E w \in Contenders(m) : priority[w] = priority[t]

=============================================================================
