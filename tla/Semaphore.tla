---------------------------- MODULE Semaphore ------------------------------
(***************************************************************************)
(* Counting semaphores (src/kernel/sync/semaphore.c) over the scheduler.   *)
(*                                                                         *)
(* sem_take is a loop: a critical section that takes a token if count > 0, *)
(* and otherwise, after leaving it, scheduler_block_task; when the block   *)
(* returns OK the loop checks count again. sem_give and sem_give_isr hand  *)
(* a give to the best waiter through scheduler_unblock_one, or else        *)
(* increment count. sem_reset writes count outside any critical section    *)
(* and then wakes every waiter with KERNEL_ERR_STATE.                      *)
(***************************************************************************)
EXTENDS Scheduler

CONSTANTS
  Sems,           \* semaphores (model values)
  SemInit,        \* Sems -> initial count (sem_init)
  SemMax,         \* Sems -> max_count, 0 = unbounded
  Takers,         \* tasks that call sem_take
  Givers,         \* tasks that call sem_give
  Resetters,      \* tasks that call sem_reset
  TakeTimeouts,   \* timeouts passed to sem_take (0 = TIMEOUT_NONE)
  ResetCounts,    \* new_count arguments of sem_reset
  IsrGive,        \* TRUE: an interrupt handler calls sem_give_isr
  MaxGives        \* bound on the gives per semaphore and epoch

ASSUME /\ Takers \cup Givers \cup Resetters \subseteq Tasks
       /\ TakeTimeouts \subseteq 0 .. TIMEOUT_FOREVER
       /\ SemInit \in [Sems -> Nat] /\ SemMax \in [Sems -> Nat]

TIMEOUT_NONE == 0
KERNEL_ERR_OVERFLOW == -7

VARIABLES
  count,          \* sem->count
  sem_arg,        \* the semaphore a task's sem_take or sem_reset works on
  sem_timeout,    \* the timeout of a task's sem_take
  \* ghosts: the tokens of the current epoch (since sem_init or sem_reset)
  base,           \* count at the start of the epoch
  given,          \* gives that succeeded
  taken,          \* sem_take calls that returned KERNEL_OK
  handed          \* the semaphore whose give woke the task inside sem_take

semvars == <<count, sem_arg, sem_timeout, base, given, taken, handed>>
allvars == <<vars, semvars>>

\* The tasks blocked on semaphore s in a state given by its fields.
BlockedOn(st, br, bo, s) ==
  {t \in AllTasks : st[t] = "BLOCKED" /\ br[t] = "SEMAPHORE" /\ bo[t] = s}

-----------------------------------------------------------------------------
(* Task steps of sem_take, sem_give and sem_reset                          *)

\* Return from sem_take: its locals are gone.
TakeReturns(t) ==
  /\ pc' = [pc EXCEPT ![t] = "call"]
  /\ sem_arg' = [sem_arg EXCEPT ![t] = NIL]
  /\ sem_timeout' = [sem_timeout EXCEPT ![t] = 0]
  /\ handed' = [handed EXCEPT ![t] = NIL]

\* sem_take(sem, timeout): the call, up to its first critical_enter.
SemTake(t, s, to) ==
  /\ Runs(t) /\ t \in Takers
  /\ Goto(t, "call", "sem_check")
  /\ sem_arg' = [sem_arg EXCEPT ![t] = s]
  /\ sem_timeout' = [sem_timeout EXCEPT ![t] = to]
  /\ UNCHANGED <<kvars, arg_task, arg_prio, locks, slept,
                 count, base, given, taken, handed>>

\* Variant of SemCheck that forgets the decrement.
SemCheckNoDecrement(t) ==
  LET s == sem_arg[t] IN
  /\ Runs(t) /\ pc[t] = "sem_check"
  /\ IF count[s] > 0
     THEN /\ taken' = [taken EXCEPT ![s] = @ + 1]
          /\ TakeReturns(t)
          /\ UNCHANGED count
     ELSE /\ UNCHANGED <<count, taken>>
          /\ IF sem_timeout[t] = TIMEOUT_NONE
             THEN TakeReturns(t)
             ELSE /\ pc' = [pc EXCEPT ![t] = "sem_block"]
                  /\ UNCHANGED <<handed, sem_arg, sem_timeout>>
  /\ UNCHANGED <<kvars, arg_task, arg_prio, locks, slept, base, given>>

\* The critical section of the loop: take a token, or return TIMEOUT for
\* TIMEOUT_NONE, or go on to block.
SemCheck(t) ==
  LET s == sem_arg[t] IN
  /\ Runs(t) /\ pc[t] = "sem_check"
  /\ IF count[s] > 0
     THEN /\ count' = [count EXCEPT ![s] = @ - 1]
          /\ taken' = [taken EXCEPT ![s] = @ + 1]
          /\ TakeReturns(t)
     ELSE /\ UNCHANGED <<count, taken>>
          /\ IF sem_timeout[t] = TIMEOUT_NONE
             THEN TakeReturns(t)
             ELSE /\ pc' = [pc EXCEPT ![t] = "sem_block"]
                  /\ UNCHANGED <<handed, sem_arg, sem_timeout>>
  /\ UNCHANGED <<kvars, arg_task, arg_prio, locks, slept, base, given>>

\* scheduler_block_task(BLOCK_SEMAPHORE, sem, timeout), its critical section.
SemBlock(t) ==
  /\ Runs(t) /\ Goto(t, "sem_block", "sem_yield")
  /\ Store(BlockTask(K, "SEMAPHORE", sem_arg[t], sem_timeout[t]))
  /\ UNCHANGED <<arg_task, arg_prio, locks, slept, semvars>>

\* The rest of scheduler_block_task; KERNEL_OK loops back to the check,
\* any other result is returned.
SemBlockReturn(t) ==
  /\ Runs(t) /\ pc[t] = "sem_yield"
  /\ Store(Yield(K))
  /\ IF block_result[t] = KERNEL_OK
     THEN /\ pc' = [pc EXCEPT ![t] = "sem_check"]
          /\ UNCHANGED <<handed, sem_arg, sem_timeout>>
     ELSE TakeReturns(t)
  /\ UNCHANGED <<arg_task, arg_prio, locks, slept, count, base, given, taken>>

\* Variant of Give without the max_count test.
GiveNoMax(s) ==
  LET w == Woken(K, "SEMAPHORE", s) IN
  /\ given[s] < MaxGives
  /\ \/ /\ w # NIL
        /\ Store(UnblockOne(K, "SEMAPHORE", s, KERNEL_OK))
        /\ given' = [given EXCEPT ![s] = @ + 1]
        /\ handed' = [handed EXCEPT ![w] = s]
        /\ UNCHANGED count
     \/ /\ w = NIL
        /\ count' = [count EXCEPT ![s] = @ + 1]
        /\ given' = [given EXCEPT ![s] = @ + 1]
        /\ UNCHANGED <<kvars, handed>>
  /\ UNCHANGED <<sem_arg, sem_timeout, base, taken>>

\* The body of sem_give and sem_give_isr, one critical section: wake the
\* best waiter, or refuse at max_count, or increment count.
Give(s) ==
  LET w == Woken(K, "SEMAPHORE", s) IN
  /\ given[s] < MaxGives
  /\ \/ /\ w # NIL
        /\ Store(UnblockOne(K, "SEMAPHORE", s, KERNEL_OK))
        /\ given' = [given EXCEPT ![s] = @ + 1]
        /\ handed' = [handed EXCEPT ![w] = s]
        /\ UNCHANGED count
     \/ /\ w = NIL
        /\ SemMax[s] > 0 /\ count[s] >= SemMax[s]
        /\ UNCHANGED <<kvars, count, given, handed>>
     \/ /\ w = NIL
        /\ ~(SemMax[s] > 0 /\ count[s] >= SemMax[s])
        /\ count' = [count EXCEPT ![s] = @ + 1]
        /\ given' = [given EXCEPT ![s] = @ + 1]
        /\ UNCHANGED <<kvars, handed>>
  /\ UNCHANGED <<sem_arg, sem_timeout, base, taken>>

\* sem_give by a task.
SemGive(t, s) ==
  /\ Runs(t) /\ t \in Givers /\ pc[t] = "call"
  /\ Give(s)
  /\ UNCHANGED tvars

\* sem_give_isr from an interrupt handler; it may run between any two steps.
SemGiveIsr(s) ==
  /\ IsrGive
  /\ Give(s)
  /\ UNCHANGED tvars

\* sem_reset(sem, n): the unprotected write of count (a new epoch).
SemReset(t, s, n) ==
  /\ Runs(t) /\ t \in Resetters
  /\ SemMax[s] = 0 \/ n <= SemMax[s]
  /\ Goto(t, "call", "sem_reset")
  /\ count' = [count EXCEPT ![s] = n]
  /\ sem_arg' = [sem_arg EXCEPT ![t] = s]
  /\ base' = [base EXCEPT ![s] = n]
  /\ given' = [given EXCEPT ![s] = 0]
  /\ taken' = [taken EXCEPT ![s] = 0]
  /\ handed' = [u \in AllTasks |-> IF handed[u] = s THEN NIL ELSE handed[u]]
  /\ UNCHANGED <<kvars, arg_task, arg_prio, locks, slept, sem_timeout>>

\* sem_reset: scheduler_unblock_all(BLOCK_SEMAPHORE, sem, KERNEL_ERR_STATE).
SemResetWake(t) ==
  /\ Runs(t) /\ Goto(t, "sem_reset", "call")
  /\ Store(UnblockAll(K, "SEMAPHORE", sem_arg[t], KERNEL_ERR_STATE))
  /\ sem_arg' = [sem_arg EXCEPT ![t] = NIL]
  /\ UNCHANGED <<arg_task, arg_prio, locks, slept, count, sem_timeout,
                 base, given, taken, handed>>

-----------------------------------------------------------------------------

SemInitState ==
  /\ Init
  /\ count = SemInit
  /\ sem_arg = [t \in AllTasks |-> NIL]
  /\ sem_timeout = [t \in AllTasks |-> 0]
  /\ base = SemInit
  /\ given = [s \in Sems |-> 0]
  /\ taken = [s \in Sems |-> 0]
  /\ handed = [t \in AllTasks |-> NIL]

SemTaskStep(t) ==
  \/ \E s \in Sems, to \in TakeTimeouts : SemTake(t, s, to)
  \/ SemCheck(t) \/ SemBlock(t) \/ SemBlockReturn(t)
  \/ \E s \in Sems : SemGive(t, s)
  \/ \E s \in Sems, n \in ResetCounts : SemReset(t, s, n)
  \/ SemResetWake(t)

SemNext ==
  \/ \E t \in Tasks : TaskStep(t) /\ UNCHANGED semvars
  \/ SysTick /\ UNCHANGED semvars
  \/ PendSV /\ UNCHANGED semvars
  \/ \E t \in Tasks : SemTaskStep(t)
  \/ \E s \in Sems : SemGiveIsr(s)

SemSpec == SemInitState /\ [][SemNext]_allvars

-----------------------------------------------------------------------------
(* Properties                                                              *)

SemTypeOK ==
  /\ count \in [Sems -> Nat]
  /\ sem_arg \in [AllTasks -> Sems \cup {NIL}]
  /\ handed \in [AllTasks -> Sems \cup {NIL}]
  /\ \A s \in Sems : SemMax[s] > 0 => count[s] <= SemMax[s]

(* sem_take returns KERNEL_OK only with a token: over an epoch the takes   *)
(* that succeeded never exceed the initial count plus the gives, however   *)
(* checks, blocks, gives from tasks and ISRs, timeouts and resets          *)
(* interleave.                                                             *)
NoOvertake ==
  \A s \in Sems : taken[s] <= base[s] + given[s]

(* scheduler_unblock_one, called by sem_give, wakes a waiter of the        *)
(* highest priority among those blocked on the semaphore (spec 3, 4.5).    *)
WakesHighestWaiter ==
  [][\A s \in Sems : \A t \in BlockedOn(state, block_reason, block_object, s) :
       (state'[t] = "READY" /\ block_result'[t] = KERNEL_OK)
         => \A u \in BlockedOn(state', block_reason', block_object', s) :
              priority[u] >= priority[t]]_allvars

(* Spec 4.5 and R1: a give either adds a token or is handed to a waiter,   *)
(* which then returns KERNEL_OK. So every give of the epoch is in count,   *)
(* in a take that returned OK, or with a woken taker that has not yet      *)
(* returned.                                                               *)
TokensConserved ==
  \A s \in Sems :
    count[s] + taken[s] + Cardinality({t \in AllTasks : handed[t] = s})
      = base[s] + given[s]

=============================================================================
