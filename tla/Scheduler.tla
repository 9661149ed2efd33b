----------------------------- MODULE Scheduler -----------------------------
(***************************************************************************)
(* HelixRT scheduler and task API on one Cortex-M7 core.                   *)
(*                                                                         *)
(*  - kernel memory: the TCB fields the scheduler uses, the scheduler      *)
(*    control block g_sched, g_blocked_head, g_tick_count, current_task    *)
(*    and the PENDSVSET bit (src/kernel/scheduler.c, scheduler.h, task.h); *)
(*  - the C functions of scheduler.c as operators from a kernel-memory     *)
(*    record K to the record they leave, so that a function calling        *)
(*    another is the composition of their operators;                       *)
(*  - one action per task-level step between two critical sections (the   *)
(*    task API of src/kernel/kernel.c), the SysTick ISR and the PendSV     *)
(*    context switch, which interleave at those points.                    *)
(*                                                                         *)
(* Ready lists and the blocked list are the intrusive next/prev pointers   *)
(* of the TCBs, as in the code, so that unlinking a node from the wrong    *)
(* list behaves as it does in the code.                                    *)
(***************************************************************************)
EXTENDS Integers, FiniteSets, Sequences, SequencesExt

CONSTANTS
  Tasks,          \* application tasks (model values)
  Idle,           \* the idle task created by kernel_init
  NIL,            \* NULL
  NumPrio,        \* CONFIG_MAX_PRIORITY; 0 is the highest priority
  CreateOrder,    \* sequence of Tasks: the task_create calls before kernel_start
  InitPriority,   \* Tasks -> priority argument of their task_create
  TimeSlice,      \* CONFIG_TIME_SLICE
  RoundRobin,     \* CONFIG_ROUND_ROBIN
  TickBits,       \* width of g_tick_count and of timeouts (32 in the build)
  Calls,          \* the kernel calls the application tasks make
  Delays,         \* arguments the tasks pass to task_delay
  NewPriorities,  \* arguments the tasks pass to task_set_priority
  PriorityCallers, \* the tasks that call task_set_priority
  SelfPriority,   \* TRUE: they may change their own priority
  SuspendOthers,  \* TRUE: a task may suspend another task, not only itself
  MaxLock         \* bound on a task's scheduler_lock nesting

AllTasks == Tasks \cup {Idle}
Prio == 0 .. NumPrio - 1
N == Cardinality(AllTasks)
TickMod == 2 ^ TickBits
TIMEOUT_FOREVER == TickMod - 1          \* UINT32_MAX

ASSUME /\ Idle \notin Tasks /\ NIL \notin AllTasks
       /\ ToSet(CreateOrder) = Tasks /\ Len(CreateOrder) = Cardinality(Tasks)
       /\ InitPriority \in [Tasks -> 0 .. NumPrio - 2]
       /\ TimeSlice \in Nat \ {0} /\ RoundRobin \in BOOLEAN
       /\ Delays \subseteq 0 .. TIMEOUT_FOREVER - 1
       /\ NewPriorities \subseteq 0 .. NumPrio - 2
       /\ PriorityCallers \subseteq Tasks
       /\ Calls \subseteq {"yield", "delay", "suspend", "resume", "set_priority", "lock",
                           "delete", "svc_delete", "svc_suspend", "svc_resume",
                           "svc_yield", "svc_delay", "svc_priority", "exit"}

\* Kernel return codes (kernel.h)
KERNEL_OK == 0
KERNEL_ERR_TIMEOUT == -3
KERNEL_ERR_STATE == -5
Results == {KERNEL_OK, KERNEL_ERR_TIMEOUT, KERNEL_ERR_STATE}

TaskStates == {"READY", "RUNNING", "BLOCKED", "SUSPENDED", "DELETED"}
BlockReasons == {"NONE", "DELAY", "SEMAPHORE", "MUTEX", "QUEUE_SEND", "QUEUE_RECV", "EVENT"}

VARIABLES
  \* TCB fields (task_tcb_t)
  next, prev, priority, state, block_reason, block_object, block_timeout,
  wake_tick, block_result, time_slice,
  \* g_sched (scheduler_t) and the other globals of scheduler.c
  ready_list, priority_bitmap, lock_count, reschedule_pending,
  current_task, blocked_head, tick_count,
  pendsv,         \* ICSR.PENDSVSET, set by scheduler_trigger_switch
  \* where each task is inside a kernel call, and the call's arguments
  pc, arg_task, arg_prio,
  locks,          \* the scheduler_lock nesting each task holds
  slept           \* ghost: ticks a delayed task has slept

kvars == <<next, prev, priority, state, block_reason, block_object, block_timeout,
           wake_tick, block_result, time_slice, ready_list, priority_bitmap,
           lock_count, reschedule_pending, current_task, blocked_head,
           tick_count, pendsv>>
tvars == <<pc, arg_task, arg_prio, locks, slept>>
vars == <<kvars, tvars>>

\* The kernel memory as one record, and the step that stores a record back
\* (m is k evaluated once).
K == [next |-> next, prev |-> prev, priority |-> priority, state |-> state,
      block_reason |-> block_reason, block_object |-> block_object,
      block_timeout |-> block_timeout, wake_tick |-> wake_tick,
      block_result |-> block_result, time_slice |-> time_slice,
      ready_list |-> ready_list, priority_bitmap |-> priority_bitmap,
      lock_count |-> lock_count, reschedule_pending |-> reschedule_pending,
      current_task |-> current_task, blocked_head |-> blocked_head,
      tick_count |-> tick_count, pendsv |-> pendsv]

Store(k) ==
  \E m \in {k} :
    /\ next' = m.next /\ prev' = m.prev /\ priority' = m.priority
    /\ state' = m.state /\ block_reason' = m.block_reason
    /\ block_object' = m.block_object /\ block_timeout' = m.block_timeout
    /\ wake_tick' = m.wake_tick /\ block_result' = m.block_result
    /\ time_slice' = m.time_slice /\ ready_list' = m.ready_list
    /\ priority_bitmap' = m.priority_bitmap /\ lock_count' = m.lock_count
    /\ reschedule_pending' = m.reschedule_pending
    /\ current_task' = m.current_task /\ blocked_head' = m.blocked_head
    /\ tick_count' = m.tick_count /\ pendsv' = m.pendsv

\* The same, as the initial state.
Load(k) ==
  /\ next = k.next /\ prev = k.prev /\ priority = k.priority
  /\ state = k.state /\ block_reason = k.block_reason
  /\ block_object = k.block_object /\ block_timeout = k.block_timeout
  /\ wake_tick = k.wake_tick /\ block_result = k.block_result
  /\ time_slice = k.time_slice /\ ready_list = k.ready_list
  /\ priority_bitmap = k.priority_bitmap /\ lock_count = k.lock_count
  /\ reschedule_pending = k.reschedule_pending
  /\ current_task = k.current_task /\ blocked_head = k.blocked_head
  /\ tick_count = k.tick_count /\ pendsv = k.pendsv

-----------------------------------------------------------------------------
(* Lists and the priority bitmap                                           *)

\* The nodes reached from h along next, at most fuel of them.
RECURSIVE ListFrom(_, _, _)
ListFrom(nx, h, fuel) ==
  IF h = NIL \/ fuel = 0 THEN <<>> ELSE <<h>> \o ListFrom(nx, nx[h], fuel - 1)

\* bitmap_find_highest: lowest set bit, CONFIG_MAX_PRIORITY when empty.
Highest(k) == IF k.priority_bitmap = {} THEN NumPrio ELSE Min(k.priority_bitmap)

\* scheduler_trigger_switch: set PENDSVSET.
TriggerSwitch(k) == [k EXCEPT !.pendsv = TRUE]

\* ready_insert_tail: walk from the head to the last node and append.
ReadyInsertTail(k, t) ==
  LET p  == k.priority[t]
      k1 == [k EXCEPT !.next[t] = NIL, !.prev[t] = NIL]
      h  == k1.ready_list[p]
      L  == ListFrom(k1.next, h, N)
  IN IF h = NIL
     THEN [k1 EXCEPT !.ready_list[p] = t, !.priority_bitmap = @ \cup {p}]
     ELSE [k1 EXCEPT !.next[L[Len(L)]] = t, !.prev[t] = L[Len(L)]]

\* blocked_insert: push at the head of the blocked list.
BlockedInsert(k, t) ==
  LET h  == k.blocked_head
      k1 == [k EXCEPT !.next[t] = h, !.prev[t] = NIL]
      k2 == IF h # NIL THEN [k1 EXCEPT !.prev[h] = t] ELSE k1
  IN [k2 EXCEPT !.blocked_head = t]

\* Variant of Unlink that does not repair the successor's prev pointer.
UnlinkKeepPrev(k, t) ==
  LET k1 == IF k.prev[t] # NIL THEN [k EXCEPT !.next[k.prev[t]] = k.next[t]] ELSE k
  IN [k1 EXCEPT !.next[t] = NIL, !.prev[t] = NIL]

\* The common tail of blocked_remove and scheduler_remove_task: bridge the
\* neighbours over t and clear t's links.
Unlink(k, t) ==
  LET k1 == IF k.prev[t] # NIL THEN [k EXCEPT !.next[k.prev[t]] = k.next[t]] ELSE k
      k2 == IF k1.next[t] # NIL THEN [k1 EXCEPT !.prev[k1.next[t]] = k1.prev[t]] ELSE k1
  IN [k2 EXCEPT !.next[t] = NIL, !.prev[t] = NIL]

\* blocked_remove
BlockedRemove(k, t) ==
  Unlink(IF k.prev[t] = NIL /\ k.blocked_head = t
         THEN [k EXCEPT !.blocked_head = k.next[t]] ELSE k, t)

\* Variant of RemoveTask that leaves the priority bit set.
RemoveTaskKeepBit(k, t) ==
  LET p  == k.priority[t]
      k1 == IF k.ready_list[p] = t THEN [k EXCEPT !.ready_list[p] = k.next[t]] ELSE k
  IN Unlink(k1, t)

\* scheduler_remove_task: unlink t assuming it is on ready_list[t.priority].
RemoveTask(k, t) ==
  LET p  == k.priority[t]
      k1 == IF k.ready_list[p] = t THEN [k EXCEPT !.ready_list[p] = k.next[t]] ELSE k
      k2 == Unlink(k1, t)
  IN IF k2.ready_list[p] = NIL
     THEN [k2 EXCEPT !.priority_bitmap = @ \ {p}] ELSE k2

\* Variant of AddTask that never pends a switch.
AddTaskNoTrigger(k, t) ==
  ReadyInsertTail([k EXCEPT !.state[t] = "READY", !.time_slice[t] = TimeSlice], t)

\* scheduler_add_task
AddTask(k, t) ==
  LET k1 == ReadyInsertTail([k EXCEPT !.state[t] = "READY",
                                      !.time_slice[t] = TimeSlice], t)
  IN IF k1.current_task # NIL /\ k1.priority[t] < k1.priority[k1.current_task]
     THEN TriggerSwitch(k1) ELSE k1

-----------------------------------------------------------------------------
(* scheduler.c operations                                                  *)

\* scheduler_yield
Yield(k) ==
  LET c == k.current_task
      p == k.priority[c]
      h == k.ready_list[p]
      Rotate(k1) ==
        ReadyInsertTail([k1 EXCEPT !.ready_list[p] = k1.next[h],
                                   !.prev[k1.next[h]] = NIL,
                                   !.next[h] = NIL, !.prev[h] = NIL], h)
  IN CASE c = NIL -> k
       [] k.lock_count > 0 -> [k EXCEPT !.reschedule_pending = TRUE]
       [] OTHER -> TriggerSwitch(IF h # NIL /\ k.next[h] # NIL /\ h = c
                                 THEN Rotate(k) ELSE k)

\* Variant of TickExpired with an off-by-one comparison (> for >=).
TickExpiredLate(k, t) ==
  /\ \/ k.block_reason[t] = "DELAY"
     \/ k.block_timeout[t] \notin {0, TIMEOUT_FOREVER}
  /\ k.tick_count > k.wake_tick[t]

\* The wake test of scheduler_tick for one blocked task (tick already advanced).
TickExpired(k, t) ==
  /\ \/ k.block_reason[t] = "DELAY"
     \/ k.block_timeout[t] \notin {0, TIMEOUT_FOREVER}
  /\ k.tick_count >= k.wake_tick[t]

\* The wake-up branch of scheduler_tick's blocked-list walk.
TickWake(k, t) ==
  LET k1 == IF k.block_reason[t] # "DELAY"
            THEN [k EXCEPT !.block_result[t] = KERNEL_ERR_TIMEOUT] ELSE k
      k2 == BlockedRemove(k1, t)
  IN ReadyInsertTail([k2 EXCEPT !.block_reason[t] = "NONE", !.block_object[t] = NIL,
                                !.block_timeout[t] = 0, !.state[t] = "READY"], t)

\* The walk itself: next is read before the node is moved.
RECURSIVE TickWalk(_, _, _)
TickWalk(k, it, fuel) ==
  IF it = NIL \/ fuel = 0 THEN k
  ELSE TickWalk(IF TickExpired(k, it) THEN TickWake(k, it) ELSE k, k.next[it], fuel - 1)

\* The time-slice accounting of scheduler_tick.
ChargeSlice(k) ==
  LET c  == k.current_task
      k1 == IF k.time_slice[c] > 0 THEN [k EXCEPT !.time_slice[c] = @ - 1] ELSE k
  IN CASE c = NIL                                -> k
       [] RoundRobin /\ k1.time_slice[c] = 0     -> Yield([k1 EXCEPT !.time_slice[c] = TimeSlice])
       [] OTHER                                  -> k1

\* Variant of SchedulerTick without the final preemption check.
SchedulerTickNoPreempt(k) ==
  ChargeSlice(TickWalk([k EXCEPT !.tick_count = (@ + 1) % TickMod],
                       (k.blocked_head), N))

\* scheduler_tick
SchedulerTick(k) ==
  LET k1 == [k EXCEPT !.tick_count = (@ + 1) % TickMod]
      k2 == ChargeSlice(TickWalk(k1, k1.blocked_head, N))
  IN IF k2.current_task # NIL /\ Highest(k2) < k2.priority[k2.current_task]
     THEN TriggerSwitch(k2) ELSE k2

\* Variant of BlockTask that computes wake_tick wider than the tick counter.
BlockTaskWide(k, reason, obj, timeout) ==
  LET c  == k.current_task
      k1 == RemoveTask(k, c)
      wt == CASE timeout = 0               -> k.tick_count + 1
              [] timeout = TIMEOUT_FOREVER -> TIMEOUT_FOREVER
              [] OTHER                     -> k.tick_count + timeout
      k2 == [k1 EXCEPT !.state[c] = "BLOCKED", !.block_reason[c] = reason,
                       !.block_object[c] = obj, !.block_timeout[c] = timeout,
                       !.block_result[c] = KERNEL_OK, !.wake_tick[c] = wt]
  IN IF c = NIL THEN k ELSE TriggerSwitch(BlockedInsert(k2, c))

\* scheduler_block_task, up to its critical_exit.
BlockTask(k, reason, obj, timeout) ==
  LET c  == k.current_task
      k1 == RemoveTask(k, c)
      wt == CASE timeout = 0               -> (k.tick_count + 1) % TickMod
              [] timeout = TIMEOUT_FOREVER -> TIMEOUT_FOREVER
              [] OTHER                     -> (k.tick_count + timeout) % TickMod
      k2 == [k1 EXCEPT !.state[c] = "BLOCKED", !.block_reason[c] = reason,
                       !.block_object[c] = obj, !.block_timeout[c] = timeout,
                       !.block_result[c] = KERNEL_OK, !.wake_tick[c] = wt]
  IN IF c = NIL THEN k ELSE TriggerSwitch(BlockedInsert(k2, c))

\* Variant of Unblocked that forgets blocked_remove.
UnblockedKeepBlocked(k, t, result) ==
  ReadyInsertTail([k EXCEPT !.state[t] = "READY", !.block_reason[t] = "NONE",
                            !.block_result[t] = result, !.block_object[t] = NIL,
                            !.block_timeout[t] = 0], t)

\* The wake-up shared by scheduler_unblock_task/one/all: off the blocked
\* list, result recorded, block fields cleared, onto the ready list.
Unblocked(k, t, result) ==
  ReadyInsertTail([BlockedRemove(k, t) EXCEPT
                     !.state[t] = "READY", !.block_reason[t] = "NONE",
                     !.block_result[t] = result, !.block_object[t] = NIL,
                     !.block_timeout[t] = 0], t)

\* The blocked tasks waiting for (reason, obj), in blocked-list order.
Waiters(k, reason, obj) ==
  SelectSeq(ListFrom(k.next, k.blocked_head, N),
            LAMBDA t : k.block_reason[t] = reason /\ k.block_object[t] = obj)

\* The task scheduler_unblock_one picks: walking the list from its head, a
\* waiter replaces the best so far only if its priority is strictly higher.
RECURSIVE BestWaiter(_, _, _)
BestWaiter(k, W, best) ==
  IF W = <<>> THEN best
  ELSE BestWaiter(k, Tail(W),
                  IF best = NIL \/ k.priority[Head(W)] < k.priority[best]
                  THEN Head(W) ELSE best)

\* Variant of Woken that takes the first waiter on the list.
WokenFirst(k, reason, obj) ==
  IF Waiters(k, reason, obj) = <<>> THEN NIL ELSE Head(Waiters(k, reason, obj))

\* scheduler_unblock_one; whether it found a waiter is Woken(k, ...) # NIL.
Woken(k, reason, obj) == BestWaiter(k, Waiters(k, reason, obj), NIL)

\* Variant of UnblockOne that never pends a switch.
UnblockOneNoTrigger(k, reason, obj, result) ==
  LET b == Woken(k, reason, obj) IN IF b = NIL THEN k ELSE Unblocked(k, b, result)

UnblockOne(k, reason, obj, result) ==
  LET b  == Woken(k, reason, obj)
      k1 == Unblocked(k, b, result)
  IN CASE b = NIL                                            -> k
       [] k1.current_task # NIL /\ k1.priority[b] < k1.priority[k1.current_task]
                                                            -> TriggerSwitch(k1)
       [] OTHER                                             -> k1

\* Variant of UnblockAll that readies the waiters without pending a switch.
UnblockAllNoTrigger(k, reason, obj, result) ==
  FoldLeft(LAMBDA kk, t : Unblocked(kk, t, result), k, Waiters(k, reason, obj))

\* scheduler_unblock_all: every waiter in list order, then one switch.
UnblockAll(k, reason, obj, result) ==
  LET W  == Waiters(k, reason, obj)
      k1 == FoldLeft(LAMBDA kk, t : Unblocked(kk, t, result), k, W)
  IN IF W # <<>> THEN TriggerSwitch(k1) ELSE k1

\* scheduler_unlock
Unlock(k) ==
  LET k1 == IF k.lock_count > 0 THEN [k EXCEPT !.lock_count = @ - 1] ELSE k
  IN IF k1.lock_count = 0 /\ k1.reschedule_pending
     THEN TriggerSwitch([k1 EXCEPT !.reschedule_pending = FALSE]) ELSE k1

\* The PendSV handler (spec 4.4, part 2; it is not in src/): save the
\* outgoing context, scheduler_select_next_task, mark the incoming task
\* running with a fresh time slice, restore it.
SwitchContext(k) ==
  LET nt == k.ready_list[Highest(k)]
      c  == k.current_task
      k1 == IF c # NIL /\ k.state[c] = "RUNNING" THEN [k EXCEPT !.state[c] = "READY"] ELSE k
  IN [k1 EXCEPT !.current_task = nt, !.state[nt] = "RUNNING",
                !.time_slice[nt] = TimeSlice, !.pendsv = FALSE]

\* task_create on a fresh TCB (kernel.c), ending in scheduler_add_task.
CreateTask(k, t, p) ==
  AddTask([k EXCEPT !.priority[t] = p, !.next[t] = NIL, !.prev[t] = NIL,
                    !.wake_tick[t] = 0, !.block_reason[t] = "NONE",
                    !.block_object[t] = NIL, !.block_timeout[t] = 0,
                    !.block_result[t] = KERNEL_OK], t)

\* scheduler_start: the highest ready task becomes the running one.
StartFirst(k) ==
  LET first == k.ready_list[Highest(k)]
  IN [k EXCEPT !.current_task = first, !.state[first] = "RUNNING",
               !.time_slice[first] = TimeSlice]

\* scheduler_init
K0 == [next |-> [t \in AllTasks |-> NIL], prev |-> [t \in AllTasks |-> NIL],
       priority |-> [t \in AllTasks |-> NumPrio - 1],
       state |-> [t \in AllTasks |-> "DELETED"],
       block_reason |-> [t \in AllTasks |-> "NONE"],
       block_object |-> [t \in AllTasks |-> NIL],
       block_timeout |-> [t \in AllTasks |-> 0],
       wake_tick |-> [t \in AllTasks |-> 0],
       block_result |-> [t \in AllTasks |-> KERNEL_OK],
       time_slice |-> [t \in AllTasks |-> TimeSlice],
       ready_list |-> [p \in Prio |-> NIL], priority_bitmap |-> {},
       lock_count |-> 0, reschedule_pending |-> FALSE,
       current_task |-> NIL, blocked_head |-> NIL, tick_count |-> 0,
       pendsv |-> FALSE]

\* kernel_init (idle task at the lowest priority), the application's
\* task_create calls, kernel_start.
Booted ==
  StartFirst(FoldLeft(LAMBDA k, t : CreateTask(k, t, InitPriority[t]),
                      CreateTask(K0, Idle, NumPrio - 1), CreateOrder))

Init ==
  /\ Load(Booted)
  /\ pc = [t \in AllTasks |-> "call"]
  /\ arg_task = [t \in AllTasks |-> NIL]
  /\ arg_prio = [t \in AllTasks |-> 0]
  /\ locks = [t \in AllTasks |-> 0]
  /\ slept = [t \in AllTasks |-> 0]

-----------------------------------------------------------------------------
(* Task-level steps. Only the running task executes, and only while no     *)
(* PendSV is pending: PendSV is taken at the critical_exit that follows    *)
(* scheduler_trigger_switch. Each action is one critical section, or the   *)
(* code between two of them; SysTick may run between any two.             *)

Runs(t) == /\ t \in Tasks /\ t = current_task /\ ~pendsv

\* Move a task from one program point of a kernel call to another.
Goto(t, from, to) == pc[t] = from /\ pc' = [pc EXCEPT ![t] = to]

\* task_yield
TaskYield(t) ==
  /\ Runs(t) /\ pc[t] = "call"
  /\ Store(Yield(K))
  /\ UNCHANGED tvars

\* task_delay(ticks), up to the critical_exit of scheduler_block_task;
\* task_delay(0) is scheduler_yield.
TaskDelay(t, ticks) ==
  /\ Runs(t)
  /\ IF ticks = 0
     THEN pc[t] = "call" /\ Store(Yield(K)) /\ UNCHANGED tvars
     ELSE /\ Goto(t, "call", "block_yield")
          /\ Store(BlockTask(K, "DELAY", NIL, ticks))
          /\ UNCHANGED <<arg_task, arg_prio, locks, slept>>

\* The rest of scheduler_block_task once the task runs again: the second
\* scheduler_yield, then return of block_result.
BlockReturn(t) ==
  /\ Runs(t) /\ Goto(t, "block_yield", "call")
  /\ Store(Yield(K))
  /\ UNCHANGED <<arg_task, arg_prio, locks, slept>>

\* task_suspend(tcb), its critical section: unlink and mark suspended.
TaskSuspend(t, x) ==
  /\ Runs(t) /\ Goto(t, "call", "suspend_yield")
  /\ x = t \/ SuspendOthers
  /\ Store([RemoveTask(K, x) EXCEPT !.state[x] = "SUSPENDED"])
  /\ arg_task' = [arg_task EXCEPT ![t] = x]
  /\ UNCHANGED <<arg_prio, locks, slept>>

\* task_suspend, after the critical section: yield when it suspended the
\* task that is current now.
SuspendYield(t) ==
  /\ Runs(t) /\ Goto(t, "suspend_yield", "call")
  /\ Store(IF arg_task[t] = current_task THEN Yield(K) ELSE K)
  /\ arg_task' = [arg_task EXCEPT ![t] = NIL]
  /\ UNCHANGED <<arg_prio, locks, slept>>

\* task_delete(tcb), its critical section: unlink and mark deleted. The
\* TCB and stack pool slots are not given back.
TaskDelete(t, x) ==
  /\ Runs(t) /\ Goto(t, "call", "delete_yield")
  /\ x = t \/ SuspendOthers
  /\ Store([RemoveTask(K, x) EXCEPT !.state[x] = "DELETED"])
  /\ arg_task' = [arg_task EXCEPT ![t] = x]
  /\ UNCHANGED <<arg_prio, locks, slept>>

\* task_delete, after the critical section: a task that deleted itself
\* yields and waits for interrupts for good; otherwise it returns.
DeleteYield(t) ==
  /\ Runs(t) /\ pc[t] = "delete_yield"
  /\ Store(IF arg_task[t] = current_task THEN Yield(K) ELSE K)
  /\ pc' = [pc EXCEPT ![t] = IF arg_task[t] = t THEN "deleted" ELSE "call"]
  /\ arg_task' = [arg_task EXCEPT ![t] = NIL]
  /\ UNCHANGED <<arg_prio, locks, slept>>

\* The task function returns: task_init_stack put task_exit_trampoline in
\* its LR, which calls task_delete(NULL) on the caller.
TaskExit(t) == TaskDelete(t, t)

\* task_resume(tcb) of a suspended task.
TaskResume(t, x) ==
  /\ Runs(t) /\ pc[t] = "call"
  /\ state[x] = "SUSPENDED"
  /\ Store(AddTask([K EXCEPT !.state[x] = "READY"], x))
  /\ UNCHANGED tvars

\* task_set_priority(tcb, prio) -> scheduler_set_priority. A ready or
\* running task is unlinked here and re-added by SetPriorityAdd; any
\* other task only has its priority field written.
TaskSetPriority(t, x, p) ==
  /\ Runs(t) /\ pc[t] = "call" /\ t \in PriorityCallers
  /\ x # t \/ SelfPriority
  /\ IF state[x] \in {"READY", "RUNNING"}
     THEN /\ Store(RemoveTask(K, x))
          /\ pc' = [pc EXCEPT ![t] = "setprio_add"]
          /\ arg_task' = [arg_task EXCEPT ![t] = x]
          /\ arg_prio' = [arg_prio EXCEPT ![t] = p]
          /\ UNCHANGED <<locks, slept>>
     ELSE /\ Store([K EXCEPT !.priority[x] = p])
          /\ UNCHANGED tvars

\* scheduler_set_priority after scheduler_remove_task: write the field
\* and scheduler_add_task.
SetPriorityAdd(t) ==
  LET x == arg_task[t] IN
  /\ Runs(t) /\ Goto(t, "setprio_add", "call")
  /\ Store(AddTask([K EXCEPT !.priority[x] = arg_prio[t]], x))
  /\ arg_task' = [arg_task EXCEPT ![t] = NIL]
  /\ arg_prio' = [arg_prio EXCEPT ![t] = 0]
  /\ UNCHANGED <<locks, slept>>

\* scheduler_lock
SchedLock(t) ==
  /\ Runs(t) /\ pc[t] = "call" /\ locks[t] < MaxLock
  /\ Store([K EXCEPT !.lock_count = @ + 1])
  /\ locks' = [locks EXCEPT ![t] = @ + 1]
  /\ UNCHANGED <<pc, arg_task, arg_prio, slept>>

\* scheduler_unlock, by a task that holds a lock.
SchedUnlock(t) ==
  /\ Runs(t) /\ pc[t] = "call" /\ locks[t] > 0
  /\ Store(Unlock(K))
  /\ locks' = [locks EXCEPT ![t] = @ - 1]
  /\ UNCHANGED <<pc, arg_task, arg_prio, slept>>

-----------------------------------------------------------------------------
(* System calls: svc #n from a task. SVC_Handler calls svc_dispatch with   *)
(* the stacked arguments (spec 4.4; src/ has only a weak stub). SVC keeps  *)
(* the reset priority 0, above SysTick and PendSV, so the whole kernel     *)
(* call runs as one step and a switch it pends is taken after it returns.  *)

\* The SVC immediate values (syscall.h); svc_dispatch returns
\* KERNEL_ERR_PARAM for any other, SVC_START_FIRST_TASK included.
SvcNumber == [svc_delete |-> 2, svc_suspend |-> 3, svc_resume |-> 4,
              svc_yield |-> 5, svc_delay |-> 6, svc_priority |-> 7]

\* Variant of SetPriorityOf that rewrites the priority of a listed task in
\* place, leaving it on the list of its old priority.
SetPriorityOfInPlace(k, x, p) == [k EXCEPT !.priority[x] = p]

\* task_set_priority(tcb, prio): scheduler_set_priority with nothing
\* between its remove and its add.
SetPriorityOf(k, x, p) ==
  IF k.state[x] \in {"READY", "RUNNING"}
  THEN AddTask([RemoveTask(k, x) EXCEPT !.priority[x] = p], x)
  ELSE [k EXCEPT !.priority[x] = p]

\* Variant of SvcDispatch whose self-suspend does not yield.
SvcDispatchSuspendNoYield(k, n, x, d, p) ==
  LET self == k.current_task
      susp == [RemoveTask(k, x) EXCEPT !.state[x] = "SUSPENDED"]
  IN CASE n = SvcNumber.svc_yield    -> Yield(k)
       [] n = SvcNumber.svc_delay    -> IF d = 0 THEN Yield(k)
                                        ELSE Yield(BlockTask(k, "DELAY", NIL, d))
       [] n = SvcNumber.svc_suspend  -> susp
       [] n = SvcNumber.svc_resume   -> IF k.state[x] = "SUSPENDED"
                                        THEN AddTask([k EXCEPT !.state[x] = "READY"], x)
                                        ELSE k
       [] n = SvcNumber.svc_delete   -> LET del == [RemoveTask(k, x) EXCEPT !.state[x] = "DELETED"]
                                        IN IF x = self THEN Yield(del) ELSE del
       [] n = SvcNumber.svc_priority -> SetPriorityOf(k, x, p)
       [] OTHER                      -> k

\* svc_dispatch(n, x / d, p) run by the current task, as one step.
SvcDispatch(k, n, x, d, p) ==
  LET self == k.current_task
      susp == [RemoveTask(k, x) EXCEPT !.state[x] = "SUSPENDED"]
  IN CASE n = SvcNumber.svc_yield    -> Yield(k)
       [] n = SvcNumber.svc_delay    -> IF d = 0 THEN Yield(k)
                                        ELSE Yield(BlockTask(k, "DELAY", NIL, d))
       [] n = SvcNumber.svc_suspend  -> IF x = self THEN Yield(susp) ELSE susp
       [] n = SvcNumber.svc_resume   -> IF k.state[x] = "SUSPENDED"
                                        THEN AddTask([k EXCEPT !.state[x] = "READY"], x)
                                        ELSE k
       [] n = SvcNumber.svc_delete   -> LET del == [RemoveTask(k, x) EXCEPT !.state[x] = "DELETED"]
                                        IN IF x = self THEN Yield(del) ELSE del
       [] n = SvcNumber.svc_priority -> SetPriorityOf(k, x, p)
       [] OTHER                      -> k

\* The svc instruction of the syscall wrappers (syscall.c) and its handler.
\* task_delete of the caller ends in task_delete's WFI loop, which now
\* runs in the handler: nothing of lower priority is taken again.
SvcCall(t, c, x, d, p) ==
  /\ Runs(t) /\ pc[t] = "call"
  /\ c \in {"svc_suspend", "svc_delete"} => x = t \/ SuspendOthers
  /\ c = "svc_priority" => t \in PriorityCallers /\ (x # t \/ SelfPriority)
  /\ Store(SvcDispatch(K, SvcNumber[c], x, d, p))
  /\ pc' = [pc EXCEPT ![t] = IF c = "svc_delete" /\ x = t THEN "svc_wfi" ELSE "call"]
  /\ UNCHANGED <<arg_task, arg_prio, locks, slept>>

\* A task spins in the SVC handler.
Halted == \E t \in Tasks : pc[t] = "svc_wfi"

\* What a tick leaves to the tasks: their program points are untouched, and
\* the ghost slept counts it for every task in task_delay.
TickTaskSide ==
  /\ slept' = [t \in AllTasks |->
                 IF state[t] = "BLOCKED" /\ block_reason[t] = "DELAY"
                 THEN Min({slept[t] + 1, TIMEOUT_FOREVER}) ELSE 0]
  /\ UNCHANGED <<pc, arg_task, arg_prio, locks>>

\* SysTick_Handler: scheduler_tick (timer_tick_isr is composed in
\* TimerEvent). Interrupts are masked only inside critical sections, which
\* are single steps here, so it may run between any two steps.
SysTick ==
  /\ ~Halted
  /\ Store(SchedulerTick(K))
  /\ TickTaskSide

\* PendSV_Handler: the context switch.
PendSV ==
  /\ ~Halted /\ pendsv /\ priority_bitmap # {}
  /\ Store(SwitchContext(K))
  /\ UNCHANGED tvars

TaskStep(t) ==
  \/ "yield" \in Calls /\ TaskYield(t)
  \/ "delay" \in Calls /\ \E d \in Delays : TaskDelay(t, d)
  \/ BlockReturn(t)
  \/ "suspend" \in Calls /\ \E x \in Tasks : TaskSuspend(t, x)
  \/ SuspendYield(t)
  \/ "resume" \in Calls /\ \E x \in Tasks : TaskResume(t, x)
  \/ "delete" \in Calls /\ \E x \in Tasks : TaskDelete(t, x)
  \/ DeleteYield(t)
  \/ "exit" \in Calls /\ TaskExit(t)
  \/ "set_priority" \in Calls /\ \E x \in Tasks, p \in NewPriorities : TaskSetPriority(t, x, p)
  \/ SetPriorityAdd(t)
  \/ "lock" \in Calls /\ (SchedLock(t) \/ SchedUnlock(t))
  \/ \E c \in Calls \cap DOMAIN SvcNumber, x \in Tasks, d \in Delays, p \in NewPriorities :
       SvcCall(t, c, x, d, p)

Next ==
  \/ \E t \in Tasks : TaskStep(t)
  \/ SysTick
  \/ PendSV

\* The SysTick interrupt fires as long as the timer runs, and a pending
\* PendSV is taken as soon as nothing of higher priority runs. SysTick has
\* no guard and is the only action that changes tick_count, so its weak
\* fairness is stated over the tick counter alone: a tick is always
\* enabled and eventually taken.
TickAdvances == tick_count' = (tick_count + 1) % TickMod
Fairness == WF_tick_count(TickAdvances) /\ WF_vars(PendSV)

Spec == Init /\ [][Next]_vars /\ Fairness

-----------------------------------------------------------------------------
(* Properties                                                              *)

TypeOK ==
  /\ next \in [AllTasks -> AllTasks \cup {NIL}]
  /\ prev \in [AllTasks -> AllTasks \cup {NIL}]
  /\ priority \in [AllTasks -> Prio]
  /\ state \in [AllTasks -> TaskStates]
  /\ block_reason \in [AllTasks -> BlockReasons]
  /\ block_timeout \in [AllTasks -> 0 .. TIMEOUT_FOREVER]
  /\ wake_tick \in [AllTasks -> 0 .. TIMEOUT_FOREVER]
  /\ block_result \in [AllTasks -> Results]
  /\ time_slice \in [AllTasks -> 0 .. TimeSlice]
  /\ ready_list \in [Prio -> AllTasks \cup {NIL}]
  /\ priority_bitmap \subseteq Prio
  /\ lock_count \in 0 .. MaxLock * Cardinality(Tasks)
  /\ reschedule_pending \in BOOLEAN
  /\ current_task \in AllTasks
  /\ blocked_head \in AllTasks \cup {NIL}
  /\ tick_count \in 0 .. TickMod - 1
  /\ pendsv \in BOOLEAN
  /\ locks \in [AllTasks -> 0 .. MaxLock]

ReadySeq(p) == ListFrom(next, ready_list[p], N + 1)
BlockedSeq == ListFrom(next, blocked_head, N + 1)
OnReady(t) == \E p \in Prio : t \in ToSet(ReadySeq(p))

\* A list from h is acyclic and its prev pointers mirror its next pointers.
WellLinked(h) ==
  LET L == ListFrom(next, h, N + 1) IN
  /\ Len(L) <= N
  /\ h # NIL => prev[h] = NIL
  /\ \A i \in 1 .. Len(L) - 1 : prev[L[i + 1]] = L[i]

\* Some other task is between the two steps of scheduler_set_priority(t),
\* called by task_set_priority or by the inheritance boost of mutex_lock:
\* it has unlinked t and will insert it again.
ReAddPending(t) ==
  \E c \in Tasks : c # t /\ pc[c] \in {"setprio_add", "mtx_boost_add"} /\ arg_task[c] = t

(* Spec invariants I1/I2, P1/P2, at every point where an interrupt can be  *)
(* taken: the ready lists and the blocked list are well linked; bit p of   *)
(* priority_bitmap is set iff ready_list[p] is non-empty; ready_list[p]    *)
(* holds exactly ready tasks of priority p and the blocked list exactly    *)
(* the blocked tasks; and a ready task that is not running is on its ready *)
(* list, unless scheduler_set_priority is moving it. A task that breaks    *)
(* the last clause has been switched out while on no list: PendSV will     *)
(* never select it again.                                                  *)
ListsConsistent ==
  /\ \A p \in Prio : WellLinked(ready_list[p]) /\ (p \in priority_bitmap <=> ready_list[p] # NIL)
  /\ WellLinked(blocked_head)
  /\ \A p \in Prio : \A t \in ToSet(ReadySeq(p)) :
        priority[t] = p /\ state[t] \in {"READY", "RUNNING"} /\ t \notin ToSet(BlockedSeq)
  /\ ToSet(BlockedSeq) = {t \in AllTasks : state[t] = "BLOCKED"}
  /\ \A t \in AllTasks :
        state[t] \in {"READY", "RUNNING"} /\ ~OnReady(t) => t = current_task \/ ReAddPending(t)

(* Preemptive priority scheduling (spec 4.3, B4): whenever the running     *)
(* task is between kernel calls, no switch is pending and the scheduler is *)
(* not locked, the running task is the head of the highest-priority        *)
(* non-empty ready list, i.e. the task PendSV would pick. It fails if an   *)
(* operation that makes a more urgent task ready forgets to pend a switch. *)
RunningIsHighestHead ==
  (~pendsv /\ lock_count = 0 /\ pc[current_task] = "call")
    => current_task = ready_list[Highest(K)]

(* A task in task_delay is eventually made ready by scheduler_tick, given  *)
(* the SysTick interrupt keeps firing.                                     *)
DelayedTaskWakes ==
  \A t \in Tasks : (state[t] = "BLOCKED" /\ block_reason[t] = "DELAY")
                     ~> state[t] # "BLOCKED"

(* P7: a task that called task_delay(n) is not woken by the tick before n  *)
(* ticks have passed since it blocked.                                     *)
DelayNotEarly ==
  [][\A t \in Tasks :
       (state[t] = "BLOCKED" /\ block_reason[t] = "DELAY" /\ state'[t] = "READY")
         => slept'[t] >= block_timeout[t]]_vars

(* Spec 4.3: scheduler_lock keeps the running task on the CPU until        *)
(* scheduler_unlock; ISR-delivered unblocks only set reschedule_pending.   *)
(* While the lock is held, the running task is switched out only if it     *)
(* blocked or suspended itself.                                            *)
LockPreventsPreemption ==
  [][(lock_count > 0 /\ current_task' # current_task)
       => state[current_task] \in {"BLOCKED", "SUSPENDED"}]_vars

=============================================================================
