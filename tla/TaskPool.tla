----------------------------- MODULE TaskPool -------------------------------
(***************************************************************************)
(* The static TCB and stack pools of kernel.c, as task_create(NULL, ...,   *)
(* NULL, CONFIG_DEFAULT_STACK_SIZE) and task_delete use them at run time   *)
(* (the path of SVC_TASK_CREATE and of any task creating a task).          *)
(*                                                                         *)
(* alloc_slot is a plain loop over a byte bitmap: the load of bitmap[i]    *)
(* and the store of 1 are separate instructions, and nothing masks         *)
(* interrupts around them, so a creator can be preempted between them.     *)
(* g_next_task_id++ is a load and a store. scheduler_add_task and the      *)
(* unlink of task_delete are critical sections, one step each. A creator   *)
(* is a task that calls task_create and task_delete; creators are          *)
(* interleaved arbitrarily, which a higher-priority creator woken by a     *)
(* tick realises for any point of a lower one. A created task is the       *)
(* record of the TCB slot, stack slot and id it was given.                 *)
(***************************************************************************)
EXTENDS Integers, FiniteSets

CONSTANTS
  Creators,       \* tasks that call task_create / task_delete (model values)
  MAX_TASKS,      \* CONFIG_MAX_TASKS, the size of both pools
  Deletes         \* TRUE: creators also delete the tasks they can name

ASSUME MAX_TASKS \in Nat \ {0} /\ Deletes \in BOOLEAN

Slots == 0 .. MAX_TASKS - 1
NoSlot == -1

VARIABLES
  task_used,      \* g_task_slot_used
  stack_used,     \* g_stack_slot_used
  next_id,        \* g_next_task_id
  live,           \* the created tasks not deleted: [tcb, stack, id]
  cpc,            \* where each creator is in task_create
  idx,            \* alloc_slot's loop index
  my_tcb,         \* tcb_slot
  my_stack,       \* stack_slot
  id_read         \* the value the load of g_next_task_id read

poolvars == <<task_used, stack_used, next_id, live, cpc, idx, my_tcb, my_stack, id_read>>

\* The static pools at reset: no slot used, ids start at 1.
PoolInit ==
  /\ task_used = [i \in Slots |-> 0]
  /\ stack_used = [i \in Slots |-> 0]
  /\ next_id = 1
  /\ live = {}
  /\ cpc = [c \in Creators |-> "idle"]
  /\ idx = [c \in Creators |-> 0]
  /\ my_tcb = [c \in Creators |-> NoSlot]
  /\ my_stack = [c \in Creators |-> NoSlot]
  /\ id_read = [c \in Creators |-> 0]

Goto(c, from, to) == cpc[c] = from /\ cpc' = [cpc EXCEPT ![c] = to]

\* task_create: the parameter checks pass; alloc_slot on the TCB pool.
CreateCall(c) ==
  /\ Goto(c, "idle", "tcb_scan")
  /\ idx' = [idx EXCEPT ![c] = 0]
  /\ UNCHANGED <<task_used, stack_used, next_id, live, my_tcb, my_stack, id_read>>

\* alloc_slot's loop test: the load of bitmap[i]. A used slot moves the
\* loop on, a free one leads to the store; past the end the search fails.
Scan(c, from, claim, bitmap, fail) ==
  /\ cpc[c] = from
  /\ \/ idx[c] = MAX_TASKS /\ fail
     \/ /\ idx[c] < MAX_TASKS /\ bitmap[idx[c]] # 0
        /\ idx' = [idx EXCEPT ![c] = @ + 1]
        /\ UNCHANGED <<cpc, task_used, stack_used, next_id, live, my_tcb, my_stack, id_read>>
     \/ /\ idx[c] < MAX_TASKS /\ bitmap[idx[c]] = 0
        /\ cpc' = [cpc EXCEPT ![c] = claim]
        /\ UNCHANGED <<idx, task_used, stack_used, next_id, live, my_tcb, my_stack, id_read>>

\* No free TCB slot: KERNEL_ERR_NO_MEM.
TcbFull(c) ==
  /\ cpc' = [cpc EXCEPT ![c] = "idle"]
  /\ UNCHANGED <<idx, task_used, stack_used, next_id, live, my_tcb, my_stack, id_read>>

\* No free stack slot: free_slot(g_task_slot_used, tcb_slot), then
\* KERNEL_ERR_NO_MEM.
StackFull(c) ==
  /\ cpc' = [cpc EXCEPT ![c] = "idle"]
  /\ task_used' = [task_used EXCEPT ![my_tcb[c]] = 0]
  /\ my_tcb' = [my_tcb EXCEPT ![c] = NoSlot]
  /\ UNCHANGED <<idx, stack_used, next_id, live, my_stack, id_read>>

TcbScan(c) == Scan(c, "tcb_scan", "tcb_claim", task_used, TcbFull(c))

\* alloc_slot's store bitmap[i] = 1 and return i; then alloc_slot on the
\* stack pool.
TcbClaim(c) ==
  /\ Goto(c, "tcb_claim", "stack_scan")
  /\ task_used' = [task_used EXCEPT ![idx[c]] = 1]
  /\ my_tcb' = [my_tcb EXCEPT ![c] = idx[c]]
  /\ idx' = [idx EXCEPT ![c] = 0]
  /\ UNCHANGED <<stack_used, next_id, live, my_stack, id_read>>

StackScan(c) == Scan(c, "stack_scan", "stack_claim", stack_used, StackFull(c))

StackClaim(c) ==
  /\ Goto(c, "stack_claim", "id_load")
  /\ stack_used' = [stack_used EXCEPT ![idx[c]] = 1]
  /\ my_stack' = [my_stack EXCEPT ![c] = idx[c]]
  /\ UNCHANGED <<task_used, idx, next_id, live, my_tcb, id_read>>

\* tcb->id = g_next_task_id++: the load, then the store of the increment.
IdLoad(c) ==
  /\ Goto(c, "id_load", "id_store")
  /\ id_read' = [id_read EXCEPT ![c] = next_id]
  /\ UNCHANGED <<task_used, stack_used, next_id, live, idx, my_tcb, my_stack>>

IdStore(c) ==
  /\ Goto(c, "id_store", "add")
  /\ next_id' = id_read[c] + 1
  /\ UNCHANGED <<task_used, stack_used, live, idx, my_tcb, my_stack, id_read>>

\* The TCB fields, task_init_stack and scheduler_add_task: the task exists.
AddCreated(c) ==
  /\ Goto(c, "add", "idle")
  /\ live' = live \cup {[tcb |-> my_tcb[c], stack |-> my_stack[c], id |-> id_read[c]]}
  /\ my_tcb' = [my_tcb EXCEPT ![c] = NoSlot]
  /\ my_stack' = [my_stack EXCEPT ![c] = NoSlot]
  /\ UNCHANGED <<task_used, stack_used, next_id, idx, id_read>>

\* task_delete of a created task: unlinked and marked deleted in one
\* critical section; neither slot is handed back to its bitmap.
TaskDelete(c, x) ==
  /\ Deletes /\ cpc[c] = "idle" /\ x \in live
  /\ live' = live \ {x}
  /\ UNCHANGED <<task_used, stack_used, next_id, cpc, idx, my_tcb, my_stack, id_read>>

PoolNext ==
  \E c \in Creators :
    \/ CreateCall(c) \/ TcbScan(c) \/ TcbClaim(c) \/ StackScan(c) \/ StackClaim(c)
    \/ IdLoad(c) \/ IdStore(c) \/ AddCreated(c)
    \/ \E x \in live : TaskDelete(c, x)

PoolSpec == PoolInit /\ [][PoolNext]_poolvars

-----------------------------------------------------------------------------
(* Properties                                                              *)

\* The slots a creator has claimed and not yet handed to a task.
Claimed(c) ==
  [tcb |-> IF my_tcb[c] = NoSlot THEN {} ELSE {my_tcb[c]},
   stack |-> IF my_stack[c] = NoSlot THEN {} ELSE {my_stack[c]}]

(* Spec 3 and 4.1: TCBs and stacks are taken from the pools on            *)
(* task_create and returned on task_delete, and ids are handed out         *)
(* monotonically. So a slot is marked used exactly when a task that exists *)
(* or a create in progress holds it, and no two existing tasks share a     *)
(* TCB slot, a stack slot or an id. The missing free_slot in task_delete   *)
(* and the unprotected alloc_slot and g_next_task_id++ are what can break  *)
(* it.                                                                     *)
PoolMatchesTasks ==
  /\ \A i \in Slots :
       /\ task_used[i] = 1 <=> \/ \E x \in live : x.tcb = i
                               \/ \E c \in Creators : i \in Claimed(c).tcb
       /\ stack_used[i] = 1 <=> \/ \E x \in live : x.stack = i
                                \/ \E c \in Creators : i \in Claimed(c).stack
  /\ \A x, y \in live : x # y => x.tcb # y.tcb /\ x.stack # y.stack /\ x.id # y.id
=============================================================================
