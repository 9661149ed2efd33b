------------------------------ MODULE Queue --------------------------------
(***************************************************************************)
(* Message queues (src/kernel/sync/queue.c) over the scheduler.            *)
(*                                                                         *)
(* A queue is a ring of Capacity[q] slots with head, tail and count.       *)
(* queue_send, queue_send_front, queue_receive and queue_peek are loops: a *)
(* critical section that does the operation if it can, and otherwise,      *)
(* after leaving it, scheduler_block_task; a KERNEL_OK wake-up goes round  *)
(* the loop again. Senders block with BLOCK_QUEUE_SEND, receivers and      *)
(* peekers with BLOCK_QUEUE_RECV. queue_send_isr runs from an interrupt.   *)
(* queue_reset stores head, tail and count outside any critical section,   *)
(* then wakes all senders and all receivers with KERNEL_ERR_STATE.         *)
(* A message is a model value: mem_copy of msg_size bytes is a copy of it. *)
(***************************************************************************)
EXTENDS Scheduler

CONSTANTS
  Queues,         \* queues (model values)
  Capacity,       \* Queues -> capacity (queue_init, capacity > 0)
  Msgs,           \* messages (model values)
  QueueOps,       \* the application's call sites: <<task, op, queue, timeout>>
                  \* (timeout 0 = TIMEOUT_NONE; unused for reset)
  IsrQueues       \* the queues an interrupt handler feeds with queue_send_isr

OpNames == {"send", "send_front", "receive", "peek", "reset"}

ASSUME /\ \A q \in Queues : Capacity[q] \in Nat \ {0}
       /\ QueueOps \subseteq Tasks \X OpNames \X Queues \X (0 .. TIMEOUT_FOREVER)
       /\ IsrQueues \subseteq Queues

TIMEOUT_NONE == 0

VARIABLES
  queue,          \* msg_queue_t: [buffer, head, tail, count] per queue
  q_arg,          \* the queue of a task's call in progress
  q_op,           \* which call it is
  q_msg,          \* the message a send copies in
  q_timeout,      \* the timeout of the call
  q_out           \* the caller's message buffer that receive and peek fill

qvars == <<queue, q_arg, q_op, q_msg, q_timeout, q_out>>
allvars == <<vars, qvars>>

Slots(q) == 0 .. Capacity[q] - 1

\* The block reason of a call that waits.
WaitReason(op) == IF op \in {"send", "send_front"} THEN "QUEUE_SEND" ELSE "QUEUE_RECV"

-----------------------------------------------------------------------------
(* The ring (queue_push_back, queue_push_front, queue_pop)                 *)

PushBack(r, cap, m) ==
  [r EXCEPT !.buffer[r.head] = m, !.head = (r.head + 1) % cap, !.count = @ + 1]

\* Variant of PushFront that copies into the slot before moving tail.
PushFrontCopyFirst(r, cap, m) ==
  [r EXCEPT !.buffer[r.tail] = m,
            !.tail = IF r.tail = 0 THEN cap - 1 ELSE r.tail - 1, !.count = @ + 1]

\* Variant of PushFront that wraps tail to capacity instead of capacity - 1.
PushFrontWrapOff(r, cap, m) ==
  LET t == IF r.tail = 0 THEN cap ELSE r.tail - 1 IN
  [r EXCEPT !.tail = t, !.buffer = [@ EXCEPT ![t] = m], !.count = @ + 1]

PushFront(r, cap, m) ==
  LET t == IF r.tail = 0 THEN cap - 1 ELSE r.tail - 1 IN
  [r EXCEPT !.tail = t, !.buffer[t] = m, !.count = @ + 1]

\* Variant of Pop that forgets to advance tail.
PopKeepTail(r, cap) ==
  [r EXCEPT !.count = @ - 1]

Pop(r, cap) ==
  [r EXCEPT !.tail = (r.tail + 1) % cap, !.count = @ - 1]

-----------------------------------------------------------------------------
(* Task steps                                                              *)

\* Return from a queue call: its locals are gone.
CallReturns(t) ==
  /\ pc' = [pc EXCEPT ![t] = "call"]
  /\ q_arg' = [q_arg EXCEPT ![t] = NIL]
  /\ q_op' = [q_op EXCEPT ![t] = "none"]
  /\ q_msg' = [q_msg EXCEPT ![t] = NIL]
  /\ q_timeout' = [q_timeout EXCEPT ![t] = 0]

\* queue_send, queue_send_front, queue_receive or queue_peek(queue, msg,
\* timeout): the call, up to the first critical_enter of its loop.
QueueCall(t, op, q, m, to) ==
  /\ Runs(t) /\ <<t, op, q, to>> \in QueueOps /\ op # "reset"
  /\ Goto(t, "call", "q_check")
  /\ q_arg' = [q_arg EXCEPT ![t] = q]
  /\ q_op' = [q_op EXCEPT ![t] = op]
  /\ q_msg' = [q_msg EXCEPT ![t] = IF op \in {"send", "send_front"} THEN m ELSE NIL]
  /\ q_timeout' = [q_timeout EXCEPT ![t] = to]
  /\ UNCHANGED <<kvars, arg_task, arg_prio, locks, slept, queue, q_out>>

\* The loop's critical section could not do the operation: return
\* KERNEL_ERR_TIMEOUT for TIMEOUT_NONE, or go on to block.
CannotNow(t) ==
  /\ IF q_timeout[t] = TIMEOUT_NONE
     THEN CallReturns(t)
     ELSE /\ pc' = [pc EXCEPT ![t] = "q_block"]
          /\ UNCHANGED <<q_arg, q_op, q_msg, q_timeout>>
  /\ UNCHANGED <<kvars, queue, q_out>>

\* The loop's critical section of queue_send and queue_send_front: while
\* count < capacity copy the message in (at head for queue_send, below tail
\* for queue_send_front) and wake one receiver.
SendCheck(t, op) ==
  LET q == q_arg[t]  r == queue[q]
      pushed == IF op = "send" THEN PushBack(r, Capacity[q], q_msg[t])
                ELSE PushFront(r, Capacity[q], q_msg[t])
  IN
  /\ Runs(t) /\ pc[t] = "q_check" /\ q_op[t] = op
  /\ IF r.count < Capacity[q]
     THEN /\ queue' = [queue EXCEPT ![q] = pushed]
          /\ Store(UnblockOne(K, "QUEUE_RECV", q, KERNEL_OK))
          /\ CallReturns(t)
          /\ UNCHANGED q_out
     ELSE CannotNow(t)
  /\ UNCHANGED <<arg_task, arg_prio, locks, slept>>

\* queue_send's loop: the message goes in at head, the back of the FIFO.
QueueSend(t) == SendCheck(t, "send")

\* queue_send_front's loop: the message goes in below tail, the front.
QueueSendFront(t) == SendCheck(t, "send_front")

\* The loop's critical section of queue_receive and queue_peek: with a
\* message present copy the one at tail out; receive also pops it and
\* wakes one sender.
RecvCheck(t, op) ==
  LET q == q_arg[t]  r == queue[q] IN
  /\ Runs(t) /\ pc[t] = "q_check" /\ q_op[t] = op
  /\ IF r.count > 0
     THEN /\ q_out' = [q_out EXCEPT ![t] = r.buffer[r.tail]]
          /\ IF op = "receive"
             THEN /\ queue' = [queue EXCEPT ![q] = Pop(r, Capacity[q])]
                  /\ Store(UnblockOne(K, "QUEUE_SEND", q, KERNEL_OK))
             ELSE UNCHANGED <<kvars, queue>>
          /\ CallReturns(t)
     ELSE CannotNow(t)
  /\ UNCHANGED <<arg_task, arg_prio, locks, slept>>

\* queue_receive's loop: copy the message at tail out and pop it.
QueueReceive(t) == RecvCheck(t, "receive")

\* queue_peek's loop: copy the message at tail out and leave it.
QueuePeek(t) == RecvCheck(t, "peek")

\* scheduler_block_task(reason, queue, timeout), its critical section.
QueueBlock(t) ==
  /\ Runs(t) /\ Goto(t, "q_block", "q_yield")
  /\ Store(BlockTask(K, WaitReason(q_op[t]), q_arg[t], q_timeout[t]))
  /\ UNCHANGED <<arg_task, arg_prio, locks, slept, qvars>>

\* The rest of scheduler_block_task; KERNEL_OK loops back to the check,
\* any other result is returned.
QueueBlockReturn(t) ==
  /\ Runs(t) /\ pc[t] = "q_yield"
  /\ Store(Yield(K))
  /\ IF block_result[t] = KERNEL_OK
     THEN /\ pc' = [pc EXCEPT ![t] = "q_check"]
          /\ UNCHANGED <<q_arg, q_op, q_msg, q_timeout>>
     ELSE CallReturns(t)
  /\ UNCHANGED <<arg_task, arg_prio, locks, slept, queue, q_out>>

\* queue_send_isr from an interrupt handler, one critical section:
\* KERNEL_ERR_OVERFLOW when full, else push at head and wake a receiver.
QueueSendIsr(q, m) ==
  LET r == queue[q] IN
  /\ q \in IsrQueues
  /\ IF r.count >= Capacity[q]
     THEN UNCHANGED <<kvars, queue>>
     ELSE /\ queue' = [queue EXCEPT ![q] = PushBack(r, Capacity[q], m)]
          /\ Store(UnblockOne(K, "QUEUE_RECV", q, KERNEL_OK))
  /\ UNCHANGED <<tvars, q_arg, q_op, q_msg, q_timeout, q_out>>

\* queue_reset(queue): the store of head, the first of three plain stores.
QueueReset(t, q) ==
  /\ Runs(t) /\ <<t, "reset", q, 0>> \in QueueOps
  /\ Goto(t, "call", "q_reset_tail")
  /\ queue' = [queue EXCEPT ![q].head = 0]
  /\ q_arg' = [q_arg EXCEPT ![t] = q]
  /\ q_op' = [q_op EXCEPT ![t] = "reset"]
  /\ UNCHANGED <<kvars, arg_task, arg_prio, locks, slept, q_msg, q_timeout, q_out>>

\* queue_reset: the store of tail, then the store of count.
ResetTail(t) ==
  /\ Runs(t) /\ Goto(t, "q_reset_tail", "q_reset_count")
  /\ queue' = [queue EXCEPT ![q_arg[t]].tail = 0]
  /\ UNCHANGED <<kvars, arg_task, arg_prio, locks, slept, q_arg, q_op, q_msg, q_timeout, q_out>>

ResetCount(t) ==
  /\ Runs(t) /\ Goto(t, "q_reset_count", "q_reset_send")
  /\ queue' = [queue EXCEPT ![q_arg[t]].count = 0]
  /\ UNCHANGED <<kvars, arg_task, arg_prio, locks, slept, q_arg, q_op, q_msg, q_timeout, q_out>>

\* queue_reset: scheduler_unblock_all of the senders, then of the
\* receivers, each its own critical section, with KERNEL_ERR_STATE.
ResetWakeSenders(t) ==
  /\ Runs(t) /\ Goto(t, "q_reset_send", "q_reset_recv")
  /\ Store(UnblockAll(K, "QUEUE_SEND", q_arg[t], KERNEL_ERR_STATE))
  /\ UNCHANGED <<arg_task, arg_prio, locks, slept, qvars>>

ResetWakeReceivers(t) ==
  /\ Runs(t) /\ pc[t] = "q_reset_recv"
  /\ Store(UnblockAll(K, "QUEUE_RECV", q_arg[t], KERNEL_ERR_STATE))
  /\ CallReturns(t)
  /\ UNCHANGED <<arg_task, arg_prio, locks, slept, queue, q_out>>

-----------------------------------------------------------------------------

\* queue_init on every queue before the scheduler starts.
QueueInit ==
  /\ Init
  /\ queue = [q \in Queues |->
               [buffer |-> [i \in Slots(q) |-> NIL], head |-> 0, tail |-> 0, count |-> 0]]
  /\ q_arg = [t \in AllTasks |-> NIL]
  /\ q_op = [t \in AllTasks |-> "none"]
  /\ q_msg = [t \in AllTasks |-> NIL]
  /\ q_timeout = [t \in AllTasks |-> 0]
  /\ q_out = [t \in AllTasks |-> NIL]

QueueTaskStep(t) ==
  \/ \E c \in QueueOps, m \in Msgs : QueueCall(t, c[2], c[3], m, c[4])
  \/ QueueSend(t) \/ QueueSendFront(t) \/ QueueReceive(t) \/ QueuePeek(t)
  \/ QueueBlock(t) \/ QueueBlockReturn(t)
  \/ \E q \in Queues : QueueReset(t, q)
  \/ ResetTail(t) \/ ResetCount(t) \/ ResetWakeSenders(t) \/ ResetWakeReceivers(t)

QueueNext ==
  \/ \E t \in Tasks : TaskStep(t) /\ UNCHANGED qvars
  \/ SysTick /\ UNCHANGED qvars
  \/ PendSV /\ UNCHANGED qvars
  \/ \E t \in Tasks : QueueTaskStep(t)
  \/ \E q \in Queues, m \in Msgs : QueueSendIsr(q, m)

QueueSpec == QueueInit /\ [][QueueNext]_allvars /\ Fairness

-----------------------------------------------------------------------------
(* Properties                                                              *)

QueueTypeOK ==
  /\ TypeOK
  /\ \A q \in Queues :
       /\ queue[q].buffer \in [Slots(q) -> Msgs \cup {NIL}]
       /\ queue[q].count \in 0 .. Capacity[q]
       /\ queue[q].head \in Slots(q) /\ queue[q].tail \in Slots(q)
  /\ q_arg \in [AllTasks -> Queues \cup {NIL}]
  /\ q_out \in [AllTasks -> Msgs \cup {NIL}]

\* A task between the first and the last of queue_reset's three stores.
Resetting(q) ==
  \E t \in Tasks : q_arg[t] = q /\ pc[t] \in {"q_reset_tail", "q_reset_count"}

(* Spec P5: outside a queue_reset in progress, count never exceeds the     *)
(* capacity and head is tail advanced by count, modulo the capacity, after *)
(* any mix of back and front sends, receives, ISR sends and resets; the    *)
(* wrap of tail below 0 in queue_push_front is where it could break.       *)
RingConsistent ==
  \A q \in Queues : ~Resetting(q) =>
    /\ queue[q].count <= Capacity[q]
    /\ queue[q].head = (queue[q].tail + queue[q].count) % Capacity[q]

\* The messages a queue holds, front first: count slots from tail. A reset
\* takes effect at its first store.
Contents(q) ==
  IF Resetting(q) THEN <<>>
  ELSE [i \in 1 .. queue[q].count |->
          queue[q].buffer[(queue[q].tail + i - 1) % Capacity[q]]]

Fifo == INSTANCE QueueFifo WITH msgs <- [q \in Queues |-> Contents(q)],
                                out <- q_out, Callers <- AllTasks

(* Refinement (spec 4.7, R2): the ring of queue.c, under every interleaving *)
(* of tasks, the send ISR, ticks and PendSV, implements the bounded FIFO of *)
(* QueueFifo: every critical section is one FIFO operation on the messages *)
(* from tail, and a receive or peek copies out exactly the front message.  *)
ImplementsFifo == Fifo!FifoSpec

=============================================================================
