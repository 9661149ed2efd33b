------------------------------ MODULE MCQueue -------------------------------
(* Model-checking instances of Queue: a queue Q1 of two slots that a       *)
(* sender S and an interrupt handler feed and a receiver R drains or peeks *)
(* at, and a mailbox Q2 (capacity 1) that S sends to and R receives from   *)
(* and resets.                                                             *)
EXTENDS Queue, TLC

CONSTANTS R, S, Q1, Q2, M1, M2

MCTasks == {R, S}
MCCreateOrder == <<S, R>>
MCInitPriority == (R :> 0) @@ (S :> 1)
MCNoTasks == {}
MCQueues == {Q1, Q2}
MCCapacity == (Q1 :> 2) @@ (Q2 :> 1)
MCMsgs == {M1, M2}
MCMsgSymmetry == Permutations(MCMsgs)
\* Blocking sends and receives wait forever (TIMEOUT_FOREVER is 1 with a
\* one-bit tick); send_front and peek are made with TIMEOUT_NONE.
MCQueueOps ==
  {<<S, "send", Q1, 1>>, <<S, "send_front", Q1, 0>>, <<R, "receive", Q1, 1>>,
   <<R, "peek", Q1, 0>>, <<S, "send", Q2, 1>>, <<R, "reset", Q2, 0>>}
MCIsrQueues == {Q1}
\* R resets the two-slot queue the interrupt handler feeds.
MCResetFedOps ==
  {<<S, "send", Q1, 1>>, <<R, "receive", Q1, 1>>, <<R, "reset", Q1, 0>>}
MCNoQueues == {}

\* The state up to what queue.c and the scheduler never read before they
\* write it again: the slots outside the count messages from tail (queue_pop
\* and queue_peek read only the slot at tail with count > 0), wake_tick of a
\* task that is not blocked (scheduler_block_task writes it) and
\* block_result outside the return of scheduler_block_task.
Live(q, i) == (i - queue[q].tail) % Capacity[q] < queue[q].count
MCLiveView ==
  <<next, prev, priority, state, block_reason, block_object, block_timeout,
    [t \in AllTasks |-> IF state[t] = "BLOCKED" THEN wake_tick[t] ELSE 0],
    [t \in AllTasks |-> IF pc[t] = "q_yield" THEN block_result[t] ELSE 0],
    time_slice, ready_list, priority_bitmap, lock_count, reschedule_pending,
    current_task, blocked_head, tick_count, pendsv, tvars,
    q_arg, q_op, q_msg, q_timeout, q_out,
    [q \in Queues |-> [queue[q] EXCEPT !.buffer =
       [i \in Slots(q) |-> IF Live(q, i) THEN @[i] ELSE NIL]]]>>
=============================================================================
