------------------------------ MODULE Event --------------------------------
(***************************************************************************)
(* Event groups (src/kernel/sync/event.c) over the scheduler.              *)
(*                                                                         *)
(* The flag word is the set of its bits that are 1. event_set ORs bits in  *)
(* and wakes every task blocked on the group, in one critical section; it  *)
(* is called by tasks and from interrupt handlers (a timer callback runs   *)
(* in SysTick). event_clear is the plain statement flags &= ~bits: a load, *)
(* then a store, with no critical section. event_wait is a loop: a         *)
(* critical section that returns the matched bits (clearing them first    *)
(* when the caller set EVENT_CLEAR_ON_EXIT), returns 0 for TIMEOUT_NONE,   *)
(* or, after leaving it, scheduler_block_task(BLOCK_EVENT); a KERNEL_OK    *)
(* wake-up goes round the loop again, any other result returns 0.          *)
(***************************************************************************)
EXTENDS Scheduler

CONSTANTS
  EG,             \* the event group (model value), the block_object of waiters
  Bits,           \* the bits the application uses (bit 31 excluded)
  ClearOnExit,    \* EVENT_CLEAR_ON_EXIT, bit 31 of event_wait's bits argument
  EventOps,       \* the application's call sites: records [task, op, bits,
                  \* all, timeout]; op is "set", "clear" or "wait"
  IsrBits         \* the bit sets interrupt handlers pass to event_set

ASSUME /\ ClearOnExit \notin Bits
       /\ \A c \in EventOps : /\ c.task \in Tasks /\ c.op \in {"set", "clear", "wait"}
                            /\ c.bits # {} /\ c.timeout \in 0 .. TIMEOUT_FOREVER
       /\ IsrBits \subseteq SUBSET Bits

TIMEOUT_NONE == 0

NoCall == [op |-> "none", bits |-> {}, all |-> FALSE, clear |-> FALSE, timeout |-> 0]

VARIABLES
  flags,          \* eg->flags
  ev_call,        \* the event call a task is in: op, bits (stripped), wait_all,
                  \* clear_on_exit, timeout
  ev_load,        \* the value event_clear's load read
  ev_out          \* what the task's last event_wait returned

evars == <<flags, ev_call, ev_load, ev_out>>
allvars == <<vars, evars>>

\* event_match
EventMatch(current, bits, all) ==
  IF all THEN bits \subseteq current ELSE current \cap bits # {}

-----------------------------------------------------------------------------
(* event_set, from a task or an interrupt handler                          *)

\* The critical section: OR the bits in, wake all waiters with KERNEL_OK.
SetBits(bits) ==
  /\ flags' = flags \cup bits
  /\ Store(UnblockAll(K, "EVENT", EG, KERNEL_OK))

EventSet(t, c) ==
  /\ Runs(t) /\ pc[t] = "call" /\ c.task = t /\ c.op = "set"
  /\ SetBits(c.bits)
  /\ UNCHANGED <<tvars, ev_call, ev_load, ev_out>>

EventSetIsr(bits) ==
  /\ bits \in IsrBits
  /\ SetBits(bits)
  /\ UNCHANGED <<tvars, ev_call, ev_load, ev_out>>

-----------------------------------------------------------------------------
(* event_clear: eg->flags &= ~bits, a load and a store                     *)

EventClearLoad(t, c) ==
  /\ Runs(t) /\ c.task = t /\ c.op = "clear"
  /\ Goto(t, "call", "ev_clear_store")
  /\ ev_call' = [ev_call EXCEPT ![t] = [NoCall EXCEPT !.op = "clear", !.bits = c.bits]]
  /\ ev_load' = [ev_load EXCEPT ![t] = flags]
  /\ UNCHANGED <<kvars, arg_task, arg_prio, locks, slept, flags, ev_out>>

EventClearStore(t) ==
  /\ Runs(t) /\ Goto(t, "ev_clear_store", "call")
  /\ flags' = ev_load[t] \ ev_call[t].bits
  /\ ev_call' = [ev_call EXCEPT ![t] = NoCall]
  /\ ev_load' = [ev_load EXCEPT ![t] = {}]
  /\ UNCHANGED <<kvars, arg_task, arg_prio, locks, slept, ev_out>>

-----------------------------------------------------------------------------
(* event_wait                                                              *)

\* Return from event_wait with the value out.
WaitReturns(t, out) ==
  /\ pc' = [pc EXCEPT ![t] = "call"]
  /\ ev_call' = [ev_call EXCEPT ![t] = NoCall]
  /\ ev_out' = [ev_out EXCEPT ![t] = out]

\* Variant of EventWaitCall that keeps EVENT_CLEAR_ON_EXIT in the bits.
EventWaitCallNoStrip(t, c) ==
  /\ Runs(t) /\ c.task = t /\ c.op = "wait"
  /\ Goto(t, "call", "ev_check")
  /\ ev_call' = [ev_call EXCEPT ![t] =
                   [op |-> "wait", bits |-> c.bits, all |-> c.all,
                    clear |-> ClearOnExit \in c.bits, timeout |-> c.timeout]]
  /\ UNCHANGED <<kvars, arg_task, arg_prio, locks, slept, flags, ev_load, ev_out>>

\* The entry of event_wait(eg, bits, wait_all, timeout) up to the loop:
\* bits == 0 returns 0 at once (no call site passes 0); bit 31 is taken out
\* as clear_on_exit and stripped; event_wait_bits and event_wait_all,
\* which nothing else reads, are stored in the TCB.
EventWaitCall(t, c) ==
  /\ Runs(t) /\ c.task = t /\ c.op = "wait"
  /\ Goto(t, "call", "ev_check")
  /\ ev_call' = [ev_call EXCEPT ![t] =
                   [op |-> "wait", bits |-> c.bits \ {ClearOnExit}, all |-> c.all,
                    clear |-> ClearOnExit \in c.bits, timeout |-> c.timeout]]
  /\ UNCHANGED <<kvars, arg_task, arg_prio, locks, slept, flags, ev_load, ev_out>>

\* The loop's critical section: on a match clear the matched bits if asked
\* and return them; otherwise return 0 for TIMEOUT_NONE or go to block.
EventWaitCheck(t) ==
  LET w == ev_call[t]  matched == flags \cap w.bits IN
  /\ Runs(t) /\ pc[t] = "ev_check"
  /\ IF EventMatch(flags, w.bits, w.all)
     THEN /\ flags' = IF w.clear THEN flags \ matched ELSE flags
          /\ WaitReturns(t, matched)
     ELSE /\ UNCHANGED flags
          /\ IF w.timeout = TIMEOUT_NONE
             THEN WaitReturns(t, {})
             ELSE /\ pc' = [pc EXCEPT ![t] = "ev_block"]
                  /\ UNCHANGED <<ev_call, ev_out>>
  /\ UNCHANGED <<kvars, arg_task, arg_prio, locks, slept, ev_load>>

\* Variant of EventBlock that waits forever whatever the timeout.
EventBlockForever(t) ==
  /\ Runs(t) /\ Goto(t, "ev_block", "ev_yield")
  /\ Store(BlockTask(K, "EVENT", EG, TIMEOUT_FOREVER))
  /\ UNCHANGED <<arg_task, arg_prio, locks, slept, evars>>

\* scheduler_block_task(BLOCK_EVENT, eg, timeout), its critical section.
EventBlock(t) ==
  /\ Runs(t) /\ Goto(t, "ev_block", "ev_yield")
  /\ Store(BlockTask(K, "EVENT", EG, ev_call[t].timeout))
  /\ UNCHANGED <<arg_task, arg_prio, locks, slept, evars>>

\* The rest of scheduler_block_task; KERNEL_OK goes round the loop, any
\* other result returns 0.
EventBlockReturn(t) ==
  /\ Runs(t) /\ pc[t] = "ev_yield"
  /\ Store(Yield(K))
  /\ IF block_result[t] = KERNEL_OK
     THEN pc' = [pc EXCEPT ![t] = "ev_check"] /\ UNCHANGED <<ev_call, ev_out>>
     ELSE WaitReturns(t, {})
  /\ UNCHANGED <<arg_task, arg_prio, locks, slept, flags, ev_load>>

-----------------------------------------------------------------------------

\* event_init before the scheduler starts.
EventInit ==
  /\ Init
  /\ flags = {}
  /\ ev_call = [t \in AllTasks |-> NoCall]
  /\ ev_load = [t \in AllTasks |-> {}]
  /\ ev_out = [t \in AllTasks |-> {}]

EventTaskStep(t) ==
  \/ \E c \in EventOps : EventSet(t, c) \/ EventClearLoad(t, c) \/ EventWaitCall(t, c)
  \/ EventClearStore(t) \/ EventWaitCheck(t) \/ EventBlock(t) \/ EventBlockReturn(t)

EventNext ==
  \/ \E t \in Tasks : TaskStep(t) /\ UNCHANGED evars
  \/ SysTick /\ UNCHANGED evars
  \/ PendSV /\ UNCHANGED evars
  \/ \E t \in Tasks : EventTaskStep(t)
  \/ \E b \in IsrBits : EventSetIsr(b)

EventSpec == EventInit /\ [][EventNext]_allvars /\ Fairness

-----------------------------------------------------------------------------
(* Properties                                                              *)

EventTypeOK ==
  /\ TypeOK
  /\ flags \subseteq Bits
  /\ \A t \in AllTasks : ev_call[t].bits \subseteq Bits
  /\ ev_load \in [AllTasks -> SUBSET Bits]
  /\ ev_out \in [AllTasks -> SUBSET Bits]

WaitsOnGroup(t) == state[t] = "BLOCKED" /\ block_reason[t] = "EVENT"

(* A task blocked in event_wait is eventually made ready again, by an      *)
(* event_set or by scheduler_tick at its timeout, given the SysTick        *)
(* interrupt keeps firing: the timeout event_wait passes on re-blocking    *)
(* after every wake-up is what bounds the wait.                            *)
EventWaiterWakes ==
  \A t \in Tasks : WaitsOnGroup(t) ~> ~WaitsOnGroup(t)

(* Spec 4.8: event_set wakes the waiters, which re-evaluate their          *)
(* condition, so no task sleeps in event_wait while the flags already      *)
(* satisfy it. The check at event.c:96 and the block at event.c:109 are    *)
(* two critical sections; an event_set between them wakes no one.          *)
NoSleepOnMatch ==
  \A t \in Tasks : WaitsOnGroup(t) => ~EventMatch(flags, ev_call[t].bits, ev_call[t].all)

(* The flag word changes only as the calls say: a bit becomes 1 only in an *)
(* event_set of it, and becomes 0 only in an event_clear of it or in the   *)
(* auto-clear of an event_wait that matched it. event_clear's load and     *)
(* store (event.c:56) are not a critical section, so a set or an auto-     *)
(* clear between them is undone by the store.                              *)
BitsChangeOnlyByCalls ==
  [][/\ \A b \in flags' \ flags :
          \/ \E t \in Tasks, c \in EventOps : EventSet(t, c) /\ b \in c.bits
          \/ \E bs \in IsrBits : EventSetIsr(bs) /\ b \in bs
     /\ \A b \in flags \ flags' :
          \E t \in Tasks : /\ b \in ev_call[t].bits
                          /\ \/ EventClearStore(t)
                             \/ EventWaitCheck(t) /\ ev_call[t].clear]_allvars

=============================================================================
