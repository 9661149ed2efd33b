----------------------------- MODULE TimerEvent -----------------------------
(***************************************************************************)
(* SysTick_Handler as the code composes it: scheduler_tick, then           *)
(* timer_tick_isr (CONFIG_SW_TIMERS is 1), whose callbacks run in the      *)
(* handler and here call event_set on the group, then kernel_tick_hook,    *)
(* whose weak default is empty. The whole handler is one step: SysTick     *)
(* runs above PendSV and every task-level critical section is a single     *)
(* step. Tasks use the event group as in Event, and may start and stop    *)
(* timers (each call one critical section).                                *)
(***************************************************************************)
EXTENDS Event

CONSTANTS
  Timers,         \* sw_timer_t objects (model values)
  NoTimer,        \* NULL
  Periods,        \* period_ticks a timer_start may pass
  Callback,       \* Timers -> [op |-> "set", bits |-> B]: event_set(eg, B)
  BootStarts,     \* the timer_start calls main makes before kernel_start:
                  \* a sequence of [timer, period, periodic]
  TimerOps        \* the tasks' timer call sites: [task, op, timer, period,
                  \* periodic], op "start" or "stop"

ASSUME /\ \A x \in Timers : Callback[x].op = "set" /\ Callback[x].bits \subseteq Bits
       /\ \A c \in TimerOps : c.task \in Tasks /\ c.op \in {"start", "stop"}

VARIABLES timer_list, tnext, active, remaining, period, periodic, walk

timervars == <<timer_list, tnext, active, remaining, period, periodic, walk>>
tevars == <<allvars, timervars>>

Tmr == INSTANCE Timer

\* The bits the callbacks that ran in a tick walk passed to event_set.
CallbackBits(w) == UNION {Callback[w.fired[i]].bits : i \in DOMAIN w.fired}

\* Variant of SysTick_Handler whose callbacks OR their bits in without
\* calling scheduler_unblock_all.
SysTickHandlerNoWake ==
  LET w == Tmr!TimerTickIsr(Tmr!TM)
  IN /\ ~Halted
     /\ Store(SchedulerTick(K))
     /\ TickTaskSide
     /\ flags' = flags \cup CallbackBits(w)
     /\ Tmr!StoreTimers(w.tm)
     /\ walk' = Tmr!WalkRecord(w, Tmr!TM)
     /\ UNCHANGED <<ev_call, ev_load, ev_out>>

\* SysTick_Handler. Each callback's event_set ORs its bits in and calls
\* scheduler_unblock_all on the group; a second one in the same walk finds
\* no waiter left.
SysTickHandler ==
  LET w  == Tmr!TimerTickIsr(Tmr!TM)
      k1 == SchedulerTick(K)
  IN /\ ~Halted
     /\ Store(IF w.fired = <<>> THEN k1 ELSE UnblockAll(k1, "EVENT", EG, KERNEL_OK))
     /\ TickTaskSide
     /\ flags' = flags \cup CallbackBits(w)
     /\ Tmr!StoreTimers(w.tm)
     /\ walk' = Tmr!WalkRecord(w, Tmr!TM)
     /\ UNCHANGED <<ev_call, ev_load, ev_out>>

\* timer_start or timer_stop by the running task.
TimerCall(t, c) ==
  /\ Runs(t) /\ pc[t] = "call" /\ c.task = t
  /\ IF c.op = "start" THEN Tmr!CallStart(c.timer, c.period, c.periodic)
                       ELSE Tmr!CallStop(c.timer)
  /\ UNCHANGED allvars

\* timer_create of every timer, then main's timer_start calls, then the
\* event group and the scheduler as in Event.
TimerEventInit ==
  LET created == [head |-> NoTimer, next |-> [x \in Timers |-> NoTimer],
                  active |-> [x \in Timers |-> FALSE], remaining |-> [x \in Timers |-> 0],
                  period |-> [x \in Timers |-> 0], periodic |-> [x \in Timers |-> FALSE]]
      tm == FoldLeft(LAMBDA m, c : Tmr!TimerStart(m, c.timer, c.period, c.periodic),
                     created, BootStarts)
  IN /\ EventInit
     /\ timer_list = tm.head /\ tnext = tm.next /\ active = tm.active
     /\ remaining = tm.remaining /\ period = tm.period /\ periodic = tm.periodic
     /\ walk = Tmr!NoWalk

TimerEventNext ==
  \/ \E t \in Tasks : TaskStep(t) /\ UNCHANGED <<evars, timervars>>
  \/ \E t \in Tasks : EventTaskStep(t) /\ UNCHANGED timervars
  \/ \E t \in Tasks, c \in TimerOps : TimerCall(t, c)
  \/ \E b \in IsrBits : EventSetIsr(b) /\ UNCHANGED timervars
  \/ SysTickHandler
  \/ PendSV /\ UNCHANGED <<evars, timervars>>

\* Between handlers the CPU executes the current task: a task that is
\* current, with no switch pending, takes its next step of an event call.
TaskProgress == \A t \in Tasks : WF_tevars(EventTaskStep(t) /\ UNCHANGED timervars)

TimerEventSpec == TimerEventInit /\ [][TimerEventNext]_tevars /\ Fairness /\ TaskProgress

-----------------------------------------------------------------------------
(* Properties                                                              *)

TimerEventTypeOK ==
  /\ EventTypeOK
  /\ timer_list \in Timers \cup {NoTimer}
  /\ active \in [Timers -> BOOLEAN]

\* A wait with TIMEOUT_FOREVER, which only an event_set can end.
WaitsForever(t) == ev_call[t].op = "wait" /\ ev_call[t].timeout = TIMEOUT_FOREVER

(* A task that waits forever for bits a periodic timer's callback sets     *)
(* returns from event_wait. Nothing else wakes it: the event_set has to    *)
(* come from the callback inside SysTick, wake the waiter, pend the switch *)
(* to it, and leave the bits for its re-check, across event_clear's        *)
(* unprotected read-modify-write and the check-then-block window of        *)
(* event_wait.                                                             *)
TimerWaitReturns ==
  \A t \in Tasks : WaitsForever(t) ~> ~WaitsForever(t)
=============================================================================
