------------------------------ MODULE Timer --------------------------------
(***************************************************************************)
(* Software timers (src/kernel/timer.c).                                   *)
(*                                                                         *)
(* g_timer_list is a singly linked list of sw_timer_t threaded through     *)
(* next. timer_start and timer_stop run in a critical section; the tick    *)
(* walk timer_tick_isr runs from SysTick_Handler with interrupts of its    *)
(* priority excluded, so each of the three is one atomic step over the     *)
(* timer state. A callback runs inside the walk: it is modelled by what it *)
(* does to the timers (nothing, timer_stop or timer_start of some timer),  *)
(* and by the record of its firing, which a composing module uses for the  *)
(* callback's other effects.                                               *)
(***************************************************************************)
EXTENDS Naturals, FiniteSets, Sequences, SequencesExt

CONSTANTS
  Timers,       \* sw_timer_t objects (model values)
  NoTimer,      \* NULL
  Periods,      \* period_ticks a timer_start may pass (> 0)
  Callback      \* Timers -> what the timer's callback does to the timers:
                \* [op |-> "none"], [op |-> "stop", timer |-> u] or
                \* [op |-> "start", timer |-> u, period |-> p, periodic |-> b]

ASSUME /\ NoTimer \notin Timers
       /\ Periods \subseteq Nat \ {0}

\* The walk of one tick visits at most this many timers; a walk that has
\* not reached NULL by then is reported as not terminating.
WalkBound == 2 * Cardinality(Timers) + 1

VARIABLES
  timer_list,   \* g_timer_list
  tnext,        \* timer->next
  active,       \* timer->active
  remaining,    \* timer->remaining_ticks
  period,       \* timer->period_ticks
  periodic,     \* timer->periodic
  walk          \* the last tick walk: [visits, fired, done]

timervars == <<timer_list, tnext, active, remaining, period, periodic, walk>>

\* The timer state as one record, passed through the C functions below.
TM == [head |-> timer_list, next |-> tnext, active |-> active,
       remaining |-> remaining, period |-> period, periodic |-> periodic]

StoreTimers(tm) ==
  /\ timer_list' = tm.head
  /\ tnext' = tm.next
  /\ active' = tm.active
  /\ remaining' = tm.remaining
  /\ period' = tm.period
  /\ periodic' = tm.periodic

\* The timers met walking next from x, at most n of them.
RECURSIVE Chain(_, _, _)
Chain(tm, x, n) ==
  IF x = NoTimer \/ n = 0 THEN <<>> ELSE <<x>> \o Chain(tm, tm.next[x], n - 1)

ListSeq(tm) == Chain(tm, tm.head, WalkBound)

-----------------------------------------------------------------------------
(* The list (timer_list_remove, timer_list_add)                            *)

\* Variant of TimerListRemove that unlinks only a timer at the head.
TimerListRemoveHeadOnly(tm, x) ==
  IF tm.head = x
  THEN [tm EXCEPT !.head = tm.next[x], !.next[x] = NoTimer, !.active[x] = FALSE]
  ELSE [tm EXCEPT !.next[x] = NoTimer, !.active[x] = FALSE]

\* timer_list_remove: walk from the head to the timer; unlink it from its
\* predecessor (or the head), clear its next and active. A timer not on
\* the list is left alone, active flag included.
TimerListRemove(tm, x) ==
  LET s == ListSeq(tm) IN
  IF x \notin ToSet(s) THEN tm
  ELSE LET i == CHOOSE j \in 1 .. Len(s) : s[j] = x /\ \A k \in 1 .. j - 1 : s[k] # x
       IN IF i = 1
          THEN [tm EXCEPT !.head = tm.next[x], !.next[x] = NoTimer, !.active[x] = FALSE]
          ELSE [tm EXCEPT !.next[s[i - 1]] = tm.next[x], !.next[x] = NoTimer,
                          !.active[x] = FALSE]

\* timer_list_add: push at the head and mark active.
TimerListAdd(tm, x) ==
  [tm EXCEPT !.next[x] = tm.head, !.head = x, !.active[x] = TRUE]

-----------------------------------------------------------------------------
(* The API (timer_start, timer_stop), each one critical section            *)

\* Variant of TimerStart that pushes an active timer again without
\* removing it first.
TimerStartNoRemove(tm, x, p, b) ==
  TimerListAdd([tm EXCEPT !.period[x] = p, !.remaining[x] = p, !.periodic[x] = b], x)

\* timer_start: if active remove it, set period and remaining, add it.
TimerStart(tm, x, p, b) ==
  LET t1 == IF tm.active[x] THEN TimerListRemove(tm, x) ELSE tm IN
  TimerListAdd([t1 EXCEPT !.period[x] = p, !.remaining[x] = p, !.periodic[x] = b], x)

\* timer_stop: if active remove it.
TimerStop(tm, x) ==
  IF tm.active[x] THEN TimerListRemove(tm, x) ELSE tm

\* The callback of timer x, run from the walk.
RunCallback(tm, x) ==
  CASE Callback[x].op = "stop"  -> TimerStop(tm, Callback[x].timer)
    [] Callback[x].op = "start" -> TimerStart(tm, Callback[x].timer,
                                      Callback[x].period, Callback[x].periodic)
    [] OTHER                    -> tm

-----------------------------------------------------------------------------
(* The tick walk (timer_tick_isr)                                          *)

\* The loop body at iter reaches zero and runs the callback.
Fires(tm, iter) == tm.remaining[iter] <= 1

\* Variant of TickBody that re-arms a periodic timer one tick longer.
TickBodyReloadOff(tm, iter) ==
  LET dec == [tm EXCEPT !.remaining[iter] = IF @ > 0 THEN @ - 1 ELSE 0] IN
  IF dec.remaining[iter] # 0 THEN dec
  ELSE RunCallback(IF dec.periodic[iter]
                   THEN [dec EXCEPT !.remaining[iter] = dec.period[iter] + 1]
                   ELSE TimerListRemove(dec, iter), iter)

\* Variant of TickBody that takes every timer off the list at zero, as if
\* none were periodic.
TickBodyNoReload(tm, iter) ==
  LET dec == [tm EXCEPT !.remaining[iter] = IF @ > 0 THEN @ - 1 ELSE 0] IN
  IF dec.remaining[iter] # 0 THEN dec ELSE RunCallback(TimerListRemove(dec, iter), iter)

\* The loop body at iter: charge it one tick if it has any left; at zero
\* re-arm a periodic timer or take a one-shot off the list, then run the
\* callback.
TickBody(tm, iter) ==
  LET dec == [tm EXCEPT !.remaining[iter] = IF @ > 0 THEN @ - 1 ELSE 0] IN
  IF dec.remaining[iter] # 0 THEN dec
  ELSE RunCallback(IF dec.periodic[iter]
                   THEN [dec EXCEPT !.remaining[iter] = dec.period[iter]]
                   ELSE TimerListRemove(dec, iter), iter)

\* Variant of TickWalk that reads iter->next after the body.
RECURSIVE TickWalkLateNext(_, _, _)
TickWalkLateNext(tm, iter, n) ==
  IF iter = NoTimer \/ n = 0
  THEN [tm |-> tm, visits |-> <<>>, fired |-> <<>>, done |-> iter = NoTimer]
  ELSE LET body == TickBody(tm, iter)
           rest == TickWalkLateNext(body, body.next[iter], n - 1)
       IN [rest EXCEPT !.visits = <<[timer |-> iter, active |-> tm.active[iter]]>> \o @,
                       !.fired = IF Fires(tm, iter) THEN <<iter>> \o @ ELSE @]

\* The walk from iter: the body, then on from the next pointer saved
\* before it. Returns the final timer state, the timers visited (with
\* their active flag at the visit), the timers whose callback ran, in
\* order, and whether the walk reached NULL within n visits.
RECURSIVE TickWalk(_, _, _)
TickWalk(tm, iter, n) ==
  IF iter = NoTimer \/ n = 0
  THEN [tm |-> tm, visits |-> <<>>, fired |-> <<>>, done |-> iter = NoTimer]
  ELSE LET rest == TickWalk(TickBody(tm, iter), tm.next[iter], n - 1)
       IN [rest EXCEPT !.visits = <<[timer |-> iter, active |-> tm.active[iter]]>> \o @,
                       !.fired = IF Fires(tm, iter) THEN <<iter>> \o @ ELSE @]

TimerTickIsr(tm) == TickWalk(tm, tm.head, WalkBound)

-----------------------------------------------------------------------------
(* A standalone specification: callers start and stop timers between       *)
(* ticks; each tick runs the whole walk.                                   *)

NoWalk == [visits |-> <<>>, fired |-> <<>>, done |-> TRUE, listed |-> {}]

\* timer_create on every timer, g_timer_list = NULL.
TimerInit ==
  /\ timer_list = NoTimer
  /\ tnext = [x \in Timers |-> NoTimer]
  /\ active = [x \in Timers |-> FALSE]
  /\ remaining = [x \in Timers |-> 0]
  /\ period = [x \in Timers |-> 0]
  /\ periodic = [x \in Timers |-> FALSE]
  /\ walk = NoWalk

CallStart(x, p, b) == StoreTimers(TimerStart(TM, x, p, b)) /\ UNCHANGED walk

CallStop(x) == StoreTimers(TimerStop(TM, x)) /\ UNCHANGED walk

\* The record of a walk, with the timers listed when it started.
WalkRecord(w, tm) ==
  [visits |-> w.visits, fired |-> w.fired, done |-> w.done, listed |-> ToSet(ListSeq(tm))]

\* A tick: the walk, remembered with the list it started from.
Tick ==
  LET w == TimerTickIsr(TM) IN
  /\ StoreTimers(w.tm)
  /\ walk' = WalkRecord(w, TM)

TimerNext ==
  \/ \E x \in Timers, p \in Periods, b \in BOOLEAN : CallStart(x, p, b)
  \/ \E x \in Timers : CallStop(x)
  \/ Tick

TimerSpec == TimerInit /\ [][TimerNext]_timervars

\* timer_create on a timer that may be armed: it resets the fields and
\* sets next = NULL and active = 0 without unlinking the timer.
TimerCreate(tm, x) ==
  [tm EXCEPT !.period[x] = 0, !.remaining[x] = 0, !.periodic[x] = FALSE,
             !.active[x] = FALSE, !.next[x] = NoTimer]

CallCreate(x) == StoreTimers(TimerCreate(TM, x)) /\ UNCHANGED walk

\* Callers that may also re-create a timer.
TimerRecreateNext == TimerNext \/ \E x \in Timers : CallCreate(x)

TimerRecreateSpec == TimerInit /\ [][TimerRecreateNext]_timervars

-----------------------------------------------------------------------------
(* Properties                                                              *)

MaxPeriod == CHOOSE p \in Periods : \A o \in Periods : o <= p

TimerTypeOK ==
  /\ timer_list \in Timers \cup {NoTimer}
  /\ tnext \in [Timers -> Timers \cup {NoTimer}]
  /\ active \in [Timers -> BOOLEAN]
  /\ remaining \in [Timers -> 0 .. MaxPeriod]
  /\ period \in [Timers -> {0} \cup Periods]
  /\ periodic \in [Timers -> BOOLEAN]
  /\ walk.done \in BOOLEAN /\ walk.listed \subseteq Timers

\* g_timer_list, after any timer_start, timer_stop or tick walk, is a
\* NULL-terminated list without repeats of exactly the timers whose active
\* flag is set, and a timer off the list has next = NULL. timer_start of an
\* armed timer, timer_stop of one, and the walk's one-shot removal and
\* callbacks all have to keep it so.
ListMatchesActive ==
  LET s == ListSeq(TM) IN
  /\ IsInjective(s)
  /\ ToSet(s) = {x \in Timers : active[x]}
  /\ s # <<>> => tnext[Last(s)] = NoTimer
  /\ \A x \in Timers : ~active[x] => tnext[x] = NoTimer

\* The timers a callback that ran in the walk started or stopped.
Touched(w) == {Callback[w.fired[i]].timer : i \in {j \in DOMAIN w.fired :
                                             Callback[w.fired[j]].op # "none"}}

\* timer_tick_isr ends, and charges every timer that was on the list when
\* the tick came exactly one tick, unless a callback of that walk
\* restarted or stopped it: the walk follows next pointers saved before
\* the body, which the one-shot removal and the callbacks rewrite.
WalkComplete ==
  /\ walk.done
  /\ \A x \in walk.listed \ Touched(walk) :
       Cardinality({i \in DOMAIN walk.visits : walk.visits[i].timer = x}) = 1

\* The walk only visits timers that are active, so a timer that
\* timer_stop has taken off the list is neither charged nor fired (spec
\* 4.9: stop unlinks; the tick walks the list of active timers).
VisitsOnlyActive ==
  \A i \in DOMAIN walk.visits : walk.visits[i].active
=============================================================================
