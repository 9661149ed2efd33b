---------------------------- MODULE MCTimerEvent ----------------------------
(* Model-checking instance of TimerEvent: the waiter W and setter S of     *)
(* MCEvent, a periodic timer T1 that main starts before kernel_start and   *)
(* whose callback sets B2, and a one-shot timer T2, setting B1, that S     *)
(* starts and stops.                                                       *)
EXTENDS TimerEvent

CONSTANTS W, S, B1, B2, T1, T2

MCTasks == {W, S}
MCCreateOrder == <<S, W>>
MCInitPriority == (W :> 0) @@ (S :> 1)
MCBits == {B1, B2}
MCTimers == {T1, T2}

Op(t, op, bits, all, to) == [task |-> t, op |-> op, bits |-> bits, all |-> all, timeout |-> to]

\* W waits forever for B2 with auto-clear, for both bits for 2 ticks, and
\* polls B1, and clears B1; S sets B1. Only W calls event_clear: when
\* another task's unprotected read-modify-write erases the B2 a callback
\* sets while W is between its check and its block, and does so every
\* period, W starves.
MCEventOps ==
  {Op(W, "wait", {B2, ClearOnExit}, FALSE, TIMEOUT_FOREVER),
   Op(W, "wait", {B1, B2}, TRUE, 2), Op(W, "wait", {B1}, FALSE, 0),
   Op(W, "clear", {B1}, FALSE, 0),
   Op(S, "set", {B1}, FALSE, 0)}

\* An interrupt handler sets B1.
MCTimerIsrBits == {{B1}}

MCCallback == (T1 :> [op |-> "set", bits |-> {B2}]) @@ (T2 :> [op |-> "set", bits |-> {B1}])
MCBootStarts == <<[timer |-> T1, period |-> 2, periodic |-> TRUE]>>
MCTimerOps ==
  {[task |-> S, op |-> "start", timer |-> T2, period |-> 1, periodic |-> FALSE],
   [task |-> S, op |-> "stop", timer |-> T2, period |-> 1, periodic |-> FALSE]}
=============================================================================
