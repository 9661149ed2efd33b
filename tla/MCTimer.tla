------------------------------ MODULE MCTimer ------------------------------
EXTENDS Timer

CONSTANTS T1, T2, T3

MCTimers == {T1, T2, T3}

\* Callbacks that act on their own timer only: T1 re-arms itself as a
\* one-shot, T2 stops itself, T3 does nothing to the timers.
MCOwnCallbacks ==
  [x \in MCTimers |->
     CASE x = T1 -> [op |-> "start", timer |-> T1, period |-> 2, periodic |-> FALSE]
       [] x = T2 -> [op |-> "stop", timer |-> T2]
       [] OTHER  -> [op |-> "none"]]

\* T1's callback stops T2, T2 and T3 do nothing.
MCStopOtherCallbacks ==
  [x \in MCTimers |->
     IF x = T1 THEN [op |-> "stop", timer |-> T2] ELSE [op |-> "none"]]
=============================================================================
