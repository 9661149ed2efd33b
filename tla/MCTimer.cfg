\* The timer list under timer_start and timer_stop of three timers and
\* tick walks whose callbacks re-arm or stop their own timer.
CONSTANTS
  T1 = T1
  T2 = T2
  T3 = T3
  NoTimer = NoTimer
  Timers <- MCTimers
  Periods = {1, 2}
  Callback <- MCOwnCallbacks
SPECIFICATION TimerSpec
INVARIANT TimerTypeOK
INVARIANT ListMatchesActive
INVARIANT WalkComplete
