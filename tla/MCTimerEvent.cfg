\* SysTick with the timer walk: a periodic timer's callback sets the bit a
\* task waits for forever; a task starts and stops a one-shot timer.
CONSTANTS
  W = W
  S = S
  B1 = B1
  B2 = B2
  T1 = T1
  T2 = T2
  EG = EG
  ClearOnExit = ClearOnExit
  Idle = Idle
  NIL = NIL
  NoTimer = NoTimer
  Tasks <- MCTasks
  CreateOrder <- MCCreateOrder
  InitPriority <- MCInitPriority
  Bits <- MCBits
  EventOps <- MCEventOps
  IsrBits <- MCTimerIsrBits
  Timers <- MCTimers
  Periods = {1, 2}
  Callback <- MCCallback
  BootStarts <- MCBootStarts
  TimerOps <- MCTimerOps
  PriorityCallers = {}
  NumPrio = 3
  TimeSlice = 1
  RoundRobin = FALSE
  TickBits = 2
  Calls = {"yield"}
  Delays = {}
  NewPriorities = {}
  SelfPriority = FALSE
  SuspendOthers = FALSE
  MaxLock = 1
SPECIFICATION TimerEventSpec
INVARIANT TimerEventTypeOK
INVARIANT ListsConsistent
INVARIANT RunningIsHighestHead
PROPERTY EventWaiterWakes
PROPERTY TimerWaitReturns
