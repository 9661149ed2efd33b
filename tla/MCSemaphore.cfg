\* Two takers of different priority on a binary semaphore given from an
\* ISR and by the lower one, with timeouts, a reset, ticks and PendSV.
CONSTANTS
  H = H
  A = A
  B = B
  S = S
  Idle = Idle
  NIL = NIL
  Tasks <- MCPairTasks
  CreateOrder <- MCPairOrder
  InitPriority <- MCPairRanked
  PriorityCallers <- MCNoTasks
  NumPrio = 3
  TimeSlice = 1
  RoundRobin = FALSE
  TickBits = 2
  Calls = {"yield"}
  Delays = {1}
  NewPriorities = {}
  SelfPriority = FALSE
  SuspendOthers = FALSE
  MaxLock = 0
  Sems <- MCSems
  SemInit <- MCSemInit
  SemMax <- MCSemMax
  Takers <- MCTakers
  Givers <- MCLowTask
  Resetters <- MCLowTask
  TakeTimeouts = {0, 2}
  ResetCounts = {0}
  IsrGive = TRUE
  MaxGives = 2
SPECIFICATION SemSpec
INVARIANT SemTypeOK
INVARIANT ListsConsistent
INVARIANT RunningIsHighestHead
INVARIANT NoOvertake
PROPERTY WakesHighestWaiter
