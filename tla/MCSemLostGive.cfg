\* sem_give_isr while a taker is blocked: the give wakes it without a token.
CONSTANTS
  H = H
  A = A
  B = B
  S = S
  Idle = Idle
  NIL = NIL
  Tasks <- MCPairTasks
  CreateOrder <- MCPairOrder
  InitPriority <- MCPairRanked
  PriorityCallers <- MCNoTasks
  NumPrio = 3
  TimeSlice = 1
  RoundRobin = FALSE
  TickBits = 2
  Calls = {}
  Delays = {1}
  NewPriorities = {}
  SelfPriority = FALSE
  SuspendOthers = FALSE
  MaxLock = 0
  Sems <- MCSems
  SemInit <- MCSemInit
  SemMax <- MCSemMax
  Takers <- MCTakers
  Givers <- MCNoTasks
  Resetters <- MCLowTask
  TakeTimeouts = {0, 2}
  ResetCounts = {0}
  IsrGive = TRUE
  MaxGives = 2
SPECIFICATION SemSpec
INVARIANT TokensConserved
