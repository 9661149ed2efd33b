\* Lost wake-up: event_set between event_wait's check and its block.
CONSTANTS
  W = W
  S = S
  B1 = B1
  B2 = B2
  EG = EG
  ClearOnExit = ClearOnExit
  Idle = Idle
  NIL = NIL
  Tasks <- MCTasks
  CreateOrder <- MCCreateOrder
  InitPriority <- MCInitPriority
  Bits <- MCBits
  EventOps <- MCEventOps
  IsrBits <- MCIsrBits
  PriorityCallers = {}
  NumPrio = 3
  TimeSlice = 1
  RoundRobin = FALSE
  TickBits = 2
  Calls = {"yield"}
  Delays = {}
  NewPriorities = {}
  SelfPriority = FALSE
  SuspendOthers = FALSE
  MaxLock = 1
SPECIFICATION EventSpec
INVARIANT NoSleepOnMatch
