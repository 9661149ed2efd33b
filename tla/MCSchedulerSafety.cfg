\* Scheduling core: yield, delay, round-robin time slices, tick wake-ups
\* and PendSV switches of two equal-priority tasks and a higher one.
CONSTANTS
  H = H
  A = A
  B = B
  Idle = Idle
  NIL = NIL
  Tasks <- MCTasks
  CreateOrder <- MCCreateOrder
  InitPriority <- MCInitPriority
  PriorityCallers <- MCPriorityCallers
  NumPrio = 3
  TimeSlice = 2
  RoundRobin = TRUE
  TickBits = 2
  Calls = {"yield", "delay"}
  Delays = {0, 1, 2}
  NewPriorities = {0, 1}
  SelfPriority = FALSE
  SuspendOthers = FALSE
  MaxLock = 1
SPECIFICATION Spec
INVARIANT TypeOK
INVARIANT ListsConsistent
INVARIANT RunningIsHighestHead
