\* Suspend, resume, set_priority of another task and scheduler_lock, with
\* yields, ticks and PendSV switches.
CONSTANTS
  H = H
  A = A
  B = B
  Idle = Idle
  NIL = NIL
  Tasks <- MCTasks
  CreateOrder <- MCCreateOrder
  InitPriority <- MCInitPriority
  PriorityCallers <- MCPriorityCallers
  NumPrio = 3
  TimeSlice = 2
  RoundRobin = TRUE
  TickBits = 2
  Calls = {"yield", "suspend", "resume", "set_priority", "lock", "delete", "exit"}
  Delays = {1, 2}
  NewPriorities = {0, 1}
  SelfPriority = FALSE
  SuspendOthers = FALSE
  MaxLock = 1
SPECIFICATION Spec
INVARIANT ListsConsistent
INVARIANT RunningIsHighestHead
