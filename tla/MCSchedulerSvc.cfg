\* System calls through svc: yield, delay, suspend of the caller, resume and
\* set_priority of another task by H, with ticks and PendSV.
CONSTANTS
  H = H
  A = A
  B = B
  Idle = Idle
  NIL = NIL
  Tasks <- MCTasks
  CreateOrder <- MCCreateOrder
  InitPriority <- MCInitPriority
  PriorityCallers <- MCPriorityCallers
  NumPrio = 3
  TimeSlice = 1
  RoundRobin = TRUE
  TickBits = 2
  Calls = {"svc_yield", "svc_delay", "svc_suspend", "svc_resume", "svc_priority"}
  Delays = {1}
  NewPriorities = {0, 1}
  SelfPriority = FALSE
  SuspendOthers = FALSE
  MaxLock = 1
SPECIFICATION Spec
INVARIANT ListsConsistent
INVARIANT RunningIsHighestHead
