\* A round-robin task changes its own priority (task_set_priority(NULL, p));
\* a tick between the remove and the add of scheduler_set_priority.
CONSTANTS
  H = H
  A = A
  B = B
  Idle = Idle
  NIL = NIL
  Tasks <- MCTasks
  CreateOrder <- MCCreateOrder
  InitPriority <- MCInitPriority
  PriorityCallers <- MCPeerCallers
  NumPrio = 3
  TimeSlice = 2
  RoundRobin = TRUE
  TickBits = 2
  Calls = {"delay", "set_priority"}
  Delays = {2}
  NewPriorities = {1}
  SelfPriority = TRUE
  SuspendOthers = FALSE
  MaxLock = 1
SPECIFICATION Spec
INVARIANT ListsConsistent
