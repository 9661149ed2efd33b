\* Two lockers A and B at two priorities on one recursive mutex; their
\* delays let the lower task run and own the mutex while the higher sleeps.
CONSTANTS
  H = H
  A = A
  B = B
  M1 = M1
  M2 = M2
  Idle = Idle
  NIL = NIL
  Tasks <- MCPair
  CreateOrder <- MCPairOrder
  InitPriority <- MCPairRanked
  PriorityCallers <- MCNoTasks
  NumPrio = 3
  TimeSlice = 1
  RoundRobin = FALSE
  TickBits = 2
  Calls = {"delay"}
  Delays = {1}
  NewPriorities = {}
  SelfPriority = FALSE
  SuspendOthers = FALSE
  MaxLock = 0
  Mutexes <- MCOneMutex
  Recursive <- MCOneMutex
  Lockers <- MCPair
  LockTimeouts = {0, 3}
  RecursiveMax = 3
  MaxDepth = 2
SPECIFICATION MtxSpec
INVARIANT MtxTypeOK
INVARIANT ListsConsistent
 
INVARIANT HoldsMatchOwner
 
INVARIANT PriorityIsBaseOrInherited
PROPERTY DelayedTaskWakes
