\* A sender and a more urgent receiver on a two-slot queue fed also by an
\* ISR, and on a mailbox the receiver resets; blocking calls wait forever,
\* send_front and peek are made with TIMEOUT_NONE.
CONSTANTS
  R = R
  S = S
  Q1 = Q1
  Q2 = Q2
  M1 = M1
  M2 = M2
  Idle = Idle
  NIL = NIL
  Tasks <- MCTasks
  CreateOrder <- MCCreateOrder
  InitPriority <- MCInitPriority
  PriorityCallers <- MCNoTasks
  NumPrio = 3
  TimeSlice = 1
  RoundRobin = FALSE
  TickBits = 1
  Calls = {"yield"}
  Delays = {}
  NewPriorities = {}
  SelfPriority = FALSE
  SuspendOthers = FALSE
  MaxLock = 0
  Queues <- MCQueues
  Capacity <- MCCapacity
  Msgs <- MCMsgs
  QueueOps <- MCQueueOps
  IsrQueues <- MCIsrQueues
SYMMETRY MCMsgSymmetry
VIEW MCLiveView
SPECIFICATION QueueSpec
INVARIANT QueueTypeOK
INVARIANT ListsConsistent
INVARIANT RunningIsHighestHead
INVARIANT RingConsistent
PROPERTY ImplementsFifo
