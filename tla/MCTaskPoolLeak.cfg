\* Two creators over pools of two slots, creating and deleting tasks.
CONSTANTS
  C1 = C1
  C2 = C2
  Creators <- MCCreators
  MAX_TASKS = 2
  Deletes = TRUE
SPECIFICATION PoolSpec
INVARIANT PoolMatchesTasks
