CONSTANTS
  Jobs = {1, 2, 3, 4}
  Key <- MCKey
  IsSequential = TRUE
  Times = {1, 2}
SPECIFICATION QueueSpec
INVARIANT QueueTypeOK
PROPERTY ImplementsPendingJobs
