CONSTANTS
  Jobs = {1, 2}
  Key <- MCKey
  Tree = {"root", "sub"}
  Root = "root"
  Parent <- MCParent
  Up <- MCUp
  Capacity <- MCCapacity
  Sequential = {"sub"}
  Throttle <- MCThrottle
  ChannelOf <- MCChannelOf
  DependsOn <- MCDependsOn
  MaxRetries <- MCMaxRetries
  Workers = {w1, w2}
  NoJob = none
  Users = {"requeue", "cancel", "done"}
  Deaths = TRUE
  MaxInFlight = 2
  MaxDisturbances = 2
SYMMETRY Symmetry
SPECIFICATION Spec
INVARIANTS TypeOK BusyWithinCapacity RunnerKnowsBusy OneWorker ParentsFirst
