CONSTANTS
  Jobs = {1, 2, 3}
  Key <- LiveKey
  Tree = {"root", "sub"}
  Root = "root"
  Parent <- MCParent
  Up <- MCUp
  Capacity <- LiveCapacity
  Sequential = {"sub"}
  Throttle <- MCThrottle
  ChannelOf <- LiveChannelOf
  DependsOn <- LiveDependsOn
  MaxRetries <- LiveMaxRetries
  Workers = {w1, w2}
  NoJob = none
  Users = {"cancel"}
  Deaths = FALSE
  MaxInFlight = 2
  MaxDisturbances = 1
SPECIFICATION LiveSpec
INVARIANT DependenciesResolved
PROPERTY EventuallySettled
