CONSTANTS
  Jobs = {1, 2}
  Key <- MCKey
  Tree = {"root", "sub"}
  Root = "root"
  Parent <- MCParent
  Up <- MCUp
  Capacity <- MCCapacity
  Sequential = {"sub"}
  Throttle <- MCThrottle
  ChannelOf <- SeqChannelOf
  DependsOn <- MCDependsOn
  MaxRetries <- MCMaxRetries
  Workers = {w1, w2}
  NoJob = none
  Users = {"requeue"}
  Deaths = FALSE
  MaxInFlight = 2
  MaxDisturbances = 2
SPECIFICATION LiveSpec
PROPERTY PendingIsServed
