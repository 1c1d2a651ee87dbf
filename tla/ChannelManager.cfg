CONSTANTS
  Jobs = {1, 2, 3}
  Key <- MCKey
  Tree = {"root", "seq"}
  Root = "root"
  Parent <- MCParent
  Up <- MCUp
  Capacity <- MCCapacity
  Sequential = {"seq"}
  Throttle <- MCThrottle
  ChannelOf <- MCChannelOf
  MaxTime = 4
  Etas = {2}
SPECIFICATION Spec
INVARIANTS TypeOK OnePlace
PROPERTIES NoMissedWakeup WakeupIsAhead Throttled
