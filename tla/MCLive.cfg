SPECIFICATION LiveSpec
CONSTANTS
  MaxAgent = 2
  SshKeys = {k1}
  NoGuest = NoGuest
  Scenarios <- StoreScopes
  i1 = i1
  o1 = o1
  o2 = o2
  Inbound = {i1}
  Outbound = {o1, o2}
  FwdAgents = {"a1", "a2"}
  Serves = {"a1"}
  Conns = {c1}
  MaxParked = 1
  FwdScopes <- FwdInstances
CHECK_DEADLOCK FALSE
PROPERTIES
  StoreSettles
  ForwardsSettle
