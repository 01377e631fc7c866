SPECIFICATION MonitorSpec
CONSTANTS
  MaxAgent = 2
  SshKeys = {k1}
  NoGuest = NoGuest
  Scenarios <- StoreScopes
  i1 = i1
  o1 = o1
  o2 = o2
  Inbound = {i1}
  Outbound = {o1, o2}
  FwdAgents = {"a1", "a2"}
  Serves = {"a1"}
  Conns = {c1}
  MaxParked = 1
  FwdScopes <- FwdInstances
  RunScopes <- RunInstances
  HostConns = {11, 12}
  GuestConns = {1}
  MaxFrames = 2
  MaxRequests = 1
  MuxScopes <- MuxInstances
  Attempts = {1, 2}
  InputCap = 3
  EventCap = 2
  ExScopes <- ExInstances
CHECK_DEADLOCK FALSE
INVARIANTS
  StoreSafe
  ForwardsSafe
  RunSafe
  MuxSafe
  
