SPECIFICATION Spec
CONSTANTS
  Jobs = {j1}
  VMs = {v1}
  HostBounds <- ShutdownBounds
INVARIANTS CompleteMeansStopped EveryJobInterrupted
PROPERTIES GateOpensSettled ReleasedForItsEpisode
CHECK_DEADLOCK FALSE
