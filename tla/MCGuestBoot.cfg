SPECIFICATION GuestBootSpec
CONSTANTS
  BootScopes <- LongFailure
INVARIANTS ReadyAgentIsSeen
CHECK_DEADLOCK FALSE
