SPECIFICATION Spec
CONSTANTS
  Jobs = {j1}
  VMs = {v1}
  HostBounds <- RecoveryBounds
PROPERTIES RecoveryCompletes
CHECK_DEADLOCK FALSE
