SPECIFICATION Spec
CONSTANTS
  None = None
  Client = {c1, c2}
  Pid = {p1, p2}
  ForeignPid = {}
  MaxRuns = 2
  MaxIno = 5
  Ops = {"start", "stop", "kill", "observe"}
  Ephemeral = FALSE
  OrphanWindow = FALSE
SYMMETRY Symmetry
CHECK_DEADLOCK FALSE
INVARIANTS AtMostOneVM LiveVMIsTracked ExitRecordIsFinal
PROPERTIES FencedSignals StartsAlone
