SPECIFICATION Spec
CONSTANTS
  None = None
  Client = {c1, c2}
  Pid = {p1, p2}
  ForeignPid = {p1}
  MaxRuns = 2
  MaxIno = 5
  Ops = {"start", "wait", "remove", "inspect"}
  Ephemeral = TRUE
  OrphanWindow = FALSE
SYMMETRY Symmetry
CHECK_DEADLOCK FALSE
PROPERTY RunTreeOutlivesVM
