SPECIFICATION FairSpec
CONSTANTS
  None = None
  Client = {c1, c2}
  Pid = {p1}
  ForeignPid = {}
  MaxRuns = 1
  MaxIno = 4
  Ops = {"start", "stop", "kill", "observe"}
  Ephemeral = FALSE
  OrphanWindow = TRUE
PROPERTIES StopSettles StartSettles
