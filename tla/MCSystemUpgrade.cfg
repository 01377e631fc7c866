SPECIFICATION FairSpec
CONSTANTS
  None = None
  MaxUpgrades = 2
INVARIANTS RecordIsActionable DataIsSafe
PROPERTIES UpdateUndoesItsOwn UnprovenIsUndone
