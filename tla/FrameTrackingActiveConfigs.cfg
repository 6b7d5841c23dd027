SPECIFICATION Spec
CONSTANTS
  Displays = {d1}
  NoDisplay = none
  MaxCommits = 3
  FenceTimeout = FALSE
  Callers = {"SetActiveConfigs", "PresentFrame"}
INVARIANTS ScanoutAlwaysHeld
CHECK_DEADLOCK FALSE
