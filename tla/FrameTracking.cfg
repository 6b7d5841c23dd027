SPECIFICATION Spec
CONSTANTS
  Displays = {d1}
  NoDisplay = none
  MaxCommits = 4
  FenceTimeout = TRUE
  Callers = {"SetConfig", "SetActiveConfigs", "SetPowerMode", "Deinit", "PresentFrame", "PresentModeset", "Destroy"}
INVARIANTS ScanoutHeld CommitNeverOvertakes HelperFenceCurrent
PROPERTIES RetiredReleased JoinReturns LeaseImplemented
CHECK_DEADLOCK FALSE
