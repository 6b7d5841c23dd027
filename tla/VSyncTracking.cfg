SPECIFICATION Spec
CONSTANTS
  Periods = {2}
  DefaultPeriod = 3
  MaxTime = 4
INVARIANTS CallbackStops PhaseReset VsyncServed
PROPERTY VsyncsInOrder
CHECK_DEADLOCK FALSE
