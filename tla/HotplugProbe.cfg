SPECIFICATION Spec
CONSTANTS
  Connectors = {fixed, mst}
  Hotpluggable = {mst}
  Quirky = {mst}
  MaxChanges = 2
  MaxFailures = 1
INVARIANTS TargetsAlive HotplugsSeen
PROPERTIES NeverOlder AnimationUndisturbed
CHECK_DEADLOCK FALSE
