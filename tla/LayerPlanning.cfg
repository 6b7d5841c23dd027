SPECIFICATION Spec
CONSTANTS
  internal = internal
  external = external
  Displays = {internal, external}
  None = None
  Planes <- MCPlanes
  Stacks <- MCStacks
  Buffers = {b1, b2}
  Planners = {"range", "mappers"}
  MaxScalers = 2
INVARIANTS ShownInOrder PlanesExclusive RangePresentable CheapestClientRange
SYMMETRY MCSymmetry
