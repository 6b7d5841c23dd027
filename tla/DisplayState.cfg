SPECIFICATION Spec
CONSTANTS
  Configs = {c1, c2}
  Fake = fake
  None = None
  Empty = empty
  Singles = {one}
  Manies = {many, more}
INVARIANTS CachedIsShown ActiveIsCommitted OffStaysOff
PROPERTIES RealFrameFollows IdleFlattened
