SPECIFICATION Spec
CONSTANTS
  rgb = rgb
  yuv = yuv
  Buffers = {rgb, yuv}
  Planes <- MCPlanes
  Slots = {s1, s2}
  Handles = {h1, h2, h3}
  Fbs = {f1, f2, f3, f4}
  Trackers = {t1, t2}
  None = None
  CleanupSize = 1
INVARIANTS FbOfBuffer NothingLeaks
CONSTRAINT BeforeRace
SYMMETRY MCSymmetry
