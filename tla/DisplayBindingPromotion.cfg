SPECIFICATION Spec
CONSTANTS
  Internal = {i}
  External = {a, b}
  Tiles = {}
  Crtcs = 2
  MaxHandle = 6
INVARIANTS NoDisplayLost
