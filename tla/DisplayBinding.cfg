SPECIFICATION Spec
CONSTANTS
  Internal = {i}
  External = {a, b, c}
  Tiles = {a, b}
  Crtcs = 2
  MaxHandle = 6
INVARIANTS BindingsAgree AttachedIsBound PrimaryTaken AnnouncedExist ConnectedShown OneTileShown
PROPERTIES InternalFirst
