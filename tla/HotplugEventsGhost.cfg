SPECIFICATION Spec
CONSTANTS
  External = {external}
  Primary = primary
  Threads = {uevent, recovery}
  Client = client
  NoThread = nothread
  MaxEvents = 3
INVARIANTS NoGhostDisplay
CHECK_DEADLOCK FALSE
