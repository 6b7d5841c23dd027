SPECIFICATION Spec
CONSTANTS
  External = {external}
  Primary = primary
  Threads = {uevent, recovery}
  Client = client
  NoThread = nothread
  MaxEvents = 4
INVARIANTS ClientKnows ErrorsOfConnected
PROPERTIES ClientLearns
CHECK_DEADLOCK FALSE
