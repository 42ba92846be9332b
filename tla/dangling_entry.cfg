SPECIFICATION Spec
CONSTANTS
  Clients = {c1}
  CallsMade <- OneConnect
  Max = 1
  Fds = {3}
  Slots = {1}
  None = None
CHECK_DEADLOCK FALSE
INVARIANT EntryPointsToLiveMemory
