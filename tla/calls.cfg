SPECIFICATION Spec
CONSTANTS
  Clients = {c1, c2}
  CallsMade <- AllCalls
  Max = 2
  Fds = {0, 3}
  Slots = {0, 1}
  None = None
SYMMETRY Symmetry
CHECK_DEADLOCK FALSE
INVARIANTS
  TypeOK
  DataOutlivesOperation
  DescriptorsAccounted
