SPECIFICATION FairSpec
CONSTANTS
  Clients = {a, r}
  Adapters = {a}
  Buffers = {b1, b2}
  Initial = {b1}
  Rejected = {}
  Ids = {i1, i2}
  None = None
CHECK_DEADLOCK FALSE
INVARIANTS
  TypeOK
  IdsAccounted
  OneOwner
  GroupOutlivesReads
  RemovedAll
PROPERTY GroupIsReleased
