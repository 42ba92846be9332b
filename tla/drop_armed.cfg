SPECIFICATION Spec
CONSTANTS
  o1 = o1  o2 = o2  o3 = o3
  Ops = {o1, o3}
  Multishot = {o1}
  Awaited = {o3}
  Uncancellable = {}
  Detached = {}
  Keys = {k1, k2}
  IgnoreKey = IgnoreKey
  InitialQueues = 1
  SqSize = 4
  MaxMore = 1
  DropArmed = TRUE
INVARIANT KeysStayValid
CHECK_DEADLOCK FALSE
