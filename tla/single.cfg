SPECIFICATION Spec
CONSTANTS
  o1 = o1  o2 = o2  o3 = o3
  Ops = {o1, o2, o3}
  Multishot = {}
  Awaited = {o1, o2, o3}
  Uncancellable = {o3}
  Detached = {d1}
  Keys = {k1, k2, k3}
  IgnoreKey = IgnoreKey
  InitialQueues = 0
  SqSize = 4
  MaxMore = 0
  DropArmed = FALSE
SYMMETRY Symmetry
INVARIANTS
  TypeOK
  KeysStayValid
  ResourcesOutliveKernel
  CountersExact
  CancelHitsItsTarget
  IsDoneIsExact
PROPERTY DroppedNeverWoken
