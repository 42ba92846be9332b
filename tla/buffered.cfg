SPECIFICATION Spec
CONSTANTS
  Streams = {s, t}
  Grouped = {s, t}
  Read = {s}
  Buffers = {p, b1}
  Pooled = {p}
  Capacity = 2
  ReadCapacity = 2
  Total = 3
  None = None
CHECK_DEADLOCK FALSE
INVARIANTS
  TypeOK
  BuffersExclusive
PROPERTY RefinesByteStream
