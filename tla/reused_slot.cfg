SPECIFICATION Spec
CONSTANTS
  Exists = {}
  Readers = {r}
  Writers = {w}
  Binds = {}
  Streams = {}
  Others = {}
  Size = 1
  Droppable = {r}
  None = None
CHECK_DEADLOCK FALSE
INVARIANT SlotsUnused
