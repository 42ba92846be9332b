SPECIFICATION Spec
CONSTANTS
  Exists = {}
  Readers = {r}
  Writers = {}
  Binds = {}
  Streams = {}
  Others = {o}
  Size = 1
  Droppable = {}
  None = None
CHECK_DEADLOCK FALSE
INVARIANT OthersUndisturbed
