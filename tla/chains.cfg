SPECIFICATION Spec
CONSTANTS
  Exists = {}
  Readers = {}
  Writers = {}
  Binds = {b1, b2}
  Streams = {s}
  Others = {o}
  Size = 2
  Droppable = {o}
  None = None
SYMMETRY Symmetry
CHECK_DEADLOCK FALSE
INVARIANTS
  OthersUndisturbed
  ListenerKeepsItsSocket
