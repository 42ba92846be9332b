SPECIFICATION Spec
CONSTANTS
  Exists = {e}
  Readers = {r}
  Writers = {w}
  Binds = {b}
  Streams = {}
  Others = {}
  Size = 2
  Droppable = {}
  None = None
CHECK_DEADLOCK FALSE
INVARIANTS
  TypeOK
  SlotsExclusive
  IsFullIsExact
  UsesItsOwnFile
  SlotsUnused
