CONSTANTS
  Half = 2
  Byte = {0, 1}
  Cells = 2
  MaxChunks = 4
SPECIFICATION Spec
INVARIANT Loaded
CHECK_DEADLOCK FALSE
