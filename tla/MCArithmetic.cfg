CONSTANTS
  W = 4
  Operands <- MCOperands
  Pcs <- MCPcs
  LogLanes = 2
  Byte = {0, 1, 3}
  Negative = {3}
  FF = 3
SPECIFICATION MCSpec
INVARIANTS Executes KindsDocumented UnitsRight
PROPERTIES Answers SeesBytes
