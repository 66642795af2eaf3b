CONSTANTS
  LogLanes = 1
  Byte = {0, 1}
  Negative = {1}
  FF = 1
  Dest = {"d"}
  QueueMax = 2
SPECIFICATION FairSpec
INVARIANT Sound
PROPERTIES AsInOrder Returns
\* A failed assertion ends the process.
CHECK_DEADLOCK FALSE
