CONSTANTS
  WordMod = 2
  AddrMod = 4
  StrobeMod = 2
  Starts = {1}
  Lens = {0, 3}
  Sizes = {0}
  Bursts = {"FIXED", "INCR", "WRAP"}
  WordBytes = 1
  MemBytes = 4
  MaxStall = 1
  Merge <- MCMerge
SPECIFICATION Spec
PROPERTY AsBurstMemory
