CONSTANTS
  WordMod = 2
  AddrMod = 4
  StrobeMod = 2
  Starts = {1}
  Lens = {0, 3}
  Sizes = {0}
  Bursts = {"WRAP"}
  WordBytes = 1
  MemBytes = 4
  MaxStall = 1
  Merge <- MCMerge
SPECIFICATION FairSpec
INVARIANT Sound
PROPERTIES AsBurstMemory HeldUntilTaken Answered
