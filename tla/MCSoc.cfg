CONSTANTS
  WordMod = 3
  AddrMod = 16
  StrobeMod = 2
  Starts = {1, 8, 9, 10, 11, 12, 13}
  Lens = {0, 3}
  Sizes = {0}
  Bursts = {"WRAP"}
  WordBytes = 1
  MemBytes = 2
  Merge <- MCMerge
  CharMod = 3
  ByteStrobe = 1
  HalfMod = 1
  None = None
  WindowUnit = 2
  WindowBase = 2
  ConfregUnit = 8
  ConfregBase = 8
  RegisterAt <- MCRegisterAt
  Images <- MCImages
  Programs <- MCPrograms
  NumUnit = 1
  AckMod = 2
  Printable = {0, 1}
  InputMax = 2
SPECIFICATION FairSpec
INVARIANTS Consistent InputOnce
PROPERTIES AsBurstMemory Answered OutputOnce FreshStart
CHECK_DEADLOCK FALSE
