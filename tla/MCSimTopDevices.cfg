CONSTANTS
  WordMod = 4
  AddrMod = 8
  StrobeMod = 4
  NumInputs = 2
  Base = 0
  WordBytes = 2
  RamWords = 2
  RangeWords = 3
  MSIP = 7
  MTIMECMP = 4
  MTIME = 5
  MS_CNT = 103
  STDOUT = 6
  StdoutBit = 1
  UART_STATUS = 105
  UART_CTRL = 106
  PASS = 107
  SWITCH = 108
  SwitchValue = 1
  Delays = {0, 1}
  CycPerMs = 1
  Rounds = 2
  NumRegs = 3
  PCINIT = 0
  Fn <- MCFn
  Kinds <- CoreKinds
  InstrAt <- DeviceInstrAt
  AluRes <- MCAluRes
  NextPc <- MCNextPc
  Ea <- MCEa
  MSize <- MCMSize
  LoadVal <- MCLoadVal
  StoreData <- MCStoreData
  StoreStrobe <- MCStoreStrobe
  UnitRes <- MCUnitRes
  Merge <- MCMerge
SPECIFICATION Spec
PROPERTY Sequential
CHECK_DEADLOCK FALSE
