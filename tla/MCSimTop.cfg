CONSTANTS
  WordMod = 4
  AddrMod = 8
  StrobeMod = 4
  NumInputs = 2
  Base = 0
  WordBytes = 2
  RamWords = 3
  RangeWords = 100
  MSIP = 101
  MTIMECMP = 102
  MTIME = 7
  MS_CNT = 103
  STDOUT = 104
  StdoutBit = 1
  UART_STATUS = 105
  UART_CTRL = 106
  PASS = 107
  SWITCH = 108
  SwitchValue = 1
  Delays = {0, 1}
  CycPerMs = 0
  Rounds = 2
  NumRegs = 3
  PCINIT = 0
  Fn <- MCFn
  Kinds <- CoreKinds
  InstrAt <- CoreInstrAt
  AluRes <- MCAluRes
  NextPc <- MCNextPc
  Ea <- MCEa
  MSize <- MCMSize
  LoadVal <- MCLoadVal
  StoreData <- MCStoreData
  StoreStrobe <- MCStoreStrobe
  UnitRes <- MCUnitRes
  Merge <- MCMerge
SPECIFICATION FairSpec
INVARIANTS CoreInv RequestStable PortsSound UnitSound
PROPERTIES DifftestInStep Sequential Progress
