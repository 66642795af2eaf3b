CONSTANTS
  WordMod = 2
  AddrMod = 16
  StrobeMod = 2
  Base = 4
  WordBytes = 2
  RamWords = 2
  RangeWords = 4
  MSIP = 101
  MTIMECMP = 102
  MTIME = 103
  MS_CNT = 104
  STDOUT = 105
  StdoutBit = 1
  UART_STATUS = 106
  UART_CTRL = 107
  PASS = 108
  SWITCH = 109
  SwitchValue = 1
  Delays = {0, 1}
  CycPerMs = 0
  Starts = {4, 6, 10}
  Lens = {0, 1, 3}
  Sizes = {0, 1}
  Bursts = {"FIXED", "INCR", "WRAP"}
  Merge <- MCMerge
SPECIFICATION Spec
INVARIANT Sound
PROPERTIES WritesInOrder Answered
CHECK_DEADLOCK FALSE
