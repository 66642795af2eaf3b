------------------------------ MODULE MemoryMap ------------------------------
(***************************************************************************)
(* What the addresses of vsrc's memory (difftest's ram.sv) mean: RAM cells *)
(* reached through ram_read_helper and ram_write_helper, and the device    *)
(* registers decoded by the two `unique case (addr)' statements.           *)
(*                                                                         *)
(* dev is the record of device registers: mtime and ms_cnt (advanced by    *)
(* the timer), mtimecmp, msip, and out, the number of characters printed   *)
(* on stdout (modulo WordMod: only its changes matter).                    *)
(***************************************************************************)
EXTENDS CBus

CONSTANTS
  Base,        \* first address of RAM (0x80000000)
  WordBytes,   \* bytes of a RAM cell (8)
  RamWords,    \* cells of RAM (EMU_RAM_SIZE / 8)
  RangeWords,  \* first cell index a load may not use (0x10000000)
  MSIP, MTIMECMP, MTIME, MS_CNT,  \* 0x38000000, 0x38004000, 0x3800bff8, 0x20003000
  STDOUT, StdoutBit,              \* 0x40600004 and the strobe bit it tests (1 << 4)
  UART_STATUS, UART_CTRL, PASS,   \* 0x40600008, 0x4060000c, 0x23333000
  SWITCH, SwitchValue,            \* 0x23333008 and what get_switch() answers
  Merge(_, _, _)  \* (old & ~wmask) | (new & wmask): Merge(old, new, strobe)

ASSUME MapAssumption ==
  /\ Base \in Addr
  /\ WordBytes \in Nat \ {0}
  /\ RamWords \in Nat \ {0}
  /\ RangeWords \in Nat
  /\ SwitchValue \in Word
  /\ StdoutBit \in Nat \ {0}
  /\ \A old, new \in Word, s \in Strobe : Merge(old, new, s) \in Word

Memory == [0 .. RamWords - 1 -> Word]

Devices == [mtime : Word, mtimecmp : Word, msip : 0 .. 1, ms_cnt : Word,
            out : Word]

\* After reset the compare register is all ones, everything else zero.
DevInit == [mtime |-> 0, mtimecmp |-> WordMod - 1, msip |-> 0, ms_cnt |-> 0,
            out |-> 0]

DeviceRegs == {UART_STATUS, MSIP, MTIMECMP, MTIME, MS_CNT, SWITCH}

-----------------------------------------------------------------------------
\* Every address at or below Base falls on cell 0.
Idx(a) == IF a > Base THEN (a - Base) \div WordBytes ELSE 0

\* ram_read_helper wraps around the end of RAM.
RamRead(mem, a) == mem[Idx(a) % RamWords]

\* ram_write_helper ignores a cell beyond the end of RAM.
RamWrite(mem, a, data, strobe) ==
  IF Idx(a) < RamWords
    THEN [mem EXCEPT ![Idx(a)] = Merge(mem[Idx(a)], data, strobe)]
    ELSE mem

ReadData(mem, dev, a) ==
  CASE a = UART_STATUS -> 0
    [] a = MSIP        -> dev.msip
    [] a = MTIMECMP    -> dev.mtimecmp
    [] a = MTIME       -> dev.mtime
    [] a = MS_CNT      -> dev.ms_cnt
    [] a = SWITCH      -> SwitchValue
    [] OTHER           -> RamRead(mem, a)

\* Addresses whose stores do not reach RAM.
WriteSinks == {STDOUT, PASS, MSIP, MTIMECMP, MTIME, UART_CTRL}

WriteMem(mem, a, data, strobe) ==
  IF a \in WriteSinks THEN mem ELSE RamWrite(mem, a, data, strobe)

\* Device registers take the whole bus word, whatever the strobe says.
WriteDev(dev, a, data, strobe) ==
  CASE a = STDOUT -> IF (strobe \div StdoutBit) % 2 = 1
                       THEN [dev EXCEPT !.out = (@ + 1) % WordMod]
                       ELSE dev
    [] a = MSIP     -> [dev EXCEPT !.msip = data % 2]
    [] a = MTIMECMP -> [dev EXCEPT !.mtimecmp = data]
    [] a = MTIME    -> [dev EXCEPT !.mtime = data]
    [] OTHER        -> dev

\* The timer's tick; a store to mtime in the same cycle wins over it.
TickDev(dev, tick) ==
  IF tick
    THEN [dev EXCEPT !.mtime = (@ + 1) % WordMod, !.ms_cnt = (@ + 1) % WordMod]
    ELSE dev
=============================================================================
