----------------------------- MODULE RAMHelper2 -----------------------------
(***************************************************************************)
(* difftest/src/test/vsrc/common/ram.sv, module RAMHelper2: the memory at  *)
(* the end of the cache bus.  It accepts a request, waits a random delay,  *)
(* transfers len + 1 beats and returns to NONE.  While a transfer lasts it *)
(* compares the live request with the one it accepted and stops the        *)
(* simulation on any difference; it also stops it on a load out of range.  *)
(* A free-running timer advances the device registers on the side.         *)
(***************************************************************************)
EXTENDS MemoryMap

CONSTANTS
  Delays,     \* values count_down may take on acceptance:
              \*   ($random % RANDOMIZE_DELAY) + 2 in eight bits
  CycPerMs    \* the value cyc_cnt wraps at (25)

ASSUME RamAssumption ==
  /\ Delays \subseteq 0 .. 255
  /\ Delays # {}
  /\ CycPerMs \in Nat

VARIABLES
  rstate,      \* NONE, WAIT, READ or WRITE
  count_down,  \* cycles left to wait, then beats left
  saved_oreq,  \* the request as accepted
  addr,        \* address of the current beat
  size,        \* bytes per beat
  wrap1,       \* where a wrapping burst restarts
  wrap2,       \* the address at which it does
  mem,         \* the RAM array
  dev,         \* the device registers
  cyc_cnt,     \* timer prescaler
  trint, swint,\* the interrupt lines (the core ignores them)
  fault        \* the reason of a $finish, or "none"

busVars == <<rstate, count_down, saved_oreq, addr, size, wrap1, wrap2>>
timerVars == <<cyc_cnt, trint, swint>>
ramVars == <<busVars, mem, dev, timerVars, fault>>

-----------------------------------------------------------------------------
Last == count_down = 0

oresp ==
  IF rstate \in {"READ", "WRITE"}
    THEN [ready |-> TRUE, last |-> Last,
          data |-> IF rstate = "READ" THEN ReadData(mem, dev, addr) ELSE 0]
    ELSE NoResp

\* Mutant: the comparison of whole requests that ram.sv 133-136 once made.
Modified_Whole(oreq) == oreq # saved_oreq

\* The comparison that guards WAIT, READ and WRITE: every field but the
\* strobe and the data.
Modified(oreq) ==
  \E f \in {"valid", "is_write", "size", "addr", "len", "burst"} :
    oreq[f] # saved_oreq[f]

Fault(oreq) ==
  IF rstate # "NONE" /\ Modified(oreq) THEN "modified"
  ELSE IF rstate = "READ" /\ Idx(addr) >= RangeWords THEN "range"
  ELSE "none"

-----------------------------------------------------------------------------
\* NONE: nothing requested.
Idle(oreq) ==
  /\ rstate = "NONE"
  /\ ~oreq.valid
  /\ UNCHANGED <<busVars, mem>>

\* NONE: a request is accepted and its delay drawn.
Accept(oreq) ==
  /\ rstate = "NONE"
  /\ oreq.valid
  /\ saved_oreq' = oreq
  /\ count_down' \in Delays
  /\ rstate' = "WAIT"
  /\ UNCHANGED <<addr, size, wrap1, wrap2, mem>>

\* WAIT: the delay runs.
Delay(oreq) ==
  /\ rstate = "WAIT"
  /\ count_down # 0
  /\ count_down' = count_down - 1
  /\ UNCHANGED <<rstate, saved_oreq, addr, size, wrap1, wrap2, mem>>

\* WAIT: the transfer starts; bounds of the wrapping window are set up.
Span(oreq) == (oreq.len + 1) * Bytes(oreq.size)
WrapLow(oreq) == oreq.addr - (oreq.addr % Span(oreq))

Start(oreq) ==
  /\ rstate = "WAIT"
  /\ count_down = 0
  /\ rstate' = IF oreq.is_write THEN "WRITE" ELSE "READ"
  /\ addr' = oreq.addr
  /\ count_down' = oreq.len
  /\ size' = Bytes(oreq.size)
  /\ wrap1' = CASE oreq.burst = "FIXED" -> oreq.addr
                [] oreq.burst = "WRAP"  -> WrapLow(oreq)
                [] OTHER                -> 0
  /\ wrap2' = CASE oreq.burst = "FIXED" -> (oreq.addr + Bytes(oreq.size)) % AddrMod
                [] oreq.burst = "WRAP"  -> (WrapLow(oreq) + Span(oreq)) % AddrMod
                [] OTHER                -> 0
  /\ UNCHANGED <<saved_oreq, mem>>

\* Mutant: the last beat lasts until the request is withdrawn.
LastBeat_Held(oreq) ==
  /\ rstate \in {"READ", "WRITE"}
  /\ Last
  /\ rstate' = IF oreq.valid THEN rstate ELSE "NONE"
  /\ mem' = IF rstate = "WRITE"
              THEN WriteMem(mem, addr, oreq.data, oreq.strobe) ELSE mem
  /\ UNCHANGED <<count_down, saved_oreq, addr, size, wrap1, wrap2>>

\* READ and WRITE: the last beat returns to NONE.
LastBeat(oreq) ==
  /\ rstate \in {"READ", "WRITE"}
  /\ Last
  /\ rstate' = "NONE"
  /\ mem' = IF rstate = "WRITE"
              THEN WriteMem(mem, addr, oreq.data, oreq.strobe) ELSE mem
  /\ UNCHANGED <<count_down, saved_oreq, addr, size, wrap1, wrap2>>

NextAddr == (addr + size) % AddrMod

\* Mutant: a burst of reads never wraps.
ReadBeat_NoWrap(oreq) ==
  /\ rstate = "READ"
  /\ ~Last
  /\ count_down' = count_down - 1
  /\ addr' = NextAddr
  /\ UNCHANGED <<rstate, saved_oreq, size, wrap1, wrap2, mem>>

\* READ, more beats to come: the address steps, and wraps at wrap2.
ReadBeat(oreq) ==
  /\ rstate = "READ"
  /\ ~Last
  /\ count_down' = count_down - 1
  /\ addr' = IF NextAddr = wrap2 THEN wrap1 ELSE NextAddr
  /\ UNCHANGED <<rstate, saved_oreq, size, wrap1, wrap2, mem>>

\* Mutant: the address steps before the word is written.
WriteBeat_StepFirst(oreq) ==
  /\ rstate = "WRITE"
  /\ ~Last
  /\ count_down' = count_down - 1
  /\ addr' = NextAddr
  /\ mem' = WriteMem(mem, NextAddr, oreq.data, oreq.strobe)
  /\ UNCHANGED <<rstate, saved_oreq, size, wrap1, wrap2>>

\* WRITE, more beats to come: the address only ever steps.
WriteBeat(oreq) ==
  /\ rstate = "WRITE"
  /\ ~Last
  /\ count_down' = count_down - 1
  /\ addr' = NextAddr
  /\ mem' = WriteMem(mem, addr, oreq.data, oreq.strobe)
  /\ UNCHANGED <<rstate, saved_oreq, size, wrap1, wrap2>>

\* Device registers: the timer ticks every CycPerMs + 1 cycles, and a WRITE
\* beat that addresses a register stores to it over the tick.
Ticks == cyc_cnt = CycPerMs

\* Mutant: the tick comes after the store.
Timer_TickWins(oreq) ==
  /\ cyc_cnt' = IF Ticks THEN 0 ELSE cyc_cnt + 1
  /\ trint' = (dev.mtime > dev.mtimecmp)
  /\ swint' = dev.msip
  /\ dev' = TickDev(IF rstate = "WRITE"
                      THEN WriteDev(dev, addr, oreq.data, oreq.strobe) ELSE dev,
                    Ticks)

Timer(oreq) ==
  /\ cyc_cnt' = IF Ticks THEN 0 ELSE cyc_cnt + 1
  /\ trint' = (dev.mtime > dev.mtimecmp)
  /\ swint' = dev.msip
  /\ dev' = IF rstate = "WRITE"
              THEN WriteDev(TickDev(dev, Ticks), addr, oreq.data, oreq.strobe)
              ELSE TickDev(dev, Ticks)

\* One clock edge.  After a $finish there is no further one.
RamClock(oreq) ==
  /\ fault = "none"
  /\ fault' = Fault(oreq)
  /\ Timer(oreq)
  /\ \/ Idle(oreq)
     \/ Accept(oreq)
     \/ Delay(oreq)
     \/ Start(oreq)
     \/ LastBeat(oreq)
     \/ ReadBeat(oreq)
     \/ WriteBeat(oreq)

RamInit ==
  /\ rstate = "NONE"
  /\ count_down = 0
  /\ saved_oreq = NoReq
  /\ addr = 0
  /\ size = 0
  /\ wrap1 = 0
  /\ wrap2 = 0
  /\ mem \in Memory
  /\ dev = DevInit
  /\ cyc_cnt = 0
  /\ trint = FALSE
  /\ swint = 0
  /\ fault = "none"

RamTypeOK ==
  /\ rstate \in {"NONE", "WAIT", "READ", "WRITE"}
  /\ count_down \in 0 .. 255
  /\ saved_oreq \in cbus_req_t
  /\ addr \in Addr
  /\ size \in 0 .. 15
  /\ wrap1 \in Addr
  /\ wrap2 \in Addr
  /\ mem \in Memory
  /\ dev \in Devices
  /\ cyc_cnt \in 0 .. CycPerMs
  /\ trint \in BOOLEAN
  /\ swint \in 0 .. 1
  /\ fault \in {"none", "modified", "range"}
=============================================================================
