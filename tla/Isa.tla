--------------------------------- MODULE Isa ---------------------------------
(***************************************************************************)
(* The machine the processor promises: RV64 executed one instruction at a  *)
(* time.  A step fetches the instruction at pc from memory and applies all *)
(* of its effects at once, or lets time pass; either way the timer may     *)
(* tick.  There are no buses, no latches and no units.                     *)
(***************************************************************************)
EXTENDS Datapath

VARIABLES
  pc,    \* program counter
  regs,  \* x1 .. x31
  mem,   \* RAM
  dev    \* the device registers

isaVars == <<pc, regs, mem, dev>>

-----------------------------------------------------------------------------
\* The instruction that pc designates.
Fetched == InstrAt(ReadData(mem, dev, pc), pc)

\* Effect of i on the registers.
Result(i, a, b) ==
  IF i.kind = "load" THEN LoadVal(i, Ea(i, a), ReadData(mem, dev, Ea(i, a)))
  ELSE IF i.kind \in {"mul", "div"} THEN UnitRes(i, {a}, {b})
  ELSE AluRes(i, a, b, pc)

\* Instruction i executes; tick says whether the timer ticks meanwhile.
Execute(i, tick) ==
  LET a  == RegRead(regs, i.rs1)
      b  == RegRead(regs, i.rs2)
      ea == Ea(i, a)
      dw == StoreData(i, ea, b)
      st == StoreStrobe(i, ea)
  IN  /\ pc' = NextPc(i, a, b, pc)
      /\ regs' = IF i.kind \in {"store", "nowrite"} THEN regs
                   ELSE RegWrite(regs, i.rd, Result(i, a, b))
      /\ mem' = IF i.kind = "store" THEN WriteMem(mem, ea, dw, st) ELSE mem
      /\ dev' = IF i.kind = "store"
                  THEN WriteDev(TickDev(dev, tick), ea, dw, st)
                  ELSE TickDev(dev, tick)

\* Time passes.
Pass(tick) ==
  /\ dev' = TickDev(dev, tick)
  /\ UNCHANGED <<pc, regs, mem>>

Init ==
  /\ pc = PCINIT
  /\ regs = [r \in 1 .. NumRegs - 1 |-> 0]
  /\ mem \in Memory
  /\ dev = DevInit

Next == \E tick \in BOOLEAN : Execute(Fetched, tick) \/ Pass(tick)

Spec == Init /\ [][Next]_isaVars
=============================================================================
