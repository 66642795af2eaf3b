-------------------------------- MODULE Core --------------------------------
(***************************************************************************)
(* vsrc/src/core.sv: the single-cycle core.  It fetches through ireq,      *)
(* executes the fetched instruction in the cycle the answer arrives, and   *)
(* keeps it in curr_instr only when it needs a data-bus transfer or one of *)
(* the iterative units.  if_hold_pc is the commit pulse: pc advances, the  *)
(* next fetch starts, and Difftest is told.                                *)
(*                                                                         *)
(* iresp and dresp are the responses of the two buses in this cycle, i the *)
(* instruction that decode sees in it.                                     *)
(***************************************************************************)
EXTENDS Datapath, IterUnit

VARIABLES
  ireq_valid,  \* ireq.valid
  pc,          \* the pc register
  curr_instr,  \* the instruction in progress, or Nop
  regs,        \* the register file
  reg_next,    \* what Difftest reads as register file: each entry keeps the
               \* last value driven on the write port while it was addressed
  mulu, divu   \* the two iterative units

coreVars == <<ireq_valid, pc, curr_instr, regs, reg_next, mulu, divu>>

-----------------------------------------------------------------------------
\* Control signals of an instruction.
d_valid(i)   == i.kind \in {"load", "store"}
wmem(i)      == i.kind = "store"
mul_valid(i) == i.kind = "mul"
div_valid(i) == i.kind \in {"div", "div_stray"}
wreg(i)      == i.kind \notin {"store", "nowrite"}
if_curr_ins(i) == i.kind \in {"load", "store", "mul", "div", "m_reserved"}

\* Mutant: a division is taken for done in the cycle it arrives.
immediate_Div(i) == ~d_valid(i) /\ ~mul_valid(i)

\* Needs neither the data bus nor a unit: done in the cycle it arrives.
immediate(i) == ~d_valid(i) /\ ~mul_valid(i) /\ ~div_valid(i)

\* The instruction decode sees: a fetched one, else the latched one.
instr(iresp) == IF iresp.data_ok THEN iresp.data ELSE curr_instr

rfq1(i) == RegRead(regs, i.rs1)
rfq2(i) == RegRead(regs, i.rs2)

dreq(i) ==
  LET a == Ea(i, rfq1(i))
  IN  [valid |-> d_valid(i), addr |-> a, size |-> MSize(i),
       strobe |-> IF wmem(i) THEN StoreStrobe(i, a) ELSE 0,
       data |-> IF wmem(i) THEN StoreData(i, a, rfq2(i)) ELSE 0]

\* What a unit returns: every value seen at its operand ports took part.
unitres(i, u) == UnitRes(i, u.p.as \cup {rfq1(i)}, u.p.bs \cup {rfq2(i)})

writeregdata(i, dresp) ==
  IF i.kind = "load" THEN LoadVal(i, Ea(i, rfq1(i)), dresp.data)
  ELSE IF mul_valid(i) THEN unitres(i, mulu)
  ELSE IF div_valid(i) THEN unitres(i, divu)
  ELSE AluRes(i, rfq1(i), rfq2(i), pc)

\* Mutant: the end of a division is forgotten.
if_hold_pc_NoDivDone(i, iresp, dresp) ==
  (iresp.data_ok /\ immediate(i)) \/ dresp.data_ok \/ mulu.done

if_hold_pc(i, iresp, dresp) ==
  \/ iresp.data_ok /\ immediate(i)
  \/ dresp.data_ok
  \/ mulu.done
  \/ divu.done

\* Mutant: the write port is not told when the value is there.
if_wreg_Early(i, dresp) == wreg(i)

if_wreg(i, dresp) ==
  wreg(i) /\ (immediate(i) \/ dresp.data_ok \/ mulu.done \/ divu.done)

-----------------------------------------------------------------------------
\* The clocked blocks.

\* Mutants: the request is never dropped; the answer wins over the commit.
IreqClock_Kept(i, iresp, dresp) == ireq_valid' = TRUE
IreqClock_Swapped(i, iresp, dresp) ==
  ireq_valid' = IF iresp.data_ok THEN FALSE
                ELSE if_hold_pc(i, iresp, dresp) \/ ireq_valid

IreqClock(i, iresp, dresp) ==
  ireq_valid' = IF if_hold_pc(i, iresp, dresp) THEN TRUE
                ELSE IF iresp.data_ok THEN FALSE
                ELSE ireq_valid

CurrInstrClock(i, iresp, dresp) ==
  curr_instr' = IF dresp.data_ok \/ mulu.done \/ divu.done \/ ~if_curr_ins(i)
                  THEN Nop
                ELSE IF iresp.data_ok THEN i
                ELSE curr_instr

PcClock(i, iresp, dresp) ==
  pc' = IF if_hold_pc(i, iresp, dresp)
          THEN NextPc(i, rfq1(i), rfq2(i), pc) ELSE pc

RegfileClock(i, dresp) ==
  regs' = IF if_wreg(i, dresp)
            THEN RegWrite(regs, Dest(i), writeregdata(i, dresp)) ELSE regs

\* The accumulator: loaded from the first operand, stepped with the second.
Loaded(i) == [as |-> {rfq1(i)}, bs |-> {}]
Stepped(i, u) == [as |-> u.p.as, bs |-> u.p.bs \cup {rfq2(i)}]

UnitClock(i) ==
  /\ mulu' = UnitNext(mulu, mul_valid(i), Loaded(i), Stepped(i, mulu))
  /\ divu' = UnitNext(divu, div_valid(i), Loaded(i), Stepped(i, divu))

CoreClock(i, iresp, dresp) ==
  /\ IreqClock(i, iresp, dresp)
  /\ CurrInstrClock(i, iresp, dresp)
  /\ PcClock(i, iresp, dresp)
  /\ RegfileClock(i, dresp)
  /\ UnitClock(i)

\* What the write port carries, and the register view of Difftest, which is
\* combinational: the entry that the port addresses follows it, the others
\* keep their value.
PortValue(i, dresp) == IF Dest(i) = 0 THEN 0 ELSE writeregdata(i, dresp)
Drive(view, rd, value) == [view EXCEPT ![rd] = value]

CoreInit ==
  /\ ireq_valid = TRUE
  /\ pc = PCINIT
  /\ curr_instr = Nop
  /\ regs = [r \in 1 .. NumRegs - 1 |-> 0]
  /\ mulu = UnitInit([as |-> {}, bs |-> {}])
  /\ divu = UnitInit([as |-> {}, bs |-> {}])

Acc == [as : SUBSET Word, bs : SUBSET Word]

CoreTypeOK ==
  /\ ireq_valid \in BOOLEAN
  /\ pc \in Addr
  /\ curr_instr \in CoreInstr
  /\ regs \in RegFile
  /\ mulu \in UnitState(Acc)
  /\ divu \in UnitState(Acc)
=============================================================================
