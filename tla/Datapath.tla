------------------------------ MODULE Datapath ------------------------------
(***************************************************************************)
(* What an instruction is and what it computes, shared by the core and by  *)
(* the sequential machine it implements.  The control unit sorts every     *)
(* encoding into one of a few kinds (module ControlUnit derives them from  *)
(* opcode, func3 and func7); the rest of an encoding, and the arithmetic   *)
(* it selects, stay abstract: constant operators over instruction,         *)
(* operands and pc.                                                        *)
(*                                                                         *)
(*   alu        one result into rd at once (also lui, auipc, jal, jalr)    *)
(*   nowrite    branches, and every opcode the decoder does not know       *)
(*   load store one data-bus transfer                                      *)
(*   mul div    one run of the iterative unit                              *)
(*   m_reserved func7 = 1 with a func3 no unit serves (mulh, ...)          *)
(*   div_stray  0111011 with a func3 of divw, remw or remuw, func7 # 1     *)
(***************************************************************************)
EXTENDS MemoryMap

CONSTANTS
  NumRegs,           \* 32 in the code
  Kinds,             \* the kinds that program memory decodes to
  Fn,                \* what else distinguishes instructions of a kind
  PCINIT,            \* reset value of pc
  InstrAt(_, _),     \* decode of the half of a bus word that addr[2] selects
  AluRes(_, _, _, _),\* write-back value of a single-cycle instruction
  NextPc(_, _, _, _),\* pc + 4, or the target of a taken branch or a jump
  Ea(_, _),          \* rs1 + immediate, the address of a load or store
  MSize(_),          \* d_byte
  LoadVal(_, _, _),  \* rd.sv: the addressed bytes of a bus word, extended
  StoreData(_, _, _),\* wd.sv: the operand moved to its byte lanes
  StoreStrobe(_, _), \* wd.sv: the strobe of those lanes
  UnitRes(_, _, _)   \* mul.sv, div.sv: the result of a run that read the
                     \* two sets of values at its operand ports

SupportedKinds == {"alu", "nowrite", "load", "store", "mul", "div"}
AllKinds == SupportedKinds \cup {"m_reserved", "div_stray"}

Reg == 0 .. NumRegs - 1
RegFile == [1 .. NumRegs - 1 -> Word]

Instr == [kind : Kinds, rd : Reg, rs1 : Reg, rs2 : Reg, fn : Fn]

\* The instruction word 0, which the core latches when it has nothing to do.
Nop == [kind |-> "nowrite", rd |-> 0, rs1 |-> 0, rs2 |-> 0,
        fn |-> CHOOSE f \in Fn : TRUE]

\* Every instruction that may sit in the core.
CoreInstr == Instr \cup {Nop}

ASSUME DatapathAssumption ==
  /\ NumRegs \in Nat \ {0}
  /\ Kinds \subseteq AllKinds
  /\ Fn # {}
  /\ PCINIT \in Addr
  /\ \A w \in Word, a \in Addr : InstrAt(w, a) \in Instr
  /\ \A i \in CoreInstr, a, b \in Word, p \in Addr :
       /\ AluRes(i, a, b, p) \in Word
       /\ NextPc(i, a, b, p) \in Addr
  /\ \A i \in CoreInstr, a \in Word : Ea(i, a) \in Addr
  /\ \A i \in CoreInstr : MSize(i) \in msize_t
  /\ \A i \in CoreInstr, a \in Addr, w \in Word :
       /\ LoadVal(i, a, w) \in Word
       /\ StoreData(i, a, w) \in Word
       /\ StoreStrobe(i, a) \in Strobe \ {0}
  /\ \A i \in CoreInstr, A, B \in SUBSET Word : UnitRes(i, A, B) \in Word

-----------------------------------------------------------------------------
\* regfile: x0 reads as zero and is never written.
RegRead(regs, r) == IF r = 0 THEN 0 ELSE regs[r]
RegWrite(regs, r, v) == IF r = 0 THEN regs ELSE [regs EXCEPT ![r] = v]

\* decode: stores and branches have rd tied to 0.
Dest(i) == IF i.kind \in {"store", "nowrite"} THEN 0 ELSE i.rd
=============================================================================
