-------------------------------- MODULE Exec --------------------------------
(***************************************************************************)
(* The combinational path of vsrc/src/core.sv for one instruction after    *)
(* another: decode, control unit, operand multiplexers, ALU, write-back    *)
(* and next-pc multiplexers, with the two control signals that the control *)
(* unit latches by accident as state.  The reference it is checked against *)
(* is the table of mnemonics in the comments of controlunit.sv and the     *)
(* instruction lists of README.md.                                         *)
(***************************************************************************)
EXTENDS ControlUnit

CONSTANTS
  Operands,    \* values tried as rs1, rs2 and immediate
  Pcs          \* values tried as pc

ASSUME ExecAssumption == Operands \subseteq Values /\ Pcs \subseteq Values

VARIABLES
  enc,         \* [op, f3, f7], the encoding in the core
  rfq1, rfq2,  \* the register operands
  imm,         \* the extended immediate
  pc,
  m2reg,       \* write-back selection, as last assigned
  branch       \* branch taken, as last assigned

execVars == <<enc, rfq1, rfq2, imm, pc, m2reg, branch>>

-----------------------------------------------------------------------------
signals == Signals(enc.op, enc.f3, enc.f7)

\* sextimm: a shift amount has no bits beyond the sixth.
immediate == IF enc.op \in {"OP", "OP32"} \/ enc.op \notin Opcodes THEN 0
             ELSE IF IsShiftImm(enc.op, enc.f3) THEN imm % W
             ELSE imm

q1 == IF hasRs1(enc.op) THEN rfq1 ELSE 0
q2 == IF hasRs2(enc.op) THEN rfq2 ELSE 0

alua == IF signals.shift THEN pc ELSE q1
alub == IF signals.aluimm THEN immediate ELSE q2
alures == result(alua, alub, signals.aluc)

pc_4 == Word64(pc + 4)

\* mux4 and nextpc
branch_pc ==
  <<pc_4, Word64(pc + immediate), alures, alures - (alures % 2)>>[signals.jump + 1]
next_pc == IF branch THEN branch_pc ELSE pc_4

\* mux8; what comes from memory and the units is no word here.
Elsewhere == -1
writeregdata ==
  CASE m2reg = 0 -> alures
    [] m2reg = 2 -> pc_4
    [] m2reg = 3 -> immediate
    [] OTHER     -> Elsewhere

\* The branch output, where the control unit assigns it.
Taken(how, z, sf) ==
  CASE how = "never"    -> FALSE
    [] how = "always"   -> TRUE
    [] how = "zero"     -> z
    [] how = "nonzero"  -> ~z
    [] how = "SF"       -> sf = 1
    [] how = "noSF"     -> sf = 0

taken == Taken(signals.branch, zero(alua, alub, signals.aluc),
               SF(alua, alub, signals.aluc))

-----------------------------------------------------------------------------
Encodings == [op : Opcodes \cup {"none"}, f3 : 0 .. 7, f7 : {0, 1, 2, 3, 32, 33}]

\* What reset shows to decode is the word 0; the latches are arbitrary.
ExecInit ==
  /\ enc = [op |-> "none", f3 |-> 0, f7 |-> 0]
  /\ rfq1 \in Operands
  /\ rfq2 \in Operands
  /\ imm = rfq2
  /\ pc \in Pcs
  /\ m2reg \in 0 .. 7
  /\ branch \in BOOLEAN

\* The next instruction reaches decode: everything is evaluated anew but
\* what a path leaves unassigned.
Evaluate ==
  /\ enc.op = "none"
  /\ enc' \in Encodings
  /\ UNCHANGED <<rfq1, rfq2, imm, pc>>
  /\ m2reg' = IF signals'.m2reg = HOLD THEN m2reg ELSE signals'.m2reg
  /\ branch' = IF signals'.branch = "hold" THEN branch ELSE taken'

\* It leaves, and what is latched stays.
Leave ==
  /\ enc.op # "none"
  /\ enc' = [op |-> "none", f3 |-> 0, f7 |-> 0]
  /\ UNCHANGED <<rfq1, rfq2, imm, pc, m2reg, branch>>

ExecNext == Evaluate \/ Leave

-----------------------------------------------------------------------------
(***************************************************************************)
(* The reference: names of encodings and what they mean.                   *)
(***************************************************************************)
ArithName(f3, f7) ==
  CASE f7 = 0  -> <<"add", "sll", "slt", "sltu", "xor", "srl", "or", "and">>[f3 + 1]
    [] f7 = 32 -> <<"sub", "none", "none", "none", "none", "sra", "none", "none">>[f3 + 1]
    [] f7 = 1  -> <<"mul", "none", "none", "none", "div", "divu", "rem", "remu">>[f3 + 1]
    [] OTHER   -> "none"

ArithWName(f3, f7) ==
  CASE f7 = 0  -> <<"addw", "sllw", "none", "none", "none", "srlw", "none", "none">>[f3 + 1]
    [] f7 = 32 -> <<"subw", "none", "none", "none", "none", "sraw", "none", "none">>[f3 + 1]
    [] f7 = 1  -> <<"mulw", "none", "none", "none", "divw", "divuw", "remw", "remuw">>[f3 + 1]
    [] OTHER   -> "none"

\* The mnemonic of an encoding, or "none" when README.md lists none.
Name(op, f3, f7) ==
  CASE op = "LOAD"    -> <<"lb", "lh", "lw", "ld", "lbu", "lhu", "lwu", "none">>[f3 + 1]
    [] op = "STORE"   -> <<"sb", "sh", "sw", "sd", "none", "none", "none", "none">>[f3 + 1]
    [] op = "OPIMM"   -> ArithName(f3, IF f3 \in {1, 5} THEN f7 - (f7 % 2) ELSE 0)
    [] op = "OPIMM32" -> IF f3 = 0 THEN "addw"
                       ELSE IF f3 \in {1, 5} THEN ArithWName(f3, IF f7 = 1 THEN 2 ELSE f7)
                       ELSE "none"
    [] op = "OP"      -> ArithName(f3, f7)
    [] op = "OP32"    -> ArithWName(f3, f7)
    [] op = "BRANCH"  -> <<"beq", "bne", "none", "none", "blt", "bge", "bltu", "bgeu">>[f3 + 1]
    [] op = "LUI"     -> "lui"
    [] op = "AUIPC"   -> "auipc"
    [] op = "JAL"     -> "jal"
    [] op = "JALR"    -> IF f3 = 0 THEN "jalr" ELSE "none"
    [] OTHER        -> "none"

name == Name(enc.op, enc.f3, enc.f7)

\* The value an arithmetic instruction computes from x and y, by the numbers
\* the words stand for.
Arith(n, x, y) ==
  LET sx  == Signed(x, W)
      sy  == Signed(y, W)
      wx  == Signed(Low(x, H), H)
      wrap(v) == ((v + Pow2[H - 1]) % Pow2[H]) - Pow2[H - 1]
      bits(P(_, _)) ==
        LET f[k \in 0 .. W] ==
              IF k = W THEN 0
              ELSE 2 * f[k + 1] + Flag(P(Bit(x, k) = 1, Bit(y, k) = 1))
        IN  f[0]
  IN  CASE n = "add"  -> sx + sy
        [] n = "sub"  -> sx - sy
        [] n = "sll"  -> sx * Pow2[y % W]
        [] n = "srl"  -> x \div Pow2[y % W]
        [] n = "sra"  -> sx \div Pow2[y % W]
        [] n = "slt"  -> IF sx < sy THEN 1 ELSE 0
        [] n = "sltu" -> IF x < y THEN 1 ELSE 0
        [] n = "and"  -> bits(LAMBDA p, q : p /\ q)
        [] n = "or"   -> bits(LAMBDA p, q : p \/ q)
        [] n = "xor"  -> bits(LAMBDA p, q : p # q)
        [] n = "addw" -> wrap(sx + sy)
        [] n = "subw" -> wrap(sx - sy)
        [] n = "sllw" -> wrap(sx * Pow2[y % H])
        [] n = "srlw" -> wrap(Low(x, H) \div Pow2[y % H])
        [] n = "sraw" -> wx \div Pow2[y % H]

ArithNames == {"add", "sub", "sll", "srl", "sra", "slt", "sltu", "and", "or",
               "xor", "addw", "subw", "sllw", "srlw", "sraw"}

LoadNames == {"lb", "lh", "lw", "ld", "lbu", "lhu", "lwu"}
StoreNames == {"sb", "sh", "sw", "sd"}
MulNames == {"mul", "mulw"}
DivNames == {"div", "divu", "divw", "divuw"}
RemNames == {"rem", "remu", "remw", "remuw"}
BranchNames == {"beq", "bne", "blt", "bge", "bltu", "bgeu"}

BranchTaken ==
  LET sx == Signed(rfq1, W)
      sy == Signed(rfq2, W)
  IN  CASE name = "beq"  -> sx = sy
        [] name = "bne"  -> sx # sy
        [] name = "blt"  -> sx < sy
        [] name = "bge"  -> sx >= sy
        [] name = "bltu" -> rfq1 < rfq2
        [] name = "bgeu" -> rfq1 >= rfq2

-----------------------------------------------------------------------------
ExecTypeOK ==
  /\ enc \in Encodings
  /\ m2reg \in 0 .. 7
  /\ branch \in BOOLEAN

\* Every documented single-cycle instruction writes the value its mnemonic
\* stands for, whatever the latches held: comparisons through the sign flag,
\* half-word results, shift amounts and the write-back selection included.
WritesResult ==
  /\ name \in ArithNames =>
       writeregdata = Word64(Arith(name, rfq1, IF enc.op \in {"OP", "OP32"}
                                                 THEN rfq2 ELSE immediate))
  /\ name = "lui" => writeregdata = imm
  /\ name = "auipc" => writeregdata = Word64(pc + imm)
  /\ name \in {"jal", "jalr"} => writeregdata = Word64(pc + 4)

\* Control flow goes where the mnemonic says, and to pc + 4 after every
\* instruction that is not a jump or a taken branch, the ones for which the
\* control unit does not assign branch included.
GoesTo ==
  next_pc = CASE name \in BranchNames -> Word64(IF BranchTaken THEN pc + imm ELSE pc + 4)
              [] name = "jal"  -> Word64(pc + imm)
              [] name = "jalr" -> LET t == Word64(rfq1 + imm) IN t - (t % 2)
              [] enc.op = "JALR" /\ enc.f3 # 0 -> next_pc
              [] OTHER         -> Word64(pc + 4)

\* Documented instructions reach the data bus and the units as their names
\* say: address, width and sign of a transfer; unit, signedness, width and
\* the half of the result that is written back.
DrivesUnits ==
  /\ name \in LoadNames =>
       /\ alures = Word64(rfq1 + imm)
       /\ signals.d_valid /\ ~signals.wmem /\ signals.wreg /\ m2reg = 1
       /\ name \in {"lb", "lh", "lw"} <=> signals.read_sign
       /\ name # "ld" => signals.d_byte = enc.f3 % 4
  /\ name \in StoreNames =>
       /\ alures = Word64(rfq1 + imm)
       /\ signals.d_valid /\ signals.wmem /\ ~signals.wreg
       /\ signals.d_byte = enc.f3
  /\ signals.mul_valid <=> name \in MulNames
  /\ name \in MulNames => m2reg = 4 /\ (signals.mul_w <=> name = "mulw")
  /\ name \in DivNames => signals.div_valid /\ m2reg = 5
  /\ name \in RemNames => signals.div_valid /\ m2reg = 6
  /\ name \in DivNames \cup RemNames =>
       /\ signals.div_sign <=> name \in {"div", "divw", "rem", "remw"}
       /\ signals.div_w <=> name \in {"divw", "divuw", "remw", "remuw"}
  /\ signals.mul_valid \/ (signals.div_valid /\ name # "none") =>
       alua = rfq1 /\ alub = rfq2

\* The immediate formats of RV64: <<lowest bit of the instruction, lowest
\* and highest bit of the immediate>> of each field; bits above the highest
\* field repeat instr[31], bits below the lowest are zero.
ImmFields(n, op) ==
  CASE n \in StoreNames      -> {<<7, 0, 4>>, <<25, 5, 11>>}
    [] n \in BranchNames     -> {<<8, 1, 4>>, <<25, 5, 10>>, <<7, 11, 11>>, <<31, 12, 12>>}
    [] n \in {"lui", "auipc"} -> {<<12, 12, 31>>}
    [] n = "jal"             -> {<<21, 1, 10>>, <<20, 11, 11>>, <<12, 12, 19>>, <<31, 20, 20>>}
    [] op \in {"OP", "OP32"}     -> {}
    [] OTHER                 -> {<<20, 0, 11>>}

IsConstantShift == name \in {"sll", "srl", "sra", "sllw", "srlw", "sraw"}
                   /\ enc.op \in {"OPIMM", "OPIMM32"}

\* decode puts every immediate together as the assembler took it apart: the
\* scattered fields of stores, branches and jumps in their order, the sign
\* from the top bit, and no function bits in a shift amount.
ImmediateWhole ==
  name # "none" =>
    LET fields == ImmFields(name, enc.op)
        In(f)  == f[2] .. f[3]
        bit(k) == ImmBit(enc.op, enc.f3, k)
    IN  IF IsConstantShift
          THEN \A k \in 0 .. 63 : bit(k) = IF k <= 5 THEN 20 + k ELSE NoBit
          ELSE \A k \in 0 .. 63 :
                 IF \E f \in fields : k \in In(f)
                   THEN \E f \in fields : k \in In(f) /\ bit(k) = f[1] + (k - f[2])
                   ELSE bit(k) = IF \E f \in fields : f[3] < k THEN 31 ELSE NoBit

\* Every documented encoding does what its mnemonic says: what it writes,
\* where it goes, what it asks of the bus and the units, and the immediate it
\* works on.
Executes == ExecTypeOK /\ WritesResult /\ GoesTo /\ DrivesUnits /\ ImmediateWhole

\* Documented instructions are of the kinds the processor is proved for; the
\* two other kinds are reached by undocumented encodings alone.
KindsDocumented ==
  LET k == Kind(enc.op, enc.f3, enc.f7)
  IN  /\ name # "none" =>
           k = CASE name \in LoadNames            -> "load"
                 [] name \in StoreNames           -> "store"
                 [] name \in MulNames             -> "mul"
                 [] name \in DivNames \cup RemNames -> "div"
                 [] name \in BranchNames          -> "nowrite"
                 [] OTHER                         -> "alu"
      /\ k = "m_reserved" <=> \/ enc.op = "OP" /\ enc.f7 = 1 /\ enc.f3 \in 1 .. 3
                              \/ enc.op = "OP32" /\ enc.f7 = 1 /\ enc.f3 \in 1 .. 3
      /\ k = "div_stray" <=>
           enc.op = "OP32" /\ enc.f7 # 1 /\ enc.f3 \in {4, 6, 7}
      /\ ~hasRd(enc.op) \/ enc.op \notin Opcodes <=> ~signals.wreg
=============================================================================
