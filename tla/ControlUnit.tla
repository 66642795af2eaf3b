----------------------------- MODULE ControlUnit -----------------------------
(***************************************************************************)
(* vsrc/src/decode.sv and vsrc/src/controlunit.sv: what an encoding is     *)
(* taken for.  An encoding is its opcode, func3 and func7 (instr[6:0],     *)
(* instr[14:12] and instr[31:25]); control signals are a record with the   *)
(* names of the ports.                                                     *)
(*                                                                         *)
(* Two outputs are not assigned on every path and so keep the value they   *)
(* had in the evaluation before: branch in the register-register group,    *)
(* and m2reg in that group for a func7 it does not know.  Here they then   *)
(* are "hold" and HOLD.                                                    *)
(***************************************************************************)
EXTENDS Alu, Sequences


\* instr[6:0], by the name of its group: LOAD is 0000011, OPIMM 0010011,
\* AUIPC 0010111, OPIMM32 0011011, STORE 0100011, OP 0110011, LUI 0110111,
\* OP32 0111011, BRANCH 1100011, JALR 1100111 and JAL 1101111.
Opcodes == {"LOAD", "OPIMM", "AUIPC", "OPIMM32", "STORE", "OP", "LUI", "OP32",
            "BRANCH", "JALR", "JAL"}

HOLD == 8                            \* not a value of the three bits of m2reg

-----------------------------------------------------------------------------
\* decode: the func3 and func7 that the control unit is given.  Shifts by a
\* constant lose the lowest bit of func7, which belongs to the shift amount.
\* The groups without a func7 field report 127, those without func3 also 7.
IsShiftImm(op, f3) == op \in {"OPIMM", "OPIMM32"} /\ f3 \in {1, 5}

func3(op, f3) == IF op \in Opcodes \ {"AUIPC", "LUI", "JAL"} THEN f3 ELSE 7

func7(op, f3, f7) ==
  IF op \in {"OP", "OP32"} THEN f7
  ELSE IF IsShiftImm(op, f3) THEN f7 - (f7 % 2)
  ELSE 127

\* decode: which register fields are wired up (the others read as x0).
hasRd(op)  == op \in Opcodes \ {"STORE", "BRANCH"}
hasRs1(op) == op \in Opcodes \ {"AUIPC", "LUI", "JAL"}
hasRs2(op) == op \in {"STORE", "OP", "OP32", "BRANCH"}

\* decode: the bit of the instruction that bit k of sextimm is, or NoBit for
\* a constant zero.
NoBit == 32
ImmBit(op, f3, k) ==
  CASE IsShiftImm(op, f3) -> IF k <= 5 THEN 20 + k ELSE NoBit
    [] op \in {"LOAD", "OPIMM", "OPIMM32", "JALR"} /\ ~IsShiftImm(op, f3) ->
         IF k <= 10 THEN 20 + k ELSE 31
    [] op = "STORE" -> IF k <= 4 THEN 7 + k ELSE IF k <= 10 THEN 20 + k ELSE 31
    [] op = "BRANCH" -> IF k = 0 THEN NoBit
                      ELSE IF k <= 4 THEN 7 + k
                      ELSE IF k <= 10 THEN 20 + k
                      ELSE IF k = 11 THEN 7 ELSE 31
    [] op \in {"LUI", "AUIPC"} -> IF k <= 11 THEN NoBit ELSE IF k <= 31 THEN k ELSE 31
    [] op = "JAL" -> IF k = 0 THEN NoBit
                   ELSE IF k <= 10 THEN 20 + k
                   ELSE IF k = 11 THEN 20
                   ELSE IF k <= 19 THEN k ELSE 31
    [] OTHER -> NoBit

-----------------------------------------------------------------------------
\* controlunit: an opcode it does not know, and the signals cleared first.
Unknown ==
  [jump |-> 0, m2reg |-> 0, branch |-> "never", wmem |-> FALSE, aluc |-> "ADD",
   shift |-> FALSE, aluimm |-> FALSE, wreg |-> FALSE,
   d_valid |-> FALSE, d_byte |-> 0, read_sign |-> FALSE,
   mul_valid |-> FALSE, div_valid |-> FALSE,
   mul_sign |-> FALSE, div_sign |-> FALSE, mul_w |-> FALSE, div_w |-> FALSE]

CtlLoad(f3) ==
  [Unknown EXCEPT !.d_valid = TRUE, !.m2reg = 1, !.aluimm = TRUE, !.wreg = TRUE,
                  !.d_byte = <<0, 1, 2, 3, 0, 1, 2, 0>>[f3 + 1],
                  !.read_sign = f3 \in 0 .. 2]

\* Two operations told apart by func7.
ByFunc7(f7, plain, alt) == IF f7 = 0 THEN plain ELSE IF f7 = 32 THEN alt ELSE "ADD"

CtlOpImm(f3, f7) ==
  [Unknown EXCEPT !.aluimm = TRUE, !.wreg = TRUE,
                  !.aluc = <<"ADD", "SLL", "SLT", "SLTU", "XOR",
                             ByFunc7(f7, "SRL", "SRA"), "OR", "AND">>[f3 + 1]]

CtlAuipc == [Unknown EXCEPT !.shift = TRUE, !.aluimm = TRUE, !.wreg = TRUE]

CtlOpImm32(f3, f7) ==
  [Unknown EXCEPT !.aluimm = TRUE, !.wreg = TRUE,
                  !.aluc = CASE f3 = 0 -> "ADDW"
                             [] f3 = 1 -> "SLLW"
                             [] f3 = 5 -> ByFunc7(f7, "SRLW", "SRAW")
                             [] OTHER  -> "ADD"]

CtlStore(f3) ==
  [Unknown EXCEPT !.d_valid = TRUE, !.wmem = TRUE, !.aluimm = TRUE,
                  !.d_byte = IF f3 <= 3 THEN f3 ELSE 0]

\* The register-register group: branch is not assigned in any of it.
HoldBranch == [Unknown EXCEPT !.branch = "hold", !.wreg = TRUE]

CtlArith(f3) ==
  [HoldBranch EXCEPT !.aluc = <<"ADD", "SLL", "SLT", "SLTU", "XOR",
                                "SRL", "OR", "AND">>[f3 + 1]]

CtlMulDiv(f3) ==
  [HoldBranch EXCEPT !.mul_valid = (f3 = 0), !.mul_sign = (f3 = 0),
                     !.div_valid = f3 \in 4 .. 7, !.div_sign = f3 \in {4, 6},
                     !.m2reg = <<4, 0, 0, 0, 5, 5, 6, 6>>[f3 + 1]]

CtlAlt(f3) ==
  [HoldBranch EXCEPT !.aluc = IF f3 = 0 THEN "SUB" ELSE IF f3 = 5 THEN "SRA" ELSE "ADD"]

CtlOp(f3, f7) ==
  CASE f7 = 0  -> CtlArith(f3)
    [] f7 = 1  -> CtlMulDiv(f3)
    [] f7 = 32 -> CtlAlt(f3)
    [] OTHER   -> [HoldBranch EXCEPT !.m2reg = HOLD]

CtlLui == [Unknown EXCEPT !.aluimm = TRUE, !.wreg = TRUE]

\* The register-register group on half words.
CtlArithW(aluc) == [Unknown EXCEPT !.wreg = TRUE, !.aluc = aluc]

CtlMulW == [Unknown EXCEPT !.wreg = TRUE, !.mul_valid = TRUE, !.mul_sign = TRUE,
                           !.mul_w = TRUE, !.m2reg = 4]

CtlDivW(sign, sel) ==
  [Unknown EXCEPT !.wreg = TRUE, !.div_valid = TRUE, !.div_sign = sign,
                  !.div_w = TRUE, !.m2reg = sel]

\* divw, remw and remuw are recognised by func3 alone.
CtlOp32(f3, f7) ==
  CASE f3 = 0 /\ f7 = 1 -> CtlMulW
    [] f3 = 0 /\ f7 # 1 -> CtlArithW(ByFunc7(f7, "ADDW", "SUBW"))
    [] f3 = 1           -> CtlArithW("SLLW")
    [] f3 = 4           -> CtlDivW(TRUE, 5)
    [] f3 = 5 /\ f7 = 1 -> CtlDivW(FALSE, 5)
    [] f3 = 5 /\ f7 # 1 -> CtlArithW(ByFunc7(f7, "SRLW", "SRAW"))
    [] f3 = 6           -> CtlDivW(TRUE, 6)
    [] f3 = 7           -> CtlDivW(FALSE, 6)
    [] OTHER            -> CtlArithW("ADD")

CtlBranch(f3) ==
  [Unknown EXCEPT !.jump = 1,
                  !.branch = <<"zero", "nonzero", "never", "never",
                               "SF", "noSF", "SF", "noSF">>[f3 + 1],
                  !.aluc = <<"SUB", "SUB", "ADD", "ADD",
                             "SUB", "SUB", "USUB", "USUB">>[f3 + 1]]

CtlJump(jump, shift) ==
  [Unknown EXCEPT !.jump = jump, !.m2reg = 2, !.branch = "always",
                  !.shift = shift, !.aluimm = TRUE, !.wreg = TRUE]

Control(op, f3, f7) ==
  CASE op = "LOAD"    -> CtlLoad(f3)
    [] op = "OPIMM"   -> CtlOpImm(f3, f7)
    [] op = "AUIPC"   -> CtlAuipc
    [] op = "OPIMM32" -> CtlOpImm32(f3, f7)
    [] op = "STORE"   -> CtlStore(f3)
    [] op = "OP"      -> CtlOp(f3, f7)
    [] op = "LUI"     -> CtlLui
    [] op = "OP32"    -> CtlOp32(f3, f7)
    [] op = "BRANCH"  -> CtlBranch(f3)
    [] op = "JALR"    -> CtlJump(3, FALSE)
    [] op = "JAL"     -> CtlJump(2, TRUE)
    [] OTHER        -> Unknown

\* decode followed by controlunit.
Signals(op, f3, f7) == Control(op, func3(op, f3), func7(op, f3, f7))

-----------------------------------------------------------------------------
\* Mutant: half-word multiplications and divisions are not kept.
if_curr_ins_Op(op, f7) == op \in {"LOAD", "STORE"} \/ (op = "OP" /\ f7 = 1)

\* core: instructions that stay in the core for more than a cycle.
if_curr_ins(op, f7) == op \in {"LOAD", "STORE"} \/ (op \in {"OP", "OP32"} /\ f7 = 1)

\* How the core's control reacts to an encoding (the kinds of Datapath).
Kind(op, f3, f7) ==
  LET c    == Signals(op, f3, f7)
      kept == if_curr_ins(op, func7(op, f3, f7))
  IN  CASE c.d_valid             -> IF c.wmem THEN "store" ELSE "load"
        [] c.mul_valid           -> "mul"
        [] c.div_valid /\ kept   -> "div"
        [] c.div_valid /\ ~kept  -> "div_stray"
        [] OTHER                 -> IF kept THEN "m_reserved"
                                    ELSE IF c.wreg THEN "alu" ELSE "nowrite"
=============================================================================
