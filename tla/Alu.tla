--------------------------------- MODULE Alu ---------------------------------
(***************************************************************************)
(* vsrc/src/alu.sv on words of W bits (64 in the code); the `w' operations *)
(* work on the lower half of a word and extend its sign.  A word is the    *)
(* number its bits denote.                                                 *)
(***************************************************************************)
EXTENDS Integers

CONSTANT W

ASSUME WidthAssumption == W \in {2, 4, 8, 16, 32, 64}

H == W \div 2                        \* bits of a half word

\* The powers of two, up to the number of values of a double word.
Pow2[n \in 0 .. 2 * W] == IF n = 0 THEN 1 ELSE 2 * Pow2[n - 1]

Values == 0 .. Pow2[W] - 1

\* Bit k of x, and the lowest n bits of x.
Bit(x, k) == (x \div Pow2[k]) % 2
Low(x, n) == x % Pow2[n]

\* $signed: the n-bit word x as a two's complement number.
Signed(x, n) == IF Bit(x, n - 1) = 1 THEN x - Pow2[n] ELSE x

\* {{(W - n){x[n - 1]}}, x[n - 1 : 0]}
Extend(x, n) == Signed(Low(x, n), n) % Pow2[W]

\* Truncation of a number to a word, and two's complement negation.
Word64(x) == x % Pow2[W]
Negate(x) == Word64(-x)

-----------------------------------------------------------------------------

Flag(p) == IF p THEN 1 ELSE 0

\* The word whose bit k is gate[bit k of a][bit k of b].
Bitwise(gate, a, b) ==
  LET above[k \in 0 .. W] ==
        IF k = W THEN 0 ELSE 2 * above[k + 1] + gate[Bit(a, k) + 1][Bit(b, k) + 1]
  IN  above[0]

AND == <<<<0, 0>>, <<0, 1>>>>
OR  == <<<<0, 1>>, <<1, 1>>>>
XOR == <<<<0, 1>>, <<1, 0>>>>

\* Shift amounts are b[5:0], or b[4:0] on half words.
Shamt(b) == b % W
ShamtW(b) == b % H

\* aluctrl is the name of the operation.
result(a, b, aluctrl) ==
  CASE aluctrl = "ADD"             -> Word64(a + b)
    [] aluctrl \in {"SUB", "USUB"} -> Word64(a - b)
    [] aluctrl = "AND"             -> Bitwise(AND, a, b)
    [] aluctrl = "OR"              -> Bitwise(OR, a, b)
    [] aluctrl = "XOR"             -> Bitwise(XOR, a, b)
    [] aluctrl = "SLL"             -> Word64(a * Pow2[Shamt(b)])
    [] aluctrl = "SRL"             -> a \div Pow2[Shamt(b)]
    [] aluctrl = "SLT"             -> Flag(Signed(a, W) < Signed(b, W))
    [] aluctrl = "SRA"             -> Word64(Signed(a, W) \div Pow2[Shamt(b)])
    [] aluctrl = "SLTU"            -> Flag(a < b)
    [] aluctrl = "ADDW"            -> Extend(a + b, H)
    [] aluctrl = "SUBW"            -> Extend(a - b, H)
    [] aluctrl = "SLLW"            -> Extend(a * Pow2[ShamtW(b)], H)
    [] aluctrl = "SRLW"            -> Extend(Low(a, H) \div Pow2[ShamtW(b)], H)
    [] aluctrl = "SRAW"            ->
         Word64(Signed(Extend(a, H), W) \div Pow2[ShamtW(b)])

zero(a, b, aluctrl) == result(a, b, aluctrl) = 0

\* Mutant: overflow is not looked at.
SignFlag_Plain(a, b, aluctrl) == Bit(result(a, b, aluctrl), W - 1)

\* The sign flag: of the difference when operands have equal signs, else of
\* the operand that decides; elsewhere the result's sign bit.
SF(a, b, aluctrl) ==
  LET top == W - 1
      r   == result(a, b, aluctrl)
  IN  CASE aluctrl = "SUB"    -> Bit(IF Bit(a, top) = Bit(b, top) THEN r ELSE a, top)
        [] aluctrl = "USUB"   -> Bit(IF Bit(a, top) = Bit(b, top) THEN r ELSE b, top)
        [] aluctrl \in {"ADDW", "SUBW", "SLLW", "SRLW"} -> Bit(r, H - 1)
        [] aluctrl = "SRAW"   -> Bit(a, H - 1)
        [] OTHER            -> Bit(r, top)
=============================================================================
