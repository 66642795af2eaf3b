------------------------------- MODULE MulDiv -------------------------------
(***************************************************************************)
(* vsrc/src/mul.sv and vsrc/src/div.sv, bit by bit, on words of W bits: a  *)
(* shift-and-add multiplier and a restoring divider on magnitudes, which   *)
(* step W times and fix the signs of the result combinationally.  They are *)
(* driven as core.sv drives them: valid and the operands stay up until     *)
(* done, and drop in the cycle after it.                                   *)
(***************************************************************************)
EXTENDS Alu

VARIABLES
  unit,               \* the unit in use
  valid, a, b, s, w,  \* its inputs
  u                   \* its registers: state, count, done and p

vars == <<unit, valid, a, b, s, w, u>>

\* The counter steps once per bit of a word.
INSTANCE IterUnit WITH Rounds <- W

-----------------------------------------------------------------------------
Neg(x, n) == Bit(x, n - 1) = 1

\* num1 and num2 of mul and div: magnitudes, and for `w' of the lower half.
Magnitude(x, half) ==
  LET v == IF half THEN Low(x, H) ELSE x
      n == IF half THEN H ELSE W
  IN  IF s /\ Neg(v, n) THEN Low(-v, n) ELSE v

num1 == Magnitude(a, unit = "div" /\ w)
num2 == Magnitude(b, unit = "div" /\ w)

\* mul: p[0] decides whether num2 is added to the upper half, then p shifts
\* right; the sum has a carry bit.
MulStep(p) ==
  IF p % 2 = 1
    THEN ((p \div Pow2[W]) + num2) * Pow2[W - 1] + (p % Pow2[W]) \div 2
    ELSE p \div 2

\* Mutant: num2 is not subtracted when it fits exactly.
DivStep_Greater(p) ==
  LET upper == Low(p \div Pow2[W - 1], W)
  IN  IF upper > num2
        THEN (upper - num2) * Pow2[W] + 2 * Low(p, W - 1) + 1
        ELSE Low(2 * p, 2 * W)

\* div: p shifts left, num2 is subtracted from the upper half if it fits.
\* The compared bits are p[2W - 2 : W - 1]: the topmost one is dropped.
DivStep(p) ==
  LET upper == Low(p \div Pow2[W - 1], W)
      lower == 2 * Low(p, W - 1)
  IN  IF upper >= num2
        THEN (upper - num2) * Pow2[W] + lower + 1
        ELSE Low(2 * p, 2 * W)

\* mul's result.
mulres ==
  LET temp == IF s /\ Neg(a, W) # Neg(b, W) THEN -u.p ELSE u.p
  IN  IF w THEN Extend(temp, H) ELSE Word64(temp)

\* div's result: remainder and quotient, as the unsigned run left them and
\* with the signs fixed.
rem == u.p \div Pow2[W]
quo == Low(u.p, W)

divres ==
  IF w THEN
    IF s /\ Neg(a, H) /\ num2 = 0            THEN <<Negate(rem), quo>>
    ELSE IF s /\ Neg(a, H) /\ ~Neg(b, H)     THEN <<Negate(rem), Negate(quo)>>
    ELSE IF s /\ ~Neg(a, H) /\ Neg(b, H)     THEN <<rem, Negate(quo)>>
    ELSE IF s /\ Neg(a, H) /\ Neg(b, H)      THEN <<Negate(rem), Extend(quo, H)>>
    ELSE <<Extend(rem, H), Extend(quo, H)>>
  ELSE
    IF s /\ Neg(a, W) /\ b = 0               THEN <<Negate(rem), quo>>
    ELSE IF s /\ Neg(a, W) /\ ~Neg(b, W)     THEN <<Negate(rem), Negate(quo)>>
    ELSE IF s /\ ~Neg(a, W) /\ Neg(b, W)     THEN <<rem, Negate(quo)>>
    ELSE IF s /\ Neg(a, W) /\ Neg(b, W)      THEN <<Negate(rem), quo>>
    ELSE <<rem, quo>>

-----------------------------------------------------------------------------
\* The clocked block of the unit.
UnitClock ==
  u' = UnitNext(u, valid, num1, IF unit = "mul" THEN MulStep(u.p) ELSE DivStep(u.p))

Init ==
  /\ unit \in {"mul", "div"}
  /\ valid = FALSE
  /\ a = 0
  /\ b = 0
  /\ s = FALSE
  /\ w = FALSE
  /\ u = UnitInit(0)

\* An instruction of the unit reaches the core.  The control unit asks for
\* signed multiplications only.
Issue ==
  /\ ~valid
  /\ valid' = TRUE
  /\ a' \in Values
  /\ b' \in Values
  /\ s' \in IF unit = "mul" THEN {TRUE} ELSE BOOLEAN
  /\ w' \in BOOLEAN
  /\ unit' = unit

\* It stays until done.
Work ==
  /\ valid
  /\ ~u.done
  /\ UNCHANGED <<unit, valid, a, b, s, w>>

\* It retires.
Retire ==
  /\ valid
  /\ u.done
  /\ valid' = FALSE
  /\ a' = 0
  /\ b' = 0
  /\ s' = FALSE
  /\ w' = FALSE
  /\ unit' = unit

Clock ==
  /\ UnitClock
  /\ Issue \/ Work \/ Retire

Next == Clock

Spec == Init /\ [][Next]_vars /\ WF_vars(Clock)

-----------------------------------------------------------------------------
TypeOK ==
  /\ unit \in {"mul", "div"}
  /\ valid \in BOOLEAN
  /\ a \in Values
  /\ b \in Values
  /\ s \in BOOLEAN
  /\ w \in BOOLEAN
  /\ u \in UnitState(0 .. Pow2[2 * W] - 1)

\* The numbers the operands stand for, and a number as a word.
Num(x) == LET n == IF w THEN H ELSE W
          IN  IF s THEN Signed(Low(x, n), n) ELSE Low(x, n)
AsWord(x) == IF w THEN Extend(x, H) ELSE Word64(x)

Abs(x) == IF x < 0 THEN -x ELSE x
Sign(x) == IF x < 0 THEN -1 ELSE 1

\* RV64M: division truncates towards zero, the remainder has the sign of the
\* dividend; a division by zero yields all ones and the dividend.
Quotient(x, y) == IF y = 0 THEN -1 ELSE Sign(x) * Sign(y) * (Abs(x) \div Abs(y))
Remainder(x, y) == IF y = 0 THEN x ELSE Sign(x) * (Abs(x) % Abs(y))

\* When done rises, the multiplier's output is the product (mul.sv 15-16:
\* `the output is valid at the rising edge of done ... c = a * b'), of all
\* signs and for mulw of the lower halves although whole words go through.
MulRight == unit = "mul" /\ u.done => mulres = AsWord(Num(a) * Num(b))

\* When done rises, the divider's output is { a % b, a / b } (div.sv 18) with
\* RV64M's answers for a zero divisor and for the one quotient that does not
\* fit.
DivRight ==
  unit = "div" /\ u.done =>
    divres = <<AsWord(Remainder(Num(a), Num(b))), AsWord(Quotient(Num(a), Num(b)))>>

\* Midway through a division nothing is lost: what has been read of the
\* dividend is quotient times divisor plus a remainder below the divisor, so
\* the bit that the shift drops is zero, also for divisors in the upper half
\* of the range.
NothingLost ==
  unit = "div" /\ valid /\ u.state = 1 /\ u.count > 0 =>
    LET n == u.count - 1
        q == Low(u.p, n)
    IN  /\ num1 \div Pow2[W - n] = q * num2 + rem \/ num2 = 0
        /\ rem < num2 \/ num2 = 0
        /\ n < W => rem < Pow2[W - 1]

\* What holds of both units in every cycle.
UnitsRight == TypeOK /\ MulRight /\ DivRight /\ NothingLost

\* A unit that is asked answers, and a second run that it starts on its own
\* in the cycle of done never delays or corrupts the next.
Answers == valid ~> u.done
=============================================================================
