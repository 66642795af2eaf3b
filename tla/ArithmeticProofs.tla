--------------------------- MODULE ArithmeticProofs ---------------------------
(***************************************************************************)
(* The parts of the data path that compute.  On words of up to 64 bits:    *)
(* the multiplier computes products and the divider quotients and          *)
(* remainders (UnitsRight); from decode to write-back every instruction    *)
(* does what its mnemonic stands for (Executes), and no other encoding is  *)
(* taken for one (KindsDocumented).  On words of one to eight bytes and    *)
(* any set of byte values: loads and stores of all sizes implement a row   *)
(* of bytes (SeesBytes).                                                   *)
(***************************************************************************)
EXTENDS MCArithmetic, WellFoundedInduction, TLAPS

-----------------------------------------------------------------------------
(***************************************************************************)
(* Powers of two.                                                          *)
(***************************************************************************)
\* Induction over the natural numbers, for a set.
LEMMA SetInduction ==
  ASSUME NEW T, T \subseteq Nat, 0 \in T, \A n \in T : n + 1 \in T
  PROVE  \A n \in Nat : n \in T
  <1> SUFFICES ASSUME Nat \ T # {} PROVE FALSE
    OBVIOUS
  <1>1. PICK x \in Nat \ T : \A y \in Nat \ T : ~(<<y, x>> \in OpToRel(<, Nat))
    <2>1. IsWellFoundedOn(OpToRel(<, Nat), Nat)
      BY NatLessThanWellFounded
    <2> QED
      BY <2>1, WFMin
  <1>2. x - 1 \in Nat \ T
    <2>1. x # 0 /\ x \in Nat
      OBVIOUS
    <2>2. x - 1 \in Nat /\ (x - 1) + 1 = x
      BY <2>1
    <2> QED
      BY <2>2
  <1>3. <<x - 1, x>> \in OpToRel(<, Nat)
    BY <1>2 DEF OpToRel
  <1> QED
    BY <1>1, <1>2, <1>3

\* g[n] is the nth power of two, up to n = m.
ArePowers(g, m) == g = [n \in 0 .. m |-> IF n = 0 THEN 1 ELSE 2 * g[n - 1]]

LEMMA PowersExist == \A m \in Nat : \E g : ArePowers(g, m)
  <1> DEFINE T == {m \in Nat : \E g : ArePowers(g, m)}
  <1>1. 0 \in T
    <2> DEFINE g == [n \in 0 .. 0 |-> 1]
    <2>1. g = [n \in 0 .. 0 |-> IF n = 0 THEN 1 ELSE 2 * g[n - 1]]
      OBVIOUS
    <2> QED
      BY <2>1 DEF ArePowers
  <1>2. ASSUME NEW m \in T
        PROVE  m + 1 \in T
    <2>1. PICK g : ArePowers(g, m)
      OBVIOUS
    <2> DEFINE f == [n \in 0 .. m + 1 |-> IF n = m + 1 THEN 2 * g[m] ELSE g[n]]
    <2>2. \A n \in 0 .. m : g[n] = IF n = 0 THEN 1 ELSE 2 * g[n - 1]
      BY <2>1 DEF ArePowers
    <2>3. \A n \in 0 .. m + 1 : f[n] = IF n = 0 THEN 1 ELSE 2 * f[n - 1]
      <3> SUFFICES ASSUME NEW n \in 0 .. m + 1
                   PROVE  f[n] = IF n = 0 THEN 1 ELSE 2 * f[n - 1]
        OBVIOUS
      <3>1. CASE n = m + 1
        <4>1. n # 0 /\ n - 1 = m /\ m \in 0 .. m + 1 /\ m # m + 1
          BY <3>1
        <4>2. f[n] = 2 * g[m] /\ f[m] = g[m]
          BY <3>1, <4>1
        <4> QED
          BY <4>1, <4>2
      <3>2. CASE n # m + 1
        <4>1. n \in 0 .. m
          BY <3>2
        <4>2. f[n] = g[n]
          BY <3>2
        <4>3. n # 0 => n - 1 \in 0 .. m + 1 /\ n - 1 # m + 1
          BY <4>1
        <4>4. n # 0 => f[n - 1] = g[n - 1]
          BY <4>3
        <4> HIDE DEF f
        <4> QED
          BY <2>2, <4>1, <4>2, <4>4
      <3> QED
        BY <3>1, <3>2
    <2>4. f = [n \in 0 .. m + 1 |-> f[n]]
      OBVIOUS
    <2> HIDE DEF f
    <2>5. f = [n \in 0 .. m + 1 |-> IF n = 0 THEN 1 ELSE 2 * f[n - 1]]
      BY <2>3, <2>4
    <2>6. ArePowers(f, m + 1)
      BY <2>5 DEF ArePowers
    <2> QED
      BY <2>6
  <1> HIDE DEF T
  <1>3. T \subseteq Nat
    BY DEF T
  <1>4. \A m \in Nat : m \in T
    BY <1>1, <1>2, <1>3, SetInduction
  <1> QED
    BY <1>4 DEF T

LEMMA WidthIs == W \in Nat /\ W >= 2 /\ W <= 64 /\ H \in Nat /\ W = 2 * H /\ H >= 1
  BY WidthAssumption DEF H

LEMMA PowDef ==
  /\ Pow2[0] = 1
  /\ \A n \in 0 .. 2 * W - 1 : Pow2[n + 1] = 2 * Pow2[n]
  <1>1. 2 * W \in Nat
    BY WidthIs
  <1>2. \E g : ArePowers(g, 2 * W)
    BY <1>1, PowersExist
  <1>3. ArePowers(Pow2, 2 * W)
    <2>1. Pow2 = CHOOSE g : ArePowers(g, 2 * W)
      BY DEF Pow2, ArePowers
    <2> QED
      BY <1>2, <2>1
  <1>4. \A n \in 0 .. 2 * W : Pow2[n] = IF n = 0 THEN 1 ELSE 2 * Pow2[n - 1]
    BY <1>3 DEF ArePowers
  <1>5. Pow2[0] = 1
    BY <1>1, <1>4
  <1>6. ASSUME NEW n \in 0 .. 2 * W - 1
        PROVE  Pow2[n + 1] = 2 * Pow2[n]
    <2>1. n + 1 \in 0 .. 2 * W /\ n + 1 # 0 /\ (n + 1) - 1 = n
      BY <1>1
    <2> QED
      BY <1>4, <2>1
  <1> QED
    BY <1>5, <1>6

LEMMA PowType == \A n \in 0 .. 2 * W : Pow2[n] \in Nat \ {0}
  <1> DEFINE T == {n \in Nat : n \in 0 .. 2 * W => Pow2[n] \in Nat \ {0}}
  <1>0. W \in Nat
    BY WidthIs
  <1>1. 0 \in T
    BY PowDef
  <1>2. ASSUME NEW n \in T
        PROVE  n + 1 \in T
    <2>1. n \in Nat /\ n + 1 \in Nat
      OBVIOUS
    <2>2. ASSUME n + 1 \in 0 .. 2 * W
          PROVE  Pow2[n + 1] \in Nat \ {0}
      <3>1. n \in 0 .. 2 * W /\ n \in 0 .. 2 * W - 1
        BY <1>0, <2>1, <2>2
      <3>2. Pow2[n] \in Nat \ {0}
        BY <3>1
      <3>3. Pow2[n + 1] = 2 * Pow2[n]
        BY <3>1, PowDef
      <3> QED
        BY <3>2, <3>3
    <2> QED
      BY <2>1, <2>2
  <1> HIDE DEF T
  <1>3. T \subseteq Nat
    BY DEF T
  <1>4. \A n \in Nat : n \in T
    BY <1>1, <1>2, <1>3, SetInduction
  <1> QED
    BY <1>0, <1>4 DEF T

LEMMA PowNext ==
  ASSUME NEW n \in 0 .. 2 * W - 1
  PROVE  /\ Pow2[n] \in Nat \ {0}
         /\ Pow2[n + 1] \in Nat \ {0}
         /\ Pow2[n + 1] = 2 * Pow2[n]
  <1>1. n \in 0 .. 2 * W /\ n + 1 \in 0 .. 2 * W
    BY WidthIs
  <1> QED
    BY <1>1, PowDef, PowType

LEMMA PowSum ==
  ASSUME NEW m \in Nat, NEW n \in Nat, m + n <= 2 * W
  PROVE  /\ Pow2[m] \in Nat \ {0}
         /\ Pow2[n] \in Nat \ {0}
         /\ Pow2[m + n] = Pow2[m] * Pow2[n]
  <1> DEFINE T == {k \in Nat : m + k <= 2 * W => Pow2[m + k] = Pow2[m] * Pow2[k]}
  <1>0. W \in Nat
    BY WidthIs
  <1>1. 0 \in T
    <2>1. m \in 0 .. 2 * W /\ m + 0 = m
      BY <1>0
    <2>2. Pow2[m] \in Nat
      BY <2>1, PowType
    <2> QED
      BY <2>1, <2>2, PowDef
  <1>2. ASSUME NEW k \in T
        PROVE  k + 1 \in T
    <2>1. k \in Nat /\ k + 1 \in Nat
      OBVIOUS
    <2>2. ASSUME m + (k + 1) <= 2 * W
          PROVE  Pow2[m + (k + 1)] = Pow2[m] * Pow2[k + 1]
      <3>1. /\ m + k <= 2 * W
            /\ m + k \in 0 .. 2 * W - 1
            /\ k \in 0 .. 2 * W - 1
            /\ m \in 0 .. 2 * W
            /\ m + (k + 1) = (m + k) + 1
        BY <1>0, <2>1, <2>2
      <3>2. Pow2[m + k] = Pow2[m] * Pow2[k]
        BY <3>1
      <3>3. Pow2[m + (k + 1)] = 2 * Pow2[m + k] /\ Pow2[k + 1] = 2 * Pow2[k]
        BY <3>1, PowDef
      <3>4. Pow2[m] \in Nat /\ Pow2[k] \in Nat
        <4>1. k \in 0 .. 2 * W
          BY <1>0, <3>1
        <4> QED
          BY <3>1, <4>1, PowType
      <3> QED
        BY <3>2, <3>3, <3>4
    <2> QED
      BY <2>1, <2>2
  <1> HIDE DEF T
  <1>3. T \subseteq Nat
    BY DEF T
  <1>4. n \in T
    BY <1>1, <1>2, <1>3, SetInduction
  <1>5. m \in 0 .. 2 * W /\ n \in 0 .. 2 * W
    BY <1>0
  <1> QED
    BY <1>4, <1>5, PowType DEF T

-----------------------------------------------------------------------------
(***************************************************************************)
(* Division with a remainder.                                              *)
(***************************************************************************)
LEMMA DivMod ==
  ASSUME NEW x \in Int, NEW d \in Nat \ {0}
  PROVE  /\ x \div d \in Int
         /\ x % d \in 0 .. d - 1
         /\ x % d \in Nat
         /\ x = d * (x \div d) + (x % d)
  OBVIOUS

LEMMA Monotone ==
  ASSUME NEW d \in Nat \ {0}, NEW m \in Int, NEW n \in Int, m < n
  PROVE  d * n >= d * m + d
  <1>1. PICK k \in Nat : n = m + 1 + k
    <2>1. n - m - 1 \in Nat
      OBVIOUS
    <2> QED
      BY <2>1, n = m + 1 + (n - m - 1)
  <1>2. d * n = d * m + d + d * k
    BY <1>1
  <1>3. d * k \in Nat
    BY <1>1
  <1> QED
    BY <1>2, <1>3

LEMMA ModIs ==
  ASSUME NEW d \in Nat \ {0}, NEW q \in Int, NEW r \in 0 .. d - 1
  PROVE  /\ (d * q + r) % d = r
         /\ (d * q + r) \div d = q
  <1> DEFINE x == d * q + r
  <1>1. x \in Int
    OBVIOUS
  <1>2. /\ x \div d \in Int
        /\ x % d \in 0 .. d - 1
        /\ x = d * (x \div d) + (x % d)
    BY <1>1, DivMod
  <1> HIDE DEF x
  <1>3. CASE q < x \div d
    <2>1. d * (x \div d) >= d * q + d
      BY <1>2, <1>3, Monotone
    <2> QED
      BY <1>2, <2>1 DEF x
  <1>4. CASE x \div d < q
    <2>1. d * q >= d * (x \div d) + d
      BY <1>2, <1>4, Monotone
    <2> QED
      BY <1>2, <2>1 DEF x
  <1>5. CASE x \div d = q
    BY <1>2, <1>5 DEF x
  <1> QED
    BY <1>2, <1>3, <1>4, <1>5 DEF x

\* The same with the sum named.
LEMMA DivIs ==
  ASSUME NEW x, NEW d \in Nat \ {0}, NEW q \in Int, NEW r \in 0 .. d - 1, x = d * q + r
  PROVE  x % d = r /\ x \div d = q
  BY ModIs

LEMMA Small ==
  ASSUME NEW d \in Nat \ {0}, NEW x \in 0 .. d - 1
  PROVE  x % d = x /\ x \div d = 0
  BY DivIs, x = d * 0 + x

\* Numbers a multiple of d apart have the same remainder.
LEMMA Congruent ==
  ASSUME NEW d \in Nat \ {0}, NEW x \in Int, NEW y \in Int, NEW k \in Int, x - y = d * k
  PROVE  x % d = y % d
  <1> DEFINE q == y \div d
             r == y % d
  <1>1. q \in Int /\ r \in 0 .. d - 1 /\ y = d * q + r
    BY DivMod
  <1> HIDE DEF q, r
  <1>2. x = d * (q + k) + r
    BY <1>1
  <1>3. q + k \in Int
    BY <1>1
  <1>4. x % d = r
    BY <1>1, <1>2, <1>3, DivIs
  <1> QED
    BY <1>4 DEF r

\* ... and conversely.
LEMMA Apart ==
  ASSUME NEW d \in Nat \ {0}, NEW x \in Int, NEW y \in Int, x % d = y % d
  PROVE  \E k \in Int : x - y = d * k
  <1> DEFINE p == x \div d
             q == y \div d
             r == y % d
  <1>1. p \in Int /\ q \in Int /\ r \in Int /\ x = d * p + r /\ y = d * q + r
    BY DivMod
  <1> HIDE DEF p, q, r
  <1>2. x - y = d * (p - q) /\ p - q \in Int
    BY <1>1
  <1> QED
    BY <1>2

\* The bit above the lowest n.
LEMMA SplitBit ==
  ASSUME NEW x \in Int, NEW n \in 0 .. 2 * W - 1
  PROVE  /\ Bit(x, n) \in 0 .. 1
         /\ x \div Pow2[n] = 2 * (x \div Pow2[n + 1]) + Bit(x, n)
         /\ Low(x, n + 1) = Pow2[n] * Bit(x, n) + Low(x, n)
  <1> DEFINE d == Pow2[n]
             q == x \div d
             r == x % d
             t == q % 2
             h == q \div 2
  <1>1. d \in Nat \ {0} /\ Pow2[n + 1] = 2 * d /\ Pow2[n + 1] \in Nat \ {0}
    BY PowNext
  <1> HIDE DEF d
  <1>2. q \in Int /\ r \in 0 .. d - 1 /\ x = d * q + r
    BY <1>1, DivMod
  <1> HIDE DEF q, r
  <1>3. h \in Int /\ t \in 0 .. 1 /\ q = 2 * h + t
    BY <1>2
  <1> HIDE DEF h, t
  <1>4. x = (2 * d) * h + (d * t + r)
    <2>1. x = d * (2 * h + t) + r
      BY <1>2, <1>3
    <2> QED
      BY <1>1, <1>2, <1>3, <2>1
  <1>5. d * t + r \in 0 .. 2 * d - 1
    <2>1. t = 0 \/ t = 1
      BY <1>3
    <2> QED
      BY <1>1, <1>2, <2>1
  <1>6. x % Pow2[n + 1] = d * t + r /\ x \div Pow2[n + 1] = h
    <2>1. x = Pow2[n + 1] * h + (d * t + r) /\ d * t + r \in 0 .. Pow2[n + 1] - 1
      BY <1>1, <1>4, <1>5
    <2> QED
      BY <1>1, <1>3, <2>1, DivIs
  <1>7. Bit(x, n) = t
    BY DEF Bit, t, q, d
  <1>8. Low(x, n) = r
    BY DEF Low, r, d
  <1>9. x \div Pow2[n] = q
    BY DEF q, d
  <1>10. Low(x, n + 1) = d * t + r
    BY <1>6 DEF Low
  <1>11. d = Pow2[n]
    BY DEF d
  <1>12. x \div Pow2[n] = 2 * (x \div Pow2[n + 1]) + Bit(x, n)
    BY <1>3, <1>6, <1>7, <1>9
  <1> QED
    BY <1>3, <1>7, <1>8, <1>10, <1>11, <1>12

LEMMA LowType ==
  ASSUME NEW x \in Int, NEW n \in 0 .. 2 * W
  PROVE  Low(x, n) \in 0 .. Pow2[n] - 1 /\ Low(x, n) \in Nat
  BY PowType, DivMod DEF Low

LEMMA LowSmall ==
  ASSUME NEW n \in 0 .. 2 * W, NEW x \in 0 .. Pow2[n] - 1
  PROVE  Low(x, n) = x
  BY PowType, Small DEF Low

-----------------------------------------------------------------------------
(***************************************************************************)
(* The two units: what has been computed after n of the W steps.           *)
(***************************************************************************)
\* The lowest n bits of num1 have been multiplied; the others are yet to be
\* looked at.
Multiplied(p, n) ==
  p = Pow2[W - n] * (num2 * Low(num1, n)) + (num1 \div Pow2[n])

\* The topmost n bits of num1 have been divided, with quotient q (all ones
\* for a zero divisor) and remainder r; the others lie between the two.
Divided(p, n, q, r) ==
  /\ q \in 0 .. Pow2[n] - 1
  /\ r \in Nat
  /\ p = Pow2[W] * r + (Pow2[n] * Low(num1, W - n) + q)
  /\ num1 \div Pow2[W - n] = q * num2 + r
  /\ IF num2 = 0 THEN q = Pow2[n] - 1 ELSE r < num2

SoFar(p, n) == IF unit = "mul" THEN Multiplied(p, n)
               ELSE Divided(p, n, Low(p, n), p \div Pow2[W])

\* A run that the operands of an instruction started is that far.
UnitsInv ==
  /\ TypeOK
  /\ u.state = 1 => ~u.done /\ u.count <= W + 1
  /\ u.done => valid
  /\ valid /\ u.state = 1 /\ u.count > 0 => SoFar(u.p, u.count - 1)
  /\ u.done => SoFar(u.p, W)

LEMMA PowWidth ==
  /\ Pow2[W] \in Nat \ {0}
  /\ Pow2[W - 1] \in Nat \ {0}
  /\ Pow2[W] = 2 * Pow2[W - 1]
  /\ Pow2[2 * W] = Pow2[W] * Pow2[W]
  <1>1. W - 1 \in 0 .. 2 * W - 1 /\ (W - 1) + 1 = W /\ W + W = 2 * W /\ W \in Nat
    BY WidthIs
  <1>2. Pow2[W - 1] \in Nat \ {0} /\ Pow2[W] \in Nat \ {0} /\ Pow2[W] = 2 * Pow2[W - 1]
    BY <1>1, PowNext
  <1>3. Pow2[W + W] = Pow2[W] * Pow2[W]
    <2>1. W + W <= 2 * W
      BY <1>1
    <2> QED
      BY <1>1, <2>1, PowSum
  <1> QED
    BY <1>1, <1>2, <1>3

\* Both magnitudes are words.
LEMMA MagnitudeType ==
  ASSUME NEW x \in Values, NEW half \in BOOLEAN
  PROVE  Magnitude(x, half) \in Values
  <1>1. /\ W \in 0 .. 2 * W /\ H \in 0 .. 2 * W /\ Values = 0 .. Pow2[W] - 1
        /\ W \in Nat /\ H \in Nat /\ H + H = W
    BY WidthIs DEF Values
  <1>2. x \in Int /\ -x \in Int
    BY <1>1, PowWidth
  <1>3. Pow2[H] \in Nat \ {0} /\ Pow2[H] <= Pow2[W]
    <2>1. H + H <= 2 * W
      BY WidthIs
    <2>2. Pow2[H] \in Nat \ {0} /\ Pow2[W] = Pow2[H] * Pow2[H]
      BY <1>1, <2>1, PowSum
    <2> QED
      BY <2>2
  <1>4. \A y \in Int : Low(y, H) \in Values /\ Low(y, W) \in Values
    <2> TAKE y \in Int
    <2>1. Low(y, H) \in 0 .. Pow2[H] - 1 /\ Low(y, W) \in 0 .. Pow2[W] - 1
      BY <1>1, LowType
    <2>2. Low(y, H) \in 0 .. Pow2[W] - 1
      <3> DEFINE v == Low(y, H)
      <3> HIDE DEF v
      <3>1. v \in 0 .. Pow2[H] - 1
        BY <2>1 DEF v
      <3>2. v \in 0 .. Pow2[W] - 1
        BY <1>3, <3>1, PowWidth
      <3> QED
        BY <3>2 DEF v
    <2> QED
      BY <1>1, <2>1, <2>2
  <1>5. \A y \in Values : -y \in Int
    BY <1>1, PowWidth
  <1> QED
    BY <1>2, <1>4, <1>5 DEF Magnitude

LEMMA NumType ==
  ASSUME TypeOK
  PROVE  /\ num1 \in Values /\ num1 \in Nat /\ num1 < Pow2[W]
         /\ num2 \in Values /\ num2 \in Nat /\ num2 < Pow2[W]
  <1>1. \A x \in Values : x \in Nat /\ x < Pow2[W]
    BY PowWidth DEF Values
  <1>2. num1 \in Values
    <2>1. a \in Values /\ (unit = "div" /\ w) \in BOOLEAN
      BY DEF TypeOK
    <2> QED
      BY <2>1, MagnitudeType DEF num1
  <1>3. num2 \in Values
    <2>1. b \in Values /\ (unit = "div" /\ w) \in BOOLEAN
      BY DEF TypeOK
    <2> QED
      BY <2>1, MagnitudeType DEF num2
  <1> QED
    BY <1>1, <1>2, <1>3

\* A step of the multiplier takes the next bit of num1 into the product.
LEMMA MulForward ==
  ASSUME TypeOK, NEW p, NEW n \in 0 .. W - 1, Multiplied(p, n)
  PROVE  Multiplied(MulStep(p), n + 1)
  <1> DEFINE P == Pow2[W]
             Q == Pow2[W - 1]
             D == Pow2[n]
             K == Pow2[W - (n + 1)]
             B == num2
             L == Low(num1, n)
             t == Bit(num1, n)
             A == num1 \div Pow2[n + 1]
  <1>1. /\ n \in 0 .. 2 * W - 1
        /\ W - (n + 1) \in 0 .. 2 * W - 1 /\ (W - (n + 1)) + 1 = W - n
        /\ W - (n + 1) \in Nat /\ n \in Nat
        /\ (W - (n + 1)) + n = W - 1 /\ W - 1 <= 2 * W
        /\ n \in 0 .. 2 * W
    BY WidthIs
  <1>2. num1 \in Int /\ num1 \in Nat /\ num2 \in Nat
    BY NumType
  <1>3. P \in Nat \ {0} /\ Q \in Nat \ {0} /\ P = 2 * Q
    BY PowWidth
  <1>4. K \in Nat \ {0} /\ Pow2[W - n] = 2 * K
    <2>1. Pow2[W - (n + 1)] \in Nat \ {0}
          /\ Pow2[(W - (n + 1)) + 1] = 2 * Pow2[W - (n + 1)]
      BY <1>1, PowNext
    <2> QED
      BY <1>1, <2>1
  <1>5. D \in Nat \ {0} /\ Q = K * D
    <2>1. /\ Pow2[n] \in Nat \ {0}
          /\ Pow2[(W - (n + 1)) + n] = Pow2[W - (n + 1)] * Pow2[n]
      BY <1>1, PowSum
    <2> QED
      BY <1>1, <2>1
  <1>6. /\ t \in 0 .. 1
        /\ num1 \div Pow2[n] = 2 * A + t
        /\ Low(num1, n + 1) = D * t + L
    BY <1>1, <1>2, SplitBit
  <1>7. L \in Nat
    BY <1>1, <1>2, LowType
  <1>8. A \in Int
    <2>1. Pow2[n + 1] \in Nat \ {0}
      BY <1>1, PowNext
    <2> QED
      BY <1>2, <2>1, DivMod
  <1>9. p = (2 * K) * (B * L) + (2 * A + t)
    BY <1>4, <1>6 DEF Multiplied
  <1>10. MulStep(p) = IF p % 2 = 1 THEN ((p \div P) + B) * Q + ((p % P) \div 2)
                      ELSE p \div 2
    BY DEF MulStep
  <1>11. Multiplied(MulStep(p), n + 1) <=> MulStep(p) = K * (B * (D * t + L)) + A
    BY <1>6 DEF Multiplied
  <1>12. B \in Nat
    BY <1>2
  <1> HIDE DEF P, Q, D, K, B, L, t, A
  <1> DEFINE X == B * L
             h == K * X + A
  <1>13. X \in Nat /\ h \in Int
    BY <1>4, <1>7, <1>8, <1>12
  <1>14. p = 2 * h + t
    <2>1. (2 * K) * X = 2 * (K * X)
      BY <1>4, <1>13
    <2> HIDE DEF X
    <2> QED
      BY <1>4, <1>6, <1>8, <1>9, <1>13, <2>1 DEF X
  <1> HIDE DEF h
  <1>15. p % 2 = t /\ p \div 2 = h /\ p \in Int
    <2>1. 2 \in Nat \ {0} /\ t \in 0 .. 2 - 1
      BY <1>6
    <2>2. p % 2 = t /\ p \div 2 = h
      BY <1>13, <1>14, <2>1, DivIs
    <2> QED
      BY <1>6, <1>13, <1>14, <2>2
  <1>16. CASE t = 0
    <2>1. MulStep(p) = h
      BY <1>10, <1>15, <1>16
    <2>2. D * t + L = L
      BY <1>5, <1>7, <1>16
    <2>3. MulStep(p) = K * (B * (D * t + L)) + A
      BY <2>1, <2>2 DEF h, X
    <2> QED
      BY <1>11, <2>3
  <1>17. CASE t = 1
    <2> DEFINE e == p \div P
               f == p % P
               g == f \div 2
               c == f % 2
    <2>1. e \in Int /\ f \in Nat /\ p = P * e + f
      BY <1>3, <1>15, DivMod
    <2>2. MulStep(p) = (e + B) * Q + g
      BY <1>10, <1>15, <1>17
    <2> HIDE DEF e, f
    <2>3. g \in Int /\ c \in 0 .. 1 /\ f = 2 * g + c
      BY <2>1
    <2> HIDE DEF g, c
    <2>4. p = 2 * (Q * e + g) + c
      BY <1>3, <2>1, <2>3
    <2>5. Q * e + g = h
      <3>1. Q * e + g \in Int /\ 2 \in Nat \ {0} /\ c \in 0 .. 2 - 1
        BY <1>3, <2>1, <2>3
      <3>2. p \div 2 = Q * e + g
        BY <2>4, <3>1, DivIs
      <3> QED
        BY <1>15, <3>2
    <2>6. MulStep(p) = h + B * Q
      BY <1>3, <1>12, <2>1, <2>2, <2>3, <2>5
    <2>7. B * Q = K * (B * D)
      BY <1>4, <1>5, <1>12
    <2>8. K * (B * (D * t + L)) = K * (B * D) + K * (B * L)
      BY <1>4, <1>5, <1>7, <1>12, <1>17
    <2>9. MulStep(p) = K * (B * (D * t + L)) + A
      <3> DEFINE y == K * (B * D)
                 z == K * X
      <3>1. y \in Int /\ z \in Int
        BY <1>4, <1>5, <1>12, <1>13
      <3>2. h = z + A
        BY DEF h
      <3>3. K * (B * (D * t + L)) = y + z
        BY <2>8 DEF X
      <3> HIDE DEF y, z
      <3>4. MulStep(p) = h + y
        BY <2>6, <2>7 DEF y
      <3> QED
        BY <1>8, <3>1, <3>2, <3>3, <3>4
    <2> QED
      BY <1>11, <2>9
  <1> QED
    BY <1>6, <1>16, <1>17

LEMMA MulStart == ASSUME TypeOK PROVE Multiplied(num1, 0)
  <1>1. num1 \in Nat /\ num2 \in Nat
    BY NumType
  <1>2. Pow2[0] = 1 /\ Pow2[W] \in Nat
    BY PowDef, PowWidth
  <1>3. Low(num1, 0) = 0 /\ num1 \div Pow2[0] = num1
    BY <1>1, <1>2 DEF Low
  <1>4. W - 0 = W
    BY WidthIs
  <1>5. Pow2[W] * (num2 * 0) + num1 = num1
    BY <1>1, <1>2
  <1> QED
    BY <1>3, <1>4, <1>5 DEF Multiplied

\* In the end p is the product of the magnitudes.
LEMMA MulEnd == ASSUME TypeOK, Multiplied(u.p, W) PROVE u.p = num1 * num2
  <1>1. num1 \in Nat /\ num2 \in Nat /\ num1 \in 0 .. Pow2[W] - 1 /\ Pow2[W] \in Nat \ {0}
    BY NumType, PowWidth DEF Values
  <1>2. W - W = 0 /\ Pow2[0] = 1 /\ W \in 0 .. 2 * W
    BY PowDef, WidthIs
  <1>3. Low(num1, W) = num1 /\ num1 \div Pow2[W] = 0
    BY <1>1, <1>2, LowSmall, Small
  <1> QED
    BY <1>1, <1>2, <1>3 DEF Multiplied

\* The quotient and the remainder so far can be read off p.
LEMMA DividedParts ==
  ASSUME TypeOK, NEW p, NEW n \in 0 .. W, NEW q, NEW r, Divided(p, n, q, r)
  PROVE  /\ q = Low(p, n) /\ r = p \div Pow2[W]
         /\ p \in Int
         /\ Pow2[n] * Low(num1, W - n) + q \in 0 .. Pow2[W] - 1
  <1> DEFINE P == Pow2[W]
             D == Pow2[n]
             M == Pow2[W - n]
             L == Low(num1, W - n)
  <1>1. W - n \in Nat /\ n \in Nat /\ (W - n) + n = W /\ W <= 2 * W /\ W - n \in 0 .. 2 * W
    BY WidthIs
  <1>2. M \in Nat \ {0} /\ D \in Nat \ {0} /\ P = M * D
    <2>1. /\ Pow2[W - n] \in Nat \ {0} /\ Pow2[n] \in Nat \ {0}
          /\ Pow2[(W - n) + n] = Pow2[W - n] * Pow2[n]
      BY <1>1, PowSum
    <2> QED
      BY <1>1, <2>1
  <1>3. L \in 0 .. M - 1
    <2>1. num1 \in Int
      BY NumType
    <2> QED
      BY <1>1, <2>1, LowType
  <1>4. q \in 0 .. D - 1 /\ r \in Nat /\ p = P * r + (D * L + q)
    BY DEF Divided
  <1>5. Low(p, n) = p % D
    BY DEF Low
  <1> HIDE DEF P, D, M, L
  <1>6. D * L + q \in 0 .. P - 1
    <2>1. D * L \in Nat
      BY <1>2, <1>3
    <2>2. L < M /\ L \in Int /\ M \in Int
      BY <1>2, <1>3
    <2>3. D * M >= D * L + D
      BY <1>2, <2>2, Monotone
    <2>4. D * M = P
      BY <1>2
    <2>5. P \in Nat
      BY <1>2
    <2> QED
      BY <1>2, <1>4, <2>1, <2>3, <2>4, <2>5
  <1>7. r = p \div P
    <2>1. P \in Nat \ {0}
      BY <1>2
    <2> QED
      BY <1>4, <1>6, <2>1, DivIs
  <1>8. q = p % D
    <2>1. p = D * (M * r + L) + q /\ M * r + L \in Int
      BY <1>2, <1>3, <1>4
    <2> QED
      BY <1>2, <1>4, <2>1, DivIs
  <1>9. p \in Int
    BY <1>2, <1>3, <1>4
  <1> QED
    BY <1>5, <1>6, <1>7, <1>8, <1>9 DEF P, D, L

\* The topmost n bits of num1 are an n-bit number, and bound the remainder.
LEMMA DividedBound ==
  ASSUME TypeOK, NEW p, NEW n \in 0 .. W, NEW q, NEW r, Divided(p, n, q, r)
  PROVE  r <= num1 \div Pow2[W - n] /\ num1 \div Pow2[W - n] < Pow2[n]
  <1> DEFINE D == Pow2[n]
             M == Pow2[W - n]
             A == num1 \div M
             m == num1 % M
  <1>1. W - n \in Nat /\ n \in Nat /\ (W - n) + n = W /\ W <= 2 * W
    BY WidthIs
  <1>2. M \in Nat \ {0} /\ D \in Nat \ {0} /\ Pow2[W] = M * D
    <2>1. /\ Pow2[W - n] \in Nat \ {0} /\ Pow2[n] \in Nat \ {0}
          /\ Pow2[(W - n) + n] = Pow2[W - n] * Pow2[n]
      BY <1>1, PowSum
    <2> QED
      BY <1>1, <2>1
  <1>3. num1 \in Nat /\ num1 < Pow2[W] /\ num2 \in Nat
    BY NumType
  <1>4. A \in Int /\ m \in Nat /\ num1 = M * A + m
    <2>1. num1 \in Int /\ M \in Nat \ {0}
      BY <1>2, <1>3
    <2> HIDE DEF M
    <2> QED
      BY <2>1, DivMod
  <1>5. q \in 0 .. D - 1 /\ r \in Nat /\ A = q * num2 + r
    BY DEF Divided
  <1> HIDE DEF D, M, A, m
  <1>6. r <= A
    <2>1. q * num2 \in Nat
      BY <1>2, <1>3, <1>5
    <2> QED
      BY <1>5, <2>1
  <1>7. A < D
    <2> SUFFICES ASSUME D <= A PROVE FALSE
      BY <1>2, <1>4
    <2>1. D - 1 < A /\ D - 1 \in Int
      BY <1>2, <1>4
    <2>2. M * A >= M * (D - 1) + M
      BY <1>2, <1>4, <2>1, Monotone
    <2>3. M * (D - 1) + M = M * D
      BY <1>2
    <2>4. M * A >= Pow2[W]
      BY <1>2, <2>2, <2>3
    <2>5. M * A \in Int /\ Pow2[W] \in Int
      BY <1>2, <1>4
    <2> QED
      BY <1>3, <1>4, <2>4, <2>5
  <1> QED
    BY <1>6, <1>7 DEF A, D, M

\* The arithmetic of a step of the divider: D and K are powers of two, Q
\* their product; r the remainder, q the quotient, and L the rest of num1 with
\* its next bit t.
LEMMA Shifted ==
  ASSUME NEW D \in Nat \ {0}, NEW K \in Nat \ {0}, NEW Q, Q = K * D,
         NEW r \in Nat, NEW q \in 0 .. D - 1, NEW L \in 0 .. K - 1, NEW t \in 0 .. 1,
         NEW p, p = (2 * Q) * r + (D * (K * t + L) + q)
  PROVE  /\ D * L + q \in 0 .. Q - 1
         /\ p = Q * (2 * r + t) + (D * L + q)
         /\ p \in Int
         /\ 2 * (D * L + q) = (2 * D) * L + 2 * q
  <1>1. D * L \in Nat
    OBVIOUS
  <1>2. D * K >= D * L + D
    <2>1. L < K /\ L \in Int /\ K \in Int
      OBVIOUS
    <2> QED
      BY <2>1, Monotone
  <1>3. Q \in Nat /\ D * K = Q
    OBVIOUS
  <1>4. D * L + q \in 0 .. Q - 1
    BY <1>1, <1>2, <1>3
  <1>5. D * (K * t + L) = Q * t + D * L
    OBVIOUS
  <1>6. (2 * Q) * r + Q * t = Q * (2 * r + t)
    BY <1>3
  <1>7. p = Q * (2 * r + t) + (D * L + q)
    <2> DEFINE x == Q * t
               y == D * L
               z == (2 * Q) * r
               v == Q * (2 * r + t)
    <2>1. x \in Int /\ y \in Int /\ z \in Int /\ v \in Int
      BY <1>3
    <2>2. p = z + ((x + y) + q) /\ z + x = v
      BY <1>5, <1>6
    <2> HIDE DEF x, y, z, v
    <2>3. p = v + (y + q)
      BY <2>1, <2>2
    <2> QED
      BY <2>3 DEF v, y
  <1>8. p \in Int
    <2>1. Q * (2 * r + t) \in Int
      BY <1>3
    <2> QED
      BY <1>4, <1>7, <2>1
  <1>9. 2 * (D * L + q) = (2 * D) * L + 2 * q
    <2>1. 2 * (D * L) = (2 * D) * L
      OBVIOUS
    <2> DEFINE x == D * L
    <2>2. x \in Int /\ q \in Int
      BY <1>1
    <2> HIDE DEF x
    <2>3. 2 * (x + q) = 2 * x + 2 * q
      BY <2>2
    <2> QED
      BY <2>1, <2>3 DEF x
  <1> QED
    BY <1>4, <1>7, <1>8, <1>9

\* The quotient and the remainder after one more step.
Fits(p) == Low(p \div Pow2[W - 1], W) >= num2
NextQ(p, q) == IF Fits(p) THEN 2 * q + 1 ELSE 2 * q
NextR(p) == IF Fits(p) THEN Low(p \div Pow2[W - 1], W) - num2
            ELSE Low(p \div Pow2[W - 1], W)

LEMMA DivForward ==
  ASSUME TypeOK, NEW p, NEW n \in 0 .. W - 1, NEW q, NEW r, Divided(p, n, q, r)
  PROVE  Divided(DivStep(p), n + 1, NextQ(p, q), NextR(p))
  <1> DEFINE P == Pow2[W]
             Q == Pow2[W - 1]
             D == Pow2[n]
             K == Pow2[W - (n + 1)]
             L == Low(num1, W - (n + 1))
             t == Bit(num1, W - (n + 1))
             A == num1 \div Pow2[W - (n + 1)]
             B == num2
             upper == Low(p \div Pow2[W - 1], W)
             rest == D * L + q
  <1>1. /\ n \in 0 .. 2 * W - 1
        /\ W - (n + 1) \in 0 .. 2 * W - 1 /\ (W - (n + 1)) + 1 = W - n
        /\ W - (n + 1) \in Nat /\ n \in Nat /\ n + 1 \in Nat
        /\ (W - (n + 1)) + n = W - 1 /\ W - 1 <= 2 * W
        /\ (W - (n + 1)) + (n + 1) = W /\ W <= 2 * W
        /\ W - (n + 1) \in 0 .. 2 * W
        /\ n \in 0 .. W /\ W \in 0 .. 2 * W
    BY WidthIs
  <1>2. num1 \in Int /\ num1 \in Nat /\ B \in Nat
    BY NumType
  <1>3. P \in Nat \ {0} /\ Q \in Nat \ {0} /\ P = 2 * Q /\ Pow2[2 * W] = P * P
    BY PowWidth
  <1>4. K \in Nat \ {0} /\ Pow2[W - n] = 2 * K
    <2>1. Pow2[W - (n + 1)] \in Nat \ {0}
          /\ Pow2[(W - (n + 1)) + 1] = 2 * Pow2[W - (n + 1)]
      BY <1>1, PowNext
    <2> QED
      BY <1>1, <2>1
  <1>5. D \in Nat \ {0} /\ Q = K * D
    <2>1. /\ Pow2[n] \in Nat \ {0}
          /\ Pow2[(W - (n + 1)) + n] = Pow2[W - (n + 1)] * Pow2[n]
      BY <1>1, PowSum
    <2> QED
      BY <1>1, <2>1
  <1>6. Pow2[n + 1] = 2 * D
    BY <1>1, PowNext
  <1>7. /\ t \in 0 .. 1
        /\ A = 2 * (num1 \div Pow2[W - n]) + t
        /\ Low(num1, W - n) = K * t + L
    BY <1>1, <1>2, SplitBit
  <1>8. L \in 0 .. K - 1
    BY <1>1, <1>2, LowType
  <1>9. /\ q \in 0 .. D - 1 /\ r \in Nat
        /\ p = P * r + (D * Low(num1, W - n) + q)
        /\ num1 \div Pow2[W - n] = q * B + r
        /\ IF B = 0 THEN q = D - 1 ELSE r < B
    BY DEF Divided
  <1>10. r < D /\ P = K * (2 * D)
    <2>1. r <= num1 \div Pow2[W - n] /\ num1 \div Pow2[W - n] < D
      BY <1>1, DividedBound
    <2>2. num1 \div Pow2[W - n] \in Int
      <3>1. Pow2[W - n] \in Nat \ {0}
        BY <1>4
      <3> QED
        BY <1>2, <3>1, DivMod
    <2>3. r < D
      BY <1>5, <1>9, <2>1, <2>2
    <2>4. P = K * (2 * D)
      BY <1>3, <1>4, <1>5
    <2> QED
      BY <2>3, <2>4
  <1>11. DivStep(p) = IF upper >= B
                        THEN (upper - B) * P + 2 * Low(p, W - 1) + 1
                        ELSE Low(2 * p, 2 * W)
    BY DEF DivStep
  <1>12. /\ NextQ(p, q) = IF upper >= B THEN 2 * q + 1 ELSE 2 * q
         /\ NextR(p) = IF upper >= B THEN upper - B ELSE upper
    BY DEF NextQ, NextR, Fits
  <1>13. /\ upper = (p \div Q) % P
         /\ Low(p, W - 1) = p % Q
         /\ Low(2 * p, 2 * W) = (2 * p) % (P * P)
    BY <1>3 DEF Low
  <1>14. Divided(DivStep(p), n + 1, NextQ(p, q), NextR(p)) <=>
           /\ NextQ(p, q) \in 0 .. 2 * D - 1
           /\ NextR(p) \in Nat
           /\ DivStep(p) = P * NextR(p) + ((2 * D) * L + NextQ(p, q))
           /\ A = NextQ(p, q) * B + NextR(p)
           /\ IF B = 0 THEN NextQ(p, q) = 2 * D - 1 ELSE NextR(p) < B
    BY <1>6 DEF Divided
  <1> HIDE DEF P, Q, D, K, L, t, A, B, upper
  <1>15. /\ rest \in 0 .. Q - 1
         /\ p = Q * (2 * r + t) + rest
         /\ p \in Int
         /\ 2 * rest = (2 * D) * L + 2 * q
    <2>1. p = (2 * Q) * r + (D * (K * t + L) + q)
      BY <1>3, <1>7, <1>9
    <2>2. q \in 0 .. D - 1 /\ r \in Nat /\ t \in 0 .. 1
      BY <1>7, <1>9
    <2>3. D \in Nat \ {0} /\ K \in Nat \ {0} /\ Q = K * D
      BY <1>4, <1>5
    <2>4. /\ D * L + q \in 0 .. Q - 1
          /\ p = Q * (2 * r + t) + (D * L + q)
          /\ p \in Int
          /\ 2 * (D * L + q) = (2 * D) * L + 2 * q
      BY <1>8, <2>1, <2>2, <2>3, Shifted, SMTT(30)
    <2> QED
      BY <2>4
  <1> HIDE DEF rest
  <1>16. 2 * r + t \in 0 .. P - 1
    <2>1. 2 * r + t < 2 * D /\ 2 * r + t \in Nat
      BY <1>5, <1>7, <1>9, <1>10
    <2>2. K * (2 * D) >= 2 * D
      <3> DEFINE x == 2 * D
      <3>1. x \in Nat
        BY <1>5
      <3> HIDE DEF x
      <3>2. K * x >= x
        BY <1>4, <3>1
      <3> QED
        BY <3>2 DEF x
    <2> QED
      BY <1>3, <1>5, <1>10, <2>1, <2>2
  <1>17. upper = 2 * r + t /\ Low(p, W - 1) = rest
    <2>1. 2 * r + t \in Int
      BY <1>16
    <2>2. p % Q = rest /\ p \div Q = 2 * r + t
      BY <1>3, <1>15, <2>1, DivIs
    <2>3. (2 * r + t) % P = 2 * r + t
      BY <1>3, <1>16, Small
    <2> QED
      BY <1>13, <2>2, <2>3
  <1>18. A = 2 * (q * B + r) + t
    BY <1>7, <1>9
  <1>19. upper \in Nat
    BY <1>16, <1>17
  <1> DEFINE X == (2 * D) * L
             Y == q * B
  <1>20. X \in Nat /\ Y \in Nat /\ rest \in Nat /\ 2 * rest = X + 2 * q /\ A = 2 * Y + upper
    <2>1. X \in Nat /\ Y \in Nat
      BY <1>2, <1>5, <1>8, <1>9
    <2> HIDE DEF X, Y
    <2>2. rest \in Nat /\ 2 * rest = X + 2 * q
      BY <1>3, <1>15 DEF X
    <2>3. A = 2 * (Y + r) + t
      BY <1>18 DEF Y
    <2> QED
      BY <1>7, <1>9, <1>17, <2>1, <2>2, <2>3
  <1>21. (2 * q) * B = 2 * Y /\ (2 * q + 1) * B = 2 * Y + B
    BY <1>2, <1>9
  <1> HIDE DEF X, Y
  <1>22. CASE upper >= B
    <2> DEFINE v == upper - B
    <2>1. NextQ(p, q) = 2 * q + 1 /\ NextR(p) = v /\ v \in Nat
      BY <1>2, <1>12, <1>19, <1>22
    <2>2. DivStep(p) = v * P + 2 * rest + 1
      BY <1>11, <1>17, <1>22
    <2>3. 2 * q + 1 \in 0 .. 2 * D - 1
      BY <1>5, <1>9
    <2>4. IF B = 0 THEN 2 * q + 1 = 2 * D - 1 ELSE v < B
      BY <1>2, <1>5, <1>7, <1>9, <1>17
    <2>5. A = (2 * q + 1) * B + v
      BY <1>2, <1>19, <1>20, <1>21
    <2> HIDE DEF v
    <2>6. v * P + 2 * rest + 1 = P * v + (X + (2 * q + 1))
      <3> DEFINE z == P * v
      <3>1. v * P = z /\ z \in Int
        BY <1>3, <2>1
      <3> HIDE DEF z
      <3>2. z + 2 * rest + 1 = z + (X + (2 * q + 1))
        BY <1>9, <1>20, <3>1
      <3> QED
        BY <3>1, <3>2 DEF z
    <2>7. DivStep(p) = P * NextR(p) + ((2 * D) * L + NextQ(p, q))
      BY <2>1, <2>2, <2>6 DEF X
    <2> QED
      BY <1>14, <2>1, <2>3, <2>4, <2>5, <2>7
  <1>23. CASE upper < B
    <2>1. NextQ(p, q) = 2 * q /\ NextR(p) = upper /\ B # 0
      BY <1>2, <1>12, <1>19, <1>23
    <2>2. DivStep(p) = (2 * p) % (P * P)
      BY <1>2, <1>11, <1>13, <1>19, <1>23
    <2>3. 2 * q \in 0 .. 2 * D - 1
      BY <1>5, <1>9
    <2>4. A = (2 * q) * B + upper
      BY <1>20, <1>21
    <2>5. 2 * p = P * upper + (X + 2 * q)
      <3> DEFINE z == Q * upper
      <3>1. z \in Int /\ p = z + rest
        BY <1>3, <1>15, <1>17, <1>19
      <3>2. P * upper = 2 * z
        BY <1>3, <1>19
      <3> HIDE DEF z
      <3>3. 2 * p = 2 * z + 2 * rest
        BY <1>20, <3>1
      <3> QED
        BY <1>20, <3>2, <3>3
    <2>6. 2 * p \in 0 .. P * P - 1
      <3>1. 2 * rest < P
        BY <1>3, <1>15
      <3>2. upper < P /\ upper \in Int /\ P \in Int
        BY <1>3, <1>16, <1>17
      <3>3. P * P >= P * upper + P
        BY <1>3, <3>2, Monotone
      <3> DEFINE z == P * upper
                 y == P * P
      <3>4. z \in Nat /\ y \in Nat
        BY <1>3, <1>19
      <3>5. 2 * p = z + 2 * rest /\ y >= z + P
        BY <1>20, <2>5, <3>3
      <3> HIDE DEF z, y
      <3>6. 2 * p \in 0 .. y - 1
        BY <1>20, <3>1, <3>2, <3>4, <3>5
      <3> QED
        BY <3>6 DEF y
    <2>7. DivStep(p) = P * upper + (X + 2 * q)
      <3> DEFINE y == P * P
      <3>1. y \in Nat \ {0}
        BY <1>3
      <3> HIDE DEF y
      <3>2. 2 * p \in 0 .. y - 1
        BY <2>6 DEF y
      <3>3. (2 * p) % y = 2 * p
        BY <3>1, <3>2, Small
      <3> QED
        BY <2>2, <2>5, <3>3 DEF y
    <2>8. DivStep(p) = P * NextR(p) + ((2 * D) * L + NextQ(p, q))
      BY <2>1, <2>7 DEF X
    <2> QED
      BY <1>14, <1>19, <1>23, <2>1, <2>3, <2>4, <2>8
  <1> QED
    BY <1>2, <1>19, <1>22, <1>23

LEMMA DivStart == ASSUME TypeOK PROVE Divided(num1, 0, 0, 0)
  <1>1. num1 \in Nat /\ num2 \in Nat /\ num1 \in 0 .. Pow2[W] - 1 /\ Pow2[W] \in Nat \ {0}
    BY NumType, PowWidth DEF Values
  <1>2. W - 0 = W /\ Pow2[0] = 1 /\ W \in 0 .. 2 * W
    BY PowDef, WidthIs
  <1>3. Low(num1, W) = num1 /\ num1 \div Pow2[W] = 0
    BY <1>1, <1>2, LowSmall, Small
  <1> QED
    BY <1>1, <1>2, <1>3 DEF Divided

\* In the end the halves of p are the quotient and the remainder of the
\* magnitudes.
LEMMA DivEnd ==
  ASSUME TypeOK, Divided(u.p, W, Low(u.p, W), rem)
  PROVE  /\ quo \in 0 .. Pow2[W] - 1 /\ rem \in Nat
         /\ num1 = quo * num2 + rem
         /\ IF num2 = 0 THEN quo = Pow2[W] - 1 ELSE rem < num2
  <1>1. W - W = 0 /\ Pow2[0] = 1
    BY PowDef, WidthIs
  <1>2. num1 \div Pow2[0] = num1
    <2>1. num1 \in Nat
      BY NumType
    <2> QED
      BY <1>1, <2>1
  <1> QED
    BY <1>1, <1>2 DEF Divided, quo

-----------------------------------------------------------------------------
(***************************************************************************)
(* The invariant of the units.                                             *)
(***************************************************************************)
Accumulators == 0 .. Pow2[2 * W] - 1

\* What UnitClock gives as the accumulator after one more step.
Stepped == IF unit = "mul" THEN MulStep(u.p) ELSE DivStep(u.p)

LEMMA WordFits == \A x \in Values : x \in Accumulators
  <1>1. Pow2[W] \in Nat \ {0} /\ Pow2[2 * W] = Pow2[W] * Pow2[W]
    BY PowWidth
  <1> DEFINE P == Pow2[W]
  <1> HIDE DEF P
  <1>2. P \in Nat \ {0} => P * P >= P
    OBVIOUS
  <1>3. Pow2[2 * W] \in Nat /\ Pow2[2 * W] >= Pow2[W]
    BY <1>1, <1>2 DEF P
  <1> QED
    BY <1>1, <1>3 DEF Values, Accumulators

LEMMA MulStepType ==
  ASSUME TypeOK, NEW p \in Accumulators
  PROVE  MulStep(p) \in Accumulators
  <1> DEFINE P == Pow2[W]
             Q == Pow2[W - 1]
             B == num2
  <1>1. P \in Nat \ {0} /\ Q \in Nat \ {0} /\ P = 2 * Q /\ Pow2[2 * W] = P * P
    BY PowWidth
  <1>2. B \in Nat /\ B < P
    BY NumType
  <1>3. p \in Nat /\ p < P * P /\ Accumulators = 0 .. P * P - 1
    BY <1>1 DEF Accumulators
  <1>4. MulStep(p) = IF p % 2 = 1 THEN ((p \div P) + B) * Q + ((p % P) \div 2)
                     ELSE p \div 2
    BY DEF MulStep
  <1> HIDE DEF P, Q, B
  <1>5. p \div 2 \in Nat /\ p \div 2 <= p
    BY <1>3
  <1>6. (p \div P) \in Nat /\ (p \div P) < P /\ (p % P) \in 0 .. P - 1
    <2> DEFINE e == p \div P
               f == p % P
    <2>1. e \in Int /\ f \in 0 .. P - 1 /\ p = P * e + f
      <3>1. p \in Int /\ P \in Nat \ {0}
        BY <1>1, <1>3
      <3> QED
        BY <3>1, DivMod
    <2> HIDE DEF e, f
    <2>2. e >= 0
      <3> SUFFICES ASSUME e < 0 PROVE FALSE
        BY <2>1
      <3>1. P * 0 >= P * e + P
        BY <1>1, <2>1, Monotone
      <3> QED
        BY <1>1, <1>3, <2>1, <3>1
    <2>3. e < P
      <3> SUFFICES ASSUME P - 1 < e PROVE FALSE
        BY <1>1, <2>1
      <3>1. P * e >= P * (P - 1) + P
        BY <1>1, <2>1, Monotone
      <3>2. P * (P - 1) + P = P * P
        BY <1>1
      <3> DEFINE y == P * P
                 z == P * e
      <3>3. y \in Int /\ z \in Int
        BY <1>1, <2>1
      <3> HIDE DEF y, z
      <3>4. z >= y /\ p = z + f /\ p < y
        BY <1>3, <2>1, <3>1, <3>2 DEF y, z
      <3> QED
        BY <2>1, <3>3, <3>4
    <2> QED
      BY <2>1, <2>2, <2>3 DEF e, f
  <1>7. ((p \div P) + B) * Q + ((p % P) \div 2) \in 0 .. P * P - 1
    <2> DEFINE e == (p \div P) + B
               g == (p % P) \div 2
    <2>1. e \in Nat /\ e <= 2 * P - 2
      BY <1>1, <1>2, <1>6
    <2>2. g \in Nat /\ g < Q
      BY <1>1, <1>6
    <2> HIDE DEF e, g
    <2>3. e < 2 * P - 1 /\ e \in Int /\ 2 * P - 1 \in Int
      BY <1>1, <2>1
    <2>4. Q * (2 * P - 1) >= Q * e + Q
      BY <1>1, <2>3, Monotone
    <2>5. Q * (2 * P - 1) = P * P - Q
      BY <1>1
    <2> DEFINE z == Q * e
               y == P * P
    <2>6. z \in Nat /\ y \in Nat /\ e * Q = z
      BY <1>1, <2>1
    <2>7. y - Q >= z + Q
      BY <2>4, <2>5
    <2> HIDE DEF z, y
    <2>8. z + g \in 0 .. y - 1
      BY <1>1, <2>2, <2>6, <2>7
    <2> QED
      BY <2>6, <2>8 DEF e, g, y
  <1>8. p \div 2 \in 0 .. P * P - 1
    <2> DEFINE y == P * P
    <2>1. y \in Nat
      BY <1>1
    <2>2. p < y
      BY <1>3
    <2> HIDE DEF y
    <2>3. p \div 2 \in 0 .. y - 1
      BY <1>3, <1>5, <2>1, <2>2
    <2> QED
      BY <2>3 DEF y
  <1> QED
    BY <1>3, <1>4, <1>7, <1>8

LEMMA DivStepType ==
  ASSUME TypeOK, NEW p \in Accumulators
  PROVE  DivStep(p) \in Accumulators
  <1> DEFINE P == Pow2[W]
             Q == Pow2[W - 1]
             B == num2
             upper == Low(p \div Pow2[W - 1], W)
             lower == Low(p, W - 1)
  <1>1. P \in Nat \ {0} /\ Q \in Nat \ {0} /\ P = 2 * Q /\ Pow2[2 * W] = P * P
    BY PowWidth
  <1>2. B \in Nat /\ B < P
    BY NumType
  <1>3. W \in 0 .. 2 * W /\ W - 1 \in 0 .. 2 * W /\ 2 * W \in 0 .. 2 * W
    BY WidthIs
  <1>4. p \in Int /\ Accumulators = 0 .. P * P - 1
    BY <1>1 DEF Accumulators
  <1>5. upper \in 0 .. P - 1
    <2>1. p \div Pow2[W - 1] \in Int
      BY <1>1, <1>4, DivMod
    <2> QED
      BY <1>3, <2>1, LowType
  <1>6. lower \in 0 .. Q - 1
    BY <1>3, <1>4, LowType
  <1>7. Low(2 * p, 2 * W) \in 0 .. P * P - 1
    <2>1. 2 * p \in Int
      BY <1>4
    <2>2. Low(2 * p, 2 * W) \in 0 .. Pow2[2 * W] - 1
      BY <1>3, <2>1, LowType
    <2> QED
      BY <1>1, <2>2
  <1>8. DivStep(p) = IF upper >= B THEN (upper - B) * P + 2 * lower + 1
                     ELSE Low(2 * p, 2 * W)
    BY DEF DivStep
  <1> HIDE DEF P, Q, B, upper, lower
  <1>9. CASE upper >= B
    <2> DEFINE v == upper - B
               z == P * v
               y == P * P
    <2>1. v \in Nat /\ v < P
      BY <1>1, <1>2, <1>5, <1>9
    <2> HIDE DEF v
    <2>2. P * P >= P * v + P
      BY <1>1, <2>1, Monotone
    <2>3. z \in Nat /\ y \in Nat /\ v * P = z
      BY <1>1, <2>1
    <2>4. y >= z + P
      BY <2>2
    <2> HIDE DEF z, y
    <2>5. z + 2 * lower + 1 \in 0 .. y - 1
      BY <1>1, <1>6, <2>3, <2>4
    <2>6. DivStep(p) = z + 2 * lower + 1
      BY <1>8, <1>9, <2>3 DEF v
    <2> QED
      BY <1>4, <2>5, <2>6 DEF y
  <1>10. CASE upper < B
    <2>1. ~(upper >= B)
      BY <1>1, <1>2, <1>5, <1>10
    <2> QED
      BY <1>4, <1>7, <1>8, <2>1
  <1> QED
    BY <1>1, <1>2, <1>5, <1>9, <1>10

\* The cases of a clock edge.
IdleEdge ==
  u.state = 0 /\ u' = [state |-> IF valid THEN 1 ELSE 0, count |-> 0, done |-> FALSE, p |-> u.p]
DropEdge ==
  u.state = 1 /\ ~valid /\ u' = [state |-> 0, count |-> 0, done |-> u.done, p |-> u.p]
LoadEdge ==
  /\ u.state = 1 /\ valid /\ u.count = 0
  /\ u' = [state |-> 1, count |-> 1, done |-> u.done, p |-> num1]
StepEdge ==
  /\ u.state = 1 /\ valid /\ u.count \in 1 .. W
  /\ u' = [state |-> 1, count |-> u.count + 1, done |-> u.done, p |-> Stepped]
LastEdge ==
  /\ u.state = 1 /\ valid /\ u.count = W + 1
  /\ u' = [state |-> 0, count |-> u.count + 1, done |-> TRUE, p |-> u.p]

LEMMA Registers ==
  ASSUME TypeOK
  PROVE  u.state \in 0 .. 1 /\ u.count \in 0 .. W + 2 /\ u.done \in BOOLEAN /\ u.p \in Accumulators
  BY DEF TypeOK, UnitState, Accumulators

LEMMA Edges ==
  ASSUME UnitsInv, UnitClock
  PROVE  IdleEdge \/ DropEdge \/ LoadEdge \/ StepEdge \/ LastEdge
  <1>1. /\ u.state \in 0 .. 1 /\ u.count \in 0 .. W + 2 /\ valid \in BOOLEAN
        /\ u.state = 1 => u.count <= W + 1
        /\ W \in Nat
    <2>1. TypeOK /\ (u.state = 1 => u.count <= W + 1)
      BY DEF UnitsInv
    <2> QED
      BY <2>1, Registers, WidthIs DEF TypeOK
  <1>2. u' = IF u.state = 0 THEN
               [state |-> IF valid THEN 1 ELSE 0, count |-> 0, done |-> FALSE, p |-> u.p]
             ELSE IF ~valid THEN
               [state |-> 0, count |-> 0, done |-> u.done, p |-> u.p]
             ELSE IF u.count = 0 THEN
               [state |-> 1, count |-> 1, done |-> u.done, p |-> num1]
             ELSE IF u.count = W + 1 THEN
               [state |-> 0, count |-> u.count + 1, done |-> TRUE, p |-> u.p]
             ELSE
               [state |-> 1, count |-> u.count + 1, done |-> u.done, p |-> Stepped]
    BY Zenon DEF UnitClock, UnitNext, Stepped
  <1>3. \/ u.state = 0
        \/ u.state = 1 /\ ~valid
        \/ u.state = 1 /\ valid /\ u.count = 0
        \/ u.state = 1 /\ valid /\ u.count \in 1 .. W
        \/ u.state = 1 /\ valid /\ u.count = W + 1
    BY <1>1
  <1>4. u.state = 1 => u.state # 0
    OBVIOUS
  <1>5. u.count = W + 1 => u.count # 0
    BY <1>1
  <1>6. u.count \in 1 .. W => u.count # 0 /\ u.count # W + 1
    BY <1>1
  <1>7. CASE u.state = 0
    BY <1>2, <1>7, Zenon DEF IdleEdge
  <1>8. CASE u.state = 1 /\ ~valid
    BY <1>2, <1>4, <1>8, Zenon DEF DropEdge
  <1>9. CASE u.state = 1 /\ valid /\ u.count = 0
    BY <1>2, <1>4, <1>9, Zenon DEF LoadEdge
  <1>10. CASE u.state = 1 /\ valid /\ u.count \in 1 .. W
    BY <1>2, <1>4, <1>6, <1>10, Zenon DEF StepEdge
  <1>11. CASE u.state = 1 /\ valid /\ u.count = W + 1
    BY <1>2, <1>4, <1>5, <1>11, Zenon DEF LastEdge
  <1> QED
    BY <1>3, <1>7, <1>8, <1>9, <1>10, <1>11

LEMMA RegistersNext ==
  ASSUME UnitsInv, UnitClock
  PROVE  u' \in UnitState(0 .. Pow2[2 * W] - 1)
  <1>0. /\ TypeOK /\ W \in Nat
        /\ u.state \in 0 .. 1 /\ u.count \in 0 .. W + 2 /\ u.done \in BOOLEAN
        /\ u.p \in Accumulators /\ num1 \in Accumulators /\ Stepped \in Accumulators
    <2>1. TypeOK /\ W \in Nat
      BY WidthIs DEF UnitsInv
    <2>2. /\ u.state \in 0 .. 1 /\ u.count \in 0 .. W + 2 /\ u.done \in BOOLEAN
          /\ u.p \in Accumulators
      BY <2>1, Registers
    <2>3. num1 \in Accumulators
      BY <2>1, NumType, WordFits
    <2>4. Stepped \in Accumulators
      BY <2>1, <2>2, MulStepType, DivStepType DEF Stepped
    <2> QED
      BY <2>1, <2>2, <2>3, <2>4
  <1> DEFINE S == [state : 0 .. 1, count : 0 .. W + 2, done : BOOLEAN, p : Accumulators]
  <1>1. ASSUME NEW x \in 0 .. 1, NEW c \in 0 .. W + 2, NEW d \in BOOLEAN, NEW p \in Accumulators
        PROVE  [state |-> x, count |-> c, done |-> d, p |-> p] \in S
    OBVIOUS
  <1>2. 0 \in 0 .. 1 /\ 1 \in 0 .. 1 /\ 0 \in 0 .. W + 2 /\ 1 \in 0 .. W + 2
    BY <1>0
  <1> HIDE DEF S
  <1>3. CASE IdleEdge
    <2>1. (IF valid THEN 1 ELSE 0) \in 0 .. 1
      OBVIOUS
    <2> QED
      BY <1>0, <1>1, <1>2, <1>3, <2>1 DEF IdleEdge, S, UnitState, Accumulators
  <1>4. CASE DropEdge
    BY <1>0, <1>1, <1>2, <1>4 DEF DropEdge, S, UnitState, Accumulators
  <1>5. CASE LoadEdge
    BY <1>0, <1>1, <1>2, <1>5 DEF LoadEdge, S, UnitState, Accumulators
  <1>6. CASE StepEdge
    <2>1. u.count + 1 \in 0 .. W + 2
      BY <1>0, <1>6 DEF StepEdge
    <2> QED
      BY <1>0, <1>1, <1>2, <1>6, <2>1 DEF StepEdge, S, UnitState, Accumulators
  <1>7. CASE LastEdge
    <2>1. u.count + 1 \in 0 .. W + 2
      BY <1>0, <1>7 DEF LastEdge
    <2> QED
      BY <1>0, <1>1, <1>2, <1>7, <2>1 DEF LastEdge, S, UnitState, Accumulators
  <1> QED
    BY <1>3, <1>4, <1>5, <1>6, <1>7, Edges

\* A step takes in one more bit.
LEMMA Forward ==
  ASSUME TypeOK, NEW n \in 0 .. W - 1, SoFar(u.p, n)
  PROVE  SoFar(Stepped, n + 1)
  <1>1. CASE unit = "mul"
    BY <1>1, MulForward DEF SoFar, Stepped
  <1>2. CASE unit # "mul"
    <2> DEFINE q == Low(u.p, n)
               r == u.p \div Pow2[W]
    <2>1. Divided(u.p, n, q, r)
      BY <1>2 DEF SoFar
    <2> HIDE DEF q, r
    <2>2. Divided(DivStep(u.p), n + 1, NextQ(u.p, q), NextR(u.p))
      BY <2>1, DivForward
    <2>3. n + 1 \in 0 .. W
      BY WidthIs
    <2>4. /\ NextQ(u.p, q) = Low(DivStep(u.p), n + 1)
          /\ NextR(u.p) = DivStep(u.p) \div Pow2[W]
      BY <2>2, <2>3, DividedParts
    <2>5. Divided(DivStep(u.p), n + 1, Low(DivStep(u.p), n + 1), DivStep(u.p) \div Pow2[W])
      BY <2>2, <2>4
    <2> QED
      BY <1>2, <2>5 DEF SoFar, Stepped
  <1> QED
    BY <1>1, <1>2

LEMMA Started ==
  ASSUME TypeOK
  PROVE  SoFar(num1, 0)
  <1>1. Divided(num1, 0, 0, 0)
    BY DivStart
  <1>2. 0 \in 0 .. W
    BY WidthIs
  <1>3. 0 = Low(num1, 0) /\ 0 = num1 \div Pow2[W]
    BY <1>1, <1>2, DividedParts
  <1>4. Divided(num1, 0, Low(num1, 0), num1 \div Pow2[W])
    BY <1>1, <1>3
  <1> QED
    BY <1>4, MulStart DEF SoFar

\* How far a number is depends on the inputs only.
LEMMA SameInputs ==
  ASSUME UNCHANGED <<unit, a, b, s, w>>, NEW p, NEW n, SoFar(p, n)
  PROVE  SoFar(p, n)'
  <1>1. num1' = num1 /\ num2' = num2
    BY DEF num1, num2, Magnitude
  <1> QED
    BY <1>1 DEF SoFar, Multiplied, Divided

LEMMA UnitsInit == Init => UnitsInv
  <1> SUFFICES ASSUME Init PROVE UnitsInv
    OBVIOUS
  <1>1. u = [state |-> 0, count |-> 0, done |-> FALSE, p |-> 0]
    BY DEF Init, UnitInit
  <1>2. 0 \in Values /\ 0 \in Accumulators
    <2>1. 0 \in Values
      BY PowWidth DEF Values
    <2> QED
      BY <2>1, WordFits
  <1>3. u \in UnitState(0 .. Pow2[2 * W] - 1)
    <2>1. 0 \in 0 .. W + 2
      BY WidthIs
    <2> QED
      BY <1>1, <1>2, <2>1 DEF UnitState, Accumulators
  <1>4. TypeOK
    BY <1>2, <1>3 DEF Init, TypeOK
  <1>5. u.state = 0 /\ u.done = FALSE
    BY <1>1
  <1> QED
    BY <1>4, <1>5 DEF UnitsInv

LEMMA UnitsTypeStep ==
  ASSUME UnitsInv, Next
  PROVE  TypeOK'
  <1>0. TypeOK /\ UnitClock /\ (Issue \/ Work \/ Retire)
    BY DEF UnitsInv, Next, Clock
  <1>1. u' \in UnitState(0 .. Pow2[2 * W] - 1)
    BY <1>0, RegistersNext
  <1>2. 0 \in Values
    BY PowWidth DEF Values
  <1>3. /\ unit' \in {"mul", "div"} /\ valid' \in BOOLEAN
        /\ a' \in Values /\ b' \in Values /\ s' \in BOOLEAN /\ w' \in BOOLEAN
    <2>1. CASE Issue
      <3>1. s' \in BOOLEAN
        BY <2>1 DEF Issue
      <3> QED
        BY <1>0, <2>1, <3>1 DEF Issue, TypeOK
    <2>2. CASE Work
      BY <1>0, <2>2 DEF Work, TypeOK
    <2>3. CASE Retire
      BY <1>0, <1>2, <2>3 DEF Retire, TypeOK
    <2> QED
      BY <1>0, <2>1, <2>2, <2>3
  <1> QED
    BY <1>1, <1>3 DEF TypeOK

LEMMA UnitsStep == UnitsInv /\ [Next]_vars => UnitsInv'
  <1>1. ASSUME UnitsInv, Next
        PROVE  UnitsInv'
    <2>0. /\ TypeOK /\ UnitClock /\ (Issue \/ Work \/ Retire)
          /\ u.state = 1 => ~u.done /\ u.count <= W + 1
          /\ u.done => valid
          /\ valid /\ u.state = 1 /\ u.count > 0 => SoFar(u.p, u.count - 1)
          /\ u.done => SoFar(u.p, W)
      BY <1>1 DEF UnitsInv, Next, Clock
    <2>1. TypeOK'
      BY <1>1, UnitsTypeStep
    <2>2. IdleEdge \/ DropEdge \/ LoadEdge \/ StepEdge \/ LastEdge
      BY <1>1, <2>0, Edges
    <2>3. W \in Nat /\ W >= 2 /\ W <= 64
      BY WidthIs
    <2>4. CASE IdleEdge
      <3>1. u'.state \in 0 .. 1 /\ u'.count = 0 /\ u'.done = FALSE
        BY <2>4 DEF IdleEdge
      <3> QED
        BY <2>1, <2>3, <3>1 DEF UnitsInv
    <2>5. CASE DropEdge
      <3>1. u'.state = 0 /\ u'.count = 0 /\ u'.done = u.done
        BY <2>5 DEF DropEdge
      <3>2. ~u.done
        BY <2>0, <2>5 DEF DropEdge
      <3> QED
        BY <2>1, <2>3, <3>1, <3>2 DEF UnitsInv
    <2>6. CASE LoadEdge
      <3>1. /\ u'.state = 1 /\ u'.count = 1 /\ u'.done = u.done /\ u'.p = num1
            /\ ~u.done /\ valid
        BY <2>0, <2>6 DEF LoadEdge
      <3>2. UNCHANGED <<unit, a, b, s, w>>
        BY <2>0, <3>1 DEF Issue, Work, Retire
      <3>3. SoFar(u.p, 0)'
        <4>1. PICK p : p = num1
          OBVIOUS
        <4>2. SoFar(p, 0)
          BY <2>0, <4>1, Started
        <4>3. SoFar(p, 0)'
          BY <3>2, <4>2, SameInputs
        <4>4. p = u'.p
          BY <3>1, <4>1
        <4> QED
          BY <4>3, <4>4 DEF SoFar, Multiplied, Divided
      <3> QED
        BY <2>1, <2>3, <3>1, <3>3 DEF UnitsInv
    <2>7. CASE StepEdge
      <3>1. /\ u'.state = 1 /\ u'.count = u.count + 1 /\ u'.done = u.done /\ u'.p = Stepped
            /\ ~u.done /\ valid /\ u.count \in 1 .. W /\ u.state = 1
        BY <2>0, <2>7 DEF StepEdge
      <3>2. UNCHANGED <<unit, a, b, s, w>>
        BY <2>0, <3>1 DEF Issue, Work, Retire
      <3>3. PICK n : n = u.count
        OBVIOUS
      <3>4. n \in 1 .. W /\ n - 1 \in 0 .. W - 1 /\ n > 0 /\ (n - 1) + 1 = n
        BY <2>3, <3>1, <3>3
      <3>5. SoFar(Stepped, n)
        <4>1. SoFar(u.p, n - 1)
          BY <2>0, <3>1, <3>3, <3>4
        <4>2. SoFar(Stepped, (n - 1) + 1)
          BY <2>0, <3>4, <4>1, Forward
        <4> QED
          BY <3>4, <4>2
      <3>6. SoFar(u.p, n)'
        <4>1. PICK p : p = Stepped
          OBVIOUS
        <4>2. SoFar(p, n)
          BY <3>5, <4>1
        <4>3. SoFar(p, n)'
          BY <3>2, <4>2, SameInputs
        <4>4. p = u'.p
          BY <3>1, <4>1
        <4> QED
          BY <4>3, <4>4 DEF SoFar, Multiplied, Divided
      <3>7. u'.count - 1 = n /\ u'.count <= W + 1
        BY <2>3, <3>1, <3>3, <3>4
      <3>8. SoFar(u.p, u.count - 1)'
        BY <3>6, <3>7 DEF SoFar, Multiplied, Divided
      <3> QED
        BY <2>1, <3>1, <3>7, <3>8 DEF UnitsInv
    <2>8. CASE LastEdge
      <3>1. /\ u'.state = 0 /\ u'.p = u.p /\ u.count = W + 1 /\ u.state = 1
            /\ ~u.done /\ valid
        BY <2>0, <2>8 DEF LastEdge
      <3>2. UNCHANGED <<unit, a, b, s, w>> /\ valid'
        BY <2>0, <3>1 DEF Issue, Work, Retire
      <3>3. SoFar(u.p, W)
        <4>1. u.count > 0 /\ u.count - 1 = W
          BY <2>3, <3>1
        <4>2. SoFar(u.p, u.count - 1)
          BY <2>0, <3>1, <4>1
        <4> QED
          BY <4>1, <4>2
      <3>4. SoFar(u.p, W)'
        <4>1. PICK p : p = u.p
          OBVIOUS
        <4>2. SoFar(p, W)
          BY <3>3, <4>1
        <4>3. SoFar(p, W)'
          BY <3>2, <4>2, SameInputs
        <4>4. p = u'.p
          BY <3>1, <4>1
        <4> QED
          BY <4>3, <4>4 DEF SoFar, Multiplied, Divided
      <3> QED
        BY <2>1, <3>1, <3>2, <3>4 DEF UnitsInv
    <2> QED
      BY <2>2, <2>4, <2>5, <2>6, <2>7, <2>8
  <1>2. ASSUME UnitsInv, UNCHANGED vars
        PROVE  UnitsInv'
    BY <1>2 DEF UnitsInv, vars, TypeOK, SoFar, Multiplied, Divided, num1, num2, Magnitude
  <1> QED
    BY <1>1, <1>2

-----------------------------------------------------------------------------
(***************************************************************************)
(* Words and the numbers they stand for.                                   *)
(***************************************************************************)
LEMMA PowHalf ==
  ASSUME NEW n \in 1 .. 2 * W
  PROVE  /\ Pow2[n - 1] \in Nat \ {0}
         /\ Pow2[n] \in Nat \ {0}
         /\ Pow2[n] = 2 * Pow2[n - 1]
         /\ n \in 0 .. 2 * W /\ n - 1 \in 0 .. 2 * W - 1 /\ n - 1 \in 0 .. 2 * W
         /\ (n - 1) + 1 = n
  <1>1. n - 1 \in 0 .. 2 * W - 1 /\ (n - 1) + 1 = n /\ n \in 0 .. 2 * W /\ n - 1 \in 0 .. 2 * W
    BY WidthIs
  <1>2. /\ Pow2[n - 1] \in Nat \ {0}
        /\ Pow2[(n - 1) + 1] \in Nat \ {0}
        /\ Pow2[(n - 1) + 1] = 2 * Pow2[n - 1]
    BY <1>1, PowNext
  <1> QED
    BY <1>1, <1>2

LEMMA SignedIs ==
  ASSUME NEW n \in 1 .. 2 * W, NEW x \in 0 .. Pow2[n] - 1
  PROVE  /\ Bit(x, n - 1) = 1 <=> x >= Pow2[n - 1]
         /\ Signed(x, n) = IF x >= Pow2[n - 1] THEN x - Pow2[n] ELSE x
  <1> DEFINE h == Pow2[n - 1]
             m == Pow2[n]
  <1>1. h \in Nat \ {0} /\ m = 2 * h
    BY PowHalf
  <1>2. Bit(x, n - 1) = (x \div h) % 2
    BY DEF Bit
  <1>3. Signed(x, n) = IF Bit(x, n - 1) = 1 THEN x - m ELSE x
    BY DEF Signed
  <1>4. x \in 0 .. m - 1
    OBVIOUS
  <1> HIDE DEF h, m
  <1>5. CASE x >= h
    <2>1. x = h * 1 + (x - h) /\ x - h \in 0 .. h - 1
      BY <1>1, <1>4, <1>5
    <2>2. x \div h = 1
      BY <1>1, <2>1, DivIs
    <2>3. Bit(x, n - 1) = 1
      BY <1>2, <2>2
    <2> QED
      BY <1>3, <1>5, <2>3 DEF h, m
  <1>6. CASE ~(x >= h)
    <2>1. x \in 0 .. h - 1
      BY <1>1, <1>4, <1>6
    <2>2. x \div h = 0
      BY <1>1, <2>1, Small
    <2>3. Bit(x, n - 1) = 0
      BY <1>2, <2>2
    <2> QED
      BY <1>3, <1>6, <2>3 DEF h, m
  <1> QED
    BY <1>5, <1>6

LEMMA BitLow ==
  ASSUME NEW x \in Int, NEW n \in 1 .. 2 * W
  PROVE  Bit(Low(x, n), n - 1) = Bit(x, n - 1)
  <1> DEFINE h == Pow2[n - 1]
             t == Bit(x, n - 1)
             r == Low(x, n - 1)
  <1>1. h \in Nat \ {0} /\ n - 1 \in 0 .. 2 * W - 1 /\ (n - 1) + 1 = n /\ n - 1 \in 0 .. 2 * W
    BY PowHalf
  <1>2. t \in 0 .. 1 /\ Low(x, (n - 1) + 1) = h * t + r
    BY <1>1, SplitBit
  <1>3. r \in 0 .. h - 1
    BY <1>1, LowType
  <1>4. Bit(Low(x, n), n - 1) = (Low(x, n) \div h) % 2
    BY DEF Bit
  <1>5. Low(x, n) = h * t + r
    BY <1>1, <1>2
  <1> HIDE DEF h, t, r
  <1>6. Low(x, n) \div h = t
    <2>1. t \in Int
      BY <1>2
    <2> QED
      BY <1>1, <1>3, <1>5, <2>1, DivIs
  <1>7. Bit(Low(x, n), n - 1) = t
    BY <1>2, <1>4, <1>6
  <1> QED
    BY <1>7 DEF t

\* The number an n-bit word stands for: in range, and as far from the word as
\* a multiple of 2^n.
LEMMA SignedLow ==
  ASSUME NEW x \in Int, NEW n \in 1 .. 2 * W
  PROVE  LET v == Signed(Low(x, n), n)
         IN  /\ v \in Int /\ -Pow2[n - 1] <= v /\ v < Pow2[n - 1]
             /\ v = Low(x, n) \/ v = Low(x, n) - Pow2[n]
             /\ v < 0 <=> Bit(x, n - 1) = 1
             /\ v >= 0 => v = Low(x, n)
             /\ v < 0 => v = Low(x, n) - Pow2[n]
  <1> DEFINE v == Signed(Low(x, n), n)
             l == Low(x, n)
             h == Pow2[n - 1]
             m == Pow2[n]
  <1>1. h \in Nat \ {0} /\ m = 2 * h /\ n \in 0 .. 2 * W
    BY PowHalf
  <1>2. l \in 0 .. m - 1
    BY <1>1, LowType
  <1>3. /\ Bit(l, n - 1) = 1 <=> l >= h
        /\ v = IF l >= h THEN l - m ELSE l
    BY <1>2, SignedIs
  <1>4. Bit(l, n - 1) = Bit(x, n - 1)
    BY BitLow
  <1> HIDE DEF v, l, h, m
  <1>5. /\ v \in Int /\ -h <= v /\ v < h
        /\ v = l \/ v = l - m
        /\ v < 0 <=> Bit(x, n - 1) = 1
        /\ v >= 0 => v = l
        /\ v < 0 => v = l - m
    BY <1>1, <1>2, <1>3, <1>4
  <1> QED
    BY <1>5 DEF v, l, h, m

LEMMA SignedApart ==
  ASSUME NEW x \in Int, NEW n \in 1 .. 2 * W
  PROVE  \E k \in Int : x - Signed(Low(x, n), n) = Pow2[n] * k
  <1> DEFINE v == Signed(Low(x, n), n)
             l == Low(x, n)
             m == Pow2[n]
             q == x \div m
  <1>1. m \in Nat \ {0}
    BY PowHalf
  <1>2. v = l \/ v = l - m
    BY SignedLow
  <1>3. l = x % m
    BY DEF Low
  <1> HIDE DEF v, l, m
  <1>4. q \in Int /\ l \in Nat /\ x = m * q + l
    <2>1. q \in Int /\ x % m \in Nat /\ x = m * q + (x % m)
      BY <1>1, DivMod, Zenon
    <2> QED
      BY <1>3, <2>1
  <1> HIDE DEF q
  <1>5. CASE v = l
    <2>1. x - v = m * q
      BY <1>1, <1>4, <1>5
    <2> QED
      BY <1>4, <2>1 DEF v, m
  <1>6. CASE v = l - m
    <2>1. x - v = m * (q + 1) /\ q + 1 \in Int
      BY <1>1, <1>4, <1>6
    <2> QED
      BY <2>1 DEF v, m
  <1> QED
    BY <1>2, <1>5, <1>6

\* A number in range is the one its word stands for.
LEMMA SignedUnique ==
  ASSUME NEW n \in 1 .. 2 * W, NEW x \in Int, -Pow2[n - 1] <= x, x < Pow2[n - 1]
  PROVE  Signed(Low(x, n), n) = x
  <1> DEFINE h == Pow2[n - 1]
             m == Pow2[n]
  <1>1. h \in Nat \ {0} /\ m \in Nat \ {0} /\ m = 2 * h
    BY PowHalf
  <1>2. CASE x >= 0
    <2>1. x \in 0 .. m - 1 /\ ~(x >= h)
      BY <1>1, <1>2
    <2>2. Low(x, n) = x
      BY <1>1, <2>1, Small DEF Low
    <2> QED
      BY <2>1, <2>2, SignedIs
  <1>3. CASE x < 0
    <2>1. x + m \in 0 .. m - 1 /\ x + m >= h
      BY <1>1, <1>3
    <2>2. Low(x, n) = x + m
      <3>1. x = m * (-1) + (x + m)
        BY <1>1
      <3>2. x % m = x + m
        BY <1>1, <2>1, <3>1, DivIs
      <3> QED
        BY <3>2 DEF Low
    <2>3. Signed(x + m, n) = (x + m) - m
      BY <2>1, SignedIs
    <2> QED
      BY <1>1, <2>2, <2>3
  <1> QED
    BY <1>2, <1>3

LEMMA LowCongruent ==
  ASSUME NEW n \in 0 .. 2 * W, NEW x \in Int, NEW y \in Int, NEW k \in Int,
         x - y = Pow2[n] * k
  PROVE  Low(x, n) = Low(y, n)
  BY PowType, Congruent DEF Low

LEMMA ExtendSmall ==
  ASSUME NEW x \in Int, -Pow2[H - 1] <= x, x < Pow2[H - 1]
  PROVE  Extend(x, H) = Word64(x)
  <1>1. H \in 1 .. 2 * W
    BY WidthIs
  <1> QED
    BY <1>1, SignedUnique DEF Extend, Word64

-----------------------------------------------------------------------------
(***************************************************************************)
(* The answers.                                                            *)
(***************************************************************************)
\* The number that x stands for as a word of n bits.
Stands(x, n) == IF s THEN Signed(Low(x, n), n) ELSE Low(x, n)

LEMMA StandsType ==
  ASSUME s \in BOOLEAN, NEW x \in Int, NEW n \in 1 .. 2 * W
  PROVE  /\ Stands(x, n) \in Int
         /\ Stands(x, n) < 0 <=> s /\ Neg(x, n)
         /\ s => -Pow2[n - 1] <= Stands(x, n) /\ Stands(x, n) < Pow2[n - 1]
         /\ Stands(x, n) >= 0 => Stands(x, n) = Low(x, n)
         /\ Stands(x, n) < 0 => Stands(x, n) = Low(x, n) - Pow2[n]
         /\ \E k \in Int : x - Stands(x, n) = Pow2[n] * k
  <1>1. n \in 0 .. 2 * W /\ Pow2[n] \in Nat \ {0}
    BY PowHalf
  <1>2. CASE s
    <2>1. Stands(x, n) = Signed(Low(x, n), n)
      BY <1>2 DEF Stands
    <2> QED
      BY <1>2, <2>1, SignedLow, SignedApart DEF Neg
  <1>3. CASE ~s
    <2>1. Stands(x, n) = Low(x, n) /\ Low(x, n) \in Nat /\ Low(x, n) = x % Pow2[n]
      BY <1>1, <1>3, LowType DEF Stands, Low
    <2>2. x - Low(x, n) = Pow2[n] * (x \div Pow2[n]) /\ x \div Pow2[n] \in Int
      <3> DEFINE m == Pow2[n]
                 q == x \div m
                 r == x % m
      <3>1. m \in Nat \ {0}
        BY <1>1
      <3> HIDE DEF m
      <3>2. q \in Int /\ r \in Nat /\ x = m * q + r
        BY <3>1, DivMod, Zenon
      <3> HIDE DEF q, r
      <3>3. x - r = m * q
        BY <3>1, <3>2
      <3>4. Low(x, n) = r
        BY DEF Low, r, m
      <3> QED
        BY <3>2, <3>3, <3>4 DEF q, m
    <2> QED
      BY <1>3, <2>1, <2>2
  <1> QED
    BY <1>2, <1>3

\* num1 and num2 are the absolute values.
LEMMA MagnitudeIs ==
  ASSUME s \in BOOLEAN, NEW x \in Values, NEW half \in BOOLEAN,
         NEW n, n = IF half THEN H ELSE W
  PROVE  Magnitude(x, half) = Abs(Stands(x, n))
  <1> DEFINE m == Pow2[n]
             l == Low(x, n)
             y == Stands(x, n)
  <1>1. n \in 1 .. 2 * W /\ n \in 0 .. 2 * W /\ W \in 0 .. 2 * W
    BY WidthIs
  <1>2. x \in Int /\ x \in 0 .. Pow2[W] - 1
    BY PowWidth DEF Values
  <1>3. Low(x, W) = x
    BY <1>1, <1>2, LowSmall
  <1>4. m \in Nat \ {0} /\ m = 2 * Pow2[n - 1] /\ Pow2[n - 1] \in Nat \ {0}
    BY <1>1, PowHalf
  <1>5. l \in 0 .. m - 1
    BY <1>1, <1>2, LowType
  <1>6. Magnitude(x, half) = IF s /\ Neg(l, n) THEN Low(-l, n) ELSE l
    <2>1. CASE half
      BY <2>1 DEF Magnitude
    <2>2. CASE ~half
      <3>1. l = x /\ n = W
        BY <1>3, <2>2
      <3> HIDE DEF l
      <3> QED
        BY <2>2, <3>1 DEF Magnitude
    <2> QED
      BY <2>1, <2>2
  <1>7. Neg(l, n) <=> Neg(x, n)
    BY <1>1, <1>2, BitLow DEF Neg
  <1>8. /\ y \in Int
        /\ y < 0 <=> s /\ Neg(x, n)
        /\ s => -Pow2[n - 1] <= y
        /\ y >= 0 => y = l
        /\ y < 0 => y = l - m
    BY <1>1, <1>2, StandsType
  <1>9. CASE y < 0
    <2>1. Magnitude(x, half) = Low(-l, n)
      BY <1>6, <1>7, <1>8, <1>9
    <2>2. Low(-l, n) = (-l) % m
      BY DEF Low
    <2> HIDE DEF m, l, y
    <2>3. -l = m * (-1) + (m - l) /\ m - l \in 0 .. m - 1
      BY <1>4, <1>5, <1>8, <1>9
    <2>4. (-l) % m = m - l
      <3>1. PICK z : z = -l
        OBVIOUS
      <3>2. PICK r : r = m - l
        OBVIOUS
      <3>3. z = m * (-1) + r /\ r \in 0 .. m - 1 /\ -1 \in Int /\ m \in Nat \ {0}
        BY <1>4, <2>3, <3>1, <3>2
      <3>4. z % m = r
        BY <3>3, DivIs
      <3> QED
        BY <3>1, <3>2, <3>4
    <2>5. Abs(y) = m - l
      BY <1>4, <1>5, <1>8, <1>9 DEF Abs
    <2> QED
      BY <2>1, <2>2, <2>4, <2>5 DEF y
  <1>10. CASE ~(y < 0)
    <2>1. Magnitude(x, half) = l /\ y = l
      BY <1>6, <1>7, <1>8, <1>10
    <2> QED
      BY <1>10, <2>1 DEF Abs
  <1> QED
    BY <1>9, <1>10

LEMMA NumStands == \A x : Num(x) = Stands(x, IF w THEN H ELSE W)
  BY DEF Num, Stands

LEMMA WordInt == \A x \in Values : x \in Int /\ x \in 0 .. Pow2[W] - 1
  BY PowWidth DEF Values

LEMMA HalfIs ==
  /\ W \in 1 .. 2 * W /\ H \in 1 .. 2 * W
  /\ W \in 0 .. 2 * W /\ H \in 0 .. 2 * W
  /\ Pow2[H] \in Nat \ {0} /\ Pow2[H - 1] \in Nat \ {0}
  /\ Pow2[W] = Pow2[H] * Pow2[H]
  /\ Pow2[W] \in Nat \ {0}
  <1>1. /\ W \in 1 .. 2 * W /\ H \in 1 .. 2 * W
        /\ W \in 0 .. 2 * W /\ H \in 0 .. 2 * W
        /\ H \in Nat /\ H + H = W /\ H + H <= 2 * W
    BY WidthIs
  <1>2. Pow2[H + H] = Pow2[H] * Pow2[H]
    BY <1>1, PowSum
  <1>3. Pow2[H] \in Nat \ {0} /\ Pow2[H - 1] \in Nat \ {0} /\ Pow2[W] \in Nat \ {0}
    BY <1>1, PowHalf
  <1> QED
    BY <1>1, <1>2, <1>3

\* The halves of two words, as numbers, have the product of the whole words up
\* to the upper half.
LEMMA HalfProduct ==
  ASSUME s \in BOOLEAN, NEW x \in Values, NEW y \in Values
  PROVE  Extend(Stands(x, W) * Stands(y, W), H) = Extend(Stands(x, H) * Stands(y, H), H)
  <1> DEFINE p == Stands(x, W)
             q == Stands(y, W)
             m == Stands(x, H)
             n == Stands(y, H)
             D == Pow2[H]
  <1>1. x \in Int /\ y \in Int
    BY WordInt
  <1>2. D \in Nat \ {0} /\ Pow2[W] = D * D /\ H \in 0 .. 2 * W
    BY HalfIs
  <1>3. p \in Int /\ q \in Int /\ m \in Int /\ n \in Int
    BY <1>1, HalfIs, StandsType
  <1>4. PICK i \in Int : x - p = Pow2[W] * i
    BY <1>1, HalfIs, StandsType
  <1>5. PICK j \in Int : y - q = Pow2[W] * j
    BY <1>1, HalfIs, StandsType
  <1>6. PICK k \in Int : x - m = Pow2[H] * k
    BY <1>1, HalfIs, StandsType
  <1>7. PICK l \in Int : y - n = Pow2[H] * l
    BY <1>1, HalfIs, StandsType
  <1> HIDE DEF p, q, m, n, D
  <1> DEFINE c == k - D * i
             d == l - D * j
  <1>8. c \in Int /\ d \in Int
    BY <1>2
  <1>9. p - m = D * c
    <2>1. x - p = D * (D * i) /\ x - m = D * k
      BY <1>2, <1>4, <1>6 DEF D
    <2>2. D * c = D * k - D * (D * i)
      BY <1>2
    <2> DEFINE e == D * (D * i)
               f == D * k
    <2>3. e \in Int /\ f \in Int
      BY <1>2
    <2> HIDE DEF e, f
    <2>4. x - p = e /\ x - m = f /\ D * c = f - e
      BY <2>1, <2>2 DEF e, f
    <2> HIDE DEF c
    <2> QED
      BY <1>1, <1>3, <2>3, <2>4
  <1>10. q - n = D * d
    <2>1. y - q = D * (D * j) /\ y - n = D * l
      BY <1>2, <1>5, <1>7 DEF D
    <2>2. D * d = D * l - D * (D * j)
      BY <1>2
    <2> DEFINE e == D * (D * j)
               f == D * l
    <2>3. e \in Int /\ f \in Int
      BY <1>2
    <2> HIDE DEF e, f
    <2>4. y - q = e /\ y - n = f /\ D * d = f - e
      BY <2>1, <2>2 DEF e, f
    <2> HIDE DEF d
    <2> QED
      BY <1>1, <1>3, <2>3, <2>4
  <1> HIDE DEF c, d
  <1>11. p * q - m * n = D * (c * q + m * d)
    <2>1. p * q - m * n = (p - m) * q + m * (q - n)
      BY <1>3
    <2>2. (p - m) * q + m * (q - n) = (D * c) * q + m * (D * d)
      BY <1>9, <1>10
    <2>3. (D * c) * q + m * (D * d) = D * (c * q + m * d)
      BY <1>2, <1>3, <1>8
    <2> QED
      BY <2>1, <2>2, <2>3
  <1>12. p * q \in Int /\ m * n \in Int /\ c * q + m * d \in Int
    BY <1>3, <1>8
  <1>13. Low(p * q, H) = Low(m * n, H)
    BY <1>2, <1>11, <1>12, LowCongruent DEF D
  <1> QED
    BY <1>13 DEF Extend, p, q, m, n

LEMMA ProductRight ==
  ASSUME TypeOK, unit = "mul", u.p = num1 * num2
  PROVE  mulres = AsWord(Num(a) * Num(b))
  <1> DEFINE x == Stands(a, W)
             y == Stands(b, W)
             neg == s /\ (Neg(a, W) # Neg(b, W))
             temp == IF neg THEN -u.p ELSE u.p
  <1>1. a \in Values /\ b \in Values /\ a \in Int /\ b \in Int /\ s \in BOOLEAN /\ w \in BOOLEAN
    BY WordInt DEF TypeOK
  <1>2. num1 = Abs(x) /\ num2 = Abs(y)
    <2>1. unit # "div" /\ (unit = "div" /\ w) = FALSE /\ FALSE \in BOOLEAN
      OBVIOUS
    <2>2. Magnitude(a, FALSE) = Abs(Stands(a, W)) /\ Magnitude(b, FALSE) = Abs(Stands(b, W))
      BY <1>1, MagnitudeIs
    <2> QED
      BY <2>1, <2>2 DEF num1, num2
  <1>3. x \in Int /\ y \in Int /\ (x < 0 <=> s /\ Neg(a, W)) /\ (y < 0 <=> s /\ Neg(b, W))
    BY <1>1, HalfIs, StandsType
  <1>4. mulres = IF w THEN Extend(temp, H) ELSE Word64(temp)
    BY DEF mulres
  <1>5. u.p = Abs(x) * Abs(y)
    BY <1>2
  <1>6. neg <=> ((x < 0) # (y < 0))
    BY <1>1, <1>3 DEF Neg
  <1> HIDE DEF x, y, neg
  <1>7. temp = x * y
    BY <1>3, <1>5, <1>6 DEF Abs
  <1> HIDE DEF temp
  <1>8. CASE w
    <2>1. Extend(x * y, H) = Extend(Stands(a, H) * Stands(b, H), H)
      BY <1>1, HalfProduct DEF x, y
    <2>2. Num(a) = Stands(a, H) /\ Num(b) = Stands(b, H)
      BY <1>8, NumStands
    <2> QED
      BY <1>4, <1>7, <1>8, <2>1, <2>2 DEF AsWord
  <1>9. CASE ~w
    <2>1. Num(a) = x /\ Num(b) = y
      BY <1>9, NumStands DEF x, y
    <2> QED
      BY <1>4, <1>7, <1>9, <2>1 DEF AsWord
  <1> QED
    BY <1>8, <1>9

\* Division of numbers from that of their absolute values.
LEMMA Division ==
  ASSUME NEW x \in Int, NEW y \in Int, NEW q \in Nat, NEW r \in Nat,
         Abs(x) = q * Abs(y) + r, y # 0 => r < Abs(y)
  PROVE  /\ Remainder(x, y) = IF x < 0 THEN -r ELSE r
         /\ y = 0 => Quotient(x, y) = -1
         /\ y # 0 => Quotient(x, y) = IF x < 0 <=> y < 0 THEN q ELSE -q
  <1>1. CASE y = 0
    <2>1. Abs(y) = 0
      BY <1>1 DEF Abs
    <2>2. Abs(x) = r
      BY <2>1
    <2> QED
      BY <1>1, <2>2 DEF Abs, Remainder, Quotient
  <1>2. CASE y # 0
    <2> DEFINE d == Abs(y)
               e == Abs(x)
    <2>1. d \in Nat \ {0} /\ e \in Nat
      BY <1>2 DEF Abs
    <2> HIDE DEF d, e
    <2>2. e = d * q + r /\ r \in 0 .. d - 1
      BY <1>2, <2>1 DEF d, e
    <2>3. e % d = r /\ e \div d = q
      BY <2>1, <2>2, DivIs
    <2>4. Remainder(x, y) = Sign(x) * r /\ Quotient(x, y) = Sign(x) * Sign(y) * q
      BY <1>2, <2>3 DEF d, e, Remainder, Quotient
    <2> QED
      BY <1>2, <2>4 DEF Sign
  <1> QED
    BY <1>1, <1>2

\* Which answer div.sv gives, by the signs of the numbers.
LEMMA DivresIs ==
  ASSUME TypeOK, unit = "div",
         NEW n, n = IF w THEN H ELSE W,
         NEW x, x = Stands(a, n), NEW y, y = Stands(b, n)
  PROVE  divres =
           IF x < 0 /\ y = 0 THEN <<Negate(rem), quo>>
           ELSE IF x < 0 /\ ~(y < 0) THEN <<Negate(rem), Negate(quo)>>
           ELSE IF ~(x < 0) /\ y < 0 THEN <<rem, Negate(quo)>>
           ELSE IF x < 0 /\ y < 0 THEN <<Negate(rem), IF w THEN Extend(quo, H) ELSE quo>>
           ELSE IF w THEN <<Extend(rem, H), Extend(quo, H)>>
           ELSE <<rem, quo>>
  <1>1. a \in Values /\ b \in Values /\ a \in Int /\ b \in Int /\ s \in BOOLEAN /\ w \in BOOLEAN
    BY WordInt DEF TypeOK
  <1>2. n \in 1 .. 2 * W
    BY HalfIs
  <1>3. /\ x \in Int /\ y \in Int
        /\ x < 0 <=> s /\ Neg(a, n)
        /\ y < 0 <=> s /\ Neg(b, n)
    BY <1>1, <1>2, StandsType
  <1>4. num2 = Abs(y)
    <2>1. (unit = "div" /\ w) = w
      BY <1>1
    <2>2. Magnitude(b, w) = Abs(Stands(b, n))
      BY <1>1, MagnitudeIs
    <2> QED
      BY <2>1, <2>2 DEF num2
  <1>5. num2 = 0 <=> y = 0
    BY <1>3, <1>4 DEF Abs
  <1>6. y = 0 => ~(y < 0)
    OBVIOUS
  <1>7. CASE w
    <2>1. n = H
      BY <1>7
    <2>2. divres = IF s /\ Neg(a, H) /\ num2 = 0 THEN <<Negate(rem), quo>>
                   ELSE IF s /\ Neg(a, H) /\ ~Neg(b, H) THEN <<Negate(rem), Negate(quo)>>
                   ELSE IF s /\ ~Neg(a, H) /\ Neg(b, H) THEN <<rem, Negate(quo)>>
                   ELSE IF s /\ Neg(a, H) /\ Neg(b, H) THEN <<Negate(rem), Extend(quo, H)>>
                   ELSE <<Extend(rem, H), Extend(quo, H)>>
      BY <1>7, Zenon DEF divres
    <2>3. (x < 0 <=> s /\ Neg(a, H)) /\ (y < 0 <=> s /\ Neg(b, H))
      BY <1>3, <2>1
    <2> QED
      BY <1>5, <1>7, <2>2, <2>3
  <1>8. CASE ~w
    <2>1. n = W
      BY <1>8
    <2>2. divres = IF s /\ Neg(a, W) /\ b = 0 THEN <<Negate(rem), quo>>
                   ELSE IF s /\ Neg(a, W) /\ ~Neg(b, W) THEN <<Negate(rem), Negate(quo)>>
                   ELSE IF s /\ ~Neg(a, W) /\ Neg(b, W) THEN <<rem, Negate(quo)>>
                   ELSE IF s /\ Neg(a, W) /\ Neg(b, W) THEN <<Negate(rem), quo>>
                   ELSE <<rem, quo>>
      BY <1>8, Zenon DEF divres
    <2>3. (x < 0 <=> s /\ Neg(a, W)) /\ (y < 0 <=> s /\ Neg(b, W))
      BY <1>3, <2>1
    <2>4. b = 0 <=> y = 0
      <3>1. Low(b, W) = b /\ Pow2[W] \in Nat \ {0} /\ b < Pow2[W]
        BY <1>1, HalfIs, LowSmall, WordInt
      <3>2. (y >= 0 => y = Low(b, W)) /\ (y < 0 => y = Low(b, W) - Pow2[W])
            /\ (s => -Pow2[W - 1] <= y) /\ (~s => ~(y < 0))
        BY <1>1, <1>2, <1>3, <2>1, StandsType
      <3>3. Pow2[W] = 2 * Pow2[W - 1] /\ Pow2[W - 1] \in Nat \ {0}
        BY PowWidth
      <3> QED
        BY <1>1, <1>3, <3>1, <3>2, <3>3
    <2> QED
      BY <1>8, <2>2, <2>3, <2>4
  <1> QED
    BY <1>1, <1>7, <1>8

LEMMA ExtendOnes == Extend(Pow2[W] - 1, H) = Pow2[W] - 1 /\ Extend(-1, H) = Pow2[W] - 1
                    /\ Word64(-1) = Pow2[W] - 1
  <1> DEFINE P == Pow2[W]
             D == Pow2[H]
  <1>1. D \in Nat \ {0} /\ P = D * D /\ P \in Nat \ {0} /\ H \in 0 .. 2 * W
    BY HalfIs
  <1>2. Word64(-1) = (-1) % P
    BY DEF Word64
  <1>3. Low(P - 1, H) = Low(-1, H)
    <2>1. (P - 1) - (-1) = Pow2[H] * D /\ P - 1 \in Int /\ -1 \in Int /\ D \in Int
      BY <1>1
    <2> HIDE DEF P, D
    <2> QED
      BY <1>1, <2>1, LowCongruent
  <1>4. Extend(-1, H) = Word64(-1)
    <2>1. -Pow2[H - 1] <= -1 /\ -1 < Pow2[H - 1] /\ -1 \in Int
      BY HalfIs
    <2> QED
      BY <2>1, ExtendSmall
  <1> HIDE DEF P, D
  <1>5. (-1) % P = P - 1
    <2>1. PICK z : z = -1
      OBVIOUS
    <2>2. z = P * (-1) + (P - 1) /\ P - 1 \in 0 .. P - 1 /\ -1 \in Int
      BY <1>1, <2>1
    <2>3. z % P = P - 1
      BY <1>1, <2>2, DivIs
    <2> QED
      BY <2>1, <2>3
  <1> QED
    BY <1>2, <1>3, <1>4, <1>5 DEF Extend, P

LEMMA DivisionRight ==
  ASSUME TypeOK, unit = "div", Divided(u.p, W, Low(u.p, W), rem)
  PROVE  divres = <<AsWord(Remainder(Num(a), Num(b))), AsWord(Quotient(Num(a), Num(b)))>>
  <1> DEFINE n == IF w THEN H ELSE W
  <1>1. PICK x : x = Stands(a, n)
    OBVIOUS
  <1>2. PICK y : y = Stands(b, n)
    OBVIOUS
  <1>3. PICK q : q = quo
    OBVIOUS
  <1>4. PICK r : r = rem
    OBVIOUS
  <1>5. a \in Values /\ b \in Values /\ a \in Int /\ b \in Int /\ s \in BOOLEAN /\ w \in BOOLEAN
    BY WordInt DEF TypeOK
  <1>6. n \in 1 .. 2 * W
    BY HalfIs
  <1>7. x \in Int /\ y \in Int
    BY <1>1, <1>2, <1>5, <1>6, StandsType
  <1>8. num1 = Abs(x) /\ num2 = Abs(y)
    <2>1. (unit = "div" /\ w) = w
      BY <1>5
    <2>2. Magnitude(a, w) = Abs(Stands(a, n)) /\ Magnitude(b, w) = Abs(Stands(b, n))
      BY <1>5, MagnitudeIs
    <2> QED
      BY <1>1, <1>2, <2>1, <2>2 DEF num1, num2
  <1>9. Num(a) = x /\ Num(b) = y
    BY <1>1, <1>2, NumStands
  <1>10. PICK P : P = Pow2[W]
    OBVIOUS
  <1>11. P \in Nat \ {0}
    BY <1>10, HalfIs
  <1>12. /\ q \in 0 .. P - 1 /\ q \in Nat /\ r \in Nat
         /\ Abs(x) = q * Abs(y) + r
         /\ y = 0 => q = P - 1
         /\ y # 0 => r < Abs(y)
         /\ r \in 0 .. P - 1
    <2>1. /\ quo \in 0 .. Pow2[W] - 1 /\ rem \in Nat
          /\ num1 = quo * num2 + rem
          /\ IF num2 = 0 THEN quo = Pow2[W] - 1 ELSE rem < num2
      BY DivEnd
    <2>2. num2 = 0 <=> y = 0
      BY <1>7, <1>8 DEF Abs
    <2>3. num1 < Pow2[W] /\ num1 \in Nat /\ num2 \in Nat
      BY NumType
    <2>4. rem <= num1
      <3>1. quo * num2 \in Nat
        BY <1>10, <1>11, <2>1, <2>3
      <3> QED
        BY <2>1, <2>3, <3>1
    <2> QED
      BY <1>3, <1>4, <1>8, <1>10, <1>11, <2>1, <2>2, <2>3, <2>4
  <1>13. /\ Remainder(x, y) = IF x < 0 THEN -r ELSE r
         /\ y = 0 => Quotient(x, y) = -1
         /\ y # 0 => Quotient(x, y) = IF x < 0 <=> y < 0 THEN q ELSE -q
    BY <1>7, <1>12, Division
  <1>14. divres =
           IF x < 0 /\ y = 0 THEN <<Negate(r), q>>
           ELSE IF x < 0 /\ ~(y < 0) THEN <<Negate(r), Negate(q)>>
           ELSE IF ~(x < 0) /\ y < 0 THEN <<r, Negate(q)>>
           ELSE IF x < 0 /\ y < 0 THEN <<Negate(r), IF w THEN Extend(q, H) ELSE q>>
           ELSE IF w THEN <<Extend(r, H), Extend(q, H)>>
           ELSE <<r, q>>
    BY <1>1, <1>2, <1>3, <1>4, DivresIs
  <1>15. Word64(q) = q /\ Word64(r) = r
    BY <1>10, <1>11, <1>12, Small DEF Word64
  <1>16. Word64(-1) = P - 1 /\ Extend(-1, H) = P - 1 /\ Extend(P - 1, H) = P - 1
    BY <1>10, ExtendOnes
  <1>17. Negate(q) = Word64(-q) /\ Negate(r) = Word64(-r)
    BY DEF Negate
  <1>18. \A v : AsWord(v) = IF w THEN Extend(v, H) ELSE Word64(v)
    BY DEF AsWord
  <1>19. x < 0 \/ y < 0 => s
    BY <1>1, <1>2, <1>5, <1>6, StandsType
  <1>20. ASSUME w, s
         PROVE  /\ x < 0 => Extend(-r, H) = Word64(-r)
                /\ ~(x < 0) => Extend(r, H) = Word64(r)
                /\ y # 0 => Extend(-q, H) = Word64(-q)
    <2>1. PICK h : h = Pow2[H - 1]
      OBVIOUS
    <2>2. h \in Nat \ {0}
      BY <2>1, HalfIs
    <2>3. -h <= x /\ x < h
      <3>1. n = H
        BY <1>20
      <3> QED
        BY <1>1, <1>5, <1>6, <1>20, <2>1, <3>1, StandsType
    <2>4. r <= Abs(x) /\ (y # 0 => q <= Abs(x))
      <3>1. Abs(x) \in Nat /\ Abs(y) \in Nat /\ (y # 0 => Abs(y) >= 1)
        BY <1>7 DEF Abs
      <3> DEFINE e == Abs(x)
                 d == Abs(y)
      <3> HIDE DEF e, d
      <3>2. e = q * d + r /\ e \in Nat /\ d \in Nat /\ (y # 0 => d >= 1)
        BY <1>12, <3>1 DEF e, d
      <3>3. q * d \in Nat
        BY <1>12, <3>2
      <3>4. y # 0 => q * d >= q
        BY <1>12, <3>2
      <3>5. r <= e /\ (y # 0 => q <= e)
        BY <1>12, <3>2, <3>3, <3>4
      <3> QED
        BY <3>5 DEF e
    <2>5. /\ x < 0 => -h <= -r /\ -r < h
          /\ ~(x < 0) => -h <= r /\ r < h
          /\ y # 0 => -h <= -q /\ -q < h
      BY <1>7, <1>12, <2>2, <2>3, <2>4 DEF Abs
    <2>6. -r \in Int /\ r \in Int /\ -q \in Int
      BY <1>12
    <2>7. x < 0 => Extend(-r, H) = Word64(-r)
      BY <2>1, <2>5, <2>6, ExtendSmall
    <2>8. ~(x < 0) => Extend(r, H) = Word64(r)
      BY <2>1, <2>5, <2>6, ExtendSmall
    <2>9. y # 0 => Extend(-q, H) = Word64(-q)
      BY <2>1, <2>5, <2>6, ExtendSmall
    <2> QED
      BY <2>7, <2>8, <2>9
  <1> HIDE DEF n
  <1>21. divres = <<AsWord(Remainder(x, y)), AsWord(Quotient(x, y))>>
    <2>1. CASE x < 0 /\ y = 0
      <3>1. s
        BY <1>19, <2>1
      <3>2. Remainder(x, y) = -r /\ Quotient(x, y) = -1
        BY <1>13, <2>1
      <3>3. AsWord(-r) = Word64(-r)
        BY <1>5, <1>18, <1>20, <2>1, <3>1
      <3>4. AsWord(-1) = P - 1
        BY <1>16, <1>18
      <3>5. divres = <<Negate(r), q>> /\ q = P - 1
        BY <1>12, <1>14, <2>1
      <3> QED
        BY <1>17, <3>2, <3>3, <3>4, <3>5
    <2>2. CASE x < 0 /\ y # 0 /\ ~(y < 0)
      <3>1. s
        BY <1>19, <2>2
      <3>2. Remainder(x, y) = -r /\ Quotient(x, y) = -q
        BY <1>13, <2>2
      <3>3. AsWord(-r) = Word64(-r) /\ AsWord(-q) = Word64(-q)
        BY <1>5, <1>18, <1>20, <2>2, <3>1
      <3>4. divres = <<Negate(r), Negate(q)>>
        BY <1>14, <2>2
      <3> QED
        BY <1>17, <3>2, <3>3, <3>4
    <2>3. CASE ~(x < 0) /\ y < 0
      <3>1. s /\ y # 0
        BY <1>7, <1>19, <2>3
      <3>2. Remainder(x, y) = r /\ Quotient(x, y) = -q
        BY <1>13, <2>3, <3>1
      <3>3. AsWord(r) = Word64(r) /\ AsWord(-q) = Word64(-q)
        BY <1>5, <1>18, <1>20, <2>3, <3>1
      <3>4. divres = <<r, Negate(q)>>
        BY <1>14, <2>3
      <3> QED
        BY <1>15, <1>17, <3>2, <3>3, <3>4
    <2>4. CASE x < 0 /\ y < 0
      <3>1. s /\ y # 0
        BY <1>7, <1>19, <2>4
      <3>2. Remainder(x, y) = -r /\ Quotient(x, y) = q
        BY <1>13, <2>4, <3>1
      <3>3. AsWord(-r) = Word64(-r)
        BY <1>5, <1>18, <1>20, <2>4, <3>1
      <3>4. AsWord(q) = IF w THEN Extend(q, H) ELSE q
        BY <1>15, <1>18
      <3>5. divres = <<Negate(r), IF w THEN Extend(q, H) ELSE q>>
        BY <1>14, <2>4, <3>1
      <3> QED
        BY <1>17, <3>2, <3>3, <3>4, <3>5
    <2>5. CASE ~(x < 0) /\ ~(y < 0)
      <3>1. Remainder(x, y) = r
        BY <1>13, <2>5
      <3>2. AsWord(Quotient(x, y)) = AsWord(q)
        <4>1. CASE y = 0
          <5>1. AsWord(-1) = P - 1 /\ AsWord(q) = P - 1
            BY <1>12, <1>15, <1>16, <1>18, <4>1
          <5> QED
            BY <1>13, <4>1, <5>1
        <4>2. CASE y # 0
          BY <1>13, <2>5, <4>2
        <4> QED
          BY <4>1, <4>2
      <3>3. divres = IF w THEN <<Extend(r, H), Extend(q, H)>> ELSE <<r, q>>
        BY <1>14, <2>5
      <3> QED
        BY <1>15, <1>18, <3>1, <3>2, <3>3
    <2> QED
      BY <1>7, <2>1, <2>2, <2>3, <2>4, <2>5
  <1> QED
    BY <1>9, <1>21

LEMMA NothingIsLost ==
  ASSUME UnitsInv
  PROVE  NothingLost
  <1> SUFFICES ASSUME unit = "div", valid, u.state = 1, u.count > 0
               PROVE  LET n == u.count - 1
                          q == Low(u.p, n)
                      IN  /\ num1 \div Pow2[W - n] = q * num2 + rem \/ num2 = 0
                          /\ rem < num2 \/ num2 = 0
                          /\ n < W => rem < Pow2[W - 1]
    BY DEF NothingLost
  <1>1. PICK n : n = u.count - 1
    OBVIOUS
  <1>2. TypeOK /\ u.count <= W + 1 /\ SoFar(u.p, u.count - 1)
    BY DEF UnitsInv
  <1>3. n \in 0 .. W
    <2>1. u.count \in 0 .. W + 2
      BY <1>2, Registers
    <2> QED
      BY <1>1, <1>2, <2>1, WidthIs
  <1>4. Divided(u.p, n, Low(u.p, n), rem)
    BY <1>1, <1>2 DEF SoFar, rem
  <1>5. /\ num1 \div Pow2[W - n] = Low(u.p, n) * num2 + rem
        /\ num2 # 0 => rem < num2
        /\ rem \in Nat
    BY <1>4 DEF Divided
  <1>6. n < W => rem < Pow2[W - 1]
    <2> SUFFICES ASSUME n < W PROVE rem < Pow2[W - 1]
      OBVIOUS
    <2>1. /\ W - 1 - n \in Nat /\ n \in Nat /\ (W - 1 - n) + n = W - 1
          /\ W - 1 <= 2 * W
      BY <1>3, WidthIs
    <2>2. /\ Pow2[W - 1 - n] \in Nat \ {0} /\ Pow2[n] \in Nat \ {0}
          /\ Pow2[(W - 1 - n) + n] = Pow2[W - 1 - n] * Pow2[n]
      BY <2>1, PowSum
    <2>3. Pow2[W - 1] = Pow2[W - 1 - n] * Pow2[n]
      BY <2>1, <2>2
    <2>4. Pow2[W - 1] >= Pow2[n]
      <3> DEFINE c == Pow2[W - 1 - n]
                 d == Pow2[n]
      <3> HIDE DEF c, d
      <3>1. c \in Nat \ {0} /\ d \in Nat \ {0} /\ Pow2[W - 1] = c * d
        BY <2>2, <2>3 DEF c, d
      <3>2. c * d >= d
        BY <3>1
      <3> QED
        BY <3>1, <3>2 DEF d
    <2>5. rem <= num1 \div Pow2[W - n] /\ num1 \div Pow2[W - n] < Pow2[n]
      BY <1>2, <1>3, <1>4, DividedBound
    <2>6. num1 \div Pow2[W - n] \in Int /\ Pow2[W - 1] \in Nat
      <3>1. W - n \in 0 .. 2 * W
        BY <1>3, WidthIs
      <3>2. Pow2[W - n] \in Nat \ {0}
        BY <3>1, PowType
      <3>3. num1 \in Int
        BY <1>2, NumType
      <3> QED
        BY <3>2, <3>3, DivMod, PowWidth
    <2> QED
      BY <1>5, <2>2, <2>4, <2>5, <2>6
  <1> QED
    BY <1>1, <1>5, <1>6

LEMMA UnitsRightFromInv == UnitsInv => UnitsRight
  <1> SUFFICES ASSUME UnitsInv PROVE UnitsRight
    OBVIOUS
  <1>1. TypeOK /\ (u.done => SoFar(u.p, W))
    BY DEF UnitsInv
  <1>2. MulRight
    <2> SUFFICES ASSUME unit = "mul", u.done PROVE mulres = AsWord(Num(a) * Num(b))
      BY DEF MulRight
    <2>1. Multiplied(u.p, W)
      BY <1>1 DEF SoFar
    <2> QED
      BY <1>1, <2>1, MulEnd, ProductRight
  <1>3. DivRight
    <2> SUFFICES ASSUME unit = "div", u.done
                 PROVE  divres = <<AsWord(Remainder(Num(a), Num(b))),
                                   AsWord(Quotient(Num(a), Num(b)))>>
      BY DEF DivRight
    <2>1. Divided(u.p, W, Low(u.p, W), rem)
      BY <1>1 DEF SoFar, rem
    <2> QED
      BY <1>1, <2>1, DivisionRight
  <1> QED
    BY <1>1, <1>2, <1>3, NothingIsLost DEF UnitsRight

\* mul.sv and div.sv on words of any of the widths, for all operands: the
\* product, the quotient and the remainder that RV64M defines, for all signs,
\* zero divisors and the quotient that does not fit; nothing is lost midway.
THEOREM UnitsCompute == MCSpec => []UnitsRight
  <1>1. MCInit => UnitsInv
    BY UnitsInit DEF MCInit
  <1>2. UnitsInv /\ [MCNext]_<<part, vars, execVars, laneVars>> => UnitsInv'
    <2>1. [MCNext]_<<part, vars, execVars, laneVars>> => [Next]_vars
      BY DEF MCNext, PathNext, UnitsNext, LanesNext
    <2> QED
      BY <2>1, UnitsStep
  <1> QED
    BY <1>1, <1>2, UnitsRightFromInv, PTL DEF MCSpec

-----------------------------------------------------------------------------
(***************************************************************************)
(* The byte lanes.                                                         *)
(***************************************************************************)
LEMMA WidthType ==
  ASSUME NEW size \in Row!Sizes
  PROVE  Row!Width(size) \in Int
  <1>1. size \in Int /\ size >= 0
    BY ByteAssumption DEF Row!Sizes
  <1> QED
    BY <1>1 DEF Row!Width

\* An aligned access touches the bytes from its address on.
LEMMA AlignedFirst ==
  ASSUME NEW addr \in Row!Lane, NEW size \in Row!Sizes, addr % Row!Width(size) = 0
  PROVE  /\ Row!First(addr, size) = addr
         /\ \A l \in Row!Lane : l \in Row!Touched(addr, size) <=> l - addr \in 0 .. Row!Width(size) - 1
  <1>1. addr \in Int
    BY DEF Row!Lane
  <1>2. Row!First(addr, size) = addr
    BY <1>1 DEF Row!First
  <1>3. Row!Touched(addr, size) = addr .. addr + Row!Width(size) - 1
    BY <1>2 DEF Row!Touched
  <1>4. \A l \in Row!Lane : l \in Int
    BY DEF Row!Lane
  <1>5. Row!Width(size) \in Int
    BY WidthType
  <1> QED
    BY <1>1, <1>2, <1>3, <1>4, <1>5

LEMMA StoreImplements ==
  ASSUME NEW addr \in Row!Lane, NEW size \in Row!Sizes, addr % Row!Width(size) = 0, Row!Store(addr, size)
  PROVE  Row!Program!Store(addr, size)
  <1>1. /\ Row!First(addr, size) = addr
        /\ \A l \in Row!Lane : l \in Row!Touched(addr, size) <=> l - addr \in 0 .. Row!Width(size) - 1
    BY AlignedFirst
  <1>2. cell' = [l \in Row!Lane |-> IF l \in Row!Touched(addr, size)
                                  THEN reg[l - addr] ELSE cell[l]]
    BY <1>1 DEF Row!Store, Row!Merge, Row!wd, Row!strobe
  <1>3. cell' = [l \in Row!Lane |-> IF l - addr \in 0 .. Row!Width(size) - 1
                                  THEN reg[l - addr] ELSE cell[l]]
    BY <1>1, <1>2
  <1> QED
    BY <1>3 DEF Row!Store, Row!Program!Store, Row!Program!Lane, Row!Program!Width, Row!Lane, Row!Width

LEMMA LoadImplements ==
  ASSUME NEW addr \in Row!Lane, NEW size \in Row!Sizes, NEW m \in BOOLEAN,
         addr % Row!Width(size) = 0, Row!Load(addr, size, m)
  PROVE  Row!Program!Load(addr, size, m)
  <1>1. Row!First(addr, size) = addr
    BY AlignedFirst
  <1>2. reg' = [l \in Row!Lane |->
                  IF l < Row!Width(size) THEN cell[addr + l]
                  ELSE IF m \/ cell[addr + Row!Width(size) - 1] \notin Negative
                    THEN 0 ELSE FF]
    BY <1>1 DEF Row!Load, Row!rd
  <1> QED
    BY <1>2 DEF Row!Load, Row!Program!Load, Row!Program!Lane, Row!Program!Width, Row!Lane, Row!Width

LEMMA RowInit == MCInit => Row!Program!Init
  <1>1. MCInit => cell \in Row!Words /\ reg \in Row!Words
    BY ByteAssumption DEF MCInit, Row!Init, Row!Words, Row!Lane, Lane
  <1>2. cell \in Row!Words /\ reg \in Row!Words => Row!Program!Init
    BY DEF Row!Program!Init, Row!Words, Row!Program!Words, Row!Lane, Row!Program!Lane
  <1> QED
    BY <1>1, <1>2

LEMMA RowStep == [Row!Next]_laneVars => [Row!Program!Next]_<<cell, reg>>
  <1>1. ASSUME Row!Next
        PROVE  Row!Program!Next
    <2>1. PICK place \in Row!Places :
            \/ Row!Store(place[1], place[2])
            \/ \E m \in BOOLEAN : Row!Load(place[1], place[2], m)
      BY <1>1 DEF Row!Next
    <2>2. /\ place[1] \in Row!Lane /\ place[2] \in Row!Sizes
          /\ place[1] % Row!Width(place[2]) = 0
      BY DEF Row!Places
    <2>3. place \in Row!Program!Places
      BY DEF Row!Places, Row!Program!Places, Row!Lane, Row!Program!Lane, Row!Sizes, Row!Program!Sizes,
             Row!Width, Row!Program!Width
    <2>4. \/ Row!Program!Store(place[1], place[2])
          \/ \E m \in BOOLEAN : Row!Program!Load(place[1], place[2], m)
      BY <2>1, <2>2, StoreImplements, LoadImplements
    <2> QED
      BY <2>3, <2>4 DEF Row!Program!Next
  <1> QED
    BY <1>1 DEF laneVars

\* wd.sv, the strobed merge of ram.sv and rd.sv implement a row of bytes, for
\* words of one to eight bytes and any set of byte values: what a store of one
\* size leaves, a load of any size sees.
THEOREM LanesImplement == MCSpec => SeesBytes
  <1>1. [MCNext]_<<part, vars, execVars, laneVars>> => [Row!Next]_laneVars
    BY DEF MCNext, PathNext, UnitsNext, LanesNext
  <1> QED
    BY <1>1, RowInit, RowStep, PTL DEF MCSpec, SeesBytes, Row!SeesBytes, Row!Program!Spec
-----------------------------------------------------------------------------
(***************************************************************************)
(* Decode and control unit: the ports of every group of instructions, and  *)
(* from them what each mnemonic drives.                                    *)
(***************************************************************************)
LEMMA Lookup ==
  ASSUME NEW k \in 0 .. 7, NEW a0, NEW a1, NEW a2, NEW a3, NEW a4, NEW a5, NEW a6, NEW a7,
         NEW t, t = <<a0, a1, a2, a3, a4, a5, a6, a7>>[k + 1]
  PROVE  \/ (k = 0 /\ t = a0) \/ (k = 1 /\ t = a1) \/ (k = 2 /\ t = a2) \/ (k = 3 /\ t = a3)
         \/ (k = 4 /\ t = a4) \/ (k = 5 /\ t = a5) \/ (k = 6 /\ t = a6) \/ (k = 7 /\ t = a7)
  <1>1. k = 0 \/ k = 1 \/ k = 2 \/ k = 3 \/ k = 4 \/ k = 5 \/ k = 6 \/ k = 7
    OBVIOUS
  <1> QED
    BY <1>1

\* The ports that most of the data path looks at.
Ports(c, jump, m2, br, aluc, shift, aluimm, wreg) ==
  /\ c.jump = jump /\ c.m2reg = m2 /\ c.branch = br /\ c.aluc = aluc
  /\ c.shift = shift /\ c.aluimm = aluimm /\ c.wreg = wreg

Asks(c, d, wmem, mul, div) ==
  /\ c.d_valid = d /\ c.wmem = wmem /\ c.mul_valid = mul /\ c.div_valid = div

LEMMA UnknownPorts ==
  /\ Ports(Unknown, 0, 0, "never", "ADD", FALSE, FALSE, FALSE)
  /\ Asks(Unknown, FALSE, FALSE, FALSE, FALSE)
  BY DEF Unknown, Ports, Asks

LEMMA LoadPorts ==
  ASSUME NEW f3 \in 0 .. 7
  PROVE  /\ Ports(CtlLoad(f3), 0, 1, "never", "ADD", FALSE, TRUE, TRUE)
         /\ Asks(CtlLoad(f3), TRUE, FALSE, FALSE, FALSE)
         /\ CtlLoad(f3).d_byte = <<0, 1, 2, 3, 0, 1, 2, 0>>[f3 + 1]
         /\ CtlLoad(f3).read_sign = (f3 \in 0 .. 2)
  BY DEF CtlLoad, Unknown, Ports, Asks

LEMMA OpImmPorts ==
  ASSUME NEW f3 \in 0 .. 7, NEW f7 \in 0 .. 127, NEW shifted, shifted = ByFunc7(f7, "SRL", "SRA")
  PROVE  /\ Ports(CtlOpImm(f3, f7), 0, 0, "never",
                  <<"ADD", "SLL", "SLT", "SLTU", "XOR", shifted, "OR", "AND">>[f3 + 1],
                  FALSE, TRUE, TRUE)
         /\ Asks(CtlOpImm(f3, f7), FALSE, FALSE, FALSE, FALSE)
  BY DEF CtlOpImm, Unknown, Ports, Asks

LEMMA OpImm32Ports ==
  ASSUME NEW f3 \in 0 .. 7, NEW g, NEW aluc,
         aluc = CASE f3 = 0 -> "ADDW"
                  [] f3 = 1 -> "SLLW"
                  [] f3 = 5 -> ByFunc7(g, "SRLW", "SRAW")
                  [] OTHER  -> "ADD"
  PROVE  /\ Ports(CtlOpImm32(f3, g), 0, 0, "never", aluc, FALSE, TRUE, TRUE)
         /\ Asks(CtlOpImm32(f3, g), FALSE, FALSE, FALSE, FALSE)
  <1>1. CtlOpImm32(f3, g) = [Unknown EXCEPT !.aluimm = TRUE, !.wreg = TRUE, !.aluc = aluc]
    BY Zenon DEF CtlOpImm32
  <1> QED
    BY <1>1 DEF Unknown, Ports, Asks

LEMMA StorePorts ==
  ASSUME NEW f3 \in 0 .. 7
  PROVE  /\ Ports(CtlStore(f3), 0, 0, "never", "ADD", FALSE, TRUE, FALSE)
         /\ Asks(CtlStore(f3), TRUE, TRUE, FALSE, FALSE)
         /\ f3 <= 3 => CtlStore(f3).d_byte = f3
  BY DEF CtlStore, Unknown, Ports, Asks

LEMMA ArithPorts ==
  ASSUME NEW f3 \in 0 .. 7
  PROVE  /\ Ports(CtlArith(f3), 0, 0, "hold",
                  <<"ADD", "SLL", "SLT", "SLTU", "XOR", "SRL", "OR", "AND">>[f3 + 1],
                  FALSE, FALSE, TRUE)
         /\ Asks(CtlArith(f3), FALSE, FALSE, FALSE, FALSE)
  BY DEF CtlArith, HoldBranch, Unknown, Ports, Asks

LEMMA MulDivPorts ==
  ASSUME NEW f3 \in 0 .. 7
  PROVE  /\ Ports(CtlMulDiv(f3), 0, <<4, 0, 0, 0, 5, 5, 6, 6>>[f3 + 1], "hold", "ADD",
                  FALSE, FALSE, TRUE)
         /\ Asks(CtlMulDiv(f3), FALSE, FALSE, f3 = 0, f3 \in 4 .. 7)
         /\ CtlMulDiv(f3).mul_w = FALSE /\ CtlMulDiv(f3).div_w = FALSE
         /\ CtlMulDiv(f3).div_sign = (f3 \in {4, 6})
  BY DEF CtlMulDiv, HoldBranch, Unknown, Ports, Asks

LEMMA AltPorts ==
  ASSUME NEW f3 \in 0 .. 7
  PROVE  /\ Ports(CtlAlt(f3), 0, 0, "hold",
                  IF f3 = 0 THEN "SUB" ELSE IF f3 = 5 THEN "SRA" ELSE "ADD",
                  FALSE, FALSE, TRUE)
         /\ Asks(CtlAlt(f3), FALSE, FALSE, FALSE, FALSE)
  BY DEF CtlAlt, HoldBranch, Unknown, Ports, Asks

LEMMA HeldPorts ==
  LET c == [HoldBranch EXCEPT !.m2reg = HOLD]
  IN  /\ Ports(c, 0, HOLD, "hold", "ADD", FALSE, FALSE, TRUE)
      /\ Asks(c, FALSE, FALSE, FALSE, FALSE)
  BY DEF HoldBranch, Unknown, Ports, Asks

LEMMA HalfPorts ==
  ASSUME NEW aluc
  PROVE  /\ Ports(CtlArithW(aluc), 0, 0, "never", aluc, FALSE, FALSE, TRUE)
         /\ Asks(CtlArithW(aluc), FALSE, FALSE, FALSE, FALSE)
         /\ Ports(CtlMulW, 0, 4, "never", "ADD", FALSE, FALSE, TRUE)
         /\ Asks(CtlMulW, FALSE, FALSE, TRUE, FALSE)
         /\ CtlMulW.mul_w = TRUE
  BY DEF CtlArithW, CtlMulW, Unknown, Ports, Asks

LEMMA BranchPorts ==
  ASSUME NEW f3 \in 0 .. 7
  PROVE  /\ Ports(CtlBranch(f3), 1, 0,
                  <<"zero", "nonzero", "never", "never", "SF", "noSF", "SF", "noSF">>[f3 + 1],
                  <<"SUB", "SUB", "ADD", "ADD", "SUB", "SUB", "USUB", "USUB">>[f3 + 1],
                  FALSE, FALSE, FALSE)
         /\ Asks(CtlBranch(f3), FALSE, FALSE, FALSE, FALSE)
  BY DEF CtlBranch, Unknown, Ports, Asks

LEMMA UpperPorts ==
  /\ Ports(CtlAuipc, 0, 0, "never", "ADD", TRUE, TRUE, TRUE)
  /\ Asks(CtlAuipc, FALSE, FALSE, FALSE, FALSE)
  /\ Ports(CtlLui, 0, 0, "never", "ADD", FALSE, TRUE, TRUE)
  /\ Asks(CtlLui, FALSE, FALSE, FALSE, FALSE)
  BY DEF CtlAuipc, CtlLui, Unknown, Ports, Asks

LEMMA JumpPorts ==
  ASSUME NEW jump, NEW shift
  PROVE  /\ Ports(CtlJump(jump, shift), jump, 2, "always", "ADD", shift, TRUE, TRUE)
         /\ Asks(CtlJump(jump, shift), FALSE, FALSE, FALSE, FALSE)
  BY DEF CtlJump, Unknown, Ports, Asks

\* The operation of the ALU that an instruction stands for, and the test
\* that a branch makes of its flags.
Performs(n, aluc) ==
  \/ n = "add" /\ aluc = "ADD"
  \/ n = "sub" /\ aluc = "SUB"
  \/ n = "sll" /\ aluc = "SLL"
  \/ n = "srl" /\ aluc = "SRL"
  \/ n = "sra" /\ aluc = "SRA"
  \/ n = "slt" /\ aluc = "SLT"
  \/ n = "sltu" /\ aluc = "SLTU"
  \/ n = "and" /\ aluc = "AND"
  \/ n = "or" /\ aluc = "OR"
  \/ n = "xor" /\ aluc = "XOR"
  \/ n = "addw" /\ aluc = "ADDW"
  \/ n = "subw" /\ aluc = "SUBW"
  \/ n = "sllw" /\ aluc = "SLLW"
  \/ n = "srlw" /\ aluc = "SRLW"
  \/ n = "sraw" /\ aluc = "SRAW"

Compares(n, how, aluc) ==
  \/ n = "beq" /\ how = "zero" /\ aluc = "SUB"
  \/ n = "bne" /\ how = "nonzero" /\ aluc = "SUB"
  \/ n = "blt" /\ how = "SF" /\ aluc = "SUB"
  \/ n = "bge" /\ how = "noSF" /\ aluc = "SUB"
  \/ n = "bltu" /\ how = "SF" /\ aluc = "USUB"
  \/ n = "bgeu" /\ how = "noSF" /\ aluc = "USUB"

\* The ALU's second operand is the immediate in the groups that have one.
SecondOperand(op, c) == c.aluimm = (op \in {"OPIMM", "OPIMM32"})

\* What the ports c of an encoding with mnemonic n are, by what they drive.
DecodesArith(op, c, n) ==
  n \in ArithNames =>
    /\ op \in {"OPIMM", "OPIMM32", "OP", "OP32"}
    /\ c.m2reg = 0 /\ c.shift = FALSE /\ SecondOperand(op, c)
    /\ Performs(n, c.aluc)

DecodesUpper(op, f3, c, n) ==
  /\ n = "lui" => op = "LUI" /\ c.m2reg = 0 /\ c.shift = FALSE
  /\ n = "auipc" => op = "AUIPC" /\ c.m2reg = 0 /\ c.shift = TRUE
  /\ n = "jal" => op = "JAL" /\ c.m2reg = 2 /\ c.shift = TRUE
                  /\ c.jump = 2 /\ c.branch = "always"
  /\ n = "jalr" => op = "JALR" /\ f3 = 0 /\ c.m2reg = 2 /\ c.shift = FALSE
                   /\ c.jump = 3 /\ c.branch = "always"
  /\ n \in {"lui", "auipc", "jal", "jalr"} => c.aluimm = TRUE /\ c.aluc = "ADD"

DecodesFlow(op, f3, c, n) ==
  /\ n \in BranchNames =>
       /\ op = "BRANCH" /\ c.jump = 1 /\ c.shift = FALSE /\ c.aluimm = FALSE
       /\ Compares(n, c.branch, c.aluc)
  /\ n \notin BranchNames \cup {"jal", "jalr"} =>
       c.jump = 0 \/ c.branch = "never" \/ (op = "JALR" /\ f3 # 0)
  /\ c.branch \in {"never", "always", "zero", "nonzero", "SF", "noSF", "hold"}
  /\ c.jump \in 0 .. 3
  /\ c.m2reg \in 0 .. 8

DecodesBus(op, f3, c, n) ==
  /\ n \in LoadNames =>
       /\ op = "LOAD" /\ c.d_valid = TRUE /\ c.wmem = FALSE /\ c.wreg = TRUE /\ c.m2reg = 1
       /\ n \in {"lb", "lh", "lw"} <=> c.read_sign = TRUE
       /\ n # "ld" => c.d_byte = f3 % 4
  /\ n \in StoreNames =>
       op = "STORE" /\ c.d_valid = TRUE /\ c.wmem = TRUE /\ c.wreg = FALSE /\ c.d_byte = f3
  /\ n \in LoadNames \cup StoreNames => c.shift = FALSE /\ c.aluimm = TRUE /\ c.aluc = "ADD"

DecodesUnits(op, c, n) ==
  /\ c.mul_valid = TRUE <=> n \in MulNames
  /\ n \in MulNames => c.m2reg = 4 /\ c.mul_w = (n = "mulw")
  /\ n \in DivNames => c.m2reg = 5
  /\ n \in RemNames => c.m2reg = 6
  /\ n \in DivNames \cup RemNames =>
       /\ c.div_valid = TRUE
       /\ c.div_sign = (n \in {"div", "divw", "rem", "remw"})
       /\ c.div_w = (n \in {"divw", "divuw", "remw", "remuw"})
  /\ c.mul_valid = TRUE \/ (c.div_valid = TRUE /\ n # "none") =>
       op \in {"OP", "OP32"} /\ c.shift = FALSE /\ c.aluimm = FALSE

Decodes(op, f3, c, n) ==
  /\ DecodesArith(op, c, n)
  /\ DecodesUpper(op, f3, c, n)
  /\ DecodesFlow(op, f3, c, n)
  /\ DecodesBus(op, f3, c, n)
  /\ DecodesUnits(op, c, n)

DecodesKind(op, f3, f7, c, n, k) ==
  /\ n \in LoadNames => k = "load"
  /\ n \in StoreNames => k = "store"
  /\ n \in MulNames => k = "mul"
  /\ n \in DivNames \cup RemNames => k = "div"
  /\ n \in BranchNames => k = "nowrite"
  /\ n \in ArithNames \cup {"lui", "auipc", "jal", "jalr"} => k = "alu"
  /\ n \in ArithNames \cup {"lui", "auipc", "jal", "jalr", "none"} \cup LoadNames \cup StoreNames
           \cup MulNames \cup DivNames \cup RemNames \cup BranchNames
  /\ k = "m_reserved" <=> op \in {"OP", "OP32"} /\ f7 = 1 /\ f3 \in 1 .. 3
  /\ k = "div_stray" <=> op = "OP32" /\ f7 # 1 /\ f3 \in {4, 6, 7}
  /\ c.wreg = FALSE <=> op \in {"none", "STORE", "BRANCH"}
  /\ c.wreg \in BOOLEAN

\* An instruction that neither asks for anything nor leaves the path from
\* the registers through the ALU.
InAlu(op, c) ==
  /\ c.jump = 0 /\ c.m2reg \in {0, 8} /\ c.branch \in {"never", "hold"}
  /\ c.shift = FALSE /\ c.wreg = TRUE /\ SecondOperand(op, c)
  /\ Asks(c, FALSE, FALSE, FALSE, FALSE)

\* The kind of an encoding, by what it asks for.
LEMMA KindIs ==
  ASSUME NEW op, NEW f3, NEW f7, NEW c, c = Signals(op, f3, f7)
  PROVE  LET kept == if_curr_ins(op, func7(op, f3, f7))
             kind == Kind(op, f3, f7)
         IN  /\ Asks(c, TRUE, TRUE, FALSE, FALSE) => kind = "store"
             /\ Asks(c, TRUE, FALSE, FALSE, FALSE) => kind = "load"
             /\ Asks(c, FALSE, FALSE, TRUE, FALSE) => kind = "mul"
             /\ Asks(c, FALSE, FALSE, FALSE, TRUE) =>
                  kind = IF kept THEN "div" ELSE "div_stray"
             /\ Asks(c, FALSE, FALSE, FALSE, FALSE) =>
                  kind = IF kept THEN "m_reserved"
                         ELSE IF c.wreg = TRUE THEN "alu" ELSE "nowrite"
  <1> DEFINE kept == if_curr_ins(op, func7(op, f3, f7))
  <1>1. Asks(c, TRUE, TRUE, FALSE, FALSE) => Kind(op, f3, f7) = "store"
    BY Zenon DEF Kind, Asks
  <1>2. Asks(c, TRUE, FALSE, FALSE, FALSE) => Kind(op, f3, f7) = "load"
    BY Zenon DEF Kind, Asks
  <1>3. Asks(c, FALSE, FALSE, TRUE, FALSE) => Kind(op, f3, f7) = "mul"
    BY Zenon DEF Kind, Asks
  <1>4. Asks(c, FALSE, FALSE, FALSE, TRUE) =>
          Kind(op, f3, f7) = IF kept THEN "div" ELSE "div_stray"
    BY Zenon DEF Kind, Asks
  <1>5. Asks(c, FALSE, FALSE, FALSE, FALSE) =>
          Kind(op, f3, f7) = IF kept THEN "m_reserved"
                             ELSE IF c.wreg = TRUE THEN "alu" ELSE "nowrite"
    BY Zenon DEF Kind, Asks
  <1> QED
    BY <1>1, <1>2, <1>3, <1>4, <1>5, Zenon

LEMMA KindQuiet ==
  ASSUME NEW op, NEW f3, NEW f7, InAlu(op, Signals(op, f3, f7))
  PROVE  Kind(op, f3, f7) = IF if_curr_ins(op, func7(op, f3, f7)) THEN "m_reserved" ELSE "alu"
  BY KindIs, Zenon DEF InAlu

LEMMA LoadDecodes ==
  ASSUME NEW f3 \in 0 .. 7, NEW f7 \in {0, 1, 2, 3, 32, 33},
         NEW c, c = Signals("LOAD", f3, f7), NEW n, n = Name("LOAD", f3, f7),
         NEW k, k = Kind("LOAD", f3, f7)
  PROVE  Decodes("LOAD", f3, c, n) /\ DecodesKind("LOAD", f3, f7, c, n, k)
  <1>1. Control("LOAD", f3, 127) = CtlLoad(f3)
    BY Zenon DEF Control
  <1>2. func3("LOAD", f3) = f3 /\ func7("LOAD", f3, f7) = 127
    BY DEF func3, func7, Opcodes, IsShiftImm
  <1>3. c = CtlLoad(f3)
    BY <1>1, <1>2 DEF Signals
  <1>4. /\ Ports(c, 0, 1, "never", "ADD", FALSE, TRUE, TRUE)
        /\ Asks(c, TRUE, FALSE, FALSE, FALSE)
        /\ c.d_byte = <<0, 1, 2, 3, 0, 1, 2, 0>>[f3 + 1]
        /\ c.read_sign = (f3 \in 0 .. 2)
    BY <1>3, LoadPorts, Zenon
  <1>5. n = <<"lb", "lh", "lw", "ld", "lbu", "lhu", "lwu", "none">>[f3 + 1]
    BY Zenon DEF Name
  <1>6. n \in LoadNames \cup {"none"}
    BY <1>5 DEF LoadNames
  <1>7. k = "load"
    BY <1>4, KindIs, Zenon
  <1>8. /\ n \notin ArithNames
        /\ n \notin {"lui", "auipc", "jal", "jalr"}
        /\ n \notin BranchNames
        /\ n \notin StoreNames
        /\ n \notin MulNames \cup DivNames \cup RemNames
    BY <1>6 DEF ArithNames, LoadNames, StoreNames, BranchNames, MulNames, DivNames, RemNames
  <1>9. DecodesArith("LOAD", c, n) /\ DecodesUpper("LOAD", f3, c, n)
    BY <1>8, Zenon DEF DecodesArith, DecodesUpper
  <1>10. DecodesFlow("LOAD", f3, c, n)
    BY <1>4, <1>8, 0 \in 0 .. 3, 1 \in 0 .. 8, Zenon DEF DecodesFlow, Ports
  <1>11. DecodesBus("LOAD", f3, c, n)
    <2>1. n \in {"lb", "lh", "lw"} <=> f3 \in 0 .. 2
      BY <1>5
    <2>2. n \in LoadNames \ {"ld"} => c.d_byte = f3 % 4
      BY <1>4, <1>5 DEF LoadNames
    <2> QED
      BY <2>1, <2>2, <1>4, <1>8, Zenon DEF DecodesBus, Ports, Asks
  <1>12. DecodesUnits("LOAD", c, n)
    BY <1>4, <1>8, Zenon DEF DecodesUnits, Asks
  <1>13. DecodesKind("LOAD", f3, f7, c, n, k)
    BY <1>4, <1>6, <1>7, <1>8, Zenon DEF DecodesKind, Ports
  <1> QED
    BY <1>9, <1>10, <1>11, <1>12, <1>13 DEF Decodes

LEMMA StoreDecodes ==
  ASSUME NEW f3 \in 0 .. 7, NEW f7 \in {0, 1, 2, 3, 32, 33},
         NEW c, c = Signals("STORE", f3, f7), NEW n, n = Name("STORE", f3, f7),
         NEW k, k = Kind("STORE", f3, f7)
  PROVE  Decodes("STORE", f3, c, n) /\ DecodesKind("STORE", f3, f7, c, n, k)
  <1>1. Control("STORE", f3, 127) = CtlStore(f3)
    BY Zenon DEF Control
  <1>2. func3("STORE", f3) = f3 /\ func7("STORE", f3, f7) = 127
    BY DEF func3, func7, Opcodes, IsShiftImm
  <1>3. c = CtlStore(f3)
    BY <1>1, <1>2 DEF Signals
  <1>4. /\ Ports(c, 0, 0, "never", "ADD", FALSE, TRUE, FALSE)
        /\ Asks(c, TRUE, TRUE, FALSE, FALSE)
        /\ f3 <= 3 => c.d_byte = f3
    BY <1>3, StorePorts, Zenon
  <1>5. n = <<"sb", "sh", "sw", "sd", "none", "none", "none", "none">>[f3 + 1]
    BY Zenon DEF Name
  <1>6. n \in StoreNames \cup {"none"} /\ (n \in StoreNames => f3 <= 3)
    BY <1>5 DEF StoreNames
  <1>7. k = "store"
    BY <1>4, KindIs, Zenon
  <1>8. /\ n \notin ArithNames
        /\ n \notin {"lui", "auipc", "jal", "jalr"}
        /\ n \notin BranchNames
        /\ n \notin LoadNames
        /\ n \notin MulNames \cup DivNames \cup RemNames
    BY <1>6 DEF ArithNames, LoadNames, StoreNames, BranchNames, MulNames, DivNames, RemNames
  <1>9. DecodesArith("STORE", c, n) /\ DecodesUpper("STORE", f3, c, n)
    BY <1>8, Zenon DEF DecodesArith, DecodesUpper
  <1>10. DecodesFlow("STORE", f3, c, n)
    BY <1>4, <1>8, 0 \in 0 .. 3, 0 \in 0 .. 8, Zenon DEF DecodesFlow, Ports
  <1>11. DecodesBus("STORE", f3, c, n)
    BY <1>4, <1>6, <1>8, Zenon DEF DecodesBus, Ports, Asks
  <1>12. DecodesUnits("STORE", c, n)
    BY <1>4, <1>8, Zenon DEF DecodesUnits, Asks
  <1>13. DecodesKind("STORE", f3, f7, c, n, k)
    BY <1>4, <1>6, <1>7, <1>8, Zenon DEF DecodesKind, Ports
  <1> QED
    BY <1>9, <1>10, <1>11, <1>12, <1>13 DEF Decodes

LEMMA ArithNameIs ==
  ASSUME NEW f3 \in 0 .. 7, NEW g
  PROVE  /\ g = 0 => ArithName(f3, g) =
              <<"add", "sll", "slt", "sltu", "xor", "srl", "or", "and">>[f3 + 1]
         /\ g = 32 => ArithName(f3, g) =
              <<"sub", "none", "none", "none", "none", "sra", "none", "none">>[f3 + 1]
         /\ g = 1 => ArithName(f3, g) =
              <<"mul", "none", "none", "none", "div", "divu", "rem", "remu">>[f3 + 1]
         /\ g \notin {0, 1, 32} => ArithName(f3, g) = "none"
  BY 1 # 0, 32 # 0, 1 # 32, Zenon DEF ArithName

LEMMA ArithWNameIs ==
  ASSUME NEW f3 \in 0 .. 7, NEW g
  PROVE  /\ g = 0 => ArithWName(f3, g) =
              <<"addw", "sllw", "none", "none", "none", "srlw", "none", "none">>[f3 + 1]
         /\ g = 32 => ArithWName(f3, g) =
              <<"subw", "none", "none", "none", "none", "sraw", "none", "none">>[f3 + 1]
         /\ g = 1 => ArithWName(f3, g) =
              <<"mulw", "none", "none", "none", "divw", "divuw", "remw", "remuw">>[f3 + 1]
         /\ g \notin {0, 1, 32} => ArithWName(f3, g) = "none"
  BY 1 # 0, 32 # 0, 1 # 32, Zenon DEF ArithWName

\* Instructions of the ALU: no conflict with the other parts.
LEMMA AluDecodes ==
  ASSUME NEW op \in {"OPIMM", "OPIMM32", "OP", "OP32"},
         NEW f3 \in 0 .. 7, NEW f7 \in {0, 1, 2, 3, 32, 33},
         NEW c, c = Signals(op, f3, f7), NEW n, n \in ArithNames \cup {"none"},
         NEW k, k = Kind(op, f3, f7),
         InAlu(op, c),
         n \in ArithNames => c.m2reg = 0 /\ Performs(n, c.aluc),
         op \in {"OP", "OP32"} => f7 # 1,
         op = "OP32" => f3 \notin {4, 6, 7}
  PROVE  DecodesKind(op, f3, f7, c, n, k) /\ Decodes(op, f3, c, n)
  <1>1. ~if_curr_ins(op, func7(op, f3, f7))
    BY DEF if_curr_ins, func7
  <1>2. k = "alu"
    <2>1. InAlu(op, Signals(op, f3, f7))
      OBVIOUS
    <2>2. Kind(op, f3, f7) = IF if_curr_ins(op, func7(op, f3, f7)) THEN "m_reserved" ELSE "alu"
      BY <2>1, KindQuiet
    <2> QED
      BY <1>1, <2>2, Zenon
  <1>3. /\ n \notin {"lui", "auipc", "jal", "jalr"}
        /\ n \notin BranchNames
        /\ n \notin LoadNames
        /\ n \notin StoreNames
        /\ n \notin MulNames \cup DivNames \cup RemNames
    BY DEF ArithNames, LoadNames, StoreNames, BranchNames, MulNames, DivNames, RemNames
  <1>4. DecodesArith(op, c, n)
    BY Zenon DEF DecodesArith, InAlu
  <1>5. DecodesUpper(op, f3, c, n)
    BY <1>3, Zenon DEF DecodesUpper
  <1>6. DecodesFlow(op, f3, c, n)
    <2>1. c.m2reg \in 0 .. 8
      BY DEF InAlu
    <2> QED
      BY <2>1, <1>3, 0 \in 0 .. 3, Zenon DEF DecodesFlow, InAlu
  <1>7. DecodesBus(op, f3, c, n)
    BY <1>3, Zenon DEF DecodesBus
  <1>8. DecodesUnits(op, c, n)
    BY <1>3, Zenon DEF DecodesUnits, Asks, InAlu
  <1>9. DecodesKind(op, f3, f7, c, n, k)
    <2>1. op \notin {"none", "STORE", "BRANCH"}
      OBVIOUS
    <2>2. ~(op = "OP32" /\ f7 # 1 /\ f3 \in {4, 6, 7})
      OBVIOUS
    <2> QED
      BY <1>2, <1>3, <2>1, Zenon DEF DecodesKind, InAlu
  <1> QED
    BY <1>4, <1>5, <1>6, <1>7, <1>8, <1>9 DEF Decodes

LEMMA OpImmDecodes ==
  ASSUME NEW f3 \in 0 .. 7, NEW f7 \in {0, 1, 2, 3, 32, 33},
         NEW c, c = Signals("OPIMM", f3, f7), NEW n, n = Name("OPIMM", f3, f7),
         NEW k, k = Kind("OPIMM", f3, f7)
  PROVE  Decodes("OPIMM", f3, c, n) /\ DecodesKind("OPIMM", f3, f7, c, n, k)
  <1>1. PICK g : g = func7("OPIMM", f3, f7)
    OBVIOUS
  <1>2. /\ func3("OPIMM", f3) = f3
        /\ f3 \in {1, 5} => g = f7 - (f7 % 2)
        /\ f3 \notin {1, 5} => g = 127
    BY <1>1 DEF func3, func7, Opcodes, IsShiftImm
  <1>3. g \in {0, 2, 32, 127}
    BY <1>2
  <1>4. Control("OPIMM", f3, g) = CtlOpImm(f3, g)
    BY Zenon DEF Control
  <1>5. c = CtlOpImm(f3, g)
    BY <1>1, <1>2, <1>4 DEF Signals
  <1>6. PICK shifted : shifted = ByFunc7(g, "SRL", "SRA")
    OBVIOUS
  <1>7. PICK aluc : aluc = <<"ADD", "SLL", "SLT", "SLTU", "XOR", shifted, "OR", "AND">>[f3 + 1]
    OBVIOUS
  <1>8. /\ Ports(c, 0, 0, "never", aluc, FALSE, TRUE, TRUE)
        /\ Asks(c, FALSE, FALSE, FALSE, FALSE)
    <2>1. g \in 0 .. 127
      BY <1>3
    <2> QED
      BY <1>5, <1>6, <1>7, <2>1, OpImmPorts, Zenon
  <1>9. PICK h : h = IF f3 \in {1, 5} THEN f7 - (f7 % 2) ELSE 0
    OBVIOUS
  <1>10. n = ArithName(f3, h)
    BY <1>9, Zenon DEF Name
  <1>11. n \in ArithNames \cup {"none"} /\ (n \in ArithNames => Performs(n, aluc))
    <2>1. CASE h = 0
      <3>1. n = <<"add", "sll", "slt", "sltu", "xor", "srl", "or", "and">>[f3 + 1]
        BY <1>10, <2>1, ArithNameIs
      <3>2. f3 = 5 => shifted = "SRL"
        BY <1>2, <1>6, <1>9, <2>1 DEF ByFunc7
      <3> QED
        BY <1>7, <3>1, <3>2, Lookup DEF Performs, ArithNames
    <2>2. CASE h = 32
      <3>1. n = <<"sub", "none", "none", "none", "none", "sra", "none", "none">>[f3 + 1]
        BY <1>10, <2>2, ArithNameIs
      <3>2. f3 = 5 => shifted = "SRA"
        BY <1>2, <1>6, <1>9, <2>2 DEF ByFunc7
      <3>3. f3 \in {1, 5}
        BY <1>9, <2>2
      <3> QED
        BY <1>7, <3>1, <3>2, <3>3 DEF Performs, ArithNames
    <2>3. CASE h \notin {0, 32}
      <3>1. h = 2
        BY <1>9, <2>3
      <3>2. n = "none"
        BY <1>10, <3>1, ArithNameIs
      <3> QED
        BY <3>2 DEF ArithNames
    <2> QED
      BY <2>1, <2>2, <2>3
  <1> QED
    <2>2. "OPIMM" \in {"OPIMM", "OPIMM32", "OP", "OP32"} /\ "OPIMM" \notin {"OP", "OP32"}
          /\ "OPIMM" # "OP32"
      OBVIOUS
    <2>1. SecondOperand("OPIMM", c)
      <3>1. c.aluimm = TRUE
        BY <1>8, Zenon DEF Ports
      <3> QED
        BY <3>1 DEF SecondOperand
    <2>4. n \in ArithNames => c.m2reg = 0 /\ Performs(n, c.aluc)
      BY <1>8, <1>11, Zenon DEF Ports
    <2>5. InAlu("OPIMM", c)
      BY <1>8, <2>1, Zenon DEF Ports, InAlu
    <2> QED
      BY <1>11, <2>2, <2>4, <2>5, AluDecodes

LEMMA OpImm32Decodes ==
  ASSUME NEW f3 \in 0 .. 7, NEW f7 \in {0, 1, 2, 3, 32, 33},
         NEW c, c = Signals("OPIMM32", f3, f7), NEW n, n = Name("OPIMM32", f3, f7),
         NEW k, k = Kind("OPIMM32", f3, f7)
  PROVE  Decodes("OPIMM32", f3, c, n) /\ DecodesKind("OPIMM32", f3, f7, c, n, k)
  <1>1. PICK g : g = func7("OPIMM32", f3, f7)
    OBVIOUS
  <1>2. /\ func3("OPIMM32", f3) = f3
        /\ f3 \in {1, 5} => g = f7 - (f7 % 2)
    BY <1>1 DEF func3, func7, Opcodes, IsShiftImm
  <1>3. Control("OPIMM32", f3, g) = CtlOpImm32(f3, g)
    BY Zenon DEF Control
  <1>4. c = CtlOpImm32(f3, g)
    BY <1>1, <1>2, <1>3 DEF Signals
  <1>5. PICK aluc : aluc = CASE f3 = 0 -> "ADDW"
                             [] f3 = 1 -> "SLLW"
                             [] f3 = 5 -> ByFunc7(g, "SRLW", "SRAW")
                             [] OTHER  -> "ADD"
    OBVIOUS
  <1>6. /\ f3 = 0 => aluc = "ADDW"
        /\ f3 = 1 => aluc = "SLLW"
        /\ f3 = 5 => aluc = ByFunc7(g, "SRLW", "SRAW")
    BY <1>5, 0 # 1, 0 # 5, 1 # 5, Zenon
  <1>7. /\ Ports(c, 0, 0, "never", aluc, FALSE, TRUE, TRUE)
        /\ Asks(c, FALSE, FALSE, FALSE, FALSE)
    BY <1>4, <1>5, OpImm32Ports, Zenon
  <1>8. n = IF f3 = 0 THEN "addw"
            ELSE IF f3 \in {1, 5} THEN ArithWName(f3, IF f7 = 1 THEN 2 ELSE f7)
            ELSE "none"
    BY Zenon DEF Name
  <1>9. n \in ArithNames \cup {"none"} /\ (n \in ArithNames => Performs(n, aluc))
    <2>1. CASE f3 = 0
      BY <1>6, <1>8, <2>1 DEF Performs, ArithNames
    <2>2. CASE f3 \notin {0, 1, 5}
      BY <1>8, <2>2 DEF ArithNames
    <2>3. CASE f3 \in {1, 5}
      <3>1. PICK h : h = IF f7 = 1 THEN 2 ELSE f7
        OBVIOUS
      <3>2. n = ArithWName(f3, h)
        BY <1>8, <2>3, <3>1, f3 # 0
      <3>3. CASE h = 0
        <4>1. n = <<"addw", "sllw", "none", "none", "none", "srlw", "none", "none">>[f3 + 1]
          BY <3>2, <3>3, ArithWNameIs
        <4>2. g = 0
          BY <1>2, <2>3, <3>1, <3>3
        <4> QED
          BY <1>6, <2>3, <4>1, <4>2 DEF Performs, ArithNames, ByFunc7
      <3>4. CASE h = 32
        <4>1. n = <<"subw", "none", "none", "none", "none", "sraw", "none", "none">>[f3 + 1]
          BY <3>2, <3>4, ArithWNameIs
        <4>2. g = 32
          BY <1>2, <2>3, <3>1, <3>4
        <4> QED
          BY <1>6, <2>3, <4>1, <4>2 DEF Performs, ArithNames, ByFunc7
      <3>5. CASE h \notin {0, 32}
        <4>1. h \notin {0, 1, 32}
          BY <3>1, <3>5
        <4>2. n = "none"
          BY <3>2, <4>1, ArithWNameIs
        <4> QED
          BY <4>2 DEF ArithNames
      <3> QED
        BY <3>3, <3>4, <3>5
    <2> QED
      BY <2>1, <2>2, <2>3
  <1> QED
    <2>2. "OPIMM32" \in {"OPIMM", "OPIMM32", "OP", "OP32"} /\ "OPIMM32" \notin {"OP", "OP32"}
          /\ "OPIMM32" # "OP32"
      OBVIOUS
    <2>1. SecondOperand("OPIMM32", c)
      <3>1. c.aluimm = TRUE
        BY <1>7, Zenon DEF Ports
      <3> QED
        BY <3>1 DEF SecondOperand
    <2>4. n \in ArithNames => c.m2reg = 0 /\ Performs(n, c.aluc)
      BY <1>7, <1>9, Zenon DEF Ports
    <2>5. InAlu("OPIMM32", c)
      BY <1>7, <2>1, Zenon DEF Ports, InAlu
    <2> QED
      BY <1>9, <2>2, <2>4, <2>5, AluDecodes

\* Instructions of a unit, and the encodings of their group that no unit
\* takes.
InUnit(op, f3, f7, c, n, unit_) ==
  /\ c.jump = 0 /\ c.m2reg \in 0 .. 8 /\ c.branch \in {"never", "hold"}
  /\ c.shift = FALSE /\ c.aluimm = FALSE /\ c.wreg = TRUE
  /\ Asks(c, FALSE, FALSE, unit_ = "mul", unit_ = "div")
  /\ n \in MulNames <=> unit_ = "mul"
  /\ n \in MulNames => c.m2reg = 4 /\ c.mul_w = (n = "mulw")
  /\ n \in DivNames => c.m2reg = 5
  /\ n \in RemNames => c.m2reg = 6
  /\ n \in DivNames \cup RemNames =>
       /\ unit_ = "div"
       /\ c.div_sign = (n \in {"div", "divw", "rem", "remw"})
       /\ c.div_w = (n \in {"divw", "divuw", "remw", "remuw"})
  /\ f7 = 1 => (unit_ = "no" <=> f3 \in 1 .. 3)
  /\ f7 # 1 => unit_ = "div" /\ f3 \in {4, 6, 7} /\ op = "OP32" /\ n = "none"

LEMMA UnitDecodes ==
  ASSUME NEW op \in {"OP", "OP32"},
         NEW f3 \in 0 .. 7, NEW f7 \in {0, 1, 2, 3, 32, 33},
         NEW c, c = Signals(op, f3, f7),
         NEW n, n \in MulNames \cup DivNames \cup RemNames \cup {"none"},
         NEW k, k = Kind(op, f3, f7), NEW unit_ \in {"mul", "div", "no"},
         InUnit(op, f3, f7, c, n, unit_)
  PROVE  DecodesKind(op, f3, f7, c, n, k) /\ Decodes(op, f3, c, n)
  <1>1. if_curr_ins(op, func7(op, f3, f7)) <=> f7 = 1
    BY DEF if_curr_ins, func7
  <1>2. /\ Asks(c, FALSE, FALSE, TRUE, FALSE) => k = "mul"
        /\ Asks(c, FALSE, FALSE, FALSE, TRUE) =>
             k = IF if_curr_ins(op, func7(op, f3, f7)) THEN "div" ELSE "div_stray"
        /\ Asks(c, FALSE, FALSE, FALSE, FALSE) =>
             k = IF if_curr_ins(op, func7(op, f3, f7)) THEN "m_reserved"
                 ELSE IF c.wreg = TRUE THEN "alu" ELSE "nowrite"
    BY KindIs, Zenon
  <1>3. unit_ = "mul" => k = "mul"
    BY <1>2, "mul" # "div", Zenon DEF InUnit, Asks
  <1>4. unit_ = "div" => k = IF f7 = 1 THEN "div" ELSE "div_stray"
    BY <1>1, <1>2, "mul" # "div", Zenon DEF InUnit, Asks
  <1>5. unit_ = "no" => k = "m_reserved"
    <2>1. unit_ = "no" => f7 = 1
      BY DEF InUnit
    <2>2. unit_ = "no" => Asks(c, FALSE, FALSE, FALSE, FALSE)
      BY "no" # "div", "no" # "mul", Zenon DEF InUnit, Asks
    <2> QED
      BY <1>1, <1>2, <2>1, <2>2, Zenon
  <1>6. /\ n \notin {"lui", "auipc", "jal", "jalr"}
        /\ n \notin BranchNames
        /\ n \notin LoadNames
        /\ n \notin StoreNames
        /\ n \notin ArithNames
    BY DEF ArithNames, LoadNames, StoreNames, BranchNames, MulNames, DivNames, RemNames
  <1>7. DecodesArith(op, c, n)
    BY <1>6, Zenon DEF DecodesArith
  <1>8. DecodesUpper(op, f3, c, n)
    BY <1>6, Zenon DEF DecodesUpper
  <1>9. DecodesFlow(op, f3, c, n)
    BY <1>6, 0 \in 0 .. 3, Zenon DEF DecodesFlow, InUnit
  <1>10. DecodesBus(op, f3, c, n)
    BY <1>6, Zenon DEF DecodesBus
  <1>11. DecodesUnits(op, c, n)
    <2>1. /\ c.mul_valid = (unit_ = "mul") /\ c.div_valid = (unit_ = "div")
          /\ c.shift = FALSE /\ c.aluimm = FALSE
      BY Zenon DEF InUnit, Asks
    <2> QED
      BY <2>1, Zenon DEF InUnit, DecodesUnits
  <1>12. DecodesKind(op, f3, f7, c, n, k)
    <2>1. op \notin {"none", "STORE", "BRANCH"}
      OBVIOUS
    <2>2. n \in MulNames => k = "mul"
      BY <1>3, Zenon DEF InUnit
    <2>3. n \in DivNames \cup RemNames => k = "div"
      <3>1. n \in DivNames \cup RemNames => n # "none"
        BY DEF DivNames, RemNames
      <3>2. n \in DivNames \cup RemNames => unit_ = "div" /\ f7 = 1
        BY <3>1, Zenon DEF InUnit
      <3> QED
        BY <1>4, <3>2, Zenon
    <2>4. /\ unit_ = "mul" \/ unit_ = "div" \/ unit_ = "no"
          /\ f7 = 1 => (unit_ = "no" <=> f3 \in 1 .. 3)
          /\ f7 # 1 => unit_ = "div" /\ f3 \in {4, 6, 7} /\ op = "OP32"
      BY Zenon DEF InUnit
    <2>5. k = "m_reserved" <=> unit_ = "no"
      BY <1>3, <1>4, <1>5, <2>4
    <2>6. k = "div_stray" <=> f7 # 1
      BY <1>3, <1>4, <1>5, <2>4
    <2>7. k = "m_reserved" <=> op \in {"OP", "OP32"} /\ f7 = 1 /\ f3 \in 1 .. 3
      BY <2>4, <2>5
    <2>8. k = "div_stray" <=> op = "OP32" /\ f7 # 1 /\ f3 \in {4, 6, 7}
      BY <2>4, <2>6
    <2>9. c.wreg = TRUE
      BY Zenon DEF InUnit
    <2> QED
      BY <1>6, <2>1, <2>2, <2>3, <2>7, <2>8, <2>9, Zenon DEF DecodesKind
  <1> QED
    BY <1>7, <1>8, <1>9, <1>10, <1>11, <1>12 DEF Decodes

LEMMA OpDecodes ==
  ASSUME NEW f3 \in 0 .. 7, NEW f7 \in {0, 1, 2, 3, 32, 33},
         NEW c, c = Signals("OP", f3, f7), NEW n, n = Name("OP", f3, f7),
         NEW k, k = Kind("OP", f3, f7)
  PROVE  Decodes("OP", f3, c, n) /\ DecodesKind("OP", f3, f7, c, n, k)
  <1>1. Control("OP", f3, f7) = CtlOp(f3, f7)
    BY Zenon DEF Control
  <1>2. func3("OP", f3) = f3 /\ func7("OP", f3, f7) = f7
    BY DEF func3, func7, Opcodes, IsShiftImm
  <1>3. c = CtlOp(f3, f7)
    BY <1>1, <1>2 DEF Signals
  <1>4. n = ArithName(f3, f7)
    BY Zenon DEF Name
  <1>5. "OP" \in {"OPIMM", "OPIMM32", "OP", "OP32"} /\ "OP" # "OP32" /\ "OP" \in {"OP", "OP32"}
        /\ "OP" \notin {"OPIMM", "OPIMM32"}
    OBVIOUS
  <1>6. CASE f7 = 0
    <2>1. c = CtlArith(f3)
      BY <1>3, <1>6, 0 # 1, 0 # 32, Zenon DEF CtlOp
    <2>2. PICK aluc : aluc = <<"ADD", "SLL", "SLT", "SLTU", "XOR", "SRL", "OR", "AND">>[f3 + 1]
      OBVIOUS
    <2>3. Ports(c, 0, 0, "hold", aluc, FALSE, FALSE, TRUE) /\ Asks(c, FALSE, FALSE, FALSE, FALSE)
      BY <2>1, <2>2, ArithPorts, Zenon
    <2>4. n = <<"add", "sll", "slt", "sltu", "xor", "srl", "or", "and">>[f3 + 1]
      BY <1>4, <1>6, ArithNameIs
    <2>5. n \in ArithNames /\ Performs(n, aluc)
      BY <2>2, <2>4, Lookup DEF Performs, ArithNames
    <2>6. c.m2reg = 0 /\ Performs(n, c.aluc)
      BY <2>3, <2>5, Zenon DEF Ports
    <2>7. InAlu("OP", c)
      <3>1. c.aluimm = FALSE
        BY <2>3, Zenon DEF Ports
      <3>2. ("OP" \in {"OPIMM", "OPIMM32"}) = FALSE
        OBVIOUS
      <3> QED
        BY <2>3, <3>1, <3>2, Zenon DEF Ports, InAlu, SecondOperand
    <2> QED
      BY <1>5, <1>6, <2>5, <2>6, <2>7, AluDecodes
  <1>7. CASE f7 = 32
    <2>1. c = CtlAlt(f3)
      BY <1>3, <1>7, 32 # 0, 32 # 1, Zenon DEF CtlOp
    <2>2. PICK aluc : aluc = IF f3 = 0 THEN "SUB" ELSE IF f3 = 5 THEN "SRA" ELSE "ADD"
      OBVIOUS
    <2>3. Ports(c, 0, 0, "hold", aluc, FALSE, FALSE, TRUE) /\ Asks(c, FALSE, FALSE, FALSE, FALSE)
      BY <2>1, <2>2, AltPorts, Zenon
    <2>4. n = <<"sub", "none", "none", "none", "none", "sra", "none", "none">>[f3 + 1]
      BY <1>4, <1>7, ArithNameIs
    <2>5. n \in ArithNames \cup {"none"} /\ (n \in ArithNames => Performs(n, aluc))
      BY <2>2, <2>4 DEF Performs, ArithNames
    <2>6. n \in ArithNames => c.m2reg = 0 /\ Performs(n, c.aluc)
      BY <2>3, <2>5, Zenon DEF Ports
    <2>7. InAlu("OP", c)
      <3>1. c.aluimm = FALSE
        BY <2>3, Zenon DEF Ports
      <3>2. ("OP" \in {"OPIMM", "OPIMM32"}) = FALSE
        OBVIOUS
      <3> QED
        BY <2>3, <3>1, <3>2, Zenon DEF Ports, InAlu, SecondOperand
    <2>8. f7 # 1
      BY <1>7
    <2> QED
      BY <1>5, <2>5, <2>6, <2>7, <2>8, AluDecodes
  <1>8. CASE f7 = 1
    <2>1. c = CtlMulDiv(f3)
      BY <1>3, <1>8, 1 # 0, 1 # 32, Zenon DEF CtlOp
    <2>2. PICK m2 : m2 = <<4, 0, 0, 0, 5, 5, 6, 6>>[f3 + 1]
      OBVIOUS
    <2>3. PICK unit_ : unit_ = IF f3 = 0 THEN "mul" ELSE IF f3 \in 4 .. 7 THEN "div" ELSE "no"
      OBVIOUS
    <2>4. unit_ \in {"mul", "div", "no"} /\ (unit_ = "mul" <=> f3 = 0) /\ (unit_ = "div" <=> f3 \in 4 .. 7)
      BY <2>3
    <2>5. /\ Ports(c, 0, m2, "hold", "ADD", FALSE, FALSE, TRUE)
          /\ Asks(c, FALSE, FALSE, f3 = 0, f3 \in 4 .. 7)
          /\ c.mul_w = FALSE /\ c.div_w = FALSE
          /\ c.div_sign = (f3 \in {4, 6})
      BY <2>1, <2>2, MulDivPorts, Zenon
    <2>6. n = <<"mul", "none", "none", "none", "div", "divu", "rem", "remu">>[f3 + 1]
      BY <1>4, <1>8, ArithNameIs
    <2>7. /\ n \in MulNames \cup DivNames \cup RemNames \cup {"none"}
          /\ n \in MulNames <=> f3 = 0
          /\ n \in DivNames <=> f3 \in {4, 5}
          /\ n \in RemNames <=> f3 \in {6, 7}
      BY <2>6 DEF MulNames, DivNames, RemNames
    <2>8. /\ n # "mulw" /\ n \notin {"divw", "divuw", "remw", "remuw"}
          /\ n \in {"div", "divw", "rem", "remw"} <=> f3 \in {4, 6}
      BY <2>6
    <2>9. f3 \in 4 .. 7 <=> f3 \in {4, 5, 6, 7}
      OBVIOUS
    <2>10. /\ f3 = 0 => m2 = 4
           /\ f3 \in {4, 5} => m2 = 5
           /\ f3 \in {6, 7} => m2 = 6
           /\ m2 \in 0 .. 8
      BY <2>2
    <2>11. unit_ = "no" <=> f3 \in 1 .. 3
      BY <2>3
    <2>12. InUnit("OP", f3, f7, c, n, unit_)
      <3>1. Asks(c, FALSE, FALSE, unit_ = "mul", unit_ = "div")
        BY <2>4, <2>5 DEF Asks
      <3>2. /\ c.mul_w = (n = "mulw")
            /\ c.div_sign = (n \in {"div", "divw", "rem", "remw"})
            /\ c.div_w = (n \in {"divw", "divuw", "remw", "remuw"})
        <4>1. /\ (n = "mulw") = FALSE
              /\ (n \in {"div", "divw", "rem", "remw"}) = (f3 \in {4, 6})
              /\ (n \in {"divw", "divuw", "remw", "remuw"}) = FALSE
          BY <2>8
        <4> QED
          BY <2>5, <4>1, Zenon
      <3> QED
        BY <1>8, <2>4, <2>5, <2>7, <2>9, <2>10, <2>11, <3>1, <3>2, Zenon DEF InUnit, Ports
    <2> QED
      BY <1>5, <2>4, <2>7, <2>12, UnitDecodes
  <1>9. CASE f7 \notin {0, 1, 32}
    <2>1. c = [HoldBranch EXCEPT !.m2reg = HOLD]
      BY <1>3, <1>9, Zenon DEF CtlOp
    <2>2. Ports(c, 0, HOLD, "hold", "ADD", FALSE, FALSE, TRUE) /\ Asks(c, FALSE, FALSE, FALSE, FALSE)
      BY <2>1, HeldPorts, Zenon
    <2>3. n = "none"
      BY <1>4, <1>9, ArithNameIs
    <2>4. n \notin ArithNames
      BY <2>3 DEF ArithNames
    <2>5. HOLD \in {0, 8}
      BY DEF HOLD
    <2>6. InAlu("OP", c)
      <3>1. c.aluimm = FALSE
        BY <2>2, Zenon DEF Ports
      <3>2. ("OP" \in {"OPIMM", "OPIMM32"}) = FALSE
        OBVIOUS
      <3> QED
        BY <2>2, <2>5, <3>1, <3>2, Zenon DEF Ports, InAlu, SecondOperand
    <2>7. f7 # 1
      BY <1>9
    <2> QED
      BY <1>5, <2>3, <2>4, <2>6, <2>7, AluDecodes
  <1> QED
    BY <1>6, <1>7, <1>8, <1>9

LEMMA Op32Decodes ==
  ASSUME NEW f3 \in 0 .. 7, NEW f7 \in {0, 1, 2, 3, 32, 33},
         NEW c, c = Signals("OP32", f3, f7), NEW n, n = Name("OP32", f3, f7),
         NEW k, k = Kind("OP32", f3, f7)
  PROVE  Decodes("OP32", f3, c, n) /\ DecodesKind("OP32", f3, f7, c, n, k)
  <1>1. Control("OP32", f3, f7) = CtlOp32(f3, f7)
    BY Zenon DEF Control
  <1>2. func3("OP32", f3) = f3 /\ func7("OP32", f3, f7) = f7
    BY DEF func3, func7, Opcodes, IsShiftImm
  <1>3. c = CtlOp32(f3, f7)
    BY <1>1, <1>2 DEF Signals
  <1>4. n = ArithWName(f3, f7)
    BY Zenon DEF Name
  <1>5. "OP32" \in {"OPIMM", "OPIMM32", "OP", "OP32"} /\ "OP32" \in {"OP", "OP32"}
        /\ "OP32" \notin {"OPIMM", "OPIMM32"}
    OBVIOUS
  <1>6. /\ f7 = 0 => n = <<"addw", "sllw", "none", "none", "none", "srlw", "none", "none">>[f3 + 1]
        /\ f7 = 32 => n = <<"subw", "none", "none", "none", "none", "sraw", "none", "none">>[f3 + 1]
        /\ f7 = 1 => n = <<"mulw", "none", "none", "none", "divw", "divuw", "remw", "remuw">>[f3 + 1]
        /\ f7 \notin {0, 1, 32} => n = "none"
    BY <1>4, ArithWNameIs
  <1>7. /\ f3 = 0 /\ f7 = 1 => c = CtlMulW
        /\ f3 = 0 /\ f7 # 1 => c = CtlArithW(ByFunc7(f7, "ADDW", "SUBW"))
        /\ f3 = 1 => c = CtlArithW("SLLW")
        /\ f3 = 4 => c = CtlDivW(TRUE, 5)
        /\ f3 = 5 /\ f7 = 1 => c = CtlDivW(FALSE, 5)
        /\ f3 = 5 /\ f7 # 1 => c = CtlArithW(ByFunc7(f7, "SRLW", "SRAW"))
        /\ f3 = 6 => c = CtlDivW(TRUE, 6)
        /\ f3 = 7 => c = CtlDivW(FALSE, 6)
        /\ f3 \notin {0, 1, 4, 5, 6, 7} => c = CtlArithW("ADD")
    <2>1. /\ 0 # 1 /\ 0 # 4 /\ 0 # 5 /\ 0 # 6 /\ 0 # 7 /\ 1 # 4 /\ 1 # 5 /\ 1 # 6 /\ 1 # 7
          /\ 4 # 5 /\ 4 # 6 /\ 4 # 7 /\ 5 # 6 /\ 5 # 7 /\ 6 # 7
      OBVIOUS
    <2>2. f3 = 0 /\ f7 = 1 => CtlOp32(f3, f7) = CtlMulW
      BY <2>1, Zenon DEF CtlOp32
    <2>3. f3 = 0 /\ f7 # 1 => CtlOp32(f3, f7) = CtlArithW(ByFunc7(f7, "ADDW", "SUBW"))
      BY <2>1, Zenon DEF CtlOp32
    <2>4. f3 = 1 => CtlOp32(f3, f7) = CtlArithW("SLLW")
      BY <2>1, Zenon DEF CtlOp32
    <2>5. f3 = 4 => CtlOp32(f3, f7) = CtlDivW(TRUE, 5)
      BY <2>1, Zenon DEF CtlOp32
    <2>6. f3 = 5 /\ f7 = 1 => CtlOp32(f3, f7) = CtlDivW(FALSE, 5)
      BY <2>1, Zenon DEF CtlOp32
    <2>7. f3 = 5 /\ f7 # 1 => CtlOp32(f3, f7) = CtlArithW(ByFunc7(f7, "SRLW", "SRAW"))
      BY <2>1, Zenon DEF CtlOp32
    <2>8. f3 = 6 => CtlOp32(f3, f7) = CtlDivW(TRUE, 6)
      BY <2>1, Zenon DEF CtlOp32
    <2>9. f3 = 7 => CtlOp32(f3, f7) = CtlDivW(FALSE, 6)
      BY <2>1, Zenon DEF CtlOp32
    <2>10. f3 \notin {0, 1, 4, 5, 6, 7} => CtlOp32(f3, f7) = CtlArithW("ADD")
      BY Zenon DEF CtlOp32
    <2> QED
      BY <1>3, <2>2, <2>3, <2>4, <2>5, <2>6, <2>7, <2>8, <2>9, <2>10, Zenon
  <1>8. CASE f7 # 1 /\ f3 \notin {4, 6, 7}
    <2>1. PICK aluc : /\ c = CtlArithW(aluc)
                      /\ f3 = 0 => aluc = ByFunc7(f7, "ADDW", "SUBW")
                      /\ f3 = 1 => aluc = "SLLW"
                      /\ f3 = 5 => aluc = ByFunc7(f7, "SRLW", "SRAW")
      <3>1. CASE f3 = 0
        BY <1>7, <1>8, <3>1, 0 # 1, 0 # 5, Zenon
      <3>2. CASE f3 = 1
        BY <1>7, <1>8, <3>2, 1 # 0, 1 # 5, Zenon
      <3>3. CASE f3 = 5
        BY <1>7, <1>8, <3>3, 5 # 0, 5 # 1, Zenon
      <3>4. CASE f3 \notin {0, 1, 5}
        BY <1>7, <1>8, <3>4, Zenon
      <3> QED
        BY <3>1, <3>2, <3>3, <3>4
    <2>2. Ports(c, 0, 0, "never", aluc, FALSE, FALSE, TRUE) /\ Asks(c, FALSE, FALSE, FALSE, FALSE)
      BY <2>1, HalfPorts, Zenon
    <2>3. n \in ArithNames \cup {"none"} /\ (n \in ArithNames => Performs(n, aluc))
      <3>1. CASE f7 = 0
        BY <1>6, <1>8, <2>1, <3>1 DEF Performs, ArithNames, ByFunc7
      <3>2. CASE f7 = 32
        BY <1>6, <1>8, <2>1, <3>2 DEF Performs, ArithNames, ByFunc7
      <3>3. CASE f7 \notin {0, 32}
        BY <1>6, <1>8, <3>3 DEF ArithNames
      <3> QED
        BY <3>1, <3>2, <3>3
    <2>4. n \in ArithNames => c.m2reg = 0 /\ Performs(n, c.aluc)
      BY <2>2, <2>3, Zenon DEF Ports
    <2>5. InAlu("OP32", c)
      <3>1. c.aluimm = FALSE
        BY <2>2, Zenon DEF Ports
      <3>2. ("OP32" \in {"OPIMM", "OPIMM32"}) = FALSE
        OBVIOUS
      <3> QED
        BY <2>2, <3>1, <3>2, Zenon DEF Ports, InAlu, SecondOperand
    <2> QED
      BY <1>5, <1>8, <2>3, <2>4, <2>5, AluDecodes
  <1>9. CASE f7 = 1 /\ f3 \in 1 .. 3
    <2>1. PICK aluc : c = CtlArithW(aluc)
      <3>1. CASE f3 = 1
        BY <1>7, <3>1, Zenon
      <3>2. CASE f3 # 1
        <4>1. f3 \notin {0, 1, 4, 5, 6, 7}
          BY <1>9, <3>2
        <4> QED
          BY <1>7, <4>1, Zenon
      <3> QED
        BY <3>1, <3>2
    <2>2. Ports(c, 0, 0, "never", aluc, FALSE, FALSE, TRUE) /\ Asks(c, FALSE, FALSE, FALSE, FALSE)
      BY <2>1, HalfPorts, Zenon
    <2>3. n = "none"
      BY <1>6, <1>9
    <2>4. n \notin MulNames \cup DivNames \cup RemNames
      BY <2>3 DEF MulNames, DivNames, RemNames
    <2>5. InUnit("OP32", f3, f7, c, n, "no")
      <3>1. Asks(c, FALSE, FALSE, "no" = "mul", "no" = "div")
        BY <2>2, "no" # "mul", "no" # "div", Zenon DEF Asks
      <3> QED
        BY <1>9, <2>2, <2>4, <3>1, 0 \in 0 .. 8, "no" # "mul", "no" # "div", Zenon DEF InUnit, Ports
    <2> QED
      BY <1>5, <2>3, <2>5, UnitDecodes
  <1>10. CASE f7 = 1 /\ f3 = 0
    <2>1. /\ Ports(c, 0, 4, "never", "ADD", FALSE, FALSE, TRUE)
          /\ Asks(c, FALSE, FALSE, TRUE, FALSE) /\ c.mul_w = TRUE
      BY <1>7, <1>10, HalfPorts, Zenon
    <2>2. n = "mulw"
      BY <1>6, <1>10
    <2>3. n \in MulNames /\ n \notin DivNames \cup RemNames
      BY <2>2 DEF MulNames, DivNames, RemNames
    <2>4. InUnit("OP32", f3, f7, c, n, "mul")
      <3>1. Asks(c, FALSE, FALSE, "mul" = "mul", "mul" = "div")
        BY <2>1, "mul" # "div", Zenon DEF Asks
      <3>2. c.mul_w = (n = "mulw")
        BY <2>1, <2>2, Zenon
      <3>3. ~(f3 \in 1 .. 3)
        BY <1>10
      <3> QED
        BY <1>10, <2>1, <2>3, <3>1, <3>2, <3>3, 4 \in 0 .. 8, "no" # "mul", Zenon DEF InUnit, Ports
    <2> QED
      BY <1>5, <2>3, <2>4, UnitDecodes
  <1>11. CASE f3 \in {4, 6, 7} \/ (f7 = 1 /\ f3 = 5)
    <2>1. PICK sign \in BOOLEAN, sel \in {5, 6} :
            /\ c = CtlDivW(sign, sel)
            /\ sign <=> f3 \in {4, 6}
            /\ sel = 5 <=> f3 \in {4, 5}
      <3>1. CASE f3 = 4
        BY <1>7, <3>1, 4 # 6, 4 # 7, 5 # 6, Zenon
      <3>2. CASE f3 = 6
        BY <1>7, <3>2, 6 # 4, 6 # 5, 6 # 7, Zenon
      <3>3. CASE f3 = 7
        BY <1>7, <3>3, 7 # 4, 7 # 5, 7 # 6, 5 # 6, Zenon
      <3>4. CASE f7 = 1 /\ f3 = 5
        BY <1>7, <3>4, 5 # 4, 5 # 6, 5 # 7, Zenon
      <3> QED
        BY <1>11, <3>1, <3>2, <3>3, <3>4
    <2>2. /\ Ports(c, 0, sel, "never", "ADD", FALSE, FALSE, TRUE)
          /\ Asks(c, FALSE, FALSE, FALSE, TRUE)
          /\ c.div_w = TRUE /\ c.div_sign = sign
      <3> DEFINE d == CtlDivW(sign, sel)
      <3>1. /\ Ports(d, 0, sel, "never", "ADD", FALSE, FALSE, TRUE)
            /\ Asks(d, FALSE, FALSE, FALSE, TRUE)
            /\ d.div_w = TRUE /\ d.div_sign = sign
        BY DEF CtlDivW, Unknown, Ports, Asks
      <3>2. c = d
        BY <2>1
      <3> HIDE DEF d
      <3> QED
        BY <3>1, <3>2, Zenon
    <2>3. /\ n \in DivNames \cup RemNames \cup {"none"} /\ n \notin MulNames
          /\ n \in DivNames => f3 \in {4, 5}
          /\ n \in RemNames => f3 \in {6, 7}
          /\ f7 # 1 => n = "none"
      BY <1>6, <1>11 DEF MulNames, DivNames, RemNames
    <2>4. n \in DivNames \cup RemNames =>
            /\ n \in {"divw", "divuw", "remw", "remuw"}
            /\ n \in {"div", "divw", "rem", "remw"} <=> f3 \in {4, 6}
      BY <1>6, <1>11 DEF DivNames, RemNames
    <2>5. InUnit("OP32", f3, f7, c, n, "div")
      <3>1. Asks(c, FALSE, FALSE, "div" = "mul", "div" = "div")
        BY <2>2, "mul" # "div", Zenon DEF Asks
      <3>2. n \in DivNames \cup RemNames =>
              /\ c.div_sign = (n \in {"div", "divw", "rem", "remw"})
              /\ c.div_w = (n \in {"divw", "divuw", "remw", "remuw"})
        <4>1. n \in DivNames \cup RemNames =>
                /\ (n \in {"div", "divw", "rem", "remw"}) = sign
                /\ (n \in {"divw", "divuw", "remw", "remuw"}) = TRUE
          BY <2>1, <2>4
        <4> QED
          BY <2>2, <4>1, Zenon
      <3>3. sel \in 0 .. 8 /\ (f3 \in {4, 5} => sel = 5) /\ (f3 \in {6, 7} => sel = 6)
        BY <2>1
      <3>4. ~(f3 \in 1 .. 3)
        BY <1>11
      <3> QED
        BY <1>11, <2>2, <2>3, <3>1, <3>2, <3>3, <3>4, "no" # "div", "mul" # "div", Zenon DEF InUnit, Ports
    <2> QED
      BY <1>5, <2>3, <2>5, UnitDecodes
  <1>12. f3 \in {4, 6, 7} \/ f3 = 5 \/ f3 = 0 \/ f3 \in 1 .. 3
    OBVIOUS
  <1> QED
    BY <1>8, <1>9, <1>10, <1>11, <1>12

LEMMA BranchDecodes ==
  ASSUME NEW f3 \in 0 .. 7, NEW f7 \in {0, 1, 2, 3, 32, 33},
         NEW c, c = Signals("BRANCH", f3, f7), NEW n, n = Name("BRANCH", f3, f7),
         NEW k, k = Kind("BRANCH", f3, f7)
  PROVE  Decodes("BRANCH", f3, c, n) /\ DecodesKind("BRANCH", f3, f7, c, n, k)
  <1>1. Control("BRANCH", f3, 127) = CtlBranch(f3)
    BY Zenon DEF Control
  <1>2. func3("BRANCH", f3) = f3 /\ func7("BRANCH", f3, f7) = 127
    BY DEF func3, func7, Opcodes, IsShiftImm
  <1>3. c = CtlBranch(f3)
    BY <1>1, <1>2 DEF Signals
  <1>4. PICK how :
          how = <<"zero", "nonzero", "never", "never", "SF", "noSF", "SF", "noSF">>[f3 + 1]
    OBVIOUS
  <1>a. PICK aluc :
          aluc = <<"SUB", "SUB", "ADD", "ADD", "SUB", "SUB", "USUB", "USUB">>[f3 + 1]
    OBVIOUS
  <1>5. Ports(c, 1, 0, how, aluc, FALSE, FALSE, FALSE) /\ Asks(c, FALSE, FALSE, FALSE, FALSE)
    BY <1>3, <1>4, <1>a, BranchPorts, Zenon
  <1>6. n = <<"beq", "bne", "none", "none", "blt", "bge", "bltu", "bgeu">>[f3 + 1]
    BY Zenon DEF Name
  <1>7. n \in BranchNames \cup {"none"}
    BY <1>6 DEF BranchNames
  <1>8. /\ n \in BranchNames => Compares(n, how, aluc)
        /\ n \notin BranchNames => how = "never"
        /\ how \in {"never", "always", "zero", "nonzero", "SF", "noSF", "hold"}
    <2>1. (f3 = 0 \/ f3 = 1 \/ f3 = 2 \/ f3 = 3 \/ f3 = 4 \/ f3 = 5 \/ f3 = 6 \/ f3 = 7)
      OBVIOUS
    <2>2. /\ f3 = 0 => n = "beq"
          /\ f3 = 1 => n = "bne"
          /\ f3 = 2 => n = "none"
          /\ f3 = 3 => n = "none"
          /\ f3 = 4 => n = "blt"
          /\ f3 = 5 => n = "bge"
          /\ f3 = 6 => n = "bltu"
          /\ f3 = 7 => n = "bgeu"
      BY <1>6
    <2>3. /\ f3 = 0 => how = "zero"
          /\ f3 = 1 => how = "nonzero"
          /\ f3 = 2 => how = "never"
          /\ f3 = 3 => how = "never"
          /\ f3 = 4 => how = "SF"
          /\ f3 = 5 => how = "noSF"
          /\ f3 = 6 => how = "SF"
          /\ f3 = 7 => how = "noSF"
      BY <1>4
    <2>4. /\ f3 = 0 => aluc = "SUB"
          /\ f3 = 1 => aluc = "SUB"
          /\ f3 = 2 => aluc = "ADD"
          /\ f3 = 3 => aluc = "ADD"
          /\ f3 = 4 => aluc = "SUB"
          /\ f3 = 5 => aluc = "SUB"
          /\ f3 = 6 => aluc = "USUB"
          /\ f3 = 7 => aluc = "USUB"
      BY <1>a
    <2> DEFINE Q == /\ n \in BranchNames => Compares(n, how, aluc)
                    /\ n \notin BranchNames => how = "never"
                    /\ how \in {"never", "always", "zero", "nonzero", "SF", "noSF", "hold"}
    <2>a. "none" \notin BranchNames
      BY DEF BranchNames
    <2>5. f3 = 0 => Q
      <3>1. f3 = 0 => n = "beq" /\ how = "zero" /\ aluc = "SUB"
        BY <2>2, <2>3, <2>4
      <3> QED
        BY <3>1, Zenon DEF BranchNames, Compares
    <2>6. f3 = 1 => Q
      <3>1. f3 = 1 => n = "bne" /\ how = "nonzero" /\ aluc = "SUB"
        BY <2>2, <2>3, <2>4
      <3> QED
        BY <3>1, Zenon DEF BranchNames, Compares
    <2>7. f3 = 2 => Q
      <3>1. f3 = 2 => n = "none" /\ how = "never" /\ aluc = "ADD"
        BY <2>2, <2>3, <2>4
      <3> QED
        BY <3>1, <2>a, Zenon
    <2>8. f3 = 3 => Q
      <3>1. f3 = 3 => n = "none" /\ how = "never" /\ aluc = "ADD"
        BY <2>2, <2>3, <2>4
      <3> QED
        BY <3>1, <2>a, Zenon
    <2>9. f3 = 4 => Q
      <3>1. f3 = 4 => n = "blt" /\ how = "SF" /\ aluc = "SUB"
        BY <2>2, <2>3, <2>4
      <3> QED
        BY <3>1, Zenon DEF BranchNames, Compares
    <2>10. f3 = 5 => Q
      <3>1. f3 = 5 => n = "bge" /\ how = "noSF" /\ aluc = "SUB"
        BY <2>2, <2>3, <2>4
      <3> QED
        BY <3>1, Zenon DEF BranchNames, Compares
    <2>11. f3 = 6 => Q
      <3>1. f3 = 6 => n = "bltu" /\ how = "SF" /\ aluc = "USUB"
        BY <2>2, <2>3, <2>4
      <3> QED
        BY <3>1, Zenon DEF BranchNames, Compares
    <2>12. f3 = 7 => Q
      <3>1. f3 = 7 => n = "bgeu" /\ how = "noSF" /\ aluc = "USUB"
        BY <2>2, <2>3, <2>4
      <3> QED
        BY <3>1, Zenon DEF BranchNames, Compares
    <2> QED
      BY <2>1, <2>5, <2>6, <2>7, <2>8, <2>9, <2>10, <2>11, <2>12, Zenon
  <1>9. ~if_curr_ins("BRANCH", func7("BRANCH", f3, f7))
    BY DEF if_curr_ins
  <1>10. k = "nowrite"
    <2>1. c.wreg # TRUE
      BY <1>5, Zenon DEF Ports
    <2>2. k = IF if_curr_ins("BRANCH", func7("BRANCH", f3, f7)) THEN "m_reserved"
              ELSE IF c.wreg = TRUE THEN "alu" ELSE "nowrite"
      BY <1>5, KindIs, Zenon
    <2> QED
      BY <1>9, <2>1, <2>2, Zenon
  <1>11. /\ n \notin ArithNames
         /\ n \notin {"lui", "auipc", "jal", "jalr"}
         /\ n \notin LoadNames
         /\ n \notin StoreNames
         /\ n \notin MulNames \cup DivNames \cup RemNames
    BY <1>7 DEF ArithNames, LoadNames, StoreNames, BranchNames, MulNames, DivNames, RemNames
  <1>12. DecodesArith("BRANCH", c, n) /\ DecodesUpper("BRANCH", f3, c, n)
    BY <1>11, Zenon DEF DecodesArith, DecodesUpper
  <1>13. DecodesFlow("BRANCH", f3, c, n)
    <2>1. c.branch = how /\ c.aluc = aluc /\ c.jump = 1 /\ c.m2reg = 0
      BY <1>5, Zenon DEF Ports
    <2>2. n \in BranchNames => Compares(n, c.branch, c.aluc)
      BY <1>8, <2>1
    <2>3. n \notin BranchNames => c.branch = "never"
      BY <1>8, <2>1
    <2>4. c.branch \in {"never", "always", "zero", "nonzero", "SF", "noSF", "hold"}
      BY <1>8, <2>1
    <2>5. c.shift = FALSE /\ c.aluimm = FALSE
      BY <1>5, Zenon DEF Ports
    <2>6. c.jump \in 0 .. 3 /\ c.m2reg \in 0 .. 8
      BY <2>1
    <2> QED
      BY <2>1, <2>2, <2>3, <2>4, <2>5, <2>6, Zenon DEF DecodesFlow
  <1>14. DecodesBus("BRANCH", f3, c, n)
    BY <1>11, Zenon DEF DecodesBus
  <1>15. DecodesUnits("BRANCH", c, n)
    BY <1>5, <1>11, Zenon DEF DecodesUnits, Asks
  <1>16. DecodesKind("BRANCH", f3, f7, c, n, k)
    BY <1>5, <1>7, <1>10, <1>11, Zenon DEF DecodesKind, Ports
  <1> QED
    BY <1>12, <1>13, <1>14, <1>15, <1>16 DEF Decodes

\* The ports of an instruction that computes its result without a unit and
\* without the bus, and takes a jump or none.
Straight(op, c) ==
  /\ c.wreg = TRUE /\ Asks(c, FALSE, FALSE, FALSE, FALSE)
  /\ c.branch \in {"never", "always"} /\ c.jump \in 0 .. 3 /\ c.m2reg \in 0 .. 8
  /\ op \in {"LUI", "AUIPC"} => c.jump = 0

\* Instructions that only go through the ALU and write their result: the
\* upper immediates and the jumps.
LEMMA UpperDecodes ==
  ASSUME NEW op \in {"LUI", "AUIPC", "JAL", "JALR"},
         NEW f3 \in 0 .. 7, NEW f7 \in {0, 1, 2, 3, 32, 33},
         NEW c, c = Signals(op, f3, f7),
         NEW n, n = IF op = "LUI" THEN "lui" ELSE IF op = "AUIPC" THEN "auipc"
                    ELSE IF op = "JAL" THEN "jal" ELSE IF f3 = 0 THEN "jalr" ELSE "none",
         NEW k, k = Kind(op, f3, f7),
         DecodesUpper(op, f3, c, n), Straight(op, c)
  PROVE  DecodesKind(op, f3, f7, c, n, k) /\ Decodes(op, f3, c, n)
  <1>1. ~if_curr_ins(op, func7(op, f3, f7))
    BY DEF if_curr_ins
  <1>2. k = "alu"
    <2>1. k = IF if_curr_ins(op, func7(op, f3, f7)) THEN "m_reserved"
              ELSE IF c.wreg = TRUE THEN "alu" ELSE "nowrite"
      BY KindIs, Zenon DEF Straight
    <2> QED
      BY <1>1, <2>1, Zenon DEF Straight
  <1>3. /\ n \in {"lui", "auipc", "jal", "jalr", "none"}
        /\ n \in {"jal", "jalr"} \/ op \in {"LUI", "AUIPC"} \/ (op = "JALR" /\ f3 # 0)
    OBVIOUS
  <1>4. /\ n \notin ArithNames
        /\ n \notin BranchNames
        /\ n \notin LoadNames
        /\ n \notin StoreNames
        /\ n \notin MulNames \cup DivNames \cup RemNames
    BY <1>3 DEF ArithNames, LoadNames, StoreNames, BranchNames, MulNames, DivNames, RemNames
  <1>5. DecodesArith(op, c, n)
    BY <1>4, Zenon DEF DecodesArith
  <1>6. DecodesFlow(op, f3, c, n)
    <2>1. n \notin BranchNames \cup {"jal", "jalr"} =>
            c.jump = 0 \/ c.branch = "never" \/ (op = "JALR" /\ f3 # 0)
      BY <1>3, Zenon DEF Straight
    <2> QED
      BY <1>4, <2>1, Zenon DEF DecodesFlow, Straight
  <1>7. DecodesBus(op, f3, c, n)
    BY <1>4, Zenon DEF DecodesBus
  <1>8. DecodesUnits(op, c, n)
    BY <1>4, Zenon DEF DecodesUnits, Asks, Straight
  <1>9. DecodesKind(op, f3, f7, c, n, k)
    <2>1. op \notin {"none", "STORE", "BRANCH", "OP", "OP32"} /\ op # "OP32"
      OBVIOUS
    <2>2. c.wreg # FALSE /\ c.wreg \in BOOLEAN
      BY Zenon DEF Straight
    <2>3. k # "m_reserved" /\ k # "div_stray"
      BY <1>2
    <2> QED
      BY <1>2, <1>3, <1>4, <2>1, <2>2, <2>3, Zenon DEF DecodesKind
  <1> QED
    BY <1>5, <1>6, <1>7, <1>8, <1>9 DEF Decodes

LEMMA LuiDecodes ==
  ASSUME NEW f3 \in 0 .. 7, NEW f7 \in {0, 1, 2, 3, 32, 33},
         NEW c, c = Signals("LUI", f3, f7), NEW n, n = Name("LUI", f3, f7),
         NEW k, k = Kind("LUI", f3, f7)
  PROVE  Decodes("LUI", f3, c, n) /\ DecodesKind("LUI", f3, f7, c, n, k)
  <1>1. Control("LUI", 7, 127) = CtlLui
    BY Zenon DEF Control
  <1>2. func3("LUI", f3) = 7 /\ func7("LUI", f3, f7) = 127
    BY DEF func3, func7, Opcodes, IsShiftImm
  <1>3. c = CtlLui
    BY <1>1, <1>2 DEF Signals
  <1>4. n = "lui"
    BY Zenon DEF Name
  <1>5. Ports(c, 0, 0, "never", "ADD", FALSE, TRUE, TRUE) /\ Asks(c, FALSE, FALSE, FALSE, FALSE)
    BY <1>3, UpperPorts, Zenon
  <1>6. DecodesUpper("LUI", f3, c, n)
    BY <1>4, <1>5, Zenon DEF DecodesUpper, Ports
  <1>7. Straight("LUI", c)
    <2>1. "LUI" \in {"LUI", "AUIPC"} => c.jump = 0
      BY <1>5 DEF Ports
    <2> QED
      BY <1>5, <2>1, 0 \in 0 .. 3, 0 \in 0 .. 8, Zenon DEF Ports, Straight
  <1>8. "LUI" \in {"LUI", "AUIPC", "JAL", "JALR"}
    OBVIOUS
  <1>9. n = IF "LUI" = "LUI" THEN "lui" ELSE IF "LUI" = "AUIPC" THEN "auipc"
            ELSE IF "LUI" = "JAL" THEN "jal" ELSE IF f3 = 0 THEN "jalr" ELSE "none"
    BY <1>4
  <1> QED
    BY <1>6, <1>7, <1>8, <1>9, UpperDecodes

LEMMA AuipcDecodes ==
  ASSUME NEW f3 \in 0 .. 7, NEW f7 \in {0, 1, 2, 3, 32, 33},
         NEW c, c = Signals("AUIPC", f3, f7), NEW n, n = Name("AUIPC", f3, f7),
         NEW k, k = Kind("AUIPC", f3, f7)
  PROVE  Decodes("AUIPC", f3, c, n) /\ DecodesKind("AUIPC", f3, f7, c, n, k)
  <1>1. Control("AUIPC", 7, 127) = CtlAuipc
    BY Zenon DEF Control
  <1>2. func3("AUIPC", f3) = 7 /\ func7("AUIPC", f3, f7) = 127
    BY DEF func3, func7, Opcodes, IsShiftImm
  <1>3. c = CtlAuipc
    BY <1>1, <1>2 DEF Signals
  <1>4. n = "auipc"
    BY Zenon DEF Name
  <1>5. Ports(c, 0, 0, "never", "ADD", TRUE, TRUE, TRUE) /\ Asks(c, FALSE, FALSE, FALSE, FALSE)
    BY <1>3, UpperPorts, Zenon
  <1>6. DecodesUpper("AUIPC", f3, c, n)
    BY <1>4, <1>5, Zenon DEF DecodesUpper, Ports
  <1>7. Straight("AUIPC", c)
    <2>1. "AUIPC" \in {"LUI", "AUIPC"} => c.jump = 0
      BY <1>5 DEF Ports
    <2> QED
      BY <1>5, <2>1, 0 \in 0 .. 3, 0 \in 0 .. 8, Zenon DEF Ports, Straight
  <1>8. "AUIPC" \in {"LUI", "AUIPC", "JAL", "JALR"}
    OBVIOUS
  <1>9. n = IF "AUIPC" = "LUI" THEN "lui" ELSE IF "AUIPC" = "AUIPC" THEN "auipc"
            ELSE IF "AUIPC" = "JAL" THEN "jal" ELSE IF f3 = 0 THEN "jalr" ELSE "none"
    BY <1>4
  <1> QED
    BY <1>6, <1>7, <1>8, <1>9, UpperDecodes

LEMMA JalDecodes ==
  ASSUME NEW f3 \in 0 .. 7, NEW f7 \in {0, 1, 2, 3, 32, 33},
         NEW c, c = Signals("JAL", f3, f7), NEW n, n = Name("JAL", f3, f7),
         NEW k, k = Kind("JAL", f3, f7)
  PROVE  Decodes("JAL", f3, c, n) /\ DecodesKind("JAL", f3, f7, c, n, k)
  <1>1. Control("JAL", 7, 127) = CtlJump(2, TRUE)
    BY Zenon DEF Control
  <1>2. func3("JAL", f3) = 7 /\ func7("JAL", f3, f7) = 127
    BY DEF func3, func7, Opcodes, IsShiftImm
  <1>3. c = CtlJump(2, TRUE)
    BY <1>1, <1>2 DEF Signals
  <1>4. n = "jal"
    BY Zenon DEF Name
  <1>5. Ports(c, 2, 2, "always", "ADD", TRUE, TRUE, TRUE) /\ Asks(c, FALSE, FALSE, FALSE, FALSE)
    BY <1>3, JumpPorts, Zenon
  <1>6. DecodesUpper("JAL", f3, c, n)
    BY <1>4, <1>5, Zenon DEF DecodesUpper, Ports
  <1>7. Straight("JAL", c)
    <2>1. "JAL" \in {"LUI", "AUIPC"} => c.jump = 0
      BY <1>5 DEF Ports
    <2> QED
      BY <1>5, <2>1, 2 \in 0 .. 3, 2 \in 0 .. 8, Zenon DEF Ports, Straight
  <1>8. "JAL" \in {"LUI", "AUIPC", "JAL", "JALR"}
    OBVIOUS
  <1>9. n = IF "JAL" = "LUI" THEN "lui" ELSE IF "JAL" = "AUIPC" THEN "auipc"
            ELSE IF "JAL" = "JAL" THEN "jal" ELSE IF f3 = 0 THEN "jalr" ELSE "none"
    BY <1>4
  <1> QED
    BY <1>6, <1>7, <1>8, <1>9, UpperDecodes

LEMMA JalrDecodes ==
  ASSUME NEW f3 \in 0 .. 7, NEW f7 \in {0, 1, 2, 3, 32, 33},
         NEW c, c = Signals("JALR", f3, f7), NEW n, n = Name("JALR", f3, f7),
         NEW k, k = Kind("JALR", f3, f7)
  PROVE  Decodes("JALR", f3, c, n) /\ DecodesKind("JALR", f3, f7, c, n, k)
  <1>1. Control("JALR", f3, 127) = CtlJump(3, FALSE)
    BY Zenon DEF Control
  <1>2. func3("JALR", f3) = f3 /\ func7("JALR", f3, f7) = 127
    BY DEF func3, func7, Opcodes, IsShiftImm
  <1>3. c = CtlJump(3, FALSE)
    BY <1>1, <1>2 DEF Signals
  <1>4. n = IF f3 = 0 THEN "jalr" ELSE "none"
    BY Zenon DEF Name
  <1>5. Ports(c, 3, 2, "always", "ADD", FALSE, TRUE, TRUE) /\ Asks(c, FALSE, FALSE, FALSE, FALSE)
    BY <1>3, JumpPorts, Zenon
  <1>6. DecodesUpper("JALR", f3, c, n)
    BY <1>4, <1>5, Zenon DEF DecodesUpper, Ports
  <1>7. Straight("JALR", c)
    <2>1. "JALR" \in {"LUI", "AUIPC"} => c.jump = 0
      BY <1>5 DEF Ports
    <2> QED
      BY <1>5, <2>1, 3 \in 0 .. 3, 2 \in 0 .. 8, Zenon DEF Ports, Straight
  <1>8. "JALR" \in {"LUI", "AUIPC", "JAL", "JALR"}
    OBVIOUS
  <1>9. n = IF "JALR" = "LUI" THEN "lui" ELSE IF "JALR" = "AUIPC" THEN "auipc"
            ELSE IF "JALR" = "JAL" THEN "jal" ELSE IF f3 = 0 THEN "jalr" ELSE "none"
    BY <1>4
  <1> QED
    BY <1>6, <1>7, <1>8, <1>9, UpperDecodes

LEMMA NoneDecodes ==
  ASSUME NEW f3 \in 0 .. 7, NEW f7 \in {0, 1, 2, 3, 32, 33},
         NEW c, c = Signals("none", f3, f7), NEW n, n = Name("none", f3, f7),
         NEW k, k = Kind("none", f3, f7)
  PROVE  Decodes("none", f3, c, n) /\ DecodesKind("none", f3, f7, c, n, k)
  <1>1. Control("none", 7, 127) = Unknown
    BY Zenon DEF Control
  <1>2. func3("none", f3) = 7 /\ func7("none", f3, f7) = 127
    BY DEF func3, func7, Opcodes, IsShiftImm
  <1>3. c = Unknown
    BY <1>1, <1>2 DEF Signals
  <1>4. n = "none"
    BY Zenon DEF Name
  <1>5. Ports(c, 0, 0, "never", "ADD", FALSE, FALSE, FALSE) /\ Asks(c, FALSE, FALSE, FALSE, FALSE)
    BY <1>3, UnknownPorts, Zenon
  <1>6. ~if_curr_ins("none", func7("none", f3, f7))
    BY DEF if_curr_ins
  <1>7. k = "nowrite"
    <2>1. c.wreg # TRUE
      BY <1>5, Zenon DEF Ports
    <2>2. k = IF if_curr_ins("none", func7("none", f3, f7)) THEN "m_reserved"
              ELSE IF c.wreg = TRUE THEN "alu" ELSE "nowrite"
      BY <1>5, KindIs, Zenon
    <2> QED
      BY <1>6, <2>1, <2>2, Zenon
  <1>8. /\ n \notin ArithNames
        /\ n \notin {"lui", "auipc", "jal", "jalr"}
        /\ n \notin BranchNames
        /\ n \notin LoadNames
        /\ n \notin StoreNames
        /\ n \notin MulNames \cup DivNames \cup RemNames
    BY <1>4 DEF ArithNames, LoadNames, StoreNames, BranchNames, MulNames, DivNames, RemNames
  <1>9. DecodesArith("none", c, n) /\ DecodesUpper("none", f3, c, n)
    BY <1>8, Zenon DEF DecodesArith, DecodesUpper
  <1>10. DecodesFlow("none", f3, c, n)
    BY <1>5, <1>8, 0 \in 0 .. 8, 0 \in 0 .. 3, Zenon DEF DecodesFlow, Ports
  <1>11. DecodesBus("none", f3, c, n)
    BY <1>8, Zenon DEF DecodesBus
  <1>12. DecodesUnits("none", c, n)
    BY <1>5, <1>8, Zenon DEF DecodesUnits, Asks
  <1>13. DecodesKind("none", f3, f7, c, n, k)
    BY <1>4, <1>5, <1>7, <1>8, Zenon DEF DecodesKind, Ports
  <1> QED
    BY <1>9, <1>10, <1>11, <1>12, <1>13 DEF Decodes

LEMMA AllDecode ==
  ASSUME NEW op \in Opcodes \cup {"none"}, NEW f3 \in 0 .. 7, NEW f7 \in {0, 1, 2, 3, 32, 33}
  PROVE  /\ Decodes(op, f3, Signals(op, f3, f7), Name(op, f3, f7))
         /\ DecodesKind(op, f3, f7, Signals(op, f3, f7), Name(op, f3, f7), Kind(op, f3, f7))
  <1> DEFINE Q(o) == /\ Decodes(o, f3, Signals(o, f3, f7), Name(o, f3, f7))
                     /\ DecodesKind(o, f3, f7, Signals(o, f3, f7), Name(o, f3, f7), Kind(o, f3, f7))
  <1>1. Q("LOAD")
    BY LoadDecodes, Zenon
  <1>2. Q("STORE")
    BY StoreDecodes, Zenon
  <1>3. Q("OPIMM")
    BY OpImmDecodes, Zenon
  <1>4. Q("OPIMM32")
    BY OpImm32Decodes, Zenon
  <1>5. Q("OP")
    BY OpDecodes, Zenon
  <1>6. Q("OP32")
    BY Op32Decodes, Zenon
  <1>7. Q("BRANCH")
    BY BranchDecodes, Zenon
  <1>8. Q("LUI")
    BY LuiDecodes, Zenon
  <1>9. Q("AUIPC")
    BY AuipcDecodes, Zenon
  <1>10. Q("JAL")
    BY JalDecodes, Zenon
  <1>11. Q("JALR")
    BY JalrDecodes, Zenon
  <1>12. Q("none")
    BY NoneDecodes, Zenon
  <1> QED
    BY <1>1, <1>2, <1>3, <1>4, <1>5, <1>6, <1>7, <1>8, <1>9, <1>10, <1>11, <1>12, Zenon DEF Opcodes

-----------------------------------------------------------------------------
(***************************************************************************)
(* The ALU computes the numbers that the mnemonics stand for.              *)
(***************************************************************************)
\* A word and the number it stands for are a multiple of Pow2[W] apart.
LEMMA WordSigned ==
  ASSUME NEW x \in Values
  PROVE  /\ Signed(x, W) \in Int /\ x \in Int
         /\ -Pow2[W - 1] <= Signed(x, W) /\ Signed(x, W) < Pow2[W - 1]
         /\ \E k \in Int : x - Signed(x, W) = Pow2[W] * k
         /\ Signed(x, W) = x \/ Signed(x, W) = x - Pow2[W]
         /\ Signed(x, W) < 0 <=> Bit(x, W - 1) = 1
         /\ Bit(x, W - 1) \in 0 .. 1
  <1>1. W \in 1 .. 2 * W /\ W - 1 \in 0 .. 2 * W - 1
    BY WidthIs
  <1>2. Pow2[W] \in Nat \ {0} /\ Pow2[W - 1] \in Nat \ {0} /\ Pow2[W] = 2 * Pow2[W - 1]
    BY PowWidth
  <1>3. x \in Int /\ x \in 0 .. Pow2[W] - 1
    BY WordInt
  <1>4. /\ Bit(x, W - 1) = 1 <=> x >= Pow2[W - 1]
        /\ Signed(x, W) = IF x >= Pow2[W - 1] THEN x - Pow2[W] ELSE x
    BY <1>1, <1>3, SignedIs
  <1>5. Bit(x, W - 1) \in 0 .. 1
    BY <1>1, <1>3, SplitBit
  <1>6. x - Signed(x, W) = Pow2[W] * 0 \/ x - Signed(x, W) = Pow2[W] * 1
    BY <1>2, <1>3, <1>4
  <1> QED
    BY <1>2, <1>3, <1>4, <1>5, <1>6

LEMMA WordCongruent ==
  ASSUME NEW v \in Int, NEW z \in Int, NEW k \in Int, v - z = Pow2[W] * k
  PROVE  Word64(v) = Word64(z) /\ Extend(v, H) = Extend(z, H)
  <1>1. Word64(v) = Word64(z)
    BY HalfIs, Congruent DEF Word64
  <1>2. Low(v, H) = Low(z, H)
    <2> DEFINE m == Pow2[H]
    <2>1. m \in Nat \ {0} /\ Pow2[W] = m * m
      BY HalfIs
    <2> HIDE DEF m
    <2>2. v - z = m * (m * k) /\ m * k \in Int
      BY <2>1
    <2> QED
      BY <2>2, HalfIs, LowCongruent DEF m
  <1> QED
    BY <1>1, <1>2 DEF Extend

LEMMA WordSmall ==
  ASSUME NEW v \in Values
  PROVE  Word64(v) = v
  BY WordInt, HalfIs, Small DEF Word64

\* A shift by a legal amount.
LEMMA ShiftType ==
  ASSUME NEW y \in Values
  PROVE  /\ y % W \in 0 .. 2 * W /\ Pow2[y % W] \in Nat \ {0}
         /\ y % H \in 0 .. 2 * W /\ Pow2[y % H] \in Nat \ {0}
  <1>1. y \in Int /\ W \in Nat \ {0} /\ H \in Nat \ {0} /\ H <= W
    BY WordInt, WidthIs
  <1>2. y % W \in 0 .. W - 1 /\ y % H \in 0 .. H - 1
    BY <1>1, DivMod
  <1>3. y % W \in 0 .. 2 * W /\ y % H \in 0 .. 2 * W
    BY <1>1, <1>2
  <1> QED
    BY <1>3, PowType

\* A shift to the right makes no word longer.
LEMMA DivSmaller ==
  ASSUME NEW x \in Nat, NEW d \in Nat \ {0}
  PROVE  x \div d \in 0 .. x
  <1> DEFINE q == x \div d
             r == x % d
  <1>1. q \in Int /\ r \in 0 .. d - 1 /\ x = d * q + r
    BY DivMod
  <1> HIDE DEF q, r
  <1>2. q >= 0
    <2> SUFFICES ASSUME q < 0 PROVE FALSE
      BY <1>1
    <2>1. d * 0 >= d * q + d
      BY <1>1, Monotone
    <2> QED
      BY <1>1, <2>1
  <1>3. d * q >= q
    <2>1. PICK e \in Nat : d = e + 1
      BY d = (d - 1) + 1
    <2>2. d * q = e * q + q /\ e * q >= 0
      <3>1. q \in Nat
        BY <1>1, <1>2
      <3>2. e * q \in Nat
        BY <2>1, <3>1
      <3>3. (e + 1) * q = e * q + q
        BY <2>1, <3>1
      <3> QED
        BY <2>1, <3>2, <3>3
    <2> QED
      BY <1>1, <2>2
  <1> QED
    BY <1>1, <1>2, <1>3 DEF q

LEMMA ModSmaller ==
  ASSUME NEW x \in Nat, NEW d \in Nat \ {0}
  PROVE  x % d \in 0 .. x
  <1>1. x \div d \in 0 .. x
    BY DivSmaller
  <1>a. x % d \in 0 .. d - 1 /\ x = d * (x \div d) + (x % d)
    BY x \in Int, DivMod
  <1>2. d * (x \div d) \in Nat
    BY <1>1
  <1> QED
    BY <1>a, <1>2

\* What a half word keeps of a number, written without bits.
Wrapped(v) == ((v + Pow2[H - 1]) % Pow2[H]) - Pow2[H - 1]

LEMMA WrappedIs ==
  ASSUME NEW v \in Int
  PROVE  Wrapped(v) = Signed(Low(v, H), H) /\ Extend(v, H) = Word64(Wrapped(v))
  <1> DEFINE h == Pow2[H - 1]
             m == Pow2[H]
             z == Wrapped(v)
             q == (v + h) \div m
  <1>1. h \in Nat \ {0} /\ m \in Nat \ {0} /\ m = 2 * h /\ H \in 1 .. 2 * W /\ H \in 0 .. 2 * W
    BY HalfIs, PowHalf
  <1>2. q \in Int /\ z + h \in 0 .. m - 1 /\ v + h = m * q + (z + h) /\ z \in Int
    <2>1. /\ v + h \in Int
          /\ (v + h) % m \in 0 .. m - 1
          /\ q \in Int
          /\ v + h = m * q + ((v + h) % m)
      <3> HIDE DEF h, m, z
      <3>1. v + h \in Int /\ m \in Nat \ {0}
        BY <1>1
      <3> QED
        BY <3>1, DivMod
    <2>2. z = ((v + h) % m) - h
      BY DEF Wrapped
    <2> HIDE DEF h, m, z, q
    <2> DEFINE r == (v + h) % m
    <2>3. r \in 0 .. m - 1 /\ v + h = m * q + r /\ z = r - h
      BY <2>1, <2>2
    <2> HIDE DEF r
    <2> QED
      BY <1>1, <2>1, <2>3
  <1> HIDE DEF h, m, z, q
  <1>3. v - z = m * q /\ z \in Int /\ -h <= z /\ z < h
    BY <1>1, <1>2
  <1>4. Low(v, H) = Low(z, H)
    BY <1>1, <1>2, <1>3, LowCongruent DEF m
  <1>5. Signed(Low(z, H), H) = z
    BY <1>1, <1>3, SignedUnique DEF h
  <1> QED
    BY <1>4, <1>5 DEF z, Extend, Word64

\* The lower half of a word as a number, and as a word again.
LEMMA HalfSigned ==
  ASSUME NEW x \in Values
  PROVE  Signed(Extend(x, H), W) = Signed(Low(x, H), H)
  <1> DEFINE v == Signed(Low(x, H), H)
  <1>1. x \in Int /\ H \in 1 .. 2 * W /\ W \in 1 .. 2 * W
    BY WordInt, HalfIs
  <1>2. v \in Int /\ -Pow2[H - 1] <= v /\ v < Pow2[H - 1]
    BY <1>1, SignedLow
  <1>3. Pow2[H - 1] <= Pow2[W - 1] /\ Pow2[W - 1] \in Nat /\ Pow2[H - 1] \in Nat
    <2>1. Pow2[H - 1] \in Nat \ {0} /\ Pow2[H] \in Nat \ {0}
      BY HalfIs
    <2>2. H - 1 \in Nat /\ H \in Nat /\ (H - 1) + H = W - 1 /\ (H - 1) + H <= 2 * W
      BY WidthIs
    <2>3. Pow2[W - 1] = Pow2[H - 1] * Pow2[H]
      <3>1. Pow2[(H - 1) + H] = Pow2[H - 1] * Pow2[H]
        BY <2>2, PowSum
      <3> QED
        BY <2>2, <3>1
    <2> DEFINE c == Pow2[H - 1]
               e == Pow2[H] - 1
    <2>4. c \in Nat /\ e \in Nat /\ Pow2[W - 1] = c * (e + 1)
      <3>1. e \in Nat /\ e + 1 = Pow2[H]
        BY <2>1
      <3> QED
        BY <2>1, <2>3, <3>1
    <2> HIDE DEF c, e
    <2>5. c * (e + 1) = c * e + c /\ c * e \in Nat
      BY <2>4
    <2>6. c <= Pow2[W - 1] /\ Pow2[W - 1] \in Nat
      BY <2>4, <2>5
    <2> QED
      BY <2>6, <2>4 DEF c
  <1> HIDE DEF v
  <1>4. -Pow2[W - 1] <= v /\ v < Pow2[W - 1]
    BY <1>2, <1>3, HalfIs
  <1>5. Signed(Low(v, W), W) = v
    BY <1>1, <1>2, <1>4, SignedUnique
  <1>6. Extend(x, H) = Low(v, W)
    BY DEF Extend, Low, v
  <1> QED
    BY <1>5, <1>6 DEF v

\* The words that are added, subtracted and shifted stand for the sum, the
\* difference and the product of the numbers.
LEMMA SumRight ==
  ASSUME NEW x \in Values, NEW y \in Values
  PROVE  LET sx == Signed(x, W)
             sy == Signed(y, W)
         IN  /\ Word64(x + y) = Word64(sx + sy) /\ Extend(x + y, H) = Extend(sx + sy, H)
             /\ Word64(x - y) = Word64(sx - sy) /\ Extend(x - y, H) = Extend(sx - sy, H)
             /\ sx + sy \in Int /\ sx - sy \in Int
  <1> DEFINE sx == Signed(x, W)
             sy == Signed(y, W)
  <1>1. sx \in Int /\ sy \in Int /\ x \in Int /\ y \in Int
    BY WordSigned
  <1>2. PICK k \in Int : x - sx = Pow2[W] * k
    BY WordSigned
  <1>3. PICK l \in Int : y - sy = Pow2[W] * l
    BY WordSigned
  <1>4. Pow2[W] \in Int
    BY PowWidth
  <1> HIDE DEF sx, sy
  <1>5. (x + y) - (sx + sy) = Pow2[W] * (k + l) /\ k + l \in Int
    BY <1>1, <1>2, <1>3, <1>4
  <1>6. (x - y) - (sx - sy) = Pow2[W] * (k - l) /\ k - l \in Int
    BY <1>1, <1>2, <1>3, <1>4
  <1>7. x + y \in Int /\ sx + sy \in Int /\ x - y \in Int /\ sx - sy \in Int
    BY <1>1
  <1>8. Word64(x + y) = Word64(sx + sy) /\ Extend(x + y, H) = Extend(sx + sy, H)
    BY <1>5, <1>7, WordCongruent
  <1>9. Word64(x - y) = Word64(sx - sy) /\ Extend(x - y, H) = Extend(sx - sy, H)
    BY <1>6, <1>7, WordCongruent
  <1> QED
    BY <1>7, <1>8, <1>9 DEF sx, sy

LEMMA ShiftRight ==
  ASSUME NEW x \in Values, NEW d \in Nat \ {0}
  PROVE  LET sx == Signed(x, W)
         IN  /\ Word64(x * d) = Word64(sx * d) /\ Extend(x * d, H) = Extend(sx * d, H)
             /\ sx * d \in Int
  <1> DEFINE sx == Signed(x, W)
  <1>1. sx \in Int /\ x \in Int
    BY WordSigned
  <1>2. PICK k \in Int : x - sx = Pow2[W] * k
    BY WordSigned
  <1>3. Pow2[W] \in Int
    BY PowWidth
  <1> HIDE DEF sx
  <1>4. x * d - sx * d = (x - sx) * d /\ (Pow2[W] * k) * d = Pow2[W] * (k * d)
    BY <1>1, <1>3
  <1>5. x * d - sx * d = Pow2[W] * (k * d) /\ k * d \in Int /\ x * d \in Int /\ sx * d \in Int
    BY <1>1, <1>2, <1>4
  <1> QED
    BY <1>5, WordCongruent DEF sx

\* g[k] is the number that the digits d from k upwards make.
AreBits(g, d, m) == g = [k \in m .. W |-> IF k = W THEN 0 ELSE 2 * g[k + 1] + d[k]]

LEMMA BitsExist == \A d : \E g : AreBits(g, d, 0)
  <1> SUFFICES ASSUME NEW d PROVE \E g : AreBits(g, d, 0)
    OBVIOUS
  <1>0. W \in Nat
    BY WidthIs
  <1> DEFINE T == {n \in Nat : n <= W => \E g : AreBits(g, d, W - n)}
  <1>1. 0 \in T
    <2> DEFINE g == [k \in W .. W |-> 0]
    <2>1. g = [k \in W .. W |-> IF k = W THEN 0 ELSE 2 * g[k + 1] + d[k]]
      BY <1>0
    <2>2. AreBits(g, d, W - 0)
      BY <1>0, <2>1 DEF AreBits
    <2> QED
      BY <2>2
  <1>2. ASSUME NEW n \in T
        PROVE  n + 1 \in T
    <2> SUFFICES ASSUME n + 1 <= W PROVE \E g : AreBits(g, d, W - (n + 1))
      OBVIOUS
    <2>1. PICK g : AreBits(g, d, W - n)
      BY <1>0
    <2> DEFINE m == W - (n + 1)
               f == [k \in m .. W |-> IF k = m THEN 2 * g[m + 1] + d[m] ELSE g[k]]
    <2>2. m \in Nat /\ m + 1 = W - n /\ m < W /\ m # W
      BY <1>0
    <2> HIDE DEF m
    <2>3. \A k \in m + 1 .. W : g[k] = IF k = W THEN 0 ELSE 2 * g[k + 1] + d[k]
      BY <2>1, <2>2 DEF AreBits
    <2>4. \A k \in m .. W : f[k] = IF k = W THEN 0 ELSE 2 * f[k + 1] + d[k]
      <3> SUFFICES ASSUME NEW k \in m .. W
                   PROVE  f[k] = IF k = W THEN 0 ELSE 2 * f[k + 1] + d[k]
        OBVIOUS
      <3>1. k # W => k + 1 \in m .. W /\ k + 1 # m
        BY <1>0, <2>2
      <3>2. k # W => f[k + 1] = g[k + 1]
        BY <3>1
      <3>3. CASE k = m
        <4>1. f[k] = 2 * g[m + 1] + d[m] /\ k # W
          BY <2>2, <3>3
        <4> HIDE DEF f
        <4> QED
          BY <3>2, <3>3, <4>1
      <3>4. CASE k # m
        <4>1. f[k] = g[k] /\ k \in m + 1 .. W
          BY <1>0, <2>2, <3>4
        <4> HIDE DEF f
        <4> QED
          BY <2>3, <3>2, <4>1
      <3> QED
        BY <3>3, <3>4
    <2>5. f = [k \in m .. W |-> f[k]]
      OBVIOUS
    <2> HIDE DEF f
    <2>6. f = [k \in m .. W |-> IF k = W THEN 0 ELSE 2 * f[k + 1] + d[k]]
      BY <2>4, <2>5
    <2>7. AreBits(f, d, m)
      BY <2>6 DEF AreBits
    <2> QED
      BY <2>7 DEF m
  <1> HIDE DEF T
  <1>3. T \subseteq Nat
    BY DEF T
  <1>4. W \in T
    BY <1>0, <1>1, <1>2, <1>3, SetInduction
  <1> QED
    BY <1>0, <1>4, W - W = 0 DEF T

LEMMA BitsUnique ==
  ASSUME NEW d \in [0 .. W -> 0 .. 1], NEW f, NEW g, AreBits(f, d, 0), AreBits(g, d, 0)
  PROVE  f[0] = g[0] /\ f[0] \in Values
  <1>0. W \in Nat /\ W \in 0 .. 2 * W
    BY WidthIs
  <1>1. \A k \in 0 .. W : /\ f[k] = IF k = W THEN 0 ELSE 2 * f[k + 1] + d[k]
                          /\ g[k] = IF k = W THEN 0 ELSE 2 * g[k + 1] + d[k]
    BY DEF AreBits
  <1> DEFINE T == {n \in Nat : n <= W => f[W - n] = g[W - n] /\ f[W - n] \in 0 .. Pow2[n] - 1}
  <1>2. 0 \in T
    <2>1. W \in 0 .. W /\ W - 0 = W /\ Pow2[0] = 1
      BY <1>0, PowDef
    <2>2. f[W] = 0 /\ g[W] = 0
      BY <1>1, <2>1
    <2> QED
      BY <2>1, <2>2
  <1>3. ASSUME NEW n \in T
        PROVE  n + 1 \in T
    <2> SUFFICES ASSUME n + 1 <= W
                 PROVE  /\ f[W - (n + 1)] = g[W - (n + 1)]
                        /\ f[W - (n + 1)] \in 0 .. Pow2[n + 1] - 1
      OBVIOUS
    <2> DEFINE k == W - (n + 1)
    <2>1. k \in 0 .. W /\ k + 1 = W - n /\ k # W /\ n <= W /\ n \in Nat
      BY <1>0
    <2>2. f[k] = 2 * f[k + 1] + d[k] /\ g[k] = 2 * g[k + 1] + d[k] /\ d[k] \in 0 .. 1
      BY <1>1, <2>1
    <2>3. f[k + 1] = g[k + 1] /\ f[k + 1] \in 0 .. Pow2[n] - 1
      BY <2>1
    <2>4. Pow2[n] \in Nat /\ Pow2[n + 1] = 2 * Pow2[n]
      <3>1. n \in 0 .. 2 * W - 1
        BY <1>0, <2>1
      <3> QED
        BY <3>1, PowNext
    <2>5. f[k] = g[k] /\ f[k] \in 0 .. Pow2[n + 1] - 1
      BY <2>2, <2>3, <2>4
    <2> QED
      BY <2>5
  <1> HIDE DEF T
  <1>4. T \subseteq Nat
    BY DEF T
  <1>5. W \in T
    BY <1>0, <1>2, <1>3, <1>4, SetInduction
  <1>6. f[0] = g[0] /\ f[0] \in 0 .. Pow2[W] - 1
    BY <1>0, <1>5, W - W = 0 DEF T
  <1> QED
    BY <1>6 DEF Values

\* The function that Bitwise recurses over.
GateBits(g, gate, x, y) ==
  g = [k \in 0 .. W |->
         IF k = W THEN 0 ELSE 2 * g[k + 1] + gate[Bit(x, k) + 1][Bit(y, k) + 1]]

\* The digits of the result.
Digits(d, gate, x, y) == \A k \in 0 .. W : d[k] = gate[Bit(x, k) + 1][Bit(y, k) + 1]

LEMMA BitwiseIs ==
  ASSUME NEW gate, NEW x, NEW y, NEW d \in [0 .. W -> 0 .. 1], NEW g, AreBits(g, d, 0),
         Digits(d, gate, x, y)
  PROVE  Bitwise(gate, x, y) = g[0]
  <1>1. GateBits(g, gate, x, y)
    BY DEF AreBits, GateBits, Digits
  <1> DEFINE f == CHOOSE h : GateBits(h, gate, x, y)
  <1>2. GateBits(f, gate, x, y)
    BY <1>1
  <1>3. Bitwise(gate, x, y) = f[0]
    BY DEF Bitwise, GateBits
  <1> HIDE DEF f
  <1>4. AreBits(f, d, 0)
    BY <1>2 DEF AreBits, GateBits, Digits
  <1> QED
    BY <1>3, <1>4, BitsUnique

\* The functions that the reference recurses over.
AndBits(g, x, y) ==
  g = [k \in 0 .. W |->
         IF k = W THEN 0 ELSE 2 * g[k + 1] + Flag(Bit(x, k) = 1 /\ Bit(y, k) = 1)]
OrBits(g, x, y) ==
  g = [k \in 0 .. W |->
         IF k = W THEN 0 ELSE 2 * g[k + 1] + Flag(Bit(x, k) = 1 \/ Bit(y, k) = 1)]
XorBits(g, x, y) ==
  g = [k \in 0 .. W |->
         IF k = W THEN 0 ELSE 2 * g[k + 1] + Flag((Bit(x, k) = 1) # (Bit(y, k) = 1))]

LEMMA ArithBits ==
  ASSUME NEW x, NEW y
  PROVE  /\ Arith("and", x, y) = (CHOOSE g : AndBits(g, x, y))[0]
         /\ Arith("or", x, y) = (CHOOSE g : OrBits(g, x, y))[0]
         /\ Arith("xor", x, y) = (CHOOSE g : XorBits(g, x, y))[0]
  <1>1. Arith("and", x, y) = (CHOOSE g : AndBits(g, x, y))[0]
    BY Zenon DEF Arith, AndBits
  <1>2. Arith("or", x, y) = (CHOOSE g : OrBits(g, x, y))[0]
    BY Zenon DEF Arith, OrBits
  <1>3. Arith("xor", x, y) = (CHOOSE g : XorBits(g, x, y))[0]
    BY Zenon DEF Arith, XorBits
  <1> QED
    BY <1>1, <1>2, <1>3

\* The digits of the three bitwise operations are those of the truth tables.
LEMMA BitwiseRight ==
  ASSUME NEW x \in Values, NEW y \in Values
  PROVE  /\ Bitwise(AND, x, y) = Word64(Arith("and", x, y))
         /\ Bitwise(OR, x, y) = Word64(Arith("or", x, y))
         /\ Bitwise(XOR, x, y) = Word64(Arith("xor", x, y))
  <1>1. ASSUME NEW k \in 0 .. W
        PROVE  Bit(x, k) \in 0 .. 1 /\ Bit(y, k) \in 0 .. 1
    BY WidthIs, WordInt, SplitBit
  <1>2. Bitwise(AND, x, y) = Word64(Arith("and", x, y))
    <2> DEFINE digit(k) == Flag(Bit(x, k) = 1 /\ Bit(y, k) = 1)
               d == [k \in 0 .. W |-> digit(k)]
               f == CHOOSE g : AndBits(g, x, y)
    <2>1. ASSUME NEW k \in 0 .. W
          PROVE  /\ digit(k) \in 0 .. 1
                 /\ digit(k) = AND[Bit(x, k) + 1][Bit(y, k) + 1]
      <3> DEFINE p == Bit(x, k)
                 q == Bit(y, k)
      <3>1. p \in 0 .. 1 /\ q \in 0 .. 1
        BY <1>1
      <3> HIDE DEF p, q
      <3>2. Flag(p = 1 /\ q = 1) \in 0 .. 1
        BY DEF Flag
      <3>3. Flag(p = 1 /\ q = 1) = AND[p + 1][q + 1]
        <4>1. p = 0 \/ p = 1
          BY <3>1
        <4>2. q = 0 \/ q = 1
          BY <3>1
        <4> QED
          BY <4>1, <4>2 DEF Flag, AND
      <3> QED
        BY <3>2, <3>3 DEF p, q
    <2> HIDE DEF digit
    <2>2. d \in [0 .. W -> 0 .. 1]
      BY <2>1
    <2>3. PICK g : AreBits(g, d, 0)
      BY BitsExist
    <2>4. \A k \in 0 .. W : d[k] = digit(k)
      OBVIOUS
    <2> HIDE DEF d
    <2>5. Digits(d, AND, x, y)
      BY <2>1, <2>4 DEF Digits
    <2>6. Bitwise(AND, x, y) = g[0]
      BY <2>2, <2>3, <2>5, BitwiseIs
    <2>7. AndBits(g, x, y)
      BY <2>3, <2>4 DEF AreBits, AndBits, digit
    <2>8. AndBits(f, x, y)
      BY <2>7
    <2> HIDE DEF f
    <2>9. AreBits(f, d, 0)
      BY <2>8, <2>4 DEF AreBits, AndBits, digit
    <2>10. f[0] = g[0] /\ f[0] \in Values
      BY <2>2, <2>3, <2>9, BitsUnique
    <2>11. Arith("and", x, y) = f[0]
      BY ArithBits DEF f
    <2> QED
      BY <2>6, <2>10, <2>11, WordSmall
  <1>3. Bitwise(OR, x, y) = Word64(Arith("or", x, y))
    <2> DEFINE digit(k) == Flag(Bit(x, k) = 1 \/ Bit(y, k) = 1)
               d == [k \in 0 .. W |-> digit(k)]
               f == CHOOSE g : OrBits(g, x, y)
    <2>1. ASSUME NEW k \in 0 .. W
          PROVE  /\ digit(k) \in 0 .. 1
                 /\ digit(k) = OR[Bit(x, k) + 1][Bit(y, k) + 1]
      <3> DEFINE p == Bit(x, k)
                 q == Bit(y, k)
      <3>1. p \in 0 .. 1 /\ q \in 0 .. 1
        BY <1>1
      <3> HIDE DEF p, q
      <3>2. Flag(p = 1 \/ q = 1) \in 0 .. 1
        BY DEF Flag
      <3>3. Flag(p = 1 \/ q = 1) = OR[p + 1][q + 1]
        <4>1. p = 0 \/ p = 1
          BY <3>1
        <4>2. q = 0 \/ q = 1
          BY <3>1
        <4> QED
          BY <4>1, <4>2 DEF Flag, OR
      <3> QED
        BY <3>2, <3>3 DEF p, q
    <2> HIDE DEF digit
    <2>2. d \in [0 .. W -> 0 .. 1]
      BY <2>1
    <2>3. PICK g : AreBits(g, d, 0)
      BY BitsExist
    <2>4. \A k \in 0 .. W : d[k] = digit(k)
      OBVIOUS
    <2> HIDE DEF d
    <2>5. Digits(d, OR, x, y)
      BY <2>1, <2>4 DEF Digits
    <2>6. Bitwise(OR, x, y) = g[0]
      BY <2>2, <2>3, <2>5, BitwiseIs
    <2>7. OrBits(g, x, y)
      BY <2>3, <2>4 DEF AreBits, OrBits, digit
    <2>8. OrBits(f, x, y)
      BY <2>7
    <2> HIDE DEF f
    <2>9. AreBits(f, d, 0)
      BY <2>8, <2>4 DEF AreBits, OrBits, digit
    <2>10. f[0] = g[0] /\ f[0] \in Values
      BY <2>2, <2>3, <2>9, BitsUnique
    <2>11. Arith("or", x, y) = f[0]
      BY ArithBits DEF f
    <2> QED
      BY <2>6, <2>10, <2>11, WordSmall
  <1>4. Bitwise(XOR, x, y) = Word64(Arith("xor", x, y))
    <2> DEFINE digit(k) == Flag((Bit(x, k) = 1) # (Bit(y, k) = 1))
               d == [k \in 0 .. W |-> digit(k)]
               f == CHOOSE g : XorBits(g, x, y)
    <2>1. ASSUME NEW k \in 0 .. W
          PROVE  /\ digit(k) \in 0 .. 1
                 /\ digit(k) = XOR[Bit(x, k) + 1][Bit(y, k) + 1]
      <3> DEFINE p == Bit(x, k)
                 q == Bit(y, k)
      <3>1. p \in 0 .. 1 /\ q \in 0 .. 1
        BY <1>1
      <3> HIDE DEF p, q
      <3>2. Flag((p = 1) # (q = 1)) \in 0 .. 1
        BY DEF Flag
      <3>3. Flag((p = 1) # (q = 1)) = XOR[p + 1][q + 1]
        <4>1. p = 0 \/ p = 1
          BY <3>1
        <4>2. q = 0 \/ q = 1
          BY <3>1
        <4> QED
          BY <4>1, <4>2 DEF Flag, XOR
      <3> QED
        BY <3>2, <3>3 DEF p, q
    <2> HIDE DEF digit
    <2>2. d \in [0 .. W -> 0 .. 1]
      BY <2>1
    <2>3. PICK g : AreBits(g, d, 0)
      BY BitsExist
    <2>4. \A k \in 0 .. W : d[k] = digit(k)
      OBVIOUS
    <2> HIDE DEF d
    <2>5. Digits(d, XOR, x, y)
      BY <2>1, <2>4 DEF Digits
    <2>6. Bitwise(XOR, x, y) = g[0]
      BY <2>2, <2>3, <2>5, BitwiseIs
    <2>7. XorBits(g, x, y)
      BY <2>3, <2>4 DEF AreBits, XorBits, digit
    <2>8. XorBits(f, x, y)
      BY <2>7
    <2> HIDE DEF f
    <2>9. AreBits(f, d, 0)
      BY <2>8, <2>4 DEF AreBits, XorBits, digit
    <2>10. f[0] = g[0] /\ f[0] \in Values
      BY <2>2, <2>3, <2>9, BitsUnique
    <2>11. Arith("xor", x, y) = f[0]
      BY ArithBits DEF f
    <2> QED
      BY <2>6, <2>10, <2>11, WordSmall
  <1> QED
    BY <1>2, <1>3, <1>4

\* What the reference and the ALU compute, operation by operation.
LEMMA ArithIs ==
  ASSUME NEW x, NEW y
  PROVE  LET sx == Signed(x, W)
             sy == Signed(y, W)
             wx == Signed(Low(x, H), H)
         IN  /\ Arith("add", x, y) = sx + sy
             /\ Arith("sub", x, y) = sx - sy
             /\ Arith("sll", x, y) = sx * Pow2[y % W]
             /\ Arith("srl", x, y) = x \div Pow2[y % W]
             /\ Arith("sra", x, y) = sx \div Pow2[y % W]
             /\ Arith("slt", x, y) = Flag(sx < sy)
             /\ Arith("sltu", x, y) = Flag(x < y)
             /\ Arith("addw", x, y) = Wrapped(sx + sy)
             /\ Arith("subw", x, y) = Wrapped(sx - sy)
             /\ Arith("sllw", x, y) = Wrapped(sx * Pow2[y % H])
             /\ Arith("srlw", x, y) = Wrapped(Low(x, H) \div Pow2[y % H])
             /\ Arith("sraw", x, y) = wx \div Pow2[y % H]
  <1>1. Arith("add", x, y) = Signed(x, W) + Signed(y, W)
    BY Zenon DEF Arith, Wrapped, Flag
  <1>2. Arith("sub", x, y) = Signed(x, W) - Signed(y, W)
    BY Zenon DEF Arith, Wrapped, Flag
  <1>3. Arith("sll", x, y) = Signed(x, W) * Pow2[y % W]
    BY Zenon DEF Arith, Wrapped, Flag
  <1>4. Arith("srl", x, y) = x \div Pow2[y % W]
    BY Zenon DEF Arith, Wrapped, Flag
  <1>5. Arith("sra", x, y) = Signed(x, W) \div Pow2[y % W]
    BY Zenon DEF Arith, Wrapped, Flag
  <1>6. Arith("slt", x, y) = Flag(Signed(x, W) < Signed(y, W))
    BY Zenon DEF Arith, Wrapped, Flag
  <1>7. Arith("sltu", x, y) = Flag(x < y)
    BY Zenon DEF Arith, Wrapped, Flag
  <1>8. Arith("addw", x, y) = Wrapped(Signed(x, W) + Signed(y, W))
    BY Zenon DEF Arith, Wrapped, Flag
  <1>9. Arith("subw", x, y) = Wrapped(Signed(x, W) - Signed(y, W))
    BY Zenon DEF Arith, Wrapped, Flag
  <1>10. Arith("sllw", x, y) = Wrapped(Signed(x, W) * Pow2[y % H])
    BY Zenon DEF Arith, Wrapped, Flag
  <1>11. Arith("srlw", x, y) = Wrapped(Low(x, H) \div Pow2[y % H])
    BY Zenon DEF Arith, Wrapped, Flag
  <1>12. Arith("sraw", x, y) = Signed(Low(x, H), H) \div Pow2[y % H]
    BY Zenon DEF Arith, Wrapped, Flag
  <1> QED
    BY <1>1, <1>2, <1>3, <1>4, <1>5, <1>6, <1>7, <1>8, <1>9, <1>10, <1>11, <1>12, Zenon

LEMMA ResultIs ==
  ASSUME NEW x, NEW y
  PROVE  /\ result(x, y, "ADD") = Word64(x + y)
         /\ result(x, y, "SUB") = Word64(x - y)
         /\ result(x, y, "SLL") = Word64(x * Pow2[y % W])
         /\ result(x, y, "SRL") = x \div Pow2[y % W]
         /\ result(x, y, "SRA") = Word64(Signed(x, W) \div Pow2[y % W])
         /\ result(x, y, "SLT") = Flag(Signed(x, W) < Signed(y, W))
         /\ result(x, y, "SLTU") = Flag(x < y)
         /\ result(x, y, "ADDW") = Extend(x + y, H)
         /\ result(x, y, "SUBW") = Extend(x - y, H)
         /\ result(x, y, "SLLW") = Extend(x * Pow2[y % H], H)
         /\ result(x, y, "SRLW") = Extend(Low(x, H) \div Pow2[y % H], H)
         /\ result(x, y, "SRAW") = Word64(Signed(Extend(x, H), W) \div Pow2[y % H])
         /\ result(x, y, "USUB") = Word64(x - y)
         /\ result(x, y, "AND") = Bitwise(AND, x, y)
         /\ result(x, y, "OR") = Bitwise(OR, x, y)
         /\ result(x, y, "XOR") = Bitwise(XOR, x, y)
  <1>1. result(x, y, "ADD") = Word64(x + y)
    BY Zenon DEF result, Shamt, ShamtW
  <1>2. result(x, y, "SUB") = Word64(x - y)
    BY Zenon DEF result, Shamt, ShamtW
  <1>3. result(x, y, "SLL") = Word64(x * Pow2[y % W])
    BY Zenon DEF result, Shamt, ShamtW
  <1>4. result(x, y, "SRL") = x \div Pow2[y % W]
    BY Zenon DEF result, Shamt, ShamtW
  <1>5. result(x, y, "SRA") = Word64(Signed(x, W) \div Pow2[y % W])
    BY Zenon DEF result, Shamt, ShamtW
  <1>6. result(x, y, "SLT") = Flag(Signed(x, W) < Signed(y, W))
    BY Zenon DEF result, Shamt, ShamtW
  <1>7. result(x, y, "SLTU") = Flag(x < y)
    BY Zenon DEF result, Shamt, ShamtW
  <1>8. result(x, y, "ADDW") = Extend(x + y, H)
    BY Zenon DEF result, Shamt, ShamtW
  <1>9. result(x, y, "SUBW") = Extend(x - y, H)
    BY Zenon DEF result, Shamt, ShamtW
  <1>10. result(x, y, "SLLW") = Extend(x * Pow2[y % H], H)
    BY Zenon DEF result, Shamt, ShamtW
  <1>11. result(x, y, "SRLW") = Extend(Low(x, H) \div Pow2[y % H], H)
    BY Zenon DEF result, Shamt, ShamtW
  <1>12. result(x, y, "SRAW") = Word64(Signed(Extend(x, H), W) \div Pow2[y % H])
    BY Zenon DEF result, Shamt, ShamtW
  <1>13. result(x, y, "USUB") = Word64(x - y)
    BY Zenon DEF result, Shamt, ShamtW
  <1>14. result(x, y, "AND") = Bitwise(AND, x, y)
    BY Zenon DEF result, Shamt, ShamtW
  <1>15. result(x, y, "OR") = Bitwise(OR, x, y)
    BY Zenon DEF result, Shamt, ShamtW
  <1>16. result(x, y, "XOR") = Bitwise(XOR, x, y)
    BY Zenon DEF result, Shamt, ShamtW
  <1> QED
    BY <1>1, <1>2, <1>3, <1>4, <1>5, <1>6, <1>7, <1>8, <1>9,
       <1>10, <1>11, <1>12, <1>13, <1>14, <1>15, <1>16, Zenon

\* The ALU computes the number that the mnemonic stands for.
LEMMA AluRight ==
  ASSUME NEW n, NEW aluc, Performs(n, aluc), NEW x \in Values, NEW y \in Values
  PROVE  result(x, y, aluc) = Word64(Arith(n, x, y))
  <1> DEFINE d == Pow2[y % W]
             e == Pow2[y % H]
             R(op, m) == result(x, y, op) = Word64(Arith(m, x, y))
  <1>1. /\ d \in Nat \ {0} /\ e \in Nat \ {0}
        /\ x \in Nat /\ y \in Nat /\ x \in Int /\ y \in Int
    BY ShiftType, WordInt
  <1>2. R("ADD", "add") /\ R("SUB", "sub")
    BY SumRight, ArithIs, ResultIs
  <1>3. R("SLL", "sll")
    BY <1>1, ShiftRight, ArithIs, ResultIs
  <1>4. R("SRL", "srl")
    <2>1. x \div d \in Values
      <3>1. x \div d \in 0 .. x
        BY <1>1, DivSmaller
      <3>2. x \in 0 .. Pow2[W] - 1 /\ Pow2[W] \in Nat
        BY WordInt, PowWidth
      <3> HIDE DEF d
      <3>3. x \div d \in 0 .. Pow2[W] - 1
        BY <3>1, <3>2
      <3> QED
        BY <3>3 DEF Values
    <2> QED
      BY <2>1, WordSmall, ArithIs, ResultIs
  <1>5. R("SRA", "sra")
    BY ArithIs, ResultIs
  <1>6. R("SLT", "slt") /\ R("SLTU", "sltu")
    <2>1. 0 \in Values /\ 1 \in Values
      BY PowWidth DEF Values
    <2>2. Flag(Signed(x, W) < Signed(y, W)) \in Values
      BY <2>1 DEF Flag
    <2>3. Flag(x < y) \in Values
      BY <2>1 DEF Flag
    <2> QED
      BY <2>2, <2>3, WordSmall, ArithIs, ResultIs
  <1>7. R("AND", "and") /\ R("OR", "or") /\ R("XOR", "xor")
    BY BitwiseRight, ResultIs
  <1>8. R("ADDW", "addw") /\ R("SUBW", "subw")
    BY SumRight, WrappedIs, ArithIs, ResultIs
  <1>9. R("SLLW", "sllw")
    <2>1. Extend(x * e, H) = Extend(Signed(x, W) * e, H) /\ Signed(x, W) * e \in Int
      BY <1>1, ShiftRight
    <2>2. Extend(Signed(x, W) * e, H) = Word64(Wrapped(Signed(x, W) * e))
      BY <2>1, WrappedIs
    <2> QED
      BY <2>1, <2>2, ArithIs, ResultIs
  <1>10. R("SRLW", "srlw")
    <2>1. Low(x, H) \in Nat
      BY <1>1, HalfIs, LowType
    <2>2. Low(x, H) \div e \in Int
      BY <1>1, <2>1
    <2> QED
      BY <2>2, WrappedIs, ArithIs, ResultIs
  <1>11. R("SRAW", "sraw")
    BY HalfSigned, ArithIs, ResultIs
  <1> HIDE DEF R
  <1>12. R(aluc, n)
    BY <1>2, <1>3, <1>4, <1>5, <1>6, <1>7, <1>8, <1>9, <1>10, <1>11, Zenon DEF Performs
  <1> QED
    BY <1>12 DEF R

\* The sign bit of a difference that fits.
LEMMA SignOf ==
  ASSUME NEW v \in Int, -Pow2[W - 1] <= v, v < Pow2[W - 1]
  PROVE  Bit(Word64(v), W - 1) = 1 <=> v < 0
  <1>1. W \in 1 .. 2 * W
    BY HalfIs
  <1>2. Bit(Low(v, W), W - 1) = Bit(v, W - 1)
    BY <1>1, BitLow
  <1>3. Signed(Low(v, W), W) = v
    BY <1>1, SignedUnique
  <1>4. v < 0 <=> Bit(v, W - 1) = 1
    BY <1>1, <1>3, SignedLow
  <1> QED
    BY <1>2, <1>4 DEF Low, Word64

LEMMA WordZero ==
  ASSUME NEW x \in Values, NEW y \in Values
  PROVE  /\ Word64(x - y) = 0 <=> x = y
         /\ Signed(x, W) = Signed(y, W) <=> x = y
  <1> DEFINE m == Pow2[W]
  <1>1. m \in Nat \ {0} /\ x \in 0 .. m - 1 /\ y \in 0 .. m - 1
    BY WordInt, HalfIs
  <1>2. (x - y) % m = 0 <=> x = y
    <2> HIDE DEF m
    <2>1. CASE x >= y
      <3>1. x - y \in 0 .. m - 1
        BY <1>1, <2>1
      <3>2. (x - y) % m = x - y
        BY <1>1, <3>1, Small
      <3> QED
        BY <1>1, <3>2
    <2>2. CASE x < y
      <3>1. x - y + m \in 0 .. m - 1 /\ x - y = m * (-1) + (x - y + m) /\ x - y + m # 0
        BY <1>1, <2>2
      <3>2. (x - y) % m = x - y + m
        BY <1>1, <3>1, DivIs
      <3> QED
        BY <1>1, <3>1, <3>2, <2>2
    <2> QED
      BY <1>1, <2>1, <2>2
  <1>3. Word64(x - y) = 0 <=> x = y
    BY <1>2 DEF Word64
  <1>4. ASSUME Signed(x, W) = Signed(y, W) PROVE x = y
    <2>1. Signed(x, W) = x \/ Signed(x, W) = x - m
      BY WordSigned
    <2>2. Signed(y, W) = y \/ Signed(y, W) = y - m
      BY WordSigned
    <2> HIDE DEF m
    <2> QED
      BY <1>1, <1>4, <2>1, <2>2
  <1> QED
    BY <1>3, <1>4

\* The sign flag after a subtraction, of signed and of unsigned operands.
LEMMA SignFlag ==
  ASSUME NEW x \in Values, NEW y \in Values
  PROVE  /\ SF(x, y, "SUB") = 1 <=> Signed(x, W) < Signed(y, W)
         /\ SF(x, y, "USUB") = 1 <=> x < y
         /\ SF(x, y, "SUB") \in 0 .. 1 /\ SF(x, y, "USUB") \in 0 .. 1
  <1> DEFINE h == Pow2[W - 1]
             sx == Signed(x, W)
             sy == Signed(y, W)
             bx == Bit(x, W - 1)
             by == Bit(y, W - 1)
             r == Word64(x - y)
  <1>1. h \in Nat \ {0} /\ Pow2[W] = 2 * h
    BY PowWidth
  <1>2. /\ sx \in Int /\ sy \in Int /\ x \in Int /\ y \in Int
        /\ -h <= sx /\ sx < h /\ -h <= sy /\ sy < h
        /\ sx < 0 <=> bx = 1
        /\ sy < 0 <=> by = 1
        /\ bx \in 0 .. 1 /\ by \in 0 .. 1
    BY WordSigned
  <1>3. x >= h <=> bx = 1
    BY HalfIs, WordInt, SignedIs
  <1>4. y >= h <=> by = 1
    BY HalfIs, WordInt, SignedIs
  <1>5. x \in 0 .. 2 * h - 1 /\ y \in 0 .. 2 * h - 1
    BY <1>1, WordInt
  <1>6. Bit(r, W - 1) \in 0 .. 1
    <2>1. r \in Int
      <3>1. x - y \in Int /\ Pow2[W] \in Nat \ {0}
        BY <1>2, PowWidth
      <3> QED
        BY <3>1, DivMod DEF Word64
    <2> QED
      BY <2>1, WidthIs, SplitBit
  <1>7. SF(x, y, "SUB") = Bit(IF bx = by THEN r ELSE x, W - 1)
    BY ResultIs, Zenon DEF SF
  <1>8. SF(x, y, "USUB") = Bit(IF bx = by THEN r ELSE y, W - 1)
    BY ResultIs, Zenon DEF SF
  <1>9. ASSUME bx = by PROVE Bit(r, W - 1) = 1 <=> sx < sy
    <2>1. sx - sy \in Int /\ -h <= sx - sy /\ sx - sy < h
      <3> HIDE DEF h, sx, sy, bx, by
      <3> QED
        BY <1>1, <1>2, <1>9
    <2>2. Bit(Word64(sx - sy), W - 1) = 1 <=> sx - sy < 0
      BY <2>1, SignOf
    <2>3. r = Word64(sx - sy)
      BY SumRight
    <2>4. sx - sy < 0 <=> sx < sy
      <3> HIDE DEF sx, sy
      <3> QED
        BY <1>2
    <2> QED
      BY <2>2, <2>3, <2>4
  <1>10. ASSUME bx = by PROVE Bit(r, W - 1) = 1 <=> x < y
    <2>1. x - y \in Int /\ -h <= x - y /\ x - y < h
      <3> HIDE DEF h, bx, by
      <3> QED
        BY <1>1, <1>2, <1>3, <1>4, <1>5, <1>10
    <2>2. Bit(r, W - 1) = 1 <=> x - y < 0
      BY <2>1, SignOf
    <2> QED
      BY <1>2, <2>2
  <1> HIDE DEF h, sx, sy, r, bx, by
  <1>11. CASE bx = by
    <2>1. SF(x, y, "SUB") = Bit(r, W - 1) /\ SF(x, y, "USUB") = Bit(r, W - 1)
      BY <1>7, <1>8, <1>11
    <2> QED
      BY <1>6, <1>9, <1>10, <1>11, <2>1 DEF sx, sy
  <1>12. CASE bx # by
    <2>1. SF(x, y, "SUB") = bx /\ SF(x, y, "USUB") = by
      BY <1>7, <1>8, <1>12 DEF bx, by
    <2>2. bx = 1 <=> sx < sy
      BY <1>2, <1>12
    <2>3. by = 1 <=> x < y
      BY <1>1, <1>2, <1>3, <1>4, <1>12
    <2> QED
      BY <1>2, <2>1, <2>2, <2>3 DEF sx, sy
  <1> QED
    BY <1>11, <1>12

\* When a branch is taken, in the words of the reference.
Relates(n, x, y) ==
  LET sx == Signed(x, W)
      sy == Signed(y, W)
  IN  CASE n = "beq"  -> sx = sy
        [] n = "bne"  -> sx # sy
        [] n = "blt"  -> sx < sy
        [] n = "bge"  -> sx >= sy
        [] n = "bltu" -> x < y
        [] n = "bgeu" -> x >= y

LEMMA TestRight ==
  ASSUME NEW n, NEW how, NEW aluc, Compares(n, how, aluc), NEW x \in Values, NEW y \in Values
  PROVE  Taken(how, zero(x, y, aluc), SF(x, y, aluc)) <=> Relates(n, x, y)
  <1> DEFINE Q(o, t, op) == Taken(t, zero(x, y, op), SF(x, y, op)) <=> Relates(o, x, y)
             sx == Signed(x, W)
             sy == Signed(y, W)
             sf == SF(x, y, "SUB")
             su == SF(x, y, "USUB")
  <1>1. zero(x, y, "SUB") <=> sx = sy
    BY WordZero, ResultIs DEF zero
  <1>2. /\ sf = 1 <=> sx < sy
        /\ sf = 0 <=> sx >= sy
        /\ su = 1 <=> x < y
        /\ su = 0 <=> x >= y
    <2>1. sx \in Int /\ sy \in Int /\ x \in Int /\ y \in Int
      BY WordSigned
    <2>2. /\ sf = 1 <=> sx < sy
          /\ su = 1 <=> x < y
          /\ sf \in 0 .. 1 /\ su \in 0 .. 1
      BY SignFlag
    <2> HIDE DEF sf, su, sx, sy
    <2> QED
      BY <2>1, <2>2
  <1>3. Q("beq", "zero", "SUB")
    BY <1>1, Zenon DEF Taken, Relates
  <1>4. Q("bne", "nonzero", "SUB")
    BY <1>1, Zenon DEF Taken, Relates
  <1>5. Q("blt", "SF", "SUB")
    BY <1>2, Zenon DEF Taken, Relates
  <1>6. Q("bge", "noSF", "SUB")
    BY <1>2, Zenon DEF Taken, Relates
  <1>7. Q("bltu", "SF", "USUB")
    BY <1>2, Zenon DEF Taken, Relates
  <1>8. Q("bgeu", "noSF", "USUB")
    BY <1>2, Zenon DEF Taken, Relates
  <1> HIDE DEF Q
  <1>9. Q(n, how, aluc)
    BY <1>3, <1>4, <1>5, <1>6, <1>7, <1>8, Zenon DEF Compares
  <1> QED
    BY <1>9, Zenon DEF Q

-----------------------------------------------------------------------------
(***************************************************************************)
(* From decode to write-back: the two latches, and what the instruction in *)
(* the core writes, where it goes and what it asks for.                    *)
(***************************************************************************)
\* What was latched is what the instruction in the core selects, unless it
\* selects nothing.
Latched ==
  enc.op # "none" =>
    /\ signals.m2reg # HOLD => m2reg = signals.m2reg
    /\ signals.branch # "hold" => branch = taken

ExecInv ==
  /\ ExecTypeOK
  /\ rfq1 \in Values /\ rfq2 \in Values /\ imm \in Values /\ pc \in Int
  /\ Latched

Tests == {"never", "always", "zero", "nonzero", "SF", "noSF", "hold"}

LEMMA DecodedAs ==
  ASSUME NEW e \in Encodings
  PROVE  LET c == Signals(e.op, e.f3, e.f7)
             n == Name(e.op, e.f3, e.f7)
         IN  /\ e.op \in Opcodes \cup {"none"} /\ e.f3 \in 0 .. 7
             /\ Decodes(e.op, e.f3, c, n)
             /\ DecodesKind(e.op, e.f3, e.f7, c, n, Kind(e.op, e.f3, e.f7))
             /\ c.branch \in Tests /\ c.m2reg \in 0 .. 8
  <1> DEFINE c == Signals(e.op, e.f3, e.f7)
             n == Name(e.op, e.f3, e.f7)
  <1>1. /\ e.op \in Opcodes \cup {"none"} /\ e.f3 \in 0 .. 7
        /\ e.f7 \in {0, 1, 2, 3, 32, 33}
    BY DEF Encodings
  <1>2. /\ Decodes(e.op, e.f3, c, n)
        /\ DecodesKind(e.op, e.f3, e.f7, c, n, Kind(e.op, e.f3, e.f7))
    BY <1>1, AllDecode
  <1> HIDE DEF c, n
  <1>3. c.branch \in Tests /\ c.m2reg \in 0 .. 8
    BY <1>2, Zenon DEF Decodes, DecodesFlow, Tests
  <1> QED
    BY <1>1, <1>2, <1>3 DEF c, n

LEMMA Decoded ==
  ASSUME ExecTypeOK
  PROVE  /\ enc.op \in Opcodes \cup {"none"} /\ enc.f3 \in 0 .. 7
         /\ Decodes(enc.op, enc.f3, signals, name)
         /\ DecodesKind(enc.op, enc.f3, enc.f7, signals, name, Kind(enc.op, enc.f3, enc.f7))
         /\ signals.m2reg \in 0 .. 8
  <1>1. enc \in Encodings
    BY DEF ExecTypeOK
  <1> QED
    BY <1>1, DecodedAs DEF signals, name

LEMMA TakenType ==
  ASSUME NEW how \in Tests \ {"hold"}, NEW z \in BOOLEAN, NEW sf
  PROVE  Taken(how, z, sf) \in BOOLEAN
  <1>1. \/ how = "never" \/ how = "always" \/ how = "zero" \/ how = "nonzero"
        \/ how = "SF" \/ how = "noSF"
    BY DEF Tests
  <1> QED
    BY <1>1, Zenon DEF Taken

LEMMA PathInit ==
  ASSUME MCInit
  PROVE  ExecInv
  <1>1. enc = [op |-> "none", f3 |-> 0, f7 |-> 0]
    BY DEF MCInit, ExecInit
  <1>2. 0 \in Values
    BY PowWidth DEF Values
  <1>3. m2reg \in 0 .. 7 /\ branch \in BOOLEAN
    <2>1. m2reg \in 0 .. 7
      BY 0 \in 0 .. 7, Zenon DEF MCInit, ExecInit
    <2>2. branch \in BOOLEAN
      BY Zenon DEF MCInit, ExecInit
    <2> QED
      BY <2>1, <2>2
  <1>6. rfq1 \in Values /\ rfq2 \in Values /\ imm \in Values
    BY ExecAssumption, <1>2 DEF MCInit, ExecInit
  <1>7. pc \in Int
    <2>1. pc \in Values \/ pc = 12
      BY ExecAssumption DEF MCInit, ExecInit
    <2> QED
      BY <2>1, WordInt
  <1>4. ExecTypeOK
    BY <1>1, <1>3 DEF ExecTypeOK, Encodings
  <1>5. Latched
    BY <1>1 DEF Latched
  <1> QED
    BY <1>4, <1>5, <1>6, <1>7 DEF ExecInv

LEMMA PathStep == ExecInv /\ [MCNext]_<<part, vars, execVars, laneVars>> => ExecInv'
  <1> SUFFICES ASSUME ExecInv, [MCNext]_<<part, vars, execVars, laneVars>> PROVE ExecInv'
    OBVIOUS
  <1>1. CASE Evaluate
    <2>1. ExecTypeOK' /\ Latched'
      <3>1. enc' \in Encodings
        BY <1>1 DEF Evaluate
      <3>2. /\ signals'.branch \in Tests /\ signals'.m2reg \in 0 .. 8
        BY <3>1, DecodedAs DEF signals
      <3>3. /\ m2reg' = IF signals'.m2reg = HOLD THEN m2reg ELSE signals'.m2reg
            /\ branch' = IF signals'.branch = "hold" THEN branch ELSE taken'
        BY <1>1 DEF Evaluate
      <3>4. m2reg' \in 0 .. 7
        BY <3>2, <3>3 DEF ExecInv, ExecTypeOK, HOLD
      <3>5. signals'.branch # "hold" => taken' \in BOOLEAN
        <4> SUFFICES ASSUME signals'.branch # "hold" PROVE taken' \in BOOLEAN
          OBVIOUS
        <4> DEFINE z == zero(alua', alub', signals'.aluc)
                   sf == SF(alua', alub', signals'.aluc)
        <4>1. z \in BOOLEAN
          BY DEF zero
        <4>2. signals'.branch \in Tests \ {"hold"}
          BY <3>2
        <4> HIDE DEF z, sf
        <4>3. Taken(signals'.branch, z, sf) \in BOOLEAN
          BY <4>1, <4>2, TakenType
        <4> QED
          BY <4>3 DEF taken, z, sf
      <3>6. branch' \in BOOLEAN
        BY <3>3, <3>5 DEF ExecInv, ExecTypeOK
      <3> QED
        BY <3>1, <3>3, <3>4, <3>6, Zenon DEF ExecTypeOK, Latched
    <2> QED
      BY <1>1, <2>1 DEF ExecInv, Evaluate
  <1>2. CASE Leave
    <2>1. ExecTypeOK' /\ Latched'
      BY <1>2 DEF ExecInv, ExecTypeOK, Leave, Encodings, Latched
    <2> QED
      BY <1>2, <2>1 DEF ExecInv, Leave
  <1>3. CASE UNCHANGED execVars
    <2>1. /\ enc' = enc /\ rfq1' = rfq1 /\ rfq2' = rfq2 /\ imm' = imm /\ pc' = pc
          /\ m2reg' = m2reg /\ branch' = branch
      BY <1>3 DEF execVars
    <2>2. signals' = signals /\ taken' = taken
      BY <2>1 DEF taken, signals, alua, alub, q1, q2, immediate
    <2> QED
      BY <2>1, <2>2 DEF ExecInv, ExecTypeOK, Latched
  <1> QED
    BY <1>1, <1>2, <1>3 DEF MCNext, PathNext, UnitsNext, LanesNext, ExecNext, laneVars

\* The words on the path.
LEMMA Immediates ==
  ASSUME ExecInv
  PROVE  /\ immediate \in Values
         /\ enc.op \in {"LUI", "AUIPC", "JAL", "JALR", "LOAD", "STORE", "BRANCH"} =>
              immediate = imm
         /\ q1 \in Values /\ q2 \in Values
         /\ enc.op \in Opcodes \ {"AUIPC", "LUI", "JAL"} => q1 = rfq1
         /\ enc.op \in {"AUIPC", "LUI", "JAL"} => q1 = 0
         /\ enc.op \in {"STORE", "OP", "OP32", "BRANCH"} => q2 = rfq2
  <1>1. /\ rfq1 \in Values /\ rfq2 \in Values /\ imm \in Values
        /\ 0 \in Values /\ W \in Nat \ {0}
    BY PowWidth, WidthIs DEF ExecInv, Values
  <1>2. imm % W \in Values
    <2>1. imm \in Nat /\ imm \in 0 .. Pow2[W] - 1 /\ Pow2[W] \in Nat
      BY <1>1, WordInt, PowWidth
    <2>2. imm % W \in 0 .. imm
      BY <1>1, <2>1, ModSmaller
    <2> QED
      BY <2>1, <2>2 DEF Values
  <1>3. immediate \in Values
    BY <1>1, <1>2 DEF immediate
  <1>4. enc.op \in {"LUI", "AUIPC", "JAL", "JALR", "LOAD", "STORE", "BRANCH"} =>
          immediate = imm
    BY DEF immediate, Opcodes, IsShiftImm
  <1> QED
    BY <1>1, <1>3, <1>4 DEF q1, q2, hasRs1, hasRs2, Opcodes

\* What the multiplexers in front of the ALU select.
LEMMA Selected ==
  /\ signals.shift = TRUE => alua = pc
  /\ signals.shift = FALSE => alua = q1
  /\ signals.aluimm = TRUE => alub = immediate
  /\ signals.aluimm = FALSE => alub = q2
  BY Zenon DEF alua, alub

LEMMA WrittenBack ==
  /\ m2reg = 0 => writeregdata = alures
  /\ m2reg = 2 => writeregdata = pc_4
  BY 0 # 2, 0 # 3, 2 # 3, Zenon DEF writeregdata

\* Address and target additions.
LEMMA Added ==
  ASSUME signals.aluc = "ADD"
  PROVE  alures = Word64(alua + alub)
  BY ResultIs DEF alures

LEMMA Latches ==
  ASSUME ExecInv, enc.op \in Opcodes
  PROVE  /\ signals.m2reg # HOLD => m2reg = signals.m2reg
         /\ signals.branch # "hold" => branch = taken
  BY DEF ExecInv, Latched, Opcodes

\* A mnemonic is not the name of an undocumented encoding.
LEMMA Named ==
  "none" \notin ArithNames \cup BranchNames \cup LoadNames \cup StoreNames
                \cup MulNames \cup DivNames \cup RemNames
  BY DEF ArithNames, BranchNames, LoadNames, StoreNames, MulNames, DivNames, RemNames

LEMMA WritesArith ==
  ASSUME ExecInv, name \in ArithNames
  PROVE  writeregdata = Word64(Arith(name, rfq1, IF enc.op \in {"OP", "OP32"}
                                                   THEN rfq2 ELSE immediate))
  <1> DEFINE y == IF enc.op \in {"OP", "OP32"} THEN rfq2 ELSE immediate
  <1>1. ExecTypeOK /\ rfq1 \in Values /\ rfq2 \in Values
    BY DEF ExecInv
  <1>2. /\ enc.op \in {"OPIMM", "OPIMM32", "OP", "OP32"}
        /\ signals.m2reg = 0 /\ signals.shift = FALSE
        /\ SecondOperand(enc.op, signals)
        /\ Performs(name, signals.aluc)
    BY <1>1, Decoded, Zenon DEF Decodes, DecodesArith
  <1>3. enc.op \in Opcodes \ {"AUIPC", "LUI", "JAL"}
    BY <1>2 DEF Opcodes
  <1>4. m2reg = 0
    BY <1>2, <1>3, Latches DEF HOLD
  <1>5. alua = rfq1
    BY <1>2, <1>3, Selected, Immediates
  <1>6. alub = y /\ y \in Values
    <2>1. CASE enc.op \in {"OP", "OP32"}
      <3>1. signals.aluimm = FALSE
        <4>1. (enc.op \in {"OPIMM", "OPIMM32"}) = FALSE
          BY <2>1
        <4> QED
          BY <1>2, <4>1, Zenon DEF SecondOperand
      <3> QED
        BY <1>1, <2>1, <3>1, Selected, Immediates
    <2>2. CASE enc.op \in {"OPIMM", "OPIMM32"}
      <3>1. signals.aluimm = TRUE
        BY <1>2, <2>2, Zenon DEF SecondOperand
      <3> QED
        BY <2>2, <3>1, Selected, Immediates
    <2> QED
      BY <1>2, <2>1, <2>2
  <1> HIDE DEF y
  <1>7. alures = Word64(Arith(name, rfq1, y))
    BY <1>1, <1>2, <1>5, <1>6, AluRight DEF alures
  <1>8. writeregdata = alures
    BY <1>4, WrittenBack
  <1> QED
    BY <1>7, <1>8 DEF y

LEMMA WritesUpper ==
  ASSUME ExecInv
  PROVE  /\ name = "lui" => writeregdata = imm
         /\ name = "auipc" => writeregdata = Word64(pc + imm)
         /\ name \in {"jal", "jalr"} => writeregdata = Word64(pc + 4)
  <1>1. ExecTypeOK /\ imm \in Values /\ imm \in Int /\ pc \in Int
    BY WordInt DEF ExecInv
  <1>2. DecodesUpper(enc.op, enc.f3, signals, name)
    BY <1>1, Decoded DEF Decodes
  <1>3. ASSUME name = "lui" PROVE writeregdata = imm
    <2>1. /\ enc.op = "LUI" /\ signals.m2reg = 0 /\ signals.shift = FALSE
          /\ signals.aluimm = TRUE /\ signals.aluc = "ADD"
      BY <1>2, <1>3, Zenon DEF DecodesUpper
    <2>2. alua = 0 /\ alub = imm
      BY <2>1, Selected, Immediates
    <2>3. alures = imm
      BY <1>1, <2>1, <2>2, Added, WordSmall
    <2>4. m2reg = 0
      BY <2>1, Latches DEF Opcodes, HOLD
    <2> QED
      BY <2>3, <2>4, WrittenBack
  <1>4. ASSUME name = "auipc" PROVE writeregdata = Word64(pc + imm)
    <2>1. /\ enc.op = "AUIPC" /\ signals.m2reg = 0 /\ signals.shift = TRUE
          /\ signals.aluimm = TRUE /\ signals.aluc = "ADD"
      BY <1>2, <1>4, Zenon DEF DecodesUpper
    <2>2. alua = pc /\ alub = imm
      BY <2>1, Selected, Immediates
    <2>3. alures = Word64(pc + imm)
      BY <2>1, <2>2, Added
    <2>4. m2reg = 0
      BY <2>1, Latches DEF Opcodes, HOLD
    <2> QED
      BY <2>3, <2>4, WrittenBack
  <1>5. ASSUME name \in {"jal", "jalr"} PROVE writeregdata = Word64(pc + 4)
    <2>1. enc.op \in {"JAL", "JALR"} /\ signals.m2reg = 2
      BY <1>2, <1>5, Zenon DEF DecodesUpper
    <2>2. m2reg = 2
      BY <2>1, Latches DEF Opcodes, HOLD
    <2> QED
      BY <2>2, WrittenBack DEF pc_4
  <1> QED
    BY <1>3, <1>4, <1>5

LEMMA WritesRight == ExecInv => WritesResult
  BY WritesArith, WritesUpper DEF WritesResult

\* Where the next instruction comes from, by what decides it.
LEMMA NextPc ==
  /\ ~branch => next_pc = Word64(pc + 4)
  /\ signals.jump = 0 => next_pc = Word64(pc + 4)
  /\ branch /\ signals.jump = 1 => next_pc = Word64(pc + immediate)
  /\ branch /\ signals.jump = 2 => next_pc = alures
  /\ branch /\ signals.jump = 3 => next_pc = alures - (alures % 2)
  <1> DEFINE c1 == pc_4
             c2 == Word64(pc + immediate)
             c3 == alures
             c4 == alures - (alures % 2)
             j == signals.jump
  <1>1. branch_pc = <<c1, c2, c3, c4>>[j + 1]
    BY DEF branch_pc
  <1>2. pc_4 = Word64(pc + 4)
    BY DEF pc_4
  <1>3. next_pc = IF branch THEN branch_pc ELSE pc_4
    BY DEF next_pc
  <1> HIDE DEF c1, c2, c3, c4, j
  <1>4. /\ j = 0 => branch_pc = c1
        /\ j = 1 => branch_pc = c2
        /\ j = 2 => branch_pc = c3
        /\ j = 3 => branch_pc = c4
    BY <1>1
  <1> QED
    BY <1>2, <1>3, <1>4, Zenon DEF c1, c2, c3, c4, j

\* The branch output of an instruction that never, or always, goes on
\* elsewhere.
LEMMA BranchOutput ==
  ASSUME ExecInv, enc.op \in Opcodes
  PROVE  /\ signals.branch = "never" => ~branch
         /\ signals.branch = "always" => branch
  <1> DEFINE z == zero(alua, alub, signals.aluc)
             sf == SF(alua, alub, signals.aluc)
  <1>1. Taken("never", z, sf) = FALSE /\ Taken("always", z, sf) = TRUE
    BY Zenon DEF Taken
  <1>2. taken = Taken(signals.branch, z, sf)
    BY DEF taken
  <1> HIDE DEF z, sf
  <1>3. signals.branch = "never" => branch = FALSE
    <2>1. signals.branch = "never" => signals.branch # "hold"
      OBVIOUS
    <2> QED
      BY <1>1, <1>2, <2>1, Latches, Zenon
  <1>4. signals.branch = "always" => branch = TRUE
    <2>1. signals.branch = "always" => signals.branch # "hold"
      OBVIOUS
    <2> QED
      BY <1>1, <1>2, <2>1, Latches, Zenon
  <1> QED
    BY <1>3, <1>4, Zenon

LEMMA BranchesRight ==
  ASSUME ExecInv, name \in BranchNames
  PROVE  next_pc = Word64(IF BranchTaken THEN pc + imm ELSE pc + 4)
  <1>1. ExecTypeOK /\ rfq1 \in Values /\ rfq2 \in Values
    BY DEF ExecInv
  <1>2. /\ enc.op = "BRANCH" /\ signals.jump = 1 /\ signals.shift = FALSE
        /\ signals.aluimm = FALSE
        /\ Compares(name, signals.branch, signals.aluc)
    BY <1>1, Decoded, Zenon DEF Decodes, DecodesFlow
  <1>3. alua = rfq1 /\ alub = rfq2 /\ immediate = imm
    BY <1>2, Selected, Immediates DEF Opcodes
  <1>4. taken <=> Relates(name, rfq1, rfq2)
    BY <1>1, <1>2, <1>3, TestRight, Zenon DEF taken
  <1>5. signals.branch # "hold"
    BY <1>2 DEF Compares
  <1>6. branch = taken
    BY <1>2, <1>5, Latches DEF Opcodes
  <1>7. BranchTaken <=> Relates(name, rfq1, rfq2)
    BY Zenon DEF BranchTaken, Relates
  <1> QED
    BY <1>2, <1>3, <1>4, <1>6, <1>7, NextPc, Zenon

LEMMA JumpsRight ==
  ASSUME ExecInv
  PROVE  /\ name = "jal" => next_pc = Word64(pc + imm)
         /\ name = "jalr" => LET t == Word64(rfq1 + imm) IN next_pc = t - (t % 2)
  <1>1. DecodesUpper(enc.op, enc.f3, signals, name)
    BY Decoded DEF Decodes, ExecInv
  <1>2. ASSUME name = "jal" PROVE next_pc = Word64(pc + imm)
    <2>1. /\ enc.op = "JAL" /\ signals.shift = TRUE /\ signals.jump = 2
          /\ signals.branch = "always" /\ signals.aluimm = TRUE /\ signals.aluc = "ADD"
      BY <1>1, <1>2, Zenon DEF DecodesUpper
    <2>2. alures = Word64(pc + imm)
      BY <2>1, Selected, Immediates, Added
    <2>3. branch
      BY <2>1, BranchOutput DEF Opcodes
    <2> QED
      BY <2>1, <2>2, <2>3, NextPc
  <1>3. ASSUME name = "jalr" PROVE LET t == Word64(rfq1 + imm) IN next_pc = t - (t % 2)
    <2>1. /\ enc.op = "JALR" /\ signals.shift = FALSE /\ signals.jump = 3
          /\ signals.branch = "always" /\ signals.aluimm = TRUE /\ signals.aluc = "ADD"
      BY <1>1, <1>3, Zenon DEF DecodesUpper
    <2>2. alures = Word64(rfq1 + imm)
      BY <2>1, Selected, Immediates, Added DEF Opcodes
    <2>3. branch
      BY <2>1, BranchOutput DEF Opcodes
    <2> QED
      BY <2>1, <2>2, <2>3, NextPc
  <1> QED
    BY <1>2, <1>3

LEMMA OthersRight ==
  ASSUME ExecInv, name \notin BranchNames \cup {"jal", "jalr"},
         ~(enc.op = "JALR" /\ enc.f3 # 0)
  PROVE  next_pc = Word64(pc + 4)
  <1>1. ExecTypeOK
    BY DEF ExecInv
  <1>2. signals.jump = 0 \/ signals.branch = "never"
    BY <1>1, Decoded, Zenon DEF Decodes, DecodesFlow
  <1>3. CASE enc.op \in Opcodes
    BY <1>2, <1>3, BranchOutput, NextPc
  <1>4. CASE enc.op \notin Opcodes
    <2>1. Control(enc.op, func3(enc.op, enc.f3), func7(enc.op, enc.f3, enc.f7)) = Unknown
      <3>1. enc.op = "none"
        BY <1>1, <1>4, Decoded
      <3> QED
        BY <3>1, Zenon DEF Control
    <2>2. signals.jump = 0
      BY <2>1 DEF signals, Signals, Unknown
    <2> QED
      BY <2>2, NextPc
  <1> QED
    BY <1>3, <1>4

LEMMA GoesRight == ExecInv => GoesTo
  <1> SUFFICES ASSUME ExecInv PROVE GoesTo
    OBVIOUS
  <1>1. CASE name \in BranchNames
    <2>1. name # "jal" /\ name # "jalr"
      BY <1>1 DEF BranchNames
    <2>2. ~(enc.op = "JALR" /\ enc.f3 # 0)
      <3>1. enc.op = "BRANCH"
        BY <1>1, Decoded, Zenon DEF Decodes, DecodesFlow, ExecInv
      <3> QED
        BY <3>1
    <2> QED
      BY <1>1, <2>1, <2>2, BranchesRight, Zenon DEF GoesTo
  <1>2. CASE name \in {"jal", "jalr"}
    <2>1. name \notin BranchNames /\ (name = "jal" => name # "jalr")
      BY <1>2 DEF BranchNames
    <2>2. ~(enc.op = "JALR" /\ enc.f3 # 0)
      <3>1. enc.op = "JAL" \/ enc.f3 = 0
        BY <1>2, Decoded, Zenon DEF Decodes, DecodesUpper, ExecInv
      <3> QED
        BY <3>1
    <2> QED
      BY <1>2, <2>1, <2>2, JumpsRight, Zenon DEF GoesTo
  <1>3. CASE name \notin BranchNames \cup {"jal", "jalr"} /\ enc.op = "JALR" /\ enc.f3 # 0
    <2>1. name # "jal" /\ name # "jalr" /\ name \notin BranchNames
      BY <1>3
    <2> QED
      BY <1>3, <2>1, Zenon DEF GoesTo
  <1>4. CASE name \notin BranchNames \cup {"jal", "jalr"} /\ ~(enc.op = "JALR" /\ enc.f3 # 0)
    <2>1. name # "jal" /\ name # "jalr" /\ name \notin BranchNames
      BY <1>4
    <2> QED
      BY <1>4, <2>1, OthersRight, Zenon DEF GoesTo
  <1> QED
    BY <1>1, <1>2, <1>3, <1>4

LEMMA TransfersRight ==
  ASSUME ExecInv
  PROVE  /\ name \in LoadNames =>
              /\ alures = Word64(rfq1 + imm)
              /\ signals.d_valid /\ ~signals.wmem /\ signals.wreg /\ m2reg = 1
              /\ name \in {"lb", "lh", "lw"} <=> signals.read_sign
              /\ name # "ld" => signals.d_byte = enc.f3 % 4
         /\ name \in StoreNames =>
              /\ alures = Word64(rfq1 + imm)
              /\ signals.d_valid /\ signals.wmem /\ ~signals.wreg
              /\ signals.d_byte = enc.f3
  <1>1. DecodesBus(enc.op, enc.f3, signals, name)
    BY Decoded DEF Decodes, ExecInv
  <1>2. ASSUME name \in LoadNames \cup StoreNames PROVE alures = Word64(rfq1 + imm)
    <2>1. signals.shift = FALSE /\ signals.aluimm = TRUE /\ signals.aluc = "ADD"
      BY <1>1, <1>2, Zenon DEF DecodesBus
    <2>2. enc.op \in {"LOAD", "STORE"}
      BY <1>1, <1>2, Zenon DEF DecodesBus
    <2> QED
      BY <2>1, <2>2, Selected, Immediates, Added DEF Opcodes
  <1>3. ASSUME name \in LoadNames PROVE m2reg = 1
    <2>1. enc.op = "LOAD" /\ signals.m2reg = 1
      BY <1>1, <1>3, Zenon DEF DecodesBus
    <2> QED
      BY <2>1, Latches DEF HOLD, Opcodes
  <1> QED
    BY <1>1, <1>2, <1>3, Zenon DEF DecodesBus

LEMMA UnitsAsked ==
  ASSUME ExecInv
  PROVE  /\ signals.mul_valid <=> name \in MulNames
         /\ name \in MulNames => m2reg = 4 /\ (signals.mul_w <=> name = "mulw")
         /\ name \in DivNames => signals.div_valid /\ m2reg = 5
         /\ name \in RemNames => signals.div_valid /\ m2reg = 6
         /\ name \in DivNames \cup RemNames =>
              /\ signals.div_sign <=> name \in {"div", "divw", "rem", "remw"}
              /\ signals.div_w <=> name \in {"divw", "divuw", "remw", "remuw"}
         /\ signals.mul_valid \/ (signals.div_valid /\ name # "none") =>
              alua = rfq1 /\ alub = rfq2
  <1>1. DecodesUnits(enc.op, signals, name)
    BY Decoded DEF Decodes, ExecInv
  <1>2. ASSUME signals.mul_valid = TRUE \/ (signals.div_valid = TRUE /\ name # "none")
        PROVE  enc.op \in {"OP", "OP32"} /\ alua = rfq1 /\ alub = rfq2
    <2>1. enc.op \in {"OP", "OP32"} /\ signals.shift = FALSE /\ signals.aluimm = FALSE
      BY <1>1, <1>2, Zenon DEF DecodesUnits
    <2> QED
      BY <2>1, Selected, Immediates DEF Opcodes
  <1>3. ASSUME name \in MulNames \cup DivNames \cup RemNames
        PROVE  enc.op \in Opcodes
    <2>1. name # "none"
      BY <1>3, Named
    <2>2. signals.mul_valid = TRUE \/ signals.div_valid = TRUE
      BY <1>1, <1>3, Zenon DEF DecodesUnits
    <2> QED
      BY <1>2, <2>1, <2>2 DEF Opcodes
  <1>4. ASSUME name \in MulNames PROVE m2reg = 4
    <2>1. signals.m2reg = 4
      BY <1>1, <1>4, Zenon DEF DecodesUnits
    <2> QED
      BY <1>3, <1>4, <2>1, Latches DEF HOLD
  <1>5. ASSUME name \in DivNames PROVE m2reg = 5
    <2>1. signals.m2reg = 5
      BY <1>1, <1>5, Zenon DEF DecodesUnits
    <2> QED
      BY <1>3, <1>5, <2>1, Latches DEF HOLD
  <1>6. ASSUME name \in RemNames PROVE m2reg = 6
    <2>1. signals.m2reg = 6
      BY <1>1, <1>6, Zenon DEF DecodesUnits
    <2> QED
      BY <1>3, <1>6, <2>1, Latches DEF HOLD
  <1> QED
    BY <1>1, <1>2, <1>4, <1>5, <1>6, Zenon DEF DecodesUnits

LEMMA DrivesRight == ExecInv => DrivesUnits
  BY TransfersRight, UnitsAsked, Zenon DEF DrivesUnits

\* The groups that documented instructions come from.
LEMMA Groups ==
  ASSUME ExecTypeOK, name # "none"
  PROVE  \/ enc.op = "STORE" /\ name \in StoreNames
         \/ enc.op = "BRANCH" /\ name \in BranchNames
         \/ enc.op \in {"LUI", "AUIPC"} /\ name \in {"lui", "auipc"}
         \/ enc.op = "JAL" /\ name = "jal"
         \/ enc.op \in {"OP", "OP32"} /\ name \in ArithNames \cup MulNames \cup DivNames \cup RemNames
         \/ enc.op \in {"OPIMM", "OPIMM32"} /\ name \in ArithNames
         \/ enc.op \in {"LOAD", "JALR"} /\ name \in LoadNames \cup {"jalr"}
  <1> DEFINE op == enc.op
             c == signals
             n == name
  <1>1. /\ DecodesArith(op, c, n) /\ DecodesUpper(op, enc.f3, c, n)
        /\ DecodesFlow(op, enc.f3, c, n) /\ DecodesBus(op, enc.f3, c, n)
        /\ DecodesUnits(op, c, n)
    BY Decoded DEF Decodes
  <1>2. n \in ArithNames \cup {"lui", "auipc", "jal", "jalr", "none"} \cup LoadNames
                \cup StoreNames \cup MulNames \cup DivNames \cup RemNames \cup BranchNames
    BY Decoded, Zenon DEF DecodesKind
  <1> HIDE DEF op, c, n
  <1>3. n \in ArithNames => op \in {"OPIMM", "OPIMM32", "OP", "OP32"}
    BY <1>1, Zenon DEF DecodesArith
  <1>4. /\ n = "lui" => op = "LUI"
        /\ n = "auipc" => op = "AUIPC"
        /\ n = "jal" => op = "JAL"
        /\ n = "jalr" => op = "JALR"
    BY <1>1, Zenon DEF DecodesUpper
  <1>5. n \in BranchNames => op = "BRANCH"
    BY <1>1, Zenon DEF DecodesFlow
  <1>6. (n \in LoadNames => op = "LOAD") /\ (n \in StoreNames => op = "STORE")
    BY <1>1, Zenon DEF DecodesBus
  <1>7. n \in MulNames \cup DivNames \cup RemNames => op \in {"OP", "OP32"}
    <2>1. n # "none"
      BY DEF n
    <2>2. n \in MulNames \cup DivNames \cup RemNames => c.mul_valid = TRUE \/ c.div_valid = TRUE
      BY <1>1, Zenon DEF DecodesUnits
    <2> QED
      BY <1>1, <2>1, <2>2, Zenon DEF DecodesUnits
  <1>8. n # "none"
    BY DEF n
  <1>9. \/ op = "STORE" /\ n \in StoreNames
        \/ op = "BRANCH" /\ n \in BranchNames
        \/ op \in {"LUI", "AUIPC"} /\ n \in {"lui", "auipc"}
        \/ op = "JAL" /\ n = "jal"
        \/ op \in {"OP", "OP32"} /\ n \in ArithNames \cup MulNames \cup DivNames \cup RemNames
        \/ op \in {"OPIMM", "OPIMM32"} /\ n \in ArithNames
        \/ op \in {"LOAD", "JALR"} /\ n \in LoadNames \cup {"jalr"}
    BY <1>2, <1>3, <1>4, <1>5, <1>6, <1>7, <1>8
  <1> QED
    BY <1>9 DEF op, n

\* A documented shift by a constant is what decode takes for one.
LEMMA ShiftNames ==
  ASSUME NEW op \in {"OPIMM", "OPIMM32"}, NEW f3 \in 0 .. 7, NEW f7 \in {0, 1, 2, 3, 32, 33},
         NEW n, n = Name(op, f3, f7), n # "none"
  PROVE  n \in {"sll", "srl", "sra", "sllw", "srlw", "sraw"} <=> f3 \in {1, 5}
  <1>1. CASE op = "OPIMM"
    <2> DEFINE g == IF f3 \in {1, 5} THEN f7 - (f7 % 2) ELSE 0
    <2>1. n = ArithName(f3, g)
      BY <1>1, Zenon DEF Name
    <2>2. g # 1 /\ (f3 \notin {1, 5} => g = 0)
      OBVIOUS
    <2> HIDE DEF g
    <2>3. g \in {0, 32}
      BY <2>1, <2>2, ArithNameIs, Zenon
    <2>4. CASE g = 0
      <3>1. n = <<"add", "sll", "slt", "sltu", "xor", "srl", "or", "and">>[f3 + 1]
        BY <2>1, <2>4, ArithNameIs
      <3> QED
        BY <3>1
    <2>5. CASE g = 32
      <3>1. n = <<"sub", "none", "none", "none", "none", "sra", "none", "none">>[f3 + 1]
        BY <2>1, <2>5, ArithNameIs
      <3>2. f3 \in {1, 5}
        BY <2>2, <2>5
      <3> QED
        BY <3>1, <3>2
    <2> QED
      BY <2>3, <2>4, <2>5
  <1>2. CASE op = "OPIMM32"
    <2> DEFINE g == IF f7 = 1 THEN 2 ELSE f7
    <2>1. n = IF f3 = 0 THEN "addw" ELSE IF f3 \in {1, 5} THEN ArithWName(f3, g) ELSE "none"
      BY <1>2, Zenon DEF Name
    <2>2. g # 1
      OBVIOUS
    <2> HIDE DEF g
    <2>3. CASE f3 \in {1, 5}
      <3>1. n = ArithWName(f3, g)
        BY <2>1, <2>3
      <3>2. g \in {0, 32}
        BY <3>1, <2>2, ArithWNameIs, Zenon
      <3>3. CASE g = 0
        <4>1. n = <<"addw", "sllw", "none", "none", "none", "srlw", "none", "none">>[f3 + 1]
          BY <3>1, <3>3, ArithWNameIs
        <4> QED
          BY <4>1, <2>3
      <3>4. CASE g = 32
        <4>1. n = <<"subw", "none", "none", "none", "none", "sraw", "none", "none">>[f3 + 1]
          BY <3>1, <3>4, ArithWNameIs
        <4> QED
          BY <4>1, <2>3
      <3> QED
        BY <3>2, <3>3, <3>4
    <2>4. CASE f3 \notin {1, 5}
      <3>1. n = "addw" \/ n = "none"
        BY <2>1, <2>4
      <3> QED
        BY <2>4, <3>1
    <2> QED
      BY <2>3, <2>4
  <1> QED
    BY <1>1, <1>2

\* Bit k of the immediate is the bit of the instruction that the fields
\* put there.
Puts(fields, bit, k) ==
  LET In(f) == f[2] .. f[3]
  IN  IF \E f \in fields : k \in In(f)
        THEN \E f \in fields : k \in In(f) /\ bit = f[1] + (k - f[2])
        ELSE bit = IF \E f \in fields : f[3] < k THEN 31 ELSE NoBit

LEMMA PutsNone ==
  ASSUME NEW k
  PROVE  Puts({}, NoBit, k)
  BY DEF Puts

LEMMA PutsOne ==
  ASSUME NEW k \in 0 .. 63, NEW a1 \in Int, NEW l1 \in Int, NEW h1 \in Int, NEW bit,
         bit = IF k \in l1 .. h1 THEN a1 + (k - l1) ELSE IF h1 < k THEN 31 ELSE NoBit
  PROVE  Puts({<<a1, l1, h1>>}, bit, k)
  <1> DEFINE t == <<a1, l1, h1>>
  <1>1. t[1] = a1 /\ t[2] = l1 /\ t[3] = h1
    OBVIOUS
  <1> HIDE DEF t
  <1>2. CASE k \in l1 .. h1
    <2>1. bit = a1 + (k - l1)
      BY <1>2
    <2> QED
      BY <1>1, <1>2, <2>1, Zenon DEF Puts, t
  <1>3. CASE k \notin l1 .. h1
    <2>1. bit = IF h1 < k THEN 31 ELSE NoBit
      BY <1>3
    <2> QED
      BY <1>1, <1>3, <2>1, Zenon DEF Puts, t
  <1> QED
    BY <1>2, <1>3

LEMMA PutsTwo ==
  ASSUME NEW k \in 0 .. 63, NEW bit,
         bit = IF k <= 4 THEN 7 + k ELSE IF k <= 10 THEN 20 + k ELSE 31
  PROVE  Puts({<<7, 0, 4>>, <<25, 5, 11>>}, bit, k)
  <1> DEFINE t == <<7, 0, 4>>
             r == <<25, 5, 11>>
  <1>1. CASE k <= 4
    <2>1. t[1] = 7 /\ t[2] = 0 /\ t[3] = 4
      OBVIOUS
    <2> HIDE DEF t
    <2>2. k \in t[2] .. t[3] /\ bit = t[1] + (k - t[2])
      BY <1>1, <2>1
    <2> HIDE DEF r
    <2>3. Puts({t, r}, bit, k)
      BY <2>2, Zenon DEF Puts
    <2> QED
      BY <2>3 DEF t, r
  <1>2. CASE 4 < k /\ k <= 11
    BY <1>2 DEF Puts
  <1>3. CASE 11 < k
    BY <1>3 DEF Puts
  <1> QED
    BY <1>1, <1>2, <1>3

LEMMA PutsBranch ==
  ASSUME NEW k \in 0 .. 63, NEW bit,
         bit = IF k = 0 THEN NoBit
               ELSE IF k <= 4 THEN 7 + k
               ELSE IF k <= 10 THEN 20 + k
               ELSE IF k = 11 THEN 7 ELSE 31
  PROVE  Puts({<<8, 1, 4>>, <<25, 5, 10>>, <<7, 11, 11>>, <<31, 12, 12>>}, bit, k)
  BY DEF Puts

LEMMA PutsJump ==
  ASSUME NEW k \in 0 .. 63, NEW bit,
         bit = IF k = 0 THEN NoBit
               ELSE IF k <= 10 THEN 20 + k
               ELSE IF k = 11 THEN 20
               ELSE IF k <= 19 THEN k ELSE 31
  PROVE  Puts({<<21, 1, 10>>, <<20, 11, 11>>, <<12, 12, 19>>, <<31, 20, 20>>}, bit, k)
  BY DEF Puts

\* The fields that the assembler fills, group by group.
LEMMA FieldsAre ==
  ASSUME NEW n, NEW op
  PROVE  /\ op \notin {"OP", "OP32"} =>
              /\ n \in StoreNames => ImmFields(n, op) =
                   {<<7, 0, 4>>, <<25, 5, 11>>}
              /\ n \in BranchNames => ImmFields(n, op) =
                   {<<8, 1, 4>>, <<25, 5, 10>>, <<7, 11, 11>>, <<31, 12, 12>>}
              /\ n \in {"lui", "auipc"} => ImmFields(n, op) =
                   {<<12, 12, 31>>}
              /\ n = "jal" => ImmFields(n, op) =
                   {<<21, 1, 10>>, <<20, 11, 11>>, <<12, 12, 19>>, <<31, 20, 20>>}
              /\ n \in ArithNames \cup LoadNames \cup {"jalr"} => ImmFields(n, op) =
                   {<<20, 0, 11>>}
         /\ op \in {"OP", "OP32"} /\ n \in ArithNames \cup MulNames \cup DivNames \cup RemNames =>
              ImmFields(n, op) = {}
  <1>1. /\ n \in StoreNames => n \notin BranchNames /\ n \notin {"lui", "auipc"} /\ n # "jal"
        /\ n \in BranchNames => n \notin StoreNames /\ n \notin {"lui", "auipc"} /\ n # "jal"
        /\ n \in {"lui", "auipc"} => n \notin StoreNames /\ n \notin BranchNames /\ n # "jal"
        /\ n = "jal" => n \notin StoreNames /\ n \notin BranchNames /\ n \notin {"lui", "auipc"}
        /\ n \in ArithNames \cup LoadNames \cup {"jalr"} \cup MulNames \cup DivNames \cup RemNames =>
             /\ n \notin StoreNames /\ n \notin BranchNames
             /\ n \notin {"lui", "auipc"} /\ n # "jal"
    BY DEF StoreNames, BranchNames, ArithNames, MulNames, DivNames, RemNames, LoadNames
  <1>2. op \notin {"OP", "OP32"} /\ n \in StoreNames =>
          ImmFields(n, op) = {<<7, 0, 4>>, <<25, 5, 11>>}
    BY <1>1, Zenon DEF ImmFields
  <1>3. op \notin {"OP", "OP32"} /\ n \in BranchNames =>
          ImmFields(n, op) = {<<8, 1, 4>>, <<25, 5, 10>>, <<7, 11, 11>>, <<31, 12, 12>>}
    BY <1>1, Zenon DEF ImmFields
  <1>4. op \notin {"OP", "OP32"} /\ n \in {"lui", "auipc"} =>
          ImmFields(n, op) = {<<12, 12, 31>>}
    BY <1>1, Zenon DEF ImmFields
  <1>5. op \notin {"OP", "OP32"} /\ n = "jal" =>
          ImmFields(n, op) = {<<21, 1, 10>>, <<20, 11, 11>>, <<12, 12, 19>>, <<31, 20, 20>>}
    BY <1>1, Zenon DEF ImmFields
  <1>6. op \notin {"OP", "OP32"} /\ n \in ArithNames \cup LoadNames \cup {"jalr"} =>
          ImmFields(n, op) = {<<20, 0, 11>>}
    BY <1>1, Zenon DEF ImmFields
  <1>7. op \in {"OP", "OP32"} /\ n \in ArithNames \cup MulNames \cup DivNames \cup RemNames =>
          ImmFields(n, op) = {}
    BY <1>1, Zenon DEF ImmFields
  <1> QED
    BY <1>2, <1>3, <1>4, <1>5, <1>6, <1>7, Zenon

\* Bit k of the immediate, group by group.
LEMMA BitsAre ==
  ASSUME NEW op, NEW f3, NEW k \in 0 .. 63
  PROVE  LET bit == ImmBit(op, f3, k)
         IN  /\ IsShiftImm(op, f3) => bit = IF k <= 5 THEN 20 + k ELSE NoBit
             /\ op \in {"LOAD", "OPIMM", "OPIMM32", "JALR"} /\ ~IsShiftImm(op, f3) =>
                  bit = IF k <= 10 THEN 20 + k ELSE 31
             /\ op = "STORE" =>
                  bit = IF k <= 4 THEN 7 + k ELSE IF k <= 10 THEN 20 + k ELSE 31
             /\ op = "BRANCH" => bit = IF k = 0 THEN NoBit
                                      ELSE IF k <= 4 THEN 7 + k
                                      ELSE IF k <= 10 THEN 20 + k
                                      ELSE IF k = 11 THEN 7 ELSE 31
             /\ op \in {"LUI", "AUIPC"} =>
                  bit = IF k <= 11 THEN NoBit ELSE IF k <= 31 THEN k ELSE 31
             /\ op = "JAL" => bit = IF k = 0 THEN NoBit
                                   ELSE IF k <= 10 THEN 20 + k
                                   ELSE IF k = 11 THEN 20
                                   ELSE IF k <= 19 THEN k ELSE 31
             /\ op \in {"OP", "OP32"} => bit = NoBit
  <1>1. /\ IsShiftImm(op, f3) => op \in {"OPIMM", "OPIMM32"}
        /\ op \in {"OPIMM", "OPIMM32"} =>
             /\ op \notin {"LUI", "AUIPC"} /\ op # "STORE" /\ op # "BRANCH" /\ op # "JAL"
             /\ op \notin {"OP", "OP32"} /\ op \notin {"LOAD", "JALR"}
    BY DEF IsShiftImm
  <1>2. IsShiftImm(op, f3) =>
          ImmBit(op, f3, k) = IF k <= 5 THEN 20 + k ELSE NoBit
    BY <1>1, Zenon DEF ImmBit
  <1>3. op \in {"LOAD", "OPIMM", "OPIMM32", "JALR"} /\ ~IsShiftImm(op, f3) =>
          ImmBit(op, f3, k) = IF k <= 10 THEN 20 + k ELSE 31
    BY <1>1, Zenon DEF ImmBit
  <1>4. op = "STORE" =>
          ImmBit(op, f3, k) = IF k <= 4 THEN 7 + k ELSE IF k <= 10 THEN 20 + k ELSE 31
    BY <1>1, Zenon DEF ImmBit
  <1>5. op = "BRANCH" =>
          ImmBit(op, f3, k) = IF k = 0 THEN NoBit ELSE IF k <= 4 THEN 7 + k
                         ELSE IF k <= 10 THEN 20 + k ELSE IF k = 11 THEN 7 ELSE 31
    BY <1>1, Zenon DEF ImmBit
  <1>6. op \in {"LUI", "AUIPC"} =>
          ImmBit(op, f3, k) = IF k <= 11 THEN NoBit ELSE IF k <= 31 THEN k ELSE 31
    BY <1>1, Zenon DEF ImmBit
  <1>7. op = "JAL" =>
          ImmBit(op, f3, k) = IF k = 0 THEN NoBit ELSE IF k <= 10 THEN 20 + k
                         ELSE IF k = 11 THEN 20 ELSE IF k <= 19 THEN k ELSE 31
    BY <1>1, Zenon DEF ImmBit
  <1>8. op \in {"OP", "OP32"} =>
          ImmBit(op, f3, k) = NoBit
    BY <1>1, Zenon DEF ImmBit
  <1> QED
    BY <1>2, <1>3, <1>4, <1>5, <1>6, <1>7, <1>8, Zenon

LEMMA ImmediatesWhole == ExecInv => ImmediateWhole
  <1> SUFFICES ASSUME ExecInv, name # "none" PROVE ImmediateWhole
    BY DEF ImmediateWhole
  <1> DEFINE op == enc.op
             f3 == enc.f3
             fields == ImmFields(name, op)
             bit(k) == ImmBit(op, f3, k)
  <1>1. ExecTypeOK /\ f3 \in 0 .. 7
    BY Decoded DEF ExecInv
  <1>2. op \in {"OPIMM", "OPIMM32"} => (IsConstantShift <=> IsShiftImm(op, f3))
    <2> SUFFICES ASSUME op \in {"OPIMM", "OPIMM32"} PROVE IsConstantShift <=> IsShiftImm(op, f3)
      OBVIOUS
    <2>1. enc.f7 \in {0, 1, 2, 3, 32, 33}
      BY <1>1 DEF ExecTypeOK, Encodings
    <2>2. name \in {"sll", "srl", "sra", "sllw", "srlw", "sraw"} <=> f3 \in {1, 5}
      BY <1>1, <2>1, ShiftNames DEF name
    <2> QED
      BY <2>2 DEF IsConstantShift, IsShiftImm
  <1>3. op \notin {"OPIMM", "OPIMM32"} => ~IsConstantShift /\ ~IsShiftImm(op, f3)
    BY DEF IsConstantShift, IsShiftImm
  <1>4. ImmediateWhole <=>
          IF IsConstantShift
            THEN \A k \in 0 .. 63 : bit(k) = IF k <= 5 THEN 20 + k ELSE NoBit
            ELSE \A k \in 0 .. 63 : Puts(fields, bit(k), k)
    BY DEF ImmediateWhole, Puts
  <1> HIDE DEF fields, bit
  <1>5. ASSUME IsConstantShift, NEW k \in 0 .. 63
        PROVE  bit(k) = IF k <= 5 THEN 20 + k ELSE NoBit
    <2>1. IsShiftImm(op, f3)
      BY <1>2, <1>3, <1>5
    <2> QED
      BY <2>1, BitsAre DEF bit
  <1>6. ASSUME ~IsConstantShift, NEW k \in 0 .. 63
        PROVE  Puts(fields, bit(k), k)
    <2>1. ~IsShiftImm(op, f3)
      BY <1>2, <1>3, <1>6
    <2>2. CASE op = "STORE" /\ name \in StoreNames
      <3>1. fields = {<<7, 0, 4>>, <<25, 5, 11>>}
        BY <2>2, FieldsAre DEF fields
      <3>2. bit(k) = IF k <= 4 THEN 7 + k ELSE IF k <= 10 THEN 20 + k ELSE 31
        BY <2>2, BitsAre DEF bit
      <3> QED
        BY <3>1, <3>2, PutsTwo
    <2>3. CASE op = "BRANCH" /\ name \in BranchNames
      <3>1. fields = {<<8, 1, 4>>, <<25, 5, 10>>, <<7, 11, 11>>, <<31, 12, 12>>}
        BY <2>3, FieldsAre DEF fields
      <3>2. bit(k) = IF k = 0 THEN NoBit
                     ELSE IF k <= 4 THEN 7 + k
                     ELSE IF k <= 10 THEN 20 + k
                     ELSE IF k = 11 THEN 7 ELSE 31
        BY <2>3, BitsAre DEF bit
      <3> QED
        BY <3>1, <3>2, PutsBranch
    <2>4. CASE op \in {"LUI", "AUIPC"} /\ name \in {"lui", "auipc"}
      <3>1. fields = {<<12, 12, 31>>}
        BY <2>4, FieldsAre DEF fields
      <3>2. bit(k) = IF k <= 11 THEN NoBit ELSE IF k <= 31 THEN k ELSE 31
        BY <2>4, BitsAre DEF bit
      <3>3. bit(k) = IF k \in 12 .. 31 THEN 12 + (k - 12) ELSE IF 31 < k THEN 31 ELSE NoBit
        BY <3>2
      <3> QED
        BY <3>1, <3>3, 12 \in Int, 31 \in Int, PutsOne, Zenon
    <2>5. CASE op = "JAL" /\ name = "jal"
      <3>1. fields = {<<21, 1, 10>>, <<20, 11, 11>>, <<12, 12, 19>>, <<31, 20, 20>>}
        BY <2>5, FieldsAre DEF fields
      <3>2. bit(k) = IF k = 0 THEN NoBit
                     ELSE IF k <= 10 THEN 20 + k
                     ELSE IF k = 11 THEN 20
                     ELSE IF k <= 19 THEN k ELSE 31
        BY <2>5, BitsAre DEF bit
      <3> QED
        BY <3>1, <3>2, PutsJump
    <2>6. CASE op \in {"OP", "OP32"} /\ name \in ArithNames \cup MulNames \cup DivNames \cup RemNames
      <3>1. fields = {}
        BY <2>6, FieldsAre DEF fields
      <3>2. bit(k) = NoBit
        BY <2>6, BitsAre DEF bit
      <3> QED
        BY <3>1, <3>2, PutsNone
    <2>7. CASE \/ op \in {"OPIMM", "OPIMM32"} /\ name \in ArithNames
               \/ op \in {"LOAD", "JALR"} /\ name \in LoadNames \cup {"jalr"}
      <3>1. fields = {<<20, 0, 11>>}
        BY <2>7, FieldsAre DEF fields
      <3>2. bit(k) = IF k <= 10 THEN 20 + k ELSE 31
        BY <2>1, <2>7, BitsAre DEF bit
      <3>3. bit(k) = IF k \in 0 .. 11 THEN 20 + (k - 0) ELSE IF 11 < k THEN 31 ELSE NoBit
        <4>1. CASE k <= 10
          <5>1. k \in 0 .. 11 /\ k - 0 = k
            BY <4>1
          <5>2. bit(k) = 20 + k
            BY <3>2, <4>1, Zenon
          <5> QED
            BY <5>1, <5>2, Zenon
        <4>2. CASE k = 11
          BY <3>2, <4>2
        <4>3. CASE 11 < k
          BY <3>2, <4>3
        <4> QED
          BY <4>1, <4>2, <4>3
      <3> QED
        BY <3>1, <3>3, 20 \in Int, 0 \in Int, 11 \in Int, PutsOne, Zenon
    <2> QED
      BY <1>1, <2>2, <2>3, <2>4, <2>5, <2>6, <2>7, Groups
  <1> QED
    BY <1>4, <1>5, <1>6, Zenon

LEMMA KindsRight == ExecInv => KindsDocumented
  <1> SUFFICES ASSUME ExecInv PROVE KindsDocumented
    OBVIOUS
  <1> DEFINE k == Kind(enc.op, enc.f3, enc.f7)
             n == name
             c == signals
  <1>1. DecodesKind(enc.op, enc.f3, enc.f7, c, n, k) /\ enc.op \in Opcodes \cup {"none"}
    BY Decoded DEF ExecInv
  <1> HIDE DEF k, n, c
  <1>2. n # "none" =>
          k = CASE n \in LoadNames            -> "load"
                [] n \in StoreNames           -> "store"
                [] n \in MulNames             -> "mul"
                [] n \in DivNames \cup RemNames -> "div"
                [] n \in BranchNames          -> "nowrite"
                [] OTHER                      -> "alu"
    <2>1. /\ n \in LoadNames => k = "load" /\ n \notin StoreNames \cup MulNames \cup DivNames \cup RemNames \cup BranchNames
          /\ n \in StoreNames => k = "store" /\ n \notin MulNames \cup DivNames \cup RemNames \cup BranchNames
          /\ n \in MulNames => k = "mul" /\ n \notin DivNames \cup RemNames \cup BranchNames
          /\ n \in DivNames \cup RemNames => k = "div" /\ n \notin BranchNames
      BY <1>1, Zenon DEF DecodesKind, LoadNames, StoreNames, MulNames, DivNames, RemNames, BranchNames
    <2> QED
      BY <1>1, <2>1, Zenon DEF DecodesKind
  <1>3. k = "m_reserved" <=> \/ enc.op = "OP" /\ enc.f7 = 1 /\ enc.f3 \in 1 .. 3
                             \/ enc.op = "OP32" /\ enc.f7 = 1 /\ enc.f3 \in 1 .. 3
    BY <1>1, Zenon DEF DecodesKind
  <1>4. k = "div_stray" <=>
          enc.op = "OP32" /\ enc.f7 # 1 /\ enc.f3 \in {4, 6, 7}
    BY <1>1, Zenon DEF DecodesKind
  <1>5. ~hasRd(enc.op) \/ enc.op \notin Opcodes <=> ~c.wreg
    <2>1. ~hasRd(enc.op) \/ enc.op \notin Opcodes <=> enc.op \in {"none", "STORE", "BRANCH"}
      BY <1>1 DEF hasRd, Opcodes
    <2> QED
      BY <1>1, <2>1, Zenon DEF DecodesKind
  <1> QED
    BY <1>2, <1>3, <1>4, <1>5, Zenon DEF KindsDocumented, k, n, c

\* Every documented encoding does what its mnemonic says, for words of any
\* width and all operands: what the latches of controlunit.sv held before
\* does not show, comparisons through the sign flag are those of the numbers,
\* and decode.sv puts the scattered immediates together as they were taken
\* apart.
THEOREM PathExecutes == MCSpec => []Executes
  <1>1. ExecInv => Executes
    BY WritesRight, GoesRight, DrivesRight, ImmediatesWhole DEF Executes, ExecInv
  <1> QED
    BY <1>1, PathInit, PathStep, PTL DEF MCSpec

\* Documented instructions are of the kinds that Core and Soc react to.
THEOREM KindsAreDocumented == MCSpec => []KindsDocumented
  BY KindsRight, PathInit, PathStep, PTL DEF MCSpec

=============================================================================
