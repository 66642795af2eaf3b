------------------------------ MODULE SocProofs ------------------------------
(***************************************************************************)
(* Proofs about the system on a chip of module Soc, for every size of      *)
(* words, addresses and memory, every map of registers, every kind of      *)
(* software that keeps to ProgramAssumption, and all burst lengths.        *)
(***************************************************************************)
EXTENDS Soc, TLAPS

-----------------------------------------------------------------------------
(***************************************************************************)
(* Division with a remainder.                                              *)
(***************************************************************************)
LEMMA DivMod ==
  ASSUME NEW x \in Nat, NEW d \in Nat \ {0}
  PROVE  /\ x \div d \in Nat
         /\ x % d \in 0 .. d - 1
         /\ x = d * (x \div d) + (x % d)
  OBVIOUS

LEMMA Monotone ==
  ASSUME NEW d \in Nat \ {0}, NEW p \in Nat, NEW q \in Nat, p < q
  PROVE  d * q >= d * p + d
  <1>1. PICK k \in Nat : q = p + 1 + k
    <2>1. q - p - 1 \in Nat
      OBVIOUS
    <2> QED
      BY <2>1, q = p + 1 + (q - p - 1)
  <1>2. d * q = d * p + d + d * k
    BY <1>1
  <1>3. d * k \in Nat
    BY <1>1
  <1> QED
    BY <1>2, <1>3

LEMMA ModIs ==
  ASSUME NEW d \in Nat \ {0}, NEW q \in Nat, NEW r \in 0 .. d - 1
  PROVE  /\ (d * q + r) % d = r
         /\ (d * q + r) \div d = q
  <1> DEFINE x == d * q + r
  <1>1. x \in Nat
    OBVIOUS
  <1>2. /\ x \div d \in Nat
        /\ x % d \in 0 .. d - 1
        /\ x = d * (x \div d) + (x % d)
    BY <1>1, DivMod
  <1> HIDE DEF x
  <1>3. CASE q < x \div d
    <2>1. d * (x \div d) >= d * q + d
      BY <1>2, <1>3, Monotone
    <2> QED
      BY <1>2, <2>1 DEF x
  <1>4. CASE x \div d < q
    <2>1. d * q >= d * (x \div d) + d
      BY <1>2, <1>4, Monotone
    <2> QED
      BY <1>2, <2>1 DEF x
  <1>5. CASE x \div d = q
    BY <1>2, <1>5 DEF x
  <1> QED
    BY <1>2, <1>3, <1>4, <1>5 DEF x

-----------------------------------------------------------------------------
(***************************************************************************)
(* Wrapping bursts: the device steps through the addresses that AXI        *)
(* defines.  b is the size of a beat, l the number of beats.               *)
(***************************************************************************)
Low(a, b, l) == (a \div (l * b)) * (l * b)
Offset(a, b, l, n) == (a - Low(a, b, l) + n * b) % (l * b)

\* a is k beats above the lower end of its window.
Beats(a, b, l, k) == Low(a, b, l) \in Nat /\ k < l /\ a = Low(a, b, l) + b * k

\* Within its window an aligned address is a whole number of beats.
LEMMA WindowBeat ==
  ASSUME NEW a \in Nat, NEW b \in Nat \ {0}, NEW l \in Nat \ {0}, a % b = 0
  PROVE  \E k \in Nat : Beats(a, b, l, k)
  <1> DEFINE s == l * b
             q == a \div s
             o == a % s
             m == a \div b
  <1>1. s \in Nat \ {0} /\ s = b * l
    OBVIOUS
  <1>2. q \in Nat /\ o \in 0 .. s - 1 /\ a = s * q + o
    BY <1>1, DivMod
  <1>3. m \in Nat /\ a = b * m
    BY DivMod
  <1>4. Low(a, b, l) = s * q
    BY <1>1, <1>2 DEF Low
  <1> HIDE DEF s, q, o, m
  <1>5. l * q \in Nat
    BY <1>2
  <1>6. s * q = b * (l * q)
    BY <1>1, <1>2
  <1>7. m >= l * q
    <2> SUFFICES ASSUME m < l * q PROVE FALSE
      BY <1>3, <1>5
    <2>1. b * (l * q) >= b * m + b
      BY <1>3, <1>5, Monotone
    <2> QED
      BY <2>1, <1>2, <1>3, <1>6
  <1>8. PICK k \in Nat : m = l * q + k
    <2>1. m - l * q \in Nat /\ m = l * q + (m - l * q)
      BY <1>3, <1>5, <1>7
    <2> QED
      BY <2>1
  <1>9. a = s * q + b * k
    <2>1. b * m = b * (l * q) + b * k
      BY <1>5, <1>8
    <2> QED
      BY <2>1, <1>3, <1>6
  <1>10. k < l
    <2> SUFFICES ASSUME l <= k PROVE FALSE
      BY <1>8
    <2>1. b * k >= b * l
      BY <1>8, Monotone
    <2>2. s * q \in Nat /\ b * k \in Nat
      BY <1>1, <1>2, <1>8
    <2> QED
      BY <2>1, <2>2, <1>1, <1>2, <1>9
  <1>11. s * q \in Nat
    BY <1>1, <1>2
  <1> QED
    BY <1>4, <1>8, <1>9, <1>10, <1>11 DEF Beats

\* The offset of beat n: so many beats modulo the length of the burst.
LEMMA OffsetBeat ==
  ASSUME NEW a \in Nat, NEW b \in Nat \ {0}, NEW l \in Nat \ {0}, NEW n \in Nat,
         NEW k \in Nat, Beats(a, b, l, k)
  PROVE  /\ (k + n) % l \in Nat
         /\ (k + n) % l < l
         /\ Offset(a, b, l, n) = b * ((k + n) % l)
  <1> USE DEF Beats
  <1> DEFINE s == l * b
             q == (k + n) \div l
             r == (k + n) % l
  <1>1. s \in Nat \ {0} /\ s = b * l
    OBVIOUS
  <1>2. q \in Nat /\ r \in 0 .. l - 1 /\ k + n = l * q + r
    <2>1. k + n \in Nat
      OBVIOUS
    <2> QED
      BY <2>1, DivMod
  <1>3. a - Low(a, b, l) + n * b = b * (k + n)
    <2>1. b * (k + n) = b * k + b * n /\ n * b = b * n /\ b * k \in Nat
      OBVIOUS
    <2> QED
      BY <2>1
  <1> HIDE DEF s, q, r
  <1>4. b * (k + n) = s * q + b * r
    <2>1. b * (l * q + r) = b * (l * q) + b * r
      BY <1>2
    <2>2. s * q = b * (l * q)
      BY <1>1, <1>2
    <2> QED
      BY <2>1, <2>2, <1>2
  <1>5. b * r \in 0 .. s - 1
    <2>1. b * l >= b * r + b
      BY <1>2, Monotone
    <2>2. b * r \in Nat
      BY <1>2
    <2> QED
      BY <2>1, <2>2, <1>1
  <1>6. (s * q + b * r) % s = b * r
    BY <1>1, <1>2, <1>5, ModIs
  <1>7. Offset(a, b, l, n) = (b * (k + n)) % s
    BY <1>3 DEF Offset, s
  <1> QED
    BY <1>2, <1>4, <1>6, <1>7 DEF r

\* The first beat goes to the address of the request.
LEMMA OffsetZero ==
  ASSUME NEW a \in Nat, NEW b \in Nat \ {0}, NEW l \in Nat \ {0}, a % b = 0
  PROVE  Low(a, b, l) \in Nat /\ Offset(a, b, l, 0) = a - Low(a, b, l)
  <1>1. PICK k \in Nat : Beats(a, b, l, k)
    BY WindowBeat
  <1>2. Low(a, b, l) \in Nat /\ k < l /\ a = Low(a, b, l) + b * k
    BY <1>1 DEF Beats
  <1>3. Offset(a, b, l, 0) = b * ((k + 0) % l)
    BY <1>1, OffsetBeat
  <1>4. (k + 0) % l = k
    BY <1>2
  <1>5. Offset(a, b, l, 0) = b * k
    BY <1>3, <1>4
  <1>6. b * k \in Nat
    OBVIOUS
  <1> QED
    BY <1>2, <1>5, <1>6

\* The window ends below M, and one step of the device goes from the address
\* of beat n to that of the next.
Fits(a, b, l, M) == a % b = 0 /\ Low(a, b, l) + l * b < M

Steps(a, b, l, n, M) ==
  LET low == Low(a, b, l)
      nxt == (low + Offset(a, b, l, n) + b) % M
      up  == (low + l * b) % M
  IN  /\ low + Offset(a, b, l, n) \in 0 .. M - 1
      /\ (IF nxt >= up THEN low ELSE nxt) = low + Offset(a, b, l, n + 1)

LEMMA WrapStep ==
  ASSUME NEW a \in Nat, NEW b \in Nat \ {0}, NEW l \in Nat \ {0}, NEW n \in Nat,
         NEW M \in Nat, Fits(a, b, l, M)
  PROVE  Steps(a, b, l, n, M)
  <1> USE DEF Fits
  <1> DEFINE low == Low(a, b, l)
             s == b * l
  <1>1. PICK k \in Nat : Beats(a, b, l, k)
    BY WindowBeat
  <1>2. low \in Nat /\ k < l /\ a = low + b * k
    BY <1>1 DEF Beats
  <1> DEFINE r(i) == (k + i) % l
  <1>3. ASSUME NEW i \in Nat
        PROVE  r(i) \in Nat /\ r(i) < l /\ Offset(a, b, l, i) = b * r(i)
    BY <1>1, OffsetBeat
  <1>4. s = l * b /\ s \in Nat \ {0}
    OBVIOUS
  <1> HIDE DEF low, s
  <1>5. \A i \in Nat : b * r(i) \in Nat /\ b * r(i) + b <= s
    <2> TAKE i \in Nat
    <2>1. r(i) \in Nat /\ r(i) < l
      BY <1>3
    <2> HIDE DEF r
    <2>2. b * l >= b * r(i) + b
      BY <2>1, Monotone
    <2>3. b * r(i) \in Nat
      BY <2>1
    <2> QED
      BY <2>2, <2>3 DEF s
  <1>7. r(n + 1) = IF r(n) + 1 = l THEN 0 ELSE r(n) + 1
    <2> DEFINE q == (k + n) \div l
    <2>1. q \in Nat /\ r(n) \in 0 .. l - 1 /\ k + n = l * q + r(n)
      <3>1. k + n \in Nat
        OBVIOUS
      <3> QED
        BY <3>1, DivMod
    <2>2. k + (n + 1) = l * q + (r(n) + 1)
      BY <2>1
    <2>3. CASE r(n) + 1 = l
      <3>1. l * (q + 1) + 0 = l * q + l
        BY <2>1
      <3>2. (l * (q + 1) + 0) % l = 0
        <4>1. q + 1 \in Nat /\ 0 \in 0 .. l - 1
          BY <2>1
        <4> QED
          BY <4>1, ModIs, Zenon
      <3>3. k + (n + 1) = l * (q + 1) + 0
        <4> HIDE DEF r, q
        <4> QED
          BY <2>2, <2>3, <3>1
      <3> QED
        BY <2>3, <3>2, <3>3
    <2>4. CASE r(n) + 1 # l
      <3>1. r(n) + 1 \in 0 .. l - 1
        BY <2>1, <2>4
      <3>2. (l * q + (r(n) + 1)) % l = r(n) + 1
        <4> HIDE DEF r, q
        <4> QED
          BY <2>1, <3>1, ModIs
      <3> QED
        BY <2>2, <2>4, <3>2
    <2> QED
      BY <2>3, <2>4
  <1>8. Low(a, b, l) = low
    BY DEF low
  <1>9. n + 1 \in Nat
    OBVIOUS
  <1> HIDE DEF r
  <1>10. low + s < M
    BY <1>4, <1>8
  <1> DEFINE o == Offset(a, b, l, n)
             p == Offset(a, b, l, n + 1)
  <1>11. o \in Nat /\ o + b <= s /\ p \in Nat /\ p = IF o + b = s THEN 0 ELSE o + b
    <2>1. /\ r(n) \in Nat /\ o = b * r(n)
          /\ p = b * r(n + 1)
      BY <1>3, <1>9
    <2>2. b * (r(n) + 1) = b * r(n) + b /\ b * r(n) \in Nat
      BY <2>1
    <2>3. CASE r(n) + 1 = l
      BY <2>1, <2>2, <2>3, <1>5, <1>7 DEF s
    <2>4. CASE r(n) + 1 # l
      <3>1. p = o + b
        BY <2>1, <2>2, <2>4, <1>7
      <3>2. p + b <= s
        BY <2>1, <1>5, <1>9
      <3> QED
        BY <3>1, <3>2, <2>1, <2>2, <1>5
    <2> QED
      BY <2>3, <2>4
  <1> HIDE DEF o, p
  <1>12. (low + l * b) % M = low + s
    <2>1. (low + s) % M = low + s
      BY <1>2, <1>4, <1>10
    <2> QED
      BY <2>1, <1>4
  <1>13. (low + o + b) % M = low + o + b
    BY <1>2, <1>4, <1>10, <1>11
  <1>14. low + o < M
    BY <1>2, <1>4, <1>10, <1>11
  <1>15. (IF (low + o + b) % M >= (low + l * b) % M THEN low ELSE (low + o + b) % M) = low + p
    <2> HIDE DEF s
    <2> QED
      BY <1>2, <1>4, <1>11, <1>12, <1>13
  <1>16. low + o \in 0 .. M - 1
    BY <1>2, <1>11, <1>14
  <1> QED
    BY <1>15, <1>16 DEF Steps, low, o, p

-----------------------------------------------------------------------------
(***************************************************************************)
(* The device's transaction after n beats of request r.                    *)
(***************************************************************************)
Transaction(r, n, al) ==
  [busy |-> TRUE, is_write |-> r.is_write, aligned |-> al, N |-> n + 1,
   addr |-> BeatAddr(r, n), Start_Address |-> r.addr,
   Number_Bytes |-> Bytes(r.size), Burst_Length |-> r.len + 1]

\* What the requests of the software have in common.
Proper(r) ==
  /\ r \in cbus_req_t
  /\ r.addr % Bytes(r.size) = 0
  /\ WellBehaved(r)

LEMMA BytesType ==
  ASSUME NEW s \in msize_t
  PROVE  Bytes(s) \in {1, 2, 4, 8}
  BY DEF Bytes, msize_t

LEMMA Lengths ==
  ASSUME NEW r \in cbus_req_t
  PROVE  /\ r.len \in 0 .. 255
         /\ r.len + 1 \in Nat \ {0}
         /\ r.addr \in Nat /\ r.addr < AddrMod
         /\ Bytes(r.size) \in Nat \ {0}
         /\ Bytes(r.size) \in {1, 2, 4, 8}
  BY BytesType, BusAssumption DEF cbus_req_t, mlen_t, Addr

\* Addresses of a wrapping burst.
LEMMA WrapAddr ==
  ASSUME NEW r \in cbus_req_t, r.burst = "WRAP", NEW n \in Nat
  PROVE  BeatAddr(r, n) = Low(r.addr, Bytes(r.size), r.len + 1)
                            + Offset(r.addr, Bytes(r.size), r.len + 1, n)
  BY Lengths DEF BeatAddr, Low, Offset

LEMMA FirstBeat ==
  ASSUME NEW r, Proper(r)
  PROVE  BeatAddr(r, 0) = r.addr
  <1>1. r \in cbus_req_t /\ r.addr % Bytes(r.size) = 0
    BY DEF Proper
  <1>2. /\ r.len + 1 \in Nat \ {0}
        /\ r.addr \in Nat /\ r.addr < AddrMod
        /\ Bytes(r.size) \in Nat \ {0}
    BY <1>1, Lengths
  <1>3. CASE r.burst = "FIXED"
    BY <1>3 DEF BeatAddr
  <1>4. CASE r.burst = "WRAP"
    <2>1. /\ Low(r.addr, Bytes(r.size), r.len + 1) \in Nat
          /\ Offset(r.addr, Bytes(r.size), r.len + 1, 0)
               = r.addr - Low(r.addr, Bytes(r.size), r.len + 1)
      BY <1>1, <1>2, OffsetZero
    <2> QED
      BY <2>1, <1>1, <1>2, <1>4, WrapAddr
  <1>5. CASE r.burst # "FIXED" /\ r.burst # "WRAP"
    <2>1. BeatAddr(r, 0) = (r.addr + 0 * Bytes(r.size)) % AddrMod
      BY <1>5 DEF BeatAddr
    <2> QED
      BY <2>1, <1>2, BusAssumption
  <1> QED
    BY <1>3, <1>4, <1>5

\* All beats stay within the addresses, and the device steps from one to the
\* next.
LEMMA NextBeat ==
  ASSUME NEW r, Proper(r), NEW n \in Nat, n < r.len
  PROVE  LET a   == r.addr
             b   == Bytes(r.size)
             l   == r.len + 1
             low == Low(a, b, l)
             nxt == (BeatAddr(r, n) + b) % AddrMod
             up  == (low + l * b) % AddrMod
         IN  /\ BeatAddr(r, n) \in Addr
             /\ BeatAddr(r, n + 1) = IF nxt >= up THEN low ELSE nxt
  <1> DEFINE a == r.addr
             b == Bytes(r.size)
             l == r.len + 1
             low == Low(a, b, l)
             nxt == (BeatAddr(r, n) + b) % AddrMod
             up  == (low + l * b) % AddrMod
  <1>1. r \in cbus_req_t /\ a % b = 0 /\ WellBehaved(r)
    BY DEF Proper
  <1>2. /\ l \in Nat \ {0} /\ a \in Nat /\ a < AddrMod /\ b \in Nat \ {0}
        /\ r.len \in Nat
    BY <1>1, Lengths
  <1>3. r.burst = "WRAP" /\ low + l * b < AddrMod
    <2>1. r.len > 0
      BY <1>2
    <2> QED
      BY <2>1, <1>1 DEF WellBehaved, Low
  <1>4. /\ BeatAddr(r, n) = low + Offset(a, b, l, n)
        /\ BeatAddr(r, n + 1) = low + Offset(a, b, l, n + 1)
    BY <1>1, <1>3, WrapAddr
  <1>5. AddrMod \in Nat
    BY BusAssumption
  <1>6. Fits(a, b, l, AddrMod)
    BY <1>1, <1>3 DEF Fits
  <1>7. Steps(a, b, l, n, AddrMod)
    <2> HIDE DEF a, b, l
    <2> QED
      BY <1>2, <1>5, <1>6, WrapStep
  <1> QED
    BY <1>4, <1>7 DEF Steps, Addr

LEMMA InitTransaction ==
  ASSUME NEW r, Proper(r)
  PROVE  init(r) = Transaction(r, 0, FALSE)
  <1>1. BeatAddr(r, 0) = r.addr /\ 0 + 1 = 1
    BY FirstBeat
  <1> QED
    BY <1>1, Zenon DEF init, Transaction

LEMMA StepTransaction ==
  ASSUME NEW r, Proper(r), NEW n \in Nat, n < r.len,
         NEW al \in BOOLEAN, al \/ n = 0
  PROVE  step(Transaction(r, n, al)) = Transaction(r, n + 1, TRUE)
  <1> DEFINE t == Transaction(r, n, al)
             b == Bytes(r.size)
             l == r.len + 1
  <1>1. r \in cbus_req_t /\ r.addr % b = 0
    BY DEF Proper
  <1>2. /\ l \in Nat \ {0} /\ r.addr \in Nat
        /\ b \in Nat \ {0}
    BY <1>1, Lengths
  <1>3. Aligned_Address(t) = r.addr
    BY <1>1, <1>2 DEF Aligned_Address, Transaction
  <1>4. (IF t.aligned THEN t.addr ELSE Aligned_Address(t)) = BeatAddr(r, n)
    BY <1>3, FirstBeat DEF Transaction
  <1>5. next(t) = (BeatAddr(r, n) + b) % AddrMod
    BY <1>4 DEF next, Transaction
  <1>6. dtsize(t) = l * b
    BY <1>2 DEF dtsize, Transaction
  <1>7. Lower_Wrap_Boundary(t) = Low(r.addr, b, l)
    BY <1>6 DEF Lower_Wrap_Boundary, Low, Transaction
  <1>8. Upper_Wrap_Boundary(t) = (Low(r.addr, b, l) + l * b) % AddrMod
    BY <1>6, <1>7 DEF Upper_Wrap_Boundary
  <1>9. (IF next(t) >= Upper_Wrap_Boundary(t) THEN Lower_Wrap_Boundary(t) ELSE next(t))
          = BeatAddr(r, n + 1)
    BY <1>5, <1>7, <1>8, NextBeat
  <1>10. step(t) = [t EXCEPT !.N = t.N + 1, !.aligned = TRUE, !.addr = BeatAddr(r, n + 1)]
    BY <1>9 DEF step
  <1>11. t.N + 1 = n + 1 + 1
    BY DEF Transaction
  <1> QED
    BY <1>10, <1>11 DEF Transaction

\* The addresses of all beats of a request.
LEMMA BeatType ==
  ASSUME NEW r, Proper(r), NEW n \in Nat, n <= r.len
  PROVE  BeatAddr(r, n) \in Addr
  <1>1. r \in cbus_req_t /\ r.addr \in Addr /\ r.len \in Nat
    BY Lengths DEF Proper, cbus_req_t
  <1>2. CASE n = 0
    BY <1>1, <1>2, FirstBeat
  <1>3. CASE n # 0
    <2> DEFINE m == n - 1
               nxt == (BeatAddr(r, m) + Bytes(r.size)) % AddrMod
               low == Low(r.addr, Bytes(r.size), r.len + 1)
               up == (low + (r.len + 1) * Bytes(r.size)) % AddrMod
    <2>1. m \in Nat /\ m < r.len /\ n = m + 1
      BY <1>1, <1>3
    <2>2. /\ BeatAddr(r, m) \in Addr
          /\ BeatAddr(r, n) = IF nxt >= up THEN low ELSE nxt
      <3> HIDE DEF m
      <3> QED
        BY <2>1, NextBeat
    <2>3. nxt \in Addr
      BY <2>2, <1>1, Lengths, BusAssumption DEF Addr
    <2>4. low \in Addr
      <3>1. r.addr % Bytes(r.size) = 0
        BY DEF Proper
      <3>2. low \in Nat
        BY <3>1, <1>1, Lengths, OffsetZero
      <3>3. low + (r.len + 1) * Bytes(r.size) < AddrMod
        BY <1>1, <1>3 DEF Proper, WellBehaved, Low
      <3>4. (r.len + 1) * Bytes(r.size) \in Nat
        BY <1>1, Lengths
      <3> QED
        BY <3>2, <3>3, <3>4, BusAssumption DEF Addr
    <2> QED
      BY <2>2, <2>3, <2>4
  <1> QED
    BY <1>2, <1>3

LEMMA TransactionType ==
  ASSUME NEW r, Proper(r), NEW n \in Nat, n <= r.len, NEW al \in BOOLEAN
  PROVE  /\ Transaction(r, n, al) \in AXITransaction
         /\ Transaction(r, n, al).N <= Transaction(r, n, al).Burst_Length
  <1>1. /\ r \in cbus_req_t
        /\ r.len \in 0 .. 255
        /\ Bytes(r.size) \in {0, 1, 2, 4, 8}
    BY Lengths DEF Proper
  <1>2. BeatAddr(r, n) \in Addr
    BY BeatType
  <1>3. r.is_write \in BOOLEAN /\ r.addr \in Addr
    BY <1>1 DEF cbus_req_t
  <1> QED
    BY <1>1, <1>2, <1>3 DEF Transaction, AXITransaction

LEMMA ResetType == Reset \in AXITransaction
  BY BusAssumption DEF Reset, AXITransaction, Addr

-----------------------------------------------------------------------------
(***************************************************************************)
(* The router finds an entry for every address, and addresses of memory    *)
(* that are in range name a cell.                                          *)
(***************************************************************************)
LEMMA RouterFinds ==
  ASSUME NEW a \in Addr
  PROVE  /\ search(a) \in {layout[1], layout[2], layout[3]}
         /\ search(a).base \in 0 .. a
  <1>1. matches(a) \subseteq {1, 2, 3}
    BY DEF matches, layout
  <1>2. 3 \in matches(a)
    <2>1. a % AddrMod = a
      BY BusAssumption DEF Addr
    <2> QED
      BY <2>1 DEF matches, layout, Addr
  <1>3. Min(matches(a)) \in matches(a)
    <2>1. \E x \in matches(a) : \A y \in matches(a) : x <= y
      <3>1. CASE 1 \in matches(a)
        BY <1>1, <3>1
      <3>2. CASE 1 \notin matches(a) /\ 2 \in matches(a)
        BY <1>1, <3>2
      <3>3. CASE 1 \notin matches(a) /\ 2 \notin matches(a)
        BY <1>1, <1>2, <3>3
      <3> QED
        BY <3>1, <3>2, <3>3
    <2> QED
      BY <2>1 DEF Min
  <1>4. search(a) \in {layout[1], layout[2], layout[3]}
    BY <1>1, <1>3 DEF search
  <1>5. \A k \in matches(a) : layout[k].base \in 0 .. a
    <2>1. a \in Nat /\ WindowUnit \in Nat \ {0} /\ WindowBase \in Nat
      BY SocAssumption DEF Addr
    <2>2. a % WindowUnit \in Nat
      BY <2>1
    <2>3. 1 \in matches(a) => WindowBase <= a
      BY <2>1, <2>2 DEF matches, layout
    <2> QED
      BY <1>1, <2>1, <2>3 DEF layout
  <1> QED
    BY <1>3, <1>4, <1>5 DEF search

LEMMA CellInMemory ==
  ASSUME NEW a \in Addr, ~ToConfreg(a), ~OutOfRange(a)
  PROVE  Cell(translate(a)) \in 0 .. Cell(MemBytes - 1)
  <1>1. translate(a) \in Nat
    BY RouterFinds DEF translate, Addr
  <1>2. translate(a) <= MemBytes - 1
    BY <1>1, CellAssumption DEF OutOfRange
  <1> DEFINE x == translate(a)
             y == MemBytes - 1
  <1>3. x \in Nat /\ y \in Nat /\ x <= y /\ WordBytes \in Nat \ {0}
    BY <1>1, <1>2, CellAssumption
  <1> HIDE DEF x, y
  <1>4. /\ x \div WordBytes \in Nat
        /\ y \div WordBytes \in Nat
        /\ x = WordBytes * (x \div WordBytes) + (x % WordBytes)
        /\ y = WordBytes * (y \div WordBytes) + (y % WordBytes)
        /\ x % WordBytes \in Nat
        /\ y % WordBytes \in 0 .. WordBytes - 1
    BY <1>3, DivMod
  <1>5. x \div WordBytes <= y \div WordBytes
    <2> SUFFICES ASSUME y \div WordBytes < x \div WordBytes PROVE FALSE
      BY <1>4
    <2>1. WordBytes * (x \div WordBytes) >= WordBytes * (y \div WordBytes) + WordBytes
      BY <1>3, <1>4, Monotone
    <2> QED
      BY <2>1, <1>3, <1>4
  <1> QED
    BY <1>4, <1>5 DEF Cell, x, y

-----------------------------------------------------------------------------
(***************************************************************************)
(* The registers of Confreg keep their types through everything that is    *)
(* done with them.                                                         *)
(***************************************************************************)
LEMMA KeptType ==
  ASSUME NEW r, NEW w \in Word
  PROVE  Kept(r, w) \in Word
  <1>1. /\ w \in Nat /\ 0 \in Word /\ 1 \in Word /\ WordMod - 1 \in Word
        /\ CharMod \in Nat \ {0} /\ CharMod <= WordMod
    BY BusAssumption, ConfregAssumption DEF Word
  <1>2. w % CharMod \in Word
    BY <1>1 DEF Word
  <1>3. swap_bytes(w) \in Word
    <2> DEFINE h == HalfMod
               x == (w \div h) % h
               y == w % h
    <2>1. h \in Nat \ {0} /\ h * h <= WordMod
      BY ConfregAssumption
    <2>2. w \div h \in Nat /\ y \in Nat /\ y < h
      <3> HIDE DEF h
      <3>1. w \div h \in Nat /\ w % h \in 0 .. h - 1
        BY <1>1, <2>1, DivMod
      <3> QED
        BY <3>1, <2>1
    <2>3. x \in Nat /\ x < h
      BY <2>1, <2>2
    <2> HIDE DEF h, x, y
    <2>4. h * h >= h * y + h /\ h * y \in Nat /\ y * h = h * y /\ h * h \in Nat
      BY <2>1, <2>2, Monotone
    <2>5. x + y * h \in 0 .. WordMod - 1
      BY <2>1, <2>3, <2>4, BusAssumption
    <2> QED
      BY <2>5 DEF swap_bytes, Word, x, y, h
  <1>4. w % 2 \in Word
    BY <1>1, BusAssumption DEF Word
  <1> QED
    BY <1>1, <1>2, <1>3, <1>4 DEF Kept

LEMMA CharType ==
  ASSUME NEW w \in Word
  PROVE  w % CharMod \in Char
  BY BusAssumption, ConfregAssumption DEF Word, Char

LEMMA NewConfregType == NewConfreg \in ConfregState
  <1>1. NewContext \in Context
    BY BusAssumption DEF NewContext, Context, Word
  <1>2. NewRegs \in [Registers -> Word]
    BY BusAssumption DEF NewRegs, Word
  <1> QED
    BY <1>1, <1>2 DEF NewConfreg, ConfregState, NoChanges

LEMMA FetchedType ==
  ASSUME NEW c \in ConfregState, NEW r
  PROVE  /\ fetched(c, r) \in ConfregState
         /\ fetched(c, r).ctx.uart_fetched
              = (c.ctx.uart_fetched \/ (r = "UART" /\ c.ctx.uart_avail))
         /\ fetched(c, r).ctx.uart = c.ctx.uart
         /\ fetched(c, r).ctx.vuart = c.ctx.vuart
         /\ fetched(c, r).ififo = c.ififo
  BY DEF fetched, ConfregState, Context

LEMMA StoreType ==
  ASSUME NEW c \in ConfregState, NEW r, NEW w \in Word
  PROVE  /\ store(c, r, w) \in ConfregState
         /\ store(c, r, w).ctx.uart_fetched = c.ctx.uart_fetched
         /\ store(c, r, w).ctx.uart_avail = c.ctx.uart_avail
         /\ store(c, r, w).ctx0 = c.ctx0
         /\ store(c, r, w).ififo = c.ififo
         /\ store(c, r, w).ctx.uart = IF r = "UART" THEN w % CharMod ELSE c.ctx.uart
         /\ store(c, r, w).ctx.vuart
              = IF r = "VIRTUAL_UART" THEN w % CharMod ELSE c.ctx.vuart
  <1>1. Kept(r, w) \in Word /\ w % CharMod \in Char
    BY KeptType, CharType
  <1>2. CASE r = "UART"
    BY <1>1, <1>2 DEF store, ConfregState, Context
  <1>3. CASE r # "UART"
    <2> DEFINE d == Kept(r, w)
               ctx1 == [c.ctx EXCEPT !.vuart = IF r = "VIRTUAL_UART" THEN d ELSE @,
                                     !.v_num = IF r = "NUM" THEN d ELSE @,
                                     !.v_open_trace = IF r = "OPEN_TRACE" THEN d = 1 ELSE @,
                                     !.v_num_monitor = IF r = "NUM_MONITOR" THEN d = 1 ELSE @]
               ch1 == IF r \in Registers THEN [c.changes EXCEPT ![r] = d] ELSE c.changes
    <2>1. r = "VIRTUAL_UART" => d = w % CharMod
      BY DEF Kept
    <2>2. ctx1 \in Context
      BY <1>1, <2>1 DEF ConfregState, Context
    <2>3. ch1 \in [Registers -> Word \cup {None}]
      BY <1>1 DEF ConfregState
    <2>4. store(c, r, w) = [c EXCEPT !.ctx = ctx1, !.changes = ch1]
      BY <1>3 DEF store, ConfregState, Context
    <2>5. /\ ctx1.uart_fetched = c.ctx.uart_fetched
          /\ ctx1.uart_avail = c.ctx.uart_avail
          /\ ctx1.uart = c.ctx.uart
          /\ ctx1.vuart = IF r = "VIRTUAL_UART" THEN w % CharMod ELSE c.ctx.vuart
      BY <2>1 DEF ConfregState, Context
    <2> HIDE DEF ctx1, ch1, d
    <2> QED
      BY <1>3, <2>2, <2>3, <2>4, <2>5 DEF ConfregState
  <1> QED
    BY <1>2, <1>3

\* The queue loses its front exactly if a load has seen it.
LEMMA RestType ==
  ASSUME NEW S, NEW c, c.ififo \in Seq(S), c.ctx.uart_fetched => c.ififo # <<>>
  PROVE  rest(c) \in Seq(S)
  BY DEF rest

LEMMA SyncType ==
  ASSUME NEW c \in ConfregState, c.ctx.uart_fetched => c.ififo # <<>>
  PROVE  /\ sync(c) \in ConfregState
         /\ sync(c).ctx.uart_fetched = FALSE
         /\ sync(c).ctx.uart_avail = (rest(c) # <<>>)
         /\ sync(c).ctx.uart = None /\ sync(c).ctx.vuart = None
         /\ sync(c).ctx0 = c.ctx
         /\ sync(c).ififo = rest(c)
         /\ sync(c).changes = NoChanges
  <1>1. rest(c) \in Seq(Char)
    BY RestType DEF ConfregState
  <1>2. \A r \in Registers : Latest(c, r) \in Word
    BY DEF Latest, ConfregState
  <1>3. Committed(c) \in [Registers -> Word]
    <2>1. \A x \in Word : (x + 1) % WordMod \in Word
      BY BusAssumption DEF Word
    <2> QED
      BY <1>2, <2>1 DEF Committed
  <1> DEFINE ctx1 == [c.ctx EXCEPT !.uart_avail = rest(c) # <<>>, !.uart = None,
                                   !.uart_fetched = FALSE, !.vuart = None]
  <1>4. /\ ctx1 \in Context
        /\ ctx1.uart_fetched = FALSE
        /\ ctx1.uart_avail = (rest(c) # <<>>)
        /\ ctx1.uart = None /\ ctx1.vuart = None
    BY DEF ConfregState, Context
  <1>5. sync(c) = [ctx |-> ctx1, ctx0 |-> c.ctx, ififo |-> rest(c),
                   regs |-> Committed(c), changes |-> NoChanges]
    BY DEF sync, synced
  <1> HIDE DEF ctx1
  <1> QED
    BY <1>1, <1>3, <1>4, <1>5 DEF ConfregState, NoChanges

-----------------------------------------------------------------------------
(***************************************************************************)
(* The inductive invariant, and first its part about master and device:    *)
(* the device is idle, or in the transaction of the request that is up, as *)
(* many beats into it as the master.                                       *)
(***************************************************************************)
ReqInv ==
  /\ req \in cbus_req_t
  /\ beats \in 0 .. 255
  /\ req.valid => Proper(req) /\ beats <= req.len
  /\ enable \in BOOLEAN

DevInv ==
  /\ ntx = tx
  /\ \/ tx = Reset /\ beats = 0
     \/ /\ req.valid
        /\ \E al \in BOOLEAN : (al \/ beats = 0) /\ tx = Transaction(req, beats, al)

LEMMA NoReqType == NoReq \in cbus_req_t /\ ~NoReq.valid
  BY BusAssumption DEF NoReq, cbus_req_t, msize_t, mlen_t, MLEN1, Addr, Strobe, Word,
     axi_burst_type_t

\* Requests of the software are proper.
LEMMA NewReqProper ==
  ASSUME NEW p \in Programs, NEW r \in NewReq, <<r.addr, r.len, r.burst>> \in p.uses
  PROVE  Proper(r) /\ r.valid
  <1>1. WellBehaved(r)
    BY ProgramAssumption
  <1>2. r.addr % Bytes(r.size) = 0
    BY DEF NewReq
  <1>3. r \in cbus_req_t /\ r.valid
    <2>1. /\ Starts \subseteq Addr /\ Lens \subseteq mlen_t /\ Sizes \subseteq msize_t
          /\ Bursts \cup {"FIXED"} \subseteq axi_burst_type_t
      BY MasterAssumption DEF axi_burst_type_t
    <2>2. r \in [valid : {TRUE}, is_write : BOOLEAN, size : Sizes, addr : Starts,
                 strobe : Strobe, data : Word, len : Lens, burst : Bursts \cup {"FIXED"}]
      BY DEF NewReq
    <2> QED
      BY <2>1, <2>2 DEF cbus_req_t
  <1> QED
    BY <1>1, <1>2, <1>3 DEF Proper

SameTransactions(q, r) ==
  \A n \in Nat, al \in BOOLEAN : Transaction(q, n, al) = Transaction(r, n, al)

IsNextWord(q, r, d, s) == q = [r EXCEPT !.data = d, !.strobe = s]

\* The next word of a write changes neither the request nor its addresses.
LEMMA NextWord ==
  ASSUME NEW r, Proper(r), NEW d \in Word, NEW s \in Strobe, NEW q,
         IsNextWord(q, r, d, s)
  PROVE  /\ q \in cbus_req_t
         /\ q.valid = r.valid /\ q.len = r.len
         /\ Proper(q)
         /\ SameTransactions(q, r)
  <1> USE DEF IsNextWord
  <1>1. r \in cbus_req_t
    BY DEF Proper
  <1>2. /\ q.valid = r.valid /\ q.len = r.len /\ q.addr = r.addr /\ q.size = r.size
        /\ q.burst = r.burst /\ q.is_write = r.is_write
        /\ q \in cbus_req_t
    BY <1>1 DEF cbus_req_t
  <1>3. ASSUME NEW n \in Nat PROVE BeatAddr(q, n) = BeatAddr(r, n)
    BY <1>2 DEF BeatAddr
  <1>4. WellBehaved(q)
    BY <1>2, <1>3 DEF Proper, WellBehaved
  <1> QED
    BY <1>2, <1>3, <1>4 DEF Proper, Transaction, SameTransactions

\* What master and device have in common in every cycle.
LEMMA InStep ==
  ASSUME ReqInv, DevInv
  PROVE  /\ tx.busy \in BOOLEAN
         /\ tx.busy => /\ req.valid
                       /\ tx.addr = BeatAddr(req, beats)
                       /\ tx.addr \in Addr
                       /\ ~OutOfRange(tx.addr)
                       /\ tx.is_write = req.is_write
                       /\ last(tx) <=> beats = req.len
         /\ ~tx.busy => tx = Reset /\ beats = 0
         /\ ~Changed(req)
  <1>1. CASE tx = Reset /\ beats = 0
    BY <1>1 DEF Reset, Changed
  <1>2. ASSUME req.valid, NEW al \in BOOLEAN, tx = Transaction(req, beats, al)
        PROVE  /\ tx.busy = TRUE
               /\ tx.addr = BeatAddr(req, beats)
               /\ tx.addr \in Addr
               /\ ~OutOfRange(tx.addr)
               /\ tx.is_write = req.is_write
               /\ last(tx) <=> beats = req.len
               /\ ~Changed(req)
    <2>1. Proper(req) /\ beats \in Nat /\ beats <= req.len /\ req.len \in Nat
      BY <1>2, Lengths DEF ReqInv
    <2>2. tx.addr = BeatAddr(req, beats) /\ tx.busy = TRUE /\ tx.is_write = req.is_write
      BY <1>2 DEF Transaction
    <2>3. BeatAddr(req, beats) \in Addr
      BY <2>1, BeatType
    <2>4. ~OutOfRange(BeatAddr(req, beats))
      BY <2>1 DEF Proper, WellBehaved
    <2>5. last(tx) <=> beats = req.len
      BY <1>2, <2>1 DEF last, Transaction
    <2>6. ~Changed(req)
      BY <1>2 DEF Changed, Transaction
    <2> QED
      BY <2>2, <2>3, <2>4, <2>5, <2>6
  <1> QED
    BY <1>1, <1>2 DEF DevInv

LEMMA InitReq ==
  Init => ReqInv /\ DevInv
  BY NoReqType DEF Init, MasterInit, DeviceInit, ReqInv, DevInv

\* One clock of the master, with what it finds on the bus.
LEMMA TickMaster ==
  ASSUME ReqInv, DevInv, program \in Programs, Tick
  PROVE  /\ ReqInv'
         /\ enable /\ tx.busy /\ last(tx) => beats' = 0
         /\ enable /\ tx.busy /\ ~last(tx) =>
              /\ beats' = beats + 1
              /\ req'.valid
              /\ SameTransactions(req', req)
         /\ ~(enable /\ tx.busy) /\ req.valid => req' = req /\ beats' = beats
         /\ ~(enable /\ tx.busy) /\ ~req.valid => beats' = 0
  <1>1. /\ MasterClock(eval_resp)
        /\ req'.valid => <<req'.addr, req'.len, req'.burst>> \in program.uses
        /\ enable' \in BOOLEAN
    BY DEF Tick, DeviceClock
  <1>2. ASSUME req' \in NewReq \cup {NoReq}, beats' = 0 PROVE ReqInv'
    <2>1. CASE req' = NoReq
      BY <1>1, <1>2, <2>1, NoReqType DEF ReqInv
    <2>2. CASE req' \in NewReq
      <3>1. req'.valid
        BY <2>2 DEF NewReq
      <3>2. Proper(req')
        BY <1>1, <2>2, <3>1, NewReqProper
      <3>3. req' \in cbus_req_t /\ req'.len \in Nat
        BY <3>2, Lengths DEF Proper
      <3> QED
        BY <1>1, <1>2, <3>2, <3>3 DEF ReqInv, Proper, WellBehaved
    <2> QED
      BY <1>2, <2>1, <2>2
  <1>3. CASE enable /\ tx.busy
    <2>1. eval_resp.ready = TRUE /\ eval_resp.last = last(tx) /\ req.valid
      BY <1>3, InStep DEF eval_resp, Response
    <2>2. last(tx) \in BOOLEAN
      BY DEF last
    <2>3. CASE last(tx)
      <3>1. Turn(eval_resp)
        BY <1>1, <2>1, <2>3 DEF MasterClock, Advance, Stay
      <3> QED
        BY <1>2, <1>3, <2>3, <3>1 DEF Turn
    <2>4. CASE ~last(tx)
      <3>1. Advance(eval_resp)
        BY <1>1, <2>1, <2>4 DEF MasterClock, Turn, Stay
      <3>2. Proper(req) /\ beats \in Nat /\ beats < req.len /\ req.len \in 0 .. 255
        <4>1. Proper(req) /\ beats \in Nat /\ beats <= req.len /\ beats # req.len
          BY <1>3, <2>1, <2>4, InStep DEF ReqInv
        <4> QED
          BY <4>1, Lengths DEF Proper
      <3>3. PICK d \in Word, s \in Strobe : req' = [req EXCEPT !.data = d, !.strobe = s]
        BY <3>1 DEF Advance
      <3>4. /\ req' \in cbus_req_t
            /\ req'.valid = req.valid /\ req'.len = req.len
            /\ Proper(req')
            /\ SameTransactions(req', req)
        <4>1. IsNextWord(req', req, d, s)
          BY <3>3 DEF IsNextWord
        <4> QED
          BY <3>2, <4>1, NextWord
      <3>5. beats' = beats + 1
        BY <3>1 DEF Advance
      <3>6. ReqInv'
        <4>1. beats' \in 0 .. 255 /\ beats' <= req'.len
          BY <3>2, <3>4, <3>5
        <4> QED
          BY <1>1, <3>4, <4>1 DEF ReqInv, Proper, WellBehaved
      <3> QED
        BY <1>3, <2>1, <2>4, <3>4, <3>5, <3>6
    <2> QED
      BY <2>2, <2>3, <2>4
  <1>4. CASE ~(enable /\ tx.busy)
    <2>1. eval_resp = NoResp
      BY <1>4 DEF eval_resp, Response
    <2>2. CASE req.valid
      <3>1. Stay(eval_resp)
        BY <1>1, <2>1, <2>2 DEF MasterClock, Turn, Advance, NoResp
      <3>2. req' = req /\ beats' = beats
        BY <3>1 DEF Stay, masterVars
      <3> QED
        BY <1>1, <1>4, <2>2, <3>2 DEF ReqInv
    <2>3. CASE ~req.valid
      <3>1. Turn(eval_resp)
        <4>1. ~Advance(eval_resp) /\ ~Stay(eval_resp)
          BY <2>3 DEF Advance, Stay
        <4> QED
          BY <1>1, <4>1 DEF MasterClock
      <3> QED
        BY <1>2, <1>4, <2>3, <3>1 DEF Turn
    <2> QED
      BY <1>4, <2>2, <2>3 DEF ReqInv, cbus_req_t
  <1> QED
    BY <1>3, <1>4

\* One clock of the device: it stays with the master, paused or not.
LEMMA TickDevice ==
  ASSUME ReqInv, DevInv, program \in Programs, Tick
  PROVE  DevInv'
  <1>1. /\ ntx' = eval_req(req)
        /\ tx' = IF enable THEN ntx' ELSE tx
    BY DEF Tick, DeviceClock
  <1>2. ntx = tx /\ enable \in BOOLEAN /\ tx.busy \in BOOLEAN
    BY InStep DEF DevInv, ReqInv
  <1>3. CASE enable /\ tx.busy /\ last(tx)
    <2>1. ntx' = Reset /\ tx' = Reset
      BY <1>1, <1>3 DEF eval_req
    <2>2. beats' = 0
      BY <1>3, TickMaster
    <2> QED
      BY <2>1, <2>2 DEF DevInv
  <1>4. CASE enable /\ tx.busy /\ ~last(tx)
    <2>1. tx # Reset
      BY <1>4 DEF Reset
    <2>2. req.valid /\ Proper(req) /\ beats \in Nat /\ beats < req.len
      <3>1. req.valid /\ Proper(req) /\ beats \in Nat /\ beats <= req.len /\ beats # req.len
        BY <1>4, InStep DEF ReqInv
      <3>2. req.len \in Nat
        BY <3>1, Lengths DEF Proper
      <3> QED
        BY <3>1, <3>2
    <2>3. PICK al \in BOOLEAN : (al \/ beats = 0) /\ tx = Transaction(req, beats, al)
      BY <2>1 DEF DevInv
    <2>4. step(Transaction(req, beats, al)) = Transaction(req, beats + 1, TRUE)
      BY <2>2, <2>3, StepTransaction
    <2>5. ntx' = Transaction(req, beats + 1, TRUE) /\ tx' = ntx'
      BY <1>1, <1>2, <1>4, <2>3, <2>4 DEF eval_req
    <2>6. beats' = beats + 1 /\ req'.valid /\ SameTransactions(req', req)
      BY <1>4, TickMaster
    <2>7. Transaction(req', beats', TRUE) = Transaction(req, beats + 1, TRUE)
      <3>1. beats + 1 \in Nat
        BY <2>2
      <3>2. Transaction(req', beats + 1, TRUE) = Transaction(req, beats + 1, TRUE)
        BY <2>6, <3>1 DEF SameTransactions
      <3> QED
        BY <2>6, <3>2
    <2> QED
      BY <2>5, <2>6, <2>7 DEF DevInv
  <1>5. CASE enable /\ ~tx.busy
    <2>1. tx = Reset /\ beats = 0
      BY <1>5, InStep
    <2>2. CASE req.valid
      <3>1. ntx' = Transaction(req, 0, FALSE) /\ tx' = ntx'
        BY <1>1, <1>5, <2>2, InitTransaction DEF eval_req, ReqInv
      <3>2. req' = req /\ beats' = beats
        BY <1>5, <2>2, TickMaster
      <3> QED
        BY <2>1, <2>2, <3>1, <3>2 DEF DevInv
    <2>3. CASE ~req.valid
      <3>1. ntx' = ntx /\ tx' = ntx
        BY <1>1, <1>5, <2>3 DEF eval_req
      <3>2. beats' = 0
        BY <1>5, <2>3, TickMaster
      <3> QED
        BY <1>2, <2>1, <3>1, <3>2 DEF DevInv
    <2> QED
      BY <2>2, <2>3
  <1>6. CASE ~enable
    <2>1. ntx' = tx /\ tx' = tx
      BY <1>1, <1>2, <1>6 DEF eval_req
    <2>2. CASE req.valid
      <3>1. req' = req /\ beats' = beats
        BY <1>6, <2>2, TickMaster
      <3> QED
        BY <2>1, <2>2, <3>1 DEF DevInv
    <2>3. CASE ~req.valid
      <3>1. tx = Reset
        BY <2>3 DEF DevInv
      <3>2. beats' = 0
        BY <1>6, <2>3, TickMaster
      <3> QED
        BY <2>1, <3>1, <3>2 DEF DevInv
    <2> QED
      BY <2>2, <2>3
  <1> QED
    BY <1>2, <1>3, <1>4, <1>5, <1>6

-----------------------------------------------------------------------------
(***************************************************************************)
(* Confreg: between ticks no character is taken, and the flag that says    *)
(* there is one is right.                                                  *)
(***************************************************************************)
ConInv ==
  /\ con \in ConfregState
  /\ con.ififo \in Seq(Char \ {0})
  /\ con.ctx.uart_fetched = FALSE
  /\ con.ctx.uart_avail => con.ififo # <<>>
  /\ devFirst => con.changes = NoChanges
  /\ unread = con.ififo

\* The register the device is at is the one the program means.
LEMMA AtRegisterIs ==
  ASSUME ReqInv, DevInv, NEW r
  PROVE  /\ AtRegister(r) <=> /\ enable /\ tx.busy
                              /\ ToConfreg(tx.addr)
                              /\ RegisterAt[tx.addr] = r
         /\ enable /\ tx.busy => (tx.is_write <=> req.is_write)
  <1>1. enable \in BOOLEAN /\ tx.busy \in BOOLEAN
    BY InStep DEF ReqInv
  <1>2. eval_resp.ready <=> enable /\ tx.busy
    BY <1>1 DEF eval_resp, Response, NoResp
  <1>3. tx.busy => tx.addr = Beat /\ tx.is_write = req.is_write
    BY InStep DEF Beat
  <1> QED
    BY <1>2, <1>3 DEF AtRegister

\* After the load of a tick.
LEMMA LoadStep ==
  ASSUME ReqInv, DevInv, ConInv
  PROVE  /\ AfterLoad \in ConfregState
         /\ AfterLoad.ctx.uart_fetched <=> Reads
         /\ AfterLoad.ctx.uart = con.ctx.uart
         /\ AfterLoad.ctx.vuart = con.ctx.vuart
         /\ AfterLoad.ififo = con.ififo
         /\ Reads => con.ififo # <<>> /\ eval_resp.data = Head(con.ififo)
  <1> DEFINE at(r) == loads /\ ToConfreg(tx.addr) /\ RegisterAt[tx.addr] = r
  <1>1. con.ctx.uart_avail => Head(con.ififo) \in Char \ {0}
    BY DEF ConInv
  <1>2. at("UART") <=> AtRegister("UART") /\ ~req.is_write
    BY AtRegisterIs DEF loads
  <1>3. at("UART") => eval_resp.data = IF con.ctx.uart_avail THEN Head(con.ififo) ELSE 0
    BY DEF loads, eval_resp, Response, loaded, load
  <1>4. Reads <=> at("UART") /\ con.ctx.uart_avail
    BY <1>1, <1>2, <1>3 DEF Reads
  <1>5. CASE loads /\ ToConfreg(tx.addr)
    <2>1. AfterLoad = fetched(con, RegisterAt[tx.addr])
      BY <1>5 DEF AfterLoad
    <2>2. con \in ConfregState /\ con.ctx.uart_fetched = FALSE
          /\ con.ctx.uart_avail \in BOOLEAN
      BY DEF ConInv, ConfregState, Context
    <2>3. AfterLoad.ctx.uart_fetched <=> Reads
      BY <1>4, <1>5, <2>1, <2>2, FetchedType
    <2> QED
      BY <1>3, <1>4, <2>1, <2>2, <2>3, FetchedType DEF ConInv
  <1>6. CASE ~(loads /\ ToConfreg(tx.addr))
    <2>1. AfterLoad = con /\ ~Reads
      BY <1>4, <1>6 DEF AfterLoad
    <2> QED
      BY <2>1 DEF ConInv
  <1> QED
    BY <1>5, <1>6

\* The queue of Confreg and the characters that the program has not read go
\* together, whichever of the two sync comes first.
LEMMA ClockStep ==
  ASSUME ReqInv, DevInv, ConInv
  PROVE  /\ ConfregClock \in ConfregState
         /\ ConfregClock.ctx.uart_fetched = FALSE
         /\ ConfregClock.ctx.uart_avail <=> ConfregClock.ififo # <<>>
         /\ ConfregClock.ififo = IF Reads THEN Tail(con.ififo) ELSE con.ififo
         /\ devFirst => ConfregClock.changes = NoChanges
         /\ ~PopsNothing(AfterLoad)
  <1> DEFINE a == AfterLoad
             after == IF Reads THEN Tail(con.ififo) ELSE con.ififo
  <1>1. /\ a \in ConfregState
        /\ a.ctx.uart_fetched <=> Reads
        /\ a.ififo = con.ififo
        /\ Reads => con.ififo # <<>>
    BY LoadStep
  <1>2. rest(a) = after
    BY <1>1 DEF rest
  <1> HIDE DEF a, after
  <1>3. ASSUME NEW c, c \in ConfregState
        PROVE  /\ Stored(c) \in ConfregState
               /\ Stored(c).ctx.uart_fetched = c.ctx.uart_fetched
               /\ Stored(c).ctx.uart_avail = c.ctx.uart_avail
               /\ Stored(c).ififo = c.ififo
    <2>1. req.data \in Word
      BY DEF ReqInv, cbus_req_t
    <2> QED
      BY <1>3, <2>1, StoreType DEF Stored
  <1>4. ASSUME NEW c, c \in ConfregState, c.ctx.uart_fetched <=> Reads, c.ififo = con.ififo
        PROVE  /\ sync(c) \in ConfregState
               /\ sync(c).ctx.uart_fetched = FALSE
               /\ sync(c).ctx.uart_avail <=> sync(c).ififo # <<>>
               /\ sync(c).ififo = after
               /\ sync(c).changes = NoChanges
    <2>1. rest(c) = after
      BY <1>4 DEF rest, after
    <2> QED
      BY <1>1, <1>4, <2>1, SyncType
  <1>5. CASE devFirst
    <2>1. ConfregClock = sync(Stored(a))
      BY <1>5 DEF ConfregClock, a
    <2> QED
      BY <1>1, <1>3, <1>4, <2>1 DEF PopsNothing, a, after
  <1>6. CASE ~devFirst
    <2>1. ConfregClock = Stored(sync(a))
      BY <1>6 DEF ConfregClock, a
    <2> QED
      BY <1>1, <1>3, <1>4, <1>6, <2>1 DEF PopsNothing, a, after
  <1> QED
    BY <1>5, <1>6

LEMMA DropOne ==
  ASSUME NEW S, NEW q \in Seq(S), q # <<>>
  PROVE  Drop(q, 1) = Tail(q)
  BY DEF Drop

LEMMA TickCon ==
  ASSUME ReqInv, DevInv, ConInv, Tick
  PROVE  ConInv'
  <1>1. con' = ConfregClock /\ unread' = IF Reads THEN Drop(unread, 1) ELSE unread
    BY DEF Tick
  <1>2. Reads => con.ififo # <<>>
    BY LoadStep
  <1>3. unread' = ConfregClock.ififo
    BY <1>1, <1>2, ClockStep, DropOne DEF ConInv
  <1>4. ConfregClock.ififo \in Seq(Char \ {0})
    <2>1. con.ififo \in Seq(Char \ {0})
      BY DEF ConInv
    <2>2. con.ififo # <<>> => Tail(con.ififo) \in Seq(Char \ {0})
      BY <2>1
    <2>3. ConfregClock.ififo = IF Reads THEN Tail(con.ififo) ELSE con.ififo
      BY ClockStep
    <2> QED
      BY <1>2, <2>1, <2>2, <2>3
  <1> QED
    BY <1>1, <1>3, <1>4, ClockStep DEF ConInv, Tick

LEMMA ReceiveCon ==
  ASSUME ConInv, Receive
  PROVE  ConInv'
  <1>1. PICK c \in Char \ {0} : /\ con' = [con EXCEPT !.ififo = Append(@, c)]
                               /\ unread' = Append(unread, c)
    BY DEF Receive
  <1>2. /\ con.ififo \in Seq(Char \ {0}) /\ con.ififo \in Seq(Char)
        /\ con \in ConfregState /\ unread = con.ififo
    BY DEF ConInv, ConfregState
  <1>3. /\ Append(con.ififo, c) \in Seq(Char \ {0})
        /\ Append(con.ififo, c) \in Seq(Char)
        /\ Append(con.ififo, c) # <<>>
    BY <1>2
  <1>4. con' \in ConfregState /\ con'.ififo = Append(con.ififo, c) /\ con'.ctx = con.ctx
    BY <1>1, <1>2, <1>3 DEF ConfregState
  <1>5. con'.changes = con.changes /\ devFirst' = devFirst
    BY <1>1, <1>2 DEF ConfregState, Receive
  <1> QED
    BY <1>1, <1>2, <1>3, <1>4, <1>5 DEF ConInv

LEMMA ResetCon ==
  ASSUME ConInv, ResetAll
  PROVE  ConInv'
  <1>1. con' = [NewConfreg EXCEPT !.changes = con.changes] /\ unread' = <<>>
    BY DEF ResetAll, reset
  <1>2. con.changes \in [Registers -> Word \cup {None}]
    BY DEF ConInv, ConfregState
  <1>3. con' \in ConfregState
    BY <1>1, <1>2, NewConfregType DEF ConfregState
  <1>4. con'.ififo = <<>> /\ con'.ctx = NewContext
    BY <1>1 DEF NewConfreg
  <1>5. con'.ififo \in Seq(Char \ {0})
    BY <1>4
  <1>6. con'.changes = con.changes /\ devFirst' = devFirst
    BY <1>1, <1>2 DEF NewConfreg, ResetAll
  <1> QED
    BY <1>1, <1>3, <1>4, <1>5, <1>6 DEF ConInv, NewContext

LEMMA InitCon ==
  Init => ConInv
  BY NewConfregType DEF Init, ConInv, NewConfreg, NewContext

-----------------------------------------------------------------------------
(***************************************************************************)
(* What the program has written and the outputs have not shown is what the *)
(* context of Confreg still holds.                                         *)
(***************************************************************************)
Pending(o) ==
  IF o = "UART"
    THEN (IF program.pty /\ con.ctx.uart # None THEN <<con.ctx.uart>> ELSE <<>>)
    ELSE IF con.ctx.vuart \in Printable THEN <<con.ctx.vuart>> ELSE <<>>

OutInv ==
  /\ unshown = [o \in Outputs |-> Pending(o)]
  /\ devFirst => con.ctx.uart = None /\ con.ctx.vuart = None

\* A store in this tick puts the character that the program writes into the
\* context, and nothing else does.
LEMMA StoreStep ==
  ASSUME ReqInv, DevInv, NEW c \in ConfregState,
         c.ctx.uart = None, c.ctx.vuart = None, program \in Programs
  PROVE  /\ Stored(c).ctx0 = c.ctx0
         /\ Writes("UART") =
              IF program.pty /\ Stored(c).ctx.uart # None
                THEN <<Stored(c).ctx.uart>> ELSE <<>>
         /\ Writes("VIRTUAL_UART") =
              IF Stored(c).ctx.vuart \in Printable
                THEN <<Stored(c).ctx.vuart>> ELSE <<>>
  <1> DEFINE at(r) == stores /\ ToConfreg(tx.addr) /\ RegisterAt[tx.addr] = r
             d == req.data % CharMod
  <1>1. req.data \in Word
    BY DEF ReqInv, cbus_req_t
  <1>2. d \in Char /\ d # None /\ None \notin Printable
    <2>1. d \in Char
      BY <1>1, CharType
    <2>2. Char \subseteq Word
      BY ConfregAssumption, BusAssumption DEF Char, Word
    <2> QED
      BY <2>1, <2>2, SocAssumption, ConfregAssumption
  <1>3. \A r : at(r) <=> AtRegister(r) /\ req.is_write
    BY AtRegisterIs DEF stores
  <1>4. /\ Stored(c).ctx0 = c.ctx0
        /\ Stored(c).ctx.uart = IF at("UART") THEN d ELSE None
        /\ Stored(c).ctx.vuart = IF at("VIRTUAL_UART") THEN d ELSE None
    BY <1>1, StoreType DEF Stored
  <1> HIDE DEF at, d
  <1>5. Writes("UART") = IF at("UART") /\ program.pty THEN <<d>> ELSE <<>>
    BY <1>3 DEF Writes, d
  <1>6. Writes("VIRTUAL_UART")
          = IF at("VIRTUAL_UART") /\ d \in Printable THEN <<d>> ELSE <<>>
    BY <1>3 DEF Writes, d
  <1> QED
    BY <1>2, <1>4, <1>5, <1>6

\* Dropping what is in front leaves what is behind it.
LEMMA DropFront ==
  ASSUME NEW S, NEW p \in Seq(S), NEW q \in Seq(S)
  PROVE  Drop(p \o q, Len(p)) = q
  BY DEF Drop

LEMMA DropNothing ==
  ASSUME NEW S, NEW p \in Seq(S)
  PROVE  Drop(<<>> \o p, Len(p)) = <<>> /\ p \o <<>> = p
  BY DEF Drop

LEMMA FrontIsPrefix ==
  ASSUME NEW S, NEW p \in Seq(S), NEW q \in Seq(S)
  PROVE  IsPrefix(p, p \o q)
  BY DEF IsPrefix

LEMMA WritesType ==
  ASSUME ReqInv, NEW o
  PROVE  Writes(o) \in Seq(Char)
  <1>1. req.data % CharMod \in Char
    BY CharType DEF ReqInv, cbus_req_t
  <1> QED
    BY <1>1 DEF Writes

LEMMA PendingType ==
  ASSUME ConInv, NEW o
  PROVE  Pending(o) \in Seq(Char) /\ Len(Pending(o)) <= 1
  <1>1. con.ctx.uart \in Char \cup {None} /\ Printable \subseteq Char
    BY SocAssumption DEF ConInv, ConfregState, Context
  <1> QED
    BY <1>1 DEF Pending

\* Where the characters are after a tick, for both orders of the two sync.
LEMMA TickOut ==
  ASSUME ReqInv, DevInv, ConInv, OutInv, program \in Programs, devFirst \in BOOLEAN,
         Tick, NEW o \in Outputs
  PROVE  /\ devFirst => /\ unshown[o] = <<>>
                        /\ PutOut(con', o) = Writes(o)
                        /\ Pending(o)' = <<>>
                        /\ con'.ctx.uart = None /\ con'.ctx.vuart = None
         /\ ~devFirst => /\ unshown[o] = Pending(o)
                         /\ PutOut(con', o) = Pending(o)
                         /\ Pending(o)' = Writes(o)
  <1>1. con' = ConfregClock /\ program' = program
    BY DEF Tick
  <1>2. /\ AfterLoad \in ConfregState
        /\ AfterLoad.ctx.uart_fetched => AfterLoad.ififo # <<>>
        /\ AfterLoad.ctx.uart = con.ctx.uart
        /\ AfterLoad.ctx.vuart = con.ctx.vuart
    BY LoadStep
  <1>3. o = "UART" \/ o = "VIRTUAL_UART"
    BY DEF Outputs
  <1>4. None \notin Printable
    <2>1. Char \subseteq Word
      BY ConfregAssumption, BusAssumption DEF Char, Word
    <2> QED
      BY <2>1, SocAssumption, ConfregAssumption
  <1>5. unshown[o] = Pending(o)
    BY DEF OutInv
  <1>6. req.data \in Word
    BY DEF ReqInv, cbus_req_t
  <1>7. CASE devFirst
    <2> DEFINE c == Stored(AfterLoad)
    <2>1. AfterLoad.ctx.uart = None /\ AfterLoad.ctx.vuart = None
      BY <1>2, <1>7 DEF OutInv
    <2>2. /\ c \in ConfregState
          /\ c.ctx.uart_fetched => c.ififo # <<>>
      BY <1>2, <1>6, StoreType DEF Stored
    <2>3. con' = sync(c)
      BY <1>1, <1>7 DEF ConfregClock
    <2>4. /\ Writes("UART") = IF program.pty /\ c.ctx.uart # None THEN <<c.ctx.uart>> ELSE <<>>
          /\ Writes("VIRTUAL_UART") = IF c.ctx.vuart \in Printable THEN <<c.ctx.vuart>> ELSE <<>>
      BY <1>2, <2>1, StoreStep
    <2> HIDE DEF c
    <2>5. con'.ctx0 = c.ctx /\ con'.ctx.uart = None /\ con'.ctx.vuart = None
      BY <2>2, <2>3, SyncType
    <2>6. PutOut(con', o) = Writes(o)
      BY <1>3, <2>4, <2>5 DEF PutOut
    <2>7. Pending(o)' = <<>>
      BY <1>4, <2>5 DEF Pending
    <2>8. unshown[o] = <<>>
      BY <1>4, <1>5, <1>7 DEF OutInv, Pending
    <2> QED
      BY <1>7, <2>5, <2>6, <2>7, <2>8
  <1>8. CASE ~devFirst
    <2> DEFINE c == sync(AfterLoad)
    <2>1. con' = Stored(c)
      BY <1>1, <1>8 DEF ConfregClock
    <2>2. c \in ConfregState /\ c.ctx.uart = None /\ c.ctx.vuart = None /\ c.ctx0 = AfterLoad.ctx
      BY <1>2, SyncType
    <2> HIDE DEF c
    <2>3. /\ con'.ctx0 = c.ctx0
          /\ Writes("UART") =
               IF program.pty /\ con'.ctx.uart # None THEN <<con'.ctx.uart>> ELSE <<>>
          /\ Writes("VIRTUAL_UART") =
               IF con'.ctx.vuart \in Printable THEN <<con'.ctx.vuart>> ELSE <<>>
      BY <2>1, <2>2, StoreStep
    <2>4. PutOut(con', o) = Pending(o)
      BY <1>2, <1>3, <2>2, <2>3 DEF PutOut, Pending
    <2>5. Pending(o)' = Writes(o)
      BY <1>1, <1>3, <2>3 DEF Pending
    <2> QED
      BY <1>5, <1>8, <2>4, <2>5
  <1> QED
    BY <1>7, <1>8

-----------------------------------------------------------------------------
(***************************************************************************)
(* The whole invariant.                                                    *)
(***************************************************************************)
EnvInv ==
  /\ program \in Programs
  /\ devFirst \in BOOLEAN
  /\ image \in Memory
  /\ mem \in Memory
  /\ current_num \in 0 .. Num(WordMod - 1)
  /\ failed = FALSE
  /\ stopped \in BOOLEAN

IInv == EnvInv /\ ReqInv /\ DevInv /\ ConInv /\ OutInv

LEMMA InitIInv ==
  Init => IInv
  <1> SUFFICES ASSUME Init PROVE IInv
    OBVIOUS
  <1>1. EnvInv
    <2>1. Num(WordMod - 1) \in Nat
      <3>1. WordMod - 1 \in Nat /\ NumUnit \in Nat \ {0}
        BY SocAssumption, BusAssumption
      <3> QED
        BY <3>1, DivMod DEF Num
    <2>2. 0 \in 0 .. Num(WordMod - 1)
      BY <2>1
    <2>3. image \in Memory /\ mem = image
      BY SocAssumption DEF Init
    <2> QED
      BY <2>2, <2>3 DEF Init, EnvInv
  <1>2. OutInv
    <2>1. None \notin Printable
      <3>1. Char \subseteq Word
        BY ConfregAssumption, BusAssumption DEF Char, Word
      <3> QED
        BY <3>1, SocAssumption, ConfregAssumption
    <2> QED
      BY <2>1 DEF Init, OutInv, Pending, NewConfreg, NewContext
  <1> QED
    BY <1>1, <1>2, InitReq, InitCon DEF IInv

LEMMA MemStep ==
  ASSUME ReqInv, DevInv, mem \in Memory, Tick
  PROVE  mem' \in Memory
  <1>1. CASE stores /\ ~ToConfreg(tx.addr) /\ ~OutOfRange(tx.addr)
    <2>1. mem' = Written(mem, translate(tx.addr), req.data, req.strobe)
      BY <1>1 DEF Tick
    <2>2. tx.addr \in Addr
      BY <1>1, InStep DEF stores
    <2>3. Cell(translate(tx.addr)) \in 0 .. Cell(MemBytes - 1)
      BY <1>1, <2>2, CellInMemory
    <2>4. req.data \in Word /\ req.strobe \in Strobe
      BY DEF ReqInv, cbus_req_t
    <2>5. Merge(mem[Cell(translate(tx.addr))], req.data, req.strobe) \in Word
      BY <2>3, <2>4, CellAssumption DEF Memory
    <2> QED
      BY <2>1, <2>3, <2>5 DEF Written, Memory
  <1>2. CASE ~(stores /\ ~ToConfreg(tx.addr) /\ ~OutOfRange(tx.addr))
    BY <1>2 DEF Tick
  <1> QED
    BY <1>1, <1>2

LEMMA NumType ==
  ASSUME NEW w \in Word
  PROVE  Num(w) \in 0 .. Num(WordMod - 1)
  <1> DEFINE d == NumUnit
             x == w
             y == WordMod - 1
  <1>1. d \in Nat \ {0} /\ x \in Nat /\ y \in Nat /\ x <= y
    BY SocAssumption, BusAssumption DEF Word
  <1> HIDE DEF d, x, y
  <1>2. /\ x \div d \in Nat /\ y \div d \in Nat
        /\ x = d * (x \div d) + (x % d) /\ x % d \in Nat
        /\ y = d * (y \div d) + (y % d) /\ y % d \in 0 .. d - 1
    BY <1>1, DivMod
  <1>3. x \div d <= y \div d
    <2> SUFFICES ASSUME y \div d < x \div d PROVE FALSE
      BY <1>2
    <2>1. d * (x \div d) >= d * (y \div d) + d
      BY <1>1, <1>2, Monotone
    <2> QED
      BY <2>1, <1>1, <1>2
  <1> QED
    BY <1>2, <1>3 DEF Num, d, x, y

LEMMA TickEnv ==
  ASSUME IInv, Tick
  PROVE  EnvInv'
  <1> USE DEF IInv
  <1>1. program' = program /\ devFirst' = devFirst /\ image' = image
    BY DEF Tick
  <1>2. mem' \in Memory
    BY MemStep DEF EnvInv
  <1>3. current_num' \in 0 .. Num(WordMod - 1)
    <2>1. con' \in ConfregState
      BY TickCon DEF ConInv
    <2>2. con'.ctx0.v_num \in Word
      BY <2>1 DEF ConfregState, Context
    <2> QED
      BY <2>2, NumType DEF Tick, EnvInv
  <1>4. failed' = FALSE
    <2>1. ~Changed(req)
      BY InStep
    <2>2. ~((loads \/ stores) /\ OutOfRange(tx.addr))
      BY InStep DEF loads, stores
    <2>3. ~PopsNothing(AfterLoad)
      BY ClockStep
    <2> QED
      BY <2>1, <2>2, <2>3 DEF Tick
  <1>5. stopped' \in BOOLEAN
    BY DEF Tick
  <1> QED
    BY <1>1, <1>2, <1>3, <1>4, <1>5 DEF EnvInv

LEMMA TickOutInv ==
  ASSUME IInv, Tick
  PROVE  OutInv'
  <1>1. /\ ReqInv /\ DevInv /\ ConInv /\ OutInv /\ program \in Programs /\ devFirst \in BOOLEAN
        /\ devFirst' = devFirst
        /\ unshown' = [o \in Outputs |-> Drop(unshown[o] \o Writes(o), Len(PutOut(con', o)))]
    BY DEF IInv, EnvInv, Tick
  <1>2. ASSUME NEW o \in Outputs
        PROVE  Drop(unshown[o] \o Writes(o), Len(PutOut(con', o))) = Pending(o)'
    <2>1. Writes(o) \in Seq(Char) /\ Pending(o) \in Seq(Char)
      BY <1>1, WritesType, PendingType
    <2>2. CASE devFirst
      <3>1. unshown[o] = <<>> /\ PutOut(con', o) = Writes(o) /\ Pending(o)' = <<>>
        BY <1>1, <2>2, TickOut
      <3> QED
        BY <2>1, <3>1, DropNothing
    <2>3. CASE ~devFirst
      <3>1. unshown[o] = Pending(o) /\ PutOut(con', o) = Pending(o) /\ Pending(o)' = Writes(o)
        BY <1>1, <2>3, TickOut
      <3> QED
        BY <2>1, <3>1, DropFront
    <2> QED
      BY <2>2, <2>3
  <1>3. devFirst' => con'.ctx.uart = None /\ con'.ctx.vuart = None
    <2>1. "UART" \in Outputs
      BY DEF Outputs
    <2> QED
      BY <1>1, <2>1, TickOut
  <1>4. unshown' = [o \in Outputs |-> Pending(o)']
    BY <1>1, <1>2
  <1> QED
    BY <1>3, <1>4 DEF OutInv

LEMMA ReceiveIInv ==
  ASSUME IInv, Receive
  PROVE  IInv'
  <1>1. /\ UNCHANGED <<req, beats, enable, tx, ntx, program, devFirst, mem, image,
                      current_num, failed, stopped, unshown>>
        /\ con'.ctx = con.ctx
    <2>1. PICK c \in Char \ {0} : con' = [con EXCEPT !.ififo = Append(@, c)]
      BY DEF Receive
    <2>2. con \in ConfregState
      BY DEF IInv, ConInv
    <2>3. con'.ctx = con.ctx
      BY <2>1, <2>2 DEF ConfregState
    <2> QED
      BY <2>3 DEF Receive, masterVars, deviceVars
  <1>2. ConInv'
    BY ReceiveCon DEF IInv
  <1>3. ReqInv'
    BY <1>1 DEF IInv, ReqInv, Proper, WellBehaved
  <1>4. DevInv'
    BY <1>1 DEF IInv, DevInv
  <1>5. EnvInv'
    BY <1>1 DEF IInv, EnvInv
  <1>6. OutInv'
    BY <1>1 DEF IInv, OutInv, Pending
  <1> QED
    BY <1>2, <1>3, <1>4, <1>5, <1>6 DEF IInv

LEMMA ResetIInv ==
  ASSUME IInv, ResetAll
  PROVE  IInv'
  <1>1. ConInv'
    BY ResetCon DEF IInv
  <1>2. ReqInv' /\ DevInv'
    BY NoReqType DEF IInv, ReqInv, DevInv, ResetAll, DeviceReset
  <1>3. EnvInv'
    BY DEF IInv, EnvInv, ResetAll
  <1>4. OutInv'
    <2>1. None \notin Printable
      <3>1. Char \subseteq Word
        BY ConfregAssumption, BusAssumption DEF Char, Word
      <3> QED
        BY <3>1, SocAssumption, ConfregAssumption
    <2>2. con' = [NewConfreg EXCEPT !.changes = con.changes]
      BY DEF ResetAll, reset
    <2>3. con'.ctx = NewContext
      BY <2>2 DEF NewConfreg
    <2>4. unshown' = [o \in Outputs |-> <<>>]
      BY DEF ResetAll
    <2> QED
      BY <2>1, <2>3, <2>4 DEF OutInv, Pending, NewContext
  <1> QED
    BY <1>1, <1>2, <1>3, <1>4 DEF IInv

LEMMA StepIInv ==
  IInv /\ [Next]_vars => IInv'
  <1> SUFFICES ASSUME IInv, [Next]_vars PROVE IInv'
    OBVIOUS
  <1>1. CASE Tick
    <2>1. ReqInv' /\ DevInv' /\ ConInv'
      BY <1>1, TickMaster, TickDevice, TickCon DEF IInv, EnvInv
    <2> QED
      BY <1>1, <2>1, TickEnv, TickOutInv DEF IInv
  <1>2. CASE Receive
    BY <1>2, ReceiveIInv
  <1>3. CASE ResetAll
    BY <1>3, ResetIInv
  <1>4. CASE UNCHANGED vars
    <2> USE <1>4 DEF vars, masterVars, deviceVars, IInv
    <2>1. ReqInv' /\ DevInv'
      BY DEF ReqInv, DevInv, Proper, WellBehaved
    <2>2. EnvInv' /\ ConInv' /\ OutInv'
      BY DEF EnvInv, ConInv, OutInv, Pending
    <2> QED
      BY <2>1, <2>2
  <1> QED
    BY <1>1, <1>2, <1>3, <1>4 DEF Next

\* The invariant holds for every program of proper transfers.
THEOREM Invariance ==
  Spec => []IInv
  BY InitIInv, StepIInv, PTL DEF Spec

(***************************************************************************)
(* What follows from it.                                                   *)
(***************************************************************************)
LEMMA InvTypes ==
  ASSUME IInv
  PROVE  TypeOK
  <1>1. MasterTypeOK
    BY DEF IInv, ReqInv, MasterTypeOK
  <1>2. DeviceTypeOK
    <2>1. CASE tx = Reset
      BY <2>1, ResetType DEF IInv, DevInv, ReqInv, DeviceTypeOK, Reset
    <2>2. CASE tx # Reset
      <3>1. Proper(req) /\ beats \in Nat /\ beats <= req.len
        <4>1. beats \in 0 .. 255 /\ req.valid
          BY <2>2 DEF IInv, ReqInv, DevInv
        <4> QED
          BY <4>1 DEF IInv, ReqInv
      <3>2. PICK al \in BOOLEAN : tx = Transaction(req, beats, al)
        BY <2>2 DEF IInv, DevInv
      <3> QED
        BY <3>1, <3>2, TransactionType DEF IInv, DevInv, ReqInv, DeviceTypeOK
    <2> QED
      BY <2>1, <2>2
  <1>3. unread \in Seq(Char)
    BY DEF IInv, ConInv, ConfregState
  <1>4. unshown \in [Outputs -> Seq(Char)]
    BY PendingType DEF IInv, OutInv
  <1> QED
    BY <1>1, <1>2, <1>3, <1>4 DEF IInv, EnvInv, ConInv, TypeOK

\* Every variable keeps the type of its C++ counterpart, for every program
\* of proper transfers and every size of words, memory and windows.
THEOREM TypeCorrect ==
  Spec => []TypeOK
  <1>1. IInv => TypeOK
    BY InvTypes
  <1> QED
    BY <1>1, Invariance, PTL

\* However the device pauses, its two transaction states agree whenever a
\* cycle starts, and no assertion of cbus_device.cpp, memory.cpp or
\* confreg.cpp on the simulator itself ever fires.
THEOREM Consistency ==
  Spec => []Consistent
  <1>1. IInv => Consistent
    BY DEF IInv, EnvInv, DevInv, Consistent
  <1> QED
    BY <1>1, Invariance, PTL

\* What the program reads at RXD is the first character it has not read yet.
THEOREM InputInOrder ==
  Spec => []InputOnce
  <1>1. IInv => InputOnce
    <2> SUFFICES ASSUME IInv PROVE InputOnce
      OBVIOUS
    <2>1. unread = con.ififo
      BY DEF IInv, ConInv
    <2>2. Reads => con.ififo # <<>> /\ eval_resp.data = Head(con.ififo)
      BY LoadStep DEF IInv
    <2> QED
      BY <2>1, <2>2 DEF InputOnce
  <1> QED
    BY <1>1, Invariance, PTL

\* What the program writes comes out once, in order and at most one tick
\* late, whichever of the two sync comes first.
THEOREM OutputInOrder ==
  Spec => OutputOnce
  <1>1. ASSUME IInv, Tick, NEW o \in Outputs
        PROVE  /\ IsPrefix(PutOut(con', o), unshown[o] \o Writes(o))
               /\ Len(unshown[o]) <= IF devFirst THEN 0 ELSE 1
    <2>1. Writes(o) \in Seq(Char) /\ Pending(o) \in Seq(Char) /\ Len(Pending(o)) <= 1
      BY <1>1, WritesType, PendingType DEF IInv
    <2>2. CASE devFirst
      <3>1. unshown[o] = <<>> /\ PutOut(con', o) = Writes(o)
        BY <1>1, <2>2, TickOut DEF IInv, EnvInv
      <3>2. /\ <<>> \in Seq(Char) /\ Len(<<>>) = 0
            /\ <<>> \o Writes(o) = Writes(o) /\ Writes(o) \o <<>> = Writes(o)
        BY <2>1
      <3>3. IsPrefix(Writes(o), Writes(o))
        BY <2>1, <3>2, FrontIsPrefix
      <3> QED
        BY <2>2, <3>1, <3>2, <3>3
    <2>3. CASE ~devFirst
      <3>1. unshown[o] = Pending(o) /\ PutOut(con', o) = Pending(o)
        BY <1>1, <2>3, TickOut DEF IInv, EnvInv
      <3>2. IsPrefix(Pending(o), Pending(o) \o Writes(o))
        BY <2>1, FrontIsPrefix
      <3> QED
        BY <2>1, <2>3, <3>1, <3>2
    <2> QED
      BY <2>2, <2>3
  <1>2. IInv => (Tick => \A o \in Outputs :
                    /\ IsPrefix(PutOut(con', o), unshown[o] \o Writes(o))
                    /\ Len(unshown[o]) <= IF devFirst THEN 0 ELSE 1)
    BY <1>1
  <1> QED
    BY <1>2, Invariance, PTL DEF OutputOnce

\* A reset between two tests leaves Confreg and the memory as at the start
\* if the model's tick ends with Confreg's sync.
THEOREM Fresh ==
  Spec => FreshStart
  <1>1. IInv => (ResetAll /\ devFirst => con' = NewConfreg /\ mem' = image)
    <2> SUFFICES ASSUME IInv, ResetAll, devFirst
                 PROVE  con' = NewConfreg /\ mem' = image
      OBVIOUS
    <2>1. con' = [NewConfreg EXCEPT !.changes = con.changes] /\ mem' = image
      BY DEF ResetAll, reset
    <2>2. con.changes = NoChanges
      BY DEF IInv, ConInv
    <2> QED
      BY <2>1, <2>2 DEF NewConfreg
  <1> QED
    BY <1>1, Invariance, PTL DEF FreshStart

-----------------------------------------------------------------------------
(***************************************************************************)
(* The refinement: to its master the whole chip is a memory that keeps the *)
(* promises of the cache bus.                                              *)
(***************************************************************************)
AnswerOK ==
  /\ eval_resp \in cbus_resp_t
  /\ Bus!IsAnswer(eval_resp, mem, req, beats)

LEMMA LoadedType ==
  ASSUME IInv, enable, tx.busy
  PROVE  loaded \in Word
  <1>1. tx.addr \in Addr /\ ~OutOfRange(tx.addr)
    BY InStep DEF IInv
  <1>2. CASE ToConfreg(tx.addr)
    <2>1. con.ctx.uart_avail => Head(con.ififo) \in Word
      <3>1. Char \subseteq Word
        BY ConfregAssumption, BusAssumption DEF Char, Word
      <3>2. con.ififo \in Seq(Char) /\ (con.ctx.uart_avail => con.ififo # <<>>)
        BY DEF IInv, ConInv, ConfregState
      <3>3. con.ctx.uart_avail => Head(con.ififo) \in Char
        BY <3>2
      <3> QED
        BY <3>1, <3>3
    <2>2. 0 \in Word /\ 1 \in Word
      BY BusAssumption DEF Word
    <2>3. con.regs \in [Registers -> Word]
      BY DEF IInv, ConInv, ConfregState
    <2> QED
      BY <1>2, <2>1, <2>2, <2>3 DEF loaded, load
  <1>3. CASE ~ToConfreg(tx.addr)
    <2>1. Cell(translate(tx.addr)) \in 0 .. Cell(MemBytes - 1)
      BY <1>1, <1>3, CellInMemory
    <2> QED
      BY <1>1, <1>3, <2>1 DEF loaded, IInv, EnvInv, Memory
  <1> QED
    BY <1>2, <1>3

LEMMA BusBeat ==
  \A r, n : Bus!BeatAddr(r, n) = BeatAddr(r, n)
  BY DEF Bus!BeatAddr, BeatAddr, Bus!Bytes, Bytes

LEMMA Answers ==
  IInv => AnswerOK
  <1> SUFFICES ASSUME IInv PROVE AnswerOK
    OBVIOUS
  <1>1. CASE enable /\ tx.busy
    <2>1. eval_resp = [ready |-> TRUE, last |-> last(tx),
                       data |-> IF tx.is_write THEN 0 ELSE loaded]
      BY <1>1 DEF eval_resp, Response
    <2>2. /\ req.valid
          /\ tx.addr = BeatAddr(req, beats)
          /\ tx.addr \in Addr
          /\ ~OutOfRange(tx.addr)
          /\ tx.is_write = req.is_write
          /\ last(tx) <=> beats = req.len
      BY <1>1, InStep DEF IInv
    <2>3. loaded \in Word /\ 0 \in Word
      BY <1>1, LoadedType, BusAssumption DEF Word
    <2>4. last(tx) \in BOOLEAN
      BY DEF last
    <2>5. eval_resp \in cbus_resp_t
      BY <2>1, <2>3, <2>4 DEF cbus_resp_t
    <2>6. BeatAddr(req, beats) \in Backed /\ ~req.is_write =>
            eval_resp.data = mem[Cell(translate(BeatAddr(req, beats)))]
      BY <2>1, <2>2 DEF Backed, loaded
    <2>7. Bus!IsAnswer(eval_resp, mem, req, beats)
      BY <2>1, <2>2, <2>6, BusBeat DEF Bus!IsAnswer, Bus!Cell, Cell
    <2> QED
      BY <2>5, <2>7 DEF AnswerOK
  <1>2. CASE ~(enable /\ tx.busy)
    <2>1. eval_resp = NoResp
      BY <1>2 DEF eval_resp, Response
    <2> QED
      BY <2>1, BusAssumption DEF AnswerOK, Bus!IsAnswer, NoResp, cbus_resp_t, Word
  <1> QED
    BY <1>1, <1>2

LEMMA TickBus ==
  ASSUME IInv, AnswerOK', Tick
  PROVE  Bus!Next
  <1>1. Bus!MasterClock(eval_resp)
    BY DEF Tick, MasterClock, Turn, Advance, Stay, NewReq, masterVars, NoReq, MLEN1, Bytes,
       Strobe, Word,
       Bus!MasterClock, Bus!Turn, Bus!Advance, Bus!Stay, Bus!NewReq, Bus!masterVars,
       Bus!NoReq, Bus!MLEN1, Bus!Bytes, Bus!Strobe, Bus!Word
  <1>2. eval_resp.ready /\ req.is_write /\ BeatAddr(req, beats) \in Backed
          <=> stores /\ ~ToConfreg(tx.addr) /\ ~OutOfRange(tx.addr)
    <2>1. eval_resp.ready <=> enable /\ tx.busy
      BY DEF eval_resp, Response, NoResp
    <2> QED
      BY <2>1, InStep DEF IInv, stores, Backed
  <1>3. stores => tx.addr = BeatAddr(req, beats)
    BY InStep DEF IInv, stores
  <1>4. mem' = IF eval_resp.ready /\ req.is_write /\ BeatAddr(req, beats) \in Backed
                 THEN Written(mem, translate(BeatAddr(req, beats)), req.data, req.strobe)
                 ELSE mem
    BY <1>2, <1>3 DEF Tick
  <1>5. \A m, a, w, k : Bus!Written(m, a, w, k) = Written(m, a, w, k)
    BY DEF Bus!Written, Written, Bus!Cell, Cell
  <1> QED
    BY <1>1, <1>4, <1>5, BusBeat
       DEF AnswerOK, Bus!Next, Bus!Clock, Bus!cbus_resp_t, cbus_resp_t, Bus!Word, Word

\* A character that comes in does not change the answer that is up.
LEMMA ReceiveBus ==
  ASSUME IInv, Receive
  PROVE  UNCHANGED <<masterVars, mem, eval_resp>>
  <1>1. UNCHANGED <<req, beats, tx, ntx, enable, mem>>
    BY DEF Receive, masterVars, deviceVars
  <1>2. PICK c \in Char \ {0} : con' = [con EXCEPT !.ififo = Append(@, c)]
    BY DEF Receive
  <1>3. con \in ConfregState /\ (con.ctx.uart_avail => con.ififo # <<>>)
    BY DEF IInv, ConInv
  <1>4. con'.ctx = con.ctx /\ con'.regs = con.regs /\ con'.ififo = Append(con.ififo, c)
    BY <1>2, <1>3 DEF ConfregState
  <1>5. con.ctx.uart_avail => Head(con'.ififo) = Head(con.ififo)
    <2>1. con.ififo \in Seq(Char)
      BY <1>3 DEF ConfregState
    <2> QED
      BY <1>3, <1>4, <2>1
  <1>6. \A r : load(con', r) = load(con, r)
    BY <1>4, <1>5 DEF load
  <1>7. loaded' = loaded
    BY <1>1, <1>6 DEF loaded
  <1>8. eval_resp' = eval_resp
    BY <1>1, <1>7 DEF eval_resp, Response
  <1> QED
    BY <1>1, <1>8 DEF masterVars

LEMMA InitBus ==
  Init => Bus!Init
  <1> SUFFICES ASSUME Init PROVE Bus!Init
    OBVIOUS
  <1>1. AnswerOK
    BY InitIInv, Answers
  <1>2. mem \in Memory
    BY SocAssumption DEF Init
  <1> QED
    BY <1>1, <1>2 DEF Init, AnswerOK, MasterInit, Bus!Init, Bus!MasterInit, NoReq, MLEN1,
       Bus!NoReq, Bus!MLEN1, Bus!Memory, Memory, Bus!Cell, Cell, Bus!Word, Word,
       Bus!cbus_resp_t, cbus_resp_t

\* The device, the router, the memory and Confreg together implement the
\* memory of the cache bus.
THEOREM Implements ==
  Spec => AsBurstMemory
  <1>1. IInv /\ AnswerOK' /\ [Next]_vars
          => [Bus!Next \/ ResetAll]_<<masterVars, mem, eval_resp>>
    <2> SUFFICES ASSUME IInv, AnswerOK', [Next]_vars
                 PROVE  [Bus!Next \/ ResetAll]_<<masterVars, mem, eval_resp>>
      OBVIOUS
    <2>1. CASE Tick
      BY <2>1, TickBus
    <2>2. CASE Receive
      BY <2>2, ReceiveBus
    <2>3. CASE ResetAll
      BY <2>3
    <2>4. CASE UNCHANGED vars
      BY <2>4 DEF vars, masterVars, deviceVars, eval_resp, Response, loaded
    <2> QED
      BY <2>1, <2>2, <2>3, <2>4 DEF Next
  <1> QED
    BY <1>1, InitBus, Answers, Invariance, PTL DEF AsBurstMemory, Spec
=============================================================================
