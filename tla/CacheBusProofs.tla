---------------------------- MODULE CacheBusProofs ----------------------------
(***************************************************************************)
(* The memory of ram.sv behind a master that uses the whole cache bus, for *)
(* every size of words, addresses, RAM and range, every delay, every set   *)
(* of start addresses, lengths, sizes and burst types.                     *)
(***************************************************************************)
EXTENDS CacheBus, TLAPS

-----------------------------------------------------------------------------
(***************************************************************************)
(* Division with a remainder.                                              *)
(***************************************************************************)
LEMMA DivMod ==
  ASSUME NEW x \in Nat, NEW d \in Nat \ {0}
  PROVE  /\ x \div d \in Nat
         /\ x % d \in 0 .. d - 1
         /\ x = d * (x \div d) + (x % d)
  OBVIOUS

LEMMA Monotone ==
  ASSUME NEW d \in Nat \ {0}, NEW p \in Nat, NEW q \in Nat, p < q
  PROVE  d * q >= d * p + d
  <1>1. PICK k \in Nat : q = p + 1 + k
    <2>1. q - p - 1 \in Nat
      OBVIOUS
    <2> QED
      BY <2>1, q = p + 1 + (q - p - 1)
  <1>2. d * q = d * p + d + d * k
    BY <1>1
  <1>3. d * k \in Nat
    BY <1>1
  <1> QED
    BY <1>2, <1>3

LEMMA ModIs ==
  ASSUME NEW d \in Nat \ {0}, NEW q \in Nat, NEW r \in 0 .. d - 1
  PROVE  /\ (d * q + r) % d = r
         /\ (d * q + r) \div d = q
  <1> DEFINE x == d * q + r
  <1>1. x \in Nat
    OBVIOUS
  <1>2. /\ x \div d \in Nat
        /\ x % d \in 0 .. d - 1
        /\ x = d * (x \div d) + (x % d)
    BY <1>1, DivMod
  <1> HIDE DEF x
  <1>3. CASE q < x \div d
    <2>1. d * (x \div d) >= d * q + d
      BY <1>2, <1>3, Monotone
    <2> QED
      BY <1>2, <2>1 DEF x
  <1>4. CASE x \div d < q
    <2>1. d * q >= d * (x \div d) + d
      BY <1>2, <1>4, Monotone
    <2> QED
      BY <1>2, <2>1 DEF x
  <1>5. CASE x \div d = q
    BY <1>2, <1>5 DEF x
  <1> QED
    BY <1>2, <1>3, <1>4, <1>5 DEF x

-----------------------------------------------------------------------------
(***************************************************************************)
(* Wrapping bursts: the device steps through the addresses that AXI        *)
(* defines.  b is the size of a beat, l the number of beats.               *)
(***************************************************************************)
Low(a, b, l) == (a \div (l * b)) * (l * b)
Offset(a, b, l, n) == (a - Low(a, b, l) + n * b) % (l * b)

\* a is k beats above the lower end of its window.
Beats(a, b, l, k) == Low(a, b, l) \in Nat /\ k < l /\ a = Low(a, b, l) + b * k

\* Within its window an aligned address is a whole number of beats.
LEMMA WindowBeat ==
  ASSUME NEW a \in Nat, NEW b \in Nat \ {0}, NEW l \in Nat \ {0}, a % b = 0
  PROVE  \E k \in Nat : Beats(a, b, l, k)
  <1> DEFINE s == l * b
             q == a \div s
             o == a % s
             m == a \div b
  <1>1. s \in Nat \ {0} /\ s = b * l
    OBVIOUS
  <1>2. q \in Nat /\ o \in 0 .. s - 1 /\ a = s * q + o
    BY <1>1, DivMod
  <1>3. m \in Nat /\ a = b * m
    BY DivMod
  <1>4. Low(a, b, l) = s * q
    BY <1>1, <1>2 DEF Low
  <1> HIDE DEF s, q, o, m
  <1>5. l * q \in Nat
    BY <1>2
  <1>6. s * q = b * (l * q)
    BY <1>1, <1>2
  <1>7. m >= l * q
    <2> SUFFICES ASSUME m < l * q PROVE FALSE
      BY <1>3, <1>5
    <2>1. b * (l * q) >= b * m + b
      BY <1>3, <1>5, Monotone
    <2> QED
      BY <2>1, <1>2, <1>3, <1>6
  <1>8. PICK k \in Nat : m = l * q + k
    <2>1. m - l * q \in Nat /\ m = l * q + (m - l * q)
      BY <1>3, <1>5, <1>7
    <2> QED
      BY <2>1
  <1>9. a = s * q + b * k
    <2>1. b * m = b * (l * q) + b * k
      BY <1>5, <1>8
    <2> QED
      BY <2>1, <1>3, <1>6
  <1>10. k < l
    <2> SUFFICES ASSUME l <= k PROVE FALSE
      BY <1>8
    <2>1. b * k >= b * l
      BY <1>8, Monotone
    <2>2. s * q \in Nat /\ b * k \in Nat
      BY <1>1, <1>2, <1>8
    <2> QED
      BY <2>1, <2>2, <1>1, <1>2, <1>9
  <1>11. s * q \in Nat
    BY <1>1, <1>2
  <1> QED
    BY <1>4, <1>8, <1>9, <1>10, <1>11 DEF Beats

\* The offset of beat n: so many beats modulo the length of the burst.
LEMMA OffsetBeat ==
  ASSUME NEW a \in Nat, NEW b \in Nat \ {0}, NEW l \in Nat \ {0}, NEW n \in Nat,
         NEW k \in Nat, Beats(a, b, l, k)
  PROVE  /\ (k + n) % l \in Nat
         /\ (k + n) % l < l
         /\ Offset(a, b, l, n) = b * ((k + n) % l)
  <1> USE DEF Beats
  <1> DEFINE s == l * b
             q == (k + n) \div l
             r == (k + n) % l
  <1>1. s \in Nat \ {0} /\ s = b * l
    OBVIOUS
  <1>2. q \in Nat /\ r \in 0 .. l - 1 /\ k + n = l * q + r
    <2>1. k + n \in Nat
      OBVIOUS
    <2> QED
      BY <2>1, DivMod
  <1>3. a - Low(a, b, l) + n * b = b * (k + n)
    <2>1. b * (k + n) = b * k + b * n /\ n * b = b * n /\ b * k \in Nat
      OBVIOUS
    <2> QED
      BY <2>1
  <1> HIDE DEF s, q, r
  <1>4. b * (k + n) = s * q + b * r
    <2>1. b * (l * q + r) = b * (l * q) + b * r
      BY <1>2
    <2>2. s * q = b * (l * q)
      BY <1>1, <1>2
    <2> QED
      BY <2>1, <2>2, <1>2
  <1>5. b * r \in 0 .. s - 1
    <2>1. b * l >= b * r + b
      BY <1>2, Monotone
    <2>2. b * r \in Nat
      BY <1>2
    <2> QED
      BY <2>1, <2>2, <1>1
  <1>6. (s * q + b * r) % s = b * r
    BY <1>1, <1>2, <1>5, ModIs
  <1>7. Offset(a, b, l, n) = (b * (k + n)) % s
    BY <1>3 DEF Offset, s
  <1> QED
    BY <1>2, <1>4, <1>6, <1>7 DEF r

\* The first beat goes to the address of the request.
LEMMA OffsetZero ==
  ASSUME NEW a \in Nat, NEW b \in Nat \ {0}, NEW l \in Nat \ {0}, a % b = 0
  PROVE  Low(a, b, l) \in Nat /\ Offset(a, b, l, 0) = a - Low(a, b, l)
  <1>1. PICK k \in Nat : Beats(a, b, l, k)
    BY WindowBeat
  <1>2. Low(a, b, l) \in Nat /\ k < l /\ a = Low(a, b, l) + b * k
    BY <1>1 DEF Beats
  <1>3. Offset(a, b, l, 0) = b * ((k + 0) % l)
    BY <1>1, OffsetBeat
  <1>4. (k + 0) % l = k
    BY <1>2
  <1>5. Offset(a, b, l, 0) = b * k
    BY <1>3, <1>4
  <1>6. b * k \in Nat
    OBVIOUS
  <1> QED
    BY <1>2, <1>5, <1>6


-----------------------------------------------------------------------------
(***************************************************************************)
(* Types.                                                                  *)
(***************************************************************************)
LEMMA IdxType ==
  ASSUME NEW a \in Addr
  PROVE  Idx(a) \in Nat
  <1>1. Base \in Nat /\ a \in Nat /\ WordBytes \in Nat \ {0}
    BY MapAssumption, BusAssumption DEF Addr
  <1> QED
    BY <1>1 DEF Idx

\* What the memory map reads at any address is a word.
LEMMA ReadType ==
  ASSUME mem \in Memory, dev \in Devices, NEW a \in Addr
  PROVE  ReadData(mem, dev, a) \in Word
  <1> USE BusAssumption, MapAssumption
  <1>1. Idx(a) \in Nat
    BY IdxType
  <1>2. Idx(a) % RamWords \in 0 .. RamWords - 1
    BY <1>1
  <1>3. RamRead(mem, a) \in Word
    BY <1>2 DEF RamRead, Memory
  <1>4. /\ 0 \in Word
        /\ 0 \in Word /\ 1 \in Word
        /\ dev.msip \in 0 .. 1
        /\ dev.mtimecmp \in Word
        /\ dev.mtime \in Word
        /\ dev.ms_cnt \in Word
    BY DEF Devices, Word
  <1>5. dev.msip \in Word
    BY <1>4
  <1> QED
    BY <1>3, <1>4, <1>5 DEF ReadData

LEMMA WriteMemType ==
  ASSUME mem \in Memory, NEW a \in Addr, NEW w \in Word, NEW s \in Strobe
  PROVE  WriteMem(mem, a, w, s) \in Memory
  <1> USE BusAssumption, MapAssumption
  <1>1. Idx(a) \in Nat
    BY IdxType
  <1>2. ASSUME Idx(a) < RamWords
        PROVE  Merge(mem[Idx(a)], w, s) \in Word
    BY <1>1, <1>2 DEF Memory
  <1> QED
    BY <1>1, <1>2 DEF WriteMem, RamWrite, Memory

LEMMA TickDevType ==
  ASSUME NEW d \in Devices, NEW tick \in BOOLEAN
  PROVE  TickDev(d, tick) \in Devices
  <1>1. \A n \in Word : (n + 1) % WordMod \in Word
    BY BusAssumption DEF Word
  <1>2. d.mtime \in Word /\ d.ms_cnt \in Word
    BY DEF Devices
  <1> QED
    BY <1>1, <1>2 DEF TickDev, Devices

LEMMA WriteDevType ==
  ASSUME NEW d \in Devices, NEW a \in Addr, NEW w \in Word, NEW s \in Strobe
  PROVE  WriteDev(d, a, w, s) \in Devices
  <1>1. (d.out + 1) % WordMod \in Word
    BY BusAssumption DEF Word, Devices
  <1>2. w % 2 \in 0 .. 1
    BY DEF Word
  <1>3. [d EXCEPT !.out = (@ + 1) % WordMod] \in Devices
    BY <1>1 DEF Devices
  <1>4. [d EXCEPT !.msip = w % 2] \in Devices
    BY <1>2 DEF Devices
  <1>5. [d EXCEPT !.mtimecmp = w] \in Devices
    BY DEF Devices
  <1>6. [d EXCEPT !.mtime = w] \in Devices
    BY DEF Devices
  <1> QED
    BY <1>3, <1>4, <1>5, <1>6 DEF WriteDev

LEMMA RemainderBound ==
  ASSUME NEW a \in Nat, NEW d \in Nat \ {0}
  PROVE  a % d \in 0 .. a
  <1>1. /\ a = d * (a \div d) + (a % d)
        /\ a \div d \in Nat
        /\ a % d \in Nat
    OBVIOUS
  <1> DEFINE q == a \div d
  <1>2. d * q \in Nat
    BY <1>1
  <1> QED
    BY <1>1, <1>2

LEMMA StartType ==
  ASSUME NEW r \in cbus_req_t
  PROVE  /\ Bytes(r.size) \in {1, 2, 4, 8}
         /\ WrapLow(r) \in Addr
         /\ (WrapLow(r) + Span(r)) % AddrMod \in Addr
         /\ (r.addr + Bytes(r.size)) % AddrMod \in Addr
  <1>1. Bytes(r.size) \in {1, 2, 4, 8}
    BY DEF Bytes, cbus_req_t, msize_t
  <1>2. r.len \in 0 .. 255 /\ r.addr \in Addr /\ AddrMod \in Nat \ {0}
    BY BusAssumption DEF cbus_req_t, mlen_t
  <1>3. Span(r) \in Nat \ {0}
    BY <1>1, <1>2 DEF Span
  <1>4. r.addr % Span(r) \in 0 .. r.addr
    BY <1>2, <1>3, RemainderBound DEF Addr
  <1>5. WrapLow(r) \in Addr
    BY <1>2, <1>4 DEF WrapLow, Addr
  <1>6. \A n \in Nat : n % AddrMod \in Addr
    BY <1>2 DEF Addr
  <1>7. WrapLow(r) + Span(r) \in Nat /\ r.addr + Bytes(r.size) \in Nat
    BY <1>1, <1>2, <1>3, <1>5 DEF Addr
  <1> QED
    BY <1>1, <1>5, <1>6, <1>7

\* One clock edge of the memory.
LEMMA RamStepType ==
  ASSUME RamTypeOK, NEW oreq \in cbus_req_t, RamClock(oreq)
  PROVE  RamTypeOK'
  <1>1. /\ oreq \in cbus_req_t
        /\ oreq.valid \in BOOLEAN
        /\ oreq.addr \in Addr
        /\ oreq.data \in Word
        /\ oreq.strobe \in Strobe
        /\ oreq.len \in 0 .. 255
    BY DEF cbus_req_t, mlen_t
  <1>2. RamTypeOK
    OBVIOUS
  <1>3. addr \in Addr
    BY <1>2 DEF RamTypeOK
  <1>4. WriteMem(mem, addr, oreq.data, oreq.strobe) \in Memory
    BY <1>1, <1>2, <1>3, WriteMemType DEF RamTypeOK
  <1>5. dev' \in Devices /\ cyc_cnt' \in 0 .. CycPerMs /\ trint' \in BOOLEAN
        /\ swint' \in 0 .. 1
    <2>1. TickDev(dev, Ticks) \in Devices
      BY <1>2, TickDevType DEF RamTypeOK, Ticks
    <2>2. WriteDev(TickDev(dev, Ticks), addr, oreq.data, oreq.strobe) \in Devices
      BY <1>1, <1>3, <2>1, WriteDevType
    <2>3. dev' \in Devices
      BY <2>1, <2>2 DEF RamClock, Timer
    <2>4. cyc_cnt' \in 0 .. CycPerMs
      BY <1>2, RamAssumption DEF RamClock, Timer, Ticks, RamTypeOK
    <2> QED
      BY <1>2, <2>3, <2>4 DEF RamClock, Timer, RamTypeOK, Devices
  <1>6. fault' \in {"none", "modified", "range"}
    BY DEF RamClock, Fault
  <1>7. NextAddr \in Addr
    BY <1>2, BusAssumption DEF NextAddr, RamTypeOK, Addr
  <1> DEFINE BusOK == /\ rstate' \in {"NONE", "WAIT", "READ", "WRITE"}
                      /\ count_down' \in 0 .. 255
                      /\ saved_oreq' \in cbus_req_t
                      /\ addr' \in Addr
                      /\ size' \in 0 .. 15
                      /\ wrap1' \in Addr
                      /\ wrap2' \in Addr
                      /\ mem' \in Memory
  <1>. SUFFICES BusOK
    BY <1>5, <1>6 DEF RamTypeOK
  <1>8. CASE Idle(oreq)
    BY <1>2, <1>8 DEF Idle, busVars, RamTypeOK
  <1>9. CASE Accept(oreq)
    BY <1>1, <1>2, <1>9, RamAssumption DEF Accept, RamTypeOK
  <1>10. CASE Delay(oreq)
    BY <1>2, <1>10 DEF Delay, RamTypeOK
  <1>11. CASE Start(oreq)
    <2>1. 0 \in Addr
      BY BusAssumption DEF Addr
    <2>2. wrap1' \in Addr /\ wrap2' \in Addr
      BY <1>1, <1>11, <2>1, StartType DEF Start
    <2>3. size' \in 0 .. 15
      BY <1>1, <1>11, StartType DEF Start
    <2> QED
      BY <1>1, <1>2, <1>11, <2>2, <2>3 DEF Start, RamTypeOK
  <1>12. CASE LastBeat(oreq)
    BY <1>2, <1>4, <1>12 DEF LastBeat, RamTypeOK
  <1>13. CASE ReadBeat(oreq)
    BY <1>2, <1>7, <1>13 DEF ReadBeat, Last, RamTypeOK
  <1>14. CASE WriteBeat(oreq)
    BY <1>2, <1>4, <1>7, <1>14 DEF WriteBeat, Last, RamTypeOK
  <1> QED
    BY <1>8, <1>9, <1>10, <1>11, <1>12, <1>13, <1>14 DEF RamClock

-----------------------------------------------------------------------------
(***************************************************************************)
(* The memory steps through the addresses that AXI defines.                *)
(***************************************************************************)
\* A wrapping burst: one step goes from the address of beat n to that of the
\* next, also in the last window below M.
Steps(a, b, l, n, M) ==
  LET low == Low(a, b, l)
      nxt == (low + Offset(a, b, l, n) + b) % M
      up  == (low + l * b) % M
  IN  /\ low + Offset(a, b, l, n) \in 0 .. M - 1
      /\ (IF nxt = up THEN low ELSE nxt) = low + Offset(a, b, l, n + 1)

LEMMA WrapStep ==
  ASSUME NEW a \in Nat, NEW b \in Nat \ {0}, NEW l \in Nat \ {0}, NEW n \in Nat,
         NEW M \in Nat, a < M, a % b = 0, M % (l * b) = 0
  PROVE  Steps(a, b, l, n, M)
  <1> DEFINE low == Low(a, b, l)
             s == b * l
  <1>1. PICK k \in Nat : Beats(a, b, l, k)
    BY WindowBeat
  <1>2. low \in Nat /\ k < l /\ a = low + b * k
    BY <1>1 DEF Beats
  <1> DEFINE r(i) == (k + i) % l
  <1>3. ASSUME NEW i \in Nat
        PROVE  r(i) \in Nat /\ r(i) < l /\ Offset(a, b, l, i) = b * r(i)
    BY <1>1, OffsetBeat
  <1>4. s = l * b /\ s \in Nat \ {0}
    OBVIOUS
  <1> HIDE DEF low, s
  <1>5. \A i \in Nat : b * r(i) \in Nat /\ b * r(i) + b <= s
    <2> TAKE i \in Nat
    <2>1. r(i) \in Nat /\ r(i) < l
      BY <1>3
    <2> HIDE DEF r
    <2>2. b * l >= b * r(i) + b
      BY <2>1, Monotone
    <2>3. b * r(i) \in Nat
      BY <2>1
    <2> QED
      BY <2>2, <2>3 DEF s
  <1>7. r(n + 1) = IF r(n) + 1 = l THEN 0 ELSE r(n) + 1
    <2> DEFINE q == (k + n) \div l
    <2>1. q \in Nat /\ r(n) \in 0 .. l - 1 /\ k + n = l * q + r(n)
      <3>1. k + n \in Nat
        OBVIOUS
      <3> QED
        BY <3>1, DivMod
    <2>2. k + (n + 1) = l * q + (r(n) + 1)
      BY <2>1
    <2>3. CASE r(n) + 1 = l
      <3>1. l * (q + 1) + 0 = l * q + l
        BY <2>1
      <3>2. (l * (q + 1) + 0) % l = 0
        <4>1. q + 1 \in Nat /\ 0 \in 0 .. l - 1
          BY <2>1
        <4> QED
          BY <4>1, ModIs, Zenon
      <3>3. k + (n + 1) = l * (q + 1) + 0
        <4> HIDE DEF r, q
        <4> QED
          BY <2>2, <2>3, <3>1
      <3> QED
        BY <2>3, <3>2, <3>3
    <2>4. CASE r(n) + 1 # l
      <3>1. r(n) + 1 \in 0 .. l - 1
        BY <2>1, <2>4
      <3>2. (l * q + (r(n) + 1)) % l = r(n) + 1
        <4> HIDE DEF r, q
        <4> QED
          BY <2>1, <3>1, ModIs
      <3> QED
        BY <2>2, <2>4, <3>2
    <2> QED
      BY <2>3, <2>4
  <1>8. Low(a, b, l) = low
    BY DEF low
  <1>9. n + 1 \in Nat
    OBVIOUS
  <1> HIDE DEF r
  <1>10. low + s <= M
    <2> DEFINE q == a \div s
               k2 == M \div s
    <2>0. s \in Nat \ {0}
      BY <1>4
    <2>1. q \in Nat /\ a = s * q + (a % s) /\ a % s \in Nat
      <3>1. q \in Nat /\ a % s \in 0 .. s - 1 /\ a = s * q + (a % s)
        BY <2>0, DivMod, Zenon
      <3> HIDE DEF q
      <3> QED
        BY <3>1, <2>0
    <2>2. k2 \in Nat /\ M = s * k2 + (M % s) /\ M % s = 0
      <3>1. M % s = 0
        BY <1>4, Zenon
      <3> QED
        BY <3>1, <2>0, DivMod
    <2>3. Low(a, b, l) = s * q
      <3>1. Low(a, b, l) = q * s
        BY <1>4 DEF Low
      <3> HIDE DEF q
      <3> QED
        BY <2>1, <3>1, <1>4
    <2> HIDE DEF q, k2
    <2>4. M = s * k2 /\ s * k2 \in Nat /\ s * q \in Nat
      BY <1>4, <2>1, <2>2
    <2>5. q < k2
      <3> SUFFICES ASSUME k2 <= q PROVE FALSE
        BY <2>1, <2>2
      <3>1. s * q >= s * k2
        <4>1. CASE k2 = q
          BY <4>1, <2>4
        <4>2. CASE k2 < q
          <5>1. s * q >= s * k2 + s
            BY <4>2, <1>4, <2>1, <2>2, Monotone
          <5> QED
            BY <5>1, <1>4, <2>4
        <4> QED
          BY <4>1, <4>2, <2>1, <2>2
      <3> QED
        BY <3>1, <2>1, <2>4
    <2>6. s * k2 >= s * q + s
      BY <1>4, <2>1, <2>2, <2>5, Monotone
    <2> QED
      BY <2>3, <2>4, <2>6, <1>8
  <1> DEFINE o == Offset(a, b, l, n)
             p == Offset(a, b, l, n + 1)
  <1>11. o \in Nat /\ o + b <= s /\ p \in Nat /\ p = IF o + b = s THEN 0 ELSE o + b
    <2>1. /\ r(n) \in Nat /\ o = b * r(n)
          /\ p = b * r(n + 1)
      BY <1>3, <1>9
    <2>2. b * (r(n) + 1) = b * r(n) + b /\ b * r(n) \in Nat
      BY <2>1
    <2>3. CASE r(n) + 1 = l
      BY <2>1, <2>2, <2>3, <1>5, <1>7 DEF s
    <2>4. CASE r(n) + 1 # l
      <3>1. p = o + b
        BY <2>1, <2>2, <2>4, <1>7
      <3>2. p + b <= s
        BY <2>1, <1>5, <1>9
      <3> QED
        BY <3>1, <3>2, <2>1, <2>2, <1>5
    <2> QED
      BY <2>3, <2>4
  <1> HIDE DEF o, p
  <1>12. low + o + b <= M /\ low + o < M
    BY <1>2, <1>4, <1>10, <1>11
  <1>13. (low + l * b) % M = IF low + s = M THEN 0 ELSE low + s
    <2>1. (low + s) % M = IF low + s = M THEN 0 ELSE low + s
      BY <1>2, <1>4, <1>10
    <2> QED
      BY <2>1, <1>4
  <1>14. (low + o + b) % M = IF low + o + b = M THEN 0 ELSE low + o + b
    BY <1>2, <1>4, <1>11, <1>12
  <1>15. (IF (low + o + b) % M = (low + l * b) % M THEN low ELSE (low + o + b) % M) = low + p
    <2> HIDE DEF s
    <2> QED
      BY <1>2, <1>4, <1>10, <1>11, <1>12, <1>13, <1>14
  <1>16. low + o \in 0 .. M - 1
    BY <1>2, <1>11, <1>12
  <1> QED
    BY <1>15, <1>16 DEF Steps, low, o, p

\* Sums modulo the number of addresses.
LEMMA ModSum ==
  ASSUME NEW d \in Nat \ {0}, NEW x \in Nat, NEW c \in Nat
  PROVE  ((x % d) + c) % d = (x + c) % d
  <1> DEFINE q == x \div d
             r == x % d
             p == (r + c) \div d
             o == (r + c) % d
  <1>1. q \in Nat /\ r \in 0 .. d - 1 /\ x = d * q + r
    BY DivMod
  <1>2. r + c \in Nat
    BY <1>1
  <1>3. p \in Nat /\ o \in 0 .. d - 1 /\ r + c = d * p + o
    BY <1>2, DivMod
  <1> HIDE DEF q, r, p, o
  <1>4. x + c = d * (q + p) + o
    <2>1. d * (q + p) = d * q + d * p
      BY <1>1, <1>3
    <2>2. d * q \in Nat /\ d * p \in Nat
      BY <1>1, <1>3
    <2> QED
      BY <2>1, <2>2, <1>1, <1>3
  <1>5. (d * (q + p) + o) % d = o
    <2>1. q + p \in Nat
      BY <1>1, <1>3
    <2> QED
      BY <2>1, <1>3, ModIs
  <1> QED
    BY <1>4, <1>5 DEF o, r

\* The requests of the master.
Proper(r) ==
  /\ r \in cbus_req_t
  /\ r.valid
  /\ r.addr % Bytes(r.size) = 0
  /\ r.burst # "RESERVED"
  /\ AddrMod % ((r.len + 1) * Bytes(r.size)) = 0

\* Where the memory turns back, and where to.
Limit(r) == CASE r.burst = "FIXED" -> (r.addr + Bytes(r.size)) % AddrMod
              [] r.burst = "WRAP"  -> (WrapLow(r) + Span(r)) % AddrMod
              [] OTHER             -> 0
Restart(r) == CASE r.burst = "FIXED" -> r.addr
                [] r.burst = "WRAP"  -> WrapLow(r)
                [] OTHER             -> 0

LEMMA Lengths ==
  ASSUME NEW r \in cbus_req_t
  PROVE  /\ r.len \in 0 .. 255
         /\ r.len + 1 \in Nat \ {0}
         /\ r.addr \in Nat /\ r.addr < AddrMod
         /\ Bytes(r.size) \in Nat \ {0}
         /\ Bytes(r.size) \in {1, 2, 4, 8}
  BY BusAssumption DEF Bytes, msize_t, cbus_req_t, mlen_t, Addr

\* Addresses of a wrapping burst.
LEMMA WrapAddr ==
  ASSUME NEW r \in cbus_req_t, r.burst = "WRAP", NEW n \in Nat
  PROVE  BeatAddr(r, n) = Low(r.addr, Bytes(r.size), r.len + 1)
                            + Offset(r.addr, Bytes(r.size), r.len + 1, n)
  BY Lengths DEF BeatAddr, Low, Offset

LEMMA FirstBeat ==
  ASSUME NEW r, Proper(r)
  PROVE  BeatAddr(r, 0) = r.addr
  <1>1. r \in cbus_req_t /\ r.addr % Bytes(r.size) = 0
    BY DEF Proper
  <1>2. /\ r.len + 1 \in Nat \ {0}
        /\ r.addr \in Nat /\ r.addr < AddrMod
        /\ Bytes(r.size) \in Nat \ {0}
    BY <1>1, Lengths
  <1>3. CASE r.burst = "FIXED"
    BY <1>3 DEF BeatAddr
  <1>4. CASE r.burst = "WRAP"
    <2>1. /\ Low(r.addr, Bytes(r.size), r.len + 1) \in Nat
          /\ Offset(r.addr, Bytes(r.size), r.len + 1, 0)
               = r.addr - Low(r.addr, Bytes(r.size), r.len + 1)
      BY <1>1, <1>2, OffsetZero
    <2> QED
      BY <2>1, <1>1, <1>2, <1>4, WrapAddr
  <1>5. CASE r.burst # "FIXED" /\ r.burst # "WRAP"
    <2>1. BeatAddr(r, 0) = (r.addr + 0 * Bytes(r.size)) % AddrMod
      BY <1>5 DEF BeatAddr
    <2> QED
      BY <2>1, <1>2, BusAssumption
  <1> QED
    BY <1>3, <1>4, <1>5

\* The address after that of beat n, as ReadBeat and WriteBeat compute it.
Stepped(r, n) == (BeatAddr(r, n) + Bytes(r.size)) % AddrMod

LEMMA NextBeat ==
  ASSUME NEW r, Proper(r), NEW n \in Nat
  PROVE  /\ BeatAddr(r, n) \in Addr
         /\ BeatAddr(r, n + 1) = IF Stepped(r, n) = Limit(r) THEN Restart(r) ELSE Stepped(r, n)
         /\ r.burst = "INCR" => BeatAddr(r, n + 1) = Stepped(r, n)
  <1> DEFINE a == r.addr
             b == Bytes(r.size)
             l == r.len + 1
             low == Low(a, b, l)
  <1>1. r \in cbus_req_t /\ a % b = 0 /\ AddrMod % (l * b) = 0
    BY DEF Proper
  <1>2. /\ l \in Nat \ {0} /\ a \in Nat /\ a < AddrMod /\ b \in Nat \ {0}
        /\ r.len \in Nat
    BY <1>1, Lengths
  <1>3. AddrMod \in Nat \ {0}
    BY BusAssumption
  <1> HIDE DEF a, b, l
  <1>4. CASE r.burst = "WRAP"
    <2>1. /\ BeatAddr(r, n) = low + Offset(a, b, l, n)
          /\ BeatAddr(r, n + 1) = low + Offset(a, b, l, n + 1)
      BY <1>1, <1>4, WrapAddr DEF a, b, l
    <2>2. Steps(a, b, l, n, AddrMod)
      BY <1>1, <1>2, <1>3, WrapStep
    <2>3. WrapLow(r) = low /\ Span(r) = l * b
      <3>1. Span(r) = l * b
        BY DEF Span, a, b, l
      <3>2. PICK s \in Nat \ {0} : s = l * b
        BY <1>2
      <3>3. /\ a \div s \in Nat /\ a % s \in Nat
            /\ a = s * (a \div s) + (a % s)
        <4>1. a \div s \in Nat /\ a % s \in 0 .. s - 1 /\ a = s * (a \div s) + (a % s)
          BY <1>2, DivMod
        <4> QED
          BY <4>1
      <3>4. (a \div s) * s = s * (a \div s) /\ s * (a \div s) \in Nat
        BY <3>3
      <3>5. a - (a % s) = (a \div s) * s
        BY <3>3, <3>4, <1>2
      <3> QED
        BY <3>1, <3>2, <3>5, Zenon DEF WrapLow, Low, a
    <2>4. Limit(r) = (low + l * b) % AddrMod /\ Restart(r) = low
      <3>1. Limit(r) = (WrapLow(r) + Span(r)) % AddrMod
        BY <1>4, Zenon DEF Limit
      <3>2. Restart(r) = WrapLow(r)
        BY <1>4, Zenon DEF Restart
      <3> QED
        BY <2>3, <3>1, <3>2
    <2>5. Stepped(r, n) = (low + Offset(a, b, l, n) + b) % AddrMod
      BY <2>1 DEF Stepped, b
    <2>6. BeatAddr(r, n) \in Addr
      BY <2>1, <2>2 DEF Steps, Addr
    <2>7. BeatAddr(r, n + 1)
            = IF Stepped(r, n) = Limit(r) THEN Restart(r) ELSE Stepped(r, n)
      BY <2>1, <2>2, <2>4, <2>5 DEF Steps
    <2> QED
      BY <1>4, <2>6, <2>7
  <1>5. CASE r.burst = "FIXED"
    <2>1. BeatAddr(r, n) = a /\ BeatAddr(r, n + 1) = a
      BY <1>5, Zenon DEF BeatAddr, a
    <2>2. Limit(r) = (a + b) % AddrMod /\ Restart(r) = a
      BY <1>5, Zenon DEF Limit, Restart, a, b
    <2>3. Stepped(r, n) = (a + b) % AddrMod
      BY <2>1, Zenon DEF Stepped, b
    <2>4. a \in Addr
      BY <1>2, <1>3 DEF Addr
    <2> QED
      BY <1>5, <2>1, <2>2, <2>3, <2>4, Zenon
  <1>6. CASE r.burst # "FIXED" /\ r.burst # "WRAP"
    <2>1. PICK x \in Nat : x = a + n * b
      BY <1>2
    <2>2. a + (n + 1) * b = x + b
      <3>1. (n + 1) * b = n * b + b /\ n * b \in Nat
        BY <1>2
      <3> QED
        BY <3>1, <2>1, <1>2
    <2>3. BeatAddr(r, n) = x % AddrMod /\ BeatAddr(r, n + 1) = (x + b) % AddrMod
      BY <1>6, <2>1, <2>2, Zenon DEF BeatAddr, a, b
    <2>4. ((x % AddrMod) + b) % AddrMod = (x + b) % AddrMod
      BY <1>2, <1>3, ModSum
    <2>5. Stepped(r, n) = BeatAddr(r, n + 1)
      BY <2>3, <2>4 DEF Stepped, b
    <2>6. x % AddrMod \in 0 .. AddrMod - 1
      BY <1>3, DivMod
    <2>7. Limit(r) = 0 /\ Restart(r) = 0
      BY <1>6 DEF Limit, Restart
    <2> QED
      BY <2>3, <2>5, <2>6, <2>7 DEF Addr
  <1> QED
    BY <1>4, <1>5, <1>6

\* The burst that a burst of writes is served as.
LEMMA AsIncrementing ==
  ASSUME NEW r, Proper(r)
  PROVE  /\ Proper(Incremented(r))
         /\ Incremented(r).addr = r.addr /\ Incremented(r).size = r.size
         /\ Incremented(r).burst = "INCR"
         /\ r.burst = "INCR" => Incremented(r) = r
  <1>1. r \in cbus_req_t
    BY DEF Proper
  <1>2. /\ Incremented(r) \in cbus_req_t
        /\ Incremented(r).valid = r.valid /\ Incremented(r).len = r.len
        /\ Incremented(r).addr = r.addr /\ Incremented(r).size = r.size
        /\ Incremented(r).burst = "INCR"
    BY <1>1 DEF Incremented, cbus_req_t, axi_burst_type_t
  <1>3. r.burst = "INCR" => Incremented(r) = r
    BY <1>1 DEF Incremented, cbus_req_t
  <1> QED
    BY <1>2, <1>3 DEF Proper

-----------------------------------------------------------------------------
(***************************************************************************)
(* The invariant.  Master and memory move in step: while a request is      *)
(* served it does not change, and the memory's registers are those of the  *)
(* beat that the master has counted to.  A burst of reads goes where its   *)
(* type says; a burst of writes never turns back, so that its addresses    *)
(* are those of the incrementing burst from the same start.                *)
(***************************************************************************)
Serving ==
  /\ count_down = req.len - beats
  /\ beats <= req.len
  /\ size = Bytes(req.size)
  /\ wrap1 = Restart(req)
  /\ wrap2 = Limit(req)
  /\ (rstate = "WRITE") <=> req.is_write
  /\ rstate = "READ" => addr = BeatAddr(req, beats)
  /\ rstate = "WRITE" => addr = BeatAddr(Incremented(req), beats)

BusInv ==
  /\ req = NoReq \/ Proper(req)
  /\ rstate \in {"NONE", "WAIT"} => beats = 0
  /\ rstate # "NONE" => req.valid /\ ~Modified(req)
  /\ rstate \in {"READ", "WRITE"} => Serving

IInv == TypeOK /\ BusInv /\ fault # "modified"

\* A master asks for proper transfers only.
LEMMA NewReqProper ==
  ASSUME NEW r \in NewReq
  PROVE  Proper(r)
  <1>1. /\ r \in [valid : {TRUE}, is_write : BOOLEAN, size : Sizes, addr : Starts,
                  strobe : Strobe, data : Word, len : Lens,
                  burst : Bursts \cup {"FIXED"}]
        /\ r.addr % Bytes(r.size) = 0
    BY DEF NewReq
  <1>2. /\ r.size \in msize_t
        /\ r.addr \in Addr
        /\ r.len \in mlen_t
        /\ r.burst \in axi_burst_type_t
        /\ r.burst # "RESERVED"
    BY <1>1, MasterAssumption DEF axi_burst_type_t
  <1>3. r \in cbus_req_t
    BY <1>1, <1>2 DEF cbus_req_t
  <1>4. r.len \in Lens /\ r.size \in Sizes /\ r.valid = TRUE
    BY <1>1
  <1>5. AddrMod % ((r.len + 1) * Bytes(r.size)) = 0
    BY <1>4, WindowAssumption, Zenon
  <1> QED
    BY <1>1, <1>2, <1>3, <1>4, <1>5 DEF Proper

LEMMA NoReqType == NoReq \in cbus_req_t /\ ~NoReq.valid
  <1>1. 0 \in Addr /\ 0 \in Strobe /\ 0 \in Word
    BY BusAssumption DEF Addr, Strobe, Word
  <1> QED
    BY <1>1 DEF NoReq, cbus_req_t, msize_t, mlen_t, axi_burst_type_t, MLEN1

\* The next word of a write belongs to the same transfer.
NextWord(r, d, s) == [r EXCEPT !.data = d, !.strobe = s]

Alike(q, r) ==
  /\ \A f \in {"valid", "is_write", "size", "addr", "len", "burst"} : q[f] = r[f]
  /\ \A n \in Nat : BeatAddr(q, n) = BeatAddr(r, n)
  /\ \A n \in Nat : BeatAddr(Incremented(q), n) = BeatAddr(Incremented(r), n)
  /\ Limit(q) = Limit(r)
  /\ Restart(q) = Restart(r)

LEMMA SameTransfer ==
  ASSUME NEW r \in cbus_req_t, NEW d \in Word, NEW s \in Strobe,
         NEW q, q = NextWord(r, d, s)
  PROVE  /\ q \in cbus_req_t
         /\ Alike(q, r)
         /\ Proper(r) => Proper(q)
  <1>1. q \in cbus_req_t
    BY DEF cbus_req_t, NextWord
  <1>2. /\ q.valid = r.valid /\ q.is_write = r.is_write /\ q.size = r.size
        /\ q.addr = r.addr /\ q.len = r.len /\ q.burst = r.burst
    BY DEF cbus_req_t, NextWord
  <1>3. \A f \in {"valid", "is_write", "size", "addr", "len", "burst"} : q[f] = r[f]
    BY <1>2
  <1>4. \A n \in Nat : BeatAddr(q, n) = BeatAddr(r, n)
    <2> TAKE n \in Nat
    <2> QED
      BY <1>2 DEF BeatAddr
  <1>9. \A n \in Nat : BeatAddr(Incremented(q), n) = BeatAddr(Incremented(r), n)
    <2>1. /\ Incremented(q).size = q.size /\ Incremented(q).addr = q.addr
          /\ Incremented(q).len = q.len /\ Incremented(q).burst = "INCR"
      BY <1>1 DEF Incremented, cbus_req_t
    <2>2. /\ Incremented(r).size = r.size /\ Incremented(r).addr = r.addr
          /\ Incremented(r).len = r.len /\ Incremented(r).burst = "INCR"
      BY DEF Incremented, cbus_req_t
    <2> TAKE n \in Nat
    <2> QED
      BY <1>2, <2>1, <2>2 DEF BeatAddr
  <1>5. Span(q) = Span(r) /\ WrapLow(q) = WrapLow(r)
    BY <1>2, Zenon DEF Span, WrapLow
  <1>6. Limit(q) = Limit(r)
    BY <1>2, <1>5, Zenon DEF Limit
  <1>7. Restart(q) = Restart(r)
    BY <1>2, <1>5, Zenon DEF Restart
  <1>8. Proper(r) => Proper(q)
    BY <1>1, <1>2, Zenon DEF Proper
  <1> QED
    BY <1>1, <1>3, <1>4, <1>6, <1>7, <1>8, <1>9, Zenon DEF Alike

\* What the master does, by what the memory is doing.
Holds    == UNCHANGED masterVars
Renews   == req' \in NewReq \cup {NoReq} /\ beats' = 0
Proceeds == /\ beats' = beats + 1
            /\ \E d \in Word, s \in Strobe : req' = NextWord(req, d, s)

LEMMA MasterMoves ==
  ASSUME IInv, MasterClock(oresp)
  PROVE  /\ rstate \in {"NONE", "WAIT"} /\ req.valid => Holds
         /\ ~req.valid => Renews
         /\ rstate \in {"READ", "WRITE"} /\ Last => Renews
         /\ rstate \in {"READ", "WRITE"} /\ ~Last => Proceeds
  <1>1. /\ rstate \in {"NONE", "WAIT"} => ~oresp.ready /\ ~oresp.last
        /\ rstate \in {"READ", "WRITE"} => oresp.ready /\ (oresp.last <=> Last)
    <2>1. CASE rstate \in {"READ", "WRITE"}
      <3>1. oresp = [ready |-> TRUE, last |-> Last,
                     data |-> IF rstate = "READ" THEN ReadData(mem, dev, addr) ELSE 0]
        BY <2>1, Zenon DEF oresp
      <3>2. oresp.ready = TRUE /\ oresp.last = Last
        BY <3>1, Zenon
      <3> QED
        BY <2>1, <3>2, Zenon
    <2>2. CASE rstate \notin {"READ", "WRITE"}
      BY <2>2 DEF oresp, NoResp
    <2> QED
      BY <2>1, <2>2
  <1>2. rstate \in {"NONE", "WAIT", "READ", "WRITE"}
    BY DEF IInv, TypeOK, RamTypeOK
  <1>3. rstate \in {"READ", "WRITE"} => req.valid
    BY DEF IInv, BusInv
  <1>4. CASE Turn(oresp)
    BY <1>1, <1>2, <1>3, <1>4 DEF Turn, Renews
  <1>5. CASE Advance(oresp)
    <2>1. rstate \in {"READ", "WRITE"} /\ ~Last /\ req.valid
      BY <1>1, <1>2, <1>5 DEF Advance
    <2>2. Proceeds
      BY <1>5, Zenon DEF Advance, Proceeds, NextWord
    <2> QED
      BY <2>1, <2>2, Zenon
  <1>6. CASE Stay(oresp)
    <2>1. rstate \in {"NONE", "WAIT"} /\ req.valid
      BY <1>1, <1>2, <1>6 DEF Stay
    <2>2. Holds
      BY <1>6, Zenon DEF Stay, Holds
    <2> QED
      BY <2>1, <2>2
  <1> QED
    BY <1>4, <1>5, <1>6 DEF MasterClock

\* The master's part of the types.
LEMMA MasterStepType ==
  ASSUME IInv, MasterClock(oresp)
  PROVE  MasterTypeOK' /\ (req' = NoReq \/ Proper(req'))
  <1>1. req \in cbus_req_t /\ beats \in 0 .. 255
    BY DEF IInv, TypeOK, MasterTypeOK
  <1>2. CASE Renews
    <2>1. req' = NoReq \/ Proper(req')
      BY <1>2, NewReqProper, Zenon DEF Renews
    <2>2. req' \in cbus_req_t
      BY <2>1, NoReqType DEF Proper
    <2> QED
      BY <1>2, <2>1, <2>2 DEF Renews, MasterTypeOK
  <1>3. CASE Holds
    BY <1>1, <1>3 DEF Holds, masterVars, MasterTypeOK, IInv, BusInv
  <1>4. CASE Proceeds /\ rstate \in {"READ", "WRITE"} /\ ~Last
    <2>1. PICK d \in Word, s \in Strobe : req' = NextWord(req, d, s)
      BY <1>4 DEF Proceeds
    <2>2. req' \in cbus_req_t /\ (Proper(req) => Proper(req'))
      <3>1. PICK q : q = req'
        OBVIOUS
      <3>2. PICK r \in cbus_req_t : r = req
        BY <1>1
      <3>3. q = NextWord(r, d, s)
        BY <2>1, <3>1, <3>2
      <3>4. q \in cbus_req_t /\ (Proper(r) => Proper(q))
        BY <3>3, SameTransfer, Zenon
      <3> QED
        BY <3>1, <3>2, <3>4
    <2>3. Serving /\ req.valid
      BY <1>4 DEF IInv, BusInv
    <2>4. Proper(req)
      BY <2>3, NoReqType DEF IInv, BusInv
    <2>5. beats' \in 0 .. 255
      <3>1. count_down = req.len - beats /\ count_down # 0 /\ beats <= req.len
        BY <1>4, <2>3 DEF Serving, Last
      <3>2. req.len \in 0 .. 255
        BY <1>1, Lengths
      <3>3. beats' = beats + 1
        BY <1>4 DEF Proceeds
      <3> QED
        BY <1>1, <3>1, <3>2, <3>3
    <2> QED
      BY <2>2, <2>4, <2>5 DEF MasterTypeOK
  <1>5. rstate \in {"NONE", "WAIT", "READ", "WRITE"}
    BY DEF IInv, TypeOK, RamTypeOK
  <1> QED
    BY <1>2, <1>3, <1>4, <1>5, MasterMoves

\* One clock edge of both, by what the memory does.
LEMMA BusStep ==
  ASSUME IInv, Clock
  PROVE  BusInv' /\ fault' # "modified"
  <1>1. /\ TypeOK /\ BusInv
        /\ RamClock(req) /\ MasterClock(oresp)
        /\ req \in cbus_req_t
        /\ rstate \in {"NONE", "WAIT", "READ", "WRITE"}
        /\ beats \in Nat /\ count_down \in Nat
    BY DEF IInv, TypeOK, RamTypeOK, MasterTypeOK, Clock
  <1>2. fault' # "modified"
    <2>1. fault' = Fault(req)
      BY <1>1, Zenon DEF RamClock
    <2>2. ~(rstate # "NONE" /\ Modified(req))
      BY <1>1 DEF BusInv
    <2> QED
      BY <2>1, <2>2, Zenon DEF Fault
  <1> SUFFICES BusInv'
    BY <1>2
  <1>3. req' = NoReq \/ Proper(req')
    BY <1>1, MasterStepType
  <1>4. /\ rstate \in {"NONE", "WAIT"} /\ req.valid => Holds
        /\ ~req.valid => Renews
        /\ rstate \in {"READ", "WRITE"} /\ Last => Renews
        /\ rstate \in {"READ", "WRITE"} /\ ~Last => Proceeds
    BY <1>1, MasterMoves
  <1> DEFINE Kept == \A f \in {"valid", "is_write", "size", "addr", "len", "burst"} :
                       req'[f] = saved_oreq'[f]
             Still == \A f \in {"valid", "is_write", "size", "addr", "len", "burst"} :
                       req[f] = saved_oreq[f]
  <1>5. (~Modified(req))' <=> Kept
    BY DEF Modified
  <1>6. rstate # "NONE" => Still /\ req.valid
    BY <1>1 DEF BusInv, Modified
  <1> HIDE DEF Kept, Still
  <1>7. req.valid => Proper(req)
    BY <1>1, NoReqType DEF BusInv
  \* Nothing is under way afterwards.
  <1>8. ASSUME rstate' = "NONE", beats' = 0
        PROVE  BusInv'
    BY <1>3, <1>8 DEF BusInv
  <1>9. CASE Idle(req)
    <2>1. rstate' = "NONE" /\ ~req.valid
      BY <1>9 DEF Idle, busVars
    <2> QED
      BY <1>4, <1>8, <2>1 DEF Renews
  <1>10. CASE Accept(req)
    <2>1. /\ rstate = "NONE" /\ req.valid
          /\ rstate' = "WAIT" /\ saved_oreq' = req
      BY <1>10 DEF Accept
    <2>2. req' = req /\ beats' = beats
      BY <1>4, <2>1 DEF Holds, masterVars
    <2>3. Kept
      BY <2>1, <2>2 DEF Kept
    <2>4. beats' = 0
      BY <1>1, <2>1, <2>2 DEF BusInv
    <2> QED
      BY <1>3, <1>5, <2>1, <2>2, <2>3, <2>4 DEF BusInv
  <1>11. CASE Delay(req)
    <2>1. rstate = "WAIT" /\ rstate' = "WAIT" /\ saved_oreq' = saved_oreq
      BY <1>11 DEF Delay
    <2>2. req' = req /\ beats' = beats /\ req.valid
      BY <1>4, <1>6, <2>1 DEF Holds, masterVars
    <2>3. Kept
      BY <1>6, <2>1, <2>2 DEF Kept, Still
    <2>4. beats' = 0
      BY <1>1, <2>1, <2>2 DEF BusInv
    <2> QED
      BY <1>3, <1>5, <2>1, <2>2, <2>3, <2>4 DEF BusInv
  <1>12. CASE Start(req)
    <2>1. /\ rstate = "WAIT"
          /\ rstate' = IF req.is_write THEN "WRITE" ELSE "READ"
          /\ saved_oreq' = saved_oreq
          /\ addr' = req.addr /\ count_down' = req.len /\ size' = Bytes(req.size)
      BY <1>12 DEF Start
    <2>2. req' = req /\ beats' = beats /\ req.valid
      BY <1>4, <1>6, <2>1 DEF Holds, masterVars
    <2>3. Kept
      BY <1>6, <2>1, <2>2 DEF Kept, Still
    <2>4. beats = 0
      BY <1>1, <2>1 DEF BusInv
    <2>5. wrap1' = Restart(req) /\ wrap2' = Limit(req)
      BY <1>12, Zenon DEF Start, Restart, Limit
    <2>6. BeatAddr(req, 0) = req.addr /\ BeatAddr(Incremented(req), 0) = req.addr
      <3>1. Proper(req)
        BY <1>7, <2>2
      <3>2. Proper(Incremented(req)) /\ Incremented(req).addr = req.addr
        BY <3>1, AsIncrementing
      <3> QED
        BY <3>1, <3>2, FirstBeat
    <2>7. req.len \in Nat
      BY <1>1, Lengths
    <2>8. (rstate' = "WRITE") <=> req.is_write
      BY <2>1
    <2>9. Serving'
      <3>1. count_down' = req'.len - beats' /\ beats' <= req'.len
        BY <2>1, <2>2, <2>4, <2>7
      <3>2. size' = Bytes(req'.size)
        BY <2>1, <2>2
      <3>3. wrap1' = Restart(req') /\ wrap2' = Limit(req')
        BY <2>2, <2>5
      <3>4. addr' = BeatAddr(req', beats') /\ addr' = BeatAddr(Incremented(req'), beats')
        BY <2>1, <2>2, <2>4, <2>6
      <3>5. (rstate' = "WRITE") <=> req'.is_write
        BY <2>2, <2>8
      <3> QED
        BY <3>1, <3>2, <3>3, <3>4, <3>5, Zenon DEF Serving
    <2>10. rstate' \in {"READ", "WRITE"}
      BY <2>1
    <2> QED
      BY <1>3, <1>5, <2>2, <2>3, <2>9, <2>10 DEF BusInv
  <1>13. CASE LastBeat(req)
    <2>1. rstate \in {"READ", "WRITE"} /\ Last /\ rstate' = "NONE"
      BY <1>13 DEF LastBeat
    <2> QED
      BY <1>4, <1>8, <2>1 DEF Renews
  <1>14. CASE ReadBeat(req) \/ WriteBeat(req)
    <2>1. /\ rstate \in {"READ", "WRITE"} /\ ~Last
          /\ count_down' = count_down - 1
          /\ rstate' = rstate /\ saved_oreq' = saved_oreq
          /\ size' = size /\ wrap1' = wrap1 /\ wrap2' = wrap2
      BY <1>14 DEF ReadBeat, WriteBeat
    <2>2. /\ Serving /\ req.valid /\ Proper(req)
      BY <1>1, <1>6, <1>7, <2>1 DEF BusInv
    <2>3. PICK d \in Word, s \in Strobe : req' = NextWord(req, d, s)
      BY <1>4, <2>1 DEF Proceeds
    <2>4. PICK r \in cbus_req_t : \E q : r = req /\ q = req'
      BY <1>1
    <2> PICK q : r = req /\ q = req'
      BY <2>4
    <2>5. q = NextWord(r, d, s)
      BY <2>3, <2>4
    <2>6. /\ \A f \in {"valid", "is_write", "size", "addr", "len", "burst"} : q[f] = r[f]
          /\ \A n \in Nat : BeatAddr(q, n) = BeatAddr(r, n)
          /\ \A n \in Nat : BeatAddr(Incremented(q), n) = BeatAddr(Incremented(r), n)
          /\ Limit(q) = Limit(r) /\ Restart(q) = Restart(r)
      <3>1. Alike(q, r)
        BY <2>5, SameTransfer, Zenon
      <3> QED
        BY <3>1, Zenon DEF Alike
    <2>7. Kept
      BY <1>6, <2>1, <2>4, <2>6 DEF Kept, Still
    <2>8. /\ q.valid /\ q.size = r.size /\ q.len = r.len /\ q.burst = r.burst
          /\ q.is_write = r.is_write
      BY <2>2, <2>4, <2>6
    <2>9. r.len \in Nat /\ beats' = beats + 1
      BY <1>4, <2>1, <2>4, Lengths DEF Proceeds
    <2>10. /\ count_down = r.len - beats /\ beats <= r.len
           /\ size = Bytes(r.size) /\ wrap1 = Restart(r) /\ wrap2 = Limit(r)
           /\ (rstate = "WRITE") <=> r.is_write
           /\ rstate = "READ" => addr = BeatAddr(r, beats)
           /\ rstate = "WRITE" => addr = BeatAddr(Incremented(r), beats)
      BY <2>2, <2>4 DEF Serving
    <2>11. PICK n \in Nat : n = beats
      BY <1>1
    <2>12. /\ BeatAddr(r, n + 1) = IF Stepped(r, n) = Limit(r) THEN Restart(r)
                                                               ELSE Stepped(r, n)
           /\ BeatAddr(Incremented(r), n + 1) = Stepped(Incremented(r), n)
           /\ Incremented(r).size = r.size
      <3>1. Proper(r)
        BY <2>2, <2>4
      <3>2. /\ Proper(Incremented(r)) /\ Incremented(r).burst = "INCR"
            /\ Incremented(r).size = r.size
        BY <3>1, AsIncrementing
      <3> QED
        BY <3>1, <3>2, NextBeat
    <2>13. /\ rstate = "READ" => addr' = BeatAddr(r, n + 1)
           /\ rstate = "WRITE" => addr' = BeatAddr(Incremented(r), n + 1)
      <3>1. CASE rstate = "READ"
        <4>1. addr' = IF NextAddr = wrap2 THEN wrap1 ELSE NextAddr
          BY <1>14, <3>1 DEF ReadBeat, WriteBeat
        <4>2. NextAddr = Stepped(r, n)
          BY <2>10, <2>11, <3>1 DEF NextAddr, Stepped
        <4> QED
          BY <2>10, <2>12, <3>1, <4>1, <4>2
      <3>2. CASE rstate = "WRITE"
        <4>1. addr' = NextAddr
          BY <1>14, <3>2 DEF ReadBeat, WriteBeat
        <4>2. NextAddr = Stepped(Incremented(r), n)
          BY <2>10, <2>11, <2>12, <3>2 DEF NextAddr, Stepped
        <4> QED
          BY <2>12, <3>2, <4>1, <4>2
      <3> QED
        BY <2>1, <3>1, <3>2
    <2>14. Serving'
      <3>1. count_down' = q.len - beats' /\ beats' <= q.len
        BY <1>1, <2>1, <2>8, <2>9, <2>10 DEF Last
      <3>2. size' = Bytes(q.size)
        BY <2>1, <2>8, <2>10
      <3>3. wrap1' = Restart(q) /\ wrap2' = Limit(q)
        BY <2>1, <2>6, <2>10
      <3>4. (rstate' = "WRITE") <=> q.is_write
        BY <2>1, <2>8, <2>10
      <3>5. /\ rstate' = "READ" => addr' = BeatAddr(q, beats')
            /\ rstate' = "WRITE" => addr' = BeatAddr(Incremented(q), beats')
        <4>1. n + 1 \in Nat /\ beats' = n + 1
          BY <2>9, <2>11
        <4>2. /\ BeatAddr(q, n + 1) = BeatAddr(r, n + 1)
              /\ BeatAddr(Incremented(q), n + 1) = BeatAddr(Incremented(r), n + 1)
          BY <2>6, <4>1
        <4> QED
          BY <2>1, <2>13, <4>1, <4>2
      <3> QED
        BY <2>4, <3>1, <3>2, <3>3, <3>4, <3>5, Zenon DEF Serving
    <2> QED
      BY <1>3, <1>5, <2>1, <2>4, <2>7, <2>8, <2>14 DEF BusInv
  <1>15. \/ Idle(req) \/ Accept(req) \/ Delay(req) \/ Start(req)
         \/ LastBeat(req) \/ ReadBeat(req) \/ WriteBeat(req)
    BY <1>1 DEF RamClock
  <1> QED
    BY <1>9, <1>10, <1>11, <1>12, <1>13, <1>14, <1>15

-----------------------------------------------------------------------------
LEMMA InitInv == Init => IInv
  <1> SUFFICES ASSUME Init PROVE IInv
    OBVIOUS
  <1>1. RamInit /\ MasterInit
    BY DEF Init
  <1>2. 0 \in Addr /\ 0 \in Word /\ WordMod - 1 \in Word
    BY BusAssumption DEF Addr, Word
  <1>3. DevInit \in Devices
    BY <1>2 DEF DevInit, Devices
  <1>4. RamTypeOK
    <2>1. 0 \in 0 .. CycPerMs /\ 0 \in 0 .. 255 /\ 0 \in 0 .. 15
      BY RamAssumption
    <2>2. saved_oreq \in cbus_req_t
      BY <1>1, NoReqType DEF RamInit
    <2>3. trint \in BOOLEAN /\ dev \in Devices
      BY <1>1, <1>3, Zenon DEF RamInit
    <2>4. /\ rstate \in {"NONE", "WAIT", "READ", "WRITE"}
          /\ mem \in Memory
          /\ fault \in {"none", "modified", "range"}
      BY <1>1, Zenon DEF RamInit
    <2>5. /\ count_down \in 0 .. 255 /\ size \in 0 .. 15
          /\ cyc_cnt \in 0 .. CycPerMs /\ swint \in 0 .. 1
      BY <1>1, <2>1 DEF RamInit
    <2>6. addr \in Addr /\ wrap1 \in Addr /\ wrap2 \in Addr
      BY <1>1, <1>2, Zenon DEF RamInit
    <2> QED
      BY <2>2, <2>3, <2>4, <2>5, <2>6, Zenon DEF RamTypeOK
  <1>5. MasterTypeOK
    BY <1>1, NoReqType DEF MasterInit, MasterTypeOK
  <1>6. BusInv /\ fault # "modified"
    BY <1>1 DEF RamInit, MasterInit, BusInv
  <1> QED
    BY <1>4, <1>5, <1>6 DEF IInv, TypeOK

LEMMA StepInv == IInv /\ [Next]_vars => IInv'
  <1> SUFFICES ASSUME IInv, [Next]_vars PROVE IInv'
    OBVIOUS
  <1>1. CASE Next
    <2>1. RamClock(req) /\ MasterClock(oresp) /\ Clock
      BY <1>1 DEF Next, Clock
    <2>2. RamTypeOK /\ req \in cbus_req_t
      BY DEF IInv, TypeOK, MasterTypeOK
    <2>3. RamTypeOK'
      BY <2>1, <2>2, RamStepType
    <2>4. MasterTypeOK'
      BY <2>1, MasterStepType
    <2>5. BusInv' /\ fault' # "modified"
      BY <2>1, BusStep
    <2> QED
      BY <2>3, <2>4, <2>5 DEF IInv, TypeOK
  <1>2. CASE UNCHANGED vars
    <2>1. /\ rstate' = rstate /\ count_down' = count_down /\ saved_oreq' = saved_oreq
          /\ addr' = addr /\ size' = size /\ wrap1' = wrap1 /\ wrap2' = wrap2
          /\ mem' = mem /\ dev' = dev /\ cyc_cnt' = cyc_cnt
          /\ trint' = trint /\ swint' = swint /\ fault' = fault
          /\ req' = req /\ beats' = beats
      BY <1>2 DEF vars, ramVars, masterVars, busVars, timerVars
    <2>2. RamTypeOK'
      BY <2>1 DEF RamTypeOK, IInv, TypeOK
    <2>3. MasterTypeOK'
      BY <2>1 DEF MasterTypeOK, IInv, TypeOK
    <2>4. BusInv'
      BY <2>1 DEF BusInv, Serving, Modified, IInv
    <2> QED
      BY <2>1, <2>2, <2>3, <2>4 DEF IInv, TypeOK
  <1> QED
    BY <1>1, <1>2

\* The inductive invariant, for every word size, burst and delay: the memory
\* serves the request that is up, as many beats into it as the master.
THEOREM Invariance == Spec => []IInv
  <1>1. Init => IInv
    BY InitInv
  <1>2. IInv /\ [Next]_vars => IInv'
    BY StepInv
  <1> QED
    BY <1>1, <1>2, PTL DEF Spec

\* The memory never finds the request changed under a transfer (the $finish
\* of ram.sv 137-145): the safety half of Answered.
THEOREM NeverModified == Spec => [](fault # "modified")
  <1>1. IInv => fault # "modified"
    BY DEF IInv
  <1> QED
    BY <1>1, Invariance, PTL

\* In every cycle of the bus its registers have their types, and a burst of
\* reads returns the word of each of its len + 1 beats, the last with `last',
\* wherever the burst wraps (ram.sv READ).
THEOREM Soundness == Spec => []Sound
  <1>1. IInv => Sound
    <2> SUFFICES ASSUME IInv PROVE Sound
      OBVIOUS
    <2>1. TypeOK
      BY DEF IInv
    <2>2. ASSUME oresp.ready
          PROVE  /\ oresp.last <=> beats = req.len
                 /\ ~req.is_write =>
                      oresp.data = ReadData(mem, dev, BeatAddr(req, beats))
      <3>1. rstate \in {"READ", "WRITE"}
        BY <2>2 DEF oresp, NoResp
      <3>2. oresp = [ready |-> TRUE, last |-> Last,
                     data |-> IF rstate = "READ" THEN ReadData(mem, dev, addr) ELSE 0]
        BY <3>1, Zenon DEF oresp
      <3>3. /\ oresp.last = Last
            /\ oresp.data = IF rstate = "READ" THEN ReadData(mem, dev, addr) ELSE 0
        BY <3>2, Zenon
      <3>4. Serving
        BY <3>1 DEF IInv, BusInv
      <3>5. Last <=> beats = req.len
        <4>1. req.len \in Nat /\ beats \in Nat /\ count_down = req.len - beats
          BY <2>1, <3>4, Lengths DEF TypeOK, MasterTypeOK, Serving
        <4> QED
          BY <4>1 DEF Last
      <3>6. ~req.is_write => rstate = "READ" /\ addr = BeatAddr(req, beats)
        BY <3>1, <3>4 DEF Serving
      <3>7. ~req.is_write => oresp.data = ReadData(mem, dev, BeatAddr(req, beats))
        BY <3>3, <3>6
      <3> QED
        BY <3>3, <3>5, <3>7, Zenon
    <2> QED
      BY <2>1, <2>2 DEF Sound, ReadsInOrder
  <1> QED
    BY <1>1, Invariance, PTL

\* A step of the memory in its WRITE state stores the word of the beat, under
\* its own strobe, where AXI has it unless the beat strays, and where the
\* incrementing burst has it then; in the other states it stores nothing.
LEMMA WriteStep ==
  ASSUME IInv, Next
  PROVE  IF Strays THEN StoresAt(BeatAddr(Incremented(req), beats)) ELSE WritesBeats
  <1>1. /\ RamClock(req)
        /\ req \in cbus_req_t
        /\ beats \in Nat
        /\ BusInv
        /\ rstate \in {"NONE", "WAIT", "READ", "WRITE"}
    BY DEF Next, Clock, IInv, TypeOK, MasterTypeOK, RamTypeOK
  <1>2. oresp.ready <=> rstate \in {"READ", "WRITE"}
    <2>1. CASE rstate \in {"READ", "WRITE"}
      <3>1. oresp = [ready |-> TRUE, last |-> Last,
                     data |-> IF rstate = "READ" THEN ReadData(mem, dev, addr) ELSE 0]
        BY <2>1, Zenon DEF oresp
      <3>2. oresp.ready = TRUE
        BY <3>1, Zenon
      <3> QED
        BY <2>1, <3>2, Zenon
    <2>2. CASE rstate \notin {"READ", "WRITE"}
      BY <2>2 DEF oresp, NoResp
    <2> QED
      BY <2>1, <2>2
  <1>3. rstate \in {"READ", "WRITE"} => (rstate = "WRITE" <=> req.is_write)
    BY <1>1 DEF BusInv, Serving
  <1>4. CASE rstate = "WRITE"
    <2>1. Serving /\ Proper(req) /\ oresp.ready /\ req.is_write
      BY <1>1, <1>2, <1>3, <1>4, NoReqType DEF BusInv
    <2>2. addr = BeatAddr(Incremented(req), beats)
      BY <1>4, <2>1 DEF Serving
    <2>3. StoresAt(addr)
      BY <1>1, <1>4 DEF StoresAt, RamClock, Idle, Accept, Delay, Start,
                        LastBeat, ReadBeat, WriteBeat
    <2>4. ASSUME ~Strays
          PROVE  addr = BeatAddr(req, beats)
      <3>1. beats = 0 \/ req.burst = "INCR"
        BY <1>1, <2>1, <2>4 DEF Strays, Proper, cbus_req_t, axi_burst_type_t
      <3>2. /\ Proper(Incremented(req)) /\ Incremented(req).addr = req.addr
            /\ req.burst = "INCR" => Incremented(req) = req
        BY <2>1, AsIncrementing
      <3>3. /\ BeatAddr(req, 0) = req.addr
            /\ BeatAddr(Incremented(req), 0) = req.addr
        BY <2>1, <3>2, FirstBeat
      <3> QED
        BY <2>2, <3>1, <3>2, <3>3
    <2> QED
      BY <2>1, <2>2, <2>3, <2>4, Zenon DEF WritesBeats
  <1>5. CASE rstate # "WRITE"
    <2>1. UNCHANGED mem
      BY <1>1, <1>5 DEF RamClock, Idle, Accept, Delay, Start, LastBeat, ReadBeat, WriteBeat
    <2>2. ~(oresp.ready /\ req.is_write)
      BY <1>1, <1>2, <1>3, <1>5
    <2> QED
      BY <2>1, <2>2, Zenon DEF WritesBeats, Strays
  <1> QED
    BY <1>4, <1>5

\* Every beat of a write stores its word once, under its own strobe, in its
\* place or, later in a FIXED or WRAP burst, where the incrementing burst has
\* it; an idle bus, a request that waits and a burst of reads of any type
\* never store (ram.sv 149-242).
THEOREM Writing == Spec => WritesInOrder
  <1>1. IInv /\ [Next]_vars =>
          [IF Strays THEN StoresAt(BeatAddr(Incremented(req), beats))
                     ELSE WritesBeats]_vars
    BY WriteStep
  <1> QED
    BY <1>1, Invariance, PTL DEF Spec, WritesInOrder
=============================================================================
