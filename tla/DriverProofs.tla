---------------------------- MODULE DriverProofs ----------------------------
(***************************************************************************)
(* The data-bus drivers, for words of one to eight bytes, every set of     *)
(* variables, every length of the queue and any latency of the memory: the *)
(* front of the queue is what is on the bus (Sound), and a test sees its   *)
(* calls take effect in their order (AsInOrder).                           *)
(***************************************************************************)
EXTENDS Driver, WellFoundedInduction, TLAPS

-----------------------------------------------------------------------------
(***************************************************************************)
(* What a queue of tasks will do.                                          *)
(***************************************************************************)
\* Induction over the natural numbers, for a set.
LEMMA SetInduction ==
  ASSUME NEW T, T \subseteq Nat, 0 \in T, \A n \in T : n + 1 \in T
  PROVE  \A n \in Nat : n \in T
  <1> SUFFICES ASSUME Nat \ T # {} PROVE FALSE
    OBVIOUS
  <1>1. PICK x \in Nat \ T : \A y \in Nat \ T : ~(<<y, x>> \in OpToRel(<, Nat))
    <2>1. IsWellFoundedOn(OpToRel(<, Nat), Nat)
      BY NatLessThanWellFounded
    <2> QED
      BY <2>1, WFMin
  <1>2. x - 1 \in Nat \ T
    <2>1. x # 0 /\ x \in Nat
      OBVIOUS
    <2>2. x - 1 \in Nat /\ (x - 1) + 1 = x
      BY <2>1
    <2> QED
      BY <2>2
  <1>3. <<x - 1, x>> \in OpToRel(<, Nat)
    BY <1>2 DEF OpToRel
  <1> QED
    BY <1>1, <1>2, <1>3

\* f[n] is what has happened after n of the tasks ts, up to k.
IsRun(f, s, ts, k) ==
  f = [n \in 0 .. k |-> IF n = 0 THEN s ELSE Effect(f[n - 1], ts[n])]

LEMMA RunExists ==
  ASSUME NEW s, NEW ts
  PROVE  \A k \in Nat : \E f : IsRun(f, s, ts, k)
  <1> DEFINE T == {k \in Nat : \E f : IsRun(f, s, ts, k)}
  <1>1. 0 \in T
    <2> DEFINE f == [n \in 0 .. 0 |-> s]
    <2>1. f = [n \in 0 .. 0 |-> IF n = 0 THEN s ELSE Effect(f[n - 1], ts[n])]
      OBVIOUS
    <2> QED
      BY <2>1 DEF IsRun
  <1>2. ASSUME NEW k \in T
        PROVE  k + 1 \in T
    <2>1. PICK f : IsRun(f, s, ts, k)
      OBVIOUS
    <2> DEFINE g == [n \in 0 .. k + 1 |->
                       IF n = k + 1 THEN Effect(f[k], ts[n]) ELSE f[n]]
    <2>2. \A n \in 0 .. k : f[n] = IF n = 0 THEN s ELSE Effect(f[n - 1], ts[n])
      BY <2>1 DEF IsRun
    <2>3. \A n \in 0 .. k + 1 : g[n] = IF n = 0 THEN s ELSE Effect(g[n - 1], ts[n])
      <3> SUFFICES ASSUME NEW n \in 0 .. k + 1
                   PROVE  g[n] = IF n = 0 THEN s ELSE Effect(g[n - 1], ts[n])
        OBVIOUS
      <3>1. CASE n = k + 1
        <4>1. n # 0 /\ n - 1 = k /\ k \in 0 .. k + 1 /\ k # k + 1
          BY <3>1
        <4>2. g[n] = Effect(f[k], ts[n])
          BY <3>1
        <4>3. g[n - 1] = f[k]
          BY <4>1
        <4> QED
          BY <4>1, <4>2, <4>3
      <3>2. CASE n # k + 1
        <4>1. n \in 0 .. k /\ g[n] = f[n]
          BY <3>2
        <4>2. CASE n = 0
          BY <2>2, <4>1, <4>2
        <4>3. CASE n # 0
          <5>1. n - 1 \in 0 .. k + 1 /\ n - 1 # k + 1
            BY <4>1, <4>3
          <5>2. g[n - 1] = f[n - 1]
            BY <5>1
          <5> QED
            BY <2>2, <4>1, <4>3, <5>2
        <4> QED
          BY <4>2, <4>3
      <3> QED
        BY <3>1, <3>2
    <2>4. IsRun(g, s, ts, k + 1)
      <3> HIDE DEF g
      <3>1. g = [n \in 0 .. k + 1 |-> g[n]]
        BY DEF g
      <3> QED
        BY <2>3, <3>1 DEF IsRun
    <2> QED
      BY <2>4
  <1> HIDE DEF T
  <1>3. T \subseteq Nat
    BY DEF T
  <1>4. \A k \in Nat : k \in T
    BY <1>1, <1>2, <1>3, SetInduction
  <1> QED
    BY <1>4 DEF T

LEMMA AfterRun ==
  ASSUME NEW s, NEW ts, Len(ts) \in Nat
  PROVE  \E f : IsRun(f, s, ts, Len(ts)) /\ After(s, ts) = f[Len(ts)]
  <1> DEFINE f == CHOOSE f : IsRun(f, s, ts, Len(ts))
  <1>1. IsRun(f, s, ts, Len(ts))
    BY RunExists
  <1>2. After(s, ts) = f[Len(ts)]
    BY DEF After, IsRun
  <1> QED
    BY <1>1, <1>2

\* Tasks that two queues have in common do the same.
Agree(p, q, k) == \A n \in 1 .. k : p[n] = q[n]

LEMMA RunUnique ==
  ASSUME NEW s, NEW p, NEW q, NEW k \in Nat, NEW f, NEW g,
         IsRun(f, s, p, k), IsRun(g, s, q, k + 1), Agree(p, q, k)
  PROVE  f[k] = g[k]
  <1> DEFINE T == {n \in Nat : n <= k => f[n] = g[n]}
  <1>1. \A n \in 0 .. k : f[n] = IF n = 0 THEN s ELSE Effect(f[n - 1], p[n])
    BY DEF IsRun
  <1>2. \A n \in 0 .. k + 1 : g[n] = IF n = 0 THEN s ELSE Effect(g[n - 1], q[n])
    BY DEF IsRun
  <1>3. 0 \in T
    BY <1>1, <1>2
  <1>4. ASSUME NEW n \in T
        PROVE  n + 1 \in T
    <2> SUFFICES ASSUME n + 1 <= k PROVE f[n + 1] = g[n + 1]
      OBVIOUS
    <2>1. n + 1 \in 1 .. k /\ n + 1 \in 0 .. k /\ n + 1 \in 0 .. k + 1 /\ n + 1 # 0
          /\ (n + 1) - 1 = n /\ n <= k
      OBVIOUS
    <2>2. f[n + 1] = Effect(f[n], p[n + 1])
      BY <1>1, <2>1
    <2>3. g[n + 1] = Effect(g[n], q[n + 1])
      BY <1>2, <2>1
    <2>4. f[n] = g[n] /\ p[n + 1] = q[n + 1]
      BY <2>1 DEF Agree
    <2> QED
      BY <2>2, <2>3, <2>4
  <1> HIDE DEF T
  <1>5. T \subseteq Nat
    BY DEF T
  <1>6. \A n \in Nat : n \in T
    BY <1>3, <1>4, <1>5, SetInduction
  <1> QED
    BY <1>6 DEF T

LEMMA AfterNothing ==
  ASSUME NEW s
  PROVE  After(s, <<>>) = s
  <1>1. Len(<<>>) = 0
    OBVIOUS
  <1>2. PICK f : IsRun(f, s, <<>>, Len(<<>>)) /\ After(s, <<>>) = f[Len(<<>>)]
    BY <1>1, AfterRun
  <1> QED
    BY <1>1, <1>2 DEF IsRun

\* A task that is called takes effect after all others.
LEMMA AfterAppend ==
  ASSUME NEW s, NEW S, NEW ts \in Seq(S), NEW t \in S
  PROVE  After(s, ts \o <<t>>) = Effect(After(s, ts), t)
  <1> DEFINE k == Len(ts)
             q == ts \o <<t>>
  <1>1. k \in Nat /\ Len(q) = k + 1 /\ q[k + 1] = t /\ \A n \in 1 .. k : ts[n] = q[n]
    OBVIOUS
  <1> HIDE DEF k, q
  <1>2. PICK f : IsRun(f, s, ts, k) /\ After(s, ts) = f[k]
    BY <1>1, AfterRun DEF k
  <1>3. PICK g : IsRun(g, s, q, k + 1) /\ After(s, q) = g[k + 1]
    <2>1. Len(q) \in Nat
      BY <1>1
    <2> QED
      BY <1>1, <2>1, AfterRun
  <1>4. f[k] = g[k]
    <2>1. Agree(ts, q, k)
      BY <1>1 DEF Agree
    <2> QED
      BY <1>1, <1>2, <1>3, <2>1, RunUnique
  <1>5. g[k + 1] = Effect(g[k], q[k + 1])
    <2>1. k + 1 \in 0 .. k + 1 /\ k + 1 # 0 /\ (k + 1) - 1 = k
      BY <1>1
    <2> QED
      BY <1>3, <2>1 DEF IsRun
  <1> QED
    BY <1>1, <1>2, <1>3, <1>4, <1>5 DEF q

\* The front task taking effect changes nothing in what will have happened.
LEMMA AfterHead ==
  ASSUME NEW s, NEW S, NEW ts \in Seq(S), ts # <<>>
  PROVE  After(s, ts) = After(Effect(s, Head(ts)), Tail(ts))
  <1> DEFINE k == Len(ts) - 1
             q == Tail(ts)
             e == Effect(s, Head(ts))
  <1>1. k \in Nat /\ Len(ts) = k + 1 /\ Len(q) = k /\ ts[1] = Head(ts)
        /\ \A n \in 1 .. k : q[n] = ts[n + 1]
    OBVIOUS
  <1> HIDE DEF k, q
  <1>2. PICK f : IsRun(f, s, ts, k + 1) /\ After(s, ts) = f[k + 1]
    <2>1. Len(ts) \in Nat
      BY <1>1
    <2> QED
      BY <1>1, <2>1, AfterRun
  <1>3. PICK g : IsRun(g, e, q, k) /\ After(e, q) = g[k]
    <2>1. Len(q) \in Nat
      BY <1>1
    <2> HIDE DEF e
    <2> QED
      BY <1>1, <2>1, AfterRun
  <1>4. \A n \in 0 .. k + 1 : f[n] = IF n = 0 THEN s ELSE Effect(f[n - 1], ts[n])
    BY <1>2 DEF IsRun
  <1>5. \A n \in 0 .. k : g[n] = IF n = 0 THEN e ELSE Effect(g[n - 1], q[n])
    BY <1>3 DEF IsRun
  <1> DEFINE T == {n \in Nat : n <= k => g[n] = f[n + 1]}
  <1>6. 0 \in T
    <2>1. 0 \in 0 .. k + 1 /\ 1 \in 0 .. k + 1 /\ 1 - 1 = 0 /\ 0 \in 0 .. k /\ 0 + 1 = 1
      BY <1>1
    <2>2. f[1] = Effect(f[0], ts[1])
      BY <1>4, <2>1
    <2>3. f[0] = s /\ g[0] = e
      BY <1>4, <1>5, <2>1
    <2> QED
      BY <1>1, <2>1, <2>2, <2>3
  <1>7. ASSUME NEW n \in T
        PROVE  n + 1 \in T
    <2> SUFFICES ASSUME n + 1 <= k PROVE g[n + 1] = f[(n + 1) + 1]
      OBVIOUS
    <2>1. /\ n + 1 \in 1 .. k /\ n + 1 \in 0 .. k /\ n + 1 # 0 /\ (n + 1) - 1 = n /\ n <= k
          /\ (n + 1) + 1 \in 0 .. k + 1 /\ (n + 1) + 1 # 0 /\ ((n + 1) + 1) - 1 = n + 1
      BY <1>1
    <2>2. g[n + 1] = Effect(g[n], q[n + 1])
      BY <1>5, <2>1
    <2>3. f[(n + 1) + 1] = Effect(f[n + 1], ts[(n + 1) + 1])
      BY <1>4, <2>1
    <2>4. g[n] = f[n + 1] /\ q[n + 1] = ts[(n + 1) + 1]
      BY <1>1, <2>1
    <2> QED
      BY <2>2, <2>3, <2>4
  <1> HIDE DEF T, e
  <1>8. T \subseteq Nat
    BY DEF T
  <1>9. \A n \in Nat : n \in T
    BY <1>6, <1>7, <1>8, SetInduction
  <1>10. g[k] = f[k + 1]
    BY <1>1, <1>9 DEF T
  <1> QED
    BY <1>2, <1>3, <1>10 DEF q, e

LEMMA AfterTwo ==
  ASSUME NEW s, NEW S, NEW p \in S, NEW q \in S
  PROVE  After(s, <<p, q>>) = Effect(Effect(s, p), q)
  <1>1. <<p, q>> \in Seq(S) /\ <<p, q>> # <<>> /\ Head(<<p, q>>) = p /\ Tail(<<p, q>>) = <<q>>
    OBVIOUS
  <1>2. <<q>> \in Seq(S) /\ <<q>> # <<>> /\ Head(<<q>>) = q /\ Tail(<<q>>) = <<>>
    OBVIOUS
  <1>3. After(s, <<p, q>>) = After(Effect(s, p), <<q>>)
    BY <1>1, AfterHead
  <1>4. After(Effect(s, p), <<q>>) = After(Effect(Effect(s, p), q), <<>>)
    BY <1>2, AfterHead
  <1> QED
    BY <1>3, <1>4, AfterNothing

-----------------------------------------------------------------------------
(***************************************************************************)
(* Bytes and lanes.                                                        *)
(***************************************************************************)
LEMMA Powers ==
  ASSUME NEW x \in 0 .. 3
  PROVE  2 ^ x = IF x = 0 THEN 1 ELSE IF x = 1 THEN 2 ELSE IF x = 2 THEN 4 ELSE 8
  <1>1. CASE x = 0
    BY <1>1
  <1>2. CASE x = 1
    BY <1>2
  <1>3. CASE x = 2
    BY <1>3
  <1>4. CASE x = 3
    BY <1>4
  <1> QED
    BY <1>1, <1>2, <1>3, <1>4

LEMMA Widths ==
  /\ LogLanes \in 0 .. 3
  /\ \A w \in Sizes : Width(w) \in {1, 2, 4, 8} /\ w \in Int
  /\ \A a \in Lane : a \in Nat
  /\ 0 \in Lane
  /\ \A a \in Lane, w \in Sizes : a % Width(w) = 0 => a + Width(w) - 1 \in Lane
  <1>1. LogLanes \in 0 .. 3
    BY ByteAssumption
  <1>2. Sizes \subseteq 0 .. 3
    BY <1>1 DEF Sizes
  <1>3. \A w \in Sizes : Width(w) = IF w = 0 THEN 1 ELSE IF w = 1 THEN 2
                                    ELSE IF w = 2 THEN 4 ELSE 8
    BY <1>2, Powers DEF Width
  <1>4. \A w \in Sizes : Width(w) \in {1, 2, 4, 8} /\ w \in Int
    BY <1>2, <1>3
  <1>5. 2 ^ LogLanes = Width(LogLanes) /\ LogLanes \in Sizes
    BY <1>1 DEF Width, Sizes
  <1>6. \A w \in Sizes : Width(w) <= 2 ^ LogLanes
    <2> SUFFICES ASSUME NEW w \in Sizes PROVE Width(w) <= Width(LogLanes)
      BY <1>5
    <2>1. w \in Int /\ w >= 0 /\ w <= LogLanes
      BY <1>1 DEF Sizes
    <2> QED
      BY <1>1, <1>3, <1>5, <2>1
  <1>7. ASSUME NEW a \in Lane, NEW w \in Sizes, a % Width(w) = 0
        PROVE  a + Width(w) - 1 \in Lane
    <2> DEFINE W == Width(w)
               L == 2 ^ LogLanes
    <2>1. W \in {1, 2, 4, 8} /\ L \in {1, 2, 4, 8} /\ W <= L
      BY <1>4, <1>5, <1>6
    <2>2. a \in 0 .. L - 1 /\ a % W = 0
      BY <1>7 DEF Lane
    <2> HIDE DEF W, L
    <2>3. a + W - 1 \in 0 .. L - 1
      <3>1. CASE W = 1
        BY <2>1, <2>2, <3>1
      <3>2. CASE W = 2
        BY <2>1, <2>2, <3>2
      <3>3. CASE W = 4
        BY <2>1, <2>2, <3>3
      <3>4. CASE W = 8
        BY <2>1, <2>2, <3>4
      <3> QED
        BY <2>1, <2>2, <3>1, <3>2, <3>3, <3>4
    <2> QED
      BY <2>3 DEF Lane, W, L
  <1>8. \A a \in Lane : a \in Nat
    BY DEF Lane
  <1>9. 0 \in Lane
    <2>1. 2 ^ LogLanes \in {1, 2, 4, 8}
      BY <1>4, <1>5
    <2> QED
      BY <2>1 DEF Lane
  <1> QED
    BY <1>1, <1>4, <1>7, <1>8, <1>9

\* An aligned access: the operation, and the lanes it names.
LEMMA Aligned ==
  ASSUME NEW a \in Lane, NEW w \in Sizes, a % Width(w) = 0
  PROVE  /\ parse(a, w) = [w |-> w, s |-> a]
         /\ parse(a, w) \in Ops
         /\ parse(a, w) # DISCARD
         /\ Selected(parse(a, w)) = a .. a + Width(w) - 1
         /\ \A l \in Lane : l < Width(w) => a + l \in Lane /\ l + a \in Lane /\ a + l = l + a
         /\ \A l \in Lane : l - a \in 0 .. Width(w) - 1 <=> l \in a .. a + Width(w) - 1
  <1>1. /\ Width(w) \in {1, 2, 4, 8} /\ w \in Int /\ a \in Nat
        /\ \A l \in Lane : l \in Nat
        /\ a + Width(w) - 1 \in Lane
    BY Widths
  <1>2. parse(a, w) = [w |-> w, s |-> a]
    BY <1>1 DEF parse
  <1>3. w # -1
    BY DEF Sizes
  <1>4. parse(a, w) \in Ops /\ parse(a, w) # DISCARD
    BY <1>2, <1>3 DEF Ops, DISCARD
  <1>5. Selected(parse(a, w)) = a .. a + Width(w) - 1
    BY <1>2, <1>4 DEF Selected
  <1>6. ASSUME NEW l \in Lane, l < Width(w)
        PROVE  a + l \in Lane /\ l + a \in Lane /\ a + l = l + a
    <2> DEFINE L == 2 ^ LogLanes
    <2>1. a + Width(w) - 1 \in 0 .. L - 1 /\ l \in Nat /\ L \in Int
      BY <1>1, Widths DEF Lane
    <2> HIDE DEF L
    <2>2. a + l \in 0 .. L - 1 /\ l + a = a + l
      BY <1>1, <1>6, <2>1
    <2> QED
      BY <2>2 DEF Lane, L
  <1>7. \A l \in Lane : l - a \in 0 .. Width(w) - 1 <=> l \in a .. a + Width(w) - 1
    BY <1>1
  <1> QED
    BY <1>2, <1>4, <1>5, <1>6, <1>7

LEMMA DiscardIs ==
  /\ \A l \in Lane : ~strobe(DISCARD)[l]
  /\ DISCARD \in Ops
  /\ Selected(DISCARD) = {}
  <1>1. Selected(DISCARD) = {}
    BY DEF Selected
  <1> QED
    BY <1>1 DEF strobe, Ops

LEMMA ZeroType == Zero \in Words
  BY ByteAssumption DEF Zero, Words

LEMMA StoredType ==
  ASSUME NEW old \in Words, NEW st, NEW data \in Words
  PROVE  Stored(old, st, data) \in Words
  BY DEF Stored, Words

LEMMA StoredNone ==
  ASSUME NEW old \in Words, NEW data
  PROVE  Stored(old, strobe(DISCARD), data) = old
  BY DiscardIs DEF Stored, Words

LEMMA ApplyType ==
  ASSUME NEW op \in Ops, NEW data \in Words, NEW old \in Words
  PROVE  applyTo(op, data, old) \in Words
  <1>1. apply(op, data) \in Words
    BY ByteAssumption DEF apply, Words
  <1> QED
    BY <1>1 DEF applyTo, Words

\* A load of an aligned value.
LEMMA ApplyIs ==
  ASSUME NEW a \in Lane, NEW w \in Sizes, a % Width(w) = 0, NEW data, NEW old
  PROVE  applyTo(parse(a, w), data, old) =
           [l \in Lane |-> IF l < Width(w) THEN data[a + l] ELSE old[l]]
  <1>1. /\ parse(a, w).w = w /\ parse(a, w).s = a /\ parse(a, w) # DISCARD
        /\ \A l \in Lane : l < Width(w) => l + a \in Lane /\ a + l = l + a
    BY Aligned
  <1>2. ASSUME NEW l \in Lane, l < Width(w)
        PROVE  apply(parse(a, w), data)[l] = data[a + l]
    BY <1>1, <1>2 DEF apply
  <1> QED
    BY <1>1, <1>2 DEF applyTo

\* A store of an aligned value.
LEMMA StoredIs ==
  ASSUME NEW a \in Lane, NEW w \in Sizes, a % Width(w) = 0, NEW old, NEW v
  PROVE  Stored(old, strobe(parse(a, w)), place(parse(a, w), v)) =
           [l \in Lane |-> IF l - a \in 0 .. Width(w) - 1 THEN v[l - a] ELSE old[l]]
  <1>1. /\ parse(a, w).s = a
        /\ Selected(parse(a, w)) = a .. a + Width(w) - 1
        /\ \A l \in Lane : l - a \in 0 .. Width(w) - 1 <=> l \in a .. a + Width(w) - 1
    BY Aligned
  <1>2. ASSUME NEW l \in Lane
        PROVE  Stored(old, strobe(parse(a, w)), place(parse(a, w), v))[l] =
                 IF l - a \in 0 .. Width(w) - 1 THEN v[l - a] ELSE old[l]
    <2>1. strobe(parse(a, w))[l] <=> l - a \in 0 .. Width(w) - 1
      BY <1>1 DEF strobe
    <2>2. l - a \in 0 .. Width(w) - 1 => place(parse(a, w), v)[l] = v[l - a]
      <3>1. a \in Nat /\ l \in Nat
        BY Widths
      <3>2. l - a \in 0 .. Width(w) - 1 => l >= a
        BY <3>1
      <3> QED
        BY <1>1, <3>2 DEF place
    <2> QED
      BY <2>1, <2>2 DEF Stored
  <1> QED
    BY <1>2 DEF Stored

LEMMA PlaceType ==
  ASSUME NEW a \in Lane, NEW w \in Sizes, a % Width(w) = 0, NEW v \in Words
  PROVE  place(parse(a, w), v) \in Words
  <1>1. parse(a, w).s = a
    BY Aligned
  <1>2. \A l \in Lane : l >= a => l - a \in Lane
    <2>1. \A l \in Lane : l \in Nat /\ l <= 2 ^ LogLanes - 1
      BY Widths DEF Lane
    <2>2. a \in Nat /\ 2 ^ LogLanes \in Int
      BY Widths
    <2> QED
      BY <2>1, <2>2 DEF Lane
  <1>3. \A l \in Lane : IF l >= a THEN v[l - a] \in Byte ELSE 0 \in Byte
    BY <1>2, ByteAssumption DEF Words
  <1> QED
    BY <1>1, <1>3 DEF place, Words

-----------------------------------------------------------------------------
(***************************************************************************)
(* The inductive invariant.                                                *)
(***************************************************************************)
\* Tasks as the drivers make them: a store has no destination.
Queued == {t \in Task : ~is_load(t) => t.dest = Null}

\* What has happened, or will have happened.
State == [bytes : Words, dest : [Dest \cup Locals -> Words], failed : BOOLEAN]

DataInv ==
  /\ mem \in Words
  /\ ongoing \in Seq(Queued)
  /\ dest \in [Dest \cup Locals -> Words]

PcInv ==
  /\ pipe \in BOOLEAN
  /\ pc \in {"free", "await", "fence", "close", "u", "v", "failed"}
  /\ pc = "await" => ~pipe /\ \E t \in Queued : t.dest \notin Locals /\ arg = <<t>>
  /\ pc \in {"fence", "close", "u", "v"} => pipe
  /\ pc \in {"u", "v"} => /\ arg \in Lane \X Lane \X Sizes
                          /\ arg[1] % Width(arg[3]) = 0 /\ arg[2] % Width(arg[3]) = 0

\* The bytes of a cell, as swap loads them.
Cut(bytes, a, w) == [l \in Lane |-> IF l < Width(w) THEN bytes[a + l] ELSE 0]

\* When all that is called has happened, the locals of swap hold what its loads
\* were called for.
LocalsInv ==
  ~Called.failed /\ pc # "failed" =>
    /\ pc \notin {"u", "v"} => Called.dest["u"] = Zero
    /\ pc # "v" => Called.dest["v"] = Zero
    /\ pc \in {"u", "v"} => Called.dest["u"] = Cut(Called.bytes, arg[1], arg[3])
    /\ pc = "v" => Called.dest["v"] = Cut(Called.bytes, arg[2], arg[3])

IInv == DataInv /\ PcInv /\ FrontOnBus /\ Called \in State /\ LocalsInv

-----------------------------------------------------------------------------
(***************************************************************************)
(* The tasks.                                                              *)
(***************************************************************************)
LEMMA RequestType ==
  ASSUME NEW t \in Queued
  PROVE  /\ Request(t) \in [valid : BOOLEAN, addr : Lane, size : Sizes,
                            strobe : [Lane -> BOOLEAN], data : Words]
         /\ Request(t).valid /\ Request(t).strobe = t.strobe /\ Request(t).data = t.data
  BY DEF Queued, Task, Request

LEMMA NoRequestType ==
  /\ NoRequest \in [valid : BOOLEAN, addr : Lane, size : Sizes,
                    strobe : [Lane -> BOOLEAN], data : Words]
  /\ ~NoRequest.valid
  <1>1. 0 \in Sizes
    BY ByteAssumption DEF Sizes
  <1>2. strobe(DISCARD) \in [Lane -> BOOLEAN]
    BY DEF strobe
  <1> QED
    BY <1>1, <1>2, Widths, ZeroType DEF NoRequest

LEMMA LoadTaskIs ==
  ASSUME NEW a \in Lane, NEW w \in Sizes, a % Width(w) = 0, NEW d \in Dest \cup Locals
  PROVE  /\ LoadTask(a, w, d) \in Queued /\ is_load(LoadTask(a, w, d))
         /\ LoadTask(a, w, d).dest = d /\ d # Null
         /\ LoadTask(a, w, d).load_op = parse(a, w)
  <1>1. strobe(DISCARD) \in [Lane -> BOOLEAN]
    BY DEF strobe
  <1>2. d # Null
    BY DriverAssumption DEF Locals, Null
  <1>3. parse(a, w) \in Ops
    BY Aligned
  <1> QED
    BY <1>1, <1>2, <1>3, ZeroType DEF LoadTask, Queued, Task, is_load

LEMMA StoreTaskIs ==
  ASSUME NEW a \in Lane, NEW w \in Sizes, a % Width(w) = 0, NEW v \in Words
  PROVE  /\ StoreTask(a, w, v) \in Queued /\ ~is_load(StoreTask(a, w, v))
         /\ StoreTask(a, w, v).dest = Null
         /\ StoreTask(a, w, v).strobe = strobe(parse(a, w))
         /\ StoreTask(a, w, v).data = place(parse(a, w), v)
  <1>1. strobe(parse(a, w)) \in [Lane -> BOOLEAN]
    BY DEF strobe
  <1>2. strobe(parse(a, w)) # strobe(DISCARD)
    <2>1. a \in Selected(parse(a, w))
      BY Aligned, Widths
    <2>2. strobe(parse(a, w))[a]
      BY <2>1 DEF strobe
    <2> QED
      BY <2>2, DiscardIs
  <1>3. parse(0, LogLanes) \in Ops
    <2>1. LogLanes \in Sizes
      BY ByteAssumption DEF Sizes
    <2>2. 0 % Width(LogLanes) = 0
      <3>1. Width(LogLanes) \in {1, 2, 4, 8}
        BY <2>1, Widths
      <3> QED
        BY <3>1
    <2> QED
      BY <2>1, <2>2, Widths, Aligned
  <1> QED
    BY <1>1, <1>2, <1>3, PlaceType DEF StoreTask, Queued, Task, is_load

LEMMA ExpectTaskIs ==
  ASSUME NEW a \in Lane, NEW w \in Sizes, a % Width(w) = 0, NEW v \in Words
  PROVE  /\ ExpectTask(a, w, v) \in Queued /\ is_load(ExpectTask(a, w, v))
         /\ ExpectTask(a, w, v).dest = Null
         /\ ExpectTask(a, w, v).load_op = parse(a, w)
         /\ ExpectTask(a, w, v).data = place(parse(a, w), v)
  <1>1. strobe(DISCARD) \in [Lane -> BOOLEAN]
    BY DEF strobe
  <1>2. parse(a, w) \in Ops
    BY Aligned
  <1> QED
    BY <1>1, <1>2, PlaceType DEF ExpectTask, Queued, Task, is_load

LEMMA DiscardTaskIs ==
  ASSUME NEW a \in Lane, NEW w \in Sizes, a % Width(w) = 0
  PROVE  /\ DiscardTask(a, w) \in Queued /\ is_load(DiscardTask(a, w))
         /\ DiscardTask(a, w).dest = Null
         /\ DiscardTask(a, w).load_op = DISCARD
  <1>1. strobe(DISCARD) \in [Lane -> BOOLEAN]
    BY DEF strobe
  <1> QED
    BY <1>1, DiscardIs, ZeroType DEF DiscardTask, LoadTask, Queued, Task, is_load

-----------------------------------------------------------------------------
(***************************************************************************)
(* Their effects.                                                          *)
(***************************************************************************)
LEMMA EffectType ==
  ASSUME NEW s \in State, NEW t \in Queued
  PROVE  Effect(s, t) \in State
  <1>1. /\ s.bytes \in Words /\ s.dest \in [Dest \cup Locals -> Words]
        /\ t.data \in Words /\ t.load_op \in Ops
        /\ t.dest \in Dest \cup Locals \cup {Null}
    BY DEF State, Queued, Task
  <1>2. Stored(s.bytes, t.strobe, t.data) \in Words
    BY <1>1, StoredType
  <1>3. t.dest # Null => applyTo(t.load_op, s.bytes, s.dest[t.dest]) \in Words
    BY <1>1, ApplyType
  <1>4. Matches(t, s.bytes) \in BOOLEAN
    BY DEF Matches
  <1>5. CASE s.failed
    BY <1>5 DEF Effect
  <1>6. CASE ~s.failed /\ ~is_load(t)
    <2>1. Effect(s, t) = [s EXCEPT !.bytes = Stored(s.bytes, t.strobe, t.data)]
      BY <1>6 DEF Effect
    <2> QED
      BY <1>2, <2>1 DEF State
  <1>7. CASE ~s.failed /\ is_load(t) /\ t.dest # Null
    <2>1. Effect(s, t) = [s EXCEPT !.dest =
            [s.dest EXCEPT ![t.dest] = applyTo(t.load_op, s.bytes, s.dest[t.dest])]]
      BY <1>7 DEF Effect
    <2>2. [s.dest EXCEPT ![t.dest] = applyTo(t.load_op, s.bytes, s.dest[t.dest])]
            \in [Dest \cup Locals -> Words]
      BY <1>1, <1>3, <1>7
    <2> QED
      BY <2>1, <2>2 DEF State
  <1>8. CASE ~s.failed /\ is_load(t) /\ t.dest = Null
    <2>1. Effect(s, t) = [s EXCEPT !.failed = ~Matches(t, s.bytes)]
      BY <1>8 DEF Effect
    <2>2. PICK m \in BOOLEAN : m = ~Matches(t, s.bytes)
      BY <1>4
    <2>3. Effect(s, t) = [s EXCEPT !.failed = m]
      BY <2>1, <2>2
    <2> QED
      BY <2>3 DEF State
  <1> QED
    BY <1>5, <1>6, <1>7, <1>8

LEMMA FailedEffect ==
  ASSUME NEW s, NEW t, s.failed
  PROVE  Effect(s, t) = s
  BY DEF Effect

LEMMA StoreEffect ==
  ASSUME NEW s \in State, ~s.failed, NEW a \in Lane, NEW w \in Sizes, a % Width(w) = 0,
         NEW v \in Words
  PROVE  Effect(s, StoreTask(a, w, v)) =
           [s EXCEPT !.bytes = [l \in Lane |-> IF l - a \in 0 .. Width(w) - 1
                                                 THEN v[l - a] ELSE s.bytes[l]]]
  BY StoreTaskIs, StoredIs DEF Effect

LEMMA LoadEffect ==
  ASSUME NEW s \in State, ~s.failed, NEW a \in Lane, NEW w \in Sizes, a % Width(w) = 0,
         NEW d \in Dest \cup Locals
  PROVE  Effect(s, LoadTask(a, w, d)) =
           [s EXCEPT !.dest = [s.dest EXCEPT ![d] =
              [l \in Lane |-> IF l < Width(w) THEN s.bytes[a + l] ELSE s.dest[d][l]]]]
  <1>1. applyTo(parse(a, w), s.bytes, s.dest[d]) =
          [l \in Lane |-> IF l < Width(w) THEN s.bytes[a + l] ELSE s.dest[d][l]]
    BY ApplyIs
  <1>2. PICK t : t = LoadTask(a, w, d)
    OBVIOUS
  <1>3. is_load(t) /\ t.dest = d /\ d # Null /\ t.load_op = parse(a, w)
    BY <1>2, LoadTaskIs
  <1>4. Effect(s, t) =
          [s EXCEPT !.dest = [s.dest EXCEPT ![d] = applyTo(parse(a, w), s.bytes, s.dest[d])]]
    BY <1>3 DEF Effect
  <1> QED
    BY <1>1, <1>2, <1>4

\* An expectation that is met leaves no trace.
LEMMA ExpectEffect ==
  ASSUME NEW s \in State, ~s.failed, NEW a \in Lane, NEW w \in Sizes, a % Width(w) = 0,
         NEW v \in Words
  PROVE  \/ /\ \A l \in 0 .. Width(w) - 1 : s.bytes[a + l] = v[l]
            /\ Effect(s, ExpectTask(a, w, v)) = s
         \/ /\ \E l \in 0 .. Width(w) - 1 : s.bytes[a + l] # v[l]
            /\ Effect(s, ExpectTask(a, w, v)) = [s EXCEPT !.failed = TRUE]
  <1> DEFINE t == ExpectTask(a, w, v)
  <1>1. Effect(s, t) = [s EXCEPT !.failed = ~Matches(t, s.bytes)]
    BY ExpectTaskIs DEF Effect
  <1>2. Matches(t, s.bytes) <=> \A l \in 0 .. Width(w) - 1 : s.bytes[a + l] = v[l]
    <2>1. /\ Selected(parse(a, w)) = a .. a + Width(w) - 1
          /\ parse(a, w).s = a
      BY Aligned
    <2>2. a \in Nat /\ Width(w) \in Nat /\ a + Width(w) - 1 \in Lane
      BY Widths
    <2>3. \A l \in a .. a + Width(w) - 1 : /\ l \in Lane /\ l >= a
                                           /\ l - a \in 0 .. Width(w) - 1 /\ a + (l - a) = l
      <3> DEFINE L == 2 ^ LogLanes
                 W == Width(w)
      <3>1. a \in Nat /\ W \in Nat /\ a + W - 1 \in 0 .. L - 1 /\ L \in Int
        BY <2>2, Widths DEF Lane
      <3> HIDE DEF L, W
      <3>2. \A l \in a .. a + W - 1 : /\ l \in 0 .. L - 1 /\ l >= a
                                      /\ l - a \in 0 .. W - 1 /\ a + (l - a) = l
        BY <3>1
      <3> QED
        BY <3>2 DEF Lane, L, W
    <2>4. \A l \in 0 .. Width(w) - 1 : a + l \in a .. a + Width(w) - 1 /\ (a + l) - a = l
      BY <2>2
    <2>5. \A l \in a .. a + Width(w) - 1 : place(parse(a, w), v)[l] = v[l - a]
      BY <2>1, <2>3 DEF place
    <2>6. Matches(t, s.bytes) <=>
            \A l \in a .. a + Width(w) - 1 : v[l - a] = s.bytes[l]
      BY <2>1, <2>5, ExpectTaskIs DEF Matches
    <2>7. (\A l \in a .. a + Width(w) - 1 : v[l - a] = s.bytes[l])
            <=> \A l \in 0 .. Width(w) - 1 : s.bytes[a + l] = v[l]
      BY <2>3, <2>4
    <2> QED
      BY <2>6, <2>7
  <1>3. s = [s EXCEPT !.failed = FALSE]
    BY DEF State
  <1> QED
    BY <1>1, <1>2, <1>3

LEMMA DiscardEffect ==
  ASSUME NEW s \in State, ~s.failed, NEW a \in Lane, NEW w \in Sizes, a % Width(w) = 0
  PROVE  Effect(s, DiscardTask(a, w)) = s
  <1>1. Effect(s, DiscardTask(a, w)) = [s EXCEPT !.failed = ~Matches(DiscardTask(a, w), s.bytes)]
    BY DiscardTaskIs DEF Effect
  <1>2. Matches(DiscardTask(a, w), s.bytes)
    BY DiscardTaskIs, DiscardIs DEF Matches
  <1>3. s = [s EXCEPT !.failed = FALSE]
    BY DEF State
  <1> QED
    BY <1>1, <1>2, <1>3

-----------------------------------------------------------------------------
LEMMA InvInit == Init => IInv
  <1> SUFFICES ASSUME Init PROVE IInv
    OBVIOUS
  <1>1. DataInv
    BY ZeroType DEF Init, DataInv
  <1>2. PcInv
    BY DEF Init, PcInv
  <1>3. FrontOnBus
    BY DEF Init, FrontOnBus
  <1>4. Called = Now /\ Now = [bytes |-> mem, dest |-> dest, failed |-> FALSE]
    BY AfterNothing DEF Init, Called, Now
  <1>5. Called \in State
    BY <1>1, <1>4 DEF DataInv, State
  <1>6. LocalsInv
    <2>1. dest["u"] = Zero /\ dest["v"] = Zero
      BY DEF Init, Locals
    <2>2. Called.dest["u"] = Zero /\ Called.dest["v"] = Zero
      BY <1>4, <2>1
    <2> QED
      BY <2>2 DEF Init, LocalsInv
  <1> QED
    BY <1>1, <1>2, <1>3, <1>5, <1>6 DEF IInv

-----------------------------------------------------------------------------
(***************************************************************************)
(* What the test calls.                                                    *)
(***************************************************************************)
\* Calls in general, of one task.
LEMMA Submitted ==
  ASSUME IInv, pc \in {"free", "u"}, NEW t \in Queued, Submit(<<t>>)
  PROVE  /\ ongoing' \in Seq(Queued) /\ ongoing' # <<>>
         /\ ongoing' = ongoing \o <<t>>
         /\ req' = Request(Head(ongoing'))
  <1>1. /\ ongoing \in Seq(Queued)
        /\ req = IF ongoing = <<>> THEN NoRequest ELSE Request(Head(ongoing))
    BY DEF IInv, DataInv, FrontOnBus
  <1>2. ongoing' = ongoing \o <<t>> /\ req' = IF busy THEN req ELSE Request(t)
    BY DEF Submit
  <1>3. CASE ongoing = <<>>
    <2>1. ~busy
      BY <1>1, <1>3, NoRequestType DEF busy
    <2>2. ongoing' = <<t>>
      BY <1>2, <1>3
    <2>3. <<t>> \in Seq(Queued) /\ <<t>> # <<>> /\ Head(<<t>>) = t
      OBVIOUS
    <2> QED
      BY <1>2, <2>1, <2>2, <2>3
  <1>4. CASE ongoing # <<>>
    <2>1. Head(ongoing) \in Queued
      BY <1>1, <1>4
    <2>2. busy
      BY <1>1, <1>4, <2>1, RequestType DEF busy
    <2>3. ongoing' \in Seq(Queued) /\ ongoing' # <<>> /\ Head(ongoing') = Head(ongoing)
      BY <1>1, <1>2, <1>4
    <2> QED
      BY <1>1, <1>2, <1>4, <2>2, <2>3
  <1> QED
    BY <1>3, <1>4

LEMMA CallStep ==
  ASSUME IInv, NEW t \in Queued, Call(t)
  PROVE  /\ DataInv' /\ PcInv' /\ FrontOnBus'
         /\ Called' = Effect(Called, t)
         /\ pc = "free" /\ pc' = "free"
  <1>1. pipe /\ pc = "free" /\ Submit(<<t>>) /\ UNCHANGED <<mem, dest, pipe, pc, arg>>
    BY DEF Call
  <1>2. /\ ongoing' \in Seq(Queued) /\ ongoing' # <<>>
        /\ ongoing' = ongoing \o <<t>>
        /\ req' = Request(Head(ongoing'))
    BY <1>1, Submitted
  <1>3. DataInv'
    BY <1>1, <1>2 DEF IInv, DataInv
  <1>4. PcInv'
    BY <1>1 DEF IInv, PcInv
  <1>5. FrontOnBus'
    BY <1>1, <1>2 DEF FrontOnBus
  <1>6. Now' = Now
    BY <1>1 DEF Now
  <1>7. Called = After(Now, ongoing) /\ Called' = After(Now, ongoing \o <<t>>)
    BY <1>1, <1>2, <1>6 DEF Called
  <1>8. Called' = Effect(Called, t)
    <2>1. ongoing \in Seq(Queued)
      BY DEF IInv, DataInv
    <2> QED
      BY <1>7, <2>1, AfterAppend
  <1> QED
    BY <1>1, <1>3, <1>4, <1>5, <1>8

LEMMA SwapStep ==
  ASSUME IInv, NEW x \in Lane, NEW y \in Lane, NEW w \in Sizes,
         x % Width(w) = 0, y % Width(w) = 0, Swap(x, y, w)
  PROVE  /\ DataInv' /\ PcInv' /\ FrontOnBus'
         /\ Called' = Effect(Called, LoadTask(x, w, "u"))
         /\ pc = "free" /\ pc' = "u" /\ arg' = <<x, y, w>>
  <1> DEFINE t == LoadTask(x, w, "u")
  <1>0. t \in Queued
    BY LoadTaskIs DEF Locals
  <1> HIDE DEF t
  <1>1. pipe /\ pc = "free" /\ pc' = "u" /\ arg' = <<x, y, w>> /\ Submit(<<t>>)
        /\ UNCHANGED <<mem, dest, pipe>>
    BY DEF Swap, t
  <1>2. /\ ongoing' \in Seq(Queued) /\ ongoing' # <<>>
        /\ ongoing' = ongoing \o <<t>>
        /\ req' = Request(Head(ongoing'))
    BY <1>0, <1>1, Submitted
  <1>3. DataInv'
    BY <1>1, <1>2 DEF IInv, DataInv
  <1>4. PcInv'
    <2>1. arg' \in Lane \X Lane \X Sizes /\ arg'[1] = x /\ arg'[2] = y /\ arg'[3] = w
      BY <1>1
    <2> QED
      BY <1>1, <2>1 DEF IInv, PcInv
  <1>5. FrontOnBus'
    BY <1>1, <1>2 DEF FrontOnBus
  <1>6. Now' = Now
    BY <1>1 DEF Now
  <1>7. Called = After(Now, ongoing) /\ Called' = After(Now, ongoing \o <<t>>)
    BY <1>1, <1>2, <1>6 DEF Called
  <1>8. Called' = Effect(Called, t)
    <2>1. ongoing \in Seq(Queued)
      BY DEF IInv, DataInv
    <2> QED
      BY <1>0, <1>7, <2>1, AfterAppend
  <1> QED
    BY <1>1, <1>3, <1>4, <1>5, <1>8 DEF t

LEMMA OpenStep ==
  ASSUME IInv, Open
  PROVE  DataInv' /\ PcInv' /\ FrontOnBus' /\ Called' = Called /\ pc' = pc /\ pc = "free"
  <1>1. ~busy
    <2>1. pc = "free" /\ ongoing = <<>>
      BY DEF Open, IInv, FrontOnBus
    <2>2. req = NoRequest
      BY <2>1 DEF IInv, FrontOnBus
    <2> QED
      BY <2>2, NoRequestType DEF busy
  <1>2. ~pipe /\ pc = "free" /\ pipe' = TRUE /\ UNCHANGED <<pc, mem, req, ongoing, dest, arg>>
    BY <1>1 DEF Open
  <1>3. DataInv' /\ PcInv'
    BY <1>2 DEF IInv, DataInv, PcInv
  <1>4. FrontOnBus'
    BY <1>2 DEF IInv, FrontOnBus
  <1>5. Now' = Now
    BY <1>2 DEF Now
  <1> QED
    BY <1>2, <1>3, <1>4, <1>5 DEF Called

LEMMA FenceStep ==
  ASSUME IInv, Fence
  PROVE  /\ DataInv' /\ PcInv' /\ FrontOnBus' /\ Called' = Called
         /\ pc = "free" /\ pc' \in {"fence", "close"}
  <1>1. pipe /\ pc = "free" /\ pc' \in {"fence", "close"}
        /\ UNCHANGED <<mem, req, ongoing, dest, pipe, arg>>
    BY DEF Fence
  <1>2. DataInv' /\ PcInv'
    BY <1>1 DEF IInv, DataInv, PcInv
  <1>3. FrontOnBus'
    BY <1>1 DEF IInv, FrontOnBus
  <1>4. Now' = Now
    BY <1>1 DEF Now
  <1> QED
    BY <1>1, <1>2, <1>3, <1>4 DEF Called

\* A load or store without a pipeline takes effect, as the test sees it, at once.
LEMMA IssueStep ==
  ASSUME IInv, NEW t \in Queued, t.dest \notin Locals, Issue(t)
  PROVE  /\ DataInv' /\ PcInv' /\ FrontOnBus'
         /\ Called = [bytes |-> mem, dest |-> dest, failed |-> FALSE]
         /\ Called' = [bytes |-> Stored(mem, t.strobe, t.data), dest |-> Loaded(t, mem),
                       failed |-> FALSE]
         /\ pc = "free" /\ pc' = "await"
  <1>1. ~pipe /\ pc = "free" /\ pc' = "await" /\ arg' = <<t>> /\ req' = Request(t)
        /\ UNCHANGED <<mem, ongoing, dest, pipe>>
    BY DEF Issue
  <1>2. ongoing = <<>>
    BY <1>1 DEF IInv, FrontOnBus
  <1>3. DataInv' /\ PcInv'
    BY <1>1 DEF IInv, DataInv, PcInv
  <1>4. arg'[1] = t
    BY <1>1
  <1>5. FrontOnBus'
    BY <1>1, <1>2, <1>4 DEF IInv, FrontOnBus
  <1>6. Called = [bytes |-> mem, dest |-> dest, failed |-> FALSE]
    BY <1>1, <1>2, AfterNothing DEF Called, Now
  <1>7. Called' = [bytes |-> Stored(mem, t.strobe, t.data), dest |-> Loaded(t, mem),
                   failed |-> FALSE]
    <2>1. req'.strobe = t.strobe /\ req'.data = t.data
      BY <1>1, RequestType
    <2>2. Now' = [bytes |-> mem, dest |-> dest, failed |-> FALSE]
      BY <1>1 DEF Now
    <2>3. Loaded(arg[1], mem)' = Loaded(t, mem)
      BY <1>1, <1>4 DEF Loaded
    <2>4. Called' = [Now' EXCEPT !.bytes = Stored(mem, t.strobe, t.data),
                                 !.dest = Loaded(t, mem)]
      BY <1>1, <2>1, <2>3 DEF Called
    <2> QED
      BY <2>2, <2>4
  <1> QED
    BY <1>1, <1>3, <1>5, <1>6, <1>7

-----------------------------------------------------------------------------
(***************************************************************************)
(* What the clock brings.                                                  *)
(***************************************************************************)
\* The front task takes its answer: it happens, and nothing else changes in
\* what will have happened.
LEMMA TickStep ==
  ASSUME IInv, NEW data_ok \in BOOLEAN, Tick(data_ok)
  PROVE  /\ DataInv' /\ PcInv' /\ FrontOnBus' /\ Called' = Called
         /\ pc' \in {pc, "failed"} /\ arg' = arg
  <1>1. /\ pipe /\ pc \in {"free", "fence", "close", "u", "v"}
        /\ mem \in Words /\ ongoing \in Seq(Queued) /\ dest \in [Dest \cup Locals -> Words]
        /\ req = IF ongoing = <<>> THEN NoRequest ELSE Request(Head(ongoing))
    BY DEF IInv, DataInv, PcInv, FrontOnBus, Tick
  <1>2. UNCHANGED <<pipe, arg>>
    BY DEF Tick
  <1>3. CASE data_ok /\ busy
    <2>1. ongoing # <<>>
      BY <1>1, <1>3, NoRequestType DEF busy
    <2> DEFINE t == Head(ongoing)
    <2>2. t \in Queued /\ Tail(ongoing) \in Seq(Queued)
      BY <1>1, <2>1
    <2>3. req.strobe = t.strobe /\ req.data = t.data
      BY <1>1, <2>1, <2>2, RequestType
    <2>4. /\ mem' = Stored(mem, t.strobe, t.data)
          /\ ongoing' = Tail(ongoing)
          /\ dest' = IF t.dest = Null THEN dest
                     ELSE [dest EXCEPT ![t.dest] = applyTo(t.load_op, mem, @)]
          /\ pc' = IF t.dest = Null /\ is_load(t) /\ ~Matches(t, mem) THEN "failed" ELSE pc
          /\ req' = IF ongoing' = <<>> THEN NoRequest ELSE Request(Head(ongoing'))
      BY <1>3, <2>1, <2>3 DEF Tick, Taken, Reissue
    <2> HIDE DEF t
    <2>5. t.data \in Words /\ t.load_op \in Ops /\ t.dest \in Dest \cup Locals \cup {Null}
          /\ (~is_load(t) => t.dest = Null)
      BY <2>2 DEF Queued, Task
    <2>6. Now = [bytes |-> mem, dest |-> dest, failed |-> FALSE]
      BY <1>1 DEF Now
    <2>7. Now' = Effect(Now, t)
      <3>1. CASE ~is_load(t)
        <4>1. dest' = dest /\ pc' = pc
          BY <2>4, <2>5, <3>1
        <4>2. Now' = [bytes |-> Stored(mem, t.strobe, t.data), dest |-> dest, failed |-> FALSE]
          BY <1>1, <2>4, <4>1 DEF Now
        <4>3. Effect(Now, t) = [Now EXCEPT !.bytes = Stored(mem, t.strobe, t.data)]
          BY <2>6, <3>1 DEF Effect
        <4> QED
          BY <2>6, <4>2, <4>3
      <3>2. CASE is_load(t)
        <4>1. mem' = mem
          BY <1>1, <2>4, <3>2, StoredNone DEF is_load
        <4>2. CASE t.dest # Null
          <5>1. pc' = pc /\ dest' = [dest EXCEPT ![t.dest] = applyTo(t.load_op, mem, dest[t.dest])]
            BY <2>4, <4>2
          <5>2. Now' = [bytes |-> mem, failed |-> FALSE,
                        dest |-> [dest EXCEPT ![t.dest] = applyTo(t.load_op, mem, dest[t.dest])]]
            BY <1>1, <4>1, <5>1 DEF Now
          <5>3. Effect(Now, t) = [Now EXCEPT !.dest =
                  [Now.dest EXCEPT ![t.dest] = applyTo(t.load_op, Now.bytes, Now.dest[t.dest])]]
            BY <2>6, <3>2, <4>2 DEF Effect
          <5> QED
            BY <2>6, <5>2, <5>3
        <4>3. CASE t.dest = Null
          <5>1. dest' = dest /\ (pc' = "failed" <=> ~Matches(t, mem))
            BY <1>1, <2>4, <3>2, <4>3
          <5>2. PICK m \in BOOLEAN : m <=> ~Matches(t, mem)
            OBVIOUS
          <5>3. Now' = [bytes |-> mem, dest |-> dest, failed |-> m]
            BY <4>1, <5>1, <5>2 DEF Now
          <5>4. Effect(Now, t) = [Now EXCEPT !.failed = ~Matches(t, mem)]
            BY <2>6, <3>2, <4>3 DEF Effect
          <5> QED
            BY <2>6, <5>2, <5>3, <5>4
        <4> QED
          BY <4>2, <4>3
      <3> QED
        BY <3>1, <3>2
    <2>8. Called' = Called
      <3>1. Called = After(Now, ongoing)
        BY <1>1 DEF Called
      <3>2. Called' = After(Effect(Now, t), Tail(ongoing))
        <4>1. pc' # "await"
          BY <1>1, <2>4
        <4> QED
          BY <2>4, <2>7, <4>1 DEF Called
      <3> QED
        BY <1>1, <2>1, <3>1, <3>2, AfterHead DEF t
    <2>9. DataInv'
      <3>1. mem' \in Words
        BY <1>1, <2>4, <2>5, StoredType
      <3>2. dest' \in [Dest \cup Locals -> Words]
        <4>1. CASE t.dest = Null
          BY <1>1, <2>4, <4>1
        <4>2. CASE t.dest # Null
          <5>1. applyTo(t.load_op, mem, dest[t.dest]) \in Words
            BY <1>1, <2>5, <4>2, ApplyType
          <5> QED
            BY <1>1, <2>4, <4>2, <5>1
        <4> QED
          BY <4>1, <4>2
      <3> QED
        BY <2>2, <2>4, <3>1, <3>2 DEF DataInv
    <2>10. pc' \in {pc, "failed"}
      BY <2>4
    <2>11. PcInv'
      BY <1>1, <1>2, <2>10 DEF IInv, PcInv
    <2>12. FrontOnBus'
      BY <1>1, <1>2, <2>4, <2>10 DEF FrontOnBus
    <2> QED
      BY <1>2, <2>8, <2>9, <2>10, <2>11, <2>12
  <1>4. CASE ~(data_ok /\ busy)
    <2>1. UNCHANGED <<mem, ongoing, dest, pc>>
          /\ req' = IF ongoing' = <<>> THEN NoRequest ELSE Request(Head(ongoing'))
      BY <1>4 DEF Tick, Reissue
    <2>2. Now' = Now
      BY <2>1 DEF Now
    <2>3. Called' = Called
      BY <1>1, <2>1, <2>2 DEF Called
    <2>4. DataInv' /\ PcInv'
      BY <1>2, <2>1 DEF IInv, DataInv, PcInv
    <2>5. FrontOnBus'
      BY <1>1, <1>2, <2>1 DEF FrontOnBus
    <2> QED
      BY <1>2, <2>1, <2>3, <2>4, <2>5
  <1> QED
    BY <1>3, <1>4

LEMMA AwaitStep ==
  ASSUME IInv, NEW data_ok \in BOOLEAN, Await(data_ok)
  PROVE  /\ DataInv' /\ PcInv' /\ FrontOnBus' /\ Called' = Called
         /\ pc = "await" /\ pc' \in {"await", "free"}
  <1>1. PICK t \in Queued : t.dest \notin Locals /\ arg = <<t>>
    BY DEF IInv, PcInv, Await
  <1>2. /\ pc = "await" /\ ~pipe /\ ongoing = <<>> /\ arg[1] = t /\ req = Request(t)
        /\ mem \in Words /\ dest \in [Dest \cup Locals -> Words]
        /\ UNCHANGED <<ongoing, pipe>>
    BY <1>1 DEF IInv, DataInv, PcInv, FrontOnBus, Await
  <1>3. CASE data_ok
    <2>1. /\ dest' = Loaded(t, mem)
          /\ mem' = Stored(mem, t.strobe, t.data)
          /\ req' = NoRequest /\ pc' = "free" /\ arg' = <<>>
      BY <1>2, <1>3, RequestType DEF Await
    <2>2. Called = [Now EXCEPT !.bytes = Stored(mem, t.strobe, t.data), !.dest = Loaded(t, mem)]
      BY <1>2, RequestType DEF Called
    <2>3. Now = [bytes |-> mem, dest |-> dest, failed |-> FALSE]
      BY <1>2 DEF Now
    <2>4. Now' = [bytes |-> Stored(mem, t.strobe, t.data), dest |-> Loaded(t, mem),
                  failed |-> FALSE]
      BY <2>1 DEF Now
    <2>5. Called' = Now'
      BY <1>2, <2>1, AfterNothing DEF Called
    <2>6. t.data \in Words /\ t.load_op \in Ops /\ t.dest \in Dest \cup Locals \cup {Null}
      BY DEF Queued, Task
    <2>7. DataInv'
      <3>1. mem' \in Words
        BY <1>2, <2>1, <2>6, StoredType
      <3>2. dest' \in [Dest \cup Locals -> Words]
        <4>1. applyTo(t.load_op, mem, Zero) \in Words
          BY <1>2, <2>6, ZeroType, ApplyType
        <4> QED
          BY <1>2, <2>1, <2>6, <4>1 DEF Loaded
      <3> QED
        BY <1>2, <3>1, <3>2 DEF DataInv
    <2>8. PcInv'
      BY <1>2, <2>1 DEF IInv, PcInv
    <2>9. FrontOnBus'
      BY <1>2, <2>1 DEF FrontOnBus
    <2> QED
      BY <1>2, <2>1, <2>2, <2>3, <2>4, <2>5, <2>7, <2>8, <2>9
  <1>4. CASE ~data_ok
    <2>1. UNCHANGED <<dest, mem, req, pc, arg>>
      BY <1>4 DEF Await
    <2>2. DataInv' /\ PcInv'
      BY <1>2, <2>1 DEF IInv, DataInv, PcInv
    <2>3. FrontOnBus'
      BY <1>2, <2>1 DEF IInv, FrontOnBus
    <2>4. Called' = Called
      BY <1>2, <2>1 DEF Called, Now, Loaded
    <2> QED
      BY <1>2, <2>1, <2>2, <2>3, <2>4
  <1> QED
    BY <1>3, <1>4

-----------------------------------------------------------------------------
(***************************************************************************)
(* The end of a fence.                                                     *)
(***************************************************************************)
LEMMA FenceDoneIs ==
  ASSUME IInv, FenceDone
  PROVE  /\ pc \in {"fence", "close", "u", "v"} /\ pipe /\ ongoing = <<>>
         /\ req = NoRequest
         /\ Called = [bytes |-> mem, dest |-> dest, failed |-> FALSE]
         /\ mem' = mem
  <1>1. pc \in {"fence", "close", "u", "v"} /\ ongoing = <<>> /\ mem' = mem
    BY DEF FenceDone
  <1>2. pipe /\ req = NoRequest
    BY <1>1 DEF IInv, PcInv, FrontOnBus
  <1>3. Called = [bytes |-> mem, dest |-> dest, failed |-> FALSE]
    BY <1>1, AfterNothing DEF Called, Now
  <1> QED
    BY <1>1, <1>2, <1>3

LEMMA FencedStep ==
  ASSUME IInv, FenceDone, pc \in {"fence", "close"}
  PROVE  DataInv' /\ PcInv' /\ FrontOnBus' /\ Called' = Called /\ pc' = "free"
  <1>1. /\ ongoing = <<>> /\ req = NoRequest /\ mem' = mem
        /\ Called = [bytes |-> mem, dest |-> dest, failed |-> FALSE]
    BY FenceDoneIs
  <1>2. dest["u"] = Zero /\ dest["v"] = Zero
    <2>1. ~Called.failed /\ Called.dest = dest
      BY <1>1
    <2> QED
      BY <2>1 DEF IInv, LocalsInv
  <1>3. dest \in [Dest \cup Locals -> Words] /\ mem \in Words
    BY DEF IInv, DataInv
  <1>4. dest' = dest
    <2>1. dest' = [dest EXCEPT !["u"] = Zero, !["v"] = Zero]
      BY DEF FenceDone
    <2> QED
      BY <1>2, <1>3, <2>1
  <1>5. ongoing' = <<>> /\ req' = NoRequest /\ pc' = "free" /\ pipe' \in BOOLEAN
    BY <1>1 DEF FenceDone
  <1>6. DataInv'
    BY <1>1, <1>3, <1>4, <1>5 DEF DataInv
  <1>7. PcInv'
    BY <1>5 DEF PcInv
  <1>8. FrontOnBus'
    BY <1>5 DEF FrontOnBus
  <1>9. Called' = Called
    <2>1. Now' = [bytes |-> mem, dest |-> dest, failed |-> FALSE]
      BY <1>1, <1>4, <1>5 DEF Now
    <2>2. Called' = Now'
      BY <1>5, AfterNothing DEF Called
    <2> QED
      BY <1>1, <2>1, <2>2
  <1> QED
    BY <1>5, <1>6, <1>7, <1>8, <1>9

\* swap has one value and loads the other.
LEMMA GotOneStep ==
  ASSUME IInv, FenceDone, pc = "u"
  PROVE  /\ DataInv' /\ PcInv' /\ FrontOnBus'
         /\ Called' = Effect(Called, LoadTask(arg[2], arg[3], "v"))
         /\ pc' = "v" /\ arg' = arg
  <1>1. /\ pipe /\ ongoing = <<>> /\ mem' = mem
        /\ Called = [bytes |-> mem, dest |-> dest, failed |-> FALSE]
    BY FenceDoneIs
  <1> DEFINE t == LoadTask(arg[2], arg[3], "v")
  <1>2. t \in Queued
    <2>1. arg[2] \in Lane /\ arg[3] \in Sizes /\ arg[2] % Width(arg[3]) = 0
      BY DEF IInv, PcInv
    <2> QED
      BY <2>1, LoadTaskIs DEF Locals
  <1>3. Submit(<<t>>) /\ pc' = "v" /\ arg' = arg /\ dest' = dest /\ pipe' = TRUE
    BY DEF FenceDone
  <1> HIDE DEF t
  <1>4. /\ ongoing' \in Seq(Queued) /\ ongoing' # <<>>
        /\ ongoing' = ongoing \o <<t>>
        /\ req' = Request(Head(ongoing'))
    BY <1>2, <1>3, Submitted
  <1>5. DataInv'
    BY <1>1, <1>3, <1>4 DEF IInv, DataInv
  <1>6. PcInv'
    BY <1>3 DEF IInv, PcInv
  <1>7. FrontOnBus'
    BY <1>3, <1>4 DEF FrontOnBus
  <1>8. Called' = Effect(Called, t)
    <2>1. Now' = Called
      BY <1>1, <1>3 DEF Now
    <2>2. Called' = After(Called, ongoing \o <<t>>)
      BY <1>3, <1>4, <2>1 DEF Called
    <2>3. ongoing \in Seq(Queued)
      BY DEF IInv, DataInv
    <2> QED
      <3>1. After(Called, ongoing \o <<t>>) = Effect(After(Called, ongoing), t)
        BY <1>2, <2>3, AfterAppend
      <3>2. After(Called, ongoing) = Called
        BY <1>1, AfterNothing
      <3> QED
        BY <2>2, <3>1, <3>2
  <1> QED
    BY <1>3, <1>5, <1>6, <1>7, <1>8 DEF t

\* swap has both values and stores them crosswise.
LEMMA GotBothStep ==
  ASSUME IInv, FenceDone, pc = "v"
  PROVE  /\ DataInv' /\ PcInv' /\ FrontOnBus' /\ pc' = "free"
         /\ Called = [bytes |-> mem, dest |-> dest, failed |-> FALSE]
         /\ Called' = Effect(Effect([bytes |-> mem, failed |-> FALSE,
                                     dest |-> [dest EXCEPT !["u"] = Zero, !["v"] = Zero]],
                                    StoreTask(arg[1], arg[3], dest["v"])),
                             StoreTask(arg[2], arg[3], dest["u"]))
  <1>1. /\ pipe /\ ongoing = <<>> /\ mem' = mem /\ req = NoRequest
        /\ Called = [bytes |-> mem, dest |-> dest, failed |-> FALSE]
    BY FenceDoneIs
  <1> DEFINE s == StoreTask(arg[1], arg[3], dest["v"])
             t == StoreTask(arg[2], arg[3], dest["u"])
  <1>2. s \in Queued /\ t \in Queued
    <2>1. /\ arg[1] \in Lane /\ arg[2] \in Lane /\ arg[3] \in Sizes
          /\ arg[1] % Width(arg[3]) = 0 /\ arg[2] % Width(arg[3]) = 0
      BY DEF IInv, PcInv
    <2>2. dest["u"] \in Words /\ dest["v"] \in Words
      BY DEF IInv, DataInv, Locals
    <2> QED
      BY <2>1, <2>2, StoreTaskIs
  <1>3. /\ Submit(<<s, t>>) /\ pc' = "free" /\ pipe' = TRUE
        /\ dest' = [dest EXCEPT !["u"] = Zero, !["v"] = Zero]
    BY DEF FenceDone
  <1> HIDE DEF s, t
  <1>4. ongoing' = <<s, t>> /\ req' = Request(s)
    <2>1. ~busy
      BY <1>1, NoRequestType DEF busy
    <2> QED
      BY <1>1, <1>3, <2>1 DEF Submit
  <1>5. dest' \in [Dest \cup Locals -> Words]
    BY <1>3, ZeroType DEF IInv, DataInv
  <1>6. DataInv'
    <2>1. <<s, t>> \in Seq(Queued)
      BY <1>2
    <2> QED
      BY <1>1, <1>4, <1>5, <2>1 DEF IInv, DataInv
  <1>7. PcInv'
    BY <1>3 DEF PcInv
  <1>8. FrontOnBus'
    <2>1. <<s, t>> # <<>> /\ Head(<<s, t>>) = s
      OBVIOUS
    <2> QED
      BY <1>3, <1>4, <2>1 DEF FrontOnBus
  <1>9. Called' = Effect(Effect(Now', s), t)
    <2>1. Called' = After(Now', <<s, t>>)
      BY <1>3, <1>4 DEF Called
    <2>2. PICK n : n = Now'
      OBVIOUS
    <2>3. After(n, <<s, t>>) = Effect(Effect(n, s), t)
      BY <1>2, AfterTwo
    <2> QED
      BY <2>1, <2>2, <2>3
  <1>10. Now' = [bytes |-> mem, failed |-> FALSE,
                 dest |-> [dest EXCEPT !["u"] = Zero, !["v"] = Zero]]
    BY <1>1, <1>3 DEF Now
  <1> QED
    BY <1>1, <1>3, <1>6, <1>7, <1>8, <1>9, <1>10 DEF s, t

-----------------------------------------------------------------------------
(***************************************************************************)
(* Every step preserves the invariant.                                     *)
(***************************************************************************)
\* The locals of swap are touched by its own tasks only.
LEMMA EffectLocals ==
  ASSUME NEW s \in State, NEW t \in Queued, t.dest \notin Locals
  PROVE  /\ Effect(s, t).dest["u"] = s.dest["u"] /\ Effect(s, t).dest["v"] = s.dest["v"]
         /\ s.failed => Effect(s, t).failed
  <1>1. /\ t.dest # "u" /\ t.dest # "v" /\ s.dest \in [Dest \cup Locals -> Words]
        /\ "u" \in Dest \cup Locals /\ "v" \in Dest \cup Locals
    BY DEF Locals, State
  <1>2. CASE s.failed
    BY <1>2 DEF Effect
  <1>3. CASE ~s.failed /\ ~is_load(t)
    <2>1. Effect(s, t) = [s EXCEPT !.bytes = Stored(s.bytes, t.strobe, t.data)]
      BY <1>3 DEF Effect
    <2> QED
      BY <1>3, <2>1 DEF State
  <1>4. CASE ~s.failed /\ is_load(t) /\ t.dest # Null
    <2>1. Effect(s, t) = [s EXCEPT !.dest =
            [s.dest EXCEPT ![t.dest] = applyTo(t.load_op, s.bytes, s.dest[t.dest])]]
      BY <1>4 DEF Effect
    <2>2. Effect(s, t).dest = [s.dest EXCEPT ![t.dest] =
                                 applyTo(t.load_op, s.bytes, s.dest[t.dest])]
      BY <2>1 DEF State
    <2> QED
      BY <1>1, <1>4, <2>2
  <1>5. CASE ~s.failed /\ is_load(t) /\ t.dest = Null
    <2>1. Effect(s, t) = [s EXCEPT !.failed = ~Matches(t, s.bytes)]
      BY <1>5 DEF Effect
    <2> QED
      BY <1>5, <2>1 DEF State
  <1> QED
    BY <1>2, <1>3, <1>4, <1>5

LEMMA CallInv ==
  ASSUME IInv, NEW t \in Queued, t.dest \notin Locals, Call(t)
  PROVE  IInv'
  <1>1. /\ DataInv' /\ PcInv' /\ FrontOnBus' /\ Called' = Effect(Called, t)
        /\ pc = "free" /\ pc' = "free"
    BY CallStep
  <1>2. Called \in State
    BY DEF IInv
  <1>3. Called' \in State
    BY <1>1, <1>2, EffectType
  <1>4. /\ Called'.dest["u"] = Called.dest["u"] /\ Called'.dest["v"] = Called.dest["v"]
        /\ Called.failed => Called'.failed
    BY <1>1, <1>2, EffectLocals
  <1>5. LocalsInv'
    BY <1>1, <1>4 DEF IInv, LocalsInv
  <1> QED
    BY <1>1, <1>3, <1>5 DEF IInv

LEMMA IssueInv ==
  ASSUME IInv, NEW t \in Queued, t.dest \notin Locals, Issue(t)
  PROVE  IInv'
  <1>1. /\ DataInv' /\ PcInv' /\ FrontOnBus'
        /\ Called = [bytes |-> mem, dest |-> dest, failed |-> FALSE]
        /\ Called' = [bytes |-> Stored(mem, t.strobe, t.data), dest |-> Loaded(t, mem),
                      failed |-> FALSE]
        /\ pc = "free" /\ pc' = "await"
    BY IssueStep
  <1>2. /\ mem \in Words /\ dest \in [Dest \cup Locals -> Words]
        /\ t.data \in Words /\ t.load_op \in Ops /\ t.dest \in Dest \cup Locals \cup {Null}
    BY DEF IInv, DataInv, Queued, Task
  <1>3. Stored(mem, t.strobe, t.data) \in Words
    BY <1>2, StoredType
  <1>4. applyTo(t.load_op, mem, Zero) \in Words
    BY <1>2, ZeroType, ApplyType
  <1>5. /\ Loaded(t, mem) \in [Dest \cup Locals -> Words]
        /\ Loaded(t, mem)["u"] = dest["u"] /\ Loaded(t, mem)["v"] = dest["v"]
    <2>1. t.dest # "u" /\ t.dest # "v"
      BY DEF Locals
    <2>2. "u" \in Dest \cup Locals /\ "v" \in Dest \cup Locals
      BY DEF Locals
    <2>3. CASE t.dest = Null
      BY <1>2, <2>3 DEF Loaded
    <2>4. CASE t.dest # Null
      <3>1. Loaded(t, mem) = [dest EXCEPT ![t.dest] = applyTo(t.load_op, mem, Zero)]
        BY <2>4 DEF Loaded
      <3> QED
        BY <1>2, <1>4, <2>1, <2>2, <2>4, <3>1
    <2> QED
      BY <2>3, <2>4
  <1>6. Called' \in State
    BY <1>1, <1>3, <1>5 DEF State
  <1>7. LocalsInv'
    <2>1. dest["u"] = Zero /\ dest["v"] = Zero
      <3>1. ~Called.failed /\ Called.dest = dest
        BY <1>1
      <3> QED
        BY <1>1, <3>1 DEF IInv, LocalsInv
    <2>2. Called'.dest["u"] = Zero /\ Called'.dest["v"] = Zero
      BY <1>1, <1>5, <2>1
    <2> QED
      BY <1>1, <2>2 DEF LocalsInv
  <1> QED
    BY <1>1, <1>6, <1>7 DEF IInv

\* Steps that the test does not see.
LEMMA HiddenInv ==
  ASSUME IInv, DataInv', PcInv', FrontOnBus', Called' = Called,
         \/ pc \in {"free", "fence", "close", "await"}
              /\ pc' \in {"free", "fence", "close", "await"}
         \/ pc' \in {pc, "failed"} /\ arg' = arg
  PROVE  IInv'
  <1>1. Called' \in State
    BY DEF IInv
  <1>2. LocalsInv'
    BY DEF IInv, LocalsInv
  <1> QED
    BY <1>1, <1>2 DEF IInv

\* What a load into a local leaves there.
LEMMA LoadLocal ==
  ASSUME NEW s \in State, ~s.failed, NEW a \in Lane, NEW w \in Sizes, a % Width(w) = 0,
         NEW d \in Locals, s.dest[d] = Zero
  PROVE  /\ Effect(s, LoadTask(a, w, d)) \in State
         /\ Effect(s, LoadTask(a, w, d)) = [s EXCEPT !.dest = [s.dest EXCEPT ![d] = Cut(s.bytes, a, w)]]
  <1>1. d \in Dest \cup Locals
    OBVIOUS
  <1>2. [l \in Lane |-> IF l < Width(w) THEN s.bytes[a + l] ELSE s.dest[d][l]]
          = Cut(s.bytes, a, w)
    BY DEF Cut, Zero
  <1>3. LoadTask(a, w, d) \in Queued
    BY LoadTaskIs
  <1> QED
    BY <1>1, <1>2, <1>3, LoadEffect, EffectType

LEMMA SwapInv ==
  ASSUME IInv, NEW x \in Lane, NEW y \in Lane, NEW w \in Sizes,
         x % Width(w) = 0, y % Width(w) = 0, Swap(x, y, w)
  PROVE  /\ IInv'
         /\ Called'.bytes = Called.bytes /\ Called'.failed = Called.failed
         /\ \A d \in Dest : Called'.dest[d] = Called.dest[d]
  <1>1. /\ DataInv' /\ PcInv' /\ FrontOnBus'
        /\ Called' = Effect(Called, LoadTask(x, w, "u"))
        /\ pc = "free" /\ pc' = "u" /\ arg' = <<x, y, w>>
    BY SwapStep
  <1>2. Called \in State /\ "u" \in Locals /\ "v" \in Locals /\ "u" \notin Dest
    BY DriverAssumption DEF IInv, Locals
  <1>3. CASE Called.failed
    <2>1. Called' = Called
      BY <1>1, <1>3, FailedEffect
    <2>2. LocalsInv'
      BY <1>3, <2>1 DEF LocalsInv
    <2> QED
      BY <1>1, <1>2, <2>1, <2>2 DEF IInv
  <1>4. CASE ~Called.failed
    <2>1. Called.dest["u"] = Zero /\ Called.dest["v"] = Zero
      BY <1>1, <1>4 DEF IInv, LocalsInv
    <2>2. /\ Called' \in State
          /\ Called' = [Called EXCEPT !.dest = [Called.dest EXCEPT !["u"] = Cut(Called.bytes, x, w)]]
      BY <1>1, <1>2, <1>4, <2>1, LoadLocal
    <2>3. PICK s : s = Called
      OBVIOUS
    <2>4. s \in State /\ Called' = [s EXCEPT !.dest = [s.dest EXCEPT !["u"] = Cut(s.bytes, x, w)]]
      BY <1>2, <2>2, <2>3
    <2>5. /\ Called'.bytes = s.bytes /\ Called'.failed = s.failed
          /\ Called'.dest = [s.dest EXCEPT !["u"] = Cut(s.bytes, x, w)]
      BY <2>4 DEF State
    <2>6. /\ Called'.dest["u"] = Cut(s.bytes, x, w) /\ Called'.dest["v"] = s.dest["v"]
          /\ \A d \in Dest : Called'.dest[d] = s.dest[d]
      BY <1>2, <2>4, <2>5 DEF State
    <2>7. arg'[1] = x /\ arg'[3] = w
      BY <1>1
    <2>8. LocalsInv'
      BY <1>1, <2>1, <2>3, <2>5, <2>6, <2>7 DEF LocalsInv
    <2> QED
      BY <1>1, <2>2, <2>3, <2>5, <2>6, <2>8 DEF IInv
  <1> QED
    BY <1>3, <1>4

LEMMA GotOneInv ==
  ASSUME IInv, FenceDone, pc = "u"
  PROVE  /\ IInv'
         /\ Called'.bytes = Called.bytes /\ Called'.failed = Called.failed
         /\ \A d \in Dest : Called'.dest[d] = Called.dest[d]
  <1> DEFINE y == arg[2]
             w == arg[3]
  <1>1. /\ DataInv' /\ PcInv' /\ FrontOnBus'
        /\ Called' = Effect(Called, LoadTask(y, w, "v"))
        /\ pc' = "v" /\ arg' = arg
    BY GotOneStep
  <1>2. Called \in State /\ "u" \in Locals /\ "v" \in Locals /\ "v" \notin Dest
    BY DriverAssumption DEF IInv, Locals
  <1>3. ~Called.failed
    BY FenceDoneIs
  <1>4. y \in Lane /\ w \in Sizes /\ y % Width(w) = 0
    BY DEF IInv, PcInv
  <1>5. Called.dest["u"] = Cut(Called.bytes, arg[1], w) /\ Called.dest["v"] = Zero
    BY <1>3 DEF IInv, LocalsInv
  <1> HIDE DEF y, w
  <1>6. /\ Called' \in State
        /\ Called' = [Called EXCEPT !.dest = [Called.dest EXCEPT !["v"] = Cut(Called.bytes, y, w)]]
    BY <1>1, <1>2, <1>3, <1>4, <1>5, LoadLocal
  <1>7. PICK s : s = Called
    OBVIOUS
  <1>8. s \in State /\ Called' = [s EXCEPT !.dest = [s.dest EXCEPT !["v"] = Cut(s.bytes, y, w)]]
    BY <1>2, <1>6, <1>7
  <1>9. /\ Called'.bytes = s.bytes /\ Called'.failed = s.failed
        /\ Called'.dest = [s.dest EXCEPT !["v"] = Cut(s.bytes, y, w)]
    BY <1>8 DEF State
  <1>10. /\ Called'.dest["v"] = Cut(s.bytes, y, w) /\ Called'.dest["u"] = s.dest["u"]
         /\ \A d \in Dest : Called'.dest[d] = s.dest[d]
    BY <1>2, <1>8, <1>9 DEF State
  <1>11. LocalsInv'
    BY <1>1, <1>5, <1>7, <1>9, <1>10 DEF LocalsInv, y, w
  <1> QED
    BY <1>1, <1>6, <1>7, <1>9, <1>10, <1>11 DEF IInv

\* Two cells of one width are one and the same or have no byte in common.
LEMMA Disjoint ==
  ASSUME NEW x \in Lane, NEW y \in Lane, NEW w \in Sizes,
         x % Width(w) = 0, y % Width(w) = 0,
         NEW l \in Lane, l - x \in 0 .. Width(w) - 1, l - y \in 0 .. Width(w) - 1
  PROVE  x = y
  <1> DEFINE W == Width(w)
  <1>1. W \in {1, 2, 4, 8} /\ x \in Nat /\ y \in Nat /\ l \in Nat
    BY Widths
  <1>2. x % W = 0 /\ y % W = 0 /\ l - x \in 0 .. W - 1 /\ l - y \in 0 .. W - 1
    OBVIOUS
  <1> HIDE DEF W
  <1>3. CASE W = 1
    BY <1>1, <1>2, <1>3
  <1>4. CASE W = 2
    BY <1>1, <1>2, <1>4
  <1>5. CASE W = 4
    BY <1>1, <1>2, <1>5
  <1>6. CASE W = 8
    BY <1>1, <1>2, <1>6
  <1> QED
    BY <1>1, <1>3, <1>4, <1>5, <1>6

Swapped(bytes, x, y, w) ==
  [l \in Lane |-> IF l - x \in 0 .. Width(w) - 1 THEN bytes[y + (l - x)]
                  ELSE IF l - y \in 0 .. Width(w) - 1 THEN bytes[x + (l - y)]
                  ELSE bytes[l]]

LEMMA Crosswise ==
  ASSUME NEW x \in Lane, NEW y \in Lane, NEW w \in Sizes,
         x % Width(w) = 0, y % Width(w) = 0, NEW b
  PROVE  [l \in Lane |->
            IF l - y \in 0 .. Width(w) - 1 THEN Cut(b, x, w)[l - y]
            ELSE [k \in Lane |-> IF k - x \in 0 .. Width(w) - 1 THEN Cut(b, y, w)[k - x]
                                 ELSE b[k]][l]]
           = Swapped(b, x, y, w)
  <1>1. Width(w) \in Nat /\ x \in Nat /\ y \in Nat
    BY Widths
  <1>2. ASSUME NEW a \in Lane, NEW z \in Lane, NEW l \in Lane, l - z \in 0 .. Width(w) - 1
        PROVE  Cut(b, a, w)[l - z] = b[a + (l - z)]
    <2> DEFINE L == 2 ^ LogLanes
               W == Width(w)
    <2>1. z \in Nat /\ l \in 0 .. L - 1 /\ W \in Nat /\ l - z \in 0 .. W - 1 /\ L \in Int
      BY <1>1, <1>2, Widths DEF Lane
    <2> HIDE DEF L, W
    <2>2. l - z \in 0 .. L - 1 /\ l - z < W
      BY <2>1
    <2>3. l - z \in Lane
      BY <2>2 DEF Lane, L
    <2> QED
      BY <2>2, <2>3 DEF Cut, W
  <1>3. ASSUME NEW l \in Lane
        PROVE  (IF l - y \in 0 .. Width(w) - 1 THEN Cut(b, x, w)[l - y]
                ELSE IF l - x \in 0 .. Width(w) - 1 THEN Cut(b, y, w)[l - x] ELSE b[l])
                 = IF l - x \in 0 .. Width(w) - 1 THEN b[y + (l - x)]
                   ELSE IF l - y \in 0 .. Width(w) - 1 THEN b[x + (l - y)]
                   ELSE b[l]
    <2>1. CASE l - y \in 0 .. Width(w) - 1 /\ l - x \in 0 .. Width(w) - 1
      <3>1. x = y
        BY <2>1, Disjoint
      <3> QED
        BY <1>2, <2>1, <3>1
    <2>2. CASE l - y \in 0 .. Width(w) - 1 /\ l - x \notin 0 .. Width(w) - 1
      BY <1>2, <2>2
    <2>3. CASE l - y \notin 0 .. Width(w) - 1 /\ l - x \in 0 .. Width(w) - 1
      BY <1>2, <2>3
    <2>4. CASE l - y \notin 0 .. Width(w) - 1 /\ l - x \notin 0 .. Width(w) - 1
      BY <2>4
    <2> QED
      BY <2>1, <2>2, <2>3, <2>4
  <1> QED
    BY <1>3 DEF Swapped

\* The stores of swap exchange the cells at once.
LEMMA GotBothInv ==
  ASSUME IInv, FenceDone, pc = "v"
  PROVE  /\ IInv'
         /\ ~Called.failed /\ Called'.failed = Called.failed
         /\ \A d \in Dest : Called'.dest[d] = Called.dest[d]
         /\ Called'.bytes = Swapped(Called.bytes, arg[1], arg[2], arg[3])
         /\ <<arg[1], arg[3]>> \in Places /\ <<arg[2], arg[3]>> \in Places
  <1> DEFINE x == arg[1]
             y == arg[2]
             w == arg[3]
             n == [bytes |-> mem, failed |-> FALSE,
                   dest |-> [dest EXCEPT !["u"] = Zero, !["v"] = Zero]]
             b == [k \in Lane |-> IF k - x \in 0 .. Width(w) - 1 THEN dest["v"][k - x]
                                  ELSE mem[k]]
             c == [l \in Lane |-> IF l - y \in 0 .. Width(w) - 1 THEN dest["u"][l - y]
                                  ELSE b[l]]
  <1>1. /\ DataInv' /\ PcInv' /\ FrontOnBus' /\ pc' = "free"
        /\ Called = [bytes |-> mem, dest |-> dest, failed |-> FALSE]
        /\ Called' = Effect(Effect(n, StoreTask(x, w, dest["v"])), StoreTask(y, w, dest["u"]))
    BY GotBothStep
  <1>2. /\ x \in Lane /\ y \in Lane /\ w \in Sizes
        /\ x % Width(w) = 0 /\ y % Width(w) = 0
    BY DEF IInv, PcInv
  <1>3. mem \in Words /\ dest \in [Dest \cup Locals -> Words]
    BY DEF IInv, DataInv
  <1>4. dest["u"] \in Words /\ dest["v"] \in Words /\ "u" \notin Dest /\ "v" \notin Dest
    BY <1>3, DriverAssumption DEF Locals
  <1>5. dest["u"] = Cut(mem, x, w) /\ dest["v"] = Cut(mem, y, w)
    <2>1. ~Called.failed /\ Called.dest = dest /\ Called.bytes = mem
      BY <1>1
    <2> QED
      BY <2>1 DEF IInv, LocalsInv
  <1>6. n \in State /\ ~n.failed
    BY <1>3, ZeroType DEF State
  <1>7. /\ Effect(n, StoreTask(x, w, dest["v"])) = [n EXCEPT !.bytes = b]
        /\ Effect(n, StoreTask(x, w, dest["v"])) \in State
    <2>1. n.bytes = mem
      OBVIOUS
    <2> HIDE DEF n, x, y, w
    <2>2. StoreTask(x, w, dest["v"]) \in Queued
      BY <1>2, <1>4, StoreTaskIs
    <2> QED
      BY <1>2, <1>4, <1>6, <2>1, <2>2, StoreEffect, EffectType
  <1>8. PICK m : m = [n EXCEPT !.bytes = b]
    OBVIOUS
  <1>9. m = [bytes |-> b, failed |-> FALSE, dest |-> [dest EXCEPT !["u"] = Zero, !["v"] = Zero]]
    BY <1>8
  <1>10. m \in State /\ ~m.failed /\ m.bytes = b
    BY <1>7, <1>8, <1>9
  <1>11. Called' = [m EXCEPT !.bytes = c] /\ Called' \in State
    <2> HIDE DEF n, x, y, w, b
    <2>1. StoreTask(y, w, dest["u"]) \in Queued
      BY <1>2, <1>4, StoreTaskIs
    <2>2. Called' = Effect(m, StoreTask(y, w, dest["u"]))
      BY <1>1, <1>7, <1>8
    <2> QED
      BY <1>2, <1>4, <1>10, <2>1, <2>2, StoreEffect, EffectType
  <1>12. c = Swapped(mem, x, y, w)
    <2> HIDE DEF x, y, w
    <2> QED
      BY <1>2, <1>5, Crosswise
  <1>13. /\ Called'.bytes = c /\ Called'.failed = FALSE
         /\ Called'.dest = [dest EXCEPT !["u"] = Zero, !["v"] = Zero]
    <2> HIDE DEF b, c
    <2> QED
      BY <1>9, <1>11
  <1>14. /\ Called'.dest["u"] = Zero /\ Called'.dest["v"] = Zero
         /\ \A d \in Dest : Called'.dest[d] = dest[d]
    BY <1>3, <1>4, <1>13 DEF Locals
  <1>15. LocalsInv'
    BY <1>1, <1>14 DEF LocalsInv
  <1>16. <<x, w>> \in Places /\ <<y, w>> \in Places
    BY <1>2 DEF Places
  <1> QED
    BY <1>1, <1>11, <1>12, <1>13, <1>14, <1>15, <1>16 DEF IInv

\* The tasks of a test.
LEMMA TasksAre ==
  ASSUME NEW t \in Tasks
  PROVE  /\ t \in Queued /\ t.dest \notin Locals
         /\ \E p \in Places : \/ \E d \in Dest : t = LoadTask(p[1], p[2], d)
                              \/ \E v \in Words : t = StoreTask(p[1], p[2], v)
  <1>1. \A p \in Places : p[1] \in Lane /\ p[2] \in Sizes /\ p[1] % Width(p[2]) = 0
    BY DEF Places
  <1>2. "null" \notin Locals /\ Dest \cap Locals = {}
    BY DriverAssumption DEF Locals
  <1>3. CASE \E p \in Places : \E d \in Dest : t = LoadTask(p[1], p[2], d)
    <2>1. PICK p \in Places : \E d \in Dest : t = LoadTask(p[1], p[2], d)
      BY <1>3
    <2>2. PICK d \in Dest : t = LoadTask(p[1], p[2], d)
      BY <2>1
    <2>3. t \in Queued /\ t.dest = d
      BY <1>1, <2>2, LoadTaskIs
    <2> QED
      BY <1>2, <2>2, <2>3
  <1>4. CASE \E p \in Places : \E v \in Words : t = StoreTask(p[1], p[2], v)
    <2>1. PICK p \in Places : \E v \in Words : t = StoreTask(p[1], p[2], v)
      BY <1>4
    <2>2. PICK v \in Words : t = StoreTask(p[1], p[2], v)
      BY <2>1
    <2>3. t \in Queued /\ t.dest = Null
      BY <1>1, <2>2, StoreTaskIs
    <2> QED
      BY <1>2, <2>2, <2>3 DEF Null
  <1>5. CASE t \in UNION {{LoadTask(p[1], p[2], d) : d \in Dest} : p \in Places}
    <2>1. PICK p \in Places : t \in {LoadTask(p[1], p[2], d) : d \in Dest}
      BY <1>5
    <2>2. \E d \in Dest : t = LoadTask(p[1], p[2], d)
      BY <2>1
    <2> QED
      BY <1>3, <2>2
  <1>6. CASE t \in {StoreTask(p[1], p[2], v) : p \in Places, v \in Words}
    <2>1. \E p \in Places : \E v \in Words : t = StoreTask(p[1], p[2], v)
      BY <1>6
    <2> QED
      BY <1>4, <2>1
  <1> QED
    BY <1>5, <1>6 DEF Tasks

-----------------------------------------------------------------------------
(***************************************************************************)
(* The steps of the drivers.                                               *)
(***************************************************************************)

\* What the calls of a test hand to the drivers.
LEMMA PlacesAre ==
  ASSUME NEW p \in Places
  PROVE  p[1] \in Lane /\ p[2] \in Sizes /\ p[1] % Width(p[2]) = 0
BY DEF Places

LEMMA NullIsNoLocal == Null \notin Locals
BY DEF Null, Locals

LEMMA InvStep == IInv /\ [Next]_vars => IInv'
  <1> SUFFICES ASSUME IInv, [Next]_vars
               PROVE  IInv'
    OBVIOUS
  <1>1. ASSUME NEW t \in Tasks, Call(t) \/ Issue(t)
        PROVE  IInv'
    BY <1>1, TasksAre, CallInv, IssueInv
  <1>2. ASSUME NEW p \in Places, NEW v \in Words, Call(ExpectTask(p[1], p[2], v))
        PROVE  IInv'
    <2> DEFINE t == ExpectTask(p[1], p[2], v)
    <2>1. t \in Queued /\ t.dest \notin Locals
      BY PlacesAre, ExpectTaskIs, NullIsNoLocal
    <2>2. Call(t)
      BY <1>2
    <2> HIDE DEF t
    <2> QED
      BY <2>1, <2>2, CallInv
  <1>3. ASSUME NEW p \in Places, Call(DiscardTask(p[1], p[2]))
        PROVE  IInv'
    <2> DEFINE t == DiscardTask(p[1], p[2])
    <2>1. t \in Queued /\ t.dest \notin Locals
      BY PlacesAre, DiscardTaskIs, NullIsNoLocal
    <2>2. Call(t)
      BY <1>3
    <2> HIDE DEF t
    <2> QED
      BY <2>1, <2>2, CallInv
  <1>4. ASSUME NEW p \in Places, NEW q \in Places, p[2] = q[2], Swap(p[1], q[1], p[2])
        PROVE  IInv'
    <2>1. q[1] % Width(p[2]) = 0
      BY <1>4, PlacesAre
    <2> QED
      BY <1>4, <2>1, PlacesAre, SwapInv
  <1>5. CASE Open
    BY <1>5, OpenStep, HiddenInv
  <1>6. CASE Fence
    BY <1>6, FenceStep, HiddenInv
  <1>7. CASE FenceDone
    <2>1. CASE pc \in {"fence", "close"}
      BY <1>7, <2>1, FencedStep, HiddenInv
    <2> QED
      BY <1>7, <2>1, FenceDoneIs, GotOneInv, GotBothInv
  <1>8. ASSUME NEW data_ok \in BOOLEAN, Tick(data_ok)
        PROVE  IInv'
    BY <1>8, TickStep, HiddenInv
  <1>9. ASSUME NEW data_ok \in BOOLEAN, Await(data_ok)
        PROVE  IInv'
    BY <1>9, AwaitStep, HiddenInv
  <1>10. CASE UNCHANGED vars
    <2>1. Called' = Called
      BY <1>10 DEF vars, Called, Now, Loaded
    <2>2. DataInv' /\ PcInv' /\ FrontOnBus' /\ pc' = pc /\ arg' = arg
      BY <1>10 DEF vars, IInv, DataInv, PcInv, FrontOnBus
    <2> QED
      BY <2>1, <2>2, HiddenInv
  <1> QED
    BY <1>1, <1>2, <1>3, <1>4, <1>5, <1>6, <1>7, <1>8, <1>9, <1>10 DEF Next

LEMMA Invariance == Spec => []IInv
BY InvInit, InvStep, PTL DEF Spec

\* The request of a test that has ended is the one of its last cycle.
ReqInv == req \in [valid : BOOLEAN, addr : Lane, size : Sizes,
                   strobe : [Lane -> BOOLEAN], data : Words]

LEMMA ReqStep ==
  ASSUME IInv, IInv', [Next]_vars, ReqInv
  PROVE  ReqInv'
  <1> DEFINE R == [valid : BOOLEAN, addr : Lane, size : Sizes,
                   strobe : [Lane -> BOOLEAN], data : Words]
  <1>1. NoRequest \in R /\ \A t \in Queued : Request(t) \in R
    BY NoRequestType, RequestType
  <1>2. ongoing' \in Seq(Queued)
    BY DEF IInv, DataInv
  <1>3. /\ pc' \in {"free", "await", "fence", "close", "u", "v", "failed"}
        /\ pc' = "await" => \E t \in Queued : arg' = <<t>>
    BY DEF IInv, PcInv
  <1> HIDE DEF R
  <1>4. (req' = IF ongoing' = <<>> THEN NoRequest ELSE Request(Head(ongoing'))) => req' \in R
    <2>1. ongoing' # <<>> => Head(ongoing') \in Queued
      BY <1>2
    <2> QED
      BY <1>1, <2>1
  <1>5. CASE pc' \notin {"failed", "await"}
    BY <1>3, <1>4, <1>5 DEF IInv, FrontOnBus, ReqInv, R
  <1>6. CASE pc' = "await"
    <2>1. PICK t \in Queued : arg' = <<t>>
      BY <1>3, <1>6
    <2>2. req' = Request(arg'[1])
      BY <1>6 DEF IInv, FrontOnBus
    <2> QED
      BY <1>1, <2>1, <2>2 DEF ReqInv, R
  <1>7. CASE pc' = "failed"
    <2>1. ASSUME NEW data_ok \in BOOLEAN, Tick(data_ok)
          PROVE  ReqInv'
      <3>1. req' = IF ongoing' = <<>> THEN NoRequest ELSE Request(Head(ongoing'))
        BY <1>7, <2>1 DEF Tick, Reissue
      <3> QED
        BY <1>4, <3>1 DEF ReqInv, R
    <2>2. CASE UNCHANGED vars
      BY <2>2 DEF vars, ReqInv
    <2>3. ASSUME NEW t, Call(t)
          PROVE  FALSE
      BY <1>7, <2>3 DEF Call
    <2>4. ASSUME NEW t, Issue(t)
          PROVE  FALSE
      BY <1>7, <2>4 DEF Issue
    <2>5. ASSUME NEW x, NEW y, NEW w, Swap(x, y, w)
          PROVE  FALSE
      BY <1>7, <2>5 DEF Swap
    <2>6. ~Open /\ ~Fence
      BY <1>7 DEF Open, Fence
    <2>7. ~FenceDone
      BY <1>7 DEF FenceDone
    <2>8. ASSUME NEW data_ok \in BOOLEAN, Await(data_ok)
          PROVE  FALSE
      BY <1>7, <2>8 DEF Await
    <2> QED
      BY <2>1, <2>2, <2>3, <2>4, <2>5, <2>6, <2>7, <2>8 DEF Next
  <1> QED
    BY <1>3, <1>5, <1>6, <1>7

LEMMA SoundFollows ==
  ASSUME IInv, ReqInv
  PROVE  Sound
  <1>1. ongoing \in Seq(Task)
    <2>1. ongoing \in Seq(Queued) /\ \A t \in Queued : t \in Task
      BY DEF IInv, DataInv, Queued
    <2> HIDE DEF IInv
    <2> QED
      BY <2>1
  <1>2. pc = "await" => Len(arg) = 1 /\ arg[1] \in Task
    BY DEF IInv, PcInv, Queued
  <1>3. pc \in {"u", "v"} => arg \in Lane \X Lane \X Sizes
    BY DEF IInv, PcInv
  <1>4. mem \in Words /\ dest \in [Dest \cup Locals -> Words]
    BY DEF IInv, DataInv
  <1>5. /\ pipe \in BOOLEAN
        /\ pc \in {"free", "await", "fence", "close", "u", "v", "failed", "stopped"}
    BY DEF IInv, PcInv
  <1> QED
    BY <1>1, <1>2, <1>3, <1>4, <1>5 DEF Sound, TypeOK, ReqInv, IInv

\* Whatever the test calls and however long the memory takes, the front of the
\* queue is on the bus and nothing else, so every answer is the one of the task
\* that takes it, and neither assertion of the drivers fires.
THEOREM FrontStays == Spec => []Sound
  <1>1. Init => ReqInv
    BY NoRequestType DEF Init, ReqInv
  <1>2. IInv /\ IInv' /\ [Next]_vars /\ ReqInv => ReqInv'
    BY ReqStep
  <1>3. IInv /\ ReqInv => Sound
    BY SoundFollows
  <1> QED
    BY <1>1, <1>2, <1>3, Invariance, PTL DEF Spec

-----------------------------------------------------------------------------
(***************************************************************************)
(* The drivers implement the row of bytes: a call is the step of           *)
(* InOrderMemory of its name when it is made, the end of swap is its Swap, *)
(* and all else is a stutter.                                              *)
(***************************************************************************)
Unseen ==
  /\ Called'.bytes = Called.bytes /\ Called'.failed = Called.failed
  /\ \A d \in Dest : Called'.dest[d] = Called.dest[d]

LEMMA UnseenStutters == Unseen => UNCHANGED Program!vars
BY DEF Unseen, Program!vars

LEMMA SameStutters == Called' = Called => UNCHANGED Program!vars
BY UnseenStutters DEF Unseen

LEMMA InitMaps == Init => Program!Init
  <1> SUFFICES ASSUME Init
               PROVE  Program!Init
    OBVIOUS
  <1>1. Called = [bytes |-> mem, dest |-> dest, failed |-> FALSE]
    <2>1. Called = After(Now, <<>>) /\ Now = [bytes |-> mem, dest |-> dest, failed |-> FALSE]
      BY DEF Init, Called, Now
    <2> QED
      BY <2>1, AfterNothing
  <1>2. mem \in Words /\ dest \in [Dest \cup Locals -> Words]
    BY ZeroType DEF Init
  <1>3. Called.bytes = mem /\ Called.dest = dest /\ Called.failed = FALSE
    BY <1>1
  <1>4. [d \in Dest |-> Called.dest[d]] \in [Dest -> Words]
    BY <1>2, <1>3
  <1> QED
    BY <1>2, <1>3, <1>4
    DEF Program!Init, Program!Words, Program!Lane, Words, Lane

LEMMA LoadMaps ==
  ASSUME NEW a \in Lane, NEW w \in Sizes, NEW d \in Dest, NEW new,
         Called \in State, Called'.bytes = Called.bytes, Called'.failed = Called.failed,
         Called'.dest = [Called.dest EXCEPT ![d] = new]
  PROVE  /\ new = [l \in Lane |-> IF l < Width(w) THEN Called.bytes[a + l]
                                  ELSE Called.dest[d][l]]
              => Program!Load(a, w, d)
         /\ new = [l \in Lane |-> IF l < Width(w) THEN Called.bytes[a + l] ELSE 0]
              => Program!LoadWord(a, w, d)
  <1>1. Called.dest \in [Dest \cup Locals -> Words]
    BY DEF State
  <1>2. [e \in Dest |-> Called'.dest[e]] = [[e \in Dest |-> Called.dest[e]] EXCEPT ![d] = new]
    BY <1>1
  <1>3. ASSUME new = [l \in Lane |-> IF l < Width(w) THEN Called.bytes[a + l]
                                     ELSE Called.dest[d][l]]
        PROVE  Program!Load(a, w, d)
    <2>1. Program!Part(a, w, [e \in Dest |-> Called.dest[e]][d]) = new
      BY <1>3 DEF Program!Part, Program!Lane, Program!Width, Lane, Width
    <2> QED
      BY <1>2, <2>1 DEF Program!Load
  <1>4. ASSUME new = [l \in Lane |-> IF l < Width(w) THEN Called.bytes[a + l] ELSE 0]
        PROVE  Program!LoadWord(a, w, d)
    <2>1. Program!Part(a, w, [l \in Program!Lane |-> 0]) = new
      BY <1>4 DEF Program!Part, Program!Lane, Program!Width, Lane, Width
    <2>2. Program!Part(a, w, [l \in Program!Lane |-> 0])
            = Program!Part(a, w, [l \in Lane |-> 0])
      BY DEF Program!Lane, Lane
    <2> QED
      BY <1>2, <2>1, <2>2 DEF Program!LoadWord
  <1> QED
    BY <1>3, <1>4

LEMMA StoreMaps ==
  ASSUME NEW a \in Lane, NEW w \in Sizes, NEW v \in Words,
         Called'.dest = Called.dest, Called'.failed = Called.failed,
         Called'.bytes = [l \in Lane |-> IF l - a \in 0 .. Width(w) - 1
                                           THEN v[l - a] ELSE Called.bytes[l]]
  PROVE  Program!Store(a, w, v)
BY DEF Program!Store, Program!With, Program!Lane, Program!Width, Lane, Width

LEMMA NextIs ==
  ASSUME ~Called.failed, NEW p \in Places
  PROVE  /\ \A d \in Dest : Program!Load(p[1], p[2], d) \/ Program!LoadWord(p[1], p[2], d)
                              => Program!Next
         /\ \A v \in Words : Program!Store(p[1], p[2], v) \/ Program!ExpectWrong(p[1], p[2], v)
                              => Program!Next
         /\ \A q \in Places : q[2] = p[2] /\ Program!Swap(p[1], q[1], p[2]) => Program!Next
  <1>1. Places = Program!Places /\ Words = Program!Words
    BY DEF Places, Words, Lane, Sizes, Width,
           Program!Places, Program!Words, Program!Lane, Program!Sizes, Program!Width
  <1> QED
    BY <1>1 DEF Program!Next

\* A call of the pipeline takes effect at once, or not after a failure.
LEMMA LoadCallMaps ==
  ASSUME IInv, NEW p \in Places, NEW d \in Dest, Call(LoadTask(p[1], p[2], d))
  PROVE  Program!Next \/ UNCHANGED Program!vars
  <1> DEFINE a == p[1]
             w == p[2]
             t == LoadTask(a, w, d)
             new == [l \in Lane |-> IF l < Width(w) THEN Called.bytes[a + l]
                                    ELSE Called.dest[d][l]]
  <1>1. a \in Lane /\ w \in Sizes /\ a % Width(w) = 0
    BY PlacesAre
  <1>2. Called' = Effect(Called, t)
    <2>1. t \in Queued /\ Call(t)
      BY <1>1, LoadTaskIs
    <2> HIDE DEF t
    <2> QED
      BY <2>1, CallStep
  <1>3. CASE Called.failed
    <2>1. Called' = Called
      BY <1>2, <1>3, FailedEffect
    <2> QED
      BY <2>1, SameStutters
  <1>4. CASE ~Called.failed
    <2>1. Called \in State
      BY DEF IInv
    <2>2. Called' = [Called EXCEPT !.dest = [Called.dest EXCEPT ![d] = new]]
      BY <1>1, <1>2, <1>4, <2>1, LoadEffect
    <2>3. /\ Called'.bytes = Called.bytes /\ Called'.failed = Called.failed
          /\ Called'.dest = [Called.dest EXCEPT ![d] = new]
      <3> HIDE DEF new
      <3> QED
        BY <2>1, <2>2 DEF State
    <2>4. Program!Load(a, w, d)
      BY <1>1, <2>1, <2>3, LoadMaps
    <2> QED
      BY <1>4, <2>4, NextIs
  <1> QED
    BY <1>3, <1>4

LEMMA StoreCallMaps ==
  ASSUME IInv, NEW p \in Places, NEW v \in Words, Call(StoreTask(p[1], p[2], v))
  PROVE  Program!Next \/ UNCHANGED Program!vars
  <1> DEFINE a == p[1]
             w == p[2]
             t == StoreTask(a, w, v)
             new == [l \in Lane |-> IF l - a \in 0 .. Width(w) - 1
                                      THEN v[l - a] ELSE Called.bytes[l]]
  <1>1. a \in Lane /\ w \in Sizes /\ a % Width(w) = 0
    BY PlacesAre
  <1>2. Called' = Effect(Called, t)
    <2>1. t \in Queued /\ Call(t)
      BY <1>1, StoreTaskIs
    <2> HIDE DEF t
    <2> QED
      BY <2>1, CallStep
  <1>3. CASE Called.failed
    <2>1. Called' = Called
      BY <1>2, <1>3, FailedEffect
    <2> QED
      BY <2>1, SameStutters
  <1>4. CASE ~Called.failed
    <2>1. Called \in State
      BY DEF IInv
    <2>2. Called' = [Called EXCEPT !.bytes = new]
      BY <1>1, <1>2, <1>4, <2>1, StoreEffect
    <2>3. /\ Called'.bytes = new /\ Called'.failed = Called.failed
          /\ Called'.dest = Called.dest
      <3> HIDE DEF new
      <3> QED
        BY <2>1, <2>2 DEF State
    <2>4. Program!Store(a, w, v)
      BY <1>1, <2>3, StoreMaps
    <2> QED
      BY <1>4, <2>4, NextIs
  <1> QED
    BY <1>3, <1>4

LEMMA ExpectCallMaps ==
  ASSUME IInv, NEW p \in Places, NEW v \in Words, Call(ExpectTask(p[1], p[2], v))
  PROVE  Program!Next \/ UNCHANGED Program!vars
  <1> DEFINE a == p[1]
             w == p[2]
             t == ExpectTask(a, w, v)
  <1>1. a \in Lane /\ w \in Sizes /\ a % Width(w) = 0
    BY PlacesAre
  <1>2. Called' = Effect(Called, t)
    <2>1. t \in Queued /\ Call(t)
      BY <1>1, ExpectTaskIs
    <2> HIDE DEF t
    <2> QED
      BY <2>1, CallStep
  <1>3. CASE Called.failed
    <2>1. Called' = Called
      BY <1>2, <1>3, FailedEffect
    <2> QED
      BY <2>1, SameStutters
  <1>4. CASE ~Called.failed
    <2>1. Called \in State
      BY DEF IInv
    <2>2. CASE /\ \A l \in 0 .. Width(w) - 1 : Called.bytes[a + l] = v[l]
               /\ Called' = Called
      BY <2>2, SameStutters
    <2>3. CASE /\ \E l \in 0 .. Width(w) - 1 : Called.bytes[a + l] # v[l]
               /\ Called' = [Called EXCEPT !.failed = TRUE]
      <3>1. /\ Called'.bytes = Called.bytes /\ Called'.failed = TRUE
            /\ Called'.dest = Called.dest
        BY <2>1, <2>3 DEF State
      <3>2. Program!ExpectWrong(a, w, v)
        BY <2>3, <3>1 DEF Program!ExpectWrong, Program!Width, Width
      <3> QED
        BY <1>4, <3>2, NextIs
    <2>4. \/ /\ \A l \in 0 .. Width(w) - 1 : Called.bytes[a + l] = v[l]
             /\ Effect(Called, t) = Called
          \/ /\ \E l \in 0 .. Width(w) - 1 : Called.bytes[a + l] # v[l]
             /\ Effect(Called, t) = [Called EXCEPT !.failed = TRUE]
      BY <1>1, <1>4, <2>1, ExpectEffect
    <2> HIDE DEF t
    <2> QED
      BY <1>2, <2>2, <2>3, <2>4
  <1> QED
    BY <1>3, <1>4

LEMMA DiscardCallMaps ==
  ASSUME IInv, NEW p \in Places, Call(DiscardTask(p[1], p[2]))
  PROVE  UNCHANGED Program!vars
  <1> DEFINE t == DiscardTask(p[1], p[2])
  <1>1. p[1] \in Lane /\ p[2] \in Sizes /\ p[1] % Width(p[2]) = 0
    BY PlacesAre
  <1>2. Called' = Effect(Called, t)
    <2>1. t \in Queued /\ Call(t)
      BY <1>1, DiscardTaskIs
    <2> HIDE DEF t
    <2> QED
      BY <2>1, CallStep
  <1>3. Called \in State
    BY DEF IInv
  <1>4. Called' = Called
    <2>1. Called.failed => Effect(Called, t) = Called
      BY FailedEffect
    <2>2. ~Called.failed => Effect(Called, t) = Called
      BY <1>1, <1>3, DiscardEffect
    <2> HIDE DEF t
    <2> QED
      BY <1>2, <2>1, <2>2
  <1> QED
    BY <1>4, SameStutters

\* A load or store that the test awaits takes effect when it is issued.
LEMMA IssueMaps ==
  ASSUME IInv, NEW t \in Tasks, Issue(t)
  PROVE  Program!Next
  <1>1. t \in Queued /\ t.dest \notin Locals
    BY TasksAre
  <1>2. /\ Called = [bytes |-> mem, dest |-> dest, failed |-> FALSE]
        /\ Called' = [bytes |-> Stored(mem, t.strobe, t.data), dest |-> Loaded(t, mem),
                      failed |-> FALSE]
    BY <1>1, IssueStep
  <1>3. /\ Called.bytes = mem /\ Called.dest = dest /\ Called.failed = FALSE
        /\ Called'.bytes = Stored(mem, t.strobe, t.data)
        /\ Called'.dest = Loaded(t, mem) /\ Called'.failed = FALSE
    BY <1>2
  <1>4. mem \in Words /\ Called \in State
    BY DEF IInv, DataInv
  <1>5. ASSUME NEW p \in Places, NEW d \in Dest, t = LoadTask(p[1], p[2], d)
        PROVE  Program!Next
    <2> DEFINE a == p[1]
               w == p[2]
               new == [l \in Lane |-> IF l < Width(w) THEN mem[a + l] ELSE 0]
    <2>1. a \in Lane /\ w \in Sizes /\ a % Width(w) = 0
      BY PlacesAre
    <2>2. t.dest = d /\ d # Null /\ t.load_op = parse(a, w) /\ is_load(t)
      BY <1>5, <2>1, LoadTaskIs
    <2>3. Stored(mem, t.strobe, t.data) = mem
      BY <1>4, <2>2, StoredNone DEF is_load
    <2>4. applyTo(parse(a, w), mem, Zero) = new
      <3>1. applyTo(parse(a, w), mem, Zero)
              = [l \in Lane |-> IF l < Width(w) THEN mem[a + l] ELSE Zero[l]]
        BY <2>1, ApplyIs
      <3> QED
        BY <3>1 DEF Zero
    <2>5. Loaded(t, mem) = [dest EXCEPT ![d] = applyTo(parse(a, w), mem, Zero)]
      BY <2>2 DEF Loaded
    <2>6. /\ Called'.bytes = Called.bytes /\ Called'.failed = Called.failed
          /\ Called'.dest = [Called.dest EXCEPT ![d] = new]
      <3> HIDE DEF new
      <3> QED
        BY <1>3, <2>3, <2>4, <2>5
    <2>7. new = [l \in Lane |-> IF l < Width(w) THEN Called.bytes[a + l] ELSE 0]
      BY <1>3
    <2>8. Program!LoadWord(a, w, d)
      <3> HIDE DEF new, a, w
      <3> QED
        BY <1>4, <2>1, <2>6, <2>7, LoadMaps
    <2>9. ~Called.failed
      BY <1>3
    <2> QED
      BY <2>8, <2>9, NextIs
  <1>6. ASSUME NEW p \in Places, NEW v \in Words, t = StoreTask(p[1], p[2], v)
        PROVE  Program!Next
    <2> DEFINE a == p[1]
               w == p[2]
               new == [l \in Lane |-> IF l - a \in 0 .. Width(w) - 1 THEN v[l - a] ELSE mem[l]]
    <2>1. a \in Lane /\ w \in Sizes /\ a % Width(w) = 0
      BY PlacesAre
    <2>2. /\ t.dest = Null /\ t.strobe = strobe(parse(a, w))
          /\ t.data = place(parse(a, w), v)
      BY <1>6, <2>1, StoreTaskIs
    <2>3. Stored(mem, t.strobe, t.data) = new
      BY <2>1, <2>2, StoredIs
    <2>4. Loaded(t, mem) = dest
      BY <2>2 DEF Loaded
    <2>5. new = [l \in Lane |-> IF l - a \in 0 .. Width(w) - 1 THEN v[l - a]
                                ELSE Called.bytes[l]]
      BY <1>3
    <2>6. Program!Store(a, w, v)
      <3> HIDE DEF new, a, w
      <3> QED
        BY <1>3, <2>1, <2>3, <2>4, <2>5, StoreMaps
    <2>7. ~Called.failed
      BY <1>3
    <2> QED
      BY <2>6, <2>7, NextIs
  <1> QED
    BY <1>5, <1>6, TasksAre

LEMMA SwapMaps ==
  ASSUME IInv, FenceDone, pc = "v"
  PROVE  Program!Next
  <1> DEFINE x == arg[1]
             y == arg[2]
             w == arg[3]
  <1>1. /\ ~Called.failed /\ Called'.failed = Called.failed
        /\ \A d \in Dest : Called'.dest[d] = Called.dest[d]
        /\ Called'.bytes = Swapped(Called.bytes, x, y, w)
        /\ <<x, w>> \in Places /\ <<y, w>> \in Places
    BY GotBothInv
  <1>2. PICK p \in Places : p = <<x, w>>
    BY <1>1
  <1>3. PICK q \in Places : q = <<y, w>>
    BY <1>1
  <1>4. p[1] = x /\ p[2] = w /\ q[1] = y /\ q[2] = w
    BY <1>2, <1>3
  <1> HIDE DEF x, y, w
  <1>5. Program!Swap(p[1], q[1], p[2])
    BY <1>1, <1>4
    DEF Program!Swap, Program!Lane, Program!Width, Swapped, Lane, Width
  <1> QED
    BY <1>1, <1>4, <1>5, NextIs

LEMMA StepMaps == IInv /\ [Next]_vars => [Program!Next]_Program!vars
  <1> DEFINE Maps == Program!Next \/ UNCHANGED Program!vars
  <1> SUFFICES ASSUME IInv, [Next]_vars
               PROVE  Maps
    OBVIOUS
  <1>1. ASSUME NEW t \in Tasks, Call(t)
        PROVE  Maps
    BY <1>1, TasksAre, LoadCallMaps, StoreCallMaps
  <1>2. ASSUME NEW t \in Tasks, Issue(t)
        PROVE  Maps
    BY <1>2, IssueMaps
  <1>3. ASSUME NEW p \in Places, NEW v \in Words, Call(ExpectTask(p[1], p[2], v))
        PROVE  Maps
    BY <1>3, ExpectCallMaps
  <1>4. ASSUME NEW p \in Places, Call(DiscardTask(p[1], p[2]))
        PROVE  Maps
    BY <1>4, DiscardCallMaps
  <1>5. ASSUME NEW p \in Places, NEW q \in Places, p[2] = q[2], Swap(p[1], q[1], p[2])
        PROVE  Maps
    <2>1. Unseen
      <3>1. q[1] % Width(p[2]) = 0
        BY <1>5, PlacesAre
      <3> QED
        BY <1>5, <3>1, PlacesAre, SwapInv DEF Unseen
    <2> QED
      BY <2>1, UnseenStutters
  <1>6. CASE Open
    BY <1>6, OpenStep, SameStutters
  <1>7. CASE Fence
    BY <1>7, FenceStep, SameStutters
  <1>8. CASE FenceDone
    <2>1. CASE pc \in {"fence", "close"}
      BY <1>8, <2>1, FencedStep, SameStutters
    <2>2. CASE pc = "u"
      <3>1. Unseen
        BY <1>8, <2>2, GotOneInv DEF Unseen
      <3> QED
        BY <3>1, UnseenStutters
    <2>3. CASE pc = "v"
      BY <1>8, <2>3, SwapMaps
    <2> QED
      BY <1>8, <2>1, <2>2, <2>3, FenceDoneIs
  <1>9. ASSUME NEW data_ok \in BOOLEAN, Tick(data_ok)
        PROVE  Maps
    BY <1>9, TickStep, SameStutters
  <1>10. ASSUME NEW data_ok \in BOOLEAN, Await(data_ok)
        PROVE  Maps
    BY <1>10, AwaitStep, SameStutters
  <1>11. CASE UNCHANGED vars
    <2>1. Called' = Called
      BY <1>11 DEF vars, Called, Now, Loaded
    <2> QED
      BY <2>1, SameStutters
  <1> HIDE DEF Maps
  <1> QED
    BY <1>1, <1>2, <1>3, <1>4, <1>5, <1>6, <1>7, <1>8, <1>9, <1>10, <1>11 DEF Next

\* However long the memory takes, a test sees its calls take effect one by one
\* in the order in which it makes them, each of the width and at the place it
\* names; a swap exchanges two cells of one width at once; and after a
\* failed expectation nothing happens.
THEOREM DriversInOrder == Spec => AsInOrder
  <1>1. IInv /\ [Next]_vars => [Program!Next]_Program!vars
    BY StepMaps
  <1>2. Init => Program!Init
    BY InitMaps
  <1> QED
    BY <1>1, <1>2, Invariance, PTL DEF Spec, AsInOrder, Program!Spec
=============================================================================
