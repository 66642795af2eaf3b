---------------------------- MODULE AXIBusProofs ----------------------------
(***************************************************************************)
(* The AXI bridge between a bursting master and an AXI memory, for every   *)
(* size of words, addresses and memory: nothing of one transaction is left *)
(* for the next (Sound), what is shown on a channel stays until it is      *)
(* taken (HeldUntilTaken), and for bursts that wrap the whole implements   *)
(* the memory of the cache bus (AsBurstMemory).                            *)
(***************************************************************************)
EXTENDS AXIBus, WellFoundedInduction, TLAPS

-----------------------------------------------------------------------------
(***************************************************************************)
(* What the memory holds after some beats of a write.                      *)
(***************************************************************************)
WBeat == [data : Word, strobe : Strobe, last : BOOLEAN]

\* Induction over the natural numbers, for a set.
LEMMA SetInduction ==
  ASSUME NEW T, T \subseteq Nat, 0 \in T, \A n \in T : n + 1 \in T
  PROVE  \A n \in Nat : n \in T
  <1> SUFFICES ASSUME Nat \ T # {} PROVE FALSE
    OBVIOUS
  <1>1. PICK x \in Nat \ T : \A y \in Nat \ T : ~(<<y, x>> \in OpToRel(<, Nat))
    <2>1. IsWellFoundedOn(OpToRel(<, Nat), Nat)
      BY NatLessThanWellFounded
    <2> QED
      BY <2>1, WFMin
  <1>2. x - 1 \in Nat \ T
    <2>1. x # 0 /\ x \in Nat
      OBVIOUS
    <2>2. x - 1 \in Nat /\ (x - 1) + 1 = x
      BY <2>1
    <2> QED
      BY <2>2
  <1>3. <<x - 1, x>> \in OpToRel(<, Nat)
    BY <1>2 DEF OpToRel
  <1> QED
    BY <1>1, <1>2, <1>3

Step(m, b, ws_, n) == Written(m, BeatAddr(b, n - 1), ws_[n].data, ws_[n].strobe)

\* f[n] is the memory after n beats of ws_, up to k.
IsRun(f, m, b, ws_, k) ==
  f = [n \in 0 .. k |-> IF n = 0 THEN m ELSE Step(f[n - 1], b, ws_, n)]

LEMMA RunExists ==
  ASSUME NEW m, NEW b, NEW ws_
  PROVE  \A k \in Nat : \E f : IsRun(f, m, b, ws_, k)
  <1> DEFINE T == {k \in Nat : \E f : IsRun(f, m, b, ws_, k)}
  <1>1. 0 \in T
    <2> DEFINE f == [n \in 0 .. 0 |-> m]
    <2>1. f = [n \in 0 .. 0 |-> IF n = 0 THEN m ELSE Step(f[n - 1], b, ws_, n)]
      OBVIOUS
    <2> QED
      BY <2>1 DEF IsRun
  <1>2. ASSUME NEW k \in T
        PROVE  k + 1 \in T
    <2>1. PICK f : IsRun(f, m, b, ws_, k)
      OBVIOUS
    <2> DEFINE g == [n \in 0 .. k + 1 |->
                       IF n = k + 1 THEN Step(f[k], b, ws_, n) ELSE f[n]]
    <2>2. \A n \in 0 .. k : f[n] = IF n = 0 THEN m ELSE Step(f[n - 1], b, ws_, n)
      BY <2>1 DEF IsRun
    <2>3. \A n \in 0 .. k + 1 : g[n] = IF n = 0 THEN m ELSE Step(g[n - 1], b, ws_, n)
      <3> SUFFICES ASSUME NEW n \in 0 .. k + 1
                   PROVE  g[n] = IF n = 0 THEN m ELSE Step(g[n - 1], b, ws_, n)
        OBVIOUS
      <3>1. CASE n = k + 1
        <4>1. n # 0 /\ n - 1 = k /\ k \in 0 .. k + 1 /\ k # k + 1
          BY <3>1
        <4>2. g[n] = Step(f[k], b, ws_, n)
          BY <3>1
        <4>3. g[n - 1] = f[k]
          BY <4>1
        <4> QED
          BY <4>1, <4>2, <4>3
      <3>2. CASE n # k + 1
        <4>1. n \in 0 .. k /\ g[n] = f[n]
          BY <3>2
        <4>2. CASE n = 0
          BY <2>2, <4>1, <4>2
        <4>3. CASE n # 0
          <5>1. n - 1 \in 0 .. k + 1 /\ n - 1 # k + 1
            BY <4>1, <4>3
          <5>2. g[n - 1] = f[n - 1]
            BY <5>1
          <5> QED
            BY <2>2, <4>1, <4>3, <5>2
        <4> QED
          BY <4>2, <4>3
      <3> QED
        BY <3>1, <3>2
    <2>4. IsRun(g, m, b, ws_, k + 1)
      <3> HIDE DEF g
      <3>1. g = [n \in 0 .. k + 1 |-> g[n]]
        BY DEF g
      <3> QED
        BY <2>3, <3>1 DEF IsRun
    <2> QED
      BY <2>4
  <1> HIDE DEF T
  <1>3. T \subseteq Nat
    BY DEF T
  <1>4. \A k \in Nat : k \in T
    BY <1>1, <1>2, <1>3, SetInduction
  <1> QED
    BY <1>4 DEF T

\* Beats that two writes have in common leave the same behind.
Agree(v, w, k) == \A n \in 1 .. k : v[n] = w[n]

LEMMA RunUnique ==
  ASSUME NEW m, NEW b, NEW v, NEW w, NEW k \in Nat, NEW f, NEW g,
         IsRun(f, m, b, v, k), IsRun(g, m, b, w, k + 1), Agree(v, w, k)
  PROVE  f[k] = g[k]
  <1> DEFINE T == {n \in Nat : n <= k => f[n] = g[n]}
  <1>1. \A n \in 0 .. k : f[n] = IF n = 0 THEN m ELSE Step(f[n - 1], b, v, n)
    BY DEF IsRun
  <1>2. \A n \in 0 .. k + 1 : g[n] = IF n = 0 THEN m ELSE Step(g[n - 1], b, w, n)
    BY DEF IsRun
  <1>3. 0 \in T
    BY <1>1, <1>2
  <1>4. ASSUME NEW n \in T
        PROVE  n + 1 \in T
    <2> SUFFICES ASSUME n + 1 <= k PROVE f[n + 1] = g[n + 1]
      OBVIOUS
    <2>1. n + 1 \in 1 .. k /\ n + 1 \in 0 .. k /\ n + 1 \in 0 .. k + 1 /\ n + 1 # 0
          /\ (n + 1) - 1 = n /\ n <= k
      OBVIOUS
    <2>2. f[n + 1] = Step(f[n], b, v, n + 1)
      BY <1>1, <2>1
    <2>3. g[n + 1] = Step(g[n], b, w, n + 1)
      BY <1>2, <2>1
    <2>4. f[n] = g[n] /\ v[n + 1] = w[n + 1]
      BY <2>1 DEF Agree
    <2> QED
      BY <2>2, <2>3, <2>4 DEF Step
  <1> HIDE DEF T
  <1>5. T \subseteq Nat
    BY DEF T
  <1>6. \A n \in Nat : n \in T
    BY <1>3, <1>4, <1>5, SetInduction
  <1> QED
    BY <1>6 DEF T

LEMMA StoredRun ==
  ASSUME NEW m, NEW b, NEW ws_, Len(ws_) \in Nat
  PROVE  \E f : IsRun(f, m, b, ws_, Len(ws_)) /\ Stored(m, b, ws_) = f[Len(ws_)]
  <1> DEFINE f == CHOOSE f : IsRun(f, m, b, ws_, Len(ws_))
  <1>1. IsRun(f, m, b, ws_, Len(ws_))
    BY RunExists
  <1>2. Stored(m, b, ws_) = f[Len(ws_)]
    BY DEF Stored, IsRun, Step
  <1> QED
    BY <1>1, <1>2

LEMMA StoredNothing ==
  ASSUME NEW m, NEW b
  PROVE  Stored(m, b, <<>>) = m
  <1>1. Len(<<>>) = 0
    OBVIOUS
  <1>2. PICK f : IsRun(f, m, b, <<>>, Len(<<>>)) /\ Stored(m, b, <<>>) = f[Len(<<>>)]
    BY <1>1, StoredRun
  <1> QED
    BY <1>1, <1>2 DEF IsRun

LEMMA StoredAppend ==
  ASSUME NEW m, NEW b, NEW ws_ \in Seq(WBeat), NEW w \in WBeat
  PROVE  Stored(m, b, Append(ws_, w)) =
           Written(Stored(m, b, ws_), BeatAddr(b, Len(ws_)), w.data, w.strobe)
  <1> DEFINE k == Len(ws_)
             v == Append(ws_, w)
  <1>1. k \in Nat /\ Len(v) = k + 1 /\ v[k + 1] = w /\ \A n \in 1 .. k : ws_[n] = v[n]
    OBVIOUS
  <1> HIDE DEF k, v
  <1>2. PICK f : IsRun(f, m, b, ws_, k) /\ Stored(m, b, ws_) = f[k]
    BY <1>1, StoredRun DEF k
  <1>3. PICK g : IsRun(g, m, b, v, k + 1) /\ Stored(m, b, v) = g[k + 1]
    <2>1. Len(v) \in Nat
      BY <1>1
    <2> QED
      BY <1>1, <2>1, StoredRun
  <1>4. f[k] = g[k]
    <2>1. Agree(ws_, v, k)
      BY <1>1 DEF Agree
    <2> QED
      BY <1>1, <1>2, <1>3, <2>1, RunUnique
  <1>5. g[k + 1] = Step(g[k], b, v, k + 1)
    <2>1. k + 1 \in 0 .. k + 1 /\ k + 1 # 0 /\ (k + 1) - 1 = k
      BY <1>1
    <2> QED
      BY <1>3, <2>1 DEF IsRun
  <1>6. (k + 1) - 1 = k
    BY <1>1
  <1> QED
    BY <1>1, <1>2, <1>3, <1>4, <1>5, <1>6 DEF Step, k, v

LEMMA WrittenType ==
  ASSUME NEW m \in Memory, NEW a, NEW d \in Word, NEW s \in Strobe
  PROVE  Written(m, a, d, s) \in Memory
  <1>1. \A old \in Word : Merge(old, d, s) \in Word
    BY CellAssumption
  <1> QED
    BY <1>1 DEF Written, Memory

LEMMA StoredType ==
  ASSUME NEW m \in Memory, NEW b, NEW ws_ \in Seq(WBeat)
  PROVE  Stored(m, b, ws_) \in Memory
  <1> DEFINE k == Len(ws_)
  <1>1. k \in Nat /\ \A n \in 1 .. k : ws_[n] \in WBeat
    OBVIOUS
  <1> HIDE DEF k
  <1>2. PICK f : IsRun(f, m, b, ws_, k) /\ Stored(m, b, ws_) = f[k]
    BY <1>1, StoredRun DEF k
  <1> DEFINE T == {n \in Nat : n <= k => f[n] \in Memory}
  <1>3. \A n \in 0 .. k : f[n] = IF n = 0 THEN m ELSE Step(f[n - 1], b, ws_, n)
    BY <1>2 DEF IsRun
  <1>4. 0 \in T
    BY <1>1, <1>3
  <1>5. ASSUME NEW n \in T
        PROVE  n + 1 \in T
    <2> SUFFICES ASSUME n + 1 <= k PROVE f[n + 1] \in Memory
      OBVIOUS
    <2>1. n + 1 \in 1 .. k /\ n + 1 \in 0 .. k /\ n + 1 # 0 /\ (n + 1) - 1 = n /\ n <= k
      BY <1>1
    <2>2. f[n + 1] = Step(f[n], b, ws_, n + 1)
      BY <1>3, <2>1
    <2>3. ws_[n + 1].data \in Word /\ ws_[n + 1].strobe \in Strobe /\ f[n] \in Memory
      BY <1>1, <2>1 DEF WBeat
    <2> QED
      BY <2>2, <2>3, WrittenType DEF Step
  <1> HIDE DEF T
  <1>6. T \subseteq Nat
    BY DEF T
  <1>7. \A n \in Nat : n \in T
    BY <1>4, <1>5, <1>6, SetInduction
  <1> QED
    BY <1>1, <1>2, <1>7 DEF T

-----------------------------------------------------------------------------
(***************************************************************************)
(* The inductive invariant.                                                *)
(***************************************************************************)
\* Types, without the memory's own, and that a read carries no data.
TypeInv ==
  /\ req \in cbus_req_t
  /\ ~req.is_write => req.data = 0 /\ req.strobe = 0
  /\ beats \in 0 .. 255
  /\ BridgeTypeOK
  /\ up \subseteq Channels
  /\ rd \in Burst \cup {NoBurst}
  /\ rbeat \in 0 .. 255
  /\ aw \in Burst \cup {NoBurst}
  /\ ws \in Seq(WBeat)
  /\ stall \in 0 .. MaxStall

\* Nothing is under way on either side.
Idle ==
  /\ in_issue = {}
  /\ beats = 0
  /\ rd = NoBurst /\ rbeat = 0 /\ aw = NoBurst /\ ws = <<>>

\* A read: the memory is as many beats into the burst as the master.
Reading ==
  /\ in_issue \in {{"AR", "R"}, {"R"}}
  /\ req.valid /\ ~req.is_write
  /\ saved_req = req
  /\ beats <= req.len
  /\ count = req.len - beats
  /\ rbeat = beats
  /\ rd = IF "AR" \in in_issue THEN NoBurst ELSE address(req)
  /\ "AR" \in in_issue => beats = 0
  /\ aw = NoBurst /\ ws = <<>>

\* A write: its address and its data each on their way or there.
Accepted == aw = IF "AW" \in in_issue THEN NoBurst ELSE address(req)

\* Data is still to come: the request is the one that was saved, but for the
\* word and the strobe of the beat.
Sending ==
  /\ "W" \in in_issue
  /\ saved_req = [req EXCEPT !.data = saved_req.data, !.strobe = saved_req.strobe]
  /\ req.valid
  /\ Len(ws) = beats
  /\ beats <= req.len
  /\ count = req.len - beats
  /\ ~AllData(ws)

\* All data has come, and the master may have gone on to its next request.
Closing ==
  /\ "W" \notin in_issue
  /\ beats = 0
  /\ count = 0
  /\ AllData(ws)

Writing ==
  /\ "B" \in in_issue
  /\ in_issue \subseteq {"AW", "W", "B"}
  /\ saved_req.is_write
  /\ rd = NoBurst /\ rbeat = 0
  /\ Accepted
  /\ Sending \/ Closing

PhaseInv == Idle \/ Reading \/ Writing

\* What the memory shows it may show, and its readiness was wanted.
UpInv == up \subseteq open /\ up \subseteq in_issue \cup {"R", "B"}

IInv == TypeInv /\ PhaseInv /\ UpInv

-----------------------------------------------------------------------------
LEMMA LenType == mlen_t \subseteq 0 .. 255
  BY DEF mlen_t, MLEN1

LEMMA LenNat ==
  ASSUME TypeInv
  PROVE  req.len \in Nat /\ req.len <= 255 /\ beats \in Nat
  <1>1. req \in cbus_req_t /\ beats \in 0 .. 255
    BY DEF TypeInv
  <1>2. req.len \in mlen_t
    BY <1>1 DEF cbus_req_t
  <1>3. req.len \in 0 .. 255
    BY <1>2, LenType
  <1> QED
    BY <1>1, <1>3

LEMMA NoReqType ==
  /\ NoReq \in cbus_req_t
  /\ ~NoReq.valid /\ ~NoReq.is_write /\ NoReq.data = 0 /\ NoReq.strobe = 0
  BY BusAssumption DEF NoReq, cbus_req_t, msize_t, mlen_t, MLEN1, Addr, Strobe, Word,
     axi_burst_type_t

LEMMA NewReqType ==
  ASSUME NEW r \in NewReq
  PROVE  r \in cbus_req_t /\ r.valid /\ (~r.is_write => r.data = 0 /\ r.strobe = 0)
  <1>1. /\ r \in [valid : {TRUE}, is_write : BOOLEAN, size : Sizes, addr : Starts,
                  strobe : Strobe, data : Word, len : Lens, burst : Bursts \cup {"FIXED"}]
        /\ r.is_write <=> r.strobe # 0
        /\ ~r.is_write => r.data = 0
    BY DEF NewReq
  <1>2. /\ Sizes \subseteq msize_t /\ Starts \subseteq Addr /\ Lens \subseteq mlen_t
        /\ Bursts \cup {"FIXED"} \subseteq axi_burst_type_t
    BY MasterAssumption DEF axi_burst_type_t
  <1> QED
    BY <1>1, <1>2 DEF cbus_req_t

LEMMA AddressType ==
  ASSUME TypeInv
  PROVE  address(req) \in Burst /\ address(req) # NoBurst
  BY DEF TypeInv, BridgeTypeOK, cbus_req_t, address, Burst, NoBurst, axi_burst_type_t

LEMMA InvInit == Init => IInv
  <1> SUFFICES ASSUME Init PROVE IInv
    OBVIOUS
  <1>1. TypeInv
    <2>1. req \in cbus_req_t /\ saved_req \in cbus_req_t
          /\ (~req.is_write => req.data = 0 /\ req.strobe = 0)
      BY NoReqType DEF Init, MasterInit, BridgeInit
    <2>2. count \in 0 .. 255
      BY LenType DEF Init, BridgeInit
    <2>3. 0 \in 0 .. MaxStall
      BY SlaveAssumption
    <2> QED
      BY <2>1, <2>2, <2>3
         DEF Init, MasterInit, BridgeInit, SlaveInit, TypeInv, BridgeTypeOK, Channels
  <1>2. Idle
    BY DEF Init, MasterInit, BridgeInit, SlaveInit, Idle
  <1>3. UpInv
    BY DEF Init, SlaveInit, UpInv
  <1> QED
    BY <1>1, <1>2, <1>3 DEF IInv, PhaseInv

-----------------------------------------------------------------------------
(***************************************************************************)
(* One edge, taken apart.                                                  *)
(***************************************************************************)
\* Who shakes hands.
Hands == in_issue \cap up

LEMMA SlaveStep ==
  ASSUME Clock
  PROVE  /\ rd' = IF "AR" \in Hands THEN address(req)
                  ELSE IF "R" \in Hands /\ axi.rlast THEN NoBurst ELSE rd
         /\ rbeat' = IF "R" \in Hands THEN (IF axi.rlast THEN 0 ELSE rbeat + 1) ELSE rbeat
         /\ aw' = IF "AW" \in Hands THEN address(req)
                  ELSE IF "B" \in Hands THEN NoBurst ELSE aw
         /\ ws' = IF "W" \in Hands THEN Append(ws, wbeat(req))
                  ELSE IF "B" \in Hands THEN <<>> ELSE ws
         /\ mem' = IF "B" \in Hands THEN Stored(mem, aw, ws) ELSE mem
         /\ stall' = IF in_issue = {} \/ Hands # {} THEN 0
                     ELSE (stall + 1) % (MaxStall + 1)
         /\ up' \subseteq open'
         /\ up' \subseteq in_issue' \cup {"R", "B"}
  BY DEF Clock, SlaveClock, Hands

LEMMA BridgeStep ==
  ASSUME Clock
  PROVE  /\ in_issue = {} => /\ in_issue' = IF req.valid THEN next_issue(req) ELSE {}
                             /\ saved_req' = req
                             /\ count' = req.len
         /\ in_issue # {} =>
              /\ in_issue' = {c \in in_issue : c \in up =>
                                 (c = "R" /\ ~axi.rlast) \/ (c = "W" /\ count # 0)}
              /\ saved_req' = saved_req
              /\ count' = IF resp.ready /\ ~resp.last THEN (count - 1) % 256 ELSE count
  <1>1. axi.up = up
    BY DEF axi
  <1>2. ended(axi) = {c \in in_issue \cap up : (c = "R" => axi.rlast) /\ (c = "W" => count = 0)}
    BY <1>1 DEF ended, handshake, is_last
  <1>3. in_issue \ ended(axi) = {c \in in_issue : c \in up =>
                                 (c = "R" /\ ~axi.rlast) \/ (c = "W" /\ count # 0)}
    BY <1>2
  <1> QED
    BY <1>3 DEF Clock, BridgeClock, Transfer, Accept, resp

LEMMA RespIs ==
  /\ resp.ready <=> Hands \cap {"R", "W"} # {}
  /\ resp.last <=> resp.ready /\ ("R" \in in_issue => axi.rlast) /\ count = 0
  /\ resp.data = axi.rdata
  <1>1. axi.up = up
    BY DEF axi
  <1> QED
    BY <1>1 DEF resp, cresp, handshake, is_last, Hands

LEMMA RlastIs == axi.rlast <=> rd # NoBurst /\ rbeat = rd.len
  BY DEF axi

LEMMA MasterStep ==
  ASSUME Clock
  PROVE  /\ ~req.valid \/ resp.last => req' \in NewReq \cup {NoReq} /\ beats' = 0
         /\ req.valid /\ resp.ready /\ ~resp.last =>
              /\ beats' = beats + 1
              /\ \E d \in Word, s \in Strobe :
                   /\ req.is_write \/ (d = 0 /\ s = 0)
                   /\ req' = [req EXCEPT !.data = d, !.strobe = s]
         /\ req.valid /\ ~resp.ready => req' = req /\ beats' = beats
  <1>1. resp.last => resp.ready
    BY RespIs
  <1> QED
    BY <1>1 DEF Clock, MasterClock, Turn, Advance, Stay, masterVars

\* Whom the invariant lets shake hands.
LEMMA HandsAre ==
  ASSUME IInv
  PROVE  /\ Idle => Hands = {}
         /\ Reading => /\ Hands \subseteq {"AR", "R"}
                       /\ "AR" \in in_issue => "R" \notin Hands
         /\ Writing => /\ Hands \subseteq {"AW", "W", "B"}
                       /\ "B" \in Hands => "AW" \notin in_issue /\ Closing
  <1>1. up \subseteq open
    BY DEF IInv, UpInv
  <1>2. /\ "R" \in up => rd # NoBurst
        /\ "B" \in up => aw # NoBurst /\ AllData(ws)
    BY <1>1 DEF open
  <1> QED
    BY <1>2 DEF Hands, Idle, Reading, Writing, Sending, Accepted

\* An answer belongs to a beat of the request that is up, and the bridge's
\* count tells the last one.
LEMMA Ready ==
  ASSUME IInv, resp.ready
  PROVE  /\ req.valid
         /\ beats \in Nat /\ beats <= req.len /\ req.len <= 255
         /\ count = req.len - beats
         /\ resp.last <=> count = 0
         /\ \/ /\ Reading
               /\ "R" \in Hands /\ "AR" \notin in_issue
               /\ axi.rlast <=> count = 0
            \/ /\ Writing /\ Sending
               /\ "W" \in Hands
  <1>1. "R" \in Hands \/ "W" \in Hands
    BY RespIs
  <1>2. ~Idle
    BY <1>1, HandsAre
  <1>3. beats \in Nat /\ req.len \in Nat /\ req.len <= 255
    BY LenNat DEF IInv
  <1>4. CASE Reading
    <2>1. "R" \in Hands /\ "AR" \notin in_issue
      BY <1>1, <1>4, HandsAre
    <2>2. rd = address(req) /\ saved_req = req /\ rbeat = beats /\ count = req.len - beats
      BY <1>4, <2>1 DEF Reading
    <2>3. axi.rlast <=> rbeat = rd.len
      BY <2>2, AddressType, RlastIs DEF IInv
    <2>4. rd.len = req.len
      BY <2>2 DEF address
    <2>5. axi.rlast <=> count = 0
      BY <1>3, <2>2, <2>3, <2>4
    <2>6. "R" \in in_issue
      BY <2>1 DEF Hands
    <2>7. resp.last <=> count = 0
      BY <2>5, <2>6, RespIs
    <2>8. req.valid /\ beats <= req.len
      BY <1>4 DEF Reading
    <2> QED
      BY <1>3, <1>4, <2>1, <2>2, <2>5, <2>7, <2>8
  <1>5. CASE Writing
    <2>1. "W" \in Hands /\ "R" \notin in_issue
      BY <1>1, <1>5, HandsAre DEF Writing
    <2>2. Sending
      BY <1>5, <2>1 DEF Writing, Closing, Hands
    <2>3. resp.last <=> count = 0
      BY <2>1, RespIs
    <2>4. req.valid /\ beats <= req.len /\ count = req.len - beats
      BY <2>2 DEF Sending
    <2> QED
      BY <1>3, <1>5, <2>1, <2>2, <2>3, <2>4
  <1> QED
    BY <1>2, <1>4, <1>5 DEF IInv, PhaseInv

LEMMA ReqStep ==
  ASSUME IInv, Clock
  PROVE  /\ req' \in cbus_req_t
         /\ ~req'.is_write => req'.data = 0 /\ req'.strobe = 0
         /\ beats' \in 0 .. 255
  <1>1. /\ req \in cbus_req_t
        /\ ~req.is_write => req.data = 0 /\ req.strobe = 0
        /\ beats \in 0 .. 255
    BY DEF IInv, TypeInv
  <1>2. CASE ~req.valid \/ resp.last
    <2>1. req' \in NewReq \cup {NoReq} /\ beats' = 0
      BY <1>2, MasterStep
    <2>2. CASE req' = NoReq
      BY <2>1, <2>2, NoReqType
    <2>3. CASE req' \in NewReq
      <3>1. PICK r \in NewReq : r = req'
        BY <2>3
      <3> QED
        BY <2>1, <3>1, NewReqType
    <2> QED
      BY <2>1, <2>2, <2>3
  <1>3. CASE req.valid /\ resp.ready /\ ~resp.last
    <2>1. beats' = beats + 1
      BY <1>3, MasterStep
    <2>2. PICK d \in Word, s \in Strobe :
            /\ req.is_write \/ (d = 0 /\ s = 0)
            /\ req' = [req EXCEPT !.data = d, !.strobe = s]
      BY <1>3, MasterStep
    <2>3. beats + 1 \in 0 .. 255
      <3>1. /\ beats \in Nat /\ beats <= req.len /\ req.len <= 255
            /\ count = req.len - beats /\ count # 0
        BY <1>3, Ready
      <3>2. req.len \in Nat
        BY LenNat DEF IInv
      <3> QED
        BY <3>1, <3>2
    <2> QED
      BY <1>1, <2>1, <2>2, <2>3 DEF cbus_req_t
  <1>4. CASE req.valid /\ ~resp.ready
    BY <1>1, <1>4, MasterStep
  <1> QED
    BY <1>2, <1>3, <1>4

LEMMA CountStep ==
  ASSUME IInv, Clock
  PROVE  /\ resp.ready /\ ~resp.last => count' = count - 1 /\ count > 0
         /\ in_issue # {} /\ (~resp.ready \/ resp.last) => count' = count
         /\ count' \in 0 .. 255
  <1>1. count \in 0 .. 255 /\ req.len \in 0 .. 255
    BY LenType DEF IInv, TypeInv, BridgeTypeOK, cbus_req_t
  <1>2. CASE in_issue = {}
    <2>1. count' = req.len /\ ~resp.ready
      BY <1>2, BridgeStep, RespIs DEF Hands
    <2> QED
      BY <1>1, <1>2, <2>1
  <1>3. CASE in_issue # {}
    <2>1. CASE resp.ready /\ ~resp.last
      <3>1. count # 0
        BY <2>1, Ready
      <3>2. count' = (count - 1) % 256
        BY <1>3, <2>1, BridgeStep
      <3> QED
        BY <1>1, <2>1, <3>1, <3>2
    <2>2. CASE ~resp.ready \/ resp.last
      BY <1>1, <1>3, <2>2, BridgeStep
    <2> QED
      BY <2>1, <2>2
  <1> QED
    BY <1>2, <1>3

LEMMA TypeStep ==
  ASSUME IInv, Clock
  PROVE  TypeInv'
  <1>1. TypeInv
    BY DEF IInv
  <1>2. BridgeTypeOK'
    <2>1. in_issue' \subseteq Channels
      BY <1>1, BridgeStep DEF TypeInv, BridgeTypeOK, next_issue, Channels
    <2>2. saved_req' \in cbus_req_t
      BY <1>1, BridgeStep DEF TypeInv, BridgeTypeOK
    <2> QED
      BY <2>1, <2>2, CountStep DEF BridgeTypeOK
  <1>3. up' \subseteq Channels
    <2>1. open' \subseteq Channels
      BY DEF open, Channels
    <2> QED
      BY <2>1, SlaveStep
  <1>4. rd' \in Burst \cup {NoBurst} /\ aw' \in Burst \cup {NoBurst}
    BY <1>1, AddressType, SlaveStep DEF TypeInv
  <1>5. rbeat' \in 0 .. 255
    <2>1. rbeat \in 0 .. 255
      BY <1>1 DEF TypeInv
    <2>2. CASE "R" \in Hands
      <3>1. resp.ready
        BY <2>2, RespIs
      <3>2. rbeat = beats /\ (axi.rlast <=> count = 0) /\ beats \in Nat /\ beats <= req.len
            /\ req.len <= 255 /\ count = req.len - beats
        BY <2>2, <3>1, Ready, HandsAre DEF Reading
      <3>3. req.len \in Nat
        BY <1>1, LenNat
      <3>4. rbeat' = IF axi.rlast THEN 0 ELSE rbeat + 1
        BY <2>2, SlaveStep
      <3>5. CASE axi.rlast
        BY <3>4, <3>5
      <3>6. CASE ~axi.rlast
        <4>1. count # 0
          BY <3>2, <3>6
        <4>2. rbeat + 1 \in 0 .. 255
          BY <3>2, <3>3, <4>1
        <4> QED
          BY <3>4, <3>6, <4>2
      <3> QED
        BY <3>5, <3>6
    <2>3. CASE "R" \notin Hands
      BY <2>1, <2>3, SlaveStep
    <2> QED
      BY <2>2, <2>3
  <1>6. ws' \in Seq(WBeat)
    <2>1. wbeat(req) \in WBeat
      BY <1>1 DEF TypeInv, wbeat, WBeat, cbus_req_t, is_last
    <2>2. ws \in Seq(WBeat)
      BY <1>1 DEF TypeInv
    <2>3. Append(ws, wbeat(req)) \in Seq(WBeat) /\ <<>> \in Seq(WBeat)
      BY <2>1, <2>2
    <2> QED
      BY <2>2, <2>3, SlaveStep
  <1>7. stall' \in 0 .. MaxStall
    <2>1. stall \in 0 .. MaxStall /\ MaxStall \in Nat
      BY <1>1, SlaveAssumption DEF TypeInv
    <2>2. (stall + 1) % (MaxStall + 1) \in 0 .. MaxStall
      BY <2>1
    <2> QED
      BY <2>1, <2>2, SlaveStep
  <1> QED
    BY <1>2, <1>3, <1>4, <1>5, <1>6, <1>7, ReqStep DEF TypeInv

-----------------------------------------------------------------------------
(***************************************************************************)
(* One lemma for each phase.                                               *)
(***************************************************************************)
LEMMA IdleStep ==
  ASSUME IInv, Clock, Idle
  PROVE  PhaseInv'
  <1>1. Hands = {} /\ in_issue = {} /\ beats = 0
        /\ rd = NoBurst /\ rbeat = 0 /\ aw = NoBurst /\ ws = <<>>
    BY HandsAre DEF Idle
  <1>2. rd' = NoBurst /\ rbeat' = 0 /\ aw' = NoBurst /\ ws' = <<>>
    BY <1>1, SlaveStep
  <1>3. ~resp.ready /\ ~resp.last
    BY <1>1, RespIs
  <1>4. /\ in_issue' = IF req.valid THEN next_issue(req) ELSE {}
        /\ saved_req' = req
        /\ count' = req.len
    BY <1>1, BridgeStep
  <1>5. req.len \in Nat
    BY LenNat DEF IInv
  <1>6. CASE ~req.valid
    <2>1. beats' = 0
      BY <1>6, MasterStep
    <2>2. Idle'
      BY <1>2, <1>4, <1>6, <2>1 DEF Idle
    <2> QED
      BY <2>2 DEF PhaseInv
  <1>7. CASE req.valid
    <2>1. req' = req /\ beats' = 0
      BY <1>1, <1>3, <1>7, MasterStep
    <2>2. CASE req.is_write
      <3>1. in_issue' = {"AW", "W", "B"}
        BY <1>4, <1>7, <2>2 DEF next_issue
      <3>2. Sending'
        <4>1. saved_req' = [req' EXCEPT !.data = saved_req'.data, !.strobe = saved_req'.strobe]
          BY <1>4, <2>1 DEF IInv, TypeInv, cbus_req_t
        <4>2. Len(ws') = 0 /\ ~AllData(ws')
          BY <1>2 DEF AllData
        <4> QED
          BY <1>2, <1>4, <1>5, <1>7, <2>1, <3>1, <4>1, <4>2 DEF Sending
      <3>3. Accepted'
        BY <1>2, <3>1 DEF Accepted
      <3>4. Writing'
        BY <1>2, <1>4, <2>2, <3>1, <3>2, <3>3 DEF Writing
      <3> QED
        BY <3>4 DEF PhaseInv
    <2>3. CASE ~req.is_write
      <3>1. in_issue' = {"AR", "R"}
        BY <1>4, <1>7, <2>3 DEF next_issue
      <3>2. Reading'
        BY <1>2, <1>4, <1>5, <1>7, <2>1, <2>3, <3>1 DEF Reading
      <3> QED
        BY <3>2 DEF PhaseInv
    <2> QED
      BY <2>2, <2>3
  <1> QED
    BY <1>6, <1>7

\* The payload of the address channels is the accepted request's.
LEMMA SameAddress ==
  ASSUME saved_req' = saved_req
  PROVE  address(req)' = address(req)
  BY DEF address

LEMMA ReadStep ==
  ASSUME IInv, Clock, Reading
  PROVE  PhaseInv'
  <1>1. /\ in_issue \in {{"AR", "R"}, {"R"}}
        /\ req.valid /\ ~req.is_write /\ saved_req = req
        /\ beats <= req.len /\ count = req.len - beats /\ rbeat = beats
        /\ rd = IF "AR" \in in_issue THEN NoBurst ELSE address(req)
        /\ "AR" \in in_issue => beats = 0
        /\ aw = NoBurst /\ ws = <<>>
    BY DEF Reading
  <1>2. /\ Hands \subseteq {"AR", "R"}
        /\ "AR" \in in_issue => "R" \notin Hands
        /\ Hands = in_issue \cap up
    BY HandsAre DEF Hands
  <1>3. /\ aw' = NoBurst /\ ws' = <<>> /\ saved_req' = saved_req
        /\ in_issue' = {c \in in_issue : c \in up => c = "R" /\ ~axi.rlast}
    BY <1>1, <1>2, SlaveStep, BridgeStep
  <1>4. address(req)' = address(req)
    BY <1>3, SameAddress
  <1>5. beats \in Nat /\ req.len \in Nat
    BY LenNat DEF IInv
  <1>6. CASE "R" \in Hands
    <2>1. resp.ready
      BY <1>6, RespIs
    <2>2. "AR" \notin in_issue /\ (axi.rlast <=> count = 0) /\ (resp.last <=> count = 0)
      BY <1>2, <1>6, <2>1, Ready
    <2>3. in_issue = {"R"} /\ "R" \in up /\ "AR" \notin Hands
      BY <1>1, <1>2, <1>6, <2>2
    <2>4. CASE axi.rlast
      <3>1. in_issue' = {} /\ rd' = NoBurst /\ rbeat' = 0
        BY <1>3, <1>6, <2>3, <2>4, SlaveStep
      <3>2. beats' = 0
        BY <2>2, <2>4, MasterStep
      <3>3. Idle'
        BY <1>3, <3>1, <3>2 DEF Idle
      <3> QED
        BY <3>3 DEF PhaseInv
    <2>5. CASE ~axi.rlast
      <3>1. in_issue' = {"R"} /\ rd' = rd /\ rbeat' = rbeat + 1
        BY <1>3, <1>6, <2>3, <2>5, SlaveStep
      <3>2. beats' = beats + 1 /\ req' = req
        <4>1. PICK d \in Word, s \in Strobe :
                /\ req.is_write \/ (d = 0 /\ s = 0)
                /\ req' = [req EXCEPT !.data = d, !.strobe = s]
          BY <1>1, <2>1, <2>2, <2>5, MasterStep
        <4>2. req' = [req EXCEPT !.data = req.data, !.strobe = req.strobe]
          BY <1>1, <4>1 DEF IInv, TypeInv
        <4> QED
          BY <1>1, <2>1, <2>2, <2>5, <4>2, MasterStep DEF IInv, TypeInv, cbus_req_t
      <3>3. count' = count - 1 /\ count > 0
        BY <2>1, <2>2, <2>5, CountStep
      <3>4. Reading'
        BY <1>1, <1>3, <1>4, <1>5, <2>2, <3>1, <3>2, <3>3 DEF Reading
      <3> QED
        BY <3>4 DEF PhaseInv
    <2> QED
      BY <2>4, <2>5
  <1>7. CASE "R" \notin Hands
    <2>1. ~resp.ready /\ ~resp.last
      BY <1>2, <1>7, RespIs
    <2>2. req' = req /\ beats' = beats /\ count' = count /\ rbeat' = rbeat
      BY <1>1, <1>7, <2>1, MasterStep, CountStep, SlaveStep
    <2>3. CASE "AR" \in Hands
      <3>1. in_issue' = {"R"} /\ rd' = address(req) /\ beats = 0
        BY <1>1, <1>2, <1>3, <1>7, <2>3, SlaveStep
      <3>2. Reading'
        BY <1>1, <1>3, <1>4, <2>2, <3>1 DEF Reading
      <3> QED
        BY <3>2 DEF PhaseInv
    <2>4. CASE "AR" \notin Hands
      <3>1. in_issue' = in_issue /\ rd' = rd
        BY <1>1, <1>2, <1>3, <1>7, <2>4, SlaveStep
      <3>2. Reading'
        BY <1>1, <1>3, <1>4, <2>2, <3>1 DEF Reading
      <3> QED
        BY <3>2 DEF PhaseInv
    <2> QED
      BY <2>3, <2>4
  <1> QED
    BY <1>6, <1>7

LEMMA AllDataAppend ==
  ASSUME NEW v \in Seq(WBeat), NEW w \in WBeat
  PROVE  AllData(Append(v, w)) <=> w.last
  <1>1. /\ Append(v, w) # <<>>
        /\ Len(Append(v, w)) = Len(v) + 1
        /\ Append(v, w)[Len(v) + 1] = w
    OBVIOUS
  <1> QED
    BY <1>1 DEF AllData, Last

LEMMA BeatType ==
  ASSUME TypeInv
  PROVE  wbeat(req) \in WBeat /\ (wbeat(req).last <=> count = 0)
  BY DEF TypeInv, wbeat, WBeat, cbus_req_t, is_last

\* What a write does on any edge at which no response is taken.
LEMMA WriteOpen ==
  ASSUME IInv, Clock, Writing, "B" \notin Hands
  PROVE  /\ "B" \in in_issue' /\ in_issue' \subseteq {"AW", "W", "B"}
         /\ saved_req' = saved_req /\ saved_req'.is_write
         /\ rd' = NoBurst /\ rbeat' = 0
         /\ Accepted'
         /\ "W" \in in_issue' <=> "W" \in in_issue /\ ("W" \in Hands => count # 0)
         /\ ws' = IF "W" \in Hands THEN Append(ws, wbeat(req)) ELSE ws
  <1>1. /\ "B" \in in_issue /\ in_issue \subseteq {"AW", "W", "B"} /\ saved_req.is_write
        /\ rd = NoBurst /\ rbeat = 0
        /\ aw = IF "AW" \in in_issue THEN NoBurst ELSE address(req)
    BY DEF Writing, Accepted
  <1>2. Hands \subseteq {"AW", "W"} /\ Hands = in_issue \cap up
    BY HandsAre DEF Hands
  <1>3. /\ saved_req' = saved_req
        /\ in_issue' = {c \in in_issue : c \in up =>
                          (c = "R" /\ ~axi.rlast) \/ (c = "W" /\ count # 0)}
    BY <1>1, BridgeStep
  <1>4. address(req)' = address(req)
    BY <1>3, SameAddress
  <1>5. rd' = NoBurst /\ rbeat' = 0
    BY <1>1, <1>2, SlaveStep
  <1>6. aw' = IF "AW" \in Hands THEN address(req) ELSE aw
    BY <1>2, SlaveStep
  <1>7. "AW" \in in_issue' <=> "AW" \in in_issue /\ "AW" \notin Hands
    BY <1>2, <1>3
  <1>8. Accepted'
    <2>1. aw' = IF "AW" \in in_issue' THEN NoBurst ELSE address(req)'
      BY <1>1, <1>2, <1>4, <1>6, <1>7
    <2> QED
      BY <2>1 DEF Accepted
  <1>9. /\ "B" \in in_issue' /\ in_issue' \subseteq {"AW", "W", "B"}
        /\ "W" \in in_issue' <=> "W" \in in_issue /\ ("W" \in Hands => count # 0)
    BY <1>1, <1>2, <1>3
  <1>10. ws' = IF "W" \in Hands THEN Append(ws, wbeat(req)) ELSE ws
    BY <1>2, SlaveStep
  <1> QED
    BY <1>1, <1>3, <1>5, <1>8, <1>9, <1>10

LEMMA WriteDataStep ==
  ASSUME IInv, Clock, Writing, Sending
  PROVE  PhaseInv'
  <1>1. /\ "W" \in in_issue
        /\ saved_req = [req EXCEPT !.data = saved_req.data, !.strobe = saved_req.strobe]
        /\ req.valid /\ Len(ws) = beats /\ beats <= req.len
        /\ count = req.len - beats /\ ~AllData(ws)
    BY DEF Sending
  <1>2. "B" \notin Hands
    BY <1>1, HandsAre DEF Closing
  <1>3. /\ "B" \in in_issue' /\ in_issue' \subseteq {"AW", "W", "B"}
        /\ saved_req' = saved_req /\ saved_req'.is_write
        /\ rd' = NoBurst /\ rbeat' = 0
        /\ Accepted'
        /\ "W" \in in_issue' <=> ("W" \in Hands => count # 0)
        /\ ws' = IF "W" \in Hands THEN Append(ws, wbeat(req)) ELSE ws
    BY <1>1, <1>2, WriteOpen
  <1>4. Sending' \/ Closing'
    <2>1. TypeInv /\ ws \in Seq(WBeat) /\ req \in cbus_req_t
      BY DEF IInv, TypeInv
    <2>2. beats \in Nat /\ req.len \in Nat
      BY <2>1, LenNat
    <2>3. "R" \notin in_issue /\ in_issue # {} /\ (resp.ready <=> "W" \in Hands)
      <3>1. Hands \subseteq {"AW", "W", "B"}
        BY HandsAre
      <3> QED
        BY <1>1, <3>1, RespIs DEF Writing
    <2>4. CASE "W" \notin Hands
      <3>1. req' = req /\ beats' = beats /\ count' = count
        BY <1>1, <2>3, <2>4, MasterStep, CountStep
      <3>2. "W" \in in_issue' /\ ws' = ws
        BY <1>3, <2>4
      <3>3. Sending'
        BY <1>1, <1>3, <3>1, <3>2 DEF Sending
      <3> QED
        BY <3>3
    <2>5. CASE "W" \in Hands
      <3>1. /\ resp.ready /\ (resp.last <=> count = 0)
            /\ ws' = Append(ws, wbeat(req)) /\ (AllData(ws') <=> count = 0)
        BY <1>3, <2>1, <2>3, <2>5, Ready, BeatType, AllDataAppend
      <3>2. CASE count = 0
        <4>1. beats' = 0 /\ count' = 0
          BY <2>3, <3>1, <3>2, MasterStep, CountStep
        <4>2. "W" \notin in_issue' /\ AllData(ws')
          BY <1>3, <2>5, <3>1, <3>2
        <4>3. Closing'
          BY <4>1, <4>2 DEF Closing
        <4> QED
          BY <4>3
      <3>3. CASE count # 0
        <4>1. beats' = beats + 1 /\ count' = count - 1 /\ count > 0
          BY <1>1, <3>1, <3>3, MasterStep, CountStep
        <4>2. PICK d \in Word, s \in Strobe : req' = [req EXCEPT !.data = d, !.strobe = s]
          BY <1>1, <3>1, <3>3, MasterStep
        <4>3. req'.len = req.len /\ req'.valid
          BY <1>1, <2>1, <4>2 DEF cbus_req_t
        <4>4. [req' EXCEPT !.data = saved_req.data, !.strobe = saved_req.strobe]
                = [req EXCEPT !.data = saved_req.data, !.strobe = saved_req.strobe]
          BY <2>1, <4>2 DEF cbus_req_t
        <4>5. Len(ws') = beats'
          BY <1>1, <2>1, <3>1, <4>1, BeatType
        <4>6. "W" \in in_issue' /\ ~AllData(ws')
          BY <1>3, <2>5, <3>1, <3>3
        <4>7. beats' <= req'.len /\ count' = req'.len - beats'
          BY <1>1, <2>2, <4>1, <4>3
        <4>8. saved_req' = [req' EXCEPT !.data = saved_req'.data, !.strobe = saved_req'.strobe]
          BY <1>1, <1>3, <4>4
        <4>9. Sending'
          BY <4>3, <4>5, <4>6, <4>7, <4>8 DEF Sending
        <4> QED
          BY <4>9
      <3> QED
        BY <3>2, <3>3
    <2> QED
      BY <2>4, <2>5
  <1> QED
    BY <1>3, <1>4 DEF PhaseInv, Writing

LEMMA WriteRestStep ==
  ASSUME IInv, Clock, Writing, Closing
  PROVE  PhaseInv'
  <1>1. /\ "W" \notin in_issue /\ beats = 0 /\ count = 0 /\ AllData(ws)
        /\ in_issue \subseteq {"AW", "W", "B"} /\ "B" \in in_issue
        /\ rd = NoBurst /\ rbeat = 0
    BY DEF Closing, Writing
  <1>2. Hands \subseteq {"AW", "B"}
    BY <1>1, HandsAre DEF Hands
  <1>3. ~resp.ready /\ ~resp.last
    BY <1>2, RespIs
  <1>4. beats' = 0 /\ count' = 0
    BY <1>1, <1>3, MasterStep, CountStep
  <1>5. CASE "B" \in Hands
    <2>1. in_issue = {"B"} /\ Hands = {"B"}
      BY <1>1, <1>2, <1>5, HandsAre DEF Hands
    <2>2. in_issue' = {}
      BY <1>1, <2>1, BridgeStep DEF Hands
    <2>3. rd' = NoBurst /\ rbeat' = 0 /\ aw' = NoBurst /\ ws' = <<>>
      BY <1>1, <2>1, SlaveStep
    <2>4. Idle'
      BY <1>4, <2>2, <2>3 DEF Idle
    <2> QED
      BY <2>4 DEF PhaseInv
  <1>6. CASE "B" \notin Hands
    <2>1. /\ "B" \in in_issue' /\ in_issue' \subseteq {"AW", "W", "B"}
          /\ saved_req' = saved_req /\ saved_req'.is_write
          /\ rd' = NoBurst /\ rbeat' = 0
          /\ Accepted'
          /\ "W" \notin in_issue'
          /\ ws' = ws
      BY <1>1, <1>2, <1>6, WriteOpen
    <2>2. Closing'
      BY <1>1, <1>4, <2>1 DEF Closing
    <2>3. Writing'
      BY <2>1, <2>2 DEF Writing
    <2> QED
      BY <2>3 DEF PhaseInv
  <1> QED
    BY <1>5, <1>6

LEMMA InvStep == IInv /\ [Next]_vars => IInv'
  <1> SUFFICES ASSUME IInv, [Next]_vars PROVE IInv'
    OBVIOUS
  <1>1. CASE Clock
    <2>1. PhaseInv'
      BY <1>1, IdleStep, ReadStep, WriteDataStep, WriteRestStep DEF IInv, PhaseInv, Writing
    <2>2. UpInv'
      BY <1>1, SlaveStep DEF UpInv
    <2> QED
      BY <1>1, <2>1, <2>2, TypeStep DEF IInv
  <1>2. CASE UNCHANGED vars
    BY <1>2 DEF vars, masterVars, bridgeVars, slaveVars, IInv, TypeInv, PhaseInv, UpInv,
       Idle, Reading, Writing, Sending, Closing, Accepted, AllData, address, open,
       BridgeTypeOK
  <1> QED
    BY <1>1, <1>2 DEF Next

LEMMA Invariance == Spec => []IInv
  BY InvInit, InvStep, PTL DEF Spec

-----------------------------------------------------------------------------
(***************************************************************************)
(* The theorems.                                                           *)
(***************************************************************************)
\* The memory's own type.
Kept == mem \in Memory

LEMMA KeptStep == IInv /\ Kept /\ [Next]_vars => Kept'
  <1> SUFFICES ASSUME IInv, Kept, [Next]_vars PROVE Kept'
    OBVIOUS
  <1>1. CASE Clock
    <2>1. ws \in Seq(WBeat) /\ mem \in Memory
      BY DEF IInv, TypeInv, Kept
    <2>2. Stored(mem, aw, ws) \in Memory
      BY <2>1, StoredType
    <2> QED
      BY <1>1, <2>1, <2>2, SlaveStep DEF Kept
  <1>2. CASE UNCHANGED vars
    BY <1>2 DEF vars, slaveVars, Kept
  <1> QED
    BY <1>1, <1>2 DEF Next

\* Types, and when the bridge is ready for the next request, nothing of the
\* last one is left in the memory's channels.
THEOREM Clean == Spec => []Sound
  <1>1. Spec => []Kept
    <2>1. Init => Kept
      BY DEF Init, SlaveInit, Kept
    <2> QED
      BY <2>1, KeptStep, Invariance, PTL DEF Spec
  <1>2. IInv /\ Kept => Sound
    <2> SUFFICES ASSUME IInv, Kept PROVE Sound
      OBVIOUS
    <2>1. \A n \in DOMAIN ws : ws[n] \in [data : Word, strobe : Strobe, last : BOOLEAN]
      <3>1. ws \in Seq(WBeat)
        BY DEF IInv, TypeInv
      <3>2. \A n \in DOMAIN ws : ws[n] \in WBeat
        BY <3>1
      <3> QED
        BY <3>2 DEF WBeat
    <2>2. TypeOK
      BY <2>1 DEF IInv, TypeInv, Kept, TypeOK, MasterTypeOK
    <2>3. ASSUME in_issue = {}
          PROVE  rd = NoBurst /\ aw = NoBurst /\ ws = <<>> /\ up \cap {"R", "B"} = {}
      <3>1. rd = NoBurst /\ aw = NoBurst /\ ws = <<>>
        BY <2>3 DEF IInv, PhaseInv, Idle, Reading, Writing
      <3>2. up \subseteq open
        BY DEF IInv, UpInv
      <3> QED
        BY <3>1, <3>2 DEF open
    <2> QED
      BY <2>2, <2>3 DEF Sound, NothingLeft
  <1> QED
    BY <1>1, <1>2, Invariance, PTL

\* AXI's rule for a valid signal: what the bridge shows on AR, AW or W stays
\* up, unchanged, until it is taken.
THEOREM Held == Spec => HeldUntilTaken
  <1> DEFINE waits(c) == c \in in_issue /\ c \notin up
             A == /\ waits("AR") \/ waits("AW") =>
                       in_issue' \cap {"AR", "AW"} # {} /\ address(req)' = address(req)
                  /\ waits("W") => "W" \in in_issue' /\ wbeat(req)' = wbeat(req)
  <1>1. IInv /\ [Next]_vars => [A]_vars
    <2> SUFFICES ASSUME IInv, Clock PROVE A
      BY DEF Next
    <2>1. in_issue # {} =>
            /\ in_issue' = {c \in in_issue : c \in up =>
                              (c = "R" /\ ~axi.rlast) \/ (c = "W" /\ count # 0)}
            /\ saved_req' = saved_req
      BY BridgeStep
    <2>2. ASSUME waits("AR") \/ waits("AW")
          PROVE  in_issue' \cap {"AR", "AW"} # {} /\ address(req)' = address(req)
      <3>1. saved_req' = saved_req
        BY <2>1, <2>2
      <3> QED
        BY <2>1, <2>2, <3>1, SameAddress
    <2>3. ASSUME waits("W")
          PROVE  "W" \in in_issue' /\ wbeat(req)' = wbeat(req)
      <3>1. Writing /\ Sending
        BY <2>3 DEF IInv, PhaseInv, Idle, Reading, Writing, Closing
      <3>2. ~resp.ready
        BY <2>3, <3>1, RespIs, HandsAre DEF Hands
      <3>3. req.valid
        BY <3>1 DEF Sending
      <3>4. req' = req /\ count' = count
        BY <2>3, <3>2, <3>3, MasterStep, CountStep
      <3>5. "W" \in in_issue'
        BY <2>1, <2>3
      <3> QED
        BY <3>4, <3>5 DEF wbeat, is_last
    <2> QED
      BY <2>2, <2>3
  <1>2. Spec => [][A]_vars
    BY <1>1, Invariance, PTL DEF Spec
  <1> QED
    BY <1>2 DEF HeldUntilTaken

-----------------------------------------------------------------------------
(***************************************************************************)
(* The memory of the cache bus.                                            *)
(***************************************************************************)
\* What the bridge needs of its master: bursts that wrap, the only kind it
\* can pass on, and a memory behind every beat.
Served ==
  /\ Bursts \subseteq {"WRAP"}
  /\ \A r \in NewReq : \A n \in 0 .. r.len :
       BeatAddr(r, n) \in Addr /\ Cell(BeatAddr(r, n)) \in 0 .. Cell(MemBytes - 1)

\* A request as the bridge passes it on.
Wrapped(r) == [addr |-> r.addr, len |-> r.len, size |-> r.size, burst |-> "WRAP"]

\* Its beats are in the memory, and where the master thinks they are.
Placed(r) ==
  \A n \in 0 .. r.len :
    /\ BeatAddr(Wrapped(r), n) = BeatAddr(r, n)
    /\ BeatAddr(r, n) \in Addr
    /\ Cell(BeatAddr(r, n)) \in 0 .. Cell(MemBytes - 1)

PlacedInv == req.valid => Placed(req)

\* With one beat, aligned to its size, wrapping changes nothing.
LEMMA OneBeat ==
  ASSUME NEW a \in Nat, NEW b \in {1, 2, 4, 8}, a % b = 0
  PROVE  (a \div b) * b + ((a - (a \div b) * b) % b) = a
  <1>1. CASE b = 1
    BY <1>1
  <1>2. CASE b = 2
    BY <1>2
  <1>3. CASE b = 4
    BY <1>3
  <1>4. CASE b = 8
    BY <1>4
  <1> QED
    BY <1>1, <1>2, <1>3, <1>4

LEMMA NewPlaced ==
  ASSUME Served, NEW r \in NewReq
  PROVE  Placed(r)
  <1>1. /\ r.valid /\ r.addr \in Addr /\ r.size \in msize_t /\ r.len \in mlen_t
        /\ r.addr % Bytes(r.size) = 0
        /\ r.burst \in {"WRAP", "FIXED"}
        /\ r.len > 0 => r.burst = "WRAP"
    <2>1. r \in cbus_req_t /\ r.valid
      BY NewReqType
    <2>2. r.addr \in Addr /\ r.size \in msize_t /\ r.len \in mlen_t
      BY <2>1 DEF cbus_req_t
    <2> QED
      BY <2>1, <2>2 DEF NewReq, Served
  <1>2. r.addr \in Nat /\ r.len \in Nat
    BY <1>1, LenType DEF Addr, mlen_t, MLEN1
  <1>3. \A n \in 0 .. r.len :
          BeatAddr(r, n) \in Addr /\ Cell(BeatAddr(r, n)) \in 0 .. Cell(MemBytes - 1)
    BY DEF Served
  <1>4. Bytes(r.size) \in {1, 2, 4, 8}
    BY <1>1 DEF Bytes, msize_t
  <1>5. ASSUME NEW n \in 0 .. r.len
        PROVE  BeatAddr(Wrapped(r), n) = BeatAddr(r, n)
    <2>1. /\ Wrapped(r).addr = r.addr /\ Wrapped(r).len = r.len
          /\ Wrapped(r).size = r.size /\ Wrapped(r).burst = "WRAP"
      BY DEF Wrapped
    <2>2. CASE r.burst = "WRAP"
      BY <2>1, <2>2 DEF BeatAddr
    <2>3. CASE r.burst # "WRAP"
      <3>1. r.burst = "FIXED" /\ r.len = 0 /\ n = 0
        BY <1>1, <1>2, <2>3
      <3>2. BeatAddr(r, n) = r.addr
        BY <3>1 DEF BeatAddr
      <3> DEFINE b == Bytes(r.size)
                 a == r.addr
      <3>3. BeatAddr(Wrapped(r), n) =
              (a \div ((0 + 1) * b)) * ((0 + 1) * b)
                + ((a - (a \div ((0 + 1) * b)) * ((0 + 1) * b) + 0 * b) % ((0 + 1) * b))
        BY <2>1, <3>1 DEF BeatAddr
      <3>4. a \in Nat /\ b \in {1, 2, 4, 8} /\ a % b = 0
        BY <1>1, <1>2, <1>4
      <3> HIDE DEF a, b
      <3>5. (0 + 1) * b = b /\ 0 * b = 0
        BY <3>4
      <3>6. a \div b \in Nat /\ (a \div b) * b \in Int
        BY <3>4
      <3>7. a - (a \div b) * b + 0 = a - (a \div b) * b
        BY <3>4, <3>6
      <3>8. (a \div b) * b + ((a - (a \div b) * b) % b) = a
        BY <3>4, OneBeat
      <3>9. BeatAddr(Wrapped(r), n) = a
        BY <3>3, <3>5, <3>7, <3>8
      <3> QED
        BY <3>2, <3>9 DEF a
    <2> QED
      BY <2>2, <2>3
  <1> QED
    BY <1>3, <1>5 DEF Placed

LEMMA PlacedStep ==
  ASSUME Served, IInv, PlacedInv, [Next]_vars
  PROVE  PlacedInv'
  <1>1. CASE Clock
    <2>1. CASE ~req.valid \/ resp.last
      <3>1. req' \in NewReq \cup {NoReq}
        BY <1>1, <2>1, MasterStep
      <3>2. CASE req' = NoReq
        BY <3>2, NoReqType DEF PlacedInv
      <3>3. CASE req' \in NewReq
        <4>1. PICK r \in NewReq : r = req'
          BY <3>3
        <4>2. Placed(r)
          BY NewPlaced
        <4> QED
          BY <4>1, <4>2 DEF PlacedInv, Placed, Wrapped
      <3> QED
        BY <3>1, <3>2, <3>3
    <2>2. CASE req.valid /\ resp.ready /\ ~resp.last
      <3>1. PICK d \in Word, s \in Strobe : req' = [req EXCEPT !.data = d, !.strobe = s]
        BY <1>1, <2>2, MasterStep
      <3>2. req \in cbus_req_t
        BY DEF IInv, TypeInv
      <3>3. /\ req'.addr = req.addr /\ req'.len = req.len /\ req'.size = req.size
            /\ req'.burst = req.burst
        BY <3>1, <3>2 DEF cbus_req_t
      <3>4. \A n : /\ BeatAddr(req', n) = BeatAddr(req, n)
                   /\ Wrapped(req') = Wrapped(req)
        BY <3>3 DEF BeatAddr, Wrapped
      <3> QED
        BY <2>2, <3>3, <3>4 DEF PlacedInv, Placed
    <2>3. CASE req.valid /\ ~resp.ready
      <3>1. req' = req
        BY <1>1, <2>3, MasterStep
      <3> QED
        BY <3>1 DEF PlacedInv, Placed, Wrapped
    <2> QED
      BY <2>1, <2>2, <2>3
  <1>2. CASE UNCHANGED vars
    BY <1>2 DEF vars, masterVars, PlacedInv, Placed, Wrapped
  <1> QED
    BY <1>1, <1>2 DEF Next

\* The master's request and the burst that the bridge passed on have their
\* beats in the same places, while there are beats to come.
LEMMA SamePlace ==
  ASSUME IInv, PlacedInv, Reading \/ (Writing /\ Sending)
  PROVE  /\ BeatAddr(address(req), beats) = BeatAddr(req, beats)
         /\ BeatAddr(req, beats) \in Addr
         /\ Cell(BeatAddr(req, beats)) \in 0 .. Cell(MemBytes - 1)
  <1>1. /\ req.valid /\ beats <= req.len
        /\ saved_req = [req EXCEPT !.data = saved_req.data, !.strobe = saved_req.strobe]
    <2>1. req \in cbus_req_t
      BY DEF IInv, TypeInv
    <2> QED
      BY <2>1 DEF Reading, Sending, cbus_req_t
  <1>2. saved_req.addr = req.addr /\ saved_req.len = req.len /\ saved_req.size = req.size
    <2>1. req \in cbus_req_t
      BY DEF IInv, TypeInv
    <2> QED
      BY <1>1, <2>1 DEF cbus_req_t
  <1>3. address(req) = Wrapped(req)
    BY <1>2 DEF address, Wrapped
  <1>4. beats \in 0 .. req.len
    <2>1. req.len \in Nat /\ beats \in Nat
      BY LenNat DEF IInv
    <2> QED
      BY <1>1, <2>1
  <1> QED
    BY <1>1, <1>3, <1>4 DEF PlacedInv, Placed

\* The memory the master may think of.
Believed == Stored(mem, address(req), ws)

AnswerOK ==
  /\ resp \in cbus_resp_t
  /\ Bus!IsAnswer(resp, Believed, req, beats)

LEMMA BusBeat == \A r, n : Bus!BeatAddr(r, n) = BeatAddr(r, n)
  BY DEF Bus!BeatAddr, BeatAddr, Bus!Bytes, Bytes

LEMMA DataType ==
  ASSUME IInv, Kept, PlacedInv
  PROVE  axi.rdata \in Word
  <1>1. axi.rdata = IF "R" \in up THEN mem[Cell(BeatAddr(rd, rbeat))] ELSE 0
    BY DEF axi
  <1>2. CASE "R" \in up
    <2>1. rd # NoBurst
      BY <1>2 DEF IInv, UpInv, open
    <2>2. Reading /\ rd = address(req) /\ rbeat = beats
      BY <2>1 DEF IInv, PhaseInv, Idle, Reading, Writing
    <2>3. Cell(BeatAddr(rd, rbeat)) \in 0 .. Cell(MemBytes - 1)
      BY <2>2, SamePlace
    <2> QED
      BY <1>1, <1>2, <2>3 DEF Kept, Memory
  <1>3. CASE "R" \notin up
    BY <1>1, <1>3, BusAssumption DEF Word
  <1> QED
    BY <1>2, <1>3

LEMMA Answers ==
  ASSUME IInv, Kept, PlacedInv
  PROVE  AnswerOK
  <1>1. resp \in cbus_resp_t
    <2>1. resp.ready \in BOOLEAN /\ resp.last \in BOOLEAN /\ resp.data \in Word
          /\ resp = [ready |-> resp.ready, last |-> resp.last, data |-> resp.data]
      BY DataType, RespIs DEF resp, cresp
    <2> QED
      BY <2>1 DEF cbus_resp_t
  <1>2. CASE ~resp.ready
    BY <1>1, <1>2, RespIs DEF AnswerOK, Bus!IsAnswer
  <1>3. CASE resp.ready
    <2>1. /\ req.valid /\ count = req.len - beats
          /\ resp.last <=> count = 0
          /\ beats \in Nat /\ req.len \in Nat
      BY <1>3, Ready, LenNat DEF IInv
    <2>2. resp.last <=> beats = req.len
      BY <2>1
    <2>3. ASSUME ~req.is_write
          PROVE  resp.data = Believed[Cell(BeatAddr(req, beats))]
      <3>1. Reading /\ "R" \in Hands /\ "AR" \notin in_issue
        <4>1. ~(Writing /\ Sending)
          <5>1. req \in cbus_req_t
            BY DEF IInv, TypeInv
          <5> QED
            BY <2>3, <5>1 DEF Writing, Sending, cbus_req_t
        <4> QED
          BY <1>3, <4>1, Ready
      <3>2. rd = address(req) /\ rbeat = beats /\ ws = <<>> /\ "R" \in up
        BY <3>1 DEF Reading, Hands
      <3>3. Believed = mem
        BY <3>2, StoredNothing DEF Believed
      <3>4. BeatAddr(address(req), beats) = BeatAddr(req, beats)
        BY <3>1, SamePlace
      <3> QED
        BY <3>2, <3>3, <3>4, RespIs DEF axi
    <2>4. Bus!BeatAddr(req, beats) = BeatAddr(req, beats)
      BY BusBeat
    <2>5. Bus!Cell(BeatAddr(req, beats)) = Cell(BeatAddr(req, beats))
      BY DEF Bus!Cell, Cell
    <2> HIDE DEF resp, Believed
    <2>6. ~req.is_write => resp.data = Believed[Bus!Cell(Same(Bus!BeatAddr(req, beats)))]
      BY <2>3, <2>4, <2>5 DEF Same
    <2>7. Bus!IsAnswer(resp, Believed, req, beats)
      BY <1>3, <2>1, <2>2, <2>6 DEF Bus!IsAnswer
    <2> QED
      BY <1>1, <2>7 DEF AnswerOK
  <1> QED
    BY <1>2, <1>3

\* A beat counts when it is answered: later steps of the bridge and of the
\* memory, up to the response, change nothing in what the master believes.
LEMMA BelievedStep ==
  ASSUME IInv, Kept, PlacedInv, Clock
  PROVE  Believed' = IF resp.ready /\ req.is_write /\ BeatAddr(req, beats) \in Addr
                       THEN Written(Believed, BeatAddr(req, beats), req.data, req.strobe)
                       ELSE Believed
  <1>1. CASE Idle
    <2>1. Hands = {} /\ ws = <<>>
      BY <1>1, HandsAre DEF Idle
    <2>2. ws' = <<>> /\ mem' = mem /\ ~resp.ready
      BY <2>1, SlaveStep, RespIs
    <2>3. Believed = mem /\ Believed' = mem'
      BY <2>1, <2>2, StoredNothing DEF Believed
    <2> QED
      BY <2>2, <2>3
  <1>2. CASE Reading
    <2>1. Hands \subseteq {"AR", "R"} /\ ws = <<>> /\ ~req.is_write
      BY <1>2, HandsAre DEF Reading
    <2>2. ws' = <<>> /\ mem' = mem
      BY <2>1, SlaveStep
    <2>3. Believed = mem /\ Believed' = mem'
      BY <2>1, <2>2, StoredNothing DEF Believed
    <2> QED
      BY <2>1, <2>2, <2>3
  <1>3. CASE Writing /\ "B" \notin Hands
    <2>1. /\ saved_req' = saved_req
          /\ ws' = IF "W" \in Hands THEN Append(ws, wbeat(req)) ELSE ws
      BY <1>3, WriteOpen
    <2>2. mem' = mem /\ address(req)' = address(req)
      BY <1>3, <2>1, SlaveStep, SameAddress
    <2>3. resp.ready <=> "W" \in Hands
      BY <1>3, HandsAre, RespIs
    <2>4. CASE "W" \notin Hands
      BY <2>1, <2>2, <2>3, <2>4 DEF Believed
    <2>5. CASE "W" \in Hands
      <3>1. Sending
        BY <1>3, <2>5 DEF Writing, Closing, Hands
      <3>2. req.is_write /\ Len(ws) = beats
        <4>1. req \in cbus_req_t
          BY DEF IInv, TypeInv
        <4> QED
          BY <1>3, <3>1, <4>1 DEF Writing, Sending, cbus_req_t
      <3>3. /\ BeatAddr(address(req), beats) = BeatAddr(req, beats)
            /\ BeatAddr(req, beats) \in Addr
        BY <1>3, <3>1, SamePlace
      <3>4. wbeat(req) \in WBeat /\ ws \in Seq(WBeat)
            /\ wbeat(req).data = req.data /\ wbeat(req).strobe = req.strobe
        BY BeatType DEF IInv, TypeInv, wbeat
      <3>5. Believed' = Stored(mem, address(req), Append(ws, wbeat(req)))
        BY <2>1, <2>2, <2>5 DEF Believed
      <3>6. Stored(mem, address(req), Append(ws, wbeat(req))) =
              Written(Believed, BeatAddr(address(req), Len(ws)), req.data, req.strobe)
        BY <3>4, StoredAppend DEF Believed
      <3> QED
        BY <2>3, <2>5, <3>2, <3>3, <3>5, <3>6
    <2> QED
      BY <2>4, <2>5
  <1>4. CASE Writing /\ "B" \in Hands
    <2>1. "AW" \notin in_issue /\ Closing
      BY <1>4, HandsAre
    <2>2. "W" \notin Hands /\ "R" \notin Hands
      BY <1>4, <2>1, HandsAre DEF Closing, Hands
    <2>3. aw = address(req)
      BY <1>4, <2>1 DEF Writing, Accepted
    <2>4. ws' = <<>> /\ mem' = Stored(mem, aw, ws) /\ ~resp.ready
      BY <1>4, <2>2, SlaveStep, RespIs
    <2>5. Believed' = mem'
      BY <2>4, StoredNothing DEF Believed
    <2> QED
      BY <2>3, <2>4, <2>5 DEF Believed
  <1> QED
    BY <1>1, <1>2, <1>3, <1>4 DEF IInv, PhaseInv

LEMMA ClockBus ==
  ASSUME IInv, Kept, PlacedInv, AnswerOK', Clock
  PROVE  Bus!Next
  <1>1. Bus!MasterClock(resp)
    BY DEF Clock, MasterClock, Turn, Advance, Stay, NewReq, masterVars, NoReq, MLEN1, Bytes,
       Strobe, Word,
       Bus!MasterClock, Bus!Turn, Bus!Advance, Bus!Stay, Bus!NewReq, Bus!masterVars,
       Bus!NoReq, Bus!MLEN1, Bus!Bytes, Bus!Strobe, Bus!Word
  <1>2. \A m, a, w, k : Bus!Written(m, a, w, k) = Written(m, a, w, k)
    BY DEF Bus!Written, Written, Bus!Cell, Cell
  <1> QED
    BY <1>1, <1>2, BelievedStep, BusBeat
       DEF AnswerOK, Believed, Same, Bus!Next, Bus!Clock, Bus!cbus_resp_t, cbus_resp_t,
       Bus!Word, Word

\* For bursts that wrap, with a memory behind them, master, bridge and AXI
\* memory together are the memory of the cache bus: a write has happened as
\* soon as its beat was answered, and last comes with the last beat alone.
THEOREM Implements ==
  ASSUME Served
  PROVE  Spec => AsBurstMemory
  <1>1. Spec => []Kept
    <2>1. Init => Kept
      BY DEF Init, SlaveInit, Kept
    <2> QED
      BY <2>1, KeptStep, Invariance, PTL DEF Spec
  <1>2. Spec => []PlacedInv
    <2>1. Init => PlacedInv
      BY NoReqType DEF Init, MasterInit, PlacedInv
    <2>2. IInv /\ PlacedInv /\ [Next]_vars => PlacedInv'
      BY PlacedStep
    <2> QED
      BY <2>1, <2>2, Invariance, PTL DEF Spec
  <1>3. IInv /\ Kept /\ PlacedInv => AnswerOK
    BY Answers
  <1>4. Init /\ AnswerOK => Bus!Init
    <2> SUFFICES ASSUME Init, AnswerOK PROVE Bus!Init
      OBVIOUS
    <2>1. Believed = mem /\ mem \in Memory
      BY StoredNothing DEF Init, SlaveInit, Believed
    <2> QED
      BY <2>1 DEF Init, AnswerOK, Believed, MasterInit, Bus!Init, Bus!MasterInit, NoReq,
         MLEN1, Bus!NoReq, Bus!MLEN1, Bus!Memory, Memory, Bus!Cell, Cell, Bus!Word, Word,
         Bus!cbus_resp_t, cbus_resp_t
  <1>5. IInv /\ Kept /\ PlacedInv /\ AnswerOK' /\ [Next]_vars
          => [Bus!Next]_<<masterVars, Believed, resp>>
    <2> SUFFICES ASSUME IInv, Kept, PlacedInv, AnswerOK', [Next]_vars
                 PROVE  [Bus!Next]_<<masterVars, Believed, resp>>
      OBVIOUS
    <2>1. CASE Clock
      BY <2>1, ClockBus
    <2>2. CASE UNCHANGED vars
      BY <2>2 DEF vars, masterVars, bridgeVars, slaveVars, Believed, address, resp, cresp,
         axi, handshake, is_last
    <2> QED
      BY <2>1, <2>2 DEF Next
  <1>6. Bus!Spec <=> Bus!Init /\ [][Bus!Next]_<<masterVars, Believed, resp>>
    BY DEF Bus!Spec, Bus!masterVars, masterVars, Believed
  <1> QED
    BY <1>1, <1>2, <1>3, <1>4, <1>5, <1>6, Invariance, PTL DEF AsBurstMemory, Spec
=============================================================================
