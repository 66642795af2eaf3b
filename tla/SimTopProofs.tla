---------------------------- MODULE SimTopProofs ----------------------------
(***************************************************************************)
(* Proofs about the processor of module SimTop, for every word width,      *)
(* memory size, program, instruction semantics and memory delay.           *)
(***************************************************************************)
EXTENDS SimTop, TLAPS

\* The types the nets depend on: all but that of Difftest's register view.
NetTypeOK == CoreTypeOK /\ ArbTypeOK /\ RamTypeOK

-----------------------------------------------------------------------------
(***************************************************************************)
(* Types of the nets.                                                      *)
(***************************************************************************)

LEMMA IdxType ==
  ASSUME NEW a \in Addr
  PROVE  Idx(a) \in Nat
  <1>1. Base \in Nat /\ a \in Nat /\ WordBytes \in Nat \ {0}
    BY MapAssumption, BusAssumption DEF Addr
  <1> QED
    BY <1>1 DEF Idx

\* What the memory map reads at any address is a word.
LEMMA ReadType ==
  ASSUME mem \in Memory, dev \in Devices, NEW a \in Addr
  PROVE  ReadData(mem, dev, a) \in Word
  <1> USE BusAssumption, MapAssumption
  <1>1. Idx(a) \in Nat
    BY IdxType
  <1>2. Idx(a) % RamWords \in 0 .. RamWords - 1
    BY <1>1
  <1>3. RamRead(mem, a) \in Word
    BY <1>2 DEF RamRead, Memory
  <1>4. /\ 0 \in Word
        /\ 0 \in Word /\ 1 \in Word
        /\ dev.msip \in 0 .. 1
        /\ dev.mtimecmp \in Word
        /\ dev.mtime \in Word
        /\ dev.ms_cnt \in Word
    BY DEF Devices, Word
  <1>5. dev.msip \in Word
    BY <1>4
  <1> QED
    BY <1>3, <1>4, <1>5 DEF ReadData

\* The response nets are well typed.
LEMMA OrespType ==
  ASSUME NetTypeOK
  PROVE  oresp \in cbus_resp_t
  <1>1. NoResp \in cbus_resp_t
    BY BusAssumption DEF NoResp, cbus_resp_t, Word
  <1>2. ReadData(mem, dev, addr) \in Word
    BY ReadType DEF NetTypeOK, RamTypeOK
  <1>3. 0 \in Word
    BY BusAssumption DEF Word
  <1> QED
    BY <1>1, <1>2, <1>3 DEF oresp, cbus_resp_t, Last

\* Register reads and the data-bus request of any instruction.
LEMMA OperandType ==
  ASSUME NetTypeOK, NEW i \in CoreInstr
  PROVE  /\ rfq1(i) \in Word
         /\ rfq2(i) \in Word
  <1>1. 0 \in Word
    BY BusAssumption DEF Word
  <1>2. i.rs1 \in Reg /\ i.rs2 \in Reg
    BY DatapathAssumption DEF CoreInstr, Instr, Nop, Reg
  <1> QED
    BY <1>1, <1>2 DEF rfq1, rfq2, RegRead, NetTypeOK, CoreTypeOK, RegFile, Reg

LEMMA DreqType ==
  ASSUME NetTypeOK, NEW i \in CoreInstr
  PROVE  dreq(i) \in dbus_req_t
  <1>1. rfq1(i) \in Word /\ rfq2(i) \in Word
    BY OperandType
  <1>2. Ea(i, rfq1(i)) \in Addr
    BY <1>1, DatapathAssumption
  <1>3. 0 \in Strobe /\ 0 \in Word
    BY BusAssumption DEF Strobe, Word
  <1>4. /\ StoreStrobe(i, Ea(i, rfq1(i))) \in Strobe
        /\ StoreData(i, Ea(i, rfq1(i)), rfq2(i)) \in Word
        /\ MSize(i) \in msize_t
    BY <1>1, <1>2, DatapathAssumption
  <1> QED
    BY <1>2, <1>3, <1>4 DEF dreq, dbus_req_t, d_valid

LEMMA ToCBusType ==
  ASSUME NEW d \in dbus_req_t
  PROVE  ToCBus(d) \in cbus_req_t
  BY DEF ToCBus, cbus_req_t, dbus_req_t, mlen_t, MLEN1, axi_burst_type_t

LEMMA IcreqType ==
  ASSUME NetTypeOK
  PROVE  icreq \in cbus_req_t
  <1>1. IREQ_TO_DREQ(ireq_valid, pc) \in dbus_req_t
    BY BusAssumption DEF IREQ_TO_DREQ, dbus_req_t, NetTypeOK, CoreTypeOK, msize_t,
       MSIZE4, Strobe, Word
  <1> QED
    BY <1>1, ToCBusType DEF icreq

-----------------------------------------------------------------------------
(***************************************************************************)
(* Every variable keeps its type, whatever kinds of instruction programs   *)
(* contain.  The only part of TypeOK that is not inductive is the range of *)
(* the units' counters: a running unit has not passed its last round.      *)
(***************************************************************************)
InRound(u) == u.state = 1 => u.count <= Rounds + 1

TypeInv == TypeOK /\ InRound(mulu) /\ InRound(divu)

\* The instruction that decode sees.
LEMMA CurType ==
  ASSUME NetTypeOK
  PROVE  /\ cur \in CoreInstr
         /\ iresp.data_ok \in BOOLEAN
         /\ dresp.data_ok \in BOOLEAN
         /\ dresp.data \in Word
  <1>1. \A k \in Masters : irespOf(k, oresp) \in cbus_resp_t
    BY OrespType, BusAssumption DEF irespOf, NoResp, cbus_resp_t, Word
  <1>2. DMASTER \in Masters /\ IMASTER \in Masters
    BY TopAssumption DEF DMASTER, IMASTER, Masters
  <1>3. InstrAt(irespOf(IMASTER, oresp).data, pc) \in Instr
    BY <1>1, <1>2, DatapathAssumption DEF cbus_resp_t, NetTypeOK, CoreTypeOK
  <1>4. /\ iresp.data_ok \in BOOLEAN
        /\ dresp.data_ok \in BOOLEAN
        /\ dresp.data \in Word
    BY <1>1, <1>2 DEF iresp, dresp, Okay, cbus_resp_t
  <1>5. iresp.data \in CoreInstr
    BY <1>3 DEF iresp, CoreInstr
  <1> QED
    BY <1>4, <1>5 DEF cur, instr, NetTypeOK, CoreTypeOK

\* One clock edge of a unit.
LEMMA UnitStepType ==
  ASSUME NEW P, NEW u \in UnitState(P), InRound(u),
         NEW valid \in BOOLEAN, NEW loaded \in P, NEW stepped \in P
  PROVE  /\ UnitNext(u, valid, loaded, stepped) \in UnitState(P)
         /\ InRound(UnitNext(u, valid, loaded, stepped))
  <1> USE RoundsAssumption
  <1>1. /\ u.state \in 0 .. 1
        /\ u.count \in 0 .. Rounds + 2
        /\ u.done \in BOOLEAN
        /\ u.p \in P
    BY DEF UnitState
  <1>2. CASE u.state = 0
    BY <1>1, <1>2 DEF UnitNext, UnitState, InRound
  <1>3. CASE u.state = 1 /\ ~valid
    BY <1>1, <1>3 DEF UnitNext, UnitState, InRound
  <1>4. CASE u.state = 1 /\ valid /\ u.count = 0
    BY <1>1, <1>4 DEF UnitNext, UnitState, InRound
  <1>5. CASE u.state = 1 /\ valid /\ u.count = Rounds + 1
    BY <1>1, <1>5 DEF UnitNext, UnitState, InRound
  <1>6. CASE u.state = 1 /\ valid /\ u.count # 0 /\ u.count # Rounds + 1
    <2>1. u.count + 1 \in 0 .. Rounds + 1
      BY <1>1, <1>6 DEF InRound
    <2> QED
      BY <1>1, <1>6, <2>1 DEF UnitNext, UnitState, InRound
  <1> QED
    BY <1>1, <1>2, <1>3, <1>4, <1>5, <1>6

\* One clock edge of the core.
LEMMA WriteDataType ==
  ASSUME NetTypeOK, NEW i \in CoreInstr
  PROVE  writeregdata(i, dresp) \in Word
  <1>1. rfq1(i) \in Word /\ rfq2(i) \in Word /\ dresp.data \in Word
    BY OperandType, CurType
  <1>2. \A u \in UnitState(Acc) : unitres(i, u) \in Word
    <2> SUFFICES ASSUME NEW u \in UnitState(Acc)
                 PROVE  unitres(i, u) \in Word
      OBVIOUS
    <2>1. u.p.as \in SUBSET Word /\ u.p.bs \in SUBSET Word
      BY DEF UnitState, Acc
    <2>2. /\ u.p.as \cup {rfq1(i)} \in SUBSET Word
          /\ u.p.bs \cup {rfq2(i)} \in SUBSET Word
      BY <1>1, <2>1
    <2> QED
      BY <2>2, DatapathAssumption DEF unitres
  <1>3. unitres(i, mulu) \in Word /\ unitres(i, divu) \in Word
    BY <1>2 DEF NetTypeOK, CoreTypeOK
  <1>4. Ea(i, rfq1(i)) \in Addr
    BY <1>1, DatapathAssumption
  <1>5. LoadVal(i, Ea(i, rfq1(i)), dresp.data) \in Word
    BY <1>1, <1>4, DatapathAssumption
  <1>6. AluRes(i, rfq1(i), rfq2(i), pc) \in Word
    BY <1>1, DatapathAssumption DEF NetTypeOK, CoreTypeOK
  <1> QED
    BY <1>3, <1>5, <1>6 DEF writeregdata

LEMMA CoreStepType ==
  ASSUME NetTypeOK, InRound(mulu), InRound(divu),
         CoreClock(cur, iresp, dresp)
  PROVE  CoreTypeOK' /\ InRound(mulu)' /\ InRound(divu)'
  <1>1. /\ cur \in CoreInstr
        /\ rfq1(cur) \in Word
        /\ rfq2(cur) \in Word
    BY CurType, OperandType
  <1>2. ireq_valid' \in BOOLEAN
    BY CurType DEF NetTypeOK, CoreTypeOK, CoreClock, IreqClock
  <1>3. pc' \in Addr
    BY <1>1, DatapathAssumption
    DEF NetTypeOK, CoreTypeOK, CoreClock, PcClock
  <1>4. curr_instr' \in CoreInstr
    <2>1. Nop \in CoreInstr
      BY DEF CoreInstr
    <2> QED
      BY <1>1, <2>1 DEF NetTypeOK, CoreTypeOK, CoreClock, CurrInstrClock
  <1>5. regs' \in RegFile
    <2>1. writeregdata(cur, dresp) \in Word
      BY <1>1, WriteDataType
    <2>2. Dest(cur) \in Reg
      BY <1>1, DatapathAssumption DEF Dest, CoreInstr, Instr, Nop, Reg
    <2> QED
      BY <2>1, <2>2, DatapathAssumption
      DEF NetTypeOK, CoreTypeOK, CoreClock, RegfileClock, RegWrite,
          RegFile, Reg
  <1>6. /\ mul_valid(cur) \in BOOLEAN
        /\ div_valid(cur) \in BOOLEAN
        /\ Loaded(cur) \in Acc
        /\ Stepped(cur, mulu) \in Acc
        /\ Stepped(cur, divu) \in Acc
    BY <1>1 DEF mul_valid, div_valid, Loaded, Stepped, Acc, NetTypeOK,
                CoreTypeOK, UnitState
  <1>7. mulu' \in UnitState(Acc) /\ InRound(mulu)'
    <2>1. /\ mulu \in UnitState(Acc)
          /\ InRound(mulu)
          /\ mulu' = UnitNext(mulu, mul_valid(cur), Loaded(cur), Stepped(cur, mulu))
      BY DEF NetTypeOK, CoreTypeOK, CoreClock, UnitClock
    <2>2. /\ UnitNext(mulu, mul_valid(cur), Loaded(cur), Stepped(cur, mulu))
               \in UnitState(Acc)
          /\ InRound(UnitNext(mulu, mul_valid(cur), Loaded(cur), Stepped(cur, mulu)))
      BY <1>6, <2>1, UnitStepType
    <2> QED
      BY <2>1, <2>2 DEF InRound
  <1>8. divu' \in UnitState(Acc) /\ InRound(divu)'
    <2>1. /\ divu \in UnitState(Acc)
          /\ InRound(divu)
          /\ divu' = UnitNext(divu, div_valid(cur), Loaded(cur), Stepped(cur, divu))
      BY DEF NetTypeOK, CoreTypeOK, CoreClock, UnitClock
    <2>2. /\ UnitNext(divu, div_valid(cur), Loaded(cur), Stepped(cur, divu))
               \in UnitState(Acc)
          /\ InRound(UnitNext(divu, div_valid(cur), Loaded(cur), Stepped(cur, divu)))
      BY <1>6, <2>1, UnitStepType
    <2> QED
      BY <2>1, <2>2 DEF InRound
  <1> QED
    BY <1>2, <1>3, <1>4, <1>5, <1>7, <1>8 DEF CoreTypeOK

\* One clock edge of the arbiter.
LEMMA IreqsType ==
  ASSUME NetTypeOK
  PROVE  ireqs \in [Masters -> cbus_req_t]
  <1>1. dreq(cur) \in dbus_req_t
    BY CurType, DreqType
  <1>2. dcreq \in cbus_req_t
    BY <1>1, ToCBusType DEF dcreq
  <1> QED
    BY <1>2, IcreqType DEF ireqs

LEMMA NoReqType == NoReq \in cbus_req_t
  BY BusAssumption
  DEF NoReq, cbus_req_t, msize_t, Addr, Strobe, Word, mlen_t, MLEN1,
      axi_burst_type_t

LEMMA ArbStepType ==
  ASSUME NetTypeOK, ArbClock(ireqs, oresp)
  PROVE  ArbTypeOK'
  <1>1. CASE Release(oresp)
    BY <1>1, NoReqType DEF Release, ArbTypeOK, NetTypeOK
  <1>2. CASE Hold(oresp)
    BY <1>2 DEF Hold, arbVars, ArbTypeOK, NetTypeOK
  <1>3. CASE Select(ireqs)
    BY <1>3, IreqsType DEF Select, ArbTypeOK, NetTypeOK, cbus_req_t
  <1> QED
    BY <1>1, <1>2, <1>3 DEF ArbClock

\* Stores and ticks keep the memory map's types.
LEMMA WriteMemType ==
  ASSUME NetTypeOK, NEW a \in Addr, NEW w \in Word, NEW s \in Strobe
  PROVE  WriteMem(mem, a, w, s) \in Memory
  <1> USE BusAssumption, MapAssumption
  <1>1. mem \in Memory
    BY DEF NetTypeOK, RamTypeOK
  <1>2. Idx(a) \in Nat
    BY IdxType
  <1>3. ASSUME Idx(a) < RamWords
        PROVE  Merge(mem[Idx(a)], w, s) \in Word
    BY <1>1, <1>2, <1>3 DEF Memory
  <1> QED
    BY <1>1, <1>2, <1>3 DEF WriteMem, RamWrite, Memory

LEMMA TickDevType ==
  ASSUME NEW d \in Devices, NEW tick \in BOOLEAN
  PROVE  TickDev(d, tick) \in Devices
  <1>1. \A n \in Word : (n + 1) % WordMod \in Word
    BY BusAssumption DEF Word
  <1>2. d.mtime \in Word /\ d.ms_cnt \in Word
    BY DEF Devices
  <1> QED
    BY <1>1, <1>2 DEF TickDev, Devices

LEMMA WriteDevType ==
  ASSUME NEW d \in Devices, NEW a \in Addr, NEW w \in Word, NEW s \in Strobe
  PROVE  WriteDev(d, a, w, s) \in Devices
  <1>1. (d.out + 1) % WordMod \in Word
    BY BusAssumption DEF Word, Devices
  <1>2. w % 2 \in 0 .. 1
    BY DEF Word
  <1>3. [d EXCEPT !.out = (@ + 1) % WordMod] \in Devices
    BY <1>1 DEF Devices
  <1>4. [d EXCEPT !.msip = w % 2] \in Devices
    BY <1>2 DEF Devices
  <1>5. [d EXCEPT !.mtimecmp = w] \in Devices
    BY DEF Devices
  <1>6. [d EXCEPT !.mtime = w] \in Devices
    BY DEF Devices
  <1> QED
    BY <1>3, <1>4, <1>5, <1>6 DEF WriteDev

\* One clock edge of the memory.
LEMMA RemainderBound ==
  ASSUME NEW a \in Nat, NEW d \in Nat \ {0}
  PROVE  a % d \in 0 .. a
  <1>1. /\ a = d * (a \div d) + (a % d)
        /\ a \div d \in Nat
        /\ a % d \in Nat
    OBVIOUS
  <1> DEFINE q == a \div d
  <1>2. d * q \in Nat
    BY <1>1
  <1> QED
    BY <1>1, <1>2

LEMMA OreqType ==
  ASSUME NetTypeOK
  PROVE  oreq \in cbus_req_t
  BY IreqsType, NoReqType DEF oreq, oreqOf, NetTypeOK, ArbTypeOK

LEMMA StartType ==
  ASSUME NEW r \in cbus_req_t
  PROVE  /\ Bytes(r.size) \in {1, 2, 4, 8}
         /\ WrapLow(r) \in Addr
         /\ (WrapLow(r) + Span(r)) % AddrMod \in Addr
         /\ (r.addr + Bytes(r.size)) % AddrMod \in Addr
  <1>1. Bytes(r.size) \in {1, 2, 4, 8}
    BY DEF Bytes, cbus_req_t, msize_t
  <1>2. r.len \in 0 .. 255 /\ r.addr \in Addr /\ AddrMod \in Nat \ {0}
    BY BusAssumption DEF cbus_req_t, mlen_t
  <1>3. Span(r) \in Nat \ {0}
    BY <1>1, <1>2 DEF Span
  <1>4. r.addr % Span(r) \in 0 .. r.addr
    BY <1>2, <1>3, RemainderBound DEF Addr
  <1>5. WrapLow(r) \in Addr
    BY <1>2, <1>4 DEF WrapLow, Addr
  <1>6. \A n \in Nat : n % AddrMod \in Addr
    BY <1>2 DEF Addr
  <1>7. WrapLow(r) + Span(r) \in Nat /\ r.addr + Bytes(r.size) \in Nat
    BY <1>1, <1>2, <1>3, <1>5 DEF Addr
  <1> QED
    BY <1>1, <1>5, <1>6, <1>7

LEMMA RamStepType ==
  ASSUME NetTypeOK, RamClock(oreq)
  PROVE  RamTypeOK'
  <1>1. /\ oreq \in cbus_req_t
        /\ oreq.valid \in BOOLEAN
        /\ oreq.addr \in Addr
        /\ oreq.data \in Word
        /\ oreq.strobe \in Strobe
        /\ oreq.len \in 0 .. 255
    BY OreqType DEF cbus_req_t, mlen_t
  <1>2. RamTypeOK
    BY DEF NetTypeOK
  <1>3. addr \in Addr
    BY <1>2 DEF RamTypeOK
  <1>4. WriteMem(mem, addr, oreq.data, oreq.strobe) \in Memory
    BY <1>1, <1>3, WriteMemType
  <1>5. dev' \in Devices /\ cyc_cnt' \in 0 .. CycPerMs /\ trint' \in BOOLEAN
        /\ swint' \in 0 .. 1
    <2>1. TickDev(dev, Ticks) \in Devices
      BY <1>2, TickDevType DEF RamTypeOK, Ticks
    <2>2. WriteDev(TickDev(dev, Ticks), addr, oreq.data, oreq.strobe) \in Devices
      BY <1>1, <1>3, <2>1, WriteDevType
    <2>3. dev' \in Devices
      BY <2>1, <2>2 DEF RamClock, Timer
    <2>4. cyc_cnt' \in 0 .. CycPerMs
      BY <1>2, RamAssumption DEF RamClock, Timer, Ticks, RamTypeOK
    <2> QED
      BY <1>2, <2>3, <2>4 DEF RamClock, Timer, RamTypeOK, Devices
  <1>6. fault' \in {"none", "modified", "range"}
    BY DEF RamClock, Fault
  <1>7. NextAddr \in Addr
    BY <1>2, BusAssumption DEF NextAddr, RamTypeOK, Addr
  <1> DEFINE BusOK == /\ rstate' \in {"NONE", "WAIT", "READ", "WRITE"}
                      /\ count_down' \in 0 .. 255
                      /\ saved_oreq' \in cbus_req_t
                      /\ addr' \in Addr
                      /\ size' \in 0 .. 15
                      /\ wrap1' \in Addr
                      /\ wrap2' \in Addr
                      /\ mem' \in Memory
  <1>. SUFFICES BusOK
    BY <1>5, <1>6 DEF RamTypeOK
  <1>8. CASE Idle(oreq)
    BY <1>2, <1>8 DEF Idle, busVars, RamTypeOK
  <1>9. CASE Accept(oreq)
    BY <1>1, <1>2, <1>9, RamAssumption DEF Accept, RamTypeOK
  <1>10. CASE Delay(oreq)
    BY <1>2, <1>10 DEF Delay, RamTypeOK
  <1>11. CASE Start(oreq)
    <2>1. 0 \in Addr
      BY BusAssumption DEF Addr
    <2>2. wrap1' \in Addr /\ wrap2' \in Addr
      BY <1>1, <1>11, <2>1, StartType DEF Start
    <2>3. size' \in 0 .. 15
      BY <1>1, <1>11, StartType DEF Start
    <2> QED
      BY <1>1, <1>2, <1>11, <2>2, <2>3 DEF Start, RamTypeOK
  <1>12. CASE LastBeat(oreq)
    BY <1>2, <1>4, <1>12 DEF LastBeat, RamTypeOK
  <1>13. CASE ReadBeat(oreq)
    BY <1>2, <1>7, <1>13 DEF ReadBeat, Last, RamTypeOK
  <1>14. CASE WriteBeat(oreq)
    BY <1>2, <1>4, <1>7, <1>14 DEF WriteBeat, Last, RamTypeOK
  <1> QED
    BY <1>8, <1>9, <1>10, <1>11, <1>12, <1>13, <1>14 DEF RamClock

LEMMA InitType ==
  ASSUME Init
  PROVE  TypeInv
  <1>1. /\ 0 \in Word
        /\ 0 \in Addr
        /\ 0 \in Reg
        /\ WordMod - 1 \in Word
    BY BusAssumption, DatapathAssumption DEF Word, Addr, Reg
  <1>2. CoreTypeOK /\ InRound(mulu) /\ InRound(divu)
    <2>1. [as |-> {}, bs |-> {}] \in Acc
      BY DEF Acc
    <2>2. UnitInit([as |-> {}, bs |-> {}]) \in UnitState(Acc)
      BY <2>1, RoundsAssumption DEF UnitInit, UnitState
    <2>3. regs \in RegFile
      BY <1>1 DEF Init, CoreInit, RegFile
    <2>4. PCINIT \in Addr
      BY DatapathAssumption
    <2>5. curr_instr \in CoreInstr
      BY DEF Init, CoreInit, CoreInstr
    <2>6. InRound(mulu) /\ InRound(divu)
      BY DEF Init, CoreInit, InRound, UnitInit
    <2> QED
      BY <2>2, <2>3, <2>4, <2>5, <2>6 DEF Init, CoreInit, CoreTypeOK
  <1>3. ArbTypeOK
    <2>1. saved_req \in cbus_req_t
      BY NoReqType DEF Init, ArbInit
    <2>2. busy \in BOOLEAN
      BY DEF Init, ArbInit
    <2>3. index \in Masters
      BY TopAssumption DEF Init, ArbInit, Masters
    <2> QED
      BY <2>1, <2>2, <2>3 DEF ArbTypeOK
  <1>4. RamTypeOK
    <2>1. DevInit \in Devices
      BY <1>1 DEF DevInit, Devices
    <2>2. cyc_cnt \in 0 .. CycPerMs
      BY RamAssumption DEF Init, RamInit
    <2>3. saved_oreq \in cbus_req_t
      BY NoReqType DEF Init, RamInit
    <2>4. dev \in Devices
      BY <2>1 DEF Init, RamInit
    <2>5. mem \in Memory
      BY DEF Init, RamInit
    <2>6. /\ addr \in Addr /\ wrap1 \in Addr /\ wrap2 \in Addr
          /\ size \in 0 .. 15 /\ count_down \in 0 .. 255
      BY <1>1 DEF Init, RamInit
    <2>7. trint \in BOOLEAN
      BY DEF Init, RamInit
    <2>8. swint \in 0 .. 1
      BY DEF Init, RamInit
    <2>9. /\ rstate \in {"NONE", "WAIT", "READ", "WRITE"}
          /\ fault \in {"none", "modified", "range"}
      BY DEF Init, RamInit
    <2> QED
      BY <2>2, <2>3, <2>4, <2>5, <2>6, <2>7, <2>8, <2>9 DEF RamTypeOK
  <1>5. reg_next \in [Reg -> Word]
    BY DEF Init
  <1> QED
    BY <1>2, <1>3, <1>4, <1>5 DEF TypeInv, TypeOK

\* What the write port carries is well typed, and so is the register view
\* that follows it.
PortOK ==
  /\ Dest(cur) \in Reg
  /\ PortValue(cur, dresp) \in Word

LEMMA PortType == NetTypeOK => PortOK
  <1> SUFFICES ASSUME NetTypeOK
               PROVE  PortOK
    OBVIOUS
  <1>1. cur \in CoreInstr
    BY CurType
  <1>2. Dest(cur) \in Reg
    BY <1>1, DatapathAssumption DEF Dest, CoreInstr, Instr, Nop, Reg
  <1> QED
    BY <1>1, <1>2, WriteDataType, BusAssumption DEF PortOK, PortValue, Word

LEMMA TypeStep ==
  ASSUME TypeInv, [Next]_vars
  PROVE  TypeInv'
  <1>1. CASE Clock
    <2>1. NetTypeOK /\ InRound(mulu) /\ InRound(divu)
      BY DEF TypeInv, TypeOK, NetTypeOK
    <2>2. CoreTypeOK' /\ InRound(mulu)' /\ InRound(divu)'
      BY <1>1, <2>1, CoreStepType DEF Clock
    <2>3. ArbTypeOK'
      BY <1>1, <2>1, ArbStepType DEF Clock
    <2>4. RamTypeOK'
      BY <1>1, <2>1, RamStepType DEF Clock
    <2>5. NetTypeOK'
      BY <2>2, <2>3, <2>4 DEF NetTypeOK
    <2>6. PortOK'
      BY <2>5, PortType, PTL
    <2>7. reg_next' \in [Reg -> Word]
      BY <1>1, <2>6 DEF Clock, Drive, PortOK, TypeInv, TypeOK
    <2> QED
      BY <2>2, <2>3, <2>4, <2>7 DEF TypeInv, TypeOK
  <1>2. CASE UNCHANGED vars
    BY <1>2
    DEF vars, coreVars, arbVars, ramVars, busVars, timerVars, TypeInv, TypeOK,
        CoreTypeOK, ArbTypeOK, RamTypeOK, InRound
  <1> QED
    BY <1>1, <1>2 DEF Next

\* Type correctness of the whole processor, for any program.
THEOREM TypeCorrect == Spec => []TypeOK
  <1>1. Init => TypeInv
    BY InitType
  <1>2. TypeInv /\ [Next]_vars => TypeInv'
    BY TypeStep
  <1>3. TypeInv => TypeOK
    BY DEF TypeInv
  <1> QED
    BY <1>1, <1>2, <1>3, PTL DEF Spec

-----------------------------------------------------------------------------
(***************************************************************************)
(* The part of the inductive invariant that every program keeps, the two   *)
(* undocumented kinds included.                                            *)
(***************************************************************************)
\* A fetched m_reserved stays in curr_instr during the next fetch; what is
\* executed asks for the data bus or a unit; or the core hangs.
AnyFetch ==
  \/ curr_instr = Nop
  \/ ireq_valid /\ curr_instr.kind = "m_reserved"
  \/ ~ireq_valid /\ curr_instr.kind \in {"load", "store", "mul", "div"}

\* A unit runs for the instruction in progress, on its operands, or is in
\* the first cycle of a run that will be given up.
AnyUnit(u, used) ==
  /\ u.state = 1 => /\ used \/ (u.count = 0 /\ ~busy)
                    /\ u.count > 0 => /\ u.p.as = {rfq1(curr_instr)}
                                      /\ u.p.bs \subseteq {rfq2(curr_instr)}
  /\ UnitAnswers(u, used)
  /\ u.done => u.state = 0

AnyInv ==
  /\ TypeInv
  /\ fault # "modified"
  /\ AnyFetch
  /\ GrantInv
  /\ ServeInv
  /\ AnyUnit(mulu, mul_valid(curr_instr))
  /\ AnyUnit(divu, div_valid(curr_instr))

\* The parts of UnitInv that a clock edge of the unit preserves by itself.
Running(u, a, b) ==
  /\ u.state = 1 /\ u.count > 0 => u.p.as = {a} /\ u.p.bs \subseteq {b}
  /\ u.done => u.state = 0 /\ u.p.as = {a} /\ u.p.bs \subseteq {b}

LEMMA UnitRun ==
  ASSUME NEW u \in UnitState(Acc), InRound(u), ~u.done, NEW v \in BOOLEAN,
         NEW a \in Word, NEW b \in Word, Running(u, a, b),
         u.state = 1 => v \/ u.count = 0,
         NEW n, n = UnitNext(u, v, [as |-> {a}, bs |-> {}],
                             [as |-> u.p.as, bs |-> u.p.bs \cup {b}])
  PROVE  /\ Running(n, a, b)
         /\ n.state = 1 \/ n.done => v
  <1>1. /\ u.state \in 0 .. 1
        /\ u.count \in 0 .. Rounds + 2
        /\ u.done = FALSE
        /\ Rounds \in Nat
    BY RoundsAssumption DEF UnitState, Acc
  <1>2. CASE u.state = 0
    BY <1>1, <1>2 DEF UnitNext, Running
  <1>3. CASE u.state = 1 /\ ~v
    BY <1>1, <1>3 DEF UnitNext, Running
  <1>4. CASE u.state = 1 /\ v /\ u.count = 0
    BY <1>1, <1>4 DEF UnitNext, Running
  <1>5. CASE u.state = 1 /\ v /\ u.count # 0
    <2>1. u.p.as = {a} /\ u.p.bs \subseteq {b}
      <3>1. u.count > 0
        BY <1>1, <1>5
      <3> QED
        BY <1>5, <3>1, Zenon DEF Running
    <2>2. CASE u.count = Rounds + 1
      BY <1>1, <1>5, <2>1, <2>2 DEF UnitNext, Running
    <2>3. CASE u.count # Rounds + 1
      BY <1>1, <1>5, <2>1, <2>3 DEF UnitNext, Running
    <2> QED
      BY <2>2, <2>3
  <1> QED
    BY <1>1, <1>2, <1>3, <1>4, <1>5

\* No answer from the memory: decode sees the latched instruction.
LEMMA Quiet ==
  ASSUME AnyInv, rstate \notin {"READ", "WRITE"}
  PROVE  /\ oresp = NoResp
         /\ ~iresp.data_ok
         /\ ~dresp.data_ok
         /\ cur = curr_instr
  <1>1. oresp = NoResp
    BY DEF oresp
  <1>2. irespOf(IMASTER, oresp) = NoResp /\ irespOf(DMASTER, oresp) = NoResp
    BY <1>1 DEF irespOf
  <1>3. ~Okay(NoResp)
    BY DEF Okay, NoResp
  <1>4. iresp.data_ok = Okay(NoResp) /\ dresp.data_ok = Okay(NoResp)
    BY <1>2 DEF iresp, dresp
  <1>5. ~iresp.data_ok /\ ~dresp.data_ok
    BY <1>3, <1>4
  <1> QED
    BY <1>1, <1>5 DEF cur, instr

\* What the bus is working on excludes any run of a unit.
LEMMA BusyUnits ==
  ASSUME AnyInv, busy
  PROVE  /\ mulu.state = 0 /\ ~mulu.done
         /\ divu.state = 0 /\ ~divu.done
  <1>1. ~mul_valid(curr_instr) /\ ~div_valid(curr_instr)
    BY DEF AnyInv, GrantInv, AnyFetch, mul_valid, div_valid, d_valid, Nop
  <1>2. mulu.state \in 0 .. 1 /\ divu.state \in 0 .. 1
    BY DEF AnyInv, TypeInv, TypeOK, CoreTypeOK, UnitState
  <1> QED
    BY <1>1, <1>2 DEF AnyInv, AnyUnit, UnitAnswers

\* The memory answers a fetch: no unit runs.
LEMMA FetchAnswer ==
  ASSUME AnyInv, rstate \in {"READ", "WRITE"}, index = IMASTER
  PROVE  /\ busy /\ ireq_valid
         /\ rstate = "READ"
         /\ oresp.last
         /\ iresp.data_ok /\ ~dresp.data_ok
         /\ cur = ISA!Fetched
         /\ cur \in Instr
  <1>1. /\ busy /\ saved_oreq = saved_req
        /\ count_down = 0 /\ addr = saved_oreq.addr
        /\ (rstate = "WRITE") = saved_oreq.is_write
    BY DEF AnyInv, ServeInv
  <1>2. ireq_valid /\ saved_req = icreq
    BY <1>1 DEF AnyInv, GrantInv, IMASTER, DMASTER
  <1>4. icreq.is_write = FALSE /\ icreq.addr = pc
    BY DEF icreq, ToCBus, IREQ_TO_DREQ
  <1>5. rstate = "READ" /\ addr = pc
    BY <1>1, <1>2, <1>4
  <1>6. oresp = [ready |-> TRUE, last |-> TRUE, data |-> ReadData(mem, dev, pc)]
    BY <1>1, <1>5 DEF oresp, Last
  <1>7. irespOf(IMASTER, oresp) = oresp
    BY <1>1 DEF irespOf
  <1>8. irespOf(DMASTER, oresp) = NoResp
    BY DEF irespOf, IMASTER, DMASTER
  <1>9. iresp = [data_ok |-> Okay(oresp), data |-> InstrAt(oresp.data, pc)]
    BY <1>7 DEF iresp
  <1>10. Okay(oresp) /\ ~Okay(NoResp)
    BY <1>6 DEF Okay, NoResp
  <1>11. iresp.data_ok /\ iresp.data = ISA!Fetched
    BY <1>6, <1>9, <1>10
    DEF ISA!Fetched, ISA!ReadData, ReadData, ISA!RamRead, RamRead, ISA!Idx, Idx
  <1>12. ~dresp.data_ok
    BY <1>8, <1>10 DEF dresp
  <1>13. cur = ISA!Fetched
    BY <1>11 DEF cur, instr
  <1>14. cur \in Instr
    <2>1. oresp.data \in Word /\ pc \in Addr
      BY OrespType DEF AnyInv, TypeInv, TypeOK, NetTypeOK, cbus_resp_t, CoreTypeOK
    <2> QED
      BY <1>9, <1>11, <1>13, <2>1, DatapathAssumption
  <1> QED
    BY <1>1, <1>2, <1>5, <1>6, <1>11, <1>12, <1>13, <1>14

\* The memory answers a load or store: it is the instruction in progress.
LEMMA DataAnswer ==
  ASSUME AnyInv, rstate \in {"READ", "WRITE"}, index = DMASTER
  PROVE  /\ busy /\ ~ireq_valid /\ d_valid(curr_instr)
         /\ (rstate = "WRITE") = wmem(curr_instr)
         /\ addr = Ea(curr_instr, rfq1(curr_instr))
         /\ oresp.last
         /\ ~iresp.data_ok /\ dresp.data_ok
         /\ dresp.data = IF rstate = "READ" THEN ReadData(mem, dev, addr) ELSE 0
         /\ cur = curr_instr
  <1>1. /\ busy /\ saved_oreq = saved_req
        /\ count_down = 0 /\ addr = saved_oreq.addr
        /\ (rstate = "WRITE") = saved_oreq.is_write
    BY DEF AnyInv, ServeInv
  <1>2. /\ ~ireq_valid
        /\ d_valid(curr_instr)
        /\ saved_req = ToCBus(dreq(curr_instr))
    BY <1>1 DEF AnyInv, GrantInv, IMASTER, DMASTER
  <1>3. irespOf(DMASTER, oresp) = oresp
    BY <1>1 DEF irespOf
  <1>4. irespOf(IMASTER, oresp) = NoResp
    BY DEF irespOf, IMASTER, DMASTER
  <1>5. oresp = [ready |-> TRUE, last |-> TRUE,
                 data |-> IF rstate = "READ" THEN ReadData(mem, dev, addr) ELSE 0]
    BY <1>1 DEF oresp, Last
  <1>6. Okay(oresp) /\ ~Okay(NoResp)
    BY <1>5 DEF Okay, NoResp
  <1>7. dresp = [data_ok |-> Okay(oresp), data |-> oresp.data]
    BY <1>3 DEF dresp
  <1>8. /\ dresp.data_ok
        /\ dresp.data = IF rstate = "READ" THEN ReadData(mem, dev, addr) ELSE 0
    BY <1>5, <1>6, <1>7
  <1>9. ~iresp.data_ok
    BY <1>4, <1>6 DEF iresp
  <1>10. cur = curr_instr
    BY <1>9 DEF cur, instr
  <1>11. saved_oreq.addr = Ea(curr_instr, rfq1(curr_instr))
    BY <1>1, <1>2 DEF ToCBus, dreq
  <1>12. saved_oreq.is_write = wmem(curr_instr)
    <2>1. curr_instr \in CoreInstr /\ rfq1(curr_instr) \in Word
      BY OperandType DEF AnyInv, TypeInv, TypeOK, NetTypeOK, CoreTypeOK
    <2>2. StoreStrobe(curr_instr, Ea(curr_instr, rfq1(curr_instr))) # 0
      BY <2>1, DatapathAssumption
    <2>3. saved_oreq.is_write = (dreq(curr_instr).strobe # 0)
      BY <1>1, <1>2 DEF ToCBus
    <2> QED
      BY <2>2, <2>3 DEF dreq, wmem
  <1> QED
    BY <1>1, <1>2, <1>5, <1>8, <1>9, <1>10, <1>11, <1>12

\* The memory is in one of the situations of the three lemmas above.
LEMMA Situations ==
  ASSUME AnyInv
  PROVE  \/ rstate \notin {"READ", "WRITE"}
         \/ rstate \in {"READ", "WRITE"} /\ index = IMASTER
         \/ rstate \in {"READ", "WRITE"} /\ index = DMASTER
  BY TopAssumption
  DEF AnyInv, TypeInv, TypeOK, ArbTypeOK, Masters, IMASTER, DMASTER

\* A granted request stays as it was, and the memory sees it.
LEMMA RequestLive ==
  ASSUME AnyInv, busy
  PROVE  /\ ireqs[index] = saved_req
         /\ oreq = saved_req
         /\ saved_req.valid
  <1>1. index \in Masters /\ Masters = {DMASTER, IMASTER}
    BY TopAssumption
    DEF AnyInv, TypeInv, TypeOK, ArbTypeOK, Masters, IMASTER, DMASTER
  <1>2. CASE index = IMASTER
    <2>1. ireq_valid /\ saved_req = icreq
      BY <1>2 DEF AnyInv, GrantInv, IMASTER, DMASTER
    <2>2. ireqs[index] = icreq
      BY <1>1, <1>2 DEF ireqs, IMASTER, DMASTER
    <2>3. icreq.valid = ireq_valid
      BY DEF icreq, ToCBus, IREQ_TO_DREQ
    <2> QED
      BY <2>1, <2>2, <2>3 DEF oreq, oreqOf
  <1>3. CASE index = DMASTER
    <2>1. d_valid(curr_instr) /\ saved_req = ToCBus(dreq(curr_instr))
      BY <1>3 DEF AnyInv, GrantInv, IMASTER, DMASTER
    <2>2. cur = curr_instr
      BY <1>3, Quiet, DataAnswer
    <2>3. ireqs[index] = ToCBus(dreq(curr_instr))
      BY <1>1, <1>3, <2>2 DEF ireqs, dcreq
    <2>4. ToCBus(dreq(curr_instr)).valid = d_valid(curr_instr)
      BY DEF ToCBus, dreq
    <2> QED
      BY <2>1, <2>3, <2>4 DEF oreq, oreqOf
  <1> QED
    BY <1>1, <1>2, <1>3

\* What the memory does in a cycle, in terms of the arbiter's state.
LEMMA MemoryStep ==
  ASSUME AnyInv, Clock
  PROVE  /\ fault' # "modified"
         /\ rstate \in {"NONE", "WAIT"} => mem' = mem
         /\ ~busy => rstate = "NONE" /\ rstate' = "NONE"
         /\ busy /\ rstate = "NONE" => rstate' = "WAIT" /\ saved_oreq' = saved_req
         /\ rstate = "WAIT" =>
              /\ saved_oreq' = saved_oreq
              /\ rstate' \in {"WAIT", "READ", "WRITE"}
              /\ rstate' \in {"READ", "WRITE"} =>
                   /\ count_down' = saved_oreq.len
                   /\ addr' = saved_oreq.addr
                   /\ (rstate' = "WRITE") = saved_oreq.is_write
         /\ rstate \in {"READ", "WRITE"} => rstate' = "NONE"
  <1>1. RamClock(oreq) /\ rstate \in {"NONE", "WAIT", "READ", "WRITE"}
    BY DEF Clock, AnyInv, TypeInv, TypeOK, RamTypeOK
  <1>2. ~busy => rstate = "NONE" /\ ~oreq.valid
    BY DEF AnyInv, ServeInv, oreq, oreqOf, NoReq
  <1>3. rstate # "NONE" => busy /\ oreq = saved_oreq
    BY RequestLive DEF AnyInv, ServeInv
  <1>4. busy => oreq = saved_req /\ oreq.valid
    BY RequestLive
  <1>5. fault' # "modified"
    BY <1>1, <1>3 DEF RamClock, Fault, Modified
  <1>6. rstate = "NONE" => Idle(oreq) \/ Accept(oreq)
    BY <1>1 DEF RamClock, Idle, Accept, Delay, Start, LastBeat, ReadBeat, WriteBeat
  <1>7. rstate = "WAIT" => Delay(oreq) \/ Start(oreq)
    BY <1>1 DEF RamClock, Idle, Accept, Delay, Start, LastBeat, ReadBeat, WriteBeat
  <1>8. rstate \in {"READ", "WRITE"} => LastBeat(oreq)
    <2>1. rstate \in {"READ", "WRITE"} => Last
      BY DEF AnyInv, ServeInv, Last
    <2> QED
      BY <1>1, <2>1
      DEF RamClock, Idle, Accept, Delay, Start, LastBeat, ReadBeat, WriteBeat
  <1>9. CASE ~busy
    BY <1>2, <1>5, <1>6, <1>9 DEF Idle, Accept, busVars
  <1>10. CASE busy /\ rstate = "NONE"
    BY <1>4, <1>5, <1>6, <1>10 DEF Idle, Accept
  <1>11. CASE rstate = "WAIT"
    <2>1. /\ mem' = mem
          /\ saved_oreq' = saved_oreq
          /\ rstate' \in {"WAIT", "READ", "WRITE"}
      BY <1>7, <1>11 DEF Delay, Start
    <2>2. ASSUME rstate' \in {"READ", "WRITE"}
          PROVE  /\ count_down' = saved_oreq.len
                 /\ addr' = saved_oreq.addr
                 /\ (rstate' = "WRITE") = saved_oreq.is_write
      <3>1. Start(oreq) /\ oreq = saved_oreq
        BY <1>3, <1>7, <1>11, <2>2 DEF Delay
      <3>2. saved_oreq.is_write \in BOOLEAN
        BY DEF AnyInv, TypeInv, TypeOK, RamTypeOK, cbus_req_t
      <3> QED
        BY <3>1, <3>2 DEF Start
    <2> QED
      BY <1>3, <1>5, <1>11, <2>1, <2>2
  <1>12. CASE rstate \in {"READ", "WRITE"}
    BY <1>3, <1>5, <1>8, <1>12 DEF LastBeat
  <1> QED
    BY <1>1, <1>9, <1>10, <1>11, <1>12

\* What the core does in a cycle.  While the memory is silent and no unit is
\* done, it stands still; only an m_reserved goes on writing its register.
LEMMA QuietCore ==
  ASSUME AnyInv, Clock, rstate \in {"NONE", "WAIT"}, ~mulu.done, ~divu.done
  PROVE  /\ UNCHANGED <<ireq_valid, pc, curr_instr, mem>>
         /\ regs' # regs => curr_instr.kind = "m_reserved"
         /\ ~Commit
  <1>1. ~iresp.data_ok /\ ~dresp.data_ok /\ cur = curr_instr
    BY Quiet
  <1>2. CoreClock(curr_instr, iresp, dresp)
    BY <1>1 DEF Clock
  <1>3. ~Commit
    BY <1>1 DEF Commit, if_hold_pc
  <1>4. ~if_hold_pc(curr_instr, iresp, dresp)
    BY <1>1, <1>3 DEF Commit
  <1>5. ireq_valid' = ireq_valid /\ pc' = pc
    BY <1>1, <1>2, <1>4 DEF CoreClock, IreqClock, PcClock
  <1>6. curr_instr' = curr_instr
    <2>1. CASE if_curr_ins(curr_instr)
      BY <1>1, <1>2, <2>1 DEF CoreClock, CurrInstrClock
    <2>2. CASE ~if_curr_ins(curr_instr)
      <3>1. curr_instr = Nop
        BY <2>2 DEF AnyInv, AnyFetch, if_curr_ins
      <3> QED
        BY <1>2, <2>2, <3>1 DEF CoreClock, CurrInstrClock
    <2> QED
      BY <2>1, <2>2
  <1>7. ASSUME curr_instr.kind # "m_reserved"
        PROVE  regs' = regs
    <2>1. ~if_wreg(curr_instr, dresp)
      <3>1. CASE curr_instr = Nop
        BY <3>1 DEF Nop, if_wreg, wreg
      <3>2. CASE curr_instr # Nop
        <4>1. ~immediate(curr_instr)
          BY <1>7, <3>2 DEF AnyInv, AnyFetch, immediate, d_valid, mul_valid,
                            div_valid
        <4> QED
          BY <1>1, <4>1 DEF if_wreg
      <3> QED
        BY <3>1, <3>2
    <2> QED
      BY <1>2, <2>1 DEF CoreClock, RegfileClock
  <1> QED
    BY <1>3, <1>5, <1>6, <1>7, MemoryStep

\* mul or div commits.
LEMMA DoneCore ==
  ASSUME AnyInv, Clock, mulu.done \/ divu.done
  PROVE  /\ ~busy /\ rstate = "NONE" /\ cur = curr_instr
         /\ mul_valid(curr_instr) \/ div_valid(curr_instr)
         /\ ~ireq_valid /\ ~d_valid(curr_instr)
         /\ ireq_valid' = TRUE /\ curr_instr' = Nop /\ mem' = mem
         /\ Commit
  <1>1. ~busy
    BY BusyUnits
  <1>2. rstate = "NONE" /\ mem' = mem
    BY <1>1, MemoryStep
  <1>3. cur = curr_instr /\ ~iresp.data_ok /\ ~dresp.data_ok
    BY <1>2, Quiet
  <1>4. mul_valid(curr_instr) \/ div_valid(curr_instr)
    BY DEF AnyInv, AnyUnit, UnitAnswers
  <1>5. ~ireq_valid /\ ~d_valid(curr_instr)
    BY <1>4 DEF AnyInv, AnyFetch, mul_valid, div_valid, d_valid, Nop
  <1>6. ireq_valid' = TRUE /\ curr_instr' = Nop /\ Commit
    BY <1>3 DEF Clock, CoreClock, IreqClock, CurrInstrClock, Commit, if_hold_pc
  <1> QED
    BY <1>1, <1>2, <1>3, <1>4, <1>5, <1>6

\* A fetched instruction is executed at once, or kept, or lost.
LEMMA FetchCore ==
  ASSUME AnyInv, Clock, rstate \in {"READ", "WRITE"}, index = IMASTER
  PROVE  /\ cur.kind \in AllKinds
         /\ cur.kind \in {"alu", "nowrite", "m_reserved"} =>
              /\ Commit /\ ireq_valid' = TRUE
              /\ curr_instr' = IF cur.kind = "m_reserved" THEN cur ELSE Nop
         /\ cur.kind \notin {"alu", "nowrite", "m_reserved"} =>
              /\ ~Commit /\ ireq_valid' = FALSE
              /\ curr_instr' = IF cur.kind = "div_stray" THEN Nop ELSE cur
              /\ UNCHANGED <<pc, regs>>
         /\ mem' = mem
  <1>1. /\ iresp.data_ok /\ ~dresp.data_ok /\ rstate = "READ"
        /\ ~mulu.done /\ ~divu.done
        /\ cur \in Instr
    BY FetchAnswer, BusyUnits
  <1>2. cur.kind \in AllKinds
    BY <1>1, DatapathAssumption DEF Instr
  <1>3. mem' = mem
    BY <1>1 DEF Clock, RamClock, Idle, Accept, Delay, Start, LastBeat,
                ReadBeat, WriteBeat
  <1>4. CoreClock(cur, iresp, dresp)
    BY DEF Clock
  <1>5. ASSUME cur.kind \in {"alu", "nowrite", "m_reserved"}
        PROVE  /\ Commit /\ ireq_valid' = TRUE
               /\ curr_instr' = IF cur.kind = "m_reserved" THEN cur ELSE Nop
    <2>1. immediate(cur) /\ (if_curr_ins(cur) <=> cur.kind = "m_reserved")
      BY <1>5 DEF immediate, d_valid, mul_valid, div_valid, if_curr_ins
    <2>2. if_hold_pc(cur, iresp, dresp)
      BY <1>1, <2>1 DEF if_hold_pc
    <2> QED
      BY <1>1, <1>4, <2>1, <2>2
      DEF CoreClock, IreqClock, CurrInstrClock, Commit
  <1>6. ASSUME cur.kind \notin {"alu", "nowrite", "m_reserved"}
        PROVE  /\ ~Commit /\ ireq_valid' = FALSE
               /\ curr_instr' = IF cur.kind = "div_stray" THEN Nop ELSE cur
               /\ UNCHANGED <<pc, regs>>
    <2>1. ~immediate(cur) /\ (if_curr_ins(cur) <=> cur.kind # "div_stray")
      BY <1>2, <1>6
      DEF immediate, d_valid, mul_valid, div_valid, if_curr_ins, AllKinds,
          SupportedKinds
    <2>2. ~if_hold_pc(cur, iresp, dresp) /\ ~if_wreg(cur, dresp)
      BY <1>1, <2>1 DEF if_hold_pc, if_wreg
    <2> QED
      BY <1>1, <1>4, <2>1, <2>2
      DEF CoreClock, IreqClock, CurrInstrClock, PcClock, RegfileClock, Commit
  <1> QED
    BY <1>2, <1>3, <1>5, <1>6

\* A load or store commits.
LEMMA DataCore ==
  ASSUME AnyInv, Clock, rstate \in {"READ", "WRITE"}, index = DMASTER
  PROVE  Commit /\ ireq_valid' = TRUE /\ curr_instr' = Nop
  BY DataAnswer DEF Clock, CoreClock, IreqClock, CurrInstrClock, Commit, if_hold_pc

LEMMA QuietUnits ==
  ASSUME AnyInv, Clock, rstate \in {"NONE", "WAIT"}, ~mulu.done, ~divu.done
  PROVE  /\ AnyUnit(mulu, mul_valid(curr_instr))'
         /\ AnyUnit(divu, div_valid(curr_instr))'
         /\ mulu'.state = 1 => mul_valid(curr_instr)'
         /\ divu'.state = 1 => div_valid(curr_instr)'
  <1>1. /\ curr_instr' = curr_instr /\ cur = curr_instr
        /\ mul_valid(curr_instr) \/ div_valid(curr_instr) => regs' = regs
    BY Quiet, QuietCore DEF mul_valid, div_valid
  <1>2. UnitClock(curr_instr)
    BY <1>1 DEF Clock, CoreClock
  <1> DEFINE a == rfq1(curr_instr)
             b == rfq2(curr_instr)
  <1>3. a \in Word /\ b \in Word
    BY OperandType DEF AnyInv, TypeInv, TypeOK, NetTypeOK, CoreTypeOK
  <1>4. mul_valid(curr_instr) \/ div_valid(curr_instr)
          => a = rfq1(curr_instr)' /\ b = rfq2(curr_instr)'
    BY <1>1 DEF rfq1, rfq2
  <1>5. mul_valid(curr_instr) \in BOOLEAN /\ div_valid(curr_instr) \in BOOLEAN
    BY DEF mul_valid, div_valid
  <1>6. /\ Running(mulu, a, b)
        /\ mulu.state = 1 => mul_valid(curr_instr) \/ mulu.count = 0
        /\ Running(divu, a, b)
        /\ divu.state = 1 => div_valid(curr_instr) \/ divu.count = 0
    BY DEF AnyInv, AnyUnit, UnitAnswers, Running
  <1> HIDE DEF a, b
  <1>7. /\ Running(mulu', a, b)
        /\ mulu'.state = 1 \/ mulu'.done => mul_valid(curr_instr)
    <2>1. /\ mulu \in UnitState(Acc)
          /\ InRound(mulu)
          /\ ~mulu.done
      BY DEF AnyInv, TypeInv, TypeOK, CoreTypeOK
    <2>2. mulu' = UnitNext(mulu, mul_valid(curr_instr), [as |-> {a}, bs |-> {}],
                           [as |-> mulu.p.as, bs |-> mulu.p.bs \cup {b}])
      BY <1>2 DEF UnitClock, Loaded, Stepped, a, b
    <2> QED
      BY <1>3, <1>5, <1>6, <2>1, <2>2, UnitRun
  <1>8. /\ Running(divu', a, b)
        /\ divu'.state = 1 \/ divu'.done => div_valid(curr_instr)
    <2>1. /\ divu \in UnitState(Acc)
          /\ InRound(divu)
          /\ ~divu.done
      BY DEF AnyInv, TypeInv, TypeOK, CoreTypeOK
    <2>2. divu' = UnitNext(divu, div_valid(curr_instr), [as |-> {a}, bs |-> {}],
                           [as |-> divu.p.as, bs |-> divu.p.bs \cup {b}])
      BY <1>2 DEF UnitClock, Loaded, Stepped, a, b
    <2> QED
      BY <1>3, <1>5, <1>6, <2>1, <2>2, UnitRun
  <1> QED
    BY <1>1, <1>4, <1>7, <1>8
    DEF AnyUnit, UnitAnswers, Running, mul_valid, div_valid

\* An idle unit starts only on its own valid signal.
LEMMA IdleUnits ==
  ASSUME AnyInv, Clock, mulu.state = 0, divu.state = 0
  PROVE  /\ mulu'.state = (IF mul_valid(cur) THEN 1 ELSE 0)
         /\ divu'.state = (IF div_valid(cur) THEN 1 ELSE 0)
         /\ mulu'.count = 0 /\ divu'.count = 0
         /\ ~mulu'.done /\ ~divu'.done
  <1>1. UnitClock(cur)
    BY DEF Clock, CoreClock
  <1> QED
    BY <1>1 DEF UnitClock, UnitNext

\* A transfer has a single beat.
LEMMA GrantedLength ==
  ASSUME AnyInv, busy
  PROVE  saved_req.len = 0
  BY DEF AnyInv, GrantInv, icreq, ToCBus, MLEN1

\* Invariance, one lemma per situation of the processor.
LEMMA AnyIdleBus ==
  ASSUME AnyInv, Clock, ~busy, ~mulu.done, ~divu.done
  PROVE  AnyInv'
  <1>1. rstate = "NONE" /\ rstate' = "NONE" /\ fault' # "modified"
    BY MemoryStep
  <1>2. /\ UNCHANGED <<ireq_valid, pc, curr_instr>>
        /\ d_valid(curr_instr) => regs' = regs
        /\ cur = curr_instr
    BY <1>1, Quiet, QuietCore DEF d_valid
  <1>3. AnyFetch'
    BY <1>2 DEF AnyInv, AnyFetch
  <1>4. GrantInv'
    <2>1. Select(ireqs)
      BY DEF Clock, ArbClock, Release, Hold
    <2>2. Masters = {DMASTER, IMASTER}
      BY TopAssumption DEF Masters, DMASTER, IMASTER
    <2>3. ireqs[IMASTER] = icreq /\ ireqs[DMASTER] = ToCBus(dreq(curr_instr))
      BY <1>2, <2>2 DEF ireqs, dcreq, DMASTER, IMASTER
    <2>4. /\ icreq.valid = ireq_valid
          /\ ToCBus(dreq(curr_instr)).valid = d_valid(curr_instr)
      BY DEF icreq, ToCBus, IREQ_TO_DREQ, dreq
    <2>5. /\ icreq' = icreq
          /\ d_valid(curr_instr) =>
               ToCBus(dreq(curr_instr))' = ToCBus(dreq(curr_instr))
      BY <1>2 DEF icreq, ToCBus, IREQ_TO_DREQ, dreq, rfq1, rfq2, d_valid, wmem
    <2>6. d_valid(curr_instr) => ~ireq_valid
      BY DEF AnyInv, AnyFetch, d_valid, Nop
    <2>7. PICK k \in Masters : /\ busy' = ireqs[k].valid
                               /\ index' = k
                               /\ saved_req' = ireqs[k]
      BY <2>1 DEF Select
    <2>8. CASE k = IMASTER
      BY <1>2, <2>3, <2>4, <2>5, <2>7, <2>8 DEF GrantInv
    <2>9. CASE k = DMASTER
      BY <1>2, <2>3, <2>4, <2>5, <2>6, <2>7, <2>9 DEF GrantInv, d_valid
    <2> QED
      BY <2>2, <2>7, <2>8, <2>9
  <1>5. ServeInv'
    BY <1>1 DEF ServeInv
  <1>6. TypeInv'
    BY TypeStep DEF AnyInv, Next
  <1> QED
    BY <1>1, <1>3, <1>4, <1>5, <1>6, QuietUnits DEF AnyInv

LEMMA AnyDone ==
  ASSUME AnyInv, Clock, mulu.done \/ divu.done
  PROVE  AnyInv'
  <1>1. /\ ~busy /\ rstate = "NONE" /\ cur = curr_instr
        /\ mul_valid(curr_instr) \/ div_valid(curr_instr)
        /\ ~ireq_valid /\ ~d_valid(curr_instr)
        /\ ireq_valid' = TRUE /\ curr_instr' = Nop
    BY DoneCore
  <1>2. rstate' = "NONE" /\ fault' # "modified"
    BY <1>1, MemoryStep
  <1>3. ~busy'
    <2>1. Select(ireqs)
      BY <1>1 DEF Clock, ArbClock, Release, Hold
    <2>2. Masters = {DMASTER, IMASTER}
      BY TopAssumption DEF Masters, DMASTER, IMASTER
    <2>3. ~ireqs[IMASTER].valid /\ ~ireqs[DMASTER].valid
      BY <1>1, <2>2
      DEF ireqs, icreq, dcreq, ToCBus, IREQ_TO_DREQ, dreq, DMASTER, IMASTER
    <2> QED
      BY <2>1, <2>2, <2>3 DEF Select
  <1>4. /\ AnyUnit(mulu, mul_valid(curr_instr))'
        /\ AnyUnit(divu, div_valid(curr_instr))'
    <2>1. UnitClock(curr_instr)
      BY <1>1 DEF Clock, CoreClock
    <2>2. ~(mul_valid(curr_instr) /\ div_valid(curr_instr))
      BY DEF mul_valid, div_valid
    <2>3. mulu.state \in 0 .. 1 /\ divu.state \in 0 .. 1 /\ Rounds \in Nat
      BY RoundsAssumption DEF AnyInv, TypeInv, TypeOK, CoreTypeOK, UnitState
    <2>4. ~mulu'.done /\ (mulu'.state = 1 => mulu'.count = 0)
      <3>1. CASE mulu.state = 0
        BY <2>1, <3>1 DEF UnitClock, UnitNext
      <3>2. CASE mulu.state = 1
        <4>1. ~mulu.done
          BY <3>2 DEF AnyInv, AnyUnit
        <4>2. ~mul_valid(curr_instr)
          BY <1>1, <2>2, <4>1 DEF AnyInv, AnyUnit, UnitAnswers
        <4> QED
          BY <2>1, <3>2, <4>1, <4>2 DEF UnitClock, UnitNext
      <3> QED
        BY <2>3, <3>1, <3>2
    <2>5. ~divu'.done /\ (divu'.state = 1 => divu'.count = 0)
      <3>1. CASE divu.state = 0
        BY <2>1, <3>1 DEF UnitClock, UnitNext
      <3>2. CASE divu.state = 1
        <4>1. ~divu.done
          BY <3>2 DEF AnyInv, AnyUnit
        <4>2. ~div_valid(curr_instr)
          BY <1>1, <2>2, <4>1 DEF AnyInv, AnyUnit, UnitAnswers
        <4> QED
          BY <2>1, <3>2, <4>1, <4>2 DEF UnitClock, UnitNext
      <3> QED
        BY <2>3, <3>1, <3>2
    <2> QED
      BY <1>3, <2>3, <2>4, <2>5 DEF AnyUnit, UnitAnswers
  <1>5. TypeInv'
    BY TypeStep DEF AnyInv, Next
  <1> QED
    BY <1>1, <1>2, <1>3, <1>4, <1>5 DEF AnyInv, AnyFetch, GrantInv, ServeInv

\* The memory waits, or has just been asked.
LEMMA AnyBusy ==
  ASSUME AnyInv, Clock, busy, rstate \in {"NONE", "WAIT"}
  PROVE  AnyInv'
  <1>1. ~mulu.done /\ ~divu.done
    BY BusyUnits
  <1>2. /\ UNCHANGED <<ireq_valid, pc, curr_instr>>
        /\ d_valid(curr_instr) => regs' = regs
    BY <1>1, QuietCore DEF d_valid
  <1>3. UNCHANGED arbVars
    <2>1. ~oresp.last
      BY Quiet DEF NoResp
    <2> QED
      BY <2>1 DEF Clock, ArbClock, Release, Hold, Select
  <1>4. AnyFetch'
    BY <1>2 DEF AnyInv, AnyFetch
  <1>5. GrantInv'
    <2>1. /\ icreq' = icreq
          /\ d_valid(curr_instr) =>
               ToCBus(dreq(curr_instr))' = ToCBus(dreq(curr_instr))
      BY <1>2 DEF icreq, ToCBus, IREQ_TO_DREQ, dreq, rfq1, rfq2, d_valid, wmem
    <2> QED
      BY <1>2, <1>3, <2>1 DEF AnyInv, GrantInv, arbVars, d_valid
  <1>6. ServeInv'
    BY <1>3, MemoryStep, GrantedLength DEF AnyInv, ServeInv, arbVars
  <1>7. TypeInv'
    BY TypeStep DEF AnyInv, Next
  <1> QED
    BY <1>1, <1>4, <1>5, <1>6, <1>7, QuietUnits, MemoryStep DEF AnyInv

\* The memory answers: the bus becomes free.
LEMMA ReleaseStep ==
  ASSUME AnyInv, Clock, busy, oresp.last
  PROVE  ~busy'
  BY DEF Clock, ArbClock, Release, Hold, Select

LEMMA AnyAnswer ==
  ASSUME AnyInv, Clock, rstate \in {"READ", "WRITE"}
  PROVE  AnyInv'
  <1>1. busy /\ oresp.last
    BY Situations, FetchAnswer, DataAnswer
  <1>2. ~busy' /\ rstate' = "NONE" /\ fault' # "modified"
    BY <1>1, ReleaseStep, MemoryStep
  <1>3. AnyFetch'
    <2>1. CASE index = IMASTER
      BY <2>1, FetchCore DEF AnyFetch, AllKinds, SupportedKinds
    <2>2. CASE index = DMASTER
      BY <2>2, DataCore DEF AnyFetch
    <2> QED
      BY <2>1, <2>2, Situations
  <1>4. /\ AnyUnit(mulu, mul_valid(curr_instr))'
        /\ AnyUnit(divu, div_valid(curr_instr))'
    BY <1>1, <1>2, BusyUnits, IdleUnits DEF AnyUnit, UnitAnswers
  <1>5. TypeInv'
    BY TypeStep DEF AnyInv, Next
  <1> QED
    BY <1>2, <1>3, <1>4, <1>5 DEF AnyInv, GrantInv, ServeInv

LEMMA AnyStutter ==
  ASSUME AnyInv, UNCHANGED vars
  PROVE  AnyInv'
  <1>1. TypeInv'
    BY TypeStep DEF AnyInv
  <1>2. /\ AnyFetch' /\ GrantInv' /\ ServeInv' /\ fault' # "modified"
        /\ AnyUnit(mulu, mul_valid(curr_instr))'
        /\ AnyUnit(divu, div_valid(curr_instr))'
    BY DEF vars, coreVars, arbVars, ramVars, busVars, timerVars, AnyInv, AnyFetch,
           GrantInv, ServeInv, AnyUnit, UnitAnswers, icreq, ToCBus, IREQ_TO_DREQ,
           dreq, rfq1, rfq2, d_valid, wmem, mul_valid, div_valid
  <1> QED
    BY <1>1, <1>2 DEF AnyInv

LEMMA AnyInit ==
  ASSUME Init
  PROVE  AnyInv
  <1>1. TypeInv
    BY InitType
  <1>2. /\ AnyFetch /\ GrantInv /\ ServeInv /\ fault # "modified"
        /\ AnyUnit(mulu, mul_valid(curr_instr))
        /\ AnyUnit(divu, div_valid(curr_instr))
    BY DEF Init, CoreInit, ArbInit, RamInit, UnitInit, AnyFetch, GrantInv,
           ServeInv, AnyUnit, UnitAnswers
  <1> QED
    BY <1>1, <1>2 DEF AnyInv

LEMMA AnyStep ==
  ASSUME AnyInv, [Next]_vars
  PROVE  AnyInv'
  <1>1. CASE Clock
    <2>1. rstate \in {"NONE", "WAIT", "READ", "WRITE"}
      BY DEF AnyInv, TypeInv, TypeOK, RamTypeOK
    <2>2. ~busy => rstate = "NONE"
      BY DEF AnyInv, ServeInv
    <2> QED
      BY <1>1, <2>1, <2>2, AnyIdleBus, AnyDone, AnyBusy, AnyAnswer
  <1> QED
    BY <1>1, AnyStutter DEF Next

-----------------------------------------------------------------------------
(***************************************************************************)
(* What this implies, for every program.                                   *)
(***************************************************************************)
\* A request does not change while it is served, on either side of the
\* arbiter, and the memory's protocol check never stops the simulation.
THEOREM Stability == Spec => []RequestStable
  <1>1. AnyInv => RequestStable
    BY RequestLive DEF AnyInv, ServeInv, RequestStable
  <1> QED
    BY AnyInit, AnyStep, <1>1, PTL DEF Spec

\* A unit that reports done has computed with the operands of the
\* instruction in progress, and nothing else.
THEOREM UnitSoundness == Spec => []UnitSound
  <1>1. AnyInv => UnitSound
    BY DEF AnyInv, AnyUnit, UnitSound
  <1> QED
    BY AnyInit, AnyStep, <1>1, PTL DEF Spec

\* Only an encoding that starts the divider without being kept can leave
\* the core neither fetching nor executing.
THEOREM HangsOnStray == Spec => HangOnlyOnStray
  <1>1. ASSUME AnyInv, [Next]_vars
        PROVE  [Hung' /\ ~Hung => cur.kind = "div_stray"]_vars
    <2> SUFFICES ASSUME Clock, Hung', ~Hung
                 PROVE  cur.kind = "div_stray"
      BY <1>1 DEF Next
    <2>1. rstate \in {"NONE", "WAIT", "READ", "WRITE"}
      BY <1>1 DEF AnyInv, TypeInv, TypeOK, RamTypeOK
    <2>2. ~(mulu.done \/ divu.done)
      BY <1>1, DoneCore DEF Hung
    <2>3. rstate \in {"READ", "WRITE"}
      BY <1>1, <2>1, <2>2, QuietCore DEF Hung
    <2>4. index = IMASTER
      BY <1>1, <2>3, Situations, DataCore DEF Hung
    <2>5. cur.kind \notin {"alu", "nowrite", "m_reserved"}
      BY <1>1, <2>3, <2>4, FetchCore DEF Hung
    <2>6. curr_instr' = Nop
      BY DEF Hung, Nop
    <2>7. CASE cur.kind # "div_stray"
      <3>1. cur = Nop
        BY <1>1, <2>3, <2>4, <2>5, <2>6, <2>7, FetchCore
      <3> QED
        BY <2>5, <3>1 DEF Nop
    <2> QED
      BY <2>7
  <1> QED
    BY AnyInit, AnyStep, <1>1, PTL DEF Spec, HangOnlyOnStray

\* Between commits neither pc nor memory changes, and a register only under
\* an encoding that is kept though it has committed.
THEOREM RepeatsReserved == Spec => RepeatsOnlyReserved
  <1>1. ASSUME AnyInv, [Next]_vars
        PROVE  [~Commit => /\ UNCHANGED <<pc, mem>>
                           /\ regs' # regs => curr_instr.kind = "m_reserved"]_vars
    <2> SUFFICES ASSUME Clock, ~Commit
                 PROVE  /\ UNCHANGED <<pc, mem>>
                        /\ regs' # regs => curr_instr.kind = "m_reserved"
      BY <1>1 DEF Next
    <2>1. rstate \in {"NONE", "WAIT", "READ", "WRITE"}
      BY <1>1 DEF AnyInv, TypeInv, TypeOK, RamTypeOK
    <2>2. ~mulu.done /\ ~divu.done
      BY <1>1, DoneCore
    <2>3. CASE rstate \in {"NONE", "WAIT"}
      BY <1>1, <2>2, <2>3, QuietCore
    <2>4. CASE rstate \in {"READ", "WRITE"}
      <3>1. index = IMASTER
        BY <1>1, <2>4, Situations, DataCore
      <3> QED
        BY <1>1, <2>4, <3>1, FetchCore
    <2> QED
      BY <2>1, <2>3, <2>4
  <1> QED
    BY AnyInit, AnyStep, <1>1, PTL DEF Spec, RepeatsOnlyReserved

-----------------------------------------------------------------------------
(***************************************************************************)
(* The inductive invariant.  From here on programs consist of the          *)
(* supported instructions.                                                 *)
(***************************************************************************)
IInv == TypeInv /\ CoreInv

Supported == Kinds \subseteq SupportedKinds

\* What IInv adds to AnyInv: a run that will be given up is that of an
\* instruction that has just committed.
RunsOn(u, used) == u.state = 1 => used \/ ireq_valid

LEMMA InvAny ==
  ASSUME IInv
  PROVE  AnyInv
  BY DEF IInv, CoreInv, AnyInv, AnyFetch, FetchInv, UnitInv, AnyUnit

LEMMA AnyCore ==
  ASSUME AnyInv, FetchInv, RunsOn(mulu, mul_valid(curr_instr)),
         RunsOn(divu, div_valid(curr_instr))
  PROVE  IInv
  BY DEF IInv, CoreInv, AnyInv, TypeInv, InRound, UnitInv, AnyUnit, RunsOn

\* A tick of the timer shows only in the device registers.
LEMMA ReadStable ==
  ASSUME NEW m, NEW d, NEW t \in BOOLEAN, NEW a, a \notin DeviceRegs
  PROVE  ReadData(m, TickDev(d, t), a) = ReadData(m, d, a)
  BY DEF ReadData, DeviceRegs

\* What the core has fetched is what memory holds, until a store.
LEMMA FetchedSame ==
  ASSUME Clock, rstate # "WRITE", UNCHANGED <<pc, mem>>, pc \notin DeviceRegs
  PROVE  ISA!Fetched' = ISA!Fetched
  <1>1. dev' = TickDev(dev, Ticks) /\ Ticks \in BOOLEAN
    BY DEF Clock, RamClock, Timer, Ticks
  <1> QED
    BY <1>1, ReadStable
    DEF ISA!Fetched, ISA!ReadData, ReadData, ISA!RamRead, RamRead, ISA!Idx, Idx

LEMMA InvClock ==
  ASSUME Supported, IInv, Clock
  PROVE  /\ FetchInv'
         /\ RunsOn(mulu, mul_valid(curr_instr))'
         /\ RunsOn(divu, div_valid(curr_instr))'
  <1>1. AnyInv
    BY InvAny
  <1>2. CASE ireq_valid' = TRUE /\ curr_instr' = Nop
    BY <1>2 DEF FetchInv, RunsOn
  <1>3. CASE mulu.done \/ divu.done
    BY <1>1, <1>2, <1>3, DoneCore
  <1>4. CASE rstate \in {"NONE", "WAIT"} /\ ~mulu.done /\ ~divu.done
    <2>1. UNCHANGED <<ireq_valid, pc, curr_instr, mem>>
      BY <1>1, <1>4, QuietCore
    <2>2. pc \notin DeviceRegs => ISA!Fetched' = ISA!Fetched
      BY <1>4, <2>1, FetchedSame
    <2> QED
      BY <1>1, <1>4, <2>1, <2>2, QuietUnits
      DEF IInv, CoreInv, FetchInv, DeviceRegs, RunsOn
  <1>5. CASE rstate \in {"READ", "WRITE"} /\ index = IMASTER
    <2>1. cur = ISA!Fetched /\ cur.kind \in SupportedKinds /\ rstate = "READ"
      BY <1>1, <1>5, FetchAnswer DEF Instr, Supported
    <2>2. CASE cur.kind \in {"alu", "nowrite"}
      BY <1>1, <1>2, <1>5, <2>2, FetchCore
    <2>3. CASE cur.kind \notin {"alu", "nowrite"}
      <3>1. cur.kind \in {"load", "store", "mul", "div"}
        BY <2>1, <2>3 DEF SupportedKinds
      <3>2. ireq_valid' = FALSE /\ curr_instr' = cur /\ UNCHANGED <<pc, mem>>
        BY <1>1, <1>5, <3>1, FetchCore
      <3>3. pc \notin DeviceRegs => ISA!Fetched' = ISA!Fetched
        BY <2>1, <3>2, FetchedSame
      <3>4. FetchInv'
        BY <2>1, <3>1, <3>2, <3>3 DEF FetchInv, DeviceRegs
      <3>5. mulu.state = 0 /\ divu.state = 0
        BY <1>1, <1>5, FetchAnswer, BusyUnits
      <3> QED
        BY <1>1, <3>2, <3>4, <3>5, IdleUnits DEF RunsOn, mul_valid, div_valid
    <2> QED
      BY <2>2, <2>3
  <1>6. CASE rstate \in {"READ", "WRITE"} /\ index = DMASTER
    BY <1>1, <1>2, <1>6, DataCore
  <1>7. rstate \in {"NONE", "WAIT", "READ", "WRITE"}
    BY DEF IInv, TypeInv, TypeOK, RamTypeOK
  <1> QED
    BY <1>1, <1>3, <1>4, <1>5, <1>6, <1>7, Situations

LEMMA InvInit ==
  ASSUME Init
  PROVE  IInv
  <1>1. AnyInv
    BY AnyInit
  <1>2. /\ FetchInv
        /\ RunsOn(mulu, mul_valid(curr_instr))
        /\ RunsOn(divu, div_valid(curr_instr))
    BY DEF Init, CoreInit, UnitInit, FetchInv, RunsOn
  <1> QED
    BY <1>1, <1>2, AnyCore

LEMMA InvStep ==
  ASSUME Supported, IInv, [Next]_vars
  PROVE  IInv'
  <1>1. AnyInv'
    BY InvAny, AnyStep
  <1>2. /\ FetchInv'
        /\ RunsOn(mulu, mul_valid(curr_instr))'
        /\ RunsOn(divu, div_valid(curr_instr))'
    <2>1. CASE UNCHANGED vars
      BY <2>1
      DEF vars, coreVars, ramVars, busVars, timerVars, IInv, CoreInv, FetchInv,
          UnitInv, RunsOn, mul_valid, div_valid, ISA!Fetched, ISA!ReadData,
          ISA!RamRead, ISA!Idx
    <2> QED
      BY <2>1, InvClock DEF Next
  <1>3. (AnyInv /\ FetchInv /\ RunsOn(mulu, mul_valid(curr_instr))
           /\ RunsOn(divu, div_valid(curr_instr)) => IInv)'
    BY AnyCore, PTL
  <1> QED
    BY <1>1, <1>2, <1>3

\* The invariant holds of every reachable state.
THEOREM Invariance ==
  ASSUME Supported
  PROVE  Spec => []CoreInv
  <1>1. IInv => CoreInv
    BY DEF IInv
  <1> QED
    BY InvInit, InvStep, <1>1, PTL DEF Spec

-----------------------------------------------------------------------------
(***************************************************************************)
(* What the invariant implies about the nets.                              *)
(***************************************************************************)
LEMMA InvNets ==
  ASSUME IInv
  PROVE  OnePortAsks /\ ResponseMatches
  <1>1. AnyInv
    BY InvAny
  <1>2. OnePortAsks
    <2> SUFFICES ASSUME ~busy, dcreq.valid, icreq.valid
                 PROVE  FALSE
      BY DEF OnePortAsks
    <2>1. cur = curr_instr
      BY <1>1, Quiet DEF IInv, CoreInv, ServeInv
    <2>2. d_valid(curr_instr) /\ ireq_valid
      BY <2>1 DEF dcreq, icreq, ToCBus, IREQ_TO_DREQ, dreq
    <2> QED
      BY <2>2 DEF IInv, CoreInv, FetchInv, d_valid, Nop
  <1>3. ResponseMatches
    <2>1. CASE rstate \notin {"READ", "WRITE"}
      BY <1>1, <2>1, Quiet DEF ResponseMatches
    <2>2. CASE rstate \in {"READ", "WRITE"} /\ index = IMASTER
      <3>1. saved_oreq = icreq /\ curr_instr = Nop
        BY <1>1, <2>2, FetchAnswer
        DEF IInv, CoreInv, FetchInv, ServeInv, GrantInv, IMASTER, DMASTER
      <3>2. icreq.addr = pc
        BY DEF icreq, ToCBus, IREQ_TO_DREQ
      <3> QED
        BY <1>1, <2>2, <3>1, <3>2, FetchAnswer DEF ResponseMatches
    <2>3. CASE rstate \in {"READ", "WRITE"} /\ index = DMASTER
      BY <1>1, <2>3, DataAnswer DEF ResponseMatches, IInv, CoreInv, ServeInv
    <2> QED
      BY <1>1, <2>1, <2>2, <2>3, Situations
  <1> QED
    BY <1>2, <1>3

\* Fetch and data port never compete for the bus, and every response reaches
\* the port, and answers the address, that asked.
THEOREM PortSoundness ==
  ASSUME Supported
  PROVE  Spec => []PortsSound
  <1>1. IInv => PortsSound
    BY InvNets DEF PortsSound
  <1> QED
    BY InvInit, InvStep, <1>1, PTL DEF Spec

-----------------------------------------------------------------------------
(***************************************************************************)
(* Refinement: a cycle with the commit pulse is one instruction of the     *)
(* sequential machine, any other cycle lets time pass.                     *)
(***************************************************************************)
LEMMA TimeStep ==
  ASSUME Clock, rstate # "WRITE"
  PROVE  dev' = TickDev(dev, Ticks)
  BY DEF Clock, RamClock, Timer

LEMMA NoCommitStep ==
  ASSUME Supported, IInv, Clock, ~Commit
  PROVE  /\ UNCHANGED <<pc, regs, mem>>
         /\ dev' = TickDev(dev, Ticks)
  <1>1. CASE rstate \notin {"READ", "WRITE"}
    <2>1. ~mulu.done /\ ~divu.done
      BY DEF Commit, if_hold_pc
    <2>2. rstate \in {"NONE", "WAIT"}
      BY <1>1 DEF IInv, TypeInv, TypeOK, RamTypeOK
    <2>3. curr_instr.kind # "m_reserved"
      BY DEF IInv, CoreInv, FetchInv, Nop
    <2> QED
      BY InvAny, <2>1, <2>2, <2>3, QuietCore, TimeStep
  <1>2. CASE rstate \in {"READ", "WRITE"} /\ index = IMASTER
    <2>1. rstate = "READ" /\ iresp.data_ok /\ ~dresp.data_ok
      BY InvAny, <1>2, FetchAnswer
    <2>2. ~immediate(cur) /\ ~mulu.done /\ ~divu.done
      BY <2>1 DEF Commit, if_hold_pc
    <2>3. regs' = regs
      BY <2>1, <2>2 DEF Clock, CoreClock, RegfileClock, if_wreg
    <2>4. pc' = pc
      BY DEF Clock, CoreClock, PcClock, Commit
    <2>5. mem' = mem
      BY <2>1 DEF Clock, RamClock, Idle, Accept, Delay, Start, LastBeat,
                  ReadBeat, WriteBeat
    <2> QED
      BY <2>1, <2>3, <2>4, <2>5, TimeStep
  <1>3. CASE rstate \in {"READ", "WRITE"} /\ index = DMASTER
    BY InvAny, <1>3, DataAnswer DEF Commit, if_hold_pc
  <1> QED
    BY InvAny, <1>1, <1>2, <1>3, Situations

\* What the register file takes at the commit pulse is what the sequential
\* machine computes.
CommitsAs(i) ==
  /\ i.kind \in SupportedKinds
  /\ pc \notin DeviceRegs => i = ISA!Fetched
  /\ if_wreg(i, dresp) = wreg(i)
  /\ i.kind \notin {"store", "nowrite"} =>
       writeregdata(i, dresp) = ISA!Result(i, rfq1(i), rfq2(i))

LEMMA ReadSame ==
  ASSUME NEW a
  PROVE  ISA!ReadData(mem, dev, a) = ReadData(mem, dev, a)
  BY DEF ISA!ReadData, ReadData, ISA!RamRead, RamRead, ISA!Idx, Idx

LEMMA UnitCommit ==
  ASSUME IInv, mulu.done \/ divu.done
  PROVE  cur = curr_instr /\ CommitsAs(cur)
  <1>1. ~busy
    BY InvAny, BusyUnits
  <1>2. cur = curr_instr
    BY InvAny, <1>1, Quiet DEF IInv, CoreInv, ServeInv
  <1>3. mul_valid(cur) \/ div_valid(cur)
    BY <1>2 DEF IInv, CoreInv, UnitInv, UnitAnswers
  <1>4. ~ireq_valid
    BY <1>2, <1>3 DEF IInv, CoreInv, FetchInv, mul_valid, div_valid, Nop
  <1>5. /\ cur.kind \in {"mul", "div"}
        /\ pc \notin DeviceRegs => cur = ISA!Fetched
    BY <1>2, <1>3, <1>4
    DEF IInv, CoreInv, FetchInv, mul_valid, div_valid
  <1>6. if_wreg(cur, dresp) = wreg(cur)
    BY <1>5 DEF if_wreg, wreg
  <1>7. writeregdata(cur, dresp) = UnitRes(cur, {rfq1(cur)}, {rfq2(cur)})
    <2>1. CASE cur.kind = "mul"
      <3>1. mulu.done
        BY <1>2, <2>1 DEF IInv, CoreInv, UnitInv, UnitAnswers, div_valid
      <3>2. mulu.p.as = {rfq1(cur)} /\ mulu.p.bs \subseteq {rfq2(cur)}
        BY <1>2, <3>1 DEF IInv, CoreInv, UnitInv, UnitAnswers
      <3>3. /\ mulu.p.as \cup {rfq1(cur)} = {rfq1(cur)}
            /\ mulu.p.bs \cup {rfq2(cur)} = {rfq2(cur)}
        BY <3>2
      <3>4. writeregdata(cur, dresp) = unitres(cur, mulu)
        BY <2>1 DEF writeregdata, mul_valid
      <3> QED
        BY <3>3, <3>4 DEF unitres
    <2>2. CASE cur.kind = "div"
      <3>1. divu.done
        BY <1>2, <2>2 DEF IInv, CoreInv, UnitInv, UnitAnswers, mul_valid
      <3>2. divu.p.as = {rfq1(cur)} /\ divu.p.bs \subseteq {rfq2(cur)}
        BY <1>2, <3>1 DEF IInv, CoreInv, UnitInv, UnitAnswers
      <3>3. /\ divu.p.as \cup {rfq1(cur)} = {rfq1(cur)}
            /\ divu.p.bs \cup {rfq2(cur)} = {rfq2(cur)}
        BY <3>2
      <3>4. writeregdata(cur, dresp) = unitres(cur, divu)
        BY <2>2 DEF writeregdata, mul_valid, div_valid
      <3> QED
        BY <3>3, <3>4 DEF unitres
    <2> QED
      BY <1>5, <2>1, <2>2
  <1>8. ISA!Result(cur, rfq1(cur), rfq2(cur))
          = UnitRes(cur, {rfq1(cur)}, {rfq2(cur)})
    BY <1>5 DEF ISA!Result
  <1> QED
    BY <1>2, <1>5, <1>6, <1>7, <1>8 DEF CommitsAs, SupportedKinds

LEMMA FetchCommit ==
  ASSUME Supported, IInv, Commit, rstate \in {"READ", "WRITE"}, index = IMASTER
  PROVE  cur.kind \in {"alu", "nowrite"} /\ CommitsAs(cur)
  <1>1. /\ iresp.data_ok /\ ~dresp.data_ok
        /\ cur = ISA!Fetched
        /\ cur.kind \in SupportedKinds
    BY InvAny, FetchAnswer DEF Instr, Supported
  <1>2. ~mulu.done /\ ~divu.done
    BY InvAny, FetchAnswer, BusyUnits
  <1>3. immediate(cur)
    BY <1>1, <1>2 DEF Commit, if_hold_pc
  <1>4. cur.kind \in {"alu", "nowrite"}
    BY <1>1, <1>3 DEF immediate, d_valid, mul_valid, div_valid, SupportedKinds
  <1>5. if_wreg(cur, dresp) = wreg(cur)
    BY <1>3 DEF if_wreg, wreg
  <1>6. writeregdata(cur, dresp) = ISA!Result(cur, rfq1(cur), rfq2(cur))
    BY <1>4 DEF writeregdata, mul_valid, div_valid, ISA!Result
  <1> QED
    BY <1>1, <1>4, <1>5, <1>6 DEF CommitsAs

LEMMA DataCommit ==
  ASSUME IInv, rstate \in {"READ", "WRITE"}, index = DMASTER
  PROVE  cur.kind \in {"load", "store"} /\ CommitsAs(cur)
  <1>1. /\ ~ireq_valid /\ d_valid(cur) /\ cur = curr_instr
        /\ (rstate = "WRITE") = wmem(cur)
        /\ addr = Ea(cur, rfq1(cur))
        /\ dresp.data_ok
        /\ dresp.data = IF rstate = "READ" THEN ReadData(mem, dev, addr) ELSE 0
    BY InvAny, DataAnswer
  <1>2. cur.kind \in {"load", "store"}
    BY <1>1 DEF d_valid
  <1>3. pc \notin DeviceRegs => cur = ISA!Fetched
    BY <1>1 DEF IInv, CoreInv, FetchInv
  <1>4. if_wreg(cur, dresp) = wreg(cur)
    BY <1>1 DEF if_wreg, wreg
  <1>5. cur.kind = "load" =>
          writeregdata(cur, dresp) = ISA!Result(cur, rfq1(cur), rfq2(cur))
    BY <1>1, ReadSame DEF writeregdata, wmem, ISA!Result
  <1> QED
    BY <1>2, <1>3, <1>4, <1>5 DEF CommitsAs, SupportedKinds

LEMMA Commits ==
  ASSUME Supported, IInv, Commit
  PROVE  CommitsAs(cur)
  <1>1. CASE rstate \notin {"READ", "WRITE"}
    BY InvAny, <1>1, Quiet, UnitCommit DEF Commit, if_hold_pc
  <1> QED
    BY InvAny, <1>1, Situations, FetchCommit, DataCommit

\* Memory and devices at the commit pulse: only a store writes.
LEMMA CommitMemory ==
  ASSUME Supported, IInv, Clock, Commit
  PROVE  LET ea == Ea(cur, rfq1(cur))
             dw == StoreData(cur, ea, rfq2(cur))
             st == StoreStrobe(cur, ea)
         IN  /\ mem' = IF cur.kind = "store"
                         THEN WriteMem(mem, ea, dw, st) ELSE mem
             /\ dev' = IF cur.kind = "store"
                         THEN WriteDev(TickDev(dev, Ticks), ea, dw, st)
                         ELSE TickDev(dev, Ticks)
  <1>1. RamClock(oreq) /\ rstate \in {"NONE", "WAIT", "READ", "WRITE"}
    BY DEF Clock, IInv, TypeInv, TypeOK, RamTypeOK
  <1>2. CASE rstate \notin {"READ", "WRITE"}
    <2>1. mulu.done \/ divu.done
      BY InvAny, <1>2, Quiet DEF Commit, if_hold_pc
    <2>2. cur.kind # "store"
      BY <1>2, <2>1, UnitCommit
      DEF IInv, CoreInv, UnitInv, UnitAnswers, mul_valid, div_valid
    <2> QED
      BY InvAny, <1>1, <1>2, <2>2, MemoryStep, TimeStep
  <1>3. CASE rstate \in {"READ", "WRITE"} /\ index = IMASTER
    <2>1. rstate = "READ" /\ cur.kind # "store"
      BY InvAny, <1>3, FetchAnswer, FetchCommit
    <2>2. mem' = mem
      BY <1>1, <2>1 DEF RamClock, Idle, Accept, Delay, Start, LastBeat,
                        ReadBeat, WriteBeat
    <2> QED
      BY <2>1, <2>2, TimeStep
  <1>4. CASE rstate = "READ" /\ index = DMASTER
    <2>1. cur.kind # "store"
      BY InvAny, <1>4, DataAnswer DEF wmem
    <2>2. mem' = mem
      BY <1>1, <1>4 DEF RamClock, Idle, Accept, Delay, Start, LastBeat,
                        ReadBeat, WriteBeat
    <2> QED
      BY <1>4, <2>1, <2>2, TimeStep
  <1>5. CASE rstate = "WRITE" /\ index = DMASTER
    <2>1. /\ cur = curr_instr /\ busy
          /\ cur.kind = "store"
          /\ addr = Ea(cur, rfq1(cur))
      BY InvAny, <1>5, DataAnswer DEF wmem
    <2>2. oreq = ToCBus(dreq(cur))
      BY InvAny, <1>5, <2>1, RequestLive
      DEF IInv, CoreInv, GrantInv, IMASTER, DMASTER
    <2>3. /\ oreq.data = StoreData(cur, addr, rfq2(cur))
          /\ oreq.strobe = StoreStrobe(cur, addr)
      BY <2>1, <2>2 DEF ToCBus, dreq, wmem
    <2>4. LastBeat(oreq)
      BY <1>1, <1>5 DEF RamClock, Idle, Accept, Delay, Start, LastBeat,
                        ReadBeat, WriteBeat, Last, IInv, CoreInv, ServeInv
    <2>5. mem' = WriteMem(mem, addr, oreq.data, oreq.strobe)
      BY <1>5, <2>4 DEF LastBeat
    <2>6. dev' = WriteDev(TickDev(dev, Ticks), addr, oreq.data, oreq.strobe)
      BY <1>1, <1>5 DEF RamClock, Timer
    <2> QED
      BY <2>1, <2>3, <2>5, <2>6
  <1> QED
    BY InvAny, <1>2, <1>3, <1>4, <1>5, Situations

LEMMA CommitStep ==
  ASSUME Supported, IInv, Clock, Commit
  PROVE  ISA!Execute(cur, Ticks)
  <1>1. CommitsAs(cur)
    BY Commits
  <1>2. /\ rfq1(cur) = ISA!RegRead(regs, cur.rs1)
        /\ rfq2(cur) = ISA!RegRead(regs, cur.rs2)
    BY DEF rfq1, rfq2, RegRead, ISA!RegRead
  <1>3. pc' = NextPc(cur, rfq1(cur), rfq2(cur), pc)
    BY DEF Clock, CoreClock, PcClock, Commit
  <1>4. regs' = IF cur.kind \in {"store", "nowrite"} THEN regs
                ELSE ISA!RegWrite(regs, cur.rd,
                                  ISA!Result(cur, rfq1(cur), rfq2(cur)))
    <2>1. CASE cur.kind \in {"store", "nowrite"}
      BY <1>1, <2>1 DEF CommitsAs, wreg, Clock, CoreClock, RegfileClock
    <2>2. CASE cur.kind \notin {"store", "nowrite"}
      BY <1>1, <2>2
      DEF CommitsAs, wreg, Clock, CoreClock, RegfileClock, Dest, RegWrite,
          ISA!RegWrite
    <2> QED
      BY <2>1, <2>2
  <1>5. \A m, a, w, s : ISA!WriteMem(m, a, w, s) = WriteMem(m, a, w, s)
    BY DEF ISA!WriteMem, WriteMem, ISA!RamWrite, RamWrite, ISA!Idx, Idx,
           ISA!WriteSinks, WriteSinks
  <1>6. \A d, t : ISA!TickDev(d, t) = TickDev(d, t)
    BY DEF ISA!TickDev, TickDev
  <1>7. \A d, a, w, s : ISA!WriteDev(d, a, w, s) = WriteDev(d, a, w, s)
    BY DEF ISA!WriteDev, WriteDev
  <1> QED
    BY <1>2, <1>3, <1>4, <1>5, <1>6, <1>7, CommitMemory DEF ISA!Execute

LEMMA RefinementStep ==
  ASSUME Supported, IInv, pc \notin DeviceRegs, [Next]_vars
  PROVE  [ISA!Next]_(ISA!isaVars)
  <1>1. CASE Clock /\ Commit
    <2>1. cur = ISA!Fetched
      BY <1>1, Commits DEF CommitsAs
    <2>2. ISA!Execute(ISA!Fetched, Ticks) /\ Ticks \in BOOLEAN
      BY <1>1, <2>1, CommitStep DEF Ticks
    <2> QED
      BY <2>2 DEF ISA!Next
  <1>2. CASE Clock /\ ~Commit
    <2>1. ISA!Pass(Ticks) /\ Ticks \in BOOLEAN
      BY <1>2, NoCommitStep DEF ISA!Pass, Ticks, TickDev, ISA!TickDev
    <2> QED
      BY <2>1 DEF ISA!Next
  <1>3. CASE UNCHANGED vars
    BY <1>3 DEF vars, coreVars, ramVars, ISA!isaVars
  <1> QED
    BY <1>1, <1>2, <1>3 DEF Next

\* The clocked machine implements the sequential one, as long as code is not
\* fetched from the device registers (which change while a fetched
\* instruction waits for the data bus).
THEOREM Refinement ==
  ASSUME Supported
  PROVE  Spec /\ [](pc \notin DeviceRegs) => Sequential
  <1>1. Init => ISA!Init
    BY DEF Init, CoreInit, RamInit, ISA!Init, ISA!Memory, Memory, ISA!DevInit,
           DevInit, ISA!Word, Word
  <1>2. IInv /\ pc \notin DeviceRegs /\ [Next]_vars
          => [ISA!Next]_(ISA!isaVars)
    BY RefinementStep
  <1>3. Init => IInv
    BY InvInit
  <1>4. IInv /\ [Next]_vars => IInv'
    BY InvStep
  <1>5. Sequential <=> (ISA!Init /\ [][ISA!Next]_(ISA!isaVars))
    BY DEF Sequential, ISA!Spec
  <1> QED
    BY <1>1, <1>2, <1>3, <1>4, <1>5, PTL DEF Spec

-----------------------------------------------------------------------------
(***************************************************************************)
(* Difftest reads the register file through the write port.                *)
(***************************************************************************)

\* The entry that the port addresses carries the port's value.
ViewInv == reg_next[Dest(cur)] = PortValue(cur, dresp)

LEMMA ViewInit ==
  ASSUME Init
  PROVE  ViewInv
  <1>1. cur = Nop
    <2>1. IInv /\ rstate = "NONE"
      BY InvInit DEF Init, RamInit
    <2> QED
      BY InvAny, <2>1, Quiet DEF Init, CoreInit
  <1> QED
    BY <1>1 DEF ViewInv, PortValue, Dest, Nop, Init

LEMMA ViewStep ==
  ASSUME IInv, IInv', ViewInv, [Next]_vars
  PROVE  ViewInv'
  <1>1. CASE Clock
    <2>1. PortOK'
      <3>1. NetTypeOK'
        BY DEF IInv, TypeInv, TypeOK, NetTypeOK
      <3> QED
        BY <3>1, PortType, PTL
    <2>2. reg_next' = Drive(reg_next, Dest(cur)', PortValue(cur, dresp)')
      BY <1>1 DEF Clock
    <2> QED
      BY <2>1, <2>2 DEF ViewInv, Drive, PortOK, IInv, TypeInv, TypeOK
  <1>2. CASE UNCHANGED vars
    <2>1. /\ UNCHANGED <<pc, curr_instr, regs, reg_next, mulu, divu>>
          /\ UNCHANGED <<busy, index, rstate, count_down, addr, mem, dev>>
      BY <1>2 DEF vars, coreVars, arbVars, ramVars, busVars
    <2>2. ReadData(mem, dev, addr)' = ReadData(mem, dev, addr)
      BY <2>1 DEF ReadData, RamRead, Idx
    <2>3. oresp' = oresp
      BY <2>1, <2>2 DEF oresp, Last
    <2>4. iresp' = iresp /\ dresp' = dresp
      BY <2>1, <2>3 DEF iresp, dresp, irespOf
    <2>5. cur' = cur
      BY <2>1, <2>4 DEF cur, instr
    <2>6. PortValue(cur, dresp)' = PortValue(cur, dresp)
      BY <2>1, <2>4, <2>5
      DEF PortValue, Dest, writeregdata, mul_valid, div_valid, unitres, rfq1,
          rfq2, RegRead
    <2> QED
      BY <2>1, <2>5, <2>6 DEF ViewInv, Dest
  <1> QED
    BY <1>1, <1>2 DEF Next

\* Registers change at the commit pulse alone, and exactly as the port says.
LEMMA RegsStep ==
  ASSUME Supported, IInv, Clock
  PROVE  \A r \in 1 .. NumRegs - 1 :
           regs'[r] = IF Commit /\ r = Dest(cur)
                        THEN PortValue(cur, dresp) ELSE regs[r]
  <1>1. CASE ~Commit
    BY <1>1, NoCommitStep
  <1>2. CASE Commit
    <2>1. CommitsAs(cur)
      BY <1>2, Commits
    <2>2. regs' = IF wreg(cur)
                    THEN RegWrite(regs, Dest(cur), writeregdata(cur, dresp))
                    ELSE regs
      BY <2>1 DEF CommitsAs, Clock, CoreClock, RegfileClock
    <2>3. ~wreg(cur) => Dest(cur) = 0
      BY DEF wreg, Dest
    <2>4. regs \in RegFile
      BY DEF IInv, TypeInv, TypeOK, CoreTypeOK
    <2> QED
      BY <1>2, <2>2, <2>3, <2>4 DEF RegWrite, PortValue, RegFile
  <1> QED
    BY <1>1, <1>2

LEMMA DifftestStep ==
  ASSUME Supported, IInv, ViewInv, ViewInv', [Next]_vars
  PROVE  [InStep]_vars
  <1>1. CASE Clock
    <2>1. reg_next' = Drive(reg_next, Dest(cur)', PortValue(cur, dresp)')
      BY <1>1 DEF Clock
    <2>2. reg_next \in [Reg -> Word]
      BY DEF IInv, TypeInv, TypeOK
    <2>3. \A r \in 1 .. NumRegs - 1 :
            r # Dest(cur)' => reg_next'[r] = reg_next[r]
      BY <2>1, <2>2, DatapathAssumption DEF Drive, Reg
    <2> QED
      BY <1>1, <2>3, NoCommitStep, RegsStep DEF ViewInv, InStep
  <1>2. CASE UNCHANGED vars
    BY <1>2
  <1> QED
    BY <1>1, <1>2 DEF Next

\* Whatever Difftest sees at a commit pulse is what the program will see.
THEOREM DifftestAgrees ==
  ASSUME Supported
  PROVE  Spec => DifftestInStep
  <1>1. IInv /\ ViewInv /\ ViewInv' /\ [Next]_vars => [InStep]_vars
    BY DifftestStep
  <1>2. Init => IInv /\ ViewInv
    BY InvInit, ViewInit
  <1>3. IInv /\ [Next]_vars => IInv'
    BY InvStep
  <1>4. IInv /\ IInv' /\ ViewInv /\ [Next]_vars => ViewInv'
    BY ViewStep
  <1>5. DifftestInStep <=> [][InStep]_vars
    BY DEF DifftestInStep
  <1> QED
    BY <1>1, <1>2, <1>3, <1>4, <1>5, PTL DEF Spec
=============================================================================
