------------------------------- MODULE SimTop -------------------------------
(***************************************************************************)
(* vsrc/SimTop.sv: the core, its two bus bridges, the arbiter and the      *)
(* memory, on one clock.  The data port is master 0 of the arbiter, the    *)
(* instruction port master 1.  All combinational nets are operators over   *)
(* the registers; Clock is one rising edge of all of them together.        *)
(***************************************************************************)
EXTENDS Core, CBusArbiter, RAMHelper2

\* Two masters.
ASSUME TopAssumption == NumInputs = 2

vars == <<coreVars, arbVars, ramVars>>

-----------------------------------------------------------------------------
\* The nets, from the memory's answer to the memory's request.
DMASTER == 0
IMASTER == 1

iresp == LET r == irespOf(IMASTER, oresp)
         IN  [data_ok |-> Okay(r), data |-> InstrAt(r.data, pc)]

dresp == LET r == irespOf(DMASTER, oresp)
         IN  [data_ok |-> Okay(r), data |-> r.data]

cur == instr(iresp)

dcreq == ToCBus(dreq(cur))
icreq == ToCBus(IREQ_TO_DREQ(ireq_valid, pc))

ireqs == [k \in Masters |-> IF k = DMASTER THEN dcreq ELSE icreq]

oreq == oreqOf(ireqs)

Commit == if_hold_pc(cur, iresp, dresp)

-----------------------------------------------------------------------------
\* The state reset leaves behind, with any program in memory.  Nothing ever
\* drives reg_next but the write port, so it starts out arbitrary.
Init ==
  /\ CoreInit
  /\ ArbInit
  /\ RamInit
  /\ reg_next \in [Reg -> Word]
  /\ reg_next[0] = 0

Clock ==
  /\ CoreClock(cur, iresp, dresp)
  /\ ArbClock(ireqs, oresp)
  /\ RamClock(oreq)
  /\ reg_next' = Drive(reg_next, Dest(cur)', PortValue(cur, dresp)')

Next == Clock

Spec == Init /\ [][Next]_vars

\* The emulator evaluates the model once per loop iteration.
FairSpec == Spec /\ WF_vars(Clock)

-----------------------------------------------------------------------------
TypeOK ==
  /\ CoreTypeOK
  /\ ArbTypeOK
  /\ RamTypeOK
  /\ reg_next \in [Reg -> Word]

\* While a request is being served it does not change, data and strobe
\* included: the arbiter still sees what it granted and the memory what it
\* accepted, although both look at live nets that run through the register
\* file and the decoder.  The memory's own check (ram.sv 137-145, 170-178,
\* 192-200) can therefore never stop the simulation.
RequestStable ==
  /\ busy => ireqs[index] = saved_req
  /\ rstate # "NONE" => busy /\ oreq = saved_oreq
  /\ fault # "modified"

\* The arbiter never has to choose: in a cycle in which it may grant, at
\* most one of the two ports asks, so that its fixed priority starves no one
\* and a load never overtakes the fetch of an older instruction.
OnePortAsks == ~busy => ~(dcreq.valid /\ icreq.valid)

\* A response reaches the port that asked for it, for the address it asked.
ResponseMatches ==
  /\ iresp.data_ok => ireq_valid /\ curr_instr = Nop /\ saved_oreq.addr = pc
  /\ dresp.data_ok => ~ireq_valid /\ d_valid(curr_instr)
                      /\ saved_oreq.addr = Ea(curr_instr, rfq1(curr_instr))

\* The two ports share the bus soundly: they never compete for it, and each
\* gets its own answers.
PortsSound == OnePortAsks /\ ResponseMatches

\* A unit reports done only for the instruction in progress, having worked
\* on that instruction's operands alone; in particular the run that a unit
\* starts on its own in the cycle of done never completes.
UnitAnswers(u, used) ==
  u.done => /\ used
            /\ u.p.as = {rfq1(curr_instr)}
            /\ u.p.bs \subseteq {rfq2(curr_instr)}

UnitSound ==
  /\ UnitAnswers(mulu, mul_valid(curr_instr))
  /\ UnitAnswers(divu, div_valid(curr_instr))

\* Registers, memory and output change only with the commit pulse, and each
\* register the program sees then reads for Difftest as it will read for
\* the next instruction (unless it was never written since power-on).
InStep ==
  /\ ~Commit => UNCHANGED <<pc, regs, mem>>
  /\ Commit => \A r \in 1 .. NumRegs - 1 :
       reg_next[r] = regs[r] \/ r = Dest(cur) => reg_next[r] = regs'[r]
  /\ \A r \in 1 .. NumRegs - 1 :
       reg_next[r] = regs[r] => reg_next'[r] = regs'[r] \/ r = Dest(cur)'

DifftestInStep == [][InStep]_vars

\* The clocked machine executes the program exactly as the sequential one.
ISA == INSTANCE Isa
Sequential == ISA!Spec

-----------------------------------------------------------------------------
(***************************************************************************)
(* Why all this holds: the conjuncts of an inductive invariant.            *)
(***************************************************************************)

\* Fetching and executing exclude each other, and what is being executed is
\* what memory holds at pc (unless pc points at a register that the timer
\* changes).
FetchInv ==
  /\ ireq_valid => curr_instr = Nop
  /\ ~ireq_valid => curr_instr.kind \in {"load", "store", "mul", "div"}
  /\ ~ireq_valid /\ pc \notin DeviceRegs => curr_instr = ISA!Fetched

\* The bus serves the port that is asking, and has latched its request.
GrantInv ==
  busy => \/ /\ index = IMASTER
             /\ ireq_valid
             /\ saved_req = icreq
          \/ /\ index = DMASTER
             /\ ~ireq_valid
             /\ d_valid(curr_instr)
             /\ saved_req = ToCBus(dreq(curr_instr))

\* The memory works on what the arbiter granted; a transfer has one beat.
ServeInv ==
  /\ rstate # "NONE" => busy /\ saved_oreq = saved_req
  /\ rstate \in {"READ", "WRITE"} =>
       /\ count_down = 0
       /\ addr = saved_oreq.addr
       /\ (rstate = "WRITE") = saved_oreq.is_write

\* A unit runs for the instruction in progress, on its operands; the only
\* other run is the one it starts by itself in the cycle of done, and it is
\* still in that run's first cycle.
UnitInv(u, used) ==
  /\ u.state = 1 => /\ u.count <= Rounds + 1
                    /\ used \/ (u.count = 0 /\ ireq_valid /\ ~busy)
                    /\ u.count > 0 => /\ u.p.as = {rfq1(curr_instr)}
                                      /\ u.p.bs \subseteq {rfq2(curr_instr)}
  /\ UnitAnswers(u, used)
  /\ u.done => u.state = 0

CoreInv ==
  /\ fault # "modified"
  /\ FetchInv
  /\ GrantInv
  /\ ServeInv
  /\ UnitInv(mulu, mul_valid(curr_instr))
  /\ UnitInv(divu, div_valid(curr_instr))

-----------------------------------------------------------------------------
\* Every instruction commits: neither the bus, nor a unit, nor the handover
\* between fetch and execution can stop the core.
Progress == []<>Commit

-----------------------------------------------------------------------------
(***************************************************************************)
(* With the two kinds of undocumented encodings in the program, less       *)
(* holds; these properties say how much less.                              *)
(***************************************************************************)

\* The core neither fetches nor executes.
Hung == ~ireq_valid /\ curr_instr = Nop

\* Only div_stray hangs the core: it starts the divider but is not kept in
\* curr_instr, so the run is aborted and no one fetches again.
HangOnlyOnStray == [][Hung' /\ ~Hung => cur.kind = "div_stray"]_vars

\* Nothing else, m_reserved in particular, keeps the core from committing.
ProgressOrHang == []<>Commit \/ <>[]Hung

\* m_reserved commits at once but is kept in curr_instr, and writes rd again
\* in every cycle until the next instruction arrives.  It is the only kind
\* that changes a register outside its commit, and even it touches neither
\* pc nor memory.
RepeatsOnlyReserved ==
  [][~Commit => /\ UNCHANGED <<pc, mem>>
                /\ regs' # regs => curr_instr.kind = "m_reserved"]_vars
=============================================================================
