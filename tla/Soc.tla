-------------------------------- MODULE Soc --------------------------------
(***************************************************************************)
(* The system on a chip that ModelBase::install_soc builds for a model     *)
(* under test (verilate/vsrc/model.cpp, memory.cpp): a cache-bus device,   *)
(* behind it a router, and behind the router one memory at two places and  *)
(* the registers of Confreg.  The model's tick is not part of the          *)
(* repository; it calls eval_resp, eval_req, the two sync and              *)
(* checkout_confreg once each, the two sync in an order of its own.        *)
(***************************************************************************)
EXTENDS CBusMaster, WordCells, CBusDevice, Confreg, SequencesExt

CONSTANTS
  WindowUnit, WindowBase,   \* the boot window: 2^20, 0x1fc00000
  ConfregUnit, ConfregBase, \* Confreg's page: 2^16, 0x1faf0000
  RegisterAt,     \* address -> register of Confreg, "UART", "LSR" or "none"
  Images,         \* what the memory may hold at the start
  Programs,       \* kinds of software: the transfers used, with a pty or not
  NumUnit, AckMod,\* the fields of NUM: 2^24, 2^8
  Printable,      \* characters up to 0x7f
  InputMax        \* bound on characters waiting at the UART

ASSUME SocAssumption ==
  /\ {WindowUnit, ConfregUnit, NumUnit, AckMod} \subseteq Nat \ {0}
  /\ {WindowBase, ConfregBase} \subseteq Addr
  /\ RegisterAt \in [Addr -> Registers \cup {"UART", "LSR", "none"}]
  /\ Images \subseteq Memory
  /\ Programs \subseteq [uses : SUBSET (Starts \X Lens \X axi_burst_type_t), pty : BOOLEAN]
  /\ Printable \subseteq Char
  /\ InputMax \in Nat

VARIABLES
  program,      \* what the software on the master uses
  devFirst,     \* the order of the two sync in the model's tick
  mem, image,   \* BlockMemory's mem and saved_mem
  con,          \* Confreg
  current_num,  \* the last test that NUM reported
  failed,       \* an assertion on the simulator itself
  stopped,      \* the program has broken a rule, and the simulation stops
  unread,       \* ghost: characters typed that the program has not read
  unshown       \* ghost: per output, characters written and not put out

vars == <<masterVars, deviceVars, program, devFirst, mem, image, con, current_num,
          failed, stopped, unread, unshown>>

-----------------------------------------------------------------------------
\* MemoryRouter.  The mask of an entry covers the bits from its unit up.
layout == <<[unit |-> WindowUnit, prefix |-> WindowBase, mem |-> "memory", base |-> WindowBase],
            [unit |-> ConfregUnit, prefix |-> ConfregBase, mem |-> "confreg", base |-> 0],
            [unit |-> AddrMod, prefix |-> 0, mem |-> "memory", base |-> 0]>>

matches(a) == {k \in DOMAIN layout : a - (a % layout[k].unit) = layout[k].prefix}

search(a) == layout[Min(matches(a))]

translate(a) == a - search(a).base

ToConfreg(a) == search(a).mem = "confreg"
OutOfRange(a) == ~ToConfreg(a) /\ translate(a) >= MemBytes

\* What the software keeps to: bursts are the wrapping ones that axi.h knows,
\* no window ends where addresses do, since its upper bound would be zero,
\* and behind every beat there is a register or a byte of the memory.
WellBehaved(r) ==
  /\ r.len > 0 =>
       /\ r.burst = "WRAP"
       /\ LET span == (r.len + 1) * Bytes(r.size)
          IN  (r.addr \div span) * span + span < AddrMod
  /\ \A n \in 0 .. r.len : ~OutOfRange(BeatAddr(r, n))

ASSUME ProgramAssumption ==
  \A p \in Programs, r \in NewReq : <<r.addr, r.len, r.burst>> \in p.uses => WellBehaved(r)

loaded == IF ToConfreg(tx.addr) THEN load(con, RegisterAt[tx.addr])
          ELSE IF OutOfRange(tx.addr) THEN 0 ELSE mem[Cell(translate(tx.addr))]

eval_resp == Response(loaded)

-----------------------------------------------------------------------------
\* Confreg in one tick: the load of eval_resp, then sync and the store of
\* the device's sync, whichever comes first.
AfterLoad == IF loads /\ ToConfreg(tx.addr) THEN fetched(con, RegisterAt[tx.addr]) ELSE con

Stored(c) == IF stores /\ ToConfreg(tx.addr) THEN store(c, RegisterAt[tx.addr], req.data) ELSE c

ConfregClock == IF devFirst THEN sync(Stored(AfterLoad)) ELSE Stored(sync(AfterLoad))

\* checkout_confreg looks at what sync published: the number of the test
\* that is done, its acknowledgement, and the characters.
Num(w) == w \div NumUnit
Ack(w) == w % AckMod

NewNum(c) == c.ctx0.v_num_monitor /\ Num(c.ctx0.v_num) # current_num

NotPassed(c) ==
  /\ NewNum(c)
  /\ \/ Num(c.ctx0.v_num) # current_num + 1
     \/ Ack(c.ctx0.v_num) # Num(c.ctx0.v_num)

\* What a tick puts out: notify_char for the virtual UART, fputc for the
\* UART if there is a pty.
Outputs == {"VIRTUAL_UART", "UART"}
PutOut(c, o) ==
  IF o = "UART" THEN (IF program.pty /\ c.ctx0.uart # None THEN <<c.ctx0.uart>> ELSE <<>>)
  ELSE IF c.ctx0.vuart \in Printable THEN <<c.ctx0.vuart>> ELSE <<>>

\* As the program sees it: the register a beat goes to, and the character
\* that it reads or writes with it.
Beat == BeatAddr(req, beats)
AtRegister(r) == eval_resp.ready /\ ToConfreg(Beat) /\ RegisterAt[Beat] = r

Reads == AtRegister("UART") /\ ~req.is_write /\ eval_resp.data # 0

Writes(o) ==
  LET c == req.data % CharMod
  IN  IF /\ AtRegister(o)
         /\ req.is_write
         /\ IF o = "UART" THEN program.pty ELSE c \in Printable
        THEN <<c>> ELSE <<>>

Drop(s, n) == SubSeq(s, n + 1, Len(s))

-----------------------------------------------------------------------------
Init ==
  /\ MasterInit
  /\ DeviceInit
  /\ program \in Programs
  /\ devFirst \in BOOLEAN
  /\ image \in Images
  /\ mem = image
  /\ con = NewConfreg
  /\ current_num = 0
  /\ failed = FALSE
  /\ stopped = FALSE
  /\ unread = <<>>
  /\ unshown = [o \in Outputs |-> <<>>]

\* One tick of the model under test.
Tick ==
  /\ ~failed /\ ~stopped
  /\ MasterClock(eval_resp)
  /\ req'.valid => <<req'.addr, req'.len, req'.burst>> \in program.uses
  /\ DeviceClock(req)
  /\ con' = ConfregClock
  /\ mem' = IF stores /\ ~ToConfreg(tx.addr) /\ ~OutOfRange(tx.addr)
              THEN Written(mem, translate(tx.addr), req.data, req.strobe)
              ELSE mem
  /\ current_num' = IF NewNum(con') /\ ~NotPassed(con')
                      THEN Num(con'.ctx0.v_num) ELSE current_num
  /\ failed' = \/ Changed(req)
               \/ (loads \/ stores) /\ OutOfRange(tx.addr)
               \/ PopsNothing(AfterLoad)
  /\ stopped' = \/ NotPassed(con')
                \/ /\ stores
                   /\ ToConfreg(tx.addr)
                   /\ Panics(RegisterAt[tx.addr], req.strobe)
  /\ unread' = IF Reads THEN Drop(unread, 1) ELSE unread
  /\ unshown' = [o \in Outputs |-> Drop(unshown[o] \o Writes(o), Len(PutOut(con', o)))]
  /\ UNCHANGED <<program, devFirst, image>>

\* uart_open_pty's thread has got a character.
Receive ==
  /\ program.pty
  /\ Len(con.ififo) < InputMax
  /\ \E c \in Char \ {0} : /\ con' = [con EXCEPT !.ififo = Append(@, c)]
                           /\ unread' = Append(unread, c)
  /\ UNCHANGED <<masterVars, deviceVars, program, devFirst, mem, image, current_num,
                 failed, stopped, unshown>>

\* The model's reset, between two tests: device, memory and Confreg.
ResetAll ==
  /\ ~failed /\ ~stopped
  /\ req' = NoReq
  /\ beats' = 0
  /\ DeviceReset
  /\ mem' = image
  /\ con' = reset(con)
  /\ unread' = <<>>
  /\ unshown' = [o \in Outputs |-> <<>>]
  /\ UNCHANGED <<program, devFirst, image, current_num, failed, stopped>>

Next == Tick \/ Receive \/ ResetAll

Spec == Init /\ [][Next]_vars

\* p_disable is a probability below one: again and again there is a tick
\* after which the device is not paused.
FairSpec == Spec /\ WF_vars(Tick /\ enable')

-----------------------------------------------------------------------------
TypeOK ==
  /\ MasterTypeOK
  /\ DeviceTypeOK
  /\ mem \in Memory
  /\ con \in ConfregState
  /\ current_num \in 0 .. Num(WordMod - 1)
  /\ {failed, stopped} \subseteq BOOLEAN
  /\ unread \in Seq(Char)
  /\ unshown \in [Outputs -> Seq(Char)]

\* The device keeps what the cache bus promises, as CBusToAXI does
\* (memory.h 87), for wrapping bursts and whatever pauses it makes, with the
\* memory behind both of its places; only a reset takes data back.
Backed == {a \in Addr : ~ToConfreg(a)}
Bus == INSTANCE BurstMemory WITH resp <- eval_resp, Home <- translate
AsBurstMemory == Bus!Init /\ [][Bus!Next \/ ResetAll]_<<masterVars, mem, eval_resp>>

\* The two transaction states agree at the start of every cycle, so that a
\* pause anywhere in a burst repeats the beat and does not skip one; and no
\* assertion on the request, the range of the memory or the UART's queue
\* (cbus_device.cpp 39, memory.cpp 123, confreg.cpp 103) ever fires.
Consistent == ntx = tx /\ ~failed

\* Every request gets its last beat, although the device pauses at random,
\* unless the program itself stops the simulation or a reset ends it.
Answered == req.valid ~> (eval_resp.last \/ stopped \/ ~req.valid)

\* What is typed at the pty is read from RXD once, in order and without a
\* gap, however loads, pauses and the thread that receives it fall together.
InputOnce ==
  /\ unread = con.ififo
  /\ Reads => unread # <<>> /\ eval_resp.data = Head(unread)

\* What the program writes to either output comes out once, in order, and
\* at the latest one tick after the beat.
OutputOnce ==
  [][Tick => \A o \in Outputs :
       /\ IsPrefix(PutOut(con', o), unshown[o] \o Writes(o))
       /\ Len(unshown[o]) <= IF devFirst THEN 0 ELSE 1]_vars

\* A reset leaves nothing of the test before it in the registers, provided
\* that the model's tick ends with Confreg's sync.
FreshStart == [][ResetAll /\ devFirst => con' = NewConfreg /\ mem' = image]_vars
=============================================================================
