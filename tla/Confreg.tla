------------------------------ MODULE Confreg ------------------------------
(***************************************************************************)
(* verilate/vsrc/confreg.cpp, with its header: the registers of the board  *)
(* that the verilate simulator puts next to the memory.  A load answers at *)
(* once; what a store, or the load of a character, changes is collected    *)
(* and takes effect in sync, once per tick.  ctx collects, ctx0 is what    *)
(* the simulator looks at after sync.                                      *)
(*                                                                         *)
(* A character and the flag that says it is there are one value, None or   *)
(* the character; of the list of changes, which sync applies in order,     *)
(* only the last one of each register is kept.  CR stands for all          *)
(* registers that only keep a word.                                        *)
(***************************************************************************)
EXTENDS CBus, Sequences

CONSTANTS
  CharMod,      \* a character is a number below CharMod (2^8)
  ByteStrobe,   \* the strobe of a byte store, whose mask is 0xff
  HalfMod,      \* 2^16, for swap_bytes
  None          \* no character

ASSUME ConfregAssumption ==
  /\ CharMod \in 2 .. WordMod
  /\ HalfMod \in Nat \ {0}
  /\ HalfMod * HalfMod <= WordMod
  /\ None \notin Word

Char == 0 .. CharMod - 1

Registers == {"CR", "NUM", "TIMER", "IO_SIMU", "VIRTUAL_UART", "SIMU_FLAG",
              "OPEN_TRACE", "NUM_MONITOR"}

Context == [uart_avail : BOOLEAN, uart_fetched : BOOLEAN, uart : Char \cup {None},
            vuart : Char \cup {None}, v_open_trace : BOOLEAN,
            v_num_monitor : BOOLEAN, v_num : Word]

ConfregState ==
  [ctx : Context, ctx0 : Context, ififo : Seq(Char), regs : [Registers -> Word],
   changes : [Registers -> Word \cup {None}]]

-----------------------------------------------------------------------------
NewContext ==
  [uart_avail |-> FALSE, uart_fetched |-> FALSE, uart |-> None, vuart |-> None,
   v_open_trace |-> TRUE, v_num_monitor |-> TRUE, v_num |-> 0]

NewRegs ==
  [r \in Registers |-> IF r = "SIMU_FLAG" THEN WordMod - 1
                       ELSE IF r \in {"OPEN_TRACE", "NUM_MONITOR"} THEN 1 ELSE 0]

NoChanges == [r \in Registers |-> None]

NewConfreg == [ctx |-> NewContext, ctx0 |-> NewContext, ififo |-> <<>>,
               regs |-> NewRegs, changes |-> NoChanges]

\* Mutant: the contexts survive a reset.
reset_Keeps(c) == [c EXCEPT !.ififo = <<>>, !.regs = NewRegs]

\* reset: everything but the list of changes.
reset(c) == [NewConfreg EXCEPT !.changes = c.changes]

-----------------------------------------------------------------------------
\* load: LSR tells what sync found, RXD shows the front of the queue.
load(c, r) ==
  IF r = "LSR" THEN (IF c.ctx.uart_avail THEN 1 ELSE 0)
  ELSE IF r = "UART" THEN (IF c.ctx.uart_avail THEN Head(c.ififo) ELSE 0)
  ELSE IF r \in Registers THEN c.regs[r] ELSE 0

\* Mutant: a look at LSR takes the character too.
fetched_LSR(c, r) ==
  [c EXCEPT !.ctx.uart_fetched = @ \/ (r \in {"UART", "LSR"} /\ c.ctx.uart_avail)]

\* What a load leaves behind.
fetched(c, r) ==
  [c EXCEPT !.ctx.uart_fetched = @ \/ (r = "UART" /\ c.ctx.uart_avail)]

\* LSR cannot be written, the UART takes nothing but bytes.
Panics(r, strobe) == r = "LSR" \/ (r = "UART" /\ strobe # ByteStrobe)

swap_bytes(w) == ((w \div HalfMod) % HalfMod) + ((w % HalfMod) * HalfMod)

Kept(r, w) ==
  IF r = "VIRTUAL_UART" THEN w % CharMod
  ELSE IF r = "SIMU_FLAG" THEN WordMod - 1
  ELSE IF r = "IO_SIMU" THEN swap_bytes(w)
  ELSE IF r = "OPEN_TRACE" THEN (IF w = 0 THEN 0 ELSE 1)
  ELSE IF r = "NUM_MONITOR" THEN w % 2 ELSE w

\* store, which looks at no mask beyond Panics.
store(c, r, w) ==
  IF r = "UART" THEN [c EXCEPT !.ctx.uart = w % CharMod]
  ELSE LET d == Kept(r, w) IN
       [c EXCEPT !.ctx.vuart = IF r = "VIRTUAL_UART" THEN d ELSE @,
                 !.ctx.v_num = IF r = "NUM" THEN d ELSE @,
                 !.ctx.v_open_trace = IF r = "OPEN_TRACE" THEN d = 1 ELSE @,
                 !.ctx.v_num_monitor = IF r = "NUM_MONITOR" THEN d = 1 ELSE @,
                 !.changes = IF r \in Registers THEN [@ EXCEPT ![r] = d] ELSE @]

\* The changes, then the timer.
Latest(c, r) == IF c.changes[r] = None THEN c.regs[r] ELSE c.changes[r]
Committed(c) ==
  [r \in Registers |->
     IF r = "TIMER" THEN (Latest(c, r) + 1) % WordMod ELSE Latest(c, r)]

\* The queue after sync has taken what a load has seen.
rest(c) == IF c.ctx.uart_fetched THEN Tail(c.ififo) ELSE c.ififo

synced(c, vuart) ==
  [ctx |-> [c.ctx EXCEPT !.uart_avail = rest(c) # <<>>, !.uart = None,
                         !.uart_fetched = FALSE, !.vuart = vuart],
   ctx0 |-> c.ctx,
   ififo |-> rest(c),
   regs |-> Committed(c),
   changes |-> NoChanges]

\* Mutant: the flag of the virtual UART stays set.
sync_FlagStays(c) == synced(c, c.ctx.vuart)

sync(c) == synced(c, None)

\* The internal assertion of sync.
PopsNothing(c) == c.ctx.uart_fetched /\ c.ififo = <<>>
=============================================================================
