-------------------------------- MODULE Lanes --------------------------------
(***************************************************************************)
(* Loads and stores of all sizes on one memory cell: wd.sv puts the        *)
(* operand of a store on the byte lanes of the bus and sets their strobe,  *)
(* ram.sv and ram_write_helper merge the strobed bytes into the cell, and  *)
(* rd.sv takes the bytes of a load out of the bus word and extends them.   *)
(* A word is a function from lane to byte, lane 0 being bits 7 .. 0.       *)
(***************************************************************************)
EXTENDS Bytes

VARIABLES
  cell,        \* the RAM cell
  reg          \* the register stores come from and loads go to

vars == <<cell, reg>>

Program == INSTANCE ByteMemory WITH bytes <- cell

-----------------------------------------------------------------------------
\* The lowest lane of an access: addr bits below the size are not looked at.
First(addr, size) == addr - (addr % Width(size))
Touched(addr, size) == First(addr, size) .. First(addr, size) + Width(size) - 1

\* Mutant: all lanes of the bus are written.
strobe_All(addr, size) == [l \in Lane |-> TRUE]

\* wd.sv: the bus word and the strobe of a store of v; idle lanes are zero.
wd(addr, size, v) ==
  [l \in Lane |-> IF l \in Touched(addr, size) THEN v[l - First(addr, size)] ELSE 0]
strobe(addr, size) == [l \in Lane |-> l \in Touched(addr, size)]

\* wmask in ram.sv, and ram_write_helper.
Merge(old, new, st) == [l \in Lane |-> IF st[l] THEN new[l] ELSE old[l]]

\* rd.sv: the addressed bytes of the bus word, extended.
rd(word, addr, size, mem_unsigned) ==
  LET first == First(addr, size)
      sign  == ~mem_unsigned /\ word[first + Width(size) - 1] \in Negative
  IN  [l \in Lane |-> IF l < Width(size) THEN word[first + l]
                      ELSE IF sign THEN FF ELSE 0]

-----------------------------------------------------------------------------
Init ==
  /\ cell \in Words
  /\ reg \in Words

\* A store instruction on its way to the cell.
Store(addr, size) ==
  /\ cell' = Merge(cell, wd(addr, size, reg), strobe(addr, size))
  /\ reg' = reg

\* A load instruction.
Load(addr, size, mem_unsigned) ==
  /\ reg' = rd(cell, addr, size, mem_unsigned)
  /\ cell' = cell

Next ==
  \E place \in Places :
    \/ Store(place[1], place[2])
    \/ \E u \in BOOLEAN : Load(place[1], place[2], u)

Spec == Init /\ [][Next]_vars

-----------------------------------------------------------------------------
\* Through lanes, strobes and extension, a program sees a row of bytes: what
\* a store of one size leaves can be loaded with any other, neighbours keep
\* their values, and a short load is extended from its own top byte.
SeesBytes == Program!Spec
=============================================================================
