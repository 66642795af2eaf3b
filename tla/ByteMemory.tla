------------------------------ MODULE ByteMemory ------------------------------
(***************************************************************************)
(* What loads and stores promise a program: memory is a row of bytes, a    *)
(* store of n bytes at a replaces bytes a .. a + n - 1 by the low bytes of *)
(* the register, a load fills the register with them, lowest first, and    *)
(* extends them by their sign or by zero.                                  *)
(***************************************************************************)
EXTENDS Bytes

VARIABLES
  bytes,       \* the bytes of one word of memory
  reg          \* the register stores come from and loads go to

-----------------------------------------------------------------------------
Store(addr, size) ==
  /\ bytes' = [l \in Lane |-> IF l - addr \in 0 .. Width(size) - 1
                                THEN reg[l - addr] ELSE bytes[l]]
  /\ reg' = reg

Load(addr, size, mem_unsigned) ==
  /\ reg' = [l \in Lane |->
               IF l < Width(size) THEN bytes[addr + l]
               ELSE IF mem_unsigned \/ bytes[addr + Width(size) - 1] \notin Negative
                 THEN 0 ELSE FF]
  /\ bytes' = bytes

Init ==
  /\ bytes \in Words
  /\ reg \in Words

Next ==
  \E place \in Places :
    \/ Store(place[1], place[2])
    \/ \E u \in BOOLEAN : Load(place[1], place[2], u)

Spec == Init /\ [][Next]_<<bytes, reg>>
=============================================================================
