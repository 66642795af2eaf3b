-------------------------------- MODULE Bytes --------------------------------
(***************************************************************************)
(* Memory words as functions from byte lane to byte, lane 0 being the      *)
(* least significant.  Of a byte only zero and its sign matter.            *)
(***************************************************************************)
EXTENDS Integers

CONSTANTS
  LogLanes,    \* a word has 2^LogLanes bytes (3 in the code)
  Byte,        \* values of a byte
  Negative,    \* those with the sign bit set
  FF           \* the byte of all ones

ASSUME ByteAssumption ==
  /\ LogLanes \in 0 .. 3
  /\ 0 \in Byte
  /\ FF \in Negative
  /\ Negative \subseteq Byte \ {0}

Lane == 0 .. 2 ^ LogLanes - 1
Words == [Lane -> Byte]
Sizes == 0 .. LogLanes            \* MSIZE1, 2, 4, 8
Width(size) == 2 ^ size

\* The aligned places of all sizes: <<address, size>>.
Places == {p \in Lane \X Sizes : p[1] % Width(p[2]) = 0}
=============================================================================
