------------------------------- MODULE Image -------------------------------
(***************************************************************************)
(* How the verilate simulator fills its memory before a run: the file is   *)
(* read chunk by chunk into a sequence of bytes (parse_memory_file and     *)
(* feed of verilate/vsrc/common.cpp), which BlockMemory's constructor maps *)
(* into words of zeros, byte by byte (memory.cpp).                         *)
(***************************************************************************)
EXTENDS Naturals, SequencesExt

CONSTANTS
  Half,       \* bytes of the 32-bit constant that map shifts (4); a word has twice as many
  Byte,       \* values of a byte
  Cells,      \* words of the memory
  MaxChunks   \* bound on the length of a file

VARIABLES
  file,     \* what is left to read
  data,     \* ByteSeq
  i,        \* map's loop counter
  mem       \* cell -> lane -> byte

vars == <<file, data, i, mem>>

Lane == 0 .. 2 * Half - 1

\* A binary file comes by bytes; of the text formats, a line is blank or
\* holds a 32-bit number, lowest byte first.
Files ==
  SeqOf([1 .. 1 -> Byte], MaxChunks)
    \cup SeqOf({<<>>} \cup [1 .. Half -> Byte], MaxChunks)

Init ==
  /\ file \in Files
  /\ data = <<>>
  /\ i = 0
  /\ mem = [c \in 0 .. Cells - 1 |-> [l \in Lane |-> 0]]

feed ==
  /\ file # <<>>
  /\ data' = data \o Head(file)
  /\ file' = Tail(file)
  /\ UNCHANGED <<i, mem>>

\* The lanes of `0xffu << shamt'.  A shift by 32 or more is undefined: the
\* machine's shift takes the amount modulo 32, and a compiler may as well
\* have computed nothing.
Shifted(lane) == IF lane < Half THEN {{lane}} ELSE {{lane % Half}, {}}

\* One round of map's loop.  The mask is complemented in 32 bits, and then
\* zero-extended to the word.
map ==
  /\ file = <<>>
  /\ i < Len(data)
  /\ Len(data) <= Cells * 2 * Half
  /\ \E hit \in Shifted(i % (2 * Half)) :
       LET mask == (0 .. Half - 1) \ hit
       IN  mem' = [mem EXCEPT ![i \div (2 * Half)] =
                     [l \in Lane |-> IF l = i % (2 * Half) THEN data[i + 1]
                                     ELSE IF l \in mask THEN @[l] ELSE 0]]
  /\ i' = i + 1
  /\ UNCHANGED <<file, data>>

Next == feed \/ map

Spec == Init /\ [][Next]_vars

-----------------------------------------------------------------------------
\* The memory holds the file from which it is initialised ("File path of
\* memory initialization file", runner.h 71), once map has come to its end.
Loaded ==
  file = <<>> /\ i = Len(data) =>
    \A n \in 1 .. i : mem[(n - 1) \div (2 * Half)][(n - 1) % (2 * Half)] = data[n]
=============================================================================
