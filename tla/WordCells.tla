----------------------------- MODULE WordCells -----------------------------
(***************************************************************************)
(* A plain memory of words, as BlockMemory of verilate/vsrc/memory.cpp:    *)
(* one word per cell of WordBytes addresses, stored through a mask.        *)
(***************************************************************************)
EXTENDS CBus

CONSTANTS
  WordBytes,      \* bytes of a cell (8)
  MemBytes,       \* bytes of the memory
  Merge(_, _, _)  \* Merge(old, new, strobe): (old & ~mask) | (new & mask)

ASSUME CellAssumption ==
  /\ WordBytes \in Nat \ {0}
  /\ MemBytes \in Nat \ {0}
  /\ \A old, new \in Word, s \in Strobe : Merge(old, new, s) \in Word

Cell(a) == a \div WordBytes
Memory == [0 .. Cell(MemBytes - 1) -> Word]

Written(m, a, word, strobe) ==
  [m EXCEPT ![Cell(a)] = Merge(@, word, strobe)]
=============================================================================
