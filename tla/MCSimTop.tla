------------------------------ MODULE MCSimTop ------------------------------
(***************************************************************************)
(* Small processors for TLC.  Words are two bits wide, an address is one   *)
(* instruction wide, and a RAM cell holds two instructions, as in the      *)
(* code.  What a word means as an instruction depends on the word and on   *)
(* the half it is fetched from, and RAM starts with any contents: a run    *)
(* covers every program of the size of RAM, those included that overwrite  *)
(* themselves.                                                             *)
(***************************************************************************)
EXTENDS SimTop, FiniteSetsExt

MCFn == {0, 4}

I(k, d, s1, s2, f) == [kind |-> k, rd |-> d, rs1 |-> s1, rs2 |-> s2, fn |-> f]

\* One instruction of every supported kind, loads and stores twice: fn = 4
\* moves the address from RAM (0 .. 3) to the devices (4 .. 7).
CoreTable ==
  << <<I("nowrite", 0, 1, 2, 0), I("mul", 1, 1, 2, 0)>>,
     <<I("load", 1, 1, 0, 0),    I("load", 2, 1, 0, 4)>>,
     <<I("store", 0, 1, 2, 0),   I("alu", 1, 2, 2, 0)>>,
     <<I("alu", 2, 1, 0, 0),     I("div", 1, 2, 1, 0)>> >>

\* Mostly loads and stores, to RAM, to the devices and beyond the end of RAM.
DeviceTable ==
  << <<I("store", 0, 2, 1, 4), I("load", 1, 1, 0, 4)>>,
     <<I("alu", 2, 1, 0, 0),   I("store", 0, 1, 2, 0)>>,
     <<I("alu", 1, 2, 0, 0),   I("store", 0, 1, 1, 4)>>,
     <<I("load", 2, 1, 0, 0),  I("nowrite", 0, 1, 2, 0)>> >>

\* With the encodings the control unit half-recognises.
StrayTable ==
  << <<I("nowrite", 0, 1, 2, 0),    I("alu", 2, 1, 0, 0)>>,
     <<I("m_reserved", 1, 1, 2, 0), I("load", 1, 1, 0, 0)>>,
     <<I("div_stray", 1, 1, 2, 0),  I("mul", 1, 1, 2, 0)>>,
     <<I("store", 0, 1, 2, 0),      I("div", 2, 1, 2, 0)>> >>

CoreInstrAt(w, a) == CoreTable[w + 1][1 + (a % 2)]
DeviceInstrAt(w, a) == DeviceTable[w + 1][1 + (a % 2)]
StrayInstrAt(w, a) == StrayTable[w + 1][1 + (a % 2)]

CoreKinds == SupportedKinds
StrayKinds == AllKinds

MCAluRes(i, a, b, p) == (a + b + 1) % WordMod

\* A branch compares its operands; code stays in RAM.
MCNextPc(i, a, b, p) ==
  (IF i.kind = "nowrite" /\ a = b THEN p + 2 ELSE p + 1) % (2 * RamWords)

MCEa(i, a) == (a + i.fn) % AddrMod
MCMSize(i) == IF i.fn = 0 THEN 3 ELSE 2
MCLoadVal(i, a, w) == IF i.fn = 0 THEN w ELSE w % 2
MCStoreData(i, a, w) == w
MCStoreStrobe(i, a) == IF i.fn = 0 THEN 3 ELSE 1 + (a % 2)

\* Two one-bit lanes.
MCMerge(old, new, s) ==
  (IF s % 2 = 1 THEN new % 2 ELSE old % 2)
    + 2 * ((IF s \div 2 = 1 THEN new ELSE old) \div 2)

\* A run that saw more than one value at a port computes something else.
MCUnitRes(i, A, B) ==
  IF Cardinality(A) = 1 /\ Cardinality(B) = 1
    THEN LET a == Max(A)
             b == Max(B)
         IN  IF i.kind = "mul" THEN (a * b) % WordMod
             ELSE IF b = 0 THEN WordMod - 1 ELSE a \div b
    ELSE SumSet(A \cup B) % WordMod
=============================================================================
