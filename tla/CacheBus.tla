------------------------------ MODULE CacheBus ------------------------------
(***************************************************************************)
(* RAMHelper2 (ram.sv) behind a master that uses the whole cache bus.  The *)
(* processor of SimTop only issues one-beat FIXED transfers; the memory's  *)
(* burst logic serves whatever cache is put between them.                  *)
(***************************************************************************)
EXTENDS RAMHelper2, CBusMaster

\* 2^64, the number of addresses, is a multiple of the bytes of every burst.
ASSUME WindowAssumption ==
  \A n \in Lens, z \in Sizes : AddrMod % ((n + 1) * Bytes(z)) = 0

vars == <<ramVars, masterVars>>

Init == RamInit /\ MasterInit

Clock == RamClock(req) /\ MasterClock(oresp)

Next == Clock

Spec == Init /\ [][Next]_vars /\ WF_vars(Next)

-----------------------------------------------------------------------------
TypeOK == RamTypeOK /\ MasterTypeOK

\* A burst of reads returns the words of its beats in order, len + 1 of
\* them, whatever was written before and wherever the burst wraps.
ReadsInOrder ==
  oresp.ready => /\ oresp.last <=> beats = req.len
                 /\ ~req.is_write =>
                      oresp.data = ReadData(mem, dev, BeatAddr(req, beats))

\* What holds of every cycle of the bus: types, and reads in order.
Sound == TypeOK /\ ReadsInOrder

StoresAt(a) == mem' = WriteMem(mem, a, req.data, req.strobe)

\* Each beat of a write stores its word, under its own strobe, where AXI has
\* it, and a cycle that is no beat of a write stores nothing.
WritesBeats ==
  IF oresp.ready /\ req.is_write
    THEN StoresAt(BeatAddr(req, beats)) ELSE UNCHANGED mem

\* Beats that ram.sv's WRITE branch, which steps the address whatever the
\* type of the burst, may put elsewhere than AXI does: the later ones of a
\* FIXED or WRAP burst.
Incremented(r) == [r EXCEPT !.burst = "INCR"]
Strays == oresp.ready /\ req.is_write /\ beats > 0 /\ req.burst \in {"FIXED", "WRAP"}

\* Every beat of a write stores its word once, under its own strobe: in its
\* place, except for the later beats of FIXED and WRAP bursts, which go on as
\* those of an incrementing one (WriteMem drops what is not RAM).  Nothing
\* else ever stores: not an idle bus, a request that waits, or a burst of
\* reads of any type.
WritesInOrder ==
  [][IF Strays THEN StoresAt(BeatAddr(Incremented(req), beats))
               ELSE WritesBeats]_vars

\* What common.sv 217 promises of the cache bus, `simplified burst AXI
\* transaction interface': bursts of writes of all types go where AXI says.
WritesAsAXI == [][WritesBeats]_vars

\* A request that stays up is answered, unless the simulation is stopped,
\* which only a load beyond the range does.
Answered ==
  /\ [](fault # "modified")
  /\ req.valid ~> (oresp.last \/ fault = "range")
=============================================================================
