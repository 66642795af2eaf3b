---------------------------- MODULE BurstMemory ----------------------------
(***************************************************************************)
(* What a cache bus promises to its master: a memory that takes one burst  *)
(* at a time, beat by beat, in the order and at the addresses of AXI's     *)
(* burst types.  A write has happened as soon as its beat is answered, a   *)
(* read returns what has happened so far, and `last' comes with the final  *)
(* beat and only with it.  Addresses that are not Backed belong to devices *)
(* of which nothing is promised here.                                      *)
(***************************************************************************)
EXTENDS CBusMaster, WordCells

CONSTANTS
  Backed,         \* addresses with memory behind them
  Home(_)         \* where in the memory such an address lies

VARIABLES
  mem,            \* cell -> word
  resp            \* the answer on the bus

-----------------------------------------------------------------------------
\* Answers that may stand next to a request of which n beats are done.
IsAnswer(a, m, r, n) ==
  \/ ~a.ready /\ ~a.last
  \/ /\ a.ready
     /\ r.valid
     /\ a.last <=> n = r.len
     /\ ~r.is_write /\ BeatAddr(r, n) \in Backed =>
          a.data = m[Cell(Home(BeatAddr(r, n)))]

Init ==
  /\ mem \in Memory
  /\ MasterInit
  /\ resp \in cbus_resp_t
  /\ IsAnswer(resp, mem, req, beats)

Clock ==
  /\ MasterClock(resp)
  /\ mem' = IF resp.ready /\ req.is_write /\ BeatAddr(req, beats) \in Backed
              THEN Written(mem, Home(BeatAddr(req, beats)), req.data, req.strobe)
              ELSE mem
  /\ resp' \in cbus_resp_t
  /\ IsAnswer(resp', mem', req', beats')

Next == Clock

Spec == Init /\ [][Next]_<<masterVars, mem, resp>>
=============================================================================
