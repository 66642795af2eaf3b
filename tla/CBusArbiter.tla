----------------------------- MODULE CBusArbiter -----------------------------
(***************************************************************************)
(* vsrc/util/CBusArbiter.sv: NumInputs cache-bus masters share one memory. *)
(* The arbiter latches the index of the lowest-numbered valid request,     *)
(* forwards that master's (live) request while busy, and frees the bus on  *)
(* the memory's `last'.  A grant therefore costs one idle cycle, in which  *)
(* nothing is forwarded.                                                   *)
(*                                                                         *)
(* Inputs of the module are parameters of the operators: ireqs, a function *)
(* from master to request, and oresp, the memory's response.               *)
(***************************************************************************)
EXTENDS CBus

CONSTANT NumInputs          \* NUM_INPUTS

ASSUME NumInputsAssumption == NumInputs \in Nat \ {0}

VARIABLES
  busy,       \* a transaction is on the bus
  index,      \* the master it belongs to (meaningful while busy)
  saved_req   \* the request as it was when granted

arbVars == <<busy, index, saved_req>>

Masters == 0 .. NumInputs - 1

-----------------------------------------------------------------------------
\* Combinational outputs.

\* The preferred master: the first with a valid request, else master 0.
selects(k, ireqs) ==
  \/ /\ ireqs[k].valid
     /\ \A j \in Masters : j < k => ~ireqs[j].valid
  \/ /\ k = 0
     /\ \A j \in Masters : ~ireqs[j].valid

\* Nothing is forwarded while idle ("prevent early issue").
oreqOf(ireqs) == IF busy THEN ireqs[index] ELSE NoReq

\* Mutant: every master sees the memory's response.
irespOf_All(k, oresp) == IF busy THEN oresp ELSE NoResp

\* Only the granted master sees the memory's response.
irespOf(k, oresp) == IF busy /\ index = k THEN oresp ELSE NoResp

-----------------------------------------------------------------------------
ArbInit ==
  /\ busy = FALSE
  /\ index = 0
  /\ saved_req = NoReq

\* The memory ends the transaction: the bus is free in the next cycle.
Release(oresp) ==
  /\ busy
  /\ oresp.last
  /\ busy' = FALSE
  /\ saved_req' = NoReq
  /\ index' = index

\* The transaction goes on.
Hold(oresp) ==
  /\ busy
  /\ ~oresp.last
  /\ UNCHANGED arbVars

\* Mutant: only master 0 can occupy the bus.
Select_Zero(ireqs) ==
  /\ ~busy
  /\ busy' = ireqs[0].valid
  /\ index' = 0
  /\ saved_req' = ireqs[0]

\* Idle: latch the preferred master, valid or not.
Select(ireqs) ==
  /\ ~busy
  /\ \E k \in Masters :
       /\ selects(k, ireqs)
       /\ busy' = ireqs[k].valid
       /\ index' = k
       /\ saved_req' = ireqs[k]

ArbClock(ireqs, oresp) ==
  \/ Release(oresp)
  \/ Hold(oresp)
  \/ Select(ireqs)

ArbTypeOK ==
  /\ busy \in BOOLEAN
  /\ index \in Masters
  /\ saved_req \in cbus_req_t
=============================================================================
