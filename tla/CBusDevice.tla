----------------------------- MODULE CBusDevice -----------------------------
(***************************************************************************)
(* verilate/vsrc/cbus_device.cpp with verilate/include/axi.h: the end of a *)
(* cache bus in the verilate simulator, "which should match the behavior   *)
(* of module CBusToAXI".  A cycle is eval_resp, eval_req with the request  *)
(* of the model under test, and sync.  ntx, the transaction state of the   *)
(* next cycle, outlives the cycle: a pause leaves it as it was, and sync   *)
(* copies it whenever the device is enabled.  What is loaded and stored    *)
(* here belongs to the module that puts a memory behind the device.        *)
(***************************************************************************)
EXTENDS CBus

VARIABLES
  tx, ntx,   \* AXITransaction, now and in the next cycle
  enable     \* does the device work in this cycle

deviceVars == <<tx, ntx, enable>>

-----------------------------------------------------------------------------
\* AXITransaction.  What it derives from the request once and for all
\* (Aligned_Address and the two wrap bounds) are operators here.
AXITransaction ==
  [busy : BOOLEAN, is_write : BOOLEAN, aligned : BOOLEAN, N : 0 .. 256,
   addr : Addr, Start_Address : Addr, Number_Bytes : {0, 1, 2, 4, 8},
   Burst_Length : 0 .. 256]

Reset == [busy |-> FALSE, is_write |-> FALSE, aligned |-> FALSE, N |-> 0,
          addr |-> 0, Start_Address |-> 0, Number_Bytes |-> 0, Burst_Length |-> 0]

init(r) == [busy |-> TRUE, is_write |-> r.is_write, aligned |-> FALSE, N |-> 1,
            addr |-> r.addr, Start_Address |-> r.addr,
            Number_Bytes |-> Bytes(r.size), Burst_Length |-> r.len + 1]

dtsize(t) == t.Number_Bytes * t.Burst_Length
Aligned_Address(t) == (t.Start_Address \div t.Number_Bytes) * t.Number_Bytes
Lower_Wrap_Boundary(t) == (t.Start_Address \div dtsize(t)) * dtsize(t)
Upper_Wrap_Boundary(t) == (Lower_Wrap_Boundary(t) + dtsize(t)) % AddrMod

next(t) == ((IF t.aligned THEN t.addr ELSE Aligned_Address(t))
              + t.Number_Bytes) % AddrMod

\* Mutant: the address wraps one beat late.
step_Late(t) ==
  [t EXCEPT !.N = @ + 1, !.aligned = TRUE,
            !.addr = IF next(t) > Upper_Wrap_Boundary(t)
                       THEN Lower_Wrap_Boundary(t) ELSE next(t)]

\* AXITransaction::sync: the next beat.
step(t) ==
  [t EXCEPT !.N = @ + 1, !.aligned = TRUE,
            !.addr = IF next(t) >= Upper_Wrap_Boundary(t)
                       THEN Lower_Wrap_Boundary(t) ELSE next(t)]

last(t) == t.N = t.Burst_Length

-----------------------------------------------------------------------------
\* The cycles in which the device calls load and store for tx.addr.
loads == enable /\ tx.busy /\ ~tx.is_write
stores == enable /\ tx.busy /\ tx.is_write

\* eval_resp: what the model under test sees; nothing during a pause.
Response(loaded) ==
  IF enable /\ tx.busy
    THEN [ready |-> TRUE, last |-> last(tx),
          data |-> IF tx.is_write THEN 0 ELSE loaded]
    ELSE NoResp

\* The assertions of eval_req: the request is still the one it took.
Changed(r) ==
  /\ enable /\ tx.busy
  /\ \/ ~r.valid
     \/ r.is_write # tx.is_write
     \/ Bytes(r.size) # tx.Number_Bytes
     \/ r.addr # tx.Start_Address
     \/ r.len + 1 # tx.Burst_Length

\* Mutants: busy is not set; a pause does not stop eval_req.
eval_req_NotBusy(r) ==
  IF ~enable THEN ntx
  ELSE IF tx.busy THEN (IF last(tx) THEN Reset ELSE step(ntx))
  ELSE IF r.valid THEN [init(r) EXCEPT !.busy = FALSE] ELSE ntx
eval_req_Paused(r) ==
  IF tx.busy THEN (IF last(tx) THEN Reset ELSE step(ntx))
  ELSE IF r.valid THEN init(r) ELSE ntx

\* eval_req's effect on ntx: it steps ntx itself, not a copy of tx.
eval_req(r) ==
  IF ~enable THEN ntx
  ELSE IF tx.busy THEN (IF last(tx) THEN Reset ELSE step(ntx))
  ELSE IF r.valid THEN init(r) ELSE ntx

DeviceInit ==
  /\ tx = Reset
  /\ ntx = Reset
  /\ enable = TRUE

\* sync: the new transaction state, and a coin toss for the next cycle.
DeviceClock(r) ==
  /\ ntx' = eval_req(r)
  /\ tx' = IF enable THEN ntx' ELSE tx
  /\ enable' \in BOOLEAN

\* reset leaves the coin as it lies.
DeviceReset ==
  /\ tx' = Reset
  /\ ntx' = Reset
  /\ UNCHANGED enable

DeviceTypeOK ==
  /\ tx \in AXITransaction
  /\ ntx \in AXITransaction
  /\ tx.N <= tx.Burst_Length
  /\ enable \in BOOLEAN
=============================================================================
