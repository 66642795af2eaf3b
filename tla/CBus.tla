-------------------------------- MODULE CBus --------------------------------
(***************************************************************************)
(* The cache bus of vsrc/include/common.sv: the records that masters and   *)
(* the memory exchange, and the two combinational bridges that turn the    *)
(* core's instruction and data ports into cache-bus masters.               *)
(*                                                                         *)
(* A request is held, combinationally, until the memory answers it with    *)
(* `last'.  Both bridges only ever issue one-beat FIXED transfers, and     *)
(* both report a transfer to the core only on ready and last together.     *)
(***************************************************************************)
EXTENDS Naturals

CONSTANTS
  WordMod,    \* a bus word is a number below WordMod (2^64 in the code)
  AddrMod,    \* an address is a number below AddrMod (2^64 in the code)
  StrobeMod   \* a write strobe is a bit mask below StrobeMod (2^8)

ASSUME BusAssumption ==
  /\ WordMod \in Nat \ {0, 1}
  /\ AddrMod \in Nat \ {0}
  /\ StrobeMod \in Nat \ {0, 1}

Word == 0 .. WordMod - 1
Addr == 0 .. AddrMod - 1
Strobe == 0 .. StrobeMod - 1

msize_t == 0 .. 3                       \* MSIZE1, 2, 4, 8: log2 of the bytes
mlen_t == {0, 1, 3, 7, 15, 31, 63, 127, 255}  \* MLENn is n - 1
axi_burst_type_t == {"FIXED", "INCR", "WRAP", "RESERVED"}

MSIZE4 == 2
MLEN1 == 0

cbus_req_t == [valid : BOOLEAN, is_write : BOOLEAN, size : msize_t,
               addr : Addr, strobe : Strobe, data : Word, len : mlen_t,
               burst : axi_burst_type_t]

cbus_resp_t == [ready : BOOLEAN, last : BOOLEAN, data : Word]

dbus_req_t == [valid : BOOLEAN, addr : Addr, size : msize_t,
               strobe : Strobe, data : Word]

\* The all-zero request and response ('0 in the code).
NoReq == [valid |-> FALSE, is_write |-> FALSE, size |-> 0, addr |-> 0,
          strobe |-> 0, data |-> 0, len |-> MLEN1, burst |-> "FIXED"]

NoResp == [ready |-> FALSE, last |-> FALSE, data |-> 0]

-----------------------------------------------------------------------------
\* `IREQ_TO_DREQ: a fetch is a four-byte read.
IREQ_TO_DREQ(valid, addr) ==
  [valid |-> valid, addr |-> addr, size |-> MSIZE4, strobe |-> 0, data |-> 0]

\* DBusToCBus, request side: a write is a request with some strobe bit set.
ToCBus(dreq) ==
  [valid |-> dreq.valid, is_write |-> dreq.strobe # 0, size |-> dreq.size,
   addr |-> dreq.addr, strobe |-> dreq.strobe, data |-> dreq.data,
   len |-> MLEN1, burst |-> "FIXED"]

\* DBusToCBus, response side: data_ok (and addr_ok) of the data bus.
Okay(dcresp) == dcresp.ready /\ dcresp.last

-----------------------------------------------------------------------------
\* The bytes of a beat: 1 << size.
Bytes(size) == <<1, 2, 4, 8>>[size + 1]

\* The address of beat n of request r, as AXI defines the three burst types.
BeatAddr(r, n) ==
  LET step == n * Bytes(r.size)
      span == (r.len + 1) * Bytes(r.size)
      low  == (r.addr \div span) * span
  IN  IF r.burst = "FIXED" THEN r.addr
      ELSE IF r.burst = "WRAP" THEN low + ((r.addr - low + step) % span)
      ELSE (r.addr + step) % AddrMod
=============================================================================
