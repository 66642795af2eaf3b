----------------------------- MODULE CBusToAXI -----------------------------
(***************************************************************************)
(* vsrc/util/CBusToAXI.sv: one cache-bus request becomes one AXI burst.    *)
(* in_issue has one bit for each AXI channel on which the transaction      *)
(* still has something to do.  AW, W and B are under way together, so that *)
(* the master can get its `last' while the address or the response of the  *)
(* write is still open, and put up its next request.                       *)
(*                                                                         *)
(* Inputs are parameters: creq, the live request, and s, what the AXI side *)
(* shows: s.up, the channels on which it is ready (AR, AW, W) or has       *)
(* something valid (R, B), and rlast and rdata.                            *)
(***************************************************************************)
EXTENDS CBus

Channels == {"AR", "R", "AW", "W", "B"}

VARIABLES
  in_issue,    \* channels not yet done with
  saved_req,   \* the request as accepted
  count        \* beats to come after the current one

bridgeVars == <<in_issue, saved_req, count>>

-----------------------------------------------------------------------------
\* Mutant: the response of a write is not waited for.
next_issue_NoB(creq) == IF creq.is_write THEN {"AW", "W"} ELSE {"AR", "R"}

next_issue(creq) == IF creq.is_write THEN {"AW", "W", "B"} ELSE {"AR", "R"}

is_last == count = 0

handshake(s) == in_issue \cap s.up

\* Mutant: the first beat ends the read channel.
ended_First(s) == {c \in handshake(s) : c = "W" => is_last}

\* R and W end with their last beat, the others with their handshake.
ended(s) ==
  {c \in handshake(s) : /\ c = "R" => s.rlast
                        /\ c = "W" => is_last}

cresp(s) ==
  LET ready == handshake(s) \cap {"R", "W"} # {}
  IN  [ready |-> ready,
       last  |-> ready /\ ("R" \in in_issue => s.rlast) /\ is_last,
       data  |-> s.rdata]

\* Mutant: the address channels show the live request.
address_Live(creq) ==
  [addr |-> creq.addr, len |-> creq.len, size |-> creq.size, burst |-> "WRAP"]

\* The payloads of AR and AW, from the accepted request, and of W, from the
\* live one.
address(creq) ==
  [addr |-> saved_req.addr, len |-> saved_req.len, size |-> saved_req.size,
   burst |-> "WRAP"]

wbeat(creq) == [data |-> creq.data, strobe |-> creq.strobe, last |-> is_last]

-----------------------------------------------------------------------------
\* A transaction is under way.
Transfer(s) ==
  /\ in_issue # {}
  /\ in_issue' = in_issue \ ended(s)
  /\ count' = IF cresp(s).ready /\ ~cresp(s).last THEN (count - 1) % 256 ELSE count
  /\ saved_req' = saved_req

\* Idle: whatever is on the cache bus is saved, and issued if valid.
Accept(creq) ==
  /\ in_issue = {}
  /\ in_issue' = IF creq.valid THEN next_issue(creq) ELSE {}
  /\ saved_req' = creq
  /\ count' = creq.len

BridgeClock(creq, s) == Transfer(s) \/ Accept(creq)

\* Reset clears in_issue only; the rest is loaded before it is read.
BridgeInit ==
  /\ in_issue = {}
  /\ saved_req = NoReq
  /\ count \in mlen_t

BridgeTypeOK ==
  /\ in_issue \subseteq Channels
  /\ saved_req \in cbus_req_t
  /\ count \in 0 .. 255
=============================================================================
