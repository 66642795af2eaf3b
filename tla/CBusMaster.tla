----------------------------- MODULE CBusMaster -----------------------------
(***************************************************************************)
(* A master that uses the whole cache bus: bursts, back to back or after a *)
(* pause.  It keeps a request up until the answer with `last' and moves to *)
(* the next word of a write with every beat, as the memory's check of the  *)
(* request (ram.sv 137-145) and CBusToAXI's live wdata both demand.        *)
(***************************************************************************)
EXTENDS CBus

CONSTANTS
  Starts,      \* addresses at which transfers start
  Lens,        \* burst lengths used
  Sizes,       \* transfer sizes used
  Bursts       \* burst types used in transfers of several beats

ASSUME MasterAssumption ==
  /\ Starts \subseteq Addr
  /\ Lens \subseteq mlen_t
  /\ Sizes \subseteq msize_t
  /\ Bursts \subseteq axi_burst_type_t \ {"RESERVED"}

VARIABLES
  req,         \* the request on the bus
  beats        \* beats of it the master has seen so far

masterVars == <<req, beats>>

-----------------------------------------------------------------------------
\* Requests: aligned to their size; a write carries some strobe; with one
\* beat all burst types mean the same.
NewReq ==
  {r \in [valid : {TRUE}, is_write : BOOLEAN, size : Sizes, addr : Starts,
          strobe : Strobe, data : Word, len : Lens,
          burst : Bursts \cup {"FIXED"}] :
     /\ r.addr % Bytes(r.size) = 0
     /\ r.is_write <=> r.strobe # 0
     /\ ~r.is_write => r.data = 0
     /\ r.len > 0 => r.burst \in Bursts}

MasterInit ==
  /\ req = NoReq
  /\ beats = 0

\* Nothing under way, or the last beat: the bus falls idle or is used again.
Turn(resp) ==
  /\ ~req.valid \/ resp.last
  /\ req' \in NewReq \cup {NoReq}
  /\ beats' = 0

\* A beat that is not the last: the next word of a write is put up.
Advance(resp) ==
  /\ req.valid
  /\ resp.ready
  /\ ~resp.last
  /\ \E d \in Word, s \in Strobe :
       /\ req.is_write \/ (d = 0 /\ s = 0)
       /\ req' = [req EXCEPT !.data = d, !.strobe = s]
  /\ beats' = beats + 1

\* No answer yet.
Stay(resp) ==
  /\ req.valid
  /\ ~resp.ready
  /\ UNCHANGED masterVars

MasterClock(resp) == Turn(resp) \/ Advance(resp) \/ Stay(resp)

MasterTypeOK ==
  /\ req \in cbus_req_t
  /\ beats \in 0 .. 255
=============================================================================
