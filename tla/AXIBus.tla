------------------------------- MODULE AXIBus -------------------------------
(***************************************************************************)
(* A bursting master, CBusToAXI and an AXI memory on one clock.  The       *)
(* bridge calls itself the specification of the cache bus; here it is      *)
(* shown to implement one (BurstMemory).                                   *)
(***************************************************************************)
EXTENDS CBusToAXI, AXISlave

vars == <<masterVars, bridgeVars, slaveVars>>

-----------------------------------------------------------------------------
resp == cresp(axi)

\* After MaxStall cycles without a handshake the memory opens some channel
\* that the bridge holds open, if there is one it may open.
NotStuck ==
  stall' = MaxStall /\ in_issue' \cap open' # {} => in_issue' \cap up' # {}

Init ==
  /\ MasterInit
  /\ BridgeInit
  /\ SlaveInit

Clock ==
  /\ MasterClock(resp)
  /\ BridgeClock(req, axi)
  /\ SlaveClock(in_issue, address(req), wbeat(req))
  /\ NotStuck

Next == Clock

Spec == Init /\ [][Next]_vars

FairSpec == Spec /\ WF_vars(Clock)

-----------------------------------------------------------------------------
Burst == [addr : Addr, len : mlen_t, size : msize_t, burst : axi_burst_type_t]

TypeOK ==
  /\ MasterTypeOK
  /\ BridgeTypeOK
  /\ up \subseteq Channels
  /\ mem \in Memory
  /\ rd \in Burst \cup {NoBurst}
  /\ rbeat \in 0 .. 255
  /\ aw \in Burst \cup {NoBurst}
  /\ \A n \in DOMAIN ws : ws[n] \in [data : Word, strobe : Strobe, last : BOOLEAN]
  /\ stall \in 0 .. MaxStall

\* The memory as the master may think of it: the beats of a write count from
\* the cycle they were answered in, although the memory holds them back, may
\* not even know their address yet, and stores them after the master was
\* told that all is done and has put up its next request.
Same(a) == a
Bus == INSTANCE BurstMemory WITH mem <- Stored(mem, address(req), ws),
                                 Backed <- Addr, Home <- Same
AsBurstMemory == Bus!Spec

\* AXI's rule for the bridge's own valid signals: what it shows on AR, AW or
\* W stays as it is until it is taken.  For W, the payload is the master's.
HeldUntilTaken ==
  [][LET waits(c) == c \in in_issue /\ c \notin up
     IN  /\ waits("AR") \/ waits("AW") =>
              in_issue' \cap {"AR", "AW"} # {} /\ address(req)' = address(req)
         /\ waits("W") => "W" \in in_issue' /\ wbeat(req)' = wbeat(req)]_vars

\* When the bridge is ready for the next request, the memory has nothing
\* left of the last one: no beat, no data, no response that a later
\* transaction could take for its own.
NothingLeft ==
  in_issue = {} => rd = NoBurst /\ aw = NoBurst /\ ws = <<>> /\ up \cap {"R", "B"} = {}

\* What holds of every cycle of the bridge: types, and nothing left over.
Sound == TypeOK /\ NothingLeft

\* A request that stays up gets its last beat.
Answered == req.valid ~> resp.last
=============================================================================
