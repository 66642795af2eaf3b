------------------------------ MODULE AXISlave ------------------------------
(***************************************************************************)
(* The other end of CBusToAXI's ports, which is not in the repository: an  *)
(* AXI memory with one read and one write under way at most.  Its channels *)
(* are independent: it may take data before the address, hold each channel *)
(* back as long as it likes, and store a write as late as it responds to   *)
(* it.  What AXI forbids it does not do: withdraw a valid beat or response,*)
(* or respond before address and last data have come.                      *)
(***************************************************************************)
EXTENDS CBusMaster, WordCells, SequencesExt

CONSTANT MaxStall   \* cycles in a row without a handshake

ASSUME SlaveAssumption == MaxStall \in Nat

VARIABLES
  up,       \* channels on which it is ready, or shows something valid
  mem,      \* cell -> word
  rd,       \* the read burst accepted on AR, or NoBurst
  rbeat,    \* beats of it done
  aw,       \* the write burst accepted on AW, or NoBurst
  ws,       \* the beats accepted on W
  stall     \* cycles since a channel had a handshake

slaveVars == <<up, mem, rd, rbeat, aw, ws, stall>>

NoBurst == [addr |-> 0, len |-> 0, size |-> 0, burst |-> "none"]

-----------------------------------------------------------------------------
axi == [up    |-> up,
        rlast |-> rd # NoBurst /\ rbeat = rd.len,
        rdata |-> IF "R" \in up THEN mem[Cell(BeatAddr(rd, rbeat))] ELSE 0]

\* Memory m after the beats of burst b.
Stored(m, b, beats_) ==
  LET after[n \in 0 .. Len(beats_)] ==
        IF n = 0 THEN m
        ELSE Written(after[n - 1], BeatAddr(b, n - 1), beats_[n].data, beats_[n].strobe)
  IN  after[Len(beats_)]

AllData(beats_) == beats_ # <<>> /\ Last(beats_).last

\* The channels it may open.
open ==
  {c \in {"AR", "R", "AW", "W", "B"} :
     /\ c = "AR" => rd = NoBurst
     /\ c = "R"  => rd # NoBurst
     /\ c = "AW" => aw = NoBurst
     /\ c = "W"  => ~AllData(ws)
     /\ c = "B"  => aw # NoBurst /\ AllData(ws)}

\* One edge; wanted are the channels the bridge holds open, address and w the
\* payloads it shows.  A ready with nothing valid next to it has no effect
\* and is left out.
SlaveClock(wanted, address, w) ==
  LET hs == wanted \cap up
  IN  /\ rd' = IF "AR" \in hs THEN address
               ELSE IF "R" \in hs /\ axi.rlast THEN NoBurst ELSE rd
      /\ rbeat' = IF "R" \in hs THEN (IF axi.rlast THEN 0 ELSE rbeat + 1)
                  ELSE rbeat
      /\ aw' = IF "AW" \in hs THEN address ELSE IF "B" \in hs THEN NoBurst ELSE aw
      /\ ws' = IF "W" \in hs THEN Append(ws, w)
               ELSE IF "B" \in hs THEN <<>> ELSE ws
      /\ mem' = IF "B" \in hs THEN Stored(mem, aw, ws) ELSE mem
      /\ stall' = IF wanted = {} \/ hs # {} THEN 0
                  ELSE (stall + 1) % (MaxStall + 1)
      /\ up' \in SUBSET ((wanted' \cup {"R", "B"}) \cap open')
      /\ (up \cap {"R", "B"}) \ hs \subseteq up'

SlaveInit ==
  /\ up = {}
  /\ mem \in Memory
  /\ rd = NoBurst
  /\ rbeat = 0
  /\ aw = NoBurst
  /\ ws = <<>>
  /\ stall = 0
=============================================================================
