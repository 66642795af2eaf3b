------------------------------ MODULE MCAXIBus ------------------------------
(***************************************************************************)
(* One-bit words with a one-bit strobe, one address each in a memory of    *)
(* four cells; single beats, and bursts of four that wrap in it.           *)
(***************************************************************************)
EXTENDS AXIBus

MCMerge(old, new, s) == IF s = 1 THEN new ELSE old
=============================================================================
