----------------------------- MODULE MCCacheBus -----------------------------
(***************************************************************************)
(* One-bit words in cells of two addresses.  RAM is addresses 4 to 7; its  *)
(* end and the end of the range (12) are crossed by some bursts, and the   *)
(* addresses below RAM fall on cell 0.                                     *)
(***************************************************************************)
EXTENDS CacheBus

MCMerge(old, new, s) == IF s = 1 THEN new ELSE old
=============================================================================
