------------------------------- MODULE MCSoc -------------------------------
(***************************************************************************)
(* Two cells of memory at 0 and, as the boot window, at 2; Confreg from 8 *)
(* on.  Four kinds of software: bursts across the memory and its alias; a  *)
(* user of the UART, a user of the virtual UART, and one of NUM, the timer *)
(* and the other registers.                                                *)
(***************************************************************************)
EXTENDS Soc

MCMerge(old, new, s) == IF s = 1 THEN new ELSE old

MCRegisterAt ==
  [a \in Addr |->
     CASE a = 8 -> "UART" [] a = 9 -> "LSR" [] a = 10 -> "VIRTUAL_UART"
       [] a = 11 -> "NUM" [] a = 12 -> "TIMER" [] a = 13 -> "NUM_MONITOR"
       [] OTHER -> "none"]

MCImages == {[c \in 0 .. 1 |-> 0]}

Uses(starts, len, burst) == {<<a, len, burst>> : a \in starts}

MCPrograms ==
  {[uses |-> Uses({1}, 0, "FIXED") \cup Uses({1}, 3, "WRAP"), pty |-> FALSE],
   [uses |-> Uses({8, 9}, 0, "FIXED"), pty |-> TRUE],
   [uses |-> Uses({8, 10}, 0, "FIXED"), pty |-> FALSE],
   [uses |-> Uses({11, 12, 13}, 0, "FIXED"), pty |-> FALSE]}
=============================================================================
