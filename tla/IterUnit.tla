------------------------------ MODULE IterUnit ------------------------------
(***************************************************************************)
(* The handshake that mul.sv and div.sv share.  The unit loads its         *)
(* accumulator in the first cycle after valid, steps it Rounds times, and  *)
(* raises done for one cycle.  It falls back to idle whenever valid drops. *)
(* In the cycle of done it is idle again, and valid is still up: it starts *)
(* a new run, which the loss of valid in the next cycle aborts.            *)
(***************************************************************************)
EXTENDS Naturals

CONSTANT Rounds            \* 64: done is raised at count 0x41

ASSUME RoundsAssumption == Rounds \in 0 .. 125

UnitInit(p) == [state |-> 0, count |-> 0, done |-> FALSE, p |-> p]

UnitState(P) == [state : 0 .. 1, count : 0 .. Rounds + 2, done : BOOLEAN, p : P]

\* Mutants: a run is not given up when valid drops; done is not raised.
UnitNext_Stubborn(u, valid, loaded, stepped) ==
  IF u.state = 0 THEN
    [state |-> IF valid THEN 1 ELSE 0, count |-> 0, done |-> FALSE, p |-> u.p]
  ELSE IF u.count = 0 THEN [u EXCEPT !.count = 1, !.p = loaded]
  ELSE IF u.count = Rounds + 1 THEN
    [state |-> 0, count |-> u.count + 1, done |-> TRUE, p |-> u.p]
  ELSE [u EXCEPT !.count = @ + 1, !.p = stepped]

UnitNext_Silent(u, valid, loaded, stepped) ==
  IF u.state = 0 \/ ~valid \/ u.count > Rounds THEN
    [state |-> IF valid /\ u.state = 0 THEN 1 ELSE 0, count |-> 0,
     done |-> FALSE, p |-> u.p]
  ELSE [u EXCEPT !.count = @ + 1, !.p = IF u.count = 0 THEN loaded ELSE stepped]

\* One clock edge of unit u; loaded and stepped are what its accumulator
\* would become by a load and by one more step.
UnitNext(u, valid, loaded, stepped) ==
  IF u.state = 0 THEN
    [state |-> IF valid THEN 1 ELSE 0, count |-> 0, done |-> FALSE, p |-> u.p]
  ELSE IF ~valid THEN
    [state |-> 0, count |-> 0, done |-> u.done, p |-> u.p]
  ELSE IF u.count = 0 THEN
    [state |-> 1, count |-> 1, done |-> u.done, p |-> loaded]
  ELSE IF u.count = Rounds + 1 THEN
    [state |-> 0, count |-> u.count + 1, done |-> TRUE, p |-> u.p]
  ELSE
    [state |-> 1, count |-> u.count + 1, done |-> u.done, p |-> stepped]
=============================================================================
