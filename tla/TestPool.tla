------------------------------- MODULE TestPool -------------------------------
(***************************************************************************)
(* What the parallel test bench promises whoever starts it: tests are      *)
(* handed out one by one in the order of their list, each to one worker,   *)
(* and the number reported in the end counts only tests that ran through,  *)
(* all of them unless one was lost.                                        *)
(***************************************************************************)
EXTENDS Integers, FiniteSets

CONSTANTS
  N,           \* workers
  Total        \* tests

VARIABLES
  status,      \* of a test: "todo", "out", "ran" or "lost"
  report       \* the number reported, or None

None == -2
Test == 0 .. Total - 1
Are(st) == {t \in Test : status[t] = st}

Init ==
  /\ status = [t \in Test |-> "todo"]
  /\ report = None

HandOut(t) ==
  /\ Cardinality(Are("out")) < N
  /\ status[t] = "todo"
  /\ \A e \in Test : e < t => status[e] # "todo"
  /\ status' = [status EXCEPT ![t] = "out"]
  /\ UNCHANGED report

RunThrough(t) ==
  /\ status[t] = "out"
  /\ status' = [status EXCEPT ![t] = "ran"]
  /\ UNCHANGED report

\* The test fails, or is stopped because another one did.
Lose(t) ==
  /\ status[t] = "out"
  /\ status' = [status EXCEPT ![t] = "lost"]
  /\ UNCHANGED report

Report ==
  /\ report = None
  /\ Are("out") = {}
  /\ report' \in 0 .. Cardinality(Are("ran"))
  /\ Are("lost") = {} => report' = Total
  /\ UNCHANGED status

Next ==
  \/ \E t \in Test : HandOut(t) \/ RunThrough(t) \/ Lose(t)
  \/ Report

Spec == Init /\ [][Next]_<<status, report>>
=============================================================================
