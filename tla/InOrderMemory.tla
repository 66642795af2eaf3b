---------------------------- MODULE InOrderMemory ----------------------------
(***************************************************************************)
(* What the bus drivers promise a test: a row of bytes in which loads,     *)
(* stores and expectations of all sizes take effect in the order in which  *)
(* they are called, and a failed expectation ends the test.                *)
(***************************************************************************)
EXTENDS Bytes

CONSTANT Dest    \* variables of the test that loads go to

VARIABLES
  bytes,       \* the bytes of one word of memory
  dest,        \* the variables
  failed

vars == <<bytes, dest, failed>>

\* Bytes addr .. addr + n - 1, lowest first, in front of what was in old.
Part(addr, w, old) ==
  [l \in Lane |-> IF l < Width(w) THEN bytes[addr + l] ELSE old[l]]
With(addr, w, v) ==
  [l \in Lane |-> IF l - addr \in 0 .. Width(w) - 1 THEN v[l - addr] ELSE bytes[l]]

Init ==
  /\ bytes \in Words
  /\ dest \in [Dest -> Words]
  /\ failed = FALSE

Load(addr, w, d) ==
  /\ dest' = [dest EXCEPT ![d] = Part(addr, w, @)]
  /\ UNCHANGED <<bytes, failed>>

Store(addr, w, v) ==
  /\ bytes' = With(addr, w, v)
  /\ UNCHANGED <<dest, failed>>

Expect(addr, w, v) ==
  /\ \A l \in 0 .. Width(w) - 1 : bytes[addr + l] = v[l]
  /\ UNCHANGED vars

ExpectWrong(addr, w, v) ==
  /\ \E l \in 0 .. Width(w) - 1 : bytes[addr + l] # v[l]
  /\ failed' = TRUE
  /\ UNCHANGED <<bytes, dest>>

\* A load without a pipeline: the variable gets the bytes and zeros above them.
LoadWord(addr, w, d) ==
  /\ dest' = [dest EXCEPT ![d] = Part(addr, w, [l \in Lane |-> 0])]
  /\ UNCHANGED <<bytes, failed>>

\* Two cells of one width exchange their values at once.
Swap(x, y, w) ==
  /\ bytes' = [l \in Lane |-> IF l - x \in 0 .. Width(w) - 1 THEN bytes[y + (l - x)]
                              ELSE IF l - y \in 0 .. Width(w) - 1 THEN bytes[x + (l - y)]
                              ELSE bytes[l]]
  /\ UNCHANGED <<dest, failed>>

Next ==
  /\ ~failed
  /\ \E p \in Places :
       \/ \E d \in Dest : Load(p[1], p[2], d) \/ LoadWord(p[1], p[2], d)
       \/ \E v \in Words :
            Store(p[1], p[2], v) \/ Expect(p[1], p[2], v) \/ ExpectWrong(p[1], p[2], v)
       \/ \E q \in Places : q[2] = p[2] /\ Swap(p[1], q[1], p[2])

Spec == Init /\ [][Next]_vars
=============================================================================
