---------------------------- MODULE TestbenchProofs ----------------------------
(***************************************************************************)
(* The parallel test bench, for every number of workers and tests: its     *)
(* hand-shake is sound (PoolSound), and it implements the pool of tests    *)
(* (AsTestPool).  The argument is an inductive invariant, IInv: where the  *)
(* master is, what it has counted, and what each worker may be at.         *)
(***************************************************************************)
EXTENDS MCTestbench, FiniteSetTheorems, TLAPS

-----------------------------------------------------------------------------
Reaping == {"reap", "kill", "wait"}

\* Where the master is: while it forks, the workers are those forked so far;
\* while it waits, the ones before i are gone; and it closes the pipes only
\* on a failure or when everybody has been told to leave.
PhaseInv ==
  /\ pc = "spawn" =>
       /\ i < N
       /\ worker = 0 .. i - 1
       /\ first = Worker
       /\ exited = 0
       /\ \A w \in Worker : w >= i => state[w] = "unborn"
  /\ pc \in Reaping => i < N /\ \A w \in Worker : w < i => ~Alive(w)
  /\ pc = "done" => \A w \in Worker : ~Alive(w)
  /\ failed => pc \in Reaping \cup {"done"} /\ \E w \in worker : state[w] = "aborted"
  /\ pc \in Reaping \cup {"done"} /\ ~failed => worker = {} /\ dispatched = Total

\* What it has counted: a test handed out has been acknowledged or is with a
\* worker that has asked before.
CountInv ==
  /\ passed + Cardinality(worker \ first) = dispatched
  /\ exited + Cardinality(worker) <= N
  /\ pc \notin {"spawn", "dead"} => exited + Cardinality(worker) = N
  /\ exited > 0 => dispatched = Total

\* What a worker may be at.
WorkerInv(w) ==
  /\ req[w] => cmd[w] = None /\ (MasterHolds => state[w] = "wait")
  /\ cmd[w] # None => state[w] \in {"wait", "killed"} /\ test[w] = None
  /\ cmd[w] = Exit => w \notin worker
  /\ pc = "serve" /\ w \in selected => w \in worker /\ Readable(w)
  /\ MasterHolds /\ w \in worker => state[w] \in {"ask", "wait", "run", "aborted"}
  /\ state[w] \in {"unborn", "ask", "wait", "leave", "exited"} => test[w] = None
  /\ state[w] \in {"run", "aborted"} => test[w] \in Test
  /\ Holding(w) # None => Holding(w) < dispatched /\ w \in worker \ first

IInv ==
  /\ TypeOK
  /\ PhaseInv
  /\ CountInv
  /\ \A w \in Worker : WorkerInv(w)
  /\ EachOnce

-----------------------------------------------------------------------------
\* Sets of workers are finite.
LEMMA Finite ==
  ASSUME NEW G, G \subseteq Worker
  PROVE  IsFiniteSet(G) /\ Cardinality(G) \in 0 .. N
  <1>1. N \in Nat /\ N > 0
    BY TestbenchAssumption
  <1>2. IsFiniteSet(Worker) /\ Cardinality(Worker) = N
    BY <1>1, FS_Interval DEF Worker
  <1>3. IsFiniteSet(G) /\ Cardinality(G) <= N
    BY <1>2, FS_Subset
  <1> QED
    BY <1>1, <1>3, FS_CardinalityType

LEMMA InvInit == Init => IInv
  <1> SUFFICES ASSUME Init PROVE IInv
    OBVIOUS
  <1>1. N \in Nat /\ N > 0 /\ Total \in Nat
    BY TestbenchAssumption
  <1>2. TypeOK
    <2>1. Worker \subseteq Int /\ None \in {None, Exit} /\ 0 \in 0 .. N /\ 0 \in 0 .. Total
      BY <1>1 DEF Worker
    <2> QED
      BY <2>1 DEF Init, TypeOK, States
  <1>3. PhaseInv
    BY <1>1 DEF Init, PhaseInv, Reaping, Worker
  <1>4. CountInv
    <2>1. worker \ first = {} /\ worker = {}
      BY DEF Init
    <2> QED
      BY <1>1, <2>1, FS_EmptySet DEF Init, CountInv
  <1>5. \A w \in Worker : WorkerInv(w)
    BY <1>1 DEF Init, WorkerInv, Holding, None, Exit, Test, Worker
  <1>6. EachOnce
    BY <1>1 DEF Init, EachOnce, Holding, None, Test
  <1> QED
    BY <1>2, <1>3, <1>4, <1>5, <1>6 DEF IInv

-----------------------------------------------------------------------------
LEMMA SpawnInv ==
  ASSUME IInv, Spawn
  PROVE  IInv'
  <1>1. N \in Nat /\ N > 0 /\ Total \in Nat /\ i \in 0 .. N - 1 /\ i \in Worker
    BY TestbenchAssumption DEF IInv, TypeOK, PhaseInv, Spawn, Worker
  <1>2. TypeOK'
    BY <1>1 DEF IInv, TypeOK, Spawn, pipeVars, States, Worker
  <1>3. worker' = 0 .. i
    BY <1>1 DEF IInv, PhaseInv, Spawn
  <1>4. PhaseInv'
    BY <1>1, <1>3 DEF IInv, TypeOK, PhaseInv, Spawn, Reaping, Worker
  <1>5. CountInv'
    <2>1. Cardinality(worker') = i + 1
      BY <1>1, <1>3, FS_Interval
    <2>2. worker' \ first' = worker \ first
      BY <1>1 DEF IInv, PhaseInv, Spawn
    <2>3. passed' + Cardinality(worker' \ first') = dispatched'
      BY <2>2 DEF IInv, CountInv, Spawn
    <2>4. exited' = 0 /\ (pc' # "spawn" => i + 1 = N)
      BY <1>1 DEF IInv, PhaseInv, Spawn
    <2> QED
      BY <1>1, <2>1, <2>3, <2>4 DEF CountInv
  <1>6. \A w \in Worker : WorkerInv(w)'
    <2> SUFFICES ASSUME NEW w \in Worker PROVE WorkerInv(w)'
      OBVIOUS
    <2>1. WorkerInv(w) /\ WorkerInv(i)
      BY <1>1 DEF IInv
    <2>2. state[i] = "unborn" /\ MasterHolds
      BY <1>1 DEF IInv, PhaseInv, Spawn, MasterHolds
    <2>3. /\ UNCHANGED <<req, cmd, test, dispatched, first, selected>>
          /\ MasterHolds'
          /\ pc' # "serve"
          /\ state'[w] = IF w = i THEN "ask" ELSE state[w]
          /\ worker' = worker \cup {i}
      BY <1>1 DEF IInv, TypeOK, Spawn, pipeVars, MasterHolds
    <2>4. CASE w = i
      BY <2>1, <2>2, <2>3, <2>4, <1>1 DEF WorkerInv, Holding, None, Exit, Test
    <2>5. CASE w # i
      BY <2>1, <2>2, <2>3, <2>5 DEF WorkerInv, Holding
    <2> QED
      BY <2>4, <2>5
  <1>7. EachOnce'
    BY DEF IInv, EachOnce, Holding, Spawn, pipeVars
  <1> QED
    BY <1>2, <1>4, <1>5, <1>6, <1>7 DEF IInv

LEMMA MasterAbortsInv ==
  ASSUME IInv, MasterAborts
  PROVE  IInv'
  <1>1. TypeOK'
    BY DEF IInv, TypeOK, MasterAborts, pipeVars
  <1>2. PhaseInv'
    BY DEF IInv, TypeOK, PhaseInv, MasterAborts, Reaping
  <1>3. CountInv'
    BY DEF IInv, CountInv, MasterAborts
  <1>4. \A w \in Worker : WorkerInv(w)'
    BY DEF IInv, WorkerInv, MasterAborts, pipeVars, Holding, MasterHolds
  <1>5. EachOnce'
    BY DEF IInv, EachOnce, Holding, MasterAborts, pipeVars
  <1> QED
    BY <1>1, <1>2, <1>3, <1>4, <1>5 DEF IInv

LEMMA SelectInv ==
  ASSUME IInv, Select
  PROVE  IInv'
  <1>1. TypeOK'
    BY DEF IInv, TypeOK, Select, pipeVars
  <1>2. PhaseInv'
    BY DEF IInv, TypeOK, PhaseInv, Select, Reaping
  <1>3. CountInv'
    BY DEF IInv, CountInv, Select
  <1>4. \A w \in Worker : WorkerInv(w)'
    BY DEF IInv, WorkerInv, Select, pipeVars, Holding, MasterHolds, Readable, Alive
  <1>5. EachOnce'
    BY DEF IInv, EachOnce, Holding, Select, pipeVars
  <1> QED
    BY <1>1, <1>2, <1>3, <1>4, <1>5 DEF IInv

\* The heart of the hand-shake.
LEMMA ServeInv ==
  ASSUME IInv, NEW j \in Worker, Serve(j)
  PROVE  /\ IInv'
         /\ state[j] = "wait" /\ cmd[j] = None /\ test[j] = None /\ j \in worker
  <1>1. N \in Nat /\ N > 0 /\ Total \in Nat
    BY TestbenchAssumption
  <1>2. WorkerInv(j)
    BY DEF IInv
  <1>3. state[j] = "wait" /\ cmd[j] = None /\ test[j] = None /\ j \in worker /\ pc = "serve"
    BY <1>2 DEF Serve, WorkerInv, MasterHolds
  <1>4. Alive(j) /\ ~failed /\ pc' \in {"serve", "select", "reap"}
    BY <1>3 DEF Alive, Ended, Serve, CloseAll, IInv, PhaseInv, Reaping
  <1>5. IsFiniteSet(worker) /\ IsFiniteSet(worker \ first)
        /\ Cardinality(worker) \in Nat /\ Cardinality(worker \ first) \in Nat
    BY <1>1, Finite DEF IInv, TypeOK
  <1>6. Cardinality(worker \ {j}) = Cardinality(worker) - 1
    BY <1>3, <1>5, FS_RemoveElement
  <1>7. CountInv'
    <2>0. /\ Cardinality((worker \ first) \ {j}) =
               IF j \in worker \ first THEN Cardinality(worker \ first) - 1
               ELSE Cardinality(worker \ first)
          /\ Cardinality((worker \ first) \cup {j}) =
               IF j \in worker \ first THEN Cardinality(worker \ first)
               ELSE Cardinality(worker \ first) + 1
      BY <1>5, FS_RemoveElement, FS_AddElement
    <2>1. /\ exited \in 0 .. N /\ dispatched \in 0 .. Total /\ passed \in 0 .. Total
          /\ passed + Cardinality(worker \ first) = dispatched
          /\ exited + Cardinality(worker) = N
          /\ exited > 0 => dispatched = Total
      BY <1>3 DEF IInv, TypeOK, CountInv
    <2>2. passed' = IF j \in first THEN passed ELSE passed + 1
      BY DEF Serve, Count
    <2>3. CASE dispatched < Total
      <3>1. worker' = worker /\ exited' = exited /\ dispatched' = dispatched + 1
        BY <2>3 DEF Serve, Command
      <3>2. worker' \ first' = (worker \ first) \cup {j}
        BY <1>3, <3>1 DEF Serve, Count
      <3>3. passed' + Cardinality(worker' \ first') = dispatched'
        <4>1. passed \in Int /\ dispatched \in Int
          BY <1>1, <2>1
        <4> DEFINE C == Cardinality(worker \ first)
                   D == Cardinality(worker' \ first')
        <4>a. D = Cardinality((worker \ first) \cup {j})
          BY <3>2
        <4>b. C \in Nat /\ passed + C = dispatched
          BY <1>5, <2>1
        <4>2. CASE j \in first
          <5>1. D = C + 1
            BY <2>0, <4>a, <4>2
          <5>2. passed' = passed
            BY <2>2, <4>2
          <5> HIDE DEF C, D
          <5>3. passed' + D = dispatched'
            BY <3>1, <4>1, <4>b, <5>1, <5>2
          <5> QED
            BY <5>3 DEF D
        <4>3. CASE j \notin first
          <5>1. D = C
            BY <1>3, <2>0, <4>a, <4>3
          <5>2. passed' = passed + 1
            BY <2>2, <4>3
          <5> HIDE DEF C, D
          <5>3. passed' + D = dispatched'
            BY <3>1, <4>1, <4>b, <5>1, <5>2
          <5> QED
            BY <5>3 DEF D
        <4> QED
          BY <4>2, <4>3
      <3> QED
        BY <1>1, <2>1, <2>3, <3>1, <3>3 DEF CountInv
    <2>4. CASE ~(dispatched < Total)
      <3>1. worker' = worker \ {j} /\ exited' = exited + 1 /\ dispatched' = dispatched
        BY <2>4 DEF Serve, Command
      <3>2. worker' \ first' = (worker \ first) \ {j}
        BY <3>1 DEF Serve, Count
      <3>3. passed' + Cardinality(worker' \ first') = dispatched'
        BY <1>3, <1>5, <2>0, <2>1, <2>2, <3>1, <3>2
      <3>4. exited' + Cardinality(worker') = N
        BY <1>1, <1>5, <1>6, <2>1, <3>1
      <3> QED
        BY <1>1, <2>1, <2>4, <3>1, <3>3, <3>4 DEF CountInv
    <2> QED
      BY <2>3, <2>4
  <1>8. TypeOK'
    <2>1. Cardinality(worker') \in Nat /\ Cardinality(worker' \ first') \in Nat
      BY Finite DEF IInv, TypeOK, Serve, Count, Command
    <2>2. passed' \in 0 .. Total /\ exited' \in 0 .. N
      BY <1>1, <1>7, <2>1 DEF IInv, TypeOK, CountInv, Serve, Count, Command
    <2>3. i' \in 0 .. N
      BY <1>1 DEF IInv, TypeOK, Serve, CloseAll
    <2> QED
      BY <1>1, <1>4, <2>2, <2>3 DEF IInv, TypeOK, Serve, Count, Command, Test
  <1>9. PhaseInv'
    <2>1. pc' = "reap" => exited' = N /\ i' = 0
      BY <1>4 DEF Serve, CloseAll
    <2>2. exited' = N => worker' = {} /\ dispatched' = Total
      <3> SUFFICES ASSUME exited' = N PROVE worker' = {} /\ dispatched' = Total
        OBVIOUS
      <3>1. IsFiniteSet(worker') /\ Cardinality(worker') \in Nat
        BY Finite, <1>8 DEF TypeOK
      <3>2. Cardinality(worker') = 0 /\ dispatched' = Total
        BY <1>1, <1>7, <3>1 DEF CountInv
      <3> QED
        BY <3>1, <3>2, FS_EmptySet
    <2> QED
      BY <1>1, <1>4, <2>1, <2>2 DEF IInv, PhaseInv, Serve, Reaping, Worker
  <1>10. \A w \in Worker : WorkerInv(w)'
    <2> SUFFICES ASSUME NEW w \in Worker PROVE WorkerInv(w)'
      OBVIOUS
    <2>0. WorkerInv(w)
      BY DEF IInv
    <2>1. CASE w # j
      <3>1. /\ req'[w] = req[w] /\ cmd'[w] = cmd[w] /\ state'[w] = state[w]
            /\ test'[w] = test[w]
            /\ w \in selected' <=> w \in selected
            /\ w \in worker' <=> w \in worker
            /\ w \in first' <=> w \in first
        BY <2>1 DEF IInv, TypeOK, Serve, Count, Command
      <3>2. MasterHolds /\ pc = "serve"
        BY <1>3 DEF MasterHolds
      <3>3. dispatched \in Int /\ (dispatched' = dispatched \/ dispatched' = dispatched + 1)
        BY <1>1 DEF IInv, TypeOK, Serve, Command
      <3>4. Holding(w)' = Holding(w) /\ (Holding(w) = None \/ Holding(w) \in Int)
        BY <1>1, <3>1 DEF IInv, TypeOK, Holding, Test
      <3>5. Readable(w)' <=> Readable(w)
        BY <3>1 DEF Readable, Alive
      <3> QED
        BY <2>0, <3>1, <3>2, <3>3, <3>4, <3>5 DEF WorkerInv
    <2>2. CASE w = j
      BY <1>1, <1>2, <1>3, <1>4, <2>2
         DEF IInv, TypeOK, WorkerInv, Serve, Count, Command, Holding, MasterHolds, Test, None, Exit
    <2> QED
      BY <2>1, <2>2
  <1>11. EachOnce'
    <2> SUFFICES ASSUME NEW v \in Worker, NEW w \in Worker, v # w, (Holding(v) # None)'
                 PROVE  (Holding(v) # Holding(w))'
      BY DEF EachOnce
    <2>1. \A u \in Worker : u # j => Holding(u)' = Holding(u) /\ (Holding(u) # None => Holding(u) < dispatched)
      BY DEF IInv, TypeOK, Serve, Command, Holding, WorkerInv
    <2>2. Holding(j) = None /\ (Holding(j)' = None \/ Holding(j)' = dispatched)
      BY <1>1, <1>3 DEF IInv, TypeOK, Serve, Command, Holding, Test, None, Exit
    <2>3. dispatched \in Nat /\ None \notin Nat /\ (Holding(w) = None \/ Holding(w) \in Nat) /\ (Holding(v) = None \/ Holding(v) \in Nat)
      BY <1>1 DEF IInv, TypeOK, Holding, Test, None
    <2>4. Holding(v) # None => Holding(v) # Holding(w)
      BY DEF IInv, EachOnce
    <2> QED
      BY <2>1, <2>2, <2>3, <2>4
  <1> QED
    BY <1>3, <1>7, <1>8, <1>9, <1>10, <1>11 DEF IInv

LEMMA FailsInv ==
  ASSUME IInv, NEW j \in Worker, Fails(j)
  PROVE  IInv'
  <1>1. N \in Nat /\ N > 0
    BY TestbenchAssumption
  <1>2. j \in worker /\ state[j] = "aborted"
    BY DEF IInv, TypeOK, WorkerInv, Fails, Readable, Alive, Ended, MasterHolds
  <1>3. TypeOK'
    BY <1>1 DEF IInv, TypeOK, Fails, CloseAll, pipeVars
  <1>4. PhaseInv'
    BY <1>1, <1>2 DEF IInv, PhaseInv, Fails, CloseAll, Reaping, Worker
  <1>5. CountInv'
    BY DEF IInv, CountInv, Fails, CloseAll
  <1>6. \A w \in Worker : WorkerInv(w)'
    BY DEF IInv, WorkerInv, Fails, CloseAll, pipeVars, Holding, MasterHolds
  <1>7. EachOnce'
    BY DEF IInv, EachOnce, Holding, Fails, pipeVars
  <1> QED
    BY <1>3, <1>4, <1>5, <1>6, <1>7 DEF IInv

LEMMA ProbeInv ==
  ASSUME IInv, Probe
  PROVE  IInv'
  <1>1. TypeOK'
    BY DEF IInv, TypeOK, Probe, pipeVars
  <1>2. PhaseInv'
    BY DEF IInv, PhaseInv, Probe, Reaping, Alive
  <1>3. CountInv'
    BY DEF IInv, CountInv, Probe
  <1>4. \A w \in Worker : WorkerInv(w)'
    BY DEF IInv, WorkerInv, Probe, pipeVars, Holding, MasterHolds
  <1>5. EachOnce'
    BY DEF IInv, EachOnce, Holding, Probe, pipeVars
  <1> QED
    BY <1>1, <1>2, <1>3, <1>4, <1>5 DEF IInv

LEMMA KillInv ==
  ASSUME IInv, Kill
  PROVE  IInv'
  <1>0. i \in Worker /\ N \in Nat
    BY TestbenchAssumption DEF IInv, TypeOK, PhaseInv, Kill, Reaping, Worker
  <1>1. TypeOK'
    BY <1>0 DEF IInv, TypeOK, Kill, pipeVars, States, Ended
  <1>2. PhaseInv'
    BY <1>0 DEF IInv, TypeOK, PhaseInv, Kill, Reaping, Alive, Ended
  <1>3. CountInv'
    BY DEF IInv, CountInv, Kill
  <1>4. \A w \in Worker : WorkerInv(w)'
    BY <1>0 DEF IInv, TypeOK, WorkerInv, Kill, pipeVars, Holding, MasterHolds, Alive, Ended
  <1>5. EachOnce'
    BY DEF IInv, EachOnce, Holding, Kill, pipeVars
  <1> QED
    BY <1>1, <1>2, <1>3, <1>4, <1>5 DEF IInv

LEMMA WaitInv ==
  ASSUME IInv, Wait
  PROVE  IInv' /\ (pc' = "done" => \A w \in Worker : ~Alive(w))
  <1>0. i \in Worker /\ N \in Nat /\ i < N
    BY TestbenchAssumption DEF IInv, TypeOK, PhaseInv, Wait, Reaping, Worker
  <1>1. TypeOK'
    BY <1>0 DEF IInv, TypeOK, Wait, pipeVars, Worker
  <1>2. \A w \in Worker : w < i + 1 => ~Alive(w)
    BY <1>0 DEF IInv, PhaseInv, Wait, Reaping, Worker
  <1>3. pc' = "done" => \A w \in Worker : ~Alive(w)
    BY <1>0, <1>2 DEF Wait, Worker
  <1>4. PhaseInv'
    BY <1>0, <1>2, <1>3 DEF IInv, PhaseInv, Wait, Reaping, Alive, Worker
  <1>5. CountInv'
    BY DEF IInv, CountInv, Wait
  <1>6. \A w \in Worker : WorkerInv(w)'
    BY DEF IInv, WorkerInv, Wait, pipeVars, Holding, MasterHolds
  <1>7. EachOnce'
    BY DEF IInv, EachOnce, Holding, Wait, pipeVars
  <1> QED
    BY <1>1, <1>3, <1>4, <1>5, <1>6, <1>7 DEF IInv

-----------------------------------------------------------------------------
\* A step of worker w changes nothing of the others, and the master notices.
LEMMA WorkerStep ==
  ASSUME IInv, NEW w \in Worker, UNCHANGED masterVars, TypeOK',
         state[w] \notin Ended \cup {"unborn"},
         \A v \in Worker : v # w => /\ state'[v] = state[v] /\ req'[v] = req[v]
                                    /\ cmd'[v] = cmd[v] /\ test'[v] = test[v],
         WorkerInv(w)',
         Holding(w)' = Holding(w) \/ Holding(w)' = None
  PROVE  IInv'
  <1>1. PhaseInv'
    <2>1. \A v \in Worker : ~Alive(v) => v # w /\ state'[v] = state[v] /\ ~Alive(v)'
      BY DEF Alive
    <2>2. \A v \in Worker : state[v] \in {"unborn", "aborted"} => state'[v] = state[v]
      BY DEF Ended
    <2>3. worker \subseteq Worker
      BY DEF IInv, TypeOK
    <2> QED
      BY <2>1, <2>2, <2>3 DEF IInv, PhaseInv, masterVars
  <1>2. CountInv'
    BY DEF IInv, CountInv, masterVars
  <1>3. \A v \in Worker : WorkerInv(v)'
    <2> SUFFICES ASSUME NEW v \in Worker, v # w PROVE WorkerInv(v)'
      OBVIOUS
    <2>1. WorkerInv(v)
      BY DEF IInv
    <2>2. Holding(v)' = Holding(v) /\ (Readable(v)' <=> Readable(v)) /\ (MasterHolds' <=> MasterHolds)
      BY DEF Holding, Readable, Alive, MasterHolds, masterVars
    <2> QED
      BY <2>1, <2>2 DEF WorkerInv, masterVars
  <1>4. EachOnce'
    <2>1. \A v \in Worker : v # w => Holding(v)' = Holding(v)
      BY DEF Holding
    <2> QED
      BY <2>1 DEF IInv, EachOnce
  <1> QED
    BY <1>1, <1>2, <1>3, <1>4 DEF IInv

LEMMA AskInv ==
  ASSUME IInv, NEW w \in Worker, Ask(w)
  PROVE  IInv' /\ Holding(w) = None /\ Holding(w)' = None
  <1>1. WorkerInv(w)
    BY DEF IInv
  <1>2. cmd[w] = None /\ test[w] = None
    BY <1>1 DEF WorkerInv, Ask
  <1>3. Holding(w) = None /\ Holding(w)' = None
    BY <1>2 DEF Holding, Ask, masterVars
  <1>4. TypeOK'
    BY DEF IInv, TypeOK, Ask, masterVars, States, Ended
  <1>5. MasterHolds /\ w \in worker => ReqReadable(w)
    BY DEF MasterHolds, ReqReadable
  <1>6. WorkerInv(w)'
    <2>1. CASE ReqReadable(w)
      BY <1>1, <1>2, <1>3, <2>1 DEF WorkerInv, Ask, IInv, TypeOK, masterVars, MasterHolds, Readable, None, Exit
    <2>2. CASE ~ReqReadable(w)
      <3>1. ~(MasterHolds /\ w \in worker)
        BY <1>5, <2>2
      <3>2. state'[w] = "killed" /\ req'[w] = req[w]
        BY <2>2 DEF Ask, IInv, TypeOK
      <3>3. ~(req[w] /\ MasterHolds)
        BY <1>1 DEF WorkerInv, Ask
      <3> QED
        BY <1>1, <1>2, <1>3, <3>1, <3>2, <3>3 DEF WorkerInv, Ask, masterVars, MasterHolds, Readable, Alive, Ended, None, Exit
    <2> QED
      BY <2>1, <2>2
  <1>7. \A v \in Worker : v # w => /\ state'[v] = state[v] /\ req'[v] = req[v]
                                   /\ cmd'[v] = cmd[v] /\ test'[v] = test[v]
    BY DEF Ask, IInv, TypeOK
  <1>8. UNCHANGED masterVars /\ state[w] \notin Ended \cup {"unborn"}
    BY DEF Ask, Ended
  <1> QED
    BY <1>3, <1>4, <1>6, <1>7, <1>8, WorkerStep

LEMMA ReceiveInv ==
  ASSUME IInv, NEW w \in Worker, Receive(w)
  PROVE  IInv' /\ Holding(w)' = Holding(w)
  <1>0. Total \in Nat
    BY TestbenchAssumption
  <1>1. WorkerInv(w)
    BY DEF IInv
  <1>2. test[w] = None
    BY <1>1 DEF WorkerInv, Receive
  <1>3. /\ cmd'[w] = None
        /\ req'[w] = req[w]
        /\ state'[w] = IF cmd[w] \in Test THEN "run" ELSE "leave"
        /\ test'[w] = IF cmd[w] \in Test THEN cmd[w] ELSE None
    BY <1>2 DEF Receive, IInv, TypeOK
  <1>4. None \notin Test /\ Exit \notin Test /\ None # Exit
    BY DEF None, Exit, Test
  <1>5. Holding(w)' = Holding(w)
    BY <1>2, <1>3, <1>4 DEF Holding
  <1>6. TypeOK'
    BY <1>0 DEF IInv, TypeOK, Receive, masterVars, States, Ended
  <1>7. WorkerInv(w)'
    <2>1. MasterHolds' <=> MasterHolds
      BY DEF Receive, masterVars, MasterHolds
    <2>2. ~(req[w] /\ MasterHolds) \/ cmd[w] = None
      BY <1>1 DEF WorkerInv
    <2>3. cmd[w] \notin Test => cmd[w] = Exit \/ ~MasterHolds
      BY DEF Receive, CmdWritable
    <2>4. ~(MasterHolds /\ w \in worker /\ cmd[w] \notin Test)
      BY <1>1, <2>3 DEF WorkerInv
    <2>5. req[w] => cmd[w] = None
      BY <1>1 DEF WorkerInv
    <2>6. req[w] => ~MasterHolds
      BY <1>4, <2>3, <2>5
    <2>7. Readable(w) <=> req[w]
      BY DEF Readable, Alive, Ended, Receive
    <2>8. Readable(w)' <=> req[w]
      BY <1>3 DEF Readable, Alive, Ended
    <2>9. UNCHANGED masterVars
      BY DEF Receive
    <2> QED
      BY <1>1, <1>3, <1>4, <1>5, <2>1, <2>4, <2>6, <2>7, <2>8, <2>9 DEF WorkerInv, masterVars
  <1>8. \A v \in Worker : v # w => /\ state'[v] = state[v] /\ req'[v] = req[v]
                                   /\ cmd'[v] = cmd[v] /\ test'[v] = test[v]
    BY DEF Receive, IInv, TypeOK
  <1>9. UNCHANGED masterVars /\ state[w] \notin Ended \cup {"unborn"}
    BY DEF Receive, Ended
  <1> QED
    BY <1>5, <1>6, <1>7, <1>8, <1>9, WorkerStep

\* The ends of a test: what the worker holds is in test[w].
LEMMA RunHolds ==
  ASSUME IInv, NEW w \in Worker, state[w] = "run"
  PROVE  /\ cmd[w] = None /\ ~(req[w] /\ MasterHolds) /\ test[w] \in Test
         /\ Holding(w) = test[w] /\ Holding(w) # None
         /\ None \notin Test /\ Exit \notin Test /\ None # Exit
  <1>1. WorkerInv(w)
    BY DEF IInv
  <1>2. None \notin Test /\ Exit \notin Test /\ None # Exit
    BY DEF None, Exit, Test
  <1> QED
    BY <1>1, <1>2 DEF WorkerInv, Holding

LEMMA PassInv ==
  ASSUME IInv, NEW w \in Worker, Pass(w)
  PROVE  IInv' /\ Holding(w)' = None
  <1>1. WorkerInv(w) /\ state[w] = "run"
    BY DEF IInv, Pass
  <1>2. /\ state'[w] = "ask" /\ test'[w] = None /\ req'[w] = req[w] /\ cmd'[w] = cmd[w]
        /\ UNCHANGED masterVars
    BY DEF Pass, IInv, TypeOK, pipeVars
  <1>3. Holding(w)' = None
    BY <1>1, <1>2, RunHolds DEF Holding
  <1>4. TypeOK'
    BY DEF IInv, TypeOK, Pass, masterVars, pipeVars, States, Ended
  <1>5. WorkerInv(w)'
    <2>1. Readable(w)' <=> Readable(w)
      BY <1>1, <1>2 DEF Readable, Alive, Ended
    <2>2. MasterHolds' <=> MasterHolds
      BY <1>2 DEF masterVars, MasterHolds
    <2> QED
      BY <1>1, <1>2, <1>3, <2>1, <2>2, RunHolds DEF WorkerInv, masterVars
  <1>6. \A v \in Worker : v # w => /\ state'[v] = state[v] /\ req'[v] = req[v]
                                   /\ cmd'[v] = cmd[v] /\ test'[v] = test[v]
    BY DEF Pass, IInv, TypeOK, pipeVars
  <1>7. state[w] \notin Ended \cup {"unborn"}
    BY <1>1 DEF Ended
  <1> QED
    BY <1>2, <1>3, <1>4, <1>5, <1>6, <1>7, WorkerStep

LEMMA AbortInv ==
  ASSUME IInv, NEW w \in Worker, Abort(w)
  PROVE  IInv' /\ Holding(w)' = Holding(w)
  <1>1. WorkerInv(w) /\ state[w] = "run"
    BY DEF IInv, Abort
  <1>2. /\ state'[w] = "aborted" /\ test'[w] = test[w] /\ req'[w] = req[w] /\ cmd'[w] = cmd[w]
        /\ UNCHANGED masterVars
    BY DEF Abort, IInv, TypeOK, pipeVars
  <1>3. Holding(w)' = Holding(w)
    BY <1>2 DEF Holding
  <1>4. TypeOK'
    BY DEF IInv, TypeOK, Abort, masterVars, pipeVars, States, Ended
  <1>5. WorkerInv(w)'
    <2>1. Readable(w)'
      BY <1>2 DEF Readable, Alive, Ended
    <2>2. MasterHolds' <=> MasterHolds
      BY <1>2 DEF masterVars, MasterHolds
    <2> QED
      BY <1>1, <1>2, <1>3, <2>1, <2>2, RunHolds DEF WorkerInv, masterVars
  <1>6. \A v \in Worker : v # w => /\ state'[v] = state[v] /\ req'[v] = req[v]
                                   /\ cmd'[v] = cmd[v] /\ test'[v] = test[v]
    BY DEF Abort, IInv, TypeOK, pipeVars
  <1>7. state[w] \notin Ended \cup {"unborn"}
    BY <1>1 DEF Ended
  <1> QED
    BY <1>2, <1>3, <1>4, <1>5, <1>6, <1>7, WorkerStep

LEMMA LeaveInv ==
  ASSUME IInv, NEW w \in Worker, Leave(w)
  PROVE  IInv' /\ Holding(w) = None /\ Holding(w)' = None
  <1>1. WorkerInv(w) /\ state[w] = "leave"
    BY DEF IInv, Leave
  <1>2. /\ state'[w] = "exited" /\ test'[w] = test[w] /\ req'[w] = req[w] /\ cmd'[w] = cmd[w]
        /\ UNCHANGED masterVars
    BY DEF Leave, IInv, TypeOK, pipeVars
  <1>3. test[w] = None /\ cmd[w] = None
    BY <1>1 DEF WorkerInv
  <1>4. Holding(w) = None /\ Holding(w)' = None
    BY <1>2, <1>3 DEF Holding
  <1>5. TypeOK'
    BY DEF IInv, TypeOK, Leave, masterVars, pipeVars, States, Ended
  <1>6. WorkerInv(w)'
    <2>1. Readable(w)'
      BY <1>2 DEF Readable, Alive, Ended
    <2>2. MasterHolds' <=> MasterHolds
      BY <1>2 DEF masterVars, MasterHolds
    <2>3. None # Exit
      BY DEF None, Exit
    <2> QED
      BY <1>1, <1>2, <1>3, <1>4, <2>1, <2>2, <2>3 DEF WorkerInv, masterVars
  <1>7. \A v \in Worker : v # w => /\ state'[v] = state[v] /\ req'[v] = req[v]
                                   /\ cmd'[v] = cmd[v] /\ test'[v] = test[v]
    BY DEF Leave, IInv, TypeOK, pipeVars
  <1>8. state[w] \notin Ended \cup {"unborn"}
    BY <1>1 DEF Ended
  <1> QED
    BY <1>2, <1>4, <1>5, <1>6, <1>7, <1>8, WorkerStep

LEMMA StutterInv ==
  ASSUME IInv, UNCHANGED vars
  PROVE  IInv'
  <1>1. PhaseInv'
    BY DEF IInv, PhaseInv, vars, masterVars, Alive
  <1>2. CountInv'
    BY DEF IInv, CountInv, vars, masterVars
  <1>3. \A w \in Worker : WorkerInv(w)'
    BY DEF IInv, WorkerInv, vars, masterVars, pipeVars, Holding, Readable, Alive, MasterHolds
  <1>4. TypeOK' /\ EachOnce'
    BY DEF IInv, TypeOK, EachOnce, Holding, vars, masterVars, pipeVars
  <1> QED
    BY <1>1, <1>2, <1>3, <1>4 DEF IInv

LEMMA InvNext ==
  ASSUME IInv, [Next]_vars
  PROVE  IInv'
  <1>1. CASE Master
    <2>1. CASE \E j \in Worker : Serve(j) \/ Fails(j)
      BY <2>1, ServeInv, FailsInv
    <2> QED
      BY <1>1, <2>1, SpawnInv, SelectInv, ProbeInv, KillInv, WaitInv DEF Master
  <1>2. CASE \E w \in Worker : Proceed(w) \/ Pass(w) \/ Abort(w)
    BY <1>2, AskInv, ReceiveInv, PassInv, AbortInv, LeaveInv DEF Proceed
  <1>3. CASE MasterAborts
    BY <1>3, MasterAbortsInv
  <1>4. CASE UNCHANGED vars
    BY <1>4, StutterInv
  <1> QED
    BY <1>1, <1>2, <1>3, <1>4 DEF Next

\* The inductive invariant, for every number of workers and tests.
THEOREM Invariance ==
  Spec => []IInv
  BY InvInit, InvNext, PTL DEF Spec

\* Every command goes to a worker that waits for one, so that SIGPIPE never
\* ends the master; a failure is reported only if a worker has aborted; and no
\* test is with two workers.
THEOREM Sound ==
  Spec => []PoolSound
  <1>1. IInv => PoolSound
    <2> SUFFICES ASSUME IInv PROVE HandShake
      BY DEF PoolSound, IInv
    <2>1. \A w \in Worker : WorkerInv(w)
      BY DEF IInv
    <2>2. failed => \E w \in worker : state[w] \in {"aborted", "killed"}
      BY DEF IInv, PhaseInv
    <2> QED
      BY <2>1, <2>2 DEF HandShake, WorkerInv
  <1> QED
    BY <1>1, Invariance, PTL

-----------------------------------------------------------------------------
(***************************************************************************)
(* Refinement: serving a request hands a test out, the end of a test runs  *)
(* it through or loses it, and the last wait reports.                      *)
(***************************************************************************)
status == [t \in Test |-> Status(t)]
report == IF pc = "done" THEN passed ELSE None

\* TestPool counts as this module does.
LEMMA SameCount == \A G : Pool!Cardinality(G) = Cardinality(G)
  BY DEF Pool!Cardinality, Cardinality, Pool!IsFiniteSet, IsFiniteSet

\* Nothing happens to the pool while nobody takes, drops or dies with a test.
LEMMA SameStatus ==
  ASSUME dispatched' = dispatched,
         \A w \in Worker : /\ Holding(w)' = Holding(w)
                           /\ Holding(w) # None => (Alive(w)' <=> Alive(w))
  PROVE  status' = status
  <1>1. None \notin Test
    BY DEF None, Test
  <1>2. \A t \in Test : Status(t)' = Status(t)
    BY <1>1 DEF Status
  <1> QED
    BY <1>2 DEF status

\* A worker that drops its test, or dies with it, settles that test alone.
LEMMA Settled ==
  ASSUME IInv, NEW w \in Worker, NEW t \in Test, Holding(w) = t,
         dispatched' = dispatched,
         \A v \in Worker : v # w => Holding(v)' = Holding(v) /\ state'[v] = state[v],
         NEW st,
         \/ Holding(w)' = None /\ st = "ran"
         \/ Holding(w)' = t /\ ~Alive(w)' /\ st = "lost"
  PROVE  status' = [status EXCEPT ![t] = st]
  <1>1. None \notin Test /\ t < dispatched
    BY DEF None, Test, IInv, WorkerInv
  <1>2. \A v \in Worker : v # w => Holding(v) # t /\ Holding(v)' # t
    BY <1>1 DEF IInv, EachOnce
  <1>3. Status(t)' = st
    BY <1>1, <1>2 DEF Status, IInv, TypeOK, Test
  <1>4. \A u \in Test : u # t => Status(u)' = Status(u)
    <2>1. \A v \in Worker : v # w => (Alive(v)' <=> Alive(v))
      BY DEF Alive
    <2>2. \A u \in Test : u # t => Holding(w) # u /\ Holding(w)' # u
      BY <1>1
    <2> QED
      BY <2>1, <2>2 DEF Status
  <1> QED
    BY <1>3, <1>4 DEF status

\* A living worker's test is out.
LEMMA OutStatus ==
  ASSUME IInv, NEW w \in Worker, NEW t \in Test, Holding(w) = t, Alive(w)
  PROVE  Status(t) = "out"
  <1>1. t < dispatched
    BY DEF IInv, WorkerInv, None, Test
  <1> QED
    BY <1>1 DEF Status, IInv, TypeOK, Test

\* Who holds a test: workers and tests are matched one to one.
HolderOf(t) == CHOOSE w \in Worker : Holding(w) = t

LEMMA HeldBound ==
  ASSUME IInv, NEW G, NEW T, T \subseteq Worker, G \subseteq Test,
         \A t \in G : \E w \in Worker : Holding(w) = t,
         \A w \in Worker : Holding(w) \in G => w \in T
  PROVE  /\ IsFiniteSet(G) /\ IsFiniteSet(T)
         /\ Cardinality(G) \in Nat /\ Cardinality(T) \in Nat
         /\ Cardinality(G) <= Cardinality(T)
  <1> DEFINE f == [t \in G |-> HolderOf(t)]
  <1>1. \A t \in G : HolderOf(t) \in Worker /\ Holding(HolderOf(t)) = t
    BY DEF HolderOf
  <1>2. f \in [G -> T]
    BY <1>1
  <1>3. \A x, y \in G : f[x] = f[y] => x = y
    BY <1>1
  <1>4. f \in Injection(G, T)
    BY <1>2, <1>3 DEF Injection, IsInjective
  <1>5. IsFiniteSet(T)
    BY Finite
  <1>6. IsFiniteSet(G) /\ Cardinality(G) <= Cardinality(T)
    BY <1>4, <1>5, FS_Injection
  <1> QED
    BY <1>5, <1>6, FS_CardinalityType

\* A test is handed out only while a worker has none.
LEMMA ServeStep ==
  ASSUME IInv, NEW j \in Worker, Serve(j)
  PROVE  (\E t \in Test : Pool!HandOut(t)) \/ UNCHANGED <<status, report>>
  <1>1. N \in Nat /\ N > 0 /\ Total \in Nat /\ dispatched \in 0 .. Total
    BY TestbenchAssumption DEF IInv, TypeOK
  <1>2. state[j] = "wait" /\ cmd[j] = None /\ test[j] = None /\ IInv'
    BY ServeInv
  <1>3. None \notin Test /\ Exit \notin Test /\ Holding(j) = None
    BY <1>2 DEF None, Exit, Test, Holding
  <1>4. \A v \in Worker : /\ v # j => Holding(v)' = Holding(v)
                          /\ Alive(v)' <=> Alive(v)
    BY DEF Serve, Command, Holding, IInv, TypeOK, Alive
  <1>5. report' = report /\ report = None
    BY DEF Serve, CloseAll, report
  <1>6. CASE ~(dispatched < Total)
    <2>1. Holding(j)' = None /\ dispatched' = dispatched
      BY <1>2, <1>3, <1>6 DEF Serve, Command, Holding, IInv, TypeOK
    <2> QED
      BY <1>3, <1>4, <1>5, <2>1, SameStatus
  <1>7. CASE dispatched < Total
    <2>0. dispatched \in Test
      BY <1>1, <1>7 DEF Test
    <2>1. PICK d \in Test : d = dispatched
      BY <2>0
    <2>2. Holding(j)' = d /\ dispatched' = d + 1 /\ Alive(j)
      BY <1>2, <1>7, <2>0, <2>1 DEF Serve, Command, Holding, IInv, TypeOK, Alive, Ended
    <2>3. \A v \in Worker : Holding(v) # None => Holding(v) \in Test /\ Holding(v) < d
      BY <2>1 DEF IInv, TypeOK, WorkerInv, Holding
    <2>4. Status(d) = "todo" /\ \A e \in Test : e < d => Status(e) # "todo"
      BY <1>1, <2>1 DEF Status, Test
    <2>5. Status(d)' = "out"
      <3>1. ~(d >= dispatched')
        BY <1>1, <2>1, <2>2
      <3>2. Holding(j)' = d /\ Alive(j)'
        BY <1>4, <2>1, <2>2
      <3> QED
        BY <3>1, <3>2 DEF Status
    <2>6. \A t \in Test : t # d => Status(t)' = Status(t)
      <3> SUFFICES ASSUME NEW t \in Test, t # d PROVE Status(t)' = Status(t)
        OBVIOUS
      <3>1. t >= dispatched' <=> t >= dispatched
        BY <1>1, <2>1, <2>2 DEF Test
      <3>2. \A v \in Worker : (Holding(v)' = t <=> Holding(v) = t)
        BY <1>3, <1>4, <2>1, <2>2
      <3> QED
        BY <1>4, <3>1, <3>2 DEF Status
    <2>7. status' = [status EXCEPT ![d] = "out"]
      BY <2>1, <2>5, <2>6 DEF status
    <2>8. Cardinality({t \in Test : status[t] = "out"}) < N
      <3> DEFINE G == {t \in Test : status[t] = "out"}
                 T == Worker \ {j}
      <3>1. \A t \in G : \E w \in Worker : Holding(w) = t
        BY DEF status, Status
      <3>2. \A w \in Worker : Holding(w) \in G => w \in T
        BY <1>3
      <3>3. T \subseteq Worker /\ G \subseteq Test
        OBVIOUS
      <3> HIDE DEF G, T
      <3>4. Cardinality(G) \in Nat /\ Cardinality(G) <= Cardinality(T)
        BY <3>1, <3>2, <3>3, HeldBound
      <3>5. IsFiniteSet(Worker) /\ Cardinality(Worker) = N
        BY <1>1, FS_Interval DEF Worker
      <3>6. Cardinality(T) = N - 1
        BY <3>5, FS_RemoveElement DEF T
      <3> QED
        BY <1>1, <3>4, <3>6 DEF G
    <2>9. \A t \in Test : status[t] = Status(t)
      BY DEF status
    <2>10. Pool!Test = Test /\ Pool!Are("out") = {t \in Test : status[t] = "out"}
      BY DEF Pool!Are, Pool!Test, Test, status
    <2>11. Cardinality(Pool!Are("out")) < N
      BY <2>8, <2>10
    <2>12. status[d] = "todo" /\ \A e \in Test : e < d => status[e] # "todo"
      BY <2>4, <2>9
    <2>13. Pool!HandOut(d)
      BY <1>5, <2>7, <2>10, <2>11, <2>12, SameCount DEF Pool!HandOut, status, report
    <2> QED
      BY <2>13
  <1> QED
    BY <1>6, <1>7

\* A test ends well, badly, or with the worker that was killed.
LEMMA PassStep ==
  ASSUME IInv, NEW w \in Worker, Pass(w)
  PROVE  \E t \in Test : Pool!RunThrough(t)
  <1>1. Holding(w) \in Test /\ Alive(w) /\ Holding(w)' = None
    BY RunHolds, PassInv DEF Pass, Alive, Ended
  <1>2. PICK t \in Test : Holding(w) = t
    BY <1>1
  <1>3. /\ dispatched' = dispatched /\ report' = report
        /\ \A v \in Worker : v # w => Holding(v)' = Holding(v) /\ state'[v] = state[v]
    BY DEF Pass, masterVars, pipeVars, IInv, TypeOK, Holding, report
  <1>4. status' = [status EXCEPT ![t] = "ran"]
    BY <1>1, <1>2, <1>3, Settled
  <1>5. status[t] = "out"
    BY <1>1, <1>2, OutStatus DEF status
  <1> QED
    BY <1>3, <1>4, <1>5 DEF Pool!RunThrough, status, report

LEMMA AbortStep ==
  ASSUME IInv, NEW w \in Worker, Abort(w)
  PROVE  \E t \in Test : Pool!Lose(t)
  <1>1. Holding(w) \in Test /\ Alive(w) /\ Holding(w)' = Holding(w) /\ ~Alive(w)'
    BY RunHolds, AbortInv DEF Abort, Alive, Ended, IInv, TypeOK
  <1>2. PICK t \in Test : Holding(w) = t
    BY <1>1
  <1>3. /\ dispatched' = dispatched /\ report' = report
        /\ \A v \in Worker : v # w => Holding(v)' = Holding(v) /\ state'[v] = state[v]
    BY DEF Abort, masterVars, pipeVars, IInv, TypeOK, Holding, report
  <1>4. status' = [status EXCEPT ![t] = "lost"]
    BY <1>1, <1>2, <1>3, Settled
  <1>5. status[t] = "out"
    BY <1>1, <1>2, OutStatus DEF status
  <1> QED
    BY <1>3, <1>4, <1>5 DEF Pool!Lose, status, report

LEMMA KillStep ==
  ASSUME IInv, Kill
  PROVE  (\E t \in Test : Pool!Lose(t)) \/ UNCHANGED <<status, report>>
  <1>0. i \in Worker /\ dispatched' = dispatched /\ report' = report
    BY TestbenchAssumption DEF IInv, TypeOK, PhaseInv, Kill, Reaping, Worker, report
  <1>1. PICK k \in Worker : k = i
    BY <1>0
  <1>2. /\ \A v \in Worker : Holding(v)' = Holding(v)
        /\ \A v \in Worker : v # k => state'[v] = state[v]
        /\ ~Alive(k)'
    BY <1>1 DEF Kill, pipeVars, Holding, IInv, TypeOK, Alive, Ended
  <1>3. CASE Alive(k) /\ Holding(k) # None
    <2>1. PICK t \in Test : Holding(k) = t
      BY <1>3 DEF Holding, IInv, TypeOK
    <2>2. status' = [status EXCEPT ![t] = "lost"]
      BY <1>0, <1>2, <2>1, Settled
    <2>3. status[t] = "out"
      BY <1>3, <2>1, OutStatus DEF status
    <2> QED
      BY <1>0, <2>2, <2>3 DEF Pool!Lose, status, report
  <1>4. CASE ~(Alive(k) /\ Holding(k) # None)
    <2>1. \A w \in Worker : Holding(w) # None => (Alive(w)' <=> Alive(w))
      BY <1>2, <1>4 DEF Alive
    <2> QED
      BY <1>0, <1>2, <2>1, SameStatus
  <1> QED
    BY <1>3, <1>4

\* The last wait: with everybody gone, what was counted is what ran.
LEMMA ReportStep ==
  ASSUME IInv, Wait, pc' = "done"
  PROVE  Pool!Report
  <1>1. /\ \A w \in Worker : ~Alive(w)
        /\ report = None /\ report' = passed
        /\ pc = "wait"
    BY WaitInv DEF Wait, report
  <1>2. status' = status
    BY SameStatus DEF Wait, pipeVars, Holding, Alive
  <1>3. \A t \in Test : status[t] # "out"
    BY <1>1 DEF status, Status
  <1>4. N \in Nat /\ Total \in Nat /\ dispatched \in 0 .. Total /\ passed \in 0 .. Total
    BY TestbenchAssumption DEF IInv, TypeOK
  <1> DEFINE G == 0 .. dispatched - 1
             H == {t \in G : \E w \in Worker : Holding(w) = t}
             R == {t \in Test : status[t] = "ran"}
  <1>5. R = G \ H
    BY <1>1, <1>4 DEF status, Status, Test
  <1>6. G \subseteq Test
    BY <1>4 DEF Test
  <1>7. H = G \cap H /\ H \subseteq Test
    BY <1>6
  <1>8. /\ Cardinality(H) \in Nat /\ Cardinality(worker \ first) \in Nat
        /\ Cardinality(H) <= Cardinality(worker \ first)
    <2>1. \A w \in Worker : Holding(w) \in H => w \in worker \ first
      BY <1>6 DEF IInv, WorkerInv, None, Test
    <2>2. worker \ first \subseteq Worker
      BY DEF IInv, TypeOK
    <2>3. \A t \in H : \E w \in Worker : Holding(w) = t
      OBVIOUS
    <2> HIDE DEF H, G
    <2> QED
      BY <1>7, <2>1, <2>2, <2>3, HeldBound
  <1>9. IsFiniteSet(G) /\ Cardinality(G) = dispatched
    BY <1>4, FS_Interval
  <1>10. Cardinality(R) = dispatched - Cardinality(H)
    <2> HIDE DEF H, G, R
    <2> QED
      BY <1>5, <1>7, <1>9, FS_Difference
  <1>11. passed + Cardinality(worker \ first) = dispatched
    BY DEF IInv, CountInv
  <1>12. passed \in 0 .. Cardinality(R)
    <2> HIDE DEF H, G, R
    <2> QED
      BY <1>4, <1>8, <1>10, <1>11
  <1>13. {t \in Test : status[t] = "lost"} = {} => passed = Total
    <2> SUFFICES ASSUME \A t \in Test : status[t] # "lost" PROVE passed = Total
      OBVIOUS
    <2>1. ~failed
      <3> SUFFICES ASSUME failed PROVE FALSE
        OBVIOUS
      <3>1. PICK w \in worker : state[w] = "aborted"
        BY DEF IInv, PhaseInv
      <3>2. w \in Worker /\ WorkerInv(w)
        BY <3>1 DEF IInv, TypeOK
      <3>3. cmd[w] = None /\ test[w] \in Test /\ None \notin Test
        BY <3>1, <3>2 DEF WorkerInv, None, Test
      <3>4. Holding(w) = test[w] /\ test[w] < dispatched
        BY <3>2, <3>3 DEF WorkerInv, Holding
      <3>5. Status(test[w]) = "lost"
        BY <1>1, <1>4, <3>2, <3>3, <3>4 DEF Status, Test
      <3> QED
        BY <3>3, <3>5 DEF status
    <2>2. worker = {} /\ dispatched = Total
      BY <1>1, <2>1 DEF IInv, PhaseInv, Reaping
    <2>3. Cardinality(worker \ first) = 0
      BY <2>2, FS_EmptySet
    <2> QED
      BY <1>4, <1>11, <2>2, <2>3
  <1>14. Pool!Test = Test /\ Pool!None = None
    BY DEF Pool!Test, Pool!None, Test, None
  <1>15. Pool!Are("out") = {} /\ Pool!Are("ran") = R
         /\ (Pool!Are("lost") = {} => passed = Total)
    BY <1>3, <1>13, <1>14 DEF Pool!Are, status
  <1> HIDE DEF R
  <1> QED
    <2>1. report' \in 0 .. Cardinality(Pool!Are("ran"))
      BY <1>1, <1>12, <1>15
    <2>2. Pool!Are("lost") = {} => report' = Total
      BY <1>1, <1>15
    <2> QED
      BY <1>1, <1>2, <1>14, <1>15, <2>1, <2>2, SameCount DEF Pool!Report, status, report

\* All other steps leave the pool alone.
LEMMA QuietStep ==
  ASSUME IInv,
         \/ Spawn \/ MasterAborts \/ Select \/ Probe \/ (Wait /\ pc' # "done")
         \/ \E w \in Worker : Fails(w) \/ Ask(w) \/ Receive(w) \/ Leave(w)
         \/ UNCHANGED vars
  PROVE  UNCHANGED <<status, report>>
  <1>1. CASE Spawn
    <2>1. i \in Worker /\ state[i] = "unborn" /\ WorkerInv(i)
      BY <1>1, TestbenchAssumption DEF IInv, TypeOK, PhaseInv, Spawn, Worker
    <2>2. Holding(i) = None
      BY <2>1 DEF WorkerInv, Holding
    <2>3. \A w \in Worker : Holding(w)' = Holding(w) /\ (w # i => state'[w] = state[w])
      BY <1>1, <2>1 DEF Spawn, pipeVars, Holding, IInv, TypeOK
    <2>4. \A w \in Worker : Holding(w) # None => (Alive(w)' <=> Alive(w))
      BY <2>2, <2>3 DEF Alive
    <2>5. dispatched' = dispatched /\ report' = report
      BY <1>1 DEF Spawn, report
    <2> QED
      BY <2>3, <2>4, <2>5, SameStatus
  <1>2. CASE MasterAborts \/ Select \/ Probe \/ (Wait /\ pc' # "done") \/ \E w \in Worker : Fails(w)
    <2>1. /\ dispatched' = dispatched /\ report' = report
          /\ \A w \in Worker : Holding(w)' = Holding(w) /\ (Alive(w)' <=> Alive(w))
      BY <1>2 DEF MasterAborts, Select, Probe, Wait, Fails, CloseAll, pipeVars, Holding, Alive, report
    <2> QED
      BY <2>1, SameStatus
  <1>3. ASSUME NEW w \in Worker, Ask(w) \/ Receive(w) \/ Leave(w)
        PROVE  UNCHANGED <<status, report>>
    <2>1. /\ dispatched' = dispatched /\ report' = report
          /\ \A v \in Worker : v # w => Holding(v)' = Holding(v) /\ state'[v] = state[v]
      BY <1>3 DEF Ask, Receive, Leave, masterVars, pipeVars, Holding, IInv, TypeOK, report
    <2>2. Holding(w)' = Holding(w)
      BY <1>3, AskInv, ReceiveInv, LeaveInv
    <2>3. Holding(w) # None => (Alive(w)' <=> Alive(w))
      <3>1. CASE Receive(w)
        BY <3>1 DEF Receive, IInv, TypeOK, Alive, Ended
      <3> QED
        BY <1>3, <3>1, AskInv, LeaveInv
    <2>4. \A v \in Worker : v # w => (Alive(v)' <=> Alive(v))
      BY <2>1 DEF Alive
    <2> QED
      BY <2>1, <2>2, <2>3, <2>4, SameStatus
  <1>4. CASE UNCHANGED vars
    <2>1. /\ dispatched' = dispatched /\ report' = report
          /\ \A w \in Worker : Holding(w)' = Holding(w) /\ (Alive(w)' <=> Alive(w))
      BY <1>4 DEF vars, masterVars, pipeVars, Holding, Alive, report
    <2> QED
      BY <2>1, SameStatus
  <1> QED
    BY <1>1, <1>2, <1>3, <1>4

LEMMA PoolInit == Init => Pool!Init
  <1> SUFFICES ASSUME Init PROVE Pool!Init
    OBVIOUS
  <1>1. \A t \in Test : Status(t) = "todo"
    BY TestbenchAssumption DEF Init, Status, Test
  <1> QED
    BY <1>1 DEF Init, Pool!Init, Pool!Test, Pool!None, Test, None

LEMMA PoolStep ==
  ASSUME IInv, [Next]_vars
  PROVE  Pool!Next \/ UNCHANGED <<status, report>>
  <1>0. Pool!Test = Test
    BY DEF Pool!Test, Test
  <1>1. ASSUME NEW j \in Worker, Serve(j)
        PROVE  Pool!Next \/ UNCHANGED <<status, report>>
    BY <1>0, <1>1, ServeStep DEF Pool!Next
  <1>2. ASSUME NEW w \in Worker, Pass(w) \/ Abort(w)
        PROVE  Pool!Next
    BY <1>0, <1>2, PassStep, AbortStep DEF Pool!Next
  <1>3. CASE Kill
    BY <1>0, <1>3, KillStep DEF Pool!Next
  <1>4. CASE Wait /\ pc' = "done"
    BY <1>4, ReportStep DEF Pool!Next
  <1>5. CASE \/ Spawn \/ MasterAborts \/ Select \/ Probe \/ (Wait /\ pc' # "done")
             \/ \E w \in Worker : Fails(w) \/ Ask(w) \/ Receive(w) \/ Leave(w)
             \/ UNCHANGED vars
    BY <1>5, QuietStep
  <1> QED
    BY <1>1, <1>2, <1>3, <1>4, <1>5 DEF Next, Master, Proceed

\* Pipes, ends of files and kills amount to a pool that hands out every test
\* once, in order, to at most N workers at a time, and reports the truth.
THEOREM Implements ==
  Spec => AsTestPool
  <1>1. IInv /\ [Next]_vars => [Pool!Next]_<<status, report>>
    BY PoolStep
  <1> QED
    BY <1>1, PoolInit, Invariance, PTL DEF Spec, AsTestPool, Pool!Spec, status, report

-----------------------------------------------------------------------------
(***************************************************************************)
(* The bench as run_testbench starts it: with one worker its steps are     *)
(* those of Serial, about which SerialProofs speaks, and with more of them *)
(* Serial stands still.                                                    *)
(***************************************************************************)
P == INSTANCE SerialProofs WITH Total <- SerialTotal, pc <- serialpc

LEMMA SerialInit == MCInit => P!Init
  BY DEF MCInit, S!Init, P!Init, S!Test, P!Test, S!None, P!None

LEMMA SerialBenchStep ==
  ASSUME S!Bench \/ S!LeaveBody
  PROVE  P!Bench \/ P!LeaveBody
  <1> USE DEF S!screenVars, P!screenVars, S!workerVars, P!workerVars
  <1>1. S!RunTest => P!RunTest
    BY DEF S!RunTest, P!RunTest, S!StartWorker, P!StartWorker
  <1>2. S!Plugin => P!Plugin
    BY DEF S!Plugin, P!Plugin, S!Switch, P!Switch
  <1>3. S!EnterBody => P!EnterBody
    BY DEF S!EnterBody, P!EnterBody
  <1>4. S!LeaveBody => P!LeaveBody
    BY DEF S!LeaveBody, P!LeaveBody
  <1>5. S!RunDefer => P!RunDefer
    BY DEF S!RunDefer, P!RunDefer, S!Switch, P!Switch, S!Undo, P!Undo
  <1>6. S!Unwound => P!Unwound
    BY DEF S!Unwound, P!Unwound
  <1>7. S!Verdict => P!Verdict
    BY DEF S!Verdict, P!Verdict, S!None, P!None
  <1>8. S!Stop => P!Stop
    BY DEF S!Stop, P!Stop
  <1>9. S!Die => P!Die
    BY DEF S!Die, P!Die
  <1> QED
    BY <1>1, <1>2, <1>3, <1>4, <1>5, <1>6, <1>7, <1>8, <1>9 DEF S!Bench, P!Bench

LEMMA SerialStatusStep ==
  ASSUME NEW t \in S!Test, S!Status(t)
  PROVE  t \in P!Test /\ P!Status(t)
  <1> USE DEF S!screenVars, P!screenVars, S!testVars, P!testVars, S!Lives, P!Lives
  <1>1. S!Check(t) => P!Check(t)
    BY DEF S!Check, P!Check
  <1>2. S!Fn(t) => P!Fn(t)
    BY DEF S!Fn, P!Fn
  <1>3. S!Delete(t) => P!Delete(t)
    BY DEF S!Delete, P!Delete
  <1> QED
    BY <1>1, <1>2, <1>3 DEF S!Status, P!Status, S!Test, P!Test

LEMMA SerialStep ==
  ASSUME [MCNext]_<<n_workers, vars, serialVars>>
  PROVE  [P!Next]_(P!vars)
  <1>1. CASE Parallel \/ UNCHANGED <<n_workers, vars, serialVars>>
    <2>1. UNCHANGED serialVars
      BY <1>1 DEF Parallel
    <2> QED
      BY <2>1 DEF serialVars, P!vars, P!testVars, P!screenVars, P!workerVars
  <1>2. CASE SerialBench \/ SerialBody
    BY <1>2, SerialBenchStep DEF SerialBench, SerialBody, P!Next
  <1>3. CASE \E t \in S!Test : SerialStatus(t)
    BY <1>3, SerialStatusStep DEF SerialStatus, P!Next
  <1> QED
    BY <1>1, <1>2, <1>3 DEF MCNext

LEMMA BenchIsSerial == MCSpec => P!Spec
  BY SerialInit, SerialStep, PTL DEF MCSpec, P!Spec

\* Whichever way a test ends, the defer list is empty when the next test
\* begins and the trace is open only while its defer is due, an abort's too;
\* logging and the status line stay on as long as LOG's and STATUS's are due (ITestbench::run, DeferListProxy, abort_testbench).
THEOREM BenchUndone ==
  ASSUME P!Declared
  PROVE  MCSpec => []Balanced
  <1>1. P!Balanced => Balanced
    BY DEF Balanced, S!Balanced, P!Balanced
  <1>2. P!Spec => []P!Balanced
    BY P!Undone
  <1> QED
    BY <1>1, <1>2, BenchIsSerial, PTL

\* What is printed of each test is its outcome, unless the test itself or one
\* before it used the LOG plugin, which leaves logging off (run_serial).
THEOREM BenchPrinted ==
  ASSUME P!Declared
  PROVE  MCSpec => []Verdicts
  <1>1. P!Verdicts => Verdicts
    BY DEF Verdicts, S!Verdicts, P!Verdicts, S!UsedLog, P!UsedLog, S!Test, P!Test
  <1>2. P!Spec => []P!Verdicts
    BY P!Printed
  <1> QED
    BY <1>1, <1>2, BenchIsSerial, PTL

\* A flag is freed only after its owner has raised it, so that the owner never
\* writes into freed memory (ThreadWorker).
THEOREM BenchFlagsLive ==
  ASSUME P!Declared
  PROVE  MCSpec => []FlagLives
  <1>1. P!FlagLives => FlagLives
    BY DEF FlagLives, S!FlagLives, P!FlagLives, S!Test, P!Test
  <1>2. P!Spec => []P!FlagLives
    BY P!FlagsLive
  <1> QED
    BY <1>1, <1>2, BenchIsSerial, PTL

\* With more workers than one its steps are those of the pool, and with one
\* worker the pool stands still.
LEMMA BenchIsPool == MCSpec => Spec
  <1>1. MCInit => Init
    BY DEF MCInit
  <1>2. [MCNext]_<<n_workers, vars, serialVars>> => [Next]_vars
    BY DEF MCNext, Parallel, SerialBench, SerialBody, SerialStatus
  <1> QED
    BY <1>1, <1>2, PTL DEF MCSpec, Spec

\* The bench as it is started hands out every test once and reports the truth,
\* and its pipes stay in step (run_testbench).
THEOREM BenchPooled == MCSpec => []PoolSound /\ AsTestPool
  BY BenchIsPool, Sound, Implements, PTL
=============================================================================
