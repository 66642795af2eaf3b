------------------------------ MODULE Testbench ------------------------------
(***************************************************************************)
(* run_parallel and run_worker of verilate/vsrc/testbench.cpp: a master    *)
(* forks workers and hands them test numbers through pipes.  A worker asks *)
(* with one byte, gets a number or -1, and dies when a test fails, which   *)
(* the master sees as the end of the worker's pipe.                        *)
(*                                                                         *)
(* A worker forked later inherits the master's ends of the pipes of all    *)
(* earlier ones: its being alive keeps their command pipes from ending and *)
(* their request pipes writable.                                           *)
(***************************************************************************)
EXTENDS Integers, FiniteSets

CONSTANTS
  N,           \* n_workers
  Total        \* test_list.size()

ASSUME TestbenchAssumption == N \in Nat \ {0} /\ Total \in Nat

VARIABLES
  pc,          \* what the master does
  i,           \* its loop counter: spawning and waiting
  selected,    \* workers left in the fd_set
  worker,      \* workers whose request pipe the master has open
  first,       \* workers that have not asked yet
  dispatched, exited, passed, failed,
  state,       \* of a worker: "unborn", "ask", "wait", "run", "leave", or how it ended
  req,         \* a byte stands in the request pipe of a worker
  cmd,         \* the number in the command pipe of a worker, or None
  test         \* the number of the test a worker is in, or None

masterVars == <<pc, i, selected, worker, first, dispatched, exited, passed, failed>>
pipeVars == <<req, cmd>>
vars == <<masterVars, pipeVars, state, test>>

None == -2
Exit == -1
Test == 0 .. Total - 1
Worker == 0 .. N - 1

-----------------------------------------------------------------------------
Ended == {"exited", "aborted", "killed"}
Alive(w) == state[w] \notin Ended \cup {"unborn"}
Later(w) == \E v \in w + 1 .. N - 1 : Alive(v)

\* Some process holds an end of a pipe of w: the writing end of the command
\* pipe, and the reading end of the request pipe.
MasterHolds == pc \in {"spawn", "select", "serve"}
CmdWritable(w) == Later(w) \/ MasterHolds
ReqReadable(w) == Later(w) \/ (pc \notin {"dead", "done"} /\ w \in worker)

\* read would not block on w's request pipe: a byte, or the end of file.
Readable(w) == req[w] \/ ~Alive(w)

-----------------------------------------------------------------------------
Init ==
  /\ pc = "spawn"
  /\ i = 0
  /\ selected = {}
  /\ worker = {}
  /\ first = Worker
  /\ dispatched = 0
  /\ exited = 0
  /\ passed = 0
  /\ failed = FALSE
  /\ state = [w \in Worker |-> "unborn"]
  /\ req = [w \in Worker |-> FALSE]
  /\ cmd = [w \in Worker |-> None]
  /\ test = [w \in Worker |-> None]

\* fork, with both pipes.
Spawn ==
  /\ pc = "spawn"
  /\ state' = [state EXCEPT ![i] = "ask"]
  /\ worker' = worker \cup {i}
  /\ i' = i + 1
  /\ pc' = IF i + 1 = N THEN "select" ELSE "spawn"
  /\ UNCHANGED <<selected, first, dispatched, exited, passed, failed, pipeVars, test>>

\* pipe, fork or an interrupted select returns an error: the master aborts.
MasterAborts ==
  /\ pc \in {"spawn", "select"}
  /\ pc' = "dead"
  /\ UNCHANGED <<i, selected, worker, first, dispatched, exited, passed, failed,
                 pipeVars, state, test>>

Select ==
  /\ pc = "select"
  /\ \E w \in worker : Readable(w)
  /\ selected' = {w \in worker : Readable(w)}
  /\ pc' = "serve"
  /\ UNCHANGED <<i, worker, first, dispatched, exited, passed, failed,
                 pipeVars, state, test>>

\* close all the master's ends of command pipes, and start to wait.
CloseAll == pc' = "reap" /\ i' = 0

\* Mutant: a worker's first request counts as a passed test.
Count_First(j) == first' = first \ {j} /\ passed' = passed + 1

\* A request acknowledges the test before.
Count(j) ==
  /\ first' = first \ {j}
  /\ passed' = IF j \in first THEN passed ELSE passed + 1

\* Mutant: the pipe of a worker that is told to leave stays in the set.
Command_Listens(j) ==
  IF dispatched < Total
    THEN /\ cmd' = [cmd EXCEPT ![j] = dispatched]
         /\ dispatched' = dispatched + 1
         /\ UNCHANGED <<worker, exited>>
    ELSE /\ cmd' = [cmd EXCEPT ![j] = Exit]
         /\ exited' = exited + 1
         /\ UNCHANGED <<dispatched, worker>>

\* A new task, or -1 when there is none.
Command(j) ==
  IF dispatched < Total
    THEN /\ cmd' = [cmd EXCEPT ![j] = dispatched]
         /\ dispatched' = dispatched + 1
         /\ UNCHANGED <<worker, exited>>
    ELSE /\ cmd' = [cmd EXCEPT ![j] = Exit]
         /\ worker' = worker \ {j}
         /\ exited' = exited + 1
         /\ UNCHANGED dispatched

\* The next worker of the set: its byte is read and answered.  With nobody
\* left to read the command, SIGPIPE would end the master.
Serve(j) ==
  /\ pc = "serve"
  /\ j \in selected
  /\ \A k \in selected : j <= k
  /\ req[j]
  /\ req' = [req EXCEPT ![j] = FALSE]
  /\ Count(j)
  /\ Command(j)
  /\ selected' = selected \ {j}
  /\ IF ~Alive(j) THEN pc' = "dead" /\ i' = i
     ELSE IF selected' # {} THEN pc' = "serve" /\ i' = i
     ELSE IF exited' = N THEN CloseAll
     ELSE pc' = "select" /\ i' = i
  /\ UNCHANGED <<failed, state, test>>

\* Mutant: the end of file is passed over.
Fails_Ignored(j) ==
  /\ pc = "serve"
  /\ j \in selected
  /\ \A k \in selected : j <= k
  /\ ~req[j]
  /\ selected' = selected \ {j}
  /\ pc' = IF selected' = {} THEN "select" ELSE "serve"
  /\ UNCHANGED <<i, worker, first, dispatched, exited, passed, failed, pipeVars, state, test>>

\* End of file: the child failed, and nobody is served any more.
Fails(j) ==
  /\ pc = "serve"
  /\ j \in selected
  /\ \A k \in selected : j <= k
  /\ ~req[j]
  /\ failed' = TRUE
  /\ selected' = {}
  /\ CloseAll
  /\ UNCHANGED <<worker, first, dispatched, exited, passed, pipeVars, state, test>>

\* Mutant: a worker that is alive is only waited for.
Probe_Spares ==
  /\ pc = "reap"
  /\ pc' = "wait"
  /\ UNCHANGED <<i, selected, worker, first, dispatched, exited, passed, failed,
                 pipeVars, state, test>>

\* waitpid with WNOHANG after a failure: is the worker alive?
Probe ==
  /\ pc = "reap"
  /\ pc' = IF failed /\ Alive(i) THEN "kill" ELSE "wait"
  /\ UNCHANGED <<i, selected, worker, first, dispatched, exited, passed, failed,
                 pipeVars, state, test>>

Kill ==
  /\ pc = "kill"
  /\ pc' = "wait"
  /\ state' = IF Alive(i) THEN [state EXCEPT ![i] = "killed"] ELSE state
  /\ UNCHANGED <<i, selected, worker, first, dispatched, exited, passed, failed,
                 pipeVars, test>>

\* waitpid returns; after the last worker run_testbench reports.
Wait ==
  /\ pc = "wait"
  /\ ~Alive(i)
  /\ i' = i + 1
  /\ pc' = IF i + 1 = N THEN "done" ELSE "reap"
  /\ UNCHANGED <<selected, worker, first, dispatched, exited, passed, failed,
                 pipeVars, state, test>>

-----------------------------------------------------------------------------
\* Worker w writes its byte; with no reader left SIGPIPE ends it.
Ask(w) ==
  /\ state[w] = "ask"
  /\ IF ReqReadable(w)
       THEN state' = [state EXCEPT ![w] = "wait"] /\ req' = [req EXCEPT ![w] = TRUE]
       ELSE state' = [state EXCEPT ![w] = "killed"] /\ UNCHANGED req
  /\ UNCHANGED <<masterVars, cmd, test>>

\* It reads its answer, a test, -1 or the end of file.
Receive(w) ==
  /\ state[w] = "wait"
  /\ IF cmd[w] \in Test
       THEN /\ state' = [state EXCEPT ![w] = "run"]
            /\ test' = [test EXCEPT ![w] = cmd[w]]
       ELSE /\ cmd[w] = Exit \/ ~CmdWritable(w)
            /\ state' = [state EXCEPT ![w] = "leave"]
            /\ UNCHANGED test
  /\ cmd' = [cmd EXCEPT ![w] = None]
  /\ UNCHANGED <<masterVars, req>>

\* run_test returns.
Pass(w) ==
  /\ state[w] = "run"
  /\ state' = [state EXCEPT ![w] = "ask"]
  /\ test' = [test EXCEPT ![w] = None]
  /\ UNCHANGED <<masterVars, pipeVars>>

\* An assertion of the test fails.
Abort(w) ==
  /\ state[w] = "run"
  /\ state' = [state EXCEPT ![w] = "aborted"]
  /\ UNCHANGED <<masterVars, pipeVars, test>>

\* Global defers, and exit.
Leave(w) ==
  /\ state[w] = "leave"
  /\ state' = [state EXCEPT ![w] = "exited"]
  /\ UNCHANGED <<masterVars, pipeVars, test>>

-----------------------------------------------------------------------------
Master ==
  \/ Spawn
  \/ Select
  \/ \E j \in Worker : Serve(j) \/ Fails(j)
  \/ Probe
  \/ Kill
  \/ Wait

\* What the processes do by themselves, that is, all but the tests.
Proceed(w) == Ask(w) \/ Receive(w) \/ Leave(w)

Next ==
  \/ Master
  \/ MasterAborts
  \/ \E w \in Worker : Proceed(w) \/ Pass(w) \/ Abort(w)

Spec == Init /\ [][Next]_vars

\* The operating system schedules every process that is not blocked; a test
\* need not end.
FairSpec ==
  /\ Spec
  /\ WF_vars(Master)
  /\ \A w \in Worker : WF_vars(Proceed(w))

-----------------------------------------------------------------------------
States == {"unborn", "ask", "wait", "run", "leave"} \cup Ended

TypeOK ==
  /\ pc \in {"spawn", "select", "serve", "reap", "kill", "wait", "done", "dead"}
  /\ i \in 0 .. N
  /\ selected \subseteq Worker
  /\ worker \subseteq Worker
  /\ first \subseteq Worker
  /\ dispatched \in 0 .. Total
  /\ exited \in 0 .. N
  /\ passed \in 0 .. Total
  /\ failed \in BOOLEAN
  /\ state \in [Worker -> States]
  /\ req \in [Worker -> BOOLEAN]
  /\ cmd \in [Worker -> Test \cup {None, Exit}]
  /\ test \in [Worker -> Test \cup {None}]

\* A command goes to a worker that waits for one: no command overtakes
\* another or is written into a pipe nobody reads, so SIGPIPE never ends the
\* master, and no failure is reported of a worker that was told to leave.
HandShake ==
  /\ \A w \in Worker :
       /\ req[w] /\ MasterHolds => state[w] = "wait"
       /\ req[w] => cmd[w] = None
       /\ cmd[w] # None => state[w] \in {"wait", "killed"}
       /\ pc = "serve" /\ w \in selected => w \in worker /\ Readable(w)
  /\ failed => \E w \in worker : state[w] \in {"aborted", "killed"}

\* No test is given to two workers.
Holding(w) == IF cmd[w] \in Test THEN cmd[w] ELSE test[w]
EachOnce ==
  \A v, w \in Worker : v # w /\ Holding(v) # None => Holding(v) # Holding(w)

\* What holds of the pool at any time: types, and the two above.
PoolSound == TypeOK /\ HandShake /\ EachOnce

-----------------------------------------------------------------------------
Status(t) ==
  IF t >= dispatched THEN "todo"
  ELSE IF \E w \in Worker : Alive(w) /\ Holding(w) = t THEN "out"
  ELSE IF \E w \in Worker : Holding(w) = t THEN "lost"
  ELSE "ran"

Pool == INSTANCE TestPool WITH
          status <- [t \in Test |-> Status(t)],
          report <- IF pc = "done" THEN passed ELSE None

\* The pipes, the end of files and the kills amount to a pool that hands out
\* every test once and reports the truth (see TestPool).
AsTestPool == Pool!Spec

\* A failed test ends the whole bench, even if other tests never end.
FailureEnds ==
  (\E w \in Worker : state[w] = "aborted") ~>
    pc = "dead" \/ (pc = "done" /\ \A w \in Worker : ~Alive(w))

TestsEnd == \A w \in Worker : []<>(state[w] # "run")

\* If every test ends, the bench does, and no process is left behind: not even
\* when the master dies in the middle, through the pipe ends that workers
\* inherited from it.
NobodyStays ==
  TestsEnd => <>[](pc \in {"done", "dead"} /\ \A w \in Worker : ~Alive(w))
=============================================================================
