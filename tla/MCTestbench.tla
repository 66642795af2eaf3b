----------------------------- MODULE MCTestbench -----------------------------
(***************************************************************************)
(* run_testbench: with one worker the tests run one after another in the   *)
(* process (Serial), with more of them in a pool of processes (Testbench). *)
(***************************************************************************)
EXTENDS Testbench, Sequences

CONSTANTS SerialTotal, PluginLists

MCPluginLists == {<<>>, <<"LOG">>, <<"STATUS">>, <<"TRACE", "SKIP">>, <<"TRACE", "LOG">>}

VARIABLES
  n_workers,           \* 1 or N
  plugins, n, at, result, defer_list, left, _ctx, _fst_tfp, line, verdict,
  thread, flag,        \* of Serial
  serialpc             \* its pc

serialVars == <<plugins, n, at, result, defer_list, left, _ctx, _fst_tfp, line,
                verdict, thread, flag, serialpc>>

S == INSTANCE Serial WITH Total <- SerialTotal, pc <- serialpc

\* The half that is not explored stays in one of its initial states.
MCInit ==
  /\ n_workers \in {1, N}
  /\ Init
  /\ S!Init
  /\ n_workers # 1 => plugins = [t \in S!Test |-> <<>>] /\ ~_ctx.status_enabled

SerialBench == n_workers = 1 /\ S!Bench /\ UNCHANGED <<n_workers, vars>>
SerialBody == n_workers = 1 /\ S!LeaveBody /\ UNCHANGED <<n_workers, vars>>
SerialStatus(t) == n_workers = 1 /\ S!Status(t) /\ UNCHANGED <<n_workers, vars>>
Parallel == n_workers # 1 /\ Next /\ UNCHANGED <<n_workers, serialVars>>

MCNext == Parallel \/ SerialBench \/ SerialBody \/ \E t \in S!Test : SerialStatus(t)

MCSpec ==
  /\ MCInit
  /\ [][MCNext]_<<n_workers, vars, serialVars>>
  /\ WF_<<vars, serialVars>>(n_workers # 1 /\ Master /\ UNCHANGED <<n_workers, serialVars>>)
  /\ \A w \in Worker :
       WF_<<vars, serialVars>>(n_workers # 1 /\ Proceed(w) /\ UNCHANGED <<n_workers, serialVars>>)
  /\ WF_<<vars, serialVars>>(SerialBench)
  /\ \A t \in S!Test : WF_<<vars, serialVars>>(SerialStatus(t))

-----------------------------------------------------------------------------
\* No process of the pool stays behind (see Testbench).
NobodyLeft == n_workers # 1 => NobodyStays

\* What the plugins promise, what is printed, and the status workers (see
\* Serial).
Balanced == S!Balanced
Verdicts == S!Verdicts
FlagLives == S!FlagLives
StatusWorkers == S!StatusWorkers
=============================================================================
