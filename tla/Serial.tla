-------------------------------- MODULE Serial --------------------------------
(***************************************************************************)
(* run_serial of verilate/vsrc/testbench.cpp: one test after another in    *)
(* the process itself, with the plugins of testbench.h, which switch       *)
(* something on and leave its switching off on the defer list, with the    *)
(* status line that a ThreadWorker prints meanwhile, and with the handler  *)
(* abort_testbench that a failed assertion ends in.                        *)
(***************************************************************************)
EXTENDS Integers, Sequences

CONSTANTS
  Total,       \* test_list.size()
  PluginLists  \* the sequences of plugins that tests are declared WITH

VARIABLES
  plugins,     \* of each test
  n,           \* the test that runs
  pc,          \* "test", "plugins", "body", "unwind", "verdict", "stop", "done", "handler", "aborted"
  at,          \* plugins that have run
  result,      \* of the test that runs: "Finished" or "Skipped"
  defer_list,
  left,        \* defers that the current run_defers has not run
  _ctx,        \* log_enabled, status_enabled
  _fst_tfp,    \* whether a trace file is open
  line,        \* the test of the status line on the screen, or None
  verdict,     \* what was printed of each test
  thread,      \* of the status worker of each test: "none", "check", "fn", "sleep", "delete", "gone"
  flag         \* its flag: "null", "false", "true" or "freed"

testVars == <<plugins, n, pc, at, result, defer_list, left>>
screenVars == <<_ctx, line, verdict>>
workerVars == <<thread, flag>>
vars == <<testVars, screenVars, _fst_tfp, workerVars>>

None == -1
Test == 0 .. Total - 1
Plugins == {"LOG", "STATUS", "TRACE", "SKIP"}

-----------------------------------------------------------------------------
\* The runner enables logging, and the status line if it was asked to.
Init ==
  /\ plugins \in [Test -> PluginLists]
  /\ n = 0
  /\ pc = "test"
  /\ at = 0
  /\ result = "Finished"
  /\ defer_list = <<>>
  /\ left = 0
  /\ _ctx \in [log_enabled : {TRUE}, status_enabled : BOOLEAN]
  /\ _fst_tfp = FALSE
  /\ line = None
  /\ verdict = [t \in Test |-> "none"]
  /\ thread = [t \in Test |-> "none"]
  /\ flag = [t \in Test |-> "null"]

\* Mutant: the temporary worker keeps the flag it was moved from, and its
\* destructor stops the thread.
StartWorker_Copied == flag' = [flag EXCEPT ![n] = "true"] /\ thread' = [thread EXCEPT ![n] = "check"]

\* at_interval makes a thread with a flag on the heap, and operator= moves it.
StartWorker == flag' = [flag EXCEPT ![n] = "false"] /\ thread' = [thread EXCEPT ![n] = "check"]

\* run_test and ITestbench::run up to the body: the defer list must be empty.
RunTest ==
  /\ pc = "test"
  /\ n < Total
  /\ StartWorker
  /\ at' = 0
  /\ result' = "Finished"
  /\ IF defer_list = <<>>
       THEN pc' = "plugins" /\ defer_list' = <<"POST">> /\ UNCHANGED left
       ELSE pc' = "handler" /\ left' = Len(defer_list) /\ UNCHANGED defer_list
  /\ UNCHANGED <<plugins, n, _fst_tfp, screenVars>>

\* The switch of a plugin.
Switch(p, on) ==
  /\ _ctx' = [log_enabled |-> IF p = "LOG" THEN on ELSE _ctx.log_enabled,
              status_enabled |-> IF p = "STATUS" THEN on ELSE _ctx.status_enabled]
  /\ _fst_tfp' = IF p = "TRACE" THEN on ELSE _fst_tfp

\* A plugin switches something on and defers switching it off; SKIP returns.
\* start_fst_trace asserts that no trace is open.
Plugin ==
  /\ pc = "plugins"
  /\ at < Len(plugins[n])
  /\ at' = at + 1
  /\ LET p == plugins[n][at + 1]
     IN  IF p = "SKIP" THEN
           /\ result' = "Skipped"
           /\ pc' = "unwind"
           /\ left' = Len(defer_list)
           /\ UNCHANGED <<defer_list, _ctx, _fst_tfp>>
         ELSE IF p = "TRACE" /\ _fst_tfp THEN
           /\ pc' = "handler"
           /\ left' = Len(defer_list)
           /\ UNCHANGED <<defer_list, result, _ctx, _fst_tfp>>
         ELSE
           /\ Switch(p, TRUE)
           /\ defer_list' = Append(defer_list, p)
           /\ UNCHANGED <<pc, left, result>>
  /\ UNCHANGED <<plugins, n, line, verdict, workerVars>>

EnterBody ==
  /\ pc = "plugins"
  /\ at = Len(plugins[n])
  /\ pc' = "body"
  /\ UNCHANGED <<plugins, n, at, result, defer_list, left, screenVars, _fst_tfp, workerVars>>

\* The body is over, or one of its assertions fails.
LeaveBody ==
  /\ pc = "body"
  /\ pc' \in {"unwind", "handler"}
  /\ left' = Len(defer_list)
  /\ UNCHANGED <<plugins, n, at, result, defer_list, screenVars, _fst_tfp, workerVars>>

\* Mutant: the defers run in the order in which they were deferred.
Undo_Forward == Len(defer_list) - left + 1

\* run_defers goes through the list from its end.
Undo == left

\* One defer, in DeferListProxy's destructor or in abort_testbench.
RunDefer ==
  /\ pc \in {"unwind", "handler"}
  /\ left > 0
  /\ Switch(defer_list[Undo], FALSE)
  /\ left' = left - 1
  /\ UNCHANGED <<plugins, n, pc, at, result, defer_list, line, verdict, workerVars>>

\* The list is cleared, and the test is over.
Unwound ==
  /\ pc = "unwind"
  /\ left = 0
  /\ defer_list' = <<>>
  /\ pc' = "verdict"
  /\ UNCHANGED <<plugins, n, at, result, left, screenVars, _fst_tfp, workerVars>>

\* Mutant: the verdict does not look at the switch.
Verdict_Always ==
  /\ pc = "verdict"
  /\ pc' = "stop"
  /\ verdict' = [verdict EXCEPT ![n] = result]
  /\ line' = None
  /\ UNCHANGED <<plugins, n, at, result, defer_list, left, _ctx, _fst_tfp, workerVars>>

\* info: printed only with logging on, and after the status line is cleared.
Verdict ==
  /\ pc = "verdict"
  /\ pc' = "stop"
  /\ IF _ctx.log_enabled
       THEN verdict' = [verdict EXCEPT ![n] = result] /\ line' = None
       ELSE verdict' = [verdict EXCEPT ![n] = "hidden"] /\ UNCHANGED line
  /\ UNCHANGED <<plugins, n, at, result, defer_list, left, _ctx, _fst_tfp, workerVars>>

\* The worker goes out of scope: its destructor raises the flag.
Stop ==
  /\ pc = "stop"
  /\ flag' = [flag EXCEPT ![n] = IF @ = "freed" THEN "corrupt" ELSE "true"]
  /\ n' = n + 1
  /\ pc' = IF n + 1 = Total THEN "done" ELSE "test"
  /\ UNCHANGED <<plugins, at, result, defer_list, left, screenVars, _fst_tfp, thread>>

\* The signal handler returns, and the process dies.
Die ==
  /\ pc = "handler"
  /\ left = 0
  /\ pc' = "aborted"
  /\ UNCHANGED <<plugins, n, at, result, defer_list, left, screenVars, _fst_tfp, workerVars>>

-----------------------------------------------------------------------------
Lives == pc \notin {"done", "aborted"}

\* The thread of the worker of test t looks at its flag,
Check(t) ==
  /\ Lives
  /\ thread[t] \in {"check", "sleep"}
  /\ thread' = [thread EXCEPT ![t] = IF flag[t] = "true" THEN "delete" ELSE "fn"]
  /\ UNCHANGED <<testVars, screenVars, _fst_tfp, flag>>

\* Mutant: the worker is made by once, which does not wait to be stopped.
Fn_Once(t) ==
  /\ Lives
  /\ thread[t] = "fn"
  /\ thread' = [thread EXCEPT ![t] = "delete"]
  /\ line' = IF _ctx.status_enabled THEN t ELSE line
  /\ UNCHANGED <<testVars, _ctx, verdict, _fst_tfp, flag>>

\* prints the status line,
Fn(t) ==
  /\ Lives
  /\ thread[t] = "fn"
  /\ thread' = [thread EXCEPT ![t] = "sleep"]
  /\ line' = IF _ctx.status_enabled THEN t ELSE line
  /\ UNCHANGED <<testVars, _ctx, verdict, _fst_tfp, flag>>

\* and deletes the flag that told it to stop.
Delete(t) ==
  /\ Lives
  /\ thread[t] = "delete"
  /\ thread' = [thread EXCEPT ![t] = "gone"]
  /\ flag' = [flag EXCEPT ![t] = "freed"]
  /\ UNCHANGED <<testVars, screenVars, _fst_tfp>>

Bench == RunTest \/ Plugin \/ EnterBody \/ RunDefer \/ Unwound \/ Verdict \/ Stop \/ Die

Status(t) == Check(t) \/ Fn(t) \/ Delete(t)

Next == Bench \/ LeaveBody \/ \E t \in Test : Status(t)

Spec == Init /\ [][Next]_vars

\* Threads are scheduled; the body of a test need not end.
FairSpec == Spec /\ WF_vars(Bench) /\ \A t \in Test : WF_vars(Status(t))

-----------------------------------------------------------------------------
\* The trace is open exactly while TRACE is on the defer list, and logging and
\* the status line are on at least while LOG and STATUS are, whichever way the
\* test ends, so that neither the assertion on the list nor the one on the
\* trace ever fires, and an abort still closes the trace.
Balanced ==
  LET pending == {defer_list[k] : k \in 1 .. IF pc \in {"unwind", "handler", "aborted"} THEN left
                                            ELSE Len(defer_list)}
  IN  /\ _fst_tfp = ("TRACE" \in pending)
      /\ pc = "test" => defer_list = <<>>
      /\ "LOG" \in pending => _ctx.log_enabled
      /\ "STATUS" \in pending => _ctx.status_enabled

\* The verdict on a test is printed unless the test itself or one before it
\* used the LOG plugin, which leaves logging off.
UsedLog(t) ==
  \E k \in 1 .. Len(plugins[t]) :
    plugins[t][k] = "LOG" /\ \A j \in 1 .. k : plugins[t][j] # "SKIP"
Verdicts ==
  \A t \in Test :
    t < n => verdict[t] = IF \E e \in 0 .. t : UsedLog(e) THEN "hidden"
                          ELSE IF \E k \in 1 .. Len(plugins[t]) : plugins[t][k] = "SKIP"
                            THEN "Skipped" ELSE "Finished"

\* The owner never writes into a flag that its thread has deleted.
FlagLives == \A t \in Test : flag[t] # "corrupt"

\* A test that runs on and on is seen on the status line.
StatusShown ==
  \A t \in Test :
    (pc = "body" /\ n = t /\ _ctx.status_enabled) ~> (line = t \/ pc # "body")

\* The workers of tests that are over go away, whatever the bench does next,
\* unless the process ends first.
WorkersLeave == \A t \in Test : (n > t) ~> (thread[t] = "gone" \/ ~Lives)

\* The status workers do their work as long as their test runs, and no longer.
StatusWorkers == StatusShown /\ WorkersLeave
=============================================================================
