----------------------------- MODULE SerialProofs -----------------------------
(***************************************************************************)
(* The serial test bench, for every number of tests and every choice of    *)
(* plugins: on every path the defers of the plugins all run and keep step  *)
(* with the switches (Balanced), the verdicts printed are those that are   *)
(* due (Verdicts), and no flag of a status worker is written after it is   *)
(* freed (FlagLives).                                                      *)
(***************************************************************************)
EXTENDS Serial, TLAPS

-----------------------------------------------------------------------------
\* A test is declared WITH plugins that differ from each other.  (Of a plugin
\* that is listed twice, the first defer to run would switch it off while the
\* other one is still pending.)
Distinct(s) == \A j, k \in 1 .. Len(s) : s[j] = s[k] => j = k
Declared ==
  /\ Total \in Nat
  /\ \A s \in PluginLists : s \in Seq(Plugins) /\ Distinct(s)

Unwinding == {"unwind", "handler", "aborted"}
InTest == {"plugins", "body"} \cup Unwinding

Pending(p) ==
  \E k \in 1 .. IF pc \in Unwinding THEN left ELSE Len(defer_list) : defer_list[k] = p
Deferred(p) == \E k \in 1 .. Len(defer_list) : defer_list[k] = p

\* No test before m has left logging off.
Logging(m) == \A e \in 0 .. m - 1 : ~UsedLog(e)

Outcome(t) == IF \E k \in 1 .. Len(plugins[t]) : plugins[t][k] = "SKIP"
                THEN "Skipped" ELSE "Finished"
Due(t) == IF \E e \in 0 .. t : UsedLog(e) THEN "hidden" ELSE Outcome(t)

-----------------------------------------------------------------------------
\* Where the bench is, and that the defer list is that of the plugins so far.
BenchInv ==
  /\ n \in Nat
  /\ pc \in InTest \cup {"test", "verdict", "stop", "done"}
  /\ pc \notin {"test", "done"} => n \in Test
  /\ plugins \in [Test -> PluginLists]
  /\ at \in Nat
  /\ left \in Nat
  /\ defer_list \in Seq({"POST"} \cup Plugins)
  /\ pc \notin InTest => defer_list = <<>>
  /\ pc \in Unwinding => left <= Len(defer_list)
  /\ pc = "aborted" => left = 0

ListInv ==
  /\ pc \in InTest =>
       /\ at <= Len(plugins[n])
       /\ Len(defer_list) <= at + 1
       /\ \A k \in 1 .. Len(defer_list) :
            defer_list[k] = IF k = 1 THEN "POST" ELSE plugins[n][k - 1]
  /\ pc \in {"plugins", "body"} =>
       /\ Len(defer_list) = at + 1
       /\ \A k \in 1 .. at : plugins[n][k] # "SKIP"
       /\ result = "Finished"
  /\ pc = "body" => at = Len(plugins[n])
  /\ pc = "unwind" => (Deferred("LOG") <=> UsedLog(n))
  /\ pc \in {"unwind", "verdict"} => result = Outcome(n)

\* What is switched on, and whether verdicts are printed.
SwitchInv ==
  /\ _fst_tfp \in BOOLEAN
  /\ _ctx \in [log_enabled : BOOLEAN, status_enabled : BOOLEAN]
  /\ _fst_tfp <=> Pending("TRACE")
  /\ Pending("STATUS") => _ctx.status_enabled
  /\ pc \in InTest =>
       (_ctx.log_enabled <=> Pending("LOG") \/ (~Deferred("LOG") /\ Logging(n)))
  /\ pc = "test" => (_ctx.log_enabled <=> Logging(n))
  /\ pc \in {"verdict", "stop"} => (_ctx.log_enabled <=> Logging(n + 1))

VerdictInv ==
  /\ verdict \in [Test -> {"none", "hidden", "Skipped", "Finished"}]
  /\ \A t \in Test : t < n \/ (t = n /\ pc = "stop") => verdict[t] = Due(t)

\* The worker of a test lives at least as long as its owner.
StatusInv(t) ==
  /\ t > n \/ (t = n /\ pc = "test") => thread[t] = "none" /\ flag[t] = "null"
  /\ t = n /\ pc # "test" => thread[t] \in {"check", "fn", "sleep"} /\ flag[t] = "false"
  /\ t < n => \/ thread[t] \in {"check", "fn", "sleep", "delete"} /\ flag[t] = "true"
              \/ thread[t] = "gone" /\ flag[t] = "freed"

WorkersInv ==
  /\ thread \in [Test -> {"none", "check", "fn", "sleep", "delete", "gone"}]
  /\ flag \in [Test -> {"null", "false", "true", "freed"}]
  /\ \A t \in Test : StatusInv(t)

IInv == BenchInv /\ ListInv /\ SwitchInv /\ VerdictInv /\ WorkersInv

-----------------------------------------------------------------------------
LEMMA InvInit ==
  ASSUME Declared
  PROVE  Init => IInv
  <1> SUFFICES ASSUME Init PROVE IInv
    OBVIOUS
  <1>1. BenchInv
    BY DEF Init, BenchInv, InTest, Unwinding
  <1>2. ListInv
    <2>1. pc \notin InTest \cup {"plugins", "body", "unwind", "verdict"}
      BY DEF Init, InTest, Unwinding
    <2> QED
      BY <2>1 DEF ListInv
  <1>3. SwitchInv
    <2>1. /\ pc = "test" /\ n = 0 /\ Len(defer_list) = 0 /\ _fst_tfp = FALSE
          /\ _ctx \in [log_enabled : {TRUE}, status_enabled : BOOLEAN]
      BY DEF Init
    <2>2. \A p : ~Pending(p)
      BY <2>1 DEF Pending, Unwinding
    <2>3. Logging(n)
      BY <2>1 DEF Logging
    <2> QED
      BY <2>1, <2>2, <2>3 DEF SwitchInv, InTest, Unwinding
  <1>4. VerdictInv
    BY DEF Init, VerdictInv, Test, Declared
  <1>5. WorkersInv
    BY DEF Init, WorkersInv, StatusInv, Test, Declared
  <1> QED
    BY <1>1, <1>2, <1>3, <1>4, <1>5 DEF IInv

\* The list of the test that runs.
LEMMA Lists ==
  ASSUME Declared, BenchInv, n \in Test
  PROVE  plugins[n] \in Seq(Plugins) /\ Distinct(plugins[n])
  BY DEF Declared, BenchInv

\* The defer list names nothing twice.
LEMMA DistinctDefers ==
  ASSUME Declared, BenchInv, ListInv, pc \in InTest
  PROVE  Distinct(defer_list)
  <1>1. n \in Test
    BY DEF BenchInv, InTest, Unwinding
  <1>2. plugins[n] \in Seq(Plugins) /\ Distinct(plugins[n])
    BY <1>1, Lists
  <1>3. /\ at \in Nat
        /\ at <= Len(plugins[n])
        /\ Len(defer_list) \in Nat
        /\ Len(defer_list) <= at + 1
        /\ \A k \in 1 .. Len(defer_list) :
             defer_list[k] = IF k = 1 THEN "POST" ELSE plugins[n][k - 1]
    BY DEF BenchInv, ListInv
  <1>4. \A k \in 1 .. Len(defer_list) : k # 1 =>
          k - 1 \in 1 .. Len(plugins[n]) /\ plugins[n][k - 1] \in Plugins
    BY <1>2, <1>3
  <1>5. "POST" \notin Plugins
    BY DEF Plugins
  <1> SUFFICES ASSUME NEW j \in 1 .. Len(defer_list), NEW k \in 1 .. Len(defer_list),
                      defer_list[j] = defer_list[k]
               PROVE  j = k
    BY DEF Distinct
  <1>6. CASE j = 1 \/ k = 1
    BY <1>3, <1>4, <1>5, <1>6
  <1>7. CASE j # 1 /\ k # 1
    <2>1. plugins[n][j - 1] = plugins[n][k - 1]
      BY <1>3, <1>7
    <2>2. j - 1 = k - 1
      BY <1>2, <1>4, <1>7, <2>1 DEF Distinct
    <2> QED
      BY <2>2
  <1> QED
    BY <1>6, <1>7

-----------------------------------------------------------------------------
(***************************************************************************)
(* The status workers: each action of the bench, and those of the threads. *)
(***************************************************************************)
LEMMA WorkersKept ==
  ASSUME WorkersInv, UNCHANGED workerVars, n' = n, pc' = "test" <=> pc = "test"
  PROVE  WorkersInv'
  BY DEF WorkersInv, StatusInv, workerVars

LEMMA WorkersBench ==
  ASSUME Declared, BenchInv, WorkersInv, Bench \/ LeaveBody
  PROVE  WorkersInv'
  <1>1. CASE RunTest
    <2>1. n \in Test
      BY <1>1 DEF RunTest, BenchInv, Test, Declared
    <2>2. pc = "test" /\ n' = n /\ pc' # "test"
      BY <1>1 DEF RunTest
    <2> QED
      BY <1>1, <2>1, <2>2 DEF RunTest, StartWorker, WorkersInv, StatusInv
  <1>2. CASE Stop
    <2>1. n \in Test /\ pc = "stop" /\ n' = n + 1 /\ pc' \in {"done", "test"}
      BY <1>2 DEF Stop, BenchInv
    <2>2. flag[n] = "false" /\ thread[n] \in {"check", "fn", "sleep"}
      BY <2>1 DEF WorkersInv, StatusInv
    <2>3. flag' = [flag EXCEPT ![n] = "true"] /\ thread' = thread
      BY <1>2, <2>2 DEF Stop
    <2>4. pc' = "done" => n + 1 = Total
      BY <1>2 DEF Stop
    <2>5. \A t \in Test : StatusInv(t)'
      <3> SUFFICES ASSUME NEW t \in Test PROVE StatusInv(t)'
        OBVIOUS
      <3>1. t \in Int /\ n \in Int /\ t < Total
        BY <2>1 DEF Test, Declared
      <3>2. CASE t = n
        BY <2>1, <2>2, <2>3, <3>1, <3>2 DEF StatusInv, WorkersInv
      <3>3. CASE t < n
        BY <2>1, <2>3, <3>1, <3>3 DEF StatusInv, WorkersInv
      <3>4. CASE t > n
        BY <2>1, <2>3, <2>4, <3>1, <3>4 DEF StatusInv, WorkersInv
      <3> QED
        BY <3>1, <3>2, <3>3, <3>4
    <2> QED
      BY <2>3, <2>5 DEF WorkersInv
  <1>3. CASE Plugin
    BY <1>3, WorkersKept DEF Plugin
  <1>4. CASE EnterBody
    BY <1>4, WorkersKept DEF EnterBody
  <1>5. CASE RunDefer
    BY <1>5, WorkersKept DEF RunDefer
  <1>6. CASE Unwound
    BY <1>6, WorkersKept DEF Unwound
  <1>7. CASE Verdict
    BY <1>7, WorkersKept DEF Verdict
  <1>8. CASE Die
    BY <1>8, WorkersKept DEF Die
  <1>9. CASE LeaveBody
    BY <1>9, WorkersKept DEF LeaveBody
  <1> QED
    BY <1>1, <1>2, <1>3, <1>4, <1>5, <1>6, <1>7, <1>8, <1>9 DEF Bench

LEMMA WorkersStatus ==
  ASSUME WorkersInv, NEW t \in Test, Status(t)
  PROVE  WorkersInv'
  <1>1. n' = n /\ pc' = pc
    BY DEF Status, Check, Fn, Delete, testVars
  <1>2. CASE Check(t)
    BY <1>1, <1>2 DEF Check, WorkersInv, StatusInv
  <1>3. CASE Fn(t)
    BY <1>1, <1>3 DEF Fn, WorkersInv, StatusInv
  <1>4. CASE Delete(t)
    BY <1>1, <1>4 DEF Delete, WorkersInv, StatusInv
  <1> QED
    BY <1>2, <1>3, <1>4 DEF Status
-----------------------------------------------------------------------------
(***************************************************************************)
(* The bench.                                                              *)
(***************************************************************************)
\* Nothing but the bench's own actions changes what the bench does.
LEMMA BenchKept ==
  ASSUME BenchInv, ListInv, SwitchInv, VerdictInv, UNCHANGED testVars,
         UNCHANGED <<_ctx, verdict, _fst_tfp>>
  PROVE  BenchInv' /\ ListInv' /\ SwitchInv' /\ VerdictInv'
  <1>1. BenchInv'
    BY DEF BenchInv, testVars
  <1>2. ListInv'
    BY DEF ListInv, testVars, Deferred, UsedLog, Outcome
  <1>3. SwitchInv'
    BY DEF SwitchInv, testVars, Pending, Deferred, Logging, UsedLog
  <1>4. VerdictInv'
    BY DEF VerdictInv, testVars, Due, Outcome, UsedLog
  <1> QED
    BY <1>1, <1>2, <1>3, <1>4

\* The plugins of the tests do not change.
LEMMA SamePlugins ==
  ASSUME plugins' = plugins
  PROVE  /\ \A t : UsedLog(t)' <=> UsedLog(t)
         /\ \A t : Outcome(t)' = Outcome(t)
         /\ \A t : Due(t)' = Due(t)
  BY DEF UsedLog, Outcome, Due

LEMMA SameLogging ==
  ASSUME plugins' = plugins, NEW m, NEW k, m' = k
  PROVE  Logging(m)' <=> Logging(k)
  BY DEF Logging, UsedLog

BenchAll == BenchInv /\ ListInv /\ SwitchInv /\ VerdictInv

LEMMA RunTestStep ==
  ASSUME Declared, BenchAll, RunTest
  PROVE  BenchAll'
  <1>1. /\ pc = "test" /\ n \in Test /\ defer_list = <<>>
        /\ pc' = "plugins" /\ defer_list' = <<"POST">> /\ at' = 0 /\ result' = "Finished"
        /\ UNCHANGED <<plugins, n, left, _ctx, verdict, _fst_tfp>>
    <2>1. pc = "test" /\ defer_list = <<>>
      BY DEF RunTest, BenchAll, BenchInv, InTest, Unwinding
    <2>2. n \in Test
      BY DEF RunTest, BenchAll, BenchInv, Test, Declared
    <2> QED
      BY <2>1, <2>2 DEF RunTest, screenVars
  <1>2. plugins[n] \in Seq(Plugins)
    BY <1>1, Lists DEF BenchAll
  <1>3. Len(defer_list') = 1 /\ defer_list'[1] = "POST"
    BY <1>1
  <1>4. BenchInv'
    BY <1>1 DEF BenchAll, BenchInv, InTest, Unwinding
  <1>5. ListInv'
    BY <1>1, <1>2, <1>3 DEF ListInv, InTest, Unwinding
  <1>6. SwitchInv'
    <2>1. \A p : p # "POST" => ~Pending(p)' /\ ~Deferred(p)'
      BY <1>1, <1>3 DEF Pending, Deferred, Unwinding
    <2>2. \A p : ~Pending(p)
      BY <1>1 DEF Pending, Unwinding
    <2>3. Logging(n)' <=> Logging(n)
      BY <1>1 DEF Logging, UsedLog
    <2> QED
      BY <1>1, <2>1, <2>2, <2>3 DEF BenchAll, SwitchInv, InTest, Unwinding
  <1>7. VerdictInv'
    BY <1>1, SamePlugins DEF BenchAll, VerdictInv
  <1> QED
    BY <1>4, <1>5, <1>6, <1>7 DEF BenchAll

LEMMA EnterBodyStep ==
  ASSUME Declared, BenchAll, EnterBody
  PROVE  BenchAll'
  <1>1. /\ pc = "plugins" /\ pc' = "body" /\ at = Len(plugins[n])
        /\ UNCHANGED <<plugins, n, at, result, defer_list, left, _ctx, verdict, _fst_tfp>>
    BY DEF EnterBody, screenVars
  <1>2. BenchInv'
    BY <1>1 DEF BenchAll, BenchInv, InTest, Unwinding
  <1>3. ListInv'
    BY <1>1 DEF BenchAll, ListInv, InTest, Unwinding
  <1>4. SwitchInv'
    <2>1. \A p : (Pending(p)' <=> Pending(p)) /\ (Deferred(p)' <=> Deferred(p))
      BY <1>1 DEF Pending, Deferred, Unwinding
    <2>2. Logging(n)' <=> Logging(n)
      BY <1>1 DEF Logging, UsedLog
    <2> QED
      BY <1>1, <2>1, <2>2 DEF BenchAll, SwitchInv, InTest, Unwinding
  <1>5. VerdictInv'
    BY <1>1, SamePlugins DEF BenchAll, VerdictInv
  <1> QED
    BY <1>2, <1>3, <1>4, <1>5 DEF BenchAll

\* In the plugins and in the body, the list tells whether LOG was used.
LEMMA ListTells ==
  ASSUME Declared, BenchInv, ListInv, pc \in {"plugins", "body"}
  PROVE  Deferred("LOG") <=> \E k \in 1 .. at : plugins[n][k] = "LOG"
  <1>1. /\ Len(defer_list) = at + 1
        /\ at \in Nat
        /\ \A k \in 1 .. Len(defer_list) :
             defer_list[k] = IF k = 1 THEN "POST" ELSE plugins[n][k - 1]
    BY DEF BenchInv, ListInv, InTest
  <1>2. ASSUME Deferred("LOG")
        PROVE  \E k \in 1 .. at : plugins[n][k] = "LOG"
    <2>1. PICK k \in 1 .. Len(defer_list) : defer_list[k] = "LOG"
      BY <1>2 DEF Deferred
    <2>2. k # 1 /\ plugins[n][k - 1] = "LOG"
      BY <1>1, <2>1
    <2>3. k - 1 \in 1 .. at
      BY <1>1, <2>2
    <2> QED
      BY <2>2, <2>3
  <1>3. ASSUME NEW k \in 1 .. at, plugins[n][k] = "LOG"
        PROVE  Deferred("LOG")
    <2>1. k + 1 \in 1 .. Len(defer_list) /\ k + 1 # 1 /\ (k + 1) - 1 = k
      BY <1>1
    <2>2. defer_list[k + 1] = plugins[n][(k + 1) - 1]
      BY <1>1, <2>1
    <2> QED
      BY <1>3, <2>1, <2>2 DEF Deferred
  <1> QED
    BY <1>2, <1>3

\* The body, or a plugin, gives up, and the defers begin to run.
LEMMA LeaveStep ==
  ASSUME Declared, BenchAll, pc \in {"plugins", "body"}, pc' \in {"unwind", "handler"},
         left' = Len(defer_list), at' \in Nat, at <= at', at' <= Len(plugins[n]),
         UNCHANGED <<plugins, n, defer_list, _ctx, verdict, _fst_tfp>>,
         pc' = "unwind" => (Deferred("LOG") <=> UsedLog(n)) /\ result' = Outcome(n)
  PROVE  BenchAll'
  <1>1. Len(defer_list) \in Nat /\ at \in Nat /\ Len(defer_list) = at + 1 /\ n \in Test
    BY DEF BenchAll, BenchInv, ListInv
  <1>2. BenchInv'
    BY <1>1 DEF BenchAll, BenchInv, InTest, Unwinding
  <1>3. \A p : Deferred(p)' <=> Deferred(p)
    BY DEF Deferred
  <1>4. ListInv'
    <2>1. /\ at' <= Len(plugins'[n'])
          /\ Len(defer_list') <= at' + 1
          /\ \A k \in 1 .. Len(defer_list') :
               defer_list'[k] = IF k = 1 THEN "POST" ELSE plugins'[n'][k - 1]
      BY <1>1 DEF BenchAll, ListInv, InTest
    <2> QED
      BY <1>3, <2>1, SamePlugins DEF ListInv
  <1>5. SwitchInv'
    <2>1. \A p : Pending(p)' <=> Pending(p)
      BY DEF Pending, Unwinding
    <2>2. Logging(n)' <=> Logging(n)
      BY DEF Logging, UsedLog
    <2> QED
      BY <1>3, <2>1, <2>2 DEF BenchAll, SwitchInv, InTest, Unwinding
  <1>6. VerdictInv'
    BY SamePlugins DEF BenchAll, VerdictInv
  <1> QED
    BY <1>2, <1>4, <1>5, <1>6 DEF BenchAll

LEMMA LeaveBodyStep ==
  ASSUME Declared, BenchAll, LeaveBody
  PROVE  BenchAll'
  <1>1. /\ pc = "body" /\ pc' \in {"unwind", "handler"} /\ left' = Len(defer_list)
        /\ UNCHANGED <<plugins, n, at, result, defer_list, _ctx, verdict, _fst_tfp>>
    BY DEF LeaveBody, screenVars
  <1>2. /\ at = Len(plugins[n]) /\ at \in Nat
        /\ \A k \in 1 .. at : plugins[n][k] # "SKIP"
        /\ result = "Finished"
    BY <1>1 DEF BenchAll, BenchInv, ListInv
  <1>3. Deferred("LOG") <=> UsedLog(n)
    <2>1. Deferred("LOG") <=> \E k \in 1 .. at : plugins[n][k] = "LOG"
      BY <1>1, ListTells DEF BenchAll
    <2> QED
      BY <1>2, <2>1 DEF UsedLog
  <1>4. result = Outcome(n)
    BY <1>2 DEF Outcome
  <1> QED
    BY <1>1, <1>2, <1>3, <1>4, LeaveStep
LEMMA PluginStep ==
  ASSUME Declared, BenchAll, Plugin
  PROVE  BenchAll'
  <1> DEFINE p == plugins[n][at + 1]
  <1>1. /\ pc = "plugins" /\ at < Len(plugins[n]) /\ at' = at + 1
        /\ UNCHANGED <<plugins, n, verdict>>
    BY DEF Plugin
  <1>2. /\ n \in Test /\ at \in Nat /\ result = "Finished"
        /\ Len(defer_list) = at + 1
        /\ defer_list \in Seq({"POST"} \cup Plugins)
        /\ \A k \in 1 .. at : plugins[n][k] # "SKIP"
        /\ \A k \in 1 .. Len(defer_list) :
             defer_list[k] = IF k = 1 THEN "POST" ELSE plugins[n][k - 1]
    BY <1>1 DEF BenchAll, BenchInv, ListInv, InTest
  <1>3. plugins[n] \in Seq(Plugins) /\ Distinct(plugins[n])
    BY <1>2, Lists DEF BenchAll
  <1>4. at + 1 \in 1 .. Len(plugins[n]) /\ p \in Plugins
    BY <1>1, <1>2, <1>3
  <1>5. at' \in Nat /\ at <= at' /\ at' <= Len(plugins[n])
    BY <1>1, <1>2, <1>4
  <1>6. CASE p = "SKIP"
    <2>1. /\ result' = "Skipped" /\ pc' = "unwind" /\ left' = Len(defer_list)
          /\ UNCHANGED <<defer_list, _ctx, _fst_tfp>>
      BY <1>6 DEF Plugin
    <2>2. Outcome(n) = "Skipped"
      BY <1>4, <1>6 DEF Outcome
    <2>3. UsedLog(n) <=> \E k \in 1 .. at : plugins[n][k] = "LOG"
      <3>1. ASSUME NEW k \in 1 .. at, plugins[n][k] = "LOG"
            PROVE  UsedLog(n)
        <4>1. k \in 1 .. Len(plugins[n]) /\ \A j \in 1 .. k : j \in 1 .. at
          BY <1>2, <1>4
        <4> QED
          BY <1>2, <3>1, <4>1 DEF UsedLog
      <3>2. ASSUME UsedLog(n)
            PROVE  \E k \in 1 .. at : plugins[n][k] = "LOG"
        <4>1. PICK k \in 1 .. Len(plugins[n]) :
                plugins[n][k] = "LOG" /\ \A j \in 1 .. k : plugins[n][j] # "SKIP"
          BY <3>2 DEF UsedLog
        <4>2. ~(at + 1 \in 1 .. k)
          BY <1>6, <4>1
        <4>3. k \in 1 .. at
          BY <1>2, <4>2
        <4> QED
          BY <4>1, <4>3
      <3> QED
        BY <3>1, <3>2
    <2>4. Deferred("LOG") <=> UsedLog(n)
      BY <1>1, <2>3, ListTells DEF BenchAll
    <2> QED
      BY <1>1, <1>5, <2>1, <2>2, <2>4, LeaveStep
  <1>7. CASE p = "TRACE" /\ _fst_tfp
    <2>1. /\ pc' = "handler" /\ left' = Len(defer_list)
          /\ UNCHANGED <<defer_list, result, _ctx, _fst_tfp>>
      BY <1>7 DEF Plugin
    <2> QED
      BY <1>1, <1>5, <2>1, LeaveStep
  <1>8. CASE p # "SKIP" /\ ~(p = "TRACE" /\ _fst_tfp)
    <2>1. /\ Switch(p, TRUE)
          /\ defer_list' = Append(defer_list, p)
          /\ UNCHANGED <<pc, left, result>>
      BY <1>8 DEF Plugin
    <2> HIDE DEF p
    <2>2. /\ Len(defer_list') = at + 2
          /\ \A k \in 1 .. at + 1 : defer_list'[k] = defer_list[k]
          /\ defer_list'[at + 2] = p
          /\ defer_list' \in Seq({"POST"} \cup Plugins)
      BY <1>2, <1>4, <2>1
    <2>3. BenchInv'
      BY <1>1, <1>2, <1>5, <2>1, <2>2 DEF BenchAll, BenchInv, InTest, Unwinding
    <2>4. ListInv'
      <3>1. \A k \in 1 .. at + 2 :
              defer_list'[k] = IF k = 1 THEN "POST" ELSE plugins[n][k - 1]
        <4> SUFFICES ASSUME NEW k \in 1 .. at + 2
                     PROVE  defer_list'[k] = IF k = 1 THEN "POST" ELSE plugins[n][k - 1]
          OBVIOUS
        <4>1. CASE k \in 1 .. at + 1
          BY <1>2, <2>2, <4>1
        <4>2. CASE k = at + 2
          <5>1. k # 1 /\ k - 1 = at + 1
            BY <1>2, <4>2
          <5> QED
            BY <2>2, <4>2, <5>1 DEF p
        <4> QED
          BY <1>2, <4>1, <4>2
      <3>2. \A k \in 1 .. at + 1 : plugins[n][k] # "SKIP"
        <4> SUFFICES ASSUME NEW k \in 1 .. at + 1 PROVE plugins[n][k] # "SKIP"
          OBVIOUS
        <4>1. k \in 1 .. at \/ k = at + 1
          BY <1>2
        <4> QED
          BY <1>2, <1>8, <4>1 DEF p
      <3> QED
        BY <1>1, <1>2, <1>5, <2>1, <2>2, <3>1, <3>2 DEF ListInv
    <2>5. \A q : Deferred(q)' <=> Deferred(q) \/ q = p
      <3> SUFFICES ASSUME NEW q PROVE Deferred(q)' <=> Deferred(q) \/ q = p
        OBVIOUS
      <3>1. ASSUME NEW k \in 1 .. at + 2, defer_list'[k] = q
            PROVE  Deferred(q) \/ q = p
        <4>1. k \in 1 .. at + 1 \/ k = at + 2
          BY <1>2
        <4> QED
          BY <1>2, <2>2, <3>1, <4>1 DEF Deferred
      <3>2. ASSUME NEW k \in 1 .. at + 1, defer_list[k] = q
            PROVE  Deferred(q)'
        <4>1. k \in 1 .. Len(defer_list') /\ defer_list'[k] = q
          BY <1>2, <2>2, <3>2
        <4> QED
          BY <4>1 DEF Deferred
      <3>3. ASSUME q = p
            PROVE  Deferred(q)'
        <4>1. at + 2 \in 1 .. Len(defer_list') /\ defer_list'[at + 2] = q
          BY <1>2, <2>2, <3>3
        <4> QED
          BY <4>1 DEF Deferred
      <3>4. Deferred(q)' => Deferred(q) \/ q = p
        BY <2>2, <3>1 DEF Deferred
      <3>5. Deferred(q) => Deferred(q)'
        BY <1>2, <3>2 DEF Deferred
      <3> QED
        BY <3>3, <3>4, <3>5
    <2>6. \A q : (Pending(q) <=> Deferred(q)) /\ (Pending(q)' <=> Deferred(q)')
      BY <1>1, <2>1 DEF Pending, Deferred, Unwinding
    <2>7. SwitchInv'
      <3>1. /\ _fst_tfp \in BOOLEAN
            /\ _ctx \in [log_enabled : BOOLEAN, status_enabled : BOOLEAN]
            /\ _fst_tfp <=> Deferred("TRACE")
            /\ Deferred("STATUS") => _ctx.status_enabled
            /\ _ctx.log_enabled <=> Deferred("LOG") \/ (~Deferred("LOG") /\ Logging(n))
        BY <1>1, <2>6 DEF BenchAll, SwitchInv, InTest
      <3>2. /\ _ctx' = [log_enabled |-> IF p = "LOG" THEN TRUE ELSE _ctx.log_enabled,
                        status_enabled |-> IF p = "STATUS" THEN TRUE ELSE _ctx.status_enabled]
            /\ _fst_tfp' = IF p = "TRACE" THEN TRUE ELSE _fst_tfp
        BY <2>1 DEF Switch
      <3>3. /\ _fst_tfp' \in BOOLEAN
            /\ _ctx' \in [log_enabled : BOOLEAN, status_enabled : BOOLEAN]
        BY <3>1, <3>2
      <3>4. /\ _fst_tfp' <=> Pending("TRACE")'
            /\ Pending("STATUS")' => _ctx'.status_enabled
        BY <2>5, <2>6, <3>1, <3>2
      <3>5. Logging(n)' <=> Logging(n)
        BY <1>1 DEF Logging, UsedLog
      <3>6. _ctx'.log_enabled <=> Pending("LOG")' \/ (~Deferred("LOG")' /\ Logging(n)')
        BY <2>5, <2>6, <3>1, <3>2, <3>5
      <3> QED
        BY <1>1, <2>1, <3>3, <3>4, <3>6 DEF SwitchInv
    <2>8. VerdictInv'
      BY <1>1, <2>1, SamePlugins DEF BenchAll, VerdictInv
    <2> QED
      BY <2>3, <2>4, <2>7, <2>8 DEF BenchAll
  <1> QED
    BY <1>6, <1>7, <1>8

\* A defer switches off what is pending no longer, and nothing else.
LEMMA RunDeferStep ==
  ASSUME Declared, BenchAll, RunDefer
  PROVE  BenchAll'
  <1> DEFINE p == defer_list[left]
  <1>1. /\ pc \in {"unwind", "handler"} /\ left \in Nat /\ left > 0
        /\ left <= Len(defer_list) /\ Len(defer_list) \in Nat
        /\ left' = left - 1 /\ Switch(p, FALSE)
        /\ UNCHANGED <<plugins, n, pc, at, result, defer_list, line, verdict>>
    <2>1. pc \in {"unwind", "handler"} /\ pc \in Unwinding
      BY DEF RunDefer, Unwinding
    <2>2. left \in Nat /\ left <= Len(defer_list) /\ Len(defer_list) \in Nat
      BY <2>1 DEF BenchAll, BenchInv
    <2> QED
      BY <2>1, <2>2 DEF RunDefer, Undo
  <1>2. BenchInv'
    <2>1. left' \in Nat /\ left' <= Len(defer_list)
      BY <1>1
    <2> QED
      BY <1>1, <2>1 DEF BenchAll, BenchInv, InTest, Unwinding
  <1>3. \A q : Deferred(q)' <=> Deferred(q)
    BY <1>1 DEF Deferred
  <1>4. ListInv'
    BY <1>1, <1>3, SamePlugins DEF BenchAll, ListInv
  <1>5. Distinct(defer_list)
    BY <1>1, DistinctDefers DEF BenchAll, InTest, Unwinding
  <1>6. pc \in Unwinding
    BY <1>1 DEF Unwinding
  <1>7. Pending(p)
    <2>1. left \in 1 .. left
      BY <1>1
    <2> QED
      BY <1>6, <2>1 DEF Pending
  <1> HIDE DEF p
  <1>8. \A q : Pending(q)' <=> Pending(q) /\ q # p
    <2> SUFFICES ASSUME NEW q PROVE Pending(q)' <=> Pending(q) /\ q # p
      OBVIOUS
    <2>1. Pending(q) <=> \E k \in 1 .. left : defer_list[k] = q
      BY <1>6 DEF Pending
    <2>2. Pending(q)' <=> \E k \in 1 .. left - 1 : defer_list[k] = q
      BY <1>1, <1>6 DEF Pending
    <2>3. \A k \in 1 .. left - 1 : k \in 1 .. left /\ defer_list[k] # p
      BY <1>1, <1>5 DEF Distinct, p
    <2>4. \A k \in 1 .. left : k \in 1 .. left - 1 \/ k = left
      BY <1>1
    <2> QED
      BY <2>1, <2>2, <2>3, <2>4 DEF p
  <1>9. SwitchInv'
    <2>1. /\ _fst_tfp \in BOOLEAN
          /\ _ctx \in [log_enabled : BOOLEAN, status_enabled : BOOLEAN]
          /\ _fst_tfp <=> Pending("TRACE")
          /\ Pending("STATUS") => _ctx.status_enabled
          /\ _ctx.log_enabled <=> Pending("LOG") \/ (~Deferred("LOG") /\ Logging(n))
      BY <1>1 DEF BenchAll, SwitchInv, InTest, Unwinding
    <2>2. /\ _ctx' = [log_enabled |-> IF p = "LOG" THEN FALSE ELSE _ctx.log_enabled,
                      status_enabled |-> IF p = "STATUS" THEN FALSE ELSE _ctx.status_enabled]
          /\ _fst_tfp' = IF p = "TRACE" THEN FALSE ELSE _fst_tfp
      BY <1>1 DEF Switch
    <2>3. /\ _fst_tfp' \in BOOLEAN
          /\ _ctx' \in [log_enabled : BOOLEAN, status_enabled : BOOLEAN]
      BY <2>1, <2>2
    <2>4. /\ _fst_tfp' <=> Pending("TRACE")'
          /\ Pending("STATUS")' => _ctx'.status_enabled
      BY <1>8, <2>1, <2>2
    <2>5. Logging(n)' <=> Logging(n)
      BY <1>1 DEF Logging, UsedLog
    <2>6. p = "LOG" => Deferred("LOG")
      BY <1>1 DEF Deferred, p
    <2>7. Pending("LOG") => Deferred("LOG")
      BY <1>1, <1>6 DEF Pending, Deferred
    <2>8. _ctx'.log_enabled <=> Pending("LOG")' \/ (~Deferred("LOG")' /\ Logging(n)')
      BY <1>3, <1>8, <2>1, <2>2, <2>5, <2>6
    <2> QED
      BY <1>1, <2>3, <2>4, <2>8 DEF SwitchInv
  <1>10. VerdictInv'
    BY <1>1, SamePlugins DEF BenchAll, VerdictInv
  <1> QED
    BY <1>2, <1>4, <1>9, <1>10 DEF BenchAll

LEMMA UnwoundStep ==
  ASSUME Declared, BenchAll, Unwound
  PROVE  BenchAll'
  <1>1. /\ pc = "unwind" /\ left = 0 /\ defer_list' = <<>> /\ pc' = "verdict"
        /\ UNCHANGED <<plugins, n, at, result, left, _ctx, verdict, _fst_tfp>>
    BY DEF Unwound, screenVars
  <1>2. BenchInv'
    BY <1>1 DEF BenchAll, BenchInv, InTest, Unwinding
  <1>3. ListInv'
    BY <1>1, SamePlugins DEF BenchAll, ListInv, InTest, Unwinding
  <1>4. SwitchInv'
    <2>1. \A q : ~Pending(q)
      BY <1>1 DEF Pending, Unwinding
    <2>2. \A q : ~Pending(q)'
      <3>1. Len(defer_list') = 0
        BY <1>1
      <3> QED
        BY <1>1, <3>1 DEF Pending, Unwinding
    <2>3. _ctx.log_enabled <=> ~UsedLog(n) /\ Logging(n)
      BY <1>1, <2>1 DEF BenchAll, SwitchInv, ListInv, InTest, Unwinding
    <2>4. ~UsedLog(n) /\ Logging(n) <=> Logging(n + 1)
      <3>1. \A e : e \in 0 .. (n + 1) - 1 <=> e \in 0 .. n - 1 \/ e = n
        BY DEF BenchAll, BenchInv
      <3> QED
        BY <3>1 DEF Logging
    <2>5. Logging(n + 1)' <=> Logging(n + 1)
      BY <1>1 DEF Logging, UsedLog
    <2> QED
      BY <1>1, <2>1, <2>2, <2>3, <2>4, <2>5 DEF BenchAll, SwitchInv, InTest, Unwinding
  <1>5. VerdictInv'
    BY <1>1, SamePlugins DEF BenchAll, VerdictInv
  <1> QED
    BY <1>2, <1>3, <1>4, <1>5 DEF BenchAll

LEMMA VerdictStep ==
  ASSUME Declared, BenchAll, Verdict
  PROVE  BenchAll'
  <1>1. /\ pc = "verdict" /\ pc' = "stop"
        /\ verdict' = [verdict EXCEPT ![n] = IF _ctx.log_enabled THEN result ELSE "hidden"]
        /\ UNCHANGED <<plugins, n, at, result, defer_list, left, _ctx, _fst_tfp>>
    BY DEF Verdict
  <1>2. BenchInv'
    BY <1>1 DEF BenchAll, BenchInv, InTest, Unwinding
  <1>3. ListInv'
    BY <1>1 DEF ListInv, InTest, Unwinding
  <1>4. SwitchInv'
    <2>1. \A q : Pending(q)' <=> Pending(q)
      BY <1>1 DEF Pending, Unwinding
    <2>2. Logging(n + 1)' <=> Logging(n + 1)
      BY <1>1 DEF Logging, UsedLog
    <2> QED
      BY <1>1, <2>1, <2>2 DEF BenchAll, SwitchInv, InTest, Unwinding
  <1>5. VerdictInv'
    <2>1. n \in Test /\ n \in Nat /\ result = Outcome(n)
      BY <1>1 DEF BenchAll, BenchInv, ListInv
    <2>2. _ctx.log_enabled <=> \A e \in 0 .. n : ~UsedLog(e)
      <3>1. (n + 1) - 1 = n
        BY <2>1
      <3> QED
        BY <1>1, <3>1 DEF BenchAll, SwitchInv, Logging
    <2>3. (IF _ctx.log_enabled THEN result ELSE "hidden") = Due(n)
      BY <2>1, <2>2 DEF Due
    <2>4. Due(n) \in {"hidden", "Skipped", "Finished"}
      BY DEF Due, Outcome
    <2> QED
      BY <1>1, <2>1, <2>3, <2>4, SamePlugins DEF BenchAll, VerdictInv
  <1> QED
    BY <1>2, <1>3, <1>4, <1>5 DEF BenchAll

LEMMA StopStep ==
  ASSUME Declared, BenchAll, Stop
  PROVE  BenchAll'
  <1>1. /\ pc = "stop" /\ n' = n + 1 /\ n \in Test /\ n \in Nat
        /\ pc' = IF n + 1 = Total THEN "done" ELSE "test"
        /\ UNCHANGED <<plugins, at, result, defer_list, left, _ctx, verdict, _fst_tfp>>
    BY DEF Stop, screenVars, BenchAll, BenchInv
  <1>2. BenchInv'
    BY <1>1 DEF BenchAll, BenchInv, InTest, Unwinding
  <1>3. ListInv'
    BY <1>1 DEF ListInv, InTest, Unwinding
  <1>4. SwitchInv'
    <2>1. \A q : Pending(q)' <=> Pending(q)
      BY <1>1 DEF Pending, Unwinding
    <2>2. Logging(n)' <=> Logging(n + 1)
      BY <1>1 DEF Logging, UsedLog
    <2> QED
      BY <1>1, <2>1, <2>2 DEF BenchAll, SwitchInv, InTest, Unwinding
  <1>5. VerdictInv'
    <2>1. \A t \in Test : t < n + 1 => t < n \/ t = n
      BY <1>1 DEF Test, Declared
    <2> QED
      BY <1>1, <2>1, SamePlugins DEF BenchAll, VerdictInv
  <1> QED
    BY <1>2, <1>3, <1>4, <1>5 DEF BenchAll

LEMMA DieStep ==
  ASSUME Declared, BenchAll, Die
  PROVE  BenchAll'
  <1>1. /\ pc = "handler" /\ left = 0 /\ pc' = "aborted"
        /\ UNCHANGED <<plugins, n, at, result, defer_list, left, _ctx, verdict, _fst_tfp>>
    BY DEF Die, screenVars
  <1>2. BenchInv'
    BY <1>1 DEF BenchAll, BenchInv, InTest, Unwinding
  <1>3. ListInv'
    BY <1>1 DEF BenchAll, ListInv, InTest, Unwinding
  <1>4. SwitchInv'
    <2>1. \A q : (Pending(q)' <=> Pending(q)) /\ (Deferred(q)' <=> Deferred(q))
      BY <1>1 DEF Pending, Deferred, Unwinding
    <2>2. Logging(n)' <=> Logging(n)
      BY <1>1 DEF Logging, UsedLog
    <2> QED
      BY <1>1, <2>1, <2>2 DEF BenchAll, SwitchInv, InTest, Unwinding
  <1>5. VerdictInv'
    BY <1>1, SamePlugins DEF BenchAll, VerdictInv
  <1> QED
    BY <1>2, <1>3, <1>4, <1>5 DEF BenchAll

-----------------------------------------------------------------------------
LEMMA InvStep ==
  ASSUME Declared
  PROVE  IInv /\ [Next]_vars => IInv'
  <1> SUFFICES ASSUME IInv, [Next]_vars PROVE IInv'
    OBVIOUS
  <1>1. Declared /\ BenchAll /\ BenchInv /\ ListInv /\ SwitchInv /\ VerdictInv /\ WorkersInv
    BY DEF IInv, BenchAll
  <1>2. CASE Bench \/ LeaveBody
    <2>1. WorkersInv'
      BY <1>1, <1>2, WorkersBench
    <2>2. BenchAll'
      BY <1>1, <1>2, RunTestStep, PluginStep, EnterBodyStep, RunDeferStep, UnwoundStep,
         VerdictStep, StopStep, DieStep, LeaveBodyStep DEF Bench
    <2> QED
      BY <2>1, <2>2 DEF IInv, BenchAll
  <1>3. CASE \E t \in Test : Status(t)
    <2>1. PICK t \in Test : Status(t)
      BY <1>3
    <2>2. UNCHANGED testVars /\ UNCHANGED <<_ctx, verdict, _fst_tfp>>
      BY <2>1 DEF Status, Check, Fn, Delete, screenVars
    <2>3. BenchInv' /\ ListInv' /\ SwitchInv' /\ VerdictInv'
      BY <1>1, <2>2, BenchKept
    <2>4. WorkersInv'
      BY <1>1, <2>1, WorkersStatus
    <2> QED
      BY <2>3, <2>4 DEF IInv
  <1>4. CASE UNCHANGED vars
    <2>1. UNCHANGED testVars /\ UNCHANGED <<_ctx, verdict, _fst_tfp>> /\ UNCHANGED workerVars
      BY <1>4 DEF vars, screenVars
    <2>2. BenchInv' /\ ListInv' /\ SwitchInv' /\ VerdictInv'
      BY <1>1, <2>1, BenchKept
    <2>3. n' = n /\ (pc' = "test" <=> pc = "test")
      BY <2>1 DEF testVars
    <2>4. WorkersInv'
      BY <1>1, <2>1, <2>3, WorkersKept
    <2> QED
      BY <2>2, <2>4 DEF IInv
  <1> QED
    BY <1>2, <1>3, <1>4 DEF Next

LEMMA Invariance ==
  ASSUME Declared
  PROVE  Spec => []IInv
  <1>1. Init => IInv
    BY InvInit
  <1>2. IInv /\ [Next]_vars => IInv'
    BY InvStep
  <1> QED
    BY <1>1, <1>2, PTL DEF Spec

\* Whichever way a test ends, the defer list is empty when the next test
\* begins and the trace is open only while its defer is due, an abort's too;
\* logging and the status line stay on as long as LOG's and STATUS's are due.
THEOREM Undone ==
  ASSUME Declared
  PROVE  Spec => []Balanced
  <1>1. IInv => Balanced
    <2> SUFFICES ASSUME IInv PROVE Balanced
      OBVIOUS
    <2>1. \A q : Pending(q) <=>
            q \in {defer_list[k] : k \in 1 .. IF pc \in Unwinding THEN left
                                             ELSE Len(defer_list)}
      BY DEF Pending
    <2>2. /\ _fst_tfp \in BOOLEAN
          /\ _fst_tfp <=> Pending("TRACE")
          /\ Pending("STATUS") => _ctx.status_enabled
      BY DEF IInv, SwitchInv
    <2>3. pc = "test" => defer_list = <<>>
      BY DEF IInv, BenchInv, InTest, Unwinding
    <2>4. Pending("LOG") => _ctx.log_enabled
      <3>1. pc \notin InTest => ~Pending("LOG")
        <4> SUFFICES ASSUME pc \notin InTest PROVE ~Pending("LOG")
          OBVIOUS
        <4>1. Len(defer_list) = 0 /\ pc \notin Unwinding
          BY DEF IInv, BenchInv, InTest
        <4> QED
          BY <4>1 DEF Pending
      <3> QED
        BY <3>1 DEF IInv, SwitchInv
    <2> QED
      BY <2>1, <2>2, <2>3, <2>4 DEF Balanced, Unwinding
  <1>2. Spec => []IInv
    BY Invariance
  <1> QED
    BY <1>1, <1>2, PTL

\* What is printed of each test is its outcome, unless the test itself or one
\* before it used the LOG plugin.
THEOREM Printed ==
  ASSUME Declared
  PROVE  Spec => []Verdicts
  <1>1. IInv => Verdicts
    BY DEF IInv, VerdictInv, Verdicts, Due, Outcome
  <1>2. Spec => []IInv
    BY Invariance
  <1> QED
    BY <1>1, <1>2, PTL

\* A flag is freed only after its owner has raised it, so that the owner never
\* writes into freed memory.
THEOREM FlagsLive ==
  ASSUME Declared
  PROVE  Spec => []FlagLives
  <1>1. IInv => FlagLives
    BY DEF IInv, WorkersInv, FlagLives
  <1>2. Spec => []IInv
    BY Invariance
  <1> QED
    BY <1>1, <1>2, PTL
=============================================================================
