------------------------------- MODULE TestRun -------------------------------
(***************************************************************************)
(* What an executor promises about the tests of a run, whatever workers,   *)
(* timeouts, fail-fast and interruptions do: a test is started at most     *)
(* once, its process ends once, it is given at most one verdict, no        *)
(* verdict is revised, and a verdict agrees with how the process ended.    *)
(***************************************************************************)
CONSTANT Tests

VARIABLES
    process,   \* per test: "none", "alive", or how it ended
    verdict    \* per test: "none" or the status reported for it

testVars == <<process, verdict>>

Endings == {"ok", "bad", "killed"}
Verdicts == {"PASSED", "FAILED", "TIMED_OUT", "INFRA_ERROR"}

\* Verdicts that may be reported of a process in state p.  A process that is
\* killed because its time is up may have been about to end by itself.
Fitting(p) ==
    CASE p = "none" -> {"INFRA_ERROR"}
      [] p = "alive" -> {}
      [] p = "ok" -> {"PASSED", "TIMED_OUT"}
      [] p = "bad" -> {"FAILED", "TIMED_OUT"}
      [] p = "killed" -> {"TIMED_OUT"}

RunInit ==
    /\ process = [t \in Tests |-> "none"]
    /\ verdict = [t \in Tests |-> "none"]

Start(t) ==
    /\ process[t] = "none" /\ verdict[t] = "none"
    /\ process' = [process EXCEPT ![t] = "alive"]
    /\ UNCHANGED verdict

EndProcess(t, how) ==
    /\ process[t] = "alive"
    /\ process' = [process EXCEPT ![t] = how]
    /\ UNCHANGED verdict

Report(t, v) ==
    /\ verdict[t] = "none"
    /\ v \in Fitting(process[t])
    /\ verdict' = [verdict EXCEPT ![t] = v]
    /\ UNCHANGED process

\* One step starts, ends or reports one test.
RunNext ==
    \/ \E t \in Tests : Start(t)
    \/ \E t \in Tests, how \in Endings : EndProcess(t, how)
    \/ \E t \in Tests, v \in Verdicts : Report(t, v)

RunSpec == RunInit /\ [][RunNext]_testVars
=============================================================================
