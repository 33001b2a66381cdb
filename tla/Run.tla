--------------------------------- MODULE Run ---------------------------------
(***************************************************************************)
(* conflictgraph run (execute in controlplane/cmd/conflictgraph/main.go):  *)
(* the setup, Executor.Execute, and the row of the run in PostgreSQL       *)
(* (controlplane/internal/store/postgres.go).                              *)
(*                                                                         *)
(* The setup is a list of calls that succeed or fail; what Build does is   *)
(* the subject of Scheduler.  A statement that fails has no effect on the  *)
(* database.  The command passes failFast = false, so the only             *)
(* cancellation is a signal.                                               *)
(***************************************************************************)
EXTENDS Executor

VARIABLES
    stage,      \* the call execute is making
    row,        \* status of the row of this run ("absent" before CreateRun)
    exit        \* exit of the command: "none", "zero" or "nonzero"

runVars == <<stage, row, exit>>
allVars == <<vars, runVars>>

\* The calls of the setup, in order.
Setup == <<"Open", "Collect", "predictionsForTests", "SaveTests", "CreateRun",
           "configuredScheduler", "Build", "SavePredictions", "SaveSchedule", "NewCgroupTracer">>

\* The calls that take the context of the command.
TakesContext == {"Open", "Collect", "SaveTests", "CreateRun", "SavePredictions", "SaveSchedule"}

\* Faulty set: a statement that fails is returned as it is.
RecordsPlanning == {"configuredScheduler", "Build"}

\* The calls whose failure goes through failRun.
RecordsFailure == {"configuredScheduler", "Build", "SavePredictions", "SaveSchedule"}

RunInit ==
    /\ Init
    /\ failFast = FALSE
    /\ stage = Setup[1]
    /\ row = "absent"
    /\ exit = "none"

After(i) ==
    IF i = Len(Setup) THEN "Execute" ELSE Setup[i + 1]

SetupSucceeds(i) ==
    /\ stage = Setup[i]
    /\ stage \in TakesContext => ctx = "live"
    /\ stage' = After(i)
    /\ row' = IF stage = "CreateRun" THEN "RUNNING" ELSE row
    /\ UNCHANGED <<vars, exit>>

\* The tracer is made in ebpf mode only.
SetupFails(i) ==
    /\ stage = Setup[i]
    /\ stage = "NewCgroupTracer" => traced
    /\ IF stage \in RecordsFailure
       THEN stage' = "failRun" /\ UNCHANGED exit
       ELSE stage' = "exited" /\ exit' = "nonzero"
    /\ UNCHANGED <<vars, row>>

\* failRun: FinishRun(FAILED) under a fresh context, then the error.
FailRun ==
    /\ stage = "failRun"
    /\ row' \in {"FAILED", row}
    /\ stage' = "exited"
    /\ exit' = "nonzero"
    /\ UNCHANGED vars

\* Execute runs.
Executing ==
    /\ stage = "Execute"
    /\ ExecuteStep
    /\ UNCHANGED runVars

\* A signal before or after Execute cancels the same context.
Signal ==
    /\ stage \notin {"Execute", "exited"}
    /\ Interrupt
    /\ UNCHANGED runVars

ExecuteReturned ==
    /\ stage = "Execute"
    /\ returned
    /\ stage' = "FinishRun"
    /\ UNCHANGED <<vars, row, exit>>

\* Faulty outcome: only the errors of Execute count.
ErrorsOnly == IF errors # {} THEN "FAILED" ELSE "COMPLETED"

\* FAILED when Execute returned an error or a test did not pass.
FinalStatus ==
    IF errors # {} \/ \E r \in results : r.status # "PASSED" THEN "FAILED" ELSE "COMPLETED"

\* Faulty exit: a failed test is not an error of the command.
ExitIgnoresTests ==
    /\ stage = "FinishRun"
    /\ \/ row' = FinalStatus /\ exit' = IF errors # {} THEN "nonzero" ELSE "zero"
       \/ UNCHANGED row /\ exit' = "nonzero"
    /\ stage' = "exited"
    /\ UNCHANGED vars

FinishRun ==
    /\ stage = "FinishRun"
    /\ \/ row' = FinalStatus /\ exit' = IF FinalStatus = "FAILED" THEN "nonzero" ELSE "zero"
       \/ UNCHANGED row /\ exit' = "nonzero"
    /\ stage' = "exited"
    /\ UNCHANGED vars

Exited == stage = "exited" /\ UNCHANGED allVars

RunNext ==
    \/ \E i \in DOMAIN Setup : SetupSucceeds(i) \/ SetupFails(i)
    \/ FailRun
    \/ Signal
    \/ Executing
    \/ ExecuteReturned
    \/ FinishRun
    \/ Exited

RunSpec == RunInit /\ [][RunNext]_allVars

\* Nothing bounds a call to the database or to pytest's collection, so these are
\* not assumed to return.  The main goroutine and the workers keep running
\* otherwise (the messages to the tracer have a deadline of two seconds), the
\* timer of an execution fires and os/exec acts on it.  Neither a test nor a
\* descendant need end by itself.
Unbounded == TakesContext \cup {"failRun", "FinishRun"}

MainGoroutine ==
    \/ stage \notin Unbounded /\ \E i \in DOMAIN Setup : SetupSucceeds(i) \/ SetupFails(i)
    \/ stage = "Execute" /\ Return /\ UNCHANGED runVars
    \/ ExecuteReturned

RunFairSpec ==
    /\ RunSpec
    /\ WF_allVars(MainGoroutine)
    /\ \A w \in Lanes :
          /\ WF_allVars(stage = "Execute" /\ pc[w] # "save" /\ Work(w) /\ UNCHANGED runVars)
          /\ WF_allVars(stage = "Execute" /\ Timeout(w) /\ UNCHANGED runVars)
          /\ WF_allVars(stage = "Execute" /\ WatchKills(w) /\ UNCHANGED runVars)
-----------------------------------------------------------------------------
(***************************************************************************)
(* Properties.                                                             *)
(***************************************************************************)

\* Type invariant of the command.
RunTypeOK ==
    /\ TypeOK
    /\ stage \in ToSet(Setup) \cup {"failRun", "Execute", "FinishRun", "exited"}
    /\ row \in {"absent", "RUNNING", "COMPLETED", "FAILED"}
    /\ exit \in {"none", "zero", "nonzero"}

Passed(t) == [test |-> t, status |-> "PASSED"] \in results

\* A run is COMPLETED, or exits with success, only if every scheduled test
\* passed and was stored, or if a signal arrived: an interrupted run may be
\* COMPLETED with tests that never ran.
CompletedMeansPassed ==
    row = "COMPLETED" \/ exit = "zero" =>
        ctx = "cancelled" \/ \A t \in Queued : Passed(t) /\ t \in saved

\* A test whose subprocess failed makes the run fail and the command exit with
\* an error (docs/architecture.md:24), interrupted or not.
TestFailureFailsRun ==
    stage = "exited" /\ (\E t \in Tests : leader[t] \in {"fail", "lost", "killed"}) =>
        row # "COMPLETED" /\ exit = "nonzero"

\* The exit code and the row agree, whatever the database did.
ExitMatchesRow ==
    /\ exit = "zero" => row = "COMPLETED"
    /\ stage = "exited" /\ row = "COMPLETED" => exit = "zero"

\* The status of a row never changes once the run is over, and never goes back;
\* a row is COMPLETED only when no test process is running any more.
RowMovesForward ==
    [][/\ row' # row => <<row, row'>> \in {<<"absent", "RUNNING">>, <<"RUNNING", "FAILED">>,
                                           <<"RUNNING", "COMPLETED">>}
       /\ row' = "COMPLETED" => \A t \in Tests : leader[t] # "running"]_allVars

\* A worker waits for a process that holds the output pipes of a test which
\* has exited; nobody watches the context or the timeout any more
\* (pytest.go:239).
PipesHeld(w) == pc[w] \in {"drain", "abortDrain"} /\ family[Current(w)] = "pipe"

\* The command waits for something the code does not bound.
WaitsForOthers ==
    \/ stage \in Unbounded
    \/ stage = "Execute" /\ \E w \in Lanes : pc[w] = "save" \/ PipesHeld(w)

\* The command ends and leaves no test running (a test that never ends by itself
\* is stopped by its timeout, or earlier by a cancellation, and a failure at any
\* step blocks nobody), or it waits for ever for the database, for the
\* collection, or for a process that holds the pipes of an exited test.
RunEnds ==
    \/ <>(stage = "exited" /\ \A t \in Tests : leader[t] # "running")
    \/ <>[]WaitsForOthers

\* A command that ends leaves its row RUNNING only if the update that should
\* close it failed, or if the tracer could not be made: that error is returned
\* without failRun (main.go:214-217), although execution failures are to be
\* recorded once the row exists (docs/architecture.md:23).
RowIsClosed ==
    [][stage' = "exited" /\ row' = "RUNNING" =>
          stage \in {"failRun", "FinishRun", "NewCgroupTracer"}]_allVars
=============================================================================
