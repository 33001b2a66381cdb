------------------------------ MODULE RunProofs ------------------------------
(***************************************************************************)
(* Proofs about Run: the row in the database and the exit code of the      *)
(* command tell the truth about the tests, for every number of workers and *)
(* tests, wherever a signal or a failure of the database strikes.          *)
(*                                                                         *)
(* The invariant of Execute carries over, because the command only reads   *)
(* its state; what is added is which row goes with which call.             *)
(***************************************************************************)
EXTENDS Run, ExecutorProofs

BeforeRow == {"Open", "Collect", "predictionsForTests", "SaveTests", "CreateRun"}
WithRow == {"configuredScheduler", "Build", "SavePredictions", "SaveSchedule", "NewCgroupTracer"}

\* The row and the exit at every call of execute.
RowInv ==
    /\ stage \in BeforeRow => row = "absent"
    /\ stage \in WithRow \cup {"failRun", "Execute", "FinishRun"} => row = "RUNNING"
    /\ stage # "exited" => exit = "none"
    /\ stage = "exited" => exit # "none" /\ (exit = "zero" <=> row = "COMPLETED")

\* What the tests have done at every call of execute.
TestsInv ==
    /\ stage \in BeforeRow \cup WithRow \cup {"failRun"} => \A t \in Tests : leader[t] = "none"
    /\ stage = "FinishRun" => returned
    /\ row = "COMPLETED" =>
          stage = "exited" /\ returned /\ errors = {} /\ \A r \in results : r.status = "PASSED"
    /\ stage = "exited" => returned \/ \A t \in Tests : leader[t] = "none"

RunInv == Inv /\ RunTypeOK /\ RowInv /\ TestsInv
-----------------------------------------------------------------------------
\* The calls of the setup follow one another; the row exists from CreateRun on.
LEMMA SetupSteps ==
    /\ ToSet(Setup) = BeforeRow \cup WithRow
    /\ \A i \in DOMAIN Setup :
          /\ Setup[i] \in BeforeRow \cup WithRow
          /\ Setup[i] \in BeforeRow \ {"CreateRun"} => After(i) \in BeforeRow
          /\ Setup[i] \in WithRow \cup {"CreateRun"} => After(i) \in WithRow \cup {"Execute"}
          /\ After(i) = "Execute" => Setup[i] = "NewCgroupTracer"
<1>1. DOMAIN Setup = 1 .. 10 /\ Len(Setup) = 10
  BY DEF Setup
<1>2. /\ Setup[1] = "Open" /\ Setup[2] = "Collect" /\ Setup[3] = "predictionsForTests" /\ Setup[4] = "SaveTests"
      /\ Setup[5] = "CreateRun" /\ Setup[6] = "configuredScheduler" /\ Setup[7] = "Build"
      /\ Setup[8] = "SavePredictions" /\ Setup[9] = "SaveSchedule" /\ Setup[10] = "NewCgroupTracer"
  BY DEF Setup
<1>3. ToSet(Setup) = {Setup[i] : i \in 1 .. 10}
  BY <1>1 DEF ToSet
<1>4. \A i \in 1 .. 10 : i \in {1, 2, 3, 4, 5, 6, 7, 8, 9, 10}
  OBVIOUS
<1>5. ToSet(Setup) = BeforeRow \cup WithRow
  BY <1>2, <1>3, <1>4 DEF BeforeRow, WithRow
<1>6. ASSUME NEW i \in DOMAIN Setup
      PROVE  /\ Setup[i] \in BeforeRow \cup WithRow
             /\ Setup[i] \in BeforeRow \ {"CreateRun"} => After(i) \in BeforeRow
             /\ Setup[i] \in WithRow \cup {"CreateRun"} => After(i) \in WithRow \cup {"Execute"}
             /\ After(i) = "Execute" => Setup[i] = "NewCgroupTracer"
  <2>1. After(i) = IF i = 10 THEN "Execute" ELSE Setup[i + 1]
    BY <1>1 DEF After
  <2> QED
    BY <1>1, <1>2, <1>4, <2>1 DEF BeforeRow, WithRow
<1> QED
  BY <1>5, <1>6

\* A step of the command takes Execute a step further, or leaves it alone.
LEMMA RunStepExecutes == [RunNext]_allVars => [Next]_vars
  BY DEF RunNext, SetupSucceeds, SetupFails, FailRun, Signal, Executing, ExecuteReturned, FinishRun, Exited,
         Next, ExecuteStep, Environment, allVars

\* An interruption of the setup starts nothing.
LEMMA SignalKeepsTests == Signal => leader' = leader /\ returned' = returned
  BY DEF Signal, Interrupt, processes

\* The invariant holds when the run command starts.
LEMMA RunInitInv == RunInit => RunInv
<1> SUFFICES ASSUME RunInit PROVE RunInv
  OBVIOUS
<1>1. Inv /\ TypeOK
  BY InitInv DEF RunInit, Inv
<1>2. stage = "Open" /\ row = "absent" /\ exit = "none" /\ \A t \in Tests : leader[t] = "none"
  BY DEF RunInit, Setup, Init
<1> QED
  BY <1>1, <1>2, SetupSteps DEF RunInv, RunTypeOK, RowInv, TestsInv, BeforeRow, WithRow

\* Every step of the command keeps the invariant.
LEMMA RunStepInv == RunInv /\ [RunNext]_allVars => RunInv'
<1> SUFFICES ASSUME RunInv, [RunNext]_allVars PROVE RunInv'
  OBVIOUS
<1>1. Inv' /\ TypeOK'
  BY RunStepExecutes, StepInv DEF RunInv, Inv
<1>2. ASSUME NEW i \in DOMAIN Setup, SetupSucceeds(i) PROVE RunInv'
  <2>1. /\ stage = Setup[i] /\ stage' = After(i) /\ row' = IF stage = "CreateRun" THEN "RUNNING" ELSE row
        /\ exit' = exit /\ leader' = leader
    BY <1>2 DEF SetupSucceeds, vars, processes
  <2>2. /\ stage \in BeforeRow \cup WithRow
        /\ stage \in BeforeRow \ {"CreateRun"} => stage' \in BeforeRow
        /\ stage \in WithRow \cup {"CreateRun"} => stage' \in WithRow \cup {"Execute"}
    BY <2>1, SetupSteps
  <2> QED
    BY <1>1, <2>1, <2>2, SetupSteps DEF RunInv, RunTypeOK, RowInv, TestsInv, BeforeRow, WithRow
<1>3. ASSUME NEW i \in DOMAIN Setup, SetupFails(i) PROVE RunInv'
  <2>1. /\ stage \in BeforeRow \cup WithRow /\ row' = row /\ leader' = leader
        /\ \/ stage \in RecordsFailure /\ stage' = "failRun" /\ exit' = exit
           \/ stage' = "exited" /\ exit' = "nonzero"
    BY <1>3, SetupSteps DEF SetupFails, vars, processes
  <2> QED
    BY <1>1, <2>1, SetupSteps DEF RunInv, RunTypeOK, RowInv, TestsInv, BeforeRow, WithRow, RecordsFailure
<1>4. CASE FailRun
  <2>1. /\ stage = "failRun" /\ row' \in {"FAILED", row} /\ stage' = "exited" /\ exit' = "nonzero"
        /\ leader' = leader
    BY <1>4 DEF FailRun, vars, processes
  <2> QED
    BY <1>1, <2>1, SetupSteps DEF RunInv, RunTypeOK, RowInv, TestsInv, BeforeRow, WithRow
<1>5. CASE Signal
  <2>1. stage # "exited" /\ UNCHANGED <<stage, row, exit, leader, returned>>
    BY <1>5, SignalKeepsTests DEF Signal, runVars
  <2> QED
    BY <1>1, <2>1 DEF RunInv, RunTypeOK, RowInv, TestsInv
<1>6. CASE Executing
  <2>1. stage = "Execute" /\ UNCHANGED <<stage, row, exit>>
    BY <1>6 DEF Executing, runVars
  <2> QED
    BY <1>1, <2>1 DEF RunInv, RunTypeOK, RowInv, TestsInv, BeforeRow, WithRow
<1>7. CASE ExecuteReturned
  <2>1. stage = "Execute" /\ stage' = "FinishRun" /\ row' = row /\ exit' = exit /\ returned /\ returned' = returned
    BY <1>7 DEF ExecuteReturned, vars
  <2> QED
    BY <1>1, <2>1 DEF RunInv, RunTypeOK, RowInv, TestsInv, BeforeRow, WithRow
<1>8. CASE FinishRun
  <2>1. /\ stage = "FinishRun" /\ stage' = "exited" /\ returned' = returned /\ errors' = errors /\ results' = results
        /\ \/ row' = FinalStatus /\ exit' = IF FinalStatus = "FAILED" THEN "nonzero" ELSE "zero"
           \/ row' = row /\ exit' = "nonzero"
    BY <1>8 DEF FinishRun, vars, channels
  <2>2. /\ FinalStatus \in {"FAILED", "COMPLETED"}
        /\ FinalStatus = "COMPLETED" => errors = {} /\ \A r \in results : r.status = "PASSED"
    BY DEF FinalStatus
  <2>3. returned /\ row = "RUNNING"
    BY <2>1 DEF RunInv, RowInv, TestsInv
  <2> QED
    BY <1>1, <2>1, <2>2, <2>3 DEF RunInv, RunTypeOK, RowInv, TestsInv, BeforeRow, WithRow
<1>9. CASE UNCHANGED allVars
  <2>1. UNCHANGED <<stage, row, exit, leader, returned, errors, results>>
    BY <1>9 DEF allVars, vars, runVars, processes, channels
  <2> QED
    BY <1>1, <2>1 DEF RunInv, RunTypeOK, RowInv, TestsInv
<1> QED
  BY <1>2, <1>3, <1>4, <1>5, <1>6, <1>7, <1>8, <1>9 DEF RunNext, Exited
-----------------------------------------------------------------------------
\* The invariant of the command: the row and the exit that go with each call.
THEOREM RunInvariant == RunSpec => []RunInv
  BY RunInitInv, RunStepInv, PTL DEF RunSpec

\* The command keeps its state, and that of Execute, well typed.
THEOREM RunTypeCorrect == RunSpec => []RunTypeOK
<1>1. RunInv => RunTypeOK
  BY DEF RunInv
<1> QED
  BY <1>1, RunInvariant, PTL

\* COMPLETED, and success, mean that every scheduled test passed and was
\* stored, unless a signal arrived.
THEOREM CompletedRunsPassed == RunSpec => []CompletedMeansPassed
<1>1. RunInv => CompletedMeansPassed
  <2> SUFFICES ASSUME RunInv, row = "COMPLETED" \/ exit = "zero", ctx # "cancelled", NEW t \in Queued
               PROVE  Passed(t) /\ t \in saved
    BY DEF CompletedMeansPassed
  <2>1. returned /\ errors = {} /\ \A r \in results : r.status = "PASSED"
    BY DEF RunInv, RowInv, TestsInv
  <2>2. t \in Tests
    BY QueueFacts DEF RunInv, Inv
  <2>3. Settled(t)
    BY <2>1, <2>2, FinishedTests DEF RunInv, Inv
  <2>4. PICK r \in results : r.test = t
    BY <2>1, <2>3 DEF Settled, HasResult, Reported
  <2>5. r = [test |-> t, status |-> "PASSED"]
    BY <2>1, <2>4 DEF RunInv, RunTypeOK, TypeOK
  <2> QED
    BY <2>1, <2>3, <2>4, <2>5 DEF Passed, Settled, Stored
<1> QED
  BY <1>1, RunInvariant, PTL

\* A test that failed, was lost or was killed fails the run, interrupted or not.
THEOREM FailuresFailRun == RunSpec => []TestFailureFailsRun
<1>1. RunInv => TestFailureFailsRun
  <2> SUFFICES ASSUME RunInv, stage = "exited", NEW t \in Tests, leader[t] \in {"fail", "lost", "killed"}
               PROVE  row # "COMPLETED" /\ exit = "nonzero"
    BY DEF TestFailureFailsRun
  <2>1. returned
    BY DEF RunInv, TestsInv
  <2>2. Settled(t)
    BY <2>1, FinishedTests DEF RunInv, Inv, Fresh
  <2>3. errors # {} \/ \E r \in results : r.test = t
    BY <2>2 DEF Settled, HasResult, Reported
  <2>4. ASSUME NEW r \in results, r.test = t PROVE r.status # "PASSED"
    BY <2>4 DEF RunInv, Inv, VerdictIsEarned
  <2>5. row # "COMPLETED"
    BY <2>3, <2>4 DEF RunInv, TestsInv
  <2> QED
    BY <2>5 DEF RunInv, RunTypeOK, RowInv
<1> QED
  BY <1>1, RunInvariant, PTL

\* The exit code and the row agree.
THEOREM ExitsMatchRows == RunSpec => []ExitMatchesRow
<1>1. RunInv => ExitMatchesRow
  BY DEF RunInv, RowInv, ExitMatchesRow
<1> QED
  BY <1>1, RunInvariant, PTL

\* The status of the row only moves forward, and becomes COMPLETED when no test
\* is running any more.
THEOREM RowsMoveForward == RunSpec => RowMovesForward
<1> DEFINE Forward == /\ row' # row => <<row, row'>> \in {<<"absent", "RUNNING">>, <<"RUNNING", "FAILED">>,
                                                         <<"RUNNING", "COMPLETED">>}
                      /\ row' = "COMPLETED" => \A t \in Tests : leader[t] # "running"
<1>1. RunInv /\ RunInv' /\ [RunNext]_allVars => [Forward]_allVars
  <2> SUFFICES ASSUME RunInv, RunInv', RunNext, ~UNCHANGED allVars PROVE Forward
    BY DEF RunNext, Exited
  <2>1. row' # row => <<row, row'>> \in {<<"absent", "RUNNING">>, <<"RUNNING", "FAILED">>,
                                         <<"RUNNING", "COMPLETED">>}
    <3>1. ASSUME NEW i \in DOMAIN Setup, SetupSucceeds(i), row' # row PROVE row = "absent" /\ row' = "RUNNING"
      BY <3>1 DEF SetupSucceeds, RunInv, RowInv, BeforeRow
    <3>2. ASSUME FailRun, row' # row PROVE row = "RUNNING" /\ row' = "FAILED"
      BY <3>2 DEF FailRun, RunInv, RowInv
    <3>3. ASSUME FinishRun, row' # row PROVE row = "RUNNING" /\ row' \in {"FAILED", "COMPLETED"}
      BY <3>3 DEF FinishRun, FinalStatus, RunInv, RowInv
    <3> QED
      BY <3>1, <3>2, <3>3 DEF RunNext, SetupFails, Signal, Executing, ExecuteReturned, Exited, runVars, allVars
  <2>2. ASSUME row' = "COMPLETED" PROVE \A t \in Tests : leader[t] # "running"
    <3>1. returned
      <4>1. returned \/ row # "COMPLETED"
        BY DEF RunInv, TestsInv
      <4>2. row # "COMPLETED" => stage = "FinishRun"
        BY <2>2 DEF RunNext, SetupSucceeds, SetupFails, FailRun, Signal, Executing, ExecuteReturned, FinishRun,
                    Exited, runVars, allVars
      <4> QED
        BY <4>1, <4>2 DEF RunInv, TestsInv
    <3> QED
      BY <3>1, FinishedTests DEF RunInv, Inv, Settled, Fresh
  <2> QED
    BY <2>1, <2>2
<1>2. RunSpec => [][Forward]_allVars
  BY <1>1, RunInvariant, PTL DEF RunSpec
<1> QED
  BY <1>2 DEF RowMovesForward

\* An exit leaves the row RUNNING only after a failed update or a failed
\* NewCgroupTracer: before CreateRun there is no row, and every other failure
\* after it goes through failRun.
THEOREM RowsAreClosed == RunSpec => RowIsClosed
<1> DEFINE Closed == stage' = "exited" /\ row' = "RUNNING" => stage \in {"failRun", "FinishRun", "NewCgroupTracer"}
<1>1. RunInv /\ [RunNext]_allVars => [Closed]_allVars
  <2> SUFFICES ASSUME RunInv, RunNext, ~UNCHANGED allVars, stage' = "exited", row' = "RUNNING"
               PROVE  stage \in {"failRun", "FinishRun", "NewCgroupTracer"}
    OBVIOUS
  <2>1. ASSUME NEW i \in DOMAIN Setup, SetupSucceeds(i) PROVE FALSE
    <3>1. stage' = After(i) /\ stage = Setup[i]
      BY <2>1 DEF SetupSucceeds
    <3> QED
      BY <3>1, SetupSteps DEF BeforeRow, WithRow
  <2>2. ASSUME NEW i \in DOMAIN Setup, SetupFails(i) PROVE stage = "NewCgroupTracer"
    <3>1. stage \in BeforeRow \cup WithRow /\ stage \notin RecordsFailure /\ row = "RUNNING"
      BY <2>2, SetupSteps DEF SetupFails
    <3> QED
      BY <3>1 DEF RunInv, RowInv, BeforeRow, WithRow, RecordsFailure
  <2>3. CASE FailRun \/ FinishRun
    BY <2>3 DEF FailRun, FinishRun
  <2>4. CASE Signal \/ Executing \/ ExecuteReturned \/ Exited
    BY <2>4 DEF Signal, Executing, ExecuteReturned, Exited, runVars
  <2> QED
    BY <2>1, <2>2, <2>3, <2>4 DEF RunNext
<1>2. RunSpec => [][Closed]_allVars
  BY <1>1, RunInvariant, PTL DEF RunSpec
<1> QED
  BY <1>2 DEF RowIsClosed
=============================================================================
