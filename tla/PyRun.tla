-------------------------------- MODULE PyRun --------------------------------
(***************************************************************************)
(* The command "conflictgraph run" of the Python package                   *)
(* (python/conflictgraph/cli.py, run_tests): configuration (config.py),    *)
(* collection, predictions of the latest graph (storage.py), schedule,     *)
(* execution (PyExecutor) and the run artifact.                            *)
(*                                                                         *)
(* A number of the configuration is a record [type, value], since a text   *)
(* may stand in its place; fractions are in thousandths.  The schedule is  *)
(* any plan with every test once: that is what PyScheduler is checked for. *)
(***************************************************************************)
EXTENDS PyExecutor

CONSTANTS
    Contexts   \* surroundings a call may have: records of
               \*   file: what the configuration path holds
               \*   environment: fields set by CONFLICTGRAPH_... variables
               \*   linux: the host's platform
               \*   options: command line options [workers, timeout]
               \*   collection: the outcome of pytest --collect-only
               \*   graph: what artifacts/graphs/latest.json holds

ASSUME PyRunAssumption == \A c \in Contexts : c.collection.found \subseteq Tests

MaxWorkers == 1024

VARIABLES
    context,     \* the surroundings of this call
    phase,       \* what run_tests is doing
    tests,       \* collected tests
    predictions, \* predictions for collected tests
    temporary,   \* runs/<id>.tmp
    artifact,    \* runs/<id>.json
    exit         \* how the command ended

runVars == <<context, phase, tests, predictions, temporary, artifact, exit, execVars>>

None == [status |-> "none", passed |-> {}]

(***************************************************************************)
(* Config.                                                                 *)
(***************************************************************************)

Number(n) == [type |-> "int", value |-> n]
Text == [type |-> "text", value |-> 0]

\* parses: the risk policy and the seed convert, and the sections hold no
\* fields but their own.  Some fields of sections that no check reads are left
\* out.
Defaults ==
    [version |-> Number(1), workers |-> Number(4), parses |-> TRUE,
     mode |-> "replay", redact_paths |-> FALSE, hash_salt |-> "",
     minimum_quality |-> Number(800), risk_weight |-> Number(2000),
     hard_threshold |-> Number(900), refinement_rounds |-> Number(4),
     default_no_edge_risk |-> Number(1), artifact |-> "artifacts/model",
     artifact_dir |-> "artifacts", database_url |-> "postgresql", api_address |-> "localhost"]

\* load_config: the file, or the packaged example for an absent default one
\* (its salt and its address are others, which no check tells apart).
Source ==
    IF context.file.state = "absent" /\ context.file.default
    THEN [state |-> "mapping", unknown |-> FALSE, fields |-> Defaults]
    ELSE context.file

\* apply_environment: variables override the file.
Configured == context.environment @@ Source.fields

Fractions == {"minimum_quality", "hard_threshold", "default_no_edge_risk"}
SectionNumbers == Fractions \cup {"risk_weight", "refinement_rounds"}
RequiredTexts == {"artifact_dir", "artifact", "database_url", "api_address"}

\* Config.validate, once the fields it compares are numbers.
Problems ==
    \/ Configured.version.value # 1
    \/ Configured.workers.value \notin 1 .. MaxWorkers
    \/ Configured.mode \notin {"ebpf", "replay", "disabled"}
    \/ Configured.mode = "ebpf" /\ ~context.linux
    \/ Configured.redact_paths /\ Configured.hash_salt = ""
    \/ \E f \in SectionNumbers : Configured[f].value < 0
    \/ \E f \in Fractions : Configured[f].value > 1000
    \/ \E f \in RequiredTexts : Configured[f] = ""

\* Outcome of load_config: "ok", "refused" (a ConfigurationError) or "crash".
\* Top-level fields are converted; the values of a section are not, so a text
\* that validate compares with a number raises TypeError.
Loaded ==
    IF Source.state # "mapping" \/ Source.unknown \/ ~Source.fields.parses THEN "refused"
    ELSE IF Text \in {Source.fields.version, Source.fields.workers, Configured.workers} THEN "refused"
    ELSE IF \E f \in SectionNumbers : Configured[f] = Text THEN "crash"
    ELSE IF Problems THEN "refused"
    ELSE "ok"

\* _worker_count: the option, else the configuration.
RequestedWorkers ==
    IF context.options.workers.type = "unset" THEN Configured.workers.value ELSE context.options.workers.value

\* The schedules of the tests S on n workers.
Plans(S, n) ==
    LET lists == UNION {[1 .. k -> S] : k \in 0 .. Cardinality(S)}
        places(plan, t) == {p \in Lanes \X (1 .. Cardinality(S)) :
                                 p[2] <= Len(plan[p[1]]) /\ plan[p[1]][p[2]] = t}
    IN  {plan \in [Lanes -> lists] :
            /\ \A w \in Lanes : w >= n => plan[w] = <<>>
            /\ \A t \in S : Cardinality(places(plan, t)) = 1}
-----------------------------------------------------------------------------
RunInit ==
    /\ ExecInit
    /\ context \in Contexts
    /\ phase = "load"
    /\ tests = {}
    /\ predictions = {}
    /\ temporary = None
    /\ artifact = None
    /\ exit = "none"

Proceed(next) == phase' = next /\ UNCHANGED exit
Leave(how) == phase' = "over" /\ exit' = how

\* A ConflictGraphError or a bad parameter ends the command with "error".
LoadConfig ==
    /\ phase = "load"
    /\ CASE Loaded = "ok" /\ context.options.timeout > 0 -> Proceed("collect")
         [] Loaded = "crash" -> Leave("crash")
         [] OTHER -> Leave("error")
    /\ UNCHANGED <<context, tests, predictions, temporary, artifact, execVars>>

\* PytestAdapter.collect: pytest could not run, failed, found nothing it can
\* name, or found tests (none at all when it says so with code 5).
Collect ==
    /\ phase = "collect"
    /\ IF /\ context.collection.ran
          /\ context.collection.code \in {0, 5}
          /\ context.collection.found # {} \/ context.collection.code = 5
       THEN Proceed("predict") /\ tests' = context.collection.found
       ELSE Leave("error") /\ UNCHANGED tests
    /\ UNCHANGED <<context, predictions, temporary, artifact, execVars>>

\* Predictions of the latest graph; those of unknown tests are left out.  A
\* torn file or a malformed prediction fails the command.
LoadPredictions ==
    /\ phase = "predict"
    /\ CASE context.graph.state = "absent" -> Proceed("schedule") /\ UNCHANGED predictions
         [] context.graph.state = "object" /\ context.graph.valid ->
               /\ Proceed("schedule")
               /\ predictions' = {p \in context.graph.pairs : p \subseteq tests}
         [] OTHER -> Leave("error") /\ UNCHANGED predictions
    /\ UNCHANGED <<context, tests, temporary, artifact, execVars>>

\* The worker count is checked, the schedule built and execute entered.
ScheduleAndBegin ==
    /\ phase = "schedule"
    /\ IF RequestedWorkers \in 1 .. MaxWorkers
       THEN /\ Proceed("execute")
            /\ \E plan \in Plans(tests, RequestedWorkers) : Begin(plan)
       ELSE Leave("error") /\ UNCHANGED execVars
    /\ UNCHANGED <<context, tests, predictions, temporary, artifact>>

Executing(step) ==
    /\ phase = "execute"
    /\ step
    /\ UNCHANGED <<context, phase, tests, predictions, temporary, artifact, exit>>

\* execute raised: the command was interrupted.
ExecuteRaised ==
    /\ phase = "execute"
    /\ main = "raised"
    /\ Leave("crash")
    /\ UNCHANGED <<context, tests, predictions, temporary, artifact, execVars>>

PassedIn(rs) == {rs[i].test : i \in {j \in DOMAIN rs : rs[j].status = "PASSED"}}

\* Faulty summary: failures are counted, and only FAILED is a failure.
CountFailed ==
    [status |-> IF \E i \in DOMAIN results : results[i].status = "FAILED" THEN "FAILED" ELSE "COMPLETED",
     passed |-> PassedIn(results)]

\* The artifact: COMPLETED when as many results passed as there are.
Summary ==
    [status |-> IF Cardinality(PassedIn(results)) = Len(results) THEN "COMPLETED" ELSE "FAILED",
     passed |-> PassedIn(results)]

\* ArtifactStore.save writes a temporary file; that may fail.
WriteTemporary ==
    /\ phase = "execute"
    /\ main = "returned"
    /\ \/ Proceed("replace") /\ temporary' = Summary
       \/ Leave("crash") /\ UNCHANGED temporary
    /\ UNCHANGED <<context, tests, predictions, artifact, execVars>>

\* The temporary file replaces the artifact, and the exit status is chosen.
ReplaceArtifact ==
    /\ phase = "replace"
    /\ artifact' = temporary
    /\ temporary' = None
    /\ Leave(IF Cardinality(PassedIn(results)) = Len(results) THEN "success" ELSE "failure")
    /\ UNCHANGED <<context, tests, predictions, execVars>>

\* The command is killed while it runs.
Killed ==
    /\ phase \in {"execute", "replace"}
    /\ Leave("killed")
    /\ UNCHANGED <<context, tests, predictions, temporary, artifact, execVars>>

Over == phase = "over" /\ UNCHANGED runVars

CommandStep ==
    \/ LoadConfig \/ Collect \/ LoadPredictions \/ ScheduleAndBegin
    \/ ExecuteRaised \/ WriteTemporary \/ ReplaceArtifact

RunNext ==
    \/ CommandStep
    \/ Executing(ExecStep)
    \/ Killed
    \/ Over

RunSpec == RunInit /\ [][RunNext]_runVars

\* The command is sequential code; its event loop is fair to its tasks.
RunFairSpec ==
    /\ RunSpec
    /\ WF_runVars(CommandStep)
    /\ \A w \in Lanes : WF_runVars(Executing(WorkerStep(w)))
    /\ WF_runVars(Executing(Raise \/ Return))
-----------------------------------------------------------------------------
(***************************************************************************)
(* Properties.                                                             *)
(***************************************************************************)

\* A run is stored as COMPLETED, and the command succeeds, only when every
\* collected test was run and its own process ended well: nothing skipped by
\* fail_fast, timed out, interrupted or not started is taken for a pass.
CompletedMeansAllPassed ==
    /\ exit = "success" => artifact.status = "COMPLETED"
    /\ artifact.status = "COMPLETED" =>
          \A t \in tests : StatusOf(t) = "PASSED" /\ leader[t] = "ok"

\* The command ends, even when tests hang, ignore SIGTERM or leave
\* descendants that hold their pipes.
CommandEnds == <>(phase = "over")
=============================================================================
