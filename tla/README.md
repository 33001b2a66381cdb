# ConflictGraph: TLA+ models, checks and proofs

ConflictGraph observes which resources tests touch, predicts which pairs of
tests conflict, plans a run that keeps risky pairs apart, and executes it. It
exists twice: a Python package that does everything on files, and a Go control
plane with a Rust/eBPF tracer and PostgreSQL. This directory models both: the
planners, the executors, the run commands, the trace from the event queue to the
predictions, the life of a trained model, and the attribution of kernel events.

## 1. The system

| Part | State it keeps | Operations | Talks to |
|---|---|---|---|
| Python scheduler (`python/conflictgraph/scheduler.py`) | lanes, lane ends, remaining tests, risk index | `ConflictScheduler.static_schedule`, `RandomScheduler`, `SerialScheduler` | called by `run`, `schedule` and the benchmark |
| Python executor (`executor.py`) | one asyncio task and queue per worker, a cancel flag, subprocesses | `collect`, `execute`, `_run_one` | OS processes |
| Python run command (`cli.py`, `config.py`, `storage.py`) | configuration, run artifact | `run_tests`, `load_config`, `ArtifactStore` | executor, `artifacts/` |
| Event sink and replay (`tracing.py`) | bounded queue, writer thread, counters | `submit`, `_consume`, `close`; `read_events`, `require_quality` | JSONL trace |
| Normaliser, graph, heuristic (`normalize.py`, `graph.py`, `types.py`) | test and resource nodes, access edges | `normalize_event`, `from_events`, `pair_features`, `score` | `trace replay`, `graphs/latest.json` |
| Dataset and model (`dataset.py`, `model.py`) | examples, split, checkpoint, `model.pt`, `metadata.json` | `build`, `pair_disjoint_split`, `fit`, `save`, `predict_artifact` | `model train`, `trace replay` |
| Benchmark (`benchmark.py`) | counters of a trial | `simulate_schedule` | all three schedulers |
| Go scheduler (`controlplane/internal/scheduler`) | as the Python one | `Build`: index, admit, place, refine, flatten, validate | called by `plan` and `run` |
| Go executor (`internal/executor/pytest.go`) | one goroutine per worker, shared context, two buffered channels, subprocesses | `Execute`, `waitForPlannedStart`, `executeOne` | tracer, store, OS processes |
| cgroup tracer client (`internal/executor/cgroup_linux.go`) | a cgroup directory per execution | `Register` and its cleanup, `send` | tracer daemon, over a socket without acknowledgement |
| run command, PostgreSQL store (`cmd/conflictgraph/main.go`, `internal/store`) | run row, saved results, exit code | `execute`, `failRun`, `CreateRun`, `Save*`, `FinishRun` | all of the above |
| tracer daemon, eBPF programs (`tracer/`) | registry (cgroups, processes, parents), ring buffer | `control_server`, poll loop of `run_ebpf`, one handler per tracepoint | control socket, ring |
| APIs, diagnostics, dashboard | none of their own | read-only views | HTTP |

What is hard in it:

* workers (goroutines or tasks) are disturbed by a signal or a failing test at any
  point of starting, registering, waiting, killing, cleaning up or saving;
* timeouts race exits, kills race descendants, and both executors wait for pipes;
* queues and channels are bounded, and what happens at their limit is a safety
  argument (Go) or a silent loss (the event sink);
* control messages to the tracer are not acknowledged nor ordered, kernel events
  are delayed and lost, and PIDs are reused;
* artifacts are written in place and read by other processes, so a kill between
  two writes leaves a mixture;
* every trace is normalised twice, and nothing says the normal forms are fixed
  points;
* the planners mix a greedy placement that leaves idle time on purpose with a
  refinement that knows nothing of that idle time.

What makes each part correct: a planner schedules every test once, on lanes that
run one test at a time, and waits only for a reason; an executor accounts for
every test, gives only verdicts the test earned, leaves no process behind and
returns; the run's record and exit code tell what happened; an accepted event
reaches the trace once and in order; two tests that collide on a resource get a
high risk; a replay uses the weights its metadata describes; the tracer never
charges a test with what it did not do. `PROJECT.json` lists the hazards at the
line where they bite, with the properties that cover them.

## 2. Modules

| Module | Models | State and actions |
|---|---|---|
| `PyScheduler` | the three Python schedulers and `simulate_schedule` | extends `Scheduler`, whose lanes and refinement loop it shares; its own are the index (`RiskIndex`), the bisection (`FirstLive`), the choice (`Decision`), `PyPlace`, `RandomPlace`, `SerialPlace`, `PyFlatten`, and the draws of a trial |
| `PyExecutor` | `ScheduleExecutor` | per worker task a control point `pc`; per test the subprocess `leader` and its descendants `family`; one action per step between two awaits |
| `PyRun` | `conflictgraph run`: configuration, collection, predictions, schedule, execution, artifact | extends `PyExecutor` with `phase`, `artifact`, `exit`; its surroundings are the record `context` |
| `TestRun` | abstract: what any executor promises | each test is started at most once, ends once, and is reported once with a verdict that fits how it ended |
| `TraceGraph` | normaliser, graph, pair features, heuristic score, `TraceQuality` | pure operators, named as in the source or for the part of a function they stand for; identifiers are sequences of parts |
| `TraceCapture` | `EventSink`: submitting, writing and closing threads | `queue`, `writer`, `lines`, `file`, `closer`; a step per queue operation |
| `TracePipeline` | the capture, then `trace replay` on what it left | extends `TraceCapture` with the replay's `phase`, its events, graph and `latest` |
| `LossyLog` | abstract: what a trace sink promises | accepted events are recorded in order and at most once; completion is reported only for a complete file |
| `ModelLifecycle` | `build`, `pair_disjoint_split`, `fit`, `save`, and replays running `predict_artifact` | dataset and split, scores and best checkpoint, the two files, one `reader`; the history `finished` notes that the last save was completed |
| `Scheduler` | Go `Build` with its helpers, `Schedule.Validate`, `ByWorker` | `IndexPredictions`, `AdmitTests`, `Place` (one iteration), `StartRound`, `TrySwap`, `NextLane`, `EndRound`, `RoundsExhausted`, `Flatten` |
| `Executor` | Go `Execute`, `executeOne`, `CgroupTracer.Register` | per worker `pc`, `next`, its context `child` and its outcome `local`; per test `leader` and `family`; the channels |
| `Run` | Go `execute` and `failRun` | extends `Executor` with `stage`, `row`, `exit`; the setup is the list `Setup` of calls that succeed or fail |
| `Attribution` | registry, control server, poll loop, tracepoints | kernel tasks with their true `owner`, messages in flight, the bounded `ring`, the registry maps, and `emitted`, the attributions made; the history `late` notes executions registered after they were unregistered |
| `SchedulerProofs`, `PySchedulerProofs` | theorems about `Scheduler` and `PyScheduler` | the second extends the first and uses its lemmas |
| `ExecutorProofs`, `RunProofs` | theorems about `Executor` and `Run` | the second extends the first: `Run` keeps the executor's invariant |
| `PyRunProofs` | theorems about `PyExecutor` and `PyRun`, and the refinement of `TestRun` | |
| `TraceProofs` | the refinement of `LossyLog` by `TraceCapture` inside `TracePipeline`; theorems about the replay, the graph and the predictions | |
| `ModelProofs`, `AttributionProofs` | theorems about `ModelLifecycle` and `Attribution` | |
| `MC*` | small instances | |

Operators whose comment begins with "Faulty" are plausible mistakes; each is
substituted for an operator that follows it to see that a property notices.
They are no part of the specifications.

### Abstractions

* *Schedulers*: time in whole units (a millisecond, the floor of a duration, in
  Python), probabilities and weights as exact fractions, so no comparison hangs
  on rounding or on the 1e-9 slack. The random tie-breaks are an arbitrary
  injective order. Identifiers, reasons and latencies are left out.
* *Executors*: no clock; a planned start, a deadline or a grace period may pass at
  any moment. The descendants of a test are one process, which holds the output
  pipes or not. `os/exec` and asyncio are modelled from how they are used:
  `Start` refuses a finished context, the context is watched until the leader is
  reaped, `Wait` then waits for the pipes without limit; `asyncio.gather` passes a
  cancellation on to every task. Output decoding is left out, as are `cancel`,
  `on_result` and `update_duration_stats`, which nothing calls.
* *Run commands*: a database statement that fails has no effect. The Python
  schedule is any plan with every test once, which is what `PyScheduler` is
  checked for. Every field that `validate` checks is in the model. Numbers are
  typed records: top-level fields are converted, fields of a section are not, so a
  text there makes `validate` raise. Environment variables override the file.
* *Trace*: an identifier is the sequence of its parts, a path those between
  slashes behind its root (`""`, `/` or `//`), any other text those between
  colons. On it the normaliser does what the code does: `strip`, `normpath` with
  `.`, `..`, doubled slashes and the root `//`, the names it refuses, prefixes and
  suffixes left out for reads, a protocol in front of an endpoint, the database in
  front of a key. What `ipaddress`, `int`, `isdigit`, `split` and `basename` make
  of one part is given by constants, with the assumptions of section 4. A second
  pass acts on the normal form as it would on any text. The sink uses the prefixes
  of the default policy and the replay those of the configuration, as in the code,
  so they may differ; the prefix `/` alone is excluded by assumption. Redaction is
  off, no repository root is set (no command sets one), and `pair_history`, which
  nothing fills, is left out. The trace is the Python sink's; the Rust tracer's
  normaliser has other rules for Redis keys, endpoints and UNIX sockets. Risks are
  millionths. A file that was not closed holds any prefix of what was written, and
  perhaps a torn line.
* *Model*: an epoch has an arbitrary score, in units of the tolerance, or none;
  what the network computes is not modelled. Weights are named by training and
  epoch, so equal checksums mean equal names. One training at a time.
* *Attribution*: one cgroup per execution whose inode is never reused. Threads
  are tasks: fork events name the forking task, all other events the process.

## 3. Runs

| Run | Instance | Result |
|---|---|---|
| `py_schedule` | 3 workers, 4 tests, repeated test IDs for the conflict-aware scheduler, all sets of certain conflicts, repeated and impossible predictions, safe policy, look-ahead 2, 1 round | holds |
| `py_delay` | the same | `DelayEndsWithAConflict` **violated** |
| `py_run` | 2 workers, 3 tests, one with descendants, `fail_fast` on and off, a good call and calls wrong in one respect each (every check of the configuration, a text for a number, the environment, options, collection, graph); fairness | holds, with `ImplementsTestRun` and `CommandEnds` |
| `trace_pipeline` | queue of 2, 3 events out of 10 of two tests that spell a file, an endpoint and a key differently (`..`, doubled slashes, blanks, a protocol, `[::1]`, a database), a read that only the replay leaves out, an unattributed path that ends in a blank, a process the normaliser raises on; fairness | holds, with `ImplementsLossyLog` and `CloseReturns` |
| `trace_loss_gate` | the same | `LossyTraceIsRejected` **violated** |
| `model_lifecycle` | 6 pairs, all labels, 4 epochs, 4 scores, patience 2, 2 trainings, kills | holds |
| `sched_two_workers` | 2 workers, all inputs of up to 3 tests, durations 0, 2, 4 and a negative one, probabilities 0, 3/4, 1, malformed inputs, balanced policy, look-ahead 2, 1 round | holds, with `RiskyOverlapNeedsReflow` |
| `sched_undone_swap` | the same | `HighRiskPairDoesNotOverlap` **violated** |
| `exec_two_workers` | 2 workers, 1 test each, traced, failFast | holds |
| `run_queue` | 1 worker with a queue of 2 tests, traced or not, no failFast; fairness | holds, with `RowIsClosed` and `RunEnds` |
| `attr_any_order` | 2 executions, 3 tasks, ring of 2, control messages handled in any order | holds |
| `attr_pid_reuse` | 1 execution, 3 tasks, PID reuse | `NeverMisattributed` **violated** |

The refinements: in `py_run` the executor implements `TestRun` with `process`
mapped to the state of the subprocess and `verdict` to the status reported for
the test; in `trace_pipeline` the sink implements `LossyLog` with `log` mapped to
the lines written and `state` to the closing thread's state.

### What the violated runs show

* `py_delay`: when no candidate is safe, `static_schedule` delays the test to the
  end of whichever test ends first on another worker, conflicting or not, and
  places it there beside the conflict. The comment speaks of "the earliest
  conflicting test".
* `trace_loss_gate`: drops at a full queue are counted in the sink's memory and
  not in the file, so `trace replay` judges a trace by what is left of it, and a
  trace that lost a larger share of its events than the threshold allows becomes a
  graph. `docs/architecture.md` says it is rejected.
* `sched_undone_swap`: two workers and three tests of which the third is planned
  behind the first and waits there for the second. `refine` undoes a rejected swap
  of the first and the third by reflowing the lane from time 0, which also closes
  the gap in front of the third: `Build` returns it beside the second. `README.md:97`
  speaks of "the threshold that prevents a risky overlap", and
  `TestHighRiskPairDoesNotOverlap` expects it of `Build`'s result.
  `RiskyOverlapNeedsReflow` says that with two workers nothing but a reflow leads
  to such an overlap.
* `attr_pid_reuse`: the registry uses a PID mapping of a process that is gone,
  against `docs/tracing.md`.

Further disagreements, each found with an instance that is easily set up again
(not part of the runs):

* `Scheduler` with three workers, no refinement and three tests that all
  conflict: the second and the third wait for the first and then overlap
  (`HighRiskPairDoesNotOverlap` fails without any reflow).
* Both refinements delete the idle time placement had planned when they undo a
  swap: a step of refinement can raise the objective that `docs/architecture.md`
  says it improves.
* `Run`: a tracer that cannot be made (`main.go:214-217`) ends the command without
  `failRun` and leaves the row `RUNNING`, against `docs/architecture.md:23`.
  `RowIsClosed` names it as its one exception besides a failed update; without the
  exception it fails.
* `ModelLifecycle`: for an empty graph `predict_artifact` raises an `IndexError`
  outside its `try` (`model.py:586`), which `trace replay` does not catch where it
  should fall back to the heuristic (`cli.py:191`): the replay dies with no output.
  `FinishedModelIsUsed` names it as its one exception.
* `TraceGraph`: of `/tmp/a /` the sink makes `/tmp/a ` and the replay `/tmp/a`, so
  the second pass can merge two resources; a read of `/x/a.so /` passes the sink
  and is dropped by the replay for its suffix. `ReplayKeepsTrace` is about lines
  that do not end in a blank (`Stable`). `//tmp/a` and `/tmp/a` stay two resources,
  as `normpath` keeps exactly two slashes in front.
* `ModelLifecycle` with the code's sampling ratio (`NegativeRatio = 4`,
  `FewNegatives = 32`): `pair_disjoint_split` sends the next pair where the sum of
  size and positive pressure is least, whatever its label, so only that sum is
  balanced (`SplitIsBalanced`). With two positives among six examples an order
  leaves the training part without any. The comment in `dataset.py` says "Balance
  size and positive count".
* `Attribution`: the connections of register and unregister are served by
  independent tasks (`main.rs:174`); applied in the other order the mapping stays
  for good, against `docs/tracing.md:20`. `UnregisterRemovesMapping` says that it
  stays then, and only then.

### What some properties do not say

* `CompletedMeansPassed` (Go): every test passed and was stored, *or* a signal
  arrived. A signal between two tests ends the workers without an error, so an
  interrupted run can be `COMPLETED` with tests that never ran.
  `CompletedMeansAllPassed` (Python) has no such exception.
* `RunEnds`: the command ends *or* waits for ever for something the code does not
  bound (`WaitsForOthers`): the database, pytest's collection, or a process that
  keeps the output pipes of an exited test open. Nothing else may keep it.
* `RiskyOverlapNeedsReflow` is proved for two workers at most and does not say that
  a reflow spares a pair; `HighRiskPairDoesNotOverlap` would, and fails.
* `PyEveryTestOnce` covers repeated test IDs for the conflict-aware scheduler
  only: the random and the serial one have one caller, the benchmark
  (`benchmark.py:397`), whose tests are distinct.
* `FailFastLimitsLateStarts`: the flag is checked before the sleep only, so each
  other worker may start one more test after a failure. The property is that it
  is not more than one.
* `NoProcessOutlivesExecute` is about the test processes. A descendant that keeps
  the pipe of a test that has exited is not killed at the timeout.
* `CloseReturns` assumes a writer that does not fail: `close` puts its sentinel
  with a blocking `put` before it looks at the writer, and waits for ever when the
  writer died over a full queue.
* An event submitted between the sentinel and the end of the writer is lost
  although `submit` returned True; `LossyLog` does not promise it.
* `OnlyDescribedWeightsPredict` excludes replays that a save overlaps:
  `predict_artifact` reads `model.pt` twice, for the checksum and for loading.
* `SplitServesEveryPart` bounds the sum of size and positive pressure, not each
  for itself: sizes may drift from their targets, and a part may be without a
  positive example (a validation part without one skips the calibration).
* `ConflictIsPredicted` is about events that both passes keep, and about paths as
  the resolved text: links and case are not looked at, by the code neither.

### Bounds

Three tests on two lanes are the smallest case with a kept swap, an undone swap
and a delayed test in one plan; three workers and four tests the smallest with
chained waits, a cut-off look-ahead and a safe alternative. Two executions, in
one queue or side by side, are enough for every pair of points at which one can
disturb the other, and fill the error channel when it is made too small; the
third Python test lets a worker take another after a failure. A queue of two and
three events reach a full queue, a drop, and a sentinel that has to wait; three
events are also enough for two spellings and a second access by the same test;
the ten events meet the rules for paths, TCP endpoints and keys and a process
text that the normaliser raises on; the theorems cover all the others.
Six pairs are the smallest dataset in which all parts hold more than one example;
four epochs with patience two allow an improvement before, within and after the
patience, and two trainings a retraining over a finished and over a torn artifact.
Three tasks give a host process, a test and a descendant or a second test.
`MaxDepth` (64 in the code) is 4, more than any chain of the instance. `NegativeRatio`,
`FewNegatives`, `EarliestStop` and `Patience` stand for 4, 32, 80 and 15.

### Fairness

`Build` has no liveness property: its loops are bounded. In Go's `RunFairSpec` the
goroutines, the timers and the context watch of `os/exec` are weakly fair, in
Python's the event loop is fair to every task and its timers; the tests are not:
a test may run for ever and is ended by its timeout. Nothing bounds the end of a
descendant, a call to the database or pytest's collection in the Go code, so
`RunFairSpec` does not assume that they end or return, and `RunEnds` names waiting
for them. The Python executor's timeout covers `communicate`, so `CommandEnds` has
no such exception. In `TracePipeline` the writer and the closing thread keep
running; submitting threads and kills are not fair. `ModelLifecycle` states safety
only.

## 4. Proofs

Every theorem holds for all values of the constants that satisfy the named
assumption of the module: any number of workers, tests, events, PIDs, any
durations, predictions, capacities and orders of steps. The assumptions say what
the code's types and constructors guarantee: positive counts, finite sets of
tests, a hard threshold that is a fraction, execution names that are no marker,
events whose time is positive, and of the normaliser's literals and of the
functions it calls what it relies on: a stripped part has no blanks left, a
compressed address and a parsed port stay as they are when read again,
`127.0.0.1` is a loopback address, `$RUN_TMP` is no ignored name, `0` is a number
and `REDIS` is none, a base name has no blanks and a bare name is its own, an
excluded prefix is not the root.

### Schedulers

`SchedulerProofs`:

* `TypeCorrect`, `TestsConserved`, `LanesSequential`: `TypeOK`, `EveryTestOnce`
  and `LaneIsSequential`, from one inductive invariant, `Inv`, their conjunction
  with `NothingPlacedYet` (before admission the lanes are empty, which
  `EveryTestOnce` does not say of these phases). `EveryTestOnce` is needed to show
  `LaneIsSequential`: placing or reflowing one lane changes `start` only for its
  own tests, which are in no other lane. `LaneIsSequential` is needed for the next
  placement: a test starts at or after the lane's end only if the end field is
  right. The lemmas: a swap permutes a lane and undoes itself (`SwapFacts`), what
  `reflow` computes (`OffsetsRecursion`, `ReflowFacts`, by induction stated over
  sets, `SetInduction`), appending and reflowing keep a lane sequential
  (`SeqLaneAppend`, `SeqLaneReflow`), and no delay moves a test before its lane's
  end (`PlannedStartType`);
* `IdleJustified`: `IdleIsJustified`. What was placed earlier keeps its reason
  because an append changes no start and no end of the other tests
  (`AppendFrame`); the test just placed has one by the guard of the delay
  (`PlaceIdle`);
* `SerialIsTheWorst`: `NeverWorseThanSerial`, from `WithinSerial`: every lane ends
  within the sum of the durations placed. A delayed test starts at the end of a
  test on another lane, so its lane grows to at most the old bound plus its own
  duration (`EndsWithinSerial`, `AppendWithinSerial`), and refinement only
  shortens lanes. `Total` with `TotalAdd` and `TotalFrame` is the sum over a set,
  by `SetInduction` again (`TotalRecursion`);
* `RefinementInLane`: the action property `RefinementStaysInLane`. A kept swap
  is a reflow of the same tests from 0, an undone one as well, and a reflowed lane
  ends at the sum of its durations, which no sequential lane undercuts
  (`OffsetsWithin`, `TrySwapStays`);
* `RiskyOverlapsNeedReflow`: `Workers <= 2` implies `Spec => []RiskyOverlapNeedsReflow`.
  The invariant `RiskInv` has two parts: `StartsInTime`, no test starts after
  another lane has become free, since tests are placed on the lane that is free
  first, and `PlacementKeepsApart`, which follows from it: at most the last test of
  the only other lane can overlap the one placed (`RiskOfOne`), and a delay waits
  for exactly that one. A trial swap, kept or undone, leaves its lane without gaps
  and every other lane alone (`TrySwapReflows`), so each risky overlap it adds is
  with a lane that has lost its gaps (`TrySwapRisk`). With a third worker a delay
  ends with one overlap and may begin the next, and the property is false;
* `QueuesFollowLanes`: `DispatchFollowsLanes`. `sort.Slice` is not stable, so
  `Flatten` and `ByWorker` take any of the `Sortings` of a set. That the executor
  still gets every lane in order needs starts that increase along a lane
  (`LaneStartsIncrease`): then there is only one sorting (`OnlySorting`,
  `QueueIsLane`). They increase because no duration is 0 (`Dur`).

`PySchedulerProofs` states the placement facts of `SchedulerProofs` again for the
steps of the Python schedulers, up to the trial (`PyInv`: types, a placement with
every test once on sequential lanes, and `Accounted`, every test waiting or placed):

* `PyTestsConserved`: `PyEveryTestOnce`, for repeated test IDs as well where the
  conflict-aware scheduler is called;
* `BisectionComplete`: `BisectionSeesEveryOverlap`. The search
  stops at the first test of a lane that ends after the given time
  (`SearchRecursion`, `FirstLiveFacts`, by induction on the length of the range
  left to halve); starts and ends increase along a sequential lane
  (`LaneIncreases`), so a scan from there misses nothing and may stop at the first
  test that starts after the window (`ScanIsComplete`);
* `WaitsEndWithATest`: `IdleEndsWithATest`, as `IdleJustified` and
  `SerialIsTheWorst` together; `WaitsAreBounded` is its inductive part, which holds
  in every phase;
* `TrialsConsistent`: `TrialIsConsistent`, from `TrialInv`: a draw counts the test
  that fails unless it has failed before (`DrawCounts`), and a serial plan is on one
  worker and so has no overlap to draw (`SerialHasNoOverlap`). The workers are busy
  for no longer than the makespan each because a sequential lane ends at or after
  the sum of its durations (`WorkFits`).

### Executors and run commands

`ExecutorProofs` has one invariant, `Inv`, stated worker by worker. The tests of a
lane before its position are `Settled` (process over, accounted for, leftovers and
failed saves reported), those after it `Fresh` (nothing was done for them), and of
the one in hand `ProcessInv`, `ErrorInv` and `OutputInv` say, by control point,
what its process may be, which errors are already collected and what has been
sent. A step of one worker touches only its own test, which is in no other lane
(`Same`), so the invariant of the other workers survives it. From it follow
`ExecutorTypeCorrect` (`TypeOK`), `VerdictsEarned` (`VerdictIsEarned`: a process
killed on the way to a verdict has a context that is done, and then the verdict is
neither PASSED nor FAILED), `NothingSkipped` (`NoSilentSkip`), `UnsavedReported`
(`UnsavedIsReported`), `LeftoversReported` (`LeftoverIsReported`) and
`SendsNeverBlock` (`SendNeverBlocks`). The last one counts: a test has at most one
result and two errors of different sorts (`ChannelInv`), and the one about to be
sent is missing, so the buffers of `len(tests)` and `2*len(tests)` have room.

`RunProofs` adds the row and the exit code at every call of `execute` (`RowInv`)
and what tests have done by then (`TestsInv`: no process before `Execute`, none
after it): `RunTypeCorrect` (`RunTypeOK`), `CompletedRunsPassed`
(`CompletedMeansPassed`), `FailuresFailRun` (`TestFailureFailsRun`),
`ExitsMatchRows` (`ExitMatchesRow`) and the action properties `RowsMoveForward`
(`RowMovesForward`) and `RowsAreClosed` (`RowIsClosed`: before `CreateRun` there is
no row, and of the later calls only `NewCgroupTracer` and a failing update end the
command with the row as it was).

`PyRunProofs` proves an invariant of the Python executor (`ExecInv`) and extends it
to the command (`CommandOK`). Its parts: a test is in one queue or one hand, or
has one result (`QueueInv`, `HandInv`, `ResultInv`); a process that lives is waited
for by the worker that holds it (`ProcessInv`); what the gathering coroutine knows
of its tasks (`MainInv`); when the cancel flag is set (`FlagInv`); and no test of
the plan disappears unless execution was cut short (`CoverInv`). From it:

* `ProcessesEnd`: `NoProcessOutlivesExecute`;
* `LateStartsBounded`: `FailFastLimitsLateStarts`, from `LateInv`: late starts and
  workers about to start one are together fewer than the workers, because the one
  that reported the bad result holds nothing and, the flag being set, nobody takes
  another test;
* `CompletedRunPassed`: `CompletedMeansAllPassed`;
* `ExecutorKeepsPromise`: the refinement `ImplementsTestRun`. Each action maps to a
  step of `TestRun` or to a stutter; `ResultInv` is what makes the mapped verdict
  of a test well defined (one result each) and unchanged by every later step.

### Trace

`TraceProofs`:

* `SinkKeepsPromise`: the refinement `ImplementsLossyLog`. While the writer
  runs, the queue holds exactly what was accepted and not yet taken, in order
  (`OpenOrder`); once `close` has put the sentinel, it stands behind the events
  up to `limit` (`ClosingOrder`), so a writer that meets it has stored all
  before it (`DoneInv`). The proof failed at first: the cases of the mapped
  state `LogState` overlapped for a sink that was closed before the process
  ended, which TLC does not notice because it takes the first that applies. The
  cases are now disjoint;
* `ReplayIsFaithful`: `ReplayKeepsTrace`, from `FileInv` (the file holds lines the
  writer made, or a torn one) and `ReplayInv` (what was replayed is the second
  pass over that file). `strip` and `normpath` change nothing on a normal form
  that ends in no blank (`StripFacts`, `ResolvedFacts`, `NormPathFacts`); such a
  path and an endpoint stay as they are, a Redis key and a process get another
  prefix, which keeps different ones apart (`PathFacts`, `EndpointFacts`,
  `RedisFacts`, `ProcessFacts`, `IdentifierAgain`, `PrefixKeepsApart`,
  `SecondPassIsFaithful`). `Stable` is needed: the proof fails for the lines it
  excludes, as section 3 says. Filtering a sequence is the recursive function
  `Without`, about which `WithoutFacts` and `WithoutPlaces` (where each kept line
  ends up) are proved by `SetInduction`;
* `GraphIsFaithful`: `GraphMatchesTrace`. `from_events` is a fold, for which
  `BuildRecursion` gives the step from one event to the next; each observation
  keeps edges and indexes equal to what the events so far say (`NextObservation`,
  `EdgesStep`, `IndexesStep`, `GraphOfEvents`). Positive times are needed: the code
  takes a first time of 0 for "not set";
* `ConflictsArePredicted`: `ConflictIsPredicted`, end to end. Everything the writer
  took is in the lines unless the normaliser filtered it (`KeptInv`), so an
  accepted event of a closed trace that survives both passes is replayed
  (`AcceptedIsReplayed`); two texts that denote one resource have one normal form
  after the first pass (`SameForm`) and so one node after the second
  (`SpellingsMeet`); a write that meets
  an access gives a signal (`SignalsOfMeeting`), and one signal leaves at most 0.35
  of the product from which the risk is taken, whatever the others are
  (`SignalsCount`, `MeetingScores`); the predictions written are those of the
  graph (`LatestInv`).

### Model

`ModelProofs`:

* `BestIsSaved`: `BestCheckpointIsSaved`, from `FitInv`: the kept checkpoint beats
  all epochs so far, `stale` is the distance to it, nothing is kept only while no
  epoch had a score, and a training that ended before its last epoch had run out
  of patience;
* `DescribedWeights` and `FinishedIsUsed`: `OnlyDescribedWeightsPredict` and
  `FinishedModelIsUsed`, both from `ArtifactInv`: the order of save's writes
  (`SaveOrder`: the hash is taken of whole weights, the metadata is written for
  exactly these, and after a completed save, `finished`, both files agree until
  the next one begins) and what an undisturbed replay knows (`Undisturbed`: at the
  load the weights on disk are still the ones checked, and a replay that began on a
  finished training still sees it, whatever a retraining does before its own save).
  Only an empty graph ends such a replay without predictions. A write
  of save marks every replay in progress (`WriteDisturbs`), which is why the
  invariant survives it;
* `SplitServesAll`: `SplitServesEveryPart`, from `SplitInv`. A part that has just
  been given an example was the least loaded before, so it is ahead by at most that example
  (`SplitIsBalanced`); with `EmptyComesFirst` (while a part is empty, none has two
  examples) the third example at the latest fills the last part. An attempt to
  prove that the positives are balanced as well failed for a good reason: they are
  not (section 3).

### Attribution

`AttributionProofs` has two theorems:

* `AttributionsRight`: `~PidReuse` implies `Spec => []NeverMisattributed`. The
  invariant says that there is one assignment `own` of tasks to owners, fixed for
  each task once it is started, with which the kernel state, the messages in
  flight, the events in the ring and the registry's maps all agree
  (`OwnersKnown`). Without reuse `own` is only ever extended (`Extends`), so
  whatever arrives late is still right; a chain of parents leads to the same owner
  or to a host process, which has no mapping (`Descends`, `Walk`). The theorem does
  not assume ordered messages: PID reuse is the only cause of what
  `attr_pid_reuse` shows;
* `MappingsRemoved`: `UnregisterRemovesMapping`, without a hypothesis: in any order
  of messages and events, with PID reuse or without. From `MappingInv`: nothing is
  known of an execution before it is announced, and once it is over and no
  unregister message is in flight, it is known exactly if it is in `late`: no fork
  event can bring back an execution the registry does not hold, and nothing but an
  unregister removes a cgroup.

### Only model-checked

Liveness (`RunEnds`, `CommandEnds`, `CloseReturns`): fairness and
`ENABLED` are out of the prover's reach. Every invariant, action property and
refinement that a passing run checks is a theorem, `RiskyOverlapNeedsReflow` for
at most two workers and `NeverMisattributed` without reuse of PIDs. The violated
runs show what fails beyond.

## 5. Plan

1. Done: all modules of section 2 with their runs, and the proofs of section 4.
2. Left: `Executor` as a second implementation of `TestRun`.

## 6. Not modelled

* What the network, the tabular baselines, the calibration and the metrics
  compute, the synthetic world and the statistics over trials: numerical.
* `AttributionRegistry` and the logical resource clients of `tracing.py`, saving
  and loading a dataset (`model train` does neither, so the `dataset_hash` of its
  metadata stays empty), two trainings at once, redaction of paths.
* The SQL store of `storage.py`, both HTTP APIs, diagnostics and the dashboard:
  read-only views without state of their own.
* The Rust writer, logical socket, replay, decoding and normaliser, the pairing of
  openat enter and exit and the drop counter of the eBPF programs, the Go
  configuration and flag parsing.
* Deployment files.
