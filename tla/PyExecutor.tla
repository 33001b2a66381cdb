----------------------------- MODULE PyExecutor -----------------------------
(***************************************************************************)
(* ScheduleExecutor of the Python package                                  *)
(* (python/conflictgraph/executor.py): one asyncio task per worker takes   *)
(* tests from its queue, sleeps until the planned start, runs pytest in a  *)
(* subprocess with a session of its own and a timeout, and appends the     *)
(* result.  Tasks interleave where they await; everything between two      *)
(* awaits is one step.                                                     *)
(*                                                                         *)
(* The subprocess, its descendants and the delivery of CancelledError by   *)
(* asyncio are external.  The descendants of a test stand for one process  *)
(* of its process group ("pipe": it holds the inherited stdout, "quiet":   *)
(* it does not).  There is no clock: a planned start, a timeout or the     *)
(* five seconds of grace may pass at any moment.  cancel() and on_result   *)
(* are left out: nothing in the package uses them.                         *)
(***************************************************************************)
EXTENDS Integers, Sequences, FiniteSets, SequencesExt

CONSTANTS
    Workers,     \* number of workers of the schedule (0..Workers-1)
    Tests,       \* test IDs
    Forking,     \* tests that leave descendants behind
    FailFasts    \* values of the fail_fast argument

Lanes == 0 .. Workers - 1

ASSUME PyExecutorAssumption ==
    /\ Workers \in Nat \ {0}
    /\ IsFiniteSet(Tests)
    /\ Forking \subseteq Tests
    /\ FailFasts \subseteq BOOLEAN

VARIABLES
    failFast,     \* the argument of execute
    queue,        \* per worker: tests still to take (the None sentinel follows)
    pc, item,     \* per worker: control point and test in hand
    stopping,     \* workers with a CancelledError to receive
    cancelled,    \* the _cancelled flag
    leader,       \* per test: the subprocess, or how it ended
    family,       \* per test: the descendants of the subprocess
    results,      \* results in the order they were appended
    late,         \* history: tests started after a bad result, with fail_fast
    main          \* the execute coroutine

workers == <<queue, pc, item, stopping>>
processes == <<leader, family>>
execVars == <<failFast, workers, cancelled, processes, results, late, main>>

NoTest == "none"
Ended == {"end", "cancelled"}

ExecInit ==
    /\ failFast \in FailFasts
    /\ queue = [w \in Lanes |-> <<>>]
    /\ pc = [w \in Lanes |-> "loop"]
    /\ item = [w \in Lanes |-> NoTest]
    /\ stopping = {}
    /\ cancelled = FALSE
    /\ leader = [t \in Tests |-> "none"]
    /\ family = [t \in Tests |-> "none"]
    /\ results = <<>>
    /\ late = {}
    /\ main = "idle"

Goto(w, label) == pc' = [pc EXCEPT ![w] = label]

\* execute fills one queue per worker and starts the worker tasks.
Begin(plan) ==
    /\ main = "idle"
    /\ queue' = plan
    /\ main' = "running"
    /\ UNCHANGED <<failFast, pc, item, stopping, cancelled, processes, results, late>>
-----------------------------------------------------------------------------
(***************************************************************************)
(* run_worker: the loop.                                                   *)
(***************************************************************************)

InLoop(w) == main = "running" /\ pc[w] = "loop" /\ w \notin stopping

\* Faulty loop: the flag is not looked at.
TakeRegardless(w) ==
    /\ InLoop(w)
    /\ queue[w] # <<>>
    /\ item' = [item EXCEPT ![w] = Head(queue[w])]
    /\ queue' = [queue EXCEPT ![w] = Tail(@)]
    /\ Goto(w, "sleep") \/ Goto(w, "spawn")
    /\ UNCHANGED <<failFast, stopping, cancelled, processes, results, late, main>>

\* The flag is set or the sentinel is next: the worker returns.
LeaveLoop(w) ==
    /\ InLoop(w)
    /\ cancelled \/ queue[w] = <<>>
    /\ Goto(w, "end")
    /\ UNCHANGED <<failFast, queue, item, stopping, cancelled, processes, results, late, main>>

\* The next test is taken; its planned start may be ahead.
TakeNext(w) ==
    /\ InLoop(w)
    /\ ~cancelled
    /\ queue[w] # <<>>
    /\ item' = [item EXCEPT ![w] = Head(queue[w])]
    /\ queue' = [queue EXCEPT ![w] = Tail(@)]
    /\ Goto(w, "sleep") \/ Goto(w, "spawn")
    /\ UNCHANGED <<failFast, stopping, cancelled, processes, results, late, main>>

\* The planned start is reached.  The flag is not looked at again.
Wake(w) ==
    /\ pc[w] = "sleep"
    /\ w \notin stopping
    /\ Goto(w, "spawn")
    /\ UNCHANGED <<failFast, queue, item, stopping, cancelled, processes, results, late, main>>

\* The rest of the iteration runs without an await: the result is appended,
\* and with fail_fast a result that is not PASSED sets the flag.
Finish(w, status) ==
    /\ results' = Append(results, [test |-> item[w], status |-> status])
    /\ item' = [item EXCEPT ![w] = NoTest]
    /\ cancelled' = (cancelled \/ (failFast /\ status # "PASSED"))
    /\ Goto(w, "loop")
-----------------------------------------------------------------------------
(***************************************************************************)
(* _run_one.                                                               *)
(***************************************************************************)

\* create_subprocess_exec fails: the result is INFRA_ERROR.
SpawnFails(w) ==
    /\ pc[w] = "spawn"
    /\ w \notin stopping
    /\ Finish(w, "INFRA_ERROR")
    /\ UNCHANGED <<failFast, queue, stopping, processes, late, main>>

BadResult == \E i \in DOMAIN results : results[i].status # "PASSED"

Spawn(w) ==
    /\ pc[w] = "spawn"
    /\ w \notin stopping
    /\ Goto(w, "wait")
    /\ leader' = [leader EXCEPT ![item[w]] = "alive"]
    /\ late' = IF failFast /\ BadResult THEN late \cup {item[w]} ELSE late
    /\ UNCHANGED <<failFast, queue, item, stopping, cancelled, family, results, main>>

\* communicate() returns once the process has ended and its pipes are closed.
Communicate(w) ==
    /\ pc[w] = "wait"
    /\ w \notin stopping
    /\ leader[item[w]] # "alive"
    /\ family[item[w]] # "pipe"
    /\ Finish(w, IF leader[item[w]] = "ok" THEN "PASSED" ELSE "FAILED")
    /\ UNCHANGED <<failFast, queue, stopping, processes, late, main>>

\* Faulty timeout: the result is reported at once, the process is left alone.
ReportAtOnce(w) ==
    /\ pc[w] = "wait"
    /\ w \notin stopping
    /\ Finish(w, "TIMED_OUT")
    /\ UNCHANGED <<failFast, queue, stopping, processes, late, main>>

\* communicate() takes too long and returncode is still None: SIGTERM to the
\* process group.  (A process that has just ended may not be reaped yet.)
TimeOut(w) ==
    /\ pc[w] = "wait"
    /\ w \notin stopping
    /\ Goto(w, "grace")
    /\ UNCHANGED <<failFast, queue, item, stopping, cancelled, processes, results, late, main>>

\* communicate() takes too long although the process has ended: nothing is
\* signalled, and descendants that hold the pipes stay.
TimeOutAfterExit(w) ==
    /\ pc[w] = "wait"
    /\ w \notin stopping
    /\ leader[item[w]] # "alive"
    /\ Finish(w, "TIMED_OUT")
    /\ UNCHANGED <<failFast, queue, stopping, processes, late, main>>

KillGroup(t) ==
    /\ leader' = [leader EXCEPT ![t] = IF @ = "alive" THEN "killed" ELSE @]
    /\ family' = [family EXCEPT ![t] = "none"]

\* Faulty escalation: SIGTERM once more, which the process ignores again.
TermAgain(w) ==
    /\ pc[w] = "grace"
    /\ w \notin stopping
    /\ leader[item[w]] = "alive"
    /\ UNCHANGED execVars

\* The process outlives the grace period: SIGKILL to the process group.
GraceOver(w) ==
    /\ pc[w] = "grace"
    /\ w \notin stopping
    /\ leader[item[w]] = "alive"
    /\ KillGroup(item[w])
    /\ UNCHANGED <<failFast, workers, cancelled, results, late, main>>

\* process.wait() returns after SIGTERM or SIGKILL.
Reaped(w) ==
    /\ pc[w] = "grace"
    /\ w \notin stopping
    /\ leader[item[w]] # "alive"
    /\ Finish(w, "TIMED_OUT")
    /\ UNCHANGED <<failFast, queue, stopping, processes, late, main>>

\* A test leaves a descendant behind; it or the descendant ends.
Fork(t) ==
    /\ t \in Forking
    /\ leader[t] = "alive" /\ family[t] = "none"
    /\ \E kind \in {"quiet", "pipe"} : family' = [family EXCEPT ![t] = kind]
    /\ UNCHANGED <<failFast, workers, cancelled, leader, results, late, main>>

LeaderExits(t) ==
    /\ leader[t] = "alive"
    /\ \E how \in {"ok", "bad"} : leader' = [leader EXCEPT ![t] = how]
    /\ UNCHANGED <<failFast, workers, cancelled, family, results, late, main>>

FamilyExits(t) ==
    /\ family[t] # "none"
    /\ family' = [family EXCEPT ![t] = "none"]
    /\ UNCHANGED <<failFast, workers, cancelled, leader, results, late, main>>
-----------------------------------------------------------------------------
(***************************************************************************)
(* Cancellation and the end of execute.                                    *)
(***************************************************************************)

\* Ctrl-C cancels the main task; gather passes that on to every worker.
Interrupt ==
    /\ main = "running"
    /\ main' = "interrupted"
    /\ stopping' = {w \in Lanes : pc[w] \notin Ended}
    /\ UNCHANGED <<failFast, queue, pc, item, cancelled, processes, results, late>>

\* Faulty handler: the cancelled worker leaves its process running.
CancelWithoutKill(w) ==
    /\ w \in stopping
    /\ Goto(w, "cancelled")
    /\ stopping' = stopping \ {w}
    /\ UNCHANGED <<failFast, queue, item, cancelled, processes, results, late, main>>

\* A worker receives CancelledError.  A process whose returncode is None is
\* killed with its group and waited for; one that has ended may have been
\* reaped (its descendants stay) or not.
CancelWorker(w) ==
    /\ w \in stopping
    /\ Goto(w, "cancelled")
    /\ stopping' = stopping \ {w}
    /\ LET t == item[w] IN
          IF pc[w] \notin {"wait", "grace"} THEN UNCHANGED processes
          ELSE \/ KillGroup(t)
               \/ leader[t] # "alive" /\ UNCHANGED processes
    /\ UNCHANGED <<failFast, queue, item, cancelled, results, late, main>>

\* Every task has ended: CancelledError goes on.
Raise ==
    /\ main = "interrupted"
    /\ \A w \in Lanes : pc[w] \in Ended
    /\ main' = "raised"
    /\ cancelled' = TRUE
    /\ UNCHANGED <<failFast, workers, processes, results, late>>

\* All workers returned: the results are handed back in order of start.
Return ==
    /\ main = "running"
    /\ \A w \in Lanes : pc[w] = "end"
    /\ main' = "returned"
    /\ UNCHANGED <<failFast, workers, cancelled, processes, results, late>>

WorkerStep(w) ==
    \/ LeaveLoop(w) \/ TakeNext(w) \/ Wake(w)
    \/ SpawnFails(w) \/ Spawn(w) \/ Communicate(w)
    \/ TimeOut(w) \/ TimeOutAfterExit(w) \/ GraceOver(w) \/ Reaped(w)
    \/ CancelWorker(w)

ExecStep ==
    \/ \E w \in Lanes : WorkerStep(w)
    \/ \E t \in Tests : Fork(t) \/ LeaderExits(t) \/ FamilyExits(t)
    \/ Interrupt \/ Raise \/ Return

-----------------------------------------------------------------------------
(***************************************************************************)
(* Properties.                                                             *)
(***************************************************************************)

StatusOf(t) ==
    IF \E i \in DOMAIN results : results[i].test = t
    THEN results[CHOOSE i \in DOMAIN results : results[i].test = t].status
    ELSE "none"

Promise == INSTANCE TestRun WITH
    process <- leader,
    verdict <- [t \in Tests |-> StatusOf(t)]

\* The executor implements TestRun: through timeouts, fail-fast and
\* interruptions no test is started or reported twice, and
\* every reported status fits how the test's process ended.
ImplementsTestRun == Promise!RunSpec

\* fail_fast is checked when a test is taken and not again after the sleep or
\* the spawn: once a result is not PASSED, each of the other workers may still
\* start the one test it has in hand, and nobody starts a second one.
FailFastLimitsLateStarts == Cardinality(late) <= Workers - 1

\* When execute has returned or raised, no test process it started is alive
\* (tests/test_executor.py:91 "cancelling execution terminates the test
\* process"); descendants that left the reach of killpg are not promised.
NoProcessOutlivesExecute ==
    main \in {"returned", "raised"} => \A t \in Tests : leader[t] # "alive"
=============================================================================
