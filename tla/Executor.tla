------------------------------ MODULE Executor ------------------------------
(***************************************************************************)
(* Executor.Execute of the Go control plane                                *)
(* (controlplane/internal/executor/pytest.go, cgroup_linux.go): one        *)
(* goroutine per worker runs its queue of tests, each in a subprocess with *)
(* its own process group and timeout, optionally registered with the       *)
(* tracer through a cgroup; results and errors go to two buffered channels *)
(* that are drained only after every worker has returned.                  *)
(*                                                                         *)
(* The subprocess, its descendants, os/exec and the tracer are external.   *)
(* The descendants of a test stand for one process of its process group    *)
(* ("pipe": it holds the inherited stdout, "quiet": it does not).  There   *)
(* is no clock: a planned start or a timeout may pass at any moment.       *)
(***************************************************************************)
EXTENDS Integers, Sequences, FiniteSets, SequencesExt

CONSTANTS
    Workers,      \* number of worker goroutines (workers 0..Workers-1)
    Tests,        \* test IDs
    Queues,       \* what Schedule.ByWorker may give: worker -> tests in order
    FailFasts,    \* values of the failFast argument
    Tracings      \* values of Tracer # nil

Lanes == 0 .. Workers - 1

QueuedIn(q) == UNION {ToSet(q[w]) : w \in Lanes}

ASSUME ExecutorAssumption ==
    /\ Workers \in Nat \ {0}
    /\ IsFiniteSet(Tests)
    /\ Queues \subseteq [Lanes -> Seq(Tests)]
    /\ \A q \in Queues : \A v, w \in Lanes : \A i \in DOMAIN q[v], j \in DOMAIN q[w] :
          q[v][i] = q[w][j] => v = w /\ i = j
    /\ FailFasts \subseteq BOOLEAN
    /\ Tracings \subseteq BOOLEAN

VARIABLES
    queue, failFast, traced,   \* the arguments of the call
    ctx,          \* the context shared by the workers: "live" or "cancelled"
    pc, next,     \* per worker: control point, position in its queue
    child,        \* per worker: context of the execution in progress
    local,        \* per worker: status and errors of the execution in progress
    leader,       \* per test: the subprocess, or how it ended
    family,       \* per test: the descendants of the subprocess
    registered,   \* executions the tracer attributes events to
    cgroups,      \* executions whose cgroup directory exists
    results, errors,   \* contents of the two channels
    saved,        \* executions stored by the sink
    returned      \* Execute has returned

arguments == <<queue, failFast, traced>>
processes == <<leader, family>>
tracer == <<registered, cgroups>>
channels == <<results, errors>>
vars == <<arguments, ctx, pc, next, child, local, processes, tracer, channels, saved, returned>>

Queued == QueuedIn(queue)
Current(w) == queue[w][next[w]]
Alive(t) == family[t] \in {"quiet", "pipe"}

\* The channels are made with room for one result and two errors per test.
ResultCapacity == Cardinality(Queued)

\* Faulty capacity: one error per test.
OneErrorPerTest == Cardinality(Queued)

ErrorCapacity == 2 * Cardinality(Queued)

Init ==
    /\ queue \in Queues
    /\ failFast \in FailFasts
    /\ traced \in Tracings
    /\ ctx = "live"
    /\ pc = [w \in Lanes |-> "loop"]
    /\ next = [w \in Lanes |-> 1]
    /\ child = [w \in Lanes |-> "live"]
    /\ local = [w \in Lanes |-> [status |-> "none", errs |-> {}]]
    /\ leader = [t \in Tests |-> "none"]
    /\ family = [t \in Tests |-> "none"]
    /\ registered = {}
    /\ cgroups = {}
    /\ results = {}
    /\ errors = {}
    /\ saved = {}
    /\ returned = FALSE

Goto(w, label) == pc' = [pc EXCEPT ![w] = label]
Outcome(w, status, errs) == local' = [local EXCEPT ![w] = [status |-> status, errs |-> errs]]

\* The worker is inside executeOne and its context exists.
InExecution(w) ==
    pc[w] \in {"start", "register", "wait", "drain", "abort", "abortDrain", "kill", "cleanup", "status"}

\* executeOne returns: its context is released.
Release(w) == child' = [child EXCEPT ![w] = "live"]
-----------------------------------------------------------------------------
(***************************************************************************)
(* Contexts.                                                               *)
(***************************************************************************)

\* A cancelled context cancels the contexts derived from it, unless their
\* deadline passed first.
CancelAll ==
    /\ ctx' = "cancelled"
    /\ child' = [w \in Lanes |-> IF InExecution(w) /\ child[w] = "live" THEN "cancelled" ELSE child[w]]

\* SIGINT or SIGTERM cancels the caller's context.
Interrupt ==
    /\ ctx = "live"
    /\ ~returned
    /\ CancelAll
    /\ UNCHANGED <<arguments, pc, next, local, processes, tracer, channels, saved, returned>>

\* The deadline of the execution passes.
Timeout(w) ==
    /\ InExecution(w)
    /\ child[w] = "live"
    /\ child' = [child EXCEPT ![w] = "expired"]
    /\ UNCHANGED <<arguments, ctx, pc, next, local, processes, tracer, channels, saved, returned>>
-----------------------------------------------------------------------------
(***************************************************************************)
(* The processes of a test (external).                                     *)
(***************************************************************************)

\* The test starts a process that may outlive it.
Spawn(t) ==
    /\ leader[t] = "running"
    /\ family[t] = "none"
    /\ \E kind \in {"quiet", "pipe"} : family' = [family EXCEPT ![t] = kind]
    /\ UNCHANGED <<arguments, ctx, pc, next, child, local, leader, tracer, channels, saved, returned>>

\* pytest exits; "lost" is an end Wait cannot turn into an exit code.
LeaderExits(t) ==
    /\ leader[t] = "running"
    /\ \E exit \in {"pass", "fail", "lost"} : leader' = [leader EXCEPT ![t] = exit]
    /\ UNCHANGED <<arguments, ctx, pc, next, child, local, family, tracer, channels, saved, returned>>

\* A descendant ends by itself.
FamilyEnds(t) ==
    /\ Alive(t)
    /\ family' = [family EXCEPT ![t] = "gone"]
    /\ UNCHANGED <<arguments, ctx, pc, next, child, local, leader, tracer, channels, saved, returned>>

KillLeader(t) == leader' = [leader EXCEPT ![t] = IF @ = "running" THEN "killed" ELSE @]

KillFamily(t) == family' = [family EXCEPT ![t] = IF Alive(t) THEN "gone" ELSE @]

Watching(w) == pc[w] \in {"register", "wait", "abort"}

KillGroupOf(w) ==
    /\ leader[Current(w)] = "running" \/ Alive(Current(w))
    /\ KillLeader(Current(w))
    /\ KillFamily(Current(w))
    /\ UNCHANGED <<arguments, ctx, pc, next, child, local, tracer, channels, saved, returned>>

\* Faulty watch: only a cancellation kills.
WatchCancel(w) == Watching(w) /\ child[w] = "cancelled" /\ KillGroupOf(w)

\* os/exec watches the context of a started command until it has reaped the
\* leader, and then calls command.Cancel, which kills the process group.
WatchKills(w) == Watching(w) /\ child[w] # "live" /\ KillGroupOf(w)
-----------------------------------------------------------------------------
(***************************************************************************)
(* The loop of a worker.                                                   *)
(***************************************************************************)

LoopEnds(w) ==
    /\ pc[w] = "loop"
    /\ next[w] > Len(queue[w]) \/ ctx = "cancelled"
    /\ Goto(w, "finished")
    /\ UNCHANGED <<arguments, ctx, next, child, local, processes, tracer, channels, saved, returned>>

\* Faulty loop: the end of the queue is not noticed.
TakeWithoutBound(w) ==
    /\ pc[w] = "loop"
    /\ ctx = "live"
    /\ Goto(w, "planned")
    /\ UNCHANGED <<arguments, ctx, next, child, local, processes, tracer, channels, saved, returned>>

TakeTest(w) ==
    /\ pc[w] = "loop"
    /\ next[w] <= Len(queue[w])
    /\ ctx = "live"
    /\ Goto(w, "planned")
    /\ UNCHANGED <<arguments, ctx, next, child, local, processes, tracer, channels, saved, returned>>

\* waitForPlannedStart: an elapsed offset wins even when the context is
\* cancelled; executeOne derives its context from the worker's.
PlannedStart(w) ==
    /\ pc[w] = "planned"
    /\ \/ /\ Goto(w, "start")
          /\ child' = [child EXCEPT ![w] = ctx]
       \/ /\ ctx = "cancelled"
          /\ Goto(w, "finished")
          /\ UNCHANGED child
    /\ UNCHANGED <<arguments, ctx, next, local, processes, tracer, channels, saved, returned>>

\* Start refuses a context that is done, and may fail for other reasons.
StartFails(w) ==
    /\ pc[w] = "start"
    /\ Outcome(w, "none", {"start"})
    /\ Release(w)
    /\ Goto(w, "deliver")
    /\ UNCHANGED <<arguments, ctx, next, processes, tracer, channels, saved, returned>>

StartSucceeds(w) ==
    /\ pc[w] = "start"
    /\ child[w] = "live"
    /\ leader' = [leader EXCEPT ![Current(w)] = "running"]
    /\ Goto(w, IF traced THEN "register" ELSE "wait")
    /\ UNCHANGED <<arguments, ctx, next, child, local, family, tracer, channels, saved, returned>>
-----------------------------------------------------------------------------
(***************************************************************************)
(* Registration with the tracer.                                           *)
(***************************************************************************)

\* The cgroup is made, the execution announced (which needs a live context)
\* and the leader moved into the cgroup.
Register(w) ==
    /\ pc[w] = "register"
    /\ child[w] = "live"
    /\ registered' = registered \cup {Current(w)}
    /\ cgroups' = cgroups \cup {Current(w)}
    /\ Goto(w, "wait")
    /\ UNCHANGED <<arguments, ctx, next, child, local, processes, channels, saved, returned>>

\* Making the cgroup, announcing the execution or moving the leader failed.
\* In the last case the execution is unregistered again, if that message gets
\* through.  Only the leader is killed.
RegisterFails(w) ==
    /\ pc[w] = "register"
    /\ registered' \in {registered, registered \cup {Current(w)}}
    /\ KillLeader(Current(w))
    /\ Outcome(w, "none", {"register"})
    /\ Goto(w, "abort")
    /\ UNCHANGED <<arguments, ctx, next, child, family, cgroups, channels, saved, returned>>
-----------------------------------------------------------------------------
(***************************************************************************)
(* The end of an execution.                                                *)
(***************************************************************************)

\* Wait reaps the leader.
Reap(w) ==
    /\ pc[w] \in {"wait", "abort"}
    /\ leader[Current(w)] # "running"
    /\ Goto(w, IF pc[w] = "wait" THEN "drain" ELSE "abortDrain")
    /\ UNCHANGED <<arguments, ctx, next, child, local, processes, tracer, channels, saved, returned>>

\* Wait returns when nobody holds the output pipes any more; from Reap on the
\* context is not watched.
Drain(w) ==
    /\ pc[w] \in {"drain", "abortDrain"}
    /\ family[Current(w)] # "pipe"
    /\ IF pc[w] = "drain"
       THEN Goto(w, "kill") /\ UNCHANGED child
       ELSE Goto(w, "deliver") /\ Release(w)
    /\ UNCHANGED <<arguments, ctx, next, local, processes, tracer, channels, saved, returned>>

\* Faulty end: the process group is not killed.
KeepGroup(w) ==
    /\ pc[w] = "kill"
    /\ Outcome(w, "none", {})
    /\ Goto(w, "cleanup")
    /\ UNCHANGED <<arguments, ctx, next, child, processes, tracer, channels, saved, returned>>

\* The process group is killed; that fails when the descendants left in it
\* may not be signalled.
KillGroup(w) ==
    /\ pc[w] = "kill"
    /\ \/ KillFamily(Current(w)) /\ Outcome(w, "none", {})
       \/ Alive(Current(w)) /\ UNCHANGED family /\ Outcome(w, "none", {"descendants"})
    /\ Goto(w, "cleanup")
    /\ UNCHANGED <<arguments, ctx, next, child, leader, tracer, channels, saved, returned>>

\* Faulty cleanup: the cgroup is removed only when the message got through,
\* and the failed removal is not reported.
CleanupForgetsRemove(w) ==
    LET t == Current(w)
    IN  /\ pc[w] = "cleanup"
        /\ \E sent \in BOOLEAN, removed \in IF family[t] = "none" THEN {TRUE} ELSE BOOLEAN :
              /\ registered' = IF sent THEN registered \ {t} ELSE registered
              /\ cgroups' = IF removed THEN cgroups \ {t} ELSE cgroups
              /\ local' = [local EXCEPT ![w].errs =
                              IF traced /\ ~sent THEN @ \cup {"cleanup"} ELSE @]
        /\ Goto(w, "status")
        /\ UNCHANGED <<arguments, ctx, next, child, processes, channels, saved, returned>>

\* The execution is unregistered and its cgroup removed, which fails while a
\* descendant is still in it (a killed one may be on its way out); a failure
\* of either is an error.
Cleanup(w) ==
    LET t == Current(w)
    IN  /\ pc[w] = "cleanup"
        /\ \E sent \in BOOLEAN, removed \in IF family[t] = "none" THEN {TRUE} ELSE BOOLEAN :
              /\ registered' = IF sent THEN registered \ {t} ELSE registered
              /\ cgroups' = IF removed THEN cgroups \ {t} ELSE cgroups
              /\ local' = [local EXCEPT ![w].errs =
                              IF traced /\ ~(sent /\ removed) THEN @ \cup {"cleanup"} ELSE @]
        /\ Goto(w, "status")
        /\ UNCHANGED <<arguments, ctx, next, child, processes, channels, saved, returned>>

\* The status an exit stands for when the context is still live.
ExitStatus(exit) ==
    CASE exit = "pass" -> "PASSED"
      [] exit \in {"fail", "killed"} -> "FAILED"
      [] exit = "lost" -> "INFRA_ERROR"

\* Faulty status: the exit is looked at before the context.
ExitFirst(w) ==
    IF child[w] = "expired" /\ leader[Current(w)] # "killed" THEN "TIMED_OUT"
    ELSE ExitStatus(leader[Current(w)])

\* The context is looked at before the exit.
StatusOf(w) ==
    CASE child[w] = "expired" -> "TIMED_OUT"
      [] child[w] = "cancelled" -> "CANCELLED"
      [] child[w] = "live" -> ExitStatus(leader[Current(w)])

SetStatus(w) ==
    /\ pc[w] = "status"
    /\ local' = [local EXCEPT ![w].status = StatusOf(w)]
    /\ Release(w)
    /\ Goto(w, "deliver")
    /\ UNCHANGED <<arguments, ctx, next, processes, tracer, channels, saved, returned>>
-----------------------------------------------------------------------------
(***************************************************************************)
(* Delivery of the outcome.                                                *)
(***************************************************************************)

\* An execution that never got going has no result.
SkipResult(w) ==
    /\ pc[w] = "deliver"
    /\ local[w].status = "none"
    /\ Goto(w, "report")
    /\ UNCHANGED <<arguments, ctx, next, child, local, processes, tracer, channels, saved, returned>>

SendResult(w) ==
    /\ pc[w] = "deliver"
    /\ local[w].status # "none"
    /\ Cardinality(results) < ResultCapacity
    /\ results' = results \cup {[test |-> Current(w), status |-> local[w].status]}
    /\ Goto(w, "save")
    /\ UNCHANGED <<arguments, ctx, next, child, local, processes, tracer, errors, saved, returned>>

\* SaveExecution runs under the workers' context.
Save(w) ==
    /\ pc[w] = "save"
    /\ ctx = "live"
    /\ saved' = saved \cup {Current(w)}
    /\ Goto(w, "report")
    /\ UNCHANGED <<arguments, ctx, next, child, local, processes, tracer, channels, returned>>

\* Faulty failure: a cancelled context is not an error.
SaveForgives(w) ==
    /\ pc[w] = "save"
    /\ Goto(w, IF ctx = "cancelled" THEN "report" ELSE "persist")
    /\ UNCHANGED <<arguments, ctx, next, child, local, processes, tracer, channels, saved, returned>>

SaveFails(w) ==
    /\ pc[w] = "save"
    /\ Goto(w, "persist")
    /\ UNCHANGED <<arguments, ctx, next, child, local, processes, tracer, channels, saved, returned>>

SendPersistError(w) ==
    /\ pc[w] = "persist"
    /\ Cardinality(errors) < ErrorCapacity
    /\ errors' = errors \cup {[test |-> Current(w), errs |-> {"persist"}]}
    /\ Goto(w, "report")
    /\ UNCHANGED <<arguments, ctx, next, child, local, processes, tracer, results, saved, returned>>

\* Faulty report: an infrastructure error ends the worker.
ErrorEndsWorker(w) ==
    /\ pc[w] = "report"
    /\ local[w].errs # {}
    /\ Cardinality(errors) < ErrorCapacity
    /\ errors' = errors \cup {[test |-> Current(w), errs |-> local[w].errs]}
    /\ IF failFast THEN CancelAll ELSE UNCHANGED <<ctx, child>>
    /\ Goto(w, "finished")
    /\ UNCHANGED <<arguments, next, local, processes, tracer, results, saved, returned>>

\* An infrastructure error is sent (the parts of one execution joined) and the
\* worker goes on with its next test, unless failFast cancels the run.
ReportError(w) ==
    /\ pc[w] = "report"
    /\ local[w].errs # {}
    /\ Cardinality(errors) < ErrorCapacity
    /\ errors' = errors \cup {[test |-> Current(w), errs |-> local[w].errs]}
    /\ IF failFast THEN CancelAll ELSE UNCHANGED <<ctx, child>>
    /\ next' = [next EXCEPT ![w] = @ + 1]
    /\ Outcome(w, "none", {})
    /\ Goto(w, "loop")
    /\ UNCHANGED <<arguments, processes, tracer, results, saved, returned>>

\* Under failFast a test that did not pass cancels the run.
FailFast(w) ==
    /\ pc[w] = "report"
    /\ local[w].errs = {}
    /\ failFast /\ local[w].status # "PASSED"
    /\ CancelAll
    /\ Goto(w, "finished")
    /\ UNCHANGED <<arguments, next, local, processes, tracer, channels, saved, returned>>

Advance(w) ==
    /\ pc[w] = "report"
    /\ local[w].errs = {}
    /\ ~failFast \/ local[w].status = "PASSED"
    /\ next' = [next EXCEPT ![w] = @ + 1]
    /\ Outcome(w, "none", {})
    /\ Goto(w, "loop")
    /\ UNCHANGED <<arguments, ctx, child, processes, tracer, channels, saved, returned>>

\* Faulty return: a cancelled context does not wait for the workers.
ReturnOnCancel ==
    /\ ~returned
    /\ ctx = "cancelled" \/ \A w \in Lanes : pc[w] = "finished"
    /\ returned' = TRUE
    /\ UNCHANGED <<arguments, ctx, pc, next, child, local, processes, tracer, channels, saved>>

\* Execute drains the channels and returns once every worker is finished,
\* whether or not the context was cancelled.
Return ==
    /\ ~returned
    /\ \A w \in Lanes : pc[w] = "finished"
    /\ returned' = TRUE
    /\ UNCHANGED <<arguments, ctx, pc, next, child, local, processes, tracer, channels, saved>>

Done == returned /\ UNCHANGED vars
-----------------------------------------------------------------------------
Work(w) ==
    \/ LoopEnds(w) \/ TakeTest(w) \/ PlannedStart(w)
    \/ StartFails(w) \/ StartSucceeds(w)
    \/ Register(w) \/ RegisterFails(w)
    \/ Reap(w) \/ Drain(w) \/ KillGroup(w) \/ Cleanup(w) \/ SetStatus(w)
    \/ SkipResult(w) \/ SendResult(w)
    \/ Save(w) \/ SaveFails(w) \/ SendPersistError(w)
    \/ ReportError(w) \/ FailFast(w) \/ Advance(w)

Environment ==
    \/ Interrupt
    \/ \E w \in Lanes : Timeout(w) \/ WatchKills(w)
    \/ \E t \in Tests : Spawn(t) \/ LeaderExits(t) \/ FamilyEnds(t)

ExecuteStep == (\E w \in Lanes : Work(w)) \/ Environment \/ Return

Next == ExecuteStep \/ Done

Spec == Init /\ [][Next]_vars
-----------------------------------------------------------------------------
(***************************************************************************)
(* Properties.                                                             *)
(***************************************************************************)

Labels == {"loop", "planned", "start", "register", "wait", "drain", "abort", "abortDrain",
           "kill", "cleanup", "status", "deliver", "save", "persist", "report", "finished"}
Statuses == {"PASSED", "FAILED", "TIMED_OUT", "CANCELLED", "INFRA_ERROR"}
Failures == {"start", "register", "descendants", "cleanup", "persist"}

\* Type invariant of the state of Execute.
TypeOK ==
    /\ queue \in Queues
    /\ failFast \in FailFasts
    /\ traced \in Tracings
    /\ ctx \in {"live", "cancelled"}
    /\ pc \in [Lanes -> Labels]
    /\ next \in [Lanes -> Nat \ {0}]
    /\ \A w \in Lanes : pc[w] \notin {"loop", "finished"} => next[w] <= Len(queue[w])
    /\ child \in [Lanes -> {"live", "cancelled", "expired"}]
    /\ local \in [Lanes -> [status : Statuses \cup {"none"}, errs : SUBSET Failures]]
    /\ leader \in [Tests -> {"none", "running", "pass", "fail", "lost", "killed"}]
    /\ family \in [Tests -> {"none", "quiet", "pipe", "gone"}]
    /\ registered \subseteq Tests
    /\ cgroups \subseteq Tests
    /\ results \subseteq [test : Tests, status : Statuses]
    /\ errors \subseteq [test : Tests, errs : SUBSET Failures]
    /\ saved \subseteq Tests
    /\ returned \in BOOLEAN

Reported(t) == \E e \in errors : e.test = t
HasResult(t) == \E r \in results : r.test = t

\* A worker that has something to send finds room in the channel: the
\* channels are drained only after every worker has finished, so a full one
\* would block Execute for ever.
SendNeverBlocks ==
    \A w \in Lanes :
        /\ pc[w] = "deliver" /\ local[w].status # "none" => Cardinality(results) < ResultCapacity
        /\ pc[w] = "persist" \/ (pc[w] = "report" /\ local[w].errs # {}) =>
              Cardinality(errors) < ErrorCapacity

\* A run that was not cancelled skips no test silently: when Execute returns,
\* every scheduled test has a result or an error of its own.
NoSilentSkip ==
    returned /\ ctx = "live" => \A t \in Queued : HasResult(t) \/ Reported(t)

\* A result that is not in the store is reported: the caller learns of every
\* execution the store misses, interrupted runs included.
UnsavedIsReported ==
    returned => \A r \in results :
        r.test \in saved \/ [test |-> r.test, errs |-> {"persist"}] \in errors

\* Whatever an execution leaves behind when Execute returns (a tracer
\* registration, a cgroup, a live descendant) comes with an error naming it.
LeftoverIsReported ==
    returned => \A t \in Tests :
        t \in registered \cup cgroups \/ Alive(t) => Reported(t)

\* A verdict is the test's own: PASSED and FAILED are given only to a
\* subprocess that ended by itself in that way, never to one that a timeout
\* or a cancellation killed.
VerdictIsEarned ==
    \A r \in results :
        /\ r.status = "PASSED" => leader[r.test] = "pass"
        /\ r.status = "FAILED" => leader[r.test] = "fail"
=============================================================================
