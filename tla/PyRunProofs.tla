----------------------------- MODULE PyRunProofs -----------------------------
(***************************************************************************)
(* Proofs about the Python command, for every number of workers, every     *)
(* finite set of tests and every schedule: the executor implements         *)
(* TestRun, no process outlives execute, fail_fast lets at most one more   *)
(* test per other worker start, and a run that is stored as COMPLETED      *)
(* passed every collected test.                                            *)
(*                                                                         *)
(* The argument is about where a test is: in one queue, in one hand, or    *)
(* among the results, and what its process has done there.                 *)
(***************************************************************************)
EXTENDS PyRun, FiniteSetTheorems, TLAPS

Pending == {"sleep", "spawn"}
Waiting == {"wait", "grace"}
Holding(w) == pc[w] \in Pending \cup Waiting
Statuses == {"PASSED", "FAILED", "TIMED_OUT", "INFRA_ERROR"}

HasResult(t) == \E i \in 1 .. Len(results) : results[i].test = t

ExecTypes ==
    /\ failFast \in BOOLEAN
    /\ queue \in [Lanes -> Seq(Tests)]
    /\ pc \in [Lanes -> {"loop"} \cup Pending \cup Waiting \cup Ended]
    /\ item \in [Lanes -> Tests \cup {NoTest}]
    /\ stopping \subseteq Lanes
    /\ cancelled \in BOOLEAN
    /\ leader \in [Tests -> {"none", "alive", "ok", "bad", "killed"}]
    /\ family \in [Tests -> {"none", "quiet", "pipe"}]
    /\ results \in Seq([test : Tests, status : Statuses])
    /\ late \subseteq Tests
    /\ main \in {"idle", "running", "interrupted", "returned", "raised"}

\* A queued test is in one place, and nothing was done for it.
QueueInv ==
    /\ \A v, w \in Lanes : \A i \in 1 .. Len(queue[v]), j \in 1 .. Len(queue[w]) :
          queue[v][i] = queue[w][j] => v = w /\ i = j
    /\ \A w \in Lanes : \A i \in 1 .. Len(queue[w]) :
          leader[queue[w][i]] = "none" /\ ~HasResult(queue[w][i])

\* A test in hand is in one hand and in no queue, without a result.
HandInv ==
    /\ \A w \in Lanes : Holding(w) => item[w] \in Tests /\ ~HasResult(item[w])
    /\ \A v, w \in Lanes : Holding(v) /\ Holding(w) /\ item[v] = item[w] => v = w
    /\ \A v, w \in Lanes : Holding(v) => \A i \in 1 .. Len(queue[w]) : queue[w][i] # item[v]

\* The process of a test is started by the worker that holds it, and lives no
\* longer than it is waited for.
ProcessInv ==
    /\ \A w \in Lanes : pc[w] \in Pending => leader[item[w]] = "none"
    /\ \A w \in Lanes : pc[w] = "wait" => leader[item[w]] \in {"alive", "ok", "bad"}
    /\ \A w \in Lanes : pc[w] = "grace" => leader[item[w]] # "none"
    /\ \A t \in Tests : leader[t] = "alive" => \E w \in Lanes : pc[w] \in Waiting /\ item[w] = t

\* One result per test; a test that passed ended well.
ResultInv ==
    /\ \A i, j \in 1 .. Len(results) : results[i].test = results[j].test => i = j
    /\ \A i \in 1 .. Len(results) : results[i].status = "PASSED" => leader[results[i].test] = "ok"

\* The tasks and the coroutine that gathers them.
MainInv ==
    /\ main = "idle" => /\ results = <<>>
                        /\ \A w \in Lanes : pc[w] = "loop"
                        /\ \A t \in Tests : leader[t] = "none"
    /\ main # "interrupted" => stopping = {}
    /\ main \in {"idle", "running", "returned"} => \A w \in Lanes : pc[w] # "cancelled"
    /\ main = "interrupted" => \A w \in Lanes : pc[w] \in Ended \/ w \in stopping
    /\ main = "returned" => \A w \in Lanes : pc[w] = "end"
    /\ main = "raised" => \A w \in Lanes : pc[w] \in Ended
    /\ \A w \in stopping : pc[w] \notin Ended

\* The flag is set by a bad result under fail_fast, and while nothing was
\* interrupted by nothing else; a worker ends for it or for an empty queue.
FlagInv ==
    /\ failFast /\ BadResult => cancelled
    /\ ~(failFast /\ BadResult) => late = {}
    /\ main \in {"idle", "running", "returned"} /\ cancelled => BadResult
    /\ main \in {"running", "returned"} => \A w \in Lanes : pc[w] = "end" => cancelled \/ queue[w] = <<>>

\* Workers that may still start the test in their hand.
AboutToStart == {w \in Lanes : pc[w] \in Pending}

LateInv ==
    failFast /\ BadResult => Cardinality(late) + Cardinality(AboutToStart) <= Workers - 1

ExecInv == ExecTypes /\ QueueInv /\ HandInv /\ ProcessInv /\ ResultInv /\ MainInv /\ FlagInv /\ LateInv
-----------------------------------------------------------------------------
(***************************************************************************)
(* Counting workers.                                                       *)
(***************************************************************************)

\* There are Workers lanes.
LEMMA LanesFinite == IsFiniteSet(Lanes) /\ Cardinality(Lanes) = Workers
<1>1. Workers \in Nat \ {0} /\ 0 \in Int /\ Workers - 1 \in Int
  BY PyExecutorAssumption
<1>2. IsFiniteSet(0 .. Workers - 1) /\ Cardinality(0 .. Workers - 1) = IF 0 > Workers - 1 THEN 0 ELSE Workers - 1 - 0 + 1
  BY <1>1, FS_Interval
<1> QED
  BY <1>1, <1>2 DEF Lanes

\* Sets of lanes and of tests are finite.
LEMMA Finite ==
    /\ \A S : S \subseteq Lanes => IsFiniteSet(S) /\ Cardinality(S) \in Nat
    /\ \A S : S \subseteq Tests => IsFiniteSet(S) /\ Cardinality(S) \in Nat
  BY LanesFinite, PyExecutorAssumption, FS_Subset, FS_CardinalityType

\* The bound on late starts holds on while nobody takes or starts a test.
LEMMA LateKeeps ==
    ASSUME ExecInv, late' = late, failFast' = failFast, BadResult' <=> BadResult,
           AboutToStart' \subseteq AboutToStart
    PROVE  LateInv'
<1>1. AboutToStart \subseteq Lanes /\ late \subseteq Tests /\ Workers \in Nat
  BY PyExecutorAssumption DEF AboutToStart, ExecInv, ExecTypes
<1>2. /\ IsFiniteSet(AboutToStart) /\ Cardinality(AboutToStart) \in Nat /\ Cardinality(late) \in Nat
      /\ Cardinality(AboutToStart') \in Nat
  BY <1>1, Finite
<1>3. Cardinality(AboutToStart') <= Cardinality(AboutToStart)
  BY <1>2, FS_Subset
<1> QED
  BY <1>1, <1>2, <1>3 DEF ExecInv, LateInv

\* The first bad result comes from a worker that has nothing in hand any more,
\* and the tests of the others are few.
LEMMA FirstBadResult ==
    ASSUME ExecInv, late' = {}, NEW w \in Lanes, AboutToStart' \subseteq Lanes \ {w}
    PROVE  LateInv'
<1>1. IsFiniteSet(Lanes \ {w}) /\ Cardinality(Lanes \ {w}) = Workers - 1
  BY LanesFinite, FS_RemoveElement
<1>2. Cardinality(AboutToStart') <= Workers - 1
  BY <1>1, FS_Subset
<1>3. Cardinality(AboutToStart') \in Nat /\ Workers \in Nat
  BY Finite, PyExecutorAssumption
<1>4. Cardinality({}) = 0
  BY FS_EmptySet
<1> QED
  BY <1>2, <1>3, <1>4 DEF LateInv

\* A late start: one more test, one worker less.
LEMMA LateStart ==
    ASSUME ExecInv, failFast' = failFast, BadResult' <=> BadResult,
           NEW w \in Lanes, w \in AboutToStart, AboutToStart' = AboutToStart \ {w},
           NEW t \in Tests, late' = IF failFast /\ BadResult THEN late \cup {t} ELSE late
    PROVE  LateInv'
<1>1. AboutToStart \subseteq Lanes /\ late \subseteq Tests /\ Workers \in Nat
  BY PyExecutorAssumption DEF AboutToStart, ExecInv, ExecTypes
<1>2. /\ IsFiniteSet(AboutToStart) /\ Cardinality(AboutToStart) \in Nat
      /\ IsFiniteSet(late) /\ Cardinality(late) \in Nat
  BY <1>1, Finite
<1>3. Cardinality(AboutToStart \ {w}) = Cardinality(AboutToStart) - 1
  BY <1>2, FS_RemoveElement
<1>4. Cardinality(late \cup {t}) = IF t \in late THEN Cardinality(late) ELSE Cardinality(late) + 1
  BY <1>2, FS_AddElement
<1> QED
  BY <1>1, <1>2, <1>3, <1>4 DEF ExecInv, LateInv
\* What a sequence holds.
LEMMA ElementOfSeq ==
    ASSUME NEW S, NEW s \in Seq(S), NEW i \in 1 .. Len(s)
    PROVE  s[i] \in S
  OBVIOUS

\* A result is a record of a test and a status.
LEMMA ResultFields ==
    ASSUME ExecTypes, NEW i \in 1 .. Len(results)
    PROVE  results[i].test \in Tests /\ results[i].status \in Statuses
<1>1. results \in Seq([test : Tests, status : Statuses])
  BY DEF ExecTypes
<1>2. results[i] \in [test : Tests, status : Statuses]
  BY <1>1, ElementOfSeq
<1> QED
  BY <1>2
-----------------------------------------------------------------------------
(***************************************************************************)
(* Worker steps that change the control point only.                        *)
(***************************************************************************)

\* Leaving the loop, waking up and timing out keep the invariant.
LEMMA StillInv ==
    ASSUME ExecInv, NEW w \in Lanes, LeaveLoop(w) \/ Wake(w) \/ TimeOut(w)
    PROVE  ExecInv'
<1>1. /\ UNCHANGED <<failFast, queue, item, stopping, cancelled, leader, family, results, late, main>>
      /\ pc \in [Lanes -> {"loop"} \cup Pending \cup Waiting \cup Ended]
      /\ \/ pc[w] = "loop" /\ pc' = [pc EXCEPT ![w] = "end"] /\ (cancelled \/ queue[w] = <<>>) /\ main = "running"
         \/ pc[w] = "sleep" /\ pc' = [pc EXCEPT ![w] = "spawn"]
         \/ pc[w] = "wait" /\ pc' = [pc EXCEPT ![w] = "grace"]
      /\ w \notin stopping
  BY DEF LeaveLoop, Wake, TimeOut, InLoop, Goto, processes, ExecInv, ExecTypes
<1>2. /\ \A v \in Lanes : Holding(v)' <=> Holding(v)
      /\ \A v \in Lanes : pc'[v] \in Pending <=> pc[v] \in Pending
      /\ \A v \in Lanes : pc'[v] \in Waiting <=> pc[v] \in Waiting
  BY <1>1 DEF Holding, Pending, Waiting
<1>3. /\ \A t : HasResult(t)' <=> HasResult(t)
      /\ BadResult' <=> BadResult
  BY <1>1 DEF HasResult, BadResult
<1>4. ExecTypes'
  BY <1>1 DEF ExecInv, ExecTypes, Pending, Waiting, Ended
<1>5. QueueInv' /\ HandInv'
  BY <1>1, <1>2, <1>3 DEF ExecInv, QueueInv, HandInv
<1>6. ProcessInv'
  BY <1>1, <1>2 DEF ExecInv, ProcessInv
<1>7. ResultInv'
  BY <1>1 DEF ExecInv, ResultInv
<1>8. MainInv'
  <2>1. main \notin {"idle", "returned", "raised"}
    BY <1>1 DEF ExecInv, MainInv, Ended
  <2> QED
    BY <1>1, <2>1 DEF ExecInv, MainInv, Ended
<1>9. FlagInv'
  BY <1>1, <1>3 DEF ExecInv, FlagInv
<1>10. LateInv'
  <2>1. AboutToStart' = AboutToStart
    BY <1>2 DEF AboutToStart
  <2> QED
    BY <1>1, <1>3, <2>1, LateKeeps
<1> QED
  BY <1>4, <1>5, <1>6, <1>7, <1>8, <1>9, <1>10 DEF ExecInv

\* A worker takes the first test of its queue into its hand.
LEMMA TakeInv ==
    ASSUME ExecInv, NEW w \in Lanes, TakeNext(w)
    PROVE  ExecInv'
<1>1. /\ UNCHANGED <<failFast, stopping, cancelled, leader, family, results, late, main>>
      /\ main = "running" /\ pc[w] = "loop" /\ ~cancelled /\ queue[w] # <<>> /\ w \notin stopping
  BY DEF TakeNext, InLoop, processes
<1>2. PICK label \in Pending : pc' = [pc EXCEPT ![w] = label]
  BY DEF TakeNext, Goto, Pending
<1>3. PICK t : t = Head(queue[w]) /\ item' = [item EXCEPT ![w] = t]
  BY DEF TakeNext
<1>4. /\ queue \in [Lanes -> Seq(Tests)] /\ queue' = [queue EXCEPT ![w] = Tail(queue[w])]
      /\ pc \in [Lanes -> {"loop"} \cup Pending \cup Waiting \cup Ended]
      /\ item \in [Lanes -> Tests \cup {NoTest}]
  BY DEF TakeNext, ExecInv, ExecTypes
<1>5. /\ Len(queue[w]) \in Nat \ {0} /\ t = queue[w][1] /\ t \in Tests
      /\ Len(queue'[w]) = Len(queue[w]) - 1 /\ queue'[w] \in Seq(Tests)
      /\ \A i \in 1 .. Len(queue'[w]) : queue'[w][i] = queue[w][i + 1] /\ i + 1 \in 1 .. Len(queue[w])
      /\ \A v \in Lanes : v # w => queue'[v] = queue[v]
  BY <1>1, <1>3, <1>4
<1>6. /\ pc'[w] = label /\ item'[w] = t
      /\ \A v \in Lanes : v # w => pc'[v] = pc[v] /\ item'[v] = item[v]
      /\ Holding(w)' /\ \A v \in Lanes : v # w => (Holding(v)' <=> Holding(v))
  BY <1>2, <1>3, <1>4 DEF Holding
<1>7. /\ \A u : HasResult(u)' <=> HasResult(u)
      /\ BadResult' <=> BadResult
  BY <1>1 DEF HasResult, BadResult
<1>8. /\ leader[t] = "none" /\ ~HasResult(t)
      /\ \A v \in Lanes : \A i \in 1 .. Len(queue[v]) : queue[v][i] = t => v = w /\ i = 1
      /\ \A v \in Lanes : Holding(v) => item[v] # t
  BY <1>5 DEF ExecInv, QueueInv, HandInv
<1>9. \A v \in Lanes : \A i \in 1 .. Len(queue'[v]) :
          \E j \in 1 .. Len(queue[v]) : queue'[v][i] = queue[v][j] /\ j = IF v = w THEN i + 1 ELSE i
  BY <1>5
<1>10. ExecTypes'
  <2>1. queue' \in [Lanes -> Seq(Tests)]
    BY <1>4, <1>5
  <2>2. pc' \in [Lanes -> {"loop"} \cup Pending \cup Waiting \cup Ended] /\ item' \in [Lanes -> Tests \cup {NoTest}]
    BY <1>2, <1>3, <1>4, <1>5
  <2> QED
    BY <1>1, <2>1, <2>2 DEF ExecInv, ExecTypes
<1>11. QueueInv'
  <2>1. ASSUME NEW u \in Lanes, NEW v \in Lanes, NEW i \in 1 .. Len(queue'[u]), NEW j \in 1 .. Len(queue'[v]),
               queue'[u][i] = queue'[v][j]
        PROVE  u = v /\ i = j
    <3>1. PICK k \in 1 .. Len(queue[u]) : queue'[u][i] = queue[u][k] /\ k = IF u = w THEN i + 1 ELSE i
      BY <1>9
    <3>2. PICK l \in 1 .. Len(queue[v]) : queue'[v][j] = queue[v][l] /\ l = IF v = w THEN j + 1 ELSE j
      BY <1>9
    <3>3. queue[u][k] = queue[v][l] /\ QueueInv
      BY <2>1, <3>1, <3>2 DEF ExecInv
    <3>4. u = v /\ k = l
      BY <3>3 DEF QueueInv
    <3> QED
      BY <3>1, <3>2, <3>4
  <2>2. ASSUME NEW v \in Lanes, NEW i \in 1 .. Len(queue'[v])
        PROVE  leader[queue'[v][i]] = "none" /\ ~HasResult(queue'[v][i])
    BY <1>9, SMTT(30) DEF ExecInv, QueueInv
  <2> QED
    BY <1>1, <1>7, <2>1, <2>2 DEF QueueInv
<1>12. HandInv'
  <2>1. ASSUME NEW v \in Lanes, Holding(v)' PROVE item'[v] \in Tests /\ ~HasResult(item'[v])
    BY <1>5, <1>6, <1>8, <2>1 DEF ExecInv, HandInv
  <2>2. ASSUME NEW u \in Lanes, NEW v \in Lanes, Holding(u)', Holding(v)', item'[u] = item'[v] PROVE u = v
    BY <1>6, <1>8, <2>2 DEF ExecInv, HandInv
  <2>3. ASSUME NEW u \in Lanes, NEW v \in Lanes, Holding(u)', NEW i \in 1 .. Len(queue'[v])
        PROVE  queue'[v][i] # item'[u]
    <3>1. PICK j \in 1 .. Len(queue[v]) : queue'[v][i] = queue[v][j] /\ j = IF v = w THEN i + 1 ELSE i
      BY <1>9
    <3>2. CASE u = w
      BY <1>6, <1>8, <3>1, <3>2
    <3>3. CASE u # w
      BY <1>6, <2>3, <3>1, <3>3 DEF ExecInv, HandInv
    <3> QED
      BY <3>2, <3>3
  <2> QED
    BY <1>7, <2>1, <2>2, <2>3 DEF HandInv
<1>13. ProcessInv'
  <2>1. ASSUME NEW v \in Lanes
        PROVE  /\ pc'[v] \in Pending => leader[item'[v]] = "none"
               /\ pc'[v] = "wait" => leader[item'[v]] \in {"alive", "ok", "bad"}
               /\ pc'[v] = "grace" => leader[item'[v]] # "none"
    BY <1>6, <1>8 DEF ExecInv, ProcessInv, Pending
  <2>2. ASSUME NEW u \in Tests, leader[u] = "alive" PROVE \E v \in Lanes : pc'[v] \in Waiting /\ item'[v] = u
    <3>1. PICK v \in Lanes : pc[v] \in Waiting /\ item[v] = u
      BY <2>2 DEF ExecInv, ProcessInv
    <3>2. v # w
      BY <1>1, <3>1 DEF Waiting
    <3> QED
      BY <1>6, <3>1, <3>2
  <2> QED
    BY <1>1, <2>1, <2>2 DEF ProcessInv
<1>14. ResultInv'
  BY <1>1 DEF ExecInv, ResultInv
<1>15. MainInv'
  BY <1>1, <1>2, <1>6 DEF ExecInv, MainInv, Ended, Pending
<1>16. FlagInv'
  BY <1>1, <1>2, <1>5, <1>6, <1>7 DEF ExecInv, FlagInv, Pending
<1>17. LateInv'
  BY <1>1, <1>7 DEF ExecInv, FlagInv, LateInv
<1> QED
  BY <1>10, <1>11, <1>12, <1>13, <1>14, <1>15, <1>16, <1>17 DEF ExecInv
-----------------------------------------------------------------------------
(***************************************************************************)
(* Results.                                                                *)
(***************************************************************************)

\* How a result fits the end of the process.
Fits(process, status) ==
    \/ process = "none" /\ status = "INFRA_ERROR"
    \/ process = "ok" /\ status \in {"PASSED", "TIMED_OUT"}
    \/ process = "bad" /\ status \in {"FAILED", "TIMED_OUT"}
    \/ process = "killed" /\ status = "TIMED_OUT"

\* The steps that end with a result, and what they know of the process.
Reports(w, status) ==
    /\ pc[w] \in {"spawn", "wait", "grace"} /\ w \notin stopping
    /\ Finish(w, status)
    /\ status \in Statuses
    /\ Fits(leader[item[w]], status)
    /\ UNCHANGED <<failFast, queue, stopping, leader, family, late, main>>

\* The steps that end a test report a status that fits its process.
LEMMA ReportSteps ==
    ASSUME ExecInv, NEW w \in Lanes,
           SpawnFails(w) \/ Communicate(w) \/ TimeOutAfterExit(w) \/ Reaped(w)
    PROVE  \E status \in Statuses : Reports(w, status)
<1>1. /\ pc[w] = "spawn" => leader[item[w]] = "none"
      /\ pc[w] = "wait" => leader[item[w]] \in {"alive", "ok", "bad"}
      /\ pc[w] = "grace" => leader[item[w]] \in {"alive", "ok", "bad", "killed"}
  <2>1. /\ pc[w] = "grace" => item[w] \in Tests
        /\ leader \in [Tests -> {"none", "alive", "ok", "bad", "killed"}]
    BY DEF ExecInv, ExecTypes, HandInv, Holding, Waiting
  <2> QED
    BY <2>1 DEF ExecInv, ProcessInv, Pending
<1>2. CASE SpawnFails(w)
  BY <1>1, <1>2 DEF SpawnFails, Reports, Fits, Statuses, processes
<1>3. CASE Communicate(w)
  BY <1>1, <1>3 DEF Communicate, Reports, Fits, Statuses, processes
<1>4. CASE TimeOutAfterExit(w) \/ Reaped(w)
  BY <1>1, <1>4 DEF TimeOutAfterExit, Reaped, Reports, Fits, Statuses, processes
<1> QED
  BY <1>2, <1>3, <1>4

\* What one more result changes.
LEMMA OneMoreResult ==
    ASSUME ExecInv, NEW w \in Lanes, NEW status \in Statuses, Reports(w, status)
    PROVE  /\ item[w] \in Tests /\ ~HasResult(item[w]) /\ Holding(w)
           /\ results' \in Seq([test : Tests, status : Statuses])
           /\ Len(results') = Len(results) + 1 /\ Len(results) \in Nat
           /\ \A i \in 1 .. Len(results) : results'[i] = results[i]
           /\ results'[Len(results) + 1] = [test |-> item[w], status |-> status]
           /\ \A u : HasResult(u)' <=> HasResult(u) \/ u = item[w]
           /\ BadResult' <=> BadResult \/ status # "PASSED"
<1>1. Holding(w) /\ item[w] \in Tests /\ ~HasResult(item[w])
  BY DEF Reports, Holding, Pending, Waiting, ExecInv, HandInv
<1>2. results \in Seq([test : Tests, status : Statuses]) /\ results' = Append(results, [test |-> item[w], status |-> status])
  BY DEF Reports, Finish, ExecInv, ExecTypes
<1>3. [test |-> item[w], status |-> status] \in [test : Tests, status : Statuses]
  BY <1>1
<1>4. /\ results' \in Seq([test : Tests, status : Statuses])
      /\ Len(results') = Len(results) + 1 /\ Len(results) \in Nat
      /\ DOMAIN results = 1 .. Len(results) /\ DOMAIN results' = 1 .. Len(results) + 1
      /\ \A i \in 1 .. Len(results) : results'[i] = results[i]
      /\ results'[Len(results) + 1] = [test |-> item[w], status |-> status]
  BY <1>2, <1>3
<1>5. \A i \in 1 .. Len(results) + 1 : i \in 1 .. Len(results) \/ i = Len(results) + 1
  BY <1>4
<1>6. ASSUME NEW u PROVE HasResult(u)' <=> HasResult(u) \/ u = item[w]
  <2>1. results'[Len(results) + 1].test = item[w] /\ Len(results) + 1 \in 1 .. Len(results) + 1
    BY <1>4
  <2>2. \A i \in 1 .. Len(results) : i \in 1 .. Len(results) + 1
    BY <1>4
  <2> QED
    BY <1>4, <1>5, <2>1, <2>2 DEF HasResult
<1>7. BadResult' <=> BadResult \/ status # "PASSED"
  <2>1. results'[Len(results) + 1].status = status /\ Len(results) + 1 \in 1 .. Len(results) + 1
    BY <1>4
  <2>2. \A i \in 1 .. Len(results) : i \in 1 .. Len(results) + 1
    BY <1>4
  <2> QED
    BY <1>4, <1>5, <2>1, <2>2 DEF BadResult
<1> QED
  BY <1>1, <1>4, <1>6, <1>7

\* A result keeps the invariant: the test leaves the hand for the results.
LEMMA ReportInv ==
    ASSUME ExecInv, NEW w \in Lanes, NEW status \in Statuses, Reports(w, status)
    PROVE  ExecInv'
<1>1. /\ UNCHANGED <<failFast, queue, stopping, leader, family, late, main>>
      /\ cancelled' = (cancelled \/ (failFast /\ status # "PASSED"))
      /\ item' = [item EXCEPT ![w] = NoTest] /\ pc' = [pc EXCEPT ![w] = "loop"]
      /\ pc[w] \in {"spawn", "wait", "grace"} /\ w \notin stopping
      /\ status = "PASSED" => leader[item[w]] = "ok"
      /\ leader[item[w]] # "alive"
  BY DEF Reports, Fits, Finish, Goto
<1>2. PICK t \in Tests : t = item[w] /\ ~HasResult(t) /\ Holding(w)
  BY OneMoreResult
<1>3. /\ results' \in Seq([test : Tests, status : Statuses])
      /\ Len(results') = Len(results) + 1 /\ Len(results) \in Nat
      /\ \A i \in 1 .. Len(results) : results'[i] = results[i]
      /\ results'[Len(results) + 1] = [test |-> t, status |-> status]
      /\ \A u : HasResult(u)' <=> HasResult(u) \/ u = t
      /\ BadResult' <=> BadResult \/ status # "PASSED"
  BY <1>2, OneMoreResult
<1>4. /\ pc'[w] = "loop" /\ ~Holding(w)'
      /\ \A v \in Lanes : v # w => pc'[v] = pc[v] /\ item'[v] = item[v] /\ (Holding(v)' <=> Holding(v))
  BY <1>1 DEF ExecInv, ExecTypes, Holding, Pending, Waiting
<1>5. ExecTypes'
  <2>1. pc' \in [Lanes -> {"loop"} \cup Pending \cup Waiting \cup Ended] /\ item' \in [Lanes -> Tests \cup {NoTest}]
    BY <1>1 DEF ExecInv, ExecTypes
  <2>2. cancelled' \in BOOLEAN
    BY <1>1
  <2> QED
    BY <1>1, <1>3, <2>1, <2>2 DEF ExecInv, ExecTypes
<1>6. \A v \in Lanes : \A i \in 1 .. Len(queue[v]) : queue[v][i] # t
  BY <1>2 DEF ExecInv, HandInv
<1>7. QueueInv'
  <2>1. QueueInv /\ queue' = queue /\ leader' = leader
    BY <1>1 DEF ExecInv
  <2>2. \A v \in Lanes : \A i \in 1 .. Len(queue[v]) : ~HasResult(queue[v][i])'
    <3> SUFFICES ASSUME NEW v \in Lanes, NEW i \in 1 .. Len(queue[v]), NEW u, u = queue[v][i], HasResult(u)'
                 PROVE  FALSE
      BY <2>1
    <3> QED
      BY <1>3, <1>6, <2>1 DEF QueueInv
  <2> QED
    BY <2>1, <2>2 DEF QueueInv
<1>8. HandInv'
  <2>1. \A v \in Lanes : v # w /\ Holding(v) => item[v] # t
    BY <1>2 DEF ExecInv, HandInv
  <2> QED
    BY <1>1, <1>3, <1>4, <2>1 DEF ExecInv, HandInv
<1>9. ProcessInv'
  <2>1. ASSUME NEW u \in Tests, leader[u] = "alive" PROVE \E v \in Lanes : pc'[v] \in Waiting /\ item'[v] = u
    <3>1. PICK v \in Lanes : pc[v] \in Waiting /\ item[v] = u
      BY <2>1 DEF ExecInv, ProcessInv
    <3>2. v # w
      BY <1>1, <2>1, <3>1
    <3> QED
      BY <1>4, <3>1, <3>2
  <2>2. ASSUME NEW v \in Lanes
        PROVE  /\ pc'[v] \in Pending => leader[item'[v]] = "none"
               /\ pc'[v] = "wait" => leader[item'[v]] \in {"alive", "ok", "bad"}
               /\ pc'[v] = "grace" => leader[item'[v]] # "none"
    <3>1. CASE v = w
      BY <1>4, <3>1 DEF Pending
    <3>2. CASE v # w
      BY <1>4, <3>2 DEF ExecInv, ProcessInv
    <3> QED
      BY <3>1, <3>2
  <2> QED
    BY <1>1, <2>1, <2>2 DEF ProcessInv
<1>10. ResultInv'
  <2>1. \A i \in 1 .. Len(results') : i \in 1 .. Len(results) \/ i = Len(results) + 1
    BY <1>3
  <2>2. \A i \in 1 .. Len(results) : results[i].test # t
    BY <1>2 DEF HasResult
  <2>3. results'[Len(results) + 1].test = t /\ results'[Len(results) + 1].status = status
    BY <1>3
  <2>4. ResultInv
    BY DEF ExecInv
  <2>5. \A i, j \in 1 .. Len(results') : results'[i].test = results'[j].test => i = j
    BY <1>3, <2>1, <2>2, <2>3, <2>4 DEF ResultInv
  <2>6. \A i \in 1 .. Len(results') : results'[i].status = "PASSED" => leader[results'[i].test] = "ok"
    BY <1>1, <1>2, <1>3, <2>1, <2>3, <2>4, SMTT(30) DEF ResultInv
  <2> QED
    BY <1>1, <2>5, <2>6 DEF ResultInv
<1>11. MainInv'
  <2>1. main \notin {"idle", "returned", "raised", "interrupted"}
    BY <1>1 DEF ExecInv, MainInv, Ended
  <2> QED
    BY <1>1, <1>4, <2>1 DEF ExecInv, MainInv, Ended
<1>12. FlagInv'
  BY <1>1, <1>3, <1>4 DEF ExecInv, FlagInv
<1>13. LateInv'
  <2>1. AboutToStart' \subseteq AboutToStart /\ AboutToStart' \subseteq Lanes \ {w}
    BY <1>4 DEF AboutToStart, Pending
  <2>2. CASE BadResult' <=> BadResult
    BY <1>1, <2>1, <2>2, LateKeeps
  <2>3. CASE ~BadResult
    <3>1. late' = {}
      BY <1>1, <2>3 DEF ExecInv, FlagInv
    <3> QED
      BY <2>1, <3>1, FirstBadResult
  <2> QED
    BY <1>3, <2>2, <2>3
<1> QED
  BY <1>5, <1>7, <1>8, <1>9, <1>10, <1>11, <1>12, <1>13 DEF ExecInv
-----------------------------------------------------------------------------
(***************************************************************************)
(* Processes.                                                              *)
(***************************************************************************)

\* The process of the test in hand is started.
LEMMA SpawnInv ==
    ASSUME ExecInv, NEW w \in Lanes, Spawn(w)
    PROVE  ExecInv'
<1>1. /\ UNCHANGED <<failFast, queue, item, stopping, cancelled, family, results, main>>
      /\ pc[w] = "spawn" /\ w \notin stopping /\ pc' = [pc EXCEPT ![w] = "wait"]
  BY DEF Spawn, Goto
<1>2. PICK t \in Tests : t = item[w] /\ ~HasResult(t) /\ Holding(w) /\ leader[t] = "none"
  BY <1>1 DEF ExecInv, HandInv, ProcessInv, Holding, Pending
<1>3. /\ leader'[t] = "alive" /\ \A u \in Tests : u # t => leader'[u] = leader[u]
      /\ leader' \in [Tests -> {"none", "alive", "ok", "bad", "killed"}]
      /\ late' = IF failFast /\ BadResult THEN late \cup {t} ELSE late
  BY <1>2 DEF Spawn, ExecInv, ExecTypes
<1>4. /\ pc'[w] = "wait" /\ Holding(w)'
      /\ \A v \in Lanes : v # w => pc'[v] = pc[v]
      /\ \A v \in Lanes : Holding(v)' <=> Holding(v)
  BY <1>1, <1>2 DEF ExecInv, ExecTypes, Holding, Waiting
<1>5. /\ \A u : HasResult(u)' <=> HasResult(u)
      /\ BadResult' <=> BadResult
  BY <1>1 DEF HasResult, BadResult
<1>6. /\ \A v \in Lanes : \A i \in 1 .. Len(queue[v]) : queue[v][i] # t
      /\ \A v \in Lanes : v # w /\ Holding(v) => item[v] # t /\ item[v] \in Tests
  BY <1>2 DEF ExecInv, HandInv
<1>7. ExecTypes'
  <2>1. pc' \in [Lanes -> {"loop"} \cup Pending \cup Waiting \cup Ended]
    BY <1>1 DEF ExecInv, ExecTypes, Waiting
  <2> QED
    BY <1>1, <1>3, <2>1 DEF ExecInv, ExecTypes
<1>8. QueueInv'
  <2>1. \A v \in Lanes : \A i \in 1 .. Len(queue[v]) : queue[v][i] \in Tests
    BY DEF ExecInv, ExecTypes
  <2>2. \A v \in Lanes : \A i \in 1 .. Len(queue[v]) : leader'[queue[v][i]] = "none"
    BY <1>3, <1>6, <2>1 DEF ExecInv, QueueInv
  <2> QED
    BY <1>1, <1>5, <2>2 DEF ExecInv, QueueInv
<1>9. HandInv'
  BY <1>1, <1>4, <1>5 DEF ExecInv, HandInv
<1>10. ProcessInv'
  <2>1. ASSUME NEW v \in Lanes
        PROVE  /\ pc'[v] \in Pending => leader'[item[v]] = "none"
               /\ pc'[v] = "wait" => leader'[item[v]] \in {"alive", "ok", "bad"}
               /\ pc'[v] = "grace" => leader'[item[v]] # "none"
    <3>1. CASE v = w
      BY <1>2, <1>3, <1>4, <3>1 DEF Pending
    <3>2. CASE v # w
      BY <1>3, <1>4, <1>6, <3>2 DEF ExecInv, ProcessInv, Holding, Pending, Waiting
    <3> QED
      BY <3>1, <3>2
  <2>2. ASSUME NEW u \in Tests, leader'[u] = "alive" PROVE \E v \in Lanes : pc'[v] \in Waiting /\ item[v] = u
    <3>1. CASE u = t
      BY <1>2, <1>4, <3>1 DEF Waiting
    <3>2. CASE u # t
      <4>1. PICK v \in Lanes : pc[v] \in Waiting /\ item[v] = u
        BY <1>3, <2>2, <3>2 DEF ExecInv, ProcessInv
      <4> QED
        BY <1>2, <1>4, <3>2, <4>1
    <3> QED
      BY <3>1, <3>2
  <2> QED
    BY <1>1, <2>1, <2>2 DEF ProcessInv
<1>11. ResultInv'
  <2>1. ResultInv /\ ExecTypes
    BY DEF ExecInv
  <2>2. ASSUME NEW i \in 1 .. Len(results) PROVE leader'[results[i].test] = leader[results[i].test]
    <3>1. results[i].test \in Tests
      BY <2>1, ResultFields
    <3>2. results[i].test \in Tests /\ results[i].test # t
      BY <1>2, <3>1 DEF HasResult
    <3> QED
      BY <1>3, <3>2
  <2> QED
    BY <1>1, <2>1, <2>2 DEF ResultInv
<1>12. MainInv'
  <2>1. main \notin {"idle", "returned", "raised", "interrupted"}
    BY <1>1 DEF ExecInv, MainInv, Ended
  <2> QED
    BY <1>1, <1>4, <2>1 DEF ExecInv, MainInv, Ended
<1>13. FlagInv'
  <2>1. \A v \in Lanes : pc'[v] = "end" => pc[v] = "end"
    BY <1>4
  <2> QED
    BY <1>1, <1>3, <1>5, <2>1 DEF ExecInv, FlagInv
<1>14. LateInv'
  <2>1. w \in AboutToStart /\ AboutToStart' = AboutToStart \ {w}
    BY <1>1, <1>4 DEF AboutToStart, Pending
  <2> QED
    BY <1>1, <1>3, <1>5, <2>1, LateStart
<1> QED
  BY <1>7, <1>8, <1>9, <1>10, <1>11, <1>12, <1>13, <1>14 DEF ExecInv

\* What a process does by itself, or a signal to it, ends it at most.
EndsAtMost ==
    /\ leader' \in [Tests -> {"none", "alive", "ok", "bad", "killed"}]
    /\ family' \in [Tests -> {"none", "quiet", "pipe"}]
    /\ \A u \in Tests : leader[u] # "alive" => leader'[u] = leader[u]
    /\ \A u \in Tests : leader'[u] = "none" => leader[u] = "none"

\* A process that ends takes nothing away from queues, hands and results.
LEMMA EndsAtMostKeeps ==
    ASSUME ExecInv, EndsAtMost, UNCHANGED <<queue, item, results>>,
           \A v \in Lanes : Holding(v)' => Holding(v)
    PROVE  QueueInv' /\ HandInv' /\ ResultInv'
<1>1. \A u : HasResult(u)' <=> HasResult(u)
  BY DEF HasResult
<1>2. QueueInv'
  <2>1. \A v \in Lanes : \A i \in 1 .. Len(queue[v]) : queue[v][i] \in Tests
    BY DEF ExecInv, ExecTypes
  <2>2. \A v \in Lanes : \A i \in 1 .. Len(queue[v]) : leader'[queue[v][i]] = "none"
    BY <2>1 DEF ExecInv, QueueInv, EndsAtMost
  <2> QED
    BY <1>1, <2>2, SMTT(30) DEF ExecInv, QueueInv
<1>3. HandInv'
  BY <1>1 DEF ExecInv, HandInv
<1>4. ResultInv'
  <2>1. ResultInv /\ ExecTypes
    BY DEF ExecInv
  <2>2. ASSUME NEW i \in 1 .. Len(results), results[i].status = "PASSED" PROVE leader'[results[i].test] = "ok"
    <3>1. results[i].test \in Tests
      BY <2>1, ResultFields
    <3>2. results[i].test \in Tests /\ leader[results[i].test] = "ok"
      BY <2>1, <2>2, <3>1 DEF ResultInv
    <3> QED
      BY <3>2 DEF EndsAtMost
  <2> QED
    BY <2>1, <2>2 DEF ResultInv
<1> QED
  BY <1>2, <1>3, <1>4

\* A process that ends or is killed by itself keeps the invariant.
LEMMA ProcessStepInv ==
    ASSUME ExecInv, EndsAtMost,
           UNCHANGED <<failFast, queue, pc, item, stopping, cancelled, results, late, main>>,
           \A v \in Lanes : pc[v] = "wait" => leader'[item[v]] # "killed"
    PROVE  ExecInv'
<1>1. /\ \A v \in Lanes : Holding(v)' <=> Holding(v)
      /\ AboutToStart' = AboutToStart
      /\ BadResult' <=> BadResult
  BY DEF Holding, AboutToStart, BadResult
<1>2. \A v \in Lanes : Holding(v) => item[v] \in Tests
  BY DEF ExecInv, HandInv
<1>3. ExecTypes'
  BY DEF ExecInv, ExecTypes, EndsAtMost
<1>4. QueueInv' /\ HandInv' /\ ResultInv'
  BY <1>1, EndsAtMostKeeps
<1>5. ProcessInv'
  <2>1. ASSUME NEW v \in Lanes
        PROVE  /\ pc[v] \in Pending => leader'[item[v]] = "none"
               /\ pc[v] = "wait" => leader'[item[v]] \in {"alive", "ok", "bad"}
               /\ pc[v] = "grace" => leader'[item[v]] # "none"
    <3>1. /\ pc[v] \in Pending => item[v] \in Tests /\ leader[item[v]] = "none"
          /\ pc[v] = "wait" => item[v] \in Tests /\ leader[item[v]] # "none"
          /\ pc[v] = "grace" => item[v] \in Tests /\ leader[item[v]] # "none"
      BY <1>2 DEF ExecInv, ProcessInv, Holding, Pending, Waiting
    <3> QED
      BY <3>1 DEF EndsAtMost
  <2>2. \A u \in Tests : leader'[u] = "alive" => leader[u] = "alive"
    BY DEF EndsAtMost
  <2> QED
    BY <2>1, <2>2 DEF ExecInv, ProcessInv
<1>6. MainInv'
  <2>1. main = "idle" => \A t \in Tests : leader'[t] = "none"
    BY DEF ExecInv, MainInv, EndsAtMost
  <2> QED
    BY <2>1 DEF ExecInv, MainInv
<1>7. FlagInv'
  BY <1>1 DEF ExecInv, FlagInv
<1>8. LateInv'
  BY <1>1, LateKeeps
<1> QED
  BY <1>3, <1>4, <1>5, <1>6, <1>7, <1>8 DEF ExecInv

\* The processes and the kill after the grace period.
LEMMA ProcessInvKept ==
    ASSUME ExecInv,
           (\E w \in Lanes : GraceOver(w)) \/ \E t \in Tests : Fork(t) \/ LeaderExits(t) \/ FamilyExits(t)
    PROVE  ExecInv' /\ EndsAtMost
<1>1. ASSUME NEW t \in Tests, Fork(t) \/ LeaderExits(t) \/ FamilyExits(t) PROVE ExecInv' /\ EndsAtMost
  <2>1. /\ UNCHANGED <<failFast, queue, pc, item, stopping, cancelled, results, late, main>>
        /\ \A u \in Tests : leader'[u] = leader[u] \/ leader'[u] \in {"ok", "bad"}
    BY <1>1 DEF Fork, LeaderExits, FamilyExits, workers, ExecInv, ExecTypes
  <2>2. EndsAtMost
    <3>1. /\ leader \in [Tests -> {"none", "alive", "ok", "bad", "killed"}]
          /\ family \in [Tests -> {"none", "quiet", "pipe"}]
      BY DEF ExecInv, ExecTypes
    <3>2. CASE Fork(t)  BY <3>1, <3>2 DEF Fork, EndsAtMost
    <3>3. CASE LeaderExits(t)  BY <3>1, <3>3 DEF LeaderExits, EndsAtMost
    <3>4. CASE FamilyExits(t)  BY <3>1, <3>4 DEF FamilyExits, EndsAtMost
    <3> QED  BY <1>1, <3>2, <3>3, <3>4
  <2>3. ASSUME NEW v \in Lanes, pc[v] = "wait" PROVE leader'[item[v]] # "killed"
    <3>1. item[v] \in Tests /\ leader[item[v]] # "killed"
      BY <2>3 DEF ExecInv, HandInv, ProcessInv, Holding, Waiting
    <3> QED
      BY <2>1, <3>1
  <2> QED
    BY <2>1, <2>2, <2>3, ProcessStepInv
<1>2. ASSUME NEW w \in Lanes, GraceOver(w) PROVE ExecInv' /\ EndsAtMost
  <2>1. /\ UNCHANGED <<failFast, queue, pc, item, stopping, cancelled, results, late, main>>
        /\ pc[w] = "grace"
    BY <1>2 DEF GraceOver, workers
  <2>2. PICK t \in Tests : t = item[w]
    BY <2>1 DEF ExecInv, HandInv, Holding, Waiting
  <2>3. /\ leader' = [leader EXCEPT ![t] = IF leader[t] = "alive" THEN "killed" ELSE leader[t]]
        /\ family' = [family EXCEPT ![t] = "none"]
    BY <1>2, <2>2 DEF GraceOver, KillGroup
  <2>4. EndsAtMost
    BY <2>2, <2>3 DEF EndsAtMost, ExecInv, ExecTypes
  <2>5. ASSUME NEW v \in Lanes, pc[v] = "wait" PROVE leader'[item[v]] # "killed"
    <3>1. item[v] \in Tests /\ leader[item[v]] # "killed" /\ Holding(v) /\ Holding(w)
      BY <2>1, <2>5 DEF ExecInv, HandInv, ProcessInv, Holding, Waiting
    <3>2. item[v] # t
      BY <2>1, <2>2, <2>5, <3>1 DEF ExecInv, HandInv
    <3> QED
      BY <2>2, <2>3, <3>1, <3>2 DEF ExecInv, ExecTypes
  <2> QED
    BY <2>1, <2>4, <2>5, ProcessStepInv
<1> QED
  BY <1>1, <1>2
-----------------------------------------------------------------------------
(***************************************************************************)
(* Cancellation and the end of execute.                                    *)
(***************************************************************************)

\* A cancelled worker leaves no process behind.
LEMMA CancelInv ==
    ASSUME ExecInv, NEW w \in Lanes, CancelWorker(w)
    PROVE  ExecInv' /\ EndsAtMost
<1>1. /\ UNCHANGED <<failFast, queue, item, cancelled, results, late, main>>
      /\ w \in stopping /\ stopping' = stopping \ {w} /\ pc' = [pc EXCEPT ![w] = "cancelled"]
      /\ main = "interrupted" /\ pc[w] \notin Ended
  BY DEF CancelWorker, Goto, ExecInv, MainInv
<1>2. /\ pc'[w] = "cancelled" /\ ~Holding(w)'
      /\ \A v \in Lanes : v # w => pc'[v] = pc[v] /\ (Holding(v)' <=> Holding(v))
  BY <1>1 DEF ExecInv, ExecTypes, Holding, Pending, Waiting
<1>3. /\ EndsAtMost
      /\ \A u \in Tests : u # item[w] \/ pc[w] \notin Waiting => leader'[u] = leader[u]
      /\ pc[w] \in Waiting => item[w] \in Tests /\ leader'[item[w]] # "alive"
  <2>1. CASE pc[w] \notin Waiting
    <3>1. leader' = leader /\ family' = family
      BY <2>1 DEF CancelWorker, processes, Waiting
    <3> QED
      BY <2>1, <3>1 DEF EndsAtMost, ExecInv, ExecTypes
  <2>2. CASE pc[w] \in Waiting
    <3>1. PICK t \in Tests : t = item[w]
      BY <2>2 DEF ExecInv, HandInv, Holding
    <3>2. CASE KillGroup(t)
      BY <2>2, <3>1, <3>2 DEF KillGroup, EndsAtMost, ExecInv, ExecTypes
    <3>3. CASE leader[t] # "alive" /\ leader' = leader /\ family' = family
      BY <2>2, <3>1, <3>3 DEF EndsAtMost, ExecInv, ExecTypes
    <3> QED
      BY <2>2, <3>1, <3>2, <3>3 DEF CancelWorker, processes, Waiting
  <2> QED
    BY <2>1, <2>2
<1>4. ExecTypes'
  <2>1. pc' \in [Lanes -> {"loop"} \cup Pending \cup Waiting \cup Ended] /\ stopping' \subseteq Lanes
    BY <1>1 DEF ExecInv, ExecTypes, Ended
  <2> QED
    BY <1>1, <1>3, <2>1 DEF ExecInv, ExecTypes, EndsAtMost
<1>5. QueueInv' /\ HandInv' /\ ResultInv'
  BY <1>1, <1>2, <1>3, EndsAtMostKeeps
<1>6. ProcessInv'
  <2>1. \A v \in Lanes : v # w /\ Holding(v) => item[v] \in Tests /\ (pc[w] \in Waiting => item[v] # item[w])
    BY DEF ExecInv, HandInv, Holding
  <2>2. \A v \in Lanes : v # w /\ Holding(v) => leader'[item[v]] = leader[item[v]]
    BY <1>3, <2>1
  <2>3. ASSUME NEW v \in Lanes
        PROVE  /\ pc'[v] \in Pending => leader'[item[v]] = "none"
               /\ pc'[v] = "wait" => leader'[item[v]] \in {"alive", "ok", "bad"}
               /\ pc'[v] = "grace" => leader'[item[v]] # "none"
    <3>1. CASE v = w
      BY <1>2, <3>1 DEF Pending
    <3>2. CASE v # w
      BY <1>2, <2>2, <3>2 DEF ExecInv, ProcessInv, Holding, Pending, Waiting
    <3> QED
      BY <3>1, <3>2
  <2>4. ASSUME NEW u \in Tests, leader'[u] = "alive" PROVE \E v \in Lanes : pc'[v] \in Waiting /\ item[v] = u
    <3>1. leader[u] = "alive"
      BY <1>3, <2>4 DEF EndsAtMost
    <3>2. PICK v \in Lanes : pc[v] \in Waiting /\ item[v] = u
      BY <3>1 DEF ExecInv, ProcessInv
    <3>3. v # w
      BY <1>3, <2>4, <3>2
    <3> QED
      BY <1>2, <3>2, <3>3
  <2> QED
    BY <1>1, <2>3, <2>4 DEF ProcessInv
<1>7. MainInv'
  BY <1>1, <1>2 DEF ExecInv, MainInv, Ended
<1>8. BadResult' <=> BadResult
  BY <1>1 DEF BadResult
<1>9. FlagInv'
  BY <1>1, <1>8 DEF ExecInv, FlagInv
<1>10. LateInv'
  <2>1. AboutToStart' \subseteq AboutToStart
    BY <1>2 DEF AboutToStart, Pending
  <2> QED
    BY <1>1, <1>8, <2>1, LateKeeps
<1> QED
  BY <1>3, <1>4, <1>5, <1>6, <1>7, <1>9, <1>10 DEF ExecInv

\* The interruption and the two ends of execute.
LEMMA GatherInv ==
    ASSUME ExecInv, Interrupt \/ Raise \/ Return
    PROVE  ExecInv'
<1>1. /\ UNCHANGED <<failFast, queue, pc, item, leader, family, results, late>>
      /\ \/ /\ main = "running" /\ main' = "interrupted" /\ cancelled' = cancelled
            /\ stopping' = {w \in Lanes : pc[w] \notin Ended}
         \/ /\ main = "interrupted" /\ main' = "raised" /\ cancelled' = TRUE /\ stopping' = stopping
            /\ \A w \in Lanes : pc[w] \in Ended
         \/ /\ main = "running" /\ main' = "returned" /\ cancelled' = cancelled /\ stopping' = stopping
            /\ \A w \in Lanes : pc[w] = "end"
  BY DEF Interrupt, Raise, Return, workers, processes
<1>2. /\ \A v \in Lanes : Holding(v)' <=> Holding(v)
      /\ AboutToStart' = AboutToStart
      /\ BadResult' <=> BadResult
      /\ \A u : HasResult(u)' <=> HasResult(u)
  BY <1>1 DEF Holding, AboutToStart, BadResult, HasResult
<1>3. ExecTypes'
  BY <1>1 DEF ExecInv, ExecTypes
<1>4. QueueInv' /\ HandInv'
  BY <1>1, <1>2 DEF ExecInv, QueueInv, HandInv
<1>5. ProcessInv' /\ ResultInv'
  BY <1>1 DEF ExecInv, ProcessInv, ResultInv
<1>6. MainInv'
  <2>1. stopping \subseteq Lanes
    BY DEF ExecInv, ExecTypes
  <2> QED
    BY <1>1, <2>1 DEF ExecInv, MainInv, Ended
<1>7. FlagInv'
  BY <1>1, <1>2 DEF ExecInv, FlagInv
<1>8. LateInv'
  BY <1>1, <1>2, LateKeeps
<1> QED
  BY <1>3, <1>4, <1>5, <1>6, <1>7, <1>8 DEF ExecInv

\* A step of the executor keeps the invariant.
LEMMA ExecStepInv ==
    ASSUME ExecInv, ExecStep
    PROVE  ExecInv'
  BY StillInv, TakeInv, ReportSteps, ReportInv, SpawnInv, ProcessInvKept, CancelInv, GatherInv
  DEF ExecStep, WorkerStep
-----------------------------------------------------------------------------
(***************************************************************************)
(* The schedule handed to execute.                                         *)
(***************************************************************************)

\* No test is in two places of a schedule.
OnceEach(plan) ==
    \A v, w \in Lanes : \A i \in 1 .. Len(plan[v]), j \in 1 .. Len(plan[w]) :
        plan[v][i] = plan[w][j] => v = w /\ i = j

HasAll(plan, S) == \A t \in S : \E w \in Lanes : \E i \in 1 .. Len(plan[w]) : plan[w][i] = t

\* A schedule has every test once.
LEMMA PlanFacts ==
    ASSUME NEW S \in SUBSET Tests, NEW n, NEW plan \in Plans(S, n)
    PROVE  /\ plan \in [Lanes -> Seq(Tests)]
           /\ OnceEach(plan)
           /\ HasAll(plan, S)
<1>1. PICK c \in Nat : c = Cardinality(S)
  BY Finite
<1> DEFINE lists == UNION {[1 .. k -> S] : k \in 0 .. c}
           places(t) == {p \in Lanes \X (1 .. c) : p[2] <= Len(plan[p[1]]) /\ plan[p[1]][p[2]] = t}
<1>2. plan \in [Lanes -> lists] /\ \A t \in S : Cardinality(places(t)) = 1
  BY <1>1 DEF Plans
<1>3. ASSUME NEW w \in Lanes PROVE plan[w] \in Seq(S) /\ Len(plan[w]) \in 0 .. c
  <2>1. plan[w] \in lists
    BY <1>2
  <2>2. PICK k \in 0 .. c : plan[w] \in [1 .. k -> S]
    BY <2>1
  <2> QED
    BY <1>1, <2>2
<1>4. plan \in [Lanes -> Seq(Tests)]
  <2>1. \A w \in Lanes : plan[w] \in Seq(Tests)
    BY <1>3
  <2>2. plan = [w \in Lanes |-> plan[w]]
    BY <1>2
  <2> QED
    BY <2>1, <2>2
<1>5. ASSUME NEW t \in S PROVE \E p : places(t) = {p}
  <2>1. IsFiniteSet(Lanes \X (1 .. c))
    <3>1. IsFiniteSet(1 .. c)
      BY FS_Interval
    <3>2. PICK I : I = 1 .. c /\ IsFiniteSet(I)
      BY <3>1
    <3>3. IsFiniteSet(Lanes \X I)
      BY <3>2, LanesFinite, FS_Product, Zenon
    <3> QED
      BY <3>2, <3>3
  <2>2. IsFiniteSet(places(t))
    BY <2>1, FS_Subset
  <2> HIDE DEF places
  <2> QED
    BY <1>2, <2>2, FS_Singleton
<1>6. ASSUME NEW w \in Lanes, NEW i \in 1 .. Len(plan[w])
      PROVE  plan[w][i] \in S /\ <<w, i>> \in places(plan[w][i])
  <2>1. plan[w] \in Seq(S) /\ i \in 1 .. c
    BY <1>1, <1>3
  <2>2. plan[w][i] \in S
    BY <2>1, ElementOfSeq
  <2> QED
    BY <1>3, <2>1, <2>2
<1>7. ASSUME NEW v \in Lanes, NEW w \in Lanes, NEW i \in 1 .. Len(plan[v]), NEW j \in 1 .. Len(plan[w]),
             plan[v][i] = plan[w][j]
      PROVE  v = w /\ i = j
  <2>1. PICK t \in S : t = plan[v][i]
    BY <1>6
  <2>2. PICK p : places(t) = {p}
    BY <1>5
  <2>3. <<v, i>> \in places(t) /\ <<w, j>> \in places(t)
    BY <1>6, <1>7, <2>1
  <2>4. <<v, i>> = p /\ <<w, j>> = p
    BY <2>2, <2>3
  <2> QED
    BY <2>4
<1>8. ASSUME NEW t \in S PROVE \E w \in Lanes : \E i \in 1 .. Len(plan[w]) : plan[w][i] = t
  <2>1. PICK p : p \in places(t)
    BY <1>5
  <2>2. p[1] \in Lanes /\ p[2] \in 1 .. c /\ p[2] <= Len(plan[p[1]]) /\ plan[p[1]][p[2]] = t
    BY <2>1
  <2>3. p[2] \in 1 .. Len(plan[p[1]])
    BY <1>1, <1>3, <2>2
  <2> QED
    BY <2>2, <2>3
<1> QED
  BY <1>4, <1>7, <1>8 DEF OnceEach, HasAll

\* Nothing has happened when the command starts.
LEMMA ExecInitInv ==
    ASSUME ExecInit
    PROVE  ExecInv
<1>1. \A t : ~HasResult(t)
  BY DEF ExecInit, HasResult
<1>2. ~BadResult
  BY DEF ExecInit, BadResult
<1>3. ExecTypes
  <2>1. queue \in [Lanes -> Seq(Tests)] /\ item \in [Lanes -> Tests \cup {NoTest}]
    BY DEF ExecInit
  <2>2. results \in Seq([test : Tests, status : Statuses])
    BY DEF ExecInit
  <2>3. leader \in [Tests -> {"none", "alive", "ok", "bad", "killed"}] /\ family \in [Tests -> {"none", "quiet", "pipe"}]
    BY DEF ExecInit
  <2> QED
    BY <2>1, <2>2, <2>3, PyExecutorAssumption DEF ExecInit, ExecTypes
<1>4. QueueInv /\ HandInv /\ ProcessInv /\ ResultInv
  BY DEF ExecInit, QueueInv, HandInv, ProcessInv, ResultInv, Holding, Pending, Waiting
<1>5. MainInv /\ FlagInv /\ LateInv
  BY <1>2 DEF ExecInit, MainInv, FlagInv, LateInv, Ended
<1> QED
  BY <1>3, <1>4, <1>5 DEF ExecInv

\* execute starts with every test in one queue.
LEMMA BeginInv ==
    ASSUME ExecInv, NEW S \in SUBSET Tests, NEW n, NEW plan \in Plans(S, n), Begin(plan)
    PROVE  ExecInv'
<1>1. /\ UNCHANGED <<failFast, pc, item, stopping, cancelled, leader, family, results, late>>
      /\ main = "idle" /\ main' = "running" /\ queue' = plan
  BY DEF Begin, processes
<1>2. plan \in [Lanes -> Seq(Tests)]
  BY PlanFacts
<1>3. /\ results = <<>> /\ \A w \in Lanes : pc[w] = "loop" /\ pc'[w] = "loop"
      /\ \A t \in Tests : leader[t] = "none"
  BY <1>1 DEF ExecInv, MainInv
<1>4. /\ \A u : ~HasResult(u)'
      /\ ~BadResult' /\ ~BadResult
      /\ \A v \in Lanes : ~Holding(v)'
  BY <1>1, <1>3 DEF HasResult, BadResult, Holding, Pending, Waiting
<1>5. ExecTypes'
  BY <1>1, <1>2 DEF ExecInv, ExecTypes
<1>6. QueueInv'
  <2>1. OnceEach(plan)
    BY PlanFacts
  <2>2. \A w \in Lanes : \A i \in 1 .. Len(plan[w]) : leader'[plan[w][i]] = "none"
    <3> SUFFICES ASSUME NEW w \in Lanes, NEW i \in 1 .. Len(plan[w]) PROVE leader[plan[w][i]] = "none"
      BY <1>1
    <3>1. plan[w] \in Seq(Tests)
      BY <1>2
    <3>2. plan[w][i] \in Tests
      BY <3>1, ElementOfSeq
    <3> QED
      BY <1>3, <3>2
  <2>3. queue' = plan
    BY <1>1
  <2> QED
    BY <1>4, <2>1, <2>2, <2>3 DEF QueueInv, OnceEach
<1>7. HandInv'
  BY <1>4 DEF HandInv
<1>8. ProcessInv' /\ ResultInv'
  BY <1>1, <1>3 DEF ProcessInv, ResultInv, Pending
<1>9. MainInv'
  BY <1>1, <1>3 DEF ExecInv, MainInv, Ended
<1>10. FlagInv' /\ LateInv'
  BY <1>1, <1>3, <1>4 DEF ExecInv, FlagInv, LateInv
<1> QED
  BY <1>5, <1>6, <1>7, <1>8, <1>9, <1>10 DEF ExecInv
-----------------------------------------------------------------------------
(***************************************************************************)
(* The command: no collected test is lost, and what is stored is the       *)
(* summary of what execute returned.                                       *)
(***************************************************************************)

Held(t) == \E w \in Lanes : Holding(w) /\ item[w] = t
Queued(t) == \E w \in Lanes : \E i \in 1 .. Len(queue[w]) : queue[w][i] = t
Covered(t) == HasResult(t) \/ Held(t) \/ Queued(t)

CoverInv == main \in {"running", "returned"} => \A t \in tests : Covered(t)

CommandInv ==
    /\ context \in Contexts
    /\ tests \subseteq Tests
    /\ phase \in {"load", "collect", "predict", "schedule"} => main = "idle"
    /\ phase \in {"execute", "replace"} => main # "idle"
    /\ phase \notin {"replace", "over"} => temporary = None /\ artifact = None /\ exit = "none"
    /\ phase = "replace" => main = "returned" /\ temporary = Summary /\ artifact = None /\ exit = "none"
    /\ artifact # None => main = "returned" /\ artifact = Summary
    /\ exit = "success" => artifact.status = "COMPLETED"

CommandOK == ExecInv /\ CoverInv /\ CommandInv

\* A test stays covered when hands, queue and results are left alone.
LEMMA CoverStays ==
    ASSUME NEW t, Covered(t), UNCHANGED <<queue, item, results>>,
           \A w \in Lanes : Holding(w) => Holding(w)'
    PROVE  Covered(t)'
<1>1. HasResult(t) => HasResult(t)'
  BY DEF HasResult
<1>2. Held(t) => Held(t)'
  BY DEF Held
<1>3. Queued(t) => Queued(t)'
  BY DEF Queued
<1> QED
  BY <1>1, <1>2, <1>3 DEF Covered

\* A step of the executor that is no cancellation loses no test.
LEMMA CoverStep ==
    ASSUME ExecInv, NEW t \in Tests, Covered(t), ExecStep, main' \in {"running", "returned"}
    PROVE  Covered(t)'
<1>1. ASSUME NEW w \in Lanes, LeaveLoop(w) \/ Wake(w) \/ TimeOut(w) PROVE Covered(t)'
  <2>1. /\ UNCHANGED <<queue, item, results>>
        /\ pc \in [Lanes -> {"loop"} \cup Pending \cup Waiting \cup Ended]
        /\ \/ pc[w] = "loop" /\ pc' = [pc EXCEPT ![w] = "end"]
           \/ pc[w] = "sleep" /\ pc' = [pc EXCEPT ![w] = "spawn"]
           \/ pc[w] = "wait" /\ pc' = [pc EXCEPT ![w] = "grace"]
    BY <1>1 DEF LeaveLoop, Wake, TimeOut, InLoop, Goto, ExecInv, ExecTypes
  <2>2. \A v \in Lanes : Holding(v) => Holding(v)'
    BY <2>1 DEF Holding, Pending, Waiting
  <2> QED
    BY <2>1, <2>2, CoverStays
<1>2. ASSUME NEW w \in Lanes, TakeNext(w) PROVE Covered(t)'
  <2>1. PICK label \in Pending : pc' = [pc EXCEPT ![w] = label]
    BY <1>2 DEF TakeNext, Goto, Pending
  <2>2. /\ queue \in [Lanes -> Seq(Tests)] /\ queue' = [queue EXCEPT ![w] = Tail(queue[w])] /\ queue[w] # <<>>
        /\ pc \in [Lanes -> {"loop"} \cup Pending \cup Waiting \cup Ended]
        /\ item \in [Lanes -> Tests \cup {NoTest}] /\ item' = [item EXCEPT ![w] = Head(queue[w])]
        /\ results' = results /\ pc[w] = "loop"
    BY <1>2 DEF TakeNext, InLoop, ExecInv, ExecTypes
  <2>3. /\ item'[w] = queue[w][1] /\ Holding(w)' /\ ~Holding(w)
        /\ \A v \in Lanes : v # w /\ Holding(v) => Holding(v)' /\ item'[v] = item[v]
    BY <2>1, <2>2 DEF Holding, Pending, Waiting
  <2>4. /\ \A i \in 1 .. Len(queue[w]) : i = 1 \/ (i - 1 \in 1 .. Len(queue'[w]) /\ queue'[w][i - 1] = queue[w][i])
        /\ \A v \in Lanes : v # w => queue'[v] = queue[v]
    BY <2>2
  <2>5. HasResult(t) => HasResult(t)'
    BY <2>2 DEF HasResult
  <2>6. Held(t) => Held(t)'
    BY <2>3 DEF Held
  <2>7. Queued(t) => Queued(t)' \/ Held(t)'
    <3> SUFFICES ASSUME NEW v \in Lanes, NEW i \in 1 .. Len(queue[v]), queue[v][i] = t
                 PROVE  Queued(t)' \/ Held(t)'
      BY DEF Queued
    <3>1. CASE v # w
      BY <2>4, <3>1 DEF Queued
    <3>2. CASE v = w /\ i = 1
      BY <2>3, <3>2 DEF Held
    <3>3. CASE v = w /\ i # 1
      BY <2>4, <3>3 DEF Queued
    <3> QED
      BY <3>1, <3>2, <3>3
  <2> QED
    BY <2>5, <2>6, <2>7 DEF Covered
<1>3. ASSUME NEW w \in Lanes, NEW status \in Statuses, Reports(w, status) PROVE Covered(t)'
  <2>1. /\ queue' = queue
        /\ pc \in [Lanes -> {"loop"} \cup Pending \cup Waiting \cup Ended] /\ pc' = [pc EXCEPT ![w] = "loop"]
        /\ item \in [Lanes -> Tests \cup {NoTest}] /\ item' = [item EXCEPT ![w] = NoTest]
    BY <1>3 DEF Reports, Finish, Goto, ExecInv, ExecTypes
  <2>2. HasResult(t)' <=> HasResult(t) \/ t = item[w]
    BY <1>3, OneMoreResult
  <2>3. Held(t) => Held(t)' \/ t = item[w]
    BY <2>1 DEF Held, Holding
  <2>4. Queued(t) => Queued(t)'
    BY <2>1 DEF Queued
  <2> QED
    BY <2>2, <2>3, <2>4 DEF Covered
<1>4. ASSUME NEW w \in Lanes, Spawn(w) PROVE Covered(t)'
  <2>1. /\ UNCHANGED <<queue, item, results>>
        /\ pc \in [Lanes -> {"loop"} \cup Pending \cup Waiting \cup Ended] /\ pc' = [pc EXCEPT ![w] = "wait"]
    BY <1>4 DEF Spawn, Goto, ExecInv, ExecTypes
  <2>2. \A v \in Lanes : Holding(v) => Holding(v)'
    BY <2>1 DEF Holding, Waiting
  <2> QED
    BY <2>1, <2>2, CoverStays
<1>5. ASSUME NEW w \in Lanes, CancelWorker(w) PROVE Covered(t)'
  BY <1>5 DEF CancelWorker, ExecInv, MainInv
<1>6. CASE \/ \E w \in Lanes : GraceOver(w)
           \/ \E u \in Tests : Fork(u) \/ LeaderExits(u) \/ FamilyExits(u)
           \/ Interrupt \/ Raise \/ Return
  <2>1. UNCHANGED <<queue, pc, item, results>>
    BY <1>6 DEF GraceOver, Fork, LeaderExits, FamilyExits, Interrupt, Raise, Return, workers
  <2>2. \A v \in Lanes : Holding(v) => Holding(v)'
    BY <2>1 DEF Holding
  <2> QED
    BY <2>1, <2>2, CoverStays
<1> QED
  BY <1>1, <1>2, <1>3, <1>4, <1>5, <1>6, ReportSteps DEF ExecStep, WorkerStep

\* execute never becomes idle again.
LEMMA MainMoves ==
    ASSUME ExecStep, main # "idle"
    PROVE  main' # "idle" /\ (main' \in {"running", "returned"} => main \in {"running", "returned"})
  BY DEF ExecStep, WorkerStep, LeaveLoop, TakeNext, Wake, SpawnFails, Spawn, Communicate, TimeOut,
         TimeOutAfterExit, GraceOver, Reaped, CancelWorker, Fork, LeaderExits, FamilyExits, Interrupt,
         Raise, Return

\* Before a run there is nothing to cover and nothing stored.
LEMMA CommandInitOK ==
    ASSUME RunInit
    PROVE  CommandOK
<1>1. ExecInv
  BY ExecInitInv DEF RunInit
<1>2. CoverInv /\ CommandInv
  BY DEF RunInit, ExecInit, CoverInv, CommandInv
<1> QED
  BY <1>1, <1>2 DEF CommandOK

\* What the executor's variables determine stays when they do.
LEMMA ExecStays ==
    ASSUME ExecInv, UNCHANGED execVars
    PROVE  /\ ExecInv'
           /\ UNCHANGED <<queue, item, pc, results, main, leader>>
           /\ \A t : Covered(t)' <=> Covered(t)
           /\ Summary' = Summary
<1>1. /\ UNCHANGED <<failFast, queue, pc, item, stopping, cancelled>>
      /\ UNCHANGED <<leader, family, results, late, main>>
  BY DEF execVars, workers, processes
<1>2. /\ \A w \in Lanes : Holding(w)' <=> Holding(w)
      /\ \A t : HasResult(t)' <=> HasResult(t)
      /\ BadResult' <=> BadResult
      /\ AboutToStart' = AboutToStart
  BY <1>1 DEF Holding, HasResult, BadResult, AboutToStart
<1>3. \A t : Covered(t)' <=> Covered(t)
  BY <1>1, <1>2 DEF Covered, Held, Queued
<1>4. Summary' = Summary
  BY <1>1 DEF Summary, PassedIn
<1>5. ExecTypes'
  BY <1>1 DEF ExecInv, ExecTypes
<1>6. QueueInv' /\ HandInv'
  BY <1>1, <1>2 DEF ExecInv, QueueInv, HandInv
<1>7. ProcessInv' /\ ResultInv' /\ MainInv'
  BY <1>1 DEF ExecInv, ProcessInv, ResultInv, MainInv
<1>8. FlagInv' /\ LateInv'
  BY <1>1, <1>2 DEF ExecInv, FlagInv, LateInv
<1> QED
  BY <1>1, <1>3, <1>4, <1>5, <1>6, <1>7, <1>8 DEF ExecInv

\* Steps of the command that leave the executor alone.
LEMMA QuietStepOK ==
    ASSUME CommandOK, UNCHANGED execVars,
           \/ LoadConfig \/ Collect \/ LoadPredictions \/ ScheduleAndBegin \/ ExecuteRaised
           \/ WriteTemporary \/ ReplaceArtifact \/ Killed \/ UNCHANGED runVars
    PROVE  CommandOK'
<1>1. ExecInv /\ CoverInv /\ CommandInv
  BY DEF CommandOK
<1>2. ExecInv' /\ main' = main /\ results' = results /\ Summary' = Summary /\ \A t : Covered(t)' <=> Covered(t)
  BY <1>1, ExecStays
<1>3. CASE Collect
  <2>1. phase = "collect" /\ main = "idle"
    BY <1>1, <1>3 DEF Collect, CommandInv
  <2>2. tests' \subseteq Tests
    BY <1>1, <1>3, PyRunAssumption DEF Collect, CommandInv
  <2>3. CoverInv'
    BY <1>2, <2>1 DEF CoverInv
  <2>4. CommandInv'
    BY <1>1, <1>2, <1>3, <2>1, <2>2 DEF Collect, CommandInv, Proceed, Leave
  <2> QED
    BY <1>2, <2>3, <2>4 DEF CommandOK
<1>4. CASE ~Collect
  <2>1. context' = context /\ tests' = tests
    BY <1>4 DEF LoadConfig, LoadPredictions, ScheduleAndBegin, ExecuteRaised, WriteTemporary,
                ReplaceArtifact, Killed, runVars
  <2>2. CoverInv'
    BY <1>1, <1>2, <2>1 DEF CoverInv
  <2>3. ASSUME LoadConfig \/ LoadPredictions PROVE CommandInv'
    <3>1. /\ phase \in {"load", "predict"} /\ UNCHANGED <<temporary, artifact>>
          /\ \/ phase' \in {"collect", "schedule"} /\ exit' = exit
             \/ phase' = "over" /\ exit' \in {"error", "crash"}
      BY <2>3 DEF LoadConfig, LoadPredictions, Proceed, Leave
    <3> QED
      BY <1>1, <1>2, <2>1, <3>1 DEF CommandInv
  <2>4. ASSUME ScheduleAndBegin \/ ExecuteRaised \/ Killed \/ UNCHANGED runVars PROVE CommandInv'
    <3>1. \/ /\ phase \in {"schedule", "execute", "replace"} /\ UNCHANGED <<temporary, artifact>>
             /\ phase' = "over" /\ exit' \in {"error", "crash", "killed"}
          \/ UNCHANGED <<phase, temporary, artifact, exit>>
      <4>1. ASSUME ScheduleAndBegin PROVE phase = "schedule" /\ UNCHANGED <<temporary, artifact>> /\ Leave("error")
        <5>1. CASE RequestedWorkers \in 1 .. MaxWorkers
          <6>1. PICK plan : Begin(plan)
            BY <4>1, <5>1 DEF ScheduleAndBegin
          <6> QED
            BY <1>2, <6>1 DEF Begin
        <5> QED
          BY <4>1, <5>1 DEF ScheduleAndBegin
      <4> QED
        BY <2>4, <4>1 DEF ExecuteRaised, Killed, Leave, runVars
    <3> QED
      BY <1>1, <1>2, <2>1, <3>1 DEF CommandInv
  <2>5. ASSUME WriteTemporary PROVE CommandInv'
    <3>1. /\ phase = "execute" /\ main = "returned" /\ artifact' = artifact
          /\ \/ phase' = "replace" /\ exit' = exit /\ temporary' = Summary
             \/ phase' = "over" /\ exit' = "crash"
      BY <2>5 DEF WriteTemporary, Proceed, Leave
    <3> QED
      BY <1>1, <1>2, <2>1, <3>1 DEF CommandInv
  <2>6. ASSUME ReplaceArtifact PROVE CommandInv'
    <3>1. phase = "replace" /\ phase' = "over" /\ artifact' = temporary
      BY <2>6 DEF ReplaceArtifact, Leave
    <3>2. main = "returned" /\ artifact' = Summary
      BY <1>1, <3>1 DEF CommandInv
    <3>3. exit' = "success" => Summary.status = "COMPLETED"
      BY <2>6 DEF ReplaceArtifact, Leave, Summary
    <3> QED
      BY <1>1, <1>2, <2>1, <3>1, <3>2, <3>3 DEF CommandInv
  <2>7. CommandInv'
    BY <1>4, <2>3, <2>4, <2>5, <2>6
  <2> QED
    BY <1>2, <2>2, <2>7 DEF CommandOK
<1> QED
  BY <1>3, <1>4

\* The start of execute.
LEMMA BeginStepOK ==
    ASSUME CommandOK, ScheduleAndBegin, NEW plan \in Plans(tests, RequestedWorkers), Begin(plan)
    PROVE  CommandOK'
<1>1. ExecInv /\ CommandInv /\ tests \in SUBSET Tests
  BY DEF CommandOK, CommandInv
<1>2. PICK S \in SUBSET Tests : S = tests
  BY <1>1
<1>3. PICK n : n = RequestedWorkers
  OBVIOUS
<1>4. plan \in Plans(S, n)
  BY <1>2, <1>3
<1>5. ExecInv'
  BY <1>1, <1>4, BeginInv
<1>6. /\ queue' = plan /\ main = "idle" /\ main' = "running"
      /\ phase = "schedule" /\ UNCHANGED <<context, tests, temporary, artifact>>
      /\ (phase' = "execute" /\ exit' = exit) \/ (phase' = "over" /\ exit' = "error")
  BY DEF Begin, ScheduleAndBegin, Proceed, Leave
<1>7. CoverInv'
  <2>1. HasAll(plan, S)
    BY <1>4, PlanFacts
  <2> QED
    BY <1>2, <1>6, <2>1 DEF CoverInv, Covered, Queued, HasAll
<1>8. CommandInv'
  BY <1>1, <1>6 DEF CommandInv
<1> QED
  BY <1>5, <1>7, <1>8 DEF CommandOK

\* Every step keeps the invariant.
LEMMA CommandStepOK ==
    ASSUME CommandOK, [RunNext]_runVars
    PROVE  CommandOK'
<1>1. CASE Executing(ExecStep)
  <2>1. /\ ExecInv /\ CoverInv /\ CommandInv /\ phase = "execute"
        /\ ExecStep /\ UNCHANGED <<context, phase, tests, temporary, artifact, exit>>
    BY <1>1 DEF Executing, CommandOK
  <2>2. ExecInv' /\ main # "idle"
    BY <2>1, ExecStepInv DEF CommandInv
  <2>3. main' # "idle" /\ (main' \in {"running", "returned"} => main \in {"running", "returned"})
    BY <2>1, <2>2, MainMoves
  <2>4. CoverInv'
    <3> SUFFICES ASSUME main' \in {"running", "returned"}, NEW t \in tests PROVE Covered(t)'
      BY <2>1 DEF CoverInv
    <3>1. t \in Tests /\ Covered(t)
      BY <2>1, <2>3 DEF CoverInv, CommandInv
    <3> QED
      BY <2>1, <3>1, CoverStep
  <2>5. CommandInv'
    BY <2>1, <2>3 DEF CommandInv
  <2> QED
    BY <2>2, <2>4, <2>5 DEF CommandOK
<1>2. CASE ScheduleAndBegin /\ RequestedWorkers \in 1 .. MaxWorkers
  <2>1. PICK plan \in Plans(tests, RequestedWorkers) : Begin(plan)
    BY <1>2 DEF ScheduleAndBegin
  <2> QED
    BY <1>2, <2>1, BeginStepOK
<1>3. CASE ScheduleAndBegin /\ RequestedWorkers \notin 1 .. MaxWorkers
  <2>1. UNCHANGED execVars
    BY <1>3 DEF ScheduleAndBegin
  <2> QED
    BY <1>3, <2>1, QuietStepOK
<1>4. CASE \/ LoadConfig \/ Collect \/ LoadPredictions \/ ExecuteRaised
           \/ WriteTemporary \/ ReplaceArtifact \/ Killed \/ UNCHANGED runVars
  <2>1. UNCHANGED execVars
    BY <1>4 DEF LoadConfig, Collect, LoadPredictions, ExecuteRaised, WriteTemporary, ReplaceArtifact,
                Killed, runVars
  <2> QED
    BY <1>4, <2>1, QuietStepOK
<1> QED
  BY <1>1, <1>2, <1>3, <1>4 DEF RunNext, CommandStep, Over

\* Throughout every run of the command a test is in one place, its process
\* lives no longer than it is waited for, and what is stored is the summary.
THEOREM CommandInvariant == RunSpec => []CommandOK
<1>1. RunInit => CommandOK
  BY CommandInitOK
<1>2. CommandOK /\ [RunNext]_runVars => CommandOK'
  BY CommandStepOK
<1> QED
  BY <1>1, <1>2, PTL DEF RunSpec
-----------------------------------------------------------------------------
(***************************************************************************)
(* What follows.                                                           *)
(***************************************************************************)

\* When execute has returned or raised, no test process is alive.
THEOREM ProcessesEnd == RunSpec => []NoProcessOutlivesExecute
<1>1. CommandOK => NoProcessOutlivesExecute
  <2> SUFFICES ASSUME ExecInv, main \in {"returned", "raised"}, NEW t \in Tests, leader[t] = "alive"
               PROVE  FALSE
    BY DEF CommandOK, NoProcessOutlivesExecute
  <2>1. PICK w \in Lanes : pc[w] \in Waiting
    BY DEF ExecInv, ProcessInv
  <2>2. pc[w] \in Ended
    BY DEF ExecInv, MainInv, Ended
  <2> QED
    BY <2>1, <2>2 DEF Waiting, Ended
<1> QED
  BY <1>1, CommandInvariant, PTL

\* With fail_fast, each of the other workers starts at most one test after
\* the first bad result.
THEOREM LateStartsBounded == RunSpec => []FailFastLimitsLateStarts
<1>1. CommandOK => FailFastLimitsLateStarts
  <2> SUFFICES ASSUME ExecInv PROVE Cardinality(late) <= Workers - 1
    BY DEF CommandOK, FailFastLimitsLateStarts
  <2>1. Workers \in Nat \ {0} /\ AboutToStart \subseteq Lanes /\ late \subseteq Tests
    BY PyExecutorAssumption DEF AboutToStart, ExecInv, ExecTypes
  <2>2. Cardinality(AboutToStart) \in Nat /\ Cardinality(late) \in Nat
    BY <2>1, Finite
  <2>3. CASE failFast /\ BadResult
    BY <2>1, <2>2, <2>3 DEF ExecInv, LateInv
  <2>4. CASE ~(failFast /\ BadResult)
    <3>1. late = {}
      BY <2>4 DEF ExecInv, FlagInv
    <3>2. Cardinality(late) = 0
      BY <3>1, FS_EmptySet
    <3> QED
      BY <2>1, <3>2
  <2> QED
    BY <2>3, <2>4
<1> QED
  BY <1>1, CommandInvariant, PTL

\* The status of a test among results rs.
StatusIn(rs, t) ==
    IF \E i \in DOMAIN rs : rs[i].test = t
    THEN rs[CHOOSE i \in DOMAIN rs : rs[i].test = t].status
    ELSE "none"

\* With one result per test, the status of a test is that of its result.
LEMMA StatusOfResult ==
    ASSUME NEW rs, \A i, j \in DOMAIN rs : rs[i].test = rs[j].test => i = j
    PROVE  /\ \A i \in DOMAIN rs : StatusIn(rs, rs[i].test) = rs[i].status
           /\ \A t : (\A i \in DOMAIN rs : rs[i].test # t) => StatusIn(rs, t) = "none"
<1>1. ASSUME NEW i \in DOMAIN rs PROVE StatusIn(rs, rs[i].test) = rs[i].status
  <2>1. PICK t : t = rs[i].test
    OBVIOUS
  <2>2. PICK k : k = CHOOSE j \in DOMAIN rs : rs[j].test = t
    OBVIOUS
  <2>3. k \in DOMAIN rs /\ rs[k].test = t
    BY <2>1, <2>2
  <2>4. k = i
    BY <2>1, <2>3
  <2> QED
    BY <2>1, <2>2, <2>4 DEF StatusIn
<1> QED
  BY <1>1 DEF StatusIn

\* As many passed results as results: every result passed.
LEMMA AllPassed ==
    ASSUME ExecInv, Cardinality(PassedIn(results)) = Len(results), NEW i \in 1 .. Len(results)
    PROVE  results[i].status = "PASSED"
<1> SUFFICES ASSUME results[i].status # "PASSED" PROVE FALSE
  OBVIOUS
<1>1. Len(results) \in Nat /\ DOMAIN results = 1 .. Len(results)
  BY DEF ExecInv, ExecTypes
<1>2. PICK J : J = {j \in DOMAIN results : results[j].status = "PASSED"}
  OBVIOUS
<1>3. J \subseteq (1 .. Len(results)) \ {i}
  BY <1>1, <1>2
<1>4. PICK n \in Nat : n = Len(results)
  BY <1>1
<1>5. IsFiniteSet(1 .. n) /\ Cardinality(1 .. n) = n
  <2>1. 1 \in Int /\ n \in Int /\ n # 0 /\ n - 1 + 1 = n /\ ~(1 > n)
    BY <1>4
  <2> QED
    BY <2>1, FS_Interval
<1>6. IsFiniteSet((1 .. n) \ {i}) /\ Cardinality((1 .. n) \ {i}) = n - 1
  BY <1>4, <1>5, FS_RemoveElement, ZenonT(40)
<1>7. IsFiniteSet(J) /\ Cardinality(J) <= n - 1
  <2>1. PICK K : K = (1 .. n) \ {i}
    OBVIOUS
  <2>2. IsFiniteSet(K) /\ Cardinality(K) = n - 1 /\ J \subseteq K
    BY <1>3, <1>4, <1>6, <2>1
  <2>3. IsFiniteSet(J) /\ Cardinality(J) <= Cardinality(K)
    BY <2>2, FS_Subset
  <2> QED
    BY <2>2, <2>3
<1>8. PICK T : T = PassedIn(results)
  OBVIOUS
<1>9. T = {results[j].test : j \in J}
  BY <1>2, <1>8 DEF PassedIn
<1>10. PICK f : f = [j \in J |-> results[j].test]
  OBVIOUS
<1>11. f \in Surjection(J, T)
  BY <1>9, <1>10 DEF Surjection
<1>12. IsFiniteSet(T) /\ Cardinality(T) <= Cardinality(J)
  BY <1>7, <1>11, FS_Surjection
<1>13. Cardinality(J) \in Nat /\ Cardinality(T) \in Nat
  BY <1>7, <1>12, FS_CardinalityType
<1> QED
  BY <1>4, <1>7, <1>8, <1>12, <1>13

\* A run stored as COMPLETED ran every collected test, and each one's own
\* process ended well.
THEOREM CompletedRunPassed == RunSpec => []CompletedMeansAllPassed
<1>1. CommandOK => CompletedMeansAllPassed
  <2> SUFFICES ASSUME CommandOK, artifact.status = "COMPLETED", NEW t \in tests
               PROVE  StatusOf(t) = "PASSED" /\ leader[t] = "ok"
    BY DEF CommandOK, CommandInv, CompletedMeansAllPassed
  <2>1. artifact # None
    BY DEF None
  <2>2. main = "returned" /\ artifact = Summary /\ ExecInv /\ Covered(t)
    BY <2>1 DEF CommandOK, CommandInv, CoverInv
  <2>3. Cardinality(PassedIn(results)) = Len(results)
    BY <2>2 DEF Summary
  <2>4. \A i \in 1 .. Len(results) : results[i].status = "PASSED"
    BY <2>2, <2>3, AllPassed
  <2>5. DOMAIN results = 1 .. Len(results)
    BY <2>2 DEF ExecInv, ExecTypes
  <2>6. ~BadResult
    BY <2>4, <2>5 DEF BadResult
  <2>7. \A w \in Lanes : pc[w] = "end" /\ queue[w] = <<>>
    BY <2>2, <2>6 DEF ExecInv, MainInv, FlagInv
  <2>8. ~Held(t) /\ ~Queued(t)
    BY <2>7 DEF Held, Queued, Holding, Pending, Waiting
  <2>9. PICK i \in 1 .. Len(results) : results[i].test = t
    BY <2>2, <2>8 DEF Covered, HasResult
  <2>10. leader[t] = "ok"
    BY <2>2, <2>4, <2>9 DEF ExecInv, ResultInv
  <2>11. StatusIn(results, results[i].test) = results[i].status
    <3>1. \A j, k \in DOMAIN results : results[j].test = results[k].test => j = k
      BY <2>2, <2>5 DEF ExecInv, ResultInv
    <3> QED
      BY <2>5, <3>1, StatusOfResult
  <2>12. StatusOf(t) = StatusIn(results, t)
    BY DEF StatusOf, StatusIn
  <2> QED
    BY <2>4, <2>9, <2>10, <2>11, <2>12
<1> QED
  BY <1>1, CommandInvariant, PTL
-----------------------------------------------------------------------------
(***************************************************************************)
(* The executor implements TestRun.                                        *)
(***************************************************************************)

Verdict == [t \in Tests |-> StatusOf(t)]

\* Verdicts stay while no result is appended.
LEMMA VerdictStays ==
    ASSUME results' = results
    PROVE  Verdict' = Verdict
  BY DEF Verdict, StatusOf

\* One more result is one more verdict.
LEMMA VerdictReported ==
    ASSUME ExecInv, ExecInv', NEW w \in Lanes, NEW status \in Statuses, Reports(w, status),
           NEW t \in Tests, t = item[w]
    PROVE  Verdict[t] = "none" /\ Verdict' = [Verdict EXCEPT ![t] = status]
<1>1. /\ ~HasResult(t)
      /\ Len(results') = Len(results) + 1 /\ Len(results) \in Nat
      /\ \A i \in 1 .. Len(results) : results'[i] = results[i]
      /\ results'[Len(results) + 1] = [test |-> t, status |-> status]
  BY OneMoreResult
<1>2. DOMAIN results = 1 .. Len(results) /\ DOMAIN results' = 1 .. Len(results')
  BY DEF ExecInv, ExecTypes
<1>3. PICK old, new : old = results /\ new = results'
  OBVIOUS
<1>4. /\ \A i, j \in DOMAIN old : old[i].test = old[j].test => i = j
      /\ \A i, j \in DOMAIN new : new[i].test = new[j].test => i = j
  BY <1>2, <1>3 DEF ExecInv, ResultInv
<1>5. /\ \A i \in DOMAIN old : StatusIn(old, old[i].test) = old[i].status
      /\ \A u : (\A i \in DOMAIN old : old[i].test # u) => StatusIn(old, u) = "none"
      /\ \A i \in DOMAIN new : StatusIn(new, new[i].test) = new[i].status
      /\ \A u : (\A i \in DOMAIN new : new[i].test # u) => StatusIn(new, u) = "none"
  BY <1>4, StatusOfResult
<1>6. PICK n \in Nat : n = Len(results)
  BY <1>1
<1>7. /\ DOMAIN old = 1 .. n /\ DOMAIN new = 1 .. n + 1 /\ n + 1 \in 1 .. n + 1
      /\ \A i \in 1 .. n : i \in 1 .. n + 1 /\ new[i] = old[i] /\ old[i].test # t
      /\ \A i \in 1 .. n + 1 : i \in 1 .. n \/ i = n + 1
      /\ new[n + 1].test = t /\ new[n + 1].status = status
  BY <1>1, <1>2, <1>3, <1>6 DEF HasResult
<1>8. StatusIn(old, t) = "none" /\ StatusIn(new, t) = status
  BY <1>5, <1>7
<1>9. ASSUME NEW u \in Tests, u # t PROVE StatusIn(new, u) = StatusIn(old, u)
  <2>1. CASE \E i \in 1 .. n : old[i].test = u
    BY <1>5, <1>7, <2>1
  <2>2. CASE \A i \in 1 .. n : old[i].test # u
    <3>1. \A i \in 1 .. n + 1 : new[i].test # u
      BY <1>7, <1>9, <2>2
    <3> QED
      BY <1>5, <1>7, <2>2, <3>1
  <2> QED
    BY <2>1, <2>2
<1>10. Verdict = [u \in Tests |-> StatusIn(old, u)] /\ Verdict' = [u \in Tests |-> StatusIn(new, u)]
  BY <1>3 DEF Verdict, StatusOf, StatusIn
<1> QED
  BY <1>8, <1>9, <1>10

\* A test without a result has no verdict.
LEMMA NoVerdict ==
    ASSUME NEW t \in Tests, ~HasResult(t), ExecInv
    PROVE  Verdict[t] = "none"
<1>1. DOMAIN results = 1 .. Len(results)
  BY DEF ExecInv, ExecTypes
<1> QED
  BY <1>1 DEF Verdict, StatusOf, HasResult

\* Every step of the executor starts, ends or reports one test, or none.
LEMMA ExecStepFits ==
    ASSUME ExecInv, ExecInv', ExecStep
    PROVE  [Promise!RunNext]_(Promise!testVars)
<1>1. ASSUME UNCHANGED <<leader, results>> PROVE UNCHANGED Promise!testVars
  BY <1>1, VerdictStays DEF Promise!testVars, Verdict
<1>2. ASSUME NEW w \in Lanes, NEW status \in Statuses, Reports(w, status) PROVE Promise!RunNext
  <2>1. PICK t \in Tests : t = item[w]
    BY <1>2, OneMoreResult
  <2>2. Verdict[t] = "none" /\ Verdict' = [Verdict EXCEPT ![t] = status]
    BY <1>2, <2>1, VerdictReported
  <2>3. status \in Promise!Fitting(leader[t]) /\ leader' = leader
    BY <1>2, <2>1 DEF Reports, Fits, Promise!Fitting
  <2>4. Promise!Report(t, status)
    BY <2>2, <2>3 DEF Promise!Report, Verdict
  <2> QED
    BY <2>4 DEF Promise!RunNext, Promise!Verdicts, Statuses
<1>3. ASSUME NEW w \in Lanes, Spawn(w) PROVE Promise!RunNext
  <2>1. PICK t \in Tests : t = item[w] /\ ~HasResult(t) /\ leader[t] = "none"
    BY <1>3 DEF Spawn, ExecInv, HandInv, ProcessInv, Holding, Pending
  <2>2. leader' = [leader EXCEPT ![t] = "alive"] /\ results' = results
    BY <1>3, <2>1 DEF Spawn
  <2>3. Verdict[t] = "none" /\ Verdict' = Verdict
    BY <2>1, <2>2, NoVerdict, VerdictStays
  <2>4. Promise!Start(t)
    BY <2>1, <2>2, <2>3 DEF Promise!Start, Verdict
  <2> QED
    BY <2>4 DEF Promise!RunNext
<1>4. ASSUME NEW t \in Tests, leader[t] = "alive", NEW how \in {"ok", "bad", "killed"},
             leader' = [leader EXCEPT ![t] = how], results' = results
      PROVE  Promise!RunNext
  <2>1. Verdict' = Verdict
    BY <1>4, VerdictStays
  <2>2. Promise!EndProcess(t, how)
    BY <1>4, <2>1 DEF Promise!EndProcess, Verdict
  <2> QED
    BY <2>2 DEF Promise!RunNext, Promise!Endings
<1>5. ASSUME NEW t \in Tests, KillGroup(t), results' = results PROVE [Promise!RunNext]_(Promise!testVars)
  <2>1. CASE leader[t] = "alive"
    <3>1. leader' = [leader EXCEPT ![t] = "killed"]
      BY <1>5, <2>1 DEF KillGroup
    <3> QED
      BY <1>4, <1>5, <2>1, <3>1
  <2>2. CASE leader[t] # "alive"
    <3>1. leader' = leader
      BY <1>5, <2>2 DEF KillGroup, ExecInv, ExecTypes
    <3> QED
      BY <1>1, <1>5, <3>1
  <2> QED
    BY <2>1, <2>2
<1>6. ASSUME NEW w \in Lanes, GraceOver(w) \/ CancelWorker(w) PROVE [Promise!RunNext]_(Promise!testVars)
  <2>1. results' = results
    BY <1>6 DEF GraceOver, CancelWorker
  <2>2. CASE pc[w] \in Waiting /\ KillGroup(item[w])
    <3>1. PICK t \in Tests : t = item[w]
      BY <2>2 DEF ExecInv, HandInv, Holding
    <3> QED
      BY <1>5, <2>1, <2>2, <3>1
  <2>3. CASE leader' = leader
    BY <1>1, <2>1, <2>3
  <2> QED
    BY <1>6, <2>2, <2>3 DEF GraceOver, CancelWorker, Waiting, processes
<1>7. ASSUME NEW t \in Tests, LeaderExits(t) PROVE Promise!RunNext
  <2>1. PICK how \in {"ok", "bad"} : leader' = [leader EXCEPT ![t] = how] /\ leader[t] = "alive" /\ results' = results
    BY <1>7 DEF LeaderExits
  <2> QED
    BY <1>4, <2>1
<1>8. CASE \/ \E w \in Lanes : LeaveLoop(w) \/ TakeNext(w) \/ Wake(w) \/ TimeOut(w)
           \/ \E t \in Tests : Fork(t) \/ FamilyExits(t)
           \/ Interrupt \/ Raise \/ Return
  <2>1. UNCHANGED <<leader, results>>
    BY <1>8 DEF LeaveLoop, TakeNext, Wake, TimeOut, Fork, FamilyExits, Interrupt, Raise, Return, processes
  <2> QED
    BY <1>1, <2>1
<1> QED
  BY <1>2, <1>3, <1>6, <1>7, <1>8, ReportSteps DEF ExecStep, WorkerStep

\* The executor implements TestRun: through timeouts, fail_fast, kills and
\* interruptions no test is started or reported twice, and every status fits
\* how the test's process ended.
THEOREM ExecutorKeepsPromise == RunSpec => ImplementsTestRun
<1>1. RunInit => Promise!RunInit
  <2> SUFFICES ASSUME RunInit PROVE Promise!RunInit
    OBVIOUS
  <2>1. results = <<>> /\ leader = [t \in Tests |-> "none"]
    BY DEF RunInit, ExecInit
  <2>2. \A t : StatusOf(t) = "none"
    BY <2>1 DEF StatusOf
  <2> QED
    BY <2>1, <2>2 DEF Promise!RunInit
<1>2. CommandOK /\ CommandOK' /\ [RunNext]_runVars => [Promise!RunNext]_(Promise!testVars)
  <2> SUFFICES ASSUME CommandOK, CommandOK', [RunNext]_runVars PROVE [Promise!RunNext]_(Promise!testVars)
    OBVIOUS
  <2>1. CASE Executing(ExecStep)
    BY <2>1, ExecStepFits DEF Executing, CommandOK
  <2>2. CASE UNCHANGED <<leader, results>>
    BY <2>2, VerdictStays DEF Promise!testVars, Verdict
  <2>3. ASSUME UNCHANGED execVars PROVE UNCHANGED <<leader, results>>
    BY <2>3 DEF execVars, processes
  <2>4. ASSUME CommandStep PROVE UNCHANGED <<leader, results>>
    <3>1. ASSUME NEW plan, Begin(plan) PROVE UNCHANGED <<leader, results>>
      BY <3>1 DEF Begin, processes
    <3> QED
      BY <2>3, <2>4, <3>1 DEF CommandStep, LoadConfig, Collect, LoadPredictions, ScheduleAndBegin,
                              ExecuteRaised, WriteTemporary, ReplaceArtifact
  <2>5. ASSUME Killed \/ Over \/ UNCHANGED runVars PROVE UNCHANGED <<leader, results>>
    BY <2>3, <2>5 DEF Killed, Over, runVars
  <2> QED
    BY <2>1, <2>2, <2>4, <2>5 DEF RunNext
<1>3. RunSpec => Promise!RunSpec
  BY <1>1, <1>2, CommandInvariant, PTL DEF RunSpec, Promise!RunSpec
<1> QED
  BY <1>3 DEF ImplementsTestRun
=============================================================================
