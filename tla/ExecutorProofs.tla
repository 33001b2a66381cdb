--------------------------- MODULE ExecutorProofs ---------------------------
(***************************************************************************)
(* Proofs about Executor, for every number of workers, every finite set of *)
(* tests, all queues, with and without failFast and tracer: no test is     *)
(* skipped silently, no leftover or unsaved result goes unreported, every  *)
(* verdict is earned, and no worker blocks on a channel.                   *)
(*                                                                         *)
(* The argument follows the tests of a lane: those behind the worker's     *)
(* position are settled, those ahead of it are fresh, and what holds of    *)
(* the one in hand is a matter of the worker's control point.              *)
(***************************************************************************)
EXTENDS Executor, FiniteSetTheorems, TLAPS

Leftover(t) == t \in registered \cup cgroups \/ Alive(t)

\* Results of t are in the store, or their absence is reported.
Stored(t) ==
    \A r \in results : r.test = t => t \in saved \/ [test |-> t, errs |-> {"persist"}] \in errors

OnlyPersist(t) == \A e \in errors : e.test = t => e.errs = {"persist"}

\* Nothing was done for t.
Fresh(t) == leader[t] = "none" /\ ~Leftover(t) /\ ~HasResult(t) /\ ~Reported(t)

\* All was done for t: it is accounted for, and so is what it left.
Settled(t) ==
    /\ leader[t] # "running"
    /\ HasResult(t) \/ Reported(t)
    /\ Leftover(t) => Reported(t)
    /\ Stored(t)

\* The subprocess of the test in hand: only a context that is done kills it
\* on the way to a verdict.
ProcessInv(w) ==
    LET t == Current(w) IN
    /\ pc[w] \in {"register", "wait"} => leader[t] # "none"
    /\ pc[w] \in {"drain", "abort", "abortDrain", "kill", "cleanup", "status"} =>
          leader[t] \notin {"none", "running"}
    /\ pc[w] \in {"deliver", "save", "persist", "report"} => leader[t] # "running"
    /\ pc[w] \in {"register", "wait", "drain", "kill", "cleanup", "status"} /\ leader[t] = "killed" =>
          child[w] # "live"
    /\ pc[w] = "deliver" =>
          /\ local[w].status = "PASSED" => leader[t] = "pass"
          /\ local[w].status = "FAILED" => leader[t] = "fail"

\* The errors collected for the test in hand: what it leaves is among them,
\* and an execution without a result has one.
ErrorInv(w) ==
    LET t == Current(w) IN
    /\ "persist" \notin local[w].errs
    /\ pc[w] \in {"abort", "abortDrain"} => local[w].errs # {}
    /\ pc[w] = "cleanup" /\ Alive(t) => local[w].errs # {}
    /\ pc[w] \in {"status", "deliver", "save", "persist", "report"} /\ Leftover(t) =>
          local[w].errs # {}
    /\ pc[w] \in {"deliver", "report"} /\ local[w].status = "none" => local[w].errs # {}

\* What the worker has put into the channels for the test in hand.
OutputInv(w) ==
    LET t == Current(w) IN
    /\ pc[w] \in {"loop", "planned", "start", "register", "wait", "drain", "abort", "abortDrain", "kill",
                  "cleanup", "status"} => local[w].status = "none"
    /\ pc[w] \in {"register", "wait", "drain", "abort", "abortDrain", "kill", "cleanup", "status",
                  "deliver"} => ~HasResult(t) /\ ~Reported(t)
    /\ pc[w] \in {"save", "persist"} =>
          HasResult(t) /\ ~Reported(t) /\ local[w].status # "none"
    /\ pc[w] = "report" =>
          Stored(t) /\ OnlyPersist(t) /\ (HasResult(t) <=> local[w].status # "none")

\* The lane of w.
LaneInv(w) ==
    \A i \in 1 .. Len(queue[w]) :
        /\ i < next[w] => Settled(queue[w][i])
        /\ i > next[w] => Fresh(queue[w][i])
        /\ i = next[w] /\ pc[w] \in {"loop", "planned", "start"} => Fresh(queue[w][i])
        /\ i = next[w] /\ pc[w] = "finished" =>
              ctx = "cancelled" /\ (Fresh(queue[w][i]) \/ Settled(queue[w][i]))

WorkerInv(w) == ProcessInv(w) /\ ErrorInv(w) /\ OutputInv(w) /\ LaneInv(w)

\* One result per test, and at most one error of each sort.
ChannelInv ==
    /\ \A r, s \in results : r.test = s.test => r = s
    /\ \A d, e \in errors : d.test = e.test /\ (d.errs = {"persist"} <=> e.errs = {"persist"}) => d = e
    /\ \A r \in results : r.test \in Queued
    /\ \A e \in errors : e.test \in Queued

\* Without a tracer nothing is registered.
Untraced == ~traced => /\ registered = {} /\ cgroups = {}
                       /\ \A w \in Lanes : pc[w] # "register"

Inv ==
    /\ TypeOK
    /\ \A w \in Lanes : WorkerInv(w)
    /\ \A t \in Tests \ Queued : Fresh(t)
    /\ ChannelInv
    /\ Untraced
    /\ VerdictIsEarned
    /\ returned => \A w \in Lanes : pc[w] = "finished"
-----------------------------------------------------------------------------
(***************************************************************************)
(* Lanes and positions.                                                    *)
(***************************************************************************)

\* The queue of a call has every test in one place.
LEMMA QueueFacts ==
    ASSUME TypeOK
    PROVE  /\ queue \in [Lanes -> Seq(Tests)]
           /\ \A w \in Lanes : Len(queue[w]) \in Nat
           /\ \A w \in Lanes : \A i \in 1 .. Len(queue[w]) :
                 queue[w][i] \in Tests /\ queue[w][i] \in Queued
           /\ \A v, w \in Lanes : \A i \in 1 .. Len(queue[v]), j \in 1 .. Len(queue[w]) :
                 queue[v][i] = queue[w][j] => v = w /\ i = j
           /\ \A t \in Queued : \E w \in Lanes : \E i \in 1 .. Len(queue[w]) : queue[w][i] = t
<1>1. queue \in [Lanes -> Seq(Tests)]
  BY ExecutorAssumption DEF TypeOK
<1>2. \A w \in Lanes : queue[w] \in Seq(Tests) /\ DOMAIN queue[w] = 1 .. Len(queue[w]) /\ Len(queue[w]) \in Nat
  BY <1>1
<1>3. \A w \in Lanes : \A i \in 1 .. Len(queue[w]) : queue[w][i] \in Tests
  BY <1>2
<1>4. \A w \in Lanes : ToSet(queue[w]) = {queue[w][i] : i \in 1 .. Len(queue[w])}
  BY <1>2 DEF ToSet
<1>5. \A w \in Lanes : \A i \in 1 .. Len(queue[w]) : queue[w][i] \in Queued
  BY <1>4 DEF Queued, QueuedIn
<1>6. \A v, w \in Lanes : \A i \in 1 .. Len(queue[v]), j \in 1 .. Len(queue[w]) :
          queue[v][i] = queue[w][j] => v = w /\ i = j
  BY <1>2, ExecutorAssumption DEF TypeOK
<1>7. \A t \in Queued : \E w \in Lanes : \E i \in 1 .. Len(queue[w]) : queue[w][i] = t
  BY <1>4 DEF Queued, QueuedIn
<1> QED
  BY <1>1, <1>2, <1>3, <1>5, <1>6, <1>7

\* A worker that is past its loop has a test in hand.
LEMMA InHand ==
    ASSUME TypeOK, NEW w \in Lanes, pc[w] \notin {"loop", "finished"}
    PROVE  /\ next[w] \in 1 .. Len(queue[w])
           /\ Current(w) = queue[w][next[w]]
           /\ Current(w) \in Tests /\ Current(w) \in Queued
           /\ \A v \in Lanes : \A i \in 1 .. Len(queue[v]) : queue[v][i] = Current(w) => v = w /\ i = next[w]
<1>1. next[w] \in Nat \ {0} /\ next[w] <= Len(queue[w])
  BY DEF TypeOK
<1>2. next[w] \in 1 .. Len(queue[w])
  BY <1>1, QueueFacts
<1> QED
  BY <1>2, QueueFacts DEF Current
-----------------------------------------------------------------------------
(***************************************************************************)
(* Steps that do not touch a test.                                         *)
(***************************************************************************)

Same(u) ==
    /\ leader'[u] = leader[u] /\ family'[u] = family[u]
    /\ (u \in registered') <=> (u \in registered)
    /\ (u \in cgroups') <=> (u \in cgroups)
    /\ (u \in saved') <=> (u \in saved)
    /\ \A r : r.test = u => ((r \in results') <=> (r \in results))
    /\ \A e : e.test = u => ((e \in errors') <=> (e \in errors))

\* What is said of a test depends on nothing else.
LEMMA SameKeeps ==
    ASSUME NEW u, Same(u)
    PROVE  /\ Leftover(u)' <=> Leftover(u)
           /\ HasResult(u)' <=> HasResult(u)
           /\ Reported(u)' <=> Reported(u)
           /\ Stored(u)' <=> Stored(u)
           /\ OnlyPersist(u)' <=> OnlyPersist(u)
           /\ Fresh(u)' <=> Fresh(u)
           /\ Settled(u)' <=> Settled(u)
<1>1. Leftover(u)' <=> Leftover(u)
  BY DEF Same, Leftover, Alive
<1>2. HasResult(u)' <=> HasResult(u)
  BY DEF Same, HasResult
<1>3. Reported(u)' <=> Reported(u)
  BY DEF Same, Reported
<1>4. Stored(u)' <=> Stored(u)
  <2>1. [test |-> u, errs |-> {"persist"}].test = u
    OBVIOUS
  <2> QED
    BY <2>1 DEF Same, Stored
<1>5. OnlyPersist(u)' <=> OnlyPersist(u)
  BY DEF Same, OnlyPersist
<1> QED
  BY <1>1, <1>2, <1>3, <1>4, <1>5 DEF Same, Fresh, Settled

\* A worker that stands still, and whose tests are left alone, keeps its
\* invariant; its context may be cancelled or expire.
LEMMA OtherWorker ==
    ASSUME TypeOK, NEW v \in Lanes, WorkerInv(v), queue' = queue,
           pc'[v] = pc[v], next'[v] = next[v], local'[v] = local[v],
           child'[v] \in {child[v], "cancelled", "expired"}, ctx' \in {ctx, "cancelled"},
           \A i \in 1 .. Len(queue[v]) : Same(queue[v][i])
    PROVE  WorkerInv(v)'
<1>1. LaneInv(v)'
  <2> SUFFICES ASSUME NEW i \in 1 .. Len(queue[v])
               PROVE  /\ i < next[v] => Settled(queue[v][i])'
                      /\ i > next[v] => Fresh(queue[v][i])'
                      /\ i = next[v] /\ pc[v] \in {"loop", "planned", "start"} => Fresh(queue[v][i])'
                      /\ i = next[v] /\ pc[v] = "finished" =>
                            ctx' = "cancelled" /\ (Fresh(queue[v][i])' \/ Settled(queue[v][i])')
    BY DEF LaneInv
  <2>1. /\ Settled(queue[v][i])' <=> Settled(queue[v][i])
        /\ Fresh(queue[v][i])' <=> Fresh(queue[v][i])
    <3> DEFINE u == queue[v][i]
    <3>1. queue'[v][i] = u
      OBVIOUS
    <3>2. Same(u)
      OBVIOUS
    <3>3. (Fresh(u)' <=> Fresh(u)) /\ (Settled(u)' <=> Settled(u))
      BY <3>2, SameKeeps
    <3> QED
      BY <3>3
  <2> QED
    BY <2>1 DEF WorkerInv, LaneInv
<1>2. CASE pc[v] \in {"loop", "finished"}
  BY <1>1, <1>2 DEF WorkerInv, ProcessInv, ErrorInv, OutputInv
<1>3. CASE pc[v] \notin {"loop", "finished"}
  <2>1. Current(v)' = Current(v)
    BY DEF Current
  <2>2. Same(Current(v))
    BY <1>3, InHand
  <2> DEFINE t == Current(v)
  <2>3. /\ leader'[t] = leader[t]
        /\ Alive(t)' <=> Alive(t)
        /\ Leftover(t)' <=> Leftover(t)
        /\ HasResult(t)' <=> HasResult(t)
        /\ Reported(t)' <=> Reported(t)
        /\ Stored(t)' <=> Stored(t)
        /\ OnlyPersist(t)' <=> OnlyPersist(t)
    <3>1. ASSUME NEW u, u = Current(v), u = Current(v)'
          PROVE  /\ leader'[u] = leader[u]
                 /\ Alive(u)' <=> Alive(u)
                 /\ Leftover(u)' <=> Leftover(u)
                 /\ HasResult(u)' <=> HasResult(u)
                 /\ Reported(u)' <=> Reported(u)
                 /\ Stored(u)' <=> Stored(u)
                 /\ OnlyPersist(u)' <=> OnlyPersist(u)
      BY <2>2, <3>1, SameKeeps DEF Same, Alive
    <3> QED
      BY <2>1, <3>1
  <2>4. ProcessInv(v)'
    BY <2>1, <2>3 DEF WorkerInv, ProcessInv
  <2>5. ErrorInv(v)'
    BY <2>1, <2>3 DEF WorkerInv, ErrorInv
  <2>6. OutputInv(v)'
    BY <2>1, <2>3 DEF WorkerInv, OutputInv
  <2> QED
    BY <1>1, <2>4, <2>5, <2>6 DEF WorkerInv
<1> QED
  BY <1>2, <1>3

\* A step of worker w touches the test in its hand and nothing of the others,
\* except that it may cancel them all.
LEMMA WorkFrame ==
    ASSUME TypeOK, NEW w \in Lanes, Work(w)
    PROVE  /\ UNCHANGED <<queue, failFast, traced, returned>>
           /\ pc[w] # "finished"
           /\ \A v \in Lanes \ {w} : /\ pc'[v] = pc[v] /\ next'[v] = next[v] /\ local'[v] = local[v]
                                     /\ child'[v] \in {child[v], "cancelled"}
           /\ ctx' \in {ctx, "cancelled"}
           /\ \A u \in Tests : u # Current(w) \/ pc[w] = "loop" => Same(u)
<1>1. /\ pc \in [Lanes -> Labels] /\ next \in [Lanes -> Nat \ {0}] /\ DOMAIN child = Lanes
      /\ DOMAIN local = Lanes /\ DOMAIN leader = Tests /\ DOMAIN family = Tests
  BY DEF TypeOK
<1>2. CASE LoopEnds(w) \/ TakeTest(w) \/ PlannedStart(w)
  BY <1>1, <1>2 DEF LoopEnds, TakeTest, PlannedStart, Goto, Same, arguments, processes, tracer, channels
<1>3. CASE StartFails(w) \/ StartSucceeds(w)
  BY <1>1, <1>3 DEF StartFails, StartSucceeds, Outcome, Release, Goto, Same, arguments, processes, tracer, channels
<1>4. CASE Register(w) \/ RegisterFails(w)
  BY <1>1, <1>4 DEF Register, RegisterFails, KillLeader, Outcome, Goto, Same, arguments, processes, tracer, channels
<1>5. CASE Reap(w) \/ Drain(w)
  BY <1>1, <1>5 DEF Reap, Drain, Release, Goto, Same, arguments, processes, tracer, channels
<1>6. CASE KillGroup(w)
  BY <1>1, <1>6 DEF KillGroup, KillFamily, Outcome, Goto, Same, arguments, processes, tracer, channels
<1>7. CASE Cleanup(w)
  BY <1>1, <1>7 DEF Cleanup, Goto, Same, arguments, processes, tracer, channels
<1>8. CASE SetStatus(w) \/ SkipResult(w) \/ Save(w) \/ SaveFails(w)
  BY <1>1, <1>8 DEF SetStatus, SkipResult, Save, SaveFails, Release, Goto, Same, arguments, processes, tracer, channels
<1>9. CASE SendResult(w)
  BY <1>1, <1>9 DEF SendResult, Goto, Same, arguments, processes, tracer, channels
<1>10. CASE SendPersistError(w)
  BY <1>1, <1>10 DEF SendPersistError, Goto, Same, arguments, processes, tracer, channels
<1>11. CASE ReportError(w)
  BY <1>1, <1>11 DEF ReportError, CancelAll, Outcome, Goto, Same, arguments, processes, tracer, channels
<1>12. CASE FailFast(w) \/ Advance(w)
  BY <1>1, <1>12 DEF FailFast, Advance, CancelAll, Outcome, Goto, Same, arguments, processes, tracer, channels
<1> QED
  BY <1>2, <1>3, <1>4, <1>5, <1>6, <1>7, <1>8, <1>9, <1>10, <1>11, <1>12 DEF Work
-----------------------------------------------------------------------------
(***************************************************************************)
(* Type correctness.                                                       *)
(***************************************************************************)

\* Execute starts well typed.
LEMMA TypeInit == Init => TypeOK
<1> SUFFICES ASSUME Init PROVE TypeOK
  OBVIOUS
<1>1. /\ pc \in [Lanes -> Labels] /\ next \in [Lanes -> Nat \ {0}]
      /\ \A w \in Lanes : pc[w] \in {"loop", "finished"}
      /\ child \in [Lanes -> {"live", "cancelled", "expired"}]
  BY DEF Init, Labels
<1>2. local \in [Lanes -> [status : Statuses \cup {"none"}, errs : SUBSET Failures]]
  BY DEF Init
<1>3. /\ leader \in [Tests -> {"none", "running", "pass", "fail", "lost", "killed"}]
      /\ family \in [Tests -> {"none", "quiet", "pipe", "gone"}]
  BY DEF Init
<1> QED
  BY <1>1, <1>2, <1>3 DEF Init, TypeOK

\* The step of a worker leaves the types.
LEMMA TypeWork ==
    ASSUME TypeOK, NEW w \in Lanes, WorkerInv(w), Work(w)
    PROVE  TypeOK'
<1>1. pc[w] # "loop" => Current(w) \in Tests
  BY WorkFrame, InHand
<1>2. CASE LoopEnds(w) \/ TakeTest(w)
  BY <1>2, ZenonT(40) DEF LoopEnds, TakeTest, Goto, TypeOK, Labels, arguments, processes, tracer, channels
<1>16. CASE PlannedStart(w)
  <2>1. child' \in [Lanes -> {"live", "cancelled", "expired"}]
    BY <1>16 DEF PlannedStart, TypeOK
  <2>2. /\ pc' \in [Lanes -> Labels]
        /\ \A v \in Lanes : pc'[v] \notin {"loop", "finished"} => next[v] <= Len(queue[v])
    BY <1>16 DEF PlannedStart, Goto, TypeOK, Labels
  <2> QED
    BY <1>16, <2>1, <2>2 DEF PlannedStart, TypeOK, arguments, processes, tracer, channels
<1>3. CASE StartFails(w)
  BY <1>3 DEF StartFails, Outcome, Release, Goto, TypeOK, Labels, Failures, arguments, processes, tracer, channels
<1>4. CASE StartSucceeds(w)
  BY <1>1, <1>4 DEF StartSucceeds, Goto, TypeOK, Labels, arguments, processes, tracer, channels
<1>5. CASE Register(w)
  BY <1>1, <1>5 DEF Register, Goto, TypeOK, Labels, arguments, processes, tracer, channels
<1>6. CASE RegisterFails(w)
  BY <1>1, <1>6 DEF RegisterFails, KillLeader, Outcome, Goto, TypeOK, Labels, Failures, arguments, processes, tracer, channels
<1>7. CASE Reap(w) \/ Drain(w)
  BY <1>7, ZenonT(40) DEF Reap, Drain, Release, Goto, TypeOK, Labels, arguments, processes, tracer, channels
<1>8. CASE KillGroup(w)
  <2>1. local' \in [Lanes -> [status : Statuses \cup {"none"}, errs : SUBSET Failures]]
    BY <1>8 DEF KillGroup, Outcome, TypeOK, Failures
  <2>2. family' \in [Tests -> {"none", "quiet", "pipe", "gone"}]
    BY <1>1, <1>8 DEF KillGroup, KillFamily, TypeOK
  <2>3. /\ pc' \in [Lanes -> Labels]
        /\ \A v \in Lanes : pc'[v] \notin {"loop", "finished"} => next[v] <= Len(queue[v])
    BY <1>8 DEF KillGroup, Goto, TypeOK, Labels
  <2> QED
    BY <1>8, <2>1, <2>2, <2>3 DEF KillGroup, TypeOK, arguments, processes, tracer, channels
<1>9. CASE Cleanup(w)
  <2>1. local' \in [Lanes -> [status : Statuses \cup {"none"}, errs : SUBSET Failures]]
    <3>1. PICK E \in SUBSET Failures : local' = [local EXCEPT ![w].errs = E]
      <4>1. local[w].errs \in SUBSET Failures /\ local[w].errs \cup {"cleanup"} \in SUBSET Failures
        BY DEF TypeOK, Failures
      <4> QED
        BY <1>9, <4>1 DEF Cleanup
    <3> QED
      BY <3>1, ZenonT(40) DEF TypeOK
  <2>2. registered' \subseteq Tests /\ cgroups' \subseteq Tests
    BY <1>9 DEF Cleanup, TypeOK
  <2>3. /\ pc' \in [Lanes -> Labels]
        /\ \A v \in Lanes : pc'[v] \notin {"loop", "finished"} => next[v] <= Len(queue[v])
    BY <1>9 DEF Cleanup, Goto, TypeOK, Labels
  <2> QED
    BY <1>9, <2>1, <2>2, <2>3 DEF Cleanup, TypeOK, arguments, processes, tracer, channels
<1>10. CASE SetStatus(w)
  <2>1. StatusOf(w) \in Statuses \cup {"none"}
    <3>1. child[w] \in {"live", "cancelled", "expired"} /\ leader[Current(w)] \in {"pass", "fail", "killed", "lost"}
      BY <1>1, <1>10 DEF SetStatus, TypeOK, WorkerInv, ProcessInv
    <3> QED
      BY <3>1 DEF StatusOf, ExitStatus, Statuses
  <2> QED
    BY <2>1, <1>10 DEF SetStatus, Release, Goto, TypeOK, Labels, arguments, processes, tracer, channels
<1>11. CASE SkipResult(w) \/ Save(w) \/ SaveFails(w)
  BY <1>1, <1>11, ZenonT(40) DEF SkipResult, Save, SaveFails, Goto, TypeOK, Labels, arguments, processes, tracer, channels
<1>12. CASE SendResult(w)
  BY <1>1, <1>12 DEF SendResult, Goto, TypeOK, Labels, Statuses, arguments, processes, tracer, channels
<1>13. CASE SendPersistError(w)
  BY <1>1, <1>13 DEF SendPersistError, Goto, TypeOK, Labels, Failures, arguments, processes, tracer, channels
<1>14. CASE ReportError(w)
  BY <1>1, <1>14 DEF ReportError, CancelAll, Outcome, Goto, TypeOK, Labels, Failures, arguments, processes, tracer, channels
<1>15. CASE FailFast(w)
  BY <1>15 DEF FailFast, CancelAll, Goto, TypeOK, Labels, arguments, processes, tracer, channels
<1>17. CASE Advance(w)
  BY <1>17 DEF Advance, Outcome, Goto, TypeOK, Labels, arguments, processes, tracer, channels
<1> QED
  BY <1>2, <1>3, <1>4, <1>5, <1>6, <1>7, <1>8, <1>9, <1>10, <1>11, <1>12, <1>13, <1>14, <1>15,
     <1>16, <1>17 DEF Work

\* So do the steps of the processes, the timers and the signal.
LEMMA TypeEnvironment ==
    ASSUME TypeOK, Environment
    PROVE  TypeOK'
<1>1. CASE Interrupt
  BY <1>1 DEF Interrupt, CancelAll, TypeOK, arguments, processes, tracer, channels
<1>2. ASSUME NEW w \in Lanes, Timeout(w) PROVE TypeOK'
  BY <1>2 DEF Timeout, TypeOK, arguments, processes, tracer, channels
<1>3. ASSUME NEW w \in Lanes, WatchKills(w) PROVE TypeOK'
  <2>1. Current(w) \in Tests
    BY <1>3, InHand DEF WatchKills, Watching
  <2> QED
    BY <1>3, <2>1 DEF WatchKills, KillGroupOf, KillLeader, KillFamily, TypeOK, arguments, processes, tracer, channels
<1>4. ASSUME NEW t \in Tests, Spawn(t) \/ LeaderExits(t) \/ FamilyEnds(t) PROVE TypeOK'
  BY <1>4 DEF Spawn, LeaderExits, FamilyEnds, TypeOK, arguments, processes, tracer, channels
<1> QED
  BY <1>1, <1>2, <1>3, <1>4 DEF Environment
-----------------------------------------------------------------------------
(***************************************************************************)
(* The worker that moves.                                                  *)
(***************************************************************************)

\* A worker may go on with the test in hand, or leave it behind settled.
LEMMA LaneStep ==
    ASSUME TypeOK, NEW w \in Lanes, LaneInv(w), queue' = queue,
           \A i \in 1 .. Len(queue[w]) : i # next[w] => Same(queue[w][i]),
           NEW t, t = queue[w][next[w]],
           \/ next'[w] = next[w] /\ pc'[w] \notin {"loop", "planned", "start", "finished"}
           \/ next'[w] = next[w] /\ pc'[w] \in {"planned", "start"} /\ Fresh(t)'
           \/ /\ next'[w] = next[w] /\ pc'[w] = "finished"
              /\ next[w] <= Len(queue[w]) => ctx' = "cancelled" /\ (Fresh(t)' \/ Settled(t)')
           \/ next'[w] = next[w] + 1 /\ pc'[w] = "loop" /\ Settled(t)'
    PROVE  LaneInv(w)'
<1> SUFFICES ASSUME NEW i \in 1 .. Len(queue[w]), NEW u, u = queue[w][i]
             PROVE  /\ i < next'[w] => Settled(u)'
                    /\ i > next'[w] => Fresh(u)'
                    /\ i = next'[w] /\ pc'[w] \in {"loop", "planned", "start"} => Fresh(u)'
                    /\ i = next'[w] /\ pc'[w] = "finished" => ctx' = "cancelled" /\ (Fresh(u)' \/ Settled(u)')
  BY DEF LaneInv
<1>1. next[w] \in Nat /\ i \in Nat /\ Len(queue[w]) \in Nat
  BY QueueFacts DEF TypeOK
<1>2. i # next[w] => (Fresh(u)' <=> Fresh(u)) /\ (Settled(u)' <=> Settled(u))
  BY SameKeeps
<1>3. (i < next[w] => Settled(u)) /\ (i > next[w] => Fresh(u))
  BY DEF LaneInv
<1>4. i = next[w] => u = t
  OBVIOUS
<1> QED
  BY <1>1, <1>2, <1>3, <1>4

\* The loop, the planned start and the start of the subprocess.
LEMMA BeginInv ==
    ASSUME TypeOK, NEW w \in Lanes, WorkerInv(w), Untraced,
           LoopEnds(w) \/ TakeTest(w) \/ PlannedStart(w) \/ StartFails(w) \/ StartSucceeds(w)
    PROVE  WorkerInv(w)'
<1>0. PICK t : t = queue[w][next[w]]
  OBVIOUS
<1>1. Work(w)
  BY DEF Work
<1>2. /\ queue' = queue /\ next' = next /\ t = queue[w][next[w]] /\ Current(w) = t /\ Current(w)' = t
      /\ next[w] \in Nat \ {0} /\ Len(queue[w]) \in Nat
  BY <1>0, QueueFacts DEF TypeOK, LoopEnds, TakeTest, PlannedStart, StartFails, StartSucceeds, Current, arguments
<1>3. next[w] \in 1 .. Len(queue[w]) => Fresh(t)
  BY <1>2 DEF WorkerInv, LaneInv, LoopEnds, TakeTest, PlannedStart, StartFails, StartSucceeds
<1>4. \A i \in 1 .. Len(queue[w]) : i # next[w] => Same(queue[w][i])
  BY <1>1, WorkFrame, QueueFacts, InHand
<1>5. pc[w] # "loop" \/ TakeTest(w) => next[w] \in 1 .. Len(queue[w]) /\ t \in Tests
  BY <1>2, InHand, QueueFacts DEF TakeTest, LoopEnds, PlannedStart, StartFails, StartSucceeds
<1>6. CASE LoopEnds(w)
  <2>1. pc'[w] = "finished" /\ (next[w] > Len(queue[w]) \/ ctx' = "cancelled") /\ local' = local
    BY <1>6 DEF LoopEnds, Goto, TypeOK
  <2>2. next[w] \in 1 .. Len(queue[w]) => Same(t)
    BY <1>1, <1>2, <1>6, WorkFrame, QueueFacts DEF LoopEnds
  <2>3. next[w] \in 1 .. Len(queue[w]) => Fresh(t)'
    BY <1>2, <1>3, <2>2, SameKeeps
  <2>4. LaneInv(w)'
    BY <1>2, <1>4, <2>1, <2>3, LaneStep DEF WorkerInv
  <2> QED
    BY <2>1, <2>4 DEF WorkerInv, ProcessInv, ErrorInv, OutputInv
<1>7. CASE TakeTest(w) \/ PlannedStart(w)
  <2>1. /\ pc'[w] \in {"planned", "start", "finished"} /\ local' = local
        /\ pc'[w] = "finished" => ctx' = "cancelled"
    BY <1>7 DEF TakeTest, PlannedStart, Goto, TypeOK
  <2>2. Same(t)
    BY <1>5, <1>7 DEF TakeTest, PlannedStart, Same, processes, tracer, channels
  <2>3. Fresh(t)'
    BY <1>2, <1>3, <1>5, <1>7, <2>2, SameKeeps DEF PlannedStart
  <2>4. LaneInv(w)'
    BY <1>2, <1>4, <2>1, <2>3, LaneStep DEF WorkerInv
  <2>5. pc[w] \in {"loop", "planned"}
    BY <1>7 DEF TakeTest, PlannedStart
  <2> QED
    BY <2>1, <2>4, <2>5 DEF WorkerInv, ProcessInv, ErrorInv, OutputInv
<1>8. CASE StartFails(w)
  <2>1. pc'[w] = "deliver" /\ local'[w] = [status |-> "none", errs |-> {"start"}]
    BY <1>8 DEF StartFails, Goto, Outcome, TypeOK
  <2>2. Same(t)
    BY <1>8 DEF StartFails, Same, processes, tracer, channels
  <2>3. leader[t] = "none" /\ ~HasResult(t) /\ ~Reported(t)
    BY <1>3, <1>5, <1>8 DEF Fresh, StartFails
  <2>4. leader'[t] = "none" /\ ~HasResult(t)' /\ ~Reported(t)'
    BY <1>2, <2>2, <2>3, SameKeeps DEF Same
  <2>5. LaneInv(w)'
    BY <1>2, <1>4, <2>1, LaneStep DEF WorkerInv
  <2> QED
    BY <1>2, <2>1, <2>4, <2>5 DEF WorkerInv, ProcessInv, ErrorInv, OutputInv
<1>9. CASE StartSucceeds(w)
  <2>1. /\ pc'[w] \in {"register", "wait"} /\ local' = local /\ leader'[t] = "running"
        /\ UNCHANGED <<family, registered, cgroups, results, errors, saved>>
    BY <1>2, <1>5, <1>9 DEF StartSucceeds, Goto, TypeOK, tracer, channels
  <2>3. ~HasResult(t)' /\ ~Reported(t)'
    BY <1>2, <1>3, <1>5, <1>9, <2>1 DEF Fresh, HasResult, Reported, StartSucceeds
  <2>4. local[w].status = "none"
    BY <1>9 DEF StartSucceeds, WorkerInv, OutputInv
  <2>5. LaneInv(w)'
    BY <1>2, <1>4, <2>1, LaneStep DEF WorkerInv
  <2> QED
    BY <1>2, <2>1, <2>3, <2>4, <2>5 DEF WorkerInv, ProcessInv, ErrorInv, OutputInv
<1> QED
  BY <1>6, <1>7, <1>8, <1>9

\* Facts shared by the steps of a worker that goes on with its test.
LEMMA GoesOn ==
    ASSUME TypeOK, NEW w \in Lanes, WorkerInv(w), Work(w), next' = next,
           pc[w] # "loop", pc'[w] \notin {"loop", "planned", "start", "finished"}
    PROVE  /\ LaneInv(w)'
           /\ Current(w)' = Current(w) /\ Current(w) \in Tests
<1>1. queue' = queue /\ pc[w] # "finished"
  BY WorkFrame
<1>2. \A i \in 1 .. Len(queue[w]) : i # next[w] => Same(queue[w][i])
  BY <1>1, WorkFrame, QueueFacts, InHand
<1>3. LaneInv(w)'
  BY <1>1, <1>2, LaneStep DEF WorkerInv
<1> QED
  BY <1>1, <1>3, InHand DEF Current

\* Registration.
LEMMA RegisterInv ==
    ASSUME TypeOK, NEW w \in Lanes, WorkerInv(w), Register(w) \/ RegisterFails(w)
    PROVE  WorkerInv(w)'
<1>1. /\ Work(w) /\ next' = next /\ pc[w] = "register"
      /\ pc'[w] \in {"wait", "abort"}
      /\ UNCHANGED <<results, errors, child>>
  BY DEF Work, Register, RegisterFails, Goto, TypeOK, channels
<1>2. PICK t \in Tests : t = Current(w) /\ t = Current(w)'
  BY <1>1, GoesOn
<1>3. LaneInv(w)'
  BY <1>1, GoesOn
<1>4. /\ ~HasResult(t) /\ ~Reported(t) /\ local[w].status = "none" /\ "persist" \notin local[w].errs
      /\ leader[t] # "none" /\ (leader[t] = "killed" => child[w] # "live")
  BY <1>1, <1>2 DEF WorkerInv, ProcessInv, ErrorInv, OutputInv
<1>5. ~HasResult(t)' /\ ~Reported(t)'
  BY <1>1, <1>4 DEF HasResult, Reported
<1>6. CASE Register(w)
  <2>1. pc'[w] = "wait" /\ local' = local /\ leader' = leader
    BY <1>6 DEF Register, Goto, TypeOK, processes
  <2> QED
    BY <1>1, <1>2, <1>3, <1>4, <1>5, <2>1 DEF WorkerInv, ProcessInv, ErrorInv, OutputInv
<1>7. CASE RegisterFails(w)
  <2>1. pc'[w] = "abort" /\ local'[w] = [status |-> "none", errs |-> {"register"}]
    BY <1>7 DEF RegisterFails, Goto, Outcome, TypeOK
  <2>2. leader'[t] \notin {"none", "running"}
    BY <1>2, <1>4, <1>7 DEF RegisterFails, KillLeader, TypeOK
  <2> QED
    BY <1>2, <1>3, <1>5, <2>1, <2>2 DEF WorkerInv, ProcessInv, ErrorInv, OutputInv
<1> QED
  BY <1>6, <1>7

\* The end of the subprocess and of its group.
LEMMA EndInv ==
    ASSUME TypeOK, NEW w \in Lanes, WorkerInv(w), Reap(w) \/ Drain(w) \/ KillGroup(w)
    PROVE  WorkerInv(w)'
<1>1. /\ Work(w) /\ next' = next /\ pc[w] \in {"wait", "abort", "drain", "abortDrain", "kill"}
      /\ UNCHANGED <<results, errors, leader>>
  BY DEF Work, Reap, Drain, KillGroup, processes, channels
<1>2. pc'[w] \in {"drain", "abortDrain", "kill", "deliver", "cleanup"}
  BY DEF Reap, Drain, KillGroup, Goto, TypeOK
<1>3. PICK t \in Tests : t = Current(w) /\ t = Current(w)'
  BY <1>1, <1>2, GoesOn
<1>4. LaneInv(w)'
  BY <1>1, <1>2, GoesOn
<1>5. ~HasResult(t)' /\ ~Reported(t)'
  BY <1>1, <1>3 DEF HasResult, Reported, WorkerInv, OutputInv
<1>6. CASE Reap(w)
  <2>1. /\ pc[w] \in {"wait", "abort"} /\ pc'[w] = IF pc[w] = "wait" THEN "drain" ELSE "abortDrain"
        /\ local' = local /\ leader[t] # "running" /\ child' = child
    BY <1>3, <1>6 DEF Reap, Goto, TypeOK
  <2> QED
    BY <1>1, <1>3, <1>4, <1>5, <2>1 DEF WorkerInv, ProcessInv, ErrorInv, OutputInv
<1>7. CASE Drain(w)
  <2>1. CASE pc[w] = "drain"
    <3>1. pc'[w] = "kill" /\ local' = local /\ child' = child
      BY <1>7, <2>1 DEF Drain, Goto, TypeOK
    <3> QED
      BY <1>1, <1>3, <1>4, <1>5, <2>1, <3>1 DEF WorkerInv, ProcessInv, ErrorInv, OutputInv
  <2>2. CASE pc[w] = "abortDrain"
    <3>1. pc'[w] = "deliver" /\ local' = local
      BY <1>7, <2>2 DEF Drain, Goto, TypeOK
    <3> QED
      BY <1>1, <1>3, <1>4, <1>5, <2>2, <3>1 DEF WorkerInv, ProcessInv, ErrorInv, OutputInv
  <2> QED
    BY <1>7, <2>1, <2>2 DEF Drain
<1>8. CASE KillGroup(w)
  <2>1. /\ pc[w] = "kill" /\ pc'[w] = "cleanup" /\ child' = child
        /\ local'[w].status = "none" /\ "persist" \notin local'[w].errs
    BY <1>8 DEF KillGroup, Goto, Outcome, TypeOK
  <2>2. Alive(t)' => local'[w].errs # {}
    <3>1. CASE KillFamily(Current(w))
      <4>1. family'[t] = IF family[t] \in {"quiet", "pipe"} THEN "gone" ELSE family[t]
        BY <1>3, <3>1 DEF KillFamily, Alive, TypeOK
      <4> QED
        BY <4>1 DEF Alive
    <3>2. CASE Outcome(w, "none", {"descendants"})
      BY <3>2 DEF Outcome, TypeOK
    <3> QED
      BY <1>8, <3>1, <3>2 DEF KillGroup
  <2>3. ProcessInv(w)'
    BY <1>1, <1>3, <2>1 DEF WorkerInv, ProcessInv
  <2>4. ErrorInv(w)'
    BY <1>3, <2>1, <2>2 DEF ErrorInv
  <2>5. OutputInv(w)'
    BY <1>3, <1>5, <2>1 DEF OutputInv
  <2> QED
    BY <1>4, <2>3, <2>4, <2>5 DEF WorkerInv
<1> QED
  BY <1>6, <1>7, <1>8

\* Cleanup and the verdict.
LEMMA VerdictInv ==
    ASSUME TypeOK, NEW w \in Lanes, WorkerInv(w), Untraced, Cleanup(w) \/ SetStatus(w)
    PROVE  WorkerInv(w)'
<1>1. /\ Work(w) /\ next' = next /\ pc[w] \in {"cleanup", "status"}
      /\ UNCHANGED <<results, errors, leader, family>>
      /\ pc'[w] \in {"status", "deliver"}
  BY DEF Work, Cleanup, SetStatus, Goto, TypeOK, processes, channels
<1>2. PICK t \in Tests : t = Current(w) /\ t = Current(w)'
  BY <1>1, GoesOn
<1>3. LaneInv(w)'
  BY <1>1, GoesOn
<1>4. ~HasResult(t)' /\ ~Reported(t)'
  BY <1>1, <1>2 DEF HasResult, Reported, WorkerInv, OutputInv
<1>5. /\ leader[t] \in {"pass", "fail", "lost", "killed"} /\ (leader[t] = "killed" => child[w] # "live")
      /\ "persist" \notin local[w].errs
  BY <1>1, <1>2 DEF WorkerInv, ProcessInv, ErrorInv, TypeOK
<1>6. CASE Cleanup(w)
  <2>1. pc[w] = "cleanup" /\ pc'[w] = "status" /\ child' = child
    BY <1>6 DEF Cleanup, Goto, TypeOK
  <2>2. PICK sent \in BOOLEAN, removed \in BOOLEAN :
           /\ registered' = IF sent THEN registered \ {t} ELSE registered
           /\ cgroups' = IF removed THEN cgroups \ {t} ELSE cgroups
           /\ local' = [local EXCEPT ![w].errs =
                           IF traced /\ ~(sent /\ removed) THEN @ \cup {"cleanup"} ELSE @]
    BY <1>2, <1>6 DEF Cleanup
  <2>3. /\ local'[w].status = local[w].status
        /\ local'[w].errs = IF traced /\ ~(sent /\ removed) THEN local[w].errs \cup {"cleanup"} ELSE local[w].errs
    BY <2>2 DEF TypeOK
  <2>4. local[w].status = "none" /\ (Alive(t) => local[w].errs # {})
    BY <1>2, <2>1 DEF WorkerInv, OutputInv, ErrorInv
  <2>5. Alive(t)' <=> Alive(t)
    BY <1>1 DEF Alive
  <2>6. Leftover(t)' => local'[w].errs # {}
    <3>1. CASE traced
      BY <2>2, <2>3, <2>4, <2>5, <3>1 DEF Leftover
    <3>2. CASE ~traced
      BY <2>2, <2>3, <2>4, <2>5, <3>2 DEF Leftover, Untraced
    <3> QED
      BY <3>1, <3>2
  <2>7. "persist" \notin local'[w].errs
    BY <1>5, <2>3
  <2>8. ErrorInv(w)'
    BY <1>2, <2>1, <2>6, <2>7 DEF ErrorInv
  <2>9. ProcessInv(w)'
    BY <1>1, <1>2, <1>5, <2>1 DEF ProcessInv
  <2>10. OutputInv(w)'
    BY <1>2, <1>4, <2>1, <2>3, <2>4 DEF OutputInv
  <2> QED
    BY <1>3, <2>8, <2>9, <2>10 DEF WorkerInv
<1>7. CASE SetStatus(w)
  <2>1. /\ pc[w] = "status" /\ pc'[w] = "deliver" /\ registered' = registered /\ cgroups' = cgroups
        /\ local'[w].status = StatusOf(w) /\ local'[w].errs = local[w].errs
    BY <1>7 DEF SetStatus, Goto, TypeOK, tracer
  <2>2. child[w] \in {"live", "cancelled", "expired"}
    BY DEF TypeOK
  <2>3. /\ StatusOf(w) # "none"
        /\ StatusOf(w) = "PASSED" => leader[t] = "pass"
        /\ StatusOf(w) = "FAILED" => leader[t] = "fail"
    BY <1>2, <1>5, <2>2 DEF StatusOf, ExitStatus
  <2>4. Leftover(t)' => local[w].errs # {}
    BY <1>1, <1>2, <2>1 DEF Leftover, Alive, WorkerInv, ErrorInv
  <2>5. ProcessInv(w)'
    BY <1>1, <1>2, <1>5, <2>1, <2>3 DEF ProcessInv
  <2>6. ErrorInv(w)'
    BY <1>2, <1>5, <2>1, <2>3, <2>4 DEF ErrorInv
  <2>7. OutputInv(w)'
    BY <1>2, <1>4, <2>1 DEF OutputInv
  <2> QED
    BY <1>3, <2>5, <2>6, <2>7 DEF WorkerInv
<1> QED
  BY <1>6, <1>7

\* The result and its storage.
LEMMA DeliverInv ==
    ASSUME TypeOK, NEW w \in Lanes, WorkerInv(w),
           SkipResult(w) \/ SendResult(w) \/ Save(w) \/ SaveFails(w) \/ SendPersistError(w)
    PROVE  WorkerInv(w)'
<1>1. /\ Work(w) /\ next' = next /\ pc[w] \in {"deliver", "save", "persist"}
      /\ UNCHANGED <<leader, family, registered, cgroups, local>>
      /\ pc'[w] \in {"save", "persist", "report"}
  BY DEF Work, SkipResult, SendResult, Save, SaveFails, SendPersistError, Goto, TypeOK, processes, tracer
<1>2. PICK t \in Tests : t = Current(w) /\ t = Current(w)'
  BY <1>1, GoesOn
<1>3. LaneInv(w)'
  BY <1>1, GoesOn
<1>4. ProcessInv(w)'
  BY <1>1, <1>2 DEF WorkerInv, ProcessInv
<1>5. ErrorInv(w)'
  <2>1. Leftover(t)' <=> Leftover(t)
    BY <1>1 DEF Leftover, Alive
  <2>2. pc[w] \in {"save", "persist"} => local[w].status # "none"
    BY DEF WorkerInv, OutputInv
  <2> QED
    BY <1>1, <1>2, <2>1, <2>2 DEF WorkerInv, ErrorInv
<1>6. OutputInv(w)'
  <2>1. CASE SkipResult(w)
    <3>1. /\ pc[w] = "deliver" /\ pc'[w] = "report" /\ local[w].status = "none"
          /\ results' = results /\ errors' = errors
      BY <2>1 DEF SkipResult, Goto, TypeOK, channels
    <3>2. ~HasResult(t) /\ ~Reported(t)
      BY <1>2, <3>1 DEF WorkerInv, OutputInv
    <3>3. ~HasResult(t)' /\ Stored(t)' /\ OnlyPersist(t)'
      BY <3>1, <3>2 DEF HasResult, Reported, Stored, OnlyPersist
    <3> QED
      BY <1>1, <1>2, <3>1, <3>3 DEF OutputInv
  <2>2. CASE SendResult(w)
    <3>1. /\ pc[w] = "deliver" /\ pc'[w] = "save" /\ local[w].status # "none" /\ errors' = errors
          /\ results' = results \cup {[test |-> t, status |-> local[w].status]}
      BY <1>2, <2>2 DEF SendResult, Goto, TypeOK
    <3>2. ~Reported(t)
      BY <1>2, <3>1 DEF WorkerInv, OutputInv
    <3>3. HasResult(t)'
      <4> DEFINE r == [test |-> t, status |-> local[w].status]
      <4>1. r \in results' /\ r.test = t
        BY <3>1
      <4> HIDE DEF r
      <4> QED
        BY <4>1 DEF HasResult
    <3>4. ~Reported(t)'
      BY <3>1, <3>2 DEF Reported
    <3> QED
      BY <1>1, <1>2, <3>1, <3>3, <3>4 DEF OutputInv
  <2>3. CASE Save(w)
    <3>1. /\ pc[w] = "save" /\ pc'[w] = "report" /\ results' = results /\ errors' = errors
          /\ t \in saved'
      BY <1>2, <2>3 DEF Save, Goto, TypeOK, channels
    <3>2. HasResult(t) /\ ~Reported(t) /\ local[w].status # "none"
      BY <1>2, <3>1 DEF WorkerInv, OutputInv
    <3>3. HasResult(t)' /\ Stored(t)' /\ OnlyPersist(t)'
      BY <3>1, <3>2 DEF HasResult, Reported, Stored, OnlyPersist
    <3> QED
      BY <1>1, <1>2, <3>1, <3>2, <3>3 DEF OutputInv
  <2>4. CASE SaveFails(w)
    <3>1. pc[w] = "save" /\ pc'[w] = "persist" /\ results' = results /\ errors' = errors
      BY <2>4 DEF SaveFails, Goto, TypeOK, channels
    <3>2. HasResult(t) /\ ~Reported(t) /\ local[w].status # "none"
      BY <1>2, <3>1 DEF WorkerInv, OutputInv
    <3>3. HasResult(t)' /\ ~Reported(t)'
      BY <3>1, <3>2 DEF HasResult, Reported
    <3> QED
      BY <1>1, <1>2, <3>1, <3>2, <3>3 DEF OutputInv
  <2>5. CASE SendPersistError(w)
    <3>1. /\ pc[w] = "persist" /\ pc'[w] = "report" /\ results' = results
          /\ errors' = errors \cup {[test |-> t, errs |-> {"persist"}]}
      BY <1>2, <2>5 DEF SendPersistError, Goto, TypeOK
    <3>2. HasResult(t) /\ ~Reported(t) /\ local[w].status # "none"
      BY <1>2, <3>1 DEF WorkerInv, OutputInv
    <3>3. HasResult(t)' /\ Stored(t)' /\ OnlyPersist(t)'
      BY <3>1, <3>2 DEF HasResult, Reported, Stored, OnlyPersist
    <3> QED
      BY <1>1, <1>2, <3>1, <3>2, <3>3 DEF OutputInv
  <2> QED
    BY <2>1, <2>2, <2>3, <2>4, <2>5
<1> QED
  BY <1>3, <1>4, <1>5, <1>6 DEF WorkerInv

\* A test that is reported, or has its result and no error, is settled.
LEMMA ReportInv ==
    ASSUME TypeOK, NEW w \in Lanes, WorkerInv(w), ReportError(w) \/ FailFast(w) \/ Advance(w)
    PROVE  WorkerInv(w)'
<1>1. /\ Work(w) /\ pc[w] = "report"
      /\ UNCHANGED <<leader, family, registered, cgroups, results, saved>>
  BY DEF Work, ReportError, FailFast, Advance, processes, tracer, channels
<1>2. PICK t \in Tests : t = Current(w)
  BY <1>1, InHand
<1>3. /\ queue' = queue /\ t = queue[w][next[w]]
      /\ \A i \in 1 .. Len(queue[w]) : i # next[w] => Same(queue[w][i])
  BY <1>1, <1>2, WorkFrame, QueueFacts, InHand DEF Current
<1>4. /\ leader[t] # "running"
      /\ Leftover(t) => local[w].errs # {}
      /\ local[w].status = "none" => local[w].errs # {}
      /\ Stored(t) /\ (HasResult(t) <=> local[w].status # "none")
  BY <1>1, <1>2 DEF WorkerInv, ProcessInv, ErrorInv, OutputInv
<1>5. /\ leader'[t] # "running" /\ (Leftover(t)' <=> Leftover(t)) /\ (HasResult(t)' <=> HasResult(t))
  BY <1>1, <1>4 DEF Leftover, Alive, HasResult
<1>6. CASE ReportError(w)
  <2>1. /\ pc'[w] = "loop" /\ next'[w] = next[w] + 1
        /\ local'[w] = [status |-> "none", errs |-> {}]
        /\ errors' = errors \cup {[test |-> t, errs |-> local[w].errs]}
    BY <1>2, <1>6 DEF ReportError, Goto, Outcome, TypeOK
  <2>2. Reported(t)'
    <3> DEFINE e == [test |-> t, errs |-> local[w].errs]
    <3>1. e \in errors' /\ e.test = t
      BY <2>1
    <3> HIDE DEF e
    <3> QED
      BY <3>1 DEF Reported
  <2>3. Stored(t)'
    BY <1>1, <1>4, <2>1 DEF Stored
  <2>4. Settled(t)'
    BY <1>5, <2>2, <2>3 DEF Settled
  <2>5. LaneInv(w)'
    BY <1>3, <2>1, <2>4, LaneStep DEF WorkerInv
  <2> QED
    BY <2>1, <2>5 DEF WorkerInv, ProcessInv, ErrorInv, OutputInv
<1>7. CASE FailFast(w) \/ Advance(w)
  <2>1. local[w].errs = {} /\ errors' = errors
    BY <1>7 DEF FailFast, Advance, channels
  <2>2. Stored(t)' <=> Stored(t)
    BY <1>1, <2>1 DEF Stored
  <2>3. Settled(t)'
    BY <1>4, <1>5, <2>1, <2>2 DEF Settled
  <2>4. CASE FailFast(w)
    <3>1. pc'[w] = "finished" /\ next'[w] = next[w] /\ ctx' = "cancelled" /\ local' = local
      BY <2>4 DEF FailFast, CancelAll, Goto, TypeOK
    <3>2. LaneInv(w)'
      BY <1>3, <2>3, <3>1, LaneStep DEF WorkerInv
    <3> QED
      BY <3>1, <3>2 DEF WorkerInv, ProcessInv, ErrorInv, OutputInv
  <2>5. CASE Advance(w)
    <3>1. /\ pc'[w] = "loop" /\ next'[w] = next[w] + 1
          /\ local'[w] = [status |-> "none", errs |-> {}]
      BY <2>5 DEF Advance, Goto, Outcome, TypeOK
    <3>2. LaneInv(w)'
      BY <1>3, <2>3, <3>1, LaneStep DEF WorkerInv
    <3> QED
      BY <3>1, <3>2 DEF WorkerInv, ProcessInv, ErrorInv, OutputInv
  <2> QED
    BY <1>7, <2>4, <2>5
<1> QED
  BY <1>6, <1>7

\* The worker that moves keeps its invariant.
LEMMA WorkInv ==
    ASSUME TypeOK, NEW w \in Lanes, WorkerInv(w), Untraced, Work(w)
    PROVE  WorkerInv(w)'
  BY BeginInv, RegisterInv, EndInv, VerdictInv, DeliverInv, ReportInv DEF Work
-----------------------------------------------------------------------------
(***************************************************************************)
(* Steps of a worker.                                                      *)
(***************************************************************************)

\* The channels get one result, and one error of a sort, per test.
LEMMA WorkChannels ==
    ASSUME Inv, NEW w \in Lanes, Work(w)
    PROVE  ChannelInv'
<1>1. queue' = queue /\ Queued' = Queued
  BY WorkFrame DEF Inv, Queued
<1>2. pc[w] # "loop" => Current(w) \in Queued
  BY WorkFrame, InHand DEF Inv
<1>3. CASE SendResult(w)
  <2>1. PICK r : /\ r = [test |-> Current(w), status |-> local[w].status]
                 /\ results' = results \cup {r} /\ errors' = errors
    BY <1>3 DEF SendResult
  <2>2. r.test = Current(w) /\ r.test \in Queued /\ ~HasResult(Current(w))
    BY <1>2, <1>3, <2>1 DEF SendResult, Inv, WorkerInv, OutputInv
  <2> QED
    BY <1>1, <2>1, <2>2 DEF Inv, ChannelInv, HasResult
<1>4. CASE SendPersistError(w)
  <2>1. PICK e : /\ e = [test |-> Current(w), errs |-> {"persist"}]
                 /\ errors' = errors \cup {e} /\ results' = results
    BY <1>4 DEF SendPersistError
  <2>2. e.test = Current(w) /\ e.test \in Queued /\ ~Reported(Current(w))
    BY <1>2, <1>4, <2>1 DEF SendPersistError, Inv, WorkerInv, OutputInv
  <2>3. \A d \in errors : d.test # e.test
    BY <2>2 DEF Reported
  <2>4. errors' = errors \cup {e} /\ results' = results /\ e.test \in Queued
    BY <2>1, <2>2
  <2>5. ChannelInv
    BY DEF Inv
  <2> QED
    BY <1>1, <2>3, <2>4, <2>5 DEF ChannelInv
<1>5. CASE ReportError(w)
  <2>1. PICK e : /\ e = [test |-> Current(w), errs |-> local[w].errs]
                 /\ errors' = errors \cup {e} /\ results' = results
    BY <1>5 DEF ReportError
  <2>2. /\ e.test = Current(w) /\ e.test \in Queued /\ OnlyPersist(Current(w))
        /\ e.errs = local[w].errs /\ "persist" \notin local[w].errs
    BY <1>2, <1>5, <2>1 DEF ReportError, Inv, WorkerInv, OutputInv, ErrorInv
  <2>3. e.errs # {"persist"} /\ \A d \in errors : d.test = e.test => d.errs = {"persist"}
    BY <2>2 DEF OnlyPersist
  <2> QED
    BY <1>1, <2>1, <2>2, <2>3 DEF Inv, ChannelInv
<1>6. CASE UNCHANGED channels
  BY <1>1, <1>6 DEF Inv, ChannelInv, channels
<1> QED
  BY <1>3, <1>4, <1>5, <1>6
  DEF Work, LoopEnds, TakeTest, PlannedStart, StartFails, StartSucceeds, Register, RegisterFails,
      Reap, Drain, KillGroup, Cleanup, SetStatus, SkipResult, Save, SaveFails, FailFast, Advance

\* A verdict is read off the leader, and a leader with a verdict is left alone.
LEMMA WorkVerdicts ==
    ASSUME Inv, NEW w \in Lanes, Work(w)
    PROVE  VerdictIsEarned'
<1>1. CASE SendResult(w)
  <2>1. PICK r : /\ r = [test |-> Current(w), status |-> local[w].status]
                 /\ results' = results \cup {r} /\ leader' = leader
    BY <1>1 DEF SendResult, processes
  <2>2. /\ r.test = Current(w) /\ r.status = local[w].status
        /\ local[w].status = "PASSED" => leader[Current(w)] = "pass"
        /\ local[w].status = "FAILED" => leader[Current(w)] = "fail"
    BY <1>1, <2>1 DEF SendResult, Inv, WorkerInv, ProcessInv
  <2> QED
    BY <2>1, <2>2 DEF Inv, VerdictIsEarned
<1>2. CASE StartSucceeds(w) \/ RegisterFails(w)
  <2>1. pc[w] \in {"start", "register"} /\ results' = results
    BY <1>2 DEF StartSucceeds, RegisterFails, channels
  <2>2. Current(w) \in Tests /\ Current(w) = queue[w][next[w]] /\ next[w] \in 1 .. Len(queue[w])
    BY <2>1, InHand DEF Inv
  <2>3. \A u \in Tests : u # Current(w) => leader'[u] = leader[u]
    BY <1>2 DEF StartSucceeds, RegisterFails, KillLeader, Inv, TypeOK
  <2>4. pc[w] = "start" => Fresh(Current(w))
    BY <2>2 DEF Inv, WorkerInv, LaneInv
  <2>5. ~HasResult(Current(w))
    BY <2>1, <2>4 DEF Inv, WorkerInv, OutputInv, Fresh
  <2>6. \A r \in results : r.test \in Tests
    BY DEF Inv, TypeOK
  <2> QED
    BY <2>1, <2>3, <2>5, <2>6 DEF Inv, VerdictIsEarned, HasResult
<1>3. CASE UNCHANGED <<results, leader>>
  BY <1>3 DEF Inv, VerdictIsEarned
<1> QED
  BY <1>1, <1>2, <1>3
  DEF Work, LoopEnds, TakeTest, PlannedStart, StartFails, Register, processes, channels, SendPersistError, ReportError,
      Reap, Drain, KillGroup, Cleanup, SetStatus, SkipResult, Save, SaveFails, FailFast, Advance

\* Only a run with a tracer registers.
LEMMA WorkUntraced ==
    ASSUME Inv, NEW w \in Lanes, Work(w)
    PROVE  Untraced'
<1> SUFFICES ASSUME ~traced'
             PROVE  (registered' = {} /\ cgroups' = {}) /\ \A v \in Lanes : pc'[v] # "register"
  BY DEF Untraced
<1>1. ~traced /\ registered = {} /\ cgroups = {} /\ \A v \in Lanes : pc[v] # "register"
  BY WorkFrame DEF Inv, Untraced
<1>2. registered' = {} /\ cgroups' = {}
  <2>1. CASE Cleanup(w)
    BY <1>1, <2>1 DEF Cleanup
  <2>2. CASE UNCHANGED tracer
    BY <1>1, <2>2 DEF tracer
  <2> QED
    BY <1>1, <2>1, <2>2
    DEF Work, LoopEnds, TakeTest, PlannedStart, StartFails, StartSucceeds, Register, RegisterFails, SendResult,
        SendPersistError, ReportError,
        Reap, Drain, KillGroup, Cleanup, SetStatus, SkipResult, Save, SaveFails, FailFast, Advance
<1>3. pc'[w] # "register"
  BY <1>1
  DEF Goto, Inv, TypeOK, Work, LoopEnds, TakeTest, PlannedStart, StartFails, StartSucceeds, Register,
      RegisterFails, SendResult, SendPersistError, ReportError,
      Reap, Drain, KillGroup, Cleanup, SetStatus, SkipResult, Save, SaveFails, FailFast, Advance
<1> QED
  BY <1>1, <1>2, <1>3, WorkFrame DEF Inv

\* The step of a worker keeps the invariant.
LEMMA WorkKeeps ==
    ASSUME Inv, NEW w \in Lanes, Work(w)
    PROVE  Inv'
<1>1. TypeOK'
  BY TypeWork DEF Inv
<1>2. ASSUME NEW v \in Lanes PROVE WorkerInv(v)'
  <2>1. CASE v = w
    BY <2>1, WorkInv DEF Inv
  <2>2. CASE v # w
    <3>1. ASSUME NEW i \in 1 .. Len(queue[v]) PROVE Same(queue[v][i])
      <4>1. queue[v][i] \in Tests
        BY QueueFacts DEF Inv
      <4>2. pc[w] # "loop" => queue[v][i] # Current(w)
        BY <2>2, WorkFrame, InHand DEF Inv
      <4> QED
        BY <4>1, <4>2, WorkFrame DEF Inv
    <3> QED
      BY <2>2, <3>1, WorkFrame, OtherWorker DEF Inv
  <2> QED
    BY <2>1, <2>2
<1>3. ASSUME NEW u \in Tests \ Queued' PROVE Fresh(u)'
  <2>1. u \in Tests \ Queued
    BY WorkFrame DEF Queued, Inv
  <2>2. Same(u)
    BY <2>1, WorkFrame, InHand DEF Inv
  <2> QED
    BY <2>1, <2>2, SameKeeps DEF Inv
<1>4. returned' => \A v \in Lanes : pc'[v] = "finished"
  BY WorkFrame DEF Inv
<1> QED
  BY <1>1, <1>2, <1>3, <1>4, WorkChannels, WorkVerdicts, WorkUntraced DEF Inv
-----------------------------------------------------------------------------
(***************************************************************************)
(* Steps of the environment.                                               *)
(***************************************************************************)

\* A subprocess runs only while a worker waits for it.
LEMMA RunningInHand ==
    ASSUME Inv, NEW t \in Tests, leader[t] = "running"
    PROVE  t \in Queued /\ ~HasResult(t) /\ \E w \in Lanes : Current(w) = t /\ pc[w] \in {"register", "wait"}
<1>1. t \in Queued
  BY DEF Inv, Fresh
<1>2. PICK w \in Lanes : \E i \in 1 .. Len(queue[w]) : queue[w][i] = t
  BY <1>1, QueueFacts DEF Inv
<1>3. PICK i \in 1 .. Len(queue[w]) : queue[w][i] = t
  BY <1>2
<1>4. ~Fresh(t) /\ ~Settled(t)
  BY DEF Fresh, Settled
<1>5. next[w] \in Nat /\ i \in Nat /\ WorkerInv(w) /\ pc[w] \in Labels
  BY QueueFacts DEF Inv, TypeOK
<1>6. i = next[w] /\ pc[w] \notin {"loop", "planned", "start", "finished"}
  BY <1>3, <1>4, <1>5 DEF WorkerInv, LaneInv
<1>7. Current(w) = t
  BY <1>3, <1>6 DEF Current
<1>8. pc[w] \in {"register", "wait"}
  BY <1>5, <1>6, <1>7 DEF WorkerInv, ProcessInv, Labels
<1> QED
  BY <1>1, <1>5, <1>7, <1>8 DEF WorkerInv, OutputInv

\* The environment leaves the workers where they are, touches a leader only
\* while it runs, and puts nothing into the channels.
LEMMA EnvironmentFrame ==
    ASSUME Inv, Environment
    PROVE  /\ UNCHANGED <<queue, failFast, traced, returned, pc, next, local, registered, cgroups,
                           results, errors, saved>>
           /\ \A v \in Lanes : child'[v] \in {child[v], "cancelled", "expired"}
           /\ ctx' \in {ctx, "cancelled"}
           /\ \A u \in Tests : leader[u] # "running" => leader'[u] = leader[u]
<1>1. CASE Interrupt
  BY <1>1 DEF Interrupt, CancelAll, arguments, processes, tracer, channels
<1>2. ASSUME NEW w \in Lanes, Timeout(w)
      PROVE  /\ UNCHANGED <<queue, failFast, traced, returned, pc, next, local, registered, cgroups,
                             results, errors, saved, leader, ctx>>
             /\ \A v \in Lanes : child'[v] \in {child[v], "cancelled", "expired"}
  BY <1>2 DEF Timeout, Inv, TypeOK, arguments, processes, tracer, channels
<1>3. ASSUME NEW w \in Lanes, WatchKills(w)
      PROVE  /\ UNCHANGED <<queue, failFast, traced, returned, pc, next, local, registered, cgroups,
                             results, errors, saved, child, ctx>>
             /\ \A u \in Tests : leader[u] # "running" => leader'[u] = leader[u]
  BY <1>3 DEF WatchKills, KillGroupOf, KillLeader, Inv, TypeOK, arguments, tracer, channels
<1>4. ASSUME NEW t \in Tests, Spawn(t) \/ LeaderExits(t) \/ FamilyEnds(t)
      PROVE  /\ UNCHANGED <<queue, failFast, traced, returned, pc, next, local, registered, cgroups,
                             results, errors, saved, child, ctx>>
             /\ \A u \in Tests : leader[u] # "running" => leader'[u] = leader[u]
  BY <1>4 DEF Spawn, LeaderExits, FamilyEnds, Inv, TypeOK, arguments, tracer, channels
<1> QED
  BY <1>1, <1>2, <1>3, <1>4 DEF Environment

\* A step that changes nothing of any test keeps every worker.
LEMMA AllSame ==
    ASSUME Inv, Environment, \A u \in Tests : Same(u)
    PROVE  \A v \in Lanes : WorkerInv(v)'
<1> SUFFICES ASSUME NEW v \in Lanes PROVE WorkerInv(v)'
  OBVIOUS
<1>1. \A i \in 1 .. Len(queue[v]) : Same(queue[v][i])
  BY QueueFacts DEF Inv
<1> QED
  BY <1>1, EnvironmentFrame, OtherWorker DEF Inv

\* A step on the processes of a test whose subprocess is waited for keeps the
\* workers, if a leader dies only when the context is done.
LEMMA WaitedFor ==
    ASSUME Inv, Environment, NEW w \in Lanes, NEW t, t = Current(w), pc[w] \in {"register", "wait"},
           \A u \in Tests : u # t => Same(u),
           leader'[t] # "none", leader'[t] = "killed" => leader[t] = "killed" \/ child[w] # "live",
           child' = child
    PROVE  \A v \in Lanes : WorkerInv(v)'
<1> SUFFICES ASSUME NEW v \in Lanes PROVE WorkerInv(v)'
  OBVIOUS
<1>1. UNCHANGED <<queue, pc, next, local, results, errors, saved>> /\ ctx' \in {ctx, "cancelled"}
  BY EnvironmentFrame
<1>2. ASSUME NEW i \in 1 .. Len(queue[v]), v # w \/ i # next[w] PROVE Same(queue[v][i])
  <2>1. queue[v][i] \in Tests /\ queue[v][i] # t
    BY <1>2, QueueFacts, InHand, SMTT(30) DEF Inv
  <2> QED
    BY <2>1
<1>3. CASE v # w
  BY <1>1, <1>2, <1>3, OtherWorker DEF Inv
<1>4. CASE v = w
  <2>1. LaneInv(w)'
    BY <1>1, <1>2, <1>4, LaneStep DEF Inv, WorkerInv, Current
  <2>2. t = Current(w)' /\ WorkerInv(w)
    BY <1>1 DEF Current, Inv
  <2>3. ~HasResult(t)' /\ ~Reported(t)' /\ local'[w].status = "none"
    BY <1>1, <2>2 DEF WorkerInv, OutputInv, HasResult, Reported
  <2>4. ProcessInv(w)'
    BY <1>1, <2>2 DEF WorkerInv, ProcessInv
  <2>5. ErrorInv(w)'
    BY <1>1, <2>2 DEF WorkerInv, ErrorInv
  <2>6. OutputInv(w)'
    BY <1>1, <2>2, <2>3 DEF OutputInv
  <2> QED
    BY <1>4, <2>1, <2>4, <2>5, <2>6 DEF WorkerInv
<1> QED
  BY <1>3, <1>4

\* The end of a descendant takes a leftover away.
LEMMA DescendantEnds ==
    ASSUME Inv, NEW t \in Tests, FamilyEnds(t)
    PROVE  \A v \in Lanes : WorkerInv(v)'
<1> SUFFICES ASSUME NEW v \in Lanes PROVE WorkerInv(v)'
  OBVIOUS
<1>1. /\ UNCHANGED <<queue, ctx, pc, next, child, local, leader, registered, cgroups, results, errors, saved>>
      /\ \A u \in Tests : Alive(u)' => Alive(u)
  BY DEF FamilyEnds, Alive, Inv, TypeOK, arguments, tracer, channels
<1>2. ASSUME NEW u \in Tests
      PROVE  /\ Leftover(u)' => Leftover(u)
             /\ HasResult(u)' <=> HasResult(u)
             /\ Reported(u)' <=> Reported(u)
             /\ Stored(u)' <=> Stored(u)
             /\ OnlyPersist(u)' <=> OnlyPersist(u)
             /\ Fresh(u) => Fresh(u)'
             /\ Settled(u) => Settled(u)'
  <2>1. Leftover(u)' => Leftover(u)
    BY <1>1 DEF Leftover
  <2>2. /\ HasResult(u)' <=> HasResult(u)
        /\ Reported(u)' <=> Reported(u)
        /\ OnlyPersist(u)' <=> OnlyPersist(u)
    BY <1>1 DEF HasResult, Reported, OnlyPersist
  <2>3. Stored(u)' <=> Stored(u)
    BY <1>1 DEF Stored
  <2> QED
    BY <1>1, <2>1, <2>2, <2>3 DEF Fresh, Settled
<1>3. WorkerInv(v) /\ \A i \in 1 .. Len(queue[v]) : queue[v][i] \in Tests
  BY QueueFacts DEF Inv
<1>4. LaneInv(v)'
  <2> SUFFICES ASSUME NEW i \in 1 .. Len(queue[v]), NEW u \in Tests, u = queue[v][i]
               PROVE  /\ i < next[v] => Settled(u)'
                      /\ i > next[v] => Fresh(u)'
                      /\ i = next[v] /\ pc[v] \in {"loop", "planned", "start"} => Fresh(u)'
                      /\ i = next[v] /\ pc[v] = "finished" => ctx = "cancelled" /\ (Fresh(u)' \/ Settled(u)')
    BY <1>1, <1>3 DEF LaneInv
  <2> QED
    BY <1>2, <1>3 DEF WorkerInv, LaneInv
<1>5. CASE pc[v] \in {"loop", "finished"}
  BY <1>1, <1>3, <1>4, <1>5 DEF WorkerInv, ProcessInv, ErrorInv, OutputInv
<1>6. CASE pc[v] \notin {"loop", "finished"}
  <2>1. PICK u \in Tests : u = Current(v) /\ u = Current(v)'
    BY <1>1, <1>6, InHand DEF Inv, Current
  <2>2. ProcessInv(v)'
    BY <1>1, <1>3, <2>1 DEF WorkerInv, ProcessInv
  <2>3. ErrorInv(v)'
    BY <1>1, <1>2, <1>3, <2>1 DEF WorkerInv, ErrorInv
  <2>4. OutputInv(v)'
    BY <1>1, <1>2, <1>3, <2>1 DEF WorkerInv, OutputInv
  <2> QED
    BY <1>4, <2>2, <2>3, <2>4 DEF WorkerInv
<1> QED
  BY <1>5, <1>6

\* The steps of the environment keep the invariant.
LEMMA EnvironmentKeeps ==
    ASSUME Inv, Environment
    PROVE  Inv'
<1>1. TypeOK'
  BY TypeEnvironment DEF Inv
<1>2. (\A v \in Lanes : WorkerInv(v)') /\ \A u \in Tests \ Queued : Fresh(u)'
  <2>1. ASSUME NEW t \in Queued, \A u \in Tests : u # t => Same(u)
        PROVE  \A u \in Tests \ Queued : Fresh(u)'
    BY <2>1, SameKeeps DEF Inv
  <2>2. CASE Interrupt \/ \E w \in Lanes : Timeout(w)
    <3>1. \A u \in Tests : Same(u)
      BY <2>2 DEF Interrupt, Timeout, Same, processes, tracer, channels
    <3> QED
      BY <3>1, AllSame, SameKeeps DEF Inv
  <2>3. ASSUME NEW w \in Lanes, WatchKills(w)
        PROVE  (\A v \in Lanes : WorkerInv(v)') /\ \A u \in Tests \ Queued : Fresh(u)'
    <3>1. PICK t \in Tests : t = Current(w) /\ t \in Queued
      BY <2>3, InHand DEF WatchKills, Watching, Inv
    <3>2. /\ \A u \in Tests : u # t => Same(u)
          /\ child[w] # "live" /\ child' = child /\ pc[w] \in {"register", "wait", "abort"}
          /\ leader'[t] = IF leader[t] = "running" THEN "killed" ELSE leader[t]
      BY <2>3, <3>1 DEF WatchKills, Watching, KillGroupOf, KillLeader, KillFamily, Same, Inv, TypeOK, tracer, channels
    <3>3. CASE pc[w] \in {"register", "wait"}
      <4>1. leader[t] # "none"
        BY <3>1, <3>3 DEF Inv, WorkerInv, ProcessInv
      <4> QED
        BY <2>1, <3>1, <3>2, <3>3, <4>1, WaitedFor
    <3>4. CASE pc[w] = "abort"
      <4>1. UNCHANGED <<queue, pc, next, local, results, errors, saved>> /\ ctx' = ctx
        BY <2>3 DEF WatchKills, KillGroupOf, arguments, channels
      <4>2. t = Current(w)' /\ WorkerInv(w)
        BY <3>1, <4>1 DEF Current, Inv
      <4>3. ASSUME NEW v \in Lanes, NEW i \in 1 .. Len(queue[v]), v # w \/ i # next[w] PROVE Same(queue[v][i])
        <5>1. queue[v][i] \in Tests
          BY QueueFacts DEF Inv
        <5>2. queue[v][i] # t
          BY <3>1, <3>4, <4>3, InHand DEF Inv
        <5> QED
          BY <3>2, <5>1, <5>2
      <4>4. LaneInv(w)'
        BY <3>1, <3>4, <4>1, <4>3, LaneStep DEF Inv, WorkerInv, Current
      <4>5. ~HasResult(t)' /\ ~Reported(t)' /\ local'[w].status = "none"
        BY <3>1, <3>4, <4>1, <4>2 DEF WorkerInv, OutputInv, HasResult, Reported
      <4>6. ProcessInv(w)'
        BY <3>1, <3>2, <3>4, <4>1, <4>2 DEF WorkerInv, ProcessInv
      <4>7. ErrorInv(w)'
        BY <3>1, <3>4, <4>1, <4>2 DEF WorkerInv, ErrorInv
      <4>8. OutputInv(w)'
        BY <3>4, <4>1, <4>2, <4>5 DEF OutputInv
      <4>9. ASSUME NEW v \in Lanes, v # w PROVE WorkerInv(v)'
        BY <3>2, <4>1, <4>3, <4>9, OtherWorker DEF Inv
      <4> QED
        BY <2>1, <3>1, <3>2, <4>4, <4>6, <4>7, <4>8, <4>9 DEF WorkerInv
    <3> QED
      BY <3>2, <3>3, <3>4
  <2>4. ASSUME NEW t \in Tests, Spawn(t) \/ LeaderExits(t)
        PROVE  (\A v \in Lanes : WorkerInv(v)') /\ \A u \in Tests \ Queued : Fresh(u)'
    <3>1. /\ leader[t] = "running" /\ child' = child
          /\ leader'[t] \in {"running", "pass", "fail", "lost"}
          /\ \A u \in Tests : u # t => Same(u)
      BY <2>4 DEF Spawn, LeaderExits, Same, Inv, TypeOK, tracer, channels
    <3>2. t \in Queued /\ \E w \in Lanes : t = Current(w) /\ pc[w] \in {"register", "wait"}
      BY <3>1, RunningInHand
    <3> QED
      BY <2>1, <3>1, <3>2, WaitedFor
  <2>5. ASSUME NEW t \in Tests, FamilyEnds(t)
        PROVE  (\A v \in Lanes : WorkerInv(v)') /\ \A u \in Tests \ Queued : Fresh(u)'
    <3>1. t \in Queued
      BY <2>5 DEF FamilyEnds, Inv, Fresh, Leftover
    <3>2. \A u \in Tests : u # t => Same(u)
      BY <2>5 DEF FamilyEnds, Same, Inv, TypeOK, tracer, channels
    <3> QED
      BY <2>1, <2>5, <3>1, <3>2, DescendantEnds
  <2> QED
    BY <2>2, <2>3, <2>4, <2>5 DEF Environment
<1>3. Queued' = Queued /\ ChannelInv' /\ Untraced'
  BY EnvironmentFrame DEF Inv, Queued, ChannelInv, Untraced
<1>4. VerdictIsEarned'
  <2>1. \A r \in results : r.test \in Tests /\ HasResult(r.test)
    BY DEF Inv, TypeOK, HasResult
  <2>2. \A r \in results : leader'[r.test] = leader[r.test]
    BY <2>1, RunningInHand, EnvironmentFrame
  <2> QED
    BY <2>2, EnvironmentFrame DEF Inv, VerdictIsEarned
<1>5. returned' => \A w \in Lanes : pc'[w] = "finished"
  BY EnvironmentFrame DEF Inv
<1> QED
  BY <1>1, <1>2, <1>3, <1>4, <1>5 DEF Inv
-----------------------------------------------------------------------------
(***************************************************************************)
(* The invariant and what follows from it.                                 *)
(***************************************************************************)

\* At the start every test is fresh.
LEMMA InitInv == Init => Inv
<1> SUFFICES ASSUME Init PROVE Inv
  OBVIOUS
<1>1. TypeOK
  BY TypeInit
<1>2. \A t \in Tests : Fresh(t)
  BY DEF Init, Fresh, Leftover, Alive, HasResult, Reported
<1>3. ASSUME NEW w \in Lanes PROVE WorkerInv(w)
  <2>1. pc[w] = "loop" /\ next[w] = 1 /\ local[w].status = "none" /\ local[w].errs = {}
    BY DEF Init
  <2>2. LaneInv(w)
    BY <1>1, <1>2, <2>1, QueueFacts DEF LaneInv
  <2> QED
    BY <2>1, <2>2 DEF WorkerInv, ProcessInv, ErrorInv, OutputInv
<1> QED
  BY <1>1, <1>2, <1>3 DEF Init, Inv, ChannelInv, Untraced, VerdictIsEarned

\* Every step keeps the invariant.
LEMMA StepInv == Inv /\ [Next]_vars => Inv'
<1> SUFFICES ASSUME Inv, [Next]_vars PROVE Inv'
  OBVIOUS
<1>1. CASE \E w \in Lanes : Work(w)
  BY <1>1, WorkKeeps
<1>2. CASE Environment
  BY <1>2, EnvironmentKeeps
<1>3. CASE Return \/ UNCHANGED vars
  <2>1. /\ UNCHANGED <<queue, failFast, traced, ctx, pc, next, child, local, leader, family, registered, cgroups,
                        results, errors, saved>>
        /\ returned' \in {returned, TRUE} /\ (returned' = returned \/ \A w \in Lanes : pc[w] = "finished")
    BY <1>3 DEF Return, vars, arguments, processes, tracer, channels
  <2>2. TypeOK'
    BY <2>1 DEF Inv, TypeOK
  <2>3. \A u \in Tests : Same(u)
    BY <2>1 DEF Same
  <2>4. ASSUME NEW v \in Lanes PROVE WorkerInv(v)'
    <3>1. \A i \in 1 .. Len(queue[v]) : Same(queue[v][i])
      BY <2>3, QueueFacts DEF Inv
    <3> QED
      BY <2>1, <3>1, OtherWorker DEF Inv
  <2>5. \A u \in Tests \ Queued' : Fresh(u)'
    BY <2>1, <2>3, SameKeeps DEF Inv, Queued
  <2>6. ChannelInv' /\ Untraced' /\ VerdictIsEarned'
    BY <2>1 DEF Inv, Queued, ChannelInv, Untraced, VerdictIsEarned
  <2> QED
    BY <2>1, <2>2, <2>4, <2>5, <2>6 DEF Inv
<1> QED
  BY <1>1, <1>2, <1>3 DEF Next, ExecuteStep, Done

\* The invariant of Execute: what has been done, sent and left behind for
\* each test of each lane, at every control point of its worker.
THEOREM ExecutorInvariant == Spec => []Inv
<1>1. Inv /\ [Next]_vars => Inv'
  BY StepInv
<1> QED
  BY <1>1, InitInv, PTL DEF Spec

\* When every worker is finished, a queued test is settled or, in a cancelled
\* run only, was never started.
LEMMA FinishedTests ==
    ASSUME Inv, \A w \in Lanes : pc[w] = "finished"
    PROVE  \A t \in Tests : Settled(t) \/ (Fresh(t) /\ (t \in Queued => ctx = "cancelled"))
<1> SUFFICES ASSUME NEW t \in Tests
             PROVE  Settled(t) \/ (Fresh(t) /\ (t \in Queued => ctx = "cancelled"))
  OBVIOUS
<1>1. CASE t \notin Queued
  BY <1>1 DEF Inv
<1>2. CASE t \in Queued
  <2>1. PICK w \in Lanes : \E i \in 1 .. Len(queue[w]) : queue[w][i] = t
    BY <1>2, QueueFacts DEF Inv
  <2>2. PICK i \in 1 .. Len(queue[w]) : queue[w][i] = t
    BY <2>1
  <2>3. next[w] \in Nat /\ i \in Nat /\ LaneInv(w)
    BY QueueFacts DEF Inv, TypeOK, WorkerInv
  <2>4. i < next[w] => Settled(t)
    BY <2>2, <2>3 DEF LaneInv
  <2>5. i = next[w] => ctx = "cancelled" /\ (Fresh(t) \/ Settled(t))
    BY <2>2, <2>3 DEF LaneInv
  <2>6. i > next[w] => Fresh(t) /\ ctx = "cancelled"
    <3> SUFFICES ASSUME i > next[w] PROVE Fresh(t) /\ ctx = "cancelled"
      OBVIOUS
    <3>1. next[w] \in 1 .. Len(queue[w])
      BY <2>3, QueueFacts DEF Inv, TypeOK
    <3> QED
      BY <2>2, <2>3, <3>1 DEF LaneInv
  <2> QED
    BY <2>3, <2>4, <2>5, <2>6
<1> QED
  BY <1>1, <1>2

\* Execute leaves the state of its call well typed.
THEOREM ExecutorTypeCorrect == Spec => []TypeOK
<1>1. Inv => TypeOK
  BY DEF Inv
<1> QED
  BY <1>1, ExecutorInvariant, PTL

\* PASSED and FAILED are given to a subprocess that ended by itself that way.
THEOREM VerdictsEarned == Spec => []VerdictIsEarned
<1>1. Inv => VerdictIsEarned
  BY DEF Inv
<1> QED
  BY <1>1, ExecutorInvariant, PTL

\* An Execute that was not cancelled accounts for every scheduled test.
THEOREM NothingSkipped == Spec => []NoSilentSkip
<1>1. Inv => NoSilentSkip
  <2> SUFFICES ASSUME Inv, returned, ctx = "live", NEW t \in Queued PROVE HasResult(t) \/ Reported(t)
    BY DEF NoSilentSkip
  <2>1. t \in Tests
    BY QueueFacts DEF Inv
  <2>2. Settled(t)
    BY <2>1, FinishedTests DEF Inv
  <2> QED
    BY <2>2 DEF Settled
<1> QED
  BY <1>1, ExecutorInvariant, PTL

\* Whatever SaveExecution did not store is among the returned errors.
THEOREM UnsavedReported == Spec => []UnsavedIsReported
<1>1. Inv => UnsavedIsReported
  <2> SUFFICES ASSUME Inv, returned, NEW r \in results
               PROVE  r.test \in saved \/ [test |-> r.test, errs |-> {"persist"}] \in errors
    BY DEF UnsavedIsReported
  <2>1. r.test \in Tests /\ HasResult(r.test)
    BY DEF Inv, TypeOK, HasResult
  <2>2. Settled(r.test)
    BY <2>1, FinishedTests DEF Inv, Fresh
  <2> QED
    BY <2>2 DEF Settled, Stored
<1> QED
  BY <1>1, ExecutorInvariant, PTL

\* A registration, cgroup or descendant left when Execute returns comes with
\* an error of its execution.
THEOREM LeftoversReported == Spec => []LeftoverIsReported
<1>1. Inv => LeftoverIsReported
  BY FinishedTests DEF Inv, LeftoverIsReported, Leftover, Fresh, Settled
<1> QED
  BY <1>1, ExecutorInvariant, PTL

\* The results so far are of other tests than the one that is to get its
\* result, and each test has one.
LEMMA RoomForResult ==
    ASSUME Inv, NEW t \in Queued, ~HasResult(t)
    PROVE  Cardinality(results) < ResultCapacity
<1>1. IsFiniteSet(Queued) /\ Cardinality(Queued) \in Nat
  <2>1. Queued \subseteq Tests
    BY QueueFacts DEF Inv
  <2> QED
    BY <2>1, ExecutorAssumption, FS_Subset, FS_CardinalityType
<1>2. IsFiniteSet(Queued \ {t}) /\ Cardinality(Queued \ {t}) = Cardinality(Queued) - 1
  BY <1>1, FS_RemoveElement
<1> DEFINE f == [r \in results |-> r.test]
<1>3. f \in Injection(results, Queued \ {t})
  <2>1. \A r \in results : r.test \in Queued \ {t}
    BY DEF Inv, ChannelInv, HasResult
  <2>2. f \in [results -> Queued \ {t}]
    BY <2>1
  <2>3. IsInjective(f)
    BY DEF IsInjective, Inv, ChannelInv
  <2> QED
    BY <2>2, <2>3 DEF Injection
<1>4. IsFiniteSet(results) /\ Cardinality(results) <= Cardinality(Queued \ {t})
  BY <1>2, <1>3, FS_Injection
<1>5. Cardinality(results) \in Nat
  BY <1>4, FS_CardinalityType
<1> QED
  BY <1>1, <1>2, <1>4, <1>5 DEF ResultCapacity

\* An execution has at most one error of each sort.
Sort(e) == IF e.errs = {"persist"} THEN "persist" ELSE "own"

\* There are two sorts of errors per test, and one that is missing.
LEMMA RoomForError ==
    ASSUME Inv, NEW t \in Queued, NEW sort \in {"persist", "own"},
           \A e \in errors : e.test = t => Sort(e) # sort
    PROVE  Cardinality(errors) < ErrorCapacity
<1>1. IsFiniteSet(Queued) /\ Cardinality(Queued) \in Nat
  <2>1. Queued \subseteq Tests
    BY QueueFacts DEF Inv
  <2> QED
    BY <2>1, ExecutorAssumption, FS_Subset, FS_CardinalityType
<1>2. IsFiniteSet({"persist", "own"}) /\ Cardinality({"persist", "own"}) = 2
  <2>1. IsFiniteSet({"persist"}) /\ Cardinality({"persist"}) = 1
    BY FS_Singleton
  <2>2. {"persist", "own"} = {"persist"} \cup {"own"} /\ "own" \notin {"persist"}
    OBVIOUS
  <2> QED
    BY <2>1, <2>2, FS_AddElement
<1> DEFINE Sorts == Queued \X {"persist", "own"}
<1>3. IsFiniteSet(Sorts) /\ Cardinality(Sorts) = Cardinality(Queued) * 2
  BY <1>1, <1>2, FS_Product
<1> DEFINE Others == Sorts \ {<<t, sort>>}
<1>4. IsFiniteSet(Others) /\ Cardinality(Others) = Cardinality(Sorts) - 1
  <2>1. <<t, sort>> \in Sorts
    OBVIOUS
  <2> HIDE DEF Sorts
  <2> QED
    BY <1>3, <2>1, FS_RemoveElement
<1> DEFINE f == [e \in errors |-> <<e.test, Sort(e)>>]
<1>5. f \in Injection(errors, Others)
  <2>1. \A e \in errors : e.test \in Queued
    BY DEF Inv, ChannelInv
  <2>2. \A e \in errors : <<e.test, Sort(e)>> \in Sorts
    BY <2>1 DEF Sort
  <2>3. \A e \in errors : <<e.test, Sort(e)>> # <<t, sort>>
    OBVIOUS
  <2>4. f \in [errors -> Others]
    BY <2>2, <2>3
  <2>5. IsInjective(f)
    BY DEF IsInjective, Inv, ChannelInv, Sort
  <2> QED
    BY <2>4, <2>5 DEF Injection
<1> HIDE DEF Sorts, Others, f
<1>6. IsFiniteSet(errors) /\ Cardinality(errors) <= Cardinality(Others)
  BY <1>4, <1>5, FS_Injection
<1>7. Cardinality(errors) \in Nat
  BY <1>6, FS_CardinalityType
<1> QED
  BY <1>1, <1>3, <1>4, <1>6, <1>7 DEF ErrorCapacity

\* No worker blocks on a channel.
THEOREM SendsNeverBlock == Spec => []SendNeverBlocks
<1>1. Inv => SendNeverBlocks
  <2> SUFFICES ASSUME Inv, NEW w \in Lanes
               PROVE  /\ pc[w] = "deliver" /\ local[w].status # "none" => Cardinality(results) < ResultCapacity
                      /\ pc[w] = "persist" => Cardinality(errors) < ErrorCapacity
                      /\ pc[w] = "report" /\ local[w].errs # {} => Cardinality(errors) < ErrorCapacity
    BY DEF SendNeverBlocks
  <2>1. pc[w] \notin {"loop", "finished"} => Current(w) \in Queued
    BY InHand DEF Inv
  <2>2. CASE pc[w] = "deliver"
    <3>1. ~HasResult(Current(w))
      BY <2>2 DEF Inv, WorkerInv, OutputInv
    <3> QED
      BY <2>1, <2>2, <3>1, RoomForResult
  <2>3. CASE pc[w] = "persist"
    <3>1. \A e \in errors : e.test = Current(w) => Sort(e) # "persist"
      BY <2>3 DEF Inv, WorkerInv, OutputInv, Reported, Sort
    <3> QED
      BY <2>1, <2>3, <3>1, RoomForError
  <2>4. CASE pc[w] = "report"
    <3>1. \A e \in errors : e.test = Current(w) => Sort(e) # "own"
      BY <2>4 DEF Inv, WorkerInv, OutputInv, OnlyPersist, Sort
    <3> QED
      BY <2>1, <2>4, <3>1, RoomForError
  <2> QED
    BY <2>2, <2>3, <2>4
<1> QED
  BY <1>1, ExecutorInvariant, PTL
=============================================================================
