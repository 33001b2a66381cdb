----------------------------- MODULE PyScheduler -----------------------------
(***************************************************************************)
(* The schedulers of the Python package (python/conflictgraph/scheduler.py *)
(* ) and the benchmark's simulation of their plans                         *)
(* (benchmark.py, simulate_schedule).                                      *)
(*                                                                         *)
(* ConflictScheduler.static_schedule has the loops of the Go scheduler,    *)
(* so this module extends Scheduler and keeps its state; what differs is   *)
(* defined here: nothing is validated, repeated IDs collapse, the last     *)
(* prediction of a pair counts, completed work is skipped by a binary      *)
(* search, and a hard conflict is answered by a safe candidate or by a     *)
(* wait for any running test.  Time is in milliseconds (0.001 is one unit).*)
(***************************************************************************)
EXTENDS Scheduler

CONSTANTS
    PredictionLists,  \* the prediction lists static_schedule may be given
    TruthSets         \* the conflicting pairs the synthetic world may have

Kinds == {"conflict", "random", "serial"}

VARIABLES
    kind,         \* the scheduler class in use
    listed,       \* the prediction list of the call
    truth,        \* pairs with a failure probability in the world
    pending,      \* conflicting overlaps simulate_schedule has still to draw
    overlaps,     \* conflicting_overlaps
    failures,     \* tests that failed in the trial
    conflicts     \* conflict_failures

call == <<kind, listed, truth>>
trial == <<pending, overlaps, failures, conflicts>>
pyVars == <<vars, call, trial>>

(***************************************************************************)
(* RiskIndex.                                                              *)
(***************************************************************************)

Clamped(p) == Max({0, Min({Unit, p})})

\* The dictionary is filled in list order: the last prediction of a pair
\* stays.  PairPrediction orders the pair and clamps the probability.
RiskIndex(list) ==
    {[pair |-> list[i].pair, probability |-> Clamped(list[i].probability)] :
        i \in {j \in DOMAIN list : \A k \in DOMAIN list : list[k].pair = list[j].pair => k <= j}}

(***************************************************************************)
(* Placement.                                                              *)
(***************************************************************************)

\* Faulty search: by start times, which skips a test that is still running.
FirstStarting(lane, s) ==
    LET n == Len(lane)
        search[r \in (1 .. n + 1) \X (1 .. n + 1)] ==
            LET middle == (r[1] + r[2]) \div 2
            IN  IF r[1] >= r[2] THEN r[1]
                ELSE IF start[lane[middle]] <= s THEN search[<<middle + 1, r[2]>>]
                ELSE search[<<r[1], middle>>]
    IN  search[<<1, n + 1>>]

\* Index of the first test of the lane that ends after s, by bisection over
\* the lane's end times; r is the range <<low, high>> still searched.
FirstLive(lane, s) ==
    LET n == Len(lane)
        search[r \in (1 .. n + 1) \X (1 .. n + 1)] ==
            LET middle == (r[1] + r[2]) \div 2
            IN  IF r[1] >= r[2] THEN r[1]
                ELSE IF End(lane[middle]) <= s THEN search[<<middle + 1, r[2]>>]
                ELSE search[<<r[1], middle>>]
    IN  search[<<1, n + 1>>]

\* Tests of the lane that a placement from s to e is found to overlap: from
\* the first live one up to the first that starts at e or later.
ScannedOverlaps(lane, s, e) ==
    {lane[i] : i \in {j \in FirstLive(lane, s) .. Len(lane) :
        /\ \A k \in FirstLive(lane, s) .. j : start[lane[k]] < e
        /\ Overlap(s, e, lane[j]) > 0}}

\* _placement_risk: one minus the product of 1 - probability * exposure.
PyPlacementRisk(t, s, w) ==
    LET others == UNION {ScannedOverlaps(lanes[v], s, s + Dur(t)) : v \in Lanes \ {w}}
        shorter(o) == Min({Dur(t), Dur(o)})
        whole(o) == Unit * shorter(o)
        clear(o) == whole(o) - Probability(t, o) * Min({shorter(o), Overlap(s, s + Dur(t), o)})
    IN  <<Product(whole, others) - Product(clear, others), Product(whole, others)>>

\* _placement_cost: as in Go, but without a penalty for a hard conflict.
PyPlacementCost(t, s, w) ==
    LET risk == PyPlacementRisk(t, s, w)
        scale == RiskWeight[2] * UtilizationBias[2]
        fixed == scale * s - UtilizationBias[1] * RiskWeight[2] * Dur(t)
    IN  <<fixed * risk[2] + RiskWeight[1] * UtilizationBias[2] * Dur(t) * risk[1], risk[2]>>

\* min over a list keeps the first element of smallest cost: exactly one.
Cheapest(S, w) ==
    LET cost == [c \in S |-> PyPlacementCost(c, laneEnd[w], w)]
    IN  {t \in S : \A u \in S \ {t} :
            Less(cost[t], cost[u]) \/ (~Less(cost[u], cost[t]) /\ Before(t, u))}

OverlappingAt(now, w) == {o \in OtherLaneTests(w) : start[o] <= now /\ now < End(o)}

IsHard(t, w) == Hard(PyPlacementRisk(t, laneEnd[w], w))

SafeCandidates(w) == {t \in Candidates : ~IsHard(t, w)}

\* Where a placement waits: the earliest end of any running test.
NextEnd(w) == Max({laneEnd[w], Min({End(o) : o \in OverlappingAt(laneEnd[w], w)})})

Blocked(t, w) == IsHard(t, w) /\ OverlappingAt(laneEnd[w], w) # {}

\* Faulty wait: as long as the running test lasts, counted from its end.
WaitTooLong(w) ==
    {[test |-> t, start |-> IF Blocked(t, w) THEN laneEnd[w] + NextEnd(w) ELSE laneEnd[w]] :
        t \in Cheapest(Candidates, w)}

\* What one iteration decides: the cheapest candidate; when it is a hard
\* conflict and something runs, the cheapest safe one instead; when none is
\* safe, the cheapest one at the earliest end of any running test.
Decision(w) ==
    UNION {IF ~Blocked(t, w) THEN {[test |-> t, start |-> laneEnd[w]]}
           ELSE IF SafeCandidates(w) # {}
           THEN {[test |-> u, start |-> laneEnd[w]] : u \in Cheapest(SafeCandidates(w), w)}
           ELSE {[test |-> t, start |-> NextEnd(w)]} : t \in Cheapest(Candidates, w)}
-----------------------------------------------------------------------------
\* Only the benchmark uses RandomScheduler and SerialScheduler, with the tests
\* of a synthetic world (benchmark.py:397), which are distinct: a repeated ID,
\* which both would plan twice, is a case of ConflictScheduler alone.
PyInit ==
    /\ Init
    /\ kind \in Kinds
    /\ listed \in PredictionLists
    /\ truth \in TruthSets
    /\ kind # "conflict" => listed = <<>> /\ IsInjective(input)
    /\ pending = {}
    /\ overlaps = 0
    /\ failures = {}
    /\ conflicts = 0

\* The arguments are read: predictions indexed, tests made a dictionary.
PyBegin ==
    /\ phase = "index"
    /\ predictions' = RiskIndex(listed)
    /\ remaining' = ToSet(input)
    /\ phase' = "place"
    /\ UNCHANGED <<input, estimate, tie, lanes, laneEnd, start, refinement, schedule, call, trial>>

Put(t, w, s) ==
    /\ start' = [start EXCEPT ![t] = s]
    /\ laneEnd' = [laneEnd EXCEPT ![w] = s + Dur(t)]
    /\ lanes' = [lanes EXCEPT ![w] = Append(@, t)]
    /\ remaining' = remaining \ {t}
    /\ UNCHANGED <<arguments, phase, refinement, schedule, call, trial>>

\* Faulty loop: a test chosen after a wait is left in the list.
PlaceWithoutRemoval(w) ==
    /\ kind = "conflict" /\ phase = "place"
    /\ remaining # {}
    /\ EarliestLane(w)
    /\ \E d \in Decision(w) :
          /\ start' = [start EXCEPT ![d.test] = d.start]
          /\ laneEnd' = [laneEnd EXCEPT ![w] = d.start + Dur(d.test)]
          /\ lanes' = [lanes EXCEPT ![w] = Append(@, d.test)]
          /\ remaining' = IF d.start > laneEnd[w] /\ Len(lanes[w]) < 2
                          THEN remaining ELSE remaining \ {d.test}
    /\ UNCHANGED <<arguments, phase, refinement, schedule, call, trial>>

\* One iteration of static_schedule's placement loop.
PyPlace(w) ==
    /\ kind = "conflict" /\ phase = "place"
    /\ remaining # {}
    /\ EarliestLane(w)
    /\ \E d \in Decision(w) : Put(d.test, w, d.start)

\* RandomScheduler: the shuffled tests are dealt to the worker on top of the
\* heap, the one that is free first (the smaller number when two are).
RandomPlace(w, t) ==
    /\ kind = "random" /\ phase = "place"
    /\ EarliestLane(w)
    /\ Put(t, w, laneEnd[w])

\* SerialScheduler: the tests in the order given, one after the other.
SerialPlace(t) ==
    /\ kind = "serial" /\ phase = "place"
    /\ t = input[1 + Len(lanes[0])]
    /\ Put(t, 0, laneEnd[0])

\* Suites of at most RefineLimit tests are refined, by ConflictScheduler only;
\* refinement_rounds <= 0 returns at once.
PyPlaced ==
    /\ phase = "place"
    /\ remaining = {}
    /\ phase' = IF kind = "conflict" /\ Len(input) <= RefineLimit THEN "round" ELSE "flatten"
    /\ UNCHANGED <<arguments, placement, refinement, schedule, call, trial>>

\* _refine, with _reflow_lane, _objective and _schedule_risk: the loop is the
\* one of the Go scheduler.
Refine ==
    /\ StartRound \/ RoundsExhausted \/ TrySwap \/ NextLane \/ EndRound
    /\ UNCHANGED <<call, trial>>

\* SerialScheduler returns a schedule of one worker.
PlannedWorkers == IF kind = "serial" THEN 1 ELSE Workers

ConflictingOverlaps(s) ==
    {p \in (DOMAIN s) \X (DOMAIN s) :
        /\ p[1] < p[2]
        /\ LaneOf(s[p[1]]) # LaneOf(s[p[2]])
        /\ Overlap(start[s[p[1]]], End(s[p[1]]), s[p[2]]) > 0
        /\ {s[p[1]], s[p[2]]} \in truth}

\* The plan is flattened and handed to simulate_schedule, which scans it for
\* overlapping pairs with a failure probability.
PyFlatten ==
    /\ phase = "flatten"
    /\ \E s \in Flattened :
          /\ schedule' = s
          /\ pending' = ConflictingOverlaps(s)
    /\ phase' = "simulate"
    /\ UNCHANGED <<arguments, placement, refinement, call, overlaps, failures, conflicts>>

Earlier(p, q) == p[1] < q[1] \/ (p[1] = q[1] /\ p[2] <= q[2])

\* Faulty count: every draw counts, also one whose victim has failed before.
RecountedDraw ==
    /\ phase = "simulate"
    /\ \E p \in pending :
          /\ \A q \in pending : Earlier(p, q)
          /\ pending' = pending \ {p}
          /\ \/ UNCHANGED <<failures, conflicts>>
             \/ \E i \in {p[1], p[2]} :
                   failures' = failures \cup {schedule[i]} /\ conflicts' = conflicts + 1
    /\ overlaps' = overlaps + 1
    /\ UNCHANGED <<vars, call>>

\* The next pair is drawn: nothing happens, or one of the two tests fails.
DrawOverlap ==
    /\ phase = "simulate"
    /\ \E p \in pending :
          /\ \A q \in pending : Earlier(p, q)
          /\ pending' = pending \ {p}
          /\ \/ UNCHANGED <<failures, conflicts>>
             \/ \E i \in {p[1], p[2]} :
                   /\ failures' = failures \cup {schedule[i]}
                   /\ conflicts' = IF schedule[i] \in failures THEN conflicts ELSE conflicts + 1
    /\ overlaps' = overlaps + 1
    /\ UNCHANGED <<vars, call>>

\* The trial result is returned.
TrialDone ==
    /\ phase = "simulate"
    /\ pending = {}
    /\ phase' = "done"
    /\ UNCHANGED <<arguments, placement, refinement, schedule, call, trial>>

PyReturned == phase = "done" /\ UNCHANGED pyVars

PyNext ==
    \/ PyBegin
    \/ \E w \in Lanes : PyPlace(w)
    \/ \E w \in Lanes, t \in remaining : RandomPlace(w, t)
    \/ \E t \in remaining : SerialPlace(t)
    \/ PyPlaced
    \/ Refine
    \/ PyFlatten
    \/ DrawOverlap
    \/ TrialDone
    \/ PyReturned

PySpec == PyInit /\ [][PyNext]_pyVars
-----------------------------------------------------------------------------
(***************************************************************************)
(* Properties.                                                             *)
(***************************************************************************)

\* static_schedule loses no test and plans none twice (EveryTestOnce of the
\* Go scheduler), whatever the list of tests repeats; RandomScheduler and
\* SerialScheduler neither, of the distinct tests they are given.
PyEveryTestOnce ==
    phase # "index" =>
        /\ remaining \cap Placed = {}
        /\ remaining \cup Placed = ToSet(input)
        /\ \A v, w \in Lanes : \A i \in DOMAIN lanes[v], j \in DOMAIN lanes[w] :
              lanes[v][i] = lanes[w][j] => v = w /\ i = j

\* The binary search relies on end times that increase along a lane; it finds
\* exactly the tests that a scan of the whole lane would find, at the start
\* where a test is tried and at the one it is delayed to.
BisectionSeesEveryOverlap ==
    kind = "conflict" /\ phase = "place" =>
        \A w \in Lanes, t \in remaining :
            \A s \in {laneEnd[w]} \cup {End(o) : o \in OverlappingAt(laneEnd[w], w)} :
                \A v \in Lanes : ScannedOverlaps(lanes[v], s, s + Dur(t))
                                   = {o \in ToSet(lanes[v]) : Overlap(s, s + Dur(t), o) > 0}

\* Placement leaves a worker idle only until the end of a test that was
\* running on another worker when this one became free, and all the waiting
\* together never makes the plan longer than running its tests serially.
IdleEndsWithATest ==
    phase = "place" =>
        /\ Makespan(laneEnd) <= MapThenSumSet(Dur, Placed)
        /\ \A w \in Lanes : \A i \in DOMAIN lanes[w] :
              LET free == PreviousEnd(w, i)
                  t == lanes[w][i]
              IN  start[t] # free =>
                      \E o \in OtherLaneTests(w) : start[o] <= free /\ free < End(o) /\ End(o) = start[t]

\* What the benchmark reports of a trial: a test that fails is counted once,
\* however many of its overlaps are drawn; a serial plan has no conflict; no
\* worker is busy for longer than the makespan (utilization at most one).
TrialIsConsistent ==
    /\ conflicts = Cardinality(failures)
    /\ conflicts <= overlaps
    /\ kind = "serial" => overlaps = 0 /\ pending = {}
    /\ phase = "done" => MapThenSumSet(Dur, Placed) <= Makespan(laneEnd) * PlannedWorkers

\* A delay ends with a conflict: a test that leaves its worker idle starts
\* when a test that is predicted to conflict with it ends (scheduler.py:116
\* "idle until the earliest conflicting test finishes").
DelayEndsWithAConflict ==
    phase = "place" =>
        \A w \in Lanes : \A i \in DOMAIN lanes[w] :
            LET t == lanes[w][i]
            IN  start[t] > PreviousEnd(w, i) =>
                    \E o \in OtherLaneTests(w) : End(o) = start[t] /\ Probability(t, o) > 0
=============================================================================
