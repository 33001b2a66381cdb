------------------------------ MODULE Scheduler ------------------------------
(***************************************************************************)
(* Scheduler.Build of the Go control plane                                 *)
(* (controlplane/internal/scheduler/scheduler.go): the predictions are     *)
(* indexed, the tests admitted, each test placed on the lane that is free  *)
(* first (longest first, priced by conflict risk, delayed behind a hard    *)
(* conflict), the lanes refined by adjacent swaps, and the schedule        *)
(* flattened and validated.                                                *)
(*                                                                         *)
(* Time is in whole units; probabilities and weights are exact fractions,  *)
(* so float64 rounding (and the 1e-9 slack) never decides a comparison.    *)
(* A lane is the sequence of its tests; start gives each placed test its   *)
(* EstimatedStart (EstimatedEnd is start + duration).  The arguments of    *)
(* the call (tests, durations, predictions and the random tie-breaks of    *)
(* the seed) are chosen by Init and never change.                          *)
(***************************************************************************)
EXTENDS Integers, Sequences, FiniteSets, SequencesExt

CONSTANTS
    Workers,          \* number of workers (lanes 0..Workers-1)
    Tests,            \* test IDs
    Inputs,           \* the lists of tests Build may be called with
    Estimates,        \* the DurationEMA of every test, as it may be recorded
    PredictionSets,   \* the prediction lists Build may be called with
    Unit,             \* a probability is given in whole parts of 1/Unit
    RiskWeight, HardThreshold, UtilizationBias,   \* fractions <<num, den>>
    HardPenalty,      \* cost added to a hard conflict (1000 in the code)
    Lookahead, RefinementRounds,
    RefineLimit       \* largest suite that is refined (64 in the code)

ASSUME SchedulerAssumption ==
    /\ Workers \in Nat \ {0}
    /\ IsFiniteSet(Tests)
    /\ Inputs \subseteq Seq(Tests)
    /\ Estimates \subseteq [Tests -> Int]
    /\ Unit \in Nat \ {0}
    /\ HardThreshold \in Nat \X (Nat \ {0})
    /\ Lookahead \in Nat \ {0}
    /\ RefinementRounds \in Nat
    /\ RefineLimit \in Nat

Lanes == 0 .. Workers - 1

VARIABLES
    input, estimate, predictions, tie,   \* the arguments of the call
    phase,        \* what Build is doing
    remaining,    \* tests not placed yet
    lanes,        \* lanes[w]: the tests of worker w in order
    laneEnd,      \* laneEnd[w]: the end field of lane w
    start,        \* EstimatedStart of every placed test
    round,        \* refinement rounds finished
    cursor,       \* <<worker, index>> of the next trial swap
    baseline,     \* objective the next trial swap must beat
    changed,      \* a swap of this round was kept
    schedule      \* flattened result

arguments == <<input, estimate, predictions, tie>>
placement == <<remaining, lanes, laneEnd, start>>
refinement == <<round, cursor, baseline, changed>>
vars == <<arguments, phase, placement, refinement, schedule>>

(***************************************************************************)
(* Durations, probabilities, overlap.                                      *)
(***************************************************************************)

\* Faulty Dur: a zero estimate is kept.
ZeroDur(t) == estimate[t]

\* A test without history (DurationEMA <= 0) is given duration 1.
Dur(t) == IF estimate[t] <= 0 THEN 1 ELSE estimate[t]

End(t) == start[t] + Dur(t)

\* Prediction.Normalize refuses a self pair and a probability above 1.
ValidPrediction(p) == Cardinality(p.pair) = 2 /\ p.probability \in 0 .. Unit

\* The index keeps the largest probability predicted for a pair; a pair
\* without a prediction has probability 0, a test conflicts with itself.
Probability(a, b) ==
    LET found == {p.probability : p \in {q \in predictions : q.pair = {a, b}}}
    IN  IF a = b THEN Unit ELSE Max({0} \cup found)

Overlap(s, e, o) == Max({0, Min({e, End(o)}) - Max({s, start[o]})})

\* Every other lane's tests, as placementRisk and earliestConflictingEnd scan
\* them.
OtherLaneTests(w) == UNION {ToSet(lanes[v]) : v \in Lanes \ {w}}

Product(f(_), S) == MapThenFoldSet(LAMBDA x, y : x * y, 1, f, LAMBDA T : CHOOSE x \in T : TRUE, S)

\* Probability that test t, run from s on lane w, meets a conflict: one minus
\* the product of 1 - probability * exposure over the overlapping tests, where
\* the exposure is the share of the shorter test that lies in the overlap
\* (the code's floor of .001 on the divisor is below every duration).
PlacementRisk(t, s, w) ==
    LET shorter(o) == Min({Dur(t), Dur(o)})
        whole(o) == Unit * shorter(o)
        clear(o) == whole(o) - Probability(t, o) * Min({shorter(o), Overlap(s, s + Dur(t), o)})
        others == {o \in OtherLaneTests(w) : Overlap(s, s + Dur(t), o) > 0}
    IN  <<Product(whole, others) - Product(clear, others), Product(whole, others)>>

Less(x, y) == x[1] * y[2] < y[1] * x[2]
Hard(p) == ~Less(p, HardThreshold)

(***************************************************************************)
(* Choice of the lane, the test and the start.                             *)
(***************************************************************************)

EarliestLane(w) ==
    \A v \in Lanes : laneEnd[w] < laneEnd[v] \/ (laneEnd[w] = laneEnd[v] /\ w <= v)

\* Longest first, then by the random tie-break.
Before(a, b) == Dur(a) > Dur(b) \/ (Dur(a) = Dur(b) /\ tie[a] < tie[b])

Candidates ==
    {t \in remaining : Cardinality({u \in remaining : Before(u, t)}) < Lookahead}

\* Start, less the utilization bias, plus the weighed risk, plus the penalty,
\* times the common denominator of the weights.
Cost(t, s, w) ==
    LET risk == PlacementRisk(t, s, w)
        scale == RiskWeight[2] * UtilizationBias[2]
        penalty == IF Hard(risk) THEN HardPenalty ELSE 0
        fixed == scale * (s + penalty) - UtilizationBias[1] * RiskWeight[2] * Dur(t)
    IN  <<fixed * risk[2] + RiskWeight[1] * UtilizationBias[2] * Dur(t) * risk[1], risk[2]>>

\* The scan keeps the first candidate of strictly smallest cost.
BestCandidate(t, w) ==
    LET cost == [c \in Candidates |-> Cost(c, laneEnd[w], w)]
    IN  /\ t \in Candidates
        /\ \A u \in Candidates \ {t} :
              \/ Less(cost[t], cost[u])
              \/ ~Less(cost[u], cost[t]) /\ Before(t, u)

\* Ends of the tests that run on another lane at time now and are, each on
\* its own, a hard conflict of t.
ConflictingEnds(t, now, w) ==
    {End(o) : o \in {p \in OtherLaneTests(w) :
        start[p] <= now /\ now < End(p) /\ Hard(<<Probability(t, p), Unit>>)}}

\* Faulty start: a hard conflict does not delay the test.
NoDelay(t, w) == {laneEnd[w]}

\* Faulty start: the end of the conflict is added to the lane's own.
DelayAdded(t, w) ==
    LET now == laneEnd[w]
        ends == ConflictingEnds(t, now, w)
    IN  IF Hard(PlacementRisk(t, now, w)) /\ ends # {}
        THEN {now + e : e \in {f \in ends : \A g \in ends : f <= g}}
        ELSE {now}

\* A placement of hard risk is moved to the earliest such end, if any.
PlannedStart(t, w) ==
    LET now == laneEnd[w]
        ends == ConflictingEnds(t, now, w)
    IN  IF Hard(PlacementRisk(t, now, w)) /\ ends # {}
        THEN {e \in ends : \A f \in ends : e <= f}
        ELSE {now}

(***************************************************************************)
(* Refinement: objective, reflow and trial swaps.                          *)
(***************************************************************************)

\* Expected conflict time of the lanes ls under the starts st, in 1/Unit.
ScheduleRisk(ls, st) ==
    LET pairs == UNION {ToSet(ls[p[1]]) \X ToSet(ls[p[2]]) : p \in {q \in Lanes \X Lanes : q[1] < q[2]}}
        shared(a, b) == Max({0, Min({st[a] + Dur(a), st[b] + Dur(b)}) - Max({st[a], st[b]})})
    IN  MapThenSumSet(LAMBDA p : shared(p[1], p[2]) * Probability(p[1], p[2]), pairs)

Makespan(le) == Max({0} \cup {le[w] : w \in Lanes})

\* Makespan plus weighed risk, times the common denominator.
Objective(ls, le, st) ==
    Makespan(le) * Unit * RiskWeight[2] + RiskWeight[1] * ScheduleRisk(ls, st)

\* Faulty offsets: the lane starts one unit late.
LateOffsets(l) ==
    LET offset[i \in 0 .. Len(l)] == IF i = 0 THEN 1 ELSE offset[i - 1] + Dur(l[i])
    IN  offset

\* Offsets(l)[i]: the end of the i-th test when lane l runs without a gap.
Offsets(l) ==
    LET offset[i \in 0 .. Len(l)] == IF i = 0 THEN 0 ELSE offset[i - 1] + Dur(l[i])
    IN  offset

\* Faulty Reflow: the first test of the lane keeps its old start.
ReflowFromOldStart(l, st) ==
    [t \in Tests |-> IF \E i \in 2 .. Len(l) : l[i] = t
                     THEN Offsets(l)[(CHOOSE i \in DOMAIN l : l[i] = t) - 1]
                     ELSE st[t]]

\* Every test of lane l starts when the one before it ends, the first at 0.
Reflow(l, st) ==
    [t \in Tests |-> IF \E i \in DOMAIN l : l[i] = t
                     THEN Offsets(l)[(CHOOSE i \in DOMAIN l : l[i] = t) - 1]
                     ELSE st[t]]

\* Faulty Swap: the left test overwrites the right one.
SwapOverwrite(l, i) == [l EXCEPT ![i + 1] = l[i]]

Swap(l, i) == [l EXCEPT ![i] = l[i + 1], ![i + 1] = l[i]]

(***************************************************************************)
(* The result.                                                             *)
(***************************************************************************)

LaneOf(t) == CHOOSE w \in Lanes : t \in ToSet(lanes[w])

StartsBefore(a, b) ==
    start[a] < start[b] \/ (start[a] = start[b] /\ LaneOf(a) < LaneOf(b))

\* What sort.Slice may make of the elements of S: it is not stable, so those
\* of equal rank come in any order.
Sortings(S, less(_, _)) ==
    {s \in SetToSeqs(S) : \A i, j \in DOMAIN s : i < j => ~less(s[j], s[i])}

Flattened == Sortings(UNION {ToSet(lanes[w]) : w \in Lanes}, StartsBefore)

\* Schedule.Validate: workers in range, sane times, no test twice.
ValidSchedule(s) ==
    /\ \A i \in DOMAIN s : /\ \E w \in Lanes : s[i] \in ToSet(lanes[w])
                          /\ 0 <= start[s[i]] /\ start[s[i]] <= End(s[i])
    /\ IsInjective(s)

\* Schedule.ByWorker: the queues the executor may get for worker w.
ByWorker(s, w) ==
    Sortings({t \in ToSet(s) : LaneOf(t) = w}, LAMBDA a, b : start[a] < start[b])
-----------------------------------------------------------------------------
(***************************************************************************)
(* The steps of Build.                                                     *)
(***************************************************************************)

TieBreaks == {f \in [Tests -> 1 .. Cardinality(Tests)] : IsInjective(f)}

Init ==
    /\ input \in Inputs
    /\ estimate \in Estimates
    /\ predictions \in PredictionSets
    /\ tie \in TieBreaks
    /\ phase = "index"
    /\ remaining = {}
    /\ lanes = [w \in Lanes |-> <<>>]
    /\ laneEnd = [w \in Lanes |-> 0]
    /\ start = [t \in Tests |-> 0]
    /\ round = 0
    /\ cursor = <<0, 1>>
    /\ baseline = 0
    /\ changed = FALSE
    /\ schedule = <<>>

\* NewRiskIndex: one malformed prediction fails the call.
IndexPredictions ==
    /\ phase = "index"
    /\ phase' = IF \A p \in predictions : ValidPrediction(p) THEN "admit" ELSE "error"
    /\ UNCHANGED <<arguments, placement, refinement, schedule>>

\* Test.Validate refuses a negative duration, Build a repeated ID.
Admissible ==
    /\ \A i \in DOMAIN input : estimate[input[i]] >= 0
    /\ IsInjective(input)

AdmitTests ==
    /\ phase = "admit"
    /\ IF Admissible
       THEN phase' = "place" /\ remaining' = ToSet(input)
       ELSE phase' = "error" /\ UNCHANGED remaining
    /\ UNCHANGED <<arguments, lanes, laneEnd, start, refinement, schedule>>

\* One iteration of the placement loop.
Place(w, t) ==
    /\ phase = "place"
    /\ EarliestLane(w)
    /\ BestCandidate(t, w)
    /\ \E s \in PlannedStart(t, w) :
          /\ start' = [start EXCEPT ![t] = s]
          /\ laneEnd' = [laneEnd EXCEPT ![w] = s + Dur(t)]
    /\ lanes' = [lanes EXCEPT ![w] = Append(@, t)]
    /\ remaining' = remaining \ {t}
    /\ UNCHANGED <<arguments, phase, refinement, schedule>>

AllPlaced ==
    /\ phase = "place"
    /\ remaining = {}
    /\ phase' = IF Len(input) <= RefineLimit THEN "round" ELSE "flatten"
    /\ UNCHANGED <<arguments, placement, refinement, schedule>>

\* Faulty loop: one round too many.
ExtraRound ==
    /\ phase = "round"
    /\ round <= RefinementRounds
    /\ phase' = "refine"
    /\ cursor' = <<0, 1>>
    /\ baseline' = Objective(lanes, laneEnd, start)
    /\ changed' = FALSE
    /\ UNCHANGED <<arguments, placement, round, schedule>>

StartRound ==
    /\ phase = "round"
    /\ round < RefinementRounds
    /\ phase' = "refine"
    /\ cursor' = <<0, 1>>
    /\ baseline' = Objective(lanes, laneEnd, start)
    /\ changed' = FALSE
    /\ UNCHANGED <<arguments, placement, round, schedule>>

RoundsExhausted ==
    /\ phase = "round"
    /\ round = RefinementRounds
    /\ phase' = "flatten"
    /\ UNCHANGED <<arguments, placement, refinement, schedule>>

\* Tests i and i+1 of lane w are swapped and the lane reflowed; a swap that
\* does not lower the objective is swapped back, and the lane reflowed again.
TrySwap ==
    LET w == cursor[1]
        i == cursor[2]
        swapped == Swap(lanes[w], i)
        undone == Swap(swapped, i)
        end(l) == [laneEnd EXCEPT ![w] = Offsets(l)[Len(l)]]
        trial == Reflow(swapped, start)
        candidate == Objective([lanes EXCEPT ![w] = swapped], end(swapped), trial)
    IN  /\ phase = "refine"
        /\ w \in Lanes
        /\ i < Len(lanes[w])
        /\ \/ /\ candidate < baseline
              /\ lanes' = [lanes EXCEPT ![w] = swapped]
              /\ start' = trial
              /\ laneEnd' = end(swapped)
              /\ baseline' = candidate
              /\ changed' = TRUE
           \/ /\ ~candidate < baseline
              /\ lanes' = [lanes EXCEPT ![w] = undone]
              /\ start' = Reflow(undone, trial)
              /\ laneEnd' = end(undone)
              /\ UNCHANGED <<baseline, changed>>
        /\ cursor' = <<w, i + 1>>
        /\ UNCHANGED <<arguments, phase, remaining, round, schedule>>

NextLane ==
    /\ phase = "refine"
    /\ cursor[1] \in Lanes
    /\ cursor[2] >= Len(lanes[cursor[1]])
    /\ cursor' = <<cursor[1] + 1, 1>>
    /\ UNCHANGED <<arguments, phase, placement, round, baseline, changed, schedule>>

\* A round that kept no swap ends the refinement.
EndRound ==
    /\ phase = "refine"
    /\ cursor[1] = Workers
    /\ phase' = IF changed THEN "round" ELSE "flatten"
    /\ round' = round + 1
    /\ UNCHANGED <<arguments, placement, cursor, baseline, changed, schedule>>

Flatten ==
    /\ phase = "flatten"
    /\ \E s \in Flattened :
          /\ schedule' = s
          /\ phase' = IF ValidSchedule(s) THEN "done" ELSE "error"
    /\ UNCHANGED <<arguments, placement, refinement>>

Returned == phase \in {"done", "error"} /\ UNCHANGED vars

Next ==
    \/ IndexPredictions
    \/ AdmitTests
    \/ \E w \in Lanes, t \in remaining : Place(w, t)
    \/ AllPlaced
    \/ StartRound
    \/ RoundsExhausted
    \/ TrySwap
    \/ NextLane
    \/ EndRound
    \/ Flatten
    \/ Returned

Spec == Init /\ [][Next]_vars
-----------------------------------------------------------------------------
(***************************************************************************)
(* Properties.                                                             *)
(***************************************************************************)

Phases == {"index", "admit", "place", "round", "refine", "flatten", "done", "error"}

\* Type invariant of the state of Build.
TypeOK ==
    /\ input \in Inputs
    /\ estimate \in Estimates
    /\ phase \in Phases
    /\ remaining \subseteq Tests
    /\ lanes \in [Lanes -> Seq(Tests)]
    /\ laneEnd \in [Lanes -> Nat]
    /\ start \in [Tests -> Nat]
    /\ round \in 0 .. RefinementRounds
    /\ cursor \in (0 .. Workers) \X (Nat \ {0})
    /\ changed \in BOOLEAN
    /\ phase = "refine" => round < RefinementRounds

Placed == UNION {ToSet(lanes[w]) : w \in Lanes}

\* No admitted test is lost or run twice: from admission on, the tests still
\* to place and the tests in the lanes are together the input, and no test
\* has two places, through every placement and every (undone) swap.
EveryTestOnce ==
    phase \in {"place", "round", "refine", "flatten", "done"} =>
        /\ remaining \cap Placed = {}
        /\ remaining \cup Placed = ToSet(input)
        /\ \A v, w \in Lanes : \A i \in DOMAIN lanes[v], j \in DOMAIN lanes[w] :
              lanes[v][i] = lanes[w][j] => v = w /\ i = j

PreviousEnd(w, i) == IF i = 1 THEN 0 ELSE End(lanes[w][i - 1])

\* A worker is planned to run one test at a time, in lane order, and the end
\* field placement relies on is the end of the lane's last test.
LaneIsSequential ==
    \A w \in Lanes :
        /\ \A i \in DOMAIN lanes[w] : PreviousEnd(w, i) <= start[lanes[w][i]]
        /\ laneEnd[w] = PreviousEnd(w, Len(lanes[w]) + 1)

\* Placement leaves a worker idle only to let a hard conflict of the delayed
\* test finish: one that was running on another worker when this one became
\* free, and that ends exactly when the delayed test starts.
IdleIsJustified ==
    phase = "place" =>
        \A w \in Lanes : \A i \in DOMAIN lanes[w] :
            LET t == lanes[w][i]
                free == PreviousEnd(w, i)
            IN  \/ start[t] = free
                \/ \E o \in OtherLaneTests(w) :
                      /\ start[o] <= free /\ free < End(o) /\ End(o) = start[t]
                      /\ Hard(<<Probability(t, o), Unit>>)

\* Waiting for conflicts never makes the plan longer than running the placed
\* tests one after the other.
NeverWorseThanSerial ==
    Makespan(laneEnd) <= MapThenSumSet(Dur, Placed)

\* However the unstable sorts order equal starts, the queue the executor
\* derives from the flattened schedule is the lane the scheduler planned.
DispatchFollowsLanes ==
    phase = "done" => \A w \in Lanes : ByWorker(schedule, w) = {lanes[w]}

\* Refinement keeps every test on its worker and never delays the end of a
\* lane, whether its swaps are kept or undone.
RefinementStaysInLane ==
    [][phase = "refine" => \A w \in Lanes : /\ ToSet(lanes'[w]) = ToSet(lanes[w])
                                            /\ laneEnd'[w] <= laneEnd[w]]_vars

\* Tests a and b, planned on different workers, overlap with a predicted
\* conflict that reaches the hard threshold, weighed by the overlap's share of
\* the shorter test.
RiskyOverlap(a, b) ==
    LET shared == Overlap(start[a], End(a), b)
    IN  shared > 0 /\ Hard(<<Probability(a, b) * shared, Unit * Min({Dur(a), Dur(b)})>>)

\* In the schedule Build returns, no risky pair overlaps (README.md:97 "the
\* threshold that prevents a risky overlap",
\* scheduler_test.go:139 TestHighRiskPairDoesNotOverlap).
HighRiskPairDoesNotOverlap ==
    phase = "done" =>
        \A v, w \in Lanes : v # w =>
            \A a \in ToSet(lanes[v]), b \in ToSet(lanes[w]) : ~RiskyOverlap(a, b)

\* Lane w holds two tests or more and has no gap, not even the one a test was
\* delayed by.
WithoutGaps(w) ==
    /\ Len(lanes[w]) > 1
    /\ \A i \in DOMAIN lanes[w] : start[lanes[w][i]] = PreviousEnd(w, i)

\* What two workers can rely on: placement plans no risky overlap, so a
\* schedule that was not refined has none, and a refined one has none between
\* lanes of one test or lanes that still have a gap: a risky overlap in it is
\* the work of a reflow that closed the gap in front of a delayed test.
RiskyOverlapNeedsReflow ==
    \A v, w \in Lanes : v # w =>
        \A a \in ToSet(lanes[v]), b \in ToSet(lanes[w]) :
            RiskyOverlap(a, b) => /\ phase = "refine" \/ round > 0
                                  /\ WithoutGaps(v) \/ WithoutGaps(w)
=============================================================================
