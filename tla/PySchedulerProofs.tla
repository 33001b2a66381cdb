------------------------- MODULE PySchedulerProofs -------------------------
(***************************************************************************)
(* Proofs about module PyScheduler, for every number of workers, every set *)
(* of tests, durations, prediction lists and parameters.  What the Python  *)
(* schedulers share with the Go one (lanes, swaps, reflow, sums of         *)
(* durations) is cited from SchedulerProofs.                               *)
(***************************************************************************)
EXTENDS PyScheduler, SchedulerProofs

(***************************************************************************)
(* The inductive invariant.                                                *)
(***************************************************************************)

PyTypes ==
    /\ input \in Inputs
    /\ estimate \in Estimates
    /\ kind \in Kinds
    /\ phase \in {"index", "place", "round", "refine", "flatten", "simulate", "done"}
    /\ remaining \subseteq Tests
    /\ round \in 0 .. RefinementRounds
    /\ cursor \in (0 .. Workers) \X (Nat \ {0})
    /\ changed \in BOOLEAN
    /\ phase = "refine" => round < RefinementRounds

\* Nothing is placed before the call reads its arguments; from then on a test
\* of the input is either waiting or placed.
Accounted ==
    /\ phase = "index" => remaining = {} /\ \A w \in Lanes : lanes[w] = <<>>
    /\ phase # "index" => remaining \cap Placed = {} /\ remaining \cup Placed = ToSet(input)

PyInv == PyTypes /\ PlacementOK /\ Accounted

\* Up to the trial, the Python schedulers keep the invariant of the Go one.
LEMMA PyInvIsInv ==
    ASSUME PyInv, phase \in {"place", "round", "refine", "flatten"}
    PROVE  Inv
<1>1. TypeOK
  BY DEF PyInv, PyTypes, PlacementOK, TypeOK, Phases
<1>2. EveryTestOnce
  BY DEF PyInv, Accounted, PlacementOK, OnceEach, EveryTestOnce
<1>3. NothingPlacedYet
  BY DEF NothingPlacedYet
<1> QED  BY <1>1, <1>2, <1>3 DEF Inv, PyInv, PlacementOK

\* The invariant holds when a scheduler is called.
LEMMA PyInitInv == PyInit => PyInv
<1> SUFFICES ASSUME PyInit PROVE PyInv  OBVIOUS
<1>1. Inv  BY InitInv DEF PyInit
<1>2. phase = "index" /\ kind \in Kinds /\ \A w \in Lanes : lanes[w] = <<>> /\ DOMAIN lanes[w] = {}
  BY DEF PyInit, Init
<1>3. PyTypes  BY <1>1, <1>2 DEF Inv, TypeOK, PyTypes
<1>4. OnceEach  BY <1>2 DEF OnceEach
<1>5. PlacementOK  BY <1>1, <1>4, SchedulerAssumption DEF Inv, TypeOK, PlacementOK
<1>6. Accounted  BY <1>1, <1>2 DEF Inv, NothingPlacedYet, Accounted
<1> QED  BY <1>3, <1>5, <1>6 DEF PyInv

\* A step that leaves the placement alone keeps what is said about it.
LEMMA PlacementKept ==
    ASSUME PlacementOK, UNCHANGED <<estimate, lanes, laneEnd, start>>
    PROVE  PlacementOK' /\ Placed' = Placed
  BY DEF PlacementOK, OnceEach, LaneIsSequential, PreviousEnd, End, Dur, Placed

\* A test that waits is put at the end of a lane.
LEMMA PutInv ==
    ASSUME PyInv, phase = "place", NEW w \in Lanes, NEW t \in remaining,
           NEW s \in Nat, laneEnd[w] <= s, Put(t, w, s)
    PROVE  /\ PyInv'
           /\ PlacementOK /\ t \in Tests /\ t \notin Placed /\ Appends(w, t, s)
<1>1. /\ UNCHANGED <<input, estimate, phase, round, cursor, changed, kind>>
      /\ remaining' = remaining \ {t}
  BY DEF Put, arguments, refinement, call
<1>2. PlacementOK /\ t \in Tests /\ t \notin Placed
  BY DEF PyInv, PyTypes, Accounted
<1>3. Appends(w, t, s)
  BY <1>1 DEF Put, Appends
<1>4. PlacementOK' /\ Placed' = Placed \cup {t}
  BY <1>2, <1>3, AppendTest
<1>5. PyTypes'
  BY <1>1 DEF PyInv, PyTypes
<1>6. Accounted'
  <2>1. ToSet(input)' = ToSet(input)  BY <1>1 DEF ToSet
  <2>2. remaining \cap Placed = {} /\ remaining \cup Placed = ToSet(input)
    BY DEF PyInv, Accounted
  <2> QED  BY <1>1, <1>2, <1>4, <2>1, <2>2 DEF Accounted
<1> QED  BY <1>2, <1>3, <1>4, <1>5, <1>6 DEF PyInv

(***************************************************************************)
(* What one iteration of the placement loop decides.                       *)
(***************************************************************************)

\* A nonempty set of naturals has its minimum as an element.
LEMMA MinIsElement ==
    ASSUME NEW X \in SUBSET Nat, X # {}
    PROVE  Min(X) \in X
<1>1. \E m \in X : \A n \in X : m <= n  BY LeastNat
<1> QED  BY <1>1 DEF Min

\* A worker waits, if at all, for the end of a test that runs elsewhere.
LEMMA NextEndFacts ==
    ASSUME PlacementOK, NEW w \in Lanes, OverlappingAt(laneEnd[w], w) # {}
    PROVE  \E o \in OtherLaneTests(w) :
              /\ start[o] <= laneEnd[w] /\ laneEnd[w] < End(o) /\ End(o) = NextEnd(w)
              /\ End(o) \in Nat
<1> DEFINE now == laneEnd[w]
           running == OverlappingAt(now, w)
           ends == {End(o) : o \in running}
<1>1. now \in Nat  BY DEF PlacementOK
<1>2. \A o \in running : o \in OtherLaneTests(w) /\ start[o] <= now /\ now < End(o) /\ End(o) \in Nat
  <2> TAKE o \in running
  <2>1. o \in OtherLaneTests(w) /\ start[o] <= now /\ now < End(o)  BY DEF OverlappingAt
  <2>2. o \in Tests  BY <2>1 DEF OtherLaneTests, ToSet, PlacementOK
  <2>3. End(o) \in Nat  BY <2>2, DurPositive DEF End, PlacementOK
  <2> QED  BY <2>1, <2>3
<1>3. ends \in SUBSET Nat /\ ends # {}  BY <1>2
<1>4. Min(ends) \in ends
  <2> HIDE DEF ends
  <2> QED  BY <1>3, MinIsElement
<1>5. PICK o \in running : End(o) = Min(ends)  BY <1>4
<1>6. NextEnd(w) = Max({now, End(o)})  BY <1>5 DEF NextEnd
<1>7. NextEnd(w) = End(o)  BY <1>1, <1>2, <1>6, MaxOfTwo
<1> QED  BY <1>2, <1>7

\* A decision takes a test that waits, and starts it when the lane is free or
\* when a running test ends.
LEMMA DecisionFacts ==
    ASSUME PyInv, NEW w \in Lanes, NEW d \in Decision(w)
    PROVE  /\ d.test \in remaining
           /\ d.start \in Nat /\ laneEnd[w] <= d.start
           /\ \/ d.start = laneEnd[w]
              \/ \E o \in OtherLaneTests(w) :
                    start[o] <= laneEnd[w] /\ laneEnd[w] < End(o) /\ End(o) = d.start
<1>1. laneEnd[w] \in Nat /\ PlacementOK  BY DEF PyInv, PlacementOK
<1>2. PICK t \in Cheapest(Candidates, w) :
        \/ d = [test |-> t, start |-> laneEnd[w]]
        \/ \E u \in Cheapest(SafeCandidates(w), w) : d = [test |-> u, start |-> laneEnd[w]]
        \/ Blocked(t, w) /\ d = [test |-> t, start |-> NextEnd(w)]
  BY DEF Decision
<1>3. Cheapest(Candidates, w) \subseteq remaining
  BY DEF Cheapest, Candidates
<1>4. Cheapest(SafeCandidates(w), w) \subseteq remaining
  BY DEF Cheapest, SafeCandidates, Candidates
<1>5. CASE d.start = laneEnd[w] /\ d.test \in remaining
  BY <1>1, <1>5
<1>6. CASE Blocked(t, w) /\ d = [test |-> t, start |-> NextEnd(w)]
  <2>1. PICK o \in OtherLaneTests(w) :
              /\ start[o] <= laneEnd[w] /\ laneEnd[w] < End(o) /\ End(o) = NextEnd(w)
              /\ End(o) \in Nat
    BY <1>1, <1>6, NextEndFacts DEF Blocked
  <2>2. d.test = t /\ d.start = End(o)  BY <1>6, <2>1
  <2> QED  BY <1>1, <1>3, <2>1, <2>2
<1> QED  BY <1>2, <1>3, <1>4, <1>5, <1>6

\* The placement loops of the three schedulers put a waiting test on a lane,
\* at its end or at the end of a test that runs elsewhere.
LEMMA PlacementSteps ==
    ASSUME PyInv,
           \/ \E w \in Lanes : PyPlace(w)
           \/ \E w \in Lanes, t \in remaining : RandomPlace(w, t)
           \/ \E t \in remaining : SerialPlace(t)
    PROVE  /\ phase = "place"
           /\ \E w \in Lanes, t \in remaining, s \in Nat :
                 /\ Put(t, w, s) /\ laneEnd[w] <= s
                 /\ \/ s = laneEnd[w]
                    \/ \E o \in OtherLaneTests(w) :
                          start[o] <= laneEnd[w] /\ laneEnd[w] < End(o) /\ End(o) = s
<1>1. \A w \in Lanes : laneEnd[w] \in Nat /\ laneEnd[w] <= laneEnd[w]
  BY DEF PyInv, PlacementOK
<1>2. ASSUME NEW w \in Lanes, PyPlace(w)
      PROVE  \E d \in Decision(w) : Put(d.test, w, d.start)
  BY <1>2 DEF PyPlace
<1>3. CASE \E w \in Lanes : PyPlace(w)
  <2>1. PICK w \in Lanes : PyPlace(w)  BY <1>3
  <2>2. PICK d \in Decision(w) : Put(d.test, w, d.start)  BY <2>1, <1>2
  <2>3. phase = "place"  BY <2>1 DEF PyPlace
  <2> QED  BY <2>2, <2>3, DecisionFacts
<1>4. CASE \E w \in Lanes, t \in remaining : RandomPlace(w, t)
  BY <1>1, <1>4 DEF RandomPlace
<1>5. CASE \E t \in remaining : SerialPlace(t)
  <2>1. 0 \in Lanes  BY SchedulerAssumption DEF Lanes
  <2> QED  BY <1>1, <1>5, <2>1 DEF SerialPlace
<1> QED  BY <1>3, <1>4, <1>5

(***************************************************************************)
(* Every step keeps the invariant.                                         *)
(***************************************************************************)

\* Refinement is that of the Go scheduler.
LEMMA RefineInv ==
    ASSUME PyInv, Refine
    PROVE  /\ PyInv' /\ phase' # "place" /\ estimate' = estimate
           /\ \A w \in Lanes : ToSet(lanes'[w]) = ToSet(lanes[w]) /\ laneEnd'[w] <= laneEnd[w]
<1>1. /\ StartRound \/ RoundsExhausted \/ TrySwap \/ NextLane \/ EndRound
      /\ kind' = kind
  BY DEF Refine, call
<1>2. phase \in {"round", "refine"} /\ phase' \in {"round", "refine", "flatten"}
  BY <1>1 DEF StartRound, RoundsExhausted, TrySwap, NextLane, EndRound
<1>3. Inv  BY <1>2, PyInvIsInv
<1>4. Inv'  BY <1>1, <1>3, TrySwapInv, PhaseStepInv
<1>5. input' = input /\ estimate' = estimate
  BY <1>1 DEF StartRound, RoundsExhausted, TrySwap, NextLane, EndRound, arguments
<1>6. PyTypes'
  BY <1>1, <1>2, <1>4 DEF Inv, TypeOK, PyInv, PyTypes
<1>7. PlacementOK'
  BY <1>2, <1>4, <1>5, SchedulerAssumption DEF Inv, TypeOK, EveryTestOnce, OnceEach, PlacementOK
<1>8. Accounted'
  BY <1>2, <1>4 DEF Inv, EveryTestOnce, Accounted
<1>9. \A w \in Lanes : ToSet(lanes'[w]) = ToSet(lanes[w]) /\ laneEnd'[w] <= laneEnd[w]
  <2>1. CASE TrySwap  BY <2>1, <1>3, TrySwapStays
  <2>2. CASE ~TrySwap
    <3>1. lanes' = lanes /\ laneEnd' = laneEnd
      BY <2>2, <1>1 DEF StartRound, RoundsExhausted, NextLane, EndRound, placement
    <3>2. \A w \in Lanes : laneEnd[w] \in Nat  BY DEF PyInv, PlacementOK
    <3> QED  BY <3>1, <3>2
  <2> QED  BY <2>1, <2>2
<1> QED  BY <1>2, <1>5, <1>6, <1>7, <1>8, <1>9 DEF PyInv

\* The steps that leave the placement alone.
LEMMA StillSteps ==
    ASSUME PyInv, PyBegin \/ PyPlaced \/ PyFlatten \/ DrawOverlap \/ TrialDone \/ PyReturned \/ UNCHANGED pyVars
    PROVE  PyInv' /\ UNCHANGED <<estimate, lanes, laneEnd, start>> /\ (phase' = "place" => phase \in {"index", "place"})
<1>1. UNCHANGED <<input, estimate, lanes, laneEnd, start, round, cursor, changed, kind>>
  BY DEF PyBegin, PyPlaced, PyFlatten, DrawOverlap, TrialDone, PyReturned, pyVars, vars, arguments,
         placement, refinement, call
<1>2. PlacementOK' /\ Placed' = Placed  BY <1>1, PlacementKept DEF PyInv
<1>3. \/ /\ phase = "index" /\ phase' = "place" /\ remaining' = ToSet(input)
      \/ /\ phase # "index" /\ phase' \in {"place", "round", "flatten", "simulate", "done"} /\ remaining' = remaining
         /\ (phase' = "place" => phase = "place")
      \/ /\ phase' = phase /\ remaining' = remaining
  BY DEF PyBegin, PyPlaced, PyFlatten, DrawOverlap, TrialDone, PyReturned, pyVars, vars, arguments,
         placement, PyInv, PyTypes
<1>4. ToSet(input)' = ToSet(input)  BY <1>1 DEF ToSet
<1>5. ToSet(input) \subseteq Tests
  <2>1. input \in Seq(Tests)  BY SchedulerAssumption DEF PyInv, PyTypes
  <2> QED  BY <2>1 DEF ToSet
<1>6. PyTypes'
  <2>1. phase' = "refine" => round' < RefinementRounds
    BY <1>1, <1>3 DEF PyInv, PyTypes
  <2> QED  BY <1>1, <1>3, <1>5, <2>1 DEF PyInv, PyTypes
<1>7. Accounted'
  <2>1. CASE phase = "index" /\ phase' = "place" /\ remaining' = ToSet(input)
    <3>1. Placed = {}  BY <2>1 DEF PyInv, Accounted, Placed, ToSet
    <3> QED  BY <2>1, <3>1, <1>2, <1>4 DEF Accounted
  <2>2. CASE phase # "index" /\ phase' # "index" /\ remaining' = remaining
    BY <2>2, <1>2, <1>4 DEF PyInv, Accounted
  <2>3. CASE phase' = phase /\ remaining' = remaining
    BY <2>3, <1>1, <1>2, <1>4 DEF PyInv, Accounted
  <2> QED  BY <1>3, <2>1, <2>2, <2>3
<1> QED  BY <1>1, <1>2, <1>3, <1>6, <1>7 DEF PyInv

\* The steps of the schedulers and of the trial, grouped by what they do.
LEMMA PySteps ==
    ASSUME [PyNext]_pyVars
    PROVE  \/ \/ \E w \in Lanes : PyPlace(w)
              \/ \E w \in Lanes, t \in remaining : RandomPlace(w, t)
              \/ \E t \in remaining : SerialPlace(t)
           \/ Refine
           \/ PyBegin \/ PyPlaced \/ PyFlatten \/ DrawOverlap \/ TrialDone \/ PyReturned \/ UNCHANGED pyVars
  BY DEF PyNext

\* Every step keeps the invariant.
LEMMA PyStepInv == PyInv /\ [PyNext]_pyVars => PyInv'
<1> SUFFICES ASSUME PyInv, [PyNext]_pyVars PROVE PyInv'  OBVIOUS
<1>1. CASE \/ \E w \in Lanes : PyPlace(w)
           \/ \E w \in Lanes, t \in remaining : RandomPlace(w, t)
           \/ \E t \in remaining : SerialPlace(t)
  <2>1. phase = "place" /\ \E w \in Lanes, t \in remaining, s \in Nat : Put(t, w, s) /\ laneEnd[w] <= s
    BY <1>1, PlacementSteps
  <2> QED  BY <2>1, PutInv
<1>2. CASE Refine  BY <1>2, RefineInv
<1>3. CASE PyBegin \/ PyPlaced \/ PyFlatten \/ DrawOverlap \/ TrialDone \/ PyReturned \/ UNCHANGED pyVars
  BY <1>3, StillSteps
<1> QED  BY <1>1, <1>2, <1>3, PySteps

(***************************************************************************)
(* Idle time.                                                              *)
(***************************************************************************)

\* Test i of lane w starts when the lane is free, or when a test that ran
\* elsewhere at that time ends.
EndsWithATest(w, i) ==
    LET free == PreviousEnd(w, i)
        t == lanes[w][i]
    IN  start[t] # free =>
            \E o \in OtherLaneTests(w) : start[o] <= free /\ free < End(o) /\ End(o) = start[t]

\* While tests are placed, every wait ends with a test.
IdleInv == phase = "place" => \A w \in Lanes : \A i \in DOMAIN lanes[w] : EndsWithATest(w, i)

\* A placement keeps the reasons of the tests placed before, and has one.
LEMMA PutIdle ==
    ASSUME PyInv, IdleInv, phase = "place", NEW w \in Lanes, NEW t \in remaining, NEW s \in Nat,
           Put(t, w, s), laneEnd[w] <= s,
           \/ s = laneEnd[w]
           \/ \E o \in OtherLaneTests(w) : start[o] <= laneEnd[w] /\ laneEnd[w] < End(o) /\ End(o) = s
    PROVE  IdleInv'
<1>1. PlacementOK /\ t \in Tests /\ t \notin Placed /\ Appends(w, t, s)
  BY PutInv
<1>2. ASSUME NEW v \in Lanes, NEW i \in DOMAIN lanes'[v] PROVE EndsWithATest(v, i)'
  <2>1. PICK u, free : u = lanes'[v][i] /\ free = PreviousEnd(v, i)
    OBVIOUS
  <2>2. PreviousEnd(v, i)' = free  BY <2>1, <1>1, AppendFrame
  <2>3. start'[u] # free =>
           \E o \in OtherLaneTests(v) : start[o] <= free /\ free < End(o) /\ End(o) = start'[u]
    <3>1. CASE i \in DOMAIN lanes[v] /\ u = lanes[v][i] /\ u \in Placed
      <4>1. start'[u] = start[u]  BY <3>1, <1>1, AppendFrame
      <4>2. EndsWithATest(v, i)  BY <3>1 DEF IdleInv
      <4> QED  BY <2>1, <3>1, <4>1, <4>2 DEF EndsWithATest
    <3>2. CASE v = w /\ u = t /\ free = laneEnd[w]
      <4>1. start'[u] = s  BY <3>2, <1>1, AppendFrame
      <4> QED  BY <3>2, <4>1
    <3> QED  BY <2>1, <3>1, <3>2, <1>1, AppendFrame
  <2>4. ASSUME NEW o \in OtherLaneTests(v)
        PROVE  o \in OtherLaneTests(v)' /\ start'[o] = start[o] /\ End(o)' = End(o)
    BY <1>1, AppendFrame
  <2> QED  BY <2>1, <2>2, <2>3, <2>4 DEF EndsWithATest
<1> QED  BY <1>2 DEF IdleInv

\* No step makes a worker wait without a reason, or the plan longer than the
\* serial one.
LEMMA PyStepIdle ==
    ASSUME PyInv, IdleInv, WithinSerial, [PyNext]_pyVars
    PROVE  IdleInv' /\ WithinSerial'
<1>1. /\ lanes \in [Lanes -> Seq(Tests)] /\ laneEnd \in [Lanes -> Nat] /\ estimate \in [Tests -> Int]
      /\ PlacementOK
  BY DEF PyInv, PlacementOK
<1>2. laneEnd' \in [Lanes -> Nat]
  BY PyStepInv DEF PyInv, PlacementOK
<1>3. CASE \/ \E w \in Lanes : PyPlace(w)
           \/ \E w \in Lanes, t \in remaining : RandomPlace(w, t)
           \/ \E t \in remaining : SerialPlace(t)
  <2>1. phase = "place"  BY <1>3, PlacementSteps
  <2>2. PICK w \in Lanes, t \in remaining, s \in Nat :
          /\ Put(t, w, s) /\ laneEnd[w] <= s
          /\ \/ s = laneEnd[w]
             \/ \E o \in OtherLaneTests(w) :
                   start[o] <= laneEnd[w] /\ laneEnd[w] < End(o) /\ End(o) = s
    BY <1>3, PlacementSteps
  <2>3. IdleInv'  BY <2>1, <2>2, PutIdle
  <2>4. t \in Tests /\ t \notin Placed /\ Appends(w, t, s)  BY <2>1, <2>2, PutInv
  <2>5. s <= Total(Placed)
    <3>1. CASE s = laneEnd[w]  BY <3>1 DEF WithinSerial
    <3>2. CASE s # laneEnd[w]
      <4>1. PICK o \in OtherLaneTests(w) : End(o) = s  BY <2>2, <3>2
      <4>2. o \in Placed  BY <4>1 DEF OtherLaneTests, Placed
      <4> QED  BY <1>1, <4>1, <4>2, EndsWithinSerial
    <3> QED  BY <3>1, <3>2
  <2>6. WithinSerial'  BY <1>1, <2>2, <2>4, <2>5, AppendWithinSerial
  <2> QED  BY <2>3, <2>6
<1>4. CASE Refine
  <2>1. /\ phase' # "place" /\ estimate' = estimate
        /\ \A w \in Lanes : ToSet(lanes'[w]) = ToSet(lanes[w]) /\ laneEnd'[w] <= laneEnd[w]
    BY <1>4, RefineInv
  <2>2. IdleInv'  BY <2>1 DEF IdleInv
  <2>3. WithinSerial'  BY <1>1, <1>2, <2>1, KeepWithinSerial
  <2> QED  BY <2>2, <2>3
<1>5. CASE PyBegin \/ PyPlaced \/ PyFlatten \/ DrawOverlap \/ TrialDone \/ PyReturned \/ UNCHANGED pyVars
  <2>1. UNCHANGED <<estimate, lanes, laneEnd, start>> /\ (phase' = "place" => phase \in {"index", "place"})
    BY <1>5, StillSteps
  <2>2. \A w \in Lanes : laneEnd[w] <= laneEnd[w]  BY <1>1
  <2>3. WithinSerial'  BY <1>1, <1>2, <2>1, <2>2, KeepWithinSerial
  <2>4. IdleInv'
    <3>1. CASE phase = "place"
      <4>1. \A w, i : EndsWithATest(w, i)' <=> EndsWithATest(w, i)
        BY <2>1 DEF EndsWithATest, PreviousEnd, OtherLaneTests, End, Dur
      <4> QED  BY <2>1, <3>1, <4>1 DEF IdleInv
    <3>2. CASE phase = "index"
      <4>1. \A w \in Lanes : DOMAIN lanes'[w] = {}  BY <2>1, <3>2 DEF PyInv, Accounted
      <4> QED  BY <4>1 DEF IdleInv
    <3>3. CASE phase' # "place"  BY <3>3 DEF IdleInv
    <3> QED  BY <2>1, <3>1, <3>2, <3>3
  <2> QED  BY <2>3, <2>4
<1> QED  BY <1>3, <1>4, <1>5, PySteps

(***************************************************************************)
(* The binary search for the first live test of a lane.                    *)
(***************************************************************************)

\* The end times of a lane increase, and so do its starts.
LEMMA LaneIncreases ==
    ASSUME PlacementOK, NEW v \in Lanes, NEW j \in 1 .. Len(lanes[v])
    PROVE  \A i \in 1 .. j : /\ End(lanes[v][i]) <= End(lanes[v][j])
                             /\ start[lanes[v][i]] <= start[lanes[v][j]]
<1> DEFINE l == lanes[v]
           T == {n \in Nat : n <= Len(l) =>
                    \A i \in 1 .. n : End(l[i]) <= End(l[n]) /\ start[l[i]] <= start[l[n]]}
<1>1. /\ Len(l) \in Nat /\ DOMAIN l = 1 .. Len(l)
      /\ \A i \in 1 .. Len(l) : start[l[i]] \in Nat /\ Dur(l[i]) \in Nat /\ End(l[i]) = start[l[i]] + Dur(l[i])
  BY DurPositive DEF PlacementOK, End
<1>2. \A i \in 1 .. Len(l) : i # 1 => End(l[i - 1]) <= start[l[i]]
  BY <1>1 DEF PlacementOK, LaneIsSequential, PreviousEnd
<1> HIDE DEF l
<1>3. 0 \in T
  OBVIOUS
<1>4. ASSUME NEW n \in T PROVE n + 1 \in T
  <2>1. n \in Nat  OBVIOUS
  <2>2. ASSUME n + 1 <= Len(l), NEW i \in 1 .. n + 1
        PROVE  End(l[i]) <= End(l[n + 1]) /\ start[l[i]] <= start[l[n + 1]]
    <3>1. n + 1 \in 1 .. Len(l)  BY <2>1, <2>2, <1>1
    <3>2. CASE i = n + 1  BY <3>1, <3>2, <1>1
    <3>3. CASE i # n + 1
      <4>1. i \in 1 .. n /\ n \in 1 .. Len(l) /\ i \in 1 .. Len(l) /\ n + 1 # 1 /\ (n + 1) - 1 = n
        <5>1. Len(l) \in Nat  BY <1>1
        <5> HIDE DEF T
        <5> QED  BY <2>1, <2>2, <3>3, <5>1
      <4>2. End(l[i]) <= End(l[n]) /\ start[l[i]] <= start[l[n]]  BY <2>1, <2>2, <4>1, <1>1, SMTT(30)
      <4>3. End(l[n]) <= start[l[n + 1]]  BY <3>1, <4>1, <1>2
      <4>4. /\ start[l[i]] \in Nat /\ Dur(l[i]) \in Nat /\ End(l[i]) = start[l[i]] + Dur(l[i])
            /\ start[l[n]] \in Nat /\ Dur(l[n]) \in Nat /\ End(l[n]) = start[l[n]] + Dur(l[n])
            /\ start[l[n + 1]] \in Nat /\ Dur(l[n + 1]) \in Nat
            /\ End(l[n + 1]) = start[l[n + 1]] + Dur(l[n + 1])
        BY <3>1, <4>1, <1>1
      <4> HIDE DEF T
      <4>5. End(l[i]) \in Nat /\ End(l[n]) \in Nat /\ End(l[n + 1]) \in Nat  BY <4>4, SMTT(30)
      <4>6. start[l[n]] <= End(l[n]) /\ start[l[n + 1]] <= End(l[n + 1])  BY <4>4, SMTT(30)
      <4>7. start[l[i]] \in Nat /\ start[l[n]] \in Nat /\ start[l[n + 1]] \in Nat  BY <4>4
      <4> QED  BY <4>2, <4>3, <4>5, <4>6, <4>7, SMTT(30)
    <3> QED  BY <3>2, <3>3
  <2> QED  BY <2>1, <2>2
<1>5. Nat \subseteq T
  <2> HIDE DEF T
  <2>1. T \in SUBSET Nat  BY DEF T
  <2> QED  BY <1>3, <1>4, <2>1, SetInduction
<1>6. j \in Nat /\ j <= Len(l)  BY <1>1 DEF l
<1>7. j \in T
  <2> HIDE DEF T
  <2> QED  BY <1>5, <1>6
<1> QED  BY <1>6, <1>7 DEF l

\* The middle of a range that is not empty lies in it.
LEMMA MiddleFacts ==
    ASSUME NEW low \in Nat, NEW high \in Nat, low < high
    PROVE  /\ (low + high) \div 2 \in Nat
           /\ low <= (low + high) \div 2 /\ (low + high) \div 2 < high
  OBVIOUS

\* One step of the search in lane l, with h for the rest of it.
Halve(h, l, s, r) ==
    LET middle == (r[1] + r[2]) \div 2
    IN  IF r[1] >= r[2] THEN r[1]
        ELSE IF End(l[middle]) <= s THEN h[<<middle + 1, r[2]>>]
        ELSE h[<<r[1], middle>>]

\* The recursive definition of the search has a solution.
LEMMA SearchRecursion ==
    ASSUME NEW l, NEW s, Len(l) \in Nat
    PROVE  \E h : /\ h = [r \in (1 .. Len(l) + 1) \X (1 .. Len(l) + 1) |-> Halve(h, l, s, r)]
                  /\ FirstLive(l, s) = h[<<1, Len(l) + 1>>]
<1> DEFINE N == 1 .. Len(l) + 1
           Sol(h, n) == \A r \in N \X N : r[2] - r[1] <= n => h[r] = Halve(h, l, s, r)
           Has(n) == \E h \in [N \X N -> N] : Sol(h, n)
           T == {n \in Nat : Has(n)}
<1>1. ASSUME NEW r \in N \X N, r[1] < r[2]
      PROVE  LET m == (r[1] + r[2]) \div 2
             IN  /\ m \in N /\ m + 1 \in N /\ r[1] \in N /\ r[2] \in N
                 /\ <<m + 1, r[2]>> \in N \X N /\ <<r[1], m>> \in N \X N
                 /\ r[2] - (m + 1) < r[2] - r[1] /\ m - r[1] < r[2] - r[1]
  <2>1. r[1] \in N /\ r[2] \in N  OBVIOUS
  <2>2. r[1] \in Nat /\ r[2] \in Nat  BY <2>1
  <2>3. PICK m : m = (r[1] + r[2]) \div 2  OBVIOUS
  <2>4. m \in Nat /\ r[1] <= m /\ m < r[2]  BY <1>1, <2>2, <2>3, MiddleFacts
  <2>5. m \in N /\ m + 1 \in N  BY <2>1, <2>2, <2>4
  <2> QED  BY <2>1, <2>2, <2>3, <2>4, <2>5, SMTT(30)
<1>2. ASSUME NEW h \in [N \X N -> N], NEW r \in N \X N PROVE Halve(h, l, s, r) \in N
  <2>1. CASE r[1] >= r[2]  BY <2>1 DEF Halve
  <2>2. CASE ~(r[1] >= r[2])
    <3>1. r[1] < r[2]
      <4>1. r[1] \in Nat /\ r[2] \in Nat  OBVIOUS
      <4> QED  BY <2>2, <4>1
    <3>2. PICK m : m = (r[1] + r[2]) \div 2  OBVIOUS
    <3>3. <<m + 1, r[2]>> \in N \X N /\ <<r[1], m>> \in N \X N  BY <3>1, <3>2, <1>1
    <3>4. h[<<m + 1, r[2]>>] \in N /\ h[<<r[1], m>>] \in N  BY <3>3
    <3> HIDE DEF N
    <3> QED  BY <2>2, <3>2, <3>4 DEF Halve
  <2> QED  BY <2>1, <2>2
<1>3. 0 \in T
  <2> DEFINE h == [r \in N \X N |-> r[1]]
  <2>1. h \in [N \X N -> N]  OBVIOUS
  <2>2. ASSUME NEW r \in N \X N, r[2] - r[1] <= 0 PROVE h[r] = Halve(h, l, s, r)
    <3>1. r[1] \in Nat /\ r[2] \in Nat  OBVIOUS
    <3>2. r[1] >= r[2]  BY <2>2, <3>1
    <3> QED  BY <3>2 DEF Halve
  <2> HIDE DEF h, N
  <2> QED  BY <2>1, <2>2
<1>4. ASSUME NEW n \in T PROVE n + 1 \in T
  <2>1. PICK h \in [N \X N -> N] : Sol(h, n)
    <3> HIDE DEF N
    <3> QED  OBVIOUS
  <2> DEFINE g == [r \in N \X N |-> IF r[2] - r[1] = n + 1 THEN Halve(h, l, s, r) ELSE h[r]]
  <2>2. g \in [N \X N -> N]
    <3>1. \A r \in N \X N : Halve(h, l, s, r) \in N /\ h[r] \in N
      <4> TAKE r \in N \X N
      <4>1. Halve(h, l, s, r) \in N  BY <1>2
      <4> HIDE DEF N
      <4> QED  BY <4>1
    <3> HIDE DEF N
    <3> QED  BY <3>1
  <2>3. n \in Nat  OBVIOUS
  <2>4. ASSUME NEW r \in N \X N, r[2] - r[1] <= n + 1 PROVE g[r] = Halve(g, l, s, r)
    <3>1. r[1] \in Nat /\ r[2] \in Nat  OBVIOUS
    <3>2. Halve(g, l, s, r) = Halve(h, l, s, r)
      <4>1. CASE r[1] >= r[2]  BY <4>1 DEF Halve
      <4>2. CASE r[1] < r[2]
        <5>1. PICK m : m = (r[1] + r[2]) \div 2  OBVIOUS
        <5>2. /\ <<m + 1, r[2]>> \in N \X N /\ <<r[1], m>> \in N \X N /\ m \in N
              /\ r[2] - (m + 1) < r[2] - r[1] /\ m - r[1] < r[2] - r[1]
          BY <4>2, <5>1, <1>1
        <5>3. m \in Nat /\ r[2] - (m + 1) # n + 1 /\ m - r[1] # n + 1
          <6>1. m \in Nat  BY <5>2
          <6>2. \A a, b, c, d \in Int : b - a <= d /\ c < b - a => c # d  OBVIOUS
          <6>3. r[2] - (m + 1) \in Int /\ m - r[1] \in Int /\ n + 1 \in Int /\ r[1] \in Int /\ r[2] \in Int
            BY <2>3, <3>1, <6>1
          <6> QED  BY <2>4, <5>2, <6>1, <6>2, <6>3, Zenon
        <5>4. g[<<m + 1, r[2]>>] = h[<<m + 1, r[2]>>] /\ g[<<r[1], m>>] = h[<<r[1], m>>]
          <6> HIDE DEF N
          <6> QED  BY <5>2, <5>3
        <5> HIDE DEF g
        <5> QED  BY <5>1, <5>4 DEF Halve
      <4> QED  BY <3>1, <4>1, <4>2
    <3>3. CASE r[2] - r[1] = n + 1
      <4> HIDE DEF N
      <4>1. g[r] = Halve(h, l, s, r)  BY <3>3
      <4> QED  BY <3>2, <4>1
    <3>4. CASE r[2] - r[1] # n + 1
      <4>1. r[2] - r[1] <= n  BY <2>3, <2>4, <3>1, <3>4
      <4> HIDE DEF N
      <4>2. g[r] = h[r] /\ h[r] = Halve(h, l, s, r)  BY <2>1, <3>4, <4>1
      <4> QED  BY <3>2, <4>2
    <3> QED  BY <3>3, <3>4
  <2> HIDE DEF g, N
  <2> QED  BY <2>2, <2>3, <2>4
<1>5. Nat \subseteq T
  <2> HIDE DEF T
  <2>1. T \in SUBSET Nat  BY DEF T
  <2> QED  BY <1>3, <1>4, <2>1, SetInduction
<1>6. PICK f \in [N \X N -> N] : Sol(f, Len(l))
  <2> HIDE DEF N
  <2> QED  BY <1>5
<1> DEFINE D(h) == h = [r \in N \X N |-> Halve(h, l, s, r)]
<1>7. D(f)
  <2>1. ASSUME NEW r \in N \X N PROVE f[r] = Halve(f, l, s, r)
    <3>1. r[2] - r[1] <= Len(l)  OBVIOUS
    <3> HIDE DEF N
    <3> QED  BY <3>1, <1>6
  <2> HIDE DEF N
  <2> QED  BY <2>1, <1>6
<1>8. FirstLive(l, s) = (CHOOSE h : D(h))[<<1, Len(l) + 1>>]
  BY DEF FirstLive, Halve
<1>9. D(CHOOSE h : D(h))
  <2> HIDE DEF D
  <2> QED  BY <1>7
<1> QED  BY <1>8, <1>9

\* The search skips only tests that have ended by s.
LEMMA FirstLiveFacts ==
    ASSUME PlacementOK, NEW v \in Lanes, NEW s \in Nat
    PROVE  /\ FirstLive(lanes[v], s) \in 1 .. Len(lanes[v]) + 1
           /\ \A i \in 1 .. Len(lanes[v]) : i < FirstLive(lanes[v], s) => End(lanes[v][i]) <= s
<1> DEFINE l == lanes[v]
           N == 1 .. Len(l) + 1
           Ended(k) == \A i \in 1 .. Len(l) : i < k => End(l[i]) <= s
<1>1. Len(l) \in Nat /\ \A i \in 1 .. Len(l) : End(l[i]) \in Nat
  BY DurPositive, SMTT(30) DEF PlacementOK, End
<1>2. \A j \in 1 .. Len(l) : \A i \in 1 .. j : End(l[i]) <= End(l[j])
  BY LaneIncreases
<1> HIDE DEF l
<1>3. PICK h : /\ h = [r \in N \X N |-> Halve(h, l, s, r)]
               /\ FirstLive(l, s) = h[<<1, Len(l) + 1>>]
  BY <1>1, SearchRecursion
<1> DEFINE Right(n) == \A low, high \in N : high - low <= n /\ Ended(low) =>
                           h[<<low, high>>] \in N /\ Ended(h[<<low, high>>])
           T == {n \in Nat : Right(n)}
<1>4. ASSUME NEW low \in N, NEW high \in N
      PROVE  /\ low >= high => h[<<low, high>>] = low
             /\ low < high =>
                   LET m == (low + high) \div 2
                   IN  h[<<low, high>>] = IF End(l[m]) <= s THEN h[<<m + 1, high>>] ELSE h[<<low, m>>]
  <2>1. PICK r : r = <<low, high>>  OBVIOUS
  <2>2. r \in N \X N /\ r[1] = low /\ r[2] = high  BY <2>1
  <2>3. h[r] = Halve(h, l, s, r)
    <3> HIDE DEF N
    <3> QED  BY <1>3, <2>2
  <2>4. low \in Nat /\ high \in Nat  OBVIOUS
  <2> HIDE DEF N
  <2> QED  BY <2>1, <2>2, <2>3, <2>4 DEF Halve
<1>5. 0 \in T
  <2>1. ASSUME NEW low \in N, NEW high \in N, high - low <= 0, Ended(low)
        PROVE  h[<<low, high>>] \in N /\ Ended(h[<<low, high>>])
    <3>1. low >= high  BY <2>1
    <3>2. h[<<low, high>>] = low  BY <3>1, <1>4
    <3> HIDE DEF N, Ended
    <3> QED  BY <2>1, <3>2
  <2> HIDE DEF N, Ended
  <2> QED  BY <2>1
<1>6. ASSUME NEW n \in T PROVE n + 1 \in T
  <2>1. n \in Nat /\ Right(n)  OBVIOUS
  <2>2. ASSUME NEW low \in N, NEW high \in N, high - low <= n + 1, Ended(low)
        PROVE  h[<<low, high>>] \in N /\ Ended(h[<<low, high>>])
    <3>1. low \in Nat /\ high \in Nat  OBVIOUS
    <3>2. CASE low >= high
      <4>1. h[<<low, high>>] = low  BY <3>2, <1>4
      <4> HIDE DEF N, Ended
      <4> QED  BY <2>2, <4>1
    <3>3. CASE low < high
      <4>1. PICK m : m = (low + high) \div 2  OBVIOUS
      <4>2. m \in Nat /\ low <= m /\ m < high  BY <3>1, <3>3, <4>1, MiddleFacts
      <4>3. m \in N /\ m + 1 \in N /\ m \in 1 .. Len(l) /\ high - (m + 1) <= n /\ m - low <= n
        BY <1>1, <2>1, <2>2, <3>1, <4>2
      <4>4. h[<<low, high>>] = IF End(l[m]) <= s THEN h[<<m + 1, high>>] ELSE h[<<low, m>>]
        BY <3>3, <4>1, <1>4
      <4>5. CASE End(l[m]) <= s
        <5>1. Ended(m + 1)
          <6>1. ASSUME NEW i \in 1 .. Len(l), i < m + 1 PROVE End(l[i]) <= s
            <7>1. i \in 1 .. m  BY <6>1, <4>2
            <7>2. End(l[i]) <= End(l[m]) /\ End(l[i]) \in Nat /\ End(l[m]) \in Nat
              BY <7>1, <4>3, <1>1, <1>2
            <7> QED  BY <4>5, <7>2
          <6> QED  BY <6>1
        <5>2. h[<<m + 1, high>>] \in N /\ Ended(h[<<m + 1, high>>])
          <6> HIDE DEF N, Ended
          <6> QED  BY <2>1, <4>3, <5>1
        <5> HIDE DEF N, Ended
        <5> QED  BY <4>4, <4>5, <5>2
      <4>6. CASE ~(End(l[m]) <= s)
        <5> HIDE DEF N, Ended
        <5>1. h[<<low, m>>] \in N /\ Ended(h[<<low, m>>])  BY <2>1, <2>2, <4>3
        <5> QED  BY <4>4, <4>6, <5>1
      <4> QED  BY <4>5, <4>6
    <3> QED  BY <3>1, <3>2, <3>3, SMTT(30)
  <2> HIDE DEF N, Ended
  <2> QED  BY <2>1, <2>2
<1>7. Nat \subseteq T
  <2> HIDE DEF T
  <2>1. T \in SUBSET Nat  BY DEF T
  <2> QED  BY <1>5, <1>6, <2>1, SetInduction
<1>8. Right(Len(l))
  <2> HIDE DEF Right
  <2> QED  BY <1>1, <1>7
<1>9. 1 \in N /\ Len(l) + 1 \in N /\ (Len(l) + 1) - 1 <= Len(l) /\ Ended(1)
  BY <1>1
<1>10. FirstLive(l, s) \in N /\ Ended(FirstLive(l, s))
  <2> HIDE DEF N, Ended
  <2> QED  BY <1>3, <1>8, <1>9
<1> QED  BY <1>10 DEF l

\* A test that overlaps a time span ends after its start and begins before
\* its end.
LEMMA OverlapSpan ==
    ASSUME NEW s \in Nat, NEW e \in Nat, NEW o, start[o] \in Nat, End(o) \in Nat, Overlap(s, e, o) > 0
    PROVE  s < End(o) /\ start[o] < e
<1>1. PICK a : a = Min({e, End(o)})  OBVIOUS
<1>2. PICK b : b = Max({s, start[o]})  OBVIOUS
<1>3. a \in Nat /\ a <= e /\ a <= End(o)
  <2>1. \E x \in {e, End(o)} : \A y \in {e, End(o)} : x <= y  OBVIOUS
  <2>2. a \in {e, End(o)} /\ \A y \in {e, End(o)} : a <= y  BY <2>1, <1>1 DEF Min
  <2> QED  BY <2>2
<1>4. b \in Nat /\ b >= s /\ b >= start[o]
  <2>1. \E x \in {s, start[o]} : \A y \in {s, start[o]} : x >= y  OBVIOUS
  <2>2. b \in {s, start[o]} /\ \A y \in {s, start[o]} : b >= y  BY <2>1, <1>2 DEF Max
  <2> QED  BY <2>2
<1>5. a - b > 0
  <2>1. Overlap(s, e, o) = Max({0, a - b})  BY <1>1, <1>2 DEF Overlap
  <2>2. \E x \in {0, a - b} : \A y \in {0, a - b} : x >= y  BY <1>3, <1>4
  <2>3. Max({0, a - b}) \in {0, a - b}  BY <2>2 DEF Max
  <2> QED  BY <2>1, <2>3
<1> QED  BY <1>3, <1>4, <1>5

\* Search and scan together find what a scan of the whole lane would.
LEMMA ScanIsComplete ==
    ASSUME PlacementOK, NEW v \in Lanes, NEW s \in Nat, NEW e \in Nat
    PROVE  ScannedOverlaps(lanes[v], s, e) = {o \in ToSet(lanes[v]) : Overlap(s, e, o) > 0}
<1> DEFINE l == lanes[v]
           first == FirstLive(l, s)
           Found == {j \in first .. Len(l) : /\ \A k \in first .. j : start[l[k]] < e
                                             /\ Overlap(s, e, l[j]) > 0}
<1>1. /\ Len(l) \in Nat /\ DOMAIN l = 1 .. Len(l)
      /\ \A i \in 1 .. Len(l) : start[l[i]] \in Nat /\ End(l[i]) \in Nat
  BY DurPositive, SMTT(30) DEF PlacementOK, End
<1>2. first \in 1 .. Len(l) + 1 /\ \A i \in 1 .. Len(l) : i < first => End(l[i]) <= s
  BY FirstLiveFacts
<1>3. \A j \in 1 .. Len(l) : \A i \in 1 .. j : start[l[i]] <= start[l[j]]
  BY LaneIncreases
<1>4. ScannedOverlaps(l, s, e) = {l[i] : i \in Found}
  BY DEF ScannedOverlaps
<1> HIDE DEF first, l
<1>5. ASSUME NEW j \in Found PROVE l[j] \in ToSet(l) /\ Overlap(s, e, l[j]) > 0
  <2>1. j \in 1 .. Len(l)  BY <1>1, <1>2
  <2> QED  BY <2>1, <1>1 DEF ToSet
<1>6. ASSUME NEW o \in ToSet(l), Overlap(s, e, o) > 0 PROVE \E j \in Found : o = l[j]
  <2>1. PICK j \in 1 .. Len(l) : o = l[j]  BY <1>1 DEF ToSet
  <2>2. start[o] \in Nat /\ End(o) \in Nat  BY <2>1, <1>1
  <2>3. s < End(o) /\ start[o] < e  BY <1>6, <2>2, OverlapSpan
  <2>4. ~(j < first)
    <3>1. j < first => End(o) <= s  BY <2>1, <1>2
    <3> QED  BY <2>2, <2>3, <3>1
  <2>5. j \in first .. Len(l)  BY <2>1, <2>4, <1>1, <1>2
  <2>6. ASSUME NEW k \in first .. j PROVE start[l[k]] < e
    <3>1. k \in 1 .. j /\ k \in 1 .. Len(l)  BY <2>1, <1>1, <1>2
    <3>2. start[l[k]] <= start[l[j]] /\ start[l[k]] \in Nat /\ start[l[j]] \in Nat
      BY <2>1, <3>1, <1>1, <1>3
    <3> QED  BY <2>1, <2>3, <3>2
  <2> QED  BY <1>6, <2>1, <2>5, <2>6
<1> HIDE DEF Found
<1>7. {l[i] : i \in Found} = {o \in ToSet(l) : Overlap(s, e, o) > 0}
  BY <1>5, <1>6
<1> QED  BY <1>4, <1>7 DEF l

(***************************************************************************)
(* The simulated trial.                                                    *)
(***************************************************************************)

\* Tests of two disjoint sets take the sum of their times.
LEMMA TotalUnion ==
    ASSUME estimate \in [Tests -> Int], NEW A \in SUBSET Tests, NEW B \in SUBSET Tests, A \cap B = {}
    PROVE  Total(A \cup B) = Total(A) + Total(B)
<1> DEFINE T == {n \in Nat : \A C \in SUBSET B : Cardinality(C) = n => Total(A \cup C) = Total(A) + Total(C)}
<1>1. /\ Total({}) = 0 /\ \A C \in SUBSET Tests : Total(C) \in Nat
      /\ \A C \in SUBSET Tests : \A t \in Tests \ C : Total(C \cup {t}) = Total(C) + Dur(t)
  BY TotalAdd
<1>2. \A C \in SUBSET B : C \in SUBSET Tests /\ IsFiniteSet(C) /\ Cardinality(C) \in Nat
  BY FS_Subset, FS_CardinalityType, SchedulerAssumption
<1>3. 0 \in T
  <2>1. ASSUME NEW C \in SUBSET B, Cardinality(C) = 0 PROVE Total(A \cup C) = Total(A) + Total(C)
    <3>1. C = {}  BY <2>1, <1>2, FS_EmptySet
    <3>2. A \cup C = A /\ Total(A) \in Nat /\ Total(C) = 0  BY <3>1, <1>1
    <3> QED  BY <3>2
  <2> QED  BY <2>1
<1>4. ASSUME NEW n \in T PROVE n + 1 \in T
  <2>1. n \in Nat /\ n + 1 \in Nat  OBVIOUS
  <2>2. ASSUME NEW C \in SUBSET B, Cardinality(C) = n + 1 PROVE Total(A \cup C) = Total(A) + Total(C)
    <3>1. PICK x \in C : TRUE
      <4>1. n + 1 # 0  BY <2>1
      <4> QED  BY <2>2, <4>1, FS_EmptySet
    <3> DEFINE D == C \ {x}
    <3>2. D \in SUBSET B /\ Cardinality(D) = n
      <4>1. Cardinality(D) = Cardinality(C) - 1  BY <1>2, TakeOut
      <4> QED  BY <2>1, <2>2, <4>1
    <3>3. Total(A \cup D) = Total(A) + Total(D)  BY <3>2
    <3>4. /\ D \in SUBSET Tests /\ x \in Tests \ D /\ D \cup {x} = C
          /\ A \cup D \in SUBSET Tests /\ x \in Tests \ (A \cup D) /\ (A \cup D) \cup {x} = A \cup C
      OBVIOUS
    <3> HIDE DEF D, T
    <3>5. Total(C) = Total(D) + Dur(x) /\ Total(A \cup C) = Total(A \cup D) + Dur(x)
      BY <3>4, <1>1
    <3>6. Total(A) \in Nat /\ Total(D) \in Nat /\ Dur(x) \in Nat  BY <3>4, <1>1, DurPositive
    <3> QED  BY <3>3, <3>5, <3>6
  <2> QED  BY <2>1, <2>2
<1>5. Nat \subseteq T
  <2> HIDE DEF T
  <2>1. T \in SUBSET Nat  BY DEF T
  <2> QED  BY <1>3, <1>4, <2>1, SetInduction
<1>6. B \in SUBSET B /\ Cardinality(B) \in Nat  BY <1>2
<1> QED  BY <1>5, <1>6

\* The tests of a lane take no longer than the lane does.
LEMMA LaneIsBusyWithin ==
    ASSUME PlacementOK, NEW w \in Lanes
    PROVE  Total(ToSet(lanes[w])) <= laneEnd[w]
<1> DEFINE l == lanes[w]
           First(k) == {l[i] : i \in 1 .. k}
           prev(i) == IF i = 1 THEN 0 ELSE End(l[i - 1])
           T == {k \in Nat : k <= Len(l) => Total(First(k)) <= prev(k + 1)}
<1>1. /\ estimate \in [Tests -> Int] /\ Len(l) \in Nat /\ DOMAIN l = 1 .. Len(l)
      /\ \A i \in 1 .. Len(l) : /\ l[i] \in Tests /\ start[l[i]] \in Nat /\ Dur(l[i]) \in Nat
                                /\ End(l[i]) = start[l[i]] + Dur(l[i])
  BY DurPositive, SMTT(30) DEF PlacementOK, End
<1>2. /\ laneEnd[w] = prev(Len(l) + 1) /\ \A i \in 1 .. Len(l) : prev(i) <= start[l[i]]
      /\ \A i, j \in 1 .. Len(l) : l[i] = l[j] => i = j
  <2>1. laneEnd[w] = prev(Len(l) + 1) /\ \A i \in DOMAIN l : prev(i) <= start[l[i]]
    BY DEF PlacementOK, LaneIsSequential, PreviousEnd
  <2>2. \A i, j \in DOMAIN l : l[i] = l[j] => i = j
    BY DEF PlacementOK, OnceEach
  <2> HIDE DEF l, prev
  <2> QED  BY <1>1, <2>1, <2>2
<1>3. /\ Total({}) = 0 /\ \A C \in SUBSET Tests : Total(C) \in Nat
      /\ \A C \in SUBSET Tests : \A t \in Tests \ C : Total(C \cup {t}) = Total(C) + Dur(t)
  BY <1>1, TotalAdd
<1> HIDE DEF l
<1>4. 0 \in T
  <2>1. First(0) = {} /\ prev(0 + 1) = 0  OBVIOUS
  <2> QED  BY <2>1, <1>3
<1>5. ASSUME NEW k \in T PROVE k + 1 \in T
  <2>1. k \in Nat /\ k + 1 \in Nat  OBVIOUS
  <2>2. ASSUME k + 1 <= Len(l) PROVE Total(First(k + 1)) <= prev((k + 1) + 1)
    <3>1. k + 1 \in 1 .. Len(l) /\ k <= Len(l) /\ \A i \in 1 .. k : i \in 1 .. Len(l) /\ i # k + 1
      BY <2>1, <2>2, <1>1
    <3>2. Total(First(k)) <= prev(k + 1)  BY <3>1
    <3>3. First(k) \in SUBSET Tests /\ l[k + 1] \in Tests \ First(k)
      BY <3>1, <1>1, <1>2
    <3>4. First(k + 1) = First(k) \cup {l[k + 1]}
      <4>1. 1 .. k + 1 = (1 .. k) \cup {k + 1}  BY <2>1
      <4> QED  BY <4>1
    <3>5. prev((k + 1) + 1) = End(l[k + 1])
      <4>1. (k + 1) + 1 # 1 /\ ((k + 1) + 1) - 1 = k + 1  BY <2>1
      <4> QED  BY <4>1
    <3>6. prev(k + 1) <= start[l[k + 1]]  BY <3>1, <1>2
    <3>7. prev(k + 1) \in Nat
      <4>1. CASE k = 0  BY <4>1
      <4>2. CASE k # 0
        <5>1. k + 1 # 1 /\ (k + 1) - 1 = k /\ k \in 1 .. Len(l)  BY <2>1, <3>1, <4>2
        <5>2. End(l[k]) \in Nat  BY <5>1, <1>1
        <5> QED  BY <5>1, <5>2
      <4> QED  BY <4>1, <4>2
    <3> HIDE DEF First, prev, T
    <3>8. Total(First(k + 1)) = Total(First(k)) + Dur(l[k + 1]) /\ Total(First(k)) \in Nat
      BY <3>3, <3>4, <1>3
    <3>9. start[l[k + 1]] \in Nat /\ Dur(l[k + 1]) \in Nat /\ End(l[k + 1]) = start[l[k + 1]] + Dur(l[k + 1])
      BY <3>1, <1>1
    <3> QED  BY <3>2, <3>5, <3>6, <3>7, <3>8, <3>9
  <2> HIDE DEF First, prev
  <2> QED  BY <2>1, <2>2
<1>6. Nat \subseteq T
  <2> HIDE DEF T
  <2>1. T \in SUBSET Nat  BY DEF T
  <2> QED  BY <1>4, <1>5, <2>1, SetInduction
<1>7. Total(First(Len(l))) <= laneEnd[w]
  <2> HIDE DEF First, prev
  <2> QED  BY <1>1, <1>2, <1>6
<1>8. ToSet(l) = First(Len(l))  BY <1>1 DEF ToSet
<1> QED  BY <1>7, <1>8 DEF l

\* No lane ends after the makespan.
LEMMA MakespanBounds ==
    ASSUME PlacementOK, WithinSerial
    PROVE  Makespan(laneEnd) \in Nat /\ \A w \in Lanes : laneEnd[w] <= Makespan(laneEnd)
<1> DEFINE X == {0} \cup {laneEnd[w] : w \in Lanes}
<1>1. laneEnd \in [Lanes -> Nat] /\ estimate \in [Tests -> Int]  BY DEF PlacementOK
<1>2. Placed \in SUBSET Tests  BY PlacedFacts DEF PlacementOK
<1>3. Total(Placed) \in Nat  BY <1>1, <1>2, TotalAdd
<1>4. X \in SUBSET Nat /\ 0 \in X /\ \A x \in X : x <= Total(Placed)
  BY <1>1, <1>3 DEF WithinSerial
<1>5. Max(X) \in X /\ \A x \in X : x <= Max(X)
  <2> HIDE DEF X
  <2> QED  BY <1>3, <1>4, BoundedMax
<1>6. \A w \in Lanes : laneEnd[w] \in X  OBVIOUS
<1> HIDE DEF X
<1> QED  BY <1>4, <1>5, <1>6 DEF Makespan, X

\* The workers together are never busy for longer than the makespan each.
LEMMA WorkFits ==
    ASSUME PlacementOK, WithinSerial
    PROVE  Total(Placed) <= Makespan(laneEnd) * Workers
<1> DEFINE On(k) == UNION {ToSet(lanes[w]) : w \in 0 .. k - 1}
           T == {k \in Nat : k <= Workers => Total(On(k)) <= Makespan(laneEnd) * k}
<1>1. estimate \in [Tests -> Int] /\ Workers \in Nat /\ lanes \in [Lanes -> Seq(Tests)]
      /\ laneEnd \in [Lanes -> Nat]
  BY SchedulerAssumption DEF PlacementOK
<1>2. Makespan(laneEnd) \in Nat /\ \A w \in Lanes : laneEnd[w] <= Makespan(laneEnd)
  BY MakespanBounds
<1>3. /\ Total({}) = 0 /\ \A C \in SUBSET Tests : Total(C) \in Nat
  BY <1>1, TotalAdd
<1>4. \A w \in Lanes : ToSet(lanes[w]) \in SUBSET Tests
  BY <1>1 DEF ToSet
<1>5. 0 \in T
  <2>1. On(0) = {}  OBVIOUS
  <2> QED  BY <2>1, <1>2, <1>3
<1>6. ASSUME NEW k \in T PROVE k + 1 \in T
  <2>1. k \in Nat /\ k + 1 \in Nat  OBVIOUS
  <2>2. ASSUME k + 1 <= Workers PROVE Total(On(k + 1)) <= Makespan(laneEnd) * (k + 1)
    <3>1. k \in Lanes /\ k <= Workers /\ \A w \in 0 .. k - 1 : w \in Lanes /\ w # k
      BY <2>1, <2>2, <1>1 DEF Lanes
    <3>2. Total(On(k)) <= Makespan(laneEnd) * k  BY <3>1
    <3>3. On(k) \in SUBSET Tests  BY <3>1, <1>4
    <3>4. On(k) \cap ToSet(lanes[k]) = {}
      BY <3>1, SMTT(30) DEF PlacementOK, OnceEach, ToSet
    <3>5. On(k + 1) = On(k) \cup ToSet(lanes[k])
      <4>1. 0 .. (k + 1) - 1 = (0 .. k - 1) \cup {k}  BY <2>1
      <4> QED  BY <4>1
    <3> HIDE DEF On, T
    <3>6. Total(On(k + 1)) = Total(On(k)) + Total(ToSet(lanes[k]))
      BY <3>1, <3>3, <3>4, <3>5, <1>1, <1>4, TotalUnion
    <3>7. Total(ToSet(lanes[k])) <= laneEnd[k]  BY <3>1, LaneIsBusyWithin
    <3>8. laneEnd[k] \in Nat /\ laneEnd[k] <= Makespan(laneEnd)  BY <3>1, <1>1, <1>2
    <3>9. Total(On(k)) \in Nat /\ Total(ToSet(lanes[k])) \in Nat  BY <3>1, <3>3, <1>3, <1>4
    <3>10. Makespan(laneEnd) * (k + 1) = Makespan(laneEnd) * k + Makespan(laneEnd)
      BY <2>1, <1>2
    <3>11. Makespan(laneEnd) * k \in Nat  BY <2>1, <1>2
    <3> QED  BY <3>2, <3>6, <3>7, <3>8, <3>9, <3>10, <3>11, <1>2
  <2> HIDE DEF On
  <2> QED  BY <2>1, <2>2
<1>7. Nat \subseteq T
  <2> HIDE DEF T
  <2>1. T \in SUBSET Nat  BY DEF T
  <2> QED  BY <1>5, <1>6, <2>1, SetInduction
<1>8. Total(On(Workers)) <= Makespan(laneEnd) * Workers
  <2> HIDE DEF On
  <2> QED  BY <1>1, <1>7
<1>9. On(Workers) = Placed  BY DEF Placed, Lanes
<1> QED  BY <1>8, <1>9

\* What the trial has counted so far; and a serial plan is on one worker.
TrialInv ==
    /\ IsFiniteSet(failures) /\ conflicts = Cardinality(failures)
    /\ overlaps \in Nat /\ conflicts <= overlaps
    /\ kind = "serial" => /\ overlaps = 0 /\ pending = {}
                          /\ \A v \in Lanes \ {0} : ToSet(lanes[v]) = {}

\* Nothing is counted when a scheduler is called.
LEMMA TrialInit == PyInit => TrialInv
<1> SUFFICES ASSUME PyInit PROVE TrialInv  OBVIOUS
<1>1. \A w \in Lanes : ToSet(lanes[w]) = {}  BY DEF PyInit, Init, ToSet
<1>2. IsFiniteSet({}) /\ Cardinality({}) = 0  BY FS_EmptySet
<1>3. failures = {} /\ conflicts = 0 /\ overlaps = 0 /\ pending = {}  BY DEF PyInit
<1>4. IsFiniteSet(failures) /\ conflicts = Cardinality(failures) /\ conflicts <= overlaps /\ overlaps \in Nat
  BY <1>2, <1>3
<1> QED  BY <1>1, <1>3, <1>4 DEF TrialInv

\* A serial plan has no overlap between workers.
LEMMA SerialHasNoOverlap ==
    ASSUME PlacementOK, \A v \in Lanes \ {0} : ToSet(lanes[v]) = {}, NEW s \in Flattened
    PROVE  ConflictingOverlaps(s) = {}
<1>1. ToSet(s) = Placed  BY FlattenedFacts
<1>2. \A i \in DOMAIN s : s[i] \in Placed  BY <1>1 DEF ToSet
<1>3. \A t \in Placed : LaneOf(t) = 0
  <2> TAKE t \in Placed
  <2>1. \E v \in Lanes : t \in ToSet(lanes[v])  BY DEF Placed
  <2>2. LaneOf(t) \in Lanes /\ t \in ToSet(lanes[LaneOf(t)])  BY <2>1 DEF LaneOf
  <2> QED  BY <2>2
<1>4. ASSUME NEW p \in ConflictingOverlaps(s) PROVE FALSE
  <2>1. p[1] \in DOMAIN s /\ p[2] \in DOMAIN s /\ LaneOf(s[p[1]]) # LaneOf(s[p[2]])
    BY DEF ConflictingOverlaps
  <2> QED  BY <2>1, <1>2, <1>3
<1> QED  BY <1>4

\* A draw counts the test that fails, if it had not failed before.
LEMMA DrawCounts ==
    ASSUME TrialInv, DrawOverlap
    PROVE  TrialInv'
<1>1. /\ UNCHANGED <<kind, lanes>> /\ overlaps' = overlaps + 1 /\ pending # {}
  BY DEF DrawOverlap, vars, call, placement
<1>2. IsFiniteSet(failures) /\ conflicts = Cardinality(failures) /\ overlaps \in Nat /\ conflicts <= overlaps
  BY DEF TrialInv
<1>3. conflicts \in Nat  BY <1>2, FS_CardinalityType
<1>4. \/ UNCHANGED <<failures, conflicts>>
      \/ \E x : /\ failures' = failures \cup {x}
                /\ conflicts' = IF x \in failures THEN conflicts ELSE conflicts + 1
  BY DEF DrawOverlap
<1>5. IsFiniteSet(failures') /\ conflicts' = Cardinality(failures') /\ conflicts' <= conflicts + 1
  <2>1. CASE UNCHANGED <<failures, conflicts>>  BY <2>1, <1>2, <1>3
  <2>2. ASSUME NEW x, failures' = failures \cup {x},
               conflicts' = IF x \in failures THEN conflicts ELSE conflicts + 1
        PROVE  IsFiniteSet(failures') /\ conflicts' = Cardinality(failures') /\ conflicts' <= conflicts + 1
    BY <2>2, <1>2, <1>3, FS_AddElement
  <2> QED  BY <2>1, <2>2, <1>4
<1>6. overlaps' \in Nat /\ conflicts' <= overlaps'
  <2>1. conflicts' \in Nat  BY <1>5, FS_CardinalityType
  <2> QED  BY <2>1, <1>1, <1>2, <1>3, <1>5
<1>7. kind # "serial"  BY <1>1 DEF TrialInv
<1> QED  BY <1>1, <1>5, <1>6, <1>7 DEF TrialInv

\* Every step keeps what is said of the trial.
LEMMA TrialStep ==
    ASSUME PyInv, TrialInv, [PyNext]_pyVars
    PROVE  TrialInv'
<1>1. CASE \/ \E w \in Lanes : PyPlace(w)
           \/ \E w \in Lanes, t \in remaining : RandomPlace(w, t)
           \/ \E t \in remaining : SerialPlace(t)
  <2>1. UNCHANGED <<kind, pending, overlaps, failures, conflicts>>
    BY <1>1 DEF PyPlace, RandomPlace, SerialPlace, Put, call, trial
  <2>2. ASSUME kind = "serial", NEW v \in Lanes \ {0} PROVE lanes'[v] = lanes[v]
    <3>1. PICK t \in remaining : Put(t, 0, laneEnd[0])
      BY <1>1, <2>2 DEF PyPlace, RandomPlace, SerialPlace
    <3>2. lanes' = [lanes EXCEPT ![0] = Append(lanes[0], t)]  BY <3>1 DEF Put
    <3> QED  BY <3>2 DEF PyInv, PlacementOK
  <2> QED  BY <2>1, <2>2 DEF TrialInv, ToSet
<1>2. CASE Refine
  <2>1. UNCHANGED <<kind, pending, overlaps, failures, conflicts>>
    BY <1>2 DEF Refine, call, trial
  <2>2. \A w \in Lanes : ToSet(lanes'[w]) = ToSet(lanes[w])  BY <1>2, RefineInv
  <2>3. \A w \in Lanes : ToSet(lanes[w])' = ToSet(lanes'[w])  BY DEF ToSet
  <2> QED  BY <2>1, <2>2, <2>3 DEF TrialInv
<1>3. CASE PyFlatten
  <2>1. UNCHANGED <<kind, lanes, overlaps, failures, conflicts>> /\ \E s \in Flattened : pending' = ConflictingOverlaps(s)
    BY <1>3 DEF PyFlatten, call, placement
  <2>2. kind = "serial" => pending' = {}
    BY <2>1, SerialHasNoOverlap DEF PyInv, TrialInv
  <2> QED  BY <2>1, <2>2 DEF TrialInv
<1>4. CASE DrawOverlap  BY <1>4, DrawCounts
<1>5. CASE PyBegin \/ PyPlaced \/ TrialDone \/ PyReturned \/ UNCHANGED pyVars
  <2>1. UNCHANGED <<kind, lanes, pending, overlaps, failures, conflicts>>
    BY <1>5 DEF PyBegin, PyPlaced, TrialDone, PyReturned, pyVars, vars, call, trial, placement
  <2> QED  BY <2>1 DEF TrialInv
<1> QED  BY <1>1, <1>2, <1>3, <1>4, <1>5, PySteps

\* What is counted and what is planned agree with the reported result.
LEMMA TrialResult ==
    ASSUME PyInv, WithinSerial, TrialInv
    PROVE  TrialIsConsistent
<1>1. PlacementOK  BY DEF PyInv
<1>2. Total(Placed) <= Makespan(laneEnd) * PlannedWorkers
  <2>1. CASE kind # "serial"  BY <2>1, <1>1, WorkFits DEF PlannedWorkers
  <2>2. CASE kind = "serial"
    <3>1. 0 \in Lanes  BY SchedulerAssumption DEF Lanes
    <3>2. Placed = ToSet(lanes[0])
      BY <2>2, <3>1 DEF Placed, TrialInv
    <3>3. Total(ToSet(lanes[0])) <= laneEnd[0]  BY <1>1, <3>1, LaneIsBusyWithin
    <3>4. Makespan(laneEnd) \in Nat /\ laneEnd[0] <= Makespan(laneEnd)  BY <1>1, <3>1, MakespanBounds
    <3>5. laneEnd[0] \in Nat /\ estimate \in [Tests -> Int]  BY <1>1, <3>1 DEF PlacementOK
    <3>6. Total(Placed) \in Nat
      <4>1. Placed \in SUBSET Tests  BY <1>1, PlacedFacts DEF PlacementOK
      <4> QED  BY <3>5, <4>1, TotalAdd
    <3>7. Makespan(laneEnd) * PlannedWorkers = Makespan(laneEnd)  BY <2>2, <3>4 DEF PlannedWorkers
    <3>8. Total(Placed) <= laneEnd[0]  BY <3>2, <3>3
    <3> QED  BY <3>4, <3>5, <3>6, <3>7, <3>8
  <2> QED  BY <2>1, <2>2
<1> QED  BY <1>2 DEF TrialIsConsistent, TrialInv, Total

(***************************************************************************)
(* Theorems.                                                               *)
(***************************************************************************)

\* The inductive invariant holds in every state of every call.
THEOREM PyInvariantHolds == PySpec => []PyInv
  BY PyInitInv, PyStepInv, PTL DEF PySpec

\* ConflictScheduler loses no test and plans none twice, also when the list of
\* tests repeats one; RandomScheduler and SerialScheduler lose none and plan
\* none twice of the distinct tests the benchmark gives them.
THEOREM PyTestsConserved == PySpec => []PyEveryTestOnce
<1>1. PyInv => PyEveryTestOnce
  BY DEF PyInv, Accounted, PlacementOK, OnceEach, PyEveryTestOnce
<1> QED  BY PyInvariantHolds, <1>1, PTL

\* The binary search and the early end of the scan never hide an overlap from
\* the risk of a placement, at the start where a test is tried and at the one
\* it is delayed to.
THEOREM BisectionComplete == PySpec => []BisectionSeesEveryOverlap
<1>1. PyInv => BisectionSeesEveryOverlap
  <2> SUFFICES ASSUME PyInv, NEW w \in Lanes, NEW t \in remaining,
                      NEW s \in {laneEnd[w]} \cup {End(o) : o \in OverlappingAt(laneEnd[w], w)},
                      NEW v \in Lanes
               PROVE  ScannedOverlaps(lanes[v], s, s + Dur(t))
                        = {o \in ToSet(lanes[v]) : Overlap(s, s + Dur(t), o) > 0}
    BY DEF BisectionSeesEveryOverlap
  <2>1. PlacementOK /\ t \in Tests  BY DEF PyInv, PyTypes
  <2>2. s \in Nat
    <3>1. CASE s = laneEnd[w]  BY <2>1, <3>1 DEF PlacementOK
    <3>2. ASSUME NEW o \in OverlappingAt(laneEnd[w], w) PROVE End(o) \in Nat
      <4>1. o \in Tests  BY <2>1 DEF OverlappingAt, OtherLaneTests, ToSet, PlacementOK
      <4> QED  BY <2>1, <4>1, DurPositive DEF End, PlacementOK
    <3> QED  BY <3>1, <3>2
  <2>3. s + Dur(t) \in Nat  BY <2>1, <2>2, DurPositive DEF PlacementOK
  <2> QED  BY <2>1, <2>2, <2>3, ScanIsComplete
<1> QED  BY PyInvariantHolds, <1>1, PTL

\* No plan is longer than the serial one, in any phase, and while tests are
\* placed every wait ends with a test.
THEOREM WaitsAreBounded == PySpec => [](IdleInv /\ WithinSerial)
<1>1. PyInit => IdleInv /\ WithinSerial
  <2> SUFFICES ASSUME PyInit PROVE IdleInv /\ WithinSerial  OBVIOUS
  <2>1. PlacementOK /\ phase = "index" /\ \A w \in Lanes : laneEnd[w] = 0
    BY PyInitInv DEF PyInit, Init, PyInv
  <2>2. Placed \in SUBSET Tests /\ estimate \in [Tests -> Int]
    BY <2>1, PlacedFacts DEF PlacementOK
  <2>3. Total(Placed) \in Nat  BY <2>2, TotalAdd
  <2> QED  BY <2>1, <2>3 DEF IdleInv, WithinSerial
<1>2. PyInv /\ IdleInv /\ WithinSerial /\ [PyNext]_pyVars => IdleInv' /\ WithinSerial'
  BY PyStepIdle
<1> QED  BY PyInvariantHolds, <1>1, <1>2, PTL DEF PySpec

\* A Python scheduler leaves a worker idle only until a test that ran on
\* another worker ends, and never plans longer than the serial schedule.
THEOREM WaitsEndWithATest == PySpec => []IdleEndsWithATest
<1>1. PyInv /\ IdleInv /\ WithinSerial => IdleEndsWithATest
  <2> SUFFICES ASSUME PyInv, IdleInv, WithinSerial PROVE IdleEndsWithATest  OBVIOUS
  <2>1. Makespan(laneEnd) <= MapThenSumSet(Dur, Placed)
    BY MakespanWithinSerial DEF PyInv, PlacementOK
  <2> QED  BY <2>1 DEF IdleInv, EndsWithATest, IdleEndsWithATest
<1> QED  BY PyInvariantHolds, WaitsAreBounded, <1>1, PTL

\* What simulate_schedule reports of a plan is consistent: every failed test
\* is counted once and needs an overlap, a serial plan has no conflict, and
\* the planned workers are never busy for longer than the makespan each.
THEOREM TrialsConsistent == PySpec => []TrialIsConsistent
<1>1. PyInv /\ TrialInv /\ [PyNext]_pyVars => TrialInv'  BY TrialStep
<1>2. PyInv /\ WithinSerial /\ TrialInv => TrialIsConsistent  BY TrialResult
<1> QED  BY PyInvariantHolds, WaitsAreBounded, TrialInit, <1>1, <1>2, PTL DEF PySpec
=============================================================================
