---------------------------- MODULE MCScheduler ----------------------------
(***************************************************************************)
(* A small instance of Scheduler under the balanced policy.                *)
(***************************************************************************)
EXTENDS Scheduler

BalancedWeight == <<2, 1>>
BalancedThreshold == <<9, 10>>
BalancedBias == <<1, 1>>

ThreeTests == 1 .. 3

PairsOf(S) == {p \in SUBSET S : Cardinality(p) = 2}
Complete(S, probabilities) ==
    {{[pair |-> q, probability |-> f[q]] : q \in PairsOf(S)} : f \in [PairsOf(S) -> probabilities]}

\* Two predictions for one pair, a self pair, an impossible probability.
OddPredictions ==
    { {},
      {[pair |-> {1, 2}, probability |-> 1], [pair |-> {1, 2}, probability |-> 4]},
      {[pair |-> {1}, probability |-> 1]},
      {[pair |-> {1, 2}, probability |-> 5]} }

ThreePredictions == Complete(ThreeTests, {0, 3, 4}) \cup OddPredictions

ThreeInputs == {<<1, 2, 3>>, <<1, 1>>, <<>>}

\* Test IDs are interchangeable and all tie-breaks and predictions are
\* enumerated, so estimates are taken in ascending order only.
Ascending(T, durations) == {f \in [T -> durations] : \A a, b \in T : a < b => f[a] <= f[b]}

ThreeEstimates == Ascending(ThreeTests, {0, 2, 4}) \cup {[t \in ThreeTests |-> IF t = 1 THEN -1 ELSE 2]}
=============================================================================
