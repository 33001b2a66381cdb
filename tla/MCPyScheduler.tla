--------------------------- MODULE MCPyScheduler ---------------------------
(***************************************************************************)
(* Small instances of PyScheduler; weights and thresholds are those of     *)
(* POLICIES.                                                               *)
(***************************************************************************)
EXTENDS PyScheduler

SafeWeight == <<15, 2>>
SafeThreshold == <<17, 25>>
SafeBias == <<1, 2>>

FourTests == 1 .. 4
PairsOf(S) == {p \in SUBSET S : Cardinality(p) = 2}

\* The predictions of a set of pairs, and lists with two predictions for one
\* pair or a probability out of range.
Certain(pairs) == SetToSeq({[pair |-> p, probability |-> Unit] : p \in pairs})
FourLists ==
    {Certain(pairs) : pairs \in SUBSET PairsOf(FourTests)} \cup
    { <<[pair |-> {1, 2}, probability |-> Unit], [pair |-> {1, 2}, probability |-> 0]>>,
      <<[pair |-> {1, 2}, probability |-> 0], [pair |-> {1, 2}, probability |-> Unit + 1]>> }

FourInputs == {<<1, 2, 3, 4>>, <<2, 1, 2, 3>>, <<>>}
Truths == {{{1, 2}, {2, 3}, {3, 4}}}

\* Tests are interchangeable, so estimates are taken in ascending order.
FourEstimates ==
    {f \in [FourTests -> {1, 2}] : \A a, b \in FourTests : a < b => f[a] <= f[b]}
    \cup {[t \in FourTests |-> t - 1]}
=============================================================================
