-------------------------- MODULE SchedulerProofs --------------------------
(***************************************************************************)
(* Proofs about module Scheduler, for every number of workers, every set   *)
(* of tests, durations, predictions and parameters.                        *)
(***************************************************************************)
EXTENDS Scheduler, FiniteSetTheorems, TLAPS

(***************************************************************************)
(* Induction over the naturals, stated about sets.                         *)
(***************************************************************************)

\* Every nonempty set of naturals has a least element.
LEMMA LeastNat ==
    ASSUME NEW T \in SUBSET Nat, T # {}
    PROVE  \E m \in T : \A n \in T : m <= n
<1> DEFINE R == {ss \in Nat \X Nat : ss[1] < ss[2]}
<1>1. IsWellFoundedOn(R, Nat)
  BY NatLessThanWellFounded DEF OpToRel
<1>2. PICK m \in T : \A n \in T : ~(<<n, m>> \in R)
  <2> HIDE DEF R
  <2> QED  BY <1>1, WFMin, Zenon
<1>3. \A n \in T : m <= n
  <2> TAKE n \in T
  <2>1. n \in Nat /\ m \in Nat  OBVIOUS
  <2>2. ASSUME n < m PROVE FALSE
    <3>1. <<n, m>> \in Nat \X Nat  BY <2>1
    <3>2. <<n, m>>[1] < <<n, m>>[2]  BY <2>2
    <3>3. <<n, m>> \in R  BY <3>1, <3>2, Zenon
    <3> QED  BY <3>3, <1>2
  <2> QED  BY <2>1, <2>2
<1> QED  BY <1>3

\* A set that holds 0 and the successor of each of its elements holds Nat.
LEMMA SetInduction ==
    ASSUME NEW T \in SUBSET Nat, 0 \in T, \A n \in T : n + 1 \in T
    PROVE  Nat \subseteq T
<1>1. ASSUME Nat \ T # {} PROVE FALSE
  <2>1. PICK m \in Nat \ T : \A n \in Nat \ T : m <= n
    <3>1. Nat \ T \in SUBSET Nat  OBVIOUS
    <3> QED  BY <1>1, <3>1, LeastNat
  <2>2. m - 1 \in Nat /\ m - 1 < m  BY <2>1
  <2>3. m - 1 \in T  BY <2>1, <2>2
  <2>4. (m - 1) + 1 = m  BY <2>1
  <2> QED  BY <2>1, <2>3, <2>4
<1> QED  BY <1>1

(***************************************************************************)
(* Durations, swaps and reflow.                                            *)
(***************************************************************************)

\* Whatever was recorded, a test is planned with a positive duration.
LEMMA DurPositive ==
    ASSUME estimate \in [Tests -> Int], NEW t \in Tests
    PROVE  Dur(t) \in Nat /\ Dur(t) > 0
  BY DEF Dur

\* A swap permutes the lane, and a second one restores it.
LEMMA SwapFacts ==
    ASSUME NEW l \in Seq(Tests), NEW i \in 1 .. Len(l), i < Len(l)
    PROVE  /\ Swap(l, i) \in Seq(Tests)
           /\ Len(Swap(l, i)) = Len(l)
           /\ DOMAIN Swap(l, i) = DOMAIN l
           /\ \A k \in 1 .. Len(l) : Swap(l, i)[k] = IF k = i THEN l[i + 1]
                                                     ELSE IF k = i + 1 THEN l[i] ELSE l[k]
           /\ Swap(Swap(l, i), i) = l
           /\ ToSet(Swap(l, i)) = ToSet(l)
           /\ IsInjective(l) => IsInjective(Swap(l, i))
<1> DEFINE m == Swap(l, i)
<1>1. i \in Nat /\ i + 1 \in 1 .. Len(l) /\ i # i + 1 /\ DOMAIN l = 1 .. Len(l)  OBVIOUS
<1>2. m = [k \in 1 .. Len(l) |-> IF k = i THEN l[i + 1] ELSE IF k = i + 1 THEN l[i] ELSE l[k]]
  BY <1>1 DEF Swap
<1>3. m \in Seq(Tests) /\ Len(m) = Len(l) /\ DOMAIN m = DOMAIN l
  <2>1. \A k \in 1 .. Len(l) : l[k] \in Tests  BY <1>1
  <2>2. m \in [1 .. Len(l) -> Tests]  BY <1>1, <1>2, <2>1
  <2>3. m \in Seq(Tests)  BY <2>2
  <2> QED  BY <2>2, <2>3
<1>4. Swap(m, i) = l
  <2>1. Swap(m, i) = [k \in 1 .. Len(l) |-> IF k = i THEN m[i + 1] ELSE IF k = i + 1 THEN m[i] ELSE m[k]]
    BY <1>1, <1>2, <1>3 DEF Swap
  <2>2. l = [k \in 1 .. Len(l) |-> l[k]]  BY <1>1
  <2> QED  BY <2>1, <2>2, <1>1, <1>2
<1>5. ToSet(m) = ToSet(l)
  BY <1>1, <1>2, <1>3 DEF ToSet
<1>6. IsInjective(l) => IsInjective(m)
  BY <1>1, <1>2, <1>3 DEF IsInjective
<1> QED  BY <1>2, <1>3, <1>4, <1>5, <1>6

\* The recursive definition of Offsets has the solution one expects.
LEMMA OffsetsRecursion ==
    ASSUME estimate \in [Tests -> Int], NEW l \in Seq(Tests)
    PROVE  /\ Offsets(l) \in [0 .. Len(l) -> Nat]
           /\ Offsets(l)[0] = 0
           /\ \A i \in 1 .. Len(l) : Offsets(l)[i] = Offsets(l)[i - 1] + Dur(l[i])
<1> DEFINE Sol(f, n) == /\ f \in [0 .. n -> Nat]
                        /\ f[0] = 0
                        /\ \A i \in 1 .. n : f[i] = f[i - 1] + Dur(l[i])
           Has(n) == \E f \in [0 .. n -> Nat] : Sol(f, n)
           T == {n \in Nat : n <= Len(l) => Has(n)}
<1>0. Len(l) \in Nat /\ \A i \in 1 .. Len(l) : l[i] \in Tests /\ Dur(l[i]) \in Nat
  BY DurPositive
<1>1. 0 \in T
  <2>1. [j \in 0 .. 0 |-> 0] \in [0 .. 0 -> Nat]  OBVIOUS
  <2>2. Sol([j \in 0 .. 0 |-> 0], 0)  OBVIOUS
  <2> QED  BY <2>1, <2>2
<1>2. ASSUME NEW n \in T PROVE n + 1 \in T
  <2>1. n \in Nat  OBVIOUS
  <2>2. ASSUME n + 1 <= Len(l) PROVE Has(n + 1)
    <3>1. PICK f \in [0 .. n -> Nat] : Sol(f, n)  BY <2>1, <2>2, <1>0, SMTT(30)
    <3> DEFINE g == [j \in 0 .. n + 1 |-> IF j = n + 1 THEN f[n] + Dur(l[n + 1]) ELSE f[j]]
    <3>2. Dur(l[n + 1]) \in Nat /\ f[n] \in Nat  BY <2>1, <2>2, <1>0
    <3>3. g \in [0 .. n + 1 -> Nat]  BY <2>1, <3>1, <3>2, SMTT(30)
    <3>4. g[0] = 0  BY <2>1, <3>1
    <3>5. \A i \in 1 .. n + 1 : g[i] = g[i - 1] + Dur(l[i])
      <4> TAKE i \in 1 .. n + 1
      <4>1. CASE i = n + 1
        <5>1. i - 1 = n /\ n \in 0 .. n + 1 /\ n # n + 1  BY <4>1, <2>1
        <5> QED  BY <4>1, <5>1
      <4>2. CASE i # n + 1
        <5>1. i \in 1 .. n /\ i - 1 \in 0 .. n  BY <4>2, <2>1
        <5>2. g[i] = f[i] /\ g[i - 1] = f[i - 1]  BY <5>1, <2>1
        <5> QED  BY <5>1, <5>2, <3>1
      <4> QED  BY <4>1, <4>2
    <3> QED  BY <3>3, <3>4, <3>5
  <2> HIDE DEF Has
  <2> QED  BY <2>1, <2>2
<1>3. Nat \subseteq T
  <2> HIDE DEF T
  <2>1. T \in SUBSET Nat  BY DEF T
  <2> QED  BY <1>1, <1>2, <2>1, SetInduction
<1>4. PICK f \in [0 .. Len(l) -> Nat] : Sol(f, Len(l))
  <2>1. Has(Len(l))
    <3> HIDE DEF Has
    <3> QED  BY <1>0, <1>3
  <2> QED  BY <2>1
<1> DEFINE D(h) == h = [i \in 0 .. Len(l) |-> IF i = 0 THEN 0 ELSE h[i - 1] + Dur(l[i])]
<1>5. D(f)
  BY <1>0, <1>4
<1>6. D(Offsets(l))
  <2>1. Offsets(l) = CHOOSE h : D(h)  BY DEF Offsets
  <2> HIDE DEF D
  <2> QED  BY <2>1, <1>5
<1> DEFINE o == Offsets(l)
<1>7. o = [i \in 0 .. Len(l) |-> IF i = 0 THEN 0 ELSE o[i - 1] + Dur(l[i])]
  BY <1>6
<1> HIDE DEF o, T
<1>8. o[0] = 0 /\ \A i \in 1 .. Len(l) : o[i] = o[i - 1] + Dur(l[i])
  <2>1. o[0] = 0  BY <1>7, <1>0
  <2>2. \A i \in 1 .. Len(l) : o[i] = o[i - 1] + Dur(l[i])
    <3> TAKE i \in 1 .. Len(l)
    <3>1. i \in 0 .. Len(l) /\ i # 0  BY <1>0
    <3> QED  BY <1>7, <3>1
  <2> QED  BY <2>1, <2>2
<1>9. \A n \in 0 .. Len(l) : o[n] \in Nat
  <2> DEFINE U == {n \in Nat : n <= Len(l) => o[n] \in Nat}
  <2>1. 0 \in U  BY <1>8
  <2>2. ASSUME NEW n \in U PROVE n + 1 \in U
    <3>1. n \in Nat  OBVIOUS
    <3>2. ASSUME n + 1 <= Len(l) PROVE o[n + 1] \in Nat
      <4>1. n + 1 \in 1 .. Len(l) /\ (n + 1) - 1 = n /\ o[n] \in Nat  BY <3>1, <3>2, <1>0
      <4> QED  BY <4>1, <1>8, <1>0
    <3> QED  BY <3>1, <3>2
  <2>3. Nat \subseteq U
    <3> HIDE DEF U
    <3>1. U \in SUBSET Nat  BY DEF U
    <3> QED  BY <2>1, <2>2, <3>1, SetInduction
  <2> QED  BY <2>3, <1>0
<1>10. o \in [0 .. Len(l) -> Nat]
  <2>1. o = [i \in 0 .. Len(l) |-> o[i]]  BY <1>7
  <2> QED  BY <2>1, <1>9
<1> QED  BY <1>8, <1>10 DEF o

\* A swap does not change when a lane without gaps ends.
LEMMA SwapOffsets ==
    ASSUME estimate \in [Tests -> Int], NEW l \in Seq(Tests), NEW i \in 1 .. Len(l), i < Len(l)
    PROVE  Offsets(Swap(l, i))[Len(l)] = Offsets(l)[Len(l)]
<1> DEFINE m == Swap(l, i)
           o == Offsets(l)
           q == Offsets(m)
           T == {n \in Nat : n <= Len(l) => q[n] = IF n = i THEN o[i - 1] + Dur(l[i + 1]) ELSE o[n]}
<1>1. /\ m \in Seq(Tests) /\ Len(m) = Len(l)
      /\ \A k \in 1 .. Len(l) : m[k] = IF k = i THEN l[i + 1] ELSE IF k = i + 1 THEN l[i] ELSE l[k]
  BY SwapFacts
<1>2. /\ Len(l) \in Nat /\ i \in Nat /\ i # 0 /\ i + 1 \in 1 .. Len(l)
      /\ \A k \in 1 .. Len(l) : Dur(l[k]) \in Nat
  BY DurPositive, SMTT(30)
<1> HIDE DEF m
<1>3. /\ o \in [0 .. Len(l) -> Nat] /\ o[0] = 0
      /\ \A k \in 1 .. Len(l) : o[k] = o[k - 1] + Dur(l[k])
  BY OffsetsRecursion
<1>4. q[0] = 0 /\ \A k \in 1 .. Len(l) : q[k] = q[k - 1] + Dur(m[k])
  BY <1>1, OffsetsRecursion
<1> HIDE DEF o, q
<1>5. 0 \in T
  BY <1>2, <1>3, <1>4
<1>6. ASSUME NEW n \in T PROVE n + 1 \in T
  <2>1. n \in Nat  OBVIOUS
  <2>2. ASSUME n + 1 <= Len(l)
        PROVE  q[n + 1] = IF n + 1 = i THEN o[i - 1] + Dur(l[i + 1]) ELSE o[n + 1]
    <3>1. /\ n + 1 \in 1 .. Len(l) /\ (n + 1) - 1 = n
          /\ q[n] = IF n = i THEN o[i - 1] + Dur(l[i + 1]) ELSE o[n]
      BY <2>1, <2>2, <1>2
    <3>2. q[n + 1] = q[n] + Dur(m[n + 1]) /\ o[n + 1] = o[n] + Dur(l[n + 1])
      BY <3>1, <1>3, <1>4
    <3>3. CASE n + 1 = i
      <4>1. n = i - 1 /\ n # i /\ m[n + 1] = l[i + 1]  BY <3>3, <3>1, <2>1, <1>1, <1>2
      <4> QED  BY <3>1, <3>2, <3>3, <4>1
    <3>4. CASE n = i
      <4>1. n + 1 # i /\ m[n + 1] = l[i]  BY <3>4, <3>1, <2>1, <1>1, <1>2, SMTT(30)
      <4>2. o[i] = o[i - 1] + Dur(l[i])  BY <1>3
      <4>3. i - 1 \in 0 .. Len(l)  BY <1>2
      <4>4. o[i - 1] \in Nat /\ Dur(l[i]) \in Nat /\ Dur(l[i + 1]) \in Nat  BY <1>2, <1>3, <4>3
      <4>5. q[n + 1] = (o[i - 1] + Dur(l[i + 1])) + Dur(l[i])  BY <3>1, <3>2, <3>4, <4>1
      <4>6. o[n + 1] = (o[i - 1] + Dur(l[i])) + Dur(l[i + 1])  BY <3>2, <3>4, <4>2
      <4> QED  BY <4>1, <4>4, <4>5, <4>6, SMTT(30)
    <3>5. CASE n # i /\ n + 1 # i
      <4>1. n + 1 # i + 1  BY <3>5, <2>1, <1>2
      <4>2. m[n + 1] = l[n + 1]  BY <3>5, <3>1, <4>1, <1>1
      <4> QED  BY <3>1, <3>2, <3>5, <4>2
    <3> QED  BY <3>3, <3>4, <3>5
  <2> QED  BY <2>1, <2>2
<1>7. Nat \subseteq T
  <2> HIDE DEF T
  <2>1. T \in SUBSET Nat  BY DEF T
  <2> QED  BY <1>5, <1>6, <2>1, SetInduction
<1>8. q[Len(l)] = o[Len(l)]
  <2>1. Len(l) # i  BY <1>2
  <2>2. Len(l) \in T
    <3> HIDE DEF T
    <3> QED  BY <1>2, <1>7
  <2> QED  BY <2>1, <2>2, <1>2
<1> QED  BY <1>8 DEF o, q, m

\* Reflow gives the tests of the lane back-to-back starts and leaves the
\* starts of all other tests alone.
LEMMA ReflowFacts ==
    ASSUME estimate \in [Tests -> Int], NEW l \in Seq(Tests), IsInjective(l),
           NEW st \in [Tests -> Nat]
    PROVE  /\ Reflow(l, st) \in [Tests -> Nat]
           /\ \A i \in 1 .. Len(l) : Reflow(l, st)[l[i]] = Offsets(l)[i - 1]
           /\ \A t \in Tests \ ToSet(l) : Reflow(l, st)[t] = st[t]
<1> DEFINE at(t) == CHOOSE i \in DOMAIN l : l[i] = t
           o == Offsets(l)
<1>1. DOMAIN l = 1 .. Len(l) /\ Len(l) \in Nat /\ \A i \in 1 .. Len(l) : l[i] \in Tests
  OBVIOUS
<1>2. o \in [0 .. Len(l) -> Nat]  BY OffsetsRecursion
<1>3. \A i \in 1 .. Len(l) : at(l[i]) = i
  BY <1>1 DEF IsInjective
<1> HIDE DEF at, o
<1>4. \A i \in 1 .. Len(l) : o[i - 1] \in Nat
  <2> TAKE i \in 1 .. Len(l)
  <2>1. i - 1 \in 0 .. Len(l)  BY <1>1
  <2> QED  BY <1>2, <2>1
<1>5. Reflow(l, st) = [t \in Tests |-> IF \E i \in DOMAIN l : l[i] = t THEN o[at(t) - 1] ELSE st[t]]
  BY DEF Reflow, at, o
<1>6. \A i \in 1 .. Len(l) : Reflow(l, st)[l[i]] = o[i - 1]
  BY <1>1, <1>3, <1>5
<1>7. \A t \in Tests \ ToSet(l) : Reflow(l, st)[t] = st[t]
  BY <1>1, <1>5 DEF ToSet
<1>8. \A t \in Tests : Reflow(l, st)[t] \in Nat
  <2> TAKE t \in Tests
  <2>1. CASE t \in ToSet(l)
    <3>1. PICK i \in 1 .. Len(l) : l[i] = t  BY <2>1, <1>1 DEF ToSet
    <3> QED  BY <3>1, <1>4, <1>6
  <2>2. CASE t \notin ToSet(l)  BY <2>2, <1>7
  <2> QED  BY <2>1, <2>2
<1>9. Reflow(l, st) \in [Tests -> Nat]
  <2>1. Reflow(l, st) = [t \in Tests |-> Reflow(l, st)[t]]  BY <1>5
  <2> QED  BY <2>1, <1>8
<1> QED  BY <1>6, <1>7, <1>9 DEF o

(***************************************************************************)
(* Sums of durations.                                                      *)
(***************************************************************************)

\* What running the tests of S one after the other takes.
Total(S) == MapThenSumSet(Dur, S)

\* The element a sum takes first.
AnyOf(s) == CHOOSE x \in s : TRUE

\* Taking an element out of a nonempty set of tests leaves a smaller one.
LEMMA TakeOut ==
    ASSUME NEW s \in SUBSET Tests, NEW x \in s
    PROVE  /\ IsFiniteSet(s) /\ Cardinality(s) \in Nat
           /\ s \ {x} \in SUBSET Tests
           /\ Cardinality(s \ {x}) \in Nat /\ Cardinality(s \ {x}) = Cardinality(s) - 1
<1>1. IsFiniteSet(s)  BY FS_Subset, SchedulerAssumption
<1>2. Cardinality(s) \in Nat  BY <1>1, FS_CardinalityType
<1>3. IsFiniteSet(s \ {x}) /\ Cardinality(s \ {x}) = Cardinality(s) - 1
  BY <1>1, FS_RemoveElement
<1>4. Cardinality(s \ {x}) \in Nat  BY <1>3, FS_CardinalityType
<1> QED  BY <1>1, <1>2, <1>3, <1>4

\* The fold behind the sum has the solution one expects.
LEMMA TotalRecursion ==
    ASSUME estimate \in [Tests -> Int]
    PROVE  \E H \in [SUBSET Tests -> Nat] :
              /\ H[{}] = 0
              /\ \A s \in SUBSET Tests : s # {} => H[s] = Dur(AnyOf(s)) + H[s \ {AnyOf(s)}]
              /\ \A S \in SUBSET Tests : Total(S) = H[S]
<1> DEFINE P == SUBSET Tests
           Eqn(h, s) == h[s] = Dur(AnyOf(s)) + h[s \ {AnyOf(s)}]
           Sol(h, n) == /\ h[{}] = 0
                        /\ \A s \in P : s # {} /\ Cardinality(s) <= n => Eqn(h, s)
           Has(n) == \E h \in [P -> Nat] : Sol(h, n)
           T == {n \in Nat : Has(n)}
<1>1. \A s \in P : IsFiniteSet(s) /\ Cardinality(s) \in Nat /\ Cardinality(s) <= Cardinality(Tests)
  BY FS_Subset, FS_CardinalityType, SchedulerAssumption
<1>2. ASSUME NEW s \in P, s # {}
      PROVE  /\ AnyOf(s) \in s /\ Dur(AnyOf(s)) \in Nat
             /\ s \ {AnyOf(s)} \in P /\ Cardinality(s \ {AnyOf(s)}) = Cardinality(s) - 1
  <2>1. AnyOf(s) \in s  BY <1>2 DEF AnyOf
  <2> QED  BY <2>1, TakeOut, DurPositive
<1>3. {} \in P /\ Cardinality({}) = 0 /\ \A s \in P : Cardinality(s) = 0 => s = {}
  BY <1>1, FS_EmptySet
<1>4. 0 \in T
  <2>1. [s \in P |-> 0] \in [P -> Nat]  OBVIOUS
  <2>2. ASSUME NEW s \in P, s # {}, Cardinality(s) <= 0 PROVE FALSE
    BY <2>2, <1>1, <1>3
  <2>3. Sol([s \in P |-> 0], 0)  BY <1>3, <2>2
  <2> QED  BY <2>1, <2>3
<1>5. ASSUME NEW n \in T PROVE n + 1 \in T
  <2>1. PICK h \in [P -> Nat] : Sol(h, n)  OBVIOUS
  <2> DEFINE g == [s \in P |-> IF s # {} /\ Cardinality(s) = n + 1
                               THEN Dur(AnyOf(s)) + h[s \ {AnyOf(s)}] ELSE h[s]]
  <2>2. g \in [P -> Nat]
    <3>1. \A s \in P : s # {} => Dur(AnyOf(s)) + h[s \ {AnyOf(s)}] \in Nat
      <4> TAKE s \in P
      <4> HAVE s # {}
      <4>1. Dur(AnyOf(s)) \in Nat /\ s \ {AnyOf(s)} \in P  BY <1>2
      <4>2. h[s \ {AnyOf(s)}] \in Nat  BY <2>1, <4>1
      <4> QED  BY <4>1, <4>2
    <3>2. \A s \in P : h[s] \in Nat  BY <2>1
    <3> QED  BY <3>1, <3>2
  <2>3. ASSUME NEW s \in P, s # {}, Cardinality(s) <= n + 1 PROVE Eqn(g, s)
    <3>1. /\ s \ {AnyOf(s)} \in P /\ Cardinality(s \ {AnyOf(s)}) = Cardinality(s) - 1
          /\ Cardinality(s) \in Nat /\ n \in Nat
      BY <2>3, <1>1, <1>2
    <3>2. Cardinality(s \ {AnyOf(s)}) # n + 1  BY <2>3, <3>1
    <3>3. g[s \ {AnyOf(s)}] = h[s \ {AnyOf(s)}]  BY <3>1, <3>2
    <3>4. CASE Cardinality(s) = n + 1
      <4>1. g[s] = Dur(AnyOf(s)) + h[s \ {AnyOf(s)}]  BY <2>3, <3>4
      <4> QED  BY <3>3, <4>1
    <3>5. CASE Cardinality(s) # n + 1
      <4>1. Cardinality(s) <= n  BY <2>3, <3>1, <3>5
      <4>2. g[s] = h[s] /\ Eqn(h, s)  BY <2>1, <2>3, <3>5, <4>1
      <4> HIDE DEF g
      <4> QED  BY <3>3, <4>2
    <3> QED  BY <3>4, <3>5
  <2>4. g[{}] = 0  BY <1>3, <2>1
  <2> HIDE DEF g, Eqn
  <2> QED  BY <2>2, <2>3, <2>4
<1>6. Nat \subseteq T
  <2> HIDE DEF T
  <2>1. T \in SUBSET Nat  BY DEF T
  <2> QED  BY <1>4, <1>5, <2>1, SetInduction
<1>7. PICK H \in [P -> Nat] : Sol(H, Cardinality(Tests))
  <2>1. Cardinality(Tests) \in Nat  BY FS_CardinalityType, SchedulerAssumption
  <2> QED  BY <2>1, <1>6
<1>8. \A s \in P : s # {} => Eqn(H, s)
  BY <1>1, <1>7
<1>9. ASSUME NEW S \in P PROVE Total(S) = H[S]
  <2> DEFINE D(k) == k = [s \in SUBSET S |-> IF s = {} THEN 0 ELSE Dur(AnyOf(s)) + k[s \ {AnyOf(s)}]]
  <2>1. Total(S) = (CHOOSE k : D(k))[S]
    BY DEF Total, MapThenSumSet, MapThenFoldSet, AnyOf
  <2>2. D([s \in SUBSET S |-> H[s]])
    <3> DEFINE k == [s \in SUBSET S |-> H[s]]
    <3>1. ASSUME NEW s \in SUBSET S
          PROVE  H[s] = IF s = {} THEN 0 ELSE Dur(AnyOf(s)) + k[s \ {AnyOf(s)}]
      <4>1. CASE s = {}  BY <4>1, <1>7
      <4>2. CASE s # {}
        <5>1. s \in P /\ s \ {AnyOf(s)} \in SUBSET S  OBVIOUS
        <5>2. Eqn(H, s)  BY <4>2, <5>1, <1>8
        <5> QED  BY <4>2, <5>1, <5>2
      <4> QED  BY <4>1, <4>2
    <3> QED  BY <3>1
  <2>3. PICK k : k = CHOOSE j : D(j)  OBVIOUS
  <2>4. D(k)
    <3> HIDE DEF D
    <3> QED  BY <2>2, <2>3
  <2> DEFINE U == {n \in Nat : \A s \in SUBSET S : Cardinality(s) = n => k[s] = H[s]}
  <2>5. k[{}] = 0 /\ \A s \in SUBSET S : s # {} => k[s] = Dur(AnyOf(s)) + k[s \ {AnyOf(s)}]
    <3>1. {} \in SUBSET S  OBVIOUS
    <3>2. k[{}] = 0  BY <2>4, <3>1
    <3> QED  BY <2>4, <3>2
  <2>6. 0 \in U
    BY <1>3, <1>7, <2>5
  <2>7. ASSUME NEW n \in U PROVE n + 1 \in U
    <3>1. ASSUME NEW s \in SUBSET S, Cardinality(s) = n + 1 PROVE k[s] = H[s]
      <4>1. s \in P /\ n \in Nat  OBVIOUS
      <4>2. s # {}
        <5> HIDE DEF U
        <5>1. n + 1 # 0  BY <4>1
        <5> QED  BY <3>1, <5>1, <1>3
      <4>3. s \ {AnyOf(s)} \in SUBSET S /\ Cardinality(s \ {AnyOf(s)}) = n
        BY <3>1, <4>1, <4>2, <1>2
      <4>4. k[s \ {AnyOf(s)}] = H[s \ {AnyOf(s)}]  BY <4>3
      <4>5. k[s] = Dur(AnyOf(s)) + k[s \ {AnyOf(s)}]  BY <4>2, <2>5
      <4>6. H[s] = Dur(AnyOf(s)) + H[s \ {AnyOf(s)}]  BY <4>1, <4>2, <1>8
      <4> QED  BY <4>4, <4>5, <4>6
    <3>2. n + 1 \in Nat  OBVIOUS
    <3> QED  BY <3>1, <3>2
  <2>8. Nat \subseteq U
    <3> HIDE DEF U
    <3>1. U \in SUBSET Nat  BY DEF U
    <3> QED  BY <2>6, <2>7, <3>1, SetInduction
  <2>9. k[S] = H[S]
    <3>1. S \in SUBSET S /\ Cardinality(S) \in Nat  BY <1>1
    <3>2. Cardinality(S) \in U
      <4> HIDE DEF U
      <4> QED  BY <2>8, <3>1
    <3> QED  BY <3>1, <3>2
  <2> HIDE DEF D
  <2> QED  BY <2>1, <2>3, <2>9
<1> HIDE DEF T
<1> QED  BY <1>7, <1>8, <1>9

\* One more test adds its duration, whichever order the sum is taken in.
LEMMA TotalAdd ==
    ASSUME estimate \in [Tests -> Int]
    PROVE  /\ Total({}) = 0
           /\ \A A \in SUBSET Tests : Total(A) \in Nat
           /\ \A A \in SUBSET Tests : \A t \in Tests \ A : Total(A \cup {t}) = Total(A) + Dur(t)
<1>1. PICK H \in [SUBSET Tests -> Nat] :
              /\ H[{}] = 0
              /\ \A s \in SUBSET Tests : s # {} => H[s] = Dur(AnyOf(s)) + H[s \ {AnyOf(s)}]
              /\ \A S \in SUBSET Tests : Total(S) = H[S]
  BY TotalRecursion
<1> DEFINE Adds(A) == \A t \in Tests \ A : H[A \cup {t}] = H[A] + Dur(t)
           T == {n \in Nat : \A A \in SUBSET Tests : Cardinality(A) = n => Adds(A)}
<1>2. ASSUME NEW A \in SUBSET Tests, NEW t \in Tests \ A, AnyOf(A \cup {t}) = t
      PROVE  H[A \cup {t}] = H[A] + Dur(t)
  <2>1. A \cup {t} \in SUBSET Tests /\ A \cup {t} # {} /\ (A \cup {t}) \ {t} = A
    OBVIOUS
  <2>2. H[A \cup {t}] = Dur(t) + H[A]  BY <1>1, <1>2, <2>1
  <2>3. Dur(t) \in Nat /\ H[A] \in Nat  BY DurPositive
  <2> QED  BY <2>2, <2>3
<1>3. 0 \in T
  <2>1. ASSUME NEW A \in SUBSET Tests, Cardinality(A) = 0, NEW t \in Tests \ A
        PROVE  H[A \cup {t}] = H[A] + Dur(t)
    <3>1. IsFiniteSet(A)  BY FS_Subset, SchedulerAssumption
    <3>2. A = {}  BY <2>1, <3>1, FS_EmptySet
    <3>3. AnyOf(A \cup {t}) = t  BY <3>2 DEF AnyOf
    <3> QED  BY <3>3, <1>2
  <2> QED  BY <2>1
<1>4. ASSUME NEW n \in T PROVE n + 1 \in T
  <2>1. ASSUME NEW A \in SUBSET Tests, Cardinality(A) = n + 1, NEW t \in Tests \ A
        PROVE  H[A \cup {t}] = H[A] + Dur(t)
    <3> DEFINE x == AnyOf(A \cup {t})
    <3>1. x \in A \cup {t}  BY DEF AnyOf
    <3>2. CASE x = t  BY <3>2, <1>2
    <3>3. CASE x # t
      <4> DEFINE B == A \ {x}
      <4>1. x \in A /\ x \in Tests  BY <3>1, <3>3
      <4>2. B \in SUBSET Tests /\ Cardinality(B) = n
        <5>1. n \in Nat  OBVIOUS
        <5> HIDE DEF x
        <5> QED  BY <2>1, <4>1, <5>1, TakeOut
      <4>3. Adds(B)  BY <4>2
      <4>4. H[B \cup {x}] = H[B] + Dur(x) /\ H[B \cup {t}] = H[B] + Dur(t)
        <5> HIDE DEF x
        <5> QED  BY <4>1, <4>3
      <4>5. B \cup {x} = A /\ (A \cup {t}) \ {x} = B \cup {t} /\ A \cup {t} \in SUBSET Tests /\ A \cup {t} # {}
        <5> HIDE DEF x
        <5> QED  BY <3>3, <4>1
      <4>6. H[A \cup {t}] = Dur(x) + H[(A \cup {t}) \ {x}]  BY <1>1, <4>5
      <4>7. Dur(x) \in Nat /\ Dur(t) \in Nat /\ H[B] \in Nat  BY <4>1, <4>2, DurPositive
      <4> HIDE DEF x, B
      <4>8. H[A] = H[B] + Dur(x) /\ H[A \cup {t}] = Dur(x) + (H[B] + Dur(t))
        BY <4>4, <4>5, <4>6
      <4> QED  BY <4>7, <4>8
    <3> QED  BY <3>2, <3>3
  <2>2. n + 1 \in Nat  OBVIOUS
  <2> QED  BY <2>1, <2>2
<1>5. Nat \subseteq T
  <2> HIDE DEF T
  <2>1. T \in SUBSET Nat  BY DEF T
  <2> QED  BY <1>3, <1>4, <2>1, SetInduction
<1>6. ASSUME NEW A \in SUBSET Tests, NEW t \in Tests \ A
      PROVE  Total(A \cup {t}) = Total(A) + Dur(t)
  <2>1. Cardinality(A) \in Nat  BY FS_Subset, FS_CardinalityType, SchedulerAssumption
  <2>2. Adds(A)  BY <2>1, <1>5
  <2>3. A \cup {t} \in SUBSET Tests  OBVIOUS
  <2> QED  BY <1>1, <2>2, <2>3
<1> QED  BY <1>1, <1>6

\* The sum is that of the recorded durations, which no step changes.
LEMMA TotalFrame ==
    ASSUME estimate' = estimate, NEW S
    PROVE  Total(S)' = Total(S)
  BY DEF Total, MapThenSumSet, MapThenFoldSet, Dur

(***************************************************************************)
(* Lanes in sequence.                                                      *)
(***************************************************************************)

\* Lane l with starts st runs one test after the other and ends at e.
SeqLane(l, st, e) ==
    LET prev(i) == IF i = 1 THEN 0 ELSE st[l[i - 1]] + Dur(l[i - 1])
    IN  /\ \A i \in 1 .. Len(l) : prev(i) <= st[l[i]]
        /\ e = prev(Len(l) + 1)

\* LaneIsSequential, one lane at a time.
LEMMA LanesAreSeqLanes ==
    ASSUME lanes \in [Lanes -> Seq(Tests)]
    PROVE  LaneIsSequential <=> \A w \in Lanes : SeqLane(lanes[w], start, laneEnd[w])
<1>1. \A w \in Lanes : DOMAIN lanes[w] = 1 .. Len(lanes[w])  OBVIOUS
<1> QED  BY <1>1, ZenonT(40) DEF LaneIsSequential, SeqLane, PreviousEnd, End

\* The same for the next state, whose durations are those of this state.
LEMMA LanesAreSeqLanesNext ==
    ASSUME lanes' \in [Lanes -> Seq(Tests)], estimate' = estimate
    PROVE  LaneIsSequential' <=> \A w \in Lanes : SeqLane(lanes'[w], start', laneEnd'[w])
<1>1. \A w \in Lanes : DOMAIN lanes'[w] = 1 .. Len(lanes'[w])  OBVIOUS
<1>2. \A w \in Lanes : \A i :
         PreviousEnd(w, i)' = IF i = 1 THEN 0 ELSE start'[lanes'[w][i - 1]] + Dur(lanes'[w][i - 1])
  BY DEF PreviousEnd, End, Dur
<1>3. ASSUME NEW w \in Lanes
      PROVE  /\ (\A i \in DOMAIN lanes'[w] : PreviousEnd(w, i)' <= start'[lanes'[w][i]])
             /\ laneEnd'[w] = PreviousEnd(w, Len(lanes[w]) + 1)'
             <=> SeqLane(lanes'[w], start', laneEnd'[w])
  BY <1>1, <1>2, ZenonT(40) DEF SeqLane
<1> QED  BY <1>3 DEF LaneIsSequential

\* Moving tests of other lanes does not disturb a lane.
LEMMA SeqLaneFrame ==
    ASSUME NEW l \in Seq(Tests), NEW st, NEW su, NEW e, SeqLane(l, st, e),
           \A t \in ToSet(l) : su[t] = st[t]
    PROVE  SeqLane(l, su, e)
<1>1. DOMAIN l = 1 .. Len(l) /\ Len(l) \in Nat  OBVIOUS
<1>2. \A i \in 1 .. Len(l) : su[l[i]] = st[l[i]]  BY <1>1 DEF ToSet
<1>3. \A i \in 1 .. Len(l) + 1 : i # 1 => i - 1 \in 1 .. Len(l)  BY <1>1
<1>4. \A i \in 1 .. Len(l) + 1 : i # 1 => su[l[i - 1]] = st[l[i - 1]]  BY <1>2, <1>3
<1>5. Len(l) + 1 \in 1 .. Len(l) + 1 /\ \A i \in 1 .. Len(l) : i \in 1 .. Len(l) + 1
  BY <1>1
<1> QED  BY <1>2, <1>4, <1>5 DEF SeqLane

\* A test that starts no earlier than the end of the lane can be appended.
LEMMA SeqLaneAppend ==
    ASSUME estimate \in [Tests -> Int], NEW l \in Seq(Tests), NEW st \in [Tests -> Nat],
           NEW e \in Nat, SeqLane(l, st, e),
           NEW t \in Tests, t \notin ToSet(l), NEW s \in Nat, e <= s
    PROVE  SeqLane(Append(l, t), [st EXCEPT ![t] = s], s + Dur(t))
<1> DEFINE m == Append(l, t)
           su == [st EXCEPT ![t] = s]
           prev(i) == IF i = 1 THEN 0 ELSE su[m[i - 1]] + Dur(m[i - 1])
<1>1. Len(l) \in Nat /\ DOMAIN l = 1 .. Len(l) /\ Len(m) = Len(l) + 1
  OBVIOUS
<1>2. m[Len(l) + 1] = t /\ \A i \in 1 .. Len(l) : m[i] = l[i]  BY <1>1
<1>3. su[t] = s /\ \A u \in ToSet(l) : su[u] = st[u]
  <2>1. \A u \in ToSet(l) : u \in Tests /\ u # t  BY <1>1 DEF ToSet
  <2> QED  BY <2>1
<1>4. SeqLane(l, su, e)
  <2> HIDE DEF su
  <2> QED  BY <1>3, SeqLaneFrame
<1> HIDE DEF m, su
<1>5. ASSUME NEW i \in 1 .. Len(l) PROVE prev(i) <= su[m[i]]
  <2>1. i # 1 => i - 1 \in 1 .. Len(l)  BY <1>1
  <2>2. m[i] = l[i] /\ (i # 1 => m[i - 1] = l[i - 1])  BY <1>2, <2>1
  <2> QED  BY <1>4, <2>2 DEF SeqLane
<1>6. prev(Len(l) + 1) = e
  <2>1. Len(l) + 1 # 1 => (Len(l) + 1) - 1 \in 1 .. Len(l)  BY <1>1
  <2>2. Len(l) + 1 # 1 => m[(Len(l) + 1) - 1] = l[(Len(l) + 1) - 1]  BY <1>2, <2>1
  <2> QED  BY <1>4, <2>2 DEF SeqLane
<1>7. prev(Len(l) + 1) <= su[m[Len(l) + 1]]
  BY <1>2, <1>3, <1>6
<1>8. \A i \in 1 .. Len(m) : prev(i) <= su[m[i]]
  <2> TAKE i \in 1 .. Len(m)
  <2>1. i \in 1 .. Len(l) \/ i = Len(l) + 1  BY <1>1
  <2> HIDE DEF prev
  <2> QED  BY <1>5, <1>7, <2>1
<1>9. prev(Len(m) + 1) = s + Dur(t)
  <2>1. Len(m) + 1 # 1 /\ (Len(m) + 1) - 1 = Len(l) + 1  BY <1>1
  <2> QED  BY <2>1, <1>2, <1>3
<1>10. SeqLane(m, su, s + Dur(t))
  BY <1>8, <1>9 DEF SeqLane
<1> QED  BY <1>10 DEF m, su

\* A reflowed lane runs one test after the other and ends at its last offset.
LEMMA SeqLaneReflow ==
    ASSUME estimate \in [Tests -> Int], NEW l \in Seq(Tests), IsInjective(l),
           NEW st \in [Tests -> Nat]
    PROVE  SeqLane(l, Reflow(l, st), Offsets(l)[Len(l)])
<1> DEFINE o == Offsets(l)
           su == Reflow(l, st)
           prev(i) == IF i = 1 THEN 0 ELSE su[l[i - 1]] + Dur(l[i - 1])
<1>1. Len(l) \in Nat  OBVIOUS
<1>2. /\ o \in [0 .. Len(l) -> Nat]
      /\ o[0] = 0
      /\ \A i \in 1 .. Len(l) : o[i] = o[i - 1] + Dur(l[i])
  BY OffsetsRecursion
<1>3. \A i \in 1 .. Len(l) : su[l[i]] = o[i - 1]
  BY ReflowFacts
<1> HIDE DEF o, su
<1>4. ASSUME NEW i \in 1 .. Len(l) + 1 PROVE prev(i) = o[i - 1]
  <2>1. CASE i = 1  BY <2>1, <1>2
  <2>2. CASE i # 1
    <3>1. i - 1 \in 1 .. Len(l)  BY <2>2, <1>1
    <3>2. o[i - 1] = o[(i - 1) - 1] + Dur(l[i - 1])  BY <3>1, <1>2
    <3>3. su[l[i - 1]] = o[(i - 1) - 1]  BY <3>1, <1>3
    <3> QED  BY <2>2, <3>2, <3>3
  <2> QED  BY <2>1, <2>2
<1>5. \A i \in 1 .. Len(l) : prev(i) <= su[l[i]]
  <2> TAKE i \in 1 .. Len(l)
  <2>1. i \in 1 .. Len(l) + 1 /\ i - 1 \in 0 .. Len(l)  BY <1>1
  <2>2. o[i - 1] \in Nat  BY <2>1, <1>2
  <2>3. prev(i) = o[i - 1]  BY <2>1, <1>4
  <2> HIDE DEF prev
  <2> QED  BY <2>2, <2>3, <1>3
<1>6. o[Len(l)] = prev(Len(l) + 1)
  <2>1. Len(l) + 1 \in 1 .. Len(l) + 1 /\ (Len(l) + 1) - 1 = Len(l)  BY <1>1
  <2>2. prev(Len(l) + 1) = o[(Len(l) + 1) - 1]  BY <2>1, <1>4
  <2> HIDE DEF prev
  <2> QED  BY <2>1, <2>2
<1>7. SeqLane(l, su, o[Len(l)])
  BY <1>5, <1>6 DEF SeqLane
<1> QED  BY <1>7 DEF o, su

\* A lane never ends before the sum of its durations.
LEMMA OffsetsWithin ==
    ASSUME estimate \in [Tests -> Int], NEW l \in Seq(Tests), NEW st \in [Tests -> Nat],
           NEW e, SeqLane(l, st, e)
    PROVE  Offsets(l)[Len(l)] <= e
<1> DEFINE o == Offsets(l)
           prev(i) == IF i = 1 THEN 0 ELSE st[l[i - 1]] + Dur(l[i - 1])
           T == {n \in Nat : n <= Len(l) => o[n] <= prev(n + 1)}
<1>1. Len(l) \in Nat /\ \A k \in 1 .. Len(l) : l[k] \in Tests /\ st[l[k]] \in Nat /\ Dur(l[k]) \in Nat
  BY DurPositive, SMTT(30)
<1>2. /\ o \in [0 .. Len(l) -> Nat] /\ o[0] = 0
      /\ \A k \in 1 .. Len(l) : o[k] = o[k - 1] + Dur(l[k])
  BY OffsetsRecursion
<1>3. e = prev(Len(l) + 1) /\ \A k \in 1 .. Len(l) : prev(k) <= st[l[k]]
  BY DEF SeqLane
<1> HIDE DEF o
<1>4. 0 \in T
  BY <1>2
<1>5. ASSUME NEW n \in T PROVE n + 1 \in T
  <2>1. n \in Nat  OBVIOUS
  <2>2. ASSUME n + 1 <= Len(l) PROVE o[n + 1] <= prev((n + 1) + 1)
    <3>1. n + 1 \in 1 .. Len(l) /\ n \in 0 .. Len(l) /\ (n + 1) - 1 = n /\ o[n] <= prev(n + 1)
      BY <2>1, <2>2, <1>1
    <3>2. o[n + 1] = o[n] + Dur(l[n + 1]) /\ o[n] \in Nat
      BY <3>1, <1>2
    <3>3. prev((n + 1) + 1) = st[l[n + 1]] + Dur(l[n + 1])
      <4>1. (n + 1) + 1 # 1 /\ ((n + 1) + 1) - 1 = n + 1  BY <2>1
      <4> QED  BY <4>1
    <3>4. prev(n + 1) \in Nat
      <4>1. n + 1 # 1 => n \in 1 .. Len(l)  BY <3>1
      <4> QED  BY <3>1, <4>1, <1>1, SMTT(30)
    <3>5. prev(n + 1) <= st[l[n + 1]] /\ st[l[n + 1]] \in Nat /\ Dur(l[n + 1]) \in Nat
      BY <3>1, <1>1, <1>3
    <3> HIDE DEF prev
    <3> QED  BY <3>1, <3>2, <3>3, <3>4, <3>5, SMTT(30)
  <2> QED  BY <2>1, <2>2
<1>6. Nat \subseteq T
  <2> HIDE DEF T
  <2>1. T \in SUBSET Nat  BY DEF T
  <2> QED  BY <1>4, <1>5, <2>1, SetInduction
<1>7. o[Len(l)] <= prev(Len(l) + 1)
  <2> HIDE DEF prev
  <2> QED  BY <1>1, <1>6
<1> QED  BY <1>3, <1>7 DEF o

(***************************************************************************)
(* The inductive invariant.                                                *)
(***************************************************************************)

\* Before admission nothing is waiting and nothing is placed.
NothingPlacedYet ==
    phase \in {"index", "admit"} => remaining = {} /\ \A w \in Lanes : lanes[w] = <<>>

Inv == TypeOK /\ NothingPlacedYet /\ EveryTestOnce /\ LaneIsSequential

\* Where a test of a lane is looked up.
LEMMA PlacedFacts ==
    ASSUME lanes \in [Lanes -> Seq(Tests)]
    PROVE  /\ \A w \in Lanes : ToSet(lanes[w]) \subseteq Placed
           /\ \A t \in Placed : \E w \in Lanes : \E i \in DOMAIN lanes[w] : t = lanes[w][i]
           /\ \A w \in Lanes : \A i \in DOMAIN lanes[w] : lanes[w][i] \in Placed /\ lanes[w][i] \in Tests
           /\ Placed \subseteq Tests
<1>1. \A w \in Lanes : lanes[w] \in Seq(Tests) /\ DOMAIN lanes[w] = 1 .. Len(lanes[w])  OBVIOUS
<1>2. \A w \in Lanes : \A i \in DOMAIN lanes[w] : lanes[w][i] \in Tests  BY <1>1
<1>3. \A w \in Lanes : ToSet(lanes[w]) \subseteq Placed  BY DEF Placed
<1>4. \A w \in Lanes : \A i \in DOMAIN lanes[w] : lanes[w][i] \in ToSet(lanes[w])  BY DEF ToSet
<1>5. \A t \in Placed : \E w \in Lanes : \E i \in DOMAIN lanes[w] : t = lanes[w][i]
  BY DEF Placed, ToSet
<1> QED  BY <1>2, <1>3, <1>4, <1>5

\* No delay moves a test before the end of its lane.
LEMMA PlannedStartType ==
    ASSUME TypeOK, NEW w \in Lanes, NEW t \in Tests, NEW s \in PlannedStart(t, w)
    PROVE  s \in Nat /\ laneEnd[w] <= s
<1>0. estimate \in [Tests -> Int]  BY SchedulerAssumption DEF TypeOK
<1>1. laneEnd[w] \in Nat  BY DEF TypeOK
<1>2. CASE s = laneEnd[w]  BY <1>1, <1>2
<1>3. CASE s \in ConflictingEnds(t, laneEnd[w], w)
  <2>1. PICK o \in OtherLaneTests(w) : s = End(o) /\ laneEnd[w] < End(o)
    BY <1>3 DEF ConflictingEnds
  <2>2. o \in Tests
    BY <2>1 DEF OtherLaneTests, ToSet, TypeOK
  <2>3. End(o) \in Nat
    BY <1>0, <2>2, DurPositive, SMTT(30) DEF End, TypeOK
  <2> QED  BY <1>1, <2>1, <2>3
<1> QED  BY <1>2, <1>3 DEF PlannedStart

\* The inductive invariant holds when Build is called.
LEMMA InitInv == Init => Inv
<1> SUFFICES ASSUME Init PROVE Inv  OBVIOUS
<1>1. \A w \in Lanes : lanes[w] = <<>> /\ Len(lanes[w]) = 0 /\ laneEnd[w] = 0  BY DEF Init
<1>2. TypeOK
  <2>1. lanes \in [Lanes -> Seq(Tests)]  BY DEF Init
  <2>2. cursor \in (0 .. Workers) \X (Nat \ {0})  BY SchedulerAssumption DEF Init
  <2>3. round \in 0 .. RefinementRounds  BY SchedulerAssumption DEF Init
  <2>4. laneEnd \in [Lanes -> Nat] /\ start \in [Tests -> Nat]  BY DEF Init
  <2> QED  BY <2>1, <2>2, <2>3, <2>4 DEF Init, TypeOK, Phases
<1>3. NothingPlacedYet  BY <1>1 DEF Init, NothingPlacedYet
<1>4. EveryTestOnce  BY DEF Init, EveryTestOnce
<1>5. LaneIsSequential
  BY <1>1 DEF LaneIsSequential, PreviousEnd
<1> QED  BY <1>2, <1>3, <1>4, <1>5 DEF Inv

\* A step that leaves the placement alone keeps what is said about it.
LEMMA PlacementUnchanged ==
    ASSUME Inv, UNCHANGED <<arguments, placement>>
    PROVE  /\ LaneIsSequential'
           /\ (phase \in {"place", "round", "refine", "flatten", "done"}) => EveryTestOnce'
           /\ (phase \in {"index", "admit"}) => NothingPlacedYet'
<1>1. UNCHANGED <<input, estimate, remaining, lanes, laneEnd, start>>
  BY DEF arguments, placement
<1>2. LaneIsSequential'
  BY <1>1 DEF Inv, LaneIsSequential, PreviousEnd, End, Dur
<1>3. (phase \in {"place", "round", "refine", "flatten", "done"}) => EveryTestOnce'
  BY <1>1 DEF Inv, EveryTestOnce, Placed
<1>4. (phase \in {"index", "admit"}) => NothingPlacedYet'
  BY <1>1 DEF Inv, NothingPlacedYet
<1> QED  BY <1>2, <1>3, <1>4

\* Admission hands every test of the input, once, to placement.
LEMMA AdmitInv == Inv /\ AdmitTests => Inv'
<1> SUFFICES ASSUME Inv, AdmitTests PROVE Inv'  OBVIOUS
<1>1. UNCHANGED <<input, estimate, lanes, laneEnd, start, round, cursor, changed>>
  BY DEF AdmitTests, arguments, refinement
<1>2. \A w \in Lanes : lanes[w] = <<>>  BY DEF AdmitTests, Inv, NothingPlacedYet
<1>3. ToSet(input) \subseteq Tests
  <2>1. input \in Seq(Tests)  BY SchedulerAssumption DEF Inv, TypeOK
  <2> QED  BY <2>1 DEF ToSet
<1>4. TypeOK'
  BY <1>1, <1>3 DEF AdmitTests, Inv, TypeOK, Phases
<1>5. LaneIsSequential'
  BY <1>1 DEF Inv, LaneIsSequential, PreviousEnd, End, Dur
<1>6. Placed' = {}
  BY <1>1, <1>2 DEF Placed, ToSet
<1>7. EveryTestOnce'
  <2>1. phase' = "place" => remaining' = ToSet(input)'  BY <1>1 DEF AdmitTests, ToSet
  <2>2. phase' \in {"place", "error"}  BY DEF AdmitTests
  <2>3. \A w \in Lanes : DOMAIN lanes'[w] = {}  BY <1>1, <1>2
  <2> QED  BY <1>1, <1>6, <2>1, <2>2, <2>3 DEF EveryTestOnce
<1>8. NothingPlacedYet'  BY DEF AdmitTests, NothingPlacedYet
<1> QED  BY <1>4, <1>5, <1>7, <1>8 DEF Inv

\* No test has two places.
OnceEach ==
    \A v, w \in Lanes : \A i \in DOMAIN lanes[v], j \in DOMAIN lanes[w] :
        lanes[v][i] = lanes[w][j] => v = w /\ i = j

\* What placement may rely on, in every phase and for every scheduler.
PlacementOK ==
    /\ lanes \in [Lanes -> Seq(Tests)]
    /\ laneEnd \in [Lanes -> Nat]
    /\ start \in [Tests -> Nat]
    /\ estimate \in [Tests -> Int]
    /\ OnceEach
    /\ LaneIsSequential

\* Test t is put at the end of lane w, to start at s.
Appends(w, t, s) ==
    /\ estimate' = estimate
    /\ start' = [start EXCEPT ![t] = s]
    /\ laneEnd' = [laneEnd EXCEPT ![w] = s + Dur(t)]
    /\ lanes' = [lanes EXCEPT ![w] = Append(lanes[w], t)]

\* A test that is in no lane can be put at the end of one, not before its end.
LEMMA AppendTest ==
    ASSUME PlacementOK, NEW w \in Lanes, NEW t \in Tests, t \notin Placed,
           NEW s \in Nat, laneEnd[w] <= s, Appends(w, t, s)
    PROVE  PlacementOK' /\ Placed' = Placed \cup {t}
<1>1. /\ start' = [start EXCEPT ![t] = s] /\ laneEnd' = [laneEnd EXCEPT ![w] = s + Dur(t)]
      /\ estimate' = estimate /\ lanes' = [lanes EXCEPT ![w] = Append(lanes[w], t)]
  BY DEF Appends
<1>2. /\ lanes \in [Lanes -> Seq(Tests)] /\ start \in [Tests -> Nat] /\ laneEnd \in [Lanes -> Nat]
      /\ t \in Tests /\ estimate \in [Tests -> Int]
  BY DEF PlacementOK
<1>3. s \in Nat /\ laneEnd[w] <= s
  OBVIOUS
<1>4. \A v \in Lanes : t \notin ToSet(lanes[v])
  BY <1>2, PlacedFacts
<1>5. /\ lanes' \in [Lanes -> Seq(Tests)]
      /\ lanes'[w] = Append(lanes[w], t)
      /\ \A v \in Lanes \ {w} : lanes'[v] = lanes[v]
  BY <1>1, <1>2
<1>6. Dur(t) \in Nat  BY <1>2, DurPositive
<1>7. /\ lanes' \in [Lanes -> Seq(Tests)] /\ start' \in [Tests -> Nat] /\ laneEnd' \in [Lanes -> Nat]
      /\ estimate' \in [Tests -> Int]
  BY <1>1, <1>2, <1>3, <1>5, <1>6
<1>8. LaneIsSequential'
  <2>1. \A v \in Lanes : SeqLane(lanes[v], start, laneEnd[v])
    BY <1>2, LanesAreSeqLanes DEF PlacementOK
  <2>2. ASSUME NEW v \in Lanes PROVE SeqLane(lanes'[v], start', laneEnd'[v])
    <3>1. CASE v = w
      <4>1. SeqLane(Append(lanes[w], t), [start EXCEPT ![t] = s], s + Dur(t))
        <5>1. lanes[w] \in Seq(Tests) /\ laneEnd[w] \in Nat  BY <1>2
        <5> QED  BY <1>2, <1>3, <1>4, <2>1, <5>1, SeqLaneAppend
      <4>2. laneEnd'[w] = s + Dur(t)  BY <1>1, <1>2
      <4> QED  BY <3>1, <4>1, <4>2, <1>1, <1>5
    <3>2. CASE v # w
      <4>1. \A u \in ToSet(lanes[v]) : start'[u] = start[u]
        <5>1. ToSet(lanes[v]) \subseteq Tests  BY <1>2 DEF ToSet
        <5> QED  BY <1>1, <1>2, <1>4, <5>1
      <4>2. laneEnd'[v] = laneEnd[v] /\ lanes'[v] = lanes[v] /\ lanes[v] \in Seq(Tests)
        BY <3>2, <1>1, <1>2, <1>5
      <4> QED  BY <4>1, <4>2, <2>1, SeqLaneFrame
    <3> QED  BY <3>1, <3>2
  <2> QED  BY <1>1, <1>5, <2>2, LanesAreSeqLanesNext
<1>9. \A v \in Lanes : /\ Len(lanes[v]) \in Nat
                       /\ DOMAIN lanes[v] = 1 .. Len(lanes[v])
                       /\ DOMAIN lanes'[v] = 1 .. Len(lanes'[v])
                       /\ v # w => lanes'[v] = lanes[v]
                       /\ v = w => /\ Len(lanes'[v]) = Len(lanes[v]) + 1
                                   /\ lanes'[v][Len(lanes[v]) + 1] = t
                                   /\ \A i \in 1 .. Len(lanes[v]) : lanes'[v][i] = lanes[v][i]
  <2> TAKE v \in Lanes
  <2>1. lanes[v] \in Seq(Tests) /\ lanes'[v] \in Seq(Tests)  BY <1>2, <1>5
  <2>2. /\ Len(lanes[v]) \in Nat
        /\ DOMAIN lanes[v] = 1 .. Len(lanes[v])
        /\ DOMAIN lanes'[v] = 1 .. Len(lanes'[v])
    BY <2>1
  <2>3. v # w => lanes'[v] = lanes[v]  BY <1>5
  <2>4. v = w => /\ Len(lanes'[v]) = Len(lanes[v]) + 1
                 /\ lanes'[v][Len(lanes[v]) + 1] = t
                 /\ \A i \in 1 .. Len(lanes[v]) : lanes'[v][i] = lanes[v][i]
    <3>1. \A l \in Seq(Tests) : /\ Len(Append(l, t)) = Len(l) + 1
                                /\ Append(l, t)[Len(l) + 1] = t
                                /\ \A i \in 1 .. Len(l) : Append(l, t)[i] = l[i]
      BY <1>2
    <3>2. v = w => lanes'[v] = Append(lanes[v], t)  BY <1>5, Zenon
    <3>3. /\ Len(Append(lanes[v], t)) = Len(lanes[v]) + 1
          /\ Append(lanes[v], t)[Len(lanes[v]) + 1] = t
          /\ \A i \in 1 .. Len(lanes[v]) : Append(lanes[v], t)[i] = lanes[v][i]
      BY <2>1, <3>1, Zenon
    <3> QED  BY <3>2, <3>3, Zenon
  <2> QED  BY <2>2, <2>3, <2>4
<1>10. Placed' = Placed \cup {t}
  <2>1. ToSet(lanes'[w]) = ToSet(lanes[w]) \cup {t}
    <3>1. ToSet(lanes'[w]) \subseteq ToSet(lanes[w]) \cup {t}
      <4>1. ASSUME NEW i \in 1 .. Len(lanes'[w]) PROVE lanes'[w][i] \in ToSet(lanes[w]) \cup {t}
        <5>1. i \in 1 .. Len(lanes[w]) \/ i = Len(lanes[w]) + 1  BY <1>9
        <5> QED  BY <5>1, <1>9 DEF ToSet
      <4> QED  BY <4>1, <1>9, ZenonT(40) DEF ToSet
    <3>2. t \in ToSet(lanes'[w])
      <4>1. Len(lanes[w]) + 1 \in 1 .. Len(lanes'[w])  BY <1>9
      <4> QED  BY <4>1, <1>9 DEF ToSet
    <3>3. ToSet(lanes[w]) \subseteq ToSet(lanes'[w])
      <4>1. 1 .. Len(lanes[w]) \subseteq 1 .. Len(lanes'[w])  BY <1>9
      <4> QED  BY <4>1, <1>9 DEF ToSet
    <3> QED  BY <3>1, <3>2, <3>3
  <2>2. \A v \in Lanes \ {w} : ToSet(lanes'[v]) = ToSet(lanes[v])  BY <1>5
  <2>3. Placed' = UNION {ToSet(lanes'[v]) : v \in Lanes}  BY DEF Placed, ToSet
  <2> QED  BY <2>1, <2>2, <2>3 DEF Placed
<1>11. OnceEach'
  <2>1. ASSUME NEW u \in Lanes, NEW v \in Lanes,
               NEW i \in DOMAIN lanes'[u], NEW j \in DOMAIN lanes'[v], lanes'[u][i] = lanes'[v][j]
        PROVE  u = v /\ i = j
    <3> DEFINE New(x, k) == x = w /\ k = Len(lanes[w]) + 1
    <3>0. ASSUME NEW x \in Lanes, NEW k \in DOMAIN lanes'[x]
          PROVE  \/ New(x, k) /\ lanes'[x][k] = t
                 \/ ~New(x, k) /\ k \in DOMAIN lanes[x] /\ lanes'[x][k] = lanes[x][k]
      <4>1. CASE x # w
        BY <4>1, <1>9
      <4>2. CASE x = w
        <5>1. /\ k \in 1 .. Len(lanes[w]) + 1 /\ Len(lanes[w]) \in Nat
              /\ DOMAIN lanes[w] = 1 .. Len(lanes[w])
          BY <4>2, <1>9
        <5>2. k = Len(lanes[w]) + 1 \/ k \in 1 .. Len(lanes[w])
          BY <5>1
        <5>3. k = Len(lanes[w]) + 1 => lanes'[x][k] = t
          BY <4>2, <1>9
        <5>4. k \in 1 .. Len(lanes[w]) => lanes'[x][k] = lanes[x][k] /\ k # Len(lanes[w]) + 1
          BY <4>2, <5>1, <1>9
        <5> QED  BY <4>2, <5>1, <5>2, <5>3, <5>4
      <4> QED  BY <4>1, <4>2
    <3>1. \/ New(u, i) /\ lanes'[u][i] = t
          \/ ~New(u, i) /\ i \in DOMAIN lanes[u] /\ lanes'[u][i] = lanes[u][i]
      BY <3>0
    <3>2. \/ New(v, j) /\ lanes'[v][j] = t
          \/ ~New(v, j) /\ j \in DOMAIN lanes[v] /\ lanes'[v][j] = lanes[v][j]
      BY <3>0
    <3>3. \A x \in Lanes : \A k \in DOMAIN lanes[x] : lanes[x][k] # t
      BY <1>4, <1>2, PlacedFacts, SMTT(30)
    <3> QED  BY <2>1, <3>1, <3>2, <3>3, SMTT(30) DEF PlacementOK, OnceEach
  <2> QED  BY <2>1 DEF OnceEach
<1> QED  BY <1>7, <1>8, <1>10, <1>11 DEF PlacementOK

\* The tests placed before keep their starts, their places and their
\* neighbours, and the new one follows the end of its lane.
LEMMA AppendFrame ==
    ASSUME PlacementOK, NEW w \in Lanes, NEW t \in Tests, t \notin Placed,
           NEW s \in Nat, Appends(w, t, s)
    PROVE  /\ start'[t] = s
           /\ \A o \in Placed : start'[o] = start[o] /\ End(o)' = End(o)
           /\ \A v \in Lanes : /\ OtherLaneTests(v) \subseteq Placed
                                /\ OtherLaneTests(v) \subseteq OtherLaneTests(v)'
           /\ \A v \in Lanes : \A i \in DOMAIN lanes'[v] :
                 /\ PreviousEnd(v, i)' = PreviousEnd(v, i)
                 /\ \/ i \in DOMAIN lanes[v] /\ lanes'[v][i] = lanes[v][i] /\ lanes[v][i] \in Placed
                    \/ v = w /\ i \notin DOMAIN lanes[v] /\ lanes'[v][i] = t /\ PreviousEnd(v, i) = laneEnd[w]
<1>1. /\ lanes' = [lanes EXCEPT ![w] = Append(lanes[w], t)] /\ estimate' = estimate
      /\ start' = [start EXCEPT ![t] = s]
  BY DEF Appends
<1>2. lanes \in [Lanes -> Seq(Tests)] /\ start \in [Tests -> Nat]
  BY DEF PlacementOK
<1>3. /\ start'[t] = s
      /\ \A o \in Placed : start'[o] = start[o] /\ End(o)' = End(o)
  <2>1. Placed \subseteq Tests  BY <1>2, PlacedFacts
  <2>2. \A o \in Placed : start'[o] = start[o]  BY <1>1, <1>2, <2>1
  <2> QED  BY <1>1, <1>2, <2>2 DEF End, Dur
<1>4. ASSUME NEW v \in Lanes
      PROVE  /\ lanes[v] \in Seq(Tests)
             /\ DOMAIN lanes[v] = 1 .. Len(lanes[v]) /\ Len(lanes[v]) \in Nat
             /\ \A i \in DOMAIN lanes[v] : i \in DOMAIN lanes'[v] /\ lanes'[v][i] = lanes[v][i]
             /\ \A i \in DOMAIN lanes'[v] : \/ i \in DOMAIN lanes[v]
                                            \/ v = w /\ i = Len(lanes[v]) + 1 /\ lanes'[v][i] = t
  <2>1. lanes[v] \in Seq(Tests)  BY <1>2
  <2>2. DOMAIN lanes[v] = 1 .. Len(lanes[v]) /\ Len(lanes[v]) \in Nat  BY <2>1
  <2>3. CASE v # w  BY <2>1, <2>2, <2>3, <1>1, <1>2
  <2>4. CASE v = w
    <3>1. lanes'[v] = Append(lanes[v], t)  BY <2>4, <1>1, <1>2
    <3>2. \A l \in Seq(Tests) : /\ DOMAIN Append(l, t) = 1 .. Len(l) + 1
                                /\ Append(l, t)[Len(l) + 1] = t
                                /\ \A i \in 1 .. Len(l) : Append(l, t)[i] = l[i]
      OBVIOUS
    <3>3. /\ DOMAIN lanes'[v] = 1 .. Len(lanes[v]) + 1
          /\ lanes'[v][Len(lanes[v]) + 1] = t
          /\ \A i \in 1 .. Len(lanes[v]) : lanes'[v][i] = lanes[v][i]
      BY <2>1, <3>1, <3>2, Zenon
    <3> QED  BY <2>1, <2>2, <2>4, <3>3
  <2> QED  BY <2>3, <2>4
<1>5. \A v \in Lanes : /\ OtherLaneTests(v) \subseteq Placed
                       /\ OtherLaneTests(v) \subseteq OtherLaneTests(v)'
  <2>1. \A v \in Lanes : ToSet(lanes[v]) \subseteq ToSet(lanes'[v])
    BY <1>4 DEF ToSet
  <2>2. \A v \in Lanes : OtherLaneTests(v)' = UNION {ToSet(lanes'[x]) : x \in Lanes \ {v}}
    BY DEF OtherLaneTests, ToSet
  <2> QED  BY <2>1, <2>2 DEF OtherLaneTests, Placed
<1>6. ASSUME NEW v \in Lanes, NEW i \in DOMAIN lanes'[v]
      PROVE  /\ PreviousEnd(v, i)' = PreviousEnd(v, i)
             /\ \/ i \in DOMAIN lanes[v] /\ lanes'[v][i] = lanes[v][i] /\ lanes[v][i] \in Placed
                \/ v = w /\ i \notin DOMAIN lanes[v] /\ lanes'[v][i] = t /\ PreviousEnd(v, i) = laneEnd[w]
  <2>1. ASSUME i # 1 PROVE PreviousEnd(v, i)' = PreviousEnd(v, i)
    <3>1. i - 1 \in DOMAIN lanes[v]  BY <2>1, <1>4
    <3>2. lanes'[v][i - 1] = lanes[v][i - 1] /\ lanes[v][i - 1] \in Placed
      BY <3>1, <1>2, <1>4, PlacedFacts
    <3>3. PreviousEnd(v, i)' = start'[lanes'[v][i - 1]] + Dur(lanes'[v][i - 1])
      BY <2>1, <1>1 DEF PreviousEnd, End, Dur
    <3> QED  BY <2>1, <3>2, <3>3, <1>3 DEF PreviousEnd, End
  <2>2. PreviousEnd(v, i)' = PreviousEnd(v, i)
    <3>1. CASE i = 1  BY <3>1 DEF PreviousEnd
    <3> QED  BY <3>1, <2>1
  <2>3. CASE i \in DOMAIN lanes[v]
    BY <2>2, <2>3, <1>2, <1>4, PlacedFacts
  <2>4. CASE i \notin DOMAIN lanes[v]
    <3>1. v = w /\ i = Len(lanes[w]) + 1 /\ lanes'[v][i] = t  BY <2>4, <1>4
    <3> QED  BY <2>2, <2>4, <3>1 DEF PlacementOK, LaneIsSequential
  <2> QED  BY <2>3, <2>4
<1> QED  BY <1>3, <1>5, <1>6

\* A step of the placement loop puts a test that waits at the end of a lane.
LEMMA PlaceAppends ==
    ASSUME Inv, NEW w \in Lanes, NEW t \in remaining, Place(w, t)
    PROVE  /\ PlacementOK /\ t \in Tests /\ t \notin Placed
           /\ \E s \in PlannedStart(t, w) : Appends(w, t, s)
<1>1. phase = "place"
  BY DEF Place
<1>2. PlacementOK
  BY <1>1, SchedulerAssumption DEF Inv, TypeOK, EveryTestOnce, PlacementOK, OnceEach
<1>3. t \in Tests /\ t \notin Placed
  BY <1>1 DEF Inv, TypeOK, EveryTestOnce
<1>4. \E s \in PlannedStart(t, w) : Appends(w, t, s)
  BY DEF Place, Appends, arguments
<1> QED  BY <1>2, <1>3, <1>4

\* Placing a test moves it from the tests to place to the end of one lane and
\* leaves the other lanes alone.
LEMMA PlaceInv ==
    ASSUME Inv, NEW w \in Lanes, NEW t \in remaining, Place(w, t)
    PROVE  Inv'
<1>1. /\ phase = "place" /\ phase' = "place"
      /\ remaining' = remaining \ {t}
      /\ UNCHANGED <<input, estimate, round, cursor, changed>>
  BY DEF Place, arguments, refinement
<1>2. PlacementOK /\ t \in Tests /\ t \notin Placed /\ \E s \in PlannedStart(t, w) : Appends(w, t, s)
  BY PlaceAppends
<1>3. PICK s \in PlannedStart(t, w) : Appends(w, t, s)  BY <1>2
<1>4. s \in Nat /\ laneEnd[w] <= s  BY <1>2, PlannedStartType DEF Inv
<1>5. PlacementOK' /\ Placed' = Placed \cup {t}
  BY <1>2, <1>3, <1>4, AppendTest
<1>6. TypeOK'
  BY <1>1, <1>5 DEF Inv, TypeOK, PlacementOK
<1>7. EveryTestOnce'
  <2>1. remaining \cap Placed = {} /\ remaining \cup Placed = ToSet(input)
    BY <1>1 DEF Inv, EveryTestOnce
  <2>2. remaining' \cap Placed' = {} /\ remaining' \cup Placed' = ToSet(input)'
    <3>1. ToSet(input)' = ToSet(input)  BY <1>1 DEF ToSet
    <3> QED  BY <1>1, <1>2, <1>5, <2>1, <3>1
  <2> QED  BY <1>5, <2>2 DEF EveryTestOnce, PlacementOK, OnceEach
<1>8. NothingPlacedYet'  BY <1>1 DEF NothingPlacedYet
<1> QED  BY <1>5, <1>6, <1>7, <1>8 DEF Inv, PlacementOK

\* What one trial swap, kept or undone, does to the lane: it permutes it and
\* lays it out without gaps.
LEMMA TrySwapEffect ==
    ASSUME Inv, TrySwap
    PROVE  \E l \in Seq(Tests), st \in [Tests -> Nat] :
              LET w == cursor[1] IN
              /\ w \in Lanes /\ IsInjective(l) /\ ToSet(l) = ToSet(lanes[w])
              /\ Offsets(l)[Len(l)] = Offsets(lanes[w])[Len(lanes[w])]
              /\ \A u \in Tests \ ToSet(l) : st[u] = start[u]
              /\ lanes' = [lanes EXCEPT ![w] = l]
              /\ start' = Reflow(l, st)
              /\ laneEnd' = [laneEnd EXCEPT ![w] = Offsets(l)[Len(l)]]
<1> DEFINE w == cursor[1]
           i == cursor[2]
           swapped == Swap(lanes[w], i)
           undone == Swap(swapped, i)
           trial == Reflow(swapped, start)
<1>1. w \in Lanes /\ i \in Nat \ {0} /\ i < Len(lanes[w])
  BY DEF TrySwap, Inv, TypeOK
<1>2. /\ lanes[w] \in Seq(Tests) /\ start \in [Tests -> Nat] /\ estimate \in [Tests -> Int]
      /\ i \in 1 .. Len(lanes[w])
  <2>1. lanes[w] \in Seq(Tests) /\ start \in [Tests -> Nat] /\ estimate \in [Tests -> Int]
    BY <1>1, SchedulerAssumption DEF Inv, TypeOK
  <2> QED  BY <2>1, <1>1
<1>3. IsInjective(lanes[w])
  BY <1>1 DEF TrySwap, Inv, EveryTestOnce, IsInjective
<1>4. /\ swapped \in Seq(Tests) /\ ToSet(swapped) = ToSet(lanes[w]) /\ IsInjective(swapped)
      /\ undone = lanes[w] /\ Len(swapped) = Len(lanes[w])
  BY <1>1, <1>2, <1>3, SwapFacts
<1>5. Offsets(swapped)[Len(swapped)] = Offsets(lanes[w])[Len(lanes[w])]
  <2>1. Offsets(Swap(lanes[w], i))[Len(lanes[w])] = Offsets(lanes[w])[Len(lanes[w])]
    <3> HIDE DEF w, i
    <3> QED  BY <1>1, <1>2, SwapOffsets
  <2> QED  BY <1>4, <2>1
<1>6. trial \in [Tests -> Nat] /\ \A u \in Tests \ ToSet(swapped) : trial[u] = start[u]
  BY <1>2, <1>4, ReflowFacts
<1>7. \/ /\ lanes' = [lanes EXCEPT ![w] = swapped]
         /\ start' = Reflow(swapped, start)
         /\ laneEnd' = [laneEnd EXCEPT ![w] = Offsets(swapped)[Len(swapped)]]
      \/ /\ lanes' = [lanes EXCEPT ![w] = undone]
         /\ start' = Reflow(undone, trial)
         /\ laneEnd' = [laneEnd EXCEPT ![w] = Offsets(undone)[Len(undone)]]
  BY DEF TrySwap
<1> HIDE DEF w, i, swapped, undone, trial
<1>8. CASE /\ lanes' = [lanes EXCEPT ![w] = swapped]
           /\ start' = Reflow(swapped, start)
           /\ laneEnd' = [laneEnd EXCEPT ![w] = Offsets(swapped)[Len(swapped)]]
  BY <1>1, <1>2, <1>4, <1>8, <1>5 DEF w
<1>9. CASE /\ lanes' = [lanes EXCEPT ![w] = undone]
           /\ start' = Reflow(undone, trial)
           /\ laneEnd' = [laneEnd EXCEPT ![w] = Offsets(undone)[Len(undone)]]
  <2>1. \A u \in Tests \ ToSet(undone) : trial[u] = start[u]  BY <1>4, <1>6
  <2> QED  BY <1>1, <1>2, <1>3, <1>4, <1>6, <1>9, <2>1 DEF w
<1> QED  BY <1>7, <1>8, <1>9

\* A trial swap keeps the tests of its lane, kept or undone.
LEMMA TrySwapInv == Inv /\ TrySwap => Inv'
<1> SUFFICES ASSUME Inv, TrySwap PROVE Inv'  OBVIOUS
<1> DEFINE w == cursor[1]
<1>1. /\ phase = "refine" /\ phase' = "refine" /\ cursor' = <<w, cursor[2] + 1>>
      /\ UNCHANGED <<input, estimate, remaining, round>>
      /\ changed' \in BOOLEAN
  BY DEF TrySwap, arguments, Inv, TypeOK
<1>2. PICK l \in Seq(Tests), st \in [Tests -> Nat] :
              /\ w \in Lanes /\ IsInjective(l) /\ ToSet(l) = ToSet(lanes[w])
              /\ \A u \in Tests \ ToSet(l) : st[u] = start[u]
              /\ lanes' = [lanes EXCEPT ![w] = l]
              /\ start' = Reflow(l, st)
              /\ laneEnd' = [laneEnd EXCEPT ![w] = Offsets(l)[Len(l)]]
  BY TrySwapEffect
<1>3. /\ lanes \in [Lanes -> Seq(Tests)] /\ start \in [Tests -> Nat] /\ laneEnd \in [Lanes -> Nat]
      /\ estimate \in [Tests -> Int] /\ cursor \in (0 .. Workers) \X (Nat \ {0})
  BY SchedulerAssumption DEF Inv, TypeOK
<1>4. /\ lanes' \in [Lanes -> Seq(Tests)] /\ lanes'[w] = l
      /\ \A v \in Lanes \ {w} : lanes'[v] = lanes[v] /\ laneEnd'[v] = laneEnd[v]
      /\ laneEnd'[w] = Offsets(l)[Len(l)]
  BY <1>2, <1>3
<1>5. Offsets(l)[Len(l)] \in Nat
  <2>1. Len(l) \in 0 .. Len(l)  OBVIOUS
  <2> QED  BY <1>3, <2>1, OffsetsRecursion
<1>6. /\ start' \in [Tests -> Nat]
      /\ \A u \in Tests \ ToSet(l) : start'[u] = start[u]
  BY <1>2, <1>3, ReflowFacts
<1>7. TypeOK'
  <2>1. laneEnd' \in [Lanes -> Nat]  BY <1>2, <1>3, <1>5
  <2>2. cursor' \in (0 .. Workers) \X (Nat \ {0})  BY <1>1, <1>3
  <2> QED  BY <1>1, <1>4, <1>6, <2>1, <2>2 DEF Inv, TypeOK
<1>8. \A u, v \in Lanes : \A i \in DOMAIN lanes[u], j \in DOMAIN lanes[v] :
              lanes[u][i] = lanes[v][j] => u = v /\ i = j
  BY <1>1 DEF Inv, EveryTestOnce
<1>9. \A v \in Lanes \ {w} : ToSet(lanes[v]) \cap ToSet(l) = {}
  <2>1. \A v \in Lanes \ {w} : ToSet(lanes[v]) \cap ToSet(lanes[w]) = {}
    <3> HIDE DEF w
    <3> QED  BY <1>2, <1>8 DEF ToSet
  <2> QED  BY <1>2, <2>1
<1>10. LaneIsSequential'
  <2>1. \A v \in Lanes : SeqLane(lanes[v], start, laneEnd[v])
    BY <1>3, LanesAreSeqLanes DEF Inv
  <2>2. ASSUME NEW v \in Lanes PROVE SeqLane(lanes'[v], start', laneEnd'[v])
    <3>1. CASE v = w
      BY <3>1, <1>2, <1>3, <1>4, SeqLaneReflow
    <3>2. CASE v # w
      <4>1. \A u \in ToSet(lanes[v]) : start'[u] = start[u]
        <5>1. ToSet(lanes[v]) \subseteq Tests  BY <1>3 DEF ToSet
        <5> QED  BY <3>2, <1>6, <1>9, <5>1
      <4>2. lanes'[v] = lanes[v] /\ laneEnd'[v] = laneEnd[v] /\ lanes[v] \in Seq(Tests)
        BY <3>2, <1>3, <1>4
      <4> QED  BY <4>1, <4>2, <2>1, SeqLaneFrame
    <3> QED  BY <3>1, <3>2
  <2> QED  BY <1>1, <1>4, <2>2, LanesAreSeqLanesNext
<1>11. \A v \in Lanes : ToSet(lanes'[v]) = ToSet(lanes[v])
  BY <1>2, <1>4
<1>12. Placed' = Placed
  <2>1. Placed' = UNION {ToSet(lanes'[v]) : v \in Lanes}  BY DEF Placed, ToSet
  <2> QED  BY <1>11, <2>1 DEF Placed
<1>13. EveryTestOnce'
  <2>1. ASSUME NEW u \in Lanes, NEW v \in Lanes,
               NEW i \in DOMAIN lanes'[u], NEW j \in DOMAIN lanes'[v], lanes'[u][i] = lanes'[v][j]
        PROVE  u = v /\ i = j
    <3>1. u = v
      <4>1. lanes'[u][i] \in ToSet(lanes[u]) /\ lanes'[v][j] \in ToSet(lanes[v])
        BY <1>11 DEF ToSet
      <4> QED  BY <4>1, <2>1, <1>8 DEF ToSet
    <3>2. CASE u = w  BY <3>1, <3>2, <2>1, <1>2, <1>4 DEF IsInjective
    <3>3. CASE u # w
      <4>1. lanes'[u] = lanes[u] /\ lanes'[v] = lanes[u]  BY <3>1, <3>3, <1>4
      <4>2. i \in DOMAIN lanes[u] /\ j \in DOMAIN lanes[u] /\ lanes[u][i] = lanes[u][j]
        BY <4>1, <2>1
      <4>3. i = j  BY <4>2, <1>8
      <4> QED  BY <3>1, <4>3
    <3> QED  BY <3>1, <3>2, <3>3
  <2>2. ToSet(input)' = ToSet(input)  BY <1>1 DEF ToSet
  <2>3. remaining \cap Placed = {} /\ remaining \cup Placed = ToSet(input)
    BY <1>1 DEF Inv, EveryTestOnce
  <2> QED  BY <1>1, <1>12, <2>1, <2>2, <2>3 DEF EveryTestOnce
<1>14. NothingPlacedYet'  BY <1>1 DEF NothingPlacedYet
<1> QED  BY <1>7, <1>10, <1>13, <1>14 DEF Inv

\* The steps that only move Build from one phase to the next.
LEMMA PhaseStepInv ==
    ASSUME Inv, \/ IndexPredictions \/ AllPlaced \/ StartRound \/ RoundsExhausted
                \/ NextLane \/ EndRound \/ Flatten \/ Returned
    PROVE  Inv'
<1>1. UNCHANGED <<arguments, placement>>
  BY DEF IndexPredictions, AllPlaced, StartRound, RoundsExhausted, NextLane, EndRound,
         Flatten, Returned, vars
<1>2. \/ phase = "index" /\ phase' \in {"admit", "error"}
      \/ phase \in {"place", "round", "refine", "flatten"} /\ phase' \in {"round", "refine", "flatten", "done", "error"}
      \/ phase \in {"done", "error"} /\ phase' = phase
  BY DEF IndexPredictions, AllPlaced, StartRound, RoundsExhausted, NextLane, EndRound,
         Flatten, Returned, vars
<1>3. LaneIsSequential'  BY <1>1, PlacementUnchanged
<1>4. EveryTestOnce'
  <2>1. CASE phase' = "error" \/ phase = "index"  BY <2>1, <1>2 DEF EveryTestOnce
  <2>2. CASE phase' # "error" /\ phase # "index"  BY <2>2, <1>1, <1>2, PlacementUnchanged
  <2> QED  BY <2>1, <2>2
<1>5. NothingPlacedYet'
  <2>1. CASE phase = "index"  BY <2>1, <1>1, PlacementUnchanged
  <2>2. CASE phase # "index"  BY <2>2, <1>2 DEF NothingPlacedYet
  <2> QED  BY <2>1, <2>2
<1>6. TypeOK'
  <2>1. input' = input /\ estimate' = estimate /\ UNCHANGED <<remaining, lanes, laneEnd, start>>
    BY <1>1 DEF arguments, placement
  <2>2. phase' \in Phases  BY <1>2 DEF Phases, Inv, TypeOK
  <2>3. round' \in 0 .. RefinementRounds /\ cursor' \in (0 .. Workers) \X (Nat \ {0}) /\ changed' \in BOOLEAN
    <3>1. CASE UNCHANGED refinement  BY <3>1 DEF refinement, Inv, TypeOK
    <3>2. CASE StartRound
      <4>1. <<0, 1>> \in (0 .. Workers) \X (Nat \ {0})  BY SchedulerAssumption
      <4> QED  BY <3>2, <4>1 DEF StartRound, Inv, TypeOK
    <3>3. CASE NextLane
      <4>1. cursor[1] + 1 \in 0 .. Workers  BY <3>3, SchedulerAssumption DEF NextLane, Lanes
      <4> QED  BY <3>3, <4>1 DEF NextLane, Inv, TypeOK
    <3>4. CASE EndRound
      <4>1. round + 1 \in 0 .. RefinementRounds
        BY <3>4, SchedulerAssumption DEF EndRound, Inv, TypeOK
      <4> QED  BY <3>4, <4>1 DEF EndRound, Inv, TypeOK
    <3> QED  BY <3>1, <3>2, <3>3, <3>4
         DEF IndexPredictions, AllPlaced, RoundsExhausted, Flatten, Returned, vars, refinement
  <2>4. phase' = "refine" => round' < RefinementRounds
    BY DEF IndexPredictions, AllPlaced, StartRound, RoundsExhausted, NextLane, EndRound,
           Flatten, Returned, vars, refinement, Inv, TypeOK
  <2> QED  BY <2>1, <2>2, <2>3, <2>4 DEF Inv, TypeOK
<1> QED  BY <1>3, <1>4, <1>5, <1>6 DEF Inv

(***************************************************************************)
(* Idle time, and what refinement may do.                                  *)
(***************************************************************************)

\* Test i of lane w starts when the lane is free, or waits for a conflict.
Justified(w, i) ==
    LET t == lanes[w][i]
        free == PreviousEnd(w, i)
    IN  \/ start[t] = free
        \/ \E o \in OtherLaneTests(w) :
              /\ start[o] <= free /\ free < End(o) /\ End(o) = start[t]
              /\ Hard(<<Probability(t, o), Unit>>)

\* A placed test starts at the end of its lane or where a conflict ends, and
\* the tests placed before keep their reasons.
LEMMA PlaceIdle ==
    ASSUME Inv, IdleIsJustified, NEW w \in Lanes, NEW t \in remaining, Place(w, t)
    PROVE  IdleIsJustified'
<1>1. phase = "place" /\ predictions' = predictions
  BY DEF Place, arguments
<1>2. PlacementOK /\ t \in Tests /\ t \notin Placed /\ \E s \in PlannedStart(t, w) : Appends(w, t, s)
  BY PlaceAppends
<1>3. PICK s \in PlannedStart(t, w) : Appends(w, t, s)  BY <1>2
<1>4. s \in Nat  BY <1>2, PlannedStartType DEF Inv
<1>5. \A a, b : Probability(a, b)' = Probability(a, b)
  BY <1>1 DEF Probability
<1>6. \A v \in Lanes : \A i \in DOMAIN lanes[v] : Justified(v, i)
  BY <1>1 DEF IdleIsJustified, Justified
<1>7. ASSUME NEW v \in Lanes, NEW i \in DOMAIN lanes'[v] PROVE Justified(v, i)'
  <2>1. PICK u, free : u = lanes'[v][i] /\ free = PreviousEnd(v, i)
    OBVIOUS
  <2>2. PreviousEnd(v, i)' = free  BY <2>1, <1>2, <1>3, <1>4, AppendFrame
  <2>3. \/ start'[u] = free
        \/ \E o \in OtherLaneTests(v) :
              /\ start[o] <= free /\ free < End(o) /\ End(o) = start'[u]
              /\ Hard(<<Probability(u, o), Unit>>)
    <3>1. CASE i \in DOMAIN lanes[v] /\ u = lanes[v][i] /\ u \in Placed
      <4>1. start'[u] = start[u]  BY <3>1, <1>2, <1>3, <1>4, AppendFrame
      <4>2. Justified(v, i)  BY <3>1, <1>6
      <4> QED  BY <2>1, <3>1, <4>1, <4>2 DEF Justified
    <3>2. CASE v = w /\ u = t /\ free = laneEnd[w]
      <4>1. start'[u] = s  BY <3>2, <1>2, <1>3, <1>4, AppendFrame
      <4>2. s = laneEnd[w] \/ s \in ConflictingEnds(t, laneEnd[w], w)  BY DEF PlannedStart
      <4> QED  BY <3>2, <4>1, <4>2 DEF ConflictingEnds
    <3> QED  BY <2>1, <3>1, <3>2, <1>2, <1>3, <1>4, AppendFrame
  <2>4. CASE start'[u] = free
    BY <2>1, <2>2, <2>4 DEF Justified
  <2>5. ASSUME NEW o \in OtherLaneTests(v), start[o] <= free, free < End(o), End(o) = start'[u],
               Hard(<<Probability(u, o), Unit>>)
        PROVE  Justified(v, i)'
    <3>1. o \in OtherLaneTests(v)' /\ start'[o] = start[o] /\ End(o)' = End(o)
      BY <1>2, <1>3, <1>4, AppendFrame
    <3>2. Hard(<<Probability(u, o), Unit>>)'
      <4>1. Hard(<<Probability(u, o), Unit>>)' <=> Hard(<<Probability(u, o)', Unit>>)  BY DEF Hard, Less
      <4> QED  BY <2>5, <1>5, <4>1
    <3> QED  BY <2>1, <2>2, <2>5, <3>1, <3>2 DEF Justified
  <2> QED  BY <2>3, <2>4, <2>5
<1> QED  BY <1>7 DEF IdleIsJustified, Justified

\* A trial swap, kept or undone, moves no test to another lane and ends its
\* lane no later.
LEMMA TrySwapStays ==
    ASSUME Inv, TrySwap, NEW w \in Lanes
    PROVE  ToSet(lanes'[w]) = ToSet(lanes[w]) /\ laneEnd'[w] <= laneEnd[w]
<1>1. PICK l \in Seq(Tests), st \in [Tests -> Nat] :
              /\ cursor[1] \in Lanes /\ IsInjective(l) /\ ToSet(l) = ToSet(lanes[cursor[1]])
              /\ Offsets(l)[Len(l)] = Offsets(lanes[cursor[1]])[Len(lanes[cursor[1]])]
              /\ lanes' = [lanes EXCEPT ![cursor[1]] = l]
              /\ laneEnd' = [laneEnd EXCEPT ![cursor[1]] = Offsets(l)[Len(l)]]
  BY TrySwapEffect
<1>2. /\ lanes \in [Lanes -> Seq(Tests)] /\ start \in [Tests -> Nat] /\ laneEnd \in [Lanes -> Nat]
      /\ estimate \in [Tests -> Int]
  BY SchedulerAssumption DEF Inv, TypeOK
<1>3. CASE w # cursor[1]
  BY <1>1, <1>2, <1>3
<1>4. CASE w = cursor[1]
  <2>1. lanes[w] \in Seq(Tests) /\ SeqLane(lanes[w], start, laneEnd[w])
    BY <1>2, LanesAreSeqLanes DEF Inv
  <2>2. Offsets(lanes[w])[Len(lanes[w])] <= laneEnd[w]
    BY <1>2, <2>1, OffsetsWithin
  <2> QED  BY <1>1, <1>2, <1>4, <2>2
<1> QED  BY <1>3, <1>4

(***************************************************************************)
(* The plan is never longer than a serial one.                             *)
(***************************************************************************)

\* No test of a lane ends after the lane.
LEMMA LaneEndIsLast ==
    ASSUME estimate \in [Tests -> Int], NEW l \in Seq(Tests), NEW st \in [Tests -> Nat],
           NEW e, SeqLane(l, st, e)
    PROVE  \A i \in 1 .. Len(l) : st[l[i]] + Dur(l[i]) <= e
<1> DEFINE prev(i) == IF i = 1 THEN 0 ELSE st[l[i - 1]] + Dur(l[i - 1])
           T == {n \in Nat : n <= Len(l) => \A i \in 0 .. n : prev(i + 1) <= prev(n + 1)}
<1>1. Len(l) \in Nat /\ \A k \in 1 .. Len(l) : l[k] \in Tests /\ st[l[k]] \in Nat /\ Dur(l[k]) \in Nat
  BY DurPositive
<1>2. e = prev(Len(l) + 1) /\ \A k \in 1 .. Len(l) : prev(k) <= st[l[k]]
  BY DEF SeqLane
<1>3. \A i \in 0 .. Len(l) : prev(i + 1) \in Nat
  <2> TAKE i \in 0 .. Len(l)
  <2>1. i + 1 # 1 => i \in 1 .. Len(l) /\ (i + 1) - 1 = i  BY <1>1
  <2> QED  BY <1>1, <2>1
<1>4. \A i \in 1 .. Len(l) : prev(i + 1) = st[l[i]] + Dur(l[i])
  <2> TAKE i \in 1 .. Len(l)
  <2>1. i + 1 # 1 /\ (i + 1) - 1 = i  BY <1>1
  <2> QED  BY <2>1
<1> HIDE DEF prev
<1>5. 0 \in T
  <2>1. prev(0 + 1) \in Nat  BY <1>1, <1>3
  <2> QED  BY <2>1
<1>6. ASSUME NEW n \in T PROVE n + 1 \in T
  <2>1. n \in Nat  OBVIOUS
  <2>2. ASSUME n + 1 <= Len(l), NEW i \in 0 .. n + 1 PROVE prev(i + 1) <= prev((n + 1) + 1)
    <3>1. n + 1 \in 1 .. Len(l) /\ n \in 0 .. Len(l) /\ n + 1 \in 0 .. Len(l)  BY <2>1, <2>2, <1>1
    <3>2. prev(n + 1) <= st[l[n + 1]] /\ prev((n + 1) + 1) = st[l[n + 1]] + Dur(l[n + 1])
      BY <3>1, <1>2, <1>4
    <3>3. st[l[n + 1]] \in Nat /\ Dur(l[n + 1]) \in Nat /\ prev(n + 1) \in Nat /\ prev((n + 1) + 1) \in Nat
      BY <3>1, <1>1, <1>3
    <3>4. CASE i = n + 1  BY <3>3, <3>4
    <3>5. CASE i # n + 1
      <4>1. i \in 0 .. n /\ i \in 0 .. Len(l)  BY <2>1, <2>2, <3>5
      <4>2. prev(i + 1) <= prev(n + 1) /\ prev(i + 1) \in Nat  BY <2>1, <2>2, <4>1, <1>1, <1>3, SMTT(30)
      <4> QED  BY <3>2, <3>3, <4>2
    <3> QED  BY <3>4, <3>5
  <2> QED  BY <2>1, <2>2
<1>7. Nat \subseteq T
  <2> HIDE DEF T
  <2>1. T \in SUBSET Nat  BY DEF T
  <2> QED  BY <1>5, <1>6, <2>1, SetInduction
<1>8. \A i \in 0 .. Len(l) : prev(i + 1) <= prev(Len(l) + 1)
  BY <1>1, <1>7
<1>9. ASSUME NEW i \in 1 .. Len(l) PROVE st[l[i]] + Dur(l[i]) <= e
  <2>1. i \in 0 .. Len(l)  BY <1>1
  <2> QED  BY <2>1, <1>2, <1>4, <1>8
<1> QED  BY <1>9

\* A bounded set of naturals has its maximum as an element.
LEMMA BoundedMax ==
    ASSUME NEW X \in SUBSET Nat, 0 \in X, NEW b \in Nat, \A x \in X : x <= b
    PROVE  Max(X) \in X /\ Max(X) <= b /\ \A x \in X : x <= Max(X)
<1> DEFINE U == {n \in Nat : \A x \in X : x <= n}
<1>1. PICK m \in U : \A n \in U : m <= n
  <2>1. U \in SUBSET Nat /\ U # {}  OBVIOUS
  <2> HIDE DEF U
  <2> QED  BY <2>1, LeastNat
<1>2. m \in X
  <2> SUFFICES ASSUME m \notin X PROVE FALSE  OBVIOUS
  <2>1. m \in Nat /\ m # 0  OBVIOUS
  <2>2. m - 1 \in Nat /\ \A x \in X : x <= m - 1  BY <2>1
  <2>3. m - 1 \in U  BY <2>2
  <2>4. m <= m - 1  BY <2>3, <1>1
  <2> QED  BY <2>1, <2>4
<1>3. \E x \in X : \A y \in X : x >= y  BY <1>2
<1>4. Max(X) \in X /\ \A y \in X : Max(X) >= y  BY <1>3 DEF Max
<1> QED  BY <1>4

\* Every lane ends within the serial time of the tests placed so far.
WithinSerial == \A w \in Lanes : laneEnd[w] <= Total(Placed)

\* No placed test ends after the serial time.
LEMMA EndsWithinSerial ==
    ASSUME PlacementOK, WithinSerial, NEW o \in Placed
    PROVE  End(o) \in Nat /\ End(o) <= Total(Placed)
<1>1. /\ lanes \in [Lanes -> Seq(Tests)] /\ laneEnd \in [Lanes -> Nat] /\ start \in [Tests -> Nat]
      /\ estimate \in [Tests -> Int]
  BY DEF PlacementOK
<1>2. Placed \in SUBSET Tests /\ Total(Placed) \in Nat
  BY <1>1, PlacedFacts, TotalAdd
<1>3. PICK v \in Lanes : \E i \in DOMAIN lanes[v] : o = lanes[v][i]
  BY <1>1, PlacedFacts
<1>4. lanes[v] \in Seq(Tests) /\ SeqLane(lanes[v], start, laneEnd[v])
  BY <1>1, LanesAreSeqLanes DEF PlacementOK
<1>5. PICK i \in 1 .. Len(lanes[v]) : o = lanes[v][i]  BY <1>3, <1>4
<1>6. End(o) <= laneEnd[v]
  BY <1>1, <1>4, <1>5, LaneEndIsLast DEF End
<1>7. End(o) \in Nat  BY <1>1, <1>2, DurPositive, SMTT(30) DEF End
<1>8. laneEnd[v] \in Nat /\ laneEnd[v] <= Total(Placed)  BY <1>1 DEF WithinSerial
<1> QED  BY <1>2, <1>6, <1>7, <1>8

\* A test that starts within the serial time of those before it ends within it.
LEMMA AppendWithinSerial ==
    ASSUME PlacementOK, WithinSerial, NEW w \in Lanes, NEW t \in Tests, t \notin Placed,
           NEW s \in Nat, laneEnd[w] <= s, s <= Total(Placed), Appends(w, t, s)
    PROVE  WithinSerial'
<1>1. /\ laneEnd \in [Lanes -> Nat] /\ estimate \in [Tests -> Int] /\ estimate' = estimate
      /\ laneEnd' = [laneEnd EXCEPT ![w] = s + Dur(t)]
  BY DEF PlacementOK, Appends
<1>2. Placed \in SUBSET Tests
  BY PlacedFacts DEF PlacementOK
<1>3. Placed' = Placed \cup {t}
  BY AppendTest
<1>4. /\ Total(Placed)' = Total(Placed) + Dur(t)
      /\ Total(Placed) \in Nat /\ Dur(t) \in Nat
  <2>1. PICK S : S = Placed \cup {t}  OBVIOUS
  <2>2. Total(S)' = Total(S)  BY <1>1, TotalFrame
  <2>3. Total(Placed)' = Total(S)'  BY <1>3, <2>1 DEF Total
  <2>4. Total(S) = Total(Placed) + Dur(t)  BY <1>1, <1>2, <2>1, TotalAdd
  <2> QED  BY <1>1, <1>2, <2>2, <2>3, <2>4, DurPositive, TotalAdd
<1>5. ASSUME NEW v \in Lanes PROVE laneEnd'[v] <= Total(Placed)'
  <2>1. laneEnd[v] <= Total(Placed) /\ laneEnd[v] \in Nat  BY <1>1 DEF WithinSerial
  <2>2. laneEnd'[v] = IF v = w THEN s + Dur(t) ELSE laneEnd[v]  BY <1>1
  <2> QED  BY <1>4, <2>1, <2>2
<1> QED  BY <1>5 DEF WithinSerial

\* Other steps keep the tests of every lane and end no lane later.
LEMMA KeepWithinSerial ==
    ASSUME lanes \in [Lanes -> Seq(Tests)], laneEnd \in [Lanes -> Nat], estimate \in [Tests -> Int],
           WithinSerial, estimate' = estimate, laneEnd' \in [Lanes -> Nat],
           \A w \in Lanes : ToSet(lanes'[w]) = ToSet(lanes[w]) /\ laneEnd'[w] <= laneEnd[w]
    PROVE  WithinSerial'
<1>1. Placed' = Placed
  <2>1. Placed' = UNION {ToSet(lanes'[v]) : v \in Lanes}  BY DEF Placed, ToSet
  <2> QED  BY <2>1 DEF Placed
<1>2. PICK S : S = Placed  OBVIOUS
<1>3. Total(S)' = Total(S) /\ Total(Placed)' = Total(S)'  BY <1>1, <1>2, TotalFrame DEF Total
<1>4. Placed \in SUBSET Tests  BY PlacedFacts
<1>5. Total(Placed) \in Nat  BY <1>4, TotalAdd
<1>6. Total(Placed)' = Total(Placed)  BY <1>2, <1>3
<1>7. ASSUME NEW w \in Lanes PROVE laneEnd'[w] <= Total(Placed)'
  <2>1. laneEnd[w] <= Total(Placed) /\ laneEnd[w] \in Nat /\ laneEnd'[w] \in Nat
    BY DEF WithinSerial
  <2> QED  BY <1>5, <1>6, <2>1
<1> QED  BY <1>7 DEF WithinSerial

\* Lanes that end within the serial time make a plan that does.
LEMMA MakespanWithinSerial ==
    ASSUME lanes \in [Lanes -> Seq(Tests)], laneEnd \in [Lanes -> Nat], estimate \in [Tests -> Int],
           WithinSerial
    PROVE  Makespan(laneEnd) <= MapThenSumSet(Dur, Placed)
<1> DEFINE X == {0} \cup {laneEnd[w] : w \in Lanes}
<1>1. Placed \in SUBSET Tests  BY PlacedFacts
<1>2. Total(Placed) \in Nat  BY <1>1, TotalAdd
<1>3. X \in SUBSET Nat /\ 0 \in X /\ \A x \in X : x <= Total(Placed)
  BY <1>2 DEF WithinSerial
<1>4. Max(X) <= Total(Placed)
  <2> HIDE DEF X
  <2> QED  BY <1>2, <1>3, BoundedMax
<1> QED  BY <1>4 DEF Makespan, Total

(***************************************************************************)
(* Risky pairs on two workers.                                             *)
(***************************************************************************)

\* The order of the tests of a lane.
LEMMA LaneOrder ==
    ASSUME estimate \in [Tests -> Int], NEW l \in Seq(Tests), NEW st \in [Tests -> Nat],
           NEW e, SeqLane(l, st, e)
    PROVE  \A j \in 1 .. Len(l) : \A i \in 1 .. Len(l) :
              i < j => st[l[i]] + Dur(l[i]) <= st[l[j]]
<1> DEFINE T == {n \in Nat : n \in 1 .. Len(l) => \A i \in 1 .. Len(l) :
                    i < n => st[l[i]] + Dur(l[i]) <= st[l[n]]}
<1>1. Len(l) \in Nat /\ \A k \in 1 .. Len(l) : l[k] \in Tests /\ st[l[k]] \in Nat /\ Dur(l[k]) \in Nat
  BY DurPositive
<1>2. \A k \in 1 .. Len(l) : k # 1 => st[l[k - 1]] + Dur(l[k - 1]) <= st[l[k]]
  BY DEF SeqLane
<1>3. 0 \in T
  OBVIOUS
<1>4. ASSUME NEW n \in T PROVE n + 1 \in T
  <2>1. n \in Nat  OBVIOUS
  <2>2. ASSUME n + 1 \in 1 .. Len(l), NEW i \in 1 .. Len(l), i < n + 1
        PROVE  st[l[i]] + Dur(l[i]) <= st[l[n + 1]]
    <3>1. n \in 1 .. Len(l) /\ n + 1 # 1 /\ (n + 1) - 1 = n  BY <2>1, <2>2, <1>1
    <3>2. st[l[n]] + Dur(l[n]) <= st[l[n + 1]]  BY <2>2, <3>1, <1>2
    <3>3. CASE i = n  BY <3>2, <3>3
    <3>4. CASE i # n
      <4>1. i < n  BY <2>1, <2>2, <3>4
      <4>2. st[l[i]] + Dur(l[i]) <= st[l[n]]  BY <3>1, <4>1
      <4>3. /\ st[l[i]] \in Nat /\ Dur(l[i]) \in Nat /\ st[l[n]] \in Nat /\ Dur(l[n]) \in Nat
            /\ st[l[n + 1]] \in Nat
        BY <2>2, <3>1, <1>1
      <4> HIDE DEF T
      <4>4. \A x, p, y, d, z \in Nat : x + p <= y /\ y + d <= z => x + p <= z
        OBVIOUS
      <4> QED  BY <3>2, <4>2, <4>3, <4>4, Zenon
    <3> QED  BY <3>3, <3>4
  <2>3. n + 1 \in Nat  BY <2>1
  <2> QED  BY <2>2, <2>3
<1>5. Nat \subseteq T
  <2> HIDE DEF T
  <2>1. T \in SUBSET Nat  BY DEF T
  <2> QED  BY <1>3, <1>4, <2>1, SetInduction
<1> QED  BY <1>1, <1>5

\* The larger of two numbers.
LEMMA MaxOfTwo ==
    ASSUME NEW a \in Int, NEW b \in Int
    PROVE  Max({a, b}) = IF a >= b THEN a ELSE b
<1>1. \E x \in {a, b} : \A y \in {a, b} : x >= y
  OBVIOUS
<1>2. Max({a, b}) \in {a, b} /\ \A y \in {a, b} : Max({a, b}) >= y
  BY <1>1 DEF Max
<1> QED  BY <1>2

\* The smaller of two numbers.
LEMMA MinOfTwo ==
    ASSUME NEW a \in Int, NEW b \in Int
    PROVE  Min({a, b}) = IF a <= b THEN a ELSE b
<1>1. \E x \in {a, b} : \A y \in {a, b} : x =< y
  OBVIOUS
<1>2. Min({a, b}) \in {a, b} /\ \A y \in {a, b} : Min({a, b}) =< y
  BY <1>1 DEF Min
<1> QED  BY <1>2

\* How long test o and a test that runs from s to e run together.
LEMMA OverlapFacts ==
    ASSUME start \in [Tests -> Nat], estimate \in [Tests -> Int], NEW o \in Tests,
           NEW s \in Nat, NEW d \in Nat, d > 0
    PROVE  /\ Overlap(s, s + d, o) \in Nat
           /\ Overlap(s, s + d, o) <= d /\ Overlap(s, s + d, o) <= Dur(o)
           /\ Overlap(s, s + d, o) > 0 <=> s < End(o) /\ start[o] < s + d
<1>1. start[o] \in Nat /\ Dur(o) \in Nat /\ Dur(o) > 0 /\ End(o) = start[o] + Dur(o)
  BY DurPositive DEF End
<1> DEFINE lo == Max({s, start[o]})
           hi == Min({s + d, End(o)})
<1>2. lo = (IF s >= start[o] THEN s ELSE start[o]) /\ hi = (IF s + d <= End(o) THEN s + d ELSE End(o))
  BY <1>1, MaxOfTwo, MinOfTwo
<1>3. lo \in Nat /\ hi \in Nat
  BY <1>1, <1>2
<1> HIDE DEF lo, hi
<1>4. Max({0, hi - lo}) = IF 0 >= hi - lo THEN 0 ELSE hi - lo
  BY <1>3, MaxOfTwo
<1>5. Overlap(s, s + d, o) = Max({0, hi - lo})
  BY DEF Overlap, lo, hi
<1> QED  BY <1>1, <1>2, <1>3, <1>4, <1>5

\* Two tests overlap each other for the same time.
LEMMA OverlapSymmetric ==
    ASSUME start \in [Tests -> Nat], estimate \in [Tests -> Int], NEW a \in Tests, NEW b \in Tests
    PROVE  Overlap(start[a], End(a), b) = Overlap(start[b], End(b), a)
<1>1. {End(a), End(b)} = {End(b), End(a)} /\ {start[a], start[b]} = {start[b], start[a]}
  OBVIOUS
<1> QED  BY <1>1 DEF Overlap

\* What NewRiskIndex returns of valid predictions is a probability.
LEMMA ProbabilityType ==
    ASSUME \A p \in predictions : ValidPrediction(p), NEW a, NEW b
    PROVE  Probability(a, b) \in Nat
<1> DEFINE found == {p.probability : p \in {q \in predictions : q.pair = {a, b}}}
           X == {0} \cup found
           U == {n \in Nat : \A x \in X : x <= n}
<1>1. X \in SUBSET Nat /\ \A x \in X : x <= Unit
  BY SchedulerAssumption DEF ValidPrediction
<1>2. 0 \in X /\ Unit \in U
  BY <1>1, SchedulerAssumption
<1> HIDE DEF X
<1>3. PICK m \in U : \A n \in U : m <= n
  <2>1. U \in SUBSET Nat /\ U # {}  BY <1>2
  <2> HIDE DEF U
  <2> QED  BY <2>1, LeastNat
<1>4. m \in X
  <2> SUFFICES ASSUME m \notin X PROVE FALSE  OBVIOUS
  <2>1. m \in Nat /\ m # 0  BY <1>2
  <2>2. m - 1 \in Nat /\ \A x \in X : x <= m - 1  BY <1>1, <2>1
  <2>3. m - 1 \in U  BY <2>2
  <2>4. m <= m - 1  BY <2>3, <1>3
  <2> QED  BY <2>1, <2>4
<1>5. \E x \in X : \A y \in X : x >= y
  BY <1>1, <1>4
<1>6. Max(X) \in X
  BY <1>5 DEF Max
<1> QED  BY <1>1, <1>6, SchedulerAssumption DEF Probability, X

\* The pair a, b is not risky for the time it overlaps.
Apart(a, b) ==
    LET shared == Overlap(start[a], End(a), b)
    IN  shared > 0 => ~Hard(<<Probability(a, b) * shared, Unit * Min({Dur(a), Dur(b)})>>)

\* It does not matter which test of the pair is named first.
ApartEitherWay == \A a, b \in Tests : Apart(a, b) => Apart(b, a)

\* The overlap, the probability and the shorter duration are symmetric.
LEMMA ApartSymmetric ==
    start \in [Tests -> Nat] /\ estimate \in [Tests -> Int] => ApartEitherWay
<1> SUFFICES ASSUME start \in [Tests -> Nat], estimate \in [Tests -> Int],
                    NEW a \in Tests, NEW b \in Tests, Apart(a, b)
             PROVE  Apart(b, a)
  BY DEF ApartEitherWay
<1>1. Overlap(start[a], End(a), b) = Overlap(start[b], End(b), a)
  BY OverlapSymmetric
<1>2. {a, b} = {b, a} /\ {Dur(a), Dur(b)} = {Dur(b), Dur(a)} /\ (a = b <=> b = a)
  OBVIOUS
<1>3. Probability(a, b) = Probability(b, a)
  BY <1>2 DEF Probability
<1> QED  BY <1>1, <1>2, <1>3 DEF Apart

\* A pair that is not risky as a whole is not risky for a part of the time.
LEMMA ShareOfRisk ==
    ASSUME NEW p \in Nat, NEW shared \in Nat, NEW m \in Nat, shared <= m, m > 0,
           ~Hard(<<p, Unit>>)
    PROVE  ~Hard(<<p * shared, Unit * m>>)
<1> DEFINE h == HardThreshold[1]
           k == HardThreshold[2]
           x == p * k
           y == h * Unit
<1>1. h \in Nat /\ k \in Nat /\ Unit \in Nat
  BY SchedulerAssumption
<1>2. x < y
  BY DEF Hard, Less
<1>3. x \in Nat /\ y \in Nat
  BY <1>1
<1>4. (p * shared) * k = shared * x /\ h * (Unit * m) = m * y
  BY <1>1
<1> HIDE DEF x, y
<1>5. shared * x <= m * x
  <2>1. (m - shared) * x >= 0 /\ (m - shared) * x = m * x - shared * x
    BY <1>3
  <2>2. m * x \in Nat /\ shared * x \in Nat
    BY <1>3
  <2> QED  BY <2>1, <2>2
<1>6. m * x < m * y
  <2>1. m * (y - x) > 0 /\ m * (y - x) = m * y - m * x
    BY <1>2, <1>3
  <2>2. m * x \in Nat /\ m * y \in Nat
    BY <1>3
  <2> QED  BY <2>1, <2>2
<1>7. shared * x < m * y
  <2>1. m * x \in Nat /\ m * y \in Nat /\ shared * x \in Nat
    BY <1>3
  <2> QED  BY <1>5, <1>6, <2>1
<1> QED  BY <1>4, <1>7 DEF Hard, Less

\* The running tests PlacementRisk counts.
Running(t, s, w) == {o \in OtherLaneTests(w) : Overlap(s, s + Dur(t), o) > 0}

\* Against a single test, the risk of a placement is that of the pair.
LEMMA RiskOfOne ==
    ASSUME start \in [Tests -> Nat], estimate \in [Tests -> Int],
           \A p \in predictions : ValidPrediction(p),
           NEW t \in Tests, NEW s \in Nat, NEW w, NEW o \in Tests, Running(t, s, w) = {o}
    PROVE  PlacementRisk(t, s, w) =
              <<Probability(t, o) * Overlap(s, s + Dur(t), o), Unit * Min({Dur(t), Dur(o)})>>
<1> DEFINE shorter(x) == Min({Dur(t), Dur(x)})
           whole(x) == Unit * shorter(x)
           clear(x) == whole(x) - Probability(t, x) * Min({shorter(x), Overlap(s, s + Dur(t), x)})
           DW(k) == k = [r \in SUBSET {o} |-> IF r = {} THEN 1 ELSE whole(AnyOf(r)) * k[r \ {AnyOf(r)}]]
           DC(k) == k = [r \in SUBSET {o} |-> IF r = {} THEN 1 ELSE clear(AnyOf(r)) * k[r \ {AnyOf(r)}]]
           W == (CHOOSE k : DW(k))[{o}]
           C == (CHOOSE k : DC(k))[{o}]
<1>1. PlacementRisk(t, s, w) = <<W - C, W>>
  BY DEF PlacementRisk, Product, MapThenFoldSet, AnyOf, Running
<1>2. /\ \A r \in SUBSET {o} : r # {} => r = {o} /\ AnyOf(r) = o
      /\ {o} \ {o} = {} /\ {o} # {} /\ {} \in SUBSET {o} /\ {o} \in SUBSET {o}
  BY DEF AnyOf
<1>3. /\ Dur(t) \in Nat /\ Dur(t) > 0 /\ Dur(o) \in Nat /\ Dur(o) > 0
      /\ Probability(t, o) \in Nat /\ Unit \in Nat
  BY DurPositive, ProbabilityType, SchedulerAssumption
<1>4. /\ Overlap(s, s + Dur(t), o) \in Nat
      /\ Overlap(s, s + Dur(t), o) <= Dur(t) /\ Overlap(s, s + Dur(t), o) <= Dur(o)
  BY <1>3, OverlapFacts
<1>5. shorter(o) \in Nat /\ Overlap(s, s + Dur(t), o) <= shorter(o)
  <2>1. shorter(o) = IF Dur(t) <= Dur(o) THEN Dur(t) ELSE Dur(o)
    BY <1>3, MinOfTwo
  <2> QED  BY <1>3, <1>4, <2>1
<1>6. Min({shorter(o), Overlap(s, s + Dur(t), o)}) = Overlap(s, s + Dur(t), o)
  <2> HIDE DEF shorter
  <2> QED  BY <1>4, <1>5, MinOfTwo
<1>7. whole(o) \in Int /\ clear(o) \in Int
      /\ clear(o) = whole(o) - Probability(t, o) * Overlap(s, s + Dur(t), o)
  <2> HIDE DEF shorter
  <2> QED  BY <1>3, <1>4, <1>5, <1>6
<1> HIDE DEF shorter, whole, clear
<1>8. W = whole(o)
  <2> DEFINE g == [r \in SUBSET {o} |-> IF r = {} THEN 1 ELSE whole(o) * 1]
  <2>1. DW(g)
    BY <1>2
  <2>2. DW(CHOOSE k : DW(k))
    <3> HIDE DEF DW
    <3> QED  BY <2>1
  <2>3. PICK k : k = CHOOSE j : DW(j)  OBVIOUS
  <2>4. DW(k)
    <3> HIDE DEF DW
    <3> QED  BY <2>2, <2>3
  <2>5. k[{}] = 1 /\ k[{o}] = whole(o) * k[{}]
    <3>1. \A r \in SUBSET {o} : k[r] = IF r = {} THEN 1 ELSE whole(AnyOf(r)) * k[r \ {AnyOf(r)}]
      BY <2>4
    <3>2. k[{}] = 1
      BY <3>1
    <3>3. k[{o}] = whole(AnyOf({o})) * k[{o} \ {AnyOf({o})}]
      BY <1>2, <3>1
    <3>4. AnyOf({o}) = o /\ {o} \ {o} = {}
      BY <1>2
    <3> QED  BY <3>2, <3>3, <3>4
  <2>6. k[{o}] = whole(o)
    BY <1>7, <2>5
  <2> HIDE DEF DW
  <2> QED  BY <2>3, <2>6
<1>9. C = clear(o)
  <2> DEFINE g == [r \in SUBSET {o} |-> IF r = {} THEN 1 ELSE clear(o) * 1]
  <2>1. DC(g)
    BY <1>2
  <2>2. DC(CHOOSE k : DC(k))
    <3> HIDE DEF DC
    <3> QED  BY <2>1
  <2>3. PICK k : k = CHOOSE j : DC(j)  OBVIOUS
  <2>4. DC(k)
    <3> HIDE DEF DC
    <3> QED  BY <2>2, <2>3
  <2>5. k[{}] = 1 /\ k[{o}] = clear(o) * k[{}]
    <3>1. \A r \in SUBSET {o} : k[r] = IF r = {} THEN 1 ELSE clear(AnyOf(r)) * k[r \ {AnyOf(r)}]
      BY <2>4
    <3>2. k[{}] = 1
      BY <3>1
    <3>3. k[{o}] = clear(AnyOf({o})) * k[{o} \ {AnyOf({o})}]
      BY <1>2, <3>1
    <3>4. AnyOf({o}) = o /\ {o} \ {o} = {}
      BY <1>2
    <3> QED  BY <3>2, <3>3, <3>4
  <2>6. k[{o}] = clear(o)
    BY <1>7, <2>5
  <2> HIDE DEF DC
  <2> QED  BY <2>3, <2>6
<1>10. whole(o) - clear(o) = Probability(t, o) * Overlap(s, s + Dur(t), o)
  <2>1. Probability(t, o) * Overlap(s, s + Dur(t), o) \in Int
    BY <1>3, <1>4
  <2> QED  BY <1>7, <2>1
<1> HIDE DEF W, C
<1>11. PlacementRisk(t, s, w) = <<Probability(t, o) * Overlap(s, s + Dur(t), o), whole(o)>>
  BY <1>1, <1>8, <1>9, <1>10
<1> QED  BY <1>11 DEF whole, shorter

\* NewRiskIndex has checked the predictions.
IndexChecked == phase \in {"admit", "place"} => \A p \in predictions : ValidPrediction(p)

\* No test starts after another lane has become free.
StartsInTime ==
    phase = "place" =>
        \A v, w \in Lanes : v # w => \A a \in ToSet(lanes[v]) : start[a] <= laneEnd[w]

\* Placement plans no risky overlap.
PlacementKeepsApart ==
    phase = "place" => \A v, w \in Lanes : v # w =>
        \A a \in ToSet(lanes[v]), b \in ToSet(lanes[w]) : Apart(a, b)

RiskInv == IndexChecked /\ StartsInTime /\ PlacementKeepsApart

\* At most one test of a lane runs when another lane becomes free.
LEMMA OneIsRunning ==
    ASSUME PlacementOK, StartsInTime, phase = "place", NEW w \in Lanes, NEW v \in Lanes, v # w,
           NEW a \in ToSet(lanes[v]), NEW b \in ToSet(lanes[v]),
           laneEnd[w] < End(a), laneEnd[w] < End(b)
    PROVE  a = b
<1>1. /\ lanes[v] \in Seq(Tests) /\ start \in [Tests -> Nat] /\ estimate \in [Tests -> Int]
      /\ laneEnd[w] \in Nat /\ SeqLane(lanes[v], start, laneEnd[v])
  BY LanesAreSeqLanes DEF PlacementOK
<1>2. \A x \in ToSet(lanes[v]) : \E k \in 1 .. Len(lanes[v]) : x = lanes[v][k]
  BY <1>1 DEF ToSet
<1> PICK i \in 1 .. Len(lanes[v]) : a = lanes[v][i]
  BY <1>2
<1> PICK j \in 1 .. Len(lanes[v]) : b = lanes[v][j]
  BY <1>2
<1>3. start[a] <= laneEnd[w] /\ start[b] <= laneEnd[w]
  BY DEF StartsInTime
<1>4. /\ i < j => End(a) <= start[b]
      /\ j < i => End(b) <= start[a]
  <2>1. \A m \in 1 .. Len(lanes[v]) : \A k \in 1 .. Len(lanes[v]) :
            k < m => start[lanes[v][k]] + Dur(lanes[v][k]) <= start[lanes[v][m]]
    BY <1>1, LaneOrder
  <2> QED  BY <2>1 DEF End
<1>5. a \in Tests /\ b \in Tests
  BY <1>1, SMTT(30)
<1>6. End(a) \in Nat /\ End(b) \in Nat /\ start[a] \in Nat /\ start[b] \in Nat
  <2>1. Dur(a) \in Nat /\ Dur(b) \in Nat
    BY <1>1, <1>5, DurPositive
  <2>2. start[a] \in Nat /\ start[b] \in Nat
    BY <1>1, <1>5
  <2> QED  BY <2>1, <2>2, SMTT(30) DEF End
<1>7. ~(i < j) /\ ~(j < i)
  <2>1. ~(End(a) <= start[b]) /\ ~(End(b) <= start[a])
    <3>1. \A x, y, z \in Nat : x <= y /\ y < z => ~(z <= x)
      OBVIOUS
    <3> QED  BY <1>1, <1>3, <1>6, <3>1
  <2> QED  BY <1>4, <2>1
<1>8. i = j
  <2>1. i \in Int /\ j \in Int
    BY <1>1
  <2> QED  BY <1>7, <2>1
<1> QED  BY <1>8

\* On two workers, a test is placed apart from every test it is risky with.
LEMMA PlacedApart ==
    ASSUME Workers <= 2, PlacementOK, RiskInv, phase = "place",
           NEW w \in Lanes, NEW t \in Tests, t \notin Placed, EarliestLane(w),
           NEW s \in PlannedStart(t, w), s \in Nat, laneEnd[w] <= s,
           NEW v \in Lanes, v # w, NEW o \in ToSet(lanes[v]), Overlap(s, s + Dur(t), o) > 0
    PROVE  ~Hard(<<Probability(t, o) * Overlap(s, s + Dur(t), o), Unit * Min({Dur(t), Dur(o)})>>)
<1> DEFINE now == laneEnd[w]
           m == Min({Dur(t), Dur(o)})
<1>0. /\ lanes \in [Lanes -> Seq(Tests)] /\ start \in [Tests -> Nat] /\ estimate \in [Tests -> Int]
      /\ now \in Nat
  BY DEF PlacementOK
<1>1. OtherLaneTests(w) = ToSet(lanes[v])
  <2>1. Lanes \ {w} = {v}
    BY SchedulerAssumption DEF Lanes
  <2> QED  BY <2>1 DEF OtherLaneTests
<1>2. \A x \in ToSet(lanes[v]) : x \in Tests
  <2>1. lanes[v] \in Seq(Tests)
    BY <1>0
  <2> QED  BY <2>1 DEF ToSet
<1>3. /\ o \in Tests /\ Dur(t) \in Nat /\ Dur(t) > 0 /\ Dur(o) \in Nat /\ Dur(o) > 0
      /\ Probability(t, o) \in Nat
  BY <1>0, <1>2, DurPositive, ProbabilityType DEF RiskInv, IndexChecked
<1>4. /\ Overlap(s, s + Dur(t), o) \in Nat
      /\ Overlap(s, s + Dur(t), o) <= Dur(t) /\ Overlap(s, s + Dur(t), o) <= Dur(o)
      /\ s < End(o) /\ start[o] < s + Dur(t)
  BY <1>0, <1>3, OverlapFacts
<1>5. End(o) \in Nat /\ start[o] \in Nat
  BY <1>0, <1>3 DEF End
<1>6. now < End(o) /\ start[o] <= now
  <2>1. start[o] <= now
    BY DEF RiskInv, StartsInTime
  <2> QED  BY <1>0, <1>4, <1>5, <2>1
<1>7. m \in Nat /\ m > 0 /\ Overlap(s, s + Dur(t), o) <= m
  <2>1. m = IF Dur(t) <= Dur(o) THEN Dur(t) ELSE Dur(o)
    BY <1>3, MinOfTwo
  <2> QED  BY <1>3, <1>4, <2>1
<1>8. CASE ~Hard(<<Probability(t, o), Unit>>)
  <2> HIDE DEF m
  <2>1. ~Hard(<<Probability(t, o) * Overlap(s, s + Dur(t), o), Unit * m>>)
    BY <1>3, <1>4, <1>7, <1>8, ShareOfRisk
  <2> QED  BY <2>1 DEF m
<1>9. CASE Hard(<<Probability(t, o), Unit>>)
  <2>1. \A x \in ToSet(lanes[v]) : now < End(x) => x = o
    BY <1>6, OneIsRunning DEF RiskInv
  <2>2. ConflictingEnds(t, now, w) = {End(o)}
    BY <1>1, <1>6, <1>9, <2>1 DEF ConflictingEnds
  <2>3. ~Hard(PlacementRisk(t, now, w)) /\ s = now
    <3>1. Hard(PlacementRisk(t, now, w)) => s = End(o)
      BY <2>2 DEF PlannedStart
    <3>2. s # End(o)
      BY <1>4, <1>5
    <3> QED  BY <3>1, <3>2 DEF PlannedStart
  <2>4. Running(t, now, w) = {o}
    <3>1. ASSUME NEW x \in ToSet(lanes[v]), Overlap(now, now + Dur(t), x) > 0 PROVE now < End(x)
      BY <1>0, <1>2, <1>3, <3>1, OverlapFacts
    <3> QED  BY <1>1, <2>1, <2>3, <3>1 DEF Running
  <2>5. PlacementRisk(t, now, w) =
            <<Probability(t, o) * Overlap(now, now + Dur(t), o), Unit * Min({Dur(t), Dur(o)})>>
    <3> HIDE DEF now
    <3> QED  BY <1>0, <1>3, <2>4, RiskOfOne DEF RiskInv, IndexChecked
  <2> QED  BY <2>3, <2>5
<1> QED  BY <1>8, <1>9

\* A step of the placement loop keeps risky pairs apart.
LEMMA PlaceRisk ==
    ASSUME Workers <= 2, Inv, RiskInv, NEW w \in Lanes, NEW t \in remaining, Place(w, t)
    PROVE  RiskInv'
<1>1. /\ phase = "place" /\ phase' = "place" /\ predictions' = predictions /\ estimate' = estimate
      /\ EarliestLane(w)
  BY DEF Place, arguments
<1>2. PlacementOK /\ t \in Tests /\ t \notin Placed /\ \E s \in PlannedStart(t, w) : Appends(w, t, s)
  BY PlaceAppends
<1>3. PICK s \in PlannedStart(t, w) : Appends(w, t, s)  BY <1>2
<1>4. s \in Nat /\ laneEnd[w] <= s  BY <1>2, PlannedStartType DEF Inv
<1>5. PlacementOK' /\ Placed' = Placed \cup {t}
  BY <1>2, <1>3, <1>4, AppendTest
<1>6. /\ lanes \in [Lanes -> Seq(Tests)] /\ start \in [Tests -> Nat] /\ laneEnd \in [Lanes -> Nat]
      /\ estimate \in [Tests -> Int]
  BY <1>2 DEF PlacementOK
<1>7. /\ start'[t] = s /\ \A x \in Placed : start'[x] = start[x]
      /\ laneEnd'[w] = s + Dur(t) /\ \A v \in Lanes \ {w} : laneEnd'[v] = laneEnd[v]
      /\ start' \in [Tests -> Nat] /\ estimate' \in [Tests -> Int]
  <2>1. Placed \subseteq Tests  BY <1>6, PlacedFacts
  <2> QED  BY <1>1, <1>2, <1>3, <1>4, <1>6, <2>1 DEF Appends
<1>8. ASSUME NEW v \in Lanes, NEW a \in ToSet(lanes'[v])
      PROVE  \/ a \in ToSet(lanes[v]) /\ a \in Placed
             \/ v = w /\ a = t
  <2>1. lanes'[v] = IF v = w THEN Append(lanes[v], t) ELSE lanes[v]
    BY <1>3, <1>6 DEF Appends
  <2>2. \A l \in Seq(Tests) : \A x \in ToSet(Append(l, t)) : x \in ToSet(l) \/ x = t
    <3> TAKE l \in Seq(Tests)
    <3> TAKE x \in ToSet(Append(l, t))
    <3>1. PICK i \in 1 .. Len(l) + 1 : x = Append(l, t)[i]
      BY <1>2 DEF ToSet
    <3>2. CASE i = Len(l) + 1  BY <1>2, <3>1, <3>2
    <3>3. CASE i # Len(l) + 1
      <4>1. i \in 1 .. Len(l)  BY <3>3
      <4>2. x = l[i]  BY <1>2, <3>1, <4>1
      <4> QED  BY <4>1, <4>2 DEF ToSet
    <3> QED  BY <3>2, <3>3
  <2>3. lanes[v] \in Seq(Tests) /\ ToSet(lanes[v]) \subseteq Placed
    BY <1>6, PlacedFacts
  <2>4. CASE v # w
    <3>1. a \in ToSet(lanes[v])
      BY <1>8, <2>1, <2>4
    <3> QED  BY <2>3, <3>1
  <2>5. CASE v = w
    <3>1. a \in ToSet(Append(lanes[v], t))
      BY <1>8, <2>1, <2>5
    <3>2. a \in ToSet(lanes[v]) \/ a = t
      BY <2>2, <2>3, <3>1
    <3> QED  BY <2>3, <2>5, <3>2
  <2> QED  BY <2>4, <2>5
<1>9. IndexChecked'
  BY <1>1 DEF RiskInv, IndexChecked, ValidPrediction
<1>10. Dur(t) \in Nat /\ Dur(t) > 0
  BY <1>2, <1>6, DurPositive
<1>11. \A v \in Lanes \ {w} : s <= laneEnd[v]
  <2> TAKE v \in Lanes \ {w}
  <2>0. laneEnd[w] \in Nat /\ laneEnd[v] \in Nat
    BY <1>6
  <2>1. CASE s = laneEnd[w]
    BY <1>1, <2>0, <2>1 DEF EarliestLane
  <2>2. CASE s \in ConflictingEnds(t, laneEnd[w], w)
    <3>1. PICK o \in OtherLaneTests(w) : s = End(o)
      BY <2>2 DEF ConflictingEnds
    <3>2. Lanes \ {w} = {v}
      BY SchedulerAssumption DEF Lanes
    <3>3. o \in ToSet(lanes[v])
      BY <3>1, <3>2 DEF OtherLaneTests
    <3>4. lanes[v] \in Seq(Tests) /\ SeqLane(lanes[v], start, laneEnd[v])
      BY <1>2, <1>6, LanesAreSeqLanes DEF PlacementOK
    <3>5. PICK i \in 1 .. Len(lanes[v]) : o = lanes[v][i]
      BY <3>3, <3>4 DEF ToSet
    <3> QED  BY <1>6, <3>1, <3>4, <3>5, LaneEndIsLast DEF End
  <2> QED  BY <2>1, <2>2 DEF PlannedStart
<1>12. StartsInTime'
  <2> SUFFICES ASSUME NEW u \in Lanes, NEW v \in Lanes, u # v, NEW a \in ToSet(lanes'[u])
               PROVE  start'[a] <= laneEnd'[v]
    BY DEF StartsInTime, ToSet, Lanes
  <2>1. CASE a \in ToSet(lanes[u]) /\ a \in Placed
    <3>1. start'[a] = start[a] /\ start[a] <= laneEnd[v]
      BY <1>1, <1>7, <2>1 DEF RiskInv, StartsInTime
    <3>2. laneEnd[v] <= laneEnd'[v]
      <4>1. laneEnd[v] \in Nat  BY <1>6
      <4>2. CASE v = w  BY <1>4, <1>7, <1>10, <4>1, <4>2
      <4>3. CASE v # w  BY <1>7, <4>1, <4>3
      <4> QED  BY <4>2, <4>3
    <3>3. start'[a] \in Nat /\ laneEnd[v] \in Nat /\ laneEnd'[v] \in Nat
      <4>1. a \in Tests  BY <1>6, <2>1, PlacedFacts
      <4> QED  BY <1>5, <1>6, <1>7, <4>1 DEF PlacementOK
    <3> QED  BY <3>1, <3>2, <3>3
  <2>2. CASE u = w /\ a = t
    BY <1>7, <1>11, <2>2
  <2> QED  BY <1>8, <2>1, <2>2
<1>13. ASSUME NEW a, NEW b PROVE Probability(a, b)' = Probability(a, b) /\ Dur(a)' = Dur(a) /\ Dur(b)' = Dur(b)
  BY <1>1 DEF Probability, Dur
<1>14. ASSUME NEW a \in Placed, NEW b \in Placed, Apart(a, b) PROVE Apart(a, b)'
  <2>1. start'[a] = start[a] /\ start'[b] = start[b]
    BY <1>7
  <2> QED  BY <1>13, <1>14, <2>1 DEF Apart, Overlap, End, Hard, Less
<1>15. ASSUME NEW v \in Lanes, v # w, NEW o \in ToSet(lanes[v]) PROVE Apart(t, o)'
  <2>1. o \in Placed
    BY <1>6, PlacedFacts
  <2>2. Overlap(start[t], End(t), o)' = Overlap(s, s + Dur(t), o)
    BY <1>7, <1>13, <2>1 DEF Overlap, End
  <2>3. Overlap(s, s + Dur(t), o) > 0 =>
            ~Hard(<<Probability(t, o) * Overlap(s, s + Dur(t), o), Unit * Min({Dur(t), Dur(o)})>>)
    BY <1>1, <1>2, <1>4, <1>15, PlacedApart
  <2> QED  BY <1>13, <2>2, <2>3 DEF Apart, Hard, Less
<1>16. ASSUME NEW a \in Tests, NEW b \in Tests, Apart(a, b)' PROVE Apart(b, a)'
  <2>1. (start \in [Tests -> Nat] /\ estimate \in [Tests -> Int])'
    BY <1>7
  <2>2. ApartEitherWay'
    BY <2>1, ApartSymmetric, PTL
  <2> QED  BY <1>16, <2>2 DEF ApartEitherWay
<1>17. PlacementKeepsApart'
  <2>1. ASSUME NEW u \in Lanes, NEW v \in Lanes, u # v,
               NEW a \in ToSet(lanes'[u]), NEW b \in ToSet(lanes'[v])
        PROVE  Apart(a, b)'
    <3>1. a \in Placed \cup {t} /\ b \in Placed \cup {t} /\ Placed \subseteq Tests
      BY <1>6, <1>8, PlacedFacts
    <3>2. CASE a \in ToSet(lanes[u]) /\ b \in ToSet(lanes[v])
      <4>1. Apart(a, b)
        BY <1>1, <2>1, <3>2 DEF RiskInv, PlacementKeepsApart
      <4>2. a \in Placed /\ b \in Placed
        BY <1>6, <3>2, PlacedFacts
      <4> QED  BY <1>14, <4>1, <4>2
    <3>3. CASE u = w /\ a = t /\ b \in ToSet(lanes[v])
      BY <1>15, <2>1, <3>3
    <3>4. CASE v = w /\ b = t /\ a \in ToSet(lanes[u])
      <4>1. Apart(t, a)'
        BY <1>15, <2>1, <3>4
      <4> QED  BY <1>2, <1>16, <3>1, <3>4, <4>1
    <3> QED  BY <1>8, <2>1, <3>2, <3>3, <3>4
  <2> QED  BY <2>1 DEF PlacementKeepsApart, Lanes, ToSet
<1> QED  BY <1>9, <1>12, <1>17 DEF RiskInv

(***************************************************************************)
(* The queues of the executor.                                             *)
(***************************************************************************)

\* A sorting has every element of its finite set, once.
LEMMA SeqsOfSet ==
    ASSUME NEW S, IsFiniteSet(S), NEW s \in SetToSeqs(S)
    PROVE  /\ s \in [1 .. Cardinality(S) -> S] /\ Cardinality(S) \in Nat
           /\ IsInjective(s)
           /\ \A x \in S : \E i \in 1 .. Cardinality(S) : s[i] = x
<1>1. Cardinality(S) \in Nat  BY FS_CardinalityType
<1>2. s \in [1 .. Cardinality(S) -> S] /\ IsInjective(s)
  BY DEF SetToSeqs, IsInjective
<1>3. s \in Injection(1 .. Cardinality(S), S)
  BY <1>2 DEF Injection
<1>4. Cardinality(1 .. Cardinality(S)) = Cardinality(S)
  BY <1>1, FS_Interval
<1>5. s \in Surjection(1 .. Cardinality(S), S)
  BY <1>3, <1>4, FS_Injection
<1> QED  BY <1>1, <1>2, <1>5 DEF Surjection

\* A sequence without repetitions is as long as the set of its elements.
LEMMA LengthIsCardinality ==
    ASSUME NEW l \in Seq(Tests), IsInjective(l)
    PROVE  /\ IsFiniteSet(ToSet(l)) /\ Cardinality(ToSet(l)) = Len(l)
           /\ l \in [1 .. Len(l) -> ToSet(l)] /\ l \in SetToSeqs(ToSet(l))
<1>1. Len(l) \in Nat /\ l \in [1 .. Len(l) -> Tests] /\ DOMAIN l = 1 .. Len(l)
  OBVIOUS
<1>2. l \in [1 .. Len(l) -> ToSet(l)] /\ \A x \in ToSet(l) : \E i \in 1 .. Len(l) : l[i] = x
  BY <1>1 DEF ToSet
<1>3. l \in Surjection(1 .. Len(l), ToSet(l)) /\ l \in Injection(1 .. Len(l), ToSet(l))
  BY <1>2 DEF Surjection, Injection
<1>4. IsFiniteSet(1 .. Len(l)) /\ Cardinality(1 .. Len(l)) = Len(l)
  BY <1>1, FS_Interval
<1>5. IsFiniteSet(ToSet(l)) /\ Cardinality(ToSet(l)) = Len(l)
  BY <1>3, <1>4, FS_Surjection
<1>6. \A i, j \in 1 .. Len(l) : i # j => l[i] # l[j]
  BY <1>1 DEF IsInjective
<1> QED  BY <1>2, <1>5, <1>6 DEF SetToSeqs

\* Sequence l lists its elements by strictly increasing starts st.
Increasing(l, st) == \A i, j \in 1 .. Len(l) : i < j => st[l[i]] < st[l[j]]

\* Sorting the elements of a sequence with increasing starts by their starts
\* gives that sequence back, and nothing else.
LEMMA OnlySorting ==
    ASSUME NEW l \in Seq(Tests), NEW st \in [Tests -> Nat], Increasing(l, st)
    PROVE  {s \in SetToSeqs(ToSet(l)) :
               \A i, j \in DOMAIN s : i < j => ~(st[s[j]] < st[s[i]])} = {l}
<1> DEFINE n == Len(l)
           Sorted(s) == \A i, j \in DOMAIN s : i < j => ~(st[s[j]] < st[s[i]])
<1>1. n \in Nat /\ DOMAIN l = 1 .. n /\ \A i \in 1 .. n : l[i] \in Tests /\ st[l[i]] \in Nat
  OBVIOUS
<1>2. \A i, j \in 1 .. n : i < j => st[l[i]] < st[l[j]]
  BY DEF Increasing
<1>3. IsInjective(l)
  <2>1. ASSUME NEW i \in 1 .. n, NEW j \in 1 .. n, l[i] = l[j], i # j PROVE FALSE
    <3>1. i < j \/ j < i  BY <2>1, <1>1
    <3>2. st[l[i]] < st[l[j]] \/ st[l[j]] < st[l[i]]  BY <3>1, <1>2
    <3> QED  BY <2>1, <3>2, <1>1
  <2> QED  BY <2>1, <1>1 DEF IsInjective
<1>4. /\ IsFiniteSet(ToSet(l)) /\ Cardinality(ToSet(l)) = n
      /\ l \in SetToSeqs(ToSet(l))
  BY <1>3, LengthIsCardinality
<1>5. Sorted(l)
  <2>1. ASSUME NEW i \in 1 .. n, NEW j \in 1 .. n, i < j PROVE ~(st[l[j]] < st[l[i]])
    <3>1. st[l[i]] < st[l[j]]  BY <2>1, <1>2
    <3> QED  BY <3>1, <1>1
  <2> QED  BY <2>1, <1>1
<1>6. ASSUME NEW s \in SetToSeqs(ToSet(l)), Sorted(s) PROVE s = l
  <2>1. /\ s \in [1 .. n -> ToSet(l)] /\ IsInjective(s) /\ DOMAIN s = 1 .. n
        /\ \A x \in ToSet(l) : \E i \in 1 .. n : s[i] = x
    BY <1>4, SeqsOfSet
  <2>2. \A i \in 1 .. n : \E j \in 1 .. n : s[i] = l[j]
    <3>1. \A x \in ToSet(l) : \E j \in 1 .. n : x = l[j]  BY <1>1 DEF ToSet
    <3>2. \A i \in 1 .. n : s[i] \in ToSet(l)  BY <2>1
    <3> QED  BY <3>1, <3>2
  <2>3. \A j \in 1 .. n : \E i \in 1 .. n : s[i] = l[j]
    BY <2>1, <1>1 DEF ToSet
  <2>4. \A i, j \in 1 .. n : i < j => ~(st[s[j]] < st[s[i]])
    BY <1>6, <2>1
  <2>5. \A i, j \in 1 .. n : s[i] = s[j] => i = j
    BY <2>1 DEF IsInjective
  <2> HIDE DEF n
  <2> DEFINE Same(k) == \A i \in 1 .. k : i <= n => s[i] = l[i]
             T == {k \in Nat : Same(k)}
  <2>6. 0 \in T  OBVIOUS
  <2>7. ASSUME NEW k \in T PROVE k + 1 \in T
    <3>1. k \in Nat /\ k + 1 \in Nat /\ Same(k)  OBVIOUS
    <3>2. ASSUME k + 1 <= n PROVE s[k + 1] = l[k + 1]
      <4>1. k + 1 \in 1 .. n /\ \A i \in 1 .. n : i < k + 1 => s[i] = l[i]
        BY <3>1, <3>2, <1>1
      <4>2. PICK j \in 1 .. n : s[k + 1] = l[j]  BY <4>1, <2>2
      <4>3. ~(j < k + 1)
        <5> SUFFICES ASSUME j < k + 1 PROVE FALSE  OBVIOUS
        <5>1. s[j] = s[k + 1]  BY <4>1, <4>2
        <5>2. j = k + 1  BY <5>1, <4>1, <2>5
        <5> QED  BY <5>2, <3>1
      <4>4. PICK i \in 1 .. n : s[i] = l[k + 1]  BY <4>1, <2>3
      <4>5. ~(i < k + 1)
        <5> SUFFICES ASSUME i < k + 1 PROVE FALSE  OBVIOUS
        <5>1. l[i] = l[k + 1]  BY <4>1, <4>4
        <5>2. st[l[i]] < st[l[k + 1]] /\ st[l[i]] \in Nat  BY <4>1, <1>1, <1>2
        <5> QED  BY <5>1, <5>2
      <4>6. CASE j = k + 1  BY <4>2, <4>6
      <4>7. CASE j # k + 1
        <5>1. k + 1 < j  BY <4>3, <4>7, <3>1, <1>1
        <5>2. st[l[k + 1]] < st[s[k + 1]]  BY <5>1, <4>1, <4>2, <1>2
        <5>3. i # k + 1
          <6>1. st[l[k + 1]] \in Nat  BY <4>1, <1>1
          <6> QED  BY <4>4, <5>2, <6>1
        <5>4. k + 1 < i  BY <4>5, <5>3, <3>1, <1>1
        <5>5. ~(st[s[i]] < st[s[k + 1]])  BY <5>4, <4>1, <2>4
        <5> QED  BY <4>4, <5>2, <5>5
      <4> QED  BY <4>6, <4>7
    <3>3. \A i \in 1 .. k + 1 : i \in 1 .. k \/ i = k + 1  BY <3>1
    <3>4. Same(k + 1)  BY <3>1, <3>2, <3>3
    <3> QED  BY <3>1, <3>4
  <2>8. Nat \subseteq T
    <3> HIDE DEF T
    <3>1. T \in SUBSET Nat  BY DEF T
    <3> QED  BY <2>6, <2>7, <3>1, SetInduction
  <2>9. Same(n)
    <3> HIDE DEF Same
    <3> QED  BY <2>8, <1>1 DEF n
  <2>10. \A i \in 1 .. n : s[i] = l[i]
    BY <2>9, <1>1 DEF n
  <2>11. l \in [1 .. n -> Tests]  BY DEF n
  <2>12. s = [i \in 1 .. n |-> s[i]] /\ l = [i \in 1 .. n |-> l[i]]
    BY <2>1, <2>11
  <2>13. [i \in 1 .. n |-> s[i]] = [i \in 1 .. n |-> l[i]]
    BY <2>10
  <2> QED  BY <2>12, <2>13
<1> HIDE DEF Sorted
<1>7. {s \in SetToSeqs(ToSet(l)) : Sorted(s)} = {l}
  BY <1>4, <1>5, <1>6
<1> QED  BY <1>7 DEF Sorted

\* The starts of a sequential lane increase.
LEMMA LaneStartsIncrease ==
    ASSUME PlacementOK, NEW w \in Lanes
    PROVE  Increasing(lanes[w], start)
<1>1. /\ lanes[w] \in Seq(Tests) /\ start \in [Tests -> Nat] /\ estimate \in [Tests -> Int]
      /\ SeqLane(lanes[w], start, laneEnd[w])
  BY LanesAreSeqLanes DEF PlacementOK
<1>2. \A j \in 1 .. Len(lanes[w]) : \A i \in 1 .. Len(lanes[w]) :
          i < j => start[lanes[w][i]] + Dur(lanes[w][i]) <= start[lanes[w][j]]
  BY <1>1, LaneOrder
<1>3. ASSUME NEW i \in 1 .. Len(lanes[w]), NEW j \in 1 .. Len(lanes[w]), i < j
      PROVE  start[lanes[w][i]] < start[lanes[w][j]]
  <2>1. lanes[w][i] \in Tests /\ lanes[w][j] \in Tests  BY <1>1
  <2>2. PICK a, b : a = lanes[w][i] /\ b = lanes[w][j]  OBVIOUS
  <2>3. start[a] + Dur(a) <= start[b]  BY <1>2, <1>3, <2>2
  <2>4. start[a] \in Nat /\ start[b] \in Nat /\ Dur(a) \in Nat /\ Dur(a) > 0
    BY <1>1, <2>1, <2>2, DurPositive
  <2> QED  BY <2>2, <2>3, <2>4
<1> QED  BY <1>3 DEF Increasing

\* The tests a schedule of all placed tests gives to a worker are its lane.
LEMMA TestsOfLane ==
    ASSUME PlacementOK, NEW w \in Lanes
    PROVE  {t \in Placed : LaneOf(t) = w} = ToSet(lanes[w])
<1>1. \A v \in Lanes : ToSet(lanes[v]) \subseteq Placed
  BY PlacedFacts DEF PlacementOK
<1>2. \A t \in Placed : \E v \in Lanes : t \in ToSet(lanes[v])
  BY DEF Placed
<1>3. \A t \in Placed : LaneOf(t) \in Lanes /\ t \in ToSet(lanes[LaneOf(t)])
  BY <1>2 DEF LaneOf
<1>4. ASSUME NEW t \in ToSet(lanes[w]) PROVE LaneOf(t) = w
  <2>1. t \in Placed  BY <1>1
  <2>2. LaneOf(t) \in Lanes /\ t \in ToSet(lanes[LaneOf(t)])  BY <2>1, <1>3
  <2> QED  BY <2>2 DEF ToSet, PlacementOK, OnceEach
<1> QED  BY <1>1, <1>3, <1>4

\* The finished schedule has exactly the tests in the lanes.
ScheduleIsComplete == phase = "done" => ToSet(schedule) = Placed

\* Flattening writes every placed test into the schedule.
LEMMA FlattenedFacts ==
    ASSUME PlacementOK, NEW s \in Flattened
    PROVE  ToSet(s) = Placed
<1>1. Placed \in SUBSET Tests  BY PlacedFacts DEF PlacementOK
<1>2. IsFiniteSet(Placed)  BY <1>1, FS_Subset, SchedulerAssumption
<1>3. s \in SetToSeqs(Placed)  BY DEF Flattened, Sortings, Placed
<1>4. /\ s \in [1 .. Cardinality(Placed) -> Placed]
      /\ \A x \in Placed : \E i \in 1 .. Cardinality(Placed) : s[i] = x
  BY <1>2, <1>3, SeqsOfSet
<1> QED  BY <1>4 DEF ToSet

\* A schedule of all placed tests hands every worker its lane.
LEMMA QueueIsLane ==
    ASSUME PlacementOK, ToSet(schedule) = Placed, NEW w \in Lanes
    PROVE  ByWorker(schedule, w) = {lanes[w]}
<1>1. {t \in ToSet(schedule) : LaneOf(t) = w} = ToSet(lanes[w])
  BY TestsOfLane
<1>2. Increasing(lanes[w], start)  BY LaneStartsIncrease
<1>3. lanes[w] \in Seq(Tests) /\ start \in [Tests -> Nat]  BY DEF PlacementOK
<1>4. ByWorker(schedule, w) =
        {s \in SetToSeqs(ToSet(lanes[w])) : \A i, j \in DOMAIN s : i < j => ~(start[s[j]] < start[s[i]])}
  BY <1>1 DEF ByWorker, Sortings
<1> QED  BY <1>2, <1>3, <1>4, OnlySorting

(***************************************************************************)
(* Theorems.                                                               *)
(***************************************************************************)

\* The inductive invariant holds in every state of every call of Build.
THEOREM InvariantHolds == Spec => []Inv
<1>1. Inv /\ [Next]_vars => Inv'
  <2> SUFFICES ASSUME Inv, [Next]_vars PROVE Inv'  OBVIOUS
  <2>1. CASE AdmitTests  BY <2>1, AdmitInv
  <2>2. ASSUME NEW w \in Lanes, NEW t \in remaining, Place(w, t) PROVE Inv'
    BY <2>2, PlaceInv
  <2>3. CASE TrySwap  BY <2>3, TrySwapInv
  <2>4. CASE \/ IndexPredictions \/ AllPlaced \/ StartRound \/ RoundsExhausted
             \/ NextLane \/ EndRound \/ Flatten \/ Returned
    BY <2>4, PhaseStepInv
  <2>5. CASE UNCHANGED vars
    BY <2>5 DEF vars, arguments, placement, refinement, Inv, TypeOK, NothingPlacedYet,
                EveryTestOnce, Placed, LaneIsSequential, PreviousEnd, End, Dur
  <2> QED  BY <2>1, <2>2, <2>3, <2>4, <2>5 DEF Next
<1> QED  BY InitInv, <1>1, PTL DEF Spec

\* Build's state is well typed: lane ends and starts are never negative and
\* refinement stops within its rounds.
THEOREM TypeCorrect == Spec => []TypeOK
  BY InvariantHolds, PTL DEF Inv

\* No admitted test is lost or scheduled twice, whatever the sizes, risks and
\* parameters, through placement, kept swaps and undone swaps.
THEOREM TestsConserved == Spec => []EveryTestOnce
  BY InvariantHolds, PTL DEF Inv

\* A worker is never planned to run two tests at once, and the lane end that
\* placement reads is the end of its last test.
THEOREM LanesSequential == Spec => []LaneIsSequential
  BY InvariantHolds, PTL DEF Inv

\* Placement leaves a worker idle only for a hard conflict that was running on
\* another worker when this one became free, and only until it ends.
THEOREM IdleJustified == Spec => []IdleIsJustified
<1>1. Init => IdleIsJustified
  BY DEF Init, IdleIsJustified
<1>2. Inv /\ IdleIsJustified /\ [Next]_vars => IdleIsJustified'
  <2> SUFFICES ASSUME Inv, IdleIsJustified, [Next]_vars PROVE IdleIsJustified'  OBVIOUS
  <2>1. ASSUME NEW w \in Lanes, NEW t \in remaining, Place(w, t) PROVE IdleIsJustified'
    BY <2>1, PlaceIdle
  <2>2. CASE AdmitTests
    <3>1. lanes' = lanes /\ \A w \in Lanes : lanes[w] = <<>>
      BY <2>2 DEF AdmitTests, Inv, NothingPlacedYet
    <3> QED  BY <3>1 DEF IdleIsJustified
  <2>3. CASE \/ IndexPredictions \/ AllPlaced \/ StartRound \/ RoundsExhausted
             \/ TrySwap \/ NextLane \/ EndRound \/ Flatten \/ Returned
    <3>1. phase' # "place"
      BY <2>3 DEF IndexPredictions, AllPlaced, StartRound, RoundsExhausted, TrySwap, NextLane,
                  EndRound, Flatten, Returned, vars
    <3> QED  BY <3>1 DEF IdleIsJustified
  <2>4. CASE UNCHANGED vars
    <3>1. UNCHANGED <<estimate, predictions, phase, lanes, start>>
      BY <2>4 DEF vars, arguments, placement
    <3>2. \A a, b : Probability(a, b)' = Probability(a, b)
      BY <3>1 DEF Probability
    <3>3. \A w, i : PreviousEnd(w, i)' = PreviousEnd(w, i)
      BY <3>1 DEF PreviousEnd, End, Dur
    <3>4. \A w : OtherLaneTests(w)' = OtherLaneTests(w)
      BY <3>1 DEF OtherLaneTests
    <3>5. \A o : End(o)' = End(o)
      BY <3>1 DEF End, Dur
    <3> QED  BY <3>1, <3>2, <3>3, <3>4, <3>5 DEF IdleIsJustified, Hard, Less
  <2> QED  BY <2>1, <2>2, <2>3, <2>4 DEF Next
<1> QED  BY InvariantHolds, <1>1, <1>2, PTL DEF Spec

\* Refinement keeps every test on its worker and never ends a lane later, for
\* swaps that are kept and swaps that are undone.
THEOREM RefinementInLane == Spec => RefinementStaysInLane
<1>1. Inv /\ [Next]_vars =>
        [phase = "refine" => \A w \in Lanes : /\ ToSet(lanes'[w]) = ToSet(lanes[w])
                                              /\ laneEnd'[w] <= laneEnd[w]]_vars
  <2> SUFFICES ASSUME Inv, Next, phase = "refine", NEW w \in Lanes
               PROVE  ToSet(lanes'[w]) = ToSet(lanes[w]) /\ laneEnd'[w] <= laneEnd[w]
    OBVIOUS
  <2>1. CASE TrySwap  BY <2>1, TrySwapStays
  <2>2. CASE NextLane \/ EndRound
    <3>1. lanes' = lanes /\ laneEnd' = laneEnd  BY <2>2 DEF NextLane, EndRound, placement
    <3>2. laneEnd[w] \in Nat  BY DEF Inv, TypeOK
    <3> QED  BY <3>1, <3>2
  <2> QED  BY <2>1, <2>2 DEF Next, IndexPredictions, AdmitTests, Place, AllPlaced, StartRound,
                             RoundsExhausted, Flatten, Returned
<1> QED  BY InvariantHolds, <1>1, PTL DEF Spec, RefinementStaysInLane

\* Waiting for conflicts, and refining, never make the plan longer than
\* running the placed tests one after the other.
THEOREM SerialIsTheWorst == Spec => []NeverWorseThanSerial
<1>1. Init => WithinSerial
  <2> SUFFICES ASSUME Init, NEW w \in Lanes PROVE laneEnd[w] <= Total(Placed)
    BY DEF WithinSerial
  <2>1. Placed \in SUBSET Tests /\ estimate \in [Tests -> Int]
    BY InitInv, PlacedFacts, SchedulerAssumption DEF Inv, TypeOK
  <2>2. laneEnd[w] = 0 /\ Total(Placed) \in Nat  BY <2>1, TotalAdd DEF Init
  <2> QED  BY <2>2
<1>2. Inv /\ WithinSerial /\ [Next]_vars => WithinSerial'
  <2> SUFFICES ASSUME Inv, WithinSerial, [Next]_vars PROVE WithinSerial'  OBVIOUS
  <2>1. /\ lanes \in [Lanes -> Seq(Tests)] /\ laneEnd \in [Lanes -> Nat]
        /\ estimate \in [Tests -> Int]
    BY SchedulerAssumption DEF Inv, TypeOK
  <2>2. ASSUME NEW w \in Lanes, NEW t \in remaining, Place(w, t) PROVE WithinSerial'
    <3>1. PlacementOK /\ t \in Tests /\ t \notin Placed /\ \E s \in PlannedStart(t, w) : Appends(w, t, s)
      BY <2>2, PlaceAppends
    <3>2. PICK s \in PlannedStart(t, w) : Appends(w, t, s)  BY <3>1
    <3>3. s \in Nat /\ laneEnd[w] <= s  BY <3>1, PlannedStartType DEF Inv
    <3>4. s <= Total(Placed)
      <4>1. CASE s = laneEnd[w]  BY <4>1 DEF WithinSerial
      <4>2. CASE s \in ConflictingEnds(t, laneEnd[w], w)
        <5>1. PICK o \in OtherLaneTests(w) : s = End(o)  BY <4>2 DEF ConflictingEnds
        <5>2. o \in Placed  BY <5>1 DEF OtherLaneTests, Placed
        <5> QED  BY <3>1, <5>1, <5>2, EndsWithinSerial
      <4> QED  BY <4>1, <4>2 DEF PlannedStart
    <3> QED  BY <3>1, <3>2, <3>3, <3>4, AppendWithinSerial
  <2>3. CASE TrySwap
    <3>1. Inv'  BY <2>3, TrySwapInv
    <3>2. laneEnd' \in [Lanes -> Nat]  BY <3>1 DEF Inv, TypeOK
    <3>3. estimate' = estimate  BY <2>3 DEF TrySwap, arguments
    <3>4. \A w \in Lanes : ToSet(lanes'[w]) = ToSet(lanes[w]) /\ laneEnd'[w] <= laneEnd[w]
      BY <2>3, TrySwapStays
    <3> QED  BY <2>1, <3>2, <3>3, <3>4, KeepWithinSerial
  <2>4. CASE UNCHANGED <<estimate, lanes, laneEnd>>
    <3>1. \A w \in Lanes : laneEnd[w] <= laneEnd[w]  BY <2>1
    <3> QED  BY <2>1, <2>4, <3>1, KeepWithinSerial
  <2> QED
    BY <2>2, <2>3, <2>4 DEF Next, IndexPredictions, AdmitTests, AllPlaced, StartRound, RoundsExhausted,
                            NextLane, EndRound, Flatten, Returned, vars, arguments, placement
<1>3. Inv /\ WithinSerial => NeverWorseThanSerial
  BY MakespanWithinSerial, SchedulerAssumption DEF Inv, TypeOK, NeverWorseThanSerial
<1> QED  BY InvariantHolds, <1>1, <1>2, <1>3, PTL DEF Spec

\* A step that moves no test and keeps the refinement begun adds no risky
\* overlap.
LEMMA NothingMoves ==
    ASSUME Inv, RiskyOverlapNeedsReflow,
           UNCHANGED <<estimate, predictions, lanes, start>>,
           phase = "refine" \/ round > 0 => phase' = "refine" \/ round' > 0
    PROVE  RiskyOverlapNeedsReflow'
<1>1. \A a, b : RiskyOverlap(a, b)' <=> RiskyOverlap(a, b)
  BY DEF RiskyOverlap, Probability, Overlap, End, Dur, Hard, Less
<1>2. \A w : WithoutGaps(w)' <=> WithoutGaps(w)
  BY DEF WithoutGaps, PreviousEnd, End, Dur
<1> QED  BY <1>1, <1>2 DEF RiskyOverlapNeedsReflow, Lanes, ToSet

\* A trial swap, kept or undone, leaves its own lane without gaps and every
\* other lane as it was.
LEMMA TrySwapReflows ==
    ASSUME Inv, TrySwap
    PROVE  \E w \in Lanes :
              /\ WithoutGaps(w)'
              /\ \A v \in Lanes \ {w} :
                    /\ lanes'[v] = lanes[v]
                    /\ \A a \in ToSet(lanes[v]) : start'[a] = start[a]
<1>0. PICK w \in Lanes : w = cursor[1]
  BY DEF TrySwap
<1>1. PICK l \in Seq(Tests), st \in [Tests -> Nat] :
              /\ IsInjective(l) /\ ToSet(l) = ToSet(lanes[w])
              /\ \A u \in Tests \ ToSet(l) : st[u] = start[u]
              /\ lanes' = [lanes EXCEPT ![w] = l]
              /\ start' = Reflow(l, st)
  BY <1>0, TrySwapEffect
<1>2. /\ lanes \in [Lanes -> Seq(Tests)] /\ estimate \in [Tests -> Int]
      /\ cursor[2] < Len(lanes[w]) /\ cursor[2] \in Nat \ {0}
      /\ estimate' = estimate
  BY <1>0, SchedulerAssumption DEF Inv, TypeOK, TrySwap, arguments
<1>3. /\ \A i \in 1 .. Len(l) : start'[l[i]] = Offsets(l)[i - 1]
      /\ \A u \in Tests \ ToSet(l) : start'[u] = st[u]
  BY <1>1, <1>2, ReflowFacts, ZenonT(40)
<1>4. lanes'[w] = l /\ \A v \in Lanes \ {w} : lanes'[v] = lanes[v]
  BY <1>1, <1>2
<1>5. Len(l) > 1
  <2>1. \A m \in Seq(Tests) : DOMAIN m = 1 .. Len(m) /\ Len(m) \in Nat  OBVIOUS
  <2>2. IsInjective(lanes[w])
    BY DEF TrySwap, Inv, EveryTestOnce, IsInjective
  <2>3. 1 \in DOMAIN lanes[w] /\ 2 \in DOMAIN lanes[w] /\ lanes[w] \in Seq(Tests)
    BY <1>2
  <2>4. lanes[w][1] # lanes[w][2]
    BY <2>2, <2>3 DEF IsInjective
  <2>5. lanes[w][1] \in ToSet(l) /\ lanes[w][2] \in ToSet(l)
    BY <1>1, <2>3 DEF ToSet
  <2>6. PICK i \in DOMAIN l : l[i] = lanes[w][1]  BY <2>5 DEF ToSet
  <2>7. PICK j \in DOMAIN l : l[j] = lanes[w][2]  BY <2>5 DEF ToSet
  <2>8. i # j  BY <2>4, <2>6, <2>7
  <2> QED  BY <2>1, <2>8
<1>6. WithoutGaps(w)'
  <2>1. /\ Offsets(l)[0] = 0
        /\ \A i \in 1 .. Len(l) : Offsets(l)[i] = Offsets(l)[i - 1] + Dur(l[i])
    BY <1>2, OffsetsRecursion
  <2>2. ASSUME NEW i \in DOMAIN l
        PROVE  start'[l[i]] = IF i = 1 THEN 0 ELSE start'[l[i - 1]] + Dur(l[i - 1])
    <3>1. i \in 1 .. Len(l) /\ DOMAIN l = 1 .. Len(l) /\ Len(l) \in Nat  OBVIOUS
    <3>2. start'[l[i]] = Offsets(l)[i - 1]  BY <1>3, <3>1
    <3>3. CASE i = 1
      <4>1. i - 1 = 0  BY <3>3
      <4> QED  BY <3>2, <3>3, <4>1, <2>1
    <3>4. CASE i # 1
      <4>1. i - 1 \in 1 .. Len(l)  BY <3>1, <3>4
      <4>2. start'[l[i - 1]] = Offsets(l)[(i - 1) - 1]  BY <1>3, <4>1
      <4>3. Offsets(l)[i - 1] = Offsets(l)[(i - 1) - 1] + Dur(l[i - 1])  BY <2>1, <4>1
      <4> QED  BY <3>2, <3>4, <4>2, <4>3
    <3> QED  BY <3>3, <3>4
  <2>3. \A i : PreviousEnd(w, i)' = IF i = 1 THEN 0 ELSE start'[l[i - 1]] + Dur(l[i - 1])
    BY <1>2, <1>4 DEF PreviousEnd, End, Dur
  <2>4. Len(lanes'[w]) > 1 /\ \A i \in DOMAIN lanes'[w] : start'[lanes'[w][i]] = PreviousEnd(w, i)'
    BY <1>4, <1>5, <2>2, <2>3, SMTT(30)
  <2> QED  BY <2>4 DEF WithoutGaps
<1>7. ASSUME NEW v \in Lanes, v # w, NEW a \in ToSet(lanes[v]) PROVE start'[a] = start[a]
  <2>1. a \in Tests  BY <1>2, PlacedFacts
  <2>2. a \notin ToSet(l)
    <3>1. PICK i \in DOMAIN lanes[v] : lanes[v][i] = a  BY DEF ToSet
    <3>2. \A j \in DOMAIN lanes[w] : lanes[w][j] # a
      BY <1>2, <1>7, <3>1 DEF TrySwap, Inv, EveryTestOnce
    <3>3. a \notin ToSet(lanes[w])  BY <3>2 DEF ToSet
    <3> QED  BY <1>1, <3>3
  <2> QED  BY <1>1, <1>3, <2>1, <2>2
<1> QED  BY <1>4, <1>6, <1>7

\* A trial swap adds risky overlaps with the tests of its own lane only.
LEMMA TrySwapRisk ==
    ASSUME Inv, RiskyOverlapNeedsReflow, TrySwap
    PROVE  RiskyOverlapNeedsReflow'
<1>1. PICK w \in Lanes :
         /\ WithoutGaps(w)'
         /\ \A v \in Lanes \ {w} : lanes'[v] = lanes[v] /\ \A a \in ToSet(lanes[v]) : start'[a] = start[a]
  BY TrySwapReflows
<1>2. UNCHANGED <<estimate, predictions, phase>> /\ phase = "refine"
  BY DEF TrySwap, arguments
<1> SUFFICES ASSUME NEW u \in Lanes, NEW v \in Lanes, u # v,
                    NEW a \in ToSet(lanes'[u]), NEW b \in ToSet(lanes'[v]), RiskyOverlap(a, b)'
             PROVE  WithoutGaps(u)' \/ WithoutGaps(v)'
  BY <1>2 DEF RiskyOverlapNeedsReflow, Lanes, ToSet
<1>3. CASE u = w \/ v = w  BY <1>1, <1>3
<1>4. CASE u # w /\ v # w
  <2>1. /\ a \in ToSet(lanes[u]) /\ b \in ToSet(lanes[v])
        /\ start'[a] = start[a] /\ start'[b] = start[b]
    BY <1>1, <1>4
  <2>2. RiskyOverlap(a, b)
    BY <1>2, <2>1 DEF RiskyOverlap, Probability, Overlap, End, Dur, Hard, Less
  <2>3. WithoutGaps(u) \/ WithoutGaps(v)
    BY <2>1, <2>2 DEF RiskyOverlapNeedsReflow
  <2>4. ASSUME NEW x \in {u, v}, WithoutGaps(x) PROVE WithoutGaps(x)'
    <3>1. x \in Lanes \ {w} /\ lanes'[x] = lanes[x]  BY <1>1, <1>4
    <3>2. /\ lanes[x] \in Seq(Tests) /\ DOMAIN lanes[x] = 1 .. Len(lanes[x])
          /\ Len(lanes[x]) \in Nat
      <4>1. lanes \in [Lanes -> Seq(Tests)]  BY DEF Inv, TypeOK
      <4>2. lanes[x] \in Seq(Tests)  BY <3>1, <4>1
      <4> QED  BY <4>2
    <3>3. \A i \in 1 .. Len(lanes[x]) : start'[lanes[x][i]] = start[lanes[x][i]]
      BY <1>1, <3>1, <3>2 DEF ToSet
    <3>4. \A i \in 1 .. Len(lanes[x]) : PreviousEnd(x, i)' = PreviousEnd(x, i)
      <4> TAKE i \in 1 .. Len(lanes[x])
      <4>1. CASE i = 1  BY <4>1 DEF PreviousEnd
      <4>2. CASE i # 1
        <5>1. i - 1 \in 1 .. Len(lanes[x])  BY <3>2, <4>2
        <5>2. start'[lanes[x][i - 1]] = start[lanes[x][i - 1]]  BY <3>3, <5>1
        <5> QED  BY <1>2, <3>1, <4>2, <5>2 DEF PreviousEnd, End, Dur
      <4> QED  BY <4>1, <4>2
    <3> QED  BY <2>4, <3>1, <3>2, <3>3, <3>4 DEF WithoutGaps
  <2> QED  BY <2>3, <2>4
<1> QED  BY <1>3, <1>4

\* With two workers (or one), for any tests, durations, predictions and
\* parameters: placement plans no overlap of two tests whose predicted
\* conflict, weighted by exposure, reaches the hard threshold, so a schedule
\* that was not refined (more than 64 tests) has none; a refined one has none
\* but those with a lane of several tests that a reflow left without gaps.
\* With more workers a test may be delayed to the end of one conflict into
\* another.
THEOREM RiskyOverlapsNeedReflow ==
    ASSUME Workers <= 2
    PROVE  Spec => []RiskyOverlapNeedsReflow
<1>1. Init => RiskInv /\ RiskyOverlapNeedsReflow
  <2> SUFFICES ASSUME Init PROVE RiskInv /\ RiskyOverlapNeedsReflow  OBVIOUS
  <2>1. RiskInv
    BY DEF Init, RiskInv, IndexChecked, StartsInTime, PlacementKeepsApart
  <2>2. \A w \in Lanes : ToSet(lanes[w]) = {}
    BY DEF Init, ToSet
  <2> QED  BY <2>1, <2>2 DEF RiskyOverlapNeedsReflow
<1>2. Inv /\ RiskInv /\ [Next]_vars => RiskInv'
  <2> SUFFICES ASSUME Inv, RiskInv, [Next]_vars PROVE RiskInv'  OBVIOUS
  <2>1. ASSUME NEW w \in Lanes, NEW t \in remaining, Place(w, t) PROVE RiskInv'
    BY <2>1, PlaceRisk
  <2>2. CASE IndexPredictions
    <3>1. IndexChecked' /\ phase' # "place"
      BY <2>2 DEF IndexPredictions, IndexChecked, ValidPrediction, arguments
    <3> QED  BY <3>1 DEF RiskInv, StartsInTime, PlacementKeepsApart
  <2>3. CASE AdmitTests
    <3>1. /\ phase = "admit" /\ predictions' = predictions
          /\ \A w \in Lanes : ToSet(lanes[w])' = {}
      BY <2>3 DEF AdmitTests, arguments, Inv, NothingPlacedYet, ToSet
    <3>2. IndexChecked'
      BY <3>1 DEF RiskInv, IndexChecked, ValidPrediction
    <3> QED  BY <3>1, <3>2 DEF RiskInv, StartsInTime, PlacementKeepsApart, Lanes
  <2>4. CASE AllPlaced \/ StartRound \/ RoundsExhausted \/ TrySwap \/ NextLane \/ EndRound \/ Flatten \/ Returned
    <3>1. phase' \notin {"admit", "place"}
      BY <2>4 DEF AllPlaced, StartRound, RoundsExhausted, TrySwap, NextLane, EndRound, Flatten,
                  Returned, vars
    <3> QED  BY <3>1 DEF RiskInv, IndexChecked, StartsInTime, PlacementKeepsApart
  <2>5. CASE UNCHANGED vars
    <3>1. UNCHANGED <<estimate, predictions, phase, lanes, laneEnd, start>>
      BY <2>5 DEF vars, arguments, placement
    <3>2. \A a, b : Probability(a, b)' = Probability(a, b) /\ Dur(a)' = Dur(a)
      BY <3>1 DEF Probability, Dur
    <3>3. \A s, e, o : Overlap(s, e, o)' = Overlap(s, e, o) /\ End(o)' = End(o)
      BY <3>1 DEF Overlap, End, Dur
    <3>4. IndexChecked' /\ StartsInTime'
      BY <3>1 DEF RiskInv, IndexChecked, ValidPrediction, StartsInTime, Lanes
    <3>5. PlacementKeepsApart'
      BY <3>1, <3>2, <3>3 DEF RiskInv, PlacementKeepsApart, Apart, Hard, Less, Lanes
    <3> QED  BY <3>4, <3>5 DEF RiskInv
  <2> QED  BY <2>1, <2>2, <2>3, <2>4, <2>5 DEF Next
<1>3. Inv /\ RiskInv /\ RiskyOverlapNeedsReflow /\ RiskInv' /\ [Next]_vars => RiskyOverlapNeedsReflow'
  <2> SUFFICES ASSUME Inv, RiskInv, RiskyOverlapNeedsReflow, RiskInv', [Next]_vars
               PROVE  RiskyOverlapNeedsReflow'
    OBVIOUS
  <2>1. ASSUME NEW w \in Lanes, NEW t \in remaining, Place(w, t) PROVE RiskyOverlapNeedsReflow'
    <3>1. phase' = "place"  BY <2>1 DEF Place
    <3> QED  BY <3>1 DEF RiskInv, PlacementKeepsApart, Apart, RiskyOverlapNeedsReflow, RiskyOverlap
  <2>2. CASE TrySwap  BY <2>2, TrySwapRisk
  <2>3. CASE IndexPredictions \/ AdmitTests \/ AllPlaced \/ StartRound \/ RoundsExhausted \/ NextLane
             \/ EndRound \/ Flatten \/ Returned \/ UNCHANGED vars
    <3>1. UNCHANGED <<estimate, predictions, lanes, start>>
      BY <2>3 DEF IndexPredictions, AdmitTests, AllPlaced, StartRound, RoundsExhausted, NextLane,
                  EndRound, Flatten, Returned, vars, arguments, placement
    <3>2. round \in Nat  BY DEF Inv, TypeOK
    <3>3. phase = "refine" \/ round > 0 => phase' = "refine" \/ round' > 0
      BY <2>3, <3>2 DEF IndexPredictions, AdmitTests, AllPlaced, StartRound, RoundsExhausted, NextLane,
                  EndRound, Flatten, Returned, vars, refinement
    <3> QED  BY <3>1, <3>3, NothingMoves
  <2> QED  BY <2>1, <2>2, <2>3 DEF Next
<1> QED  BY InvariantHolds, <1>1, <1>2, <1>3, PTL DEF Spec

\* However the unstable sorts of the code order tests of equal start, the
\* queue derived from a finished schedule for a worker is the lane that was
\* planned for it, test by test.
THEOREM QueuesFollowLanes == Spec => []DispatchFollowsLanes
<1>1. Init => ScheduleIsComplete
  BY DEF Init, ScheduleIsComplete
<1>2. Inv /\ ScheduleIsComplete /\ [Next]_vars => ScheduleIsComplete'
  <2> SUFFICES ASSUME Inv, ScheduleIsComplete, [Next]_vars, phase' = "done"
               PROVE  ToSet(schedule)' = Placed'
    BY DEF ScheduleIsComplete
  <2>1. CASE Flatten
    <3>1. schedule' \in Flattened /\ phase = "flatten" /\ lanes' = lanes
      BY <2>1 DEF Flatten, placement
    <3>2. PlacementOK
      BY <3>1, SchedulerAssumption DEF Inv, TypeOK, EveryTestOnce, PlacementOK, OnceEach
    <3>3. ToSet(schedule') = Placed  BY <3>1, <3>2, FlattenedFacts
    <3>4. ToSet(schedule)' = ToSet(schedule') /\ Placed' = Placed  BY <3>1 DEF ToSet, Placed
    <3> QED  BY <3>3, <3>4
  <2>2. CASE Returned \/ UNCHANGED vars
    <3>1. phase = "done" /\ schedule' = schedule /\ lanes' = lanes
      BY <2>2 DEF Returned, vars, placement
    <3>2. ToSet(schedule)' = ToSet(schedule) /\ Placed' = Placed  BY <3>1 DEF ToSet, Placed
    <3> QED  BY <3>1, <3>2 DEF ScheduleIsComplete
  <2>3. CASE Next /\ ~Flatten /\ ~Returned
    <3>1. phase' # "done"
      BY <2>3 DEF Next, IndexPredictions, AdmitTests, Place, AllPlaced, StartRound, RoundsExhausted,
                  TrySwap, NextLane, EndRound
    <3> QED  BY <3>1
  <2> QED  BY <2>1, <2>2, <2>3
<1>3. Inv /\ ScheduleIsComplete => DispatchFollowsLanes
  <2> SUFFICES ASSUME Inv, ScheduleIsComplete, phase = "done", NEW w \in Lanes
               PROVE  ByWorker(schedule, w) = {lanes[w]}
    BY DEF DispatchFollowsLanes
  <2>1. PlacementOK
    BY SchedulerAssumption DEF Inv, TypeOK, EveryTestOnce, PlacementOK, OnceEach
  <2> QED  BY <2>1, QueueIsLane DEF ScheduleIsComplete
<1> QED  BY InvariantHolds, <1>1, <1>2, <1>3, PTL DEF Spec
=============================================================================
