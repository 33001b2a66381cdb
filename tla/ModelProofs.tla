----------------------------- MODULE ModelProofs -----------------------------
(***************************************************************************)
(* Proofs about ModelLifecycle, for every set of pairs and scores and any  *)
(* number of epochs and trainings: the split fills every part and keeps    *)
(* the pressures level, the saved checkpoint is the best one, and readers  *)
(* use exactly the weights that a finished training describes.             *)
(***************************************************************************)
EXTENDS ModelLifecycle, FiniteSetTheorems, TLAPS

Files == [state : {"absent", "torn", "whole"}, from : Nat, epoch : Nat]
Descriptions ==
    [state : {"absent", "torn", "whole"}, schema : {"current", "older"}, checksum : Files]

\* Type correctness of everything but the dataset, which the artifact does
\* not depend on.
TypesOK ==
    /\ phase \in {"idle", "split", "fit", "fitted", "weights", "hash", "describe", "metadata", "saved"}
    /\ scores \in Seq(Scores \cup {NoScore})
    /\ best \in [epoch : Nat, score : Int]
    /\ stale \in Nat
    /\ training \in Nat
    /\ weights \in Files
    /\ digest \in Files
    /\ metadata \in Descriptions
    /\ finished \in BOOLEAN
    /\ reader \in [at : {"idle", "metadata", "check", "load", "done"}, metadata : Descriptions,
                   loaded : Files, mode : {"heuristic", "model", "none"}, empty : BOOLEAN,
                   fresh : BOOLEAN, raced : BOOLEAN, missing : BOOLEAN]

\* The kept checkpoint against all epochs so far; nothing is kept only while
\* no epoch had a score.
BestSoFar ==
    IF best = NoCheckpoint
    THEN \A i \in 1 .. Len(scores) : scores[i] = NoScore
    ELSE /\ best.epoch \in 1 .. Len(scores)
         /\ scores[best.epoch] = best.score
         /\ best.score \in Nat
         /\ stale = Len(scores) - best.epoch
         /\ \A i \in 1 .. Len(scores) : scores[i] <= best.score + 1

\* Why training ended, and what model.pt then holds.
Stopped ==
    /\ phase \in {"fitted", "weights", "hash"} /\ best # NoCheckpoint =>
          (Len(scores) < Epochs => stale >= Patience)
    /\ phase = "hash" => weights.epoch = best.epoch

\* A complete artifact that describes itself.
Described ==
    /\ weights.state = "whole"
    /\ metadata = Metadata("whole", "current", weights)

\* The order in which save writes its two files.
SaveOrder ==
    /\ phase = "hash" => weights.state = "whole"
    /\ phase \in {"describe", "metadata"} => weights.state = "whole" /\ digest = weights
    /\ phase \in {"weights", "hash", "describe", "metadata"} => ~finished
    /\ finished => Described

\* What a replay that no save disturbed knows.
Undisturbed ==
    ~reader.raced =>
        /\ At("load") => /\ reader.metadata.schema = "current"
                         /\ weights = reader.metadata.checksum
        /\ Reading => reader.mode = "heuristic"
        /\ Reading /\ reader.fresh => /\ Described
                                      /\ ~At("metadata") => reader.metadata = metadata

FitInv == TypesOK /\ BestSoFar /\ Stopped
ArtifactInv == TypesOK /\ SaveOrder /\ Undisturbed /\ OnlyDescribedWeightsPredict /\ FinishedModelIsUsed
-----------------------------------------------------------------------------

\* The steps of a replay leave the training and the files alone.
LEMMA ReplayReads ==
  ASSUME ReadStep
  PROVE  UNCHANGED <<phase, data, scores, best, stale, training, digest, weights, metadata, finished>>
  BY DEF ReadStep, LookForModel, ReadMetadata, CheckWeights, NoTorch, LoadWeights, ReadTrain,
         fitVars, disk

\* Type correctness is inductive.
LEMMA TypesInitially == Init => TypesOK
<1> SUFFICES ASSUME Init PROVE TypesOK
  OBVIOUS
<1>1. Absent \in Files /\ File("whole", 0, 1) \in Files
  BY DEF Absent, File, Files
<1>2. metadata \in Descriptions /\ NoMetadata \in Descriptions
  BY <1>1 DEF Init, NoMetadata, Metadata, Descriptions
<1>3. reader \in [at : {"idle", "metadata", "check", "load", "done"}, metadata : Descriptions,
                   loaded : Files, mode : {"heuristic", "model", "none"}, empty : BOOLEAN,
                   fresh : BOOLEAN, raced : BOOLEAN, missing : BOOLEAN]
  BY <1>1, <1>2 DEF Init, IdleReader
<1>4. best \in [epoch : Nat, score : Int]
  BY DEF Init, NoCheckpoint, Nowhere
<1>5. phase = "idle" /\ scores = <<>> /\ stale = 0 /\ training = 0 /\ finished = FALSE
  BY DEF Init
<1>6. weights \in Files /\ digest \in Files
  BY <1>1 DEF Init
<1>7. scores \in Seq(Scores \cup {NoScore})
  BY <1>5
<1> QED
  BY <1>2, <1>3, <1>4, <1>5, <1>6, <1>7 DEF TypesOK

\* No step of a training or of a replay leaves the types.
LEMMA TypesPreserved == TypesOK /\ [Next]_vars => TypesOK'
<1> SUFFICES ASSUME TypesOK, [Next]_vars PROVE TypesOK'
  OBVIOUS
<1>1. CASE BuildDataset \/ BeginFit \/ EpochsOver \/ NothingLearned \/ TrainKilled
  BY <1>1 DEF TypesOK, BuildDataset, BeginFit, EpochsOver, NothingLearned, TrainKilled, fitVars, disk
<1>2. CASE \E p \in Pairs : Assign(p)
  BY <1>2 DEF TypesOK, Assign, fitVars, disk
<1>3. ASSUME NEW s \in Scores \cup {NoScore}, Epoch(s) PROVE TypesOK'
  <2>1. scores' \in Seq(Scores \cup {NoScore})
    BY <1>3 DEF TypesOK, Epoch
  <2>2. Len(scores) \in Nat
    BY DEF TypesOK
  <2>3. s \in Int
    BY ModelAssumption DEF NoScore
  <2>4. CASE Improves(s)
    BY <1>3, <2>1, <2>2, <2>3, <2>4 DEF TypesOK, Epoch, disk
  <2>5. CASE ~Improves(s)
    BY <1>3, <2>1, <2>2, <2>3, <2>5 DEF TypesOK, Epoch, disk
  <2> QED
    BY <2>4, <2>5
<1>4. CASE OpenWeights \/ WriteWeights \/ OpenMetadata \/ WriteMetadata
  <2>1. Raced \in [at : {"idle", "metadata", "check", "load", "done"}, metadata : Descriptions,
                   loaded : Files, mode : {"heuristic", "model", "none"}, empty : BOOLEAN,
                   fresh : BOOLEAN, raced : BOOLEAN, missing : BOOLEAN]
    BY DEF TypesOK, Raced, Reading
  <2>2. weights' \in Files
    <3>1. Torn \in Files /\ File("whole", training, best.epoch) \in Files
      BY DEF TypesOK, Torn, File, Files
    <3> QED
      BY <1>4, <3>1 DEF TypesOK, OpenWeights, WriteWeights, OpenMetadata, WriteMetadata
  <2>3. metadata' \in Descriptions
    <3>1. Metadata("torn", "current", Absent) \in Descriptions
      BY DEF Metadata, Descriptions, Files, Absent, File
    <3>2. Metadata("whole", "current", digest) \in Descriptions
      BY DEF TypesOK, Metadata, Descriptions
    <3> QED
      BY <1>4, <3>1, <3>2 DEF TypesOK, OpenWeights, WriteWeights, OpenMetadata, WriteMetadata
  <2> QED
    BY <1>4, <2>1, <2>2, <2>3 DEF TypesOK, OpenWeights, WriteWeights, OpenMetadata, WriteMetadata, fitVars
<1>5. CASE HashWeights
  BY <1>5 DEF TypesOK, HashWeights, fitVars, disk
<1>6. CASE TrainAgain
  BY <1>6 DEF TypesOK, TrainAgain, NoCheckpoint, Nowhere, disk
<1>7. CASE ReadStep
  <2>1. reader' \in [at : {"idle", "metadata", "check", "load", "done"}, metadata : Descriptions,
                     loaded : Files, mode : {"heuristic", "model", "none"}, empty : BOOLEAN,
                     fresh : BOOLEAN, raced : BOOLEAN, missing : BOOLEAN]
    <3>1. CASE LookForModel
      <4>1. NoMetadata \in Descriptions /\ Absent \in Files
        BY DEF NoMetadata, Metadata, Absent, File, Files, Descriptions
      <4>2. PICK empty \in BOOLEAN :
               reader' = [IdleReader EXCEPT
                             !.at = IF metadata.state = "absent" THEN "done" ELSE "metadata",
                             !.empty = empty, !.fresh = finished]
        BY <3>1 DEF LookForModel
      <4>3. finished \in BOOLEAN
        BY DEF TypesOK
      <4>4. CASE metadata.state = "absent"
        BY <4>1, <4>2, <4>3, <4>4 DEF IdleReader
      <4>5. CASE metadata.state # "absent"
        BY <4>1, <4>2, <4>3, <4>5 DEF IdleReader
      <4> QED
        BY <4>4, <4>5
    <3>2. CASE ReadMetadata
      BY <3>2, ZenonT(40) DEF TypesOK, ReadMetadata, Give
    <3>3. CASE CheckWeights
      BY <3>3, ZenonT(40) DEF TypesOK, CheckWeights, Give
    <3>4. CASE NoTorch \/ LoadWeights
      BY <3>4, ZenonT(40) DEF TypesOK, NoTorch, LoadWeights, Give
    <3> QED
      BY <1>7, <3>1, <3>2, <3>3, <3>4 DEF ReadStep
  <2> QED
    BY <1>7, <2>1, ReplayReads DEF TypesOK
<1>8. CASE UNCHANGED vars
  BY <1>8 DEF TypesOK, vars, fitVars, disk
<1> QED
  BY <1>1, <1>2, <1>3, <1>4, <1>5, <1>6, <1>7, <1>8 DEF Next, TrainStep
-----------------------------------------------------------------------------
(***************************************************************************)
(* pair_disjoint_split.                                                    *)
(***************************************************************************)

\* The dataset and the split made so far.
DatasetOK ==
    phase = "split" =>
        /\ data \in [positives : SUBSET Pairs, examples : SUBSET Pairs,
                     bucket : UNION {[S -> Buckets] : S \in SUBSET Pairs}]
        /\ DOMAIN data.bucket \subseteq data.examples

\* While some part is empty, no part has two examples.
EmptyComesFirst ==
    phase = "split" =>
        \A e, b \in Buckets : In(e) = {} => Cardinality(In(b)) <= 1

SplitInv == DatasetOK /\ EmptyComesFirst /\ SplitIsBalanced

\* A product of a larger factor is larger.
LEMMA TimesIsMonotone ==
  ASSUME NEW x \in Int, NEW y \in Int, NEW d \in Nat, x <= y
  PROVE  x * d <= y * d
<1>1. (y - x) * d >= 0 /\ (y - x) * d = y * d - x * d
  OBVIOUS
<1> QED
  BY <1>1

\* Two non-zero factors have a non-zero product.
LEMMA TimesIsPositive ==
  ASSUME NEW x \in Nat \ {0}, NEW y \in Nat \ {0}
  PROVE  x * y \in Nat \ {0}
<1>1. 1 * y <= x * y
  BY TimesIsMonotone
<1> QED
  BY <1>1

\* The counts and targets of the parts are natural numbers, and no target is
\* zero: dataset.py:238 and 239 bound them from below.
SplitNumbers ==
    \A b \in Buckets :
        /\ SizeTarget(b) \in Nat \ {0}
        /\ PositiveTarget(b) \in Nat \ {0}
        /\ IsFiniteSet(In(b)) /\ Cardinality(In(b)) \in Nat
        /\ IsFiniteSet(In(b) \cap data.positives)
        /\ Cardinality(In(b) \cap data.positives) \in Nat
        /\ Pressure(b).num \in Nat
        /\ Pressure(b).den \in Nat \ {0}

\* They are, in every dataset.
LEMMA SplitNumbersHold == DatasetOK /\ phase = "split" => SplitNumbers
<1> SUFFICES ASSUME DatasetOK, phase = "split", NEW b \in Buckets
             PROVE  /\ SizeTarget(b) \in Nat \ {0}
                    /\ PositiveTarget(b) \in Nat \ {0}
                    /\ IsFiniteSet(In(b)) /\ Cardinality(In(b)) \in Nat
                    /\ IsFiniteSet(In(b) \cap data.positives)
                    /\ Cardinality(In(b) \cap data.positives) \in Nat
                    /\ Pressure(b).num \in Nat
                    /\ Pressure(b).den \in Nat \ {0}
  BY DEF SplitNumbers
<1>1. /\ IsFiniteSet(Pairs) /\ data.positives \in SUBSET Pairs /\ data.examples \in SUBSET Pairs
      /\ In(b) \in SUBSET Pairs
  BY ModelAssumption DEF DatasetOK, In
<1>2. Cardinality(data.positives) \in Nat /\ Cardinality(data.examples) \in Nat
  BY <1>1, FS_Subset, FS_CardinalityType
<1>3. IsFiniteSet(In(b)) /\ Cardinality(In(b)) \in Nat
  BY <1>1, FS_Subset, FS_CardinalityType
<1>4. In(b) \cap data.positives \in SUBSET Pairs
  BY <1>1
<1>5. IsFiniteSet(In(b) \cap data.positives) /\ Cardinality(In(b) \cap data.positives) \in Nat
  BY <1>1, <1>4, FS_Subset, FS_CardinalityType
<1>6. Percent[b] \in Nat
  BY DEF Percent, Buckets
<1>7. SizeTarget(b) \in Nat \ {0}
  <2>1. Cardinality(data.examples) * Percent[b] \in Nat
    BY <1>2, <1>6
  <2> QED
    BY <2>1 DEF SizeTarget, Larger
<1>8. PositiveTarget(b) \in Nat \ {0}
  <2>1. Larger(1, Cardinality(data.positives)) \in Nat
    BY <1>2 DEF Larger
  <2>2. Larger(1, Cardinality(data.positives)) * Percent[b] \in Nat
    BY <1>6, <2>1
  <2> QED
    BY <2>2 DEF PositiveTarget, Larger
<1>9. SizeTarget(b) * PositiveTarget(b) \in Nat \ {0}
  BY <1>7, <1>8, TimesIsPositive
<1>10. /\ Cardinality(In(b)) * PositiveTarget(b) \in Nat
       /\ Cardinality(In(b) \cap data.positives) * SizeTarget(b) \in Nat
  BY <1>3, <1>5, <1>7, <1>8
<1> QED
  BY <1>3, <1>5, <1>7, <1>8, <1>9, <1>10 DEF Pressure

\* The dataset has its type when it is built, and no step of the split leaves it.
LEMMA DatasetPreserved == DatasetOK /\ [Next]_vars => DatasetOK'
<1> SUFFICES ASSUME DatasetOK, [Next]_vars, phase' = "split" PROVE DatasetOK'
  BY DEF DatasetOK
<1>1. CASE BuildDataset
  <2>1. PICK positives \in SUBSET Pairs : \E kept \in SUBSET (Pairs \ positives) :
            data' = [positives |-> positives, examples |-> positives \cup kept, bucket |-> <<>>]
    BY <1>1 DEF BuildDataset
  <2>2. PICK kept \in SUBSET (Pairs \ positives) :
            data' = [positives |-> positives, examples |-> positives \cup kept, bucket |-> <<>>]
    BY <2>1
  <2>3. <<>> \in [{} -> Buckets] /\ DOMAIN <<>> = {}
    OBVIOUS
  <2> QED
    BY <2>2, <2>3 DEF DatasetOK, Buckets
<1>2. ASSUME NEW p \in Pairs, Assign(p) PROVE DatasetOK'
  <2>1. PICK b \in Buckets : data' = [data EXCEPT !.bucket =
            [q \in DOMAIN data.bucket \cup {p} |-> IF q = p THEN b ELSE data.bucket[q]]]
    BY <1>2 DEF Assign
  <2>2. phase = "split" /\ p \in data.examples
    BY <1>2 DEF Assign
  <2>3. PICK S \in SUBSET Pairs : data.bucket \in [S -> Buckets]
    BY <2>2 DEF DatasetOK
  <2>4. [q \in DOMAIN data.bucket \cup {p} |-> IF q = p THEN b ELSE data.bucket[q]]
            \in [S \cup {p} -> Buckets]
    BY <2>3
  <2> QED
    BY <2>1, <2>2, <2>4 DEF DatasetOK, Buckets
<1>3. CASE UNCHANGED <<phase, data>>
  BY <1>3 DEF DatasetOK, Buckets
<1>4. CASE BeginFit \/ EpochsOver \/ NothingLearned \/ OpenWeights \/ WriteWeights \/ HashWeights
           \/ OpenMetadata \/ WriteMetadata \/ TrainKilled \/ TrainAgain
  BY <1>4 DEF BeginFit, EpochsOver, NothingLearned, OpenWeights, WriteWeights, HashWeights,
              OpenMetadata, WriteMetadata, TrainKilled, TrainAgain
<1>5. CASE \E s \in Scores \cup {NoScore} : Epoch(s)
  BY <1>5 DEF Epoch
<1> QED
  BY <1>1, <1>2, <1>3, <1>4, <1>5, ReplayReads DEF Next, TrainStep, vars, datasetVars

\* What assigning pair p to bucket b does to the counts.
LEMMA AssignCounts ==
  ASSUME DatasetOK, NEW p, Assign(p)
  PROVE  \E b \in Buckets :
            /\ \A c \in Buckets : AtMost(Pressure(b), Pressure(c))
            /\ In(b)' = In(b) \cup {p} /\ p \notin In(b)
            /\ \A c \in Buckets \ {b} : In(c)' = In(c)
            /\ data'.positives = data.positives /\ data'.examples = data.examples
            /\ phase = "split" /\ phase' = "split"
<1>1. PICK b \in Buckets :
          /\ \A c \in Buckets : AtMost(Pressure(b), Pressure(c))
          /\ data' = [data EXCEPT !.bucket =
                [q \in DOMAIN data.bucket \cup {p} |-> IF q = p THEN b ELSE data.bucket[q]]]
  BY DEF Assign
<1>2. phase = "split" /\ phase' = "split" /\ p \notin DOMAIN data.bucket
  BY DEF Assign
<1>3. /\ data'.positives = data.positives /\ data'.examples = data.examples
      /\ data'.bucket = [q \in DOMAIN data.bucket \cup {p} |-> IF q = p THEN b ELSE data.bucket[q]]
  BY <1>1, <1>2 DEF DatasetOK
<1>4. DOMAIN data'.bucket = DOMAIN data.bucket \cup {p}
  BY <1>3
<1>5. In(b)' = In(b) \cup {p} /\ p \notin In(b)
  BY <1>2, <1>3, <1>4 DEF In
<1>6. \A c \in Buckets \ {b} : In(c)' = In(c)
  BY <1>2, <1>3, <1>4 DEF In
<1> QED
  BY <1>1, <1>2, <1>3, <1>5, <1>6

\* A pair in an empty split: no bucket with an empty rival gets a second one.
LEMMA AssignFillsEmpty ==
  ASSUME DatasetOK, DatasetOK', EmptyComesFirst, NEW p, Assign(p)
  PROVE  EmptyComesFirst'
<1>1. PICK b \in Buckets :
            /\ \A c \in Buckets : AtMost(Pressure(b), Pressure(c))
            /\ In(b)' = In(b) \cup {p} /\ p \notin In(b)
            /\ \A c \in Buckets \ {b} : In(c)' = In(c)
            /\ phase = "split" /\ phase' = "split"
  BY AssignCounts
<1>0. SplitNumbers /\ SplitNumbers'
  <2>1. (DatasetOK /\ phase = "split")'
    BY <1>1
  <2>2. SplitNumbers'
    BY <2>1, SplitNumbersHold, PTL
  <2> QED
    BY <1>1, <2>2, SplitNumbersHold
<1> SUFFICES ASSUME NEW e \in Buckets, NEW c \in Buckets, In(e)' = {}
             PROVE  Cardinality(In(c)') <= 1
  BY DEF EmptyComesFirst, Buckets
<1>2. e # b /\ In(e) = {}
  BY <1>1
<1>3. CASE c # b
  BY <1>1, <1>2, <1>3 DEF EmptyComesFirst
<1>4. CASE c = b
  <2>1. Pressure(e).num = 0
    <3>1. Cardinality(In(e)) = 0 /\ Cardinality(In(e) \cap data.positives) = 0
      BY <1>2, FS_EmptySet
    <3>2. PositiveTarget(e) \in Nat /\ SizeTarget(e) \in Nat
      BY <1>0 DEF SplitNumbers
    <3>3. 0 * PositiveTarget(e) = 0 /\ 0 * SizeTarget(e) = 0
      BY <3>2
    <3> QED
      BY <3>1, <3>3 DEF Pressure
  <2>2. Pressure(b).num * Pressure(e).den <= 0
    <3>1. Pressure(b).num * Pressure(e).den <= 0 * Pressure(b).den
      BY <1>1, <2>1 DEF AtMost
    <3>2. Pressure(b).den \in Nat
      BY <1>0 DEF SplitNumbers
    <3>3. 0 * Pressure(b).den = 0
      BY <3>2
    <3> QED
      BY <3>1, <3>3
  <2>3. Pressure(b).num = 0
    <3>1. Pressure(b).num \in Nat /\ Pressure(e).den \in Nat \ {0}
      BY <1>0 DEF SplitNumbers
    <3>2. Pressure(b).num # 0 => Pressure(b).num * Pressure(e).den \in Nat \ {0}
      BY <3>1, TimesIsPositive
    <3> QED
      BY <2>2, <3>1, <3>2
  <2>4. Cardinality(In(b)) = 0
    <3> DEFINE n == Cardinality(In(b))
               t == PositiveTarget(b)
               m == Cardinality(In(b) \cap data.positives) * SizeTarget(b)
    <3>1. n \in Nat /\ t \in Nat \ {0} /\ m \in Nat
      BY <1>0 DEF SplitNumbers
    <3>2. n * t + m = 0
      BY <2>3 DEF Pressure
    <3>3. n # 0 => n * t \in Nat \ {0}
      BY <3>1, TimesIsPositive
    <3> HIDE DEF n, t, m
    <3>4. n = 0
      BY <3>1, <3>2, <3>3
    <3> QED
      BY <3>4 DEF n
  <2>5. IsFiniteSet(In(b))
    BY <1>0 DEF SplitNumbers
  <2>6. Cardinality(In(b) \cup {p}) = Cardinality(In(b)) + 1
    BY <1>1, <2>5, FS_AddElement
  <2> QED
    BY <1>1, <1>4, <2>4, <2>6
<1> QED
  BY <1>3, <1>4

\* One pair raises the pressure of its bucket by at most one positive example,
\* and lowers none.
LEMMA AssignRaises ==
  ASSUME DatasetOK, DatasetOK', NEW p, Assign(p)
  PROVE  \E b \in Buckets :
            /\ \A c \in Buckets : AtMost(Pressure(b), Pressure(c))
            /\ \A c \in Buckets :
                  /\ Pressure(c)'.den = Pressure(c).den
                  /\ PositiveTarget(c)' = PositiveTarget(c) /\ SizeTarget(c)' = SizeTarget(c)
                  /\ Pressure(c).num <= Pressure(c)'.num
                  /\ c # b => Pressure(c)'.num = Pressure(c).num
            /\ Pressure(b)'.num <= Pressure(b).num + (PositiveTarget(b) + SizeTarget(b))
            /\ phase = "split" /\ phase' = "split"
<1>1. PICK b \in Buckets :
            /\ \A c \in Buckets : AtMost(Pressure(b), Pressure(c))
            /\ In(b)' = In(b) \cup {p} /\ p \notin In(b)
            /\ \A c \in Buckets \ {b} : In(c)' = In(c)
            /\ data'.positives = data.positives /\ data'.examples = data.examples
            /\ phase = "split" /\ phase' = "split"
  BY AssignCounts
<1>0. SplitNumbers /\ SplitNumbers'
  <2>1. (DatasetOK /\ phase = "split")'
    BY <1>1
  <2>2. SplitNumbers'
    BY <2>1, SplitNumbersHold, PTL
  <2> QED
    BY <1>1, <2>2, SplitNumbersHold
<1>2. \A c \in Buckets : /\ PositiveTarget(c)' = PositiveTarget(c)
                         /\ SizeTarget(c)' = SizeTarget(c)
  BY <1>1 DEF PositiveTarget, SizeTarget, Percent, Larger
<1>3. \A c \in Buckets : Pressure(c)'.den = Pressure(c).den
  BY <1>2 DEF Pressure
<1>4. ASSUME NEW c \in Buckets, c # b PROVE Pressure(c)'.num = Pressure(c).num
  BY <1>1, <1>2, <1>4 DEF Pressure
<1>5. /\ Pressure(b).num <= Pressure(b)'.num
      /\ Pressure(b)'.num <= Pressure(b).num + (PositiveTarget(b) + SizeTarget(b))
  <2> DEFINE n == Cardinality(In(b))
             k == Cardinality(In(b) \cap data.positives)
             m == Cardinality((In(b) \cup {p}) \cap data.positives)
             t == PositiveTarget(b)
             s == SizeTarget(b)
  <2>1. /\ n \in Nat /\ k \in Nat /\ t \in Nat /\ s \in Nat
        /\ IsFiniteSet(In(b)) /\ IsFiniteSet(In(b) \cap data.positives)
    BY <1>0 DEF SplitNumbers
  <2>2. Cardinality(In(b) \cup {p}) = n + 1
    BY <1>1, <2>1, FS_AddElement
  <2>3. m = k \/ m = k + 1
    <3>1. CASE p \in data.positives
      <4>1. (In(b) \cup {p}) \cap data.positives = (In(b) \cap data.positives) \cup {p}
        BY <3>1
      <4> QED
        BY <1>1, <2>1, <4>1, FS_AddElement, ZenonT(40)
    <3>2. CASE p \notin data.positives
      <4>1. (In(b) \cup {p}) \cap data.positives = In(b) \cap data.positives
        BY <3>2
      <4> QED
        BY <4>1
    <3> QED
      BY <3>1, <3>2
  <2>4. Pressure(b).num = n * t + k * s
    BY DEF Pressure
  <2>5. Pressure(b)'.num = (n + 1) * t + m * s
    BY <1>1, <1>2, <2>2 DEF Pressure
  <2> HIDE DEF n, k, m, t, s
  <2>6. (n + 1) * t = n * t + t /\ (k + 1) * s = k * s + s /\ n * t \in Nat /\ k * s \in Nat
    BY <2>1
  <2>7. n * t + k * s <= (n + 1) * t + m * s
    BY <2>1, <2>3, <2>6
  <2>8. (n + 1) * t + m * s <= n * t + k * s + (t + s)
    BY <2>1, <2>3, <2>6
  <2> QED
    BY <2>4, <2>5, <2>7, <2>8 DEF t, s
<1>6. \A c \in Buckets : Pressure(c).num \in Nat
  BY <1>0 DEF SplitNumbers
<1>7. \A c \in Buckets : Pressure(c).num <= Pressure(c)'.num
  BY <1>4, <1>5, <1>6
<1> QED
  BY <1>1, <1>2, <1>3, <1>4, <1>5, <1>7

\* The part with the least pressure may take one example more.
LEMMA AssignKeepsBalance ==
  ASSUME DatasetOK, DatasetOK', SplitIsBalanced, NEW p, Assign(p)
  PROVE  SplitIsBalanced'
<1>1. PICK a \in Buckets :
            /\ \A c \in Buckets : AtMost(Pressure(a), Pressure(c))
            /\ \A c \in Buckets :
                  /\ Pressure(c)'.den = Pressure(c).den
                  /\ PositiveTarget(c)' = PositiveTarget(c) /\ SizeTarget(c)' = SizeTarget(c)
                  /\ Pressure(c).num <= Pressure(c)'.num
                  /\ c # a => Pressure(c)'.num = Pressure(c).num
            /\ Pressure(a)'.num <= Pressure(a).num + (PositiveTarget(a) + SizeTarget(a))
            /\ phase = "split" /\ phase' = "split"
  BY AssignRaises
<1>0. SplitNumbers /\ SplitNumbers'
  <2>1. (DatasetOK /\ phase = "split")'
    BY <1>1
  <2>2. SplitNumbers'
    BY <2>1, SplitNumbersHold, PTL
  <2> QED
    BY <1>1, <2>2, SplitNumbersHold
<1> SUFFICES ASSUME NEW b \in Buckets, NEW c \in Buckets
             PROVE  (Pressure(b)'.num - (PositiveTarget(b)' + SizeTarget(b)')) * Pressure(c)'.den
                        <= Pressure(c)'.num * Pressure(b)'.den
  BY DEF SplitIsBalanced, Buckets
<1> DEFINE l == PositiveTarget(b) + SizeTarget(b)
           x == Pressure(b).num
           y == Pressure(c).num
           d == Pressure(b).den
           e == Pressure(c).den
           u == Pressure(b)'.num
           v == Pressure(c)'.num
<1>2. l \in Nat /\ x \in Nat /\ y \in Nat /\ d \in Nat /\ e \in Nat
  <2>1. PositiveTarget(b) \in Nat /\ SizeTarget(b) \in Nat
    BY <1>0 DEF SplitNumbers
  <2>2. x \in Nat /\ y \in Nat /\ d \in Nat /\ e \in Nat
    BY <1>0 DEF SplitNumbers
  <2> QED
    BY <2>1, <2>2
<1>3. u \in Nat /\ v \in Nat
  BY <1>0 DEF SplitNumbers, Buckets
<1>4. y <= v
  BY <1>1
<1>5. (u - l) * e <= y * d
  <2>1. CASE b = a
    <3>1. u - l <= x
      BY <1>1, <1>2, <1>3, <2>1
    <3>2. x * e <= y * d
      BY <1>1, <2>1 DEF AtMost
    <3> HIDE DEF l, x, y, d, e, u, v
    <3>3. (u - l) * e <= x * e
      BY <1>2, <1>3, <3>1, TimesIsMonotone
    <3> QED
      BY <1>2, <1>3, <3>2, <3>3
  <2>2. CASE b # a
    <3>1. u = x
      BY <1>1, <2>2
    <3>2. (x - l) * e <= y * d
      BY <1>1 DEF SplitIsBalanced
    <3> QED
      BY <3>1, <3>2
  <2> QED
    BY <2>1, <2>2
<1>6. (u - l) * e <= v * d
  <2> HIDE DEF l, x, y, d, e, u, v
  <2>1. y * d <= v * d
    BY <1>2, <1>3, <1>4, TimesIsMonotone
  <2> QED
    BY <1>2, <1>3, <1>5, <2>1
<1> QED
  BY <1>1, <1>6

\* Every step of the split, and every other one, keeps its invariant.
LEMMA SplitPreserved == SplitInv /\ [Next]_vars => SplitInv'
<1> SUFFICES ASSUME SplitInv, [Next]_vars PROVE SplitInv'
  OBVIOUS
<1>0. DatasetOK /\ DatasetOK'
  BY DatasetPreserved DEF SplitInv
<1>1. CASE BuildDataset
  <2>1. phase' = "split" /\ data'.bucket = <<>>
    BY <1>1 DEF BuildDataset
  <2>0. SplitNumbers'
    <3>1. (DatasetOK /\ phase = "split")'
      BY <1>0, <2>1
    <3> QED
      BY <3>1, SplitNumbersHold, PTL
  <2>2. \A b \in Buckets : In(b)' = {}
    BY <2>1 DEF In
  <2>3. \A b \in Buckets : Cardinality(In(b)') = 0 /\ Cardinality(In(b)' \cap data'.positives) = 0
    BY <2>2, FS_EmptySet
  <2>4. EmptyComesFirst'
    BY <2>3 DEF EmptyComesFirst, Buckets
  <2>5. \A b \in Buckets : Pressure(b)'.num = 0
    <3> TAKE b \in Buckets
    <3>1. PositiveTarget(b)' \in Nat /\ SizeTarget(b)' \in Nat
      BY <2>0 DEF SplitNumbers, Buckets
    <3>2. 0 * PositiveTarget(b)' = 0 /\ 0 * SizeTarget(b)' = 0
      BY <3>1
    <3> QED
      BY <2>3, <3>2 DEF Pressure
  <2>6. SplitIsBalanced'
    <3> SUFFICES ASSUME NEW b \in Buckets, NEW c \in Buckets
                 PROVE  (Pressure(b)'.num - (PositiveTarget(b)' + SizeTarget(b)')) * Pressure(c)'.den
                            <= Pressure(c)'.num * Pressure(b)'.den
      BY DEF SplitIsBalanced, Buckets
    <3> DEFINE l == PositiveTarget(b)' + SizeTarget(b)'
               d == Pressure(b)'.den
               e == Pressure(c)'.den
    <3>1. l \in Nat /\ d \in Nat /\ e \in Nat
      BY <2>0 DEF SplitNumbers, Buckets
    <3> HIDE DEF l, d, e
    <3>2. (0 - l) * e <= 0 * e
      BY <3>1, TimesIsMonotone
    <3>3. (0 - l) * e <= 0 * d
      BY <3>1, <3>2
    <3> QED
      BY <2>5, <3>3 DEF l, d, e
  <2> QED
    BY <1>0, <2>4, <2>6 DEF SplitInv
<1>2. CASE \E p \in Pairs : Assign(p)
  BY <1>0, <1>2, AssignFillsEmpty, AssignKeepsBalance, SMTT(30) DEF SplitInv
<1>3. CASE UNCHANGED <<phase, data>>
  BY <1>0, <1>3 DEF SplitInv, EmptyComesFirst, SplitIsBalanced, Buckets, In, Pressure, SizeTarget,
                    PositiveTarget, Percent, Larger
<1>4. CASE phase' # "split"
  BY <1>0, <1>4 DEF SplitInv, EmptyComesFirst, SplitIsBalanced
<1>5. BeginFit \/ EpochsOver \/ NothingLearned \/ OpenWeights \/ WriteWeights \/ HashWeights
           \/ OpenMetadata \/ WriteMetadata \/ TrainKilled \/ TrainAgain => phase' # "split"
  BY DEF BeginFit, EpochsOver, NothingLearned, OpenWeights, WriteWeights, HashWeights,
              OpenMetadata, WriteMetadata, TrainKilled, TrainAgain
<1>6. (\E s \in Scores \cup {NoScore} : Epoch(s)) => phase' # "split"
  BY DEF Epoch
<1> QED
  BY <1>1, <1>2, <1>3, <1>4, <1>5, <1>6, ReplayReads DEF Next, TrainStep, vars, datasetVars

\* Nothing is split before the first training.
LEMMA SplitInitially == Init => SplitInv
  BY DEF Init, SplitInv, DatasetOK, EmptyComesFirst, SplitIsBalanced

\* For any pairs, labels, sample and shuffled order: at every point of
\* pair_disjoint_split no part is ahead of another by more than one example,
\* and three examples or more leave no part of the split empty, although the
\* targets of validation and test may be below one example.
THEOREM SplitServesAll == Spec => []SplitServesEveryPart
<1>1. SplitInv => SplitServesEveryPart
  <2> SUFFICES ASSUME SplitInv, SplitDone, Cardinality(data.examples) >= 3,
                      NEW e \in Buckets, In(e) = {}
               PROVE  FALSE
    BY DEF SplitServesEveryPart, SplitInv
  <2>1. phase = "split" /\ DatasetOK
    BY DEF SplitInv, SplitDone
  <2>2. \A b \in Buckets : /\ IsFiniteSet(In(b)) /\ Cardinality(In(b)) \in Nat
                           /\ Cardinality(In(b)) <= 1
    BY <2>1, SplitNumbersHold DEF SplitNumbers, SplitInv, EmptyComesFirst
  <2>3. PICK a \in Buckets, c \in Buckets : Buckets = {e, a, c}
    BY DEF Buckets
  <2>4. data.examples = In(a) \cup In(c)
    <3>1. \A q \in DOMAIN data.bucket : data.bucket[q] \in Buckets
      BY <2>1 DEF DatasetOK
    <3> QED
      BY <2>3, <3>1 DEF SplitDone, In
  <2>5. Cardinality(In(a) \cup In(c)) <= Cardinality(In(a)) + Cardinality(In(c))
    <3>1. IsFiniteSet(In(a) \cap In(c))
      BY <2>2, FS_Subset
    <3>2. Cardinality(In(a) \cap In(c)) \in Nat
      BY <3>1, FS_CardinalityType
    <3>3. Cardinality(In(a) \cup In(c))
              = Cardinality(In(a)) + Cardinality(In(c)) - Cardinality(In(a) \cap In(c))
      BY <2>2, FS_Union
    <3> QED
      BY <2>2, <3>2, <3>3
  <2>6. IsFiniteSet(In(a) \cup In(c))
    BY <2>2, FS_Union
  <2>7. Cardinality(In(a) \cup In(c)) \in Nat
    BY <2>6, FS_CardinalityType
  <2> QED
    BY <2>2, <2>4, <2>5, <2>7
<1> QED
  BY <1>1, SplitInitially, SplitPreserved, PTL DEF Spec
-----------------------------------------------------------------------------
(***************************************************************************)
(* GNNTrainer.fit.                                                         *)
(***************************************************************************)

\* An epoch keeps the best checkpoint the best.
LEMMA EpochKeepsBest ==
  ASSUME TypesOK, BestSoFar, NEW s \in Scores \cup {NoScore}, Epoch(s)
  PROVE  BestSoFar'
<1>1. /\ Len(scores) \in Nat
      /\ scores' = Append(scores, s)
      /\ Len(scores') = Len(scores) + 1
      /\ scores'[Len(scores) + 1] = s
      /\ \A i \in 1 .. Len(scores) : scores'[i] = scores[i]
  BY DEF TypesOK, Epoch
<1>2. s \in Int /\ (s # NoScore => s \in Nat) /\ NoScore = -1
  BY ModelAssumption DEF NoScore
<1>3. \A i \in 1 .. Len(scores) : scores[i] \in Int
  <2>1. Scores \cup {NoScore} \subseteq Int
    BY ModelAssumption DEF NoScore
  <2>2. \A i \in 1 .. Len(scores) : scores[i] \in Scores \cup {NoScore}
    BY DEF TypesOK
  <2> QED
    BY <2>1, <2>2
<1>4. NoCheckpoint.epoch = 0 /\ NoCheckpoint.score = -10
  BY DEF NoCheckpoint, Nowhere
<1>5. best.score \in Int /\ best.epoch \in Nat /\ stale \in Nat
  BY DEF TypesOK
<1>6. CASE Improves(s)
  <2>1. s \in Nat /\ s > best.score + 1
    BY <1>2, <1>6 DEF Improves
  <2>2. best' = [epoch |-> Len(scores) + 1, score |-> s] /\ stale' = 0
    BY <1>6 DEF Epoch
  <2>3. best' # NoCheckpoint
    BY <1>1, <1>4, <2>2
  <2>4. \A i \in 1 .. Len(scores) : scores[i] <= s + 1
    BY <1>1, <1>2, <1>3, <1>5, <2>1, SMTT(30) DEF BestSoFar
  <2>5. \A i \in 1 .. Len(scores') : scores'[i] <= s + 1
    BY <1>1, <2>1, <2>4
  <2> QED
    BY <1>1, <2>1, <2>2, <2>3, <2>5 DEF BestSoFar
<1>7. CASE ~Improves(s)
  <2>1. best' = best /\ stale' = stale + 1
    BY <1>7 DEF Epoch
  <2>2. CASE best = NoCheckpoint
    <3>1. s = NoScore
      BY <1>2, <1>4, <1>7, <2>2 DEF Improves
    <3> QED
      BY <1>1, <2>1, <2>2, <3>1 DEF BestSoFar
  <2>3. CASE best # NoCheckpoint
    <3>1. s <= best.score + 1
      BY <1>2, <1>5, <1>7, <2>3 DEF Improves, BestSoFar
    <3> QED
      BY <1>1, <1>5, <2>1, <2>3, <3>1, SMTT(30) DEF BestSoFar
  <2> QED
    BY <2>2, <2>3
<1> QED
  BY <1>6, <1>7

\* Before the first training nothing is kept.
LEMMA FitInitially == Init => FitInv
<1> SUFFICES ASSUME Init PROVE FitInv
  OBVIOUS
<1>1. TypesOK
  BY TypesInitially
<1>2. Len(scores) = 0 /\ best = NoCheckpoint /\ phase = "idle"
  BY DEF Init
<1> QED
  BY <1>1, <1>2 DEF FitInv, BestSoFar, Stopped

\* Every step keeps the best checkpoint and the reason to stop.
LEMMA FitPreserved == FitInv /\ [Next]_vars => FitInv'
<1> SUFFICES ASSUME FitInv, [Next]_vars PROVE FitInv'
  OBVIOUS
<1>0. TypesOK'
  BY TypesPreserved DEF FitInv
<1>1. CASE BuildDataset \/ BeginFit \/ NothingLearned \/ TrainKilled
  BY <1>0, <1>1 DEF FitInv, BestSoFar, Stopped, BuildDataset, BeginFit, NothingLearned, TrainKilled,
                    fitVars, disk
<1>2. CASE \E p \in Pairs : Assign(p)
  BY <1>0, <1>2 DEF FitInv, BestSoFar, Stopped, Assign, fitVars, disk
<1>3. ASSUME NEW s \in Scores \cup {NoScore}, Epoch(s) PROVE FitInv'
  <2>1. BestSoFar'
    BY <1>3, EpochKeepsBest DEF FitInv
  <2>2. Stopped'
    BY <1>3 DEF Stopped, Epoch, Improves
  <2> QED
    BY <1>0, <2>1, <2>2 DEF FitInv
<1>4. CASE EpochsOver
  <2>1. ~(Len(scores) < Epochs)
    BY <1>4, ModelAssumption DEF EpochsOver
  <2> QED
    BY <1>0, <1>4, <2>1 DEF FitInv, BestSoFar, Stopped, EpochsOver, fitVars, disk
<1>5. CASE OpenWeights \/ HashWeights \/ OpenMetadata \/ WriteMetadata
  BY <1>0, <1>5 DEF FitInv, BestSoFar, Stopped, OpenWeights, HashWeights, OpenMetadata,
                    WriteMetadata, fitVars, disk
<1>6. CASE WriteWeights
  <2>1. weights'.epoch = best.epoch
    BY <1>6 DEF WriteWeights, File
  <2> QED
    BY <1>0, <1>6, <2>1 DEF FitInv, BestSoFar, Stopped, WriteWeights, fitVars
<1>7. CASE TrainAgain
  <2>1. Len(scores') = 0 /\ best' = NoCheckpoint /\ phase' = "fit"
    BY <1>7 DEF TrainAgain
  <2>2. NoCheckpoint' = NoCheckpoint
    BY DEF NoCheckpoint, Nowhere
  <2> QED
    BY <1>0, <2>1, <2>2 DEF FitInv, BestSoFar, Stopped
<1>8. CASE ReadStep
  BY <1>0, <1>8, ReplayReads DEF FitInv, BestSoFar, Stopped
<1>9. CASE UNCHANGED vars
  BY <1>0, <1>9 DEF FitInv, BestSoFar, Stopped, vars, fitVars, disk
<1> QED
  BY <1>1, <1>2, <1>3, <1>4, <1>5, <1>6, <1>7, <1>8, <1>9 DEF Next, TrainStep

\* Whatever the scores, the patience and the number of epochs: GNNTrainer.save
\* writes a checkpoint that no epoch of its training beats by more than the
\* tolerance, and fit stopped early only after Patience epochs without one.
THEOREM BestIsSaved == Spec => []BestCheckpointIsSaved
<1>1. FitInv => BestCheckpointIsSaved
  <2> SUFFICES ASSUME FitInv, phase \in {"fitted", "weights", "hash"}, best # NoCheckpoint
               PROVE  /\ scores[best.epoch] = best.score
                      /\ \A i \in DOMAIN scores : scores[i] <= best.score + 1
                      /\ Len(scores) < Epochs => Len(scores) - best.epoch >= Patience
                      /\ phase = "hash" => weights.epoch = best.epoch
    BY DEF BestCheckpointIsSaved
  <2>1. DOMAIN scores = 1 .. Len(scores)
    BY DEF FitInv, TypesOK
  <2> QED
    BY <2>1 DEF FitInv, BestSoFar, Stopped
<1> QED
  BY <1>1, FitInitially, FitPreserved, PTL DEF Spec
-----------------------------------------------------------------------------
(***************************************************************************)
(* GNNTrainer.save and the readers.                                        *)
(***************************************************************************)

\* Before the first training nobody reads.
LEMMA ArtifactInitially == Init => ArtifactInv
<1> SUFFICES ASSUME Init PROVE ArtifactInv
  OBVIOUS
<1>1. phase = "idle" /\ reader.at = "idle" /\ finished = FALSE
  BY DEF Init, IdleReader
<1> QED
  BY <1>1, TypesInitially DEF ArtifactInv, SaveOrder, Undisturbed, At, Reading,
         OnlyDescribedWeightsPredict, FinishedModelIsUsed

\* A step that leaves the files and the reader alone, and does not reach a
\* step of save, preserves the invariant.
LEMMA FilesUntouched ==
  ASSUME ArtifactInv, TypesOK', UNCHANGED <<weights, metadata, finished, reader>>,
         phase' \in {"idle", "split", "fit", "fitted"} \/ UNCHANGED <<phase, digest>>
  PROVE  ArtifactInv'
  BY DEF ArtifactInv, SaveOrder, Undisturbed, Described, At, Reading, Metadata,
         OnlyDescribedWeightsPredict, FinishedModelIsUsed

\* A write of save marks every reader that has not finished.
LEMMA WriteDisturbs ==
  ASSUME ArtifactInv, TypesOK', reader' = Raced
  PROVE  /\ Undisturbed'
         /\ OnlyDescribedWeightsPredict'
         /\ FinishedModelIsUsed'
<1>1. /\ reader'.at = reader.at /\ reader'.metadata = reader.metadata
      /\ reader'.loaded = reader.loaded /\ reader'.mode = reader.mode
      /\ reader'.fresh = reader.fresh /\ reader'.missing = reader.missing
      /\ reader'.empty = reader.empty
      /\ reader'.raced = (reader.raced \/ Reading)
  BY DEF ArtifactInv, TypesOK, Raced
<1>2. CASE Reading
  BY <1>1, <1>2 DEF Undisturbed, OnlyDescribedWeightsPredict, FinishedModelIsUsed
<1>3. CASE ~Reading
  BY <1>1, <1>3 DEF ArtifactInv, Undisturbed, Reading, At, OnlyDescribedWeightsPredict,
                    FinishedModelIsUsed
<1> QED
  BY <1>2, <1>3

\* One step of a replay.
LEMMA ReplayKeepsArtifact ==
  ASSUME ArtifactInv, TypesOK', ReadStep
  PROVE  ArtifactInv'
<1>1. UNCHANGED <<phase, digest, weights, metadata, finished>>
  BY ReplayReads
<1>2. SaveOrder' /\ (Described <=> Described')
  BY <1>1 DEF ArtifactInv, SaveOrder, Described, Metadata
<1>3. CASE LookForModel
  <2>1. /\ reader'.at = IF metadata.state = "absent" THEN "done" ELSE "metadata"
        /\ reader'.fresh = finished
        /\ reader'.mode = "heuristic"
    BY <1>3 DEF LookForModel, IdleReader
  <2>2. finished => Described /\ metadata.state = "whole"
    BY DEF ArtifactInv, SaveOrder, Described, Metadata
  <2>3. reader'.fresh => Described /\ reader'.at = "metadata"
    BY <2>1, <2>2
  <2> QED
    BY <1>2, <2>1, <2>3 DEF ArtifactInv, Undisturbed, Reading, At, OnlyDescribedWeightsPredict,
                            FinishedModelIsUsed
<1>4. CASE ReadMetadata
  <2>1. CASE metadata.state = "torn"
    <3>1. /\ reader'.at = "done" /\ reader'.mode = "heuristic"
          /\ reader'.fresh = reader.fresh /\ reader'.raced = reader.raced
      BY <1>4, <2>1, ZenonT(40) DEF ReadMetadata, Give, ArtifactInv, TypesOK
    <3>2. reader.fresh => reader.raced
      BY <1>4, <2>1 DEF ReadMetadata, ArtifactInv, Undisturbed, Described, Metadata, Reading, At
    <3> QED
      BY <1>2, <3>1, <3>2 DEF ArtifactInv, Undisturbed, Reading, At, OnlyDescribedWeightsPredict,
                              FinishedModelIsUsed
  <2>2. CASE metadata.state # "torn"
    <3>1. /\ reader'.at = "check" /\ reader'.metadata = metadata /\ reader'.mode = reader.mode
          /\ reader'.fresh = reader.fresh /\ reader'.raced = reader.raced
      BY <1>4, <2>2, ZenonT(40) DEF ReadMetadata, ArtifactInv, TypesOK
    <3>2. ~reader.raced => reader.mode = "heuristic" /\ (reader.fresh => Described)
      BY <1>4 DEF ReadMetadata, ArtifactInv, Undisturbed, Reading, At
    <3> QED
      BY <1>1, <1>2, <3>1, <3>2 DEF ArtifactInv, Undisturbed, Reading, At,
                                    OnlyDescribedWeightsPredict, FinishedModelIsUsed
  <2> QED
    BY <2>1, <2>2
<1>5. CASE CheckWeights
  <2>0. ~reader.raced => /\ reader.mode = "heuristic"
                         /\ reader.fresh => Described /\ reader.metadata = metadata
    BY <1>5 DEF CheckWeights, ArtifactInv, Undisturbed, Reading, At
  <2>1. CASE weights = reader.metadata.checksum /\ reader.metadata.schema = "current"
    <3>1. /\ reader'.at = "load" /\ reader'.metadata = reader.metadata /\ reader'.mode = reader.mode
          /\ reader'.fresh = reader.fresh /\ reader'.raced = reader.raced
      BY <1>5, <2>1 DEF CheckWeights, ArtifactInv, TypesOK
    <3> QED
      BY <1>1, <1>2, <2>0, <2>1, <3>1 DEF ArtifactInv, Undisturbed, Reading, At,
                                          OnlyDescribedWeightsPredict, FinishedModelIsUsed
  <2>2. CASE ~(weights = reader.metadata.checksum /\ reader.metadata.schema = "current")
    <3>1. /\ reader'.at = "done" /\ reader'.mode = "heuristic"
          /\ reader'.fresh = reader.fresh /\ reader'.raced = reader.raced
      BY <1>5, <2>2, ZenonT(40) DEF CheckWeights, Give, ArtifactInv, TypesOK
    <3>2. reader.fresh => reader.raced
      BY <2>0, <2>2 DEF Described, Metadata, ArtifactInv, TypesOK
    <3> QED
      BY <1>2, <3>1, <3>2 DEF ArtifactInv, Undisturbed, Reading, At, OnlyDescribedWeightsPredict,
                              FinishedModelIsUsed
  <2> QED
    BY <2>1, <2>2
<1>6. CASE NoTorch
  <2>1. /\ reader'.at = "done" /\ reader'.missing = TRUE
        /\ reader'.raced = reader.raced /\ reader'.mode = reader.mode
    BY <1>6 DEF NoTorch, ArtifactInv, TypesOK
  <2>2. ~reader.raced => reader.mode = "heuristic"
    BY <1>6 DEF NoTorch, ArtifactInv, Undisturbed, Reading, At
  <2> QED
    BY <1>2, <2>1, <2>2 DEF ArtifactInv, Undisturbed, Reading, At, OnlyDescribedWeightsPredict,
                            FinishedModelIsUsed
<1>7. CASE LoadWeights
  <2>0. CASE reader.empty
    <3>1. /\ reader'.at = "done" /\ reader'.mode = "none" /\ reader'.empty
      BY <1>7, <2>0, ZenonT(40) DEF LoadWeights, Give, ArtifactInv, TypesOK
    <3> QED
      BY <1>2, <3>1 DEF ArtifactInv, Undisturbed, Reading, At, OnlyDescribedWeightsPredict,
                        FinishedModelIsUsed
  <2>1. CASE ~reader.empty /\ weights.state = "whole"
    <3>1. /\ reader'.at = "done" /\ reader'.mode = "model" /\ reader'.loaded = weights
          /\ reader'.metadata = reader.metadata /\ reader'.raced = reader.raced
          /\ reader'.empty = FALSE
      BY <1>7, <2>1, ZenonT(40) DEF LoadWeights, ArtifactInv, TypesOK
    <3> QED
      BY <1>2, <1>7, <3>1 DEF LoadWeights, ArtifactInv, Undisturbed, Reading, At,
                              OnlyDescribedWeightsPredict, FinishedModelIsUsed
  <2>2. CASE ~reader.empty /\ weights.state # "whole"
    <3>1. /\ reader'.at = "done" /\ reader'.mode = "heuristic"
          /\ reader'.fresh = reader.fresh /\ reader'.raced = reader.raced
      BY <1>7, <2>2, ZenonT(40) DEF LoadWeights, Give, ArtifactInv, TypesOK
    <3>2. reader.fresh => reader.raced
      BY <1>7, <2>2 DEF LoadWeights, ArtifactInv, Undisturbed, Described, Reading, At
    <3> QED
      BY <1>2, <3>1, <3>2 DEF ArtifactInv, Undisturbed, Reading, At, OnlyDescribedWeightsPredict,
                              FinishedModelIsUsed
  <2> QED
    BY <2>0, <2>1, <2>2 DEF ArtifactInv, TypesOK
<1> QED
  BY <1>3, <1>4, <1>5, <1>6, <1>7 DEF ReadStep

\* Every step, kills included, keeps the artifact and its readers consistent.
LEMMA ArtifactPreserved == ArtifactInv /\ [Next]_vars => ArtifactInv'
<1> SUFFICES ASSUME ArtifactInv, [Next]_vars PROVE ArtifactInv'
  OBVIOUS
<1>0. TypesOK'
  BY TypesPreserved DEF ArtifactInv
<1>1. CASE BuildDataset \/ BeginFit \/ EpochsOver \/ NothingLearned \/ TrainKilled \/ TrainAgain
  BY <1>0, <1>1, FilesUntouched
     DEF BuildDataset, BeginFit, EpochsOver, NothingLearned, TrainKilled, TrainAgain, disk
<1>2. CASE \E p \in Pairs : Assign(p)
  BY <1>0, <1>2, FilesUntouched DEF Assign, disk
<1>3. CASE \E s \in Scores \cup {NoScore} : Epoch(s)
  BY <1>0, <1>3, FilesUntouched DEF Epoch, disk
<1>4. CASE OpenWeights \/ WriteWeights \/ OpenMetadata \/ WriteMetadata
  <2>1. SaveOrder'
    BY <1>4 DEF ArtifactInv, SaveOrder, Described, OpenWeights, WriteWeights, OpenMetadata,
                WriteMetadata, File
  <2>2. reader' = Raced
    BY <1>4 DEF OpenWeights, WriteWeights, OpenMetadata, WriteMetadata
  <2> QED
    BY <1>0, <2>1, <2>2, WriteDisturbs DEF ArtifactInv
<1>5. CASE HashWeights
  BY <1>0, <1>5 DEF ArtifactInv, SaveOrder, Undisturbed, Described, Metadata, At, Reading,
                    OnlyDescribedWeightsPredict, FinishedModelIsUsed, HashWeights, disk
<1>6. CASE ReadStep
  BY <1>0, <1>6, ReplayKeepsArtifact
<1>7. CASE UNCHANGED vars
  BY <1>0, <1>7, FilesUntouched DEF vars, disk
<1> QED
  BY <1>1, <1>2, <1>3, <1>4, <1>5, <1>6, <1>7 DEF Next, TrainStep

\* Kills between the writes of model.pt and metadata.json, retraining and any
\* number of replays: a replay that no save overlaps predicts only with the
\* weights its metadata describes.
THEOREM DescribedWeights == Spec => []OnlyDescribedWeightsPredict
<1>1. ArtifactInv => OnlyDescribedWeightsPredict
  BY DEF ArtifactInv
<1> QED
  BY <1>1, ArtifactInitially, ArtifactPreserved, PTL DEF Spec

\* A training whose save was completed is used by every replay that no other
\* save overlaps, whatever killed trainings left on disk before or began since;
\* but a replay of an empty graph dies.
THEOREM FinishedIsUsed == Spec => []FinishedModelIsUsed
<1>1. ArtifactInv => FinishedModelIsUsed
  BY DEF ArtifactInv
<1> QED
  BY <1>1, ArtifactInitially, ArtifactPreserved, PTL DEF Spec
=============================================================================
