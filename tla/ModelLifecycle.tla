---------------------------- MODULE ModelLifecycle ----------------------------
(***************************************************************************)
(* The life of a prediction model: "conflictgraph model train" builds and  *)
(* splits a dataset (python/conflictgraph/dataset.py), trains with early   *)
(* stopping and saves model.pt and metadata.json (model.py), while         *)
(* "conflictgraph trace replay" processes check and load that artifact and *)
(* overlay the heuristic predictions, or keep them (cli.py, model.py).     *)
(*                                                                         *)
(* An epoch yields a score in units of the tolerance 1e-5 (NoScore: not a  *)
(* number); what the network computes is external.  The weights are named  *)
(* by the training and the epoch they come from, so two checksums are      *)
(* equal when the names are.  A shuffle and a sample are any order and any *)
(* subset.  One training runs at a time.                                   *)
(***************************************************************************)
EXTENDS Integers, FiniteSets, Sequences

CONSTANTS
    Pairs,           \* candidate pairs of the synthetic world
    NegativeRatio,   \* negatives per positive (4 in the code)
    FewNegatives,    \* negatives that are kept in any case (32)
    Scores,          \* scores an epoch may have
    Epochs,          \* configured epochs
    EarliestStop,    \* first epoch at which training may stop early (80)
    Patience,        \* epochs without improvement before it does (15)
    MaxTrainings     \* bound on the number of trainings

ASSUME ModelAssumption ==
    /\ IsFiniteSet(Pairs) /\ Pairs # {}
    /\ Scores \subseteq Nat
    /\ {NegativeRatio, FewNegatives, Epochs, EarliestStop, Patience, MaxTrainings} \subseteq Nat

VARIABLES
    phase,       \* what model train is doing
    data,        \* dataset and split, while they are being made
    scores,      \* score of every epoch of this training
    best,        \* [epoch, score] of the kept checkpoint
    stale,       \* epochs since it was kept
    training,    \* number of this training
    weights,     \* model.pt
    digest,      \* the hash that save computed
    metadata,    \* metadata.json
    finished,    \* history: a save was completed, and none begun since
    reader       \* a trace replay that looks for the model

datasetVars == <<data>>
fitVars == <<scores, best, stale>>
disk == <<weights, metadata, finished>>
vars == <<phase, datasetVars, fitVars, training, digest, disk, reader>>

Larger(m, n) == IF m >= n THEN m ELSE n
Smaller(m, n) == IF m <= n THEN m ELSE n

NoScore == -1
Nowhere == -10      \* best_score = -1.0 is below every score

NoData == [positives |-> {}, examples |-> {}, bucket |-> <<>>]
NoCheckpoint == [epoch |-> 0, score |-> Nowhere]

File(state, from, epoch) == [state |-> state, from |-> from, epoch |-> epoch]
Absent == File("absent", 0, 0)
Torn == File("torn", 0, 0)

Metadata(state, schema, weightsFile) == [state |-> state, schema |-> schema, checksum |-> weightsFile]
NoMetadata == Metadata("absent", "current", Absent)

IdleReader == [at |-> "idle", metadata |-> NoMetadata, loaded |-> Absent, mode |-> "heuristic",
               empty |-> FALSE, fresh |-> FALSE, raced |-> FALSE, missing |-> FALSE]

\* No artifact, or one of an older schema.
Init ==
    /\ phase = "idle"
    /\ data = NoData
    /\ scores = <<>> /\ best = NoCheckpoint /\ stale = 0
    /\ training = 0
    /\ digest = Absent
    /\ \/ weights = Absent /\ metadata = NoMetadata
       \/ weights = File("whole", 0, 1) /\ metadata = Metadata("whole", "older", File("whole", 0, 1))
    /\ finished = FALSE
    /\ reader = IdleReader
-----------------------------------------------------------------------------
(***************************************************************************)
(* DatasetBuilder.build and pair_disjoint_split.                           *)
(***************************************************************************)

\* Any labels; all positives are kept and the negatives are sampled down.
BuildDataset ==
    /\ phase = "idle" /\ training = 0 /\ MaxTrainings > 0
    /\ \E positives \in SUBSET Pairs :
          LET negatives == Pairs \ positives
              limit == Larger(NegativeRatio * Cardinality(positives),
                              Smaller(Cardinality(negatives), FewNegatives))
          IN  \E kept \in SUBSET negatives :
                 /\ Cardinality(kept) = Smaller(limit, Cardinality(negatives))
                 /\ data' = [positives |-> positives, examples |-> positives \cup kept, bucket |-> <<>>]
    /\ phase' = "split"
    /\ training' = 1
    /\ UNCHANGED <<fitVars, digest, disk, reader>>

Buckets == 1 .. 3
Percent == <<70, 15, 15>>

In(b) == {p \in DOMAIN data.bucket : data.bucket[p] = b}

\* What bucket b is to hold, and how many positives, in hundredths.
SizeTarget(b) == Larger(100, Cardinality(data.examples) * Percent[b])
PositiveTarget(b) == Larger(100, Larger(1, Cardinality(data.positives)) * Percent[b])

\* Faulty pressure: a bucket is filled by the number of positives alone.
PositivePressure(b) ==
    [num |-> Cardinality(In(b) \cap data.positives), den |-> PositiveTarget(b)]

\* size_pressure + positive_pressure of bucket b, as a fraction.
Pressure(b) ==
    [num |-> Cardinality(In(b)) * PositiveTarget(b) + Cardinality(In(b) \cap data.positives) * SizeTarget(b),
     den |-> SizeTarget(b) * PositiveTarget(b)]

AtMost(x, y) == x.num * y.den <= y.num * x.den

\* The next pair of the shuffled order goes where the pressure is least.
\* (Rounding may decide between buckets of equal pressure.)
Assign(p) ==
    /\ phase = "split"
    /\ p \in data.examples \ DOMAIN data.bucket
    /\ \E b \in Buckets :
          /\ \A c \in Buckets : AtMost(Pressure(b), Pressure(c))
          /\ data' = [data EXCEPT !.bucket =
                         [q \in DOMAIN @ \cup {p} |-> IF q = p THEN b ELSE @[q]]]
    /\ UNCHANGED <<phase, fitVars, training, digest, disk, reader>>

SplitDone == phase = "split" /\ DOMAIN data.bucket = data.examples
-----------------------------------------------------------------------------
(***************************************************************************)
(* GNNTrainer.fit.                                                         *)
(***************************************************************************)

BeginFit ==
    /\ SplitDone
    /\ phase' = "fit"
    /\ data' = NoData
    /\ UNCHANGED <<fitVars, training, digest, disk, reader>>

\* Faulty comparison: a score as good as the best one is kept as well.
KeepLatest(score) == score # NoScore /\ score + 1 >= best.score

\* A checkpoint is kept when it is better by more than the tolerance.
Improves(score) == score # NoScore /\ score > best.score + 1

\* One epoch; training goes on unless patience has run out.
Epoch(score) ==
    /\ phase = "fit"
    /\ Len(scores) < Epochs
    /\ scores' = Append(scores, score)
    /\ IF Improves(score)
       THEN best' = [epoch |-> Len(scores) + 1, score |-> score] /\ stale' = 0 /\ UNCHANGED phase
       ELSE /\ stale' = stale + 1
            /\ phase' = IF Len(scores) >= EarliestStop /\ stale' >= Patience THEN "fitted" ELSE "fit"
            /\ UNCHANGED best
    /\ UNCHANGED <<data, training, digest, disk, reader>>

EpochsOver ==
    /\ phase = "fit"
    /\ Len(scores) = Epochs
    /\ phase' = "fitted"
    /\ UNCHANGED <<data, fitVars, training, digest, disk, reader>>

\* No epoch had a score: ArtifactError.
NothingLearned ==
    /\ phase = "fitted"
    /\ best = NoCheckpoint
    /\ phase' = "idle"
    /\ UNCHANGED <<data, fitVars, training, digest, disk, reader>>
-----------------------------------------------------------------------------
(***************************************************************************)
(* GNNTrainer.save: the best state is written to model.pt, read back for   *)
(* its hash, and described in metadata.json.  Neither write is atomic.     *)
(***************************************************************************)

Reading == reader.at \notin {"idle", "done"}

Raced == [reader EXCEPT !.raced = @ \/ Reading]

\* The best checkpoint is loaded and saved.
OpenWeights ==
    /\ phase = "fitted"
    /\ best # NoCheckpoint
    /\ weights' = Torn
    /\ finished' = FALSE
    /\ phase' = "weights"
    /\ reader' = Raced
    /\ UNCHANGED <<data, fitVars, training, digest, metadata>>

WriteWeights ==
    /\ phase = "weights"
    /\ weights' = File("whole", training, best.epoch)
    /\ phase' = "hash"
    /\ reader' = Raced
    /\ UNCHANGED <<data, fitVars, training, digest, metadata, finished>>

\* Faulty save: the hash of the previous artifact is described.
KeepOldHash ==
    /\ phase = "hash"
    /\ digest' = metadata.checksum
    /\ phase' = "describe"
    /\ UNCHANGED <<data, fitVars, training, disk, reader>>

HashWeights ==
    /\ phase = "hash"
    /\ digest' = weights
    /\ phase' = "describe"
    /\ UNCHANGED <<data, fitVars, training, disk, reader>>

OpenMetadata ==
    /\ phase = "describe"
    /\ metadata' = Metadata("torn", "current", Absent)
    /\ phase' = "metadata"
    /\ reader' = Raced
    /\ UNCHANGED <<data, fitVars, training, digest, weights, finished>>

WriteMetadata ==
    /\ phase = "metadata"
    /\ metadata' = Metadata("whole", "current", digest)
    /\ finished' = TRUE
    /\ phase' = "saved"
    /\ reader' = Raced
    /\ UNCHANGED <<data, fitVars, training, digest, weights>>

\* The command is killed.
TrainKilled ==
    /\ phase \in {"fit", "fitted", "weights", "hash", "describe", "metadata"}
    /\ phase' = "idle"
    /\ UNCHANGED <<data, fitVars, training, digest, disk, reader>>

\* The command is run again: the seed gives the same dataset and split.
TrainAgain ==
    /\ phase \in {"idle", "saved"}
    /\ training \in 1 .. MaxTrainings - 1
    /\ phase' = "fit"
    /\ training' = training + 1
    /\ scores' = <<>> /\ best' = NoCheckpoint /\ stale' = 0
    /\ UNCHANGED <<data, digest, disk, reader>>
-----------------------------------------------------------------------------
(***************************************************************************)
(* trace replay and predict_artifact.                                      *)
(***************************************************************************)

At(step) == reader.at = step

ReadTrain == <<phase, data, fitVars, training, digest, disk>>

Give(mode) == reader' = [reader EXCEPT !.at = "done", !.mode = mode]

\* A replay starts, with a graph that may be empty: is there a metadata.json?
\* (The history field fresh says whether a finished training is on disk.)
LookForModel ==
    /\ At("idle") \/ At("done")
    /\ phase # "split"
    /\ \E empty \in BOOLEAN :
          reader' = [IdleReader EXCEPT
                        !.at = IF metadata.state = "absent" THEN "done" ELSE "metadata",
                        !.empty = empty, !.fresh = finished]
    /\ UNCHANGED ReadTrain

\* The metadata is read; a torn file is an ArtifactError.
ReadMetadata ==
    /\ At("metadata")
    /\ IF metadata.state = "torn" THEN Give("heuristic")
       ELSE reader' = [reader EXCEPT !.at = "check", !.metadata = metadata]
    /\ UNCHANGED ReadTrain

\* Faulty check: the checksum is not compared.
CheckSchemaOnly ==
    /\ At("check")
    /\ IF weights.state # "absent" /\ reader.metadata.schema = "current"
       THEN reader' = [reader EXCEPT !.at = "load"]
       ELSE Give("heuristic")
    /\ UNCHANGED ReadTrain

\* The weights are read and hashed; schema, checksum and features must fit.
CheckWeights ==
    /\ At("check")
    /\ IF weights = reader.metadata.checksum /\ reader.metadata.schema = "current"
       THEN reader' = [reader EXCEPT !.at = "load"]
       ELSE Give("heuristic")
    /\ UNCHANGED ReadTrain

\* PyTorch is not installed: an ArtifactError as well.
NoTorch ==
    /\ At("load")
    /\ reader' = [reader EXCEPT !.at = "done", !.missing = TRUE]
    /\ UNCHANGED ReadTrain

\* An empty graph has no matrix of tests for the network: an IndexError that
\* nobody catches.  Otherwise the weights are read a second time and loaded;
\* torn ones do not load.
LoadWeights ==
    /\ At("load")
    /\ IF reader.empty THEN Give("none")
       ELSE IF weights.state = "whole"
       THEN reader' = [reader EXCEPT !.at = "done", !.mode = "model", !.loaded = weights]
       ELSE Give("heuristic")
    /\ UNCHANGED ReadTrain

TrainStep ==
    \/ BuildDataset \/ BeginFit
    \/ \E p \in Pairs : Assign(p)
    \/ \E s \in Scores \cup {NoScore} : Epoch(s)
    \/ EpochsOver \/ NothingLearned
    \/ OpenWeights \/ WriteWeights \/ HashWeights \/ OpenMetadata \/ WriteMetadata
    \/ TrainKilled \/ TrainAgain

ReadStep == LookForModel \/ ReadMetadata \/ CheckWeights \/ NoTorch \/ LoadWeights

Next == TrainStep \/ ReadStep

Spec == Init /\ [][Next]_vars
-----------------------------------------------------------------------------
(***************************************************************************)
(* Properties.                                                             *)
(***************************************************************************)

\* At any point of the shuffled order, a part without its last example, were
\* that a positive one, is not ahead of any other part: the sum of size and
\* positives is balanced to within one example.
SplitIsBalanced ==
    phase = "split" =>
        \A b, c \in Buckets :
            LET last == PositiveTarget(b) + SizeTarget(b)
            IN  (Pressure(b).num - last) * Pressure(c).den <= Pressure(c).num * Pressure(b).den

\* Whatever the labels and the shuffled order, pair_disjoint_split never lets
\* a part get ahead of the others, and three examples are enough to fill all
\* three parts, although the targets may be below one example.
SplitServesEveryPart ==
    /\ SplitIsBalanced
    /\ SplitDone /\ Cardinality(data.examples) >= 3 => \A b \in Buckets : In(b) # {}

\* What save writes is the checkpoint of an epoch that no other epoch of the
\* training beats by more than the tolerance, and training ended early only
\* after Patience epochs in a row had failed to beat it.
BestCheckpointIsSaved ==
    phase \in {"fitted", "weights", "hash"} /\ best # NoCheckpoint =>
        /\ scores[best.epoch] = best.score
        /\ \A i \in DOMAIN scores : scores[i] <= best.score + 1
        /\ Len(scores) < Epochs => Len(scores) - best.epoch >= Patience
        /\ phase = "hash" => weights.epoch = best.epoch

\* Kills between the two writes, retraining over an old artifact and readers
\* in between: a replay predicts with the weights its metadata describes, or
\* it falls back to the heuristic.  (Not when a save overlaps the replay: the
\* weights are read once for the checksum and once more for loading.)
OnlyDescribedWeightsPredict ==
    At("done") /\ reader.mode = "model" /\ ~reader.raced =>
        /\ reader.loaded = reader.metadata.checksum
        /\ reader.metadata.schema = "current"

\* A replay that finds a finished training, on which no save begins meanwhile,
\* uses it, whatever killed trainings left behind before or began since.  The
\* one exception is a replay of an empty graph, which dies (model.py:586) and
\* gives no predictions at all.
FinishedModelIsUsed ==
    At("done") /\ reader.fresh /\ ~reader.raced /\ ~reader.missing =>
        reader.mode = IF reader.empty THEN "none" ELSE "model"
=============================================================================
