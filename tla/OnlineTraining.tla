--------------------------- MODULE OnlineTraining ---------------------------
(***************************************************************************)
(* The program drivers/transducer-train.cc: online training of the model   *)
(* in a file with CumulativeL1Trainer or SgdTrainer (train/online/train.h),*)
(* one pair of strings to a batch (FstBatches in train/online/fst-stuff.h).*)
(*                                                                         *)
(* A path through a model is the set of features that fire on it.  How     *)
(* likely a path is depends on the weights; the model leaves it open, so   *)
(* that an expected count may be anything that the paths allow.            *)
(***************************************************************************)
EXTENDS CumulativeL1

CONSTANTS
  Pairs,    \* what data may hold: the paths for the input, and those for the pair
  Unit      \* an expected count of 1, in the units of Gradients

ASSUME PairsAssumption ==
  /\ \A p \in Pairs : p.clamped \subseteq p.unclamped /\ p.unclamped \subseteq SUBSET Features
  /\ Unit \in Nat /\ -Unit .. Unit \subseteq Gradients

VARIABLES
  given,    \* options on the command line; l1 if it is on
  data,     \* the training data
  phase,       \* where the program is
  output    \* the weights in the files written, or None

online == <<given, data>>
onlineVars == <<vars, online, phase, output>>
None == [i \in {} |-> 0]

Required == {"isymbols", "osymbols", "fst", "train-data"}

OnlineInit ==
  /\ Init
  /\ given \in {g \cup h : g \in {Required} \cup {Required \ {o} : o \in Required},
                           h \in SUBSET {"l1", "output"}}
  /\ data \in [1 .. NumBatches -> Pairs]
  /\ phase = "start" /\ output = None

\* EXIT_FAILURE, with no output.
Fail == phase' = "failed" /\ UNCHANGED <<vars, online, output>>

MissingOption == phase = "start" /\ ~ Required \subseteq given /\ Fail

\* The files are read; the weights in the FST file are not used.
Start ==
  /\ phase = "start" /\ Required \subseteq given
  /\ phase' = "train"
  /\ UNCHANGED <<vars, online, output>>

-----------------------------------------------------------------------------

FeaturesOn(paths) == UNION paths

\* AddFeatMDExpectations: the expected counts a model of the paths may have.
Expectations(paths, f) ==
  IF \A p \in paths : f \in p THEN {Unit}
  ELSE IF f \notin FeaturesOn(paths) THEN {0} ELSE 1 .. Unit - 1

\* Fault: the expectations are added with the wrong signs.
SwappedGradients(pair) ==
  {g \in [FeaturesOn(pair.unclamped) -> Gradients] :
     \A f \in DOMAIN g : \E c \in Expectations(pair.clamped, f) :
       c - g[f] \in Expectations(pair.unclamped, f)}

\* AddGradients: a map with the features of the arcs.
AddGradients(pair) ==
  {g \in [FeaturesOn(pair.unclamped) -> Gradients] :
     \A f \in DOMAIN g : \E c \in Expectations(pair.clamped, f) :
       g[f] + c \in Expectations(pair.unclamped, f)}

\* ExponentialLearningRateFct
LearningRates == {r \in Rates : (pass = 1 /\ batch = 0) \/ r <= eta}

AtPass == phase = "train" /\ todo = {} /\ batch = NumBatches
AtBatch == phase = "train" /\ todo = {} /\ batch < NumBatches

TrainPass == phase = "train" /\ NextPass /\ UNCHANGED <<online, phase, output>>

\* "no paths: bad fst" is thrown, or a symbol is unknown.
NoPaths == AtBatch /\ data[batch + 1].clamped = {} /\ Fail

CanSum == AtBatch /\ data[batch + 1].clamped # {}

L1Batch ==
  /\ CanSum /\ "l1" \in given
  /\ eta' \in LearningRates /\ gradient' \in AddGradients(data[batch + 1])
  /\ u' = u + eta' * Strength
  /\ todo' = DOMAIN gradient' /\ batch' = batch + 1
  /\ UNCHANGED <<weights, q, zeroWeights, pass, applied, online, phase, output>>

\* SgdTrainer
SgdBatch ==
  /\ CanSum /\ "l1" \notin given
  /\ eta' \in LearningRates /\ gradient' \in AddGradients(data[batch + 1])
  /\ todo' = DOMAIN gradient' /\ batch' = batch + 1
  /\ UNCHANGED <<weights, u, q, zeroWeights, pass, applied, online, phase, output>>

L1Update(i) ==
  "l1" \in given /\ Update(i) /\ UNCHANGED <<online, phase, output>>

SgdUpdate(i) ==
  /\ "l1" \notin given /\ i \in todo /\ \A j \in todo : i <= j
  /\ todo' = todo \ {i}
  /\ weights' = [weights EXCEPT ![i] = @ + eta * gradient[i]]
  /\ applied' = [applied EXCEPT ![i] = @ + eta * gradient[i]]
  /\ UNCHANGED <<u, q, zeroWeights, pass, batch, eta, gradient, online, phase, output>>

\* The weights are written, and put on the arcs of the FST that is.
Finish ==
  /\ AtPass /\ pass = NumPasses
  /\ phase' = "done"
  /\ output' = IF "output" \in given THEN weights ELSE None
  /\ UNCHANGED <<vars, online>>

OnlineNext ==
  \/ MissingOption \/ Start \/ TrainPass \/ NoPaths \/ L1Batch \/ SgdBatch \/ Finish
  \/ \E i \in Features : L1Update(i) \/ SgdUpdate(i)

OnlineSpec == OnlineInit /\ [][OnlineNext]_onlineVars

-----------------------------------------------------------------------------

\* Weights are costs.  A feature that is on every path of every pair that has it
\* never costs, and one that only other outputs have is never preferred: neither
\* the penalty nor a sequence of batches turns a sign.
FavoursTheTruth ==
  LET pairs == {data[n] : n \in 1 .. NumBatches}
      having(f) == {p \in pairs : f \in FeaturesOn(p.unclamped)}
  IN \A f \in Features :
       /\ (\A p \in having(f) : f \notin FeaturesOn(p.clamped)) => weights[f] >= 0
       /\ (\A p \in having(f) : \A path \in p.clamped : f \in path) => weights[f] <= 0
=============================================================================
