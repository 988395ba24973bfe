--------------------------- MODULE CreateAndTrain ---------------------------
(***************************************************************************)
(* A training session that creates its machine itself (glue/): Init_Ngram  *)
(* or Init_FromAlignment runs the creation to its end, gives the numbers   *)
(* of its features to a new objective function object, and the session     *)
(* goes on with it.                                                        *)
(*                                                                         *)
(* The sessions of TrainingSession are all here, with a machine that comes *)
(* from nowhere; those in Creating have theirs made by CreateModel.        *)
(***************************************************************************)
EXTENDS TrainingSession, Noepshist

CONSTANT Creating     \* options of the sessions whose creation is followed

allVars == <<vars, topologyVars>>

NoTopology == [code |-> "none", prune |-> FALSE, order |-> 1, limit |-> -1, conjs |-> 0, segs |-> 0,
               threshold |-> One, backoff |-> <<>>, feats |-> "simple"]
IdleCreation ==
  /\ opts = NoTopology /\ data = <<>> /\ stage = "idle"
  /\ pair = 0 /\ table = <<>> /\ ngrams = NoTrie /\ trie = NoTrie
  /\ queue = <<>> /\ essential = {}
  /\ next = <<>> /\ stack = <<>> /\ models = <<>> /\ blocks = <<>> /\ fired = {}
  /\ histories = {}
Idle == stage = "idle"

CreatingInit ==
  /\ script = "train" /\ source \in {"align", "ngram"} /\ given \in Creating
  /\ optimizer = "lbfgs" /\ weightsLines <= 1 /\ namesLines <= 1
  /\ TopologyInit
  /\ source = "ngram" <=> opts.code = "ngram"

AllInit == Init /\ (IdleCreation \/ CreatingInit)

Create == pc = "create" /\ TopologyNext /\ UNCHANGED vars

\* Init_FromAlignment throws, or the process ends.
CreationFails == stage = "failed" /\ CannotCreate

-----------------------------------------------------------------------------
(* The numbers of the features.                                            *)

LengthFeatures == {LengthIn, LengthOut}
Named(j) == blocks[j] \ LengthFeatures
SumOfSizes(J) == FoldSet(LAMBDA j, n : n + Cardinality(Named(j)), 0, J)

\* Fault: the names are counted with one for epsilon.
OneTooMany == {3 + SumOfSizes(DOMAIN blocks)}

\* getHighestFeatureIndex plus one if the table had the length features only: the
\* features of a model are numbered after those of the models before, in the
\* order of its states and arcs, here in any.
NumbersInOrder ==
  LET last == {j \in DOMAIN blocks : Named(j) \cap fired # {}}
      j == CHOOSE j \in last : \A i \in last : i <= j
      low == 2 + SumOfSizes(1 .. j - 1) + Cardinality(Named(j) \cap fired)
  IN IF last # {} THEN low .. low + Cardinality(Named(j) \ fired)
     ELSE {IF LengthOut \in fired THEN 2 ELSE 1}

AllFeatures == UNION ToSet(blocks) \cup LengthFeatures
Smallest == IF fired = {} THEN 1 ELSE Cardinality(fired)

\* The same if a file names lines features: all, all but one, or one that does not
\* exist too.  A feature that it lacks gets the highest number.
NumbersWithFile(lines) ==
  LET total == Cardinality(AllFeatures)
  IN CASE lines >= total -> {<<lines, n>> : n \in Smallest .. lines}
       [] lines < total ->
            (IF fired = {} THEN {} ELSE {<<total, total>>})
              \cup IF AllFeatures = fired THEN {} ELSE {<<total, n>> : n \in Smallest .. lines}

\* The creation is over: its tables and machines are given up but for the result.
\* How long the files are is settled here: one line more or less than there are
\* features, or as many.
HandOver ==
  /\ stage = "created"
  /\ IF "init.names" \in given
     THEN LET total == Cardinality(AllFeatures)
          IN /\ namesLines' \in total - 1 .. total + 1
             /\ weightsLines' \in IF "init.weights" \in given THEN total - 1 .. total + 1 ELSE {0}
             /\ \E n \in NumbersWithFile(namesLines') : NewObject(n[1], n[2])
             /\ UNCHANGED <<script, given, source, optimizer, needed>>
     ELSE /\ \E n \in NumbersInOrder : NewObject(2 + SumOfSizes(DOMAIN blocks), n)
          /\ UNCHANGED session
  /\ opts' = NoTopology /\ data' = <<>> /\ stage' = "idle"
  /\ pair' = 0 /\ table' = <<>> /\ ngrams' = NoTrie /\ trie' = NoTrie
  /\ queue' = <<>> /\ essential' = {}
  /\ next' = <<>> /\ stack' = <<>> /\ models' = <<>> /\ blocks' = <<>> /\ fired' = {}
  /\ histories' = {}

SessionStep == Idle /\ Next /\ UNCHANGED topologyVars

AllNext ==
  \/ Create
  \/ CreationFails /\ UNCHANGED topologyVars
  \/ HandOver
  \/ SessionStep

\* The only thread goes on; a sum that never ends is a step into a state without end.
AllSpec == AllInit /\ [][AllNext]_allVars /\ WF_allVars(SessionStep)

-----------------------------------------------------------------------------

\* The types of the session, and of the creation while it is under way: a trie
\* that is a trie, models that are not empty, no feature without a name, and as
\* many names as the object has parameters or more.
AllTypesOK == TypeOK /\ CreateTypeOK
=============================================================================
