------------------------ MODULE CreateAndTrainProofs ------------------------
(***************************************************************************)
(* What holds in every training session, for any options, any number of    *)
(* parameters and any bounds.                                              *)
(*                                                                         *)
(* The first part is about all sessions, those that create their machine   *)
(* included; a creation changes nothing but pc of what it speaks about.    *)
(* The second part is about TrainingSession alone, where the numbers of    *)
(* the features come from nowhere: for a created machine they are a fold   *)
(* over its models.                                                        *)
(* The third part is about the creation: the machine of the well-formed    *)
(* strings, the symbols and the alignments, and the lattices made of them. *)
(* The fourth part is about the n-grams: which of them are counted, and    *)
(* which arcs the backoff of a model gets.                                 *)
(***************************************************************************)
EXTENDS CreateAndTrain, FiniteSetTheorems, WellFoundedInduction, SequenceTheorems, TLAPS

Early == {"create", "weights", "force", "settings", "check", "begin"}
Late == {"save", "saved", "done", "aborted", "endless"}

\* rprop has forgotten the sign of each parameter whose update it has made
\* smaller in the last iteration.
HalvedForgotten ==
  /\ pc \in Early => halved = {}
  /\ pc \in {"value", "gradients"} /\ optimizer = "rprop" =>
       /\ updates \in [Params -> 0 .. UpdateMax] /\ prevSigns \in [Params -> Signs]
       /\ halved \subseteq Params /\ \A i \in halved : prevSigns[i] = 0

Optimising == GradientsOfVector /\ HalvedForgotten

-----------------------------------------------------------------------------

LEMMA InitOptimising == Init => Optimising
  BY DEF Init, Optimising, GradientsOfVector, HalvedForgotten, Early

LEMMA NewObjectOptimising ==
  ASSUME Optimising, NEW t, NEW n, NewObject(t, n)
  PROVE  Optimising'
<1>1. pc = "create" /\ pc' = "weights" /\ halved' = halved
  BY DEF NewObject, rprop
<1> QED BY <1>1 DEF Optimising, GradientsOfVector, HalvedForgotten, Early

\* Steps before the optimisation and after it.
Elsewhere ==
  /\ halved' = halved
  /\ pc' \in Early \cup Late
  /\ pc' \in Early => pc \in Early

LEMMA ElsewhereOptimising == Optimising /\ Elsewhere => Optimising'
<1> SUFFICES ASSUME Optimising, Elsewhere PROVE Optimising'
  OBVIOUS
<1>1. pc' \notin {"value", "gradients"}
  BY DEF Elsewhere, Early, Late
<1>2. pc' \in Early => halved' = {}
  BY DEF Elsewhere, Optimising, HalvedForgotten
<1> QED BY <1>1, <1>2 DEF Optimising, GradientsOfVector, HalvedForgotten

LEMMA BeginOptimising == Optimising /\ Begin => Optimising'
<1> SUFFICES ASSUME Optimising, Begin PROVE Optimising'
  OBVIOUS
<1>1. /\ pc = "begin" /\ pc' \in {"save", "value"} /\ optimizer' = optimizer
      /\ numParams' = numParams /\ halved' = halved
      /\ optimizer = "rprop" =>
           updates' = [i \in Params |-> UpdateMax - 1] /\ prevSigns' = [i \in Params |-> 0]
  BY DEF Begin, object
<1>2. halved' = {}
  BY <1>1 DEF Optimising, HalvedForgotten, Early
<1>3. UpdateMax - 1 \in 0 .. UpdateMax
  BY SessionAssumption
<1>4. Params' = Params
  BY <1>1 DEF Params
<1>5. optimizer' = "rprop" => updates' \in [Params' -> 0 .. UpdateMax] /\ prevSigns' \in [Params' -> Signs]
  BY <1>1, <1>3, <1>4 DEF Signs
<1> QED BY <1>1, <1>2, <1>5 DEF Optimising, GradientsOfVector, HalvedForgotten

LEMMA ValueOptimising == Optimising /\ Value => Optimising'
<1> SUFFICES ASSUME Optimising, Value PROVE Optimising'
  OBVIOUS
<1>1. /\ pc = "value" /\ pc' = "gradients"
      /\ onArcs' = params /\ evaluated' = params
      /\ UNCHANGED <<params, optimizer, numParams, updates, prevSigns, halved>>
  BY DEF Value, GetFunctionValue, SetFeatureWeights, session, object, rprop
<1>2. GradientsOfVector'
  BY <1>1 DEF GradientsOfVector
<1>3. HalvedForgotten'
  BY <1>1 DEF Optimising, HalvedForgotten, Params, Early
<1> QED BY <1>2, <1>3 DEF Optimising

\* What rprop's rules make of the updates and of the signs.
LEMMA RpropStep ==
  ASSUME Optimising, RpropIteration
  PROVE  /\ updates' \in [Params -> 0 .. UpdateMax] /\ prevSigns' \in [Params -> Signs]
         /\ halved' \subseteq Params /\ \A i \in halved' : prevSigns'[i] = 0
         /\ halved \cap halved' = {}
<1>1. PICK signs \in [Params -> Signs] :
        /\ updates' = [i \in Params |-> CASE prevSigns[i] * signs[i] > 0 -> Up(updates[i])
                                         [] prevSigns[i] * signs[i] < 0 -> Down(updates[i])
                                         [] OTHER -> updates[i]]
        /\ prevSigns' = [i \in Params |-> SignRemembered(signs, i)]
        /\ halved' = {i \in Params : prevSigns[i] * signs[i] < 0}
  <2>1. [i \in Params |-> 0] \in [Params -> Signs]
    BY DEF Signs
  <2> QED BY <2>1 DEF RpropIteration
<1>2. /\ updates \in [Params -> 0 .. UpdateMax] /\ prevSigns \in [Params -> Signs]
      /\ halved \subseteq Params /\ \A i \in halved : prevSigns[i] = 0
  BY DEF RpropIteration, Optimising, HalvedForgotten
<1>3. ASSUME NEW u \in 0 .. UpdateMax
      PROVE  Up(u) \in 0 .. UpdateMax /\ Down(u) \in 0 .. UpdateMax
  BY SessionAssumption DEF Up, Down
<1>4. updates' \in [Params -> 0 .. UpdateMax]
  <2>1. ASSUME NEW i \in Params
        PROVE  (CASE prevSigns[i] * signs[i] > 0 -> Up(updates[i])
                  [] prevSigns[i] * signs[i] < 0 -> Down(updates[i])
                  [] OTHER -> updates[i]) \in 0 .. UpdateMax
    <3>1. updates[i] \in 0 .. UpdateMax
      BY <1>2
    <3>2. Up(updates[i]) \in 0 .. UpdateMax /\ Down(updates[i]) \in 0 .. UpdateMax
      BY <3>1, <1>3
    <3>3. prevSigns[i] \in Int /\ signs[i] \in Int
      BY <1>2 DEF Signs
    <3> QED BY <3>1, <3>2, <3>3
  <2> QED BY <1>1, <2>1
<1>5. prevSigns' \in [Params -> Signs]
  <2>1. ASSUME NEW i \in Params PROVE SignRemembered(signs, i) \in Signs
    BY DEF SignRemembered, Signs
  <2> QED BY <1>1, <2>1
<1>6. \A i \in halved' : prevSigns'[i] = 0
  BY <1>1 DEF SignRemembered
<1>7. halved \cap halved' = {}
  <2>1. ASSUME NEW i \in halved PROVE ~ (prevSigns[i] * signs[i] < 0)
    <3>1. prevSigns[i] = 0 /\ signs[i] \in Int
      BY <1>2 DEF Signs
    <3> QED BY <3>1
  <2> QED BY <1>1, <2>1
<1> QED BY <1>1, <1>4, <1>5, <1>6, <1>7

LEMMA RpropIterationOptimising == Optimising /\ RpropIteration => Optimising'
<1> SUFFICES ASSUME Optimising, RpropIteration PROVE Optimising'
  OBVIOUS
<1>1. pc' \in {"save", "value"} /\ numParams' = numParams
  BY DEF RpropIteration, object
<1>2. Params' = Params
  BY <1>1 DEF Params
<1> QED BY <1>1, <1>2, RpropStep DEF Optimising, GradientsOfVector, HalvedForgotten, Early

LEMMA LbfgsNextOptimising == Optimising /\ LbfgsNext => Optimising'
<1> SUFFICES ASSUME Optimising, LbfgsNext PROVE Optimising'
  OBVIOUS
<1>1. optimizer = "lbfgs" /\ optimizer' = optimizer /\ pc' = "value" /\ halved' = halved
  BY DEF LbfgsNext, session, rprop
<1> QED BY <1>1 DEF Optimising, GradientsOfVector, HalvedForgotten, Early

LEMMA NextOptimising == Optimising /\ Next => Optimising'
<1> SUFFICES ASSUME Optimising, Next PROVE Optimising'
  OBVIOUS
<1>1. CASE Quit \/ CannotCreate \/ NoSuchFile \/ ReadBeyond \/ SumForEver \/ NotALenmatchObject \/ CannotGoOn
  <2>1. Elsewhere
    BY <1>1 DEF Quit, CannotCreate, NoSuchFile, ReadBeyond, SumForEver, NotALenmatchObject, CannotGoOn, Abort, rprop,
                Elsewhere, Early, Late
  <2> QED BY <2>1, ElsewhereOptimising
<1>2. CASE InitFromFile \/ InitFromModel
  BY <1>2, NewObjectOptimising DEF InitFromFile, InitFromModel
<1>3. CASE InitWeights \/ Converges \/ RaisePenalty \/ Settings \/ CheckGradients
  <2>1. Elsewhere
    BY <1>3 DEF InitWeights, Converges, RaisePenalty, Settings, CheckGradients, rprop,
                Elsewhere, Early, Late
  <2> QED BY <2>1, ElsewhereOptimising
<1>4. CASE LbfgsEnd \/ Save \/ Cleanup
  <2>1. Elsewhere
    BY <1>4 DEF LbfgsEnd, Save, Cleanup, rprop, Elsewhere, Early, Late
  <2> QED BY <2>1, ElsewhereOptimising
<1> QED
  BY <1>1, <1>2, <1>3, <1>4, BeginOptimising, ValueOptimising, RpropIterationOptimising,
     LbfgsNextOptimising DEF Next, Optimise

LEMMA UnchangedOptimising == Optimising /\ UNCHANGED vars => Optimising'
  BY DEF vars, session, object, evaluation, rprop, Optimising, GradientsOfVector,
         HalvedForgotten, Params

\* A creation is a step of the session that changes nothing, that fails, or that
\* hands the object over.
LEMMA AllNextOptimising == Optimising /\ [AllNext]_allVars => Optimising'
<1> SUFFICES ASSUME Optimising, [AllNext]_allVars PROVE Optimising'
  OBVIOUS
<1>1. CASE HandOver
  <2>1. \E t, n : NewObject(t, n)
    BY <1>1 DEF HandOver
  <2> QED BY <2>1, NewObjectOptimising
<1>2. CASE UNCHANGED vars
  BY <1>2, UnchangedOptimising
<1>3. CASE Next
  BY <1>3, NextOptimising
<1>4. [AllNext]_allVars => HandOver \/ UNCHANGED vars \/ Next
  BY DEF AllNext, allVars, Create, CreationFails, SessionStep, Next
<1> QED BY <1>1, <1>2, <1>3, <1>4

\* What the optimiser has relied on is true in all sessions of a history.
THEOREM AlwaysOptimising == AllSpec => []Optimising
<1>1. AllInit => Optimising
  BY InitOptimising DEF AllInit
<1> QED BY <1>1, AllNextOptimising, PTL DEF AllSpec

\* In every session, whoever created its machine: when the optimiser gets the
\* gradients, they, the value and the weights on the arcs all belong to its vector.
THEOREM GradientsBelong == AllSpec => []GradientsOfVector
<1>1. Optimising => GradientsOfVector
  BY DEF Optimising
<1> QED BY <1>1, AlwaysOptimising, PTL

\* In every session, for any number of parameters and signs of their gradients:
\* rprop does not make the update of a parameter smaller in two iterations in a row.
THEOREM NeverHalvedTwice == AllSpec => HalvedNotTwice
<1>1. Optimising => [RpropIteration => halved \cap halved' = {}]_vars
  BY RpropStep
<1> QED BY <1>1, AlwaysOptimising, PTL DEF HalvedNotTwice

-----------------------------------------------------------------------------
(* The types and the lengths, for sessions of TrainingSession alone.       *)

Top == MaxForce + Larger(MaxIter, MaxEvals)

LEMMA TopType == Top \in Nat /\ Larger(MaxIter, MaxEvals) \in Nat /\ Vectors = Untrained .. Top
  BY SessionAssumption DEF Top, Larger, Vectors

LEMMA VectorsType ==
  /\ \A v \in 0 .. Top : v \in Vectors
  /\ Untrained \in Vectors /\ Perturbed \in Vectors
  BY TopType DEF Untrained, Perturbed

LEMMA FreshType == made \in 0 .. Top => Fresh \in 0 .. Top
  BY TopType DEF Fresh, Top

LengthTypes ==
  /\ script \in {"train", "train-condother"}
  /\ weightsLines \in Nat /\ namesLines \in Nat
  /\ numParams \in Nat /\ names \in Nat /\ numWeights \in Nat
  /\ names > 0 => numParams <= names
  /\ kind \in {"none", "joint", "conditional", "lenmatch", "condother"}

VectorTypes ==
  /\ params \in 0 .. Top /\ made \in 0 .. Top /\ initParams \in 0 .. Top
  /\ onArcs \in Vectors /\ evaluated \in Vectors
  /\ saved \in [weights : Vectors, fst : Vectors]
  /\ outcome \in Outcomes
  /\ iter \in 0 .. Larger(MaxIter, MaxEvals)

\* Names come with the object, and weights after it: until then there are enough
\* names for the given weights if there were enough, and only the one script has any.
NamesKept ==
  /\ pc = "create" => names = 0
  /\ pc \in {"create", "weights"} => numWeights = 0
  /\ pc = "weights" /\ names > 0 =>
       script = "train" /\ (FilesFit /\ "init.weights" \in given => weightsLines <= names)

\* The two parts of FilesCanStartSession.
WeightsNamed ==
  names > 0 /\ numWeights > 0 =>
    /\ "init.weights" \in given => weightsLines <= numWeights
    /\ FilesFit => numWeights <= names
EnoughWeights == numWeights >= numParams /\ (optimizer = "lbfgs" => numWeights = numParams)
StepsHaveWeights == iter > 0 \/ (pc \in {"save", "saved", "done"} /\ optimizer # "none") => EnoughWeights

KeptLengths == LengthTypes /\ NamesKept /\ WeightsNamed /\ StepsHaveWeights /\ (pc \in Early => iter = 0)

lengthVars == <<script, given, optimizer, weightsLines, namesLines, object, numWeights>>
vectorVars == <<params, made, initParams, evaluation, iter, saved>>

LEMMA InitLengths == Init => KeptLengths /\ VectorTypes
<1> SUFFICES ASSUME Init PROVE KeptLengths /\ VectorTypes
  OBVIOUS
<1>a. /\ script \in {"train", "train-condother"} /\ pc = "create" /\ kind = "none"
      /\ numParams = 0 /\ names = 0 /\ numWeights = 0
      /\ params = 0 /\ made = 0 /\ initParams = 0 /\ iter = 0
      /\ onArcs = Untrained /\ evaluated = Untrained /\ outcome = "finite" /\ saved = Unused
  BY Zenon DEF Init
<1>b. /\ weightsLines \in IF "init.weights" \in given THEN 1 .. MaxFile ELSE {0}
      /\ namesLines \in IF "init.names" \in given THEN 1 .. MaxFile ELSE {0}
  BY Zenon DEF Init
<1>1. LengthTypes
  <2>1. weightsLines \in Nat /\ namesLines \in Nat
    BY <1>b, SessionAssumption
  <2> QED BY <1>a, <2>1 DEF LengthTypes
<1>2. NamesKept /\ WeightsNamed /\ StepsHaveWeights
  BY <1>a DEF NamesKept, WeightsNamed, StepsHaveWeights
<1>3. VectorTypes
  <2>1. 0 \in 0 .. Top /\ 0 \in 0 .. Larger(MaxIter, MaxEvals)
    BY TopType
  <2> QED BY <1>a, <2>1, VectorsType DEF VectorTypes, Outcomes, Unused
<1> QED BY <1>a, <1>1, <1>2, <1>3 DEF KeptLengths

\* Once there is an object no other names come, and no names go.
LEMMA LengthsUnchanged ==
  ASSUME KeptLengths, UNCHANGED lengthVars, iter' = iter,
         pc' \in {"create", "weights"} => pc' = pc, pc' \in Early => pc \in Early,
         pc' \in {"save", "saved", "done"} => pc \in {"save", "saved", "done"} \/ EnoughWeights
  PROVE  KeptLengths'
<1>1. (FilesFit' <=> FilesFit) /\ (EnoughWeights' <=> EnoughWeights)
  BY DEF FilesFit, EnoughWeights, lengthVars, object
<1>2. LengthTypes' /\ NamesKept' /\ WeightsNamed'
  BY <1>1 DEF KeptLengths, LengthTypes, NamesKept, WeightsNamed, lengthVars, object
<1>3. StepsHaveWeights'
  BY <1>1 DEF KeptLengths, StepsHaveWeights, lengthVars
<1> QED BY <1>2, <1>3 DEF KeptLengths

\* An object that is created: until it has weights, only its names matter.
LEMMA CreatedLengths ==
  ASSUME KeptLengths, NEW t \in Nat, NEW n \in Nat, NewObject(t, n), UNCHANGED session,
         t > 0 => n <= t /\ script = "train" /\ (FilesFit /\ "init.weights" \in given => weightsLines <= t)
  PROVE  KeptLengths'
<1>1. /\ pc = "create" /\ pc' = "weights" /\ names' = t /\ numParams' = n /\ numWeights = 0
      /\ kind' = ObjectiveKind /\ numWeights' = numWeights /\ iter' = iter /\ iter = 0
      /\ UNCHANGED <<script, given, optimizer, weightsLines, namesLines>>
  BY DEF NewObject, session, KeptLengths, NamesKept, Early
<1>2. kind' \in {"none", "joint", "conditional", "lenmatch", "condother"}
  BY <1>1 DEF ObjectiveKind
<1>3. FilesFit' <=> FilesFit
  BY <1>1 DEF FilesFit
<1>4. LengthTypes'
  BY <1>1, <1>2 DEF KeptLengths, LengthTypes
<1>5. NamesKept' /\ WeightsNamed' /\ StepsHaveWeights'
  BY <1>1, <1>3 DEF NamesKept, WeightsNamed, StepsHaveWeights
<1> QED BY <1>1, <1>4, <1>5 DEF KeptLengths

LEMMA InitFromFileLengths == KeptLengths /\ InitFromFile => KeptLengths'
<1> SUFFICES ASSUME KeptLengths, InitFromFile PROVE KeptLengths'
  OBVIOUS
<1>1. PICK n \in 1 .. MaxFile : NewObject(0, n)
  BY DEF InitFromFile
<1>2. n \in Nat /\ UNCHANGED session
  BY SessionAssumption DEF InitFromFile
<1> QED BY <1>1, <1>2, CreatedLengths

LEMMA InitFromModelLengths == KeptLengths /\ InitFromModel => KeptLengths'
<1> SUFFICES ASSUME KeptLengths, InitFromModel PROVE KeptLengths'
  OBVIOUS
<1>0. PICK added \in 0 .. 1 :
        \E n \in 1 .. InitialNames + added : NewObject(InitialNames + added, n)
  BY DEF InitFromModel
<1>1. PICK n \in 1 .. InitialNames + added : NewObject(InitialNames + added, n)
  BY <1>0
<1>2. weightsLines \in Nat /\ namesLines \in Nat /\ InitialNames \in Nat
  BY DEF KeptLengths, LengthTypes, InitialNames
<1>3. script = "train" /\ ("init.weights" \in given => "init.names" \in given)
  BY <1>1 DEF NewObject, NotCreatable, InitFromModel, Given, KeptLengths, LengthTypes
<1>4. FilesFit /\ "init.weights" \in given => weightsLines <= InitialNames + added
  BY <1>2, <1>3 DEF InitialNames, FilesFit
<1>5. InitialNames + added \in Nat /\ n \in Nat /\ n <= InitialNames + added /\ UNCHANGED session
  BY <1>2 DEF InitFromModel
<1> QED BY <1>1, <1>3, <1>4, <1>5, CreatedLengths

LEMMA InitWeightsLengths == KeptLengths /\ InitWeights => KeptLengths'
<1> SUFFICES ASSUME KeptLengths, InitWeights PROVE KeptLengths'
  OBVIOUS
<1>1. /\ pc = "weights" /\ pc' \in {"force", "settings"}
      /\ numWeights' = IF script = "train" THEN ExtendedLength ELSE FileLength
      /\ UNCHANGED <<script, given, optimizer, weightsLines, namesLines, kind, numParams, names, iter>>
  BY DEF InitWeights, session, object
<1>2. /\ numParams \in Nat /\ weightsLines \in Nat /\ names \in Nat /\ iter = 0
      /\ names > 0 => numParams <= names
      /\ names > 0 => script = "train" /\ (FilesFit /\ "init.weights" \in given => weightsLines <= names)
  BY <1>1 DEF KeptLengths, LengthTypes, NamesKept, Early
<1>3. numWeights' \in Nat
  BY <1>1, <1>2 DEF ExtendedLength, FileLength, Larger
<1>4. LengthTypes' /\ NamesKept'
  BY <1>1, <1>3 DEF KeptLengths, LengthTypes, NamesKept
<1>5. FilesFit' <=> FilesFit
  BY <1>1 DEF FilesFit
<1>6. WeightsNamed'
  BY <1>1, <1>2, <1>5 DEF WeightsNamed, ExtendedLength, Larger
<1>7. StepsHaveWeights' /\ (pc' \in Early => iter' = 0)
  BY <1>1, <1>2 DEF StepsHaveWeights
<1> QED BY <1>4, <1>6, <1>7 DEF KeptLengths

LEMMA BeginLengths == KeptLengths /\ Begin => KeptLengths'
<1> SUFFICES ASSUME KeptLengths, Begin PROVE KeptLengths'
  OBVIOUS
<1>1. /\ pc = "begin" /\ script' = "train" /\ given' = given \cap {"init.weights"}
      /\ weightsLines' = (IF FilesFit THEN 0 ELSE 1) /\ namesLines' = 0
      /\ pc' \in {"save", "value"} /\ (pc' = "save" => optimizer = "none")
      /\ UNCHANGED <<optimizer, kind, numParams, names, numWeights, iter>>
  BY DEF Begin, object
<1>2. FilesFit' <=> FilesFit
  <2>1. FilesFit' <=> ("init.weights" \in given' => weightsLines' <= namesLines')
    BY DEF FilesFit
  <2>2. ~ FilesFit => "init.weights" \in given
    BY DEF FilesFit
  <2> QED BY <1>1, <2>1, <2>2
<1>3. weightsLines' \in {0, 1}
  BY <1>1
<1>4. LengthTypes' /\ NamesKept'
  BY <1>1, <1>3 DEF KeptLengths, LengthTypes, NamesKept
<1>5. WeightsNamed'
  BY <1>1, <1>2, <1>3 DEF KeptLengths, LengthTypes, WeightsNamed
<1>6. StepsHaveWeights' /\ (pc' \in Early => iter' = 0)
  BY <1>1 DEF KeptLengths, StepsHaveWeights, Early
<1> QED BY <1>4, <1>5, <1>6 DEF KeptLengths

LEMMA CleanupLengths == KeptLengths /\ Cleanup => KeptLengths'
<1> SUFFICES ASSUME KeptLengths, Cleanup PROVE KeptLengths'
  OBVIOUS
<1>1. /\ pc = "saved" /\ pc' = "done" /\ kind' = "none"
      /\ UNCHANGED <<script, given, optimizer, weightsLines, namesLines, numParams, names, numWeights, iter>>
  BY DEF Cleanup, session
<1>2. (FilesFit' <=> FilesFit) /\ (EnoughWeights' <=> EnoughWeights)
  BY <1>1 DEF FilesFit, EnoughWeights
<1>3. LengthTypes' /\ NamesKept' /\ WeightsNamed'
  BY <1>1, <1>2 DEF KeptLengths, LengthTypes, NamesKept, WeightsNamed
<1>4. StepsHaveWeights' /\ (pc' \in Early => iter' = 0)
  BY <1>1, <1>2 DEF KeptLengths, StepsHaveWeights, Early
<1> QED BY <1>3, <1>4 DEF KeptLengths

\* An optimiser takes a step, or ends, only with weights for all parameters.
LEMMA OptimiserLengths == KeptLengths /\ (RpropIteration \/ LbfgsNext \/ LbfgsEnd) => KeptLengths'
<1> SUFFICES ASSUME KeptLengths, RpropIteration \/ LbfgsNext \/ LbfgsEnd PROVE KeptLengths'
  OBVIOUS
<1>1. /\ pc' \in {"save", "value"} /\ UNCHANGED <<session, object, numWeights>>
      /\ \/ optimizer = "rprop" /\ numWeights >= numParams
         \/ optimizer = "lbfgs" /\ numWeights = numParams
  BY DEF RpropIteration, LbfgsNext, LbfgsEnd
<1>2. numWeights \in Nat /\ numParams \in Nat
  BY DEF KeptLengths, LengthTypes
<1>3. EnoughWeights'
  BY <1>1, <1>2 DEF EnoughWeights, session, object
<1>4. FilesFit' <=> FilesFit
  BY <1>1 DEF FilesFit, session
<1>5. LengthTypes' /\ NamesKept' /\ WeightsNamed'
  BY <1>1, <1>4 DEF KeptLengths, LengthTypes, NamesKept, WeightsNamed, session, object
<1> QED BY <1>1, <1>3, <1>5 DEF KeptLengths, StepsHaveWeights, Early

LEMMA NextLengths == KeptLengths /\ Next => KeptLengths'
<1> SUFFICES ASSUME KeptLengths, Next PROVE KeptLengths'
  OBVIOUS
<1>1. CASE Quit \/ CannotCreate \/ NoSuchFile \/ ReadBeyond \/ SumForEver \/ NotALenmatchObject \/ CannotGoOn
  <2>1. UNCHANGED lengthVars /\ iter' = iter /\ pc' \in {"aborted", "endless"}
    BY <1>1 DEF Quit, CannotCreate, NoSuchFile, ReadBeyond, SumForEver, NotALenmatchObject, CannotGoOn,
       Abort, session, lengthVars
  <2> QED BY <2>1, LengthsUnchanged DEF Early
<1>2. CASE Converges \/ RaisePenalty \/ Settings \/ CheckGradients \/ Value
  <2>1. /\ UNCHANGED lengthVars /\ iter' = iter /\ pc' \in {"force", "settings", "check", "begin", "gradients"}
        /\ pc' \in Early => pc \in Early
    BY <1>2 DEF Converges, RaisePenalty, Settings, CheckGradients, Value, session, lengthVars, Early
  <2> QED BY <2>1, LengthsUnchanged
<1>3. CASE Save
  <2>1. UNCHANGED lengthVars /\ iter' = iter /\ pc = "save" /\ pc' = "saved"
    BY <1>3 DEF Save, session, lengthVars
  <2> QED BY <2>1, LengthsUnchanged DEF Early
<1> QED
  BY <1>1, <1>2, <1>3, InitFromFileLengths, InitFromModelLengths, InitWeightsLengths, BeginLengths,
     OptimiserLengths, CleanupLengths DEF Next, Optimise

LEMMA VectorsUnchanged == VectorTypes /\ UNCHANGED vectorVars => VectorTypes'
  BY DEF VectorTypes, vectorVars, evaluation

LEMMA NextVectors == VectorTypes /\ Next => VectorTypes'
<1> SUFFICES ASSUME VectorTypes, Next PROVE VectorTypes'
  OBVIOUS
<1>1. CASE Quit \/ CannotCreate \/ NoSuchFile \/ ReadBeyond \/ SumForEver \/ NotALenmatchObject \/ CannotGoOn
  BY <1>1, VectorsUnchanged DEF Quit, CannotCreate, NoSuchFile, ReadBeyond, SumForEver, NotALenmatchObject,
     CannotGoOn, Abort, vectorVars
<1>2. CASE InitFromFile \/ InitFromModel \/ InitWeights \/ Begin \/ Cleanup
  BY <1>2, VectorsUnchanged DEF InitFromFile, InitFromModel, NewObject, InitWeights, Begin, Cleanup,
     vectorVars
<1>3. CASE Converges \/ RaisePenalty
  <2>1. /\ onArcs' = params /\ UNCHANGED <<initParams, evaluated, outcome, iter, saved>>
        /\ params' \in 0 .. Top /\ made' \in 0 .. Top
    <3>1. made < MaxForce => made + 1 \in 0 .. Top
      BY TopType, SessionAssumption DEF VectorTypes, Top
    <3> QED BY <1>3, <3>1 DEF VectorTypes, Converges, RaisePenalty, SetFeatureWeights
  <2> QED BY <2>1, VectorsType DEF VectorTypes
<1>4. CASE Settings
  BY <1>4 DEF Settings, VectorTypes, evaluation
<1>5. CASE CheckGradients \/ Value
  <2>1. /\ onArcs' \in Vectors /\ evaluated' \in Vectors /\ outcome' \in Outcomes
        /\ UNCHANGED <<params, made, initParams, iter, saved>>
    BY <1>5, VectorsType DEF CheckGradients, Value, GetFunctionValue, SetFeatureWeights, VectorTypes
  <2> QED BY <2>1 DEF VectorTypes
<1>6. CASE RpropIteration \/ LbfgsNext
  <2>1. /\ made' \in {made, Fresh} /\ params' = made'
        /\ UNCHANGED <<initParams, onArcs, evaluated, outcome, saved>>
    BY <1>6 DEF RpropIteration, LbfgsNext, evaluation
  <2>2. iter' \in 0 .. Larger(MaxIter, MaxEvals)
    <3>1. CASE RpropIteration
      <4>1. iter' = IF iter < MaxIter THEN iter + 1 ELSE iter
        BY <3>1 DEF RpropIteration
      <4> QED BY <4>1, SessionAssumption DEF VectorTypes, Larger
    <3>2. CASE LbfgsNext
      <4>1. iter < MaxEvals /\ iter' = iter + 1
        BY <3>2 DEF LbfgsNext
      <4> QED BY <4>1, SessionAssumption DEF VectorTypes, Larger
    <3> QED BY <1>6, <3>1, <3>2
  <2> QED BY <2>1, <2>2, FreshType DEF VectorTypes
<1>7. CASE LbfgsEnd
  <2>1. params' \in initParams .. made /\ UNCHANGED <<made, initParams, onArcs, evaluated, outcome, iter, saved>>
    BY <1>7 DEF LbfgsEnd, evaluation
  <2>2. params' \in 0 .. Top
    BY <2>1, TopType DEF VectorTypes
  <2> QED BY <2>1, <2>2 DEF VectorTypes
<1>8. CASE Save
  <2>1. params \in Vectors
    BY VectorsType DEF VectorTypes
  <2> QED BY <1>8, <2>1 DEF Save, VectorTypes, evaluation
<1> QED BY <1>1, <1>2, <1>3, <1>4, <1>5, <1>6, <1>7, <1>8 DEF Next, Optimise

SessionInv == Optimising /\ KeptLengths /\ VectorTypes

\* The invariant of the proof of one session, whatever the files and options.
THEOREM SessionInvariance == Spec => []SessionInv
<1>1. Init => SessionInv
  BY InitOptimising, InitLengths DEF SessionInv
<1>2. SessionInv /\ [Next]_vars => SessionInv'
  <2> SUFFICES ASSUME SessionInv, [Next]_vars PROVE SessionInv'
    OBVIOUS
  <2>1. CASE UNCHANGED vars
    <3>1. UNCHANGED lengthVars /\ iter' = iter /\ pc' = pc
      BY <2>1 DEF vars, session, lengthVars
    <3>2. KeptLengths'
      BY <3>1, LengthsUnchanged DEF SessionInv
    <3> QED BY <2>1, <3>2, UnchangedOptimising, VectorsUnchanged DEF vars, SessionInv, vectorVars
  <2>2. CASE Next
    BY <2>2, NextOptimising, NextLengths, NextVectors DEF SessionInv
  <2> QED BY <2>1, <2>2
<1> QED BY <1>1, <1>2, PTL DEF Spec

\* In every session with any bounds: the counters and the vectors, also those that
\* rprop keeps by parameter, stay in range, and no parameter is without a name.
THEOREM SessionTypeCorrect == Spec => []TypeOK
<1>1. SessionInv => TypeOK
  <2> SUFFICES ASSUME SessionInv PROVE TypeOK
    OBVIOUS
  <2>1. {params, made, initParams, onArcs, evaluated, saved.weights, saved.fst} \subseteq Vectors
    BY VectorsType DEF SessionInv, VectorTypes
  <2> QED BY <2>1 DEF TypeOK, SessionInv, Optimising, HalvedForgotten, KeptLengths, LengthTypes, VectorTypes
<1> QED BY <1>1, SessionInvariance, PTL

\* For files of any two lengths: all given weights are kept, each has a name if
\* there were no more of them than names, and no optimiser takes a step without a
\* weight for each parameter, nor L-BFGS with more.
THEOREM FilesStartSession == Spec => []FilesCanStartSession
<1>1. SessionInv => FilesCanStartSession
  BY DEF SessionInv, KeptLengths, WeightsNamed, StepsHaveWeights, EnoughWeights, FilesCanStartSession
<1> QED BY <1>1, SessionInvariance, PTL

-----------------------------------------------------------------------------
(* Induction over numbers and over the positions of a sequence.            *)

\* Among sets of elements of a finite set there is a smallest one.
LEMMA SmallestSet ==
  ASSUME NEW S, IsFiniteSet(S), NEW Bad \in SUBSET SUBSET S, Bad # {}
  PROVE  \E t \in Bad : \A u \in Bad : u \subseteq t => u = t
<1>1. IsWellFoundedOn(StrictSubsetOrdering(S), FiniteSubsetsOf(S))
  BY FS_StrictSubsetOrderingWellFounded
<1>2. FiniteSubsetsOf(S) = SUBSET S
  BY FS_FiniteSubsetsOfFinite
<1>3. \E t \in Bad : \A u \in Bad : ~ (<<u, t>> \in StrictSubsetOrdering(S))
  BY <1>1, <1>2, WFMin
<1> QED BY <1>3 DEF StrictSubsetOrdering

\* Some natural numbers have a least one.
LEMMA LeastNatural ==
  ASSUME NEW B \in SUBSET Nat, B # {}
  PROVE  \E m \in B : \A k \in B : m <= k
<1>1. PICK j \in B : TRUE
  OBVIOUS
<1> DEFINE S == 0 .. j
           C == {0 .. m : m \in {b \in B : b <= j}}
<1>2. C \in SUBSET SUBSET S /\ C # {}
  <2>1. j \in {b \in B : b <= j}
    OBVIOUS
  <2>2. \A m \in {b \in B : b <= j} : 0 .. m \subseteq S
    OBVIOUS
  <2> QED BY <2>1, <2>2
<1>3. \E t \in C : \A u \in C : u \subseteq t => u = t
  <2>1. IsFiniteSet(S)
    BY FS_Interval
  <2> HIDE DEF C, S
  <2> QED BY ONLY <1>2, <2>1, SmallestSet
<1>4. PICK m \in B : m <= j /\ \A u \in C : u \subseteq 0 .. m => u = 0 .. m
  BY <1>3
<1>5. ASSUME NEW k \in B PROVE m <= k
  <2> SUFFICES ASSUME k < m PROVE FALSE
    OBVIOUS
  <2>1. k <= j /\ 0 .. k \in C
    BY <1>4
  <2>2. 0 .. k \subseteq 0 .. m
    OBVIOUS
  <2>3. 0 .. k = 0 .. m
    BY <1>4, <2>1, <2>2
  <2>4. m \in 0 .. m /\ m \notin 0 .. k
    OBVIOUS
  <2> QED BY <2>3, <2>4
<1> QED BY <1>5

\* A greatest element is the maximum.
LEMMA MaxIs ==
  ASSUME NEW S \in SUBSET Nat, NEW m \in S, \A k \in S : k <= m
  PROVE  Max(S) = m
<1>1. Max(S) \in S /\ \A k \in S : Max(S) >= k
  <2>1. \A k \in S : m >= k
    OBVIOUS
  <2> QED BY <2>1 DEF Max
<1>2. m >= Max(S) /\ Max(S) >= m /\ m \in Nat /\ Max(S) \in Nat
  BY <1>1
<1> QED BY <1>2

\* Some positions of a sequence have a last one.
LEMMA MaxIn ==
  ASSUME NEW n \in Nat, NEW S \in SUBSET (1 .. n), S # {}
  PROVE  Max(S) \in S /\ \A k \in S : k <= Max(S)
<1> DEFINE B == {n - k : k \in S}
<1>1. B \in SUBSET Nat /\ B # {}
  <2>1. \A k \in S : n - k \in Nat
    OBVIOUS
  <2> QED BY <2>1
<1>2. PICK b \in B : \A k \in B : b <= k
  <2> HIDE DEF B
  <2> QED BY <1>1, LeastNatural
<1>3. PICK m \in S : b = n - m
  OBVIOUS
<1>4. \A k \in S : k <= m
  BY <1>2, <1>3
<1>5. S \in SUBSET Nat
  OBVIOUS
<1>6. Max(S) = m
  BY <1>4, <1>5, MaxIs
<1> QED BY <1>4, <1>6

\* The function that FoldLeft chooses, for an operation that is a function f.
Iterates(f, base, n, g) ==
  g = [s \in SUBSET (1 .. n) |-> IF s = {} THEN base ELSE f[<<g[s \ {Max(s)}], Max(s)>>]]

Iterable(A, f, base, n) == \E g \in [SUBSET (1 .. n) -> A] : Iterates(f, base, n, g)

\* There is such a function, and it stays in the range of the operation.
LEMMA IteratesExists ==
  ASSUME NEW A, NEW base \in A, NEW N \in Nat, NEW f \in [A \X (1 .. N) -> A]
  PROVE  Iterable(A, f, base, N)
<1> DEFINE B == {n \in 0 .. N : ~ Iterable(A, f, base, n)}
<1> SUFFICES ASSUME B # {} PROVE FALSE
  BY N \in 0 .. N
<1>1. PICK n \in B : \A k \in B : n <= k
  <2>1. B \in SUBSET Nat
    OBVIOUS
  <2> HIDE DEF B
  <2> QED BY <2>1, LeastNatural
<1>2. n # 0
  <2> SUFFICES Iterable(A, f, base, 0)
    BY <1>1
  <2> DEFINE g == [s \in SUBSET (1 .. 0) |-> base]
  <2>1. g \in [SUBSET (1 .. 0) -> A]
    OBVIOUS
  <2>2. \A s \in SUBSET (1 .. 0) : s = {}
    OBVIOUS
  <2>3. Iterates(f, base, 0, g)
    BY <2>2 DEF Iterates
  <2> QED BY <2>1, <2>3 DEF Iterable
<1>3. n \in 1 .. N /\ n - 1 \in 0 .. N /\ n - 1 \notin B
  <2>1. n \in 0 .. N
    OBVIOUS
  <2>2. n \in 1 .. N /\ n - 1 \in 0 .. N /\ ~ (n <= n - 1)
    BY <1>2, <2>1
  <2> HIDE DEF B
  <2> QED BY <1>1, <2>2
<1>4. PICK g \in [SUBSET (1 .. (n - 1)) -> A] : Iterates(f, base, n - 1, g)
  BY <1>3 DEF Iterable
<1> DEFINE G == [s \in SUBSET (1 .. n) |-> IF n \in s THEN f[<<g[s \ {n}], n>>] ELSE g[s]]
<1>5. \A s \in SUBSET (1 .. n) : IF n \in s THEN s \ {n} \in SUBSET (1 .. (n - 1))
                                            ELSE s \in SUBSET (1 .. (n - 1))
  BY <1>3
<1>6. G \in [SUBSET (1 .. n) -> A]
  <2> SUFFICES ASSUME NEW s \in SUBSET (1 .. n) PROVE G[s] \in A
    OBVIOUS
  <2> QED BY <1>3, <1>5
<1>7. \A s \in SUBSET (1 .. n) : G[s] = IF s = {} THEN base ELSE f[<<G[s \ {Max(s)}], Max(s)>>]
  <2> SUFFICES ASSUME NEW s \in SUBSET (1 .. n)
               PROVE G[s] = IF s = {} THEN base ELSE f[<<G[s \ {Max(s)}], Max(s)>>]
    OBVIOUS
  <2>1. CASE n \in s
    <3>1. Max(s) = n
      <4>1. s \in SUBSET Nat /\ \A k \in s : k <= n
        BY <1>3
      <4> QED BY <2>1, <4>1, MaxIs
    <3>2. s \ {n} \in SUBSET (1 .. n) /\ n \notin s \ {n} /\ s # {}
      BY <2>1
    <3>3. G[s \ {n}] = g[s \ {n}]
      BY <3>2
    <3> QED BY <2>1, <3>1, <3>2, <3>3
  <2>2. CASE n \notin s
    <3>1. s \in SUBSET (1 .. (n - 1))
      BY <1>5, <2>2
    <3>2. g[s] = IF s = {} THEN base ELSE f[<<g[s \ {Max(s)}], Max(s)>>]
      BY <1>4, <3>1 DEF Iterates
    <3>3. s \ {Max(s)} \in SUBSET (1 .. n) /\ n \notin s \ {Max(s)}
      BY <2>2
    <3>4. G[s] = g[s] /\ G[s \ {Max(s)}] = g[s \ {Max(s)}]
      BY <2>2, <3>3
    <3> QED BY <3>2, <3>4
  <2> QED BY <2>1, <2>2
<1>8. Iterates(f, base, n, G)
  <2>1. G = [s \in SUBSET (1 .. n) |-> G[s]]
    OBVIOUS
  <2> HIDE DEF G
  <2> QED BY <1>7, <2>1 DEF Iterates
<1> QED BY <1>1, <1>6, <1>8 DEF Iterable

\* Induction over 0 .. n.
LEMMA UpTo ==
  ASSUME NEW n \in Nat, NEW G, 0 \in G, \A k \in 0 .. n - 1 : k \in G => k + 1 \in G
  PROVE  \A k \in 0 .. n : k \in G
<1> DEFINE B == {k \in 0 .. n : k \notin G}
<1> SUFFICES ASSUME B # {} PROVE FALSE
  OBVIOUS
<1>1. PICK k \in B : \A i \in B : k <= i
  <2>1. B \in SUBSET Nat
    OBVIOUS
  <2> HIDE DEF B
  <2> QED BY <2>1, LeastNatural
<1>2. k \in 0 .. n /\ k \notin G /\ k # 0
  OBVIOUS
<1>3. k - 1 \in 0 .. n - 1 /\ k - 1 \in 0 .. n /\ (k - 1) + 1 = k /\ ~ (k <= k - 1)
  BY <1>2
<1>4. k - 1 \in G
  BY <1>1, <1>3
<1> QED BY <1>2, <1>3, <1>4

\* FoldLeft's sets of positions, where they are the first k.
LEMMA FirstPositions ==
  ASSUME NEW n \in Nat, NEW k \in 1 .. n
  PROVE  /\ 1 .. k \in SUBSET (1 .. n) /\ 1 .. k # {}
         /\ Max(1 .. k) = k /\ (1 .. k) \ {Max(1 .. k)} = 1 .. (k - 1)
<1>1. Max(1 .. k) = k
  <2>1. 1 .. k \in SUBSET Nat /\ k \in 1 .. k /\ \A j \in 1 .. k : j <= k
    OBVIOUS
  <2> QED BY <2>1, MaxIs
<1>2. 1 .. k \in SUBSET (1 .. n) /\ 1 .. k # {} /\ (1 .. k) \ {k} = 1 .. (k - 1)
  OBVIOUS
<1> QED BY <1>1, <1>2

-----------------------------------------------------------------------------
(* The machine of the well-formed strings.                                 *)

\* The sequences of steps of a machine: q[k] is where it is after k symbols.
Letter == STRING \cup {Eps, "S", "E"}
AnySymbol == [in : Letter, out : Letter, c : Int, g : Int]

WfSteps(limit, conjs, segs, w, q) ==
  /\ q[0] = WfStart
  /\ \A k \in 1 .. Len(w) : q[k] = WfArc(limit, conjs, segs, q[k - 1], w[k])

LEMMA SpecialSymbols ==
  /\ StartSym \in AnySymbol /\ EndSym \in AnySymbol /\ StartSym # EndSym
  /\ \A s \in {StartSym, EndSym} : ~ IsInsertion(s) /\ s.c = 0
<1>1. "S" # "-" /\ "E" # "-" /\ "S" # "E"
  OBVIOUS
<1>2. StartSym \in AnySymbol /\ EndSym \in AnySymbol
  BY DEF StartSym, EndSym, Symbol, AnySymbol, Letter, Unannotated
<1>3. StartSym.in = "S" /\ EndSym.in = "E" /\ StartSym.c = 0 /\ EndSym.c = 0
  BY DEF StartSym, EndSym, Symbol
<1> QED BY <1>1, <1>2, <1>3 DEF IsInsertion, Eps

WfMachineStates == [pos : 0 .. 2, at : SUBSET (Int \X Int \X Int)]

LEMMA WfArcType ==
  ASSUME NEW limit \in Int, NEW conjs \in Nat, NEW segs \in Nat,
         NEW q \in WfMachineStates, NEW s \in AnySymbol
  PROVE  WfArc(limit, conjs, segs, q, s) \in WfMachineStates
<1>1. ConjStates(conjs) \subseteq Int /\ ChgSegStates(segs) \subseteq Int
  BY DEF ConjStates, ChgSegStates
<1>2. \A a \in q.at : /\ LimitArcs(limit, a[1], s) \subseteq Int
                      /\ ConjArcs(conjs, a[2], s) \subseteq Int
                      /\ ChgSegArcs(segs, a[3], s) \subseteq Int
  <2> SUFFICES ASSUME NEW a \in q.at
               PROVE /\ LimitArcs(limit, a[1], s) \subseteq Int
                     /\ ConjArcs(conjs, a[2], s) \subseteq Int
                     /\ ChgSegArcs(segs, a[3], s) \subseteq Int
    OBVIOUS
  <2>1. a[1] \in Int /\ a[2] \in Int /\ a[3] \in Int /\ s.g \in Int
    BY DEF WfMachineStates, AnySymbol
  <2> QED BY <1>1, <2>1 DEF LimitArcs, ConjArcs, ChgSegArcs
<1> DEFINE L(a) == LimitArcs(limit, a[1], s)
           C(a) == ConjArcs(conjs, a[2], s)
           R(a) == ChgSegArcs(segs, a[3], s)
<1>3. {0} \X ConjStates(conjs) \X ChgSegStates(segs) \in SUBSET (Int \X Int \X Int)
  BY <1>1
<1>4. UNION {L(a) \X C(a) \X R(a) : a \in q.at} \in SUBSET (Int \X Int \X Int)
  <2> HIDE DEF L, C, R
  <2>1. \A a \in q.at : L(a) \subseteq Int /\ C(a) \subseteq Int /\ R(a) \subseteq Int
    BY <1>2 DEF L, C, R
  <2> QED BY <2>1
<1> QED BY <1>3, <1>4 DEF WfArc, WfMachineStates

\* What FoldLeft computes is where the steps end.
LEMMA WfStateSteps ==
  ASSUME NEW limit \in Int, NEW conjs \in Nat, NEW segs \in Nat, NEW w \in Seq(AnySymbol)
  PROVE  \E q \in [0 .. Len(w) -> WfMachineStates] :
            WfSteps(limit, conjs, segs, w, q) /\ WfState(limit, conjs, segs, w) = q[Len(w)]
<1> DEFINE n == Len(w)
           A == WfMachineStates
           f == [p \in A \X (1 .. n) |-> WfArc(limit, conjs, segs, p[1], w[p[2]])]
           R(g) == g = [s \in SUBSET DOMAIN w |->
                          IF s = {} THEN WfStart
                          ELSE WfArc(limit, conjs, segs, g[s \ {Max(s)}], w[Max(s)])]
<1>1. n \in Nat /\ DOMAIN w = 1 .. n /\ \A i \in 1 .. n : w[i] \in AnySymbol
  OBVIOUS
<1>2. f \in [A \X (1 .. n) -> A]
  BY <1>1, WfArcType
<1>3. WfStart \in A
  BY DEF WfStart, WfMachineStates
<1>4. PICK g \in [SUBSET (1 .. n) -> A] : Iterates(f, WfStart, n, g)
  <2> HIDE DEF f, A, n
  <2> QED BY <1>1, <1>2, <1>3, IteratesExists DEF Iterable
<1>5. \A s \in SUBSET (1 .. n) : s # {} =>
         f[<<g[s \ {Max(s)}], Max(s)>>] = WfArc(limit, conjs, segs, g[s \ {Max(s)}], w[Max(s)])
  <2> SUFFICES ASSUME NEW s \in SUBSET (1 .. n), s # {}
               PROVE f[<<g[s \ {Max(s)}], Max(s)>>] = WfArc(limit, conjs, segs, g[s \ {Max(s)}], w[Max(s)])
    OBVIOUS
  <2>1. Max(s) \in 1 .. n /\ g[s \ {Max(s)}] \in A
    BY <1>1, MaxIn
  <2> QED BY <2>1
<1>6. R(g)
  BY <1>1, <1>4, <1>5 DEF Iterates
<1> DEFINE h == CHOOSE g_1 : R(g_1)
<1>7. R(h)
  <2> HIDE DEF R
  <2> QED BY <1>6
<1>8. WfState(limit, conjs, segs, w) = h[DOMAIN w]
  BY Zenon DEF WfState, FoldLeft, MapThenFoldSet
<1> DEFINE q == [k \in 0 .. n |-> h[1 .. k]]
<1> HIDE DEF h, f
<1>9. \A s \in SUBSET (1 .. n) : h[s] = IF s = {} THEN WfStart
                          ELSE WfArc(limit, conjs, segs, h[s \ {Max(s)}], w[Max(s)])
  BY <1>1, <1>7
<1>10. q[0] = WfStart
  <2>1. 1 .. 0 = {} /\ {} \in SUBSET (1 .. n) /\ 0 \in 0 .. n
    BY <1>1
  <2>2. q[0] = h[{}]
    BY <2>1
  <2> QED BY <1>9, <2>1, <2>2
<1>11. \A k \in 1 .. n : q[k] = WfArc(limit, conjs, segs, q[k - 1], w[k])
  <2> SUFFICES ASSUME NEW k \in 1 .. n PROVE q[k] = WfArc(limit, conjs, segs, q[k - 1], w[k])
    OBVIOUS
  <2>1. 1 .. k \in SUBSET (1 .. n) /\ 1 .. k # {} /\ (1 .. k) \ {k} = 1 .. (k - 1)
    OBVIOUS
  <2>2. Max(1 .. k) = k
    <3>1. 1 .. k \in SUBSET Nat /\ k \in 1 .. k /\ \A j \in 1 .. k : j <= k
      OBVIOUS
    <3> QED BY <3>1, MaxIs
  <2>3. h[1 .. k] = WfArc(limit, conjs, segs, h[1 .. (k - 1)], w[k])
    BY <1>9, <2>1, <2>2
  <2> QED BY <2>3
<1>12. q \in [0 .. n -> A]
  <2> DEFINE B == {k \in 0 .. n : q[k] \notin A}
  <2> SUFFICES ASSUME B # {} PROVE FALSE
    OBVIOUS
  <2>1. PICK k \in B : \A j \in B : k <= j
    <3>1. B \in SUBSET Nat
      OBVIOUS
    <3> HIDE DEF B
    <3> QED BY <3>1, LeastNatural
  <2>2. k \in 1 .. n /\ k - 1 \in 0 .. n
    BY <1>3, <1>10
  <2>3. q[k - 1] \in A
    BY <2>1, <2>2
  <2>4. w[k] \in AnySymbol /\ q[k] = WfArc(limit, conjs, segs, q[k - 1], w[k])
    BY <1>1, <1>11, <2>2
  <2>5. WfArc(limit, conjs, segs, q[k - 1], w[k]) \in A
    <3> HIDE DEF q
    <3> QED BY <2>3, <2>4, WfArcType
  <2> QED BY <2>4, <2>5
<1>13. q[n] = h[1 .. n]
  BY <1>1
<1> HIDE DEF q
<1> QED BY <1>1, <1>8, <1>10, <1>11, <1>12, <1>13 DEF WfSteps

\* Symbol s has the annotations of its kind: a class if there are classes, and
\* if there are regions an odd one for a change, an even one for an identity; with
\* classes too, all are odd.
Annotated(conjs, segs, s) ==
  /\ s \in AnySymbol
  /\ conjs > 0 => s.c \in 1 .. conjs
  /\ segs > 0 => /\ s.g \in 0 .. 2 * segs
                 /\ IF conjs = 0 THEN IsChange(s) <=> s.g % 2 = 1 ELSE s.g % 2 = 1

\* The numbers of the regions are as IsWellFormed asks.
Regions(conjs, segs, x) == IF conjs = 0 THEN RegionsRise(segs, x) ELSE RegionsMixed(segs, x)

\* What a state of each machine says about the first k symbols of x.
Trail(x, k, j) ==
  /\ j <= k
  /\ \A i \in 1 .. k : i > k - j => IsInsertion(x[i])
  /\ j < k => ~ IsInsertion(x[k - j])
LimitedTo(limit, x, k) ==
  \A i \in 1 .. k : i + limit <= k => \E j \in i .. i + limit : ~ IsInsertion(x[j])
LimitSays(limit, x, k, j) ==
  IF limit < 0 THEN j = 0
  ELSE j \in 0 .. limit /\ LimitedTo(limit, x, k) /\ Trail(x, k, j)
ConjSays(conjs, x, k, c) ==
  IF conjs = 0 THEN c = 0 ELSE c \in 0 .. conjs /\ \A i \in 1 .. k : x[i].c = c
RegionFollows(conjs, t, s) ==
  IF conjs = 0 THEN IF IsChange(t) = IsChange(s) THEN t.g = s.g ELSE t.g < s.g
  ELSE IF IsChange(s) THEN t.g = s.g ELSE t.g <= s.g
RisingTo(conjs, x, k) == \A i \in 1 .. k - 1 : RegionFollows(conjs, x[i], x[i + 1])
ChgSegSays(conjs, segs, x, k, r) ==
  IF segs = 0 THEN r = 0
  ELSE r \in 1 .. 2 * segs + 1 /\ RisingTo(conjs, x, k) /\ (k > 0 => r = x[k].g + 1)

\* The insertions at the end are at most limit.
LEMMA TrailExists ==
  ASSUME NEW limit \in Nat, NEW x, NEW k \in Nat, LimitedTo(limit, x, k)
  PROVE  \E j \in 0 .. limit : Trail(x, k, j)
<1> DEFINE B == {j \in 0 .. k : j = k \/ ~ IsInsertion(x[k - j])}
<1>1. B \in SUBSET Nat /\ k \in B
  OBVIOUS
<1>2. PICK j \in B : \A i \in B : j <= i
  <2> HIDE DEF B
  <2> QED BY <1>1, LeastNatural
<1>3. j \in 0 .. k /\ (j < k => ~ IsInsertion(x[k - j]))
  OBVIOUS
<1>4. ASSUME NEW i \in 1 .. k, i > k - j PROVE IsInsertion(x[i])
  <2>1. k - i \in 0 .. k /\ ~ (j <= k - i) /\ k - (k - i) = i
    BY <1>3, <1>4
  <2>2. k - i \notin B
    <3> HIDE DEF B
    <3> QED BY <1>2, <2>1
  <2> QED BY <2>1, <2>2
<1>5. j <= limit
  <2> SUFFICES ASSUME j > limit PROVE FALSE
    BY <1>3
  <2>1. k - limit \in 1 .. k /\ (k - limit) + limit <= k
    BY <1>3
  <2>2. PICK i \in (k - limit) .. ((k - limit) + limit) : ~ IsInsertion(x[i])
    BY <2>1 DEF LimitedTo
  <2>3. i \in 1 .. k /\ i > k - j
    BY <1>3, <2>1
  <2> QED BY <1>4, <2>2, <2>3
<1> QED BY <1>3, <1>4, <1>5 DEF Trail

LEMMA LimitedShorter ==
  ASSUME NEW limit \in Nat, NEW x, NEW k \in Nat, LimitedTo(limit, x, k + 1)
  PROVE  LimitedTo(limit, x, k)
<1> SUFFICES ASSUME NEW i \in 1 .. k, i + limit <= k
             PROVE  \E n \in i .. i + limit : ~ IsInsertion(x[n])
  BY DEF LimitedTo
<1>1. i \in 1 .. k + 1 /\ i + limit <= k + 1
  OBVIOUS
<1> QED BY <1>1 DEF LimitedTo

LEMMA LimitStep ==
  ASSUME NEW limit \in Int, NEW x, NEW k \in Nat, NEW j \in Int
  PROVE  LimitSays(limit, x, k + 1, j)
           <=> \E i \in Int : LimitSays(limit, x, k, i) /\ j \in LimitArcs(limit, i, x[k + 1])
<1>1. CASE limit < 0
  BY <1>1 DEF LimitSays, LimitArcs
<1>2. CASE limit >= 0 /\ ~ IsInsertion(x[k + 1])
  <2>1. ASSUME LimitSays(limit, x, k + 1, j) PROVE LimitedTo(limit, x, k) /\ j = 0
    <3>1. LimitedTo(limit, x, k + 1) /\ Trail(x, k + 1, j) /\ j \in 0 .. limit
      BY <1>2, <2>1 DEF LimitSays
    <3>2. LimitedTo(limit, x, k)
      BY <3>1, <1>2, LimitedShorter
    <3>3. k + 1 > (k + 1) - j => IsInsertion(x[k + 1])
      BY <3>1 DEF Trail
    <3> QED BY <1>2, <3>1, <3>2, <3>3
  <2>2. ASSUME LimitedTo(limit, x, k), j = 0 PROVE LimitSays(limit, x, k + 1, j)
    <3>1. LimitedTo(limit, x, k + 1)
      <4> SUFFICES ASSUME NEW i \in 1 .. k + 1, i + limit <= k + 1
                   PROVE \E n \in i .. i + limit : ~ IsInsertion(x[n])
        BY DEF LimitedTo
      <4>1. CASE i + limit = k + 1
        <5>1. k + 1 \in i .. i + limit
          BY <4>1
        <5> QED BY <1>2, <5>1
      <4>2. CASE i + limit <= k
        <5>1. i \in 1 .. k
          BY <1>2, <4>2
        <5> QED BY <2>2, <4>2, <5>1 DEF LimitedTo
      <4> QED BY <1>2, <4>1, <4>2
    <3>2. Trail(x, k + 1, 0)
      BY <1>2 DEF Trail
    <3> QED BY <1>2, <2>2, <3>1, <3>2 DEF LimitSays
  <2>3. LimitedTo(limit, x, k) <=> \E i \in Int : LimitSays(limit, x, k, i)
    BY <1>2, TrailExists DEF LimitSays
  <2>4. \A i \in Int : j \in LimitArcs(limit, i, x[k + 1]) <=> j = 0
    BY <1>2 DEF LimitArcs
  <2> QED BY <2>1, <2>2, <2>3, <2>4
<1>3. CASE limit >= 0 /\ IsInsertion(x[k + 1])
  <2>1. ASSUME LimitSays(limit, x, k + 1, j)
        PROVE  LimitSays(limit, x, k, j - 1) /\ j \in LimitArcs(limit, j - 1, x[k + 1])
    <3>1. LimitedTo(limit, x, k + 1) /\ Trail(x, k + 1, j) /\ j \in 0 .. limit
      BY <1>3, <2>1 DEF LimitSays
    <3>2. j > 0
      <4>1. (k + 1) - 0 = k + 1 /\ 0 < k + 1
        OBVIOUS
      <4>2. j # 0
        BY <1>3, <3>1, <4>1 DEF Trail
      <4> QED BY <3>1, <4>2
    <3>3. LimitedTo(limit, x, k)
      BY <3>1, <1>3, LimitedShorter
    <3>4. Trail(x, k, j - 1)
      <4>1. k - (j - 1) = (k + 1) - j /\ \A i \in 1 .. k : i \in 1 .. k + 1
        BY <3>1
      <4> QED BY <3>1, <3>2, <4>1 DEF Trail
    <3> QED BY <1>3, <3>1, <3>2, <3>3, <3>4 DEF LimitSays, LimitArcs
  <2>2. ASSUME NEW i \in Int, LimitSays(limit, x, k, i), j \in LimitArcs(limit, i, x[k + 1])
        PROVE  LimitSays(limit, x, k + 1, j)
    <3>1. LimitedTo(limit, x, k) /\ Trail(x, k, i) /\ i \in 0 .. limit
      BY <1>3, <2>2 DEF LimitSays
    <3>2. j = i + 1 /\ i < limit
      BY <1>3, <2>2 DEF LimitArcs
    <3>3. Trail(x, k + 1, j)
      <4>1. (k + 1) - j = k - i
        BY <3>1, <3>2
      <4>2. \A n \in 1 .. k + 1 : n \in 1 .. k \/ n = k + 1
        OBVIOUS
      <4> QED BY <1>3, <3>1, <3>2, <4>1, <4>2 DEF Trail
    <3>4. LimitedTo(limit, x, k + 1)
      <4> SUFFICES ASSUME NEW n \in 1 .. k + 1, n + limit <= k + 1
                   PROVE \E p \in n .. n + limit : ~ IsInsertion(x[p])
        BY DEF LimitedTo
      <4>1. CASE n + limit = k + 1
        <5>1. i < k /\ k - i \in n .. n + limit
          BY <3>1, <3>2, <4>1 DEF Trail
        <5> QED BY <3>1, <5>1 DEF Trail
      <4>2. CASE n + limit <= k
        <5>1. n \in 1 .. k
          BY <1>3, <4>2
        <5> QED BY <3>1, <4>2, <5>1 DEF LimitedTo
      <4> QED BY <1>3, <4>1, <4>2
    <3> QED BY <1>3, <3>1, <3>2, <3>3, <3>4 DEF LimitSays
  <2> QED BY <2>1, <2>2
<1> QED BY <1>1, <1>2, <1>3

LEMMA ConjStep ==
  ASSUME NEW conjs \in Nat, NEW segs, NEW x, NEW k \in Nat, NEW c \in Int, Annotated(conjs, segs, x[k + 1])
  PROVE  ConjSays(conjs, x, k + 1, c)
           <=> \E d \in Int : ConjSays(conjs, x, k, d) /\ c \in ConjArcs(conjs, d, x[k + 1])
<1>1. CASE conjs = 0
  BY <1>1 DEF ConjSays, ConjArcs
<1>2. CASE conjs > 0
  <2>1. x[k + 1].c \in 1 .. conjs
    BY <1>2 DEF Annotated
  <2>2. \A d \in Int : c \in ConjArcs(conjs, d, x[k + 1]) <=> d = x[k + 1].c /\ c = d
    BY <1>2, <2>1 DEF ConjArcs
  <2>3. ConjSays(conjs, x, k + 1, c) <=> ConjSays(conjs, x, k, c) /\ x[k + 1].c = c
    <3>1. \A i : i \in 1 .. k + 1 <=> i \in 1 .. k \/ i = k + 1
      OBVIOUS
    <3> QED BY <1>2, <3>1 DEF ConjSays
  <2> QED BY <2>2, <2>3
<1> QED BY <1>1, <1>2

LEMMA ChgSegStep ==
  ASSUME NEW segs \in Nat, NEW conjs, NEW x, NEW k \in Nat, NEW r \in Int,
         Annotated(conjs, segs, x[k + 1]), ~ IsSpecial(x[k + 1]),
         k > 0 => Annotated(conjs, segs, x[k])
  PROVE  ChgSegSays(conjs, segs, x, k + 1, r)
           <=> \E p \in Int : ChgSegSays(conjs, segs, x, k, p) /\ r \in ChgSegArcs(segs, p, x[k + 1])
<1>1. CASE segs = 0
  <2>1. \A p : ChgSegArcs(segs, p, x[k + 1]) = {0}
    BY <1>1 DEF ChgSegArcs
  <2>2. ChgSegSays(conjs, segs, x, k, 0) /\ (ChgSegSays(conjs, segs, x, k + 1, r) <=> r = 0)
    BY <1>1 DEF ChgSegSays
  <2> QED BY <2>1, <2>2
<1>2. CASE segs > 0
  <2> DEFINE s == x[k + 1]
             t == x[k]
  <2>1. s.g \in 0 .. 2 * segs /\ IF conjs = 0 THEN IsChange(s) <=> s.g % 2 = 1 ELSE s.g % 2 = 1
    BY <1>2 DEF Annotated
  <2>2. k > 0 => t.g \in 0 .. 2 * segs /\ IF conjs = 0 THEN IsChange(t) <=> t.g % 2 = 1 ELSE t.g % 2 = 1
    BY <1>2 DEF Annotated
  <2>3. \A p \in Int : r \in ChgSegArcs(segs, p, s) <=>
          /\ r = s.g + 1
          /\ \/ p = s.g + 1
             \/ IsChange(s) /\ p % 2 = 1 /\ p <= s.g
             \/ ~ IsChange(s) /\ p % 2 = 0 /\ p <= s.g
    BY <1>2, <2>1 DEF ChgSegArcs
  <2>4. CASE k = 0
    <3>1. ChgSegSays(conjs, segs, x, k + 1, r) <=> r = s.g + 1
      BY <1>2, <2>1, <2>4 DEF ChgSegSays, RisingTo
    <3>2. ChgSegSays(conjs, segs, x, k, s.g + 1)
      BY <1>2, <2>1, <2>4 DEF ChgSegSays, RisingTo
    <3> QED BY <2>1, <2>3, <3>1, <3>2
  <2>5. CASE k > 0
    <3>1. RisingTo(conjs, x, k + 1) <=>
            /\ RisingTo(conjs, x, k)
            /\ RegionFollows(conjs, t, s)
      <4>1. \A i : i \in 1 .. (k + 1) - 1 <=> i \in 1 .. k - 1 \/ i = k
        BY <2>5
      <4> QED BY <4>1 DEF RisingTo
    <3>2. \A p \in Int : ChgSegSays(conjs, segs, x, k, p) <=> RisingTo(conjs, x, k) /\ p = t.g + 1
      BY <1>2, <2>2, <2>5 DEF ChgSegSays
    <3>3. ChgSegSays(conjs, segs, x, k + 1, r) <=> RisingTo(conjs, x, k + 1) /\ r = s.g + 1
      BY <1>2, <2>1 DEF ChgSegSays
    <3>4. (\/ t.g + 1 = s.g + 1
           \/ IsChange(s) /\ (t.g + 1) % 2 = 1 /\ t.g + 1 <= s.g
           \/ ~ IsChange(s) /\ (t.g + 1) % 2 = 0 /\ t.g + 1 <= s.g)
          <=> RegionFollows(conjs, t, s)
      <4>1. /\ t.g \in Int /\ s.g \in Int
            /\ IF conjs = 0 THEN (IsChange(s) <=> s.g % 2 = 1) /\ (IsChange(t) <=> t.g % 2 = 1)
               ELSE s.g % 2 = 1 /\ t.g % 2 = 1
        BY <2>1, <2>2, <2>5
      <4>2. (t.g + 1) % 2 = 1 <=> ~ (t.g % 2 = 1)
        BY <4>1
      <4>3. (t.g + 1) % 2 = 0 <=> t.g % 2 = 1
        BY <4>1
      <4>a. IsChange(s) \in BOOLEAN /\ IsChange(t) \in BOOLEAN
        BY DEF IsChange
      <4>4. CASE conjs = 0 /\ IsChange(s) /\ IsChange(t)
        BY <4>1, <4>2, <4>3, <4>4 DEF RegionFollows
      <4>5. CASE conjs = 0 /\ ~ IsChange(s) /\ ~ IsChange(t)
        BY <4>1, <4>2, <4>3, <4>5, <4>a DEF RegionFollows
      <4>6. CASE conjs = 0 /\ IsChange(s) # IsChange(t)
        BY <4>1, <4>2, <4>3, <4>6, <4>a DEF RegionFollows
      <4>7. CASE conjs # 0
        BY <4>1, <4>2, <4>3, <4>7 DEF RegionFollows
      <4> QED BY <4>4, <4>5, <4>6, <4>7, <4>a
    <3>5. t.g + 1 \in Int
      BY <2>2, <2>5
    <3> HIDE DEF s, t
    <3> QED BY <2>3, <3>1, <3>2, <3>3, <3>4, <3>5 DEF s
  <2> QED BY <2>4, <2>5
<1> QED BY <1>1, <1>2

\* The steps of the machine over the inner symbols x of a string w.
InnerSays(limit, conjs, segs, x, k, a) ==
  LimitSays(limit, x, k, a[1]) /\ ConjSays(conjs, x, k, a[2]) /\ ChgSegSays(conjs, segs, x, k, a[3])

LEMMA LimitStart ==
  ASSUME NEW limit \in Int, NEW x, NEW j \in Int
  PROVE  LimitSays(limit, x, 0, j) <=> j = 0
<1>1. LimitedTo(limit, x, 0)
  BY DEF LimitedTo
<1>2. j >= 0 => (Trail(x, 0, j) <=> j = 0)
  BY DEF Trail
<1> QED BY <1>1, <1>2 DEF LimitSays

LEMMA InnerStart ==
  ASSUME NEW limit \in Int, NEW conjs \in Nat, NEW segs \in Nat, NEW x, NEW a \in Int \X Int \X Int
  PROVE  a \in {0} \X ConjStates(conjs) \X ChgSegStates(segs) <=> InnerSays(limit, conjs, segs, x, 0, a)
<1>1. LimitSays(limit, x, 0, a[1]) <=> a[1] = 0
  BY LimitStart
<1>2. ConjSays(conjs, x, 0, a[2]) <=> a[2] \in ConjStates(conjs)
  BY DEF ConjSays, ConjStates
<1>3. ChgSegSays(conjs, segs, x, 0, a[3]) <=> a[3] \in ChgSegStates(segs)
  BY DEF ChgSegSays, ChgSegStates, RisingTo
<1> QED BY <1>1, <1>2, <1>3 DEF InnerSays

\* What is said of the steps of all three machines is kept by a symbol.
LEMMA InnerStep ==
  ASSUME NEW limit \in Int, NEW conjs \in Nat, NEW segs \in Nat, NEW x, NEW k \in Nat,
         NEW at \in SUBSET (Int \X Int \X Int),
         \A a \in Int \X Int \X Int : a \in at <=> InnerSays(limit, conjs, segs, x, k, a),
         Annotated(conjs, segs, x[k + 1]), ~ IsSpecial(x[k + 1]),
         k > 0 => Annotated(conjs, segs, x[k]),
         NEW b \in Int \X Int \X Int
  PROVE  b \in UNION {LimitArcs(limit, a[1], x[k + 1]) \X ConjArcs(conjs, a[2], x[k + 1])
                        \X ChgSegArcs(segs, a[3], x[k + 1]) : a \in at}
           <=> InnerSays(limit, conjs, segs, x, k + 1, b)
<1> DEFINE L(i, j) == j \in LimitArcs(limit, i, x[k + 1])
           C(i, j) == j \in ConjArcs(conjs, i, x[k + 1])
           R(i, j) == j \in ChgSegArcs(segs, i, x[k + 1])
           LS(m, j) == LimitSays(limit, x, m, j)
           CS(m, j) == ConjSays(conjs, x, m, j)
           RS(m, j) == ChgSegSays(conjs, segs, x, m, j)
<1>1. b[1] \in Int /\ b[2] \in Int /\ b[3] \in Int /\ b = <<b[1], b[2], b[3]>>
  OBVIOUS
<1>2. LS(k + 1, b[1]) <=> \E i \in Int : LS(k, i) /\ L(i, b[1])
  BY <1>1, LimitStep
<1>3. CS(k + 1, b[2]) <=> \E i \in Int : CS(k, i) /\ C(i, b[2])
  BY <1>1, ConjStep
<1>4. RS(k + 1, b[3]) <=> \E i \in Int : RS(k, i) /\ R(i, b[3])
  BY <1>1, ChgSegStep
<1>5. b \in UNION {LimitArcs(limit, a[1], x[k + 1]) \X ConjArcs(conjs, a[2], x[k + 1])
                     \X ChgSegArcs(segs, a[3], x[k + 1]) : a \in at}
        <=> \E a \in at : L(a[1], b[1]) /\ C(a[2], b[2]) /\ R(a[3], b[3])
  BY <1>1
<1>6. \A a \in Int \X Int \X Int : a \in at <=> LS(k, a[1]) /\ CS(k, a[2]) /\ RS(k, a[3])
  BY DEF InnerSays
<1>7. InnerSays(limit, conjs, segs, x, k + 1, b) <=> LS(k + 1, b[1]) /\ CS(k + 1, b[2]) /\ RS(k + 1, b[3])
  BY DEF InnerSays
<1> HIDE DEF L, C, R, LS, CS, RS
<1>8. ASSUME NEW i \in Int, NEW j \in Int, NEW m \in Int, LS(k, i), CS(k, j), RS(k, m),
             L(i, b[1]), C(j, b[2]), R(m, b[3])
      PROVE  \E a \in at : L(a[1], b[1]) /\ C(a[2], b[2]) /\ R(a[3], b[3])
  <2>1. <<i, j, m>> \in Int \X Int \X Int /\ <<i, j, m>>[1] = i /\ <<i, j, m>>[2] = j /\ <<i, j, m>>[3] = m
    OBVIOUS
  <2>2. <<i, j, m>> \in at
    BY <1>6, <1>8, <2>1
  <2> QED BY <1>8, <2>1, <2>2
<1>9. ASSUME NEW a \in at, L(a[1], b[1]), C(a[2], b[2]), R(a[3], b[3])
      PROVE  LS(k + 1, b[1]) /\ CS(k + 1, b[2]) /\ RS(k + 1, b[3])
  <2>1. a[1] \in Int /\ a[2] \in Int /\ a[3] \in Int /\ LS(k, a[1]) /\ CS(k, a[2]) /\ RS(k, a[3])
    BY <1>6
  <2> QED BY <1>2, <1>3, <1>4, <1>9, <2>1
<1> QED BY <1>2, <1>3, <1>4, <1>5, <1>7, <1>8, <1>9

\* The machine can stop after the n symbols of x just if x is as it should be.
LEMMA InnerStops ==
  ASSUME NEW limit \in Int, NEW conjs \in Nat, NEW segs \in Nat, NEW S, NEW x \in Seq(S),
         \A k \in 1 .. Len(x) : Annotated(conjs, segs, x[k])
  PROVE  (\E a \in Int \X Int \X Int : InnerSays(limit, conjs, segs, x, Len(x), a))
           <=> InsertionsLimited(limit, x) /\ OneClass(conjs, x) /\ Regions(conjs, segs, x)
<1> DEFINE n == Len(x)
<1>1. n \in Nat /\ DOMAIN x = 1 .. n
  OBVIOUS
<1>2. (\E j \in Int : LimitSays(limit, x, n, j)) <=> InsertionsLimited(limit, x)
  <2>1. CASE limit < 0
    BY <2>1 DEF LimitSays, InsertionsLimited
  <2>2. CASE limit >= 0
    <3>1. InsertionsLimited(limit, x) <=> LimitedTo(limit, x, n)
      <4>1. \A i \in 1 .. n : i + limit \in 1 .. n <=> i + limit <= n
        BY <2>2, <1>1
      <4> QED BY <1>1, <2>2, <4>1 DEF InsertionsLimited, LimitedTo
    <3>2. LimitedTo(limit, x, n) => \E j \in 0 .. limit : Trail(x, n, j)
      BY <1>1, <2>2, TrailExists
    <3> QED BY <2>2, <3>1, <3>2 DEF LimitSays
  <2> QED BY <2>1, <2>2
<1>3. (\E c \in Int : ConjSays(conjs, x, n, c)) <=> OneClass(conjs, x)
  <2>1. CASE conjs = 0
    BY <2>1 DEF ConjSays, OneClass
  <2>2. CASE conjs > 0
    <3>1. ASSUME OneClass(conjs, x) PROVE \E c \in Int : ConjSays(conjs, x, n, c)
      <4>1. CASE n = 0
        <5>1. ConjSays(conjs, x, n, 0)
          BY <2>2, <4>1 DEF ConjSays
        <5> QED BY <5>1
      <4>2. CASE n > 0
        <5>1. 1 \in 1 .. n /\ x[1].c \in 1 .. conjs
          BY <1>1, <2>2, <4>2 DEF Annotated
        <5>2. ConjSays(conjs, x, n, x[1].c)
          BY <1>1, <2>2, <3>1, <5>1 DEF ConjSays, OneClass
        <5> QED BY <5>1, <5>2
      <4> QED BY <1>1, <4>1, <4>2
    <3>2. ASSUME NEW c \in Int, ConjSays(conjs, x, n, c) PROVE OneClass(conjs, x)
      BY <1>1, <2>2, <3>2 DEF ConjSays, OneClass
    <3> QED BY <3>1, <3>2
  <2> QED BY <2>1, <2>2
<1>4. (\E r \in Int : ChgSegSays(conjs, segs, x, n, r)) <=> Regions(conjs, segs, x)
  <2>1. CASE segs = 0
    BY <2>1 DEF ChgSegSays, Regions, RegionsRise, RegionsMixed
  <2>2. CASE segs > 0
    <3>1. Regions(conjs, segs, x) <=> RisingTo(conjs, x, n)
      <4>1. \A i : i \in 1 .. n - 1 <=> i \in 1 .. n /\ i + 1 \in 1 .. n
        BY <1>1
      <4> QED BY <1>1, <2>2, <4>1 DEF Regions, RegionsRise, RegionsMixed, RisingTo, RegionFollows
    <3>2. ASSUME RisingTo(conjs, x, n) PROVE \E r \in Int : ChgSegSays(conjs, segs, x, n, r)
      <4>1. CASE n = 0
        <5>1. ChgSegSays(conjs, segs, x, n, 1)
          BY <2>2, <3>2, <4>1 DEF ChgSegSays
        <5> QED BY <5>1
      <4>2. CASE n > 0
        <5>1. x[n].g \in 0 .. 2 * segs
          BY <1>1, <2>2, <4>2 DEF Annotated
        <5>2. ChgSegSays(conjs, segs, x, n, x[n].g + 1)
          BY <2>2, <3>2, <5>1 DEF ChgSegSays
        <5> QED BY <5>1, <5>2
      <4> QED BY <1>1, <4>1, <4>2
    <3> QED BY <2>2, <3>1, <3>2 DEF ChgSegSays
  <2> QED BY <2>1, <2>2
<1>5. ASSUME NEW j \in Int, NEW c \in Int, NEW r \in Int,
             LimitSays(limit, x, n, j), ConjSays(conjs, x, n, c), ChgSegSays(conjs, segs, x, n, r)
      PROVE  \E a \in Int \X Int \X Int : InnerSays(limit, conjs, segs, x, n, a)
  <2>1. <<j, c, r>> \in Int \X Int \X Int /\ InnerSays(limit, conjs, segs, x, n, <<j, c, r>>)
    BY <1>5 DEF InnerSays
  <2> QED BY <2>1
<1>6. ASSUME NEW a \in Int \X Int \X Int, InnerSays(limit, conjs, segs, x, n, a)
      PROVE  /\ \E j \in Int : LimitSays(limit, x, n, j)
             /\ \E c \in Int : ConjSays(conjs, x, n, c)
             /\ \E r \in Int : ChgSegSays(conjs, segs, x, n, r)
  BY <1>6 DEF InnerSays
<1> HIDE DEF n
<1>7. (\E a \in Int \X Int \X Int : InnerSays(limit, conjs, segs, x, n, a))
        <=> InsertionsLimited(limit, x) /\ OneClass(conjs, x) /\ Regions(conjs, segs, x)
  BY <1>2, <1>3, <1>4, <1>5, <1>6
<1> QED BY <1>7 DEF n

\* A string as the lattices spell it: the symbols between the first and the
\* last are annotated, and S|S and E|E are not among them.
Spelled(conjs, segs, w) ==
  \A k \in 2 .. Len(w) - 1 : Annotated(conjs, segs, w[k]) /\ ~ IsSpecial(w[k])

\* getWellFormed (create/get-well-formed.cc): the intersection of its machines,
\* with epsilon arcs removed and determinised, accepts what its description
\* says, no more and no less.
THEOREM WellFormedLanguage ==
  ASSUME NEW limit \in Int, NEW conjs \in Nat, NEW segs \in Nat,
         NEW w \in Seq(AnySymbol), Spelled(conjs, segs, w)
  PROVE  WfAccepts(limit, conjs, segs, w) <=> IsWellFormed(limit, conjs, segs, w)
<1> DEFINE n == Len(w)
           x == SubSeq(w, 2, n - 1)
           Says(k, a) == InnerSays(limit, conjs, segs, x, k, a)
           Triples == Int \X Int \X Int
<1>1. n \in Nat /\ \A k \in 1 .. n : w[k] \in AnySymbol
  OBVIOUS
<1>2. PICK q \in [0 .. n -> WfMachineStates] :
         WfSteps(limit, conjs, segs, w, q) /\ WfState(limit, conjs, segs, w) = q[n]
  BY WfStateSteps
<1>3. q[0] = WfStart /\ \A k \in 1 .. n : q[k] = WfArc(limit, conjs, segs, q[k - 1], w[k])
  BY <1>2 DEF WfSteps
<1>4. WfAccepts(limit, conjs, segs, w) <=> q[n].pos = 2
  BY <1>2 DEF WfAccepts
<1>5. CASE n = 0
  <2>1. q[n].pos = 0
    BY <1>3, <1>5 DEF WfStart
  <2> QED BY ONLY n = Len(w), <1>4, <1>5, <2>1 DEF IsWellFormed
<1>6. CASE n = 1
  <2>1. q[1] = WfArc(limit, conjs, segs, q[0], w[1]) /\ q[0].pos = 0
    <3>1. 1 \in 1 .. n /\ 1 - 1 = 0
      BY <1>6
    <3>2. q[0].pos = 0
      BY <1>3 DEF WfStart
    <3> QED BY <1>3, <3>1, <3>2
  <2>2. q[1].pos = 1
    BY <2>1 DEF WfArc
  <2> QED BY <1>4, <1>6, <2>2 DEF IsWellFormed
<1>7. CASE n >= 2
  <2>1. x \in Seq(AnySymbol) /\ Len(x) = n - 2 /\ \A k \in 1 .. n - 2 : x[k] = w[k + 1]
    BY <1>1, <1>7
  <2>2. \A k \in 1 .. Len(x) : Annotated(conjs, segs, x[k]) /\ ~ IsSpecial(x[k])
    <3> SUFFICES ASSUME NEW k \in 1 .. Len(x) PROVE Annotated(conjs, segs, x[k]) /\ ~ IsSpecial(x[k])
      OBVIOUS
    <3>1. k + 1 \in 2 .. n - 1 /\ x[k] = w[k + 1]
      BY <1>1, <1>7, <2>1
    <3> HIDE DEF x
    <3> QED BY <3>1 DEF Spelled
  <2> HIDE DEF x
  <2>3. q[1].pos = 1 /\ q[1].at = IF w[1] = StartSym THEN {0} \X ConjStates(conjs) \X ChgSegStates(segs) ELSE {}
    <3>1. q[1] = WfArc(limit, conjs, segs, q[0], w[1]) /\ q[0].pos = 0
      BY <1>3, <1>7 DEF WfStart
    <3> QED BY <3>1 DEF WfArc
  <2>4. \A k \in 2 .. n : q[k - 1].pos # 0 =>
           /\ q[k].pos = IF w[k] = EndSym /\ q[k - 1].at # {} THEN 2 ELSE 1
           /\ q[k].at = UNION {LimitArcs(limit, a[1], w[k]) \X ConjArcs(conjs, a[2], w[k])
                                 \X ChgSegArcs(segs, a[3], w[k]) : a \in q[k - 1].at}
    <3> SUFFICES ASSUME NEW k \in 2 .. n, q[k - 1].pos # 0
                 PROVE  /\ q[k].pos = IF w[k] = EndSym /\ q[k - 1].at # {} THEN 2 ELSE 1
                        /\ q[k].at = UNION {LimitArcs(limit, a[1], w[k]) \X ConjArcs(conjs, a[2], w[k])
                                 \X ChgSegArcs(segs, a[3], w[k]) : a \in q[k - 1].at}
      OBVIOUS
    <3>1. q[k] = WfArc(limit, conjs, segs, q[k - 1], w[k])
      BY <1>1, <1>3
    <3> QED BY <3>1 DEF WfArc
  \* The positions and the states before each symbol.
  <2> DEFINE Right(k) ==
        /\ q[k].pos # 0
        /\ q[k].at \in SUBSET Triples
        /\ \A a \in Triples : a \in q[k].at <=> w[1] = StartSym /\ Says(k - 1, a)
             B == {k \in Nat : k \in 1 .. n - 1 /\ ~ Right(k)}
  <2>5. Right(1)
    <3>1. q[1].at \in SUBSET Triples
      <4>1. q[1] \in WfMachineStates
        BY <1>1, <1>7
      <4> QED BY <4>1 DEF WfMachineStates
    <3>2. \A a \in Triples : a \in {0} \X ConjStates(conjs) \X ChgSegStates(segs) <=> Says(0, a)
      BY InnerStart
    <3> HIDE DEF Says, Triples
    <3> QED BY <2>3, <3>1, <3>2
  <2>6. ASSUME NEW k \in 1 .. n - 2, Right(k) PROVE Right(k + 1)
    <3>1. k + 1 \in 2 .. n /\ (k + 1) - 1 = k /\ k + 1 \in 0 .. n /\ w[k + 1] = x[k] /\ k \in 1 .. Len(x)
      <4>1. w[k + 1] = x[k] /\ k \in 1 .. Len(x)
        BY <2>1
      <4>2. n \in Nat
        BY <1>1
      <4> HIDE DEF n, Right
      <4>3. k + 1 \in 2 .. n /\ (k + 1) - 1 = k /\ k + 1 \in 0 .. n
        BY <4>2
      <4> QED BY <4>1, <4>3
    <3>2. /\ q[k + 1].pos # 0
          /\ q[k + 1].at = UNION {LimitArcs(limit, a[1], x[k]) \X ConjArcs(conjs, a[2], x[k])
                                 \X ChgSegArcs(segs, a[3], x[k]) : a \in q[k].at}
      <4> DEFINE i == k + 1
      <4>1. i \in 2 .. n /\ i - 1 = k /\ w[i] = x[k]
        BY <3>1
      <4>2. q[i - 1].pos # 0
        BY <2>6, <4>1
      <4> HIDE DEF i, Right
      <4>3. /\ q[i].pos = IF w[i] = EndSym /\ q[i - 1].at # {} THEN 2 ELSE 1
            /\ q[i].at = UNION {LimitArcs(limit, a[1], w[i]) \X ConjArcs(conjs, a[2], w[i])
                                 \X ChgSegArcs(segs, a[3], w[i]) : a \in q[i - 1].at}
        BY <2>4, <4>1, <4>2
      <4>4. q[i].pos # 0
        BY <4>3
      <4> QED BY <4>1, <4>3, <4>4 DEF i
    <3>3. q[k + 1].at \in SUBSET Triples
      <4>1. q[k + 1] \in WfMachineStates
        BY <3>1
      <4> QED BY <4>1 DEF WfMachineStates
    <3>4. CASE w[1] = StartSym
      <4>1. k - 1 \in Nat /\ (k - 1) + 1 = k /\ (k - 1 > 0 => k - 1 \in 1 .. Len(x))
        BY <3>1
      <4>2. \A a \in Triples : a \in q[k].at <=> Says(k - 1, a)
        BY <2>6, <3>4
      <4>3. ASSUME NEW b \in Triples PROVE b \in q[k + 1].at <=> Says(k, b)
        <5>1. Annotated(conjs, segs, x[k]) /\ ~ IsSpecial(x[k])
              /\ (k - 1 > 0 => Annotated(conjs, segs, x[k - 1]))
          BY <2>2, <3>1, <4>1
        <5>2. q[k].at \in SUBSET Triples
          BY <2>6
        <5> DEFINE j == k - 1
                   at == q[k].at
        <5>3. j \in Nat /\ j + 1 = k
          BY <4>1
        <5>4. Annotated(conjs, segs, x[j + 1]) /\ ~ IsSpecial(x[j + 1]) /\ (j > 0 => Annotated(conjs, segs, x[j]))
          BY <5>1, <5>3
        <5>5. at \in SUBSET (Int \X Int \X Int) /\ b \in Int \X Int \X Int
          BY <5>2
        <5>6. \A a \in Int \X Int \X Int : a \in at <=> InnerSays(limit, conjs, segs, x, j, a)
          BY <4>2
        <5> HIDE DEF j, at
        <5>7. b \in UNION {LimitArcs(limit, a[1], x[j + 1]) \X ConjArcs(conjs, a[2], x[j + 1])
                              \X ChgSegArcs(segs, a[3], x[j + 1]) : a \in at}
                <=> InnerSays(limit, conjs, segs, x, j + 1, b)
          BY ONLY limit \in Int, conjs \in Nat, segs \in Nat, <5>3, <5>4, <5>5, <5>6, InnerStep
        <5> QED BY <3>2, <5>3, <5>7 DEF at
      <4> HIDE DEF Says, Triples
      <4> QED BY <3>1, <3>2, <3>3, <3>4, <4>3
    <3>5. CASE w[1] # StartSym
      <4>1. q[k].at = {}
        BY <2>6, <3>5
      <4>2. q[k + 1].at = {}
        BY <3>2, <4>1
      <4> HIDE DEF Says, Triples
      <4> QED BY <3>2, <3>3, <3>5, <4>2
    <3> QED BY <3>4, <3>5
  <2>7. Right(n - 1)
    <3> HIDE DEF Right
    <3>1. B = {}
      <4> SUFFICES ASSUME B # {} PROVE FALSE
        OBVIOUS
      <4>1. PICK k \in B : \A i \in B : k <= i
        <5>1. B \in SUBSET Nat
          OBVIOUS
        <5> HIDE DEF B
        <5> QED BY <5>1, LeastNatural
      <4>2. k \in 1 .. n - 1 /\ ~ Right(k)
        OBVIOUS
      <4>3. k # 1
        BY <2>5, <4>2
      <4>4. k - 1 \in 1 .. n - 2 /\ k - 1 \in Nat /\ k - 1 \in 1 .. n - 1 /\ (k - 1) + 1 = k /\ ~ (k <= k - 1)
        BY <1>1, <4>2, <4>3
      <4>5. Right(k - 1)
        BY <4>1, <4>4
      <4> QED BY <2>6, <4>2, <4>4, <4>5
    <3>2. n - 1 \in Nat /\ n - 1 \in 1 .. n - 1
      BY <1>1, <1>7
    <3> QED BY <3>1, <3>2
  <2>8. q[n].pos = 2 <=> w[n] = EndSym /\ q[n - 1].at # {}
    <3>1. n \in 2 .. n
      BY <1>1, <1>7
    <3>2. q[n].pos = IF w[n] = EndSym /\ q[n - 1].at # {} THEN 2 ELSE 1
      BY <2>4, <2>7, <3>1
    <3> QED BY <3>2
  <2>9. q[n - 1].at # {} <=> w[1] = StartSym /\ \E a \in Triples : Says(n - 2, a)
    <3>1. (n - 1) - 1 = n - 2
      BY <1>1
    <3> HIDE DEF Says, Triples
    <3> QED BY <2>7, <3>1
  <2>10. (\E a \in Triples : Says(n - 2, a))
           <=> InsertionsLimited(limit, x) /\ OneClass(conjs, x) /\ Regions(conjs, segs, x)
    <3>1. \A k \in 1 .. Len(x) : Annotated(conjs, segs, x[k])
      BY <2>2
    <3>2. (\E a \in Int \X Int \X Int : InnerSays(limit, conjs, segs, x, Len(x), a))
            <=> InsertionsLimited(limit, x) /\ OneClass(conjs, x) /\ Regions(conjs, segs, x)
      BY ONLY limit \in Int, conjs \in Nat, segs \in Nat, <2>1, <3>1, InnerStops
    <3> QED BY <2>1, <3>2
  <2>11. \A i \in DOMAIN x : ~ IsSpecial(x[i])
    BY <2>1, <2>2
  <2>12. IsWellFormed(limit, conjs, segs, w) <=>
           /\ w[1] = StartSym /\ w[n] = EndSym
           /\ InsertionsLimited(limit, x) /\ OneClass(conjs, x) /\ Regions(conjs, segs, x)
    BY <1>7, <2>11 DEF IsWellFormed, Regions, x
  <2> QED BY <1>4, <2>8, <2>9, <2>10, <2>12
<1> QED BY <1>1, <1>5, <1>6, <1>7

-----------------------------------------------------------------------------
(* The symbols of a creation.                                              *)

LEMMA KeptType ==
  ASSUME NEW T, NEW seq \in Seq(T), NEW S
  PROVE  Kept(seq, S) \in Seq(T)
<1> DEFINE n == Len(seq)
           A == Seq(T)
           op(kept, s) == IF s \in S THEN Append(kept, s) ELSE kept
           f == [p \in A \X (1 .. n) |-> op(p[1], seq[p[2]])]
           R(g) == g = [s \in SUBSET DOMAIN seq |->
                          IF s = {} THEN <<>> ELSE op(g[s \ {Max(s)}], seq[Max(s)])]
           h == CHOOSE g : R(g)
<1>1. n \in Nat /\ DOMAIN seq = 1 .. n /\ \A i \in 1 .. n : seq[i] \in T
  OBVIOUS
<1>2. \A kept \in A, i \in 1 .. n : op(kept, seq[i]) \in A
  BY <1>1
<1>3. f \in [A \X (1 .. n) -> A] /\ <<>> \in A
  <2> HIDE DEF op
  <2> QED BY <1>1, <1>2
<1>4. PICK g \in [SUBSET (1 .. n) -> A] : Iterates(f, <<>>, n, g)
  <2> HIDE DEF f, A, n
  <2> QED BY <1>1, <1>3, IteratesExists DEF Iterable
<1>5. \A s \in SUBSET (1 .. n) : s # {} =>
         f[<<g[s \ {Max(s)}], Max(s)>>] = op(g[s \ {Max(s)}], seq[Max(s)])
  <2> SUFFICES ASSUME NEW s \in SUBSET (1 .. n), s # {}
               PROVE f[<<g[s \ {Max(s)}], Max(s)>>] = op(g[s \ {Max(s)}], seq[Max(s)])
    OBVIOUS
  <2>1. Max(s) \in 1 .. n /\ g[s \ {Max(s)}] \in A
    BY <1>1, MaxIn
  <2> HIDE DEF op, A
  <2> QED BY <2>1
<1>6. R(g)
  <2> HIDE DEF op, f
  <2> QED BY <1>1, <1>4, <1>5 DEF Iterates
<1>7. R(h)
  <2> HIDE DEF R
  <2> QED BY <1>6
<1>8. Kept(seq, S) = h[DOMAIN seq]
  BY Zenon DEF Kept, FoldLeft, MapThenFoldSet
<1> HIDE DEF h, f
<1>9. \A s \in SUBSET (1 .. n) : h[s] = IF s = {} THEN <<>> ELSE op(h[s \ {Max(s)}], seq[Max(s)])
  <2> HIDE DEF op
  <2> QED BY <1>1, <1>7
<1> DEFINE G == {k \in 0 .. n : h[1 .. k] \in A}
<1>10. 0 \in G
  <2>1. 1 .. 0 = {} /\ {} \in SUBSET (1 .. n) /\ 0 \in 0 .. n
    BY <1>1
  <2>2. h[{}] = <<>>
    <3> HIDE DEF op
    <3> QED BY <1>9, <2>1
  <2> QED BY <1>3, <2>1, <2>2
<1>11. ASSUME NEW k \in 0 .. n - 1, k \in G PROVE k + 1 \in G
  <2>1. k + 1 \in 1 .. n /\ k + 1 \in 0 .. n /\ (k + 1) - 1 = k
    BY <1>1
  <2>2. h[1 .. k + 1] = op(h[1 .. k], seq[k + 1])
    <3> HIDE DEF op, G
    <3>1. /\ 1 .. (k + 1) \in SUBSET (1 .. n) /\ 1 .. (k + 1) # {}
          /\ Max(1 .. (k + 1)) = k + 1 /\ (1 .. (k + 1)) \ {Max(1 .. (k + 1))} = 1 .. k
      <4>1. 1 .. ((k + 1) - 1) = 1 .. k
        BY <2>1
      <4> QED BY <1>1, <2>1, <4>1, FirstPositions
    <3> QED BY <1>9, <3>1
  <2>3. h[1 .. k] \in A
    BY <1>11
  <2>4. h[1 .. k + 1] \in A
    <3> HIDE DEF op, A
    <3> QED BY <1>2, <2>1, <2>2, <2>3
  <2> QED BY <2>1, <2>4
<1>12. n \in G
  <2> HIDE DEF G
  <2>1. n \in 0 .. n
    BY <1>1
  <2> QED BY <1>1, <1>10, <1>11, <2>1, UpTo
<1> QED BY <1>1, <1>8, <1>12

\* The function that FlattenSeq chooses, for the first k of the sequences.
Flattens(seqs, k, g) ==
  g = [i \in 1 .. k |-> IF i = 1 THEN seqs[i] ELSE g[i - 1] \o seqs[i]]

\* The sequence that the first k sequences make, step by step.
FlattenRun(T, seqs, g) ==
  /\ g \in [0 .. Len(seqs) -> Seq(T)]
  /\ g[0] = <<>> /\ FlattenSeq(seqs) = g[Len(seqs)]
  /\ \A k \in 1 .. Len(seqs) : g[k] = g[k - 1] \o seqs[k]

LEMMA FlattenSteps ==
  ASSUME NEW T, NEW seqs \in Seq(Seq(T))
  PROVE  \E g : FlattenRun(T, seqs, g)
<1> DEFINE n == Len(seqs)
           G == {k \in 0 .. n : \E g \in [1 .. k -> Seq(T)] : Flattens(seqs, k, g)}
           h == CHOOSE g : Flattens(seqs, n, g)
<1>1. n \in Nat /\ \A i \in 1 .. n : seqs[i] \in Seq(T)
  OBVIOUS
<1>2. 0 \in G
  <2> DEFINE g == [i \in 1 .. 0 |-> <<>>]
  <2>1. g \in [1 .. 0 -> Seq(T)]
    OBVIOUS
  <2>2. Flattens(seqs, 0, g)
    BY DEF Flattens
  <2>3. 0 \in 0 .. n
    BY <1>1
  <2> HIDE DEF g
  <2> QED BY <2>1, <2>2, <2>3
<1>3. ASSUME NEW k \in 0 .. n - 1, k \in G PROVE k + 1 \in G
  <2>1. PICK g \in [1 .. k -> Seq(T)] : Flattens(seqs, k, g)
    BY <1>3
  <2> DEFINE e == IF k = 0 THEN seqs[1] ELSE g[k] \o seqs[k + 1]
             g1 == [i \in 1 .. k + 1 |-> IF i = k + 1 THEN e ELSE g[i]]
  <2>2. e \in Seq(T)
    <3>1. k + 1 \in 1 .. n /\ (k = 0 => 1 \in 1 .. n) /\ (k # 0 => k \in 1 .. k)
      BY <1>1
    <3>2. seqs[k + 1] \in Seq(T) /\ (k = 0 => seqs[1] \in Seq(T)) /\ (k # 0 => g[k] \in Seq(T))
      BY <1>1, <3>1
    <3> QED BY <3>2
  <2> HIDE DEF e
  <2>3. g1 \in [1 .. k + 1 -> Seq(T)]
    <3>1. \A i \in 1 .. k + 1 : i = k + 1 \/ i \in 1 .. k
      OBVIOUS
    <3> QED BY <2>2, <3>1
  <2>4. \A i \in 1 .. k + 1 : g1[i] = IF i = 1 THEN seqs[i] ELSE g1[i - 1] \o seqs[i]
    <3> SUFFICES ASSUME NEW i \in 1 .. k + 1
                 PROVE g1[i] = IF i = 1 THEN seqs[i] ELSE g1[i - 1] \o seqs[i]
      OBVIOUS
    <3>1. CASE i = k + 1
      <4>1. k # 0 => k \in 1 .. k + 1 /\ k # k + 1 /\ i - 1 = k /\ i # 1
        BY <3>1
      <4>2. k # 0 => g1[i - 1] = g[k]
        BY <4>1
      <4> QED BY <3>1, <4>1, <4>2 DEF e
    <3>2. CASE i \in 1 .. k
      <4>1. g[i] = IF i = 1 THEN seqs[i] ELSE g[i - 1] \o seqs[i]
        BY <2>1, <3>2 DEF Flattens
      <4>2. i # 1 => i - 1 \in 1 .. k /\ i - 1 # k + 1 /\ i - 1 \in 1 .. k + 1
        BY <3>2
      <4>3. g1[i] = g[i] /\ (i # 1 => g1[i - 1] = g[i - 1])
        BY <3>2, <4>2
      <4> QED BY <4>1, <4>3
    <3> QED BY <3>1, <3>2
  <2>5. Flattens(seqs, k + 1, g1)
    <3>1. g1 = [i \in 1 .. k + 1 |-> g1[i]]
      OBVIOUS
    <3> HIDE DEF g1
    <3> QED BY <2>4, <3>1 DEF Flattens
  <2>6. k + 1 \in 0 .. n
    BY <1>1
  <2> HIDE DEF g1
  <2> QED BY <2>3, <2>5, <2>6
<1>4. n \in G
  <2> HIDE DEF G
  <2>1. n \in 0 .. n
    BY <1>1
  <2> QED BY <1>1, <1>2, <1>3, <2>1, UpTo
<1>5. Flattens(seqs, n, h)
  BY <1>4
<1>f. n # 0 => FlattenSeq(seqs) = h[n]
  BY DEF FlattenSeq, Flattens
<1> HIDE DEF h, G
<1>6. \A k \in 1 .. n : h[k] = IF k = 1 THEN seqs[k] ELSE h[k - 1] \o seqs[k]
  BY <1>5 DEF Flattens
<1> DEFINE H == [k \in 0 .. n |-> IF k = 0 THEN <<>> ELSE h[k]]
<1>7. H[0] = <<>> /\ \A k \in 1 .. n : H[k] = h[k]
  BY <1>1
<1>h. H = [k \in 0 .. n |-> H[k]]
  OBVIOUS
<1> HIDE DEF H
<1>8. ASSUME NEW k \in 1 .. n PROVE H[k] = H[k - 1] \o seqs[k]
  <2>1. seqs[k] \in Seq(T)
    BY <1>1
  <2>2. CASE k = 1
    <3>1. H[k] = seqs[k] /\ H[k - 1] = <<>>
      BY <1>6, <1>7, <2>2
    <3>2. <<>> \o seqs[k] = seqs[k]
      BY <2>1
    <3> QED BY <3>1, <3>2
  <2>3. CASE k # 1
    <3>1. k - 1 \in 1 .. n
      BY <1>1, <2>3
    <3> QED BY <1>6, <1>7, <2>3, <3>1
  <2> QED BY <2>2, <2>3
<1>9. \A k \in 0 .. n : H[k] \in Seq(T)
  <2> DEFINE F == {k \in 0 .. n : H[k] \in Seq(T)}
  <2>1. 0 \in F
    <3>1. <<>> \in Seq(T) /\ 0 \in 0 .. n
      BY <1>1
    <3> QED BY <1>7, <3>1
  <2>2. ASSUME NEW k \in 0 .. n - 1, k \in F PROVE k + 1 \in F
    <3>1. k + 1 \in 1 .. n /\ k + 1 \in 0 .. n /\ (k + 1) - 1 = k
      BY <1>1
    <3>2. H[k + 1] = H[k] \o seqs[k + 1] /\ seqs[k + 1] \in Seq(T)
      BY <1>1, <1>8, <3>1
    <3>3. H[k + 1] \in Seq(T)
      BY <2>2, <3>2
    <3> QED BY <3>1, <3>3
  <2> HIDE DEF F
  <2>3. \A k \in 0 .. n : k \in F
    BY <1>1, <2>1, <2>2, UpTo
  <2> QED BY <2>3 DEF F
<1>10. FlattenSeq(seqs) = H[n]
  <2>1. CASE n = 0
    <3>1. FlattenSeq(seqs) = seqs /\ seqs = <<>>
      BY <2>1 DEF FlattenSeq
    <3> QED BY <1>7, <2>1, <3>1
  <2>2. CASE n # 0
    <3>1. FlattenSeq(seqs) = h[n]
      BY <1>f, <2>2
    <3> QED BY <1>1, <1>7, <2>2, <3>1
  <2> QED BY <2>1, <2>2
<1>11. H \in [0 .. n -> Seq(T)]
  BY <1>h, <1>9
<1> QED BY <1>7, <1>8, <1>10, <1>11 DEF FlattenRun

\* What sequences of elements of T make is one of those.
LEMMA FlattenType ==
  ASSUME NEW T, NEW seqs \in Seq(Seq(T))
  PROVE  FlattenSeq(seqs) \in Seq(T)
<1>1. PICK g : FlattenRun(T, seqs, g)
  BY FlattenSteps
<1>2. Len(seqs) \in 0 .. Len(seqs)
  OBVIOUS
<1> QED BY <1>1, <1>2 DEF FlattenRun

BasicSymbol == [in : Letter, out : Letter, c : {0}, g : {Unannotated}]
TableSymbol(conjs, segs) == {s \in AnySymbol : IsSpecial(s) \/ Annotated(conjs, segs, s)}

LEMMA BasicIsAny == BasicSymbol \subseteq AnySymbol
BY DEF BasicSymbol, AnySymbol, Unannotated

LEMMA AllSymbolsType == CreateAlignmentSymbolTable \in Seq(BasicSymbol)
<1> DEFINE I == <<Eps, "S", "E">> \o ILetters
           O == <<Eps, "S", "E">> \o OLetters
           row(i) == [o \in DOMAIN O |-> Symbol(I[i], O[o])]
           rows == [i \in DOMAIN I |-> row(i)]
           all == FlattenSeq(rows)
<1>1. I \in Seq(Letter) /\ O \in Seq(Letter)
  <2>1. <<Eps, "S", "E">> \in Seq(Letter)
    BY DEF Letter
  <2>2. ILetters \in Seq(Letter) /\ OLetters \in Seq(Letter)
    BY LettersAssumption DEF Letter
  <2> QED BY <2>1, <2>2
<1>2. \A a, b \in Letter : Symbol(a, b) \in BasicSymbol
  BY DEF Symbol, BasicSymbol
<1> HIDE DEF I, O
<1>3. \A i \in DOMAIN I : row(i) \in Seq(BasicSymbol)
  <2> SUFFICES ASSUME NEW i \in DOMAIN I PROVE row(i) \in Seq(BasicSymbol)
    OBVIOUS
  <2>1. DOMAIN O = 1 .. Len(O) /\ Len(O) \in Nat
    BY <1>1
  <2>2. \A o \in 1 .. Len(O) : Symbol(I[i], O[o]) \in BasicSymbol
    BY <1>1, <1>2
  <2> QED BY <2>1, <2>2
<1>4. rows \in Seq(Seq(BasicSymbol))
  <2>1. DOMAIN I = 1 .. Len(I) /\ Len(I) \in Nat
    BY <1>1
  <2> HIDE DEF row
  <2> QED BY <1>3, <2>1
<1>5. all \in Seq(BasicSymbol)
  <2> HIDE DEF rows
  <2> QED BY <1>4, FlattenType
<1>6. CreateAlignmentSymbolTable = Kept(all, {s \in ToSet(all) : IsAlignmentSym(s)})
  BY Zenon DEF CreateAlignmentSymbolTable, I, O
<1> HIDE DEF all
<1> QED BY <1>5, <1>6, KeptType

LEMMA IdentityCharsType == ASSUME NEW aligned PROVE AddIdentityChars(aligned) \in Seq(BasicSymbol)
BY AllSymbolsType, KeptType DEF AddIdentityChars

LEMMA ConjSymbolsType ==
  ASSUME NEW symbols \in Seq(BasicSymbol), NEW conjs \in Nat, conjs > 0
  PROVE  getConjSymbolTable(symbols, conjs) \in Seq(TableSymbol(conjs, 0))
<1> DEFINE T == TableSymbol(conjs, 0)
           annotated(l) == IF IsSpecial(symbols[l]) THEN <<symbols[l]>>
                           ELSE [j \in 1 .. conjs |-> [symbols[l] EXCEPT !.c = j]]
           seqs == [l \in DOMAIN symbols |-> annotated(l)]
<1>1. DOMAIN symbols = 1 .. Len(symbols) /\ Len(symbols) \in Nat
  OBVIOUS
<1>2. ASSUME NEW l \in DOMAIN symbols PROVE annotated(l) \in Seq(T)
  <2>1. symbols[l] \in BasicSymbol
    BY <1>1
  <2>2. CASE IsSpecial(symbols[l])
    <3>1. symbols[l] \in T
      BY <2>1, <2>2, BasicIsAny DEF TableSymbol
    <3> HIDE DEF T
    <3> QED BY <2>2, <3>1
  <2>3. CASE ~ IsSpecial(symbols[l])
    <3>1. ASSUME NEW j \in 1 .. conjs PROVE [symbols[l] EXCEPT !.c = j] \in T
      <4> DEFINE t == [symbols[l] EXCEPT !.c = j]
      <4>1. t \in AnySymbol /\ t.c = j
        BY <2>1 DEF BasicSymbol, AnySymbol, Unannotated
      <4> HIDE DEF t
      <4>2. Annotated(conjs, 0, t)
        BY <4>1 DEF Annotated
      <4>3. t \in T
        BY <4>1, <4>2 DEF TableSymbol
      <4> QED BY <4>3 DEF t
    <3> DEFINE e(j) == [symbols[l] EXCEPT !.c = j]
    <3>2. annotated(l) = [j \in 1 .. conjs |-> e(j)] /\ \A j \in 1 .. conjs : e(j) \in T
      <4> HIDE DEF T
      <4> QED BY <2>3, <3>1
    <3> HIDE DEF e, T, annotated
    <3> QED BY <3>2
  <2> HIDE DEF annotated, T
  <2> QED BY <2>2, <2>3
<1>3. seqs \in Seq(Seq(T))
  <2> HIDE DEF annotated, T
  <2> QED BY <1>1, <1>2
<1>4. getConjSymbolTable(symbols, conjs) = FlattenSeq(seqs)
  BY Zenon DEF getConjSymbolTable
<1> HIDE DEF seqs, T
<1> QED BY <1>3, <1>4, FlattenType DEF T

LEMMA ChangeSegSymbolsType ==
  ASSUME NEW symbols \in Seq(BasicSymbol), NEW segs \in Nat, segs > 0
  PROVE  getChangeSegSymbolTable(symbols, segs) \in Seq(TableSymbol(0, segs))
<1> DEFINE T == TableSymbol(0, segs)
           annotated(s) ==
             IF IsSpecial(s) THEN <<s>>
             ELSE IF ~ IsChange(s) /\ s.c = 0
             THEN [j \in 1 .. segs + 1 |-> [s EXCEPT !.g = 2 * j - 2]]
             ELSE [j \in 1 .. segs |-> [s EXCEPT !.g = 2 * j - 1]]
           seqs == [l \in DOMAIN symbols |-> annotated(symbols[l])]
<1>1. DOMAIN symbols = 1 .. Len(symbols) /\ Len(symbols) \in Nat
  OBVIOUS
<1>2. ASSUME NEW s \in BasicSymbol, NEW n \in Int PROVE
        LET t == [s EXCEPT !.g = n]
        IN t \in AnySymbol /\ t.g = n /\ (IsChange(t) <=> IsChange(s))
  BY DEF BasicSymbol, AnySymbol, IsChange
<1>3. ASSUME NEW s \in BasicSymbol PROVE annotated(s) \in Seq(T)
  <2>1. CASE IsSpecial(s)
    <3>1. s \in T
      BY <2>1, BasicIsAny DEF TableSymbol
    <3> HIDE DEF T
    <3> QED BY <2>1, <3>1
  <2>2. CASE ~ IsSpecial(s) /\ ~ IsChange(s)
    <3> DEFINE e(j) == [s EXCEPT !.g = 2 * j - 2]
    <3>1. ASSUME NEW j \in 1 .. segs + 1 PROVE e(j) \in T
      <4> DEFINE n == 2 * j - 2
                 t == e(j)
      <4>1. n \in 0 .. 2 * segs /\ (~ (n % 2 = 1))
        OBVIOUS
      <4>2. t = [s EXCEPT !.g = n]
        OBVIOUS
      <4> HIDE DEF n, e
      <4>3. t \in AnySymbol /\ t.g = n /\ (IsChange(t) <=> IsChange(s))
        BY <1>2, <4>1, <4>2
      <4> HIDE DEF t
      <4>4. Annotated(0, segs, t)
        BY <2>2, <4>1, <4>3 DEF Annotated
      <4>5. t \in T
        BY <4>3, <4>4 DEF TableSymbol
      <4> QED BY <4>5 DEF t
    <3>2. s.c = 0
      BY DEF BasicSymbol
    <3>3. annotated(s) = [j \in 1 .. segs + 1 |-> e(j)]
      BY <2>2, <3>2
    <3> HIDE DEF e, T, annotated
    <3> QED BY <3>1, <3>3
  <2>3. CASE ~ IsSpecial(s) /\ IsChange(s)
    <3> DEFINE e(j) == [s EXCEPT !.g = 2 * j - 1]
    <3>1. ASSUME NEW j \in 1 .. segs PROVE e(j) \in T
      <4> DEFINE n == 2 * j - 1
                 t == e(j)
      <4>1. n \in 0 .. 2 * segs /\ (n % 2 = 1)
        OBVIOUS
      <4>2. t = [s EXCEPT !.g = n]
        OBVIOUS
      <4> HIDE DEF n, e
      <4>3. t \in AnySymbol /\ t.g = n /\ (IsChange(t) <=> IsChange(s))
        BY <1>2, <4>1, <4>2
      <4> HIDE DEF t
      <4>4. Annotated(0, segs, t)
        BY <2>3, <4>1, <4>3 DEF Annotated
      <4>5. t \in T
        BY <4>3, <4>4 DEF TableSymbol
      <4> QED BY <4>5 DEF t
    <3>3. annotated(s) = [j \in 1 .. segs |-> e(j)]
      BY <2>3
    <3> HIDE DEF e, T, annotated
    <3> QED BY <3>1, <3>3
  <2> HIDE DEF annotated, T
  <2> QED BY <2>1, <2>2, <2>3
<1>4. seqs \in Seq(Seq(T))
  <2> HIDE DEF annotated, T
  <2>1. \A l \in 1 .. Len(symbols) : symbols[l] \in BasicSymbol
    OBVIOUS
  <2> QED BY <1>1, <1>3, <2>1
<1>5. getChangeSegSymbolTable(symbols, segs) = FlattenSeq(seqs)
  BY Zenon DEF getChangeSegSymbolTable
<1> HIDE DEF seqs, T
<1> QED BY <1>4, <1>5, FlattenType DEF T

\* A symbol with a class does not look like an identity: its numbers are odd.
LEMMA ChangeSegClassesType ==
  ASSUME NEW conjs \in Nat, conjs > 0, NEW symbols \in Seq(TableSymbol(conjs, 0)),
         NEW segs \in Nat, segs > 0
  PROVE  getChangeSegSymbolTable(symbols, segs) \in Seq(TableSymbol(conjs, segs))
<1> DEFINE S == TableSymbol(conjs, 0)
           T == TableSymbol(conjs, segs)
           annotated(s) ==
             IF IsSpecial(s) THEN <<s>>
             ELSE IF ~ IsChange(s) /\ s.c = 0
             THEN [j \in 1 .. segs + 1 |-> [s EXCEPT !.g = 2 * j - 2]]
             ELSE [j \in 1 .. segs |-> [s EXCEPT !.g = 2 * j - 1]]
           seqs == [l \in DOMAIN symbols |-> annotated(symbols[l])]
<1>1. DOMAIN symbols = 1 .. Len(symbols) /\ Len(symbols) \in Nat
  OBVIOUS
<1>2. ASSUME NEW s \in S PROVE annotated(s) \in Seq(T)
  <2>1. CASE IsSpecial(s)
    <3>1. s \in T
      BY <2>1 DEF TableSymbol
    <3> HIDE DEF T
    <3> QED BY <2>1, <3>1
  <2>2. CASE ~ IsSpecial(s)
    <3> DEFINE e(j) == [s EXCEPT !.g = 2 * j - 1]
    <3>1. s \in AnySymbol /\ s.c \in 1 .. conjs /\ s.c # 0
      BY <2>2 DEF TableSymbol, Annotated
    <3>2. ASSUME NEW j \in 1 .. segs PROVE e(j) \in T
      <4> DEFINE n == 2 * j - 1
                 t == e(j)
      <4>1. n \in 0 .. 2 * segs /\ (n % 2 = 1)
        OBVIOUS
      <4>2. t = [s EXCEPT !.g = n]
        OBVIOUS
      <4> HIDE DEF n, e
      <4>3. t \in AnySymbol /\ t.g = n /\ t.c = s.c
        BY <3>1, <4>1, <4>2 DEF AnySymbol
      <4> HIDE DEF t
      <4>4. Annotated(conjs, segs, t)
        BY <3>1, <4>1, <4>3 DEF Annotated
      <4>5. t \in T
        BY <4>3, <4>4 DEF TableSymbol
      <4> QED BY <4>5 DEF t
    <3>3. annotated(s) = [j \in 1 .. segs |-> e(j)]
      BY <2>2, <3>1
    <3> HIDE DEF e, T, annotated
    <3> QED BY <3>2, <3>3
  <2> HIDE DEF annotated, T
  <2> QED BY <2>1, <2>2
<1>3. seqs \in Seq(Seq(T))
  <2> HIDE DEF annotated, S, T
  <2>1. symbols \in Seq(S)
    BY DEF S
  <2>2. \A l \in 1 .. Len(symbols) : symbols[l] \in S
    BY <2>1
  <2> QED BY <1>1, <1>2, <2>2
<1>4. getChangeSegSymbolTable(symbols, segs) = FlattenSeq(seqs)
  BY Zenon DEF getChangeSegSymbolTable
<1> HIDE DEF seqs, S, T
<1> QED BY <1>3, <1>4, FlattenType DEF T

\* The table of a creation: S|S, E|E and annotated symbols.
LEMMA TableType ==
  ASSUME NEW basic \in Seq(BasicSymbol), NEW conjs \in Nat, NEW segs \in Nat
  PROVE  AddLatentAnnotations(basic, conjs, segs) \in Seq(TableSymbol(conjs, segs))
<1>1. CASE conjs = 0 /\ segs = 0
  <2>1. BasicSymbol \subseteq TableSymbol(conjs, segs)
    BY <1>1, BasicIsAny DEF TableSymbol, Annotated
  <2>2. basic \in Seq(TableSymbol(conjs, segs))
    <3>1. \A T : BasicSymbol \subseteq T => basic \in Seq(T)
      OBVIOUS
    <3> QED BY <2>1, <3>1
  <2> QED BY <1>1, <2>2 DEF AddLatentAnnotations
<1>2. CASE conjs > 0 /\ segs = 0
  BY <1>2, ConjSymbolsType DEF AddLatentAnnotations
<1>3. CASE conjs = 0 /\ segs > 0
  BY <1>3, ChangeSegSymbolsType DEF AddLatentAnnotations
<1>4. CASE conjs > 0 /\ segs > 0
  <2>1. getConjSymbolTable(basic, conjs) \in Seq(TableSymbol(conjs, 0))
    BY <1>4, ConjSymbolsType
  <2> QED BY <1>4, <2>1, ChangeSegClassesType DEF AddLatentAnnotations
<1> QED BY <1>1, <1>2, <1>3, <1>4

-----------------------------------------------------------------------------
(* The alignments of a pair.                                               *)

LetterOrEps == Letter \ {"S", "E"}
InnerSymbol == {s \in BasicSymbol : ~ IsSpecial(s)}

\* A string between S|S and E|E, where neither occurs.
Hooked(w) ==
  /\ w \in Seq(BasicSymbol) /\ \A k \in 2 .. Len(w) - 1 : ~ IsSpecial(w[k])
  /\ Len(w) >= 2 /\ w[1] = StartSym /\ w[Len(w)] = EndSym

LEMMA InnerSymbols == \A a, b \in LetterOrEps : Symbol(a, b) \in InnerSymbol
<1> SUFFICES ASSUME NEW a \in LetterOrEps, NEW b \in LetterOrEps PROVE Symbol(a, b) \in InnerSymbol
  OBVIOUS
<1>1. Symbol(a, b) \in BasicSymbol /\ Symbol(a, b).in = a
  BY DEF Symbol, BasicSymbol, LetterOrEps
<1>2. StartSym.in = "S" /\ EndSym.in = "E" /\ a # "S" /\ a # "E"
  BY DEF StartSym, EndSym, Symbol, LetterOrEps
<1> QED BY <1>1, <1>2 DEF InnerSymbol, IsSpecial

LEMMA EpsIsPlain == Eps \in LetterOrEps
<1>1. "S" # "-" /\ "E" # "-"
  OBVIOUS
<1> QED BY <1>1 DEF LetterOrEps, Letter, Eps

\* The strings that Alignments makes of the first i and j letters.
Extended(in, out, g, p) ==
  (IF p[1] = 0 /\ p[2] = 0 THEN {<<>>} ELSE {})
  \cup (IF p[1] > 0 THEN {Append(w, Symbol(in[p[1]], Eps)) : w \in g[<<p[1] - 1, p[2]>>]} ELSE {})
  \cup (IF p[2] > 0 THEN {Append(w, Symbol(Eps, out[p[2]])) : w \in g[<<p[1], p[2] - 1>>]} ELSE {})
  \cup (IF p[1] > 0 /\ p[2] > 0
        THEN {Append(w, Symbol(in[p[1]], out[p[2]])) : w \in g[<<p[1] - 1, p[2] - 1>>]} ELSE {})

LEMMA ExtendedType ==
  ASSUME NEW in \in Seq(LetterOrEps), NEW out \in Seq(LetterOrEps), NEW g,
         NEW p \in (0 .. Len(in)) \X (0 .. Len(out)),
         p[1] > 0 => g[<<p[1] - 1, p[2]>>] \subseteq Seq(InnerSymbol),
         p[2] > 0 => g[<<p[1], p[2] - 1>>] \subseteq Seq(InnerSymbol),
         p[1] > 0 /\ p[2] > 0 => g[<<p[1] - 1, p[2] - 1>>] \subseteq Seq(InnerSymbol)
  PROVE  Extended(in, out, g, p) \subseteq Seq(InnerSymbol)
<1>1. /\ p[1] > 0 => in[p[1]] \in LetterOrEps
      /\ p[2] > 0 => out[p[2]] \in LetterOrEps
  OBVIOUS
<1>2. \A w \in Seq(InnerSymbol), s \in InnerSymbol : Append(w, s) \in Seq(InnerSymbol)
  OBVIOUS
<1> DEFINE A(S, s) == {Append(w, s) : w \in S}
<1>3. \A S, s : S \subseteq Seq(InnerSymbol) /\ s \in InnerSymbol => A(S, s) \subseteq Seq(InnerSymbol)
  BY <1>2
<1>4. Extended(in, out, g, p) =
        (IF p[1] = 0 /\ p[2] = 0 THEN {<<>>} ELSE {})
        \cup (IF p[1] > 0 THEN A(g[<<p[1] - 1, p[2]>>], Symbol(in[p[1]], Eps)) ELSE {})
        \cup (IF p[2] > 0 THEN A(g[<<p[1], p[2] - 1>>], Symbol(Eps, out[p[2]])) ELSE {})
        \cup (IF p[1] > 0 /\ p[2] > 0
              THEN A(g[<<p[1] - 1, p[2] - 1>>], Symbol(in[p[1]], out[p[2]])) ELSE {})
  BY DEF Extended
<1> HIDE DEF A
<1>5. /\ p[1] > 0 => A(g[<<p[1] - 1, p[2]>>], Symbol(in[p[1]], Eps)) \subseteq Seq(InnerSymbol)
      /\ p[2] > 0 => A(g[<<p[1], p[2] - 1>>], Symbol(Eps, out[p[2]])) \subseteq Seq(InnerSymbol)
      /\ p[1] > 0 /\ p[2] > 0 =>
           A(g[<<p[1] - 1, p[2] - 1>>], Symbol(in[p[1]], out[p[2]])) \subseteq Seq(InnerSymbol)
  BY <1>1, <1>3, InnerSymbols, EpsIsPlain
<1>6. <<>> \in Seq(InnerSymbol)
  OBVIOUS
<1> QED BY <1>4, <1>5, <1>6

\* The function that Alignments chooses.
Extends(in, out, g) ==
  g = [p \in (0 .. Len(in)) \X (0 .. Len(out)) |-> Extended(in, out, g, p)]

\* There is one: the equations hold for one more sum of the lengths at a time.
LEMMA ExtendsExists ==
  ASSUME NEW in \in Seq(LetterOrEps), NEW out \in Seq(LetterOrEps)
  PROVE  \E g : Extends(in, out, g)
<1> DEFINE m == Len(in)
           n == Len(out)
           D == (0 .. m) \X (0 .. n)
           Solves(g, k) == \A p \in D : p[1] + p[2] < k => g[p] = Extended(in, out, g, p)
           IsFcn(g) == g = [p \in D |-> g[p]]
           G == {k \in 0 .. m + n + 1 : \E g : IsFcn(g) /\ Solves(g, k)}
<1>1. m \in Nat /\ n \in Nat /\ \A p \in D : p[1] \in 0 .. m /\ p[2] \in 0 .. n /\ p = <<p[1], p[2]>>
  OBVIOUS
<1>2. 0 \in G
  <2> DEFINE g == [p \in D |-> {}]
  <2>1. IsFcn(g)
    OBVIOUS
  <2>2. Solves(g, 0)
    BY <1>1
  <2>3. 0 \in 0 .. m + n + 1
    BY <1>1
  <2> HIDE DEF g, IsFcn, Solves
  <2> QED BY <2>1, <2>2, <2>3
<1>3. ASSUME NEW k \in 0 .. (m + n + 1) - 1, k \in G PROVE k + 1 \in G
  <2>1. PICK g : IsFcn(g) /\ Solves(g, k)
    BY <1>3
  <2> DEFINE e(p) == IF p[1] + p[2] = k THEN Extended(in, out, g, p) ELSE g[p]
             g1 == [p \in D |-> e(p)]
  <2>2. IsFcn(g1)
    OBVIOUS
  <2>3. ASSUME NEW p \in D, p[1] + p[2] <= k PROVE Extended(in, out, g1, p) = Extended(in, out, g, p)
    <3> DEFINE i == p[1]
               j == p[2]
    <3>1. i \in 0 .. m /\ j \in 0 .. n /\ i + j <= k
      BY <1>1, <2>3
    <3>2. ASSUME NEW a \in 0 .. m, NEW b \in 0 .. n, a + b < k PROVE g1[<<a, b>>] = g[<<a, b>>]
      <4>1. <<a, b>> \in D /\ <<a, b>>[1] = a /\ <<a, b>>[2] = b /\ a + b # k
        BY <1>1, <3>2
      <4> QED BY <4>1
    <3>3. i > 0 => i - 1 \in 0 .. m /\ (i - 1) + j < k
      BY <1>1, <3>1
    <3>4. j > 0 => j - 1 \in 0 .. n /\ i + (j - 1) < k
      BY <1>1, <3>1
    <3>5. i > 0 /\ j > 0 => (i - 1) + (j - 1) < k
      BY <1>1, <3>1
    <3> HIDE DEF g1
    <3>6. /\ i > 0 => g1[<<i - 1, j>>] = g[<<i - 1, j>>]
          /\ j > 0 => g1[<<i, j - 1>>] = g[<<i, j - 1>>]
          /\ i > 0 /\ j > 0 => g1[<<i - 1, j - 1>>] = g[<<i - 1, j - 1>>]
      BY <3>1, <3>2, <3>3, <3>4, <3>5
    <3> QED BY <3>6 DEF Extended
  <2>4. Solves(g1, k + 1)
    <3> SUFFICES ASSUME NEW p \in D, p[1] + p[2] < k + 1 PROVE g1[p] = Extended(in, out, g1, p)
      OBVIOUS
    <3>1. p[1] + p[2] <= k
      BY <1>1
    <3>2. g1[p] = Extended(in, out, g, p)
      <4>1. CASE p[1] + p[2] = k
        BY <4>1
      <4>2. CASE p[1] + p[2] < k
        BY <2>1, <4>2, <1>1
      <4> QED BY <1>1, <3>1, <4>1, <4>2
    <3> HIDE DEF g1
    <3> QED BY <2>3, <3>1, <3>2
  <2>5. k + 1 \in 0 .. m + n + 1
    BY <1>1
  <2> HIDE DEF g1, IsFcn, Solves
  <2> QED BY <2>2, <2>4, <2>5
<1>4. m + n + 1 \in G
  <2> HIDE DEF G
  <2>1. m + n + 1 \in Nat /\ m + n + 1 \in 0 .. m + n + 1
    BY <1>1
  <2> QED BY <1>2, <1>3, <2>1, UpTo
<1>5. PICK g : IsFcn(g) /\ Solves(g, m + n + 1)
  BY <1>4
<1>6. \A p \in D : g[p] = Extended(in, out, g, p)
  <2> SUFFICES ASSUME NEW p \in D PROVE g[p] = Extended(in, out, g, p)
    OBVIOUS
  <2>1. p[1] + p[2] < m + n + 1
    BY <1>1
  <2> QED BY <1>5, <2>1
<1> QED BY <1>5, <1>6 DEF Extends

LEMMA ExtendsType ==
  ASSUME NEW in \in Seq(LetterOrEps), NEW out \in Seq(LetterOrEps), NEW g, Extends(in, out, g)
  PROVE  g[<<Len(in), Len(out)>>] \subseteq Seq(InnerSymbol)
<1> DEFINE m == Len(in)
           n == Len(out)
           D == (0 .. m) \X (0 .. n)
           T == SUBSET Seq(InnerSymbol)
           G == {k \in 0 .. m + n + 1 : \A p \in D : p[1] + p[2] < k => g[p] \in T}
<1>1. m \in Nat /\ n \in Nat /\ \A p \in D : p[1] \in 0 .. m /\ p[2] \in 0 .. n /\ p = <<p[1], p[2]>>
  OBVIOUS
<1>2. \A p \in D : g[p] = Extended(in, out, g, p)
  BY DEF Extends
<1>3. 0 \in G
  BY <1>1
<1>4. ASSUME NEW k \in 0 .. (m + n + 1) - 1, k \in G PROVE k + 1 \in G
  <2>1. \A a \in 0 .. m, b \in 0 .. n : a + b < k => g[<<a, b>>] \in T
    <3> SUFFICES ASSUME NEW a \in 0 .. m, NEW b \in 0 .. n, a + b < k PROVE g[<<a, b>>] \in T
      OBVIOUS
    <3>1. <<a, b>> \in D /\ <<a, b>>[1] = a /\ <<a, b>>[2] = b
      OBVIOUS
    <3> QED BY <1>4, <3>1
  <2>2. ASSUME NEW p \in D, p[1] + p[2] < k + 1 PROVE g[p] \in T
    <3> DEFINE i == p[1]
               j == p[2]
    <3>1. i \in 0 .. m /\ j \in 0 .. n /\ i + j <= k
      BY <1>1, <2>2
    <3>2. /\ i > 0 => i - 1 \in 0 .. m /\ (i - 1) + j < k
          /\ j > 0 => j - 1 \in 0 .. n /\ i + (j - 1) < k
          /\ i > 0 /\ j > 0 => (i - 1) + (j - 1) < k
      BY <1>1, <3>1
    <3> HIDE DEF G, T
    <3>3. /\ i > 0 => g[<<i - 1, j>>] \in T
          /\ j > 0 => g[<<i, j - 1>>] \in T
          /\ i > 0 /\ j > 0 => g[<<i - 1, j - 1>>] \in T
      BY <2>1, <3>1, <3>2
    <3>4. Extended(in, out, g, p) \in T
      BY <3>3, ExtendedType DEF T
    <3> QED BY <1>2, <3>4
  <2>3. k + 1 \in 0 .. m + n + 1
    BY <1>1
  <2> HIDE DEF T
  <2> QED BY <2>2, <2>3
<1>5. m + n + 1 \in G
  <2> HIDE DEF G
  <2>1. m + n + 1 \in Nat /\ m + n + 1 \in 0 .. m + n + 1
    BY <1>1
  <2> QED BY <1>3, <1>4, <2>1, UpTo
<1>6. <<m, n>> \in D /\ <<m, n>>[1] + <<m, n>>[2] < m + n + 1
  BY <1>1
<1> QED BY <1>5, <1>6

LEMMA HookedInner ==
  ASSUME NEW w \in Seq(InnerSymbol)
  PROVE  Hooked(<<StartSym>> \o w \o <<EndSym>>)
<1> DEFINE v == <<StartSym>> \o w \o <<EndSym>>
<1>1. StartSym \in BasicSymbol /\ EndSym \in BasicSymbol /\ InnerSymbol \subseteq BasicSymbol
  BY DEF BasicSymbol, StartSym, EndSym, Symbol, InnerSymbol, Letter
<1>2. w \in Seq(BasicSymbol)
  <2>1. \A T : InnerSymbol \subseteq T => w \in Seq(T)
    OBVIOUS
  <2> QED BY <1>1, <2>1
<1>3. v \in Seq(BasicSymbol) /\ Len(v) = Len(w) + 2
  BY <1>1, <1>2
<1>4. ASSUME NEW k \in 2 .. Len(v) - 1 PROVE ~ IsSpecial(v[k])
  <2>1. k - 1 \in 1 .. Len(w)
    BY <1>3
  <2>2. v[k] = w[k - 1]
    BY <1>1, <1>2, <2>1
  <2>3. w[k - 1] \in InnerSymbol
    BY <2>1
  <2> QED BY <2>2, <2>3 DEF InnerSymbol
<1> QED BY <1>3, <1>4 DEF Hooked

LEMMA AlignmentsType ==
  ASSUME NEW in \in Seq(LetterOrEps), NEW out \in Seq(LetterOrEps), NEW w \in Alignments(in, out)
  PROVE  Hooked(w)
<1> DEFINE h == CHOOSE g : Extends(in, out, g)
<1>1. Extends(in, out, h)
  BY ExtendsExists
<1>2. Alignments(in, out) = {<<StartSym>> \o v \o <<EndSym>> : v \in h[<<Len(in), Len(out)>>]}
  BY Zenon DEF Alignments, Extends, Extended
<1> HIDE DEF h
<1> QED BY <1>1, <1>2, ExtendsType, HookedInner

\* The annotated forms of the first k symbols of w.
Forms(w, symbols, k) ==
  {v \in Seq(DOMAIN symbols) : Len(v) = k /\ \A i \in 1 .. k : Nola(symbols[v[i]]) = w[i]}

LEMMA RelabelledForms ==
  ASSUME NEW w, NEW T, NEW symbols \in Seq(T), NEW vs \in SUBSET Seq(DOMAIN symbols), NEW s
  PROVE  /\ Relabelled(symbols, vs, s) \in SUBSET Seq(DOMAIN symbols)
         /\ \A k \in Nat : vs \subseteq Forms(w, symbols, k) /\ s = w[k + 1] =>
              Relabelled(symbols, vs, s) \subseteq Forms(w, symbols, k + 1)
<1> DEFINE L == {l \in DOMAIN symbols : Nola(symbols[l]) = s}
<1>1. ASSUME NEW u \in Relabelled(symbols, vs, s)
      PROVE  \E v \in vs : \E l \in L : u = Append(v, l)
  <2>1. Relabelled(symbols, vs, s) = {Append(v, l) : v \in vs, l \in L}
    BY DEF Relabelled
  <2> HIDE DEF L
  <2> QED BY <2>1
<1>2. \A l \in L : l \in DOMAIN symbols /\ Nola(symbols[l]) = s
  OBVIOUS
<1> HIDE DEF L
<1>3. Relabelled(symbols, vs, s) \in SUBSET Seq(DOMAIN symbols)
  <2>1. \A v \in vs, l \in L : Append(v, l) \in Seq(DOMAIN symbols)
    BY <1>2
  <2> QED BY <1>1, <2>1
<1>4. ASSUME NEW k \in Nat, vs \subseteq Forms(w, symbols, k), s = w[k + 1],
             NEW u \in Relabelled(symbols, vs, s)
      PROVE  u \in Forms(w, symbols, k + 1)
  <2>1. PICK v \in vs, l \in L : u = Append(v, l)
    BY <1>1
  <2>2. v \in Seq(DOMAIN symbols) /\ Len(v) = k /\ \A i \in 1 .. k : Nola(symbols[v[i]]) = w[i]
    BY <1>4 DEF Forms
  <2>3. u \in Seq(DOMAIN symbols) /\ Len(u) = k + 1 /\ u[k + 1] = l /\ \A i \in 1 .. k : u[i] = v[i]
    BY <1>2, <2>1, <2>2
  <2>4. \A i \in 1 .. k + 1 : Nola(symbols[u[i]]) = w[i]
    <3>1. \A i \in 1 .. k + 1 : i \in 1 .. k \/ i = k + 1
      OBVIOUS
    <3> QED BY <1>2, <1>4, <2>2, <2>3, <3>1
  <2> QED BY <2>3, <2>4 DEF Forms
<1> QED BY <1>3, <1>4

LEMMA AnnotateType ==
  ASSUME NEW S, NEW w \in Seq(S), NEW T, NEW symbols \in Seq(T)
  PROVE  Annotate(w, symbols) \subseteq Forms(w, symbols, Len(w))
<1> DEFINE n == Len(w)
           A == SUBSET Seq(DOMAIN symbols)
           op(vs, s) == Relabelled(symbols, vs, s)
           f == [p \in A \X (1 .. n) |-> op(p[1], w[p[2]])]
           R(g) == g = [s \in SUBSET DOMAIN w |->
                          IF s = {} THEN {<<>>} ELSE op(g[s \ {Max(s)}], w[Max(s)])]
           h == CHOOSE g : R(g)
<1>1. n \in Nat /\ DOMAIN w = 1 .. n
  OBVIOUS
<1>2. \A vs \in A : \A s : op(vs, s) \in A
  BY RelabelledForms
<1>3. f \in [A \X (1 .. n) -> A] /\ {<<>>} \in A
  <2>1. {<<>>} \in A
    OBVIOUS
  <2> HIDE DEF op, A
  <2> QED BY <1>1, <1>2, <2>1
<1>4. PICK g \in [SUBSET (1 .. n) -> A] : Iterates(f, {<<>>}, n, g)
  <2> HIDE DEF f, A, n
  <2> QED BY <1>1, <1>3, IteratesExists DEF Iterable
<1>5. \A s \in SUBSET (1 .. n) : s # {} =>
         f[<<g[s \ {Max(s)}], Max(s)>>] = op(g[s \ {Max(s)}], w[Max(s)])
  <2> SUFFICES ASSUME NEW s \in SUBSET (1 .. n), s # {}
               PROVE f[<<g[s \ {Max(s)}], Max(s)>>] = op(g[s \ {Max(s)}], w[Max(s)])
    OBVIOUS
  <2>1. Max(s) \in 1 .. n /\ g[s \ {Max(s)}] \in A
    <3> HIDE DEF A
    <3> QED BY <1>1, MaxIn
  <2> HIDE DEF op, A
  <2> QED BY <2>1
<1>6. R(g)
  <2> HIDE DEF op, f
  <2> QED BY <1>1, <1>4, <1>5 DEF Iterates
<1>7. R(h)
  <2> HIDE DEF R
  <2> QED BY <1>6
<1>8. Annotate(w, symbols) = h[DOMAIN w]
  BY Zenon DEF Annotate, FoldLeft, MapThenFoldSet
<1> HIDE DEF h, f
<1>9. \A s \in SUBSET (1 .. n) : h[s] = IF s = {} THEN {<<>>} ELSE op(h[s \ {Max(s)}], w[Max(s)])
  <2> HIDE DEF op
  <2> QED BY <1>1, <1>7
<1> DEFINE G == {k \in 0 .. n : h[1 .. k] \subseteq Forms(w, symbols, k)}
<1>10. 0 \in G
  <2>1. 1 .. 0 = {} /\ {} \in SUBSET (1 .. n) /\ 0 \in 0 .. n
    BY <1>1
  <2>2. h[{}] = {<<>>}
    <3> HIDE DEF op
    <3> QED BY <1>9, <2>1
  <2>3. <<>> \in Forms(w, symbols, 0)
    BY DEF Forms
  <2> QED BY <2>1, <2>2, <2>3
<1>11. ASSUME NEW k \in 0 .. n - 1, k \in G PROVE k + 1 \in G
  <2>1. k + 1 \in 1 .. n /\ k + 1 \in 0 .. n /\ (k + 1) - 1 = k
    BY <1>1
  <2>2. h[1 .. k + 1] = op(h[1 .. k], w[k + 1])
    <3> HIDE DEF op, G
    <3>1. /\ 1 .. (k + 1) \in SUBSET (1 .. n) /\ 1 .. (k + 1) # {}
          /\ Max(1 .. (k + 1)) = k + 1 /\ (1 .. (k + 1)) \ {Max(1 .. (k + 1))} = 1 .. k
      <4>1. 1 .. ((k + 1) - 1) = 1 .. k
        BY <2>1
      <4> QED BY <1>1, <2>1, <4>1, FirstPositions
    <3> QED BY <1>9, <3>1
  <2>3. h[1 .. k] \subseteq Forms(w, symbols, k) /\ h[1 .. k] \in SUBSET Seq(DOMAIN symbols)
    <3>1. h[1 .. k] \subseteq Forms(w, symbols, k)
      BY <1>11
    <3> QED BY <3>1 DEF Forms
  <2>4. h[1 .. k + 1] \subseteq Forms(w, symbols, k + 1)
    <3> HIDE DEF G
    <3> QED BY <2>2, <2>3, RelabelledForms
  <2> QED BY <2>1, <2>4
<1>12. n \in G
  <2> HIDE DEF G
  <2>1. n \in 0 .. n
    BY <1>1
  <2> QED BY <1>1, <1>10, <1>11, <2>1, UpTo
<1> QED BY <1>1, <1>8, <1>12

\* A pair of the data: two strings, and some of their alignments.
PairOfStrings(p) ==
  /\ p.in \in Seq(LetterOrEps) /\ p.out \in Seq(LetterOrEps)
  /\ p.aligned \subseteq Alignments(p.in, p.out)

LEMMA CorpusPairs ==
  ASSUME NEW corpus \in Corpora, NEW i \in DOMAIN corpus
  PROVE  PairOfStrings(corpus[i])
<1> DEFINE Pairs == [in : Seq(PlainLetter), out : Seq(PlainLetter),
                     aligned : SUBSET Seq([in : STRING, out : STRING, c : {0}, g : {Unannotated}])]
<1>1. corpus \in Seq(Pairs) /\ corpus[i].aligned \subseteq Alignments(corpus[i].in, corpus[i].out)
  BY CorporaAssumption
<1>2. corpus[i] \in Pairs
  <2> HIDE DEF Pairs
  <2> QED BY <1>1
<1>3. corpus[i].in \in Seq(PlainLetter) /\ corpus[i].out \in Seq(PlainLetter)
  BY <1>2
<1>4. PlainLetter \subseteq LetterOrEps
  BY DEF PlainLetter, LetterOrEps, Letter
<1>5. \A S, T, x : S \subseteq T /\ x \in Seq(S) => x \in Seq(T)
  OBVIOUS
<1> QED BY <1>1, <1>3, <1>4, <1>5 DEF PairOfStrings

\* All alignments that a lattice is made of.
LEMMA AlignmentsOfType ==
  ASSUME NEW p, PairOfStrings(p), NEW w \in AlignmentsOf(p)
  PROVE  Hooked(w)
<1>1. w \in Alignments(p.in, p.out)
  BY DEF AlignmentsOf, PairOfStrings
<1> QED BY <1>1, AlignmentsType DEF PairOfStrings

\* An annotated form of a string reads as annotated symbols between S|S and E|E.
LEMMA FormSpelled ==
  ASSUME NEW conjs \in Nat, NEW segs \in Nat, NEW w, Hooked(w),
         table \in Seq(TableSymbol(conjs, segs)),
         NEW v \in Annotate(w, table)
  PROVE  Spell(v) \in Seq(AnySymbol) /\ Spelled(conjs, segs, Spell(v))
<1>1. w \in Seq(BasicSymbol)
  BY DEF Hooked
<1>2. v \in Forms(w, table, Len(w))
  BY <1>1, AnnotateType
<1>3. /\ v \in Seq(DOMAIN table) /\ Len(v) = Len(w) /\ Len(v) \in Nat
      /\ \A i \in 1 .. Len(w) : Nola(table[v[i]]) = w[i]
  BY <1>2 DEF Forms
<1>4. \A i \in 1 .. Len(v) : v[i] \in DOMAIN table /\ table[v[i]] \in TableSymbol(conjs, segs)
  BY <1>3
<1>5. \A i \in 1 .. Len(v) : table[v[i]] \in AnySymbol
  BY <1>4 DEF TableSymbol
<1>6. DOMAIN v = 1 .. Len(v)
  BY <1>3
<1>7. Spell(v) \in Seq(AnySymbol) /\ Len(Spell(v)) = Len(v) /\ \A i \in 1 .. Len(v) : Spell(v)[i] = table[v[i]]
  BY <1>3, <1>5, <1>6 DEF Spell
<1>8. ASSUME NEW k \in 2 .. Len(v) - 1
      PROVE  Annotated(conjs, segs, Spell(v)[k]) /\ ~ IsSpecial(Spell(v)[k])
  <2> DEFINE s == table[v[k]]
  <2>1. k \in 1 .. Len(v) /\ Spell(v)[k] = s /\ s \in TableSymbol(conjs, segs) /\ Nola(s) = w[k] /\ ~ IsSpecial(w[k])
    BY <1>3, <1>4, <1>7 DEF Hooked
  <2> HIDE DEF s
  <2>2. Nola(StartSym) = StartSym /\ Nola(EndSym) = EndSym
    BY DEF Nola, StartSym, EndSym, Symbol
  <2>3. ~ IsSpecial(s)
    BY <2>1, <2>2 DEF IsSpecial
  <2> QED BY <2>1, <2>3 DEF TableSymbol
<1> QED BY <1>7, <1>8 DEF Spelled

-----------------------------------------------------------------------------
(* The lattices that are counted.                                          *)

\* While the pairs are counted the table is that of the options, and the corpus
\* one that aligns its pairs.
TableMade ==
  /\ stage \in {"symbols", "count"} =>
       opts \in Topologies /\ (opts.code = "ngram" \/ data \in Corpora)
  /\ stage = "count" => opts.code # "ngram" /\ table \in Seq(TableSymbol(opts.conjs, opts.segs))

LEMMA LatticeMeans ==
  ASSUME NEW p, PairOfStrings(p), opts \in Topologies,
         table \in Seq(TableSymbol(opts.conjs, opts.segs))
  PROVE  Lattice(p) = {v \in UNION {Annotate(w, table) : w \in AlignmentsOf(p)} :
                         IsWellFormed(WfLimit, opts.conjs, opts.segs, Spell(v))}
<1>1. opts.conjs \in Nat /\ opts.segs \in Nat /\ WfLimit \in Int
  BY TopologiesAssumption DEF WfLimit
<1>2. ASSUME NEW v \in UNION {Annotate(w, table) : w \in AlignmentsOf(p)}
      PROVE  WfAccepts(WfLimit, opts.conjs, opts.segs, Spell(v))
               <=> IsWellFormed(WfLimit, opts.conjs, opts.segs, Spell(v))
  <2>1. PICK w \in AlignmentsOf(p) : v \in Annotate(w, table)
    OBVIOUS
  <2>2. Hooked(w)
    BY AlignmentsOfType
  <2>3. Spell(v) \in Seq(AnySymbol) /\ Spelled(opts.conjs, opts.segs, Spell(v))
    BY <1>1, <2>1, <2>2, FormSpelled
  <2> QED BY <1>1, <2>3, WellFormedLanguage
<1> QED BY <1>2 DEF Lattice

LEMMA TableMadeSays == TableMade => LatticeIsWellFormed
<1> SUFFICES ASSUME TableMade, stage = "count", pair = 0, NEW i \in DOMAIN data
             PROVE  Lattice(data[i]) =
                      {v \in UNION {Annotate(w, table) : w \in AlignmentsOf(data[i])} :
                         IsWellFormed(WfLimit, opts.conjs, opts.segs, Spell(v))}
  BY DEF LatticeIsWellFormed
<1>1. /\ opts \in Topologies /\ data \in Corpora
      /\ table \in Seq(TableSymbol(opts.conjs, opts.segs))
  BY DEF TableMade
<1>2. PairOfStrings(data[i])
  BY <1>1, CorpusPairs
<1> QED BY <1>1, <1>2, LatticeMeans

LEMMA InitTableMade == AllInit => TableMade
BY DEF AllInit, IdleCreation, CreatingInit, TopologyInit, CreateInit, CountInit, TableMade

LEMMA MakeSymbolsTableMade == TableMade /\ MakeSymbols => TableMade'
<1> SUFFICES ASSUME TableMade, MakeSymbols PROVE TableMade'
  OBVIOUS
<1>1. PICK basic \in BasicSymbols : table' = AddLatentAnnotations(basic, opts.conjs, opts.segs)
  BY DEF MakeSymbols
<1>2. basic \in Seq(BasicSymbol)
  BY AllSymbolsType, IdentityCharsType DEF BasicSymbols
<1>3. opts \in Topologies /\ (opts.code = "ngram" \/ data \in Corpora) /\ opts' = opts /\ data' = data
  BY DEF TableMade, MakeSymbols
<1>4. table' \in Seq(TableSymbol(opts.conjs, opts.segs))
  BY <1>1, <1>2, <1>3, TopologiesAssumption, TableType
<1>5. stage' = IF opts.code = "ngram" THEN "all" ELSE "count"
  BY DEF MakeSymbols
<1> QED BY <1>3, <1>4, <1>5 DEF TableMade

\* Other steps leave the counting or keep what it relies on.
TableKept ==
  \/ stage' \notin {"symbols", "count"}
  \/ stage' = stage /\ opts' = opts /\ data' = data /\ table' = table

LEMMA TableKeptMade == TableMade /\ TableKept => TableMade'
<1>1. TableMade /\ TableKept /\ stage' \notin {"symbols", "count"} => TableMade'
  BY DEF TableMade
<1>2. TableMade /\ stage' = stage /\ opts' = opts /\ data' = data /\ table' = table => TableMade'
  BY DEF TableMade
<1> QED BY <1>1, <1>2 DEF TableKept

LEMMA TopologyStepKeeps == TopologyNext => MakeSymbols \/ TableKept
<1> SUFFICES ASSUME TopologyNext, ~ MakeSymbols PROVE TableKept
  OBVIOUS
<1>1. CASE DoubleFree
  BY <1>1 DEF DoubleFree, TableKept
<1>2. CASE AddCounts
  BY <1>2 DEF AddCounts, TableKept
<1>3. CASE ProcessSubset
  BY <1>3 DEF ProcessSubset, TableKept
<1>4. CASE Select
  BY <1>4 DEF Select, TableKept
<1>5. CASE CreateNgramTrie
  BY <1>5 DEF CreateNgramTrie, TableKept
<1>6. CASE StartAddBackoff
  BY <1>6 DEF StartAddBackoff, TableKept
<1>7. CASE AddBackoffArc
  BY <1>7 DEF AddBackoffArc, TableKept
<1>8. CASE AddPhiArc
  BY <1>8 DEF AddPhiArc, TableKept
<1>9. CASE Convert
  BY <1>9 DEF Convert, TableKept
<1>10. CASE NgramFsaInsertFeatures
  BY <1>10 DEF NgramFsaInsertFeatures, TableKept
<1>11. CASE CreateScoringFst
  BY <1>11 DEF CreateScoringFst, TableKept
<1>12. CASE NoepshistNext
  BY <1>12 DEF NoepshistNext, StartScoring, AddArcs, ComposeScoringFst, TableKept
<1> QED BY <1>1, <1>2, <1>3, <1>4, <1>5, <1>6, <1>7, <1>8, <1>9, <1>10, <1>11, <1>12
        DEF TopologyNext, CreateNext, CountNext

LEMMA AllNextTableMade == TableMade /\ [AllNext]_allVars => TableMade'
<1> SUFFICES ASSUME TableMade, [AllNext]_allVars PROVE TableMade'
  OBVIOUS
<1>1. CASE MakeSymbols
  BY <1>1, MakeSymbolsTableMade
<1>2. CASE HandOver
  <2>1. TableKept
    BY <1>2 DEF HandOver, TableKept
  <2> QED BY <2>1, TableKeptMade
<1>3. CASE UNCHANGED topologyVars
  <2>1. TableKept
    BY <1>3 DEF topologyVars, createVars, countVars, TableKept
  <2> QED BY <2>1, TableKeptMade
<1>4. CASE TableKept
  BY <1>4, TableKeptMade
<1>5. MakeSymbols \/ HandOver \/ UNCHANGED topologyVars \/ TableKept
  BY TopologyStepKeeps DEF AllNext, allVars, Create, SessionStep
<1> QED BY <1>1, <1>2, <1>3, <1>4, <1>5

\* In every creation of a machine, with a limit on insertions, classes and regions
\* in any combination, the alignments that are counted are all those,
\* and only those, whose annotated forms are as getWellFormed says they should be.
THEOREM LatticesWellFormed == AllSpec => []LatticeIsWellFormed
<1>1. AllInit => TableMade
  BY InitTableMade
<1>2. TableMade /\ [AllNext]_allVars => TableMade'
  BY AllNextTableMade
<1>3. TableMade => LatticeIsWellFormed
  BY TableMadeSays
<1> QED BY <1>1, <1>2, <1>3, PTL DEF AllSpec

-----------------------------------------------------------------------------

\* Sequences of labels: their beginnings, sorting, and what is kept of them.

NoDups(s) == \A i, j \in DOMAIN s : s[i] = s[j] => i = j
Ascending(s) == \A i, j \in DOMAIN s : i < j => s[i] < s[j]
\* p is the beginning of q.
Begins(p, q) == Len(p) <= Len(q) /\ \A i \in 1 .. Len(p) : p[i] = q[i]

LEMMA AppendFacts ==
  ASSUME NEW S, NEW p \in Seq(S), NEW l \in S
  PROVE  /\ Append(p, l) \in Seq(S) /\ Append(p, l) # <<>> /\ Len(Append(p, l)) = Len(p) + 1
         /\ \A i \in 1 .. Len(p) : Append(p, l)[i] = p[i]
         /\ Append(p, l)[Len(p) + 1] = l
         /\ Front(Append(p, l)) = p /\ Last(Append(p, l)) = l
<1> DEFINE q == Append(p, l)
<1>1. /\ q \in Seq(S) /\ Len(q) = Len(p) + 1 /\ \A i \in 1 .. Len(p) : q[i] = p[i]
      /\ q[Len(p) + 1] = l /\ Len(p) \in Nat
  OBVIOUS
<1>2. q # <<>>
  BY <1>1
<1> HIDE DEF q
<1>3. Last(q) = l
  BY <1>1 DEF Last
<1>4. Front(q) = p
  <2> DEFINE f == SubSeq(q, 1, Len(q) - 1)
  <2>1. f \in Seq(S) /\ Len(f) = Len(p) /\ \A i \in 1 .. Len(p) : f[i] = q[i]
    BY <1>1
  <2>2. Front(q) = f
    BY Zenon DEF Front
  <2> HIDE DEF f
  <2>3. f = p
    BY <1>1, <2>1
  <2> QED BY <2>2, <2>3
<1> QED BY <1>1, <1>2, <1>3, <1>4 DEF q

LEMMA FrontFacts ==
  ASSUME NEW S, NEW p \in Seq(S), p # <<>>
  PROVE  /\ Front(p) \in Seq(S) /\ Len(Front(p)) = Len(p) - 1 /\ Last(p) \in S
         /\ Last(p) = p[Len(p)] /\ Len(p) \in Nat /\ Len(p) > 0
         /\ \A i \in 1 .. Len(p) - 1 : Front(p)[i] = p[i]
         /\ Append(Front(p), Last(p)) = p
<1> DEFINE f == SubSeq(p, 1, Len(p) - 1)
<1>1. Len(p) \in Nat /\ Len(p) > 0
  OBVIOUS
<1>2. f \in Seq(S) /\ Len(f) = Len(p) - 1 /\ \A i \in 1 .. Len(p) - 1 : f[i] = p[i]
  <2> DEFINE k == Len(p) - 1
  <2>1. k \in Nat /\ k <= Len(p)
    BY <1>1
  <2> HIDE DEF k
  <2>2. SubSeq(p, 1, k) \in Seq(S) /\ Len(SubSeq(p, 1, k)) = k /\ \A i \in 1 .. k : SubSeq(p, 1, k)[i] = p[i]
    BY <2>1
  <2> QED BY <2>2 DEF k
<1>3. Front(p) = f
  <2>1. Front(p) = SubSeq(p, 1, Len(p) - 1)
    BY Zenon DEF Front
  <2> QED BY <2>1
<1>4. Last(p) = p[Len(p)] /\ Last(p) \in S
  BY <1>1 DEF Last
<1> HIDE DEF f
<1>5. Append(f, Last(p)) = p
  <2> DEFINE q == Append(f, Last(p))
  <2>1. q \in Seq(S) /\ Len(q) = Len(p) /\ \A i \in 1 .. Len(p) - 1 : q[i] = p[i]
    BY <1>1, <1>2, <1>4
  <2>2. q[Len(p)] = p[Len(p)]
    BY <1>1, <1>2, <1>4
  <2> HIDE DEF q
  <2>3. \A i \in 1 .. Len(p) : q[i] = p[i]
    <3>1. \A i \in 1 .. Len(p) : i \in 1 .. Len(p) - 1 \/ i = Len(p)
      BY <1>1
    <3> QED BY <2>1, <2>2, <3>1
  <2> QED BY <1>1, <2>1, <2>3 DEF q
<1> QED BY <1>1, <1>2, <1>3, <1>4, <1>5

LEMMA SameSequence ==
  ASSUME NEW S, NEW p \in Seq(S), NEW q \in Seq(S), Len(p) = Len(q),
         \A i \in 1 .. Len(p) : p[i] = q[i]
  PROVE  p = q
OBVIOUS

LEMMA BeginsFacts ==
  ASSUME NEW S
  PROVE  /\ \A p \in Seq(S) : Begins(p, p) /\ Begins(Root, p)
         /\ \A p, q, r \in Seq(S) : Begins(p, q) /\ Begins(q, r) => Begins(p, r)
         /\ \A p, q \in Seq(S) : Begins(p, q) /\ Begins(q, p) => p = q
         /\ \A p, q, r \in Seq(S) : Begins(p, r) /\ Begins(q, r) => Begins(p, q) \/ Begins(q, p)
         /\ \A p \in Seq(S), l \in S : Begins(p, Append(p, l))
         /\ \A p, q \in Seq(S), l \in S : Begins(q, Append(p, l)) => q = Append(p, l) \/ Begins(q, p)
         /\ \A p, q \in Seq(S) : Begins(p, q) /\ p # q =>
              Len(p) < Len(q) /\ q[Len(p) + 1] \in S /\ Begins(Append(p, q[Len(p) + 1]), q)
<1>1. \A p \in Seq(S) : Begins(p, p) /\ Begins(Root, p)
  BY DEF Begins, Root
<1>2. \A p, q, r \in Seq(S) : Begins(p, q) /\ Begins(q, r) => Begins(p, r)
  BY DEF Begins
<1>3. \A p, q \in Seq(S) : Begins(p, q) /\ Begins(q, p) => p = q
  <2> SUFFICES ASSUME NEW p \in Seq(S), NEW q \in Seq(S), Begins(p, q), Begins(q, p) PROVE p = q
    OBVIOUS
  <2>1. Len(p) = Len(q) /\ \A i \in 1 .. Len(p) : p[i] = q[i]
    BY DEF Begins
  <2> QED BY <2>1, SameSequence
<1>4. \A p, q, r \in Seq(S) : Begins(p, r) /\ Begins(q, r) => Begins(p, q) \/ Begins(q, p)
  <2> SUFFICES ASSUME NEW p \in Seq(S), NEW q \in Seq(S), NEW r \in Seq(S), Begins(p, r), Begins(q, r)
               PROVE Begins(p, q) \/ Begins(q, p)
    OBVIOUS
  <2>1. Len(p) <= Len(q) \/ Len(q) <= Len(p)
    OBVIOUS
  <2> QED BY <2>1 DEF Begins
<1>5. \A p \in Seq(S), l \in S : Begins(p, Append(p, l))
  BY AppendFacts DEF Begins
<1>6. \A p, q \in Seq(S), l \in S : Begins(q, Append(p, l)) => q = Append(p, l) \/ Begins(q, p)
  <2> SUFFICES ASSUME NEW p \in Seq(S), NEW q \in Seq(S), NEW l \in S, Begins(q, Append(p, l))
               PROVE q = Append(p, l) \/ Begins(q, p)
    OBVIOUS
  <2> DEFINE r == Append(p, l)
  <2>1. r \in Seq(S) /\ Len(r) = Len(p) + 1 /\ \A i \in 1 .. Len(p) : r[i] = p[i]
    BY AppendFacts
  <2>2. Len(q) <= Len(r) /\ \A i \in 1 .. Len(q) : q[i] = r[i]
    BY DEF Begins
  <2> HIDE DEF r
  <2>3. CASE Len(q) = Len(r)
    BY <2>1, <2>2, <2>3, SameSequence DEF r
  <2>4. CASE Len(q) # Len(r)
    BY <2>1, <2>2, <2>4 DEF Begins
  <2> QED BY <2>3, <2>4
<1>7. \A p, q \in Seq(S) : Begins(p, q) /\ p # q =>
        Len(p) < Len(q) /\ q[Len(p) + 1] \in S /\ Begins(Append(p, q[Len(p) + 1]), q)
  <2> SUFFICES ASSUME NEW p \in Seq(S), NEW q \in Seq(S), Begins(p, q), p # q
               PROVE Len(p) < Len(q) /\ q[Len(p) + 1] \in S /\ Begins(Append(p, q[Len(p) + 1]), q)
    OBVIOUS
  <2>1. Len(p) <= Len(q) /\ \A i \in 1 .. Len(p) : p[i] = q[i]
    BY DEF Begins
  <2>2. Len(p) # Len(q)
    BY <2>1, SameSequence
  <2>3. Len(p) < Len(q) /\ Len(p) + 1 \in 1 .. Len(q) /\ q[Len(p) + 1] \in S
    BY <2>1, <2>2
  <2> DEFINE r == Append(p, q[Len(p) + 1])
  <2>4. /\ r \in Seq(S) /\ Len(r) = Len(p) + 1 /\ \A i \in 1 .. Len(p) : r[i] = p[i]
        /\ r[Len(p) + 1] = q[Len(p) + 1]
    BY <2>3, AppendFacts
  <2> HIDE DEF r
  <2>5. \A i \in 1 .. Len(r) : i \in 1 .. Len(p) \/ i = Len(p) + 1
    BY <2>4
  <2>6. Begins(r, q)
    BY <2>1, <2>3, <2>4, <2>5 DEF Begins
  <2> QED BY <2>3, <2>6 DEF r
<1> QED BY <1>1, <1>2, <1>3, <1>4, <1>5, <1>6, <1>7

Highest(S, m) == m \in S /\ \A k \in S : k <= m

LEMMA HighestExists ==
  ASSUME NEW S, S \in SUBSET Nat, IsFiniteSet(S), S # {}
  PROVE  \E m \in S : Highest(S, m)
<1> DEFINE Bad == {T \in SUBSET S : T # {} /\ ~ \E m \in T : Highest(T, m)}
<1> SUFFICES ASSUME Bad # {} PROVE FALSE
  OBVIOUS
<1>1. PICK T \in Bad : \A U \in Bad : U \subseteq T => U = T
  <2>1. Bad \in SUBSET SUBSET S /\ Bad # {}
    OBVIOUS
  <2>2. IsFiniteSet(S)
    OBVIOUS
  <2> HIDE DEF Bad
  <2> QED BY ONLY <2>1, <2>2, SmallestSet
<1>2. PICK m \in T : TRUE
  OBVIOUS
<1>3. T \ {m} \notin Bad
  BY <1>1, <1>2
<1>4. CASE T \ {m} = {}
  BY <1>2, <1>4 DEF Highest
<1>5. CASE T \ {m} # {}
  <2>1. PICK k \in T \ {m} : Highest(T \ {m}, k)
    BY <1>3, <1>5
  <2>2. CASE m <= k
    <3>1. Highest(T, k)
      BY <2>1, <2>2 DEF Highest
    <3> QED BY <2>1, <3>1
  <2>3. CASE ~ (m <= k)
    <3>1. m \in Nat /\ k \in Nat /\ \A j \in T : j \in Nat
      BY <1>2, <2>1
    <3>2. Highest(T, m)
      BY <1>2, <2>1, <2>3, <3>1 DEF Highest
    <3> QED BY <1>2, <3>2
  <2> QED BY <2>2, <2>3
<1> QED BY <1>4, <1>5

\* The members that are smaller.
Below(S, l) == {m \in S : m < l}
Ranked(S) == \A i \in 1 .. Cardinality(S) : \E l \in S : Cardinality(Below(S, l)) = i - 1

LEMMA RanksExist ==
  ASSUME NEW S, S \in SUBSET Nat, IsFiniteSet(S)
  PROVE  Ranked(S)
<1> DEFINE Bad == {T \in SUBSET S : ~ Ranked(T)}
<1> SUFFICES ASSUME Bad # {} PROVE FALSE
  OBVIOUS
<1>1. PICK T \in Bad : \A U \in Bad : U \subseteq T => U = T
  <2>1. Bad \in SUBSET SUBSET S /\ Bad # {}
    OBVIOUS
  <2>2. IsFiniteSet(S)
    OBVIOUS
  <2> HIDE DEF Bad
  <2> QED BY ONLY <2>1, <2>2, SmallestSet
<1>2. T \in SUBSET Nat /\ IsFiniteSet(T) /\ ~ Ranked(T)
  BY FS_Subset
<1>3. T # {}
  <2>1. Cardinality({}) = 0 /\ 1 .. 0 = {}
    BY FS_EmptySet
  <2> QED BY <1>2, <2>1 DEF Ranked
<1>4. PICK m \in T : Highest(T, m)
  BY <1>2, <1>3, HighestExists
<1> DEFINE U == T \ {m}
<1>5. Ranked(U)
  BY <1>1, <1>4
<1>6. IsFiniteSet(U) /\ Cardinality(U) = Cardinality(T) - 1 /\ Cardinality(T) \in Nat
  BY <1>2, <1>4, FS_RemoveElement, FS_CardinalityType
<1>7. Below(T, m) = U
  <2>1. \A k \in T : k \in Nat /\ k <= m
    BY <1>2, <1>4 DEF Highest
  <2>2. \A k \in T : k < m <=> k # m
    BY <2>1
  <2> QED BY <2>2 DEF Below
<1>8. \A l \in U : Below(T, l) = Below(U, l)
  <2>1. \A l \in U : l \in Nat /\ l <= m /\ m \in Nat
    BY <1>2, <1>4 DEF Highest
  <2>2. \A l \in U : ~ (m < l)
    BY <2>1
  <2> QED BY <2>2 DEF Below
<1>9. Ranked(T)
  <2> SUFFICES ASSUME NEW i \in 1 .. Cardinality(T)
               PROVE \E l \in T : Cardinality(Below(T, l)) = i - 1
    BY DEF Ranked
  <2>1. CASE i = Cardinality(T)
    BY <1>4, <1>6, <1>7, <2>1
  <2>2. CASE i # Cardinality(T)
    <3>1. i \in 1 .. Cardinality(U)
      BY <1>6, <2>2
    <3>2. PICK l \in U : Cardinality(Below(U, l)) = i - 1
      BY <1>5, <3>1 DEF Ranked
    <3> QED BY <1>8, <3>2
  <2> QED BY <2>1, <2>2
<1> QED BY <1>2, <1>9

LEMMA SortedIs ==
  ASSUME NEW S, S \in SUBSET Nat, IsFiniteSet(S)
  PROVE  /\ Sorted(S) \in Seq(S) /\ ToSet(Sorted(S)) = S
         /\ Ascending(Sorted(S)) /\ NoDups(Sorted(S))
<1> DEFINE n == Cardinality(S)
           s == Sorted(S)
<1>1. n \in Nat
  BY FS_CardinalityType
<1>2. s = [i \in 1 .. n |-> CHOOSE l \in S : Cardinality(Below(S, l)) = i - 1]
  BY Zenon DEF Sorted, Below
<1> HIDE DEF s, n
<1>3. \A i \in 1 .. n : s[i] \in S /\ Cardinality(Below(S, s[i])) = i - 1
  <2> SUFFICES ASSUME NEW i \in 1 .. n PROVE s[i] \in S /\ Cardinality(Below(S, s[i])) = i - 1
    OBVIOUS
  <2>1. \E l \in S : Cardinality(Below(S, l)) = i - 1
    BY RanksExist DEF Ranked, n
  <2>2. s[i] = CHOOSE l \in S : Cardinality(Below(S, l)) = i - 1
    BY <1>2
  <2> QED BY <2>1, <2>2
<1>4. s \in Seq(S) /\ Len(s) = n /\ DOMAIN s = 1 .. n
  BY <1>1, <1>2, <1>3
<1>5. \A l \in S : IsFiniteSet(Below(S, l)) /\ Cardinality(Below(S, l)) \in 0 .. n - 1
  <2> SUFFICES ASSUME NEW l \in S PROVE IsFiniteSet(Below(S, l)) /\ Cardinality(Below(S, l)) \in 0 .. n - 1
    OBVIOUS
  <2>1. Below(S, l) \subseteq S \ {l}
    BY DEF Below
  <2>2. IsFiniteSet(S \ {l}) /\ Cardinality(S \ {l}) = n - 1
    BY FS_RemoveElement DEF n
  <2>3. IsFiniteSet(Below(S, l)) /\ Cardinality(Below(S, l)) <= n - 1
    BY <2>1, <2>2, FS_Subset
  <2>4. Cardinality(Below(S, l)) \in Nat
    BY <2>3, FS_CardinalityType
  <2> QED BY <1>1, <2>3, <2>4
<1>6. \A k, l \in S : k < l => Cardinality(Below(S, k)) < Cardinality(Below(S, l))
  <2> SUFFICES ASSUME NEW k \in S, NEW l \in S, k < l
               PROVE Cardinality(Below(S, k)) < Cardinality(Below(S, l))
    OBVIOUS
  <2>1. Below(S, k) \subseteq Below(S, l) \ {k} /\ k \in Below(S, l)
    <3>1. \A i \in S : i \in Nat
      OBVIOUS
    <3>2. \A i \in S : i < k => i < l /\ i # k
      BY <3>1
    <3> QED BY <3>2 DEF Below
  <2>2. IsFiniteSet(Below(S, l) \ {k}) /\ Cardinality(Below(S, l) \ {k}) = Cardinality(Below(S, l)) - 1
    BY <1>5, <2>1, FS_RemoveElement
  <2>3. Cardinality(Below(S, k)) <= Cardinality(Below(S, l) \ {k})
    BY <2>1, <2>2, FS_Subset
  <2>4. Cardinality(Below(S, k)) \in Nat /\ Cardinality(Below(S, l)) \in Nat
    BY <1>5
  <2> QED BY <2>2, <2>3, <2>4
<1>7. Ascending(s)
  <2> SUFFICES ASSUME NEW i \in 1 .. n, NEW j \in 1 .. n, i < j PROVE s[i] < s[j]
    BY <1>4 DEF Ascending
  <2>1. s[i] \in Nat /\ s[j] \in Nat /\ s[i] \in S /\ s[j] \in S
    BY <1>3
  <2>2. Cardinality(Below(S, s[i])) = i - 1 /\ Cardinality(Below(S, s[j])) = j - 1
    BY <1>3
  <2>3. s[i] # s[j] /\ ~ (s[j] < s[i])
    <3>1. i \in Nat /\ j \in Nat
      OBVIOUS
    <3>2. s[j] < s[i] => j - 1 < i - 1
      BY <1>6, <2>1, <2>2
    <3>3. s[i] = s[j] => i - 1 = j - 1
      BY <2>2
    <3> QED BY <3>1, <3>2, <3>3
  <2> QED BY <2>1, <2>3
<1>8. NoDups(s)
  <2> SUFFICES ASSUME NEW i \in 1 .. n, NEW j \in 1 .. n, s[i] = s[j] PROVE i = j
    BY <1>4 DEF NoDups
  <2>1. i - 1 = j - 1
    BY <1>3
  <2> QED BY <2>1
<1>9. ToSet(s) = S
  <2>1. ASSUME NEW l \in S PROVE \E i \in 1 .. n : s[i] = l
    <3> DEFINE c == Cardinality(Below(S, l))
    <3>1. c \in 0 .. n - 1
      BY <1>5
    <3> HIDE DEF c
    <3>2. c + 1 \in 1 .. n /\ (c + 1) - 1 = c
      BY <1>1, <3>1
    <3>3. Cardinality(Below(S, s[c + 1])) = c /\ s[c + 1] \in S
      BY <1>3, <3>2
    <3>4. ~ (s[c + 1] < l) /\ ~ (l < s[c + 1])
      <4>1. Cardinality(Below(S, l)) = c /\ c \in Nat /\ ~ (c < c)
        BY <3>1 DEF c
      <4> QED BY <1>6, <3>3, <4>1
    <3>5. s[c + 1] = l
      <4>1. s[c + 1] \in Nat /\ l \in Nat
        BY <3>3
      <4> QED BY <3>4, <4>1
    <3> QED BY <3>2, <3>5
  <2>2. ToSet(s) = {s[i] : i \in 1 .. n}
    BY <1>4 DEF ToSet
  <2> QED BY <1>3, <2>1, <2>2
<1> QED BY <1>4, <1>7, <1>8, <1>9 DEF s

\* How many of the first k are kept, step by step.
KeptRun(T, seq, S, g) ==
  /\ g \in [0 .. Len(seq) -> Seq(T)]
  /\ g[0] = <<>> /\ Kept(seq, S) = g[Len(seq)]
  /\ \A k \in 1 .. Len(seq) :
       g[k] = IF seq[k] \in S THEN Append(g[k - 1], seq[k]) ELSE g[k - 1]

LEMMA KeptSteps ==
  ASSUME NEW T, NEW seq \in Seq(T), NEW S
  PROVE  \E g : KeptRun(T, seq, S, g)
<1> DEFINE n == Len(seq)
           A == Seq(T)
           op(kept, s) == IF s \in S THEN Append(kept, s) ELSE kept
           f == [p \in A \X (1 .. n) |-> op(p[1], seq[p[2]])]
           R(g) == g = [s \in SUBSET DOMAIN seq |->
                          IF s = {} THEN <<>> ELSE op(g[s \ {Max(s)}], seq[Max(s)])]
           h == CHOOSE g : R(g)
<1>1. n \in Nat /\ DOMAIN seq = 1 .. n /\ \A i \in 1 .. n : seq[i] \in T
  OBVIOUS
<1>2. \A kept \in A, i \in 1 .. n : op(kept, seq[i]) \in A
  BY <1>1
<1>3. f \in [A \X (1 .. n) -> A] /\ <<>> \in A
  <2> HIDE DEF op
  <2> QED BY <1>1, <1>2
<1>4. PICK g \in [SUBSET (1 .. n) -> A] : Iterates(f, <<>>, n, g)
  <2> HIDE DEF f, A, n
  <2> QED BY <1>1, <1>3, IteratesExists DEF Iterable
<1>5. \A s \in SUBSET (1 .. n) : s # {} =>
         f[<<g[s \ {Max(s)}], Max(s)>>] = op(g[s \ {Max(s)}], seq[Max(s)])
  <2> SUFFICES ASSUME NEW s \in SUBSET (1 .. n), s # {}
               PROVE f[<<g[s \ {Max(s)}], Max(s)>>] = op(g[s \ {Max(s)}], seq[Max(s)])
    OBVIOUS
  <2>1. Max(s) \in 1 .. n /\ g[s \ {Max(s)}] \in A
    BY <1>1, MaxIn
  <2> HIDE DEF op, A
  <2> QED BY <2>1
<1>6. R(g)
  <2> HIDE DEF op, f
  <2> QED BY <1>1, <1>4, <1>5 DEF Iterates
<1>7. R(h)
  <2> HIDE DEF R
  <2> QED BY <1>6
<1>8. Kept(seq, S) = h[DOMAIN seq]
  BY Zenon DEF Kept, FoldLeft, MapThenFoldSet
<1> HIDE DEF h, f
<1>9. \A s \in SUBSET (1 .. n) : h[s] = IF s = {} THEN <<>> ELSE op(h[s \ {Max(s)}], seq[Max(s)])
  <2> HIDE DEF op
  <2> QED BY <1>1, <1>7
<1>10. 1 .. 0 = {} /\ {} \in SUBSET (1 .. n) /\ h[{}] = <<>>
  <2>1. 1 .. 0 = {} /\ {} \in SUBSET (1 .. n)
    BY <1>1
  <2> HIDE DEF op
  <2> QED BY <1>9, <2>1
<1> DEFINE H == [k \in 0 .. n |-> h[1 .. k]]
<1>11. \A k \in 1 .. n : H[k] = op(H[k - 1], seq[k])
  <2> SUFFICES ASSUME NEW k \in 1 .. n PROVE H[k] = op(H[k - 1], seq[k])
    OBVIOUS
  <2>1. k \in 0 .. n /\ k - 1 \in 0 .. n
    BY <1>1
  <2>2. H[k] = h[1 .. k] /\ H[k - 1] = h[1 .. (k - 1)]
    BY <2>1
  <2>3. h[1 .. k] = op(h[1 .. (k - 1)], seq[k])
    <3> HIDE DEF op, H
    <3>1. /\ 1 .. k \in SUBSET (1 .. n) /\ 1 .. k # {}
          /\ Max(1 .. k) = k /\ (1 .. k) \ {Max(1 .. k)} = 1 .. (k - 1)
      BY <1>1, FirstPositions
    <3> QED BY <1>9, <3>1
  <2> HIDE DEF H, op
  <2> QED BY <2>2, <2>3
<1>12. H[0] = <<>> /\ H[n] = h[1 .. n]
  BY <1>1, <1>10
<1>h. H = [k \in 0 .. n |-> H[k]]
  OBVIOUS
<1> HIDE DEF H
<1>13. \A k \in 0 .. n : H[k] \in A
  <2> DEFINE G == {k \in 0 .. n : H[k] \in A}
  <2>1. 0 \in G
    <3>1. 0 \in 0 .. n /\ H[0] \in A
      BY <1>1, <1>3, <1>12
    <3> HIDE DEF n, A
    <3> QED BY <3>1
  <2>2. ASSUME NEW k \in 0 .. n - 1, k \in G PROVE k + 1 \in G
    <3>1. k + 1 \in 1 .. n /\ k + 1 \in 0 .. n /\ (k + 1) - 1 = k
      BY <1>1
    <3>2. H[k] \in A
      BY <2>2
    <3> HIDE DEF op, A, H
    <3> QED BY <1>2, <1>11, <3>1, <3>2
  <2> HIDE DEF G
  <2>3. \A k \in 0 .. n : k \in G
    BY <1>1, <2>1, <2>2, UpTo
  <2> QED BY <2>3 DEF G
<1>14. H \in [0 .. n -> A]
  BY <1>h, <1>13
<1>15. KeptRun(T, seq, S, H)
  BY <1>1, <1>8, <1>11, <1>12, <1>14 DEF KeptRun
<1> QED BY <1>15


LEMMA KeptIs ==
  ASSUME NEW T, NEW seq \in Seq(T), NEW S
  PROVE  /\ Kept(seq, S) \in Seq(T) /\ ToSet(Kept(seq, S)) = ToSet(seq) \cap S
         /\ NoDups(seq) => NoDups(Kept(seq, S))
<1> DEFINE n == Len(seq)
<1>a. PICK g : KeptRun(T, seq, S, g)
  BY KeptSteps
<1>1. /\ g \in [0 .. n -> Seq(T)] /\ g[0] = <<>> /\ Kept(seq, S) = g[n]
  BY <1>a DEF KeptRun
<1>b. \A k \in 1 .. n : /\ seq[k] \in S => g[k] = Append(g[k - 1], seq[k])
                        /\ seq[k] \notin S => g[k] = g[k - 1]
  BY <1>a DEF KeptRun
<1>2. n \in Nat /\ DOMAIN seq = 1 .. n /\ \A i \in 1 .. n : seq[i] \in T
  OBVIOUS
<1> DEFINE Members(k) == {seq[i] : i \in {i \in 1 .. k : seq[i] \in S}}
           Says(k) == /\ \A i \in 1 .. Len(g[k]) : g[k][i] \in Members(k)
                      /\ \A x \in Members(k) : \E i \in 1 .. Len(g[k]) : g[k][i] = x
                      /\ NoDups(seq) => NoDups(g[k])
           G == {k \in 0 .. n : Says(k)}
<1> HIDE DEF n
<1>3. 0 \in G
  <2>1. Len(g[0]) = 0 /\ DOMAIN g[0] = {} /\ 1 .. 0 = {} /\ 0 \in 0 .. n
    BY <1>1, <1>2
  <2> QED BY <2>1 DEF NoDups
<1>4. ASSUME NEW k \in 0 .. n - 1, k \in G PROVE k + 1 \in G
  <2>1. k + 1 \in 1 .. n /\ k + 1 \in 0 .. n /\ k \in 0 .. n /\ (k + 1) - 1 = k
    BY <1>2
  <2>2. g[k] \in Seq(T) /\ seq[k + 1] \in T
    BY <1>1, <1>2, <2>1
  <2>3. /\ seq[k + 1] \in S => g[k + 1] = Append(g[k], seq[k + 1])
        /\ seq[k + 1] \notin S => g[k + 1] = g[k]
    <3>1. \A j : \A m \in 1 .. n : m - 1 = j =>
            /\ seq[m] \in S => g[m] = Append(g[j], seq[m])
            /\ seq[m] \notin S => g[m] = g[j]
      BY <1>b
    <3> QED BY <2>1, <3>1
  <2>4. Says(k)
    BY <1>4
  <2>a. /\ \A i \in 1 .. k + 1 : i \in 1 .. k \/ i = k + 1
        /\ k + 1 \in 1 .. k + 1 /\ \A i \in 1 .. k : i \in 1 .. k + 1
    BY <2>1
  <2> DEFINE m1 == k + 1
  <2>5. /\ seq[m1] \notin S => Members(m1) = Members(k)
        /\ seq[m1] \in S => Members(m1) = Members(k) \cup {seq[m1]}
    <3>1. \A i \in 1 .. m1 : i \in 1 .. k \/ i = m1
      BY <2>a
    <3>2. m1 \in 1 .. m1 /\ \A i \in 1 .. k : i \in 1 .. m1
      BY <2>a
    <3> HIDE DEF m1
    <3>3. seq[m1] \notin S => Members(m1) = Members(k)
      BY <3>1, <3>2
    <3>4. seq[m1] \in S => Members(m1) = Members(k) \cup {seq[m1]}
      BY <3>1, <3>2
    <3> QED BY <3>3, <3>4
  <2>6. CASE seq[k + 1] \notin S
    <3>1. g[k + 1] = g[k] /\ Members(k + 1) = Members(k)
      BY <2>3, <2>5, <2>6 DEF m1
    <3> HIDE DEF Members
    <3> QED BY <2>1, <2>4, <3>1
  <2>7. CASE seq[k + 1] \in S
    <3> DEFINE u == g[k]
               x == seq[k + 1]
               w == Append(u, x)
    <3>1. /\ w \in Seq(T) /\ Len(w) = Len(u) + 1 /\ \A i \in 1 .. Len(u) : w[i] = u[i]
          /\ w[Len(u) + 1] = x /\ u \in Seq(T) /\ Len(u) \in Nat
      BY <2>2, AppendFacts
    <3>2. g[k + 1] = w /\ Members(k + 1) = Members(k) \cup {x}
      BY <2>3, <2>5, <2>7 DEF m1
    <3>3. /\ \A i \in 1 .. Len(u) : u[i] \in Members(k)
          /\ \A y \in Members(k) : \E i \in 1 .. Len(u) : u[i] = y
          /\ NoDups(seq) => NoDups(u)
      BY <2>4
    <3>4. NoDups(seq) => x \notin Members(k)
      <4> SUFFICES ASSUME NoDups(seq), x \in Members(k) PROVE FALSE
        OBVIOUS
      <4>1. PICK i \in 1 .. k : seq[i] = seq[k + 1]
        OBVIOUS
      <4>2. i \in 1 .. n /\ i # k + 1
        BY <1>2, <2>1
      <4>3. i \in DOMAIN seq /\ k + 1 \in DOMAIN seq
        BY <1>2, <2>1, <4>2
      <4>4. \A a, b \in DOMAIN seq : seq[a] = seq[b] => a = b
        BY DEF NoDups
      <4> QED BY ONLY <4>1, <4>2, <4>3, <4>4
    <3> HIDE DEF Members, w, x, u
    <3>5. \A i \in 1 .. Len(w) : i \in 1 .. Len(u) \/ i = Len(u) + 1
      BY <3>1
    <3>6. \A i \in 1 .. Len(w) : w[i] \in Members(k + 1)
      BY <3>1, <3>2, <3>3, <3>5
    <3>7. \A y \in Members(k + 1) : \E i \in 1 .. Len(w) : w[i] = y
      <4>1. Len(u) + 1 \in 1 .. Len(w) /\ \A i \in 1 .. Len(u) : i \in 1 .. Len(w)
        BY <3>1
      <4> QED BY <3>1, <3>2, <3>3, <4>1
    <3>8. NoDups(seq) => NoDups(w)
      <4> SUFFICES ASSUME NoDups(seq), NEW i \in 1 .. Len(w), NEW j \in 1 .. Len(w), w[i] = w[j]
                   PROVE i = j
        <5>1. DOMAIN w = 1 .. Len(w)
          BY <3>1
        <5> QED BY <5>1 DEF NoDups
      <4>1. DOMAIN u = 1 .. Len(u)
        BY <3>1
      <4>2. \A m \in 1 .. Len(u) : w[m] # x
        BY <3>1, <3>3, <3>4
      <4> QED BY <3>1, <3>3, <3>5, <4>1, <4>2 DEF NoDups
    <3> QED BY <2>1, <3>2, <3>6, <3>7, <3>8
  <2> QED BY <2>6, <2>7
<1>5. n \in G
  <2> HIDE DEF G
  <2>1. n \in 0 .. n
    BY <1>2
  <2> QED BY <1>2, <1>3, <1>4, <2>1, UpTo
<1> DEFINE kept == Kept(seq, S)
<1>6. kept \in Seq(T) /\ kept = g[n]
  <2>1. n \in 0 .. n
    BY <1>2
  <2> QED BY <1>1, <2>1
<1> HIDE DEF kept
<1>7. DOMAIN kept = 1 .. Len(kept)
  BY <1>6
<1>8. Says(n)
  BY <1>5
<1>9. ToSet(kept) = ToSet(seq) \cap S
  <2>1. ToSet(kept) = {kept[i] : i \in 1 .. Len(kept)}
    BY <1>7 DEF ToSet
  <2>2. ToSet(kept) = Members(n)
    <3> HIDE DEF Members
    <3> QED BY <1>6, <1>8, <2>1
  <2>3. ToSet(seq) = {seq[i] : i \in 1 .. n}
    BY <1>2 DEF ToSet
  <2> QED BY <2>2, <2>3
<1> QED BY <1>6, <1>8, <1>9 DEF kept

\* What there is from a position on.
Rest(s, i) == {s[j] : j \in i .. Len(s)}

LEMMA RestFacts ==
  ASSUME NEW s \in Seq(Nat), Ascending(s)
  PROVE  /\ ToSet(s) = Rest(s, 1)
         /\ \A i \in Nat : i > Len(s) => Rest(s, i) = {}
         /\ \A i \in 1 .. Len(s) : /\ s[i] \in Nat /\ Rest(s, i) = {s[i]} \cup Rest(s, i + 1)
                                   /\ \A x \in Rest(s, i + 1) : x \in Nat /\ s[i] < x
<1>1. Len(s) \in Nat /\ DOMAIN s = 1 .. Len(s) /\ \A i \in 1 .. Len(s) : s[i] \in Nat
  OBVIOUS
<1>2. ToSet(s) = Rest(s, 1)
  BY <1>1 DEF ToSet, Rest
<1>3. ASSUME NEW i \in Nat, i > Len(s) PROVE Rest(s, i) = {}
  <2>1. i .. Len(s) = {}
    BY <1>1, <1>3
  <2> QED BY <2>1 DEF Rest
<1>4. ASSUME NEW i \in 1 .. Len(s)
      PROVE  /\ s[i] \in Nat /\ Rest(s, i) = {s[i]} \cup Rest(s, i + 1)
             /\ \A x \in Rest(s, i + 1) : x \in Nat /\ s[i] < x
  <2>1. \A j \in i .. Len(s) : j = i \/ j \in i + 1 .. Len(s)
    BY <1>1
  <2>2. i \in i .. Len(s) /\ \A j \in i + 1 .. Len(s) : j \in i .. Len(s) /\ j \in 1 .. Len(s) /\ i < j
    BY <1>1
  <2>3. Rest(s, i) = {s[i]} \cup Rest(s, i + 1)
    <3> DEFINE i1 == i + 1
    <3> HIDE DEF i1
    <3>1. /\ \A j \in i .. Len(s) : j = i \/ j \in i1 .. Len(s)
          /\ i \in i .. Len(s) /\ \A j \in i1 .. Len(s) : j \in i .. Len(s)
      BY <2>1, <2>2 DEF i1
    <3>2. Rest(s, i) = {s[i]} \cup Rest(s, i1)
      BY <3>1 DEF Rest
    <3> QED BY <3>2 DEF i1
  <2>4. \A j \in i + 1 .. Len(s) : s[j] \in Nat /\ s[i] < s[j]
    BY <1>1, <2>2 DEF Ascending
  <2>5. \A x \in Rest(s, i + 1) : x \in Nat /\ s[i] < x
    BY <2>4 DEF Rest
  <2> QED BY <1>1, <2>3, <2>5
<1> QED BY <1>2, <1>3, <1>4

\* What the two arrays have in common from two positions on.
Common(a, b, p) == Rest(a, p[1]) \cap Rest(b, p[2])
MatchStep(a, b, from, p) ==
  LET i == p[1]
      j == p[2]
  IN IF i > Len(a) \/ j > Len(b) THEN {}
     ELSE IF a[i] < b[j] THEN from[<<i + 1, j>>]
     ELSE IF b[j] < a[i] THEN from[<<i, j + 1>>]
     ELSE {a[i]} \cup from[<<i + 1, j + 1>>]

LEMMA CommonStep ==
  ASSUME NEW a \in Seq(Nat), Ascending(a), NEW b \in Seq(Nat), Ascending(b),
         NEW i \in 1 .. Len(a) + 1, NEW j \in 1 .. Len(b) + 1
  PROVE  /\ i > Len(a) \/ j > Len(b) => Common(a, b, <<i, j>>) = {}
         /\ i <= Len(a) /\ j <= Len(b) =>
              /\ a[i] < b[j] => Common(a, b, <<i, j>>) = Common(a, b, <<i + 1, j>>)
              /\ b[j] < a[i] => Common(a, b, <<i, j>>) = Common(a, b, <<i, j + 1>>)
              /\ ~ (a[i] < b[j]) /\ ~ (b[j] < a[i]) =>
                   Common(a, b, <<i, j>>) = {a[i]} \cup Common(a, b, <<i + 1, j + 1>>)
<1>1. Len(a) \in Nat /\ Len(b) \in Nat /\ i \in Nat /\ j \in Nat
  OBVIOUS
<1>2. \A x, y : Common(a, b, <<x, y>>) = Rest(a, x) \cap Rest(b, y)
  BY DEF Common
<1>3. CASE i > Len(a) \/ j > Len(b)
  <2>1. Rest(a, i) = {} \/ Rest(b, j) = {}
    BY <1>1, <1>3, RestFacts
  <2> QED BY <1>1, <1>2, <1>3, <2>1
<1>4. CASE i <= Len(a) /\ j <= Len(b)
  <2>1. i \in 1 .. Len(a) /\ j \in 1 .. Len(b)
    BY <1>1, <1>4
  <2> DEFINE A1 == Rest(a, i + 1)
             B1 == Rest(b, j + 1)
  <2>2. /\ a[i] \in Nat /\ Rest(a, i) = {a[i]} \cup A1
        /\ \A x \in A1 : x \in Nat /\ a[i] < x
    BY <2>1, RestFacts
  <2>3. /\ b[j] \in Nat /\ Rest(b, j) = {b[j]} \cup B1
        /\ \A x \in B1 : x \in Nat /\ b[j] < x
    BY <2>1, RestFacts
  <2>4. /\ Common(a, b, <<i, j>>) = ({a[i]} \cup A1) \cap ({b[j]} \cup B1)
        /\ Common(a, b, <<i + 1, j>>) = A1 \cap ({b[j]} \cup B1)
        /\ Common(a, b, <<i, j + 1>>) = ({a[i]} \cup A1) \cap B1
        /\ Common(a, b, <<i + 1, j + 1>>) = A1 \cap B1
    BY <1>2, <2>2, <2>3
  <2> DEFINE u == a[i]
             v == b[j]
  <2> HIDE DEF A1, B1, u, v
  <2>5. /\ u \in Nat /\ v \in Nat /\ \A x \in A1 : x \in Nat /\ u < x
        /\ \A x \in B1 : x \in Nat /\ v < x
    BY <2>2, <2>3 DEF u, v
  <2>6. ASSUME u < v PROVE ({u} \cup A1) \cap ({v} \cup B1) = A1 \cap ({v} \cup B1)
    <3>1. u # v /\ u \notin B1
      BY <2>5, <2>6
    <3> QED BY <3>1
  <2>7. ASSUME v < u PROVE ({u} \cup A1) \cap ({v} \cup B1) = ({u} \cup A1) \cap B1
    <3>1. u # v /\ v \notin A1
      BY <2>5, <2>7
    <3> QED BY <3>1
  <2>8. ASSUME ~ (u < v), ~ (v < u) PROVE ({u} \cup A1) \cap ({v} \cup B1) = {u} \cup (A1 \cap B1)
    <3>1. u = v /\ u \notin A1 /\ u \notin B1
      BY <2>5, <2>8
    <3> QED BY <3>1
  <2>9. /\ u < v => Common(a, b, <<i, j>>) = Common(a, b, <<i + 1, j>>)
        /\ v < u => Common(a, b, <<i, j>>) = Common(a, b, <<i, j + 1>>)
        /\ ~ (u < v) /\ ~ (v < u) =>
              Common(a, b, <<i, j>>) = {u} \cup Common(a, b, <<i + 1, j + 1>>)
    BY <2>4, <2>6, <2>7, <2>8 DEF u, v
  <2>10. /\ a[i] < b[j] => Common(a, b, <<i, j>>) = Common(a, b, <<i + 1, j>>)
         /\ b[j] < a[i] => Common(a, b, <<i, j>>) = Common(a, b, <<i, j + 1>>)
         /\ ~ (a[i] < b[j]) /\ ~ (b[j] < a[i]) =>
              Common(a, b, <<i, j>>) = {a[i]} \cup Common(a, b, <<i + 1, j + 1>>)
    BY <2>9 DEF u, v
  <2>11. ~ (i > Len(a) \/ j > Len(b))
    BY <1>1, <1>4
  <2> QED BY <2>10, <2>11
<1>5. (i > Len(a) \/ j > Len(b)) \/ (i <= Len(a) /\ j <= Len(b))
  BY <1>1
<1> QED BY <1>3, <1>4, <1>5

LEMMA MatchedIs ==
  ASSUME NEW a \in Seq(Nat), Ascending(a), NEW b \in Seq(Nat), Ascending(b)
  PROVE  Matched(a, b) = ToSet(a) \cap ToSet(b)
<1> DEFINE m == Len(a)
           k == Len(b)
           D == (1 .. m + 1) \X (1 .. k + 1)
           R(f) == f = [p \in D |-> MatchStep(a, b, f, p)]
           h == CHOOSE f : R(f)
           G == [p \in D |-> Common(a, b, p)]
<1>1. m \in Nat /\ k \in Nat
  OBVIOUS
<1>2. \A p \in D : p = <<p[1], p[2]>> /\ p[1] \in 1 .. m + 1 /\ p[2] \in 1 .. k + 1
  OBVIOUS
<1>3. Matched(a, b) = h[<<1, 1>>]
  BY Zenon DEF Matched, MatchStep
<1>4. \A p \in D : G[p] = MatchStep(a, b, G, p)
  <2> SUFFICES ASSUME NEW i \in 1 .. m + 1, NEW j \in 1 .. k + 1
               PROVE G[<<i, j>>] = MatchStep(a, b, G, <<i, j>>)
    BY <1>2
  <2>1. G[<<i, j>>] = Common(a, b, <<i, j>>)
    OBVIOUS
  <2>2. /\ i <= m => <<i + 1, j>> \in D
        /\ j <= k => <<i, j + 1>> \in D
        /\ i <= m /\ j <= k => <<i + 1, j + 1>> \in D
    BY <1>1
  <2>3. /\ i <= m => G[<<i + 1, j>>] = Common(a, b, <<i + 1, j>>)
        /\ j <= k => G[<<i, j + 1>>] = Common(a, b, <<i, j + 1>>)
        /\ i <= m /\ j <= k => G[<<i + 1, j + 1>>] = Common(a, b, <<i + 1, j + 1>>)
    BY <2>2
  <2>4. /\ i > m \/ j > k => Common(a, b, <<i, j>>) = {}
        /\ i <= m /\ j <= k =>
             /\ a[i] < b[j] => Common(a, b, <<i, j>>) = Common(a, b, <<i + 1, j>>)
             /\ b[j] < a[i] => Common(a, b, <<i, j>>) = Common(a, b, <<i, j + 1>>)
             /\ ~ (a[i] < b[j]) /\ ~ (b[j] < a[i]) =>
                  Common(a, b, <<i, j>>) = {a[i]} \cup Common(a, b, <<i + 1, j + 1>>)
    BY CommonStep
  <2>5. ~ (i > m \/ j > k) => i <= m /\ j <= k
    BY <1>1
  <2> HIDE DEF G, m, k
  <2> QED BY <2>1, <2>3, <2>4, <2>5 DEF MatchStep, m, k
<1>5. R(G)
  <2> DEFINE g == G
  <2>1. g = [p \in D |-> g[p]]
    OBVIOUS
  <2>2. \A p \in D : g[p] = MatchStep(a, b, g, p)
    BY <1>4
  <2> HIDE DEF g
  <2>3. R(g)
    BY <2>1, <2>2
  <2> QED BY <2>3 DEF g
<1>6. R(h)
  <2> HIDE DEF R, G
  <2> QED BY <1>5
<1> HIDE DEF h
<1>7. \A p \in D : h[p] = MatchStep(a, b, h, p)
  BY <1>6
<1> DEFINE Left(p) == (m + 1 - p[1]) + (k + 1 - p[2])
           Says(d) == \A p \in D : Left(p) <= d => h[p] = Common(a, b, p)
           H == {d \in 0 .. m + k : Says(d)}
<1>8. 0 \in H
  <2> SUFFICES ASSUME NEW i \in 1 .. m + 1, NEW j \in 1 .. k + 1, Left(<<i, j>>) <= 0
               PROVE h[<<i, j>>] = Common(a, b, <<i, j>>)
    <3>1. 0 \in 0 .. m + k
      BY <1>1
    <3> HIDE DEF Left
    <3> QED BY <1>2, <3>1
  <2>1. i > m
    BY <1>1
  <2>2. h[<<i, j>>] = MatchStep(a, b, h, <<i, j>>)
    BY <1>7
  <2>3. h[<<i, j>>] = {}
    BY <2>1, <2>2 DEF MatchStep
  <2>4. Common(a, b, <<i, j>>) = {}
    BY <2>1, CommonStep
  <2> QED BY <2>3, <2>4
<1>9. ASSUME NEW d \in 0 .. (m + k) - 1, d \in H PROVE d + 1 \in H
  <2>1. d + 1 \in 0 .. m + k /\ Says(d)
    BY <1>1, <1>9
  <2> SUFFICES ASSUME NEW i \in 1 .. m + 1, NEW j \in 1 .. k + 1, Left(<<i, j>>) <= d + 1
               PROVE h[<<i, j>>] = Common(a, b, <<i, j>>)
    <3> HIDE DEF Left
    <3> QED BY <1>2, <2>1
  <2>2. h[<<i, j>>] = MatchStep(a, b, h, <<i, j>>)
    BY <1>7
  <2>3. /\ i <= m => <<i + 1, j>> \in D /\ Left(<<i + 1, j>>) <= d
        /\ j <= k => <<i, j + 1>> \in D /\ Left(<<i, j + 1>>) <= d
        /\ i <= m /\ j <= k => <<i + 1, j + 1>> \in D /\ Left(<<i + 1, j + 1>>) <= d
    <3>1. /\ i <= m => i + 1 \in 1 .. m + 1
          /\ j <= k => j + 1 \in 1 .. k + 1
      BY <1>1
    <3>2. (m + 1 - i) + (k + 1 - j) <= d + 1
      OBVIOUS
    <3>3. /\ (m + 1 - (i + 1)) + (k + 1 - j) <= d
          /\ (m + 1 - i) + (k + 1 - (j + 1)) <= d
          /\ (m + 1 - (i + 1)) + (k + 1 - (j + 1)) <= d
      BY <1>1, <3>2
    <3> QED BY <3>1, <3>3
  <2>4. /\ i <= m => h[<<i + 1, j>>] = Common(a, b, <<i + 1, j>>)
        /\ j <= k => h[<<i, j + 1>>] = Common(a, b, <<i, j + 1>>)
        /\ i <= m /\ j <= k => h[<<i + 1, j + 1>>] = Common(a, b, <<i + 1, j + 1>>)
    <3> HIDE DEF D, Left, m, k
    <3> QED BY <2>1, <2>3
  <2>5. /\ i > m \/ j > k => Common(a, b, <<i, j>>) = {}
        /\ i <= m /\ j <= k =>
             /\ a[i] < b[j] => Common(a, b, <<i, j>>) = Common(a, b, <<i + 1, j>>)
             /\ b[j] < a[i] => Common(a, b, <<i, j>>) = Common(a, b, <<i, j + 1>>)
             /\ ~ (a[i] < b[j]) /\ ~ (b[j] < a[i]) =>
                  Common(a, b, <<i, j>>) = {a[i]} \cup Common(a, b, <<i + 1, j + 1>>)
    BY CommonStep
  <2>6. ~ (i > m \/ j > k) => i <= m /\ j <= k
    BY <1>1
  <2> HIDE DEF m, k, Left, D
  <2> QED BY <2>2, <2>4, <2>5, <2>6 DEF MatchStep, m, k
<1>10. m + k \in H
  <2> HIDE DEF H
  <2>1. m + k \in Nat /\ m + k \in 0 .. m + k
    BY <1>1
  <2> DEFINE n == m + k
  <2>2. n \in Nat /\ 0 \in H /\ \A d \in 0 .. n - 1 : d \in H => d + 1 \in H
    BY <1>8, <1>9, <2>1
  <2> HIDE DEF n
  <2>3. \A d \in 0 .. n : d \in H
    BY <2>2, UpTo
  <2> QED BY <2>1, <2>3 DEF n
<1>11. <<1, 1>> \in D /\ Left(<<1, 1>>) <= m + k
  BY <1>1
<1>12. h[<<1, 1>>] = Common(a, b, <<1, 1>>)
  <2> HIDE DEF D, Left
  <2> QED BY <1>10, <1>11
<1> QED BY <1>3, <1>12, RestFacts DEF Common

-----------------------------------------------------------------------------

\* n-grams of a string, and the tries they are counted in.

\* g stands in v from position i on.
StandsAt(g, v, i) ==
  /\ i \in Nat \ {0} /\ i + Len(g) - 1 <= Len(v)
  /\ \A k \in 1 .. Len(g) : g[k] = v[i + k - 1]

LEMMA SubSeqFacts ==
  ASSUME NEW L, NEW v \in Seq(L), NEW i \in 1 .. Len(v), NEW j \in 1 .. Len(v), i <= j
  PROVE  /\ SubSeq(v, i, j) \in Seq(L) /\ Len(SubSeq(v, i, j)) = j - i + 1
         /\ \A k \in 1 .. j - i + 1 : SubSeq(v, i, j)[k] = v[i + k - 1]
OBVIOUS

LEMMA NgramsSay ==
  ASSUME NEW L, NEW lattice \in SUBSET Seq(L), NEW order \in Nat, NEW g
  PROVE  g \in NgramsOf(lattice, order) <=>
           g \in Seq(L) /\ Len(g) \in 1 .. order /\ \E v \in lattice, i \in Nat : StandsAt(g, v, i)
<1>1. ASSUME g \in NgramsOf(lattice, order)
      PROVE  g \in Seq(L) /\ Len(g) \in 1 .. order /\ \E v \in lattice, i \in Nat : StandsAt(g, v, i)
  <2>1. PICK v \in lattice : \E i, j \in DOMAIN v : g = SubSeq(v, i, j)
    BY <1>1 DEF NgramsOf
  <2>2. PICK i, j \in DOMAIN v : g = SubSeq(v, i, j)
    BY <2>1
  <2>3. v \in Seq(L) /\ i \in 1 .. Len(v) /\ j \in 1 .. Len(v) /\ Len(v) \in Nat
    OBVIOUS
  <2>4. Len(g) \in 1 .. order
    BY <1>1 DEF NgramsOf
  <2>5. i <= j
    <3> SUFFICES ASSUME ~ (i <= j) PROVE FALSE
      OBVIOUS
    <3>1. SubSeq(v, i, j) = <<>>
      BY <2>3
    <3>2. Len(g) = 0
      BY <2>2, <3>1
    <3> QED BY <2>4, <3>2
  <2>6. /\ SubSeq(v, i, j) \in Seq(L) /\ Len(SubSeq(v, i, j)) = j - i + 1
        /\ \A k \in 1 .. j - i + 1 : SubSeq(v, i, j)[k] = v[i + k - 1]
    BY <2>3, <2>5, SubSeqFacts
  <2>7. StandsAt(g, v, i)
    <3>1. Len(g) = j - i + 1 /\ \A k \in 1 .. Len(g) : g[k] = v[i + k - 1]
      BY <2>2, <2>6
    <3>2. i \in Nat \ {0} /\ i + (j - i + 1) - 1 <= Len(v)
      BY <2>3
    <3> QED BY <3>1, <3>2 DEF StandsAt
  <2>8. i \in Nat
    BY <2>3
  <2> QED BY <2>2, <2>4, <2>6, <2>7, <2>8
<1>2. ASSUME g \in Seq(L), Len(g) \in 1 .. order, NEW v \in lattice, NEW i \in Nat, StandsAt(g, v, i)
      PROVE  g \in NgramsOf(lattice, order)
  <2>1. v \in Seq(L) /\ Len(v) \in Nat /\ DOMAIN v = 1 .. Len(v)
    OBVIOUS
  <2> DEFINE j == i + Len(g) - 1
  <2>2. i \in 1 .. Len(v) /\ j \in 1 .. Len(v) /\ i <= j /\ j - i + 1 = Len(g)
    BY <1>2, <2>1 DEF StandsAt
  <2> HIDE DEF j
  <2>3. /\ SubSeq(v, i, j) \in Seq(L) /\ Len(SubSeq(v, i, j)) = j - i + 1
        /\ \A k \in 1 .. j - i + 1 : SubSeq(v, i, j)[k] = v[i + k - 1]
    BY <2>1, <2>2, SubSeqFacts
  <2>4. \A k \in 1 .. Len(g) : g[k] = v[i + k - 1]
    BY <1>2 DEF StandsAt
  <2> DEFINE s == SubSeq(v, i, j)
  <2>5. s \in Seq(L) /\ Len(s) = Len(g) /\ \A k \in 1 .. Len(g) : s[k] = g[k]
    BY <2>2, <2>3, <2>4
  <2> HIDE DEF s
  <2>6. s = g
    BY <1>2, <2>5, SameSequence
  <2>7. g \in {SubSeq(v, a, b) : a, b \in DOMAIN v}
    <3>1. i \in DOMAIN v /\ j \in DOMAIN v
      BY <2>1, <2>2
    <3>2. g = SubSeq(v, i, j)
      BY <2>6 DEF s
    <3> DEFINE piece(a, b) == SubSeq(v, a, b)
    <3>3. g = piece(i, j)
      BY <3>2
    <3> HIDE DEF piece
    <3>4. g \in {piece(a, b) : a, b \in DOMAIN v}
      BY ONLY <3>1, <3>3
    <3> QED BY <3>4 DEF piece
  <2> QED BY <1>2, <2>7 DEF NgramsOf
<1> QED BY <1>1, <1>2

\* The n-grams of some strings have their beginnings and endings among them, and
\* go on as the string does.
LEMMA NgramsClosed ==
  ASSUME NEW L, NEW lattice \in SUBSET Seq(L), NEW order \in Nat, NEW g \in NgramsOf(lattice, order)
  PROVE  /\ Len(g) > 1 => Front(g) \in NgramsOf(lattice, order) /\ Tail(g) \in NgramsOf(lattice, order)
         /\ \A v \in lattice, i \in Nat :
              StandsAt(g, v, i) /\ Len(g) < order /\ i + Len(g) <= Len(v) =>
                v[i + Len(g)] \in L /\ Append(g, v[i + Len(g)]) \in NgramsOf(lattice, order)
<1>1. g \in Seq(L) /\ Len(g) \in 1 .. order
  BY NgramsSay
<1>2. PICK v \in lattice, i \in Nat : StandsAt(g, v, i)
  BY NgramsSay
<1>3. v \in Seq(L) /\ Len(v) \in Nat
  OBVIOUS
<1>4. ASSUME Len(g) > 1 PROVE Front(g) \in NgramsOf(lattice, order)
  <2> DEFINE f == Front(g)
  <2>1. f \in Seq(L) /\ Len(f) = Len(g) - 1 /\ \A k \in 1 .. Len(g) - 1 : f[k] = g[k]
    <3>1. g # <<>>
      BY <1>1
    <3> QED BY <1>1, <3>1, FrontFacts
  <2> HIDE DEF f
  <2>2. Len(f) \in 1 .. order
    BY <1>1, <1>4, <2>1
  <2>3. StandsAt(f, v, i)
    BY <1>1, <1>2, <1>3, <2>1 DEF StandsAt
  <2> QED BY <2>1, <2>2, <2>3, NgramsSay DEF f
<1>5. ASSUME Len(g) > 1 PROVE Tail(g) \in NgramsOf(lattice, order)
  <2> DEFINE f == Tail(g)
  <2>1. f \in Seq(L) /\ Len(f) = Len(g) - 1
    BY <1>1, <1>5
  <2>a. \A k \in 1 .. Len(g) - 1 : f[k] = g[k + 1]
    BY <1>1, <1>5
  <2> HIDE DEF f
  <2>2. Len(f) \in 1 .. order
    BY <1>1, <1>5, <2>1
  <2>3. StandsAt(f, v, i + 1)
    <3>1. i \in Nat \ {0} /\ i + Len(g) - 1 <= Len(v) /\ \A k \in 1 .. Len(g) : g[k] = v[i + k - 1]
      BY <1>2 DEF StandsAt
    <3>2. i + 1 \in Nat \ {0} /\ (i + 1) + Len(f) - 1 <= Len(v)
      BY <1>1, <1>3, <2>1, <3>1
    <3>3. ASSUME NEW k \in 1 .. Len(f) PROVE f[k] = v[(i + 1) + k - 1]
      <4>1. k \in 1 .. Len(g) - 1 /\ k + 1 \in 1 .. Len(g) /\ (i + 1) + k - 1 = i + (k + 1) - 1
        BY <1>1, <2>1
      <4>2. g[k + 1] = v[i + (k + 1) - 1]
        BY <3>1, <4>1
      <4> QED BY <2>a, <4>1, <4>2
    <3> QED BY <3>2, <3>3 DEF StandsAt
  <2>4. \E w \in lattice, m \in Nat : StandsAt(f, w, m)
    <3>1. i + 1 \in Nat
      OBVIOUS
    <3> QED BY <2>3, <3>1
  <2>5. f \in NgramsOf(lattice, order)
    BY <2>1, <2>2, <2>4, NgramsSay
  <2> QED BY <2>5 DEF f
<1>6. ASSUME NEW w \in lattice, NEW m \in Nat, StandsAt(g, w, m), Len(g) < order, m + Len(g) <= Len(w)
      PROVE w[m + Len(g)] \in L /\ Append(g, w[m + Len(g)]) \in NgramsOf(lattice, order)
  <2>1. w \in Seq(L) /\ Len(w) \in Nat /\ m + Len(g) \in 1 .. Len(w)
    BY <1>1, <1>6
  <2> DEFINE l == w[m + Len(g)]
             h == Append(g, l)
  <2>2. l \in L
    BY <2>1
  <2>3. h \in Seq(L) /\ Len(h) = Len(g) + 1 /\ (\A k \in 1 .. Len(g) : h[k] = g[k]) /\ h[Len(g) + 1] = l
    BY <1>1, <2>2, AppendFacts
  <2> HIDE DEF h
  <2>4. Len(h) \in 1 .. order
    BY <1>1, <1>6, <2>3
  <2>5. StandsAt(h, w, m)
    <3>1. m \in Nat \ {0} /\ \A k \in 1 .. Len(g) : g[k] = w[m + k - 1]
      BY <1>6 DEF StandsAt
    <3>2. m + Len(h) - 1 <= Len(w)
      BY <1>1, <1>6, <2>1, <2>3
    <3>3. ASSUME NEW k \in 1 .. Len(h) PROVE h[k] = w[m + k - 1]
      <4>1. CASE k \in 1 .. Len(g)
        BY <2>3, <3>1, <4>1
      <4>2. CASE k \notin 1 .. Len(g)
        <5>1. k = Len(g) + 1 /\ m + k - 1 = m + Len(g)
          BY <1>1, <2>3, <4>2
        <5> QED BY <2>3, <5>1
      <4> QED BY <4>1, <4>2
    <3> QED BY <3>1, <3>2, <3>3 DEF StandsAt
  <2> QED BY <2>2, <2>3, <2>4, <2>5, NgramsSay DEF h
<1> QED BY <1>4, <1>5, <1>6

LEMMA NoDupsCount ==
  ASSUME NEW T, NEW s \in Seq(T), NoDups(s)
  PROVE  IsFiniteSet(ToSet(s)) /\ Cardinality(ToSet(s)) = Len(s)
<1>1. Len(s) \in Nat /\ DOMAIN s = 1 .. Len(s) /\ ToSet(s) = {s[i] : i \in 1 .. Len(s)}
  BY DEF ToSet
<1>2. s \in Bijection(1 .. Len(s), ToSet(s))
  BY <1>1 DEF NoDups, Bijection, Injection, Surjection, IsInjective
<1>3. ExistsBijection(1 .. Len(s), ToSet(s))
  BY <1>2 DEF ExistsBijection
<1> QED BY <1>1, <1>3, FS_NatBijection, FS_CountingElements


\* The elements below n form finite sets of natural numbers.
LEMMA SetsOfLabels ==
  ASSUME NEW n \in Nat, NEW S, S \subseteq 1 .. n
  PROVE  S \in SUBSET Nat /\ IsFiniteSet(S)
<1>1. IsFiniteSet(1 .. n)
  BY FS_Interval
<1>2. \A x \in S : x \in Nat
  OBVIOUS
<1>3. S \in SUBSET (1 .. n)
  OBVIOUS
<1>4. IsFiniteSet(S)
  BY <1>1, <1>3, FS_Subset
<1> QED BY <1>2, <1>4

LEMMA SeqOfMore ==
  ASSUME NEW S, NEW T, S \subseteq T, NEW s \in Seq(S)
  PROVE  s \in Seq(T)
<1>1. Len(s) \in Nat /\ s = [i \in 1 .. Len(s) |-> s[i]] /\ \A i \in 1 .. Len(s) : s[i] \in T
  OBVIOUS
<1> QED BY <1>1

LEMMA EmptyFacts ==
  /\ \A T : <<>> \in Seq(T)
  /\ Len(<<>>) = 0 /\ DOMAIN <<>> = {} /\ ToSet(<<>>) = {} /\ NoDups(<<>>) /\ Ascending(<<>>)
<1>1. (\A T : <<>> \in Seq(T)) /\ Len(<<>>) = 0 /\ DOMAIN <<>> = {}
  OBVIOUS
<1> QED BY <1>1 DEF ToSet, NoDups, Ascending

LEMMA LabelsAfterIs ==
  ASSUME NEW n \in Nat, NEW G \in SUBSET Seq(1 .. n), NEW p \in Seq(1 .. n)
  PROVE  /\ LabelsAfter(p, G) \in Seq(1 .. n)
         /\ Ascending(LabelsAfter(p, G)) /\ NoDups(LabelsAfter(p, G))
         /\ ToSet(LabelsAfter(p, G)) = {l \in 1 .. n : Append(p, l) \in G}
<1> DEFINE S == {Last(q) : q \in {q \in G : Len(q) = Len(p) + 1 /\ Front(q) = p}}
           T == {l \in 1 .. n : Append(p, l) \in G}
<1>1. S = T
  <2>1. ASSUME NEW q \in G, Len(q) = Len(p) + 1, Front(q) = p PROVE Last(q) \in T
    <3>1. q \in Seq(1 .. n) /\ q # <<>>
      <4>1. Len(q) # 0
        BY <2>1
      <4> QED BY <4>1
    <3>2. Last(q) \in 1 .. n /\ Append(Front(q), Last(q)) = q
      BY <3>1, FrontFacts
    <3> QED BY <2>1, <3>2
  <2>2. ASSUME NEW l \in T PROVE l \in S
    <3> DEFINE q == Append(p, l)
    <3>1. q \in G /\ Len(q) = Len(p) + 1 /\ Front(q) = p /\ Last(q) = l
      BY AppendFacts
    <3> HIDE DEF q
    <3> QED BY <3>1
  <2> QED BY <2>1, <2>2
<1>2. LabelsAfter(p, G) = Sorted(S)
  BY Zenon DEF LabelsAfter
<1>3. S \in SUBSET Nat /\ IsFiniteSet(S) /\ S \subseteq 1 .. n
  <2>1. T \subseteq 1 .. n
    OBVIOUS
  <2> HIDE DEF S, T
  <2> QED BY <1>1, <2>1, SetsOfLabels
<1> HIDE DEF S, T
<1>4. Sorted(S) \in Seq(S) /\ ToSet(Sorted(S)) = S /\ Ascending(Sorted(S)) /\ NoDups(Sorted(S))
  <2>1. S \in SUBSET Nat /\ IsFiniteSet(S)
    BY <1>3
  <2> QED BY ONLY <2>1, SortedIs
<1>5. Sorted(S) \in Seq(1 .. n)
  BY <1>3, <1>4, SeqOfMore
<1> QED BY <1>1, <1>2, <1>4, <1>5 DEF T

\* A state of a trie, and a trie over the labels 1 .. n.
IsNode(r) == r = [labels |-> r.labels, weight |-> r.weight, final |-> r.final]
IsTrie(t, n) ==
  /\ Root \in DOMAIN t /\ DOMAIN t \subseteq Seq(1 .. n)
  /\ \A p \in DOMAIN t :
       /\ IsNode(t[p]) /\ t[p].labels \in Seq(1 .. n) /\ NoDups(t[p].labels)
       /\ ToSet(t[p].labels) = {l \in 1 .. n : Append(p, l) \in DOMAIN t}
       /\ p # Root => Front(p) \in DOMAIN t
AscendingTrie(t) == \A p \in DOMAIN t : Ascending(t[p].labels)

LEMMA NodeFacts ==
  /\ \A a, b, c : /\ IsNode([labels |-> a, weight |-> b, final |-> c])
                  /\ [labels |-> a, weight |-> b, final |-> c].labels = a
  /\ \A r : IsNode(r) => \E a, b, c : r = [labels |-> a, weight |-> b, final |-> c]
BY DEF IsNode

LEMMA NewLabels ==
  ASSUME NEW r, IsNode(r), NEW u, NEW s, s = [r EXCEPT !.labels = u]
  PROVE  IsNode(s) /\ s.labels = u
<1>1. PICK a, b, c : r = [labels |-> a, weight |-> b, final |-> c]
  BY NodeFacts
<1>2. s = [labels |-> u, weight |-> b, final |-> c]
  BY <1>1
<1> QED BY <1>2, NodeFacts

LEMMA NewWeight ==
  ASSUME NEW r, IsNode(r), NEW u, NEW s, s = [r EXCEPT !.weight = u]
  PROVE  IsNode(s) /\ s.labels = r.labels
<1>1. PICK a, b, c : r = [labels |-> a, weight |-> b, final |-> c]
  BY NodeFacts
<1>2. s = [labels |-> a, weight |-> u, final |-> c]
  BY <1>1
<1> QED BY <1>1, <1>2, NodeFacts

\* A trie is a trie in the sense of the type invariant.
LEMMA TrieIsTyped ==
  ASSUME NEW n \in Nat, IsTrie(trie, n)
  PROVE  CountTypeOK
<1>1. <<>> \in DOMAIN trie
  BY DEF IsTrie, Root
<1>2. ASSUME NEW p \in DOMAIN trie
      PROVE  Cardinality(ToSet(trie[p].labels)) = Len(trie[p].labels)
  BY NoDupsCount DEF IsTrie
<1>3. ASSUME NEW p \in DOMAIN trie, p # <<>> PROVE Last(p) \in ToSet(trie[Front(p)].labels)
  <2>1. p \in Seq(1 .. n) /\ Front(p) \in DOMAIN trie
    BY <1>3 DEF IsTrie, Root
  <2>2. Last(p) \in 1 .. n /\ Append(Front(p), Last(p)) = p
    BY <1>3, <2>1, FrontFacts
  <2>3. ToSet(trie[Front(p)].labels) = {l \in 1 .. n : Append(Front(p), l) \in DOMAIN trie}
    BY <2>1 DEF IsTrie
  <2> QED BY <2>2, <2>3
<1> QED BY <1>1, <1>2, <1>3 DEF CountTypeOK

LEMMA NoTrieIsTrie ==
  ASSUME NEW n \in Nat
  PROVE  IsTrie(NoTrie, n) /\ AscendingTrie(NoTrie) /\ DOMAIN NoTrie = {Root}
<1>1. DOMAIN NoTrie = {Root} /\ NoTrie[Root] = [labels |-> <<>>, weight |-> One, final |-> Zero]
  BY DEF NoTrie, Root
<1>2. IsNode(NoTrie[Root]) /\ NoTrie[Root].labels = <<>>
  BY <1>1 DEF IsNode
<1>3. <<>> \in Seq(1 .. n) /\ DOMAIN <<>> = {} /\ ToSet(<<>>) = {}
  BY DEF ToSet
<1>4. NoDups(<<>>) /\ Ascending(<<>>)
  BY <1>3 DEF NoDups, Ascending
<1>5. {l \in 1 .. n : Append(Root, l) \in {Root}} = {}
  <2>1. \A l \in 1 .. n : Append(Root, l) # <<>>
    BY <1>3, AppendFacts DEF Root
  <2> QED BY <2>1 DEF Root
<1>6. IsTrie(NoTrie, n)
  BY <1>1, <1>2, <1>3, <1>4, <1>5 DEF IsTrie, Root
<1>7. AscendingTrie(NoTrie)
  BY <1>1, <1>2, <1>4 DEF AscendingTrie
<1> QED BY <1>1, <1>6, <1>7

LEMMA ArcSortTrie ==
  ASSUME NEW n \in Nat, NEW t, IsTrie(t, n)
  PROVE  IsTrie(ArcSort(t), n) /\ AscendingTrie(ArcSort(t)) /\ DOMAIN ArcSort(t) = DOMAIN t
<1> DEFINE s == ArcSort(t)
<1>1. DOMAIN s = DOMAIN t /\ \A p \in DOMAIN t : s[p] = [t[p] EXCEPT !.labels = Sorted(ToSet(@))]
  BY DEF ArcSort
<1> HIDE DEF s
<1>2. ASSUME NEW p \in DOMAIN t
      PROVE  /\ IsNode(s[p]) /\ s[p].labels \in Seq(1 .. n)
             /\ NoDups(s[p].labels) /\ Ascending(s[p].labels) /\ ToSet(s[p].labels) = ToSet(t[p].labels)
  <2> DEFINE S == ToSet(t[p].labels)
  <2>1. s[p] = [t[p] EXCEPT !.labels = Sorted(S)] /\ IsNode(t[p])
    BY <1>1 DEF IsTrie
  <2>2. S \subseteq 1 .. n
    BY DEF IsTrie
  <2> HIDE DEF S
  <2>3. S \in SUBSET Nat /\ IsFiniteSet(S)
    BY <2>2, SetsOfLabels
  <2>4. Sorted(S) \in Seq(S) /\ ToSet(Sorted(S)) = S /\ Ascending(Sorted(S)) /\ NoDups(Sorted(S))
    BY ONLY <2>3, SortedIs
  <2>5. Sorted(S) \in Seq(1 .. n)
    BY <2>2, <2>4, SeqOfMore
  <2> DEFINE u == Sorted(S)
             r == t[p]
  <2> HIDE DEF u, r
  <2>a. s[p] = [r EXCEPT !.labels = u] /\ IsNode(r)
    BY <2>1 DEF u, r
  <2>b. IsNode(s[p]) /\ s[p].labels = u
    BY <2>a, NewLabels
  <2>6. IsNode(s[p]) /\ s[p].labels = Sorted(S)
    BY <2>b DEF u
  <2> QED BY <2>4, <2>5, <2>6 DEF S
<1>3. IsTrie(s, n)
  BY <1>1, <1>2 DEF IsTrie
<1>4. AscendingTrie(s)
  BY <1>1, <1>2 DEF AscendingTrie
<1> QED BY <1>1, <1>3, <1>4 DEF s

\* The n-grams of a lattice and the root.
GramsOf(lattice, order) == NgramsOf(lattice, order) \cup {Root}

LEMMA CountedTrie ==
  ASSUME NEW n \in Nat, NEW lattice \in SUBSET Seq(1 .. n), CountOrder \in Nat
  PROVE  /\ IsTrie(CountNgrams(lattice), n) /\ AscendingTrie(CountNgrams(lattice))
         /\ DOMAIN CountNgrams(lattice) = GramsOf(lattice, CountOrder)
<1> DEFINE G == NgramsOf(lattice, CountOrder)
           count == Tabulated([p \in G |-> ExpectedCount(p, lattice)])
           w(p) == CASE p = <<>> -> One
                     [] Len(p) = 1 -> count[p]
                     [] OTHER -> Divide(count[p], count[Front(p)])
           t == CountNgrams(lattice)
<1>1. t = [p \in G \cup {<<>>} |-> [labels |-> LabelsAfter(p, G), weight |-> w(p),
                                     final |-> IF p = <<>> THEN Zero ELSE One]]
  BY Zenon DEF CountNgrams
<1>2. G \in SUBSET Seq(1 .. n) /\ \A p \in G : Len(p) \in 1 .. CountOrder
  BY NgramsSay
<1> HIDE DEF t, w, G
<1>3. DOMAIN t = G \cup {Root} /\ \A p \in DOMAIN t : IsNode(t[p]) /\ t[p].labels = LabelsAfter(p, G)
  BY <1>1 DEF Root, IsNode
<1>4. \A p \in DOMAIN t : p \in Seq(1 .. n)
  BY <1>2, <1>3, EmptyFacts DEF Root
<1>5. ASSUME NEW p \in DOMAIN t
      PROVE  /\ t[p].labels \in Seq(1 .. n) /\ NoDups(t[p].labels) /\ Ascending(t[p].labels)
             /\ ToSet(t[p].labels) = {l \in 1 .. n : Append(p, l) \in DOMAIN t}
  <2>1. /\ LabelsAfter(p, G) \in Seq(1 .. n)
        /\ Ascending(LabelsAfter(p, G)) /\ NoDups(LabelsAfter(p, G))
        /\ ToSet(LabelsAfter(p, G)) = {l \in 1 .. n : Append(p, l) \in G}
    BY <1>2, <1>4, LabelsAfterIs
  <2>2. \A l \in 1 .. n : Append(p, l) # Root
    BY <1>4, AppendFacts DEF Root
  <2> QED BY <1>3, <2>1, <2>2
<1>6. ASSUME NEW p \in DOMAIN t, p # Root PROVE Front(p) \in DOMAIN t
  <2>1. p \in G /\ Len(p) \in 1 .. CountOrder /\ p \in Seq(1 .. n)
    BY <1>2, <1>3, <1>6
  <2>2. CASE Len(p) > 1
    <3>1. Front(p) \in G
      BY <2>1, <2>2, NgramsClosed DEF G
    <3> QED BY <1>3, <3>1
  <2>3. CASE ~ (Len(p) > 1)
    <3>1. Len(p) = 1 /\ p # <<>>
      <4>1. Len(p) \in Nat /\ Len(p) >= 1
        BY <2>1
      <4>2. \A k \in Nat : k >= 1 /\ ~ (k > 1) => k = 1
        OBVIOUS
      <4>3. Len(p) = 1
        BY <2>3, <4>1, <4>2
      <4>4. 1 # 0
        OBVIOUS
      <4> QED BY <4>3, <4>4, EmptyFacts
    <3>2. Front(p) \in Seq(1 .. n) /\ Len(Front(p)) = Len(p) - 1
      BY <2>1, <3>1, FrontFacts
    <3>3. Front(p) = <<>>
      <4>1. Len(Front(p)) = 0
        BY <3>1, <3>2
      <4> QED BY <3>2, <4>1
    <3> QED BY <1>3, <3>3 DEF Root
  <2> QED BY <2>2, <2>3
<1>7. IsTrie(t, n)
  BY <1>3, <1>4, <1>5, <1>6 DEF IsTrie
<1>8. AscendingTrie(t)
  BY <1>5 DEF AscendingTrie
<1> QED BY <1>3, <1>7, <1>8 DEF t, G, GramsOf

-----------------------------------------------------------------------------

\* ProcessSubset walks a trie along one string: what one step adds.

\* The union of t with g is under way, with the states ats in the queue.
Uniting(t, g, ats, n) ==
  /\ IsTrie(t, n) /\ IsTrie(g, n) /\ AscendingTrie(g)
  /\ ats \in Seq(DOMAIN t \cap DOMAIN g)
  /\ \A i, j \in 1 .. Len(ats) : i # j => ~ Begins(ats[i], ats[j])
  /\ \A i \in 1 .. Len(ats) : \A p \in DOMAIN t : Begins(ats[i], p) => Ascending(t[p].labels)
  /\ \A p \in DOMAIN g : p \in DOMAIN t \/ \E i \in 1 .. Len(ats) : Begins(ats[i], p)

\* The labels that are found, those of both arrays first.
NewLabelsOf(a, b) == Kept(b, ToSet(b) \ Matched(a, b))
FoundLabels(a, b) == Kept(b, Matched(a, b)) \o NewLabelsOf(a, b)

\* What a step of the union makes of t, as far as states and labels go.
MatchedStep(t, g, at, t2) ==
  LET a == t[at].labels
      b == g[at].labels
  IN /\ DOMAIN t2 = DOMAIN t \cup {Append(at, l) : l \in ToSet(b)}
     /\ \A p \in DOMAIN t2 : IsNode(t2[p])
     /\ t2[at].labels = a \o NewLabelsOf(a, b)
     /\ \A l \in ToSet(b) : /\ l \in Matched(a, b) => t2[Append(at, l)].labels = t[Append(at, l)].labels
                            /\ l \notin Matched(a, b) => t2[Append(at, l)].labels = <<>>
     /\ \A p \in DOMAIN t : p # at /\ (\A l \in ToSet(b) : p # Append(at, l)) =>
          t2[p].labels = t[p].labels

LEMMA ConcatFacts ==
  ASSUME NEW S, NEW a \in Seq(S), NEW b \in Seq(S)
  PROVE  /\ a \o b \in Seq(S) /\ Len(a \o b) = Len(a) + Len(b) /\ ToSet(a \o b) = ToSet(a) \cup ToSet(b)
         /\ \A i \in 1 .. Len(a) : (a \o b)[i] = a[i]
         /\ \A i \in 1 .. Len(b) : (a \o b)[Len(a) + i] = b[i]
         /\ NoDups(a) /\ NoDups(b) /\ ToSet(a) \cap ToSet(b) = {} => NoDups(a \o b)
<1> DEFINE c == a \o b
<1>1. /\ c \in Seq(S) /\ Len(c) = Len(a) + Len(b) /\ Len(a) \in Nat /\ Len(b) \in Nat
      /\ DOMAIN a = 1 .. Len(a) /\ DOMAIN b = 1 .. Len(b) /\ DOMAIN c = 1 .. Len(c)
      /\ \A i \in 1 .. Len(a) : c[i] = a[i]
  OBVIOUS
<1>2. \A i \in 1 .. Len(b) : c[Len(a) + i] = b[i]
  OBVIOUS
<1> HIDE DEF c
<1>3. \A i \in 1 .. Len(c) : i \in 1 .. Len(a) \/ (i - Len(a) \in 1 .. Len(b) /\ Len(a) + (i - Len(a)) = i)
  BY <1>1
<1>4. /\ \A i \in 1 .. Len(a) : i \in 1 .. Len(c)
      /\ \A i \in 1 .. Len(b) : Len(a) + i \in 1 .. Len(c)
  BY <1>1
<1>5. \A i \in 1 .. Len(c) : /\ i \in 1 .. Len(a) => c[i] = a[i]
                             /\ i \notin 1 .. Len(a) => c[i] = b[i - Len(a)]
  <2> SUFFICES ASSUME NEW i \in 1 .. Len(c), i \notin 1 .. Len(a) PROVE c[i] = b[i - Len(a)]
    BY <1>1
  <2>1. i - Len(a) \in 1 .. Len(b) /\ Len(a) + (i - Len(a)) = i
    BY <1>3
  <2> DEFINE j == i - Len(a)
  <2>2. j \in 1 .. Len(b) /\ Len(a) + j = i
    BY <2>1
  <2> HIDE DEF j
  <2>3. c[i] = b[j]
    BY <1>2, <2>2
  <2> QED BY <2>3 DEF j
<1>6. ToSet(c) = ToSet(a) \cup ToSet(b)
  <2>1. /\ ToSet(c) = {c[i] : i \in 1 .. Len(c)} /\ ToSet(a) = {a[i] : i \in 1 .. Len(a)}
        /\ ToSet(b) = {b[i] : i \in 1 .. Len(b)}
    BY <1>1 DEF ToSet
  <2>2. \A i \in 1 .. Len(c) : c[i] \in ToSet(a) \cup ToSet(b)
    BY <1>3, <1>5, <2>1
  <2>3. \A i \in 1 .. Len(a) : a[i] \in ToSet(c)
    BY <1>1, <1>4, <2>1
  <2>4. \A i \in 1 .. Len(b) : b[i] \in ToSet(c)
    <3> SUFFICES ASSUME NEW i \in 1 .. Len(b) PROVE b[i] \in ToSet(c)
      OBVIOUS
    <3>1. Len(a) + i \in 1 .. Len(c) /\ c[Len(a) + i] = b[i]
      BY <1>2, <1>4
    <3> QED BY <2>1, <3>1
  <2> QED BY <2>1, <2>2, <2>3, <2>4
<1>7. ASSUME NoDups(a), NoDups(b), ToSet(a) \cap ToSet(b) = {} PROVE NoDups(c)
  <2>1. \A i \in 1 .. Len(a), j \in 1 .. Len(b) : a[i] # b[j]
    BY <1>1, <1>7 DEF ToSet
  <2>2. \A i, j \in 1 .. Len(a) : a[i] = a[j] => i = j
    BY <1>1, <1>7 DEF NoDups
  <2>3. \A i, j \in 1 .. Len(b) : b[i] = b[j] => i = j
    BY <1>1, <1>7 DEF NoDups
  <2> SUFFICES ASSUME NEW i \in 1 .. Len(c), NEW j \in 1 .. Len(c), c[i] = c[j] PROVE i = j
    BY <1>1 DEF NoDups
  <2>4. CASE i \in 1 .. Len(a) /\ j \in 1 .. Len(a)
    BY <1>1, <2>2, <2>4
  <2>5. CASE i \in 1 .. Len(a) /\ j \notin 1 .. Len(a)
    BY <1>3, <1>5, <2>1, <2>5
  <2>6. CASE i \notin 1 .. Len(a) /\ j \in 1 .. Len(a)
    BY <1>3, <1>5, <2>1, <2>6
  <2>7. CASE i \notin 1 .. Len(a) /\ j \notin 1 .. Len(a)
    <3>1. i - Len(a) \in 1 .. Len(b) /\ j - Len(a) \in 1 .. Len(b) /\ b[i - Len(a)] = b[j - Len(a)]
      BY <1>3, <1>5, <2>7
    <3>2. i - Len(a) = j - Len(a)
      BY <2>3, <3>1
    <3> QED BY <1>1, <3>2
  <2> QED BY <2>4, <2>5, <2>6, <2>7
<1> QED BY <1>1, <1>2, <1>6, <1>7 DEF c

LEMMA FoundFacts ==
  ASSUME NEW n \in Nat, NEW a \in Seq(1 .. n), NEW b \in Seq(1 .. n),
         Ascending(a), Ascending(b), NoDups(a), NoDups(b)
  PROVE  /\ Matched(a, b) = ToSet(a) \cap ToSet(b)
         /\ NewLabelsOf(a, b) \in Seq(1 .. n) /\ NoDups(a \o NewLabelsOf(a, b))
         /\ ToSet(NewLabelsOf(a, b)) = ToSet(b) \ ToSet(a)
         /\ FoundLabels(a, b) \in Seq(1 .. n) /\ NoDups(FoundLabels(a, b))
         /\ ToSet(FoundLabels(a, b)) = ToSet(b)
<1>1. a \in Seq(Nat) /\ b \in Seq(Nat)
  BY SeqOfMore
<1>2. Matched(a, b) = ToSet(a) \cap ToSet(b)
  BY <1>1, MatchedIs
<1> DEFINE new == NewLabelsOf(a, b)
           shared == Kept(b, Matched(a, b))
<1>3. new \in Seq(1 .. n) /\ ToSet(new) = ToSet(b) \cap (ToSet(b) \ Matched(a, b)) /\ NoDups(new)
  BY KeptIs DEF NewLabelsOf
<1>4. shared \in Seq(1 .. n) /\ ToSet(shared) = ToSet(b) \cap Matched(a, b) /\ NoDups(shared)
  BY KeptIs
<1>5. FoundLabels(a, b) = shared \o new
  BY DEF FoundLabels
<1> HIDE DEF new, shared
<1>6. NoDups(a \o new)
  <2>1. ToSet(a) \cap ToSet(new) = {}
    BY <1>2, <1>3
  <2> QED BY <1>3, <2>1, ConcatFacts
<1>7. /\ shared \o new \in Seq(1 .. n) /\ ToSet(shared \o new) = ToSet(b)
      /\ NoDups(shared \o new)
  <2>1. ToSet(shared) \cap ToSet(new) = {} /\ ToSet(shared) \cup ToSet(new) = ToSet(b)
    BY <1>2, <1>3, <1>4
  <2> QED BY <1>3, <1>4, <2>1, ConcatFacts
<1> QED BY <1>2, <1>3, <1>5, <1>6, <1>7 DEF new

\* The states that a step puts on the queue.
Children(at, found) == [i \in DOMAIN found |-> Append(at, found[i])]

\* The arcs of the states after a step are those into the states that there are.
LEMMA StepIsTrie ==
  ASSUME NEW n \in Nat, NEW t, NEW g, NEW at, NEW t2, IsTrie(t, n), IsTrie(g, n),
         at \in DOMAIN t, at \in DOMAIN g,
         Ascending(t[at].labels), Ascending(g[at].labels), MatchedStep(t, g, at, t2)
  PROVE  IsTrie(t2, n)
<1> DEFINE a == t[at].labels
           b == g[at].labels
           K == {Append(at, l) : l \in ToSet(b)}
<1>1. /\ a \in Seq(1 .. n) /\ b \in Seq(1 .. n) /\ NoDups(a) /\ NoDups(b) /\ at \in Seq(1 .. n)
      /\ ToSet(a) = {l \in 1 .. n : Append(at, l) \in DOMAIN t}
      /\ ToSet(b) = {l \in 1 .. n : Append(at, l) \in DOMAIN g}
  BY DEF IsTrie
<1>2. /\ Matched(a, b) = ToSet(a) \cap ToSet(b)
      /\ NewLabelsOf(a, b) \in Seq(1 .. n) /\ NoDups(a \o NewLabelsOf(a, b))
      /\ ToSet(NewLabelsOf(a, b)) = ToSet(b) \ ToSet(a)
  BY <1>1, FoundFacts
<1>3. /\ DOMAIN t2 = DOMAIN t \cup K /\ \A p \in DOMAIN t2 : IsNode(t2[p])
      /\ t2[at].labels = a \o NewLabelsOf(a, b)
      /\ \A l \in ToSet(b) : /\ l \in Matched(a, b) => t2[Append(at, l)].labels = t[Append(at, l)].labels
                             /\ l \notin Matched(a, b) => t2[Append(at, l)].labels = <<>>
      /\ \A p \in DOMAIN t : p # at /\ (\A l \in ToSet(b) : p # Append(at, l)) =>
           t2[p].labels = t[p].labels
  BY DEF MatchedStep
<1>4. /\ Root \in DOMAIN t /\ DOMAIN t \subseteq Seq(1 .. n)
      /\ \A p \in DOMAIN t :
           /\ t[p].labels \in Seq(1 .. n) /\ NoDups(t[p].labels)
           /\ ToSet(t[p].labels) = {l \in 1 .. n : Append(p, l) \in DOMAIN t}
           /\ p # Root => Front(p) \in DOMAIN t
  BY DEF IsTrie
<1> DEFINE new == NewLabelsOf(a, b)
           M == Matched(a, b)
<1> HIDE DEF a, b, new, M
<1>5. \A l \in 1 .. n : /\ Append(at, l) \in Seq(1 .. n) /\ Append(at, l) # at
                        /\ Front(Append(at, l)) = at /\ Append(at, l) # Root
                        /\ Last(Append(at, l)) = l
  <2> SUFFICES ASSUME NEW l \in 1 .. n
               PROVE  /\ Append(at, l) \in Seq(1 .. n) /\ Append(at, l) # at
                      /\ Front(Append(at, l)) = at /\ Append(at, l) # Root
                      /\ Last(Append(at, l)) = l
    OBVIOUS
  <2>1. /\ Append(at, l) \in Seq(1 .. n) /\ Append(at, l) # <<>> /\ Len(Append(at, l)) = Len(at) + 1
        /\ Front(Append(at, l)) = at /\ Last(Append(at, l)) = l
    <3>1. at \in Seq(1 .. n) /\ l \in 1 .. n
      BY <1>1
    <3> QED BY ONLY <3>1, AppendFacts
  <2>2. Len(at) \in Nat
    BY <1>1
  <2>3. Append(at, l) # at
    <3> DEFINE q == Append(at, l)
    <3>1. Len(q) = Len(at) + 1
      BY <2>1
    <3> HIDE DEF q
    <3>2. q # at
      BY <2>2, <3>1
    <3> QED BY <3>2 DEF q
  <2> QED BY <2>1, <2>3 DEF Root
\* Which arcs lead to states that are new.
<1>6. \A p \in Seq(1 .. n), l \in 1 .. n : Append(p, l) \in K <=> p = at /\ l \in ToSet(b)
  <2> SUFFICES ASSUME NEW p \in Seq(1 .. n), NEW l \in 1 .. n
               PROVE Append(p, l) \in K <=> p = at /\ l \in ToSet(b)
    OBVIOUS
  <2>1. Front(Append(p, l)) = p /\ Last(Append(p, l)) = l
    BY AppendFacts
  <2>2. ASSUME Append(p, l) \in K PROVE p = at /\ l \in ToSet(b)
    <3>1. PICK k \in ToSet(b) : Append(p, l) = Append(at, k)
      BY <2>2
    <3>2. k \in 1 .. n
      BY <1>1
    <3>3. Front(Append(at, k)) = at /\ Last(Append(at, k)) = k
      BY <1>5, <3>2
    <3> QED BY <2>1, <3>1, <3>3
  <2> QED BY <2>2
<1>7. Root \in DOMAIN t2 /\ DOMAIN t2 \subseteq Seq(1 .. n)
  <2>1. K \subseteq Seq(1 .. n)
    BY <1>1, <1>5
  <2> HIDE DEF K
  <2> QED BY <1>3, <1>4, <2>1
<1>8. ASSUME NEW p \in DOMAIN t2 PROVE p # Root => Front(p) \in DOMAIN t2
  <2>1. CASE p \in DOMAIN t
    <3> HIDE DEF K
    <3> QED BY <1>3, <1>4, <2>1
  <2>2. CASE p \in K
    <3>1. Front(p) = at
      BY <1>1, <1>5, <2>2
    <3> HIDE DEF K
    <3> QED BY <1>3, <3>1
  <2> HIDE DEF K
  <2> QED BY <1>3, <2>1, <2>2
<1> DEFINE Fits(p) == /\ t2[p].labels \in Seq(1 .. n) /\ NoDups(t2[p].labels)
                      /\ ToSet(t2[p].labels) = {l \in 1 .. n : Append(p, l) \in DOMAIN t2}
<1>9. Fits(at)
  <2>1. ToSet(a \o new) = ToSet(a) \cup ToSet(b) /\ a \o new \in Seq(1 .. n)
    BY <1>1, <1>2, ConcatFacts DEF new
  <2>2. \A l \in 1 .. n : Append(at, l) \in DOMAIN t2 <=> l \in ToSet(a) \/ l \in ToSet(b)
    <3> HIDE DEF K
    <3> QED BY <1>1, <1>3, <1>6
  <2>3. ToSet(a) \cup ToSet(b) = {l \in 1 .. n : Append(at, l) \in DOMAIN t2}
    BY <1>1, <2>2
  <2>4. t2[at].labels = a \o new /\ NoDups(a \o new)
    BY <1>2, <1>3 DEF new
  <2> QED BY <2>1, <2>3, <2>4
<1>10. ASSUME NEW p \in DOMAIN t, p # at, t2[p].labels = t[p].labels PROVE Fits(p)
  <2>1. p \in Seq(1 .. n)
    BY <1>4
  <2>2. \A l \in 1 .. n : Append(p, l) \in DOMAIN t2 <=> Append(p, l) \in DOMAIN t
    <3> HIDE DEF K
    <3> QED BY <1>3, <1>6, <1>10, <2>1
  <2> QED BY <1>4, <1>10, <2>2
<1>11. ASSUME NEW l \in ToSet(b), l \notin ToSet(a) PROVE Fits(Append(at, l))
  <2> DEFINE p == Append(at, l)
  <2>1. l \in 1 .. n /\ p \in Seq(1 .. n) /\ p # at /\ p # Root /\ p \notin DOMAIN t
    BY <1>1, <1>5, <1>11
  <2>2. t2[p].labels = <<>>
    BY <1>2, <1>3, <1>11 DEF M
  <2> HIDE DEF p
  <2>3. \A k \in 1 .. n : Append(p, k) \notin DOMAIN t
    <3> SUFFICES ASSUME NEW k \in 1 .. n, Append(p, k) \in DOMAIN t PROVE FALSE
      OBVIOUS
    <3>1. Front(Append(p, k)) = p /\ Append(p, k) # Root
      BY <2>1, AppendFacts DEF Root
    <3> QED BY <1>4, <2>1, <3>1
  <2>4. \A k \in 1 .. n : Append(p, k) \notin DOMAIN t2
    <3> HIDE DEF K
    <3> QED BY <1>3, <1>6, <2>1, <2>3
  <2>5. {k \in 1 .. n : Append(p, k) \in DOMAIN t2} = {}
    BY <2>4
  <2> QED BY <2>2, <2>5, EmptyFacts DEF p
<1>12. ASSUME NEW p \in DOMAIN t2 PROVE Fits(p)
  <2>1. CASE p = at
    BY <1>9, <2>1
  <2>2. CASE p \in DOMAIN t /\ p # at /\ \A l \in ToSet(b) : p # Append(at, l)
    <3>1. t2[p].labels = t[p].labels
      BY <1>3, <2>2
    <3> HIDE DEF Fits
    <3> QED BY <1>10, <2>2, <3>1
  <2>3. ASSUME NEW l \in ToSet(b), p = Append(at, l) PROVE Fits(p)
    <3>1. CASE l \in ToSet(a)
      <4>1. p \in DOMAIN t /\ p # at
        BY <1>1, <1>5, <2>3, <3>1
      <4>2. t2[p].labels = t[p].labels
        BY <1>2, <1>3, <2>3, <3>1
      <4> HIDE DEF Fits
      <4> QED BY <1>10, <4>1, <4>2
    <3>2. CASE l \notin ToSet(a)
      <4>1. Fits(Append(at, l))
        <5> HIDE DEF Fits
        <5> QED BY <1>11, <3>2
      <4> HIDE DEF Fits
      <4> QED BY <2>3, <4>1
    <3> QED BY <3>1, <3>2
  <2>4. p \in DOMAIN t \/ \E l \in ToSet(b) : p = Append(at, l)
    BY <1>3
  <2> HIDE DEF Fits
  <2> QED BY <2>1, <2>2, <2>3, <2>4
<1> HIDE DEF K
<1> QED BY <1>3, <1>7, <1>8, <1>12 DEF IsTrie

LEMMA ChildrenFacts ==
  ASSUME NEW n \in Nat, NEW at \in Seq(1 .. n), NEW found \in Seq(1 .. n)
  PROVE  /\ Children(at, found) \in Seq(Seq(1 .. n)) /\ Len(Children(at, found)) = Len(found)
         /\ \A i \in 1 .. Len(found) : Children(at, found)[i] = Append(at, found[i])
<1>1. Len(found) \in Nat /\ DOMAIN found = 1 .. Len(found) /\ \A i \in 1 .. Len(found) : found[i] \in 1 .. n
  OBVIOUS
<1> DEFINE s == Children(at, found)
<1>2. s = [i \in 1 .. Len(found) |-> Append(at, found[i])]
  BY <1>1 DEF Children
<1>3. \A i \in 1 .. Len(found) : Append(at, found[i]) \in Seq(1 .. n)
  BY <1>1, AppendFacts
<1> HIDE DEF s
<1>4. s \in Seq(Seq(1 .. n)) /\ Len(s) = Len(found) /\ \A i \in 1 .. Len(found) : s[i] = Append(at, found[i])
  BY <1>1, <1>2, <1>3
<1> QED BY <1>4 DEF s

\* The beginnings of a state of a trie are states.
LEMMA TrieBeginnings ==
  ASSUME NEW n \in Nat, NEW t, IsTrie(t, n), NEW p \in DOMAIN t, NEW q \in Seq(1 .. n), Begins(q, p)
  PROVE  q \in DOMAIN t
<1>1. DOMAIN t \subseteq Seq(1 .. n) /\ \A r \in DOMAIN t : r # Root => Front(r) \in DOMAIN t
  BY DEF IsTrie
<1>2. p \in Seq(1 .. n) /\ Len(q) \in Nat /\ Len(p) \in Nat /\ Len(q) <= Len(p)
  BY <1>1 DEF Begins
<1> DEFINE d == Len(p) - Len(q)
           G == {k \in 0 .. d : \E r \in DOMAIN t : Len(r) = Len(p) - k /\ Begins(q, r)}
<1>3. d \in Nat
  BY <1>2
<1>4. 0 \in G
  BY <1>2, <1>3
<1>5. ASSUME NEW k \in 0 .. d - 1, k \in G PROVE k + 1 \in G
  <2>1. PICK r \in DOMAIN t : Len(r) = Len(p) - k /\ Begins(q, r)
    BY <1>5
  <2>2. r \in Seq(1 .. n) /\ Len(r) > Len(q) /\ Len(r) \in Nat
    BY <1>1, <1>2, <2>1
  <2>3. r # <<>>
    BY <1>2, <2>2
  <2> DEFINE f == Front(r)
  <2>4. /\ f \in DOMAIN t /\ Len(f) = Len(r) - 1 /\ \A i \in 1 .. Len(r) - 1 : f[i] = r[i]
    BY <1>1, <2>2, <2>3, FrontFacts DEF Root
  <2> HIDE DEF f
  <2>5. Len(q) <= Len(f) /\ \A i \in 1 .. Len(q) : i \in 1 .. Len(r) - 1
    BY <1>2, <2>2, <2>4
  <2>6. Begins(q, f)
    BY <2>1, <2>4, <2>5 DEF Begins
  <2>7. Len(f) = Len(p) - (k + 1) /\ k + 1 \in 0 .. d
    BY <1>2, <2>1, <2>4
  <2> QED BY <2>4, <2>6, <2>7
<1>6. d \in G
  <2> HIDE DEF G, d
  <2>1. d \in 0 .. d
    BY <1>3
  <2> QED BY <1>3, <1>4, <1>5, <2>1, UpTo
<1>7. PICK r \in DOMAIN t : Len(r) = Len(p) - d /\ Begins(q, r)
  BY <1>6
<1>8. r \in Seq(1 .. n) /\ Len(r) = Len(q) /\ \A i \in 1 .. Len(q) : q[i] = r[i]
  BY <1>1, <1>2, <1>7 DEF Begins
<1>9. r = q
  BY <1>8, SameSequence
<1> QED BY <1>7, <1>9

LEMMA UniteStep ==
  ASSUME NEW n \in Nat, NEW t, NEW g, NEW ats, NEW t2, NEW ats2,
         Uniting(t, g, ats, n), ats # <<>>, MatchedStep(t, g, Head(ats), t2),
         ats2 = Tail(ats) \o Children(Head(ats), FoundLabels(t[Head(ats)].labels, g[Head(ats)].labels))
  PROVE  /\ Uniting(t2, g, ats2, n)
         /\ DOMAIN t \subseteq DOMAIN t2 /\ DOMAIN t2 \subseteq DOMAIN t \cup DOMAIN g
<1> DEFINE at == Head(ats)
           a == t[at].labels
           b == g[at].labels
           found == FoundLabels(a, b)
           kids == Children(at, found)
           rest == Tail(ats)
           S == Seq(1 .. n)
<1>1. /\ IsTrie(t, n) /\ IsTrie(g, n) /\ AscendingTrie(g)
      /\ ats \in Seq(DOMAIN t \cap DOMAIN g)
      /\ \A i, j \in 1 .. Len(ats) : i # j => ~ Begins(ats[i], ats[j])
      /\ \A i \in 1 .. Len(ats) : \A p \in DOMAIN t : Begins(ats[i], p) => Ascending(t[p].labels)
      /\ \A p \in DOMAIN g : p \in DOMAIN t \/ \E i \in 1 .. Len(ats) : Begins(ats[i], p)
  BY DEF Uniting
<1>2. /\ Len(ats) \in Nat /\ Len(ats) > 0 /\ at = ats[1] /\ 1 \in 1 .. Len(ats)
      /\ at \in DOMAIN t /\ at \in DOMAIN g
  BY <1>1
<1>3. /\ Len(rest) = Len(ats) - 1
      /\ \A i \in 1 .. Len(rest) : rest[i] = ats[i + 1] /\ i + 1 \in 1 .. Len(ats) /\ i + 1 # 1
  BY <1>1, <1>2
<1>4. DOMAIN t \subseteq S /\ DOMAIN g \subseteq S /\ at \in S
  BY <1>1, <1>2 DEF IsTrie
<1>5. /\ a \in Seq(1 .. n) /\ b \in Seq(1 .. n) /\ NoDups(a) /\ NoDups(b)
      /\ ToSet(a) = {l \in 1 .. n : Append(at, l) \in DOMAIN t}
      /\ ToSet(b) = {l \in 1 .. n : Append(at, l) \in DOMAIN g}
  BY <1>1, <1>2 DEF IsTrie
<1>6. Ascending(a) /\ Ascending(b)
  <2>1. Begins(at, at)
    <3>1. at \in Seq(1 .. n)
      BY <1>4
    <3> HIDE DEF at
    <3> QED BY ONLY <3>1, BeginsFacts
  <2>2. Begins(ats[1], at)
    BY <1>2, <2>1
  <2> HIDE DEF at
  <2> QED BY <1>1, <1>2, <2>2 DEF AscendingTrie
<1>7. MatchedStep(t, g, at, t2)
  OBVIOUS
<1> HIDE DEF at, S
<1>8. IsTrie(t2, n)
  BY <1>1, <1>2, <1>6, <1>7, StepIsTrie
<1>9. /\ Matched(a, b) = ToSet(a) \cap ToSet(b)
      /\ found \in Seq(1 .. n) /\ NoDups(found) /\ ToSet(found) = ToSet(b)
  BY <1>5, <1>6, FoundFacts
<1>10. /\ DOMAIN t2 = DOMAIN t \cup {Append(at, l) : l \in ToSet(b)}
       /\ \A l \in ToSet(b) : /\ l \in Matched(a, b) => t2[Append(at, l)].labels = t[Append(at, l)].labels
                              /\ l \notin Matched(a, b) => t2[Append(at, l)].labels = <<>>
       /\ \A p \in DOMAIN t : p # at /\ (\A l \in ToSet(b) : p # Append(at, l)) =>
            t2[p].labels = t[p].labels
  BY <1>7 DEF MatchedStep
<1>11. /\ kids \in Seq(S) /\ Len(kids) = Len(found)
       /\ \A i \in 1 .. Len(found) : kids[i] = Append(at, found[i])
  BY <1>4, <1>9, ChildrenFacts DEF S
<1> HIDE DEF a, b, found, kids, rest
<1>12. /\ Len(found) \in Nat /\ \A i \in 1 .. Len(found) : found[i] \in ToSet(b) /\ found[i] \in 1 .. n
       /\ \A l \in ToSet(b) : l \in 1 .. n /\ \E i \in 1 .. Len(found) : found[i] = l
       /\ \A i, j \in 1 .. Len(found) : found[i] = found[j] => i = j
  <2>1. DOMAIN found = 1 .. Len(found) /\ Len(found) \in Nat
    BY <1>9
  <2>2. ToSet(found) = {found[i] : i \in 1 .. Len(found)}
    BY <2>1 DEF ToSet
  <2>3. \A i \in 1 .. Len(found) : found[i] \in ToSet(b) /\ found[i] \in 1 .. n
    BY <1>9, <2>1, <2>2
  <2>4. \A l \in ToSet(b) : l \in 1 .. n /\ \E i \in 1 .. Len(found) : found[i] = l
    BY <1>5, <1>9, <2>2
  <2>5. \A i, j \in 1 .. Len(found) : found[i] = found[j] => i = j
    BY <1>9, <2>1 DEF NoDups
  <2> QED BY <2>1, <2>3, <2>4, <2>5
<1>13. DOMAIN t \subseteq DOMAIN t2 /\ DOMAIN t2 \subseteq DOMAIN t \cup DOMAIN g
  BY <1>5, <1>10
<1>14. /\ rest \in Seq(S) /\ rest \o kids = ats2
       /\ \A i \in 1 .. Len(rest) : rest[i] \in DOMAIN t \cap DOMAIN g
  <2>1. \A i \in 1 .. Len(ats) : ats[i] \in DOMAIN t \cap DOMAIN g
    BY <1>1
  <2>2. rest \in Seq(DOMAIN t \cap DOMAIN g)
    BY <1>1, <1>2 DEF rest
  <2>3. rest \in Seq(S)
    BY <1>4, <2>2, SeqOfMore
  <2> QED BY <1>3, <2>1, <2>3 DEF kids, found, a, b, at, rest
<1>15. /\ ats2 \in Seq(S) /\ Len(ats2) = Len(rest) + Len(kids) /\ Len(rest) \in Nat
       /\ \A i \in 1 .. Len(rest) : ats2[i] = rest[i]
       /\ \A i \in 1 .. Len(kids) : ats2[Len(rest) + i] = kids[i]
  <2>1. Len(rest) \in Nat
    BY <1>14
  <2>2. rest \in Seq(S) /\ kids \in Seq(S)
    BY <1>11, <1>14
  <2>3. /\ rest \o kids \in Seq(S) /\ Len(rest \o kids) = Len(rest) + Len(kids)
        /\ \A i \in 1 .. Len(rest) : (rest \o kids)[i] = rest[i]
        /\ \A i \in 1 .. Len(kids) : (rest \o kids)[Len(rest) + i] = kids[i]
    BY ONLY <2>2, ConcatFacts
  <2>4. rest \o kids = ats2
    BY <1>14
  <2> QED BY ONLY <2>1, <2>3, <2>4
\* What is on the queue now.
<1> DEFINE Older(i) == i \in 1 .. Len(rest) /\ ats2[i] = rest[i]
           Newer(i, k) == i = Len(rest) + k /\ ats2[i] = Append(at, found[k])
<1>16. \A i \in 1 .. Len(ats2) : Older(i) \/ \E k \in 1 .. Len(found) : Newer(i, k)
  <2> SUFFICES ASSUME NEW i \in 1 .. Len(ats2), i \notin 1 .. Len(rest)
               PROVE \E k \in 1 .. Len(found) : Newer(i, k)
    BY <1>15
  <2> DEFINE k == i - Len(rest)
  <2>1. k \in 1 .. Len(found) /\ i = Len(rest) + k
    BY <1>11, <1>12, <1>15
  <2> HIDE DEF k
  <2>2. ats2[i] = kids[k]
    BY <1>11, <1>15, <2>1
  <2> QED BY <1>11, <2>1, <2>2
<1>17. \A k \in 1 .. Len(found) : /\ Len(rest) + k \in 1 .. Len(ats2)
                                  /\ ats2[Len(rest) + k] = Append(at, found[k])
  <2> SUFFICES ASSUME NEW k \in 1 .. Len(found)
               PROVE  /\ Len(rest) + k \in 1 .. Len(ats2)
                      /\ ats2[Len(rest) + k] = Append(at, found[k])
    OBVIOUS
  <2>1. Len(kids) = Len(found) /\ Len(found) \in Nat /\ kids[k] = Append(at, found[k])
    BY <1>11, <1>12
  <2>2. Len(ats2) = Len(rest) + Len(kids) /\ Len(rest) \in Nat /\ ats2[Len(rest) + k] = kids[k]
    BY <1>15, <2>1
  <2> HIDE DEF kids, found, rest, at
  <2> QED BY <2>1, <2>2
<1>18. \A i \in 1 .. Len(rest) : /\ ~ Begins(rest[i], at) /\ ~ Begins(at, rest[i]) /\ rest[i] \in S
                                 /\ rest[i] \in DOMAIN t
  <2> SUFFICES ASSUME NEW i \in 1 .. Len(rest)
               PROVE ~ Begins(rest[i], at) /\ ~ Begins(at, rest[i])
    BY <1>4, <1>14
  <2> DEFINE j == i + 1
  <2>1. rest[i] = ats[j] /\ j \in 1 .. Len(ats) /\ j # 1
    BY <1>3
  <2> HIDE DEF j
  <2> QED BY <1>1, <1>2, <2>1
<1>19. \A l \in 1 .. n : Append(at, l) \in S /\ Begins(at, Append(at, l)) /\ ~ Begins(Append(at, l), at)
  <2> SUFFICES ASSUME NEW l \in 1 .. n
               PROVE  Append(at, l) \in S /\ Begins(at, Append(at, l)) /\ ~ Begins(Append(at, l), at)
    OBVIOUS
  <2>1. Append(at, l) \in S /\ Len(Append(at, l)) = Len(at) + 1
    <3>1. at \in Seq(1 .. n) /\ l \in 1 .. n
      BY <1>4 DEF S
    <3>2. Append(at, l) \in Seq(1 .. n) /\ Len(Append(at, l)) = Len(at) + 1
      BY ONLY <3>1, AppendFacts
    <3> QED BY <3>2 DEF S
  <2>2. Begins(at, Append(at, l))
    BY <1>4, BeginsFacts DEF S
  <2> DEFINE q == Append(at, l)
  <2>3. Len(q) = Len(at) + 1
    BY <2>1
  <2>4. Len(at) \in Nat
    BY <1>4 DEF S
  <2> HIDE DEF q
  <2>5. ~ Begins(q, at)
    BY <2>3, <2>4 DEF Begins
  <2> QED BY <2>1, <2>2, <2>5 DEF q
<1>20. \A p, q \in S : \A l \in 1 .. n : Begins(q, Append(p, l)) => q = Append(p, l) \/ Begins(q, p)
  BY BeginsFacts DEF S
<1>21. \A p, q, r \in S : Begins(p, q) /\ Begins(q, r) => Begins(p, r)
  BY BeginsFacts DEF S
<1>22. \A i, j \in 1 .. Len(ats2) : i # j => ~ Begins(ats2[i], ats2[j])
  <2> SUFFICES ASSUME NEW i \in 1 .. Len(ats2), NEW j \in 1 .. Len(ats2), i # j, Begins(ats2[i], ats2[j])
               PROVE FALSE
    OBVIOUS
  <2>1. CASE Older(i) /\ Older(j)
    <3> DEFINE i1 == i + 1
               j1 == j + 1
    <3>1. i1 # j1
      BY <1>15
    <3>2. rest[i] = ats[i1] /\ rest[j] = ats[j1] /\ i1 \in 1 .. Len(ats) /\ j1 \in 1 .. Len(ats)
      BY <1>3, <2>1
    <3> HIDE DEF i1, j1
    <3> QED BY <1>1, <2>1, <3>1, <3>2
  <2>2. ASSUME Older(i), NEW k \in 1 .. Len(found), Newer(j, k) PROVE FALSE
    <3>1. Begins(rest[i], Append(at, found[k])) /\ found[k] \in 1 .. n
      BY <1>12, <2>2
    <3>2. rest[i] = Append(at, found[k]) \/ Begins(rest[i], at)
      BY <1>4, <1>18, <1>20, <2>2, <3>1
    <3> QED BY <1>18, <1>19, <2>2, <3>1, <3>2
  <2>3. ASSUME Older(j), NEW k \in 1 .. Len(found), Newer(i, k) PROVE FALSE
    <3>1. Begins(Append(at, found[k]), rest[j]) /\ found[k] \in 1 .. n
      BY <1>12, <2>3
    <3>2. Begins(at, rest[j])
      BY <1>4, <1>18, <1>19, <1>21, <2>3, <3>1
    <3> QED BY <1>18, <2>3, <3>2
  <2>4. ASSUME NEW k \in 1 .. Len(found), Newer(i, k), NEW m \in 1 .. Len(found), Newer(j, m) PROVE FALSE
    <3>1. Begins(Append(at, found[k]), Append(at, found[m])) /\ found[k] \in 1 .. n /\ found[m] \in 1 .. n
      BY <1>12, <2>4
    <3>2. Append(at, found[k]) = Append(at, found[m])
      BY <1>4, <1>19, <1>20, <3>1
    <3>3. Last(Append(at, found[k])) = found[k] /\ Last(Append(at, found[m])) = found[m]
      <4>1. at \in Seq(1 .. n) /\ found[k] \in 1 .. n /\ found[m] \in 1 .. n
        BY <1>4, <3>1 DEF S
      <4> QED BY ONLY <4>1, AppendFacts
    <3>4. k = m
      BY <1>12, <3>2, <3>3
    <3> QED BY <2>4, <3>4
  <2> HIDE DEF Older, Newer
  <2> QED BY <1>16, <2>1, <2>2, <2>3, <2>4
<1>23. \A i \in 1 .. Len(ats2) : ats2[i] \in DOMAIN t2 \cap DOMAIN g
  <2>1. \A k \in 1 .. Len(found) : Append(at, found[k]) \in DOMAIN t2 \cap DOMAIN g
    BY <1>5, <1>10, <1>12
  <2> QED BY <1>13, <1>14, <1>16, <2>1
<1>24. ats2 \in Seq(DOMAIN t2 \cap DOMAIN g)
  <2> DEFINE T == DOMAIN t2 \cap DOMAIN g
  <2>1. \A i \in 1 .. Len(ats2) : ats2[i] \in T
    BY <1>23
  <2> HIDE DEF T
  <2>2. Len(ats2) \in Nat /\ ats2 = [i \in 1 .. Len(ats2) |-> ats2[i]]
    BY <1>15
  <2>3. ats2 \in Seq(T)
    BY ONLY <2>1, <2>2
  <2> QED BY <2>3 DEF T
\* Below a queued state nothing has changed.
<1>25. \A i \in 1 .. Len(ats2) : \A p \in DOMAIN t2 : Begins(ats2[i], p) => Ascending(t2[p].labels)
  <2> SUFFICES ASSUME NEW i \in 1 .. Len(ats2), NEW p \in DOMAIN t2, Begins(ats2[i], p)
               PROVE Ascending(t2[p].labels)
    OBVIOUS
  <2>0. p \in S /\ ats2[i] \in S
    BY <1>8, <1>15 DEF IsTrie, S
  <2>1. p # at
    <3>1. ASSUME Older(i) PROVE p # at
      BY <1>18, <3>1
    <3>2. ASSUME NEW k \in 1 .. Len(found), Newer(i, k) PROVE p # at
      <4>1. found[k] \in 1 .. n /\ ats2[i] = Append(at, found[k])
        BY <1>12, <3>2
      <4>2. ~ Begins(ats2[i], at)
        BY <1>19, <4>1
      <4> HIDE DEF Older, Newer
      <4> QED BY <4>2
    <3> HIDE DEF Older, Newer
    <3> QED BY <1>16, <3>1, <3>2
  <2>2. ASSUME NEW l \in ToSet(b), p = Append(at, l), l \notin ToSet(a) PROVE Ascending(t2[p].labels)
    <3>1. t2[p].labels = <<>>
      BY <1>9, <1>10, <2>2
    <3> QED BY <3>1, EmptyFacts
  <2>3. ASSUME p \in DOMAIN t, t2[p].labels = t[p].labels PROVE Ascending(t2[p].labels)
    <3>1. CASE Older(i)
      <4> DEFINE j == i + 1
      <4>1. rest[i] = ats[j] /\ j \in 1 .. Len(ats)
        BY <1>3, <3>1
      <4> HIDE DEF j
      <4> QED BY <1>1, <2>3, <3>1, <4>1
    <3>2. ASSUME NEW k \in 1 .. Len(found), Newer(i, k) PROVE Ascending(t2[p].labels)
      <4> DEFINE x == Append(at, found[k])
      <4>1. Begins(x, p) /\ x \in S /\ Begins(at, x)
        BY <1>12, <1>19, <3>2
      <4> HIDE DEF x
      <4>2. Begins(at, p)
        BY <1>4, <1>21, <2>0, <4>1
      <4> QED BY <1>1, <1>2, <2>3, <4>2
    <3> HIDE DEF Older, Newer
    <3> QED BY <1>16, <3>1, <3>2
  <2>4. ASSUME NEW l \in ToSet(b), p = Append(at, l), l \in ToSet(a) PROVE Ascending(t2[p].labels)
    <3>1. p \in DOMAIN t /\ t2[p].labels = t[p].labels
      BY <1>5, <1>9, <1>10, <2>4
    <3> QED BY <2>3, <3>1
  <2>5. CASE \A l \in ToSet(b) : p # Append(at, l)
    <3>1. p \in DOMAIN t /\ t2[p].labels = t[p].labels
      BY <1>10, <2>1, <2>5
    <3> QED BY <2>3, <3>1
  <2> QED BY <2>2, <2>4, <2>5
\* No n-gram is forgotten.
<1>26. \A p \in DOMAIN g : p \in DOMAIN t2 \/ \E i \in 1 .. Len(ats2) : Begins(ats2[i], p)
  <2> SUFFICES ASSUME NEW p \in DOMAIN g, p \notin DOMAIN t2
               PROVE \E i \in 1 .. Len(ats2) : Begins(ats2[i], p)
    OBVIOUS
  <2>1. PICK i \in 1 .. Len(ats) : Begins(ats[i], p)
    BY <1>1, <1>13
  <2>2. CASE i # 1
    <3> DEFINE j == i - 1
    <3>1. j \in 1 .. Len(rest) /\ j + 1 = i
      BY <1>2, <1>3, <2>2
    <3>2. rest[j] = ats[i]
      <4> HIDE DEF j
      <4> QED BY <1>3, <3>1
    <3>3. j \in 1 .. Len(ats2)
      <4> HIDE DEF j
      <4> QED BY <1>11, <1>12, <1>15, <3>1
    <3> HIDE DEF j
    <3> QED BY <1>15, <2>1, <3>1, <3>2, <3>3
  <2>3. CASE i = 1
    <3>1. Begins(at, p) /\ p # at /\ p \in S
      BY <1>2, <1>4, <1>13, <2>1, <2>3
    <3> DEFINE l == p[Len(at) + 1]
    <3>2. l \in 1 .. n /\ Begins(Append(at, l), p)
      BY <1>4, <3>1, BeginsFacts DEF S
    <3> HIDE DEF l
    <3>3. Append(at, l) \in DOMAIN g
      BY <1>1, <1>4, <1>19, <3>1, <3>2, TrieBeginnings DEF S
    <3>4. l \in ToSet(b)
      BY <1>5, <3>2, <3>3
    <3>5. PICK k \in 1 .. Len(found) : found[k] = l
      BY <1>12, <3>4
    <3> QED BY <1>17, <3>2, <3>5
  <2> QED BY <2>2, <2>3
<1>27. Uniting(t2, g, ats2, n)
  BY <1>1, <1>8, <1>22, <1>24, <1>25, <1>26 DEF Uniting
<1> QED BY <1>13, <1>27

\* A sequence, of whatever.
IsSequence(s) == Len(s) \in Nat /\ s = [i \in 1 .. Len(s) |-> s[i]]

\* The states at which the union is to go on.
Ats(s) == [i \in 1 .. Len(s) |-> s[i].at]

\* The head and the tail of a sequence.
LEMMA SequenceFacts ==
  ASSUME NEW s, IsSequence(s), s # <<>>
  PROVE  /\ s \in Seq({s[i] : i \in 1 .. Len(s)})
         /\ Len(s) > 0 /\ Head(s) = s[1] /\ IsSequence(Tail(s)) /\ Len(Tail(s)) = Len(s) - 1
         /\ \A i \in 1 .. Len(s) - 1 : Tail(s)[i] = s[i + 1]
<1>1. s \in Seq({s[i] : i \in 1 .. Len(s)})
  BY DEF IsSequence
<1>2. PICK S : s \in Seq(S)
  BY <1>1
<1>3. /\ Len(s) > 0 /\ Head(s) = s[1] /\ Tail(s) \in Seq(S) /\ Len(Tail(s)) = Len(s) - 1
      /\ \A i \in 1 .. Len(s) - 1 : Tail(s)[i] = s[i + 1]
  BY <1>2
<1>4. IsSequence(Tail(s))
  <2> DEFINE t == Tail(s)
  <2>1. t \in Seq(S)
    BY <1>3
  <2> HIDE DEF t
  <2>2. Len(t) \in Nat /\ t = [i \in 1 .. Len(t) |-> t[i]]
    BY <2>1
  <2> QED BY <2>2 DEF IsSequence, t
<1> QED BY <1>1, <1>3, <1>4

\* A member of Seq is a sequence.
LEMMA SeqIsSequence ==
  ASSUME NEW S, NEW s \in Seq(S)
  PROVE  IsSequence(s) /\ DOMAIN s = 1 .. Len(s)
BY DEF IsSequence

\* And the other way round.
LEMMA SequenceIsSeq ==
  ASSUME NEW s, IsSequence(s)
  PROVE  s \in Seq({s[i] : i \in 1 .. Len(s)})
BY DEF IsSequence

\* One subset: the trie takes a step of the union, and the queue gets the subsets of
\* the labels found.
LEMMA ProcessIsStep ==
  ASSUME NEW n \in Nat, Uniting(trie, ngrams, Ats(queue), n), IsSequence(queue), ProcessSubset
  PROVE  /\ Ats(queue) # <<>> /\ IsSequence(queue')
         /\ MatchedStep(trie, ngrams, Head(Ats(queue)), trie')
         /\ Ats(queue') = Tail(Ats(queue))
              \o Children(Head(Ats(queue)),
                          FoundLabels(trie[Head(Ats(queue))].labels, ngrams[Head(Ats(queue))].labels))
<1>1. queue # <<>> /\ ngrams' = ngrams
  BY DEF ProcessSubset
<1> DEFINE q == Head(queue)
           at == q.at
           a == trie[at].labels
           b == ngrams[at].labels
           both == Matched(a, b)
           new == Kept(b, ToSet(b) \ both)
           shared == Kept(b, both)
           to(l) == Append(at, l)
           vw1(l) == Times(q.v1, trie[to(l)].weight)
           vw2(l) == Times(q.v2, ngrams[to(l)].weight)
           weight(l) == IF l \in both THEN Plus(vw1(l), vw2(l)) ELSE vw2(l)
           v1(l) == IF l \in both THEN Residual(vw1(l), weight(l)) ELSE Residual(One, weight(l))
           v2(l) == Residual(vw2(l), weight(l))
           old(l) == IF l \in both THEN trie[to(l)].final ELSE Zero
           merged(l) ==
             [labels |-> IF l \in both THEN trie[to(l)].labels ELSE <<>>,
              weight |-> weight(l),
              final |-> Plus(Times(v1(l), old(l)), Times(v2(l), ngrams[to(l)].final))]
           reached == {to(l) : l \in ToSet(b)}
           kept == {to(l) : l \in ToSet(a) \ ToSet(b)}
           element(l) == [at |-> to(l), v1 |-> v1(l), v2 |-> v2(l)]
           found == shared \o new
<1>2. trie' = [p \in DOMAIN trie \cup reached |->
                 IF p = q.at THEN [trie[p] EXCEPT !.labels = a \o new]
                 ELSE IF p \in reached THEN merged(Last(p))
                 ELSE IF p \in kept THEN [trie[p] EXCEPT !.weight = Times(q.v1, @)]
                 ELSE trie[p]]
  BY Zenon DEF ProcessSubset
<1>3. queue' = Tail(queue) \o [i \in DOMAIN found |-> element(found[i])]
  BY Zenon DEF ProcessSubset
<1> DEFINE ats == Ats(queue)
<1>4. /\ IsTrie(trie, n) /\ IsTrie(ngrams, n) /\ AscendingTrie(ngrams)
      /\ ats \in Seq(DOMAIN trie \cap DOMAIN ngrams)
  BY DEF Uniting
<1>5. /\ Len(queue) \in Nat /\ Len(queue) > 0 /\ q = queue[1] /\ IsSequence(Tail(queue))
      /\ Len(Tail(queue)) = Len(queue) - 1
      /\ \A i \in 1 .. Len(queue) - 1 : Tail(queue)[i] = queue[i + 1]
  BY <1>1, SequenceFacts DEF IsSequence
<1>6. Len(ats) = Len(queue) /\ \A i \in 1 .. Len(queue) : ats[i] = queue[i].at
  BY <1>5 DEF Ats
<1>7. /\ ats # <<>> /\ Head(ats) = at /\ at \in DOMAIN trie /\ at \in DOMAIN ngrams
      /\ Tail(ats) \in Seq(DOMAIN trie) /\ Len(Tail(ats)) = Len(queue) - 1
      /\ \A i \in 1 .. Len(queue) - 1 : Tail(ats)[i] = queue[i + 1].at
  <2> HIDE DEF ats, at
  <2>1. at = queue[1].at
    BY <1>5 DEF at
  <2> HIDE DEF q
  <2>2. Len(ats) > 0
    BY <1>5, <1>6
  <2> QED BY <1>4, <1>5, <1>6, <2>1, <2>2
<1>8. /\ at \in Seq(1 .. n) /\ a \in Seq(1 .. n) /\ b \in Seq(1 .. n)
      /\ Ascending(a) /\ Ascending(b) /\ NoDups(a) /\ NoDups(b)
  <2>1. \A p \in DOMAIN trie : Begins(ats[1], p) => Ascending(trie[p].labels)
    <3>1. 1 \in 1 .. Len(ats)
      BY <1>5, <1>6
    <3> QED BY <3>1 DEF Uniting
  <2>2. at \in Seq(1 .. n) /\ ats[1] = at
    BY <1>4, <1>5, <1>6, <1>7 DEF IsTrie
  <2>3. Begins(at, at)
    BY <2>2, BeginsFacts
  <2> HIDE DEF at, ats
  <2> QED BY <1>4, <1>7, <2>1, <2>2, <2>3 DEF IsTrie, AscendingTrie
<1>9. FoundLabels(a, b) = found /\ NewLabelsOf(a, b) = new /\ found \in Seq(1 .. n)
  BY <1>8, FoundFacts DEF FoundLabels, NewLabelsOf
<1>10. MatchedStep(trie, ngrams, at, trie')
  <2>1. \A l : IsNode(merged(l)) /\ (l \in both => merged(l).labels = trie[to(l)].labels)
                /\ (l \notin both => merged(l).labels = <<>>)
    BY NodeFacts
  <2>2. \A l \in ToSet(b) : to(l) \in Seq(1 .. n) /\ Last(to(l)) = l /\ to(l) # at
    <3> SUFFICES ASSUME NEW l \in ToSet(b) PROVE to(l) \in Seq(1 .. n) /\ Last(to(l)) = l /\ to(l) # at
      OBVIOUS
    <3>1. l \in 1 .. n /\ at \in Seq(1 .. n)
      <4>1. at \in Seq(1 .. n) /\ b \in Seq(1 .. n)
        BY <1>8
      <4>2. \A c : c \in Seq(1 .. n) => ToSet(c) \subseteq 1 .. n
        BY DEF ToSet
      <4> HIDE DEF b, at
      <4> QED BY <4>1, <4>2
    <3>2. to(l) \in Seq(1 .. n) /\ Last(to(l)) = l /\ Len(to(l)) = Len(at) + 1
      BY ONLY <3>1, AppendFacts DEF to
    <3>3. Len(at) \in Nat
      BY <3>1
    <3> HIDE DEF to, at
    <3> QED BY <3>2, <3>3
  <2>3. \A p \in DOMAIN trie : IsNode(trie[p])
    BY <1>4 DEF IsTrie
  <2>4. DOMAIN trie' = DOMAIN trie \cup reached
    BY <1>2
  <2> HIDE DEF merged, at, a, b, both, new, kept, to
  <2>5. \A p \in DOMAIN trie' : p # at /\ p \in reached => trie'[p] = merged(Last(p))
    BY <1>2 DEF at
  <2>6. \A l \in ToSet(b) : trie'[to(l)] = merged(l)
    <3> SUFFICES ASSUME NEW l \in ToSet(b) PROVE trie'[to(l)] = merged(l)
      OBVIOUS
    <3>1. to(l) \in DOMAIN trie' /\ to(l) \in reached
      BY <2>4
    <3>2. Last(to(l)) = l /\ to(l) # at
      BY <2>2
    <3> QED BY <2>5, <3>1, <3>2
  <2>7. IsNode(trie'[at]) /\ trie'[at].labels = a \o new
    <3>1. trie'[at] = [trie[at] EXCEPT !.labels = a \o new]
      BY <1>2, <1>7 DEF at
    <3> DEFINE r == trie[at]
               u == a \o new
               t == trie'[at]
    <3>2. IsNode(r) /\ t = [r EXCEPT !.labels = u]
      BY <1>7, <2>3, <3>1
    <3> HIDE DEF r, u, t
    <3>3. IsNode(t) /\ t.labels = u
      BY ONLY <3>2, NewLabels
    <3> QED BY <3>3 DEF t, u
  <2>8. ASSUME NEW p \in DOMAIN trie, p # at, p \notin reached
        PROVE  IsNode(trie'[p]) /\ trie'[p].labels = trie[p].labels
    <3>1. CASE p \in kept
      <4>1. trie'[p] = [trie[p] EXCEPT !.weight = Times(q.v1, @)]
        BY <1>2, <2>8, <3>1 DEF at
      <4>2. trie'[p] = [trie[p] EXCEPT !.weight = Times(q.v1, trie[p].weight)]
        BY <4>1
      <4> QED BY <2>3, <4>2, NewWeight
    <3>2. CASE p \notin kept
      <4>1. trie'[p] = trie[p]
        BY <1>2, <2>8, <3>2 DEF at
      <4> QED BY <4>1, <2>3
    <3> QED BY <3>1, <3>2
  <2>9. \A p \in DOMAIN trie' : IsNode(trie'[p])
    BY <2>1, <2>4, <2>5, <2>7, <2>8
  <2>10. \A p \in DOMAIN trie : p # at /\ (\A l \in ToSet(b) : p # to(l)) =>
           trie'[p].labels = trie[p].labels
    BY <2>8
  <2>11. \A l \in ToSet(b) : /\ l \in both => trie'[to(l)].labels = trie[to(l)].labels
                             /\ l \notin both => trie'[to(l)].labels = <<>>
    BY <2>1, <2>6
  <2> QED BY <1>9, <2>4, <2>7, <2>9, <2>10, <2>11 DEF MatchedStep, a, b, to, both
<1>11. IsSequence(queue') /\ Ats(queue') = Tail(ats) \o Children(at, found)
  <2> DEFINE more == [i \in DOMAIN found |-> element(found[i])]
             T == Tail(queue)
             C == Children(at, found)
  <2>1. /\ C \in Seq(Seq(1 .. n)) /\ Len(C) = Len(found)
        /\ \A i \in 1 .. Len(found) : C[i] = to(found[i])
    BY <1>8, <1>9, ChildrenFacts
  <2>2. \A l : element(l).at = to(l)
    OBVIOUS
  <2> HIDE DEF element, found, at, to, C
  <2>3. DOMAIN found = 1 .. Len(found) /\ Len(found) \in Nat
    BY <1>9
  <2>4. /\ more \in Seq({element(found[i]) : i \in 1 .. Len(found)}) /\ Len(more) = Len(found)
        /\ \A i \in 1 .. Len(found) : more[i] = element(found[i])
    BY <2>3
  <2> HIDE DEF more
  <2>5. T \in Seq({T[i] : i \in 1 .. Len(T)}) /\ Len(T) = Len(queue) - 1
    <3>1. IsSequence(T) /\ Len(T) = Len(queue) - 1
      BY <1>5
    <3> HIDE DEF T
    <3> QED BY <3>1, SequenceIsSeq
  <2> DEFINE S == {T[i] : i \in 1 .. Len(T)} \cup {element(found[i]) : i \in 1 .. Len(found)}
  <2>6. T \in Seq(S) /\ more \in Seq(S)
    BY <2>4, <2>5
  <2> HIDE DEF S
  <2>7. \A i \in 1 .. Len(queue) - 1 : T[i] = queue[i + 1]
    BY <1>5
  <2> HIDE DEF T
  <2>8. /\ T \o more \in Seq(S) /\ Len(T \o more) = Len(queue) - 1 + Len(found)
        /\ \A i \in 1 .. Len(queue) - 1 : (T \o more)[i] = T[i]
        /\ \A i \in 1 .. Len(found) : (T \o more)[Len(queue) - 1 + i] = more[i]
    <3>1. /\ T \o more \in Seq(S) /\ Len(T \o more) = Len(T) + Len(more)
          /\ \A i \in 1 .. Len(T) : (T \o more)[i] = T[i]
          /\ \A i \in 1 .. Len(more) : (T \o more)[Len(T) + i] = more[i]
      BY ONLY <2>6, ConcatFacts
    <3> QED BY <2>4, <2>5, <3>1
  <2>9. queue' = T \o more
    BY <1>3 DEF T, more, element
  <2>10. /\ IsSequence(queue') /\ Len(queue') = Len(queue) - 1 + Len(found)
    <3>1. IsSequence(T \o more)
      BY <2>8, SeqIsSequence
    <3> QED BY <2>8, <2>9, <3>1
  <2>11. /\ \A i \in 1 .. Len(queue) - 1 : queue'[i].at = Tail(ats)[i]
         /\ \A i \in 1 .. Len(found) : queue'[Len(queue) - 1 + i].at = C[i]
    BY <1>7, <2>1, <2>2, <2>4, <2>7, <2>8, <2>9
  <2>12. Tail(ats) \in Seq(Seq(1 .. n))
    <3>1. DOMAIN trie \subseteq Seq(1 .. n)
      BY <1>4 DEF IsTrie
    <3> QED BY <1>7, <3>1, SeqOfMore
  <2> DEFINE R == Tail(ats)
  <2>13. R \in Seq(Seq(1 .. n)) /\ Len(R) = Len(queue) - 1
    BY <1>7, <2>12
  <2>14. \A i \in 1 .. Len(queue) - 1 : queue'[i].at = R[i]
    BY <2>11
  <2> HIDE DEF R
  <2>15. /\ R \o C \in Seq(Seq(1 .. n)) /\ Len(R \o C) = Len(R) + Len(C)
         /\ \A i \in 1 .. Len(R) : (R \o C)[i] = R[i]
         /\ \A i \in 1 .. Len(C) : (R \o C)[Len(R) + i] = C[i]
    <3> DEFINE U == Seq(1 .. n)
    <3>1. R \in Seq(U) /\ C \in Seq(U)
      BY <2>1, <2>13
    <3> HIDE DEF U
    <3>2. /\ R \o C \in Seq(U) /\ Len(R \o C) = Len(R) + Len(C)
          /\ \A i \in 1 .. Len(R) : (R \o C)[i] = R[i]
          /\ \A i \in 1 .. Len(C) : (R \o C)[Len(R) + i] = C[i]
      BY ONLY <3>1, ConcatFacts
    <3> QED BY <3>2 DEF U
  <2>16. Len(Ats(queue')) = Len(queue') /\ \A i \in 1 .. Len(queue') : Ats(queue')[i] = queue'[i].at
    BY <2>10 DEF Ats, IsSequence
  <2> DEFINE Q == Len(queue) - 1
  <2>17. Q \in Nat
    BY <1>5
  <2>18. \A i \in 1 .. Q + Len(found) : i \in 1 .. Q \/ (i - Q \in 1 .. Len(found) /\ i = Q + (i - Q))
    BY <2>3, <2>17
  <2>19. ASSUME NEW i \in 1 .. Q + Len(found) PROVE queue'[i].at = (R \o C)[i]
    <3>1. CASE i \in 1 .. Q
      BY <2>13, <2>14, <2>15, <3>1
    <3>2. CASE i - Q \in 1 .. Len(found) /\ i = Q + (i - Q)
      <4> DEFINE j == i - Q
      <4>1. j \in 1 .. Len(found) /\ i = Q + j
        BY <3>2
      <4> HIDE DEF j
      <4>2. queue'[Q + j].at = C[j] /\ (R \o C)[Q + j] = C[j]
        BY <2>1, <2>11, <2>13, <2>15, <4>1
      <4> QED BY <4>1, <4>2
    <3> QED BY <2>18, <3>1, <3>2
  <2>20. Ats(queue') \in Seq({queue'[i].at : i \in 1 .. Len(queue')})
    BY <2>10 DEF Ats, IsSequence
  <2> QED
    <3>1. Len(Ats(queue')) = Len(R \o C)
      BY <2>1, <2>10, <2>13, <2>15, <2>16
    <3>2. DOMAIN Ats(queue') = 1 .. Len(queue') /\ DOMAIN (R \o C) = 1 .. Len(R \o C)
      BY <2>10, <2>15 DEF Ats, IsSequence
    <3>3. \A i \in 1 .. Len(queue') : Ats(queue')[i] = (R \o C)[i]
      BY <2>10, <2>16, <2>19
    <3>4. Ats(queue') = [i \in 1 .. Len(queue') |-> Ats(queue')[i]]
      BY DEF Ats
    <3>5. R \o C = [i \in 1 .. Len(R \o C) |-> (R \o C)[i]]
      <4>1. IsSequence(R \o C)
        BY <2>15, SeqIsSequence
      <4> QED BY <4>1 DEF IsSequence
    <3>6. Ats(queue') = R \o C
      BY <2>16, <3>1, <3>3, <3>4, <3>5
    <3> QED BY <2>10, <3>6 DEF R, C
<1> QED BY <1>7, <1>9, <1>10, <1>11

-----------------------------------------------------------------------------

\* A fold over a set that is numbered: the symbols that getEssentialSets adds.

\* The function that FoldSet chooses, on the sets of n elements at most.
FoldsOver(f, base, S, n, g) ==
  g = [s \in {s \in SUBSET S : Cardinality(s) <= n} |->
         IF s = {} THEN base
         ELSE f[<<CHOOSE x \in s : TRUE, g[s \ {CHOOSE x \in s : TRUE}]>>]]
FoldableTo(f, base, S, A, n) ==
  \E g \in [{s \in SUBSET S : Cardinality(s) <= n} -> A] : FoldsOver(f, base, S, n, g)

\* On all sets of elements.
FoldResult(f, base, S, g) ==
  g = [s \in SUBSET S |->
         IF s = {} THEN base
         ELSE f[<<CHOOSE x \in s : TRUE, g[s \ {CHOOSE x \in s : TRUE}]>>]]

\* There is such a function, and it stays in the range of the operation.
LEMMA FoldExists ==
  ASSUME NEW S, IsFiniteSet(S), NEW A, NEW base \in A, NEW f \in [S \X A -> A]
  PROVE  \E g \in [SUBSET S -> A] : FoldResult(f, base, S, g)
<1> DEFINE N == Cardinality(S)
           Of(n) == {s \in SUBSET S : Cardinality(s) <= n}
           one(s) == CHOOSE x \in s : TRUE
           G == {n \in 0 .. N : FoldableTo(f, base, S, A, n)}
<1>1. \A s \in SUBSET S : /\ IsFiniteSet(s) /\ Cardinality(s) \in Nat /\ Cardinality(s) <= N
                          /\ Cardinality(s) = 0 <=> s = {}
  BY FS_Subset, FS_CardinalityType, FS_EmptySet
<1>2. N \in Nat
  BY FS_CardinalityType
<1>3. \A s \in SUBSET S : s # {} => /\ one(s) \in s /\ s \ {one(s)} \in SUBSET S
                                    /\ Cardinality(s \ {one(s)}) = Cardinality(s) - 1
  <2> SUFFICES ASSUME NEW s \in SUBSET S, s # {}
               PROVE /\ one(s) \in s /\ s \ {one(s)} \in SUBSET S
                     /\ Cardinality(s \ {one(s)}) = Cardinality(s) - 1
    OBVIOUS
  <2>1. one(s) \in s
    OBVIOUS
  <2> HIDE DEF one
  <2> QED BY <1>1, <2>1, FS_RemoveElement
<1>4. 0 \in G
  <2> DEFINE g == [s \in Of(0) |-> base]
  <2>1. \A s \in Of(0) : s = {}
    BY <1>1
  <2>2. g = [s \in Of(0) |-> IF s = {} THEN base ELSE f[<<one(s), g[s \ {one(s)}]>>]]
    BY <2>1
  <2>3. FoldsOver(f, base, S, 0, g)
    BY <2>2 DEF FoldsOver
  <2>4. g \in [Of(0) -> A]
    OBVIOUS
  <2> HIDE DEF g
  <2>5. FoldableTo(f, base, S, A, 0)
    BY <2>3, <2>4 DEF FoldableTo
  <2>6. 0 \in 0 .. N
    BY <1>2
  <2> QED BY <2>5, <2>6
<1>5. ASSUME NEW n \in 0 .. N - 1, n \in G PROVE n + 1 \in G
  <2>1. PICK g \in [Of(n) -> A] : FoldsOver(f, base, S, n, g)
    BY <1>5 DEF FoldableTo
  <2> HIDE DEF one
  <2>2. g = [s \in Of(n) |-> IF s = {} THEN base ELSE f[<<one(s), g[s \ {one(s)}]>>]]
    BY <2>1 DEF FoldsOver, one
  <2> DEFINE m == n + 1
  <2>3. m \in 1 .. N /\ m \in 0 .. N /\ n = m - 1 /\ n < m /\ n \in Nat /\ m \in Nat
    BY <1>2
  <2>4. \A s \in Of(m) : s \in SUBSET S /\ (Cardinality(s) # m => s \in Of(n))
                         /\ (Cardinality(s) = m => s # {} /\ s \ {one(s)} \in Of(n))
                         /\ (s # {} => s \ {one(s)} \in Of(n) /\ Cardinality(s \ {one(s)}) # m)
    <3> HIDE DEF m
    <3> QED BY <1>1, <1>3, <2>3
  <2>e. \A s \in Of(n) : s \in Of(m) /\ Cardinality(s) # m
    <3> HIDE DEF m
    <3> QED BY <1>1, <2>3
  <2> DEFINE h == [s \in Of(m) |-> IF Cardinality(s) = m THEN f[<<one(s), g[s \ {one(s)}]>>] ELSE g[s]]
  <2> HIDE DEF m, Of
  <2>5. h \in [Of(m) -> A]
    <3> SUFFICES ASSUME NEW s \in Of(m) PROVE h[s] \in A
      OBVIOUS
    <3>1. CASE Cardinality(s) = m
      <4>1. one(s) \in S /\ g[s \ {one(s)}] \in A
        BY <1>3, <2>4, <3>1
      <4> QED BY <3>1, <4>1
    <3>2. CASE Cardinality(s) # m
      BY <2>4, <3>2
    <3> QED BY <3>1, <3>2
  <2>6. ASSUME NEW s \in Of(m)
        PROVE  h[s] = IF s = {} THEN base ELSE f[<<one(s), h[s \ {one(s)}]>>]
    <3>1. s # {} => s \ {one(s)} \in Of(m) /\ h[s \ {one(s)}] = g[s \ {one(s)}]
      BY <2>4, <2>e
    <3>2. CASE Cardinality(s) = m
      BY <2>4, <3>1, <3>2
    <3>3. CASE Cardinality(s) # m
      BY <2>2, <2>4, <3>1, <3>3
    <3> QED BY <3>2, <3>3
  <2>7. h = [s \in Of(m) |-> IF s = {} THEN base ELSE f[<<one(s), h[s \ {one(s)}]>>]]
    <3>1. h = [s \in Of(m) |-> h[s]]
      OBVIOUS
    <3> HIDE DEF h
    <3> QED BY <2>6, <3>1
  <2> HIDE DEF h
  <2>8. FoldsOver(f, base, S, m, h)
    BY <2>7 DEF FoldsOver, Of, one
  <2> QED BY <2>3, <2>5, <2>8 DEF FoldableTo, Of, m
<1>6. N \in G
  <2> HIDE DEF G, N
  <2>1. \A n \in 0 .. N : n \in G
    BY <1>2, <1>4, <1>5, UpTo
  <2> QED BY <1>2, <2>1
<1>7. PICK g \in [Of(N) -> A] : FoldsOver(f, base, S, N, g)
  BY <1>6 DEF FoldableTo
<1>8. Of(N) = SUBSET S
  BY <1>1
<1>9. FoldResult(f, base, S, g)
  <2>1. {s \in SUBSET S : Cardinality(s) <= N} = SUBSET S
    BY <1>8
  <2> HIDE DEF N, Of
  <2> QED BY ONLY <1>7, <2>1 DEF FoldsOver, FoldResult
<1> HIDE DEF N, Of
<1> QED BY ONLY <1>7, <1>8, <1>9

\* The symbols that may become essential are in the table.
LEMMA EssentialInTable ==
  ASSUME NEW n \in Nat, Len(table) = n, DOMAIN table = 1 .. n, IsTrie(trie, n), NEW E \in EssentialSets
  PROVE  E \subseteq DOMAIN table
<1> SUFFICES ASSUME opts.code = "v3" PROVE E \subseteq DOMAIN table
  <2>1. opts.code # "v3" => EssentialSets = {DOMAIN table}
    BY Zenon DEF EssentialSets, FoldSet, MapThenFoldSet
  <2> QED BY <2>1
<1> DEFINE unigrams == ToSet(trie[<<>>].labels)
           inputs == {table[l].in : l \in unigrams}
           group(i) == {l \in unigrams : table[l].in = i}
           count == Tabulated([l \in unigrams |-> PathWeight(trie, <<l>>)])
           op(i, sets) == Unions(sets, Covering(group(i), count))
           A == SUBSET SUBSET DOMAIN table
           f == [p \in inputs \X A |-> op(p[1], p[2])]
           R(g) == g = [s \in SUBSET inputs |->
                          IF s = {} THEN {IdentitySyms}
                          ELSE op(CHOOSE x \in s : TRUE, g[s \ {CHOOSE x \in s : TRUE}])]
           h == CHOOSE g : R(g)
<1>1. EssentialSets = h[inputs]
  BY Zenon DEF EssentialSets, FoldSet, MapThenFoldSet
<1>2. unigrams \in SUBSET DOMAIN table /\ IsFiniteSet(unigrams)
  <2>1. unigrams = {l \in 1 .. n : Append(Root, l) \in DOMAIN trie}
    BY DEF IsTrie, Root
  <2> QED BY <2>1, SetsOfLabels
<1>3. IsFiniteSet(inputs)
  <2> DEFINE u == [l \in unigrams |-> table[l].in]
  <2> HIDE DEF unigrams
  <2>1. u \in Surjection(unigrams, inputs)
    BY DEF Surjection
  <2> QED BY <1>2, <2>1, FS_Surjection
<1>4. \A i \in inputs, sets \in A : op(i, sets) \in A
  <2>1. \A i : \A T \in Covering(group(i), count) : T \subseteq DOMAIN table
    BY <1>2 DEF Covering
  <2>2. \A sets \in A : \A S \in sets : S \subseteq DOMAIN table
    OBVIOUS
  <2> HIDE DEF group, count, inputs
  <2> QED BY <2>1, <2>2 DEF Unions
<1>5. f \in [inputs \X A -> A]
  <2> HIDE DEF op, inputs, A
  <2> QED BY <1>4
<1>6. {IdentitySyms} \in A
  BY DEF IdentitySyms
<1>7. PICK g \in [SUBSET inputs -> A] : FoldResult(f, {IdentitySyms}, inputs, g)
  <2> HIDE DEF f, inputs, A
  <2> QED BY <1>3, <1>5, <1>6, FoldExists
<1>8. R(g)
  <2> HIDE DEF op, inputs, A
  <2>1. \A s \in SUBSET inputs : s # {} =>
          f[<<CHOOSE x \in s : TRUE, g[s \ {CHOOSE x \in s : TRUE}]>>]
            = op(CHOOSE x \in s : TRUE, g[s \ {CHOOSE x \in s : TRUE}])
    <3> SUFFICES ASSUME NEW s \in SUBSET inputs, s # {}, NEW x, x = CHOOSE z \in s : TRUE
                 PROVE  f[<<x, g[s \ {x}]>>] = op(x, g[s \ {x}])
      OBVIOUS
    <3>1. x \in inputs /\ g[s \ {x}] \in A
      OBVIOUS
    <3> QED BY <3>1
  <2> HIDE DEF f
  <2> QED BY <1>7, <2>1 DEF FoldResult
<1>9. R(h)
  <2> HIDE DEF R
  <2> QED BY <1>8
<1> HIDE DEF h
<1>10. h[inputs] \in A
  <2> DEFINE G == [s \in SUBSET inputs |-> h[s]]
  <2>1. ASSUME h[inputs] \notin A PROVE FALSE
    <3> DEFINE Bad == {s \in SUBSET inputs : h[s] \notin A}
    <3>1. Bad \in SUBSET SUBSET inputs /\ Bad # {}
      BY <2>1
    <3>2. PICK t \in Bad : \A u \in Bad : u \subseteq t => u = t
      <4> HIDE DEF Bad, inputs
      <4> QED BY <1>3, <3>1, SmallestSet
    <3> HIDE DEF inputs, A, op
    <3>3. t # {}
      BY <1>6, <1>9, <3>2
    <3>4. PICK x \in t : x = CHOOSE z \in t : TRUE
      BY <3>3
    <3>5. h[t] = op(x, h[t \ {x}])
      BY <1>9, <3>2, <3>3, <3>4
    <3>6. t \ {x} \in SUBSET inputs /\ t \ {x} \notin Bad
      BY <3>2, <3>4
    <3>7. h[t \ {x}] \in A /\ x \in inputs
      BY <3>2, <3>4, <3>6
    <3> QED BY <1>4, <3>2, <3>5, <3>7
  <2> QED BY <2>1
<1> QED BY <1>1, <1>10

\* What sequences make together: their elements, once each if no two share one.
LEMMA FlattenIs ==
  ASSUME NEW T, NEW seqs \in Seq(Seq(T))
  PROVE  /\ FlattenSeq(seqs) \in Seq(T)
         /\ ToSet(FlattenSeq(seqs)) = UNION {ToSet(seqs[i]) : i \in 1 .. Len(seqs)}
         /\ (\A i \in 1 .. Len(seqs) : NoDups(seqs[i]))
            /\ (\A i, j \in 1 .. Len(seqs) : i # j => ToSet(seqs[i]) \cap ToSet(seqs[j]) = {})
              => NoDups(FlattenSeq(seqs))
<1> DEFINE n == Len(seqs)
           Apart == /\ \A i \in 1 .. n : NoDups(seqs[i])
                    /\ \A i, j \in 1 .. n : i # j => ToSet(seqs[i]) \cap ToSet(seqs[j]) = {}
<1>1. PICK g : FlattenRun(T, seqs, g)
  BY FlattenSteps
<1>2. /\ g \in [0 .. n -> Seq(T)] /\ g[0] = <<>> /\ FlattenSeq(seqs) = g[n]
      /\ \A k \in 1 .. n : g[k] = g[k - 1] \o seqs[k]
  BY <1>1 DEF FlattenRun
<1>3. n \in Nat /\ \A i \in 1 .. n : seqs[i] \in Seq(T)
  OBVIOUS
<1> HIDE DEF n
<1> DEFINE All(k) == UNION {ToSet(seqs[i]) : i \in 1 .. k}
           G == {k \in 0 .. n : ToSet(g[k]) = All(k) /\ (Apart => NoDups(g[k]))}
<1>4. 0 \in G
  <2>1. All(0) = {}
    OBVIOUS
  <2>2. 0 \in 0 .. n
    BY <1>3
  <2> HIDE DEF All, Apart
  <2> QED BY <1>2, <2>1, <2>2, EmptyFacts
<1>5. ASSUME NEW k \in 0 .. n - 1, k \in G PROVE k + 1 \in G
  <2> DEFINE m == k + 1
  <2>1. m \in 1 .. n /\ m \in 0 .. n /\ k = m - 1 /\ m \in Nat /\ k \in 0 .. n
    BY <1>3
  <2>2. All(m) = All(k) \cup ToSet(seqs[m])
    <3>1. 1 .. m = (1 .. k) \cup {m}
      BY <2>1
    <3> HIDE DEF m
    <3> QED BY <3>1
  <2> HIDE DEF m, All
  <2>3. g[m] = g[k] \o seqs[m] /\ g[k] \in Seq(T) /\ seqs[m] \in Seq(T)
    BY <1>2, <1>3, <2>1
  <2>4. ToSet(g[k]) = All(k) /\ (Apart => NoDups(g[k]))
    BY <1>5
  <2>5. ToSet(g[m]) = ToSet(g[k]) \cup ToSet(seqs[m])
    <3>1. ToSet(g[k] \o seqs[m]) = ToSet(g[k]) \cup ToSet(seqs[m])
      BY ONLY <2>3, ConcatFacts
    <3> QED BY <2>3, <3>1
  <2>6. ASSUME Apart PROVE NoDups(g[m])
    <3>1. ToSet(g[k]) \cap ToSet(seqs[m]) = {}
      <4> SUFFICES ASSUME NEW x \in ToSet(g[k]), x \in ToSet(seqs[m]) PROVE FALSE
        OBVIOUS
      <4>1. PICK i \in 1 .. k : x \in ToSet(seqs[i])
        BY <2>4 DEF All
      <4>2. i \in 1 .. n /\ i # m
        BY <1>3, <2>1
      <4>3. \A j, u \in 1 .. n : j # u => ToSet(seqs[j]) \cap ToSet(seqs[u]) = {}
        BY <2>6
      <4>4. ToSet(seqs[i]) \cap ToSet(seqs[m]) = {}
        BY <2>1, <4>2, <4>3
      <4> QED BY <4>1, <4>4
    <3>2. NoDups(g[k]) /\ NoDups(seqs[m])
      BY <2>1, <2>4, <2>6
    <3>3. NoDups(g[k] \o seqs[m])
      BY ONLY <2>3, <3>1, <3>2, ConcatFacts
    <3> QED BY <2>3, <3>3
  <2> HIDE DEF Apart
  <2>7. m \in G
    BY <2>1, <2>2, <2>4, <2>5, <2>6
  <2> QED BY <2>7 DEF m
<1>6. n \in G
  <2> HIDE DEF G
  <2>1. \A k \in 0 .. n : k \in G
    BY <1>3, <1>4, <1>5, UpTo
  <2>2. n \in 0 .. n
    BY <1>3
  <2> QED BY <2>1, <2>2
<1>7. g[n] \in Seq(T)
  BY <1>2, <1>3
<1> QED BY <1>2, <1>6, <1>7 DEF n

\* A table that has each symbol once, S|S and E|E among them, and no other form of these,
\* nor of S or E alone.
IsTable(t) ==
  /\ t \in Seq(AnySymbol) /\ NoDups(t) /\ StartSym \in ToSet(t) /\ EndSym \in ToSet(t)
  /\ \A s \in ToSet(t) : IsAlignmentSym(s) /\ (IsSpecial(Nola(s)) => IsSpecial(s))

\* The forms of each symbol of t; e says which symbol they are forms of.
Splits(t, seqs, e) ==
  /\ seqs \in Seq(Seq(AnySymbol)) /\ Len(seqs) = Len(t)
  /\ \A l \in 1 .. Len(t) : /\ NoDups(seqs[l]) /\ (IsSpecial(t[l]) => seqs[l] = <<t[l]>>)
                             /\ \A s \in ToSet(seqs[l]) : e[s] = t[l] /\ Nola(s) = Nola(t[l])

\* If each symbol but S|S and E|E is replaced by forms of it, that e tells apart, then
\* the table remains one.
LEMMA SplitTable ==
  ASSUME NEW t, IsTable(t), NEW seqs, NEW e, Splits(t, seqs, e)
  PROVE  IsTable(FlattenSeq(seqs))
<1>0. /\ seqs \in Seq(Seq(AnySymbol)) /\ Len(seqs) = Len(t)
      /\ \A l \in 1 .. Len(t) : /\ NoDups(seqs[l]) /\ (IsSpecial(t[l]) => seqs[l] = <<t[l]>>)
                                 /\ \A s \in ToSet(seqs[l]) : e[s] = t[l] /\ Nola(s) = Nola(t[l])
  BY DEF Splits
<1> DEFINE f == FlattenSeq(seqs)
<1>1. /\ f \in Seq(AnySymbol)
      /\ ToSet(f) = UNION {ToSet(seqs[i]) : i \in 1 .. Len(seqs)}
      /\ (\A i \in 1 .. Len(seqs) : NoDups(seqs[i]))
         /\ (\A i, j \in 1 .. Len(seqs) : i # j => ToSet(seqs[i]) \cap ToSet(seqs[j]) = {})
           => NoDups(f)
  BY <1>0, FlattenIs
<1> HIDE DEF f
<1>2. t \in Seq(AnySymbol) /\ DOMAIN t = 1 .. Len(t) /\ NoDups(t)
  BY DEF IsTable
<1>3. NoDups(f)
  <2>1. ASSUME NEW i \in 1 .. Len(seqs), NEW j \in 1 .. Len(seqs), i # j
        PROVE  ToSet(seqs[i]) \cap ToSet(seqs[j]) = {}
    <3>1. t[i] # t[j]
      BY <1>0, <1>2, <2>1 DEF NoDups
    <3> QED BY <1>0, <3>1
  <2> QED BY <1>0, <1>1, <2>1
<1>4. ASSUME NEW s \in ToSet(t), IsSpecial(s) PROVE s \in ToSet(f)
  <2>1. PICK l \in 1 .. Len(t) : s = t[l]
    BY <1>2 DEF ToSet
  <2>2. seqs[l] = <<s>>
    BY <1>0, <1>4, <2>1
  <2>3. s \in ToSet(seqs[l])
    BY <2>2 DEF ToSet
  <2> QED BY <1>0, <1>1, <2>1, <2>3
<1>5. StartSym \in ToSet(f) /\ EndSym \in ToSet(f)
  <2>1. IsSpecial(StartSym) /\ IsSpecial(EndSym)
    BY DEF IsSpecial
  <2> QED BY <1>4, <2>1 DEF IsTable
<1>6. ASSUME NEW s \in ToSet(f), IsSpecial(Nola(s)) PROVE IsSpecial(s)
  <2>1. PICK l \in 1 .. Len(t) : s \in ToSet(seqs[l])
    BY <1>0, <1>1
  <2>2. IsSpecial(Nola(t[l])) /\ t[l] \in ToSet(t)
    BY <1>0, <1>2, <1>6, <2>1 DEF ToSet
  <2>3. IsSpecial(t[l])
    BY <2>2 DEF IsTable
  <2>4. seqs[l] = <<t[l]>>
    BY <1>0, <2>3
  <2>5. s = t[l]
    BY <2>1, <2>4 DEF ToSet
  <2> QED BY <2>3, <2>5
<1>7. ASSUME NEW s \in ToSet(f) PROVE IsAlignmentSym(s)
  <2>1. PICK l \in 1 .. Len(t) : s \in ToSet(seqs[l])
    BY <1>0, <1>1
  <2>2. Nola(s) = Nola(t[l])
    BY <1>0, <2>1
  <2>3. s.in = t[l].in /\ s.out = t[l].out
    <3>1. \A x : Nola(x).in = x.in /\ Nola(x).out = x.out
      BY DEF Nola, Symbol
    <3> QED BY <2>2, <3>1
  <2>4. IsAlignmentSym(t[l])
    BY <1>2 DEF IsTable, ToSet
  <2> QED BY <2>3, <2>4 DEF IsAlignmentSym
<1> QED BY <1>1, <1>3, <1>5, <1>6, <1>7 DEF IsTable, f

-----------------------------------------------------------------------------

\* The table of symbols stays in order, whatever classes and regions are added.

\* The symbols that have no annotation.
Plain(t) == IsTable(t) /\ \A s \in ToSet(t) : s.c = 0 /\ s.g = Unannotated /\ Nola(s) = s

\* A table of letters, with epsilon, S and E.
LEMMA LetterTable ==
  ASSUME NEW letters \in {ILetters, OLetters}, NEW t, t = <<Eps, "S", "E">> \o letters
  PROVE  t \in Seq(Letter) /\ NoDups(t) /\ Len(t) >= 3 /\ t[2] = "S" /\ t[3] = "E"
<1>1. /\ letters \in Seq(STRING) /\ NoDups(letters)
      /\ \A i \in DOMAIN letters : letters[i] \notin {Eps, "S", "E"}
  BY LettersAssumption DEF NoDups
<1> DEFINE hooks == <<Eps, "S", "E">>
<1>2. letters \in Seq(Letter)
  BY <1>1 DEF Letter
<1>3. /\ hooks \in Seq(Letter) /\ NoDups(hooks) /\ ToSet(hooks) = {Eps, "S", "E"} /\ Len(hooks) = 3
      /\ hooks[2] = "S" /\ hooks[3] = "E"
  <2>1. Eps # "S" /\ Eps # "E" /\ "S" # "E"
    BY DEF Eps
  <2> QED BY <2>1 DEF Letter, NoDups, ToSet
<1>4. ToSet(letters) \cap {Eps, "S", "E"} = {}
  BY <1>1 DEF ToSet
<1> HIDE DEF hooks
<1>5. /\ hooks \o letters \in Seq(Letter) /\ Len(hooks \o letters) = Len(hooks) + Len(letters)
      /\ \A i \in 1 .. Len(hooks) : (hooks \o letters)[i] = hooks[i]
      /\ NoDups(hooks \o letters)
  <2>1. ToSet(hooks) \cap ToSet(letters) = {} /\ hooks \in Seq(Letter) /\ NoDups(hooks)
    BY <1>3, <1>4
  <2>2. NoDups(letters) /\ letters \in Seq(Letter)
    BY <1>1, <1>2
  <2> QED BY ONLY <2>1, <2>2, ConcatFacts
<1>6. Len(letters) \in Nat
  BY <1>2
<1> QED BY <1>3, <1>5, <1>6 DEF hooks

\* The table of all pairs of letters.
LEMMA AllSymbolsTable == Plain(CreateAlignmentSymbolTable)
<1> DEFINE I == <<Eps, "S", "E">> \o ILetters
           O == <<Eps, "S", "E">> \o OLetters
           row(i) == [o \in DOMAIN O |-> Symbol(I[i], O[o])]
           rows == [i \in DOMAIN I |-> row(i)]
           all == FlattenSeq(rows)
           S == {s \in ToSet(all) : IsAlignmentSym(s)}
<1>1. CreateAlignmentSymbolTable = Kept(all, S)
  BY Zenon DEF CreateAlignmentSymbolTable
<1>2. /\ I \in Seq(Letter) /\ NoDups(I) /\ Len(I) >= 3 /\ I[2] = "S" /\ I[3] = "E"
      /\ O \in Seq(Letter) /\ NoDups(O) /\ Len(O) >= 3 /\ O[2] = "S" /\ O[3] = "E"
  <2> HIDE DEF I, O
  <2> QED BY LetterTable DEF I, O
<1> HIDE DEF I, O
<1>3. /\ DOMAIN I = 1 .. Len(I) /\ Len(I) \in Nat /\ DOMAIN O = 1 .. Len(O) /\ Len(O) \in Nat
      /\ \A i \in 1 .. Len(I) : I[i] \in Letter
      /\ \A i \in 1 .. Len(O) : O[i] \in Letter
  BY <1>2
<1>4. \A a, b \in Letter : /\ Symbol(a, b) \in BasicSymbol /\ Nola(Symbol(a, b)) = Symbol(a, b)
                           /\ Symbol(a, b).in = a /\ Symbol(a, b).out = b
  BY DEF Symbol, BasicSymbol, Nola
<1>5. \A i \in 1 .. Len(I) : row(i) \in Seq(BasicSymbol) /\ NoDups(row(i))
  <2> SUFFICES ASSUME NEW i \in 1 .. Len(I) PROVE row(i) \in Seq(BasicSymbol) /\ NoDups(row(i))
    OBVIOUS
  <2>1. \A o \in 1 .. Len(O) : Symbol(I[i], O[o]) \in BasicSymbol /\ Symbol(I[i], O[o]).out = O[o]
    BY <1>3, <1>4
  <2>2. row(i) = [o \in 1 .. Len(O) |-> Symbol(I[i], O[o])]
    BY <1>3
  <2> HIDE DEF row
  <2>3. row(i) \in Seq(BasicSymbol)
    BY <1>3, <2>1, <2>2
  <2>4. \A o, u \in 1 .. Len(O) : row(i)[o] = row(i)[u] => O[o] = O[u]
    BY <2>1, <2>2
  <2>5. DOMAIN row(i) = 1 .. Len(O)
    BY <2>2
  <2>6. \A o, u \in 1 .. Len(O) : O[o] = O[u] => o = u
    BY <1>2, <1>3 DEF NoDups
  <2> QED BY <2>3, <2>4, <2>5, <2>6 DEF NoDups
<1>6. /\ rows \in Seq(Seq(BasicSymbol)) /\ Len(rows) = Len(I)
      /\ \A i \in 1 .. Len(I) : rows[i] = row(i)
  <2> HIDE DEF row
  <2> QED BY <1>3, <1>5
<1>7. \A i \in 1 .. Len(I) : ToSet(row(i)) = {Symbol(I[i], O[o]) : o \in 1 .. Len(O)}
  BY <1>3 DEF ToSet
<1> HIDE DEF rows, row
<1>8. /\ all \in Seq(BasicSymbol)
      /\ ToSet(all) = UNION {ToSet(rows[i]) : i \in 1 .. Len(rows)}
      /\ (\A i \in 1 .. Len(rows) : NoDups(rows[i]))
         /\ (\A i, j \in 1 .. Len(rows) : i # j => ToSet(rows[i]) \cap ToSet(rows[j]) = {})
           => NoDups(all)
  BY <1>6, FlattenIs
<1> HIDE DEF all
<1>9. ToSet(all) = {Symbol(I[i], O[o]) : i \in 1 .. Len(I), o \in 1 .. Len(O)}
  <2>1. \A i \in 1 .. Len(I) : ToSet(rows[i]) = {Symbol(I[i], O[o]) : o \in 1 .. Len(O)}
    BY <1>6, <1>7
  <2>2. ToSet(all) = UNION {ToSet(rows[i]) : i \in 1 .. Len(I)}
    BY <1>6, <1>8
  <2>3. \A s : s \in ToSet(all) <=> \E i \in 1 .. Len(I), o \in 1 .. Len(O) : s = Symbol(I[i], O[o])
    <3> SUFFICES ASSUME NEW s PROVE s \in ToSet(all) <=> \E i \in 1 .. Len(I), o \in 1 .. Len(O) : s = Symbol(I[i], O[o])
      OBVIOUS
    <3>1. s \in ToSet(all) <=> \E i \in 1 .. Len(I) : s \in ToSet(rows[i])
      BY <2>2
    <3>2. \A i \in 1 .. Len(I) : s \in ToSet(rows[i]) <=> \E o \in 1 .. Len(O) : s = Symbol(I[i], O[o])
      BY <2>1
    <3> QED BY ONLY <3>1, <3>2
  <2> QED BY ONLY <2>3
<1>10. NoDups(all)
  <2>1. ASSUME NEW i \in 1 .. Len(I), NEW j \in 1 .. Len(I), i # j
        PROVE  ToSet(rows[i]) \cap ToSet(rows[j]) = {}
    <3> SUFFICES ASSUME NEW s \in ToSet(rows[i]), s \in ToSet(rows[j]) PROVE FALSE
      OBVIOUS
    <3>2. I[i] = I[j]
      <4>1. PICK o \in 1 .. Len(O) : s = Symbol(I[i], O[o])
        BY <1>6, <1>7
      <4>2. PICK u \in 1 .. Len(O) : s = Symbol(I[j], O[u])
        <5>1. ToSet(rows[j]) = {Symbol(I[j], O[u]) : u \in 1 .. Len(O)}
          BY <1>6, <1>7
        <5> QED BY <5>1
      <4>3. Symbol(I[i], O[o]) = Symbol(I[j], O[u])
        BY <4>1, <4>2
      <4> QED BY <4>3 DEF Symbol
    <3>3. I[i] # I[j]
      BY <1>2, <1>3, <2>1 DEF NoDups
    <3> QED BY <3>2, <3>3
  <2> QED BY <1>5, <1>6, <1>8, <2>1
<1>11. ToSet(all) \subseteq BasicSymbol /\ \A s \in ToSet(all) : Nola(s) = s
  BY <1>3, <1>4, <1>9
<1>12. StartSym \in S /\ EndSym \in S
  <2>1. StartSym \in ToSet(all) /\ EndSym \in ToSet(all)
    <3>1. 2 \in 1 .. Len(I) /\ 3 \in 1 .. Len(I) /\ 2 \in 1 .. Len(O) /\ 3 \in 1 .. Len(O)
      BY <1>2, <1>3
    <3> QED BY <1>2, <1>9, <3>1 DEF StartSym, EndSym
  <2>2. IsAlignmentSym(StartSym) /\ IsAlignmentSym(EndSym)
    BY DEF IsAlignmentSym, StartSym, EndSym, Symbol, Eps
  <2> QED BY <2>1, <2>2
<1>0. \A s \in S : IsAlignmentSym(s)
  OBVIOUS
<1> HIDE DEF S
<1>13. /\ Kept(all, S) \in Seq(BasicSymbol) /\ ToSet(Kept(all, S)) = ToSet(all) \cap S
       /\ NoDups(Kept(all, S))
  BY <1>8, <1>10, KeptIs
<1>14. Kept(all, S) \in Seq(AnySymbol)
  BY <1>13, BasicIsAny, SeqOfMore
<1>15. \A s \in ToSet(Kept(all, S)) : s.c = 0 /\ s.g = Unannotated /\ Nola(s) = s
  BY <1>11, <1>13 DEF BasicSymbol
<1>16. StartSym \in ToSet(Kept(all, S)) /\ EndSym \in ToSet(Kept(all, S))
  <2>1. StartSym \in ToSet(all) /\ EndSym \in ToSet(all)
    BY <1>12 DEF S
  <2> QED BY <1>12, <1>13, <2>1
<1> QED BY <1>0, <1>1, <1>13, <1>14, <1>15, <1>16 DEF Plain, IsTable

\* The symbols of some alignments, and all that stay the same.
LEMMA IdentityCharsTable == ASSUME NEW aligned PROVE Plain(AddIdentityChars(aligned))
<1> DEFINE all == CreateAlignmentSymbolTable
           S == aligned \cup {s \in ToSet(all) : ~ IsChange(s)}
<1>1. AddIdentityChars(aligned) = Kept(all, S)
  BY DEF AddIdentityChars
<1>2. Plain(all)
  BY AllSymbolsTable
<1>3. ~ IsChange(StartSym) /\ ~ IsChange(EndSym)
  BY DEF IsChange, StartSym, EndSym, Symbol
<1> HIDE DEF all
<1>4. StartSym \in ToSet(all) \cap S /\ EndSym \in ToSet(all) \cap S
  BY <1>2, <1>3 DEF Plain, IsTable
<1> HIDE DEF S
<1>5. all \in Seq(AnySymbol) /\ NoDups(all)
  BY <1>2 DEF Plain, IsTable
<1>6. /\ Kept(all, S) \in Seq(AnySymbol) /\ ToSet(Kept(all, S)) = ToSet(all) \cap S
      /\ NoDups(Kept(all, S))
  BY <1>5, KeptIs
<1> QED BY <1>1, <1>2, <1>4, <1>6 DEF Plain, IsTable

\* A symbol with a class or a region, and without it.
InClass(t, s, n) == t = [s EXCEPT !.c = n]
InRegion(t, s, n) == t = [s EXCEPT !.g = n]
NoClass == [s \in AnySymbol |-> [s EXCEPT !.c = 0]]
NoRegion == [s \in AnySymbol |-> [s EXCEPT !.g = Unannotated]]

\* A symbol with a class, which can be taken off again.
LEMMA WithClass ==
  ASSUME NEW s \in AnySymbol, s.c = 0, NEW n \in Int, NEW t, InClass(t, s, n)
  PROVE  t \in AnySymbol /\ t.c = n /\ t.g = s.g /\ Nola(t) = Nola(s) /\ NoClass[t] = s
<1>1. t \in AnySymbol /\ t.c = n /\ t.g = s.g /\ Nola(t) = Nola(s)
  BY DEF InClass, AnySymbol, Nola, Symbol
<1>2. [t EXCEPT !.c = 0] = s
  BY DEF InClass, AnySymbol
<1> QED BY <1>1, <1>2 DEF NoClass

\* The same for a region.
LEMMA WithRegion ==
  ASSUME NEW s \in AnySymbol, s.g = Unannotated, NEW n \in Int, NEW t, InRegion(t, s, n)
  PROVE  t \in AnySymbol /\ t.g = n /\ t.c = s.c /\ Nola(t) = Nola(s) /\ NoRegion[t] = s
<1>1. t \in AnySymbol /\ t.g = n /\ t.c = s.c /\ Nola(t) = Nola(s)
  BY DEF InRegion, AnySymbol, Nola, Symbol
<1>2. [t EXCEPT !.g = Unannotated] = s
  BY DEF InRegion, AnySymbol
<1> QED BY <1>1, <1>2 DEF NoRegion

\* S|S and E|E have no class.
LEMMA ConjTable ==
  ASSUME NEW t, Plain(t), NEW conjs \in Nat, conjs > 0
  PROVE  /\ IsTable(getConjSymbolTable(t, conjs))
         /\ \A s \in ToSet(getConjSymbolTable(t, conjs)) : s.g = Unannotated
<1> DEFINE annotated(l) == IF IsSpecial(t[l]) THEN <<t[l]>>
                           ELSE [j \in 1 .. conjs |-> [t[l] EXCEPT !.c = j]]
           seqs == [l \in DOMAIN t |-> annotated(l)]
           e == NoClass
<1>1. getConjSymbolTable(t, conjs) = FlattenSeq(seqs)
  BY Zenon DEF getConjSymbolTable
<1>2. /\ IsTable(t) /\ t \in Seq(AnySymbol) /\ DOMAIN t = 1 .. Len(t) /\ Len(t) \in Nat
      /\ \A l \in 1 .. Len(t) : t[l] \in AnySymbol /\ t[l].c = 0 /\ t[l].g = Unannotated
  <2>1. IsTable(t) /\ t \in Seq(AnySymbol) /\ \A s \in ToSet(t) : s.c = 0 /\ s.g = Unannotated
    BY DEF Plain, IsTable
  <2>2. DOMAIN t = 1 .. Len(t) /\ Len(t) \in Nat /\ \A l \in 1 .. Len(t) : t[l] \in AnySymbol
    BY <2>1
  <2>3. \A l \in 1 .. Len(t) : t[l] \in ToSet(t)
    BY <2>2 DEF ToSet
  <2> QED BY <2>1, <2>2, <2>3
<1> DEFINE Right(l) == /\ annotated(l) \in Seq(AnySymbol) /\ NoDups(annotated(l))
                       /\ IsSpecial(t[l]) => annotated(l) = <<t[l]>>
                       /\ \A s \in ToSet(annotated(l)) :
                            e[s] = t[l] /\ Nola(s) = Nola(t[l]) /\ s.g = Unannotated
<1>3. ASSUME NEW l \in 1 .. Len(t) PROVE Right(l)
  <2>1. t[l] \in AnySymbol /\ t[l].c = 0 /\ t[l].g = Unannotated
    BY <1>2
  <2> DEFINE x == t[l]
             a == annotated(l)
  <2>2. CASE IsSpecial(x)
    <3>1. a = <<x>>
      BY <2>2
    <3>2. e[x] = x /\ x \in AnySymbol
      <4>1. [x EXCEPT !.c = 0] = x
        BY <2>1 DEF AnySymbol
      <4> QED BY <2>1, <4>1 DEF NoClass
    <3> HIDE DEF a, x
    <3>3. a \in Seq(AnySymbol) /\ NoDups(a) /\ ToSet(a) = {x}
      BY <3>1, <3>2 DEF NoDups, ToSet
    <3> QED BY <2>1, <3>1, <3>2, <3>3 DEF a, x
  <2>3. CASE ~ IsSpecial(x)
    <3> DEFINE y(j) == [x EXCEPT !.c = j]
    <3>1. a = [j \in 1 .. conjs |-> y(j)]
      BY <2>3
    <3>2. \A j \in 1 .. conjs : /\ y(j) \in AnySymbol /\ y(j).c = j /\ y(j).g = Unannotated
                                /\ Nola(y(j)) = Nola(x) /\ e[y(j)] = x
      <4> SUFFICES ASSUME NEW j \in 1 .. conjs
                   PROVE /\ y(j) \in AnySymbol /\ y(j).c = j /\ y(j).g = Unannotated
                         /\ Nola(y(j)) = Nola(x) /\ e[y(j)] = x
        OBVIOUS
      <4> DEFINE z == y(j)
      <4>1. x \in AnySymbol /\ j \in Int /\ InClass(z, x, j) /\ x.c = 0
        BY <2>1 DEF InClass
      <4>0. x.g = Unannotated
        BY <2>1
      <4> HIDE DEF z, x
      <4>3. z \in AnySymbol /\ z.c = j /\ z.g = x.g /\ Nola(z) = Nola(x) /\ e[z] = x
        BY ONLY <4>1, WithClass
      <4> QED BY <4>0, <4>3 DEF z
    <3> HIDE DEF a, y, x, e
    <3>3. a \in Seq(AnySymbol)
      BY <3>1, <3>2
    <3>4. DOMAIN a = 1 .. conjs /\ \A j \in 1 .. conjs : a[j] = y(j)
      BY <3>1
    <3>5. NoDups(a)
      BY <3>2, <3>4 DEF NoDups
    <3>6. \A s \in ToSet(a) : \E j \in 1 .. conjs : s = y(j)
      BY <3>4 DEF ToSet
    <3>7. \A s \in ToSet(a) : e[s] = x /\ Nola(s) = Nola(x) /\ s.g = Unannotated
      BY <3>2, <3>6
    <3> QED BY <2>3, <3>3, <3>5, <3>7 DEF a, x
  <2> QED BY <2>2, <2>3
<1>4. /\ seqs \in Seq(Seq(AnySymbol)) /\ Len(seqs) = Len(t)
      /\ \A l \in 1 .. Len(t) : seqs[l] = annotated(l)
  <2> HIDE DEF annotated, e
  <2> QED BY <1>2, <1>3
<1> HIDE DEF seqs, annotated, e
<1>5. IsTable(FlattenSeq(seqs))
  <2>1. \A l \in 1 .. Len(t) : /\ NoDups(seqs[l]) /\ (IsSpecial(t[l]) => seqs[l] = <<t[l]>>)
                               /\ \A s \in ToSet(seqs[l]) : e[s] = t[l] /\ Nola(s) = Nola(t[l])
    BY <1>3, <1>4
  <2>2. Splits(t, seqs, e)
    BY <1>4, <2>1 DEF Splits
  <2> QED BY <1>2, <2>2, SplitTable
<1>6. ToSet(FlattenSeq(seqs)) = UNION {ToSet(seqs[i]) : i \in 1 .. Len(seqs)}
  BY <1>4, FlattenIs
<1>7. \A l \in 1 .. Len(t) : \A s \in ToSet(seqs[l]) : s.g = Unannotated
  BY <1>3, <1>4
<1>8. \A s \in ToSet(FlattenSeq(seqs)) : s.g = Unannotated
  BY <1>4, <1>6, <1>7
<1> QED BY <1>1, <1>5, <1>8

\* Nor a region.
LEMMA ChangeSegTable ==
  ASSUME NEW t, IsTable(t), \A s \in ToSet(t) : s.g = Unannotated, NEW segs \in Nat, segs > 0
  PROVE  IsTable(getChangeSegSymbolTable(t, segs))
<1> DEFINE annotated(s) ==
             IF IsSpecial(s) THEN <<s>>
             ELSE IF ~ IsChange(s) /\ s.c = 0
             THEN [j \in 1 .. segs + 1 |-> [s EXCEPT !.g = 2 * j - 2]]
             ELSE [j \in 1 .. segs |-> [s EXCEPT !.g = 2 * j - 1]]
           seqs == [l \in DOMAIN t |-> annotated(t[l])]
           e == NoRegion
<1>1. getChangeSegSymbolTable(t, segs) = FlattenSeq(seqs)
  BY Zenon DEF getChangeSegSymbolTable
<1>2. /\ IsTable(t) /\ t \in Seq(AnySymbol) /\ DOMAIN t = 1 .. Len(t) /\ Len(t) \in Nat
      /\ \A l \in 1 .. Len(t) : t[l] \in AnySymbol /\ t[l].g = Unannotated
  <2>1. IsTable(t) /\ t \in Seq(AnySymbol) /\ \A s \in ToSet(t) : s.g = Unannotated
    BY DEF IsTable
  <2>2. DOMAIN t = 1 .. Len(t) /\ Len(t) \in Nat /\ \A l \in 1 .. Len(t) : t[l] \in AnySymbol
    BY <2>1
  <2>3. \A l \in 1 .. Len(t) : t[l] \in ToSet(t)
    BY <2>2 DEF ToSet
  <2> QED BY <2>1, <2>2, <2>3
<1> DEFINE Right(x) == /\ annotated(x) \in Seq(AnySymbol) /\ NoDups(annotated(x))
                       /\ IsSpecial(x) => annotated(x) = <<x>>
                       /\ \A s \in ToSet(annotated(x)) : e[s] = x /\ Nola(s) = Nola(x)
<1>3. ASSUME NEW x \in AnySymbol, x.g = Unannotated PROVE Right(x)
  <2> DEFINE a == annotated(x)
  <2>1. ASSUME NEW k \in Nat, NEW m \in Nat, a = [j \in 1 .. k |-> [x EXCEPT !.g = 2 * j - m]]
        PROVE  a \in Seq(AnySymbol) /\ NoDups(a) /\ \A s \in ToSet(a) : e[s] = x /\ Nola(s) = Nola(x)
    <3> DEFINE y(j) == [x EXCEPT !.g = 2 * j - m]
    <3>1. a = [j \in 1 .. k |-> y(j)]
      BY <2>1
    <3>2. \A j \in 1 .. k : /\ y(j) \in AnySymbol /\ y(j).g = 2 * j - m
                            /\ Nola(y(j)) = Nola(x) /\ e[y(j)] = x
      <4> SUFFICES ASSUME NEW j \in 1 .. k
                   PROVE /\ y(j) \in AnySymbol /\ y(j).g = 2 * j - m
                         /\ Nola(y(j)) = Nola(x) /\ e[y(j)] = x
        OBVIOUS
      <4> DEFINE z == y(j)
                 n == 2 * j - m
      <4>1. x \in AnySymbol /\ n \in Int /\ InRegion(z, x, n) /\ x.g = Unannotated
        BY <1>3 DEF InRegion
      <4> HIDE DEF z, n
      <4>3. z \in AnySymbol /\ z.g = n /\ Nola(z) = Nola(x) /\ e[z] = x
        BY ONLY <4>1, WithRegion
      <4> QED BY <4>3 DEF z, n
    <3> HIDE DEF a, y, e
    <3>3. a \in Seq(AnySymbol)
      BY <3>1, <3>2
    <3>4. DOMAIN a = 1 .. k /\ \A j \in 1 .. k : a[j] = y(j)
      BY <3>1
    <3>5. \A i, j \in 1 .. k : 2 * i - m = 2 * j - m => i = j
      OBVIOUS
    <3>6. NoDups(a)
      BY <3>2, <3>4, <3>5 DEF NoDups
    <3>7. \A s \in ToSet(a) : \E j \in 1 .. k : s = y(j)
      BY <3>4 DEF ToSet
    <3>8. \A s \in ToSet(a) : e[s] = x /\ Nola(s) = Nola(x)
      BY <3>2, <3>7
    <3> QED BY <3>3, <3>6, <3>8
  <2>2. CASE IsSpecial(x)
    <3>1. a = <<x>>
      BY <2>2
    <3>2. [x EXCEPT !.g = Unannotated] = x
      BY <1>3 DEF AnySymbol
    <3>4. e[x] = x
      BY <3>2 DEF NoRegion
    <3> HIDE DEF a
    <3>3. a \in Seq(AnySymbol) /\ NoDups(a) /\ ToSet(a) = {x}
      BY <3>1 DEF NoDups, ToSet
    <3> HIDE DEF e, annotated
    <3> QED BY <3>1, <3>3, <3>4 DEF a
  <2>3. CASE ~ IsSpecial(x) /\ ~ IsChange(x) /\ x.c = 0
    <3>1. a = [j \in 1 .. segs + 1 |-> [x EXCEPT !.g = 2 * j - 2]]
      BY <2>3
    <3>2. segs + 1 \in Nat /\ 2 \in Nat
      OBVIOUS
    <3> HIDE DEF annotated, e
    <3> QED BY <2>1, <2>3, <3>1, <3>2
  <2>4. CASE ~ IsSpecial(x) /\ ~ (~ IsChange(x) /\ x.c = 0)
    <3>1. a = [j \in 1 .. segs |-> [x EXCEPT !.g = 2 * j - 1]]
      BY <2>4
    <3>2. segs \in Nat /\ 1 \in Nat
      OBVIOUS
    <3> HIDE DEF annotated, e
    <3> QED BY <2>1, <2>4, <3>1, <3>2
  <2> QED BY <2>2, <2>3, <2>4
<1>4. /\ seqs \in Seq(Seq(AnySymbol)) /\ Len(seqs) = Len(t)
      /\ \A l \in 1 .. Len(t) : seqs[l] = annotated(t[l])
  <2> HIDE DEF annotated, e
  <2> QED BY <1>2, <1>3
<1> HIDE DEF seqs, annotated, e
<1>5. \A l \in 1 .. Len(t) : /\ NoDups(seqs[l]) /\ (IsSpecial(t[l]) => seqs[l] = <<t[l]>>)
                             /\ \A s \in ToSet(seqs[l]) : e[s] = t[l] /\ Nola(s) = Nola(t[l])
  BY <1>2, <1>3, <1>4
<1>6. IsTable(FlattenSeq(seqs))
  <2>1. Splits(t, seqs, e)
    BY <1>4, <1>5 DEF Splits
  <2> QED BY <1>2, <2>1, SplitTable
<1> QED BY <1>1, <1>6

\* However they are annotated, the symbols of the creation are a table.
LEMMA AnnotatedTable ==
  ASSUME NEW basic, Plain(basic), NEW conjs \in Nat, NEW segs \in Nat
  PROVE  IsTable(AddLatentAnnotations(basic, conjs, segs))
<1> DEFINE withClass == IF conjs > 0 THEN getConjSymbolTable(basic, conjs) ELSE basic
<1>1. AddLatentAnnotations(basic, conjs, segs) =
        IF segs > 0 THEN getChangeSegSymbolTable(withClass, segs) ELSE withClass
  BY DEF AddLatentAnnotations
<1>2. IsTable(withClass) /\ \A s \in ToSet(withClass) : s.g = Unannotated
  BY ConjTable DEF Plain
<1> HIDE DEF withClass
<1> QED BY <1>1, <1>2, ChangeSegTable

-----------------------------------------------------------------------------

\* What the counting loop has added so far.

\* S|S comes first and nowhere else, E|E last and nowhere else.
Bounded(v) ==
  /\ Len(v) >= 2
  /\ \A k \in 1 .. Len(v) : /\ table[v[k]] = StartSym <=> k = 1
                            /\ table[v[k]] = EndSym <=> k = Len(v)

\* The strings of a lattice are strings of labels, between S|S and E|E.
LEMMA LatticeType ==
  ASSUME IsTable(table), data \in Corpora, NEW i \in DOMAIN data
  PROVE  /\ Lattice(data[i]) \in SUBSET Seq(1 .. Len(table))
         /\ \A v \in Lattice(data[i]) : Bounded(v)
<1> SUFFICES ASSUME NEW v \in Lattice(data[i]) PROVE v \in Seq(1 .. Len(table)) /\ Bounded(v)
  OBVIOUS
<1>1. PICK w \in AlignmentsOf(data[i]) : v \in Annotate(w, table)
  BY DEF Lattice
<1>2. Hooked(w)
  <2>1. PairOfStrings(data[i])
    BY CorpusPairs
  <2> QED BY <2>1, AlignmentsOfType
<1>3. /\ table \in Seq(AnySymbol) /\ DOMAIN table = 1 .. Len(table)
      /\ \A s \in ToSet(table) : IsSpecial(Nola(s)) => IsSpecial(s)
  BY DEF IsTable
<1>4. v \in Forms(w, table, Len(w))
  BY <1>1, <1>2, <1>3, AnnotateType DEF Hooked
<1>5. /\ v \in Seq(1 .. Len(table)) /\ Len(v) = Len(w) /\ Len(w) >= 2 /\ Len(v) \in Nat
      /\ \A k \in 1 .. Len(v) : Nola(table[v[k]]) = w[k]
  BY <1>2, <1>3, <1>4 DEF Forms, Hooked
<1>6. Nola(StartSym) = StartSym /\ Nola(EndSym) = EndSym /\ StartSym # EndSym
  BY DEF Nola, StartSym, EndSym, Symbol
<1>7. ASSUME NEW k \in 1 .. Len(v)
      PROVE  (table[v[k]] = StartSym <=> k = 1) /\ (table[v[k]] = EndSym <=> k = Len(v))
  <2> DEFINE s == table[v[k]]
  <2>1. s \in ToSet(table) /\ Nola(s) = w[k]
    BY <1>3, <1>5 DEF ToSet
  <2> HIDE DEF s
  <2>2. IsSpecial(w[k]) => s = w[k]
    <3>1. IsSpecial(w[k]) => IsSpecial(s)
      BY <1>3, <2>1
    <3> QED BY <1>6, <2>1, <3>1 DEF IsSpecial
  <2>3. k # 1 /\ k # Len(v) => ~ IsSpecial(w[k])
    <3>1. k # 1 /\ k # Len(v) => k \in 2 .. Len(w) - 1
      BY <1>5
    <3> QED BY <1>2, <3>1 DEF Hooked
  <2>4. (s = StartSym => w[k] = StartSym) /\ (s = EndSym => w[k] = EndSym)
    BY <1>6, <2>1
  <2>5. (k = 1 => w[k] = StartSym) /\ (k = Len(v) => w[k] = EndSym)
    BY <1>2, <1>5 DEF Hooked
  <2>6. IsSpecial(StartSym) /\ IsSpecial(EndSym)
    BY DEF IsSpecial
  <2>7. k = 1 => k # Len(v)
    BY <1>5
  <2>8. (s = StartSym <=> k = 1) /\ (s = EndSym <=> k = Len(v))
    BY <1>6, <2>2, <2>3, <2>4, <2>5, <2>6, <2>7
  <2> QED BY <2>8 DEF s
<1> QED BY <1>5, <1>7 DEF Bounded

\* The n-grams of the first k pairs.
Seen(k) == {Root} \cup UNION {NgramsOf(Lattice(data[i]), CountOrder) : i \in 1 .. k}

\* What is left of uniting the counts of a pair with the trie.
UnitesPair ==
  /\ pair \in 1 .. Len(data)
  /\ Seen(pair - 1) \subseteq DOMAIN trie /\ DOMAIN trie \subseteq Seen(pair)
  /\ Uniting(trie, ngrams, Ats(queue), Len(table))
  /\ DOMAIN ngrams = GramsOf(Lattice(data[pair]), CountOrder)

CountSays ==
  /\ opts.code # "ngram" /\ pair \in 0 .. Len(data)
  /\ queue = <<>> => DOMAIN trie = Seen(pair)
  /\ queue # <<>> => UnitesPair

\* What the counting relies on, and what it has made.
CountInv ==
  /\ opts.order \in Nat
  /\ Len(table) \in Nat /\ IsTrie(trie, Len(table)) /\ IsSequence(queue)
  /\ stage \in {"symbols", "count", "all"} =>
       opts \in Topologies /\ (opts.code = "ngram" \/ data \in Corpora)
  /\ stage = "symbols" => pair = 0 /\ queue = <<>>
  /\ stage \in {"symbols", "all"} => trie = NoTrie
  /\ stage \notin {"idle", "symbols", "failed"} => IsTable(table)
  /\ stage = "count" => CountSays

LEMMA EmptySequence == IsSequence(<<>>) /\ Len(<<>>) = 0 /\ Ats(<<>>) = <<>>
BY DEF IsSequence, Ats

LEMMA CountOrderType == opts.order \in Nat => CountOrder \in Nat
BY DEF CountOrder

\* The length of the data.
LEMMA CorpusLength == data \in Corpora => Len(data) \in Nat /\ DOMAIN data = 1 .. Len(data)
<1> SUFFICES ASSUME data \in Corpora PROVE Len(data) \in Nat /\ DOMAIN data = 1 .. Len(data)
  OBVIOUS
<1> DEFINE S == [in : Seq(PlainLetter), out : Seq(PlainLetter),
                 aligned : SUBSET Seq([in : STRING, out : STRING, c : {0}, g : {Unannotated}])]
<1>1. data \in Seq(S)
  BY CorporaAssumption
<1> HIDE DEF S
<1> QED BY <1>1

\* A pair more.
LEMMA SeenMore ==
  ASSUME NEW k \in Nat
  PROVE  /\ Seen(0) = {Root}
         /\ Seen(k + 1) = Seen(k) \cup NgramsOf(Lattice(data[k + 1]), CountOrder)
         /\ Seen(k + 1) = Seen(k) \cup GramsOf(Lattice(data[k + 1]), CountOrder)
<1> DEFINE N(i) == NgramsOf(Lattice(data[i]), CountOrder)
           m == k + 1
<1>1. 1 .. 0 = {} /\ 1 .. m = (1 .. k) \cup {m}
  OBVIOUS
<1> HIDE DEF N, m
<1>2. Seen(0) = {Root} \cup UNION {N(i) : i \in 1 .. 0}
  BY DEF Seen, N
<1>3. Seen(k) = {Root} \cup UNION {N(i) : i \in 1 .. k} /\ Seen(m) = {Root} \cup UNION {N(i) : i \in 1 .. m}
  BY DEF Seen, N
<1>4. Seen(m) = Seen(k) \cup N(m)
  BY <1>1, <1>3
<1>5. Root \in Seen(k)
  BY DEF Seen
<1> QED BY <1>1, <1>2, <1>4, <1>5 DEF N, m, GramsOf

\* The lattices do not change while they are counted.
LEMMA SeenKept ==
  ASSUME opts' = opts, data' = data, table' = table
  PROVE  /\ CountOrder' = CountOrder /\ \A i : Lattice(data[i])' = Lattice(data[i])
         /\ \A k : Seen(k)' = Seen(k)
<1>1. CountOrder' = CountOrder
  BY DEF CountOrder
<1>2. \A aligned : AlignmentsOf(aligned)' = AlignmentsOf(aligned)
  BY DEF AlignmentsOf
<1>3. \A v : Spell(v)' = Spell(v)
  BY DEF Spell
<1>4. WfLimit' = WfLimit
  BY DEF WfLimit
<1>5. ASSUME NEW i PROVE Lattice(data[i])' = Lattice(data[i])
  BY <1>2, <1>3, <1>4 DEF Lattice
<1>6. ASSUME NEW k PROVE Seen(k)' = Seen(k)
  BY <1>1, <1>5 DEF Seen
<1> QED BY <1>1, <1>5, <1>6

\* At the start there is nothing.
LEMMA InitCountInv == AllInit => CountInv
<1> SUFFICES ASSUME AllInit PROVE CountInv
  OBVIOUS
<1>1. Len(<<>>) \in Nat /\ IsTrie(NoTrie, Len(<<>>)) /\ IsSequence(<<>>)
  BY NoTrieIsTrie, EmptySequence
<1>2. CASE IdleCreation
  <2>1. opts.order \in Nat /\ table = <<>> /\ trie = NoTrie /\ queue = <<>> /\ stage = "idle"
    BY <1>2 DEF IdleCreation, NoTopology
  <2> QED BY <1>1, <2>1 DEF CountInv
<1>3. CASE CreatingInit
  <2>1. /\ opts \in Topologies /\ (opts.code = "ngram" \/ data \in Corpora) /\ stage = "symbols"
        /\ pair = 0 /\ table = <<>> /\ trie = NoTrie /\ queue = <<>>
    BY <1>3 DEF CreatingInit, TopologyInit, CreateInit, CountInit
  <2>2. opts.order \in Nat
    BY <2>1, TopologiesAssumption
  <2> QED BY <1>1, <2>1, <2>2 DEF CountInv
<1> QED BY <1>2, <1>3 DEF AllInit

LEMMA MakeSymbolsCountInv == CountInv /\ MakeSymbols => CountInv'
<1> SUFFICES ASSUME CountInv, MakeSymbols PROVE CountInv'
  OBVIOUS
<1>1. /\ stage = "symbols" /\ opts' = opts /\ data' = data /\ pair' = pair /\ queue' = queue /\ trie' = trie
      /\ stage' = IF opts.code = "ngram" THEN "all" ELSE "count"
  BY DEF MakeSymbols
<1>2. PICK basic \in BasicSymbols : table' = AddLatentAnnotations(basic, opts.conjs, opts.segs)
  BY DEF MakeSymbols
<1>3. /\ opts.order \in Nat /\ IsSequence(queue) /\ pair = 0 /\ queue = <<>> /\ trie = NoTrie
      /\ opts \in Topologies /\ (opts.code = "ngram" \/ data \in Corpora)
  BY <1>1 DEF CountInv
<1>4. Plain(basic)
  BY AllSymbolsTable, IdentityCharsTable DEF BasicSymbols
<1>5. IsTable(table)'
  <2>1. opts.conjs \in Nat /\ opts.segs \in Nat
    BY <1>3, TopologiesAssumption
  <2>2. IsTable(table')
    BY <1>2, <1>4, <2>1, AnnotatedTable
  <2> QED BY <2>2 DEF IsTable
<1>6. Len(table') \in Nat
  BY <1>5 DEF IsTable
<1>7. IsTrie(trie', Len(table')) /\ DOMAIN trie' = {Root}
  BY <1>1, <1>3, <1>6, NoTrieIsTrie
<1>8. CountSays' \/ stage' # "count"
  <2> SUFFICES ASSUME stage' = "count" PROVE CountSays'
    OBVIOUS
  <2>1. opts.code # "ngram" /\ data \in Corpora
    BY <1>1, <1>3
  <2>2. Seen(0)' = {Root}
    <3>1. 1 .. 0 = {}
      OBVIOUS
    <3> QED BY <3>1 DEF Seen
  <2>3. 0 \in 0 .. Len(data)
    BY <2>1, CorpusLength
  <2> QED BY <1>1, <1>3, <1>7, <2>1, <2>2, <2>3 DEF CountSays
<1>9. IsTrie(trie, Len(table))'
  BY <1>7
<1>10. stage' \in {"all", "count"}
  BY <1>1
<1> QED BY <1>1, <1>3, <1>5, <1>6, <1>8, <1>9, <1>10 DEF CountInv

LEMMA AddCountsCountInv == CountInv /\ AddCounts => CountInv'
<1> SUFFICES ASSUME CountInv, AddCounts PROVE CountInv'
  OBVIOUS
<1> DEFINE n == Len(table)
           k == pair + 1
           lattice == Lattice(data[k])
<1>1. /\ stage = "count" /\ queue = <<>> /\ pair < Len(data) /\ trie' = ArcSort(trie) /\ pair' = k
      /\ opts' = opts /\ data' = data /\ table' = table
      /\ IF lattice = {}
         THEN ngrams' = ngrams /\ queue' = queue /\ stage' \in {"count", "failed"}
         ELSE ngrams' = CountNgrams(lattice) /\ queue' = <<[at |-> <<>>, v1 |-> One, v2 |-> One]>>
              /\ stage' = stage
  BY DEF AddCounts
<1>2. /\ opts.order \in Nat /\ n \in Nat /\ IsTrie(trie, n) /\ IsTable(table)
      /\ opts \in Topologies /\ opts.code # "ngram" /\ data \in Corpora
      /\ pair \in 0 .. Len(data) /\ DOMAIN trie = Seen(pair)
  BY <1>1 DEF CountInv, CountSays
<1>3. /\ IsTrie(trie', n) /\ AscendingTrie(trie') /\ DOMAIN trie' = Seen(pair)
  BY <1>1, <1>2, ArcSortTrie
<1>4. k \in 1 .. Len(data) /\ pair \in Nat /\ k - 1 = pair /\ Len(data) \in Nat /\ DOMAIN data = 1 .. Len(data)
  BY <1>1, <1>2, CorpusLength
<1>5. Seen(k) = Seen(pair) \cup NgramsOf(lattice, CountOrder) /\ Seen(k) = Seen(pair) \cup GramsOf(lattice, CountOrder)
  BY <1>4, SeenMore
<1>6. /\ CountOrder' = CountOrder /\ \A i : Lattice(data[i])' = Lattice(data[i])
      /\ \A i : Seen(i)' = Seen(i)
  BY <1>1, SeenKept
<1>7. lattice \in SUBSET Seq(1 .. n) /\ CountOrder \in Nat
  BY <1>2, <1>4, LatticeType, CountOrderType
<1> HIDE DEF k
<1>8. ASSUME lattice = {} PROVE IsSequence(queue') /\ (stage' = "count" => CountSays')
  <2>1. queue' = <<>>
    BY <1>1, <1>8
  <2>2. NgramsOf(lattice, CountOrder) = {}
    BY <1>8 DEF NgramsOf
  <2>3. pair' = k /\ k \in 0 .. Len(data)
    BY <1>1, <1>4 DEF k
  <2>4. (DOMAIN trie = Seen(pair))'
    BY <1>3, <1>5, <1>6, <2>2, <2>3
  <2> QED BY <1>1, <1>2, <2>1, <2>3, <2>4, EmptySequence DEF CountSays
<1>9. ASSUME lattice # {} PROVE IsSequence(queue') /\ CountSays'
  <2> DEFINE q == <<[at |-> <<>>, v1 |-> One, v2 |-> One]>>
  <2>1. ngrams' = CountNgrams(lattice) /\ queue' = q
    BY <1>1, <1>9
  <2>2. IsSequence(q) /\ Len(q) = 1 /\ q # <<>> /\ q[1].at = Root
    BY DEF IsSequence, Root
  <2> HIDE DEF q
  <2>3. Ats(q) = <<Root>>
    BY <2>2 DEF Ats
  <2>4. /\ IsTrie(ngrams', n) /\ AscendingTrie(ngrams') /\ DOMAIN ngrams' = GramsOf(lattice, CountOrder)
    BY <1>2, <1>7, <2>1, CountedTrie
  <2>5. Uniting(trie', ngrams', <<Root>>, n)
    <3>1. Root \in DOMAIN trie' /\ Root \in DOMAIN ngrams' /\ DOMAIN ngrams' \subseteq Seq(1 .. n)
      BY <1>3, <2>4 DEF IsTrie
    <3>2. \A p \in DOMAIN ngrams' : Begins(Root, p)
      BY <3>1, BeginsFacts
    <3> DEFINE a == <<Root>>
    <3>3. a \in Seq(DOMAIN trie' \cap DOMAIN ngrams') /\ Len(a) = 1 /\ a[1] = Root
      BY <3>1
    <3> HIDE DEF a
    <3>4. \A i, j \in 1 .. Len(a) : i = j
      BY <3>3
    <3>5. \A i \in 1 .. Len(a) : \A p \in DOMAIN trie' : Begins(a[i], p) => Ascending(trie'[p].labels)
      BY <1>3 DEF AscendingTrie
    <3>6. \A p \in DOMAIN ngrams' : \E i \in 1 .. Len(a) : Begins(a[i], p)
      BY <3>2, <3>3
    <3>7. Uniting(trie', ngrams', a, n)
      BY <1>3, <2>4, <3>3, <3>4, <3>5, <3>6 DEF Uniting
    <3> QED BY <3>7 DEF a
  <2>6. Ats(queue)' = <<Root>>
    BY <2>1, <2>3 DEF Ats
  <2>7. Uniting(trie, ngrams, Ats(queue), Len(table))'
    BY <1>1, <2>5, <2>6
  <2>8. Seen(pair) \subseteq DOMAIN trie' /\ DOMAIN trie' \subseteq Seen(k)
    BY <1>3, <1>5
  <2>9. pair' \in 1 .. Len(data)' /\ pair' - 1 = pair /\ pair' = k /\ k \in 0 .. Len(data)
    BY <1>1, <1>4 DEF k
  <2>10. GramsOf(Lattice(data[pair]), CountOrder)' = GramsOf(lattice, CountOrder)
    <3>1. Lattice(data[pair])' = lattice
      BY <1>1, <1>6
    <3>2. NgramsOf(Lattice(data[pair]), CountOrder)' = NgramsOf(lattice, CountOrder)
      BY <1>6, <3>1 DEF NgramsOf
    <3> QED BY <3>2 DEF GramsOf
  <2>11. UnitesPair'
    <3>1. Seen(pair - 1)' = Seen(pair) /\ Seen(pair)' = Seen(k)
      BY <1>6, <2>9
    <3> QED BY <2>4, <2>7, <2>8, <2>9, <2>10, <3>1 DEF UnitesPair
  <2> QED BY <1>1, <1>2, <2>1, <2>2, <2>9, <2>11 DEF CountSays
<1>10. stage' \in {"count", "failed"}
  BY <1>1
<1>11. IsSequence(queue') /\ (stage' = "count" => CountSays')
  BY <1>8, <1>9
<1>12. IsTable(table)' /\ IsTrie(trie, Len(table))' /\ IsSequence(queue)'
  BY <1>1, <1>2, <1>3, <1>11 DEF IsTable
<1> QED BY <1>1, <1>2, <1>10, <1>11, <1>12 DEF CountInv

\* Uniting a subset more.
LEMMA ProcessSubsetCountInv == CountInv /\ ProcessSubset => CountInv'
<1> SUFFICES ASSUME CountInv, ProcessSubset PROVE CountInv'
  OBVIOUS
<1> DEFINE n == Len(table)
           ats == Ats(queue)
           ats2 == Tail(ats) \o Children(Head(ats), FoundLabels(trie[Head(ats)].labels, ngrams[Head(ats)].labels))
<1>1. /\ stage = "count" /\ queue # <<>> /\ stage' = stage
      /\ opts' = opts /\ data' = data /\ pair' = pair /\ table' = table /\ ngrams' = ngrams
  BY DEF ProcessSubset
<1>2. /\ opts.order \in Nat /\ n \in Nat /\ IsTable(table) /\ IsSequence(queue)
      /\ opts \in Topologies /\ opts.code # "ngram" /\ data \in Corpora /\ pair \in 0 .. Len(data)
      /\ UnitesPair
  BY <1>1 DEF CountInv, CountSays
<1>3. /\ Uniting(trie, ngrams, ats, n) /\ pair \in 1 .. Len(data)
      /\ Seen(pair - 1) \subseteq DOMAIN trie /\ DOMAIN trie \subseteq Seen(pair)
      /\ DOMAIN ngrams = GramsOf(Lattice(data[pair]), CountOrder)
  BY <1>2 DEF UnitesPair
<1>4. ats # <<>> /\ IsSequence(queue') /\ MatchedStep(trie, ngrams, Head(ats), trie') /\ Ats(queue') = ats2
  BY <1>2, <1>3, ProcessIsStep
<1>5. /\ Uniting(trie', ngrams, ats2, n)
      /\ DOMAIN trie \subseteq DOMAIN trie' /\ DOMAIN trie' \subseteq DOMAIN trie \cup DOMAIN ngrams
  <2> HIDE DEF n, ats
  <2> QED BY <1>2, <1>3, <1>4, UniteStep DEF n
<1> HIDE DEF ats2
<1>6. /\ \A i : Lattice(data[i])' = Lattice(data[i]) /\ CountOrder' = CountOrder
      /\ \A i : Seen(i)' = Seen(i)
  BY <1>1, SeenKept
<1>7. /\ Seen(pair) = Seen(pair - 1) \cup GramsOf(Lattice(data[pair]), CountOrder)
      /\ Seen(pair)' = Seen(pair) /\ Seen(pair - 1)' = Seen(pair - 1)
  <2>1. Len(data) \in Nat
    BY <1>2, CorpusLength
  <2>2. pair - 1 \in Nat /\ (pair - 1) + 1 = pair
    BY <1>3, <2>1
  <2> DEFINE j == pair - 1
  <2>3. j \in Nat /\ j + 1 = pair
    BY <2>2
  <2> HIDE DEF j
  <2>4. Seen(pair) = Seen(j) \cup GramsOf(Lattice(data[pair]), CountOrder)
    BY <2>3, SeenMore
  <2>5. Seen(pair)' = Seen(pair) /\ Seen(pair - 1)' = Seen(pair - 1)
    BY <1>1, <1>6
  <2> QED BY <2>4, <2>5 DEF j
<1>8. Seen(pair - 1) \subseteq DOMAIN trie' /\ DOMAIN trie' \subseteq Seen(pair)
  BY <1>3, <1>5, <1>7
<1>9. GramsOf(Lattice(data[pair]), CountOrder)' = GramsOf(Lattice(data[pair]), CountOrder)
  <2>1. Lattice(data[pair])' = Lattice(data[pair])
    BY <1>1, <1>6
  <2>2. NgramsOf(Lattice(data[pair]), CountOrder)' = NgramsOf(Lattice(data[pair]), CountOrder)
    BY <1>6, <2>1 DEF NgramsOf
  <2> QED BY <2>2 DEF GramsOf
<1>11. ASSUME queue' = <<>> PROVE DOMAIN trie' = Seen(pair)
  <2>1. ats2 = <<>>
    BY <1>4, <1>11, EmptySequence
  <2>2. \A p \in DOMAIN ngrams : p \in DOMAIN trie'
    BY <1>5, <2>1, EmptySequence DEF Uniting
  <2> QED BY <1>3, <1>7, <1>8, <2>2
<1>12. UnitesPair'
  <2>1. Ats(queue)' = ats2
    BY <1>4 DEF Ats
  <2>2. Uniting(trie, ngrams, Ats(queue), Len(table))'
    BY <1>1, <1>5, <2>1
  <2>3. (pair \in 1 .. Len(data))' /\ (DOMAIN ngrams = GramsOf(Lattice(data[pair]), CountOrder))'
    BY <1>1, <1>3, <1>9
  <2>4. (Seen(pair - 1) \subseteq DOMAIN trie)' /\ (DOMAIN trie \subseteq Seen(pair))'
    BY <1>7, <1>8
  <2> QED BY <2>2, <2>3, <2>4 DEF UnitesPair
<1>13. CountSays'
  <2>1. (opts.code # "ngram")' /\ (pair \in 0 .. Len(data))'
    BY <1>1, <1>2
  <2>2. (queue = <<>> => DOMAIN trie = Seen(pair))'
    BY <1>7, <1>11
  <2> QED BY <1>12, <2>1, <2>2 DEF CountSays
<1>14. IsTrie(trie, Len(table))' /\ IsSequence(queue)'
  <2>1. IsTrie(trie', n)
    BY <1>5 DEF Uniting
  <2> QED BY <1>1, <1>4, <2>1
<1> QED BY <1>1, <1>2, <1>13, <1>14 DEF CountInv, IsTable

\* The symbols that were not seen.
LEMMA AddedTrie ==
  ASSUME NEW n \in Nat, NEW t, IsTrie(t, n), NEW syms, syms \subseteq 1 .. n
  PROVE  /\ IsTrie(AddUnobservedUnigrams(t, syms), n)
         /\ DOMAIN AddUnobservedUnigrams(t, syms) = DOMAIN t \cup {<<l>> : l \in syms}
<1> DEFINE S == syms \ ToSet(t[<<>>].labels)
           new == Sorted(S)
           u == AddUnobservedUnigrams(t, syms)
           a == t[<<>>].labels
<1>1. Root \in DOMAIN t /\ DOMAIN t \subseteq Seq(1 .. n) /\ IsNode(t[<<>>])
      /\ a \in Seq(1 .. n) /\ NoDups(a) /\ ToSet(a) = {l \in 1 .. n : Append(<<>>, l) \in DOMAIN t}
  BY DEF IsTrie, Root
<1>2. S \subseteq 1 .. n
  OBVIOUS
<1>3. u = [p \in DOMAIN t \cup {<<l>> : l \in ToSet(new)} |->
            IF p = <<>> THEN [t[p] EXCEPT !.labels = @ \o new]
            ELSE IF p \in DOMAIN t THEN t[p] ELSE [labels |-> <<>>, weight |-> One, final |-> One]]
  BY DEF AddUnobservedUnigrams
<1>4. S \cap ToSet(a) = {} /\ syms \subseteq S \cup ToSet(a) /\ S \subseteq syms
  OBVIOUS
<1> HIDE DEF S
<1>5. S \in SUBSET Nat /\ IsFiniteSet(S)
  BY <1>2, SetsOfLabels
<1>6. new \in Seq(S) /\ ToSet(new) = S /\ NoDups(new)
  BY ONLY <1>5, SortedIs
<1>7. new \in Seq(1 .. n)
  BY <1>2, <1>6, SeqOfMore
<1> HIDE DEF new, u
<1>8. \A l \in 1 .. n : Append(<<>>, l) = <<l>> /\ <<l>> \in Seq(1 .. n) /\ <<l>> # <<>>
  OBVIOUS
<1>9. DOMAIN u = DOMAIN t \cup {<<l>> : l \in S} /\ <<>> \in DOMAIN u /\ DOMAIN t \subseteq DOMAIN u
  BY <1>1, <1>3, <1>6 DEF Root
<1>10. DOMAIN u = DOMAIN t \cup {<<l>> : l \in syms}
  <2>1. \A l \in ToSet(a) : <<l>> \in DOMAIN t
    BY <1>1, <1>8
  <2> QED BY <1>4, <1>9, <2>1
<1>11. DOMAIN u \subseteq Seq(1 .. n)
  BY <1>1, <1>2, <1>8, <1>9
<1>12. IsNode(u[<<>>]) /\ u[<<>>].labels = a \o new
  <2> DEFINE r == t[<<>>]
             v == a \o new
             s == u[<<>>]
  <2>1. s = [r EXCEPT !.labels = v] /\ IsNode(r)
    BY <1>1, <1>3, <1>9
  <2> HIDE DEF r, v, s
  <2>2. IsNode(s) /\ s.labels = v
    BY <2>1, NewLabels
  <2> QED BY <2>2 DEF s, v
<1>13. /\ a \o new \in Seq(1 .. n) /\ NoDups(a \o new) /\ ToSet(a \o new) = ToSet(a) \cup S
  <2> DEFINE T == 1 .. n
  <2>1. a \in Seq(T) /\ new \in Seq(T) /\ NoDups(a) /\ NoDups(new) /\ ToSet(a) \cap ToSet(new) = {} /\ ToSet(new) = S
    BY <1>1, <1>4, <1>6, <1>7
  <2> HIDE DEF T, a
  <2>2. a \o new \in Seq(T) /\ NoDups(a \o new) /\ ToSet(a \o new) = ToSet(a) \cup ToSet(new)
    BY ONLY <2>1, ConcatFacts
  <2> QED BY <2>1, <2>2 DEF T
<1>14. ToSet(a) \cup S = {l \in 1 .. n : Append(<<>>, l) \in DOMAIN u}
  <2>1. \A l \in 1 .. n, m \in S : <<l>> = <<m>> => l = m
    OBVIOUS
  <2>2. \A l \in 1 .. n : <<l>> \in DOMAIN u <=> l \in ToSet(a) \cup S
    BY <1>1, <1>8, <1>9, <2>1
  <2> QED BY <1>1, <1>2, <1>8, <2>2
<1>15. \A p \in DOMAIN u : Len(p) # 1 => (p \in DOMAIN t)
  <2>1. \A l \in S : Len(<<l>>) = 1
    OBVIOUS
  <2> QED BY <1>9, <2>1
<1>16. ASSUME NEW p \in DOMAIN u, p # <<>>
       PROVE  {l \in 1 .. n : Append(p, l) \in DOMAIN u} = {l \in 1 .. n : Append(p, l) \in DOMAIN t}
  <2>1. p \in Seq(1 .. n) /\ Len(p) > 0 /\ Len(p) \in Nat
    <3>1. p \in Seq(1 .. n)
      BY <1>11
    <3> QED BY <1>16, <3>1, FrontFacts
  <2>2. \A l \in 1 .. n : Len(Append(p, l)) = Len(p) + 1
    BY <2>1, AppendFacts
  <2>3. \A l \in 1 .. n : Len(Append(p, l)) # 1
    BY <2>1, <2>2
  <2> QED BY <1>9, <1>15, <2>3
<1>17. ASSUME NEW p \in DOMAIN u, p # <<>>
       PROVE  /\ IsNode(u[p]) /\ u[p].labels \in Seq(1 .. n) /\ NoDups(u[p].labels)
              /\ ToSet(u[p].labels) = {l \in 1 .. n : Append(p, l) \in DOMAIN u}
              /\ Front(p) \in DOMAIN u
  <2>1. CASE p \in DOMAIN t
    <3>1. u[p] = t[p]
      BY <1>3, <1>17, <2>1, <1>9
    <3>2. /\ IsNode(t[p]) /\ t[p].labels \in Seq(1 .. n) /\ NoDups(t[p].labels)
          /\ ToSet(t[p].labels) = {l \in 1 .. n : Append(p, l) \in DOMAIN t} /\ Front(p) \in DOMAIN t
      BY <1>17, <2>1 DEF IsTrie, Root
    <3> QED BY <1>9, <1>16, <1>17, <3>1, <3>2
  <2>2. CASE p \notin DOMAIN t
    <3>1. u[p] = [labels |-> <<>>, weight |-> One, final |-> One]
      BY <1>3, <1>17, <2>2, <1>9
    <3>2. IsNode(u[p]) /\ u[p].labels = <<>>
      BY <3>1, NodeFacts
    <3>3. PICK l \in S : p = <<l>>
      BY <1>9, <2>2
    <3>4. Front(p) = <<>>
      <4>1. l \in 1 .. n /\ <<>> \in Seq(1 .. n) /\ p = Append(<<>>, l)
        BY <1>2, <1>8, <3>3, EmptyFacts
      <4> QED BY <4>1, AppendFacts
    <3>5. ASSUME NEW m \in 1 .. n PROVE Append(p, m) \notin DOMAIN t
      <4>1. p \in Seq(1 .. n)
        BY <1>11
      <4>2. Append(p, m) # <<>> /\ Front(Append(p, m)) = p
        BY <4>1, AppendFacts
      <4> QED BY <2>2, <4>2 DEF IsTrie, Root
    <3>6. {m \in 1 .. n : Append(p, m) \in DOMAIN u} = {}
      BY <1>16, <1>17, <3>5
    <3> QED BY <1>9, <3>2, <3>4, <3>6, EmptyFacts
  <2> QED BY <2>1, <2>2
<1>18. IsTrie(u, n)
  BY <1>9, <1>11, <1>12, <1>13, <1>14, <1>17 DEF IsTrie, Root
<1> QED BY <1>10, <1>18 DEF u

\* Without the weights.
LEMMA RmWeightTrie ==
  ASSUME NEW n \in Nat, NEW t, IsTrie(t, n)
  PROVE  IsTrie(RmWeight(t), n) /\ DOMAIN RmWeight(t) = DOMAIN t
<1> DEFINE s == RmWeight(t)
<1>1. DOMAIN s = DOMAIN t /\ \A p \in DOMAIN t : s[p] = [t[p] EXCEPT !.weight = One, !.final = One]
  BY DEF RmWeight
<1> HIDE DEF s
<1>2. ASSUME NEW p \in DOMAIN t PROVE IsNode(s[p]) /\ s[p].labels = t[p].labels
  <2>1. IsNode(t[p])
    BY DEF IsTrie
  <2> DEFINE r == t[p]
             q == s[p]
  <2>2. q = [r EXCEPT !.weight = One, !.final = One] /\ IsNode(r)
    BY <1>1, <2>1
  <2> HIDE DEF r, q
  <2>3. IsNode(q) /\ q.labels = r.labels
    <3>1. PICK a, b, c : r = [labels |-> a, weight |-> b, final |-> c]
      BY <2>2, NodeFacts
    <3>2. q = [labels |-> a, weight |-> One, final |-> One]
      BY <2>2, <3>1
    <3>3. IsNode(q) /\ q.labels = a
      BY ONLY <3>2, NodeFacts
    <3>4. r.labels = a
      BY <3>1, NodeFacts
    <3> QED BY <3>3, <3>4
  <2> QED BY <2>3 DEF r, q
<1> QED BY <1>1, <1>2 DEF IsTrie, s

LEMMA AllNgramsSay ==
  ASSUME NEW n \in Nat, DOMAIN table = 1 .. n, opts.order \in Nat, NEW p
  PROVE  p \in AllNgrams <=>
           /\ p \in Seq(1 .. n) /\ Len(p) \in 1 .. opts.order
           /\ \A i \in 1 .. Len(p) : /\ p[i] = StartLabel => i = 1
                                     /\ p[i] = EndLabel => i = Len(p)
<1> DEFINE Placed == \A i \in DOMAIN p : (p[i] = StartLabel => i = 1) /\ (p[i] = EndLabel => i = Len(p))
           L == 1 .. n
<1>1. p \in AllNgrams <=> (\E k \in 1 .. opts.order : p \in [1 .. k -> L]) /\ Placed
  BY DEF AllNgrams
<1> HIDE DEF L
<1>2. ASSUME NEW k \in 1 .. opts.order, p \in [1 .. k -> L]
      PROVE  p \in Seq(L) /\ Len(p) \in 1 .. opts.order /\ DOMAIN p = 1 .. Len(p)
  <2>1. k \in Nat
    OBVIOUS
  <2>2. p \in Seq(L) /\ Len(p) = k
    BY <1>2, <2>1
  <2> QED BY <2>2
<1>3. ASSUME p \in Seq(L), Len(p) \in 1 .. opts.order
      PROVE  DOMAIN p = 1 .. Len(p) /\ \E k \in 1 .. opts.order : p \in [1 .. k -> L]
  BY <1>3
<1>4. p \in AllNgrams <=> (p \in Seq(L) /\ Len(p) \in 1 .. opts.order /\ Placed)
  BY <1>1, <1>2, <1>3
<1>5. p \in Seq(L) => DOMAIN p = 1 .. Len(p)
  OBVIOUS
<1> QED BY <1>4, <1>5 DEF L

LEMMA TailFacts ==
  ASSUME NEW S, NEW p \in Seq(S), p # <<>>
  PROVE  /\ Tail(p) \in Seq(S) /\ Len(Tail(p)) = Len(p) - 1 /\ Len(p) \in Nat /\ Len(p) > 0
         /\ \A i \in 1 .. Len(p) - 1 : Tail(p)[i] = p[i + 1]
BY HeadTailProperties

\* What is left of an n-gram without its last or its first symbol is one too.
LEMMA AllNgramsClosed ==
  ASSUME NEW n \in Nat, DOMAIN table = 1 .. n, opts.order \in Nat, NEW p \in AllNgrams, Len(p) > 1
  PROVE  Front(p) \in AllNgrams /\ Tail(p) \in AllNgrams
<1> DEFINE m == Len(p) - 1
<1>1. /\ p \in Seq(1 .. n) /\ Len(p) \in 1 .. opts.order
      /\ \A i \in 1 .. Len(p) : (p[i] = StartLabel => i = 1) /\ (p[i] = EndLabel => i = Len(p))
  BY AllNgramsSay
<1>2. m \in 1 .. opts.order /\ m \in Nat /\ m < Len(p) /\ p # <<>> /\ Len(p) = m + 1
  BY <1>1
<1>3. Front(p) \in Seq(1 .. n) /\ Len(Front(p)) = m /\ \A i \in 1 .. m : Front(p)[i] = p[i]
  BY <1>1, <1>2, FrontFacts
<1>4. Tail(p) \in Seq(1 .. n) /\ Len(Tail(p)) = m /\ \A i \in 1 .. m : Tail(p)[i] = p[i + 1]
  BY <1>1, <1>2, TailFacts
<1> HIDE DEF m
<1>5. \A i \in 1 .. m : i \in 1 .. Len(p) /\ i + 1 \in 1 .. Len(p) /\ i # Len(p) /\ i + 1 # 1 /\ (i + 1 = Len(p) => i = m)
  BY <1>1, <1>2
<1>6. \A i \in 1 .. m : (Front(p)[i] = StartLabel => i = 1) /\ (Front(p)[i] = EndLabel => i = m)
  BY <1>1, <1>3, <1>5
<1>7. \A i \in 1 .. m : (Tail(p)[i] = StartLabel => i = 1) /\ (Tail(p)[i] = EndLabel => i = m)
  <2> SUFFICES ASSUME NEW i \in 1 .. m PROVE (Tail(p)[i] = StartLabel => i = 1) /\ (Tail(p)[i] = EndLabel => i = m)
    OBVIOUS
  <2> DEFINE j == i + 1
  <2>1. j \in 1 .. Len(p) /\ j # 1 /\ (j = Len(p) => i = m) /\ Tail(p)[i] = p[j]
    BY <1>4, <1>5
  <2> HIDE DEF j
  <2> QED BY <1>1, <2>1
<1>8. Front(p) \in AllNgrams
  BY <1>2, <1>3, <1>6, AllNgramsSay
<1>9. Tail(p) \in AllNgrams
  BY <1>2, <1>4, <1>7, AllNgramsSay
<1> QED BY <1>8, <1>9

\* A set of n-grams, as a trie.
LEMMA GramsTrie ==
  ASSUME NEW n \in Nat, NEW G \in SUBSET Seq(1 .. n), <<>> \notin G, NEW t,
         t = [p \in G \cup {<<>>} |-> [labels |-> LabelsAfter(p, G), weight |-> One, final |-> One]],
         \A p \in G : Len(p) > 1 => Front(p) \in G
  PROVE  IsTrie(t, n) /\ DOMAIN t = G \cup {Root}
<1>1. DOMAIN t = G \cup {Root} /\ \A p \in DOMAIN t : IsNode(t[p]) /\ t[p].labels = LabelsAfter(p, G)
  BY NodeFacts DEF Root
<1>2. \A p \in DOMAIN t : p \in Seq(1 .. n)
  BY <1>1, EmptyFacts DEF Root
<1>3. ASSUME NEW p \in DOMAIN t
      PROVE  /\ t[p].labels \in Seq(1 .. n) /\ NoDups(t[p].labels)
             /\ ToSet(t[p].labels) = {l \in 1 .. n : Append(p, l) \in DOMAIN t}
  <2>1. /\ LabelsAfter(p, G) \in Seq(1 .. n) /\ NoDups(LabelsAfter(p, G))
        /\ ToSet(LabelsAfter(p, G)) = {l \in 1 .. n : Append(p, l) \in G}
    BY <1>2, LabelsAfterIs
  <2>2. \A l \in 1 .. n : Append(p, l) # Root
    BY <1>2, AppendFacts DEF Root
  <2> QED BY <1>1, <2>1, <2>2
<1>4. ASSUME NEW p \in DOMAIN t, p # Root PROVE Front(p) \in DOMAIN t
  <2>1. p \in G /\ p \in Seq(1 .. n) /\ p # <<>>
    BY <1>1, <1>2, <1>4 DEF Root
  <2>2. Len(p) \in Nat /\ Len(p) > 0 /\ Front(p) \in Seq(1 .. n) /\ Len(Front(p)) = Len(p) - 1
    BY <2>1, FrontFacts
  <2>3. CASE Len(p) > 1
    BY <1>1, <2>1, <2>3
  <2>4. CASE ~ (Len(p) > 1)
    <3>1. Len(Front(p)) = 0
      BY <2>2, <2>4
    <3>2. Front(p) = <<>>
      BY <2>2, <3>1
    <3> QED BY <1>1, <3>2 DEF Root
  <2> QED BY <2>3, <2>4
<1> QED BY <1>1, <1>2, <1>3, <1>4 DEF IsTrie

LEMMA SelectCountInv == CountInv /\ Select => CountInv'
<1> SUFFICES ASSUME CountInv, Select PROVE CountInv'
  OBVIOUS
<1>1. /\ stage = "count" /\ queue' = queue /\ opts' = opts /\ data' = data /\ pair' = pair /\ table' = table
      /\ \/ stage' = "failed" /\ trie' = trie
         \/ /\ essential' \in EssentialSets /\ stage' = "models"
            /\ trie' = RmWeight(AddUnobservedUnigrams(trie, essential'))
  BY DEF Select
<1>2. /\ opts.order \in Nat /\ Len(table) \in Nat /\ IsTrie(trie, Len(table)) /\ IsSequence(queue) /\ IsTable(table)
  BY <1>1 DEF CountInv
<1>3. IsTable(table)' /\ IsSequence(queue)' /\ opts'.order \in Nat /\ Len(table') \in Nat
  BY <1>1, <1>2 DEF IsTable
<1>4. IsTrie(trie', Len(table))
  <2>1. CASE stage' = "failed" /\ trie' = trie
    BY <1>2, <2>1
  <2>2. CASE essential' \in EssentialSets /\ trie' = RmWeight(AddUnobservedUnigrams(trie, essential'))
    <3> DEFINE n == Len(table)
               E == essential'
    <3>1. DOMAIN table = 1 .. n
      BY <1>2 DEF IsTable
    <3>2. n \in Nat /\ IsTrie(trie, n) /\ E \in EssentialSets /\ trie' = RmWeight(AddUnobservedUnigrams(trie, E))
      BY <1>2, <2>2
    <3>3. Len(table) = n
      OBVIOUS
    <3> HIDE DEF n, E
    <3>4. E \subseteq 1 .. n
      BY <3>1, <3>2, <3>3, EssentialInTable
    <3>5. IsTrie(AddUnobservedUnigrams(trie, E), n)
      BY <3>2, <3>4, AddedTrie
    <3>6. IsTrie(trie', n)
      BY <3>2, <3>5, RmWeightTrie
    <3> QED BY <3>6 DEF n
  <2> QED BY <1>1, <2>1, <2>2
<1> QED BY <1>1, <1>3, <1>4 DEF CountInv

LEMMA CreateNgramTrieCountInv == CountInv /\ CreateNgramTrie => CountInv'
<1> SUFFICES ASSUME CountInv, CreateNgramTrie PROVE CountInv'
  OBVIOUS
<1> DEFINE n == Len(table)
<1>1. /\ stage = "all" /\ queue' = queue /\ opts' = opts /\ table' = table /\ stage' = "models"
      /\ trie' = [p \in AllNgrams \cup {<<>>} |-> [labels |-> LabelsAfter(p, AllNgrams), weight |-> One, final |-> One]]
  BY DEF CreateNgramTrie
<1>2. opts.order \in Nat /\ n \in Nat /\ IsSequence(queue) /\ IsTable(table) /\ DOMAIN table = 1 .. n
  BY <1>1 DEF CountInv, IsTable
<1>3. AllNgrams \in SUBSET Seq(1 .. n) /\ \A p \in AllNgrams : Len(p) \in 1 .. opts.order
  <2> HIDE DEF n
  <2> QED BY <1>2, AllNgramsSay
<1>4. <<>> \notin AllNgrams
  BY <1>2, <1>3, EmptyFacts
<1>5. \A p \in AllNgrams : Len(p) > 1 => Front(p) \in AllNgrams
  <2> HIDE DEF n
  <2> QED BY <1>2, AllNgramsClosed
<1>6. IsTrie(trie', n)
  <2> DEFINE G == AllNgrams
  <2> HIDE DEF G, n
  <2>1. IsTrie(trie', n)
    BY <1>1, <1>2, <1>3, <1>4, <1>5, GramsTrie DEF G
  <2> QED BY <2>1
<1>7. IsTable(table)' /\ IsSequence(queue)' /\ opts'.order \in Nat /\ Len(table') \in Nat
  BY <1>1, <1>2 DEF IsTable
<1> QED BY <1>1, <1>6, <1>7 DEF CountInv

\* The n-grams are counted; what CountInv speaks of stays, or is given up.
Counted ==
  /\ opts' = opts /\ table' = table /\ queue' = queue
  /\ trie' = trie \/ trie' = NoTrie
  /\ stage' \notin {"idle", "symbols", "count", "all"} /\ (stage' # "failed" => stage \notin {"idle", "symbols", "failed"})

LEMMA CountedInv == CountInv /\ Counted => CountInv'
<1> SUFFICES ASSUME CountInv, Counted PROVE CountInv'
  OBVIOUS
<1>1. opts'.order \in Nat /\ Len(table') \in Nat /\ IsTrie(trie', Len(table')) /\ IsSequence(queue')
  BY NoTrieIsTrie DEF Counted, CountInv
<1>2. stage' # "failed" => IsTable(table)'
  BY DEF Counted, CountInv, IsTable
<1> QED BY <1>1, <1>2 DEF CountInv, Counted

\* What the other steps leave alone.
CountKept == opts' = opts /\ data' = data /\ stage' = stage /\ pair' = pair /\ table' = table
             /\ ngrams' = ngrams /\ trie' = trie /\ queue' = queue

LEMMA CountKeptInv == CountInv /\ CountKept => CountInv'
<1> SUFFICES ASSUME CountInv, CountKept PROVE CountInv'
  OBVIOUS
<1>1. /\ \A i : Lattice(data[i])' = Lattice(data[i]) /\ CountOrder' = CountOrder
      /\ \A i : Seen(i)' = Seen(i)
  BY SeenKept DEF CountKept
<1>2. Seen(pair)' = Seen(pair) /\ Seen(pair - 1)' = Seen(pair - 1)
      /\ Lattice(data[pair])' = Lattice(data[pair])
  BY <1>1 DEF CountKept
<1>3. GramsOf(Lattice(data[pair]), CountOrder)' = GramsOf(Lattice(data[pair]), CountOrder)
  <2>1. NgramsOf(Lattice(data[pair]), CountOrder)' = NgramsOf(Lattice(data[pair]), CountOrder)
    BY <1>1, <1>2 DEF NgramsOf
  <2> QED BY <2>1 DEF GramsOf
<1>4. Ats(queue)' = Ats(queue)
  BY DEF Ats, CountKept
<1>5. CountSays => CountSays'
  <2>1. Uniting(trie, ngrams, Ats(queue), Len(table))' = Uniting(trie, ngrams, Ats(queue), Len(table))
    BY <1>4 DEF CountKept
  <2>2. UnitesPair => UnitesPair'
    BY <1>2, <1>3, <2>1 DEF UnitesPair, CountKept
  <2> QED BY <1>2, <2>2 DEF CountSays, CountKept
<1> QED BY <1>5 DEF CountInv, CountKept, IsTable

\* Every step of a creation.
LEMMA TopologyNextCountInv == CountInv /\ TopologyNext => CountInv'
<1> SUFFICES ASSUME CountInv, TopologyNext PROVE CountInv'
  OBVIOUS
<1>1. CASE MakeSymbols
  BY <1>1, MakeSymbolsCountInv
<1>2. CASE AddCounts
  BY <1>2, AddCountsCountInv
<1>3. CASE ProcessSubset
  BY <1>3, ProcessSubsetCountInv
<1>4. CASE Select
  BY <1>4, SelectCountInv
<1>5. CASE CreateNgramTrie
  BY <1>5, CreateNgramTrieCountInv
<1>6. CASE DoubleFree
  <2>1. Counted
    BY <1>6 DEF DoubleFree, Counted
  <2> QED BY <2>1, CountedInv
<1>7. CASE StartAddBackoff \/ AddBackoffArc \/ AddPhiArc \/ Convert \/ NgramFsaInsertFeatures \/ CreateScoringFst
  <2>1. Counted
    <3>1. CASE StartAddBackoff
      BY <3>1 DEF StartAddBackoff, Counted
    <3>2. CASE AddBackoffArc
      BY <3>2 DEF AddBackoffArc, Counted
    <3>3. CASE AddPhiArc
      BY <3>3 DEF AddPhiArc, Counted
    <3>4. CASE Convert
      BY <3>4 DEF Convert, Counted
    <3>5. CASE NgramFsaInsertFeatures
      BY <3>5 DEF NgramFsaInsertFeatures, Counted
    <3>6. CASE CreateScoringFst
      BY <3>6 DEF CreateScoringFst, Counted
    <3> QED BY <1>7, <3>1, <3>2, <3>3, <3>4, <3>5, <3>6
  <2> QED BY <2>1, CountedInv
<1>8. CASE NoepshistNext
  <2>1. Counted
    <3>1. CASE StartScoring
      BY <3>1 DEF StartScoring, Counted
    <3>2. CASE AddArcs
      BY <3>2 DEF AddArcs, Counted
    <3>3. CASE ComposeScoringFst
      BY <3>3 DEF ComposeScoringFst, Counted
    <3> QED BY <1>8, <3>1, <3>2, <3>3 DEF NoepshistNext
  <2> QED BY <2>1, CountedInv
<1> QED BY <1>1, <1>2, <1>3, <1>4, <1>5, <1>6, <1>7, <1>8 DEF TopologyNext, CreateNext, CountNext

LEMMA AllNextCountInv == CountInv /\ [AllNext]_allVars => CountInv'
<1> SUFFICES ASSUME CountInv, [AllNext]_allVars PROVE CountInv'
  OBVIOUS
<1>1. CASE TopologyNext
  BY <1>1, TopologyNextCountInv
<1>2. CASE HandOver
  <2>1. opts' = NoTopology /\ stage' = "idle" /\ table' = <<>> /\ trie' = NoTrie /\ queue' = <<>>
    BY <1>2 DEF HandOver
  <2>2. Len(<<>>) \in Nat /\ IsTrie(NoTrie, Len(<<>>)) /\ IsSequence(<<>>)
    BY NoTrieIsTrie, EmptySequence
  <2>3. NoTopology.order \in Nat
    BY DEF NoTopology
  <2> QED BY <2>1, <2>2, <2>3 DEF CountInv
<1>3. CASE UNCHANGED topologyVars
  <2>1. CountKept
    BY <1>3 DEF topologyVars, createVars, countVars, CountKept
  <2> QED BY <2>1, CountKeptInv
<1> QED BY <1>1, <1>2, <1>3 DEF AllNext, allVars, Create, SessionStep

\* Whatever the pairs share and in whichever order their n-grams are united, the
\* trie stays one.
THEOREM TrieTypeCorrect == AllSpec => []CountTypeOK
<1>1. AllInit => CountInv
  BY InitCountInv
<1>2. CountInv /\ [AllNext]_allVars => CountInv'
  BY AllNextCountInv
<1>3. CountInv => CountTypeOK
  BY TrieIsTyped DEF CountInv
<1> QED BY <1>1, <1>2, <1>3, PTL DEF AllSpec

\* When the counts of a pair have been united with the trie, its states are the
\* n-grams of the pairs so far.
CountedGrams ==
  stage = "count" /\ queue = <<>> =>
    DOMAIN trie = {Root} \cup UNION {NgramsOf(Lattice(data[i]), CountOrder) : i \in 1 .. pair}

\* No n-gram is lost in a union, and none is there that no pair has.
THEOREM NgramsOfThePairs == AllSpec => []CountedGrams
<1>1. AllInit => CountInv
  BY InitCountInv
<1>2. CountInv /\ [AllNext]_allVars => CountInv'
  BY AllNextCountInv
<1>3. CountInv => CountedGrams
  BY DEF CountInv, CountSays, CountedGrams, Seen
<1> QED BY <1>1, <1>2, <1>3, PTL DEF AllSpec

-----------------------------------------------------------------------------

\* The ends of an n-gram, and the n-grams a trie must have with one.

\* q is the end of p.
Ends(q, p) == Len(q) <= Len(p) /\ \A i \in 1 .. Len(q) : q[i] = p[Len(p) - Len(q) + i]

LEMMA EndsItself ==
  ASSUME NEW S, NEW p \in Seq(S)
  PROVE  Ends(p, p) /\ Ends(<<>>, p) /\ <<>> \in Seq(S)
BY EmptyFacts DEF Ends

LEMMA EndsTail ==
  ASSUME NEW S, NEW p \in Seq(S), NEW q \in Seq(S)
  PROVE  /\ Ends(q, p) /\ q # p => p # <<>> /\ Len(q) < Len(p) /\ Ends(q, Tail(p))
         /\ p # <<>> /\ Ends(q, Tail(p)) => Ends(q, p) /\ Len(q) < Len(p)
<1>1. Len(p) \in Nat /\ Len(q) \in Nat
  OBVIOUS
<1>2. ASSUME Ends(q, p), q # p PROVE p # <<>> /\ Len(q) < Len(p) /\ Ends(q, Tail(p))
  <2>1. Len(q) <= Len(p) /\ \A i \in 1 .. Len(q) : q[i] = p[Len(p) - Len(q) + i]
    BY <1>2 DEF Ends
  <2>2. Len(q) # Len(p)
    <3> SUFFICES ASSUME Len(q) = Len(p) PROVE FALSE
      OBVIOUS
    <3>1. \A i \in 1 .. Len(q) : q[i] = p[i]
      <4>1. \A i \in 1 .. Len(q) : Len(p) - Len(q) + i = i
        BY <1>1
      <4> QED BY <2>1, <4>1
    <3>2. q = p
      BY <3>1, SameSequence
    <3> QED BY <1>2, <3>2
  <2>3. Len(q) < Len(p) /\ p # <<>>
    BY <1>1, <2>1, <2>2, EmptyFacts
  <2>4. Len(Tail(p)) = Len(p) - 1 /\ \A j \in 1 .. Len(p) - 1 : Tail(p)[j] = p[j + 1]
    BY <2>3, TailFacts
  <2>5. ASSUME NEW i \in 1 .. Len(q) PROVE q[i] = Tail(p)[Len(Tail(p)) - Len(q) + i]
    <3> DEFINE j == Len(p) - 1 - Len(q) + i
    <3>1. j \in 1 .. Len(p) - 1 /\ j + 1 = Len(p) - Len(q) + i /\ Len(Tail(p)) - Len(q) + i = j
      BY <1>1, <2>3, <2>4
    <3> HIDE DEF j
    <3> QED BY <2>1, <2>4, <3>1
  <2>6. Len(q) <= Len(Tail(p))
    BY <1>1, <2>3, <2>4
  <2> QED BY <2>3, <2>5, <2>6 DEF Ends
<1>3. ASSUME p # <<>>, Ends(q, Tail(p)) PROVE Ends(q, p) /\ Len(q) < Len(p)
  <2>1. Len(Tail(p)) = Len(p) - 1 /\ \A j \in 1 .. Len(p) - 1 : Tail(p)[j] = p[j + 1]
    BY <1>3, TailFacts
  <2>2. Len(q) <= Len(Tail(p)) /\ \A i \in 1 .. Len(q) : q[i] = Tail(p)[Len(Tail(p)) - Len(q) + i]
    BY <1>3 DEF Ends
  <2>3. ASSUME NEW i \in 1 .. Len(q) PROVE q[i] = p[Len(p) - Len(q) + i]
    <3> DEFINE j == Len(p) - 1 - Len(q) + i
    <3>1. j \in 1 .. Len(p) - 1 /\ j + 1 = Len(p) - Len(q) + i /\ Len(Tail(p)) - Len(q) + i = j
      BY <1>1, <2>1, <2>2
    <3> HIDE DEF j
    <3> QED BY <2>1, <2>2, <3>1
  <2> QED BY <1>1, <2>1, <2>2, <2>3 DEF Ends
<1> QED BY <1>2, <1>3

LEMMA EndsAppend ==
  ASSUME NEW S, NEW p \in Seq(S), NEW l \in S, NEW q \in Seq(S)
  PROVE  /\ Ends(q, p) => Ends(Append(q, l), Append(p, l))
         /\ Ends(q, Append(p, l)) /\ q # <<>> => Last(q) = l /\ Ends(Front(q), p) /\ Front(q) \in Seq(S)
<1> DEFINE pl == Append(p, l)
           ql == Append(q, l)
<1>1. Len(p) \in Nat /\ Len(q) \in Nat
  OBVIOUS
<1>2. Len(pl) = Len(p) + 1 /\ pl[Len(p) + 1] = l /\ \A i \in 1 .. Len(p) : pl[i] = p[i]
  BY AppendFacts
<1>3. Len(ql) = Len(q) + 1 /\ ql[Len(q) + 1] = l /\ \A i \in 1 .. Len(q) : ql[i] = q[i]
  BY AppendFacts
<1> HIDE DEF pl, ql
<1>4. ASSUME Ends(q, p) PROVE Ends(ql, pl)
  <2>1. Len(q) <= Len(p) /\ \A i \in 1 .. Len(q) : q[i] = p[Len(p) - Len(q) + i]
    BY <1>4 DEF Ends
  <2>2. ASSUME NEW i \in 1 .. Len(ql) PROVE ql[i] = pl[Len(pl) - Len(ql) + i]
    <3> DEFINE j == Len(p) - Len(q) + i
    <3>1. Len(pl) - Len(ql) + i = j
      BY <1>1, <1>2, <1>3
    <3>2. i \in 1 .. Len(q) => j \in 1 .. Len(p) /\ q[i] = p[j]
      BY <1>1, <2>1
    <3>3. i \notin 1 .. Len(q) => i = Len(q) + 1 /\ j = Len(p) + 1
      BY <1>1, <1>3
    <3> HIDE DEF j
    <3>4. CASE i \in 1 .. Len(q)
      BY <1>2, <1>3, <3>1, <3>2, <3>4
    <3>5. CASE i \notin 1 .. Len(q)
      BY <1>2, <1>3, <3>1, <3>3, <3>5
    <3> QED BY <3>4, <3>5
  <2>3. Len(ql) <= Len(pl)
    BY <1>1, <1>2, <1>3, <2>1
  <2> QED BY <2>2, <2>3 DEF Ends
<1>5. ASSUME Ends(q, pl), q # <<>> PROVE Last(q) = l /\ Ends(Front(q), p) /\ Front(q) \in Seq(S)
  <2>1. /\ Front(q) \in Seq(S) /\ Len(Front(q)) = Len(q) - 1 /\ Last(q) = q[Len(q)] /\ Len(q) > 0
        /\ \A i \in 1 .. Len(q) - 1 : Front(q)[i] = q[i]
    BY <1>5, FrontFacts
  <2>2. Len(q) <= Len(pl) /\ \A i \in 1 .. Len(q) : q[i] = pl[Len(pl) - Len(q) + i]
    BY <1>5 DEF Ends
  <2>3. Last(q) = l
    <3> DEFINE i == Len(q)
    <3>1. i \in 1 .. Len(q) /\ Len(pl) - Len(q) + i = Len(p) + 1
      BY <1>1, <1>2, <2>1
    <3>2. q[i] = pl[Len(pl) - Len(q) + i]
      BY <2>2, <3>1
    <3> QED BY <1>2, <2>1, <3>1, <3>2
  <2>4. ASSUME NEW i \in 1 .. Len(Front(q)) PROVE Front(q)[i] = p[Len(p) - Len(Front(q)) + i]
    <3> DEFINE j == Len(pl) - Len(q) + i
    <3>1. j \in 1 .. Len(p) /\ Len(p) - Len(Front(q)) + i = j /\ i \in 1 .. Len(q) /\ i \in 1 .. Len(q) - 1
      BY <1>1, <1>2, <2>1, <2>2
    <3>2. q[i] = pl[j]
      BY <2>2, <3>1
    <3> HIDE DEF j
    <3> QED BY <1>2, <2>1, <3>1, <3>2
  <2>5. Len(Front(q)) <= Len(p)
    BY <1>1, <1>2, <2>1, <2>2
  <2> QED BY <2>1, <2>3, <2>4, <2>5 DEF Ends
<1> QED BY <1>4, <1>5 DEF pl, ql

LEMMA EndsAlike ==
  ASSUME NEW S, NEW p \in Seq(S), NEW q \in Seq(S), NEW r \in Seq(S), Ends(p, r), Ends(q, r), Len(p) = Len(q)
  PROVE  p = q
<1>1. \A i \in 1 .. Len(p) : p[i] = q[i]
  BY DEF Ends
<1> QED BY <1>1, SameSequence

LEMMA EndsIsSuffix ==
  ASSUME NEW S, NEW p \in Seq(S), NEW q \in Seq(S)
  PROVE  IsSuffixOf(q, p) <=> Ends(q, p)
<1>1. Len(p) \in Nat /\ Len(q) \in Nat
  OBVIOUS
<1>2. CASE q = <<>>
  <2>1. Len(q) = 0 /\ Len(q) <= Len(p)
    BY <1>1, <1>2
  <2>2. SubSeq(p, Len(p) - Len(q) + 1, Len(p)) = <<>>
    BY <1>1, <2>1
  <2> QED BY <1>2, <2>1, <2>2, EndsItself DEF IsSuffixOf
<1>3. CASE q # <<>>
  <2> SUFFICES ASSUME Len(q) <= Len(p)
               PROVE  q = SubSeq(p, Len(p) - Len(q) + 1, Len(p))
                        <=> \A i \in 1 .. Len(q) : q[i] = p[Len(p) - Len(q) + i]
    BY DEF IsSuffixOf, Ends
  <2> DEFINE b == Len(p) - Len(q) + 1
             e == Len(p)
             s == SubSeq(p, b, e)
  <2>1. Len(q) > 0
    BY <1>1, <1>3, FrontFacts
  <2>2. b \in 1 .. Len(p) /\ e \in 1 .. Len(p) /\ b <= e /\ e - b + 1 = Len(q)
    BY <1>1, <2>1
  <2>3. \A i \in 1 .. Len(q) : b + i - 1 = Len(p) - Len(q) + i
    BY <1>1
  <2> HIDE DEF b, e
  <2>4. s \in Seq(S) /\ Len(s) = Len(q) /\ \A i \in 1 .. Len(q) : s[i] = p[b + i - 1]
    BY <2>2, SubSeqFacts
  <2> HIDE DEF s
  <2>5. q = s <=> \A i \in 1 .. Len(q) : q[i] = s[i]
    BY <2>4, SameSequence
  <2>6. q = s <=> \A i \in 1 .. Len(q) : q[i] = p[Len(p) - Len(q) + i]
    BY <2>3, <2>4, <2>5
  <2> QED BY <2>6 DEF s, b, e
<1> QED BY <1>2, <1>3

\* No n-gram is one symbol longer than q.
Leaf(G, n, q) == \A l \in 1 .. n : Append(q, l) \notin G

\* A set of n-grams of labels up to n as the models need it: with an n-gram all that are
\* in it, and only those that end with the label e are of a length that could go on, but do not.
Grams(G, n, e) ==
  /\ Root \in G /\ G \subseteq Seq(1 .. n)
  /\ \A p \in G : p # Root => Front(p) \in G /\ Tail(p) \in G
  /\ \A p \in G : Len(p) >= 2 /\ Leaf(G, n, Tail(p)) => Last(p) = e

\* The ends of n-grams are n-grams.
LEMMA GramsEnd ==
  ASSUME NEW n \in Nat, NEW G, NEW e, Grams(G, n, e), NEW p \in G, NEW q \in Seq(1 .. n), Ends(q, p)
  PROVE  q \in G
<1> DEFINE Ok(m) == \A r \in G : Len(r) = m /\ Ends(q, r) => q \in G
           H == {m \in Nat : Ok(m)}
<1>1. ASSUME NEW m \in Nat, \A j \in Nat : j < m => Ok(j) PROVE Ok(m)
  <2> SUFFICES ASSUME NEW r \in G, Len(r) = m, Ends(q, r), q # r PROVE q \in G
    OBVIOUS
  <2>1. r \in Seq(1 .. n)
    BY DEF Grams
  <2>2. r # <<>> /\ Ends(q, Tail(r))
    BY <2>1, EndsTail
  <2>3. Tail(r) \in G /\ Len(Tail(r)) = m - 1 /\ m - 1 \in Nat /\ m - 1 < m
    BY <2>1, <2>2, TailFacts DEF Grams, Root
  <2> DEFINE j == m - 1
  <2>4. j \in Nat /\ j < m /\ Len(Tail(r)) = j
    BY <2>3
  <2> HIDE DEF j
  <2>5. Ok(j)
    BY <1>1, <2>4
  <2> QED BY <2>2, <2>3, <2>4, <2>5
<1>2. \A m \in Nat : Ok(m)
  <2> SUFFICES ASSUME NEW m0 \in Nat, ~ Ok(m0) PROVE FALSE
    OBVIOUS
  <2> DEFINE B == {m \in Nat : ~ Ok(m)}
  <2>1. B # {} /\ B \in SUBSET Nat
    OBVIOUS
  <2> HIDE DEF B
  <2>2. PICK m \in B : \A j \in B : m <= j
    BY <2>1, LeastNatural
  <2>3. m \in Nat /\ ~ Ok(m)
    BY DEF B
  <2>4. ASSUME NEW j \in Nat, j < m PROVE Ok(j)
    <3>1. j \notin B
      BY <2>2, <2>3, <2>4
    <3> QED BY <3>1 DEF B
  <2> HIDE DEF Ok
  <2> QED BY <1>1, <2>3, <2>4
<1>3. p \in Seq(1 .. n) /\ Len(p) \in Nat
  <2>1. p \in Seq(1 .. n)
    BY DEF Grams
  <2> QED BY <2>1
<1> QED BY <1>2, <1>3

\* The root is no leaf if there are other n-grams.
LEMMA GramsRoot ==
  ASSUME NEW n \in Nat, NEW G, NEW e, Grams(G, n, e), NEW p \in G, p # Root
  PROVE  ~ Leaf(G, n, Root)
<1> DEFINE Long == {q \in G : q # Root}
           Lengths2 == {Len(q) : q \in Long}
<1>1. Lengths2 \in SUBSET Nat /\ Lengths2 # {}
  <2>1. \A q \in G : Len(q) \in Nat
    BY DEF Grams
  <2> QED BY <2>1
<1>2. PICK k \in Lengths2 : \A j \in Lengths2 : k <= j
  <2> HIDE DEF Lengths2
  <2> QED BY <1>1, LeastNatural
<1>3. PICK q \in Long : Len(q) = k
  OBVIOUS
<1>4. q \in Seq(1 .. n) /\ q # <<>> /\ Front(q) \in G
  BY <1>3 DEF Grams, Root
<1>5. Len(Front(q)) = Len(q) - 1 /\ Len(q) \in Nat /\ Last(q) \in 1 .. n /\ Append(Front(q), Last(q)) = q
  BY <1>4, FrontFacts
<1>6. Front(q) = Root
  <2> SUFFICES ASSUME Front(q) # Root PROVE FALSE
    OBVIOUS
  <2>1. Len(Front(q)) \in Lengths2
    BY <1>4
  <2>2. k <= Len(Front(q))
    BY <1>2, <2>1
  <2> QED BY <1>3, <1>5, <2>2
<1> QED BY <1>3, <1>5, <1>6 DEF Leaf

\* Of n-grams of a lattice those that could go on, but do not, end the strings they are in.
LEMMA NgramsLeaf ==
  ASSUME NEW n \in Nat, NEW lattice \in SUBSET Seq(1 .. n), NEW order \in Nat,
         NEW q \in NgramsOf(lattice, order), Len(q) < order, Leaf(NgramsOf(lattice, order), n, q),
         NEW v \in lattice, NEW i \in Nat, StandsAt(q, v, i)
  PROVE  i + Len(q) = Len(v) + 1
<1>1. v \in Seq(1 .. n) /\ Len(v) \in Nat
  OBVIOUS
<1>2. q \in Seq(1 .. n) /\ Len(q) \in Nat
  BY NgramsSay
<1>3. i + Len(q) - 1 <= Len(v)
  BY DEF StandsAt
<1>4. ~ (i + Len(q) <= Len(v))
  BY NgramsClosed DEF Leaf
<1> QED BY <1>1, <1>2, <1>3, <1>4

\* The n-grams of strings that all end with e.
LEMMA BoundedGrams ==
  ASSUME NEW n \in Nat, NEW e, NEW order \in Nat, NEW lattice \in SUBSET Seq(1 .. n),
         \A v \in lattice : v # <<>> /\ v[Len(v)] = e,
         NEW p \in NgramsOf(lattice, order), Len(p) >= 2, Leaf(NgramsOf(lattice, order), n, Tail(p))
  PROVE  Last(p) = e
<1>1. p \in Seq(1 .. n) /\ Len(p) \in 1 .. order /\ Len(p) \in Nat
  <2>1. p \in Seq(1 .. n) /\ Len(p) \in 1 .. order
    BY NgramsSay
  <2> QED BY <2>1
<1>2. PICK v \in lattice, i \in Nat : StandsAt(p, v, i)
  BY NgramsSay
<1>3. Len(p) > 1 /\ p # <<>> /\ Last(p) = p[Len(p)]
  <2>1. \A k \in Nat : k >= 2 => k > 1 /\ k # 0
    OBVIOUS
  <2>2. Len(p) > 1 /\ Len(p) # 0
    BY <1>1, <2>1
  <2> QED BY <1>1, <2>2, FrontFacts, EmptyFacts
<1>4. Tail(p) \in NgramsOf(lattice, order)
  BY <1>3, NgramsClosed
<1>5. Len(Tail(p)) = Len(p) - 1 /\ \A k \in 1 .. Len(p) - 1 : Tail(p)[k] = p[k + 1]
  BY <1>1, <1>3, TailFacts
<1>6. /\ i \in Nat \ {0} /\ i + Len(p) - 1 <= Len(v)
      /\ \A k \in 1 .. Len(p) : p[k] = v[i + k - 1]
  BY <1>2 DEF StandsAt
<1>7. Len(v) \in Nat /\ v \in Seq(1 .. n)
  OBVIOUS
<1>8. StandsAt(Tail(p), v, i + 1)
  <2>1. i + 1 \in Nat \ {0} /\ (i + 1) + Len(Tail(p)) - 1 <= Len(v)
    <3> DEFINE a == Len(p)
               b == Len(v)
               c == Len(Tail(p))
    <3>1. a \in Nat /\ b \in Nat /\ c = a - 1 /\ i \in Nat /\ i + a - 1 <= b
      BY <1>1, <1>5, <1>6, <1>7
    <3> HIDE DEF a, b, c
    <3>2. i + 1 \in Nat \ {0} /\ (i + 1) + c - 1 <= b
      BY ONLY <3>1
    <3> QED BY <3>2 DEF b, c
  <2>2. ASSUME NEW k \in 1 .. Len(Tail(p)) PROVE Tail(p)[k] = v[(i + 1) + k - 1]
    <3> DEFINE j == k + 1
    <3>1. j \in 1 .. Len(p) /\ (i + 1) + k - 1 = i + j - 1 /\ k \in 1 .. Len(p) - 1
      BY <1>1, <1>5, <1>6
    <3>2. Tail(p)[k] = p[j]
      BY <1>5, <3>1
    <3> HIDE DEF j
    <3> QED BY <1>6, <3>1, <3>2
  <2> QED BY <2>1, <2>2 DEF StandsAt
<1>9. Len(Tail(p)) < order
  BY <1>1, <1>5
<1>10. (i + 1) + Len(Tail(p)) = Len(v) + 1
  <2> DEFINE q == Tail(p)
             j == i + 1
  <2>1. q \in NgramsOf(lattice, order) /\ Len(q) < order /\ Leaf(NgramsOf(lattice, order), n, q) /\ StandsAt(q, v, j) /\ j \in Nat
    BY <1>4, <1>6, <1>8, <1>9
  <2> HIDE DEF q, j
  <2>2. j + Len(q) = Len(v) + 1
    BY <2>1, NgramsLeaf
  <2> QED BY <2>2 DEF q, j
<1>11. i + Len(p) - 1 = Len(v)
  <2> DEFINE a == Len(p)
             b == Len(v)
  <2>1. a \in Nat /\ b \in Nat /\ (i + 1) + (a - 1) = b + 1
    BY <1>1, <1>5, <1>7, <1>10
  <2> HIDE DEF a, b
  <2>2. i + a - 1 = b
    BY <2>1
  <2> QED BY <2>2 DEF a, b
<1>12. p[Len(p)] = v[i + Len(p) - 1]
  <2>1. Len(p) \in 1 .. Len(p)
    BY <1>1
  <2> QED BY <1>6, <2>1
<1> QED BY <1>3, <1>11, <1>12

\* What is closed, with the root, is closed.
LEMMA NgramsInside ==
  ASSUME NEW n \in Nat, NEW lattice \in SUBSET Seq(1 .. n), NEW order \in Nat,
         NEW p \in NgramsOf(lattice, order)
  PROVE  /\ p \in Seq(1 .. n) /\ p # <<>>
         /\ Front(p) \in GramsOf(lattice, order) /\ Tail(p) \in GramsOf(lattice, order)
<1>1. p \in Seq(1 .. n) /\ Len(p) \in 1 .. order /\ Len(p) \in Nat /\ Len(p) >= 1
  <2>1. p \in Seq(1 .. n) /\ Len(p) \in 1 .. order
    BY NgramsSay
  <2>2. \A k \in 1 .. order : k \in Nat /\ k >= 1
    OBVIOUS
  <2> QED BY <2>1, <2>2
<1>2. p # <<>>
  BY <1>1, EmptyFacts
<1>3. /\ Front(p) \in Seq(1 .. n) /\ Len(Front(p)) = Len(p) - 1
      /\ Tail(p) \in Seq(1 .. n) /\ Len(Tail(p)) = Len(p) - 1
  BY <1>1, <1>2, FrontFacts, TailFacts
<1>4. CASE Len(p) > 1
  BY <1>1, <1>2, <1>4, NgramsClosed DEF GramsOf
<1>5. CASE ~ (Len(p) > 1)
  <2>1. Len(p) - 1 = 0
    <3>1. \A k \in Nat : k >= 1 /\ ~ (k > 1) => k - 1 = 0
      OBVIOUS
    <3> QED BY <1>1, <1>5, <3>1
  <2>2. Front(p) = <<>> /\ Tail(p) = <<>>
    <3>1. Len(Front(p)) = 0 /\ Len(Tail(p)) = 0
      BY <1>3, <2>1
    <3>2. \A x \in Seq(1 .. n) : Len(x) = 0 => x = <<>>
      OBVIOUS
    <3> QED BY ONLY <1>3, <3>1, <3>2
  <2> QED BY <1>1, <1>2, <2>2 DEF GramsOf, Root
<1> QED BY <1>4, <1>5

LEMMA EndLabelIs ==
  ASSUME IsTable(table)
  PROVE  /\ EndLabel \in 1 .. Len(table) /\ table[EndLabel] = EndSym
         /\ \A l \in 1 .. Len(table) : table[l] = EndSym => l = EndLabel
         /\ StartLabel \in 1 .. Len(table) /\ table[StartLabel] = StartSym /\ StartLabel # EndLabel
<1>1. /\ DOMAIN table = 1 .. Len(table) /\ \A i, j \in DOMAIN table : table[i] = table[j] => i = j
      /\ StartSym \in ToSet(table) /\ EndSym \in ToSet(table)
  BY DEF IsTable, NoDups
<1>2. (\E l \in DOMAIN table : table[l] = EndSym) /\ (\E l \in DOMAIN table : table[l] = StartSym)
  BY <1>1 DEF ToSet
<1>3. EndLabel \in DOMAIN table /\ table[EndLabel] = EndSym
  BY <1>2 DEF EndLabel
<1>4. StartLabel \in DOMAIN table /\ table[StartLabel] = StartSym
  BY <1>2 DEF StartLabel
<1>5. StartSym # EndSym
  BY DEF StartSym, EndSym, Symbol
<1> QED BY <1>1, <1>3, <1>4, <1>5

\* The n-grams of all pairs.
LEMMA SeenGrams ==
  ASSUME IsTable(table), data \in Corpora, CountOrder \in Nat
  PROVE  Grams(Seen(Len(data)), Len(table), EndLabel)
<1> DEFINE n == Len(table)
           D == 1 .. Len(data)
           N(i) == NgramsOf(Lattice(data[i]), CountOrder)
           G == Seen(Len(data))
<1>1. n \in Nat /\ EndLabel \in 1 .. n /\ \A l \in 1 .. n : table[l] = EndSym => l = EndLabel
  BY EndLabelIs DEF IsTable
<1>2. G = {Root} \cup UNION {N(i) : i \in D}
  BY DEF Seen
<1>3. DOMAIN data = D
  BY CorpusLength
<1>4. ASSUME NEW i \in D
      PROVE  /\ Lattice(data[i]) \in SUBSET Seq(1 .. n)
             /\ \A v \in Lattice(data[i]) : v # <<>> /\ v[Len(v)] = EndLabel
  <2>1. Lattice(data[i]) \in SUBSET Seq(1 .. n) /\ \A v \in Lattice(data[i]) : Bounded(v)
    BY <1>3, LatticeType
  <2> SUFFICES ASSUME NEW v \in Lattice(data[i]) PROVE v # <<>> /\ v[Len(v)] = EndLabel
    BY <2>1
  <2>2. v \in Seq(1 .. n) /\ Len(v) \in Nat /\ Len(v) >= 2
    BY <2>1 DEF Bounded
  <2>3. Len(v) \in 1 .. Len(v) /\ v[Len(v)] \in 1 .. n
    BY <2>2
  <2>4. table[v[Len(v)]] = EndSym
    BY <2>1, <2>3 DEF Bounded
  <2> QED BY <1>1, <2>2, <2>3, <2>4, EmptyFacts
<1> HIDE DEF n, D, G
<1>5. ASSUME NEW p \in G, p # Root
      PROVE  \E i \in D : p \in N(i) /\ N(i) \subseteq G /\ Root \in G
  BY <1>2, <1>5
<1>6. ASSUME NEW p \in G, p # Root
      PROVE  p \in Seq(1 .. n) /\ Front(p) \in G /\ Tail(p) \in G
  <2>1. PICK i \in D : p \in N(i) /\ N(i) \subseteq G /\ Root \in G
    BY <1>5, <1>6
  <2> DEFINE lattice == Lattice(data[i])
  <2>2. lattice \in SUBSET Seq(1 .. n) /\ p \in NgramsOf(lattice, CountOrder)
    BY <1>4, <2>1
  <2>3. GramsOf(lattice, CountOrder) \subseteq G
    BY <2>1 DEF GramsOf
  <2> HIDE DEF lattice
  <2>4. /\ p \in Seq(1 .. n)
        /\ Front(p) \in GramsOf(lattice, CountOrder) /\ Tail(p) \in GramsOf(lattice, CountOrder)
    BY <1>1, <2>2, NgramsInside
  <2> QED BY <2>3, <2>4
<1>7. ASSUME NEW p \in G, Len(p) >= 2, Leaf(G, n, Tail(p)) PROVE Last(p) = EndLabel
  <2>1. p # Root
    BY <1>7, EmptyFacts DEF Root
  <2>2. PICK i \in D : p \in N(i) /\ N(i) \subseteq G
    BY <1>5, <2>1
  <2> DEFINE lattice == Lattice(data[i])
  <2>3. /\ lattice \in SUBSET Seq(1 .. n) /\ p \in NgramsOf(lattice, CountOrder)
        /\ \A v \in lattice : v # <<>> /\ v[Len(v)] = EndLabel
    BY <1>4, <2>2
  <2>4. Leaf(NgramsOf(lattice, CountOrder), n, Tail(p))
    BY <1>7, <2>2 DEF Leaf
  <2> HIDE DEF lattice
  <2>5. Len(p) >= 2
    BY <1>7
  <2> QED BY <1>1, <2>3, <2>4, <2>5, BoundedGrams
<1>8. Root \in G /\ Root \in Seq(1 .. n)
  BY <1>2, EmptyFacts DEF Root
<1>9. Grams(G, n, EndLabel)
  BY <1>6, <1>7, <1>8 DEF Grams
<1> QED BY <1>9 DEF G, n

\* Symbols that were not seen end no n-gram but themselves.
LEMMA AddedGrams ==
  ASSUME NEW n \in Nat, NEW G, NEW e, Grams(G, n, e), NEW S, S \subseteq 1 .. n
  PROVE  Grams(G \cup {<<l>> : l \in S}, n, e)
<1> DEFINE H == G \cup {<<l>> : l \in S}
<1>1. ASSUME NEW l \in S
      PROVE  <<l>> \in Seq(1 .. n) /\ Len(<<l>>) = 1 /\ Front(<<l>>) = Root /\ Tail(<<l>>) = Root
  <2>1. l \in 1 .. n /\ <<>> \in Seq(1 .. n) /\ <<l>> = Append(<<>>, l)
    BY EmptyFacts
  <2>2. Front(<<l>>) = <<>>
    <3> DEFINE z == <<>>
               p == Append(z, l)
    <3>1. z \in Seq(1 .. n) /\ l \in 1 .. n /\ p = <<l>>
      BY <2>1
    <3> HIDE DEF z
    <3>2. Front(p) = z
      BY <3>1, AppendFacts
    <3> QED BY <3>1, <3>2 DEF z
  <2> QED BY <2>1, <2>2 DEF Root
<1>2. G \subseteq H /\ \A p \in H : p \in G \/ \E l \in S : p = <<l>>
  OBVIOUS
<1> HIDE DEF H
<1>3. Root \in H /\ H \subseteq Seq(1 .. n)
  BY <1>1, <1>2 DEF Grams
<1>4. \A p \in H : p # Root => Front(p) \in H /\ Tail(p) \in H
  BY <1>1, <1>2, <1>3 DEF Grams
<1>5. ASSUME NEW p \in H, Len(p) >= 2, Leaf(H, n, Tail(p)) PROVE Last(p) = e
  <2>1. p \in G
    <3> SUFFICES ASSUME p \notin G PROVE FALSE
      OBVIOUS
    <3>1. PICK l \in S : p = <<l>>
      BY <1>2
    <3>2. Len(p) = 1
      BY <1>1, <3>1
    <3> QED BY <1>5, <3>2
  <2>2. Leaf(G, n, Tail(p))
    BY <1>2, <1>5 DEF Leaf
  <2> QED BY <1>5, <2>1, <2>2 DEF Grams
<1>6. Grams(H, n, e)
  BY <1>3, <1>4, <1>5 DEF Grams
<1> QED BY <1>6 DEF H

\* All n-grams of an order.
LEMMA AllGrams ==
  ASSUME IsTable(table), opts.order \in Nat
  PROVE  Grams(AllNgrams \cup {Root}, Len(table), EndLabel)
<1> DEFINE n == Len(table)
           G == AllNgrams \cup {Root}
<1>1. /\ n \in Nat /\ DOMAIN table = 1 .. n /\ EndLabel \in 1 .. n /\ StartLabel # EndLabel
  BY EndLabelIs DEF IsTable
<1> HIDE DEF n
<1>2. ASSUME NEW p \in AllNgrams
      PROVE  /\ p \in Seq(1 .. n) /\ Len(p) \in 1 .. opts.order /\ p # <<>>
             /\ \A i \in 1 .. Len(p) : (p[i] = StartLabel => i = 1) /\ (p[i] = EndLabel => i = Len(p))
  <2>1. /\ p \in Seq(1 .. n) /\ Len(p) \in 1 .. opts.order
        /\ \A i \in 1 .. Len(p) : (p[i] = StartLabel => i = 1) /\ (p[i] = EndLabel => i = Len(p))
    BY <1>1, AllNgramsSay
  <2>2. Len(p) # 0
    BY <2>1
  <2> QED BY <2>1, <2>2, EmptyFacts
<1>3. ASSUME NEW p \in AllNgrams PROVE Front(p) \in G /\ Tail(p) \in G
  <2>1. /\ Front(p) \in Seq(1 .. n) /\ Len(Front(p)) = Len(p) - 1
        /\ Tail(p) \in Seq(1 .. n) /\ Len(Tail(p)) = Len(p) - 1 /\ Len(p) \in Nat /\ Len(p) > 0
    BY <1>2, FrontFacts, TailFacts
  <2>2. CASE Len(p) > 1
    BY <1>1, <2>2, AllNgramsClosed
  <2>3. CASE ~ (Len(p) > 1)
    <3>1. \A k \in Nat : k > 0 /\ ~ (k > 1) => k - 1 = 0
      OBVIOUS
    <3>2. Len(p) - 1 = 0
      BY <2>1, <2>3, <3>1
    <3>3. Front(p) = <<>> /\ Tail(p) = <<>>
      BY <2>1, <3>2
    <3> QED BY <3>3 DEF Root
  <2> QED BY <2>2, <2>3
<1>4. ASSUME NEW p \in G, Len(p) >= 2, Leaf(G, n, Tail(p)) PROVE Last(p) = EndLabel
  <2> DEFINE q == Tail(p)
             m == Len(p) - 1
             r == Append(q, EndLabel)
  <2>1. p \in AllNgrams
    BY <1>4, EmptyFacts DEF Root
  <2>2. /\ q \in Seq(1 .. n) /\ Len(q) = m /\ Len(p) \in Nat /\ \A i \in 1 .. m : q[i] = p[i + 1]
        /\ Last(p) = p[Len(p)]
    BY <1>2, <2>1, FrontFacts, TailFacts
  <2>3. m \in Nat /\ m + 1 \in 1 .. opts.order /\ m >= 1 /\ m + 1 = Len(p)
    BY <1>2, <1>4, <2>1, <2>2
  <2>4. r \in Seq(1 .. n) /\ Len(r) = m + 1 /\ r[m + 1] = EndLabel /\ \A i \in 1 .. m : r[i] = q[i]
    BY <1>1, <2>2, AppendFacts
  <2>5. r \notin AllNgrams
    BY <1>1, <1>4 DEF Leaf
  <2> HIDE DEF q, m, r
  <2>6. PICK i \in 1 .. Len(r) : ~ ((r[i] = StartLabel => i = 1) /\ (r[i] = EndLabel => i = Len(r)))
    BY <1>1, <2>3, <2>4, <2>5, AllNgramsSay
  <2>7. i # m + 1
    <3> SUFFICES ASSUME i = m + 1 PROVE FALSE
      OBVIOUS
    <3>1. r[i] = EndLabel /\ r[i] # StartLabel /\ i = Len(r)
      BY <1>1, <2>4
    <3> QED BY <2>6, <3>1
  <2>8. i \in 1 .. m
    BY <2>3, <2>4, <2>6, <2>7
  <2> DEFINE j == i + 1
  <2>9. r[i] = p[j] /\ j \in 1 .. Len(p) /\ j # 1
    BY <2>2, <2>3, <2>4, <2>8
  <2> HIDE DEF j
  <2>10. p[j] # StartLabel /\ (p[j] = EndLabel => j = Len(p))
    BY <1>2, <2>1, <2>9
  <2>11. r[i] # StartLabel
    BY <2>9, <2>10
  <2>12. p[j] = EndLabel
    BY <2>6, <2>9, <2>11
  <2> QED BY <2>2, <2>10, <2>12
<1>5. Root \in G /\ G \subseteq Seq(1 .. n)
  BY <1>2, EmptyFacts DEF Root
<1>6. \A p \in G : p # Root => Front(p) \in G /\ Tail(p) \in G
  BY <1>3
<1>7. Grams(G, n, EndLabel)
  <2> HIDE DEF G
  <2> QED BY <1>4, <1>5, <1>6 DEF Grams
<1> QED BY <1>7 DEF n

Modelling == stage \in {"models", "backoff", "convert", "features"}

\* The trie that the models are made from.
GramsInv == Modelling => Grams(DOMAIN trie, Len(table), EndLabel)

LEMMA SelectGramsInv == CountInv /\ Select => GramsInv'
<1> SUFFICES ASSUME CountInv, Select, stage' # "failed"
             PROVE  Grams(DOMAIN trie', Len(table'), EndLabel')
  BY DEF GramsInv, Modelling
<1> DEFINE n == Len(table)
           k == Len(data)
           E == essential'
<1>1. /\ stage = "count" /\ queue = <<>> /\ pair = Len(data) /\ opts.code # "noepshist" /\ table' = table
      /\ E \in EssentialSets /\ trie' = RmWeight(AddUnobservedUnigrams(trie, E))
  BY DEF Select
<1>2. /\ opts.order \in Nat /\ n \in Nat /\ IsTrie(trie, n) /\ IsTable(table) /\ DOMAIN table = 1 .. n
      /\ opts.code # "ngram" /\ data \in Corpora /\ DOMAIN trie = Seen(Len(data))
  BY <1>1 DEF CountInv, CountSays, IsTable
<1>3. Grams(DOMAIN trie, n, EndLabel)
  BY <1>2, SeenGrams, CountOrderType
<1>4. Len(table) = n
  OBVIOUS
<1> HIDE DEF n, E
<1>5. E \subseteq 1 .. n
  BY <1>1, <1>2, <1>4, EssentialInTable
<1>6. /\ IsTrie(AddUnobservedUnigrams(trie, E), n)
      /\ DOMAIN AddUnobservedUnigrams(trie, E) = DOMAIN trie \cup {<<l>> : l \in E}
  BY <1>2, <1>5, AddedTrie
<1>7. DOMAIN trie' = DOMAIN trie \cup {<<l>> : l \in E}
  BY <1>1, <1>2, <1>6, RmWeightTrie
<1>8. Grams(DOMAIN trie', n, EndLabel)
  <2> DEFINE e == EndLabel
             G == DOMAIN trie
  <2>1. Grams(G, n, e) /\ E \subseteq 1 .. n /\ n \in Nat
    BY <1>2, <1>3, <1>5
  <2> HIDE DEF e, G
  <2>2. Grams(G \cup {<<l>> : l \in E}, n, e)
    BY <2>1, AddedGrams
  <2> QED BY <1>7, <2>2 DEF e, G
<1>9. EndLabel' = EndLabel
  BY <1>1 DEF EndLabel
<1> QED BY <1>1, <1>4, <1>8, <1>9

LEMMA CreateNgramTrieGramsInv == CountInv /\ CreateNgramTrie => GramsInv'
<1> SUFFICES ASSUME CountInv, CreateNgramTrie
             PROVE  Grams(DOMAIN trie', Len(table'), EndLabel')
  BY DEF GramsInv
<1>1. stage = "all" /\ table' = table /\ DOMAIN trie' = AllNgrams \cup {Root}
  BY DEF CreateNgramTrie, Root
<1>2. Grams(AllNgrams \cup {Root}, Len(table), EndLabel)
  BY <1>1, AllGrams DEF CountInv
<1>3. EndLabel' = EndLabel
  BY <1>1 DEF EndLabel
<1> QED BY <1>1, <1>2, <1>3

LEMMA KeptGramsInv == GramsInv /\ table' = table /\ trie' = trie /\ (Modelling' => Modelling) => GramsInv'
<1> SUFFICES ASSUME GramsInv, table' = table, trie' = trie, Modelling' => Modelling PROVE GramsInv'
  OBVIOUS
<1>1. EndLabel' = EndLabel
  BY DEF EndLabel
<1> QED BY <1>1 DEF GramsInv

LEMMA AllNextGramsInv == CountInv /\ GramsInv /\ [AllNext]_allVars => GramsInv'
<1> SUFFICES ASSUME CountInv, GramsInv, [AllNext]_allVars PROVE GramsInv'
  OBVIOUS
<1>1. CASE Select
  BY <1>1, SelectGramsInv
<1>2. CASE CreateNgramTrie
  BY <1>2, CreateNgramTrieGramsInv
<1>3. CASE ~ Modelling'
  BY <1>3 DEF GramsInv
<1>4. CASE DoubleFree \/ MakeSymbols \/ AddCounts \/ ProcessSubset \/ CreateScoringFst
  <2>1. ~ Modelling'
    BY <1>4 DEF DoubleFree, MakeSymbols, AddCounts, ProcessSubset, CreateScoringFst, Modelling
  <2> QED BY <1>3, <2>1
<1>5. CASE NoepshistNext \/ HandOver
  <2>1. ~ Modelling'
    BY <1>5 DEF NoepshistNext, StartScoring, AddArcs, ComposeScoringFst, HandOver, Modelling
  <2> QED BY <1>3, <2>1
<1>6. CASE StartAddBackoff \/ AddBackoffArc \/ AddPhiArc \/ Convert \/ NgramFsaInsertFeatures
  <2>1. table' = table /\ trie' = trie /\ Modelling
    BY <1>6 DEF StartAddBackoff, AddBackoffArc, AddPhiArc, Convert, NgramFsaInsertFeatures, Modelling
  <2> QED BY <2>1, KeptGramsInv
<1>7. CASE UNCHANGED topologyVars
  <2>1. table' = table /\ trie' = trie /\ stage' = stage
    BY <1>7 DEF topologyVars, createVars, countVars
  <2> QED BY <2>1, KeptGramsInv DEF Modelling
<1> QED BY <1>1, <1>2, <1>4, <1>5, <1>6, <1>7
        DEF AllNext, allVars, Create, SessionStep, TopologyNext, CreateNext, CountNext

LEMMA InitGramsInv == AllInit => GramsInv
BY DEF AllInit, IdleCreation, CreatingInit, TopologyInit, CreateInit, CountInit, GramsInv, Modelling

-----------------------------------------------------------------------------

\* The symbols of a model so far: all that the first k symbols of the table become, once.
SymsRun(S, m, g) ==
  /\ g \in [0 .. Len(table) -> Seq(S)]
  /\ g[0] = <<>> /\ SymsOf(m) = g[Len(table)]
  /\ \A k \in 1 .. Len(table) :
       g[k] = IF SymOf(m, table[k]) \in ToSet(g[k - 1]) THEN g[k - 1] ELSE Append(g[k - 1], SymOf(m, table[k]))

LEMMA SymsSteps ==
  ASSUME IsTable(table), NEW m, NEW T, T = {SymOf(m, table[i]) : i \in 1 .. Len(table)}
  PROVE  \E g : SymsRun(T, m, g)
<1> DEFINE n == Len(table)
           A == Seq(T)
           op(syms, s) == IF SymOf(m, s) \in ToSet(syms) THEN syms ELSE Append(syms, SymOf(m, s))
           f == [p \in A \X (1 .. n) |-> op(p[1], table[p[2]])]
           R(g) == g = [s \in SUBSET DOMAIN table |->
                          IF s = {} THEN <<>> ELSE op(g[s \ {Max(s)}], table[Max(s)])]
           h == CHOOSE g : R(g)
<1>1. n \in Nat /\ DOMAIN table = 1 .. n /\ \A i \in 1 .. n : SymOf(m, table[i]) \in T
  BY DEF IsTable
<1>2. \A syms \in A, i \in 1 .. n : op(syms, table[i]) \in A
  BY <1>1
<1>3. f \in [A \X (1 .. n) -> A] /\ <<>> \in A
  <2>1. <<>> \in A
    OBVIOUS
  <2> HIDE DEF op, A
  <2>2. f \in [A \X (1 .. n) -> A]
    BY <1>2
  <2> QED BY <2>1, <2>2
<1>4. PICK g \in [SUBSET (1 .. n) -> A] : Iterates(f, <<>>, n, g)
  <2> HIDE DEF f, A, n
  <2> QED BY <1>1, <1>3, IteratesExists DEF Iterable
<1>5. \A s \in SUBSET (1 .. n) : s # {} =>
         f[<<g[s \ {Max(s)}], Max(s)>>] = op(g[s \ {Max(s)}], table[Max(s)])
  <2> SUFFICES ASSUME NEW s \in SUBSET (1 .. n), s # {}
               PROVE f[<<g[s \ {Max(s)}], Max(s)>>] = op(g[s \ {Max(s)}], table[Max(s)])
    OBVIOUS
  <2>1. Max(s) \in 1 .. n /\ g[s \ {Max(s)}] \in A
    BY <1>1, MaxIn
  <2> HIDE DEF op, A
  <2> QED BY <2>1
<1>6. R(g)
  <2> HIDE DEF op, f
  <2> QED BY <1>1, <1>4, <1>5 DEF Iterates
<1>7. R(h)
  <2> HIDE DEF R
  <2> QED BY <1>6
<1>8. SymsOf(m) = h[DOMAIN table]
  BY Zenon DEF SymsOf, FoldLeft, MapThenFoldSet
<1> HIDE DEF h, f
<1>9. \A s \in SUBSET (1 .. n) : h[s] = IF s = {} THEN <<>> ELSE op(h[s \ {Max(s)}], table[Max(s)])
  <2> HIDE DEF op
  <2> QED BY <1>1, <1>7
<1>10. 1 .. 0 = {} /\ {} \in SUBSET (1 .. n) /\ h[{}] = <<>>
  <2>1. 1 .. 0 = {} /\ {} \in SUBSET (1 .. n)
    BY <1>1
  <2> HIDE DEF op
  <2> QED BY <1>9, <2>1
<1> DEFINE H == [k \in 0 .. n |-> h[1 .. k]]
<1>11. \A k \in 1 .. n : H[k] = op(H[k - 1], table[k])
  <2> SUFFICES ASSUME NEW k \in 1 .. n PROVE H[k] = op(H[k - 1], table[k])
    OBVIOUS
  <2>1. k \in 0 .. n /\ k - 1 \in 0 .. n
    BY <1>1
  <2>2. H[k] = h[1 .. k] /\ H[k - 1] = h[1 .. (k - 1)]
    BY <2>1
  <2>3. h[1 .. k] = op(h[1 .. (k - 1)], table[k])
    <3> HIDE DEF op, H
    <3>1. /\ 1 .. k \in SUBSET (1 .. n) /\ 1 .. k # {}
          /\ Max(1 .. k) = k /\ (1 .. k) \ {Max(1 .. k)} = 1 .. (k - 1)
      BY <1>1, FirstPositions
    <3> QED BY <1>9, <3>1
  <2> HIDE DEF H, op
  <2> QED BY <2>2, <2>3
<1>12. H[0] = <<>> /\ H[n] = h[1 .. n]
  BY <1>1, <1>10
<1>h. H = [k \in 0 .. n |-> H[k]]
  OBVIOUS
<1> HIDE DEF H
<1>13. \A k \in 0 .. n : H[k] \in A
  <2> DEFINE G == {k \in 0 .. n : H[k] \in A}
  <2>1. 0 \in G
    <3>1. 0 \in 0 .. n /\ H[0] \in A
      BY <1>1, <1>3, <1>12
    <3> HIDE DEF n, A
    <3> QED BY <3>1
  <2>2. ASSUME NEW k \in 0 .. n - 1, k \in G PROVE k + 1 \in G
    <3>1. k + 1 \in 1 .. n /\ k + 1 \in 0 .. n /\ (k + 1) - 1 = k
      BY <1>1
    <3>2. H[k] \in A
      BY <2>2
    <3> HIDE DEF op, A, H
    <3> QED BY <1>2, <1>11, <3>1, <3>2
  <2> HIDE DEF G
  <2>3. \A k \in 0 .. n : k \in G
    BY <1>1, <2>1, <2>2, UpTo
  <2> QED BY <2>3 DEF G
<1>14. H \in [0 .. n -> A]
  BY <1>h, <1>13
<1>15. SymsRun(T, m, H)
  BY <1>1, <1>8, <1>11, <1>12, <1>14 DEF SymsRun
<1> QED BY <1>15

\* Every symbol of the table becomes one of the model's; the main model has the table's.
LEMMA SymsIs ==
  ASSUME IsTable(table), NEW m
  PROVE  /\ Len(SymsOf(m)) \in Nat /\ DOMAIN SymsOf(m) = 1 .. Len(SymsOf(m))
         /\ \A i \in 1 .. Len(table) : \E v \in 1 .. Len(SymsOf(m)) : SymsOf(m)[v] = SymOf(m, table[i])
         /\ IsMain(m) => SymsOf(m) = table
<1> DEFINE n == Len(table)
           T == {SymOf(m, table[i]) : i \in 1 .. n}
<1>a. PICK g : SymsRun(T, m, g)
  BY SymsSteps
<1>1. /\ g \in [0 .. n -> Seq(T)] /\ g[0] = <<>> /\ SymsOf(m) = g[n]
      /\ n \in Nat /\ DOMAIN table = 1 .. n /\ \A i \in 1 .. n : SymOf(m, table[i]) \in T
      /\ table \in Seq(AnySymbol)
  BY <1>a DEF SymsRun, IsTable
<1>b. \A k \in 1 .. n : /\ SymOf(m, table[k]) \in ToSet(g[k - 1]) => g[k] = g[k - 1]
                        /\ SymOf(m, table[k]) \notin ToSet(g[k - 1]) => g[k] = Append(g[k - 1], SymOf(m, table[k]))
  BY <1>a DEF SymsRun
<1> DEFINE Has(k) == \A i \in 1 .. k : \E v \in 1 .. Len(g[k]) : g[k][v] = SymOf(m, table[i])
           Same(k) == IsMain(m) => Len(g[k]) = k /\ \A i \in 1 .. k : g[k][i] = table[i]
           G == {k \in 0 .. n : Has(k) /\ Same(k)}
<1> HIDE DEF n, T
<1>2. 0 \in G
  <2>1. 1 .. 0 = {} /\ 0 \in 0 .. n /\ Len(g[0]) = 0
    BY <1>1
  <2> QED BY <2>1
<1>3. ASSUME NEW k \in 0 .. n - 1, k \in G PROVE k + 1 \in G
  <2> DEFINE j == k + 1
             u == g[k]
             x == SymOf(m, table[j])
  <2>1. j \in 1 .. n /\ j \in 0 .. n /\ k \in 0 .. n /\ j - 1 = k /\ k \in Nat /\ j = k + 1
    BY <1>1
  <2>2. /\ x \in ToSet(u) => g[j] = u
        /\ x \notin ToSet(u) => g[j] = Append(u, x)
    BY <1>b, <2>1
  <2>3. u \in Seq(T) /\ x \in T /\ DOMAIN u = 1 .. Len(u) /\ Len(u) \in Nat
    BY <1>1, <2>1
  <2>4. /\ \A i \in 1 .. k : \E v \in 1 .. Len(u) : u[v] = SymOf(m, table[i])
        /\ IsMain(m) => Len(u) = k /\ \A i \in 1 .. k : u[i] = table[i]
    BY <1>3
  <2> HIDE DEF j, u
  <2>5. \A i \in 1 .. j : i \in 1 .. k \/ i = j
    BY <2>1
  <2>6. CASE x \in ToSet(u)
    <3>1. g[j] = u
      BY <2>2, <2>6
    <3>2. \E v \in 1 .. Len(u) : u[v] = x
      BY <2>3, <2>6 DEF ToSet
    <3>3. Has(j)
      BY <2>4, <2>5, <3>1, <3>2
    <3>4. ~ IsMain(m)
      <4> SUFFICES ASSUME IsMain(m) PROVE FALSE
        OBVIOUS
      <4>1. x = table[j]
        BY DEF SymOf
      <4>2. PICK v \in 1 .. k : u[v] = table[j] /\ u[v] = table[v]
        BY <2>4, <3>2, <4>1
      <4>3. v \in 1 .. n /\ v # j
        BY <1>1, <2>1
      <4> QED BY <1>1, <2>1, <4>2, <4>3 DEF IsTable, NoDups
    <3> QED BY <2>1, <3>3, <3>4 DEF j
  <2>7. CASE x \notin ToSet(u)
    <3> DEFINE w == Append(u, x)
    <3>1. /\ w \in Seq(T) /\ Len(w) = Len(u) + 1 /\ w[Len(u) + 1] = x
          /\ \A i \in 1 .. Len(u) : w[i] = u[i]
      <4> HIDE DEF x
      <4> QED BY <2>3, AppendFacts
    <3> HIDE DEF w
    <3>2. g[j] = w
      BY <2>2, <2>7 DEF w
    <3>3. Len(u) + 1 \in 1 .. Len(w) /\ \A v \in 1 .. Len(u) : v \in 1 .. Len(w)
      BY <2>3, <3>1
    <3>4. Has(j)
      BY <2>4, <2>5, <3>1, <3>2, <3>3
    <3>5. ASSUME IsMain(m) PROVE Len(w) = j /\ \A i \in 1 .. j : w[i] = table[i]
      <4>1. x = table[j]
        BY <3>5 DEF SymOf
      <4>2. Len(u) = k /\ Len(u) + 1 = j
        BY <2>1, <2>4, <3>5
      <4>3. \A i \in 1 .. k : w[i] = table[i]
        BY <2>4, <3>1, <3>5, <4>2
      <4>4. w[j] = table[j]
        BY <3>1, <4>1, <4>2
      <4> QED BY <2>5, <3>1, <4>2, <4>3, <4>4
    <3>6. Same(j)
      BY <3>2, <3>5
    <3> QED BY <2>1, <3>4, <3>6 DEF j
  <2> QED BY <2>6, <2>7
<1>4. n \in G
  <2> HIDE DEF G
  <2>1. n \in 0 .. n
    BY <1>1
  <2> QED BY <1>1, <1>2, <1>3, <2>1, UpTo
<1>5. Has(n) /\ Same(n)
  BY <1>4
<1>6. g[n] \in Seq(T)
  <2>1. n \in 0 .. n
    BY <1>1
  <2> QED BY <1>1, <2>1
<1>7. IsMain(m) => SymsOf(m) = table
  <2> SUFFICES ASSUME IsMain(m) PROVE SymsOf(m) = table
    OBVIOUS
  <2> DEFINE s == g[n]
  <2>1. Len(s) = n /\ DOMAIN s = 1 .. n /\ \A i \in 1 .. n : s[i] = table[i]
    BY <1>5, <1>6
  <2>2. s = [i \in 1 .. n |-> s[i]] /\ table = [i \in 1 .. n |-> table[i]]
    BY <1>1, <1>6, <2>1
  <2> HIDE DEF s
  <2>3. s = table
    BY <2>1, <2>2
  <2> QED BY <1>1, <2>3 DEF s
<1>8. \A i \in 1 .. n : \E v \in 1 .. Len(SymsOf(m)) : SymsOf(m)[v] = SymOf(m, table[i])
  BY <1>1, <1>5
<1>9. Len(SymsOf(m)) \in Nat /\ DOMAIN SymsOf(m) = 1 .. Len(SymsOf(m))
  BY <1>1, <1>6
<1> QED BY <1>7, <1>8, <1>9 DEF n

\* The labels of the model.
LEMMA LabellingIs ==
  ASSUME IsTable(table), NEW m
  PROVE  /\ DOMAIN Labelling(m) = 1 .. Len(table) /\ Len(SymsOf(m)) \in Nat
         /\ \A l \in 1 .. Len(table) : Labelling(m)[l] \in 1 .. Len(SymsOf(m))
         /\ IsMain(m) => SymsOf(m) = table /\ Labelling(m)[EndLabel] = EndLabel
<1> DEFINE n == Len(table)
           syms == SymsOf(m)
<1>1. /\ Len(syms) \in Nat /\ DOMAIN syms = 1 .. Len(syms)
      /\ \A i \in 1 .. n : \E v \in 1 .. Len(syms) : syms[v] = SymOf(m, table[i])
      /\ IsMain(m) => syms = table
  BY SymsIs
<1>2. DOMAIN table = 1 .. n
  BY DEF IsTable
<1>3. Labelling(m) = [l \in 1 .. n |-> CHOOSE v \in DOMAIN syms : syms[v] = SymOf(m, table[l])]
  BY <1>2 DEF Labelling
<1> HIDE DEF syms, n
<1>4. ASSUME NEW l \in 1 .. n
      PROVE  Labelling(m)[l] \in 1 .. Len(syms) /\ syms[Labelling(m)[l]] = SymOf(m, table[l])
  <2>1. \E v \in DOMAIN syms : syms[v] = SymOf(m, table[l])
    BY <1>1
  <2>2. Labelling(m)[l] = CHOOSE v \in DOMAIN syms : syms[v] = SymOf(m, table[l])
    BY <1>3
  <2> QED BY <1>1, <2>1, <2>2
<1>5. IsMain(m) => Labelling(m)[EndLabel] = EndLabel
  <2> SUFFICES ASSUME IsMain(m) PROVE Labelling(m)[EndLabel] = EndLabel
    OBVIOUS
  <2>1. /\ EndLabel \in 1 .. n /\ table[EndLabel] = EndSym
        /\ \A l \in 1 .. n : table[l] = EndSym => l = EndLabel
    BY EndLabelIs DEF n
  <2>2. SymOf(m, table[EndLabel]) = EndSym
    BY <2>1 DEF SymOf
  <2> QED BY <1>1, <1>2, <1>4, <2>1, <2>2
<1>6. DOMAIN Labelling(m) = 1 .. n
  BY <1>3
<1> QED BY <1>1, <1>4, <1>5, <1>6 DEF syms, n

-----------------------------------------------------------------------------

\* The n-grams of one model, written in the labels of that model.

LEMMA TailStands ==
  ASSUME NEW S, NEW p \in Seq(S), Len(p) > 1, NEW v, Len(v) \in Nat, NEW i \in Nat, StandsAt(p, v, i)
  PROVE  StandsAt(Tail(p), v, i + 1)
<1> DEFINE a == Len(p)
           b == Len(v)
           c == Len(Tail(p))
<1>1. p # <<>>
  BY EmptyFacts
<1>2. c = a - 1 /\ \A k \in 1 .. a - 1 : Tail(p)[k] = p[k + 1]
  BY <1>1, TailFacts
<1>3. i \in Nat \ {0} /\ i + a - 1 <= b /\ \A k \in 1 .. a : p[k] = v[i + k - 1]
  BY DEF StandsAt
<1>4. a \in Nat /\ b \in Nat /\ a > 1
  OBVIOUS
<1> HIDE DEF a, b, c
<1>5. i + 1 \in Nat \ {0} /\ (i + 1) + c - 1 <= b
  BY <1>2, <1>3, <1>4
<1>6. ASSUME NEW k \in 1 .. c PROVE Tail(p)[k] = v[(i + 1) + k - 1]
  <2> DEFINE j == k + 1
  <2>1. j \in 1 .. a /\ (i + 1) + k - 1 = i + j - 1 /\ k \in 1 .. a - 1
    BY <1>2, <1>3, <1>4
  <2>2. Tail(p)[k] = p[j]
    BY <1>2, <2>1
  <2> HIDE DEF j
  <2> QED BY <1>3, <2>1, <2>2
<1> QED BY <1>5, <1>6 DEF StandsAt, a, b, c

\* A string in the labels of a model.
InLabels(label, p) == [i \in DOMAIN p |-> label[p[i]]]

\* A string over A, relabelled by a map from A to B, is a string over B.
LEMMA InLabelsFrom ==
  ASSUME NEW A, NEW B, NEW label, DOMAIN label = A, \A l \in A : label[l] \in B, NEW p \in Seq(A)
  PROVE  /\ InLabels(label, p) \in Seq(B) /\ Len(InLabels(label, p)) = Len(p)
         /\ \A i \in 1 .. Len(p) : InLabels(label, p)[i] = label[p[i]]
<1> DEFINE u == InLabels(label, p)
           k == Len(p)
<1>1. k \in Nat /\ DOMAIN p = 1 .. k /\ \A i \in 1 .. k : p[i] \in A
  OBVIOUS
<1>2. u = [i \in 1 .. k |-> label[p[i]]]
  BY <1>1 DEF InLabels
<1>3. u \in [1 .. k -> B]
  BY <1>1, <1>2
<1> HIDE DEF k
<1>4. u \in Seq(B) /\ Len(u) = k
  <2> HIDE DEF u
  <2> QED BY <1>1, <1>3
<1> QED BY <1>2, <1>4 DEF k

LEMMA InLabelsIs ==
  ASSUME NEW n \in Nat, NEW m \in Nat, NEW label, DOMAIN label = 1 .. n,
         \A l \in 1 .. n : label[l] \in 1 .. m, NEW p \in Seq(1 .. n)
  PROVE  /\ InLabels(label, p) \in Seq(1 .. m) /\ Len(InLabels(label, p)) = Len(p)
         /\ \A i \in 1 .. Len(p) : InLabels(label, p)[i] = label[p[i]]
<1> DEFINE A == 1 .. n
           B == 1 .. m
<1>1. p \in Seq(A) /\ DOMAIN label = A /\ \A l \in A : label[l] \in B
  OBVIOUS
<1> HIDE DEF A, B
<1>2. /\ InLabels(label, p) \in Seq(B) /\ Len(InLabels(label, p)) = Len(p)
      /\ \A i \in 1 .. Len(p) : InLabels(label, p)[i] = label[p[i]]
  BY ONLY <1>1, InLabelsFrom
<1> QED BY <1>2 DEF B

\* The n-grams of a trie in the labels of a model, with the strings that the trie accepts.
LEMMA InLabelsGrams ==
  ASSUME NEW n \in Nat, NEW m \in Nat, NEW label, DOMAIN label = 1 .. n,
         \A l \in 1 .. n : label[l] \in 1 .. m, NEW G, NEW e, Grams(G, n, e), NEW order \in Nat
  PROVE  Grams(GramsOf({InLabels(label, p) : p \in G}, order), m, label[e])
<1> DEFINE lattice == {InLabels(label, p) : p \in G}
           H == GramsOf(lattice, order)
<1>1. \A p \in G : p \in Seq(1 .. n)
  BY DEF Grams
<1>2. \A p \in Seq(1 .. n) :
        /\ InLabels(label, p) \in Seq(1 .. m) /\ Len(InLabels(label, p)) = Len(p)
        /\ \A i \in 1 .. Len(p) : InLabels(label, p)[i] = label[p[i]]
  <2> SUFFICES ASSUME NEW p \in Seq(1 .. n)
               PROVE  /\ InLabels(label, p) \in Seq(1 .. m) /\ Len(InLabels(label, p)) = Len(p)
                      /\ \A i \in 1 .. Len(p) : InLabels(label, p)[i] = label[p[i]]
    OBVIOUS
  <2>1. n \in Nat /\ m \in Nat /\ DOMAIN label = 1 .. n /\ (\A l \in 1 .. n : label[l] \in 1 .. m) /\ p \in Seq(1 .. n)
    OBVIOUS
  <2> QED BY ONLY <2>1, InLabelsIs, SMTT(60)
<1>3. lattice \in SUBSET Seq(1 .. m) /\ \A v \in lattice : \E r \in G : v = InLabels(label, r)
  BY <1>1, <1>2
<1>4. \A r \in G : InLabels(label, r) \in lattice
  OBVIOUS
<1> HIDE DEF lattice
<1>5. Root \in H /\ \A p \in H : p # Root => p \in NgramsOf(lattice, order)
  BY DEF GramsOf
<1>6. \A p \in H : p # Root => p \in Seq(1 .. m) /\ Front(p) \in H /\ Tail(p) \in H
  BY <1>3, <1>5, NgramsInside
<1>7. Root \in Seq(1 .. m)
  BY EmptyFacts DEF Root
<1>8. ASSUME NEW p \in H, Len(p) >= 2, Leaf(H, m, Tail(p)) PROVE Last(p) = label[e]
  <2>1. p # Root
    BY <1>8, EmptyFacts DEF Root
  <2>2. p \in NgramsOf(lattice, order)
    BY <1>5, <2>1
  <2>3. /\ p \in Seq(1 .. m) /\ Len(p) \in 1 .. order /\ Len(p) \in Nat /\ Len(p) > 1 /\ p # <<>>
        /\ \E v \in lattice, i \in Nat : StandsAt(p, v, i)
    <3>1. p \in Seq(1 .. m) /\ Len(p) \in 1 .. order /\ \E v \in lattice, i \in Nat : StandsAt(p, v, i)
      BY <1>3, <2>2, NgramsSay
    <3>2. \A k \in 1 .. order : k \in Nat /\ (k >= 2 => k > 1)
      OBVIOUS
    <3> QED BY <1>8, <2>1, <3>1, <3>2 DEF Root
  <2>4. PICK v \in lattice, i \in Nat : StandsAt(p, v, i)
    BY <2>3
  <2>5. PICK r \in G : v = InLabels(label, r)
    BY <1>3
  <2> DEFINE k == Len(p)
             z == Len(r)
             s == SubSeq(r, i, z)
             q == Tail(p)
             h == i + 1
  <2>6. /\ r \in Seq(1 .. n) /\ v \in Seq(1 .. m) /\ Len(v) = z /\ z \in Nat
        /\ \A j \in 1 .. z : v[j] = label[r[j]]
    BY <1>1, <1>2, <2>5
  <2>7. /\ q \in Seq(1 .. m) /\ Len(q) = k - 1 /\ \A j \in 1 .. k - 1 : q[j] = p[j + 1]
    BY <2>3, TailFacts
  <2>8. /\ i \in Nat \ {0} /\ i + k - 1 <= z /\ \A j \in 1 .. k : p[j] = v[i + j - 1]
    BY <2>4, <2>6 DEF StandsAt
  <2>e. z \in Nat /\ i \in Nat /\ i >= 1 /\ k \in Nat /\ i + k - 1 <= z /\ Len(q) = k - 1
    BY <2>3, <2>6, <2>7, <2>8
  <2>a. k \in Nat /\ k > 1 /\ k \in 1 .. order /\ order \in Nat /\ m \in Nat /\ lattice \in SUBSET Seq(1 .. m)
    BY <1>3, <2>3
  <2>b. h = i + 1 /\ h \in Nat /\ StandsAt(q, v, h)
    BY <2>3, <2>4, <2>6, TailStands
  <2>c. q \in NgramsOf(lattice, order)
    BY <1>3, <2>2, <2>3, NgramsClosed
  <2>d. Leaf(NgramsOf(lattice, order), m, q)
    BY <1>8 DEF Leaf, GramsOf
  <2> HIDE DEF k, z, s, q, h
  <2>9. i + k - 1 = z
    <3>1. Len(q) < order
      BY ONLY <2>a, <2>7
    <3>2. h + Len(q) = Len(v) + 1
      BY ONLY <2>a, <2>b, <2>c, <2>d, <3>1, NgramsLeaf
    <3>3. (i + 1) + (k - 1) = z + 1
      BY <2>6, <2>7, <2>b, <3>2
    <3> QED BY ONLY <2>e, <3>3
  <2>10. i \in 1 .. z /\ z \in 1 .. z /\ i <= z /\ z - i + 1 = k
    <3>1. k > 1
      BY <2>a
    <3> QED BY ONLY <2>e, <2>9, <3>1
  <2>11. s \in Seq(1 .. n) /\ Len(s) = k /\ \A j \in 1 .. k : s[j] = r[i + j - 1]
    <3>1. r \in Seq(1 .. n)
      BY <2>6
    <3>2. /\ SubSeq(r, i, z) \in Seq(1 .. n) /\ Len(SubSeq(r, i, z)) = z - i + 1
          /\ \A j \in 1 .. z - i + 1 : SubSeq(r, i, z)[j] = r[i + j - 1]
      BY ONLY <2>10, <3>1, SubSeqFacts DEF z
    <3> QED BY <2>10, <3>2 DEF s
  <2>12. s \in G
    <3>1. Len(s) <= Len(r)
      <4>1. k <= z
        BY <2>6, <2>8, <2>9, <2>a
      <4> QED BY <2>11, <4>1 DEF z
    <3>2. ASSUME NEW j \in 1 .. Len(s) PROVE s[j] = r[Len(r) - Len(s) + j]
      <4>1. z - k + j = i + j - 1
        BY <2>6, <2>8, <2>10, <2>11, <2>a
      <4> QED BY <2>11, <4>1 DEF z
    <3>3. Ends(s, r)
      BY <3>1, <3>2 DEF Ends
    <3> QED BY <2>11, <3>3, GramsEnd
  <2>13. \A j \in 1 .. k : p[j] = label[s[j]]
    <3> SUFFICES ASSUME NEW j \in 1 .. k PROVE p[j] = label[s[j]]
      OBVIOUS
    <3>1. i + j - 1 \in 1 .. z
      BY <2>6, <2>8, <2>9, <2>a
    <3>2. p[j] = v[i + j - 1]
      BY <2>8
    <3> QED BY <2>6, <2>11, <3>1, <3>2
  <2>14. /\ Tail(s) \in Seq(1 .. n) /\ Len(Tail(s)) = k - 1 /\ \A j \in 1 .. k - 1 : Tail(s)[j] = s[j + 1]
         /\ Last(s) = s[k] /\ Last(p) = p[k] /\ Len(s) >= 2
    <3>1. s # <<>> /\ Len(s) >= 2
      BY <2>a, <2>11, EmptyFacts
    <3>2. Tail(s) \in Seq(1 .. n) /\ Len(Tail(s)) = k - 1 /\ \A j \in 1 .. k - 1 : Tail(s)[j] = s[j + 1]
      BY <2>11, <3>1, TailFacts
    <3>3. Last(s) = s[k]
      BY <2>11, <3>1, FrontFacts
    <3>4. Last(p) = p[k]
      BY <2>3, FrontFacts DEF k
    <3> QED BY <3>1, <3>2, <3>3, <3>4
  <2>15. Leaf(G, n, Tail(s))
    <3> SUFFICES ASSUME NEW l \in 1 .. n, Append(Tail(s), l) \in G PROVE FALSE
      BY DEF Leaf
    <3> DEFINE t == Append(Tail(s), l)
               x == label[l]
               u == Append(q, x)
               w == InLabels(label, t)
    <3>1. t \in Seq(1 .. n) /\ Len(t) = (k - 1) + 1 /\ t[(k - 1) + 1] = l /\ \A j \in 1 .. k - 1 : t[j] = Tail(s)[j]
      <4> DEFINE y == Tail(s)
      <4>1. y \in Seq(1 .. n) /\ l \in 1 .. n /\ Len(y) = k - 1
        BY <2>14
      <4> HIDE DEF y
      <4>2. /\ Append(y, l) \in Seq(1 .. n) /\ Len(Append(y, l)) = Len(y) + 1 /\ Append(y, l)[Len(y) + 1] = l
            /\ \A j \in 1 .. Len(y) : Append(y, l)[j] = y[j]
        BY ONLY <4>1, AppendFacts
      <4> QED BY <4>1, <4>2 DEF y
    <3>2. x \in 1 .. m
      OBVIOUS
    <3>3. t \in G
      OBVIOUS
    <3> HIDE DEF t, x
    <3>4. Len(t) = k /\ t[k] = l
      BY <2>a, <3>1
    <3>5. u \in Seq(1 .. m) /\ Len(u) = (k - 1) + 1 /\ u[(k - 1) + 1] = x /\ \A j \in 1 .. k - 1 : u[j] = q[j]
      BY <2>7, <3>2, AppendFacts
    <3>6. Len(u) = k /\ u[k] = x
      BY <2>a, <3>5
    <3> HIDE DEF u
    <3>7. w \in Seq(1 .. m) /\ Len(w) = k /\ \A j \in 1 .. k : w[j] = label[t[j]]
      BY <1>2, <3>1, <3>4
    <3>8. w \in lattice
      BY <1>4, <3>3
    <3> HIDE DEF w
    <3>9. w = u
      <4>1. ASSUME NEW j \in 1 .. k PROVE w[j] = u[j]
        <5>1. CASE j = k
          BY <3>4, <3>6, <3>7, <5>1 DEF x
        <5>2. CASE j # k
          <6> DEFINE b == j + 1
          <6>1. j \in 1 .. k - 1 /\ b \in 1 .. k
            BY <2>a, <5>2
          <6>2. t[j] = s[b] /\ u[j] = p[b]
            BY <2>7, <2>14, <3>1, <3>5, <6>1
          <6> HIDE DEF b
          <6>3. p[b] = label[s[b]]
            BY <2>13, <6>1
          <6> QED BY <3>7, <6>2, <6>3
        <5> QED BY <5>1, <5>2
      <4> QED BY <3>5, <3>6, <3>7, <4>1, SameSequence
    <3>10. StandsAt(w, w, 1)
      <4>1. 1 \in Nat \ {0} /\ 1 + Len(w) - 1 <= Len(w)
        BY <2>a, <3>7
      <4>2. \A j \in 1 .. Len(w) : 1 + j - 1 = j
        BY <2>a, <3>7
      <4> QED BY <4>1, <4>2 DEF StandsAt
    <3>11. w \in NgramsOf(lattice, order)
      <4>1. Len(w) \in 1 .. order /\ 1 \in Nat
        BY <2>a, <3>7
      <4> QED BY <1>3, <3>7, <3>8, <3>10, <4>1, NgramsSay
    <3>12. Append(q, x) \in H
      BY <3>9, <3>11 DEF GramsOf, u
    <3> QED BY <1>8, <3>2, <3>12 DEF Leaf, q
  <2>16. Last(s) = e
    BY <2>12, <2>14, <2>15 DEF Grams
  <2>17. k \in 1 .. k
    BY <2>a
  <2> QED BY <2>13, <2>14, <2>16, <2>17
<1> HIDE DEF H
<1>9. Grams(H, m, label[e])
  BY <1>5, <1>6, <1>7, <1>8 DEF Grams
<1> QED BY <1>9 DEF H, lattice

\* The n-grams that each model is made from.
LEMMA ModelGrams ==
  ASSUME IsTable(table), opts.order \in Nat, Grams(DOMAIN trie, Len(table), EndLabel), NEW k
  PROVE  Grams(NgramsOfModel(k), Len(SymsOf(k)), Labelling(k)[EndLabel])
<1> DEFINE n == Len(table)
           m == Len(SymsOf(k))
           label == Labelling(k)
           e == EndLabel
           G == DOMAIN trie
<1>1. /\ DOMAIN label = 1 .. n /\ m \in Nat /\ \A l \in 1 .. n : label[l] \in 1 .. m
      /\ IsMain(k) => m = n /\ label[e] = e
  BY LabellingIs
<1>2. n \in Nat /\ e \in 1 .. n
  BY EndLabelIs DEF IsTable
<1>3. CASE IsMain(k)
  BY <1>1, <1>3 DEF NgramsOfModel
<1>4. CASE ~ IsMain(k)
  <2> DEFINE order == opts.order
  <2>2. NgramsOfModel(k) = GramsOf({InLabels(label, p) : p \in G}, order)
    BY <1>4 DEF NgramsOfModel, GramsOf, InLabels
  <2>3. Grams(G, n, e) /\ order \in Nat
    OBVIOUS
  <2> HIDE DEF n, m, G, e, order, label
  <2>4. Grams(GramsOf({InLabels(label, p) : p \in G}, order), m, label[e])
    BY <1>1, <1>2, <2>3, InLabelsGrams
  <2> QED BY <2>2, <2>4 DEF m, e, label
<1> QED BY <1>3, <1>4

IsLongest(s, S) == s \in S /\ \A t \in S : Len(t) <= Len(s)

\* The ends of p that go on.
InnerEnds(G, n, p) == {q \in G : ~ Leaf(G, n, q) /\ Ends(q, p)}

\* The state that the state p is to back off to.
BacksTo(G, n, p, b) ==
  /\ p = Root => b = Root
  /\ p # Root => IsLongest(b, InnerEnds(G, n, p) \ {p})

\* What precedes a proper end of an n-gram.
LEMMA GramsBefore ==
  ASSUME NEW n \in Nat, NEW G, NEW e, Grams(G, n, e), NEW p \in G, NEW q \in Seq(1 .. n), Ends(q, p), q # p
  PROVE  \E t \in G : t # Root /\ Tail(t) = q
<1> DEFINE Found == \E t \in G : t # Root /\ Tail(t) = q
           Lengths2 == {Len(t) : t \in {t \in G : Ends(q, t) /\ q # t}}
<1>1. \A t \in G : t \in Seq(1 .. n) /\ Len(t) \in Nat
  BY DEF Grams
<1>2. Lengths2 \in SUBSET Nat /\ Lengths2 # {}
  BY <1>1
<1>3. PICK k \in Lengths2 : \A j \in Lengths2 : k <= j
  <2> HIDE DEF Lengths2
  <2> QED BY <1>2, LeastNatural
<1>4. PICK t \in G : Ends(q, t) /\ q # t /\ Len(t) = k
  OBVIOUS
<1>5. t \in Seq(1 .. n) /\ t # <<>> /\ Ends(q, Tail(t)) /\ Len(t) \in Nat
  BY <1>1, <1>4, EndsTail
<1>6. Tail(t) \in G /\ Len(Tail(t)) = Len(t) - 1
  BY <1>5, TailFacts DEF Grams, Root
<1>7. Tail(t) = q
  <2> SUFFICES ASSUME Tail(t) # q PROVE FALSE
    OBVIOUS
  <2>1. Len(Tail(t)) \in Lengths2
    BY <1>5, <1>6
  <2>2. k <= Len(Tail(t))
    BY <1>3, <2>1
  <2> QED BY <1>4, <1>5, <1>6, <2>2
<1> QED BY <1>5, <1>7 DEF Root

\* Where AddBackoff takes the next state from, for the label l at p.
LEMMA BackoffAfter ==
  ASSUME NEW n \in Nat, NEW G, NEW e, Grams(G, n, e), NEW p \in G, NEW b, BacksTo(G, n, p, b),
         NEW l \in 1 .. n, Append(p, l) \in G
  PROVE  /\ p = Root => BacksTo(G, n, Append(p, l), Root)
         /\ p # Root =>
              /\ b # p /\ b \in G /\ ~ Leaf(G, n, b) /\ Append(b, l) \in G
              /\ ~ Leaf(G, n, Append(p, l)) \/ l # e =>
                   ~ Leaf(G, n, Append(b, l)) /\ BacksTo(G, n, Append(p, l), Append(b, l))
<1> DEFINE pl == Append(p, l)
           bl == Append(b, l)
<1>1. p \in Seq(1 .. n) /\ pl \in Seq(1 .. n) /\ Len(p) \in Nat
  BY DEF Grams
<1>2. pl # <<>> /\ Len(pl) = Len(p) + 1 /\ Front(pl) = p /\ Last(pl) = l
  BY <1>1, AppendFacts
<1>3. pl \in G
  OBVIOUS
<1> HIDE DEF pl, bl
<1>4. \A t \in InnerEnds(G, n, pl) \ {pl} :
        /\ t \in G /\ t \in Seq(1 .. n) /\ ~ Leaf(G, n, t) /\ Ends(t, pl) /\ t # pl /\ Len(t) < Len(pl)
        /\ t # <<>> => /\ Last(t) = l /\ Ends(Front(t), p) /\ Front(t) \in G /\ ~ Leaf(G, n, Front(t))
                       /\ Front(t) # p /\ Len(t) = Len(Front(t)) + 1
  <2> SUFFICES ASSUME NEW t \in InnerEnds(G, n, pl) \ {pl}
               PROVE /\ t \in G /\ t \in Seq(1 .. n) /\ ~ Leaf(G, n, t) /\ Ends(t, pl) /\ t # pl /\ Len(t) < Len(pl)
                     /\ t # <<>> => /\ Last(t) = l /\ Ends(Front(t), p) /\ Front(t) \in G /\ ~ Leaf(G, n, Front(t))
                                    /\ Front(t) # p /\ Len(t) = Len(Front(t)) + 1
    OBVIOUS
  <2>1. t \in G /\ ~ Leaf(G, n, t) /\ Ends(t, pl) /\ t # pl /\ t \in Seq(1 .. n)
    BY DEF InnerEnds, Grams
  <2>2. Len(t) < Len(pl)
    BY <1>1, <2>1, EndsTail
  <2>3. ASSUME t # <<>>
        PROVE  /\ Last(t) = l /\ Ends(Front(t), p) /\ Front(t) \in G /\ ~ Leaf(G, n, Front(t))
               /\ Front(t) # p /\ Len(t) = Len(Front(t)) + 1
    <3>1. Last(t) = l /\ Ends(Front(t), p)
      BY <1>1, <2>1, <2>3, EndsAppend DEF pl
    <3>2. Front(t) \in G
      BY <2>1, <2>3 DEF Grams, Root
    <3>3. Append(Front(t), l) = t /\ Len(t) = Len(Front(t)) + 1
      <4>1. Append(Front(t), Last(t)) = t /\ Len(Front(t)) = Len(t) - 1 /\ Len(t) \in Nat
        BY <2>1, <2>3, FrontFacts
      <4> QED BY <3>1, <4>1
    <3>4. Front(t) # p
      BY <2>1, <3>3 DEF pl
    <3>5. ~ Leaf(G, n, Front(t))
      BY <2>1, <3>3 DEF Leaf
    <3> QED BY <3>1, <3>2, <3>3, <3>4, <3>5
  <2> QED BY <2>1, <2>2, <2>3
<1>5. ~ Leaf(G, n, Root) /\ Root \in G /\ Ends(Root, pl) /\ Root # pl /\ Len(Root) = 0
  <2>1. ~ Leaf(G, n, Root)
    BY <1>2, <1>3, GramsRoot DEF Root
  <2>2. Ends(Root, pl)
    BY <1>1, EndsItself DEF Root
  <2> QED BY <1>2, <2>1, <2>2, EmptyFacts DEF Grams, Root
<1>6. ASSUME p = Root PROVE BacksTo(G, n, pl, Root)
  <2>1. Len(pl) = 1
    BY <1>2, <1>5, <1>6
  <2>2. \A t \in InnerEnds(G, n, pl) \ {pl} : Len(t) <= Len(Root)
    <3> SUFFICES ASSUME NEW t \in InnerEnds(G, n, pl) \ {pl} PROVE Len(t) <= 0
      BY <1>5
    <3>1. Len(t) < Len(pl) /\ t \in Seq(1 .. n)
      BY <1>4
    <3>2. Len(t) \in Nat
      BY <3>1
    <3> QED BY <2>1, <3>1, <3>2
  <2>3. Root \in InnerEnds(G, n, pl) \ {pl}
    BY <1>5 DEF InnerEnds
  <2> QED BY <1>5, <2>2, <2>3 DEF BacksTo, IsLongest
<1>7. ASSUME p # Root
      PROVE  /\ b # p /\ b \in G /\ ~ Leaf(G, n, b) /\ bl \in G
             /\ ~ Leaf(G, n, pl) \/ l # e => ~ Leaf(G, n, bl) /\ BacksTo(G, n, pl, bl)
  <2>1. /\ b \in G /\ ~ Leaf(G, n, b) /\ Ends(b, p) /\ b # p
        /\ \A t \in InnerEnds(G, n, p) \ {p} : Len(t) <= Len(b)
    BY <1>7 DEF BacksTo, IsLongest, InnerEnds
  <2>2. b \in Seq(1 .. n) /\ Len(b) \in Nat
    <3>1. b \in Seq(1 .. n)
      BY <2>1 DEF Grams
    <3> QED BY <3>1
  <2>3. bl \in Seq(1 .. n) /\ Len(bl) = Len(b) + 1 /\ Front(bl) = b /\ Last(bl) = l /\ bl # <<>>
    BY <2>2, AppendFacts DEF bl
  <2>4. Ends(bl, pl)
    BY <1>1, <2>1, <2>2, EndsAppend DEF bl, pl
  <2>5. bl \in G
    BY <1>3, <2>3, <2>4, GramsEnd
  <2>6. bl # pl
    BY <1>2, <2>1, <2>3
  <2>7. ASSUME ~ Leaf(G, n, pl) PROVE ~ Leaf(G, n, bl)
    <3>1. PICK x \in 1 .. n : Append(pl, x) \in G
      BY <2>7 DEF Leaf
    <3>2. Ends(Append(bl, x), Append(pl, x)) /\ Append(bl, x) \in Seq(1 .. n)
      BY <1>1, <2>3, <2>4, EndsAppend, AppendFacts
    <3>3. Append(bl, x) \in G
      BY <3>1, <3>2, GramsEnd
    <3> QED BY <3>3 DEF Leaf
  <2>8. ASSUME l # e PROVE ~ Leaf(G, n, bl)
    <3> SUFFICES ASSUME Leaf(G, n, bl) PROVE FALSE
      OBVIOUS
    <3>1. PICK t \in G : t # Root /\ Tail(t) = bl
      BY <1>3, <2>3, <2>4, <2>6, GramsBefore
    <3>2. t \in Seq(1 .. n) /\ t # <<>>
      BY <3>1 DEF Grams, Root
    <3> DEFINE k == Len(t)
    <3>3. /\ k \in Nat /\ Len(bl) = k - 1 /\ \A i \in 1 .. k - 1 : bl[i] = t[i + 1]
          /\ Last(t) = t[k]
      BY <3>1, <3>2, TailFacts, FrontFacts
    <3>4. Last(bl) = bl[Len(bl)]
      BY <2>3, FrontFacts
    <3> HIDE DEF k
    <3>5. k - 1 \in 1 .. k - 1 /\ (k - 1) + 1 = k /\ k >= 2
      BY <2>2, <2>3, <3>3
    <3>6. bl[k - 1] = t[k]
      BY <3>3, <3>5
    <3>7. Last(t) = l
      BY <2>3, <3>3, <3>4, <3>6
    <3>8. Last(t) = e
      BY <3>1, <3>5 DEF Grams, k
    <3> QED BY <2>8, <3>7, <3>8
  <2>9. ASSUME ~ Leaf(G, n, bl) PROVE BacksTo(G, n, pl, bl)
    <3>1. bl \in InnerEnds(G, n, pl) \ {pl}
      BY <2>4, <2>5, <2>6, <2>9 DEF InnerEnds
    <3>2. ASSUME NEW t \in InnerEnds(G, n, pl) \ {pl} PROVE Len(t) <= Len(bl)
      <4>1. CASE t = <<>>
        BY <2>2, <2>3, <4>1, EmptyFacts
      <4>2. CASE t # <<>>
        <5>1. Ends(Front(t), p) /\ Front(t) \in G /\ ~ Leaf(G, n, Front(t)) /\ Front(t) # p /\ Len(t) = Len(Front(t)) + 1
              /\ t \in Seq(1 .. n)
          BY <1>4, <4>2
        <5>2. Len(Front(t)) <= Len(b)
          BY <2>1, <5>1 DEF InnerEnds
        <5>3. Len(Front(t)) \in Nat
          BY <4>2, <5>1, FrontFacts
        <5> QED BY <2>2, <2>3, <5>1, <5>2, <5>3
      <4> QED BY <4>1, <4>2
    <3> QED BY <1>2, <3>1, <3>2 DEF BacksTo, IsLongest, Root
  <2> QED BY <2>1, <2>5, <2>7, <2>8, <2>9
<1> QED BY <1>6, <1>7 DEF pl, bl

\* The longest end that goes on: of an n-gram that goes on itself, of others the backoff.
LEMMA LongestEnd ==
  ASSUME NEW n \in Nat, NEW G, NEW e, Grams(G, n, e), NEW p \in G, p # Root
  PROVE  /\ ~ Leaf(G, n, p) => IsLongest(p, InnerEnds(G, n, p))
         /\ \A b : Leaf(G, n, p) /\ BacksTo(G, n, p, b) => IsLongest(b, InnerEnds(G, n, p))
<1>1. \A q \in G : q \in Seq(1 .. n)
  BY DEF Grams
<1>2. \A q \in InnerEnds(G, n, p) : Len(q) <= Len(p)
  BY DEF InnerEnds, Ends
<1>3. Ends(p, p)
  BY <1>1, EndsItself
<1>4. ~ Leaf(G, n, p) => IsLongest(p, InnerEnds(G, n, p))
  BY <1>2, <1>3 DEF IsLongest, InnerEnds
<1>5. Leaf(G, n, p) => InnerEnds(G, n, p) \ {p} = InnerEnds(G, n, p)
  BY DEF InnerEnds
<1> QED BY <1>4, <1>5 DEF BacksTo

\* There is only one longest end of a kind.
LEMMA LongestIs ==
  ASSUME NEW n \in Nat, NEW p \in Seq(1 .. n), NEW S, S \subseteq {q \in Seq(1 .. n) : Ends(q, p)},
         NEW s, IsLongest(s, S)
  PROVE  LongestOf(S) = s
<1>1. LongestOf(S) \in S /\ \A t \in S : Len(t) <= Len(LongestOf(S))
  BY DEF LongestOf, IsLongest
<1> DEFINE t == LongestOf(S)
<1>2. s \in S /\ Len(t) <= Len(s) /\ Len(s) <= Len(t)
  BY <1>1 DEF IsLongest
<1> HIDE DEF t
<1>3. t \in Seq(1 .. n) /\ s \in Seq(1 .. n) /\ Ends(t, p) /\ Ends(s, p)
  BY <1>1, <1>2 DEF t
<1>4. Len(t) = Len(s)
  <2>1. Len(t) \in Nat /\ Len(s) \in Nat
    BY <1>3
  <2> QED BY <1>2, <2>1
<1> QED BY <1>3, <1>4, EndsAlike DEF t

-----------------------------------------------------------------------------

\* The calls of AddBackoffArcs_rec that are open, and the arcs they still owe.

Kids(G, n, p) == {l \in 1 .. n : Append(p, l) \in G}
Inner(G, n) == {p \in G : ~ Leaf(G, n, p)}

\* The states of the calls cs, and those that no call has reached yet.
At(cs, p) == \E c \in cs : c.at = p
Untouched(nx, cs, p) == p # Root /\ Phi \notin DOMAIN nx[p] /\ ~ At(cs, p)

Todo(c) == ToSet(c.todo)
Right(G, n, nx, p, l) == IsLongest(nx[p][l], InnerEnds(G, n, Append(p, l)))

\* The trie nx with or without back-off arcs.
TrieArcs(G, n, nx) ==
  /\ DOMAIN nx = G
  /\ \A p \in G : Leaf(G, n, p) => nx[p] = <<>>
  /\ \A p \in Inner(G, n) :
       /\ Kids(G, n, p) \subseteq DOMAIN nx[p] /\ DOMAIN nx[p] \subseteq Kids(G, n, p) \cup {Phi}
       /\ \A l \in Kids(G, n, p) : Append(p, l) \in Inner(G, n) => nx[p][l] = Append(p, l)

\* A call: the arcs to do are as the trie has them, the others are right.
CallRight(G, n, e, nx, c) ==
  /\ c.at \in G
  /\ c.at # Root => c.at \in Inner(G, n)
  /\ BacksTo(G, n, c.at, c.backoff) /\ Phi \notin DOMAIN nx[c.at]
  /\ Todo(c) \subseteq Kids(G, n, c.at)
  /\ \A l \in Todo(c) : nx[c.at][l] = Append(c.at, l)
  /\ \A l \in Kids(G, n, c.at) \ Todo(c) : l # e => Right(G, n, nx, c.at, l)

\* A state that no call has reached: a call will come to it.
FreshWaits(G, n, nx, cs, p) ==
  /\ \A l \in Kids(G, n, p) : nx[p][l] = Append(p, l)
  /\ \/ Untouched(nx, cs, Front(p))
     \/ \E c \in cs : c.at = Front(p) /\ Last(p) \in Todo(c)
  /\ \A l \in Kids(G, n, p) : Append(p, l) \in Inner(G, n) => Untouched(nx, cs, Append(p, l))

\* A state whose call has returned.
DoneRight(G, n, e, nx, p) ==
  /\ p # Root => Phi \in DOMAIN nx[p] /\ BacksTo(G, n, p, nx[p][Phi])
  /\ \A l \in Kids(G, n, p) : l # e => Right(G, n, nx, p, l)

Backing(G, n, e, nx, cs) ==
  /\ TrieArcs(G, n, nx)
  /\ \A c \in cs : /\ CallRight(G, n, e, nx, c)
                   /\ \A l \in Todo(c) : Append(c.at, l) \in Inner(G, n) => Untouched(nx, cs, Append(c.at, l))
  /\ \A p \in Inner(G, n) :
       /\ Untouched(nx, cs, p) => FreshWaits(G, n, nx, cs, p)
       /\ ~ Untouched(nx, cs, p) /\ ~ At(cs, p) => DoneRight(G, n, e, nx, p)

LEMMA KidsAre ==
  ASSUME NEW n \in Nat, NEW G, NEW e, Grams(G, n, e), NEW p \in G, NEW l \in Kids(G, n, p)
  PROVE  /\ l \in 1 .. n /\ l # Phi /\ p \in Inner(G, n) /\ Append(p, l) \in G /\ Append(p, l) # Root
         /\ Front(Append(p, l)) = p /\ Last(Append(p, l)) = l
<1>1. p \in Seq(1 .. n) /\ l \in 1 .. n /\ Append(p, l) \in G
  BY DEF Grams, Kids
<1>2. Append(p, l) # <<>> /\ Front(Append(p, l)) = p /\ Last(Append(p, l)) = l
  BY <1>1, AppendFacts
<1> QED BY <1>1, <1>2 DEF Phi, Inner, Leaf, Root

LEMMA InnerFront ==
  ASSUME NEW n \in Nat, NEW G, NEW e, Grams(G, n, e), NEW p \in G, p # Root
  PROVE  Front(p) \in Inner(G, n) /\ Last(p) \in Kids(G, n, Front(p)) /\ Append(Front(p), Last(p)) = p
<1>1. p \in Seq(1 .. n) /\ p # <<>> /\ Front(p) \in G
  BY DEF Grams, Root
<1>2. Last(p) \in 1 .. n /\ Append(Front(p), Last(p)) = p
  BY <1>1, FrontFacts
<1> QED BY <1>1, <1>2 DEF Inner, Kids, Leaf

\* What AddBackoffArc finds in the trie.
LEMMA ArcFound ==
  ASSUME NEW n \in Nat, NEW G, NEW e, Grams(G, n, e), NEW nx, NEW cs, Backing(G, n, e, nx, cs),
         NEW c \in cs, NEW l \in Todo(c),
         NEW nb, nb = (IF c.at = c.backoff THEN c.backoff ELSE nx[c.backoff][l])
  PROVE  /\ c.at \in G /\ l \in Kids(G, n, c.at) /\ nx[c.at][l] = Append(c.at, l) /\ l \in DOMAIN nx[c.at]
         /\ c.at # c.backoff => l \in DOMAIN nx[c.backoff]
         /\ Append(c.at, l) \in Inner(G, n) \/ l # e => BacksTo(G, n, Append(c.at, l), nb)
         /\ Append(c.at, l) \in Inner(G, n) <=> nx[Append(c.at, l)] # <<>>
<1> DEFINE p == c.at
           b == c.backoff
           pl == Append(p, l)
<1>1. /\ p \in G /\ BacksTo(G, n, p, b) /\ l \in Kids(G, n, p) /\ nx[p][l] = pl
  <2>1. CallRight(G, n, e, nx, c)
    BY DEF Backing
  <2> QED BY <2>1 DEF CallRight
<1>2. l \in 1 .. n /\ pl \in G /\ p \in Inner(G, n)
  BY <1>1, KidsAre
<1>3. l \in DOMAIN nx[p]
  BY <1>1, <1>2 DEF Backing, TrieArcs
<1>4. pl \in Inner(G, n) <=> nx[pl] # <<>>
  <2>1. Leaf(G, n, pl) => nx[pl] = <<>>
    BY <1>2 DEF Backing, TrieArcs
  <2>2. ASSUME ~ Leaf(G, n, pl) PROVE nx[pl] # <<>>
    <3>1. PICK x \in 1 .. n : x \in Kids(G, n, pl)
      BY <2>2 DEF Leaf, Kids
    <3>2. x \in DOMAIN nx[pl]
      BY <1>2, <2>2, <3>1 DEF Backing, TrieArcs, Inner
    <3> QED BY <3>2
  <2> QED BY <1>2, <2>1, <2>2 DEF Inner
<1>5. /\ p = Root => BacksTo(G, n, pl, Root)
      /\ p # Root =>
           /\ b # p /\ b \in G /\ ~ Leaf(G, n, b) /\ Append(b, l) \in G
           /\ ~ Leaf(G, n, pl) \/ l # e =>
                ~ Leaf(G, n, Append(b, l)) /\ BacksTo(G, n, pl, Append(b, l))
  BY <1>1, <1>2, BackoffAfter
<1>6. p = Root => b = Root
  BY <1>1 DEF BacksTo
<1>7. ASSUME p # Root PROVE l \in DOMAIN nx[b] /\ (~ Leaf(G, n, pl) \/ l # e => nx[b][l] = Append(b, l))
  <2>1. b \in Inner(G, n) /\ l \in Kids(G, n, b)
    BY <1>2, <1>5, <1>7 DEF Inner, Kids
  <2> HIDE DEF pl, p, b
  <2>2. l \in DOMAIN nx[b] /\ (Append(b, l) \in Inner(G, n) => nx[b][l] = Append(b, l))
    BY <2>1 DEF Backing, TrieArcs
  <2> QED BY <1>5, <1>7, <2>2 DEF Inner
<1> HIDE DEF pl
<1>8. pl \in Inner(G, n) => ~ Leaf(G, n, pl)
  BY DEF Inner
<1>9. ASSUME pl \in Inner(G, n) \/ l # e PROVE BacksTo(G, n, pl, nb)
  BY <1>5, <1>6, <1>7, <1>8, <1>9
<1> QED BY <1>1, <1>3, <1>4, <1>5, <1>6, <1>7, <1>9 DEF pl

\* The call c has done the arc l.
OneLess(c, l, c1) == c1.at = c.at /\ c1.backoff = c.backoff /\ Todo(c1) = Todo(c) \ {l}

\* The call new is for the state that the arc l of c leads to.
Enters(G, n, c, l, new) ==
  /\ Append(c.at, l) \in Inner(G, n)
  /\ new.at = Append(c.at, l) /\ BacksTo(G, n, new.at, new.backoff) /\ Todo(new) = Kids(G, n, new.at)

\* No other call is for its state; the calls after that.
Alone(new, c1, R) == \A d \in {c1} \cup R : d.at # new.at
WithCall(new, c1, R) == {new, c1} \cup R

\* A call goes into the state that the arc leads to.
LEMMA PushBacking ==
  ASSUME NEW n \in Nat, NEW G, NEW e, Grams(G, n, e), NEW nx, NEW cs, Backing(G, n, e, nx, cs),
         NEW c \in cs, NEW R, cs = {c} \cup R, \A d \in R : d.at # c.at,
         NEW l \in Todo(c), NEW c1, OneLess(c, l, c1), NEW new, Enters(G, n, c, l, new)
  PROVE  Backing(G, n, e, nx, WithCall(new, c1, R)) /\ Alone(new, c1, R)
<1> DEFINE p == c.at
           q == Append(p, l)
           cs2 == WithCall(new, c1, R)
<1>e. /\ Append(c.at, l) \in Inner(G, n)
      /\ new.at = Append(c.at, l) /\ BacksTo(G, n, new.at, new.backoff) /\ Todo(new) = Kids(G, n, new.at)
  BY DEF Enters
<1>s. cs2 = {new, c1} \cup R
  BY DEF WithCall
<1> HIDE DEF cs2
<1>1. /\ p \in G /\ l \in Kids(G, n, p) /\ nx[p][l] = q /\ q \in Inner(G, n)
  BY <1>e, ArcFound
<1>2. q \in G /\ p \in Inner(G, n) /\ q # Root /\ Front(q) = p /\ Last(q) = l
  <2>1. q \in G /\ p \in Inner(G, n) /\ q # Root /\ Front(q) = p /\ Last(q) = l
    BY <1>1, KidsAre
  <2> QED BY <2>1
<1>3. Untouched(nx, cs, q)
  BY <1>1 DEF Backing
<1>4. At(cs, p) /\ c1.at = p /\ new.at = q /\ Todo(c1) = Todo(c) \ {l} /\ c1.backoff = c.backoff
  BY <1>e DEF At, OneLess
<1>5. /\ FreshWaits(G, n, nx, cs, q) /\ TrieArcs(G, n, nx)
      /\ \A d \in cs : CallRight(G, n, e, nx, d)
  BY <1>1, <1>3 DEF Backing
<1> HIDE DEF q, p
<1>6. \A x : Untouched(nx, cs2, x) <=> Untouched(nx, cs, x) /\ x # q
  <2>1. \A x : At(cs2, x) <=> At(cs, x) \/ x = q
    BY <1>e, <1>s, <1>4 DEF At, p
  <2> QED BY <2>1 DEF Untouched
<1>7. \A d \in {c1} \cup R : d.at # q
  BY <1>3, <1>4 DEF Untouched, At, p
<1>s2. \A d \in cs2 : d = new \/ d = c1 \/ d \in R
  BY <1>s
<1>8. ASSUME NEW d \in cs2 PROVE CallRight(G, n, e, nx, d)
  <2>1. CASE d = new
    <3>1. /\ new.at \in G
          /\ new.at # Root => new.at \in Inner(G, n)
          /\ BacksTo(G, n, new.at, new.backoff) /\ Phi \notin DOMAIN nx[new.at]
          /\ Todo(new) \subseteq Kids(G, n, new.at)
      BY <1>e, <1>1, <1>2, <1>3, <1>4 DEF Untouched
    <3>2. \A y \in Todo(new) : nx[new.at][y] = Append(new.at, y)
      BY <1>e, <1>s, <1>4, <1>5 DEF FreshWaits
    <3>3. CallRight(G, n, e, nx, new)
      BY <1>e, <3>1, <3>2 DEF CallRight
    <3> QED BY <2>1, <3>3
  <2>2. CASE d = c1
    <3>1. CallRight(G, n, e, nx, c)
      BY <1>5
    <3>2. ASSUME l # e PROVE Right(G, n, nx, p, l)
      <4>1. IsLongest(q, InnerEnds(G, n, q))
        BY <1>1, <1>2, LongestEnd DEF Inner
      <4> QED BY <1>1, <4>1 DEF Right, q
    <3>3. \A y \in Kids(G, n, p) \ Todo(c1) : y # e => Right(G, n, nx, p, y)
      BY <1>e, <1>s, <1>4, <3>1, <3>2 DEF CallRight, p
    <3>4. /\ c1.at \in G
          /\ c1.at # Root => c1.at \in Inner(G, n)
          /\ BacksTo(G, n, c1.at, c1.backoff) /\ Phi \notin DOMAIN nx[c1.at]
          /\ Todo(c1) \subseteq Kids(G, n, c1.at)
          /\ \A y \in Todo(c1) : nx[c1.at][y] = Append(c1.at, y)
      BY <1>e, <1>s, <1>4, <3>1 DEF CallRight, p
    <3> QED BY <1>e, <1>s, <1>4, <2>2, <3>3, <3>4 DEF CallRight
  <2>3. CASE d \in R
    BY <1>s, <1>5, <2>3
  <2> QED BY <1>s2, <2>1, <2>2, <2>3
<1>9. ASSUME NEW d \in cs2, NEW y \in Todo(d), Append(d.at, y) \in Inner(G, n)
      PROVE  Untouched(nx, cs2, Append(d.at, y))
  <2>1. CASE d = new
    <3>1. y \in Kids(G, n, q) /\ d.at = q
      BY <1>e, <1>s, <1>4, <2>1
    <3>2. Untouched(nx, cs, Append(q, y))
      BY <1>5, <1>9, <3>1 DEF FreshWaits
    <3>3. Front(Append(q, y)) = q
      BY <1>2, <3>1, KidsAre
    <3>4. q # p
      BY <1>3, <1>4 DEF Untouched
    <3> QED BY <1>2, <1>6, <3>1, <3>2, <3>3, <3>4
  <2>2. CASE d # new
    <3>1. \E d2 \in cs : d.at = d2.at /\ y \in Todo(d2) /\ ~ (d.at = p /\ y = l)
      BY <1>e, <1>s, <1>4, <2>2 DEF p
    <3>2. Untouched(nx, cs, Append(d.at, y))
      BY <1>9, <3>1 DEF Backing
    <3>3. d.at \in G /\ y \in Kids(G, n, d.at)
      BY <1>8 DEF CallRight
    <3>4. Front(Append(d.at, y)) = d.at /\ Last(Append(d.at, y)) = y
      BY <3>3, KidsAre
    <3>5. Append(d.at, y) # q
      BY <1>2, <3>1, <3>4
    <3> QED BY <1>6, <3>2, <3>5
  <2> QED BY <2>1, <2>2
<1>10. ASSUME NEW x \in Inner(G, n), Untouched(nx, cs2, x) PROVE FreshWaits(G, n, nx, cs2, x)
  <2>1. Untouched(nx, cs, x) /\ x # q /\ x \in G /\ x # Root
    BY <1>6, <1>10 DEF Inner, Untouched
  <2>2. FreshWaits(G, n, nx, cs, x)
    BY <2>1 DEF Backing
  <2>3. Front(x) \in Inner(G, n) /\ Last(x) \in Kids(G, n, Front(x)) /\ Append(Front(x), Last(x)) = x
    BY <2>1, InnerFront
  <2>4. \/ Untouched(nx, cs2, Front(x))
        \/ \E d \in cs2 : d.at = Front(x) /\ Last(x) \in Todo(d)
    <3>1. CASE Untouched(nx, cs, Front(x)) /\ Front(x) # q
      BY <1>6, <3>1
    <3>2. CASE Front(x) = q
      BY <1>e, <1>s, <1>4, <2>3, <3>2
    <3>3. CASE \E d \in cs : d.at = Front(x) /\ Last(x) \in Todo(d)
      <4>1. PICK d \in cs : d.at = Front(x) /\ Last(x) \in Todo(d)
        BY <3>3
      <4>2. CASE d = c
        <5>1. Last(x) # l
          BY <2>1, <2>3, <4>1, <4>2 DEF q, p
        <5>2. c1.at = Front(x) /\ Last(x) \in Todo(c1) /\ c1 \in cs2
          BY <1>e, <1>s, <1>4, <4>1, <4>2, <5>1 DEF p
        <5> QED BY <5>2
      <4>3. CASE d # c
        BY <1>s, <4>1, <4>3
      <4> QED BY <4>2, <4>3
    <3> QED BY <2>2, <3>1, <3>2, <3>3 DEF FreshWaits
  <2>5. ASSUME NEW y \in Kids(G, n, x), Append(x, y) \in Inner(G, n) PROVE Untouched(nx, cs2, Append(x, y))
    <3>1. Untouched(nx, cs, Append(x, y))
      BY ONLY <2>2, <2>5 DEF FreshWaits
    <3>2. x # p
      BY <1>e, <1>s, <1>4, <2>1 DEF Untouched
    <3>3. Front(Append(x, y)) = x
      BY <2>1, <2>5, KidsAre
    <3> QED BY <1>2, <1>6, <3>1, <3>2, <3>3
  <2> QED BY <2>2, <2>4, <2>5 DEF FreshWaits
<1>11. ASSUME NEW x \in Inner(G, n), ~ Untouched(nx, cs2, x), ~ At(cs2, x) PROVE DoneRight(G, n, e, nx, x)
  <2>1. ~ At(cs, x) /\ x # q
    BY <1>e, <1>s, <1>4, <1>11 DEF At, p
  <2>2. ~ Untouched(nx, cs, x)
    BY <1>6, <1>11, <2>1
  <2> QED BY <2>1, <2>2 DEF Backing
<1>12. Backing(G, n, e, nx, cs2)
  BY <1>5, <1>8, <1>9, <1>10, <1>11 DEF Backing
<1> QED BY <1>e, <1>s, <1>7, <1>12 DEF q, p, cs2, Alone

\* nx2 differs from nx only in the arcs of p.
OnlyAt(G, nx, nx2, p) == DOMAIN nx = G /\ DOMAIN nx2 = G /\ \A x \in G : x # p => nx2[x] = nx[x]

\* What a change of the arcs of a state leaves alone.
LEMMA OnlyAtKeeps ==
  ASSUME NEW n \in Nat, NEW G, NEW e, NEW nx, NEW nx2, NEW p, OnlyAt(G, nx, nx2, p),
         NEW cs
  PROVE  /\ \A d : d.at # p /\ CallRight(G, n, e, nx, d) => CallRight(G, n, e, nx2, d)
         /\ \A x \in G : x # p => (Untouched(nx2, cs, x) <=> Untouched(nx, cs, x))
         /\ \A x \in G : x # p /\ DoneRight(G, n, e, nx, x) => DoneRight(G, n, e, nx2, x)
<1>1. ASSUME NEW d, d.at # p, CallRight(G, n, e, nx, d) PROVE CallRight(G, n, e, nx2, d)
  <2>1. d.at \in G /\ nx2[d.at] = nx[d.at]
    BY <1>1 DEF OnlyAt, CallRight
  <2> QED BY <1>1, <2>1 DEF CallRight, Right
<1>2. \A x \in G : x # p => (Untouched(nx2, cs, x) <=> Untouched(nx, cs, x))
  BY DEF OnlyAt, Untouched
<1>3. ASSUME NEW x \in G, x # p, DoneRight(G, n, e, nx, x) PROVE DoneRight(G, n, e, nx2, x)
  <2>1. nx2[x] = nx[x]
    BY <1>3 DEF OnlyAt
  <2> QED BY <1>3, <2>1 DEF DoneRight, Right
<1> QED BY <1>1, <1>2, <1>3

\* An arc to a leaf is bent.
LEMMA BendBacking ==
  ASSUME NEW n \in Nat, NEW G, NEW e, Grams(G, n, e), NEW nx, NEW cs, Backing(G, n, e, nx, cs),
         NEW c \in cs, NEW R, cs = {c} \cup R, \A d \in R : d.at # c.at,
         NEW l \in Todo(c), Append(c.at, l) \notin Inner(G, n),
         NEW c1, OneLess(c, l, c1),
         NEW nb, nb = (IF c.at = c.backoff THEN c.backoff ELSE nx[c.backoff][l]),
         NEW nx2, nx2 = [nx EXCEPT ![c.at][l] = nb],
         NEW cs2, cs2 = {c1} \cup R
  PROVE  Backing(G, n, e, nx2, cs2)
<1> DEFINE p == c.at
           q == Append(p, l)
<1>1. /\ p \in G /\ l \in Kids(G, n, p) /\ nx[p][l] = q /\ l \in DOMAIN nx[p] /\ q \notin Inner(G, n)
      /\ l # e => BacksTo(G, n, q, nb)
  <2>1. /\ p \in G /\ l \in Kids(G, n, p) /\ nx[p][l] = Append(p, l) /\ l \in DOMAIN nx[p]
        /\ Append(p, l) \in Inner(G, n) \/ l # e => BacksTo(G, n, Append(p, l), nb)
    BY ArcFound
  <2> QED BY <2>1
<1>2. q \in G /\ p \in Inner(G, n) /\ q # Root /\ Front(q) = p /\ Last(q) = l
  <2>1. q \in G /\ p \in Inner(G, n) /\ q # Root /\ Front(q) = p /\ Last(q) = l
    BY <1>1, KidsAre
  <2> QED BY <2>1
<1>3. TrieArcs(G, n, nx) /\ CallRight(G, n, e, nx, c)
  BY DEF Backing
<1>4. c1.at = p /\ Todo(c1) = Todo(c) \ {l} /\ c1.backoff = c.backoff
  BY DEF OneLess
<1>5. /\ OnlyAt(G, nx, nx2, p) /\ DOMAIN nx2[p] = DOMAIN nx[p]
      /\ nx2[p][l] = nb /\ \A y \in DOMAIN nx[p] : y # l => nx2[p][y] = nx[p][y]
  <2>1. DOMAIN nx = G
    BY <1>3 DEF TrieArcs
  <2>2. nx2 = [nx EXCEPT ![p] = [nx[p] EXCEPT ![l] = nb]]
    OBVIOUS
  <2> QED BY <1>1, <2>1, <2>2 DEF OnlyAt
<1> HIDE DEF q, p
<1>6. \A x : At(cs2, x) <=> At(cs, x)
  BY <1>4 DEF At, p
<1>7. \A x \in G : Untouched(nx2, cs2, x) <=> Untouched(nx, cs, x)
  <2>1. \A x \in G : x # p => (Untouched(nx2, cs, x) <=> Untouched(nx, cs, x))
    BY <1>5, OnlyAtKeeps
  <2>2. Untouched(nx2, cs, p) <=> Untouched(nx, cs, p)
    BY <1>5 DEF Untouched
  <2> QED BY <1>6, <2>1, <2>2 DEF Untouched
<1>8. TrieArcs(G, n, nx2)
  <2>1. \A x \in G : Leaf(G, n, x) => nx2[x] = <<>>
    BY <1>2, <1>3, <1>5 DEF TrieArcs, OnlyAt, Inner
  <2>2. \A x \in Inner(G, n) : x # p => nx2[x] = nx[x]
    BY <1>5 DEF OnlyAt, Inner
  <2>3. ASSUME NEW x \in Inner(G, n)
        PROVE  /\ Kids(G, n, x) \subseteq DOMAIN nx2[x] /\ DOMAIN nx2[x] \subseteq Kids(G, n, x) \cup {Phi}
               /\ \A y \in Kids(G, n, x) : Append(x, y) \in Inner(G, n) => nx2[x][y] = Append(x, y)
    <3>1. /\ Kids(G, n, x) \subseteq DOMAIN nx[x] /\ DOMAIN nx[x] \subseteq Kids(G, n, x) \cup {Phi}
          /\ \A y \in Kids(G, n, x) : Append(x, y) \in Inner(G, n) => nx[x][y] = Append(x, y)
      BY <1>3 DEF TrieArcs
    <3>2. CASE x = p
      <4>1. \A y \in Kids(G, n, p) : Append(p, y) \in Inner(G, n) => y # l
        BY <1>1 DEF q
      <4>2. \A y \in Kids(G, n, p) : Append(p, y) \in Inner(G, n) => nx2[p][y] = nx[p][y]
        BY <1>5, <3>1, <3>2, <4>1
      <4> QED BY <1>5, <3>1, <3>2, <4>2
    <3>3. CASE x # p
      BY <2>2, <3>1, <3>3
    <3> QED BY <3>2, <3>3
  <2>4. DOMAIN nx2 = G
    BY <1>5 DEF OnlyAt
  <2> QED BY <2>1, <2>3, <2>4 DEF TrieArcs
<1>9. Todo(c) \subseteq Kids(G, n, p) /\ Kids(G, n, p) \subseteq DOMAIN nx[p]
  BY <1>2, <1>3 DEF CallRight, TrieArcs, p
<1>10. ASSUME NEW d \in cs2 PROVE CallRight(G, n, e, nx2, d)
  <2>1. CASE d = c1
    <3>1. l # e => Right(G, n, nx2, p, l)
      <4>1. Leaf(G, n, q)
        BY <1>1, <1>2 DEF Inner
      <4>2. ASSUME l # e PROVE IsLongest(nb, InnerEnds(G, n, q))
        BY <1>1, <1>2, <4>1, <4>2, LongestEnd
      <4> QED BY <1>5, <4>2 DEF Right, q
    <3>2. \A y \in Kids(G, n, p) \ Todo(c1) : y # e => Right(G, n, nx2, p, y)
      <4>1. \A y \in Kids(G, n, p) \ Todo(c) : y # e => Right(G, n, nx, p, y)
        BY <1>3 DEF CallRight, p
      <4> QED BY <1>4, <1>5, <1>9, <3>1, <4>1 DEF Right
    <3>3. \A y \in Todo(c1) : nx2[p][y] = Append(p, y)
      <4>1. \A y \in Todo(c) : nx[p][y] = Append(p, y)
        BY <1>3 DEF CallRight, p
      <4> QED BY <1>4, <1>5, <1>9, <4>1
    <3>4. /\ c1.at \in G
          /\ c1.at # Root => c1.at \in Inner(G, n)
          /\ BacksTo(G, n, c1.at, c1.backoff) /\ Phi \notin DOMAIN nx2[c1.at]
          /\ Todo(c1) \subseteq Kids(G, n, c1.at)
      BY <1>3, <1>4, <1>5 DEF CallRight, p
    <3> QED BY <1>4, <2>1, <3>2, <3>3, <3>4 DEF CallRight
  <2>2. CASE d \in R
    <3>1. CallRight(G, n, e, nx, d) /\ d.at # p
      BY <2>2 DEF Backing, p
    <3> QED BY <1>5, <3>1, OnlyAtKeeps
  <2> QED BY <2>1, <2>2
<1>11. ASSUME NEW d \in cs2, NEW y \in Todo(d), Append(d.at, y) \in Inner(G, n)
      PROVE  Untouched(nx2, cs2, Append(d.at, y))
  <2>1. \E d2 \in cs : d.at = d2.at /\ y \in Todo(d2)
    BY <1>4 DEF p
  <2>2. Untouched(nx, cs, Append(d.at, y))
    BY <1>11, <2>1 DEF Backing
  <2>3. Append(d.at, y) \in G
    BY <1>11 DEF Inner
  <2> QED BY <1>7, <2>2, <2>3
<1>12. ASSUME NEW x \in Inner(G, n), Untouched(nx2, cs2, x) PROVE FreshWaits(G, n, nx2, cs2, x)
  <2>1. Untouched(nx, cs, x) /\ x \in G /\ x # Root
    BY <1>7, <1>12 DEF Inner, Untouched
  <2>2. FreshWaits(G, n, nx, cs, x)
    BY <2>1 DEF Backing
  <2>3. Front(x) \in Inner(G, n) /\ Last(x) \in Kids(G, n, Front(x)) /\ Append(Front(x), Last(x)) = x
    BY <2>1, InnerFront
  <2>4. Front(x) \in G
    BY <2>3 DEF Inner
  <2>5. \/ Untouched(nx2, cs2, Front(x))
        \/ \E d \in cs2 : d.at = Front(x) /\ Last(x) \in Todo(d)
    <3>1. CASE Untouched(nx, cs, Front(x))
      BY <1>7, <2>4, <3>1
    <3>3. CASE \E d \in cs : d.at = Front(x) /\ Last(x) \in Todo(d)
      <4>1. PICK d \in cs : d.at = Front(x) /\ Last(x) \in Todo(d)
        BY <3>3
      <4>2. CASE d = c
        <5>1. Last(x) # l
          <6>1. x # q
            BY <1>1
          <6> QED BY <2>3, <4>1, <4>2, <6>1 DEF q, p
        <5>2. c1.at = Front(x) /\ Last(x) \in Todo(c1) /\ c1 \in cs2
          BY <1>4, <4>1, <4>2, <5>1 DEF p
        <5> QED BY <5>2
      <4>3. CASE d # c
        BY <4>1, <4>3
      <4> QED BY <4>2, <4>3
    <3> QED BY <2>2, <3>1, <3>3 DEF FreshWaits
  <2>6. ASSUME NEW y \in Kids(G, n, x), Append(x, y) \in Inner(G, n) PROVE Untouched(nx2, cs2, Append(x, y))
    <3>1. Untouched(nx, cs, Append(x, y))
      BY ONLY <2>2, <2>6 DEF FreshWaits
    <3>2. Append(x, y) \in G
      BY <2>6 DEF Inner
    <3> QED BY <1>7, <3>1, <3>2
  <2>7. nx2[x] = nx[x]
    <3>1. x # p
      <4>1. At(cs, p)
        BY DEF At, p
      <4> QED BY <2>1, <4>1 DEF Untouched
    <3> QED BY <1>5, <2>1, <3>1 DEF OnlyAt
  <2> QED BY <2>2, <2>5, <2>6, <2>7 DEF FreshWaits
<1>13. ASSUME NEW x \in Inner(G, n), ~ Untouched(nx2, cs2, x), ~ At(cs2, x) PROVE DoneRight(G, n, e, nx2, x)
  <2>1. ~ At(cs, x) /\ x # p /\ x \in G
    BY <1>4, <1>6, <1>13 DEF At, p, Inner
  <2>2. ~ Untouched(nx, cs, x)
    BY <1>7, <1>13, <2>1
  <2>3. DoneRight(G, n, e, nx, x)
    BY <2>1, <2>2 DEF Backing
  <2> QED BY <1>5, <2>1, <2>3, OnlyAtKeeps
<1> QED BY <1>8, <1>10, <1>11, <1>12, <1>13 DEF Backing

\* A call returns.
LEMMA PopBacking ==
  ASSUME NEW n \in Nat, NEW G, NEW e, Grams(G, n, e), NEW nx, NEW cs, Backing(G, n, e, nx, cs),
         NEW c \in cs, NEW R, cs = {c} \cup R, \A d \in R : d.at # c.at, Todo(c) = {},
         NEW nx2, nx2 = IF c.at = c.backoff THEN nx ELSE [nx EXCEPT ![c.at] = WithPhi(@, c.backoff)]
  PROVE  Backing(G, n, e, nx2, R)
<1> DEFINE p == c.at
           b == c.backoff
<1>1. TrieArcs(G, n, nx) /\ CallRight(G, n, e, nx, c)
  BY DEF Backing
<1>2. /\ p \in G /\ BacksTo(G, n, p, b) /\ Phi \notin DOMAIN nx[p]
      /\ p # Root => p \in Inner(G, n)
      /\ \A l \in Kids(G, n, p) : l # e => Right(G, n, nx, p, l)
  BY <1>1 DEF CallRight
<1>3. p = b <=> p = Root
  BY <1>2 DEF BacksTo, IsLongest
<1>4. /\ OnlyAt(G, nx, nx2, p)
      /\ p = Root => nx2 = nx
      /\ p # Root => DOMAIN nx2[p] = DOMAIN nx[p] \cup {Phi} /\ nx2[p][Phi] = b
      /\ \A y \in DOMAIN nx[p] : nx2[p][y] = nx[p][y]
  <2>1. DOMAIN nx = G
    BY <1>1 DEF TrieArcs
  <2>2. CASE p = Root
    BY <1>3, <2>1, <2>2 DEF OnlyAt
  <2>3. CASE p # Root
    <3>1. nx2 = [nx EXCEPT ![p] = WithPhi(nx[p], b)]
      BY <1>3, <2>3
    <3>2. OnlyAt(G, nx, nx2, p) /\ nx2[p] = WithPhi(nx[p], b)
      BY <1>2, <2>1, <3>1 DEF OnlyAt
    <3>3. /\ DOMAIN WithPhi(nx[p], b) = DOMAIN nx[p] \cup {Phi}
          /\ \A l \in DOMAIN nx[p] \cup {Phi} :
               WithPhi(nx[p], b)[l] = IF l = Phi THEN b ELSE nx[p][l]
      BY DEF WithPhi
    <3> QED BY <1>2, <2>3, <3>2, <3>3
  <2> QED BY <2>2, <2>3
<1> HIDE DEF p, b
<1>5. \A x : At(cs, x) <=> At(R, x) \/ x = p
  BY DEF At, p
<1>6. ~ At(R, p)
  BY DEF At, p
<1>7. \A x \in G : Untouched(nx2, R, x) <=> Untouched(nx, cs, x)
  <2>1. \A x \in G : x # p => (Untouched(nx2, cs, x) <=> Untouched(nx, cs, x))
    BY <1>4, OnlyAtKeeps
  <2>2. ~ Untouched(nx, cs, p) /\ ~ Untouched(nx2, R, p)
    BY <1>4, <1>5 DEF Untouched
  <2> QED BY <1>5, <2>1, <2>2 DEF Untouched
<1>8. TrieArcs(G, n, nx2)
  <2>1. \A x \in G : Leaf(G, n, x) => nx2[x] = <<>>
    BY <1>1, <1>2, <1>4 DEF TrieArcs, OnlyAt, Inner
  <2>2. \A x \in Inner(G, n) : x # p => nx2[x] = nx[x]
    BY <1>4 DEF OnlyAt, Inner
  <2>3. ASSUME NEW x \in Inner(G, n)
        PROVE  /\ Kids(G, n, x) \subseteq DOMAIN nx2[x] /\ DOMAIN nx2[x] \subseteq Kids(G, n, x) \cup {Phi}
               /\ \A y \in Kids(G, n, x) : Append(x, y) \in Inner(G, n) => nx2[x][y] = Append(x, y)
    <3>1. /\ Kids(G, n, x) \subseteq DOMAIN nx[x] /\ DOMAIN nx[x] \subseteq Kids(G, n, x) \cup {Phi}
          /\ \A y \in Kids(G, n, x) : Append(x, y) \in Inner(G, n) => nx[x][y] = Append(x, y)
      BY <1>1 DEF TrieArcs
    <3>2. CASE x = p
      <4>1. \A y \in Kids(G, n, p) : nx2[p][y] = nx[p][y]
        BY <1>4, <3>1, <3>2
      <4> QED BY <1>4, <3>1, <3>2, <4>1
    <3>3. CASE x # p
      BY <2>2, <3>1, <3>3
    <3> QED BY <3>2, <3>3
  <2>4. DOMAIN nx2 = G
    BY <1>4 DEF OnlyAt
  <2> QED BY <2>1, <2>3, <2>4 DEF TrieArcs
<1>9. ASSUME NEW d \in R PROVE CallRight(G, n, e, nx2, d)
  <2>1. CallRight(G, n, e, nx, d) /\ d.at # p
    BY DEF Backing, p
  <2> QED BY <1>4, <2>1, OnlyAtKeeps
<1>10. ASSUME NEW d \in R, NEW y \in Todo(d), Append(d.at, y) \in Inner(G, n)
       PROVE  Untouched(nx2, R, Append(d.at, y))
  <2>1. Untouched(nx, cs, Append(d.at, y))
    BY <1>10 DEF Backing
  <2>2. Append(d.at, y) \in G
    BY <1>10 DEF Inner
  <2> QED BY <1>7, <2>1, <2>2
<1>11. ASSUME NEW x \in Inner(G, n), Untouched(nx2, R, x) PROVE FreshWaits(G, n, nx2, R, x)
  <2>1. Untouched(nx, cs, x) /\ x \in G /\ x # Root
    BY <1>7, <1>11 DEF Inner, Untouched
  <2>2. FreshWaits(G, n, nx, cs, x)
    BY <2>1 DEF Backing
  <2>3. Front(x) \in G
    BY <2>1, InnerFront DEF Inner
  <2>4. \/ Untouched(nx2, R, Front(x))
        \/ \E d \in R : d.at = Front(x) /\ Last(x) \in Todo(d)
    BY <1>7, <2>2, <2>3 DEF FreshWaits
  <2>5. ASSUME NEW y \in Kids(G, n, x), Append(x, y) \in Inner(G, n) PROVE Untouched(nx2, R, Append(x, y))
    <3>1. Untouched(nx, cs, Append(x, y))
      BY ONLY <2>2, <2>5 DEF FreshWaits
    <3>2. Append(x, y) \in G
      BY <2>5 DEF Inner
    <3> QED BY <1>7, <3>1, <3>2
  <2>6. nx2[x] = nx[x]
    <3>1. x # p
      <4>1. At(cs, p)
        BY DEF At, p
      <4> QED BY <2>1, <4>1 DEF Untouched
    <3> QED BY <1>4, <2>1, <3>1 DEF OnlyAt
  <2> QED BY <2>2, <2>4, <2>5, <2>6 DEF FreshWaits
<1>12. ASSUME NEW x \in Inner(G, n), ~ Untouched(nx2, R, x), ~ At(R, x) PROVE DoneRight(G, n, e, nx2, x)
  <2>1. x \in G
    BY DEF Inner
  <2>2. CASE x = p
    <3>1. Kids(G, n, p) \subseteq DOMAIN nx[p]
      BY <1>1, <1>12, <2>2 DEF TrieArcs
    <3>2. \A l \in Kids(G, n, p) : l # e => Right(G, n, nx2, p, l)
      BY <1>2, <1>4, <3>1 DEF Right
    <3> QED BY <1>2, <1>4, <2>2, <3>2 DEF DoneRight
  <2>3. CASE x # p
    <3>1. ~ At(cs, x) /\ ~ Untouched(nx, cs, x)
      BY <1>5, <1>7, <1>12, <2>1, <2>3
    <3>2. DoneRight(G, n, e, nx, x)
      BY <3>1 DEF Backing
    <3> QED BY <1>4, <2>1, <2>3, <3>2, OnlyAtKeeps
  <2> QED BY <2>2, <2>3
<1> QED BY <1>8, <1>9, <1>10, <1>11, <1>12 DEF Backing

\* At first: a call at the root.
LEMMA FirstBacking ==
  ASSUME NEW n \in Nat, NEW G, NEW e, Grams(G, n, e), NEW nx, DOMAIN nx = G,
         \A p \in G : DOMAIN nx[p] = Kids(G, n, p) /\ \A l \in Kids(G, n, p) : nx[p][l] = Append(p, l),
         \A p \in G : Leaf(G, n, p) => nx[p] = <<>>,
         NEW c, c.at = Root, c.backoff = Root, Todo(c) = Kids(G, n, Root)
  PROVE  Backing(G, n, e, nx, {c})
<1>1. Root \in G
  BY DEF Grams
<1>2. \A p \in G : Phi \notin DOMAIN nx[p]
  BY KidsAre
<1>3. TrieArcs(G, n, nx)
  BY DEF TrieArcs, Inner
<1>4. CallRight(G, n, e, nx, c)
  BY <1>1, <1>2 DEF CallRight, BacksTo
<1>5. \A p \in G : Untouched(nx, {c}, p) <=> p # Root
  BY <1>2 DEF Untouched, At
<1>6. ASSUME NEW p \in G, NEW l \in Kids(G, n, p) PROVE Untouched(nx, {c}, Append(p, l))
  <2>1. Append(p, l) \in G /\ Append(p, l) # Root
    BY <1>6, KidsAre
  <2> QED BY <1>5, <2>1
<1>7. ASSUME NEW p \in Inner(G, n), Untouched(nx, {c}, p) PROVE FreshWaits(G, n, nx, {c}, p)
  <2>1. p \in G /\ p # Root
    BY <1>7 DEF Inner, Untouched
  <2>2. Front(p) \in G /\ Last(p) \in Kids(G, n, Front(p))
    BY <2>1, InnerFront DEF Inner
  <2>3. \A l \in Kids(G, n, p) : Append(p, l) \in Inner(G, n) => Untouched(nx, {c}, Append(p, l))
    BY <1>6, <2>1
  <2> QED BY <1>5, <2>1, <2>2, <2>3 DEF FreshWaits
<1>8. \A p \in Inner(G, n) : ~ Untouched(nx, {c}, p) => At({c}, p)
  BY <1>5 DEF At, Inner
<1>9. \A l \in Todo(c) : Append(c.at, l) \in Inner(G, n) => Untouched(nx, {c}, Append(c.at, l))
  BY <1>1, <1>6
<1> QED BY <1>3, <1>4, <1>7, <1>8, <1>9 DEF Backing

\* When all calls have returned, every state backs off where it should.
LEMMA LastBacking ==
  ASSUME NEW n \in Nat, NEW G, NEW e, Grams(G, n, e), NEW nx, Backing(G, n, e, nx, {}),
         NEW p \in Inner(G, n)
  PROVE  DoneRight(G, n, e, nx, p)
<1> DEFINE New == {q \in Inner(G, n) : Untouched(nx, {}, q)}
           Lengths2 == {Len(q) : q \in New}
<1>1. ~ At({}, p)
  BY DEF At
<1>2. ASSUME New # {} PROVE FALSE
  <2>1. Lengths2 \in SUBSET Nat /\ Lengths2 # {}
    <3>1. \A q \in G : Len(q) \in Nat
      BY DEF Grams
    <3> QED BY <1>2, <3>1 DEF Inner
  <2>2. PICK k \in Lengths2 : \A j \in Lengths2 : k <= j
    <3> HIDE DEF Lengths2
    <3> QED BY <2>1, LeastNatural
  <2>3. PICK q \in New : Len(q) = k
    OBVIOUS
  <2>4. q \in G /\ q # Root /\ q \in Inner(G, n)
    BY DEF Inner, Untouched
  <2>5. FreshWaits(G, n, nx, {}, q)
    BY DEF Backing
  <2>6. Untouched(nx, {}, Front(q)) /\ Front(q) \in Inner(G, n)
    BY <2>4, <2>5, InnerFront DEF FreshWaits
  <2>7. Len(Front(q)) = Len(q) - 1 /\ Len(q) \in Nat
    <3>1. q \in Seq(1 .. n) /\ q # <<>>
      BY <2>4 DEF Grams, Root
    <3> QED BY <3>1, FrontFacts
  <2>8. Len(Front(q)) \in Lengths2
    BY <2>6
  <2>9. k <= Len(Front(q))
    BY <2>2, <2>8
  <2> QED BY <2>3, <2>7, <2>9
<1> QED BY <1>1, <1>2 DEF Backing

-----------------------------------------------------------------------------

\* The backoff loop of the current model, in the states of the program.

\* While the back-off arcs are added the n-grams and the labels of the model stay.
LEMMA ModelKept ==
  ASSUME opts' = opts, table' = table, models' = models, trie' = trie
  PROVE  /\ NgramsOfModel(Current)' = NgramsOfModel(Current)
         /\ SymsOf(Current)' = SymsOf(Current)
         /\ Labelling(Current)' = Labelling(Current)
         /\ EndLabel' = EndLabel
<1>1. Current' = Current
  BY DEF Current
<1>2. \A m : SymsOf(m)' = SymsOf(m)
  BY SMT DEF SymsOf, SymOf, IsMain, BackoffSym, FoldLeft, MapThenFoldSet
<1>3. \A m, s : SymOf(m, s)' = SymOf(m, s)
  BY DEF SymOf, IsMain, BackoffSym
<1>4. \A m : Labelling(m)' = Labelling(m)
  BY <1>2, <1>3 DEF Labelling
<1>5. EndLabel' = EndLabel
  BY DEF EndLabel
<1>6. \A m : NgramsOfModel(m)' = NgramsOfModel(m)
  <2> SUFFICES ASSUME NEW m PROVE NgramsOfModel(m)' = NgramsOfModel(m)
    OBVIOUS
  <2> DEFINE Strings(label) == {[i \in DOMAIN p |-> label[p[i]]] : p \in DOMAIN trie}
  <2>1. Strings(Labelling(m))' = Strings(Labelling(m))
    BY <1>4
  <2>2. IsMain(m)' = IsMain(m)
    BY DEF IsMain
  <2>3. /\ NgramsOfModel(m) = IF IsMain(m) THEN DOMAIN trie
                               ELSE {Root} \cup NgramsOf(Strings(Labelling(m)), opts.order)
        /\ NgramsOfModel(m)' = IF IsMain(m)' THEN DOMAIN trie'
                               ELSE {Root} \cup NgramsOf(Strings(Labelling(m))', opts'.order)
    BY DEF NgramsOfModel
  <2> HIDE DEF Strings
  <2> QED BY <2>1, <2>2, <2>3
<1>7. NgramsOfModel(Current)' = NgramsOfModel(Current)
  BY <1>1, <1>6
<1>8. SymsOf(Current)' = SymsOf(Current)
  BY <1>1, <1>2
<1>9. Labelling(Current)' = Labelling(Current)
  BY <1>1, <1>4
<1> QED BY <1>5, <1>7, <1>8, <1>9

-----------------------------------------------------------------------------

Calls(G, n) == [at : G, backoff : G, todo : Seq(1 .. n)]

\* The calls that have not returned: each for a state of its own.
IsCalls(G, n, s) ==
  /\ s \in Seq(Calls(G, n))
  /\ \A i, j \in DOMAIN s : s[i].at = s[j].at => i = j
  /\ \A c \in ToSet(s) : NoDups(c.todo)

LEMMA InnermostCall ==
  ASSUME NEW G, NEW n \in Nat, NEW s, IsCalls(G, n, s), s # <<>>
  PROVE  /\ Head(s) \in Calls(G, n) /\ Head(s) \in ToSet(s) /\ NoDups(Head(s).todo)
         /\ ToSet(s) = {Head(s)} \cup ToSet(Tail(s))
         /\ IsCalls(G, n, Tail(s)) /\ \A d \in ToSet(Tail(s)) : d.at # Head(s).at
<1> DEFINE C == Calls(G, n)
           t == Tail(s)
<1>1. s \in Seq(C) /\ (\A i, j \in DOMAIN s : s[i].at = s[j].at => i = j) /\ \A c \in ToSet(s) : NoDups(c.todo)
  BY DEF IsCalls
<1> HIDE DEF C
<1>2. /\ t \in Seq(C) /\ Len(t) = Len(s) - 1 /\ Len(s) \in Nat /\ Len(s) >= 1
      /\ \A i \in 1 .. Len(s) - 1 : t[i] = s[i + 1]
      /\ Head(s) = s[1]
  BY <1>1
<1>3. DOMAIN s = 1 .. Len(s) /\ DOMAIN t = 1 .. Len(s) - 1
  BY <1>1, <1>2
<1> HIDE DEF t
<1>4. 1 \in DOMAIN s /\ \A i \in DOMAIN t : i + 1 \in DOMAIN s /\ t[i] = s[i + 1] /\ i + 1 # 1
  BY <1>2, <1>3
<1>5. \A i \in DOMAIN s : i = 1 \/ \E j \in DOMAIN t : i = j + 1
  <2> SUFFICES ASSUME NEW i \in DOMAIN s, i # 1 PROVE \E j \in DOMAIN t : i = j + 1
    OBVIOUS
  <2>1. i - 1 \in DOMAIN t /\ i = (i - 1) + 1
    BY <1>2, <1>3
  <2> QED BY <2>1
<1>6. ToSet(s) = {Head(s)} \cup ToSet(t)
  <2>1. \A x \in ToSet(s) : x \in {Head(s)} \cup ToSet(t)
    BY <1>2, <1>4, <1>5 DEF ToSet
  <2>2. Head(s) \in ToSet(s) /\ ToSet(t) \subseteq ToSet(s)
    BY <1>2, <1>4 DEF ToSet
  <2> QED BY <2>1, <2>2
<1>7. \A d \in ToSet(t) : d.at # Head(s).at
  <2> SUFFICES ASSUME NEW d \in ToSet(t), d.at = Head(s).at PROVE FALSE
    OBVIOUS
  <2>1. PICK i \in DOMAIN t : d = t[i]
    BY DEF ToSet
  <2>2. i + 1 \in DOMAIN s /\ d = s[i + 1] /\ i + 1 # 1 /\ 1 \in DOMAIN s /\ Head(s) = s[1]
    BY <1>2, <1>4, <2>1
  <2> QED BY <1>1, <2>2
<1>8. \A i, j \in DOMAIN t : t[i].at = t[j].at => i = j
  <2> SUFFICES ASSUME NEW i \in DOMAIN t, NEW j \in DOMAIN t, t[i].at = t[j].at PROVE i = j
    OBVIOUS
  <2>1. i + 1 = j + 1
    BY <1>1, <1>4
  <2>2. i \in Nat /\ j \in Nat
    BY <1>2, <1>3
  <2> QED BY <2>1, <2>2
<1>9. Head(s) \in C
  BY <1>1, <1>2, <1>4
<1> QED BY <1>1, <1>2, <1>6, <1>7, <1>8, <1>9 DEF IsCalls, C, t

LEMMA NewCall ==
  ASSUME NEW G, NEW n \in Nat, NEW r, IsCalls(G, n, r), NEW c \in Calls(G, n), NoDups(c.todo),
         \A d \in ToSet(r) : d.at # c.at
  PROVE  IsCalls(G, n, <<c>> \o r) /\ ToSet(<<c>> \o r) = {c} \cup ToSet(r)
<1> DEFINE C == Calls(G, n)
           o == <<c>>
           s == o \o r
<1>1. r \in Seq(C) /\ (\A i, j \in DOMAIN r : r[i].at = r[j].at => i = j) /\ \A d \in ToSet(r) : NoDups(d.todo)
  BY DEF IsCalls
<1>2. c \in C
  OBVIOUS
<1> HIDE DEF C
<1>3. o \in Seq(C) /\ Len(o) = 1 /\ o[1] = c /\ s = o \o r
  BY <1>2
<1> HIDE DEF o, s
<1>4. /\ s \in Seq(C) /\ Len(s) = 1 + Len(r) /\ ToSet(s) = ToSet(o) \cup ToSet(r)
      /\ \A i \in 1 .. 1 : s[i] = o[i]
      /\ \A i \in 1 .. Len(r) : s[1 + i] = r[i]
  <2>1. /\ o \o r \in Seq(C) /\ Len(o \o r) = Len(o) + Len(r) /\ ToSet(o \o r) = ToSet(o) \cup ToSet(r)
        /\ \A i \in 1 .. Len(o) : (o \o r)[i] = o[i]
        /\ \A i \in 1 .. Len(r) : (o \o r)[Len(o) + i] = r[i]
    <3>1. o \in Seq(C) /\ r \in Seq(C)
      BY <1>1, <1>3
    <3> QED BY ONLY <3>1, ConcatFacts
  <2> QED BY ONLY <1>3, <2>1
<1>5. ToSet(o) = {c} /\ s[1] = c
  <2>1. DOMAIN o = {1} /\ 1 \in 1 .. 1
    BY <1>3
  <2> QED BY <1>3, <1>4, <2>1 DEF ToSet
<1>6. ToSet(s) = {c} \cup ToSet(r)
  BY <1>4, <1>5
<1>7. DOMAIN s = 1 .. 1 + Len(r) /\ DOMAIN r = 1 .. Len(r) /\ Len(r) \in Nat
  BY <1>1, <1>4
<1>8. \A i \in DOMAIN s : i = 1 \/ \E j \in DOMAIN r : i = 1 + j /\ s[i] = r[j] /\ r[j] \in ToSet(r)
  <2> SUFFICES ASSUME NEW i \in DOMAIN s, i # 1
               PROVE \E j \in DOMAIN r : i = 1 + j /\ s[i] = r[j] /\ r[j] \in ToSet(r)
    OBVIOUS
  <2>1. i - 1 \in 1 .. Len(r) /\ i = 1 + (i - 1)
    BY <1>7
  <2>2. s[1 + (i - 1)] = r[i - 1]
    BY <1>4, <2>1
  <2> QED BY <1>7, <2>1, <2>2 DEF ToSet
<1>9. ASSUME NEW i \in DOMAIN s, NEW j \in DOMAIN s, s[i].at = s[j].at PROVE i = j
  <2>1. CASE i = 1
    BY <1>5, <1>8, <1>9, <2>1
  <2>2. CASE j = 1
    BY <1>5, <1>8, <1>9, <2>2
  <2>3. CASE i # 1 /\ j # 1
    BY <1>1, <1>8, <1>9, <2>3
  <2> QED BY <2>1, <2>2, <2>3
<1>10. \A d \in ToSet(s) : NoDups(d.todo)
  BY <1>1, <1>6
<1>11. IsCalls(G, n, s)
  BY <1>4, <1>9, <1>10 DEF IsCalls, C
<1> QED BY <1>6, <1>11 DEF s, o

\* The first of the labels to do, and the others.
LEMMA FirstTodo ==
  ASSUME NEW n \in Nat, NEW t \in Seq(1 .. n), NoDups(t), t # <<>>
  PROVE  /\ Head(t) \in ToSet(t) /\ Tail(t) \in Seq(1 .. n) /\ NoDups(Tail(t))
         /\ ToSet(Tail(t)) = ToSet(t) \ {Head(t)}
<1> DEFINE r == Tail(t)
<1>1. /\ r \in Seq(1 .. n) /\ Len(r) = Len(t) - 1 /\ Len(t) \in Nat /\ Len(t) >= 1
      /\ \A i \in 1 .. Len(t) - 1 : r[i] = t[i + 1]
      /\ Head(t) = t[1]
  OBVIOUS
<1>2. DOMAIN t = 1 .. Len(t) /\ DOMAIN r = 1 .. Len(t) - 1
  BY <1>1
<1> HIDE DEF r
<1>3. 1 \in DOMAIN t /\ \A i \in DOMAIN r : i + 1 \in DOMAIN t /\ r[i] = t[i + 1] /\ i + 1 # 1 /\ i \in Nat
  BY <1>1, <1>2
<1>4. \A i \in DOMAIN t : i = 1 \/ \E j \in DOMAIN r : i = j + 1
  <2> SUFFICES ASSUME NEW i \in DOMAIN t, i # 1 PROVE \E j \in DOMAIN r : i = j + 1
    OBVIOUS
  <2>1. i - 1 \in DOMAIN r /\ i = (i - 1) + 1
    BY <1>1, <1>2
  <2> QED BY <2>1
<1>5. \A i, j \in DOMAIN t : t[i] = t[j] => i = j
  BY DEF NoDups
<1>6. NoDups(r)
  <2> SUFFICES ASSUME NEW i \in DOMAIN r, NEW j \in DOMAIN r, r[i] = r[j] PROVE i = j
    BY DEF NoDups
  <2>1. i + 1 = j + 1
    BY <1>3, <1>5
  <2> QED BY <1>3, <2>1
<1>7. ToSet(r) = ToSet(t) \ {Head(t)}
  <2>1. ASSUME NEW x \in ToSet(r) PROVE x \in ToSet(t) /\ x # Head(t)
    <3>1. PICK i \in DOMAIN r : x = r[i]
      BY DEF ToSet
    <3> DEFINE j == i + 1
    <3>2. j \in DOMAIN t /\ x = t[j] /\ j # 1
      BY <1>3, <3>1
    <3> HIDE DEF j
    <3> QED BY <1>1, <1>3, <1>5, <3>2 DEF ToSet
  <2>2. ASSUME NEW x \in ToSet(t) PROVE x = Head(t) \/ x \in ToSet(r)
    <3>1. PICK i \in DOMAIN t : x = t[i]
      BY DEF ToSet
    <3>2. i = 1 \/ \E j \in DOMAIN r : i = j + 1 /\ r[j] = t[i]
      BY <1>3, <1>4
    <3> QED BY <1>1, <3>1, <3>2 DEF ToSet
  <2> QED BY <2>1, <2>2
<1>8. Head(t) \in ToSet(t)
  BY <1>1, <1>3 DEF ToSet
<1> QED BY <1>1, <1>6, <1>7, <1>8 DEF r

\* The n-grams, the number of labels and the last label of the model that is made.
Ngrams == NgramsOfModel(Current)
Size == Len(SymsOf(Current))
EndOfModel == Labelling(Current)[EndLabel]

\* What AddBackoff has done so far, and when it has returned.
BackoffInv ==
  /\ stage = "backoff" =>
       IsCalls(Ngrams, Size, stack) /\ Backing(Ngrams, Size, EndOfModel, next, ToSet(stack))
  /\ stage = "convert" => Backing(Ngrams, Size, EndOfModel, next, {})

LEMMA ModelIs ==
  ASSUME CountInv, GramsInv, Modelling
  PROVE  /\ Grams(Ngrams, Size, EndOfModel) /\ Size \in Nat /\ IsTable(table)
         /\ Ngrams \in SUBSET Seq(1 .. Size) /\ Root \in Ngrams
         /\ IsMain(Current) => Ngrams = DOMAIN trie /\ Size = Len(table)
<1>1. IsTable(table) /\ opts.order \in Nat /\ Grams(DOMAIN trie, Len(table), EndLabel)
  BY DEF CountInv, GramsInv, Modelling
<1>2. Grams(Ngrams, Size, EndOfModel)
  BY <1>1, ModelGrams DEF Ngrams, Size, EndOfModel
<1>3. Size \in Nat /\ (IsMain(Current) => Size = Len(table))
  BY <1>1, LabellingIs DEF Size
<1>4. IsMain(Current) => Ngrams = DOMAIN trie
  BY DEF Ngrams, NgramsOfModel
<1> QED BY <1>1, <1>2, <1>3, <1>4 DEF Grams

\* A call goes through all arcs of its state.
LEMMA CallIs ==
  ASSUME CountInv, GramsInv, Modelling, NEW at \in Ngrams, NEW backoff \in Ngrams, NEW arcs,
         DOMAIN arcs[at] = Kids(Ngrams, Size, at)
  PROVE  /\ Call(at, backoff, arcs) \in Calls(Ngrams, Size)
         /\ Call(at, backoff, arcs).at = at /\ Call(at, backoff, arcs).backoff = backoff
         /\ NoDups(Call(at, backoff, arcs).todo)
         /\ Todo(Call(at, backoff, arcs)) = Kids(Ngrams, Size, at)
<1> DEFINE t == IF IsMain(Current) THEN trie[at].labels ELSE Sorted(DOMAIN arcs[at])
           K == Kids(Ngrams, Size, at)
<1>1. Call(at, backoff, arcs) = [at |-> at, backoff |-> backoff, todo |-> t]
  BY DEF Call
<1>2. Size \in Nat /\ K \subseteq 1 .. Size
  BY ModelIs DEF Kids
<1>3. ASSUME IsMain(Current) PROVE t \in Seq(1 .. Size) /\ NoDups(t) /\ ToSet(t) = K
  <2>1. Ngrams = DOMAIN trie /\ Size = Len(table) /\ IsTrie(trie, Len(table))
    BY <1>3, ModelIs DEF CountInv
  <2> QED BY <1>3, <2>1 DEF IsTrie, Kids
<1>4. ASSUME ~ IsMain(Current) PROVE t \in Seq(1 .. Size) /\ NoDups(t) /\ ToSet(t) = K
  <2>1. t = Sorted(K)
    BY <1>4
  <2> HIDE DEF t, K
  <2>2. K \in SUBSET Nat /\ IsFiniteSet(K)
    BY <1>2, SetsOfLabels
  <2>3. Sorted(K) \in Seq(K) /\ ToSet(Sorted(K)) = K /\ NoDups(Sorted(K))
    BY <2>2, SortedIs
  <2>4. t \in Seq(1 .. Size)
    BY <1>2, <2>1, <2>3, SeqOfMore
  <2> QED BY <2>1, <2>3, <2>4
<1>5. t \in Seq(1 .. Size) /\ NoDups(t) /\ ToSet(t) = K
  BY <1>3, <1>4
<1> HIDE DEF t, K
<1> QED BY <1>1, <1>5 DEF Calls, Todo, K

LEMMA StartBackoffInv == CountInv /\ GramsInv /\ StartAddBackoff => BackoffInv'
<1> SUFFICES ASSUME CountInv, GramsInv, StartAddBackoff PROVE BackoffInv'
  OBVIOUS
<1> DEFINE G == Ngrams
           n == Size
           e == EndOfModel
           c == Call(Root, Root, next')
<1>1. /\ stage = "models" /\ stage' = "backoff" /\ stack' = <<c>>
      /\ next' = [p \in G |-> [l \in ToSet(LabelsAfter(p, G)) |-> Append(p, l)]]
      /\ opts' = opts /\ table' = table /\ models' = models /\ trie' = trie
  BY DEF StartAddBackoff, Ngrams
<1>2. Modelling
  BY <1>1 DEF Modelling
<1>3. Grams(G, n, e) /\ n \in Nat /\ G \in SUBSET Seq(1 .. n) /\ Root \in G
  BY <1>2, ModelIs
<1>4. Ngrams' = G /\ Size' = n /\ EndOfModel' = e
  BY <1>1, ModelKept DEF Ngrams, Size, EndOfModel
<1>5. DOMAIN next' = G
  BY <1>1
<1>6. ASSUME NEW p \in G
      PROVE  /\ DOMAIN next'[p] = Kids(G, n, p) /\ \A l \in Kids(G, n, p) : next'[p][l] = Append(p, l)
             /\ Leaf(G, n, p) => next'[p] = <<>>
  <2>1. next'[p] = [l \in ToSet(LabelsAfter(p, G)) |-> Append(p, l)]
    BY <1>1
  <2> HIDE DEF G, n
  <2>2. ToSet(LabelsAfter(p, G)) = Kids(G, n, p)
    <3>1. p \in Seq(1 .. n)
      BY <1>3
    <3> QED BY <1>3, <3>1, LabelsAfterIs DEF Kids
  <2>3. next'[p] = [l \in Kids(G, n, p) |-> Append(p, l)]
    BY <2>1, <2>2
  <2>4. ASSUME Leaf(G, n, p) PROVE next'[p] = <<>>
    <3>1. Kids(G, n, p) = {}
      BY <2>4 DEF Leaf, Kids
    <3>2. next'[p] = [l \in {} |-> Append(p, l)]
      BY <2>3, <3>1
    <3>3. DOMAIN <<>> = {} /\ <<>> = [l \in DOMAIN <<>> |-> <<>>[l]]
      BY EmptyFacts
    <3>4. [l \in {} |-> Append(p, l)] = [l \in {} |-> <<>>[l]]
      OBVIOUS
    <3> QED BY <3>2, <3>3, <3>4
  <2> QED BY <2>3, <2>4
<1>7. /\ c \in Calls(G, n) /\ c.at = Root /\ c.backoff = Root /\ NoDups(c.todo) /\ Todo(c) = Kids(G, n, Root)
  <2>1. DOMAIN next'[Root] = Kids(G, n, Root)
    BY <1>3, <1>6
  <2> QED BY <1>2, <1>3, <2>1, CallIs
<1> HIDE DEF c, G, n, e
<1>8. Backing(G, n, e, next', {c})
  BY <1>3, <1>5, <1>6, <1>7, FirstBacking
<1>9. IsCalls(G, n, stack') /\ ToSet(stack') = {c}
  <2> DEFINE r == <<>>
  <2>1. IsCalls(G, n, r) /\ ToSet(r) = {}
    BY EmptyFacts DEF IsCalls
  <2>2. stack' = <<c>> \o r
    BY <1>1
  <2> HIDE DEF r
  <2>3. IsCalls(G, n, <<c>> \o r) /\ ToSet(<<c>> \o r) = {c} \cup ToSet(r)
    BY <1>3, <1>7, <2>1, NewCall
  <2> QED BY <2>1, <2>2, <2>3
<1> QED BY <1>1, <1>4, <1>8, <1>9 DEF BackoffInv

\* assert(found) does not fail, and the arcs are bent as they should.
LEMMA BackoffArcInv == CountInv /\ GramsInv /\ BackoffInv /\ AddBackoffArc => BackoffInv' /\ stage' = "backoff"
<1> SUFFICES ASSUME CountInv, GramsInv, BackoffInv, AddBackoffArc PROVE BackoffInv' /\ stage' = "backoff"
  OBVIOUS
<1> DEFINE G == Ngrams
           n == Size
           e == EndOfModel
           c == Head(stack)
           l == Head(c.todo)
           T == Tail(stack)
           R == ToSet(T)
           c1 == [c EXCEPT !.todo = Tail(@)]
           to == next[c.at][l]
           nb == NextBackoff(c, l)
           new == Call(to, nb, next)
<1>1. /\ stage = "backoff" /\ stack # <<>> /\ c.todo # <<>>
      /\ opts' = opts /\ table' = table /\ models' = models /\ trie' = trie
  BY DEF AddBackoffArc
<1>2. /\ c.at # c.backoff /\ l \notin DOMAIN next[c.backoff] => stage' = "failed"
      /\ ~ (c.at # c.backoff /\ l \notin DOMAIN next[c.backoff]) =>
           /\ stage' = stage
           /\ next[to] # <<>> => stack' = <<new>> \o (<<c1>> \o T) /\ next' = next
           /\ ~ (next[to] # <<>>) => next' = [next EXCEPT ![c.at][l] = nb] /\ stack' = <<c1>> \o T
  BY DEF AddBackoffArc
<1>3. nb = IF c.at = c.backoff THEN c.backoff ELSE next[c.backoff][l]
  BY DEF NextBackoff
<1>4. Modelling /\ IsCalls(G, n, stack) /\ Backing(G, n, e, next, ToSet(stack))
  BY <1>1 DEF Modelling, BackoffInv
<1>5. Grams(G, n, e) /\ n \in Nat /\ G \in SUBSET Seq(1 .. n) /\ Root \in G
  BY <1>4, ModelIs
<1>6. Ngrams' = G /\ Size' = n /\ EndOfModel' = e
  BY <1>1, ModelKept DEF Ngrams, Size, EndOfModel
<1> HIDE DEF G, n, e
<1>7. /\ c \in Calls(G, n) /\ c \in ToSet(stack) /\ NoDups(c.todo)
      /\ ToSet(stack) = {c} \cup R
      /\ IsCalls(G, n, T) /\ \A d \in R : d.at # c.at
  BY <1>1, <1>4, <1>5, InnermostCall
<1> HIDE DEF c, R, T
<1>8. c.at \in G /\ c.backoff \in G /\ c.todo \in Seq(1 .. n) /\ c.todo # <<>>
  BY <1>1, <1>7 DEF Calls
<1>9. /\ l \in Todo(c) /\ Tail(c.todo) \in Seq(1 .. n) /\ NoDups(Tail(c.todo))
      /\ ToSet(Tail(c.todo)) = Todo(c) \ {l}
  BY <1>5, <1>7, <1>8, FirstTodo DEF Todo
<1>10. /\ c1 \in Calls(G, n) /\ NoDups(c1.todo) /\ c1.at = c.at
       /\ OneLess(c, l, c1)
  <2> DEFINE u == Tail(c.todo)
  <2>1. c1 \in Calls(G, n) /\ c1.at = c.at /\ c1.backoff = c.backoff /\ c1.todo = u
    BY <1>7, <1>9 DEF Calls
  <2> QED BY <1>9, <2>1 DEF OneLess, Todo
<1> HIDE DEF l, nb, c1
<1>11. /\ c.at \in G /\ l \in Kids(G, n, c.at) /\ next[c.at][l] = Append(c.at, l) /\ l \in DOMAIN next[c.at]
       /\ c.at # c.backoff => l \in DOMAIN next[c.backoff]
       /\ Append(c.at, l) \in Inner(G, n) \/ l # e => BacksTo(G, n, Append(c.at, l), nb)
       /\ Append(c.at, l) \in Inner(G, n) <=> next[Append(c.at, l)] # <<>>
  <2> DEFINE cs == ToSet(stack)
  <2>1. Backing(G, n, e, next, cs) /\ c \in cs
    BY <1>4, <1>7
  <2> HIDE DEF cs
  <2> QED BY <1>3, <1>5, <1>9, <2>1, ArcFound
<1>12. to = Append(c.at, l) /\ Append(c.at, l) \in G
  BY <1>11 DEF Kids
<1> HIDE DEF to
<1>13. stage' = "backoff"
  BY <1>1, <1>2, <1>11
<1> DEFINE r == <<c1>> \o T
<1>14. IsCalls(G, n, r) /\ ToSet(r) = {c1} \cup R
  <2>1. \A d \in ToSet(T) : d.at # c1.at
    BY <1>7, <1>10 DEF R
  <2> QED BY <1>5, <1>7, <1>10, <2>1, NewCall DEF R
<1> HIDE DEF r
<1> DEFINE cs == ToSet(stack)
<1>15. Backing(G, n, e, next, cs) /\ c \in cs /\ cs = {c} \cup R
  BY <1>4, <1>7
<1> HIDE DEF cs
<1>16. ASSUME next[to] # <<>>
       PROVE  IsCalls(G, n, stack') /\ Backing(G, n, e, next', ToSet(stack'))
  <2>1. stack' = <<new>> \o r /\ next' = next
    BY <1>2, <1>11, <1>16 DEF r
  <2>2. to \in Inner(G, n) /\ to \in G /\ BacksTo(G, n, to, nb)
    BY <1>11, <1>12, <1>16
  <2>3. nb \in G
    BY <1>5, <2>2 DEF BacksTo, IsLongest, InnerEnds
  <2>4. DOMAIN next[to] = Kids(G, n, to)
    <3>1. Untouched(next, cs, to)
      BY <1>9, <1>12, <1>15, <2>2 DEF Backing
    <3>2. Phi \notin DOMAIN next[to]
      BY <3>1 DEF Untouched
    <3>3. Kids(G, n, to) \subseteq DOMAIN next[to] /\ DOMAIN next[to] \subseteq Kids(G, n, to) \cup {Phi}
      BY <1>15, <2>2 DEF Backing, TrieArcs
    <3> QED BY <3>2, <3>3
  <2>5. /\ new \in Calls(G, n) /\ new.at = to /\ new.backoff = nb /\ NoDups(new.todo)
        /\ Todo(new) = Kids(G, n, to)
    BY <1>4, <2>2, <2>3, <2>4, CallIs DEF G, n
  <2> HIDE DEF new
  <2>6. Backing(G, n, e, next, WithCall(new, c1, R)) /\ \A d \in {c1} \cup R : d.at # new.at
    <3>1. Enters(G, n, c, l, new)
      BY <1>12, <2>2, <2>5 DEF Enters
    <3>2. n \in Nat /\ Grams(G, n, e) /\ Backing(G, n, e, next, cs) /\ c \in cs /\ cs = {c} \cup R
          /\ (\A d \in R : d.at # c.at) /\ l \in Todo(c) /\ OneLess(c, l, c1)
      BY <1>5, <1>7, <1>9, <1>10, <1>15
    <3>3. Backing(G, n, e, next, WithCall(new, c1, R)) /\ Alone(new, c1, R)
      BY ONLY <3>1, <3>2, PushBacking
    <3> QED BY <3>3 DEF Alone
  <2>7. IsCalls(G, n, <<new>> \o r) /\ ToSet(<<new>> \o r) = {new} \cup ToSet(r)
    BY <1>5, <1>14, <2>5, <2>6, NewCall
  <2>8. {new} \cup ToSet(r) = WithCall(new, c1, R)
    BY <1>14 DEF WithCall
  <2> QED BY <2>1, <2>6, <2>7, <2>8
<1>17. ASSUME ~ (next[to] # <<>>)
       PROVE  IsCalls(G, n, stack') /\ Backing(G, n, e, next', ToSet(stack'))
  <2>1. stack' = r /\ next' = [next EXCEPT ![c.at][l] = nb]
    BY <1>2, <1>11, <1>17 DEF r
  <2>2. Append(c.at, l) \notin Inner(G, n)
    BY <1>11, <1>12, <1>17
  <2> DEFINE cs2 == {c1} \cup R
             nx2 == next'
  <2>3. cs2 = {c1} \cup R /\ nx2 = [next EXCEPT ![c.at][l] = nb]
    BY <2>1
  <2> HIDE DEF cs2, nx2
  <2>4. Backing(G, n, e, nx2, cs2)
    BY <1>3, <1>5, <1>7, <1>9, <1>10, <1>15, <2>2, <2>3, BendBacking
  <2> QED BY <1>14, <2>1, <2>4 DEF cs2, nx2
<1> QED BY <1>6, <1>13, <1>16, <1>17 DEF BackoffInv

\* A call returns, at last the first one.
LEMMA PhiArcInv == CountInv /\ GramsInv /\ BackoffInv /\ AddPhiArc => BackoffInv'
<1> SUFFICES ASSUME CountInv, GramsInv, BackoffInv, AddPhiArc PROVE BackoffInv'
  OBVIOUS
<1> DEFINE G == Ngrams
           n == Size
           e == EndOfModel
           c == Head(stack)
           R == ToSet(Tail(stack))
           nx2 == next'
<1>1. /\ stage = "backoff" /\ stack # <<>> /\ c.todo = <<>>
      /\ nx2 = IF c.at = c.backoff THEN next ELSE [next EXCEPT ![c.at] = WithPhi(@, c.backoff)]
      /\ stack' = Tail(stack) /\ stage' = IF stack' = <<>> THEN "convert" ELSE stage
      /\ opts' = opts /\ table' = table /\ models' = models /\ trie' = trie
  BY DEF AddPhiArc
<1>2. Modelling /\ IsCalls(G, n, stack) /\ Backing(G, n, e, next, ToSet(stack))
  BY <1>1 DEF Modelling, BackoffInv
<1>3. Grams(G, n, e) /\ n \in Nat
  BY <1>2, ModelIs
<1>4. Ngrams' = G /\ Size' = n /\ EndOfModel' = e
  BY <1>1, ModelKept DEF Ngrams, Size, EndOfModel
<1> HIDE DEF G, n, e
<1>5. /\ c \in ToSet(stack) /\ ToSet(stack) = {c} \cup R
      /\ IsCalls(G, n, Tail(stack)) /\ \A d \in R : d.at # c.at
  BY <1>1, <1>2, <1>3, InnermostCall
<1>6. Todo(c) = {}
  BY <1>1, EmptyFacts DEF Todo
<1>7. R = ToSet(stack') /\ (stack' = <<>> => R = {})
  BY <1>1, EmptyFacts
<1> DEFINE cs == ToSet(stack)
<1>8. Backing(G, n, e, next, cs) /\ c \in cs /\ cs = {c} \cup R
  BY <1>2, <1>5
<1>9. nx2 = IF c.at = c.backoff THEN next ELSE [next EXCEPT ![c.at] = WithPhi(@, c.backoff)]
  BY <1>1
<1> HIDE DEF cs, c, R, nx2
<1>10. Backing(G, n, e, nx2, R)
  BY <1>3, <1>5, <1>6, <1>8, <1>9, PopBacking
<1>11. Backing(G, n, e, next', R)
  BY <1>10 DEF nx2
<1>12. stage' = "backoff" => IsCalls(G, n, stack') /\ Backing(G, n, e, next', ToSet(stack'))
  BY <1>1, <1>5, <1>7, <1>11
<1>13. stage' = "convert" => Backing(G, n, e, next', {})
  BY <1>1, <1>7, <1>11
<1> QED BY <1>4, <1>12, <1>13 DEF BackoffInv

LEMMA AllNextBackoffInv == CountInv /\ GramsInv /\ BackoffInv /\ [AllNext]_allVars => BackoffInv'
<1> SUFFICES ASSUME CountInv, GramsInv, BackoffInv, [AllNext]_allVars PROVE BackoffInv'
  OBVIOUS
<1>1. CASE StartAddBackoff
  BY <1>1, StartBackoffInv
<1>2. CASE AddBackoffArc
  BY <1>2, BackoffArcInv
<1>3. CASE AddPhiArc
  BY <1>3, PhiArcInv
<1>4. CASE stage' \notin {"backoff", "convert"}
  BY <1>4 DEF BackoffInv
<1>5. CASE DoubleFree \/ MakeSymbols \/ AddCounts \/ ProcessSubset \/ Select \/ CreateNgramTrie \/ CreateScoringFst
  <2>1. stage' \notin {"backoff", "convert"}
    BY <1>5 DEF DoubleFree, MakeSymbols, AddCounts, ProcessSubset, Select, CreateNgramTrie, CreateScoringFst
  <2> QED BY <1>4, <2>1
<1>6. CASE NoepshistNext \/ HandOver \/ Convert \/ NgramFsaInsertFeatures
  <2>1. stage' \notin {"backoff", "convert"}
    BY <1>6 DEF NoepshistNext, StartScoring, AddArcs, ComposeScoringFst, HandOver, Convert, NgramFsaInsertFeatures
  <2> QED BY <1>4, <2>1
<1>7. CASE UNCHANGED topologyVars
  <2>1. /\ opts' = opts /\ table' = table /\ models' = models /\ trie' = trie
        /\ stage' = stage /\ next' = next /\ stack' = stack
    BY <1>7 DEF topologyVars, createVars, countVars, modelVars
  <2>2. Ngrams' = Ngrams /\ Size' = Size /\ EndOfModel' = EndOfModel
    BY <2>1, ModelKept DEF Ngrams, Size, EndOfModel
  <2> QED BY <2>1, <2>2 DEF BackoffInv
<1> QED BY <1>1, <1>2, <1>3, <1>5, <1>6, <1>7
        DEF AllNext, allVars, Create, SessionStep, TopologyNext, CreateNext, CountNext

LEMMA InitBackoffInv == AllInit => BackoffInv
BY DEF AllInit, IdleCreation, CreatingInit, TopologyInit, CreateInit, CountInit, BackoffInv

\* The states that go on are those with arcs.
LEMMA InnerArcs ==
  ASSUME NEW n \in Nat, NEW G, NEW nx, TrieArcs(G, n, nx)
  PROVE  {p \in DOMAIN nx : nx[p] # <<>>} = Inner(G, n)
<1>1. ASSUME NEW p \in G, ~ Leaf(G, n, p) PROVE nx[p] # <<>>
  <2>1. PICK x \in 1 .. n : x \in Kids(G, n, p)
    BY <1>1 DEF Leaf, Kids
  <2>2. x \in DOMAIN nx[p]
    BY <1>1, <2>1 DEF TrieArcs, Inner
  <2> QED BY <2>2
<1> QED BY <1>1 DEF TrieArcs, Inner

LEMMA LongestHistoryHolds == CountInv /\ GramsInv /\ BackoffInv => LongestHistory
<1> SUFFICES ASSUME CountInv, GramsInv, BackoffInv, stage = "convert" PROVE LongestHistory
  BY DEF LongestHistory
<1> DEFINE G == Ngrams
           n == Size
           E == EndOfModel
           inner == {p \in DOMAIN next : next[p] # <<>>}
           suffixes(p) == {q \in inner : IsSuffixOf(q, p)}
<1>1. Modelling /\ Backing(G, n, E, next, {})
  BY DEF Modelling, BackoffInv
<1>2. Grams(G, n, E) /\ n \in Nat /\ G \in SUBSET Seq(1 .. n)
  BY <1>1, ModelIs
<1>3. E = Labelling(Current)[EndLabel]
  BY DEF EndOfModel
<1> HIDE DEF G, n, E
<1>4. TrieArcs(G, n, next)
  BY <1>1 DEF Backing
<1>5. inner = Inner(G, n) /\ Inner(G, n) \subseteq G
  BY <1>2, <1>4, InnerArcs DEF Inner
<1> HIDE DEF inner
<1>6. ASSUME NEW p \in Seq(1 .. n) PROVE suffixes(p) = InnerEnds(G, n, p)
  <2>1. \A q \in Inner(G, n) : IsSuffixOf(q, p) <=> Ends(q, p)
    BY <1>2, <1>5, EndsIsSuffix
  <2> QED BY <1>5, <2>1 DEF InnerEnds, Inner
<1>7. ASSUME NEW p \in Seq(1 .. n) PROVE InnerEnds(G, n, p) \subseteq {q \in Seq(1 .. n) : Ends(q, p)}
  BY <1>2 DEF InnerEnds
<1> HIDE DEF suffixes
<1>8. ASSUME NEW p \in inner
      PROVE  /\ p # Root => next[p][Phi] = LongestOf(suffixes(p) \ {p})
             /\ \A l \in DOMAIN next[p] \ {Phi, E} : next[p][l] = LongestOf(suffixes(Append(p, l)))
  <2>1. p \in Inner(G, n) /\ p \in G /\ p \in Seq(1 .. n) /\ DoneRight(G, n, E, next, p)
    BY <1>1, <1>2, <1>5, LastBacking
  <2>2. ASSUME p # Root PROVE next[p][Phi] = LongestOf(suffixes(p) \ {p})
    <3> DEFINE S == InnerEnds(G, n, p) \ {p}
               s == next[p][Phi]
    <3>1. IsLongest(s, S)
      BY <2>1, <2>2 DEF DoneRight, BacksTo
    <3>2. S \subseteq {q \in Seq(1 .. n) : Ends(q, p)}
      BY <1>7, <2>1
    <3>3. S = suffixes(p) \ {p}
      BY <1>6, <2>1
    <3> HIDE DEF S, s
    <3>4. LongestOf(S) = s
      BY <1>2, <2>1, <3>1, <3>2, LongestIs
    <3> QED BY <3>3, <3>4 DEF s
  <2>3. ASSUME NEW l \in DOMAIN next[p] \ {Phi, E}
        PROVE  next[p][l] = LongestOf(suffixes(Append(p, l)))
    <3> DEFINE q == Append(p, l)
               s == next[p][l]
    <3>1. l \in Kids(G, n, p) /\ l # E
      BY <1>4, <2>1 DEF TrieArcs
    <3>2. q \in Seq(1 .. n)
      <4>1. Append(p, l) \in G
        BY <3>1 DEF Kids
      <4> QED BY <1>2, <4>1
    <3>3. IsLongest(s, InnerEnds(G, n, q))
      BY <2>1, <3>1 DEF DoneRight, Right
    <3> HIDE DEF q, s
    <3>4. LongestOf(InnerEnds(G, n, q)) = s
      BY <1>2, <1>7, <3>2, <3>3, LongestIs
    <3> QED BY <1>6, <3>2, <3>4 DEF q, s
  <2> QED BY <2>2, <2>3
<1> QED BY <1>3, <1>8 DEF LongestHistory, inner, suffixes

\* All that AddBackoff relies on and makes.
BackoffState == CountInv /\ GramsInv /\ BackoffInv

LEMMA BackoffStateHolds == AllSpec => []BackoffState
<1>1. AllInit => BackoffState
  BY InitCountInv, InitGramsInv, InitBackoffInv DEF BackoffState
<1>2. BackoffState /\ [AllNext]_allVars => BackoffState'
  BY AllNextCountInv, AllNextGramsInv, AllNextBackoffInv DEF BackoffState
<1> QED BY <1>1, <1>2, PTL DEF AllSpec

\* When AddBackoff has returned, every state that goes on backs off to its longest
\* proper suffix that goes on, and each arc but those with E|E leads to the longest suffix
\* of its n-gram that goes on: whatever the options, the corpus and the back-off models.
THEOREM BackoffIsLongest == AllSpec => []LongestHistory
<1>1. BackoffState => LongestHistory
  BY LongestHistoryHolds DEF BackoffState
<1> QED BY <1>1, BackoffStateHolds, PTL

\* AddBackoff finds every arc that it looks for: its assert(found) never fails.
THEOREM BackoffFindsArcs == AllSpec => [][stage = "backoff" => stage' # "failed"]_allVars
<1>1. BackoffState /\ [AllNext]_allVars => [stage = "backoff" => stage' # "failed"]_allVars
  <2> SUFFICES ASSUME BackoffState, AllNext, stage = "backoff" PROVE stage' # "failed"
    OBVIOUS
  <2>1. CASE AddBackoffArc
    BY <2>1, BackoffArcInv DEF BackoffState
  <2>2. CASE AddPhiArc
    BY <2>2 DEF AddPhiArc
  <2>3. CASE UNCHANGED topologyVars
    BY <2>3 DEF topologyVars, createVars, countVars
  <2>4. CASE HandOver \/ NoepshistNext
    BY <2>4 DEF HandOver, NoepshistNext, StartScoring, AddArcs, ComposeScoringFst
  <2>5. CASE DoubleFree \/ MakeSymbols \/ AddCounts \/ ProcessSubset \/ Select \/ CreateNgramTrie
             \/ StartAddBackoff \/ Convert \/ NgramFsaInsertFeatures \/ CreateScoringFst
    BY <2>5 DEF DoubleFree, MakeSymbols, AddCounts, ProcessSubset, Select, CreateNgramTrie,
                StartAddBackoff, Convert, NgramFsaInsertFeatures, CreateScoringFst
  <2> QED BY <2>1, <2>2, <2>3, <2>4, <2>5
          DEF AllNext, Create, SessionStep, TopologyNext, CreateNext, CountNext
<1> QED BY <1>1, BackoffStateHolds, PTL DEF AllSpec

-----------------------------------------------------------------------------
(* Finite sets.                                                            *)

\* A function that is tabulated is the same function.
LEMMA TabulatedIs == ASSUME NEW f PROVE Tabulated(f) = f
  BY Zenon DEF Tabulated

\* The image of a finite set is finite.
LEMMA ImageFinite ==
  ASSUME NEW S, IsFiniteSet(S), NEW f, NEW T, T = {f[x] : x \in S}
  PROVE  IsFiniteSet(T)
<1> DEFINE g == [x \in S |-> f[x]]
<1>1. g \in Surjection(S, T)
  BY DEF Surjection
<1> QED BY <1>1, FS_Surjection

\* So is an interval.
LEMMA IntervalFinite == ASSUME NEW a \in Int, NEW b \in Int PROVE IsFiniteSet(a .. b)
  BY FS_Interval

\* The strings of at most k labels.
Short(n, k) == {p \in Seq(1 .. n) : Len(p) <= k}

\* There are finitely many strings of a bounded length.
LEMMA ShortFinite ==
  ASSUME NEW n \in Nat, NEW k \in Nat
  PROVE  IsFiniteSet(Short(n, k))
<1> DEFINE G == {j \in Nat : IsFiniteSet(Short(n, j))}
<1>1. 0 \in G
  <2>1. Short(n, 0) = {<<>>}
    <3>1. \A p \in Short(n, 0) : p \in Seq(1 .. n) /\ Len(p) = 0
      BY DEF Short
    <3>2. \A p \in Short(n, 0) : p = <<>>
      BY <3>1
    <3>3. <<>> \in Short(n, 0)
      BY EmptyFacts DEF Short
    <3> QED BY <3>2, <3>3
  <2> QED BY <2>1, FS_Singleton
<1>2. ASSUME NEW j \in Nat, j \in G PROVE j + 1 \in G
  <2> DEFINE f == [x \in Short(n, j) \X (1 .. n) |-> Append(x[1], x[2])]
             T == {f[x] : x \in Short(n, j) \X (1 .. n)}
  <2>1. IsFiniteSet(Short(n, j) \X (1 .. n))
    <3>1. IsFiniteSet(Short(n, j)) /\ IsFiniteSet(1 .. n)
      BY <1>2, FS_Interval
    <3> QED BY <3>1, FS_Product
  <2>2. IsFiniteSet(T)
    <3> HIDE DEF f
    <3> QED BY <2>1, ImageFinite
  <2>3. Short(n, j + 1) \subseteq {<<>>} \cup T
    <3> SUFFICES ASSUME NEW p \in Short(n, j + 1), p # <<>> PROVE p \in T
      OBVIOUS
    <3>1. p \in Seq(1 .. n) /\ Len(p) <= j + 1
      BY DEF Short
    <3>2. /\ Front(p) \in Seq(1 .. n) /\ Len(Front(p)) = Len(p) - 1 /\ Len(p) \in Nat
          /\ Last(p) \in 1 .. n /\ p = Append(Front(p), Last(p))
      BY <3>1, FrontFacts
    <3>3. Front(p) \in Short(n, j)
      BY <3>1, <3>2 DEF Short
    <3>4. <<Front(p), Last(p)>> \in Short(n, j) \X (1 .. n) /\ f[<<Front(p), Last(p)>>] = p
      BY <3>2, <3>3
    <3> HIDE DEF f
    <3> QED BY <3>4
  <2>4. IsFiniteSet({<<>>} \cup T)
    BY <2>2, FS_Singleton, FS_Union
  <2> QED BY <2>3, <2>4, FS_Subset
<1> HIDE DEF G
<1>3. k \in G
  BY <1>1, <1>2, UpTo
<1> QED BY <1>3 DEF G
=============================================================================
