-------------------------- MODULE TrainingSession --------------------------
(***************************************************************************)
(* A training session: scripts/train.R or scripts/train-condother.R, from  *)
(* the options to the saved files, with scripts/rprop2.R and the C         *)
(* interface to the one objective function object (glue/, train/).         *)
(*                                                                         *)
(* A parameter vector is a number that says when it was made: what matters *)
(* is which vector the arcs of the FST, the value and the gradients belong *)
(* to, and how long it is.                                                 *)
(***************************************************************************)
EXTENDS Integers, FiniteSets

CONSTANTS
  MaxGiven,     \* bounds the options of a session
  MaxFile,      \* bounds the lines of each file given to initialise
  MaxForce,     \* bounds the vectors tried until the FST converges
  MaxIter,      \* maxiter of rprop
  MaxTracked,   \* bounds the parameters whose updates are tracked
  MaxEvals,     \* bounds the evaluations of L-BFGS
  UpdateMax     \* updateMax; an update is a level between 0 (updateMin) and it

ASSUME SessionAssumption ==
  /\ MaxGiven \in Nat /\ MaxForce \in Nat
  /\ MaxFile \in Nat \ {0} /\ MaxTracked \in Nat \ {0} /\ MaxIter \in Nat \ {0} /\ MaxEvals \in Nat \ {0} /\ UpdateMax \in Nat \ {0}

Perturbed == -1    \* a vector tried by the gradient check
Untrained == -2    \* the FST as it was read or created
Never == -3

Options == {"init.weights", "init.weights.perturb", "init.names", "lenmatch",
            "lenmatch.variance", "lenmatch.y", "joint.training", "check.gradients",
            "force.convergence"}

VARIABLES
  script,       \* which of the scripts it is
  given,        \* programOptions: the options on the command line
  source,       \* where the FST comes from: --fst, --align-fst or --ngram-order,
                \* or why there is none
  optimizer,    \* from --rprop-on and --lbfgs-max-iterations
  weightsLines, \* lines of the --init-weights file ...
  namesLines,   \* ... and of the --init-names file
  needed,       \* how often the penalty must be raised until the FST converges
  pc,           \* where the script is
  kind,         \* the class of the objective function object, or "none"
  numParams,    \* its num_params_
  names,        \* the size of feature_names; 0 if there is none
  numWeights,   \* length of the first vector, and of all vectors made from it
  params,       \* the vector the script works with
  made,         \* the last vector made
  initParams,        \* the vector optimisation starts from
  onArcs,         \* the vector whose weights are on the arcs
  evaluated,    \* the vector that value and gradients belong to
  outcome,      \* the kind of the value, and of gradients if it is not finite
  iter,         \* iterations or evaluations of the optimiser
  updates, prevSigns, halved,  \* rprop, by parameter; halved is history
  saved         \* the vectors in the .feat-weights and the .fst file

session == <<script, given, source, optimizer, weightsLines, namesLines, needed>>
object == <<kind, numParams, names>>
evaluation == <<onArcs, evaluated, outcome>>
rprop == <<updates, prevSigns, halved>>
Larger(a, b) == IF a > b THEN a ELSE b
Fresh == IF made < MaxForce + Larger(MaxIter, MaxEvals) THEN made + 1 ELSE made
vars == <<session, pc, object, numWeights, params, made, initParams, evaluation, iter, rprop, saved>>

Params == 1 .. IF numParams < MaxTracked THEN numParams ELSE MaxTracked
Outcomes == {"finite", "nan", "nan, with NaN gradients"}
Unused == [weights |-> Untrained, fst |-> Untrained]

\* quit(): a file is missing or there is nothing to start from, or --fst was given
\* with one of the others.
Quits == source \in {"incomplete", "fst and another"}

\* programOptions$name: `$' takes the only option that name is the start of.
Longer(o) == CASE o = "lenmatch" -> {"lenmatch.variance", "lenmatch.y"}
               [] o = "init.weights" -> {"init.weights.perturb"}
               [] OTHER -> {}
Given(o) == o \in given \/ Cardinality(Longer(o) \cap given) = 1

Init ==
  /\ script \in {"train", "train-condother"}
  /\ source \in {"fst", "align", "ngram", "incomplete", "fst and another"}
  /\ given \in {g \in SUBSET Options : Cardinality(g) <= MaxGiven /\ (Quits => g = {})}
  /\ script = "train-condother" =>
       given \cap {"init.names", "init.weights.perturb", "joint.training"} = {}
  /\ optimizer \in IF script = "train" THEN {"rprop", "lbfgs", "none"} ELSE {"rprop", "lbfgs"}
  /\ weightsLines \in IF "init.weights" \in given THEN 1 .. MaxFile ELSE {0}
  /\ namesLines \in IF "init.names" \in given THEN 1 .. MaxFile ELSE {0}
  /\ needed \in IF "force.convergence" \in given THEN (0 .. MaxForce) \cup {Never} ELSE {0}
  /\ pc = "create" /\ kind = "none"
  /\ numParams = 0 /\ names = 0 /\ numWeights = 0
  /\ params = 0 /\ made = 0 /\ initParams = 0
  /\ onArcs = Untrained /\ evaluated = Untrained /\ outcome = "finite"
  /\ iter = 0 /\ updates = <<>> /\ prevSigns = <<>> /\ halved = {}
  /\ saved = Unused

-----------------------------------------------------------------------------
(* Up to the optimisation.                                                 *)

\* The script stops, or crashes, and saves nothing.
Abort ==
  /\ pc' = "aborted"
  /\ UNCHANGED <<session, object, numWeights, params, made, initParams, evaluation, iter, rprop, saved>>

\* objectiveFunctionType, and the class that the factory makes of it.
ObjectiveKind ==
  IF script = "train-condother" THEN "condother"
  ELSE IF Given("joint.training") THEN "joint"
  ELSE IF Given("lenmatch") THEN "lenmatch" ELSE "conditional"

\* stop(): weights need names.  The other script calls Init_FromAlignment and
\* Init_Ngram with too few arguments, whose addresses are then garbage.
NotCreatable ==
  /\ source \in {"align", "ngram"}
  /\ script = "train-condother" \/ (Given("init.weights") /\ "init.names" \notin given)

\* The creation of a machine may fail too; CreateModel says when.
CannotCreate == pc = "create" /\ source \in {"align", "ngram"} /\ Abort

Quit == pc = "create" /\ Quits /\ Abort

\* A new objective function object; num_params_ comes from the highest number of
\* a feature on an arc.
NewObject(tableSize, n) ==
  /\ pc = "create" /\ ~ NotCreatable
  /\ kind' = ObjectiveKind
  /\ names' = tableSize /\ numParams' = n
  /\ pc' = "weights"
  /\ UNCHANGED <<numWeights, params, made, initParams, evaluation, iter, rprop, saved>>

\* Init_FromFile.
InitFromFile ==
  /\ source = "fst"
  /\ \E n \in 1 .. MaxFile : NewObject(0, n)
  /\ UNCHANGED session

\* InitFeatureNamesTable and PopulateFeatureNamesTable: the given names, or
\* those of the two length features.
InitialNames == IF "init.names" \in given THEN namesLines ELSE 2

\* Init_FromAlignment or Init_Ngram.  A feature that is not in the table yet is
\* added with the next number; not every feature in the table is on an arc.
InitFromModel ==
  /\ source \in {"align", "ngram"}
  /\ \E added \in 0 .. 1 : \E n \in 1 .. InitialNames + added : NewObject(InitialNames + added, n)
  /\ UNCHANGED session

\* With --init-weights-perturb alone the amount is taken for a file name.
WrongFile == Given("init.weights") /\ "init.weights" \notin given
NoSuchFile == pc = "weights" /\ WrongFile /\ Abort

\* Fault: what the file has too many of is cut off.
Truncated == numParams

\* initParams[1:len] <- ... makes the vector longer if it must; the other script
\* takes the file as it is.  Neither looks at the names.
ExtendedLength == IF "init.weights" \in given THEN Larger(numParams, weightsLines) ELSE numParams
FileLength == IF "init.weights" \in given THEN weightsLines ELSE numParams

InitWeights ==
  /\ pc = "weights"
  /\ ~ WrongFile
  /\ numWeights' = IF script = "train" THEN ExtendedLength ELSE FileLength
  /\ pc' = IF "force.convergence" \in given THEN "force" ELSE "settings"
  /\ UNCHANGED <<session, object, params, made, initParams, evaluation, iter, rprop, saved>>

\* As many doubles as the object has parameters are read, wherever the vector
\* ends: what is read there is arbitrary, if the process survives it.
ReadBeyond == pc \in {"force", "check", "value"} /\ numWeights < numParams /\ Abort

SetFeatureWeights(x) == onArcs' = x

\* FunctionConvergesForAnyInput; value and gradients are not updated.
Converges ==
  /\ pc = "force" /\ needed # Never /\ made >= needed
  /\ SetFeatureWeights(params)
  /\ pc' = "settings"
  /\ UNCHANGED <<session, object, numWeights, params, made, initParams, evaluated, outcome, iter,
                 rprop, saved>>

\* One more try with a higher penalty; without end if no length feature fires.
RaisePenalty ==
  /\ pc = "force" /\ (needed = Never \/ made < needed)
  /\ SetFeatureWeights(params)
  /\ params' = IF made < MaxForce THEN made + 1 ELSE made
  /\ made' = params'
  /\ UNCHANGED <<session, pc, object, numWeights, initParams, evaluated, outcome, iter, rprop, saved>>

\* SetLengthVariance and SetMatchXY use the result of a failed dynamic_cast.
BadCast == Given("lenmatch") /\ kind \notin {"lenmatch", "condother"}
NotALenmatchObject == pc = "settings" /\ BadCast /\ Abort

Settings ==
  /\ pc = "settings"
  /\ ~ BadCast
  /\ initParams' = params
  /\ pc' = IF "check.gradients" \in given THEN "check" ELSE "begin"
  /\ UNCHANGED <<session, object, numWeights, params, made, evaluation, iter, rprop, saved>>

\* Fault: nothing is computed if the arcs have these parameters already.
GetFunctionValueIfNew(x) ==
  IF onArcs = x THEN UNCHANGED evaluation
  ELSE SetFeatureWeights(x) /\ evaluated' = x /\ outcome' \in Outcomes

\* ObjectiveFunctionFst::SetParameters(x); the outcome is ParallelObjective's.
GetFunctionValue(x) ==
  /\ SetFeatureWeights(x)
  /\ evaluated' = x
  /\ outcome' \in Outcomes

\* A sum over a divergent FST without a limit never returns: in the first evaluation
\* of the conditional class, or when the convergence test is wrong (TimedDistance).
SumForEver ==
  /\ pc \in {"check", "value"}
  /\ pc' = "endless"
  /\ UNCHANGED <<session, object, numWeights, params, made, initParams, evaluation, iter, rprop, saved>>

\* The gradient check leaves the vector it tried last on the arcs.
CheckGradients ==
  /\ pc = "check"
  /\ GetFunctionValue(Perturbed)
  /\ pc' = "begin"
  /\ UNCHANGED <<session, object, numWeights, params, made, initParams, iter, rprop, saved>>

-----------------------------------------------------------------------------
(* rprop and L-BFGS.                                                       *)

\* Every weight that is given has a name that is given.
FilesFit == "init.weights" \in given => weightsLines <= namesLines

\* The options are not looked at again; whether the files fit is kept.
Begin ==
  /\ pc = "begin"
  /\ given' = given \cap {"init.weights"}
  /\ weightsLines' = (IF FilesFit THEN 0 ELSE 1) /\ namesLines' = 0
  /\ needed' = 0 /\ script' = "train" /\ source' = "fst"
  /\ pc' = IF optimizer = "none" THEN "save" ELSE "value"
  /\ updates' = IF optimizer = "rprop" THEN [i \in Params |-> UpdateMax - 1] ELSE <<>>
  /\ prevSigns' = IF optimizer = "rprop" THEN [i \in Params |-> 0] ELSE <<>>
  /\ UNCHANGED <<optimizer, object, numWeights, params, made, initParams, evaluation, iter, halved,
                 saved>>

Value ==
  /\ pc = "value"
  /\ GetFunctionValue(params)
  /\ pc' = "gradients"
  /\ UNCHANGED <<session, object, numWeights, params, made, initParams, iter, rprop, saved>>

\* R's optim stops on a value that is not finite, and on gradients that are not
\* as long as the vector; `if' in rprop stops on a NaN, and on the NA behind the end
\* of a vector that is shorter than the gradients.
CannotGoOn ==
  /\ pc = "gradients"
  /\ \/ optimizer = "lbfgs" /\ (outcome # "finite" \/ numWeights # numParams)
     \/ optimizer = "rprop" /\ (outcome = "nan, with NaN gradients" \/ numWeights < numParams)
  /\ Abort

\* rprop: by parameter the sign of the product, then what is done about it.
Signs == {-1, 0, 1}
Up(u) == IF u < UpdateMax THEN u + 1 ELSE u
Down(u) == IF u > 1 THEN u - 2 ELSE 0

\* Fault: the gradient is remembered after a change of sign.
SignKept(signs, i) == signs[i]

\* After a change of sign it is forgotten, so that the next step is taken.
SignRemembered(signs, i) == IF prevSigns[i] * signs[i] < 0 THEN 0 ELSE signs[i]

\* Fault: there is no limit on the iterations.
StopWhenSmall == \A i \in Params : updates'[i] = 0

\* mean(updates) < abstol, or the last iteration.
RpropStops == iter' = MaxIter \/ \A i \in Params : updates'[i] = 0

\* One parameter is not moved if the sign has changed; with a gradient of 0 it
\* stays too.
RpropIteration ==
  /\ pc = "gradients" /\ optimizer = "rprop"
  /\ outcome # "nan, with NaN gradients" /\ numWeights >= numParams
  /\ \E signs \in IF outcome = "nan" THEN {[i \in Params |-> 0]} ELSE [Params -> Signs] :
       LET product(i) == prevSigns[i] * signs[i]
       IN /\ updates' = [i \in Params |-> CASE product(i) > 0 -> Up(updates[i])
                                            [] product(i) < 0 -> Down(updates[i])
                                            [] OTHER -> updates[i]]
          /\ prevSigns' = [i \in Params |-> SignRemembered(signs, i)]
          /\ halved' = {i \in Params : product(i) < 0}
          /\ made' = IF \E i \in Params : product(i) >= 0 /\ signs[i] # 0 THEN Fresh ELSE made
  /\ params' = made'
  /\ iter' = IF iter < MaxIter THEN iter + 1 ELSE iter
  /\ pc' = IF RpropStops THEN "save" ELSE "value"
  /\ UNCHANGED <<session, object, numWeights, initParams, evaluation, saved>>

\* optim (external) goes on to another vector.
LbfgsNext ==
  /\ pc = "gradients" /\ optimizer = "lbfgs" /\ outcome = "finite" /\ numWeights = numParams
  /\ iter < MaxEvals
  /\ made' = Fresh /\ params' = made'
  /\ iter' = iter + 1
  /\ pc' = "value"
  /\ UNCHANGED <<session, object, numWeights, initParams, evaluation, rprop, saved>>

\* It ends with a vector that it has evaluated, not always the last.
LbfgsEnd ==
  /\ pc = "gradients" /\ optimizer = "lbfgs" /\ outcome = "finite" /\ numWeights = numParams
  /\ params' \in initParams .. made
  /\ pc' = "save"
  /\ UNCHANGED <<session, object, numWeights, made, initParams, evaluation, iter, rprop, saved>>

Optimise == CannotGoOn \/ RpropIteration \/ LbfgsNext \/ LbfgsEnd

\* result$par and the FST are written; WriteFeatureNames writes all names.
Save ==
  /\ pc = "save"
  /\ saved' = [weights |-> params, fst |-> onArcs]
  /\ pc' = "saved"
  /\ UNCHANGED <<session, object, numWeights, params, made, initParams, evaluation, iter, rprop>>

Cleanup ==
  /\ pc = "saved"
  /\ kind' = "none"
  /\ pc' = "done"
  /\ UNCHANGED <<session, numParams, names, numWeights, params, made, initParams, evaluation, iter,
                 rprop, saved>>

Next ==
  \/ Quit \/ CannotCreate \/ InitFromFile \/ InitFromModel \/ NoSuchFile \/ InitWeights
  \/ ReadBeyond \/ SumForEver \/ Converges \/ RaisePenalty
  \/ NotALenmatchObject \/ Settings \/ CheckGradients \/ Begin \/ Value \/ Optimise
  \/ Save \/ Cleanup

Spec == Init /\ [][Next]_vars
FairSpec == Spec /\ WF_vars(Next)

-----------------------------------------------------------------------------

Vectors == Untrained .. MaxForce + Larger(MaxIter, MaxEvals)

\* Counters, lengths and vectors are in range.
TypeOK ==
  /\ {numParams, names, numWeights} \subseteq Nat
  /\ names > 0 => numParams <= names
  /\ kind \in {"none", "joint", "conditional", "lenmatch", "condother"}
  /\ {params, made, initParams, onArcs, evaluated, saved.weights, saved.fst} \subseteq Vectors
  /\ outcome \in Outcomes
  /\ iter \in 0 .. Larger(MaxIter, MaxEvals)
  /\ pc \in {"value", "gradients"} /\ optimizer = "rprop" =>
       updates \in [Params -> 0 .. UpdateMax] /\ prevSigns \in [Params -> Signs]

\* When the optimiser asks for gradients, which GetGradients returns whatever
\* vector it is called with, then value, gradients and arc weights all belong to
\* the vector that the optimiser is at, also after the convergence loop and the
\* gradient check have put other vectors on the arcs.
GradientsOfVector ==
  pc = "gradients" => evaluated = params /\ onArcs = params

\* The weights that are given to a session that creates its machine are all kept,
\* also those of names that are on no arc; and if there are no more of them than
\* names given, all weights have a name: the files that are saved can start another
\* session in the same way.  Whatever the files are, an optimiser takes a step only
\* with a weight for each parameter, and L-BFGS only without a surplus.
FilesCanStartSession ==
  /\ names > 0 /\ numWeights > 0 =>
       /\ "init.weights" \in given => weightsLines <= numWeights
       /\ FilesFit => numWeights <= names
  /\ iter > 0 \/ (pc \in {"save", "saved", "done"} /\ optimizer # "none") =>
       /\ numWeights >= numParams
       /\ optimizer = "lbfgs" => numWeights = numParams

\* rprop never makes the update of a parameter smaller in two iterations in a
\* row: after a change of sign one step is taken before the sign counts again.
HalvedNotTwice == [][RpropIteration => halved \cap halved' = {}]_vars

\* Every session that has its machine ends, saved or aborted, unless a sum over a
\* divergent FST has no limit, or convergence is to be forced of an FST that no
\* penalty makes convergent.
SessionEnds == pc # "create" ~> (pc \in {"done", "aborted", "endless"} \/ needed = Never)

\* README.html:160 on the files: "out.fst is the trained model FST and the other
\* two files contain the features and their trained weights".
SavedFilesAgree ==
  pc \in {"saved", "done"} /\ optimizer # "none" => saved.fst = saved.weights
=============================================================================
