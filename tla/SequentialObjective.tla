------------------------ MODULE SequentialObjective ------------------------
(***************************************************************************)
(* One evaluation after the other of the objective functions that go       *)
(* through the training pairs one by one: the joint likelihood             *)
(* (train/obj-func-fst-joint.cc), the conditional likelihood with length   *)
(* matching (train/obj-func-fst-conditional-lenmatch.cc), and the one with *)
(* a third variable (train/obj-func-fst-condother-lenmatch.cc).  A pair    *)
(* without a path is excluded, for this evaluation and all later ones.     *)
(*                                                                         *)
(* Whether a pair has a path depends on the topology of the model FST and  *)
(* never changes; whether a sum diverges depends on the parameters and is  *)
(* chosen anew for every sum.  A sum over a divergent FST ends only if     *)
(* there is a limit and then the convergence test is right, or the option  *)
(* use-matrix-distance is given; a convergent FST too may be called        *)
(* divergent (TimedDistance has the details).  The model FST has a path.   *)
(***************************************************************************)
EXTENDS Integers, FiniteSets, ExtendedReals

CONSTANTS
  N,            \* data_->size()
  MaxCalls      \* bounds the number of evaluations

ASSUME ConstantsAssumption == N \in Nat /\ MaxCalls \in Nat

Pairs == 0 .. N - 1
Variants == {"joint", "lenmatch", "condother"}

\* The terms that a value and a gradient vector are sums of.
Reg == <<"regulariser", N>>
Model == <<"model", N>>        \* all paths of the model FST
Lengths == <<"lengths", N>>    \* the difference in length
Terms == {Reg, Model, Lengths} \cup ({"clamped", "unclamped"} \X Pairs)
NoTerms == [t \in Terms |-> 0]
Nans == [t \in Terms |-> -1]   \* what a vector of NaNs is written as

VARIABLES
  variant,      \* which of the objective functions it is
  hasPath,      \* the pairs whose clamped FST has a path
  main,         \* program counter
  calls,        \* evaluations begun; the static call_counter is one less
  pairCalls,    \* call_counter of ProcessInputOutputPair (condother), up to 1
  limit,        \* timelimit_ms_: is there one
  idx,          \* i, the pair the loop is at
  diverges,     \* whether the FST being summed is divergent
  value,        \* value_: its kind, and how often each term is in it
  gradients,    \* gradients_: how often each term is in it, or Nans
  excluded,     \* exclude_data_indices_
  clampedDiverged  \* history: a clamped sum of this evaluation diverged

vars == <<variant, hasPath, main, calls, pairCalls, limit, idx, diverges, value, gradients,
          excluded, clampedDiverged>>

Limits == {"none", "finite"}

\* The program counter, counters and sums are in range.
TypeOK ==
  /\ variant \in Variants /\ hasPath \subseteq Pairs
  /\ main \in {"idle", "loop", "clamped", "unclamped", "model", "lengths", "finish", "rerun"}
  /\ calls \in 0 .. MaxCalls /\ pairCalls \in -1 .. 1
  /\ limit \in Limits
  /\ idx \in 0 .. N
  /\ diverges \in BOOLEAN /\ clampedDiverged \in BOOLEAN
  /\ value \in [kind : Kinds \cup {"one", "squashed"}, terms : [Terms -> 0 .. N + 1]]
  /\ gradients \in [Terms -> -1 .. N + 1]
  /\ excluded \subseteq Pairs

Init ==
  /\ variant \in Variants /\ hasPath \in SUBSET Pairs
  /\ main = "idle"
  /\ calls = 0 /\ pairCalls = -1
  /\ limit = "finite"
  /\ idx = 0
  /\ diverges = FALSE /\ clampedDiverged = FALSE
  /\ value = [kind |-> "fin", terms |-> NoTerms]
  /\ gradients = NoTerms
  /\ excluded = {}

SetTimelimit(l) ==
  /\ main = "idle"
  /\ limit' = l
  /\ UNCHANGED <<variant, hasPath, main, calls, pairCalls, idx, diverges, value, gradients,
                 excluded, clampedDiverged>>

\* Value and gradients are cleared and then hold the regulariser.
Begin ==
  /\ main = "idle" /\ calls < MaxCalls
  /\ main' = "loop"
  /\ calls' = calls + 1
  /\ idx' = 0
  /\ value' = [kind |-> "fin", terms |-> [NoTerms EXCEPT ![Reg] = 1]]
  /\ gradients' = value'.terms
  /\ clampedDiverged' = FALSE
  /\ UNCHANGED <<variant, hasPath, pairCalls, limit, diverges, excluded>>

\* What a sum that returns is reported to have done, under limit l: TRUE if it
\* diverged.  The convergence test, which comes after the limit, may be wrong.
Verdicts(l) == IF l # "none" THEN BOOLEAN ELSE IF diverges THEN {} ELSE {FALSE}

\* GetFeatureMDExpectations: a sum that diverged resets the gradients.
AddToGradients(term, n, diverged) ==
  gradients' = IF diverged THEN NoTerms ELSE [gradients EXCEPT ![term] = @ + n]

AddToValue(term, n, kind) ==
  value' = [kind |-> KindSum(value.kind, kind), terms |-> [value.terms EXCEPT ![term] = @ + n]]

\* The next sum is begun, over an FST that diverges or not.
BeginSum(which) == main' = which /\ diverges' \in BOOLEAN
EndSums(where) == main' = where /\ diverges' = FALSE

SkipExcluded ==
  /\ main = "loop" /\ idx \in excluded
  /\ idx' = idx + 1
  /\ UNCHANGED <<variant, hasPath, main, calls, pairCalls, limit, diverges, value, gradients,
                 excluded, clampedDiverged>>

\* A pair is taken up; only the third class counts the pairs, before anything
\* can be thrown.
OpenPair ==
  /\ main = "loop" /\ idx \in Pairs \ excluded
  /\ BeginSum("clamped")
  /\ UNCHANGED <<variant, hasPath, calls, limit, idx, value, gradients, excluded, clampedDiverged>>

StartPair == OpenPair /\ pairCalls' = pairCalls
StartOtherPair == OpenPair /\ pairCalls' = IF pairCalls < 1 THEN pairCalls + 1 ELSE pairCalls

\* The clamped sum returns.
AddClamped ==
  /\ main = "clamped"
  /\ \E diverged \in Verdicts(limit) :
       /\ diverged \/ idx \in hasPath
       /\ AddToGradients(<<"clamped", idx>>, 1, diverged)
       /\ AddToValue(<<"clamped", idx>>, 1, DistanceKind(diverged))
       /\ clampedDiverged' = (clampedDiverged \/ diverged)
  /\ UNCHANGED <<variant, hasPath, calls, pairCalls, limit, excluded>>

SumClamped == AddClamped /\ BeginSum("unclamped") /\ idx' = idx
SumClampedOnly == AddClamped /\ EndSums("loop") /\ idx' = idx + 1

\* Fault: the pair is ignored but not excluded.
NotExcluded == excluded

WithoutThisPair == excluded \cup {idx}

\* The exception "no paths" is caught by the loop.
NoPaths ==
  /\ main = "clamped" /\ FALSE \in Verdicts(limit) /\ idx \notin hasPath
  /\ excluded' = WithoutThisPair
  /\ EndSums("loop")
  /\ idx' = idx + 1
  /\ UNCHANGED <<variant, hasPath, calls, pairCalls, limit, value, gradients, clampedDiverged>>

\* The loop ends early when the value has become infinite.
NextPair(kind) == IF kind = "pinf" THEN N ELSE idx + 1

\* The unclamped sum, under limit l, returns.
SubtractUnclamped(l) ==
  /\ main = "unclamped"
  /\ \E diverged \in Verdicts(l) :
       /\ AddToGradients(<<"unclamped", idx>>, 1, diverged)
       /\ AddToValue(<<"unclamped", idx>>, 1, KindNegated(DistanceKind(diverged)))
  /\ idx' = NextPair(value'.kind)
  /\ EndSums("loop")
  /\ UNCHANGED <<variant, hasPath, calls, pairCalls, excluded, clampedDiverged>>

\* Fault: the first evaluation and the later ones are mixed up.
UnclampedLimitSwapped == IF calls > 1 THEN "none" ELSE limit

\* In the first evaluation there is no limit.
UnclampedLimit == IF calls = 1 THEN "none" ELSE limit

SumUnclamped == SubtractUnclamped(UnclampedLimit) /\ limit' = limit

\* With a third variable it is 10^8 ms for the first pair ever, and the time
\* that this sum takes determines the limit of the later ones.
OtherLimit == IF pairCalls = 0 THEN "finite" ELSE limit
SumOtherUnclamped == SubtractUnclamped(OtherLimit) /\ limit' = OtherLimit

\* The loop is over; with a third variable the limit is lifted for good after
\* the first one.
EndLoop(total) ==
  /\ main = "loop" /\ idx = N
  /\ BeginSum(total)
  /\ UNCHANGED <<variant, hasPath, calls, pairCalls, idx, value, gradients, excluded,
                 clampedDiverged>>

EndPairs(total) == EndLoop(total) /\ limit' = limit
EndOtherPairs == EndLoop("lengths") /\ limit' = IF calls = 1 THEN "none" ELSE limit

\* The number of pairs that the model sum is multiplied by, or that the mean
\* length is taken of.
Used == N - Cardinality(excluded)

ModelLimit == IF calls = 1 THEN "finite" ELSE limit
SumModel ==
  /\ main = "model"
  /\ \E diverged \in Verdicts(ModelLimit) :
       /\ AddToGradients(Model, Used, diverged)
       /\ AddToValue(Model, Used, KindNegated(DistanceKind(diverged)))
  /\ EndSums("finish")
  /\ UNCHANGED <<variant, hasPath, calls, pairCalls, limit, idx, excluded, clampedDiverged>>

\* What the lengths cost: an infinite expected length costs infinitely much.
LengthPenalty(diverged) == IF diverged THEN "pinf" ELSE "fin"

\* AddLengthRegularization, which resets the gradients if it diverges.
SumLengths ==
  /\ main = "lengths"
  /\ \E diverged \in Verdicts(limit) :
       /\ AddToGradients(Lengths, Used, diverged)
       /\ AddToValue(Lengths, Used, LengthPenalty(diverged))
  /\ EndSums("finish")
  /\ UNCHANGED <<variant, hasPath, calls, pairCalls, limit, idx, excluded, clampedDiverged>>

\* A divergent FST is called convergent when the limit of its sum is reached, and
\* summed again without a limit.
SumLimit ==
  CASE main = "unclamped" -> IF variant = "condother" THEN OtherLimit ELSE UnclampedLimit
    [] main = "model" -> ModelLimit
    [] OTHER -> limit
RerunForEver ==
  /\ main \in {"clamped", "unclamped", "model", "lengths"}
  /\ diverges /\ SumLimit # "none"
  /\ main' = "rerun"
  /\ UNCHANGED <<variant, hasPath, calls, pairCalls, limit, idx, diverges, value, gradients,
                 excluded, clampedDiverged>>

PositiveInfinity(kind) == kind = "pinf"

\* The value is positive infinity: it becomes 1 and the gradients stay.
FinishDivergent ==
  /\ main = "finish" /\ PositiveInfinity(value.kind)
  /\ value' = [value EXCEPT !.kind = "one"]
  /\ main' = "idle"
  /\ UNCHANGED <<variant, hasPath, calls, pairCalls, limit, idx, diverges, gradients, excluded,
                 clampedDiverged>>

\* SquashFunction, as in ParallelObjective.
FinishSquashed ==
  /\ main = "finish" /\ ~ PositiveInfinity(value.kind)
  /\ value' = [value EXCEPT !.kind = IF @ = "fin" THEN "squashed" ELSE "nan"]
  /\ gradients' = CASE value.kind = "fin" -> gradients
                    [] value.kind = "nan" -> Nans
                    [] OTHER -> NoTerms
  /\ main' = "idle"
  /\ UNCHANGED <<variant, hasPath, calls, pairCalls, limit, idx, diverges, excluded,
                 clampedDiverged>>

\* ComputeGradientsAndFunctionValue of each class.
Joint ==
  /\ variant = "joint"
  /\ \/ Begin \/ SkipExcluded \/ StartPair \/ SumClampedOnly \/ NoPaths
     \/ EndPairs("model") \/ SumModel \/ FinishDivergent \/ FinishSquashed

Lenmatch ==
  /\ variant = "lenmatch"
  /\ \/ Begin \/ SkipExcluded \/ StartPair \/ SumClamped \/ NoPaths \/ SumUnclamped
     \/ EndPairs("lengths") \/ SumLengths \/ FinishDivergent \/ FinishSquashed

Condother ==
  /\ variant = "condother"
  /\ \/ Begin \/ SkipExcluded \/ StartOtherPair \/ SumClamped \/ NoPaths \/ SumOtherUnclamped
     \/ EndOtherPairs \/ SumLengths \/ FinishDivergent \/ FinishSquashed

Compute == Joint \/ Lenmatch \/ Condother \/ RerunForEver

Next == (\E l \in Limits : SetTimelimit(l)) \/ Compute

Spec == Init /\ [][Next]_vars

\* The only thread goes on with what it has begun; a sum that never ends has no
\* step to take.
FairSpec == Spec /\ WF_vars(main # "idle" /\ Compute)

-----------------------------------------------------------------------------

\* What value and gradients are made of if every sum converged.
FullTerms ==
  LET once(t) == \/ t = Reg
                 \/ t[1] = "clamped" /\ t[2] \in hasPath
                 \/ t[1] = "unclamped" /\ t[2] \in hasPath /\ variant # "joint"
      total(t) == t = IF variant = "joint" THEN Model ELSE Lengths
  IN  [t \in Terms |-> IF once(t) THEN 1 ELSE IF total(t) THEN Cardinality(hasPath) ELSE 0]

\* A finite value, and the gradients that come with it, are made of every pair
\* that has a path, once and with both its sides, and of no other; the factor
\* of the model sum and the mean length count the same pairs.
CompleteWhenFinite ==
  value.kind = "squashed" =>
    excluded = Pairs \ hasPath /\ value.terms = FullTerms /\ gradients = FullTerms

\* Gradients that come with an infinite value contain nothing of the pairs nor
\* of the regulariser: what was reset is not half restored by later pairs.
InfiniteValueForgetsPairs ==
  value.kind = "one" => \A t \in Terms \ {Lengths} : gradients[t] = 0

\* Unless a clamped sum was found to diverge the optimiser gets a number, and
\* never a mixture of infinities.
NumberUnlessClampedDiverges ==
  calls > 0 /\ ~ clampedDiverged => value.kind \in {"squashed", "one"}

\* What the optimiser gets is complete, or plainly infinite.  This holds after
\* every evaluation, whatever an earlier one that was cut short has excluded.
CompleteOrInfinite ==
  main = "idle" => CompleteWhenFinite /\ InfiniteValueForgetsPairs /\ NumberUnlessClampedDiverges

\* From the second evaluation on, if there is a limit, every evaluation returns
\* although any FST in it may be divergent - unless the convergence test calls a
\* divergent FST convergent.
LimitedEvaluationReturns ==
  main # "idle" /\ calls > 1 /\ limit = "finite" ~> main \in {"idle", "rerun"}
=============================================================================
