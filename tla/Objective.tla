----------------------------- MODULE Objective -----------------------------
(***************************************************************************)
(* What one evaluation of the conditional objective function promises its  *)
(* caller, without threads: the value and the gradients it leaves depend   *)
(* only on what happened to each training pair                             *)
(* (train/obj-func-fst-conditional.cc, train/obj-func-fst.cc).             *)
(***************************************************************************)
EXTENDS Integers, ExtendedReals

CONSTANT N                 \* the number of training pairs

Pairs == 0 .. N - 1
Sides == {"clamped", "unclamped"}

\* What can happen to a pair: it has no path and is ignored; it is skipped
\* because the evaluation was cut short; or each of its sums converges or not.
Ignored == [status |-> "ignored"]
Skipped == [status |-> "skipped"]
Sums == [status : {"summed"}, clamped : BOOLEAN, unclamped : BOOLEAN]  \* TRUE: diverges
Outcomes == Sums \cup {Ignored, Skipped}
Summed(o) == o.status = "summed"

\* The terms that a value and a gradient vector are sums of.
Reg == -1
ValueTerms == {Reg} \cup Pairs
GradientTerms == {<<Reg, "regulariser">>} \cup (Pairs \X Sides)
NoValueTerms == [t \in ValueTerms |-> 0]
NoTerms == [t \in GradientTerms |-> 0]
Nans == [t \in GradientTerms |-> -1]    \* what a vector of NaNs is written as

\* The kind of clamped_result - unclamped_result.
PairKind(o) == KindSum(DistanceKind(o.clamped), KindNegated(DistanceKind(o.unclamped)))

Kind(outcome) ==
  LET Has(k) == \E p \in Pairs : Summed(outcome[p]) /\ PairKind(outcome[p]) = k
  IN  IF Has("nan") \/ (Has("pinf") /\ Has("ninf")) THEN "nan"
      ELSE IF Has("pinf") THEN "pinf"
      ELSE IF Has("ninf") THEN "ninf"
      ELSE "fin"

\* With only convergent sums, every pair that was not ignored is in the value
\* and on both sides in the gradients, exactly once, and so is the regulariser.
FullValue(outcome) ==
  [t \in ValueTerms |-> IF t = Reg \/ Summed(outcome[t]) THEN 1 ELSE 0]
FullGradients(outcome) ==
  [t \in GradientTerms |-> IF t[1] = Reg \/ Summed(outcome[t[1]]) THEN 1 ELSE 0]

\* A divergent evaluation returns the value 1 and the gradient 0.  Where the
\* clamped sum of a pair diverges, the sum is -infinity or not a number, and
\* SquashFunction makes that a value that is not a number.
Result(kind, terms, grads) ==
  [status |-> "done", value |-> kind, terms |-> terms, gradients |-> grads]
ResultOf(outcome) ==
  CASE Kind(outcome) = "fin"  -> Result("squashed", FullValue(outcome), FullGradients(outcome))
    [] Kind(outcome) = "pinf" -> Result("one", NoValueTerms, NoTerms)
    [] Kind(outcome) = "ninf" -> Result("nan", NoValueTerms, NoTerms)
    [] Kind(outcome) = "nan"  -> Result("nan", NoValueTerms, Nans)

VARIABLE result
Busy == [status |-> "busy"]
Initial == [status |-> "initial"]

Init == result = Initial

Begin == result # Busy /\ result' = Busy

\* A pair is skipped only if the sum of another one diverged.
End ==
  /\ result = Busy
  /\ result'.status = "done"
  /\ \E outcome \in [Pairs -> Outcomes] :
       /\ (\E p \in Pairs : outcome[p] = Skipped) =>
            \E p \in Pairs : Summed(outcome[p]) /\ PairKind(outcome[p]) = "pinf"
       /\ result' = ResultOf(outcome)

Next == Begin \/ End

Spec == Init /\ [][Next]_result
=============================================================================
