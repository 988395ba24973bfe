-------------------------- MODULE ExpectationSums --------------------------
(***************************************************************************)
(* What the sums over the paths of an FST are used for: the expected       *)
(* counts of the features (GetFeatureMDExpectations, from sums of plain    *)
(* weights) and the gradients that pull the expected lengths of the        *)
(* strings towards the empirical ones (AddLengthRegularization in          *)
(* train/lenmatch.h, from sums of expectation weights).  The arcs have the *)
(* weights of PathSums, set by SetFeatures as the products of the feature  *)
(* weights.                                                                *)
(*                                                                         *)
(* The expected counts and the gradients are fractions of powers of the    *)
(* total and of the length variance; the numerators are modelled.          *)
(***************************************************************************)
EXTENDS PathSums, ExpectationSemiring

CONSTANTS
  IArcs, OArcs,       \* the arcs with an input label, and with an output label
  EmpiricalLength     \* the length of the given input and output strings

ASSUME ArcsAssumption ==
  IArcs \subseteq Arcs /\ OArcs \subseteq Arcs /\ EmpiricalLength \in Nat

-----------------------------------------------------------------------------
(* Features: each arc has one of its own, whose weight makes the arc's, and *)
(* they share one with weight 0, which fires once or more.                  *)

Shared == 0
Own(a) == 1 + a[1] * NumStates + a[2]
Features == {Shared} \cup {Own(a) : a \in Arcs}
Fires(a, f) == IF f = Own(a) THEN 1 ELSE IF f = Shared THEN a[2] - a[1] ELSE 0

\* The arcs of the model when its features have been inserted, and after their
\* weights have been set in one session, the FST has been saved and read again
\* and weights have been set in another.
NewArc(a) == Weight(1, [f \in {f \in Features : Fires(a, f) # 0} |-> NeglogNum(Fires(a, f), TRUE)])
FeatureArc(a) ==
  LET theta(x) == [f \in Features |-> IF f = Own(a) THEN x ELSE 1]
  IN SetFeatures(Read(Written(SetFeatures(NewArc(a), theta(3)))), theta(weight[a]))

LiveArcs == {a \in Arcs : weight[a] # 0}

\* GetFeatureMDExpectations: feat_expectations.
ArcExpectation(a, f) ==
  IF Get(betas, a[2]) = 0 \/ f \notin DOMAIN FeatureArc(a).e THEN PlusZero
  ELSE NeglogTimes(NeglogTimes(NeglogNum(Get(alphas, a[1]), TRUE), FeatureArc(a).e[f]),
                   NeglogNum(Get(betas, a[2]), TRUE))
FeatExpectation(f) ==
  GetOrigNum(FoldSet(LAMBDA a, sum : NeglogPlus(sum, ArcExpectation(a, f)), PlusZero, LiveArcs))

-----------------------------------------------------------------------------
(* The lengths.                                                             *)

LENGTH_X == 0
LENGTH_Y == 1

\* LengthFeatMapper_XY
LengthArc(a) ==
  Weight(weight[a], [l \in {l \in {LENGTH_X, LENGTH_Y} : a \in IF l = LENGTH_X THEN IArcs ELSE OArcs}
                       |-> NeglogNum(weight[a], TRUE)])

\* The sums, as SumsExact shows that they are made, of expectation weights.
LengthAlphas ==
  LET sum[n \in States] ==
        IF n = 0 THEN WeightOne
        ELSE FoldSet(LAMBDA a, w : Plus(w, Times(sum[a[1]], LengthArc(a))), WeightZero,
                     {a \in LiveArcs : a[2] = n})
  IN [n \in States |-> sum[n]]
LengthBetas ==
  LET sum[n \in States] ==
        FoldSet(LAMBDA a, w : Plus(w, Times(sum[a[2]], LengthArc(a))),
                Weight(final[n], WeightOne.e), {a \in LiveArcs : a[1] = n})
  IN [n \in States |-> sum[n]]

\* What AddLengthRegularization takes off the gradient of feature f, times the
\* third power of the total and the variance.
LengthGradient(f) ==
  LET as == LengthAlphas
      bs == LengthBetas
      total == bs[0].value
      expected(l) == Expected(bs[0], l)
      through(a) == Times(Times(as[a[1]], LengthArc(a)), bs[a[2]])
      term(a, l) == Fires(a, f) * (Expected(through(a), l) * total - through(a).value * expected(l))
                      * (expected(l) - EmpiricalLength * total)
      arcs == {a \in LiveArcs : as[a[1]].value # 0 /\ bs[a[2]].value # 0 /\ Fires(a, f) # 0}
  IN MapThenSumSet(LAMBDA l : MapThenSumSet(LAMBDA a : term(a, l), arcs), {LENGTH_X, LENGTH_Y})

-----------------------------------------------------------------------------
\* Reference definitions, over the paths.

FiresOn(p, f) == MapThenSumSet(LAMBDA a : Fires(a, f), ArcsOf(p))
LengthOf(p, l) == Cardinality(ArcsOf(p) \cap IF l = LENGTH_X THEN IArcs ELSE OArcs)
SumOf(value(_)) == MapThenSumSet(LAMBDA p : Accepted(p) * value(p), PathsFrom(0))

\* The expected counts are those of a model in which each path has its own
\* probability; and the gradients of the length penalties are the products of
\* the covariance of a feature's count and a length with the amount by which the
\* expected length is wrong.
ExpectationsExact ==
  pc = "done" /\ ~ matrix /\ SumFrom(0) # 0 =>
    \A f \in Features :
      /\ FeatExpectation(f) = SumOf(LAMBDA p : FiresOn(p, f))
      /\ LengthGradient(f) =
           LET total == SumFrom(0)
               lengths(l) == SumOf(LAMBDA p : LengthOf(p, l))
               covariance(l) ==
                 SumOf(LAMBDA p : FiresOn(p, f) * (LengthOf(p, l) * total - lengths(l)))
           IN MapThenSumSet(LAMBDA l : covariance(l) * (lengths(l) - EmpiricalLength * total),
                            {LENGTH_X, LENGTH_Y})
=============================================================================
