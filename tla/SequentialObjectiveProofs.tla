--------------------- MODULE SequentialObjectiveProofs ---------------------
(***************************************************************************)
(* What the sequential objective functions hand to the optimiser is        *)
(* complete or plainly infinite, for any number of pairs and evaluations.  *)
(*                                                                         *)
(* As long as the value is finite no sum has diverged, and then value and  *)
(* gradients are made of the same terms: those of the pairs with a path    *)
(* that the loop has passed.  The value can become positive infinity only  *)
(* in a step that resets the gradients, and the loop over the pairs ends   *)
(* with that step; negative infinity comes from clamped sums only.         *)
(***************************************************************************)
EXTENDS SequentialObjective, FiniteSetTheorems, TLAPS

\* Where the loop is, and which sums each class has.
Places ==
  /\ main # "idle" => calls > 0
  /\ main \in {"clamped", "unclamped"} => idx \in Pairs
  /\ main \in {"model", "lengths", "finish"} => idx = N
  /\ main = "model" => variant = "joint"
  /\ main \in {"unclamped", "lengths"} => variant # "joint"

\* A term that is still to be added is in no sum yet.
Fresh(terms) ==
  /\ terms \in [Terms -> 0 .. N + 1]
  /\ \A p \in Pairs : idx < p \/ (idx = p /\ main # "unclamped") => terms[<<"clamped", p>>] = 0
  /\ \A p \in Pairs : idx <= p => terms[<<"unclamped", p>>] = 0
  /\ main # "finish" => terms[Model] = 0 /\ terms[Lengths] = 0

\* The loop is through with the clamped sum, or with both sums, of pair p.
ClampedPassed(p) == p < idx \/ (p = idx /\ main = "unclamped")
Passed(p) == p < idx

Times(cond, n) == IF cond THEN n ELSE 0

\* The terms are those of the pairs with a path that the loop has passed.
Exact(terms) ==
  /\ terms[Reg] = 1
  /\ \A p \in Pairs :
       /\ terms[<<"clamped", p>>] = Times(p \in hasPath /\ ClampedPassed(p), 1)
       /\ terms[<<"unclamped", p>>] = Times(p \in hasPath /\ variant # "joint" /\ Passed(p), 1)
  /\ terms[Model] = Times(main = "finish" /\ variant = "joint", Used)
  /\ terms[Lengths] = Times(main = "finish" /\ variant # "joint", Used)

\* A finite value has seen no divergence.
FiniteIsExact ==
  value.kind = "fin" =>
    /\ gradients = value.terms /\ Exact(value.terms)
    /\ \A p \in Pairs : p < idx => p \in hasPath \cup excluded
    /\ main = "unclamped" => idx \in hasPath

\* The value cannot become infinite without the gradients being reset.
InfiniteIsReset ==
  value.kind = "pinf" =>
    /\ idx = N /\ main \notin {"clamped", "unclamped"}
    /\ variant = "joint" => main = "finish"
    /\ \A t \in Terms \ {Lengths} : gradients[t] = 0

\* Only a clamped sum makes the value negative infinity, or no number.
ClampedToBlame == value.kind \in {"ninf", "nan"} => clampedDiverged

\* All of it while an evaluation is under way and may still return.
Evaluating ==
  main \notin {"idle", "rerun"} =>
    /\ value.kind \in Kinds
    /\ Fresh(value.terms) /\ Fresh(gradients)
    /\ FiniteIsExact /\ InfiniteIsReset /\ ClampedToBlame

\* Only pairs without a path are ever excluded.
ExcludedRightly == excluded \subseteq Pairs \ hasPath

IInv == TypeOK /\ Places /\ ExcludedRightly /\ Evaluating /\ CompleteOrInfinite

-----------------------------------------------------------------------------
(* Terms and numbers.                                                      *)

LEMMA TermsApart ==
  /\ Reg \in Terms /\ Model \in Terms /\ Lengths \in Terms
  /\ Reg # Model /\ Reg # Lengths /\ Model # Lengths
  /\ \A p \in Pairs :
       /\ <<"clamped", p>> \in Terms /\ <<"unclamped", p>> \in Terms
       /\ <<"clamped", p>> \notin {Reg, Model, Lengths}
       /\ <<"unclamped", p>> \notin {Reg, Model, Lengths}
  /\ \A p, q \in Pairs :
       /\ <<"clamped", p>> # <<"unclamped", q>>
       /\ p # q => <<"clamped", p>> # <<"clamped", q>> /\ <<"unclamped", p>> # <<"unclamped", q>>
  BY DEF Terms, Reg, Model, Lengths

LEMMA AllTerms ==
  ASSUME NEW t \in Terms
  PROVE  \/ t \in {Reg, Model, Lengths}
         \/ \E p \in Pairs : t = <<"clamped", p>> \/ t = <<"unclamped", p>>
  BY DEF Terms

LEMMA PairsFinite ==
  /\ N \in Nat
  /\ IsFiniteSet(Pairs) /\ Cardinality(Pairs) = N
<1>1. N \in Nat
  BY ConstantsAssumption
<1>2. 0 \in Int /\ N - 1 \in Int
  BY <1>1
<1>3. IsFiniteSet(0 .. N - 1) /\ Cardinality(0 .. N - 1) = IF 0 > N - 1 THEN 0 ELSE N - 1 - 0 + 1
  BY <1>2, FS_Interval
<1> QED BY <1>1, <1>3 DEF Pairs

LEMMA UsedType ==
  ASSUME excluded \subseteq Pairs
  PROVE  Used \in 0 .. N
<1>1. IsFiniteSet(excluded) /\ Cardinality(excluded) <= N
  BY PairsFinite, FS_Subset
<1>2. Cardinality(excluded) \in Nat
  BY <1>1, FS_CardinalityType
<1> QED BY <1>1, <1>2, PairsFinite DEF Used

LEMMA UsedArePaths ==
  ASSUME hasPath \subseteq Pairs, excluded = Pairs \ hasPath
  PROVE  Used = Cardinality(hasPath)
<1>1. IsFiniteSet(hasPath)
  BY PairsFinite, FS_Subset
<1>2. Cardinality(hasPath) \in Nat
  BY <1>1, FS_CardinalityType
<1>3. Pairs \cap hasPath = hasPath
  OBVIOUS
<1>4. Cardinality(Pairs \ hasPath) = Cardinality(Pairs) - Cardinality(Pairs \cap hasPath)
  BY PairsFinite, FS_Difference
<1>5. Cardinality(excluded) = N - Cardinality(hasPath)
  BY <1>3, <1>4, PairsFinite
<1> QED BY <1>2, <1>5, PairsFinite DEF Used

\* Adding a term that is not there yet stays within the bound of the sums.
LEMMA TermAdded ==
  ASSUME NEW terms \in [Terms -> 0 .. N + 1], NEW t \in Terms, NEW n \in 0 .. N + 1, terms[t] = 0
  PROVE  LET sum == [terms EXCEPT ![t] = @ + n]
         IN  /\ sum \in [Terms -> 0 .. N + 1] /\ sum[t] = n
             /\ \A x \in Terms : x # t => sum[x] = terms[x]
  BY PairsFinite

LEMMA NoTermsType ==
  /\ NoTerms \in [Terms -> 0 .. N + 1]
  /\ \A t \in Terms : NoTerms[t] = 0
  BY PairsFinite DEF NoTerms

\* What the sums hold after a term was added to them.
LEMMA SumsAdded ==
  ASSUME IInv, main \notin {"idle", "rerun"}, NEW t \in Terms, NEW n \in 0 .. N + 1, NEW d \in BOOLEAN, NEW k \in Kinds,
         value.terms[t] = 0, gradients[t] = 0,
         AddToGradients(t, n, d), AddToValue(t, n, k)
  PROVE  /\ value' = [kind |-> KindSum(value.kind, k), terms |-> value'.terms]
         /\ value'.kind = KindSum(value.kind, k) /\ value'.kind \in Kinds
         /\ value'.terms \in [Terms -> 0 .. N + 1]
         /\ value'.terms[t] = n
         /\ \A x \in Terms : x # t => value'.terms[x] = value.terms[x]
         /\ gradients' \in [Terms -> 0 .. N + 1]
         /\ \A x \in Terms : gradients'[x] = 0 \/ (x # t /\ gradients'[x] = gradients[x]) \/ (x = t /\ ~ d)
         /\ d => \A x \in Terms : gradients'[x] = 0
         /\ ~ d /\ gradients = value.terms => gradients' = value'.terms
<1>1. value.kind \in Kinds /\ value.terms \in [Terms -> 0 .. N + 1] /\ gradients \in [Terms -> 0 .. N + 1]
  BY DEF IInv, Evaluating, Fresh
<1>2. value' = [kind |-> KindSum(value.kind, k), terms |-> [value.terms EXCEPT ![t] = @ + n]]
  BY DEF AddToValue
<1>3. gradients' = IF d THEN NoTerms ELSE [gradients EXCEPT ![t] = @ + n]
  BY DEF AddToGradients
<1>4. KindSum(value.kind, k) \in Kinds
  BY <1>1 DEF KindSum, Kinds
<1>5. LET sum == [value.terms EXCEPT ![t] = @ + n]
      IN  /\ sum \in [Terms -> 0 .. N + 1] /\ sum[t] = n
          /\ \A x \in Terms : x # t => sum[x] = value.terms[x]
  BY ONLY <1>1, TermAdded, t \in Terms, n \in 0 .. N + 1, value.terms[t] = 0
<1>6. LET sum == [gradients EXCEPT ![t] = @ + n]
      IN  /\ sum \in [Terms -> 0 .. N + 1] /\ sum[t] = n
          /\ \A x \in Terms : x # t => sum[x] = gradients[x]
  BY ONLY <1>1, TermAdded, t \in Terms, n \in 0 .. N + 1, gradients[t] = 0
<1>7. /\ value'.kind = KindSum(value.kind, k)
      /\ value'.terms = [value.terms EXCEPT ![t] = @ + n]
      /\ value' = [kind |-> KindSum(value.kind, k), terms |-> value'.terms]
  BY ONLY <1>2
<1>8. /\ value'.terms \in [Terms -> 0 .. N + 1]
      /\ value'.terms[t] = n
      /\ \A x \in Terms : x # t => value'.terms[x] = value.terms[x]
  BY ONLY <1>5, <1>7
<1>9. CASE d
  <2>1. gradients' = NoTerms
    BY <1>3, <1>9
  <2> QED BY ONLY <1>4, <1>7, <1>8, <1>9, <2>1, NoTermsType
<1>10. CASE ~ d
  <2>1. gradients' = [gradients EXCEPT ![t] = @ + n]
    BY <1>3, <1>10
  <2>2. /\ gradients' \in [Terms -> 0 .. N + 1]
        /\ \A x \in Terms : gradients'[x] = 0 \/ (x # t /\ gradients'[x] = gradients[x]) \/ (x = t /\ ~ d)
    BY ONLY <1>6, <1>10, <2>1
  <2>3. gradients = value.terms => gradients' = value'.terms
    BY ONLY <1>7, <2>1
  <2> QED BY ONLY <1>4, <1>7, <1>8, <1>10, <2>2, <2>3
<1> QED BY <1>9, <1>10

\* The types that the sums do not change.
LEMMA VerdictType ==
  ASSUME NEW l, NEW d \in Verdicts(l)
  PROVE  d \in BOOLEAN
  BY DEF Verdicts

-----------------------------------------------------------------------------
(* The steps.                                                              *)

LEMMA InitIInv == Init => IInv
<1> SUFFICES ASSUME Init PROVE IInv
  OBVIOUS
<1>1. TypeOK
  <2>1. gradients \in [Terms -> -1 .. N + 1]
    BY PairsFinite, NoTermsType DEF Init
  <2>2. value \in [kind : Kinds \cup {"one", "squashed"}, terms : [Terms -> 0 .. N + 1]]
    BY NoTermsType DEF Init, Kinds
  <2>3. calls \in 0 .. MaxCalls /\ pairCalls \in -1 .. 1 /\ idx \in 0 .. N
    BY ConstantsAssumption DEF Init
  <2> QED BY <2>1, <2>2, <2>3 DEF Init, TypeOK, Limits
<1> QED BY <1>1 DEF Init, IInv, Places, ExcludedRightly, Evaluating, CompleteOrInfinite,
       CompleteWhenFinite, InfiniteValueForgetsPairs, NumberUnlessClampedDiverges

LEMMA SetTimelimitStep == IInv /\ (\E l \in Limits : SetTimelimit(l)) => IInv'
  BY DEF IInv, SetTimelimit, TypeOK, Places, ExcludedRightly, Evaluating, CompleteOrInfinite,
       CompleteWhenFinite, InfiniteValueForgetsPairs, NumberUnlessClampedDiverges, FullTerms

LEMMA BeginStep == IInv /\ Begin => IInv'
<1> SUFFICES ASSUME IInv, Begin PROVE IInv'
  OBVIOUS
<1> DEFINE terms == [NoTerms EXCEPT ![Reg] = 1]
<1>1. /\ main' = "loop" /\ calls' = calls + 1 /\ idx' = 0 /\ clampedDiverged' = FALSE
      /\ value' = [kind |-> "fin", terms |-> terms] /\ gradients' = terms
      /\ UNCHANGED <<variant, hasPath, pairCalls, limit, diverges, excluded>>
      /\ calls < MaxCalls
  BY DEF Begin
<1>2. terms \in [Terms -> 0 .. N + 1] /\ terms[Reg] = 1 /\ \A x \in Terms : x # Reg => terms[x] = 0
  BY NoTermsType, TermsApart, PairsFinite
<1> HIDE DEF terms
<1>3. TypeOK'
  <2>1. gradients' \in [Terms -> -1 .. N + 1]
    BY <1>1, <1>2, PairsFinite
  <2>2. value' \in [kind : Kinds \cup {"one", "squashed"}, terms : [Terms -> 0 .. N + 1]]
    BY <1>1, <1>2 DEF Kinds
  <2>3. calls' \in 0 .. MaxCalls /\ idx' \in 0 .. N
    BY <1>1, ConstantsAssumption DEF IInv, TypeOK
  <2> QED BY <1>1, <2>1, <2>2, <2>3 DEF IInv, TypeOK
<1>4. Places'
  BY <1>1 DEF IInv, TypeOK, Places
<1>5. Evaluating'
  <2>1. Fresh(value.terms)' /\ Fresh(gradients)'
    BY <1>1, <1>2, TermsApart DEF Fresh
  <2>2. FiniteIsExact'
    <3>1. Exact(value.terms)'
      BY <1>1, <1>2, TermsApart DEF Exact, Times, ClampedPassed, Passed, Pairs
    <3> QED BY <1>1, <3>1 DEF FiniteIsExact, Pairs
  <2> QED BY <1>1, <2>1, <2>2 DEF Evaluating, InfiniteIsReset, ClampedToBlame, Kinds
<1> QED BY <1>1, <1>3, <1>4, <1>5 DEF IInv, ExcludedRightly, CompleteOrInfinite
LEMMA SkipExcludedStep == IInv /\ SkipExcluded => IInv'
<1> SUFFICES ASSUME IInv, SkipExcluded PROVE IInv'
  OBVIOUS
<1>1. /\ main = "loop" /\ main' = "loop" /\ idx \in excluded /\ idx' = idx + 1
      /\ UNCHANGED <<variant, hasPath, calls, pairCalls, limit, diverges, value, gradients,
                     excluded, clampedDiverged>>
  BY DEF SkipExcluded
<1>2. idx \in Pairs /\ idx \notin hasPath /\ N \in Nat /\ idx \in Int
  BY <1>1, PairsFinite DEF IInv, ExcludedRightly, TypeOK, Pairs
<1>3. TypeOK' /\ Places'
  BY <1>1, <1>2 DEF IInv, TypeOK, Places, Pairs
<1>4. Evaluating'
  <2>1. \A p \in Pairs : idx' < p => idx < p
    BY <1>1, <1>2 DEF Pairs
  <2>2. \A p \in Pairs : idx' <= p => idx < p /\ idx <= p
    BY <1>1, <1>2 DEF Pairs
  <2>3. \A p \in Pairs : p < idx' <=> p < idx \/ p = idx
    BY <1>1, <1>2 DEF Pairs
  <2>4. Fresh(value.terms)' /\ Fresh(gradients)'
    BY <1>1, <2>1, <2>2 DEF IInv, Evaluating, Fresh
  <2>5. ASSUME value.kind = "fin" PROVE Exact(value.terms)'
    <3>1. Exact(value.terms)
      BY <1>1, <2>5 DEF IInv, Evaluating, FiniteIsExact
    <3> QED BY <1>1, <1>2, <2>3, <3>1 DEF Exact, Times, ClampedPassed, Passed
  <2>6. FiniteIsExact'
    BY <1>1, <2>3, <2>5 DEF IInv, Evaluating, FiniteIsExact
  <2>7. InfiniteIsReset'
    BY <1>1, <1>2 DEF IInv, Evaluating, InfiniteIsReset, Pairs
  <2> QED BY <1>1, <2>4, <2>6, <2>7 DEF IInv, Evaluating, ClampedToBlame
<1> QED BY <1>1, <1>3, <1>4 DEF IInv, ExcludedRightly, CompleteOrInfinite

LEMMA OpenPairStep == IInv /\ OpenPair /\ pairCalls' \in -1 .. 1 => IInv'
<1> SUFFICES ASSUME IInv, OpenPair, pairCalls' \in -1 .. 1 PROVE IInv'
  OBVIOUS
<1>1. /\ main = "loop" /\ main' = "clamped" /\ idx \in Pairs /\ diverges' \in BOOLEAN
      /\ UNCHANGED <<variant, hasPath, calls, limit, idx, value, gradients, excluded, clampedDiverged>>
  BY DEF OpenPair, BeginSum
<1>2. TypeOK' /\ Places'
  BY <1>1 DEF IInv, TypeOK, Places
<1>3. value.kind # "pinf" /\ idx # N
  BY <1>1, PairsFinite DEF IInv, Evaluating, InfiniteIsReset, Pairs
<1>4. Evaluating'
  <2>1. Fresh(value.terms)' /\ Fresh(gradients)'
    BY <1>1 DEF IInv, Evaluating, Fresh
  <2>2. FiniteIsExact'
    BY <1>1 DEF IInv, Evaluating, FiniteIsExact, Exact, Times, ClampedPassed, Passed
  <2> QED BY <1>1, <1>3, <2>1, <2>2 DEF IInv, Evaluating, InfiniteIsReset, ClampedToBlame
<1> QED BY <1>1, <1>2, <1>4 DEF IInv, ExcludedRightly, CompleteOrInfinite

LEMMA AddClampedStep ==
  ASSUME IInv, AddClamped, diverges' \in BOOLEAN,
         \/ main' = "unclamped" /\ idx' = idx /\ variant # "joint"
         \/ main' = "loop" /\ idx' = idx + 1 /\ variant = "joint"
  PROVE  IInv'
<1> DEFINE t == <<"clamped", idx>>
<1>1. PICK d \in Verdicts(limit) :
        /\ d \/ idx \in hasPath
        /\ AddToGradients(t, 1, d) /\ AddToValue(t, 1, DistanceKind(d))
        /\ clampedDiverged' = (clampedDiverged \/ d)
  BY DEF AddClamped
<1>2. /\ main = "clamped"
      /\ UNCHANGED <<variant, hasPath, calls, pairCalls, limit, excluded>>
  BY DEF AddClamped
<1>3. idx \in Pairs /\ N \in Nat /\ idx \in Int /\ t \in Terms /\ d \in BOOLEAN /\ 1 \in 0 .. N + 1
  <2>1. idx \in Pairs /\ N \in Nat
    BY <1>2, PairsFinite DEF IInv, Places
  <2>2. t \in Terms
    BY <2>1, TermsApart
  <2>3. d \in BOOLEAN
    BY <1>1, VerdictType
  <2> HIDE DEF t
  <2> QED BY <2>1, <2>2, <2>3 DEF Pairs
<1>4. value.terms[t] = 0 /\ gradients[t] = 0
  BY <1>2, <1>3 DEF IInv, Evaluating, Fresh
<1>5. DistanceKind(d) \in Kinds
  BY DEF DistanceKind, Kinds
<1>6. /\ value' = [kind |-> KindSum(value.kind, DistanceKind(d)), terms |-> value'.terms]
      /\ value'.kind = KindSum(value.kind, DistanceKind(d)) /\ value'.kind \in Kinds
      /\ value'.terms \in [Terms -> 0 .. N + 1]
      /\ value'.terms[t] = 1
      /\ \A x \in Terms : x # t => value'.terms[x] = value.terms[x]
      /\ gradients' \in [Terms -> 0 .. N + 1]
      /\ \A x \in Terms : gradients'[x] = 0 \/ (x # t /\ gradients'[x] = gradients[x]) \/ (x = t /\ ~ d)
      /\ ~ d /\ gradients = value.terms => gradients' = value'.terms
  <2> HIDE DEF t
  <2> QED BY <1>1, <1>2, <1>3, <1>4, <1>5, SumsAdded
<1>7. value.kind \in Kinds /\ value.kind # "pinf"
  BY <1>2 DEF IInv, Evaluating, InfiniteIsReset
<1>8. \A p \in Pairs : /\ <<"unclamped", p>> # t
                       /\ p # idx => <<"clamped", p>> # t
  BY <1>3, TermsApart
<1>9. Reg # t /\ Model # t /\ Lengths # t
  BY <1>3, TermsApart
<1> HIDE DEF t
<1>10. TypeOK'
  <2>1. gradients' \in [Terms -> -1 .. N + 1]
    BY <1>3, <1>6
  <2>2. value' \in [kind : Kinds \cup {"one", "squashed"}, terms : [Terms -> 0 .. N + 1]]
    BY <1>6
  <2>3. idx' \in 0 .. N
    BY <1>3 DEF Pairs
  <2> QED BY <1>1, <1>2, <1>3, <2>1, <2>2, <2>3 DEF IInv, TypeOK
<1>11. Places'
  BY <1>2, <1>3 DEF IInv, TypeOK, Places
<1>12. /\ \A p \in Pairs : idx' < p \/ (idx' = p /\ main' # "unclamped") => idx < p
       /\ \A p \in Pairs : idx' <= p => idx <= p
       /\ \A p \in Pairs : idx < p => p # idx
  BY <1>3 DEF Pairs
<1>13. Fresh(value.terms)'
  BY <1>2, <1>6, <1>8, <1>9, <1>12, TermsApart DEF IInv, Evaluating, Fresh
<1>14. Fresh(gradients)'
  BY <1>2, <1>6, <1>8, <1>9, <1>12, TermsApart DEF IInv, Evaluating, Fresh
<1>15. FiniteIsExact'
  <2> SUFFICES ASSUME value'.kind = "fin" PROVE FiniteIsExact'
    BY DEF FiniteIsExact
  <2>1. value.kind = "fin" /\ ~ d /\ idx \in hasPath
    BY <1>1, <1>3, <1>6 DEF KindSum, DistanceKind
  <2>2. gradients' = value'.terms
    BY <1>2, <1>6, <2>1 DEF IInv, Evaluating, FiniteIsExact
  <2>3. Exact(value.terms) /\ \A p \in Pairs : p < idx => p \in hasPath \cup excluded
    BY <1>2, <2>1 DEF IInv, Evaluating, FiniteIsExact
  <2>4. \A p \in Pairs : ClampedPassed(p)' <=> p < idx \/ p = idx
    BY <1>3 DEF ClampedPassed, Pairs
  <2>5. \A p \in Pairs : (variant # "joint" /\ Passed(p))' <=> variant # "joint" /\ Passed(p)
    BY <1>2 DEF Passed
  <2>6. Exact(value.terms)'
    <3>1. \A p \in Pairs : value'.terms[<<"clamped", p>>] = Times(p \in hasPath /\ ClampedPassed(p), 1)'
      <4>1. \A p \in Pairs : p # idx =>
              value.terms[<<"clamped", p>>] = Times(p \in hasPath /\ p < idx, 1)
        BY <1>2, <2>3 DEF Exact, ClampedPassed
      <4> QED BY <1>2, <1>3, <1>6, <1>8, <2>1, <2>4, <4>1, TermsApart DEF Times, t
    <3>2. \A p \in Pairs : value'.terms[<<"unclamped", p>>] =
            Times(p \in hasPath /\ variant # "joint" /\ Passed(p), 1)'
      BY <1>2, <1>6, <1>8, <2>3, <2>5, TermsApart DEF Exact, Times
    <3>3. value'.terms[Reg] = 1 /\ value'.terms[Model] = 0 /\ value'.terms[Lengths] = 0
      BY <1>2, <1>6, <1>9, <2>3, TermsApart DEF Exact, Times
    <3> QED BY <3>1, <3>2, <3>3 DEF Exact, Times
  <2>7. \A p \in Pairs : p < idx' => p < idx \/ p = idx
    BY <1>3 DEF Pairs
  <2> QED BY <1>2, <2>1, <2>2, <2>3, <2>6, <2>7 DEF FiniteIsExact
<1>16. value'.kind # "pinf"
  BY <1>6, <1>7 DEF KindSum, DistanceKind
<1>17. value'.kind \in {"ninf", "nan"} => value.kind \in {"ninf", "nan"} \/ d
  BY <1>6, <1>7 DEF KindSum, DistanceKind, Kinds
<1>18. ClampedToBlame'
  BY <1>1, <1>2, <1>17 DEF IInv, Evaluating, ClampedToBlame
<1>19. Evaluating'
  BY <1>6, <1>13, <1>14, <1>15, <1>16, <1>18 DEF Evaluating, InfiniteIsReset
<1> QED BY <1>2, <1>10, <1>11, <1>19 DEF IInv, ExcludedRightly, CompleteOrInfinite
LEMMA NoPathsStep == IInv /\ NoPaths => IInv'
<1> SUFFICES ASSUME IInv, NoPaths PROVE IInv'
  OBVIOUS
<1>1. /\ main = "clamped" /\ main' = "loop" /\ idx \notin hasPath /\ idx' = idx + 1
      /\ excluded' = excluded \cup {idx} /\ diverges' = FALSE
      /\ UNCHANGED <<variant, hasPath, calls, pairCalls, limit, value, gradients, clampedDiverged>>
  BY DEF NoPaths, WithoutThisPair, EndSums
<1>2. idx \in Pairs /\ N \in Nat /\ idx \in Int
  BY <1>1, PairsFinite DEF IInv, Places, Pairs
<1>3. TypeOK' /\ Places'
  <2>1. idx' \in 0 .. N /\ excluded' \subseteq Pairs
    BY <1>1, <1>2 DEF IInv, TypeOK, Pairs
  <2> QED BY <1>1, <2>1 DEF IInv, TypeOK, Places
<1>4. ExcludedRightly'
  BY <1>1, <1>2 DEF IInv, ExcludedRightly
<1>5. Evaluating'
  <2>1. \A p \in Pairs : /\ idx' < p => idx < p
                         /\ idx' <= p => idx < p /\ idx <= p
                         /\ p < idx' <=> p < idx \/ p = idx
    BY <1>1, <1>2 DEF Pairs
  <2>2. Fresh(value.terms)' /\ Fresh(gradients)'
    BY <1>1, <2>1 DEF IInv, Evaluating, Fresh
  <2>3. ASSUME value.kind = "fin" PROVE Exact(value.terms)'
    <3>1. Exact(value.terms)
      BY <1>1, <2>3 DEF IInv, Evaluating, FiniteIsExact
    <3> QED BY <1>1, <1>2, <2>1, <3>1 DEF Exact, Times, ClampedPassed, Passed
  <2>4. FiniteIsExact'
    BY <1>1, <2>1, <2>3 DEF IInv, Evaluating, FiniteIsExact
  <2> QED BY <1>1, <2>2, <2>4 DEF IInv, Evaluating, ClampedToBlame, InfiniteIsReset
<1> QED BY <1>1, <1>3, <1>4, <1>5 DEF IInv, CompleteOrInfinite

LEMMA SubtractUnclampedStep ==
  ASSUME IInv, variant # "joint", NEW l, SubtractUnclamped(l), limit' \in Limits
  PROVE  IInv'
<1> DEFINE t == <<"unclamped", idx>>
<1>1. PICK d \in Verdicts(l) :
        AddToGradients(t, 1, d) /\ AddToValue(t, 1, KindNegated(DistanceKind(d)))
  BY DEF SubtractUnclamped
<1>2. /\ main = "unclamped" /\ main' = "loop" /\ diverges' = FALSE
      /\ idx' = IF value'.kind = "pinf" THEN N ELSE idx + 1
      /\ UNCHANGED <<variant, hasPath, calls, pairCalls, excluded, clampedDiverged>>
  BY DEF SubtractUnclamped, EndSums, NextPair
<1>3. idx \in Pairs /\ N \in Nat /\ idx \in Int /\ t \in Terms /\ d \in BOOLEAN /\ 1 \in 0 .. N + 1
  <2>1. idx \in Pairs /\ N \in Nat
    BY <1>2, PairsFinite DEF IInv, Places
  <2>2. t \in Terms
    BY <2>1, TermsApart
  <2>3. d \in BOOLEAN
    BY <1>1, VerdictType
  <2> HIDE DEF t
  <2> QED BY <2>1, <2>2, <2>3 DEF Pairs
<1>4. value.terms[t] = 0 /\ gradients[t] = 0
  BY <1>2, <1>3 DEF IInv, Evaluating, Fresh
<1>5. KindNegated(DistanceKind(d)) = IF d THEN "pinf" ELSE "fin"
  BY <1>3 DEF DistanceKind, KindNegated
<1>6. /\ value' = [kind |-> KindSum(value.kind, KindNegated(DistanceKind(d))), terms |-> value'.terms]
      /\ value'.kind = KindSum(value.kind, KindNegated(DistanceKind(d))) /\ value'.kind \in Kinds
      /\ value'.terms \in [Terms -> 0 .. N + 1]
      /\ value'.terms[t] = 1
      /\ \A x \in Terms : x # t => value'.terms[x] = value.terms[x]
      /\ gradients' \in [Terms -> 0 .. N + 1]
      /\ \A x \in Terms : gradients'[x] = 0 \/ (x # t /\ gradients'[x] = gradients[x]) \/ (x = t /\ ~ d)
      /\ d => \A x \in Terms : gradients'[x] = 0
      /\ ~ d /\ gradients = value.terms => gradients' = value'.terms
  <2>1. KindNegated(DistanceKind(d)) \in Kinds
    BY <1>5 DEF Kinds
  <2> HIDE DEF t
  <2> QED BY <1>1, <1>2, <1>3, <1>4, <2>1, SumsAdded
<1>7. value.kind \in Kinds /\ value.kind # "pinf"
  BY <1>2 DEF IInv, Evaluating, InfiniteIsReset
<1>8. \A p \in Pairs : /\ <<"clamped", p>> # t
                       /\ p # idx => <<"unclamped", p>> # t
  BY <1>3, TermsApart
<1>9. Reg # t /\ Model # t /\ Lengths # t
  BY <1>3, TermsApart
<1> HIDE DEF t
<1>10. idx' \in 0 .. N /\ idx < idx'
  BY <1>2, <1>3 DEF Pairs
<1>11. TypeOK'
  <2>1. gradients' \in [Terms -> -1 .. N + 1]
    BY <1>3, <1>6
  <2>2. value' \in [kind : Kinds \cup {"one", "squashed"}, terms : [Terms -> 0 .. N + 1]]
    BY <1>6
  <2> QED BY <1>1, <1>2, <1>3, <1>10, <2>1, <2>2 DEF IInv, TypeOK
<1>12. Places'
  BY <1>2, <1>3 DEF IInv, TypeOK, Places
<1>13. \A p \in Pairs : idx' <= p => idx < p /\ idx <= p /\ p # idx
  BY <1>3, <1>10 DEF Pairs
<1>14. Fresh(value.terms)'
  <2>1. Fresh(value.terms)
    BY <1>2 DEF IInv, Evaluating
  <2>2. \A p \in Pairs : idx' <= p => value'.terms[<<"clamped", p>>] = 0
    BY <1>2, <1>6, <1>8, <1>13, <2>1, TermsApart DEF Fresh
  <2>3. \A p \in Pairs : idx' <= p => value'.terms[<<"unclamped", p>>] = 0
    BY <1>6, <1>8, <1>13, <2>1, TermsApart DEF Fresh
  <2>4. value'.terms[Model] = 0 /\ value'.terms[Lengths] = 0
    BY <1>2, <1>6, <1>9, <2>1, TermsApart DEF Fresh
  <2>5. \A p \in Pairs : idx' < p \/ idx' = p => idx' <= p
    BY <1>10 DEF Pairs
  <2> QED BY <1>2, <1>6, <2>2, <2>3, <2>4, <2>5 DEF Fresh
<1>15. Fresh(gradients)'
  <2>1. Fresh(gradients)
    BY <1>2 DEF IInv, Evaluating
  <2>2. \A p \in Pairs : idx' <= p => gradients'[<<"clamped", p>>] = 0
    BY <1>2, <1>6, <1>8, <1>13, <2>1, TermsApart DEF Fresh
  <2>3. \A p \in Pairs : idx' <= p => gradients'[<<"unclamped", p>>] = 0
    BY <1>6, <1>8, <1>13, <2>1, TermsApart DEF Fresh
  <2>4. gradients'[Model] = 0 /\ gradients'[Lengths] = 0
    BY <1>2, <1>6, <1>9, <2>1, TermsApart DEF Fresh
  <2>5. \A p \in Pairs : idx' < p \/ idx' = p => idx' <= p
    BY <1>10 DEF Pairs
  <2> QED BY <1>2, <1>6, <2>2, <2>3, <2>4, <2>5 DEF Fresh
<1>16. FiniteIsExact'
  <2> SUFFICES ASSUME value'.kind = "fin" PROVE FiniteIsExact'
    BY DEF FiniteIsExact
  <2>1. value.kind = "fin" /\ ~ d
    BY <1>5, <1>6 DEF KindSum
  <2>2. idx \in hasPath /\ idx' = idx + 1
    BY <1>2, <2>1 DEF IInv, Evaluating, FiniteIsExact
  <2>3. gradients' = value'.terms
    BY <1>2, <1>6, <2>1 DEF IInv, Evaluating, FiniteIsExact
  <2>4. Exact(value.terms) /\ \A p \in Pairs : p < idx => p \in hasPath \cup excluded
    BY <1>2, <2>1 DEF IInv, Evaluating, FiniteIsExact
  <2>5. \A p \in Pairs : p < idx' <=> p < idx \/ p = idx
    BY <1>3, <2>2 DEF Pairs
  <2>6. Exact(value.terms)'
    <3>1. \A p \in Pairs : value'.terms[<<"clamped", p>>] = Times(p \in hasPath /\ ClampedPassed(p), 1)'
      BY <1>2, <1>6, <1>8, <2>4, <2>5, TermsApart DEF Exact, ClampedPassed, Times
    <3>2. \A p \in Pairs : value'.terms[<<"unclamped", p>>] =
            Times(p \in hasPath /\ variant # "joint" /\ Passed(p), 1)'
      <4>1. \A p \in Pairs : p # idx =>
              value.terms[<<"unclamped", p>>] = Times(p \in hasPath /\ p < idx, 1)
        BY <2>4 DEF Exact, Passed, Times
      <4> QED BY <1>2, <1>3, <1>6, <1>8, <2>2, <2>5, <4>1, TermsApart DEF Times, Passed, t
    <3>3. value'.terms[Reg] = 1 /\ value'.terms[Model] = 0 /\ value'.terms[Lengths] = 0
      BY <1>2, <1>6, <1>9, <2>4, TermsApart DEF Exact, Times
    <3> QED BY <1>2, <3>1, <3>2, <3>3 DEF Exact, Times
  <2> QED BY <1>2, <2>2, <2>3, <2>4, <2>5, <2>6 DEF FiniteIsExact
<1>17. InfiniteIsReset'
  <2> SUFFICES ASSUME value'.kind = "pinf" PROVE InfiniteIsReset'
    BY DEF InfiniteIsReset
  <2>1. d
    BY <1>5, <1>6, <1>7 DEF KindSum
  <2> QED BY <1>2, <1>6, <2>1 DEF InfiniteIsReset
<1>18. ClampedToBlame'
  <2>1. value'.kind \in {"ninf", "nan"} => value.kind \in {"ninf", "nan"}
    BY <1>5, <1>6, <1>7 DEF KindSum, Kinds
  <2> QED BY <1>2, <2>1 DEF IInv, Evaluating, ClampedToBlame
<1>19. Evaluating'
  BY <1>6, <1>14, <1>15, <1>16, <1>17, <1>18 DEF Evaluating
<1> QED BY <1>2, <1>11, <1>12, <1>19 DEF IInv, ExcludedRightly, CompleteOrInfinite

LEMMA EndLoopStep ==
  ASSUME IInv, NEW total, EndLoop(total), limit' \in Limits,
         total = IF variant = "joint" THEN "model" ELSE "lengths"
  PROVE  IInv'
<1>1. /\ main = "loop" /\ idx = N /\ main' = total /\ diverges' \in BOOLEAN
      /\ UNCHANGED <<variant, hasPath, calls, pairCalls, idx, value, gradients, excluded,
                     clampedDiverged>>
  BY DEF EndLoop, BeginSum
<1>2. TypeOK' /\ Places'
  BY <1>1 DEF IInv, TypeOK, Places
<1>3. Evaluating'
  <2>1. variant = "joint" => value.kind # "pinf"
    BY <1>1 DEF IInv, Evaluating, InfiniteIsReset
  <2>2. Fresh(value.terms)' /\ Fresh(gradients)'
    BY <1>1 DEF IInv, Evaluating, Fresh
  <2>3. FiniteIsExact'
    BY <1>1 DEF IInv, Evaluating, FiniteIsExact, Exact, Times, ClampedPassed, Passed
  <2> QED BY <1>1, <2>1, <2>2, <2>3 DEF IInv, Evaluating, ClampedToBlame, InfiniteIsReset
<1> QED BY <1>1, <1>2, <1>3 DEF IInv, ExcludedRightly, CompleteOrInfinite

\* The sum at the end of an evaluation: of the model, or of the lengths.
LEMMA LastSumStep ==
  ASSUME IInv, main \in {"model", "lengths"}, NEW d \in BOOLEAN, NEW t \in {Model, Lengths},
         t = IF variant = "joint" THEN Model ELSE Lengths,
         AddToGradients(t, Used, d),
         AddToValue(t, Used, IF d THEN "pinf" ELSE "fin"),
         EndSums("finish"),
         UNCHANGED <<variant, hasPath, calls, pairCalls, limit, idx, excluded, clampedDiverged>>
  PROVE  IInv'
<1>1. /\ main' = "finish" /\ diverges' = FALSE /\ idx = N
      /\ main # "idle" /\ main \notin {"unclamped", "finish"}
  BY DEF EndSums, IInv, Places
<1>2. Used \in 0 .. N /\ N \in Nat /\ Used' = Used
  BY UsedType, PairsFinite DEF IInv, TypeOK, Used
<1>3. value.terms[t] = 0 /\ gradients[t] = 0 /\ t \in Terms
  BY <1>1, TermsApart DEF IInv, Evaluating, Fresh
<1> DEFINE k == IF d THEN "pinf" ELSE "fin"
<1>4. /\ value' = [kind |-> KindSum(value.kind, k), terms |-> value'.terms]
      /\ value'.kind = KindSum(value.kind, k) /\ value'.kind \in Kinds
      /\ value'.terms \in [Terms -> 0 .. N + 1]
      /\ value'.terms[t] = Used
      /\ \A x \in Terms : x # t => value'.terms[x] = value.terms[x]
      /\ gradients' \in [Terms -> 0 .. N + 1]
      /\ \A x \in Terms : gradients'[x] = 0 \/ (x # t /\ gradients'[x] = gradients[x]) \/ (x = t /\ ~ d)
      /\ d => \A x \in Terms : gradients'[x] = 0
      /\ ~ d /\ gradients = value.terms => gradients' = value'.terms
  <2>1. k \in Kinds /\ Used \in 0 .. N + 1
    BY <1>2 DEF Kinds
  <2>2. AddToValue(t, Used, k)
    OBVIOUS
  <2> HIDE DEF k
  <2> QED BY <1>1, <1>3, <2>1, <2>2, SumsAdded
<1>5. \A p \in Pairs : <<"clamped", p>> # t /\ <<"unclamped", p>> # t
  BY TermsApart
<1>6. Reg # t /\ (variant = "joint" => Lengths # t) /\ (variant # "joint" => Model # t)
  BY TermsApart
<1>7. TypeOK'
  <2>1. gradients' \in [Terms -> -1 .. N + 1]
    BY <1>2, <1>4
  <2>2. value' \in [kind : Kinds \cup {"one", "squashed"}, terms : [Terms -> 0 .. N + 1]]
    BY <1>4
  <2> QED BY <1>1, <2>1, <2>2 DEF IInv, TypeOK
<1>8. Places'
  BY <1>1 DEF IInv, Places
<1>9. Fresh(value.terms)'
  BY <1>1, <1>4, <1>5, TermsApart DEF IInv, Evaluating, Fresh
<1>10. Fresh(gradients)'
  BY <1>1, <1>4, <1>5, TermsApart DEF IInv, Evaluating, Fresh
<1>11. FiniteIsExact'
  <2> SUFFICES ASSUME value'.kind = "fin" PROVE FiniteIsExact'
    BY DEF FiniteIsExact
  <2>1. value.kind = "fin" /\ ~ d
    BY <1>4 DEF KindSum
  <2>2. Exact(value.terms) /\ gradients = value.terms /\ \A p \in Pairs : p < idx => p \in hasPath \cup excluded
    BY <1>1, <2>1 DEF IInv, Evaluating, FiniteIsExact
  <2>3. Exact(value.terms)'
    <3>1. \A p \in Pairs : ClampedPassed(p)' <=> ClampedPassed(p)
      BY <1>1 DEF ClampedPassed
    <3>2. \A p \in Pairs : /\ value'.terms[<<"clamped", p>>] = value.terms[<<"clamped", p>>]
                           /\ value'.terms[<<"unclamped", p>>] = value.terms[<<"unclamped", p>>]
      BY <1>4, <1>5, TermsApart
    <3>3. value'.terms[Reg] = 1
      BY <1>4, <1>6, <2>2, TermsApart DEF Exact
    <3>4. /\ value'.terms[Model] = Times(variant = "joint", Used)
          /\ value'.terms[Lengths] = Times(variant # "joint", Used)
      BY <1>1, <1>4, <1>6, <2>2, TermsApart DEF Exact, Times
    <3> QED BY <1>1, <1>2, <2>2, <3>1, <3>2, <3>3, <3>4 DEF Exact, Times, Passed
  <2> QED BY <1>1, <1>4, <2>1, <2>2, <2>3 DEF FiniteIsExact
<1>12. InfiniteIsReset'
  <2> SUFFICES ASSUME value'.kind = "pinf" PROVE InfiniteIsReset'
    BY DEF InfiniteIsReset
  <2>1. \A x \in Terms \ {Lengths} : gradients'[x] = 0
    <3>1. CASE d
      BY <1>4, <3>1
    <3>2. CASE ~ d
      <4>1. value.kind = "pinf"
        BY <1>4, <3>2 DEF KindSum
      <4>2. variant # "joint" /\ \A x \in Terms \ {Lengths} : gradients[x] = 0
        BY <1>1, <4>1 DEF IInv, Evaluating, InfiniteIsReset
      <4> QED BY <1>4, <4>2
    <3> QED BY <3>1, <3>2
  <2> QED BY <1>1, <2>1 DEF InfiniteIsReset
<1>13. ClampedToBlame'
  <2>1. value.kind \in Kinds
    BY <1>1 DEF IInv, Evaluating
  <2>2. value'.kind \in {"ninf", "nan"} => value.kind \in {"ninf", "nan"}
    BY <1>4, <2>1 DEF KindSum, Kinds
  <2> QED BY <1>1, <2>2 DEF IInv, Evaluating, ClampedToBlame
<1>14. Evaluating'
  BY <1>4, <1>9, <1>10, <1>11, <1>12, <1>13 DEF Evaluating
<1> QED BY <1>1, <1>7, <1>8, <1>14 DEF IInv, ExcludedRightly, CompleteOrInfinite

LEMMA SumModelStep == IInv /\ SumModel => IInv'
<1> SUFFICES ASSUME IInv, SumModel PROVE IInv'
  OBVIOUS
<1>1. PICK d \in Verdicts(ModelLimit) :
        AddToGradients(Model, Used, d) /\ AddToValue(Model, Used, KindNegated(DistanceKind(d)))
  BY DEF SumModel
<1>2. d \in BOOLEAN
  BY <1>1, VerdictType
<1>3. KindNegated(DistanceKind(d)) = IF d THEN "pinf" ELSE "fin"
  BY <1>2 DEF KindNegated, DistanceKind
<1>4. main = "model" /\ variant = "joint"
  BY DEF SumModel, IInv, Places
<1> QED BY <1>1, <1>2, <1>3, <1>4, LastSumStep DEF SumModel

LEMMA SumLengthsStep == IInv /\ SumLengths => IInv'
<1> SUFFICES ASSUME IInv, SumLengths PROVE IInv'
  OBVIOUS
<1>1. PICK d \in Verdicts(limit) :
        AddToGradients(Lengths, Used, d) /\ AddToValue(Lengths, Used, LengthPenalty(d))
  BY DEF SumLengths
<1>2. d \in BOOLEAN
  BY <1>1, VerdictType
<1>3. LengthPenalty(d) = IF d THEN "pinf" ELSE "fin"
  BY DEF LengthPenalty
<1>4. main = "lengths" /\ variant # "joint"
  BY DEF SumLengths, IInv, Places
<1> QED BY <1>1, <1>2, <1>3, <1>4, LastSumStep DEF SumLengths
\* The value and the gradients of all pairs, once the loop is through with them.
LEMMA PassedAll ==
  ASSUME IInv, main = "finish", value.kind = "fin"
  PROVE  excluded = Pairs \ hasPath /\ value.terms = FullTerms /\ gradients = FullTerms
<1>1. idx = N /\ Exact(value.terms) /\ gradients = value.terms
  BY DEF IInv, Places, Evaluating, FiniteIsExact
<1>2. \A p \in Pairs : Passed(p) /\ ClampedPassed(p)
  BY <1>1, PairsFinite DEF Passed, ClampedPassed, Pairs
<1>3. excluded = Pairs \ hasPath
  <2>1. \A p \in Pairs : p \in hasPath \cup excluded
    BY <1>2 DEF IInv, Evaluating, FiniteIsExact, Passed
  <2> QED BY <2>1 DEF IInv, ExcludedRightly
<1>4. Used = Cardinality(hasPath)
  BY <1>3, UsedArePaths DEF IInv, TypeOK
<1>5. \A t \in Terms : value.terms[t] = FullTerms[t]
  <2> TAKE t \in Terms
  <2>1. CASE t \in {Reg, Model, Lengths}
    BY <1>1, <1>4, <2>1 DEF FullTerms, Exact, Times, Reg, Model, Lengths, Terms
  <2>2. CASE \E p \in Pairs : t = <<"clamped", p>>
    <3>1. PICK p \in Pairs : t = <<"clamped", p>>
      BY <2>2
    <3>2. t[1] = "clamped" /\ t[2] = p /\ t \notin {Reg, Model, Lengths}
      BY <3>1, TermsApart
    <3>3. FullTerms[t] = IF p \in hasPath THEN 1 ELSE 0
      BY <3>2 DEF FullTerms
    <3> QED BY <1>1, <1>2, <3>1, <3>3 DEF Exact, Times
  <2>3. CASE \E p \in Pairs : t = <<"unclamped", p>>
    <3>1. PICK p \in Pairs : t = <<"unclamped", p>>
      BY <2>3
    <3>2. t[1] = "unclamped" /\ t[2] = p /\ t \notin {Reg, Model, Lengths}
      BY <3>1, TermsApart
    <3>3. FullTerms[t] = IF p \in hasPath /\ variant # "joint" THEN 1 ELSE 0
      BY <3>2 DEF FullTerms
    <3> QED BY <1>1, <1>2, <3>1, <3>3 DEF Exact, Times
  <2> QED BY <2>1, <2>2, <2>3, AllTerms
<1>6. value.terms \in [Terms -> 0 .. N + 1]
  BY DEF IInv, Evaluating, Fresh
<1>7. value.terms = FullTerms
  BY <1>5, <1>6 DEF FullTerms
<1> QED BY <1>1, <1>3, <1>7

LEMMA FinishDivergentStep == IInv /\ FinishDivergent => IInv'
<1> SUFFICES ASSUME IInv, FinishDivergent PROVE IInv'
  OBVIOUS
<1>1. /\ main = "finish" /\ value.kind = "pinf" /\ main' = "idle"
      /\ value' = [value EXCEPT !.kind = "one"]
      /\ UNCHANGED <<variant, hasPath, calls, pairCalls, limit, idx, diverges, gradients, excluded,
                     clampedDiverged>>
  BY DEF FinishDivergent, PositiveInfinity
<1>2. value' \in [kind : Kinds \cup {"one", "squashed"}, terms : [Terms -> 0 .. N + 1]] /\ value'.kind = "one"
  BY <1>1 DEF IInv, TypeOK
<1>3. TypeOK' /\ Places' /\ ExcludedRightly'
  BY <1>1, <1>2 DEF IInv, TypeOK, Places, ExcludedRightly
<1>4. \A t \in Terms \ {Lengths} : gradients'[t] = 0
  BY <1>1 DEF IInv, Evaluating, InfiniteIsReset
<1>5. CompleteOrInfinite'
  BY <1>2, <1>4 DEF CompleteOrInfinite, CompleteWhenFinite, InfiniteValueForgetsPairs,
     NumberUnlessClampedDiverges
<1> QED BY <1>1, <1>3, <1>5 DEF IInv, Evaluating

LEMMA FinishSquashedStep == IInv /\ FinishSquashed => IInv'
<1> SUFFICES ASSUME IInv, FinishSquashed PROVE IInv'
  OBVIOUS
<1>1. /\ main = "finish" /\ value.kind # "pinf" /\ main' = "idle"
      /\ value' = [value EXCEPT !.kind = IF @ = "fin" THEN "squashed" ELSE "nan"]
      /\ gradients' = CASE value.kind = "fin" -> gradients
                        [] value.kind = "nan" -> Nans
                        [] OTHER -> NoTerms
      /\ UNCHANGED <<variant, hasPath, calls, pairCalls, limit, idx, diverges, excluded,
                     clampedDiverged>>
  BY DEF FinishSquashed, PositiveInfinity
<1>2. /\ value' \in [kind : Kinds \cup {"one", "squashed"}, terms : [Terms -> 0 .. N + 1]]
      /\ value'.kind = IF value.kind = "fin" THEN "squashed" ELSE "nan"
      /\ value'.terms = value.terms
  BY <1>1 DEF IInv, TypeOK, Kinds
<1>3. gradients' \in [Terms -> -1 .. N + 1]
  <2>1. Nans \in [Terms -> -1 .. N + 1] /\ NoTerms \in [Terms -> -1 .. N + 1]
    BY PairsFinite DEF Nans, NoTerms
  <2>2. gradients \in [Terms -> -1 .. N + 1]
    BY DEF IInv, TypeOK
  <2> QED BY <1>1, <2>1, <2>2
<1>4. TypeOK' /\ Places' /\ ExcludedRightly'
  BY <1>1, <1>2, <1>3 DEF IInv, TypeOK, Places, ExcludedRightly
<1>5. CompleteWhenFinite'
  <2> SUFFICES ASSUME value.kind = "fin"
               PROVE  (excluded = Pairs \ hasPath /\ value.terms = FullTerms /\ gradients = FullTerms)'
    BY <1>2 DEF CompleteWhenFinite
  <2>1. excluded = Pairs \ hasPath /\ value.terms = FullTerms /\ gradients = FullTerms
    BY <1>1, PassedAll
  <2>2. FullTerms' = FullTerms
    BY <1>1 DEF FullTerms
  <2> QED BY <1>1, <1>2, <2>1, <2>2
<1>6. InfiniteValueForgetsPairs'
  BY <1>2 DEF InfiniteValueForgetsPairs
<1>7. NumberUnlessClampedDiverges'
  <2>1. value.kind \in Kinds /\ (value.kind \in {"ninf", "nan"} => clampedDiverged)
    BY <1>1 DEF IInv, Evaluating, ClampedToBlame
  <2> QED BY <1>1, <1>2, <2>1 DEF NumberUnlessClampedDiverges, Kinds
<1> QED BY <1>1, <1>4, <1>5, <1>6, <1>7 DEF IInv, Evaluating, CompleteOrInfinite

LEMMA JointStep == IInv /\ Joint => IInv'
<1> SUFFICES ASSUME IInv, Joint PROVE IInv'
  OBVIOUS
<1>1. variant = "joint"
  BY DEF Joint
<1>2. CASE StartPair
  BY <1>2, OpenPairStep DEF StartPair, IInv, TypeOK
<1>3. CASE SumClampedOnly
  BY <1>1, <1>3, AddClampedStep DEF SumClampedOnly, EndSums
<1>4. CASE EndPairs("model")
  BY <1>1, <1>4, EndLoopStep DEF EndPairs, IInv, TypeOK
<1> QED BY <1>2, <1>3, <1>4, BeginStep, SkipExcludedStep, NoPathsStep, SumModelStep,
       FinishDivergentStep, FinishSquashedStep DEF Joint

LEMMA LenmatchStep == IInv /\ Lenmatch => IInv'
<1> SUFFICES ASSUME IInv, Lenmatch PROVE IInv'
  OBVIOUS
<1>1. variant # "joint"
  BY DEF Lenmatch
<1>2. CASE StartPair
  BY <1>2, OpenPairStep DEF StartPair, IInv, TypeOK
<1>3. CASE SumClamped
  BY <1>1, <1>3, AddClampedStep DEF SumClamped, BeginSum
<1>4. CASE SumUnclamped
  BY <1>1, <1>4, SubtractUnclampedStep DEF SumUnclamped, IInv, TypeOK
<1>5. CASE EndPairs("lengths")
  BY <1>1, <1>5, EndLoopStep DEF EndPairs, IInv, TypeOK
<1> QED BY <1>2, <1>3, <1>4, <1>5, BeginStep, SkipExcludedStep, NoPathsStep, SumLengthsStep,
       FinishDivergentStep, FinishSquashedStep DEF Lenmatch

LEMMA CondotherStep == IInv /\ Condother => IInv'
<1> SUFFICES ASSUME IInv, Condother PROVE IInv'
  OBVIOUS
<1>1. variant # "joint"
  BY DEF Condother
<1>2. CASE StartOtherPair
  <2>1. pairCalls' \in -1 .. 1
    BY <1>2 DEF StartOtherPair, IInv, TypeOK
  <2> QED BY <1>2, <2>1, OpenPairStep DEF StartOtherPair
<1>3. CASE SumClamped
  BY <1>1, <1>3, AddClampedStep DEF SumClamped, BeginSum
<1>4. CASE SumOtherUnclamped
  <2>1. limit' \in Limits
    BY <1>4 DEF SumOtherUnclamped, OtherLimit, Limits, IInv, TypeOK
  <2> QED BY <1>1, <1>4, <2>1, SubtractUnclampedStep DEF SumOtherUnclamped
<1>5. CASE EndOtherPairs
  <2>1. limit' \in Limits
    BY <1>5 DEF EndOtherPairs, Limits, IInv, TypeOK
  <2> QED BY <1>1, <1>5, <2>1, EndLoopStep DEF EndOtherPairs
<1> QED BY <1>2, <1>3, <1>4, <1>5, BeginStep, SkipExcludedStep, NoPathsStep, SumLengthsStep,
       FinishDivergentStep, FinishSquashedStep DEF Condother

\* Nothing is returned by an evaluation that sums for ever.
LEMMA RerunForEverStep == IInv /\ RerunForEver => IInv'
<1> SUFFICES ASSUME IInv, RerunForEver PROVE IInv'
  OBVIOUS
<1>1. /\ main # "idle" /\ main' = "rerun"
      /\ UNCHANGED <<variant, hasPath, calls, pairCalls, limit, idx, diverges, value, gradients,
                     excluded, clampedDiverged>>
  BY DEF RerunForEver
<1>2. TypeOK' /\ Places' /\ ExcludedRightly'
  BY <1>1 DEF IInv, TypeOK, Places, ExcludedRightly
<1> QED BY <1>1, <1>2 DEF IInv, Evaluating, CompleteOrInfinite

LEMMA NextIInv == IInv /\ [Next]_vars => IInv'
<1>1. CASE UNCHANGED vars
  BY <1>1 DEF vars, IInv, TypeOK, Places, ExcludedRightly, Evaluating, CompleteOrInfinite, Fresh,
     FiniteIsExact, InfiniteIsReset, ClampedToBlame, Exact, Times, ClampedPassed, Passed, Used,
     CompleteWhenFinite, InfiniteValueForgetsPairs, NumberUnlessClampedDiverges, FullTerms
<1>2. CASE Next
  BY <1>2, SetTimelimitStep, JointStep, LenmatchStep, CondotherStep, RerunForEverStep
     DEF Next, Compute
<1> QED BY <1>1, <1>2

-----------------------------------------------------------------------------

\* The invariant of the proof, for any number of pairs and evaluations.
THEOREM Invariance == Spec => []IInv
  BY InitIInv, NextIInv, PTL DEF Spec

\* For any number of pairs: no term is added up more often than there are pairs.
THEOREM TypeCorrect == Spec => []TypeOK
<1>1. IInv => TypeOK
  BY DEF IInv
<1> QED BY <1>1, Invariance, PTL

\* For any number of pairs, whichever sums diverge and whatever was excluded before:
\* what the optimiser gets is made of every pair with a path, or plainly infinite.
THEOREM Complete == Spec => []CompleteOrInfinite
<1>1. IInv => CompleteOrInfinite
  BY DEF IInv
<1> QED BY <1>1, Invariance, PTL
=============================================================================
