----------------------- MODULE ExpectationSumsProofs -----------------------
(***************************************************************************)
(* What the sums over the paths of an FST are made of, and what they       *)
(* compute, for every acyclic FST, every weights, every order of the queue *)
(* and wherever a sum is interrupted.                                      *)
(*                                                                         *)
(* - The numbers and weights of ExpectationSemiring compute what they      *)
(*   stand for, and the weights are a commutative semiring, up to the sign *)
(*   of 0 and to expectations of 0 that are stored or not.                 *)
(* - The folds that sums and products are defined with do not depend on    *)
(*   the order, and are added, scaled, split and exchanged as sums are.    *)
(* - The sums over the paths between two states can be made by first arc   *)
(*   and by last arc; the sum over the paths through an arc is a product.  *)
(* - What a node lacks is what the nodes before it have not passed on yet: *)
(*   no step of ShortestDistance and of ShortestDistanceM changes that, so *)
(*   that the alphas, the betas and the counts are exact in the end.       *)
(* - Features are weights of arcs: how often one fires is read back from   *)
(*   the weight that its feature gave an arc, so that the counts of arcs   *)
(*   are those of features.                                                *)
(* - Two paths that meet in a state are joined to one, and every path      *)
(*   through a state or an arc comes apart so. The lengths of paths add up *)
(*   when they are joined, which is what the expectations of the length    *)
(*   sums multiply: these are the lengths of the paths, and the gradients  *)
(*   of the length penalty their covariances with the features.            *)
(*                                                                         *)
(* What is so for all finite sets, states or paths is shown by looking at  *)
(* the smallest set, or the last state, for which it is not.               *)
(***************************************************************************)
EXTENDS ExpectationSums, FiniteSetTheorems, WellFoundedInduction, TLAPS

-----------------------------------------------------------------------------
(* Numbers and weights.                                                     *)


\* The sum of two numbers in the log domain is their sum (NeglogPlus,
\* core/neg-log-of-signed-num.h), whatever their signs and sizes.
THEOREM PlusCorrect ==
  ASSUME NEW a \in NeglogNums, NEW b \in NeglogNums
  PROVE  /\ NeglogPlus(a, b) \in NeglogNums
         /\ GetOrigNum(NeglogPlus(a, b)) = GetOrigNum(a) + GetOrigNum(b)
  BY DEF NeglogNums, NeglogPlus, PlusSmaller, GetOrigNum, NeglogNum

\* The product of two natural numbers is one, and 0 only with a factor 0.
LEMMA Product == \A x, y \in Nat : x * y \in Nat
  OBVIOUS

\* Signs move out of a product.
LEMMA Signs ==
  \A x, y \in Int : /\ (0 - x) * y = 0 - (x * y)
                    /\ x * (0 - y) = 0 - (x * y)
                    /\ (0 - x) * (0 - y) = x * y
  OBVIOUS

\* The product in the log domain is the product (NeglogTimes).
THEOREM TimesCorrect ==
  ASSUME NEW a \in NeglogNums, NEW b \in NeglogNums
  PROVE  /\ NeglogTimes(a, b) \in NeglogNums
         /\ GetOrigNum(NeglogTimes(a, b)) = GetOrigNum(a) * GetOrigNum(b)
<1>1. a.mag \in Nat /\ b.mag \in Nat /\ a.sign_x \in BOOLEAN /\ b.sign_x \in BOOLEAN
  BY DEF NeglogNums
<1>2. CASE a.mag = 0
  <2>1. NeglogTimes(a, b) = a
    BY <1>2 DEF NeglogTimes
  <2>2. GetOrigNum(a) = 0 /\ GetOrigNum(b) \in Int
    BY <1>1, <1>2 DEF GetOrigNum
  <2> QED
    BY <2>1, <2>2
<1>3. CASE a.mag # 0 /\ b.mag = 0
  <2>1. NeglogTimes(a, b) = b
    BY <1>3 DEF NeglogTimes
  <2>2. GetOrigNum(b) = 0 /\ GetOrigNum(a) \in Int
    BY <1>1, <1>3 DEF GetOrigNum
  <2> QED
    BY <2>1, <2>2
<1>4. CASE a.mag # 0 /\ b.mag # 0
  <2>1. NeglogTimes(a, b) = [mag |-> a.mag * b.mag, sign_x |-> a.sign_x = b.sign_x]
    BY <1>4 DEF NeglogTimes, NeglogNum
  <2>2. a.mag * b.mag \in Nat
    BY <1>1, Product
  <2>3. NeglogTimes(a, b) \in NeglogNums
    BY <2>1, <2>2 DEF NeglogNums
  <2>4. GetOrigNum(NeglogTimes(a, b)) = IF a.sign_x = b.sign_x THEN a.mag * b.mag ELSE 0 - (a.mag * b.mag)
    <3>1. /\ NeglogTimes(a, b).mag = a.mag * b.mag
          /\ NeglogTimes(a, b).sign_x = (a.sign_x = b.sign_x)
      BY <2>1
    <3> QED
      BY <1>1, <3>1 DEF GetOrigNum
  <2>5. /\ GetOrigNum(a) = IF a.sign_x THEN a.mag ELSE 0 - a.mag
        /\ GetOrigNum(b) = IF b.sign_x THEN b.mag ELSE 0 - b.mag
    BY DEF GetOrigNum
  <2>6. CASE a.sign_x = TRUE /\ b.sign_x = TRUE
    BY <2>3, <2>4, <2>5, <2>6
  <2>7. CASE a.sign_x = TRUE /\ b.sign_x = FALSE
    BY <1>1, <2>3, <2>4, <2>5, <2>7, Signs
  <2>8. CASE a.sign_x = FALSE /\ b.sign_x = TRUE
    BY <1>1, <2>3, <2>4, <2>5, <2>8, Signs
  <2>9. CASE a.sign_x = FALSE /\ b.sign_x = FALSE
    BY <1>1, <2>3, <2>4, <2>5, <2>9, Signs
  <2> QED
    BY <1>1, <2>6, <2>7, <2>8, <2>9
<1> QED
  BY <1>1, <1>2, <1>3, <1>4

-----------------------------------------------------------------------------

\* What an expectation amounts to is an integer.
LEMMA ExpectedInt ==
  ASSUME NEW w, IsWeight(w), NEW f
  PROVE  Expected(w, f) \in Int
  BY DEF IsWeight, Expected, NeglogNums, GetOrigNum

\* Plus adds the values, and the expectations feature by feature.
THEOREM WeightPlus ==
  ASSUME NEW v, IsWeight(v), NEW w, IsWeight(w)
  PROVE  /\ IsWeight(Plus(v, w))
         /\ Plus(v, w).value = v.value + w.value
         /\ \A f : Expected(Plus(v, w), f) = Expected(v, f) + Expected(w, f)
<1>1. /\ Plus(v, w).value = v.value + w.value
      /\ Plus(v, w).e = AddMaps(v.e, w.e)
      /\ Plus(v, w) = Weight(Plus(v, w).value, Plus(v, w).e)
  BY DEF Plus, Weight
<1>2. /\ DOMAIN AddMaps(v.e, w.e) = DOMAIN v.e \cup DOMAIN w.e
      /\ \A f \in DOMAIN v.e \ DOMAIN w.e : AddMaps(v.e, w.e)[f] = v.e[f]
      /\ \A f \in DOMAIN w.e \ DOMAIN v.e : AddMaps(v.e, w.e)[f] = w.e[f]
      /\ \A f \in DOMAIN v.e \cap DOMAIN w.e :
           AddMaps(v.e, w.e)[f] = NeglogPlus(v.e[f], w.e[f])
  BY DEF AddMaps
<1>3. /\ \A f \in DOMAIN v.e : v.e[f] \in NeglogNums
      /\ \A f \in DOMAIN w.e : w.e[f] \in NeglogNums
      /\ v.value \in Nat /\ w.value \in Nat
  BY DEF IsWeight
<1>4. AddMaps(v.e, w.e) \in [DOMAIN AddMaps(v.e, w.e) -> NeglogNums]
  <2>1. \A f \in DOMAIN AddMaps(v.e, w.e) : AddMaps(v.e, w.e)[f] \in NeglogNums
    BY <1>2, <1>3, PlusCorrect
  <2>2. AddMaps(v.e, w.e) = [f \in DOMAIN AddMaps(v.e, w.e) |-> AddMaps(v.e, w.e)[f]]
    BY DEF AddMaps
  <2> QED
    BY <2>1, <2>2
<1>5. IsWeight(Plus(v, w))
  BY <1>1, <1>3, <1>4 DEF IsWeight
<1>6. ASSUME NEW f
      PROVE  Expected(Plus(v, w), f) = Expected(v, f) + Expected(w, f)
  <2>1. CASE f \in DOMAIN v.e /\ f \in DOMAIN w.e
    BY <1>1, <1>2, <1>3, <2>1, PlusCorrect DEF Expected
  <2>2. CASE f \in DOMAIN v.e /\ f \notin DOMAIN w.e
    BY <1>1, <1>2, <2>2, ExpectedInt DEF Expected
  <2>3. CASE f \notin DOMAIN v.e /\ f \in DOMAIN w.e
    BY <1>1, <1>2, <2>3, ExpectedInt DEF Expected
  <2>4. CASE f \notin DOMAIN v.e /\ f \notin DOMAIN w.e
    BY <1>1, <1>2, <2>4 DEF Expected
  <2> QED
    BY <2>1, <2>2, <2>3, <2>4
<1> QED
  BY <1>1, <1>5, <1>6

\* A multiplied vector is one, and each expectation is multiplied.
LEMMA MultipliedCorrect ==
  ASSUME NEW v, IsWeight(v), NEW k \in Nat
  PROVE  LET m == Weight(0, Multiplied(v.e, k))
         IN /\ IsWeight(m)
            /\ \A f : Expected(m, f) = k * Expected(v, f)
<1> DEFINE e == Multiplied(v.e, k)
           factor == NeglogNum(k, TRUE)
           m == Weight(0, e)
<1>1. factor \in NeglogNums /\ GetOrigNum(factor) = k
  BY DEF NeglogNum, NeglogNums, GetOrigNum
<1>2. \A f \in DOMAIN v.e : v.e[f] \in NeglogNums
  BY DEF IsWeight
<1>3. DOMAIN e = DOMAIN v.e /\ \A f \in DOMAIN v.e : e[f] = NeglogTimes(v.e[f], factor)
  BY DEF Multiplied
<1>4. e \in [DOMAIN e -> NeglogNums]
  <2>1. \A f \in DOMAIN e : e[f] \in NeglogNums
    BY <1>1, <1>2, <1>3, TimesCorrect
  <2>2. e = [f \in DOMAIN e |-> e[f]]
    BY DEF Multiplied
  <2> HIDE DEF e
  <2> QED
    BY <2>1, <2>2
<1>5. m.value = 0 /\ m.e = e /\ m = Weight(m.value, m.e)
  BY DEF Weight
<1> HIDE DEF e, factor, m
<1>6. IsWeight(m)
  BY <1>4, <1>5 DEF IsWeight
<1>7. ASSUME NEW f
      PROVE  Expected(m, f) = k * Expected(v, f)
  <2>1. CASE f \in DOMAIN v.e
    <3>1. Expected(m, f) = GetOrigNum(NeglogTimes(v.e[f], factor)) /\ Expected(v, f) = GetOrigNum(v.e[f])
      BY <1>3, <1>5, <2>1 DEF Expected
    <3>2. GetOrigNum(NeglogTimes(v.e[f], factor)) = GetOrigNum(v.e[f]) * k
      BY <1>1, <1>2, <2>1, TimesCorrect
    <3>3. GetOrigNum(v.e[f]) \in Int
      BY <3>1, ExpectedInt
    <3> QED
      BY <3>1, <3>2, <3>3
  <2>2. CASE f \notin DOMAIN v.e
    BY <1>3, <1>5, <2>2 DEF Expected
  <2> QED
    BY <2>1, <2>2
<1> QED
  BY <1>6, <1>7 DEF m, e

\* Times multiplies the values and follows the product rule for the expectations,
\* also where it returns early because one weight is One.
THEOREM WeightTimes ==
  ASSUME NEW v, IsWeight(v), NEW w, IsWeight(w)
  PROVE  /\ IsWeight(Times(v, w))
         /\ Times(v, w).value = v.value * w.value
         /\ \A f : Expected(Times(v, w), f)
                    = w.value * Expected(v, f) + v.value * Expected(w, f)
<1>1. v.value \in Nat /\ w.value \in Nat
  BY DEF IsWeight
<1>2. CASE v.value = 1 /\ DOMAIN v.e = {}
  <2>1. Times(v, w) = w
    BY <1>2 DEF Times
  <2>2. \A f : Expected(v, f) = 0
    BY <1>2 DEF Expected
  <2> QED
    BY <1>1, <1>2, <2>1, <2>2, ExpectedInt
<1>3. CASE ~ (v.value = 1 /\ DOMAIN v.e = {}) /\ w.value = 1 /\ DOMAIN w.e = {}
  <2>1. Times(v, w) = v
    BY <1>3 DEF Times
  <2>2. \A f : Expected(w, f) = 0
    BY <1>3 DEF Expected
  <2> QED
    BY <1>1, <1>3, <2>1, <2>2, ExpectedInt
<1>4. CASE ~ (v.value = 1 /\ DOMAIN v.e = {}) /\ ~ (w.value = 1 /\ DOMAIN w.e = {})
  <2> DEFINE v2 == Weight(0, Multiplied(v.e, w.value))
             w2 == Weight(0, Multiplied(w.e, v.value))
  <2>1. /\ IsWeight(v2) /\ \A f : Expected(v2, f) = w.value * Expected(v, f)
        /\ IsWeight(w2) /\ \A f : Expected(w2, f) = v.value * Expected(w, f)
    BY <1>1, MultipliedCorrect
  <2>2. Times(v, w) = Weight(v.value * w.value, Plus(v2, w2).e)
    BY <1>4 DEF Times, Plus, Weight
  <2> HIDE DEF v2, w2
  <2>3. /\ IsWeight(Plus(v2, w2))
        /\ \A f : Expected(Plus(v2, w2), f) = Expected(v2, f) + Expected(w2, f)
    BY <2>1, WeightPlus
  <2>4. /\ Times(v, w).value = v.value * w.value /\ Times(v, w).e = Plus(v2, w2).e
        /\ Times(v, w) = Weight(Times(v, w).value, Times(v, w).e)
    BY <2>2 DEF Weight
  <2>5. v.value * w.value \in Nat
    BY <1>1, Product
  <2>6. IsWeight(Times(v, w))
    BY <2>3, <2>4, <2>5 DEF IsWeight
  <2>7. \A f : Expected(Times(v, w), f) = Expected(Plus(v2, w2), f)
    BY <2>4 DEF Expected
  <2> QED
    BY <2>1, <2>3, <2>4, <2>6, <2>7
<1> QED
  BY <1>2, <1>3, <1>4

-----------------------------------------------------------------------------

\* Two weights that stand for the same.
Equivalent(v, w) == v.value = w.value /\ \A f : Expected(v, f) = Expected(w, f)

\* The identities behind the laws: a, b and c are values, x, y and z expectations.
LEMMA Identities ==
  \A a, b, c, x, y, z \in Int :
    /\ a * (b + c) = a * b + a * c
    /\ (b + c) * x + a * (y + z) = (b * x + a * y) + (c * x + a * z)
    /\ a * (b * c) = (a * b) * c
    /\ (b * c) * x + a * (c * y + b * z) = c * (b * x + a * y) + (a * b) * z
    /\ a * b = b * a
    /\ b * x + a * y = a * y + b * x
  OBVIOUS

\* Weights are a commutative semiring (Properties() says left, right and
\* commutative): the order in which arcs and paths are summed, or factored,
\* makes no difference to any value or expectation.
THEOREM Semiring ==
  ASSUME NEW u, IsWeight(u), NEW v, IsWeight(v), NEW w, IsWeight(w)
  PROVE  /\ Equivalent(Plus(v, w), Plus(w, v))
         /\ Equivalent(Times(v, w), Times(w, v))
         /\ Equivalent(Plus(u, Plus(v, w)), Plus(Plus(u, v), w))
         /\ Equivalent(Times(u, Times(v, w)), Times(Times(u, v), w))
         /\ Equivalent(Times(u, Plus(v, w)), Plus(Times(u, v), Times(u, w)))
<1>1. u.value \in Int /\ v.value \in Int /\ w.value \in Int
  BY DEF IsWeight
<1>2. \A f : Expected(u, f) \in Int /\ Expected(v, f) \in Int /\ Expected(w, f) \in Int
  BY ExpectedInt
<1>3. IsWeight(Plus(v, w)) /\ IsWeight(Plus(u, v)) /\ IsWeight(Times(v, w)) /\ IsWeight(Times(u, v))
      /\ IsWeight(Times(u, w))
  BY WeightPlus, WeightTimes
<1>4. Equivalent(Plus(v, w), Plus(w, v))
  BY <1>1, <1>2, WeightPlus DEF Equivalent
<1>5. Equivalent(Times(v, w), Times(w, v))
  <2>1. Times(v, w).value = Times(w, v).value
    BY <1>1, WeightTimes, Identities
  <2>2. ASSUME NEW f
        PROVE  Expected(Times(v, w), f) = Expected(Times(w, v), f)
    <3>1. /\ Expected(Times(v, w), f) = w.value * Expected(v, f) + v.value * Expected(w, f)
          /\ Expected(Times(w, v), f) = v.value * Expected(w, f) + w.value * Expected(v, f)
      BY WeightTimes
    <3> QED
      BY <1>1, <1>2, <3>1, Identities
  <2> QED
    BY <2>1, <2>2 DEF Equivalent
<1>6. Equivalent(Plus(u, Plus(v, w)), Plus(Plus(u, v), w))
  BY <1>1, <1>2, <1>3, WeightPlus DEF Equivalent
<1>7. Equivalent(Times(u, Times(v, w)), Times(Times(u, v), w))
  <2>1. Times(u, Times(v, w)).value = Times(Times(u, v), w).value
    BY <1>1, <1>3, WeightTimes, Identities
  <2>2. ASSUME NEW f
        PROVE  Expected(Times(u, Times(v, w)), f) = Expected(Times(Times(u, v), w), f)
    <3>1. /\ Expected(Times(u, Times(v, w)), f)
               = (v.value * w.value) * Expected(u, f)
                   + u.value * (w.value * Expected(v, f) + v.value * Expected(w, f))
          /\ Expected(Times(Times(u, v), w), f)
               = w.value * (v.value * Expected(u, f) + u.value * Expected(v, f))
                   + (u.value * v.value) * Expected(w, f)
      BY <1>3, WeightTimes
    <3> QED
      BY <1>1, <1>2, <3>1, Identities
  <2> QED
    BY <2>1, <2>2 DEF Equivalent
<1>8. Equivalent(Times(u, Plus(v, w)), Plus(Times(u, v), Times(u, w)))
  <2>1. Times(u, Plus(v, w)).value = Plus(Times(u, v), Times(u, w)).value
    <3>1. /\ Times(u, Plus(v, w)).value = u.value * (v.value + w.value)
          /\ Plus(Times(u, v), Times(u, w)).value = u.value * v.value + u.value * w.value
      BY <1>3, WeightTimes, WeightPlus
    <3> QED
      BY <1>1, <3>1, Identities
  <2>2. ASSUME NEW f
        PROVE  Expected(Times(u, Plus(v, w)), f) = Expected(Plus(Times(u, v), Times(u, w)), f)
    <3>1. /\ Expected(Times(u, Plus(v, w)), f)
               = (v.value + w.value) * Expected(u, f)
                   + u.value * (Expected(v, f) + Expected(w, f))
          /\ Expected(Plus(Times(u, v), Times(u, w)), f)
               = (v.value * Expected(u, f) + u.value * Expected(v, f))
                   + (w.value * Expected(u, f) + u.value * Expected(w, f))
      BY <1>3, WeightTimes, WeightPlus
    <3> QED
      BY <1>1, <1>2, <3>1, Identities
  <2> QED
    BY <2>1, <2>2 DEF Equivalent
<1> QED
  BY <1>4, <1>5, <1>6, <1>7, <1>8

-----------------------------------------------------------------------------

\* A weight that is written and read again has the same value and the absolute
\* values of its expectations (Write and Read, core/expectation-weight.h): it is
\* the same weight exactly when no expectation is negative.
THEOREM WrittenRead ==
  ASSUME NEW w, IsWeight(w)
  PROVE  /\ IsWeight(Read(Written(w)))
         /\ Read(Written(w)).value = w.value
         /\ \A f : Expected(Read(Written(w)), f) =
                     IF Expected(w, f) >= 0 THEN Expected(w, f) ELSE 0 - Expected(w, f)
<1> DEFINE r == Read(Written(w))
<1>1. w.value \in Nat /\ w.e \in [DOMAIN w.e -> NeglogNums]
  BY DEF IsWeight
<1>2. /\ r.value = w.value /\ r = Weight(r.value, r.e)
      /\ r.e = [f \in {f \in DOMAIN w.e : w.e[f].mag # 0} |-> NeglogNum(w.e[f].mag, TRUE)]
  BY DEF Read, Written, Weight
<1> HIDE DEF r
<1>3. \A f \in DOMAIN w.e : w.e[f].mag \in Nat /\ w.e[f].sign_x \in BOOLEAN
  BY <1>1 DEF NeglogNums
<1>4. IsWeight(r)
  <2>1. r.e \in [DOMAIN r.e -> NeglogNums]
    BY <1>2, <1>3 DEF NeglogNum, NeglogNums
  <2> QED BY <1>1, <1>2, <2>1 DEF IsWeight
<1>5. ASSUME NEW f
      PROVE  Expected(r, f) = IF Expected(w, f) >= 0 THEN Expected(w, f) ELSE 0 - Expected(w, f)
  <2>1. CASE f \notin DOMAIN w.e
    <3>1. f \notin DOMAIN r.e
      BY <1>2, <2>1
    <3>2. Expected(r, f) = 0 /\ Expected(w, f) = 0
      BY <2>1, <3>1 DEF Expected
    <3> QED BY <3>2
  <2>2. CASE f \in DOMAIN w.e
    <3> DEFINE m == w.e[f].mag
    <3>1. m \in Nat /\ Expected(w, f) = IF w.e[f].sign_x THEN m ELSE 0 - m
      BY <1>3, <2>2 DEF Expected, GetOrigNum
    <3>2. Expected(r, f) = m
      BY <1>2, <1>3, <2>2 DEF Expected, GetOrigNum, NeglogNum
    <3> HIDE DEF m
    <3> QED BY <3>1, <3>2
  <2> QED BY <2>1, <2>2
<1> QED BY <1>2, <1>4, <1>5 DEF r

-----------------------------------------------------------------------------
(* Folds.  The sums over states, arcs and paths and the products over the   *)
(* arcs of a path are folds; that a fold computes what it should is shown   *)
(* by taking the smallest set for which it does not.                        *)

\* The fold over a set takes an element, then folds what is left.
Pick(s) == CHOOSE x \in s : TRUE

\* The two operations that are folded, and what an empty fold is.
Op(op, a, b) == IF op = "plus" THEN a + b ELSE a * b
Base(op) == IF op = "plus" THEN 0 ELSE 1

\* The function that MapThenFoldSet chooses, and the fold.
Rec(op, v, S, g) ==
  g = [s \in SUBSET S |-> IF s = {} THEN Base(op) ELSE Op(op, v[Pick(s)], g[s \ {Pick(s)}])]
Fold(op, v, S) == (CHOOSE g : Rec(op, v, S, g))[S]

\* Every value that is folded is a natural number.
AllNat(v, S) == \A x \in S : v[x] \in Nat

\* Among sets of elements of a finite set there is a smallest one.
LEMMA Smallest ==
  ASSUME NEW S, IsFiniteSet(S), NEW Bad \in SUBSET SUBSET S, Bad # {}
  PROVE  \E t \in Bad : \A u \in Bad : u \subseteq t => u = t
<1>1. IsWellFoundedOn(StrictSubsetOrdering(S), FiniteSubsetsOf(S))
  BY FS_StrictSubsetOrderingWellFounded
<1>2. FiniteSubsetsOf(S) = SUBSET S
  BY FS_FiniteSubsetsOfFinite
<1>3. \E t \in Bad : \A u \in Bad : ~ (<<u, t>> \in StrictSubsetOrdering(S))
  BY <1>1, <1>2, WFMin
<1> QED BY <1>3 DEF StrictSubsetOrdering

\* What is picked is in the set.
LEMMA PickIn == \A s : s # {} => Pick(s) \in s
  BY DEF Pick

\* Both operations are commutative and associative on Nat, with a neutral element.
LEMMA OpType ==
  ASSUME NEW op, NEW a \in Nat, NEW b \in Nat, NEW c \in Nat
  PROVE  /\ Op(op, a, b) \in Nat /\ Base(op) \in Nat
         /\ Op(op, a, Op(op, b, c)) = Op(op, b, Op(op, a, c))
         /\ Op(op, Op(op, a, b), c) = Op(op, a, Op(op, b, c))
         /\ Op(op, Base(op), a) = a
<1>1. /\ a + b \in Nat /\ a + (b + c) = b + (a + c) /\ (a + b) + c = a + (b + c) /\ 0 + a = a
  OBVIOUS
<1>2. a * b \in Nat
  OBVIOUS
<1>3. a * (b * c) = b * (a * c) /\ (a * b) * c = a * (b * c) /\ 1 * a = a
  OBVIOUS
<1> QED BY <1>1, <1>2, <1>3 DEF Op, Base

\* Two values can be folded in either order.
LEMMA OpSwap ==
  ASSUME NEW op, NEW a \in Nat, NEW b \in Nat, NEW c \in Nat
  PROVE  Op(op, a, Op(op, b, c)) = Op(op, b, Op(op, a, c))
<1>1. a + (b + c) = b + (a + c)
  OBVIOUS
<1>2. a * (b * c) = b * (a * c)
  OBVIOUS
<1> QED BY <1>1, <1>2 DEF Op

\* What the function chosen by a fold is for a set.
LEMMA RecStep ==
  ASSUME NEW op, NEW v, NEW S, NEW g, Rec(op, v, S, g), NEW t \in SUBSET S
  PROVE  g[t] = IF t = {} THEN Base(op) ELSE Op(op, v[Pick(t)], g[t \ {Pick(t)}])
  BY DEF Rec

\* Two such functions agree on the sets that both know.
LEMMA RecUnique ==
  ASSUME NEW op, NEW v, NEW S, NEW U, NEW g, NEW h, Rec(op, v, S, g), Rec(op, v, U, h),
         NEW T \in SUBSET (S \cap U), IsFiniteSet(T)
  PROVE  g[T] = h[T]
<1> DEFINE Bad == {t \in SUBSET T : g[t] # h[t]}
<1> SUFFICES ASSUME Bad # {} PROVE FALSE
  OBVIOUS
<1>0. Bad \in SUBSET SUBSET T
  OBVIOUS
<1>a. \E t \in Bad : \A u \in Bad : u \subseteq t => u = t
  <2> HIDE DEF Bad
  <2> QED BY <1>0, Smallest
<1>1. PICK t \in Bad : \A u \in Bad : u \subseteq t => u = t
  BY <1>a
<1> DEFINE u == t \ {Pick(t)}
<1>2. t # {} => u \in SUBSET T /\ u # t /\ u \subseteq t
  BY PickIn
<1>3. t # {} => g[u] = h[u]
  BY <1>1, <1>2
<1>4. t \in SUBSET S /\ t \in SUBSET U
  OBVIOUS
<1>5. /\ g[t] = IF t = {} THEN Base(op) ELSE Op(op, v[Pick(t)], g[u])
      /\ h[t] = IF t = {} THEN Base(op) ELSE Op(op, v[Pick(t)], h[u])
  BY <1>4 DEF Rec
<1> QED BY <1>1, <1>3, <1>5

\* There is such a function for every finite set.
LEMMA RecExists ==
  ASSUME NEW op, NEW v, NEW S, IsFiniteSet(S)
  PROVE  \E g : Rec(op, v, S, g)
<1> DEFINE Bad == {t \in SUBSET S : ~ \E g : Rec(op, v, t, g)}
<1> SUFFICES ASSUME Bad # {} PROVE FALSE
  OBVIOUS
<1>0. Bad \in SUBSET SUBSET S
  OBVIOUS
<1>a. \E t \in Bad : \A u \in Bad : u \subseteq t => u = t
  <2> HIDE DEF Bad
  <2> QED BY <1>0, Smallest
<1>1. PICK t \in Bad : \A u \in Bad : u \subseteq t => u = t
  BY <1>a
<1>2. \A u \in SUBSET t : u # t => \E g : Rec(op, v, u, g)
  BY <1>1
<1> DEFINE h(u) == CHOOSE g : Rec(op, v, u, g)
           rest(u) == u \ {Pick(u)}
           value(u) == IF u = {} THEN Base(op) ELSE Op(op, v[Pick(u)], h(rest(u))[rest(u)])
           G == [u \in SUBSET t |-> IF u # t THEN h(u)[u] ELSE value(u)]
<1>3. \A u \in SUBSET t : u # t => Rec(op, v, u, h(u))
  BY <1>2
<1>4. \A u \in SUBSET t : u # {} => rest(u) \in SUBSET t /\ rest(u) # t /\ rest(u) \in SUBSET u /\ rest(u) # u
  BY PickIn
<1>5. \A u \in SUBSET t : u # {} => G[rest(u)] = h(rest(u))[rest(u)]
  BY <1>4
<1>6. \A u \in SUBSET t : G[u] = value(u)
  <2> SUFFICES ASSUME NEW u \in SUBSET t, u # t PROVE h(u)[u] = value(u)
    OBVIOUS
  <2>1. h(u)[u] = IF u = {} THEN Base(op) ELSE Op(op, v[Pick(u)], h(u)[rest(u)])
    <3>1. Rec(op, v, u, h(u)) /\ u \in SUBSET u
      BY <1>3
    <3> HIDE DEF h
    <3> QED BY <3>1, RecStep
  <2>2. u # {} => h(u)[rest(u)] = h(rest(u))[rest(u)]
    <3> SUFFICES ASSUME u # {} PROVE h(u)[rest(u)] = h(rest(u))[rest(u)]
      OBVIOUS
    <3>1. IsFiniteSet(rest(u)) /\ rest(u) \in SUBSET (u \cap rest(u))
      BY <1>4, FS_Subset
    <3>2. Rec(op, v, u, h(u)) /\ Rec(op, v, rest(u), h(rest(u)))
      BY <1>3, <1>4
    <3> HIDE DEF h, rest
    <3> QED BY <3>1, <3>2, RecUnique
  <2> QED BY <2>1, <2>2
<1>7. Rec(op, v, t, G)
  <2>1. \A u \in SUBSET t : G[u] = IF u = {} THEN Base(op) ELSE Op(op, v[Pick(u)], G[rest(u)])
    <3>1. \A u \in SUBSET t : u # {} => value(u) = Op(op, v[Pick(u)], G[rest(u)])
      <4> SUFFICES ASSUME NEW u \in SUBSET t, u # {} PROVE value(u) = Op(op, v[Pick(u)], G[rest(u)])
        OBVIOUS
      <4>1. G[rest(u)] = h(rest(u))[rest(u)]
        BY <1>5
      <4> HIDE DEF h, rest, G
      <4> QED BY <4>1
    <3>2. value({}) = Base(op)
      OBVIOUS
    <3> HIDE DEF value, G, rest
    <3> QED BY <3>1, <3>2, <1>6
  <2>2. G = [u \in SUBSET t |-> G[u]]
    OBVIOUS
  <2> HIDE DEF G
  <2> QED BY <2>1, <2>2 DEF Rec
<1> QED BY <1>7

\* A fold of a nonempty set is one element and the fold of what is left.
LEMMA FoldRec ==
  ASSUME NEW op, NEW v, NEW S, IsFiniteSet(S)
  PROVE  Fold(op, v, S) = IF S = {} THEN Base(op)
                           ELSE Op(op, v[Pick(S)], Fold(op, v, S \ {Pick(S)}))
<1> DEFINE h(u) == CHOOSE g : Rec(op, v, u, g)
           rest == S \ {Pick(S)}
<1>1. IsFiniteSet(rest)
  BY FS_Subset
<1>2. Rec(op, v, S, h(S)) /\ Rec(op, v, rest, h(rest))
  BY <1>1, RecExists
<1>3. Fold(op, v, S) = h(S)[S] /\ Fold(op, v, rest) = h(rest)[rest]
  BY DEF Fold
<1>4. rest \in SUBSET (S \cap rest)
  OBVIOUS
<1>5. h(S)[S] = IF S = {} THEN Base(op) ELSE Op(op, v[Pick(S)], h(S)[rest])
  BY <1>2 DEF Rec
<1>6. h(S)[rest] = h(rest)[rest]
  <2> HIDE DEF h, rest
  <2> QED BY <1>1, <1>2, <1>4, RecUnique
<1> QED BY <1>3, <1>5, <1>6

\* An empty fold is the neutral element.
LEMMA FoldEmpty ==
  ASSUME NEW op, NEW v
  PROVE  Fold(op, v, {}) = Base(op)
  BY FoldRec, FS_EmptySet

\* A fold of natural numbers is one.
LEMMA FoldType ==
  ASSUME NEW op, NEW S, IsFiniteSet(S), NEW v, AllNat(v, S)
  PROVE  Fold(op, v, S) \in Nat
<1> DEFINE Bad == {t \in SUBSET S : Fold(op, v, t) \notin Nat}
<1> SUFFICES ASSUME Bad # {} PROVE FALSE
  OBVIOUS
<1>0. Bad \in SUBSET SUBSET S
  OBVIOUS
<1>a. \E t \in Bad : \A u \in Bad : u \subseteq t => u = t
  <2> HIDE DEF Bad
  <2> QED BY <1>0, Smallest
<1>1. PICK t \in Bad : \A u \in Bad : u \subseteq t => u = t
  BY <1>a
<1>2. t \in SUBSET S /\ IsFiniteSet(t)
  BY FS_Subset
<1>3. Fold(op, v, t) = IF t = {} THEN Base(op) ELSE Op(op, v[Pick(t)], Fold(op, v, t \ {Pick(t)}))
  BY <1>2, FoldRec
<1>4. t # {} => Fold(op, v, t \ {Pick(t)}) \in Nat /\ v[Pick(t)] \in Nat
  BY <1>1, PickIn DEF AllNat
<1>5. t # {} => Op(op, v[Pick(t)], Fold(op, v, t \ {Pick(t)})) \in Nat
  BY <1>4, OpType
<1>6. Base(op) \in Nat
  BY DEF Base
<1> QED BY <1>3, <1>5, <1>6

\* A fold may begin with any element.
LEMMA FoldAny ==
  ASSUME NEW op, NEW S, IsFiniteSet(S), NEW v, AllNat(v, S), NEW x \in S
  PROVE  Fold(op, v, S) = Op(op, v[x], Fold(op, v, S \ {x}))
<1> DEFINE Bad == {t \in SUBSET S : \E y \in t : Fold(op, v, t) # Op(op, v[y], Fold(op, v, t \ {y}))}
<1> SUFFICES ASSUME Bad # {} PROVE FALSE
  BY S \in SUBSET S
<1>0. Bad \in SUBSET SUBSET S
  OBVIOUS
<1>a. \E t \in Bad : \A u \in Bad : u \subseteq t => u = t
  <2> HIDE DEF Bad
  <2> QED BY <1>0, Smallest
<1>1. PICK t \in Bad : \A u \in Bad : u \subseteq t => u = t
  BY <1>a
<1>2. PICK y \in t : Fold(op, v, t) # Op(op, v[y], Fold(op, v, t \ {y}))
  OBVIOUS
<1> DEFINE p == Pick(t)
           r == t \ {y, p}
<1>3. t \in SUBSET S /\ IsFiniteSet(t) /\ p \in t
  BY FS_Subset, PickIn
<1>4. Fold(op, v, t) = Op(op, v[p], Fold(op, v, t \ {p}))
  BY <1>3, FoldRec
<1>5. y # p
  BY <1>2, <1>4
<1>6. Fold(op, v, t \ {p}) = Op(op, v[y], Fold(op, v, r))
  <2>1. t \ {p} \in SUBSET S /\ t \ {p} # t /\ t \ {p} \subseteq t /\ y \in t \ {p} /\ (t \ {p}) \ {y} = r
    BY <1>3, <1>5
  <2> QED BY <1>1, <2>1
<1>7. Fold(op, v, t \ {y}) = Op(op, v[p], Fold(op, v, r))
  <2>1. t \ {y} \in SUBSET S /\ t \ {y} # t /\ t \ {y} \subseteq t /\ p \in t \ {y} /\ (t \ {y}) \ {p} = r
    BY <1>3, <1>5
  <2> QED BY <1>1, <2>1
<1>8. Fold(op, v, r) \in Nat /\ v[p] \in Nat /\ v[y] \in Nat
  <2>1. IsFiniteSet(r) /\ r \subseteq S
    BY <1>3, FS_Subset
  <2> QED BY <1>2, <1>3, <2>1, FoldType DEF AllNat
<1> HIDE DEF r, p
<1>9. Op(op, v[p], Op(op, v[y], Fold(op, v, r))) = Op(op, v[y], Op(op, v[p], Fold(op, v, r)))
  BY <1>8, OpSwap
<1> QED BY <1>2, <1>4, <1>6, <1>7, <1>9

\* Folds of equal values are equal.
LEMMA FoldSame ==
  ASSUME NEW op, NEW S, IsFiniteSet(S), NEW v, NEW w, \A x \in S : v[x] = w[x]
  PROVE  Fold(op, v, S) = Fold(op, w, S)
<1> DEFINE Bad == {t \in SUBSET S : Fold(op, v, t) # Fold(op, w, t)}
<1> SUFFICES ASSUME Bad # {} PROVE FALSE
  BY S \in SUBSET S
<1>0. Bad \in SUBSET SUBSET S
  OBVIOUS
<1>a. \E t \in Bad : \A u \in Bad : u \subseteq t => u = t
  <2> HIDE DEF Bad
  <2> QED BY <1>0, Smallest
<1>1. PICK t \in Bad : \A u \in Bad : u \subseteq t => u = t
  BY <1>a
<1>2. t \in SUBSET S /\ IsFiniteSet(t)
  BY FS_Subset
<1> DEFINE r == t \ {Pick(t)}
<1>3. /\ Fold(op, v, t) = IF t = {} THEN Base(op) ELSE Op(op, v[Pick(t)], Fold(op, v, r))
      /\ Fold(op, w, t) = IF t = {} THEN Base(op) ELSE Op(op, w[Pick(t)], Fold(op, w, r))
  BY <1>2, FoldRec
<1>4. t # {} => Fold(op, v, r) = Fold(op, w, r) /\ v[Pick(t)] = w[Pick(t)]
  BY <1>1, PickIn
<1> QED BY <1>3, <1>4

-----------------------------------------------------------------------------
(* Sums.                                                                    *)

\* The sum of the values v[x] for all x in S.
Sum(v, S) == Fold("plus", v, S)

\* An empty sum is 0.
LEMMA SumEmpty == \A v : Sum(v, {}) = 0
  BY FoldEmpty DEF Sum, Base

\* A sum of natural numbers is one.
LEMMA SumType ==
  ASSUME NEW S, IsFiniteSet(S), NEW v, AllNat(v, S)
  PROVE  Sum(v, S) \in Nat
  BY FoldType DEF Sum

\* Any element can be taken out of a sum.
LEMMA SumAny ==
  ASSUME NEW S, IsFiniteSet(S), NEW v, AllNat(v, S), NEW x \in S
  PROVE  Sum(v, S) = v[x] + Sum(v, S \ {x})
  BY FoldAny DEF Sum, Op

\* Sums of equal values are equal.
LEMMA SumSame ==
  ASSUME NEW S, IsFiniteSet(S), NEW v, NEW w, \A x \in S : v[x] = w[x]
  PROVE  Sum(v, S) = Sum(w, S)
  BY FoldSame DEF Sum

\* The sum of one value is the value.
LEMMA SumOne == 
  ASSUME NEW x, NEW v, v[x] \in Nat
  PROVE  Sum(v, {x}) = v[x]
<1>1. Sum(v, {x}) = v[x] + Sum(v, {x} \ {x})
  <2>1. IsFiniteSet({x})
    BY FS_Singleton
  <2>2. AllNat(v, {x})
    BY DEF AllNat
  <2> QED BY <2>1, <2>2, SumAny
<1>2. {x} \ {x} = {}
  OBVIOUS
<1> QED BY <1>1, <1>2, SumEmpty

\* What is needed to show that something holds of the sums over every subset.
LEMMA Peel ==
  ASSUME NEW S, IsFiniteSet(S), NEW v, AllNat(v, S), NEW t \in SUBSET S, t # {}
  PROVE  /\ Pick(t) \in t /\ Pick(t) \in S /\ t \ {Pick(t)} \in SUBSET S
         /\ t \ {Pick(t)} \subseteq t /\ t \ {Pick(t)} # t
         /\ v[Pick(t)] \in Nat /\ Sum(v, t \ {Pick(t)}) \in Nat
         /\ Sum(v, t) = v[Pick(t)] + Sum(v, t \ {Pick(t)})
<1>1. Pick(t) \in t /\ t \ {Pick(t)} # t
  BY PickIn
<1>2. IsFiniteSet(t) /\ IsFiniteSet(t \ {Pick(t)})
  BY FS_Subset
<1>3. AllNat(v, t) /\ AllNat(v, t \ {Pick(t)}) /\ v[Pick(t)] \in Nat
  BY <1>1 DEF AllNat
<1> QED BY <1>1, <1>2, <1>3, SumType, SumAny

\* The sum of sums.
LEMMA SumAdd ==
  ASSUME NEW S, IsFiniteSet(S), NEW v, NEW w, NEW z, AllNat(v, S), AllNat(w, S),
         \A x \in S : z[x] = v[x] + w[x]
  PROVE  Sum(z, S) = Sum(v, S) + Sum(w, S)
<1> DEFINE Bad == {t \in SUBSET S : Sum(z, t) # Sum(v, t) + Sum(w, t)}
<1>1. Bad \in SUBSET SUBSET S
  OBVIOUS
<1>2. SUFFICES ASSUME Bad # {} PROVE FALSE
  BY S \in SUBSET S
<1>3. \E t \in Bad : \A u \in Bad : u \subseteq t => u = t
  <2> HIDE DEF Bad
  <2> QED BY <1>1, <1>2, Smallest
<1>4. PICK t \in Bad : \A u \in Bad : u \subseteq t => u = t
  BY <1>3
<1>5. t # {}
  BY SumEmpty
<1> DEFINE p == Pick(t)
           r == t \ {Pick(t)}
<1>6. AllNat(z, S)
  BY DEF AllNat
<1>7. /\ Sum(v, t) = v[p] + Sum(v, r) /\ v[p] \in Nat /\ Sum(v, r) \in Nat
      /\ Sum(w, t) = w[p] + Sum(w, r) /\ w[p] \in Nat /\ Sum(w, r) \in Nat
      /\ Sum(z, t) = z[p] + Sum(z, r) /\ p \in S /\ r \in SUBSET S /\ r \subseteq t /\ r # t
  BY <1>5, <1>6, Peel
<1>8. Sum(z, r) = Sum(v, r) + Sum(w, r)
  BY <1>4, <1>7
<1>9. z[p] = v[p] + w[p]
  BY <1>7
<1>10. Sum(z, t) # Sum(v, t) + Sum(w, t)
  OBVIOUS
<1> HIDE DEF p, r, Bad
<1> QED BY <1>7, <1>8, <1>9, <1>10

\* A common factor comes out of a sum.
LEMMA SumScale ==
  ASSUME NEW S, IsFiniteSet(S), NEW v, NEW z, AllNat(v, S), NEW c \in Nat,
         \A x \in S : z[x] = c * v[x]
  PROVE  Sum(z, S) = c * Sum(v, S)
<1> DEFINE Bad == {t \in SUBSET S : Sum(z, t) # c * Sum(v, t)}
<1>1. Bad \in SUBSET SUBSET S
  OBVIOUS
<1>2. SUFFICES ASSUME Bad # {} PROVE FALSE
  BY S \in SUBSET S
<1>3. \E t \in Bad : \A u \in Bad : u \subseteq t => u = t
  <2> HIDE DEF Bad
  <2> QED BY <1>1, <1>2, Smallest
<1>4. PICK t \in Bad : \A u \in Bad : u \subseteq t => u = t
  BY <1>3
<1>5. t # {}
  <2>1. c * 0 = 0
    OBVIOUS
  <2> QED BY <2>1, SumEmpty
<1> DEFINE p == Pick(t)
           r == t \ {Pick(t)}
<1>6. AllNat(z, S)
  <2>1. \A a \in Nat : c * a \in Nat
    OBVIOUS
  <2> QED BY <2>1 DEF AllNat
<1>7. /\ Sum(v, t) = v[p] + Sum(v, r) /\ v[p] \in Nat /\ Sum(v, r) \in Nat
      /\ Sum(z, t) = z[p] + Sum(z, r) /\ p \in S /\ r \in SUBSET S /\ r \subseteq t /\ r # t
  BY <1>5, <1>6, Peel
<1>8. Sum(z, r) = c * Sum(v, r)
  BY <1>4, <1>7
<1>9. z[p] = c * v[p]
  BY <1>7
<1>10. Sum(z, t) # c * Sum(v, t)
  OBVIOUS
<1>11. \A a, b \in Nat : c * (a + b) = c * a + c * b
  OBVIOUS
<1> HIDE DEF p, r, Bad
<1>12. c * (v[p] + Sum(v, r)) = c * v[p] + c * Sum(v, r)
  BY <1>7, <1>11
<1> QED BY <1>7, <1>8, <1>9, <1>10, <1>12

\* A sum of zeros is 0.
LEMMA SumZero ==
  ASSUME NEW S, IsFiniteSet(S), NEW v, \A x \in S : v[x] = 0
  PROVE  Sum(v, S) = 0
<1> DEFINE Bad == {t \in SUBSET S : Sum(v, t) # 0}
<1>1. Bad \in SUBSET SUBSET S
  OBVIOUS
<1>2. SUFFICES ASSUME Bad # {} PROVE FALSE
  BY S \in SUBSET S
<1>3. \E t \in Bad : \A u \in Bad : u \subseteq t => u = t
  <2> HIDE DEF Bad
  <2> QED BY <1>1, <1>2, Smallest
<1>4. PICK t \in Bad : \A u \in Bad : u \subseteq t => u = t
  BY <1>3
<1>5. t # {}
  BY SumEmpty
<1>6. AllNat(v, S)
  BY DEF AllNat
<1>7. Pick(t) \in S /\ t \ {Pick(t)} \in SUBSET S /\ t \ {Pick(t)} \subseteq t /\ t \ {Pick(t)} # t
      /\ Sum(v, t) = v[Pick(t)] + Sum(v, t \ {Pick(t)})
  BY <1>5, <1>6, Peel
<1> QED BY <1>4, <1>7

\* Only a sum of zeros is 0.
LEMMA SumIsZero ==
  ASSUME NEW S, IsFiniteSet(S), NEW v, AllNat(v, S), Sum(v, S) = 0
  PROVE  \A x \in S : v[x] = 0
<1> TAKE x \in S
<1>1. Sum(v, S) = v[x] + Sum(v, S \ {x}) /\ v[x] \in Nat
  BY SumAny DEF AllNat
<1>2. IsFiniteSet(S \ {x}) /\ AllNat(v, S \ {x})
  BY FS_Subset DEF AllNat
<1>3. Sum(v, S \ {x}) \in Nat
  BY <1>2, SumType
<1> QED BY <1>1, <1>3

\* The sum over two disjoint sets.
LEMMA SumUnion ==
  ASSUME NEW S, IsFiniteSet(S), NEW T, IsFiniteSet(T), S \cap T = {},
         NEW v, AllNat(v, S), AllNat(v, T)
  PROVE  Sum(v, S \cup T) = Sum(v, S) + Sum(v, T)
<1> DEFINE Bad == {t \in SUBSET S : Sum(v, t \cup T) # Sum(v, t) + Sum(v, T)}
<1>1. Bad \in SUBSET SUBSET S
  OBVIOUS
<1>2. SUFFICES ASSUME Bad # {} PROVE FALSE
  BY S \in SUBSET S
<1>3. \E t \in Bad : \A u \in Bad : u \subseteq t => u = t
  <2> HIDE DEF Bad
  <2> QED BY <1>1, <1>2, Smallest
<1>4. PICK t \in Bad : \A u \in Bad : u \subseteq t => u = t
  BY <1>3
<1>a. Sum(v, T) \in Nat
  BY SumType
<1>5. t # {}
  <2> SUFFICES ASSUME t = {} PROVE Sum(v, t \cup T) = Sum(v, t) + Sum(v, T)
    OBVIOUS
  <2>1. t \cup T = T /\ Sum(v, t) = 0
    BY SumEmpty
  <2> HIDE DEF Bad
  <2> QED BY <2>1, <1>a
<1> DEFINE p == Pick(t)
           r == t \ {Pick(t)}
<1>7. /\ Sum(v, t) = v[p] + Sum(v, r) /\ v[p] \in Nat /\ Sum(v, r) \in Nat
      /\ p \in t /\ r \in SUBSET S /\ r \subseteq t /\ r # t
  BY <1>5, Peel
<1>b. Sum(v, t \cup T) = v[p] + Sum(v, r \cup T)
  <2>1. IsFiniteSet(t \cup T)
    BY FS_Subset, FS_Union
  <2>2. AllNat(v, t \cup T) /\ p \in t \cup T
    BY <1>7 DEF AllNat
  <2>3. (t \cup T) \ {p} = r \cup T
    BY <1>7
  <2> HIDE DEF p, r
  <2> QED BY <2>1, <2>2, <2>3, SumAny
<1>8. Sum(v, r \cup T) = Sum(v, r) + Sum(v, T)
  BY <1>4, <1>7
<1>10. Sum(v, t \cup T) # Sum(v, t) + Sum(v, T)
  OBVIOUS
<1> HIDE DEF p, r, Bad
<1> QED BY <1>7, <1>8, <1>10, <1>a, <1>b

\* Terms that are 0 can be added.
LEMMA SumExtend ==
  ASSUME NEW T, IsFiniteSet(T), NEW S \in SUBSET T, NEW v, AllNat(v, T), \A x \in T \ S : v[x] = 0
  PROVE  Sum(v, T) = Sum(v, S)
<1>1. IsFiniteSet(S) /\ IsFiniteSet(T \ S) /\ AllNat(v, S) /\ AllNat(v, T \ S)
  BY FS_Subset DEF AllNat
<1>2. S \cap (T \ S) = {} /\ S \cup (T \ S) = T
  OBVIOUS
<1>3. Sum(v, T) = Sum(v, S) + Sum(v, T \ S)
  BY <1>1, <1>2, SumUnion
<1>4. Sum(v, T \ S) = 0
  BY <1>1, SumZero
<1>5. Sum(v, S) \in Nat
  BY <1>1, SumType
<1> QED BY <1>3, <1>4, <1>5

\* The elements of a sum can be renamed.
LEMMA SumImage ==
  ASSUME NEW S, IsFiniteSet(S), NEW h, NEW v, NEW w, AllNat(w, S), \A x \in S : w[x] = v[h[x]],
         \A x, y \in S : h[x] = h[y] => x = y
  PROVE  Sum(v, {h[x] : x \in S}) = Sum(w, S)
<1> DEFINE image(t) == {h[x] : x \in t}
           Bad == {t \in SUBSET S : Sum(v, image(t)) # Sum(w, t)}
<1>1. Bad \in SUBSET SUBSET S
  OBVIOUS
<1>2. SUFFICES ASSUME Bad # {} PROVE FALSE
  BY S \in SUBSET S
<1>3. \E t \in Bad : \A u \in Bad : u \subseteq t => u = t
  <2> HIDE DEF Bad
  <2> QED BY <1>1, <1>2, Smallest
<1>4. PICK t \in Bad : \A u \in Bad : u \subseteq t => u = t
  BY <1>3
<1>5. t # {}
  <2> SUFFICES ASSUME t = {} PROVE Sum(v, image(t)) = Sum(w, t)
    OBVIOUS
  <2>1. image(t) = {}
    OBVIOUS
  <2> HIDE DEF image
  <2> QED BY <2>1, SumEmpty
<1> DEFINE p == Pick(t)
           r == t \ {Pick(t)}
<1>7. /\ Sum(w, t) = w[p] + Sum(w, r) /\ w[p] \in Nat /\ Sum(w, r) \in Nat
      /\ p \in t /\ p \in S /\ r \in SUBSET S /\ r \subseteq t /\ r # t
  <2>1. t \in SUBSET S /\ IsFiniteSet(S) /\ AllNat(w, S)
    OBVIOUS
  <2> HIDE DEF Bad
  <2> QED BY ONLY <1>5, <2>1, Peel
<1>8. Sum(v, image(t)) = v[h[p]] + Sum(v, image(r))
  <2>1. IsFiniteSet(image(t))
    <3>1. IsFiniteSet(t)
      BY FS_Subset
    <3>2. [x \in t |-> h[x]] \in Surjection(t, image(t))
      BY DEF Surjection
    <3> HIDE DEF Bad, image
    <3> QED BY <3>1, <3>2, FS_Surjection
  <2>2. AllNat(v, image(t)) /\ h[p] \in image(t)
    BY <1>7 DEF AllNat
  <2>3. image(t) \ {h[p]} = image(r)
    BY <1>7
  <2> HIDE DEF image, p, r
  <2> QED BY <2>1, <2>2, <2>3, SumAny
<1>9. Sum(v, image(r)) = Sum(w, r)
  BY <1>4, <1>7
<1>10. Sum(v, image(t)) # Sum(w, t) /\ w[p] = v[h[p]]
  BY <1>7
<1> HIDE DEF p, r, Bad, image
<1> QED BY <1>7, <1>8, <1>9, <1>10

\* A sum over disjoint sets is the sum of the sums over each of them.
LEMMA SumPartition ==
  ASSUME NEW L, IsFiniteSet(L), NEW F, NEW v, NEW w,
         \A l \in L : IsFiniteSet(F[l]) /\ AllNat(v, F[l]) /\ w[l] = Sum(v, F[l]),
         \A k, l \in L : k # l => F[k] \cap F[l] = {}
  PROVE  Sum(v, UNION {F[l] : l \in L}) = Sum(w, L)
<1> DEFINE all(t) == UNION {F[l] : l \in t}
           Bad == {t \in SUBSET L : ~ (IsFiniteSet(all(t)) /\ Sum(v, all(t)) = Sum(w, t))}
<1>1. Bad \in SUBSET SUBSET L
  OBVIOUS
<1>2. SUFFICES ASSUME Bad # {} PROVE FALSE
  BY L \in SUBSET L
<1>3. \E t \in Bad : \A u \in Bad : u \subseteq t => u = t
  <2> HIDE DEF Bad
  <2> QED BY <1>1, <1>2, Smallest
<1>4. PICK t \in Bad : \A u \in Bad : u \subseteq t => u = t
  BY <1>3
<1>5. t # {}
  <2> SUFFICES ASSUME t = {} PROVE IsFiniteSet(all(t)) /\ Sum(v, all(t)) = Sum(w, t)
    OBVIOUS
  <2>1. all(t) = {}
    OBVIOUS
  <2> HIDE DEF all
  <2> QED BY <2>1, SumEmpty, FS_EmptySet
<1>6. AllNat(w, L)
  BY SumType DEF AllNat
<1> DEFINE p == Pick(t)
           r == t \ {Pick(t)}
<1>7. /\ Sum(w, t) = w[p] + Sum(w, r) /\ w[p] \in Nat /\ Sum(w, r) \in Nat
      /\ p \in t /\ p \in L /\ r \in SUBSET L /\ r \subseteq t /\ r # t
  <2>1. t \in SUBSET L
    OBVIOUS
  <2> HIDE DEF Bad
  <2>2. /\ Pick(t) \in t /\ Pick(t) \in L /\ t \ {Pick(t)} \in SUBSET L
        /\ t \ {Pick(t)} \subseteq t /\ t \ {Pick(t)} # t
        /\ w[Pick(t)] \in Nat /\ Sum(w, t \ {Pick(t)}) \in Nat
        /\ Sum(w, t) = w[Pick(t)] + Sum(w, t \ {Pick(t)})
    <3>1. IsFiniteSet(L)
      OBVIOUS
    <3> QED BY ONLY <1>5, <1>6, <2>1, <3>1, Peel
  <2> QED BY <2>2
<1>8. IsFiniteSet(all(r)) /\ Sum(v, all(r)) = Sum(w, r)
  BY <1>4, <1>7
<1>9. all(t) = F[p] \cup all(r)
  BY <1>7
<1>10. F[p] \cap all(r) = {}
  <2>1. \A l \in r : l \in L /\ l # p
    BY <1>7
  <2> QED BY <2>1, <1>7
<1>11. AllNat(v, all(r)) /\ AllNat(v, F[p]) /\ IsFiniteSet(F[p]) /\ w[p] = Sum(v, F[p])
  <2>1. \A l \in L : AllNat(v, F[l])
    OBVIOUS
  <2>2. AllNat(v, all(r))
    <3> SUFFICES ASSUME NEW x \in all(r) PROVE v[x] \in Nat
      BY DEF AllNat
    <3>1. PICK l \in r : x \in F[l]
      OBVIOUS
    <3>2. l \in L
      BY <1>7
    <3> QED BY <2>1, <3>1, <3>2 DEF AllNat
  <2> QED BY <1>7, <2>2
<1>12. IsFiniteSet(all(t)) /\ Sum(v, all(t)) = Sum(v, F[p]) + Sum(v, all(r))
  <2> HIDE DEF all, p, r
  <2>1. Sum(v, F[p] \cup all(r)) = Sum(v, F[p]) + Sum(v, all(r))
    BY ONLY <1>8, <1>10, <1>11, SumUnion
  <2>2. IsFiniteSet(F[p] \cup all(r))
    BY <1>8, <1>11, FS_Union
  <2> QED BY <1>9, <2>1, <2>2
<1>13. ~ (IsFiniteSet(all(t)) /\ Sum(v, all(t)) = Sum(w, t))
  OBVIOUS
<1> HIDE DEF p, r, Bad, all
<1> QED BY <1>7, <1>8, <1>11, <1>12, <1>13

\* The order of two sums can be exchanged: n is m with its arguments swapped.
RowsAndColumns(S, T, m, n, a, b) ==
  /\ \A x \in S, y \in T : m[x][y] \in Nat /\ n[y][x] = m[x][y]
  /\ \A x \in S : a[x] = Sum(m[x], T)
  /\ \A y \in T : b[y] = Sum(n[y], S)

\* A table has the same sum by rows and by columns.
LEMMA SumSwap ==
  ASSUME NEW S, IsFiniteSet(S), NEW T, IsFiniteSet(T), NEW m, NEW n, NEW a, NEW b,
         RowsAndColumns(S, T, m, n, a, b)
  PROVE  Sum(a, S) = Sum(b, T)
<1> USE DEF RowsAndColumns
<1> DEFINE part(t) == [y \in T |-> Sum(n[y], t)]
           Bad == {t \in SUBSET S : Sum(a, t) # Sum(part(t), T)}
<1>1. Bad \in SUBSET SUBSET S
  OBVIOUS
<1>a. Sum(part(S), T) = Sum(b, T)
  <2>1. \A y \in T : part(S)[y] = b[y]
    OBVIOUS
  <2> HIDE DEF part
  <2> QED BY <2>1, SumSame
<1>2. SUFFICES ASSUME Bad # {} PROVE FALSE
  <2>1. S \notin Bad => Sum(a, S) = Sum(part(S), T)
    OBVIOUS
  <2> QED BY <2>1, <1>a
<1>3. \E t \in Bad : \A u \in Bad : u \subseteq t => u = t
  <2> HIDE DEF Bad
  <2> QED BY <1>1, <1>2, Smallest
<1>4. PICK t \in Bad : \A u \in Bad : u \subseteq t => u = t
  BY <1>3
<1>5. t # {}
  <2> SUFFICES ASSUME t = {} PROVE Sum(a, t) = Sum(part(t), T)
    OBVIOUS
  <2>1. \A y \in T : part(t)[y] = 0
    BY SumEmpty
  <2> HIDE DEF part
  <2> QED BY <2>1, SumEmpty, SumZero
<1>6. \A x \in S : AllNat(m[x], T)
  BY DEF AllNat
<1>b. \A y \in T : AllNat(n[y], S)
  BY DEF AllNat
<1>c. AllNat(a, S)
  BY <1>6, SumType DEF AllNat
<1> DEFINE p == Pick(t)
           r == t \ {Pick(t)}
<1>7. /\ Sum(a, t) = a[p] + Sum(a, r) /\ a[p] \in Nat /\ Sum(a, r) \in Nat
      /\ p \in t /\ p \in S /\ r \in SUBSET S /\ r \subseteq t /\ r # t
  <2>1. t \in SUBSET S
    OBVIOUS
  <2> HIDE DEF Bad
  <2>2. /\ Pick(t) \in t /\ Pick(t) \in S /\ t \ {Pick(t)} \in SUBSET S
        /\ t \ {Pick(t)} \subseteq t /\ t \ {Pick(t)} # t
        /\ a[Pick(t)] \in Nat /\ Sum(a, t \ {Pick(t)}) \in Nat
        /\ Sum(a, t) = a[Pick(t)] + Sum(a, t \ {Pick(t)})
    <3>1. IsFiniteSet(S)
      OBVIOUS
    <3> QED BY ONLY <1>5, <1>c, <2>1, <3>1, Peel
  <2> QED BY <2>2
<1>8. \A y \in T : part(t)[y] = m[p][y] + part(r)[y] /\ part(r)[y] \in Nat
  <2> TAKE y \in T
  <2>1. Sum(n[y], t) = n[y][p] + Sum(n[y], r) /\ Sum(n[y], r) \in Nat
    <3>1. t \in SUBSET S /\ AllNat(n[y], S) /\ IsFiniteSet(S)
      BY <1>b
    <3> HIDE DEF Bad, part
    <3> QED BY ONLY <1>5, <3>1, Peel
  <2> QED BY <2>1, <1>7
<1>9. Sum(part(t), T) = Sum(m[p], T) + Sum(part(r), T)
  <2>1. AllNat(part(r), T) /\ AllNat(m[p], T)
    BY <1>6, <1>7, <1>8 DEF AllNat
  <2> HIDE DEF part, p, r
  <2> QED BY <1>8, <2>1, SumAdd
<1>10. Sum(a, r) = Sum(part(r), T) /\ a[p] = Sum(m[p], T)
  BY <1>4, <1>7
<1>11. Sum(a, t) # Sum(part(t), T)
  OBVIOUS
<1> HIDE DEF p, r, part, Bad
<1> QED BY <1>7, <1>9, <1>10, <1>11

-----------------------------------------------------------------------------
(* Paths.                                                                   *)

\* There are finitely many states, arcs and paths.
LEMMA StatesFinite ==
  /\ IsFiniteSet(States) /\ States \subseteq Nat /\ 0 \in States
  /\ IsFiniteSet(Arcs) /\ IsFiniteSet(SUBSET States)
  /\ \A S \in SUBSET States : IsFiniteSet(S)
  /\ \A B \in SUBSET SUBSET States : IsFiniteSet(B)
<1>1. NumStates \in Nat \ {0}
  BY ConstantsAssumption
<1>2. States \subseteq Nat /\ 0 \in States
  BY <1>1 DEF States
<1>3. IsFiniteSet(States)
  BY <1>1, FS_Interval DEF States
<1>4. IsFiniteSet(Arcs)
  <2>1. IsFiniteSet(States \X States)
    BY <1>3, FS_Product
  <2>2. Arcs \subseteq States \X States
    BY DEF Arcs
  <2> QED BY <2>1, <2>2, FS_Subset
<1>5. IsFiniteSet(SUBSET States)
  BY <1>3, FS_SUBSET
<1> QED BY <1>2, <1>3, <1>4, <1>5, FS_Subset

\* A least element is the minimum.
LEMMA MinIs ==
  ASSUME NEW S \in SUBSET Nat, NEW m \in S, \A k \in S : m <= k
  PROVE  Min(S) = m
<1>1. Min(S) \in S /\ \A k \in S : Min(S) <= k
  BY DEF Min
<1>2. m <= Min(S) /\ Min(S) <= m /\ m \in Nat /\ Min(S) \in Nat
  BY <1>1
<1> QED BY <1>2

\* A greatest element is the maximum.
LEMMA MaxIs ==
  ASSUME NEW S \in SUBSET Nat, NEW m \in S, \A k \in S : k <= m
  PROVE  Max(S) = m
<1>1. Max(S) \in S /\ \A k \in S : Max(S) >= k
  <2>1. \A k \in S : m >= k
    OBVIOUS
  <2> QED BY <2>1 DEF Max
<1>2. m >= Max(S) /\ Max(S) >= m /\ m \in Nat /\ Max(S) \in Nat
  BY <1>1
<1> QED BY <1>2

\* A set of states has a first one.
LEMMA MinIn ==
  ASSUME NEW S \in SUBSET States, S # {}
  PROVE  Min(S) \in S /\ \A k \in S : Min(S) <= k
<1> DEFINE B == {0 .. m : m \in S}
<1>1. B \in SUBSET SUBSET States /\ B # {}
  <2>1. ASSUME NEW m \in States PROVE 0 .. m \subseteq States
    BY ConstantsAssumption DEF States
  <2> QED BY <2>1
<1>2. \E t \in B : \A u \in B : u \subseteq t => u = t
  <2>1. IsFiniteSet(States)
    BY StatesFinite
  <2> HIDE DEF B
  <2> QED BY ONLY <1>1, <2>1, Smallest
<1>3. PICK m \in S : \A u \in B : u \subseteq 0 .. m => u = 0 .. m
  BY <1>2
<1>4. ASSUME NEW k \in S PROVE m <= k
  <2>1. k \in Nat /\ m \in Nat
    BY StatesFinite
  <2>2. 0 .. k \subseteq 0 .. m => 0 .. k = 0 .. m
    BY <1>3
  <2>3. m \in 0 .. k => m <= k
    BY <2>1
  <2>4. k <= m => 0 .. k \subseteq 0 .. m
    BY <2>1
  <2>5. m \in 0 .. m
    BY <2>1
  <2> QED BY <2>1, <2>2, <2>3, <2>4, <2>5
<1> QED BY <1>4 DEF Min

\* A set of states has a last one.
LEMMA MaxIn ==
  ASSUME NEW S \in SUBSET States, S # {}
  PROVE  Max(S) \in S /\ \A k \in S : k <= Max(S)
<1> DEFINE M == {m \in States : \A k \in S : k <= m}
<1>1. NumStates - 1 \in M /\ M \in SUBSET States
  BY ConstantsAssumption DEF States
<1>2. Min(M) \in M /\ \A m \in M : Min(M) <= m
  <2> HIDE DEF M
  <2> QED BY <1>1, MinIn
<1> DEFINE m == Min(M)
<1>3. m \in States /\ \A k \in S : k <= m
  BY <1>2
<1>4. m \in S
  <2> SUFFICES ASSUME m \notin S PROVE FALSE
    OBVIOUS
  <2>1. PICK j \in S : TRUE
    OBVIOUS
  <2>2. \A k \in S : k <= m - 1
    <3> HIDE DEF m
    <3> QED BY <1>3, StatesFinite
  <2>3. m - 1 \in M
    <3>1. m \in States /\ j \in States /\ j <= m - 1
      BY <1>3, <2>1, <2>2
    <3>2. m - 1 \in States
      <4> HIDE DEF m
      <4> QED BY <3>1, ConstantsAssumption DEF States
    <3> HIDE DEF m
    <3> QED BY <2>2, <3>2
  <2>4. m <= m - 1 /\ m \in Nat
    <3>1. m \in Nat
      BY <1>3, StatesFinite
    <3> HIDE DEF M
    <3> QED BY <1>2, <2>3, <3>1
  <2> HIDE DEF m
  <2> QED BY <2>4
<1> HIDE DEF m
<1>5. Max(S) = m
  BY <1>3, <1>4, MaxIs, StatesFinite
<1> QED BY <1>3, <1>4, <1>5

\* The states that n can have an arc to.
Later(n) == {l \in States : l > n}

\* The paths from n are the sets of states whose first is n.
LEMMA PathsFromIs ==
  ASSUME NEW n \in States
  PROVE  PathsFrom(n) = {p \in SUBSET States : n \in p /\ \A k \in p : n <= k}
<1>1. ASSUME NEW p \in PathsFrom(n) PROVE p \in SUBSET States /\ n \in p /\ \A k \in p : n <= k
  <2>1. PICK m \in States : p \in Paths(n, m)
    BY DEF PathsFrom
  <2>2. p \in SUBSET (n .. m) /\ n \in p
    BY <2>1 DEF Paths
  <2>3. n .. m \subseteq States /\ \A k \in n .. m : n <= k
    BY ConstantsAssumption DEF States
  <2> QED BY <2>2, <2>3
<1>2. ASSUME NEW p \in SUBSET States, n \in p, \A k \in p : n <= k PROVE p \in PathsFrom(n)
  <2>1. Max(p) \in p /\ \A k \in p : k <= Max(p)
    BY <1>2, MaxIn
  <2>2. p \in Paths(n, Max(p))
    BY <1>2, <2>1, StatesFinite DEF Paths
  <2> QED BY <2>1, <2>2 DEF PathsFrom
<1> QED BY <1>1, <1>2

\* The paths from n to m are those from n whose last state is m.
LEMMA PathsIs ==
  ASSUME NEW n \in States, NEW m \in States
  PROVE  Paths(n, m) = {p \in PathsFrom(n) : Max(p) = m}
<1>1. ASSUME NEW p \in Paths(n, m) PROVE p \in PathsFrom(n) /\ Max(p) = m
  <2>1. p \in PathsFrom(n)
    BY DEF PathsFrom
  <2>2. p \in SUBSET Nat /\ m \in p /\ \A k \in p : k <= m
    BY StatesFinite DEF Paths
  <2> QED BY <2>1, <2>2, MaxIs
<1>2. ASSUME NEW p \in PathsFrom(n), Max(p) = m PROVE p \in Paths(n, m)
  <2>1. p \in SUBSET States /\ n \in p /\ \A k \in p : n <= k
    BY PathsFromIs
  <2>2. \A k \in p : k <= m
    BY <1>2, <2>1, MaxIn
  <2>3. m \in p
    BY <1>2, <2>1, MaxIn
  <2> QED BY <2>1, <2>2, <2>3, StatesFinite DEF Paths
<1> QED BY <1>1, <1>2

\* A path from n ends there, or goes on with a path from a later state.
LEMMA PathsFromAre ==
  ASSUME NEW n \in States
  PROVE  PathsFrom(n) = {{n}} \cup UNION {{{n} \cup q : q \in PathsFrom(l)} : l \in Later(n)}
<1>1. ASSUME NEW p \in PathsFrom(n), p # {n}
      PROVE  \E l \in Later(n) : \E q \in PathsFrom(l) : p = {n} \cup q
  <2> DEFINE q == p \ {n}
  <2>1. p \in SUBSET States /\ n \in p /\ \A k \in p : n <= k
    BY PathsFromIs
  <2>2. q \in SUBSET Nat /\ q # {} /\ q \in SUBSET States
    BY <1>1, <2>1, StatesFinite
  <2>3. Min(q) \in q /\ \A k \in q : Min(q) <= k
    <3> HIDE DEF q
    <3> QED BY <2>2, MinIn
  <2>4. Min(q) \in Later(n)
    <3>1. Min(q) \in States /\ Min(q) # n /\ n <= Min(q)
      BY <2>1, <2>2, <2>3
    <3>2. n \in Nat /\ Min(q) \in Nat
      BY <3>1, StatesFinite
    <3>3. Min(q) > n
      <4> HIDE DEF q
      <4> QED BY <3>1, <3>2
    <3> HIDE DEF q
    <3> QED BY <3>1, <3>3 DEF Later
  <2>5. q \in PathsFrom(Min(q))
    <3>1. Min(q) \in States
      BY <2>2, <2>3
    <3> HIDE DEF q
    <3> QED BY <3>1, <2>2, <2>3, PathsFromIs
  <2> QED BY <2>1, <2>4, <2>5
<1>2. ASSUME NEW l \in Later(n), NEW q \in PathsFrom(l) PROVE {n} \cup q \in PathsFrom(n)
  <2>1. q \in SUBSET States /\ \A k \in q : l <= k
    BY PathsFromIs DEF Later
  <2>2. \A k \in {n} \cup q : n <= k
    BY <2>1, StatesFinite DEF Later
  <2> QED BY <2>1, <2>2, PathsFromIs
<1>3. {n} \in PathsFrom(n)
  BY PathsFromIs, StatesFinite
<1>4. ASSUME NEW p \in PathsFrom(n)
      PROVE  p \in {{n}} \cup UNION {{{n} \cup q : q \in PathsFrom(l)} : l \in Later(n)}
  BY <1>1
<1>5. ASSUME NEW p \in {{n}} \cup UNION {{{n} \cup q : q \in PathsFrom(l)} : l \in Later(n)}
      PROVE  p \in PathsFrom(n)
  <2>1. CASE p = {n}
    BY <1>3, <2>1
  <2>2. CASE p # {n}
    <3>1. \E l \in Later(n) : p \in {{n} \cup q : q \in PathsFrom(l)}
      BY <2>2
    <3>2. PICK l \in Later(n) : \E q \in PathsFrom(l) : p = {n} \cup q
      BY <3>1
    <3> QED BY <1>2, <3>2
  <2> QED BY <2>1, <2>2
<1> QED BY <1>4, <1>5

\* What is known of the weights.
Weighted == weight \in [Arcs -> Nat] /\ final \in [States -> Nat]

\* The weight of a path is the fold of the weights of its arcs.
LEMMA PathWeightIsFold ==
  ASSUME NEW p
  PROVE  PathWeight(p) = Fold("times", weight, ArcsOf(p))
<1> DEFINE S == ArcsOf(p)
           R(g) == g = [s \in SUBSET S |-> IF s = {} THEN 1 ELSE weight[Pick(s)] * g[s \ {Pick(s)}]]
<1>1. ASSUME NEW g PROVE Rec("times", weight, S, g) <=> R(g)
  <2>1. \A s \in SUBSET S :
          (IF s = {} THEN Base("times") ELSE Op("times", weight[Pick(s)], g[s \ {Pick(s)}]))
            = (IF s = {} THEN 1 ELSE weight[Pick(s)] * g[s \ {Pick(s)}])
    BY DEF Base, Op
  <2> QED BY <2>1 DEF Rec
<1>2. (CHOOSE g : Rec("times", weight, S, g)) = (CHOOSE g : R(g))
  <2> HIDE DEF R
  <2> QED BY <1>1
<1>3. PathWeight(p) = (CHOOSE g : R(g))[S]
  BY Zenon DEF PathWeight, FoldSet, MapThenFoldSet, Pick
<1> QED BY <1>2, <1>3 DEF Fold

\* A path consists of states between its ends.
LEMMA PathStates ==
  ASSUME NEW n \in States, NEW p \in PathsFrom(n)
  PROVE  /\ p \in SUBSET States /\ n \in p /\ Max(p) \in p /\ Max(p) \in States
         /\ \A k \in p : n <= k /\ k <= Max(p)
<1>1. p \in SUBSET States /\ n \in p /\ \A k \in p : n <= k
  BY PathsFromIs
<1> QED BY <1>1, MaxIn

\* Every state of a path but the last has one after it.
LEMMA AfterIn ==
  ASSUME NEW p \in SUBSET States, NEW k \in p \ {Max(p)}
  PROVE  After(p, k) \in p /\ After(p, k) > k
<1> DEFINE S == {l \in p : l > k}
<1>1. Max(p) \in p /\ k <= Max(p)
  BY MaxIn
<1>2. k \in Nat /\ Max(p) \in Nat
  BY <1>1, StatesFinite
<1>3. Max(p) \in S
  BY <1>1, <1>2
<1>4. Min(S) \in S
  <2>1. S \in SUBSET States /\ S # {}
    BY <1>3
  <2> HIDE DEF S
  <2> QED BY <2>1, MinIn
<1> QED BY <1>4 DEF After

\* The arcs of a path are arcs of the FST between states of the path.
LEMMA PathArcs ==
  ASSUME NEW p \in SUBSET States
  PROVE  ArcsOf(p) \in SUBSET Arcs /\ IsFiniteSet(ArcsOf(p)) /\ \A a \in ArcsOf(p) : a[1] \in p
<1>1. ASSUME NEW a \in ArcsOf(p) PROVE a \in Arcs /\ a[1] \in p
  <2>1. PICK k \in p \ {Max(p)} : a = <<k, After(p, k)>>
    BY DEF ArcsOf
  <2>2. After(p, k) \in p /\ After(p, k) > k
    BY AfterIn
  <2>3. k \in States /\ After(p, k) \in States /\ k < After(p, k)
    <3>1. k \in Nat /\ After(p, k) \in Nat
      BY <2>2, StatesFinite
    <3> QED BY <2>2, <3>1
  <2> QED BY <2>1, <2>3 DEF Arcs
<1>2. IsFiniteSet(Arcs)
  BY StatesFinite
<1> QED BY <1>1, <1>2, FS_Subset

\* The weights of paths are natural numbers.
LEMMA PathWeightType ==
  ASSUME Weighted, NEW n \in States, NEW p \in PathsFrom(n)
  PROVE  PathWeight(p) \in Nat /\ Accepted(p) \in Nat
<1>1. p \in SUBSET States /\ Max(p) \in States
  BY PathStates
<1>2. ArcsOf(p) \in SUBSET Arcs /\ IsFiniteSet(ArcsOf(p))
  BY <1>1, PathArcs
<1>3. AllNat(weight, ArcsOf(p))
  BY <1>2 DEF AllNat, Weighted
<1>4. PathWeight(p) \in Nat
  BY <1>2, <1>3, PathWeightIsFold, FoldType
<1>5. final[Max(p)] \in Nat
  BY <1>1 DEF Weighted
<1>6. \A a, b \in Nat : a * b \in Nat
  OBVIOUS
<1> QED BY <1>4, <1>5, <1>6 DEF Accepted

\* The path of one state has no arc.
LEMMA PathOfOne ==
  ASSUME NEW n \in States
  PROVE  Max({n}) = n /\ ArcsOf({n}) = {} /\ PathWeight({n}) = 1
<1>1. Max({n}) = n
  BY MaxIs, StatesFinite
<1>2. ArcsOf({n}) = {}
  BY <1>1 DEF ArcsOf
<1> QED BY <1>1, <1>2, PathWeightIsFold, FoldEmpty DEF Base

\* A path that is longer by a first arc has this arc and those of the rest.
LEMMA PathLonger ==
  ASSUME NEW n \in States, NEW l \in Later(n), NEW q \in PathsFrom(l)
  PROVE  /\ Max({n} \cup q) = Max(q)
         /\ ArcsOf({n} \cup q) = {<<n, l>>} \cup ArcsOf(q)
         /\ <<n, l>> \notin ArcsOf(q) /\ <<n, l>> \in Arcs
         /\ n \notin q
<1> DEFINE p == {n} \cup q
<1>1. l \in States /\ l > n /\ n \in Nat /\ l \in Nat
  BY StatesFinite DEF Later
<1>2. q \in SUBSET States /\ l \in q /\ Max(q) \in q /\ \A k \in q : l <= k /\ k <= Max(q)
  BY <1>1, PathStates
<1>3. q \in SUBSET Nat /\ p \in SUBSET Nat
  BY <1>1, <1>2, StatesFinite
<1>4. \A k \in q : n < k
  BY <1>1, <1>2, <1>3
<1>5. Max(p) = Max(q)
  <2>a. Max(q) \in q /\ Max(q) \in Nat /\ n < Max(q)
    BY <1>2, <1>3, <1>4
  <2>b. n <= Max(q)
    BY <1>1, <2>a
  <2>1. Max(q) \in p /\ \A k \in p : k <= Max(q)
    BY <1>2, <2>a, <2>b
  <2> HIDE DEF p
  <2> QED BY <1>3, <2>1, MaxIs
<1>6. n \notin q
  BY <1>1, <1>4
<1>7. After(p, n) = l
  <2> DEFINE S == {k \in p : k > n}
  <2>a. ~ (n > n)
    BY <1>1
  <2>b. S \in SUBSET q
    BY <2>a
  <2>c. l \in S
    BY <1>1, <1>2
  <2>1. S \in SUBSET Nat /\ l \in S /\ \A k \in S : l <= k
    <3> HIDE DEF S
    <3> QED BY <1>2, <1>3, <2>b, <2>c
  <2>2. Min(S) = l
    <3> HIDE DEF S
    <3> QED BY <2>1, MinIs
  <2> QED BY <2>2 DEF After
<1>8. ASSUME NEW k \in q PROVE After(p, k) = After(q, k)
  <2>1. {j \in p : j > k} = {j \in q : j > k}
    BY <1>1, <1>3, <1>4
  <2> HIDE DEF p
  <2> QED BY <2>1 DEF After
<1>9. p \ {Max(p)} = {n} \cup (q \ {Max(q)})
  BY <1>2, <1>5, <1>6
<1>10. ArcsOf(p) = {<<n, l>>} \cup ArcsOf(q)
  <2>1. ArcsOf(p) = {<<k, After(p, k)>> : k \in {n} \cup (q \ {Max(q)})}
    <3> HIDE DEF p
    <3> QED BY <1>9 DEF ArcsOf
  <2> HIDE DEF p
  <2> QED BY <1>7, <1>8, <2>1 DEF ArcsOf
<1>11. <<n, l>> \notin ArcsOf(q)
  BY <1>6 DEF ArcsOf
<1>12. <<n, l>> \in Arcs
  BY <1>1 DEF Arcs
<1> QED BY <1>5, <1>6, <1>10, <1>11, <1>12

\* The weight of a longer path.
LEMMA PathWeightLonger ==
  ASSUME Weighted, NEW n \in States, NEW l \in Later(n), NEW q \in PathsFrom(l)
  PROVE  /\ PathWeight({n} \cup q) = weight[<<n, l>>] * PathWeight(q)
         /\ Accepted({n} \cup q) = weight[<<n, l>>] * Accepted(q)
<1> DEFINE S == ArcsOf({n} \cup q)
           a == <<n, l>>
<1>1. l \in States /\ n \in States
  BY DEF Later
<1>2. q \in SUBSET States /\ {n} \cup q \in SUBSET States
  BY <1>1, PathStates
<1>3. S \in SUBSET Arcs /\ IsFiniteSet(S)
  BY <1>2, PathArcs
<1>4. AllNat(weight, S)
  BY <1>3 DEF AllNat, Weighted
<1>5. S = {a} \cup ArcsOf(q) /\ a \notin ArcsOf(q) /\ Max({n} \cup q) = Max(q) /\ a \in Arcs
  BY PathLonger
<1>6. a \in S /\ S \ {a} = ArcsOf(q)
  BY <1>5
<1>7. Fold("times", weight, S) = Op("times", weight[a], Fold("times", weight, S \ {a}))
  <2> HIDE DEF S, a
  <2> QED BY <1>3, <1>4, <1>6, FoldAny
<1>8. PathWeight({n} \cup q) = weight[a] * PathWeight(q)
  BY <1>6, <1>7, PathWeightIsFold DEF Op
<1>9. PathWeight(q) \in Nat /\ weight[a] \in Nat /\ final[Max(q)] \in Nat
  <2>1. Max(q) \in States
    BY <1>1, PathStates
  <2> QED BY <1>1, <1>5, <2>1, PathWeightType DEF Weighted
<1>10. \A x, y, z \in Nat : (x * y) * z = x * (y * z)
  OBVIOUS
<1>11. (weight[a] * PathWeight(q)) * final[Max(q)] = weight[a] * (PathWeight(q) * final[Max(q)])
  BY <1>9, <1>10
<1> QED BY <1>5, <1>8, <1>11 DEF Accepted

-----------------------------------------------------------------------------
(* Sums over paths.                                                         *)

\* A sum in which one value may not be 0 is this value.
LEMMA SumDelta ==
  ASSUME NEW S, IsFiniteSet(S), NEW x \in S, NEW v, v[x] \in Nat, \A y \in S : y # x => v[y] = 0
  PROVE  Sum(v, S) = v[x]
<1>1. AllNat(v, S)
  BY DEF AllNat
<1>2. Sum(v, S) = v[x] + Sum(v, S \ {x})
  BY <1>1, SumAny
<1>3. Sum(v, S \ {x}) = 0
  <2>1. IsFiniteSet(S \ {x}) /\ \A y \in S \ {x} : v[y] = 0
    BY FS_Subset
  <2> QED BY <2>1, SumZero
<1> QED BY <1>2, <1>3

\* Paths with the same first state and the same rest are the same.
LEMMA SameRest ==
  ASSUME NEW x, NEW s, NEW t, x \notin s, x \notin t, {x} \cup s = {x} \cup t
  PROVE  s = t
<1>1. s = ({x} \cup s) \ {x}
  OBVIOUS
<1>2. t = ({x} \cup t) \ {x}
  OBVIOUS
<1> QED BY ONLY <1>1, <1>2, {x} \cup s = {x} \cup t

\* The sum over the paths from a state, by their first arcs.
ByFirstArc(n, f, h, c, s) ==
  /\ f[{n}] \in Nat
  /\ \A l \in Later(n) :
        /\ c[l] \in Nat /\ AllNat(h, PathsFrom(l)) /\ s[l] = c[l] * Sum(h, PathsFrom(l))
        /\ \A q \in PathsFrom(l) : f[{n} \cup q] = c[l] * h[q]

\* A sum over the paths from a state is that of the path that ends there and, by
\* first arc, those over the paths that go on.
LEMMA FirstArc ==
  ASSUME NEW n \in States, NEW f, NEW h, NEW c, NEW s, ByFirstArc(n, f, h, c, s)
  PROVE  Sum(f, PathsFrom(n)) = f[{n}] + Sum(s, Later(n))
<1> DEFINE F == [l \in Later(n) |-> {{n} \cup q : q \in PathsFrom(l)}]
           longer == UNION {F[l] : l \in Later(n)}
<1>1. \A l \in Later(n) : l \in States /\ l > n /\ n \in Nat /\ l \in Nat
  BY StatesFinite DEF Later
<1>2. IsFiniteSet(Later(n))
  BY StatesFinite DEF Later
<1>3. ASSUME NEW l \in Later(n)
      PROVE  /\ IsFiniteSet(PathsFrom(l)) /\ IsFiniteSet(F[l])
             /\ F[l] \in SUBSET SUBSET States
  <2>1. PathsFrom(l) \in SUBSET SUBSET States
    BY <1>1, PathsFromIs
  <2>2. \A q \in PathsFrom(l) : {n} \cup q \in SUBSET States
    BY <2>1
  <2>3. F[l] = {{n} \cup q : q \in PathsFrom(l)}
    OBVIOUS
  <2>4. F[l] \in SUBSET SUBSET States
    BY <2>2, <2>3
  <2> QED BY <2>1, <2>4, StatesFinite
<1>4. \A l \in Later(n) : \A q \in PathsFrom(l) : n \notin q /\ l \in q /\ \A k \in q : l <= k
  BY <1>1, PathLonger, PathStates
<1>5. ASSUME NEW l \in Later(n)
      PROVE  AllNat(f, F[l]) /\ s[l] = Sum(f, F[l])
  <2> DEFINE to == [q \in PathsFrom(l) |-> {n} \cup q]
             w == [q \in PathsFrom(l) |-> f[{n} \cup q]]
             P == PathsFrom(l)
  <2>1. c[l] \in Nat /\ AllNat(h, P) /\ \A q \in P : w[q] = c[l] * h[q]
    BY DEF ByFirstArc
  <2>a. AllNat(w, P)
    <3>1. \A x, y \in Nat : x * y \in Nat
      OBVIOUS
    <3> HIDE DEF w, P
    <3> QED BY <2>1, <3>1 DEF AllNat
  <2>2. \A q \in P : w[q] = f[to[q]]
    OBVIOUS
  <2>3. ASSUME NEW q \in P, NEW r \in P, to[q] = to[r] PROVE q = r
    <3>1. n \notin q /\ n \notin r
      BY <1>4
    <3>2. {n} \cup q = {n} \cup r
      BY <2>3
    <3> QED BY ONLY <3>1, <3>2, SameRest
  <2>4. F[l] = {to[q] : q \in P}
    <3>1. F[l] = {{n} \cup q : q \in P} /\ \A q \in P : to[q] = {n} \cup q
      OBVIOUS
    <3>2. \A x : x \in F[l] <=> \E q \in P : x = to[q]
      <4> HIDE DEF F, to, P
      <4> QED BY ONLY <3>1
    <3>3. \A x : x \in {to[q] : q \in P} <=> \E q \in P : x = to[q]
      <4> HIDE DEF to, P
      <4> QED BY Zenon
    <3> HIDE DEF F, to, P
    <3> QED BY ONLY <3>2, <3>3
  <2>5. IsFiniteSet(P)
    BY <1>3
  <2>6. Sum(f, {to[q] : q \in P}) = Sum(w, P)
    <3>1. \A q, r \in P : to[q] = to[r] => q = r
      BY <2>3
    <3> HIDE DEF to, w, P
    <3> QED BY ONLY <2>a, <2>2, <2>5, <3>1, SumImage
  <2>7. Sum(w, P) = c[l] * Sum(h, P)
    <3> HIDE DEF w, P
    <3> QED BY ONLY <2>1, <2>5, SumScale
  <2>8. AllNat(f, {to[q] : q \in P})
    <3> HIDE DEF w, P, to
    <3> QED BY ONLY <2>2, <2>a DEF AllNat
  <2>9. s[l] = c[l] * Sum(h, P)
    BY DEF ByFirstArc
  <2> HIDE DEF F, to, w, P
  <2> QED BY <2>4, <2>6, <2>7, <2>8, <2>9
<1>6. ASSUME NEW k \in Later(n), NEW l \in Later(n), k # l PROVE F[k] \cap F[l] = {}
  <2> SUFFICES ASSUME NEW p \in F[k], p \in F[l] PROVE FALSE
    OBVIOUS
  <2>1. PICK q \in PathsFrom(k) : p = {n} \cup q
    OBVIOUS
  <2>2. PICK r \in PathsFrom(l) : p = {n} \cup r
    OBVIOUS
  <2>3. n \notin q /\ k \in q /\ (\A j \in q : k <= j) /\ n \notin r /\ l \in r /\ \A j \in r : l <= j
    BY <1>4
  <2>4. q = r
    BY ONLY <2>1, <2>2, <2>3, SameRest
  <2>5. l \in q /\ k \in r
    BY <2>3, <2>4
  <2>6. k <= l /\ l <= k
    BY ONLY <2>3, <2>5
  <2> QED BY <1>1, <1>6, <2>6
<1>7. Sum(f, longer) = Sum(s, Later(n))
  <2>1. \A l \in Later(n) : IsFiniteSet(F[l]) /\ AllNat(f, F[l]) /\ s[l] = Sum(f, F[l])
    BY <1>3, <1>5
  <2>2. \A k, l \in Later(n) : k # l => F[k] \cap F[l] = {}
    BY <1>6
  <2> HIDE DEF F
  <2> QED BY ONLY <1>2, <2>1, <2>2, SumPartition
<1>8. PathsFrom(n) = {{n}} \cup longer
  <2>1. {F[l] : l \in Later(n)} = {{{n} \cup q : q \in PathsFrom(l)} : l \in Later(n)}
    OBVIOUS
  <2> QED BY <2>1, PathsFromAre
<1>9. {{n}} \cap longer = {}
  <2> SUFFICES ASSUME NEW l \in Later(n), NEW q \in PathsFrom(l), {n} = {n} \cup q PROVE FALSE
    OBVIOUS
  <2> QED BY <1>4
<1>10. IsFiniteSet(longer) /\ IsFiniteSet({{n}})
  <2>1. longer \in SUBSET SUBSET States
    <3>1. \A l \in Later(n) : F[l] \in SUBSET SUBSET States
      BY <1>3
    <3> HIDE DEF F
    <3> QED BY <3>1
  <2> HIDE DEF longer
  <2> QED BY <2>1, StatesFinite, FS_Singleton
<1>11. AllNat(f, longer) /\ AllNat(f, {{n}})
  <2>1. \A l \in Later(n) : AllNat(f, F[l])
    BY <1>5
  <2>2. AllNat(f, longer)
    <3> HIDE DEF F
    <3> QED BY <2>1 DEF AllNat
  <2>3. AllNat(f, {{n}})
    BY DEF AllNat, ByFirstArc
  <2> QED BY <2>2, <2>3
<1>12. Sum(f, {{n}} \cup longer) = Sum(f, {{n}}) + Sum(f, longer)
  <2> HIDE DEF longer
  <2> QED BY ONLY <1>9, <1>10, <1>11, SumUnion
<1>13. Sum(f, {{n}}) = f[{n}]
  BY SumOne DEF ByFirstArc
<1> HIDE DEF longer
<1> QED BY <1>7, <1>8, <1>12, <1>13

\* What a path adds to the sums over the paths to m, over the accepted paths, and
\* over the accepted paths that arc a is on.
Ending(m) == [p \in SUBSET States |-> IF Max(p) = m THEN PathWeight(p) ELSE 0]
Accepting == [p \in SUBSET States |-> Accepted(p)]
Using(a) == [p \in SUBSET States |-> IF a \in ArcsOf(p) THEN Accepted(p) ELSE 0]

\* There are finitely many paths.
LEMMA PathsFinite ==
  ASSUME NEW n \in States
  PROVE  PathsFrom(n) \in SUBSET SUBSET States /\ IsFiniteSet(PathsFrom(n))
<1>1. PathsFrom(n) \in SUBSET SUBSET States
  BY PathsFromIs
<1> QED BY <1>1, StatesFinite

\* What each path adds is a natural number.
LEMMA PathTypes ==
  ASSUME Weighted, NEW n \in States
  PROVE  /\ \A m : AllNat(Ending(m), PathsFrom(n))
         /\ AllNat(Accepting, PathsFrom(n))
         /\ \A a : AllNat(Using(a), PathsFrom(n))
<1>1. \A p \in PathsFrom(n) : p \in SUBSET States /\ PathWeight(p) \in Nat /\ Accepted(p) \in Nat
  BY PathsFinite, PathWeightType
<1>2. ASSUME NEW m PROVE AllNat(Ending(m), PathsFrom(n))
  BY <1>1 DEF AllNat, Ending
<1>3. AllNat(Accepting, PathsFrom(n))
  BY <1>1 DEF AllNat, Accepting
<1>4. ASSUME NEW a PROVE AllNat(Using(a), PathsFrom(n))
  BY <1>1 DEF AllNat, Using
<1> QED BY <1>2, <1>3, <1>4

\* PathSum is a sum over the paths between its ends.
LEMMA PathSumIsFold ==
  ASSUME NEW n, NEW m
  PROVE  PathSum(n, m) = Sum([p \in Paths(n, m) |-> PathWeight(p)], Paths(n, m))
<1> DEFINE S == Paths(n, m)
           v == [p \in S |-> PathWeight(p)]
           R(g) == g = [s \in SUBSET S |-> IF s = {} THEN 0 ELSE PathWeight(Pick(s)) + g[s \ {Pick(s)}]]
<1>1. ASSUME NEW g PROVE Rec("plus", v, S, g) <=> R(g)
  <2>1. \A s \in SUBSET S :
          (IF s = {} THEN Base("plus") ELSE Op("plus", v[Pick(s)], g[s \ {Pick(s)}]))
            = (IF s = {} THEN 0 ELSE PathWeight(Pick(s)) + g[s \ {Pick(s)}])
    BY DEF Base, Op, Pick
  <2> QED BY <2>1 DEF Rec
<1>2. (CHOOSE g : Rec("plus", v, S, g)) = (CHOOSE g : R(g))
  <2> HIDE DEF R, v
  <2> QED BY <1>1
<1>3. PathSum(n, m) = (CHOOSE g : R(g))[S]
  BY Zenon DEF PathSum, MapThenSumSet, MapThenFoldSet, Pick
<1> HIDE DEF R, v
<1>4. PathSum(n, m) = Sum(v, S)
  BY <1>2, <1>3 DEF Fold, Sum
<1> QED BY <1>4 DEF v

\* SumFrom is a sum over the paths from its state.
LEMMA SumFromIsFold ==
  ASSUME NEW n
  PROVE  SumFrom(n) = Sum([p \in PathsFrom(n) |-> Accepted(p)], PathsFrom(n))
<1> DEFINE S == PathsFrom(n)
           v == [p \in S |-> Accepted(p)]
           R(g) == g = [s \in SUBSET S |-> IF s = {} THEN 0 ELSE Accepted(Pick(s)) + g[s \ {Pick(s)}]]
<1>1. ASSUME NEW g PROVE Rec("plus", v, S, g) <=> R(g)
  <2>1. \A s \in SUBSET S :
          (IF s = {} THEN Base("plus") ELSE Op("plus", v[Pick(s)], g[s \ {Pick(s)}]))
            = (IF s = {} THEN 0 ELSE Accepted(Pick(s)) + g[s \ {Pick(s)}])
    BY DEF Base, Op, Pick
  <2> QED BY <2>1 DEF Rec
<1>2. (CHOOSE g : Rec("plus", v, S, g)) = (CHOOSE g : R(g))
  <2> HIDE DEF R, v
  <2> QED BY <1>1
<1>3. SumFrom(n) = (CHOOSE g : R(g))[S]
  BY Zenon DEF SumFrom, MapThenSumSet, MapThenFoldSet, Pick
<1> HIDE DEF R, v
<1>4. SumFrom(n) = Sum(v, S)
  BY <1>2, <1>3 DEF Fold, Sum
<1> QED BY <1>4 DEF v

\* The paths that arc a is on.
PathsThrough(a) == {p \in PathsFrom(0) : a \in ArcsOf(p)}

\* SumThrough is a sum over the paths that its arc is on.
LEMMA SumThroughIsFold ==
  ASSUME NEW a
  PROVE  SumThrough(a) = Sum([p \in PathsThrough(a) |-> Accepted(p)], PathsThrough(a))
<1> DEFINE S == PathsThrough(a)
           v == [p \in S |-> Accepted(p)]
           R(g) == g = [s \in SUBSET S |-> IF s = {} THEN 0 ELSE Accepted(Pick(s)) + g[s \ {Pick(s)}]]
<1>1. ASSUME NEW g PROVE Rec("plus", v, S, g) <=> R(g)
  <2>1. \A s \in SUBSET S :
          (IF s = {} THEN Base("plus") ELSE Op("plus", v[Pick(s)], g[s \ {Pick(s)}]))
            = (IF s = {} THEN 0 ELSE Accepted(Pick(s)) + g[s \ {Pick(s)}])
    BY DEF Base, Op, Pick
  <2> QED BY <2>1 DEF Rec
<1>2. (CHOOSE g : Rec("plus", v, S, g)) = (CHOOSE g : R(g))
  <2> HIDE DEF R, v
  <2> QED BY <1>1
<1>3. SumThrough(a) = (CHOOSE g : R(g))[S]
  BY Zenon DEF SumThrough, MapThenSumSet, MapThenFoldSet, Pick, PathsThrough
<1> HIDE DEF R, v
<1>4. SumThrough(a) = Sum(v, S)
  BY <1>2, <1>3 DEF Fold, Sum
<1> QED BY <1>4 DEF v

\* PathSum as a sum over all paths from its first state.
LEMMA PathSumIs ==
  ASSUME Weighted, NEW n \in States, NEW m \in States
  PROVE  PathSum(n, m) = Sum(Ending(m), PathsFrom(n)) /\ PathSum(n, m) \in Nat
<1> DEFINE v == [p \in Paths(n, m) |-> PathWeight(p)]
<1>1. Paths(n, m) = {p \in PathsFrom(n) : Max(p) = m}
  BY PathsIs
<1>2. \A p \in PathsFrom(n) : p \in SUBSET States
  BY PathsFinite
<1>3. \A p \in PathsFrom(n) \ Paths(n, m) : Ending(m)[p] = 0
  BY <1>1, <1>2 DEF Ending
<1>4. \A p \in Paths(n, m) : Ending(m)[p] = v[p]
  BY <1>1, <1>2 DEF Ending
<1>5. IsFiniteSet(PathsFrom(n)) /\ AllNat(Ending(m), PathsFrom(n)) /\ Paths(n, m) \in SUBSET PathsFrom(n)
  BY <1>1, PathsFinite, PathTypes
<1>6. Sum(Ending(m), PathsFrom(n)) = Sum(Ending(m), Paths(n, m))
  BY ONLY <1>3, <1>5, SumExtend
<1>7. Sum(Ending(m), Paths(n, m)) = Sum(v, Paths(n, m))
  <2>1. IsFiniteSet(Paths(n, m))
    BY <1>5, FS_Subset
  <2> HIDE DEF v
  <2> QED BY ONLY <1>4, <2>1, SumSame
<1>8. Sum(Ending(m), PathsFrom(n)) \in Nat
  BY ONLY <1>5, SumType
<1> QED BY <1>6, <1>7, <1>8, PathSumIsFold

\* SumFrom as a sum over all paths from its state.
LEMMA SumFromIs ==
  ASSUME Weighted, NEW n \in States
  PROVE  SumFrom(n) = Sum(Accepting, PathsFrom(n)) /\ SumFrom(n) \in Nat
<1> DEFINE v == [p \in PathsFrom(n) |-> Accepted(p)]
<1>1. IsFiniteSet(PathsFrom(n)) /\ AllNat(Accepting, PathsFrom(n))
  BY PathsFinite, PathTypes
<1>2. \A p \in PathsFrom(n) : Accepting[p] = v[p]
  BY PathsFinite DEF Accepting
<1>3. Sum(Accepting, PathsFrom(n)) = Sum(v, PathsFrom(n))
  <2> HIDE DEF v
  <2> QED BY ONLY <1>1, <1>2, SumSame
<1>4. Sum(Accepting, PathsFrom(n)) \in Nat
  BY ONLY <1>1, SumType
<1> QED BY <1>3, <1>4, SumFromIsFold

\* SumThrough as a sum over all paths.
LEMMA SumThroughIs ==
  ASSUME Weighted, NEW a
  PROVE  SumThrough(a) = Sum(Using(a), PathsFrom(0))
<1> DEFINE v == [p \in PathsThrough(a) |-> Accepted(p)]
<1>0. 0 \in States
  BY StatesFinite
<1>1. IsFiniteSet(PathsFrom(0)) /\ AllNat(Using(a), PathsFrom(0)) /\ PathsThrough(a) \in SUBSET PathsFrom(0)
  BY <1>0, PathsFinite, PathTypes DEF PathsThrough
<1>2. /\ \A p \in PathsThrough(a) : Using(a)[p] = v[p]
      /\ \A p \in PathsFrom(0) \ PathsThrough(a) : Using(a)[p] = 0
  BY <1>0, PathsFinite DEF Using, PathsThrough
<1>3. Sum(Using(a), PathsFrom(0)) = Sum(Using(a), PathsThrough(a))
  BY ONLY <1>1, <1>2, SumExtend
<1>4. Sum(Using(a), PathsThrough(a)) = Sum(v, PathsThrough(a))
  <2>1. IsFiniteSet(PathsThrough(a))
    BY <1>1, FS_Subset
  <2> HIDE DEF v
  <2> QED BY ONLY <1>2, <2>1, SumSame
<1> QED BY <1>3, <1>4, SumThroughIsFold

\* The laws of multiplication that the proofs use.
LEMMA NatTimes ==
  /\ \A a, b \in Nat : a * b \in Nat
  /\ \A a \in Nat : 0 * a = 0 /\ a * 0 = 0 /\ 1 * a = a /\ a * 1 = a
  /\ \A a, b \in Nat : a * b = b * a
  /\ \A a, b, c \in Nat : a * (b * c) = (a * b) * c
  /\ \A a, b, c \in Nat : a * (b + c) = a * b + a * c
<1>1. \A a, b \in Nat : a * b \in Nat
  OBVIOUS
<1>2. \A a \in Nat : 0 * a = 0 /\ a * 0 = 0 /\ 1 * a = a /\ a * 1 = a
  OBVIOUS
<1>3. \A a, b \in Nat : a * b = b * a
  OBVIOUS
<1>4. \A a, b, c \in Nat : a * (b * c) = (a * b) * c
  OBVIOUS
<1>5. \A a, b, c \in Nat : a * (b + c) = a * b + a * c
  OBVIOUS
<1> QED BY <1>1, <1>2, <1>3, <1>4, <1>5

\* Arcs lead to later states.
LEMMA ForwardType ==
  ASSUME Weighted, NEW n \in States, NEW l \in States
  PROVE  /\ Forward(n, l) \in Nat /\ (l \notin Later(n) => Forward(n, l) = 0)
         /\ (l \in Later(n) => <<n, l>> \in Arcs /\ Forward(n, l) = weight[<<n, l>>])
<1>1. <<n, l>> \in Arcs <=> l \in Later(n)
  <2>1. n \in Nat /\ l \in Nat
    BY StatesFinite
  <2> QED BY <2>1 DEF Arcs, Later
<1> QED BY <1>1 DEF Forward, Weighted

\* The sum over the paths between two states, by first arc.
LEMMA PathSumFirst ==
  ASSUME Weighted, NEW n \in States, NEW m \in States,
         NEW s, \A l \in States : s[l] = Forward(n, l) * PathSum(l, m)
  PROVE  PathSum(n, m) = (IF n = m THEN 1 ELSE 0) + Sum(s, States)
<1> DEFINE f == Ending(m)
           c == [l \in States |-> Forward(n, l)]
<1>1. f[{n}] = IF n = m THEN 1 ELSE 0
  BY PathOfOne DEF Ending
<1>2. ASSUME NEW l \in Later(n)
      PROVE  /\ l \in States /\ c[l] \in Nat /\ AllNat(f, PathsFrom(l))
             /\ s[l] = c[l] * Sum(f, PathsFrom(l))
  <2>1. l \in States
    BY DEF Later
  <2>2. c[l] \in Nat
    BY <2>1, ForwardType
  <2>3. AllNat(f, PathsFrom(l))
    BY <2>1, PathTypes
  <2>4. PathSum(l, m) = Sum(f, PathsFrom(l))
    BY <2>1, PathSumIs
  <2> QED BY <2>1, <2>2, <2>3, <2>4
<1>3. ASSUME NEW l \in Later(n), NEW q \in PathsFrom(l)
      PROVE  f[{n} \cup q] = c[l] * f[q]
  <2>1. l \in States /\ q \in SUBSET States /\ {n} \cup q \in SUBSET States
    BY PathsFinite DEF Later
  <2>2. Max({n} \cup q) = Max(q)
    BY PathLonger
  <2>3. PathWeight({n} \cup q) = weight[<<n, l>>] * PathWeight(q)
    BY PathWeightLonger
  <2>4. c[l] = weight[<<n, l>>] /\ c[l] \in Nat
    BY <2>1, ForwardType
  <2>5. c[l] * 0 = 0
    BY <2>4, NatTimes
  <2> HIDE DEF c
  <2> QED BY <2>1, <2>2, <2>3, <2>4, <2>5 DEF Ending
<1>4. Sum(f, PathsFrom(n)) = f[{n}] + Sum(s, Later(n))
  <2>1. f[{n}] \in Nat
    BY <1>1
  <2>2. ByFirstArc(n, f, f, c, s)
    <3> HIDE DEF f, c
    <3> QED BY <1>2, <1>3, <2>1 DEF ByFirstArc
  <2>3. n \in States
    OBVIOUS
  <2> HIDE DEF f, c
  <2> QED BY ONLY <2>2, <2>3, FirstArc
<1>5. Sum(s, States) = Sum(s, Later(n))
  <2>1. ASSUME NEW l \in States PROVE s[l] \in Nat /\ (l \notin Later(n) => s[l] = 0)
    <3>1. Forward(n, l) \in Nat /\ PathSum(l, m) \in Nat /\ (l \notin Later(n) => Forward(n, l) = 0)
      BY ForwardType, PathSumIs
    <3> QED BY <3>1, NatTimes
  <2>2. AllNat(s, States) /\ Later(n) \in SUBSET States /\ \A l \in States \ Later(n) : s[l] = 0
    BY <2>1 DEF AllNat, Later
  <2>3. IsFiniteSet(States)
    BY StatesFinite
  <2> QED BY ONLY <2>2, <2>3, SumExtend
<1>6. PathSum(n, m) = Sum(f, PathsFrom(n))
  BY PathSumIs
<1> HIDE DEF f
<1> QED BY <1>1, <1>4, <1>5, <1>6

\* The sum over the paths between two states, by last arc.  It is shown for the last
\* state for which it is not so.
LEMMA PathSumLast ==
  ASSUME Weighted, NEW n \in States, NEW m \in States,
         NEW s, \A l \in States : s[l] = PathSum(n, l) * Forward(l, m)
  PROVE  PathSum(n, m) = (IF n = m THEN 1 ELSE 0) + Sum(s, States)
<1> DEFINE before(k) == [l \in States |-> PathSum(k, l) * Forward(l, m)]
           Bad == {k \in States : PathSum(k, m) # (IF k = m THEN 1 ELSE 0) + Sum(before(k), States)}
<1>0. IsFiniteSet(States)
  BY StatesFinite
<1>1. SUFFICES ASSUME Bad # {} PROVE FALSE
  <2>1. n \notin Bad => PathSum(n, m) = (IF n = m THEN 1 ELSE 0) + Sum(before(n), States)
    OBVIOUS
  <2>2. \A l \in States : before(n)[l] = s[l]
    OBVIOUS
  <2>3. Sum(before(n), States) = Sum(s, States)
    <3> HIDE DEF before
    <3> QED BY ONLY <1>0, <2>2, SumSame
  <2> QED BY <2>1, <2>3
<1> DEFINE k == Max(Bad)
<1>2. k \in Bad /\ \A j \in Bad : j <= k
  <2>1. Bad \in SUBSET States
    OBVIOUS
  <2> HIDE DEF Bad
  <2> QED BY <1>1, <2>1, MaxIn
<1>3. k \in States /\ \A l \in Later(k) :
        PathSum(l, m) = (IF l = m THEN 1 ELSE 0) + Sum(before(l), States)
  <2>1. k \in States
    BY <1>2
  <2>2. ASSUME NEW l \in Later(k) PROVE l \notin Bad /\ l \in States
    <3>1. l \in States /\ l > k /\ l \in Nat /\ k \in Nat
      BY <2>1, StatesFinite DEF Later
    <3> HIDE DEF k
    <3> QED BY <1>2, <3>1
  <2> HIDE DEF k
  <2> QED BY <2>1, <2>2
<1>4. PathSum(k, m) # (IF k = m THEN 1 ELSE 0) + Sum(before(k), States)
  BY <1>2
<1> HIDE DEF k
<1> DEFINE delta == [l \in States |-> IF l = k THEN Forward(k, m) ELSE 0]
           via == [l \in States |-> [j \in States |-> Forward(k, j) * (PathSum(j, l) * Forward(l, m))]]
           aiv == [j \in States |-> [l \in States |-> via[l][j]]]
           rows == [l \in States |-> Sum(via[l], States)]
           cols == [j \in States |-> Sum(aiv[j], States)]
           first == [l \in States |-> Forward(k, l) * PathSum(l, m)]
           deltam == [l \in States |-> IF l = m THEN Forward(k, m) ELSE 0]
<1>5. \A j, l \in States : /\ Forward(j, l) \in Nat /\ PathSum(j, l) \in Nat
                           /\ PathSum(j, l) * Forward(l, m) \in Nat
                           /\ Forward(k, j) * (PathSum(j, l) * Forward(l, m)) \in Nat
  <2>1. \A j, l \in States : Forward(j, l) \in Nat /\ PathSum(j, l) \in Nat
    BY ForwardType, PathSumIs
  <2> QED BY <1>3, <2>1, NatTimes
<1>6. Sum(before(k), States) = Sum(delta, States) + Sum(rows, States)
  <2>1. ASSUME NEW l \in States PROVE before(k)[l] = delta[l] + rows[l] /\ delta[l] \in Nat /\ rows[l] \in Nat
    <3> DEFINE to == [j \in States |-> Forward(k, j) * PathSum(j, l)]
    <3>1. PathSum(k, l) = (IF k = l THEN 1 ELSE 0) + Sum(to, States)
      <4>1. \A j \in States : to[j] = Forward(k, j) * PathSum(j, l)
        OBVIOUS
      <4> HIDE DEF to
      <4> QED BY <1>3, <4>1, PathSumFirst
    <3>2. AllNat(to, States)
      BY <1>3, <1>5, NatTimes DEF AllNat
    <3>3. Sum(to, States) \in Nat
      <4> HIDE DEF to
      <4> QED BY ONLY <1>0, <3>2, SumType
    <3>4. \A j \in States : via[l][j] = Forward(l, m) * to[j]
      <4> TAKE j \in States
      <4>1. Forward(k, j) \in Nat /\ PathSum(j, l) \in Nat /\ Forward(l, m) \in Nat
        BY <1>3, <1>5
      <4>2. \A a, b, c \in Nat : a * (b * c) = c * (a * b)
        OBVIOUS
      <4> QED BY <4>1, <4>2
    <3>5. Sum(via[l], States) = Forward(l, m) * Sum(to, States)
      <4>1. Forward(l, m) \in Nat
        BY <1>5
      <4> HIDE DEF to, via
      <4> QED BY ONLY <1>0, <3>2, <3>4, <4>1, SumScale
    <3>6. Forward(l, m) \in Nat /\ before(k)[l] = PathSum(k, l) * Forward(l, m)
          /\ delta[l] = (IF k = l THEN Forward(l, m) ELSE 0) /\ rows[l] = Sum(via[l], States)
      BY <1>5
    <3>7. \A a, b \in Nat : (1 + a) * b = b + b * a /\ (0 + a) * b = 0 + b * a
      OBVIOUS
    <3>8. Forward(l, m) * Sum(to, States) \in Nat
      BY <3>3, <3>6, NatTimes
    <3> HIDE DEF to, via, before, rows, delta
    <3> QED BY <3>1, <3>3, <3>5, <3>6, <3>7, <3>8
  <2>2. AllNat(delta, States) /\ AllNat(rows, States) /\ \A l \in States : before(k)[l] = delta[l] + rows[l]
    BY <2>1 DEF AllNat
  <2> HIDE DEF delta, rows, before
  <2> QED BY ONLY <1>0, <2>2, SumAdd
<1>7. Sum(delta, States) = Forward(k, m)
  <2>1. k \in States /\ delta[k] = Forward(k, m) /\ delta[k] \in Nat /\ \A l \in States : l # k => delta[l] = 0
    BY <1>3, <1>5
  <2>2. Sum(delta, States) = delta[k]
    <3> HIDE DEF delta
    <3> QED BY ONLY <1>0, <2>1, SumDelta
  <2> QED BY <2>1, <2>2
<1>8. Sum(rows, States) = Sum(cols, States)
  <2>1. \A l, j \in States : via[l][j] \in Nat /\ aiv[j][l] = via[l][j]
    BY <1>5
  <2>2. (\A l \in States : rows[l] = Sum(via[l], States)) /\ (\A j \in States : cols[j] = Sum(aiv[j], States))
    OBVIOUS
  <2>3. RowsAndColumns(States, States, via, aiv, rows, cols)
    <3> HIDE DEF via, aiv, rows, cols
    <3> QED BY <2>1, <2>2 DEF RowsAndColumns
  <2> HIDE DEF via, aiv, rows, cols
  <2> QED BY ONLY <1>0, <2>3, SumSwap
<1>9. \A j \in States : cols[j] = Forward(k, j) * Sum(before(j), States) /\ Sum(before(j), States) \in Nat
  <2> TAKE j \in States
  <2>1. AllNat(before(j), States) /\ Forward(k, j) \in Nat
        /\ \A l \in States : aiv[j][l] = Forward(k, j) * before(j)[l]
    BY <1>3, <1>5 DEF AllNat
  <2>2. cols[j] = Sum(aiv[j], States)
    OBVIOUS
  <2> HIDE DEF aiv, before, cols
  <2>3. Sum(aiv[j], States) = Forward(k, j) * Sum(before(j), States)
    BY ONLY <1>0, <2>1, SumScale
  <2>4. Sum(before(j), States) \in Nat
    BY ONLY <1>0, <2>1, SumType
  <2> QED BY <2>2, <2>3, <2>4
<1>10. Sum(first, States) = Sum(deltam, States) + Sum(cols, States)
  <2>1. ASSUME NEW l \in States PROVE first[l] = deltam[l] + cols[l] /\ deltam[l] \in Nat /\ cols[l] \in Nat
    <3>1. Forward(k, l) \in Nat /\ Sum(before(l), States) \in Nat /\ cols[l] = Forward(k, l) * Sum(before(l), States)
      BY <1>3, <1>5, <1>9
    <3>2. l \in Later(k) => PathSum(l, m) = (IF l = m THEN 1 ELSE 0) + Sum(before(l), States)
      BY <1>3
    <3>3. l \notin Later(k) => Forward(k, l) = 0
      BY <1>3, ForwardType
    <3>4. first[l] = Forward(k, l) * PathSum(l, m) /\ PathSum(l, m) \in Nat
          /\ deltam[l] = IF l = m THEN Forward(k, l) ELSE 0
      BY <1>5
    <3>5. \A a, b \in Nat : a * (1 + b) = a + a * b /\ a * (0 + b) = 0 + a * b /\ 0 * b = 0 /\ a * b \in Nat
      OBVIOUS
    <3>6. CASE l \in Later(k)
      <4> HIDE DEF first, deltam, cols, before
      <4> QED BY <3>1, <3>2, <3>4, <3>5, <3>6
    <3>7. CASE l \notin Later(k)
      <4> HIDE DEF first, deltam, cols, before
      <4> QED BY <3>1, <3>3, <3>4, <3>5, <3>7
    <3> QED BY <3>6, <3>7
  <2>2. AllNat(deltam, States) /\ AllNat(cols, States) /\ \A l \in States : first[l] = deltam[l] + cols[l]
    BY <2>1 DEF AllNat
  <2> HIDE DEF first, deltam, cols
  <2> QED BY ONLY <1>0, <2>2, SumAdd
<1>11. Sum(deltam, States) = Forward(k, m)
  <2>1. m \in States /\ deltam[m] = Forward(k, m) /\ deltam[m] \in Nat /\ \A l \in States : l # m => deltam[l] = 0
    BY <1>3, <1>5
  <2>2. Sum(deltam, States) = deltam[m]
    <3> HIDE DEF deltam
    <3> QED BY ONLY <1>0, <2>1, SumDelta
  <2> QED BY <2>1, <2>2
<1>12. PathSum(k, m) = (IF k = m THEN 1 ELSE 0) + Sum(first, States)
  <2>1. \A l \in States : first[l] = Forward(k, l) * PathSum(l, m)
    OBVIOUS
  <2> HIDE DEF first
  <2> QED BY <1>3, <2>1, PathSumFirst
<1> HIDE DEF first, cols, rows, delta, deltam, before
<1> QED BY <1>4, <1>6, <1>7, <1>8, <1>10, <1>11, <1>12

\* There is no path back.
LEMMA PathSumBack ==
  ASSUME Weighted, NEW n \in States, NEW m \in States, n > m
  PROVE  PathSum(n, m) = 0
<1>1. ASSUME NEW p \in PathsFrom(n) PROVE Ending(m)[p] = 0
  <2>1. p \in SUBSET States /\ Max(p) \in States /\ n <= Max(p)
    BY PathStates
  <2>2. n \in Nat /\ m \in Nat /\ Max(p) \in Nat
    BY <2>1, StatesFinite
  <2>3. Max(p) # m
    BY <2>1, <2>2
  <2> QED BY <2>1, <2>3 DEF Ending
<1>2. IsFiniteSet(PathsFrom(n))
  BY PathsFinite
<1> QED BY <1>1, <1>2, SumZero, PathSumIs

\* The only path from a state to itself has no arc.
LEMMA PathSumSelf ==
  ASSUME Weighted, NEW n \in States
  PROVE  PathSum(n, n) = 1
<1> DEFINE s == [l \in States |-> Forward(n, l) * PathSum(l, n)]
<1>1. PathSum(n, n) = 1 + Sum(s, States)
  <2>1. \A l \in States : s[l] = Forward(n, l) * PathSum(l, n)
    OBVIOUS
  <2> HIDE DEF s
  <2> QED BY <2>1, PathSumFirst
<1>2. ASSUME NEW l \in States PROVE s[l] = 0
  <2>1. Forward(n, l) \in Nat /\ PathSum(l, n) \in Nat
    BY ForwardType, PathSumIs
  <2>2. CASE l \in Later(n)
    <3>1. l > n
      BY <2>2 DEF Later
    <3>2. PathSum(l, n) = 0
      BY <3>1, PathSumBack
    <3> QED BY <2>1, <3>2, NatTimes
  <2>3. CASE l \notin Later(n)
    <3>1. Forward(n, l) = 0
      BY <2>3, ForwardType
    <3> QED BY <2>1, <3>1, NatTimes
  <2> QED BY <2>2, <2>3
<1>3. Sum(s, States) = 0
  <2>1. IsFiniteSet(States)
    BY StatesFinite
  <2> HIDE DEF s
  <2> QED BY <1>2, <2>1, SumZero
<1> QED BY <1>1, <1>3

\* The sum over the paths from a state, by their last states.
LEMMA SumFromEnds ==
  ASSUME Weighted, NEW n \in States, NEW s, \A m \in States : s[m] = final[m] * PathSum(n, m)
  PROVE  SumFrom(n) = Sum(s, States)
<1> DEFINE P == PathsFrom(n)
           m1 == [p \in P |-> [m \in States |-> final[m] * Ending(m)[p]]]
           m2 == [m \in States |-> [p \in P |-> m1[p][m]]]
           b == [m \in States |-> Sum(m2[m], P)]
<1>1. IsFiniteSet(States) /\ IsFiniteSet(P) /\ \A p \in P : p \in SUBSET States
  BY PathsFinite, StatesFinite
<1>2. ASSUME NEW p \in P, NEW m \in States
      PROVE  final[m] \in Nat /\ Ending(m)[p] \in Nat /\ final[m] * Ending(m)[p] \in Nat
  <2>1. final[m] \in Nat /\ Ending(m)[p] \in Nat
    BY PathTypes DEF Weighted, AllNat
  <2> QED BY <2>1, NatTimes
<1>3. ASSUME NEW p \in P PROVE Accepting[p] = Sum(m1[p], States)
  <2>1. Max(p) \in States /\ p \in SUBSET States
    BY PathStates
  <2>2. PathWeight(p) \in Nat /\ final[Max(p)] \in Nat
    BY <2>1, PathWeightType DEF Weighted
  <2>3. \A m \in States : m1[p][m] = final[m] * (IF Max(p) = m THEN PathWeight(p) ELSE 0) /\ final[m] \in Nat
    BY <2>1 DEF Weighted, Ending
  <2>4. m1[p][Max(p)] = Accepted(p) /\ Accepted(p) \in Nat
    <3>1. m1[p][Max(p)] = final[Max(p)] * PathWeight(p)
      BY <2>1, <2>3
    <3> HIDE DEF m1
    <3> QED BY <2>2, <3>1, NatTimes DEF Accepted
  <2>5. \A m \in States : m # Max(p) => m1[p][m] = 0
    <3> HIDE DEF m1
    <3> QED BY <2>3, NatTimes
  <2>6. Sum(m1[p], States) = m1[p][Max(p)]
    <3> HIDE DEF m1, P
    <3> QED BY ONLY <1>1, <2>1, <2>4, <2>5, SumDelta
  <2> HIDE DEF m1
  <2> QED BY <2>1, <2>4, <2>6 DEF Accepting
<1>4. Sum(Accepting, P) = Sum(b, States)
  <2>1. \A p \in P, m \in States : m1[p][m] \in Nat /\ m2[m][p] = m1[p][m]
    BY <1>2
  <2>2. (\A p \in P : Accepting[p] = Sum(m1[p], States)) /\ \A m \in States : b[m] = Sum(m2[m], P)
    BY <1>3
  <2>3. RowsAndColumns(P, States, m1, m2, Accepting, b)
    <3> HIDE DEF m1, m2, P, b
    <3> QED BY <2>1, <2>2 DEF RowsAndColumns
  <2> HIDE DEF m1, m2, P, b
  <2> QED BY ONLY <1>1, <2>3, SumSwap
<1>5. ASSUME NEW m \in States PROVE b[m] = s[m]
  <2>1. AllNat(Ending(m), P) /\ final[m] \in Nat /\ \A p \in P : m2[m][p] = final[m] * Ending(m)[p]
    BY PathTypes DEF Weighted
  <2>2. Sum(m2[m], P) = final[m] * Sum(Ending(m), P)
    <3> HIDE DEF m2, P
    <3> QED BY ONLY <1>1, <2>1, SumScale
  <2>3. b[m] = Sum(m2[m], P)
    OBVIOUS
  <2>4. PathSum(n, m) = Sum(Ending(m), P)
    BY PathSumIs
  <2> HIDE DEF b, m2, P
  <2> QED BY <2>2, <2>3, <2>4
<1>6. Sum(b, States) = Sum(s, States)
  <2> HIDE DEF b
  <2> QED BY <1>1, <1>5, SumSame
<1>7. SumFrom(n) = Sum(Accepting, P)
  BY SumFromIs
<1> HIDE DEF b, P
<1> QED BY <1>4, <1>6, <1>7

\* The sum over the paths that use an arc is the product of the sum over the
\* paths to it, its weight and the sum over the paths after it.
LEMMA SumThroughArc ==
  ASSUME Weighted, NEW a \in Arcs
  PROVE  SumThrough(a) = PathSum(0, a[1]) * (weight[a] * SumFrom(a[2]))
<1> DEFINE f == Using(a)
           k == a[1]
           m == a[2]
           rest == weight[a] * SumFrom(m)
           through(n) == Sum(f, PathsFrom(n))
           Bad == {n \in States : through(n) # PathSum(n, k) * rest}
<1>0. IsFiniteSet(States) /\ 0 \in States /\ States \subseteq Nat
  BY StatesFinite
<1>1. a = <<k, m>> /\ k \in States /\ m \in States /\ m \in Later(k) /\ k < m
  <2>1. a \in States \X States /\ a[1] < a[2]
    BY DEF Arcs
  <2>2. a[1] \in Nat /\ a[2] \in Nat
    BY <1>0, <2>1
  <2> QED BY <2>1, <2>2 DEF Later
<1>2. weight[a] \in Nat /\ SumFrom(m) \in Nat /\ rest \in Nat
  BY <1>1, SumFromIs, NatTimes DEF Weighted
<1>3. ASSUME NEW n \in States
      PROVE  AllNat(f, PathsFrom(n)) /\ IsFiniteSet(PathsFrom(n)) /\ through(n) \in Nat
  BY PathTypes, PathsFinite, SumType
<1>4. ASSUME NEW n \in States PROVE f[{n}] = 0
  <2>1. {n} \in SUBSET States /\ a \notin ArcsOf({n})
    BY PathOfOne
  <2> QED BY <2>1 DEF Using
<1>5. through(k) = rest
  <2> DEFINE c == [l \in States |-> IF l = m THEN weight[a] ELSE 0]
             s == [l \in States |-> IF l = m THEN rest ELSE 0]
  <2>1. ASSUME NEW l \in Later(k)
        PROVE  /\ c[l] \in Nat /\ AllNat(Accepting, PathsFrom(l))
               /\ s[l] = c[l] * Sum(Accepting, PathsFrom(l))
    <3>1. l \in States
      BY DEF Later
    <3>2. SumFrom(l) = Sum(Accepting, PathsFrom(l)) /\ SumFrom(l) \in Nat /\ AllNat(Accepting, PathsFrom(l))
      BY <3>1, SumFromIs, PathTypes
    <3>3. 0 * SumFrom(l) = 0
      BY <3>2, NatTimes
    <3> QED BY <1>2, <3>1, <3>2, <3>3
  <2>2. ASSUME NEW l \in Later(k), NEW q \in PathsFrom(l)
        PROVE  f[{k} \cup q] = c[l] * Accepting[q]
    <3>1. l \in States /\ q \in SUBSET States /\ {k} \cup q \in SUBSET States
      BY <1>1, PathsFinite DEF Later
    <3>2. ArcsOf({k} \cup q) = {<<k, l>>} \cup ArcsOf(q) /\ k \notin q
      <4>1. k \in States /\ l \in Later(k) /\ q \in PathsFrom(l)
        BY <1>1
      <4> HIDE DEF k
      <4> QED BY ONLY <4>1, PathLonger
    <3>3. a \notin ArcsOf(q)
      BY <3>1, <3>2, PathArcs
    <3>4. a \in ArcsOf({k} \cup q) <=> l = m
      BY <1>1, <3>2, <3>3
    <3>5. Accepted({k} \cup q) = weight[<<k, l>>] * Accepted(q) /\ Accepted(q) \in Nat
      BY <1>1, <3>1, PathWeightLonger, PathWeightType
    <3>6. f[{k} \cup q] = (IF l = m THEN Accepted({k} \cup q) ELSE 0) /\ Accepting[q] = Accepted(q)
      BY <3>1, <3>4 DEF Using, Accepting
    <3>7. c[l] = IF l = m THEN weight[a] ELSE 0
      BY <3>1
    <3>8. 0 * Accepted(q) = 0
      BY <3>5, NatTimes
    <3> HIDE DEF c, f
    <3>9. CASE l = m
      BY <1>1, <3>5, <3>6, <3>7, <3>9
    <3>10. CASE l # m
      BY <3>6, <3>7, <3>8, <3>10
    <3> QED BY <3>9, <3>10
  <2>3. ByFirstArc(k, f, Accepting, c, s)
    <3> HIDE DEF f, c, s
    <3> QED BY <1>1, <1>4, <2>1, <2>2 DEF ByFirstArc
  <2>4. through(k) = f[{k}] + Sum(s, Later(k))
    <3> HIDE DEF f, c, s
    <3> QED BY ONLY <1>1, <2>3, FirstArc
  <2>5. Sum(s, Later(k)) = rest
    <3>1. IsFiniteSet(Later(k)) /\ m \in Later(k) /\ \A l \in Later(k) : l \in States
      BY <1>0, <1>1, FS_Subset DEF Later
    <3>2. s[m] = rest /\ \A l \in Later(k) : l # m => s[l] = 0
      BY <1>1, <3>1
    <3> HIDE DEF s, rest, k, m
    <3> QED BY ONLY <1>2, <3>1, <3>2, SumDelta
  <2>6. f[{k}] = 0
    BY <1>1, <1>4
  <2> HIDE DEF f, rest, s, through, k
  <2> QED BY <1>2, <2>4, <2>5, <2>6
<1>6. ASSUME NEW n \in States, n # k, NEW s, \A l \in States : s[l] = Forward(n, l) * through(l)
      PROVE  through(n) = Sum(s, States)
  <2> DEFINE c == [l \in States |-> Forward(n, l)]
  <2>1. ASSUME NEW l \in Later(n)
        PROVE  /\ c[l] \in Nat /\ AllNat(f, PathsFrom(l)) /\ s[l] = c[l] * Sum(f, PathsFrom(l))
               /\ \A q \in PathsFrom(l) : f[{n} \cup q] = c[l] * f[q]
    <3>1. l \in States
      BY DEF Later
    <3>2. c[l] \in Nat /\ c[l] = weight[<<n, l>>] /\ c[l] * 0 = 0
      BY <3>1, ForwardType, NatTimes
    <3>3. ASSUME NEW q \in PathsFrom(l) PROVE f[{n} \cup q] = c[l] * f[q]
      <4>1. q \in SUBSET States /\ {n} \cup q \in SUBSET States
        BY <3>1, PathsFinite
      <4>2. ArcsOf({n} \cup q) = {<<n, l>>} \cup ArcsOf(q)
        BY PathLonger
      <4>3. a \in ArcsOf({n} \cup q) <=> a \in ArcsOf(q)
        BY <1>1, <1>6, <4>2
      <4>4. Accepted({n} \cup q) = weight[<<n, l>>] * Accepted(q)
        BY PathWeightLonger
      <4> HIDE DEF c
      <4> QED BY <3>2, <4>1, <4>3, <4>4 DEF Using
    <3>4. s[l] = c[l] * through(l)
      BY <1>6, <3>1
    <3> QED BY <1>3, <3>1, <3>2, <3>3, <3>4
  <2>2. ByFirstArc(n, f, f, c, s)
    <3>1. f[{n}] \in Nat
      BY <1>4
    <3> HIDE DEF f, c
    <3> QED BY <2>1, <3>1 DEF ByFirstArc
  <2>3. through(n) = f[{n}] + Sum(s, Later(n))
    <3>1. n \in States
      OBVIOUS
    <3> HIDE DEF f, c
    <3> QED BY ONLY <3>1, <2>2, FirstArc
  <2>4. ASSUME NEW l \in States PROVE s[l] \in Nat /\ (l \notin Later(n) => s[l] = 0)
    <3>1. Forward(n, l) \in Nat /\ through(l) \in Nat /\ (l \notin Later(n) => Forward(n, l) = 0)
      BY <1>3, ForwardType
    <3>2. s[l] = Forward(n, l) * through(l)
      BY <1>6
    <3> HIDE DEF through
    <3> QED BY <3>1, <3>2, NatTimes
  <2>5. Sum(s, States) = Sum(s, Later(n))
    <3>1. AllNat(s, States) /\ Later(n) \in SUBSET States /\ \A l \in States \ Later(n) : s[l] = 0
      BY <2>4 DEF AllNat, Later
    <3> QED BY ONLY <1>0, <3>1, SumExtend
  <2>6. Sum(s, States) \in Nat
    <3>1. AllNat(s, States)
      BY <2>4 DEF AllNat
    <3> QED BY ONLY <1>0, <3>1, SumType
  <2> HIDE DEF f
  <2> QED BY <1>4, <2>3, <2>5, <2>6
<1>7. Bad = {}
  <2> SUFFICES ASSUME Bad # {} PROVE FALSE
    OBVIOUS
  <2> DEFINE n == Max(Bad)
  <2>1. n \in Bad /\ \A j \in Bad : j <= n
    <3>1. Bad \in SUBSET States
      OBVIOUS
    <3> HIDE DEF Bad
    <3> QED BY <3>1, MaxIn
  <2>2. n \in States /\ through(n) # PathSum(n, k) * rest
    BY <2>1
  <2>3. \A l \in Later(n) : l \in States /\ through(l) = PathSum(l, k) * rest
    <3>1. ASSUME NEW l \in Later(n) PROVE l \notin Bad /\ l \in States
      <4>1. l \in States /\ l > n /\ l \in Nat /\ n \in Nat
        BY <1>0, <2>2 DEF Later
      <4> HIDE DEF n, Bad
      <4> QED BY <2>1, <4>1
    <3> HIDE DEF n
    <3> QED BY <3>1
  <2> HIDE DEF n
  <2>4. CASE n = k
    <3>1. PathSum(n, k) = 1
      BY <2>2, <2>4, PathSumSelf
    <3> HIDE DEF through, rest, k
    <3> QED BY <1>2, <1>5, <2>2, <2>4, <3>1, NatTimes
  <2>5. CASE n # k
    <3> DEFINE s == [l \in States |-> Forward(n, l) * through(l)]
               t == [l \in States |-> Forward(n, l) * PathSum(l, k)]
    <3>1. through(n) = Sum(s, States)
      <4>1. \A l \in States : s[l] = Forward(n, l) * through(l)
        OBVIOUS
      <4> HIDE DEF s, through
      <4> QED BY <1>6, <2>2, <2>5, <4>1
    <3>2. PathSum(n, k) = 0 + Sum(t, States)
      <4>1. \A l \in States : t[l] = Forward(n, l) * PathSum(l, k)
        OBVIOUS
      <4> HIDE DEF t, k
      <4> QED BY <1>1, <2>2, <2>5, <4>1, PathSumFirst
    <3>3. ASSUME NEW l \in States PROVE s[l] = rest * t[l] /\ t[l] \in Nat
      <4>1. Forward(n, l) \in Nat /\ PathSum(l, k) \in Nat /\ through(l) \in Nat
        BY <1>1, <1>3, <2>2, ForwardType, PathSumIs
      <4>2. l \in Later(n) => through(l) = PathSum(l, k) * rest
        BY <2>3
      <4>3. l \notin Later(n) => Forward(n, l) = 0
        BY <2>2, ForwardType
      <4>4. s[l] = Forward(n, l) * through(l) /\ t[l] = Forward(n, l) * PathSum(l, k)
        OBVIOUS
      <4>5. \A x, y, z \in Nat : x * (y * z) = z * (x * y) /\ x * y \in Nat
        OBVIOUS
      <4> HIDE DEF s, t, through, rest, k
      <4>6. CASE l \in Later(n)
        BY <1>2, <4>1, <4>2, <4>4, <4>5, <4>6
      <4>7. CASE l \notin Later(n)
        BY <1>2, <4>1, <4>3, <4>4, <4>7, NatTimes
      <4> QED BY <4>6, <4>7
    <3>4. Sum(s, States) = rest * Sum(t, States) /\ Sum(t, States) \in Nat
      <4>1. AllNat(t, States) /\ \A l \in States : s[l] = rest * t[l]
        BY <3>3 DEF AllNat
      <4> HIDE DEF s, t, rest
      <4>2. IsFiniteSet(States) /\ rest \in Nat
        BY <1>0, <1>2
      <4>3. Sum(s, States) = rest * Sum(t, States)
        BY ONLY <4>1, <4>2, SumScale
      <4>4. Sum(t, States) \in Nat
        BY ONLY <4>1, <4>2, SumType
      <4> QED BY <4>3, <4>4
    <3> HIDE DEF s, t, through, rest, k
    <3> QED BY <1>2, <2>2, <3>1, <3>2, <3>4, NatTimes
  <2> QED BY <2>4, <2>5
<1>8. through(0) = PathSum(0, k) * rest
  BY <1>0, <1>7
<1>9. SumThrough(a) = through(0)
  BY SumThroughIs
<1> QED BY <1>8, <1>9

-----------------------------------------------------------------------------
(* The steps of a sum.                                                      *)

\* The nodes of the direction of the sum.
Reachable == IF reverse THEN Nodes ELSE States

\* There are finitely many nodes.
LEMMA ReachableFinite ==
  /\ Super \notin States /\ IsFiniteSet(Reachable)
  /\ States \subseteq Reachable /\ Reachable \subseteq Nodes
  /\ Nodes = States \cup {Super}
<1>1. Super \notin States
  BY StatesFinite DEF Super
<1>2. IsFiniteSet(States) /\ IsFiniteSet(States \cup {Super})
  BY StatesFinite, FS_AddElement
<1> QED BY <1>1, <1>2 DEF Reachable, Nodes

\* What one unit of weight at u adds to n is a natural number, and 1 at n itself.
LEMMA OnwardsType ==
  ASSUME Weighted, reverse \in BOOLEAN, NEW u \in Reachable, NEW n \in States
  PROVE  Onwards(u, n) \in Nat /\ (u = n => Onwards(u, n) = 1)
<1>1. CASE ~ reverse
  BY <1>1, PathSumIs, PathSumSelf DEF Reachable, Onwards
<1>2. CASE reverse /\ u = Super
  BY <1>2, SumFromIs, ReachableFinite DEF Onwards
<1>3. CASE reverse /\ u # Super
  BY <1>3, PathSumIs, PathSumSelf, ReachableFinite DEF Onwards
<1> QED BY <1>1, <1>2, <1>3

\* No node has an arc to itself.
LEMMA ArcWeightType ==
  ASSUME Weighted, reverse \in BOOLEAN, NEW s \in Reachable, NEW u \in States
  PROVE  ArcWeight(s, u) \in Nat /\ (s \in States => ArcWeight(s, s) = 0)
<1>1. CASE ~ reverse
  <2>1. s \in States /\ s \in Nat
    BY <1>1, StatesFinite DEF Reachable
  <2>a. s \notin Later(s)
    BY <2>1 DEF Later
  <2> QED BY <1>1, <2>1, <2>a, ForwardType DEF ArcWeight
<1>2. CASE reverse
  <2>1. Reversed(s, u) \in Nat
    BY ReachableFinite DEF Reversed, Weighted
  <2>2. s \in States => Reversed(s, s) = 0
    <3> SUFFICES ASSUME s \in States PROVE Reversed(s, s) = 0
      OBVIOUS
    <3>1. <<s, s>> \notin Arcs /\ s # Super
      BY StatesFinite, ReachableFinite DEF Arcs
    <3> QED BY <3>1 DEF Reversed
  <2> QED BY <1>2, <2>1, <2>2 DEF ArcWeight
<1> QED BY <1>1, <1>2

\* What one unit of weight at s adds to n, by the arcs that leave s.
LEMMA OnwardsStep ==
  ASSUME Weighted, reverse \in BOOLEAN, NEW s \in Reachable, NEW n \in States,
         NEW z, \A u \in States : z[u] = ArcWeight(s, u) * Onwards(u, n)
  PROVE  Sum(z, States) = IF s = n THEN 0 ELSE Onwards(s, n)
<1>0. IsFiniteSet(States) /\ Super \notin States
  BY StatesFinite, ReachableFinite
<1>a. ASSUME NEW u \in States
      PROVE  PathSum(n, u) \in Nat /\ PathSum(u, n) \in Nat /\ Forward(u, n) \in Nat
  BY PathSumIs, ForwardType
<1>1. CASE ~ reverse
  <2>1. s \in States /\ \A u \in States : z[u] = Forward(s, u) * PathSum(u, n)
    BY <1>1 DEF Reachable, ArcWeight, Onwards
  <2>2. PathSum(s, n) = (IF s = n THEN 1 ELSE 0) + Sum(z, States)
    BY <2>1, PathSumFirst
  <2>3. AllNat(z, States)
    <3> SUFFICES ASSUME NEW u \in States PROVE z[u] \in Nat
      BY DEF AllNat
    <3>1. z[u] = Forward(s, u) * PathSum(u, n) /\ PathSum(u, n) \in Nat /\ Forward(s, u) \in Nat
      BY <1>a, <2>1, ForwardType
    <3> QED BY ONLY <3>1, NatTimes
  <2>4. Sum(z, States) \in Nat
    BY <1>0, <2>3, SumType
  <2>5. s = n => PathSum(s, n) = 1
    BY PathSumSelf
  <2> QED BY <1>1, <2>2, <2>4, <2>5 DEF Onwards
<1>2. CASE reverse /\ s = Super
  <2>1. \A u \in States : z[u] = final[u] * PathSum(n, u)
    BY <1>0, <1>2 DEF ArcWeight, Reversed, Onwards
  <2>2. SumFrom(n) = Sum(z, States)
    BY <2>1, SumFromEnds
  <2> QED BY <1>0, <1>2, <2>2 DEF Onwards
<1>3. CASE reverse /\ s # Super
  <2>1. s \in States
    BY <1>3 DEF Reachable, Nodes
  <2>2. \A u \in States : z[u] = PathSum(n, u) * Forward(u, s)
    <3> TAKE u \in States
    <3>1. ArcWeight(s, u) = Forward(u, s) /\ Onwards(u, n) = PathSum(n, u)
      BY <1>0, <1>3 DEF ArcWeight, Reversed, Forward, Onwards
    <3>2. Forward(u, s) \in Nat /\ PathSum(n, u) \in Nat
      BY <1>a, <2>1, ForwardType
    <3> QED BY <3>1, <3>2, NatTimes
  <2>3. PathSum(n, s) = (IF n = s THEN 1 ELSE 0) + Sum(z, States)
    BY <2>1, <2>2, PathSumLast
  <2>4. AllNat(z, States)
    <3> SUFFICES ASSUME NEW u \in States PROVE z[u] \in Nat
      BY DEF AllNat
    <3>1. z[u] = PathSum(n, u) * Forward(u, s) /\ PathSum(n, u) \in Nat /\ Forward(u, s) \in Nat
      BY <1>a, <2>1, <2>2, ForwardType
    <3> QED BY ONLY <3>1, NatTimes
  <2>5. Sum(z, States) \in Nat
    BY <1>0, <2>4, SumType
  <2>6. s = n => PathSum(n, s) = 1
    BY PathSumSelf
  <2> QED BY <1>3, <2>3, <2>5, <2>6 DEF Onwards
<1> QED BY <1>1, <1>2, <1>3

\* What a state passes on is its weight times that of the arc, if there is one.
LEMMA PassedIs ==
  ASSUME Weighted, reverse \in BOOLEAN, NEW s \in Reachable, rdistance[s] \in Nat
  PROVE  /\ \A u \in States : Passed(s, u) = rdistance[s] * ArcWeight(s, u)
         /\ \A u : Passed(s, u) \in Nat /\ (u \notin States => Passed(s, u) = 0)
         /\ Passed(s, s) = 0
<1>1. ASSUME NEW u \in States PROVE Passed(s, u) = rdistance[s] * ArcWeight(s, u) /\ Passed(s, u) \in Nat
  <2>1. ArcWeight(s, u) \in Nat
    BY ArcWeightType
  <2> QED BY <2>1, NatTimes DEF Passed, Successors
<1>2. ASSUME NEW u, u \notin States PROVE Passed(s, u) = 0
  BY <1>2 DEF Passed, Successors
<1>3. Passed(s, s) = 0
  BY ArcWeightType, StatesFinite DEF Passed, Successors
<1> QED BY <1>1, <1>2, <1>3

\* What a node passes on reaches a state as often as the node itself does.
LEMMA PassOn ==
  ASSUME Weighted, reverse \in BOOLEAN, NEW s \in Reachable, NEW n \in States, rdistance[s] \in Nat,
         NEW z, \A u \in Reachable : z[u] = Passed(s, u) * Onwards(u, n)
  PROVE  /\ Sum(z, Reachable) = IF s = n THEN 0 ELSE rdistance[s] * Onwards(s, n)
         /\ AllNat(z, Reachable)
<1> DEFINE w == [u \in States |-> ArcWeight(s, u) * Onwards(u, n)]
<1>0. IsFiniteSet(States) /\ IsFiniteSet(Reachable) /\ States \in SUBSET Reachable
  BY StatesFinite, ReachableFinite
<1>1. ASSUME NEW u \in Reachable
      PROVE  z[u] \in Nat /\ (u \notin States => z[u] = 0)
  <2>1. Passed(s, u) \in Nat /\ Onwards(u, n) \in Nat /\ (u \notin States => Passed(s, u) = 0)
    BY PassedIs, OnwardsType
  <2> QED BY <2>1, NatTimes
<1>2. ASSUME NEW u \in States PROVE z[u] = rdistance[s] * w[u] /\ w[u] \in Nat
  <2>1. Passed(s, u) = rdistance[s] * ArcWeight(s, u)
    BY PassedIs
  <2>2. ArcWeight(s, u) \in Nat /\ Onwards(u, n) \in Nat
    BY <1>0, ArcWeightType, OnwardsType
  <2>3. z[u] = Passed(s, u) * Onwards(u, n) /\ w[u] = ArcWeight(s, u) * Onwards(u, n)
    BY <1>0
  <2> HIDE DEF w
  <2> QED BY <2>1, <2>2, <2>3, NatTimes
<1>3. Sum(z, Reachable) = Sum(z, States)
  <2>1. AllNat(z, Reachable) /\ \A u \in Reachable \ States : z[u] = 0
    BY <1>1 DEF AllNat
  <2> QED BY ONLY <1>0, <2>1, SumExtend
<1>4. Sum(z, States) = rdistance[s] * Sum(w, States)
  <2>1. AllNat(w, States) /\ \A u \in States : z[u] = rdistance[s] * w[u]
    BY <1>2 DEF AllNat
  <2>2. rdistance[s] \in Nat
    OBVIOUS
  <2> HIDE DEF w
  <2> QED BY ONLY <1>0, <2>1, <2>2, SumScale
<1>5. Sum(w, States) = IF s = n THEN 0 ELSE Onwards(s, n)
  <2>1. \A u \in States : w[u] = ArcWeight(s, u) * Onwards(u, n)
    OBVIOUS
  <2> HIDE DEF w
  <2> QED BY <2>1, OnwardsStep
<1>6. AllNat(z, Reachable)
  BY <1>1 DEF AllNat
<1> HIDE DEF w
<1> QED BY <1>3, <1>4, <1>5, <1>6, NatTimes

-----------------------------------------------------------------------------
(* NothingLostButLeft as an equation of vectors.                                   *)

\* The sums as functions of the weights, which no step changes.
PathWeightOf(w, p) == FoldSet(LAMBDA a, product : w[a] * product, 1, ArcsOf(p))
PathSumOf(w, n, m) == MapThenSumSet(LAMBDA p : PathWeightOf(w, p), Paths(n, m))
SumFromOf(w, f, n) == MapThenSumSet(LAMBDA p : PathWeightOf(w, p) * f[Max(p)], PathsFrom(n))
OnwardsOf(w, f, r, u, n) ==
  IF ~ r THEN PathSumOf(w, u, n)
  ELSE IF u = Super THEN SumFromOf(w, f, n) ELSE PathSumOf(w, n, u)

\* The sums only depend on the weights.
LEMMA SumsOf ==
  /\ \A n, m : PathSum(n, m) = PathSumOf(weight, n, m) /\ PathSum(n, m)' = PathSumOf(weight', n, m)
  /\ \A n : SumFrom(n) = SumFromOf(weight, final, n) /\ SumFrom(n)' = SumFromOf(weight', final', n)
<1>1. \A n, m : PathSum(n, m) = PathSumOf(weight, n, m)
  BY Zenon DEF PathSum, PathSumOf, PathWeight, PathWeightOf, MapThenSumSet, MapThenFoldSet, FoldSet
<1>2. \A n, m : PathSum(n, m)' = PathSumOf(weight', n, m)
  BY Zenon DEF PathSum, PathSumOf, PathWeight, PathWeightOf, MapThenSumSet, MapThenFoldSet, FoldSet
<1>3. \A n : SumFrom(n) = SumFromOf(weight, final, n)
  BY Zenon DEF SumFrom, SumFromOf, PathWeight, PathWeightOf, Accepted, MapThenSumSet, MapThenFoldSet, FoldSet
<1>4. \A n : SumFrom(n)' = SumFromOf(weight', final', n)
  BY Zenon DEF SumFrom, SumFromOf, PathWeight, PathWeightOf, Accepted, MapThenSumSet, MapThenFoldSet, FoldSet
<1> QED BY <1>1, <1>2, <1>3, <1>4

\* So does what is passed onwards.
LEMMA OnwardsIsOf ==
  \A u, n : /\ Onwards(u, n) = OnwardsOf(weight, final, reverse, u, n)
            /\ Onwards(u, n)' = OnwardsOf(weight', final', reverse', u, n)
  BY SumsOf DEF Onwards, OnwardsOf

\* What the nodes other than n have not passed on yet and will reach n.
Lacking(r, w, f, b, n) == MapThenSumSet(LAMBDA u : Get(r, u) * OnwardsOf(w, f, b, u, n), DOMAIN r \ {n})

\* Lacking is a sum over the nodes other than n.
LEMMA LackingIsFold ==
  ASSUME NEW r, NEW w, NEW f, NEW b, NEW n
  PROVE  Lacking(r, w, f, b, n)
           = Sum([u \in DOMAIN r \ {n} |-> Get(r, u) * OnwardsOf(w, f, b, u, n)], DOMAIN r \ {n})
<1> DEFINE S == DOMAIN r \ {n}
           v == [u \in S |-> Get(r, u) * OnwardsOf(w, f, b, u, n)]
           R(g) == g = [s \in SUBSET S |-> IF s = {} THEN 0
                                           ELSE Get(r, Pick(s)) * OnwardsOf(w, f, b, Pick(s), n) + g[s \ {Pick(s)}]]
<1>1. ASSUME NEW g PROVE Rec("plus", v, S, g) <=> R(g)
  <2>1. ASSUME NEW s \in SUBSET S
        PROVE  (IF s = {} THEN Base("plus") ELSE Op("plus", v[Pick(s)], g[s \ {Pick(s)}]))
                 = (IF s = {} THEN 0 ELSE Get(r, Pick(s)) * OnwardsOf(w, f, b, Pick(s), n) + g[s \ {Pick(s)}])
    <3>1. s # {} => v[Pick(s)] = Get(r, Pick(s)) * OnwardsOf(w, f, b, Pick(s), n)
      BY PickIn
    <3> HIDE DEF v
    <3> QED BY <3>1 DEF Base, Op
  <2> QED BY <2>1 DEF Rec
<1>2. (CHOOSE g : Rec("plus", v, S, g)) = (CHOOSE g : R(g))
  <2> HIDE DEF R, v
  <2> QED BY <1>1
<1>3. Lacking(r, w, f, b, n) = (CHOOSE g : R(g))[S]
  BY Zenon DEF Lacking, MapThenSumSet, MapThenFoldSet, Pick
<1> HIDE DEF R, v
<1>4. Lacking(r, w, f, b, n) = Sum(v, S)
  BY <1>2, <1>3 DEF Fold, Sum
<1> QED BY <1>4 DEF v

\* A vector of what waits.
Vector(r) == DOMAIN r \subseteq Reachable /\ \A u \in DOMAIN r : r[u] \in Nat

\* Lacking as a sum over all nodes but n.
LEMMA LackingIs ==
  ASSUME Weighted, reverse \in BOOLEAN, NEW r, Vector(r), NEW n \in States,
         NEW z, \A u \in Reachable : z[u] = Get(r, u) * Onwards(u, n)
  PROVE  /\ Lacking(r, weight, final, reverse, n) = Sum(z, Reachable \ {n})
         /\ AllNat(z, Reachable)
<1> DEFINE S == DOMAIN r \ {n}
           v == [u \in S |-> Get(r, u) * OnwardsOf(weight, final, reverse, u, n)]
<1>1. ASSUME NEW u \in Reachable PROVE z[u] \in Nat /\ (u \notin DOMAIN r => z[u] = 0)
  <2>1. Get(r, u) \in Nat /\ (u \notin DOMAIN r => Get(r, u) = 0) /\ Onwards(u, n) \in Nat
    BY OnwardsType DEF Get, Vector
  <2> QED BY <2>1, NatTimes
<1>2. AllNat(z, Reachable \ {n}) /\ IsFiniteSet(Reachable \ {n}) /\ S \in SUBSET (Reachable \ {n})
      /\ \A u \in (Reachable \ {n}) \ S : z[u] = 0
  BY <1>1, ReachableFinite, FS_Subset DEF AllNat, Vector
<1>3. Sum(z, Reachable \ {n}) = Sum(z, S)
  BY ONLY <1>2, SumExtend
<1>4. \A u \in S : z[u] = v[u]
  BY OnwardsIsOf DEF Vector
<1>5. Sum(z, S) = Sum(v, S)
  <2>1. IsFiniteSet(S)
    BY <1>2, FS_Subset
  <2> HIDE DEF v, S
  <2> QED BY ONLY <1>4, <2>1, SumSame
<1>6. Lacking(r, weight, final, reverse, n) = Sum(v, S)
  BY LackingIsFold
<1>7. AllNat(z, Reachable)
  BY <1>1 DEF AllNat
<1> QED BY <1>3, <1>5, <1>6, <1>7

\* NothingLost, but for what ShortestDistanceM has found in the vector and has not
\* removed.
NothingLostButLeft ==
  \A n \in States :
    Get(distance, n) + MapThenSumSet(LAMBDA u : Get(rdistance, u) * Onwards(u, n),
                                     DOMAIN rdistance \ {n})
      = (IF n = Source THEN 1 ELSE Onwards(Source, n)) + LeftOver(reverse, n)

\* What a node will have, and NothingLostButLeft for any two vectors.
Awaited(n) == (IF n = Source THEN 1 ELSE Onwards(Source, n)) + LeftOver(reverse, n)
Balanced(d, r) ==
  \A n \in States : Get(d, n) + Lacking(r, weight, final, reverse, n) = Awaited(n)

\* NothingLostButLeft is that the two vectors are balanced.
LEMMA NothingLostIs == NothingLostButLeft <=> Balanced(distance, rdistance)
<1>1. NothingLostButLeft <=> \A n \in States :
        Get(distance, n) + Lacking(rdistance, weight, final, reverse, n) = Awaited(n)
  BY Zenon DEF NothingLostButLeft, Lacking, Awaited, Onwards, OnwardsOf, PathSum, PathSumOf, SumFrom, SumFromOf,
     PathWeight, PathWeightOf, Accepted
<1> QED BY <1>1 DEF Balanced

\* What a node will have, after a step.
AwaitedNext(n) == (IF n = Source' THEN 1 ELSE Onwards(Source, n)') + LeftOver(reverse, n)'

\* NothingLostButLeft after a step.
LEMMA NothingLostNext ==
  NothingLostButLeft' <=> \A n \in States :
     Get(distance', n) + Lacking(rdistance', weight', final', reverse', n) = AwaitedNext(n)
  BY Zenon DEF NothingLostButLeft, Lacking, AwaitedNext, Onwards, OnwardsOf, PathSum, PathSumOf, SumFrom, SumFromOf,
     PathWeight, PathWeightOf, Accepted, MapThenSumSet, MapThenFoldSet, FoldSet

\* The source is a node of the direction of the sum.
LEMMA SourceIn ==
  ASSUME reverse \in BOOLEAN
  PROVE  Source \in Reachable
  BY StatesFinite DEF Source, Reachable, Nodes

\* When only the source has something to pass on, a node lacks all of its sum.
LEMMA LackingFromSource ==
  ASSUME Weighted, reverse \in BOOLEAN, NEW r, Vector(r), NEW n \in States,
         \A u \in Reachable : Get(r, u) = IF u = Source THEN 1 ELSE 0
  PROVE  Lacking(r, weight, final, reverse, n) = IF n = Source THEN 0 ELSE Onwards(Source, n)
<1> DEFINE z == [u \in Reachable |-> Get(r, u) * Onwards(u, n)]
           R == Reachable \ {n}
<1>1. Lacking(r, weight, final, reverse, n) = Sum(z, R)
  <2>1. \A u \in Reachable : z[u] = Get(r, u) * Onwards(u, n)
    OBVIOUS
  <2> HIDE DEF z
  <2> QED BY <2>1, LackingIs
<1>2. ASSUME NEW u \in Reachable
      PROVE  z[u] = IF u = Source THEN Onwards(u, n) ELSE 0
  <2>1. z[u] = Get(r, u) * Onwards(u, n) /\ Onwards(u, n) \in Nat
    BY OnwardsType
  <2>2. Get(r, u) = IF u = Source THEN 1 ELSE 0
    OBVIOUS
  <2> HIDE DEF z
  <2> QED BY ONLY <2>1, <2>2, NatTimes
<1>3. IsFiniteSet(R)
  BY ReachableFinite, FS_Subset
<1>4. CASE n = Source
  <2>1. \A u \in R : z[u] = 0
    BY <1>2, <1>4
  <2> HIDE DEF z, R
  <2> QED BY <1>1, <1>3, <1>4, <2>1, SumZero
<1>5. CASE n # Source
  <2>1. Source \in Reachable /\ Source \in R /\ Onwards(Source, n) \in Nat
    BY <1>5, SourceIn, OnwardsType
  <2>2. z[Source] = Onwards(Source, n) /\ \A u \in R : u # Source => z[u] = 0
    BY <1>2, <2>1
  <2>3. Sum(z, R) = z[Source]
    <3> HIDE DEF z, R
    <3> QED BY ONLY <1>3, <2>1, <2>2, SumDelta
  <2> HIDE DEF z
  <2> QED BY <1>1, <1>5, <2>2, <2>3
<1> QED BY <1>4, <1>5

\* When no node has something to pass on, nothing is lacking.
LEMMA NothingLacking ==
  ASSUME Weighted, reverse \in BOOLEAN, NEW r, Vector(r), NEW n \in States,
         \A u \in Reachable : Get(r, u) = 0
  PROVE  Lacking(r, weight, final, reverse, n) = 0
<1> DEFINE z == [u \in Reachable |-> Get(r, u) * Onwards(u, n)]
           R == Reachable \ {n}
<1>1. Lacking(r, weight, final, reverse, n) = Sum(z, R)
  <2>1. \A u \in Reachable : z[u] = Get(r, u) * Onwards(u, n)
    OBVIOUS
  <2> HIDE DEF z
  <2> QED BY <2>1, LackingIs
<1>2. ASSUME NEW u \in R PROVE z[u] = 0
  <2>1. z[u] = Get(r, u) * Onwards(u, n) /\ Onwards(u, n) \in Nat /\ Get(r, u) = 0
    BY OnwardsType
  <2> HIDE DEF z
  <2> QED BY <2>1, NatTimes
<1>3. IsFiniteSet(R)
  BY ReachableFinite, FS_Subset
<1> HIDE DEF z, R
<1> QED BY <1>1, <1>2, <1>3, SumZero

\* The sums made so far are natural numbers.
Counted(d) == \A n \in States : Get(d, n) \in Nat

\* When a state passes on what waits at it, what other nodes lack is what waits at
\* its successors, so that nothing is lost.
LEMMA RelaxBalanced ==
  ASSUME Weighted, reverse \in BOOLEAN, Vector(rdistance), Counted(distance),
         Balanced(distance, rdistance),
         NEW s \in DOMAIN rdistance, NEW d, NEW r, Vector(r),
         \A u \in Reachable : Get(r, u) = IF u = s THEN 0 ELSE Get(rdistance, u) + Passed(s, u),
         \A u \in States : Get(d, u) = Get(distance, u) + Passed(s, u)
  PROVE  Balanced(d, r)
<1> SUFFICES ASSUME NEW n \in States
             PROVE  Get(d, n) + Lacking(r, weight, final, reverse, n) = Awaited(n)
  BY DEF Balanced
<1> DEFINE x == [u \in Reachable |-> Passed(s, u) * Onwards(u, n)]
           y == [u \in Reachable |-> Get(rdistance, u) * Onwards(u, n)]
           z == [u \in Reachable |-> Get(r, u) * Onwards(u, n)]
           k == [u \in Reachable |-> IF u = s THEN 0 ELSE y[u]]
           R == Reachable \ {n}
<1>0. IsFiniteSet(Reachable) /\ IsFiniteSet(R) /\ n \in Reachable /\ s \in Reachable /\ R \subseteq Reachable
  BY ReachableFinite, FS_Subset DEF Vector
<1>1. rdistance[s] \in Nat /\ Get(rdistance, s) = rdistance[s]
  BY DEF Vector, Get
<1>2. /\ Sum(x, Reachable) = IF s = n THEN 0 ELSE rdistance[s] * Onwards(s, n)
      /\ AllNat(x, Reachable)
  <2>1. \A u \in Reachable : x[u] = Passed(s, u) * Onwards(u, n)
    OBVIOUS
  <2> HIDE DEF x
  <2> QED BY <1>0, <1>1, <2>1, PassOn
<1>3. Lacking(rdistance, weight, final, reverse, n) = Sum(y, R) /\ AllNat(y, Reachable)
  <2>1. \A u \in Reachable : y[u] = Get(rdistance, u) * Onwards(u, n)
    OBVIOUS
  <2> HIDE DEF y
  <2> QED BY <2>1, LackingIs
<1>4. Lacking(r, weight, final, reverse, n) = Sum(z, R) /\ AllNat(z, Reachable)
  <2>1. \A u \in Reachable : z[u] = Get(r, u) * Onwards(u, n)
    OBVIOUS
  <2> HIDE DEF z
  <2> QED BY <2>1, LackingIs
<1>5. ASSUME NEW u \in Reachable PROVE z[u] = k[u] + x[u] /\ k[u] \in Nat
  <2>1. Passed(s, u) \in Nat /\ Passed(s, s) = 0 /\ Onwards(u, n) \in Nat
    BY <1>0, <1>1, PassedIs, OnwardsType
  <2>2. Get(rdistance, u) \in Nat
    BY DEF Get, Vector
  <2>3. Get(r, u) = IF u = s THEN 0 ELSE Get(rdistance, u) + Passed(s, u)
    OBVIOUS
  <2>4. /\ x[u] = Passed(s, u) * Onwards(u, n) /\ z[u] = Get(r, u) * Onwards(u, n)
        /\ k[u] = IF u = s THEN 0 ELSE Get(rdistance, u) * Onwards(u, n)
    OBVIOUS
  <2>5. \A a, b, c \in Nat : (a + b) * c = a * c + b * c /\ 0 * c = 0 /\ a * c \in Nat
    OBVIOUS
  <2> HIDE DEF x, y, z, k
  <2>6. CASE u = s
    BY <2>1, <2>3, <2>4, <2>5, <2>6
  <2>7. CASE u # s
    BY <2>1, <2>2, <2>3, <2>4, <2>5, <2>7
  <2> QED BY <2>6, <2>7
<1>6. Sum(z, R) = Sum(k, R) + Sum(x, R) /\ Sum(k, R) \in Nat /\ Sum(x, R) \in Nat
  <2>1. AllNat(k, R) /\ AllNat(x, R) /\ \A u \in R : z[u] = k[u] + x[u]
    BY <1>0, <1>2, <1>5 DEF AllNat
  <2> HIDE DEF x, y, z, k, R
  <2> QED BY ONLY <1>0, <2>1, SumAdd, SumType
<1>7. Sum(x, Reachable) = Passed(s, n) + Sum(x, R) /\ Passed(s, n) \in Nat
  <2>1. Sum(x, Reachable) = x[n] + Sum(x, R)
    <3> HIDE DEF x
    <3> QED BY ONLY <1>0, <1>2, SumAny
  <2>2. x[n] = Passed(s, n) * Onwards(n, n) /\ Passed(s, n) \in Nat /\ Onwards(n, n) = 1
    BY <1>0, <1>1, PassedIs, OnwardsType
  <2> HIDE DEF x
  <2> QED BY <2>1, <2>2, NatTimes
<1>8. Sum(y, R) = Sum(k, R) + (IF s = n THEN 0 ELSE rdistance[s] * Onwards(s, n))
  <2>1. CASE s = n
    <3>1. \A u \in R : y[u] = k[u]
      BY <2>1
    <3>2. Sum(y, R) = Sum(k, R)
      <4> HIDE DEF y, k, R
      <4> QED BY ONLY <1>0, <3>1, SumSame
    <3> HIDE DEF y, k, R
    <3> QED BY <1>6, <2>1, <3>2
  <2>2. CASE s # n
    <3> DEFINE Q == R \ {s}
    <3>1. s \in R /\ IsFiniteSet(Q) /\ AllNat(y, R) /\ AllNat(k, R)
      BY <1>0, <1>3, <1>5, <2>2, FS_Subset DEF AllNat
    <3>2. Sum(y, R) = y[s] + Sum(y, Q) /\ Sum(k, R) = k[s] + Sum(k, Q)
      <4> HIDE DEF y, k, R
      <4> QED BY ONLY <1>0, <3>1, SumAny
    <3>3. k[s] = 0 /\ y[s] = rdistance[s] * Onwards(s, n) /\ \A u \in Q : y[u] = k[u]
      BY <1>0, <1>1
    <3>4. Sum(y, Q) = Sum(k, Q)
      <4> HIDE DEF y, k, Q
      <4> QED BY ONLY <3>1, <3>3, SumSame
    <3>5. y[s] \in Nat /\ Sum(k, Q) \in Nat
      <4>1. AllNat(k, Q)
        BY <3>1 DEF AllNat
      <4>2. Sum(k, Q) \in Nat
        <5> HIDE DEF k, Q
        <5> QED BY ONLY <3>1, <4>1, SumType
      <4> QED BY <3>1, <4>2 DEF AllNat
    <3> HIDE DEF y, k, R, Q
    <3> QED BY <2>2, <3>2, <3>3, <3>4, <3>5
  <2> QED BY <2>1, <2>2
<1>9. Get(distance, n) + Sum(y, R) = Awaited(n) /\ Get(distance, n) \in Nat
  BY <1>3 DEF Balanced, Counted
<1>10. Get(d, n) = Get(distance, n) + Passed(s, n)
  OBVIOUS
<1> DEFINE o == IF s = n THEN 0 ELSE rdistance[s] * Onwards(s, n)
<1>11. Sum(x, Reachable) = o /\ Sum(y, R) = Sum(k, R) + o
  BY <1>2, <1>8
<1> HIDE DEF x, y, z, k, R, o
<1> QED BY <1>4, <1>6, <1>7, <1>9, <1>10, <1>11

\* DoOneStep is a sum over the nodes.
LEMMA OneStepIsFold ==
  ASSUME NEW n \in DOMAIN rdistance
  PROVE  DoOneStep[n] = Sum([s \in DOMAIN rdistance |-> Passed(s, n)], DOMAIN rdistance)
<1> DEFINE S == DOMAIN rdistance
           v == [s \in S |-> Passed(s, n)]
           R(g) == g = [s \in SUBSET S |-> IF s = {} THEN 0 ELSE Passed(Pick(s), n) + g[s \ {Pick(s)}]]
<1>1. ASSUME NEW g PROVE Rec("plus", v, S, g) <=> R(g)
  <2>1. ASSUME NEW s \in SUBSET S
        PROVE  (IF s = {} THEN Base("plus") ELSE Op("plus", v[Pick(s)], g[s \ {Pick(s)}]))
                 = (IF s = {} THEN 0 ELSE Passed(Pick(s), n) + g[s \ {Pick(s)}])
    <3>1. s # {} => v[Pick(s)] = Passed(Pick(s), n)
      BY PickIn
    <3> HIDE DEF v
    <3> QED BY <3>1 DEF Base, Op
  <2> QED BY <2>1 DEF Rec
<1>2. (CHOOSE g : Rec("plus", v, S, g)) = (CHOOSE g : R(g))
  <2> HIDE DEF R, v
  <2> QED BY <1>1
<1>3. DoOneStep[n] = MapThenSumSet(LAMBDA s : Passed(s, n), DOMAIN rdistance)
  BY Zenon DEF DoOneStep
<1>4. MapThenSumSet(LAMBDA s : Passed(s, n), DOMAIN rdistance) = (CHOOSE g : R(g))[S]
  BY Zenon DEF MapThenSumSet, MapThenFoldSet, Pick
<1> HIDE DEF R, v
<1>5. DoOneStep[n] = Sum(v, S)
  BY <1>2, <1>3, <1>4 DEF Fold, Sum
<1> QED BY <1>5 DEF v

\* DoOneStep yields natural numbers.
LEMMA OneStepType ==
  ASSUME Weighted, reverse \in BOOLEAN, Vector(rdistance), NEW u \in DOMAIN rdistance
  PROVE  DoOneStep[u] \in Nat
<1> DEFINE v == [s \in DOMAIN rdistance |-> Passed(s, u)]
<1>1. IsFiniteSet(DOMAIN rdistance)
  BY ReachableFinite, FS_Subset DEF Vector
<1>2. AllNat(v, DOMAIN rdistance)
  BY PassedIs DEF AllNat, Vector
<1>3. DoOneStep[u] = Sum(v, DOMAIN rdistance)
  BY OneStepIsFold
<1> HIDE DEF v
<1> QED BY <1>1, <1>2, <1>3, SumType

\* When all nodes pass on what they have at once, nothing is lost either.
LEMMA MatrixBalanced ==
  ASSUME Weighted, reverse \in BOOLEAN, Vector(rdistance), Counted(distance),
         DOMAIN rdistance = Reachable, Balanced(distance, rdistance),
         NEW d, \A u \in States : Get(d, u) = DoOneStep[u] + Get(distance, u)
  PROVE  Balanced(d, DoOneStep)
<1> SUFFICES ASSUME NEW n \in States
             PROVE  Get(d, n) + Lacking(DoOneStep, weight, final, reverse, n) = Awaited(n)
  BY DEF Balanced
<1> DEFINE D == Reachable
           y == [u \in D |-> Get(rdistance, u) * Onwards(u, n)]
           z == [u \in D |-> Get(DoOneStep, u) * Onwards(u, n)]
           rows == [u \in D |-> [s \in D |-> Passed(s, u) * Onwards(u, n)]]
           cols == [s \in D |-> [u \in D |-> Passed(s, u) * Onwards(u, n)]]
           to == [s \in D |-> Sum(cols[s], D)]
           R == D \ {n}
<1>0. IsFiniteSet(D) /\ IsFiniteSet(R) /\ n \in D /\ R \subseteq D
  BY ReachableFinite, FS_Subset
<1>a. DOMAIN DoOneStep = D
  BY DEF DoOneStep
<1>b. Vector(DoOneStep)
  BY <1>a, OneStepType DEF Vector
<1>c. \A s \in D : rdistance[s] \in Nat /\ Get(rdistance, s) = rdistance[s]
  BY DEF Vector, Get
<1>1. Lacking(rdistance, weight, final, reverse, n) = Sum(y, R) /\ AllNat(y, D)
  <2>1. \A u \in D : y[u] = Get(rdistance, u) * Onwards(u, n)
    OBVIOUS
  <2> HIDE DEF y
  <2> QED BY <2>1, LackingIs
<1>2. Lacking(DoOneStep, weight, final, reverse, n) = Sum(z, R) /\ AllNat(z, D)
  <2>1. \A u \in D : z[u] = Get(DoOneStep, u) * Onwards(u, n)
    OBVIOUS
  <2> HIDE DEF z
  <2> QED BY <1>b, <2>1, LackingIs
<1>3. ASSUME NEW u \in D, NEW s \in D
      PROVE  Passed(s, u) \in Nat /\ Onwards(u, n) \in Nat /\ Passed(s, u) * Onwards(u, n) \in Nat
  <2>1. Passed(s, u) \in Nat /\ Onwards(u, n) \in Nat
    BY <1>c, PassedIs, OnwardsType
  <2> QED BY <2>1, NatTimes
<1>4. ASSUME NEW u \in D PROVE z[u] = Sum(rows[u], D)
  <2> DEFINE v == [s \in D |-> Passed(s, u)]
  <2>1. Get(DoOneStep, u) = Sum(v, D)
    BY <1>a, OneStepIsFold DEF Get
  <2>2. AllNat(v, D) /\ Onwards(u, n) \in Nat
    BY <1>0, <1>3 DEF AllNat
  <2>3. \A s \in D : rows[u][s] = Onwards(u, n) * v[s]
    <3> TAKE s \in D
    <3>1. rows[u][s] = Passed(s, u) * Onwards(u, n) /\ v[s] = Passed(s, u)
      OBVIOUS
    <3> HIDE DEF rows, v
    <3> QED BY <1>3, <3>1, NatTimes
  <2>4. Sum(rows[u], D) = Onwards(u, n) * Sum(v, D)
    <3> HIDE DEF rows, v, D
    <3> QED BY ONLY <1>0, <2>2, <2>3, SumScale
  <2>5. Sum(v, D) \in Nat
    <3> HIDE DEF v, D
    <3> QED BY ONLY <1>0, <2>2, SumType
  <2>6. z[u] = Get(DoOneStep, u) * Onwards(u, n)
    OBVIOUS
  <2> HIDE DEF z, rows, v
  <2> QED BY <2>1, <2>2, <2>4, <2>5, <2>6, NatTimes
<1>5. Sum(z, D) = Sum(to, D)
  <2>1. \A u, s \in D : rows[u][s] \in Nat /\ cols[s][u] = rows[u][s]
    BY <1>3
  <2>2. \A s \in D : to[s] = Sum(cols[s], D)
    OBVIOUS
  <2>3. RowsAndColumns(D, D, rows, cols, z, to)
    <3> HIDE DEF rows, cols, z, to
    <3> QED BY <1>4, <2>1, <2>2 DEF RowsAndColumns
  <2> HIDE DEF rows, cols, z, to, D
  <2> QED BY ONLY <1>0, <2>3, SumSwap
<1>6. ASSUME NEW s \in D PROVE to[s] = IF s = n THEN 0 ELSE y[s]
  <2>1. \A u \in D : cols[s][u] = Passed(s, u) * Onwards(u, n)
    OBVIOUS
  <2>2. Sum(cols[s], D) = IF s = n THEN 0 ELSE rdistance[s] * Onwards(s, n)
    <3> HIDE DEF cols
    <3> QED BY <1>c, <2>1, PassOn
  <2>3. to[s] = Sum(cols[s], D) /\ y[s] = rdistance[s] * Onwards(s, n)
    BY <1>c
  <2> HIDE DEF to, cols, y
  <2> QED BY <2>2, <2>3
<1>7. Sum(to, D) = Sum(y, R)
  <2>1. AllNat(to, D)
    <3>1. \A s \in D : y[s] \in Nat
      BY <1>1 DEF AllNat
    <3> HIDE DEF to, y, D
    <3> QED BY <1>6, <3>1 DEF AllNat
  <2>2. R \in SUBSET D /\ (\A s \in D \ R : to[s] = 0) /\ (\A s \in R : to[s] = y[s])
    <3> HIDE DEF to, y
    <3> QED BY <1>6
  <2>3. Sum(to, D) = Sum(to, R)
    <3> HIDE DEF to, y, D, R
    <3> QED BY ONLY <1>0, <2>1, <2>2, SumExtend
  <2>4. Sum(to, R) = Sum(y, R)
    <3> HIDE DEF to, y, D, R
    <3> QED BY ONLY <1>0, <2>2, SumSame
  <2> QED BY <2>3, <2>4
<1>8. Sum(z, D) = DoOneStep[n] + Sum(z, R) /\ DoOneStep[n] \in Nat
  <2>1. Sum(z, D) = z[n] + Sum(z, R)
    <3> HIDE DEF z, D
    <3> QED BY ONLY <1>0, <1>2, SumAny DEF R
  <2>2. z[n] = Get(DoOneStep, n) * Onwards(n, n) /\ Onwards(n, n) = 1
    BY <1>0, OnwardsType
  <2>3. Get(DoOneStep, n) = DoOneStep[n] /\ DoOneStep[n] \in Nat
    BY <1>0, <1>a, OneStepType DEF Get
  <2> HIDE DEF z
  <2> QED BY <2>1, <2>2, <2>3, NatTimes
<1>9. Get(distance, n) + Sum(y, R) = Awaited(n) /\ Get(distance, n) \in Nat
  BY <1>1 DEF Balanced, Counted
<1>10. Sum(z, R) \in Nat
  <2>1. AllNat(z, R)
    BY <1>0, <1>2 DEF AllNat
  <2> HIDE DEF z, R
  <2> QED BY ONLY <1>0, <2>1, SumType
<1>11. Get(d, n) = DoOneStep[n] + Get(distance, n)
  OBVIOUS
<1> HIDE DEF y, z, to, R, D
<1> QED BY <1>2, <1>5, <1>7, <1>8, <1>9, <1>10, <1>11

-----------------------------------------------------------------------------
(* The inductive invariant.                                                 *)

\* ShortestDistanceM runs only if the option is set, on vectors with all nodes,
\* and only what it runs on is remembered as left over.
MatrixOnly ==
  /\ DOMAIN left = BOOLEAN
  /\ pc \in {"start", "loop", "timedOut"} => left[reverse] = None
  /\ ~ reverse => left[TRUE] = None
  /\ pc = "matrix" => matrix /\ DOMAIN rdistance = Reachable

\* The alphas are not touched any more while the betas are computed.
AlphasExact == reverse => \A n \in States : Get(alphas, n) = PathSum(0, n) + LeftOver(FALSE, n)

\* The betas are complete when the sums have ended.
BetasExact ==
  pc = "done" => /\ reverse /\ betas = Betas
                 /\ \A n \in States : Get(distance, n) = SumFrom(n) + LeftOver(TRUE, n)

\* No state of an FST without final states is ever visited from Super.
NeverEntered == (reverse /\ ~ matrix /\ \A n \in States : final[n] = 0) => DOMAIN distance \subseteq {Super}

\* The inductive invariant.
SumsInv ==
  /\ TypeOK /\ MatrixOnly
  /\ pc \in {"loop", "timedOut", "matrix"} => NothingLostButLeft
  /\ pc = "loop" => PendingIsQueued
  /\ AlphasExact /\ BetasExact /\ NeverEntered

\* A vector that is long enough for some nodes has all nodes up to the last of them.
LEMMA UpToIs ==
  ASSUME reverse \in BOOLEAN, NEW N \in SUBSET Reachable
  PROVE  /\ UpTo(N) \subseteq Reachable /\ N \subseteq UpTo(N) /\ UpTo(UpTo(N)) = UpTo(N)
         /\ (N \cap States # {} => 0 \in UpTo(N))
         /\ (N \subseteq {Super} => UpTo(N) \subseteq {Super})
<1>1. Nodes \subseteq Int /\ 0 \in States /\ Super \notin States /\ Nodes = States \cup {Super}
      /\ States \subseteq Nat
  BY StatesFinite, ReachableFinite DEF Super
<1>2. Reachable \subseteq Nodes /\ (~ reverse => Reachable = States) /\ (reverse => Reachable = Nodes)
  BY <1>1 DEF Reachable
<1>3. UpTo(N) \subseteq Reachable
  BY <1>1, <1>2 DEF UpTo
<1>4. N \subseteq UpTo(N)
  BY <1>1, <1>2 DEF UpTo
<1>5. UpTo(UpTo(N)) = UpTo(N)
  <2>1. ASSUME NEW n \in UpTo(N) PROVE n \in UpTo(UpTo(N))
    BY <1>1, <2>1 DEF UpTo
  <2>2. ASSUME NEW n \in UpTo(UpTo(N)) PROVE n \in UpTo(N)
    <3>1. PICK k \in UpTo(N) : n <= k
      BY DEF UpTo
    <3>2. PICK m \in N : k <= m
      BY <3>1 DEF UpTo
    <3>3. n \in Int /\ k \in Int /\ m \in Int
      BY <1>1, <1>2, <1>3 DEF UpTo
    <3>4. n <= m
      BY <3>1, <3>2, <3>3
    <3> QED BY <3>2, <3>4 DEF UpTo
  <2> QED BY <2>1, <2>2
<1>6. N \cap States # {} => 0 \in UpTo(N)
  <2> SUFFICES ASSUME NEW m \in N, m \in States PROVE 0 \in UpTo(N)
    OBVIOUS
  <2>1. 0 <= m /\ 0 # Super
    BY <1>1
  <2> QED BY <1>1, <2>1 DEF UpTo
<1>7. N \subseteq {Super} => UpTo(N) \subseteq {Super}
  <2> SUFFICES ASSUME N \subseteq {Super}, NEW n \in UpTo(N) PROVE n = Super
    OBVIOUS
  <2>1. n \in Nodes /\ n <= Super
    BY DEF UpTo
  <2> QED BY <1>1, <2>1 DEF Super
<1> QED BY <1>3, <1>4, <1>5, <1>6, <1>7

\* What TypeOK says of the vectors.
LEMMA StateTypes ==
  ASSUME TypeOK
  PROVE  /\ Weighted /\ reverse \in BOOLEAN
         /\ DOMAIN distance = DOMAIN rdistance /\ enqueued \subseteq DOMAIN rdistance
         /\ Vector(distance) /\ Vector(rdistance) /\ Counted(distance)
         /\ \A n : Get(distance, n) \in Nat /\ Get(rdistance, n) \in Nat
<1>1. Weighted
  BY ConstantsAssumption DEF TypeOK, Weighted
<1>2. DOMAIN distance \subseteq Reachable
  BY ReachableFinite DEF TypeOK, UpTo, Reachable
<1>3. /\ \A n \in DOMAIN distance : distance[n] \in Nat
      /\ \A n \in DOMAIN rdistance : rdistance[n] \in Nat
  BY DEF TypeOK
<1> QED BY <1>1, <1>2, <1>3 DEF TypeOK, Vector, Counted, Get

\* A step that changes neither weights nor direction loses nothing if the new
\* vectors are balanced.
LEMMA BalancedNext ==
  ASSUME weight' = weight, final' = final, reverse' = reverse, left' = left
  PROVE  NothingLostButLeft' <=> Balanced(distance', rdistance')
<1>1. \A n : AwaitedNext(n) = Awaited(n)
  BY SumsOf, OnwardsIsOf DEF AwaitedNext, Awaited, Source, LeftOver, Get
<1> QED BY <1>1, NothingLostNext DEF Balanced

\* What holds of a state also holds of one that only differs in pc and limited.
LEMMA SameSums ==
  ASSUME weight' = weight, final' = final, reverse' = reverse, left' = left,
         distance' = distance, rdistance' = rdistance, NothingLostButLeft
  PROVE  NothingLostButLeft'
  BY BalancedNext, NothingLostIs

\* Steps that leave the alphas alone keep them exact.
LEMMA AlphasStay ==
  ASSUME weight' = weight, final' = final, reverse' = reverse, alphas' = alphas, reverse => left'[FALSE] = left[FALSE],
         AlphasExact
  PROVE  AlphasExact'
  BY SumsOf DEF AlphasExact, LeftOver, Get

\* A sum that has ended lacks nothing.
LEMMA SumComplete ==
  ASSUME SumsInv, SumEnded, NEW n \in States
  PROVE  Get(distance, n) = (IF n = Source THEN 1 ELSE Onwards(Source, n)) + LeftOver(reverse, n)
<1>1. Weighted /\ reverse \in BOOLEAN /\ Vector(rdistance) /\ Get(distance, n) \in Nat
  BY StateTypes DEF SumsInv
<1>2. \A u \in Reachable : Get(rdistance, u) = 0
  BY DEF SumsInv, SumEnded, PendingIsQueued, Get
<1>3. Balanced(distance, rdistance)
  BY NothingLostIs DEF SumsInv, SumEnded
<1>4. Lacking(rdistance, weight, final, reverse, n) = 0
  BY <1>1, <1>2, NothingLacking
<1> QED BY <1>1, <1>3, <1>4 DEF Balanced, Awaited

\* The invariant holds in the beginning.
LEMMA InitSums == Init => SumsInv
<1> SUFFICES ASSUME Init PROVE SumsInv
  OBVIOUS
<1>1. DOMAIN None = {} /\ UpTo({}) = {}
  BY DEF None, UpTo
<1>2. TypeOK
  BY <1>1 DEF Init, TypeOK
<1> QED BY <1>1, <1>2 DEF Init, SumsInv, MatrixOnly, AlphasExact, BetasExact, NeverEntered

\* Clearing the vectors and queueing the source keeps it.
LEMMA StartSums == SumsInv /\ Start => SumsInv'
<1> SUFFICES ASSUME SumsInv, Start PROVE SumsInv'
  OBVIOUS
<1> DEFINE D == UpTo({Source})
<1>1. TypeOK /\ Weighted /\ reverse \in BOOLEAN /\ MatrixOnly
  BY StateTypes DEF SumsInv
<1>2. /\ weight' = weight /\ final' = final /\ matrix' = matrix /\ reverse' = reverse /\ limited' = limited
      /\ alphas' = alphas /\ betas' = betas /\ left' = left /\ pc = "start" /\ pc' = "loop"
      /\ enqueued' = {Source}
      /\ distance' = [n \in D |-> IF n = Source THEN 1 ELSE 0] /\ rdistance' = distance'
  BY DEF Start, fst
<1>3. Source \in Reachable /\ Source \in D /\ D \subseteq Reachable /\ UpTo(D) = D
  BY <1>1, SourceIn, UpToIs
<1>4. TypeOK'
  <2>1. UpTo(D)' = UpTo(D)
    BY <1>2 DEF UpTo, Source
  <2>2. DOMAIN distance' = D /\ DOMAIN rdistance' = D /\ \A n \in D : distance'[n] \in Nat
    BY <1>2
  <2>3. DOMAIN distance' = UpTo(DOMAIN distance)'
    BY <1>2, <1>3, <2>2 DEF UpTo
  <2> HIDE DEF D
  <2> QED BY <1>1, <1>2, <1>3, <2>2, <2>3 DEF TypeOK
<1>5. NothingLostButLeft'
  <2>1. ASSUME NEW n \in Reachable PROVE Get(distance', n) = IF n = Source THEN 1 ELSE 0
    <3> HIDE DEF D
    <3> QED BY <1>2, <1>3 DEF Get
  <2>2. Vector(rdistance')
    <3> HIDE DEF D
    <3> QED BY <1>2, <1>3 DEF Vector
  <2>3. ASSUME NEW n \in States
        PROVE  Get(distance', n) + Lacking(rdistance', weight, final, reverse, n) = Awaited(n)
    <3>1. n \in Reachable /\ Onwards(Source, n) \in Nat
      BY <1>1, <1>3, OnwardsType, ReachableFinite
    <3>2. Lacking(rdistance', weight, final, reverse, n) = IF n = Source THEN 0 ELSE Onwards(Source, n)
      BY <1>1, <1>2, <2>1, <2>2, LackingFromSource
    <3>3. LeftOver(reverse, n) = 0
      BY <1>1, <1>2 DEF LeftOver, Get, None, MatrixOnly
    <3> HIDE DEF D
    <3> QED BY <2>1, <3>1, <3>2, <3>3 DEF Awaited
  <2> QED BY <1>2, <2>3, BalancedNext DEF Balanced
<1>6. PendingIsQueued'
  <2> HIDE DEF D
  <2> QED BY <1>2, <1>3 DEF PendingIsQueued
<1>7. AlphasExact'
  BY <1>2, AlphasStay DEF SumsInv
<1>8. NeverEntered'
  <2> SUFFICES ASSUME reverse PROVE D \subseteq {Super}
    BY <1>2 DEF NeverEntered
  <2>1. {Source} \subseteq {Super} /\ {Source} \in SUBSET Reachable
    BY <1>3 DEF Source
  <2> QED BY <1>1, <2>1, UpToIs
<1>9. MatrixOnly' /\ BetasExact'
  BY <1>1, <1>2 DEF MatrixOnly, BetasExact
<1> QED BY <1>2, <1>4, <1>5, <1>6, <1>7, <1>8, <1>9 DEF SumsInv

\* So does a turn of the loop.
LEMMA RelaxSums == ASSUME NEW s, SumsInv, Relax(s) PROVE SumsInv'
<1> DEFINE D == VisitedAfter(s)
<1>1. /\ TypeOK /\ Weighted /\ reverse \in BOOLEAN /\ MatrixOnly /\ NothingLostButLeft /\ PendingIsQueued
      /\ Vector(rdistance) /\ Vector(distance) /\ Counted(distance) /\ DOMAIN distance = DOMAIN rdistance
  BY StateTypes DEF SumsInv, Relax
<1>2. /\ weight' = weight /\ final' = final /\ matrix' = matrix /\ reverse' = reverse /\ limited' = limited
      /\ alphas' = alphas /\ betas' = betas /\ left' = left /\ pc = "loop" /\ pc' = "loop"
      /\ s \in enqueued /\ enqueued' = (enqueued \ {s}) \cup Reached(s)
      /\ distance' = [n \in D |-> Get(distance, n) + Passed(s, n)]
      /\ rdistance' = [n \in D |-> IF n = s THEN 0 ELSE Get(rdistance, n) + Passed(s, n)]
  BY DEF Relax, fst, QueuedAfter, PendingAfter
<1>3. s \in DOMAIN rdistance /\ s \in Reachable /\ rdistance[s] \in Nat
  BY <1>1, <1>2, StateTypes DEF Vector
<1>4. /\ \A u : Passed(s, u) \in Nat /\ (u \notin States => Passed(s, u) = 0)
      /\ Passed(s, s) = 0
  BY <1>1, <1>3, PassedIs
<1>5. /\ DOMAIN distance \cup {s} \cup Successors(s) \in SUBSET Reachable
      /\ DOMAIN distance \subseteq D /\ s \in D /\ Successors(s) \subseteq D /\ D \subseteq Reachable
      /\ UpTo(D) = D
  <2>1. DOMAIN distance \cup {s} \cup Successors(s) \in SUBSET Reachable
    BY <1>1, <1>3, ReachableFinite DEF Vector, Successors
  <2> QED BY <1>1, <2>1, UpToIs DEF VisitedAfter
<1> HIDE DEF D
<1>6. \A u : Get(distance, u) \in Nat /\ Get(rdistance, u) \in Nat
  BY <1>1, StateTypes
<1>7. Reached(s) \subseteq D /\ \A u : u \notin D => Passed(s, u) = 0
  BY <1>5 DEF Reached, Passed
<1>8. TypeOK'
  <2>1. UpTo(DOMAIN distance)' = D
    BY <1>2, <1>5 DEF UpTo
  <2>2. enqueued' \subseteq D
    BY <1>1, <1>2, <1>5, <1>7 DEF TypeOK
  <2>3. \A n \in D : distance'[n] \in Nat /\ rdistance'[n] \in Nat
    BY <1>2, <1>4, <1>6
  <2>4. DOMAIN distance' = D /\ DOMAIN rdistance' = D
    BY <1>2
  <2>5. DOMAIN distance' = UpTo(DOMAIN distance)'
    BY <2>1, <2>4
  <2> QED BY <1>1, <1>2, <2>2, <2>3, <2>4, <2>5 DEF TypeOK
<1>9. NothingLostButLeft'
  <2>1. Vector(rdistance')
    BY <1>2, <1>4, <1>5, <1>6 DEF Vector
  <2>2. ASSUME NEW u PROVE Get(rdistance', u) = IF u = s THEN 0 ELSE Get(rdistance, u) + Passed(s, u)
    BY <1>1, <1>2, <1>5, <1>7 DEF Get
  <2>3. ASSUME NEW u PROVE Get(distance', u) = Get(distance, u) + Passed(s, u)
    BY <1>1, <1>2, <1>5, <1>7 DEF Get
  <2>4. Balanced(distance, rdistance)
    BY <1>1, NothingLostIs
  <2>5. Balanced(distance', rdistance')
    BY <1>1, <1>3, <2>1, <2>2, <2>3, <2>4, RelaxBalanced
  <2> QED BY <1>2, <2>5, BalancedNext
<1>10. PendingIsQueued'
  <2>1. \A u : u \in enqueued <=> u \in DOMAIN rdistance /\ rdistance[u] # 0
    BY <1>1 DEF PendingIsQueued
  <2>2. \A u : u \in Reached(s) <=> u \in D /\ Passed(s, u) # 0
    BY <1>4, <1>5 DEF Reached, Passed
  <2>3. \A u : u \in enqueued <=> u \in D /\ Get(rdistance, u) # 0
    BY <1>1, <1>5, <2>1 DEF Get
  <2>4. \A u \in D : Get(rdistance, u) + Passed(s, u) # 0 <=> Get(rdistance, u) # 0 \/ Passed(s, u) # 0
    BY <1>4, <1>6
  <2>5. \A u : u \in enqueued' <=> u \in D /\ rdistance'[u] # 0
    BY <1>2, <1>4, <2>2, <2>3, <2>4
  <2> QED BY <1>2, <2>5 DEF PendingIsQueued
<1>11. AlphasExact'
  BY <1>2, AlphasStay DEF SumsInv
<1>12. NeverEntered'
  <2> SUFFICES ASSUME reverse, ~ matrix, \A n \in States : final[n] = 0 PROVE D \subseteq {Super}
    BY <1>2 DEF NeverEntered
  <2>1. DOMAIN distance \subseteq {Super} /\ s = Super
    BY <1>1, <1>3 DEF SumsInv, NeverEntered
  <2>2. Successors(s) = {}
    BY <2>1 DEF Successors, ArcWeight, Reversed
  <2>3. DOMAIN distance \cup {s} \cup Successors(s) \subseteq {Super}
    BY <2>1, <2>2
  <2> QED BY <1>1, <1>5, <2>3, UpToIs DEF D, VisitedAfter
<1>13. MatrixOnly' /\ BetasExact'
  BY <1>1, <1>2 DEF MatrixOnly, BetasExact
<1> QED BY <1>2, <1>8, <1>9, <1>10, <1>11, <1>12, <1>13 DEF SumsInv

\* So does an interruption, and starting again.
LEMMA InterruptSums == SumsInv /\ (RunOutOfTime \/ RerunUnlimited) => SumsInv'
<1> SUFFICES ASSUME SumsInv, RunOutOfTime \/ RerunUnlimited PROVE SumsInv'
  OBVIOUS
<1>1. /\ weight' = weight /\ final' = final /\ matrix' = matrix /\ reverse' = reverse /\ limited' \in BOOLEAN
      /\ alphas' = alphas /\ betas' = betas /\ left' = left
      /\ enqueued' = enqueued /\ distance' = distance /\ rdistance' = rdistance
      /\ \/ pc = "loop" /\ pc' = "timedOut"
         \/ pc = "timedOut" /\ pc' = "start"
  BY DEF RunOutOfTime, RerunUnlimited, fst, loopVars, SumsInv, TypeOK
<1>2. TypeOK'
  <2>1. UpTo(DOMAIN distance)' = UpTo(DOMAIN distance)
    BY <1>1 DEF UpTo
  <2> QED BY <1>1, <2>1 DEF SumsInv, TypeOK
<1>3. pc' = "timedOut" => NothingLostButLeft'
  BY <1>1, SameSums DEF SumsInv
<1>4. AlphasExact'
  BY <1>1, AlphasStay DEF SumsInv
<1>5. MatrixOnly' /\ BetasExact' /\ NeverEntered'
  BY <1>1 DEF SumsInv, MatrixOnly, BetasExact, NeverEntered
<1> QED BY <1>1, <1>2, <1>3, <1>4, <1>5 DEF SumsInv

\* So does starting ShortestDistanceM on the vector of an interrupted sum.
LEMMA RerunMatrixSums == SumsInv /\ RerunMatrix => SumsInv'
<1> SUFFICES ASSUME SumsInv, RerunMatrix PROVE SumsInv'
  OBVIOUS
<1>1. /\ TypeOK /\ Weighted /\ reverse \in BOOLEAN /\ MatrixOnly
      /\ Vector(distance) /\ \A n : Get(distance, n) \in Nat
  BY StateTypes DEF SumsInv
<1>2. /\ weight' = weight /\ final' = final /\ matrix' = matrix /\ reverse' = reverse /\ limited' = limited
      /\ alphas' = alphas /\ betas' = betas /\ enqueued' = {} /\ matrix
      /\ pc = "timedOut" /\ pc' = "matrix"
      /\ left' = [left EXCEPT ![reverse] = LeftBehind]
      /\ distance' = [LeftBehind EXCEPT ![Source] = 1]
      /\ rdistance' = [n \in DOMAIN LeftBehind |-> IF n = Source THEN 1 ELSE 0]
  BY DEF RerunMatrix, fst
<1>3. Source \in Reachable /\ UpTo(Reachable) = Reachable
  <2>1. Reachable \subseteq UpTo(Reachable) /\ UpTo(Reachable) \subseteq Reachable
    BY <1>1, UpToIs
  <2> QED BY <1>1, <2>1, SourceIn
<1>4. /\ DOMAIN LeftBehind = Reachable /\ LeftBehind[Source] = 0
      /\ \A n \in Reachable : LeftBehind[n] \in Nat
  <2>1. \A n : Get(Betas, n) \in Nat
    BY <1>1 DEF Get, Betas, Vector
  <2> QED BY <1>1, <1>3, <2>1 DEF LeftBehind, Reachable, Source
<1>5. left'[reverse] = LeftBehind /\ left'[~ reverse] = left[~ reverse] /\ DOMAIN left' = BOOLEAN
  BY <1>1, <1>2 DEF MatrixOnly
<1> HIDE DEF LeftBehind
<1>6. TypeOK'
  <2>1. UpTo(Reachable)' = Reachable
    BY <1>2, <1>3 DEF UpTo, Reachable
  <2>2. DOMAIN distance' = Reachable /\ DOMAIN rdistance' = Reachable
    BY <1>2, <1>4
  <2>3. UpTo(DOMAIN distance)' = Reachable
    BY <1>2, <1>3, <2>2 DEF UpTo
  <2>4. \A n \in Reachable : distance'[n] \in Nat /\ rdistance'[n] \in Nat
    BY <1>2, <1>4
  <2>5. \A n \in DOMAIN left'[FALSE] : left'[FALSE][n] \in Nat
    BY <1>1, <1>4, <1>5 DEF TypeOK
  <2>6. \A n \in DOMAIN left'[TRUE] : left'[TRUE][n] \in Nat
    BY <1>1, <1>4, <1>5 DEF TypeOK
  <2> QED BY <1>1, <1>2, <2>2, <2>3, <2>4, <2>5, <2>6 DEF TypeOK
<1>7. NothingLostButLeft'
  <2>1. ASSUME NEW u \in Reachable
        PROVE  /\ Get(rdistance', u) = IF u = Source THEN 1 ELSE 0
               /\ Get(distance', u) = IF u = Source THEN 1 ELSE LeftBehind[u]
    BY <1>2, <1>3, <1>4 DEF Get
  <2>2. Vector(rdistance')
    BY <1>2, <1>4 DEF Vector
  <2>3. ASSUME NEW n \in States
        PROVE  Get(distance', n) + Lacking(rdistance', weight', final', reverse', n) = AwaitedNext(n)
    <3>1. n \in Reachable /\ Onwards(Source, n) \in Nat
      BY <1>1, <1>3, OnwardsType, ReachableFinite
    <3>2. Lacking(rdistance', weight', final', reverse', n) = IF n = Source THEN 0 ELSE Onwards(Source, n)
      BY <1>1, <1>2, <2>1, <2>2, LackingFromSource
    <3>3. AwaitedNext(n) = (IF n = Source THEN 1 ELSE Onwards(Source, n)) + LeftBehind[n]
      <4>1. LeftOver(reverse, n)' = LeftBehind[n]
        BY <1>2, <1>4, <1>5, <3>1 DEF LeftOver, Get
      <4>2. Source' = Source /\ Onwards(Source, n)' = Onwards(Source, n)
        BY <1>2, OnwardsIsOf DEF Source
      <4> QED BY <4>1, <4>2 DEF AwaitedNext
    <3> QED BY <1>4, <2>1, <3>1, <3>2, <3>3
  <2> QED BY <2>3, NothingLostNext
<1>8. AlphasExact'
  BY <1>2, <1>5, AlphasStay DEF SumsInv
<1>9. MatrixOnly' /\ BetasExact' /\ NeverEntered'
  BY <1>1, <1>2, <1>4, <1>5 DEF MatrixOnly, BetasExact, NeverEntered, Reachable
<1> QED BY <1>2, <1>6, <1>7, <1>8, <1>9 DEF SumsInv

\* So does an iteration of ShortestDistanceM.
LEMMA MatrixStepSums == SumsInv /\ MatrixStep => SumsInv'
<1> SUFFICES ASSUME SumsInv, MatrixStep PROVE SumsInv'
  OBVIOUS
<1>1. /\ TypeOK /\ Weighted /\ reverse \in BOOLEAN /\ MatrixOnly /\ NothingLostButLeft
      /\ Vector(rdistance) /\ Vector(distance) /\ Counted(distance)
      /\ DOMAIN distance = Reachable /\ DOMAIN rdistance = Reachable
  BY StateTypes DEF SumsInv, MatrixStep, MatrixOnly
<1>2. /\ weight' = weight /\ final' = final /\ matrix' = matrix /\ reverse' = reverse /\ limited' = limited
      /\ alphas' = alphas /\ betas' = betas /\ left' = left /\ enqueued' = enqueued
      /\ pc = "matrix" /\ pc' = "matrix"
      /\ rdistance' = DoOneStep
      /\ distance' = [n \in DOMAIN distance |-> DoOneStep[n] + distance[n]]
  BY DEF MatrixStep, fst, Add
<1>3. DOMAIN DoOneStep = Reachable /\ \A n \in Reachable : DoOneStep[n] \in Nat /\ distance[n] \in Nat
  <2>1. \A n \in Reachable : DoOneStep[n] \in Nat
    BY <1>1, OneStepType
  <2> QED BY <1>1, <2>1 DEF DoOneStep, Vector
<1>4. TypeOK'
  <2>1. UpTo(DOMAIN distance)' = DOMAIN distance'
    BY <1>1, <1>2 DEF UpTo, TypeOK
  <2>2. \A n \in Reachable : distance'[n] \in Nat /\ rdistance'[n] \in Nat
    BY <1>1, <1>2, <1>3
  <2> QED BY <1>1, <1>2, <1>3, <2>1, <2>2 DEF TypeOK
<1>5. NothingLostButLeft'
  <2>1. \A u \in States : Get(distance', u) = DoOneStep[u] + Get(distance, u)
    BY <1>1, <1>2, ReachableFinite DEF Get
  <2>2. Balanced(distance, rdistance)
    BY <1>1, NothingLostIs
  <2>3. Balanced(distance', DoOneStep)
    BY <1>1, <2>1, <2>2, MatrixBalanced
  <2> QED BY <1>2, <2>3, BalancedNext
<1>6. AlphasExact'
  BY <1>2, AlphasStay DEF SumsInv
<1>7. MatrixOnly' /\ BetasExact' /\ NeverEntered'
  BY <1>1, <1>2, <1>3 DEF MatrixOnly, BetasExact, NeverEntered, Reachable
<1> QED BY <1>2, <1>4, <1>5, <1>6, <1>7 DEF SumsInv

\* So does the end of the alphas.
LEMMA EndAlphasSums == SumsInv /\ EndAlphas => SumsInv'
<1> SUFFICES ASSUME SumsInv, EndAlphas PROVE SumsInv'
  OBVIOUS
<1>1. TypeOK /\ Weighted /\ MatrixOnly /\ Vector(distance)
  BY StateTypes DEF SumsInv
<1>2. /\ weight' = weight /\ final' = final /\ matrix' = matrix /\ left' = left /\ betas' = betas
      /\ ~ reverse /\ reverse' = TRUE /\ limited' = TRUE /\ pc' = "start" /\ SumEnded
      /\ alphas' = distance /\ distance' = None /\ rdistance' = None /\ enqueued' = {}
  BY DEF EndAlphas, fst
<1>3. DOMAIN None = {}
  BY DEF None
<1>4. TypeOK'
  <2>1. UpTo(DOMAIN distance)' = {}
    BY <1>2, <1>3 DEF UpTo
  <2> QED BY <1>1, <1>2, <1>3, <2>1 DEF TypeOK, Vector
<1>5. AlphasExact'
  <2>1. ASSUME NEW n \in States PROVE Get(distance, n) = PathSum(0, n) + LeftOver(FALSE, n)
    <3>1. Get(distance, n) = (IF n = 0 THEN 1 ELSE PathSum(0, n)) + LeftOver(reverse, n)
      BY <1>2, SumComplete DEF Source, Onwards
    <3>2. PathSum(0, 0) = 1
      BY <1>1, PathSumSelf, StatesFinite
    <3>3. reverse = FALSE
      BY <1>1, <1>2 DEF TypeOK
    <3> QED BY <3>1, <3>2, <3>3
  <2> QED BY <1>2, <2>1, SumsOf DEF AlphasExact, LeftOver, Get
<1>6. MatrixOnly' /\ BetasExact' /\ NeverEntered'
  BY <1>1, <1>2, <1>3 DEF MatrixOnly, BetasExact, NeverEntered
<1> QED BY <1>2, <1>4, <1>5, <1>6 DEF SumsInv

\* So does the end of the betas.
LEMMA EndBetasSums == SumsInv /\ EndBetas => SumsInv'
<1> SUFFICES ASSUME SumsInv, EndBetas PROVE SumsInv'
  OBVIOUS
<1>1. TypeOK /\ Weighted /\ MatrixOnly /\ Vector(distance)
  BY StateTypes DEF SumsInv
<1>2. /\ weight' = weight /\ final' = final /\ matrix' = matrix /\ reverse' = reverse /\ limited' = limited
      /\ left' = left /\ alphas' = alphas /\ betas' = Betas /\ pc' = "done" /\ reverse /\ SumEnded
      /\ distance' = distance /\ rdistance' = rdistance /\ enqueued' = enqueued
  BY DEF EndBetas, fst, loopVars
<1>3. TypeOK'
  <2>1. \A n \in DOMAIN Betas : Betas[n] \in Nat
    BY <1>1 DEF Betas, Vector
  <2>2. UpTo(DOMAIN distance)' = UpTo(DOMAIN distance)
    BY <1>2 DEF UpTo
  <2> QED BY <1>1, <1>2, <2>1, <2>2 DEF TypeOK
<1>4. BetasExact'
  <2>1. ASSUME NEW n \in States PROVE Get(distance, n) = SumFrom(n) + LeftOver(TRUE, n)
    <3>1. Get(distance, n) = (IF n = Super THEN 1 ELSE SumFrom(n)) + LeftOver(reverse, n)
      BY <1>2, SumComplete DEF Source, Onwards
    <3>2. reverse = TRUE /\ n # Super
      BY <1>1, <1>2, ReachableFinite DEF TypeOK
    <3> QED BY <3>1, <3>2
  <2>2. Betas' = Betas
    BY <1>2 DEF Betas
  <2> QED BY <1>2, <2>1, <2>2, SumsOf DEF BetasExact, LeftOver, Get
<1>5. AlphasExact'
  BY <1>2, AlphasStay DEF SumsInv
<1>6. MatrixOnly' /\ NeverEntered'
  BY <1>1, <1>2 DEF SumsInv, MatrixOnly, NeverEntered
<1> QED BY <1>2, <1>3, <1>4, <1>5, <1>6 DEF SumsInv

\* Every step of the sums keeps the invariant.
THEOREM SumsInvariance == Spec => []SumsInv
<1>1. SumsInv /\ [Next]_vars => SumsInv'
  <2> SUFFICES ASSUME SumsInv, [Next]_vars PROVE SumsInv'
    OBVIOUS
  <2>1. CASE Start
    BY <2>1, StartSums
  <2>2. ASSUME NEW s \in Nodes, Relax(s) PROVE SumsInv'
    BY <2>2, RelaxSums
  <2>3. CASE RunOutOfTime \/ RerunUnlimited
    BY <2>3, InterruptSums
  <2>4. CASE RerunMatrix
    BY <2>4, RerunMatrixSums
  <2>5. CASE MatrixStep
    BY <2>5, MatrixStepSums
  <2>6. CASE EndAlphas
    BY <2>6, EndAlphasSums
  <2>7. CASE EndBetas
    BY <2>7, EndBetasSums
  <2>8. CASE UNCHANGED vars
    <3>1. /\ weight' = weight /\ final' = final /\ matrix' = matrix /\ pc' = pc /\ reverse' = reverse
          /\ limited' = limited /\ distance' = distance /\ rdistance' = rdistance /\ enqueued' = enqueued
          /\ alphas' = alphas /\ betas' = betas /\ left' = left
      BY <2>8 DEF vars, fst, loopVars
    <3>2. TypeOK'
      <4>1. UpTo(DOMAIN distance)' = UpTo(DOMAIN distance)
        BY <3>1 DEF UpTo
      <4> QED BY <3>1, <4>1 DEF SumsInv, TypeOK
    <3>3. pc \in {"loop", "timedOut", "matrix"} => NothingLostButLeft'
      BY <3>1, SameSums DEF SumsInv
    <3>4. PendingIsQueued' <=> PendingIsQueued
      BY <3>1 DEF PendingIsQueued
    <3>5. MatrixOnly' /\ AlphasExact' /\ NeverEntered'
      BY <3>1, AlphasStay DEF SumsInv, MatrixOnly, NeverEntered, Reachable
    <3>6. BetasExact'
      <4>1. Betas' = Betas
        BY <3>1 DEF Betas
      <4> QED BY <3>1, <4>1, SumsOf DEF SumsInv, BetasExact, LeftOver, Get
    <3> QED BY <3>1, <3>2, <3>3, <3>4, <3>5, <3>6 DEF SumsInv
  <2> QED BY <2>1, <2>2, <2>3, <2>4, <2>5, <2>6, <2>7, <2>8 DEF Next
<1> QED BY <1>1, InitSums, PTL DEF Spec

\* The vectors have their types in every state.
THEOREM SumsTypes == Spec => []TypeOK
<1>1. SumsInv => TypeOK
  BY DEF SumsInv
<1> QED BY <1>1, SumsInvariance, PTL

\* The betas when the sums have ended.
LEMMA BetasAre ==
  ASSUME SumsInv, pc = "done", NEW n \in States
  PROVE  Get(betas, n) = SumFrom(n) + LeftOver(TRUE, n)
<1>1. n # Super /\ betas = Betas /\ Get(distance, n) = SumFrom(n) + LeftOver(TRUE, n)
  BY ReachableFinite DEF SumsInv, BetasExact
<1>2. Get(Betas, n) = Get(distance, n)
  BY <1>1 DEF Betas, Get
<1> QED BY <1>1, <1>2

\* Where nothing was left in the vector, nothing is lost.
LEMMA LeftNothing ==
  ASSUME SumsInv, NothingLostButLeft, Untainted(reverse)
  PROVE  NothingLost
<1>1. Weighted /\ reverse \in BOOLEAN
  BY StateTypes DEF SumsInv
<1>2. ASSUME NEW n \in States
      PROVE  (IF n = Source THEN 1 ELSE Onwards(Source, n)) + LeftOver(reverse, n)
               = (IF n = Source THEN 1 ELSE Onwards(Source, n))
  <2>1. Source \in Reachable
    BY <1>1, SourceIn
  <2>2. Onwards(Source, n) \in Nat
    BY <1>1, <2>1, OnwardsType
  <2>3. LeftOver(reverse, n) = 0
    BY DEF Untainted
  <2> QED BY <2>2, <2>3
<1> QED BY <1>2, Zenon DEF NothingLost, NothingLostButLeft

\* The sums lack what waits in the queue at every turn of the loop, and in the end
\* nothing.  ShortestDistanceM is the exception when it finds something in the
\* vector: then it is in the sums too.
THEOREM SumsAreExact == Spec => []SumsExact
<1>1. SumsInv => SumsExact
  <2> SUFFICES ASSUME SumsInv PROVE SumsExact
    OBVIOUS
  <2>1. ASSUME pc \in {"loop", "timedOut"} PROVE NothingLost
    <3>1. left[reverse] = None /\ NothingLostButLeft
      BY <2>1 DEF SumsInv, MatrixOnly
    <3>2. Untainted(reverse)
      BY <3>1 DEF Untainted, LeftOver, Get, None
    <3> QED BY <3>1, <3>2, LeftNothing
  <2>2. ASSUME pc = "matrix", Untainted(reverse) PROVE NothingLost
    BY <2>2, LeftNothing DEF SumsInv
  <2>3. pc = "loop" => PendingIsQueued
    BY DEF SumsInv
  <2>4. ASSUME pc = "done", NEW n \in States
        PROVE  /\ Untainted(FALSE) => Get(alphas, n) = PathSum(0, n)
               /\ Untainted(TRUE) => Get(betas, n) = SumFrom(n)
    <3>1. PathSum(0, n) \in Nat /\ SumFrom(n) \in Nat
      BY StateTypes, StatesFinite, PathSumIs, SumFromIs DEF SumsInv
    <3>2. Get(alphas, n) = PathSum(0, n) + LeftOver(FALSE, n)
      BY <2>4 DEF SumsInv, AlphasExact, BetasExact
    <3>3. Get(betas, n) = SumFrom(n) + LeftOver(TRUE, n)
      BY <2>4, BetasAre
    <3>4. \A q \in Nat : q + 0 = q
      OBVIOUS
    <3>5. (Untainted(FALSE) => LeftOver(FALSE, n) = 0) /\ (Untainted(TRUE) => LeftOver(TRUE, n) = 0)
      BY DEF Untainted
    <3> QED BY <3>1, <3>2, <3>3, <3>4, <3>5
  <2> QED BY <2>1, <2>2, <2>3, <2>4, Zenon DEF SumsExact, AlphasComplete, BetasComplete
<1> QED BY <1>1, SumsInvariance, PTL

\* The total and the count of each arc are the sums over its accepting paths.
THEOREM CountsAreExact == Spec => []CountsExact
<1>1. SumsInv => CountsExact
  <2> SUFFICES ASSUME SumsInv, pc = "done" PROVE CountsExact
    BY DEF CountsExact
  <2>1. /\ TypeOK /\ Weighted /\ reverse /\ reverse \in BOOLEAN /\ betas = Betas
        /\ Vector(distance) /\ 0 \in States /\ IsFiniteSet(States)
    BY StateTypes, StatesFinite DEF SumsInv, BetasExact
  <2>2. ASSUME ~ NoPaths, Untainted(FALSE), Untainted(TRUE)
        PROVE  Total = SumFrom(0) /\ \A a \in Arcs : ArcCount(a) = SumThrough(a)
    <3>1. ASSUME NEW n \in States
          PROVE  /\ Get(alphas, n) = PathSum(0, n) /\ Get(betas, n) = SumFrom(n)
                 /\ PathSum(0, n) \in Nat /\ SumFrom(n) \in Nat
      <4>1. PathSum(0, n) \in Nat /\ SumFrom(n) \in Nat
        BY <2>1, PathSumIs, SumFromIs
      <4>2. LeftOver(FALSE, n) = 0 /\ LeftOver(TRUE, n) = 0
        BY <2>2 DEF Untainted
      <4>3. Get(alphas, n) = PathSum(0, n) + LeftOver(FALSE, n)
        BY <2>1 DEF SumsInv, AlphasExact
      <4>4. Get(betas, n) = SumFrom(n) + LeftOver(TRUE, n)
        BY BetasAre
      <4>5. Get(alphas, n) = PathSum(0, n) + 0 /\ Get(betas, n) = SumFrom(n) + 0
        BY <4>2, <4>3, <4>4, Zenon
      <4> QED BY <4>1, <4>5
    <3>2. 0 \in DOMAIN betas
      <4>1. DOMAIN distance \ {Super} # {}
        BY <2>1, <2>2 DEF NoPaths, Betas, None
      <4>2. DOMAIN distance \cap States # {} /\ DOMAIN distance \in SUBSET Reachable
        BY <2>1, <4>1, ReachableFinite DEF Vector
      <4>3. 0 \in UpTo(DOMAIN distance)
        BY <2>1, <4>2, UpToIs
      <4>4. 0 \in DOMAIN distance
        BY <2>1, <4>3 DEF TypeOK
      <4> QED BY <2>1, <4>4, ReachableFinite DEF Betas
    <3>3. Total = SumFrom(0)
      BY <2>1, <3>1, <3>2 DEF Total, Get
    <3>4. ASSUME NEW a \in Arcs PROVE ArcCount(a) = SumThrough(a)
      <4>1. a[1] \in States /\ a[2] \in States /\ weight[a] \in Nat
        BY <2>1 DEF Arcs, Weighted
      <4>2. SumThrough(a) = PathSum(0, a[1]) * (weight[a] * SumFrom(a[2]))
        BY <2>1, SumThroughArc
      <4>3. ArcCount(a) = PathSum(0, a[1]) * weight[a] * SumFrom(a[2])
        BY <3>1, <4>1 DEF ArcCount
      <4> QED BY <3>1, <4>1, <4>2, <4>3, NatTimes
    <3> QED BY <3>3, <3>4
  <2>3. ASSUME ~ matrix, SumFrom(0) = 0, \A n \in States : PathSum(0, n) # 0 PROVE NoPaths
    <3> DEFINE s == [m \in States |-> final[m] * PathSum(0, m)]
    <3>1. SumFrom(0) = Sum(s, States)
      <4>1. \A m \in States : s[m] = final[m] * PathSum(0, m)
        OBVIOUS
      <4> HIDE DEF s
      <4> QED BY <2>1, <4>1, SumFromEnds
    <3>2. ASSUME NEW m \in States
          PROVE  s[m] = final[m] * PathSum(0, m) /\ s[m] \in Nat /\ final[m] \in Nat /\ PathSum(0, m) \in Nat
      <4>1. final[m] \in Nat /\ PathSum(0, m) \in Nat
        BY <2>1, PathSumIs DEF Weighted
      <4> QED BY <4>1, NatTimes
    <3>3. \A m \in States : s[m] = 0
      <4>1. AllNat(s, States)
        BY <3>2 DEF AllNat
      <4> HIDE DEF s
      <4> QED BY <2>1, <2>3, <3>1, <4>1, SumIsZero
    <3>4. ASSUME NEW m \in States PROVE final[m] = 0
      <4>1. final[m] * PathSum(0, m) = 0 /\ PathSum(0, m) # 0
        BY <2>3, <3>2, <3>3
      <4>2. \A a, b \in Nat : a * b = 0 => a = 0 \/ b = 0
        OBVIOUS
      <4> HIDE DEF s
      <4> QED BY <3>2, <4>1, <4>2
    <3>5. DOMAIN distance \ {Super} = {}
      BY <2>1, <2>3, <3>4 DEF SumsInv, NeverEntered
    <3> QED BY <2>1, <3>5 DEF NoPaths, Betas, None
  <2> QED BY <2>2, <2>3 DEF CountsExact
<1> QED BY <1>1, SumsInvariance, PTL

-----------------------------------------------------------------------------
(* Sums of signed numbers and of weights, and what they stand for.          *)

\* Folds of signed numbers and of weights.
Added(kind, a, b) == IF kind = "signed" THEN NeglogPlus(b, a) ELSE Plus(b, a)
Adding(kind, base, v, S, g) ==
  g = [s \in SUBSET S |-> IF s = {} THEN base ELSE Added(kind, v[Pick(s)], g[s \ {Pick(s)}])]
AddedUp(kind, base, v, S) == (CHOOSE g : Adding(kind, base, v, S, g))[S]

LEMMA AddingStep ==
  ASSUME NEW kind, NEW base, NEW v, NEW S, NEW g, Adding(kind, base, v, S, g), NEW t \in SUBSET S
  PROVE  g[t] = IF t = {} THEN base ELSE Added(kind, v[Pick(t)], g[t \ {Pick(t)}])
  BY DEF Adding

LEMMA AddingUnique ==
  ASSUME NEW kind, NEW base, NEW v, NEW S, NEW U, NEW g, NEW h, NEW w,
         Adding(kind, base, v, S, g), Adding(kind, base, w, U, h),
         NEW T \in SUBSET (S \cap U), IsFiniteSet(T), \A x \in T : v[x] = w[x]
  PROVE  g[T] = h[T]
<1> DEFINE Bad == {t \in SUBSET T : g[t] # h[t]}
<1> SUFFICES ASSUME Bad # {} PROVE FALSE
  OBVIOUS
<1>0. Bad \in SUBSET SUBSET T
  OBVIOUS
<1>a. \E t \in Bad : \A u \in Bad : u \subseteq t => u = t
  <2> HIDE DEF Bad
  <2> QED BY <1>0, Smallest
<1>1. PICK t \in Bad : \A u \in Bad : u \subseteq t => u = t
  BY <1>a
<1> DEFINE u == t \ {Pick(t)}
<1>2. t # {} => u \in SUBSET T /\ u # t /\ u \subseteq t /\ Pick(t) \in T
  BY PickIn
<1>3. t # {} => g[u] = h[u] /\ v[Pick(t)] = w[Pick(t)]
  BY <1>1, <1>2
<1>4. t \in SUBSET S /\ t \in SUBSET U
  OBVIOUS
<1>5. /\ g[t] = IF t = {} THEN base ELSE Added(kind, v[Pick(t)], g[u])
      /\ h[t] = IF t = {} THEN base ELSE Added(kind, w[Pick(t)], h[u])
  BY <1>4 DEF Adding
<1> QED BY <1>1, <1>3, <1>5

LEMMA AddingExists ==
  ASSUME NEW kind, NEW base, NEW v, NEW S, IsFiniteSet(S)
  PROVE  \E g : Adding(kind, base, v, S, g)
<1> DEFINE Bad == {t \in SUBSET S : ~ \E g : Adding(kind, base, v, t, g)}
<1> SUFFICES ASSUME Bad # {} PROVE FALSE
  OBVIOUS
<1>0. Bad \in SUBSET SUBSET S
  OBVIOUS
<1>a. \E t \in Bad : \A u \in Bad : u \subseteq t => u = t
  <2> HIDE DEF Bad
  <2> QED BY <1>0, Smallest
<1>1. PICK t \in Bad : \A u \in Bad : u \subseteq t => u = t
  BY <1>a
<1>2. \A u \in SUBSET t : u # t => \E g : Adding(kind, base, v, u, g)
  BY <1>1
<1> DEFINE h(u) == CHOOSE g : Adding(kind, base, v, u, g)
           rest(u) == u \ {Pick(u)}
           value(u) == IF u = {} THEN base ELSE Added(kind, v[Pick(u)], h(rest(u))[rest(u)])
           G == [u \in SUBSET t |-> IF u # t THEN h(u)[u] ELSE value(u)]
<1>3. \A u \in SUBSET t : u # t => Adding(kind, base, v, u, h(u))
  BY <1>2
<1>4. \A u \in SUBSET t : u # {} => rest(u) \in SUBSET t /\ rest(u) # t /\ rest(u) \in SUBSET u /\ rest(u) # u
  BY PickIn
<1>5. \A u \in SUBSET t : u # {} => G[rest(u)] = h(rest(u))[rest(u)]
  BY <1>4
<1>6. \A u \in SUBSET t : G[u] = value(u)
  <2> SUFFICES ASSUME NEW u \in SUBSET t, u # t PROVE h(u)[u] = value(u)
    OBVIOUS
  <2>1. h(u)[u] = IF u = {} THEN base ELSE Added(kind, v[Pick(u)], h(u)[rest(u)])
    <3>1. Adding(kind, base, v, u, h(u)) /\ u \in SUBSET u
      BY <1>3
    <3> HIDE DEF h
    <3> QED BY <3>1, AddingStep
  <2>2. u # {} => h(u)[rest(u)] = h(rest(u))[rest(u)]
    <3> SUFFICES ASSUME u # {} PROVE h(u)[rest(u)] = h(rest(u))[rest(u)]
      OBVIOUS
    <3>1. IsFiniteSet(rest(u)) /\ rest(u) \in SUBSET (u \cap rest(u))
      BY <1>4, FS_Subset
    <3>2. Adding(kind, base, v, u, h(u)) /\ Adding(kind, base, v, rest(u), h(rest(u)))
      BY <1>3, <1>4
    <3> HIDE DEF h, rest
    <3> QED BY <3>1, <3>2, AddingUnique
  <2> QED BY <2>1, <2>2
<1>7. Adding(kind, base, v, t, G)
  <2>1. \A u \in SUBSET t : G[u] = IF u = {} THEN base ELSE Added(kind, v[Pick(u)], G[rest(u)])
    <3>1. \A u \in SUBSET t : u # {} => value(u) = Added(kind, v[Pick(u)], G[rest(u)])
      <4> SUFFICES ASSUME NEW u \in SUBSET t, u # {} PROVE value(u) = Added(kind, v[Pick(u)], G[rest(u)])
        OBVIOUS
      <4>1. G[rest(u)] = h(rest(u))[rest(u)]
        BY <1>5
      <4> HIDE DEF h, rest, G
      <4> QED BY <4>1
    <3>2. value({}) = base
      OBVIOUS
    <3> HIDE DEF value, G, rest
    <3> QED BY <3>1, <3>2, <1>6
  <2>2. G = [u \in SUBSET t |-> G[u]]
    OBVIOUS
  <2> HIDE DEF G
  <2> QED BY <2>1, <2>2 DEF Adding
<1> QED BY <1>7

LEMMA AddedUpIs ==
  ASSUME NEW kind, NEW base, NEW v, NEW S, IsFiniteSet(S)
  PROVE  \E g : Adding(kind, base, v, S, g) /\ AddedUp(kind, base, v, S) = g[S]
<1>1. Adding(kind, base, v, S, CHOOSE g : Adding(kind, base, v, S, g))
  BY AddingExists
<1> QED BY <1>1 DEF AddedUp

\* What is added does not depend on the function that gives it.
LEMMA AddedUpSame ==
  ASSUME NEW kind, NEW base, NEW v, NEW w, NEW S, IsFiniteSet(S), \A x \in S : v[x] = w[x]
  PROVE  AddedUp(kind, base, v, S) = AddedUp(kind, base, w, S)
<1>1. PICK g : Adding(kind, base, v, S, g) /\ AddedUp(kind, base, v, S) = g[S]
  BY AddedUpIs
<1>2. PICK h : Adding(kind, base, w, S, h) /\ AddedUp(kind, base, w, S) = h[S]
  BY AddedUpIs
<1>3. S \in SUBSET (S \cap S)
  OBVIOUS
<1>4. g[S] = h[S]
  BY ONLY <1>1, <1>2, <1>3, IsFiniteSet(S), \A x \in S : v[x] = w[x], AddingUnique
<1> QED BY <1>1, <1>2, <1>4

\* A sum of signed numbers stands for the sum of what they stand for.
LEMMA SignedSum ==
  ASSUME NEW S, IsFiniteSet(S), NEW v, NEW n, AllNat(n, S),
         \A x \in S : v[x] \in NeglogNums /\ GetOrigNum(v[x]) = n[x]
  PROVE  GetOrigNum(AddedUp("signed", PlusZero, v, S)) = Sum(n, S)
<1>1. PICK g : Adding("signed", PlusZero, v, S, g) /\ AddedUp("signed", PlusZero, v, S) = g[S]
  BY AddedUpIs
<1> DEFINE Bad == {t \in SUBSET S : ~ (g[t] \in NeglogNums /\ GetOrigNum(g[t]) = Sum(n, t))}
<1>2. Bad \in SUBSET SUBSET S
  OBVIOUS
<1>3. SUFFICES ASSUME Bad # {} PROVE FALSE
  BY <1>1, S \in SUBSET S
<1>4. \E t \in Bad : \A u \in Bad : u \subseteq t => u = t
  <2> HIDE DEF Bad
  <2> QED BY <1>2, <1>3, Smallest
<1>5. PICK t \in Bad : \A u \in Bad : u \subseteq t => u = t
  BY <1>4
<1>6. t # {}
  <2> SUFFICES ASSUME t = {} PROVE g[t] \in NeglogNums /\ GetOrigNum(g[t]) = Sum(n, t)
    OBVIOUS
  <2>1. g[t] = PlusZero
    BY <1>1 DEF Adding
  <2> QED BY <2>1, SumEmpty DEF PlusZero, NeglogNum, NeglogNums, GetOrigNum
<1> DEFINE p == Pick(t)
           r == t \ {Pick(t)}
<1>7. /\ n[p] \in Nat /\ Sum(n, r) \in Nat /\ Sum(n, t) = n[p] + Sum(n, r)
      /\ p \in S /\ r \in SUBSET S /\ r \subseteq t /\ r # t
  BY <1>6, Peel
<1>8. g[r] \in NeglogNums /\ GetOrigNum(g[r]) = Sum(n, r)
  BY <1>5, <1>7
<1>9. g[t] = NeglogPlus(g[r], v[p])
  <2>1. g[t] = Added("signed", v[Pick(t)], g[t \ {Pick(t)}])
    BY <1>1, <1>6 DEF Adding
  <2> QED BY <2>1 DEF Added
<1>10. v[p] \in NeglogNums /\ GetOrigNum(v[p]) = n[p]
  BY <1>7
<1>11. ~ (g[t] \in NeglogNums /\ GetOrigNum(g[t]) = Sum(n, t))
  OBVIOUS
<1> HIDE DEF p, r, Bad
<1>12. g[t] \in NeglogNums /\ GetOrigNum(g[t]) = GetOrigNum(g[r]) + GetOrigNum(v[p])
  BY <1>8, <1>9, <1>10, PlusCorrect
<1> QED BY <1>7, <1>8, <1>10, <1>11, <1>12

\* A sum of weights has the sum of their values and of their expectations.
LEMMA WeightSum ==
  ASSUME NEW S, IsFiniteSet(S), NEW v, NEW base, IsWeight(base), \A x \in S : IsWeight(v[x]),
         NEW l, NEW n, NEW e, AllNat(n, S), AllNat(e, S), Expected(base, l) \in Nat,
         \A x \in S : v[x].value = n[x] /\ Expected(v[x], l) = e[x],
         NEW w, w = AddedUp("weights", base, v, S)
  PROVE  /\ IsWeight(w) /\ w.value = base.value + Sum(n, S)
         /\ Expected(w, l) = Expected(base, l) + Sum(e, S)
<1>1. PICK g : Adding("weights", base, v, S, g) /\ AddedUp("weights", base, v, S) = g[S]
  BY AddedUpIs
<1> DEFINE Good(t) == /\ IsWeight(g[t]) /\ g[t].value = base.value + Sum(n, t)
                      /\ Expected(g[t], l) = Expected(base, l) + Sum(e, t)
           Bad == {t \in SUBSET S : ~ Good(t)}
<1>2. Bad \in SUBSET SUBSET S
  OBVIOUS
<1>3. SUFFICES ASSUME Bad # {} PROVE FALSE
  BY <1>1, S \in SUBSET S
<1>4. \E t \in Bad : \A u \in Bad : u \subseteq t => u = t
  <2> HIDE DEF Bad
  <2> QED BY <1>2, <1>3, Smallest
<1>5. PICK t \in Bad : \A u \in Bad : u \subseteq t => u = t
  BY <1>4
<1>b. base.value \in Nat
  BY DEF IsWeight
<1>6. t # {}
  <2> SUFFICES ASSUME t = {} PROVE Good(t)
    OBVIOUS
  <2>1. g[t] = base
    BY <1>1 DEF Adding
  <2>2. Sum(n, t) = 0 /\ Sum(e, t) = 0
    BY SumEmpty
  <2>3. Expected(base, l) \in Nat /\ IsWeight(base)
    OBVIOUS
  <2>4. IsWeight(g[t]) /\ g[t].value = base.value + Sum(n, t)
    BY ONLY <2>1, <2>2, <2>3, <1>b
  <2>5. Expected(g[t], l) = Expected(base, l) + Sum(e, t)
    BY ONLY <2>1, <2>2, <2>3
  <2> QED BY <2>4, <2>5
<1> DEFINE p == Pick(t)
           r == t \ {Pick(t)}
<1>7. /\ n[p] \in Nat /\ Sum(n, r) \in Nat /\ Sum(n, t) = n[p] + Sum(n, r)
      /\ e[p] \in Nat /\ Sum(e, r) \in Nat /\ Sum(e, t) = e[p] + Sum(e, r)
      /\ p \in S /\ r \in SUBSET S /\ r \subseteq t /\ r # t
  <2>1. t \in SUBSET S
    OBVIOUS
  <2> HIDE DEF Good, Bad
  <2> QED BY <1>6, <2>1, Peel
<1>8. Good(r)
  <2> HIDE DEF Good
  <2> QED BY <1>5, <1>7
<1>9. g[t] = Plus(g[r], v[p])
  <2>1. g[t] = Added("weights", v[Pick(t)], g[t \ {Pick(t)}])
    BY <1>1, <1>6 DEF Adding
  <2>2. "weights" # "signed"
    OBVIOUS
  <2> QED BY <2>1, <2>2 DEF Added
<1>10. IsWeight(v[p]) /\ v[p].value = n[p] /\ Expected(v[p], l) = e[p]
  BY <1>7
<1>11. ~ Good(t)
  OBVIOUS
<1> HIDE DEF p, r, Bad
<1>12. /\ IsWeight(g[t]) /\ g[t].value = g[r].value + v[p].value
       /\ Expected(g[t], l) = Expected(g[r], l) + Expected(v[p], l)
  BY <1>8, <1>9, <1>10, WeightPlus
<1> QED BY <1>b, <1>7, <1>8, <1>10, <1>11, <1>12

-----------------------------------------------------------------------------
(* The feature weights of an arc, and the number of times a feature fires,  *)
(* which is read back from them.                                            *)

LEMMA FiringsIsFold ==
  ASSUME NEW factor, NEW n
  PROVE  Firings(factor, n) = Fold("times", [i \in 1 .. n |-> factor], 1 .. n)
<1> DEFINE S == 1 .. n
           v == [i \in S |-> factor]
           R(g) == g = [s \in SUBSET S |-> IF s = {} THEN 1 ELSE factor * g[s \ {Pick(s)}]]
<1>1. ASSUME NEW g PROVE Rec("times", v, S, g) <=> R(g)
  <2>1. \A s \in SUBSET S :
          (IF s = {} THEN Base("times") ELSE Op("times", v[Pick(s)], g[s \ {Pick(s)}]))
            = (IF s = {} THEN 1 ELSE factor * g[s \ {Pick(s)}])
    BY PickIn DEF Base, Op
  <2> QED BY <2>1 DEF Rec
<1>2. (CHOOSE g : Rec("times", v, S, g)) = (CHOOSE g : R(g))
  <2> HIDE DEF R, v
  <2> QED BY <1>1
<1>3. Firings(factor, n) = (CHOOSE g : R(g))[S]
  BY Zenon DEF Firings, FoldSet, MapThenFoldSet, Pick
<1> HIDE DEF R, v
<1>4. Firings(factor, n) = Fold("times", v, S)
  BY <1>2, <1>3 DEF Fold
<1> QED BY <1>4 DEF v

\* A fold of ones is one, and of ones and another number that number.
LEMMA FoldOnes ==
  ASSUME NEW S, IsFiniteSet(S), NEW v, \A x \in S : v[x] = 1
  PROVE  Fold("times", v, S) = 1
<1> DEFINE Bad == {t \in SUBSET S : Fold("times", v, t) # 1}
<1>1. Bad \in SUBSET SUBSET S
  OBVIOUS
<1>2. SUFFICES ASSUME Bad # {} PROVE FALSE
  BY S \in SUBSET S
<1>3. \E t \in Bad : \A u \in Bad : u \subseteq t => u = t
  <2> HIDE DEF Bad
  <2> QED BY <1>1, <1>2, Smallest
<1>4. PICK t \in Bad : \A u \in Bad : u \subseteq t => u = t
  BY <1>3
<1>5. t # {}
  BY FoldEmpty DEF Base
<1>6. Pick(t) \in S /\ t \ {Pick(t)} \subseteq t /\ t \ {Pick(t)} # t /\ t \ {Pick(t)} \in SUBSET S /\ IsFiniteSet(t)
  BY <1>5, PickIn, FS_Subset
<1>7. Fold("times", v, t \ {Pick(t)}) = 1
  BY <1>4, <1>6
<1>8. Fold("times", v, t) = v[Pick(t)] * Fold("times", v, t \ {Pick(t)})
  BY <1>5, <1>6, FoldRec DEF Op
<1>9. v[Pick(t)] = 1
  BY <1>6
<1> QED BY <1>7, <1>8, <1>9

LEMMA FiringsAre ==
  ASSUME NEW factor \in Nat, NEW n \in Nat
  PROVE  (factor = 1 => Firings(factor, n) = 1) /\ (n = 1 => Firings(factor, n) = factor)
<1> DEFINE v == [i \in 1 .. n |-> factor]
<1>1. IsFiniteSet(1 .. n)
  BY FS_Interval
<1>2. Firings(factor, n) = Fold("times", v, 1 .. n)
  BY FiringsIsFold
<1>3. \A i \in 1 .. n : v[i] = factor
  OBVIOUS
<1>4. ASSUME factor = 1 PROVE Fold("times", v, 1 .. n) = 1
  <2> HIDE DEF v
  <2> QED BY <1>1, <1>3, <1>4, FoldOnes
<1>5. ASSUME n = 1 PROVE Fold("times", v, 1 .. n) = factor
  <2>1. 1 .. n = {1} /\ AllNat(v, 1 .. n) /\ v[1] = factor
    BY <1>5 DEF AllNat
  <2>2. {1} \ {1} = {}
    OBVIOUS
  <2> HIDE DEF v
  <2>3. Fold("times", v, 1 .. n) = Op("times", v[1], Fold("times", v, {1} \ {1}))
    BY <1>1, <2>1, FoldAny
  <2>4. Fold("times", v, {1} \ {1}) = 1
    BY <2>2, FoldEmpty DEF Base
  <2> QED BY <2>1, <2>3, <2>4 DEF Op
<1> QED BY <1>2, <1>4, <1>5

\* The weight that the features of an arc give it.
Fired(a) == {f \in Features : Fires(a, f) # 0}
Featured(a, x) == Weight(x, [f \in Fired(a) |-> NeglogNum(x * Fires(a, f), TRUE)])
Thetas(a, x) == [f \in Features |-> IF f = Own(a) THEN x ELSE 1]

LEMMA FiredFacts ==
  ASSUME NEW a \in Arcs
  PROVE  /\ Own(a) \in Fired(a) /\ Fires(a, Own(a)) = 1 /\ IsFiniteSet(Fired(a))
         /\ \A f : Fires(a, f) \in Nat
<1>1. a \in States \X States /\ a[1] < a[2]
  BY DEF Arcs
<1>2. a[1] \in Nat /\ a[2] \in Nat
  BY <1>1, StatesFinite
<1>3. \A f : Fires(a, f) \in Nat
  BY <1>1, <1>2 DEF Fires
<1>4. Own(a) \in Fired(a) /\ Fires(a, Own(a)) = 1
  BY DEF Fired, Fires, Features
<1>5. Fired(a) \subseteq {Shared, Own(a)}
  BY DEF Fired, Fires
<1>6. IsFiniteSet({Shared, Own(a)})
  <2>1. {Shared, Own(a)} = {Shared} \cup {Own(a)}
    OBVIOUS
  <2>2. IsFiniteSet({Shared}) /\ IsFiniteSet({Own(a)})
    BY FS_Singleton
  <2>3. IsFiniteSet({Shared} \cup {Own(a)})
    BY <2>2, FS_Union
  <2> QED BY <2>1, <2>3
<1>7. IsFiniteSet(Fired(a))
  BY <1>5, <1>6, FS_Subset
<1> QED BY <1>3, <1>4, <1>7

\* How often a feature fires is found again.
LEMMA FoundAgain ==
  ASSUME NEW x \in Nat \ {0}, NEW n \in Nat \ {0}
  PROVE  NeglogDivide(NeglogNum(x * n, TRUE), NeglogNum(x, TRUE)) = NeglogNum(n, TRUE)
<1>1. x * n \in Nat \ {0} /\ n \in 0 .. x * n /\ n * x = x * n
  <2>1. x * n \in Nat /\ n * x = x * n
    OBVIOUS
  <2>2. x * n = n + (x - 1) * n /\ (x - 1) * n \in Nat
    OBVIOUS
  <2> QED BY <2>1, <2>2
<1>2. \A y \in Nat : y * x = x * n => y = n
  <2> TAKE y \in Nat
  <2>1. CASE y < n
    <3>1. n = y + (n - y) /\ n - y \in Nat \ {0}
      BY <2>1
    <3>2. \A d \in Nat \ {0} : x * (y + d) = y * x + x * d /\ x * d > 0
      <4>1. \A d \in Nat \ {0} : x * (y + d) = y * x + x * d
        OBVIOUS
      <4>2. \A d \in Nat \ {0} : x * d > 0
        OBVIOUS
      <4> QED BY <4>1, <4>2
    <3>3. x * n = y * x + x * (n - y) /\ x * (n - y) > 0
      BY <3>1, <3>2
    <3>4. y * x \in Nat /\ x * (n - y) \in Int
      BY <3>1
    <3> QED BY ONLY <3>3, <3>4, <1>1
  <2>2. CASE y > n
    <3>1. y = n + (y - n) /\ y - n \in Nat \ {0}
      BY <2>2
    <3>2. \A d \in Nat \ {0} : (n + d) * x = x * n + x * d /\ x * d > 0
      <4>1. \A d \in Nat \ {0} : (n + d) * x = x * n + x * d
        OBVIOUS
      <4>2. \A d \in Nat \ {0} : x * d > 0
        OBVIOUS
      <4> QED BY <4>1, <4>2
    <3>3. y * x = x * n + x * (y - n) /\ x * (y - n) > 0
      BY <3>1, <3>2
    <3>4. y * x \in Nat /\ x * (y - n) \in Int
      BY <3>1
    <3> QED BY ONLY <3>3, <3>4, <1>1
  <2> QED BY <2>1, <2>2
<1> DEFINE m == x * n
<1>3. m \in Nat \ {0} /\ n \in 0 .. m /\ n * x = m /\ \A y \in Nat : y * x = m => y = n
  BY <1>1, <1>2
<1>4. NeglogDivide(NeglogNum(m, TRUE), NeglogNum(x, TRUE)) = NeglogNum(CHOOSE y \in 0 .. m : y * x = m, TRUE)
  <2> HIDE DEF m
  <2> QED BY <1>3 DEF NeglogDivide, NeglogNum
<1>5. (CHOOSE y \in 0 .. m : y * x = m) = n
  <2> HIDE DEF m
  <2> QED BY <1>3
<1> QED BY <1>4, <1>5

LEMMA ValueIsFold ==
  ASSUME NEW w, NEW theta, DOMAIN w.e # {}
  PROVE  SetFeatures(w, theta)
           = LET value == Fold("times", [f \in DOMAIN w.e |-> Firings(theta[f], FireCount(w, f))], DOMAIN w.e)
             IN Weight(value, [f \in DOMAIN w.e |->
                                 NeglogTimes(NeglogNum(value, TRUE),
                                             NeglogDivide(w.e[f], NeglogNum(w.value, TRUE)))])
<1> DEFINE S == DOMAIN w.e
           v == [f \in S |-> Firings(theta[f], FireCount(w, f))]
           R(g) == g = [s \in SUBSET S |-> IF s = {} THEN 1
                          ELSE Firings(theta[Pick(s)], FireCount(w, Pick(s))) * g[s \ {Pick(s)}]]
           X == FoldSet(LAMBDA f, u : Firings(theta[f], FireCount(w, f)) * u, 1, DOMAIN w.e)
<1>1. ASSUME NEW g PROVE Rec("times", v, S, g) <=> R(g)
  <2>1. \A s \in SUBSET S :
          (IF s = {} THEN Base("times") ELSE Op("times", v[Pick(s)], g[s \ {Pick(s)}]))
            = (IF s = {} THEN 1 ELSE Firings(theta[Pick(s)], FireCount(w, Pick(s))) * g[s \ {Pick(s)}])
    BY PickIn DEF Base, Op
  <2> QED BY <2>1 DEF Rec
<1>2. (CHOOSE g : Rec("times", v, S, g)) = (CHOOSE g : R(g))
  <2> HIDE DEF R, v
  <2> QED BY <1>1
<1>3. X = (CHOOSE g : R(g))[S]
  BY Zenon DEF FoldSet, MapThenFoldSet, Pick
<1>a. SetFeatures(w, theta) =
        Weight(X, [f \in DOMAIN w.e |->
                     NeglogTimes(NeglogNum(X, TRUE), NeglogDivide(w.e[f], NeglogNum(w.value, TRUE)))])
  BY Zenon DEF SetFeatures
<1> HIDE DEF R, v, X
<1>4. X = Fold("times", v, S)
  BY <1>2, <1>3 DEF Fold
<1> QED BY <1>4, <1>a DEF v

LEMMA SetFeaturesIs ==
  ASSUME NEW a \in Arcs, NEW x \in Nat \ {0}, NEW y \in Nat \ {0}
  PROVE  SetFeatures(Featured(a, x), Thetas(a, y)) = Featured(a, y)
<1> DEFINE w == Featured(a, x)
           theta == Thetas(a, y)
           D == Fired(a)
           v == [f \in D |-> Firings(theta[f], FireCount(w, f))]
           value == Fold("times", v, D)
<1>1. /\ Own(a) \in D /\ Fires(a, Own(a)) = 1 /\ IsFiniteSet(D)
      /\ \A f \in D : Fires(a, f) \in Nat \ {0} /\ f \in Features
  BY FiredFacts DEF Fired
<1>2. DOMAIN w.e = D /\ w.value = x /\ \A f \in D : w.e[f] = NeglogNum(x * Fires(a, f), TRUE)
  BY DEF Featured, Weight
<1>3. \A f \in D : NeglogDivide(w.e[f], NeglogNum(w.value, TRUE)) = NeglogNum(Fires(a, f), TRUE)
  <2> TAKE f \in D
  <2> DEFINE n == Fires(a, f)
  <2>1. n \in Nat \ {0} /\ w.e[f] = NeglogNum(x * n, TRUE) /\ w.value = x
    BY <1>1, <1>2
  <2> HIDE DEF w, D, n
  <2>2. NeglogDivide(NeglogNum(x * n, TRUE), NeglogNum(x, TRUE)) = NeglogNum(n, TRUE)
    BY <2>1, FoundAgain
  <2>3. NeglogDivide(w.e[f], NeglogNum(w.value, TRUE)) = NeglogNum(n, TRUE)
    BY <2>1, <2>2
  <2> QED BY <2>3 DEF n
<1>4. \A f \in D : FireCount(w, f) = Fires(a, f)
  <2>1. \A n : GetOrigNum(NeglogNum(n, TRUE)) = n
    BY DEF GetOrigNum, NeglogNum
  <2> HIDE DEF w, D
  <2> QED BY <1>3, <2>1 DEF FireCount
<1>5. \A f \in D : theta[f] = IF f = Own(a) THEN y ELSE 1
  BY <1>1 DEF Thetas
<1>6. \A f \in D : v[f] = IF f = Own(a) THEN y ELSE 1
  <2> TAKE f \in D
  <2>1. v[f] = Firings(theta[f], Fires(a, f)) /\ Fires(a, f) \in Nat
    BY <1>1, <1>4
  <2> HIDE DEF v, theta, D
  <2>2. CASE f = Own(a)
    BY <1>1, <1>5, <2>1, <2>2, FiringsAre
  <2>3. CASE f # Own(a)
    BY <1>1, <1>5, <2>1, <2>3, FiringsAre
  <2> QED BY <2>2, <2>3
<1>7. value = y
  <2> HIDE DEF v, D
  <2>1. AllNat(v, D)
    BY <1>6 DEF AllNat
  <2>2. value = Op("times", v[Own(a)], Fold("times", v, D \ {Own(a)}))
    BY <1>1, <2>1, FoldAny
  <2>3. Fold("times", v, D \ {Own(a)}) = 1
    <3>1. IsFiniteSet(D \ {Own(a)})
      BY <1>1, FS_Subset
    <3> QED BY <1>6, <3>1, FoldOnes
  <2>4. v[Own(a)] = y
    BY <1>1, <1>6
  <2> HIDE DEF value
  <2> QED BY <2>2, <2>3, <2>4 DEF Op
<1>8. SetFeatures(w, theta) = Weight(value, [f \in D |->
                                NeglogTimes(NeglogNum(value, TRUE),
                                            NeglogDivide(w.e[f], NeglogNum(w.value, TRUE)))])
  <2>1. DOMAIN w.e # {}
    BY <1>1, <1>2
  <2> HIDE DEF w, theta, D
  <2> QED BY <1>2, <2>1, ValueIsFold
<1>9. \A f \in D : NeglogTimes(NeglogNum(y, TRUE), NeglogNum(Fires(a, f), TRUE))
                     = NeglogNum(y * Fires(a, f), TRUE)
  BY <1>1 DEF NeglogTimes, NeglogNum
<1>10. [f \in D |-> NeglogTimes(NeglogNum(value, TRUE), NeglogDivide(w.e[f], NeglogNum(w.value, TRUE)))]
         = [f \in D |-> NeglogNum(y * Fires(a, f), TRUE)]
  <2> HIDE DEF w, D, value
  <2> QED BY <1>3, <1>7, <1>9
<1>11. Featured(a, y) = Weight(y, [f \in D |-> NeglogNum(y * Fires(a, f), TRUE)])
  BY DEF Featured
<1> HIDE DEF w, D, value, theta
<1>12. SetFeatures(w, theta) = Featured(a, y)
  BY ONLY <1>7, <1>8, <1>10, <1>11
<1> QED BY <1>12 DEF w, theta

\* Setting, saving, reading and setting again leaves what was set last.
LEMMA FeatureArcIs ==
  ASSUME NEW a \in Arcs, weight[a] \in Nat \ {0}
  PROVE  FeatureArc(a) = Featured(a, weight[a])
<1>1. NewArc(a) = Featured(a, 1)
  <2>1. \A f : 1 * Fires(a, f) = Fires(a, f)
    BY FiredFacts
  <2> QED BY <2>1 DEF NewArc, Featured, Fired
<1>2. Read(Written(Featured(a, 3))) = Featured(a, 3)
  <2> DEFINE w == Featured(a, 3)
             D == Fired(a)
             r == Written(w)
  <2>1. DOMAIN w.e = D /\ w.value = 3 /\ \A f \in D : w.e[f] = NeglogNum(3 * Fires(a, f), TRUE)
    BY DEF Featured, Weight
  <2>2. \A f \in D : Fires(a, f) \in Nat \ {0} /\ 3 * Fires(a, f) # 0
    <3> TAKE f \in D
    <3> DEFINE n == Fires(a, f)
    <3>1. n \in Nat \ {0}
      BY FiredFacts DEF Fired
    <3> HIDE DEF n
    <3>2. 3 * n # 0
      BY <3>1
    <3> QED BY <3>1, <3>2 DEF n
  <2>3. r.value = 3 /\ DOMAIN r.mags = D /\ \A f \in D : r.mags[f] = 3 * Fires(a, f)
    <3>1. r.value = w.value /\ r.mags = [f \in DOMAIN w.e |-> w.e[f].mag]
      BY DEF Written
    <3>2. \A n : NeglogNum(n, TRUE).mag = n
      BY DEF NeglogNum
    <3>3. \A f \in D : w.e[f].mag = 3 * Fires(a, f)
      <4> HIDE DEF w, D
      <4> QED BY <2>1, <3>2
    <3> HIDE DEF w, D, r
    <3> QED BY <2>1, <3>1, <3>3
  <2>4. {f \in DOMAIN r.mags : r.mags[f] # 0} = D
    <3> HIDE DEF r, D
    <3> QED BY <2>2, <2>3
  <2>5. Read(r) = Weight(3, [f \in D |-> NeglogNum(r.mags[f], TRUE)])
    <3>1. Read(r) = Weight(r.value, [f \in {f \in DOMAIN r.mags : r.mags[f] # 0} |-> NeglogNum(r.mags[f], TRUE)])
      <4> HIDE DEF r
      <4> QED BY Zenon DEF Read
    <3> HIDE DEF r, D
    <3> QED BY <2>3, <2>4, <3>1, Zenon
  <2>6. [f \in D |-> NeglogNum(r.mags[f], TRUE)] = [f \in D |-> NeglogNum(3 * Fires(a, f), TRUE)]
    <3>1. \A f \in D : NeglogNum(r.mags[f], TRUE) = NeglogNum(3 * Fires(a, f), TRUE)
      BY <2>3
    <3> HIDE DEF r, D
    <3> QED BY <3>1, Zenon
  <2>7. Featured(a, 3) = Weight(3, [f \in D |-> NeglogNum(3 * Fires(a, f), TRUE)])
    BY DEF Featured
  <2> HIDE DEF r, D
  <2>8. Read(r) = Featured(a, 3)
    BY <2>5, <2>6, <2>7
  <2> QED BY <2>8 DEF r
<1>3. FeatureArc(a) = SetFeatures(Read(Written(SetFeatures(NewArc(a), Thetas(a, 3)))), Thetas(a, weight[a]))
  BY DEF FeatureArc, Thetas
<1>4. SetFeatures(Featured(a, 1), Thetas(a, 3)) = Featured(a, 3)
  BY SetFeaturesIs
<1>5. SetFeatures(Featured(a, 3), Thetas(a, weight[a])) = Featured(a, weight[a])
  BY SetFeaturesIs
<1> QED BY <1>1, <1>2, <1>3, <1>4, <1>5

-----------------------------------------------------------------------------
(* The expected count of a feature, arc by arc and path by path.            *)

LEMMA FeatIsAdded ==
  ASSUME NEW f
  PROVE  FeatExpectation(f)
           = GetOrigNum(AddedUp("signed", PlusZero, [a \in LiveArcs |-> ArcExpectation(a, f)], LiveArcs))
<1> DEFINE S == LiveArcs
           v == [a \in S |-> ArcExpectation(a, f)]
           R(g) == g = [s \in SUBSET S |-> IF s = {} THEN PlusZero
                          ELSE NeglogPlus(g[s \ {Pick(s)}], ArcExpectation(Pick(s), f))]
           X == FoldSet(LAMBDA a, sum : NeglogPlus(sum, ArcExpectation(a, f)), PlusZero, LiveArcs)
<1>1. ASSUME NEW g PROVE Adding("signed", PlusZero, v, S, g) <=> R(g)
  <2>1. \A s \in SUBSET S :
          (IF s = {} THEN PlusZero ELSE Added("signed", v[Pick(s)], g[s \ {Pick(s)}]))
            = (IF s = {} THEN PlusZero ELSE NeglogPlus(g[s \ {Pick(s)}], ArcExpectation(Pick(s), f)))
    BY PickIn DEF Added
  <2> QED BY <2>1 DEF Adding
<1>2. (CHOOSE g : Adding("signed", PlusZero, v, S, g)) = (CHOOSE g : R(g))
  <2> HIDE DEF R, v
  <2> QED BY <1>1
<1>3. X = (CHOOSE g : R(g))[S]
  BY Zenon DEF FoldSet, MapThenFoldSet, Pick
<1>a. FeatExpectation(f) = GetOrigNum(X)
  BY Zenon DEF FeatExpectation
<1> HIDE DEF R, v, X
<1>4. X = AddedUp("signed", PlusZero, v, S)
  BY <1>2, <1>3 DEF AddedUp
<1> QED BY <1>4, <1>a DEF v

\* The alphas and betas when no sum was interrupted, or none ended with ShortestDistanceM.
Exact ==
  Weighted /\ \A n \in States : Get(alphas, n) = PathSum(0, n) /\ Get(betas, n) = SumFrom(n)

LEMMA ArcStates ==
  ASSUME NEW a \in Arcs
  PROVE  /\ a = <<a[1], a[2]>> /\ a[1] \in States /\ a[2] \in States /\ a[1] \in Nat /\ a[2] \in Nat
         /\ a[1] < a[2] /\ a[2] \in Later(a[1]) /\ 0 \in States
<1>1. a \in States \X States /\ a[1] < a[2]
  BY DEF Arcs
<1>2. a = <<a[1], a[2]>> /\ a[1] \in States /\ a[2] \in States
  BY <1>1
<1>3. a[1] \in Nat /\ a[2] \in Nat /\ 0 \in States
  BY <1>2, StatesFinite
<1> QED BY <1>1, <1>2, <1>3 DEF Later

LEMMA ThroughType ==
  ASSUME Weighted, NEW a \in Arcs
  PROVE  /\ weight[a] \in Nat /\ PathSum(0, a[1]) \in Nat /\ SumFrom(a[2]) \in Nat
         /\ SumThrough(a) \in Nat /\ (weight[a] = 0 => SumThrough(a) = 0)
         /\ SumThrough(a) = PathSum(0, a[1]) * (weight[a] * SumFrom(a[2]))
<1>1. a[1] \in States /\ a[2] \in States /\ 0 \in States
  BY ArcStates
<1>2. weight[a] \in Nat /\ PathSum(0, a[1]) \in Nat /\ SumFrom(a[2]) \in Nat
  BY <1>1, PathSumIs, SumFromIs DEF Weighted
<1>3. SumThrough(a) = PathSum(0, a[1]) * (weight[a] * SumFrom(a[2]))
  BY SumThroughArc
<1> QED BY <1>2, <1>3, NatTimes

LEMMA OrigOfNum == ASSUME NEW n PROVE GetOrigNum(NeglogNum(n, TRUE)) = n
  BY DEF GetOrigNum, NeglogNum
LEMMA NumType == ASSUME NEW n \in Nat PROVE NeglogNum(n, TRUE) \in NeglogNums
  BY DEF NeglogNum, NeglogNums

\* What one arc adds to the expected count of a feature.
LEMMA ArcExpectationIs ==
  ASSUME Exact, NEW a \in LiveArcs, NEW f \in Features
  PROVE  /\ ArcExpectation(a, f) \in NeglogNums
         /\ GetOrigNum(ArcExpectation(a, f)) = Fires(a, f) * SumThrough(a)
<1> DEFINE al == PathSum(0, a[1])
           be == SumFrom(a[2])
           w == weight[a]
           n == Fires(a, f)
           st == SumThrough(a)
<1>1. a \in Arcs /\ w \in Nat /\ w # 0 /\ al \in Nat /\ be \in Nat /\ n \in Nat /\ st = al * (w * be)
  BY ThroughType, FiredFacts DEF Exact, LiveArcs, Weighted
<1>2. Get(alphas, a[1]) = al /\ Get(betas, a[2]) = be
  BY <1>1, ArcStates DEF Exact
<1>3. FeatureArc(a) = Featured(a, w)
  BY <1>1, FeatureArcIs
<1>4. DOMAIN FeatureArc(a).e = Fired(a) /\ \A x \in Fired(a) : FeatureArc(a).e[x] = NeglogNum(w * Fires(a, x), TRUE)
  BY <1>3 DEF Featured, Weight
<1>5. f \in Fired(a) <=> n # 0
  BY DEF Fired
<1>6. n * (al * (w * be)) = (al * (w * n)) * be /\ w * n \in Nat /\ al * (w * n) \in Nat
  <2>1. \A x, y, z, u \in Nat : u * (x * (y * z)) = (x * (y * u)) * z
    OBVIOUS
  <2> HIDE DEF al, be, w, n
  <2> QED BY <1>1, <2>1, NatTimes
<1>7. CASE be = 0 \/ n = 0
  <2>1. ArcExpectation(a, f) = PlusZero
    BY <1>2, <1>4, <1>5, <1>7 DEF ArcExpectation
  <2>2. n * st = 0
    <3> HIDE DEF al, be, w, n, st
    <3> QED BY <1>1, <1>6, <1>7, NatTimes
  <2>3. NeglogNum(0, TRUE) \in NeglogNums /\ GetOrigNum(NeglogNum(0, TRUE)) = 0
    BY OrigOfNum, NumType, 0 \in Nat
  <2>4. Fires(a, f) * SumThrough(a) = 0
    BY <2>2
  <2> QED BY ONLY <2>1, <2>3, <2>4 DEF PlusZero
<1>8. CASE be # 0 /\ n # 0
  <2>1. ArcExpectation(a, f) = NeglogTimes(NeglogTimes(NeglogNum(al, TRUE), NeglogNum(w * n, TRUE)), NeglogNum(be, TRUE))
    BY <1>2, <1>4, <1>5, <1>8 DEF ArcExpectation
  <2> HIDE DEF al, be, w, n, st
  <2>2. NeglogNum(al, TRUE) \in NeglogNums /\ NeglogNum(w * n, TRUE) \in NeglogNums /\ NeglogNum(be, TRUE) \in NeglogNums
    BY <1>1, <1>6, NumType
  <2> DEFINE x == NeglogTimes(NeglogNum(al, TRUE), NeglogNum(w * n, TRUE))
  <2>3. x \in NeglogNums /\ GetOrigNum(x) = al * (w * n)
    BY <2>2, OrigOfNum, TimesCorrect
  <2> HIDE DEF x
  <2>4. NeglogTimes(x, NeglogNum(be, TRUE)) \in NeglogNums /\ GetOrigNum(NeglogTimes(x, NeglogNum(be, TRUE))) = (al * (w * n)) * be
    BY <2>2, <2>3, OrigOfNum, TimesCorrect
  <2>5. ArcExpectation(a, f) = NeglogTimes(x, NeglogNum(be, TRUE))
    BY <2>1 DEF x
  <2>6. n * st = (al * (w * n)) * be
    BY <1>1, <1>6
  <2> QED BY <2>4, <2>5, <2>6 DEF n, st
<1> QED BY <1>7, <1>8

\* The expected count of a feature, arc by arc.
LEMMA FeatSum ==
  ASSUME Exact, NEW f \in Features, NEW s, \A a \in Arcs : s[a] = Fires(a, f) * SumThrough(a)
  PROVE  FeatExpectation(f) = Sum(s, Arcs) /\ AllNat(s, Arcs)
<1> DEFINE v == [a \in LiveArcs |-> ArcExpectation(a, f)]
<1>1. LiveArcs \in SUBSET Arcs /\ IsFiniteSet(Arcs) /\ IsFiniteSet(LiveArcs)
  BY StatesFinite, FS_Subset DEF LiveArcs
<1>2. AllNat(s, Arcs) /\ \A a \in Arcs \ LiveArcs : s[a] = 0
  <2>1. ASSUME NEW a \in Arcs PROVE s[a] \in Nat /\ (a \notin LiveArcs => s[a] = 0)
    <3>1. Fires(a, f) \in Nat /\ SumThrough(a) \in Nat /\ (a \notin LiveArcs => SumThrough(a) = 0)
      BY ThroughType, FiredFacts DEF Exact, LiveArcs
    <3> QED BY <3>1, NatTimes
  <2> QED BY <2>1 DEF AllNat
<1>3. \A a \in LiveArcs : v[a] \in NeglogNums /\ GetOrigNum(v[a]) = s[a]
  BY <1>1, ArcExpectationIs
<1>4. GetOrigNum(AddedUp("signed", PlusZero, v, LiveArcs)) = Sum(s, LiveArcs)
  <2>1. AllNat(s, LiveArcs)
    BY <1>1, <1>2 DEF AllNat
  <2> HIDE DEF v
  <2> QED BY ONLY <1>1, <1>3, <2>1, SignedSum
<1>5. Sum(s, Arcs) = Sum(s, LiveArcs)
  BY ONLY <1>1, <1>2, SumExtend
<1>6. FeatExpectation(f) = GetOrigNum(AddedUp("signed", PlusZero, v, LiveArcs))
  BY FeatIsAdded
<1> QED BY <1>2, <1>4, <1>5, <1>6

LEMMA FiresOnIsFold ==
  ASSUME NEW p, NEW f
  PROVE  FiresOn(p, f) = Sum([a \in ArcsOf(p) |-> Fires(a, f)], ArcsOf(p))
<1> DEFINE S == ArcsOf(p)
           v == [a \in S |-> Fires(a, f)]
           R(g) == g = [s \in SUBSET S |-> IF s = {} THEN 0 ELSE Fires(Pick(s), f) + g[s \ {Pick(s)}]]
<1>1. ASSUME NEW g PROVE Rec("plus", v, S, g) <=> R(g)
  <2>1. \A s \in SUBSET S :
          (IF s = {} THEN Base("plus") ELSE Op("plus", v[Pick(s)], g[s \ {Pick(s)}]))
            = (IF s = {} THEN 0 ELSE Fires(Pick(s), f) + g[s \ {Pick(s)}])
    BY PickIn DEF Base, Op
  <2> QED BY <2>1 DEF Rec
<1>2. (CHOOSE g : Rec("plus", v, S, g)) = (CHOOSE g : R(g))
  <2> HIDE DEF R, v
  <2> QED BY <1>1
<1>3. FiresOn(p, f) = (CHOOSE g : R(g))[S]
  BY Zenon DEF FiresOn, MapThenSumSet, MapThenFoldSet, Pick
<1> HIDE DEF R, v
<1>4. FiresOn(p, f) = Sum(v, S)
  BY <1>2, <1>3 DEF Fold, Sum
<1> QED BY <1>4 DEF v

\* How often a feature fires on a path, as a sum over all arcs.
LEMMA FiresOnIs ==
  ASSUME NEW p \in SUBSET States, NEW f, NEW r,
         \A a \in Arcs : r[a] = IF a \in ArcsOf(p) THEN Fires(a, f) ELSE 0
  PROVE  FiresOn(p, f) = Sum(r, Arcs) /\ AllNat(r, Arcs) /\ FiresOn(p, f) \in Nat
<1> DEFINE v == [a \in ArcsOf(p) |-> Fires(a, f)]
<1>1. ArcsOf(p) \in SUBSET Arcs /\ IsFiniteSet(ArcsOf(p)) /\ IsFiniteSet(Arcs)
  BY PathArcs, StatesFinite
<1>2. AllNat(r, Arcs) /\ \A a \in Arcs \ ArcsOf(p) : r[a] = 0
  BY FiredFacts DEF AllNat
<1>3. \A a \in ArcsOf(p) : r[a] = v[a]
  BY <1>1
<1>4. FiresOn(p, f) = Sum(v, ArcsOf(p))
  BY FiresOnIsFold
<1> HIDE DEF v
<1>5. Sum(r, Arcs) = Sum(r, ArcsOf(p))
  BY ONLY <1>1, <1>2, SumExtend
<1>6. Sum(r, ArcsOf(p)) = Sum(v, ArcsOf(p))
  BY ONLY <1>1, <1>3, SumSame
<1>7. Sum(r, Arcs) \in Nat
  BY ONLY <1>1, <1>2, SumType
<1> QED BY <1>2, <1>4, <1>5, <1>6, <1>7

\* t[a] is what the paths that a is on weigh when path p weighs u[p].
ByArc(u, t) ==
  \A a \in Arcs : t[a] = Sum([p \in PathsFrom(0) |-> IF a \in ArcsOf(p) THEN u[p] ELSE 0], PathsFrom(0))

\* A sum over the paths of how often a feature fires on them, arc by arc.
LEMMA FiresByArc ==
  ASSUME NEW f, NEW u, AllNat(u, PathsFrom(0)), NEW t, ByArc(u, t),
         NEW s, \A a \in Arcs : s[a] = Fires(a, f) * t[a],
         NEW z, \A p \in PathsFrom(0) : z[p] = u[p] * FiresOn(p, f)
  PROVE  Sum(s, Arcs) = Sum(z, PathsFrom(0)) /\ AllNat(s, Arcs) /\ AllNat(z, PathsFrom(0)) /\ AllNat(t, Arcs)
<1> DEFINE P == PathsFrom(0)
           on(a) == [p \in P |-> IF a \in ArcsOf(p) THEN u[p] ELSE 0]
           m == [a \in Arcs |-> [p \in P |-> IF a \in ArcsOf(p) THEN Fires(a, f) * u[p] ELSE 0]]
           n == [p \in P |-> [a \in Arcs |-> m[a][p]]]
<1>1. IsFiniteSet(P) /\ IsFiniteSet(Arcs) /\ \A p \in P : p \in SUBSET States
  BY PathsFinite, StatesFinite
<1>2. \A p \in P : u[p] \in Nat
  BY DEF AllNat
<1>3. \A a \in Arcs : Fires(a, f) \in Nat
  BY FiredFacts
<1>4. \A a \in Arcs, p \in P : m[a][p] \in Nat /\ n[p][a] = m[a][p] /\ on(a)[p] \in Nat
  BY <1>2, <1>3, NatTimes
<1>5. \A a \in Arcs : s[a] = Sum(m[a], P) /\ t[a] \in Nat
  <2> TAKE a \in Arcs
  <2>1. t[a] = Sum(on(a), P)
    BY DEF ByArc
  <2>2. AllNat(on(a), P)
    BY <1>4 DEF AllNat
  <2>3. \A p \in P : m[a][p] = Fires(a, f) * on(a)[p]
    <3> TAKE p \in P
    <3>1. Fires(a, f) \in Nat /\ u[p] \in Nat
      BY <1>2, <1>3
    <3>2. Fires(a, f) * 0 = 0
      BY <3>1, NatTimes
    <3> QED BY <3>1, <3>2
  <2> HIDE DEF on, m, P
  <2>4. Sum(m[a], P) = Fires(a, f) * Sum(on(a), P)
    BY <1>1, <1>3, <2>2, <2>3, SumScale
  <2>5. Sum(on(a), P) \in Nat
    BY <1>1, <2>2, SumType
  <2> QED BY <2>1, <2>4, <2>5
<1>6. \A p \in P : z[p] = Sum(n[p], Arcs)
  <2> TAKE p \in P
  <2> DEFINE r == [a \in Arcs |-> IF a \in ArcsOf(p) THEN Fires(a, f) ELSE 0]
  <2>1. FiresOn(p, f) = Sum(r, Arcs) /\ AllNat(r, Arcs)
    <3>1. p \in SUBSET States /\ \A a \in Arcs : r[a] = IF a \in ArcsOf(p) THEN Fires(a, f) ELSE 0
      BY <1>1
    <3> HIDE DEF r
    <3> QED BY <3>1, FiresOnIs
  <2>2. \A a \in Arcs : n[p][a] = u[p] * r[a]
    <3> TAKE a \in Arcs
    <3>1. Fires(a, f) \in Nat /\ u[p] \in Nat
      BY <1>2, <1>3
    <3>2. u[p] * 0 = 0 /\ u[p] * Fires(a, f) = Fires(a, f) * u[p]
      BY <3>1, NatTimes
    <3> QED BY <3>1, <3>2
  <2>3. z[p] = u[p] * FiresOn(p, f) /\ u[p] \in Nat
    BY <1>2
  <2> HIDE DEF r, n, P
  <2>4. Sum(n[p], Arcs) = u[p] * Sum(r, Arcs)
    BY <1>1, <2>1, <2>2, <2>3, SumScale
  <2> QED BY <2>1, <2>3, <2>4
<1>7. Sum(s, Arcs) = Sum(z, P)
  <2>1. RowsAndColumns(Arcs, P, m, n, s, z)
    <3> HIDE DEF m, n, P
    <3> QED BY <1>4, <1>5, <1>6 DEF RowsAndColumns
  <2> HIDE DEF m, n, P
  <2> QED BY ONLY <1>1, <2>1, SumSwap
<1>8. AllNat(s, Arcs) /\ AllNat(t, Arcs)
  <2>1. ASSUME NEW a \in Arcs PROVE s[a] \in Nat /\ t[a] \in Nat
    <3>1. Fires(a, f) \in Nat /\ t[a] \in Nat /\ s[a] = Fires(a, f) * t[a]
      BY <1>3, <1>5
    <3> QED BY <3>1, NatTimes
  <2> QED BY <2>1 DEF AllNat
<1>9. AllNat(z, P)
  <2>1. \A p \in P : AllNat(n[p], Arcs)
    BY <1>4 DEF AllNat
  <2> HIDE DEF n, P
  <2>2. \A p \in P : Sum(n[p], Arcs) \in Nat
    BY <1>1, <2>1, SumType
  <2> QED BY <1>6, <2>2 DEF AllNat
<1> QED BY <1>7, <1>8, <1>9

\* The sum over the accepted paths of how often a feature fires.
AllFires(f) == SumOf(LAMBDA p : FiresOn(p, f))

LEMMA AllFiresIsFold ==
  ASSUME NEW f
  PROVE  AllFires(f) = Sum([p \in PathsFrom(0) |-> Accepted(p) * FiresOn(p, f)], PathsFrom(0))
<1> DEFINE S == PathsFrom(0)
           v == [p \in S |-> Accepted(p) * FiresOn(p, f)]
           R(g) == g = [s \in SUBSET S |-> IF s = {} THEN 0
                          ELSE (Accepted(Pick(s)) * FiresOn(Pick(s), f)) + g[s \ {Pick(s)}]]
<1>1. ASSUME NEW g PROVE Rec("plus", v, S, g) <=> R(g)
  <2>1. \A s \in SUBSET S :
          (IF s = {} THEN Base("plus") ELSE Op("plus", v[Pick(s)], g[s \ {Pick(s)}]))
            = (IF s = {} THEN 0 ELSE (Accepted(Pick(s)) * FiresOn(Pick(s), f)) + g[s \ {Pick(s)}])
    BY PickIn DEF Base, Op
  <2> QED BY <2>1 DEF Rec
<1>2. (CHOOSE g : Rec("plus", v, S, g)) = (CHOOSE g : R(g))
  <2> HIDE DEF R, v
  <2> QED BY <1>1
<1>3. AllFires(f) = (CHOOSE g : R(g))[S]
  BY Zenon DEF AllFires, SumOf, MapThenSumSet, MapThenFoldSet, Pick
<1> HIDE DEF R, v
<1>4. AllFires(f) = Sum(v, S)
  BY <1>2, <1>3 DEF Fold, Sum
<1> QED BY <1>4 DEF v

LEMMA ThroughByArc ==
  ASSUME Weighted
  PROVE  /\ ByArc(Accepting, [a \in Arcs |-> SumThrough(a)]) /\ AllNat(Accepting, PathsFrom(0))
         /\ \A p \in PathsFrom(0) : Accepting[p] = Accepted(p)
<1> DEFINE P == PathsFrom(0)
           on(a) == [p \in P |-> IF a \in ArcsOf(p) THEN Accepting[p] ELSE 0]
<1>1. 0 \in States
  BY StatesFinite
<1>2. IsFiniteSet(P) /\ \A p \in P : p \in SUBSET States
  BY <1>1, PathsFinite
<1>3. ASSUME NEW a \in Arcs PROVE SumThrough(a) = Sum(on(a), P)
  <2>1. \A p \in P : on(a)[p] = Using(a)[p]
    BY <1>2 DEF Using, Accepting
  <2> HIDE DEF on, P
  <2>2. Sum(on(a), P) = Sum(Using(a), P)
    BY <1>2, <2>1, SumSame
  <2> QED BY <2>2, SumThroughIs DEF P
<1>4. AllNat(Accepting, P)
  BY <1>1, PathTypes
<1>5. \A p \in P : Accepting[p] = Accepted(p)
  BY <1>2 DEF Accepting
<1> QED BY <1>3, <1>4, <1>5 DEF ByArc

\* The expected counts are those over the paths.
LEMMA FeatExpectationExact ==
  ASSUME Exact, NEW f \in Features
  PROVE  FeatExpectation(f) = AllFires(f)
<1> DEFINE P == PathsFrom(0)
           t == [a \in Arcs |-> SumThrough(a)]
           s == [a \in Arcs |-> Fires(a, f) * SumThrough(a)]
           z == [p \in P |-> Accepted(p) * FiresOn(p, f)]
<1>1. ByArc(Accepting, t) /\ AllNat(Accepting, P) /\ \A p \in P : Accepting[p] = Accepted(p)
  BY ThroughByArc DEF Exact
<1>2. (\A a \in Arcs : s[a] = Fires(a, f) * t[a]) /\ \A p \in P : z[p] = Accepting[p] * FiresOn(p, f)
  BY <1>1
<1>3. \A a \in Arcs : s[a] = Fires(a, f) * SumThrough(a)
  OBVIOUS
<1>4. AllFires(f) = Sum(z, P)
  BY AllFiresIsFold
<1> HIDE DEF s, t, z
<1>5. Sum(s, Arcs) = Sum(z, P)
  BY <1>1, <1>2, FiresByArc
<1>6. FeatExpectation(f) = Sum(s, Arcs)
  BY <1>3, FeatSum
<1> QED BY <1>4, <1>5, <1>6

-----------------------------------------------------------------------------
(* The sums of expectation weights along the arcs to a state, or from it.   *)

\* The sums of expectation weights, forward or backward: what is added to base[n]
\* comes along the arcs in arcs[n], each from the state to[a].
Incoming(g, to, S) == [a \in S |-> Times(g[to[a]], LengthArc(a))]
SumStep(base, S, to, g, n) == AddedUp("weights", base[n], Incoming(g, to, S[n]), S[n])
SumRec(base, S, to, g) == g = [n \in States |-> SumStep(base, S, to, g, n)]
\* The states that are needed for one come before it.
Ranked(S, to, rank) ==
  \A n \in States : /\ IsFiniteSet(S[n]) /\ rank[n] \in States
                    /\ \A a \in S[n] : a \in Arcs /\ to[a] \in States /\ rank[to[a]] < rank[n]

LEMMA SumStepSame ==
  ASSUME NEW base, NEW S, NEW to, NEW n, IsFiniteSet(S[n]), NEW g, NEW h,
         \A a \in S[n] : g[to[a]] = h[to[a]]
  PROVE  SumStep(base, S, to, g, n) = SumStep(base, S, to, h, n)
<1> DEFINE v == Incoming(g, to, S[n])
           w == Incoming(h, to, S[n])
<1>1. \A a \in S[n] : v[a] = w[a]
  BY DEF Incoming
<1> HIDE DEF v, w
<1>2. AddedUp("weights", base[n], v, S[n]) = AddedUp("weights", base[n], w, S[n])
  BY <1>1, AddedUpSame
<1> QED BY <1>2 DEF SumStep, v, w

\* So there is such a sum.
LEMMA SumRecExists ==
  ASSUME NEW base, NEW S, NEW to, NEW rank, Ranked(S, to, rank)
  PROVE  \E g : SumRec(base, S, to, g)
<1> DEFINE Upto(g, k) == \A n \in States : rank[n] <= k => g[n] = SumStep(base, S, to, g, n)
           Bad == {k \in States : ~ \E g : Upto(g, k)}
<1>0. States = 0 .. NumStates - 1 /\ NumStates \in Nat \ {0}
  BY ConstantsAssumption DEF States
<1>1. Bad = {}
  <2> SUFFICES ASSUME Bad # {} PROVE FALSE
    OBVIOUS
  <2> DEFINE k == Min(Bad)
  <2>1. k \in Bad /\ \A j \in Bad : k <= j
    <3>1. Bad \in SUBSET States
      OBVIOUS
    <3> HIDE DEF Bad
    <3> QED BY <3>1, MinIn
  <2>2. k \in States /\ ~ \E g : Upto(g, k)
    BY <2>1
  <2>3. \A j \in States : j < k => \E g : Upto(g, j)
    <3>1. \A j \in States : j < k => j \notin Bad
      <4> HIDE DEF k, Bad
      <4> QED BY <1>0, <2>1, <2>2
    <3> QED BY <3>1
  <2> HIDE DEF k, Bad
  <2>4. PICK g : \A n \in States : rank[n] < k => g[n] = SumStep(base, S, to, g, n)
    <3>1. CASE k = 0
      <4>1. \A n \in States : ~ (rank[n] < k)
        BY <1>0, <3>1 DEF Ranked
      <4> QED BY <4>1
    <3>2. CASE k # 0
      <4>1. k - 1 \in States /\ k - 1 < k
        BY <1>0, <2>2, <3>2
      <4>2. PICK g : Upto(g, k - 1)
        BY <2>3, <4>1
      <4>3. \A n \in States : rank[n] < k => rank[n] <= k - 1
        BY <1>0, <2>2 DEF Ranked
      <4> QED BY <4>2, <4>3
    <3> QED BY <3>1, <3>2
  <2> DEFINE h == [n \in States |-> IF rank[n] = k THEN SumStep(base, S, to, g, n) ELSE g[n]]
  <2>5. ASSUME NEW n \in States, rank[n] <= k PROVE h[n] = SumStep(base, S, to, h, n)
    <3>1. \A a \in S[n] : g[to[a]] = h[to[a]]
      <4> TAKE a \in S[n]
      <4>1. to[a] \in States /\ rank[to[a]] < rank[n] /\ rank[n] \in States /\ rank[to[a]] \in States
        BY DEF Ranked
      <4>2. rank[to[a]] # k
        BY <1>0, <2>2, <2>5, <4>1
      <4> QED BY <4>1, <4>2
    <3>2. IsFiniteSet(S[n]) /\ rank[n] \in States
      BY DEF Ranked
    <3>3. SumStep(base, S, to, g, n) = SumStep(base, S, to, h, n)
      <4> HIDE DEF h
      <4> QED BY <3>1, <3>2, SumStepSame
    <3>4. rank[n] = k \/ rank[n] < k
      BY <1>0, <2>2, <2>5, <3>2
    <3>5. CASE rank[n] = k
      BY <3>3, <3>5
    <3>6. CASE rank[n] < k
      <4>1. rank[n] # k
        BY <1>0, <2>2, <3>2, <3>6
      <4>2. h[n] = g[n]
        BY <4>1
      <4> QED BY <2>4, <3>3, <3>6, <4>2
    <3> QED BY <3>4, <3>5, <3>6
  <2>6. Upto(h, k)
    BY <2>5
  <2> QED BY <2>2, <2>6
<1>2. NumStates - 1 \in States
  BY <1>0
<1>3. PICK g : Upto(g, NumStates - 1)
  BY <1>1, <1>2
<1>4. \A n \in States : g[n] = SumStep(base, S, to, g, n)
  BY <1>0, <1>3 DEF Ranked
<1> DEFINE h == [n \in States |-> g[n]]
<1>5. ASSUME NEW n \in States PROVE h[n] = SumStep(base, S, to, h, n)
  <2>1. IsFiniteSet(S[n]) /\ \A a \in S[n] : g[to[a]] = h[to[a]]
    BY DEF Ranked
  <2>2. SumStep(base, S, to, g, n) = SumStep(base, S, to, h, n)
    <3> HIDE DEF h
    <3> QED BY <2>1, SumStepSame
  <2> QED BY <1>4, <2>2
<1>6. SumRec(base, S, to, h)
  <2>1. h = [n \in States |-> h[n]]
    OBVIOUS
  <2> HIDE DEF h
  <2> QED BY <1>5, <2>1 DEF SumRec
<1> QED BY <1>6

\* The arcs and the strings' lengths.
Long(a, l) == IF a \in (IF l = LENGTH_X THEN IArcs ELSE OArcs) THEN 1 ELSE 0
Lengths == {LENGTH_X, LENGTH_Y}

LEMMA LengthArcIs ==
  ASSUME NEW a, weight[a] \in Nat, NEW l \in Lengths
  PROVE  /\ IsWeight(LengthArc(a)) /\ LengthArc(a).value = weight[a]
         /\ Expected(LengthArc(a), l) = weight[a] * Long(a, l)
<1> DEFINE D == {k \in {LENGTH_X, LENGTH_Y} : a \in IF k = LENGTH_X THEN IArcs ELSE OArcs}
           e == [k \in D |-> NeglogNum(weight[a], TRUE)]
<1>1. LengthArc(a) = Weight(weight[a], e)
  BY DEF LengthArc
<1>2. DOMAIN e = D /\ e \in [D -> NeglogNums]
  BY NumType
<1>3. LengthArc(a).value = weight[a] /\ LengthArc(a).e = e
  <2> HIDE DEF e
  <2> QED BY <1>1 DEF Weight
<1>4. IsWeight(LengthArc(a))
  <2> HIDE DEF e, D
  <2> QED BY <1>1, <1>2, <1>3 DEF IsWeight
<1>5. l \in D <=> Long(a, l) = 1
  BY DEF Long, Lengths
<1>6. l \in D => GetOrigNum(e[l]) = weight[a]
  BY OrigOfNum
<1>7. Long(a, l) = 1 \/ Long(a, l) = 0
  BY DEF Long
<1>8. Expected(LengthArc(a), l) = IF l \in D THEN GetOrigNum(e[l]) ELSE 0
  <2> HIDE DEF e, D
  <2> QED BY <1>2, <1>3 DEF Expected
<1>9. weight[a] * 1 = weight[a] /\ weight[a] * 0 = 0
  OBVIOUS
<1> HIDE DEF e, D
<1> QED BY <1>3, <1>4, <1>5, <1>6, <1>7, <1>8, <1>9

\* What must be true of the values and the expected lengths of such a sum.
Valued(base, S, to, nv, ne, l) ==
  \A n \in States :
    /\ IsWeight(base[n]) /\ Expected(base[n], l) \in Nat /\ nv[n] \in Nat /\ ne[n] \in Nat
    /\ nv[n] = base[n].value + Sum([a \in S[n] |-> nv[to[a]] * weight[a]], S[n])
    /\ ne[n] = Expected(base[n], l)
                 + Sum([a \in S[n] |-> weight[a] * ne[to[a]] + nv[to[a]] * (weight[a] * Long(a, l))], S[n])

LEMMA SumRecValues ==
  ASSUME Weighted, NEW base, NEW S, NEW to, NEW rank, Ranked(S, to, rank), NEW l \in Lengths,
         NEW nv, NEW ne, Valued(base, S, to, nv, ne, l), NEW g, SumRec(base, S, to, g)
  PROVE  \A n \in States : IsWeight(g[n]) /\ g[n].value = nv[n] /\ Expected(g[n], l) = ne[n]
<1> DEFINE Good(n) == IsWeight(g[n]) /\ g[n].value = nv[n] /\ Expected(g[n], l) = ne[n]
           Bad == {k \in States : \E n \in States : rank[n] = k /\ ~ Good(n)}
<1>0. States \subseteq Nat
  BY StatesFinite
<1>1. SUFFICES Bad = {}
  <2>1. \A n \in States : rank[n] \in States
    BY DEF Ranked
  <2> QED BY <2>1
<1> SUFFICES ASSUME Bad # {} PROVE FALSE
  OBVIOUS
<1> DEFINE k == Min(Bad)
<1>2. k \in Bad /\ \A j \in Bad : k <= j
  <2>1. Bad \in SUBSET States
    OBVIOUS
  <2> HIDE DEF Bad
  <2> QED BY <2>1, MinIn
<1>3. PICK n \in States : rank[n] = k /\ ~ Good(n)
  BY <1>2
<1>4. \A m \in States : rank[m] < rank[n] => Good(m)
  <2> SUFFICES ASSUME NEW m \in States, rank[m] < rank[n] PROVE Good(m)
    OBVIOUS
  <2>1. rank[m] \in States /\ rank[n] \in States
    BY DEF Ranked
  <2>2. rank[m] \notin Bad
    <3> HIDE DEF Bad, k
    <3> QED BY <1>0, <1>2, <1>3, <2>1
  <2> QED BY <2>1, <2>2
<1> HIDE DEF k, Bad
<1> DEFINE T == S[n]
           v == Incoming(g, to, T)
           vals == [a \in T |-> nv[to[a]] * weight[a]]
           exps == [a \in T |-> weight[a] * ne[to[a]] + nv[to[a]] * (weight[a] * Long(a, l))]
<1>5. IsFiniteSet(T) /\ \A a \in T : a \in Arcs /\ to[a] \in States /\ Good(to[a]) /\ weight[a] \in Nat
  BY <1>4 DEF Ranked, Weighted
<1>6. ASSUME NEW a \in T
      PROVE  /\ IsWeight(v[a]) /\ v[a].value = vals[a] /\ Expected(v[a], l) = exps[a]
             /\ vals[a] \in Nat /\ exps[a] \in Nat
  <2> DEFINE w == weight[a]
             x == g[to[a]]
             y == LengthArc(a)
             i == Long(a, l)
             xv == nv[to[a]]
             xe == ne[to[a]]
  <2>1. w \in Nat /\ i \in Nat /\ xv \in Nat /\ xe \in Nat
    BY <1>5 DEF Valued, Long
  <2>2. IsWeight(x) /\ x.value = xv /\ Expected(x, l) = xe
    BY <1>5
  <2>3. IsWeight(y) /\ y.value = w /\ Expected(y, l) = w * i
    BY <1>5, LengthArcIs
  <2>4. v[a] = Times(x, y)
    BY DEF Incoming
  <2>5. vals[a] = xv * w /\ exps[a] = w * xe + xv * (w * i)
    OBVIOUS
  <2> HIDE DEF w, x, y, i, xv, xe, v, vals, exps
  <2>6. IsWeight(Times(x, y)) /\ Times(x, y).value = x.value * y.value
        /\ Expected(Times(x, y), l) = y.value * Expected(x, l) + x.value * Expected(y, l)
    BY <2>2, <2>3, WeightTimes
  <2>7. xv * w \in Nat /\ w * xe + xv * (w * i) \in Nat
    <3>1. w * i \in Nat /\ w * xe \in Nat /\ xv * w \in Nat
      BY <2>1, NatTimes
    <3>2. xv * (w * i) \in Nat
      BY <2>1, <3>1, NatTimes
    <3> HIDE DEF w, i, xv, xe
    <3> QED BY <3>1, <3>2
  <2> QED BY <2>2, <2>3, <2>4, <2>5, <2>6, <2>7
<1>7. g[n] = AddedUp("weights", base[n], v, T)
  BY DEF SumRec, SumStep
<1>8. /\ IsWeight(base[n]) /\ Expected(base[n], l) \in Nat
      /\ nv[n] = base[n].value + Sum(vals, T) /\ ne[n] = Expected(base[n], l) + Sum(exps, T)
  BY DEF Valued
<1>9. AllNat(vals, T) /\ AllNat(exps, T)
  BY <1>6 DEF AllNat
<1>10. \A a \in T : IsWeight(v[a]) /\ v[a].value = vals[a] /\ Expected(v[a], l) = exps[a]
  BY <1>6
<1>11. ~ Good(n)
  BY <1>3
<1>12. /\ IsWeight(g[n]) /\ g[n].value = base[n].value + Sum(vals, T)
       /\ Expected(g[n], l) = Expected(base[n], l) + Sum(exps, T)
  <2>1. IsFiniteSet(T) /\ \A a \in T : IsWeight(v[a])
    BY <1>5, <1>10
  <2> HIDE DEF v, vals, exps, T, Good
  <2> QED BY ONLY <2>1, <1>7, <1>8, <1>9, <1>10, WeightSum
<1> QED BY <1>8, <1>11, <1>12

\* A sum over the arcs to or from a state, as one over states.
In(n) == {a \in LiveArcs : a[2] = n}
Out(n) == {a \in LiveArcs : a[1] = n}

LEMMA SumIn ==
  ASSUME NEW n \in States, NEW v, NEW z, AllNat(z, States),
         \A k \in States : z[k] = IF <<k, n>> \in LiveArcs THEN v[<<k, n>>] ELSE 0
  PROVE  Sum(v, In(n)) = Sum(z, States)
<1> DEFINE K == {k \in States : <<k, n>> \in LiveArcs}
           h == [k \in K |-> <<k, n>>]
<1>1. In(n) = {h[k] : k \in K}
  <2>1. \A a \in In(n) : a[1] \in K /\ a = <<a[1], n>>
    <3> TAKE a \in In(n)
    <3>1. a \in LiveArcs /\ a \in Arcs /\ a[2] = n
      BY DEF In, LiveArcs
    <3>2. a = <<a[1], n>> /\ a[1] \in States
      BY <3>1, ArcStates
    <3>3. <<a[1], n>> \in LiveArcs
      BY <3>1, <3>2
    <3> QED BY <3>2, <3>3
  <2>2. \A k \in K : <<k, n>> \in In(n)
    BY DEF In
  <2> QED BY <2>1, <2>2
<1>2. IsFiniteSet(K) /\ K \in SUBSET States /\ IsFiniteSet(States)
  BY StatesFinite, FS_Subset
<1>3. AllNat(z, K) /\ (\A k \in K : z[k] = v[h[k]]) /\ \A k \in States \ K : z[k] = 0
  BY DEF AllNat
<1>4. \A j, k \in K : h[j] = h[k] => j = k
  OBVIOUS
<1> HIDE DEF K, h
<1>5. Sum(v, {h[k] : k \in K}) = Sum(z, K)
  BY <1>2, <1>3, <1>4, SumImage
<1>6. Sum(z, States) = Sum(z, K)
  BY <1>2, <1>3, SumExtend
<1> QED BY <1>1, <1>5, <1>6

LEMMA SumOut ==
  ASSUME NEW n \in States, NEW v, NEW z, AllNat(z, States),
         \A k \in States : z[k] = IF <<n, k>> \in LiveArcs THEN v[<<n, k>>] ELSE 0
  PROVE  Sum(v, Out(n)) = Sum(z, States)
<1> DEFINE K == {k \in States : <<n, k>> \in LiveArcs}
           h == [k \in K |-> <<n, k>>]
<1>1. Out(n) = {h[k] : k \in K}
  <2>1. \A a \in Out(n) : a[2] \in K /\ a = <<n, a[2]>>
    <3> TAKE a \in Out(n)
    <3>1. a \in LiveArcs /\ a \in Arcs /\ a[1] = n
      BY DEF Out, LiveArcs
    <3>2. a = <<n, a[2]>> /\ a[2] \in States
      BY <3>1, ArcStates
    <3>3. <<n, a[2]>> \in LiveArcs
      BY <3>1, <3>2
    <3> QED BY <3>2, <3>3
  <2>2. \A k \in K : h[k] = <<n, k>> /\ h[k] \in Out(n)
    BY DEF Out
  <2>3. \A a \in Out(n) : a[2] \in K /\ a = h[a[2]]
    BY <2>1, <2>2
  <2> HIDE DEF K, h
  <2> QED BY <2>2, <2>3
<1>2. IsFiniteSet(K) /\ K \in SUBSET States /\ IsFiniteSet(States)
  BY StatesFinite, FS_Subset
<1>3. AllNat(z, K) /\ (\A k \in K : z[k] = v[h[k]]) /\ \A k \in States \ K : z[k] = 0
  BY DEF AllNat
<1>4. \A j, k \in K : h[j] = h[k] => j = k
  OBVIOUS
<1> HIDE DEF K, h
<1>5. Sum(v, {h[k] : k \in K}) = Sum(z, K)
  BY <1>2, <1>3, <1>4, SumImage
<1>6. Sum(z, States) = Sum(z, K)
  BY <1>2, <1>3, SumExtend
<1> QED BY <1>1, <1>5, <1>6

-----------------------------------------------------------------------------
(* A path to a state and one onwards from it make a path, and every path    *)
(* through a state is made so.                                              *)

LEMMA ProductUnion ==
  ASSUME NEW S, IsFiniteSet(S), NEW T, IsFiniteSet(T), S \cap T = {},
         NEW v, AllNat(v, S), AllNat(v, T)
  PROVE  Fold("times", v, S \cup T) = Fold("times", v, S) * Fold("times", v, T)
<1> DEFINE P(s) == Fold("times", v, s)
           Bad == {t \in SUBSET S : P(t \cup T) # P(t) * P(T)}
<1>1. Bad \in SUBSET SUBSET S
  OBVIOUS
<1>2. SUFFICES ASSUME Bad # {} PROVE FALSE
  BY S \in SUBSET S
<1>3. PICK t \in Bad : \A u \in Bad : u \subseteq t => u = t
  <2> HIDE DEF Bad
  <2> QED BY <1>1, <1>2, Smallest
<1>4. P(T) \in Nat
  BY FoldType
<1>5. t # {}
  <2> SUFFICES ASSUME t = {} PROVE P(t \cup T) = P(t) * P(T)
    OBVIOUS
  <2>1. t \cup T = T /\ P(t) = 1
    BY FoldEmpty DEF Base
  <2> HIDE DEF Bad, P
  <2> QED BY <2>1, <1>4
<1> DEFINE p == Pick(t)
           r == t \ {Pick(t)}
<1>6. p \in t /\ t \in SUBSET S /\ r \in SUBSET S /\ r \subseteq t /\ r # t /\ IsFiniteSet(t) /\ IsFiniteSet(r)
  BY <1>5, PickIn, FS_Subset
<1>7. AllNat(v, t) /\ AllNat(v, r) /\ AllNat(v, t \cup T) /\ v[p] \in Nat
  BY <1>6 DEF AllNat
<1>8. P(t) = v[p] * P(r) /\ P(r) \in Nat
  <2>1. P(t) = Op("times", v[p], P(r))
    BY <1>6, <1>7, FoldAny
  <2>2. P(r) \in Nat
    BY <1>6, <1>7, FoldType
  <2> QED BY <2>1, <2>2 DEF Op
<1>9. P(t \cup T) = v[p] * P(r \cup T)
  <2>1. IsFiniteSet(t \cup T) /\ p \in t \cup T /\ (t \cup T) \ {p} = r \cup T
    BY <1>6, FS_Union
  <2> HIDE DEF p, r, Bad
  <2>2. P(t \cup T) = Op("times", v[p], P((t \cup T) \ {p}))
    BY <1>7, <2>1, FoldAny
  <2> QED BY <2>1, <2>2 DEF Op
<1>10. P(r \cup T) = P(r) * P(T)
  BY <1>3, <1>6
<1>11. P(t \cup T) # P(t) * P(T)
  OBVIOUS
<1>12. \A x, y, z \in Nat : x * (y * z) = (x * y) * z
  BY NatTimes
<1> HIDE DEF p, r, Bad, P
<1> QED BY <1>4, <1>7, <1>8, <1>9, <1>10, <1>11, <1>12

\* A path to k, and one onwards from k.
LEMMA JoinStates ==
  ASSUME NEW n \in States, NEW k \in States, NEW q \in Paths(n, k), NEW s \in PathsFrom(k)
  PROVE  /\ q \in PathsFrom(n) /\ Max(q) = k /\ k \in q /\ (\A j \in q : n <= j /\ j <= k)
         /\ k \in s /\ (\A j \in s : k <= j) /\ q \cap s = {k}
         /\ q \cup s \in PathsFrom(n) /\ Max(q \cup s) = Max(s)
         /\ q \in SUBSET States /\ s \in SUBSET States /\ IsFiniteSet(q) /\ IsFiniteSet(s)
<1>1. q \in PathsFrom(n) /\ Max(q) = k
  BY PathsIs
<1>2. q \in SUBSET States /\ n \in q /\ k \in q /\ \A j \in q : n <= j /\ j <= k
  BY <1>1, PathStates
<1>3. s \in SUBSET States /\ k \in s /\ Max(s) \in s /\ \A j \in s : k <= j /\ j <= Max(s)
  BY PathStates
<1>4. q \in SUBSET Nat /\ s \in SUBSET Nat
  BY <1>2, <1>3, StatesFinite
<1>5. \A j \in q : j \in s => j = k
  <2> SUFFICES ASSUME NEW j \in q, j \in s PROVE j = k
    OBVIOUS
  <2>1. j <= k /\ k <= j /\ j \in Nat /\ k \in Nat
    BY <1>2, <1>3, <1>4
  <2> QED BY <2>1
<1>6. \A j \in q \cup s : n <= j
  <2> SUFFICES ASSUME NEW j \in s PROVE n <= j
    BY <1>2
  <2>1. n <= k /\ k <= j /\ n \in Nat /\ k \in Nat /\ j \in Nat
    BY <1>2, <1>3, <1>4
  <2> QED BY <2>1
<1>7. q \cup s \in PathsFrom(n)
  <2>1. q \cup s \in SUBSET States /\ n \in q \cup s
    BY <1>2, <1>3
  <2> QED BY <1>6, <2>1, PathsFromIs
<1>8. \A j \in q \cup s : j <= Max(s)
  <2> SUFFICES ASSUME NEW j \in q PROVE j <= Max(s)
    BY <1>3
  <2>1. j <= k /\ k <= Max(s) /\ Max(s) \in Nat /\ k \in Nat /\ j \in Nat
    BY <1>2, <1>3, <1>4
  <2> QED BY <2>1
<1>9. Max(q \cup s) = Max(s)
  <2>1. q \cup s \in SUBSET Nat /\ Max(s) \in q \cup s
    BY <1>3, <1>4
  <2> QED BY <1>8, <2>1, MaxIs
<1> QED BY <1>1, <1>2, <1>3, <1>5, <1>7, <1>9, StatesFinite

Joined(n, k, q, s) ==
  /\ k \in q /\ k \in s /\ q \in PathsFrom(n) /\ q \in SUBSET States /\ s \in SUBSET States
  /\ q \cup s \in PathsFrom(n) /\ Max(q \cup s) = Max(s)

LEMMA JoinPaths ==
  ASSUME NEW n \in States, NEW k \in States, NEW q \in Paths(n, k), NEW s \in PathsFrom(k)
  PROVE  Joined(n, k, q, s)
<1>1. k \in q /\ k \in s
  BY JoinStates
<1>2. q \in PathsFrom(n) /\ q \in SUBSET States /\ s \in SUBSET States
  BY JoinStates
<1>3. q \cup s \in PathsFrom(n) /\ Max(q \cup s) = Max(s)
  BY JoinStates
<1> QED BY <1>1, <1>2, <1>3 DEF Joined

LEMMA JoinArcs ==
  ASSUME NEW n \in States, NEW k \in States, NEW q \in Paths(n, k), NEW s \in PathsFrom(k)
  PROVE  ArcsOf(q \cup s) = ArcsOf(q) \cup ArcsOf(s) /\ ArcsOf(q) \cap ArcsOf(s) = {}
<1> DEFINE p == q \cup s
<1>1. /\ Max(q) = k /\ k \in q /\ (\A j \in q : n <= j /\ j <= k)
      /\ k \in s /\ (\A j \in s : k <= j) /\ q \cap s = {k} /\ Max(p) = Max(s)
      /\ q \in SUBSET Nat /\ s \in SUBSET Nat
  <2>1. /\ Max(q) = k /\ k \in q /\ (\A j \in q : n <= j /\ j <= k)
        /\ k \in s /\ (\A j \in s : k <= j) /\ q \cap s = {k} /\ Max(p) = Max(s)
        /\ q \in SUBSET States /\ s \in SUBSET States
    BY JoinStates
  <2> QED BY <2>1, StatesFinite
<1>2. Max(s) \in s /\ s \in SUBSET States /\ q \in SUBSET States
  BY PathStates, JoinStates
<1>3. ASSUME NEW j \in q \ {k} PROVE After(p, j) = After(q, j)
  <2> DEFINE A == {i \in q : i > j}
             B == {i \in p : i > j}
  <2>1. j \in Nat /\ k \in Nat /\ j < k
    <3>1. j <= k /\ j # k
      BY <1>1
    <3> QED BY <1>1, <3>1
  <2>2. k \in A /\ A \in SUBSET States /\ A # {}
    BY <1>1, <1>2, <2>1
  <2>3. Min(A) \in A /\ \A i \in A : Min(A) <= i
    <3> HIDE DEF A
    <3> QED BY <2>2, MinIn
  <2>4. ASSUME NEW i \in B PROVE Min(A) <= i
    <3>1. CASE i \in q
      <4>1. i \in A
        BY <3>1
      <4> HIDE DEF A
      <4> QED BY <2>3, <4>1
    <3>2. CASE i \in s
      <4>1. k <= i /\ i \in Nat
        BY <1>1, <3>2
      <4>2. Min(A) <= k /\ Min(A) \in Nat
        <5> HIDE DEF A
        <5> QED BY <2>2, <2>3, StatesFinite
      <4> HIDE DEF A
      <4> QED BY <2>1, <4>1, <4>2
    <3> QED BY <3>1, <3>2
  <2>5. Min(A) \in B /\ B \in SUBSET Nat
    <3>1. A \subseteq B
      OBVIOUS
    <3>2. B \in SUBSET Nat
      BY <1>1
    <3> HIDE DEF A, B
    <3> QED BY <2>3, <3>1, <3>2
  <2>6. Min(B) = Min(A)
    <3> HIDE DEF A, B
    <3> QED BY <2>4, <2>5, MinIs
  <2> QED BY <2>6 DEF After
<1>4. ASSUME NEW j \in s PROVE After(p, j) = After(s, j)
  <2>1. \A i \in q : ~ (i > j)
    <3> SUFFICES ASSUME NEW i \in q, i > j PROVE FALSE
      OBVIOUS
    <3>1. i <= k /\ k <= j /\ i \in Nat /\ j \in Nat /\ k \in Nat
      BY <1>1
    <3> QED BY <3>1
  <2>2. {i \in p : i > j} = {i \in s : i > j}
    BY <2>1
  <2> HIDE DEF p
  <2> QED BY <2>2 DEF After
<1>5. p \ {Max(p)} = (q \ {k}) \cup (s \ {Max(s)})
  <2>1. \A j \in q \ {k} : j # Max(s)
    BY <1>1, <1>2
  <2>2. \A j \in q : j \in (q \ {k}) \/ j \in s
    BY <1>1
  <2>3. p \ {Max(p)} = p \ {Max(s)}
    BY <1>1
  <2> QED BY <2>1, <2>2, <2>3
<1>6. ArcsOf(p) = ArcsOf(q) \cup ArcsOf(s)
  <2>1. ArcsOf(p) = {<<j, After(p, j)>> : j \in (q \ {k}) \cup (s \ {Max(s)})}
    <3> HIDE DEF p
    <3> QED BY <1>5 DEF ArcsOf
  <2>2. ArcsOf(q) = {<<j, After(q, j)>> : j \in q \ {k}}
    BY <1>1 DEF ArcsOf
  <2>3. ArcsOf(s) = {<<j, After(s, j)>> : j \in s \ {Max(s)}}
    BY DEF ArcsOf
  <2>4. \A j \in q \ {k} : After(p, j) = After(q, j)
    BY <1>3
  <2>5. \A j \in s \ {Max(s)} : After(p, j) = After(s, j)
    BY <1>4
  <2> HIDE DEF p
  <2> QED BY <2>1, <2>2, <2>3, <2>4, <2>5
<1>7. ArcsOf(q) \cap ArcsOf(s) = {}
  <2> SUFFICES ASSUME NEW a \in ArcsOf(q), a \in ArcsOf(s) PROVE FALSE
    OBVIOUS
  <2>1. a[1] \in q \ {k} /\ a[1] \in s
    BY <1>1 DEF ArcsOf
  <2> QED BY <1>1, <2>1
<1> QED BY <1>6, <1>7

\* A path, an arc and a path onwards.
LEMMA JoinWeights ==
  ASSUME Weighted, NEW n \in States, NEW k \in States, NEW m \in Later(k),
         NEW q \in Paths(n, k), NEW r \in PathsFrom(m)
  PROVE  /\ q \cup r \in PathsFrom(n) /\ Max(q \cup r) = Max(r) /\ k \notin r /\ <<k, m>> \in Arcs
         /\ PathWeight(q \cup r) = PathWeight(q) * (weight[<<k, m>>] * PathWeight(r))
         /\ Accepted(q \cup r) = PathWeight(q) * (weight[<<k, m>>] * Accepted(r))
         /\ <<k, m>> \in ArcsOf(q \cup r)
<1> DEFINE s == {k} \cup r
           w == weight[<<k, m>>]
<1>1. m \in States /\ k \in States
  BY DEF Later
<1>2. s \in PathsFrom(k)
  BY PathsFromAre
<1>3. /\ Max(s) = Max(r) /\ <<k, m>> \in ArcsOf(s) /\ <<k, m>> \in Arcs /\ k \notin r
  BY PathLonger
<1>4. PathWeight(s) = w * PathWeight(r)
  BY PathWeightLonger
<1>5. Joined(n, k, q, s)
  BY <1>2, JoinPaths
<1>6. q \cup r = q \cup s
  BY <1>5 DEF Joined
<1> HIDE DEF s
<1>7. /\ q \cup s \in PathsFrom(n) /\ Max(q \cup s) = Max(s) /\ q \in PathsFrom(n)
      /\ q \in SUBSET States /\ s \in SUBSET States
  BY <1>5 DEF Joined
<1>8. ArcsOf(q \cup s) = ArcsOf(q) \cup ArcsOf(s) /\ ArcsOf(q) \cap ArcsOf(s) = {}
  BY <1>2, JoinArcs
<1>9. /\ IsFiniteSet(ArcsOf(q)) /\ IsFiniteSet(ArcsOf(s))
      /\ AllNat(weight, ArcsOf(q)) /\ AllNat(weight, ArcsOf(s))
  <2>1. ArcsOf(q) \in SUBSET Arcs /\ ArcsOf(s) \in SUBSET Arcs /\ IsFiniteSet(ArcsOf(q)) /\ IsFiniteSet(ArcsOf(s))
    BY <1>7, PathArcs
  <2> QED BY <2>1 DEF AllNat, Weighted
<1>10. PathWeight(q \cup s) = PathWeight(q) * PathWeight(s)
  BY <1>8, <1>9, ProductUnion, PathWeightIsFold
<1>11. PathWeight(q \cup r) = PathWeight(q) * (w * PathWeight(r))
  BY <1>4, <1>6, <1>10
<1>12. PathWeight(q) \in Nat /\ PathWeight(r) \in Nat /\ w \in Nat /\ final[Max(r)] \in Nat
  <2>1. Max(r) \in States
    BY <1>1, PathStates
  <2> QED BY <1>1, <1>3, <1>7, <2>1, PathWeightType DEF Weighted
<1>13. \A x, y, z, t \in Nat : (x * (y * z)) * t = x * (y * (z * t))
  <2> TAKE x, y, z, t \in Nat
  <2>1. y * z \in Nat /\ z * t \in Nat /\ y * (z * t) \in Nat
    BY NatTimes
  <2>2. (x * (y * z)) * t = x * ((y * z) * t)
    BY <2>1, NatTimes
  <2>3. (y * z) * t = y * (z * t)
    BY NatTimes
  <2> QED BY <2>2, <2>3
<1> HIDE DEF w
<1>14. Accepted(q \cup r) = PathWeight(q) * (w * Accepted(r))
  <2>1. Max(q \cup r) = Max(r)
    BY <1>3, <1>6, <1>7
  <2>2. Accepted(q \cup r) = (PathWeight(q) * (w * PathWeight(r))) * final[Max(r)]
    BY <1>11, <2>1 DEF Accepted
  <2> QED BY <1>12, <1>13, <2>2 DEF Accepted
<1>15. q \cup r \in PathsFrom(n) /\ Max(q \cup r) = Max(r) /\ <<k, m>> \in ArcsOf(q \cup r)
  BY <1>3, <1>6, <1>7, <1>8
<1> QED BY <1>3, <1>11, <1>14, <1>15 DEF w

LEMMA LengthType ==
  ASSUME NEW p \in SUBSET States, NEW l
  PROVE  LengthOf(p, l) \in Nat /\ IsFiniteSet(ArcsOf(p) \cap IF l = LENGTH_X THEN IArcs ELSE OArcs)
<1>1. IsFiniteSet(ArcsOf(p))
  BY PathArcs
<1>2. IsFiniteSet(ArcsOf(p) \cap IF l = LENGTH_X THEN IArcs ELSE OArcs)
  BY <1>1, FS_Subset
<1> QED BY <1>2, FS_CardinalityType DEF LengthOf

LEMMA JoinLengths ==
  ASSUME NEW n \in States, NEW k \in States, NEW m \in Later(k),
         NEW q \in Paths(n, k), NEW r \in PathsFrom(m), NEW l
  PROVE  LengthOf(q \cup r, l) = LengthOf(q, l) + (Long(<<k, m>>, l) + LengthOf(r, l))
<1> DEFINE s == {k} \cup r
           X == IF l = LENGTH_X THEN IArcs ELSE OArcs
           a == <<k, m>>
<1>1. m \in States /\ k \in States
  BY DEF Later
<1>2. s \in PathsFrom(k)
  BY PathsFromAre
<1>3. ArcsOf(s) = {a} \cup ArcsOf(r) /\ a \notin ArcsOf(r)
  BY PathLonger
<1>4. k \in q /\ s \in SUBSET States /\ q \in SUBSET States
  <2>1. Joined(n, k, q, s)
    BY <1>2, JoinPaths
  <2> QED BY <2>1 DEF Joined
<1>5. q \cup r = q \cup s /\ r \in SUBSET States
  BY <1>4
<1>6. ArcsOf(q \cup s) = ArcsOf(q) \cup ArcsOf(s) /\ ArcsOf(q) \cap ArcsOf(s) = {}
  BY <1>2, JoinArcs
<1> DEFINE A == ArcsOf(q) \cap X
           B == ArcsOf(r) \cap X
           C == {a} \cap X
<1>7. IsFiniteSet(A) /\ IsFiniteSet(B) /\ LengthOf(q, l) = Cardinality(A) /\ LengthOf(r, l) = Cardinality(B)
  BY <1>4, <1>5, LengthType DEF LengthOf
<1>8. LengthOf(q \cup r, l) = Cardinality(A \cup (C \cup B))
  <2>1. ArcsOf(q \cup r) = ArcsOf(q) \cup ({a} \cup ArcsOf(r))
    BY <1>3, <1>5, <1>6
  <2>2. ArcsOf(q \cup r) \cap X = A \cup (C \cup B)
    <3> HIDE DEF X, a
    <3> QED BY <2>1
  <2> QED BY <2>2 DEF LengthOf
<1>9. A \cap (C \cup B) = {} /\ C \cap B = {}
  <2> HIDE DEF X, a
  <2> QED BY <1>3, <1>6
<1>10. IsFiniteSet(C) /\ Cardinality(C) = Long(a, l)
  <2>1. CASE a \in X
    <3>1. C = {a} /\ Long(a, l) = 1
      <4>1. C = {a}
        <5> HIDE DEF X, a
        <5> QED BY <2>1
      <4> QED BY <2>1, <4>1 DEF Long
    <3> HIDE DEF C, a, X
    <3> QED BY <3>1, FS_Singleton
  <2>2. CASE a \notin X
    <3>1. C = {} /\ Long(a, l) = 0
      <4>1. C = {}
        <5> HIDE DEF X, a
        <5> QED BY <2>2
      <4> QED BY <2>2, <4>1 DEF Long
    <3> HIDE DEF C, a, X
    <3> QED BY <3>1, FS_EmptySet
  <2> QED BY <2>1, <2>2
<1> HIDE DEF A, B, C, X, a
<1>11. /\ Cardinality(C \cup B) = Cardinality(C) + Cardinality(B) /\ IsFiniteSet(C \cup B)
       /\ Cardinality(A) \in Nat /\ Cardinality(B) \in Nat /\ Cardinality(C) \in Nat
  <2>1. Cardinality(C \cup B) = Cardinality(C) + Cardinality(B) - Cardinality(C \cap B) /\ IsFiniteSet(C \cup B)
    BY <1>7, <1>10, FS_Union
  <2>2. Cardinality(C \cap B) = 0 /\ Cardinality(A) \in Nat /\ Cardinality(B) \in Nat /\ Cardinality(C) \in Nat
    BY <1>7, <1>9, <1>10, FS_EmptySet, FS_CardinalityType
  <2> QED BY <2>1, <2>2
<1>12. Cardinality(A \cup (C \cup B)) = Cardinality(A) + Cardinality(C \cup B)
  <2>1. Cardinality(A \cup (C \cup B))
          = Cardinality(A) + Cardinality(C \cup B) - Cardinality(A \cap (C \cup B))
    BY <1>7, <1>11, FS_Union
  <2>2. Cardinality(A \cap (C \cup B)) = 0 /\ Cardinality(C \cup B) \in Nat
    BY <1>9, <1>11, FS_EmptySet
  <2> QED BY <1>11, <2>1, <2>2
<1> QED BY <1>7, <1>8, <1>10, <1>11, <1>12 DEF a

-----------------------------------------------------------------------------
(* Sums over the paths made of two, and their lengths.                      *)

\* The sums over the unions of a set in S with one in T.
Unite(S, T) == {q \cup r : q \in S, r \in T}
Apart(S, T) == \E A : (\A q \in S : q \subseteq A) /\ \A r \in T : r \cap A = {}
Terms(v, f, g, h, j, S, T) == \A q \in S, r \in T : v[q \cup r] = f[q] * g[r] + h[q] * j[r]

LEMMA SumPairs ==
  ASSUME NEW S \in SUBSET SUBSET States, NEW T \in SUBSET SUBSET States, Apart(S, T),
         NEW f, NEW g, NEW h, NEW j, AllNat(f, S), AllNat(g, T), AllNat(h, S), AllNat(j, T),
         NEW v, Terms(v, f, g, h, j, S, T)
  PROVE  Sum(v, Unite(S, T)) = Sum(f, S) * Sum(g, T) + Sum(h, S) * Sum(j, T)
<1> DEFINE F == [q \in S |-> {q \cup r : r \in T}]
           G == Sum(g, T)
           J == Sum(j, T)
           w == [q \in S |-> G * f[q] + J * h[q]]
<1>0. IsFiniteSet(S) /\ IsFiniteSet(T)
  BY StatesFinite
<1>1. PICK A : (\A q \in S : q \subseteq A) /\ \A r \in T : r \cap A = {}
  BY DEF Apart
<1>2. G \in Nat /\ J \in Nat /\ Sum(f, S) \in Nat /\ Sum(h, S) \in Nat
  BY <1>0, SumType
<1>3. ASSUME NEW q \in S
      PROVE  IsFiniteSet(F[q]) /\ AllNat(v, F[q]) /\ w[q] = Sum(v, F[q])
  <2> DEFINE to == [r \in T |-> q \cup r]
             x == f[q]
             y == h[q]
             z1 == [r \in T |-> x * g[r]]
             z2 == [r \in T |-> y * j[r]]
             z == [r \in T |-> z1[r] + z2[r]]
  <2>1. x \in Nat /\ y \in Nat
    BY DEF AllNat
  <2>2. \A r \in T : g[r] \in Nat /\ j[r] \in Nat
    BY DEF AllNat
  <2>3. ASSUME NEW r \in T PROVE z1[r] \in Nat /\ z2[r] \in Nat /\ z[r] \in Nat
    <3>1. z1[r] = x * g[r] /\ z2[r] = y * j[r] /\ z[r] = z1[r] + z2[r]
      OBVIOUS
    <3>2. x * g[r] \in Nat /\ y * j[r] \in Nat
      <4> HIDE DEF x, y
      <4> QED BY <2>1, <2>2, NatTimes
    <3> HIDE DEF x, y, z1, z2, z
    <3> QED BY <3>1, <3>2
  <2>4. \A r \in T : z[r] = v[to[r]]
    BY DEF Terms
  <2>5. \A r, s \in T : to[r] = to[s] => r = s
    <3> SUFFICES ASSUME NEW r \in T, NEW s \in T, q \cup r = q \cup s PROVE r = s
      OBVIOUS
    <3>1. q \subseteq A /\ r \cap A = {} /\ s \cap A = {}
      BY <1>1
    <3> QED BY <3>1
  <2>6. F[q] = {to[r] : r \in T}
    <3>1. \A r \in T : to[r] = q \cup r
      OBVIOUS
    <3>2. F[q] = {q \cup r : r \in T}
      OBVIOUS
    <3>3. \A p : p \in F[q] <=> \E r \in T : p = to[r]
      <4> HIDE DEF to, F
      <4> QED BY <3>1, <3>2
    <3>4. \A p : p \in {to[r] : r \in T} <=> \E r \in T : p = to[r]
      <4> HIDE DEF to, F
      <4> QED BY Zenon
    <3> HIDE DEF to, F
    <3> QED BY <3>3, <3>4
  <2>7. AllNat(z, T) /\ AllNat(z1, T) /\ AllNat(z2, T)
    BY <2>3 DEF AllNat
  <2>8. Sum(v, {to[r] : r \in T}) = Sum(z, T)
    <3> HIDE DEF to, z, z1, z2
    <3> QED BY <1>0, <2>4, <2>5, <2>7, SumImage
  <2>9. Sum(z, T) = Sum(z1, T) + Sum(z2, T)
    <3>1. \A r \in T : z[r] = z1[r] + z2[r]
      OBVIOUS
    <3> HIDE DEF z, z1, z2
    <3> QED BY <1>0, <2>7, <3>1, SumAdd
  <2>10. Sum(z1, T) = x * G
    <3>1. \A r \in T : z1[r] = x * g[r]
      OBVIOUS
    <3> HIDE DEF z1, x
    <3> QED BY <1>0, <2>1, <3>1, SumScale
  <2>11. Sum(z2, T) = y * J
    <3>1. \A r \in T : z2[r] = y * j[r]
      OBVIOUS
    <3> HIDE DEF z2, y
    <3> QED BY <1>0, <2>1, <3>1, SumScale
  <2>12. w[q] = G * x + J * y
    OBVIOUS
  <2>13. x * G = G * x /\ y * J = J * y
    <3> HIDE DEF x, y, G, J
    <3> QED BY <1>2, <2>1, NatTimes
  <2>14. IsFiniteSet({to[r] : r \in T})
    <3>1. {to[r] : r \in T} \in SUBSET SUBSET States
      OBVIOUS
    <3> HIDE DEF to
    <3> QED BY <3>1, StatesFinite
  <2>15. AllNat(v, {to[r] : r \in T})
    <3> HIDE DEF to, z
    <3> QED BY <2>4, <2>7 DEF AllNat
  <2> HIDE DEF to, z, z1, z2, x, y, F, w, G, J
  <2> QED BY <2>6, <2>8, <2>9, <2>10, <2>11, <2>12, <2>13, <2>14, <2>15
<1>4. ASSUME NEW q \in S, NEW s \in S, q # s PROVE F[q] \cap F[s] = {}
  <2> SUFFICES ASSUME NEW r \in T, NEW t \in T, q \cup r = s \cup t PROVE FALSE
    OBVIOUS
  <2>1. q \subseteq A /\ s \subseteq A /\ r \cap A = {} /\ t \cap A = {}
    BY <1>1
  <2>2. q = s
    BY <2>1
  <2> QED BY <1>4, <2>2
<1>5. Unite(S, T) = UNION {F[q] : q \in S}
  <2>1. \A p : p \in Unite(S, T) <=> \E q \in S, r \in T : p = q \cup r
    BY DEF Unite
  <2>2. \A q \in S : \A p : p \in F[q] <=> \E r \in T : p = q \cup r
    OBVIOUS
  <2>3. \A p : p \in UNION {F[q] : q \in S} <=> \E q \in S : p \in F[q]
    <3> HIDE DEF F
    <3> QED BY ONLY TRUE
  <2> HIDE DEF F
  <2> QED BY ONLY <2>1, <2>2, <2>3
<1>6. Sum(v, UNION {F[q] : q \in S}) = Sum(w, S)
  <2> HIDE DEF F, w
  <2> QED BY <1>0, <1>3, <1>4, SumPartition
<1>7. Sum(w, S) = G * Sum(f, S) + J * Sum(h, S)
  <2> DEFINE w1 == [q \in S |-> G * f[q]]
             w2 == [q \in S |-> J * h[q]]
  <2>1. (\A q \in S : w1[q] = G * f[q]) /\ (\A q \in S : w2[q] = J * h[q]) /\ \A q \in S : w[q] = w1[q] + w2[q]
    OBVIOUS
  <2>2. AllNat(w1, S) /\ AllNat(w2, S)
    <3> SUFFICES ASSUME NEW q \in S PROVE w1[q] \in Nat /\ w2[q] \in Nat
      BY DEF AllNat
    <3>1. f[q] \in Nat /\ h[q] \in Nat
      BY DEF AllNat
    <3>2. w1[q] = G * f[q] /\ w2[q] = J * h[q]
      BY <2>1
    <3> HIDE DEF w1, w2, w, G, J
    <3> QED BY <1>2, <3>1, <3>2, NatTimes
  <2> HIDE DEF w1, w2, w, G, J
  <2>3. Sum(w1, S) = G * Sum(f, S) /\ Sum(w2, S) = J * Sum(h, S)
    BY <1>0, <1>2, <2>1, SumScale
  <2>4. Sum(w, S) = Sum(w1, S) + Sum(w2, S)
    BY <1>0, <2>1, <2>2, SumAdd
  <2> QED BY <2>3, <2>4
<1>8. G * Sum(f, S) = Sum(f, S) * G /\ J * Sum(h, S) = Sum(h, S) * J
  <2> HIDE DEF G, J
  <2> QED BY <1>2, NatTimes
<1> HIDE DEF F, w
<1> QED BY <1>5, <1>6, <1>7, <1>8

\* The terms of the sums over paths, of the paths to a state and of those from one.
Walking == [p \in SUBSET States |-> PathWeight(p)]
WalkLength(l) == [p \in SUBSET States |-> PathWeight(p) * LengthOf(p, l)]
AcceptLength(l) == [p \in SUBSET States |-> Accepted(p) * LengthOf(p, l)]
LengthTo(n, l) == Sum(WalkLength(l), Paths(0, n))
LengthFrom(n, l) == Sum(AcceptLength(l), PathsFrom(n))

LEMMA WalkTypes ==
  ASSUME Weighted, NEW n \in States, NEW p \in PathsFrom(n), NEW l
  PROVE  /\ p \in SUBSET States /\ PathWeight(p) \in Nat /\ Accepted(p) \in Nat /\ LengthOf(p, l) \in Nat
         /\ Walking[p] = PathWeight(p) /\ Walking[p] \in Nat
         /\ Accepting[p] = Accepted(p) /\ Accepting[p] \in Nat
         /\ WalkLength(l)[p] = PathWeight(p) * LengthOf(p, l) /\ WalkLength(l)[p] \in Nat
         /\ AcceptLength(l)[p] = Accepted(p) * LengthOf(p, l) /\ AcceptLength(l)[p] \in Nat
<1>1. p \in SUBSET States
  BY PathStates
<1>2. PathWeight(p) \in Nat /\ Accepted(p) \in Nat /\ LengthOf(p, l) \in Nat
  BY <1>1, PathWeightType, LengthType
<1>3. /\ Walking[p] = PathWeight(p) /\ Accepting[p] = Accepted(p)
      /\ WalkLength(l)[p] = PathWeight(p) * LengthOf(p, l)
      /\ AcceptLength(l)[p] = Accepted(p) * LengthOf(p, l)
  BY <1>1 DEF Walking, Accepting, WalkLength, AcceptLength
<1>4. PathWeight(p) * LengthOf(p, l) \in Nat /\ Accepted(p) * LengthOf(p, l) \in Nat
  BY <1>2, NatTimes
<1> QED BY <1>1, <1>2, <1>3, <1>4

LEMMA WalkSets ==
  ASSUME Weighted, NEW n \in States, NEW m \in States, NEW l
  PROVE  /\ PathsFrom(n) \in SUBSET SUBSET States /\ IsFiniteSet(PathsFrom(n))
         /\ Paths(n, m) \in SUBSET SUBSET States /\ IsFiniteSet(Paths(n, m))
         /\ AllNat(Walking, Paths(n, m)) /\ AllNat(WalkLength(l), Paths(n, m))
         /\ AllNat(Accepting, PathsFrom(n)) /\ AllNat(AcceptLength(l), PathsFrom(n))
         /\ Sum(Walking, Paths(n, m)) = PathSum(n, m) /\ Sum(Accepting, PathsFrom(n)) = SumFrom(n)
<1>1. PathsFrom(n) \in SUBSET SUBSET States /\ IsFiniteSet(PathsFrom(n))
  BY PathsFinite
<1>2. \A p \in Paths(n, m) : p \in PathsFrom(n)
  BY PathsIs
<1>3. Paths(n, m) \in SUBSET SUBSET States /\ IsFiniteSet(Paths(n, m))
  BY <1>1, <1>2, StatesFinite
<1>4. /\ \A p \in PathsFrom(n) : Walking[p] = PathWeight(p) /\ Walking[p] \in Nat
      /\ \A p \in PathsFrom(n) : WalkLength(l)[p] \in Nat
      /\ \A p \in PathsFrom(n) : Accepting[p] \in Nat
      /\ \A p \in PathsFrom(n) : AcceptLength(l)[p] \in Nat
  BY WalkTypes
<1>5. /\ AllNat(Walking, Paths(n, m)) /\ AllNat(WalkLength(l), Paths(n, m))
      /\ AllNat(Accepting, PathsFrom(n)) /\ AllNat(AcceptLength(l), PathsFrom(n))
  BY <1>2, <1>4 DEF AllNat
<1>6. Sum(Walking, Paths(n, m)) = PathSum(n, m)
  <2> DEFINE v == [p \in Paths(n, m) |-> PathWeight(p)]
  <2>1. \A p \in Paths(n, m) : Walking[p] = v[p]
    BY <1>2, <1>4
  <2>2. PathSum(n, m) = Sum(v, Paths(n, m))
    BY PathSumIsFold
  <2> HIDE DEF v
  <2> QED BY <1>3, <2>1, <2>2, SumSame
<1>7. Sum(Accepting, PathsFrom(n)) = SumFrom(n)
  BY SumFromIs
<1> QED BY <1>1, <1>3, <1>5, <1>6, <1>7

LEMMA LengthSplit ==
  \A x, w, y, a, b, c \in Nat :
    (x * (w * y)) * (a + (b + c)) = (x * a) * (w * y) + x * ((w * b) * y + w * (y * c))
  OBVIOUS

\* The paths through an arc, as a path to it and one onwards.
LEMMA PathsApart ==
  ASSUME NEW n \in States, NEW k \in States, NEW m \in Later(k)
  PROVE  Apart(Paths(n, k), PathsFrom(m))
<1>1. m \in States /\ k < m /\ k \in Nat /\ m \in Nat
  BY StatesFinite DEF Later
<1>2. \A q \in Paths(n, k) : q \subseteq 0 .. k
  <2> SUFFICES ASSUME NEW q \in Paths(n, k), NEW i \in q PROVE i \in 0 .. k
    OBVIOUS
  <2>1. q \in PathsFrom(n) /\ Max(q) = k
    BY PathsIs
  <2>2. i <= k /\ i \in States
    BY <2>1, PathStates
  <2> QED BY <1>1, <2>2, StatesFinite
<1>3. \A r \in PathsFrom(m) : r \cap (0 .. k) = {}
  <2> SUFFICES ASSUME NEW r \in PathsFrom(m), NEW i \in r, i \in 0 .. k PROVE FALSE
    OBVIOUS
  <2>1. m <= i
    BY <1>1, PathStates
  <2> QED BY <1>1, <2>1
<1> QED BY <1>2, <1>3 DEF Apart

LEMMA PathsThroughAre ==
  ASSUME Weighted, NEW a \in Arcs
  PROVE  PathsThrough(a) = Unite(Paths(0, a[1]), PathsFrom(a[2]))
<1> DEFINE k == a[1]
           m == a[2]
<1>1. a = <<k, m>> /\ k \in States /\ m \in States /\ k \in Nat /\ m \in Nat /\ k < m /\ m \in Later(k) /\ 0 \in States
  BY ArcStates
<1>2. ASSUME NEW q \in Paths(0, k), NEW r \in PathsFrom(m)
      PROVE  q \cup r \in PathsThrough(a)
  <2> HIDE DEF k, m
  <2>1. q \cup r \in PathsFrom(0) /\ <<k, m>> \in ArcsOf(q \cup r)
    BY <1>1, JoinWeights
  <2> QED BY <1>1, <2>1 DEF PathsThrough
<1>3. ASSUME NEW p \in PathsThrough(a)
      PROVE  \E q \in Paths(0, k), r \in PathsFrom(m) : p = q \cup r
  <2> DEFINE q == {i \in p : i <= k}
             r == {i \in p : m <= i}
             B == {i \in p : i > k}
  <2>1. p \in PathsFrom(0) /\ a \in ArcsOf(p)
    BY DEF PathsThrough
  <2>2. p \in SUBSET States /\ 0 \in p
    BY <1>1, <2>1, PathStates
  <2>3. k \in p \ {Max(p)} /\ m = After(p, k)
    BY <2>1 DEF ArcsOf
  <2>4. m \in p
    BY <2>2, <2>3, AfterIn
  <2>5. \A i \in B : m <= i
    <3>1. B \in SUBSET States /\ m \in B
      BY <1>1, <2>2, <2>4
    <3>2. m = Min(B)
      BY <2>3 DEF After
    <3> HIDE DEF B
    <3> QED BY <3>1, <3>2, MinIn
  <2>6. p \in SUBSET Nat
    BY <2>2, StatesFinite
  <2>7. p = q \cup r
    <3> SUFFICES ASSUME NEW i \in p PROVE i <= k \/ m <= i
      OBVIOUS
    <3>1. i > k => i \in B
      OBVIOUS
    <3> HIDE DEF B, k, m
    <3> QED BY <1>1, <2>5, <2>6, <3>1
  <2>8. q \in Paths(0, k)
    <3>1. q \in SUBSET States /\ 0 \in q /\ \A i \in q : 0 <= i
      BY <1>1, <2>2, <2>6
    <3>2. Max(q) = k
      <4>1. k \in q /\ q \in SUBSET Nat /\ \A i \in q : i <= k
        BY <1>1, <2>3, <2>6
      <4> HIDE DEF q, k, m
      <4> QED BY <4>1, MaxIs
    <3> HIDE DEF q, k, m
    <3>3. q \in PathsFrom(0)
      BY <1>1, <3>1, PathsFromIs
    <3> QED BY <1>1, <3>2, <3>3, PathsIs
  <2>9. r \in PathsFrom(m)
    <3>1. r \in SUBSET States /\ m \in r /\ \A i \in r : m <= i
      BY <1>1, <2>2, <2>4
    <3> HIDE DEF r, k, m
    <3> QED BY <1>1, <3>1, PathsFromIs
  <2> HIDE DEF q, r, k, m
  <2> QED BY <2>7, <2>8, <2>9
<1>4. \A p : p \in Unite(Paths(0, k), PathsFrom(m)) <=> \E q \in Paths(0, k), r \in PathsFrom(m) : p = q \cup r
  BY DEF Unite
<1> HIDE DEF k, m
<1>5. PathsThrough(a) = Unite(Paths(0, k), PathsFrom(m))
  <2>1. \A q \in Paths(0, k), r \in PathsFrom(m) : q \cup r \in PathsThrough(a)
    BY <1>2
  <2>2. \A p \in PathsThrough(a) : p \in Unite(Paths(0, k), PathsFrom(m))
    BY <1>3, <1>4
  <2>3. \A p \in Unite(Paths(0, k), PathsFrom(m)) : p \in PathsThrough(a)
    BY <1>4, <2>1
  <2> QED BY ONLY <2>2, <2>3
<1> QED BY <1>5 DEF k, m

\* The sum of the lengths of the accepting paths through an arc.
Through(a, l) == [p \in SUBSET States |-> IF a \in ArcsOf(p) THEN AcceptLength(l)[p] ELSE 0]
LengthThrough(a, l) ==
  LengthTo(a[1], l) * (weight[a] * SumFrom(a[2]))
    + PathSum(0, a[1]) * ((weight[a] * Long(a, l)) * SumFrom(a[2]) + weight[a] * LengthFrom(a[2], l))

LEMMA WalkSums ==
  ASSUME Weighted, NEW n \in States, NEW l
  PROVE  /\ LengthTo(n, l) \in Nat /\ LengthFrom(n, l) \in Nat
         /\ PathSum(0, n) \in Nat /\ SumFrom(n) \in Nat
<1>1. 0 \in States
  BY StatesFinite
<1>2. /\ IsFiniteSet(Paths(0, n)) /\ AllNat(WalkLength(l), Paths(0, n))
      /\ IsFiniteSet(PathsFrom(n)) /\ AllNat(AcceptLength(l), PathsFrom(n))
  BY <1>1, WalkSets
<1>3. LengthTo(n, l) \in Nat /\ LengthFrom(n, l) \in Nat
  BY <1>2, SumType DEF LengthTo, LengthFrom
<1> QED BY <1>1, <1>3, PathSumIs, SumFromIs

LEMMA LongType == \A a, l : Long(a, l) \in Nat /\ Long(a, l) * 1 = Long(a, l)
  BY DEF Long

LEMMA SumOfLonger ==
  ASSUME NEW T, IsFiniteSet(T), NEW x, NEW y, AllNat(x, T), AllNat(y, T), NEW c \in Nat, NEW d \in Nat,
         NEW z, \A r \in T : z[r] = c * x[r] + d * y[r]
  PROVE  Sum(z, T) = c * Sum(x, T) + d * Sum(y, T) /\ AllNat(z, T)
<1> DEFINE z1 == [r \in T |-> c * x[r]]
           z2 == [r \in T |-> d * y[r]]
<1>1. (\A r \in T : z1[r] = c * x[r]) /\ (\A r \in T : z2[r] = d * y[r]) /\ \A r \in T : z[r] = z1[r] + z2[r]
  OBVIOUS
<1>2. AllNat(z1, T) /\ AllNat(z2, T)
  <2> SUFFICES ASSUME NEW r \in T PROVE z1[r] \in Nat /\ z2[r] \in Nat
    BY DEF AllNat
  <2>1. x[r] \in Nat /\ y[r] \in Nat
    BY DEF AllNat
  <2>2. z1[r] = c * x[r] /\ z2[r] = d * y[r]
    BY <1>1
  <2> HIDE DEF z1, z2
  <2> QED BY <2>1, <2>2, NatTimes
<1> HIDE DEF z1, z2
<1>3. Sum(z, T) = Sum(z1, T) + Sum(z2, T)
  BY <1>1, <1>2, SumAdd
<1>4. Sum(z1, T) = c * Sum(x, T) /\ Sum(z2, T) = d * Sum(y, T)
  BY <1>1, SumScale
<1>5. AllNat(z, T)
  BY <1>1, <1>2 DEF AllNat
<1> QED BY <1>3, <1>4, <1>5

LEMMA LengthThroughIs ==
  ASSUME Weighted, NEW a \in Arcs, NEW l
  PROVE  Sum(Through(a, l), PathsFrom(0)) = LengthThrough(a, l)
<1> DEFINE k == a[1]
           m == a[2]
           w == weight[a]
           b == Long(a, l)
           S == Paths(0, k)
           T == PathsFrom(m)
           g == [r \in T |-> w * Accepting[r]]
           j == [r \in T |-> (w * b) * Accepting[r] + w * AcceptLength(l)[r]]
           v == AcceptLength(l)
<1>1. a = <<k, m>> /\ k \in States /\ m \in States /\ m \in Later(k) /\ 0 \in States
  BY ArcStates
<1>2. w \in Nat /\ b \in Nat /\ w * b \in Nat
  <2>1. w \in Nat /\ b \in Nat
    BY LongType DEF Weighted
  <2> HIDE DEF w, b
  <2> QED BY <2>1, NatTimes
<1>3. /\ S \in SUBSET SUBSET States /\ T \in SUBSET SUBSET States /\ IsFiniteSet(S) /\ IsFiniteSet(T)
      /\ AllNat(WalkLength(l), S) /\ AllNat(Walking, S) /\ Sum(Walking, S) = PathSum(0, k)
      /\ AllNat(Accepting, T) /\ AllNat(v, T) /\ Sum(Accepting, T) = SumFrom(m)
  <2> HIDE DEF k, m
  <2> QED BY <1>1, WalkSets
<1>4. Apart(S, T)
  <2> HIDE DEF k, m
  <2> QED BY <1>1, PathsApart
<1>5. Terms(v, WalkLength(l), g, Walking, j, S, T)
  <2> SUFFICES ASSUME NEW q \in S, NEW r \in T
               PROVE  v[q \cup r] = WalkLength(l)[q] * g[r] + Walking[q] * j[r]
    BY DEF Terms
  <2>1. /\ q \cup r \in PathsFrom(0)
        /\ Accepted(q \cup r) = PathWeight(q) * (w * Accepted(r))
        /\ LengthOf(q \cup r, l) = LengthOf(q, l) + (b + LengthOf(r, l))
    <3> HIDE DEF k, m
    <3> QED BY <1>1, JoinWeights, JoinLengths
  <2>2. q \in PathsFrom(0)
    <3> HIDE DEF k, m
    <3> QED BY <1>1, PathsIs
  <2>3. /\ PathWeight(q) \in Nat /\ LengthOf(q, l) \in Nat /\ Walking[q] = PathWeight(q)
        /\ WalkLength(l)[q] = PathWeight(q) * LengthOf(q, l)
    BY <1>1, <2>2, WalkTypes
  <2>4. /\ Accepted(r) \in Nat /\ LengthOf(r, l) \in Nat /\ Accepting[r] = Accepted(r)
        /\ v[r] = Accepted(r) * LengthOf(r, l)
    <3> HIDE DEF k, m
    <3> QED BY <1>1, WalkTypes
  <2>5. v[q \cup r] = Accepted(q \cup r) * LengthOf(q \cup r, l)
    BY <1>1, <2>1, WalkTypes
  <2>6. g[r] = w * Accepting[r] /\ j[r] = (w * b) * Accepting[r] + w * v[r]
    OBVIOUS
  <2> HIDE DEF k, m, w, b, g, j, v, S, T
  <2>7. (PathWeight(q) * (w * Accepted(r))) * (LengthOf(q, l) + (b + LengthOf(r, l)))
          = (PathWeight(q) * LengthOf(q, l)) * (w * Accepted(r))
              + PathWeight(q) * ((w * b) * Accepted(r) + w * (Accepted(r) * LengthOf(r, l)))
    BY <1>2, <2>3, <2>4, LengthSplit
  <2> QED BY <2>1, <2>3, <2>4, <2>5, <2>6, <2>7
<1>6. Sum(g, T) = w * SumFrom(m) /\ AllNat(g, T)
  <2>1. \A r \in T : g[r] = w * Accepting[r]
    OBVIOUS
  <2>2. AllNat(g, T)
    <3> SUFFICES ASSUME NEW r \in T PROVE g[r] \in Nat
      BY DEF AllNat
    <3>1. Accepting[r] \in Nat
      BY <1>3 DEF AllNat
    <3> HIDE DEF g, w, T
    <3> QED BY <1>2, <2>1, <3>1, NatTimes
  <2>3. IsFiniteSet(T) /\ AllNat(Accepting, T) /\ w \in Nat /\ Sum(Accepting, T) = SumFrom(m)
    BY <1>2, <1>3
  <2> HIDE DEF g, w, T
  <2>4. Sum(g, T) = w * Sum(Accepting, T)
    BY ONLY <2>1, <2>3, SumScale
  <2> QED BY <2>2, <2>3, <2>4
<1>7. Sum(j, T) = (w * b) * SumFrom(m) + w * LengthFrom(m, l) /\ AllNat(j, T)
  <2>1. \A r \in T : j[r] = (w * b) * Accepting[r] + w * v[r]
    OBVIOUS
  <2>2. Sum(v, T) = LengthFrom(m, l)
    BY DEF LengthFrom
  <2> DEFINE c == w * b
  <2>3. \A r \in T : j[r] = c * Accepting[r] + w * v[r]
    BY <2>1
  <2>4. c \in Nat
    BY <1>2
  <2>5. Sum(j, T) = c * Sum(Accepting, T) + w * Sum(v, T) /\ AllNat(j, T)
    <3> HIDE DEF j, w, v, T, b, c
    <3> QED BY <1>2, <1>3, <2>3, <2>4, SumOfLonger
  <2> HIDE DEF j, w, v, T, b
  <2> QED BY <1>3, <2>2, <2>5
<1>8. Sum(v, Unite(S, T)) = Sum(WalkLength(l), S) * Sum(g, T) + Sum(Walking, S) * Sum(j, T)
  <2> HIDE DEF k, m, w, b, g, j, v, S, T
  <2> QED BY <1>3, <1>4, <1>5, <1>6, <1>7, SumPairs
<1>9. Sum(v, PathsThrough(a)) = LengthThrough(a, l)
  <2>1. PathsThrough(a) = Unite(S, T)
    BY PathsThroughAre
  <2>2. Sum(WalkLength(l), S) = LengthTo(k, l)
    BY DEF LengthTo
  <2>3. LengthThrough(a, l) = LengthTo(k, l) * (w * SumFrom(m)) + PathSum(0, k) * ((w * b) * SumFrom(m) + w * LengthFrom(m, l))
    BY DEF LengthThrough
  <2> HIDE DEF k, m, w, b, g, j, v, S, T
  <2> QED BY <1>3, <1>6, <1>7, <1>8, <2>1, <2>2, <2>3
<1>10. Sum(Through(a, l), PathsFrom(0)) = Sum(v, PathsThrough(a))
  <2> DEFINE P == PathsFrom(0)
             Q == PathsThrough(a)
             u == Through(a, l)
  <2>1. IsFiniteSet(P) /\ Q \in SUBSET P /\ IsFiniteSet(Q) /\ P \in SUBSET SUBSET States /\ AllNat(v, P)
    <3>1. IsFiniteSet(P) /\ P \in SUBSET SUBSET States /\ AllNat(v, P)
      BY <1>1, WalkSets
    <3>2. Q \in SUBSET P
      BY DEF PathsThrough
    <3> HIDE DEF P, Q, v
    <3> QED BY <3>1, <3>2, FS_Subset
  <2>2. \A p \in P : u[p] = IF a \in ArcsOf(p) THEN v[p] ELSE 0
    BY <2>1 DEF Through
  <2>3. (\A p \in Q : u[p] = v[p]) /\ \A p \in P \ Q : u[p] = 0
    BY <2>2 DEF PathsThrough
  <2>4. AllNat(u, P)
    BY <2>1, <2>2 DEF AllNat
  <2> HIDE DEF P, Q, u, v
  <2> QED BY <2>1, <2>3, <2>4, SumExtend, SumSame DEF P, Q, u
<1> QED BY <1>9, <1>10

-----------------------------------------------------------------------------
(* The sum of the lengths of the paths to a state is made by last arc, that *)
(* of the paths from it by first arc.                                       *)

LEMMA LengthOfOne ==
  ASSUME NEW n \in States, NEW l
  PROVE  /\ LengthOf({n}, l) = 0 /\ {n} \in Paths(n, n) /\ {n} \in SUBSET States
         /\ PathWeight({n}) = 1 /\ Accepted({n}) = 1 * final[n]
<1>1. Max({n}) = n /\ ArcsOf({n}) = {} /\ PathWeight({n}) = 1
  BY PathOfOne
<1>2. LengthOf({n}, l) = 0
  <2>1. ArcsOf({n}) \cap (IF l = LENGTH_X THEN IArcs ELSE OArcs) = {}
    BY <1>1
  <2> QED BY <2>1, FS_EmptySet DEF LengthOf
<1>3. {n} \in PathsFrom(n)
  BY PathsFromAre
<1> QED BY <1>1, <1>2, <1>3, PathsIs DEF Accepted

\* The term of state k in the sum of the lengths of the paths to n.
ToTerm(k, n, l) ==
  LengthTo(k, l) * weight[<<k, n>>] + PathSum(0, k) * (weight[<<k, n>>] * Long(<<k, n>>, l))

LEMMA LastArcTerm ==
  ASSUME Weighted, NEW n \in States, NEW k \in States, n \in Later(k), NEW l
  PROVE  /\ Sum(WalkLength(l), Unite(Paths(0, k), {{n}})) = ToTerm(k, n, l)
         /\ Unite(Paths(0, k), {{n}}) \subseteq Paths(0, n)
<1> DEFINE a == <<k, n>>
           w == weight[a]
           b == Long(a, l)
           S == Paths(0, k)
           T == {{n}}
           g == [r \in T |-> w]
           j == [r \in T |-> w * b]
           v == WalkLength(l)
<1>0. 0 \in States
  BY StatesFinite
<1>1. a \in Arcs /\ w \in Nat /\ b \in Nat /\ w * b \in Nat
  <2>1. a \in Arcs /\ w \in Nat /\ b \in Nat
    BY ForwardType, LongType DEF Weighted
  <2> HIDE DEF w, b
  <2> QED BY <2>1, NatTimes
<1>2. {n} \in PathsFrom(n) /\ T \in SUBSET SUBSET States /\ LengthOf({n}, l) = 0 /\ PathWeight({n}) = 1 /\ Max({n}) = n
  BY LengthOfOne, PathsFromAre, PathOfOne
<1>3. /\ S \in SUBSET SUBSET States /\ AllNat(v, S) /\ AllNat(Walking, S) /\ Sum(Walking, S) = PathSum(0, k)
  BY <1>0, WalkSets
<1>4. Apart(S, T)
  <2>1. PICK A : (\A q \in S : q \subseteq A) /\ \A r \in PathsFrom(n) : r \cap A = {}
    BY <1>0, PathsApart DEF Apart
  <2> HIDE DEF S
  <2> QED BY <1>2, <2>1 DEF Apart
<1>5. ASSUME NEW q \in S
      PROVE  /\ q \cup {n} \in PathsFrom(0) /\ Max(q \cup {n}) = n
             /\ v[q \cup {n}] = v[q] * w + Walking[q] * (w * b)
  <2> DEFINE r == {n}
  <2>1. r \in PathsFrom(n) /\ PathWeight(r) = 1 /\ LengthOf(r, l) = 0 /\ Max(r) = n
    BY <1>2
  <2> HIDE DEF r
  <2>2. /\ q \cup r \in PathsFrom(0) /\ Max(q \cup r) = Max(r)
        /\ PathWeight(q \cup r) = PathWeight(q) * (w * PathWeight(r))
        /\ LengthOf(q \cup r, l) = LengthOf(q, l) + (b + LengthOf(r, l))
    BY <1>0, <2>1, JoinWeights, JoinLengths
  <2>3. q \in PathsFrom(0)
    BY <1>0, PathsIs
  <2>4. /\ PathWeight(q) \in Nat /\ LengthOf(q, l) \in Nat /\ Walking[q] = PathWeight(q)
        /\ v[q] = PathWeight(q) * LengthOf(q, l)
    BY <1>0, <2>3, WalkTypes
  <2>5. v[q \cup r] = PathWeight(q \cup r) * LengthOf(q \cup r, l)
    BY <1>0, <2>2, WalkTypes
  <2> HIDE DEF a, w, b, g, j, v, S, T
  <2>6. (PathWeight(q) * (w * 1)) * (LengthOf(q, l) + (b + 0))
          = (PathWeight(q) * LengthOf(q, l)) * (w * 1) + PathWeight(q) * ((w * b) * 1 + w * (1 * 0))
    BY <1>1, <2>4, LengthSplit
  <2>7. w * 1 = w /\ (w * b) * 1 + w * (1 * 0) = w * b
    BY <1>1, NatTimes
  <2> QED BY <2>1, <2>2, <2>4, <2>5, <2>6, <2>7 DEF r
<1>6. Terms(v, v, g, Walking, j, S, T)
  <2>1. g[{n}] = w /\ j[{n}] = w * b
    OBVIOUS
  <2> HIDE DEF w, b, g, j, v, S
  <2> QED BY <1>5, <2>1 DEF Terms
<1>7. Sum(g, T) = w /\ Sum(j, T) = w * b /\ AllNat(g, T) /\ AllNat(j, T)
  <2>1. g[{n}] = w /\ j[{n}] = w * b
    OBVIOUS
  <2> HIDE DEF g, j, w, b
  <2> QED BY <1>1, <2>1, SumOne DEF AllNat
<1>8. Sum(v, Unite(S, T)) = Sum(v, S) * Sum(g, T) + Sum(Walking, S) * Sum(j, T)
  <2> HIDE DEF a, w, b, g, j, v, S, T
  <2> QED BY <1>2, <1>3, <1>4, <1>6, <1>7, SumPairs
<1>9. Unite(S, T) \subseteq Paths(0, n)
  <2> SUFFICES ASSUME NEW q \in S PROVE q \cup {n} \in Paths(0, n)
    BY DEF Unite
  <2> HIDE DEF S
  <2> QED BY <1>0, <1>5, PathsIs
<1> QED BY <1>3, <1>7, <1>8, <1>9 DEF ToTerm, LengthTo

LEMMA LengthToStep ==
  ASSUME Weighted, NEW n \in States, NEW l, NEW z,
         \A k \in States : z[k] = IF <<k, n>> \in LiveArcs THEN ToTerm(k, n, l) ELSE 0
  PROVE  LengthTo(n, l) = Sum(z, States) /\ AllNat(z, States)
<1>0. 0 \in States /\ IsFiniteSet(States) /\ States \subseteq Nat
  BY StatesFinite
<1>1. ASSUME NEW k \in States
      PROVE  ToTerm(k, n, l) \in Nat \/ n \notin Later(k)
  <2> SUFFICES ASSUME n \in Later(k) PROVE ToTerm(k, n, l) \in Nat
    OBVIOUS
  <2> DEFINE w == weight[<<k, n>>]
             b == Long(<<k, n>>, l)
  <2>1. w \in Nat /\ b \in Nat /\ LengthTo(k, l) \in Nat /\ PathSum(0, k) \in Nat
    BY ForwardType, LongType, WalkSums DEF Weighted
  <2>2. ToTerm(k, n, l) = LengthTo(k, l) * w + PathSum(0, k) * (w * b)
    BY DEF ToTerm
  <2> HIDE DEF w, b
  <2>3. w * b \in Nat /\ LengthTo(k, l) * w \in Nat
    BY <2>1, NatTimes
  <2>4. PathSum(0, k) * (w * b) \in Nat
    BY <2>1, <2>3, NatTimes
  <2> QED BY <2>2, <2>3, <2>4
<1>2. \A k \in States : <<k, n>> \in LiveArcs <=> (n \in Later(k) /\ weight[<<k, n>>] # 0)
  BY DEF LiveArcs, Arcs, Later
<1>3. AllNat(z, States)
  <2> SUFFICES ASSUME NEW k \in States PROVE z[k] \in Nat
    BY DEF AllNat
  <2>1. z[k] = 0 \/ (n \in Later(k) /\ z[k] = ToTerm(k, n, l))
    BY <1>2
  <2> QED BY <1>1, <2>1
<1>4. CASE n = 0
  <2>1. \A k \in States : z[k] = 0
    <3> SUFFICES ASSUME NEW k \in States PROVE <<k, n>> \notin LiveArcs
      OBVIOUS
    <3>1. ~ (n > k)
      BY <1>0, <1>4
    <3> QED BY <1>2, <3>1 DEF Later
  <2>2. Sum(z, States) = 0
    BY <1>0, <2>1, SumZero
  <2>3. \A p \in Paths(0, 0) : WalkLength(l)[p] = 0
    <3> SUFFICES ASSUME NEW p \in Paths(0, 0) PROVE WalkLength(l)[p] = 0
      OBVIOUS
    <3>1. p \in PathsFrom(0) /\ Max(p) = 0
      BY <1>0, PathsIs
    <3>2. p \in SUBSET States /\ 0 \in p /\ \A i \in p : 0 <= i /\ i <= Max(p)
      BY <1>0, <3>1, PathStates
    <3>3. p = {0}
      <4>1. \A i \in p : i = 0
        <5> SUFFICES ASSUME NEW i \in p PROVE i = 0
          OBVIOUS
        <5>1. 0 <= i /\ i <= 0 /\ i \in Nat
          BY <1>0, <3>1, <3>2
        <5> QED BY <5>1
      <4> QED BY <3>2, <4>1
    <3>4. LengthOf(p, l) = 0 /\ PathWeight(p) \in Nat /\ WalkLength(l)[p] = PathWeight(p) * LengthOf(p, l)
      <4>1. LengthOf({0}, l) = 0
        BY <1>0, LengthOfOne
      <4>2. PathWeight(p) \in Nat /\ WalkLength(l)[p] = PathWeight(p) * LengthOf(p, l)
        BY <1>0, <3>1, WalkTypes
      <4> QED BY <3>3, <4>1, <4>2
    <3> QED BY <3>4, NatTimes
  <2>4. IsFiniteSet(Paths(0, 0))
    BY <1>0, WalkSets
  <2>5. LengthTo(0, l) = 0
    BY <2>3, <2>4, SumZero DEF LengthTo
  <2> QED BY <1>3, <1>4, <2>2, <2>5
<1>5. CASE n # 0
  <2> DEFINE L == {k \in States : k < n}
             F == [k \in L |-> Unite(Paths(0, k), {{n}})]
             v == WalkLength(l)
             t == [k \in States |-> IF n \in Later(k) THEN ToTerm(k, n, l) ELSE 0]
             P == Paths(0, n)
  <2>1. \A k \in L : n \in Later(k) /\ k \in States
    BY <1>0 DEF Later
  <2>2. P \in SUBSET SUBSET States /\ IsFiniteSet(P) /\ AllNat(v, P)
    BY <1>0, WalkSets
  <2>3. ASSUME NEW k \in L
        PROVE  IsFiniteSet(F[k]) /\ AllNat(v, F[k]) /\ t[k] = Sum(v, F[k]) /\ F[k] \subseteq P
    <3>1. Sum(v, Unite(Paths(0, k), {{n}})) = ToTerm(k, n, l) /\ Unite(Paths(0, k), {{n}}) \subseteq P
      BY <2>1, LastArcTerm
    <3>2. F[k] = Unite(Paths(0, k), {{n}}) /\ t[k] = ToTerm(k, n, l)
      BY <2>1
    <3> HIDE DEF F, v, t, P
    <3>3. F[k] \subseteq P /\ t[k] = Sum(v, F[k])
      BY <3>1, <3>2
    <3> QED BY <2>2, <3>3, FS_Subset DEF AllNat
  <2>4. ASSUME NEW j \in L, NEW k \in L, j # k PROVE F[j] \cap F[k] = {}
    <3> SUFFICES ASSUME NEW p \in F[j], p \in F[k] PROVE FALSE
      OBVIOUS
    <3>1. PICK q \in Paths(0, j) : p = q \cup {n}
      BY DEF Unite
    <3>2. PICK r \in Paths(0, k) : p = r \cup {n}
      BY DEF Unite
    <3>3. q \in PathsFrom(0) /\ r \in PathsFrom(0) /\ Max(q) = j /\ Max(r) = k
      BY <1>0, PathsIs
    <3>4. (\A i \in q : i <= j /\ i \in States) /\ \A i \in r : i <= k /\ i \in States
      BY <1>0, <3>3, PathStates
    <3>5. n \notin q /\ n \notin r
      BY <1>0, <3>4
    <3>6. q = r
      <4>1. {n} \cup q = {n} \cup r
        BY <3>1, <3>2
      <4> QED BY ONLY <3>5, <4>1, SameRest
    <3> QED BY <2>4, <3>3, <3>6
  <2>5. P = UNION {F[k] : k \in L}
    <3>1. ASSUME NEW p \in P PROVE \E k \in L : p \in F[k]
      <4> DEFINE q == p \ {n}
                 k == Max(q)
      <4>1. p \in PathsFrom(0) /\ Max(p) = n
        BY <1>0, PathsIs
      <4>2. p \in SUBSET States /\ 0 \in p /\ n \in p /\ \A i \in p : 0 <= i /\ i <= n
        BY <1>0, <4>1, PathStates
      <4>3. q \in SUBSET States /\ 0 \in q /\ q # {} /\ p = q \cup {n} /\ \A i \in q : 0 <= i /\ i <= n /\ i # n
        BY <1>5, <4>2
      <4>4. k \in q /\ k < n
        <5>1. k \in q
          <6> HIDE DEF q
          <6> QED BY <4>3, MaxIn
        <5>2. k <= n /\ k # n /\ k \in Nat
          <6> HIDE DEF q, k
          <6> QED BY <1>0, <4>3, <5>1
        <5> HIDE DEF q, k
        <5> QED BY <1>0, <5>1, <5>2
      <4>5. q \in Paths(0, k) /\ k \in L
        <5> HIDE DEF q
        <5>1. q \in PathsFrom(0)
          BY <1>0, <4>3, PathsFromIs
        <5>2. k \in States
          BY <4>3, <4>4
        <5> QED BY <1>0, <4>4, <5>1, <5>2, PathsIs
      <4>6. q \cup {n} \in Unite(Paths(0, k), {{n}})
        <5> HIDE DEF q, k
        <5> QED BY <4>5 DEF Unite
      <4>7. p \in F[k]
        BY <4>3, <4>5, <4>6
      <4> HIDE DEF q, k, F, L
      <4> QED BY <4>5, <4>7
    <3>2. \A k \in L : F[k] \subseteq P
      BY <2>3
    <3> HIDE DEF F, L, P
    <3> QED BY <3>1, <3>2
  <2>6. IsFiniteSet(L) /\ L \in SUBSET States
    BY <1>0, FS_Subset
  <2>7. Sum(v, UNION {F[k] : k \in L}) = Sum(t, L)
    <3> HIDE DEF F, L, P, v, t
    <3> QED BY <2>3, <2>4, <2>6, SumPartition
  <2>8. \A k \in States : t[k] = z[k]
    <3> SUFFICES ASSUME NEW k \in States, n \in Later(k), weight[<<k, n>>] = 0 PROVE ToTerm(k, n, l) = 0
      BY <1>2
    <3>1. LengthTo(k, l) \in Nat /\ PathSum(0, k) \in Nat /\ Long(<<k, n>>, l) \in Nat
      BY LongType, WalkSums
    <3> QED BY <3>1, NatTimes DEF ToTerm
  <2>9. \A k \in States \ L : t[k] = 0
    BY <1>0 DEF Later
  <2>10. AllNat(t, States)
    BY <1>3, <2>8 DEF AllNat
  <2>11. Sum(t, States) = Sum(t, L) /\ Sum(t, States) = Sum(z, States)
    <3> HIDE DEF L, t
    <3> QED BY <1>0, <2>6, <2>8, <2>9, <2>10, SumExtend, SumSame
  <2>12. LengthTo(n, l) = Sum(v, P)
    BY DEF LengthTo
  <2> HIDE DEF F, L, P, v, t
  <2> QED BY <1>3, <2>5, <2>7, <2>11, <2>12
<1> QED BY <1>4, <1>5

\* The term of state m in the sum of the lengths of the paths from n.
FromTerm(n, m, l) ==
  LengthFrom(m, l) * weight[<<n, m>>] + SumFrom(m) * (weight[<<n, m>>] * Long(<<n, m>>, l))

\* What one more arc makes of the sum of the lengths of the paths from m.
Longer(n, l) == [q \in SUBSET States |-> Long(<<n, Min(q)>>, l) * Accepting[q] + 1 * AcceptLength(l)[q]]

LEMMA FirstArcTerm ==
  ASSUME Weighted, NEW n \in States, NEW m \in Later(n), NEW l
  PROVE  /\ weight[<<n, m>>] \in Nat /\ AllNat(Longer(n, l), PathsFrom(m))
         /\ weight[<<n, m>>] * Sum(Longer(n, l), PathsFrom(m)) = FromTerm(n, m, l)
         /\ FromTerm(n, m, l) \in Nat
         /\ \A q \in PathsFrom(m) : AcceptLength(l)[{n} \cup q] = weight[<<n, m>>] * Longer(n, l)[q]
         /\ \A q \in PathsFrom(m) : Accepting[{n} \cup q] = weight[<<n, m>>] * Accepting[q]
<1> DEFINE w == weight[<<n, m>>]
           b == Long(<<n, m>>, l)
           h == Longer(n, l)
           T == PathsFrom(m)
           v == AcceptLength(l)
<1>1. m \in States /\ <<n, m>> \in Arcs /\ w \in Nat /\ b \in Nat
  <2>1. m \in States
    BY DEF Later
  <2> QED BY <2>1, ForwardType, LongType DEF Weighted
<1>2. ASSUME NEW q \in T
      PROVE  /\ h[q] = b * Accepting[q] + 1 * v[q]
             /\ v[{n} \cup q] = w * h[q] /\ Accepting[{n} \cup q] = w * Accepting[q]
  <2>1. q \in SUBSET States /\ m \in q /\ \A i \in q : m <= i
    BY <1>1, PathStates
  <2>2. Min(q) = m
    BY <2>1, StatesFinite, MinIs
  <2>3. h[q] = b * Accepting[q] + 1 * v[q]
    BY <2>1, <2>2 DEF Longer
  <2>4. {n} \in Paths(n, n) /\ LengthOf({n}, l) = 0
    BY LengthOfOne
  <2>5. LengthOf({n} \cup q, l) = LengthOf({n}, l) + (b + LengthOf(q, l))
    <3> DEFINE p == {n}
    <3>1. p \in Paths(n, n)
      BY <2>4
    <3> HIDE DEF p
    <3>2. LengthOf(p \cup q, l) = LengthOf(p, l) + (b + LengthOf(q, l))
      BY <3>1, JoinLengths
    <3> QED BY <3>2 DEF p
  <2>6. Accepted({n} \cup q) = w * Accepted(q) /\ {n} \cup q \in PathsFrom(n)
    BY PathWeightLonger, PathsFromAre
  <2>7. /\ Accepted(q) \in Nat /\ LengthOf(q, l) \in Nat /\ Accepting[q] = Accepted(q)
        /\ v[q] = Accepted(q) * LengthOf(q, l)
    BY <1>1, WalkTypes
  <2>8. v[{n} \cup q] = Accepted({n} \cup q) * LengthOf({n} \cup q, l) /\ Accepting[{n} \cup q] = Accepted({n} \cup q)
    <3> DEFINE p == {n} \cup q
    <3>1. p \in PathsFrom(n)
      BY <2>6
    <3> HIDE DEF p
    <3>2. v[p] = Accepted(p) * LengthOf(p, l) /\ Accepting[p] = Accepted(p)
      BY <3>1, WalkTypes
    <3> QED BY <3>2 DEF p
  <2>9. \A x, y, c, d \in Nat : (x * y) * (0 + (c + d)) = x * (c * y + 1 * (y * d))
    OBVIOUS
  <2>10. (w * Accepted(q)) * (0 + (b + LengthOf(q, l))) = w * (b * Accepted(q) + 1 * (Accepted(q) * LengthOf(q, l)))
    <3> HIDE DEF w, b
    <3> QED BY <1>1, <2>7, <2>9
  <2> HIDE DEF w, b, h, v, T
  <2> QED BY <2>3, <2>4, <2>5, <2>6, <2>7, <2>8, <2>10
<1>3. /\ IsFiniteSet(T) /\ AllNat(Accepting, T) /\ AllNat(v, T) /\ Sum(Accepting, T) = SumFrom(m)
      /\ Sum(v, T) = LengthFrom(m, l)
  BY <1>1, WalkSets DEF LengthFrom
<1>4. \A q \in T : h[q] = b * Accepting[q] + 1 * v[q]
  BY <1>2
<1>5. Sum(h, T) = b * SumFrom(m) + 1 * LengthFrom(m, l) /\ AllNat(h, T)
  <2>1. Sum(h, T) = b * Sum(Accepting, T) + 1 * Sum(v, T) /\ AllNat(h, T)
    <3> HIDE DEF w, b, h, v, T
    <3> QED BY ONLY <1>1, <1>3, <1>4, SumOfLonger
  <2> HIDE DEF w, b, h, v, T
  <2> QED BY <1>3, <2>1
<1>6. SumFrom(m) \in Nat /\ LengthFrom(m, l) \in Nat
  BY <1>1, WalkSums
<1>7. w * (b * SumFrom(m) + 1 * LengthFrom(m, l)) = LengthFrom(m, l) * w + SumFrom(m) * (w * b)
  <2>1. \A x, c, y, d \in Nat : x * (c * y + 1 * d) = d * x + y * (x * c)
    OBVIOUS
  <2> HIDE DEF w, b
  <2> QED BY <1>1, <1>6, <2>1
<1>8. FromTerm(n, m, l) = LengthFrom(m, l) * w + SumFrom(m) * (w * b)
  BY DEF FromTerm
<1>9. LengthFrom(m, l) * w + SumFrom(m) * (w * b) \in Nat
  <2> HIDE DEF w, b
  <2>1. LengthFrom(m, l) * w \in Nat /\ w * b \in Nat
    BY <1>1, <1>6, NatTimes
  <2>2. SumFrom(m) * (w * b) \in Nat
    BY <1>6, <2>1, NatTimes
  <2> QED BY <2>1, <2>2
<1> HIDE DEF b
<1> QED BY <1>1, <1>2, <1>5, <1>7, <1>8, <1>9

LEMMA LengthFromStep ==
  ASSUME Weighted, NEW n \in States, NEW l, NEW z,
         \A m \in States : z[m] = IF <<n, m>> \in LiveArcs THEN FromTerm(n, m, l) ELSE 0
  PROVE  LengthFrom(n, l) = Sum(z, States) /\ AllNat(z, States)
<1> DEFINE h == Longer(n, l)
           v == AcceptLength(l)
           c == [m \in Later(n) |-> weight[<<n, m>>]]
           s == [m \in Later(n) |-> c[m] * Sum(h, PathsFrom(m))]
<1>0. IsFiniteSet(States) /\ Later(n) \in SUBSET States
  BY StatesFinite DEF Later
<1>1. ByFirstArc(n, v, h, c, s)
  <2>1. v[{n}] = 0
    <3>1. {n} \in PathsFrom(n)
      BY PathsFromAre
    <3> DEFINE p == {n}
    <3>2. p \in PathsFrom(n) /\ LengthOf(p, l) = 0
      BY <3>1, LengthOfOne
    <3> HIDE DEF p, v
    <3>3. v[p] = Accepted(p) * LengthOf(p, l) /\ Accepted(p) \in Nat
      BY <3>2, WalkTypes DEF v
    <3>4. v[p] = 0
      BY <3>2, <3>3, NatTimes
    <3> QED BY <3>4 DEF p
  <2>2. ASSUME NEW m \in Later(n)
        PROVE  /\ c[m] \in Nat /\ AllNat(h, PathsFrom(m)) /\ s[m] = c[m] * Sum(h, PathsFrom(m))
               /\ \A q \in PathsFrom(m) : v[{n} \cup q] = c[m] * h[q]
    <3>1. c[m] = weight[<<n, m>>] /\ s[m] = c[m] * Sum(h, PathsFrom(m))
      OBVIOUS
    <3>2. weight[<<n, m>>] \in Nat /\ AllNat(h, PathsFrom(m))
      BY FirstArcTerm
    <3>3. \A q \in PathsFrom(m) : v[{n} \cup q] = weight[<<n, m>>] * h[q]
      BY FirstArcTerm
    <3> HIDE DEF c, s, h, v
    <3> QED BY <3>1, <3>2, <3>3
  <2> HIDE DEF c, s, h, v
  <2> QED BY <2>1, <2>2 DEF ByFirstArc
<1>2. Sum(v, PathsFrom(n)) = v[{n}] + Sum(s, Later(n)) /\ v[{n}] = 0
  <2>1. Sum(v, PathsFrom(n)) = v[{n}] + Sum(s, Later(n))
    <3> HIDE DEF c, s, h, v
    <3> QED BY <1>1, FirstArc
  <2>2. v[{n}] = 0
    <3>1. {n} \in SUBSET States /\ LengthOf({n}, l) = 0 /\ {n} \in PathsFrom(n)
      BY LengthOfOne, PathsFromAre
    <3>2. v[{n}] = Accepted({n}) * LengthOf({n}, l)
      BY <3>1 DEF AcceptLength
    <3>3. Accepted({n}) \in Nat
      BY <3>1, PathWeightType
    <3> HIDE DEF v
    <3> QED BY <3>1, <3>2, <3>3, NatTimes
  <2> QED BY <2>1, <2>2
<1>3. ASSUME NEW m \in States
      PROVE  z[m] \in Nat /\ (m \in Later(n) => z[m] = s[m]) /\ (m \notin Later(n) => z[m] = 0)
  <2>1. <<n, m>> \in LiveArcs <=> (m \in Later(n) /\ weight[<<n, m>>] # 0)
    BY DEF LiveArcs, Arcs, Later
  <2>2. m \notin Later(n) => z[m] = 0
    BY <2>1
  <2>3. ASSUME m \in Later(n) PROVE z[m] = s[m] /\ z[m] \in Nat
    <3>1. s[m] = weight[<<n, m>>] * Sum(h, PathsFrom(m))
      BY <2>3
    <3>2. weight[<<n, m>>] * Sum(h, PathsFrom(m)) = FromTerm(n, m, l) /\ FromTerm(n, m, l) \in Nat
      BY <2>3, FirstArcTerm
    <3>3. weight[<<n, m>>] = 0 => FromTerm(n, m, l) = 0
      <4>1. LengthFrom(m, l) \in Nat /\ SumFrom(m) \in Nat /\ Long(<<n, m>>, l) \in Nat
        BY LongType, WalkSums
      <4> QED BY <4>1, NatTimes DEF FromTerm
    <3> HIDE DEF s, h
    <3> QED BY <2>1, <2>3, <3>1, <3>2, <3>3
  <2> QED BY <2>2, <2>3
<1>4. AllNat(z, States)
  BY <1>3 DEF AllNat
<1>5. Sum(z, States) = Sum(z, Later(n))
  BY <1>0, <1>3, <1>4, SumExtend
<1>6. Sum(s, Later(n)) = Sum(z, Later(n)) /\ Sum(z, Later(n)) \in Nat
  <2>1. IsFiniteSet(Later(n)) /\ (\A m \in Later(n) : s[m] = z[m]) /\ AllNat(z, Later(n))
    BY <1>0, <1>3, <1>4, FS_Subset DEF AllNat
  <2> HIDE DEF s
  <2> QED BY <2>1, SumSame, SumType
<1> HIDE DEF s, v
<1> QED BY <1>2, <1>4, <1>5, <1>6 DEF LengthFrom, v

LEMMA SumFromStep ==
  ASSUME Weighted, NEW n \in States, NEW z,
         \A m \in States : z[m] = IF <<n, m>> \in LiveArcs THEN SumFrom(m) * weight[<<n, m>>] ELSE 0
  PROVE  SumFrom(n) = final[n] + Sum(z, States) /\ AllNat(z, States)
<1> DEFINE v == Accepting
           c == [m \in Later(n) |-> weight[<<n, m>>]]
           s == [m \in Later(n) |-> c[m] * Sum(v, PathsFrom(m))]
<1>0. IsFiniteSet(States) /\ Later(n) \in SUBSET States
  BY StatesFinite DEF Later
<1>a. v[{n}] = final[n] /\ final[n] \in Nat
  <2>1. {n} \in SUBSET States /\ Accepted({n}) = 1 * final[n] /\ final[n] \in Nat
    BY LengthOfOne DEF Weighted
  <2> QED BY <2>1, NatTimes DEF Accepting
<1>1. ByFirstArc(n, v, v, c, s)
  <2>2. ASSUME NEW m \in Later(n)
        PROVE  /\ c[m] \in Nat /\ AllNat(v, PathsFrom(m)) /\ s[m] = c[m] * Sum(v, PathsFrom(m))
               /\ \A q \in PathsFrom(m) : v[{n} \cup q] = c[m] * v[q]
    <3>1. c[m] = weight[<<n, m>>] /\ s[m] = c[m] * Sum(v, PathsFrom(m)) /\ m \in States
      BY <1>0
    <3>2. weight[<<n, m>>] \in Nat /\ AllNat(v, PathsFrom(m))
      BY <3>1, FirstArcTerm, WalkSets
    <3>3. \A q \in PathsFrom(m) : v[{n} \cup q] = weight[<<n, m>>] * v[q]
      BY FirstArcTerm
    <3> HIDE DEF c, s, v
    <3> QED BY <3>1, <3>2, <3>3
  <2> HIDE DEF c, s, v
  <2> QED BY <1>a, <2>2 DEF ByFirstArc
<1>2. Sum(v, PathsFrom(n)) = v[{n}] + Sum(s, Later(n))
  <2> HIDE DEF c, s, v
  <2> QED BY <1>1, FirstArc
<1>3. ASSUME NEW m \in States
      PROVE  z[m] \in Nat /\ (m \in Later(n) => z[m] = s[m]) /\ (m \notin Later(n) => z[m] = 0)
  <2>1. <<n, m>> \in LiveArcs <=> (m \in Later(n) /\ weight[<<n, m>>] # 0)
    BY DEF LiveArcs, Arcs, Later
  <2>2. m \notin Later(n) => z[m] = 0
    BY <2>1
  <2>3. ASSUME m \in Later(n) PROVE z[m] = s[m] /\ z[m] \in Nat
    <3>1. s[m] = weight[<<n, m>>] * SumFrom(m)
      BY <2>3, SumFromIs
    <3>2. weight[<<n, m>>] \in Nat /\ SumFrom(m) \in Nat
      BY <2>3, ForwardType, SumFromIs DEF Weighted
    <3>3. /\ weight[<<n, m>>] * SumFrom(m) = SumFrom(m) * weight[<<n, m>>]
          /\ SumFrom(m) * weight[<<n, m>>] \in Nat
          /\ weight[<<n, m>>] = 0 => SumFrom(m) * weight[<<n, m>>] = 0
      BY <3>2, NatTimes
    <3> HIDE DEF s
    <3> QED BY <2>1, <2>3, <3>1, <3>3
  <2> QED BY <2>2, <2>3
<1>4. AllNat(z, States)
  BY <1>3 DEF AllNat
<1>5. Sum(z, States) = Sum(z, Later(n))
  BY <1>0, <1>3, <1>4, SumExtend
<1>6. Sum(s, Later(n)) = Sum(z, Later(n))
  <2>1. IsFiniteSet(Later(n)) /\ \A m \in Later(n) : s[m] = z[m]
    BY <1>0, <1>3, FS_Subset
  <2> HIDE DEF s
  <2> QED BY <2>1, SumSame
<1>7. SumFrom(n) = Sum(v, PathsFrom(n))
  BY SumFromIs
<1> HIDE DEF s, v
<1> QED BY <1>a, <1>2, <1>4, <1>5, <1>6, <1>7

-----------------------------------------------------------------------------
(* The alphas and betas of the length sums are the sums over the paths.     *)

LEMMA FromSources ==
  ASSUME NEW g, NEW base, NEW S
  PROVE  FoldSet(LAMBDA a, w : Plus(w, Times(g[a[1]], LengthArc(a))), base, S)
           = AddedUp("weights", base, [a \in S |-> Times(g[a[1]], LengthArc(a))], S)
<1> DEFINE v == [a \in S |-> Times(g[a[1]], LengthArc(a))]
           R(h) == h = [s \in SUBSET S |-> IF s = {} THEN base
                          ELSE Plus(h[s \ {Pick(s)}], Times(g[Pick(s)[1]], LengthArc(Pick(s))))]
           X == FoldSet(LAMBDA a, w : Plus(w, Times(g[a[1]], LengthArc(a))), base, S)
<1>1. ASSUME NEW h PROVE Adding("weights", base, v, S, h) <=> R(h)
  <2>1. \A s \in SUBSET S :
          (IF s = {} THEN base ELSE Added("weights", v[Pick(s)], h[s \ {Pick(s)}]))
            = (IF s = {} THEN base ELSE Plus(h[s \ {Pick(s)}], Times(g[Pick(s)[1]], LengthArc(Pick(s)))))
    BY PickIn DEF Added
  <2> QED BY <2>1 DEF Adding
<1>2. (CHOOSE h : Adding("weights", base, v, S, h)) = (CHOOSE h : R(h))
  <2> HIDE DEF R, v
  <2> QED BY <1>1
<1>3. X = (CHOOSE h : R(h))[S]
  BY Zenon DEF FoldSet, MapThenFoldSet, Pick
<1> HIDE DEF R, v, X
<1>4. X = AddedUp("weights", base, v, S)
  BY <1>2, <1>3 DEF AddedUp
<1> QED BY Zenon, <1>4 DEF X, v

LEMMA FromTargets ==
  ASSUME NEW g, NEW base, NEW S
  PROVE  FoldSet(LAMBDA a, w : Plus(w, Times(g[a[2]], LengthArc(a))), base, S)
           = AddedUp("weights", base, [a \in S |-> Times(g[a[2]], LengthArc(a))], S)
<1> DEFINE v == [a \in S |-> Times(g[a[2]], LengthArc(a))]
           R(h) == h = [s \in SUBSET S |-> IF s = {} THEN base
                          ELSE Plus(h[s \ {Pick(s)}], Times(g[Pick(s)[2]], LengthArc(Pick(s))))]
           X == FoldSet(LAMBDA a, w : Plus(w, Times(g[a[2]], LengthArc(a))), base, S)
<1>1. ASSUME NEW h PROVE Adding("weights", base, v, S, h) <=> R(h)
  <2>1. \A s \in SUBSET S :
          (IF s = {} THEN base ELSE Added("weights", v[Pick(s)], h[s \ {Pick(s)}]))
            = (IF s = {} THEN base ELSE Plus(h[s \ {Pick(s)}], Times(g[Pick(s)[2]], LengthArc(Pick(s)))))
    BY PickIn DEF Added
  <2> QED BY <2>1 DEF Adding
<1>2. (CHOOSE h : Adding("weights", base, v, S, h)) = (CHOOSE h : R(h))
  <2> HIDE DEF R, v
  <2> QED BY <1>1
<1>3. X = (CHOOSE h : R(h))[S]
  BY Zenon DEF FoldSet, MapThenFoldSet, Pick
<1> HIDE DEF R, v, X
<1>4. X = AddedUp("weights", base, v, S)
  BY <1>2, <1>3 DEF AddedUp
<1> QED BY Zenon, <1>4 DEF X, v

\* The sums of expectation weights, of the paths to each state and of those from it.
ToSource == [a \in Arcs |-> a[1]]
ToTarget == [a \in Arcs |-> a[2]]
ToBase == [n \in States |-> IF n = 0 THEN WeightOne ELSE WeightZero]
FromBase == [n \in States |-> Weight(final[n], WeightOne.e)]
InArcs == [n \in States |-> In(n)]
OutArcs == [n \in States |-> Out(n)]

LEMMA InOutRanked ==
  /\ Ranked(InArcs, ToSource, [n \in States |-> n])
  /\ Ranked(OutArcs, ToTarget, [n \in States |-> NumStates - 1 - n])
  /\ In(0) = {}
<1>1. \A a \in LiveArcs : a \in Arcs /\ a[1] \in States /\ a[2] \in States /\ a[1] < a[2]
  BY ArcStates DEF LiveArcs
<1>2. IsFiniteSet(LiveArcs)
  BY StatesFinite, FS_Subset DEF LiveArcs
<1>3. ASSUME NEW n \in States PROVE IsFiniteSet(In(n)) /\ IsFiniteSet(Out(n))
  BY <1>2, FS_Subset DEF In, Out
<1>4. \A n \in States : n \in 0 .. NumStates - 1 /\ NumStates - 1 - n \in States
  BY ConstantsAssumption DEF States
<1>5. Ranked(InArcs, ToSource, [n \in States |-> n])
  BY <1>1, <1>3 DEF Ranked, InArcs, ToSource, In
<1>6. Ranked(OutArcs, ToTarget, [n \in States |-> NumStates - 1 - n])
  <2> DEFINE rank == [n \in States |-> NumStates - 1 - n]
  <2>1. ASSUME NEW n \in States, NEW a \in OutArcs[n]
        PROVE  a \in Arcs /\ ToTarget[a] \in States /\ rank[ToTarget[a]] < rank[n]
    <3>1. a \in LiveArcs /\ a[1] = n
      BY DEF OutArcs, Out
    <3>2. a \in Arcs /\ ToTarget[a] = a[2] /\ a[2] \in States /\ n < a[2]
      BY <1>1, <3>1 DEF ToTarget
    <3>3. rank[a[2]] = NumStates - 1 - a[2] /\ rank[n] = NumStates - 1 - n
      BY <3>2
    <3>4. NumStates - 1 - a[2] < NumStates - 1 - n
      BY <3>2, <1>4, ConstantsAssumption
    <3> HIDE DEF rank
    <3> QED BY <3>2, <3>3, <3>4
  <2>2. ASSUME NEW n \in States PROVE IsFiniteSet(OutArcs[n]) /\ rank[n] \in States
    BY <1>3, <1>4 DEF OutArcs
  <2> HIDE DEF rank
  <2>3. Ranked(OutArcs, ToTarget, rank)
    BY <2>1, <2>2 DEF Ranked
  <2> QED BY <2>3 DEF rank
<1>7. In(0) = {}
  <2>1. ASSUME NEW a \in LiveArcs PROVE a[2] # 0
    <3>1. a[1] < a[2] /\ a[1] \in Nat /\ a[2] \in Nat
      BY <1>1, StatesFinite
    <3> QED BY <3>1
  <2> QED BY <2>1 DEF In
<1> QED BY <1>5, <1>6, <1>7

LEMMA AddedUpNothing ==
  ASSUME NEW kind, NEW base, NEW v
  PROVE  AddedUp(kind, base, v, {}) = base
<1>1. PICK g : Adding(kind, base, v, {}, g) /\ AddedUp(kind, base, v, {}) = g[{}]
  BY AddedUpIs, FS_EmptySet
<1> QED BY <1>1, AddingStep

LEMMA AlphasAreSums ==
  SumRec(ToBase, InArcs, ToSource, LengthAlphas)
<1> DEFINE B(g, n) == IF n = 0 THEN WeightOne
                      ELSE FoldSet(LAMBDA a, w : Plus(w, Times(g[a[1]], LengthArc(a))), WeightZero,
                                   {a \in LiveArcs : a[2] = n})
           G(g) == g = [n \in States |-> B(g, n)]
<1>1. ASSUME NEW g, NEW n \in States PROVE B(g, n) = SumStep(ToBase, InArcs, ToSource, g, n)
  <2>1. CASE n = 0
    <3>1. SumStep(ToBase, InArcs, ToSource, g, n) = AddedUp("weights", ToBase[n], Incoming(g, ToSource, {}), {})
      BY <2>1, InOutRanked DEF SumStep, InArcs
    <3>2. ToBase[n] = WeightOne
      BY <2>1 DEF ToBase
    <3>3. B(g, n) = WeightOne
      BY <2>1, Zenon
    <3> HIDE DEF B
    <3> QED BY <3>1, <3>2, <3>3, AddedUpNothing
  <2>2. CASE n # 0
    <3> DEFINE S == {a \in LiveArcs : a[2] = n}
               v == [a \in S |-> Times(g[a[1]], LengthArc(a))]
    <3>1. InArcs[n] = S /\ ToBase[n] = WeightZero
      BY <2>2 DEF InArcs, In, ToBase
    <3>2. SumStep(ToBase, InArcs, ToSource, g, n) = AddedUp("weights", WeightZero, Incoming(g, ToSource, S), S)
      BY <3>1 DEF SumStep
    <3>3. B(g, n) = FoldSet(LAMBDA a, w : Plus(w, Times(g[a[1]], LengthArc(a))), WeightZero, S)
      BY <2>2, Zenon
    <3>4. B(g, n) = AddedUp("weights", WeightZero, v, S)
      BY Zenon, <3>3, FromSources
    <3>5. Incoming(g, ToSource, S) = v
      <4>1. \A a \in S : ToSource[a] = a[1]
        BY DEF ToSource, LiveArcs
      <4> HIDE DEF B, S
      <4> QED BY <4>1 DEF Incoming
    <3> HIDE DEF B, S, v
    <3> QED BY <3>2, <3>4, <3>5
  <2> QED BY <2>1, <2>2
<1>2. ASSUME NEW g PROVE G(g) <=> SumRec(ToBase, InArcs, ToSource, g)
  <2> HIDE DEF B
  <2> QED BY <1>1 DEF SumRec
<1> DEFINE h == CHOOSE g : G(g)
<1>3. LengthAlphas = [n \in States |-> h[n]]
  BY Zenon DEF LengthAlphas
<1>4. PICK g : SumRec(ToBase, InArcs, ToSource, g)
  BY InOutRanked, SumRecExists
<1>5. G(h)
  <2>1. G(g)
    BY <1>2, <1>4
  <2> HIDE DEF G
  <2> QED BY <2>1, Zenon
<1>6. h = [n \in States |-> h[n]]
  <2>1. h = [n \in States |-> B(h, n)]
    BY <1>5
  <2> HIDE DEF h, B
  <2> QED BY <2>1
<1>7. SumRec(ToBase, InArcs, ToSource, h)
  <2> HIDE DEF G, h
  <2> QED BY <1>2, <1>5
<1> HIDE DEF h, G
<1> QED BY <1>3, <1>6, <1>7

LEMMA BetasAreSums ==
  SumRec(FromBase, OutArcs, ToTarget, LengthBetas)
<1> DEFINE B(g, n) == FoldSet(LAMBDA a, w : Plus(w, Times(g[a[2]], LengthArc(a))),
                              Weight(final[n], WeightOne.e), {a \in LiveArcs : a[1] = n})
           G(g) == g = [n \in States |-> B(g, n)]
<1>1. ASSUME NEW g, NEW n \in States PROVE B(g, n) = SumStep(FromBase, OutArcs, ToTarget, g, n)
  <2> DEFINE S == {a \in LiveArcs : a[1] = n}
             v == [a \in S |-> Times(g[a[2]], LengthArc(a))]
             x == Weight(final[n], WeightOne.e)
  <2>1. OutArcs[n] = S /\ FromBase[n] = x
    BY DEF OutArcs, Out, FromBase
  <2>2. SumStep(FromBase, OutArcs, ToTarget, g, n) = AddedUp("weights", x, Incoming(g, ToTarget, S), S)
    BY <2>1 DEF SumStep
  <2>3. B(g, n) = AddedUp("weights", x, v, S)
    BY Zenon, FromTargets
  <2>4. Incoming(g, ToTarget, S) = v
    <3>1. \A a \in S : ToTarget[a] = a[2]
      BY DEF ToTarget, LiveArcs
    <3> HIDE DEF B, S
    <3> QED BY <3>1 DEF Incoming
  <2> HIDE DEF B, S, v, x
  <2> QED BY <2>2, <2>3, <2>4
<1>2. ASSUME NEW g PROVE G(g) <=> SumRec(FromBase, OutArcs, ToTarget, g)
  <2> HIDE DEF B
  <2> QED BY <1>1 DEF SumRec
<1> DEFINE h == CHOOSE g : G(g)
<1>3. LengthBetas = [n \in States |-> h[n]]
  BY Zenon DEF LengthBetas
<1>4. PICK g : SumRec(FromBase, OutArcs, ToTarget, g)
  BY InOutRanked, SumRecExists
<1>5. G(h)
  <2>1. G(g)
    BY <1>2, <1>4
  <2> HIDE DEF G
  <2> QED BY <2>1, Zenon
<1>6. h = [n \in States |-> h[n]]
  <2>1. h = [n \in States |-> B(h, n)]
    BY <1>5
  <2> HIDE DEF h, B
  <2> QED BY <2>1
<1>7. SumRec(FromBase, OutArcs, ToTarget, h)
  <2> HIDE DEF G, h
  <2> QED BY <1>2, <1>5
<1> HIDE DEF h, G
<1> QED BY <1>3, <1>6, <1>7

LEMMA PlainWeight ==
  ASSUME NEW x \in Nat, NEW l
  PROVE  IsWeight(Weight(x, WeightOne.e)) /\ Weight(x, WeightOne.e).value = x /\ Expected(Weight(x, WeightOne.e), l) = 0
<1> DEFINE e == [f \in {} |-> PlusZero]
<1>1. WeightOne.e = e /\ DOMAIN e = {} /\ e \in [{} -> NeglogNums]
  BY DEF WeightOne, Weight
<1> HIDE DEF e
<1> QED BY <1>1 DEF IsWeight, Weight, Expected

LEMMA PlainWeights ==
  WeightOne = Weight(1, WeightOne.e) /\ WeightZero = Weight(0, WeightOne.e)
BY DEF WeightOne, WeightZero, Weight

LEMMA LengthAlphasAre ==
  ASSUME Weighted, NEW l \in Lengths, NEW n \in States
  PROVE  /\ IsWeight(LengthAlphas[n]) /\ LengthAlphas[n].value = PathSum(0, n)
         /\ Expected(LengthAlphas[n], l) = LengthTo(n, l)
<1> DEFINE nv == [k \in States |-> PathSum(0, k)]
           ne == [k \in States |-> LengthTo(k, l)]
<1>1. ASSUME NEW m \in States
      PROVE  /\ IsWeight(ToBase[m]) /\ Expected(ToBase[m], l) = 0
             /\ ToBase[m].value = IF m = 0 THEN 1 ELSE 0
  <2>1. ToBase[m] = Weight(IF m = 0 THEN 1 ELSE 0, WeightOne.e)
    BY PlainWeights DEF ToBase
  <2> QED BY <2>1, PlainWeight
<1>2. ASSUME NEW m \in States
      PROVE  PathSum(0, m) = ToBase[m].value + Sum([a \in InArcs[m] |-> nv[ToSource[a]] * weight[a]], InArcs[m])
  <2> DEFINE z == [k \in States |-> IF <<k, m>> \in LiveArcs THEN PathSum(0, k) * weight[<<k, m>>] ELSE 0]
             s == [k \in States |-> PathSum(0, k) * Forward(k, m)]
             v == [a \in In(m) |-> nv[ToSource[a]] * weight[a]]
  <2>1. \A k \in States : z[k] = s[k] /\ s[k] \in Nat
    <3> SUFFICES ASSUME NEW k \in States PROVE z[k] = s[k] /\ s[k] \in Nat
      OBVIOUS
    <3>1. PathSum(0, k) \in Nat /\ Forward(k, m) \in Nat
      BY WalkSums, ForwardType
    <3>2. PathSum(0, k) * 0 = 0 /\ PathSum(0, k) * Forward(k, m) \in Nat
      BY <3>1, NatTimes
    <3> QED BY <3>2 DEF Forward, LiveArcs
  <2>2. PathSum(0, m) = (IF 0 = m THEN 1 ELSE 0) + Sum(s, States)
    <3>1. 0 \in States /\ \A k \in States : s[k] = PathSum(0, k) * Forward(k, m)
      BY StatesFinite
    <3> HIDE DEF s
    <3> QED BY <3>1, PathSumLast
  <2>3. Sum(s, States) = Sum(z, States) /\ AllNat(z, States)
    <3> HIDE DEF s, z
    <3> QED BY <2>1, StatesFinite, SumSame DEF AllNat
  <2>4. Sum(v, In(m)) = Sum(z, States)
    <3>1. ASSUME NEW k \in States PROVE z[k] = IF <<k, m>> \in LiveArcs THEN v[<<k, m>>] ELSE 0
      <4> SUFFICES ASSUME <<k, m>> \in LiveArcs PROVE z[k] = v[<<k, m>>]
        OBVIOUS
      <4>1. <<k, m>> \in In(m) /\ ToSource[<<k, m>>] = k
        BY DEF In, ToSource, LiveArcs
      <4> QED BY <4>1
    <3> HIDE DEF z, v
    <3> QED BY <2>3, <3>1, SumIn
  <2> HIDE DEF nv, z, s
  <2>5. InArcs[m] = In(m)
    BY DEF InArcs
  <2> QED BY <1>1, <2>2, <2>3, <2>4, <2>5
<1>3. ASSUME NEW m \in States
      PROVE  LengthTo(m, l) = Sum([a \in InArcs[m] |-> weight[a] * ne[ToSource[a]]
                                     + nv[ToSource[a]] * (weight[a] * Long(a, l))], InArcs[m])
  <2> DEFINE z == [k \in States |-> IF <<k, m>> \in LiveArcs THEN ToTerm(k, m, l) ELSE 0]
             v == [a \in In(m) |-> weight[a] * ne[ToSource[a]] + nv[ToSource[a]] * (weight[a] * Long(a, l))]
  <2>1. LengthTo(m, l) = Sum(z, States) /\ AllNat(z, States)
    <3>1. \A k \in States : z[k] = IF <<k, m>> \in LiveArcs THEN ToTerm(k, m, l) ELSE 0
      OBVIOUS
    <3> HIDE DEF z
    <3> QED BY <3>1, LengthToStep
  <2>2. Sum(v, In(m)) = Sum(z, States)
    <3>1. ASSUME NEW k \in States PROVE z[k] = IF <<k, m>> \in LiveArcs THEN v[<<k, m>>] ELSE 0
      <4> SUFFICES ASSUME <<k, m>> \in LiveArcs PROVE ToTerm(k, m, l) = v[<<k, m>>]
        OBVIOUS
      <4> DEFINE a == <<k, m>>
      <4>1. a \in In(m) /\ ToSource[a] = k /\ a \in Arcs
        BY DEF In, ToSource, LiveArcs
      <4>2. v[a] = weight[a] * LengthTo(k, l) + PathSum(0, k) * (weight[a] * Long(a, l))
        BY <4>1
      <4>3. weight[a] \in Nat /\ LengthTo(k, l) \in Nat
        BY <4>1, WalkSums DEF Weighted
      <4>4. weight[a] * LengthTo(k, l) = LengthTo(k, l) * weight[a]
        BY <4>3, NatTimes
      <4> HIDE DEF v
      <4> QED BY <4>2, <4>4 DEF ToTerm
    <3> HIDE DEF z, v
    <3> QED BY <2>1, <3>1, SumIn
  <2>3. InArcs[m] = In(m)
    BY DEF InArcs
  <2> HIDE DEF nv, ne, z
  <2> QED BY <2>1, <2>2, <2>3
<1>4. \A m \in States : nv[m] = PathSum(0, m) /\ ne[m] = LengthTo(m, l) /\ nv[m] \in Nat /\ ne[m] \in Nat
  BY WalkSums
<1> HIDE DEF nv, ne
<1>5. Valued(ToBase, InArcs, ToSource, nv, ne, l)
  <2> SUFFICES ASSUME NEW m \in States
               PROVE  /\ IsWeight(ToBase[m]) /\ Expected(ToBase[m], l) \in Nat /\ nv[m] \in Nat /\ ne[m] \in Nat
                      /\ nv[m] = ToBase[m].value + Sum([a \in InArcs[m] |-> nv[ToSource[a]] * weight[a]], InArcs[m])
                      /\ ne[m] = Expected(ToBase[m], l)
                           + Sum([a \in InArcs[m] |-> weight[a] * ne[ToSource[a]]
                                     + nv[ToSource[a]] * (weight[a] * Long(a, l))], InArcs[m])
    BY DEF Valued
  <2>1. IsWeight(ToBase[m]) /\ Expected(ToBase[m], l) = 0 /\ nv[m] \in Nat /\ ne[m] \in Nat
    BY <1>1, <1>4
  <2>2. nv[m] = ToBase[m].value + Sum([a \in InArcs[m] |-> nv[ToSource[a]] * weight[a]], InArcs[m])
    BY <1>2, <1>4
  <2>3. ne[m] = 0 + Sum([a \in InArcs[m] |-> weight[a] * ne[ToSource[a]]
                                     + nv[ToSource[a]] * (weight[a] * Long(a, l))], InArcs[m])
    <3> DEFINE x == Sum([a \in InArcs[m] |-> weight[a] * ne[ToSource[a]]
                                     + nv[ToSource[a]] * (weight[a] * Long(a, l))], InArcs[m])
    <3>1. ne[m] = x /\ ne[m] \in Nat
      BY <1>3, <1>4
    <3> HIDE DEF x
    <3>2. ne[m] = 0 + x
      BY <3>1
    <3> QED BY <3>2 DEF x
  <2> QED BY <2>1, <2>2, <2>3
<1>6. \A m \in States : IsWeight(LengthAlphas[m]) /\ LengthAlphas[m].value = nv[m] /\ Expected(LengthAlphas[m], l) = ne[m]
  BY <1>5, InOutRanked, AlphasAreSums, SumRecValues
<1> QED BY <1>4, <1>6

LEMMA LengthBetasAre ==
  ASSUME Weighted, NEW l \in Lengths, NEW n \in States
  PROVE  /\ IsWeight(LengthBetas[n]) /\ LengthBetas[n].value = SumFrom(n)
         /\ Expected(LengthBetas[n], l) = LengthFrom(n, l)
<1> DEFINE nv == [k \in States |-> SumFrom(k)]
           ne == [k \in States |-> LengthFrom(k, l)]
<1>1. ASSUME NEW m \in States
      PROVE  IsWeight(FromBase[m]) /\ Expected(FromBase[m], l) = 0 /\ FromBase[m].value = final[m]
  <2>1. FromBase[m] = Weight(final[m], WeightOne.e) /\ final[m] \in Nat
    BY DEF FromBase, Weighted
  <2> QED BY <2>1, PlainWeight
<1>2. ASSUME NEW m \in States
      PROVE  SumFrom(m) = FromBase[m].value + Sum([a \in OutArcs[m] |-> nv[ToTarget[a]] * weight[a]], OutArcs[m])
  <2> DEFINE z == [k \in States |-> IF <<m, k>> \in LiveArcs THEN SumFrom(k) * weight[<<m, k>>] ELSE 0]
             v == [a \in Out(m) |-> nv[ToTarget[a]] * weight[a]]
  <2>1. SumFrom(m) = final[m] + Sum(z, States) /\ AllNat(z, States)
    <3>1. \A k \in States : z[k] = IF <<m, k>> \in LiveArcs THEN SumFrom(k) * weight[<<m, k>>] ELSE 0
      OBVIOUS
    <3> HIDE DEF z
    <3> QED BY <3>1, SumFromStep
  <2>2. Sum(v, Out(m)) = Sum(z, States)
    <3>1. ASSUME NEW k \in States PROVE z[k] = IF <<m, k>> \in LiveArcs THEN v[<<m, k>>] ELSE 0
      <4> SUFFICES ASSUME <<m, k>> \in LiveArcs PROVE z[k] = v[<<m, k>>]
        OBVIOUS
      <4>1. <<m, k>> \in Out(m) /\ ToTarget[<<m, k>>] = k
        BY DEF Out, ToTarget, LiveArcs
      <4> QED BY <4>1
    <3> HIDE DEF z, v
    <3> QED BY <2>1, <3>1, SumOut
  <2> HIDE DEF nv, z
  <2>3. OutArcs[m] = Out(m)
    BY DEF OutArcs
  <2> QED BY <1>1, <2>1, <2>2, <2>3
<1>3. ASSUME NEW m \in States
      PROVE  LengthFrom(m, l) = Sum([a \in OutArcs[m] |-> weight[a] * ne[ToTarget[a]]
                                       + nv[ToTarget[a]] * (weight[a] * Long(a, l))], OutArcs[m])
  <2> DEFINE z == [k \in States |-> IF <<m, k>> \in LiveArcs THEN FromTerm(m, k, l) ELSE 0]
             v == [a \in Out(m) |-> weight[a] * ne[ToTarget[a]] + nv[ToTarget[a]] * (weight[a] * Long(a, l))]
  <2>1. LengthFrom(m, l) = Sum(z, States) /\ AllNat(z, States)
    <3>1. \A k \in States : z[k] = IF <<m, k>> \in LiveArcs THEN FromTerm(m, k, l) ELSE 0
      OBVIOUS
    <3> HIDE DEF z
    <3> QED BY <3>1, LengthFromStep
  <2>2. Sum(v, Out(m)) = Sum(z, States)
    <3>1. ASSUME NEW k \in States PROVE z[k] = IF <<m, k>> \in LiveArcs THEN v[<<m, k>>] ELSE 0
      <4> SUFFICES ASSUME <<m, k>> \in LiveArcs PROVE FromTerm(m, k, l) = v[<<m, k>>]
        OBVIOUS
      <4> DEFINE a == <<m, k>>
      <4>1. a \in Out(m) /\ ToTarget[a] = k /\ a \in Arcs
        BY DEF Out, ToTarget, LiveArcs
      <4>2. v[a] = weight[a] * LengthFrom(k, l) + SumFrom(k) * (weight[a] * Long(a, l))
        BY <4>1
      <4>3. weight[a] \in Nat /\ LengthFrom(k, l) \in Nat
        BY <4>1, WalkSums DEF Weighted
      <4>4. weight[a] * LengthFrom(k, l) = LengthFrom(k, l) * weight[a]
        BY <4>3, NatTimes
      <4> HIDE DEF v
      <4> QED BY <4>2, <4>4 DEF FromTerm
    <3> HIDE DEF z, v
    <3> QED BY <2>1, <3>1, SumOut
  <2>3. OutArcs[m] = Out(m)
    BY DEF OutArcs
  <2> HIDE DEF nv, ne, z
  <2> QED BY <2>1, <2>2, <2>3
<1>4. \A m \in States : nv[m] = SumFrom(m) /\ ne[m] = LengthFrom(m, l) /\ nv[m] \in Nat /\ ne[m] \in Nat
  BY WalkSums
<1> HIDE DEF nv, ne
<1>5. Valued(FromBase, OutArcs, ToTarget, nv, ne, l)
  <2> SUFFICES ASSUME NEW m \in States
               PROVE  /\ IsWeight(FromBase[m]) /\ Expected(FromBase[m], l) \in Nat /\ nv[m] \in Nat /\ ne[m] \in Nat
                      /\ nv[m] = FromBase[m].value + Sum([a \in OutArcs[m] |-> nv[ToTarget[a]] * weight[a]], OutArcs[m])
                      /\ ne[m] = Expected(FromBase[m], l)
                           + Sum([a \in OutArcs[m] |-> weight[a] * ne[ToTarget[a]]
                                     + nv[ToTarget[a]] * (weight[a] * Long(a, l))], OutArcs[m])
    BY DEF Valued
  <2>1. IsWeight(FromBase[m]) /\ Expected(FromBase[m], l) = 0 /\ nv[m] \in Nat /\ ne[m] \in Nat
    BY <1>1, <1>4
  <2>2. nv[m] = FromBase[m].value + Sum([a \in OutArcs[m] |-> nv[ToTarget[a]] * weight[a]], OutArcs[m])
    BY <1>2, <1>4
  <2>3. ne[m] = 0 + Sum([a \in OutArcs[m] |-> weight[a] * ne[ToTarget[a]]
                                     + nv[ToTarget[a]] * (weight[a] * Long(a, l))], OutArcs[m])
    <3> DEFINE x == Sum([a \in OutArcs[m] |-> weight[a] * ne[ToTarget[a]]
                                     + nv[ToTarget[a]] * (weight[a] * Long(a, l))], OutArcs[m])
    <3>1. ne[m] = x /\ ne[m] \in Nat
      BY <1>3, <1>4
    <3> HIDE DEF x
    <3>2. ne[m] = 0 + x
      BY <3>1
    <3> QED BY <3>2 DEF x
  <2> QED BY <2>1, <2>2, <2>3
<1>6. \A m \in States : IsWeight(LengthBetas[m]) /\ LengthBetas[m].value = nv[m] /\ Expected(LengthBetas[m], l) = ne[m]
  BY <1>5, InOutRanked, BetasAreSums, SumRecValues
<1> QED BY <1>4, <1>6

-----------------------------------------------------------------------------
(* The gradient of the length penalty, arc by arc and path by path.         *)

\* The weight of the paths through an arc, as it is multiplied in lenmatch.h.
ThroughWeight(a) == Times(Times(LengthAlphas[a[1]], LengthArc(a)), LengthBetas[a[2]])

LEMMA ThroughWeightIs ==
  ASSUME Weighted, NEW a \in Arcs, NEW l \in Lengths
  PROVE  ThroughWeight(a).value = SumThrough(a) /\ Expected(ThroughWeight(a), l) = LengthThrough(a, l)
<1> DEFINE x == LengthAlphas[a[1]]
           y == LengthArc(a)
           z == LengthBetas[a[2]]
           w == weight[a]
           b == Long(a, l)
           xv == PathSum(0, a[1])
           xe == LengthTo(a[1], l)
           zv == SumFrom(a[2])
           ze == LengthFrom(a[2], l)
<1>1. IsWeight(x) /\ x.value = xv /\ Expected(x, l) = xe /\ xv \in Nat /\ xe \in Nat
  BY ArcStates, LengthAlphasAre, WalkSums
<1>2. IsWeight(z) /\ z.value = zv /\ Expected(z, l) = ze /\ zv \in Nat /\ ze \in Nat
  BY ArcStates, LengthBetasAre, WalkSums
<1>3. IsWeight(y) /\ y.value = w /\ Expected(y, l) = w * b /\ w \in Nat /\ b \in Nat
  <2>1. w \in Nat
    BY DEF Weighted
  <2> QED BY <2>1, LengthArcIs, LongType
<1>4. SumThrough(a) = xv * (w * zv)
  BY SumThroughArc
<1>5. LengthThrough(a, l) = xe * (w * zv) + xv * ((w * b) * zv + w * ze)
  BY DEF LengthThrough
<1>6. ThroughWeight(a) = Times(Times(x, y), z)
  BY DEF ThroughWeight
<1> HIDE DEF x, y, z, w, b, xv, xe, zv, ze
<1> DEFINE t == Times(x, y)
<1>7. IsWeight(t) /\ t.value = xv * w /\ Expected(t, l) = w * xe + xv * (w * b)
  BY <1>1, <1>3, WeightTimes
<1> HIDE DEF t
<1>8. Times(t, z).value = t.value * z.value
      /\ Expected(Times(t, z), l) = z.value * Expected(t, l) + t.value * Expected(z, l)
  BY <1>2, <1>7, WeightTimes
<1>9. (xv * w) * zv = xv * (w * zv)
  BY <1>1, <1>2, <1>3, NatTimes
<1>10. zv * (w * xe + xv * (w * b)) + (xv * w) * ze = xe * (w * zv) + xv * ((w * b) * zv + w * ze)
  <2>1. \A q, r, s, u, i, j \in Nat :
           q * (r * s + u * (r * i)) + (u * r) * j = s * (r * q) + u * ((r * i) * q + r * j)
    OBVIOUS
  <2> QED BY <1>1, <1>2, <1>3, <2>1
<1> QED BY <1>2, <1>4, <1>5, <1>6, <1>7, <1>8, <1>9, <1>10 DEF t

\* A sum of differences.
LEMMA SumDifference ==
  ASSUME NEW S, IsFiniteSet(S), NEW n, NEW m, AllNat(n, S), AllNat(m, S), NEW c \in Int,
         NEW v, \A x \in S : v[x] = (n[x] - m[x]) * c
  PROVE  Sum(v, S) = (Sum(n, S) - Sum(m, S)) * c
<1> DEFINE Bad == {t \in SUBSET S : Sum(v, t) # (Sum(n, t) - Sum(m, t)) * c}
<1>1. Bad \in SUBSET SUBSET S
  OBVIOUS
<1>2. SUFFICES ASSUME Bad # {} PROVE FALSE
  BY S \in SUBSET S
<1>3. PICK t \in Bad : \A u \in Bad : u \subseteq t => u = t
  <2> HIDE DEF Bad
  <2> QED BY <1>1, <1>2, Smallest
<1>4. Sum(v, t) # (Sum(n, t) - Sum(m, t)) * c /\ t \in SUBSET S
  OBVIOUS
<1>5. t # {}
  <2> SUFFICES ASSUME t = {} PROVE FALSE
    OBVIOUS
  <2>1. Sum(v, t) = 0 /\ Sum(n, t) = 0 /\ Sum(m, t) = 0
    BY SumEmpty
  <2>2. (0 - 0) * c = 0
    OBVIOUS
  <2> HIDE DEF Bad
  <2> QED BY <1>4, <2>1, <2>2
<1> DEFINE p == Pick(t)
           r == t \ {Pick(t)}
<1>6. /\ Sum(n, t) = n[p] + Sum(n, r) /\ n[p] \in Nat /\ Sum(n, r) \in Nat
      /\ p \in t /\ p \in S /\ r \in SUBSET S /\ r \subseteq t /\ r # t
  <2> HIDE DEF Bad
  <2>0. t \in SUBSET S
    BY <1>4
  <2>1. p \in t /\ p \in S /\ r \in SUBSET S /\ r \subseteq t /\ r # t
    BY ONLY <2>0, <1>5, PickIn
  <2>2. Sum(n, t) = n[p] + Sum(n, r) /\ n[p] \in Nat /\ Sum(n, r) \in Nat
    BY ONLY <2>0, <1>5, IsFiniteSet(S), AllNat(n, S), Peel
  <2> QED BY <2>1, <2>2
<1>7. Sum(m, t) = m[p] + Sum(m, r) /\ m[p] \in Nat /\ Sum(m, r) \in Nat
  <2>0. t \in SUBSET S
    BY <1>4
  <2> HIDE DEF Bad
  <2> QED BY ONLY <2>0, <1>5, IsFiniteSet(S), AllNat(m, S), Peel
<1>8. Sum(v, t) = v[p] + Sum(v, r)
  <2>1. IsFiniteSet(t)
    BY <1>4, FS_Subset
  <2> QED BY <1>5, <2>1, FoldRec DEF Sum, Op
<1>9. Sum(v, r) = (Sum(n, r) - Sum(m, r)) * c
  BY <1>3, <1>6
<1>10. v[p] = (n[p] - m[p]) * c
  BY <1>6
<1>11. \A i, j, k, l \in Nat : (i - j) * c + (k - l) * c = ((i + k) - (j + l)) * c
  OBVIOUS
<1>12. (n[p] - m[p]) * c + (Sum(n, r) - Sum(m, r)) * c = ((n[p] + Sum(n, r)) - (m[p] + Sum(m, r))) * c
  BY <1>6, <1>7, <1>11
<1> HIDE DEF p, r, Bad
<1> QED BY <1>4, <1>6, <1>7, <1>8, <1>9, <1>10, <1>12

\* The gradients, and what they should be, string by string.
FiredArcs(f) ==
  {a \in LiveArcs : LengthAlphas[a[1]].value # 0 /\ LengthBetas[a[2]].value # 0 /\ Fires(a, f) # 0}
Term(a, f, l) ==
  Fires(a, f) * (Expected(ThroughWeight(a), l) * LengthBetas[0].value
                   - ThroughWeight(a).value * Expected(LengthBetas[0], l))
    * (Expected(LengthBetas[0], l) - EmpiricalLength * LengthBetas[0].value)
GradientOf(f, l) == MapThenSumSet(LAMBDA a : Term(a, f, l), FiredArcs(f))
TotalLength(l) == SumOf(LAMBDA p : LengthOf(p, l))
Covariance(f, l) == SumOf(LAMBDA p : FiresOn(p, f) * (LengthOf(p, l) * SumFrom(0) - TotalLength(l)))
Penalty(f, l) == Covariance(f, l) * (TotalLength(l) - EmpiricalLength * SumFrom(0))
Penalties(f) == MapThenSumSet(LAMBDA l : Penalty(f, l), {LENGTH_X, LENGTH_Y})

LEMMA GradientByString ==
  ASSUME NEW f
  PROVE  LengthGradient(f) = MapThenSumSet(LAMBDA l : GradientOf(f, l), {LENGTH_X, LENGTH_Y})
BY Zenon DEF LengthGradient, GradientOf, Term, FiredArcs, ThroughWeight

LEMMA GradientIsFold ==
  ASSUME NEW f
  PROVE  LengthGradient(f) = Sum([l \in Lengths |-> GradientOf(f, l)], Lengths)
<1> DEFINE S == {LENGTH_X, LENGTH_Y}
           v == [l \in S |-> GradientOf(f, l)]
           R(g) == g = [s \in SUBSET S |-> IF s = {} THEN 0 ELSE GradientOf(f, Pick(s)) + g[s \ {Pick(s)}]]
           X == MapThenSumSet(LAMBDA l : GradientOf(f, l), S)
<1>1. ASSUME NEW g PROVE Rec("plus", v, S, g) <=> R(g)
  <2>1. \A s \in SUBSET S :
          (IF s = {} THEN Base("plus") ELSE Op("plus", v[Pick(s)], g[s \ {Pick(s)}]))
            = (IF s = {} THEN 0 ELSE GradientOf(f, Pick(s)) + g[s \ {Pick(s)}])
    <3> HIDE DEF S
    <3> QED BY PickIn DEF Base, Op
  <2> HIDE DEF S
  <2> QED BY <2>1 DEF Rec
<1>2. (CHOOSE g : Rec("plus", v, S, g)) = (CHOOSE g : R(g))
  <2> HIDE DEF R, v, S
  <2> QED BY <1>1
<1>3. X = (CHOOSE g : R(g))[S]
  BY Zenon DEF MapThenSumSet, MapThenFoldSet, Pick
<1>4. LengthGradient(f) = X
  BY Zenon, GradientByString
<1> HIDE DEF R, v, S, X
<1>5. X = Sum(v, S)
  BY <1>2, <1>3 DEF Fold, Sum
<1> QED BY <1>4, <1>5 DEF v, S, Lengths

LEMMA PenaltiesAreFold ==
  ASSUME NEW f
  PROVE  Penalties(f) = Sum([l \in Lengths |-> Penalty(f, l)], Lengths)
<1> DEFINE S == {LENGTH_X, LENGTH_Y}
           v == [l \in S |-> Penalty(f, l)]
           R(g) == g = [s \in SUBSET S |-> IF s = {} THEN 0 ELSE Penalty(f, Pick(s)) + g[s \ {Pick(s)}]]
<1>1. ASSUME NEW g PROVE Rec("plus", v, S, g) <=> R(g)
  <2>1. \A s \in SUBSET S :
          (IF s = {} THEN Base("plus") ELSE Op("plus", v[Pick(s)], g[s \ {Pick(s)}]))
            = (IF s = {} THEN 0 ELSE Penalty(f, Pick(s)) + g[s \ {Pick(s)}])
    <3> HIDE DEF S
    <3> QED BY PickIn DEF Base, Op
  <2> HIDE DEF S
  <2> QED BY <2>1 DEF Rec
<1>2. (CHOOSE g : Rec("plus", v, S, g)) = (CHOOSE g : R(g))
  <2> HIDE DEF R, v, S
  <2> QED BY <1>1
<1>3. Penalties(f) = (CHOOSE g : R(g))[S]
  BY Zenon DEF Penalties, MapThenSumSet, MapThenFoldSet, Pick
<1> HIDE DEF R, v, S
<1>4. Penalties(f) = Sum(v, S)
  BY <1>2, <1>3 DEF Fold, Sum
<1> QED BY <1>4 DEF v, S, Lengths

LEMMA GradientOfIsFold ==
  ASSUME NEW f, NEW l
  PROVE  GradientOf(f, l) = Sum([a \in FiredArcs(f) |-> Term(a, f, l)], FiredArcs(f))
<1> DEFINE S == FiredArcs(f)
           v == [a \in S |-> Term(a, f, l)]
           R(g) == g = [s \in SUBSET S |-> IF s = {} THEN 0 ELSE Term(Pick(s), f, l) + g[s \ {Pick(s)}]]
<1>1. ASSUME NEW g PROVE Rec("plus", v, S, g) <=> R(g)
  <2>1. \A s \in SUBSET S :
          (IF s = {} THEN Base("plus") ELSE Op("plus", v[Pick(s)], g[s \ {Pick(s)}]))
            = (IF s = {} THEN 0 ELSE Term(Pick(s), f, l) + g[s \ {Pick(s)}])
    BY PickIn DEF Base, Op
  <2> QED BY <2>1 DEF Rec
<1>2. (CHOOSE g : Rec("plus", v, S, g)) = (CHOOSE g : R(g))
  <2> HIDE DEF R, v
  <2> QED BY <1>1
<1>3. GradientOf(f, l) = (CHOOSE g : R(g))[S]
  BY Zenon DEF GradientOf, MapThenSumSet, MapThenFoldSet, Pick
<1> HIDE DEF R, v
<1>4. GradientOf(f, l) = Sum(v, S)
  BY <1>2, <1>3 DEF Fold, Sum
<1> QED BY <1>4 DEF v

LEMMA TotalLengthIsFold ==
  ASSUME NEW l
  PROVE  TotalLength(l) = Sum([p \in PathsFrom(0) |-> Accepted(p) * LengthOf(p, l)], PathsFrom(0))
<1> DEFINE S == PathsFrom(0)
           v == [p \in S |-> Accepted(p) * LengthOf(p, l)]
           R(g) == g = [s \in SUBSET S |-> IF s = {} THEN 0
                          ELSE Accepted(Pick(s)) * LengthOf(Pick(s), l) + g[s \ {Pick(s)}]]
<1>1. ASSUME NEW g PROVE Rec("plus", v, S, g) <=> R(g)
  <2>1. \A s \in SUBSET S :
          (IF s = {} THEN Base("plus") ELSE Op("plus", v[Pick(s)], g[s \ {Pick(s)}]))
            = (IF s = {} THEN 0 ELSE Accepted(Pick(s)) * LengthOf(Pick(s), l) + g[s \ {Pick(s)}])
    BY PickIn DEF Base, Op
  <2> QED BY <2>1 DEF Rec
<1>2. (CHOOSE g : Rec("plus", v, S, g)) = (CHOOSE g : R(g))
  <2> HIDE DEF R, v
  <2> QED BY <1>1
<1>3. TotalLength(l) = (CHOOSE g : R(g))[S]
  BY Zenon DEF TotalLength, SumOf, MapThenSumSet, MapThenFoldSet, Pick
<1> HIDE DEF R, v
<1>4. TotalLength(l) = Sum(v, S)
  BY <1>2, <1>3 DEF Fold, Sum
<1> QED BY <1>4 DEF v

\* The difference of a path's length and the expected one, times the total.
Deviation(p, l) == LengthOf(p, l) * SumFrom(0) - TotalLength(l)

LEMMA CovarianceIsFold ==
  ASSUME NEW f, NEW l
  PROVE  Covariance(f, l) = Sum([p \in PathsFrom(0) |-> Accepted(p) * (FiresOn(p, f) * Deviation(p, l))], PathsFrom(0))
<1> DEFINE S == PathsFrom(0)
           v == [p \in S |-> Accepted(p) * (FiresOn(p, f) * Deviation(p, l))]
           R(g) == g = [s \in SUBSET S |-> IF s = {} THEN 0
                          ELSE Accepted(Pick(s)) * (FiresOn(Pick(s), f) * Deviation(Pick(s), l)) + g[s \ {Pick(s)}]]
<1>1. ASSUME NEW g PROVE Rec("plus", v, S, g) <=> R(g)
  <2>1. \A s \in SUBSET S :
          (IF s = {} THEN Base("plus") ELSE Op("plus", v[Pick(s)], g[s \ {Pick(s)}]))
            = (IF s = {} THEN 0
               ELSE Accepted(Pick(s)) * (FiresOn(Pick(s), f) * Deviation(Pick(s), l)) + g[s \ {Pick(s)}])
    BY PickIn DEF Base, Op
  <2> QED BY <2>1 DEF Rec
<1>2. (CHOOSE g : Rec("plus", v, S, g)) = (CHOOSE g : R(g))
  <2> HIDE DEF R, v
  <2> QED BY <1>1
<1>3. Covariance(f, l) = (CHOOSE g : R(g))[S]
  BY Zenon DEF Covariance, Deviation, SumOf, MapThenSumSet, MapThenFoldSet, Pick
<1> HIDE DEF R, v
<1>4. Covariance(f, l) = Sum(v, S)
  BY <1>2, <1>3 DEF Fold, Sum
<1> QED BY <1>4 DEF v

LEMMA LengthByArc ==
  ASSUME Weighted, NEW l
  PROVE  /\ ByArc(AcceptLength(l), [a \in Arcs |-> LengthThrough(a, l)])
         /\ AllNat(AcceptLength(l), PathsFrom(0)) /\ AllNat(Accepting, PathsFrom(0))
<1> DEFINE t == [a \in Arcs |-> LengthThrough(a, l)]
           u == AcceptLength(l)
<1>1. /\ 0 \in States /\ IsFiniteSet(PathsFrom(0)) /\ PathsFrom(0) \in SUBSET SUBSET States
      /\ AllNat(u, PathsFrom(0)) /\ AllNat(Accepting, PathsFrom(0))
  BY StatesFinite, WalkSets
<1>2. ASSUME NEW a \in Arcs
      PROVE  t[a] = Sum([p \in PathsFrom(0) |-> IF a \in ArcsOf(p) THEN u[p] ELSE 0], PathsFrom(0))
  <2> DEFINE v == [p \in PathsFrom(0) |-> IF a \in ArcsOf(p) THEN u[p] ELSE 0]
  <2>1. \A p \in PathsFrom(0) : Through(a, l)[p] = v[p]
    BY <1>1 DEF Through
  <2>2. Sum(Through(a, l), PathsFrom(0)) = Sum(v, PathsFrom(0))
    <3> HIDE DEF v
    <3> QED BY <1>1, <2>1, SumSame
  <2>3. t[a] = LengthThrough(a, l)
    OBVIOUS
  <2> HIDE DEF t, v
  <2>4. t[a] = Sum(v, PathsFrom(0))
    BY <2>2, <2>3, LengthThroughIs
  <2> QED BY <2>4 DEF v
<1> HIDE DEF t, u
<1>3. ByArc(u, t)
  BY <1>2 DEF ByArc
<1> QED BY <1>1, <1>3 DEF t, u

\* An arc that no accepting path is on adds nothing to the lengths.
LEMMA NoPathNoLength ==
  ASSUME Weighted, NEW a \in Arcs, NEW l, SumThrough(a) = 0
  PROVE  LengthThrough(a, l) = 0
<1>1. 0 \in States /\ IsFiniteSet(PathsFrom(0)) /\ AllNat(Using(a), PathsFrom(0)) /\ PathsFrom(0) \in SUBSET SUBSET States
  BY StatesFinite, PathTypes, WalkSets
<1>2. Sum(Using(a), PathsFrom(0)) = 0
  BY SumThroughIs
<1>3. \A p \in PathsFrom(0) : Using(a)[p] = 0
  BY <1>1, <1>2, SumIsZero
<1>4. ASSUME NEW p \in PathsFrom(0) PROVE Through(a, l)[p] = 0
  <2>1. p \in SUBSET States
    BY <1>1
  <2>2. CASE a \in ArcsOf(p)
    <3>1. Accepted(p) = 0
      BY <1>3, <2>1, <2>2 DEF Using
    <3>2. AcceptLength(l)[p] = Accepted(p) * LengthOf(p, l) /\ LengthOf(p, l) \in Nat
      BY <1>1, WalkTypes
    <3>3. AcceptLength(l)[p] = 0
      BY <3>1, <3>2, NatTimes
    <3> QED BY <2>1, <3>3 DEF Through
  <2>3. CASE a \notin ArcsOf(p)
    BY <2>1, <2>3 DEF Through
  <2> QED BY <2>2, <2>3
<1>5. Sum(Through(a, l), PathsFrom(0)) = 0
  BY <1>1, <1>4, SumZero
<1> QED BY <1>5, LengthThroughIs

LEMMA TotalLengthIs ==
  ASSUME Weighted, NEW l \in Lengths
  PROVE  /\ TotalLength(l) = LengthFrom(0, l) /\ TotalLength(l) \in Nat /\ SumFrom(0) \in Nat
         /\ LengthBetas[0].value = SumFrom(0) /\ Expected(LengthBetas[0], l) = TotalLength(l)
<1> DEFINE v == [p \in PathsFrom(0) |-> Accepted(p) * LengthOf(p, l)]
<1>1. 0 \in States /\ IsFiniteSet(PathsFrom(0))
  BY StatesFinite, WalkSets
<1>2. \A p \in PathsFrom(0) : AcceptLength(l)[p] = v[p]
  BY <1>1, WalkTypes
<1>3. TotalLength(l) = Sum(v, PathsFrom(0))
  BY TotalLengthIsFold
<1> HIDE DEF v
<1>4. TotalLength(l) = LengthFrom(0, l)
  BY <1>1, <1>2, <1>3, SumSame DEF LengthFrom
<1> QED BY <1>1, <1>4, WalkSums, LengthBetasAre

\* The sums over the paths of how often a feature fires, and of that times the length.
FiredLength(f, l) == Sum([p \in PathsFrom(0) |-> AcceptLength(l)[p] * FiresOn(p, f)], PathsFrom(0))
FiredTotal(f) == Sum([p \in PathsFrom(0) |-> Accepting[p] * FiresOn(p, f)], PathsFrom(0))

LEMMA FiredSums ==
  ASSUME Weighted, NEW f \in Features, NEW l
  PROVE  /\ Sum([a \in Arcs |-> Fires(a, f) * LengthThrough(a, l)], Arcs) = FiredLength(f, l)
         /\ Sum([a \in Arcs |-> Fires(a, f) * SumThrough(a)], Arcs) = FiredTotal(f)
         /\ AllNat([a \in Arcs |-> Fires(a, f) * LengthThrough(a, l)], Arcs)
         /\ AllNat([a \in Arcs |-> Fires(a, f) * SumThrough(a)], Arcs)
         /\ AllNat([p \in PathsFrom(0) |-> AcceptLength(l)[p] * FiresOn(p, f)], PathsFrom(0))
         /\ AllNat([p \in PathsFrom(0) |-> Accepting[p] * FiresOn(p, f)], PathsFrom(0))
<1> DEFINE t1 == [a \in Arcs |-> LengthThrough(a, l)]
           s1 == [a \in Arcs |-> Fires(a, f) * LengthThrough(a, l)]
           z1 == [p \in PathsFrom(0) |-> AcceptLength(l)[p] * FiresOn(p, f)]
           t2 == [a \in Arcs |-> SumThrough(a)]
           s2 == [a \in Arcs |-> Fires(a, f) * SumThrough(a)]
           z2 == [p \in PathsFrom(0) |-> Accepting[p] * FiresOn(p, f)]
<1>1. ByArc(AcceptLength(l), t1) /\ AllNat(AcceptLength(l), PathsFrom(0)) /\ AllNat(Accepting, PathsFrom(0))
  BY LengthByArc
<1>2. ByArc(Accepting, t2)
  BY ThroughByArc
<1>3. /\ \A a \in Arcs : s1[a] = Fires(a, f) * t1[a]
      /\ \A p \in PathsFrom(0) : z1[p] = AcceptLength(l)[p] * FiresOn(p, f)
  OBVIOUS
<1>4. /\ \A a \in Arcs : s2[a] = Fires(a, f) * t2[a]
      /\ \A p \in PathsFrom(0) : z2[p] = Accepting[p] * FiresOn(p, f)
  OBVIOUS
<1> HIDE DEF t1, s1, z1, t2, s2, z2
<1>5. Sum(s1, Arcs) = Sum(z1, PathsFrom(0)) /\ AllNat(s1, Arcs) /\ AllNat(z1, PathsFrom(0))
  BY <1>1, <1>3, FiresByArc
<1>6. Sum(s2, Arcs) = Sum(z2, PathsFrom(0)) /\ AllNat(s2, Arcs) /\ AllNat(z2, PathsFrom(0))
  BY <1>1, <1>2, <1>4, FiresByArc
<1> QED BY <1>5, <1>6 DEF FiredLength, FiredTotal, s1, z1, s2, z2

\* How wrong the expected length is, times the total.
Excess(l) == TotalLength(l) - EmpiricalLength * SumFrom(0)

LEMMA ExcessType ==
  ASSUME Weighted, NEW l \in Lengths
  PROVE  Excess(l) \in Int
<1>1. TotalLength(l) \in Nat /\ SumFrom(0) \in Nat /\ EmpiricalLength \in Nat
  BY TotalLengthIs, ArcsAssumption
<1>2. EmpiricalLength * SumFrom(0) \in Nat
  BY <1>1, NatTimes
<1> QED BY <1>1, <1>2 DEF Excess

LEMMA GradientOfIs ==
  ASSUME Weighted, NEW f \in Features, NEW l \in Lengths
  PROVE  GradientOf(f, l) = (SumFrom(0) * FiredLength(f, l) - TotalLength(l) * FiredTotal(f)) * Excess(l)
<1> DEFINE T == SumFrom(0)
           L == TotalLength(l)
           D == Excess(l)
           s1 == [a \in Arcs |-> Fires(a, f) * LengthThrough(a, l)]
           s2 == [a \in Arcs |-> Fires(a, f) * SumThrough(a)]
           n == [a \in Arcs |-> T * s1[a]]
           m == [a \in Arcs |-> L * s2[a]]
           S == FiredArcs(f)
           v == [a \in S |-> Term(a, f, l)]
<1>1. T \in Nat /\ L \in Nat /\ D \in Int
  BY TotalLengthIs, ExcessType
<1>2. /\ Sum(s1, Arcs) = FiredLength(f, l) /\ Sum(s2, Arcs) = FiredTotal(f)
      /\ AllNat(s1, Arcs) /\ AllNat(s2, Arcs)
  BY FiredSums
<1>3. IsFiniteSet(Arcs) /\ S \in SUBSET Arcs /\ IsFiniteSet(S)
  <2>1. IsFiniteSet(Arcs) /\ S \in SUBSET Arcs
    BY StatesFinite DEF FiredArcs, LiveArcs
  <2> HIDE DEF S
  <2> QED BY <2>1, FS_Subset
<1>4. ASSUME NEW a \in Arcs
      PROVE  /\ n[a] \in Nat /\ m[a] \in Nat
             /\ (a \in S => v[a] = (n[a] - m[a]) * D)
             /\ (a \notin S => n[a] = 0 /\ m[a] = 0)
  <2> DEFINE x == LengthThrough(a, l)
             y == SumThrough(a)
             i == Fires(a, f)
  <2>1. s1[a] = i * x /\ s2[a] = i * y /\ s1[a] \in Nat /\ s2[a] \in Nat
    <3>1. s1[a] = i * x /\ s2[a] = i * y
      OBVIOUS
    <3>2. s1[a] \in Nat /\ s2[a] \in Nat
      <4> HIDE DEF s1, s2
      <4> QED BY <1>2 DEF AllNat
    <3> HIDE DEF s1, s2, i, x, y
    <3> QED BY <3>1, <3>2
  <2>2. n[a] = T * (i * x) /\ m[a] = L * (i * y)
    OBVIOUS
  <2>3. i \in Nat /\ y \in Nat /\ x \in Nat
    <3>1. i \in Nat /\ y \in Nat
      BY FiredFacts, ThroughType
    <3>2. x \in Nat
      <4>1. ByArc(AcceptLength(l), [b \in Arcs |-> LengthThrough(b, l)]) /\ AllNat(AcceptLength(l), PathsFrom(0))
        BY LengthByArc
      <4> DEFINE t == [b \in Arcs |-> LengthThrough(b, l)]
                 s == [b \in Arcs |-> Fires(b, f) * t[b]]
                 z == [p \in PathsFrom(0) |-> AcceptLength(l)[p] * FiresOn(p, f)]
      <4>2. t[a] = x
        OBVIOUS
      <4>3. (\A b \in Arcs : s[b] = Fires(b, f) * t[b]) /\ \A p \in PathsFrom(0) : z[p] = AcceptLength(l)[p] * FiresOn(p, f)
        OBVIOUS
      <4>4. ByArc(AcceptLength(l), t)
        BY <4>1
      <4> HIDE DEF t, s, z
      <4>5. AllNat(t, Arcs)
        BY <4>1, <4>3, <4>4, FiresByArc
      <4> HIDE DEF x
      <4> QED BY <4>2, <4>5 DEF AllNat
    <3> HIDE DEF i, x, y
    <3> QED BY <3>1, <3>2
  <2>4. T * (i * x) \in Nat /\ L * (i * y) \in Nat
    <3>1. i * x \in Nat /\ i * y \in Nat
      <4> HIDE DEF i, x, y
      <4> QED BY <2>3, NatTimes
    <3> HIDE DEF i, x, y, T, L
    <3> QED BY <1>1, <3>1, NatTimes
  <2>5. ASSUME a \in S PROVE v[a] = (T * (i * x) - L * (i * y)) * D
    <3>1. v[a] = Term(a, f, l)
      BY <2>5
    <3>2. ThroughWeight(a).value = y /\ Expected(ThroughWeight(a), l) = x
      BY ThroughWeightIs
    <3>3. LengthBetas[0].value = T /\ Expected(LengthBetas[0], l) = L
      BY TotalLengthIs
    <3>4. D = L - EmpiricalLength * T
      BY DEF Excess
    <3>5. Term(a, f, l) = (i * (x * T - y * L)) * D
      <4> HIDE DEF v, i, x, y, T, L, D
      <4> QED BY <3>2, <3>3, <3>4 DEF Term, i
    <3>6. i * (x * T - y * L) = T * (i * x) - L * (i * y)
      <4>1. \A q, r, s, j, k \in Nat : q * (r * s - j * k) = s * (q * r) - k * (q * j)
        OBVIOUS
      <4> HIDE DEF i, x, y, T, L, D
      <4> QED BY <1>1, <2>3, <4>1
    <3> HIDE DEF v, i, x, y, T, L, D
    <3> QED BY <3>1, <3>5, <3>6
  <2>6. ASSUME a \notin S PROVE i * x = 0 /\ i * y = 0
    <3>1. \/ weight[a] = 0 \/ i = 0 \/ LengthAlphas[a[1]].value = 0 \/ LengthBetas[a[2]].value = 0
      BY <2>6 DEF FiredArcs, LiveArcs
    <3>2. LengthAlphas[a[1]].value = PathSum(0, a[1]) /\ LengthBetas[a[2]].value = SumFrom(a[2])
      BY ArcStates, LengthAlphasAre, LengthBetasAre
    <3>3. CASE i = 0
      <4> HIDE DEF i, x, y
      <4> QED BY <2>3, <3>3, NatTimes
    <3>4. CASE i # 0
      <4>1. weight[a] = 0 \/ PathSum(0, a[1]) = 0 \/ SumFrom(a[2]) = 0
        BY <3>1, <3>2, <3>4
      <4>2. y = PathSum(0, a[1]) * (weight[a] * SumFrom(a[2])) /\ weight[a] \in Nat /\ PathSum(0, a[1]) \in Nat /\ SumFrom(a[2]) \in Nat
        BY ThroughType
      <4>3. y = 0
        <5>1. weight[a] * SumFrom(a[2]) \in Nat
          BY <4>2, NatTimes
        <5>2. weight[a] = 0 \/ SumFrom(a[2]) = 0 => weight[a] * SumFrom(a[2]) = 0
          BY <4>2, NatTimes
        <5> HIDE DEF y
        <5> QED BY <4>1, <4>2, <5>1, <5>2, NatTimes
      <4>4. x = 0
        BY <4>3, NoPathNoLength
      <4> HIDE DEF i, x, y
      <4> QED BY <2>3, <4>3, <4>4, NatTimes
    <3> QED BY <3>3, <3>4
  <2>7. T * 0 = 0 /\ L * 0 = 0
    <3> HIDE DEF T, L
    <3> QED BY <1>1, NatTimes
  <2> HIDE DEF n, m, v, i, x, y, T, L, D, S, s1, s2
  <2> QED BY <2>2, <2>4, <2>5, <2>6, <2>7
<1>5. (\A a \in Arcs : n[a] = T * s1[a]) /\ \A a \in Arcs : m[a] = L * s2[a]
  OBVIOUS
<1>6. GradientOf(f, l) = Sum(v, S)
  BY GradientOfIsFold
<1> HIDE DEF n, m, v, T, L, D, S, s1, s2
<1>7. AllNat(n, Arcs) /\ AllNat(m, Arcs) /\ AllNat(n, S) /\ AllNat(m, S)
  BY <1>3, <1>4 DEF AllNat
<1>8. Sum(v, S) = (Sum(n, S) - Sum(m, S)) * D
  <2>1. \A a \in S : v[a] = (n[a] - m[a]) * D
    BY <1>3, <1>4
  <2> QED BY <1>1, <1>3, <1>7, <2>1, SumDifference
<1>9. Sum(n, S) = Sum(n, Arcs) /\ Sum(m, S) = Sum(m, Arcs)
  BY <1>3, <1>4, <1>7, SumExtend
<1>10. Sum(n, Arcs) = T * Sum(s1, Arcs) /\ Sum(m, Arcs) = L * Sum(s2, Arcs)
  BY <1>1, <1>2, <1>3, <1>5, SumScale
<1> QED BY <1>2, <1>6, <1>8, <1>9, <1>10 DEF T, L, D

LEMMA CovarianceIs ==
  ASSUME Weighted, NEW f \in Features, NEW l \in Lengths
  PROVE  Covariance(f, l) = (SumFrom(0) * FiredLength(f, l) - TotalLength(l) * FiredTotal(f)) * 1
<1> DEFINE P == PathsFrom(0)
           T == SumFrom(0)
           L == TotalLength(l)
           z1 == [p \in P |-> AcceptLength(l)[p] * FiresOn(p, f)]
           z2 == [p \in P |-> Accepting[p] * FiresOn(p, f)]
           n == [p \in P |-> T * z1[p]]
           m == [p \in P |-> L * z2[p]]
           v == [p \in P |-> Accepted(p) * (FiresOn(p, f) * Deviation(p, l))]
<1>1. T \in Nat /\ L \in Nat
  BY TotalLengthIs
<1>2. 0 \in States /\ IsFiniteSet(P) /\ P \in SUBSET SUBSET States
  BY StatesFinite, WalkSets
<1>3. Sum(z1, P) = FiredLength(f, l) /\ Sum(z2, P) = FiredTotal(f) /\ AllNat(z1, P) /\ AllNat(z2, P)
  BY FiredSums DEF FiredLength, FiredTotal
<1>4. ASSUME NEW p \in P PROVE n[p] \in Nat /\ m[p] \in Nat /\ v[p] = (n[p] - m[p]) * 1
  <2> DEFINE x == Accepted(p)
             y == LengthOf(p, l)
             i == FiresOn(p, f)
  <2>1. x \in Nat /\ y \in Nat /\ AcceptLength(l)[p] = x * y /\ Accepting[p] = x
    BY <1>2, WalkTypes
  <2>2. i \in Nat
    <3> DEFINE r == [a \in Arcs |-> IF a \in ArcsOf(p) THEN Fires(a, f) ELSE 0]
    <3>1. \A a \in Arcs : r[a] = IF a \in ArcsOf(p) THEN Fires(a, f) ELSE 0
      OBVIOUS
    <3> HIDE DEF r
    <3> QED BY <1>2, <3>1, FiresOnIs
  <2>3. n[p] = T * (AcceptLength(l)[p] * i) /\ m[p] = L * (Accepting[p] * i)
    OBVIOUS
  <2>4. v[p] = x * (i * (y * T - L))
    BY DEF Deviation
  <2>5. T * ((x * y) * i) \in Nat /\ L * (x * i) \in Nat
    <3> HIDE DEF x, y, i, T, L
    <3>1. x * y \in Nat /\ x * i \in Nat
      BY <2>1, <2>2, NatTimes
    <3>2. (x * y) * i \in Nat
      BY <2>2, <3>1, NatTimes
    <3> QED BY <1>1, <3>1, <3>2, NatTimes
  <2>6. x * (i * (y * T - L)) = (T * ((x * y) * i) - L * (x * i)) * 1
    <3>1. \A q, r, s, j, k \in Nat : q * (r * (s * j - k)) = (j * ((q * s) * r) - k * (q * r)) * 1
      OBVIOUS
    <3> HIDE DEF x, y, i, T, L
    <3> QED BY <1>1, <2>1, <2>2, <3>1
  <2> HIDE DEF n, m, v, x, y, i, T, L
  <2> QED BY <2>1, <2>3, <2>4, <2>5, <2>6
<1>5. (\A p \in P : n[p] = T * z1[p]) /\ \A p \in P : m[p] = L * z2[p]
  OBVIOUS
<1>6. Covariance(f, l) = Sum(v, P)
  BY CovarianceIsFold
<1> HIDE DEF n, m, v, T, L, z1, z2, P
<1>7. AllNat(n, P) /\ AllNat(m, P)
  BY <1>4 DEF AllNat
<1>8. Sum(v, P) = (Sum(n, P) - Sum(m, P)) * 1
  <2>1. (\A p \in P : v[p] = (n[p] - m[p]) * 1) /\ 1 \in Int
    BY <1>4
  <2> QED BY <1>2, <1>7, <2>1, SumDifference
<1>9. Sum(n, P) = T * Sum(z1, P) /\ Sum(m, P) = L * Sum(z2, P)
  BY <1>1, <1>2, <1>3, <1>5, SumScale
<1> QED BY <1>3, <1>6, <1>8, <1>9 DEF T, L

-----------------------------------------------------------------------------
(* Every expected count and every gradient is the one over the paths.       *)

LEMMA GradientExact ==
  ASSUME Weighted, NEW f \in Features
  PROVE  LengthGradient(f) = Penalties(f)
<1> DEFINE v == [l \in Lengths |-> GradientOf(f, l)]
           w == [l \in Lengths |-> Penalty(f, l)]
<1>1. ASSUME NEW l \in Lengths PROVE GradientOf(f, l) = Penalty(f, l)
  <2> DEFINE x == SumFrom(0) * FiredLength(f, l) - TotalLength(l) * FiredTotal(f)
  <2>1. GradientOf(f, l) = x * Excess(l) /\ Covariance(f, l) = x * 1
    BY GradientOfIs, CovarianceIs
  <2>2. x \in Int
    <3>1. SumFrom(0) \in Nat /\ TotalLength(l) \in Nat
      BY TotalLengthIs
    <3>2. FiredLength(f, l) \in Nat /\ FiredTotal(f) \in Nat
      <4>1. IsFiniteSet(PathsFrom(0))
        BY StatesFinite, PathsFinite
      <4>2. /\ AllNat([p \in PathsFrom(0) |-> AcceptLength(l)[p] * FiresOn(p, f)], PathsFrom(0))
            /\ AllNat([p \in PathsFrom(0) |-> Accepting[p] * FiresOn(p, f)], PathsFrom(0))
        BY FiredSums
      <4> QED BY <4>1, <4>2, SumType DEF FiredLength, FiredTotal
    <3>3. SumFrom(0) * FiredLength(f, l) \in Nat /\ TotalLength(l) * FiredTotal(f) \in Nat
      BY <3>1, <3>2, NatTimes
    <3> QED BY <3>3
  <2> HIDE DEF x
  <2>3. x * 1 = x
    BY <2>2
  <2> QED BY <2>1, <2>3 DEF Penalty, Excess
<1>2. IsFiniteSet(Lengths)
  <2>1. Lengths = 0 .. 1
    BY DEF Lengths, LENGTH_X, LENGTH_Y
  <2>2. IsFiniteSet(0 .. 1)
    <3>1. 0 \in Int /\ 1 \in Int
      OBVIOUS
    <3> QED BY <3>1, FS_Interval
  <2> QED BY <2>1, <2>2
<1>3. \A l \in Lengths : v[l] = w[l]
  BY <1>1
<1>4. LengthGradient(f) = Sum(v, Lengths) /\ Penalties(f) = Sum(w, Lengths)
  BY GradientIsFold, PenaltiesAreFold
<1> HIDE DEF v, w
<1> QED BY <1>2, <1>3, <1>4, SumSame

LEMMA ExpectationsExactIs ==
  ExpectationsExact <=>
    (pc = "done" /\ ~ matrix /\ SumFrom(0) # 0 =>
       \A f \in Features : FeatExpectation(f) = AllFires(f) /\ LengthGradient(f) = Penalties(f))
BY Zenon DEF ExpectationsExact, AllFires, Penalties, Penalty, Covariance, TotalLength

\* Only ShortestDistanceM leaves anything in the vectors.
LeftByMatrix == DOMAIN left = BOOLEAN /\ (~ matrix => \A r \in BOOLEAN : left[r] = None)

LEMMA LeftByMatrixInv == Spec => []LeftByMatrix
<1>1. Init => LeftByMatrix
  BY DEF Init, LeftByMatrix
<1>2. LeftByMatrix /\ [Next]_vars => LeftByMatrix'
  <2> SUFFICES ASSUME LeftByMatrix, [Next]_vars PROVE LeftByMatrix'
    OBVIOUS
  <2>1. CASE left' = left /\ matrix' = matrix
    BY <2>1 DEF LeftByMatrix
  <2>2. CASE RerunMatrix
    BY <2>2 DEF LeftByMatrix, RerunMatrix, fst
  <2>3. (left' = left /\ matrix' = matrix) \/ RerunMatrix
    BY DEF Next, vars, fst, loopVars, Start, Relax, RunOutOfTime, RerunUnlimited, MatrixStep, EndAlphas, EndBetas
  <2> QED BY <2>1, <2>2, <2>3
<1> QED BY <1>1, <1>2, PTL DEF Spec

\* When no sum was interrupted and none ended with ShortestDistanceM, what
\* GetFeatExpectations adds up for a feature is how often it fires on the
\* paths, weighted as they are, and the gradients of the length penalty are
\* the covariances of firings and lengths times what the lengths are wrong by.
THEOREM ExpectationsAreExact == Spec => []ExpectationsExact
<1>1. SumsInv /\ LeftByMatrix => ExpectationsExact
  <2> SUFFICES ASSUME SumsInv, LeftByMatrix, pc = "done", ~ matrix, NEW f \in Features
               PROVE  FeatExpectation(f) = AllFires(f) /\ LengthGradient(f) = Penalties(f)
    BY ExpectationsExactIs
  <2>1. Weighted
    BY StateTypes DEF SumsInv
  <2>2. ASSUME NEW n \in States PROVE Get(alphas, n) = PathSum(0, n) /\ Get(betas, n) = SumFrom(n)
    <3>1. LeftOver(FALSE, n) = 0 /\ LeftOver(TRUE, n) = 0
      <4>1. left[FALSE] = None /\ left[TRUE] = None
        BY DEF LeftByMatrix
      <4>2. DOMAIN None = {}
        BY DEF None
      <4> QED BY <4>1, <4>2 DEF LeftOver, Get
    <3>2. reverse
      BY DEF SumsInv, BetasExact
    <3>3. Get(alphas, n) = PathSum(0, n) + LeftOver(FALSE, n)
      BY <3>2 DEF SumsInv, AlphasExact
    <3>4. Get(betas, n) = SumFrom(n) + LeftOver(TRUE, n)
      BY BetasAre
    <3>5. PathSum(0, n) \in Nat /\ SumFrom(n) \in Nat
      BY <2>1, WalkSums
    <3>6. \A q \in Nat : q + 0 = q
      OBVIOUS
    <3>7. PathSum(0, n) + LeftOver(FALSE, n) = PathSum(0, n)
      BY <3>1, <3>5, <3>6
    <3>8. SumFrom(n) + LeftOver(TRUE, n) = SumFrom(n)
      BY <3>1, <3>5, <3>6
    <3> QED BY <3>3, <3>4, <3>7, <3>8
  <2>3. Exact
    BY <2>1, <2>2 DEF Exact
  <2> QED BY <2>1, <2>3, FeatExpectationExact, GradientExact
<1>2. Spec => []LeftByMatrix
  BY LeftByMatrixInv
<1>3. Spec => []SumsInv
  BY SumsInvariance
<1> QED BY <1>1, <1>2, <1>3, PTL

=============================================================================
