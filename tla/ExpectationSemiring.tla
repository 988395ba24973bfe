------------------------ MODULE ExpectationSemiring ------------------------
(***************************************************************************)
(* The expectation semiring (core/expectation-weight.h): a weight is a     *)
(* value and, for each feature that fires, an expectation, a signed number *)
(* (core/neg-log-of-signed-num.h).                                         *)
(*                                                                         *)
(* The code stores the negative log of a number's absolute value, and the  *)
(* sign; here it is the absolute value, a natural number.  There are two   *)
(* zeros: 2 - 2 is +0 and -2 + 2 is -0.  Logs are exact and do not         *)
(* overflow; a number is divided only where the quotient is one.           *)
(***************************************************************************)
EXTENDS Integers, FiniteSetsExt

NeglogNum(x, sign) == [mag |-> x, sign_x |-> sign]
NeglogNums == [mag : Nat, sign_x : BOOLEAN]
PlusZero == NeglogNum(0, TRUE)

GetOrigNum(n) == IF n.sign_x THEN n.mag ELSE 0 - n.mag

\* NeglogPlus_: a is the larger number.
PlusSmaller(a, b) ==
  NeglogNum(IF a.sign_x = b.sign_x THEN a.mag + b.mag ELSE a.mag - b.mag, a.sign_x)

NeglogPlus(a, b) ==
  CASE a.mag = 0 -> b
    [] a.mag # 0 /\ b.mag = 0 -> a
    [] a.mag # 0 /\ b.mag # 0 /\ a.mag >= b.mag -> PlusSmaller(a, b)
    [] OTHER -> PlusSmaller(b, a)

\* A zero keeps its own sign.
NeglogTimes(a, b) ==
  IF a.mag = 0 THEN a ELSE IF b.mag = 0 THEN b ELSE NeglogNum(a.mag * b.mag, a.sign_x = b.sign_x)

NeglogDivide(a, b) ==
  IF a.mag = 0 THEN a
  ELSE NeglogNum(CHOOSE x \in 0 .. a.mag : x * b.mag = a.mag, a.sign_x = b.sign_x)

-----------------------------------------------------------------------------
(* Weights.                                                                *)

Weight(value, e) == [value |-> value, e |-> e]
IsWeight(w) ==
  /\ w = Weight(w.value, w.e) /\ w.value \in Nat
  /\ w.e \in [DOMAIN w.e -> NeglogNums]
WeightZero == Weight(0, [f \in {} |-> PlusZero])
WeightOne == Weight(1, [f \in {} |-> PlusZero])

AddMaps(e1, e2) ==
  [f \in DOMAIN e1 \cup DOMAIN e2 |->
     IF f \notin DOMAIN e1 THEN e2[f] ELSE IF f \notin DOMAIN e2 THEN e1[f]
     ELSE NeglogPlus(e1[f], e2[f])]

\* MultipliedMap, for a factor that is the value of a weight.
Multiplied(e, factor) == [f \in DOMAIN e |-> NeglogTimes(e[f], NeglogNum(factor, TRUE))]

Plus(w1, w2) == Weight(w1.value + w2.value, AddMaps(w1.e, w2.e))

\* Fault: the expectations are multiplied by the values of their own weights.
TimesOwnValue(w1, w2) ==
  Weight(w1.value * w2.value, AddMaps(Multiplied(w1.e, w1.value), Multiplied(w2.e, w2.value)))

\* The weight of what happens after another: features of both fire.
Times(w1, w2) ==
  IF w1.value = 1 /\ DOMAIN w1.e = {} THEN w2
  ELSE IF w2.value = 1 /\ DOMAIN w2.e = {} THEN w1
  ELSE Weight(w1.value * w2.value, AddMaps(Multiplied(w1.e, w2.value), Multiplied(w2.e, w1.value)))

\* What the expectation of a feature amounts to: one that is missing is 0.
Expected(w, f) == IF f \in DOMAIN w.e THEN GetOrigNum(w.e[f]) ELSE 0

\* The factor that n firings of a feature contribute when each contributes one:
\* exp(n * log theta) in the code.
Firings(factor, n) == FoldSet(LAMBDA i, v : factor * v, 1, 1 .. n)

\* SetFeatures: how often a feature fires is found again from the expectation.
\* theta is the factor that each firing of a feature contributes.
FireCount(w, f) == GetOrigNum(NeglogDivide(w.e[f], NeglogNum(w.value, TRUE)))
SetFeatures(w, theta) ==
  IF DOMAIN w.e = {} THEN w
  ELSE LET value == FoldSet(LAMBDA f, v : Firings(theta[f], FireCount(w, f)) * v, 1, DOMAIN w.e)
       IN Weight(value,
                 [f \in DOMAIN w.e |->
                    NeglogTimes(NeglogNum(value, TRUE),
                                NeglogDivide(w.e[f], NeglogNum(w.value, TRUE)))])

\* Write and Read: the signs are not written, and insert leaves out what is 0.
Written(w) == [value |-> w.value, mags |-> [f \in DOMAIN w.e |-> w.e[f].mag]]
Read(r) ==
  Weight(r.value, [f \in {f \in DOMAIN r.mags : r.mags[f] # 0} |-> NeglogNum(r.mags[f], TRUE)])
=============================================================================
