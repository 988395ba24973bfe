---------------------------- MODULE CumulativeL1 ----------------------------
(***************************************************************************)
(* Online training with a cumulative L1 penalty (CumulativeL1Trainer in    *)
(* train/online/train.h): u_ is the penalty that every weight could have   *)
(* received so far, q_ the penalty each weight has received; a weight is   *)
(* penalised only when a batch gradient changes it, and then for all that  *)
(* it has missed.                                                          *)
(*                                                                         *)
(* Weights are integers, in units in which Strength is C_ / batch_size_    *)
(* and the learning rates are whole.  Which gradients a batch has is       *)
(* external.                                                               *)
(***************************************************************************)
EXTENDS Integers

CONSTANTS
  Features,     \* indices of weights
  Gradients,    \* values in a batch gradient
  Rates,        \* values of the learning rate function
  Strength,     \* C_ / batch_size_
  NumPasses,    \* num_passes_
  NumBatches    \* batches in a pass

ASSUME ConstantsAssumption ==
  /\ Features \subseteq Int
  /\ Gradients \subseteq Int
  /\ Rates \subseteq Nat
  /\ Strength \in Nat
  /\ NumPasses \in Nat /\ NumBatches \in Nat

VARIABLES
  weights, u, q,
  zeroWeights,  \* zero_weights_
  pass, batch,  \* passes and batches begun
  eta, gradient, \* of this batch; the gradient is a map from some features
  todo,         \* the features in it that are still to be changed
  applied       \* history: the sum of the changes to each weight but for the penalty

vars == <<weights, u, q, zeroWeights, pass, batch, eta, gradient, todo, applied>>

BatchGradients == UNION {[S -> Gradients] : S \in SUBSET Features}

\* Weights, penalties and counters have their types.
TypeOK ==
  /\ weights \in [Features -> Int] /\ q \in [Features -> Int]
  /\ applied \in [Features -> Int]
  /\ u \in Nat
  /\ zeroWeights \subseteq Features
  /\ pass \in 0 .. NumPasses /\ batch \in 0 .. NumBatches
  /\ eta \in Nat
  /\ gradient \in BatchGradients
  /\ todo \subseteq DOMAIN gradient

Init ==
  /\ weights = [i \in Features |-> 0] /\ q = [i \in Features |-> 0]
  /\ applied = [i \in Features |-> 0]
  /\ u = 0
  /\ zeroWeights = {}
  /\ pass = 0 /\ batch = NumBatches
  /\ eta = 0
  /\ gradient = [i \in {} |-> 0]
  /\ todo = {}

\* Fault: one pass too many.
NextPassExtra ==
  /\ todo = {} /\ batch = NumBatches /\ pass <= NumPasses
  /\ pass' = pass + 1
  /\ batch' = 0
  /\ UNCHANGED <<weights, u, q, zeroWeights, eta, gradient, todo, applied>>

NextPass ==
  /\ todo = {} /\ batch = NumBatches /\ pass < NumPasses
  /\ pass' = pass + 1
  /\ batch' = 0
  /\ UNCHANGED <<weights, u, q, zeroWeights, eta, gradient, todo, applied>>

NextBatch ==
  /\ todo = {} /\ batch < NumBatches
  /\ batch' = batch + 1
  /\ eta' \in Rates
  /\ u' = u + eta' * Strength
  /\ gradient' \in BatchGradients
  /\ todo' = DOMAIN gradient'
  /\ UNCHANGED <<weights, q, zeroWeights, pass, applied>>

MaxOf(a, b) == IF a > b THEN a ELSE b
MinOf(a, b) == IF a < b THEN a ELSE b

\* Faults: the sign of the penalty received is wrong for negative weights; only
\* the penalty of this batch is applied; the penalty does not stop at 0.
PenalisedWrongSign(i, w) ==
  IF w > 0 THEN MaxOf(0, w - (u + q[i])) ELSE IF w < 0 THEN MinOf(0, w + (u + q[i])) ELSE w
PenalisedOnce(i, w) ==
  IF w > 0 THEN MaxOf(0, w - eta * Strength)
  ELSE IF w < 0 THEN MinOf(0, w + eta * Strength) ELSE w
PenalisedUnclamped(i, w) ==
  IF w > 0 THEN w - (u + q[i]) ELSE IF w < 0 THEN w + (u - q[i]) ELSE w

\* ApplyPenalty: what it makes of the weight w of feature i.
Penalised(i, w) ==
  IF w > 0 THEN MaxOf(0, w - (u + q[i]))
  ELSE IF w < 0 THEN MinOf(0, w + (u - q[i]))
  ELSE w

\* Fault: the penalty is booked with the wrong sign.
ReceivedMisbooked(new, old) == old - new

Received(new, old) == new - old

\* The features of a batch gradient are changed in increasing order.
Update(i) ==
  LET change == eta * gradient[i]
      w == weights[i] + change
  IN  /\ i \in todo /\ \A j \in todo : i <= j
      /\ todo' = todo \ {i}
      /\ weights' = [weights EXCEPT ![i] = Penalised(i, w)]
      /\ q' = [q EXCEPT ![i] = @ + Received(Penalised(i, w), w)]
      /\ applied' = [applied EXCEPT ![i] = @ + change]
      /\ zeroWeights' = IF weights'[i] = 0 THEN zeroWeights \cup {i} ELSE zeroWeights
      /\ UNCHANGED <<u, pass, batch, eta, gradient>>

Next == NextPass \/ NextBatch \/ \E i \in Features : Update(i)

Spec == Init /\ [][Next]_vars

-----------------------------------------------------------------------------

\* No weight is penalised beyond what it could have received, in either
\* direction, however often its sign changes.
PenaltyBounded == \A i \in Features : -u <= q[i] /\ q[i] <= u

\* The penalties received are exactly what separates a weight from the sum of
\* its gradient steps, also where a penalty was cut off at 0.
WeightAccounted == \A i \in Features : weights[i] = applied[i] + q[i]

\* A weight that the batch has changed has caught up with all the penalty that
\* it missed, or it is 0.
CaughtUp ==
  \A i \in DOMAIN gradient \ todo :
    /\ weights[i] > 0 => q[i] = -u
    /\ weights[i] < 0 => q[i] = u

\* A penalty moves a weight towards 0 and never past it.
PenaltyShrinks ==
  [][\A i \in todo \ todo' :
       LET w == weights[i] + eta * gradient[i]
       IN  /\ w >= 0 => 0 <= weights'[i] /\ weights'[i] <= w
           /\ w <= 0 => w <= weights'[i] /\ weights'[i] <= 0]_vars
=============================================================================
