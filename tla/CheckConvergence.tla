-------------------------- MODULE CheckConvergence --------------------------
(***************************************************************************)
(* The loop of util::CheckConvergence (util/check-convergence.h): the power*)
(* iteration estimates the largest eigenvalue of an FST again and again,   *)
(* and three counters decide when to stop and what to answer.              *)
(*                                                                         *)
(* The estimates are inputs here, because the arithmetic that makes them   *)
(* is not what the counters depend on: any sequence may come.  An estimate *)
(* is a negative log, so it is good (the eigenvalue is below 1) when it is *)
(* positive; two estimates closer than Tol count as converged.             *)
(***************************************************************************)
EXTENDS Integers, Sequences

CONSTANTS
  Estimates,      \* the estimates that may come, Zero and NaN among them
  Zero,           \* Weight::Zero(), the eigenvalue 0: far from the others
  NaN,            \* compares false with everything
  Tol,            \* eigenval_converge_tol
  MinIter,        \* min_iter
  MaxIter,        \* max_iter
  Successive,     \* successive_eigenval_convergence
  SuccessiveBad   \* successive_bad_eigenval

ASSUME CheckAssumption ==
  /\ Estimates \subseteq Int /\ {Zero, NaN} \subseteq Estimates
  /\ Zero > 0 /\ NaN < 0
  /\ {Tol, MinIter, MaxIter} \subseteq Nat
  /\ {Successive, SuccessiveBad} \subseteq Nat \ {0}
  /\ \A e \in Estimates \ {Zero} : Zero - e >= Tol

VARIABLES
  checkValue,     \* the option eigenvalue-maxiter-checkvalue
  iter,
  eigenvalue,     \* the estimate that the answer depends on
  numConverged,   \* num_converged
  numBad,         \* num_bad_eigenval
  seen,           \* history: all estimates so far
  status          \* "running", how the loop ended, or the answer given after it

checkVars == <<checkValue, iter, eigenvalue, numConverged, numBad, seen, status>>

\* IsSmallerThanOne
Good(e) == e > 0

\* |exp(-new) - exp(-old)| relative to exp(-old)
Close(new, old) ==
  /\ NaN \notin {new, old}
  /\ new - old < Tol /\ old - new < Tol

Ended == {"converged", "aborted", "exhausted"}
Running == [end |-> "none", answer |-> FALSE]

\* The counters are within their limits.
CheckTypeOK ==
  /\ checkValue \in BOOLEAN
  /\ iter \in 0 .. MaxIter
  /\ eigenvalue \in Estimates
  /\ numConverged \in Nat
  /\ numBad \in 0 .. SuccessiveBad
  /\ seen \in Seq(Estimates) /\ Len(seen) <= MaxIter
  /\ status \in [end : Ended \cup {"none"}, answer : BOOLEAN]

CheckInit ==
  /\ checkValue \in BOOLEAN
  /\ iter = 0
  /\ eigenvalue = Zero
  /\ numConverged = 0
  /\ numBad = 0
  /\ seen = << >>
  /\ status = Running

\* Fault: running out of iterations makes no difference.
EndRegardless(how) == status' = [end |-> how, answer |-> Good(eigenvalue)]

\* How the function ends: the answer depends on the estimate that was kept,
\* and on the number of iterations.
End(how) ==
  status' = [end |-> how,
             answer |-> Good(eigenvalue) /\ (how = "exhausted" => checkValue)]

Looping == status = Running /\ iter < MaxIter

Continue(new) ==
  /\ eigenvalue' = new
  /\ iter' = iter + 1
  /\ status' = status

\* The estimate is as good as the last one; the loop ends once that has
\* happened often enough.
SeeConverged ==
  /\ Looping
  /\ \E new \in Estimates :
       /\ iter > 0 /\ Close(new, eigenvalue)
       /\ seen' = Append(seen, new)
       /\ numConverged' = numConverged + 1
       /\ IF numConverged' >= Successive /\ iter >= MinIter
          THEN End("converged") /\ UNCHANGED <<eigenvalue, iter>>
          ELSE Continue(new)
  /\ UNCHANGED <<checkValue, numBad>>

CountBad(new) == IF Good(new) THEN 0 ELSE numBad + 1

TooManyBad(n) == n >= SuccessiveBad

NumConvergedWhenMoving == 0

\* The estimate still moves; the loop ends when it has been bad too often.
SeeMoving ==
  /\ Looping
  /\ \E new \in Estimates :
       /\ ~ (iter > 0 /\ Close(new, eigenvalue))
       /\ seen' = Append(seen, new)
       /\ numBad' = CountBad(new)
       /\ IF TooManyBad(CountBad(new))
          THEN End("aborted") /\ UNCHANGED <<eigenvalue, iter, numConverged>>
          ELSE Continue(new) /\ numConverged' = NumConvergedWhenMoving
  /\ UNCHANGED checkValue

ReachMaxIter ==
  /\ status = Running /\ iter = MaxIter
  /\ End("exhausted")
  /\ UNCHANGED <<checkValue, iter, eigenvalue, numConverged, numBad, seen>>

CheckNext == SeeConverged \/ SeeMoving \/ ReachMaxIter

CheckSpec == CheckInit /\ [][CheckNext]_checkVars

-----------------------------------------------------------------------------

\* Without the option, a run that was not aborted calls an FST convergent only
\* if the last Successive + 1 estimates, none of them more than Tol away from
\* the next, end less than Tol from good: not because the iterations ran out
\* and not on an old estimate.
ConvergentIsEarned ==
  status.end # "aborted" /\ status.answer /\ ~ checkValue =>
    /\ status.end = "converged"
    /\ Len(seen) > Successive
    /\ \A k \in 1 .. Successive : Close(seen[Len(seen) - k + 1], seen[Len(seen) - k])
    /\ seen[Len(seen)] + Tol > 0 /\ Good(seen[Len(seen) - 1])

\* "Seen ... bad eigenvalues. Diverge.": an aborted run answers no.
AbortedMeansDivergent == status.end = "aborted" => ~ status.answer
=============================================================================
