---------------------------- MODULE MCSumLimits ----------------------------
(***************************************************************************)
(* The time limits of two workers, with a limit below the minimum, one     *)
(* above it, and none; and the convergence test that is run when a limit   *)
(* is reached.  The test is run alone, before any sum: what it answers     *)
(* does not depend on the limits, and the sums take either answer.         *)
(*                                                                         *)
(* Two bad and two good estimates lie on both sides of the border, such    *)
(* that it can be crossed by a step that counts as converged and by one    *)
(* that does not; the two special values are there too.                    *)
(***************************************************************************)
EXTENDS TimedDistance, CheckConvergence
CONSTANTS w1, w2
MCInitLimits == {-1, 0, 3}
MCZero == 9
MCNaN == -9
MCEstimates == {MCNaN, -3, 0, 1, 3, MCZero}

NoTest ==
  /\ checkValue = FALSE /\ iter = 0 /\ eigenvalue = Zero /\ numConverged = 0 /\ numBad = 0
  /\ seen = <<>> /\ status = [end |-> "exhausted", answer |-> FALSE]
NoSum == LimitInit /\ shared = NoLimit /\ iteration = 0 /\ matrix = FALSE

MCVars == <<limitVars, checkVars>>
MCInit == (LimitInit /\ NoTest) \/ (NoSum /\ CheckInit)
MCNext ==
  \/ NoTest /\ LimitNext /\ UNCHANGED checkVars
  \/ CheckNext /\ UNCHANGED limitVars
MCSpec ==
  /\ MCInit /\ [][MCNext]_MCVars
  /\ \A w \in Workers : WF_MCVars(NoTest /\ Sum(w) /\ UNCHANGED checkVars)
=============================================================================
