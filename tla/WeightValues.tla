---------------------------- MODULE WeightValues ----------------------------
(***************************************************************************)
(* What the users of MDExpectationWeight rely on (core/expectation-weight.h*)
(* and the semiring operations in it): a weight carries an expectation     *)
(* vector of its own.  Copying a weight copies the vector, changing one    *)
(* weight changes no other, and while the workers run nobody changes the   *)
(* weights of the model FST.                                               *)
(***************************************************************************)
CONSTANTS Workers, Main, Handles, Owner, Vals, Empty

VARIABLES val, phase

Init ==
  /\ val = [h \in Handles |-> Empty]
  /\ phase = "seq"

Runs(t) == phase = (IF t = Main THEN "seq" ELSE "par")

Copy(h, g) ==
  /\ Runs(Owner[h])
  /\ Owner[g] \in {Owner[h], Main}
  /\ val' = [val EXCEPT ![h] = val[g]]
  /\ phase' = phase

Change(h) ==
  /\ Runs(Owner[h])
  /\ \E v \in Vals : val' = [val EXCEPT ![h] = v]
  /\ phase' = phase

Fork == phase = "seq" /\ phase' = "par" /\ val' = val

\* The workers' weights are gone when the workers are joined.
Join ==
  /\ phase = "par"
  /\ \A h \in Handles : Owner[h] # Main => val[h] = Empty
  /\ phase' = "seq"
  /\ val' = val

Next ==
  \/ \E h \in Handles : Change(h) \/ \E g \in Handles : Copy(h, g)
  \/ Fork
  \/ Join

Spec == Init /\ [][Next]_<<val, phase>>
=============================================================================
