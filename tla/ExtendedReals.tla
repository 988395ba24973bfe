--------------------------- MODULE ExtendedReals ---------------------------
(***************************************************************************)
(* What IEEE addition makes of the kinds of doubles that the objective     *)
(* functions add up.  A finite number is just "fin": which finite numbers  *)
(* are in a sum is recorded by the modules that use this one.              *)
(***************************************************************************)
Kinds == {"fin", "pinf", "ninf", "nan"}

KindSum(a, b) == IF a = "fin" THEN b
                 ELSE IF b \in {"fin", a} THEN a
                 ELSE "nan"

KindNegated(a) == CASE a = "pinf" -> "ninf"
                    [] a = "ninf" -> "pinf"
                    [] OTHER -> a

\* The kind of the log sum over the paths of an FST, as a negative log: a sum
\* found to diverge is reported as the probability mass infinity.
DistanceKind(diverges) == IF diverges THEN "ninf" ELSE "fin"
=============================================================================
