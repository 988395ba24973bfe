-------------------------- MODULE MCTimedDistance --------------------------
(***************************************************************************)
(* A limit below the minimum, one above it, and none.                      *)
(***************************************************************************)
EXTENDS TimedDistance
CONSTANTS w1, w2
MCInitLimits == {-1, 0, 3}
=============================================================================
