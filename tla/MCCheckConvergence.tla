------------------------- MODULE MCCheckConvergence -------------------------
(***************************************************************************)
(* Two bad and two good estimates on both sides of the border, such that   *)
(* the border can be crossed by a step that counts as converged and by one *)
(* that does not, and the two special values.                              *)
(***************************************************************************)
EXTENDS CheckConvergence
MCZero == 9
MCNaN == -9
MCEstimates == {MCNaN, -3, 0, 1, 3, MCZero}
=============================================================================
