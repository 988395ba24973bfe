------------------------ MODULE MCSharedExpectations ------------------------
(***************************************************************************)
(* Two workers and the model FST: two weights of the model, two of the     *)
(* first worker and one of the second, so that a vector can be shared      *)
(* inside a thread, between a thread and the model, and between both       *)
(* workers through the model.                                              *)
(***************************************************************************)
EXTENDS SharedExpectations, TLC

CONSTANTS w1, w2, m1, m2, a1, a2, b1

MCOwner == (m1 :> Main) @@ (m2 :> Main) @@ (a1 :> w1) @@ (a2 :> w1) @@ (b1 :> w2)

ObjSymmetry == Permutations(Objs)
=============================================================================
