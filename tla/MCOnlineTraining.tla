-------------------------- MODULE MCOnlineTraining --------------------------
(***************************************************************************)
(* Pairs that prefer a feature, that disfavour it, that leave it open, and *)
(* that cannot be summed; a shared feature is on every path.               *)
(***************************************************************************)
EXTENDS OnlineTraining

MCGradients == -3 .. 3

Pair(clamped, others) == [clamped |-> clamped, unclamped |-> clamped \cup others]
MCPairs == {Pair({{1, 3}}, {{2, 3}}), Pair({{2, 3}}, {{1, 3}}), Pair({{1}, {2}}, {{1, 2}}),
            Pair({{1, 2}}, {{}}), Pair({}, {{1}}), Pair({{1}, {}}, {{3}})}
=============================================================================
