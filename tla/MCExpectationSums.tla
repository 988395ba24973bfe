------------------------- MODULE MCExpectationSums -------------------------
(* The arcs of the instance read, write, do both, or neither.              *)
EXTENDS ExpectationSums

Reading == {a \in Arcs : (a[1] + a[2]) % 2 = 1}
Writing == {a \in Arcs : a[1] # 0}
=============================================================================
