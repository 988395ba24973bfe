-------------------------- MODULE MCCreateAndTrain --------------------------
EXTENDS CreateAndTrain

MCILetters == <<"a">>
MCOLetters == <<"a", "x">>

Topology(code, order, limit, conjs, segs, threshold, backoff, feats) ==
  [code |-> code, prune |-> FALSE, order |-> order, limit |-> limit, conjs |-> conjs, segs |-> segs,
   threshold |-> threshold, backoff |-> backoff, feats |-> feats]

Half == <<1, 2>>
Most == <<99, 100>>
MCTopologies ==
  {Topology(code, order, limit, 0, 0, Most, <<>>, "simple+len") :
     code \in {"v3", "r2191", "ngram"}, order \in {1, 2}, limit \in {-1, 1}}
  \cup {Topology(code, 3, limit, 0, 0, Half, <<"id">>, "simple") :
          code \in {"v3", "r2191"}, limit \in {-1, 1}}
  \cup {Topology(code, 2, limit, 2, 0, Half, <<"tlm">>, IF limit = 0 THEN "la1" ELSE "la+len") :
          code \in {"v3", "r2191"}, limit \in {-1, 0}}
  \cup {Topology(code, 2, limit, 0, 1, Most, <<"vc">>, "simple") :
          code \in {"v3", "r2191"}, limit \in {-1, 1}}
  \cup {Topology("v3", 2, 1, 0, 0, Half, <<"vc", "id">>, "simple+len")}
  \cup {[Topology("r2191", 2, limit, 0, 0, Most, <<>>, "simple+len") EXCEPT !.prune = TRUE] :
          limit \in {-1, 1}}
  \cup {Topology("noepshist", order, limit, 0, 0, Most, <<>>, "none") :
          order \in {1, 2}, limit \in {-1, 1}}
  \cup {Topology("noepshist", 1, 1, 2, 0, Most, <<>>, "none")}
  \cup {Topology(code, 2, 1, 1, 2, Half, <<"vc">>, "la") : code \in {"v3", "r2191"}}

Pair(in, out) == [in |-> in, out |-> out, aligned |-> Alignments(in, out)]
Only(p, allowed) == [p EXCEPT !.aligned = allowed]
ToA == Pair(<<"a">>, <<"a">>)
ToX == Pair(<<"a">>, <<"x">>)
ToXX == Pair(<<"a">>, <<"x", "x">>)
Inserting == {w \in ToXX.aligned : IsInsertion(w[2]) /\ IsInsertion(w[3])}
MCCorpora ==
  {<<>>, <<ToXX>>, <<ToA, ToX>>, <<ToX, Only(ToX, {})>>, <<ToX, Only(ToA, {})>>,
   <<Only(ToXX, Inserting)>>}
  \cup {<<ToX, Only(ToX, {w})>> : w \in ToX.aligned}
  \cup {<<Only(ToA, {w}), Only(ToA, {w})>> : w \in ToA.aligned}

MCCreating == {{}, {"init.names", "init.weights"}}

\* Nothing follows the end of a session, so that TLC reports every other state without
\* a successor: a step of the creation or of the session that is stuck.
Ended == pc \in {"done", "aborted", "endless"} /\ UNCHANGED allVars
MCSpec == AllInit /\ [][AllNext \/ Ended]_allVars /\ WF_allVars(SessionStep)
=============================================================================
