------------------------------ MODULE PathSums ------------------------------
(***************************************************************************)
(* The forward and backward sums over the paths of an FST                  *)
(* (ShortestDistance in train/shortest-distance-timeout.h), and the        *)
(* expected counts and the total weight that GetFeatureMDExpectations      *)
(* (train/obj-func-fst-util.h) makes of them.  A sum that runs out of time *)
(* is left as it is; when the FST is found to converge, it is started      *)
(* again without a limit, or the sums are made with                        *)
(* ShortestDistanceM (util/shortest-distance-m.h) if the option            *)
(* use-matrix-distance is set.                                             *)
(*                                                                         *)
(* The FST is acyclic, so that every sum is finite, and otherwise any with *)
(* these states and weights.  The semiring is Nat with plus and times,     *)
(* sums are exact and no update is so small that it is left out (delta is  *)
(* 0).  One turn of the loop over the queue is one step, and the state     *)
(* dequeued is any in the queue, which covers every queue discipline.      *)
(***************************************************************************)
EXTENDS Integers, FiniteSetsExt

CONSTANTS
  NumStates,    \* the states of the FST are 0 .. NumStates - 1; 0 is the start
  Weights       \* the weights of arcs and of final states; 0: there is none

ASSUME ConstantsAssumption ==
  /\ NumStates \in Nat \ {0}
  /\ Weights \subseteq Nat /\ 0 \in Weights

States == 0 .. NumStates - 1
Arcs == {a \in States \X States : a[1] < a[2]}

\* The state that Reverse adds as the start of the reversed FST, which has an
\* arc from it to every final state.  Only its distance is dropped again.
Super == -1
Nodes == States \cup {Super}

VARIABLES
  weight,       \* the weight of each arc
  final,        \* the final weight of each state
  matrix,       \* whether the option use-matrix-distance is set
  pc,           \* "start", "loop", "timedOut", "matrix" or "done"
  reverse,      \* whether the betas are being computed
  limited,      \* whether there is a time limit
  distance, rdistance, enqueued,  \* of the nodes visited so far
  alphas, betas,
  left          \* history: by direction, what ShortestDistanceM found in the vector

fst == <<weight, final, matrix>>
loopVars == <<distance, rdistance, enqueued>>
vars == <<fst, pc, reverse, limited, loopVars, alphas, betas, left>>

None == [n \in {} |-> 0]     \* an empty vector of weights

\* The arcs that leave n in the direction of the sum, as the nodes they lead
\* to, and their weights.
Reversed(n, m) ==
  IF n = Super THEN final[m] ELSE IF <<m, n>> \in Arcs THEN weight[<<m, n>>] ELSE 0
Forward(n, m) == IF <<n, m>> \in Arcs THEN weight[<<n, m>>] ELSE 0
ArcWeight(n, m) == IF reverse THEN Reversed(n, m) ELSE Forward(n, m)
Successors(n) == {m \in States : ArcWeight(n, m) # 0}
Source == IF reverse THEN Super ELSE 0

\* The nodes of a vector that is long enough for the nodes in N.
UpTo(N) == {n \in Nodes : (reverse \/ n # Super) /\ \E m \in N : n <= m}
Get(vector, n) == IF n \in DOMAIN vector THEN vector[n] ELSE 0

\* The vectors, states and program counter have their types.
TypeOK ==
  /\ weight \in [Arcs -> Weights] /\ final \in [States -> Weights]
  /\ pc \in {"start", "loop", "timedOut", "matrix", "done"} /\ matrix \in BOOLEAN
  /\ reverse \in BOOLEAN /\ limited \in BOOLEAN
  /\ DOMAIN distance = DOMAIN rdistance /\ DOMAIN distance = UpTo(DOMAIN distance)
  /\ enqueued \subseteq DOMAIN distance
  /\ \A v \in {distance, rdistance, alphas, betas, left[FALSE], left[TRUE]} : \A n \in DOMAIN v : v[n] \in Nat

Init ==
  /\ weight \in [Arcs -> Weights]
  /\ final \in [States -> Weights]
  /\ pc = "start"
  /\ reverse = FALSE
  /\ limited = TRUE
  /\ distance = None /\ rdistance = None /\ enqueued = {}
  /\ alphas = None /\ betas = None
  /\ matrix \in BOOLEAN
  /\ left = [r \in BOOLEAN |-> None]

\* Fault: what an interrupted sum has left in the vectors stays there.
StartUncleared ==
  /\ pc = "start"
  /\ pc' = "loop"
  /\ distance' = [n \in UpTo({Source} \cup DOMAIN distance) |->
                    IF n = Source THEN 1 ELSE Get(distance, n)]
  /\ rdistance' = [n \in DOMAIN distance' |-> IF n = Source THEN 1 ELSE 0]
  /\ enqueued' = {Source}
  /\ UNCHANGED <<fst, reverse, limited, alphas, betas, left>>

\* The vectors are cleared, whatever an earlier sum has left in them, and the
\* source is queued.
Start ==
  /\ pc = "start"
  /\ pc' = "loop"
  /\ distance' = [n \in UpTo({Source}) |-> IF n = Source THEN 1 ELSE 0]
  /\ rdistance' = distance'
  /\ enqueued' = {Source}
  /\ UNCHANGED <<fst, reverse, limited, alphas, betas, left>>

\* What s passes on to n, and the states whose distance that changes.
Passed(s, n) == IF n \in Successors(s) THEN rdistance[s] * ArcWeight(s, n) ELSE 0
Reached(s) == {n \in Successors(s) : Passed(s, n) # 0}

\* Fault: the vectors do not grow with the states that are reached.
VisitedBefore(s) == UpTo(DOMAIN distance \cup {s})

VisitedAfter(s) == UpTo(DOMAIN distance \cup {s} \cup Successors(s))

PendingAfter(s, n) == IF n = s THEN 0 ELSE Get(rdistance, n) + Passed(s, n)

\* Fault: the state that is looked at stays in the queue.
NeverDequeued(s) == enqueued \cup Reached(s)

QueuedAfter(s) == (enqueued \ {s}) \cup Reached(s)

\* A state is dequeued and what it has not passed on yet is passed on to its
\* successors.
Relax(s) ==
  /\ pc = "loop" /\ s \in enqueued
  /\ distance' = [n \in VisitedAfter(s) |-> Get(distance, n) + Passed(s, n)]
  /\ rdistance' = [n \in VisitedAfter(s) |-> PendingAfter(s, n)]
  /\ enqueued' = QueuedAfter(s)
  /\ UNCHANGED <<fst, pc, reverse, limited, alphas, betas, left>>

\* The limit is reached in the loop, or by the time it is asked for after it.
RunOutOfTime ==
  /\ pc = "loop" /\ limited
  /\ pc' = "timedOut"
  /\ UNCHANGED <<fst, reverse, limited, loopVars, alphas, betas, left>>

\* CheckConvergence has found that the sum is finite.
RerunUnlimited ==
  /\ pc = "timedOut" /\ ~ matrix
  /\ pc' = "start"
  /\ limited' = FALSE
  /\ UNCHANGED <<fst, reverse, loopVars, alphas, betas, left>>

\* Fault: the superfinal state is not dropped.
BetasShifted == [n \in {m \in States : m - 1 \in DOMAIN distance} |-> distance[n - 1]]

\* The superfinal state is dropped.
Betas == [n \in DOMAIN distance \ {Super} |-> distance[n]]

\* What ShortestDistanceM finds in the vector of the interrupted sum, which it
\* only resizes.  The vector has no entry for Super any more and M's has.
LeftBehind == IF reverse THEN [n \in Nodes |-> IF n = Super THEN 0 ELSE Get(Betas, n + 1)]
              ELSE [n \in States |-> IF n = Source THEN 0 ELSE Get(distance, n)]

\* ShortestDistanceM begins with the paths of no arc.
RerunMatrix ==
  /\ pc = "timedOut" /\ matrix
  /\ pc' = "matrix"
  /\ left' = [left EXCEPT ![reverse] = LeftBehind]
  /\ distance' = [LeftBehind EXCEPT ![Source] = 1]
  /\ rdistance' = [n \in DOMAIN LeftBehind |-> IF n = Source THEN 1 ELSE 0]
  /\ enqueued' = {}
  /\ UNCHANGED <<fst, reverse, limited, alphas, betas>>

\* The sums over the paths that are one arc longer.
DoOneStep == [n \in DOMAIN rdistance |->
                MapThenSumSet(LAMBDA s : Passed(s, n), DOMAIN rdistance)]

Add(vec1, vec2) == [n \in DOMAIN vec2 |-> vec1[n] + vec2[n]]

\* Once no path is longer, the other of the 10000 iterations change nothing.
MatrixStep ==
  /\ pc = "matrix" /\ \E n \in DOMAIN rdistance : rdistance[n] # 0
  /\ rdistance' = DoOneStep
  /\ distance' = Add(rdistance', distance)
  /\ UNCHANGED <<fst, pc, reverse, limited, enqueued, alphas, betas, left>>

SumEnded == \/ pc = "loop" /\ enqueued = {}
            \/ pc = "matrix" /\ \A n \in DOMAIN rdistance : rdistance[n] = 0

EndAlphas ==
  /\ SumEnded /\ ~ reverse
  /\ alphas' = distance
  /\ pc' = "start"
  /\ reverse' = TRUE
  /\ limited' = TRUE
  /\ distance' = None /\ rdistance' = None /\ enqueued' = {}
  /\ UNCHANGED <<fst, betas, left>>

EndBetas ==
  /\ SumEnded /\ reverse
  /\ betas' = Betas
  /\ pc' = "done"
  /\ UNCHANGED <<fst, reverse, limited, loopVars, alphas, left>>

Next ==
  \/ Start
  \/ \E s \in Nodes : Relax(s)
  \/ RunOutOfTime \/ RerunUnlimited
  \/ RerunMatrix \/ MatrixStep
  \/ EndAlphas \/ EndBetas

Spec == Init /\ [][Next]_vars
FairSpec == Spec /\ WF_vars(Next)

\* GetFeatureMDExpectations: it throws when there are no betas at all.
NoPaths == betas = None
Total == betas[0]
\* The count of an arc before it is divided by the total.
ArcCount(a) == Get(alphas, a[1]) * weight[a] * Get(betas, a[2])

-----------------------------------------------------------------------------
\* Reference definition: the sums over the paths themselves, one by one.

\* A path is given by the set of the states on it.
Paths(n, m) == {p \in SUBSET (n .. m) : {n, m} \subseteq p}
PathsFrom(n) == UNION {Paths(n, m) : m \in States}
After(p, k) == Min({l \in p : l > k})
ArcsOf(p) == {<<k, After(p, k)>> : k \in p \ {Max(p)}}
PathWeight(p) == FoldSet(LAMBDA a, product : weight[a] * product, 1, ArcsOf(p))
Accepted(p) == PathWeight(p) * final[Max(p)]

PathSum(n, m) == MapThenSumSet(PathWeight, Paths(n, m))
SumFrom(n) == MapThenSumSet(Accepted, PathsFrom(n))
SumThrough(a) == MapThenSumSet(Accepted, {p \in PathsFrom(0) : a \in ArcsOf(p)})

\* The same in the direction of the sum, from node u to another node n.
Onwards(u, n) == IF ~ reverse THEN PathSum(u, n)
                 ELSE IF u = Super THEN SumFrom(n) ELSE PathSum(n, u)

-----------------------------------------------------------------------------

\* What ShortestDistanceM adds its sums to, although it promises the sum of the
\* successful paths and nothing else.
LeftOver(r, n) == Get(left[r], n)

\* Nothing was left in the vector of the sum in direction r when it was made
\* with ShortestDistanceM, or it was not made with it.
Untainted(r) == \A n \in States : LeftOver(r, n) = 0

\* What the sum of a node lacks is what the nodes before it have not passed on
\* yet.
NothingLost ==
  \A n \in States :
    Get(distance, n) + MapThenSumSet(LAMBDA u : Get(rdistance, u) * Onwards(u, n),
                                     DOMAIN rdistance \ {n})
      = (IF n = Source THEN 1 ELSE Onwards(Source, n))

\* Only what waits in the queue has something to pass on.
PendingIsQueued == enqueued = {n \in DOMAIN rdistance : rdistance[n] # 0}

\* The alphas, and the betas, are the sums over all paths to, and from, each
\* state.
AlphasComplete == \A n \in States : Get(alphas, n) = PathSum(0, n)
BetasComplete == \A n \in States : Get(betas, n) = SumFrom(n)

\* At every turn of the loop, in any order of the queue, the sums lack exactly
\* what waits in the queue, also those that are cut short; in the end, when a sum
\* may have been started twice, they lack nothing and contain nothing twice.
\* Of ShortestDistanceM this is said only where it finds nothing in the vector:
\* MatrixSumsExact is about the rest.
SumsExact ==
  /\ pc \in {"loop", "timedOut"} => NothingLost
  /\ pc = "matrix" /\ Untainted(reverse) => NothingLost
  /\ pc = "loop" => PendingIsQueued
  /\ pc = "done" => /\ Untainted(FALSE) => AlphasComplete
                    /\ Untainted(TRUE) => BetasComplete

\* What ShortestDistanceM promises: "the sum of the weight of all successful paths
\* in an FST", also when it is called with the vector of an interrupted sum; here
\* for FSTs in which every state lies on a successful path.
MatrixSumsExact ==
  (pc = "done" /\ \A n \in States : PathSum(0, n) # 0 /\ SumFrom(n) # 0)
    => AlphasComplete /\ BetasComplete

\* Unless "no paths" is thrown or ShortestDistanceM has added to the sums of an
\* interrupted one, every arc is counted once for each accepting path that it is
\* on, and the total is the sum of these paths.  Without ShortestDistanceM it is
\* thrown for every FST without useless states that has no path: no count is
\* divided by 0.
CountsExact ==
  pc = "done" =>
    /\ (~ NoPaths /\ Untainted(FALSE) /\ Untainted(TRUE))
         => Total = SumFrom(0) /\ \A a \in Arcs : ArcCount(a) = SumThrough(a)
    /\ (~ matrix /\ SumFrom(0) = 0 /\ \A n \in States : PathSum(0, n) # 0) => NoPaths

\* The sums end, in whatever order the queue is emptied.
SumsEnd == <>(pc = "done")
=============================================================================
