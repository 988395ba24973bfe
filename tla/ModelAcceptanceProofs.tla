------------------------ MODULE ModelAcceptanceProofs ------------------------
(***************************************************************************)
(* The finished machine has a path for every alignment that was seen, and  *)
(* for every well-formed string of essential symbols, whatever the         *)
(* topology, the options, the corpus and the back-off models.              *)
(*                                                                         *)
(* A string is followed through each model: the history of a beginning of  *)
(* it is the longest suffix that goes on in the trie (BackoffIsLongest),   *)
(* and the next symbol is found there, because its n-gram was counted, or  *)
(* at a shorter history, over phi, down to the root, which has all the     *)
(* essential unigrams.  Convert and its trimming keep these states, the    *)
(* composition with the well-formed strings lets a well-formed string      *)
(* through, and the intersection a string that all models read.            *)
(*                                                                         *)
(* The noepshist topology has histories for states.  A history leads with  *)
(* each symbol to an end of itself extended (GetBackoffHistoryIs), so the  *)
(* history of a state is an end of all that leads to it, and each state    *)
(* that was put on the stack is expanded (ArcsExplored): no symbol lacks.  *)
(***************************************************************************)
EXTENDS CreateAndTrainProofs

-----------------------------------------------------------------------------
(* Sets of states that a relation reaches.                                 *)

\* The states that one step more reaches, and those that any number of steps does.
More(to, S) == S \cup UNION {to[q] : q \in S}
Reaching(to, states, f) ==
  f = [S \in SUBSET states |-> IF More(to, S) = S THEN S ELSE f[More(to, S)]]
Closed(to, S) == \A q \in S : to[q] \subseteq S

\* One step more reaches no fewer states, and none outside.
LEMMA MoreFacts ==
  ASSUME NEW states, NEW to, \A q \in states : to[q] \subseteq states, NEW S \in SUBSET states
  PROVE  /\ More(to, S) \in SUBSET states /\ S \subseteq More(to, S)
         /\ More(to, S) = S <=> Closed(to, S)
         /\ \A T \in SUBSET states : S \subseteq T /\ Closed(to, T) <=> More(to, S) \subseteq T /\ Closed(to, T)
BY DEF More, Closed

\* There is such a function.
LEMMA ReachingExists ==
  ASSUME NEW states, NEW to, \A q \in states : to[q] \subseteq states
  PROVE  \E f : Reaching(to, states, f)
<1> DEFINE Over(S) == {T \in SUBSET states : S \subseteq T /\ Closed(to, T)}
           f == [S \in SUBSET states |-> {q \in states : \A T \in Over(S) : q \in T}]
<1>1. ASSUME NEW S \in SUBSET states PROVE f[S] = IF More(to, S) = S THEN S ELSE f[More(to, S)]
  <2>1. More(to, S) \in SUBSET states /\ (More(to, S) = S <=> Closed(to, S))
    BY MoreFacts
  <2>2. CASE More(to, S) = S
    <3>1. S \in Over(S) /\ \A T \in Over(S) : S \subseteq T
      BY <2>1, <2>2
    <3>2. {q \in states : \A T \in Over(S) : q \in T} = S
      <4> HIDE DEF Over
      <4> QED BY <3>1
    <3> QED BY <2>2, <3>2
  <2>3. Over(S) = Over(More(to, S))
    BY MoreFacts
  <2>4. f[S] = f[More(to, S)]
    <3> HIDE DEF Over
    <3> QED BY <2>1, <2>3
  <2> QED BY <2>2, <2>4
<1>2. f = [S \in SUBSET states |-> f[S]]
  OBVIOUS
<1> HIDE DEF f
<1> QED BY <1>1, <1>2 DEF Reaching

\* What is reached holds the seed and what its members lead to.
LEMMA ReachedIs ==
  ASSUME NEW states, IsFiniteSet(states), NEW to, \A q \in states : to[q] \subseteq states,
         NEW seed \in SUBSET states
  PROVE  /\ seed \subseteq Reached(seed, to, states) /\ Reached(seed, to, states) \in SUBSET states
         /\ Closed(to, Reached(seed, to, states))
<1> DEFINE f == CHOOSE g : Reaching(to, states, g)
           Good(S) == S \subseteq f[S] /\ f[S] \in SUBSET states /\ Closed(to, f[S])
           Bad == {T \in SUBSET states : ~ Good(states \ T)}
<1>1. Reached(seed, to, states) = f[seed]
  BY Zenon DEF Reached, Reaching, More
<1>2. Reaching(to, states, f)
  BY ReachingExists
<1> HIDE DEF f
<1>3. \A S \in SUBSET states : f[S] = IF More(to, S) = S THEN S ELSE f[More(to, S)]
  BY <1>2 DEF Reaching
<1>4. Bad = {}
  <2> SUFFICES ASSUME Bad # {} PROVE FALSE
    OBVIOUS
  <2>1. Bad \in SUBSET SUBSET states
    OBVIOUS
  <2>2. PICK T \in Bad : \A U \in Bad : U \subseteq T => U = T
    <3> HIDE DEF Bad
    <3> QED BY <2>1, SmallestSet
  <2> DEFINE S == states \ T
  <2>3. T \in SUBSET states /\ S \in SUBSET states /\ ~ Good(S) /\ states \ S = T
    BY <2>1
  <2> HIDE DEF S
  <2>4. /\ More(to, S) \in SUBSET states /\ S \subseteq More(to, S)
        /\ More(to, S) = S <=> Closed(to, S)
    BY <2>3, MoreFacts
  <2>5. CASE More(to, S) = S
    BY <1>3, <2>3, <2>4, <2>5
  <2>6. CASE More(to, S) # S
    <3> DEFINE M == More(to, S)
               U == states \ M
    <3>1. U \subseteq T /\ U # T
      BY <2>3, <2>4, <2>6
    <3>2. U \notin Bad
      BY <2>2, <3>1
    <3>3. states \ U = M
      BY <2>4
    <3> HIDE DEF M
    <3>4. Good(M)
      <4>1. Good(states \ U)
        BY <3>2
      <4> QED BY <3>3, <4>1
    <3>5. f[S] = f[M]
      BY <1>3, <2>3, <2>6 DEF M
    <3>6. S \subseteq M
      BY <2>4 DEF M
    <3> QED BY <2>3, <3>4, <3>5, <3>6
  <2> QED BY <2>5, <2>6
<1>5. Good(seed)
  <2>1. states \ seed \notin Bad /\ states \ (states \ seed) = seed /\ states \ seed \in SUBSET states
    BY <1>4
  <2>2. Good(states \ (states \ seed))
    <3> HIDE DEF Good
    <3> QED BY <2>1
  <2> QED BY <2>1, <2>2
<1> QED BY <1>1, <1>5

-----------------------------------------------------------------------------
(* Machines, and what is left of them when they are trimmed.               *)

\* All arcs of a machine lead to states of it.
Whole(arcs) == \A q \in DOMAIN arcs : \A l \in DOMAIN arcs[q] : arcs[q][l] \in DOMAIN arcs

\* The states reached from the start, those that reach the end, and what is left of the machine.
Ahead(arcs, S) == \A q \in S : \A l \in DOMAIN arcs[q] : arcs[q][l] \in S
Behind(arcs, S) == \A q \in DOMAIN arcs : \A l \in DOMAIN arcs[q] : arcs[q][l] \in S => q \in S
Within(arcs, S) == [q \in S |-> [l \in {l \in DOMAIN arcs[q] : arcs[q][l] \in S} |-> arcs[q][l]]]

\* What trimming does: F is what the start reaches, B what reaches a final state.
Trims(arcs, start, finals, F, B) ==
  /\ F \in SUBSET DOMAIN arcs /\ B \in SUBSET DOMAIN arcs
  /\ start \in F /\ Ahead(arcs, F) /\ finals \subseteq B /\ Behind(arcs, B)
  /\ Connected(arcs, start, finals) = Within(arcs, F \cap B)

\* Trimming keeps what the start reaches and what reaches a final state.
LEMMA ConnectedIs ==
  ASSUME NEW arcs, IsFiniteSet(DOMAIN arcs), Whole(arcs),
         NEW start \in DOMAIN arcs, NEW finals \in SUBSET DOMAIN arcs
  PROVE  \E F, B : Trims(arcs, start, finals, F, B)
<1> DEFINE all == DOMAIN arcs
           image == [q \in all |-> {arcs[q][l] : l \in DOMAIN arcs[q]}]
           inverse == [q \in all |-> {p \in all : q \in image[p]}]
           F == Reached({start}, image, all)
           B == Reached(finals, inverse, all)
<1>1. Connected(arcs, start, finals) = Within(arcs, F \cap B)
  <2>1. Tabulated(image) = image /\ Tabulated([q \in all |-> {p \in all : q \in Tabulated(image)[p]}]) = inverse
    BY Zenon, TabulatedIs
  <2> QED BY Zenon, <2>1 DEF Connected, Within
<1>2. \A q \in all : image[q] \subseteq all
  BY DEF Whole
<1>3. \A q \in all : inverse[q] \subseteq all
  OBVIOUS
<1>4. {start} \subseteq F /\ F \in SUBSET all /\ Closed(image, F)
  <2> HIDE DEF image, all
  <2> QED BY <1>2, ReachedIs DEF all
<1>5. finals \subseteq B /\ B \in SUBSET all /\ Closed(inverse, B)
  <2> HIDE DEF inverse, all
  <2> QED BY <1>3, ReachedIs DEF all
<1> HIDE DEF F, B
<1>6. Ahead(arcs, F)
  BY <1>4 DEF Ahead, Closed
<1>7. Behind(arcs, B)
  <2> SUFFICES ASSUME NEW q \in all, NEW l \in DOMAIN arcs[q], arcs[q][l] \in B PROVE q \in B
    BY DEF Behind
  <2>1. inverse[arcs[q][l]] \subseteq B /\ arcs[q][l] \in all
    BY <1>5 DEF Closed
  <2>2. q \in inverse[arcs[q][l]]
    BY <2>1
  <2> QED BY <2>1, <2>2
<1>8. Trims(arcs, start, finals, F, B)
  BY <1>1, <1>4, <1>5, <1>6, <1>7 DEF Trims
<1> QED BY <1>8

\* A string of labels is read from the start to a state.
Steps(arcs, x, g) ==
  /\ g[0] \in DOMAIN arcs
  /\ \A i \in 1 .. Len(x) : /\ x[i] \in DOMAIN arcs[g[i - 1]] /\ g[i] = arcs[g[i - 1]][x[i]]
                            /\ g[i] \in DOMAIN arcs
Reads(start, arcs, x, finals) ==
  \E g \in [0 .. Len(x) -> DOMAIN arcs] : g[0] = start /\ Steps(arcs, x, g) /\ g[Len(x)] \in finals

\* What leads to a final state is left.
LEMMA ConnectedReads ==
  ASSUME NEW arcs, IsFiniteSet(DOMAIN arcs), Whole(arcs),
         NEW start \in DOMAIN arcs, NEW finals \in SUBSET DOMAIN arcs,
         NEW x, Len(x) \in Nat, Reads(start, arcs, x, finals)
  PROVE  Reads(start, Connected(arcs, start, finals), x, finals)
<1>0. PICK F, B : Trims(arcs, start, finals, F, B)
  BY ConnectedIs
<1>1. /\ F \in SUBSET DOMAIN arcs /\ B \in SUBSET DOMAIN arcs
      /\ start \in F /\ Ahead(arcs, F) /\ finals \subseteq B /\ Behind(arcs, B)
      /\ Connected(arcs, start, finals) = Within(arcs, F \cap B)
  BY <1>0 DEF Trims
<1>2. PICK g \in [0 .. Len(x) -> DOMAIN arcs] : g[0] = start /\ Steps(arcs, x, g) /\ g[Len(x)] \in finals
  BY DEF Reads
<1> DEFINE n == Len(x)
           K == F \cap B
           m == Within(arcs, K)
<1>3. \A i \in 0 .. n : g[i] \in F
  <2> DEFINE Bad == {i \in 0 .. n : g[i] \notin F}
  <2> SUFFICES ASSUME Bad # {} PROVE FALSE
    OBVIOUS
  <2>1. Bad \in SUBSET Nat
    OBVIOUS
  <2>2. PICK i \in Bad : \A k \in Bad : i <= k
    <3> HIDE DEF Bad
    <3> QED BY <2>1, LeastNatural
  <2>3. i \in 1 .. n /\ i - 1 \in 0 .. n /\ ~ (i <= i - 1)
    BY <1>1, <1>2
  <2>4. g[i - 1] \in F
    BY <2>2, <2>3
  <2>5. x[i] \in DOMAIN arcs[g[i - 1]] /\ g[i] = arcs[g[i - 1]][x[i]]
    BY <1>2, <2>3 DEF Steps
  <2>6. g[i] \in F
    BY <1>1, <2>4, <2>5 DEF Ahead
  <2> QED BY <2>6
<1>4. \A i \in 0 .. n : g[i] \in B
  <2> DEFINE Bad == {i \in 0 .. n : g[n - i] \notin B}
  <2>0. ASSUME Bad # {} PROVE FALSE
    <3>1. Bad \in SUBSET Nat
      OBVIOUS
    <3>2. PICK i \in Bad : \A k \in Bad : i <= k
      <4> HIDE DEF Bad
      <4> QED BY <2>0, <3>1, LeastNatural
    <3>3. i \in 1 .. n /\ i - 1 \in 0 .. n /\ ~ (i <= i - 1)
      <4>1. i # 0
        BY <1>1, <1>2
      <4> QED BY <4>1
    <3>4. g[n - (i - 1)] \in B
      BY <3>2, <3>3
    <3>5. n - (i - 1) = (n - i) + 1 /\ n - (i - 1) \in 1 .. n /\ n - i = (n - (i - 1)) - 1 /\ n - i \in 0 .. n
      BY <3>3
    <3> DEFINE k == n - (i - 1)
    <3>6. x[k] \in DOMAIN arcs[g[k - 1]] /\ g[k] = arcs[g[k - 1]][x[k]] /\ g[k - 1] \in DOMAIN arcs
      BY <1>2, <3>5 DEF Steps
    <3>7. g[k - 1] \in B
      BY <1>1, <3>4, <3>6 DEF Behind
    <3> QED BY <3>5, <3>7
  <2>1. \A i \in 0 .. n : n - i \in 0 .. n /\ n - (n - i) = i
    OBVIOUS
  <2>2. \A i \in 0 .. n : g[n - i] \in B
    BY <2>0
  <2> QED BY <2>1, <2>2
<1>5. DOMAIN m = K /\ \A q \in K : DOMAIN m[q] = {l \in DOMAIN arcs[q] : arcs[q][l] \in K}
                               /\ \A l \in DOMAIN m[q] : m[q][l] = arcs[q][l]
  BY DEF Within
<1> HIDE DEF m
<1>6. g \in [0 .. n -> DOMAIN m]
  BY <1>3, <1>4, <1>5
<1>7. Steps(m, x, g)
  <2>1. g[0] \in DOMAIN m
    BY <1>3, <1>4, <1>5
  <2>2. ASSUME NEW i \in 1 .. n PROVE x[i] \in DOMAIN m[g[i - 1]] /\ g[i] = m[g[i - 1]][x[i]] /\ g[i] \in DOMAIN m
    <3>1. i - 1 \in 0 .. n /\ i \in 0 .. n
      OBVIOUS
    <3>2. x[i] \in DOMAIN arcs[g[i - 1]] /\ g[i] = arcs[g[i - 1]][x[i]]
      BY <1>2 DEF Steps
    <3> QED BY <1>3, <1>4, <1>5, <3>1, <3>2
  <2> QED BY <2>1, <2>2 DEF Steps
<1> QED BY <1>1, <1>2, <1>6, <1>7 DEF Reads, m

-----------------------------------------------------------------------------
(* Looking for an arc, over phi.                                           *)

\* Where the label l leads to from p, if f says so of the state after phi.
FindAt(m, l, byPhi, f, p) ==
  IF l \in DOMAIN m[p] THEN {m[p][l]}
  ELSE IF Phi \in DOMAIN m[p] /\ l \in byPhi THEN f[m[p][Phi]] ELSE {}
Finding(m, l, byPhi, f) == f = [p \in DOMAIN m |-> FindAt(m, l, byPhi, f, p)]

\* The least sets that hold what is found at each state and after phi.
Finds(m, l, byPhi, T, R) ==
  /\ R \in [DOMAIN m -> SUBSET T]
  /\ \A p \in DOMAIN m : FindAt(m, l, byPhi, R, p) \subseteq R[p]

\* The function that Find defines by recursion exists, because backing off ends.
LEMMA FindingExists ==
  ASSUME NEW m, Whole(m), NEW l, NEW byPhi
  PROVE  \E f : Finding(m, l, byPhi, f)
<1> DEFINE D == DOMAIN m
           T == {m[p][l] : p \in D}
           F == [p \in D |-> {t \in T : \A R \in [D -> SUBSET T] : Finds(m, l, byPhi, T, R) => t \in R[p]}]
<1>1. F \in [D -> SUBSET T]
  OBVIOUS
<1>2. ASSUME NEW R \in [D -> SUBSET T], Finds(m, l, byPhi, T, R), NEW p \in D PROVE F[p] \subseteq R[p]
  BY <1>2
<1>3. ASSUME NEW p \in D PROVE FindAt(m, l, byPhi, F, p) \subseteq F[p]
  <2> SUFFICES ASSUME NEW t \in FindAt(m, l, byPhi, F, p)
               PROVE  t \in T /\ \A R \in [D -> SUBSET T] : Finds(m, l, byPhi, T, R) => t \in R[p]
    OBVIOUS
  <2>0. /\ l \in DOMAIN m[p] => t = m[p][l]
        /\ l \notin DOMAIN m[p] => Phi \in DOMAIN m[p] /\ l \in byPhi /\ t \in F[m[p][Phi]]
    <3> HIDE DEF F
    <3> QED BY DEF FindAt
  <2>1. t \in T
    <3>1. CASE l \in DOMAIN m[p]
      BY <2>0, <3>1
    <3>2. CASE l \notin DOMAIN m[p]
      <4>1. m[p][Phi] \in D
        BY <2>0, <3>2 DEF Whole
      <4>2. F[m[p][Phi]] \subseteq T
        <5> HIDE DEF F, T
        <5> QED BY <1>1, <4>1
      <4> HIDE DEF F, T
      <4> QED BY <2>0, <3>2, <4>2
    <3> QED BY <3>1, <3>2
  <2>2. ASSUME NEW R \in [D -> SUBSET T], Finds(m, l, byPhi, T, R) PROVE t \in R[p]
    <3>1. FindAt(m, l, byPhi, R, p) \subseteq R[p]
      BY <2>2 DEF Finds
    <3>2. CASE l \in DOMAIN m[p]
      BY <2>0, <3>1, <3>2 DEF FindAt
    <3>3. CASE l \notin DOMAIN m[p]
      <4>1. m[p][Phi] \in D
        BY <2>0, <3>3 DEF Whole
      <4>2. F[m[p][Phi]] \subseteq R[m[p][Phi]]
        <5> HIDE DEF F, T
        <5> QED BY <1>2, <2>2, <4>1
      <4> HIDE DEF F, T
      <4> QED BY <2>0, <3>1, <3>3, <4>2 DEF FindAt
    <3> QED BY <3>2, <3>3
  <2> QED BY <2>1, <2>2
<1>4. ASSUME NEW p \in D PROVE F[p] \subseteq FindAt(m, l, byPhi, F, p)
  <2> DEFINE R == [q \in D |-> IF q = p THEN FindAt(m, l, byPhi, F, p) ELSE F[q]]
  <2>1. FindAt(m, l, byPhi, F, p) \subseteq T
    <3>1. F[p] \subseteq T
      BY <1>1
    <3> QED BY <1>3, <3>1
  <2>2. R \in [D -> SUBSET T]
    <3> HIDE DEF F, T
    <3> QED BY <1>1, <2>1
  <2>3. \A q \in D : R[q] \subseteq F[q]
    <3> HIDE DEF F
    <3> QED BY <1>3
  <2>4. \A q \in D : FindAt(m, l, byPhi, R, q) \subseteq FindAt(m, l, byPhi, F, q)
    <3> SUFFICES ASSUME NEW q \in D PROVE FindAt(m, l, byPhi, R, q) \subseteq FindAt(m, l, byPhi, F, q)
      OBVIOUS
    <3>1. Phi \in DOMAIN m[q] => m[q][Phi] \in D
      BY DEF Whole
    <3> HIDE DEF R, F, D
    <3> QED BY <2>3, <3>1 DEF FindAt
  <2>5. \A q \in D : FindAt(m, l, byPhi, R, q) \subseteq R[q]
    <3> SUFFICES ASSUME NEW q \in D PROVE FindAt(m, l, byPhi, R, q) \subseteq R[q]
      OBVIOUS
    <3>1. FindAt(m, l, byPhi, R, q) \subseteq FindAt(m, l, byPhi, F, q)
      <4> HIDE DEF R, F
      <4> QED BY <2>4
    <3>2. CASE q = p
      <4>1. R[q] = FindAt(m, l, byPhi, F, p)
        <5> HIDE DEF F
        <5> QED BY <3>2
      <4> HIDE DEF R, F
      <4> QED BY <3>1, <3>2, <4>1
    <3>3. CASE q # p
      <4>1. R[q] = F[q]
        <5> HIDE DEF F
        <5> QED BY <3>3
      <4> HIDE DEF R, F
      <4> QED BY <1>3, <3>1, <4>1
    <3> QED BY <3>2, <3>3
  <2>6. Finds(m, l, byPhi, T, R)
    <3> HIDE DEF R, T
    <3> QED BY <2>2, <2>5 DEF Finds
  <2>7. F[p] \subseteq R[p]
    <3> HIDE DEF R, F
    <3> QED BY <1>2, <2>2, <2>6
  <2>8. R[p] = FindAt(m, l, byPhi, F, p)
    <3> HIDE DEF F
    <3> QED OBVIOUS
  <2> HIDE DEF R, F
  <2> QED BY <2>7, <2>8
<1>5. \A p \in D : F[p] = FindAt(m, l, byPhi, F, p)
  <2> HIDE DEF F
  <2> QED BY <1>3, <1>4
<1>6. F = [p \in D |-> F[p]]
  OBVIOUS
<1> HIDE DEF F
<1> QED BY <1>5, <1>6 DEF Finding

\* Find is the arc at the state, or what is found at the state after phi.
LEMMA FindStep ==
  ASSUME NEW m, Whole(m), NEW l, NEW byPhi, NEW p \in DOMAIN m
  PROVE  /\ l \in DOMAIN m[p] => Find(m, p, l, byPhi) = {m[p][l]}
         /\ l \notin DOMAIN m[p] =>
              IF Phi \in DOMAIN m[p] /\ l \in byPhi
              THEN Find(m, p, l, byPhi) = Find(m, m[p][Phi], l, byPhi)
              ELSE Find(m, p, l, byPhi) = {}
<1> DEFINE f == CHOOSE g : Finding(m, l, byPhi, g)
<1>1. \A q : Find(m, q, l, byPhi) = f[q]
  BY Zenon DEF Find, Finding, FindAt
<1>2. Finding(m, l, byPhi, f)
  <2>1. \E g : Finding(m, l, byPhi, g)
    BY FindingExists
  <2> QED BY Zenon, <2>1
<1> HIDE DEF f
<1>3. f[p] = FindAt(m, l, byPhi, f, p)
  BY <1>2 DEF Finding
<1> QED BY <1>1, <1>3 DEF FindAt

-----------------------------------------------------------------------------
(* Finite sets.                                                            *)

\* The states of the well-formed strings are finitely many.
LEMMA WfStatesFinite ==
  ASSUME opts.limit \in Int, opts.conjs \in Nat, opts.segs \in Nat
  PROVE  IsFiniteSet(WfStates)
<1> DEFINE limits == 0 .. IF opts.limit < 0 THEN 0 ELSE opts.limit
           A == limits \X ConjStates(opts.conjs) \X ChgSegStates(opts.segs)
           f == [x \in (0 .. 2) \X SUBSET A |-> [pos |-> x[1], at |-> x[2]]]
<1>1. IsFiniteSet(limits) /\ IsFiniteSet(ConjStates(opts.conjs)) /\ IsFiniteSet(ChgSegStates(opts.segs))
  <2>1. IsFiniteSet(limits)
    <3>1. 0 \in Int /\ (IF opts.limit < 0 THEN 0 ELSE opts.limit) \in Int
      OBVIOUS
    <3> QED BY <3>1, IntervalFinite
  <2>2. IsFiniteSet(ConjStates(opts.conjs))
    BY IntervalFinite, FS_Singleton DEF ConjStates
  <2>3. IsFiniteSet(ChgSegStates(opts.segs))
    <3>1. 1 \in Int /\ 2 * opts.segs + 1 \in Int
      OBVIOUS
    <3>2. IsFiniteSet(1 .. 2 * opts.segs + 1)
      BY <3>1, IntervalFinite
    <3>3. IsFiniteSet({0})
      BY FS_Singleton
    <3> QED BY <3>2, <3>3 DEF ChgSegStates
  <2> QED BY <2>1, <2>2, <2>3
<1>2. IsFiniteSet(A)
  <2> DEFINE L == limits
             C == ConjStates(opts.conjs)
             R == ChgSegStates(opts.segs)
             B == (L \X C) \X R
             h == [x \in B |-> <<x[1][1], x[1][2], x[2]>>]
             I == {h[x] : x \in B}
  <2> HIDE DEF L, C, R
  <2>1. IsFiniteSet(L \X C)
    BY <1>1, FS_Product DEF L, C
  <2>2. IsFiniteSet(B)
    BY <1>1, <2>1, FS_Product DEF R
  <2>3. IsFiniteSet(I)
    <3> HIDE DEF h, B
    <3> QED BY <2>2, ImageFinite
  <2>4. L \X C \X R \subseteq I
    <3> SUFFICES ASSUME NEW x \in L \X C \X R PROVE x \in I
      OBVIOUS
    <3>1. <<<<x[1], x[2]>>, x[3]>> \in B /\ h[<<<<x[1], x[2]>>, x[3]>>] = x
      OBVIOUS
    <3> HIDE DEF h, B
    <3> QED BY <3>1
  <2>5. A = L \X C \X R
    BY DEF L, C, R
  <2> HIDE DEF I, A
  <2> QED BY <2>3, <2>4, <2>5, FS_Subset
<1> HIDE DEF A
<1>3. IsFiniteSet((0 .. 2) \X SUBSET A)
  <2>1. IsFiniteSet(SUBSET A)
    BY <1>2, FS_SUBSET
  <2>2. IsFiniteSet(0 .. 2)
    <3>1. 0 \in Int /\ 2 \in Int
      OBVIOUS
    <3> QED BY <3>1, IntervalFinite
  <2> QED BY <2>1, <2>2, FS_Product
<1> DEFINE T == {f[x] : x \in (0 .. 2) \X SUBSET A}
<1>4. IsFiniteSet(T)
  <2> HIDE DEF f
  <2> QED BY <1>3, ImageFinite
<1>5. WfStates \subseteq T
  <2> SUFFICES ASSUME NEW w \in WfStates PROVE w \in T
    OBVIOUS
  <2>1. w \in [pos : 0 .. 2, at : SUBSET A]
    BY DEF WfStates, A
  <2>2. <<w.pos, w.at>> \in (0 .. 2) \X SUBSET A /\ f[<<w.pos, w.at>>] = w
    BY <2>1
  <2> HIDE DEF f
  <2> QED BY <2>2
<1> HIDE DEF T
<1> QED BY <1>4, <1>5, FS_Subset

-----------------------------------------------------------------------------
(* The machine that Convert makes: the parts of it that score.             *)

\* The states of the trie that go on, but not after the end.
Core(G, n, e) == {p \in Inner(G, n) : \A i \in 1 .. Len(p) : p[i] # e}

\* A trie with its back-off arcs, the start state of its own and the one final state.
Ended(G, s, e, nx, d) ==
  /\ DOMAIN d = G \cup {NewStart, FinalState}
  /\ DOMAIN d[FinalState] = {}
  /\ DOMAIN d[NewStart] = {s} /\ d[NewStart][s] = nx[Root][s]
  /\ \A p \in G : /\ DOMAIN d[p] = DOMAIN nx[p] \ (IF p = Root THEN {s} ELSE {})
                  /\ \A l \in DOMAIN d[p] : d[p][l] = IF l = e THEN FinalState ELSE nx[p][l]

\* What is left of it when it is connected.
ScoresAt(m, G, n, s, e, p) ==
  /\ p # Root => Phi \in DOMAIN m[p] /\ BacksTo(G, n, p, m[p][Phi])
  /\ p = Root => Phi \notin DOMAIN m[p]
  /\ DOMAIN m[p] \subseteq Kids(G, n, p) \cup {Phi}
  /\ \A l \in Kids(G, n, p) : l # e /\ (p = Root => l # s) =>
       l \in DOMAIN m[p] /\ IsLongest(m[p][l], InnerEnds(G, n, Append(p, l)))
  /\ e \in Kids(G, n, p) => e \in DOMAIN m[p] /\ m[p][e] = FinalState
Scores(m, G, n, s, e) ==
  /\ IsFiniteSet(DOMAIN m) /\ Whole(m)
  /\ NewStart \in DOMAIN m /\ FinalState \in DOMAIN m /\ Core(G, n, e) \subseteq DOMAIN m
  /\ s \in DOMAIN m[NewStart] /\ IsLongest(m[NewStart][s], InnerEnds(G, n, <<s>>))
  /\ \A p \in Core(G, n, e) : ScoresAt(m, G, n, s, e, p)

\* What a string ends with, if it goes on, is in the core.
LEMMA CoreEnds ==
  ASSUME NEW n \in Nat, NEW G, NEW e, Grams(G, n, e), NEW p \in Seq(1 .. n),
         \A i \in 1 .. Len(p) : p[i] # e, NEW q \in InnerEnds(G, n, p)
  PROVE  q \in Core(G, n, e) /\ Len(q) <= Len(p)
<1>1. q \in G /\ ~ Leaf(G, n, q) /\ Ends(q, p) /\ q \in Seq(1 .. n)
  BY DEF InnerEnds, Grams
<1>2. \A i \in 1 .. Len(q) : q[i] # e
  <2> SUFFICES ASSUME NEW i \in 1 .. Len(q) PROVE q[i] # e
    OBVIOUS
  <2>1. Len(q) \in Nat /\ Len(p) \in Nat /\ Len(q) <= Len(p) /\ q[i] = p[Len(p) - Len(q) + i]
    BY <1>1 DEF Ends
  <2>2. Len(p) - Len(q) + i \in 1 .. Len(p)
    BY <2>1
  <2> QED BY <2>1, <2>2
<1> QED BY <1>1, <1>2 DEF Core, Inner, Ends

\* There is one longest suffix that goes on.
LEMMA OneLongest ==
  ASSUME NEW n \in Nat, NEW G, NEW e, Grams(G, n, e), NEW p \in Seq(1 .. n),
         NEW a, IsLongest(a, InnerEnds(G, n, p)), NEW b, IsLongest(b, InnerEnds(G, n, p))
  PROVE  a = b
<1>1. InnerEnds(G, n, p) \subseteq {q \in Seq(1 .. n) : Ends(q, p)}
  BY DEF InnerEnds, Grams
<1> QED BY <1>1, LongestIs

\* What a state of the core is like.
LEMMA CoreIs ==
  ASSUME NEW n \in Nat, NEW G, NEW e, Grams(G, n, e), NEW p \in Core(G, n, e)
  PROVE  /\ p \in G /\ p \in Inner(G, n) /\ ~ Leaf(G, n, p) /\ p \in Seq(1 .. n) /\ Len(p) \in Nat
         /\ \A i \in 1 .. Len(p) : p[i] # e
         /\ IsLongest(p, InnerEnds(G, n, p))
         /\ p # Root => Front(p) \in Core(G, n, e) /\ Last(p) # e /\ Last(p) \in Kids(G, n, Front(p))
                        /\ Append(Front(p), Last(p)) = p /\ Len(Front(p)) < Len(p)
<1>1. /\ p \in G /\ p \in Inner(G, n) /\ ~ Leaf(G, n, p) /\ p \in Seq(1 .. n) /\ Len(p) \in Nat
      /\ \A i \in 1 .. Len(p) : p[i] # e
  BY DEF Core, Inner, Grams
<1>2. IsLongest(p, InnerEnds(G, n, p))
  <2>1. p \in InnerEnds(G, n, p)
    BY <1>1, EndsItself DEF InnerEnds
  <2>2. \A q \in InnerEnds(G, n, p) : Len(q) <= Len(p)
    BY DEF InnerEnds, Ends
  <2> QED BY <2>1, <2>2 DEF IsLongest
<1>3. ASSUME p # Root
      PROVE  /\ Front(p) \in Core(G, n, e) /\ Last(p) # e /\ Last(p) \in Kids(G, n, Front(p))
             /\ Append(Front(p), Last(p)) = p /\ Len(Front(p)) < Len(p)
  <2>1. /\ Front(p) \in Inner(G, n) /\ Last(p) \in Kids(G, n, Front(p)) /\ Append(Front(p), Last(p)) = p
    BY <1>1, <1>3, InnerFront
  <2>2. p # <<>>
    BY <1>3 DEF Root
  <2>3. /\ Len(Front(p)) = Len(p) - 1 /\ Last(p) = p[Len(p)] /\ Len(p) > 0
        /\ \A i \in 1 .. Len(p) - 1 : Front(p)[i] = p[i]
    BY <1>1, <2>2, FrontFacts
  <2>4. Last(p) # e /\ \A i \in 1 .. Len(Front(p)) : Front(p)[i] # e
    BY <1>1, <2>3
  <2> QED BY <1>1, <2>1, <2>3, <2>4 DEF Core
<1> QED BY <1>1, <1>2, <1>3

\* Phi leads from the core to a shorter string of the core.
LEMMA BackoffIsShorter ==
  ASSUME NEW n \in Nat, NEW G, NEW e, Grams(G, n, e), NEW p \in Core(G, n, e), p # Root,
         NEW b, BacksTo(G, n, p, b)
  PROVE  b \in Core(G, n, e) /\ Len(b) \in Nat /\ Len(b) < Len(p)
<1>1. /\ p \in Seq(1 .. n) /\ Len(p) \in Nat /\ \A i \in 1 .. Len(p) : p[i] # e
  BY CoreIs
<1>2. b \in InnerEnds(G, n, p) /\ b # p
  BY DEF BacksTo, IsLongest
<1>3. b \in Core(G, n, e)
  BY <1>1, <1>2, CoreEnds
<1>4. b \in Seq(1 .. n) /\ Ends(b, p)
  BY <1>2, <1>3, CoreIs DEF InnerEnds
<1>5. Len(b) < Len(p)
  BY <1>1, <1>2, <1>4, EndsTail
<1> QED BY <1>3, <1>4, <1>5

-----------------------------------------------------------------------------
(* The trie when AddBackoff has returned.                                  *)

\* The root has no phi arc.
NoPhiAtRoot(nx) == Phi \notin DOMAIN nx[Root]

\* The new start and the final state are none of the trie.
LEMMA SpecialStates ==
  ASSUME NEW n \in Nat, NEW G, G \subseteq Seq(1 .. n)
  PROVE  NewStart \notin G /\ FinalState \notin G /\ NewStart # FinalState
<1>1. NewStart[1] = -1 /\ FinalState[1] = -2 /\ Len(NewStart) = 1 /\ Len(FinalState) = 1
  BY DEF NewStart, FinalState
<1>2. \A p \in Seq(1 .. n) : Len(p) = 1 => p[1] \in 1 .. n
  OBVIOUS
<1> HIDE DEF NewStart, FinalState
<1> QED BY <1>1, <1>2

\* The arcs that AddBackoff leaves.
LEMMA DoneArcs ==
  ASSUME NEW n \in Nat, NEW G, NEW e \in 1 .. n, Grams(G, n, e), NEW nx, Backing(G, n, e, nx, {}),
         NoPhiAtRoot(nx), NEW p \in G
  PROVE  /\ p \notin Inner(G, n) => DOMAIN nx[p] = {}
         /\ p \in Inner(G, n) =>
              /\ p # Root => Phi \in DOMAIN nx[p] /\ BacksTo(G, n, p, nx[p][Phi])
              /\ p = Root => Phi \notin DOMAIN nx[p]
              /\ Kids(G, n, p) \subseteq DOMAIN nx[p] /\ DOMAIN nx[p] \subseteq Kids(G, n, p) \cup {Phi}
              /\ \A l \in Kids(G, n, p) : l # e => IsLongest(nx[p][l], InnerEnds(G, n, Append(p, l)))
         /\ \A l \in DOMAIN nx[p] : l # e => nx[p][l] \in G
<1>1. CASE p \notin Inner(G, n)
  <2>1. nx[p] = <<>>
    BY <1>1 DEF Backing, TrieArcs, Inner
  <2> QED BY <1>1, <2>1, EmptyFacts
<1>2. CASE p \in Inner(G, n)
  <2>1. DoneRight(G, n, e, nx, p)
    BY <1>2, LastBacking
  <2>2. Kids(G, n, p) \subseteq DOMAIN nx[p] /\ DOMAIN nx[p] \subseteq Kids(G, n, p) \cup {Phi}
    BY <1>2 DEF Backing, TrieArcs
  <2>3. \A l \in Kids(G, n, p) : l # e => IsLongest(nx[p][l], InnerEnds(G, n, Append(p, l)))
    BY <2>1 DEF DoneRight, Right
  <2>4. p # Root => Phi \in DOMAIN nx[p] /\ BacksTo(G, n, p, nx[p][Phi])
    BY <2>1 DEF DoneRight
  <2>5. p = Root => Phi \notin DOMAIN nx[p]
    BY DEF NoPhiAtRoot
  <2>6. ASSUME NEW l \in DOMAIN nx[p], l # e PROVE nx[p][l] \in G
    <3>1. CASE l \in Kids(G, n, p)
      BY <2>3, <2>6, <3>1 DEF IsLongest, InnerEnds
    <3>2. CASE l = Phi
      BY <2>4, <2>5, <2>6, <3>2 DEF IsLongest, InnerEnds, BacksTo
    <3> QED BY <2>2, <2>6, <3>1, <3>2
  <2> QED BY <1>2, <2>2, <2>3, <2>4, <2>5, <2>6
<1> QED BY <1>1, <1>2

\* Every arc of the ended machine leads to one of its states.
LEMMA EndedWhole ==
  ASSUME NEW n \in Nat, NEW G, NEW s \in 1 .. n, NEW e \in 1 .. n, s # e, Grams(G, n, e), <<s>> \in G,
         NEW nx, Backing(G, n, e, nx, {}), NoPhiAtRoot(nx), NEW d, Ended(G, s, e, nx, d)
  PROVE  Whole(d)
<1>1. Root \in G /\ s \in Kids(G, n, Root) /\ s \in DOMAIN nx[Root] /\ s # Phi
  <2>1. Root \in G /\ Append(Root, s) = <<s>>
    BY DEF Grams, Root
  <2>2. s \in Kids(G, n, Root)
    BY <2>1 DEF Kids
  <2>3. Root \in Inner(G, n)
    BY <2>1, <2>2, KidsAre
  <2> QED BY <2>1, <2>2, <2>3, DoneArcs DEF Phi
<1> SUFFICES ASSUME NEW q \in DOMAIN d, NEW l \in DOMAIN d[q] PROVE d[q][l] \in DOMAIN d
  BY DEF Whole
<1>2. CASE q = NewStart
  BY <1>1, <1>2, DoneArcs DEF Ended
<1>3. CASE q \in G
  <2>1. l \in DOMAIN nx[q] /\ d[q][l] = IF l = e THEN FinalState ELSE nx[q][l]
    BY <1>3 DEF Ended
  <2>2. l # e => nx[q][l] \in G
    BY <1>3, <2>1, DoneArcs
  <2> QED BY <2>1, <2>2 DEF Ended
<1> QED BY <1>2, <1>3 DEF Ended

\* The arcs of the states that matter.
LEMMA EndedCore ==
  ASSUME NEW n \in Nat, NEW G, NEW s \in 1 .. n, NEW e \in 1 .. n, s # e, Grams(G, n, e),
         NEW nx, Backing(G, n, e, nx, {}), NoPhiAtRoot(nx), NEW d, Ended(G, s, e, nx, d),
         NEW p \in Core(G, n, e)
  PROVE  /\ ScoresAt(d, G, n, s, e, p)
         /\ p # Root => d[p][Phi] \in Core(G, n, e) /\ Len(d[p][Phi]) < Len(p)
         /\ \A l \in Kids(G, n, p) : l # e /\ (p = Root => l # s) => d[p][l] \in Core(G, n, e)
<1>1. p \in G /\ p \in Inner(G, n) /\ p \in Seq(1 .. n) /\ \A i \in 1 .. Len(p) : p[i] # e
  BY CoreIs
<1>2. /\ p # Root => Phi \in DOMAIN nx[p] /\ BacksTo(G, n, p, nx[p][Phi])
      /\ p = Root => Phi \notin DOMAIN nx[p]
      /\ Kids(G, n, p) \subseteq DOMAIN nx[p] /\ DOMAIN nx[p] \subseteq Kids(G, n, p) \cup {Phi}
      /\ \A l \in Kids(G, n, p) : l # e => IsLongest(nx[p][l], InnerEnds(G, n, Append(p, l)))
  BY <1>1, DoneArcs
<1>3. /\ DOMAIN d[p] = DOMAIN nx[p] \ (IF p = Root THEN {s} ELSE {})
      /\ \A l \in DOMAIN d[p] : d[p][l] = IF l = e THEN FinalState ELSE nx[p][l]
  BY <1>1 DEF Ended
<1>4. Phi # s /\ Phi # e
  BY DEF Phi
<1>5. p # Root => Phi \in DOMAIN d[p] /\ d[p][Phi] = nx[p][Phi]
  BY <1>2, <1>3, <1>4
<1>6. ASSUME NEW l \in Kids(G, n, p), l # e, p = Root => l # s
      PROVE  l \in DOMAIN d[p] /\ d[p][l] = nx[p][l]
  BY <1>2, <1>3, <1>6
<1>7. ScoresAt(d, G, n, s, e, p)
  <2>1. e \in Kids(G, n, p) => e \in DOMAIN d[p] /\ d[p][e] = FinalState
    BY <1>2, <1>3
  <2> QED BY <1>2, <1>3, <1>5, <1>6, <2>1 DEF ScoresAt
<1>8. p # Root => d[p][Phi] \in Core(G, n, e) /\ Len(d[p][Phi]) < Len(p)
  BY <1>2, <1>5, BackoffIsShorter
<1>9. ASSUME NEW l \in Kids(G, n, p), l # e, p = Root => l # s PROVE d[p][l] \in Core(G, n, e)
  <2>1. d[p][l] \in InnerEnds(G, n, Append(p, l))
    BY <1>2, <1>6, <1>9 DEF IsLongest
  <2>2. l \in 1 .. n
    BY DEF Kids
  <2>3. /\ Append(p, l) \in Seq(1 .. n) /\ Len(Append(p, l)) = Len(p) + 1 /\ Len(p) \in Nat
        /\ \A i \in 1 .. Len(p) : Append(p, l)[i] = p[i]
        /\ Append(p, l)[Len(p) + 1] = l
    BY <1>1, <2>2, AppendFacts
  <2>4. \A i \in 1 .. Len(Append(p, l)) : Append(p, l)[i] # e
    BY <1>1, <1>9, <2>3
  <2> QED BY <2>1, <2>3, <2>4, CoreEnds
<1> QED BY <1>7, <1>8, <1>9

-----------------------------------------------------------------------------
(* Trimming keeps what scores.                                             *)

\* The start leads to the longest history of S|S.
LEMMA EndedStart ==
  ASSUME NEW n \in Nat, NEW G, NEW s \in 1 .. n, NEW e \in 1 .. n, s # e, Grams(G, n, e), <<s>> \in G,
         NEW nx, Backing(G, n, e, nx, {}), NoPhiAtRoot(nx), NEW d, Ended(G, s, e, nx, d)
  PROVE  /\ IsLongest(d[NewStart][s], InnerEnds(G, n, <<s>>))
         /\ d[NewStart][s] \in Core(G, n, e)
         /\ Root \in Core(G, n, e) /\ s \in Kids(G, n, Root)
<1>1. Root \in G /\ Append(Root, s) = <<s>> /\ <<s>> \in Seq(1 .. n) /\ Len(<<s>>) = 1
  BY DEF Grams, Root
<1>2. s \in Kids(G, n, Root)
  BY <1>1 DEF Kids
<1>3. Root \in Inner(G, n)
  BY <1>1, <1>2, KidsAre
<1>4. IsLongest(nx[Root][s], InnerEnds(G, n, <<s>>))
  <2>1. \A l \in Kids(G, n, Root) : l # e => IsLongest(nx[Root][l], InnerEnds(G, n, Append(Root, l)))
    BY <1>1, <1>3, DoneArcs
  <2> QED BY <1>1, <1>2, <2>1
<1>5. d[NewStart][s] = nx[Root][s]
  BY DEF Ended
<1>6. \A i \in 1 .. Len(<<s>>) : <<s>>[i] # e
  BY <1>1
<1>7. d[NewStart][s] \in Core(G, n, e)
  BY <1>1, <1>4, <1>5, <1>6, CoreEnds DEF IsLongest
<1>8. Root \in Core(G, n, e)
  BY <1>3 DEF Core, Root
<1> QED BY <1>2, <1>4, <1>5, <1>7, <1>8

\* All states that matter are on a path from the start to the final state.
LEMMA CoreKept ==
  ASSUME NEW n \in Nat, NEW G, NEW s \in 1 .. n, NEW e \in 1 .. n, s # e, Grams(G, n, e),
         <<s>> \in G, <<e>> \in G,
         NEW nx, Backing(G, n, e, nx, {}), NoPhiAtRoot(nx), NEW d, Ended(G, s, e, nx, d),
         NEW F, Ahead(d, F), NewStart \in F, NEW B, Behind(d, B), FinalState \in B
  PROVE  Core(G, n, e) \cup {NewStart, FinalState} \subseteq F \cap B
<1> DEFINE C == Core(G, n, e)
<1>1. /\ IsLongest(d[NewStart][s], InnerEnds(G, n, <<s>>)) /\ d[NewStart][s] \in C
      /\ Root \in C /\ s \in Kids(G, n, Root) /\ s \in DOMAIN d[NewStart]
  BY EndedStart DEF Ended
<1>2. C \subseteq DOMAIN d /\ NewStart \in DOMAIN d
  BY CoreIs DEF Ended
<1>3. e \in Kids(G, n, Root)
  BY DEF Kids, Root
<1>4. \A p \in C : /\ ScoresAt(d, G, n, s, e, p)
                   /\ p # Root => d[p][Phi] \in C /\ Len(d[p][Phi]) < Len(p)
                   /\ \A l \in Kids(G, n, p) : l # e /\ (p = Root => l # s) => d[p][l] \in C
  BY EndedCore
<1>5. \A p \in C : Len(p) \in Nat
  BY CoreIs
<1>6. d[NewStart][s] \in F
  BY <1>1 DEF Ahead
<1>7. Root \in F
  <2> DEFINE h == d[NewStart][s]
  <2>1. CASE h = Root
    BY <1>6, <2>1
  <2>2. CASE h # Root
    <3>1. h \in C /\ Phi \in DOMAIN d[h] /\ d[h][Phi] \in C /\ Len(d[h][Phi]) < Len(h) /\ d[h][Phi] \in F
      BY <1>1, <1>4, <1>6, <2>2 DEF ScoresAt, Ahead
    <3>2. <<s>> \in Seq(1 .. n) /\ Len(<<s>>) = 1 /\ \A i \in 1 .. Len(<<s>>) : <<s>>[i] # e
      OBVIOUS
    <3>3. Len(h) <= 1
      BY <1>1, <3>2, CoreEnds DEF IsLongest
    <3>4. Len(d[h][Phi]) = 0 /\ d[h][Phi] \in Seq(1 .. n)
      BY <1>5, <3>1, <3>3, CoreIs
    <3>5. d[h][Phi] = Root
      BY <3>4 DEF Root
    <3> QED BY <3>1, <3>5
  <2> QED BY <2>1, <2>2
<1>8. FinalState \in F
  <2>1. e \in DOMAIN d[Root] /\ d[Root][e] = FinalState
    BY <1>1, <1>3, <1>4 DEF ScoresAt
  <2> QED BY <1>7, <2>1 DEF Ahead
<1>9. C \subseteq F
  <2> DEFINE Bad == {k \in Nat : \E p \in C : p \notin F /\ Len(p) = k}
  <2>1. ASSUME Bad # {} PROVE FALSE
    <3>1. Bad \in SUBSET Nat
      OBVIOUS
    <3>2. PICK k \in Bad : \A j \in Bad : k <= j
      <4> HIDE DEF Bad
      <4> QED BY <2>1, <3>1, LeastNatural
    <3>3. PICK p \in C : p \notin F /\ Len(p) = k
      BY <3>2
    <3> DEFINE q == Front(p)
               l == Last(p)
    <3>4. /\ p # Root
          /\ q \in C /\ l # e /\ l \in Kids(G, n, q) /\ Append(q, l) = p /\ Len(q) < Len(p)
          /\ p \in Seq(1 .. n) /\ IsLongest(p, InnerEnds(G, n, p))
      BY <1>7, <3>3, CoreIs
    <3> HIDE DEF q, l
    <3>5. q \in F
      <4>1. Len(q) \in Nat /\ ~ (k <= Len(q))
        BY <1>5, <3>2, <3>3, <3>4
      <4>2. Len(q) \notin Bad
        BY <3>2, <4>1
      <4> QED BY <3>4, <4>1, <4>2
    <3>6. CASE q = Root /\ l = s
      <4>1. p = <<s>>
        BY <3>4, <3>6 DEF Root
      <4>2. p = d[NewStart][s]
        BY <1>1, <3>4, <4>1, OneLongest
      <4> QED BY <1>6, <3>3, <4>2
    <3>7. CASE ~ (q = Root /\ l = s)
      <4>1. l \in DOMAIN d[q] /\ IsLongest(d[q][l], InnerEnds(G, n, p))
        BY <1>4, <3>4, <3>7 DEF ScoresAt
      <4>2. d[q][l] = p
        BY <3>4, <4>1, OneLongest
      <4> QED BY <3>3, <3>5, <4>1, <4>2 DEF Ahead
    <3> QED BY <3>6, <3>7
  <2>2. \A p \in C : p \notin F => Len(p) \in Bad
    BY <1>5
  <2> HIDE DEF Bad
  <2> QED BY <2>1, <2>2
<1>10. C \subseteq B
  <2> DEFINE Bad == {k \in Nat : \E p \in C : p \notin B /\ Len(p) = k}
  <2>1. ASSUME Bad # {} PROVE FALSE
    <3>1. Bad \in SUBSET Nat
      OBVIOUS
    <3>2. PICK k \in Bad : \A j \in Bad : k <= j
      <4> HIDE DEF Bad
      <4> QED BY <2>1, <3>1, LeastNatural
    <3>3. PICK p \in C : p \notin B /\ Len(p) = k
      BY <3>2
    <3>4. CASE p = Root
      <4>1. e \in DOMAIN d[Root] /\ d[Root][e] = FinalState
        BY <1>1, <1>3, <1>4 DEF ScoresAt
      <4> QED BY <1>2, <3>3, <3>4, <4>1 DEF Behind
    <3>5. CASE p # Root
      <4>1. Phi \in DOMAIN d[p] /\ d[p][Phi] \in C /\ Len(d[p][Phi]) < Len(p)
        BY <1>4, <3>3, <3>5 DEF ScoresAt
      <4>2. Len(d[p][Phi]) \in Nat /\ ~ (k <= Len(d[p][Phi]))
        BY <1>5, <3>2, <3>3, <4>1
      <4>3. Len(d[p][Phi]) \notin Bad
        BY <3>2, <4>2
      <4>4. d[p][Phi] \in B
        BY <4>1, <4>2, <4>3
      <4> QED BY <1>2, <3>3, <4>1, <4>4 DEF Behind
    <3> QED BY <3>4, <3>5
  <2>2. \A p \in C : p \notin B => Len(p) \in Bad
    BY <1>5
  <2> HIDE DEF Bad
  <2> QED BY <2>1, <2>2
<1>11. NewStart \in B
  BY <1>1, <1>2, <1>10 DEF Behind
<1> QED BY <1>8, <1>9, <1>10, <1>11

\* The trimmed machine scores as the trie says.
LEMMA EndedScores ==
  ASSUME NEW n \in Nat, NEW G, IsFiniteSet(G), NEW s \in 1 .. n, NEW e \in 1 .. n, s # e,
         Grams(G, n, e), <<s>> \in G, <<e>> \in G,
         NEW nx, Backing(G, n, e, nx, {}), NoPhiAtRoot(nx), NEW d, Ended(G, s, e, nx, d)
  PROVE  Scores(Connected(d, NewStart, {FinalState}), G, n, s, e)
<1>1. IsFiniteSet(DOMAIN d)
  <2>1. IsFiniteSet(G \cup {NewStart})
    BY FS_AddElement
  <2>2. IsFiniteSet((G \cup {NewStart}) \cup {FinalState})
    BY <2>1, FS_AddElement
  <2>3. DOMAIN d = (G \cup {NewStart}) \cup {FinalState}
    BY DEF Ended
  <2> QED BY <2>2, <2>3
<1>2. Whole(d)
  BY EndedWhole
<1>3. NewStart \in DOMAIN d /\ {FinalState} \in SUBSET DOMAIN d
  BY DEF Ended
<1>4. PICK F, B : Trims(d, NewStart, {FinalState}, F, B)
  BY <1>1, <1>2, <1>3, ConnectedIs
<1> DEFINE K == F \cap B
           m == Within(d, K)
           C == Core(G, n, e)
<1>5. /\ K \in SUBSET DOMAIN d /\ Connected(d, NewStart, {FinalState}) = m
      /\ Ahead(d, F) /\ NewStart \in F /\ Behind(d, B) /\ FinalState \in B
  BY <1>4 DEF Trims
<1>6. C \cup {NewStart, FinalState} \subseteq K
  BY <1>5, CoreKept
<1>7. DOMAIN m = K /\ \A q \in K : /\ DOMAIN m[q] = {l \in DOMAIN d[q] : d[q][l] \in K}
                                   /\ \A l \in DOMAIN m[q] : m[q][l] = d[q][l]
  BY DEF Within
<1> HIDE DEF m, K
<1>8. IsFiniteSet(DOMAIN m) /\ Whole(m)
  <2>1. IsFiniteSet(DOMAIN m)
    BY <1>1, <1>5, <1>7, FS_Subset
  <2> QED BY <1>7, <2>1 DEF Whole
<1>9. s \in DOMAIN m[NewStart] /\ IsLongest(m[NewStart][s], InnerEnds(G, n, <<s>>))
  <2>1. s \in DOMAIN d[NewStart] /\ d[NewStart][s] \in C /\ IsLongest(d[NewStart][s], InnerEnds(G, n, <<s>>))
    BY EndedStart DEF Ended
  <2> QED BY <1>6, <1>7, <2>1
<1>10. ASSUME NEW p \in C PROVE ScoresAt(m, G, n, s, e, p)
  <2>1. /\ ScoresAt(d, G, n, s, e, p)
        /\ p # Root => d[p][Phi] \in C
        /\ \A l \in Kids(G, n, p) : l # e /\ (p = Root => l # s) => d[p][l] \in C
    BY EndedCore
  <2>2. p \in K /\ C \subseteq K /\ FinalState \in K
    BY <1>6
  <2>3. /\ DOMAIN m[p] = {l \in DOMAIN d[p] : d[p][l] \in K}
        /\ \A l \in DOMAIN m[p] : m[p][l] = d[p][l]
    BY <1>7, <2>2
  <2> HIDE DEF C
  <2>4. p # Root => Phi \in DOMAIN m[p] /\ BacksTo(G, n, p, m[p][Phi])
    BY <2>1, <2>2, <2>3 DEF ScoresAt
  <2>5. (p = Root => Phi \notin DOMAIN m[p]) /\ DOMAIN m[p] \subseteq Kids(G, n, p) \cup {Phi}
    BY <2>1, <2>3 DEF ScoresAt
  <2>6. \A l \in Kids(G, n, p) : l # e /\ (p = Root => l # s) =>
          l \in DOMAIN m[p] /\ IsLongest(m[p][l], InnerEnds(G, n, Append(p, l)))
    BY <2>1, <2>2, <2>3 DEF ScoresAt
  <2>7. e \in Kids(G, n, p) => e \in DOMAIN m[p] /\ m[p][e] = FinalState
    BY <2>1, <2>2, <2>3 DEF ScoresAt
  <2> QED BY <2>4, <2>5, <2>6, <2>7 DEF ScoresAt
<1> QED BY <1>5, <1>6, <1>7, <1>8, <1>9, <1>10 DEF Scores

\* S|S is read at the start state and nothing else is, nor S|S at the root; nothing follows E|E.
BoundedBy(m, s) == DOMAIN m[NewStart] \subseteq {s} /\ DOMAIN m[FinalState] = {} /\ s \notin DOMAIN m[Root]

\* So it is after the trimming.
LEMMA EndedBounded ==
  ASSUME NEW n \in Nat, NEW G, IsFiniteSet(G), NEW s \in 1 .. n, NEW e \in 1 .. n, s # e,
         Grams(G, n, e), <<s>> \in G, <<e>> \in G,
         NEW nx, Backing(G, n, e, nx, {}), NoPhiAtRoot(nx), NEW d, Ended(G, s, e, nx, d)
  PROVE  BoundedBy(Connected(d, NewStart, {FinalState}), s)
<1>1. IsFiniteSet(DOMAIN d)
  <2>1. IsFiniteSet(G \cup {NewStart})
    BY FS_AddElement
  <2>2. IsFiniteSet((G \cup {NewStart}) \cup {FinalState})
    BY <2>1, FS_AddElement
  <2>3. DOMAIN d = (G \cup {NewStart}) \cup {FinalState}
    BY DEF Ended
  <2> QED BY <2>2, <2>3
<1>2. NewStart \in DOMAIN d /\ {FinalState} \in SUBSET DOMAIN d
  BY DEF Ended
<1>3. Whole(d)
  BY EndedWhole
<1>4. PICK F, B : Trims(d, NewStart, {FinalState}, F, B)
  BY <1>1, <1>2, <1>3, ConnectedIs
<1> DEFINE m == Connected(d, NewStart, {FinalState})
<1>5. /\ m = Within(d, F \cap B) /\ Ahead(d, F) /\ NewStart \in F /\ Behind(d, B) /\ FinalState \in B
  BY <1>4 DEF Trims
<1>6. Core(G, n, e) \cup {NewStart, FinalState} \subseteq F \cap B
  BY <1>5, CoreKept
<1> HIDE DEF m
<1>7. \A q \in F \cap B : DOMAIN m[q] \subseteq DOMAIN d[q]
  BY <1>5 DEF Within
<1>8. Root \in F \cap B /\ Root \in G
  BY <1>6, EndedStart DEF Grams
<1>9. DOMAIN d[NewStart] = {s} /\ DOMAIN d[FinalState] = {} /\ s \notin DOMAIN d[Root]
  BY <1>8 DEF Ended
<1> QED BY <1>6, <1>7, <1>8, <1>9 DEF BoundedBy, m

-----------------------------------------------------------------------------
(* Endings of strings.                                                     *)

\* A suffix of a suffix is a suffix.
LEMMA EndsChain ==
  ASSUME NEW S, NEW p \in Seq(S), NEW q \in Seq(S), NEW r \in Seq(S), Ends(q, p)
  PROVE  /\ Ends(r, q) => Ends(r, p)
         /\ Ends(r, p) /\ Len(r) <= Len(q) => Ends(r, q)
<1>1. Len(p) \in Nat /\ Len(q) \in Nat /\ Len(r) \in Nat
  OBVIOUS
<1>2. Len(q) <= Len(p) /\ \A i \in 1 .. Len(q) : q[i] = p[Len(p) - Len(q) + i]
  BY DEF Ends
<1>3. ASSUME Ends(r, q) PROVE Ends(r, p)
  <2>1. Len(r) <= Len(q) /\ \A i \in 1 .. Len(r) : r[i] = q[Len(q) - Len(r) + i]
    BY <1>3 DEF Ends
  <2>2. ASSUME NEW i \in 1 .. Len(r) PROVE r[i] = p[Len(p) - Len(r) + i]
    <3>1. /\ Len(q) - Len(r) + i \in 1 .. Len(q)
          /\ Len(p) - Len(q) + (Len(q) - Len(r) + i) = Len(p) - Len(r) + i
      BY <1>1, <2>1
    <3> QED BY <1>2, <2>1, <3>1
  <2> QED BY <1>1, <1>2, <2>1, <2>2 DEF Ends
<1>4. ASSUME Ends(r, p), Len(r) <= Len(q) PROVE Ends(r, q)
  <2>1. \A i \in 1 .. Len(r) : r[i] = p[Len(p) - Len(r) + i]
    BY <1>4 DEF Ends
  <2>2. ASSUME NEW i \in 1 .. Len(r) PROVE r[i] = q[Len(q) - Len(r) + i]
    <3>1. /\ Len(q) - Len(r) + i \in 1 .. Len(q)
          /\ Len(p) - Len(q) + (Len(q) - Len(r) + i) = Len(p) - Len(r) + i
      BY <1>1, <1>4
    <3> QED BY <1>2, <2>1, <3>1
  <2> QED BY <1>1, <1>4, <2>2 DEF Ends
<1> QED BY <1>3, <1>4

\* The history of a string that is one label longer.
LEMMA LongestThen ==
  ASSUME NEW n \in Nat, NEW G, NEW e, Grams(G, n, e), NEW p \in Seq(1 .. n), NEW l \in 1 .. n,
         NEW h, IsLongest(h, InnerEnds(G, n, p)), NEW b, IsLongest(b, InnerEnds(G, n, Append(h, l)))
  PROVE  IsLongest(b, InnerEnds(G, n, Append(p, l)))
<1>1. h \in G /\ h \in Seq(1 .. n) /\ Ends(h, p) /\ \A t \in InnerEnds(G, n, p) : Len(t) <= Len(h)
  BY DEF IsLongest, InnerEnds, Grams
<1>2. /\ b \in G /\ b \in Seq(1 .. n) /\ ~ Leaf(G, n, b) /\ Ends(b, Append(h, l))
      /\ \A t \in InnerEnds(G, n, Append(h, l)) : Len(t) <= Len(b)
  BY DEF IsLongest, InnerEnds, Grams
<1>3. Append(h, l) \in Seq(1 .. n) /\ Append(p, l) \in Seq(1 .. n) /\ Ends(Append(h, l), Append(p, l))
  BY <1>1, EndsAppend, AppendFacts
<1>4. b \in InnerEnds(G, n, Append(p, l))
  BY <1>2, <1>3, EndsChain DEF InnerEnds
<1>5. ASSUME NEW r \in InnerEnds(G, n, Append(p, l)) PROVE Len(r) <= Len(b)
  <2>1. r \in G /\ r \in Seq(1 .. n) /\ ~ Leaf(G, n, r) /\ Ends(r, Append(p, l)) /\ Len(b) \in Nat
    BY <1>2 DEF InnerEnds, Grams
  <2>2. CASE r = <<>>
    BY <2>1, <2>2
  <2>3. CASE r # <<>>
    <3> DEFINE f == Front(r)
    <3>1. Last(r) = l /\ Ends(f, p) /\ f \in Seq(1 .. n)
      BY <2>1, <2>3, EndsAppend
    <3>2. f \in G /\ Append(f, l) = r
      <4>1. Front(r) \in G
        BY <2>1, <2>3 DEF Grams, Root
      <4>2. Append(Front(r), Last(r)) = r
        BY <2>1, <2>3, FrontFacts
      <4> QED BY <3>1, <4>1, <4>2
    <3>3. ~ Leaf(G, n, f)
      BY <2>1, <3>2 DEF Leaf
    <3> HIDE DEF f
    <3>4. Len(f) <= Len(h)
      BY <1>1, <3>1, <3>2, <3>3 DEF InnerEnds
    <3>5. Ends(f, h)
      BY <1>1, <3>1, <3>4, EndsChain
    <3>6. Ends(r, Append(h, l))
      <4>1. Ends(Append(f, l), Append(h, l))
        BY <1>1, <3>1, <3>5, EndsAppend
      <4> QED BY <3>2, <4>1
    <3> QED BY <1>2, <2>1, <3>6 DEF InnerEnds
  <2> QED BY <2>2, <2>3
<1> QED BY <1>4, <1>5 DEF IsLongest

\* What Find finds.
LEMMA FindInCore ==
  ASSUME NEW n \in Nat, NEW G, NEW s \in 1 .. n, NEW e \in 1 .. n, s # e, Grams(G, n, e),
         NEW m, Scores(m, G, n, s, e), NEW l \in 1 .. n, l # s, <<l>> \in G, NEW byPhi, l \in byPhi,
         NEW p \in Core(G, n, e)
  PROVE  /\ l # e => \E q \in Core(G, n, e) : Find(m, p, l, byPhi) = {q}
         /\ l = e => Find(m, p, l, byPhi) = {FinalState}
<1> DEFINE C == Core(G, n, e)
           Good(x) == /\ l # e => \E q \in C : Find(m, x, l, byPhi) = {q}
                      /\ l = e => Find(m, x, l, byPhi) = {FinalState}
           Bad == {k \in Nat : \E x \in C : ~ Good(x) /\ Len(x) = k}
<1>1. Whole(m) /\ C \subseteq DOMAIN m /\ \A x \in C : ScoresAt(m, G, n, s, e, x)
  BY DEF Scores
<1>2. l # Phi /\ l \in Kids(G, n, Root)
  BY DEF Phi, Kids, Root
<1>3. ASSUME Bad # {} PROVE FALSE
  <2>1. Bad \in SUBSET Nat
    OBVIOUS
  <2>2. PICK k \in Bad : \A j \in Bad : k <= j
    <3> HIDE DEF Bad
    <3> QED BY <1>3, <2>1, LeastNatural
  <2>3. PICK x \in C : ~ Good(x) /\ Len(x) = k
    BY <2>2
  <2>4. ScoresAt(m, G, n, s, e, x) /\ x \in DOMAIN m
    BY <1>1, <2>3
  <2>5. CASE l \in DOMAIN m[x]
    <3>1. Find(m, x, l, byPhi) = {m[x][l]}
      BY <1>1, <2>4, <2>5, FindStep
    <3>2. l \in Kids(G, n, x)
      BY <1>2, <2>4, <2>5 DEF ScoresAt
    <3>3. CASE l = e
      <4>1. m[x][l] = FinalState
        BY <2>4, <3>2, <3>3 DEF ScoresAt
      <4> QED BY <2>3, <3>1, <3>3, <4>1
    <3>4. CASE l # e
      <4>1. IsLongest(m[x][l], InnerEnds(G, n, Append(x, l)))
        BY <2>4, <3>2, <3>4 DEF ScoresAt
      <4>2. x \in Seq(1 .. n) /\ Len(x) \in Nat /\ \A i \in 1 .. Len(x) : x[i] # e
        BY CoreIs
      <4>3. /\ Append(x, l) \in Seq(1 .. n) /\ Len(Append(x, l)) = Len(x) + 1
            /\ \A i \in 1 .. Len(x) : Append(x, l)[i] = x[i]
            /\ Append(x, l)[Len(x) + 1] = l
        BY <4>2, AppendFacts
      <4>4. \A i \in 1 .. Len(Append(x, l)) : Append(x, l)[i] # e
        BY <3>4, <4>2, <4>3
      <4>5. m[x][l] \in C
        BY <4>1, <4>3, <4>4, CoreEnds DEF IsLongest
      <4> QED BY <2>3, <3>1, <3>4, <4>5
    <3> QED BY <3>3, <3>4
  <2>6. CASE l \notin DOMAIN m[x]
    <3>1. x # Root
      BY <1>2, <2>4, <2>6 DEF ScoresAt
    <3>2. Phi \in DOMAIN m[x] /\ BacksTo(G, n, x, m[x][Phi])
      BY <2>4, <3>1 DEF ScoresAt
    <3> DEFINE b == m[x][Phi]
    <3>3. b \in C /\ Len(b) \in Nat /\ Len(b) < Len(x)
      BY <2>3, <3>1, <3>2, BackoffIsShorter
    <3>4. Find(m, x, l, byPhi) = Find(m, b, l, byPhi)
      BY <1>1, <2>4, <2>6, <3>2, FindStep
    <3> HIDE DEF b
    <3>5. Len(b) \notin Bad
      <4>1. ~ (k <= Len(b))
        BY <2>1, <2>2, <2>3, <3>3
      <4> QED BY <2>2, <4>1
    <3>6. Good(b)
      BY <3>3, <3>5
    <3> QED BY <2>3, <3>4, <3>6
  <2> QED BY <2>5, <2>6
<1>4. Len(p) \in Nat
  BY CoreIs
<1>5. Good(p)
  BY <1>3, <1>4
<1> QED BY <1>5

-----------------------------------------------------------------------------
(* Paths through the machine of a model, over phi.                         *)

\* A sequence of states, each from what P allows there, in the relation R.
Chains(N, P, R, a, g) ==
  /\ g[0] = a /\ \A i \in 0 .. N : g[i] \in P[i]
  /\ \A i \in 1 .. N : <<i, g[i - 1], g[i]>> \in R

\* If each step can be made then all can.
LEMMA ChainExists ==
  ASSUME NEW N \in Nat, NEW P, NEW R, NEW a \in P[0],
         \A i \in 1 .. N : \A x \in P[i - 1] : \E y \in P[i] : <<i, x, y>> \in R
  PROVE  \E g : DOMAIN g = 0 .. N /\ Chains(N, P, R, a, g)
<1> DEFINE G == {k \in 0 .. N : \E g : DOMAIN g = 0 .. k /\ Chains(k, P, R, a, g)}
<1>1. 0 \in G
  <2> DEFINE g == [i \in 0 .. 0 |-> a]
  <2>1. DOMAIN g = 0 .. 0 /\ \A i \in 0 .. 0 : g[i] = a /\ i = 0
    OBVIOUS
  <2> HIDE DEF g
  <2>2. Chains(0, P, R, a, g)
    BY <2>1 DEF Chains
  <2> QED BY <2>1, <2>2
<1>2. ASSUME NEW k \in 0 .. N - 1, k \in G PROVE k + 1 \in G
  <2>1. PICK g : DOMAIN g = 0 .. k /\ Chains(k, P, R, a, g)
    BY <1>2
  <2>2. g[k] \in P[(k + 1) - 1] /\ k + 1 \in 1 .. N
    BY <2>1 DEF Chains
  <2>3. PICK y \in P[k + 1] : <<k + 1, g[k], y>> \in R
    <3>1. (k + 1) - 1 = k
      OBVIOUS
    <3> QED BY <2>2, <3>1
  <2> DEFINE h == [i \in 0 .. k + 1 |-> IF i = k + 1 THEN y ELSE g[i]]
  <2>4. DOMAIN h = 0 .. k + 1 /\ h[k + 1] = y /\ \A i \in 0 .. k : h[i] = g[i]
    OBVIOUS
  <2> HIDE DEF h
  <2>5. Chains(k + 1, P, R, a, h)
    <3>1. h[0] = a
      BY <2>1, <2>4 DEF Chains
    <3>2. ASSUME NEW i \in 0 .. k + 1 PROVE h[i] \in P[i]
      <4>1. CASE i = k + 1
        BY <2>4, <4>1
      <4>2. CASE i # k + 1
        <5>1. i \in 0 .. k
          BY <4>2
        <5> QED BY <2>1, <2>4, <5>1 DEF Chains
      <4> QED BY <4>1, <4>2
    <3>3. ASSUME NEW i \in 1 .. k + 1 PROVE <<i, h[i - 1], h[i]>> \in R
      <4>1. CASE i = k + 1
        <5>1. i - 1 = k
          BY <4>1
        <5> QED BY <2>3, <2>4, <4>1, <5>1
      <4>2. CASE i # k + 1
        <5>1. i \in 1 .. k /\ i - 1 \in 0 .. k /\ i \in 0 .. k
          BY <4>2
        <5> QED BY <2>1, <2>4, <5>1 DEF Chains
      <4> QED BY <4>1, <4>2
    <3> QED BY <3>1, <3>2, <3>3 DEF Chains
  <2> QED BY <2>2, <2>4, <2>5
<1> HIDE DEF G
<1>3. N \in G
  BY <1>1, <1>2, UpTo
<1> QED BY <1>3 DEF G

\* A string that is read with Find, from the start to the end.
Found(m, x, byPhi, g) ==
  /\ DOMAIN g = 0 .. Len(x) /\ \A i \in 0 .. Len(x) : g[i] \in DOMAIN m
  /\ g[0] = NewStart /\ g[Len(x)] = FinalState
  /\ \A i \in 1 .. Len(x) : Find(m, g[i - 1], x[i], byPhi) = {g[i]}

\* S|S at the beginning, E|E at the end, and nowhere else.
Hooks(x, s, e) ==
  /\ Len(x) >= 2 /\ x[1] = s /\ x[Len(x)] = e
  /\ \A i \in 2 .. Len(x) - 1 : x[i] # s /\ x[i] # e

\* The start has an arc with S|S into the core.
LEMMA CoreStart ==
  ASSUME NEW n \in Nat, NEW G, NEW s \in 1 .. n, NEW e \in 1 .. n, s # e, Grams(G, n, e),
         NEW m, Scores(m, G, n, s, e)
  PROVE  /\ Whole(m) /\ NewStart \in DOMAIN m /\ s \in DOMAIN m[NewStart] /\ m[NewStart][s] \in Core(G, n, e)
         /\ IsLongest(m[NewStart][s], InnerEnds(G, n, <<s>>))
<1>1. Whole(m) /\ NewStart \in DOMAIN m /\ s \in DOMAIN m[NewStart] /\ IsLongest(m[NewStart][s], InnerEnds(G, n, <<s>>))
  BY DEF Scores
<1>2. <<s>> \in Seq(1 .. n) /\ \A i \in 1 .. Len(<<s>>) : <<s>>[i] # e
  OBVIOUS
<1>3. m[NewStart][s] \in Core(G, n, e)
  BY <1>1, <1>2, CoreEnds DEF IsLongest
<1> QED BY <1>1, <1>3

\* A string of labels that may all be looked for after phi.
LEMMA FoundByPhi ==
  ASSUME NEW n \in Nat, NEW G, NEW s \in 1 .. n, NEW e \in 1 .. n, s # e, Grams(G, n, e),
         NEW m, Scores(m, G, n, s, e), NEW byPhi, NEW x \in Seq(1 .. n), Hooks(x, s, e),
         \A i \in 2 .. Len(x) : x[i] \in byPhi /\ <<x[i]>> \in G
  PROVE  \E g : Found(m, x, byPhi, g)
<1>0. Find(m, NewStart, s, byPhi) = {m[NewStart][s]} /\ m[NewStart][s] \in Core(G, n, e)
  <2>1. Whole(m) /\ NewStart \in DOMAIN m /\ s \in DOMAIN m[NewStart] /\ m[NewStart][s] \in Core(G, n, e)
    BY CoreStart
  <2> QED BY <2>1, FindStep
<1> DEFINE N == Len(x)
           C == Core(G, n, e)
           P == [i \in 0 .. N |-> IF i = 0 THEN {NewStart} ELSE IF i = N THEN {FinalState} ELSE C]
           D == DOMAIN m
           R == {r \in (1 .. N) \X D \X D : Find(m, r[2], x[r[1]], byPhi) = {r[3]}}
<1>1. N \in Nat /\ N >= 2 /\ x[1] = s /\ x[N] = e /\ \A i \in 1 .. N : x[i] \in 1 .. n
  BY DEF Hooks
<1>2. NewStart \in D /\ FinalState \in D /\ C \subseteq D
  BY DEF Scores
<1>3. /\ P[0] = {NewStart} /\ P[N] = {FinalState}
      /\ \A i \in 1 .. N - 1 : P[i] = C
      /\ \A i \in 0 .. N : P[i] \subseteq D
  BY <1>1, <1>2
<1> HIDE DEF P
<1>4. ASSUME NEW i \in 1 .. N, NEW p \in P[i - 1] PROVE \E q \in P[i] : <<i, p, q>> \in R
  <2>1. i - 1 \in 0 .. N /\ p \in D
    BY <1>1, <1>3
  <2>2. CASE i = 1
    <3>1. p = NewStart /\ x[i] = s /\ P[i] = C
      <4>1. i - 1 = 0 /\ i \in 1 .. N - 1
        BY <1>1, <2>2
      <4>2. p \in P[0]
        BY <4>1
      <4> QED BY <1>1, <1>3, <2>2, <4>1, <4>2
    <3> DEFINE q == m[NewStart][s]
    <3>3. Find(m, p, x[i], byPhi) = {q} /\ q \in C
      BY <1>0, <3>1
    <3> HIDE DEF q
    <3> QED BY <1>2, <2>1, <3>1, <3>3
  <2>3. CASE i # 1
    <3>1. p \in C /\ x[i] \in byPhi /\ <<x[i]>> \in G /\ x[i] \in 1 .. n /\ x[i] # s
      <4>1. i - 1 \in 1 .. N - 1 /\ i \in 2 .. N
        BY <1>1, <2>3
      <4>2. i # N => i \in 2 .. N - 1
        BY <4>1
      <4> QED BY <1>1, <1>3, <4>1, <4>2 DEF Hooks
    <3>2. /\ x[i] # e => \E q \in C : Find(m, p, x[i], byPhi) = {q}
          /\ x[i] = e => Find(m, p, x[i], byPhi) = {FinalState}
      <4> DEFINE l == x[i]
      <4>1. l \in 1 .. n /\ l # s /\ <<l>> \in G /\ l \in byPhi /\ p \in Core(G, n, e)
        BY <3>1
      <4> HIDE DEF l, D, R
      <4>2. /\ l # e => \E q \in Core(G, n, e) : Find(m, p, l, byPhi) = {q}
            /\ l = e => Find(m, p, l, byPhi) = {FinalState}
        BY <4>1, FindInCore, SMTT(30)
      <4> QED BY <4>2 DEF l
    <3>3. CASE i = N
      BY <1>1, <1>2, <1>3, <2>1, <3>2, <3>3
    <3>4. CASE i # N
      <4>1. x[i] # e /\ P[i] = C
        <5>1. i \in 2 .. N - 1
          BY <1>1, <2>3, <3>4
        <5>2. x[i] # e
          BY <5>1 DEF Hooks
        <5>3. i \in 1 .. N - 1
          BY <1>1, <5>1
        <5> QED BY <1>3, <5>2, <5>3
      <4>2. PICK q \in C : Find(m, p, x[i], byPhi) = {q}
        BY <3>2, <4>1
      <4> QED BY <1>2, <2>1, <4>1, <4>2
    <3> QED BY <3>3, <3>4
  <2> QED BY <2>2, <2>3
<1>5. PICK g : DOMAIN g = 0 .. N /\ Chains(N, P, R, NewStart, g)
  <2> HIDE DEF R
  <2> QED BY <1>1, <1>3, <1>4, ChainExists
<1>6. Found(m, x, byPhi, g)
  <2>1. \A i \in 0 .. N : g[i] \in D
    BY <1>3, <1>5 DEF Chains
  <2>2. g[0] = NewStart /\ g[N] = FinalState
    BY <1>1, <1>3, <1>5 DEF Chains
  <2>3. \A i \in 1 .. N : Find(m, g[i - 1], x[i], byPhi) = {g[i]}
    <3>1. \A i \in 1 .. N : <<i, g[i - 1], g[i]>> \in R
      BY <1>5 DEF Chains
    <3> QED BY <3>1
  <2> QED BY <1>5, <2>1, <2>2, <2>3 DEF Found
<1> QED BY <1>6

-----------------------------------------------------------------------------
(* Paths for strings whose n-grams are in the trie.                        *)

\* All n-grams of x up to some length are in G.
Knows(G, n, order, x) ==
  \A g \in Seq(1 .. n), i \in Nat : StandsAt(g, x, i) /\ Len(g) \in 1 .. order => g \in G

\* The beginnings of a string.
LEMMA Beginnings ==
  ASSUME NEW n \in Nat, NEW x \in Seq(1 .. n), NEW i \in 1 .. Len(x)
  PROVE  /\ SubSeq(x, 1, i) \in Seq(1 .. n) /\ Len(SubSeq(x, 1, i)) = i
         /\ \A k \in 1 .. i : SubSeq(x, 1, i)[k] = x[k]
         /\ i < Len(x) => Append(SubSeq(x, 1, i), x[i + 1]) = SubSeq(x, 1, i + 1)
<1>0. Len(x) \in Nat /\ i \in Nat /\ 1 \in 1 .. Len(x)
  OBVIOUS
<1>1. /\ SubSeq(x, 1, i) \in Seq(1 .. n) /\ Len(SubSeq(x, 1, i)) = i
      /\ \A k \in 1 .. i : SubSeq(x, 1, i)[k] = x[k]
  <2>1. /\ SubSeq(x, 1, i) \in Seq(1 .. n) /\ Len(SubSeq(x, 1, i)) = i - 1 + 1
        /\ \A k \in 1 .. i - 1 + 1 : SubSeq(x, 1, i)[k] = x[1 + k - 1]
    BY <1>0, SubSeqFacts
  <2> QED BY <1>0, <2>1
<1>2. ASSUME i < Len(x) PROVE Append(SubSeq(x, 1, i), x[i + 1]) = SubSeq(x, 1, i + 1)
  <2>0. i + 1 \in 1 .. Len(x) /\ x[i + 1] \in 1 .. n
    BY <1>0, <1>2
  <2>1. /\ SubSeq(x, 1, i + 1) \in Seq(1 .. n) /\ Len(SubSeq(x, 1, i + 1)) = i + 1
        /\ \A k \in 1 .. i + 1 : SubSeq(x, 1, i + 1)[k] = x[k]
    <3>1. /\ SubSeq(x, 1, i + 1) \in Seq(1 .. n) /\ Len(SubSeq(x, 1, i + 1)) = i + 1 - 1 + 1
          /\ \A k \in 1 .. i + 1 - 1 + 1 : SubSeq(x, 1, i + 1)[k] = x[1 + k - 1]
      BY <1>0, <2>0, SubSeqFacts
    <3> QED BY <1>0, <3>1
  <2> DEFINE p == SubSeq(x, 1, i)
             q == SubSeq(x, 1, i + 1)
             l == x[i + 1]
  <2>2. /\ Append(p, l) \in Seq(1 .. n) /\ Len(Append(p, l)) = Len(p) + 1
        /\ \A k \in 1 .. Len(p) : Append(p, l)[k] = p[k]
        /\ Append(p, l)[Len(p) + 1] = l
    BY <1>1, <2>0, AppendFacts
  <2>3. Append(p, l) \in Seq(1 .. n) /\ q \in Seq(1 .. n) /\ Len(Append(p, l)) = Len(q)
    BY <1>1, <2>1, <2>2
  <2>4. \A k \in 1 .. Len(Append(p, l)) : Append(p, l)[k] = q[k]
    <3> SUFFICES ASSUME NEW k \in 1 .. i + 1 PROVE Append(p, l)[k] = q[k]
      BY <1>1, <2>2
    <3>1. CASE k = i + 1
      BY <1>1, <2>1, <2>2, <3>1
    <3>2. CASE k # i + 1
      <4>1. k \in 1 .. i
        BY <1>0, <3>2
      <4> QED BY <1>1, <2>1, <2>2, <4>1
    <3> QED BY <3>1, <3>2
  <2> HIDE DEF p, q, l
  <2>5. Append(p, l) = q
    BY <2>3, <2>4, SameSequence
  <2> QED BY <2>5 DEF p, q, l
<1> QED BY <1>1, <1>2

\* In a string whose n-grams are all known, the next label can be read at the
\* longest history.
LEMMA NextIsKnown ==
  ASSUME NEW n \in Nat, NEW G, NEW e, Grams(G, n, e), NEW order \in Nat,
         \A g \in G : Len(g) <= order, NEW x \in Seq(1 .. n), Knows(G, n, order, x),
         NEW i \in 1 .. Len(x), i < Len(x),
         NEW h, IsLongest(h, InnerEnds(G, n, SubSeq(x, 1, i)))
  PROVE  x[i + 1] \in Kids(G, n, h)
<1> DEFINE p == SubSeq(x, 1, i)
           l == x[i + 1]
<1>0. Len(x) \in Nat /\ i \in Nat /\ i + 1 \in 1 .. Len(x) /\ l \in 1 .. n
  OBVIOUS
<1>1. p \in Seq(1 .. n) /\ Len(p) = i /\ \A k \in 1 .. i : p[k] = x[k]
  BY Beginnings
<1>2. h \in G /\ ~ Leaf(G, n, h) /\ Ends(h, p) /\ h \in Seq(1 .. n)
  BY DEF IsLongest, InnerEnds, Grams
<1>3. PICK c \in 1 .. n : Append(h, c) \in G
  BY <1>2 DEF Leaf
<1>4. Len(h) \in Nat /\ Len(h) <= i /\ \A k \in 1 .. Len(h) : h[k] = p[i - Len(h) + k]
  BY <1>1, <1>2 DEF Ends
<1>5. Len(h) + 1 <= order
  <2>1. Len(Append(h, c)) = Len(h) + 1 /\ Len(Append(h, c)) <= order
    BY <1>2, <1>3, AppendFacts
  <2> QED BY <2>1
<1> DEFINE g == Append(h, l)
           j == i + 1 - Len(h)
<1>6. /\ g \in Seq(1 .. n) /\ Len(g) = Len(h) + 1
      /\ \A k \in 1 .. Len(h) : g[k] = h[k]
      /\ g[Len(h) + 1] = l
  BY <1>0, <1>2, AppendFacts
<1>7. StandsAt(g, x, j) /\ j \in Nat
  <2>1. j \in Nat \ {0} /\ j + Len(g) - 1 <= Len(x)
    BY <1>0, <1>4, <1>6
  <2>2. ASSUME NEW k \in 1 .. Len(g) PROVE g[k] = x[j + k - 1]
    <3>1. CASE k = Len(h) + 1
      BY <1>0, <1>4, <1>6, <3>1
    <3>2. CASE k # Len(h) + 1
      <4>0. k \in 1 .. Len(h) + 1 /\ k # Len(h) + 1 /\ Len(h) \in Nat /\ i \in Nat /\ Len(h) <= i
        BY <1>0, <1>4, <1>6, <3>2
      <4>1. k \in 1 .. Len(h) /\ i - Len(h) + k \in 1 .. i /\ j + k - 1 = i - Len(h) + k
        BY ONLY <4>0 DEF j
      <4> QED BY <1>1, <1>4, <1>6, <4>1
    <3> QED BY <3>1, <3>2
  <2> QED BY <2>1, <2>2 DEF StandsAt
<1>8. Len(g) \in 1 .. order
  BY <1>4, <1>5, <1>6
<1> HIDE DEF j, g
<1>9. g \in G
  <2>1. \A f \in Seq(1 .. n) : StandsAt(f, x, j) /\ Len(f) \in 1 .. order => f \in G
    BY <1>7 DEF Knows
  <2> QED BY <1>6, <1>7, <1>8, <2>1
<1> QED BY <1>0, <1>9 DEF Kids, g

\* Such a string is read along direct arcs.
LEMMA FoundBySeen ==
  ASSUME NEW n \in Nat, NEW G, NEW s \in 1 .. n, NEW e \in 1 .. n, s # e, Grams(G, n, e),
         NEW m, Scores(m, G, n, s, e), NEW byPhi, NEW order \in Nat, \A g \in G : Len(g) <= order,
         NEW x \in Seq(1 .. n), Hooks(x, s, e), Knows(G, n, order, x)
  PROVE  \E g : Found(m, x, byPhi, g)
<1>0. /\ Find(m, NewStart, s, byPhi) = {m[NewStart][s]} /\ m[NewStart][s] \in Core(G, n, e)
      /\ IsLongest(m[NewStart][s], InnerEnds(G, n, <<s>>)) /\ Whole(m)
  <2>1. /\ Whole(m) /\ NewStart \in DOMAIN m /\ s \in DOMAIN m[NewStart] /\ m[NewStart][s] \in Core(G, n, e)
        /\ IsLongest(m[NewStart][s], InnerEnds(G, n, <<s>>))
    BY CoreStart
  <2> QED BY <2>1, FindStep
<1> DEFINE N == Len(x)
           C(i) == {q \in Core(G, n, e) : IsLongest(q, InnerEnds(G, n, SubSeq(x, 1, i)))}
           P == [i \in 0 .. N |-> IF i = 0 THEN {NewStart} ELSE IF i = N THEN {FinalState} ELSE C(i)]
           D == DOMAIN m
           R == {r \in (1 .. N) \X D \X D : Find(m, r[2], x[r[1]], byPhi) = {r[3]}}
<1>1. N \in Nat /\ N >= 2 /\ x[1] = s /\ x[N] = e /\ \A i \in 1 .. N : x[i] \in 1 .. n
  BY DEF Hooks
<1>2. NewStart \in D /\ FinalState \in D /\ Core(G, n, e) \subseteq D
  BY DEF Scores
<1>3. /\ P[0] = {NewStart} /\ P[N] = {FinalState}
      /\ \A i \in 1 .. N - 1 : P[i] = C(i)
      /\ \A i \in 0 .. N : P[i] \subseteq D
  <2>1. \A i : C(i) \subseteq D
    BY <1>2
  <2> HIDE DEF C
  <2> QED BY <1>1, <1>2, <2>1
<1> HIDE DEF P
<1>4. ASSUME NEW i \in 1 .. N, NEW p \in P[i - 1] PROVE \E q \in P[i] : <<i, p, q>> \in R
  <2>1. i - 1 \in 0 .. N /\ p \in D
    BY <1>1, <1>3
  <2>2. CASE i = 1
    <3>1. p = NewStart /\ x[i] = s /\ P[i] = C(1)
      BY <1>1, <1>3, <2>2
    <3> DEFINE q == m[NewStart][s]
    <3>2. SubSeq(x, 1, 1) = <<s>>
      <4>1. SubSeq(x, 1, 1) \in Seq(1 .. n) /\ Len(SubSeq(x, 1, 1)) = 1 /\ SubSeq(x, 1, 1)[1] = x[1]
        BY <1>1, Beginnings
      <4>2. <<s>> \in Seq(1 .. n) /\ Len(<<s>>) = 1 /\ <<s>>[1] = s
        OBVIOUS
      <4>3. \A j \in 1 .. Len(SubSeq(x, 1, 1)) : SubSeq(x, 1, 1)[j] = <<s>>[j]
        BY <1>1, <4>1, <4>2
      <4> QED BY <4>1, <4>2, <4>3, SameSequence
    <3>3. Find(m, p, x[i], byPhi) = {q} /\ q \in C(1)
      BY <1>0, <3>1, <3>2
    <3> HIDE DEF q
    <3> QED BY <1>2, <2>1, <3>1, <3>3
  <2>3. CASE i # 1
    <3> DEFINE k == i - 1
    <3>0. k \in 1 .. N /\ k < N /\ k + 1 = i /\ k \in 1 .. N - 1 /\ i \in 2 .. N /\ (i # N => i \in 2 .. N - 1)
      <4>1. N \in Nat
        BY <1>1
      <4> HIDE DEF N
      <4>2. i \in Nat /\ i >= 2 /\ i <= N
        BY <2>3, <4>1
      <4> QED BY <4>1, <4>2
    <3>1. p \in C(k)
      BY <1>3, <3>0
    <3> HIDE DEF k
    <3>2. p \in Core(G, n, e) /\ IsLongest(p, InnerEnds(G, n, SubSeq(x, 1, k)))
      BY <3>1
    <3>3. x[i] \in Kids(G, n, p) /\ x[i] # s
      <4>1. x[k + 1] \in Kids(G, n, p)
        BY <3>0, <3>2, NextIsKnown
      <4>2. x[i] # s
        BY <1>1, <3>0 DEF Hooks
      <4> QED BY <3>0, <4>1, <4>2
    <3>4. ScoresAt(m, G, n, s, e, p)
      BY <3>2 DEF Scores
    <3>5. CASE i = N
      <4>1. x[i] = e /\ e \in DOMAIN m[p] /\ m[p][e] = FinalState
        BY <1>1, <3>3, <3>4, <3>5 DEF ScoresAt
      <4>2. Find(m, p, x[i], byPhi) = {FinalState}
        BY <1>0, <2>1, <4>1, FindStep
      <4> QED BY <1>1, <1>2, <1>3, <2>1, <3>5, <4>2
    <3>6. CASE i # N
      <4>1. x[i] # e /\ x[i] \in 1 .. n
        BY <1>1, <3>0, <3>6 DEF Hooks
      <4> DEFINE q == m[p][x[i]]
      <4>2. x[i] \in DOMAIN m[p] /\ IsLongest(q, InnerEnds(G, n, Append(p, x[i])))
        BY <3>3, <3>4, <4>1 DEF ScoresAt
      <4>3. Find(m, p, x[i], byPhi) = {q}
        BY <1>0, <2>1, <4>2, FindStep
      <4> HIDE DEF q
      <4>4. /\ SubSeq(x, 1, k) \in Seq(1 .. n) /\ Append(SubSeq(x, 1, k), x[i]) = SubSeq(x, 1, i)
            /\ SubSeq(x, 1, i) \in Seq(1 .. n) /\ Len(SubSeq(x, 1, i)) = i
            /\ \A j \in 1 .. i : SubSeq(x, 1, i)[j] = x[j]
        BY <3>0, Beginnings
      <4>5. IsLongest(q, InnerEnds(G, n, SubSeq(x, 1, i)))
        <5>1. IsLongest(q, InnerEnds(G, n, Append(SubSeq(x, 1, k), x[i])))
          BY <3>2, <4>1, <4>2, <4>4, LongestThen
        <5> QED BY <4>4, <5>1
      <4>6. \A j \in 1 .. Len(SubSeq(x, 1, i)) : SubSeq(x, 1, i)[j] # e
        <5> SUFFICES ASSUME NEW j \in 1 .. i PROVE x[j] # e
          BY <4>4
        <5>1. j = 1 \/ j \in 2 .. N - 1
          BY <1>1, <3>0, <3>6
        <5> QED BY <1>1, <5>1 DEF Hooks
      <4>7. q \in InnerEnds(G, n, SubSeq(x, 1, i))
        BY <4>5 DEF IsLongest
      <4>8. q \in Core(G, n, e)
        BY <4>4, <4>6, <4>7, CoreEnds
      <4>9. q \in P[i]
        <5>1. i \in 1 .. N - 1
          BY <1>1, <3>0, <3>6
        <5> QED BY <1>3, <4>5, <4>8, <5>1
      <4> QED BY <1>2, <2>1, <4>3, <4>8, <4>9
    <3> QED BY <3>5, <3>6
  <2> QED BY <2>2, <2>3
<1>5. PICK g : DOMAIN g = 0 .. N /\ Chains(N, P, R, NewStart, g)
  <2> HIDE DEF R
  <2> QED BY <1>1, <1>3, <1>4, ChainExists
<1>6. Found(m, x, byPhi, g)
  <2>1. \A i \in 0 .. N : g[i] \in D
    BY <1>3, <1>5 DEF Chains
  <2>2. g[0] = NewStart /\ g[N] = FinalState
    BY <1>1, <1>3, <1>5 DEF Chains
  <2>3. \A i \in 1 .. N : Find(m, g[i - 1], x[i], byPhi) = {g[i]}
    <3>1. \A i \in 1 .. N : <<i, g[i - 1], g[i]>> \in R
      BY <1>5 DEF Chains
    <3> QED BY <3>1
  <2> QED BY <1>5, <2>1, <2>2, <2>3 DEF Found
<1> QED BY <1>6

-----------------------------------------------------------------------------
(* Backing off ends; annotations are numbered.                             *)

\* Phi leads to a shorter history, so that looking for an arc ends.
Descends(m) ==
  \A p \in DOMAIN m : Len(p) \in Nat /\ (Phi \in DOMAIN m[p] => Len(m[p][Phi]) < Len(p))

\* What Find finds is a state of the machine.
LEMMA FindIn ==
  ASSUME NEW m, Whole(m), Descends(m), NEW l, NEW byPhi, NEW p \in DOMAIN m
  PROVE  Find(m, p, l, byPhi) \subseteq DOMAIN m
<1> DEFINE Good(q) == Find(m, q, l, byPhi) \subseteq DOMAIN m
           B == {k \in Nat : \E q \in DOMAIN m : Len(q) = k /\ ~ Good(q)}
<1>1. SUFFICES ASSUME ~ Good(p) PROVE FALSE
  OBVIOUS
<1>2. B \in SUBSET Nat /\ B # {}
  BY <1>1 DEF Descends
<1>3. PICK k \in B : \A j \in B : k <= j
  <2> HIDE DEF B
  <2> QED BY <1>2, LeastNatural
<1>4. PICK q \in DOMAIN m : Len(q) = k /\ ~ Good(q)
  BY <1>3
<1>5. l \notin DOMAIN m[q]
  <2> SUFFICES ASSUME l \in DOMAIN m[q] PROVE Good(q)
    BY <1>4
  <2>1. Find(m, q, l, byPhi) = {m[q][l]} /\ m[q][l] \in DOMAIN m
    BY FindStep DEF Whole
  <2> QED BY <2>1
<1>6. Phi \in DOMAIN m[q] /\ l \in byPhi
  <2> SUFFICES ASSUME ~ (Phi \in DOMAIN m[q] /\ l \in byPhi) PROVE Good(q)
    BY <1>4
  <2>1. Find(m, q, l, byPhi) = {}
    BY <1>5, FindStep
  <2> QED BY <2>1
<1>7. Find(m, q, l, byPhi) = Find(m, m[q][Phi], l, byPhi) /\ m[q][Phi] \in DOMAIN m
  BY <1>5, <1>6, FindStep DEF Whole
<1>8. Len(m[q][Phi]) \in Nat /\ Len(m[q][Phi]) < k
  BY <1>4, <1>6, <1>7 DEF Descends
<1>9. ~ Good(m[q][Phi])
  BY <1>4, <1>7
<1>10. Len(m[q][Phi]) \in B
  BY <1>7, <1>8, <1>9
<1> HIDE DEF B, Good
<1> QED BY <1>2, <1>3, <1>8, <1>10

\* In the trimmed machine phi leads to shorter strings.
LEMMA EndedDescends ==
  ASSUME NEW n \in Nat, NEW G, IsFiniteSet(G), NEW s \in 1 .. n, NEW e \in 1 .. n, s # e,
         Grams(G, n, e), <<s>> \in G,
         NEW nx, Backing(G, n, e, nx, {}), NoPhiAtRoot(nx), NEW d, Ended(G, s, e, nx, d)
  PROVE  Descends(Connected(d, NewStart, {FinalState}))
<1>0. IsFiniteSet(DOMAIN d) /\ Whole(d) /\ NewStart \in DOMAIN d /\ {FinalState} \in SUBSET DOMAIN d
  <2>1. IsFiniteSet(G \cup {NewStart})
    BY FS_AddElement
  <2>2. IsFiniteSet((G \cup {NewStart}) \cup {FinalState})
    BY <2>1, FS_AddElement
  <2>3. DOMAIN d = (G \cup {NewStart}) \cup {FinalState}
    BY DEF Ended
  <2>4. Whole(d)
    BY EndedWhole
  <2> QED BY <2>2, <2>3, <2>4
<1>1. Descends(d)
  <2> SUFFICES ASSUME NEW p \in DOMAIN d
               PROVE  Len(p) \in Nat /\ (Phi \in DOMAIN d[p] => Len(d[p][Phi]) < Len(p))
    BY DEF Descends
  <2>0. Phi \notin 1 .. n /\ s # Phi /\ e # Phi
    BY DEF Phi
  <2>1. CASE p = NewStart
    <3>1. Len(NewStart) = 1
      BY DEF NewStart
    <3> QED BY <2>0, <2>1, <3>1 DEF Ended
  <2>2. CASE p = FinalState
    <3>1. Len(FinalState) = 1
      BY DEF FinalState
    <3> QED BY <2>2, <3>1 DEF Ended
  <2>3. CASE p \in G
    <3>1. p \in Seq(1 .. n) /\ Len(p) \in Nat
      BY <2>3 DEF Grams
    <3>2. ASSUME Phi \in DOMAIN d[p] PROVE Len(d[p][Phi]) < Len(p)
      <4>1. Phi \in DOMAIN nx[p] /\ d[p][Phi] = nx[p][Phi]
        BY <2>0, <2>3, <3>2 DEF Ended
      <4>2. p # Root
        BY <4>1 DEF NoPhiAtRoot
      <4>3. p \in Inner(G, n)
        BY <2>3, <4>1, DoneArcs
      <4>4. BacksTo(G, n, p, nx[p][Phi])
        BY <2>3, <4>2, <4>3, DoneArcs
      <4> DEFINE b == nx[p][Phi]
      <4>5. b \in InnerEnds(G, n, p) /\ b # p
        BY <4>2, <4>4 DEF BacksTo, IsLongest
      <4> HIDE DEF b
      <4>6. Ends(b, p) /\ b \in Seq(1 .. n)
        BY <4>5 DEF InnerEnds, Grams
      <4>7. Len(b) < Len(p)
        BY <3>1, <4>5, <4>6, EndsTail
      <4> QED BY <4>1, <4>7 DEF b
    <3> QED BY <3>1, <3>2
  <2> QED BY <2>1, <2>2, <2>3 DEF Ended
<1>2. PICK F, B : Trims(d, NewStart, {FinalState}, F, B)
  BY <1>0, ConnectedIs
<1> DEFINE K == F \cap B
           m == Within(d, K)
<1>3. K \in SUBSET DOMAIN d /\ Connected(d, NewStart, {FinalState}) = m
  BY <1>2 DEF Trims
<1>4. DOMAIN m = K /\ \A q \in K : /\ DOMAIN m[q] = {l \in DOMAIN d[q] : d[q][l] \in K}
                                   /\ \A l \in DOMAIN m[q] : m[q][l] = d[q][l]
  BY DEF Within
<1> HIDE DEF m, K
<1>5. Descends(m)
  BY <1>1, <1>3, <1>4 DEF Descends
<1> QED BY <1>3, <1>5

-----------------------------------------------------------------------------
(* The states of the well-formed strings.                                  *)

\* The number of a region is at most twice their number.
Numbered(segs, s) == s \in AnySymbol /\ (segs > 0 => s.g <= 2 * segs)

\* The states of the well-formed strings are closed under symbols of the table.
LEMMA WfArcKept ==
  ASSUME opts.limit \in Int, opts.conjs \in Nat, opts.segs \in Nat,
         NEW q \in WfStates, NEW s, Numbered(opts.segs, s)
  PROVE  WfArc(WfLimit, opts.conjs, opts.segs, q, s) \in WfStates
<1> DEFINE top == IF opts.limit < 0 THEN 0 ELSE opts.limit
           L == 0 .. top
           C == ConjStates(opts.conjs)
           R == ChgSegStates(opts.segs)
           a == WfArc(WfLimit, opts.conjs, opts.segs, q, s)
<1>0. s.g \in Int /\ s.c \in Int /\ (opts.segs > 0 => s.g <= 2 * opts.segs)
  BY DEF Numbered, AnySymbol
<1>1. q.pos \in 0 .. 2 /\ q.at \in SUBSET (L \X C \X R)
  BY DEF WfStates
<1>2. \A j \in L : LimitArcs(WfLimit, j, s) \subseteq L
  BY DEF LimitArcs, WfLimit
<1>3. \A c \in C : ConjArcs(opts.conjs, c, s) \subseteq C
  BY DEF ConjArcs, ConjStates
<1>4. \A r \in R : ChgSegArcs(opts.segs, r, s) \subseteq R
  <2> SUFFICES ASSUME NEW r \in R, NEW t \in ChgSegArcs(opts.segs, r, s) PROVE t \in R
    OBVIOUS
  <2>1. CASE opts.segs = 0
    BY <2>1 DEF ChgSegArcs, ChgSegStates
  <2>2. CASE opts.segs # 0
    <3>1. t = s.g + 1 /\ (r = s.g + 1 \/ r <= s.g) /\ r \in 1 .. 2 * opts.segs + 1
      BY <2>2 DEF ChgSegArcs, ChgSegStates
    <3>2. t \in 1 .. 2 * opts.segs + 1
      <4>1. opts.segs \in Nat /\ s.g \in Int /\ s.g <= 2 * opts.segs
        BY <1>0, <2>2
      <4> QED BY <3>1, <4>1
    <3> QED BY <2>2, <3>2 DEF ChgSegStates
  <2> QED BY <2>1, <2>2
<1>5. CASE q.pos = 0
  <2>1. a = [pos |-> 1, at |-> IF s = StartSym THEN {0} \X C \X R ELSE {}]
    BY <1>5 DEF WfArc
  <2>2. 0 \in L
    OBVIOUS
  <2> HIDE DEF L, C, R
  <2>3. {0} \X C \X R \in SUBSET (L \X C \X R)
    BY <2>2
  <2>4. a \in [pos : 0 .. 2, at : SUBSET (L \X C \X R)]
    <3> HIDE DEF a
    <3> QED BY <2>1, <2>3
  <2> QED BY <2>4 DEF WfStates, L, C, R
<1>6. CASE q.pos # 0
  <2> DEFINE U == UNION {LimitArcs(WfLimit, t[1], s) \X ConjArcs(opts.conjs, t[2], s)
                           \X ChgSegArcs(opts.segs, t[3], s) : t \in q.at}
  <2>1. a = [pos |-> IF s = EndSym /\ q.at # {} THEN 2 ELSE 1, at |-> U]
    BY <1>6 DEF WfArc
  <2> HIDE DEF L, C, R
  <2>2. U \in SUBSET (L \X C \X R)
    <3> SUFFICES ASSUME NEW t \in q.at
                 PROVE  LimitArcs(WfLimit, t[1], s) \X ConjArcs(opts.conjs, t[2], s)
                          \X ChgSegArcs(opts.segs, t[3], s) \subseteq L \X C \X R
      OBVIOUS
    <3>1. t[1] \in L /\ t[2] \in C /\ t[3] \in R
      BY <1>1
    <3>2. /\ LimitArcs(WfLimit, t[1], s) \subseteq L
          /\ ConjArcs(opts.conjs, t[2], s) \subseteq C
          /\ ChgSegArcs(opts.segs, t[3], s) \subseteq R
      BY <1>2, <1>3, <1>4, <3>1
    <3> QED BY <3>2
  <2>4. a \in [pos : 0 .. 2, at : SUBSET (L \X C \X R)]
    <3> HIDE DEF a, U
    <3> QED BY <2>1, <2>2
  <2> QED BY <2>4 DEF WfStates, L, C, R
<1> QED BY <1>5, <1>6

-----------------------------------------------------------------------------
(* The composition with the well-formed strings.                           *)

\* The parts of Composition.
Meant(k) == Tabulated([v \in LabelsOf(k) |->
                        {table[l] : l \in {l \in DOMAIN table : Tabulated(Labelling(k))[l] = v}}])
ByPhi(k) == IF IsMain(k) THEN essential ELSE LabelsOf(k)
WfAfter(k, W, v) ==
  {w \in {WfArc(WfLimit, opts.conjs, opts.segs, x, s) : x \in W, s \in Meant(k)[v]} : ~ WfDead(w)}
StepTo(k, q, v) == {<<p, WfAfter(k, q[2], v)>> : p \in Find(next, q[1], v, ByPhi(k))}
Possible(k, q) == {v \in LabelsOf(k) : \E r \in StepTo(k, q, v) : r[2] # {}}
ArcsAt(k, q) == Tabulated([v \in Possible(k, q) |-> CHOOSE r \in StepTo(k, q, v) : TRUE])
Beginning == <<StartOf(next), {WfStart}>>
Pairs == (DOMAIN next) \X (SUBSET WfStates)
Onto(k) == [q \in Pairs |-> UNION {StepTo(k, q, v) : v \in Possible(k, q)}]
PairStates(k) == Reached({Beginning}, Onto(k), Pairs)
Product(k) == Tabulated([q \in PairStates(k) |-> ArcsAt(k, q)])

\* Composition, by its parts.
LEMMA CompositionIs ==
  ASSUME NEW k
  PROVE  Composition(k) = IF next = <<>> THEN <<>>
                          ELSE IF IsMain(k) THEN Product(k)
                          ELSE Connected(Product(k), Beginning, {q \in PairStates(k) : q[1] = FinalState})
BY DEF Composition, Product, PairStates, Onto, Pairs, Beginning, ArcsAt, Possible, StepTo, WfAfter,
             ByPhi, Meant

\* What the composition relies on.
Composes(k) ==
  /\ opts.limit \in Int /\ opts.conjs \in Nat /\ opts.segs \in Nat
  /\ DOMAIN table = 1 .. Len(table) /\ \A l \in 1 .. Len(table) : Numbered(opts.segs, table[l])
  /\ DOMAIN Labelling(k) = 1 .. Len(table) /\ \A l \in 1 .. Len(table) : Labelling(k)[l] \in LabelsOf(k)
  /\ IsFiniteSet(DOMAIN next) /\ Whole(next) /\ Descends(next) /\ NewStart \in DOMAIN next

\* What the labels of a model mean.
LEMMA MeantIs ==
  ASSUME NEW k, Composes(k), NEW v \in LabelsOf(k)
  PROVE  /\ \A s \in Meant(k)[v] : Numbered(opts.segs, s)
         /\ \A l \in 1 .. Len(table) : Labelling(k)[l] = v => table[l] \in Meant(k)[v]
<1>1. Meant(k)[v] = {table[l] : l \in {l \in DOMAIN table : Labelling(k)[l] = v}}
  <2>1. Tabulated(Labelling(k)) = Labelling(k)
    BY TabulatedIs
  <2> DEFINE f == [u \in LabelsOf(k) |->
                     {table[l] : l \in {l \in DOMAIN table : Tabulated(Labelling(k))[l] = u}}]
  <2>2. Meant(k) = f
    <3>1. Tabulated(f) = f
      BY TabulatedIs
    <3> QED BY Zenon, <3>1 DEF Meant
  <2>3. f[v] = {table[l] : l \in {l \in DOMAIN table : Tabulated(Labelling(k))[l] = v}}
    OBVIOUS
  <2> HIDE DEF f
  <2> QED BY <2>1, <2>2, <2>3
<1> QED BY <1>1 DEF Composes

\* The sets of states stay within those of the well-formed strings.
LEMMA WfAfterIn ==
  ASSUME NEW k, Composes(k), NEW v \in LabelsOf(k), NEW W \in SUBSET WfStates
  PROVE  WfAfter(k, W, v) \in SUBSET WfStates
<1> SUFFICES ASSUME NEW x \in W, NEW s \in Meant(k)[v]
             PROVE  WfArc(WfLimit, opts.conjs, opts.segs, x, s) \in WfStates
  BY DEF WfAfter
<1>1. opts.limit \in Int /\ opts.conjs \in Nat /\ opts.segs \in Nat
  BY DEF Composes
<1>2. Numbered(opts.segs, s) /\ x \in WfStates
  BY MeantIs
<1> QED BY <1>1, <1>2, WfArcKept

\* A step of the composition leads to a pair.
LEMMA StepToIn ==
  ASSUME NEW k, Composes(k), NEW v \in LabelsOf(k), NEW q \in Pairs
  PROVE  StepTo(k, q, v) \subseteq Pairs
<1>1. q[1] \in DOMAIN next /\ q[2] \in SUBSET WfStates
  BY DEF Pairs
<1>2. Find(next, q[1], v, ByPhi(k)) \subseteq DOMAIN next
  BY <1>1, FindIn DEF Composes
<1>3. WfAfter(k, q[2], v) \in SUBSET WfStates
  BY <1>1, WfAfterIn
<1> QED BY <1>2, <1>3 DEF StepTo, Pairs

\* There are finitely many pairs.
LEMMA PairsFinite ==
  ASSUME NEW k, Composes(k)
  PROVE  IsFiniteSet(Pairs)
<1>1. IsFiniteSet(WfStates)
  BY WfStatesFinite DEF Composes
<1>2. IsFiniteSet(SUBSET WfStates)
  BY <1>1, FS_SUBSET
<1>3. IsFiniteSet(DOMAIN next)
  BY DEF Composes
<1> QED BY <1>2, <1>3, FS_Product DEF Pairs

\* The composition before it is trimmed.
LEMMA ProductIs ==
  ASSUME NEW k, Composes(k)
  PROVE  /\ DOMAIN Product(k) = PairStates(k) /\ PairStates(k) \in SUBSET Pairs
         /\ Beginning = <<NewStart, {WfStart}>> /\ Beginning \in PairStates(k)
         /\ IsFiniteSet(DOMAIN Product(k)) /\ Whole(Product(k))
         /\ \A q \in PairStates(k) :
              /\ DOMAIN Product(k)[q] = Possible(k, q)
              /\ \A v \in Possible(k, q) : Product(k)[q][v] \in StepTo(k, q, v)
<1>1. /\ {Beginning} \in SUBSET Pairs /\ Beginning = <<NewStart, {WfStart}>>
  <2>1. StartOf(next) = NewStart /\ NewStart \in DOMAIN next
    BY DEF StartOf, Composes
  <2>2. WfStart \in WfStates
    BY DEF WfStart, WfStates
  <2> QED BY <2>1, <2>2 DEF Beginning, Pairs
<1>2. \A q \in Pairs : Onto(k)[q] = UNION {StepTo(k, q, v) : v \in Possible(k, q)}
  BY DEF Onto
<1>3. \A q \in Pairs : Onto(k)[q] \subseteq Pairs
  <2> SUFFICES ASSUME NEW q \in Pairs, NEW v \in Possible(k, q) PROVE StepTo(k, q, v) \subseteq Pairs
    BY <1>2
  <2>1. v \in LabelsOf(k)
    BY DEF Possible
  <2> QED BY <2>1, StepToIn
<1>4. IsFiniteSet(Pairs)
  BY PairsFinite
<1>5. /\ {Beginning} \subseteq PairStates(k) /\ PairStates(k) \in SUBSET Pairs
      /\ Closed(Onto(k), PairStates(k))
  BY <1>1, <1>3, <1>4, ReachedIs DEF PairStates
<1> DEFINE f == [q \in PairStates(k) |-> ArcsAt(k, q)]
<1>6. Product(k) = f
  <2>1. Tabulated(f) = f
    BY TabulatedIs
  <2> QED BY Zenon, <2>1 DEF Product
<1>7. \A q \in PairStates(k) : Product(k)[q] = ArcsAt(k, q)
  BY <1>6
<1>8. DOMAIN Product(k) = PairStates(k)
  BY <1>6
<1> HIDE DEF f
<1>9. ASSUME NEW q \in PairStates(k)
      PROVE  /\ DOMAIN Product(k)[q] = Possible(k, q)
             /\ \A v \in Possible(k, q) : Product(k)[q][v] \in StepTo(k, q, v)
  <2> DEFINE h == [v \in Possible(k, q) |-> CHOOSE r \in StepTo(k, q, v) : TRUE]
  <2>1. ArcsAt(k, q) = h
    <3>1. Tabulated(h) = h
      BY TabulatedIs
    <3> QED BY Zenon, <3>1 DEF ArcsAt
  <2>2. DOMAIN h = Possible(k, q) /\ \A v \in Possible(k, q) : h[v] = CHOOSE r \in StepTo(k, q, v) : TRUE
    OBVIOUS
  <2> HIDE DEF h
  <2>3. \A v \in Possible(k, q) : h[v] \in StepTo(k, q, v)
    BY <2>2 DEF Possible
  <2> QED BY <1>7, <2>1, <2>2, <2>3
<1>10. Whole(Product(k))
  <2> SUFFICES ASSUME NEW q \in PairStates(k), NEW v \in Possible(k, q)
               PROVE  Product(k)[q][v] \in PairStates(k)
    BY <1>8, <1>9 DEF Whole
  <2>1. Onto(k)[q] \subseteq PairStates(k)
    BY <1>5 DEF Closed
  <2>2. Product(k)[q][v] \in Onto(k)[q]
    BY <1>2, <1>5, <1>9
  <2> QED BY <2>1, <2>2
<1>11. IsFiniteSet(DOMAIN Product(k))
  BY <1>4, <1>5, <1>8, FS_Subset
<1> QED BY <1>1, <1>5, <1>8, <1>9, <1>10, <1>11

-----------------------------------------------------------------------------
(* What the composition reads.                                             *)

\* A string that is accepted has not died on its way.
LEMMA NeverDead ==
  ASSUME NEW limit, NEW conjs, NEW segs, NEW x, Len(x) \in Nat, NEW w, WfSteps(limit, conjs, segs, x, w),
         w[Len(x)].pos = 2
  PROVE  \A i \in 0 .. Len(x) : ~ WfDead(w[i])
<1> SUFFICES ASSUME NEW i \in 0 .. Len(x), WfDead(w[i]) PROVE FALSE
  OBVIOUS
<1> DEFINE G == {j \in 0 .. Len(x) : j >= i => WfDead(w[j])}
<1>1. 0 \in G
  <2>1. 0 \in 0 .. Len(x) /\ (0 >= i => i = 0)
    OBVIOUS
  <2> QED BY <2>1
<1>2. ASSUME NEW j \in 0 .. Len(x) - 1, j \in G PROVE j + 1 \in G
  <2>0. j + 1 \in 1 .. Len(x) /\ j + 1 \in 0 .. Len(x) /\ j + 1 - 1 = j
    OBVIOUS
  <2> SUFFICES ASSUME j + 1 >= i PROVE WfDead(w[j + 1])
    BY <2>0
  <2>1. CASE j + 1 = i
    BY <2>1
  <2>2. CASE j + 1 # i
    <3>1. WfDead(w[j])
      BY <1>2, <2>2
    <3>2. w[j + 1] = WfArc(limit, conjs, segs, w[j], x[j + 1])
      BY <2>0 DEF WfSteps
    <3>3. w[j].pos = 1 /\ w[j].at = {}
      BY <3>1 DEF WfDead
    <3>4. WfArc(limit, conjs, segs, w[j], x[j + 1]) =
            [pos |-> 1, at |-> UNION {LimitArcs(limit, a[1], x[j + 1]) \X ConjArcs(conjs, a[2], x[j + 1])
                                        \X ChgSegArcs(segs, a[3], x[j + 1]) : a \in {}}]
      BY <3>3 DEF WfArc
    <3>5. w[j + 1].pos = 1 /\ w[j + 1].at = {}
      BY <3>2, <3>4
    <3> QED BY <3>5 DEF WfDead
  <2> QED BY <2>1, <2>2
<1>3. \A j \in 0 .. Len(x) : j \in G
  <2> HIDE DEF G
  <2> QED BY <1>1, <1>2, UpTo
<1>4. WfDead(w[Len(x)])
  BY <1>3
<1> QED BY <1>4 DEF WfDead

\* What the model reads and is well-formed is read by the composition.
LEMMA ProductReads ==
  ASSUME NEW k, Composes(k), Len(table) \in Nat, Len(SymsOf(k)) \in Nat, LabelsOf(k) = 1 .. Len(SymsOf(k)),
         table \in Seq(AnySymbol), NEW u \in Seq(1 .. Len(table)),
         WfAccepts(WfLimit, opts.conjs, opts.segs, Spell(u)),
         NEW g, Found(next, InLabels(Labelling(k), u), ByPhi(k), g)
  PROVE  Reads(Beginning, Product(k), InLabels(Labelling(k), u), {q \in PairStates(k) : q[1] = FinalState})
<1> DEFINE x == InLabels(Labelling(k), u)
           y == Spell(u)
           N == Len(u)
           finals == {q \in PairStates(k) : q[1] = FinalState}
<1>1. /\ x \in Seq(1 .. Len(SymsOf(k))) /\ Len(x) = N /\ N \in Nat
      /\ \A i \in 1 .. N : x[i] = Labelling(k)[u[i]] /\ u[i] \in 1 .. Len(table) /\ x[i] \in LabelsOf(k)
  <2>1. /\ x \in Seq(1 .. Len(SymsOf(k))) /\ Len(x) = N
        /\ \A i \in 1 .. N : x[i] = Labelling(k)[u[i]]
    <3> DEFINE label == Labelling(k)
               A == 1 .. Len(table)
               B == 1 .. Len(SymsOf(k))
    <3>1. u \in Seq(A) /\ DOMAIN label = A /\ \A l \in A : label[l] \in B
      BY DEF Composes
    <3> HIDE DEF label, A, B
    <3>2. /\ InLabels(label, u) \in Seq(B) /\ Len(InLabels(label, u)) = Len(u)
          /\ \A i \in 1 .. Len(u) : InLabels(label, u)[i] = label[u[i]]
      <4> DEFINE r == InLabels(label, u)
                 k1 == Len(u)
      <4>1. k1 \in Nat /\ DOMAIN u = 1 .. k1 /\ \A i \in 1 .. k1 : u[i] \in A
        BY ONLY <3>1
      <4>2. r = [i \in 1 .. k1 |-> label[u[i]]]
        BY ONLY <4>1 DEF InLabels
      <4>3. r \in [1 .. k1 -> B]
        BY ONLY <3>1, <4>1, <4>2
      <4> HIDE DEF k1
      <4>4. r \in Seq(B) /\ Len(r) = k1
        <5> HIDE DEF r
        <5> QED BY ONLY <4>1, <4>3
      <4> QED BY <4>2, <4>4 DEF k1
    <3> QED BY <3>2 DEF label, B
  <2>2. N \in Nat /\ \A i \in 1 .. N : u[i] \in 1 .. Len(table)
    OBVIOUS
  <2> QED BY <2>1, <2>2 DEF Composes
<1>2. y \in Seq(AnySymbol) /\ Len(y) = N /\ \A i \in 1 .. N : y[i] = table[u[i]]
  <2>1. DOMAIN u = 1 .. N /\ \A i \in 1 .. N : table[u[i]] \in AnySymbol
    OBVIOUS
  <2> QED BY <2>1 DEF Spell
<1>3. PICK w \in [0 .. N -> WfMachineStates] :
        /\ WfSteps(WfLimit, opts.conjs, opts.segs, y, w)
        /\ w[N].pos = 2
  <2>1. WfLimit \in Int /\ opts.conjs \in Nat /\ opts.segs \in Nat
    BY DEF Composes, WfLimit
  <2> HIDE DEF y
  <2>2. PICK w \in [0 .. Len(y) -> WfMachineStates] :
          WfSteps(WfLimit, opts.conjs, opts.segs, y, w) /\ WfState(WfLimit, opts.conjs, opts.segs, y) = w[Len(y)]
    BY <1>2, <2>1, WfStateSteps
  <2>3. WfAccepts(WfLimit, opts.conjs, opts.segs, y)
    BY DEF y
  <2> QED BY <1>2, <2>2, <2>3 DEF WfAccepts
<1> HIDE DEF y
<1>4. \A i \in 0 .. N : ~ WfDead(w[i])
  BY <1>1, <1>2, <1>3, NeverDead
<1>5. w[0] = WfStart /\ \A i \in 1 .. N : w[i] = WfArc(WfLimit, opts.conjs, opts.segs, w[i - 1], table[u[i]])
  BY <1>2, <1>3 DEF WfSteps
<1>6. /\ g[0] = NewStart /\ g[N] = FinalState
      /\ \A i \in 1 .. N : Find(next, g[i - 1], x[i], ByPhi(k)) = {g[i]}
  BY <1>1 DEF Found
<1> HIDE DEF x
<1> DEFINE S == PairStates(k)
           M == Product(k)
           P == [i \in 0 .. N |-> {q \in S : q[1] = g[i] /\ w[i] \in q[2]}]
           R == {r \in (1 .. N) \X S \X S : x[r[1]] \in DOMAIN M[r[2]] /\ M[r[2]][x[r[1]]] = r[3]}
<1>7. /\ DOMAIN M = S /\ Beginning = <<NewStart, {WfStart}>> /\ Beginning \in S /\ Whole(M)
      /\ S \in SUBSET Pairs
  BY ProductIs
<1>8. \A q \in S : DOMAIN M[q] = Possible(k, q) /\ \A v \in Possible(k, q) : M[q][v] \in StepTo(k, q, v)
  BY ProductIs
<1>9. \A i \in 0 .. N : \A q : q \in P[i] <=> q \in S /\ q[1] = g[i] /\ w[i] \in q[2]
  OBVIOUS
<1> HIDE DEF P, M, S
<1>10. ASSUME NEW i \in 1 .. N, NEW q \in P[i - 1] PROVE \E r \in P[i] : <<i, q, r>> \in R
  <2>1. i - 1 \in 0 .. N /\ i \in 0 .. N
    BY <1>1
  <2>2. q \in S /\ q[1] = g[i - 1] /\ w[i - 1] \in q[2]
    BY <1>9, <2>1
  <2> DEFINE v == x[i]
             V == WfAfter(k, q[2], v)
  <2>3. v \in LabelsOf(k) /\ v = Labelling(k)[u[i]] /\ u[i] \in 1 .. Len(table)
    BY <1>1
  <2>4. StepTo(k, q, v) = {<<g[i], V>>}
    <3>1. Find(next, q[1], v, ByPhi(k)) = {g[i]}
      BY <1>6, <2>2
    <3> HIDE DEF v
    <3> QED BY <3>1 DEF StepTo
  <2>5. w[i] \in V
    <3>1. table[u[i]] \in Meant(k)[v]
      BY <2>3, MeantIs
    <3>2. w[i] = WfArc(WfLimit, opts.conjs, opts.segs, w[i - 1], table[u[i]]) /\ ~ WfDead(w[i])
      BY <1>4, <1>5, <2>1
    <3> HIDE DEF v
    <3> QED BY <2>2, <3>1, <3>2 DEF WfAfter
  <2> HIDE DEF V, v
  <2>6. v \in Possible(k, q)
    <3>1. <<g[i], V>> \in StepTo(k, q, v) /\ <<g[i], V>>[2] # {}
      BY <2>4, <2>5
    <3>2. \E r \in StepTo(k, q, v) : r[2] # {}
      BY <3>1
    <3> QED BY <2>3, <3>2 DEF Possible
  <2>7. v \in DOMAIN M[q] /\ M[q][v] = <<g[i], V>> /\ M[q][v] \in S
    <3>1. v \in DOMAIN M[q] /\ M[q][v] = <<g[i], V>>
      BY <1>8, <2>2, <2>4, <2>6
    <3> QED BY <1>7, <2>2, <3>1 DEF Whole
  <2>8. <<i, q, M[q][v]>> \in R
    BY <2>2, <2>7 DEF v
  <2>9. M[q][v] \in P[i]
    <3> DEFINE r == M[q][v]
    <3>1. r[1] = g[i] /\ w[i] \in r[2] /\ r \in S
      BY <2>5, <2>7
    <3> HIDE DEF r
    <3>2. r \in P[i]
      BY <1>9, <2>1, <3>1
    <3> QED BY <3>2 DEF r
  <2> QED BY <2>8, <2>9
<1>11. Beginning \in P[0]
  <2>1. Beginning[1] = g[0] /\ w[0] \in Beginning[2]
    BY <1>5, <1>6, <1>7
  <2>2. 0 \in 0 .. N /\ Beginning \in S
    BY <1>1, <1>7
  <2> QED BY <1>9, <2>1, <2>2
<1>12. PICK f : DOMAIN f = 0 .. N /\ Chains(N, P, R, Beginning, f)
  <2> HIDE DEF R
  <2> QED BY <1>1, <1>10, <1>11, ChainExists
<1> DEFINE h == [i \in 0 .. N |-> f[i]]
<1>13. h \in [0 .. Len(x) -> DOMAIN M] /\ h[0] = Beginning
  <2>1. \A i \in 0 .. N : f[i] \in S
    BY <1>9, <1>12 DEF Chains
  <2>2. 0 \in 0 .. N /\ f[0] = Beginning /\ Len(x) = N
    BY <1>1, <1>12 DEF Chains
  <2> QED BY <1>7, <2>1, <2>2
<1>14. Steps(M, x, h)
  <2>1. ASSUME NEW i \in 1 .. N
        PROVE  x[i] \in DOMAIN M[h[i - 1]] /\ h[i] = M[h[i - 1]][x[i]] /\ h[i] \in DOMAIN M
    <3>1. <<i, f[i - 1], f[i]>> \in R
      BY <1>12 DEF Chains
    <3>2. h[i - 1] = f[i - 1] /\ h[i] = f[i]
      BY <1>1
    <3>3. x[i] \in DOMAIN M[f[i - 1]] /\ M[f[i - 1]][x[i]] = f[i] /\ f[i] \in S
      BY <3>1
    <3> QED BY <1>7, <3>2, <3>3
  <2>2. h[0] \in DOMAIN M
    BY <1>7, <1>13
  <2> QED BY <1>1, <2>1, <2>2 DEF Steps
<1>15. h[Len(x)] \in finals
  <2>0. N \in 0 .. N /\ Len(x) = N
    BY <1>1
  <2>1. h[Len(x)] = f[N] /\ f[N] \in P[N]
    BY <1>12, <2>0 DEF Chains
  <2>2. f[N] \in S /\ f[N][1] = FinalState
    BY <1>1, <1>6, <1>9, <2>1
  <2> QED BY <2>1, <2>2 DEF S
<1> QED BY <1>13, <1>14, <1>15 DEF Reads, M, x

\* A composition is entered at its start, and reads what it should.
LEMMA CompositionReads ==
  ASSUME NEW k, Composes(k), Len(table) \in Nat, Len(SymsOf(k)) \in Nat, LabelsOf(k) = 1 .. Len(SymsOf(k)),
         table \in Seq(AnySymbol), NEW u \in Seq(1 .. Len(table)),
         WfAccepts(WfLimit, opts.conjs, opts.segs, Spell(u)),
         \E g : Found(next, InLabels(Labelling(k), u), ByPhi(k), g)
  PROVE  Reads(<<StartOf(next), {WfStart}>>, Composition(k), InLabels(Labelling(k), u),
               {q \in PairStates(k) : q[1] = FinalState})
<1> DEFINE x == InLabels(Labelling(k), u)
           finals == {q \in PairStates(k) : q[1] = FinalState}
<1>1. Reads(Beginning, Product(k), x, finals)
  BY ProductReads
<1>2. /\ DOMAIN Product(k) = PairStates(k) /\ Beginning \in DOMAIN Product(k)
      /\ IsFiniteSet(DOMAIN Product(k)) /\ Whole(Product(k)) /\ finals \in SUBSET DOMAIN Product(k)
  BY ProductIs
<1>3. Len(x) \in Nat
  <2> DEFINE label == Labelling(k)
  <2>1. DOMAIN label = 1 .. Len(table) /\ \A l \in 1 .. Len(table) : label[l] \in 1 .. Len(SymsOf(k))
    BY DEF Composes
  <2> HIDE DEF label
  <2>2. InLabels(label, u) \in Seq(1 .. Len(SymsOf(k)))
    BY <2>1, InLabelsIs
  <2> QED BY <2>2 DEF label
<1> HIDE DEF x
<1>4. Reads(Beginning, Connected(Product(k), Beginning, finals), x, finals)
  <2> HIDE DEF finals
  <2> QED BY <1>1, <1>2, <1>3, ConnectedReads
<1>5. next # <<>>
  <2>1. NewStart \in DOMAIN next
    BY DEF Composes
  <2> QED BY <2>1
<1>6. Composition(k) = IF IsMain(k) THEN Product(k) ELSE Connected(Product(k), Beginning, finals)
  BY <1>5, CompositionIs
<1>7. Reads(Beginning, Composition(k), x, finals)
  <2> HIDE DEF finals
  <2> QED BY <1>1, <1>4, <1>6
<1> QED BY <1>7 DEF x, Beginning

-----------------------------------------------------------------------------
(* The intersection of all models.                                         *)

\* The states of the models, and what leads from one set of result states to the next.
ModelStates ==
  UNION {{models[k].start} \cup
         UNION {{models[k].arcs[q][l] : l \in DOMAIN models[k].arcs[q]} : q \in DOMAIN models[k].arcs}
           : k \in DOMAIN models}
ResultStates == [DOMAIN models -> ModelStates] \X Int \X Int
AllSteps(states, l) == UNION {ResultStep(Labellings, q, l) : q \in states}
AcceptRun(w, Q) ==
  /\ Q[0] = {StartState}
  /\ \A i \in 1 .. Len(w) : Q[i] = AllSteps(Q[i - 1], w[i])
  /\ AcceptedByAll(w) <=> Q[Len(w)] # {}

\* The limit machine stays within its states.
LEMMA LimitArcsInt ==
  ASSUME NEW limit \in Int, NEW j \in Int, NEW s
  PROVE  LimitArcs(limit, j, s) \subseteq Int
BY DEF LimitArcs

\* A step of the result leads to a state of the result.
LEMMA ResultStepIn ==
  ASSUME opts.limit \in Int, NEW q \in ResultStates, NEW l
  PROVE  ResultStep(Labellings, q, l) \subseteq ResultStates
<1> DEFINE g == [k \in DOMAIN models |-> models[k].arcs[q[1][k]][Labellings[k][l]]]
           fits == \A k \in DOMAIN models : /\ q[1][k] \in DOMAIN models[k].arcs
                                            /\ Labellings[k][l] \in DOMAIN models[k].arcs[q[1][k]]
           limit == IF HasLimit THEN opts.limit ELSE -1
<1>1. ResultStep(Labellings, q, l) =
        IF fits THEN {g} \X LimitArcs(limit, q[2], table[l]) \X HookArcs(q[3], table[l]) ELSE {}
  BY DEF ResultStep
<1>2. LimitArcs(limit, q[2], table[l]) \subseteq Int
  <2>1. q[2] \in Int /\ limit \in Int
    BY DEF ResultStates
  <2> HIDE DEF limit
  <2> QED BY <2>1, LimitArcsInt
<1>3. HookArcs(q[3], table[l]) \subseteq Int
  BY DEF HookArcs
<1>4. fits => g \in [DOMAIN models -> ModelStates]
  <2> SUFFICES ASSUME fits, NEW k \in DOMAIN models
               PROVE  models[k].arcs[q[1][k]][Labellings[k][l]] \in ModelStates
    OBVIOUS
  <2>1. q[1][k] \in DOMAIN models[k].arcs /\ Labellings[k][l] \in DOMAIN models[k].arcs[q[1][k]]
    OBVIOUS
  <2> QED BY <2>1 DEF ModelStates
<1> HIDE DEF g, fits, limit
<1> QED BY <1>1, <1>2, <1>3, <1>4 DEF ResultStates

\* The states that a string leads to, label by label.
LEMMA AcceptSteps ==
  ASSUME opts.limit \in Int, NEW S, NEW w \in Seq(S)
  PROVE  \E Q : AcceptRun(w, Q)
<1> DEFINE n == Len(w)
           A == SUBSET ResultStates
           op(states, l) == UNION {ResultStep(Labellings, q, l) : q \in states}
           base == {StartState}
           f == [p \in A \X (1 .. n) |-> op(p[1], w[p[2]])]
           R(g) == g = [s \in SUBSET DOMAIN w |->
                          IF s = {} THEN base ELSE op(g[s \ {Max(s)}], w[Max(s)])]
           h == CHOOSE g : R(g)
<1>1. n \in Nat /\ DOMAIN w = 1 .. n
  OBVIOUS
<1>2. \A states \in A, i \in 1 .. n : op(states, w[i]) \in A
  <2> SUFFICES ASSUME NEW states \in A, NEW i \in 1 .. n, NEW q \in states
               PROVE  ResultStep(Labellings, q, w[i]) \subseteq ResultStates
    OBVIOUS
  <2>1. q \in ResultStates
    OBVIOUS
  <2> QED BY <2>1, ResultStepIn
<1>3. f \in [A \X (1 .. n) -> A] /\ base \in A
  <2>1. base \in A
    <3>1. [k \in DOMAIN models |-> models[k].start] \in [DOMAIN models -> ModelStates]
      BY DEF ModelStates
    <3> QED BY <3>1 DEF StartState, ResultStates
  <2> HIDE DEF op, A
  <2>2. f \in [A \X (1 .. n) -> A]
    BY <1>2
  <2> QED BY <2>1, <2>2
<1>4. PICK g \in [SUBSET (1 .. n) -> A] : Iterates(f, base, n, g)
  <2> HIDE DEF f, A, n, base
  <2> QED BY <1>1, <1>3, IteratesExists DEF Iterable
<1>5. \A s \in SUBSET (1 .. n) : s # {} =>
         f[<<g[s \ {Max(s)}], Max(s)>>] = op(g[s \ {Max(s)}], w[Max(s)])
  <2> SUFFICES ASSUME NEW s \in SUBSET (1 .. n), s # {}
               PROVE f[<<g[s \ {Max(s)}], Max(s)>>] = op(g[s \ {Max(s)}], w[Max(s)])
    OBVIOUS
  <2>1. Max(s) \in 1 .. n /\ g[s \ {Max(s)}] \in A
    BY <1>1, MaxIn
  <2> HIDE DEF op, A
  <2> QED BY <2>1
<1>6. R(g)
  <2> HIDE DEF op, f, base
  <2> QED BY <1>1, <1>4, <1>5 DEF Iterates
<1>7. R(h)
  <2> HIDE DEF R
  <2> QED BY <1>6
<1>8. AcceptedByAll(w) <=> h[DOMAIN w] # {}
  BY Zenon DEF AcceptedByAll, FoldLeft, MapThenFoldSet
<1> HIDE DEF h, f
<1>9. \A s \in SUBSET (1 .. n) : h[s] = IF s = {} THEN base ELSE op(h[s \ {Max(s)}], w[Max(s)])
  <2> HIDE DEF op, base
  <2> QED BY <1>1, <1>7
<1>10. 1 .. 0 = {} /\ {} \in SUBSET (1 .. n) /\ h[{}] = base
  <2>1. 1 .. 0 = {} /\ {} \in SUBSET (1 .. n)
    BY <1>1
  <2> HIDE DEF op, base
  <2> QED BY <1>9, <2>1
<1> DEFINE H == [k \in 0 .. n |-> h[1 .. k]]
<1>11. \A k \in 1 .. n : H[k] = AllSteps(H[k - 1], w[k])
  <2> SUFFICES ASSUME NEW k \in 1 .. n PROVE H[k] = op(H[k - 1], w[k])
    BY Zenon DEF AllSteps
  <2>1. k \in 0 .. n /\ k - 1 \in 0 .. n
    BY <1>1
  <2>2. H[k] = h[1 .. k] /\ H[k - 1] = h[1 .. (k - 1)]
    BY <2>1
  <2>3. h[1 .. k] = op(h[1 .. (k - 1)], w[k])
    <3> HIDE DEF op, H, base
    <3>1. /\ 1 .. k \in SUBSET (1 .. n) /\ 1 .. k # {}
          /\ Max(1 .. k) = k /\ (1 .. k) \ {Max(1 .. k)} = 1 .. (k - 1)
      BY <1>1, FirstPositions
    <3> QED BY <1>9, <3>1
  <2> HIDE DEF H, op
  <2> QED BY <2>2, <2>3
<1>12. H[0] = base /\ H[n] = h[1 .. n]
  BY <1>1, <1>10
<1> HIDE DEF H
<1> QED BY <1>1, <1>8, <1>11, <1>12 DEF AcceptRun

-----------------------------------------------------------------------------
(* What all models read, the machine accepts.                              *)

\* A string of labels can be read from the start of a model.
CanRead(m, x) == \E g \in [0 .. Len(x) -> DOMAIN m.arcs] : g[0] = m.start /\ Steps(m.arcs, x, g)

\* The limit inside of a string holds for the string with its ends too.
LEMMA InsertionsInside ==
  ASSUME NEW limit \in Nat, NEW S, NEW y \in Seq(S), Len(y) >= 2,
         ~ IsInsertion(y[1]), ~ IsInsertion(y[Len(y)]),
         InsertionsLimited(limit, SubSeq(y, 2, Len(y) - 1))
  PROVE  LimitedTo(limit, y, Len(y))
<1> DEFINE N == Len(y)
           x == SubSeq(y, 2, N - 1)
<1> SUFFICES ASSUME NEW i \in 1 .. N, i + limit <= N
             PROVE  \E j \in i .. i + limit : ~ IsInsertion(y[j])
  BY DEF LimitedTo
<1>0. N \in Nat /\ N >= 2
  OBVIOUS
<1>1. CASE i = 1
  <2>1. 1 \in i .. i + limit
    BY <1>1
  <2> QED BY <2>1
<1>2. CASE i + limit = N
  <2>1. N \in i .. i + limit
    BY <1>0, <1>2
  <2> QED BY <2>1
<1>3. CASE i # 1 /\ i + limit # N
  <2>1. 2 \in 1 .. N /\ N - 1 \in 1 .. N /\ 2 <= N - 1 /\ i - 1 \in Nat /\ i - 1 >= 1 /\ i - 1 + limit <= N - 2
    BY <1>0, <1>3
  <2>2. x \in Seq(S) /\ Len(x) = N - 2 /\ \A k \in 1 .. N - 2 : x[k] = y[1 + k]
    <3>1. x \in Seq(S) /\ Len(x) = N - 1 - 2 + 1 /\ \A k \in 1 .. N - 1 - 2 + 1 : x[k] = y[2 + k - 1]
      BY <2>1, SubSeqFacts
    <3>2. N - 1 - 2 + 1 = N - 2 /\ \A k \in 1 .. N - 2 : 2 + k - 1 = 1 + k
      BY <1>0
    <3> QED BY <3>1, <3>2
  <2>3. DOMAIN x = 1 .. N - 2
    BY <2>2
  <2>4. PICK j \in i - 1 .. i - 1 + limit : ~ IsInsertion(x[j])
    <3>1. i - 1 \in DOMAIN x /\ i - 1 + limit \in DOMAIN x
      BY <1>0, <2>1, <2>3
    <3>2. InsertionsLimited(limit, x) /\ limit >= 0
      OBVIOUS
    <3> HIDE DEF x
    <3> QED BY <3>1, <3>2 DEF InsertionsLimited
  <2>5. j \in 1 .. N - 2 /\ 1 + j \in i .. i + limit
    BY <1>0, <2>1
  <2>6. ~ IsInsertion(y[1 + j])
    BY <2>2, <2>4, <2>5
  <2> QED BY <2>5, <2>6
<1> QED BY <1>1, <1>2, <1>3

\* The labels are those of each model.
LEMMA LabellingsIs ==
  ASSUME NEW k \in DOMAIN models
  PROVE  Labellings[k] = Labelling(k)
<1> DEFINE f == [j \in DOMAIN models |-> Tabulated(Labelling(j))]
<1>1. Labellings = f
  <2>1. Tabulated(f) = f
    BY TabulatedIs
  <2> QED BY Zenon, <2>1 DEF Labellings
<1>2. f[k] = Tabulated(Labelling(k))
  OBVIOUS
<1> HIDE DEF f
<1> QED BY <1>1, <1>2, TabulatedIs

\* The limit of the limit machine.
Limit == IF HasLimit THEN opts.limit ELSE -1
HookAt(N, i) == IF i = 0 THEN 0 ELSE IF i = N THEN 2 ELSE 1

\* The string's place in the hook machine, one symbol further.
LEMMA HookStep ==
  ASSUME IsTable(table), NEW w \in Seq(1 .. Len(table)), Bounded(w), NEW i \in 1 .. Len(w)
  PROVE  HookAt(Len(w), i) \in HookArcs(HookAt(Len(w), i - 1), table[w[i]])
<1>1. /\ Len(w) \in Nat /\ Len(w) >= 2
      /\ table[w[i]] = StartSym <=> i = 1
      /\ table[w[i]] = EndSym <=> i = Len(w)
  BY DEF Bounded
<1>2. HookAt(Len(w), i - 1) = IF i = 1 THEN 0 ELSE 1
  BY <1>1 DEF HookAt
<1>3. HookAt(Len(w), i) = IF i = Len(w) THEN 2 ELSE 1
  BY <1>1 DEF HookAt
<1> QED BY <1>1, <1>2, <1>3 DEF HookArcs

\* If every model reads a string, and it respects the limit, the result accepts it.
LEMMA AllAccept ==
  ASSUME IsTable(table), opts.limit \in Int, NEW w \in Seq(1 .. Len(table)), Bounded(w),
         \A k \in DOMAIN models : CanRead(models[k], InLabels(Labelling(k), w)),
         \A k \in DOMAIN models : DOMAIN Labelling(k) = 1 .. Len(table),
         InsertionsLimited(Limit, SubSeq(Spell(w), 2, Len(w) - 1))
  PROVE  AcceptedByAll(w)
<1> DEFINE N == Len(w)
           y == Spell(w)
           x(k) == InLabels(Labelling(k), w)
           goes(k, g) == g \in [0 .. N -> DOMAIN models[k].arcs] /\ g[0] = models[k].start
                         /\ Steps(models[k].arcs, x(k), g)
           path == [k \in DOMAIN models |-> CHOOSE g : goes(k, g)]
           at(i) == [k \in DOMAIN models |-> path[k][i]]
<1>0. N \in Nat /\ N >= 2 /\ DOMAIN w = 1 .. N /\ Limit \in Int /\ Len(table) \in Nat /\ table \in Seq(AnySymbol)
  BY DEF Bounded, Limit, IsTable
<1>1. y \in Seq(AnySymbol) /\ Len(y) = N /\ \A i \in 1 .. N : y[i] = table[w[i]]
  <2>1. \A i \in 1 .. N : table[w[i]] \in AnySymbol
    BY <1>0
  <2> QED BY <1>0, <2>1 DEF Spell
<1>2. \A k \in DOMAIN models : Len(x(k)) = N /\ \A i \in 1 .. N : x(k)[i] = Labelling(k)[w[i]]
  <2> SUFFICES ASSUME NEW k \in DOMAIN models PROVE Len(x(k)) = N /\ \A i \in 1 .. N : x(k)[i] = Labelling(k)[w[i]]
    OBVIOUS
  <2>1. x(k) = [i \in 1 .. N |-> Labelling(k)[w[i]]]
    BY <1>0 DEF InLabels
  <2> HIDE DEF x
  <2> QED BY <1>0, <2>1
<1>3. \A k \in DOMAIN models : goes(k, path[k])
  <2> SUFFICES ASSUME NEW k \in DOMAIN models PROVE goes(k, path[k])
    OBVIOUS
  <2>1. \E g : goes(k, g)
    <3>1. CanRead(models[k], x(k)) /\ Len(x(k)) = N
      BY <1>2
    <3> HIDE DEF x
    <3> QED BY <3>1 DEF CanRead
  <2>2. path[k] = CHOOSE g : goes(k, g)
    OBVIOUS
  <2> HIDE DEF goes, path
  <2> QED BY <2>1, <2>2
<1> HIDE DEF path, y
<1>4. \A k \in DOMAIN models :
        /\ path[k][0] = models[k].start
        /\ \A i \in 1 .. N : /\ path[k][i - 1] \in DOMAIN models[k].arcs
                             /\ Labelling(k)[w[i]] \in DOMAIN models[k].arcs[path[k][i - 1]]
                             /\ path[k][i] = models[k].arcs[path[k][i - 1]][Labelling(k)[w[i]]]
  <2> SUFFICES ASSUME NEW k \in DOMAIN models
               PROVE  /\ path[k][0] = models[k].start
                      /\ \A i \in 1 .. N : /\ path[k][i - 1] \in DOMAIN models[k].arcs
                             /\ Labelling(k)[w[i]] \in DOMAIN models[k].arcs[path[k][i - 1]]
                             /\ path[k][i] = models[k].arcs[path[k][i - 1]][Labelling(k)[w[i]]]
    OBVIOUS
  <2>1. /\ path[k] \in [0 .. N -> DOMAIN models[k].arcs] /\ path[k][0] = models[k].start
        /\ Steps(models[k].arcs, x(k), path[k])
    BY <1>3
  <2>2. Len(x(k)) = N /\ \A i \in 1 .. N : x(k)[i] = Labelling(k)[w[i]]
    BY <1>2
  <2> HIDE DEF x
  <2>3. \A i \in 1 .. N : x(k)[i] \in DOMAIN models[k].arcs[path[k][i - 1]]
                          /\ path[k][i] = models[k].arcs[path[k][i - 1]][x(k)[i]]
    BY <2>1, <2>2 DEF Steps
  <2>4. \A i \in 1 .. N : path[k][i - 1] \in DOMAIN models[k].arcs
    <3> SUFFICES ASSUME NEW i \in 1 .. N PROVE path[k][i - 1] \in DOMAIN models[k].arcs
      OBVIOUS
    <3>1. i - 1 \in 0 .. N
      BY <1>0
    <3> QED BY <2>1, <3>1
  <2> QED BY <2>1, <2>2, <2>3, <2>4
<1> HIDE DEF goes
<1>5. PICK Q : AcceptRun(w, Q)
  BY AcceptSteps
<1> DEFINE Good(i) == \A j \in Int : LimitSays(Limit, y, i, j) => <<at(i), j, HookAt(N, i)>> \in Q[i]
           K == {i \in 0 .. N : Good(i)}
<1>6. 0 \in K
  <2>1. Good(0)
    <3> SUFFICES ASSUME NEW j \in Int, LimitSays(Limit, y, 0, j) PROVE <<at(0), j, HookAt(N, 0)>> \in Q[0]
      OBVIOUS
    <3>1. j = 0
      BY <1>0, LimitStart
    <3>2. at(0) = [k \in DOMAIN models |-> models[k].start]
      BY <1>4
    <3>3. <<at(0), j, HookAt(N, 0)>> = StartState
      BY <3>1, <3>2 DEF StartState, HookAt
    <3> HIDE DEF at
    <3> QED BY <1>5, <3>3 DEF AcceptRun
  <2> QED BY <1>0, <2>1
<1>7. ASSUME NEW h \in 0 .. N - 1, h \in K PROVE h + 1 \in K
  <2> DEFINE i == h + 1
  <2>0. i \in 1 .. N /\ i \in 0 .. N /\ i - 1 = h /\ h \in Nat
    BY <1>0
  <2>1. Good(h)
    BY <1>7
  <2>2. ASSUME NEW j \in Int, LimitSays(Limit, y, i, j) PROVE <<at(i), j, HookAt(N, i)>> \in Q[i]
    <3>1. PICK p \in Int : LimitSays(Limit, y, h, p) /\ j \in LimitArcs(Limit, p, y[i])
      BY <1>0, <2>0, <2>2, LimitStep
    <3> DEFINE q == <<at(h), p, HookAt(N, h)>>
               l == w[i]
    <3>2. q \in Q[h]
      BY <2>1, <3>1
    <3>3. y[i] = table[l]
      BY <1>1, <2>0
    <3> HIDE DEF i
    <3>4. ASSUME NEW k \in DOMAIN models
          PROVE  /\ at(h)[k] = path[k][h] /\ path[k][h] \in DOMAIN models[k].arcs
                 /\ Labellings[k][l] \in DOMAIN models[k].arcs[path[k][h]]
                 /\ path[k][i] = models[k].arcs[path[k][h]][Labellings[k][l]]
      <4>1. Labellings[k] = Labelling(k)
        BY LabellingsIs
      <4> QED BY <1>4, <2>0, <4>1
    <3>5. [k \in DOMAIN models |-> models[k].arcs[at(h)[k]][Labellings[k][l]]] = at(i)
      BY <3>4
    <3>6. HookAt(N, i) \in HookArcs(HookAt(N, h), table[l])
      BY <2>0, HookStep
    <3>7. <<at(i), j, HookAt(N, i)>> \in ResultStep(Labellings, q, l)
      <4>1. \A k \in DOMAIN models : /\ q[1][k] \in DOMAIN models[k].arcs
                                     /\ Labellings[k][l] \in DOMAIN models[k].arcs[q[1][k]]
        BY <3>4
      <4>2. q[1] = at(h) /\ q[2] = p /\ q[3] = HookAt(N, h)
        OBVIOUS
      <4>3. ResultStep(Labellings, q, l) =
              {[k \in DOMAIN models |-> models[k].arcs[at(h)[k]][Labellings[k][l]]]}
                \X LimitArcs(Limit, p, table[l]) \X HookArcs(HookAt(N, h), table[l])
        <5> HIDE DEF at
        <5> QED BY <4>1, <4>2 DEF ResultStep, Limit
      <4> HIDE DEF at, q
      <4> QED BY <3>1, <3>3, <3>5, <3>6, <4>3
    <3> HIDE DEF at, q
    <3>8. Q[i] = AllSteps(Q[h], l)
      <4>1. Q[i] = AllSteps(Q[i - 1], w[i])
        BY <1>5, <2>0 DEF AcceptRun
      <4> QED BY <2>0, <4>1
    <3> QED BY <3>2, <3>7, <3>8 DEF AllSteps
  <2> HIDE DEF at, i
  <2> QED BY <2>0, <2>2 DEF i
<1>8. Good(N)
  <2> HIDE DEF Good
  <2>1. \A i \in 0 .. N : i \in K
    <3> HIDE DEF K
    <3> QED BY <1>0, <1>6, <1>7, UpTo
  <2> QED BY <1>0, <2>1
<1>9. \E j \in Int : LimitSays(Limit, y, N, j)
  <2>1. CASE Limit < 0
    BY <2>1 DEF LimitSays
  <2>2. CASE Limit >= 0
    <3>0. Limit \in Nat
      BY <1>0, <2>2
    <3>1. LimitedTo(Limit, y, N)
      <4>1. ~ IsInsertion(y[1]) /\ ~ IsInsertion(y[N])
        <5>1. y[1] = StartSym /\ y[N] = EndSym
          <6>1. 1 \in 1 .. N /\ N \in 1 .. N
            BY <1>0
          <6>2. table[w[1]] = StartSym /\ table[w[N]] = EndSym
            BY <6>1 DEF Bounded
          <6> QED BY <1>1, <6>1, <6>2
        <5> QED BY <5>1, SpecialSymbols
      <4>2. InsertionsLimited(Limit, SubSeq(y, 2, Len(y) - 1))
        BY <1>1 DEF y
      <4> QED BY <1>0, <1>1, <3>0, <4>1, <4>2, InsertionsInside
    <3>2. PICK j \in 0 .. Limit : Trail(y, N, j)
      BY <1>0, <3>0, <3>1, TrailExists
    <3> QED BY <2>2, <3>0, <3>1, <3>2 DEF LimitSays
  <2> QED BY <1>0, <2>1, <2>2
<1>10. Q[N] # {}
  <2> HIDE DEF at
  <2> QED BY <1>8, <1>9
<1> QED BY <1>5, <1>10 DEF AcceptRun

-----------------------------------------------------------------------------
(* The labels of a model.                                                  *)

\* The names that CreateBackoffSymsFct knows.
IsBackoff(f) == f \in {"id", "tlm", "vc"}

\* A reduced symbol is not one of the two special ones.
LEMMA ReducedIsPlain ==
  ASSUME NEW f, IsBackoff(f), NEW s \in AnySymbol, ~ IsSpecial(s)
  PROVE  BackoffSym(f, s) # StartSym /\ BackoffSym(f, s) # EndSym
<1>1. s = [in |-> s["in"], out |-> s["out"], c |-> s["c"], g |-> s["g"]]
  BY DEF AnySymbol
<1>2. StartSym["in"] = "S" /\ EndSym["in"] = "E"
  BY DEF StartSym, EndSym, Symbol
<1>3. CASE f = "id"
  <2>1. BackoffSym(f, s) = [s EXCEPT !.in = Kind(s), !.out = Kind(s)]
    BY <1>3 DEF BackoffSym
  <2>2. BackoffSym(f, s)["in"] = Kind(s)
    BY <1>1, <2>1
  <2>3. Kind(s) \in {"INS", "DEL", "ID", "SUBST"}
    BY DEF Kind
  <2> QED BY <1>2, <2>2, <2>3
<1>4. CASE f = "tlm"
  <2>1. BackoffSym(f, s) = [s EXCEPT !.in = "?"]
    BY <1>4 DEF BackoffSym
  <2>2. BackoffSym(f, s)["in"] = "?"
    BY <1>1, <2>1
  <2> QED BY <1>2, <2>2
<1>5. CASE f = "vc"
  <2>1. BackoffSym(f, s) = [s EXCEPT !.in = ReduceChar(@), !.out = ReduceChar(@)]
    BY <1>5 DEF BackoffSym
  <2>2. BackoffSym(f, s)["in"] = ReduceChar(s["in"])
    BY <1>1, <2>1
  <2>3. ReduceChar(s["in"]) \in {"-", "V", "C"}
    BY DEF ReduceChar, Eps
  <2> QED BY <1>2, <2>2, <2>3
<1> QED BY <1>3, <1>4, <1>5 DEF IsBackoff

\* A label stands for the coarse symbol.
LEMMA LabelMeans ==
  ASSUME IsTable(table), NEW m
  PROVE  \A l \in 1 .. Len(table) : SymsOf(m)[Labelling(m)[l]] = SymOf(m, table[l])
<1> DEFINE n == Len(table)
           syms == SymsOf(m)
<1>1. /\ Len(syms) \in Nat /\ DOMAIN syms = 1 .. Len(syms)
      /\ \A i \in 1 .. n : \E v \in 1 .. Len(syms) : syms[v] = SymOf(m, table[i])
  BY SymsIs
<1>2. DOMAIN table = 1 .. n
  BY DEF IsTable
<1>3. Labelling(m) = [l \in 1 .. n |-> CHOOSE v \in DOMAIN syms : syms[v] = SymOf(m, table[l])]
  BY <1>2 DEF Labelling
<1> HIDE DEF syms, n
<1>4. ASSUME NEW l \in 1 .. n
      PROVE  syms[Labelling(m)[l]] = SymOf(m, table[l])
  <2>1. \E v \in DOMAIN syms : syms[v] = SymOf(m, table[l])
    BY <1>1
  <2>2. Labelling(m)[l] = CHOOSE v \in DOMAIN syms : syms[v] = SymOf(m, table[l])
    BY <1>3
  <2> QED BY <2>1, <2>2
<1> QED BY <1>4 DEF syms, n

\* The labels of the main model are those of the table.
LEMMA MainLabels ==
  ASSUME IsTable(table), NEW m, IsMain(m)
  PROVE  /\ \A l \in 1 .. Len(table) : Labelling(m)[l] = l
         /\ LabelsOf(m) = 1 .. Len(table) /\ Len(SymsOf(m)) = Len(table)
         /\ \A w \in Seq(1 .. Len(table)) : InLabels(Labelling(m), w) = w
<1>1. SymsOf(m) = table /\ DOMAIN Labelling(m) = 1 .. Len(table)
      /\ \A l \in 1 .. Len(table) : Labelling(m)[l] \in 1 .. Len(table)
  BY LabellingIs
<1>2. DOMAIN table = 1 .. Len(table) /\ NoDups(table)
  BY DEF IsTable
<1>3. ASSUME NEW l \in 1 .. Len(table) PROVE Labelling(m)[l] = l
  <2>1. table[Labelling(m)[l]] = table[l]
    BY <1>1, LabelMeans DEF SymOf
  <2> QED BY <1>1, <1>2, <2>1 DEF NoDups
<1>4. LabelsOf(m) = 1 .. Len(table)
  BY <1>1, <1>2 DEF LabelsOf
<1>5. ASSUME NEW w \in Seq(1 .. Len(table)) PROVE InLabels(Labelling(m), w) = w
  <2>1. w = [i \in DOMAIN w |-> w[i]] /\ \A i \in DOMAIN w : w[i] \in 1 .. Len(table)
    OBVIOUS
  <2>2. InLabels(Labelling(m), w) = [i \in DOMAIN w |-> Labelling(m)[w[i]]]
    BY DEF InLabels
  <2> QED BY <1>3, <2>1, <2>2
<1> QED BY <1>1, <1>3, <1>4, <1>5

\* Only S|S and E|E have the labels of S|S and E|E.
LEMMA HookLabels ==
  ASSUME IsTable(table), NEW m, IsMain(m) \/ IsBackoff(opts.backoff[m])
  PROVE  \A l \in 1 .. Len(table) :
           /\ Labelling(m)[l] = Labelling(m)[StartLabel] => l = StartLabel
           /\ Labelling(m)[l] = Labelling(m)[EndLabel] => l = EndLabel
<1>0. /\ EndLabel \in 1 .. Len(table) /\ table[EndLabel] = EndSym
      /\ StartLabel \in 1 .. Len(table) /\ table[StartLabel] = StartSym
      /\ \A l \in 1 .. Len(table) : table[l] \in AnySymbol
      /\ DOMAIN table = 1 .. Len(table) /\ NoDups(table)
  BY EndLabelIs DEF IsTable
<1>1. IsSpecial(StartSym) /\ IsSpecial(EndSym)
  BY DEF IsSpecial
<1>2. SymOf(m, StartSym) = StartSym /\ SymOf(m, EndSym) = EndSym
  BY <1>1 DEF SymOf, BackoffSym
<1>3. \A l \in 1 .. Len(table) : SymOf(m, table[l]) = StartSym => table[l] = StartSym
  <2> SUFFICES ASSUME NEW l \in 1 .. Len(table), SymOf(m, table[l]) = StartSym PROVE table[l] = StartSym
    OBVIOUS
  <2>1. CASE IsMain(m)
    BY <2>1 DEF SymOf
  <2>2. CASE ~ IsMain(m)
    <3>1. SymOf(m, table[l]) = BackoffSym(opts.backoff[m], table[l])
      BY <2>2 DEF SymOf
    <3>2. IsSpecial(table[l])
      BY <1>0, <2>2, <3>1, ReducedIsPlain
    <3>3. BackoffSym(opts.backoff[m], table[l]) = table[l]
      BY <3>2 DEF BackoffSym
    <3> QED BY <3>1, <3>3
  <2> QED BY <2>1, <2>2
<1>4. \A l \in 1 .. Len(table) : SymOf(m, table[l]) = EndSym => table[l] = EndSym
  <2> SUFFICES ASSUME NEW l \in 1 .. Len(table), SymOf(m, table[l]) = EndSym PROVE table[l] = EndSym
    OBVIOUS
  <2>1. CASE IsMain(m)
    BY <2>1 DEF SymOf
  <2>2. CASE ~ IsMain(m)
    <3>1. SymOf(m, table[l]) = BackoffSym(opts.backoff[m], table[l])
      BY <2>2 DEF SymOf
    <3>2. IsSpecial(table[l])
      BY <1>0, <2>2, <3>1, ReducedIsPlain
    <3>3. BackoffSym(opts.backoff[m], table[l]) = table[l]
      BY <3>2 DEF BackoffSym
    <3> QED BY <3>1, <3>3
  <2> QED BY <2>1, <2>2
<1>5. \A l \in 1 .. Len(table) : SymsOf(m)[Labelling(m)[l]] = SymOf(m, table[l])
  BY LabelMeans
<1>6. \A l \in 1 .. Len(table) : /\ table[l] = StartSym => l = StartLabel
                                 /\ table[l] = EndSym => l = EndLabel
  BY <1>0 DEF NoDups
<1> QED BY <1>0, <1>2, <1>3, <1>4, <1>5, <1>6

\* In the labels of any model, too, S|S is first and E|E last, and nowhere else.
LEMMA HooksInLabels ==
  ASSUME IsTable(table), NEW m, IsMain(m) \/ IsBackoff(opts.backoff[m]),
         NEW w \in Seq(1 .. Len(table)), Bounded(w)
  PROVE  /\ Labelling(m)[StartLabel] # Labelling(m)[EndLabel]
         /\ Hooks(InLabels(Labelling(m), w), Labelling(m)[StartLabel], Labelling(m)[EndLabel])
         /\ InLabels(Labelling(m), w) \in Seq(1 .. Len(SymsOf(m)))
<1>0. /\ EndLabel \in 1 .. Len(table) /\ table[EndLabel] = EndSym
      /\ StartLabel \in 1 .. Len(table) /\ table[StartLabel] = StartSym /\ StartLabel # EndLabel
      /\ DOMAIN table = 1 .. Len(table) /\ NoDups(table) /\ Len(table) \in Nat
  BY EndLabelIs DEF IsTable
<1>1. \A l \in 1 .. Len(table) : /\ Labelling(m)[l] = Labelling(m)[StartLabel] => l = StartLabel
                                 /\ Labelling(m)[l] = Labelling(m)[EndLabel] => l = EndLabel
  BY HookLabels
<1>2. /\ DOMAIN Labelling(m) = 1 .. Len(table) /\ Len(SymsOf(m)) \in Nat
      /\ \A l \in 1 .. Len(table) : Labelling(m)[l] \in 1 .. Len(SymsOf(m))
  BY LabellingIs
<1> DEFINE x == InLabels(Labelling(m), w)
<1>3. /\ x \in Seq(1 .. Len(SymsOf(m))) /\ Len(x) = Len(w)
      /\ \A i \in 1 .. Len(w) : x[i] = Labelling(m)[w[i]]
  <2> DEFINE label == Labelling(m)
             A == 1 .. Len(table)
             B == 1 .. Len(SymsOf(m))
  <2>1. w \in Seq(A) /\ DOMAIN label = A /\ \A l \in A : label[l] \in B
    BY <1>2
  <2> HIDE DEF label, A, B
  <2>2. /\ InLabels(label, w) \in Seq(B) /\ Len(InLabels(label, w)) = Len(w)
        /\ \A i \in 1 .. Len(w) : InLabels(label, w)[i] = label[w[i]]
    <3> DEFINE r == InLabels(label, w)
               k == Len(w)
    <3>1. k \in Nat /\ DOMAIN w = 1 .. k /\ \A i \in 1 .. k : w[i] \in A
      BY ONLY <2>1
    <3>2. r = [i \in 1 .. k |-> label[w[i]]]
      BY ONLY <3>1 DEF InLabels
    <3>3. r \in [1 .. k -> B]
      BY ONLY <2>1, <3>1, <3>2
    <3> HIDE DEF k
    <3>4. r \in Seq(B) /\ Len(r) = k
      <4> HIDE DEF r
      <4> QED BY ONLY <3>1, <3>3
    <3> QED BY <3>2, <3>4 DEF k
  <2> QED BY <2>2 DEF label, B
<1>4. /\ Len(w) \in Nat /\ Len(w) >= 2 /\ \A i \in 1 .. Len(w) : w[i] \in 1 .. Len(table)
      /\ \A k \in 1 .. Len(w) : /\ table[w[k]] = StartSym <=> k = 1
                                /\ table[w[k]] = EndSym <=> k = Len(w)
  BY DEF Bounded
<1>5. \A k \in 1 .. Len(w) : /\ w[k] = StartLabel <=> k = 1
                             /\ w[k] = EndLabel <=> k = Len(w)
  BY <1>0, <1>4 DEF NoDups
<1> HIDE DEF x
<1>6. Hooks(x, Labelling(m)[StartLabel], Labelling(m)[EndLabel])
  <2>1. 1 \in 1 .. Len(w) /\ Len(w) \in 1 .. Len(w)
    BY <1>4
  <2>2. x[1] = Labelling(m)[StartLabel] /\ x[Len(w)] = Labelling(m)[EndLabel]
    BY <1>3, <1>5, <2>1
  <2>3. ASSUME NEW i \in 2 .. Len(w) - 1
        PROVE  x[i] # Labelling(m)[StartLabel] /\ x[i] # Labelling(m)[EndLabel]
    <3>1. i \in 1 .. Len(w) /\ i # 1 /\ i # Len(w)
      BY <1>4
    <3>2. w[i] # StartLabel /\ w[i] # EndLabel /\ w[i] \in 1 .. Len(table)
      BY <1>4, <1>5, <3>1
    <3> QED BY <1>1, <1>3, <3>1, <3>2
  <2> QED BY <1>3, <1>4, <2>2, <2>3 DEF Hooks
<1> QED BY <1>0, <1>1, <1>3, <1>6 DEF x

-----------------------------------------------------------------------------
(* The symbols of the table.                                               *)

\* However the symbols are chosen, the identities are among them.
LEMMA IdentitiesEssential ==
  ASSUME NEW n \in Nat, Len(table) = n, DOMAIN table = 1 .. n, IsTrie(trie, n), NEW E \in EssentialSets
  PROVE  IdentitySyms \subseteq E
<1> SUFFICES ASSUME opts.code = "v3" PROVE IdentitySyms \subseteq E
  <2>1. opts.code # "v3" => EssentialSets = {DOMAIN table}
    BY Zenon DEF EssentialSets, FoldSet, MapThenFoldSet
  <2>2. IdentitySyms \subseteq DOMAIN table
    BY DEF IdentitySyms
  <2> QED BY <2>1, <2>2
<1> DEFINE unigrams == ToSet(trie[<<>>].labels)
           inputs == {table[l].in : l \in unigrams}
           group(i) == {l \in unigrams : table[l].in = i}
           count == Tabulated([l \in unigrams |-> PathWeight(trie, <<l>>)])
           op(i, sets) == Unions(sets, Covering(group(i), count))
           A == SUBSET {F \in SUBSET (DOMAIN table \cup unigrams) : IdentitySyms \subseteq F}
           f == [p \in inputs \X A |-> op(p[1], p[2])]
           R(g) == g = [s \in SUBSET inputs |->
                          IF s = {} THEN {IdentitySyms}
                          ELSE op(CHOOSE x \in s : TRUE, g[s \ {CHOOSE x \in s : TRUE}])]
           h == CHOOSE g : R(g)
<1>1. EssentialSets = h[inputs]
  BY Zenon DEF EssentialSets, FoldSet, MapThenFoldSet
<1>2. IsFiniteSet(unigrams)
  <2>1. unigrams = {l \in 1 .. n : Append(Root, l) \in DOMAIN trie}
    BY DEF IsTrie, Root
  <2> QED BY <2>1, SetsOfLabels
<1>3. IsFiniteSet(inputs)
  <2> DEFINE u == [l \in unigrams |-> table[l].in]
  <2> HIDE DEF unigrams
  <2>1. u \in Surjection(unigrams, inputs)
    BY DEF Surjection
  <2> QED BY <1>2, <2>1, FS_Surjection
<1>4. \A i \in inputs, sets \in A : op(i, sets) \in A
  <2>1. \A i : \A T \in Covering(group(i), count) : T \subseteq unigrams
    BY DEF Covering
  <2>2. \A sets \in A : \A S \in sets : S \subseteq DOMAIN table \cup unigrams /\ IdentitySyms \subseteq S
    OBVIOUS
  <2> HIDE DEF group, count, inputs, unigrams
  <2> QED BY <2>1, <2>2 DEF Unions
<1>5. f \in [inputs \X A -> A]
  <2> HIDE DEF op, inputs, A
  <2> QED BY <1>4
<1>6. {IdentitySyms} \in A
  BY DEF IdentitySyms
<1>7. PICK g \in [SUBSET inputs -> A] : FoldResult(f, {IdentitySyms}, inputs, g)
  <2> HIDE DEF f, inputs, A
  <2> QED BY <1>3, <1>5, <1>6, FoldExists
<1>8. R(g)
  <2> HIDE DEF op, inputs, A
  <2>1. \A s \in SUBSET inputs : s # {} =>
          f[<<CHOOSE x \in s : TRUE, g[s \ {CHOOSE x \in s : TRUE}]>>]
            = op(CHOOSE x \in s : TRUE, g[s \ {CHOOSE x \in s : TRUE}])
    <3> SUFFICES ASSUME NEW s \in SUBSET inputs, s # {}, NEW x, x = CHOOSE z \in s : TRUE
                 PROVE  f[<<x, g[s \ {x}]>>] = op(x, g[s \ {x}])
      OBVIOUS
    <3>1. x \in inputs /\ g[s \ {x}] \in A
      OBVIOUS
    <3> QED BY <3>1
  <2> HIDE DEF f
  <2> QED BY <1>7, <2>1 DEF FoldResult
<1>9. R(h)
  <2> HIDE DEF R
  <2> QED BY <1>8
<1> HIDE DEF h
<1>10. h[inputs] \in A
  <2>1. ASSUME h[inputs] \notin A PROVE FALSE
    <3> DEFINE Bad == {s \in SUBSET inputs : h[s] \notin A}
    <3>1. Bad \in SUBSET SUBSET inputs /\ Bad # {}
      BY <2>1
    <3>2. PICK t \in Bad : \A u \in Bad : u \subseteq t => u = t
      <4> HIDE DEF Bad, inputs
      <4> QED BY <1>3, <3>1, SmallestSet
    <3> HIDE DEF inputs, A, op
    <3>3. t # {}
      BY <1>6, <1>9, <3>2
    <3>4. PICK x \in t : x = CHOOSE z \in t : TRUE
      BY <3>3
    <3>5. h[t] = op(x, h[t \ {x}])
      BY <1>9, <3>2, <3>3, <3>4
    <3>6. t \ {x} \in SUBSET inputs /\ t \ {x} \notin Bad
      BY <3>2, <3>4
    <3>7. h[t \ {x}] \in A /\ x \in inputs
      BY <3>2, <3>4, <3>6
    <3> QED BY <1>4, <3>2, <3>5, <3>7
  <2> QED BY <2>1
<1> QED BY <1>1, <1>10

\* S|S and E|E are identities.
LEMMA HooksAreIdentities ==
  ASSUME IsTable(table)
  PROVE  {StartLabel, EndLabel} \subseteq IdentitySyms
<1>1. /\ EndLabel \in DOMAIN table /\ table[EndLabel] = EndSym
      /\ StartLabel \in DOMAIN table /\ table[StartLabel] = StartSym
  BY EndLabelIs DEF IsTable
<1>2. /\ StartSym["in"] = StartSym["out"] /\ Nola(StartSym) = StartSym
      /\ EndSym["in"] = EndSym["out"] /\ Nola(EndSym) = EndSym
  BY DEF StartSym, EndSym, Nola, Symbol
<1> QED BY <1>1, <1>2 DEF IdentitySyms

\* The numbers of the regions go up to twice the number of changed ones.
LEMMA RegionNumbers ==
  ASSUME NEW t \in Seq(AnySymbol), \A s \in ToSet(t) : s.g = Unannotated, NEW segs \in Nat, segs > 0
  PROVE  \A s \in ToSet(getChangeSegSymbolTable(t, segs)) : s.g <= 2 * segs
<1> DEFINE annotated(s) ==
             IF IsSpecial(s) THEN <<s>>
             ELSE IF ~ IsChange(s) /\ s.c = 0
             THEN [j \in 1 .. segs + 1 |-> [s EXCEPT !.g = 2 * j - 2]]
             ELSE [j \in 1 .. segs |-> [s EXCEPT !.g = 2 * j - 1]]
           seqs == [l \in DOMAIN t |-> annotated(t[l])]
           Low == {s \in AnySymbol : s.g <= 2 * segs}
<1>1. getChangeSegSymbolTable(t, segs) = FlattenSeq(seqs)
  BY Zenon DEF getChangeSegSymbolTable
<1>2. ASSUME NEW x \in AnySymbol, x.g = Unannotated PROVE annotated(x) \in Seq(Low)
  <2> DEFINE a == annotated(x)
  <2>1. ASSUME NEW k \in Nat, NEW m \in Nat, a = [j \in 1 .. k |-> [x EXCEPT !.g = 2 * j - m]],
               2 * k - m <= 2 * segs
        PROVE  a \in Seq(Low)
    <3> DEFINE y(j) == [x EXCEPT !.g = 2 * j - m]
    <3>1. a = [j \in 1 .. k |-> y(j)]
      BY <2>1
    <3>2. \A j \in 1 .. k : y(j) \in Low
      <4> SUFFICES ASSUME NEW j \in 1 .. k PROVE y(j) \in Low
        OBVIOUS
      <4> DEFINE z == y(j)
                 i == 2 * j - m
      <4>1. x \in AnySymbol /\ i \in Int /\ InRegion(z, x, i) /\ x.g = Unannotated
        BY <1>2 DEF InRegion
      <4>2. i <= 2 * segs
        BY <2>1
      <4> HIDE DEF z, i
      <4>3. z \in AnySymbol /\ z.g = i
        BY ONLY <4>1, WithRegion
      <4>4. z \in Low
        BY <4>2, <4>3
      <4> QED BY <4>4 DEF z
    <3> HIDE DEF a, y, Low
    <3> QED BY <3>1, <3>2
  <2>2. CASE IsSpecial(x)
    <3>1. a = <<x>>
      BY <2>2
    <3>2. x \in Low
      BY <1>2 DEF Unannotated
    <3> HIDE DEF a, Low
    <3>3. a \in Seq(Low)
      BY <3>1, <3>2
    <3> QED BY <3>3 DEF a
  <2>3. CASE ~ IsSpecial(x) /\ ~ IsChange(x) /\ x.c = 0
    <3>1. a = [j \in 1 .. segs + 1 |-> [x EXCEPT !.g = 2 * j - 2]]
      BY <2>3
    <3>2. segs + 1 \in Nat /\ 2 \in Nat /\ 2 * (segs + 1) - 2 <= 2 * segs
      OBVIOUS
    <3> HIDE DEF a, Low
    <3>3. a \in Seq(Low)
      BY <2>1, <3>1, <3>2
    <3> QED BY <3>3 DEF a
  <2>4. CASE ~ IsSpecial(x) /\ ~ (~ IsChange(x) /\ x.c = 0)
    <3>1. a = [j \in 1 .. segs |-> [x EXCEPT !.g = 2 * j - 1]]
      BY <2>4
    <3>2. segs \in Nat /\ 1 \in Nat /\ 2 * segs - 1 <= 2 * segs
      OBVIOUS
    <3> HIDE DEF a, Low
    <3>3. a \in Seq(Low)
      BY <2>1, <3>1, <3>2
    <3> QED BY <3>3 DEF a
  <2> QED BY <2>2, <2>3, <2>4
<1>3. DOMAIN t = 1 .. Len(t) /\ Len(t) \in Nat /\ \A l \in 1 .. Len(t) : t[l] \in AnySymbol /\ t[l].g = Unannotated
  <2>1. DOMAIN t = 1 .. Len(t) /\ Len(t) \in Nat /\ \A l \in 1 .. Len(t) : t[l] \in AnySymbol
    OBVIOUS
  <2>2. \A l \in 1 .. Len(t) : t[l] \in ToSet(t)
    BY <2>1 DEF ToSet
  <2> QED BY <2>1, <2>2
<1> HIDE DEF annotated, Low
<1>4. seqs \in Seq(Seq(Low))
  BY <1>2, <1>3
<1>5. FlattenSeq(seqs) \in Seq(Low)
  <2> HIDE DEF seqs
  <2> QED BY <1>4, FlattenIs
<1>6. \A s \in ToSet(getChangeSegSymbolTable(t, segs)) : s \in Low
  <2> HIDE DEF seqs
  <2> QED BY <1>1, <1>5 DEF ToSet
<1> QED BY <1>6 DEF Low

\* No region of a table has a number beyond the last one.
LEMMA TableNumbered ==
  ASSUME NEW basic, Plain(basic), NEW conjs \in Nat, NEW segs \in Nat, NEW t,
         t = AddLatentAnnotations(basic, conjs, segs)
  PROVE  \A l \in 1 .. Len(t) : Numbered(segs, t[l])
<1> DEFINE withClass == IF conjs > 0 THEN getConjSymbolTable(basic, conjs) ELSE basic
<1>1. IsTable(t)
  BY AnnotatedTable
<1>2. \A l \in 1 .. Len(t) : t[l] \in AnySymbol /\ t[l] \in ToSet(t)
  BY <1>1 DEF IsTable, ToSet
<1>3. withClass \in Seq(AnySymbol) /\ \A s \in ToSet(withClass) : s.g = Unannotated
  BY ConjTable DEF Plain, IsTable
<1>4. segs > 0 => \A s \in ToSet(t) : s.g <= 2 * segs
  <2>1. segs > 0 => t = getChangeSegSymbolTable(withClass, segs)
    BY DEF AddLatentAnnotations
  <2> HIDE DEF withClass
  <2> QED BY <1>3, <2>1, RegionNumbers
<1> QED BY <1>2, <1>4 DEF Numbered

-----------------------------------------------------------------------------
(* What the trie holds while the models are made.                          *)

\* The models are made, or have been, of the topologies that have some.
Scoring == stage \in {"models", "backoff", "convert", "features", "combine", "created"} /\ opts.code # "noepshist"

\* The trie holds the n-grams of the data and the essential symbols.
TrieSays ==
  /\ \A p \in DOMAIN trie : Len(p) <= opts.order
  /\ \A l \in essential : <<l>> \in DOMAIN trie
  /\ \A i \in DOMAIN data : NgramsOf(Lattice(data[i]), opts.order) \subseteq DOMAIN trie

\* What the models are made from.
ScoringSays ==
  /\ opts \in Topologies /\ (data = <<>> \/ data \in Corpora)
  /\ essential \subseteq 1 .. Len(table) /\ StartLabel \in essential /\ EndLabel \in essential
  /\ TrieSays

\* The trie holds what the models are to know.
SymbolsInv ==
  /\ stage \in {"symbols", "all"} /\ opts.code = "ngram" => data = <<>>
  /\ stage = "all" => opts.code = "ngram"
  /\ stage = "noepshist" => opts.code = "noepshist"
  /\ stage \notin {"idle", "symbols", "failed"} => \A l \in 1 .. Len(table) : Numbered(opts.segs, table[l])
  /\ Scoring => ScoringSays

\* At first.
LEMMA InitSymbolsInv == AllInit => SymbolsInv
BY DEF AllInit, IdleCreation, CreatingInit, TopologyInit, CreateInit, CountInit, SymbolsInv, Scoring

\* The table is made: its regions are numbered.
LEMMA MakeSymbolsSymbolsInv == CountInv /\ SymbolsInv /\ MakeSymbols => SymbolsInv'
<1> SUFFICES ASSUME CountInv, SymbolsInv, MakeSymbols PROVE SymbolsInv'
  OBVIOUS
<1>1. /\ stage = "symbols" /\ opts' = opts /\ data' = data
      /\ stage' = IF opts.code = "ngram" THEN "all" ELSE "count"
  BY DEF MakeSymbols
<1>2. PICK basic \in BasicSymbols : table' = AddLatentAnnotations(basic, opts.conjs, opts.segs)
  BY DEF MakeSymbols
<1>3. Plain(basic)
  BY AllSymbolsTable, IdentityCharsTable DEF BasicSymbols
<1>4. opts.conjs \in Nat /\ opts.segs \in Nat
  BY <1>1, TopologiesAssumption DEF CountInv
<1>5. \A l \in 1 .. Len(table') : Numbered(opts.segs, table'[l])
  BY <1>2, <1>3, <1>4, TableNumbered
<1>6. ~ Scoring'
  BY <1>1 DEF Scoring
<1>7. stage' \in {"all", "count"} /\ (opts.code = "ngram" => data = <<>>)
      /\ (stage' = "all" => opts.code = "ngram")
  BY <1>1 DEF SymbolsInv
<1> QED BY <1>1, <1>5, <1>6, <1>7 DEF SymbolsInv

\* The unigrams of the essential symbols are added to the trie of the data.
LEMMA SelectSymbolsInv == CountInv /\ SymbolsInv /\ Select => SymbolsInv'
<1> SUFFICES ASSUME CountInv, SymbolsInv, Select PROVE SymbolsInv'
  OBVIOUS
<1> DEFINE n == Len(table)
           E == essential'
<1>1. /\ stage = "count" /\ queue = <<>> /\ pair = Len(data) /\ opts.code # "noepshist"
      /\ table' = table /\ opts' = opts /\ data' = data
      /\ \/ stage' = "failed"
         \/ stage' = "models" /\ E \in EssentialSets /\ trie' = RmWeight(AddUnobservedUnigrams(trie, E))
  BY DEF Select
<1>2. /\ opts.order \in Nat /\ n \in Nat /\ IsTrie(trie, n) /\ IsTable(table) /\ DOMAIN table = 1 .. n
      /\ opts.code # "ngram" /\ data \in Corpora /\ DOMAIN trie = Seen(Len(data)) /\ opts \in Topologies
  BY <1>1 DEF CountInv, CountSays, IsTable
<1>3. Numbered(opts.segs, table[1])' = Numbered(opts.segs, table[1])
      /\ \A l \in 1 .. n : Numbered(opts.segs, table[l])
  BY <1>1 DEF SymbolsInv
<1>4. ASSUME stage' = "models" PROVE ScoringSays'
  <2>1. E \in EssentialSets /\ trie' = RmWeight(AddUnobservedUnigrams(trie, E)) /\ Len(table) = n
    BY <1>1, <1>4
  <2> HIDE DEF n, E
  <2>2. E \subseteq 1 .. n
    BY <1>2, <2>1, EssentialInTable
  <2>3. StartLabel \in E /\ EndLabel \in E
    <3>1. IdentitySyms \subseteq E
      BY <1>2, <2>1, IdentitiesEssential
    <3> QED BY <1>2, <3>1, HooksAreIdentities
  <2>4. /\ IsTrie(AddUnobservedUnigrams(trie, E), n)
        /\ DOMAIN AddUnobservedUnigrams(trie, E) = DOMAIN trie \cup {<<l>> : l \in E}
    BY <1>2, <2>2, AddedTrie
  <2>5. DOMAIN trie' = Seen(Len(data)) \cup {<<l>> : l \in E}
    BY <1>2, <2>1, <2>4, RmWeightTrie
  <2>6. CountOrder = opts.order
    BY <1>1 DEF CountOrder
  <2>7. StartLabel' = StartLabel /\ EndLabel' = EndLabel /\ \A i : Lattice(data[i])' = Lattice(data[i])
    <3>1. \A i : Lattice(data[i])' = Lattice(data[i])
      BY <1>1, SeenKept
    <3> QED BY <1>1, <3>1 DEF StartLabel, EndLabel
  <2>8. Len(data) \in Nat /\ DOMAIN data = 1 .. Len(data)
    BY <1>2, CorpusLength
  <2>9. \A p \in DOMAIN trie' : Len(p) <= opts.order
    <3> SUFFICES ASSUME NEW p \in DOMAIN trie' PROVE Len(p) <= opts.order
      OBVIOUS
    <3>0. opts.order \in Nat /\ opts.order > 0
      BY <1>2, ModelsAssumption
    <3>1. CASE p = Root
      <4>1. Len(Root) = 0
        BY EmptyFacts DEF Root
      <4> QED BY <3>0, <3>1, <4>1
    <3>2. CASE \E l \in E : p = <<l>>
      <4>1. Len(p) = 1
        BY <3>2
      <4> QED BY <3>0, <4>1
    <3>3. ASSUME NEW i \in 1 .. Len(data), p \in NgramsOf(Lattice(data[i]), CountOrder) PROVE Len(p) <= opts.order
      <4>1. i \in DOMAIN data
        BY <2>8, <3>3
      <4>2. Lattice(data[i]) \in SUBSET Seq(1 .. n)
        BY <1>2, <2>1, <4>1, LatticeType
      <4>3. Len(p) \in 1 .. CountOrder
        BY <2>6, <3>0, <3>3, <4>2, NgramsSay
      <4> QED BY <2>6, <3>0, <4>3
    <3> QED BY <2>5, <3>1, <3>2, <3>3 DEF Seen
  <2>10. \A i \in DOMAIN data : NgramsOf(Lattice(data[i]), opts.order) \subseteq DOMAIN trie'
    BY <2>5, <2>6, <2>8 DEF Seen
  <2>11. \A l \in E : <<l>> \in DOMAIN trie'
    BY <2>5
  <2>12. TrieSays'
    <3>1. \A i \in DOMAIN data' : NgramsOf(Lattice(data[i]), opts.order)' = NgramsOf(Lattice(data[i]), opts.order)
      BY <1>1, <2>7 DEF NgramsOf
    <3>2. \A i \in DOMAIN data' : NgramsOf(Lattice(data[i]), opts.order)' \subseteq DOMAIN trie'
      BY <1>1, <2>10, <3>1
    <3> QED BY <1>1, <2>9, <2>11, <3>2 DEF TrieSays, E
  <2> QED BY <1>1, <1>2, <2>2, <2>3, <2>7, <2>12 DEF ScoringSays, E, n
<1> QED BY <1>1, <1>3, <1>4 DEF SymbolsInv, Scoring

\* The trie of all n-grams holds those of the essential symbols.
LEMMA CreateNgramTrieSymbolsInv == CountInv /\ SymbolsInv /\ CreateNgramTrie => SymbolsInv'
<1> SUFFICES ASSUME CountInv, SymbolsInv, CreateNgramTrie PROVE SymbolsInv'
  OBVIOUS
<1> DEFINE n == Len(table)
<1>1. /\ stage = "all" /\ opts' = opts /\ table' = table /\ data' = data /\ stage' = "models"
      /\ essential' = DOMAIN table
      /\ trie' = [p \in AllNgrams \cup {<<>>} |-> [labels |-> LabelsAfter(p, AllNgrams), weight |-> One, final |-> One]]
  BY DEF CreateNgramTrie
<1>2. opts.order \in Nat /\ n \in Nat /\ IsTable(table) /\ DOMAIN table = 1 .. n /\ opts \in Topologies
  BY <1>1 DEF CountInv, IsTable
<1>3. data = <<>> /\ opts.code = "ngram" /\ \A l \in 1 .. n : Numbered(opts.segs, table[l])
  BY <1>1 DEF SymbolsInv
<1>4. StartLabel \in 1 .. n /\ EndLabel \in 1 .. n /\ StartLabel' = StartLabel /\ EndLabel' = EndLabel
  <2>1. StartLabel \in 1 .. n /\ EndLabel \in 1 .. n
    BY <1>2, EndLabelIs
  <2> QED BY <1>1, <2>1 DEF StartLabel, EndLabel
<1>5. DOMAIN trie' = AllNgrams \cup {Root}
  BY <1>1 DEF Root
<1>6. opts.order > 0
  BY <1>2, ModelsAssumption
<1> HIDE DEF n
<1>7. TrieSays'
  <2>1. \A p \in DOMAIN trie' : Len(p) <= opts.order
    <3> SUFFICES ASSUME NEW p \in DOMAIN trie' PROVE Len(p) <= opts.order
      OBVIOUS
    <3>1. CASE p = Root
      <4>1. Len(Root) = 0
        BY EmptyFacts DEF Root
      <4> QED BY <1>2, <3>1, <4>1
    <3>2. CASE p \in AllNgrams
      <4>1. Len(p) \in 1 .. opts.order
        BY <1>2, <3>2, AllNgramsSay
      <4> QED BY <1>2, <4>1
    <3> QED BY <1>5, <3>1, <3>2
  <2>2. \A l \in 1 .. n : <<l>> \in DOMAIN trie'
    <3> SUFFICES ASSUME NEW l \in 1 .. n PROVE <<l>> \in AllNgrams
      BY <1>5
    <3> DEFINE p == <<l>>
    <3>1. p \in Seq(1 .. n) /\ Len(p) = 1 /\ Len(p) \in 1 .. opts.order
      BY <1>2, <1>6
    <3> HIDE DEF p
    <3>2. \A i \in 1 .. Len(p) : i = 1 /\ i = Len(p)
      BY <3>1
    <3>3. p \in AllNgrams
      BY <1>2, <3>1, <3>2, AllNgramsSay
    <3> QED BY <3>3 DEF p
  <2>3. DOMAIN data' = {}
    BY <1>1, <1>3, EmptyFacts
  <2>4. essential' = 1 .. n
    BY <1>1, <1>2
  <2> QED BY <1>1, <2>1, <2>2, <2>3, <2>4 DEF TrieSays
<1>8. ScoringSays'
  BY <1>1, <1>2, <1>3, <1>4, <1>7 DEF ScoringSays, n
<1> QED BY <1>1, <1>3, <1>8 DEF SymbolsInv, n

\* Nothing that is said changes.
SymbolsKept ==
  /\ opts' = opts /\ data' = data /\ table' = table
  /\ stage' \notin {"symbols", "all"} \/ stage' = stage
  /\ stage' = "noepshist" => stage = "noepshist" \/ opts.code = "noepshist"
  /\ stage' \notin {"idle", "symbols", "failed"} => stage \notin {"idle", "symbols", "failed"}
  /\ Scoring' => Scoring /\ trie' = trie /\ essential' = essential

\* Steps that keep these keep the invariant.
LEMMA SymbolsKeptInv == SymbolsInv /\ SymbolsKept => SymbolsInv'
<1> SUFFICES ASSUME SymbolsInv, SymbolsKept PROVE SymbolsInv'
  OBVIOUS
<1>1. opts' = opts /\ data' = data /\ table' = table
  BY DEF SymbolsKept
<1>2. Scoring' => ScoringSays'
  <2> SUFFICES ASSUME Scoring' PROVE ScoringSays'
    OBVIOUS
  <2>1. Scoring /\ trie' = trie /\ essential' = essential /\ ScoringSays
    BY DEF SymbolsKept, SymbolsInv
  <2>2. StartLabel' = StartLabel /\ EndLabel' = EndLabel
    BY <1>1 DEF StartLabel, EndLabel
  <2>3. \A i \in DOMAIN data : NgramsOf(Lattice(data[i]), opts.order)' = NgramsOf(Lattice(data[i]), opts.order)
    <3>1. \A i : Lattice(data[i])' = Lattice(data[i])
      BY <1>1, SeenKept
    <3> QED BY <1>1, <3>1 DEF NgramsOf
  <2>4. TrieSays'
    BY <1>1, <2>1, <2>3 DEF TrieSays, ScoringSays
  <2> QED BY <1>1, <2>1, <2>2, <2>4 DEF ScoringSays
<1>3. stage' \notin {"idle", "symbols", "failed"} => \A l \in 1 .. Len(table') : Numbered(opts.segs, table[l])'
  <2>1. \A l : Numbered(opts.segs, table[l])' = Numbered(opts.segs, table[l])
    BY <1>1
  <2> QED BY <1>1, <2>1 DEF SymbolsKept, SymbolsInv
<1>4. /\ stage' \in {"symbols", "all"} /\ opts'.code = "ngram" => data' = <<>>
      /\ stage' = "all" => opts'.code = "ngram"
      /\ stage' = "noepshist" => opts'.code = "noepshist"
  BY <1>1 DEF SymbolsKept, SymbolsInv
<1> QED BY <1>2, <1>3, <1>4 DEF SymbolsInv

\* The invariant is inductive.
LEMMA AllNextSymbolsInv == CountInv /\ SymbolsInv /\ [AllNext]_allVars => SymbolsInv'
<1> SUFFICES ASSUME CountInv, SymbolsInv, [AllNext]_allVars PROVE SymbolsInv'
  OBVIOUS
<1>1. CASE MakeSymbols
  BY <1>1, MakeSymbolsSymbolsInv
<1>2. CASE Select
  BY <1>2, SelectSymbolsInv
<1>3. CASE CreateNgramTrie
  BY <1>3, CreateNgramTrieSymbolsInv
<1>4. CASE DoubleFree \/ AddCounts \/ ProcessSubset
  <2>1. SymbolsKept
    BY <1>4 DEF DoubleFree, AddCounts, ProcessSubset, SymbolsKept, Scoring
  <2> QED BY <2>1, SymbolsKeptInv
<1>5. CASE StartAddBackoff \/ AddBackoffArc \/ AddPhiArc \/ Convert \/ NgramFsaInsertFeatures \/ CreateScoringFst
  <2>1. SymbolsKept
    BY <1>5 DEF StartAddBackoff, AddBackoffArc, AddPhiArc, Convert, NgramFsaInsertFeatures, CreateScoringFst,
                SymbolsKept, Scoring
  <2> QED BY <2>1, SymbolsKeptInv
<1>6. CASE NoepshistNext
  <2>1. CASE StartScoring
    <3>1. SymbolsKept
      BY <2>1 DEF StartScoring, SymbolsKept, Scoring
    <3> QED BY <3>1, SymbolsKeptInv
  <2>2. CASE AddArcs
    <3>1. SymbolsKept
      BY <2>2 DEF AddArcs, SymbolsKept, Scoring
    <3> QED BY <3>1, SymbolsKeptInv
  <2>3. CASE ComposeScoringFst
    <3>1. SymbolsKept
      BY <2>3 DEF ComposeScoringFst, SymbolsKept, Scoring, SymbolsInv
    <3> QED BY <3>1, SymbolsKeptInv
  <2> QED BY <1>6, <2>1, <2>2, <2>3 DEF NoepshistNext
<1>7. CASE HandOver
  <2>1. stage' = "idle"
    BY <1>7 DEF HandOver
  <2> QED BY <2>1 DEF SymbolsInv, Scoring
<1>8. CASE UNCHANGED topologyVars
  <2>1. SymbolsKept
    BY <1>8 DEF topologyVars, createVars, countVars, SymbolsKept, Scoring
  <2> QED BY <2>1, SymbolsKeptInv
<1> QED BY <1>1, <1>2, <1>3, <1>4, <1>5, <1>6, <1>7, <1>8
        DEF AllNext, allVars, Create, SessionStep, TopologyNext, CreateNext, CountNext

-----------------------------------------------------------------------------
(* The root never backs off.                                               *)

\* The root never backs off.
PhiInv == stage \in {"backoff", "convert"} => NoPhiAtRoot(next)

\* AddBackoff starts without phi arcs.
LEMMA StartPhiInv == CountInv /\ GramsInv /\ StartAddBackoff => PhiInv'
<1> SUFFICES ASSUME CountInv, GramsInv, StartAddBackoff PROVE NoPhiAtRoot(next')
  BY DEF PhiInv
<1> DEFINE G == Ngrams
           n == Size
           nx == [p \in G |-> [l \in ToSet(LabelsAfter(p, G)) |-> Append(p, l)]]
<1>1. stage = "models" /\ next' = nx
  BY DEF StartAddBackoff, Ngrams
<1>2. Modelling
  BY <1>1 DEF Modelling
<1>3. Grams(G, n, EndOfModel) /\ n \in Nat /\ G \in SUBSET Seq(1 .. n) /\ Root \in G
  BY <1>2, ModelIs
<1> HIDE DEF G, n
<1>4. nx[Root] = [l \in ToSet(LabelsAfter(Root, G)) |-> Append(Root, l)]
  BY <1>3
<1>5. ToSet(LabelsAfter(Root, G)) \subseteq 1 .. n
  <2>1. Root \in Seq(1 .. n)
    BY <1>3
  <2> QED BY <1>3, <2>1, LabelsAfterIs
<1>6. Phi \notin 1 .. n
  BY <1>3 DEF Phi
<1> HIDE DEF nx
<1> QED BY <1>1, <1>4, <1>5, <1>6 DEF NoPhiAtRoot

\* A bent arc is no phi arc.
LEMMA ArcPhiInv == CountInv /\ GramsInv /\ BackoffInv /\ PhiInv /\ AddBackoffArc => PhiInv'
<1> SUFFICES ASSUME CountInv, GramsInv, BackoffInv, PhiInv, AddBackoffArc PROVE NoPhiAtRoot(next')
  BY DEF PhiInv
<1> DEFINE c == Head(stack)
           l == Head(c.todo)
           nb == NextBackoff(c, l)
<1>1. stage = "backoff" /\ stack # <<>>
      /\ (next' = next \/ next' = [next EXCEPT ![c.at][l] = nb])
  BY DEF AddBackoffArc
<1>2. NoPhiAtRoot(next)
  BY <1>1 DEF PhiInv
<1>3. DOMAIN next = Ngrams /\ Root \in Ngrams
  <2>1. Modelling /\ Backing(Ngrams, Size, EndOfModel, next, ToSet(stack))
    BY <1>1 DEF BackoffInv, Modelling
  <2> QED BY <2>1, ModelIs DEF Backing, TrieArcs
<1> HIDE DEF c, l, nb
<1>4. CASE next' = [next EXCEPT ![c.at][l] = nb]
  <2>1. DOMAIN next'[Root] = DOMAIN next[Root]
    BY <1>3, <1>4
  <2> QED BY <1>2, <2>1 DEF NoPhiAtRoot
<1> QED BY <1>1, <1>2, <1>4 DEF NoPhiAtRoot

\* The call for the root adds none.
LEMMA EndPhiInv == CountInv /\ GramsInv /\ BackoffInv /\ PhiInv /\ AddPhiArc => PhiInv'
<1> SUFFICES ASSUME CountInv, GramsInv, BackoffInv, PhiInv, AddPhiArc PROVE NoPhiAtRoot(next')
  BY DEF PhiInv
<1> DEFINE c == Head(stack)
<1>1. stage = "backoff" /\ stack # <<>>
      /\ next' = IF c.at = c.backoff THEN next ELSE [next EXCEPT ![c.at] = WithPhi(@, c.backoff)]
  BY DEF AddPhiArc
<1>2. NoPhiAtRoot(next)
  BY <1>1 DEF PhiInv
<1>3. Modelling /\ IsCalls(Ngrams, Size, stack) /\ Backing(Ngrams, Size, EndOfModel, next, ToSet(stack))
  BY <1>1 DEF BackoffInv, Modelling
<1>4. Ngrams \in SUBSET Seq(1 .. Size) /\ Size \in Nat /\ Root \in Ngrams
  BY <1>3, ModelIs
<1>5. c \in ToSet(stack)
  BY <1>1, <1>3, <1>4, InnermostCall
<1> HIDE DEF c
<1>6. BacksTo(Ngrams, Size, c.at, c.backoff) /\ DOMAIN next = Ngrams
  BY <1>3, <1>5 DEF Backing, CallRight, TrieArcs
<1>7. CASE c.at = c.backoff
  BY <1>1, <1>2, <1>7 DEF NoPhiAtRoot
<1>8. CASE c.at # c.backoff
  <2>1. c.at # Root
    BY <1>6, <1>8 DEF BacksTo
  <2>2. next'[Root] = next[Root]
    BY <1>1, <1>4, <1>6, <1>8, <2>1
  <2> QED BY <1>2, <2>2 DEF NoPhiAtRoot
<1> QED BY <1>7, <1>8

\* The invariant is inductive.
LEMMA AllNextPhiInv == CountInv /\ GramsInv /\ BackoffInv /\ PhiInv /\ [AllNext]_allVars => PhiInv'
<1> SUFFICES ASSUME CountInv, GramsInv, BackoffInv, PhiInv, [AllNext]_allVars PROVE PhiInv'
  OBVIOUS
<1>1. CASE StartAddBackoff
  BY <1>1, StartPhiInv
<1>2. CASE AddBackoffArc
  BY <1>2, ArcPhiInv
<1>3. CASE AddPhiArc
  BY <1>3, EndPhiInv
<1>4. CASE stage' \notin {"backoff", "convert"}
  BY <1>4 DEF PhiInv
<1>5. CASE DoubleFree \/ MakeSymbols \/ AddCounts \/ ProcessSubset \/ Select \/ CreateNgramTrie
  <2>1. stage' \notin {"backoff", "convert"}
    BY <1>5 DEF DoubleFree, MakeSymbols, AddCounts, ProcessSubset, Select, CreateNgramTrie
  <2> QED BY <1>4, <2>1
<1>6. CASE Convert \/ NgramFsaInsertFeatures \/ CreateScoringFst \/ NoepshistNext \/ HandOver
  <2>1. stage' \notin {"backoff", "convert"}
    BY <1>6 DEF Convert, NgramFsaInsertFeatures, CreateScoringFst, NoepshistNext, StartScoring, AddArcs,
                ComposeScoringFst, HandOver
  <2> QED BY <1>4, <2>1
<1>7. CASE UNCHANGED topologyVars
  <2>1. next' = next /\ stage' = stage
    BY <1>7 DEF topologyVars, createVars, countVars, modelVars
  <2> QED BY <2>1 DEF PhiInv
<1> QED BY <1>1, <1>2, <1>3, <1>5, <1>6, <1>7
        DEF AllNext, allVars, Create, SessionStep, TopologyNext, CreateNext, CountNext

\* At first.
LEMMA InitPhiInv == AllInit => PhiInv
BY DEF AllInit, IdleCreation, CreatingInit, TopologyInit, CreateInit, CountInit, PhiInv

-----------------------------------------------------------------------------
(* What Convert does.                                                      *)

\* A symbol that is in the trie is in the trie of every model.
LEMMA KnownLabels ==
  ASSUME IsTable(table), opts.order \in Nat, opts.order > 0, Grams(DOMAIN trie, Len(table), EndLabel), NEW k,
         NEW l \in 1 .. Len(table), <<l>> \in DOMAIN trie
  PROVE  <<Labelling(k)[l]>> \in NgramsOfModel(k)
<1> DEFINE label == Labelling(k)
           lattice == {[i \in DOMAIN p |-> label[p[i]]] : p \in DOMAIN trie}
           m == Len(SymsOf(k))
<1>1. /\ DOMAIN label = 1 .. Len(table) /\ m \in Nat
      /\ \A j \in 1 .. Len(table) : label[j] \in 1 .. m
      /\ Len(table) \in Nat
  BY LabellingIs DEF IsTable
<1>2. NgramsOfModel(k) = IF IsMain(k) THEN DOMAIN trie ELSE {Root} \cup NgramsOf(lattice, opts.order)
  BY DEF NgramsOfModel
<1>3. CASE IsMain(k)
  BY <1>2, <1>3, MainLabels
<1>4. CASE ~ IsMain(k)
  <2> HIDE DEF label, m
  <2>1. lattice \in SUBSET Seq(1 .. m)
    <3> SUFFICES ASSUME NEW p \in DOMAIN trie PROVE [i \in DOMAIN p |-> label[p[i]]] \in Seq(1 .. m)
      OBVIOUS
    <3>1. p \in Seq(1 .. Len(table))
      BY DEF Grams
    <3>2. InLabels(label, p) \in Seq(1 .. m)
      BY <1>1, <3>1, InLabelsIs
    <3> QED BY <3>2 DEF InLabels
  <2>2. [i \in DOMAIN <<l>> |-> label[<<l>>[i]]] \in lattice
    OBVIOUS
  <2>3. [i \in DOMAIN <<l>> |-> label[<<l>>[i]]] = <<label[l]>>
    OBVIOUS
  <2>4. <<label[l]>> \in lattice
    BY <2>2, <2>3
  <2> DEFINE g == <<label[l]>>
  <2>5. g \in Seq(1 .. m) /\ Len(g) = 1 /\ Len(g) \in 1 .. opts.order
    BY <1>1
  <2> HIDE DEF lattice, g
  <2>6. g \in lattice
    BY <2>4 DEF g
  <2>7. StandsAt(g, g, 1)
    BY <2>5 DEF StandsAt
  <2>8. g \in NgramsOf(lattice, opts.order)
    BY <1>1, <2>1, <2>5, <2>6, <2>7, NgramsSay
  <2> QED BY <1>2, <1>4, <2>8 DEF g, label
<1> QED BY <1>3, <1>4

\* A model has finitely many n-grams.
LEMMA ModelFinite ==
  ASSUME IsTable(table), opts.order \in Nat, Grams(DOMAIN trie, Len(table), EndLabel), NEW k,
         \A p \in DOMAIN trie : Len(p) <= opts.order
  PROVE  IsFiniteSet(NgramsOfModel(k))
<1> DEFINE G == NgramsOfModel(k)
           m == Len(SymsOf(k))
           label == Labelling(k)
           lattice == {[i \in DOMAIN p |-> label[p[i]]] : p \in DOMAIN trie}
<1>1. Grams(G, m, label[EndLabel]) /\ m \in Nat
  BY ModelGrams, LabellingIs
<1>2. G \subseteq Seq(1 .. m)
  BY <1>1 DEF Grams
<1>3. G = IF IsMain(k) THEN DOMAIN trie ELSE {Root} \cup NgramsOf(lattice, opts.order)
  BY DEF NgramsOfModel
<1>4. \A p \in NgramsOf(lattice, opts.order) : Len(p) <= opts.order
  <2> HIDE DEF lattice
  <2>1. \A p \in NgramsOf(lattice, opts.order) : Len(p) \in 1 .. opts.order
    BY DEF NgramsOf
  <2> QED BY <2>1
<1>5. Len(Root) = 0
  BY EmptyFacts DEF Root
<1> HIDE DEF G, m, lattice
<1>6. \A p \in G : Len(p) <= opts.order
  BY <1>3, <1>4, <1>5
<1>7. G \subseteq Short(m, opts.order)
  BY <1>2, <1>6 DEF Short
<1>8. IsFiniteSet(Short(m, opts.order))
  BY <1>1, ShortFinite
<1>9. IsFiniteSet(G)
  BY <1>7, <1>8, FS_Subset
<1> QED BY <1>9 DEF G

\* The parts of Convert.
Begun(nx, s) ==
  IF s \notin DOMAIN nx[Root] THEN nx
  ELSE [p \in DOMAIN nx \cup {NewStart} |->
          CASE p = NewStart -> Restrict(nx[Root], {s})
            [] p = Root -> Restrict(nx[Root], DOMAIN nx[Root] \ {s})
            [] p \notin {NewStart, Root} -> nx[p]]
WithEnd(b, e) ==
  [p \in DOMAIN b \cup {FinalState} |->
     [l \in IF p = FinalState THEN {} ELSE DOMAIN b[p] |-> IF l = e THEN FinalState ELSE b[p][l]]]
StartOfModel == Labelling(Current)[StartLabel]

\* Convert, by its parts.
LEMMA ConvertIs ==
  ASSUME Convert
  PROVE  next' = Connected(WithEnd(Begun(next, StartOfModel), EndOfModel),
                           StartOf(WithEnd(Begun(next, StartOfModel), EndOfModel)), {FinalState})
BY DEF Convert, WithEnd, Begun, StartOfModel, EndOfModel

\* S|S moves from the root to the new start.
LEMMA BegunIs ==
  ASSUME NEW nx, NEW s, s \in DOMAIN nx[Root], Root \in DOMAIN nx, NewStart \notin DOMAIN nx
  PROVE  /\ DOMAIN Begun(nx, s) = DOMAIN nx \cup {NewStart}
         /\ DOMAIN Begun(nx, s)[NewStart] = {s} /\ Begun(nx, s)[NewStart][s] = nx[Root][s]
         /\ \A p \in DOMAIN nx : /\ DOMAIN Begun(nx, s)[p] = DOMAIN nx[p] \ (IF p = Root THEN {s} ELSE {})
                                 /\ \A l \in DOMAIN Begun(nx, s)[p] : Begun(nx, s)[p][l] = nx[p][l]
<1> DEFINE at(p) == CASE p = NewStart -> Restrict(nx[Root], {s})
                      [] p = Root -> Restrict(nx[Root], DOMAIN nx[Root] \ {s})
                      [] p \notin {NewStart, Root} -> nx[p]
           b == [p \in DOMAIN nx \cup {NewStart} |-> at(p)]
<1>1. Begun(nx, s) = b
  BY DEF Begun
<1>2. NewStart # Root
  OBVIOUS
<1>3. at(NewStart) = Restrict(nx[Root], {s})
  OBVIOUS
<1>4. at(Root) = Restrict(nx[Root], DOMAIN nx[Root] \ {s})
  BY <1>2
<1>5. ASSUME NEW p \in DOMAIN nx, p # Root
      PROVE  at(p) = nx[p]
  <2>1. p # NewStart
    OBVIOUS
  <2> HIDE DEF NewStart, Root
  <2> QED BY <1>5, <2>1, SMT
<1> HIDE DEF at
<1>6. /\ DOMAIN b = DOMAIN nx \cup {NewStart} /\ b[NewStart] = at(NewStart) /\ b[Root] = at(Root)
      /\ \A p \in DOMAIN nx : b[p] = at(p)
  OBVIOUS
<1> HIDE DEF b
<1>7. DOMAIN b[NewStart] = {s} /\ b[NewStart][s] = nx[Root][s]
  BY <1>3, <1>6 DEF Restrict
<1>8. ASSUME NEW p \in DOMAIN nx
      PROVE  /\ DOMAIN b[p] = DOMAIN nx[p] \ (IF p = Root THEN {s} ELSE {})
             /\ \A l \in DOMAIN b[p] : b[p][l] = nx[p][l]
  <2>1. CASE p = Root
    BY <1>4, <1>6, <2>1 DEF Restrict
  <2>2. CASE p # Root
    BY <1>5, <1>6, <2>2
  <2> QED BY <2>1, <2>2
<1> QED BY <1>1, <1>6, <1>7, <1>8

\* And E|E leads to the final state: what the lemmas on the ended machine need.
LEMMA EndedIs ==
  ASSUME NEW n \in Nat, NEW G, NEW s \in 1 .. n, NEW e \in 1 .. n, s # e, Grams(G, n, e), <<s>> \in G,
         NEW nx, Backing(G, n, e, nx, {}), NoPhiAtRoot(nx)
  PROVE  Ended(G, s, e, nx, WithEnd(Begun(nx, s), e))
<1> DEFINE b == Begun(nx, s)
           d == WithEnd(b, e)
<1>1. DOMAIN nx = G /\ Root \in G /\ G \subseteq Seq(1 .. n)
  BY DEF Backing, TrieArcs, Grams
<1>2. NewStart \notin G /\ FinalState \notin G /\ NewStart # FinalState
  BY <1>1, SpecialStates
<1>3. s \in DOMAIN nx[Root]
  <2>1. Append(Root, s) = <<s>>
    BY DEF Root
  <2>2. s \in Kids(G, n, Root) /\ Root \in Inner(G, n)
    BY <1>1, <2>1 DEF Kids, Inner, Leaf
  <2> QED BY <2>2, DoneArcs, <1>1
<1>4. /\ DOMAIN b = G \cup {NewStart}
      /\ DOMAIN b[NewStart] = {s} /\ b[NewStart][s] = nx[Root][s]
      /\ \A p \in G : /\ DOMAIN b[p] = DOMAIN nx[p] \ (IF p = Root THEN {s} ELSE {})
                      /\ \A l \in DOMAIN b[p] : b[p][l] = nx[p][l]
  <2>1. Root \in DOMAIN nx /\ NewStart \notin DOMAIN nx
    BY <1>1, <1>2
  <2>2. /\ DOMAIN b = DOMAIN nx \cup {NewStart}
        /\ DOMAIN b[NewStart] = {s} /\ b[NewStart][s] = nx[Root][s]
        /\ \A p \in DOMAIN nx : /\ DOMAIN b[p] = DOMAIN nx[p] \ (IF p = Root THEN {s} ELSE {})
                               /\ \A l \in DOMAIN b[p] : b[p][l] = nx[p][l]
    BY <1>3, <2>1, BegunIs
  <2> HIDE DEF b
  <2> QED BY <1>1, <2>2
<1> HIDE DEF b
<1>5. /\ DOMAIN d = DOMAIN b \cup {FinalState}
      /\ \A p \in DOMAIN d : d[p] = [l \in IF p = FinalState THEN {} ELSE DOMAIN b[p] |->
                                       IF l = e THEN FinalState ELSE b[p][l]]
  BY DEF WithEnd
<1> HIDE DEF d
<1>6. DOMAIN d[FinalState] = {}
  BY <1>5
<1>7. \A p \in G \cup {NewStart} : /\ DOMAIN d[p] = DOMAIN b[p]
                                   /\ \A l \in DOMAIN d[p] : d[p][l] = IF l = e THEN FinalState ELSE b[p][l]
  <2> SUFFICES ASSUME NEW p \in G \cup {NewStart}
               PROVE  /\ DOMAIN d[p] = DOMAIN b[p]
                      /\ \A l \in DOMAIN d[p] : d[p][l] = IF l = e THEN FinalState ELSE b[p][l]
    OBVIOUS
  <2>1. p \in DOMAIN d /\ p # FinalState
    BY <1>2, <1>4, <1>5
  <2>2. d[p] = [l \in DOMAIN b[p] |-> IF l = e THEN FinalState ELSE b[p][l]]
    BY <1>5, <2>1
  <2> QED BY <2>2
<1>8. DOMAIN d = G \cup {NewStart, FinalState}
  BY <1>4, <1>5
<1>9. DOMAIN d[NewStart] = {s} /\ d[NewStart][s] = nx[Root][s]
  BY <1>4, <1>7
<1> QED BY <1>4, <1>6, <1>7, <1>8, <1>9 DEF Ended, d, b

-----------------------------------------------------------------------------
(* The machine of the current model.                                       *)

\* The strings of labels that the machine is to score: well-formed, and of
\* essential symbols or seen in the data.
Scored(w) ==
  /\ w \in Seq(1 .. Len(table)) /\ Bounded(w)
  /\ WfAccepts(WfLimit, opts.conjs, opts.segs, Spell(w))
  /\ (\A i \in 1 .. Len(w) : w[i] \in essential) \/ (\E i \in DOMAIN data : w \in Lattice(data[i]))

\* Every model made so far reads what is to be scored.
ModelsRead == \A k \in DOMAIN models : \A w : Scored(w) => CanRead(models[k], InLabels(Labelling(k), w))

\* The models made so far score what they should.
ModelsInv ==
  /\ stage \in {"symbols", "count", "all"} => models = <<>>
  /\ Scoring => IsSequence(models) /\ ModelsRead
  /\ Scoring /\ Modelling => Len(models) <= Len(opts.backoff)

\* The machine of the current model, before its features are put in.
FeaturesInv ==
  stage = "features" /\ Scoring =>
    /\ Scores(next, Ngrams, Size, StartOfModel, EndOfModel)
    /\ BoundedBy(next, StartOfModel) /\ Descends(next)

\* While options, data, table and essential symbols stay, so does what is to be scored.
LEMMA ScoredKept ==
  ASSUME opts' = opts, data' = data, table' = table
  PROVE  /\ \A m : SymsOf(m)' = SymsOf(m) /\ Labelling(m)' = Labelling(m)
         /\ StartLabel' = StartLabel /\ EndLabel' = EndLabel
         /\ essential' = essential => \A w : Scored(w)' = Scored(w)
<1>1. \A m : SymsOf(m)' = SymsOf(m)
  BY SMT DEF SymsOf, SymOf, IsMain, BackoffSym, FoldLeft, MapThenFoldSet
<1>2. \A m, s : SymOf(m, s)' = SymOf(m, s)
  BY DEF SymOf, IsMain, BackoffSym
<1>3. \A m : Labelling(m)' = Labelling(m)
  BY <1>1, <1>2 DEF Labelling
<1>4. StartLabel' = StartLabel /\ EndLabel' = EndLabel
  BY DEF StartLabel, EndLabel
<1>5. \A i : Lattice(data[i])' = Lattice(data[i])
  BY SeenKept
<1>6. \A w : Bounded(w)' = Bounded(w) /\ Spell(w)' = Spell(w)
  BY DEF Bounded, Spell
<1>7. WfLimit' = WfLimit
  BY DEF WfLimit
<1>8. \A w : WfAccepts(WfLimit, opts.conjs, opts.segs, Spell(w))' = WfAccepts(WfLimit, opts.conjs, opts.segs, Spell(w))
  BY <1>6, <1>7
<1>9. ASSUME essential' = essential, NEW w PROVE Scored(w)' = Scored(w)
  BY <1>5, <1>6, <1>8, <1>9 DEF Scored
<1> QED BY <1>1, <1>3, <1>4, <1>9

\* The current model is the main one or a back-off model that has a name.
LEMMA CurrentIs ==
  ASSUME SymbolsInv, ModelsInv, Scoring, Modelling
  PROVE  /\ IsMain(Current) \/ IsBackoff(opts.backoff[Current])
         /\ opts \in Topologies /\ opts.order \in Nat /\ opts.order > 0
         /\ Len(models) \in Nat /\ Current \in Nat
<1>1. opts \in Topologies /\ IsSequence(models) /\ Len(models) <= Len(opts.backoff)
  BY DEF SymbolsInv, ScoringSays, ModelsInv
<1>2. opts.backoff \in Seq({"id", "tlm", "vc"}) /\ opts.order \in Nat /\ opts.order > 0
  BY <1>1, ModelsAssumption, TopologiesAssumption
<1>3. Len(models) \in Nat /\ Len(opts.backoff) \in Nat
  BY <1>1, <1>2 DEF IsSequence
<1>4. Current \in 1 .. Len(opts.backoff) + 1
  BY <1>1, <1>3 DEF Current
<1>5. Current # Len(opts.backoff) + 1 => opts.backoff[Current] \in {"id", "tlm", "vc"}
  BY <1>2, <1>3, <1>4
<1> QED BY <1>1, <1>2, <1>3, <1>4, <1>5 DEF IsMain, IsBackoff

\* Convert makes a machine that scores.
LEMMA ConvertFeaturesInv ==
  CountInv /\ GramsInv /\ BackoffInv /\ PhiInv /\ SymbolsInv /\ ModelsInv /\ Convert => FeaturesInv'
<1> SUFFICES ASSUME CountInv, GramsInv, BackoffInv, PhiInv, SymbolsInv, ModelsInv, Convert, Scoring'
             PROVE  /\ Scores(next', Ngrams', Size', StartOfModel', EndOfModel')
                    /\ BoundedBy(next', StartOfModel') /\ Descends(next')
  BY DEF FeaturesInv
<1> DEFINE G == Ngrams
           n == Size
           s == StartOfModel
           e == EndOfModel
           d == WithEnd(Begun(next, s), e)
<1>1. /\ stage = "convert" /\ opts' = opts /\ table' = table /\ models' = models /\ trie' = trie /\ data' = data
  BY DEF Convert
<1>2. Scoring /\ Modelling
  BY <1>1 DEF Scoring, Modelling
<1>3. IsMain(Current) \/ IsBackoff(opts.backoff[Current])
  BY <1>2, CurrentIs
<1>4. opts.order \in Nat /\ opts.order > 0
  BY <1>2, CurrentIs
<1>5. Grams(G, n, e) /\ n \in Nat /\ IsTable(table) /\ G \in SUBSET Seq(1 .. n)
  BY <1>2, ModelIs
<1>6. Ngrams' = G /\ Size' = n /\ EndOfModel' = e
  BY <1>1, ModelKept DEF Ngrams, Size, EndOfModel
<1>7. StartOfModel' = s
  <2>1. Labelling(Current)' = Labelling(Current)
    BY <1>1, ModelKept
  <2>2. StartLabel' = StartLabel
    BY <1>1 DEF StartLabel
  <2> QED BY <2>1, <2>2 DEF StartOfModel
<1>8. Backing(G, n, e, next, {}) /\ NoPhiAtRoot(next)
  BY <1>1 DEF BackoffInv, PhiInv
<1>9. StartLabel \in 1 .. Len(table) /\ EndLabel \in 1 .. Len(table) /\ StartLabel # EndLabel
  BY <1>5, EndLabelIs
<1>10. s \in 1 .. n /\ e \in 1 .. n
  BY <1>5, <1>9, LabellingIs DEF StartOfModel, EndOfModel, Size
<1>11. s # e
  <2>1. Labelling(Current)[EndLabel] = Labelling(Current)[StartLabel] => EndLabel = StartLabel
    BY <1>3, <1>5, <1>9, HookLabels
  <2> QED BY <1>9, <2>1 DEF StartOfModel, EndOfModel
<1>12. TrieSays /\ StartLabel \in essential /\ EndLabel \in essential
  BY <1>2 DEF SymbolsInv, ScoringSays
<1>13. <<StartLabel>> \in DOMAIN trie /\ <<EndLabel>> \in DOMAIN trie
  BY <1>12 DEF TrieSays
<1>14. Grams(DOMAIN trie, Len(table), EndLabel)
  BY <1>2 DEF GramsInv
<1>15. <<s>> \in G /\ <<e>> \in G
  BY <1>4, <1>5, <1>9, <1>13, <1>14, KnownLabels DEF StartOfModel, EndOfModel, Ngrams
<1>16. IsFiniteSet(G)
  BY <1>4, <1>5, <1>12, <1>14, ModelFinite DEF TrieSays, Ngrams
<1>17. next' = Connected(d, StartOf(d), {FinalState})
  BY ConvertIs DEF EndOfModel
<1> HIDE DEF G, n, s, e
<1>18. Ended(G, s, e, next, d)
  BY <1>5, <1>8, <1>10, <1>11, <1>15, EndedIs
<1> HIDE DEF d
<1>19. StartOf(d) = NewStart
  BY <1>18 DEF Ended, StartOf
<1>20. Scores(Connected(d, NewStart, {FinalState}), G, n, s, e)
  BY <1>5, <1>8, <1>10, <1>11, <1>15, <1>16, <1>18, EndedScores
<1>21. Descends(Connected(d, NewStart, {FinalState}))
  BY <1>5, <1>8, <1>10, <1>11, <1>15, <1>16, <1>18, EndedDescends
<1>22. BoundedBy(Connected(d, NewStart, {FinalState}), s)
  BY <1>5, <1>8, <1>10, <1>11, <1>15, <1>16, <1>18, EndedBounded
<1> QED BY <1>6, <1>7, <1>17, <1>19, <1>20, <1>21, <1>22

\* Until its features are put in, the machine stays.
LEMMA AllNextFeaturesInv ==
  CountInv /\ GramsInv /\ BackoffInv /\ PhiInv /\ SymbolsInv /\ ModelsInv /\ FeaturesInv /\ [AllNext]_allVars
    => FeaturesInv'
<1> SUFFICES ASSUME CountInv, GramsInv, BackoffInv, PhiInv, SymbolsInv, ModelsInv, FeaturesInv, [AllNext]_allVars
             PROVE  FeaturesInv'
  OBVIOUS
<1>1. CASE Convert
  BY <1>1, ConvertFeaturesInv
<1>2. CASE stage' # "features"
  BY <1>2 DEF FeaturesInv
<1>3. CASE DoubleFree \/ MakeSymbols \/ AddCounts \/ ProcessSubset \/ Select \/ CreateNgramTrie
  <2>1. stage' # "features"
    BY <1>3 DEF DoubleFree, MakeSymbols, AddCounts, ProcessSubset, Select, CreateNgramTrie
  <2> QED BY <1>2, <2>1
<1>4. CASE StartAddBackoff \/ AddBackoffArc \/ AddPhiArc
  <2>1. stage' # "features"
    BY <1>4 DEF StartAddBackoff, AddBackoffArc, AddPhiArc
  <2> QED BY <1>2, <2>1
<1>5. CASE NgramFsaInsertFeatures \/ CreateScoringFst \/ NoepshistNext \/ HandOver
  <2>1. stage' # "features"
    BY <1>5 DEF NgramFsaInsertFeatures, CreateScoringFst, NoepshistNext, StartScoring, AddArcs,
                ComposeScoringFst, HandOver
  <2> QED BY <1>2, <2>1
<1>6. CASE UNCHANGED topologyVars
  <2>1. /\ opts' = opts /\ table' = table /\ models' = models /\ trie' = trie
        /\ next' = next /\ stage' = stage
    BY <1>6 DEF topologyVars, createVars, countVars, modelVars
  <2>2. Ngrams' = Ngrams /\ Size' = Size /\ EndOfModel' = EndOfModel
    BY <2>1, ModelKept DEF Ngrams, Size, EndOfModel
  <2>3. Labelling(Current)' = Labelling(Current)
    BY <2>1, ModelKept
  <2>4. StartLabel' = StartLabel
    BY <2>1 DEF StartLabel
  <2>5. StartOfModel' = StartOfModel
    BY <2>3, <2>4 DEF StartOfModel
  <2>6. Scoring' = Scoring
    BY <2>1 DEF Scoring
  <2> QED BY <2>1, <2>2, <2>5, <2>6 DEF FeaturesInv
<1> QED BY <1>1, <1>3, <1>4, <1>5, <1>6
        DEF AllNext, allVars, Create, SessionStep, TopologyNext, CreateNext, CountNext

\* At first.
LEMMA InitFeaturesInv == AllInit => FeaturesInv
BY DEF AllInit, IdleCreation, CreatingInit, TopologyInit, CreateInit, CountInit, FeaturesInv

-----------------------------------------------------------------------------
(* The current model reads what is to be scored.                           *)

\* The symbols of a string that is to be scored are unigrams of the trie; if the
\* data have it, all its n-grams are in the trie.
LEMMA ScoredKnown ==
  ASSUME CountInv, IsTable(table), SymbolsInv, Scoring, opts.order \in Nat, opts.order > 0, NEW w, Scored(w)
  PROVE  /\ \A i \in 1 .. Len(w) : <<w[i]>> \in DOMAIN trie
         /\ (\E i \in DOMAIN data : w \in Lattice(data[i])) => Knows(DOMAIN trie, Len(table), opts.order, w)
<1> DEFINE n == Len(table)
<1>1. w \in Seq(1 .. n) /\ Len(w) \in Nat
  BY DEF Scored
<1>2. ScoringSays
  BY DEF SymbolsInv
<1>3. ASSUME NEW i \in DOMAIN data, w \in Lattice(data[i])
      PROVE  /\ Knows(DOMAIN trie, n, opts.order, w)
             /\ \A j \in 1 .. Len(w) : <<w[j]>> \in DOMAIN trie
  <2>1. data \in Corpora
    BY <1>2, <1>3, EmptyFacts DEF ScoringSays
  <2>2. Lattice(data[i]) \in SUBSET Seq(1 .. n)
    BY <2>1, LatticeType
  <2>3. NgramsOf(Lattice(data[i]), opts.order) \subseteq DOMAIN trie
    BY <1>2 DEF ScoringSays, TrieSays
  <2>4. \A g \in Seq(1 .. n), j \in Nat : StandsAt(g, w, j) /\ Len(g) \in 1 .. opts.order => g \in DOMAIN trie
    <3> SUFFICES ASSUME NEW g \in Seq(1 .. n), NEW j \in Nat, StandsAt(g, w, j), Len(g) \in 1 .. opts.order
                 PROVE  g \in DOMAIN trie
      OBVIOUS
    <3>1. g \in NgramsOf(Lattice(data[i]), opts.order)
      BY <1>3, <2>2, NgramsSay
    <3> QED BY <2>3, <3>1
  <2>5. ASSUME NEW j \in 1 .. Len(w) PROVE <<w[j]>> \in DOMAIN trie
    <3>1. <<w[j]>> \in Seq(1 .. n) /\ Len(<<w[j]>>) = 1 /\ 1 \in 1 .. opts.order
      BY <1>1
    <3>2. StandsAt(<<w[j]>>, w, j)
      BY <1>1 DEF StandsAt
    <3>3. j \in Nat
      OBVIOUS
    <3> QED BY <2>4, <3>1, <3>2, <3>3
  <2> QED BY <2>4, <2>5 DEF Knows
<1>4. ASSUME \A i \in 1 .. Len(w) : w[i] \in essential
      PROVE  \A i \in 1 .. Len(w) : <<w[i]>> \in DOMAIN trie
  BY <1>2, <1>4 DEF ScoringSays, TrieSays
<1> QED BY <1>3, <1>4 DEF Scored

\* A string in the labels of a model.
LEMMA LabelsRead ==
  ASSUME IsTable(table), NEW k, NEW w \in Seq(1 .. Len(table))
  PROVE  /\ Len(InLabels(Labelling(k), w)) = Len(w)
         /\ \A i \in 1 .. Len(w) : InLabels(Labelling(k), w)[i] = Labelling(k)[w[i]]
<1> DEFINE label == Labelling(k)
           m == Len(SymsOf(k))
           n == Len(table)
<1>1. DOMAIN label = 1 .. n /\ m \in Nat /\ n \in Nat /\ \A l \in 1 .. n : label[l] \in 1 .. m
  BY LabellingIs DEF IsTable
<1> HIDE DEF label, m, n
<1>2. w \in Seq(1 .. n)
  BY DEF n
<1>3. DOMAIN w = 1 .. Len(w) /\ Len(w) \in Nat
  BY <1>2
<1>4. InLabels(label, w) = [i \in 1 .. Len(w) |-> label[w[i]]]
  BY <1>3 DEF InLabels
<1>5. Len(InLabels(label, w)) = Len(w)
  BY <1>3, <1>4
<1>6. \A i \in 1 .. Len(w) : InLabels(label, w)[i] = label[w[i]]
  BY <1>4
<1> QED BY <1>5, <1>6 DEF label

\* The labels of a string of labels.
LEMMA LabelIn == ASSUME NEW n \in Nat, NEW x \in Seq(1 .. n) PROVE \A i \in 1 .. Len(x) : x[i] \in 1 .. n
OBVIOUS

\* The machine of the current model has a path for what is to be scored.
LEMMA FoundScored ==
  ASSUME CountInv, GramsInv, SymbolsInv, ModelsInv, FeaturesInv, stage = "features", Scoring,
         NEW w, Scored(w)
  PROVE  \E g : Found(next, InLabels(Labelling(Current), w), ByPhi(Current), g)
<1> DEFINE G == Ngrams
           n == Size
           s == StartOfModel
           e == EndOfModel
           x == InLabels(Labelling(Current), w)
           byPhi == ByPhi(Current)
<1>1. Modelling
  BY DEF Modelling
<1>2. IsMain(Current) \/ IsBackoff(opts.backoff[Current])
  BY <1>1, CurrentIs
<1>3. opts.order \in Nat /\ opts.order > 0
  BY <1>1, CurrentIs
<1>4. Grams(G, n, e) /\ n \in Nat /\ IsTable(table) /\ G \in SUBSET Seq(1 .. n)
  BY <1>1, ModelIs
<1>5. IsMain(Current) => G = DOMAIN trie /\ n = Len(table)
  BY <1>1, ModelIs
<1>6. w \in Seq(1 .. Len(table)) /\ Bounded(w) /\ Len(w) \in Nat
  BY DEF Scored
<1>7. StartLabel \in 1 .. Len(table) /\ EndLabel \in 1 .. Len(table)
  BY <1>4, EndLabelIs
<1>8. s \in 1 .. n /\ e \in 1 .. n
  BY <1>4, <1>7, LabellingIs DEF StartOfModel, EndOfModel, Size
<1>9. s # e /\ Hooks(x, s, e) /\ x \in Seq(1 .. n)
  BY <1>2, <1>4, <1>6, HooksInLabels DEF StartOfModel, EndOfModel, Size
<1>10. Scores(next, G, n, s, e)
  BY DEF FeaturesInv
<1>11. /\ \A i \in 1 .. Len(w) : <<w[i]>> \in DOMAIN trie
       /\ (\E i \in DOMAIN data : w \in Lattice(data[i])) => Knows(DOMAIN trie, Len(table), opts.order, w)
  BY <1>3, <1>4, ScoredKnown
<1>12. Grams(DOMAIN trie, Len(table), EndLabel)
  BY <1>1 DEF GramsInv
<1>13. Len(x) = Len(w) /\ \A i \in 1 .. Len(w) : x[i] = Labelling(Current)[w[i]]
  BY <1>4, <1>6, LabelsRead
<1>14. CASE IsMain(Current) /\ \E i \in DOMAIN data : w \in Lattice(data[i])
  <2>1. x = w
    BY <1>4, <1>6, <1>14, MainLabels
  <2>2. Knows(G, n, opts.order, x)
    BY <1>5, <1>11, <1>14, <2>1
  <2>3. \A g \in G : Len(g) <= opts.order
    BY <1>5, <1>14 DEF SymbolsInv, ScoringSays, TrieSays
  <2> HIDE DEF G, n, s, e, x, byPhi
  <2>4. \E g : Found(next, x, byPhi, g)
    BY <1>3, <1>4, <1>8, <1>9, <1>10, <2>2, <2>3, FoundBySeen
  <2> QED BY <2>4 DEF x, byPhi
<1>15. CASE ~ (IsMain(Current) /\ \E i \in DOMAIN data : w \in Lattice(data[i]))
  <2>1. \A i \in 1 .. Len(w) : <<x[i]>> \in G
    <3> SUFFICES ASSUME NEW i \in 1 .. Len(w) PROVE <<x[i]>> \in G
      OBVIOUS
    <3>1. w[i] \in 1 .. Len(table) /\ <<w[i]>> \in DOMAIN trie
      BY <1>6, <1>11
    <3>2. <<Labelling(Current)[w[i]]>> \in G
      BY <1>3, <1>4, <1>12, <3>1, KnownLabels DEF Ngrams
    <3> QED BY <1>13, <3>2
  <2>2. \A i \in 1 .. Len(w) : x[i] \in byPhi
    <3>1. CASE IsMain(Current)
      <4>1. x = w
        BY <1>4, <1>6, <3>1, MainLabels
      <4>2. \A i \in 1 .. Len(w) : w[i] \in essential
        BY <1>15, <3>1 DEF Scored
      <4> QED BY <3>1, <4>1, <4>2 DEF ByPhi
    <3>2. CASE ~ IsMain(Current)
      <4>1. LabelsOf(Current) = 1 .. n
        BY <1>4, SymsIs DEF LabelsOf, Size
      <4>2. \A i \in 1 .. Len(w) : x[i] \in 1 .. n
        BY <1>4, <1>9, <1>13, LabelIn
      <4> QED BY <3>2, <4>1, <4>2 DEF ByPhi
    <3> QED BY <3>1, <3>2
  <2>3. \A i \in 2 .. Len(x) : x[i] \in byPhi /\ <<x[i]>> \in G
    BY <1>6, <1>13, <2>1, <2>2
  <2> HIDE DEF G, n, s, e, x, byPhi
  <2>4. \E g : Found(next, x, byPhi, g)
    BY <1>4, <1>8, <1>9, <1>10, <2>3, FoundByPhi
  <2> QED BY <2>4 DEF x, byPhi
<1> QED BY <1>14, <1>15

\* The composition with the well-formed strings reads what is to be scored.
LEMMA ScoredRead ==
  ASSUME CountInv, GramsInv, SymbolsInv, ModelsInv, FeaturesInv, stage = "features", Scoring,
         NEW w, Scored(w), NEW m, m.start = <<StartOf(next), {WfStart}>>, m.arcs = Composition(Current)
  PROVE  CanRead(m, InLabels(Labelling(Current), w))
<1> DEFINE k == Current
           x == InLabels(Labelling(k), w)
           finals == {q \in PairStates(k) : q[1] = FinalState}
<1>1. Modelling
  BY DEF Modelling
<1>2. /\ IsTable(table) /\ opts \in Topologies
      /\ opts.limit \in Int /\ opts.conjs \in Nat /\ opts.segs \in Nat
  BY <1>1, ModelIs, CurrentIs, TopologiesAssumption
<1>3. /\ DOMAIN Labelling(k) = 1 .. Len(table) /\ Len(SymsOf(k)) \in Nat
      /\ \A l \in 1 .. Len(table) : Labelling(k)[l] \in 1 .. Len(SymsOf(k))
      /\ LabelsOf(k) = 1 .. Len(SymsOf(k))
  BY <1>2, LabellingIs, SymsIs DEF LabelsOf
<1>4. Len(table) \in Nat /\ DOMAIN table = 1 .. Len(table) /\ table \in Seq(AnySymbol)
  BY <1>2 DEF IsTable
<1>5. \A l \in 1 .. Len(table) : Numbered(opts.segs, table[l])
  BY DEF SymbolsInv
<1>6. Scores(next, Ngrams, Size, StartOfModel, EndOfModel) /\ Descends(next)
  BY DEF FeaturesInv
<1>7. Composes(k)
  BY <1>2, <1>3, <1>4, <1>5, <1>6 DEF Composes, Scores
<1>8. \E g : Found(next, x, ByPhi(k), g)
  BY FoundScored
<1>9. w \in Seq(1 .. Len(table)) /\ WfAccepts(WfLimit, opts.conjs, opts.segs, Spell(w))
  BY DEF Scored
<1>10. Reads(<<StartOf(next), {WfStart}>>, Composition(k), x, finals)
  BY <1>3, <1>4, <1>7, <1>8, <1>9, CompositionReads
<1> HIDE DEF k, x, finals
<1>11. Reads(m.start, m.arcs, x, finals)
  BY <1>10 DEF k
<1>12. CanRead(m, x)
  BY <1>11 DEF Reads, CanRead
<1> QED BY <1>12 DEF x, k

-----------------------------------------------------------------------------
(* So do the finished models.                                              *)

\* One more at the end of a sequence.
LEMMA AppendIs ==
  ASSUME NEW s, IsSequence(s), NEW x
  PROVE  /\ IsSequence(Append(s, x)) /\ Len(Append(s, x)) = Len(s) + 1
         /\ DOMAIN Append(s, x) = 1 .. Len(s) + 1 /\ DOMAIN s = 1 .. Len(s)
         /\ \A i \in 1 .. Len(s) : Append(s, x)[i] = s[i]
         /\ Append(s, x)[Len(s) + 1] = x
<1> DEFINE S == {s[i] : i \in 1 .. Len(s)} \cup {x}
           t == Append(s, x)
<1>1. s \in Seq(S) /\ x \in S
  BY SequenceIsSeq DEF IsSequence
<1> HIDE DEF S
<1>2. /\ t \in Seq(S) /\ Len(t) = Len(s) + 1
      /\ \A i \in 1 .. Len(s) : t[i] = s[i]
      /\ t[Len(s) + 1] = x
  BY <1>1
<1> HIDE DEF t
<1>3. IsSequence(t) /\ DOMAIN t = 1 .. Len(t) /\ DOMAIN s = 1 .. Len(s)
  BY <1>1, <1>2, SeqIsSequence
<1> QED BY <1>2, <1>3 DEF t

\* The model that NgramFsaInsertFeatures adds reads what is to be scored.
LEMMA FeaturesModelsInv ==
  CountInv /\ GramsInv /\ SymbolsInv /\ ModelsInv /\ FeaturesInv /\ NgramFsaInsertFeatures => ModelsInv'
<1> SUFFICES ASSUME CountInv, GramsInv, SymbolsInv, ModelsInv, FeaturesInv, NgramFsaInsertFeatures
             PROVE  ModelsInv'
  OBVIOUS
<1> DEFINE arcs == Tabulated(Composition(Current))
           start == <<StartOf(next), {WfStart}>>
           history == IF arcs = <<>> THEN <<>> ELSE Tabulated(Histories(arcs, start))
           m == [start |-> start, arcs |-> arcs, history |-> history]
<1>1. /\ stage = "features" /\ opts' = opts /\ data' = data /\ table' = table /\ essential' = essential
      /\ models' = Append(models, m)
      /\ stage' = IF IsMain(Current) THEN "combine" ELSE "models"
  BY DEF NgramFsaInsertFeatures
<1>2. stage' \notin {"symbols", "count", "all"}
  BY <1>1
<1>3. ASSUME Scoring'
      PROVE  IsSequence(models') /\ ModelsRead' /\ (Modelling' => Len(models') <= Len(opts'.backoff))
  <2>1. Scoring /\ Modelling
    BY <1>1, <1>3 DEF Scoring, Modelling
  <2>2. IsSequence(models) /\ ModelsRead /\ Len(models) <= Len(opts.backoff)
    BY <2>1 DEF ModelsInv
  <2>3. m.start = start /\ m.arcs = Composition(Current)
    BY TabulatedIs
  <2>4. \A w : Scored(w) => CanRead(m, InLabels(Labelling(Current), w))
    BY <1>1, <2>1, <2>3, ScoredRead
  <2> HIDE DEF m
  <2>5. /\ IsSequence(models') /\ Len(models') = Current /\ Len(models) \in Nat /\ Current = Len(models) + 1
        /\ DOMAIN models' = 1 .. Current /\ DOMAIN models = 1 .. Len(models)
        /\ \A i \in 1 .. Len(models) : models'[i] = models[i]
        /\ models'[Current] = m
    BY <1>1, <2>2, AppendIs DEF Current, IsSequence
  <2>6. ASSUME NEW k \in DOMAIN models', NEW w, Scored(w)
        PROVE  CanRead(models'[k], InLabels(Labelling(k), w))
    <3>1. CASE k = Current
      BY <2>4, <2>5, <2>6, <3>1
    <3>2. CASE k # Current
      <4>1. k \in DOMAIN models /\ models'[k] = models[k]
        BY <2>5, <2>6, <3>2
      <4> QED BY <2>2, <2>6, <4>1 DEF ModelsRead
    <3> QED BY <3>1, <3>2
  <2>7. /\ \A k : Labelling(k)' = Labelling(k)
        /\ \A w : Scored(w)' = Scored(w)
    BY <1>1, ScoredKept
  <2>8. \A k, w : CanRead(models[k], InLabels(Labelling(k), w))' = CanRead(models'[k], InLabels(Labelling(k), w))
    BY <2>7
  <2>9. ModelsRead'
    BY <2>6, <2>7, <2>8 DEF ModelsRead
  <2>10. Modelling' => Len(models') <= Len(opts'.backoff)
    <3>1. Modelling' => ~ IsMain(Current)
      BY <1>1 DEF Modelling
    <3>2. Len(opts.backoff) \in Nat
      BY <2>1, CurrentIs, ModelsAssumption
    <3> QED BY <1>1, <2>2, <2>5, <3>1, <3>2 DEF IsMain
  <2> QED BY <2>5, <2>9, <2>10
<1> QED BY <1>2, <1>3 DEF ModelsInv

\* Steps that leave the models alone.
ModelsKept ==
  /\ opts' = opts /\ data' = data /\ table' = table /\ models' = models
  /\ stage' \notin {"symbols", "count", "all"} \/ stage \in {"symbols", "count", "all"}
  /\ Scoring' => Scoring /\ essential' = essential
  /\ Scoring' /\ Modelling' => Modelling

\* Steps that keep these keep the invariant.
LEMMA ModelsKeptInv == ModelsInv /\ ModelsKept => ModelsInv'
<1> SUFFICES ASSUME ModelsInv, ModelsKept PROVE ModelsInv'
  OBVIOUS
<1>1. opts' = opts /\ data' = data /\ table' = table /\ models' = models
  BY DEF ModelsKept
<1>2. Scoring' => ModelsRead'
  <2> SUFFICES ASSUME Scoring' PROVE ModelsRead'
    OBVIOUS
  <2>1. ModelsRead /\ essential' = essential
    BY DEF ModelsInv, ModelsKept
  <2>2. /\ \A k : Labelling(k)' = Labelling(k)
        /\ \A w : Scored(w)' = Scored(w)
    BY <1>1, <2>1, ScoredKept
  <2>3. \A k, w : CanRead(models[k], InLabels(Labelling(k), w))' = CanRead(models[k], InLabels(Labelling(k), w))
    BY <1>1, <2>2
  <2> QED BY <1>1, <2>1, <2>2, <2>3 DEF ModelsRead
<1> QED BY <1>1, <1>2 DEF ModelsInv, ModelsKept

\* The first model is begun with none.
ModelsBegun == models' = models /\ models = <<>> /\ opts' \in Topologies

\* With no model yet there is nothing to read.
LEMMA ModelsBegunInv == ModelsBegun => ModelsInv'
<1> SUFFICES ASSUME ModelsBegun PROVE ModelsInv'
  OBVIOUS
<1>1. models' = <<>> /\ opts'.backoff \in Seq({"id", "tlm", "vc"})
  BY ModelsAssumption DEF ModelsBegun
<1>2. IsSequence(models') /\ Len(models') = 0 /\ DOMAIN models' = {}
  BY <1>1, EmptySequence, EmptyFacts
<1>3. ModelsRead'
  BY <1>2 DEF ModelsRead
<1>4. Len(models') <= Len(opts'.backoff)
  BY <1>1, <1>2
<1> QED BY <1>1, <1>2, <1>3, <1>4 DEF ModelsInv

\* The invariant is inductive.
LEMMA AllNextModelsInv ==
  CountInv /\ GramsInv /\ SymbolsInv /\ ModelsInv /\ FeaturesInv /\ [AllNext]_allVars => ModelsInv'
<1> SUFFICES ASSUME CountInv, GramsInv, SymbolsInv, ModelsInv, FeaturesInv, [AllNext]_allVars
             PROVE  ModelsInv'
  OBVIOUS
<1>1. CASE NgramFsaInsertFeatures
  BY <1>1, FeaturesModelsInv
<1>2. CASE (Select \/ CreateNgramTrie) /\ UNCHANGED modelVars
  <2>1. stage \in {"count", "all"} /\ models' = models /\ opts' = opts
    BY <1>2 DEF Select, CreateNgramTrie, modelVars
  <2>2. models = <<>> /\ opts \in Topologies
    BY <2>1 DEF ModelsInv, CountInv
  <2> QED BY <2>1, <2>2, ModelsBegunInv DEF ModelsBegun
<1>3. CASE (DoubleFree \/ AddCounts \/ ProcessSubset) /\ UNCHANGED modelVars
  <2>1. ModelsKept
    BY <1>3 DEF DoubleFree, AddCounts, ProcessSubset, modelVars, ModelsKept, Scoring, Modelling
  <2> QED BY <2>1, ModelsKeptInv
<1>4. CASE MakeSymbols /\ UNCHANGED modelVars
  <2>1. models' = <<>> /\ ~ Scoring'
    BY <1>4 DEF MakeSymbols, modelVars, ModelsInv, Scoring
  <2> QED BY <2>1 DEF ModelsInv
<1>5. CASE StartAddBackoff \/ AddBackoffArc \/ AddPhiArc \/ Convert \/ CreateScoringFst
  <2>1. ModelsKept
    BY <1>5 DEF StartAddBackoff, AddBackoffArc, AddPhiArc, Convert, CreateScoringFst,
                ModelsKept, Scoring, Modelling
  <2> QED BY <2>1, ModelsKeptInv
<1>6. CASE NoepshistNext \/ HandOver
  <2>1. stage' \notin {"symbols", "count", "all"} /\ ~ Scoring'
    BY <1>6 DEF NoepshistNext, StartScoring, AddArcs, ComposeScoringFst, HandOver, Scoring, SymbolsInv
  <2> QED BY <2>1 DEF ModelsInv
<1>7. CASE UNCHANGED topologyVars
  <2>1. ModelsKept
    BY <1>7 DEF topologyVars, createVars, countVars, modelVars, ModelsKept, Scoring, Modelling
  <2> QED BY <2>1, ModelsKeptInv
<1> QED BY <1>1, <1>2, <1>3, <1>5, <1>4, <1>6, <1>7
        DEF AllNext, allVars, Create, SessionStep, TopologyNext, CreateNext, CountNext

\* At first.
LEMMA InitModelsInv == AllInit => ModelsInv
<1> SUFFICES ASSUME AllInit PROVE ModelsInv
  OBVIOUS
<1>1. models = <<>> /\ stage \in {"idle", "symbols"}
  BY DEF AllInit, IdleCreation, CreatingInit, TopologyInit, CreateInit, CountInit
<1>2. ~ Scoring
  BY <1>1 DEF Scoring
<1> QED BY <1>1, <1>2 DEF ModelsInv

-----------------------------------------------------------------------------
(* The histories that BackoffIterator visits.                              *)

\* A history is the end of another one, on both sides.
EndsHistory(h, hist) == Ends(h[1], hist[1]) /\ Ends(h[2], hist[2])
EndsOf(hist) == {h \in SomeHistory : EndsHistory(h, hist)}

\* The two histories that are a letter shorter, or are no shorter.
LEMMA ShorterIs ==
  ASSUME NEW hist \in SomeHistory
  PROVE  /\ Shorter(hist) \in Seq(SomeHistory) /\ Len(Shorter(hist)) = 2
         /\ ToSet(Shorter(hist)) = {<<DropFirst(hist[1]), hist[2]>>, <<hist[1], DropFirst(hist[2])>>}
         /\ Shorter(hist)[1] # Shorter(hist)[2] \/ ToSet(Shorter(hist)) = {hist}
<1> DEFINE a == <<DropFirst(hist[1]), hist[2]>>
           b == <<hist[1], DropFirst(hist[2])>>
<1>1. hist[1] \in Seq(HistoryLetter) /\ hist[2] \in Seq(HistoryLetter) /\ hist = <<hist[1], hist[2]>>
  BY DEF SomeHistory
<1>2. /\ DropFirst(hist[1]) \in Seq(HistoryLetter) /\ DropFirst(hist[2]) \in Seq(HistoryLetter)
      /\ DropFirst(hist[1]) = hist[1] => hist[1] = <<>>
      /\ DropFirst(hist[2]) = hist[2] => hist[2] = <<>>
  <2>1. ASSUME NEW w \in Seq(HistoryLetter) PROVE DropFirst(w) \in Seq(HistoryLetter) /\ (DropFirst(w) = w => w = <<>>)
    <3>1. CASE w = <<>>
      BY <3>1 DEF DropFirst
    <3>2. CASE w # <<>>
      <4>1. Tail(w) \in Seq(HistoryLetter) /\ Len(Tail(w)) = Len(w) - 1 /\ Len(w) \in Nat
        BY <3>2
      <4>2. DropFirst(w) = Tail(w)
        BY <3>2 DEF DropFirst
      <4>3. Tail(w) # w
        <5> DEFINE t == Tail(w)
        <5> HIDE DEF t
        <5>1. Len(t) = Len(w) - 1 /\ Len(w) \in Nat
          BY <4>1 DEF t
        <5>2. Len(t) # Len(w)
          BY <5>1
        <5>3. t # w
          BY <5>2
        <5> QED BY <5>3 DEF t
      <4> QED BY <4>1, <4>2, <4>3
    <3> QED BY <3>1, <3>2
  <2> QED BY <1>1, <2>1
<1>3. a \in SomeHistory /\ b \in SomeHistory
  BY <1>1, <1>2 DEF SomeHistory
<1>4. Shorter(hist) = <<a, b>> \/ Shorter(hist) = <<b, a>>
  BY DEF Shorter
<1>5. a # b \/ (a = hist /\ b = hist)
  BY <1>1, <1>2
<1> HIDE DEF a, b
<1>6. ASSUME NEW x \in SomeHistory, NEW y \in SomeHistory
      PROVE  <<x, y>> \in Seq(SomeHistory) /\ Len(<<x, y>>) = 2 /\ ToSet(<<x, y>>) = {x, y}
             /\ <<x, y>>[1] = x /\ <<x, y>>[2] = y
  <2>1. DOMAIN <<x, y>> = {1, 2}
    OBVIOUS
  <2> QED BY <2>1 DEF ToSet
<1>7. CASE Shorter(hist) = <<a, b>>
  BY <1>3, <1>5, <1>6, <1>7 DEF a, b
<1>8. CASE Shorter(hist) = <<b, a>>
  BY <1>3, <1>5, <1>6, <1>8 DEF a, b
<1> QED BY <1>4, <1>7, <1>8

\* They end the longer one, and what it ends.
LEMMA ShorterEnds ==
  ASSUME NEW hist \in SomeHistory, NEW h \in SomeHistory, EndsHistory(h, hist)
  PROVE  ToSet(Shorter(h)) \subseteq EndsOf(hist)
<1> DEFINE drops(w, v) == DropFirst(w) \in Seq(HistoryLetter) /\ Ends(DropFirst(w), v)
<1>1. ASSUME NEW w \in Seq(HistoryLetter), NEW v \in Seq(HistoryLetter), Ends(w, v) PROVE drops(w, v)
  <2>1. CASE w = <<>>
    BY <1>1, <2>1 DEF DropFirst
  <2>2. CASE w # <<>>
    <3>1. Tail(w) \in Seq(HistoryLetter) /\ Len(Tail(w)) = Len(w) - 1 /\ Len(w) \in Nat /\ Len(w) > 0 /\ Len(v) \in Nat
          /\ \A i \in 1 .. Len(w) - 1 : Tail(w)[i] = w[i + 1]
      BY <2>2
    <3>2. Ends(Tail(w), v)
      <4>1. Len(w) <= Len(v) /\ \A i \in 1 .. Len(w) : w[i] = v[Len(v) - Len(w) + i]
        BY <1>1 DEF Ends
      <4>2. \A i \in 1 .. Len(w) - 1 : w[i + 1] = v[Len(v) - (Len(w) - 1) + i]
        <5> SUFFICES ASSUME NEW i \in 1 .. Len(w) - 1 PROVE w[i + 1] = v[Len(v) - (Len(w) - 1) + i]
          OBVIOUS
        <5>1. i + 1 \in 1 .. Len(w) /\ Len(v) - Len(w) + (i + 1) = Len(v) - (Len(w) - 1) + i
          BY <3>1
        <5>2. w[i + 1] = v[Len(v) - Len(w) + (i + 1)]
          BY <4>1, <5>1
        <5> QED BY <5>1, <5>2
      <4> QED BY <3>1, <4>1, <4>2 DEF Ends
    <3> QED BY <2>2, <3>1, <3>2 DEF DropFirst
  <2> QED BY <2>1, <2>2
<1>2. h[1] \in Seq(HistoryLetter) /\ h[2] \in Seq(HistoryLetter) /\ hist[1] \in Seq(HistoryLetter) /\ hist[2] \in Seq(HistoryLetter)
      /\ Ends(h[1], hist[1]) /\ Ends(h[2], hist[2])
  BY DEF SomeHistory, EndsHistory
<1>3. drops(h[1], hist[1]) /\ drops(h[2], hist[2])
  BY <1>1, <1>2
<1>4. ToSet(Shorter(h)) = {<<DropFirst(h[1]), h[2]>>, <<h[1], DropFirst(h[2])>>}
  BY ShorterIs
<1>5. <<DropFirst(h[1]), h[2]>> \in EndsOf(hist) /\ <<h[1], DropFirst(h[2])>> \in EndsOf(hist)
  BY <1>2, <1>3 DEF EndsOf, EndsHistory, SomeHistory
<1> QED BY <1>4, <1>5

\* A history has finitely many ends.
LEMMA EndsFinite ==
  ASSUME NEW hist \in SomeHistory
  PROVE  IsFiniteSet(EndsOf(hist))
<1> DEFINE m == Len(hist[1])
           n == Len(hist[2])
           T == (0 .. m) \X (0 .. n)
           f == [h \in EndsOf(hist) |-> <<Len(h[1]), Len(h[2])>>]
<1>1. hist[1] \in Seq(HistoryLetter) /\ hist[2] \in Seq(HistoryLetter) /\ m \in Nat /\ n \in Nat
  BY DEF SomeHistory
<1>2. IsFiniteSet(T)
  <2>1. IsFiniteSet(0 .. m) /\ IsFiniteSet(0 .. n)
    BY <1>1, IntervalFinite
  <2> QED BY <2>1, FS_Product
<1>3. \A h \in EndsOf(hist) : h[1] \in Seq(HistoryLetter) /\ h[2] \in Seq(HistoryLetter) /\ h = <<h[1], h[2]>>
                              /\ Ends(h[1], hist[1]) /\ Ends(h[2], hist[2])
  BY DEF EndsOf, EndsHistory, SomeHistory
<1>4. \A h \in EndsOf(hist) : f[h] \in T
  <2> SUFFICES ASSUME NEW h \in EndsOf(hist) PROVE Len(h[1]) \in 0 .. m /\ Len(h[2]) \in 0 .. n
    OBVIOUS
  <2>1. Len(h[1]) \in Nat /\ Len(h[2]) \in Nat
    BY <1>3
  <2> QED BY <1>1, <1>3, <2>1 DEF Ends
<1>5. \A g, h \in EndsOf(hist) : f[g] = f[h] => g = h
  <2> SUFFICES ASSUME NEW g \in EndsOf(hist), NEW h \in EndsOf(hist), f[g] = f[h] PROVE g = h
    OBVIOUS
  <2>1. Len(g[1]) = Len(h[1]) /\ Len(g[2]) = Len(h[2])
    OBVIOUS
  <2>2. g[1] = h[1] /\ g[2] = h[2]
    BY <1>1, <1>3, <2>1, EndsAlike
  <2> QED BY <1>3, <2>2
<1>6. f \in Injection(EndsOf(hist), T)
  <2>1. f \in [EndsOf(hist) -> T]
    BY <1>4
  <2> HIDE DEF f, T
  <2> QED BY <1>5, <2>1 DEF Injection, IsInjective
<1> HIDE DEF f, T
<1> QED BY <1>2, <1>6, FS_Injection

-----------------------------------------------------------------------------
(* BackoffIterator, turn by turn.                                          *)

\* What is known of it: it has met what it has visited or is to visit, all of it
\* ends of the history, and all that is shorter than what it has visited.
Iterating(hist, it) ==
  /\ it \in BackoffIterator
  /\ it.isOnQueue = ToSet(it.queue) \cup ToSet(it.values)
  /\ hist \in it.isOnQueue /\ it.isOnQueue \subseteq EndsOf(hist)
  /\ \A h \in ToSet(it.values) : ToSet(Shorter(h)) \subseteq it.isOnQueue

\* How many turns it can still make, at most.
TurnsLeft(hist, it) == Len(it.queue) + 2 * Cardinality(EndsOf(hist) \ it.isOnQueue)

\* A turn of a loop that is over at some states.
LoopIs(D, step, done, v, f) == f = [x \in D |-> IF x \in done THEN v[x] ELSE f[step[x]]]

\* There is a function that a loop computes.
LEMMA LoopExists ==
  ASSUME NEW D, NEW step, NEW done, NEW v, \A x \in D \ done : step[x] \in D
  PROVE  \E f : LoopIs(D, step, done, v, f)
<1> DEFINE Keeps(T) == \A x \in T : x \notin done => step[x] \in T
           Orbit(x) == {y \in D : \A T \in SUBSET D : x \in T /\ Keeps(T) => y \in T}
           f == [x \in D |-> CHOOSE w : \E y \in Orbit(x) \cap done : w = v[y]]
<1>1. ASSUME NEW x \in D, x \in done PROVE Orbit(x) \cap done = {x}
  <2>1. {x} \in SUBSET D /\ Keeps({x})
    BY <1>1
  <2>2. \A y \in Orbit(x) : y \in {x}
    <3> HIDE DEF Keeps
    <3> QED BY <2>1
  <2>3. x \in Orbit(x)
    OBVIOUS
  <2> HIDE DEF Orbit
  <2> QED BY <1>1, <2>2, <2>3
<1>2. ASSUME NEW x \in D, x \notin done PROVE Orbit(x) \cap done = Orbit(step[x]) \cap done
  <2>1. ASSUME NEW y \in Orbit(step[x]) PROVE y \in Orbit(x)
    BY <1>2, <2>1
  <2>2. ASSUME NEW y \in Orbit(x), y \in done PROVE y \in Orbit(step[x])
    <3> SUFFICES ASSUME NEW T \in SUBSET D, step[x] \in T, Keeps(T) PROVE y \in T
      OBVIOUS
    <3>1. T \cup {x} \in SUBSET D /\ Keeps(T \cup {x})
      OBVIOUS
    <3>2. y \in T \cup {x}
      <4> HIDE DEF Keeps
      <4> QED BY <3>1
    <3> QED BY <1>2, <2>2, <3>2
  <2> HIDE DEF Orbit
  <2> QED BY <2>1, <2>2
<1>3. ASSUME NEW x \in D PROVE f[x] = IF x \in done THEN v[x] ELSE f[step[x]]
  <2>1. CASE x \in done
    <3>1. f[x] = CHOOSE w : \E y \in {x} : w = v[y]
      <4> HIDE DEF Orbit
      <4> QED BY <1>1, <2>1
    <3>2. (CHOOSE w : \E y \in {x} : w = v[y]) = v[x]
      OBVIOUS
    <3> HIDE DEF f
    <3> QED BY <2>1, <3>1, <3>2
  <2>2. CASE x \notin done
    <3>1. step[x] \in D
      BY <2>2
    <3>2. f[x] = f[step[x]]
      <4> HIDE DEF Orbit
      <4> QED BY <1>2, <2>2, <3>1
    <3> HIDE DEF f
    <3> QED BY <2>2, <3>2
  <2> QED BY <2>1, <2>2
<1>4. f = [x \in D |-> f[x]]
  OBVIOUS
<1> HIDE DEF f
<1> QED BY <1>3, <1>4 DEF LoopIs

\* What is in a sequence, from its first element or to its last.
LEMMA SequenceParts ==
  ASSUME NEW S, NEW s \in Seq(S)
  PROVE  /\ s # <<>> => /\ Head(s) \in S /\ Tail(s) \in Seq(S) /\ Len(Tail(s)) = Len(s) - 1 /\ Len(s) > 0
                        /\ ToSet(s) = {Head(s)} \cup ToSet(Tail(s))
         /\ \A x \in S : Append(s, x) \in Seq(S) /\ ToSet(Append(s, x)) = ToSet(s) \cup {x}
         /\ ToSet(s) \in SUBSET S /\ Len(s) \in Nat /\ (ToSet(s) = {} => Len(s) = 0)
<1>0. Len(s) \in Nat /\ DOMAIN s = 1 .. Len(s) /\ \A i \in 1 .. Len(s) : s[i] \in S
  OBVIOUS
<1>1. ASSUME s # <<>> PROVE /\ Head(s) \in S /\ Tail(s) \in Seq(S) /\ Len(Tail(s)) = Len(s) - 1 /\ Len(s) > 0
                            /\ ToSet(s) = {Head(s)} \cup ToSet(Tail(s))
  <2>1. /\ Tail(s) \in Seq(S) /\ Len(Tail(s)) = Len(s) - 1 /\ Len(s) > 0
        /\ \A i \in 1 .. Len(s) - 1 : Tail(s)[i] = s[i + 1]
    BY <1>1, TailFacts
  <2>2. Head(s) = s[1] /\ Head(s) \in S
    BY <1>0, <2>1
  <2>3. DOMAIN Tail(s) = 1 .. Len(s) - 1
    BY <2>1
  <2>4. \A i \in 1 .. Len(s) : s[i] = Head(s) \/ (i - 1 \in 1 .. Len(s) - 1 /\ Tail(s)[i - 1] = s[i])
    <3> SUFFICES ASSUME NEW i \in 1 .. Len(s), i # 1 PROVE i - 1 \in 1 .. Len(s) - 1 /\ Tail(s)[i - 1] = s[i]
      BY <2>2
    <3>1. i - 1 \in 1 .. Len(s) - 1 /\ (i - 1) + 1 = i
      BY <1>0
    <3> QED BY <2>1, <3>1
  <2>5. ToSet(s) \subseteq {Head(s)} \cup ToSet(Tail(s))
    BY <1>0, <2>3, <2>4 DEF ToSet
  <2>6. \A i \in 1 .. Len(s) - 1 : i + 1 \in 1 .. Len(s)
    BY <1>0
  <2>7. {Head(s)} \cup ToSet(Tail(s)) \subseteq ToSet(s)
    <3>1. Head(s) \in ToSet(s)
      BY <1>0, <2>1, <2>2 DEF ToSet
    <3>2. ToSet(Tail(s)) \subseteq ToSet(s)
      BY <1>0, <2>1, <2>3, <2>6 DEF ToSet
    <3> QED BY <3>1, <3>2
  <2> QED BY <2>1, <2>2, <2>5, <2>7
<1>2. ASSUME NEW x \in S PROVE Append(s, x) \in Seq(S) /\ ToSet(Append(s, x)) = ToSet(s) \cup {x}
  <2>1. /\ Append(s, x) \in Seq(S) /\ Len(Append(s, x)) = Len(s) + 1
        /\ \A i \in 1 .. Len(s) : Append(s, x)[i] = s[i]
        /\ Append(s, x)[Len(s) + 1] = x
    BY AppendFacts
  <2>2. DOMAIN Append(s, x) = 1 .. Len(s) + 1
    BY <2>1
  <2>3. 1 .. Len(s) + 1 = (1 .. Len(s)) \cup {Len(s) + 1}
    BY <1>0
  <2> QED BY <1>0, <2>1, <2>2, <2>3 DEF ToSet
<1>3. ToSet(s) \in SUBSET S /\ (ToSet(s) = {} => Len(s) = 0)
  <2>1. ToSet(s) \in SUBSET S
    BY <1>0 DEF ToSet
  <2>2. Len(s) # 0 => s[1] \in ToSet(s)
    BY <1>0 DEF ToSet
  <2> QED BY <2>1, <2>2
<1> QED BY <1>0, <1>1, <1>2, <1>3

\* A turn visits the history in front, and puts the two shorter ones on the queue
\* that have not been there, each once.
LEMMA AdvancedIs ==
  ASSUME NEW it \in BackoffIterator, it.queue # <<>>
  PROVE  LET h == Head(it.queue)
             new == ToSet(Shorter(h)) \ it.isOnQueue
         IN /\ Advanced(it) \in BackoffIterator /\ h \in SomeHistory
            /\ ToSet(it.queue) = {h} \cup ToSet(Tail(it.queue))
            /\ Advanced(it).isOnQueue = it.isOnQueue \cup ToSet(Shorter(h))
            /\ ToSet(Advanced(it).values) = ToSet(it.values) \cup {h}
            /\ ToSet(Advanced(it).queue) = ToSet(Tail(it.queue)) \cup new
            /\ h \in it.isOnQueue =>
                 /\ IsFiniteSet(new)
                 /\ Len(Advanced(it).queue) = Len(it.queue) - 1 + Cardinality(new)
<1> DEFINE h == Head(it.queue)
           both == Shorter(h)
           new == ToSet(both) \ it.isOnQueue
           pushed == Kept(both, new)
<1>1. it.queue \in Seq(SomeHistory) /\ it.isOnQueue \in SUBSET SomeHistory /\ it.values \in Seq(SomeHistory)
  BY DEF BackoffIterator
<1>2. /\ h \in SomeHistory /\ Tail(it.queue) \in Seq(SomeHistory) /\ Len(Tail(it.queue)) = Len(it.queue) - 1
      /\ ToSet(it.queue) = {h} \cup ToSet(Tail(it.queue)) /\ Len(it.queue) \in Nat /\ Len(it.queue) > 0
  BY <1>1, SequenceParts
<1>3. Append(it.values, h) \in Seq(SomeHistory) /\ ToSet(Append(it.values, h)) = ToSet(it.values) \cup {h}
  BY <1>1, <1>2, SequenceParts
<1>4. /\ both \in Seq(SomeHistory) /\ Len(both) = 2
      /\ both[1] # both[2] \/ ToSet(both) = {h}
  BY <1>2, ShorterIs
<1> HIDE DEF h, both
<1>5. /\ pushed \in Seq(SomeHistory) /\ ToSet(pushed) = ToSet(both) \cap new
      /\ NoDups(both) => NoDups(pushed)
  <2> HIDE DEF new
  <2> QED BY <1>4, KeptIs
<1>6. ToSet(pushed) = new /\ ToSet(both) \in SUBSET SomeHistory
  BY <1>4, <1>5, SequenceParts
<1> HIDE DEF pushed
<1>7. /\ Tail(it.queue) \o pushed \in Seq(SomeHistory)
      /\ Len(Tail(it.queue) \o pushed) = Len(Tail(it.queue)) + Len(pushed)
      /\ ToSet(Tail(it.queue) \o pushed) = ToSet(Tail(it.queue)) \cup ToSet(pushed)
  <2>1. Tail(it.queue) \in Seq(SomeHistory) /\ pushed \in Seq(SomeHistory)
    BY <1>2, <1>5
  <2> DEFINE t == Tail(it.queue)
  <2> HIDE DEF new, t
  <2>2. t \in Seq(SomeHistory)
    BY <2>1 DEF t
  <2>3. /\ t \o pushed \in Seq(SomeHistory) /\ Len(t \o pushed) = Len(t) + Len(pushed)
        /\ ToSet(t \o pushed) = ToSet(t) \cup ToSet(pushed)
    <3>1. pushed \in Seq(SomeHistory)
      BY <2>1
    <3> QED BY ONLY <2>2, <3>1, ConcatFacts
  <2> QED BY <2>3 DEF t
<1>8. Advanced(it) = [queue |-> Tail(it.queue) \o pushed, isOnQueue |-> it.isOnQueue \cup ToSet(both),
                      values |-> Append(it.values, h)]
  BY Zenon DEF Advanced, pushed, new, both, h
<1>9. Advanced(it) \in BackoffIterator
  BY <1>1, <1>3, <1>6, <1>7, <1>8 DEF BackoffIterator
<1>10. ASSUME h \in it.isOnQueue PROVE IsFiniteSet(new) /\ Len(pushed) = Cardinality(new)
  <2>1. CASE both[1] # both[2]
    <3>1. NoDups(both)
      <4>1. DOMAIN both = {1, 2}
        BY <1>4
      <4> QED BY <2>1, <4>1 DEF NoDups
    <3> QED BY <1>5, <1>6, <3>1, NoDupsCount
  <2>2. CASE ToSet(both) = {h}
    <3>1. new = {}
      BY <1>10, <2>2
    <3>2. Len(pushed) = 0
      BY <1>5, <1>6, <3>1, SequenceParts
    <3> QED BY <3>1, <3>2, FS_EmptySet
  <2> QED BY <1>4, <2>1, <2>2
<1> HIDE DEF new
<1>11. /\ Advanced(it).queue = Tail(it.queue) \o pushed
       /\ Advanced(it).isOnQueue = it.isOnQueue \cup ToSet(both)
       /\ Advanced(it).values = Append(it.values, h)
  BY <1>8
<1>12. h \in it.isOnQueue => IsFiniteSet(new) /\ Len(Advanced(it).queue) = Len(it.queue) - 1 + Cardinality(new)
  BY <1>2, <1>7, <1>10, <1>11
<1>13. /\ ToSet(Advanced(it).queue) = ToSet(Tail(it.queue)) \cup new
       /\ ToSet(Advanced(it).values) = ToSet(it.values) \cup {h}
  BY <1>3, <1>6, <1>7, <1>11
<1> QED BY <1>2, <1>9, <1>11, <1>12, <1>13 DEF new, both, h

\* Taking one history and adding n of the histories that were left leaves fewer turns.
LEMMA FewerTurns ==
  ASSUME NEW before \in Nat, NEW later \in Nat, NEW left \in Nat, NEW rest \in Nat, NEW n \in Nat,
         NEW t, NEW u, left = rest + n, later = before - 1 + n,
         t = before + 2 * left, u = later + 2 * rest
  PROVE  t \in Nat /\ u \in Nat /\ u < t
  OBVIOUS

\* A turn keeps the invariant, and leaves fewer turns.
LEMMA TurnKeeps ==
  ASSUME NEW hist \in SomeHistory, NEW it, Iterating(hist, it), it.queue # <<>>
  PROVE  /\ Iterating(hist, Advanced(it))
         /\ TurnsLeft(hist, it) \in Nat /\ TurnsLeft(hist, Advanced(it)) \in Nat
         /\ TurnsLeft(hist, Advanced(it)) < TurnsLeft(hist, it)
<1> DEFINE h == Head(it.queue)
           both == ToSet(Shorter(h))
           new == both \ it.isOnQueue
           on == it.isOnQueue
           after == Advanced(it)
           E == EndsOf(hist)
<1>1. /\ it \in BackoffIterator /\ on = ToSet(it.queue) \cup ToSet(it.values)
      /\ hist \in on /\ on \subseteq E /\ \A g \in ToSet(it.values) : ToSet(Shorter(g)) \subseteq on
  BY DEF Iterating
<1>2. /\ after \in BackoffIterator /\ h \in SomeHistory
      /\ ToSet(it.queue) = {h} \cup ToSet(Tail(it.queue))
      /\ after.isOnQueue = on \cup both
      /\ ToSet(after.values) = ToSet(it.values) \cup {h}
      /\ ToSet(after.queue) = ToSet(Tail(it.queue)) \cup new
      /\ h \in on => IsFiniteSet(new) /\ Len(after.queue) = Len(it.queue) - 1 + Cardinality(new)
  BY <1>1, AdvancedIs
<1> HIDE DEF after
<1>3. h \in on /\ h \in E
  BY <1>1, <1>2
<1>4. both \subseteq E
  <2>1. EndsHistory(h, hist)
    BY <1>3 DEF EndsOf
  <2> QED BY <1>2, <2>1, ShorterEnds
<1>5. Iterating(hist, after)
  <2> HIDE DEF h
  <2>1. \A g \in ToSet(after.values) : ToSet(Shorter(g)) \subseteq after.isOnQueue
    BY <1>1, <1>2
  <2>2. after.isOnQueue = ToSet(after.queue) \cup ToSet(after.values)
    <3> HIDE DEF both
    <3> QED BY <1>1, <1>2
  <2> HIDE DEF both
  <2> QED BY <1>1, <1>2, <1>4, <2>1, <2>2 DEF Iterating
<1>6. IsFiniteSet(E) /\ IsFiniteSet(E \ on) /\ IsFiniteSet(E \ (on \cup both))
  BY EndsFinite, FS_Subset
<1>7. Cardinality(E \ on) = Cardinality(E \ (on \cup both)) + Cardinality(new)
  <2>1. E \ on = (E \ (on \cup both)) \cup new /\ (E \ (on \cup both)) \cap new = {}
    BY <1>4
  <2>2. IsFiniteSet(new)
    BY <1>2, <1>3
  <2> DEFINE A == E \ (on \cup both)
  <2>3. IsFiniteSet(A)
    BY <1>6
  <2> HIDE DEF A
  <2>4. Cardinality(A \cup new) = Cardinality(A) + Cardinality(new) - Cardinality(A \cap new)
    BY <2>2, <2>3, FS_Union
  <2>5. A \cap new = {} /\ Cardinality(A) \in Nat /\ Cardinality(new) \in Nat
    BY <2>1, <2>2, <2>3, FS_CardinalityType DEF A
  <2>6. Cardinality(A \cap new) = 0
    BY <2>5, FS_EmptySet
  <2>7. E \ on = A \cup new
    BY <2>1 DEF A
  <2>8. Cardinality(A \cup new) = Cardinality(A) + Cardinality(new)
    BY <2>4, <2>5, <2>6
  <2> QED BY <2>7, <2>8 DEF A
<1>8. /\ Cardinality(E \ on) \in Nat /\ Cardinality(E \ (on \cup both)) \in Nat /\ Cardinality(new) \in Nat
      /\ Len(it.queue) \in Nat /\ Len(after.queue) \in Nat
  <2>1. IsFiniteSet(new) /\ it.queue \in Seq(SomeHistory) /\ after.queue \in Seq(SomeHistory)
    BY <1>1, <1>2, <1>3 DEF BackoffIterator
  <2> QED BY <1>6, <2>1, FS_CardinalityType
<1>9. TurnsLeft(hist, it) = Len(it.queue) + 2 * Cardinality(E \ on)
  BY DEF TurnsLeft
<1>10. TurnsLeft(hist, after) = Len(after.queue) + 2 * Cardinality(E \ (on \cup both))
  BY <1>2 DEF TurnsLeft
<1>11. Len(after.queue) = Len(it.queue) - 1 + Cardinality(new)
  BY <1>2, <1>3
<1> HIDE DEF on, both, new, E, h
<1>12. TurnsLeft(hist, it) \in Nat /\ TurnsLeft(hist, after) \in Nat /\ TurnsLeft(hist, after) < TurnsLeft(hist, it)
  BY ONLY <1>7, <1>8, <1>9, <1>10, <1>11, FewerTurns
<1> QED BY <1>5, <1>12 DEF after

\* The function that Backoffs defines by recursion.
TakesTurns(f) == f = [it \in BackoffIterator |-> IF it.queue = <<>> THEN it.values ELSE f[Advanced(it)]]

\* There is one.
LEMMA TakesTurnsExists == \E f : TakesTurns(f)
<1> DEFINE D == BackoffIterator
           step == [it \in D |-> Advanced(it)]
           done == {it \in D : it.queue = <<>>}
           v == [it \in D |-> it.values]
<1>1. \A it \in D \ done : step[it] \in D
  <2> SUFFICES ASSUME NEW it \in D, it.queue # <<>> PROVE Advanced(it) \in D
    OBVIOUS
  <2> QED BY AdvancedIs
<1>2. PICK f : LoopIs(D, step, done, v, f)
  <2> HIDE DEF D, step, done, v
  <2> QED BY <1>1, LoopExists
<1>3. f = [it \in D |-> IF it \in done THEN v[it] ELSE f[step[it]]]
  BY <1>2 DEF LoopIs
<1>4. \A it \in D : (IF it \in done THEN v[it] ELSE f[step[it]])
                      = IF it.queue = <<>> THEN it.values ELSE f[Advanced(it)]
  OBVIOUS
<1>5. f = [it \in D |-> IF it.queue = <<>> THEN it.values ELSE f[Advanced(it)]]
  <2> HIDE DEF D, step, done, v
  <2> QED BY <1>3, <1>4
<1> QED BY <1>5 DEF TakesTurns

\* A history, its ends that are a letter shorter, theirs, and so on.
Visits(hist, S) ==
  /\ hist \in S /\ S \subseteq EndsOf(hist)
  /\ \A h \in S : ToSet(Shorter(h)) \subseteq S

\* That is what BackoffIterator visits.
LEMMA BackoffsAre ==
  ASSUME NEW hist \in SomeHistory
  PROVE  Backoffs(hist) \in Seq(SomeHistory) /\ Visits(hist, ToSet(Backoffs(hist)))
<1> DEFINE f == CHOOSE g : TakesTurns(g)
           begin == [queue |-> <<hist>>, isOnQueue |-> {hist}, values |-> <<>>]
           Good(it) == f[it] \in Seq(SomeHistory) /\ Visits(hist, ToSet(f[it]))
           Bad == {TurnsLeft(hist, it) : it \in {it \in BackoffIterator : Iterating(hist, it) /\ ~ Good(it)}}
<1>1. Backoffs(hist) = f[begin]
  BY Zenon DEF Backoffs, TakesTurns
<1>2. TakesTurns(f)
  BY TakesTurnsExists
<1> HIDE DEF f
<1>3. \A it \in BackoffIterator : f[it] = IF it.queue = <<>> THEN it.values ELSE f[Advanced(it)]
  BY <1>2 DEF TakesTurns
<1>4. ASSUME NEW it, Iterating(hist, it), it.queue = <<>> PROVE Good(it)
  <2>1. /\ it \in BackoffIterator /\ it.isOnQueue = ToSet(it.queue) \cup ToSet(it.values)
        /\ hist \in it.isOnQueue /\ it.isOnQueue \subseteq EndsOf(hist)
        /\ \A h \in ToSet(it.values) : ToSet(Shorter(h)) \subseteq it.isOnQueue
    BY <1>4 DEF Iterating
  <2>2. ToSet(it.queue) = {} /\ it.values \in Seq(SomeHistory)
    BY <1>4, <2>1, EmptyFacts DEF BackoffIterator
  <2>3. f[it] = it.values /\ it.isOnQueue = ToSet(it.values)
    BY <1>3, <1>4, <2>1, <2>2
  <2> QED BY <2>1, <2>2, <2>3 DEF Visits
<1>5. \A it \in BackoffIterator : Iterating(hist, it) => TurnsLeft(hist, it) \in Nat
  <2> SUFFICES ASSUME NEW it \in BackoffIterator, Iterating(hist, it) PROVE TurnsLeft(hist, it) \in Nat
    OBVIOUS
  <2>1. it.queue \in Seq(SomeHistory)
    BY DEF BackoffIterator
  <2>2. IsFiniteSet(EndsOf(hist) \ it.isOnQueue)
    BY EndsFinite, FS_Subset
  <2>3. Cardinality(EndsOf(hist) \ it.isOnQueue) \in Nat /\ Len(it.queue) \in Nat
    BY <2>1, <2>2, FS_CardinalityType
  <2> QED BY <2>3 DEF TurnsLeft
<1>6. Bad = {}
  <2> SUFFICES ASSUME Bad # {} PROVE FALSE
    OBVIOUS
  <2>1. Bad \in SUBSET Nat
    BY <1>5
  <2>2. PICK n \in Bad : \A k \in Bad : n <= k
    <3> HIDE DEF Bad
    <3> QED BY <2>1, LeastNatural
  <2>3. PICK it \in BackoffIterator : Iterating(hist, it) /\ ~ Good(it) /\ n = TurnsLeft(hist, it)
    BY <2>2
  <2>4. it.queue # <<>>
    BY <1>4, <2>3
  <2>5. /\ Iterating(hist, Advanced(it))
        /\ TurnsLeft(hist, Advanced(it)) \in Nat /\ TurnsLeft(hist, Advanced(it)) < TurnsLeft(hist, it)
    BY <2>3, <2>4, TurnKeeps
  <2>6. f[it] = f[Advanced(it)]
    BY <1>3, <2>4
  <2>7. Advanced(it) \in BackoffIterator /\ ~ Good(Advanced(it))
    BY <2>3, <2>5, <2>6 DEF Iterating
  <2>8. TurnsLeft(hist, Advanced(it)) \in Bad
    BY <2>5, <2>7
  <2>9. n <= TurnsLeft(hist, Advanced(it))
    <3> HIDE DEF Bad
    <3> QED BY <2>2, <2>8
  <2>10. n \in Nat
    BY <2>1, <2>2
  <2> QED BY <2>3, <2>5, <2>9, <2>10
<1>7. Iterating(hist, begin)
  <2>1. /\ <<hist>> \in Seq(SomeHistory) /\ ToSet(<<hist>>) = {hist}
        /\ <<>> \in Seq(SomeHistory) /\ ToSet(<<>>) = {}
    <3>1. DOMAIN <<hist>> = {1} /\ <<hist>>[1] = hist
      OBVIOUS
    <3> QED BY <3>1, EmptyFacts DEF ToSet
  <2>2. hist \in EndsOf(hist)
    <3>1. hist[1] \in Seq(HistoryLetter) /\ hist[2] \in Seq(HistoryLetter)
      BY DEF SomeHistory
    <3> QED BY <3>1, EndsItself DEF EndsOf, EndsHistory
  <2>3. begin.queue = <<hist>> /\ begin.isOnQueue = {hist} /\ begin.values = <<>> /\ begin \in BackoffIterator
    BY <2>1 DEF BackoffIterator
  <2> HIDE DEF begin
  <2> QED BY <2>1, <2>2, <2>3 DEF Iterating
<1>8. begin \in BackoffIterator
  BY <1>7 DEF Iterating
<1>9. Good(begin)
  <2> HIDE DEF begin, Good
  <2> QED BY <1>6, <1>7, <1>8
<1> QED BY <1>1, <1>9

\* In the end all letters are gone.
LEMMA BackoffsEnd ==
  ASSUME NEW hist \in SomeHistory
  PROVE  NoHistory \in ToSet(Backoffs(hist))
<1> DEFINE S == ToSet(Backoffs(hist))
           size(g) == Len(g[1]) + Len(g[2])
           Sizes == {size(h) : h \in S}
<1>1. hist \in S /\ S \subseteq SomeHistory /\ \A h \in S : ToSet(Shorter(h)) \subseteq S
  BY BackoffsAre DEF Visits, EndsOf
<1> HIDE DEF S
<1>2. \A h \in S : h[1] \in Seq(HistoryLetter) /\ h[2] \in Seq(HistoryLetter) /\ h = <<h[1], h[2]>>
                   /\ Len(h[1]) \in Nat /\ Len(h[2]) \in Nat
  BY <1>1 DEF SomeHistory
<1>3. Sizes \in SUBSET Nat /\ Sizes # {}
  <2>1. ASSUME NEW h \in S PROVE size(h) \in Nat
    <3>1. Len(h[1]) \in Nat /\ Len(h[2]) \in Nat
      BY <1>2
    <3>2. \A i, j \in Nat : i + j \in Nat
      OBVIOUS
    <3> QED BY <3>1, <3>2
  <2>2. size(hist) \in Sizes
    BY <1>1
  <2> HIDE DEF size
  <2> QED BY <2>1, <2>2
<1>4. PICK n \in Sizes : \A k \in Sizes : n <= k
  <2> HIDE DEF Sizes
  <2> QED BY <1>3, LeastNatural
<1>5. PICK h \in S : n = size(h)
  BY <1>4
<1>6. ToSet(Shorter(h)) = {<<DropFirst(h[1]), h[2]>>, <<h[1], DropFirst(h[2])>>}
  BY <1>1, ShorterIs
<1>7. <<DropFirst(h[1]), h[2]>> \in S /\ <<h[1], DropFirst(h[2])>> \in S
  BY <1>1, <1>6
<1>8. n <= Len(DropFirst(h[1])) + Len(h[2]) /\ n <= Len(h[1]) + Len(DropFirst(h[2]))
  <2>1. size(<<DropFirst(h[1]), h[2]>>) \in Sizes /\ size(<<h[1], DropFirst(h[2])>>) \in Sizes
    BY <1>7
  <2>2. n <= size(<<DropFirst(h[1]), h[2]>>) /\ n <= size(<<h[1], DropFirst(h[2])>>)
    <3> HIDE DEF Sizes, size
    <3> QED BY <1>4, <2>1
  <2> QED BY <2>2
<1>9. ASSUME NEW w \in Seq(HistoryLetter), w # <<>> PROVE Len(DropFirst(w)) = Len(w) - 1
  BY <1>9, TailFacts DEF DropFirst
<1>10. h[1] = <<>> /\ h[2] = <<>>
  <2>1. h[1] # <<>> => Len(DropFirst(h[1])) = Len(h[1]) - 1
    BY <1>2, <1>9
  <2>2. h[2] # <<>> => Len(DropFirst(h[2])) = Len(h[2]) - 1
    BY <1>2, <1>9
  <2> QED BY <1>2, <1>5, <1>8, <2>1, <2>2
<1>11. h = NoHistory
  BY <1>2, <1>10 DEF NoHistory
<1> QED BY <1>5, <1>11 DEF S

\* The history that is backed off to is an end of the history, and let through.
LEMMA GetBackoffHistoryIs ==
  ASSUME NEW hist \in SomeHistory, NEW allowed, NoHistory \in allowed
  PROVE  GetBackoffHistory(hist, allowed) \in allowed \cap EndsOf(hist)
<1> DEFINE B == Backoffs(hist)
           I == {i \in DOMAIN B : B[i] \in allowed}
           best(i) == B[i] \in allowed /\ \A j \in 1 .. i - 1 : B[j] \notin allowed
<1>1. B \in Seq(SomeHistory) /\ ToSet(B) \subseteq EndsOf(hist) /\ NoHistory \in ToSet(B)
  BY BackoffsAre, BackoffsEnd DEF Visits
<1>2. GetBackoffHistory(hist, allowed) = B[CHOOSE i \in DOMAIN B : best(i)]
  BY Zenon DEF GetBackoffHistory
<1> HIDE DEF B
<1>3. Len(B) \in Nat /\ DOMAIN B = 1 .. Len(B)
  BY <1>1
<1>4. I \in SUBSET Nat /\ I # {}
  <2>1. \E i \in DOMAIN B : B[i] = NoHistory
    BY <1>1 DEF ToSet
  <2> QED BY <1>3, <2>1
<1>5. PICK i \in I : \A j \in I : i <= j
  <2> HIDE DEF I
  <2> QED BY <1>4, LeastNatural
<1>6. i \in DOMAIN B /\ best(i)
  <2>1. i \in 1 .. Len(B) /\ B[i] \in allowed
    BY <1>3
  <2>2. ASSUME NEW j \in 1 .. i - 1, B[j] \in allowed PROVE FALSE
    <3>1. j \in 1 .. Len(B) /\ ~ (i <= j)
      BY <1>3, <2>1
    <3>2. j \in I
      BY <1>3, <2>2, <3>1
    <3> HIDE DEF I
    <3> QED BY <1>5, <3>1, <3>2
  <2> QED BY <1>3, <2>1, <2>2
<1>7. PICK m \in DOMAIN B : m = (CHOOSE k \in DOMAIN B : best(k)) /\ best(m)
  <2> HIDE DEF best
  <2> QED BY <1>6
<1>8. B[m] \in ToSet(B) /\ B[m] \in allowed
  BY <1>7 DEF ToSet
<1> QED BY <1>1, <1>2, <1>7, <1>8

-----------------------------------------------------------------------------
(* Histories that are extended.                                            *)

\* The letters of a symbol, epsilon or not.
LEMMA SymbolLetters ==
  ASSUME NEW s \in AnySymbol
  PROVE  /\ s.in # Eps => s.in \in HistoryLetter
         /\ s.out # Eps => s.out \in HistoryLetter
BY DEF AnySymbol, Letter, HistoryLetter

WithLetter(w, c) == IF c = Eps THEN w ELSE Append(w, c)

\* What ends a string still does when both get the same letter.
LEMMA WithLetterEnds ==
  ASSUME NEW w \in Seq(HistoryLetter), NEW c, c = Eps \/ c \in HistoryLetter
  PROVE  /\ WithLetter(w, c) \in Seq(HistoryLetter)
         /\ \A v \in Seq(HistoryLetter) : Ends(v, w) => Ends(WithLetter(v, c), WithLetter(w, c))
         /\ Len(WithLetter(w, c)) = Len(w) + IF c = Eps THEN 0 ELSE 1
         /\ w # <<>> => Tail(WithLetter(w, c)) = WithLetter(Tail(w), c)
<1>1. CASE c = Eps
  BY <1>1 DEF WithLetter
<1>2. CASE c # Eps
  <2>1. c \in HistoryLetter /\ WithLetter(w, c) = Append(w, c) /\ \A v : WithLetter(v, c) = Append(v, c)
    BY <1>2 DEF WithLetter
  <2>2. Append(w, c) \in Seq(HistoryLetter) /\ Len(Append(w, c)) = Len(w) + 1
    BY <2>1, AppendFacts
  <2>3. \A v \in Seq(HistoryLetter) : Ends(v, w) => Ends(Append(v, c), Append(w, c))
    BY <2>1, EndsAppend
  <2>4. w # <<>> => Tail(Append(w, c)) = Append(Tail(w), c)
    <3>1. \A t \in Seq(HistoryLetter), d \in HistoryLetter : t # <<>> => Tail(Append(t, d)) = Append(Tail(t), d)
      OBVIOUS
    <3> QED BY <2>1, <3>1
  <2> QED BY <1>2, <2>1, <2>2, <2>3, <2>4
<1> QED BY <1>1, <1>2

\* The same of histories.
LEMMA ExtendIs ==
  ASSUME NEW h, NEW s
  PROVE  ExtendHistory(h, s) = <<WithLetter(h[1], s.in), WithLetter(h[2], s.out)>>
BY DEF ExtendHistory, WithLetter

\* What ends a history still does when both are extended.
LEMMA ExtendEnds ==
  ASSUME NEW hist \in SomeHistory, NEW s \in AnySymbol
  PROVE  /\ ExtendHistory(hist, s) \in SomeHistory
         /\ \A h \in EndsOf(hist) : ExtendHistory(h, s) \in EndsOf(ExtendHistory(hist, s))
<1>1. hist[1] \in Seq(HistoryLetter) /\ hist[2] \in Seq(HistoryLetter)
  BY DEF SomeHistory
<1>2. (s.in = Eps \/ s.in \in HistoryLetter) /\ (s.out = Eps \/ s.out \in HistoryLetter)
  BY SymbolLetters
<1>3. WithLetter(hist[1], s.in) \in Seq(HistoryLetter) /\ WithLetter(hist[2], s.out) \in Seq(HistoryLetter)
  BY <1>1, <1>2, WithLetterEnds
<1>4. ExtendHistory(hist, s) \in SomeHistory
  BY <1>3, ExtendIs DEF SomeHistory
<1>5. ASSUME NEW h \in EndsOf(hist) PROVE ExtendHistory(h, s) \in EndsOf(ExtendHistory(hist, s))
  <2>1. h[1] \in Seq(HistoryLetter) /\ h[2] \in Seq(HistoryLetter) /\ Ends(h[1], hist[1]) /\ Ends(h[2], hist[2])
    BY DEF EndsOf, EndsHistory, SomeHistory
  <2>2. WithLetter(h[1], s.in) \in Seq(HistoryLetter) /\ Ends(WithLetter(h[1], s.in), WithLetter(hist[1], s.in))
    BY <1>1, <1>2, <2>1, WithLetterEnds
  <2>3. WithLetter(h[2], s.out) \in Seq(HistoryLetter) /\ Ends(WithLetter(h[2], s.out), WithLetter(hist[2], s.out))
    BY <1>1, <1>2, <2>1, WithLetterEnds
  <2>4. ExtendHistory(h, s) = <<WithLetter(h[1], s.in), WithLetter(h[2], s.out)>>
        /\ ExtendHistory(hist, s) = <<WithLetter(hist[1], s.in), WithLetter(hist[2], s.out)>>
    BY ExtendIs
  <2> QED BY <2>2, <2>3, <2>4 DEF EndsOf, EndsHistory, SomeHistory
<1> QED BY <1>4, <1>5

\* What ends the end of a history ends it.
LEMMA EndsOfEnds ==
  ASSUME NEW hist \in SomeHistory, NEW h \in EndsOf(hist)
  PROVE  h \in SomeHistory /\ EndsOf(h) \subseteq EndsOf(hist) /\ hist \in EndsOf(hist)
<1>1. hist[1] \in Seq(HistoryLetter) /\ hist[2] \in Seq(HistoryLetter)
  BY DEF SomeHistory
<1>2. h \in SomeHistory /\ h[1] \in Seq(HistoryLetter) /\ h[2] \in Seq(HistoryLetter)
      /\ Ends(h[1], hist[1]) /\ Ends(h[2], hist[2])
  BY DEF EndsOf, EndsHistory, SomeHistory
<1>3. ASSUME NEW g \in EndsOf(h) PROVE g \in EndsOf(hist)
  <2>1. g \in SomeHistory /\ g[1] \in Seq(HistoryLetter) /\ g[2] \in Seq(HistoryLetter)
        /\ Ends(g[1], h[1]) /\ Ends(g[2], h[2])
    BY DEF EndsOf, EndsHistory, SomeHistory
  <2>2. Ends(g[1], hist[1]) /\ Ends(g[2], hist[2])
    BY <1>1, <1>2, <2>1, EndsChain
  <2> QED BY <2>1, <2>2 DEF EndsOf, EndsHistory
<1>4. hist \in EndsOf(hist)
  BY <1>1, EndsItself DEF EndsOf, EndsHistory
<1> QED BY <1>2, <1>3, <1>4

\* S|S and E|E as histories.
LEMMA HookHistories ==
  ASSUME IsTable(table)
  PROVE  /\ NoHistory \in SomeHistory /\ StartHistory \in SomeHistory
         /\ ExtendHistory(NoHistory, table[StartLabel]) = StartHistory
         /\ \A h \in SomeHistory : EndHistory \in EndsOf(ExtendHistory(h, table[EndLabel]))
<1>1. table[StartLabel] = StartSym /\ table[EndLabel] = EndSym /\ EndSym \in AnySymbol
  BY EndLabelIs, SpecialSymbols
<1>2. "S" # Eps /\ "E" # Eps /\ "S" \in HistoryLetter /\ "E" \in HistoryLetter
  BY DEF Eps, HistoryLetter
<1>3. <<"S">> \in Seq(HistoryLetter) /\ <<"E">> \in Seq(HistoryLetter) /\ <<>> \in Seq(HistoryLetter)
  BY <1>2
<1>4. NoHistory \in SomeHistory /\ StartHistory \in SomeHistory /\ EndHistory \in SomeHistory
  BY <1>3 DEF NoHistory, StartHistory, EndHistory, SomeHistory
<1>5. ExtendHistory(NoHistory, table[StartLabel]) = StartHistory
  <2>1. WithLetter(<<>>, "S") = <<"S">>
    BY <1>2 DEF WithLetter
  <2>2. StartSym.in = "S" /\ StartSym.out = "S" /\ NoHistory[1] = <<>> /\ NoHistory[2] = <<>>
    BY DEF StartSym, Symbol, NoHistory
  <2> QED BY <1>1, <2>1, <2>2, ExtendIs DEF StartHistory
<1>6. ASSUME NEW h \in SomeHistory PROVE EndHistory \in EndsOf(ExtendHistory(h, table[EndLabel]))
  <2>1. EndSym.in = "E" /\ EndSym.out = "E"
    BY DEF EndSym, Symbol
  <2>2. ExtendHistory(h, table[EndLabel]) = <<Append(h[1], "E"), Append(h[2], "E")>>
    BY <1>1, <1>2, <2>1, ExtendIs DEF WithLetter
  <2>3. h[1] \in Seq(HistoryLetter) /\ h[2] \in Seq(HistoryLetter)
    BY DEF SomeHistory
  <2>4. ASSUME NEW w \in Seq(HistoryLetter) PROVE Ends(<<"E">>, Append(w, "E"))
    <3>1. Len(Append(w, "E")) = Len(w) + 1 /\ Append(w, "E")[Len(w) + 1] = "E" /\ Len(w) \in Nat
      BY <1>2, AppendFacts
    <3>2. Len(<<"E">>) = 1 /\ <<"E">>[1] = "E"
      OBVIOUS
    <3> QED BY <3>1, <3>2 DEF Ends
  <2>5. EndHistory[1] = <<"E">> /\ EndHistory[2] = <<"E">>
    BY DEF EndHistory
  <2> DEFINE x == ExtendHistory(h, table[EndLabel])
  <2>6. x[1] = Append(h[1], "E") /\ x[2] = Append(h[2], "E")
    BY <2>2
  <2> HIDE DEF x
  <2>7. Ends(<<"E">>, x[1]) /\ Ends(<<"E">>, x[2])
    BY <2>3, <2>4, <2>6
  <2>8. EndHistory \in EndsOf(x)
    BY <1>4, <2>5, <2>7 DEF EndsOf, EndsHistory
  <2> QED BY <2>8 DEF x
<1> QED BY <1>4, <1>5, <1>6

-----------------------------------------------------------------------------
(* The machine with histories for states.                                  *)

\* The history of a state is the end of what leads to it.
Remembers(m) ==
  LET Q == {q \in DOMAIN m.arcs : m.history[q] \in SomeHistory}
      q0 == m.arcs[m.start][StartLabel]
  IN /\ q0 \in Q /\ m.history[q0] \in EndsOf(StartHistory)
     /\ \A q \in Q : \A l \in DOMAIN m.arcs[q] :
          /\ l \in DOMAIN table /\ m.arcs[q][l] \in Q
          /\ m.history[m.arcs[q][l]] \in EndsOf(ExtendHistory(m.history[q], table[l]))

\* A way is where one is and what one has read.
WaysOn(step, T, A, c, n) ==
  /\ c \in [Nat -> T] /\ c[0] \in A
  /\ \A i \in 1 .. n : c[i] \in step[c[i - 1]]

\* A function that gives the ends of all ways of some length.
EndsOfWays(step, A, g) == g = [n \in Nat |-> IF n = 0 THEN A ELSE UNION {step[e] : e \in g[n - 1]}]
\* It exists.
LEMMA WaysExist ==
  ASSUME NEW T, NEW A \in SUBSET T, NEW step \in [T -> SUBSET T]
  PROVE  \E g \in [Nat -> SUBSET T] : EndsOfWays(step, A, g)
<1> DEFINE at(n) == {z \in T : \E c : WaysOn(step, T, A, c, n) /\ c[n] = z}
           g == [n \in Nat |-> at(n)]
<1>1. at(0) = A
  <2>1. ASSUME NEW z \in A PROVE z \in at(0)
    <3>1. WaysOn(step, T, A, [i \in Nat |-> z], 0) /\ [i \in Nat |-> z][0] = z
      BY DEF WaysOn
    <3> QED BY <3>1
  <2>2. ASSUME NEW z \in at(0) PROVE z \in A
    BY DEF WaysOn
  <2> HIDE DEF at
  <2> QED BY <2>1, <2>2
<1>2. ASSUME NEW n \in Nat, n # 0 PROVE at(n) = UNION {step[e] : e \in at(n - 1)}
  <2>1. ASSUME NEW z \in at(n) PROVE \E e \in at(n - 1) : z \in step[e]
    <3>1. PICK c : WaysOn(step, T, A, c, n) /\ c[n] = z
      OBVIOUS
    <3>2. WaysOn(step, T, A, c, n - 1) /\ c[n - 1] \in T /\ z \in step[c[n - 1]]
      <4>1. n - 1 \in Nat /\ n \in 1 .. n /\ \A i \in 1 .. n - 1 : i \in 1 .. n
        BY <1>2
      <4> QED BY <3>1, <4>1 DEF WaysOn
    <3> QED BY <3>2
  <2>2. ASSUME NEW e \in at(n - 1), NEW z \in step[e] PROVE z \in at(n)
    <3>1. PICK c : WaysOn(step, T, A, c, n - 1) /\ c[n - 1] = e
      OBVIOUS
    <3>2. z \in T
      BY <2>2
    <3> DEFINE d == [c EXCEPT ![n] = z]
    <3>3. d \in [Nat -> T] /\ d[n] = z /\ \A i \in Nat : i # n => d[i] = c[i]
      BY <3>1, <3>2 DEF WaysOn
    <3> HIDE DEF d
    <3>4. d[0] \in A
      BY <1>2, <3>1, <3>3 DEF WaysOn
    <3>5. ASSUME NEW i \in 1 .. n PROVE d[i] \in step[d[i - 1]]
      <4>1. i \in Nat /\ i - 1 \in Nat /\ i - 1 # n /\ d[i - 1] = c[i - 1]
        <5>1. i \in Nat /\ i - 1 \in Nat /\ i - 1 # n
          BY <1>2
        <5> QED BY <3>3, <5>1
      <4>2. CASE i = n
        BY <2>2, <3>1, <3>3, <4>1, <4>2
      <4>3. CASE i # n
        <5>1. i \in 1 .. n - 1
          BY <1>2, <4>3
        <5> QED BY <3>1, <3>3, <4>1, <4>3, <5>1 DEF WaysOn
      <4> QED BY <4>2, <4>3
    <3>6. WaysOn(step, T, A, d, n)
      BY <3>3, <3>4, <3>5 DEF WaysOn
    <3> QED BY <3>2, <3>3, <3>6
  <2>3. at(n - 1) \subseteq T
    OBVIOUS
  <2> HIDE DEF at
  <2> QED BY <2>1, <2>2, <2>3
<1>3. g \in [Nat -> SUBSET T]
  OBVIOUS
<1>4. ASSUME NEW n \in Nat PROVE g[n] = IF n = 0 THEN A ELSE UNION {step[e] : e \in g[n - 1]}
  <2>1. CASE n = 0
    <3> HIDE DEF at
    <3> QED BY <1>1, <2>1
  <2>2. CASE n # 0
    <3>1. n - 1 \in Nat
      BY <2>2
    <3> HIDE DEF at
    <3> QED BY <1>2, <2>2, <3>1
  <2> QED BY <2>1, <2>2
<1>5. g = [n \in Nat |-> g[n]]
  OBVIOUS
<1> HIDE DEF g
<1>6. g = [n \in Nat |-> IF n = 0 THEN A ELSE UNION {step[e] : e \in g[n - 1]}]
  BY <1>4, <1>5
<1>7. EndsOfWays(step, A, g)
  BY <1>6 DEF EndsOfWays
<1> QED BY <1>3, <1>7

\* Where the letter of E|E is not.
Unended(h) ==
  /\ \A i \in 1 .. Len(h[1]) : h[1][i] # "E"
  /\ \A i \in 1 .. Len(h[2]) : h[2][i] # "E"

\* Nor is it in the ends of it, nor if another symbol is added.
LEMMA UnendedEnds ==
  ASSUME NEW hist \in SomeHistory, Unended(hist), NEW h \in EndsOf(hist)
  PROVE  Unended(h)
<1>1. ASSUME NEW w \in Seq(HistoryLetter), NEW v \in Seq(HistoryLetter), Ends(w, v),
             \A i \in 1 .. Len(v) : v[i] # "E", NEW i \in 1 .. Len(w)
      PROVE  w[i] # "E"
  <2>1. Len(w) <= Len(v) /\ w[i] = v[Len(v) - Len(w) + i] /\ Len(w) \in Nat /\ Len(v) \in Nat
    BY <1>1 DEF Ends
  <2>2. Len(v) - Len(w) + i \in 1 .. Len(v)
    BY <2>1
  <2> QED BY <1>1, <2>1, <2>2
<1>2. /\ h[1] \in Seq(HistoryLetter) /\ h[2] \in Seq(HistoryLetter)
      /\ hist[1] \in Seq(HistoryLetter) /\ hist[2] \in Seq(HistoryLetter)
      /\ Ends(h[1], hist[1]) /\ Ends(h[2], hist[2])
  BY DEF EndsOf, EndsHistory, SomeHistory
<1> QED BY <1>1, <1>2 DEF Unended

\* Another symbol does not bring it in.
LEMMA UnendedExtends ==
  ASSUME IsTable(table), NEW hist \in SomeHistory, Unended(hist), NEW l \in 1 .. Len(table), l # EndLabel
  PROVE  Unended(ExtendHistory(hist, table[l]))
<1> DEFINE s == table[l]
<1>1. s \in AnySymbol /\ s \in ToSet(table) /\ IsAlignmentSym(s) /\ (IsSpecial(Nola(s)) => IsSpecial(s))
  BY DEF IsTable, ToSet
<1>2. s # EndSym
  BY EndLabelIs
<1>3. table[StartLabel] = StartSym /\ StartSym.in = "S" /\ StartSym.out = "S"
  BY EndLabelIs DEF StartSym, Symbol
<1> HIDE DEF s
<1>4. s.in # "E" /\ s.out # "E"
  <2> SUFFICES ASSUME s.in = "E" \/ s.out = "E" PROVE FALSE
    OBVIOUS
  <2>1. s.in = "E" /\ s.out = "E"
    BY <1>1 DEF IsAlignmentSym
  <2>2. Nola(s) = EndSym
    BY <2>1 DEF Nola, EndSym
  <2>3. IsSpecial(s)
    BY <1>1, <2>2 DEF IsSpecial
  <2>4. s = StartSym
    BY <1>2, <2>3 DEF IsSpecial
  <2>5. "S" # "E"
    OBVIOUS
  <2> QED BY <1>3, <2>1, <2>4, <2>5
<1>5. ASSUME NEW w \in Seq(HistoryLetter), \A i \in 1 .. Len(w) : w[i] # "E",
             NEW c, c = Eps \/ c \in HistoryLetter, c # "E", NEW i \in 1 .. Len(WithLetter(w, c))
      PROVE  WithLetter(w, c)[i] # "E"
  <2>1. CASE c = Eps
    BY <1>5, <2>1 DEF WithLetter
  <2>2. CASE c # Eps
    <3>1. c \in HistoryLetter /\ WithLetter(w, c) = Append(w, c)
      BY <1>5, <2>2 DEF WithLetter
    <3>2. /\ Len(Append(w, c)) = Len(w) + 1 /\ Append(w, c)[Len(w) + 1] = c /\ Len(w) \in Nat
          /\ \A j \in 1 .. Len(w) : Append(w, c)[j] = w[j]
      BY <3>1, AppendFacts
    <3>3. i = Len(w) + 1 \/ i \in 1 .. Len(w)
      BY <3>1, <3>2
    <3> QED BY <1>5, <3>1, <3>2, <3>3
  <2> QED BY <2>1, <2>2
<1>6. hist[1] \in Seq(HistoryLetter) /\ hist[2] \in Seq(HistoryLetter)
  BY DEF SomeHistory
<1>7. (s.in = Eps \/ s.in \in HistoryLetter) /\ (s.out = Eps \/ s.out \in HistoryLetter)
  BY <1>1, SymbolLetters
<1> DEFINE x == ExtendHistory(hist, s)
<1>8. x[1] = WithLetter(hist[1], s.in) /\ x[2] = WithLetter(hist[2], s.out)
  BY ExtendIs
<1>9. (\A i \in 1 .. Len(hist[1]) : hist[1][i] # "E") /\ (\A i \in 1 .. Len(hist[2]) : hist[2][i] # "E")
  BY DEF Unended
<1> HIDE DEF x
<1>10. \A i \in 1 .. Len(x[1]) : x[1][i] # "E"
  BY <1>4, <1>5, <1>6, <1>7, <1>8, <1>9
<1>11. \A i \in 1 .. Len(x[2]) : x[2][i] # "E"
  BY <1>4, <1>5, <1>6, <1>7, <1>8, <1>9
<1> QED BY <1>10, <1>11 DEF Unended, x, s

\* S|S has it not, E|E has it.
LEMMA HooksUnended == Unended(StartHistory) /\ ~ Unended(EndHistory)
<1>1. /\ StartHistory[1] = <<"S">> /\ StartHistory[2] = <<"S">> /\ EndHistory[1] = <<"E">>
      /\ "S" # "E"
  BY DEF StartHistory, EndHistory
<1>2. Len(<<"S">>) = 1 /\ <<"S">>[1] = "S" /\ Len(<<"E">>) = 1 /\ <<"E">>[1] = "E" /\ 1 \in 1 .. 1
      /\ \A i \in 1 .. 1 : i = 1
  OBVIOUS
<1> QED BY <1>1, <1>2 DEF Unended

-----------------------------------------------------------------------------
(* While the machine is made.                                              *)

\* Where label l leads to from a history.
Target(h, l) ==
  IF l = EndLabel THEN EndHistory ELSE GetBackoffHistory(ExtendHistory(h, table[l]), histories)

\* The states are histories, and only the last one has the letter of E|E; each of the
\* others is still to be expanded, or has an arc for each symbol.
Explored ==
  /\ NoHistory \in histories
  /\ IsFiniteSet(DOMAIN next) /\ DOMAIN next \subseteq SomeHistory
  /\ \A h \in DOMAIN next : h = EndHistory \/ Unended(h)
  /\ stack \in Seq(DOMAIN next \ {EndHistory})
  /\ GetBackoffHistory(StartHistory, histories) \in DOMAIN next \ {EndHistory}
  /\ \A h \in DOMAIN next : \A l \in DOMAIN next[h] :
       /\ l \in 1 .. Len(table) /\ next[h][l] \in DOMAIN next
       /\ next[h][l] \in EndsOf(ExtendHistory(h, table[l]))
       /\ l # EndLabel => next[h][l] # EndHistory
  /\ \A h \in DOMAIN next \ {EndHistory} : h \in ToSet(stack) \/ DOMAIN next[h] = 1 .. Len(table)

\* A target is an end of the extended history, and without the letter of E|E unless it is E|E.
LEMMA TargetIs ==
  ASSUME IsTable(table), NoHistory \in histories, NEW h \in SomeHistory, Unended(h), NEW l \in 1 .. Len(table)
  PROVE  /\ Target(h, l) \in SomeHistory /\ Target(h, l) \in EndsOf(ExtendHistory(h, table[l]))
         /\ IF l = EndLabel THEN Target(h, l) = EndHistory
            ELSE Unended(Target(h, l)) /\ Target(h, l) # EndHistory
<1>1. table[l] \in AnySymbol
  BY DEF IsTable
<1>2. ExtendHistory(h, table[l]) \in SomeHistory
  BY <1>1, ExtendEnds
<1>3. CASE l = EndLabel
  <2>1. Target(h, l) = EndHistory
    BY <1>3 DEF Target
  <2>2. EndHistory \in EndsOf(ExtendHistory(h, table[l]))
    BY <1>3, HookHistories
  <2> QED BY <1>3, <2>1, <2>2 DEF EndsOf
<1>4. CASE l # EndLabel
  <2>1. Target(h, l) = GetBackoffHistory(ExtendHistory(h, table[l]), histories)
    BY <1>4 DEF Target
  <2>2. Target(h, l) \in EndsOf(ExtendHistory(h, table[l]))
    BY <1>2, <2>1, GetBackoffHistoryIs
  <2>3. Unended(ExtendHistory(h, table[l]))
    BY <1>4, UnendedExtends
  <2>4. Unended(Target(h, l))
    BY <1>2, <2>2, <2>3, UnendedEnds
  <2> QED BY <1>4, <2>2, <2>4, HooksUnended DEF EndsOf
<1> QED BY <1>3, <1>4

\* The first history is the one that S|S leads to.
LEMMA StartExplored ==
  ASSUME StartScoring, stage' = "noepshist"
  PROVE  Explored'
<1> DEFINE allowed == histories'
           start == GetBackoffHistory(StartHistory, allowed)
<1>1. /\ NoHistory \in allowed /\ next' = [h \in {start} |-> <<>>] /\ stack' = <<start>>
      /\ table' = table
  BY DEF StartScoring
<1>2. StartHistory \in SomeHistory
  <2>1. <<"S">> \in Seq(HistoryLetter)
    BY DEF HistoryLetter
  <2> QED BY <2>1 DEF StartHistory, SomeHistory
<1>3. start \in allowed \cap EndsOf(StartHistory)
  <2> HIDE DEF allowed
  <2> QED BY <1>1, <1>2, GetBackoffHistoryIs
<1>4. start \in SomeHistory /\ Unended(start) /\ start # EndHistory
  <2>1. Unended(start)
    BY <1>2, <1>3, UnendedEnds, HooksUnended
  <2> QED BY <1>3, <2>1, HooksUnended DEF EndsOf
<1>5. GetBackoffHistory(StartHistory, histories)' = start
  OBVIOUS
<1> HIDE DEF start
<1>6. DOMAIN next' = {start} /\ DOMAIN next'[start] = {} /\ IsFiniteSet({start})
      /\ stack' \in Seq({start}) /\ ToSet(stack') = {start}
  <2>1. DOMAIN <<start>> = {1} /\ <<start>>[1] = start
    OBVIOUS
  <2>2. <<start>> \in Seq({start}) /\ ToSet(<<start>>) = {start}
    BY <2>1 DEF ToSet
  <2>3. DOMAIN next' = {start} /\ next'[start] = <<>> /\ stack' = <<start>>
    BY <1>1 DEF start
  <2> QED BY <2>2, <2>3, FS_Singleton, EmptyFacts
<1>7. {start} = {start} \ {EndHistory}
  BY <1>4
<1> QED BY <1>1, <1>4, <1>5, <1>6, <1>7 DEF Explored

\* What a history gets when it is expanded: its arcs, the labels that lead to histories
\* not met before, and these in order.
ArcsFrom(hist) == [l \in 1 .. Len(table) |-> Target(hist, l)]
NewFrom(hist) ==
  {l \in 1 .. Len(table) :
     ArcsFrom(hist)[l] \notin DOMAIN next /\ \A m \in 1 .. l - 1 : ArcsFrom(hist)[m] # ArcsFrom(hist)[l]}
TodoFrom(hist) == Sorted(NewFrom(hist) \ {EndLabel})
\* The step, with these.
LEMMA AddArcsIs ==
  ASSUME AddArcs, DOMAIN table = 1 .. Len(table)
  PROVE  LET hist == Head(stack)
             target == ArcsFrom(hist)
             todo == TodoFrom(hist)
         IN /\ next' = [h \in DOMAIN next \cup Range(target) |->
                         IF h = hist THEN target ELSE IF h \in DOMAIN next THEN next[h] ELSE <<>>]
            /\ stack' = Tail(stack) \o [i \in DOMAIN todo |-> target[todo[i]]]
<1> DEFINE hist == Head(stack)
           target == Tabulated([l \in DOMAIN table |->
                       IF l = EndLabel THEN EndHistory
                       ELSE GetBackoffHistory(ExtendHistory(hist, table[l]), histories)])
           new == {l \in DOMAIN table :
                     target[l] \notin DOMAIN next /\ \A m \in 1 .. l - 1 : target[m] # target[l]}
           todo == Sorted(new \ {EndLabel})
<1>1. target = ArcsFrom(hist)
  BY TabulatedIs DEF Target, ArcsFrom
<1>2. /\ next' = [h \in DOMAIN next \cup Range(target) |->
                    IF h = hist THEN target ELSE IF h \in DOMAIN next THEN next[h] ELSE <<>>]
      /\ stack' = Tail(stack) \o [i \in DOMAIN todo |-> target[todo[i]]]
  BY Zenon DEF AddArcs
<1> HIDE DEF target
<1>3. new = NewFrom(hist)
  BY <1>1 DEF NewFrom
<1>4. todo = TodoFrom(hist)
  BY <1>3 DEF TodoFrom
<1> HIDE DEF new, todo
<1> QED BY <1>1, <1>2, <1>4

\* Each history is put on the stack when it is met, and expanded when it is taken off.
LEMMA ArcsExplored ==
  ASSUME IsTable(table), Explored, AddArcs
  PROVE  Explored'
<1> DEFINE n == Len(table)
           hist == Head(stack)
           D == DOMAIN next
<1>1. /\ n \in Nat /\ DOMAIN table = 1 .. n /\ table' = table /\ histories' = histories /\ stack # <<>>
      /\ EndLabel \in 1 .. n /\ EndLabel' = EndLabel
  <2>1. n \in Nat /\ DOMAIN table = 1 .. n /\ EndLabel \in 1 .. n
    BY EndLabelIs DEF IsTable
  <2>2. table' = table /\ histories' = histories /\ stack # <<>>
    BY DEF AddArcs
  <2> QED BY <2>1, <2>2 DEF EndLabel
<1>2. /\ NoHistory \in histories /\ IsFiniteSet(D) /\ D \subseteq SomeHistory
      /\ \A h \in D : h = EndHistory \/ Unended(h)
      /\ stack \in Seq(D \ {EndHistory})
      /\ GetBackoffHistory(StartHistory, histories) \in D \ {EndHistory}
      /\ \A h \in D : \A l \in DOMAIN next[h] :
           /\ l \in 1 .. n /\ next[h][l] \in D /\ next[h][l] \in EndsOf(ExtendHistory(h, table[l]))
           /\ l # EndLabel => next[h][l] # EndHistory
      /\ \A h \in D \ {EndHistory} : h \in ToSet(stack) \/ DOMAIN next[h] = 1 .. n
  BY DEF Explored
<1> DEFINE target == ArcsFrom(hist)
           new == NewFrom(hist)
           todo == TodoFrom(hist)
<1>3. /\ target = [l \in 1 .. n |-> Target(hist, l)]
      /\ new = {l \in 1 .. n : target[l] \notin D /\ \A m \in 1 .. l - 1 : target[m] # target[l]}
      /\ todo = Sorted(new \ {EndLabel})
      /\ next' = [h \in D \cup Range(target) |->
                    IF h = hist THEN target ELSE IF h \in D THEN next[h] ELSE <<>>]
      /\ stack' = Tail(stack) \o [i \in DOMAIN todo |-> target[todo[i]]]
  BY <1>1, AddArcsIs DEF ArcsFrom, NewFrom, TodoFrom
<1> HIDE DEF target, new, todo
<1>4. /\ hist \in D \ {EndHistory} /\ Tail(stack) \in Seq(D \ {EndHistory})
      /\ ToSet(stack) = {hist} \cup ToSet(Tail(stack))
  BY <1>1, <1>2, SequenceParts
<1>5. hist \in SomeHistory /\ Unended(hist) /\ hist \in D
  BY <1>2, <1>4
<1> DEFINE T == Tail(stack)
           N == D \cup Range(target)
           more == [i \in DOMAIN todo |-> target[todo[i]]]
<1>6. \A l \in 1 .. n :
        /\ target[l] \in SomeHistory /\ target[l] \in EndsOf(ExtendHistory(hist, table[l]))
        /\ IF l = EndLabel THEN target[l] = EndHistory
           ELSE Unended(target[l]) /\ target[l] # EndHistory
  BY <1>2, <1>3, <1>5, TargetIs
<1> HIDE DEF hist, T, D, n
<1>7. DOMAIN target = 1 .. n /\ Range(target) = {target[l] : l \in 1 .. n}
  BY <1>3 DEF Range
<1>8. IsFiniteSet(N) /\ N \subseteq SomeHistory /\ \A h \in N : h = EndHistory \/ Unended(h)
  <2>1. IsFiniteSet(1 .. n)
    BY <1>1, IntervalFinite
  <2>2. IsFiniteSet(Range(target))
    <3> DEFINE R == Range(target)
               L == 1 .. n
    <3>1. IsFiniteSet(L) /\ R = {target[l] : l \in L}
      BY <1>7, <2>1
    <3> HIDE DEF R, L
    <3>2. IsFiniteSet(R)
      BY <3>1, ImageFinite
    <3> QED BY <3>2 DEF R
  <2>3. IsFiniteSet(N)
    BY <1>2, <2>2, FS_Union
  <2>4. \A h \in Range(target) : h \in SomeHistory /\ (h = EndHistory \/ Unended(h))
    BY <1>6, <1>7
  <2> QED BY <1>2, <2>3, <2>4
<1>9. todo \in Seq(new \ {EndLabel}) /\ ToSet(todo) = new \ {EndLabel}
  <2>1. new \ {EndLabel} \in SUBSET (1 .. n) /\ new \ {EndLabel} \in SUBSET Nat
    BY <1>1, <1>3
  <2>2. IsFiniteSet(new \ {EndLabel})
    <3>1. IsFiniteSet(1 .. n)
      BY <1>1, IntervalFinite
    <3> QED BY <2>1, <3>1, FS_Subset
  <2> QED BY <1>3, <2>1, <2>2, SortedIs
<1>10. \A l \in new \ {EndLabel} : l \in 1 .. n /\ target[l] \in N \ {EndHistory}
  BY <1>3, <1>6, <1>7
<1>11. more \in Seq(N \ {EndHistory}) /\ ToSet(more) = {target[l] : l \in new \ {EndLabel}}
  <2>1. DOMAIN todo = 1 .. Len(todo) /\ Len(todo) \in Nat /\ \A i \in 1 .. Len(todo) : todo[i] \in new \ {EndLabel}
    BY <1>9
  <2>2. more \in Seq(N \ {EndHistory})
    <3> HIDE DEF N
    <3> QED BY <1>10, <2>1
  <2>3. ToSet(more) = {target[todo[i]] : i \in 1 .. Len(todo)}
    BY <2>1 DEF ToSet
  <2>4. new \ {EndLabel} = {todo[i] : i \in 1 .. Len(todo)}
    BY <1>9, <2>1 DEF ToSet
  <2> HIDE DEF more
  <2> QED BY <2>2, <2>3, <2>4
<1>12. next' = [h \in N |-> IF h = hist THEN target ELSE IF h \in D THEN next[h] ELSE <<>>]
       /\ stack' = T \o more
  BY <1>3 DEF T, D, hist
<1> HIDE DEF more
<1>13. stack' \in Seq(N \ {EndHistory}) /\ ToSet(stack') = ToSet(T) \cup ToSet(more)
  <2>1. T \in Seq(N \ {EndHistory})
    <3>1. D \ {EndHistory} \subseteq N \ {EndHistory}
      OBVIOUS
    <3> QED BY <1>4, <3>1, SeqOfMore DEF T
  <2> DEFINE M == N \ {EndHistory}
  <2>2. T \in Seq(M) /\ more \in Seq(M)
    BY <1>11, <2>1
  <2> HIDE DEF M
  <2>3. T \o more \in Seq(M) /\ ToSet(T \o more) = ToSet(T) \cup ToSet(more)
    BY ONLY <2>2, ConcatFacts
  <2> QED BY <1>12, <2>3 DEF M
<1>14. DOMAIN next' = N /\ hist \in N /\ next'[hist] = target
       /\ \A h \in N \ {hist} : next'[h] = IF h \in D THEN next[h] ELSE <<>>
  BY <1>5, <1>12 DEF D, hist
<1>15. \A h \in N : \A l \in DOMAIN next'[h] :
         /\ l \in 1 .. n /\ next'[h][l] \in N /\ next'[h][l] \in EndsOf(ExtendHistory(h, table[l]))
         /\ l # EndLabel => next'[h][l] # EndHistory
  <2> SUFFICES ASSUME NEW h \in N, NEW l \in DOMAIN next'[h]
               PROVE /\ l \in 1 .. n /\ next'[h][l] \in N /\ next'[h][l] \in EndsOf(ExtendHistory(h, table[l]))
                     /\ l # EndLabel => next'[h][l] # EndHistory
    OBVIOUS
  <2>1. CASE h = hist
    <3>1. l \in 1 .. n /\ next'[h][l] = target[l] /\ target[l] \in N
      BY <1>7, <1>14, <2>1
    <3> HIDE DEF N
    <3> QED BY <1>6, <2>1, <3>1
  <2>2. CASE h # hist /\ h \in D
    <3>1. next'[h] = next[h]
      BY <1>14, <2>2
    <3>2. l \in DOMAIN next[h]
      BY <3>1
    <3>3. /\ l \in 1 .. n /\ next[h][l] \in D /\ next[h][l] \in EndsOf(ExtendHistory(h, table[l]))
          /\ l # EndLabel => next[h][l] # EndHistory
      BY <1>2, <2>2, <3>2
    <3> QED BY <3>1, <3>3
  <2>3. CASE h # hist /\ h \notin D
    <3>1. next'[h] = <<>>
      BY <1>14, <2>3
    <3> QED BY <3>1, EmptyFacts
  <2> QED BY <2>1, <2>2, <2>3
<1>16. \A h \in N \ {EndHistory} : h \in ToSet(stack') \/ DOMAIN next'[h] = 1 .. n
  <2> SUFFICES ASSUME NEW h \in N \ {EndHistory} PROVE h \in ToSet(stack') \/ DOMAIN next'[h] = 1 .. n
    OBVIOUS
  <2>1. CASE h = hist
    BY <1>7, <1>14, <2>1
  <2>2. CASE h # hist /\ h \in D
    <3>1. next'[h] = next[h] /\ (h \in ToSet(stack) \/ DOMAIN next[h] = 1 .. n)
      BY <1>2, <1>14, <2>2
    <3>2. h \in ToSet(stack) => h \in ToSet(T)
      BY <1>4, <2>2 DEF T
    <3> QED BY <1>13, <3>1, <3>2
  <2>3. CASE h \notin D
    <3> DEFINE L == {l \in 1 .. n : target[l] = h}
    <3>1. L \in SUBSET Nat /\ L # {}
      BY <1>1, <1>7, <2>3
    <3>2. PICK l \in L : \A m \in L : l <= m
      <4> HIDE DEF L
      <4> QED BY <3>1, LeastNatural
    <3>3. l \in 1 .. n /\ target[l] = h
      OBVIOUS
    <3>4. \A m \in 1 .. l - 1 : target[m] # target[l]
      <4> SUFFICES ASSUME NEW m \in 1 .. l - 1, target[m] = h PROVE FALSE
        BY <3>3
      <4>1. m \in 1 .. n /\ ~ (l <= m)
        BY <1>1, <3>3
      <4> QED BY <3>2, <4>1
    <3>5. l \in new /\ l # EndLabel
      BY <1>3, <1>6, <2>3, <3>3, <3>4 DEF D, n
    <3>6. h \in ToSet(more)
      BY <1>11, <3>3, <3>5
    <3> QED BY <1>13, <3>6
  <2> QED BY <2>1, <2>2, <2>3
<1>17. GetBackoffHistory(StartHistory, histories)' \in N \ {EndHistory} /\ NoHistory \in histories'
  <2>1. GetBackoffHistory(StartHistory, histories)' = GetBackoffHistory(StartHistory, histories)
    BY <1>1
  <2> QED BY <1>1, <1>2, <2>1
<1> HIDE DEF N
<1>18. Len(table') = n /\ table' = table
  BY <1>1 DEF n
<1>19. /\ IsFiniteSet(DOMAIN next') /\ DOMAIN next' \subseteq SomeHistory
       /\ \A h \in DOMAIN next' : h = EndHistory \/ Unended(h)
       /\ stack' \in Seq(DOMAIN next' \ {EndHistory})
  BY <1>8, <1>13, <1>14
<1> QED BY <1>1, <1>14, <1>15, <1>16, <1>17, <1>18, <1>19 DEF Explored

-----------------------------------------------------------------------------
(* The composition of the machine of histories with the well-formed strings.*)

\* The parts of ScoringFst.
BeginHistory == GetBackoffHistory(StartHistory, histories)
ArcsOfHistory(h) ==
  IF h = NewStart THEN [l \in {StartLabel} |-> BeginHistory]
  ELSE Restrict(next[h], DOMAIN next[h] \ {StartLabel})
HistoryStep(q, l) ==
  <<ArcsOfHistory(q[1])[l], WfArc(WfLimit, opts.conjs, opts.segs, q[2], table[l])>>
LiveLabels(q) == {l \in DOMAIN ArcsOfHistory(q[1]) : ~ WfDead(HistoryStep(q, l)[2])}
ArcsOfPair(q) == Tabulated([l \in LiveLabels(q) |-> HistoryStep(q, l)])
HistoryPairs == (DOMAIN next \cup {NewStart}) \X WfStates
BeforeHistories == <<NewStart, WfStart>>
OntoHistories == [q \in HistoryPairs |-> Range(ArcsOfPair(q))]
ScoringStates == Reached({BeforeHistories}, OntoHistories, HistoryPairs)

\* ScoringFst, by its parts.
LEMMA ScoringFstIs ==
  ScoringFst(BeginHistory) =
    [start |-> BeforeHistories, arcs |-> [q \in ScoringStates |-> ArcsOfPair(q)],
     history |-> [q \in ScoringStates |-> q[1]]]
<1> DEFINE arcs == [q \in ScoringStates |-> ArcsOfPair(q)]
           history == [q \in ScoringStates |-> q[1]]
<1>1. ScoringFst(BeginHistory) = [start |-> BeforeHistories, arcs |-> Tabulated(arcs), history |-> Tabulated(history)]
  BY Zenon DEF ScoringFst, ScoringStates, OntoHistories, HistoryPairs, ArcsOfPair, LiveLabels, HistoryStep,
               ArcsOfHistory, BeforeHistories
<1>2. Tabulated(arcs) = arcs /\ Tabulated(history) = history
  BY TabulatedIs
<1> QED BY <1>1, <1>2

\* What the composition relies on.
HistoriesCompose ==
  /\ Explored /\ stack = <<>> /\ IsTable(table)
  /\ \A l \in 1 .. Len(table) : Numbered(opts.segs, table[l])
  /\ opts.limit \in Int /\ opts.conjs \in Nat /\ opts.segs \in Nat

\* What is known of the histories when all have been expanded.
LEMMA AllExpanded ==
  ASSUME HistoriesCompose
  PROVE  /\ IsFiniteSet(DOMAIN next) /\ DOMAIN next \subseteq SomeHistory
         /\ NewStart \notin SomeHistory
         /\ BeginHistory \in DOMAIN next \ {EndHistory} /\ BeginHistory \in EndsOf(StartHistory)
         /\ \A h \in DOMAIN next : \A l \in DOMAIN next[h] :
              /\ l \in 1 .. Len(table) /\ next[h][l] \in DOMAIN next
              /\ next[h][l] \in EndsOf(ExtendHistory(h, table[l]))
              /\ l # EndLabel => next[h][l] # EndHistory
         /\ \A h \in DOMAIN next \ {EndHistory} : DOMAIN next[h] = 1 .. Len(table)
<1>1. NewStart \notin SomeHistory
  BY DEF NewStart, SomeHistory
<1>2. ToSet(stack) = {}
  BY EmptyFacts DEF HistoriesCompose
<1>3. StartHistory \in SomeHistory /\ NoHistory \in histories
  BY HookHistories DEF HistoriesCompose, Explored
<1>4. BeginHistory \in EndsOf(StartHistory)
  BY <1>3, GetBackoffHistoryIs DEF BeginHistory
<1> QED BY <1>1, <1>2, <1>4 DEF HistoriesCompose, Explored, BeginHistory

\* The arcs of a state.
LEMMA ArcsOfPairIs ==
  ASSUME HistoriesCompose, NEW q \in HistoryPairs
  PROVE  /\ DOMAIN ArcsOfPair(q) = LiveLabels(q)
         /\ \A l \in LiveLabels(q) :
              /\ ArcsOfPair(q)[l] = HistoryStep(q, l) /\ HistoryStep(q, l) \in HistoryPairs
              /\ HistoryStep(q, l)[1] \in DOMAIN next /\ l \in 1 .. Len(table)
              /\ q[1] # NewStart => l \in DOMAIN next[q[1]] /\ HistoryStep(q, l)[1] = next[q[1]][l]
<1> DEFINE f == [l \in LiveLabels(q) |-> HistoryStep(q, l)]
<1>1. ArcsOfPair(q) = f
  <2>1. Tabulated(f) = f
    BY TabulatedIs
  <2> QED BY Zenon, <2>1 DEF ArcsOfPair
<1>2. DOMAIN f = LiveLabels(q) /\ \A l \in LiveLabels(q) : f[l] = HistoryStep(q, l)
  OBVIOUS
<1> HIDE DEF f
<1>3. ASSUME NEW l \in LiveLabels(q)
      PROVE  /\ HistoryStep(q, l) \in HistoryPairs /\ HistoryStep(q, l)[1] \in DOMAIN next /\ l \in 1 .. Len(table)
             /\ q[1] # NewStart => l \in DOMAIN next[q[1]] /\ HistoryStep(q, l)[1] = next[q[1]][l]
  <2>1. l \in DOMAIN ArcsOfHistory(q[1]) /\ q[1] \in DOMAIN next \cup {NewStart} /\ q[2] \in WfStates
    BY DEF LiveLabels, HistoryPairs
  <2>2. /\ ArcsOfHistory(q[1])[l] \in DOMAIN next /\ l \in 1 .. Len(table)
        /\ q[1] # NewStart => l \in DOMAIN next[q[1]] /\ ArcsOfHistory(q[1])[l] = next[q[1]][l]
    <3>1. CASE q[1] = NewStart
      <4>1. ArcsOfHistory(q[1]) = [k \in {StartLabel} |-> BeginHistory]
        BY <3>1 DEF ArcsOfHistory
      <4>2. l = StartLabel /\ ArcsOfHistory(q[1])[l] = BeginHistory
        BY <2>1, <4>1
      <4>3. StartLabel \in 1 .. Len(table)
        BY EndLabelIs DEF HistoriesCompose
      <4> QED BY <3>1, <4>2, <4>3, AllExpanded
    <3>2. CASE q[1] # NewStart
      <4>1. ArcsOfHistory(q[1]) = [k \in DOMAIN next[q[1]] \ {StartLabel} |-> next[q[1]][k]]
        BY <3>2 DEF ArcsOfHistory, Restrict
      <4>2. l \in DOMAIN next[q[1]] /\ ArcsOfHistory(q[1])[l] = next[q[1]][l] /\ q[1] \in DOMAIN next
        BY <2>1, <3>2, <4>1
      <4> QED BY <4>2, AllExpanded
    <3> QED BY <3>1, <3>2
  <2>3. WfArc(WfLimit, opts.conjs, opts.segs, q[2], table[l]) \in WfStates
    BY <2>1, <2>2, WfArcKept DEF HistoriesCompose
  <2> QED BY <2>2, <2>3 DEF HistoryStep, HistoryPairs
<1> QED BY <1>1, <1>2, <1>3

\* The states that are reached.
LEMMA ScoringStatesAre ==
  ASSUME HistoriesCompose
  PROVE  /\ ScoringStates \subseteq HistoryPairs /\ BeforeHistories \in ScoringStates
         /\ \A q \in ScoringStates : \A l \in LiveLabels(q) : ArcsOfPair(q)[l] \in ScoringStates
<1>1. \A q \in HistoryPairs : OntoHistories[q] = {ArcsOfPair(q)[l] : l \in LiveLabels(q)}
  <2> SUFFICES ASSUME NEW q \in HistoryPairs PROVE Range(ArcsOfPair(q)) = {ArcsOfPair(q)[l] : l \in LiveLabels(q)}
    BY DEF OntoHistories
  <2>1. DOMAIN ArcsOfPair(q) = LiveLabels(q)
    BY ArcsOfPairIs
  <2> QED BY <2>1 DEF Range
<1>2. \A q \in HistoryPairs : OntoHistories[q] \subseteq HistoryPairs
  BY <1>1, ArcsOfPairIs
<1>3. IsFiniteSet(HistoryPairs)
  <2>1. IsFiniteSet(WfStates)
    BY WfStatesFinite DEF HistoriesCompose
  <2>2. IsFiniteSet(DOMAIN next \cup {NewStart})
    BY AllExpanded, FS_AddElement
  <2> QED BY <2>1, <2>2, FS_Product DEF HistoryPairs
<1>4. {BeforeHistories} \in SUBSET HistoryPairs
  <2>1. WfStart \in WfStates
    BY DEF WfStart, WfStates
  <2> QED BY <2>1 DEF BeforeHistories, HistoryPairs
<1>5. /\ {BeforeHistories} \subseteq ScoringStates /\ ScoringStates \in SUBSET HistoryPairs
      /\ Closed(OntoHistories, ScoringStates)
  BY <1>2, <1>3, <1>4, ReachedIs DEF ScoringStates
<1> QED BY <1>1, <1>5 DEF Closed

\* The machine.
LEMMA ScoringMachineIs ==
  ASSUME HistoriesCompose, NEW m, m = ScoringFst(BeginHistory)
  PROVE  /\ m.start = BeforeHistories /\ DOMAIN m.arcs = ScoringStates
         /\ \A q \in ScoringStates : m.arcs[q] = ArcsOfPair(q) /\ m.history[q] = q[1]
BY ScoringFstIs

\* With S|S one is at the first history.
LEMMA FirstArc ==
  ASSUME HistoriesCompose
  PROVE  /\ LiveLabels(BeforeHistories) = {StartLabel}
         /\ HistoryStep(BeforeHistories, StartLabel)[1] = BeginHistory
<1>1. DOMAIN ArcsOfHistory(BeforeHistories[1]) = {StartLabel}
      /\ ArcsOfHistory(BeforeHistories[1])[StartLabel] = BeginHistory
  BY DEF ArcsOfHistory, BeforeHistories
<1>2. table[StartLabel] = StartSym
  BY EndLabelIs DEF HistoriesCompose
<1> DEFINE w == WfArc(WfLimit, opts.conjs, opts.segs, WfStart, StartSym)
<1>3. w.at # {}
  <2>1. 0 \in ConjStates(opts.conjs) \/ 1 \in ConjStates(opts.conjs)
    BY DEF ConjStates, HistoriesCompose
  <2>2. 0 \in ChgSegStates(opts.segs) \/ 1 \in ChgSegStates(opts.segs)
    BY DEF ChgSegStates, HistoriesCompose
  <2>3. w.at = {0} \X ConjStates(opts.conjs) \X ChgSegStates(opts.segs)
    BY DEF WfArc, WfStart
  <2>4. PICK c \in ConjStates(opts.conjs), r \in ChgSegStates(opts.segs) : TRUE
    BY <2>1, <2>2
  <2>5. <<0, c, r>> \in {0} \X ConjStates(opts.conjs) \X ChgSegStates(opts.segs)
    OBVIOUS
  <2> HIDE DEF w
  <2> QED BY <2>3, <2>5
<1>4. ~ WfDead(w)
  <2> HIDE DEF w
  <2> QED BY <1>3 DEF WfDead
<1>5. HistoryStep(BeforeHistories, StartLabel) = <<BeginHistory, w>>
  BY <1>1, <1>2 DEF HistoryStep, BeforeHistories
<1> HIDE DEF w
<1> QED BY <1>1, <1>4, <1>5 DEF LiveLabels

\* The composition remembers what the machine did.
LEMMA ScoringRemembers ==
  ASSUME HistoriesCompose, NEW m, m = ScoringFst(BeginHistory)
  PROVE  Remembers(m)
<1> DEFINE Q == {q \in DOMAIN m.arcs : m.history[q] \in SomeHistory}
           q0 == m.arcs[m.start][StartLabel]
<1>1. /\ m.start = BeforeHistories /\ DOMAIN m.arcs = ScoringStates
      /\ \A q \in ScoringStates : m.arcs[q] = ArcsOfPair(q) /\ m.history[q] = q[1]
  BY ScoringMachineIs
<1>2. /\ ScoringStates \subseteq HistoryPairs /\ BeforeHistories \in ScoringStates
      /\ \A q \in ScoringStates : \A l \in LiveLabels(q) : ArcsOfPair(q)[l] \in ScoringStates
  BY ScoringStatesAre
<1>3. Q = {q \in ScoringStates : q[1] \in SomeHistory}
  BY <1>1
<1>4. q0 \in Q /\ m.history[q0] \in EndsOf(StartHistory)
  <2>1. LiveLabels(BeforeHistories) = {StartLabel}
        /\ HistoryStep(BeforeHistories, StartLabel)[1] = BeginHistory
    BY FirstArc
  <2>2. q0 = ArcsOfPair(BeforeHistories)[StartLabel] /\ q0 = HistoryStep(BeforeHistories, StartLabel)
    BY <1>1, <1>2, <2>1, ArcsOfPairIs
  <2>3. q0 \in ScoringStates /\ q0[1] = BeginHistory
    BY <1>2, <2>1, <2>2
  <2> HIDE DEF q0
  <2>4. BeginHistory \in SomeHistory /\ BeginHistory \in EndsOf(StartHistory)
    BY AllExpanded
  <2> QED BY <1>1, <1>3, <2>3, <2>4
<1>5. ASSUME NEW q \in Q, NEW l \in DOMAIN m.arcs[q]
      PROVE  /\ l \in DOMAIN table /\ m.arcs[q][l] \in Q
             /\ m.history[m.arcs[q][l]] \in EndsOf(ExtendHistory(m.history[q], table[l]))
  <2>1. q \in ScoringStates /\ q \in HistoryPairs /\ q[1] \in SomeHistory /\ q[1] # NewStart
        /\ m.history[q] = q[1] /\ m.arcs[q] = ArcsOfPair(q)
    BY <1>1, <1>2, <1>3, AllExpanded
  <2> DEFINE r == m.arcs[q][l]
  <2>2. l \in LiveLabels(q) /\ r = ArcsOfPair(q)[l] /\ r = HistoryStep(q, l)
    BY <2>1, ArcsOfPairIs
  <2>3. /\ r \in ScoringStates /\ r[1] = next[q[1]][l] /\ l \in DOMAIN next[q[1]] /\ l \in 1 .. Len(table)
        /\ r[1] \in DOMAIN next
    BY <1>2, <2>1, <2>2, ArcsOfPairIs
  <2> HIDE DEF r
  <2>4. q[1] \in DOMAIN next
    BY <2>1 DEF HistoryPairs
  <2>5. r[1] \in SomeHistory /\ r[1] \in EndsOf(ExtendHistory(q[1], table[l]))
    BY <2>3, <2>4, AllExpanded
  <2>6. r \in Q /\ m.history[r] = r[1]
    BY <1>1, <1>3, <2>3, <2>5
  <2>7. DOMAIN table = 1 .. Len(table)
    BY DEF HistoriesCompose, IsTable
  <2> QED BY <2>1, <2>3, <2>5, <2>6, <2>7 DEF r
<1> HIDE DEF Q
<1> QED BY <1>4, <1>5 DEF Remembers, Q

\* Where one is after some labels of a string of length n: with the state of the
\* well-formed strings, and, until the last label, at a history that goes on.
StandsBy(n, i, w, q) ==
  /\ q \in ScoringStates /\ q[2] = w
  /\ i = 0 => q[1] = NewStart
  /\ i \in 1 .. n - 1 => q[1] \in DOMAIN next \ {EndHistory}

\* The composition reads all that is well-formed.
LEMMA ScoringReads ==
  ASSUME HistoriesCompose, NEW m, m = ScoringFst(BeginHistory),
         NEW u \in Seq(1 .. Len(table)), Bounded(u), WfAccepts(WfLimit, opts.conjs, opts.segs, Spell(u))
  PROVE  CanRead(m, u)
<1> DEFINE y == Spell(u)
           N == Len(u)
           S == ScoringStates
<1>1. N \in Nat /\ \A i \in 1 .. N : u[i] \in 1 .. Len(table)
  OBVIOUS
<1>2. y \in Seq(AnySymbol) /\ Len(y) = N /\ \A i \in 1 .. N : y[i] = table[u[i]]
  <2>1. DOMAIN u = 1 .. N /\ table \in Seq(AnySymbol)
    BY DEF HistoriesCompose, IsTable
  <2>2. \A i \in 1 .. N : table[u[i]] \in AnySymbol
    BY <1>1, <2>1
  <2> QED BY <1>1, <2>1, <2>2 DEF Spell
<1>3. PICK w \in [0 .. N -> WfMachineStates] :
        /\ WfSteps(WfLimit, opts.conjs, opts.segs, y, w)
        /\ w[N].pos = 2
  <2>1. WfLimit \in Int /\ opts.conjs \in Nat /\ opts.segs \in Nat
    BY DEF HistoriesCompose, WfLimit
  <2> HIDE DEF y
  <2>2. PICK w \in [0 .. Len(y) -> WfMachineStates] :
          WfSteps(WfLimit, opts.conjs, opts.segs, y, w) /\ WfState(WfLimit, opts.conjs, opts.segs, y) = w[Len(y)]
    BY <1>2, <2>1, WfStateSteps
  <2>3. WfAccepts(WfLimit, opts.conjs, opts.segs, y)
    BY DEF y
  <2> QED BY <1>2, <2>2, <2>3 DEF WfAccepts
<1> HIDE DEF y
<1>4. \A i \in 0 .. N : ~ WfDead(w[i])
  BY <1>1, <1>2, <1>3, NeverDead
<1>5. w[0] = WfStart /\ \A i \in 1 .. N : w[i] = WfArc(WfLimit, opts.conjs, opts.segs, w[i - 1], table[u[i]])
  BY <1>2, <1>3 DEF WfSteps
<1>6. /\ \A i \in 1 .. N : u[i] = StartLabel <=> i = 1
      /\ \A i \in 1 .. N : u[i] = EndLabel <=> i = N
  <2> SUFFICES ASSUME NEW i \in 1 .. N PROVE (u[i] = StartLabel <=> i = 1) /\ (u[i] = EndLabel <=> i = N)
    OBVIOUS
  <2>1. (table[u[i]] = StartSym <=> i = 1) /\ (table[u[i]] = EndSym <=> i = N)
    BY DEF Bounded
  <2>2. IsTable(table) /\ table[StartLabel] = StartSym /\ table[EndLabel] = EndSym
        /\ StartLabel \in 1 .. Len(table) /\ EndLabel \in 1 .. Len(table)
    BY EndLabelIs DEF HistoriesCompose
  <2>3. \A j, k \in 1 .. Len(table) : table[j] = table[k] => j = k
    BY <2>2 DEF IsTable, NoDups
  <2> QED BY <1>1, <2>1, <2>2, <2>3
<1>7. /\ m.start = BeforeHistories /\ DOMAIN m.arcs = S
      /\ \A q \in S : m.arcs[q] = ArcsOfPair(q)
  BY ScoringMachineIs
<1>8. /\ S \subseteq HistoryPairs /\ BeforeHistories \in S
      /\ \A q \in S : \A l \in LiveLabels(q) : ArcsOfPair(q)[l] \in S
  BY ScoringStatesAre
<1> DEFINE P == [i \in 0 .. N |-> {q \in S : StandsBy(N, i, w[i], q)}]
           R == {r \in (1 .. N) \X S \X S : u[r[1]] \in DOMAIN m.arcs[r[2]] /\ m.arcs[r[2]][u[r[1]]] = r[3]}
<1>9. \A i \in 0 .. N : \A q : q \in P[i] <=> q \in S /\ StandsBy(N, i, w[i], q)
  OBVIOUS
<1> HIDE DEF P, S
<1>10. ASSUME NEW i \in 1 .. N, NEW q \in P[i - 1] PROVE \E r \in P[i] : <<i, q, r>> \in R
  <2>1. i - 1 \in 0 .. N /\ i \in 0 .. N /\ i # 0
    BY <1>1
  <2>2. q \in S /\ StandsBy(N, i - 1, w[i - 1], q)
    BY <1>9, <2>1
  <2>3. q \in HistoryPairs /\ q[2] = w[i - 1]
    BY <1>8, <2>2 DEF StandsBy
  <2> DEFINE l == u[i]
             r == ArcsOfPair(q)[l]
  <2>4. l \in 1 .. Len(table) /\ (l = StartLabel <=> i = 1) /\ (l = EndLabel <=> i = N)
    BY <1>1, <1>6
  <2>5. l \in DOMAIN ArcsOfHistory(q[1])
        /\ (i < N => ArcsOfHistory(q[1])[l] \in DOMAIN next \ {EndHistory})
    <3>1. CASE i = 1
      <4>1. q[1] = NewStart /\ l = StartLabel
        BY <2>2, <2>4, <3>1 DEF StandsBy
      <4>2. ArcsOfHistory(q[1]) = [k \in {StartLabel} |-> BeginHistory]
        BY <4>1 DEF ArcsOfHistory
      <4> HIDE DEF l
      <4> QED BY <4>1, <4>2, AllExpanded
    <3>2. CASE i # 1
      <4>1. i - 1 \in 1 .. N - 1
        BY <1>1, <3>2
      <4>2. q[1] \in DOMAIN next \ {EndHistory}
        BY <2>2, <4>1 DEF StandsBy
      <4>3. q[1] # NewStart /\ DOMAIN next[q[1]] = 1 .. Len(table) /\ q[1] \in DOMAIN next
        BY <4>2, AllExpanded
      <4>4. ArcsOfHistory(q[1]) = [k \in DOMAIN next[q[1]] \ {StartLabel} |-> next[q[1]][k]]
        BY <4>3 DEF ArcsOfHistory, Restrict
      <4>5. l # StartLabel
        BY <2>4, <3>2
      <4>6. l \in DOMAIN ArcsOfHistory(q[1]) /\ ArcsOfHistory(q[1])[l] = next[q[1]][l]
        BY <2>4, <4>3, <4>4, <4>5
      <4>7. next[q[1]][l] \in DOMAIN next /\ (l # EndLabel => next[q[1]][l] # EndHistory)
        BY <2>4, <4>3, AllExpanded
      <4>8. i < N => l # EndLabel
        BY <1>1, <2>4
      <4> QED BY <4>6, <4>7, <4>8
    <3> QED BY <3>1, <3>2
  <2> HIDE DEF l
  <2>6. HistoryStep(q, l) = <<ArcsOfHistory(q[1])[l], w[i]>> /\ ~ WfDead(w[i])
    <3>1. w[i] = WfArc(WfLimit, opts.conjs, opts.segs, q[2], table[l])
      BY <1>5, <2>3 DEF l
    <3> QED BY <1>4, <2>1, <3>1 DEF HistoryStep
  <2>7. l \in LiveLabels(q)
    BY <2>5, <2>6 DEF LiveLabels
  <2>8. r \in S /\ r = <<ArcsOfHistory(q[1])[l], w[i]>> /\ l \in DOMAIN ArcsOfPair(q)
    BY <1>8, <2>2, <2>3, <2>6, <2>7, ArcsOfPairIs
  <2>9. l \in DOMAIN m.arcs[q] /\ m.arcs[q][l] = r
    BY <1>7, <2>2, <2>8
  <2>10. StandsBy(N, i, w[i], r)
    <3>1. r[1] = ArcsOfHistory(q[1])[l] /\ r[2] = w[i]
      BY <2>8
    <3>2. i \in 1 .. N - 1 => i < N
      BY <1>1
    <3> HIDE DEF r
    <3> QED BY <2>1, <2>5, <2>8, <3>1, <3>2 DEF StandsBy, S
  <2> HIDE DEF r
  <2>11. r \in P[i]
    BY <1>9, <2>1, <2>8, <2>10
  <2>12. <<i, q, r>> \in R
    BY <2>2, <2>8, <2>9 DEF l
  <2> QED BY <2>11, <2>12
<1>11. BeforeHistories \in P[0]
  <2>1. BeforeHistories[1] = NewStart /\ BeforeHistories[2] = w[0]
    BY <1>5 DEF BeforeHistories
  <2>2. 0 \in 0 .. N /\ BeforeHistories \in S /\ 0 \notin 1 .. N - 1
    BY <1>1, <1>8
  <2>3. StandsBy(N, 0, w[0], BeforeHistories)
    BY <2>1, <2>2 DEF StandsBy, S
  <2> QED BY <1>9, <2>2, <2>3
<1>12. PICK f : DOMAIN f = 0 .. N /\ Chains(N, P, R, BeforeHistories, f)
  <2> HIDE DEF R
  <2> QED BY <1>1, <1>10, <1>11, ChainExists
<1> DEFINE h == [i \in 0 .. N |-> f[i]]
<1>13. h \in [0 .. N -> DOMAIN m.arcs] /\ h[0] = m.start
  <2>1. \A i \in 0 .. N : f[i] \in S
    BY <1>9, <1>12 DEF Chains
  <2>2. 0 \in 0 .. N /\ f[0] = BeforeHistories
    BY <1>1, <1>12 DEF Chains
  <2> QED BY <1>7, <2>1, <2>2
<1>14. Steps(m.arcs, u, h)
  <2>1. ASSUME NEW i \in 1 .. N
        PROVE  u[i] \in DOMAIN m.arcs[h[i - 1]] /\ h[i] = m.arcs[h[i - 1]][u[i]] /\ h[i] \in DOMAIN m.arcs
    <3>1. <<i, f[i - 1], f[i]>> \in R
      BY <1>12 DEF Chains
    <3>2. h[i - 1] = f[i - 1] /\ h[i] = f[i]
      BY <1>1
    <3>3. u[i] \in DOMAIN m.arcs[f[i - 1]] /\ m.arcs[f[i - 1]][u[i]] = f[i] /\ f[i] \in S
      BY <3>1
    <3> QED BY <1>7, <3>2, <3>3
  <2>2. h[0] \in DOMAIN m.arcs
    BY <1>7, <1>8, <1>13
  <2> QED BY <1>1, <2>1, <2>2 DEF Steps
<1> HIDE DEF h
<1> QED BY <1>13, <1>14 DEF CanRead

-----------------------------------------------------------------------------
(* The invariant of the noepshist topology.                                *)

Remembering == stage = "created" /\ opts.code = "noepshist"

\* The other models are not made for it; its machine is explored, then remembers and
\* reads.
NoepsInv ==
  /\ stage \in {"models", "backoff", "convert", "features", "combine"} => opts.code # "noepshist"
  /\ stage = "noepshist" \/ Remembering => opts \in Topologies /\ data \in Corpora /\ essential = DOMAIN table
  /\ stage = "noepshist" => Explored
  /\ Remembering => /\ DOMAIN models = {1} /\ Remembers(models[1])
                    /\ \A u : Scored(u) => CanRead(models[1], u)

\* At first there is none.
LEMMA InitNoepsInv == AllInit => NoepsInv
BY DEF AllInit, IdleCreation, CreatingInit, TopologyInit, CreateInit, CountInit, NoepsInv, Remembering

\* The exploration begins.
LEMMA StartNoepsInv == CountInv /\ StartScoring => NoepsInv'
<1> SUFFICES ASSUME CountInv, StartScoring PROVE NoepsInv'
  OBVIOUS
<1>1. stage = "count" /\ opts.code = "noepshist" /\ opts' = opts /\ data' = data /\ table' = table
  BY DEF StartScoring
<1>2. opts \in Topologies /\ data \in Corpora
  BY <1>1 DEF CountInv
<1>3. CASE stage' = "failed"
  BY <1>3 DEF NoepsInv, Remembering
<1>4. CASE stage' = "noepshist"
  <2>1. essential' = DOMAIN table
    BY <1>4 DEF StartScoring
  <2>2. Explored'
    BY <1>4, StartExplored
  <2> QED BY <1>1, <1>2, <1>4, <2>1, <2>2 DEF NoepsInv, Remembering
<1>5. stage' = "failed" \/ stage' = "noepshist"
  BY DEF StartScoring
<1> QED BY <1>3, <1>4, <1>5

\* It goes on.
LEMMA ArcsNoepsInv == CountInv /\ NoepsInv /\ AddArcs => NoepsInv'
<1> SUFFICES ASSUME CountInv, NoepsInv, AddArcs PROVE NoepsInv'
  OBVIOUS
<1>1. /\ stage = "noepshist" /\ stage' = stage /\ opts' = opts /\ data' = data /\ table' = table
      /\ essential' = essential
  BY DEF AddArcs
<1>2. IsTable(table) /\ Explored
  BY <1>1 DEF CountInv, NoepsInv
<1>3. Explored'
  BY <1>2, ArcsExplored
<1> QED BY <1>1, <1>3 DEF NoepsInv, Remembering

\* And the machine is composed.
LEMMA ComposeNoepsInv == CountInv /\ SymbolsInv /\ NoepsInv /\ ComposeScoringFst => NoepsInv'
<1> SUFFICES ASSUME CountInv, SymbolsInv, NoepsInv, ComposeScoringFst PROVE NoepsInv'
  OBVIOUS
<1> DEFINE m == ScoringFst(BeginHistory)
<1>1. /\ stage = "noepshist" /\ stack = <<>> /\ stage' = "created" /\ models' = <<m>>
      /\ opts' = opts /\ data' = data /\ table' = table /\ essential' = essential
  BY DEF ComposeScoringFst, BeginHistory
<1>2. opts \in Topologies /\ data \in Corpora /\ essential = DOMAIN table /\ Explored /\ IsTable(table)
  BY <1>1 DEF NoepsInv, CountInv
<1>3. HistoriesCompose
  <2>1. \A l \in 1 .. Len(table) : Numbered(opts.segs, table[l])
    BY <1>1 DEF SymbolsInv
  <2>2. opts.limit \in Int /\ opts.conjs \in Nat /\ opts.segs \in Nat
    BY <1>2, TopologiesAssumption
  <2> QED BY <1>1, <1>2, <2>1, <2>2 DEF HistoriesCompose
<1>4. Remembers(m) /\ \A u : Scored(u) => CanRead(m, u)
  BY <1>3, ScoringRemembers, ScoringReads DEF Scored
<1> HIDE DEF m
<1>5. DOMAIN models' = {1} /\ models'[1] = m
  BY <1>1
<1>6. Remembers(models[1])'
  BY <1>1, <1>4, <1>5 DEF Remembers, StartLabel
<1>7. \A u : Scored(u)' => CanRead(models[1], u)'
  <2> SUFFICES ASSUME NEW u, Scored(u)' PROVE CanRead(models[1], u)'
    OBVIOUS
  <2>1. Scored(u)
    BY <1>1, ScoredKept
  <2>2. CanRead(m, u)
    BY <1>4, <2>1
  <2> QED BY <1>5, <2>2 DEF CanRead
<1> QED BY <1>1, <1>2, <1>5, <1>6, <1>7 DEF NoepsInv, Remembering

\* Steps elsewhere.
NoepsKept ==
  /\ opts' = opts /\ stage' # "noepshist"
  /\ stage' \in {"models", "backoff", "convert", "features", "combine", "created"} =>
       stage \in {"models", "backoff", "convert", "features", "combine"} \/ opts.code # "noepshist"

\* They keep the invariant.
LEMMA NoepsKeptInv == NoepsInv /\ NoepsKept => NoepsInv'
BY DEF NoepsInv, NoepsKept, Remembering

\* Steps of the session leave the creation alone.
LEMMA NoepsUnchangedInv == NoepsInv /\ UNCHANGED topologyVars => NoepsInv'
<1> SUFFICES ASSUME NoepsInv, UNCHANGED topologyVars PROVE NoepsInv'
  OBVIOUS
<1>1. /\ opts' = opts /\ data' = data /\ table' = table /\ essential' = essential /\ stage' = stage
      /\ models' = models /\ next' = next /\ stack' = stack /\ histories' = histories
  BY DEF topologyVars, createVars, countVars, modelVars
<1>2. Remembering' = Remembering
  BY <1>1 DEF Remembering
<1>3. CASE stage = "noepshist"
  <2>1. Explored
    BY <1>3 DEF NoepsInv
  <2>2. EndLabel' = EndLabel
    BY <1>1 DEF EndLabel
  <2>3. Explored'
    BY <1>1, <2>1, <2>2 DEF Explored
  <2> QED BY <1>1, <1>3, <2>3 DEF NoepsInv, Remembering
<1>4. CASE Remembering
  <2>1. DOMAIN models = {1} /\ Remembers(models[1]) /\ \A u : Scored(u) => CanRead(models[1], u)
    BY <1>4 DEF NoepsInv
  <2>2. Remembers(models[1])'
    BY <1>1, <2>1 DEF Remembers, StartLabel
  <2>3. \A u : Scored(u)' => CanRead(models[1], u)'
    <3> SUFFICES ASSUME NEW u, Scored(u)' PROVE CanRead(models[1], u)'
      OBVIOUS
    <3>1. Scored(u)
      BY <1>1, ScoredKept
    <3> QED BY <1>1, <2>1, <3>1 DEF CanRead
  <2> QED BY <1>1, <1>2, <1>4, <2>1, <2>2, <2>3 DEF NoepsInv, Remembering
<1>5. CASE stage # "noepshist" /\ ~ Remembering
  BY <1>1, <1>2, <1>5 DEF NoepsInv
<1> QED BY <1>3, <1>4, <1>5

\* The invariant is inductive.
LEMMA AllNextNoepsInv == CountInv /\ SymbolsInv /\ NoepsInv /\ [AllNext]_allVars => NoepsInv'
<1> SUFFICES ASSUME CountInv, SymbolsInv, NoepsInv, [AllNext]_allVars PROVE NoepsInv'
  OBVIOUS
<1>1. CASE MakeSymbols \/ DoubleFree \/ AddCounts \/ ProcessSubset \/ Select
  <2>1. NoepsKept
    BY <1>1 DEF MakeSymbols, DoubleFree, AddCounts, ProcessSubset, Select, NoepsKept
  <2> QED BY <2>1, NoepsKeptInv
<1>2. CASE CreateNgramTrie
  <2>1. NoepsKept
    BY <1>2 DEF CreateNgramTrie, NoepsKept, SymbolsInv
  <2> QED BY <2>1, NoepsKeptInv
<1>3. CASE StartAddBackoff \/ AddBackoffArc \/ AddPhiArc \/ Convert \/ NgramFsaInsertFeatures \/ CreateScoringFst
  <2>1. NoepsKept
    BY <1>3 DEF StartAddBackoff, AddBackoffArc, AddPhiArc, Convert, NgramFsaInsertFeatures, CreateScoringFst,
                NoepsKept
  <2> QED BY <2>1, NoepsKeptInv
<1>4. CASE NoepshistNext
  BY <1>4, StartNoepsInv, ArcsNoepsInv, ComposeNoepsInv DEF NoepshistNext
<1>5. CASE HandOver
  BY <1>5 DEF HandOver, NoepsInv, Remembering
<1>6. CASE UNCHANGED topologyVars
  BY <1>6, NoepsUnchangedInv
<1> QED BY <1>1, <1>2, <1>3, <1>4, <1>5, <1>6
        DEF AllNext, allVars, Create, SessionStep, TopologyNext, CreateNext, CountNext

-----------------------------------------------------------------------------
(* The features of a state fit every path to it.                           *)

\* Where the paths from the first history lead, with what was read on them.
FirstRead(m) == {<<m.arcs[m.start][StartLabel], ExtendHistory(NoHistory, table[StartLabel])>>}
ReadOn(m, e) == {<<m.arcs[e[1]][l], ExtendHistory(e[2], table[l])>> : l \in DOMAIN m.arcs[e[1]]}
PathsOf(m, p) ==
  p = [n \in Nat |-> IF n = 0 THEN FirstRead(m) ELSE UNION {ReadOn(m, e) : e \in p[n - 1]}]

\* A path fits if the history of its last state ends it.
Fitting(m) ==
  {e \in {q \in DOMAIN m.arcs : m.history[q] \in SomeHistory} \X SomeHistory :
     m.history[e[1]] \in EndsOf(e[2])}

\* The first one fits, and if one fits then so does it with a symbol more.
LEMMA FittingKept ==
  ASSUME IsTable(table), NEW m, Remembers(m)
  PROVE  FirstRead(m) \subseteq Fitting(m) /\ \A e \in Fitting(m) : ReadOn(m, e) \subseteq Fitting(m)
<1> DEFINE Q == {q \in DOMAIN m.arcs : m.history[q] \in SomeHistory}
           q0 == m.arcs[m.start][StartLabel]
<1>1. /\ q0 \in Q /\ m.history[q0] \in EndsOf(StartHistory)
      /\ \A q \in Q : \A l \in DOMAIN m.arcs[q] :
           /\ l \in DOMAIN table /\ m.arcs[q][l] \in Q
           /\ m.history[m.arcs[q][l]] \in EndsOf(ExtendHistory(m.history[q], table[l]))
  BY DEF Remembers
<1>2. /\ StartHistory \in SomeHistory /\ ExtendHistory(NoHistory, table[StartLabel]) = StartHistory
      /\ \A l \in DOMAIN table : table[l] \in AnySymbol
  BY HookHistories DEF IsTable
<1>3. \A e : e \in Fitting(m) <=> e \in Q \X SomeHistory /\ m.history[e[1]] \in EndsOf(e[2])
  BY DEF Fitting
<1>4. \A q \in Q : m.history[q] \in SomeHistory
  OBVIOUS
<1> HIDE DEF Q, q0
<1>5. FirstRead(m) \subseteq Fitting(m)
  <2>1. FirstRead(m) = {<<q0, StartHistory>>}
    BY <1>2 DEF FirstRead, q0
  <2> QED BY <1>1, <1>2, <1>3, <2>1
<1>6. ASSUME NEW e \in Fitting(m), NEW l \in DOMAIN m.arcs[e[1]]
      PROVE  <<m.arcs[e[1]][l], ExtendHistory(e[2], table[l])>> \in Fitting(m)
  <2>1. e[1] \in Q /\ e[2] \in SomeHistory /\ m.history[e[1]] \in EndsOf(e[2])
    BY <1>3
  <2> DEFINE r == m.arcs[e[1]][l]
             h == m.history[e[1]]
             s == table[l]
  <2>2. l \in DOMAIN table /\ r \in Q /\ m.history[r] \in EndsOf(ExtendHistory(h, s)) /\ s \in AnySymbol
    BY <1>1, <1>2, <2>1
  <2>3. h \in EndsOf(e[2])
    BY <2>1
  <2> HIDE DEF r, h, s
  <2>4. ExtendHistory(e[2], s) \in SomeHistory /\ ExtendHistory(h, s) \in EndsOf(ExtendHistory(e[2], s))
    BY <2>1, <2>2, <2>3, ExtendEnds
  <2>5. m.history[r] \in EndsOf(ExtendHistory(e[2], s))
    BY <2>2, <2>4, EndsOfEnds
  <2>6. <<r, ExtendHistory(e[2], s)>> \in Fitting(m)
    BY <1>3, <2>2, <2>4, <2>5
  <2> QED BY <2>6 DEF r, s
<1> QED BY <1>5, <1>6 DEF ReadOn

\* There are such paths.
LEMMA PathsExist ==
  ASSUME IsTable(table), NEW m, Remembers(m)
  PROVE  \E p : PathsOf(m, p)
<1> DEFINE T == Fitting(m)
           A == FirstRead(m)
           step == [e \in T |-> ReadOn(m, e)]
<1>1. A \in SUBSET T /\ step \in [T -> SUBSET T]
  BY FittingKept
<1>2. \A e \in T : step[e] = ReadOn(m, e)
  OBVIOUS
<1> HIDE DEF T, A, step
<1>3. PICK g \in [Nat -> SUBSET T] : EndsOfWays(step, A, g)
  BY <1>1, WaysExist
<1>4. ASSUME NEW n \in Nat PROVE g[n] = IF n = 0 THEN A ELSE UNION {ReadOn(m, e) : e \in g[n - 1]}
  <2>1. g[n] = IF n = 0 THEN A ELSE UNION {step[e] : e \in g[n - 1]}
    BY <1>3 DEF EndsOfWays
  <2>2. CASE n = 0
    BY <2>1, <2>2
  <2>3. CASE n # 0
    <3>1. n - 1 \in Nat
      BY <2>3
    <3>2. g[n - 1] \subseteq T
      BY <1>3, <3>1
    <3>3. {step[e] : e \in g[n - 1]} = {ReadOn(m, e) : e \in g[n - 1]}
      BY <1>2, <3>2
    <3> QED BY <2>1, <2>3, <3>3
  <2> QED BY <2>2, <2>3
<1>5. g = [n \in Nat |-> g[n]]
  BY <1>3
<1>6. g = [n \in Nat |-> IF n = 0 THEN A ELSE UNION {ReadOn(m, e) : e \in g[n - 1]}]
  BY <1>4, <1>5
<1>7. PathsOf(m, g)
  BY <1>6 DEF PathsOf, A
<1> QED BY <1>7

\* And all of them fit.
LEMMA PathsFit ==
  ASSUME IsTable(table), NEW m, Remembers(m), NEW p, PathsOf(m, p)
  PROVE  \A n \in Nat : p[n] \subseteq Fitting(m)
<1> SUFFICES ASSUME NEW j \in Nat, ~ (p[j] \subseteq Fitting(m)) PROVE FALSE
  OBVIOUS
<1> DEFINE B == {n \in Nat : ~ (p[n] \subseteq Fitting(m))}
<1>1. B \in SUBSET Nat /\ B # {}
  OBVIOUS
<1>2. PICK n \in B : \A k \in B : n <= k
  <2> HIDE DEF B
  <2> QED BY <1>1, LeastNatural
<1>3. \A k \in Nat : p[k] = IF k = 0 THEN FirstRead(m) ELSE UNION {ReadOn(m, e) : e \in p[k - 1]}
  BY DEF PathsOf
<1>4. n \in Nat /\ ~ (p[n] \subseteq Fitting(m))
  OBVIOUS
<1>5. n # 0
  BY <1>3, <1>4, FittingKept
<1>6. n - 1 \in Nat /\ ~ (n <= n - 1)
  BY <1>4, <1>5
<1>7. p[n - 1] \subseteq Fitting(m)
  BY <1>2, <1>6
<1>8. p[n] = UNION {ReadOn(m, e) : e \in p[n - 1]}
  BY <1>3, <1>4, <1>5
<1> QED BY <1>4, <1>7, <1>8, FittingKept

\* The features on the arcs of a state are ends of what was read, and all the shorter ones
\* are there too.
LEMMA FeaturesFit ==
  ASSUME NEW s \in AnySymbol, NEW hist \in SomeHistory, NEW h \in EndsOf(hist)
  PROVE  /\ \A f \in InsertFeatures(h, s) : IsSuffixHistory(f[2], ExtendHistory(hist, s))
         /\ \A f \in InsertFeatures(h, s) : \A i \in {1, 2} :
              LET letter == IF i = 1 THEN s.in ELSE s.out
                  own == IF letter = Eps THEN 0 ELSE 1
              IN Len(f[2][i]) > own => <<1, [f[2] EXCEPT ![i] = Tail(@)]>> \in InsertFeatures(h, s)
<1>1. h \in SomeHistory /\ EndsOf(h) \subseteq EndsOf(hist)
  BY EndsOfEnds
<1> DEFINE V == ToSet(Backoffs(h))
<1>2. V \subseteq EndsOf(h) /\ \A b \in V : ToSet(Shorter(b)) \subseteq V
  BY <1>1, BackoffsAre DEF Visits
<1>3. \A f : f \in InsertFeatures(h, s) <=> \E b \in V : f = <<1, ExtendHistory(b, s)>>
  BY DEF InsertFeatures
<1> HIDE DEF V
<1>4. (s.in = Eps \/ s.in \in HistoryLetter) /\ (s.out = Eps \/ s.out \in HistoryLetter)
  BY SymbolLetters
<1> DEFINE Fits(x) ==
      /\ IsSuffixHistory(x, ExtendHistory(hist, s))
      /\ \A i \in {1, 2} :
           LET letter == IF i = 1 THEN s.in ELSE s.out
               own == IF letter = Eps THEN 0 ELSE 1
           IN Len(x[i]) > own => <<1, [x EXCEPT ![i] = Tail(@)]>> \in InsertFeatures(h, s)
<1> SUFFICES ASSUME NEW b \in V PROVE Fits(ExtendHistory(b, s))
  <2>1. ASSUME NEW f \in InsertFeatures(h, s) PROVE Fits(f[2])
    <3>1. PICK b \in V : f = <<1, ExtendHistory(b, s)>>
      BY <1>3
    <3>2. f[2] = ExtendHistory(b, s)
      BY <3>1
    <3> HIDE DEF Fits
    <3> QED BY <3>2
  <2> QED BY <2>1
<1>5. b \in EndsOf(hist) /\ b \in SomeHistory /\ b[1] \in Seq(HistoryLetter) /\ b[2] \in Seq(HistoryLetter)
  BY <1>1, <1>2 DEF EndsOf, SomeHistory
<1> DEFINE x == ExtendHistory(b, s)
<1>6. x = <<WithLetter(b[1], s.in), WithLetter(b[2], s.out)>>
  BY ExtendIs
<1>7. IsSuffixHistory(x, ExtendHistory(hist, s))
  <2> DEFINE y == ExtendHistory(hist, s)
  <2>1. x \in EndsOf(y) /\ y \in SomeHistory
    BY <1>5, ExtendEnds
  <2> HIDE DEF x, y
  <2>2. /\ x[1] \in Seq(HistoryLetter) /\ x[2] \in Seq(HistoryLetter) /\ Ends(x[1], y[1]) /\ Ends(x[2], y[2])
        /\ y[1] \in Seq(HistoryLetter) /\ y[2] \in Seq(HistoryLetter)
    BY <2>1 DEF EndsOf, EndsHistory, SomeHistory
  <2>3. IsSuffixOf(x[1], y[1]) /\ IsSuffixOf(x[2], y[2])
    BY <2>2, EndsIsSuffix
  <2> QED BY <2>3 DEF IsSuffixHistory, y
<1>8. <<DropFirst(b[1]), b[2]>> \in V /\ <<b[1], DropFirst(b[2])>> \in V
  <2>1. ToSet(Shorter(b)) = {<<DropFirst(b[1]), b[2]>>, <<b[1], DropFirst(b[2])>>}
    BY <1>5, ShorterIs
  <2> QED BY <1>2, <2>1
<1>9. ASSUME Len(x[1]) > IF s.in = Eps THEN 0 ELSE 1
      PROVE  <<1, [x EXCEPT ![1] = Tail(@)]>> \in InsertFeatures(h, s)
  <2>1. /\ Len(WithLetter(b[1], s.in)) = Len(b[1]) + IF s.in = Eps THEN 0 ELSE 1
        /\ b[1] # <<>> => Tail(WithLetter(b[1], s.in)) = WithLetter(Tail(b[1]), s.in)
    BY <1>4, <1>5, WithLetterEnds
  <2>2. b[1] # <<>>
    <3>1. x[1] = WithLetter(b[1], s.in)
      BY <1>6
    <3>2. Len(x[1]) = Len(b[1]) + (IF s.in = Eps THEN 0 ELSE 1)
      BY <2>1, <3>1
    <3>3. Len(x[1]) > (IF s.in = Eps THEN 0 ELSE 1) /\ Len(b[1]) \in Nat
      BY <1>5, <1>9
    <3> HIDE DEF x
    <3>4. Len(b[1]) > 0
      <4>1. CASE s.in = Eps
        BY <3>2, <3>3, <4>1
      <4>2. CASE s.in # Eps
        BY <3>2, <3>3, <4>2
      <4> QED BY <4>1, <4>2
    <3> QED BY <3>4, EmptyFacts
  <2>3. DropFirst(b[1]) = Tail(b[1]) /\ Tail(WithLetter(b[1], s.in)) = WithLetter(Tail(b[1]), s.in)
    BY <2>1, <2>2 DEF DropFirst
  <2> DEFINE c == <<DropFirst(b[1]), b[2]>>
  <2>4. ExtendHistory(c, s) = <<WithLetter(c[1], s.in), WithLetter(c[2], s.out)>>
    BY ExtendIs
  <2>5. ExtendHistory(c, s) = <<WithLetter(Tail(b[1]), s.in), WithLetter(b[2], s.out)>>
    BY <2>3, <2>4
  <2>6. [x EXCEPT ![1] = Tail(@)] = <<Tail(WithLetter(b[1], s.in)), WithLetter(b[2], s.out)>>
    BY <1>6
  <2>7. <<1, ExtendHistory(c, s)>> \in InsertFeatures(h, s)
    BY <1>3, <1>8
  <2>8. [x EXCEPT ![1] = Tail(@)] = ExtendHistory(c, s)
    BY <2>3, <2>5, <2>6
  <2> HIDE DEF c, x
  <2> QED BY <2>7, <2>8
<1>10. ASSUME Len(x[2]) > IF s.out = Eps THEN 0 ELSE 1
       PROVE  <<1, [x EXCEPT ![2] = Tail(@)]>> \in InsertFeatures(h, s)
  <2>1. /\ Len(WithLetter(b[2], s.out)) = Len(b[2]) + IF s.out = Eps THEN 0 ELSE 1
        /\ b[2] # <<>> => Tail(WithLetter(b[2], s.out)) = WithLetter(Tail(b[2]), s.out)
    BY <1>4, <1>5, WithLetterEnds
  <2>2. b[2] # <<>>
    <3>1. x[2] = WithLetter(b[2], s.out)
      BY <1>6
    <3>2. Len(x[2]) = Len(b[2]) + (IF s.out = Eps THEN 0 ELSE 1)
      BY <2>1, <3>1
    <3>3. Len(x[2]) > (IF s.out = Eps THEN 0 ELSE 1) /\ Len(b[2]) \in Nat
      BY <1>5, <1>10
    <3> HIDE DEF x
    <3>4. Len(b[2]) > 0
      <4>1. CASE s.out = Eps
        BY <3>2, <3>3, <4>1
      <4>2. CASE s.out # Eps
        BY <3>2, <3>3, <4>2
      <4> QED BY <4>1, <4>2
    <3> QED BY <3>4, EmptyFacts
  <2>3. DropFirst(b[2]) = Tail(b[2]) /\ Tail(WithLetter(b[2], s.out)) = WithLetter(Tail(b[2]), s.out)
    BY <2>1, <2>2 DEF DropFirst
  <2> DEFINE c == <<b[1], DropFirst(b[2])>>
  <2>4. ExtendHistory(c, s) = <<WithLetter(c[1], s.in), WithLetter(c[2], s.out)>>
    BY ExtendIs
  <2>5. ExtendHistory(c, s) = <<WithLetter(b[1], s.in), WithLetter(Tail(b[2]), s.out)>>
    BY <2>3, <2>4
  <2>6. [x EXCEPT ![2] = Tail(@)] = <<WithLetter(b[1], s.in), Tail(WithLetter(b[2], s.out))>>
    BY <1>6
  <2>7. <<1, ExtendHistory(c, s)>> \in InsertFeatures(h, s)
    BY <1>3, <1>8
  <2>8. [x EXCEPT ![2] = Tail(@)] = ExtendHistory(c, s)
    BY <2>3, <2>5, <2>6
  <2> HIDE DEF c, x
  <2> QED BY <2>7, <2>8
<1> HIDE DEF x
<1> QED BY <1>7, <1>9, <1>10 DEF x

\* What is claimed of all paths.
LEMMA FeaturesOfPaths ==
  ASSUME NoepsInv, CountInv, stage = "created", opts.code = "noepshist"
  PROVE  NoepsFeaturesMatch
<1> DEFINE m == models[1]
           p == CHOOSE p : PathsOf(m, p)
<1>1. Remembers(m) /\ IsTable(table)
  BY DEF NoepsInv, Remembering, CountInv
<1>2. PathsOf(m, p)
  BY <1>1, PathsExist
<1> DEFINE Fits ==
      \A n \in 0 .. MaxWalk + 1 : \A e \in p[n] : \A l \in DOMAIN m.arcs[e[1]] :
        /\ \A f \in InsertFeatures(m.history[e[1]], table[l]) : IsSuffixHistory(f[2], ExtendHistory(e[2], table[l]))
        /\ \A f \in InsertFeatures(m.history[e[1]], table[l]) : \A i \in {1, 2} :
             LET letter == IF i = 1 THEN table[l].in ELSE table[l].out
                 own == IF letter = Eps THEN 0 ELSE 1
             IN Len(f[2][i]) > own => <<1, [f[2] EXCEPT ![i] = Tail(@)]>> \in InsertFeatures(m.history[e[1]], table[l])
<1>3. Fits => NoepsFeaturesMatch
  BY Zenon DEF NoepsFeaturesMatch, PathsOf, FirstRead, ReadOn
<1> HIDE DEF p, m
<1>4. Fits
  <2> SUFFICES ASSUME NEW n \in 0 .. MaxWalk + 1, NEW e \in p[n], NEW l \in DOMAIN m.arcs[e[1]]
               PROVE  /\ \A f \in InsertFeatures(m.history[e[1]], table[l]) :
                           IsSuffixHistory(f[2], ExtendHistory(e[2], table[l]))
                      /\ \A f \in InsertFeatures(m.history[e[1]], table[l]) : \A i \in {1, 2} :
                           LET letter == IF i = 1 THEN table[l].in ELSE table[l].out
                               own == IF letter = Eps THEN 0 ELSE 1
                           IN Len(f[2][i]) > own =>
                                <<1, [f[2] EXCEPT ![i] = Tail(@)]>> \in InsertFeatures(m.history[e[1]], table[l])
    OBVIOUS
  <2>1. n \in Nat
    BY WalkAssumption
  <2>2. e \in Fitting(m)
    BY <1>1, <1>2, <2>1, PathsFit
  <2>3. /\ e[1] \in {q \in DOMAIN m.arcs : m.history[q] \in SomeHistory} /\ e[2] \in SomeHistory
        /\ m.history[e[1]] \in EndsOf(e[2])
    BY <2>2 DEF Fitting
  <2>4. l \in DOMAIN table
    BY <1>1, <2>3 DEF Remembers
  <2>5. table[l] \in AnySymbol
    BY <1>1, <2>4 DEF IsTable
  <2> QED BY <2>3, <2>5, FeaturesFit
<1> QED BY <1>3, <1>4

-----------------------------------------------------------------------------
(* The longest common suffix.                                              *)

\* The last n labels of a string.
LEMMA SuffixIs ==
  ASSUME NEW T, NEW p \in Seq(T), NEW n \in 0 .. Len(p)
  PROVE  /\ SubSeq(p, Len(p) - n + 1, Len(p)) \in Seq(T) /\ Len(SubSeq(p, Len(p) - n + 1, Len(p))) = n
         /\ Ends(SubSeq(p, Len(p) - n + 1, Len(p)), p)
<1> DEFINE L == Len(p)
           s == SubSeq(p, L - n + 1, L)
<1>1. L \in Nat /\ n \in Nat /\ n <= L
  OBVIOUS
<1>2. s \in Seq(T) /\ Len(s) = n /\ \A i \in 1 .. n : s[i] = p[L - n + i]
  <2>1. s = [i \in 1 .. n |-> p[L - n + i]]
    <3>1. s = [i \in 1 .. (L - (L - n + 1) + 1) |-> p[i + (L - n + 1) - 1]]
      BY <1>1
    <3>2. L - (L - n + 1) + 1 = n
      BY <1>1
    <3>3. \A i \in 1 .. n : i + (L - n + 1) - 1 = L - n + i
      BY <1>1
    <3> HIDE DEF s, L
    <3> QED BY <1>1, <3>1, <3>2, <3>3
  <2>2. \A i \in 1 .. n : p[L - n + i] \in T
    <3>1. \A i \in 1 .. n : L - n + i \in 1 .. L
      BY <1>1
    <3> QED BY <3>1
  <2> HIDE DEF s, L
  <2> QED BY <1>1, <2>1, <2>2
<1>3. Ends(s, p)
  <2> HIDE DEF s
  <2> QED BY <1>1, <1>2 DEF Ends
<1> QED BY <1>2, <1>3

\* The common suffix is one, and every common suffix ends it.
LEMMA CommonSuffixIs ==
  ASSUME NEW T, NEW S \in SUBSET Seq(T), S # {}
  PROVE  /\ CommonSuffix(S) \in Seq(T) /\ \A x \in S : Ends(CommonSuffix(S), x)
         /\ \A d \in Seq(T) : (\A x \in S : Ends(d, x)) => Ends(d, CommonSuffix(S))
<1> DEFINE one == CHOOSE x \in S : TRUE
           suffix(n) == SubSeq(one, Len(one) - n + 1, Len(one))
           common == {n \in 0 .. Len(one) : \A x \in S : IsSuffixOf(suffix(n), x)}
           k == CHOOSE n \in common : \A m \in common : m <= n
<1>1. one \in S /\ one \in Seq(T) /\ Len(one) \in Nat
  OBVIOUS
<1>2. CommonSuffix(S) = suffix(k)
  BY DEF CommonSuffix
<1> HIDE DEF one
<1>3. \A n \in 0 .. Len(one) : suffix(n) \in Seq(T) /\ Len(suffix(n)) = n /\ Ends(suffix(n), one)
  BY <1>1, SuffixIs
<1> HIDE DEF suffix
<1>4. common = {n \in 0 .. Len(one) : \A x \in S : Ends(suffix(n), x)}
  BY <1>3, EndsIsSuffix
<1>5. 0 \in common
  <2>1. suffix(0) = <<>>
    BY <1>1, <1>3
  <2>2. \A x \in S : Ends(<<>>, x)
    BY EndsItself
  <2> QED BY <1>1, <1>4, <2>1, <2>2
<1> HIDE DEF common
<1>0. \A n \in common : n \in Nat /\ n <= Len(one)
  BY <1>1, <1>4
<1>6. k \in common /\ \A m \in common : m <= k
  <2>1. \E n \in common : \A m \in common : m <= n
    <3> DEFINE B == {Len(one) - n : n \in common}
    <3>1. B \in SUBSET Nat /\ B # {}
      BY <1>0, <1>1, <1>5
    <3>2. PICK b \in B : \A c \in B : b <= c
      <4> HIDE DEF B
      <4> QED BY <3>1, LeastNatural
    <3>3. PICK n \in common : b = Len(one) - n
      BY <3>2
    <3>4. \A m \in common : m <= n
      <4> SUFFICES ASSUME NEW m \in common PROVE m <= n
        OBVIOUS
      <4>1. b <= Len(one) - m
        BY <3>2
      <4> QED BY <1>0, <1>1, <3>3, <4>1
    <3> QED BY <3>4
  <2> QED BY <2>1
<1> HIDE DEF k
<1>7. k \in 0 .. Len(one) /\ \A x \in S : Ends(suffix(k), x)
  BY <1>4, <1>6
<1>8. ASSUME NEW d \in Seq(T), \A x \in S : Ends(d, x) PROVE Ends(d, suffix(k))
  <2>1. Ends(d, one) /\ Len(d) \in Nat /\ Len(d) <= Len(one)
    BY <1>1, <1>8 DEF Ends
  <2>2. Len(d) \in 0 .. Len(one)
    BY <1>1, <2>1
  <2>3. suffix(Len(d)) = d
    BY <1>1, <1>3, <2>1, <2>2, EndsAlike
  <2>4. Len(d) \in common
    BY <1>4, <1>8, <2>2, <2>3
  <2>5. Len(d) <= Len(suffix(k))
    BY <1>3, <1>6, <1>7, <2>4
  <2> QED BY <1>1, <1>3, <1>7, <2>1, <2>5, EndsChain
<1> QED BY <1>2, <1>3, <1>7, <1>8

-----------------------------------------------------------------------------
(* The histories of the states of a model.                                 *)

\* What one more iteration makes of the strings h, and the function that iterates until
\* nothing changes.
OneMore(arcs, start, h) ==
  [q \in DOMAIN arcs |->
     IF Arriving(Into(arcs), start, h, q) = {} THEN {}
     ELSE {CommonSuffix(Arriving(Into(arcs), start, h, q))}]
Settles(arcs, start, f) ==
  f = [h \in Tables(arcs) |-> IF OneMore(arcs, start, h) = h THEN h ELSE f[OneMore(arcs, start, h)]]

\* Labels are numbers.
Labelled(arcs) == \A q \in DOMAIN arcs : DOMAIN arcs[q] \subseteq Int

LEMMA ArrivingIs ==
  ASSUME NEW arcs, NEW start, NEW h, NEW q \in DOMAIN arcs
  PROVE  \A x : x \in Arriving(Into(arcs), start, h, q) <=>
           \/ \E p \in DOMAIN arcs : \E l \in DOMAIN arcs[p] : \E y \in h[p] :
                arcs[p][l] = q /\ x = Append(y, l)
           \/ q = start /\ x = <<>>
<1> DEFINE into == Into(arcs)
           over == UNION {{Append(x, e[2]) : x \in h[e[1]]} : e \in into[q]}
<1>1. \A e : e \in into[q] <=>
        \E p \in DOMAIN arcs : \E l \in DOMAIN arcs[p] : arcs[p][l] = q /\ e = <<p, l>>
  <2>1. into[q] = UNION {{<<p, l>> : l \in {l \in DOMAIN arcs[p] : arcs[p][l] = q}} : p \in DOMAIN arcs}
    BY DEF Into
  <2> QED BY <2>1
<1> HIDE DEF into
<1>2. \A x : x \in over <=> \E e \in into[q] : \E y \in h[e[1]] : x = Append(y, e[2])
  OBVIOUS
<1>3. \A x : x \in over <=> \E p \in DOMAIN arcs : \E l \in DOMAIN arcs[p] : \E y \in h[p] :
                              arcs[p][l] = q /\ x = Append(y, l)
  <2> HIDE DEF over
  <2>1. ASSUME NEW x, x \in over
        PROVE  \E p \in DOMAIN arcs : \E l \in DOMAIN arcs[p] : \E y \in h[p] :
                 arcs[p][l] = q /\ x = Append(y, l)
    <3>1. PICK e \in into[q] : \E y \in h[e[1]] : x = Append(y, e[2])
      BY <1>2, <2>1
    <3>2. PICK p \in DOMAIN arcs : \E l \in DOMAIN arcs[p] : arcs[p][l] = q /\ e = <<p, l>>
      BY <1>1, <3>1
    <3>3. PICK l \in DOMAIN arcs[p] : arcs[p][l] = q /\ e = <<p, l>>
      BY <3>2
    <3>4. e[1] = p /\ e[2] = l
      BY <3>3
    <3> QED BY <3>1, <3>3, <3>4
  <2>2. ASSUME NEW p \in DOMAIN arcs, NEW l \in DOMAIN arcs[p], NEW y \in h[p], arcs[p][l] = q
        PROVE  Append(y, l) \in over
    <3>1. <<p, l>> \in into[q]
      BY <1>1, <2>2
    <3>2. y \in h[<<p, l>>[1]] /\ Append(y, l) = Append(y, <<p, l>>[2])
      OBVIOUS
    <3> QED BY <1>2, <3>1, <3>2
  <2> QED BY <2>1, <2>2
<1>4. Arriving(into, start, h, q) = over \cup IF q = start THEN {<<>>} ELSE {}
  BY DEF Arriving
<1> HIDE DEF over
<1>5. \A x : x \in Arriving(into, start, h, q) <=> x \in over \/ (q = start /\ x = <<>>)
  BY <1>4
<1> QED BY <1>3, <1>5 DEF into

\* Strings of labels arrive, and one of them is their common suffix.
LEMMA OneMoreIs ==
  ASSUME NEW arcs, Labelled(arcs), NEW start, NEW h \in Tables(arcs)
  PROVE  /\ OneMore(arcs, start, h) \in Tables(arcs)
         /\ \A q \in DOMAIN arcs :
              LET S == Arriving(Into(arcs), start, h, q)
              IN /\ S \in SUBSET Seq(Int)
                 /\ S = {} => OneMore(arcs, start, h)[q] = {}
                 /\ S # {} => OneMore(arcs, start, h)[q] = {CommonSuffix(S)} /\ CommonSuffix(S) \in Seq(Int)
<1>1. ASSUME NEW q \in DOMAIN arcs
      PROVE  Arriving(Into(arcs), start, h, q) \in SUBSET Seq(Int)
  <2> SUFFICES ASSUME NEW x \in Arriving(Into(arcs), start, h, q) PROVE x \in Seq(Int)
    OBVIOUS
  <2>1. CASE \E p \in DOMAIN arcs : \E l \in DOMAIN arcs[p] : \E y \in h[p] : arcs[p][l] = q /\ x = Append(y, l)
    <3>0. PICK p \in DOMAIN arcs : \E l \in DOMAIN arcs[p] : \E y \in h[p] : x = Append(y, l)
      BY <2>1
    <3>1. PICK l \in DOMAIN arcs[p] : \E y \in h[p] : x = Append(y, l)
      BY <3>0
    <3>3. PICK y \in h[p] : x = Append(y, l)
      BY <3>1
    <3>2. y \in Seq(Int) /\ l \in Int
      BY DEF Tables, Labelled
    <3> QED BY <3>2, <3>3, AppendFacts
  <2>2. CASE q = start /\ x = <<>>
    BY <2>2, EmptyFacts
  <2> QED BY <2>1, <2>2, ArrivingIs
<1>2. ASSUME NEW q \in DOMAIN arcs
      PROVE  LET S == Arriving(Into(arcs), start, h, q)
             IN S # {} => CommonSuffix(S) \in Seq(Int)
  BY <1>1, CommonSuffixIs
<1>3. OneMore(arcs, start, h) \in Tables(arcs)
  BY <1>2 DEF OneMore, Tables
<1> QED BY <1>1, <1>2, <1>3 DEF OneMore

\* The iteration exists.
LEMMA SettlesExists ==
  ASSUME NEW arcs, Labelled(arcs), NEW start
  PROVE  \E f : Settles(arcs, start, f)
<1> DEFINE D == Tables(arcs)
           turn == [h \in D |-> OneMore(arcs, start, h)]
           done == {h \in D : OneMore(arcs, start, h) = h}
           v == [h \in D |-> h]
<1>1. \A x \in D \ done : turn[x] \in D
  BY OneMoreIs
<1>2. PICK f : LoopIs(D, turn, done, v, f)
  <2> HIDE DEF D, turn, done, v
  <2> QED BY <1>1, LoopExists
<1>3. f = [h \in D |-> IF h \in done THEN v[h] ELSE f[turn[h]]]
  BY <1>2 DEF LoopIs
<1>4. \A h \in D : (IF h \in done THEN v[h] ELSE f[turn[h]])
                     = (IF OneMore(arcs, start, h) = h THEN h ELSE f[OneMore(arcs, start, h)])
  OBVIOUS
<1>5. f = [h \in D |-> IF OneMore(arcs, start, h) = h THEN h ELSE f[OneMore(arcs, start, h)]]
  <2> HIDE DEF D, turn, done, v
  <2> QED BY <1>3, <1>4
<1> QED BY <1>5 DEF Settles

\* The strings in g are ends of those in h, and there are no fewer of them.
Shortens(arcs, g, h) == \A q \in DOMAIN arcs : \A x \in h[q] : \E y \in g[q] : Ends(y, x)

\* If g is closer to the end, so is what an iteration makes of it.
LEMMA OneMoreShortens ==
  ASSUME NEW arcs, Labelled(arcs), NEW start, NEW g \in Tables(arcs), NEW h \in Tables(arcs), Shortens(arcs, g, h)
  PROVE  Shortens(arcs, OneMore(arcs, start, g), OneMore(arcs, start, h))
<1> SUFFICES ASSUME NEW q \in DOMAIN arcs, NEW x \in OneMore(arcs, start, h)[q]
             PROVE  \E y \in OneMore(arcs, start, g)[q] : Ends(y, x)
  BY DEF Shortens
<1> DEFINE S == Arriving(Into(arcs), start, h, q)
           R == Arriving(Into(arcs), start, g, q)
<1>7. /\ S \in SUBSET Seq(Int) /\ R \in SUBSET Seq(Int)
      /\ S = {} => OneMore(arcs, start, h)[q] = {}
      /\ S # {} => OneMore(arcs, start, h)[q] = {CommonSuffix(S)}
  BY OneMoreIs
<1>1. S \in SUBSET Seq(Int) /\ S # {} /\ x = CommonSuffix(S) /\ R \in SUBSET Seq(Int)
  <2> HIDE DEF S, R
  <2> QED BY <1>7
<1>2. ASSUME NEW z \in S PROVE \E y \in R : Ends(y, z)
  <2>1. CASE \E p \in DOMAIN arcs : \E l \in DOMAIN arcs[p] : \E y \in h[p] : arcs[p][l] = q /\ z = Append(y, l)
    <3>0. PICK p \in DOMAIN arcs : \E l \in DOMAIN arcs[p] : \E y \in h[p] : arcs[p][l] = q /\ z = Append(y, l)
      BY <2>1
    <3>6. PICK l \in DOMAIN arcs[p] : \E y \in h[p] : arcs[p][l] = q /\ z = Append(y, l)
      BY <3>0
    <3>1. PICK u \in h[p] : arcs[p][l] = q /\ z = Append(u, l)
      BY <3>6
    <3>2. PICK y \in g[p] : Ends(y, u)
      BY <3>1 DEF Shortens
    <3>3. y \in Seq(Int) /\ u \in Seq(Int) /\ l \in Int
      BY <3>1, <3>2 DEF Tables, Labelled
    <3>4. Append(y, l) \in R
      BY <3>1, <3>2, ArrivingIs
    <3>5. Ends(Append(y, l), z)
      BY <3>1, <3>2, <3>3, EndsAppend
    <3> QED BY <3>4, <3>5
  <2>2. CASE q = start /\ z = <<>>
    <3>1. <<>> \in R
      BY <2>2, ArrivingIs
    <3>2. Ends(<<>>, <<>>)
      BY EndsItself, EmptyFacts
    <3> QED BY <2>2, <3>1, <3>2
  <2> QED BY <1>2, <2>1, <2>2, ArrivingIs
<1>3. R # {}
  BY <1>1, <1>2
<1>4. OneMore(arcs, start, g)[q] = {CommonSuffix(R)} /\ CommonSuffix(R) \in Seq(Int)
  BY <1>3, OneMoreIs
<1> HIDE DEF S, R
<1>5. \A z \in S : Ends(CommonSuffix(R), z)
  <2> SUFFICES ASSUME NEW z \in S PROVE Ends(CommonSuffix(R), z)
    OBVIOUS
  <2>1. PICK y \in R : Ends(y, z)
    BY <1>2
  <2>2. Ends(CommonSuffix(R), y)
    BY <1>1, <1>3, CommonSuffixIs
  <2>3. y \in Seq(Int) /\ z \in Seq(Int)
    BY <1>1
  <2> QED BY <1>4, <2>1, <2>2, <2>3, EndsChain
<1>6. Ends(CommonSuffix(R), CommonSuffix(S))
  BY <1>1, <1>4, <1>5, CommonSuffixIs
<1> QED BY <1>1, <1>4, <1>6

\* Strings for some states, which an arc extends by its label or shortens at the front: what
\* the states of a model are.
Owned(arcs, start, A, own) ==
  /\ A \subseteq DOMAIN arcs /\ start \in A /\ own[start] = <<>>
  /\ \A q \in A : own[q] \in Seq(Int)
  /\ \A q \in A : \A l \in DOMAIN arcs[q] : arcs[q][l] \in A /\ Ends(own[arcs[q][l]], Append(own[q], l))

\* What is true of every table of strings that the iteration makes.
Iterated(arcs, start, A, own, h) ==
  /\ h \in Tables(arcs) /\ Shortens(arcs, OneMore(arcs, start, h), h)
  /\ \A q \in DOMAIN arcs : h[q] = {} \/ \E x \in Seq(Int) : h[q] = {x}
  /\ \A q \in DOMAIN arcs : \A x \in h[q] : q \in A /\ Ends(own[q], x)

LEMMA OneMoreIterated ==
  ASSUME NEW arcs, Labelled(arcs), NEW start, NEW A, NEW own, Owned(arcs, start, A, own),
         NEW h, Iterated(arcs, start, A, own, h)
  PROVE  Iterated(arcs, start, A, own, OneMore(arcs, start, h))
<1> DEFINE g == OneMore(arcs, start, h)
<1>1. h \in Tables(arcs) /\ g \in Tables(arcs)
  BY OneMoreIs DEF Iterated
<1>2. Shortens(arcs, OneMore(arcs, start, g), g)
  BY <1>1, OneMoreShortens DEF Iterated
<1>3. ASSUME NEW q \in DOMAIN arcs
      PROVE  /\ g[q] = {} \/ \E x \in Seq(Int) : g[q] = {x}
             /\ \A x \in g[q] : q \in A /\ Ends(own[q], x)
  <2> DEFINE S == Arriving(Into(arcs), start, h, q)
  <2>1. /\ S \in SUBSET Seq(Int)
        /\ S = {} => g[q] = {}
        /\ S # {} => g[q] = {CommonSuffix(S)} /\ CommonSuffix(S) \in Seq(Int)
    BY <1>1, OneMoreIs
  <2>2. ASSUME NEW z \in S PROVE q \in A /\ Ends(own[q], z)
    <3>1. CASE \E p \in DOMAIN arcs : \E l \in DOMAIN arcs[p] : \E y \in h[p] : arcs[p][l] = q /\ z = Append(y, l)
      <4>1. PICK p \in DOMAIN arcs : \E l \in DOMAIN arcs[p] : \E y \in h[p] : arcs[p][l] = q /\ z = Append(y, l)
        BY <3>1
      <4>2. PICK l \in DOMAIN arcs[p] : \E y \in h[p] : arcs[p][l] = q /\ z = Append(y, l)
        BY <4>1
      <4>3. PICK u \in h[p] : arcs[p][l] = q /\ z = Append(u, l)
        BY <4>2
      <4>4. p \in A /\ Ends(own[p], u) /\ u \in Seq(Int) /\ l \in Int
        BY <1>1, <4>3 DEF Iterated, Tables, Labelled
      <4>5. q \in A /\ Ends(own[q], Append(own[p], l)) /\ own[p] \in Seq(Int) /\ own[q] \in Seq(Int)
        BY <4>3, <4>4 DEF Owned
      <4>6. Ends(Append(own[p], l), z)
        BY <4>3, <4>4, <4>5, EndsAppend
      <4>7. Append(own[p], l) \in Seq(Int) /\ z \in Seq(Int)
        BY <4>3, <4>4, <4>5, AppendFacts
      <4> QED BY <4>5, <4>6, <4>7, EndsChain
    <3>2. CASE q = start /\ z = <<>>
      <4>1. own[q] = <<>> /\ q \in A
        BY <3>2 DEF Owned
      <4>2. Ends(<<>>, <<>>)
        BY EndsItself, EmptyFacts
      <4> QED BY <3>2, <4>1, <4>2
    <3> QED BY <2>2, <3>1, <3>2, ArrivingIs
  <2> HIDE DEF S, g
  <2>3. CASE S = {}
    BY <2>1, <2>3
  <2>4. CASE S # {}
    <3>1. q \in A
      BY <2>2, <2>4
    <3>2. \A z \in S : Ends(own[q], z)
      BY <2>2
    <3>4. own[q] \in Seq(Int)
      BY <3>1 DEF Owned
    <3>3. Ends(own[q], CommonSuffix(S))
      BY <2>1, <2>4, <3>2, <3>4, CommonSuffixIs
    <3> QED BY <2>1, <2>4, <3>1, <3>3
  <2> QED BY <2>3, <2>4
<1> HIDE DEF g
<1>4. Iterated(arcs, start, A, own, g)
  BY <1>1, <1>2, <1>3 DEF Iterated
<1> QED BY <1>4 DEF g

\* The iteration begins without any string.
LEMMA EmptyIterated ==
  ASSUME NEW arcs, NEW start, NEW A, NEW own
  PROVE  Iterated(arcs, start, A, own, [q \in DOMAIN arcs |-> {}])
BY DEF Iterated, Tables, Shortens

\* What ends the iteration: fewer states without a string, or as many and shorter strings.
Empties(arcs, h) == {q \in DOMAIN arcs : h[q] = {}}
SlotsAt(h, q) == UNION {{q} \X (1 .. Len(x)) : x \in h[q]}
Slots(arcs, h) == UNION {SlotsAt(h, q) : q \in DOMAIN arcs}

LEMMA MeasuresFinite ==
  ASSUME NEW arcs, IsFiniteSet(DOMAIN arcs), NEW start, NEW A, NEW own, NEW h, Iterated(arcs, start, A, own, h)
  PROVE  IsFiniteSet(Empties(arcs, h)) /\ IsFiniteSet(Slots(arcs, h))
<1>1. IsFiniteSet(Empties(arcs, h))
  <2>1. Empties(arcs, h) \in SUBSET DOMAIN arcs
    BY DEF Empties
  <2> QED BY <2>1, FS_Subset
<1>2. ASSUME NEW q \in DOMAIN arcs PROVE IsFiniteSet(SlotsAt(h, q))
  <2>1. CASE h[q] = {}
    <3>1. SlotsAt(h, q) = {}
      BY <2>1 DEF SlotsAt
    <3> QED BY <3>1, FS_EmptySet
  <2>2. CASE \E x \in Seq(Int) : h[q] = {x}
    <3>1. PICK x \in Seq(Int) : h[q] = {x}
      BY <2>2
    <3>2. SlotsAt(h, q) = {q} \X (1 .. Len(x))
      BY <3>1 DEF SlotsAt
    <3>3. IsFiniteSet({q}) /\ IsFiniteSet(1 .. Len(x))
      <4>1. IsFiniteSet({q})
        BY FS_Singleton
      <4>2. IsFiniteSet(1 .. Len(x))
        BY IntervalFinite
      <4> QED BY <4>1, <4>2
    <3>4. IsFiniteSet({q} \X (1 .. Len(x)))
      BY ONLY <3>3, FS_Product
    <3> QED BY <3>2, <3>4
  <2> QED BY <2>1, <2>2 DEF Iterated
<1>3. IsFiniteSet(Slots(arcs, h))
  <2> DEFINE f == [q \in DOMAIN arcs |-> SlotsAt(h, q)]
             T == {f[q] : q \in DOMAIN arcs}
  <2>1. \A t \in T : IsFiniteSet(t)
    BY <1>2
  <2>2. T = {SlotsAt(h, q) : q \in DOMAIN arcs}
    OBVIOUS
  <2>3. IsFiniteSet(T)
    <3> HIDE DEF f
    <3>1. T = {f[q] : q \in DOMAIN arcs}
      OBVIOUS
    <3> HIDE DEF T
    <3> QED BY <3>1, ImageFinite
  <2>4. IsFiniteSet(UNION T)
    <3> HIDE DEF T
    <3> QED BY <2>1, <2>3, FS_UNION
  <2> QED BY <2>2, <2>4 DEF Slots
<1> QED BY <1>1, <1>3

LEMMA OneMoreCloser ==
  ASSUME NEW arcs, Labelled(arcs), NEW start, NEW A, NEW own, Owned(arcs, start, A, own),
         NEW h, Iterated(arcs, start, A, own, h), OneMore(arcs, start, h) # h
  PROVE  /\ Empties(arcs, OneMore(arcs, start, h)) \subseteq Empties(arcs, h)
         /\ Empties(arcs, OneMore(arcs, start, h)) = Empties(arcs, h) =>
              /\ Slots(arcs, OneMore(arcs, start, h)) \subseteq Slots(arcs, h)
              /\ Slots(arcs, OneMore(arcs, start, h)) # Slots(arcs, h)
<1> DEFINE g == OneMore(arcs, start, h)
<1>1. Iterated(arcs, start, A, own, g) /\ Shortens(arcs, g, h) /\ g # h
  BY OneMoreIterated DEF Iterated
<1>2. h \in Tables(arcs) /\ g \in Tables(arcs)
  BY <1>1 DEF Iterated
<1> HIDE DEF g
<1>3. Empties(arcs, g) \subseteq Empties(arcs, h)
  BY <1>1 DEF Empties, Shortens
<1>4. ASSUME Empties(arcs, g) = Empties(arcs, h)
      PROVE  Slots(arcs, g) \subseteq Slots(arcs, h) /\ Slots(arcs, g) # Slots(arcs, h)
  <2>1. ASSUME NEW q \in DOMAIN arcs, g[q] # {}
        PROVE  \E x \in Seq(Int), y \in Seq(Int) : h[q] = {x} /\ g[q] = {y} /\ Ends(y, x)
    <3>1. h[q] # {}
      BY <1>4, <2>1 DEF Empties
    <3>2. PICK x \in Seq(Int) : h[q] = {x}
      BY <3>1 DEF Iterated
    <3>3. PICK y \in Seq(Int) : g[q] = {y}
      BY <1>1, <2>1 DEF Iterated
    <3> QED BY <1>1, <3>2, <3>3 DEF Shortens
  <2>2. ASSUME NEW e \in Slots(arcs, g) PROVE e \in Slots(arcs, h)
    <3>1. PICK q \in DOMAIN arcs : e \in SlotsAt(g, q)
      BY <2>2 DEF Slots
    <3>2. PICK x \in Seq(Int), y \in Seq(Int) : h[q] = {x} /\ g[q] = {y} /\ Ends(y, x)
      <4>1. g[q] # {}
        BY <3>1 DEF SlotsAt
      <4> QED BY <2>1, <4>1
    <3>3. e \in {q} \X (1 .. Len(y))
      BY <3>1, <3>2 DEF SlotsAt
    <3>4. Len(y) <= Len(x) /\ Len(y) \in Nat /\ Len(x) \in Nat
      BY <3>2 DEF Ends
    <3>5. e \in {q} \X (1 .. Len(x))
      BY <3>3, <3>4
    <3>6. e \in SlotsAt(h, q)
      BY <3>2, <3>5 DEF SlotsAt
    <3> QED BY <3>6 DEF Slots
  <2>3. PICK q \in DOMAIN arcs : g[q] # h[q]
    BY <1>1, <1>2 DEF Tables
  <2>4. g[q] # {}
    BY <1>4, <2>3 DEF Empties
  <2>5. PICK x \in Seq(Int), y \in Seq(Int) : h[q] = {x} /\ g[q] = {y} /\ Ends(y, x)
    BY <2>1, <2>4
  <2>6. Len(y) < Len(x) /\ Len(y) \in Nat /\ Len(x) \in Nat
    <3>1. Len(y) <= Len(x) /\ Len(y) \in Nat /\ Len(x) \in Nat /\ x # y
      BY <2>3, <2>5 DEF Ends
    <3>2. Ends(x, x)
      BY EndsItself
    <3>3. Len(y) # Len(x)
      BY <2>5, <3>1, <3>2, EndsAlike
    <3> QED BY <3>1, <3>3
  <2>7. <<q, Len(x)>> \in Slots(arcs, h)
    <3>1. <<q, Len(x)>> \in {q} \X (1 .. Len(x))
      BY <2>6
    <3>2. <<q, Len(x)>> \in SlotsAt(h, q)
      BY <2>5, <3>1 DEF SlotsAt
    <3> QED BY <3>2 DEF Slots
  <2>8. <<q, Len(x)>> \notin Slots(arcs, g)
    <3> SUFFICES ASSUME NEW p \in DOMAIN arcs, <<q, Len(x)>> \in SlotsAt(g, p) PROVE FALSE
      BY DEF Slots
    <3>1. PICK z \in g[p] : <<q, Len(x)>> \in {p} \X (1 .. Len(z))
      BY DEF SlotsAt
    <3>2. p = q /\ Len(x) \in 1 .. Len(z)
      BY <3>1
    <3>3. z = y
      BY <2>5, <3>1, <3>2
    <3> QED BY <2>6, <3>2, <3>3
  <2> QED BY <2>2, <2>7, <2>8
<1> QED BY <1>3, <1>4 DEF g

\* The iteration ends, in strings that it leaves as they are.
LEMMA SettledIs ==
  ASSUME NEW arcs, IsFiniteSet(DOMAIN arcs), Labelled(arcs), NEW start, NEW A, NEW own,
         Owned(arcs, start, A, own), NEW f, Settles(arcs, start, f),
         NEW h, Iterated(arcs, start, A, own, h)
  PROVE  Iterated(arcs, start, A, own, f[h]) /\ OneMore(arcs, start, f[h]) = f[h]
<1> DEFINE Good(g) == Iterated(arcs, start, A, own, g)
           Ends1(g) == Good(f[g]) /\ OneMore(arcs, start, f[g]) = f[g]
           Bad == {g \in Tables(arcs) : Good(g) /\ ~ Ends1(g)}
           Es == {Cardinality(Empties(arcs, g)) : g \in Bad}
<1>1. \A g \in Bad : Good(g) /\ ~ Ends1(g) /\ g \in Tables(arcs)
  OBVIOUS
<1>2. \A g \in Tables(arcs) : Good(g) /\ ~ Ends1(g) => g \in Bad
  OBVIOUS
<1> HIDE DEF Bad
<1> SUFFICES ASSUME Bad # {} PROVE FALSE
  BY <1>2 DEF Iterated
<1>3. \A g \in Bad : Cardinality(Empties(arcs, g)) \in Nat /\ Cardinality(Slots(arcs, g)) \in Nat
  <2> SUFFICES ASSUME NEW g \in Bad
               PROVE  Cardinality(Empties(arcs, g)) \in Nat /\ Cardinality(Slots(arcs, g)) \in Nat
    OBVIOUS
  <2>1. IsFiniteSet(Empties(arcs, g)) /\ IsFiniteSet(Slots(arcs, g))
    BY <1>1, MeasuresFinite
  <2> QED BY <2>1, FS_CardinalityType
<1>4. PICK g1 \in Bad : \A g \in Bad : Cardinality(Empties(arcs, g1)) <= Cardinality(Empties(arcs, g))
  <2>1. Es \in SUBSET Nat /\ Es # {}
    BY <1>3
  <2>2. PICK e \in Es : \A k \in Es : e <= k
    <3> HIDE DEF Es
    <3> QED BY <2>1, LeastNatural
  <2> QED BY <2>2
<1> DEFINE Few == {g \in Bad : Cardinality(Empties(arcs, g)) = Cardinality(Empties(arcs, g1))}
           Ss == {Cardinality(Slots(arcs, g)) : g \in Few}
<1>5. PICK g \in Few : \A k \in Few : Cardinality(Slots(arcs, g)) <= Cardinality(Slots(arcs, k))
  <2>1. Ss \in SUBSET Nat /\ Ss # {}
    BY <1>3
  <2>2. PICK e \in Ss : \A k \in Ss : e <= k
    <3> HIDE DEF Ss
    <3> QED BY <2>1, LeastNatural
  <2> QED BY <2>2
<1> DEFINE k == OneMore(arcs, start, g)
<1>6. g \in Bad /\ Good(g) /\ ~ Ends1(g) /\ g \in Tables(arcs)
  BY <1>1
<1>7. f[g] = IF k = g THEN g ELSE f[k]
  BY <1>6 DEF Settles
<1>8. k # g
  <2> SUFFICES ASSUME k = g PROVE FALSE
    OBVIOUS
  <2>1. f[g] = g
    BY <1>7
  <2> QED BY <1>6, <2>1
<1>9. Good(k) /\ k \in Tables(arcs)
  BY <1>6, OneMoreIterated DEF Iterated
<1>10. k \in Bad
  <2>1. f[g] = f[k]
    BY <1>7, <1>8
  <2>2. ~ Ends1(k)
    BY <1>6, <2>1
  <2> QED BY <1>2, <1>9, <2>2
<1>11. /\ Empties(arcs, k) \subseteq Empties(arcs, g)
       /\ Empties(arcs, k) = Empties(arcs, g) =>
            Slots(arcs, k) \subseteq Slots(arcs, g) /\ Slots(arcs, k) # Slots(arcs, g)
  BY <1>6, <1>8, OneMoreCloser
<1>12. IsFiniteSet(Empties(arcs, g)) /\ IsFiniteSet(Slots(arcs, g))
  BY <1>6, MeasuresFinite
<1> HIDE DEF k, Good, Ends1
<1>13. Cardinality(Empties(arcs, k)) <= Cardinality(Empties(arcs, g))
  BY <1>11, <1>12, FS_Subset
<1>14. Cardinality(Empties(arcs, k)) = Cardinality(Empties(arcs, g))
  <2>1. Cardinality(Empties(arcs, g)) = Cardinality(Empties(arcs, g1))
    BY <1>5
  <2>2. Cardinality(Empties(arcs, g1)) <= Cardinality(Empties(arcs, k))
    BY <1>4, <1>10
  <2> QED BY <1>3, <1>6, <1>10, <1>13, <2>1, <2>2
<1>15. Empties(arcs, k) = Empties(arcs, g)
  BY <1>11, <1>12, <1>14, FS_Subset
<1>16. Cardinality(Slots(arcs, k)) < Cardinality(Slots(arcs, g))
  <2>1. Slots(arcs, k) \subseteq Slots(arcs, g) /\ Slots(arcs, k) # Slots(arcs, g)
    BY <1>11, <1>15
  <2>2. /\ Cardinality(Slots(arcs, k)) <= Cardinality(Slots(arcs, g))
        /\ Cardinality(Slots(arcs, k)) # Cardinality(Slots(arcs, g))
    BY <1>12, <2>1, FS_Subset
  <2> QED BY <1>3, <1>6, <1>10, <2>2
<1>17. k \in Few
  BY <1>5, <1>10, <1>14
<1> QED BY <1>3, <1>5, <1>6, <1>10, <1>16, <1>17

\* The history of a state ends with the string of the state, and an arc extends it or
\* shortens it at the front.
Follows(arcs, start, A, own, history) ==
  \E R \in SUBSET A :
    /\ start \in R /\ history[start] = <<>>
    /\ \A q \in R : /\ history[q] \in Seq(Int) /\ own[q] \in Seq(Int) /\ Ends(own[q], history[q])
                    /\ \A l \in DOMAIN arcs[q] :
                         /\ l \in Int /\ arcs[q][l] \in R
                         /\ Ends(history[arcs[q][l]], Append(history[q], l))

LEMMA HistoriesFollow ==
  ASSUME NEW arcs, IsFiniteSet(DOMAIN arcs), Labelled(arcs), Whole(arcs), NEW start, NEW A, NEW own,
         Owned(arcs, start, A, own)
  PROVE  Follows(arcs, start, A, own, Histories(arcs, start))
<1> DEFINE from == CHOOSE f : Settles(arcs, start, f)
           none == [q \in DOMAIN arcs |-> {}]
           found == from[none]
           history == [q \in DOMAIN arcs |-> CHOOSE x \in found[q] : TRUE]
<1>1. Histories(arcs, start) = history
  <2>1. Tabulated(Into(arcs)) = Into(arcs)
    BY TabulatedIs
  <2> QED BY <2>1 DEF Histories, Settles, OneMore
<1>2. Settles(arcs, start, from)
  BY SettlesExists
<1> HIDE DEF from
<1>3. Iterated(arcs, start, A, own, none)
  BY EmptyIterated
<1> HIDE DEF none
<1>4. Iterated(arcs, start, A, own, found) /\ OneMore(arcs, start, found) = found
  BY <1>2, <1>3, SettledIs
<1> HIDE DEF found
<1> DEFINE R == {q \in DOMAIN arcs : found[q] # {}}
           Q(q) == Arriving(Into(arcs), start, found, q)
<1>5. found \in Tables(arcs)
  BY <1>4 DEF Iterated
<1>6. \A q \in DOMAIN arcs : /\ Q(q) \in SUBSET Seq(Int)
                             /\ Q(q) = {} => found[q] = {}
                             /\ Q(q) # {} => found[q] = {CommonSuffix(Q(q))}
  BY <1>4, <1>5, OneMoreIs
<1>7. \A q \in DOMAIN arcs : \A z \in Q(q) : q \in R /\ history[q] \in Seq(Int) /\ Ends(history[q], z)
  <2> SUFFICES ASSUME NEW q \in DOMAIN arcs, NEW z \in Q(q)
               PROVE  q \in R /\ history[q] \in Seq(Int) /\ Ends(history[q], z)
    OBVIOUS
  <2>1. Q(q) \in SUBSET Seq(Int) /\ Q(q) # {} /\ found[q] = {CommonSuffix(Q(q))}
    BY <1>6
  <2>2. history[q] = CommonSuffix(Q(q))
    BY <2>1
  <2>3. CommonSuffix(Q(q)) \in Seq(Int) /\ Ends(CommonSuffix(Q(q)), z)
    <3> HIDE DEF Q
    <3> QED BY <2>1, CommonSuffixIs
  <2> HIDE DEF Q
  <2> QED BY <2>1, <2>2, <2>3
<1>8. \A q \in R : history[q] \in found[q]
  OBVIOUS
<1>9. start \in R /\ history[start] = <<>>
  <2>1. start \in DOMAIN arcs
    BY DEF Owned
  <2>2. <<>> \in Q(start)
    BY <2>1, ArrivingIs
  <2>3. start \in R /\ history[start] \in Seq(Int) /\ Ends(history[start], <<>>)
    BY <1>7, <2>1, <2>2
  <2> HIDE DEF history, R
  <2>4. Len(history[start]) = 0
    BY <2>3, EmptyFacts DEF Ends
  <2> QED BY <2>3, <2>4
<1>10. ASSUME NEW q \in R
       PROVE  /\ history[q] \in Seq(Int) /\ own[q] \in Seq(Int) /\ Ends(own[q], history[q])
              /\ \A l \in DOMAIN arcs[q] :
                   /\ l \in Int /\ arcs[q][l] \in R
                   /\ Ends(history[arcs[q][l]], Append(history[q], l))
  <2>1. q \in DOMAIN arcs /\ history[q] \in found[q]
    BY <1>8
  <2>2. q \in A /\ Ends(own[q], history[q])
    BY <1>4, <2>1 DEF Iterated
  <2>3. own[q] \in Seq(Int)
    BY <2>2 DEF Owned
  <2>4. history[q] \in Seq(Int)
    BY <1>5, <2>1 DEF Tables
  <2>5. ASSUME NEW l \in DOMAIN arcs[q]
        PROVE  l \in Int /\ arcs[q][l] \in R /\ Ends(history[arcs[q][l]], Append(history[q], l))
    <3>1. l \in Int /\ arcs[q][l] \in DOMAIN arcs
      BY <2>1 DEF Labelled, Whole
    <3>2. Append(history[q], l) \in Q(arcs[q][l])
      BY <2>1, <3>1, ArrivingIs
    <3> QED BY <1>7, <3>1, <3>2
  <2> QED BY <2>2, <2>3, <2>4, <2>5
<1>11. R \in SUBSET A
  BY <1>4, <1>8 DEF Iterated
<1> HIDE DEF R, history
<1>12. Follows(arcs, start, A, own, history)
  BY <1>9, <1>10, <1>11 DEF Follows
<1> QED BY <1>1, <1>12

-----------------------------------------------------------------------------
(* The n-grams of the states, over phi or not.                             *)

\* With or without phi, an arc leads to the longest end of the n-gram that goes on: only
\* states that do not have the label are left for a shorter one.
LEMMA FindLongest ==
  ASSUME NEW n \in Nat, NEW G, NEW s \in 1 .. n, NEW e \in 1 .. n, s # e, Grams(G, n, e),
         NEW m, Scores(m, G, n, s, e), BoundedBy(m, s), NEW l \in 1 .. n, NEW byPhi,
         NEW p \in Core(G, n, e), NEW q \in Find(m, p, l, byPhi)
  PROVE  /\ l = e => q = FinalState
         /\ l # e => q \in Core(G, n, e) /\ IsLongest(q, InnerEnds(G, n, Append(p, l)))
<1> DEFINE C == Core(G, n, e)
           Good(x) == \A r \in Find(m, x, l, byPhi) :
                        /\ l = e => r = FinalState
                        /\ l # e => r \in C /\ IsLongest(r, InnerEnds(G, n, Append(x, l)))
           Bad == {k \in Nat : \E x \in C : ~ Good(x) /\ Len(x) = k}
<1>1. Whole(m) /\ C \subseteq DOMAIN m /\ \A x \in C : ScoresAt(m, G, n, s, e, x)
  BY DEF Scores
<1>2. l # Phi
  BY DEF Phi
<1>3. ASSUME Bad # {} PROVE FALSE
  <2>1. Bad \in SUBSET Nat
    OBVIOUS
  <2>2. PICK k \in Bad : \A j \in Bad : k <= j
    <3> HIDE DEF Bad
    <3> QED BY <1>3, <2>1, LeastNatural
  <2>3. PICK x \in C : ~ Good(x) /\ Len(x) = k
    BY <2>2
  <2>4. ScoresAt(m, G, n, s, e, x) /\ x \in DOMAIN m
    BY <1>1, <2>3
  <2>7. x \in Seq(1 .. n) /\ Len(x) \in Nat /\ (\A i \in 1 .. Len(x) : x[i] # e) /\ x \in G
    BY CoreIs
  <2>8. /\ Append(x, l) \in Seq(1 .. n) /\ Len(Append(x, l)) = Len(x) + 1
        /\ \A i \in 1 .. Len(x) : Append(x, l)[i] = x[i]
        /\ Append(x, l)[Len(x) + 1] = l
    BY <2>7, AppendFacts
  <2>5. CASE l \in DOMAIN m[x]
    <3>1. Find(m, x, l, byPhi) = {m[x][l]}
      BY <1>1, <2>4, <2>5, FindStep
    <3>2. l \in Kids(G, n, x)
      BY <1>2, <2>4, <2>5 DEF ScoresAt
    <3>3. CASE l = e
      <4>1. m[x][l] = FinalState
        BY <2>4, <3>2, <3>3 DEF ScoresAt
      <4> QED BY <2>3, <3>1, <3>3, <4>1
    <3>4. CASE l # e
      <4>1. x = Root => l # s
        BY <2>5 DEF BoundedBy
      <4>2. IsLongest(m[x][l], InnerEnds(G, n, Append(x, l)))
        BY <2>4, <3>2, <3>4, <4>1 DEF ScoresAt
      <4>4. \A i \in 1 .. Len(Append(x, l)) : Append(x, l)[i] # e
        BY <3>4, <2>7, <2>8
      <4>5. m[x][l] \in C
        BY <4>2, <2>8, <4>4, CoreEnds DEF IsLongest
      <4> QED BY <2>3, <3>1, <3>4, <4>2, <4>5
    <3> QED BY <3>3, <3>4
  <2>6. CASE l \notin DOMAIN m[x]
    <3>1. Phi \in DOMAIN m[x] /\ Find(m, x, l, byPhi) = Find(m, m[x][Phi], l, byPhi)
      BY <1>1, <2>3, <2>4, <2>6, FindStep
    <3>2. x # Root /\ BacksTo(G, n, x, m[x][Phi])
      BY <2>4, <3>1 DEF ScoresAt
    <3> DEFINE b == m[x][Phi]
    <3>3. b \in C /\ Len(b) \in Nat /\ Len(b) < Len(x)
      BY <2>3, <3>2, BackoffIsShorter
    <3>4. Find(m, x, l, byPhi) = Find(m, b, l, byPhi) /\ IsLongest(b, InnerEnds(G, n, x) \ {x})
      BY <3>1, <3>2 DEF BacksTo
    <3> HIDE DEF b
    <3>5. Len(b) \notin Bad
      <4>1. ~ (k <= Len(b))
        BY <2>1, <2>2, <2>3, <3>3
      <4> QED BY <2>2, <4>1
    <3>6. Good(b)
      BY <3>3, <3>5
    <3>7. ASSUME l # e, NEW r \in C, IsLongest(r, InnerEnds(G, n, Append(b, l)))
          PROVE  IsLongest(r, InnerEnds(G, n, Append(x, l)))
      <4>1. b \in Seq(1 .. n) /\ Ends(b, x)
        BY <3>3, <3>4, CoreIs DEF IsLongest, InnerEnds
      <4>2. Append(b, l) \in Seq(1 .. n) /\ Ends(Append(b, l), Append(x, l))
        BY <2>7, <4>1, EndsAppend, AppendFacts
      <4>3. r \in G /\ r \in Seq(1 .. n) /\ ~ Leaf(G, n, r) /\ Ends(r, Append(b, l))
        BY <3>7, CoreIs DEF IsLongest, InnerEnds
      <4>4. r \in InnerEnds(G, n, Append(x, l))
        BY <2>8, <4>2, <4>3, EndsChain DEF InnerEnds
      <4>5. ASSUME NEW t \in InnerEnds(G, n, Append(x, l)) PROVE Len(t) <= Len(r)
        <5>1. t \in G /\ t \in Seq(1 .. n) /\ ~ Leaf(G, n, t) /\ Ends(t, Append(x, l))
          BY DEF InnerEnds, Grams
        <5>2. CASE t = Root
          BY <4>3, <5>2, EmptyFacts DEF Root
        <5>3. CASE t # Root
          <6>1. Last(t) = l /\ Ends(Front(t), x) /\ Front(t) \in Seq(1 .. n)
            BY <2>7, <5>1, <5>3, EndsAppend DEF Root
          <6>2. Front(t) \in G /\ Append(Front(t), l) = t
            <7>1. Front(t) \in G
              BY <5>1, <5>3 DEF Grams
            <7>2. Append(Front(t), Last(t)) = t
              BY <5>1, <5>3, FrontFacts DEF Root
            <7> QED BY <6>1, <7>1, <7>2
          <6>3. ~ Leaf(G, n, Front(t))
            BY <5>1, <6>2 DEF Leaf
          <6>4. Front(t) # x
            <7> SUFFICES ASSUME Front(t) = x PROVE FALSE
              OBVIOUS
            <7>1. l \in Kids(G, n, x)
              BY <5>1, <6>2 DEF Kids
            <7> QED BY <2>4, <2>6, <3>2, <3>7, <7>1 DEF ScoresAt
          <6>5. Front(t) \in InnerEnds(G, n, x) \ {x}
            BY <6>1, <6>2, <6>3, <6>4 DEF InnerEnds
          <6>6. Len(Front(t)) <= Len(b)
            BY <3>4, <6>5 DEF IsLongest
          <6>7. Ends(Front(t), b)
            BY <2>7, <4>1, <6>1, <6>6, EndsChain
          <6>10. Ends(Append(Front(t), l), Append(b, l))
            BY <4>1, <6>1, <6>7, EndsAppend
          <6>8. Ends(t, Append(b, l))
            BY <6>2, <6>10
          <6>9. t \in InnerEnds(G, n, Append(b, l))
            BY <5>1, <6>8 DEF InnerEnds
          <6> QED BY <3>7, <6>9 DEF IsLongest
        <5> QED BY <5>2, <5>3
      <4> QED BY <4>4, <4>5 DEF IsLongest
    <3> QED BY <2>3, <3>4, <3>6, <3>7
  <2> QED BY <2>5, <2>6
<1>4. Len(p) \in Nat
  BY CoreIs
<1>5. Good(p)
  BY <1>3, <1>4
<1> QED BY <1>5

\* The n-gram of a state of the composition: that of its trie state, if it is one that goes on.
Own(G, n, e, p) == IF p \in Core(G, n, e) THEN p ELSE Root

\* From the states of S, each arc leads to the longest n-gram that goes on, or to the end.
Tracks(G, n, e, arcs, S) ==
  \A q \in S :
    /\ q[1] \in Core(G, n, e) \cup {NewStart, FinalState}
    /\ \A l \in DOMAIN arcs[q] :
         /\ l \in 1 .. n /\ q[1] # FinalState /\ arcs[q][l] \in S
         /\ \/ arcs[q][l][1] = FinalState
            \/ /\ arcs[q][l][1] \in Core(G, n, e)
               /\ IsLongest(arcs[q][l][1], InnerEnds(G, n, Append(Own(G, n, e, q[1]), l)))

\* What Find finds at a state of the scoring machine.
LEMMA FindTracks ==
  ASSUME NEW n \in Nat, NEW G, NEW s \in 1 .. n, NEW e \in 1 .. n, s # e, Grams(G, n, e),
         NEW m, Scores(m, G, n, s, e), BoundedBy(m, s), NEW l \in 1 .. n, NEW byPhi,
         NEW p \in Core(G, n, e) \cup {NewStart, FinalState}, NEW r \in Find(m, p, l, byPhi)
  PROVE  /\ p # FinalState
         /\ \/ r = FinalState
            \/ r \in Core(G, n, e) /\ IsLongest(r, InnerEnds(G, n, Append(Own(G, n, e, p), l)))
<1>1. /\ Whole(m) /\ NewStart \in DOMAIN m /\ FinalState \in DOMAIN m
      /\ IsLongest(m[NewStart][s], InnerEnds(G, n, <<s>>)) /\ m[NewStart][s] \in Core(G, n, e)
  BY CoreStart DEF Scores
<1>2. /\ DOMAIN m[NewStart] \subseteq {s} /\ DOMAIN m[FinalState] = {} /\ Phi # s
  BY DEF BoundedBy, Phi
<1>3. NewStart \notin Core(G, n, e) /\ FinalState \notin Core(G, n, e) /\ NewStart # FinalState
  BY SpecialStates DEF Grams, Core, Inner
<1>4. CASE p \in Core(G, n, e)
  BY <1>3, <1>4, FindLongest DEF Own
<1>5. CASE p = NewStart
  <2>1. l \in DOMAIN m[p]
    <3> SUFFICES ASSUME l \notin DOMAIN m[p] PROVE FALSE
      OBVIOUS
    <3>1. Phi \notin DOMAIN m[p]
      BY <1>2, <1>5
    <3>2. Find(m, p, l, byPhi) = {}
      BY <1>1, <1>5, <3>1, FindStep
    <3> QED BY <3>2
  <2>2. l = s /\ r = m[NewStart][s]
    <3>1. Find(m, p, l, byPhi) = {m[p][l]}
      BY <1>1, <1>5, <2>1, FindStep
    <3> QED BY <1>2, <1>5, <2>1, <3>1
  <2>3. Own(G, n, e, p) = <<>> /\ Append(<<>>, l) = <<s>>
    BY <1>3, <1>5, <2>2 DEF Own, Root
  <2> QED BY <1>1, <1>3, <1>5, <2>2, <2>3
<1>6. CASE p = FinalState
  <2>1. l \notin DOMAIN m[p] /\ Phi \notin DOMAIN m[p]
    BY <1>2, <1>6
  <2>2. Find(m, p, l, byPhi) = {}
    BY <1>1, <1>6, <2>1, FindStep
  <2> QED BY <2>2
<1> QED BY <1>4, <1>5, <1>6

\* All arcs lead to what Find finds in m.
LedByFind(arcs, m, n, byPhi) ==
  \A q \in DOMAIN arcs : \A l \in DOMAIN arcs[q] :
    l \in 1 .. n /\ arcs[q][l] \in DOMAIN arcs /\ arcs[q][l][1] \in Find(m, q[1], l, byPhi)

\* Such a machine tracks the n-grams.
LEMMA FindingTracks ==
  ASSUME NEW n \in Nat, NEW G, NEW s \in 1 .. n, NEW e \in 1 .. n, s # e, Grams(G, n, e),
         NEW m, Scores(m, G, n, s, e), BoundedBy(m, s), NEW byPhi,
         NEW arcs, LedByFind(arcs, m, n, byPhi)
  PROVE  Tracks(G, n, e, arcs, {q \in DOMAIN arcs : q[1] \in Core(G, n, e) \cup {NewStart, FinalState}})
<1> DEFINE C == Core(G, n, e) \cup {NewStart, FinalState}
           S == {q \in DOMAIN arcs : q[1] \in C}
<1>1. ASSUME NEW q \in S, NEW l \in DOMAIN arcs[q]
      PROVE  /\ l \in 1 .. n /\ q[1] # FinalState /\ arcs[q][l] \in S
             /\ \/ arcs[q][l][1] = FinalState
                \/ /\ arcs[q][l][1] \in Core(G, n, e)
                   /\ IsLongest(arcs[q][l][1], InnerEnds(G, n, Append(Own(G, n, e, q[1]), l)))
  <2>1. l \in 1 .. n /\ arcs[q][l] \in DOMAIN arcs /\ arcs[q][l][1] \in Find(m, q[1], l, byPhi) /\ q[1] \in C
    BY <1>1 DEF LedByFind
  <2>2. /\ q[1] # FinalState
        /\ \/ arcs[q][l][1] = FinalState
           \/ /\ arcs[q][l][1] \in Core(G, n, e)
              /\ IsLongest(arcs[q][l][1], InnerEnds(G, n, Append(Own(G, n, e, q[1]), l)))
    BY <2>1, FindTracks
  <2> QED BY <2>1, <2>2
<1>2. \A q \in S : q[1] \in C
  OBVIOUS
<1> HIDE DEF S
<1>3. Tracks(G, n, e, arcs, S)
  BY <1>1, <1>2 DEF Tracks
<1> QED BY <1>3 DEF S

\* Each state of it has an n-gram of its own that all paths to it end with.
LEMMA TracksOwned ==
  ASSUME NEW n \in Nat, NEW G, NEW e, Grams(G, n, e), NEW arcs, NEW S \in SUBSET DOMAIN arcs,
         Tracks(G, n, e, arcs, S), NEW start \in S, start[1] = NewStart
  PROVE  Owned(arcs, start, S, [q \in DOMAIN arcs |-> Own(G, n, e, q[1])])
<1> DEFINE own == [q \in DOMAIN arcs |-> Own(G, n, e, q[1])]
<1>1. NewStart \notin Core(G, n, e) /\ FinalState \notin Core(G, n, e)
  BY SpecialStates DEF Grams, Core, Inner
<1>2. own[start] = <<>>
  BY <1>1 DEF Own, Root
<1>3. \A q \in S : own[q] = Own(G, n, e, q[1]) /\ own[q] \in Seq(1 .. n) /\ own[q] \in Seq(Int)
  <2> SUFFICES ASSUME NEW q \in S
               PROVE  own[q] = Own(G, n, e, q[1]) /\ own[q] \in Seq(1 .. n) /\ own[q] \in Seq(Int)
    OBVIOUS
  <2>1. own[q] = Own(G, n, e, q[1])
    OBVIOUS
  <2>2. own[q] \in Seq(1 .. n)
    BY <2>1, CoreIs, EmptyFacts DEF Own, Root
  <2> HIDE DEF own
  <2> QED BY <2>1, <2>2
<1>4. ASSUME NEW q \in S, NEW l \in DOMAIN arcs[q]
      PROVE  arcs[q][l] \in S /\ Ends(own[arcs[q][l]], Append(own[q], l))
  <2>1. l \in 1 .. n /\ arcs[q][l] \in S
    BY <1>4 DEF Tracks
  <2>2. Append(own[q], l) \in Seq(1 .. n)
    BY <1>3, <2>1, AppendFacts
  <2>3. own[arcs[q][l]] = Own(G, n, e, arcs[q][l][1])
    BY <1>3, <2>1
  <2>4. CASE arcs[q][l][1] = FinalState
    <3>1. own[arcs[q][l]] = <<>>
      BY <1>1, <2>3, <2>4 DEF Own, Root
    <3> QED BY <2>1, <2>2, <3>1, EndsItself
  <2>5. CASE arcs[q][l][1] # FinalState
    <3>1. /\ arcs[q][l][1] \in Core(G, n, e)
          /\ IsLongest(arcs[q][l][1], InnerEnds(G, n, Append(Own(G, n, e, q[1]), l)))
      BY <1>4, <2>5 DEF Tracks
    <3>2. Ends(own[arcs[q][l]], Append(own[q], l))
      BY <1>3, <2>3, <3>1 DEF IsLongest, InnerEnds, Own
    <3> QED BY <2>1, <3>2
  <2> QED BY <2>4, <2>5
<1> HIDE DEF own
<1>5. Owned(arcs, start, S, own)
  BY <1>2, <1>3, <1>4 DEF Owned
<1> QED BY <1>5 DEF own

\* The history of a state ends with its n-gram, and an arc extends it or shortens it at the front.
KeepsGrams(m, G, n, e, R) ==
  /\ m.start \in R /\ m.start[1] = NewStart /\ m.history[m.start] = <<>> /\ Tracks(G, n, e, m.arcs, R)
  /\ \A q \in R : /\ m.history[q] \in Seq(Int) /\ Ends(Own(G, n, e, q[1]), m.history[q])
                  /\ \A l \in DOMAIN m.arcs[q] :
                       Ends(m.history[m.arcs[q][l]], Append(m.history[q], l))
RemembersGrams(m, G, n, e) ==
  /\ n \in Nat /\ Grams(G, n, e) /\ Root \in Core(G, n, e)
  /\ \E R \in SUBSET DOMAIN m.arcs : KeepsGrams(m, G, n, e, R)

\* A machine that tracks the n-grams does.
LEMMA HistoriesRememberGrams ==
  ASSUME NEW n \in Nat, NEW G, NEW e, Grams(G, n, e), Root \in Core(G, n, e),
         NEW arcs, IsFiniteSet(DOMAIN arcs), Whole(arcs), Labelled(arcs),
         NEW S \in SUBSET DOMAIN arcs, Tracks(G, n, e, arcs, S), NEW start \in S, start[1] = NewStart,
         NEW m, m.start = start, m.arcs = arcs, m.history = Histories(arcs, start)
  PROVE  RemembersGrams(m, G, n, e)
<1> DEFINE own == [q \in DOMAIN arcs |-> Own(G, n, e, q[1])]
<1>1. Owned(arcs, start, S, own)
  BY TracksOwned
<1>2. \A q \in S : own[q] = Own(G, n, e, q[1])
  OBVIOUS
<1> HIDE DEF own
<1>3. Follows(arcs, start, S, own, m.history)
  BY <1>1, HistoriesFollow
<1>4. PICK R \in SUBSET S :
        /\ start \in R /\ m.history[start] = <<>>
        /\ \A q \in R : /\ m.history[q] \in Seq(Int) /\ own[q] \in Seq(Int) /\ Ends(own[q], m.history[q])
                        /\ \A l \in DOMAIN arcs[q] :
                             /\ l \in Int /\ arcs[q][l] \in R
                             /\ Ends(m.history[arcs[q][l]], Append(m.history[q], l))
  BY <1>3 DEF Follows
<1>5. Tracks(G, n, e, arcs, R)
  BY <1>4 DEF Tracks
<1>6. \A q \in R : Ends(Own(G, n, e, q[1]), m.history[q])
  BY <1>2, <1>4
<1>7. KeepsGrams(m, G, n, e, R)
  BY <1>4, <1>5, <1>6 DEF KeepsGrams
<1> QED BY <1>4, <1>7 DEF RemembersGrams

-----------------------------------------------------------------------------
(* Each finished model remembers its n-grams.                              *)

\* What the composition of the current model keeps of the product.
LEMMA ComposedArcs ==
  ASSUME NEW k, Composes(k)
  PROVE  /\ IsFiniteSet(DOMAIN Composition(k)) /\ Whole(Composition(k))
         /\ \A q \in DOMAIN Composition(k) : \A l \in DOMAIN Composition(k)[q] :
              l \in LabelsOf(k) /\ Composition(k)[q][l][1] \in Find(next, q[1], l, ByPhi(k))
<1> DEFINE d == Product(k)
           c == Composition(k)
           finals == {q \in PairStates(k) : q[1] = FinalState}
<1>1. /\ DOMAIN d = PairStates(k) /\ Beginning \in PairStates(k) /\ IsFiniteSet(DOMAIN d) /\ Whole(d)
      /\ \A q \in PairStates(k) : DOMAIN d[q] = Possible(k, q) /\ \A v \in Possible(k, q) : d[q][v] \in StepTo(k, q, v)
  BY ProductIs
<1>2. next # <<>>
  <2> SUFFICES ASSUME next = <<>> PROVE FALSE
    OBVIOUS
  <2>1. DOMAIN next = {}
    BY EmptyFacts
  <2> QED BY <2>1 DEF Composes
<1>3. c = IF IsMain(k) THEN d ELSE Connected(d, Beginning, finals)
  BY <1>2, CompositionIs
<1>4. \A q \in DOMAIN d : \A l \in DOMAIN d[q] : l \in LabelsOf(k) /\ d[q][l][1] \in Find(next, q[1], l, ByPhi(k))
  <2> SUFFICES ASSUME NEW q \in DOMAIN d, NEW l \in DOMAIN d[q]
               PROVE  l \in LabelsOf(k) /\ d[q][l][1] \in Find(next, q[1], l, ByPhi(k))
    OBVIOUS
  <2> HIDE DEF d
  <2>1. l \in Possible(k, q) /\ d[q][l] \in StepTo(k, q, l)
    BY <1>1
  <2>2. l \in LabelsOf(k)
    BY <2>1 DEF Possible
  <2>3. PICK p \in Find(next, q[1], l, ByPhi(k)) : d[q][l] = <<p, WfAfter(k, q[2], l)>>
    BY <2>1 DEF StepTo
  <2> QED BY <2>2, <2>3
<1>5. finals \in SUBSET DOMAIN d
  BY <1>1
<1> HIDE DEF d, c, finals
<1>6. CASE IsMain(k)
  BY <1>1, <1>3, <1>4, <1>6 DEF c
<1>7. CASE ~ IsMain(k)
  <2>1. PICK F, B : Trims(d, Beginning, finals, F, B)
    BY <1>1, <1>5, ConnectedIs
  <2>2. F \cap B \in SUBSET DOMAIN d /\ c = Within(d, F \cap B)
    BY <1>3, <1>7, <2>1 DEF Trims
  <2>3. DOMAIN c = F \cap B /\ IsFiniteSet(DOMAIN c)
    BY <1>1, <2>2, FS_Subset DEF Within
  <2>4. \A q \in DOMAIN c : /\ DOMAIN c[q] = {l \in DOMAIN d[q] : d[q][l] \in F \cap B}
                            /\ \A l \in DOMAIN c[q] : c[q][l] = d[q][l]
    BY <2>2 DEF Within
  <2>5. Whole(c)
    BY <2>3, <2>4 DEF Whole
  <2>6. \A q \in DOMAIN c : \A l \in DOMAIN c[q] : l \in LabelsOf(k) /\ c[q][l][1] \in Find(next, q[1], l, ByPhi(k))
    <3> SUFFICES ASSUME NEW q \in DOMAIN c, NEW l \in DOMAIN c[q]
                 PROVE  l \in LabelsOf(k) /\ c[q][l][1] \in Find(next, q[1], l, ByPhi(k))
      OBVIOUS
    <3>1. q \in DOMAIN d /\ l \in DOMAIN d[q] /\ c[q][l] = d[q][l]
      BY <2>2, <2>3, <2>4
    <3> QED BY <1>4, <3>1
  <2> QED BY <2>3, <2>5, <2>6 DEF c
<1> QED BY <1>6, <1>7

\* The string with no letters is scored.
LEMMA HooksScored ==
  ASSUME IsTable(table), opts.limit \in Int, opts.conjs \in Nat, opts.segs \in Nat,
         StartLabel \in essential, EndLabel \in essential
  PROVE  Scored(<<StartLabel, EndLabel>>)
<1> DEFINE w == <<StartLabel, EndLabel>>
           y == Spell(w)
<1>1. /\ StartLabel \in 1 .. Len(table) /\ EndLabel \in 1 .. Len(table) /\ StartLabel # EndLabel
      /\ table[StartLabel] = StartSym /\ table[EndLabel] = EndSym /\ table \in Seq(AnySymbol)
  BY EndLabelIs DEF IsTable
<1>2. StartSym # EndSym
  BY DEF StartSym, EndSym, Symbol
<1>3. /\ w \in Seq(1 .. Len(table)) /\ Len(w) = 2 /\ w[1] = StartLabel /\ w[2] = EndLabel /\ DOMAIN w = 1 .. 2
  BY <1>1
<1> HIDE DEF w
<1>4. \A i \in 1 .. 2 : (i = 1 \/ i = 2)
  OBVIOUS
<1>5. Bounded(w)
  <2>1. \A i \in 1 .. 2 : (table[w[i]] = StartSym <=> i = 1) /\ (table[w[i]] = EndSym <=> i = 2)
    BY <1>1, <1>2, <1>3, <1>4
  <2> QED BY <1>3, <2>1 DEF Bounded
<1>6. y = <<StartSym, EndSym>>
  <2>1. y = [i \in 1 .. 2 |-> table[w[i]]]
    BY <1>3 DEF Spell
  <2>2. \A i \in 1 .. 2 : table[w[i]] = <<StartSym, EndSym>>[i]
    BY <1>1, <1>3, <1>4
  <2>3. <<StartSym, EndSym>> = [i \in 1 .. 2 |-> <<StartSym, EndSym>>[i]]
    OBVIOUS
  <2> HIDE DEF y
  <2> QED BY <2>1, <2>2, <2>3
<1> HIDE DEF y
<1>7. y \in Seq(AnySymbol) /\ Len(y) = 2 /\ y[1] = StartSym /\ y[2] = EndSym
  <2>1. StartSym \in AnySymbol /\ EndSym \in AnySymbol
    <3>1. table[StartLabel] \in AnySymbol /\ table[EndLabel] \in AnySymbol
      BY <1>1
    <3> QED BY <1>1, <3>1
  <2> QED BY <1>6, <2>1
<1>8. SubSeq(y, 2, Len(y) - 1) = <<>>
  <2>1. Len(y) - 1 = 1
    BY <1>7
  <2>2. SubSeq(y, 2, 1) = <<>>
    BY <1>7
  <2> QED BY <2>1, <2>2
<1>9. IsWellFormed(WfLimit, opts.conjs, opts.segs, y)
  <2>1. DOMAIN <<>> = {}
    BY EmptyFacts
  <2>2. /\ InsertionsLimited(WfLimit, <<>>) /\ OneClass(opts.conjs, <<>>) /\ Regions(opts.conjs, opts.segs, <<>>)
    BY <2>1 DEF InsertionsLimited, OneClass, Regions, RegionsRise, RegionsMixed
  <2>3. /\ Len(y) >= 2 /\ y[1] = StartSym /\ y[Len(y)] = EndSym
    BY <1>7
  <2> DEFINE x == SubSeq(y, 2, Len(y) - 1)
  <2>4. x = <<>>
    BY <1>8
  <2> HIDE DEF x
  <2>5. /\ \A i \in DOMAIN x : ~ IsSpecial(x[i])
        /\ InsertionsLimited(WfLimit, x) /\ OneClass(opts.conjs, x) /\ Regions(opts.conjs, opts.segs, x)
    BY <2>1, <2>2, <2>4
  <2> QED BY <2>3, <2>5 DEF IsWellFormed, Regions, x
<1>10. Spelled(opts.conjs, opts.segs, y)
  BY <1>7 DEF Spelled
<1>11. WfLimit \in Int
  BY DEF WfLimit
<1>12. WfAccepts(WfLimit, opts.conjs, opts.segs, y)
  BY <1>7, <1>9, <1>10, <1>11, WellFormedLanguage
<1>13. \A i \in 1 .. Len(w) : w[i] \in essential
  BY <1>3, <1>4
<1>14. Scored(w)
  BY <1>3, <1>5, <1>12, <1>13 DEF Scored, y
<1> QED BY <1>14 DEF w

\* The model that NgramFsaInsertFeatures adds.
LEMMA ComposedRemembers ==
  ASSUME CountInv, GramsInv, SymbolsInv, ModelsInv, FeaturesInv, stage = "features", Scoring,
         NEW m, m.start = <<StartOf(next), {WfStart}>>, m.arcs = Composition(Current),
         m.history = IF m.arcs = <<>> THEN <<>> ELSE Histories(m.arcs, m.start)
  PROVE  RemembersGrams(m, Ngrams, Size, EndOfModel)
<1> DEFINE G == Ngrams
           n == Size
           s == StartOfModel
           e == EndOfModel
           k == Current
<1>1. Modelling
  BY DEF Modelling
<1>2. /\ IsTable(table) /\ opts \in Topologies /\ Grams(G, n, e) /\ n \in Nat
      /\ opts.limit \in Int /\ opts.conjs \in Nat /\ opts.segs \in Nat
  BY <1>1, ModelIs, CurrentIs, TopologiesAssumption
<1>3. /\ DOMAIN Labelling(k) = 1 .. Len(table) /\ Len(SymsOf(k)) \in Nat
      /\ \A l \in 1 .. Len(table) : Labelling(k)[l] \in 1 .. Len(SymsOf(k))
      /\ LabelsOf(k) = 1 .. Len(SymsOf(k))
  BY <1>2, LabellingIs, SymsIs DEF LabelsOf
<1>4. Len(table) \in Nat /\ DOMAIN table = 1 .. Len(table) /\ table \in Seq(AnySymbol)
  BY <1>2 DEF IsTable
<1>5. \A l \in 1 .. Len(table) : Numbered(opts.segs, table[l])
  BY DEF SymbolsInv
<1>6. Scores(next, G, n, s, e) /\ BoundedBy(next, s) /\ Descends(next)
  BY DEF FeaturesInv
<1>7. Composes(k)
  BY <1>2, <1>3, <1>4, <1>5, <1>6 DEF Composes, Scores
<1>8. StartLabel \in 1 .. Len(table) /\ EndLabel \in 1 .. Len(table) /\ StartLabel # EndLabel
  BY <1>2, EndLabelIs
<1>9. s \in 1 .. n /\ e \in 1 .. n /\ s # e
  <2>1. s \in 1 .. n /\ e \in 1 .. n
    BY <1>3, <1>8 DEF StartOfModel, EndOfModel, Size
  <2>2. s # e
    <3>1. IsMain(k) \/ IsBackoff(opts.backoff[k])
      BY <1>1, CurrentIs
    <3> QED BY <1>2, <1>8, <3>1, HookLabels DEF StartOfModel, EndOfModel
  <2> QED BY <2>1, <2>2
<1>10. Root \in Core(G, n, e)
  <2>1. s \in DOMAIN next[NewStart]
    BY <1>6 DEF Scores
  <2>2. <<s>> \in G
    <3>1. opts.order \in Nat /\ opts.order > 0 /\ Grams(DOMAIN trie, Len(table), EndLabel)
      BY <1>1, CurrentIs DEF GramsInv
    <3>2. <<StartLabel>> \in DOMAIN trie
      BY DEF SymbolsInv, ScoringSays, TrieSays
    <3> QED BY <1>2, <1>8, <3>1, <3>2, KnownLabels DEF StartOfModel, Ngrams
  <2>3. Append(Root, s) = <<s>> /\ Root \in G
    BY <1>2 DEF Root, Grams
  <2>4. ~ Leaf(G, n, Root)
    BY <1>9, <2>2, <2>3 DEF Leaf
  <2>5. \A i \in 1 .. Len(Root) : Root[i] # e
    BY EmptyFacts DEF Root
  <2> QED BY <2>3, <2>4, <2>5 DEF Core, Inner
<1>11. /\ IsFiniteSet(DOMAIN m.arcs) /\ Whole(m.arcs)
       /\ \A q \in DOMAIN m.arcs : \A l \in DOMAIN m.arcs[q] :
            l \in 1 .. n /\ m.arcs[q][l][1] \in Find(next, q[1], l, ByPhi(k))
  BY <1>3, <1>7, ComposedArcs DEF Size
<1>12. m.start \in DOMAIN m.arcs /\ m.start[1] = NewStart
  <2>1. Scored(<<StartLabel, EndLabel>>)
    BY <1>2, HooksScored DEF SymbolsInv, ScoringSays
  <2>2. CanRead(m, InLabels(Labelling(k), <<StartLabel, EndLabel>>))
    BY <2>1, ScoredRead
  <2>3. m.start \in DOMAIN m.arcs
    BY <2>2 DEF CanRead, Steps
  <2>4. m.start = Beginning /\ Beginning = <<NewStart, {WfStart}>>
    BY <1>7, ProductIs DEF Beginning
  <2> QED BY <2>3, <2>4
<1>13. m.history = Histories(m.arcs, m.start)
  <2>1. m.arcs # <<>>
    <3> SUFFICES ASSUME m.arcs = <<>> PROVE FALSE
      OBVIOUS
    <3>1. DOMAIN m.arcs = {}
      BY EmptyFacts
    <3> QED BY <1>12, <3>1
  <2> QED BY <2>1
<1> HIDE DEF G, n, s, e, k
<1> DEFINE S == {q \in DOMAIN m.arcs : q[1] \in Core(G, n, e) \cup {NewStart, FinalState}}
<1>14. Tracks(G, n, e, m.arcs, S)
  <2>1. LedByFind(m.arcs, next, n, ByPhi(k))
    BY <1>11 DEF Whole, LedByFind
  <2> QED BY <1>2, <1>6, <1>9, <2>1, FindingTracks
<1>15. m.start \in S /\ S \in SUBSET DOMAIN m.arcs
  BY <1>12
<1>16. Labelled(m.arcs)
  BY <1>11 DEF Labelled
<1> HIDE DEF S
<1>17. RemembersGrams(m, G, n, e)
  BY <1>2, <1>10, <1>11, <1>12, <1>13, <1>14, <1>15, <1>16, HistoriesRememberGrams
<1> QED BY <1>17 DEF G, n, e

\* Every finished model remembers what its n-grams tell apart.
LastLabel(k) == Labelling(k)[EndLabel]
ModelRemembers(k) == RemembersGrams(models[k], NgramsOfModel(k), Len(SymsOf(k)), LastLabel(k))
HistoryInv == Scoring => \A k \in DOMAIN models : ModelRemembers(k)

\* The n-grams and labels of all models stay the same.
LEMMA ModelsAlike ==
  ASSUME opts' = opts, table' = table, trie' = trie
  PROVE  \A k : /\ NgramsOfModel(k)' = NgramsOfModel(k) /\ SymsOf(k)' = SymsOf(k)
                /\ Labelling(k)' = Labelling(k) /\ LastLabel(k)' = LastLabel(k)
<1>1. \A m : SymsOf(m)' = SymsOf(m)
  BY SMT DEF SymsOf, SymOf, IsMain, BackoffSym, FoldLeft, MapThenFoldSet
<1>2. \A m, s : SymOf(m, s)' = SymOf(m, s)
  BY DEF SymOf, IsMain, BackoffSym
<1>3. \A m : Labelling(m)' = Labelling(m)
  BY <1>1, <1>2 DEF Labelling
<1>4. EndLabel' = EndLabel
  BY DEF EndLabel
<1>5. \A m : NgramsOfModel(m)' = NgramsOfModel(m)
  <2> SUFFICES ASSUME NEW m PROVE NgramsOfModel(m)' = NgramsOfModel(m)
    OBVIOUS
  <2> DEFINE Strings1(label) == {[i \in DOMAIN p |-> label[p[i]]] : p \in DOMAIN trie}
  <2>1. Strings1(Labelling(m))' = Strings1(Labelling(m))
    BY <1>3
  <2>2. IsMain(m)' = IsMain(m)
    BY DEF IsMain
  <2>3. /\ NgramsOfModel(m) = IF IsMain(m) THEN DOMAIN trie
                               ELSE {Root} \cup NgramsOf(Strings1(Labelling(m)), opts.order)
        /\ NgramsOfModel(m)' = IF IsMain(m)' THEN DOMAIN trie'
                               ELSE {Root} \cup NgramsOf(Strings1(Labelling(m))', opts'.order)
    BY DEF NgramsOfModel
  <2> HIDE DEF Strings1
  <2> QED BY <2>1, <2>2, <2>3
<1>6. \A m : LastLabel(m)' = LastLabel(m)
  BY <1>3, <1>4 DEF LastLabel
<1> QED BY <1>1, <1>3, <1>5, <1>6

\* The model that NgramFsaInsertFeatures adds remembers too.
LEMMA FeaturesHistoryInv ==
  CountInv /\ GramsInv /\ SymbolsInv /\ ModelsInv /\ FeaturesInv /\ HistoryInv /\ NgramFsaInsertFeatures
    => HistoryInv'
<1> SUFFICES ASSUME CountInv, GramsInv, SymbolsInv, ModelsInv, FeaturesInv, HistoryInv,
                    NgramFsaInsertFeatures, Scoring'
             PROVE  \A k \in DOMAIN models' : ModelRemembers(k)'
  BY DEF HistoryInv
<1> DEFINE arcs == Tabulated(Composition(Current))
           start == <<StartOf(next), {WfStart}>>
           history == IF arcs = <<>> THEN <<>> ELSE Tabulated(Histories(arcs, start))
           m == [start |-> start, arcs |-> arcs, history |-> history]
<1>1. /\ stage = "features" /\ opts' = opts /\ table' = table /\ trie' = trie
      /\ models' = Append(models, m)
  BY DEF NgramFsaInsertFeatures
<1>2. Scoring
  BY <1>1 DEF Scoring
<1>3. m.start = start /\ m.arcs = Composition(Current)
      /\ m.history = IF m.arcs = <<>> THEN <<>> ELSE Histories(m.arcs, m.start)
  BY TabulatedIs
<1> HIDE DEF m
<1>4. RemembersGrams(m, Ngrams, Size, EndOfModel)
  BY <1>1, <1>2, <1>3, ComposedRemembers
<1>5. /\ Current = Len(models) + 1 /\ DOMAIN models' = 1 .. Current /\ DOMAIN models = 1 .. Len(models)
      /\ Len(models) \in Nat /\ \A i \in 1 .. Len(models) : models'[i] = models[i]
      /\ models'[Current] = m
  <2>1. IsSequence(models)
    BY <1>2 DEF ModelsInv
  <2> QED BY <1>1, <2>1, AppendIs DEF Current, IsSequence
<1>6. \A k : RemembersGrams(models'[k], NgramsOfModel(k), Len(SymsOf(k)), LastLabel(k)) => ModelRemembers(k)'
  <2>1. \A k : /\ NgramsOfModel(k)' = NgramsOfModel(k) /\ SymsOf(k)' = SymsOf(k)
               /\ LastLabel(k)' = LastLabel(k)
    BY <1>1, ModelsAlike
  <2> QED BY <2>1 DEF ModelRemembers
<1>7. ASSUME NEW k \in DOMAIN models' PROVE ModelRemembers(k)'
  <2>1. CASE k = Current
    <3>1. Ngrams = NgramsOfModel(k) /\ Size = Len(SymsOf(k)) /\ EndOfModel = LastLabel(k)
      BY <2>1 DEF Ngrams, Size, EndOfModel, LastLabel
    <3>2. RemembersGrams(models'[k], NgramsOfModel(k), Len(SymsOf(k)), LastLabel(k))
      BY <1>4, <1>5, <2>1, <3>1
    <3> QED BY <1>6, <3>2
  <2>2. CASE k # Current
    <3>1. k \in DOMAIN models /\ models'[k] = models[k]
      BY <1>5, <1>7, <2>2
    <3>2. RemembersGrams(models'[k], NgramsOfModel(k), Len(SymsOf(k)), LastLabel(k))
      BY <1>2, <3>1 DEF HistoryInv, ModelRemembers
    <3> QED BY <1>6, <3>2
  <2> QED BY <2>1, <2>2
<1> QED BY <1>7

\* Steps that leave the models and what they are made of alone.
HistoryKept ==
  Scoring' => Scoring /\ models' = models /\ opts' = opts /\ table' = table /\ trie' = trie

\* Steps that keep these keep the invariant.
LEMMA HistoryKeptInv == HistoryInv /\ HistoryKept => HistoryInv'
<1> SUFFICES ASSUME HistoryInv, HistoryKept, Scoring' PROVE \A k \in DOMAIN models' : ModelRemembers(k)'
  BY DEF HistoryInv
<1>1. Scoring /\ models' = models /\ opts' = opts /\ table' = table /\ trie' = trie
  BY DEF HistoryKept
<1>2. \A k \in DOMAIN models : ModelRemembers(k)
  BY <1>1 DEF HistoryInv
<1>3. \A k : /\ NgramsOfModel(k)' = NgramsOfModel(k) /\ SymsOf(k)' = SymsOf(k)
             /\ LastLabel(k)' = LastLabel(k)
  BY <1>1, ModelsAlike
<1> QED BY <1>1, <1>2, <1>3 DEF ModelRemembers

\* The invariant is inductive.
LEMMA AllNextHistoryInv ==
  CountInv /\ GramsInv /\ SymbolsInv /\ ModelsInv /\ FeaturesInv /\ HistoryInv /\ [AllNext]_allVars
    => HistoryInv'
<1> SUFFICES ASSUME CountInv, GramsInv, SymbolsInv, ModelsInv, FeaturesInv, HistoryInv, [AllNext]_allVars
             PROVE  HistoryInv'
  OBVIOUS
<1>1. CASE NgramFsaInsertFeatures
  BY <1>1, FeaturesHistoryInv
<1>2. CASE (Select \/ CreateNgramTrie) /\ UNCHANGED modelVars
  <2>1. stage \in {"count", "all"} /\ models' = models
    BY <1>2 DEF Select, CreateNgramTrie, modelVars
  <2>2. DOMAIN models' = {}
    BY <2>1, EmptyFacts DEF ModelsInv
  <2> QED BY <2>2 DEF HistoryInv
<1>3. CASE (DoubleFree \/ AddCounts \/ ProcessSubset \/ MakeSymbols) /\ UNCHANGED modelVars
  <2>1. ~ Scoring'
    BY <1>3 DEF DoubleFree, AddCounts, ProcessSubset, MakeSymbols, Scoring
  <2> QED BY <2>1 DEF HistoryInv
<1>4. CASE StartAddBackoff \/ AddBackoffArc \/ AddPhiArc \/ Convert \/ CreateScoringFst
  <2>1. HistoryKept
    BY <1>4 DEF StartAddBackoff, AddBackoffArc, AddPhiArc, Convert, CreateScoringFst, HistoryKept, Scoring
  <2> QED BY <2>1, HistoryKeptInv
<1>5. CASE NoepshistNext \/ HandOver
  <2>1. ~ Scoring'
    BY <1>5 DEF NoepshistNext, StartScoring, AddArcs, ComposeScoringFst, HandOver, Scoring, SymbolsInv
  <2> QED BY <2>1 DEF HistoryInv
<1>6. CASE UNCHANGED topologyVars
  <2>1. HistoryKept
    BY <1>6 DEF topologyVars, createVars, countVars, modelVars, HistoryKept, Scoring
  <2> QED BY <2>1, HistoryKeptInv
<1> QED BY <1>1, <1>2, <1>3, <1>4, <1>5, <1>6
        DEF AllNext, allVars, Create, SessionStep, TopologyNext, CreateNext, CountNext

\* At first.
LEMMA InitHistoryInv == AllInit => HistoryInv
<1> SUFFICES ASSUME AllInit PROVE HistoryInv
  OBVIOUS
<1>1. ~ Scoring
  BY DEF AllInit, IdleCreation, CreatingInit, TopologyInit, CreateInit, CountInit, Scoring
<1> QED BY <1>1 DEF HistoryInv

-----------------------------------------------------------------------------
(* Walks through a model.                                                  *)

\* The walks through a model, by their lengths: where one is and what one has read.
GoOn(m, z) == {<<m.arcs[z[1]][v], Append(z[2], v)>> : v \in DOMAIN m.arcs[z[1]]}
WalksOf(m, f) ==
  f = [j \in Nat |-> IF j = 0 THEN {<<m.start, <<>>>>} ELSE UNION {GoOn(m, z) : z \in f[j - 1]}]

\* What was read ends with the history, and with no longer n-gram than that of the state.
Walked(m, G, n, e, R) ==
  {z \in R \X Seq(1 .. n) :
     /\ Ends(m.history[z[1]], z[2])
     /\ z[1][1] = FinalState \/ IsLongest(Own(G, n, e, z[1][1]), InnerEnds(G, n, z[2]))}

\* So it is at first, and if it is so then also with a label more.
LEMMA WalkedKept ==
  ASSUME NEW n \in Nat, NEW G, NEW e, Grams(G, n, e), Root \in Core(G, n, e),
         NEW m, NEW R \in SUBSET DOMAIN m.arcs, KeepsGrams(m, G, n, e, R)
  PROVE  /\ {<<m.start, <<>>>>} \subseteq Walked(m, G, n, e, R)
         /\ \A z \in Walked(m, G, n, e, R) : GoOn(m, z) \subseteq Walked(m, G, n, e, R)
<1>1. NewStart \notin Core(G, n, e) /\ FinalState \notin Core(G, n, e)
  BY SpecialStates DEF Grams, Core, Inner
<1>2. <<m.start, <<>>>> \in Walked(m, G, n, e, R)
  <2>1. m.start \in R /\ m.start[1] = NewStart /\ m.history[m.start] = <<>>
    BY DEF KeepsGrams
  <2>2. <<>> \in Seq(1 .. n) /\ Ends(<<>>, <<>>)
    BY EndsItself, EmptyFacts
  <2>3. Own(G, n, e, m.start[1]) = Root /\ IsLongest(Root, InnerEnds(G, n, Root))
    BY <1>1, <2>1, CoreIs DEF Own
  <2> QED BY <2>1, <2>2, <2>3 DEF Walked, Root
<1>3. ASSUME NEW z \in Walked(m, G, n, e, R), NEW l \in DOMAIN m.arcs[z[1]]
      PROVE  <<m.arcs[z[1]][l], Append(z[2], l)>> \in Walked(m, G, n, e, R)
  <2> DEFINE q == z[1]
             w == z[2]
             t == m.arcs[q][l]
             own == Own(G, n, e, q[1])
  <2>1. /\ q \in R /\ w \in Seq(1 .. n) /\ Ends(m.history[q], w)
        /\ q[1] = FinalState \/ IsLongest(own, InnerEnds(G, n, w))
    BY DEF Walked
  <2>2. /\ l \in 1 .. n /\ q[1] # FinalState /\ t \in R
        /\ \/ t[1] = FinalState
           \/ t[1] \in Core(G, n, e) /\ IsLongest(t[1], InnerEnds(G, n, Append(own, l)))
    BY <1>3, <2>1 DEF KeepsGrams, Tracks
  <2>3. /\ m.history[q] \in Seq(Int) /\ m.history[t] \in Seq(Int)
        /\ Ends(m.history[t], Append(m.history[q], l))
    BY <1>3, <2>1, <2>2 DEF KeepsGrams
  <2> HIDE DEF q, w, t, own
  <2>4. /\ Append(w, l) \in Seq(1 .. n) /\ w \in Seq(Int) /\ Append(w, l) \in Seq(Int) /\ l \in Int
        /\ Append(m.history[q], l) \in Seq(Int)
    <3>1. 1 .. n \subseteq Int
      OBVIOUS
    <3>2. Append(w, l) \in Seq(1 .. n) /\ l \in Int
      BY <2>1, <2>2, AppendFacts
    <3>3. w \in Seq(Int) /\ Append(w, l) \in Seq(Int)
      BY <2>1, <3>1, <3>2, SeqOfMore
    <3> QED BY <2>3, <3>2, <3>3, AppendFacts
  <2>5. Ends(m.history[t], Append(w, l))
    <3>1. Ends(Append(m.history[q], l), Append(w, l))
      BY <2>1, <2>3, <2>4, EndsAppend
    <3> DEFINE a == Append(w, l)
               b == Append(m.history[q], l)
               c == m.history[t]
    <3>2. a \in Seq(Int) /\ b \in Seq(Int) /\ c \in Seq(Int) /\ Ends(b, a) /\ Ends(c, b)
      BY <2>3, <2>4, <3>1
    <3> HIDE DEF a, b, c
    <3>3. Ends(c, a)
      BY <3>2, EndsChain
    <3> QED BY <3>3 DEF a, c
  <2>6. t[1] = FinalState \/ IsLongest(Own(G, n, e, t[1]), InnerEnds(G, n, Append(w, l)))
    <3>1. CASE t[1] # FinalState
      <4>1. /\ t[1] \in Core(G, n, e) /\ IsLongest(t[1], InnerEnds(G, n, Append(own, l)))
            /\ IsLongest(own, InnerEnds(G, n, w))
        BY <2>1, <2>2, <3>1
      <4>2. IsLongest(t[1], InnerEnds(G, n, Append(w, l)))
        BY <2>1, <2>2, <4>1, LongestThen
      <4> QED BY <4>1, <4>2 DEF Own
    <3> QED BY <3>1
  <2>7. <<t, Append(w, l)>> \in Walked(m, G, n, e, R)
    BY <2>2, <2>4, <2>5, <2>6 DEF Walked
  <2> QED BY <2>7 DEF q, w, t
<1> QED BY <1>2, <1>3 DEF GoOn

\* There are such walks, and all of them are so.
LEMMA WalksExist ==
  ASSUME NEW n \in Nat, NEW G, NEW e, Grams(G, n, e), Root \in Core(G, n, e),
         NEW m, NEW R \in SUBSET DOMAIN m.arcs, KeepsGrams(m, G, n, e, R)
  PROVE  \E f : WalksOf(m, f)
<1> DEFINE T == Walked(m, G, n, e, R)
           A == {<<m.start, <<>>>>}
           step == [z \in T |-> GoOn(m, z)]
<1>1. A \in SUBSET T /\ step \in [T -> SUBSET T]
  BY WalkedKept
<1>2. \A z \in T : step[z] = GoOn(m, z)
  OBVIOUS
<1> HIDE DEF T, A, step
<1>3. PICK g \in [Nat -> SUBSET T] : EndsOfWays(step, A, g)
  BY <1>1, WaysExist
<1>4. ASSUME NEW j \in Nat PROVE g[j] = IF j = 0 THEN A ELSE UNION {GoOn(m, z) : z \in g[j - 1]}
  <2>1. g[j] = IF j = 0 THEN A ELSE UNION {step[z] : z \in g[j - 1]}
    BY <1>3 DEF EndsOfWays
  <2>2. CASE j = 0
    BY <2>1, <2>2
  <2>3. CASE j # 0
    <3>1. j - 1 \in Nat
      BY <2>3
    <3>2. g[j - 1] \subseteq T
      BY <1>3, <3>1
    <3>3. {step[z] : z \in g[j - 1]} = {GoOn(m, z) : z \in g[j - 1]}
      BY <1>2, <3>2
    <3> QED BY <2>1, <2>3, <3>3
  <2> QED BY <2>2, <2>3
<1>5. g = [j \in Nat |-> g[j]]
  BY <1>3
<1>6. g = [j \in Nat |-> IF j = 0 THEN A ELSE UNION {GoOn(m, z) : z \in g[j - 1]}]
  BY <1>4, <1>5
<1>7. WalksOf(m, g)
  BY <1>6 DEF WalksOf, A
<1> QED BY <1>7

LEMMA WalksFit ==
  ASSUME NEW n \in Nat, NEW G, NEW e, Grams(G, n, e), Root \in Core(G, n, e),
         NEW m, NEW R \in SUBSET DOMAIN m.arcs, KeepsGrams(m, G, n, e, R), NEW f, WalksOf(m, f)
  PROVE  \A j \in Nat : f[j] \subseteq Walked(m, G, n, e, R)
<1> DEFINE W == Walked(m, G, n, e, R)
<1>a. {<<m.start, <<>>>>} \subseteq W /\ \A z \in W : GoOn(m, z) \subseteq W
  BY WalkedKept
<1> HIDE DEF W
<1> SUFFICES ASSUME NEW i \in Nat, ~ (f[i] \subseteq W) PROVE FALSE
  BY DEF W
<1> DEFINE B == {j \in Nat : ~ (f[j] \subseteq W)}
<1>1. B \in SUBSET Nat /\ B # {}
  OBVIOUS
<1>2. PICK j \in B : \A k \in B : j <= k
  <2> HIDE DEF B
  <2> QED BY <1>1, LeastNatural
<1>3. \A k \in Nat : f[k] = IF k = 0 THEN {<<m.start, <<>>>>} ELSE UNION {GoOn(m, z) : z \in f[k - 1]}
  BY DEF WalksOf
<1>4. j \in Nat /\ ~ (f[j] \subseteq W)
  OBVIOUS
<1>5. j # 0
  BY <1>a, <1>3, <1>4
<1>6. j - 1 \in Nat /\ ~ (j <= j - 1)
  BY <1>4, <1>5
<1>7. f[j - 1] \subseteq W
  BY <1>2, <1>6
<1>8. f[j] = UNION {GoOn(m, z) : z \in f[j - 1]}
  BY <1>3, <1>4, <1>5
<1> QED BY <1>a, <1>4, <1>7, <1>8

-----------------------------------------------------------------------------
(* The names of the features of a window.                                  *)

\* What ends the end of a sequence ends the sequence.
LEMMA EndingsGrow ==
  ASSUME NEW S, NEW a \in Seq(S), NEW b \in Seq(S), Ends(a, b)
  PROVE  Endings(a) \subseteq Endings(b)
<1> DEFINE d == Len(b) - Len(a)
<1>1. /\ Len(a) \in Nat /\ Len(b) \in Nat /\ DOMAIN a = 1 .. Len(a) /\ DOMAIN b = 1 .. Len(b)
      /\ d \in Nat /\ Len(b) = Len(a) + d
      /\ \A i \in 1 .. Len(a) : a[i] = b[d + i]
  BY DEF Ends
<1> HIDE DEF d
<1>2. ASSUME NEW i \in 1 .. Len(a) PROVE SubSeq(a, i, Len(a)) = SubSeq(b, d + i, Len(b))
  <2>1. i \in Int /\ d + i \in Int /\ d + i >= 1 /\ Len(b) - (d + i) + 1 = Len(a) - i + 1
    BY <1>1
  <2>2. SubSeq(a, i, Len(a)) = [j \in 1 .. Len(a) - i + 1 |-> a[i + j - 1]]
    BY <1>1
  <2>3. SubSeq(b, d + i, Len(b)) = [j \in 1 .. Len(b) - (d + i) + 1 |-> b[d + i + j - 1]]
    BY <1>1, <2>1
  <2>4. \A j \in 1 .. Len(a) - i + 1 : a[i + j - 1] = b[d + i + j - 1]
    <3>1. \A j \in 1 .. Len(a) - i + 1 : i + j - 1 \in 1 .. Len(a) /\ d + (i + j - 1) = d + i + j - 1
      BY <1>1
    <3> QED BY <1>1, <3>1
  <2> QED BY <2>1, <2>2, <2>3, <2>4
<1>3. \A i \in 1 .. Len(a) : d + i \in 1 .. Len(b)
  BY <1>1
<1> QED BY <1>1, <1>2, <1>3 DEF Endings

\* A sequence of at most one value.
LEMMA AtMostOne ==
  ASSUME NEW T, NEW c \in T, NEW y, y = <<>> \/ y = <<c>>
  PROVE  y \in Seq(T) /\ Len(y) \in 0 .. 1
<1>1. CASE y = <<>>
  BY <1>1
<1>2. CASE y = <<c>>
  BY <1>2
<1> QED BY <1>1, <1>2

\* A label splits into one to three parts.
LEMMA SplitLength ==
  ASSUME NEW l
  PROVE  Len(Split(l)) \in 1 .. 3 /\ \E T : Split(l) \in Seq(T)
<1> DEFINE s == table[l]
           x == CHOOSE n \in DOMAIN table : Nola(table[n]) = Nola(s)
                         /\ \A m \in 1 .. n - 1 : Nola(table[m]) # Nola(s)
           c == -2 * s.c
           g == -2 * s.g - 1
           y == IF s.c = 0 THEN <<>> ELSE <<c>>
           z == IF s.g = Unannotated THEN <<>> ELSE <<g>>
           T == {x, c, g}
<1>1. Split(l) = <<x>> \o y \o z
  BY DEF Split
<1>2. x \in T /\ c \in T /\ g \in T /\ (y = <<>> \/ y = <<c>>) /\ (z = <<>> \/ z = <<g>>)
  OBVIOUS
<1> HIDE DEF x, c, g, y, z, T
<1>3. <<x>> \in Seq(T) /\ Len(<<x>>) = 1
  BY ONLY <1>2
<1>4. y \in Seq(T) /\ Len(y) \in 0 .. 1
  BY ONLY <1>2, AtMostOne
<1>5. z \in Seq(T) /\ Len(z) \in 0 .. 1
  BY ONLY <1>2, AtMostOne
<1>6. <<x>> \o y \in Seq(T) /\ Len(<<x>> \o y) = 1 + Len(y)
  BY ONLY <1>3, <1>4, ConcatFacts
<1> DEFINE xy == <<x>> \o y
<1>7. xy \in Seq(T) /\ Len(xy) = 1 + Len(y)
  BY ONLY <1>6 DEF xy
<1>8. Split(l) = xy \o z
  BY <1>1
<1> HIDE DEF xy
<1>9. xy \o z \in Seq(T) /\ Len(xy \o z) = Len(xy) + Len(z)
  BY ONLY <1>5, <1>7, ConcatFacts
<1>10. Len(xy) + Len(z) \in 1 .. 3
  <2> DEFINE a == Len(xy)
             b == Len(y)
             d == Len(z)
  <2>1. b \in 0 .. 1 /\ d \in 0 .. 1 /\ a = 1 + b
    BY ONLY <1>4, <1>5, <1>7
  <2> HIDE DEF a, b, d
  <2>2. a + d \in 1 .. 3
    BY ONLY <2>1
  <2> QED BY ONLY <2>2 DEF a, d
<1>11. Split(l) \in Seq(T) /\ Len(Split(l)) \in 1 .. 3
  BY ONLY <1>8, <1>9, <1>10
<1> QED BY <1>11

\* The part n, to whatever length the parts are filled.
LEMMA FilledIs ==
  ASSUME NEW T, NEW p \in Seq(T), NEW most \in Nat, Len(p) <= most, NEW n \in 1 .. most
  PROVE  Filled(p, most)[n] = IF n <= Len(p) THEN p[n] ELSE NoPart
<1> DEFINE U == T \cup {NoPart}
           q == [i \in 1 .. most - Len(p) |-> NoPart]
<1>1. Filled(p, most) = p \o q
  BY DEF Filled
<1>2. p \in Seq(U) /\ Len(p) \in Nat
  <2>1. T \subseteq U
    OBVIOUS
  <2> HIDE DEF U
  <2> QED BY <2>1, SeqOfMore
<1>3. q \in Seq(U) /\ Len(q) = most - Len(p) /\ \A i \in 1 .. Len(q) : q[i] = NoPart
  <2>1. most - Len(p) \in Nat
    BY <1>2
  <2> QED BY <2>1
<1> HIDE DEF q, U
<1>4. /\ \A i \in 1 .. Len(p) : (p \o q)[i] = p[i]
      /\ \A i \in 1 .. Len(q) : (p \o q)[Len(p) + i] = q[i]
  BY ONLY <1>2, <1>3, ConcatFacts
<1>5. CASE n <= Len(p)
  <2>1. n \in 1 .. Len(p)
    BY <1>2, <1>5
  <2> QED BY <1>1, <1>4, <1>5, <2>1
<1>6. CASE ~ (n <= Len(p))
  <2>1. n - Len(p) \in 1 .. Len(q) /\ Len(p) + (n - Len(p)) = n
    BY <1>2, <1>3, <1>6
  <2>2. (p \o q)[n] = q[n - Len(p)]
    BY <1>4, <2>1
  <2> QED BY <1>1, <1>3, <1>6, <2>1, <2>2
<1> QED BY <1>5, <1>6

\* The most parts of a label of the window, the labels with the parts S left, and what these spell.
MostParts(w) == Max({Len(Split(w[i])) : i \in DOMAIN w})
PartsOf(w, S) ==
  [i \in DOMAIN w |->
     LET chosen == Sorted(S) IN [n \in DOMAIN chosen |-> Filled(Split(w[i]), MostParts(w))[chosen[n]]]]

LEMMA LatentIs ==
  ASSUME NEW w, NEW anchored
  PROVE  LatentAnnotationFeatures(w, anchored) =
           UNION {Endings(PartsOf(w, S)) :
                    S \in {S \in SUBSET (1 .. MostParts(w)) : S # {} /\ (anchored => 1 \in S)}}
<1> DEFINE P == [i \in DOMAIN w |-> Filled(Split(w[i]), MostParts(w))]
           Q(S) == [i \in DOMAIN w |-> LET chosen == Sorted(S) IN [n \in DOMAIN chosen |-> P[i][chosen[n]]]]
           A == {S \in SUBSET (1 .. MostParts(w)) : S # {} /\ (anchored => 1 \in S)}
<1>1. LatentAnnotationFeatures(w, anchored) = UNION {Endings(Q(S)) : S \in A}
  BY Zenon DEF LatentAnnotationFeatures, MostParts
<1>2. ASSUME NEW S PROVE Q(S) = PartsOf(w, S)
  BY DEF PartsOf
<1> HIDE DEF Q, A
<1>3. {Endings(Q(S)) : S \in A} = {Endings(PartsOf(w, S)) : S \in A}
  BY <1>2
<1> QED BY <1>1, <1>3 DEF A

\* The longer window has as many parts.
LEMMA MostPartsGrow ==
  ASSUME NEW S, NEW a \in Seq(S), NEW b \in Seq(S), a # <<>>, Ends(a, b)
  PROVE  /\ MostParts(a) \in Nat /\ MostParts(b) \in Nat /\ MostParts(a) <= MostParts(b)
         /\ \A i \in DOMAIN a : Len(Split(a[i])) <= MostParts(a)
         /\ \A i \in DOMAIN b : Len(Split(b[i])) <= MostParts(b)
<1> DEFINE A == {Len(Split(a[i])) : i \in DOMAIN a}
           B == {Len(Split(b[i])) : i \in DOMAIN b}
<1>1. /\ Len(a) \in Nat /\ Len(b) \in Nat /\ DOMAIN a = 1 .. Len(a) /\ DOMAIN b = 1 .. Len(b) /\ Len(a) # 0
      /\ Len(a) <= Len(b) /\ \A i \in 1 .. Len(a) : a[i] = b[Len(b) - Len(a) + i]
  BY DEF Ends
<1>2. A \subseteq 1 .. 3 /\ B \subseteq 1 .. 3
  BY SplitLength
<1>3. A \subseteq B
  <2>1. \A i \in 1 .. Len(a) : Len(b) - Len(a) + i \in 1 .. Len(b)
    BY <1>1
  <2> QED BY <1>1, <2>1
<1>4. A # {}
  <2>1. 1 \in DOMAIN a
    BY <1>1
  <2> QED BY <2>1
<1>5. B # {}
  BY <1>3, <1>4
<1>6. (\A i \in DOMAIN a : Len(Split(a[i])) \in A) /\ \A i \in DOMAIN b : Len(Split(b[i])) \in B
  OBVIOUS
<1>7. MostParts(a) = Max(A) /\ MostParts(b) = Max(B)
  BY DEF MostParts
<1> HIDE DEF A, B
<1>8. Max(A) \in A /\ \A k \in A : k <= Max(A)
  BY <1>2, <1>4, MaxIn
<1>9. Max(B) \in B /\ \A k \in B : k <= Max(B)
  BY <1>2, <1>5, MaxIn
<1>10. Max(A) \in Nat /\ Max(B) \in Nat /\ Max(A) <= Max(B)
  <2>1. Max(A) \in B /\ Max(A) \in 1 .. 3 /\ Max(B) \in 1 .. 3
    BY <1>2, <1>3, <1>8, <1>9
  <2> QED BY <1>9, <2>1
<1> QED BY <1>6, <1>7, <1>8, <1>9, <1>10

\* What one feature pattern leaves of a window ends what it leaves of a longer one.
LEMMA PartsEnd ==
  ASSUME NEW T, NEW a \in Seq(T), NEW b \in Seq(T), a # <<>>, Ends(a, b),
         NEW S \in SUBSET (1 .. MostParts(a))
  PROVE  Endings(PartsOf(a, S)) \subseteq Endings(PartsOf(b, S))
<1> DEFINE p == PartsOf(a, S)
           q == PartsOf(b, S)
           U == {p[i] : i \in DOMAIN a} \cup {q[i] : i \in DOMAIN b}
           ma == MostParts(a)
           mb == MostParts(b)
           c == Sorted(S)
<1>1. /\ Len(a) \in Nat /\ Len(b) \in Nat /\ DOMAIN a = 1 .. Len(a) /\ DOMAIN b = 1 .. Len(b)
      /\ Len(a) <= Len(b) /\ \A i \in 1 .. Len(a) : a[i] = b[Len(b) - Len(a) + i]
  BY DEF Ends
<1>2. /\ ma \in Nat /\ mb \in Nat /\ ma <= mb
      /\ \A i \in DOMAIN a : Len(Split(a[i])) <= ma
      /\ \A i \in DOMAIN b : Len(Split(b[i])) <= mb
  BY MostPartsGrow
<1>3. DOMAIN p = DOMAIN a /\ DOMAIN q = DOMAIN b
      /\ (\A i \in DOMAIN a : p[i] = [n \in DOMAIN c |-> Filled(Split(a[i]), ma)[c[n]]])
      /\ (\A i \in DOMAIN b : q[i] = [n \in DOMAIN c |-> Filled(Split(b[i]), mb)[c[n]]])
  BY DEF PartsOf
<1>4. p = [i \in 1 .. Len(a) |-> p[i]] /\ q = [i \in 1 .. Len(b) |-> q[i]]
  BY <1>1 DEF PartsOf
<1>5. \A n \in DOMAIN c : c[n] \in 1 .. ma
  <2>1. S \in SUBSET Nat
    BY <1>2
  <2>2. IsFiniteSet(1 .. ma)
    BY <1>2, IntervalFinite
  <2>3. IsFiniteSet(S)
    BY <2>2, FS_Subset
  <2>4. c \in Seq(S)
    BY <2>1, <2>3, SortedIs
  <2> HIDE DEF c, ma
  <2>5. \A n \in DOMAIN c : c[n] \in S
    BY <2>4
  <2> QED BY <2>5 DEF ma
<1> HIDE DEF p, q, ma, mb, c
<1>6. ASSUME NEW i \in 1 .. Len(a) PROVE p[i] = q[Len(b) - Len(a) + i]
  <2> DEFINE j == Len(b) - Len(a) + i
             s == Split(a[i])
  <2>1. j \in 1 .. Len(b) /\ b[j] = a[i]
    BY <1>1
  <2>2. Len(s) <= ma /\ Len(s) \in Nat /\ Len(s) <= mb
    <3>1. Len(s) \in 1 .. 3
      BY SplitLength
    <3> QED BY <1>1, <1>2, <3>1
  <2>3. PICK V : s \in Seq(V)
    BY SplitLength
  <2>4. p[i] = [n \in DOMAIN c |-> Filled(s, ma)[c[n]]] /\ q[j] = [n \in DOMAIN c |-> Filled(s, mb)[c[n]]]
    BY <1>1, <1>3, <2>1
  <2> HIDE DEF s, j
  <2>5. ASSUME NEW n \in DOMAIN c PROVE Filled(s, ma)[c[n]] = Filled(s, mb)[c[n]]
    <3>1. c[n] \in 1 .. ma /\ c[n] \in 1 .. mb
      BY <1>2, <1>5
    <3>2. Filled(s, ma)[c[n]] = IF c[n] <= Len(s) THEN s[c[n]] ELSE NoPart
      BY <1>2, <2>2, <2>3, <3>1, FilledIs
    <3>3. Filled(s, mb)[c[n]] = IF c[n] <= Len(s) THEN s[c[n]] ELSE NoPart
      BY <1>2, <2>2, <2>3, <3>1, FilledIs
    <3> QED BY <3>2, <3>3
  <2>6. p[i] = q[j]
    BY <2>4, <2>5
  <2> QED BY <2>6 DEF j
<1>7. p \in Seq(U) /\ q \in Seq(U) /\ Len(p) = Len(a) /\ Len(q) = Len(b)
  <2>1. (\A i \in 1 .. Len(a) : p[i] \in U) /\ (\A i \in 1 .. Len(b) : q[i] \in U)
    BY <1>1
  <2> HIDE DEF U
  <2> QED BY <1>1, <1>4, <2>1
<1> HIDE DEF U
<1>8. Ends(p, q)
  BY <1>1, <1>6, <1>7 DEF Ends
<1>9. Endings(p) \subseteq Endings(q)
  BY <1>7, <1>8, EndingsGrow
<1> QED BY <1>9 DEF p, q

\* The names of the features of a window are among those of a longer one.
LEMMA NamesGrow ==
  ASSUME NEW T, NEW a \in Seq(T), NEW b \in Seq(T), a # <<>>, Ends(a, b), NEW k
  PROVE  NamesOf(k, a) \subseteq NamesOf(k, b)
<1>1. Endings(a) \subseteq Endings(b)
  BY EndingsGrow
<1>2. ASSUME NEW h PROVE LatentAnnotationFeatures(a, h) \subseteq LatentAnnotationFeatures(b, h)
  <2>1. MostParts(a) \in Nat /\ MostParts(b) \in Nat /\ MostParts(a) <= MostParts(b)
    BY MostPartsGrow
  <2>2. 1 .. MostParts(a) \subseteq 1 .. MostParts(b)
    BY <2>1
  <2>3. \A S \in SUBSET (1 .. MostParts(a)) : Endings(PartsOf(a, S)) \subseteq Endings(PartsOf(b, S))
    BY PartsEnd
  <2>4. ASSUME NEW x \in LatentAnnotationFeatures(a, h) PROVE x \in LatentAnnotationFeatures(b, h)
    <3>1. PICK S \in SUBSET (1 .. MostParts(a)) :
            S # {} /\ (h => 1 \in S) /\ x \in Endings(PartsOf(a, S))
      BY LatentIs
    <3>2. S \in SUBSET (1 .. MostParts(b)) /\ x \in Endings(PartsOf(b, S))
      BY <2>2, <2>3, <3>1
    <3> QED BY <3>1, <3>2, LatentIs
  <2> QED BY <2>4
<1> QED BY <1>1, <1>2 DEF NamesOf

-----------------------------------------------------------------------------
(* The features of a state fit every walk to it.                           *)

\* The features of an arc name what was read last on every walk to it, and all of its n-grams.
LEMMA WindowsFit ==
  ASSUME NEW n \in Nat, NEW G, NEW e, Grams(G, n, e), Root \in Core(G, n, e),
         NEW m, NEW R \in SUBSET DOMAIN m.arcs, KeepsGrams(m, G, n, e, R),
         NEW z \in Walked(m, G, n, e, R), NEW v \in DOMAIN m.arcs[z[1]], NEW k
  PROVE  /\ NamesOf(k, Append(m.history[z[1]], v)) \subseteq NamesOf(k, Append(z[2], v))
         /\ \A g \in G \ {Root} :
              IsSuffixOf(g, Append(z[2], v)) => NamesOf(k, g) \subseteq NamesOf(k, Append(m.history[z[1]], v))
<1> DEFINE q == z[1]
           w == z[2]
           h == m.history[q]
           own == Own(G, n, e, q[1])
<1>1. /\ q \in R /\ w \in Seq(1 .. n) /\ Ends(h, w)
      /\ q[1] = FinalState \/ IsLongest(own, InnerEnds(G, n, w))
  BY DEF Walked
<1>2. v \in 1 .. n /\ q[1] # FinalState
  BY <1>1 DEF KeepsGrams, Tracks
<1>3. h \in Seq(Int) /\ Ends(own, h)
  BY <1>1 DEF KeepsGrams
<1> HIDE DEF q, w, h, own
<1>4. G \subseteq Seq(1 .. n)
  BY DEF Grams
<1>5. own \in Seq(1 .. n) /\ Ends(own, w) /\ \A t \in InnerEnds(G, n, w) : Len(t) <= Len(own)
  BY <1>1, <1>2, <1>4 DEF IsLongest, InnerEnds
<1>6. w \in Seq(Int) /\ own \in Seq(Int) /\ v \in Int
  <2>1. 1 .. n \subseteq Int
    OBVIOUS
  <2>2. w \in Seq(Int)
    BY <1>1, <2>1, SeqOfMore
  <2>3. own \in Seq(Int)
    BY <1>5, <2>1, SeqOfMore
  <2> QED BY <1>2, <2>2, <2>3
<1> DEFINE a == Append(h, v)
           b == Append(w, v)
<1>7. a \in Seq(Int) /\ b \in Seq(Int) /\ a # <<>>
  BY <1>3, <1>6, AppendFacts
<1>8. Ends(a, b)
  BY <1>1, <1>3, <1>6, EndsAppend
<1>9. ASSUME NEW g \in G \ {Root}, Ends(g, b) PROVE Ends(g, a) /\ g \in Seq(Int) /\ g # <<>>
  <2> DEFINE f == Front(g)
  <2>1. g \in Seq(1 .. n) /\ g # <<>> /\ f \in G
    BY <1>4 DEF Grams, Root
  <2>2. f \in Seq(1 .. n) /\ Last(g) \in 1 .. n /\ Append(f, Last(g)) = g
    BY <2>1, FrontFacts
  <2>3. g \in Seq(Int) /\ f \in Seq(Int)
    <3>1. 1 .. n \subseteq Int
      OBVIOUS
    <3>2. g \in Seq(Int)
      BY <2>1, <3>1, SeqOfMore
    <3> HIDE DEF f
    <3>3. f \in Seq(Int)
      BY <2>2, <3>1, SeqOfMore
    <3> QED BY <3>2, <3>3
  <2>4. Last(g) = v /\ Ends(f, w)
    BY <1>6, <1>9, <2>1, <2>3, EndsAppend
  <2> HIDE DEF f
  <2>5. f \in InnerEnds(G, n, w)
    BY <2>1, <2>2, <2>4 DEF InnerEnds, Leaf
  <2>6. Len(f) <= Len(own)
    BY <1>5, <2>5
  <2>7. Ends(f, own)
    BY <1>5, <1>6, <2>3, <2>4, <2>6, EndsChain
  <2>8. Ends(f, h)
    BY <1>3, <1>6, <2>3, <2>7, EndsChain
  <2>9. Ends(Append(f, v), Append(h, v))
    BY <1>3, <1>6, <2>3, <2>8, EndsAppend
  <2> QED BY <2>1, <2>2, <2>3, <2>4, <2>9
<1>10. ASSUME NEW g \in G \ {Root}, IsSuffixOf(g, b) PROVE NamesOf(k, g) \subseteq NamesOf(k, a)
  <2>1. g \in Seq(Int)
    <3>1. 1 .. n \subseteq Int /\ g \in Seq(1 .. n)
      BY <1>4
    <3> QED BY <3>1, SeqOfMore
  <2> HIDE DEF a, b
  <2>2. Ends(g, b)
    BY <1>7, <1>10, <2>1, EndsIsSuffix
  <2>3. Ends(g, a) /\ g # <<>>
    BY <1>9, <2>2
  <2> QED BY <1>7, <2>1, <2>3, NamesGrow
<1>11. NamesOf(k, a) \subseteq NamesOf(k, b)
  <2> HIDE DEF a, b
  <2> QED BY <1>7, <1>8, NamesGrow
<1> QED BY <1>10, <1>11 DEF q, w, h

\* No name of a feature of a window is that of a length feature.
LEMMA NamesAtArcs ==
  ASSUME NEW k, k # 0, NEW h, NEW v
  PROVE  FeaturesAt(k, h, v) \ {LengthIn, LengthOut} = NamesOf(k, Append(h, v))
<1>1. LengthIn \notin NamesOf(k, Append(h, v)) /\ LengthOut \notin NamesOf(k, Append(h, v))
  BY DEF NamesOf, LengthIn, LengthOut
<1> QED BY <1>1 DEF FeaturesAt

\* What is claimed of the features of one model.
LEMMA FeaturesOfWalks ==
  ASSUME NEW k, k # 0, NEW n \in Nat, NEW e, NEW m, NEW G, RemembersGrams(m, G, n, e), NEW f, WalksOf(m, f)
  PROVE  \A j \in 0 .. MaxWalk : \A z \in f[j] : \A v \in DOMAIN m.arcs[z[1]] :
           LET path == Append(z[2], v)
               features == FeaturesAt(k, m.history[z[1]], v) \ {LengthIn, LengthOut}
           IN /\ features \subseteq NamesOf(k, path)
              /\ \A g \in G \ {Root} : IsSuffixOf(g, path) => NamesOf(k, g) \subseteq features
<1>1. Grams(G, n, e) /\ Root \in Core(G, n, e)
  BY DEF RemembersGrams
<1>2. PICK R \in SUBSET DOMAIN m.arcs : KeepsGrams(m, G, n, e, R)
  BY DEF RemembersGrams
<1>3. ASSUME NEW j \in 0 .. MaxWalk, NEW z \in f[j], NEW v \in DOMAIN m.arcs[z[1]]
      PROVE  LET path == Append(z[2], v)
                 features == FeaturesAt(k, m.history[z[1]], v) \ {LengthIn, LengthOut}
             IN /\ features \subseteq NamesOf(k, path)
                /\ \A g \in G \ {Root} : IsSuffixOf(g, path) => NamesOf(k, g) \subseteq features
  <2>1. j \in Nat
    BY WalkAssumption
  <2>2. z \in Walked(m, G, n, e, R)
    BY <1>1, <1>2, <2>1, WalksFit
  <2>3. /\ NamesOf(k, Append(m.history[z[1]], v)) \subseteq NamesOf(k, Append(z[2], v))
        /\ \A g \in G \ {Root} :
             IsSuffixOf(g, Append(z[2], v)) => NamesOf(k, g) \subseteq NamesOf(k, Append(m.history[z[1]], v))
    BY <1>1, <1>2, <1>3, <2>2, WindowsFit
  <2>4. FeaturesAt(k, m.history[z[1]], v) \ {LengthIn, LengthOut} = NamesOf(k, Append(m.history[z[1]], v))
    BY NamesAtArcs
  <2> QED BY <2>3, <2>4
<1> QED BY <1>3

\* Of the features of all models.
LEMMA FeaturesOfModels ==
  ASSUME ModelsInv, HistoryInv, stage = "created", opts.code # "noepshist"
  PROVE  FeaturesMatchHistory
<1> DEFINE Fits(k, f) ==
      \A j \in 0 .. MaxWalk : \A z \in f[j] : \A v \in DOMAIN models[k].arcs[z[1]] :
           LET path == Append(z[2], v)
               features == FeaturesAt(k, models[k].history[z[1]], v) \ {LengthIn, LengthOut}
           IN /\ features \subseteq NamesOf(k, path)
              /\ \A g \in NgramsOfModel(k) \ {Root} : IsSuffixOf(g, path) => NamesOf(k, g) \subseteq features
           walks(k) == CHOOSE f : WalksOf(models[k], f)
<1>1. (\A k \in DOMAIN models : Fits(k, walks(k))) => FeaturesMatchHistory
  BY Zenon DEF FeaturesMatchHistory, WalksOf, GoOn
<1> HIDE DEF walks
<1>2. ASSUME NEW k \in DOMAIN models PROVE Fits(k, walks(k))
  <2> DEFINE m == models[k]
             G == NgramsOfModel(k)
             n == Len(SymsOf(k))
             e == LastLabel(k)
  <2>1. Scoring /\ k # 0
    BY DEF Scoring, ModelsInv, IsSequence
  <2>2. RemembersGrams(m, G, n, e)
    BY <2>1 DEF HistoryInv, ModelRemembers
  <2>3. n \in Nat /\ Grams(G, n, e) /\ Root \in Core(G, n, e)
    BY <2>2 DEF RemembersGrams
  <2>4. PICK R \in SUBSET DOMAIN m.arcs : KeepsGrams(m, G, n, e, R)
    BY <2>2 DEF RemembersGrams
  <2> HIDE DEF n, e, G, m
  <2>5. \E f : WalksOf(m, f)
    BY <2>3, <2>4, WalksExist
  <2>6. WalksOf(m, walks(k))
    BY <2>5, Zenon DEF m, walks
  <2> DEFINE f == walks(k)
  <2>7. WalksOf(m, f)
    BY <2>6
  <2> HIDE DEF f
  <2>8. \A j \in 0 .. MaxWalk : \A z \in f[j] : \A v \in DOMAIN m.arcs[z[1]] :
           LET path == Append(z[2], v)
               features == FeaturesAt(k, m.history[z[1]], v) \ {LengthIn, LengthOut}
           IN /\ features \subseteq NamesOf(k, path)
              /\ \A g \in G \ {Root} : IsSuffixOf(g, path) => NamesOf(k, g) \subseteq features
    BY <2>1, <2>2, <2>3, <2>7, FeaturesOfWalks
  <2> QED BY <2>8, Zenon DEF m, G, f
<1> QED BY <1>1, <1>2

-----------------------------------------------------------------------------
(* The finished machine.                                                   *)

\* The table has symbols annotated as the options say only.
TableInv == stage \notin {"idle", "symbols", "failed"} => table \in Seq(TableSymbol(opts.conjs, opts.segs))

\* At first.
LEMMA InitTableInv == AllInit => TableInv
BY DEF AllInit, IdleCreation, CreatingInit, TopologyInit, CreateInit, CountInit, TableInv

\* Steps that leave the table alone.
TableStays ==
  /\ opts' = opts /\ table' = table
  /\ stage' \notin {"idle", "symbols", "failed"} => stage \notin {"idle", "symbols", "failed"}

\* Steps that keep the table keep the invariant.
LEMMA TableStaysInv == TableInv /\ TableStays => TableInv'
BY DEF TableInv, TableStays

\* The invariant is inductive.
LEMMA AllNextTableInv == CountInv /\ TableInv /\ [AllNext]_allVars => TableInv'
<1> SUFFICES ASSUME CountInv, TableInv, [AllNext]_allVars PROVE TableInv'
  OBVIOUS
<1>1. CASE MakeSymbols
  <2>1. PICK basic \in BasicSymbols : table' = AddLatentAnnotations(basic, opts.conjs, opts.segs)
    BY <1>1 DEF MakeSymbols
  <2>2. basic \in Seq(BasicSymbol)
    BY AllSymbolsType, IdentityCharsType DEF BasicSymbols
  <2>3. opts \in Topologies /\ opts' = opts
    BY <1>1 DEF MakeSymbols, CountInv
  <2>4. table' \in Seq(TableSymbol(opts.conjs, opts.segs))
    BY <2>1, <2>2, <2>3, TopologiesAssumption, TableType
  <2> QED BY <2>3, <2>4 DEF TableInv
<1>2. CASE DoubleFree \/ AddCounts \/ ProcessSubset \/ Select \/ CreateNgramTrie
  <2>1. TableStays
    BY <1>2 DEF DoubleFree, AddCounts, ProcessSubset, Select, CreateNgramTrie, TableStays
  <2> QED BY <2>1, TableStaysInv
<1>3. CASE StartAddBackoff \/ AddBackoffArc \/ AddPhiArc \/ Convert \/ NgramFsaInsertFeatures \/ CreateScoringFst
  <2>1. TableStays
    BY <1>3 DEF StartAddBackoff, AddBackoffArc, AddPhiArc, Convert, NgramFsaInsertFeatures, CreateScoringFst,
                TableStays
  <2> QED BY <2>1, TableStaysInv
<1>4. CASE NoepshistNext
  <2>1. TableStays
    BY <1>4 DEF NoepshistNext, StartScoring, AddArcs, ComposeScoringFst, TableStays
  <2> QED BY <2>1, TableStaysInv
<1>5. CASE HandOver
  BY <1>5 DEF HandOver, TableInv
<1>6. CASE UNCHANGED topologyVars
  <2>1. TableStays
    BY <1>6 DEF topologyVars, createVars, countVars, TableStays
  <2> QED BY <2>1, TableStaysInv
<1> QED BY <1>1, <1>2, <1>3, <1>4, <1>5, <1>6
        DEF AllNext, allVars, Create, SessionStep, TopologyNext, CreateNext, CountNext

\* The inductive invariant of the models.
ModelsState ==
  /\ CountInv /\ GramsInv /\ BackoffInv /\ PhiInv /\ SymbolsInv /\ ModelsInv /\ FeaturesInv
  /\ NoepsInv /\ HistoryInv

\* It holds in every state.
LEMMA ModelsStateHolds == AllSpec => []ModelsState
<1>1. AllInit => ModelsState
  BY InitCountInv, InitGramsInv, InitBackoffInv, InitPhiInv, InitSymbolsInv, InitModelsInv, InitFeaturesInv,
     InitNoepsInv, InitHistoryInv
     DEF ModelsState
<1>2. ModelsState /\ [AllNext]_allVars => ModelsState'
  BY AllNextCountInv, AllNextGramsInv, AllNextBackoffInv, AllNextPhiInv, AllNextSymbolsInv, AllNextModelsInv,
     AllNextFeaturesInv, AllNextNoepsInv, AllNextHistoryInv DEF ModelsState
<1> QED BY <1>1, <1>2, PTL DEF AllSpec

\* And so does the one on the table.
LEMMA TableInvHolds == AllSpec => []TableInv
<1>1. AllInit => CountInv /\ TableInv
  BY InitCountInv, InitTableInv
<1>2. CountInv /\ TableInv /\ [AllNext]_allVars => (CountInv /\ TableInv)'
  BY AllNextCountInv, AllNextTableInv
<1> QED BY <1>1, <1>2, PTL DEF AllSpec

\* What is known of the input and the table when a machine is finished.
LEMMA CreatedSays ==
  ASSUME ModelsState, stage = "created"
  PROVE  /\ opts \in Topologies /\ (data = <<>> \/ data \in Corpora) /\ IsTable(table)
         /\ essential \subseteq 1 .. Len(table) /\ StartLabel \in essential /\ EndLabel \in essential
<1>1. IsTable(table)
  BY DEF ModelsState, CountInv
<1>2. CASE opts.code # "noepshist"
  <2>1. ScoringSays
    BY <1>2 DEF ModelsState, SymbolsInv, Scoring
  <2> QED BY <1>1, <2>1 DEF ScoringSays
<1>3. CASE opts.code = "noepshist"
  <2>1. opts \in Topologies /\ data \in Corpora /\ essential = DOMAIN table
    BY <1>3 DEF ModelsState, NoepsInv, Remembering
  <2>2. DOMAIN table = 1 .. Len(table) /\ StartLabel \in 1 .. Len(table) /\ EndLabel \in 1 .. Len(table)
    BY <1>1, EndLabelIs DEF IsTable
  <2> QED BY <1>1, <2>1, <2>2
<1> QED BY <1>2, <1>3

\* Each of its models reads what is to be scored.
LEMMA ScoredIsRead ==
  ASSUME ModelsState, stage = "created", NEW w, Scored(w), NEW k \in DOMAIN models
  PROVE  CanRead(models[k], InLabels(Labelling(k), w))
<1>1. CASE opts.code # "noepshist"
  BY <1>1 DEF ModelsState, ModelsInv, ModelsRead, Scoring
<1>2. CASE opts.code = "noepshist"
  <2>1. k = 1 /\ CanRead(models[1], w)
    BY <1>2 DEF ModelsState, NoepsInv, Remembering
  <2>2. opts.backoff = <<>> /\ IsTable(table)
    BY <1>2, CreatedSays, ModelsAssumption
  <2>3. IsMain(1)
    BY <2>2, EmptyFacts DEF IsMain
  <2>4. w \in Seq(1 .. Len(table))
    BY DEF Scored
  <2>5. InLabels(Labelling(1), w) = w
    BY <2>2, <2>3, <2>4, MainLabels
  <2> QED BY <2>1, <2>5
<1> QED BY <1>1, <1>2

\* The finished machine scores what it should.
LEMMA ScoredAccepted ==
  ASSUME ModelsState, stage = "created", NEW w, Scored(w),
         InsertionsLimited(Limit, SubSeq(Spell(w), 2, Len(w) - 1))
  PROVE  AcceptedByAll(w)
<1>1. IsTable(table) /\ opts.limit \in Int
  BY CreatedSays, TopologiesAssumption
<1>2. \A k \in DOMAIN models : CanRead(models[k], InLabels(Labelling(k), w))
  BY ScoredIsRead
<1>3. \A k \in DOMAIN models : DOMAIN Labelling(k) = 1 .. Len(table)
  BY <1>1, LabellingIs
<1>4. w \in Seq(1 .. Len(table)) /\ Bounded(w)
  BY DEF Scored
<1> QED BY <1>1, <1>2, <1>3, <1>4, AllAccept

\* The limit of the limit machine is no stricter than that of the well-formed strings.
LEMMA LimitsAgree ==
  ASSUME NEW x, InsertionsLimited(opts.limit, x)
  PROVE  InsertionsLimited(Limit, x) /\ InsertionsLimited(WfLimit, x)
BY DEF InsertionsLimited, Limit, WfLimit

\* The symbols of a string of labels.
LEMMA SpellLength ==
  ASSUME NEW n \in Nat, NEW w \in Seq(1 .. n)
  PROVE  Len(Spell(w)) = Len(w) /\ \A i \in 1 .. Len(w) : Spell(w)[i] = table[w[i]]
<1>1. DOMAIN w = 1 .. Len(w) /\ Len(w) \in Nat
  OBVIOUS
<1>2. Spell(w) = [i \in 1 .. Len(w) |-> table[w[i]]]
  BY <1>1 DEF Spell
<1> QED BY <1>1, <1>2

\* What was seen is to be scored.
LEMMA SeenIsAccepted == ModelsState => AcceptsWhatWasSeen
<1> SUFFICES ASSUME ModelsState, stage = "created", NEW i \in DOMAIN data,
                    NEW v \in Lattice(data[i]),
                    IsWellFormed(opts.limit, opts.conjs, opts.segs, Spell(v))
             PROVE  AcceptedByAll(v)
  BY DEF AcceptsWhatWasSeen
<1>1. IsTable(table)
  BY CreatedSays
<1>2. data \in Corpora
  BY CreatedSays, EmptyFacts
<1>3. v \in Seq(1 .. Len(table)) /\ Bounded(v)
  BY <1>1, <1>2, LatticeType
<1>4. WfAccepts(WfLimit, opts.conjs, opts.segs, Spell(v))
  BY DEF Lattice
<1>5. Scored(v)
  BY <1>3, <1>4 DEF Scored
<1>6. Len(Spell(v)) = Len(v)
  BY <1>1, <1>3, SpellLength DEF IsTable
<1>7. InsertionsLimited(opts.limit, SubSeq(Spell(v), 2, Len(v) - 1))
  BY <1>6 DEF IsWellFormed
<1> QED BY <1>5, <1>7, LimitsAgree, ScoredAccepted

\* So is every well-formed string of essential symbols.
LEMMA EssentialIsAccepted == ModelsState /\ TableInv => AcceptsEssential
<1> SUFFICES ASSUME ModelsState, TableInv, stage = "created",
                    NEW n \in Nat, NEW x \in [1 .. n -> essential \ {StartLabel, EndLabel}],
                    NEW w, w = <<StartLabel>> \o x \o <<EndLabel>>,
                    IsWellFormed(opts.limit, opts.conjs, opts.segs, Spell(w))
             PROVE  AcceptedByAll(w)
  <2>1. 0 .. MaxWalk \subseteq Nat
    BY WalkAssumption
  <2> QED BY <2>1 DEF AcceptsEssential
<1> DEFINE T == TableSymbol(opts.conjs, opts.segs)
<1>1. IsTable(table) /\ opts \in Topologies /\ table \in Seq(T) /\ Len(table) \in Nat
  BY CreatedSays DEF ModelsState, CountInv, TableInv
<1>2. opts.limit \in Int /\ opts.conjs \in Nat /\ opts.segs \in Nat /\ WfLimit \in Int
  BY <1>1, TopologiesAssumption DEF WfLimit
<1>3. /\ essential \subseteq 1 .. Len(table) /\ StartLabel \in essential /\ EndLabel \in essential
      /\ table[StartLabel] = StartSym /\ table[EndLabel] = EndSym /\ StartLabel # EndLabel
      /\ \A l \in 1 .. Len(table) : table[l] = EndSym => l = EndLabel
      /\ \A l \in 1 .. Len(table) : table[l] = StartSym => l = StartLabel
  <2>1. \A i, j \in 1 .. Len(table) : table[i] = table[j] => i = j
    BY <1>1 DEF IsTable, NoDups
  <2>2. /\ EndLabel \in 1 .. Len(table) /\ table[EndLabel] = EndSym
        /\ StartLabel \in 1 .. Len(table) /\ table[StartLabel] = StartSym /\ StartLabel # EndLabel
    BY <1>1, EndLabelIs
  <2>3. essential \subseteq 1 .. Len(table) /\ StartLabel \in essential /\ EndLabel \in essential
    BY CreatedSays
  <2> QED BY <2>1, <2>2, <2>3
<1>4. x \in Seq(essential) /\ Len(x) = n
  OBVIOUS
<1>5. /\ w \in Seq(essential) /\ Len(w) = n + 2
      /\ w[1] = StartLabel /\ w[Len(w)] = EndLabel
      /\ \A k \in 2 .. Len(w) - 1 : w[k] \notin {StartLabel, EndLabel}
  BY <1>3, <1>4
<1>6. w \in Seq(1 .. Len(table)) /\ Len(w) \in Nat /\ \A k \in 1 .. Len(w) : w[k] \in essential /\ w[k] \in 1 .. Len(table)
  <2>1. essential \subseteq 1 .. Len(table) /\ w \in Seq(essential) /\ Len(w) \in Nat
    BY <1>3, <1>5
  <2>2. w \in Seq(1 .. Len(table))
    BY <2>1, SeqOfMore
  <2>3. \A k \in 1 .. Len(w) : w[k] \in essential
    BY <2>1
  <2> QED BY <2>1, <2>2, <2>3
<1>7. Bounded(w)
  <2> SUFFICES ASSUME NEW k \in 1 .. Len(w)
               PROVE  (table[w[k]] = StartSym <=> k = 1) /\ (table[w[k]] = EndSym <=> k = Len(w))
    BY <1>5 DEF Bounded
  <2>1. w[k] \in 1 .. Len(table)
    BY <1>6
  <2>2. table[w[k]] = StartSym <=> w[k] = StartLabel
    BY <1>3, <2>1
  <2>3. table[w[k]] = EndSym <=> w[k] = EndLabel
    BY <1>3, <2>1
  <2>4. k = 1 \/ k = Len(w) \/ k \in 2 .. Len(w) - 1
    BY <1>6
  <2>5. 1 # Len(w)
    BY <1>5
  <2>6. w[k] = StartLabel <=> k = 1
    BY <1>3, <1>5, <2>4, <2>5
  <2>7. w[k] = EndLabel <=> k = Len(w)
    BY <1>3, <1>5, <2>4, <2>5
  <2> QED BY <2>2, <2>3, <2>6, <2>7
<1>8. Len(Spell(w)) = Len(w) /\ \A k \in 1 .. Len(w) : Spell(w)[k] = table[w[k]]
  BY <1>1, <1>6, SpellLength
<1>9. \A k \in 1 .. Len(w) : Spell(w)[k] \in T
  <2> HIDE DEF T
  <2>1. \A l \in 1 .. Len(table) : table[l] \in T
    BY <1>1
  <2> QED BY <1>6, <1>8, <2>1
<1>10. Spell(w) \in Seq(AnySymbol)
  <2>1. DOMAIN w = 1 .. Len(w)
    BY <1>6
  <2>2. \A k \in 1 .. Len(w) : table[w[k]] \in AnySymbol
    BY <1>8, <1>9 DEF TableSymbol
  <2> QED BY <1>6, <2>1, <2>2 DEF Spell
<1>11. Spelled(opts.conjs, opts.segs, Spell(w))
  <2> SUFFICES ASSUME NEW k \in 2 .. Len(w) - 1
               PROVE  Annotated(opts.conjs, opts.segs, Spell(w)[k]) /\ ~ IsSpecial(Spell(w)[k])
    BY <1>8 DEF Spelled
  <2>1. k \in 1 .. Len(w) /\ w[k] # StartLabel /\ w[k] # EndLabel /\ w[k] \in 1 .. Len(table)
    BY <1>5, <1>6
  <2>2. Spell(w)[k] # StartSym /\ Spell(w)[k] # EndSym
    BY <1>3, <1>8, <2>1
  <2>3. ~ IsSpecial(Spell(w)[k])
    BY <2>2 DEF IsSpecial
  <2> QED BY <1>9, <2>1, <2>3 DEF TableSymbol
<1>12. InsertionsLimited(opts.limit, SubSeq(Spell(w), 2, Len(w) - 1))
  BY <1>8 DEF IsWellFormed
<1>13. InsertionsLimited(Limit, SubSeq(Spell(w), 2, Len(w) - 1)) /\ InsertionsLimited(WfLimit, SubSeq(Spell(w), 2, Len(w) - 1))
  BY <1>12, LimitsAgree
<1>14. IsWellFormed(WfLimit, opts.conjs, opts.segs, Spell(w))
  BY <1>8, <1>13 DEF IsWellFormed
<1>15. WfAccepts(WfLimit, opts.conjs, opts.segs, Spell(w))
  BY <1>2, <1>10, <1>11, <1>14, WellFormedLanguage
<1>16. Scored(w)
  BY <1>6, <1>7, <1>15 DEF Scored
<1> QED BY <1>13, <1>16, ScoredAccepted

\* Whatever the topology, the options, the corpus and the back-off models, the machine has
\* a path for every alignment that was counted and that respects the limit on insertions:
\* through every model, its phi arcs and the intersection, or through the histories.
THEOREM SeenAlignmentsAccepted == AllSpec => []AcceptsWhatWasSeen
<1>1. ModelsState => AcceptsWhatWasSeen
  BY SeenIsAccepted
<1> QED BY <1>1, ModelsStateHolds, PTL

\* And for every well-formed string of essential symbols, seen or not.
THEOREM EssentialStringsAccepted == AllSpec => []AcceptsEssential
<1>1. ModelsState /\ TableInv => AcceptsEssential
  BY EssentialIsAccepted
<1> QED BY <1>1, ModelsStateHolds, TableInvHolds, PTL

\* The noepshist topology: whatever was observed and however the paths to a state differ,
\* the features inserted there are those of ends of every path, and of all shorter ends.
THEOREM HistoriesFitThePaths == AllSpec => []NoepsFeaturesMatch
<1>1. ModelsState => NoepsFeaturesMatch
  BY FeaturesOfPaths DEF ModelsState, NoepsFeaturesMatch
<1> QED BY <1>1, ModelsStateHolds, PTL

\* The features at a state of a model with histories on its arcs (InsertFeatures of
\* NgramFsaInsertFeatures) are named for what is last on every walk that leads there, so the
\* longest common suffix of the walks is not too long; and every n-gram of the model that ends
\* such a walk has all of its features, so it is not too short, in every model of every topology
\* with back-off models.
THEOREM FeaturesFitTheWalks == AllSpec => []FeaturesMatchHistory
<1>1. ModelsState => FeaturesMatchHistory
  BY FeaturesOfModels DEF ModelsState, FeaturesMatchHistory
<1> QED BY <1>1, ModelsStateHolds, PTL
=============================================================================
