---------------------------- MODULE NgramCounts ----------------------------
(***************************************************************************)
(* From the aligned data to the trie of n-grams (create/): the lattice of  *)
(* alignments of each pair is intersected with the well-formed strings and *)
(* normalised, its n-grams are counted, and the counts united with the     *)
(* trie, state by state, by util::DeterminizedUnion; then the essential    *)
(* symbols are chosen and the weights dropped.                             *)
(*                                                                         *)
(* A trie state is the n-gram that leads to it, weights are fractions      *)
(* <<n, d>>.  All alignments that the alignment FST allows weigh the same. *)
(***************************************************************************)
EXTENDS AlignmentSymbols

CONSTANTS
  Topologies,   \* the options of the creation that are considered
  Corpora       \* the data: the strings of each pair, and the alignments of them
                \* that the alignment FST allows, and pruning leaves

ASSUME TopologiesAssumption ==
  \A o \in Topologies : o.order \in Nat /\ o.limit \in Int /\ o.conjs \in Nat /\ o.segs \in Nat

PlainLetter == STRING \ {Eps, "S", "E"}
ASSUME CorporaAssumption ==
  \A corpus \in Corpora :
    /\ corpus \in Seq([in : Seq(PlainLetter), out : Seq(PlainLetter),
                       aligned : SUBSET Seq([in : STRING, out : STRING, c : {0}, g : {Unannotated}])])
    /\ \A i \in DOMAIN corpus : corpus[i].aligned \subseteq Alignments(corpus[i].in, corpus[i].out)

VARIABLES
  opts,     \* the options: code, prune, order, limit, conjs, segs, threshold,
            \* backoff, feats
  data,     \* the corpus
  stage,    \* what is done next
  pair,     \* pairs counted
  table,    \* align_syms
  ngrams,   \* fst2: the n-gram counts of the pair
  trie,     \* trie_: by state the labels of its arcs in their order, the weight
            \* of the arc into it and its final weight
  queue,    \* the_queue of the union
  essential \* pruned_syms

countVars == <<opts, data, stage, pair, table, ngrams, trie, queue, essential>>

\* The same function, by its values, so that TLC works them out once.
Tabulated(f) == CHOOSE g \in {f} : g = f

-----------------------------------------------------------------------------
(* Fractions.                                                              *)

Zero == <<0, 1>>
One == <<1, 1>>
gcd[x \in Nat \X Nat] == IF x[2] = 0 THEN x[1] ELSE gcd[<<x[2], x[1] % x[2]>>]
Reduced(n, d) == <<n \div gcd[<<n, d>>], d \div gcd[<<n, d>>]>>
Plus(x, y) == Reduced(x[1] * y[2] + y[1] * x[2], x[2] * y[2])
Times(x, y) == Reduced(x[1] * y[1], x[2] * y[2])
Divide(x, y) == Reduced(x[1] * y[2], x[2] * y[1])
Less(x, y) == x[1] * y[2] < y[1] * x[2]
SumOver(S, f(_)) == FoldSet(LAMBDA x, acc : Plus(f(x), acc), Zero, S)

-----------------------------------------------------------------------------
(* The lattice of a pair and its n-grams.                                  *)

Latent == opts.conjs > 0 \/ opts.segs > 0
StartLabel == CHOOSE l \in DOMAIN table : table[l] = StartSym
EndLabel == CHOOSE l \in DOMAIN table : table[l] = EndSym

\* ConstructLatticeFct_UpDown composes the strings with proj_up and proj_down, and
\* with the alignment FST only if it is to prune; v3 always does the latter.
AlignmentsOf(p) ==
  IF opts.code = "v3" \/ opts.prune THEN p.aligned ELSE Alignments(p.in, p.out)

\* r2191 limits the insertions of the model, not those of the alignments.
WfLimit == IF opts.code = "r2191" THEN -1 ELSE opts.limit

Spell(w) == [i \in DOMAIN w |-> table[w[i]]]

\* The alignments, annotated, composed with wellformed_fst.
Lattice(p) ==
  {v \in UNION {Annotate(w, table) : w \in AlignmentsOf(p)} :
     WfAccepts(WfLimit, opts.conjs, opts.segs, Spell(v))}

\* How often p occurs in the lattice: CreateNgramCountFst skips some symbols,
\* copies at most order of them and skips the rest.
Occurrences(p, v) == {i \in DOMAIN v : i + Len(p) - 1 \in DOMAIN v
                                       /\ SubSeq(v, i, i + Len(p) - 1) = p}
NgramsOf(lattice, order) ==
  {g \in UNION {{SubSeq(v, i, j) : i, j \in DOMAIN v} : v \in lattice} :
     Len(g) \in 1 .. order}
ExpectedCount(p, lattice) ==
  Reduced(FoldSet(LAMBDA v, n : n + Cardinality(Occurrences(p, v)), 0, lattice),
          Cardinality(lattice))

Sorted(S) == [i \in 1 .. Cardinality(S) |-> CHOOSE l \in S : Cardinality({m \in S : m < l}) = i - 1]
LabelsAfter(p, states) ==
  Sorted({Last(q) : q \in {q \in states : Len(q) = Len(p) + 1 /\ Front(q) = p}})

\* The noepshist topology needs longer n-grams, to know its histories by.
CountOrder == IF opts.code = "noepshist" THEN opts.order + 2 ELSE opts.order

\* util::Normalize, Push to the start, CountNgrams: determinised, the arc into p
\* weighs its count divided by that of the n-gram before, and p is final.
CountNgrams(lattice) ==
  LET grams == NgramsOf(lattice, CountOrder)
      count == Tabulated([p \in grams |-> ExpectedCount(p, lattice)])
  IN [p \in grams \cup {<<>>} |->
        [labels |-> LabelsAfter(p, grams),
         weight |-> CASE p = <<>> -> One
                      [] Len(p) = 1 -> count[p]
                      [] OTHER -> Divide(count[p], count[Front(p)]),
         final |-> IF p = <<>> THEN Zero ELSE One]]

-----------------------------------------------------------------------------

NoTrie == [p \in {<<>>} |-> [labels |-> <<>>, weight |-> One, final |-> Zero]]

\* The symbols of the 1-best alignments: of some alignment of each pair.
OneBestSymbols ==
  FoldLeft(LAMBDA syms, p :
             IF p.aligned = {} THEN syms
             ELSE {S \cup ToSet(w) : S \in syms, w \in p.aligned}, {{}}, data)

\* r2191 and noepshist take the symbols of the best alignments, the others all.
BasicSymbols ==
  IF opts.code \in {"r2191", "noepshist"} THEN {AddIdentityChars(syms) : syms \in OneBestSymbols}
  ELSE {CreateAlignmentSymbolTable}

CountInit ==
  /\ opts \in Topologies
  /\ data \in IF opts.code = "ngram" THEN {<<>>} ELSE Corpora
  /\ stage = "symbols"
  /\ pair = 0 /\ table = <<>> /\ ngrams = NoTrie /\ trie = NoTrie
  /\ queue = <<>> /\ essential = {}

\* With change regions but no classes the basic table is deleted twice, or
\* deleted and used: the process may end here.
DoubleFree ==
  /\ stage = "symbols" /\ opts.segs > 0 /\ opts.conjs = 0
  /\ stage' = "failed"
  /\ UNCHANGED <<opts, data, pair, table, ngrams, trie, queue, essential>>

\* GetProjAndWellformed, or SetAlignmentSymbols.
MakeSymbols ==
  /\ stage = "symbols"
  /\ \E basic \in BasicSymbols : table' = AddLatentAnnotations(basic, opts.conjs, opts.segs)
  /\ stage' = IF opts.code = "ngram" THEN "all" ELSE "count"
  /\ UNCHANGED <<opts, data, pair, ngrams, trie, queue, essential>>

\* AddCounts sorts the trie before each union.
ArcSort(t) == [p \in DOMAIN t |-> [t[p] EXCEPT !.labels = Sorted(ToSet(@))]]

\* The next pair.  If the lattice is empty then Normalize throws; r2191 does not
\* normalise, and the union returns at once.
AddCounts ==
  /\ stage = "count" /\ queue = <<>> /\ pair < Len(data)
  /\ LET lattice == Lattice(data[pair + 1])
     IN IF lattice = {}
        THEN /\ IF opts.code = "v3" THEN stage' = "failed" ELSE UNCHANGED stage
             /\ UNCHANGED <<ngrams, queue>>
        ELSE /\ ngrams' = CountNgrams(lattice)
             /\ queue' = <<[at |-> <<>>, v1 |-> One, v2 |-> One]>>
             /\ UNCHANGED stage
  /\ trie' = ArcSort(trie)
  /\ pair' = pair + 1
  /\ UNCHANGED <<opts, data, table, essential>>

\* Labels that are found equal, as std::set_union goes through the two arrays.
Matched(a, b) ==
  LET from[p \in (1 .. Len(a) + 1) \X (1 .. Len(b) + 1)] ==
        LET i == p[1]
            j == p[2]
        IN IF i > Len(a) \/ j > Len(b) THEN {}
           ELSE IF a[i] < b[j] THEN from[<<i + 1, j>>]
           ELSE IF b[j] < a[i] THEN from[<<i, j + 1>>]
           ELSE {a[i]} \cup from[<<i + 1, j + 1>>]
  IN from[<<1, 1>>]

\* Fault: the weights are not divided by that of the arc.
NoResidual(v, weight) == v

\* What the weight of the arc does not say yet.
Residual(v, weight) == Divide(v, weight)

\* One subset (a trie state and a state of the pair's counts): an arc of the trie
\* only, of the pair only (a new trie state), or of both.
ProcessSubset ==
  /\ stage = "count" /\ queue # <<>>
  /\ LET q == Head(queue)
         a == trie[q.at].labels
         b == ngrams[q.at].labels
         both == Matched(a, b)
         new == Kept(b, ToSet(b) \ both)
         shared == Kept(b, both)
         to(l) == Append(q.at, l)
         vw1(l) == Times(q.v1, trie[to(l)].weight)
         vw2(l) == Times(q.v2, ngrams[to(l)].weight)
         weight(l) == IF l \in both THEN Plus(vw1(l), vw2(l)) ELSE vw2(l)
         v1(l) == IF l \in both THEN Residual(vw1(l), weight(l)) ELSE Residual(One, weight(l))
         v2(l) == Residual(vw2(l), weight(l))
         old(l) == IF l \in both THEN trie[to(l)].final ELSE Zero
         merged(l) ==
           [labels |-> IF l \in both THEN trie[to(l)].labels ELSE <<>>,
            weight |-> weight(l),
            final |-> Plus(Times(v1(l), old(l)), Times(v2(l), ngrams[to(l)].final))]
         reached == {to(l) : l \in ToSet(b)}
         kept == {to(l) : l \in ToSet(a) \ ToSet(b)}
     IN /\ trie' = [p \in DOMAIN trie \cup reached |->
                      IF p = q.at THEN [trie[p] EXCEPT !.labels = a \o new]
                      ELSE IF p \in reached THEN merged(Last(p))
                      ELSE IF p \in kept THEN [trie[p] EXCEPT !.weight = Times(q.v1, @)]
                      ELSE trie[p]]
        /\ queue' = Tail(queue) \o
             LET element(l) == [at |-> to(l), v1 |-> v1(l), v2 |-> v2(l)]
                 found == shared \o new
             IN [i \in DOMAIN found |-> element(found[i])]
  /\ UNCHANGED <<opts, data, stage, pair, table, ngrams, essential>>

-----------------------------------------------------------------------------
(* The trie is complete.                                                   *)

\* The weight of an n-gram in the trie: what GetResult pushes to its final state.
PathWeight(t, p) ==
  LET upTo[i \in 0 .. Len(p)] ==
        IF i = 0 THEN One ELSE Times(upTo[i - 1], t[SubSeq(p, 1, i)].weight)
  IN Times(upTo[Len(p)], t[p].final)

\* Labels that ExtractEssentialAlignSyms may take for one input symbol: by count
\* (equal ones in any order) until accumulated, which starts at One like sum, is
\* more than the threshold's part of sum.  That is tested after a label is taken,
\* so the first one always is.
Covering(labels, count) ==
  LET sum(S) == Plus(One, SumOver(S, LAMBDA l : count[l]))
      limit == Times(opts.threshold, sum(labels))
  IN {S \in SUBSET labels :
        /\ \A l \in S, m \in labels \ S : ~ Less(count[l], count[m])
        /\ S = labels \/ Less(limit, sum(S))
        /\ \E last \in S : /\ \A l \in S : ~ Less(count[l], count[last])
                          /\ (S = {last} \/ ~ Less(limit, sum(S \ {last})))}

\* Only a|a as such: with annotations no symbol but S|S and E|E.
IdentitySyms == {l \in DOMAIN table : table[l].in = table[l].out /\ Nola(table[l]) = table[l]}

Unions(some, others) == {S \cup T : S \in some, T \in others}
EssentialSets ==
  LET unigrams == ToSet(trie[<<>>].labels)
      inputs == {table[l].in : l \in unigrams}
      group(i) == {l \in unigrams : table[l].in = i}
      count == Tabulated([l \in unigrams |-> PathWeight(trie, <<l>>)])
  IN IF opts.code # "v3" THEN {DOMAIN table}
     ELSE FoldSet(LAMBDA i, sets : Unions(sets, Covering(group(i), count)), {IdentitySyms}, inputs)

\* Fault: the trie has the symbols that were seen, and no others.
OnlyObserved(t, syms) == t

\* At the end of the root's arcs.
AddUnobservedUnigrams(t, syms) ==
  LET new == Sorted(syms \ ToSet(t[<<>>].labels))
  IN [p \in DOMAIN t \cup {<<l>> : l \in ToSet(new)} |->
        IF p = <<>> THEN [t[p] EXCEPT !.labels = @ \o new]
        ELSE IF p \in DOMAIN t THEN t[p] ELSE [labels |-> <<>>, weight |-> One, final |-> One]]

RmWeight(t) == [p \in DOMAIN t |-> [t[p] EXCEPT !.weight = One, !.final = One]]

\* A trie with no start state (nothing was counted) cannot be iterated.
Select ==
  /\ stage = "count" /\ queue = <<>> /\ pair = Len(data) /\ opts.code # "noepshist"
  /\ IF trie[<<>>].labels = <<>>
     THEN stage' = "failed" /\ UNCHANGED <<trie, essential>>
     ELSE /\ essential' \in EssentialSets
          /\ trie' = RmWeight(AddUnobservedUnigrams(trie, essential'))
          /\ stage' = "models"
  /\ ngrams' = NoTrie
  /\ UNCHANGED <<opts, data, pair, table, queue>>

\* CreateNgramTrie: all n-grams with S|S only first and E|E only last.
AllNgrams ==
  {p \in UNION {[1 .. n -> DOMAIN table] : n \in 1 .. opts.order} :
     \A i \in DOMAIN p : (p[i] = StartLabel => i = 1) /\ (p[i] = EndLabel => i = Len(p))}

CreateNgramTrie ==
  /\ stage = "all"
  /\ trie' = [p \in AllNgrams \cup {<<>>} |->
               [labels |-> LabelsAfter(p, AllNgrams), weight |-> One, final |-> One]]
  /\ essential' = DOMAIN table
  /\ stage' = "models"
  /\ UNCHANGED <<opts, data, pair, table, ngrams, queue>>

CountNext ==
  DoubleFree \/ MakeSymbols \/ AddCounts \/ ProcessSubset \/ Select \/ CreateNgramTrie

-----------------------------------------------------------------------------

\* The trie is a trie: every state but the root hangs on one arc, and no state
\* has two arcs with one label.
CountTypeOK ==
  /\ <<>> \in DOMAIN trie
  /\ \A p \in DOMAIN trie :
       /\ Cardinality(ToSet(trie[p].labels)) = Len(trie[p].labels)
       /\ p # <<>> => Last(p) \in ToSet(trie[Front(p)].labels)

\* When the counts of a pair have been united with the trie, each n-gram weighs
\* its expected count in all pairs so far, whatever the pairs share.
NgramCountsExact ==
  stage = "count" /\ queue = <<>> =>
    LET lattices == Tabulated([i \in 1 .. pair |-> Lattice(data[i])])
        counted == {i \in 1 .. pair : lattices[i] # {}}
        grams == UNION {NgramsOf(lattices[i], CountOrder) : i \in counted}
    IN /\ DOMAIN trie = grams \cup {<<>>}
       /\ \A p \in grams : PathWeight(trie, p) =
            SumOver(counted, LAMBDA i : ExpectedCount(p, lattices[i]))

\* The alignments that are about to be counted are those whose annotated forms satisfy the
\* description of getWellFormed: at most limit insertions in a row, one class,
\* regions of changes and identities whose numbers rise - or, where there are classes
\* too, numbers that rise at an identity only.
LatticeIsWellFormed ==
  stage = "count" /\ pair = 0 =>
    \A i \in DOMAIN data : Lattice(data[i]) =
      {v \in UNION {Annotate(w, table) : w \in AlignmentsOf(data[i])} :
         IsWellFormed(WfLimit, opts.conjs, opts.segs, Spell(v))}
=============================================================================
