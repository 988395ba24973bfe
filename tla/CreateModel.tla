---------------------------- MODULE CreateModel ----------------------------
(***************************************************************************)
(* From the trie of n-grams to the scoring machine with its features       *)
(* (create/): back-off arcs are added to the trie, depth first, the trie   *)
(* becomes a machine with one start and one final state, that is composed  *)
(* with the well-formed strings, and features are inserted on its arcs.    *)
(* First for each back-off model, over coarser symbols, then for the main  *)
(* one; all of them and the limit on insertions are intersected.           *)
(***************************************************************************)
EXTENDS NgramCounts

\* The lowest order is that of unigrams; CreateBackoffSymsFct knows three names, and
\* the noepshist topology is made without back-off models.
ASSUME ModelsAssumption ==
  \A o \in Topologies :
    /\ o.order > 0 /\ o.backoff \in Seq({"id", "tlm", "vc"})
    /\ o.code = "noepshist" => o.backoff = <<>>

VARIABLES
  next,     \* the trie that becomes a model: by state and label the next state
  stack,    \* the calls of AddBackoff, innermost first
  models,   \* the finished models: start, arcs, and the history of each state
  blocks,   \* the names in feature_names, by the model that added them
  fired     \* the features on the arcs of the result

modelVars == <<next, stack, models, blocks, fired>>
createVars == <<countVars, modelVars>>

Phi == 0
Root == <<>>
NewStart == <<-1>>
FinalState == <<-2>>
Current == Len(models) + 1

-----------------------------------------------------------------------------
(* Coarser symbols.                                                        *)

\* BackoffSyms_id, _tlm and _vc.  The annotations stay.
Kind(s) == CASE s.in = Eps -> "INS" [] s.out = Eps -> "DEL" [] ~ IsChange(s) -> "ID"
             [] OTHER -> "SUBST"
ReduceChar(c) == CASE c = Eps -> Eps [] c \in {"a", "e", "i", "o", "u"} -> "V" [] OTHER -> "C"
BackoffSym(f, s) ==
  IF IsSpecial(s) THEN s
  ELSE CASE f = "id" -> [s EXCEPT !.in = Kind(s), !.out = Kind(s)]
         [] f = "tlm" -> [s EXCEPT !.in = "?"]
         [] f = "vc" -> [s EXCEPT !.in = ReduceChar(@), !.out = ReduceChar(@)]

\* Models 1, 2, ... are back-off models, the one after them is the main one.
IsMain(k) == k = Len(opts.backoff) + 1

\* GetBackoffSymsFst: the symbols of model k, and the label that each symbol gets.
SymOf(k, s) == IF IsMain(k) THEN s ELSE BackoffSym(opts.backoff[k], s)
SymsOf(k) ==
  FoldLeft(LAMBDA syms, s : IF SymOf(k, s) \in ToSet(syms) THEN syms ELSE Append(syms, SymOf(k, s)),
           <<>>, table)
Labelling(k) ==
  LET syms == SymsOf(k)
  IN [l \in DOMAIN table |-> CHOOSE v \in DOMAIN syms : syms[v] = SymOf(k, table[l])]
LabelsOf(k) == DOMAIN SymsOf(k)

\* The trie of model k: of the n-grams in the strings that the trie accepts.
NgramsOfModel(k) ==
  LET label == Labelling(k)
  IN IF IsMain(k) THEN DOMAIN trie
     ELSE {Root} \cup NgramsOf({[i \in DOMAIN p |-> label[p[i]]] : p \in DOMAIN trie}, opts.order)

-----------------------------------------------------------------------------
(* AddBackoff.                                                             *)

CreateInit ==
  /\ CountInit
  /\ next = <<>> /\ stack = <<>> /\ models = <<>> /\ blocks = <<>> /\ fired = {}

\* A call goes through the arcs of at, in their order.
Call(at, backoff, arcs) ==
  [at |-> at, backoff |-> backoff,
   todo |-> IF IsMain(Current) THEN trie[at].labels ELSE Sorted(DOMAIN arcs[at])]

StartAddBackoff ==
  /\ stage = "models"
  /\ LET grams == NgramsOfModel(Current)
     IN next' = [p \in grams |-> [l \in ToSet(LabelsAfter(p, grams)) |-> Append(p, l)]]
  /\ stack' = <<Call(Root, Root, next')>>
  /\ stage' = "backoff"
  /\ UNCHANGED <<opts, data, pair, table, ngrams, trie, queue, essential, models, blocks, fired>>

\* Fault: an n-gram backs off to the root.
BackoffToRoot(call, l) == Root

\* The history that is one symbol shorter, after l.
NextBackoff(call, l) ==
  IF call.at = call.backoff THEN call.backoff ELSE next[call.backoff][l]

\* One arc: into the state it leads to, or, if that is a leaf, bent back.
AddBackoffArc ==
  /\ stage = "backoff" /\ stack # <<>> /\ Head(stack).todo # <<>>
  /\ LET call == Head(stack)
         l == Head(call.todo)
         rest == <<[call EXCEPT !.todo = Tail(@)]>> \o Tail(stack)
         to == next[call.at][l]
     IN IF call.at # call.backoff /\ l \notin DOMAIN next[call.backoff]
        THEN stage' = "failed" /\ UNCHANGED <<next, stack>>   \* assert(found)
        ELSE /\ IF next[to] # <<>>
                THEN stack' = <<Call(to, NextBackoff(call, l), next)>> \o rest /\ UNCHANGED next
                ELSE /\ next' = [next EXCEPT ![call.at][l] = NextBackoff(call, l)]
                     /\ stack' = rest
             /\ UNCHANGED stage
  /\ UNCHANGED <<opts, data, pair, table, ngrams, trie, queue, essential, models, blocks, fired>>

WithPhi(arcs, to) == [l \in DOMAIN arcs \cup {Phi} |-> IF l = Phi THEN to ELSE arcs[l]]

\* At the end of a call the phi arc is added.
AddPhiArc ==
  /\ stage = "backoff" /\ stack # <<>> /\ Head(stack).todo = <<>>
  /\ LET call == Head(stack)
     IN next' = IF call.at = call.backoff THEN next
                ELSE [next EXCEPT ![call.at] = WithPhi(@, call.backoff)]
  /\ stack' = Tail(stack)
  /\ stage' = IF stack' = <<>> THEN "convert" ELSE stage
  /\ UNCHANGED <<opts, data, pair, table, ngrams, trie, queue, essential, models, blocks, fired>>

-----------------------------------------------------------------------------
(* Machines: for each state the state that each of its labels leads to.     *)

Reached(seed, to, states) ==
  LET from[S \in SUBSET states] ==
        LET more == S \cup UNION {to[q] : q \in S} IN IF more = S THEN S ELSE from[more]
  IN from[seed]

\* Connect: the states on a path from the start to a final state.
Connected(arcs, start, finals) ==
  LET all == DOMAIN arcs
      image == Tabulated([q \in all |-> {arcs[q][l] : l \in DOMAIN arcs[q]}])
      inverse == Tabulated([q \in all |-> {p \in all : q \in image[p]}])
      kept == Reached({start}, image, all) \cap Reached(finals, inverse, all)
  IN [q \in kept |-> [l \in {l \in DOMAIN arcs[q] : arcs[q][l] \in kept} |-> arcs[q][l]]]

\* ConvertTrieToModel: S|S only from a start state of its own, E|E only to the
\* one final state.
StartOf(m) == IF NewStart \in DOMAIN m THEN NewStart ELSE Root
Convert ==
  /\ stage = "convert"
  /\ LET label == Labelling(Current)
         S == label[StartLabel]
         E == label[EndLabel]
         begun ==
           IF S \notin DOMAIN next[Root] THEN next
           ELSE [p \in DOMAIN next \cup {NewStart} |->
                   CASE p = NewStart -> Restrict(next[Root], {S})
                     [] p = Root -> Restrict(next[Root], DOMAIN next[Root] \ {S})
                     [] p \notin {NewStart, Root} -> next[p]]
         ended == [p \in DOMAIN begun \cup {FinalState} |->
                     [l \in IF p = FinalState THEN {} ELSE DOMAIN begun[p] |->
                        IF l = E THEN FinalState ELSE begun[p][l]]]
     IN next' = Connected(ended, StartOf(ended), {FinalState})
  /\ stage' = "features"
  /\ UNCHANGED <<opts, data, pair, table, ngrams, trie, queue, essential,
                 stack, models, blocks, fired>>

\* Fault: only the essential symbols are tried at the state itself.
EssentialOnly(m, q, l, byPhi) == IF l \in DOMAIN m[q] /\ l \in byPhi THEN {m[q][l]} ELSE {}

\* The arc with label l at q, or else, for the labels in byPhi, at the state that
\* phi leads to (SelectivePhiMatcher; PhiMatcher for all labels).
Find(m, q, l, byPhi) ==
  LET at[p \in DOMAIN m] ==
        IF l \in DOMAIN m[p] THEN {m[p][l]}
        ELSE IF Phi \in DOMAIN m[p] /\ l \in byPhi THEN at[m[p][Phi]] ELSE {}
  IN at[q]

\* The states of wellformed_fst, determinised.
WfStates ==
  [pos : 0 .. 2,
   at : SUBSET ((0 .. IF opts.limit < 0 THEN 0 ELSE opts.limit) \X ConjStates(opts.conjs)
                  \X ChgSegStates(opts.segs))]

\* The composition of model k with wellformed_fst, the latter over the symbols of
\* the model and determinised again (the main model: one state each).
Composition(k) ==
  LET label == Tabulated(Labelling(k))
      syms == Tabulated([v \in LabelsOf(k) |->
                          {table[l] : l \in {l \in DOMAIN table : label[l] = v}}])
      byPhi == IF IsMain(k) THEN essential ELSE LabelsOf(k)
      wfAfter(W, v) ==
        {w \in {WfArc(WfLimit, opts.conjs, opts.segs, x, s) : x \in W, s \in syms[v]} : ~ WfDead(w)}
      step(q, v) == {<<p, wfAfter(q[2], v)>> : p \in Find(next, q[1], v, byPhi)}
      possible(q) == {v \in LabelsOf(k) : \E r \in step(q, v) : r[2] # {}}
      arcsOf(q) == Tabulated([v \in possible(q) |-> CHOOSE r \in step(q, v) : TRUE])
      start == <<StartOf(next), {WfStart}>>
      all == (DOMAIN next) \X (SUBSET WfStates)
      states == Reached({start}, [q \in all |-> UNION {step(q, v) : v \in possible(q)}], all)
      arcs == Tabulated([q \in states |-> arcsOf(q)])
  IN IF next = <<>> THEN <<>>
     ELSE IF IsMain(k) THEN arcs
     ELSE Connected(arcs, start, {q \in states : q[1] = FinalState})

\* Fault: the history of a state is that of one path to it.
OnePath(S) == CHOOSE x \in S : TRUE

IsSuffixOf(s, t) == Len(s) <= Len(t) /\ s = SubSeq(t, Len(t) - Len(s) + 1, Len(t))

\* The longest common suffix of some strings.
CommonSuffix(S) ==
  LET one == CHOOSE x \in S : TRUE
      suffix(n) == SubSeq(one, Len(one) - n + 1, Len(one))
      common == {n \in 0 .. Len(one) : \A x \in S : IsSuffixOf(suffix(n), x)}
  IN suffix(CHOOSE n \in common : \A m \in common : m <= n)

\* The arcs into each state, and the strings h of the states before it, with their labels.
Into(arcs) ==
  [q \in DOMAIN arcs |->
     UNION {{<<p, l>> : l \in {l \in DOMAIN arcs[p] : arcs[p][l] = q}} : p \in DOMAIN arcs}]
Arriving(into, start, h, q) ==
  (UNION {{Append(x, e[2]) : x \in h[e[1]]} : e \in into[q]}) \cup IF q = start THEN {<<>>} ELSE {}

\* The shortest distances with strings as weights: what all paths to a state
\* end with, found by iteration over tables of none or one string for each state.
Tables(arcs) == [DOMAIN arcs -> SUBSET Seq(Int)]

Histories(arcs, start) ==
  LET into == Tabulated(Into(arcs))
      from[h \in Tables(arcs)] ==
        LET more == [q \in DOMAIN arcs |->
                       LET S == Arriving(into, start, h, q) IN IF S = {} THEN {} ELSE {CommonSuffix(S)}]
        IN IF more = h THEN h ELSE from[more]
      found == from[[q \in DOMAIN arcs |-> {}]]
  IN [q \in DOMAIN arcs |-> CHOOSE x \in found[q] : TRUE]

\* A feature is a model and a string: of labels, or, for the feature libraries with
\* latent annotations, of parts of symbols.
Endings(w) == {SubSeq(w, i, Len(w)) : i \in DOMAIN w}

\* SplitLa: the letters (as the first label that has them), the class, the region.
NoPart == 0
Split(l) ==
  LET s == table[l]
  IN <<CHOOSE n \in DOMAIN table : Nola(table[n]) = Nola(s)
         /\ \A m \in 1 .. n - 1 : Nola(table[m]) # Nola(s)>>
     \o (IF s.c = 0 THEN <<>> ELSE <<-2 * s.c>>)
     \o (IF s.g = Unannotated THEN <<>> ELSE <<-2 * s.g - 1>>)

Filled(parts, most) == parts \o [n \in 1 .. most - Len(parts) |-> NoPart]

\* LatentAnnotationFeatures: every choice of parts, the same at each position; if
\* anchored, only with the letters.
LatentAnnotationFeatures(window, anchored) ==
  LET most == Max({Len(Split(window[i])) : i \in DOMAIN window})
      parts == [i \in DOMAIN window |-> Filled(Split(window[i]), most)]
      patterns == {S \in SUBSET (1 .. most) : S # {} /\ (anchored => 1 \in S)}
  IN UNION {Endings([i \in DOMAIN window |->
                        LET chosen == Sorted(S) IN [n \in DOMAIN chosen |-> parts[i][chosen[n]]]])
              : S \in patterns}

\* ExtractFeatures: the n-grams that end here (of which the main model may have
\* others), and the length features.
Library(k) == IF IsMain(k) THEN opts.feats ELSE "simple"
Annotations(k) == Library(k) \in {"la", "la+len", "la1"}
Anchored(k) == Library(k) = "la1"
Lengths(k) == Library(k) \in {"simple+len", "la+len"}
NamesOf(k, window) ==
  {<<k, w>> : w \in IF Annotations(k) THEN LatentAnnotationFeatures(window, Anchored(k))
                     ELSE Endings(window)}
LengthIn == <<0, <<-1>>>>
LengthOut == <<0, <<-2>>>>
FeaturesAt(k, history, v) ==
  NamesOf(k, Append(history, v))
    \cup IF ~ Lengths(k) THEN {}
         ELSE (IF table[v].in # Eps THEN {LengthIn} ELSE {})
                \cup (IF table[v].out # Eps THEN {LengthOut} ELSE {})

\* NgramFsaInsertFeatures: a feature that has no number yet gets the next one.
NgramFsaInsertFeatures ==
  /\ stage = "features"
  /\ LET arcs == Tabulated(Composition(Current))
         start == <<StartOf(next), {WfStart}>>
         history == IF arcs = <<>> THEN <<>> ELSE Tabulated(Histories(arcs, start))
         features == UNION {UNION {FeaturesAt(Current, history[q], v) : v \in DOMAIN arcs[q]}
                              : q \in DOMAIN arcs}
     IN /\ models' = Append(models, [start |-> start, arcs |-> arcs, history |-> history])
        /\ blocks' = Append(blocks, features)
  /\ next' = <<>>
  /\ stage' = IF IsMain(Current) THEN "combine" ELSE "models"
  /\ UNCHANGED <<opts, data, pair, table, ngrams, trie, queue, essential, stack, fired>>

-----------------------------------------------------------------------------
(* The intersection of all models and the limit machine.                    *)

Labellings == Tabulated([k \in DOMAIN models |-> Tabulated(Labelling(k))])
HasLimit == opts.code \in {"v3", "r2191"} /\ opts.limit > -1
StartState == <<[k \in DOMAIN models |-> models[k].start], 0, 0>>

\* What label l leads to from a state: the states of the models, and that of the
\* limit machine and of proj_up and proj_down.
ResultStep(labels, q, l) ==
  IF \A k \in DOMAIN models : /\ q[1][k] \in DOMAIN models[k].arcs
                              /\ labels[k][l] \in DOMAIN models[k].arcs[q[1][k]]
  THEN {[k \in DOMAIN models |-> models[k].arcs[q[1][k]][labels[k][l]]]}
         \X LimitArcs(IF HasLimit THEN opts.limit ELSE -1, q[2], table[l])
         \X HookArcs(q[3], table[l])
  ELSE {}

\* The states that can be reached, and the features on their arcs.
CreateScoringFst ==
  /\ stage = "combine"
  /\ LET labels == Labellings
         all == [DOMAIN models -> UNION {DOMAIN models[k].arcs : k \in DOMAIN models}]
                  \X (0 .. IF opts.limit < 0 THEN 0 ELSE opts.limit) \X (0 .. 2)
         states == Reached({StartState},
                           [q \in all |-> UNION {ResultStep(labels, q, l) : l \in DOMAIN table}], all)
     IN fired' = UNION {UNION {UNION {FeaturesAt(k, models[k].history[q[1][k]], labels[k][l])
                                        : k \in DOMAIN models}
                                 : l \in {l \in DOMAIN table : ResultStep(labels, q, l) # {}}}
                          : q \in states}
  /\ stage' = "created"
  /\ UNCHANGED <<opts, data, pair, table, ngrams, trie, queue, essential,
                 next, stack, models, blocks>>

CreateNext ==
  \/ CountNext /\ UNCHANGED modelVars
  \/ StartAddBackoff \/ AddBackoffArc \/ AddPhiArc \/ Convert
  \/ NgramFsaInsertFeatures \/ CreateScoringFst

-----------------------------------------------------------------------------

CONSTANT MaxWalk    \* bounds the strings that the models are tried on

ASSUME WalkAssumption == MaxWalk \in Nat

\* The trie is a trie, no model is empty, and only features that have a name fire.
CreateTypeOK ==
  /\ CountTypeOK
  /\ stage \in {"idle", "symbols", "count", "all", "failed", "models", "backoff", "convert", "features",
                "combine", "noepshist", "created"}
  /\ stage \in {"models", "backoff", "convert", "features", "combine", "noepshist", "created"} =>
       EndLabel \in essential /\ StartLabel \in essential
  /\ \A k \in DOMAIN models : models[k].start \in DOMAIN models[k].arcs
  /\ fired \subseteq UNION ToSet(blocks)

LongestOf(S) == CHOOSE s \in S : \A t \in S : Len(t) <= Len(s)

\* When AddBackoff has returned, every state that goes on backs off to its longest
\* proper suffix that goes on, and each arc but those with E|E leads to the longest
\* suffix of its n-gram that goes on.
LongestHistory ==
  stage = "convert" =>
    LET E == Labelling(Current)[EndLabel]
        inner == {p \in DOMAIN next : next[p] # <<>>}
        suffixes(p) == {q \in inner : IsSuffixOf(q, p)}
    IN \A p \in inner :
         /\ p # Root => next[p][Phi] = LongestOf(suffixes(p) \ {p})
         /\ \A l \in DOMAIN next[p] \ {Phi, E} : next[p][l] = LongestOf(suffixes(Append(p, l)))

\* A string of labels can be read from the start state.
AcceptedByAll(w) ==
  LET labels == Labellings
  IN FoldLeft(LAMBDA states, l : UNION {ResultStep(labels, q, l) : q \in states}, {StartState}, w) # {}

\* Every alignment of the data that was counted, and respects the limit on
\* insertions, gets a score from the machine that is trained.
AcceptsWhatWasSeen ==
  stage = "created" =>
    \A i \in DOMAIN data : \A v \in Lattice(data[i]) :
      IsWellFormed(opts.limit, opts.conjs, opts.segs, Spell(v)) => AcceptedByAll(v)

\* So does every other well-formed string of essential symbols, seen or not.
AcceptsEssential ==
  stage = "created" =>
    \A n \in 0 .. MaxWalk : \A x \in [1 .. n -> essential \ {StartLabel, EndLabel}] :
      LET w == <<StartLabel>> \o x \o <<EndLabel>>
      IN IsWellFormed(opts.limit, opts.conjs, opts.segs, Spell(w)) => AcceptedByAll(w)

\* Whatever path leads to a state of a model, each arc there has the features of
\* exactly the n-grams of the model that end with it on that path: those of the
\* trie all of them, and no feature that the path does not end with.  The
\* features of an n-gram do not depend on what comes before it.
FeaturesMatchHistory ==
  stage = "created" /\ opts.code # "noepshist" =>
    \A k \in DOMAIN models :
      LET m == models[k]
          grams == NgramsOfModel(k)
          paths[n \in Nat] ==
            IF n = 0 THEN {<<m.start, <<>>>>}
            ELSE UNION {{<<m.arcs[e[1]][v], Append(e[2], v)>> : v \in DOMAIN m.arcs[e[1]]}
                          : e \in paths[n - 1]}
      IN \A n \in 0 .. MaxWalk : \A e \in paths[n] : \A v \in DOMAIN m.arcs[e[1]] :
           LET path == Append(e[2], v)
               features == FeaturesAt(k, m.history[e[1]], v) \ {LengthIn, LengthOut}
           IN /\ features \subseteq NamesOf(k, path)
              /\ \A g \in grams \ {Root} : IsSuffixOf(g, path) => NamesOf(k, g) \subseteq features
=============================================================================
