----------------------------- MODULE Noepshist -----------------------------
(***************************************************************************)
(* The noepshist topology (create/noepshist/, train.R --noepshist.topology):*)
(* a state of the scoring machine is a history, the letters read and those *)
(* written without the epsilons, which may differ in number.  From the     *)
(* start state the machine is made state by state; a history that was not  *)
(* observed in the aligned data is backed off to one that was.             *)
(*                                                                         *)
(* A history "ab|x" is <<<<"a", "b">>, <<"x">>>>.  No program sets the       *)
(* option lengthPenaltyFeatures, so the length features never fire.        *)
(***************************************************************************)
EXTENDS CreateModel

VARIABLE histories    \* state_histories: those that ObservedHistoriesFilter lets through

NoHistory == <<<<>>, <<>>>>
HistoryLetter == STRING \cup {"S", "E"}
SomeHistory == Seq(HistoryLetter) \X Seq(HistoryLetter)

-----------------------------------------------------------------------------
(* Histories.                                                              *)

\* Fault: the letter nearest to the present is dropped.
DropLast(w) == IF w = <<>> THEN w ELSE Front(w)

DropFirst(w) == IF w = <<>> THEN w ELSE Tail(w)

\* BackoffIterator: a queue of histories; each lets in the two that are a letter
\* shorter, the longer one first, unless they have been on it.
BackoffIterator == [queue : Seq(SomeHistory), isOnQueue : SUBSET SomeHistory, values : Seq(SomeHistory)]
Shorter(hist) ==
  LET left0 == DropFirst(hist[1])
      right0 == DropFirst(hist[2])
  IN IF Len(left0) + Len(hist[2]) >= Len(hist[1]) + Len(right0)
     THEN <<<<left0, hist[2]>>, <<hist[1], right0>>>>
     ELSE <<<<hist[1], right0>>, <<left0, hist[2]>>>>
Advanced(it) ==
  LET both == Shorter(Head(it.queue))
      pushed == Kept(both, ToSet(both) \ it.isOnQueue)
  IN [queue |-> Tail(it.queue) \o pushed, isOnQueue |-> it.isOnQueue \cup ToSet(both),
      values |-> Append(it.values, Head(it.queue))]
Backoffs(hist) ==
  LET from[it \in BackoffIterator] ==
        IF it.queue = <<>> THEN it.values ELSE from[Advanced(it)]
  IN from[[queue |-> <<hist>>, isOnQueue |-> {hist}, values |-> <<>>]]

\* The first backoff among those that the filter lets through.
GetBackoffHistory(hist, allowed) ==
  LET backoffs == Backoffs(hist)
  IN backoffs[CHOOSE i \in DOMAIN backoffs :
                /\ backoffs[i] \in allowed
                /\ \A j \in 1 .. i - 1 : backoffs[j] \notin allowed]

\* Letters only: epsilons and annotations are not remembered.
ExtendHistory(hist, s) ==
  LET extended(w, c) == IF c = Eps THEN w ELSE Append(w, c)
  IN <<extended(hist[1], s.in), extended(hist[2], s.out)>>

\* HistoryFilter_Length.
ShortEnough == {h \in SomeHistory : Len(h[1]) < opts.order /\ Len(h[2]) < opts.order}

\* GetStateHistories: of the states of the trie, leaves excepted.
StateHistory(p) ==
  FoldLeft(LAMBDA hist, l : GetBackoffHistory(ExtendHistory(hist, table[l]), ShortEnough),
           NoHistory, p)
StateHistories == {StateHistory(p) : p \in {p \in DOMAIN trie : trie[p].labels # <<>>}}

\* Each symbol alone; the strings made of annotated symbols are no history.
UnigramHistories ==
  {ExtendHistory(NoHistory, table[l]) : l \in {l \in DOMAIN table : Nola(table[l]) = table[l]}}

\* InsertFeaturesFct_Default without a filter.
InsertFeatures(hist, s) == {<<1, ExtendHistory(b, s)>> : b \in ToSet(Backoffs(hist))}

-----------------------------------------------------------------------------
(* ScoringFstBuilder.                                                      *)

StartHistory == <<<<"S">>, <<"S">>>>
EndHistory == <<<<"E">>, <<"E">>>>

\* next: the machine, by history; stack: the queue states_todo.
StartScoring ==
  /\ stage = "count" /\ queue = <<>> /\ pair = Len(data) /\ opts.code = "noepshist"
  /\ IF trie[Root].labels = <<>>
     THEN stage' = "failed" /\ UNCHANGED <<essential, histories, next, stack, blocks>>
     ELSE /\ histories' = StateHistories \cup UnigramHistories \cup {NoHistory}
          /\ LET start == GetBackoffHistory(StartHistory, histories')
             IN next' = [h \in {start} |-> <<>>] /\ stack' = <<start>>
          /\ stage' = "noepshist"
          /\ blocks' = <<{}>>
          /\ essential' = DOMAIN table
  /\ ngrams' = NoTrie /\ trie' = NoTrie
  /\ UNCHANGED <<opts, data, pair, table, queue, models, fired>>

\* An arc for each symbol, to the state of the extended history or the end.
AddArcs ==
  /\ stage = "noepshist" /\ stack # <<>>
  /\ LET hist == Head(stack)
         target == Tabulated([l \in DOMAIN table |->
                     IF l = EndLabel THEN EndHistory
                     ELSE GetBackoffHistory(ExtendHistory(hist, table[l]), histories)])
         new == {l \in DOMAIN table :
                   target[l] \notin DOMAIN next /\ \A m \in 1 .. l - 1 : target[m] # target[l]}
         todo == Sorted(new \ {EndLabel})
     IN /\ next' = [h \in DOMAIN next \cup Range(target) |->
                      IF h = hist THEN target ELSE IF h \in DOMAIN next THEN next[h] ELSE <<>>]
        /\ stack' = Tail(stack) \o [i \in DOMAIN todo |-> target[todo[i]]]
        /\ blocks' = <<blocks[1] \cup UNION {InsertFeatures(hist, table[l]) : l \in DOMAIN table}>>
  /\ UNCHANGED <<opts, data, stage, pair, table, ngrams, trie, queue, essential, models, fired,
                 histories>>

\* S|S in front; composed with wellformed_fst, and with proj_up and proj_down,
\* which have S|S only there.
ScoringFst(start) ==
  LET init == <<NewStart, WfStart>>
      arcsAt(h) == IF h = NewStart THEN [l \in {StartLabel} |-> start]
                   ELSE Restrict(next[h], DOMAIN next[h] \ {StartLabel})
      after(q, l) == <<arcsAt(q[1])[l], WfArc(WfLimit, opts.conjs, opts.segs, q[2], table[l])>>
      arcsOf(q) == Tabulated([l \in {l \in DOMAIN arcsAt(q[1]) : ~ WfDead(after(q, l)[2])} |-> after(q, l)])
      all == (DOMAIN next \cup {NewStart}) \X WfStates
      states == Reached({init}, [q \in all |-> Range(arcsOf(q))], all)
  IN [start |-> init, arcs |-> Tabulated([q \in states |-> arcsOf(q)]),
      history |-> Tabulated([q \in states |-> q[1]])]

ComposeScoringFst ==
  /\ stage = "noepshist" /\ stack = <<>>
  /\ LET m == ScoringFst(GetBackoffHistory(StartHistory, histories))
     IN /\ models' = <<m>>
        /\ fired' = UNION {UNION {InsertFeatures(q[1], table[l]) : l \in DOMAIN m.arcs[q]}
                             : q \in DOMAIN m.arcs \ {m.start}}
  /\ stage' = "created"
  /\ next' = <<>>
  /\ UNCHANGED <<opts, data, pair, table, ngrams, trie, queue, essential, stack, blocks,
                 histories>>

NoepshistNext == StartScoring \/ AddArcs \/ ComposeScoringFst

\* The start of a creation, and its steps, of any topology.
TopologyInit == CreateInit /\ histories = {}
TopologyNext == (CreateNext /\ UNCHANGED histories) \/ NoepshistNext
topologyVars == <<createVars, histories>>

-----------------------------------------------------------------------------

IsSuffixHistory(h, path) == IsSuffixOf(h[1], path[1]) /\ IsSuffixOf(h[2], path[2])

\* However the paths to a state differ that was made once for all of them, an arc
\* has only features that fit every one of them: their letters are the last ones
\* read and the last ones written on the path, and all shorter histories fire too.
NoepsFeaturesMatch ==
  stage = "created" /\ opts.code = "noepshist" =>
    LET m == models[1]
        read(e, l) == ExtendHistory(e, table[l])
        paths[n \in Nat] ==
          IF n = 0 THEN {<<m.arcs[m.start][StartLabel], read(NoHistory, StartLabel)>>}
          ELSE UNION {{<<m.arcs[e[1]][l], read(e[2], l)>> : l \in DOMAIN m.arcs[e[1]]}
                        : e \in paths[n - 1]}
    IN \A n \in 0 .. MaxWalk + 1 : \A e \in paths[n] : \A l \in DOMAIN m.arcs[e[1]] :
         LET features == InsertFeatures(m.history[e[1]], table[l])
         IN /\ \A f \in features : IsSuffixHistory(f[2], read(e[2], l))
            /\ \A f \in features : \A i \in {1, 2} :
                 LET letter == IF i = 1 THEN table[l].in ELSE table[l].out
                     own == IF letter = Eps THEN 0 ELSE 1
                 IN Len(f[2][i]) > own => <<1, [f[2] EXCEPT ![i] = Tail(@)]>> \in features
=============================================================================
