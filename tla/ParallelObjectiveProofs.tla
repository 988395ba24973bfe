---------------------- MODULE ParallelObjectiveProofs ----------------------
(***************************************************************************)
(* The threads of the conditional objective function lose no update, stop  *)
(* early only when the value is infinite anyway, and evaluate the          *)
(* objective: for any number of pairs, of threads and of evaluations.      *)
(*                                                                         *)
(* Each thread has a block of consecutive pairs; together the blocks of    *)
(* the threads that were started are the pairs up to prevLast.  Within its *)
(* block a thread has finished the pairs before idx and not touched those  *)
(* after it, and what is in the sums of pair idx follows from its program  *)
(* counter.  A thread that is inside a lock holds a copy that is still     *)
(* current, so that writing it back loses nothing.                         *)
(***************************************************************************)
EXTENDS ParallelObjective, TLAPS

\* A thread has a pair in hand.
Busy == {"sum", "lockGrad", "updateGrad", "lockValue", "updateValue", "point"}

\* Pair p is in the block of thread w, which has no name of its own: it is what
\* the threads before w leave.
InBlock(w, p) == p <= last[w] /\ \A v \in Workers : v < w => last[v] < p

\* The blocks are disjoint, and cover the pairs up to prevLast.
Blocks ==
  /\ spawned \in 0 .. NumWorkers
  /\ spawned < NumWorkers => prevLast = spawned * BlockSize - 1
  /\ spawned = NumWorkers => prevLast = N - 1
  /\ \A w \in Workers : w < spawned =>
       /\ last[w] <= prevLast
       /\ \A v \in Workers : v < w => last[v] < idx[w]
  /\ \A p \in Pairs : p <= prevLast => \E w \in Workers : w < spawned /\ InBlock(w, p)
  /\ \A w \in Workers : w < spawned <=> wpc[w] # "none"
  /\ \A w \in Workers : wpc[w] \in Busy => idx[w] <= last[w]
  /\ \A w \in Workers : wpc[w] = "done" => w \in interrupted \/ last[w] < idx[w]

\* No sum of this evaluation has diverged, so that the gradients were never reset.
Converging == \A q \in Pairs : Abstract!Summed(outcome[q]) => ~ outcome[q].clamped /\ ~ outcome[q].unclamped

\* How often a pair is in the value, and its two sides in the gradients.
Counts(p, v, c, u) ==
  /\ value.terms[p] = v
  /\ Converging => gradients[<<p, "clamped">>] = c /\ gradients[<<p, "unclamped">>] = u

\* What the sums know of a pair before, after and while a thread works on it.
Untouched(p) == outcome[p] = Abstract!Skipped /\ Counts(p, 0, 0, 0)
Finished(p) ==
  \/ outcome[p] = Abstract!Ignored /\ Counts(p, 0, 0, 0)
  \/ outcome[p] \in Abstract!Sums /\ Counts(p, 1, 1, 1)
Current(w, p) ==
  /\ wpc[w] = "loop" \/ (wpc[w] = "sum" /\ side[w] = "clamped") => Untouched(p)
  /\ wpc[w] \in {"lockGrad", "updateGrad"} /\ side[w] = "clamped" =>
       outcome[p] \in Abstract!Sums /\ ~ outcome[p].unclamped /\ Counts(p, 0, 0, 0)
  /\ wpc[w] = "sum" /\ side[w] = "unclamped" =>
       outcome[p] \in Abstract!Sums /\ ~ outcome[p].unclamped /\ Counts(p, 0, 1, 0)
  /\ wpc[w] \in {"lockGrad", "updateGrad"} /\ side[w] = "unclamped" =>
       outcome[p] \in Abstract!Sums /\ Counts(p, 0, 1, 0)
  /\ wpc[w] \in {"lockValue", "updateValue"} =>
       outcome[p] \in Abstract!Sums /\ Counts(p, 0, 1, 1)
  /\ wpc[w] \in {"point", "done"} => Finished(p)

PairsOK == \A p \in Pairs :
  /\ prevLast < p => Untouched(p)
  /\ \A w \in Workers : w < spawned /\ InBlock(w, p) =>
       /\ p < idx[w] => Finished(p)
       /\ idx[w] < p => Untouched(p)
       /\ p = idx[w] => Current(w, p)

\* Some pair that is in the value has made it infinite, or no number.
HasKind(k) == \E p \in Pairs : value.terms[p] = 1 /\ Abstract!PairKind(outcome[p]) = k

\* The regulariser is in once; the kind of the value is that of its pairs.
RegOK == value.terms[Reg] = 1 /\ (Converging => gradients[<<Reg, "regulariser">>] = 1)
KindOK ==
  value.kind = IF HasKind("nan") \/ (HasKind("pinf") /\ HasKind("ninf")) THEN "nan"
               ELSE IF HasKind("pinf") THEN "pinf"
               ELSE IF HasKind("ninf") THEN "ninf"
               ELSE "fin"

\* A lock has one holder, and what the holder has read is still current.
Locks ==
  \A w \in Workers :
    /\ (wpc[w] = "updateGrad" <=> gradLock = w) /\ (wpc[w] = "updateGrad" => gradSnap[w] = gradients)
    /\ (wpc[w] = "updateValue" <=> valueLock = w) /\ (wpc[w] = "updateValue" => valueSnap[w] = value)

\* Where the main thread is, what the others may be doing.
Mains ==
  /\ main # "idle" => calls > 0
  /\ main \notin {"spawn", "join"} => \A w \in Workers : wpc[w] \in {"none", "done"}
  /\ main \notin {"spawn", "idle"} => spawned = NumWorkers
  /\ main = "spawn" => watcher = "none"
  /\ main \in {"idle", "finish"} => watcher \in {"none", "done"}

\* An interruption has a cause, which the value keeps.
Interrupts ==
  /\ main # "idle" /\ (interrupted # {} \/ watcher = "interrupt") => HasKind("pinf")
  /\ main = "idle" /\ interrupted # {} => value.kind \in {"one", "nan"}

\* All of it while an evaluation is under way.
Evaluating == main # "idle" => Blocks /\ PairsOK /\ RegOK /\ KindOK

-----------------------------------------------------------------------------

LEMMA Quotient ==
  ASSUME NEW n \in Nat, NEW k \in 1 .. n
  PROVE  n \div k \in Nat \ {0} /\ k * (n \div k) <= n
  OBVIOUS

LEMMA BlockSizes ==
  ASSUME numThreads \in ThreadCounts \cup {1}
  PROVE  /\ NumWorkers \in 1 .. N /\ N \in Nat
         /\ BlockSize \in Nat \ {0} /\ NumWorkers * BlockSize <= N
<1>1. NumWorkers \in 1 .. N /\ N \in Nat
  BY ConstantsAssumption DEF NumWorkers, Smaller
<1> QED BY <1>1, Quotient DEF BlockSize

LEMMA NextBlockEnd ==
  ASSUME numThreads \in ThreadCounts \cup {1}, Blocks, spawned < NumWorkers
  PROVE  /\ BlockEnd(spawned) \in 0 .. N - 1
         /\ prevLast < BlockEnd(spawned)
         /\ spawned + 1 < NumWorkers => BlockEnd(spawned) = (spawned + 1) * BlockSize - 1
         /\ spawned + 1 = NumWorkers => BlockEnd(spawned) = N - 1
<1> DEFINE k == NumWorkers
           b == BlockSize
<1>1. /\ k \in 1 .. N /\ N \in Nat /\ b \in Nat \ {0} /\ k * b <= N
      /\ spawned \in 0 .. k /\ spawned < k /\ prevLast = spawned * b - 1
  BY BlockSizes DEF Blocks
<1>2. BlockEnd(spawned) = IF spawned < k - 1 THEN prevLast + b ELSE N - 1
  BY DEF BlockEnd
<1> HIDE DEF k, b
<1>3. (spawned + 1) * b = spawned * b + b
  BY <1>1
<1>4. \A i \in 0 .. k : i * b <= k * b /\ i * b \in Nat
  BY <1>1
<1>5. spawned * b + b <= N
  BY <1>1, <1>3, <1>4
<1>6. spawned * b \in Nat
  BY <1>1, <1>4
<1>7. CASE spawned < k - 1
  BY <1>1, <1>2, <1>3, <1>5, <1>6, <1>7 DEF k, b
<1>8. CASE spawned = k - 1
  BY <1>1, <1>2, <1>3, <1>5, <1>6, <1>8 DEF k, b
<1> QED BY <1>1, <1>7, <1>8

-----------------------------------------------------------------------------
(* Types.                                                                  *)

ValueType == [kind : Kinds \cup {"one", "squashed"}, terms : [Abstract!ValueTerms -> Nat]]
GradientsType == [Abstract!GradientTerms -> Nat \cup {-1}]
SnapTypes == gradSnap \in [Workers -> GradientsType] /\ valueSnap \in [Workers -> ValueType]

LEMMA Constants == N \in Nat /\ N > 0 /\ MaxCalls \in Nat /\ Workers = Pairs /\ 0 \in Pairs
  BY ConstantsAssumption DEF Workers, Abstract!Pairs, Pairs

LEMMA NoTypes ==
  /\ NoTerms \in GradientsType /\ ZeroValue \in ValueType
  /\ Abstract!Nans \in GradientsType
  /\ InitialGradients \in GradientsType
  /\ [NoValueTerms EXCEPT ![Reg] = @ + 1] \in [Abstract!ValueTerms -> Nat]
<1>1. NoTerms \in [Abstract!GradientTerms -> {0}] /\ NoValueTerms \in [Abstract!ValueTerms -> {0}]
  BY DEF NoTerms, NoValueTerms, Abstract!NoTerms, Abstract!NoValueTerms
<1>2. NoTerms \in GradientsType /\ NoValueTerms \in [Abstract!ValueTerms -> Nat]
  BY <1>1 DEF GradientsType
<1>3. Abstract!Nans \in GradientsType
  BY DEF Abstract!Nans, GradientsType
<1>4. <<Reg, "regulariser">> \in Abstract!GradientTerms /\ Reg \in Abstract!ValueTerms
  BY DEF Abstract!GradientTerms, Abstract!ValueTerms, Reg
<1>5. InitialGradients \in GradientsType
  BY <1>1, <1>4 DEF InitialGradients, GradientsType
<1>6. [NoValueTerms EXCEPT ![Reg] = @ + 1] \in [Abstract!ValueTerms -> Nat]
  BY <1>1, <1>4
<1> QED BY <1>2, <1>3, <1>5, <1>6 DEF ZeroValue, ValueType, Kinds

LEMMA SkippedType == AllSkipped \in [Pairs -> Abstract!Outcomes]
  BY DEF AllSkipped, Abstract!Outcomes

LEMMA InitTypes == Init => TypeOK /\ SnapTypes
<1> SUFFICES ASSUME Init PROVE TypeOK /\ SnapTypes
  OBVIOUS
<1>1. /\ value \in ValueType /\ gradients \in GradientsType /\ outcome \in [Pairs -> Abstract!Outcomes]
  BY NoTypes, SkippedType DEF Init
<1>2. /\ side \in [Workers -> Abstract!Sides]
      /\ idx \in [Workers -> 0 .. N] /\ last \in [Workers -> 0 .. N - 1]
      /\ prevLast \in -1 .. N - 1 /\ spawned \in 0 .. N /\ nextVictim \in 0 .. N
      /\ calls \in 0 .. MaxCalls
  BY Constants DEF Init, Abstract!Sides
<1>3. SnapTypes
  BY NoTypes DEF Init, SnapTypes
<1> QED BY <1>1, <1>2, <1>3 DEF Init, TypeOK, ValueType, GradientsType

LEMMA BeginTypes == TypeOK /\ SnapTypes /\ Begin => TypeOK' /\ SnapTypes'
<1> SUFFICES ASSUME TypeOK, SnapTypes, Begin PROVE TypeOK' /\ SnapTypes'
  OBVIOUS
<1>1. /\ value' \in ValueType /\ gradients' \in GradientsType
      /\ outcome' \in [Pairs -> Abstract!Outcomes]
  BY NoTypes, SkippedType DEF Begin, ValueType, Kinds
<1>2. /\ side' \in [Workers -> Abstract!Sides]
      /\ idx' \in [Workers -> 0 .. N] /\ last' \in [Workers -> 0 .. N - 1]
      /\ prevLast' \in -1 .. N - 1 /\ spawned' \in 0 .. N /\ nextVictim' \in 0 .. N
  BY Constants DEF Begin, Abstract!Sides
<1>3. calls' \in 0 .. MaxCalls
  BY Constants DEF Begin, TypeOK
<1>4. SnapTypes'
  BY DEF Begin, SnapTypes
<1> QED BY <1>1, <1>2, <1>3, <1>4 DEF Begin, TypeOK, ValueType, GradientsType

LEMMA SpawnTypes == TypeOK /\ SnapTypes /\ Blocks /\ Spawn => TypeOK' /\ SnapTypes'
<1> SUFFICES ASSUME TypeOK, SnapTypes, Blocks, Spawn PROVE TypeOK' /\ SnapTypes'
  OBVIOUS
<1>1. spawned \in Nat /\ spawned < NumWorkers /\ spawned \in Workers /\ spawned + 1 \in 0 .. N
      /\ BlockEnd(spawned) \in 0 .. N - 1 /\ prevLast + 1 \in 0 .. N /\ prevLast' = BlockEnd(spawned)
  BY NextBlockEnd, BlockSizes DEF Spawn, Started, Workers, TypeOK
<1>2. BlockEnd(spawned) \in -1 .. N - 1
  BY <1>1, Constants
<1>3. /\ wpc' = [wpc EXCEPT ![spawned] = "loop"]
      /\ idx' = [idx EXCEPT ![spawned] = prevLast + 1]
      /\ last' = [last EXCEPT ![spawned] = BlockEnd(spawned)]
      /\ spawned' = spawned + 1
  BY DEF Spawn
<1>4. /\ wpc' \in [Workers -> {"none", "loop", "sum", "lockGrad", "updateGrad", "lockValue",
                               "updateValue", "point", "done", "endless"}]
      /\ idx' \in [Workers -> 0 .. N] /\ last' \in [Workers -> 0 .. N - 1]
      /\ spawned' \in 0 .. N
  BY <1>1, <1>3 DEF TypeOK
<1> QED BY <1>1, <1>2, <1>4 DEF Spawn, TypeOK, SnapTypes, watcherVars

LEMMA FinishTypes ==
  TypeOK /\ SnapTypes /\ value.kind \in Kinds /\ (FinishDivergent \/ FinishSquashed)
    => TypeOK' /\ SnapTypes'
<1> SUFFICES ASSUME TypeOK, SnapTypes, value.kind \in Kinds, FinishDivergent \/ FinishSquashed PROVE TypeOK' /\ SnapTypes'
  OBVIOUS
<1>1. value' \in ValueType
  BY DEF TypeOK, FinishDivergent, FinishSquashed, Kinds, ValueType
<1>2. gradients' \in GradientsType
  <2>1. CASE FinishDivergent
    BY <2>1, NoTypes DEF FinishDivergent
  <2>2. CASE FinishSquashed
    <3>1. value.kind \in {"fin", "ninf", "nan"} => gradients' \in {gradients, NoTerms, Abstract!Nans}
      BY <2>2 DEF FinishSquashed
    <3>2. value.kind \in {"fin", "ninf", "nan"}
      BY <2>2 DEF FinishSquashed, TypeOK, Kinds
    <3> QED BY <3>1, <3>2, NoTypes DEF TypeOK, GradientsType
  <2> QED BY <2>1, <2>2
<1> QED BY <1>1, <1>2 DEF FinishDivergent, FinishSquashed, TypeOK, ValueType, GradientsType,
           SnapTypes, spawnVars, workerVars, watcherVars

LEMMA StageTypes ==
  TypeOK /\ SnapTypes /\ ((\E n \in ThreadCounts : SetNumThreads(n)) \/ StartWatcher \/ JoinWorkers
                         \/ StopWatcher \/ InterruptWatcher \/ JoinWatcher)
    => TypeOK' /\ SnapTypes'
<1> SUFFICES ASSUME TypeOK, SnapTypes PROVE
      ((\E n \in ThreadCounts : SetNumThreads(n)) \/ StartWatcher \/ JoinWorkers
        \/ StopWatcher \/ InterruptWatcher \/ JoinWatcher) => TypeOK' /\ SnapTypes'
  OBVIOUS
<1>1. ASSUME NEW n \in ThreadCounts, SetNumThreads(n) PROVE TypeOK' /\ SnapTypes'
  BY <1>1 DEF SetNumThreads, TypeOK, SnapTypes, workerVars, watcherVars
<1>2. CASE StartWatcher
  BY <1>2 DEF StartWatcher, TypeOK, SnapTypes, spawnVars, workerVars
<1>3. CASE JoinWorkers \/ JoinWatcher
  BY <1>3 DEF JoinWorkers, JoinWatcher, TypeOK, SnapTypes, spawnVars, workerVars, watcherVars
<1>4. CASE StopWatcher \/ InterruptWatcher
  BY <1>4 DEF StopWatcher, InterruptWatcher, TypeOK, SnapTypes, spawnVars, workerVars
<1> QED BY <1>1, <1>2, <1>3, <1>4

LEMMA WatcherTypes == TypeOK /\ SnapTypes /\ Watcher => TypeOK' /\ SnapTypes'
<1> SUFFICES ASSUME TypeOK, SnapTypes, Watcher PROVE TypeOK' /\ SnapTypes'
  OBVIOUS
<1>1. /\ UNCHANGED <<main, calls, numThreads, prevLast, spawned, value, gradients, wpc, idx, last,
                     side, outcome, gradSnap, valueSnap, gradLock, valueLock, stop, wake>>
  BY DEF Watcher, WatcherChanges, mainVars, spawnVars, workerVars
<1>2. watcher' \in {"none", "check", "look", "interrupt", "sleep", "done"}
  BY DEF Watcher, WatcherChanges, CheckStop, LookAtValue, InterruptNext, Sleep
<1>3. interrupted' \subseteq Workers /\ nextVictim' \in 0 .. N
  <2>1. CASE InterruptNext
    <3>1. nextVictim \in 0 .. NumWorkers - 1 /\ nextVictim' = nextVictim + 1
          /\ interrupted' = interrupted \cup {nextVictim}
      BY <2>1 DEF InterruptNext, Started
    <3>2. NumWorkers \in 1 .. N /\ N \in Nat
      BY BlockSizes DEF TypeOK
    <3>3. nextVictim \in Workers /\ nextVictim + 1 \in 0 .. N
      BY <3>1, <3>2 DEF Workers
    <3> QED BY <3>1, <3>3 DEF TypeOK
  <2>2. CASE ~ InterruptNext
    <3>1. interrupted' = interrupted /\ nextVictim' = nextVictim
      BY <2>2 DEF Watcher, WatcherChanges, CheckStop, LookAtValue, Sleep
    <3> QED BY <3>1 DEF TypeOK
  <2> QED BY <2>1, <2>2
<1> QED BY <1>1, <1>2, <1>3 DEF TypeOK, SnapTypes

Places == {"none", "loop", "sum", "lockGrad", "updateGrad", "lockValue", "updateValue", "point", "done",
           "endless"}

LEMMA GotoType ==
  ASSUME TypeOK, NEW w \in Workers, NEW where \in Places, Goto(w, where)
  PROVE  /\ wpc' \in [Workers -> Places] /\ wpc'[w] = where
         /\ \A v \in Workers : v # w => wpc'[v] = wpc[v]
  BY DEF TypeOK, Goto, Places

\* The pair that a worker is at while it is busy.
LEMMA IdxType ==
  ASSUME TypeOK, Blocks, NEW w \in Workers, wpc[w] \in Busy
  PROVE  idx[w] \in Pairs /\ idx[w] <= last[w] /\ last[w] \in 0 .. N - 1 /\ InBlock(w, idx[w])
         /\ w < spawned /\ last[w] <= prevLast
<1>1. idx[w] \in 0 .. N /\ last[w] \in 0 .. N - 1 /\ idx[w] <= last[w]
  BY DEF TypeOK, Blocks
<1>2. w < spawned /\ last[w] <= prevLast
  BY DEF Blocks, Busy
<1>3. InBlock(w, idx[w])
  BY <1>1, <1>2 DEF Blocks, InBlock
<1> QED BY <1>1, <1>2, <1>3, Constants DEF Workers

LEMMA KindSumType ==
  ASSUME NEW a \in Kinds \cup {"one", "squashed"}, NEW b \in Kinds
  PROVE  KindSum(a, b) \in Kinds \cup {"one", "squashed"}
  BY DEF KindSum, Kinds

LEMMA TermType ==
  ASSUME NEW p \in Pairs, NEW s \in Abstract!Sides
  PROVE  <<p, s>> \in Abstract!GradientTerms /\ p \in Abstract!ValueTerms
  BY DEF Abstract!GradientTerms, Abstract!ValueTerms, Pairs

LEMMA BusyCurrent ==
  ASSUME TypeOK, Blocks, PairsOK, NEW w \in Workers, wpc[w] \in Busy
  PROVE  Current(w, idx[w])
  BY IdxType DEF PairsOK

\* What a sum makes of the outcome of its pair.
LEMMA SumPathsStep ==
  ASSUME TypeOK, Blocks, PairsOK, NEW w \in Workers, SumPaths(w)
  PROVE  /\ \A p \in Pairs : p # idx[w] => outcome'[p] = outcome[p]
         /\ outcome' \in [Pairs -> Abstract!Outcomes]
         /\ outcome'[idx[w]] \in Abstract!Sums
         /\ side[w] = "clamped" => ~ outcome'[idx[w]].unclamped
         /\ side[w] = "unclamped" =>
              /\ outcome[idx[w]] \in Abstract!Sums
              /\ outcome'[idx[w]].clamped = outcome[idx[w]].clamped
<1>1. PICK diverges \in BOOLEAN :
        outcome' = [outcome EXCEPT ![idx[w]] =
                      IF side[w] = "clamped"
                      THEN [status |-> "summed", clamped |-> diverges, unclamped |-> FALSE]
                      ELSE [outcome[idx[w]] EXCEPT !.unclamped = diverges]]
  BY DEF SumPaths, FoundDivergent
<1>2. wpc[w] = "sum" /\ wpc[w] \in Busy
  BY DEF SumPaths, At, Busy
<1>3. idx[w] \in Pairs /\ side[w] \in {"clamped", "unclamped"}
      /\ outcome \in [Pairs -> Abstract!Outcomes]
  BY <1>2, IdxType DEF TypeOK, Abstract!Sides
<1>4. side[w] = "unclamped" => outcome[idx[w]] \in Abstract!Sums
  BY <1>2, BusyCurrent DEF Current
<1>5. CASE side[w] = "clamped"
  <2> DEFINE o == [status |-> "summed", clamped |-> diverges, unclamped |-> FALSE]
  <2>1. o \in Abstract!Sums /\ o \in Abstract!Outcomes /\ ~ o.unclamped
    BY DEF Abstract!Sums, Abstract!Outcomes
  <2>2. outcome' = [outcome EXCEPT ![idx[w]] = o]
    BY <1>1, <1>5
  <2> HIDE DEF o
  <2> QED BY <1>3, <1>5, <2>1, <2>2
<1>6. CASE side[w] = "unclamped"
  <2> DEFINE o == [outcome[idx[w]] EXCEPT !.unclamped = diverges]
  <2>1. o \in Abstract!Sums /\ o \in Abstract!Outcomes /\ o.clamped = outcome[idx[w]].clamped
    BY <1>4, <1>6 DEF Abstract!Sums, Abstract!Outcomes
  <2>2. outcome' = [outcome EXCEPT ![idx[w]] = o]
    BY <1>1, <1>6
  <2> HIDE DEF o
  <2> QED BY <1>3, <1>4, <1>6, <2>1, <2>2
<1> QED BY <1>3, <1>5, <1>6

\* What the write under the mutex makes of the gradients.
LEMMA UpdateGradientsStep ==
  ASSUME TypeOK, SnapTypes, Locks, Blocks, NEW w \in Workers, UpdateGradients(w)
  PROVE  /\ gradients' \in GradientsType
         /\ Diverged(w) => gradients' = NoTerms
         /\ ~ Diverged(w) =>
              /\ gradients'[<<idx[w], side[w]>>] = gradients[<<idx[w], side[w]>>] + 1
              /\ \A t \in Abstract!GradientTerms : t # <<idx[w], side[w]>> => gradients'[t] = gradients[t]
<1>1. wpc[w] = "updateGrad" /\ wpc[w] \in Busy /\ gradSnap[w] = gradients
  BY DEF UpdateGradients, At, Locks, Busy
<1>2. gradients' = IF Diverged(w) THEN NoTerms
                   ELSE [gradients EXCEPT ![<<idx[w], side[w]>>] = @ + 1]
  BY <1>1 DEF UpdateGradients, UpdatedGradients
<1>3. <<idx[w], side[w]>> \in Abstract!GradientTerms
  BY <1>1, IdxType, TermType DEF TypeOK
<1>4. gradients \in GradientsType /\ NoTerms \in GradientsType
  BY NoTypes DEF TypeOK, GradientsType
<1> HIDE DEF GradientsType, Diverged
<1>5. ASSUME ~ Diverged(w) PROVE gradients' \in GradientsType
  <2>1. gradients[<<idx[w], side[w]>>] + 1 \in Nat \cup {-1}
    BY <1>3, <1>4 DEF GradientsType
  <2> QED BY <1>2, <1>3, <1>4, <1>5, <2>1 DEF GradientsType
<1> QED BY <1>2, <1>3, <1>4, <1>5 DEF GradientsType

\* What the write under the other mutex makes of the value.
LEMMA UpdateValueStep ==
  ASSUME TypeOK, SnapTypes, Locks, Blocks, NEW w \in Workers, UpdateValue(w)
  PROVE  /\ value' \in ValueType
         /\ value'.kind = KindSum(KindSum(value.kind, DistanceKind(outcome[idx[w]].clamped)),
                                  KindNegated(DistanceKind(outcome[idx[w]].unclamped)))
         /\ value'.terms[idx[w]] = value.terms[idx[w]] + 1
         /\ \A t \in Abstract!ValueTerms : t # idx[w] => value'.terms[t] = value.terms[t]
<1> DEFINE o == outcome[idx[w]]
           a == DistanceKind(o.clamped)
           b == KindNegated(DistanceKind(o.unclamped))
           k == KindSum(KindSum(value.kind, a), b)
<1>1. wpc[w] = "updateValue" /\ wpc[w] \in Busy /\ valueSnap[w] = value
  BY DEF UpdateValue, At, Locks, Busy
<1>2. value' = [kind |-> k, terms |-> [value.terms EXCEPT ![idx[w]] = @ + 1]]
  BY <1>1 DEF UpdateValue
<1>3. idx[w] \in Pairs /\ idx[w] \in Abstract!ValueTerms
  BY <1>1, IdxType DEF Abstract!ValueTerms, Pairs
<1>4. a \in Kinds /\ b \in Kinds
  BY DEF DistanceKind, KindNegated, Kinds
<1>5. value.kind \in Kinds \cup {"one", "squashed"} /\ value.terms \in [Abstract!ValueTerms -> Nat]
  BY DEF TypeOK
<1> HIDE DEF a, b
<1>6. k \in Kinds \cup {"one", "squashed"}
  <2>1. KindSum(value.kind, a) \in Kinds \cup {"one", "squashed"}
    BY <1>4, <1>5, KindSumType
  <2> QED BY <1>4, <2>1, KindSumType
<1> HIDE DEF k
<1>7. [value.terms EXCEPT ![idx[w]] = @ + 1] \in [Abstract!ValueTerms -> Nat]
  BY <1>3, <1>5
<1>8. value'.kind = k /\ value'.terms = [value.terms EXCEPT ![idx[w]] = @ + 1]
  BY <1>2
<1> QED BY <1>2, <1>3, <1>5, <1>6, <1>7, <1>8 DEF ValueType, k, a, b

LEMMA WorkerTypes ==
  ASSUME TypeOK, SnapTypes, Locks, Blocks, PairsOK, NEW w \in Workers, Worker(w)
  PROVE  TypeOK' /\ SnapTypes'
<1>1. /\ UNCHANGED <<main, calls, numThreads, prevLast, spawned, last, interrupted, watcher,
                     nextVictim, stop, wake>>
      /\ \E where \in Places : Goto(w, where)
  BY DEF Worker, StartPair, EndBlock, NoPaths, SumPaths, SumForEver, LockGradients, UpdateGradients, LockValue,
         UpdateValue, PassInterruptionPoint, EndInterrupted, mainVars, spawnVars, watcherVars, Places
<1>2. wpc' \in [Workers -> Places]
  BY <1>1, GotoType
<1>3. gradLock' \in Workers \cup {Nobody} /\ valueLock' \in Workers \cup {Nobody}
  BY DEF TypeOK, Worker, StartPair, EndBlock, NoPaths, SumPaths, SumForEver, LockGradients, UpdateGradients,
         LockValue, UpdateValue, PassInterruptionPoint, EndInterrupted, Unlocked
<1>4. side' \in [Workers -> Abstract!Sides]
  BY DEF TypeOK, Worker, StartPair, EndBlock, NoPaths, SumPaths, SumForEver, LockGradients, UpdateGradients,
         LockValue, UpdateValue, PassInterruptionPoint, EndInterrupted, Abstract!Sides
<1>5. idx' \in [Workers -> 0 .. N]
  <2>1. CASE PassInterruptionPoint(w)
    <3>1. wpc[w] \in Busy /\ idx' = [idx EXCEPT ![w] = @ + 1]
      BY <2>1 DEF PassInterruptionPoint, At, Busy
    <3>2. idx[w] \in 0 .. N /\ idx[w] <= last[w] /\ last[w] \in 0 .. N - 1 /\ N \in Nat
      BY <3>1, IdxType, Constants DEF TypeOK
    <3>3. idx[w] + 1 \in 0 .. N
      BY <3>2
    <3> QED BY <3>1, <3>3 DEF TypeOK
  <2>2. CASE ~ PassInterruptionPoint(w)
    <3>1. idx' = idx
      BY <2>2 DEF Worker, StartPair, EndBlock, NoPaths, SumPaths, SumForEver, LockGradients, UpdateGradients,
                  LockValue, UpdateValue, EndInterrupted
    <3> QED BY <3>1 DEF TypeOK
  <2> QED BY <2>1, <2>2
<1>6. outcome' \in [Pairs -> Abstract!Outcomes]
  <2>1. CASE SumPaths(w)
    BY <2>1, SumPathsStep
  <2>2. CASE NoPaths(w)
    <3>1. outcome' = [outcome EXCEPT ![idx[w]] = Abstract!Ignored] /\ Abstract!Ignored \in Abstract!Outcomes
      BY <2>2 DEF NoPaths, Abstract!Outcomes
    <3> QED BY <3>1 DEF TypeOK
  <2>3. CASE ~ SumPaths(w) /\ ~ NoPaths(w)
    <3>1. outcome' = outcome
      BY <2>3 DEF Worker, StartPair, EndBlock, SumForEver, LockGradients, UpdateGradients,
                  LockValue, UpdateValue, PassInterruptionPoint, EndInterrupted
    <3> QED BY <3>1 DEF TypeOK
  <2> QED BY <2>1, <2>2, <2>3
<1>7. gradients' \in GradientsType
  <2>1. CASE UpdateGradients(w)
    BY <2>1, UpdateGradientsStep
  <2>2. CASE ~ UpdateGradients(w)
    <3>1. gradients' = gradients
      BY <2>2 DEF Worker, StartPair, EndBlock, NoPaths, SumPaths, SumForEver, LockGradients,
                  LockValue, UpdateValue, PassInterruptionPoint, EndInterrupted
    <3> QED BY <3>1 DEF TypeOK, GradientsType
  <2> QED BY <2>1, <2>2
<1>8. value' \in ValueType
  <2>1. CASE UpdateValue(w)
    BY <2>1, UpdateValueStep
  <2>2. CASE ~ UpdateValue(w)
    <3>1. value' = value
      BY <2>2 DEF Worker, StartPair, EndBlock, NoPaths, SumPaths, SumForEver, LockGradients, UpdateGradients,
                  LockValue, PassInterruptionPoint, EndInterrupted
    <3> QED BY <3>1 DEF TypeOK, ValueType
  <2> QED BY <2>1, <2>2
<1>9. SnapTypes'
  <2>1. gradients \in GradientsType /\ value \in ValueType
    BY DEF TypeOK, GradientsType, ValueType
  <2>2. \/ gradSnap' = gradSnap
        \/ \E g \in {gradients, NoTerms} : gradSnap' = [gradSnap EXCEPT ![w] = g]
    BY DEF Worker, StartPair, EndBlock, NoPaths, SumPaths, SumForEver, LockGradients, UpdateGradients,
           LockValue, UpdateValue, PassInterruptionPoint, EndInterrupted
  <2>3. \/ valueSnap' = valueSnap
        \/ \E v \in {value, ZeroValue} : valueSnap' = [valueSnap EXCEPT ![w] = v]
    BY DEF Worker, StartPair, EndBlock, NoPaths, SumPaths, SumForEver, LockGradients, UpdateGradients,
           LockValue, UpdateValue, PassInterruptionPoint, EndInterrupted
  <2>4. gradSnap' \in [Workers -> GradientsType]
    BY <2>1, <2>2, NoTypes DEF SnapTypes
  <2>5. valueSnap' \in [Workers -> ValueType]
    BY <2>1, <2>3, NoTypes DEF SnapTypes
  <2> QED BY <2>4, <2>5 DEF SnapTypes
<1> QED BY <1>1, <1>2, <1>3, <1>4, <1>5, <1>6, <1>7, <1>8, <1>9 DEF TypeOK, Places, ValueType, GradientsType

-----------------------------------------------------------------------------
(* The mutexes, and the stages of an evaluation.                           *)

LEMMA NobodyType == Nobody \notin Workers
  BY DEF Nobody, Workers

\* A worker takes only a mutex that is free, and gives up only its own.
LEMMA WorkerLocks ==
  ASSUME TypeOK, SnapTypes, Locks, NEW w \in Workers, Worker(w)
  PROVE  Locks'
<1>1. /\ wpc' \in [Workers -> Places]
      /\ \A v \in Workers : v # w => wpc'[v] = wpc[v]
  <2>1. \E where \in Places : Goto(w, where)
    BY DEF Worker, StartPair, EndBlock, NoPaths, SumPaths, SumForEver, LockGradients, UpdateGradients, LockValue,
           UpdateValue, PassInterruptionPoint, EndInterrupted, Places
  <2> QED BY <2>1, GotoType
<1>2. SUFFICES ASSUME NEW v \in Workers
               PROVE  /\ (wpc'[v] = "updateGrad" <=> gradLock' = v)
                      /\ (wpc'[v] = "updateGrad" => gradSnap'[v] = gradients')
                      /\ (wpc'[v] = "updateValue" <=> valueLock' = v)
                      /\ (wpc'[v] = "updateValue" => valueSnap'[v] = value')
  BY DEF Locks
<1>3. /\ (wpc[v] = "updateGrad" <=> gradLock = v) /\ (wpc[v] = "updateGrad" => gradSnap[v] = gradients)
      /\ (wpc[v] = "updateValue" <=> valueLock = v) /\ (wpc[v] = "updateValue" => valueSnap[v] = value)
      /\ (wpc[w] = "updateGrad" <=> gradLock = w) /\ (wpc[w] = "updateValue" <=> valueLock = w)
  BY DEF Locks
<1>4. CASE StartPair(w) \/ EndBlock(w) \/ NoPaths(w) \/ SumPaths(w) \/ SumForEver(w)
           \/ PassInterruptionPoint(w) \/ EndInterrupted(w)
  <2>1. /\ UNCHANGED <<gradients, value, gradLock, valueLock, gradSnap, valueSnap>>
        /\ wpc[w] \notin {"updateGrad", "updateValue"}
        /\ \E where \in Places \ {"updateGrad", "updateValue"} : Goto(w, where)
    BY <1>4 DEF StartPair, EndBlock, NoPaths, SumPaths, SumForEver, PassInterruptionPoint, EndInterrupted, At, Places
  <2>2. wpc'[w] \notin {"updateGrad", "updateValue"}
    BY <2>1, GotoType
  <2> QED BY <1>1, <1>3, <2>1, <2>2
<1>5. CASE LockGradients(w)
  <2>1. /\ gradLock = Nobody /\ gradLock' = w /\ wpc[w] = "lockGrad" /\ wpc'[w] = "updateGrad"
        /\ gradSnap'[w] = gradients /\ (v # w => gradSnap'[v] = gradSnap[v])
        /\ UNCHANGED <<gradients, value, valueLock, valueSnap>>
    BY <1>5, GotoType DEF LockGradients, At, SnapTypes, Places
  <2> QED BY <1>1, <1>3, <2>1, NobodyType
<1>6. CASE UpdateGradients(w)
  <2>1. /\ gradLock' = Nobody /\ wpc[w] = "updateGrad"
        /\ UNCHANGED <<value, valueLock, valueSnap>>
        /\ \E where \in {"sum", "lockValue"} : Goto(w, where)
    BY <1>6 DEF UpdateGradients, At, Unlocked
  <2>2. wpc'[w] \in {"sum", "lockValue"}
    BY <2>1, GotoType DEF Places
  <2> QED BY <1>1, <1>3, <2>1, <2>2, NobodyType
<1>7. CASE LockValue(w)
  <2>1. /\ valueLock = Nobody /\ valueLock' = w /\ wpc[w] = "lockValue" /\ wpc'[w] = "updateValue"
        /\ valueSnap'[w] = value /\ (v # w => valueSnap'[v] = valueSnap[v])
        /\ UNCHANGED <<gradients, value, gradLock, gradSnap>>
    BY <1>7, GotoType DEF LockValue, At, SnapTypes, Places
  <2> QED BY <1>1, <1>3, <2>1, NobodyType
<1>8. CASE UpdateValue(w)
  <2>1. /\ valueLock' = Nobody /\ wpc[w] = "updateValue" /\ wpc'[w] = "point"
        /\ UNCHANGED <<gradients, gradLock, gradSnap>>
    BY <1>8, GotoType DEF UpdateValue, At, Places
  <2> QED BY <1>1, <1>3, <2>1, NobodyType
<1> QED BY <1>4, <1>5, <1>6, <1>7, <1>8 DEF Worker

LEMMA NoLocks ==
  ASSUME Locks, \A w \in Workers : wpc[w] \in {"none", "done"}, gradLock \in Workers \cup {Nobody},
         valueLock \in Workers \cup {Nobody}
  PROVE  gradLock = Nobody /\ valueLock = Nobody
  BY DEF Locks

\* main and the watcher touch neither the mutexes nor what has been read under one.
LEMMA OtherLocks ==
  ASSUME TypeOK, SnapTypes, Locks, Mains, main # "idle" => Blocks,
         (\E n \in ThreadCounts : SetNumThreads(n)) \/ Begin \/ Evaluate \/ Watcher
  PROVE  Locks'
<1>1. CASE Begin
  <2>1. gradLock = Nobody /\ valueLock = Nobody
    BY <1>1, NoLocks DEF Begin, Mains, TypeOK
  <2>2. \A w \in Workers : wpc'[w] = "none"
    BY <1>1 DEF Begin
  <2>3. gradLock' = Nobody /\ valueLock' = Nobody
    BY <1>1, <2>1 DEF Begin
  <2> QED BY <2>2, <2>3, NobodyType DEF Locks
<1>2. CASE Spawn
  <2>1. /\ \A w \in Workers : wpc'[w] = wpc[w] \/ (w = spawned /\ wpc'[w] = "loop")
        /\ UNCHANGED <<gradients, value, gradLock, valueLock, gradSnap, valueSnap>>
    BY <1>2 DEF Spawn, TypeOK
  <2>2. spawned \in Workers => wpc[spawned] \notin {"updateGrad", "updateValue"}
    <3>1. Blocks /\ spawned \in Nat
      BY <1>2 DEF Spawn, TypeOK
    <3> QED BY <3>1 DEF Blocks
  <2> QED BY <2>1, <2>2 DEF Locks
<1>3. CASE FinishDivergent \/ FinishSquashed
  <2>1. /\ \A w \in Workers : wpc[w] \in {"none", "done"}
        /\ UNCHANGED <<wpc, gradLock, valueLock>>
    BY <1>3 DEF FinishDivergent, FinishSquashed, Mains, workerVars
  <2> QED BY <2>1 DEF Locks
<1>4. CASE (\E n \in ThreadCounts : SetNumThreads(n)) \/ StartWatcher \/ JoinWorkers \/ StopWatcher
           \/ InterruptWatcher \/ JoinWatcher \/ Watcher
  <2>1. UNCHANGED <<wpc, gradients, value, gradLock, valueLock, gradSnap, valueSnap>>
    BY <1>4 DEF SetNumThreads, StartWatcher, JoinWorkers, StopWatcher, InterruptWatcher, JoinWatcher,
                Watcher, WatcherChanges, workerVars
  <2> QED BY <2>1 DEF Locks
<1> QED BY <1>1, <1>2, <1>3, <1>4 DEF Evaluate

LEMMA MainsStep ==
  ASSUME TypeOK, Mains, main # "idle" => Blocks, Next
  PROVE  Mains'
<1>1. ASSUME NEW n \in ThreadCounts, SetNumThreads(n) PROVE Mains'
  BY <1>1 DEF SetNumThreads, Mains, workerVars, watcherVars
<1>2. CASE Begin
  <2>1. calls' > 0
    BY <1>2 DEF Begin, TypeOK
  <2> QED BY <1>2, <2>1 DEF Begin, Mains
<1>3. CASE Spawn
  BY <1>3 DEF Spawn, Mains, watcherVars
<1>4. CASE StartWatcher
  BY <1>4 DEF StartWatcher, Mains, spawnVars, workerVars, NumWorkers, Inline
<1>5. CASE JoinWorkers
  <2>1. main = "join" /\ main' = "stop" /\ spawned = NumWorkers /\ Blocks
        /\ UNCHANGED <<calls, numThreads, spawned, wpc, watcher>>
    BY <1>5 DEF JoinWorkers, Mains, spawnVars, workerVars, watcherVars
  <2>2. ASSUME NEW w \in Workers PROVE wpc[w] \in {"none", "done"}
    <3>1. CASE w \in Started
      BY <1>5, <3>1 DEF JoinWorkers
    <3>2. CASE w \notin Started
      <4>1. ~ (w < spawned)
        BY <2>1, <3>2, BlockSizes DEF TypeOK, Started, Workers
      <4> QED BY <2>1, <4>1 DEF Blocks
    <3> QED BY <3>1, <3>2
  <2> QED BY <2>1, <2>2 DEF Mains, NumWorkers
<1>6. CASE StopWatcher \/ InterruptWatcher \/ JoinWatcher
  BY <1>6 DEF StopWatcher, InterruptWatcher, JoinWatcher, Mains, spawnVars, workerVars, watcherVars,
              NumWorkers
<1>7. CASE FinishDivergent \/ FinishSquashed
  BY <1>7 DEF FinishDivergent, FinishSquashed, Mains, spawnVars, workerVars, watcherVars
<1>8. CASE Watcher
  <2>1. UNCHANGED <<main, calls, numThreads, spawned, wpc>> /\ watcher \notin {"none", "done"}
    BY <1>8 DEF Watcher, WatcherChanges, CheckStop, LookAtValue, InterruptNext, Sleep, mainVars,
                spawnVars, workerVars
  <2> QED BY <2>1 DEF Mains, NumWorkers
<1>9. ASSUME NEW w \in Workers, Worker(w) PROVE Mains'
  <2>1. UNCHANGED <<main, calls, numThreads, spawned, watcher>> /\ wpc[w] \notin {"none", "done"}
    BY <1>9 DEF Worker, StartPair, EndBlock, NoPaths, SumPaths, SumForEver, LockGradients, UpdateGradients,
                LockValue, UpdateValue, PassInterruptionPoint, EndInterrupted, At, mainVars, spawnVars,
                watcherVars
  <2> QED BY <2>1 DEF Mains, NumWorkers
<1> QED BY <1>1, <1>2, <1>3, <1>4, <1>5, <1>6, <1>7, <1>8, <1>9 DEF Next, Evaluate

-----------------------------------------------------------------------------
(* The blocks.                                                             *)

LEMMA BeginBlocks == TypeOK /\ Begin => Blocks'
<1> SUFFICES ASSUME TypeOK, Begin PROVE Blocks'
  OBVIOUS
<1>1. /\ spawned' = 0 /\ prevLast' = -1 /\ numThreads' = numThreads
      /\ wpc' = [w \in Workers |-> "none"]
  BY DEF Begin
<1>2. NumWorkers' \in 1 .. N /\ BlockSize' \in Nat
  <2>1. NumWorkers' = NumWorkers /\ BlockSize' = BlockSize
    BY <1>1 DEF NumWorkers, BlockSize
  <2> QED BY <2>1, BlockSizes DEF TypeOK
<1>3. -1 = 0 * BlockSize' - 1
  <2>1. \A b \in Nat : -1 = 0 * b - 1
    OBVIOUS
  <2> QED BY <1>2, <2>1
<1>4. /\ spawned' \in 0 .. NumWorkers' /\ spawned' # NumWorkers'
      /\ \A w \in Workers : ~ (w < spawned') /\ wpc'[w] = "none"
      /\ \A p \in Pairs : ~ (p <= prevLast')
  BY <1>1, <1>2 DEF Workers, Pairs, Abstract!Pairs
<1> QED BY <1>1, <1>3, <1>4 DEF Blocks, Busy

LEMMA SpawnBlocks == TypeOK /\ Blocks /\ Spawn => Blocks'
<1> SUFFICES ASSUME TypeOK, Blocks, Spawn PROVE Blocks'
  OBVIOUS
<1> DEFINE end == BlockEnd(spawned)
<1>1. /\ wpc' = [wpc EXCEPT ![spawned] = "loop"]
      /\ idx' = [idx EXCEPT ![spawned] = prevLast + 1]
      /\ last' = [last EXCEPT ![spawned] = end]
      /\ prevLast' = end
      /\ spawned' = spawned + 1
      /\ numThreads' = numThreads /\ interrupted' = interrupted
  BY DEF Spawn
<1>2. /\ spawned \in 0 .. NumWorkers - 1 /\ NumWorkers \in 1 .. N /\ N \in Nat
      /\ NumWorkers' = NumWorkers /\ BlockSize' = BlockSize /\ spawned \in Workers
  BY <1>1, BlockSizes DEF Spawn, Started, NumWorkers, BlockSize, TypeOK, Workers
<1>3. /\ end \in 0 .. N - 1 /\ prevLast < end /\ prevLast \in Int
      /\ spawned + 1 < NumWorkers => end = (spawned + 1) * BlockSize - 1
      /\ spawned + 1 = NumWorkers => end = N - 1
  BY <1>2, NextBlockEnd DEF TypeOK
<1> HIDE DEF end
<1>4. /\ spawned' \in 0 .. NumWorkers'
      /\ spawned' < NumWorkers' => prevLast' = spawned' * BlockSize' - 1
      /\ spawned' = NumWorkers' => prevLast' = N - 1
  BY <1>1, <1>2, <1>3
<1>5. /\ wpc'[spawned] = "loop" /\ idx'[spawned] = prevLast + 1 /\ last'[spawned] = end
      /\ \A w \in Workers : w # spawned => wpc'[w] = wpc[w] /\ idx'[w] = idx[w] /\ last'[w] = last[w]
      /\ \A w \in Workers : last[w] \in Int /\ idx[w] \in Int /\ w \in Int
  BY <1>1, <1>2 DEF TypeOK, Workers
<1>6. \A w \in Workers : w < spawned <=> wpc[w] # "none"
  BY DEF Blocks
<1>7. \A w \in Workers : w < spawned =>
        last[w] <= prevLast /\ \A v \in Workers : v < w => last[v] < idx[w]
  BY DEF Blocks
<1>8. ASSUME NEW w \in Workers, w < spawned'
      PROVE  last'[w] <= prevLast' /\ \A v \in Workers : v < w => last'[v] < idx'[w]
  <2>1. CASE w = spawned
    BY <1>1, <1>2, <1>3, <1>5, <1>7, <2>1
  <2>2. CASE w < spawned
    BY <1>1, <1>2, <1>3, <1>5, <1>7, <2>2
  <2> QED BY <1>1, <1>2, <1>5, <1>8, <2>1, <2>2
<1>9. ASSUME NEW p \in Pairs, p <= prevLast'
      PROVE  \E w \in Workers : w < spawned' /\ InBlock(w, p)'
  <2>0. p \in Int
    BY DEF Pairs, Abstract!Pairs
  <2>1. CASE p <= prevLast
    <3>1. PICK w \in Workers : w < spawned /\ InBlock(w, p)
      BY <2>1 DEF Blocks
    <3>2. InBlock(w, p)'
      BY <1>2, <1>5, <3>1 DEF InBlock
    <3>3. w < spawned'
      BY <1>1, <1>2, <1>5, <3>1
    <3> QED BY <3>2, <3>3
  <2>2. CASE ~ (p <= prevLast)
    <3>1. \A v \in Workers : v < spawned => last'[v] < p
      BY <1>2, <1>3, <1>5, <1>7, <2>0, <2>2
    <3>2. PICK w \in Workers : w = spawned
      BY <1>2
    <3>3. p <= last'[w]
      BY <1>1, <1>5, <1>9, <3>2
    <3>4. InBlock(w, p)'
      BY <3>1, <3>2, <3>3 DEF InBlock
    <3> QED BY <1>1, <1>2, <3>2, <3>4
  <2> QED BY <2>1, <2>2
<1>10. \A w \in Workers : w < spawned' <=> wpc'[w] # "none"
  BY <1>1, <1>2, <1>5, <1>6
<1>11. \A w \in Workers : wpc'[w] \in Busy => idx'[w] <= last'[w]
  BY <1>5 DEF Blocks, Busy
<1>12. \A w \in Workers : wpc'[w] = "done" => w \in interrupted' \/ last'[w] < idx'[w]
  BY <1>1, <1>5 DEF Blocks
<1> QED BY <1>4, <1>8, <1>9, <1>10, <1>11, <1>12 DEF Blocks

LEMMA UnchangedBlocks ==
  ASSUME Blocks, UNCHANGED <<numThreads, spawned, prevLast, last, idx, wpc>>,
         interrupted \subseteq interrupted'
  PROVE  Blocks'
  BY DEF Blocks, InBlock, NumWorkers, BlockSize

LEMMA WorkerBlocks ==
  ASSUME TypeOK, Blocks, NEW w \in Workers, Worker(w)
  PROVE  Blocks'
<1>1. /\ UNCHANGED <<numThreads, spawned, prevLast, last, interrupted>>
      /\ \E where \in Places \ {"none"} : Goto(w, where)
      /\ wpc[w] # "none"
  BY DEF Worker, StartPair, EndBlock, NoPaths, SumPaths, SumForEver, LockGradients, UpdateGradients, LockValue,
         UpdateValue, PassInterruptionPoint, EndInterrupted, mainVars, spawnVars, watcherVars, Places, At
<1>2. wpc'[w] \in Places \ {"none"} /\ \A v \in Workers : v # w => wpc'[v] = wpc[v]
  BY <1>1, GotoType
<1>3. /\ \A v \in Workers : v # w => idx'[v] = idx[v]
      /\ idx'[w] = idx[w] \/ (idx'[w] = idx[w] + 1 /\ wpc'[w] = "loop")
      /\ idx[w] \in Int /\ \A v \in Workers : last[v] \in Int
  <2>1. idx' = idx \/ (idx' = [idx EXCEPT ![w] = @ + 1] /\ Goto(w, "loop"))
    BY DEF Worker, StartPair, EndBlock, NoPaths, SumPaths, SumForEver, LockGradients, UpdateGradients, LockValue,
         UpdateValue, PassInterruptionPoint, EndInterrupted
  <2> QED BY <2>1, GotoType DEF TypeOK, Places
<1>4. wpc'[w] \in Busy => idx'[w] <= last[w]
  <2>1. CASE StartPair(w)
    BY <2>1 DEF StartPair
  <2>2. CASE ~ StartPair(w) /\ wpc'[w] \in Busy
    <3>1. wpc[w] \in Busy \/ wpc'[w] = "done"
      <4>1. CASE EndBlock(w)
        BY <4>1, GotoType DEF EndBlock, Places
      <4>2. CASE ~ EndBlock(w)
        BY <2>2, <4>2 DEF Worker, NoPaths, SumPaths, SumForEver, LockGradients, UpdateGradients, LockValue,
           UpdateValue, PassInterruptionPoint, EndInterrupted, At, Busy
      <4> QED BY <4>1, <4>2
    <3>2. wpc[w] \in Busy /\ idx'[w] = idx[w]
      BY <1>3, <2>2, <3>1 DEF Busy
    <3> QED BY <3>2 DEF Blocks
  <2> QED BY <2>1, <2>2
<1>5. wpc'[w] = "done" => w \in interrupted \/ last[w] < idx'[w]
  <2>1. CASE EndBlock(w)
    BY <2>1, <1>3 DEF EndBlock
  <2>2. CASE EndInterrupted(w)
    BY <2>2 DEF EndInterrupted
  <2>3. CASE ~ EndBlock(w) /\ ~ EndInterrupted(w)
    <3>1. \E where \in Places \ {"none", "done"} : Goto(w, where)
      BY <2>3 DEF Worker, StartPair, NoPaths, SumPaths, SumForEver, LockGradients, UpdateGradients, LockValue,
         UpdateValue, PassInterruptionPoint, Places
    <3>2. wpc'[w] # "done"
      BY <3>1, GotoType
    <3> QED BY <3>2
  <2> QED BY <2>1, <2>2, <2>3
<1>6. \A v \in Workers : v < spawned =>
        last[v] <= prevLast /\ \A u \in Workers : u < v => last[u] < idx'[v]
  <2>1. ASSUME NEW v \in Workers, v < spawned, NEW u \in Workers, u < v PROVE last[u] < idx'[v]
    <3>1. last[u] < idx[v]
      BY <2>1 DEF Blocks
    <3> QED BY <1>3, <3>1
  <2> QED BY <2>1 DEF Blocks
<1>7. NumWorkers' = NumWorkers /\ BlockSize' = BlockSize
  BY <1>1 DEF NumWorkers, BlockSize
<1>8. \A p \in Pairs, v \in Workers : InBlock(v, p)' <=> InBlock(v, p)
  BY <1>1 DEF InBlock
<1>9. \A v \in Workers : v < spawned' <=> wpc'[v] # "none"
  BY <1>1, <1>2 DEF Blocks
<1>10. \A v \in Workers : wpc'[v] \in Busy => idx'[v] <= last[v]
  BY <1>2, <1>3, <1>4 DEF Blocks
<1>11. \A v \in Workers : wpc'[v] = "done" => v \in interrupted' \/ last'[v] < idx'[v]
  BY <1>1, <1>2, <1>3, <1>5 DEF Blocks
<1>12. /\ spawned' \in 0 .. NumWorkers'
       /\ spawned' < NumWorkers' => prevLast' = spawned' * BlockSize' - 1
       /\ spawned' = NumWorkers' => prevLast' = N - 1
  BY <1>1, <1>7 DEF Blocks
<1>13. \A p \in Pairs : p <= prevLast' => \E v \in Workers : v < spawned' /\ InBlock(v, p)'
  BY <1>1, <1>8 DEF Blocks
<1> QED BY <1>1, <1>6, <1>9, <1>10, <1>11, <1>12, <1>13 DEF Blocks

-----------------------------------------------------------------------------
(* The pairs.                                                              *)

\* A step that leaves what is known of a pair as it is.
SamePair(p) ==
  /\ outcome'[p] = outcome[p] /\ value'.terms[p] = value.terms[p]
  /\ Converging' => /\ Converging
                    /\ gradients'[<<p, "clamped">>] = gradients[<<p, "clamped">>]
                    /\ gradients'[<<p, "unclamped">>] = gradients[<<p, "unclamped">>]

LEMMA SameCounts ==
  ASSUME NEW p, NEW v, NEW c, NEW u, SamePair(p), Counts(p, v, c, u)
  PROVE  Counts(p, v, c, u)'
  BY DEF SamePair, Counts

LEMMA SamePairKept ==
  ASSUME NEW p, SamePair(p)
  PROVE  /\ Untouched(p) => Untouched(p)'
         /\ Finished(p) => Finished(p)'
         /\ \A w \in Workers : wpc'[w] = wpc[w] /\ side'[w] = side[w] /\ Current(w, p) => Current(w, p)'
<1>1. outcome'[p] = outcome[p]
  BY DEF SamePair
<1>2. Untouched(p) => Untouched(p)'
  BY <1>1, SameCounts DEF Untouched
<1>3. Finished(p) => Finished(p)'
  BY <1>1, SameCounts DEF Finished
<1>4. ASSUME NEW w \in Workers, wpc'[w] = wpc[w], side'[w] = side[w], Current(w, p)
      PROVE  Current(w, p)'
  BY <1>1, <1>2, <1>3, <1>4, SameCounts DEF Current
<1> QED BY <1>2, <1>3, <1>4

\* A worker disturbs no pair but its own.
LEMMA OwnPair ==
  ASSUME TypeOK, Blocks, PairsOK, NEW w \in Workers, w < spawned,
         UNCHANGED <<spawned, prevLast, last, idx>>,
         \A v \in Workers : v # w => wpc'[v] = wpc[v] /\ side'[v] = side[v],
         \A p \in Pairs : ~ (p = idx[w] /\ InBlock(w, p)) => SamePair(p),
         \A p \in Pairs : p = idx[w] /\ InBlock(w, p) /\ Current(w, p) => Current(w, p)'
  PROVE  PairsOK'
<1> SUFFICES ASSUME NEW p \in Pairs
             PROVE  /\ prevLast' < p => Untouched(p)'
                    /\ \A v \in Workers : v < spawned' /\ InBlock(v, p)' =>
                         /\ p < idx'[v] => Finished(p)'
                         /\ idx'[v] < p => Untouched(p)'
                         /\ p = idx'[v] => Current(v, p)'
  BY DEF PairsOK
<1>1. p \in Int /\ prevLast \in Int /\ \A v \in Workers : v \in Int /\ idx[v] \in Int /\ last[v] \in Int
  BY DEF TypeOK, Workers, Pairs, Abstract!Pairs
<1>2. /\ prevLast < p => Untouched(p)
      /\ \A v \in Workers : v < spawned /\ InBlock(v, p) =>
           /\ p < idx[v] => Finished(p)
           /\ idx[v] < p => Untouched(p)
           /\ p = idx[v] => Current(v, p)
  BY DEF PairsOK
<1>3. ASSUME prevLast < p PROVE Untouched(p)'
  <2>1. ~ (p = idx[w] /\ InBlock(w, p))
    BY <1>1, <1>3 DEF InBlock, Blocks
  <2> QED BY <1>2, <1>3, <2>1, SamePairKept
<1>4. ASSUME NEW v \in Workers, v < spawned, InBlock(v, p)
      PROVE  /\ p < idx[v] => Finished(p)'
             /\ idx[v] < p => Untouched(p)'
             /\ p = idx[v] => Current(v, p)'
  <2>1. CASE v = w
    <3>1. CASE p = idx[w]
      BY <1>1, <1>2, <1>4, <2>1, <3>1
    <3>2. CASE p # idx[w]
      BY <1>2, <1>4, <2>1, <3>2, SamePairKept
    <3> QED BY <3>1, <3>2
  <2>2. CASE v # w
    <3>1. ~ InBlock(w, p)
      BY <1>1, <1>4, <2>2 DEF InBlock
    <3>2. SamePair(p)
      BY <3>1
    <3>3. wpc'[v] = wpc[v] /\ side'[v] = side[v]
      BY <2>2
    <3> QED BY <1>2, <1>4, <3>2, <3>3, SamePairKept
  <2> QED BY <2>1, <2>2
<1>5. \A v \in Workers : InBlock(v, p)' <=> InBlock(v, p)
  BY DEF InBlock
<1> QED BY <1>3, <1>4, <1>5

LEMMA AllSame ==
  ASSUME UNCHANGED <<outcome, value, gradients>>
  PROVE  \A p \in Pairs : SamePair(p)
  BY DEF SamePair, Converging

\* An outcome that gets worse does not make an evaluation converge.
LEMMA ConvergingBefore ==
  ASSUME NEW q \in Pairs, \A p \in Pairs : p # q => outcome'[p] = outcome[p],
         Abstract!Summed(outcome[q]) =>
           /\ Abstract!Summed(outcome'[q])
           /\ outcome[q].clamped => outcome'[q].clamped
           /\ outcome[q].unclamped => outcome'[q].unclamped,
         Converging'
  PROVE  Converging
<1> SUFFICES ASSUME NEW p \in Pairs, Abstract!Summed(outcome[p])
             PROVE  ~ outcome[p].clamped /\ ~ outcome[p].unclamped
  BY DEF Converging
<1>1. CASE p = q
  BY <1>1 DEF Converging
<1>2. CASE p # q
  <2>1. outcome'[p] = outcome[p]
    BY <1>2
  <2>2. Abstract!Summed(outcome'[p])
    BY <2>1 DEF Abstract!Summed
  <2> QED BY <2>1, <2>2 DEF Converging
<1> QED BY <1>1, <1>2

LEMMA OutcomeKinds ==
  /\ ~ Abstract!Summed(Abstract!Skipped) /\ ~ Abstract!Summed(Abstract!Ignored)
  /\ \A o \in Abstract!Sums : Abstract!Summed(o) /\ o.clamped \in BOOLEAN /\ o.unclamped \in BOOLEAN
  /\ Abstract!Skipped # Abstract!Ignored
  BY DEF Abstract!Summed, Abstract!Skipped, Abstract!Ignored, Abstract!Sums

LEMMA WorkerConverging ==
  ASSUME TypeOK, Blocks, PairsOK, NEW w \in Workers, Worker(w)
  PROVE  Converging' => Converging
<1>1. CASE NoPaths(w)
  <2>1. /\ wpc[w] = "sum" /\ wpc[w] \in Busy /\ side[w] = "clamped"
        /\ outcome' = [outcome EXCEPT ![idx[w]] = Abstract!Ignored]
    BY <1>1 DEF NoPaths, At, Busy
  <2>2. idx[w] \in Pairs /\ outcome[idx[w]] = Abstract!Skipped
    BY <2>1, IdxType, BusyCurrent DEF Current, Untouched
  <2>3. \A p \in Pairs : p # idx[w] => outcome'[p] = outcome[p]
    BY <2>1 DEF TypeOK
  <2> QED BY <2>2, <2>3, OutcomeKinds, ConvergingBefore
<1>2. CASE SumPaths(w)
  <2>1. wpc[w] = "sum" /\ wpc[w] \in Busy /\ side[w] \in {"clamped", "unclamped"}
    BY <1>2 DEF SumPaths, At, Busy, TypeOK, Abstract!Sides
  <2>2. /\ idx[w] \in Pairs
        /\ side[w] = "clamped" => outcome[idx[w]] = Abstract!Skipped
        /\ side[w] = "unclamped" => ~ outcome[idx[w]].unclamped
    BY <2>1, IdxType, BusyCurrent DEF Current, Untouched
  <2>3. Abstract!Summed(outcome[idx[w]]) =>
           /\ Abstract!Summed(outcome'[idx[w]])
           /\ outcome[idx[w]].clamped => outcome'[idx[w]].clamped
           /\ outcome[idx[w]].unclamped => outcome'[idx[w]].unclamped
    BY <1>2, <2>1, <2>2, SumPathsStep, OutcomeKinds
  <2> QED BY <1>2, <2>2, <2>3, SumPathsStep, ConvergingBefore
<1>3. CASE ~ NoPaths(w) /\ ~ SumPaths(w)
  <2>1. outcome' = outcome
    BY <1>3 DEF Worker, StartPair, EndBlock, SumForEver, LockGradients, UpdateGradients, LockValue, UpdateValue,
                PassInterruptionPoint, EndInterrupted
  <2> QED BY <2>1 DEF Converging
<1> QED BY <1>1, <1>2, <1>3

\* The steps that change nothing but the worker's place.
LEMMA MovePairs ==
  ASSUME TypeOK, Blocks, PairsOK, NEW w \in Workers,
         \/ StartPair(w) \/ EndBlock(w) \/ SumForEver(w) \/ LockGradients(w) \/ LockValue(w)
         \/ EndInterrupted(w)
  PROVE  PairsOK'
<1>1. /\ UNCHANGED <<spawned, prevLast, last, idx, outcome, value, gradients>>
      /\ \A v \in Workers : v # w => wpc'[v] = wpc[v] /\ side'[v] = side[v]
      /\ wpc[w] # "none"
  BY DEF StartPair, EndBlock, SumForEver, LockGradients, LockValue, EndInterrupted, Goto, At, TypeOK, mainVars, spawnVars
<1>2. w < spawned
  BY <1>1 DEF Blocks
<1>3. \A p \in Pairs : SamePair(p)
  BY <1>1, AllSame
<1>4. ASSUME NEW p \in Pairs, p = idx[w], InBlock(w, p), Current(w, p) PROVE Current(w, p)'
  <2>1. /\ (Untouched(p) => Untouched(p)') /\ (Finished(p) => Finished(p)')
        /\ \A v, c, u : Counts(p, v, c, u) => Counts(p, v, c, u)'
        /\ outcome'[p] = outcome[p]
    BY <1>1, <1>3, SamePairKept, SameCounts
  <2>2. CASE StartPair(w)
    <3>1. wpc[w] = "loop" /\ wpc'[w] = "sum" /\ side'[w] = "clamped"
      BY <2>2 DEF StartPair, At, Goto, TypeOK
    <3>2. Untouched(p)
      BY <1>4, <3>1 DEF Current
    <3>3. Untouched(p)'
      BY <1>3, <3>2, SamePairKept
    <3> QED BY <3>1, <3>3 DEF Current
  <2>3. CASE EndBlock(w)
    <3>1. last[w] < idx[w] /\ idx[w] <= last[w]
      BY <1>4, <2>3 DEF EndBlock, InBlock
    <3>2. last[w] \in Int /\ idx[w] \in Int
      BY DEF TypeOK
    <3> QED BY <3>1, <3>2
  <2>4. CASE LockGradients(w)
    <3>1. wpc[w] = "lockGrad" /\ wpc'[w] = "updateGrad" /\ side'[w] = side[w]
      BY <2>4 DEF LockGradients, At, Goto, TypeOK
    <3> QED BY <1>4, <2>1, <3>1 DEF Current
  <2>5. CASE LockValue(w)
    <3>1. wpc[w] = "lockValue" /\ wpc'[w] = "updateValue" /\ side'[w] = side[w]
      BY <2>5 DEF LockValue, At, Goto, TypeOK
    <3> QED BY <1>4, <2>1, <3>1 DEF Current
  <2>6. CASE EndInterrupted(w)
    <3>1. wpc[w] = "point" /\ wpc'[w] = "done" /\ side'[w] = side[w]
      BY <2>6 DEF EndInterrupted, At, Goto, TypeOK
    <3>2. Finished(p)
      BY <1>4, <3>1 DEF Current
    <3>3. Finished(p)'
      BY <1>3, <3>2, SamePairKept
    <3> QED BY <3>1, <3>3 DEF Current
  <2>7. CASE SumForEver(w)
    BY <2>7 DEF SumForEver, Goto, TypeOK, Current
  <2> QED BY <2>2, <2>3, <2>4, <2>5, <2>6, <2>7
<1> QED BY <1>1, <1>2, <1>3, <1>4, OwnPair

LEMMA NoPathsPairs ==
  ASSUME TypeOK, Blocks, PairsOK, NEW w \in Workers, NoPaths(w)
  PROVE  PairsOK'
<1>1. /\ UNCHANGED <<spawned, prevLast, last, idx, side, value, gradients>>
      /\ \A v \in Workers : v # w => wpc'[v] = wpc[v]
      /\ wpc[w] = "sum" /\ wpc[w] \in Busy /\ wpc'[w] = "point" /\ side[w] = "clamped"
      /\ outcome' = [outcome EXCEPT ![idx[w]] = Abstract!Ignored]
  BY DEF NoPaths, At, Goto, TypeOK, mainVars, spawnVars, Busy
<1>2. /\ w < spawned /\ idx[w] \in Pairs /\ InBlock(w, idx[w]) /\ Current(w, idx[w])
  BY <1>1, IdxType, BusyCurrent
<1>3. /\ \A p \in Pairs : p # idx[w] => outcome'[p] = outcome[p]
      /\ outcome'[idx[w]] = Abstract!Ignored
  BY <1>1, <1>2 DEF TypeOK
<1>4. Untouched(idx[w])
  BY <1>1, <1>2 DEF Current
<1>5. Converging' => Converging
  BY WorkerConverging DEF Worker
<1>6. \A p \in Pairs : ~ (p = idx[w] /\ InBlock(w, p)) => SamePair(p)
  BY <1>1, <1>2, <1>3, <1>5 DEF SamePair
<1>7. ASSUME NEW p \in Pairs, p = idx[w] PROVE Current(w, p)'
  <2>1. Counts(p, 0, 0, 0)'
    BY <1>1, <1>4, <1>5, <1>7 DEF Untouched, Counts
  <2>2. Finished(p)'
    BY <1>3, <1>7, <2>1 DEF Finished
  <2> QED BY <1>1, <2>2 DEF Current
<1> QED BY <1>1, <1>2, <1>6, <1>7, OwnPair

LEMMA SumPathsPairs ==
  ASSUME TypeOK, Blocks, PairsOK, NEW w \in Workers, SumPaths(w)
  PROVE  PairsOK'
<1>1. /\ UNCHANGED <<spawned, prevLast, last, idx, side, value, gradients>>
      /\ \A v \in Workers : v # w => wpc'[v] = wpc[v]
      /\ wpc[w] = "sum" /\ wpc[w] \in Busy /\ wpc'[w] = "lockGrad"
  BY DEF SumPaths, At, Goto, TypeOK, mainVars, spawnVars, Busy
<1>2. /\ w < spawned /\ idx[w] \in Pairs /\ InBlock(w, idx[w]) /\ Current(w, idx[w])
      /\ side[w] \in {"clamped", "unclamped"}
  BY <1>1, IdxType, BusyCurrent DEF TypeOK, Abstract!Sides
<1>3. /\ side[w] = "clamped" => Untouched(idx[w])
      /\ side[w] = "unclamped" => outcome[idx[w]] \in Abstract!Sums /\ ~ outcome[idx[w]].unclamped
                                /\ Counts(idx[w], 0, 1, 0)
  BY <1>1, <1>2 DEF Current
<1>4. Converging' => Converging
  BY WorkerConverging DEF Worker
<1>5. \A p \in Pairs : ~ (p = idx[w] /\ InBlock(w, p)) => SamePair(p)
  BY <1>1, <1>2, <1>4, SumPathsStep DEF SamePair
<1>6. ASSUME NEW p \in Pairs, p = idx[w] PROVE Current(w, p)'
  <2>1. outcome'[p] \in Abstract!Sums /\ (side'[w] = "clamped" => ~ outcome'[p].unclamped)
    BY <1>1, <1>6, SumPathsStep
  <2>2. CASE side[w] = "clamped"
    <3>1. Counts(p, 0, 0, 0)'
      BY <1>1, <1>3, <1>4, <1>6, <2>2 DEF Untouched, Counts
    <3> QED BY <1>1, <2>1, <2>2, <3>1 DEF Current
  <2>3. CASE side[w] = "unclamped"
    <3>1. Counts(p, 0, 1, 0)'
      BY <1>1, <1>3, <1>4, <1>6, <2>3 DEF Counts
    <3> QED BY <1>1, <2>1, <2>3, <3>1 DEF Current
  <2> QED BY <1>2, <2>2, <2>3
<1> QED BY <1>1, <1>2, <1>5, <1>6, OwnPair

LEMMA UpdateGradientsPairs ==
  ASSUME TypeOK, SnapTypes, Locks, Blocks, PairsOK, NEW w \in Workers, UpdateGradients(w)
  PROVE  PairsOK'
<1>1. /\ UNCHANGED <<spawned, prevLast, last, idx, outcome, value>>
      /\ \A v \in Workers : v # w => wpc'[v] = wpc[v] /\ side'[v] = side[v]
      /\ wpc[w] = "updateGrad" /\ wpc[w] \in Busy
      /\ side[w] = "clamped" => wpc'[w] = "sum" /\ side'[w] = "unclamped"
      /\ side[w] # "clamped" => wpc'[w] = "lockValue"
  BY DEF UpdateGradients, At, Goto, TypeOK, mainVars, spawnVars, Busy
<1>2. /\ w < spawned /\ idx[w] \in Pairs /\ InBlock(w, idx[w]) /\ Current(w, idx[w])
      /\ side[w] \in {"clamped", "unclamped"}
  BY <1>1, IdxType, BusyCurrent DEF TypeOK, Abstract!Sides
<1>3. outcome[idx[w]] \in Abstract!Sums
  BY <1>1, <1>2 DEF Current
<1>4. Converging' => Converging
  BY <1>1 DEF Converging
<1>5. Diverged(w) => ~ Converging'
  <2>1. Abstract!Summed(outcome'[idx[w]]) /\ outcome' = outcome
    BY <1>1, <1>3, OutcomeKinds
  <2> QED BY <1>2, <2>1 DEF Converging, Diverged
<1>6. Converging' =>
        /\ gradients'[<<idx[w], side[w]>>] = gradients[<<idx[w], side[w]>>] + 1
        /\ \A t \in Abstract!GradientTerms : t # <<idx[w], side[w]>> => gradients'[t] = gradients[t]
  BY <1>5, UpdateGradientsStep
<1>7. \A p \in Pairs : <<p, "clamped">> \in Abstract!GradientTerms /\ <<p, "unclamped">> \in Abstract!GradientTerms
  BY TermType DEF Abstract!Sides
<1>8. \A p \in Pairs : ~ (p = idx[w] /\ InBlock(w, p)) => SamePair(p)
  <2> SUFFICES ASSUME NEW p \in Pairs, p # idx[w] PROVE SamePair(p)
    BY <1>2
  <2>1. <<p, "clamped">> # <<idx[w], side[w]>> /\ <<p, "unclamped">> # <<idx[w], side[w]>>
    OBVIOUS
  <2> QED BY <1>1, <1>4, <1>6, <1>7, <2>1 DEF SamePair
<1>9. ASSUME NEW p \in Pairs, p = idx[w] PROVE Current(w, p)'
  <2>1. CASE side[w] = "clamped"
    <3>1. Counts(p, 0, 0, 0) /\ ~ outcome[p].unclamped
      BY <1>1, <1>2, <1>9, <2>1 DEF Current
    <3>2. Converging' => gradients'[<<p, "clamped">>] = 1 /\ gradients'[<<p, "unclamped">>] = 0
      <4>1. <<p, "unclamped">> # <<idx[w], side[w]>>
        BY <2>1
      <4> QED BY <1>4, <1>6, <1>7, <1>9, <2>1, <3>1, <4>1 DEF Counts
    <3>3. Counts(p, 0, 1, 0)'
      BY <1>1, <3>1, <3>2 DEF Counts
    <3> QED BY <1>1, <1>3, <1>9, <2>1, <3>1, <3>3 DEF Current
  <2>2. CASE side[w] = "unclamped"
    <3>1. Counts(p, 0, 1, 0)
      BY <1>1, <1>2, <1>9, <2>2 DEF Current
    <3>2. Converging' => gradients'[<<p, "clamped">>] = 1 /\ gradients'[<<p, "unclamped">>] = 1
      <4>1. <<p, "clamped">> # <<idx[w], side[w]>>
        BY <2>2
      <4> QED BY <1>4, <1>6, <1>7, <1>9, <2>2, <3>1, <4>1 DEF Counts
    <3>3. Counts(p, 0, 1, 1)'
      BY <1>1, <3>1, <3>2 DEF Counts
    <3> QED BY <1>1, <1>3, <1>9, <2>2, <3>3 DEF Current
  <2> QED BY <1>2, <2>1, <2>2
<1> QED BY <1>1, <1>2, <1>8, <1>9, OwnPair

LEMMA UpdateValuePairs ==
  ASSUME TypeOK, SnapTypes, Locks, Blocks, PairsOK, NEW w \in Workers, UpdateValue(w)
  PROVE  PairsOK'
<1>1. /\ UNCHANGED <<spawned, prevLast, last, idx, side, outcome, gradients>>
      /\ \A v \in Workers : v # w => wpc'[v] = wpc[v]
      /\ wpc[w] = "updateValue" /\ wpc[w] \in Busy /\ wpc'[w] = "point"
  BY DEF UpdateValue, At, Goto, TypeOK, mainVars, spawnVars, Busy
<1>2. /\ w < spawned /\ idx[w] \in Pairs /\ InBlock(w, idx[w]) /\ Current(w, idx[w])
  BY <1>1, IdxType, BusyCurrent
<1>3. outcome[idx[w]] \in Abstract!Sums /\ Counts(idx[w], 0, 1, 1)
  BY <1>1, <1>2 DEF Current
<1>4. Converging' => Converging
  BY <1>1 DEF Converging
<1>5. \A p \in Pairs : ~ (p = idx[w] /\ InBlock(w, p)) => SamePair(p)
  <2> SUFFICES ASSUME NEW p \in Pairs, p # idx[w] PROVE SamePair(p)
    BY <1>2
  <2>1. p \in Abstract!ValueTerms
    BY DEF Abstract!ValueTerms, Pairs
  <2> QED BY <1>1, <1>4, <2>1, UpdateValueStep DEF SamePair
<1>6. ASSUME NEW p \in Pairs, p = idx[w] PROVE Current(w, p)'
  <2>1. value'.terms[p] = 1
    BY <1>3, <1>6, UpdateValueStep DEF Counts
  <2>2. Counts(p, 1, 1, 1)'
    BY <1>1, <1>3, <1>4, <1>6, <2>1 DEF Counts
  <2>3. Finished(p)'
    BY <1>1, <1>3, <1>6, <2>2 DEF Finished
  <2> QED BY <1>1, <2>3 DEF Current
<1> QED BY <1>1, <1>2, <1>5, <1>6, OwnPair

LEMMA PassInterruptionPointPairs ==
  ASSUME TypeOK, Blocks, PairsOK, NEW w \in Workers, PassInterruptionPoint(w)
  PROVE  PairsOK'
<1>1. /\ UNCHANGED <<spawned, prevLast, last, side, outcome, value, gradients>>
      /\ \A v \in Workers : v # w => wpc'[v] = wpc[v] /\ idx'[v] = idx[v]
      /\ wpc[w] = "point" /\ wpc[w] \in Busy /\ wpc'[w] = "loop" /\ idx'[w] = idx[w] + 1
  BY DEF PassInterruptionPoint, At, Goto, TypeOK, mainVars, spawnVars, Busy
<1>2. /\ w < spawned /\ idx[w] \in Pairs /\ InBlock(w, idx[w]) /\ Current(w, idx[w])
  BY <1>1, IdxType, BusyCurrent
<1>3. Finished(idx[w])
  BY <1>1, <1>2 DEF Current
<1>4. \A p \in Pairs : SamePair(p)
  BY <1>1, AllSame
<1> SUFFICES ASSUME NEW p \in Pairs
             PROVE  /\ prevLast' < p => Untouched(p)'
                    /\ \A v \in Workers : v < spawned' /\ InBlock(v, p)' =>
                         /\ p < idx'[v] => Finished(p)'
                         /\ idx'[v] < p => Untouched(p)'
                         /\ p = idx'[v] => Current(v, p)'
  BY DEF PairsOK
<1>5. p \in Int /\ \A v \in Workers : idx[v] \in Int
  BY DEF TypeOK, Pairs, Abstract!Pairs
<1>6. /\ prevLast < p => Untouched(p)
      /\ \A v \in Workers : v < spawned /\ InBlock(v, p) =>
           /\ p < idx[v] => Finished(p)
           /\ idx[v] < p => Untouched(p)
           /\ p = idx[v] => Current(v, p)
  BY DEF PairsOK
<1>7. (Untouched(p) => Untouched(p)') /\ (Finished(p) => Finished(p)')
  BY <1>4, SamePairKept
<1>8. \A v \in Workers : InBlock(v, p)' <=> InBlock(v, p)
  BY <1>1 DEF InBlock
<1>9. ASSUME NEW v \in Workers, v < spawned, InBlock(v, p), v # w
      PROVE  /\ p < idx'[v] => Finished(p)'
             /\ idx'[v] < p => Untouched(p)'
             /\ p = idx'[v] => Current(v, p)'
  BY <1>1, <1>4, <1>6, <1>7, <1>9, SamePairKept
<1>10. ASSUME InBlock(w, p)
      PROVE  /\ p < idx'[w] => Finished(p)'
             /\ idx'[w] < p => Untouched(p)'
             /\ p = idx'[w] => Current(w, p)'
  <2>1. p < idx'[w] => Finished(p)
    <3>1. p < idx[w] + 1 => p < idx[w] \/ p = idx[w]
      BY <1>5
    <3> QED BY <1>1, <1>2, <1>3, <1>6, <1>10, <3>1
  <2>2. idx'[w] <= p => Untouched(p)
    <3>1. idx[w] + 1 <= p => idx[w] < p
      BY <1>5
    <3> QED BY <1>1, <1>2, <1>6, <1>10, <3>1
  <2>3. idx'[w] \in Int /\ p \in Int
    BY <1>1, <1>5
  <2>4. p = idx'[w] => Current(w, p)'
    BY <1>1, <1>7, <2>2, <2>3 DEF Current
  <2> QED BY <1>7, <2>1, <2>2, <2>3, <2>4
<1> QED BY <1>1, <1>6, <1>7, <1>8, <1>9, <1>10

LEMMA WorkerPairs ==
  ASSUME TypeOK, SnapTypes, Locks, Blocks, PairsOK, NEW w \in Workers, Worker(w)
  PROVE  PairsOK'
  BY MovePairs, NoPathsPairs, SumPathsPairs, UpdateGradientsPairs, UpdateValuePairs,
     PassInterruptionPointPairs DEF Worker

LEMMA BeginPairs == Begin => PairsOK'
<1> SUFFICES ASSUME Begin, NEW p \in Pairs
             PROVE  /\ Untouched(p)'
                    /\ \A w \in Workers : ~ (w < spawned')
  BY DEF PairsOK
<1>1. /\ outcome' = AllSkipped /\ gradients' = InitialGradients /\ spawned' = 0
      /\ value'.terms = [NoValueTerms EXCEPT ![Reg] = @ + 1]
  BY DEF Begin
<1>2. outcome'[p] = Abstract!Skipped
  BY <1>1 DEF AllSkipped
<1>3. p \in Abstract!ValueTerms /\ p # Reg
  BY DEF Abstract!ValueTerms, Pairs, Abstract!Pairs, Reg, Abstract!Reg
<1>4. value'.terms[p] = 0
  BY <1>1, <1>3 DEF NoValueTerms, Abstract!NoValueTerms
<1>5. ASSUME NEW s \in {"clamped", "unclamped"} PROVE gradients'[<<p, s>>] = 0
  <2>1. <<p, s>> \in Abstract!GradientTerms /\ <<p, s>> # <<Reg, "regulariser">>
    BY TermType DEF Abstract!Sides
  <2> QED BY <1>1, <2>1 DEF InitialGradients, NoTerms, Abstract!NoTerms
<1>6. Untouched(p)'
  BY <1>2, <1>4, <1>5 DEF Untouched, Counts
<1>7. \A w \in Workers : ~ (w < spawned')
  BY <1>1 DEF Workers
<1> QED BY <1>6, <1>7

LEMMA SpawnPairs == TypeOK /\ Blocks /\ PairsOK /\ Spawn => PairsOK'
<1> SUFFICES ASSUME TypeOK, Blocks, PairsOK, Spawn, NEW p \in Pairs
             PROVE  /\ prevLast' < p => Untouched(p)'
                    /\ \A v \in Workers : v < spawned' /\ InBlock(v, p)' =>
                         /\ p < idx'[v] => Finished(p)'
                         /\ idx'[v] < p => Untouched(p)'
                         /\ p = idx'[v] => Current(v, p)'
  BY DEF PairsOK
<1>1. PICK w \in Workers : w = spawned
  BY BlockSizes DEF Spawn, Started, TypeOK, Workers
<1>2. /\ UNCHANGED <<side, outcome, value, gradients>>
      /\ wpc'[w] = "loop" /\ idx'[w] = prevLast + 1 /\ last'[w] = prevLast'
      /\ \A v \in Workers : v # w => wpc'[v] = wpc[v] /\ idx'[v] = idx[v] /\ last'[v] = last[v]
      /\ spawned' = w + 1
  BY <1>1 DEF Spawn, TypeOK
<1>3. prevLast < prevLast' /\ prevLast \in Int /\ prevLast' \in Int /\ p \in Int
      /\ \A v \in Workers : v \in Int /\ idx[v] \in Int /\ last[v] \in Int
  <2>1. prevLast < BlockEnd(spawned) /\ prevLast' = BlockEnd(spawned) /\ BlockEnd(spawned) \in 0 .. N - 1
    BY NextBlockEnd, BlockSizes DEF Spawn, Started, TypeOK
  <2>2. prevLast \in Int /\ \A v \in Workers : idx[v] \in Int /\ last[v] \in Int
    BY DEF TypeOK
  <2>3. p \in Int /\ \A v \in Workers : v \in Int
    BY DEF Pairs, Abstract!Pairs, Workers
  <2>4. BlockEnd(spawned) \in Int
    BY <2>1, Constants
  <2> QED BY <2>1, <2>2, <2>3, <2>4
<1>4. SamePair(p)
  BY <1>2, AllSame
<1>5. /\ prevLast < p => Untouched(p)
      /\ \A v \in Workers : v < spawned /\ InBlock(v, p) =>
           /\ p < idx[v] => Finished(p)
           /\ idx[v] < p => Untouched(p)
           /\ p = idx[v] => Current(v, p)
  BY DEF PairsOK
<1>6. (Untouched(p) => Untouched(p)') /\ (Finished(p) => Finished(p)')
  BY <1>4, SamePairKept
<1>7. prevLast' < p => Untouched(p)'
  BY <1>3, <1>5, <1>6
<1>8. ASSUME NEW v \in Workers, v < spawned, InBlock(v, p)'
      PROVE  /\ p < idx'[v] => Finished(p)'
             /\ idx'[v] < p => Untouched(p)'
             /\ p = idx'[v] => Current(v, p)'
  <2>1. v # w /\ \A u \in Workers : u < v => u # w
    BY <1>1, <1>3, <1>8
  <2>2. InBlock(v, p)
    BY <1>2, <1>8, <2>1 DEF InBlock
  <2>3. wpc'[v] = wpc[v] /\ side'[v] = side[v] /\ idx'[v] = idx[v]
    BY <1>2, <2>1
  <2> QED BY <1>4, <1>5, <1>6, <1>8, <2>2, <2>3, SamePairKept
<1>9. ASSUME InBlock(w, p)'
      PROVE  /\ p < idx'[w] => Finished(p)'
             /\ idx'[w] < p => Untouched(p)'
             /\ p = idx'[w] => Current(w, p)'
  <2>1. prevLast < p
    <3>1. CASE \E v \in Workers : v < w /\ InBlock(v, p)
      BY <1>2, <1>3, <1>9, <3>1 DEF InBlock
    <3>2. CASE ~ \E v \in Workers : v < w /\ InBlock(v, p)
      BY <1>1, <1>3, <3>2 DEF Blocks
    <3> QED BY <3>1, <3>2
  <2>2. Untouched(p)'
    BY <1>5, <1>6, <2>1
  <2>3. ~ (p < idx'[w])
    BY <1>2, <1>3, <2>1
  <2>4. Current(w, p)'
    BY <1>2, <2>2 DEF Current
  <2> QED BY <2>2, <2>3, <2>4
<1>10. \A v \in Workers : v < spawned' => v < spawned \/ v = w
  BY <1>1, <1>2, <1>3
<1> QED BY <1>7, <1>8, <1>9, <1>10

-----------------------------------------------------------------------------
(* The value, and who is interrupted.                                      *)

LEMMA BeginValue == Begin => RegOK' /\ KindOK'
<1> SUFFICES ASSUME Begin PROVE RegOK' /\ KindOK'
  OBVIOUS
<1>1. /\ gradients' = InitialGradients
      /\ value' = [kind |-> "fin", terms |-> [NoValueTerms EXCEPT ![Reg] = @ + 1]]
  BY DEF Begin
<1>2. /\ NoTerms = [t \in Abstract!GradientTerms |-> 0] /\ NoValueTerms = [t \in Abstract!ValueTerms |-> 0]
      /\ <<Reg, "regulariser">> \in Abstract!GradientTerms /\ Reg \in Abstract!ValueTerms
  BY DEF NoTerms, Abstract!NoTerms, NoValueTerms, Abstract!NoValueTerms, Abstract!GradientTerms,
         Abstract!ValueTerms, Reg
<1>3. RegOK'
  BY <1>1, <1>2 DEF RegOK, InitialGradients
<1>4. ASSUME NEW p \in Pairs PROVE value'.terms[p] = 0
  <2>1. p \in Abstract!ValueTerms /\ p # Reg
    BY DEF Abstract!ValueTerms, Pairs, Abstract!Pairs, Reg, Abstract!Reg
  <2> QED BY <1>1, <1>2, <2>1
<1>5. KindOK'
  BY <1>1, <1>4 DEF KindOK, HasKind
<1> QED BY <1>3, <1>5

LEMMA WorkerReg ==
  ASSUME TypeOK, SnapTypes, Locks, Blocks, PairsOK, RegOK, NEW w \in Workers, Worker(w)
  PROVE  RegOK'
<1>1. /\ <<Reg, "regulariser">> \in Abstract!GradientTerms /\ Reg \in Abstract!ValueTerms
      /\ <<Reg, "regulariser">> # <<idx[w], side[w]>>
  BY DEF Abstract!GradientTerms, Abstract!ValueTerms, Reg, TypeOK, Abstract!Sides
<1>2. Converging' => Converging
  BY WorkerConverging
<1>3. value'.terms[Reg] = 1
  <2>1. CASE UpdateValue(w)
    <3>1. wpc[w] \in Busy
      BY <2>1 DEF UpdateValue, At, Busy
    <3>2. idx[w] # Reg
      BY <3>1, IdxType DEF Pairs, Abstract!Pairs, Reg, Abstract!Reg
    <3> QED BY <1>1, <2>1, <3>2, UpdateValueStep DEF RegOK
  <2>2. CASE ~ UpdateValue(w)
    BY <2>2 DEF RegOK, Worker, StartPair, EndBlock, NoPaths, SumPaths, SumForEver, LockGradients, UpdateGradients,
                LockValue, PassInterruptionPoint, EndInterrupted
  <2> QED BY <2>1, <2>2
<1>4. ASSUME Converging' PROVE gradients'[<<Reg, "regulariser">>] = 1
  <2>1. CASE UpdateGradients(w)
    <3>1. wpc[w] = "updateGrad" /\ wpc[w] \in Busy /\ outcome' = outcome
      BY <2>1 DEF UpdateGradients, At, Busy
    <3>2. outcome[idx[w]] \in Abstract!Sums /\ idx[w] \in Pairs
      BY <3>1, BusyCurrent, IdxType DEF Current, TypeOK, Abstract!Sides
    <3>3. ~ Diverged(w)
      BY <1>4, <3>1, <3>2, OutcomeKinds DEF Converging, Diverged
    <3> QED BY <1>1, <1>2, <1>4, <2>1, <3>3, UpdateGradientsStep DEF RegOK
  <2>2. CASE ~ UpdateGradients(w)
    <3>1. gradients' = gradients
      BY <2>2 DEF Worker, StartPair, EndBlock, NoPaths, SumPaths, SumForEver, LockGradients, UpdateValue,
                  LockValue, PassInterruptionPoint, EndInterrupted
    <3> QED BY <1>2, <1>4, <3>1 DEF RegOK
  <2> QED BY <2>1, <2>2
<1> QED BY <1>3, <1>4 DEF RegOK

\* Only the outcomes of pairs that are in the value tell what kind it is of.
LEMMA KindsSame ==
  ASSUME \A p \in Pairs : /\ value'.terms[p] = value.terms[p]
                          /\ value.terms[p] = 1 => outcome'[p] = outcome[p]
  PROVE  /\ \A k \in Kinds : HasKind(k)' <=> HasKind(k)
         /\ KindOK /\ value'.kind = value.kind => KindOK'
<1>1. ASSUME NEW k \in Kinds PROVE HasKind(k)' <=> HasKind(k)
  BY DEF HasKind
<1>2. KindOK /\ value'.kind = value.kind => KindOK'
  <2>1. /\ HasKind("nan")' <=> HasKind("nan")
        /\ HasKind("pinf")' <=> HasKind("pinf")
        /\ HasKind("ninf")' <=> HasKind("ninf")
    BY <1>1 DEF Kinds
  <2> QED BY <2>1 DEF KindOK
<1> QED BY <1>1, <1>2

\* The two numbers of a pair are added one after the other.
LEMMA KindOfSum ==
  ASSUME NEW a \in Kinds, NEW o \in Abstract!Sums
  PROVE  /\ KindSum(KindSum(a, DistanceKind(o.clamped)), KindNegated(DistanceKind(o.unclamped)))
               = KindSum(a, Abstract!PairKind(o))
         /\ Abstract!PairKind(o) \in Kinds
<1>1. /\ DistanceKind(o.clamped) \in {"ninf", "fin"}
      /\ KindNegated(DistanceKind(o.unclamped)) \in {"pinf", "fin"}
  BY DEF DistanceKind, KindNegated
<1>2. Abstract!PairKind(o) = KindSum(DistanceKind(o.clamped), KindNegated(DistanceKind(o.unclamped)))
  BY DEF Abstract!PairKind, Abstract!KindSum, Abstract!KindNegated, Abstract!DistanceKind,
         KindSum, KindNegated, DistanceKind
<1>3. ASSUME NEW x \in {"ninf", "fin"}, NEW y \in {"pinf", "fin"}
      PROVE  KindSum(KindSum(a, x), y) = KindSum(a, KindSum(x, y)) /\ KindSum(x, y) \in Kinds
  BY DEF KindSum, Kinds
<1> QED BY <1>1, <1>2, <1>3

LEMMA UpdateValueKind ==
  ASSUME TypeOK, SnapTypes, Locks, Blocks, PairsOK, KindOK, NEW w \in Workers, UpdateValue(w)
  PROVE  KindOK' /\ (HasKind("pinf") => HasKind("pinf")')
<1>1. wpc[w] = "updateValue" /\ wpc[w] \in Busy /\ outcome' = outcome
  BY DEF UpdateValue, At, Busy
<1>2. PICK q \in Pairs : q = idx[w]
  BY <1>1, IdxType
<1>3. outcome[q] \in Abstract!Sums /\ value.terms[q] = 0
  BY <1>1, <1>2, BusyCurrent DEF Current, Counts
<1>4. value'.terms[q] = 1 /\ \A p \in Pairs : p # q => value'.terms[p] = value.terms[p]
  BY <1>2, <1>3, UpdateValueStep DEF Abstract!ValueTerms, Pairs
<1>5. \A k \in Kinds : HasKind(k)' <=> (HasKind(k) \/ Abstract!PairKind(outcome[q]) = k)
  BY <1>1, <1>3, <1>4 DEF HasKind
<1>6. /\ HasKind("nan")' <=> (HasKind("nan") \/ Abstract!PairKind(outcome[q]) = "nan")
      /\ HasKind("pinf")' <=> (HasKind("pinf") \/ Abstract!PairKind(outcome[q]) = "pinf")
      /\ HasKind("ninf")' <=> (HasKind("ninf") \/ Abstract!PairKind(outcome[q]) = "ninf")
  BY <1>5 DEF Kinds
<1> DEFINE k == Abstract!PairKind(outcome[q])
<1>7. value'.kind = KindSum(value.kind, k) /\ k \in Kinds
  <2>1. value.kind \in Kinds
    BY DEF KindOK, Kinds
  <2> QED BY <1>2, <1>3, <2>1, UpdateValueStep, KindOfSum
<1> HIDE DEF k
<1>8. CASE k = "fin"
  <2>1. value'.kind = value.kind
    BY <1>7, <1>8 DEF KindSum, KindOK
  <2> QED BY <1>6, <1>8, <2>1 DEF KindOK, k
<1>9. CASE k = "pinf"
  BY <1>6, <1>7, <1>9 DEF KindOK, KindSum, k
<1>10. CASE k = "ninf"
  BY <1>6, <1>7, <1>10 DEF KindOK, KindSum, k
<1>11. CASE k = "nan"
  BY <1>6, <1>7, <1>11 DEF KindOK, KindSum, k
<1> QED BY <1>7, <1>8, <1>9, <1>10, <1>11 DEF Kinds

LEMMA WorkerKind ==
  ASSUME TypeOK, SnapTypes, Locks, Blocks, PairsOK, KindOK, NEW w \in Workers, Worker(w)
  PROVE  KindOK' /\ (HasKind("pinf") => HasKind("pinf")')
<1>1. CASE UpdateValue(w)
  BY <1>1, UpdateValueKind
<1>2. CASE ~ UpdateValue(w)
  <2>1. value' = value
    BY <1>2 DEF Worker, StartPair, EndBlock, NoPaths, SumPaths, SumForEver, LockGradients, UpdateGradients,
                LockValue, PassInterruptionPoint, EndInterrupted
  <2>2. ASSUME NEW p \in Pairs, value.terms[p] = 1 PROVE outcome'[p] = outcome[p]
    <3>1. CASE NoPaths(w) \/ SumPaths(w)
      <4>1. wpc[w] = "sum" /\ wpc[w] \in Busy /\ side[w] \in {"clamped", "unclamped"}
        BY <3>1 DEF NoPaths, SumPaths, At, Busy, TypeOK, Abstract!Sides
      <4>2. value.terms[idx[w]] = 0
        BY <4>1, BusyCurrent DEF Current, Untouched, Counts
      <4>3. p # idx[w]
        BY <2>2, <4>2
      <4> QED BY <3>1, <4>3, SumPathsStep DEF NoPaths, TypeOK
    <3>2. CASE ~ (NoPaths(w) \/ SumPaths(w))
      BY <3>2 DEF Worker, StartPair, EndBlock, SumForEver, LockGradients, UpdateGradients, LockValue, UpdateValue,
                  PassInterruptionPoint, EndInterrupted
    <3> QED BY <3>1, <3>2
  <2>3. \A p \in Pairs : /\ value'.terms[p] = value.terms[p]
                         /\ value.terms[p] = 1 => outcome'[p] = outcome[p]
    BY <2>1, <2>2
  <2> QED BY <2>1, <2>3, KindsSame DEF Kinds
<1> QED BY <1>1, <1>2

LEMMA InterruptsStep ==
  ASSUME TypeOK, SnapTypes, Locks, Mains, Evaluating, Interrupts, Next
  PROVE  Interrupts'
<1>1. ASSUME NEW n \in ThreadCounts, SetNumThreads(n) PROVE Interrupts'
  BY <1>1 DEF SetNumThreads, Interrupts, workerVars, watcherVars
<1>2. CASE Begin
  BY <1>2 DEF Begin, Interrupts
<1>3. CASE Spawn \/ StartWatcher \/ JoinWorkers \/ StopWatcher \/ InterruptWatcher \/ JoinWatcher
  <2>1. /\ main # "idle" /\ main' # "idle" /\ UNCHANGED <<value, outcome, interrupted>>
        /\ watcher' = "interrupt" => watcher = "interrupt"
    BY <1>3 DEF Spawn, StartWatcher, JoinWorkers, StopWatcher, InterruptWatcher, JoinWatcher, spawnVars,
                workerVars, watcherVars
  <2>2. HasKind("pinf") => HasKind("pinf")'
    BY <2>1 DEF HasKind
  <2> QED BY <2>1, <2>2 DEF Interrupts
<1>4. CASE FinishDivergent \/ FinishSquashed
  <2>1. /\ main = "finish" /\ main' = "idle" /\ interrupted' = interrupted
    BY <1>4 DEF FinishDivergent, FinishSquashed
  <2>2. ASSUME interrupted # {} PROVE value'.kind \in {"one", "nan"}
    <3>1. value.kind \in {"pinf", "nan"}
      BY <2>1, <2>2 DEF Interrupts, Evaluating, KindOK
    <3> QED BY <1>4, <3>1 DEF FinishDivergent, FinishSquashed, TypeOK
  <2> QED BY <2>1, <2>2 DEF Interrupts
<1>5. CASE Watcher
  <2>1. /\ main' = main /\ main # "idle" /\ UNCHANGED <<value, outcome>>
    BY <1>5 DEF Watcher, WatcherChanges, CheckStop, LookAtValue, InterruptNext, Sleep, mainVars,
                workerVars, Mains
  <2>2. HasKind("pinf") => HasKind("pinf")'
    BY <2>1 DEF HasKind
  <2>3. (interrupted' # {} \/ watcher' = "interrupt") =>
           interrupted # {} \/ watcher = "interrupt" \/ value.kind = "pinf"
    BY <1>5 DEF Watcher, WatcherChanges, CheckStop, LookAtValue, InterruptNext, Sleep
  <2>4. value.kind = "pinf" => HasKind("pinf")
    BY <2>1 DEF Evaluating, KindOK
  <2> QED BY <2>1, <2>2, <2>3, <2>4 DEF Interrupts
<1>6. ASSUME NEW w \in Workers, Worker(w) PROVE Interrupts'
  <2>1. UNCHANGED <<main, interrupted, watcher>> /\ wpc[w] \notin {"none", "done"}
    BY <1>6 DEF Worker, StartPair, EndBlock, NoPaths, SumPaths, SumForEver, LockGradients, UpdateGradients,
                LockValue, UpdateValue, PassInterruptionPoint, EndInterrupted, At, mainVars, watcherVars
  <2>2. main # "idle"
    BY <2>1 DEF Mains
  <2>3. HasKind("pinf") => HasKind("pinf")'
    BY <1>6, <2>2, WorkerKind DEF Evaluating
  <2> QED BY <2>1, <2>2, <2>3 DEF Interrupts
<1> QED BY <1>1, <1>2, <1>3, <1>4, <1>5, <1>6 DEF Next, Evaluate

-----------------------------------------------------------------------------
(* The invariant.                                                          *)

IInv == TypeOK /\ SnapTypes /\ Locks /\ Mains /\ Evaluating /\ Interrupts

LEMMA InitIInv == Init => IInv
<1> SUFFICES ASSUME Init PROVE IInv
  OBVIOUS
<1>1. /\ main = "idle" /\ gradLock = Nobody /\ valueLock = Nobody /\ interrupted = {} /\ watcher = "none"
      /\ wpc = [w \in Workers |-> "none"]
  BY DEF Init
<1>2. Locks
  BY <1>1, NobodyType DEF Locks
<1>3. Mains /\ Evaluating /\ Interrupts
  BY <1>1 DEF Mains, Evaluating, Interrupts
<1> QED BY <1>2, <1>3, InitTypes DEF IInv

LEMMA EvaluatingKept ==
  ASSUME Blocks, PairsOK, RegOK, KindOK, interrupted \subseteq interrupted',
         UNCHANGED <<numThreads, spawned, prevLast, last, idx, wpc, side, outcome, value, gradients>>
  PROVE  Evaluating'
<1>1. Blocks'
  BY UnchangedBlocks
<1>2. RegOK' /\ KindOK'
  BY DEF RegOK, KindOK, HasKind, Converging
<1>3. PairsOK'
  <2>1. \A p \in Pairs : SamePair(p)
    BY AllSame
  <2>2. \A p \in Pairs, w \in Workers : InBlock(w, p)' <=> InBlock(w, p)
    BY DEF InBlock
  <2> SUFFICES ASSUME NEW p \in Pairs
               PROVE  /\ prevLast' < p => Untouched(p)'
                      /\ \A w \in Workers : w < spawned' /\ InBlock(w, p)' =>
                           /\ p < idx'[w] => Finished(p)'
                           /\ idx'[w] < p => Untouched(p)'
                           /\ p = idx'[w] => Current(w, p)'
    BY DEF PairsOK
  <2>3. /\ prevLast < p => Untouched(p)
        /\ \A w \in Workers : w < spawned /\ InBlock(w, p) =>
             /\ p < idx[w] => Finished(p)
             /\ idx[w] < p => Untouched(p)
             /\ p = idx[w] => Current(w, p)
    BY DEF PairsOK
  <2>4. SamePair(p)
    BY <2>1
  <2>5. prevLast' < p => Untouched(p)'
    BY <2>3, <2>4, SamePairKept
  <2>6. ASSUME NEW w \in Workers, w < spawned, InBlock(w, p)
        PROVE  /\ p < idx'[w] => Finished(p)'
               /\ idx'[w] < p => Untouched(p)'
               /\ p = idx'[w] => Current(w, p)'
    BY <2>3, <2>4, <2>6, SamePairKept
  <2> QED BY <2>2, <2>5, <2>6
<1> QED BY <1>1, <1>2, <1>3 DEF Evaluating

LEMMA EvaluatingStep ==
  ASSUME TypeOK, SnapTypes, Locks, Mains, Evaluating, Next
  PROVE  Evaluating'
<1>1. CASE (\E n \in ThreadCounts : SetNumThreads(n)) \/ FinishDivergent \/ FinishSquashed
  <2>1. main' = "idle"
    BY <1>1 DEF SetNumThreads, FinishDivergent, FinishSquashed
  <2> QED BY <2>1 DEF Evaluating
<1>2. CASE Begin
  BY <1>2, BeginBlocks, BeginPairs, BeginValue DEF Evaluating
<1>3. CASE Spawn
  <2>1. main # "idle" /\ UNCHANGED <<value, gradients, outcome>>
    BY <1>3 DEF Spawn
  <2>2. RegOK' /\ KindOK'
    BY <2>1 DEF Evaluating, RegOK, KindOK, HasKind, Converging
  <2> QED BY <1>3, <2>1, <2>2, SpawnBlocks, SpawnPairs DEF Evaluating
<1>4. CASE StartWatcher \/ JoinWorkers \/ StopWatcher \/ InterruptWatcher \/ JoinWatcher
  <2>1. /\ main # "idle" /\ interrupted' = interrupted
        /\ UNCHANGED <<numThreads, spawned, prevLast, last, idx, wpc, side, outcome, value, gradients>>
    BY <1>4 DEF StartWatcher, JoinWorkers, StopWatcher, InterruptWatcher, JoinWatcher, spawnVars, workerVars
  <2> QED BY <2>1, EvaluatingKept DEF Evaluating
<1>5. CASE Watcher
  <2>1. /\ main # "idle" /\ interrupted \subseteq interrupted'
        /\ UNCHANGED <<numThreads, spawned, prevLast, last, idx, wpc, side, outcome, value, gradients>>
    BY <1>5 DEF Watcher, WatcherChanges, CheckStop, LookAtValue, InterruptNext, Sleep, mainVars,
                spawnVars, workerVars, Mains
  <2> QED BY <2>1, EvaluatingKept DEF Evaluating
<1>6. ASSUME NEW w \in Workers, Worker(w) PROVE Evaluating'
  <2>1. wpc[w] \notin {"none", "done"}
    BY <1>6 DEF Worker, StartPair, EndBlock, NoPaths, SumPaths, SumForEver, LockGradients, UpdateGradients,
                LockValue, UpdateValue, PassInterruptionPoint, EndInterrupted, At
  <2>2. main # "idle"
    BY <2>1 DEF Mains
  <2> QED BY <1>6, <2>2, WorkerBlocks, WorkerPairs, WorkerReg, WorkerKind DEF Evaluating
<1> QED BY <1>1, <1>2, <1>3, <1>4, <1>5, <1>6 DEF Next, Evaluate

LEMMA TypesStep ==
  ASSUME TypeOK, SnapTypes, Locks, Mains, Evaluating, Next
  PROVE  TypeOK' /\ SnapTypes'
<1>1. CASE FinishDivergent \/ FinishSquashed
  <2>1. value.kind \in Kinds
    BY <1>1 DEF FinishDivergent, FinishSquashed, Evaluating, KindOK, Kinds
  <2> QED BY <1>1, <2>1, FinishTypes
<1>2. CASE Spawn
  BY <1>2, SpawnTypes DEF Spawn, Evaluating
<1>3. ASSUME NEW w \in Workers, Worker(w) PROVE TypeOK' /\ SnapTypes'
  <2>1. wpc[w] \notin {"none", "done"}
    BY <1>3 DEF Worker, StartPair, EndBlock, NoPaths, SumPaths, SumForEver, LockGradients, UpdateGradients,
                LockValue, UpdateValue, PassInterruptionPoint, EndInterrupted, At
  <2>2. main # "idle"
    BY <2>1 DEF Mains
  <2> QED BY <1>3, <2>2, WorkerTypes DEF Evaluating
<1> QED BY <1>1, <1>2, <1>3, StageTypes, BeginTypes, WatcherTypes DEF Next, Evaluate

LEMMA LocksStep ==
  ASSUME TypeOK, SnapTypes, Locks, Mains, Evaluating, Next
  PROVE  Locks'
<1>1. main # "idle" => Blocks
  BY DEF Evaluating
<1> QED BY <1>1, WorkerLocks, OtherLocks DEF Next

LEMMA UnchangedIInv == IInv /\ UNCHANGED vars => IInv'
<1> SUFFICES ASSUME IInv, UNCHANGED vars PROVE IInv'
  OBVIOUS
<1>1. UNCHANGED <<main, calls, value, gradients, numThreads, prevLast, spawned, wpc, idx, last, side,
                  outcome, gradSnap, valueSnap, gradLock, valueLock, interrupted, watcher, nextVictim,
                  stop, wake>>
  BY DEF vars, spawnVars, workerVars, watcherVars
<1>2. TypeOK' /\ SnapTypes'
  BY <1>1 DEF IInv, TypeOK, SnapTypes
<1>3. Locks' /\ Mains' /\ Interrupts'
  BY <1>1 DEF IInv, Locks, Mains, Interrupts, HasKind, NumWorkers
<1>4. Evaluating'
  <2>1. CASE main = "idle"
    BY <1>1, <2>1 DEF Evaluating
  <2>2. CASE main # "idle"
    BY <1>1, <2>2, EvaluatingKept DEF IInv, Evaluating
  <2> QED BY <2>1, <2>2
<1> QED BY <1>2, <1>3, <1>4 DEF IInv

LEMMA NextIInv == IInv /\ [Next]_vars => IInv'
<1> SUFFICES ASSUME IInv, [Next]_vars PROVE IInv'
  OBVIOUS
<1>1. CASE UNCHANGED vars
  BY <1>1, UnchangedIInv
<1>2. CASE Next
  <2>1. Mains'
    BY <1>2, MainsStep DEF IInv, Evaluating
  <2> QED BY <1>2, <2>1, TypesStep, LocksStep, EvaluatingStep, InterruptsStep DEF IInv
<1> QED BY <1>1, <1>2

\* The invariant of the proof, for all values of the constants.
THEOREM Invariance == Spec => []IInv
  BY InitIInv, NextIInv, PTL DEF Spec

\* For any number of pairs and of threads: the blocks stay within the data, and
\* counters, snapshots and sums within their ranges.
THEOREM TypeCorrect == Spec => []TypeOK
<1>1. IInv => TypeOK
  BY DEF IInv
<1> QED BY <1>1, Invariance, PTL

\* For any number of threads: what a worker has read under a mutex is still there
\* when it writes its sum back; no contribution and no reset is lost.
THEOREM UpdatesKept == Spec => []NoLostUpdate
<1>1. IInv => NoLostUpdate
  BY DEF IInv, Locks, NoLostUpdate
<1> QED BY <1>1, Invariance, PTL

\* For any number of threads, although the watcher reads the value without its
\* mutex: workers are interrupted only if the value has become infinite.
THEOREM InterruptsJustified == Spec => []InterruptedOnlyOnDivergence
<1>1. IInv => InterruptedOnlyOnDivergence
  BY DEF IInv, Interrupts, Evaluating, KindOK, InterruptedOnlyOnDivergence
<1> QED BY <1>1, Invariance, PTL

-----------------------------------------------------------------------------
(* The threads implement the single-threaded description.                  *)

\* When main has joined everyone, each pair is finished, or it is skipped because
\* another one diverged.
LEMMA AtFinish ==
  ASSUME TypeOK, Mains, Evaluating, Interrupts, main = "finish", NEW p \in Pairs
  PROVE  Finished(p) \/ (Untouched(p) /\ HasKind("pinf"))
<1>1. Blocks /\ PairsOK /\ spawned = NumWorkers /\ \A w \in Workers : wpc[w] \in {"none", "done"}
  BY DEF Mains, Evaluating
<1>2. p <= prevLast
  BY <1>1, Constants DEF Blocks, Pairs, Abstract!Pairs
<1>3. PICK w \in Workers : w < spawned /\ InBlock(w, p)
  BY <1>1, <1>2 DEF Blocks
<1>4. wpc[w] = "done" /\ p <= last[w]
  BY <1>1, <1>3 DEF Blocks, InBlock
<1>5. p \in Int /\ idx[w] \in Int /\ last[w] \in Int
  BY DEF TypeOK, Pairs, Abstract!Pairs
<1>6. CASE p < idx[w]
  BY <1>1, <1>3, <1>6 DEF PairsOK
<1>7. CASE p = idx[w]
  BY <1>1, <1>3, <1>4, <1>7 DEF PairsOK, Current
<1>8. CASE idx[w] < p
  <2>1. Untouched(p)
    BY <1>1, <1>3, <1>8 DEF PairsOK
  <2>2. interrupted # {}
    BY <1>1, <1>4, <1>5, <1>8 DEF Blocks
  <2> QED BY <2>1, <2>2 DEF Interrupts
<1> QED BY <1>5, <1>6, <1>7, <1>8

\* Then the pairs in the value are those that have been summed.
LEMMA SummedAtFinish ==
  ASSUME TypeOK, Mains, Evaluating, Interrupts, main = "finish", NEW p \in Pairs
  PROVE  /\ Abstract!Summed(outcome[p]) <=> value.terms[p] = 1
         /\ Abstract!Summed(outcome[p]) => outcome[p] \in Abstract!Sums /\ Counts(p, 1, 1, 1)
         /\ ~ Abstract!Summed(outcome[p]) => Counts(p, 0, 0, 0)
<1>1. CASE Untouched(p)
  BY <1>1, OutcomeKinds DEF Untouched, Counts
<1>2. CASE Finished(p)
  BY <1>2, OutcomeKinds DEF Finished, Counts
<1> QED BY <1>1, <1>2, AtFinish

LEMMA KindAtFinish ==
  ASSUME TypeOK, Mains, Evaluating, Interrupts, main = "finish"
  PROVE  value.kind = Abstract!Kind(outcome)
<1>1. \A k : HasKind(k) <=> \E p \in Pairs : Abstract!Summed(outcome[p]) /\ Abstract!PairKind(outcome[p]) = k
  BY SummedAtFinish DEF HasKind
<1>2. KindOK
  BY DEF Evaluating
<1> QED BY <1>1, <1>2 DEF Abstract!Kind, KindOK, Pairs

\* A finite value is complete.
LEMMA CompleteAtFinish ==
  ASSUME TypeOK, Mains, Evaluating, Interrupts, main = "finish", value.kind = "fin"
  PROVE  value.terms = Abstract!FullValue(outcome) /\ gradients = Abstract!FullGradients(outcome)
<1>1. ~ HasKind("nan") /\ ~ HasKind("pinf") /\ ~ HasKind("ninf")
  BY DEF Evaluating, KindOK
<1>2. Converging
  <2> SUFFICES ASSUME NEW p \in Pairs, Abstract!Summed(outcome[p])
               PROVE  ~ outcome[p].clamped /\ ~ outcome[p].unclamped
    BY DEF Converging
  <2>1. outcome[p] \in Abstract!Sums /\ value.terms[p] = 1
    BY SummedAtFinish
  <2>2. Abstract!PairKind(outcome[p]) \notin {"nan", "pinf", "ninf"}
    BY <1>1, <2>1 DEF HasKind
  <2>3. Abstract!PairKind(outcome[p]) = KindSum(DistanceKind(outcome[p].clamped),
                                                KindNegated(DistanceKind(outcome[p].unclamped)))
    BY DEF Abstract!PairKind, Abstract!KindSum, Abstract!KindNegated, Abstract!DistanceKind,
           KindSum, KindNegated, DistanceKind
  <2>4. /\ outcome[p].clamped => DistanceKind(outcome[p].clamped) = "ninf"
        /\ ~ outcome[p].clamped => DistanceKind(outcome[p].clamped) = "fin"
        /\ outcome[p].unclamped => KindNegated(DistanceKind(outcome[p].unclamped)) = "pinf"
        /\ ~ outcome[p].unclamped => KindNegated(DistanceKind(outcome[p].unclamped)) = "fin"
    BY <2>1, OutcomeKinds DEF DistanceKind, KindNegated
  <2>5. /\ KindSum("ninf", "pinf") = "nan" /\ KindSum("ninf", "fin") = "ninf"
        /\ KindSum("fin", "pinf") = "pinf"
    BY DEF KindSum
  <2>6. outcome[p].clamped \in BOOLEAN /\ outcome[p].unclamped \in BOOLEAN
    BY <2>1, OutcomeKinds
  <2> QED BY <2>2, <2>3, <2>4, <2>5, <2>6
<1>3. RegOK
  BY DEF Evaluating
<1>4. value.terms = Abstract!FullValue(outcome)
  <2>1. ASSUME NEW t \in Abstract!ValueTerms
        PROVE  value.terms[t] = IF t = Reg \/ Abstract!Summed(outcome[t]) THEN 1 ELSE 0
    <3>1. CASE t = Reg
      BY <1>3, <3>1 DEF RegOK
    <3>2. CASE t # Reg
      <4>1. t \in Pairs
        BY <3>2 DEF Abstract!ValueTerms, Pairs, Reg
      <4>2. /\ Abstract!Summed(outcome[t]) => value.terms[t] = 1
            /\ ~ Abstract!Summed(outcome[t]) => value.terms[t] = 0
        BY <4>1, SummedAtFinish DEF Counts
      <4> QED BY <3>2, <4>2
    <3> QED BY <3>1, <3>2
  <2>2. value.terms \in [Abstract!ValueTerms -> Nat]
    BY DEF TypeOK
  <2> QED BY <2>1, <2>2 DEF Abstract!FullValue, Reg
<1>5. gradients = Abstract!FullGradients(outcome)
  <2>1. ASSUME NEW t \in Abstract!GradientTerms
        PROVE  gradients[t] = IF t[1] = Reg \/ Abstract!Summed(outcome[t[1]]) THEN 1 ELSE 0
    <3>1. CASE t = <<Reg, "regulariser">>
      BY <1>2, <1>3, <3>1 DEF RegOK
    <3>2. CASE t # <<Reg, "regulariser">>
      <4>1. PICK p \in Pairs, side_ \in Abstract!Sides : t = <<p, side_>>
        BY <3>2 DEF Abstract!GradientTerms, Pairs, Reg
      <4>2. t[1] = p /\ p # Reg
        BY <4>1 DEF Pairs, Abstract!Pairs, Reg, Abstract!Reg
      <4>3. side_ = "clamped" \/ side_ = "unclamped"
        BY DEF Abstract!Sides
      <4>4. /\ Abstract!Summed(outcome[p]) => gradients[t] = 1
            /\ ~ Abstract!Summed(outcome[p]) => gradients[t] = 0
        BY <1>2, <4>1, <4>3, SummedAtFinish DEF Counts
      <4> QED BY <4>2, <4>4
    <3> QED BY <3>1, <3>2
  <2>2. gradients \in [Abstract!GradientTerms -> Nat \cup {-1}]
    BY DEF TypeOK
  <2> QED BY <2>1, <2>2 DEF Abstract!FullGradients, Reg
<1> QED BY <1>4, <1>5

\* The end of an evaluation is an end of the abstract one.
LEMMA FinishEnds ==
  ASSUME TypeOK, Mains, Evaluating, Interrupts, FinishDivergent \/ FinishSquashed
  PROVE  Abstract!End
<1>1. /\ main = "finish" /\ main' = "idle" /\ calls' = calls /\ calls # 0
      /\ value'.terms = value.terms
  <2>1. calls # 0
    BY DEF FinishDivergent, FinishSquashed, Mains, TypeOK
  <2> QED BY <2>1 DEF FinishDivergent, FinishSquashed, TypeOK
<1>2. result = [status |-> "busy"]
  BY <1>1 DEF result
<1>3. result' = [status |-> "done", value |-> value'.kind, gradients |-> gradients',
                 terms |-> IF value'.kind = "squashed" THEN value'.terms ELSE [t \in -1 .. N - 1 |-> 0]]
  BY <1>1 DEF result
<1>4. [t \in -1 .. N - 1 |-> 0] = Abstract!NoValueTerms
  <2>1. -1 .. N - 1 = Abstract!ValueTerms
    BY Constants DEF Abstract!ValueTerms, Abstract!Reg, Abstract!Pairs
  <2> QED BY <2>1 DEF Abstract!NoValueTerms
<1>5. (\E p \in Pairs : outcome[p] = Abstract!Skipped) =>
         \E p \in Pairs : Abstract!Summed(outcome[p]) /\ Abstract!PairKind(outcome[p]) = "pinf"
  <2> SUFFICES ASSUME NEW p \in Pairs, outcome[p] = Abstract!Skipped
               PROVE  \E q \in Pairs : Abstract!Summed(outcome[q]) /\ Abstract!PairKind(outcome[q]) = "pinf"
    OBVIOUS
  <2>1. ~ Finished(p)
    BY OutcomeKinds DEF Finished
  <2>2. HasKind("pinf")
    BY <1>1, <2>1, AtFinish
  <2> QED BY <1>1, <2>2, SummedAtFinish DEF HasKind
<1>6. value.kind = Abstract!Kind(outcome) /\ value.kind \in Kinds
  BY <1>1, KindAtFinish DEF Evaluating, KindOK, Kinds
<1>7. result' = Abstract!ResultOf(outcome)
  <2>1. CASE value.kind = "fin"
    <3>1. value'.kind = "squashed" /\ gradients' = gradients
      BY <2>1 DEF FinishDivergent, FinishSquashed, TypeOK
    <3>2. value.terms = Abstract!FullValue(outcome) /\ gradients = Abstract!FullGradients(outcome)
      BY <1>1, <2>1, CompleteAtFinish
    <3> QED BY <1>1, <1>3, <1>6, <2>1, <3>1, <3>2 DEF Abstract!ResultOf, Abstract!Result
  <2>2. CASE value.kind = "pinf"
    <3>1. value'.kind = "one" /\ gradients' = Abstract!NoTerms
      BY <2>2 DEF FinishDivergent, FinishSquashed, TypeOK, NoTerms
    <3> QED BY <1>3, <1>4, <1>6, <2>2, <3>1 DEF Abstract!ResultOf, Abstract!Result
  <2>3. CASE value.kind = "ninf"
    <3>1. value'.kind = "nan" /\ gradients' = Abstract!NoTerms
      BY <2>3 DEF FinishDivergent, FinishSquashed, TypeOK, NoTerms
    <3> QED BY <1>3, <1>4, <1>6, <2>3, <3>1 DEF Abstract!ResultOf, Abstract!Result
  <2>4. CASE value.kind = "nan"
    <3>1. value'.kind = "nan" /\ gradients' = Abstract!Nans
      BY <2>4 DEF FinishDivergent, FinishSquashed, TypeOK
    <3> QED BY <1>3, <1>4, <1>6, <2>4, <3>1 DEF Abstract!ResultOf, Abstract!Result
  <2> QED BY <1>6, <2>1, <2>2, <2>3, <2>4 DEF Kinds
<1>8. outcome \in [Abstract!Pairs -> Abstract!Outcomes]
  BY DEF TypeOK, Pairs
<1> QED BY <1>2, <1>3, <1>5, <1>7, <1>8 DEF Abstract!End, Abstract!Busy, Pairs

LEMMA InitMaps == Init => Abstract!Init
  BY DEF Init, Abstract!Init, Abstract!Initial, result

LEMMA NextMaps == IInv /\ [Next]_vars => [Abstract!Next]_result
<1> SUFFICES ASSUME IInv, [Next]_vars PROVE Abstract!Next \/ result' = result
  OBVIOUS
<1>1. CASE UNCHANGED vars
  BY <1>1 DEF vars, result
<1>2. ASSUME NEW n \in ThreadCounts, SetNumThreads(n) PROVE result' = result
  BY <1>2 DEF SetNumThreads, result
<1>3. CASE Begin
  <2>1. result' = Abstract!Busy
    BY <1>3 DEF Begin, result, Abstract!Busy
  <2>2. result.status \in {"initial", "done"}
    BY <1>3 DEF Begin, result
  <2>3. Abstract!Busy.status = "busy"
    BY DEF Abstract!Busy
  <2> QED BY <2>1, <2>2, <2>3 DEF Abstract!Next, Abstract!Begin
<1>4. CASE FinishDivergent \/ FinishSquashed
  BY <1>4, FinishEnds DEF Abstract!Next, IInv
<1>5. CASE Spawn \/ StartWatcher \/ JoinWorkers \/ StopWatcher \/ InterruptWatcher \/ JoinWatcher
  <2>1. main # "idle" /\ main' # "idle"
    BY <1>5 DEF Spawn, StartWatcher, JoinWorkers, StopWatcher, InterruptWatcher, JoinWatcher
  <2> QED BY <2>1 DEF result
<1>6. CASE Watcher
  <2>1. main # "idle" /\ main' = main
    BY <1>6 DEF Watcher, WatcherChanges, CheckStop, LookAtValue, InterruptNext, Sleep, mainVars, IInv, Mains
  <2> QED BY <2>1 DEF result
<1>7. ASSUME NEW w \in Workers, Worker(w) PROVE result' = result
  <2>1. wpc[w] \notin {"none", "done"} /\ main' = main
    BY <1>7 DEF Worker, StartPair, EndBlock, NoPaths, SumPaths, SumForEver, LockGradients, UpdateGradients,
                LockValue, UpdateValue, PassInterruptionPoint, EndInterrupted, At, mainVars
  <2>2. main # "idle"
    BY <2>1 DEF IInv, Mains
  <2> QED BY <2>1, <2>2 DEF result
<1> QED BY <1>1, <1>2, <1>3, <1>4, <1>5, <1>6, <1>7 DEF Next, Evaluate

\* For any number of pairs and of threads, and however they are interleaved with the
\* watcher: the threads compute what the single-threaded description says.
THEOREM Implementation == Spec => ImplementsObjective
<1>1. Spec => Abstract!Init /\ [][Abstract!Next]_result
  BY InitMaps, NextMaps, Invariance, PTL DEF Spec
<1> QED BY <1>1 DEF ImplementsObjective, Abstract!Spec
=============================================================================
