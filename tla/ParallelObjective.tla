------------------------- MODULE ParallelObjective -------------------------
(***************************************************************************)
(* One evaluation after the other of the conditional objective function    *)
(* (train/obj-func-fst-conditional.cc) by numThreads threads: main clears  *)
(* value and gradients, spawns workers on blocks of the training pairs and *)
(* a watcher that interrupts them when the value has become infinite,      *)
(* joins them all, and turns the accumulated value into what the optimiser *)
(* sees.  The two mutexes, the reads and writes they protect, the unlocked *)
(* reads of the watcher and the interruption points are steps of their own.*)
(*                                                                         *)
(* A sum over the paths of an FST is external here: it is found to converge*)
(* or to diverge, finds no path if the FST is a clamped one, or never ends;*)
(* TimedDistance has the details.                                          *)
(***************************************************************************)
EXTENDS Integers, ExtendedReals

CONSTANTS
  N,            \* data_->size()
  ThreadCounts, \* the numbers of threads that may be asked for
  MaxCalls      \* bounds the number of evaluations

ASSUME ConstantsAssumption ==
  /\ N \in Nat \ {0}           \* an evaluation on no data is undefined
  /\ ThreadCounts \subseteq Nat \ {0}
  /\ MaxCalls \in Nat

Smaller(a, b) == IF a < b THEN a ELSE b

VARIABLES
  numThreads,   \* num_threads_
  main,         \* main's program counter
  calls,        \* evaluations begun
  value,        \* value_: its kind, and how often each term is in it
  gradients,    \* gradients_: how often each term is in it, or Nans
  prevLast,     \* the last pair of the blocks handed out so far
  spawned,      \* the number of workers spawned
  wpc,          \* each worker's program counter
  idx, last,    \* the pair a worker is at, and the last one of its block
  side,         \* whose paths it is summing
  outcome,      \* what happened to each pair in this evaluation
  gradSnap,     \* what a worker has read of the gradients ...
  valueSnap,    \* ... and of the value, under the mutex it holds
  gradLock,     \* the holder of mutex_gradient_access_
  valueLock,    \* the holder of mutex_functionval_access_
  interrupted,  \* the workers that were interrupted
  watcher,      \* the watcher's program counter
  nextVictim,   \* the thread that it interrupts next
  stop,         \* its stop flag
  wake          \* whether main has interrupted the watcher

\* One thread: main runs the loop itself, as worker 0, with no watcher.
Inline == numThreads = 1
NumWorkers == Smaller(numThreads, N)
BlockSize == N \div NumWorkers
Workers == 0 .. N - 1                 \* those that there may be ...
Started == 0 .. NumWorkers - 1        \* ... and those of this evaluation
Nobody == -1

workerVars == <<wpc, idx, last, side, outcome, gradSnap, valueSnap, gradLock, valueLock>>
watcherVars == <<watcher, nextVictim, stop, wake>>
spawnVars == <<numThreads, prevLast, spawned>>
vars == <<main, calls, value, gradients, spawnVars, workerVars, interrupted, watcherVars>>

\* What the evaluation promises; result is what the optimiser can see.  Which
\* terms are in a value that is not finite makes no difference to it.
result ==
  IF main # "idle" THEN [status |-> "busy"]
  ELSE IF calls = 0 THEN [status |-> "initial"]
  ELSE [status |-> "done", value |-> value.kind, gradients |-> gradients,
        terms |-> IF value.kind = "squashed" THEN value.terms
                  ELSE [t \in -1 .. N - 1 |-> 0]]
Abstract == INSTANCE Objective
Pairs == Abstract!Pairs
Reg == Abstract!Reg

NoValueTerms == Abstract!NoValueTerms
NoTerms == Abstract!NoTerms
AllSkipped == [p \in Pairs |-> Abstract!Skipped]
ZeroValue == [kind |-> "fin", terms |-> NoValueTerms]

Init ==
  /\ numThreads = 1
  /\ main = "idle"
  /\ calls = 0
  /\ value = ZeroValue
  /\ gradients = NoTerms
  /\ prevLast = -1 /\ spawned = 0
  /\ wpc = [w \in Workers |-> "none"]
  /\ idx = [w \in Workers |-> 0] /\ last = [w \in Workers |-> 0]
  /\ side = [w \in Workers |-> "clamped"]
  /\ outcome = AllSkipped
  /\ gradSnap = [w \in Workers |-> NoTerms]
  /\ valueSnap = [w \in Workers |-> ZeroValue]
  /\ gradLock = Nobody /\ valueLock = Nobody
  /\ interrupted = {}
  /\ watcher = "none" /\ nextVictim = 0 /\ stop = FALSE /\ wake = FALSE

-----------------------------------------------------------------------------
\* main

SetNumThreads(n) ==
  /\ main = "idle"
  /\ numThreads' = n
  /\ UNCHANGED <<main, calls, value, gradients, prevLast, spawned, workerVars, interrupted,
                 watcherVars>>

\* Fault: the gradients of the last evaluation are kept.
KeptGradients == [gradients EXCEPT ![<<Reg, "regulariser">>] = @ + 1]

InitialGradients == [NoTerms EXCEPT ![<<Reg, "regulariser">>] = @ + 1]

\* Value and gradients are cleared and then hold the regulariser.
Begin ==
  /\ main = "idle" /\ calls < MaxCalls
  /\ main' = "spawn"
  /\ calls' = calls + 1
  /\ value' = [kind |-> "fin", terms |-> [NoValueTerms EXCEPT ![Reg] = @ + 1]]
  /\ gradients' = InitialGradients
  /\ prevLast' = -1 /\ spawned' = 0
  /\ wpc' = [w \in Workers |-> "none"]
  /\ idx' = [w \in Workers |-> 0] /\ last' = [w \in Workers |-> 0]
  /\ side' = [w \in Workers |-> "clamped"]
  /\ outcome' = AllSkipped
  /\ interrupted' = {}
  /\ watcher' = "none" /\ nextVictim' = 0 /\ stop' = FALSE /\ wake' = FALSE
  /\ UNCHANGED <<numThreads, gradSnap, valueSnap, gradLock, valueLock>>

\* Fault: the last block ends one pair late.
BlockEndLate(w) == IF w < NumWorkers - 1 THEN prevLast + BlockSize ELSE N

\* The last worker takes the rest of the pairs.
BlockEnd(w) == IF w < NumWorkers - 1 THEN prevLast + BlockSize ELSE N - 1

\* The next worker is handed the next block.
Spawn ==
  LET w == spawned
  IN  /\ main = "spawn" /\ spawned \in Started
      /\ wpc' = [wpc EXCEPT ![w] = "loop"]
      /\ idx' = [idx EXCEPT ![w] = prevLast + 1]
      /\ last' = [last EXCEPT ![w] = BlockEnd(w)]
      /\ prevLast' = BlockEnd(w)
      /\ spawned' = spawned + 1
      /\ UNCHANGED <<numThreads, main, calls, value, gradients, side, outcome, gradSnap, valueSnap,
                     gradLock, valueLock, interrupted, watcherVars>>

StartWatcher ==
  /\ main = "spawn" /\ spawned = NumWorkers
  /\ main' = "join"
  /\ watcher' = IF Inline THEN "done" ELSE "check"
  /\ UNCHANGED <<calls, value, gradients, spawnVars, workerVars, interrupted,
                 nextVictim, stop, wake>>

JoinWorkers ==
  /\ main = "join" /\ \A w \in Started : wpc[w] = "done"
  /\ main' = "stop"
  /\ UNCHANGED <<calls, value, gradients, spawnVars, workerVars, interrupted, watcherVars>>

StopWatcher ==
  /\ main = "stop"
  /\ stop' = TRUE
  /\ main' = "wake"
  /\ UNCHANGED <<calls, value, gradients, spawnVars, workerVars, interrupted,
                 watcher, nextVictim, wake>>

InterruptWatcher ==
  /\ main = "wake"
  /\ wake' = TRUE
  /\ main' = "joinWatcher"
  /\ UNCHANGED <<calls, value, gradients, spawnVars, workerVars, interrupted,
                 watcher, nextVictim, stop>>

JoinWatcher ==
  /\ main = "joinWatcher" /\ watcher = "done"
  /\ main' = "finish"
  /\ UNCHANGED <<calls, value, gradients, spawnVars, workerVars, interrupted, watcherVars>>

\* The value is positive infinity: the gradients become 0 and the value 1.
FinishDivergent ==
  /\ main = "finish" /\ value.kind = "pinf"
  /\ value' = [value EXCEPT !.kind = "one"]
  /\ gradients' = NoTerms
  /\ main' = "idle"
  /\ UNCHANGED <<calls, spawnVars, workerVars, interrupted, watcherVars>>

\* Otherwise SquashFunction: v becomes v / (v + 1) and every gradient is
\* divided by the square of v + 1.
FinishSquashed ==
  /\ main = "finish" /\ value.kind # "pinf"
  /\ value' = [value EXCEPT !.kind = IF @ = "fin" THEN "squashed" ELSE "nan"]
  /\ gradients' = CASE value.kind = "fin"  -> gradients
                    [] value.kind = "ninf" -> NoTerms
                    [] value.kind = "nan"  -> Abstract!Nans
  /\ main' = "idle"
  /\ UNCHANGED <<calls, spawnVars, workerVars, interrupted, watcherVars>>

-----------------------------------------------------------------------------
\* a worker

At(w, where) == wpc[w] = where
Goto(w, where) == wpc' = [wpc EXCEPT ![w] = where]
mainVars == <<main, calls, spawnVars>>

\* The head of the loop over the block.
StartPair(w) ==
  /\ At(w, "loop") /\ idx[w] <= last[w]
  /\ Goto(w, "sum")
  /\ side' = [side EXCEPT ![w] = "clamped"]
  /\ UNCHANGED <<mainVars, value, gradients, idx, last, outcome, gradSnap, valueSnap, gradLock,
                 valueLock, interrupted, watcherVars>>

EndBlock(w) ==
  /\ At(w, "loop") /\ idx[w] > last[w]
  /\ Goto(w, "done")
  /\ UNCHANGED <<mainVars, value, gradients, idx, last, side, outcome, gradSnap, valueSnap,
                 gradLock, valueLock, interrupted, watcherVars>>

\* The clamped FST has no path: the exception is caught and the pair ignored.
NoPaths(w) ==
  /\ At(w, "sum") /\ side[w] = "clamped"
  /\ outcome' = [outcome EXCEPT ![idx[w]] = Abstract!Ignored]
  /\ Goto(w, "point")
  /\ UNCHANGED <<mainVars, value, gradients, idx, last, side, gradSnap, valueSnap, gradLock,
                 valueLock, interrupted, watcherVars>>

\* In the first evaluation the unclamped sum has no limit, and is never given up.
FoundDivergent(w) == IF side[w] = "unclamped" /\ calls = 1 THEN {FALSE} ELSE BOOLEAN

\* Forward and backward sums over the clamped or the unclamped paths.
SumPaths(w) ==
  /\ At(w, "sum")
  /\ \E diverges \in FoundDivergent(w) :
       outcome' = [outcome EXCEPT ![idx[w]] =
                     IF side[w] = "clamped"
                     THEN [status |-> "summed", clamped |-> diverges, unclamped |-> FALSE]
                     ELSE [@ EXCEPT !.unclamped = diverges]]
  /\ Goto(w, "lockGrad")
  /\ UNCHANGED <<mainVars, value, gradients, idx, last, side, gradSnap, valueSnap, gradLock,
                 valueLock, interrupted, watcherVars>>

\* The FST is divergent and there is no limit, or none any more because it has been
\* called convergent.
SumForEver(w) ==
  /\ At(w, "sum")
  /\ Goto(w, "endless")
  /\ UNCHANGED <<mainVars, value, gradients, idx, last, side, outcome, gradSnap, valueSnap, gradLock,
                 valueLock, interrupted, watcherVars>>

\* Fault: the gradients are read without waiting for the mutex.
LockGradientsFree(w) ==
  /\ At(w, "lockGrad")
  /\ gradLock' = w
  /\ gradSnap' = [gradSnap EXCEPT ![w] = gradients]
  /\ Goto(w, "updateGrad")
  /\ UNCHANGED <<valueSnap, mainVars, value, gradients, idx, last, side, outcome, valueLock,
                 interrupted, watcherVars>>

LockGradients(w) ==
  /\ At(w, "lockGrad") /\ gradLock = Nobody
  /\ gradLock' = w
  /\ gradSnap' = [gradSnap EXCEPT ![w] = gradients]
  /\ Goto(w, "updateGrad")
  /\ UNCHANGED <<valueSnap, mainVars, value, gradients, idx, last, side, outcome, valueLock,
                 interrupted, watcherVars>>

Diverged(w) ==
  IF side[w] = "clamped" THEN outcome[idx[w]].clamped ELSE outcome[idx[w]].unclamped

\* ResetArray if the sum diverged, otherwise the expected counts are added to
\* what is there.
UpdatedGradients(w) ==
  IF Diverged(w) THEN NoTerms ELSE [gradSnap[w] EXCEPT ![<<idx[w], side[w]>>] = @ + 1]

\* Fault: the mutex is not unlocked after a reset.
KeptByReset(w) == IF Diverged(w) THEN w ELSE Nobody

\* Who holds the mutex after that.
Unlocked(w) == Nobody

UpdateGradients(w) ==
  /\ At(w, "updateGrad")
  /\ gradients' = UpdatedGradients(w)
  /\ gradLock' = Unlocked(w)
  /\ gradSnap' = [gradSnap EXCEPT ![w] = NoTerms]
  /\ IF side[w] = "clamped"
     THEN Goto(w, "sum") /\ side' = [side EXCEPT ![w] = "unclamped"]
     ELSE Goto(w, "lockValue") /\ side' = side
  /\ UNCHANGED <<valueSnap, mainVars, value, idx, last, outcome, valueLock, interrupted, watcherVars>>

LockValue(w) ==
  /\ At(w, "lockValue") /\ valueLock = Nobody
  /\ valueLock' = w
  /\ valueSnap' = [valueSnap EXCEPT ![w] = value]
  /\ Goto(w, "updateValue")
  /\ UNCHANGED <<gradSnap, mainVars, value, gradients, idx, last, side, outcome, gradLock,
                 interrupted, watcherVars>>

\* value + clamped_result - unclamped_result
UpdateValue(w) ==
  LET o == outcome[idx[w]] IN
  /\ At(w, "updateValue")
  /\ value' = [kind  |-> KindSum(KindSum(valueSnap[w].kind, DistanceKind(o.clamped)),
                                 KindNegated(DistanceKind(o.unclamped))),
               terms |-> [valueSnap[w].terms EXCEPT ![idx[w]] = @ + 1]]
  /\ valueLock' = Nobody
  /\ valueSnap' = [valueSnap EXCEPT ![w] = ZeroValue]
  /\ Goto(w, "point")
  /\ UNCHANGED <<gradSnap, mainVars, gradients, idx, last, side, outcome, gradLock,
                 interrupted, watcherVars>>

\* The interruption point after each pair.
PassInterruptionPoint(w) ==
  /\ At(w, "point") /\ w \notin interrupted
  /\ idx' = [idx EXCEPT ![w] = @ + 1]
  /\ Goto(w, "loop")
  /\ UNCHANGED <<mainVars, value, gradients, last, side, outcome, gradSnap, valueSnap, gradLock,
                 valueLock, interrupted, watcherVars>>

EndInterrupted(w) ==
  /\ At(w, "point") /\ w \in interrupted
  /\ Goto(w, "done")
  /\ UNCHANGED <<mainVars, value, gradients, idx, last, side, outcome, gradSnap, valueSnap,
                 gradLock, valueLock, interrupted, watcherVars>>

Worker(w) ==
  \/ StartPair(w) \/ EndBlock(w) \/ NoPaths(w) \/ SumPaths(w) \/ SumForEver(w)
  \/ LockGradients(w) \/ UpdateGradients(w) \/ LockValue(w) \/ UpdateValue(w)
  \/ PassInterruptionPoint(w) \/ EndInterrupted(w)

-----------------------------------------------------------------------------
\* the watcher

WatcherChanges(step) ==
  /\ step
  /\ UNCHANGED <<mainVars, value, gradients, workerVars, stop, wake>>

\* while (!stop)
CheckStop ==
  /\ watcher = "check"
  /\ watcher' = IF stop THEN "done" ELSE "look"
  /\ UNCHANGED <<nextVictim, interrupted>>

\* Fault: minus infinity counts as divergence as well.
LookAtMagnitude ==
  /\ watcher = "look"
  /\ watcher' = IF value.kind \in {"pinf", "ninf"} THEN "interrupt" ELSE "sleep"
  /\ UNCHANGED <<nextVictim, interrupted>>

\* The value is read without the mutex.
LookAtValue ==
  /\ watcher = "look"
  /\ watcher' = IF value.kind = "pinf" THEN "interrupt" ELSE "sleep"
  /\ UNCHANGED <<nextVictim, interrupted>>

InterruptNext ==
  /\ watcher = "interrupt" /\ nextVictim \in Started
  /\ interrupted' = interrupted \cup {nextVictim}
  /\ nextVictim' = nextVictim + 1
  /\ watcher' = IF nextVictim + 1 \in Started THEN "interrupt" ELSE "done"

\* 10 ms, or until main interrupts it.
Sleep ==
  /\ watcher = "sleep"
  /\ watcher' = IF wake THEN "done" ELSE "check"
  /\ UNCHANGED <<nextVictim, interrupted>>

Watcher == WatcherChanges(CheckStop \/ LookAtValue \/ InterruptNext \/ Sleep)

-----------------------------------------------------------------------------

Evaluate == \/ Spawn \/ StartWatcher \/ JoinWorkers \/ StopWatcher
            \/ InterruptWatcher \/ JoinWatcher \/ FinishDivergent \/ FinishSquashed

Next == (\E n \in ThreadCounts : SetNumThreads(n)) \/ Begin \/ Evaluate \/ Watcher \/ \E w \in Workers : Worker(w)

Spec == Init /\ [][Next]_vars

\* The threads are scheduled, a mutex that stays free is taken, and a sum returns or
\* is one that never does.  Nothing makes the optimiser ask for another evaluation.
Fairness ==
  /\ WF_vars(Evaluate)
  /\ WF_vars(Watcher)
  /\ \A w \in Workers : WF_vars(Worker(w))

FairSpec == Spec /\ Fairness

-----------------------------------------------------------------------------

\* The program counters, counters and snapshots are in range.
TypeOK ==
  /\ numThreads \in ThreadCounts \cup {1}
  /\ main \in {"idle", "spawn", "join", "stop", "wake", "joinWatcher", "finish"}
  /\ calls \in 0 .. MaxCalls
  /\ value \in [kind : Kinds \cup {"one", "squashed"}, terms : [Abstract!ValueTerms -> Nat]]
  /\ gradients \in [Abstract!GradientTerms -> Nat \cup {-1}]
  /\ prevLast \in -1 .. N - 1 /\ spawned \in 0 .. N
  /\ wpc \in [Workers -> {"none", "loop", "sum", "lockGrad", "updateGrad", "lockValue",
                          "updateValue", "point", "done", "endless"}]
  /\ idx \in [Workers -> 0 .. N] /\ last \in [Workers -> 0 .. N - 1]
  /\ side \in [Workers -> Abstract!Sides]
  /\ outcome \in [Pairs -> Abstract!Outcomes]
  /\ gradLock \in Workers \cup {Nobody} /\ valueLock \in Workers \cup {Nobody}
  /\ interrupted \subseteq Workers
  /\ watcher \in {"none", "check", "look", "interrupt", "sleep", "done"}
  /\ nextVictim \in 0 .. N
  /\ stop \in BOOLEAN /\ wake \in BOOLEAN

\* What a worker has read under a mutex is still there when it writes the sum
\* back: no contribution of another thread, and no reset, is lost.
NoLostUpdate ==
  \A w \in Workers : /\ wpc[w] = "updateGrad" => gradSnap[w] = gradients
                     /\ wpc[w] = "updateValue" => valueSnap[w] = value

\* A worker is interrupted only in an evaluation whose value has become
\* infinite, and such an evaluation never ends with a finite value: cutting
\* it short does not pass for a complete one.
InterruptedOnlyOnDivergence ==
  interrupted # {} => value.kind \in {"pinf", "nan", "one"}

\* The threads together compute what the single-threaded description says:
\* value and gradients are sums over every pair not ignored, each exactly once,
\* or the values that stand for divergence.
ImplementsObjective == Abstract!Spec

\* Every evaluation returns, unless a worker's sum never ends: nobody waits for ever
\* on a mutex, on a worker that goes on, or on the watcher.
EvaluationReturns == main # "idle" ~> main = "idle" \/ \E w \in Workers : wpc[w] = "endless"

\* obj-func-fst.h says of SquashFunction that it modifies value and gradients
\* so that the highest value is 1.0.
HighestValueIsOne == main = "idle" /\ calls > 0 => value.kind \in {"squashed", "one"}
=============================================================================
