# fstrain: a TLA+ model

fstrain builds weighted finite-state transducers from aligned string pairs and
trains them: a model FST carries features on its arcs, an objective function
sums over all paths of the training pairs to get the likelihood and the expected
feature counts, and an optimiser written in R, or an online trainer, changes the
feature weights. This directory holds TLA+ modules that model the parts of it
whose correctness rests on state, order, concurrency or a long construction, the
TLC configurations that check them, and proofs for TLAPS.

`tlc -config X.cfg M.tla` runs a check, `tlapm M.tla` a proof module; the runs
are listed below. `PROJECT.json` gives for every definition the source lines
that it models, for every property a faulty variant that breaks it, the hazards
with the properties that would show them, and the disagreements found.
Definitions marked "Fault:" are those variants. Nothing uses them: they serve to
see that a property fails when the code is wrong.

## The system and what is modelled

| Part (under `src/fstrain`, but for `scripts`) | State it keeps | Operations | Modelled by | How much |
|---|---|---|---|---|
| `core`: expectation semiring, shared vectors | reference counts, pointers, contents | copy, assign, destroy, mutable getter, plus, times | `SharedExpectations`, `WeightValues`, `ExpectationSemiring` | all |
| `core`: signed negative-log numbers | none | sum, product, quotient | `ExpectationSemiring` | all, without rounding |
| `core`: arc type, registration | none | type plumbing for OpenFst | - | not |
| `train`: conditional objective, its threads | value, gradients, mutexes, watcher | evaluate, set the number of threads | `ParallelObjective`, `Objective`, `ExtendedReals` | all |
| `train`: time limits of the sums | `timelimit_ms_`, local limits | sum under a limit, raise the limit | `TimedDistance` | all |
| `train`: forward-backward sums, counts | distance vectors, queue | sum in both directions, repeat, count | `PathSums`, `ExpectationSums` | all, on acyclic FSTs |
| `util`: convergence check | three counters, the last estimate | loop | `CheckConvergence` | the loop; the power iteration is an input |
| `train/online`, `transducer-train` | weights, penalties, zero set | passes, batches, penalty, output | `CumulativeL1`, `OnlineTraining` | all |
| `train`: joint, length-matching, third-variable objectives | excluded pairs, value, gradients, limit | evaluate one pair after the other | `SequentialObjective`, `ExpectationSums` | without printing and setters |
| `train`: feature weights | arc weights | recompute from parameters | `ExpectationSemiring`, `ExpectationSums`, `TrainingSession` | all |
| `train`: factory, R interface; `scripts`: optimisers | the one objective object, parameters, files | create, value, gradient, save, destroy; rprop, L-BFGS | `TrainingSession` | without the readers of data files |
| `create`: n-gram counts, tries, back-off | trie, counts, back-off arcs | count, unite, prune, back off | `NgramCounts`, `CreateModel` | all |
| `create`: topology, well-formedness, lattices | automata | constructions | `AlignmentSymbols`, `NgramCounts`, `CreateModel` | without letter types |
| `create`: features, `r2191`, `noepshist` | histories, feature names | extract, insert, merge histories | `CreateModel`, `Noepshist` | the libraries `simple`, latent annotations, length |
| `util`: maps, data, symbols | maps, training pairs | add, multiply lazily, read | `ExpectationSemiring`, `NgramCounts` | the maps |
| `util`: FST algorithms | automata | determinised union, matrix distance, phi matcher | `NgramCounts`, `PathSums`, `CreateModel` | those that training uses |
| `util`: options, timing, memory, printing | - | input, output, measurement | - | not |
| `drivers`, `glue` | - | fixed sequences of the above | `CreateAndTrain`, `OnlineTraining` | creation, training, online training |

How the parts meet. `train.R` calls `Init_FromAlignment`, `Init_Ngram` or
`Init_FromFile` in `glue/`. The first two build a model (`create/`): the
alignments of the data are counted as n-grams, the trie of n-grams becomes a
scoring machine with back-off, features are put on its arcs and numbered. Then
one global objective function object is made, and the R optimiser asks it for
value and gradient. `SetFeatureWeights` puts the parameters on the arcs of the
model FST, whose weights hold a feature vector each (`MDExpectations`). The
objective then goes through the training pairs, in several threads for the
conditional one: every thread composes a pair with the model FST (copying arc
weights, whose vectors are shared with the model and so between the threads),
sums over the paths in both directions under a time limit, tests for convergence
when the limit was reached, and adds the expected counts and the log likelihood
to the common gradients and value under two mutexes. A watcher thread interrupts
the others when the value has become infinite. At the end the weights, the names
and the FST are saved, and may start another session. `transducer-train` reads
such an FST and trains it online instead.

What is hard here, and what makes each part correct:

* shared vectors: the count is tested, decremented and read in separate steps by
  threads that share it. Correct: counts are exact, no vector is freed early,
  twice or never, and sharing cannot be observed.
* the arithmetic: signs and magnitudes apart, two zeros, vectors that store only
  some features. Correct: numbers and weights compute what they stand for.
* the parallel objective: interleavings of workers, watcher and main, pairs that
  fail or diverge in the middle, an evaluation cut short. Correct: the result is
  the one a single thread would get, and an evaluation returns unless one of its
  sums never does.
* the sequential objectives: pairs excluded in one evaluation and missing in the
  next, an early end on an infinite value. Correct: what the optimiser gets is
  complete or plainly infinite.
* the time limit: read and written by all threads without a mutex. Correct: no
  sum gets less than the minimal limit, none loses its limit, and a pair under a
  limit ends unless the convergence test wrongly lifts it.
* the sums: any order of the queue, interrupted and repeated sums, vectors of
  different lengths, shifted indices, feature vectors recovered from quotients.
  Correct: sums, counts and length gradients are those over all paths.
* the convergence loop: three counters with different resets, and a loop that
  leaves before it stores what it has seen. Correct: the verdict is earned.
* online training: a feature misses any number of batches and its weight changes
  sign in between. Correct: the penalty is bounded, accounted and complete, and
  no weight contradicts its data.
* the construction: counts merged into a trie that changes, leaves bent to
  back-off states found in the same changing machine, symbols chosen by weight,
  histories shared by paths. Correct: counts are exact, the model accepts what it
  must, and a feature fires where its n-gram is, and only there.
* the session: which vector the value, the gradients, the arcs and the files
  belong to. Correct: the optimiser's gradients are those of its vector, and what
  is saved can be used again.

## The modules

`A -> B` below reads "A extends B".

    SharedExpectations -> (WeightValues by INSTANCE)      SharedExpectationsProofs
    ParallelObjective  -> ExtendedReals                   ParallelObjectiveProofs
                          (Objective by INSTANCE)
    SequentialObjective -> ExtendedReals                  SequentialObjectiveProofs
    TimedDistance, CheckConvergence                       LimitsAndPenaltiesProofs
    ExpectationSums -> PathSums, ExpectationSemiring      ExpectationSumsProofs
    OnlineTraining -> CumulativeL1                        LimitsAndPenaltiesProofs
    CreateAndTrain -> TrainingSession,                    CreateAndTrainProofs,
                      Noepshist -> CreateModel              NgramCountsProofs,
                        -> NgramCounts -> AlignmentSymbols  ModelAcceptanceProofs

### SharedExpectations, WeightValues

`core/expectation-weight.h`, `core/expectations.h`. A handle is one
`MDExpectationWeight`, `ptr` its `expectations_`; an object is one
`MDExpectations` with `count_` and contents; `heap` the objects that are
allocated. `CopyConstruct`, `Assign` and `Destroy` are the special members.
`decCount()` is the three steps it has in the code: `DecCheck` tests
`count_ > 0`, `DecSub` is the atomic subtraction, `DecReread` reads the count
again, and `Delete` frees the object. The mutable getter is `GetFresh` (no
object yet), `GetShared` (copy on write; its call of `decCount()`, whose result
is ignored, is `CowCheck` and `CowSub`) or `GetSole`, followed by the `Write` of
the caller. Two callers exist: main, which changes the model's weights while no
worker runs, and the workers, which read the model's weights and change only
their own (phases `seq` and `par`; `Fork` and `Join`). This discipline is what
the users of the class follow and what the proof needs: two workers hold the
same object only if the model holds it too, so the count cannot reach 0 while
they run. The increment and the subtraction are the atomic
`__sync` builtins that `expectations.h` calls, one step each.

`WeightValues` is what users rely on: every weight has a vector of its own.
`WeightsAreValues` states that `SharedExpectations` implements it, under the
mapping that reads a handle's vector through its pointer.

### ExpectationSemiring

The contents of those vectors. A signed number is a magnitude and a sign, as in
`neg-log-of-signed-num.h`; the negative log is left out, so that magnitudes are
natural numbers and a quotient is taken only where it is a whole one. The case
distinctions are the code's, and so are its two zeros: equal magnitudes with
opposite signs give a zero with the sign of the operand taken as the larger one,
and `operator==` tells these zeros apart. `Plus` and `Times` are those of the
weights, with the lazily added and multiplied vectors of `util/`. `SetFeatures`
finds out how often a feature fires on an arc by dividing what the last call
wrote by the value it wrote.

### ParallelObjective, Objective, ExtendedReals

`train/obj-func-fst-conditional.cc`, `obj-func-fst.cc`, `obj-func-fst-util.h`.
Main, the workers and the watcher have program counters; the step that takes a
mutex and reads, and the step that writes and releases it, are separate. The
value is a pair of its IEEE kind and of how often each term is in it (the
regulariser, each pair), the gradients a count for each term (regulariser, pair
and side), so that a lost, doubled or leftover contribution is visible. The sum
over the paths of a pair converges, is found to diverge, finds no path, or never
returns (`SumForEver`), by choice; the unclamped one of the first evaluation, which
has no limit, is never found to diverge (`FoundDivergent`). The
number of threads may be changed between evaluations, and with one thread main
runs the loop itself.

`Objective` says what an evaluation promises without threads: the result is a
function of what happened to each pair, and a pair is skipped only if another
one has diverged. `ImplementsObjective` is the refinement.

### SequentialObjective

`train/obj-func-fst-joint.cc`, `obj-func-fst-conditional-lenmatch.cc`,
`obj-func-fst-condother-lenmatch.cc`, and the length regulariser in
`lenmatch.h`; `variant` chooses the class. An evaluation is a loop over
the pairs with one action for each sum (`SumClamped`, `SumUnclamped`), then the
sum over the whole model (`SumModel`, joint) or the difference in length
(`SumLengths`, the others). `NoPaths` is the exception that the loop catches:
the pair enters `exclude_data_indices_`, which no evaluation clears. `hasPath`
is fixed, since the parameters change weights and never the topology; whether a
sum diverges is chosen for every sum. Values and gradients count terms as in
`ParallelObjective`.

`UnclampedLimit` and `EndLoop` are the differences in the use of the time limit:
with length matching the unclamped sums of the first evaluation have none; with
a third variable the very first one has 10^8 ms and sets the limit, and after
the first loop the limit is lifted for good. When the value ends as positive
infinity it becomes 1 and the gradients are left as they are, so that they may
still hold the length terms. `CompleteOrInfinite` has three parts: a finite value
is made of every pair that has a path and of nothing else; an infinite one has
forgotten the pairs; and the optimiser gets a number unless a clamped sum was
found to diverge. How a limit grows is left to `TimedDistance`: here there is one
or none, and with one the convergence test may be wrong in both ways: a convergent
FST is called divergent, or a divergent one convergent, which is then summed again
without a limit and for ever (`RerunForEver`), or, in matrix form, returns.

### TimedDistance

`TimedShortestDistance` in `train/obj-func-fst-util.h` and `train/timeout.h`,
with the limits the conditional objective passes: a copy of `timelimit_ms_` for
the clamped FST, a local "unlimited" for the unclamped one in the first
evaluation, and `timelimit_ms_` itself, shared by all workers, in later ones.
`max(*t, min(*t * 2, elapsed))` is two reads and a write. The outcome of the
convergence test is a choice, and may be wrong in both ways (the second finding on
it below says how); the time a rerun takes is an input. A divergent FST that was
called convergent is summed without a limit and has no further step, unless the
matrix form is used, whose iterations are bounded.

### PathSums, ExpectationSums

`train/shortest-distance-timeout.h`, `util/shortest-distance-m.h` and
`GetFeatureMDExpectations`. The queue loop is one action (`Relax`) that may
dequeue any state in the queue, which covers every queue discipline;
`RunOutOfTime` may stop it at any turn, after which the sum is started again into
the same vectors (`RerunUnlimited`), or continued as the iterated matrix product
(`RerunMatrix`, `MatrixStep`). The backward sum runs over the reversed FST with
its superfinal state 0 and drops that state again (`Betas`). The reference
definitions (`PathSum`, `SumFrom`, `SumThrough`) enumerate paths.

The matrix form only resizes the vector it is given and sets the source anew, so
that what the interrupted sum has left in the other entries stays in the
result; for the betas the entries are shifted by one, since the superfinal state
has been dropped. This is against what the function promises: `MatrixSumsExact`
states the promise, and is found violated. `left` remembers what the vector held;
`SumsExact` and `CountsExact` speak of the sums into which nothing was left
(`Untainted`). The code always makes its 10000 iterations; the model stops when
another one changes nothing.

`ExpectationSums` puts features on the arcs: each arc has one of its own, which
makes its weight, and all share one that fires as often as the arc is long.
`FeatureArc` is an arc whose weight has been set twice, by `SetFeatures`.
`FeatExpectation` is the expected count, `LengthGradient` the gradient of the
length penalty made from sums of expectation weights (`AddLengthRegularization`);
`ExpectationsExact` compares them with counts and covariances over the paths.
Both are numerators: the denominators are powers of the total and the variance.

### CheckConvergence

The loop of `util/check-convergence.h` with its counters; the estimates of the
power iteration are inputs, in any sequence, with the special values Zero and
NaN among them.

### CumulativeL1, OnlineTraining

`CumulativeL1Trainer` in `train/online/train.h`. `Update(i)` is one iteration of
the loop over the batch gradient, `ApplyPenalty` included; `u` and `q` are `u_`
and `q_`. `applied` is a history variable.

`OnlineTraining` is the program around it, `drivers/transducer-train.cc` with
`train/online/fst-stuff.h`: options, passes over the data one pair to a batch in
the order of the file (the comment of `FstBatches::Init` says that it permutes
them, but it does not), the trainer with and without penalty, the falling
learning rate, the end on a pair that cannot be summed, and the output. A path is
the set of features that fire on it; the expected count of a feature may be
anything that the paths allow: all if it is on every path, nothing if on none,
something between otherwise. A feature fires at most once on a path. Weights
start at 0 whatever the file holds. `FavoursTheTruth` follows the sign of a
weight through all of this.

### AlignmentSymbols, NgramCounts

The alphabet of alignment symbols with its annotations (conjugation classes,
change regions), the machine of well-formed strings (`WfArc`, three machines read
together), and the strings between `proj_up` and `proj_down` (`Alignments`).
`IsWellFormed` is the description of the same set by quantifiers. Classes and
regions can be asked for together. The symbols that stand for identities then get
odd regions like all others (`getChangeSegSymbolTable` looks for the identity in a
name that ends with a class), against assertions in `get-well-formed.cc` that the
default Release build drops, so that a region may mix changes and identities and
ends at an identity (`RegionsMixed`); without classes regions alternate
(`RegionsRise`).

An input is a corpus of pairs of strings, each with the alignments that the
alignment FST allows. Only `v3`, and the older versions when they prune, look at
the latter; without pruning the older ones take every alignment of the two
strings (`AlignmentsOf`).

`AddCounts` takes the lattice of the next pair, normalises it and counts its
n-grams; `ProcessSubset` is one subset of `util::DeterminizedUnion`, which unites
the counts with the trie state by state, with residual weights; `Select` chooses
the essential symbols (`ExtractEssentialAlignSyms`: the heaviest until the mass is
covered, at least one for each input letter, whatever the threshold), adds those that no pair has
as unigrams, and drops the weights. `CreateNgramTrie` is the way without data.
`DoubleFree` ends the creation where the code deletes its symbol table twice
(change regions without classes).

### CreateModel

A model is made for each back-off model of symbols and for the symbols
themselves. `AddBackoffArc` and `AddPhiArc` are the turns of the recursive
`AddBackoff`, on the trie that they change; `Convert` makes the trie a machine;
`NgramFsaInsertFeatures` composes it with the well-formed strings, finds the
history of each state as the common suffix of the paths to it, and puts features
on the arcs; `CreateScoringFst` intersects all models, the limit on insertions
and the hooks. Feature libraries: `simple`, those with latent annotations (every
choice of the parts of a symbol) and those with length features.

### Noepshist

The other topology: a state is a history of letters read and written, with
back-off by dropping letters, the longer result first (`Backoffs`); states are
made as they are reached (`AddArcs`). Unigram histories are always allowed, so
that even a model of order 1 has bigram features; the features of `S|S` are named
but never fire; the back-off, library and pruning options have no effect.

### TrainingSession, CreateAndTrain

`scripts/train.R`, `train-condother.R`, `rprop2.R` and the C interface. A
parameter vector is a number that says when it was made; `onArcs`, `evaluated`,
`initParams`, `params` and `saved` say which vector is where. `Given` is R's partial
matching of `$`: `--lenmatch-variance` alone also counts as `--lenmatch`. The
ways in which a session ends early are actions (`Quit`, `CannotCreate`,
`NoSuchFile`, `NotALenmatchObject`, `CannotGoOn`, `ReadBeyond`), and so is that it never
ends because a sum does not (`SumForEver`). The files of weights and of names have
lengths of their own, `weightsLines` and `namesLines`, which nobody compares:
`train.R` makes the first vector longer if it must (`ExtendedLength`),
`train-condother.R` takes the file as it is (`FileLength`), so that the vector can be too
short for the machine. rprop keeps the level of each
update, the remembered sign and, as history, which updates were just reduced.
L-BFGS is R's and external: it evaluates vectors and returns one of them.

`CreateAndTrain` composes the creation with the session: `HandOver` gives the
number of names and of parameters to the new object (`NumbersInOrder`,
`NumbersWithFile`), which need not agree, as not every feature that has a name is
on an arc of the result.

## What the runs check

| Run | Module, cfg | Bounds | Shows |
|---|---|---|---|
| `shared_expectations` | `MCSharedExpectations` | main, 2 workers, 5 weights, 4 objects, 2 contents | `NoDangling`, `CountExact`, `NoLeak`, `WriteIsExclusive`, refinement of `WeightValues` |
| `parallel_objective` | `ParallelObjective` | 3 pairs, 1 or 2 threads, 2 evaluations | `NoLostUpdate`, `InterruptedOnlyOnDivergence`, refinement of `Objective`, `EvaluationReturns` |
| `parallel_objective_nan` | `ParallelObjective`, `ParallelObjectiveNaN` | 2 pairs, 1 evaluation | violation of `HighestValueIsOne` |
| `sequential_objective` | `SequentialObjective` | 3 pairs, 3 evaluations | `CompleteOrInfinite`, `LimitedEvaluationReturns` |
| `sum_limits` | `MCSumLimits`, `SumLimits` | 2 workers, limit none, 0 or 3, times up to 4 (minimum 2); all sequences of up to 6 estimates | `EffectiveLimit`, `PairEnds`, `ConvergentIsEarned` |
| `timed_distance_race` | `MCTimedDistance`, `TimedDistanceRace` | the limits of `sum_limits` | violation of `LimitNeverShrinks` |
| `path_sums` | `MCExpectationSums` | all acyclic FSTs with 4 states and weights 0 or 2, with and without the matrix form | `SumsExact`, `CountsExact`, `ExpectationsExact`, `SumsEnd` |
| `matrix_sums` | `MCExpectationSums`, `MatrixSums` | the same with 3 states | violation of `MatrixSumsExact` |
| `check_convergence_abort` | `MCCheckConvergence`, `CheckConvergenceAbort` | the estimates of `sum_limits` | violation of `AbortedMeansDivergent` |
| `online_training` | `MCOnlineTraining` | 3 features, 2 passes of 2 batches, any two of six pairs, rates 1 and 2 | `PenaltyBounded`, `WeightAccounted`, `CaughtUp`, `PenaltyShrinks`, `FavoursTheTruth` |
| `create_and_train` | `MCCreateAndTrain` | see below | `NgramCountsExact`, `LatticeIsWellFormed`, `LongestHistory`, `AcceptsWhatWasSeen`, `AcceptsEssential`, `FeaturesMatchHistory`, `NoepsFeaturesMatch`, `GradientsOfVector`, `FilesCanStartSession`, `HalvedNotTwice`, `SessionEnds` |
| `saved_files` | `TrainingSession`, `TrainingSessionFiles` | 1 option, 2 iterations or evaluations | violation of `SavedFilesAgree` |

The passing runs but for `sequential_objective` also check a type invariant
(`TypeOK`, `AllTypesOK`); `SequentialObjective` and `CheckConvergence` state theirs
for the reader. Why the bounds are enough:

* `shared_expectations`: an object can be shared inside a thread, between a
  worker and the model and between two workers through the model; with four
  objects all of them can exist while one is being freed. Objects are symmetric.
* `parallel_objective`: 3 pairs over 2 threads make blocks of different sizes;
  the second evaluation finds whatever the first one left behind, after any of its
  outcomes. The number of threads is at most the number of pairs here, as
  `std::min` makes it.
* `sequential_objective`: of three pairs one can be excluded, one can end the
  evaluation and one be left for the next; of three evaluations one can be cut
  short, one exclude the rest and one come after both.
* `sum_limits`: times reach from below the minimal limit to twice it and above the
  other limit, so that a limit can be raised and capped; with two workers
  each read can be followed by a write of the other. 6 iterations leave room for
  the minimal number of estimates (3), two close ones and three bad ones in any
  mixture. The two parts of this run never interleave: the convergence test has no
  state outside of its call, and its answer is a choice in the other part.
* `path_sums`: with four states there are paths of different lengths to the same
  state, so that a state is dequeued before all that it will receive has
  arrived; the weight 2 tells paths of different lengths apart.
* `online_training`: two batches make a feature miss one, two passes make its
  weight change sign after that. The six pairs prefer a feature, disfavour it,
  leave it open, have it on every path, and have no path. An expected count of 1
  is 3 units, so that two shares between 0 and 1 exist and gradients differ in
  size from the penalty.
* `create_and_train`: one input letter `a` and two output letters `a`, `x` give
  identities, changes, insertions and deletions; two output letters in a row and
  the limits none, 0 and 1 make the limit bite; corpora are empty, of one pair,
  of two pairs that share n-grams or not, with a pair that has no alignment, one whose
  alignments have two insertions in a row, and alignments that are pruned to one.
  The topologies are all code versions, orders 1 to 3, two conjugation classes,
  one change region, one class with two regions, pruned alignments, the back-off
  models `id`, `tlm`, `vc` and two of them together, thresholds 1/2 (which less than
  one symbol can cover) and 99/100, and five feature libraries.
  Models are tried on strings and paths of up to 3 symbols (`MaxWalk`), which is
  the longest n-gram. Sessions have up to 4 options; rprop has 4 iterations, in
  which an update can fall, rest and fall again, over 2 tracked parameters; L-BFGS
  2 evaluations. Sessions that create their own model use L-BFGS, with no option
  or with files of names and of weights, each of them with one line less than there are
  features, as many, or one more. Sessions that read their model, or get one made
  elsewhere, have up to 4 of all options, and files of 1 or 2 lines for up to 2
  parameters.

Deadlock is not checked where the system stops: after the last evaluation
(`ParallelObjective`, `SequentialObjective`, where the only thread may also stay
in a divergent sum without a limit), when the sums are done (`PathSums`), when
the verdict is given (`CheckConvergence`), after the last pass or a failure
(`OnlineTraining`), and in `TimedDistance`, where a worker may rest in a sum that
never ends: a divergent FST without a limit. In `SharedExpectations` TLC checks that
there is none. In `create_and_train` too, so that no creation is stuck between two of its
steps: `MCSpec` lets a session that is over, or in a sum for ever, stutter.

## Fairness

A sum over the paths of a divergent FST returns only if a limit stops it. There
is none in the first unclamped sum of most objective functions, nor after
`SetTimelimit(-1)`, nor when the convergence test has called the FST convergent. No
module assumes that such a sum returns: it is an action that leads to a state without
an end (`SumForEver`, `RerunForEver`) or an action that is not enabled (`Rerun`,
`FinishInTime`), and the liveness properties name that state as the one other outcome.

* `ParallelObjective`: weak fairness of main inside an evaluation, of the
  watcher and of every worker. The operating system schedules runnable threads;
  a mutex is held for two steps only. A worker in a sum takes one step more: the
  sum returns or is one that never does. No strong fairness is needed because in
  the model a worker that waits for a mutex keeps waiting only while others use
  it, and they have finitely many pairs. Nothing makes the optimiser ask for
  another evaluation. `EvaluationReturns` says that main returns unless a
  worker's sum never does: no mutex, watcher or join makes it wait for ever.
* `SequentialObjective`: weak fairness of the only thread inside an evaluation. A
  sum over a divergent FST without a limit has no step; one with a limit returns, or is
  called convergent and made again without. `LimitedEvaluationReturns` speaks of
  evaluations after the first, under a limit, and has the second as its exception.
* `TimedDistance`: weak fairness of every worker inside a pair. A sum over a
  divergent FST has no action that completes it, only the timeout; when it has been
  called convergent there is none at all, without the matrix form, which is the
  exception in `PairEnds`.
* `PathSums`: weak fairness of the loop, which runs in one thread.
* `CreateAndTrain`: weak fairness of the script, a single thread, once the
  machine is there. `SessionEnds` starts there: TLC would have to work out in every
  state of the creation whether one of its large steps is enabled, and that none
  of its states is stuck is checked as deadlock. Its exceptions are the two ways in
  which a session goes on for ever: a sum that never returns, in the gradient check
  or in an evaluation of the optimiser, and forcing convergence on an FST that no
  penalty makes convergent.
* The other modules state no fairness: they make no promise that something
  happens.

## What is proved

Each proof module extends the module that it is about and proves theorems of
the form `Spec => []Inv` from an inductive invariant: `IInv` or a name of its own, which
holds initially (`Init...`), is kept by each action (one lemma per action) and
implies the properties. Nothing is assumed but the `ASSUME`s of the modules,
which TLC evaluates in the runs and which only say what kind of value a constant is,
and where it must not be 0.

**SharedExpectationsProofs**, for any number of workers, weights and objects:
`TypeCorrect`, `MemorySafe` (`NoDangling`, `CountExact`, `NoLeak`; the first and
the last also by themselves, `NeverDangles` and `NeverLeaks`), `ExclusiveWrites`
and the refinement, `Refinement` (`WeightsAreValues`). `ConstantsAssumption`
says that main is not a worker, that every weight has one owner, and that threads
and weights are finite sets and disjoint. The invariant adds to the checked
properties what they rest on: `LocalState` (what a thread's program counter says
about what it holds), `PhaseState` (main and the workers never run together, and
workers leave no weights behind), `SharedThroughModel` (two workers have an
object in common only if the model refers to it too), `SoleDeleter` (who deletes
an object is alone with it) and `UnsharedState` (a vector that is about to be
written has one referent). `SharedThroughModel` is the heart: without it the
separate re-reading of the count in `decCount()` could let two threads delete the
same object. The cardinality of the set of referents is handled by two lemmas on
finite sets.

**ParallelObjectiveProofs**, for any number of pairs, threads and evaluations:
`TypeCorrect`, `UpdatesKept` (`NoLostUpdate`), `InterruptsJustified`
(`InterruptedOnlyOnDivergence`) and the refinement, `Implementation`
(`ImplementsObjective`). The blocks of the workers are disjoint and cover the
pairs handed out so far (`Blocks`), although the size of a block is a rounded
quotient; a worker inside a mutex holds a copy that is still current
(the locks); the sums contain of each pair what the counter of its worker says,
as long as nothing has diverged, and nothing but later terms once something has
(`PairsOK`, `RegOK`, `KindOK`). At the end of an evaluation all pairs are passed or
the value is infinite, so that the last step is one of `Objective`, and all others
are stutters.

**SequentialObjectiveProofs**, for any number of pairs and evaluations, in all
three classes: `TypeCorrect` and `Complete` (`CompleteOrInfinite`). While the
value is finite no sum has diverged, and value and gradients are made of the
terms of the pairs with a path that the loop has passed (`Exact`); the value
becomes positive infinity only in a step that resets the gradients and ends
the loop; negative infinity comes from clamped sums only. Terms that are still to be
added are in no sum (`Fresh`).

**LimitsAndPenaltiesProofs**. About the time limits (`LimitSpec`), for any number of
workers, limits and times: `LimitTypeCorrect`, `LimitEffective` (`EffectiveLimit`) and `LimitIsKept` (nobody lifts
the shared limit or sets one where there is none). What a worker has tested may be
changed by another one before it is used, so that the test proves nothing about
later steps; what does is that limits only change to good ones (`WrittenLimit`),
so that a limit found good stays good. About the convergence test (`CheckSpec`),
which decides about a sum that has run out of time, for any sequence of estimates
and any limits: `CheckTypeCorrect`, `EarnsConvergence` (`ConvergentIsEarned`). The loop keeps no history;
the invariant says what its counters mean for the history of the model: the
last `numConverged` estimates are each close to the one before.

About online training, for any features, gradients, rates and numbers of passes
and batches. The trainer with arbitrary batches (`Spec`): `PenaltyTypeCorrect`,
`PenaltyCorrect` (`PenaltyBounded`, `WeightAccounted`, `CaughtUp`) and `Shrinks`
(`PenaltyShrinks`); the conjunction of the invariants is inductive by itself, and
`PenaltyStep` is the arithmetic of `ApplyPenalty`, where `PenaltyBounded` before
the step is needed for the penalty to move a weight towards 0. The whole
program (`OnlineSpec`), where batches come from data and there is a second
trainer: the same five (`OnlineTypes`, `OnlineBounded`, `OnlineAccounted`,
`OnlineCaughtUp`, `OnlineShrinks`) and `TruthFavoured` (`FavoursTheTruth`): for any data,
each gradient that a pair gives to a feature has the sign that the data
prescribes, if it prescribes one, and neither a step nor a penalty can give the
weight another one.

**ExpectationSumsProofs**, in four parts.
(1) For all numbers and weights: `PlusCorrect` and `TimesCorrect` (a sum and a
product stand for the sum and the product, in every case of signs and
magnitudes), `WeightPlus` and `WeightTimes` (the same for weights, feature by
feature, those included that a vector does not store), `Semiring` (weights are a
commutative semiring, up to the sign of 0 and to expectations of 0 that are
stored or not, which is what can be seen of them) and `WrittenRead` (a weight that
is written to a file and read again keeps its value and the absolute values of its
expectations; the sign of an expectation is not written).
(2) A library on the folds that sums over sets are written with: they do not
depend on the order in which `CHOOSE` takes the members, and can be added, scaled,
split, mapped and exchanged. With it: the sums over the paths of an acyclic FST
can be made by first or by last arc (`PathSumFirst`, `PathSumLast`), and
the sum over the accepted paths through an arc is a product (`SumThroughArc`).
(3) For every acyclic FST, all weights, every order of the queue, and wherever a sum
is interrupted and however it is repeated: `SumsInvariance`, `SumsTypes`,
`SumsAreExact` (`SumsExact`) and `CountsAreExact` (`CountsExact`), with the exception
that both properties make: a matrix sum that finds something in its vector.
The heart of `SumsInv` is `NothingLost`: what a node lacks is what the nodes
before it have received and not yet passed on, times the weights of the paths from them.
`Relax` moves a weight from one side of this equation to the other, an iteration
of the matrix form moves all of them, and when nothing waits nothing is lacking.
(4) For every acyclic FST, all weights and all features of the arcs:
`ExpectationsAreExact` (`ExpectationsExact`). What a feature weighs on an arc is
found again from the weight that it gave the arc (`SetFeaturesIs`, `FeatureArcIs`), so
that the counts of the arcs add up to the counts on the paths
(`FeatExpectationExact`). For the gradients of the length penalty: two paths that
meet in a state are one path, each path through a state or an arc comes
apart in one way (`JoinPaths`, `PathsThroughAre`), lengths add and weights multiply
(`JoinWeights`, `JoinLengths`). So a sum over the paths to an arc, the arc and the
paths from it is a product rule (`LengthThroughIs`), which is the one that
`Times` has in its second component: the alphas and betas that `PathSums` leaves
as weights are the sums and the total lengths of the paths (`LengthAlphasAre`,
`LengthBetasAre`). The rest is arithmetic of finite sums of integers
(`GradientOfIs`, `CovarianceIs`). `LeftByMatrixInv` says that only the matrix
form finds anything in the vectors when it is repeated; what its sums are then is said
in the invariant (`NothingLostButLeft`), and is no property.

Facts about all finite sets, all states or all paths are shown by looking at the
smallest set (`FS_StrictSubsetOrderingWellFounded`), or the last state, for which
they are false; this takes the place of the induction theorems, whose
operator parameters the provers cannot instantiate.

**CreateAndTrainProofs**. About every history of sessions, creation included
(`AllSpec`): `GradientsBelong` (`GradientsOfVector`) and `NeverHalvedTwice`
(`HalvedNotTwice`); rprop forgets the sign of each parameter whose update it has just
made smaller (`HalvedForgotten`). About one session with any machine (`Spec` of
`TrainingSession`) with files of any two lengths: `SessionTypeCorrect` (everything in
range, rprop's memory as long as its parameters, no parameter without a name) and
`FilesStartSession` (`FilesCanStartSession`). The lengths of the vectors are followed
through the session (`KeptLengths`): they come from the files and the machine, and an
optimiser that goes on has looked at them, because R or the C code stops otherwise.

About the creation: `WellFormedLanguage` says that the machine of the well-formed
strings accepts exactly the strings that `IsWellFormed` describes, for any limit,
number of classes and of regions, and any string of annotated symbols. For each of the
three machines there is a predicate that says what a state means for the symbols
read so far (`LimitSays`: how many insertions end the string; `ConjSays`: the
class of all of them; `ChgSegSays`: the region of the last one), and a lemma that
its arcs keep it, in both directions (`LimitStep`, `ConjStep`, `ChgSegStep`); the
states that the determinised machine is in are the triples of which all three
hold (`InnerStep`). `LatticesWellFormed` carries this to every creation
(`AllSpec`), for any letters, topologies and corpora: `LatticeIsWellFormed`. For this
every symbol of the table is annotated (`TableType`, kept by the steps as
`TableMade`), every alignment has S|S and E|E only at its ends
(`AlignmentsOfType`) and annotating changes neither (`AnnotateType`). Classes and regions
together are included: what a region may follow (`RegionFollows`) then depends on the
next symbol only, as all numbers are odd.

About the n-grams: `TrieTypeCorrect` (the trie is a trie after every step of the
union, a subset at a time) and `NgramsOfThePairs` (when the union of a pair is
complete, the trie has exactly the n-grams of the lattices counted so far, in any
order of the queue) rest on an invariant about the queued subsets: what one will still
add are the n-grams of the pair that continue its own (`CountInv`). `BackoffIsLongest`
(`LongestHistory`) and `BackoffFindsArcs` (the assertion in `AddBackoff` never
fails) follow the depth-first calls: a trie of n-grams is closed under leaving out
the first and the last symbol (`Grams`), also after the labels are replaced by
coarser ones (`InLabelsGrams`); a state is untouched, on the stack, or done
(`Backing`), and the back-off state of a call has the arcs that the call needs
because suffixes are shorter and are bent later or not at all.

What a fold or a recursive function of the model computes is not known to the provers
before it is shown that the function exists at all (`IteratesExists` for
`FoldLeft`, `FlattenType`, `ExtendsExists` for `Alignments`): the equations hold
for no argument, and if they can be met up to one size then up to the next
(`UpTo`).

**NgramCountsProofs**, for any letters, topologies and corpora: `CountsAreExact`
(`NgramCountsExact`: when the union of a pair is complete, the weights of the arcs that
lead to an n-gram multiply to the sum of its expected counts in the lattices so far).
Beneath a queued subset, on the trie's side the old counts are found with its first
residual and the new ones with its second, and an n-gram beneath no queued subset weighs
the sum of both (`Weighs`, in `WeightsInv`). Fractions are reduced after each step;
reduced fractions are equal just if the ratios are (`ReducedSame`), as `gcd` exists and is
what its equations say (`GcdIs`).

**ModelAcceptanceProofs**, about what the finished machine reads, for any letters,
corpora, back-off models and topologies, `noepshist` included:
`SeenAlignmentsAccepted` (`AcceptsWhatWasSeen`: each alignment that was counted, if it
respects the limit on insertions) and `EssentialStringsAccepted` (`AcceptsEssential`:
each well-formed string of essential symbols, seen or not).
Both are hard to test, since what lets a string through is made of many steps far
apart: counting, pruning, back-off arcs, `ConvertTrieToModel` and its trimming,
composition with the well-formed strings, and the intersection of all models. The argument
follows one string:

1. In a model, the state after a beginning of the string is its longest suffix that
   goes on in the trie (`BackoffIsLongest`). The next label is found there, because its
   n-gram was counted, or at a shorter suffix over phi, down to the root; there it is
   found, because `ExtractEssentialAlignSyms` has put it into the trie as a unigram
   or the pair itself has. Phi arcs only lead to shorter suffixes, so this
   ends (`FoundBySeen`, `FoundByPhi`, `FoundScored`).
2. `Convert` gives the start and the end label states of their own and removes what is
   on no path. What is left is the whole model that scores: every state has a
   way to the root, and from there, over the end label, to the final state (`EndedScores`).
3. The composition reads a string if the model does and the string is well-formed:
   every state on its way is reached and, because the string ends, goes on
   (`CompositionReads`).
4. The intersection of all composed models is in a state of each after the same string, and
   the windows of its labels agree (`AllAccept`).

For `noepshist` the first three steps are others. Each state is a history of letters; a step
leads to the first of its back-offs that is allowed, and there is one, because the back-offs
of every history end with the empty one (`Backoffs` exists and is what its definition
says, although its queue is bounded by nothing but the lengths of the words in it). Every
state that is made has an arc for each label of the table, or is still on the stack
(`NoepsInv`); so the machine reads every string of labels of the table (`ScoredIsRead`).
A back-off is an end of what it backs off from, and an end of an end is an end:
`HistoriesFitThePaths` (`NoepsFeaturesMatch`) says that the history of a state is an end of
what every path to it has read and written, with all the arcs that backed off between.

`FeaturesFitTheWalks` (`FeaturesMatchHistory`) is about which features a path of a finished
n-gram model collects: at each arc those of every n-gram of the model that ends there, and
only those that every path to it ends with. `NgramFsaInsertFeatures` does not ask the
trie for the history of a state but computes the common suffix of all paths to it, in the
machine that is trimmed, composed and has arcs over phi expanded. Two bounds meet:

* From above: the iteration over tables of strings ends (`SettledIs`: a step gives some state
  its first string or makes one shorter, `OneMoreCloser`), in a table that one more step leaves as
  it is. So the history of the state that an arc leads to ends the history before
  it with the label (`HistoriesFollow`), and on every walk the history ends what was read.
* From below: in no table is a string shorter than the n-gram of its state (`Iterated`,
  `Owned`). An arc leads from the n-gram of a state to the longest end of that n-gram and its
  label that goes on (`FindLongest`, `FindTracks`: also over phi, which only leaves states that
  do not have the label). By `LongestThen`, that is the longest end of all that was
  read on any walk (`Walked`).

So an n-gram that ends a walk ends the history (`WindowsFit`). Names of features grow with the
window, also those of the libraries that split labels into letters and annotations and fill
the parts up to the length of the longest label in the window (`NamesGrow`).

`Reached` explores a machine until nothing is added; it is the least set that contains
the start and is closed under the arcs (`ReachedIs`), which exists as every step
adds states and they are finitely many. The states of the creation between which this
holds are told by an invariant in nine parts (`ModelsState`): the n-grams counted
so far (`CountInv`), the trie of the current model (`GramsInv`, `BackoffInv`,
`PhiInv`), the table of symbols (`SymbolsInv`), the models that are finished
(`ModelsInv`), the machine (`FeaturesInv`), what the histories of its states remember
(`HistoryInv`) and the histories of `noepshist` (`NoepsInv`). `ModelsAssumption` says what
the code expects of the options: an order of at least 1, back-off models with
the three names that `create/backoff-symbols.h` knows, and none of them with
`noepshist`, whose creation is not given any.

Only model-checked:

* Liveness: `EvaluationReturns`, `LimitedEvaluationReturns`, `PairEnds`,
  `SumsEnd`, `SessionEnds`. The prover does no `ENABLED`.
* `AllTypesOK` as a whole. Its parts about the tries, the labels and the session are
  proved (`TrieTypeCorrect`, `SessionTypeCorrect`); that no model is empty and that
  every feature that fires has a name are not.

## Where code and documentation disagree

* `SquashFunction` is said to make 1.0 the highest value; when the clamped sum
  diverges the optimiser gets a value that is not a number
  (`parallel_objective_nan`).
* The limit is said to become the maximum of itself and the elapsed time; two
  workers can set it back (`timed_distance_race`).
* The convergence check says "Diverge." and answers from the estimate before the
  bad one, which can be good (`check_convergence_abort`).
* `ShortestDistanceM` is said to return the sum of all successful paths; called with
  the vector of an interrupted sum, as `TimedShortestDistance` does, it adds to what is
  there (`matrix_sums`).
* `README.html` says that the saved files hold a trained FST and its weights;
  the FST has the weights of the last vector evaluated, the other file those the
  optimiser has ended with, which rprop never evaluates (`saved_files`).

Other things met while modelling, which no property is about:

* `--joint-training` with `--lenmatch` uses the result of a failed
  `dynamic_cast`. `--tlm` calls a function that does not exist, and
  `train-condother.R` creates models with too few arguments.
* More initial weights than parameters make L-BFGS stop; rprop goes on with
  them. With fewer, which `train-condother.R` does not notice, memory behind the
  vector is read; whether the process survives that or not, no step is taken. A value that is not a number stops L-BFGS, such a gradient stops rprop.
* The gradient check leaves the parameters it tried last on the arcs; every
  optimiser asks for a value before it asks for gradients, so that this does not show
  (`GradientsOfVector`).
* With change regions and no classes a symbol table is deleted twice. With both,
  identities are not recognised as such and get odd region numbers, against the
  comment and the assertions in `get-well-formed.cc`; a Release build, which is the
  default, goes on with them.
* `ExtractEssentialAlignSyms` starts its sums at One, so that the symbols it keeps
  may cover less than the threshold; with annotations no `a|a` is kept as such.
* An empty trie has no start state, and iterating from it is undefined.
* A feature whose gradient is exactly 0 is penalised all the same by the online
  trainer; `zero_weights_` only grows, so that the number it prints is too high.

## What is abstracted

* Floating-point numbers are kinds and multisets of terms (`ParallelObjective`,
  `SequentialObjective`), natural numbers (`PathSums`), integers in suitable units
  (`OnlineTraining`), levels and signs (rprop) or fractions (`NgramCounts`):
  rounding is not modelled, `delta` is 0 and `Quantize` changes nothing.
* Memory is sequentially consistent; the unlocked reads are single steps.
* The composition of FSTs, determinisation, minimisation, the power iteration and
  the queue disciplines of OpenFst are external, modelled by what they promise: the
  machine of well-formed strings is determinised, and not minimised. In the log
  semiring determinisation may split states, when a back-off model without input letters
  (`tlm`) meets a positive limit on insertions; `tlm` is checked with the limits
  none and 0 only.
* All alignments that a pair has weigh the same, whatever weights an alignment FST may
  give them. The weights that `r2191` counts are used by nothing later.
* The names within one model are numbered in any order; the back-off models of a
  creation are of different kinds and have the default library `simple`.
* Evaluations on no data are excluded by `ConstantsAssumption` of
  `ParallelObjective`, as the code does not define them. `SequentialObjective`
  assumes that the model FST has a path.

## Not modelled

* Decoding and scoring (`transducer-decode`, `transducer-data-loglik`, `kbest`,
  `approx-determinize`, `normalize`): a finished model is applied in a fixed
  order of OpenFst calls; there is no state between two inputs.
* `align-strings`: no program uses it. Feature libraries other than those named:
  they differ in how a name is written.
* Letter types (word classes read from a file) and functions of `create/` that nothing
  calls.
* Options, timers, memory measurement, printing, and the readers of data files.
* The arithmetic of the power iteration: its estimates are inputs of
  `CheckConvergence`.
* A sum over a cyclic FST: its value is a limit. `TimedDistance` and
  `CheckConvergence` model what the code does about it.

## Plan

What is left is to prove the rest of `AllTypesOK`: no composed model is empty, because the
model reads the start and the end label.
