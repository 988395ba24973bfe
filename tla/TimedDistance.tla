--------------------------- MODULE TimedDistance ---------------------------
(***************************************************************************)
(* The time limit of the sums over the paths of an FST                     *)
(* (train/obj-func-fst-util.h, train/timeout.h), as the workers of         *)
(* train/obj-func-fst-conditional.cc use it: the clamped FST of a pair is  *)
(* summed under a copy of the object's timelimit_ms_, the unclamped one    *)
(* under timelimit_ms_ itself, which all workers read and write without a  *)
(* mutex; in the first evaluation the unclamped sum has no limit.  Every   *)
(* read and write of a limit is a step.                                    *)
(*                                                                         *)
(* Time is counted in units of MinLimit/2.  How long a sum takes is        *)
(* external; the sum of a divergent FST takes for ever.  The answer of the *)
(* convergence test, CheckConvergence, may be wrong in both ways.          *)
(***************************************************************************)
EXTENDS Integers

CONSTANTS
  Workers,
  MinLimit,     \* 100 ms
  InitLimits,   \* what timelimit_ms_ may have been set to
  MaxTime       \* bounds the time a convergent sum takes

NoLimit == -1

ASSUME LimitsAssumption ==
  /\ MinLimit \in Nat \ {0}
  /\ InitLimits \subseteq Nat \cup {NoLimit}
  /\ MaxTime \in Nat

VARIABLES
  shared,       \* timelimit_ms_
  iteration,    \* 0: the first evaluation; 1: a later one
  matrix,       \* the option use-matrix-distance
  pc,
  side,         \* the FST that is summed: "clamped" or "unclamped"
  own,          \* the local limit of a worker: timelimit, unlimited
  backward,     \* FALSE for the alphas, TRUE for the betas
  diverges,     \* whether the FST is divergent
  armed,        \* the limit that the Timeout was made with
  elapsed,      \* the time that the rerun took
  read1, read2  \* the two reads of the limit in its update

locals == <<side, own, backward, diverges, armed, elapsed, read1, read2>>
limitVars == <<shared, iteration, matrix, pc, locals>>

Longer(a, b) == IF a > b THEN a ELSE b
Shorter(a, b) == IF a < b THEN a ELSE b

\* *timelimit_ms
UsesShared(w) == side[w] = "unclamped" /\ iteration > 0
Limit(w) == IF UsesShared(w) THEN shared ELSE own[w]
SetLimit(w, l) ==
  IF UsesShared(w) THEN shared' = l /\ own' = own
                   ELSE own' = [own EXCEPT ![w] = l] /\ shared' = shared

\* No limit is larger than all limits and times that are put in.
Limits == {NoLimit} \cup {l \in Nat : \E m \in InitLimits \cup {MinLimit, MaxTime} : l <= m}

\* The limits, the program counters and what the workers have read are in range.
LimitTypeOK ==
  /\ shared \in Limits
  /\ iteration \in {0, 1}
  /\ matrix \in BOOLEAN
  /\ pc \in [Workers -> {"idle", "enter", "reset", "arm", "run", "check", "rerun",
                         "read1", "read2", "update", "summed", "diverged"}]
  /\ side \in [Workers -> {"clamped", "unclamped"}]
  /\ own \in [Workers -> Limits]
  /\ backward \in [Workers -> BOOLEAN]
  /\ diverges \in [Workers -> BOOLEAN]
  /\ armed \in [Workers -> Limits]
  /\ elapsed \in [Workers -> 0 .. MaxTime]
  /\ read1 \in [Workers -> Limits] /\ read2 \in [Workers -> Limits]

LimitInit ==
  /\ shared \in InitLimits
  /\ iteration \in {0, 1}
  /\ matrix \in BOOLEAN
  /\ pc = [w \in Workers |-> "idle"]
  /\ side = [w \in Workers |-> "clamped"]
  /\ own = [w \in Workers |-> NoLimit]
  /\ backward = [w \in Workers |-> FALSE]
  /\ diverges = [w \in Workers |-> FALSE]
  /\ armed = [w \in Workers |-> NoLimit]
  /\ elapsed = [w \in Workers |-> 0]
  /\ read1 = [w \in Workers |-> NoLimit] /\ read2 = [w \in Workers |-> NoLimit]

Step(w, from, to) == pc[w] = from /\ pc' = [pc EXCEPT ![w] = to]

\* A sum is begun under limit l, over an FST that diverges or not.
BeginSum(w, whose, l) ==
  /\ side' = [side EXCEPT ![w] = whose]
  /\ own' = [own EXCEPT ![w] = l]
  /\ backward' = [backward EXCEPT ![w] = FALSE]
  /\ \E d \in BOOLEAN : diverges' = [diverges EXCEPT ![w] = d]
  /\ UNCHANGED <<shared, iteration, matrix, armed, elapsed, read1, read2>>

\* Fault: the clamped FST is summed without a limit.
StartPairUnlimited(w) == Step(w, "idle", "enter") /\ BeginSum(w, "clamped", NoLimit)

\* ProcessInputOutputPair: the limit is copied for the clamped FST.
StartPair(w) == Step(w, "idle", "enter") /\ BeginSum(w, "clamped", shared)

\* The clamped sum has returned, whether it diverged or not.
StartUnclamped(w) ==
  /\ side[w] = "clamped"
  /\ \/ Step(w, "summed", "enter") /\ backward[w]
     \/ Step(w, "diverged", "enter")
  /\ BeginSum(w, "unclamped", NoLimit)

EndPair(w) ==
  /\ side[w] = "unclamped"
  /\ \/ Step(w, "summed", "idle") /\ backward[w]
     \/ Step(w, "diverged", "idle")
  /\ side' = [side EXCEPT ![w] = "clamped"]
  /\ backward' = [backward EXCEPT ![w] = FALSE]
  /\ diverges' = [diverges EXCEPT ![w] = FALSE]
  /\ own' = [own EXCEPT ![w] = NoLimit]
  /\ UNCHANGED <<shared, iteration, matrix, armed, elapsed, read1, read2>>

\* The alphas are there, the betas are next.
StartBackward(w) ==
  /\ Step(w, "summed", "enter") /\ ~ backward[w]
  /\ backward' = [backward EXCEPT ![w] = TRUE]
  /\ UNCHANGED <<shared, iteration, matrix, side, own, diverges, armed, elapsed, read1, read2>>

-----------------------------------------------------------------------------
\* TimedShortestDistance

TooSmall(l) == 0 <= l /\ l < MinLimit

TestLimit(w) ==
  /\ Step(w, "enter", IF TooSmall(Limit(w)) THEN "reset" ELSE "arm")
  /\ UNCHANGED <<shared, iteration, matrix, locals>>

ResetLimit(w) ==
  /\ Step(w, "reset", "arm")
  /\ SetLimit(w, MinLimit)
  /\ UNCHANGED <<iteration, matrix, side, backward, diverges, armed, elapsed, read1, read2>>

ArmTimeout(w) ==
  /\ Step(w, "arm", "run")
  /\ armed' = [armed EXCEPT ![w] = Limit(w)]
  /\ UNCHANGED <<shared, iteration, matrix, side, own, backward, diverges, elapsed, read1, read2>>

Disarm(w) ==
  /\ armed' = [armed EXCEPT ![w] = NoLimit]
  /\ UNCHANGED <<shared, iteration, matrix, side, own, backward, diverges, elapsed, read1, read2>>

\* The sum is complete before the limit is reached.
FinishInTime(w) ==
  /\ Step(w, "run", "summed")
  /\ ~ diverges[w]
  /\ Disarm(w)

\* The limit is reached by the time timeout() is asked again, in the loop or
\* after it: a sum that is complete by then is not distinguished.
TimeOut(w) ==
  /\ Step(w, "run", "check")
  /\ armed[w] # NoLimit
  /\ Disarm(w)

\* CheckConvergence
FindDivergent(w) ==
  /\ Step(w, "check", "diverged")
  /\ UNCHANGED <<shared, iteration, matrix, locals>>

FindConvergent(w) ==
  /\ Step(w, "check", "rerun")
  /\ UNCHANGED <<shared, iteration, matrix, locals>>

\* Again without a limit: a divergent FST is summed for ever, unless by
\* ShortestDistanceM, whose iterations are bounded.
Rerun(w) ==
  /\ Step(w, "rerun", "read1")
  /\ ~ diverges[w] \/ matrix
  /\ \E e \in 0 .. MaxTime : elapsed' = [elapsed EXCEPT ![w] = e]
  /\ UNCHANGED <<shared, iteration, matrix, side, own, backward, diverges, armed, read1, read2>>

\* max(*timelimit_ms, min(*timelimit_ms * 2, elapsed))
ReadLimit(w) ==
  /\ Step(w, "read1", "read2")
  /\ read1' = [read1 EXCEPT ![w] = Limit(w)]
  /\ UNCHANGED <<shared, iteration, matrix, side, own, backward, diverges, armed, elapsed, read2>>

ReadLimitAgain(w) ==
  /\ Step(w, "read2", "update")
  /\ read2' = [read2 EXCEPT ![w] = Limit(w)]
  /\ UNCHANGED <<shared, iteration, matrix, side, own, backward, diverges, armed, elapsed, read1>>

\* Faults: the limit is doubled whatever the time was; it follows the time
\* down as well.
DoubledLimit(w) == Longer(read1[w], read2[w] * 2)
FallingLimit(w) == Shorter(read2[w] * 2, elapsed[w])

NewLimit(w) == Longer(read1[w], Shorter(read2[w] * 2, elapsed[w]))

UpdateLimit(w) ==
  /\ Step(w, "update", "summed")
  /\ SetLimit(w, NewLimit(w))
  /\ elapsed' = [elapsed EXCEPT ![w] = 0]
  /\ read1' = [read1 EXCEPT ![w] = NoLimit] /\ read2' = [read2 EXCEPT ![w] = NoLimit]
  /\ UNCHANGED <<iteration, matrix, side, backward, diverges, armed>>

Sum(w) ==
  \/ StartUnclamped(w) \/ EndPair(w) \/ StartBackward(w)
  \/ TestLimit(w) \/ ResetLimit(w) \/ ArmTimeout(w) \/ FinishInTime(w) \/ TimeOut(w)
  \/ FindDivergent(w) \/ FindConvergent(w) \/ Rerun(w)
  \/ ReadLimit(w) \/ ReadLimitAgain(w) \/ UpdateLimit(w)

LimitNext == \E w \in Workers : StartPair(w) \/ Sum(w)

LimitSpec == LimitInit /\ [][LimitNext]_limitVars

\* A worker that is summing goes on; nothing makes it begin another pair.
FairLimitSpec == LimitSpec /\ \A w \in Workers : WF_limitVars(Sum(w))

-----------------------------------------------------------------------------

\* No sum is given less than the minimal limit, although another worker may
\* change the limit between the test, the reset and the reading of it; and a
\* limit is not lifted by that either.
EffectiveLimit ==
  \A w \in Workers : pc[w] = "run" =>
    /\ armed[w] = NoLimit \/ armed[w] >= MinLimit
    /\ UsesShared(w) => (armed[w] = NoLimit <=> shared = NoLimit)

\* From the second evaluation on, unless the limit was lifted, a pair is processed
\* in finite time even if its FSTs are divergent - or the convergence test has
\* called a divergent FST convergent, which is then summed again without a limit.
MisjudgedForEver(w) == pc[w] = "rerun" /\ diverges[w] /\ ~ matrix
PairEnds ==
  \A w \in Workers :
    (pc[w] # "idle" /\ iteration > 0 /\ shared # NoLimit) ~> (pc[w] = "idle" \/ MisjudgedForEver(w))

\* obj-func-fst-util.h: the limit "will be set to max(timelimit_ms, elapsed
\* time)".  So no update of the limit makes it smaller than it is.
LimitNeverShrinks == [][shared' >= shared]_limitVars
=============================================================================
