---------------------- MODULE LimitsAndPenaltiesProofs ----------------------
(***************************************************************************)
(* Two parts of the training that keep it in bounds, for all values of     *)
(* their constants.                                                        *)
(*                                                                         *)
(* Batch training: when a sum over the paths of an FST is given up.  The   *)
(* time limits are effective for any number of workers, any limits and any *)
(* times, and the convergence test, which decides about a sum that has run *)
(* out of time, answers what it has seen, for any sequence of estimates,   *)
(* any tolerance and any limits of its counters.                           *)
(*                                                                         *)
(* Online training: the cumulative L1 penalty is right for every number of *)
(* features, every sequence of batch gradients and learning rates and      *)
(* every strength.                                                         *)
(***************************************************************************)
EXTENDS TimedDistance, CheckConvergence, OnlineTraining, TLAPS

(***************************************************************************)
(* The time limits.                                                        *)
(*                                                                         *)
(* What a worker has tested may be changed by another one before it is     *)
(* used, so the test itself proves nothing about the later steps.  What    *)
(* does is that limits only ever change to good ones: from the moment that *)
(* a worker has found its limit good, or has made it so, nobody makes it   *)
(* bad again, and nobody lifts it.                                         *)
(***************************************************************************)

Effective(l) == l = NoLimit \/ l >= MinLimit

\* The program counters after the limit has been found good or been reset, and
\* those of a sum that has run out of time.
Tested == {"arm", "run", "check", "rerun", "read1", "read2", "update"}
OutOfTime == {"check", "rerun", "read1", "read2", "update"}

LimitKnown(w) ==
  /\ pc[w] \in Tested => Effective(Limit(w))
  /\ pc[w] \in OutOfTime \cup {"reset"} => Limit(w) # NoLimit
  /\ pc[w] = "run" => /\ Effective(armed[w])
                      /\ armed[w] = NoLimit <=> Limit(w) = NoLimit
  /\ pc[w] \in {"read2", "update"} => read1[w] >= MinLimit
  /\ pc[w] = "update" => read2[w] >= MinLimit

LimitInv == LimitTypeOK /\ \A w \in Workers : LimitKnown(w)

-----------------------------------------------------------------------------
\* Types

\* No new limit exceeds the old ones and the times.
LEMMA LimitsType ==
  /\ Limits \subseteq Int /\ NoLimit \in Limits /\ MinLimit \in Limits
  /\ InitLimits \subseteq Limits /\ 0 .. MaxTime \subseteq Limits
  /\ \A l \in Limits : l >= NoLimit
  BY LimitsAssumption DEF Limits, NoLimit

LEMMA NewLimitType ==
  ASSUME LimitTypeOK, NEW w \in Workers
  PROVE  NewLimit(w) \in Limits
<1>1. read1[w] \in Limits /\ read2[w] \in Limits /\ elapsed[w] \in 0 .. MaxTime
  BY DEF LimitTypeOK
<1>2. /\ read1[w] \in Int /\ read1[w] >= NoLimit
      /\ read2[w] \in Int /\ read2[w] >= NoLimit
      /\ elapsed[w] \in Nat
  <2>1. \A l \in Limits : l \in Int /\ l >= NoLimit
    BY LimitsType
  <2>2. elapsed[w] \in Nat
    BY <1>1, LimitsAssumption
  <2> QED BY <1>1, <2>1, <2>2
<1>3. CASE Shorter(read2[w] * 2, elapsed[w]) <= read1[w]
  BY <1>1, <1>2, <1>3 DEF NewLimit, Longer, Shorter
<1>4. CASE ~ (Shorter(read2[w] * 2, elapsed[w]) <= read1[w])
  <2>1. NewLimit(w) \in Nat /\ NewLimit(w) <= elapsed[w]
    BY <1>2, <1>4 DEF NewLimit, Longer, Shorter, NoLimit
  <2> QED BY <1>1, <2>1, LimitsAssumption, LimitsType
<1> QED BY <1>3, <1>4

LEMMA LimitType ==
  ASSUME LimitTypeOK, NEW w \in Workers
  PROVE  Limit(w) \in Limits
  BY DEF LimitTypeOK, Limit

LEMMA InitTypeOK == LimitInit => LimitTypeOK
  BY LimitsType, LimitsAssumption DEF LimitInit, LimitTypeOK

LEMMA BeginSumType ==
  ASSUME LimitTypeOK, NEW w \in Workers, NEW whose \in {"clamped", "unclamped"}, NEW l \in Limits,
         BeginSum(w, whose, l), NEW from, Step(w, from, "enter")
  PROVE  LimitTypeOK'
  BY DEF LimitTypeOK, BeginSum, Step

LEMMA SetLimitType ==
  ASSUME LimitTypeOK, NEW w \in Workers, NEW l \in Limits, SetLimit(w, l)
  PROVE  shared' \in Limits /\ own' \in [Workers -> Limits]
  BY DEF LimitTypeOK, SetLimit

LEMMA SumTypeOK ==
  ASSUME LimitTypeOK, NEW w \in Workers, StartPair(w) \/ Sum(w)
  PROVE  LimitTypeOK'
<1> USE DEF Step
<1>1. CASE StartPair(w)
  BY <1>1, BeginSumType DEF StartPair, LimitTypeOK
<1>2. CASE StartUnclamped(w)
  <2>1. NoLimit \in Limits
    BY LimitsType
  <2> QED BY <1>2, <2>1, BeginSumType DEF StartUnclamped
<1>3. CASE EndPair(w)
  BY <1>3, LimitsType DEF EndPair, LimitTypeOK
<1>4. CASE StartBackward(w)
  BY <1>4 DEF StartBackward, LimitTypeOK
<1>5. CASE TestLimit(w)
  BY <1>5 DEF TestLimit, LimitTypeOK, locals
<1>6. CASE ResetLimit(w)
  BY <1>6, LimitsType, SetLimitType DEF ResetLimit, LimitTypeOK
<1>7. CASE ArmTimeout(w)
  BY <1>7, LimitType DEF ArmTimeout, LimitTypeOK
<1>8. CASE FinishInTime(w)
  BY <1>8, LimitsType DEF FinishInTime, Disarm, LimitTypeOK
<1>9. CASE TimeOut(w)
  BY <1>9, LimitsType DEF TimeOut, Disarm, LimitTypeOK
<1>10. CASE FindDivergent(w)
  BY <1>10 DEF FindDivergent, LimitTypeOK, locals
<1>11. CASE FindConvergent(w)
  BY <1>11 DEF FindConvergent, LimitTypeOK, locals
<1>12. CASE Rerun(w)
  BY <1>12 DEF Rerun, LimitTypeOK
<1>13. CASE ReadLimit(w)
  BY <1>13, LimitType DEF ReadLimit, LimitTypeOK
<1>14. CASE ReadLimitAgain(w)
  BY <1>14, LimitType DEF ReadLimitAgain, LimitTypeOK
<1>15. CASE UpdateLimit(w)
  <2>1. shared' \in Limits /\ own' \in [Workers -> Limits]
    BY <1>15, NewLimitType, SetLimitType DEF UpdateLimit
  <2>2. 0 \in 0 .. MaxTime
    BY LimitsAssumption
  <2> QED BY <1>15, <2>1, <2>2, LimitsType DEF UpdateLimit, LimitTypeOK
<1> QED BY <1>1, <1>2, <1>3, <1>4, <1>5, <1>6, <1>7, <1>8, <1>9, <1>10, <1>11, <1>12, <1>13,
           <1>14, <1>15 DEF Sum

-----------------------------------------------------------------------------
\* Limits

LEMMA LimitRange ==
  ASSUME LimitTypeOK, NEW w \in Workers
  PROVE  Limit(w) \in Int /\ Limit(w) >= NoLimit /\ (Limit(w) < 0 => Limit(w) = NoLimit)
<1>1. \A l \in Limits : l \in Int /\ l >= NoLimit
  BY LimitsType
<1>2. Limit(w) \in Int /\ Limit(w) >= NoLimit
  BY <1>1, LimitType
<1> QED BY <1>2 DEF NoLimit

LEMMA MinLimitIsOne == MinLimit \in Nat /\ MinLimit > 0 /\ MinLimit # NoLimit
  BY LimitsAssumption DEF NoLimit

\* What a worker writes in place of its limit is good, and it writes only if
\* there was a limit.
LEMMA WrittenLimit ==
  ASSUME LimitInv, NEW w \in Workers
  PROVE  /\ pc[w] = "reset" => Limit(w) # NoLimit
         /\ pc[w] = "update" => Limit(w) # NoLimit /\ NewLimit(w) \in Int /\ NewLimit(w) >= MinLimit
<1>1. LimitKnown(w)
  BY DEF LimitInv
<1>2. pc[w] \in {"reset", "update"} => Limit(w) # NoLimit
  BY <1>1 DEF LimitKnown, OutOfTime
<1>3. ASSUME pc[w] = "update"
      PROVE  NewLimit(w) \in Int /\ NewLimit(w) >= MinLimit
  <2>1. /\ read1[w] \in Int /\ read2[w] \in Int /\ elapsed[w] \in Int
    <3>1. \A l \in Limits : l \in Int
      BY LimitsType
    <3>2. read1[w] \in Limits /\ read2[w] \in Limits /\ elapsed[w] \in 0 .. MaxTime
      BY DEF LimitInv, LimitTypeOK
    <3> QED BY <3>1, <3>2, LimitsAssumption
  <2>2. read1[w] >= MinLimit
    BY <1>1, <1>3 DEF LimitKnown
  <2> QED BY <2>1, <2>2, MinLimitIsOne DEF NewLimit, Longer, Shorter
<1> QED BY <1>2, <1>3

\* Whatever a worker does, it leaves the shared limit, or replaces a limit by a
\* good one.
SharedKept == shared' = shared \/ (shared # NoLimit /\ shared' # NoLimit /\ Effective(shared'))

LEMMA GoodLimit == \A l \in Int : l >= MinLimit => l # NoLimit /\ Effective(l)
  BY MinLimitIsOne DEF Effective, NoLimit

LEMMA StepKeepsShared ==
  ASSUME LimitInv, NEW w \in Workers, StartPair(w) \/ Sum(w)
  PROVE  SharedKept
<1>1. CASE ResetLimit(w)
  <2>1. Limit(w) # NoLimit
    BY <1>1, WrittenLimit DEF ResetLimit, Step
  <2>2. MinLimit # NoLimit /\ Effective(MinLimit)
    BY MinLimitIsOne DEF Effective
  <2> QED BY <1>1, <2>1, <2>2 DEF ResetLimit, SetLimit, Limit, SharedKept
<1>2. CASE UpdateLimit(w)
  <2>1. Limit(w) # NoLimit /\ NewLimit(w) # NoLimit /\ Effective(NewLimit(w))
    BY <1>2, WrittenLimit, GoodLimit DEF UpdateLimit, Step
  <2> QED BY <1>2, <2>1 DEF UpdateLimit, SetLimit, Limit, SharedKept
<1>3. CASE ~ ResetLimit(w) /\ ~ UpdateLimit(w)
  <2>1. shared' = shared
    BY <1>3 DEF Sum, StartPair, StartUnclamped, EndPair, StartBackward, BeginSum, TestLimit,
       ArmTimeout, FinishInTime, TimeOut, Disarm, FindDivergent, FindConvergent, Rerun, ReadLimit,
       ReadLimitAgain
  <2> QED BY <2>1 DEF SharedKept
<1> QED BY <1>1, <1>2, <1>3

\* A step of another worker changes only the shared limit.
LEMMA StepOfAnother ==
  ASSUME LimitTypeOK, NEW w \in Workers, StartPair(w) \/ Sum(w), NEW v \in Workers, v # w
  PROVE  /\ pc'[v] = pc[v] /\ side'[v] = side[v] /\ own'[v] = own[v] /\ armed'[v] = armed[v]
         /\ read1'[v] = read1[v] /\ read2'[v] = read2[v] /\ iteration' = iteration
<1> USE DEF Step, LimitTypeOK
<1>1. CASE StartPair(w) \/ StartUnclamped(w)
  BY <1>1 DEF StartPair, StartUnclamped, BeginSum
<1>2. CASE EndPair(w) \/ StartBackward(w) \/ TestLimit(w)
  BY <1>2 DEF EndPair, StartBackward, TestLimit, locals
<1>3. CASE ResetLimit(w) \/ UpdateLimit(w)
  BY <1>3 DEF ResetLimit, UpdateLimit, SetLimit
<1>4. CASE ArmTimeout(w) \/ FinishInTime(w) \/ TimeOut(w) \/ FindDivergent(w) \/ FindConvergent(w)
  BY <1>4 DEF ArmTimeout, FinishInTime, TimeOut, Disarm, FindDivergent, FindConvergent, locals
<1>5. CASE Rerun(w) \/ ReadLimit(w) \/ ReadLimitAgain(w)
  BY <1>5 DEF Rerun, ReadLimit, ReadLimitAgain
<1> QED BY <1>1, <1>2, <1>3, <1>4, <1>5 DEF Sum

LEMMA AnotherKnows ==
  ASSUME LimitInv, NEW w \in Workers, StartPair(w) \/ Sum(w), NEW v \in Workers, v # w
  PROVE  LimitKnown(v)'
<1>1. SharedKept
  BY StepKeepsShared
<1>2. /\ pc'[v] = pc[v] /\ side'[v] = side[v] /\ own'[v] = own[v] /\ armed'[v] = armed[v]
      /\ read1'[v] = read1[v] /\ read2'[v] = read2[v] /\ iteration' = iteration
  BY StepOfAnother DEF LimitInv
<1>3. LimitKnown(v)
  BY DEF LimitInv
<1>4. Limit(v)' = Limit(v) \/ (Limit(v) # NoLimit /\ Limit(v)' # NoLimit /\ Effective(Limit(v)'))
  BY <1>1, <1>2 DEF SharedKept, Limit, UsesShared
<1> QED BY <1>2, <1>3, <1>4 DEF LimitKnown, Effective

\* The worker itself tests, resets, arms and updates in this order.
LEMMA SelfKnows ==
  ASSUME LimitInv, NEW w \in Workers, StartPair(w) \/ Sum(w)
  PROVE  LimitKnown(w)'
<1> USE DEF Step, Tested, OutOfTime
<1>1. LimitTypeOK /\ LimitKnown(w)
  BY DEF LimitInv
<1>2. CASE pc'[w] \in {"idle", "enter", "summed", "diverged"}
  BY <1>2 DEF LimitKnown
<1>3. CASE TestLimit(w)
  <2>1. Limit(w)' = Limit(w)
    BY <1>3 DEF TestLimit, Limit, UsesShared, locals
  <2>2. pc'[w] = IF TooSmall(Limit(w)) THEN "reset" ELSE "arm"
    BY <1>1, <1>3 DEF TestLimit, LimitTypeOK
  <2>3. TooSmall(Limit(w)) => Limit(w) # NoLimit
    BY DEF TooSmall, NoLimit
  <2>4. ~ TooSmall(Limit(w)) => Effective(Limit(w))
    BY <1>1, LimitRange, MinLimitIsOne DEF TooSmall, Effective
  <2> QED BY <2>1, <2>2, <2>3, <2>4 DEF LimitKnown
<1>4. CASE ResetLimit(w)
  <2>1. Limit(w)' = MinLimit
    BY <1>1, <1>4 DEF ResetLimit, SetLimit, Limit, UsesShared, LimitTypeOK
  <2>2. pc'[w] = "arm"
    BY <1>1, <1>4 DEF ResetLimit, LimitTypeOK
  <2>3. Effective(MinLimit)
    BY MinLimitIsOne DEF Effective
  <2> QED BY <2>1, <2>2, <2>3 DEF LimitKnown
<1>5. CASE ArmTimeout(w)
  <2>1. Limit(w)' = Limit(w) /\ armed'[w] = Limit(w) /\ pc'[w] = "run" /\ pc[w] = "arm"
    BY <1>1, <1>5 DEF ArmTimeout, Limit, UsesShared, LimitTypeOK
  <2> QED BY <1>1, <2>1 DEF LimitKnown
<1>6. CASE TimeOut(w)
  <2>1. Limit(w)' = Limit(w) /\ armed[w] # NoLimit /\ pc'[w] = "check" /\ pc[w] = "run"
    BY <1>1, <1>6 DEF TimeOut, Disarm, Limit, UsesShared, LimitTypeOK
  <2> QED BY <1>1, <2>1 DEF LimitKnown
<1>7. CASE FindConvergent(w) \/ Rerun(w)
  <2>1. Limit(w)' = Limit(w) /\ pc[w] \in {"check", "rerun"} /\ pc'[w] \in {"rerun", "read1"}
    BY <1>1, <1>7 DEF FindConvergent, Rerun, Limit, UsesShared, LimitTypeOK, locals
  <2> QED BY <1>1, <2>1 DEF LimitKnown
<1>8. CASE ReadLimit(w)
  <2>1. Limit(w)' = Limit(w) /\ read1'[w] = Limit(w) /\ pc[w] = "read1" /\ pc'[w] = "read2"
    BY <1>1, <1>8 DEF ReadLimit, Limit, UsesShared, LimitTypeOK
  <2> QED BY <1>1, <2>1 DEF LimitKnown, Effective
<1>9. CASE ReadLimitAgain(w)
  <2>1. /\ Limit(w)' = Limit(w) /\ read2'[w] = Limit(w) /\ read1'[w] = read1[w]
        /\ pc[w] = "read2" /\ pc'[w] = "update"
    BY <1>1, <1>9 DEF ReadLimitAgain, Limit, UsesShared, LimitTypeOK
  <2> QED BY <1>1, <2>1 DEF LimitKnown, Effective
<1>10. ASSUME ~ TestLimit(w), ~ ResetLimit(w), ~ ArmTimeout(w), ~ TimeOut(w), ~ FindConvergent(w),
              ~ Rerun(w), ~ ReadLimit(w), ~ ReadLimitAgain(w)
       PROVE  pc'[w] \in {"idle", "enter", "summed", "diverged"}
  BY <1>1, <1>10 DEF Sum, StartPair, StartUnclamped, EndPair, StartBackward, FinishInTime,
     FindDivergent, UpdateLimit, LimitTypeOK
<1> QED BY <1>2, <1>3, <1>4, <1>5, <1>6, <1>7, <1>8, <1>9, <1>10

-----------------------------------------------------------------------------

LEMMA InitLimitInv == LimitInit => LimitInv
<1>1. LimitInit => \A w \in Workers : LimitKnown(w)
  BY DEF LimitInit, LimitKnown, Tested, OutOfTime
<1> QED BY <1>1, InitTypeOK DEF LimitInv

LEMMA NextLimitInv == LimitInv /\ [LimitNext]_limitVars => LimitInv'
<1> SUFFICES ASSUME LimitInv, [LimitNext]_limitVars PROVE LimitInv'
  OBVIOUS
<1>1. ASSUME NEW w \in Workers, StartPair(w) \/ Sum(w)
      PROVE  LimitInv'
  <2>1. LimitTypeOK'
    BY <1>1, SumTypeOK DEF LimitInv
  <2>2. ASSUME NEW v \in Workers
        PROVE  LimitKnown(v)'
    BY <1>1, SelfKnows, AnotherKnows
  <2> QED BY <2>1, <2>2 DEF LimitInv
<1>2. CASE UNCHANGED limitVars
  BY <1>2 DEF LimitInv, LimitTypeOK, LimitKnown, Limit, UsesShared, limitVars, locals
<1> QED BY <1>1, <1>2 DEF LimitNext

\* The invariant of the proof, for all values of the constants.
THEOREM LimitInvariance == LimitSpec => []LimitInv
  BY InitLimitInv, NextLimitInv, PTL DEF LimitSpec

\* All variables keep their types, for any number of workers: no limit grows
\* beyond the limits and the times that are put in.
THEOREM LimitTypeCorrect == LimitSpec => []LimitTypeOK
<1>1. LimitInv => LimitTypeOK
  BY DEF LimitInv
<1> QED BY <1>1, LimitInvariance, PTL

\* No sum is given less than the minimal limit, and a sum that was given none
\* was given none because there is none, for any number of workers that test,
\* reset and read the one limit in any order.
THEOREM LimitEffective == LimitSpec => []EffectiveLimit
<1>1. LimitInv => EffectiveLimit
  <2> SUFFICES ASSUME LimitInv, NEW w \in Workers, pc[w] = "run"
               PROVE  /\ armed[w] = NoLimit \/ armed[w] >= MinLimit
                      /\ UsesShared(w) => (armed[w] = NoLimit <=> shared = NoLimit)
    BY DEF EffectiveLimit
  <2>1. LimitKnown(w)
    BY DEF LimitInv
  <2> QED BY <2>1 DEF LimitKnown, Effective, Limit
<1> QED BY <1>1, LimitInvariance, PTL

\* No worker lifts the limit that they share or sets one where there was none,
\* although the update computes with two reads that may belong to different
\* limits.  So `unless the limit was lifted', on which the end of every pair
\* depends, speaks of the caller and not of the workers.
THEOREM LimitIsKept == LimitSpec => [][shared' = NoLimit <=> shared = NoLimit]_limitVars
<1>1. LimitInv /\ [LimitNext]_limitVars => [shared' = NoLimit <=> shared = NoLimit]_limitVars
  BY StepKeepsShared DEF LimitNext, SharedKept
<1> QED BY <1>1, LimitInvariance, PTL DEF LimitSpec

(***************************************************************************)
(* The convergence test.                                                   *)
(*                                                                         *)
(* The loop keeps one estimate and two counters and no history.  That the  *)
(* counters speak of the last estimates is the invariant: the estimate     *)
(* kept is the last one, as many of the last ones are close to the next as *)
(* numConverged says, and a loop that goes on has not seen too many bad    *)
(* ones.                                                                   *)
(***************************************************************************)

\* The last n estimates are each close to the one before.
LastClose(n) ==
  /\ n = 0 \/ n < Len(seen)
  /\ \A k \in 1 .. n : Close(seen[Len(seen) - k + 1], seen[Len(seen) - k])

KeepsLast ==
  status = Running =>
    /\ iter = Len(seen) /\ numBad < SuccessiveBad
    /\ iter > 0 => eigenvalue = seen[iter]

Earned ==
  /\ status = Running \/ status.end \in Ended
  /\ status.end # "aborted" => LastClose(numConverged)
  /\ status.end = "converged" =>
       /\ numConverged >= Successive
       /\ status.answer => Good(seen[Len(seen) - 1])
  /\ status.end = "exhausted" => (status.answer => checkValue)

CheckInv == CheckTypeOK /\ KeepsLast /\ Earned

-----------------------------------------------------------------------------

LEMMA EstimateType == \A e \in Estimates : e \in Int
  BY CheckAssumption

LEMMA InitCheckInv == CheckInit => CheckInv
<1> SUFFICES ASSUME CheckInit PROVE CheckInv
  OBVIOUS
<1>1. CheckTypeOK
  BY CheckAssumption DEF CheckInit, CheckTypeOK, Running, Ended
<1>2. KeepsLast
  BY CheckAssumption DEF CheckInit, KeepsLast, Running
<1>3. Earned
  BY DEF CheckInit, Earned, LastClose, Running, Ended
<1> QED BY <1>1, <1>2, <1>3 DEF CheckInv

\* One more estimate that is close to the last one makes one more close pair.
LEMMA OneMoreClose ==
  ASSUME seen \in Seq(Estimates), NEW n \in Nat, LastClose(n), Len(seen) > 0,
         NEW new \in Estimates, Close(new, seen[Len(seen)]),
         seen' = Append(seen, new)
  PROVE  /\ n + 1 < Len(seen')
         /\ \A k \in 1 .. n + 1 : Close(seen'[Len(seen') - k + 1], seen'[Len(seen') - k])
<1>1. Len(seen') = Len(seen) + 1 /\ Len(seen) \in Nat /\ seen'[Len(seen) + 1] = new
  OBVIOUS
<1>2. \A j \in 1 .. Len(seen) : seen'[j] = seen[j]
  OBVIOUS
<1>3. n = 0 \/ n < Len(seen)
  BY DEF LastClose
<1>4. ASSUME NEW k \in 1 .. n + 1
      PROVE  Close(seen'[Len(seen') - k + 1], seen'[Len(seen') - k])
  <2>1. CASE k = 1
    <3>1. Len(seen') - k + 1 = Len(seen) + 1 /\ Len(seen') - k = Len(seen)
      BY <1>1, <2>1
    <3> QED BY <1>1, <1>2, <3>1
  <2>2. CASE k # 1
    <3>1. k - 1 \in 1 .. n
      BY <2>2
    <3>2. Close(seen[Len(seen) - (k - 1) + 1], seen[Len(seen) - (k - 1)])
      BY <3>1 DEF LastClose
    <3>3. /\ Len(seen) - (k - 1) \in 1 .. Len(seen) /\ Len(seen) - (k - 1) + 1 \in 1 .. Len(seen)
          /\ Len(seen') - k = Len(seen) - (k - 1)
          /\ Len(seen') - k + 1 = Len(seen) - (k - 1) + 1
      BY <1>1, <1>3, <3>1
    <3> QED BY <1>2, <3>2, <3>3
  <2> QED BY <2>1, <2>2
<1>5. n + 1 < Len(seen')
  BY <1>1, <1>3
<1> QED BY <1>4, <1>5

LEMMA SeeConvergedCheckInv == CheckInv /\ SeeConverged => CheckInv'
<1> SUFFICES ASSUME CheckInv, SeeConverged PROVE CheckInv'
  OBVIOUS
<1>1. PICK new \in Estimates :
        /\ iter > 0 /\ Close(new, eigenvalue)
        /\ seen' = Append(seen, new)
        /\ numConverged' = numConverged + 1
        /\ IF numConverged' >= Successive /\ iter >= MinIter
           THEN End("converged") /\ UNCHANGED <<eigenvalue, iter>>
           ELSE Continue(new)
  BY DEF SeeConverged
<1>2. /\ status = Running /\ iter < MaxIter /\ checkValue' = checkValue /\ numBad' = numBad
  BY DEF SeeConverged, Looping
<1>3. /\ seen \in Seq(Estimates) /\ iter = Len(seen) /\ eigenvalue = seen[iter]
      /\ numBad < SuccessiveBad /\ numConverged \in Nat /\ LastClose(numConverged)
      /\ iter \in Nat /\ MaxIter \in Nat
  BY <1>1, <1>2, CheckAssumption DEF CheckInv, CheckTypeOK, KeepsLast, Earned, Running
<1>4. /\ seen' \in Seq(Estimates) /\ Len(seen') = iter + 1
      /\ seen'[iter + 1] = new /\ seen'[iter] = eigenvalue
  BY <1>1, <1>3
<1>5. LastClose(numConverged)'
  <2>1. Close(new, seen[Len(seen)]) /\ Len(seen) > 0
    BY <1>1, <1>3
  <2>2. /\ numConverged + 1 < Len(seen')
        /\ \A k \in 1 .. numConverged + 1 : Close(seen'[Len(seen') - k + 1], seen'[Len(seen') - k])
    BY <1>1, <1>3, <2>1, OneMoreClose
  <2> QED BY <1>1, <2>2 DEF LastClose
<1>6. CASE numConverged' >= Successive /\ iter >= MinIter
  <2>1. status' = [end |-> "converged", answer |-> Good(eigenvalue)]
        /\ eigenvalue' = eigenvalue /\ iter' = iter
    <3>1. End("converged") /\ eigenvalue' = eigenvalue /\ iter' = iter
      BY <1>1, <1>6
    <3> QED BY <3>1 DEF End, Good
  <2>2. status'.end = "converged" /\ status'.answer = Good(eigenvalue)
        /\ status' # Running /\ status'.end \in Ended
    BY <2>1 DEF Running, Ended
  <2>3. CheckTypeOK'
    <3>1. status' \in [end : Ended \cup {"none"}, answer : BOOLEAN]
      BY <2>1 DEF Good, Ended
    <3> QED BY <1>1, <1>2, <1>3, <1>4, <2>1, <3>1 DEF CheckInv, CheckTypeOK
  <2>4. KeepsLast'
    BY <2>2 DEF KeepsLast, Running
  <2>5. Earned'
    <3>1. Len(seen') - 1 = iter
      BY <1>3, <1>4
    <3>2. status'.answer => Good(seen'[Len(seen') - 1])
      BY <1>4, <2>2, <3>1
    <3> QED BY <1>5, <1>6, <2>2, <3>2 DEF Earned, Good, Running
  <2> QED BY <2>3, <2>4, <2>5 DEF CheckInv
<1>7. CASE ~ (numConverged' >= Successive /\ iter >= MinIter)
  <2>1. eigenvalue' = new /\ iter' = iter + 1 /\ status' = status
    BY <1>1, <1>7 DEF Continue
  <2>2. CheckTypeOK'
    BY <1>1, <1>2, <1>3, <1>4, <2>1 DEF CheckInv, CheckTypeOK
  <2>3. KeepsLast'
    BY <1>2, <1>3, <1>4, <2>1 DEF KeepsLast
  <2>4. Earned'
    BY <1>2, <1>5, <2>1 DEF Earned, Running
  <2> QED BY <2>2, <2>3, <2>4 DEF CheckInv
<1> QED BY <1>6, <1>7

LEMMA SeeMovingCheckInv == CheckInv /\ SeeMoving => CheckInv'
<1> SUFFICES ASSUME CheckInv, SeeMoving PROVE CheckInv'
  OBVIOUS
<1>1. PICK new \in Estimates :
        /\ seen' = Append(seen, new)
        /\ numBad' = CountBad(new)
        /\ IF TooManyBad(CountBad(new))
           THEN End("aborted") /\ UNCHANGED <<eigenvalue, iter, numConverged>>
           ELSE Continue(new) /\ numConverged' = NumConvergedWhenMoving
  BY DEF SeeMoving
<1>2. /\ status = Running /\ iter < MaxIter /\ checkValue' = checkValue
  BY DEF SeeMoving, Looping
<1>3. /\ seen \in Seq(Estimates) /\ iter = Len(seen)
      /\ numBad < SuccessiveBad /\ numBad \in Nat /\ SuccessiveBad \in Nat \ {0}
      /\ iter \in Nat /\ MaxIter \in Nat
  BY <1>1, <1>2, CheckAssumption DEF CheckInv, CheckTypeOK, KeepsLast, Running
<1>4. /\ seen' \in Seq(Estimates) /\ Len(seen') = iter + 1 /\ seen'[iter + 1] = new
  BY <1>1, <1>3
<1>5. numBad' \in 0 .. SuccessiveBad
  BY <1>1, <1>3 DEF CountBad
<1>6. CASE TooManyBad(CountBad(new))
  <2>1. /\ status' = [end |-> "aborted", answer |-> Good(eigenvalue)]
        /\ eigenvalue' = eigenvalue /\ iter' = iter /\ numConverged' = numConverged
    <3>1. End("aborted") /\ eigenvalue' = eigenvalue /\ iter' = iter /\ numConverged' = numConverged
      BY <1>1, <1>6
    <3> QED BY <3>1 DEF End, Good
  <2>2. status'.end = "aborted" /\ status' # Running /\ status'.end \in Ended
    BY <2>1 DEF Running, Ended
  <2>3. CheckTypeOK'
    <3>1. status' \in [end : Ended \cup {"none"}, answer : BOOLEAN]
      BY <2>1 DEF Good, Ended
    <3> QED BY <1>2, <1>3, <1>4, <1>5, <2>1, <3>1 DEF CheckInv, CheckTypeOK
  <2>4. KeepsLast' /\ Earned'
    BY <2>2 DEF KeepsLast, Earned, Running
  <2> QED BY <2>3, <2>4 DEF CheckInv
<1>7. CASE ~ TooManyBad(CountBad(new))
  <2>1. /\ eigenvalue' = new /\ iter' = iter + 1 /\ status' = status /\ numConverged' = 0
    BY <1>1, <1>7 DEF Continue, NumConvergedWhenMoving
  <2>2. CheckTypeOK'
    BY <1>2, <1>3, <1>4, <1>5, <2>1 DEF CheckInv, CheckTypeOK
  <2>3. KeepsLast'
    <3>1. numBad' < SuccessiveBad
      BY <1>1, <1>3, <1>5, <1>7 DEF TooManyBad
    <3> QED BY <1>2, <1>4, <2>1, <3>1 DEF KeepsLast
  <2>4. Earned'
    BY <1>2, <2>1 DEF Earned, LastClose, Running
  <2> QED BY <2>2, <2>3, <2>4 DEF CheckInv
<1> QED BY <1>6, <1>7

LEMMA ReachMaxIterCheckInv == CheckInv /\ ReachMaxIter => CheckInv'
<1> SUFFICES ASSUME CheckInv, ReachMaxIter PROVE CheckInv'
  OBVIOUS
<1>1. /\ status' = [end |-> "exhausted", answer |-> Good(eigenvalue) /\ checkValue]
      /\ status = Running
      /\ UNCHANGED <<checkValue, iter, eigenvalue, numConverged, numBad, seen>>
  BY DEF ReachMaxIter, End, Good
<1>2. /\ status'.end = "exhausted" /\ (status'.answer => checkValue)
      /\ status' # Running /\ status'.end \in Ended
  BY <1>1 DEF Running, Ended
<1>3. CheckTypeOK'
  <2>1. status' \in [end : Ended \cup {"none"}, answer : BOOLEAN]
    BY <1>1 DEF Good, Ended, CheckInv, CheckTypeOK
  <2> QED BY <1>1, <2>1 DEF CheckInv, CheckTypeOK
<1>4. KeepsLast'
  BY <1>2 DEF KeepsLast
<1>5. Earned'
  <2>1. LastClose(numConverged)
    BY <1>1 DEF CheckInv, Earned, Running
  <2> QED BY <1>1, <1>2, <2>1 DEF Earned, LastClose
<1> QED BY <1>3, <1>4, <1>5 DEF CheckInv

\* The invariant of the proof, for all values of the constants.
THEOREM CheckInvariance == CheckSpec => []CheckInv
<1>1. CheckInv /\ [CheckNext]_checkVars => CheckInv'
  <2> SUFFICES ASSUME CheckInv, [CheckNext]_checkVars PROVE CheckInv'
    OBVIOUS
  <2>1. CASE UNCHANGED checkVars
    BY <2>1 DEF checkVars, CheckInv, CheckTypeOK, KeepsLast, Earned, LastClose
  <2> QED BY <2>1, SeeConvergedCheckInv, SeeMovingCheckInv, ReachMaxIterCheckInv DEF CheckNext
<1> QED BY <1>1, InitCheckInv, PTL DEF CheckSpec

\* The counters stay within their limits: no more bad estimates in a row are seen
\* than the option allows, and no more estimates than max_iter.
THEOREM CheckTypeCorrect == CheckSpec => []CheckTypeOK
<1>1. CheckInv => CheckTypeOK
  BY DEF CheckInv
<1> QED BY <1>1, CheckInvariance, PTL

\* For any sequence of estimates: an FST is called convergent, by a run that was
\* not aborted and without the option, only if the last estimates are as many as
\* asked for, each close to the one before, and the last is all but good.
THEOREM EarnsConvergence == CheckSpec => []ConvergentIsEarned
<1>1. CheckInv => ConvergentIsEarned
  <2> SUFFICES ASSUME CheckInv, status.end # "aborted", status.answer, ~ checkValue
               PROVE  /\ status.end = "converged"
                      /\ Len(seen) > Successive
                      /\ \A k \in 1 .. Successive : Close(seen[Len(seen) - k + 1], seen[Len(seen) - k])
                      /\ seen[Len(seen)] + Tol > 0 /\ Good(seen[Len(seen) - 1])
    BY DEF ConvergentIsEarned
  <2>1. status.end = "converged"
    BY DEF CheckInv, Earned, Running, Ended
  <2>2. /\ LastClose(numConverged) /\ numConverged >= Successive /\ Good(seen[Len(seen) - 1])
        /\ numConverged \in Nat /\ seen \in Seq(Estimates)
        /\ Successive \in Nat \ {0}
    BY <2>1, CheckAssumption DEF CheckInv, CheckTypeOK, Earned
  <2>3. numConverged < Len(seen)
    BY <2>2 DEF LastClose
  <2>4. \A k \in 1 .. Successive : Close(seen[Len(seen) - k + 1], seen[Len(seen) - k])
    BY <2>2 DEF LastClose
  <2>5. seen[Len(seen)] + Tol > 0
    <3>1. Len(seen) - 1 + 1 = Len(seen) /\ 1 \in 1 .. Successive
      BY <2>2
    <3>2. Close(seen[Len(seen)], seen[Len(seen) - 1])
      BY <2>4, <3>1
    <3>3. seen[Len(seen)] \in Int /\ seen[Len(seen) - 1] \in Int /\ Tol \in Int
      <4>1. Len(seen) \in 1 .. Len(seen) /\ Len(seen) - 1 \in 1 .. Len(seen)
        BY <2>2, <2>3
      <4>2. seen[Len(seen)] \in Estimates /\ seen[Len(seen) - 1] \in Estimates
        BY <2>2, <4>1
      <4>3. Tol \in Nat
        BY CheckAssumption
      <4> QED BY <4>2, <4>3, EstimateType
    <3> QED BY <2>2, <3>2, <3>3 DEF Close, Good
  <2> QED BY <2>1, <2>2, <2>3, <2>4, <2>5
<1> QED BY <1>1, CheckInvariance, PTL

(***************************************************************************)
(* The cumulative L1 penalty.                                              *)
(*                                                                         *)
(* The invariant is inductive together with the types: Update turns the    *)
(* bound on q[i] before the change into the one after it, and makes the    *)
(* feature caught up; NextBatch raises u, which only widens the bound, and *)
(* begins with no feature changed.  In the program the batches come from   *)
(* data, so that every step has the sign that the data gives a feature,    *)
(* and neither a step nor a penalty can give the weight another one.       *)
(***************************************************************************)

PenaltyInv == TypeOK /\ PenaltyBounded /\ WeightAccounted /\ CaughtUp

\* ApplyPenalty on a weight w whose received penalty is within the bound: the
\* weight shrinks towards 0, the penalty stays within the bound, and reaches it
\* if the weight does not become 0.
LEMMA PenaltyStep ==
  ASSUME NEW i \in Features, NEW w \in Int, u \in Nat, q[i] \in Int,
         -u <= q[i], q[i] <= u
  PROVE  LET p == Penalised(i, w)
             r == q[i] + (p - w)
         IN  /\ p \in Int /\ r \in Int
             /\ -u <= r /\ r <= u
             /\ w >= 0 => 0 <= p /\ p <= w
             /\ w <= 0 => w <= p /\ p <= 0
             /\ p > 0 => r = -u
             /\ p < 0 => r = u
  BY DEF Penalised, MaxOf, MinOf

LEMMA InitPenaltyInv == Init => PenaltyInv
<1> SUFFICES ASSUME Init PROVE PenaltyInv
  OBVIOUS
<1>1. gradient \in BatchGradients /\ DOMAIN gradient = {}
  <2>1. gradient \in [{} -> Gradients]
    BY DEF Init
  <2> QED BY <2>1 DEF BatchGradients
<1>2. TypeOK
  BY <1>1, ConstantsAssumption DEF Init, TypeOK
<1>3. PenaltyBounded /\ WeightAccounted /\ CaughtUp
  BY <1>1 DEF Init, PenaltyBounded, WeightAccounted, CaughtUp
<1> QED BY <1>2, <1>3 DEF PenaltyInv

\* The change of a weight by a gradient step is an integer.
LEMMA ChangeType ==
  ASSUME TypeOK, NEW i \in DOMAIN gradient
  PROVE  i \in Features /\ gradient[i] \in Int /\ eta * gradient[i] \in Int
<1>1. PICK S \in SUBSET Features : gradient \in [S -> Gradients]
  BY DEF TypeOK, BatchGradients
<1>2. i \in Features /\ gradient[i] \in Int
  BY <1>1, ConstantsAssumption
<1> QED BY <1>2 DEF TypeOK

LEMMA NextPassPenaltyInv == PenaltyInv /\ NextPass => PenaltyInv'
<1> SUFFICES ASSUME PenaltyInv, NextPass PROVE PenaltyInv'
  OBVIOUS
<1>1. TypeOK'
  BY ConstantsAssumption DEF PenaltyInv, NextPass, TypeOK
<1>2. PenaltyBounded' /\ WeightAccounted' /\ CaughtUp'
  BY DEF PenaltyInv, NextPass, PenaltyBounded, WeightAccounted, CaughtUp
<1> QED BY <1>1, <1>2 DEF PenaltyInv

LEMMA NatProduct == \A a, b \in Nat : a * b \in Nat
  OBVIOUS

LEMMA NextBatchPenaltyInv == PenaltyInv /\ NextBatch => PenaltyInv'
<1> SUFFICES ASSUME PenaltyInv, NextBatch PROVE PenaltyInv'
  OBVIOUS
<1>1. eta' \in Nat /\ u' \in Nat /\ u' >= u
  <2>1. eta' \in Nat
    BY ConstantsAssumption DEF NextBatch
  <2>2. eta' * Strength \in Nat
    BY <2>1, NatProduct, ConstantsAssumption
  <2> QED BY <2>1, <2>2 DEF PenaltyInv, TypeOK, NextBatch
<1>2. TypeOK'
  <2>1. batch' \in 0 .. NumBatches
    BY ConstantsAssumption DEF PenaltyInv, TypeOK, NextBatch
  <2>2. gradient' \in BatchGradients'
    BY DEF NextBatch, BatchGradients
  <2>3. todo' \subseteq DOMAIN gradient'
    BY DEF NextBatch
  <2> QED BY <1>1, <2>1, <2>2, <2>3 DEF PenaltyInv, NextBatch, TypeOK
<1>3. PenaltyBounded'
  BY <1>1 DEF PenaltyInv, NextBatch, TypeOK, PenaltyBounded
<1>4. WeightAccounted' /\ CaughtUp'
  BY DEF PenaltyInv, NextBatch, WeightAccounted, CaughtUp
<1> QED BY <1>2, <1>3, <1>4 DEF PenaltyInv

\* What Update does to the feature that it changes.
LEMMA UpdateOne ==
  ASSUME PenaltyInv, NEW i \in Features, Update(i)
  PROVE  LET w == weights[i] + eta * gradient[i]
         IN  /\ w \in Int
             /\ weights'[i] \in Int /\ q'[i] \in Int /\ applied'[i] \in Int
             /\ -u <= q'[i] /\ q'[i] <= u
             /\ weights'[i] = applied'[i] + q'[i]
             /\ weights'[i] > 0 => q'[i] = -u
             /\ weights'[i] < 0 => q'[i] = u
             /\ w >= 0 => 0 <= weights'[i] /\ weights'[i] <= w
             /\ w <= 0 => w <= weights'[i] /\ weights'[i] <= 0
<1> DEFINE c == eta * gradient[i]
           w == weights[i] + c
           p == Penalised(i, w)
<1>1. c \in Int
  BY ChangeType DEF PenaltyInv, TypeOK, Update
<1>2. /\ weights[i] \in Int /\ q[i] \in Int /\ applied[i] \in Int /\ u \in Nat
      /\ -u <= q[i] /\ q[i] <= u /\ weights[i] = applied[i] + q[i]
  BY DEF PenaltyInv, TypeOK, PenaltyBounded, WeightAccounted
<1>3. /\ weights'[i] = p
      /\ q'[i] = q[i] + (p - w)
      /\ applied'[i] = applied[i] + c
  BY DEF Update, Received, PenaltyInv, TypeOK
<1> HIDE DEF c
<1>4. w \in Int
  BY <1>1, <1>2
<1> HIDE DEF w
<1>5. /\ p \in Int /\ q[i] + (p - w) \in Int
      /\ -u <= q[i] + (p - w) /\ q[i] + (p - w) <= u
      /\ w >= 0 => 0 <= p /\ p <= w
      /\ w <= 0 => w <= p /\ p <= 0
      /\ p > 0 => q[i] + (p - w) = -u
      /\ p < 0 => q[i] + (p - w) = u
  BY <1>2, <1>4, PenaltyStep
<1> HIDE DEF p
<1>6. p = (applied[i] + c) + (q[i] + (p - w))
  BY <1>1, <1>2, <1>4, <1>5 DEF w
<1>7. /\ w \in Int
      /\ weights'[i] \in Int /\ q'[i] \in Int /\ applied'[i] \in Int
      /\ -u <= q'[i] /\ q'[i] <= u
      /\ weights'[i] = applied'[i] + q'[i]
      /\ weights'[i] > 0 => q'[i] = -u
      /\ weights'[i] < 0 => q'[i] = u
      /\ w >= 0 => 0 <= weights'[i] /\ weights'[i] <= w
      /\ w <= 0 => w <= weights'[i] /\ weights'[i] <= 0
  BY <1>1, <1>2, <1>3, <1>4, <1>5, <1>6
<1> QED BY <1>7 DEF w, c

\* Update changes nothing of the other features.
LEMMA UpdateOthers ==
  ASSUME PenaltyInv, NEW i \in Features, Update(i), NEW j \in Features, j # i
  PROVE  weights'[j] = weights[j] /\ q'[j] = q[j] /\ applied'[j] = applied[j]
  BY DEF PenaltyInv, TypeOK, Update

LEMMA UpdatePenaltyInv ==
  ASSUME PenaltyInv, NEW i \in Features, Update(i)
  PROVE  PenaltyInv'
<1>1. \A j \in Features : /\ weights'[j] \in Int /\ q'[j] \in Int /\ applied'[j] \in Int
                          /\ -u <= q'[j] /\ q'[j] <= u
                          /\ weights'[j] = applied'[j] + q'[j]
  <2> TAKE j \in Features
  <2>1. CASE j = i
    BY <2>1, UpdateOne
  <2>2. CASE j # i
    BY <2>2, UpdateOthers DEF PenaltyInv, TypeOK, PenaltyBounded, WeightAccounted
  <2> QED BY <2>1, <2>2
<1>2. TypeOK'
  <2>1. /\ weights' \in [Features -> Int] /\ q' \in [Features -> Int]
        /\ applied' \in [Features -> Int]
    <3>1. /\ weights' = [j \in Features |-> weights'[j]]
          /\ q' = [j \in Features |-> q'[j]]
          /\ applied' = [j \in Features |-> applied'[j]]
      BY DEF PenaltyInv, TypeOK, Update
    <3> QED BY <1>1, <3>1
  <2>2. zeroWeights' \subseteq Features
    BY DEF PenaltyInv, TypeOK, Update
  <2> QED BY <2>1, <2>2 DEF PenaltyInv, TypeOK, Update
<1>3. PenaltyBounded' /\ WeightAccounted'
  BY <1>1 DEF PenaltyBounded, WeightAccounted, Update
<1>4. CaughtUp'
  <2> SUFFICES ASSUME NEW j \in DOMAIN gradient \ todo'
               PROVE  /\ weights'[j] > 0 => q'[j] = -u
                      /\ weights'[j] < 0 => q'[j] = u
    BY DEF CaughtUp, Update
  <2>1. CASE j = i
    BY <2>1, UpdateOne
  <2>2. CASE j # i
    <3>1. j \in DOMAIN gradient \ todo
      BY <2>2 DEF Update
    <3>2. j \in Features
      BY ChangeType DEF PenaltyInv
    <3> QED BY <2>2, <3>1, <3>2, UpdateOthers DEF PenaltyInv, CaughtUp
  <2> QED BY <2>1, <2>2
<1> QED BY <1>2, <1>3, <1>4 DEF PenaltyInv

LEMMA StutterPenaltyInv == PenaltyInv /\ UNCHANGED vars => PenaltyInv'
  BY DEF PenaltyInv, vars, TypeOK, PenaltyBounded, WeightAccounted, CaughtUp, BatchGradients

\* The strengthened invariant holds at every step of the training.
THEOREM PenaltyInvariance == Spec => []PenaltyInv
<1>1. Init => PenaltyInv
  BY InitPenaltyInv
<1>2. PenaltyInv /\ [Next]_vars => PenaltyInv'
  BY NextPassPenaltyInv, NextBatchPenaltyInv, UpdatePenaltyInv, StutterPenaltyInv DEF Next
<1> QED BY <1>1, <1>2, PTL DEF Spec

\* Weights, penalties and counters always have their types.
THEOREM PenaltyTypeCorrect == Spec => []TypeOK
<1>1. PenaltyInv => TypeOK
  BY DEF PenaltyInv
<1> QED BY <1>1, PenaltyInvariance, PTL

\* No weight is penalised beyond the total penalty u_; the penalty received is
\* what separates a weight from its gradient steps; and whatever the last batch
\* changed has caught up or is 0.
THEOREM PenaltyCorrect == Spec => [](PenaltyBounded /\ WeightAccounted /\ CaughtUp)
<1>1. PenaltyInv => PenaltyBounded /\ WeightAccounted /\ CaughtUp
  BY DEF PenaltyInv
<1> QED BY <1>1, PenaltyInvariance, PTL

\* ApplyPenalty moves a weight towards 0 and never past it.
THEOREM Shrinks == Spec => PenaltyShrinks
<1> DEFINE A == \A i \in todo \ todo' :
                  LET w == weights[i] + eta * gradient[i]
                  IN  /\ w >= 0 => 0 <= weights'[i] /\ weights'[i] <= w
                      /\ w <= 0 => w <= weights'[i] /\ weights'[i] <= 0
<1>1. PenaltyInv /\ [Next]_vars => [A]_vars
  <2> SUFFICES ASSUME PenaltyInv, Next PROVE A
    OBVIOUS
  <2>1. CASE NextPass \/ NextBatch
    BY <2>1 DEF NextPass, NextBatch
  <2>2. CASE \E i \in Features : Update(i)
    <3>1. PICK i \in Features : Update(i)
      BY <2>2
    <3>2. todo \ todo' \subseteq {i}
      BY <3>1 DEF Update
    <3> QED BY <3>1, <3>2, UpdateOne
  <2> QED BY <2>1, <2>2 DEF Next
<1> QED BY <1>1, PenaltyInvariance, PTL DEF Spec, PenaltyShrinks

-----------------------------------------------------------------------------
(* The program: every batch is made of a pair of the data, and without the  *)
(* option the penalty is left alone.                                        *)

NoPenalty == "l1" \notin given => u = 0 /\ \A i \in Features : q[i] = 0

\* The truth of every pair that a feature is a feature of.
Having(f) == {p \in {data[n] : n \in 1 .. NumBatches} : f \in FeaturesOn(p.unclamped)}
OnlyWrong(f) == \A p \in Having(f) : f \notin FeaturesOn(p.clamped)
AlwaysRight(f) == \A p \in Having(f) : \A path \in p.clamped : f \in path

\* A step for such a feature has the sign of its weight.
StepsFavour ==
  \A f \in DOMAIN gradient : /\ OnlyWrong(f) => gradient[f] >= 0
                             /\ AlwaysRight(f) => gradient[f] <= 0

OnlineInv ==
  /\ PenaltyInv /\ NoPenalty
  /\ data \in [1 .. NumBatches -> Pairs]
  /\ StepsFavour /\ FavoursTheTruth

LEMMA Favour ==
  FavoursTheTruth <=> \A f \in Features : /\ OnlyWrong(f) => weights[f] >= 0
                                          /\ AlwaysRight(f) => weights[f] <= 0
  BY DEF FavoursTheTruth, OnlyWrong, AlwaysRight, Having

LEMMA SignedProduct ==
  ASSUME NEW a \in Nat, NEW b \in Int
  PROVE  /\ a * b \in Int
         /\ b >= 0 => a * b >= 0
         /\ b <= 0 => a * b <= 0
  OBVIOUS

LEMMA OnlineInitInv == OnlineInit => OnlineInv
<1> SUFFICES ASSUME OnlineInit PROVE OnlineInv
  OBVIOUS
<1>1. PenaltyInv /\ Init
  BY InitPenaltyInv DEF OnlineInit
<1>2. NoPenalty /\ StepsFavour /\ FavoursTheTruth
  BY <1>1, Favour DEF Init, NoPenalty, StepsFavour
<1> QED BY <1>1, <1>2 DEF OnlineInv, OnlineInit

\* What an expected count can be.
LEMMA ExpectationsType ==
  ASSUME NEW paths, NEW f
  PROVE  Expectations(paths, f) \subseteq 0 .. Unit
  BY PairsAssumption DEF Expectations

\* The gradient of the batch of pair p.
LEMMA GradientsSigned ==
  ASSUME OnlineInv, NEW n \in 1 .. NumBatches, data[n].clamped # {},
         NEW g \in AddGradients(data[n])
  PROVE  /\ g \in BatchGradients
         /\ \A f \in DOMAIN g : /\ OnlyWrong(f) => g[f] >= 0
                                /\ AlwaysRight(f) => g[f] <= 0
<1> DEFINE p == data[n]
<1>1. p \in Pairs /\ FeaturesOn(p.unclamped) \subseteq Features
  BY PairsAssumption DEF OnlineInv, FeaturesOn
<1>2. /\ g \in [FeaturesOn(p.unclamped) -> Gradients]
      /\ \A f \in DOMAIN g : \E c \in Expectations(p.clamped, f) : g[f] + c \in Expectations(p.unclamped, f)
  BY DEF AddGradients
<1>3. g \in BatchGradients
  BY <1>1, <1>2 DEF BatchGradients
<1>4. ASSUME NEW f \in DOMAIN g
      PROVE  /\ OnlyWrong(f) => g[f] >= 0
             /\ AlwaysRight(f) => g[f] <= 0
  <2>1. p \in Having(f)
    BY <1>2 DEF Having
  <2>2. PICK c \in Expectations(p.clamped, f) : g[f] + c \in Expectations(p.unclamped, f)
    BY <1>2
  <2>3. g[f] \in Int /\ g[f] + c \in 0 .. Unit /\ Unit \in Nat
    BY <1>2, <2>2, ExpectationsType, ConstantsAssumption, PairsAssumption
  <2>4. c \in 0 .. Unit
    BY <2>2, ExpectationsType
  <2>5. OnlyWrong(f) => c = 0
    <3>1. OnlyWrong(f) => f \notin FeaturesOn(p.clamped)
      BY <2>1 DEF OnlyWrong
    <3>2. f \notin FeaturesOn(p.clamped) => ~ \A path \in p.clamped : f \in path
      BY DEF FeaturesOn
    <3> QED BY <2>2, <3>1, <3>2 DEF Expectations
  <2>6. AlwaysRight(f) => c = Unit
    <3>1. AlwaysRight(f) => \A path \in p.clamped : f \in path
      BY <2>1 DEF AlwaysRight
    <3> QED BY <2>2, <3>1 DEF Expectations
  <2> QED BY <2>3, <2>4, <2>5, <2>6
<1> QED BY <1>3, <1>4

\* Either trainer takes up a batch.
LEMMA BatchInv ==
  ASSUME OnlineInv, CanSum, eta' \in LearningRates, gradient' \in AddGradients(data[batch + 1]),
         todo' = DOMAIN gradient', batch' = batch + 1,
         \/ "l1" \in given /\ u' = u + eta' * Strength
         \/ "l1" \notin given /\ u' = u,
         UNCHANGED <<weights, q, zeroWeights, pass, applied, online>>
  PROVE  OnlineInv'
<1>1. batch + 1 \in 1 .. NumBatches /\ batch' \in 0 .. NumBatches /\ data[batch + 1].clamped # {}
  BY ConstantsAssumption DEF CanSum, AtBatch, OnlineInv, PenaltyInv, TypeOK
<1>2. /\ gradient' \in BatchGradients
      /\ \A f \in DOMAIN gradient' : /\ OnlyWrong(f) => gradient'[f] >= 0
                                     /\ AlwaysRight(f) => gradient'[f] <= 0
  <2>1. PICK g \in AddGradients(data[batch + 1]) : g = gradient'
    OBVIOUS
  <2> QED BY <1>1, <2>1, GradientsSigned
<1>3. eta' \in Nat /\ u' \in Nat /\ u' >= u
  <2>1. eta' \in Nat
    BY ConstantsAssumption DEF LearningRates
  <2>2. eta' * Strength \in Nat
    BY <2>1, NatProduct, ConstantsAssumption
  <2> QED BY <2>1, <2>2 DEF OnlineInv, PenaltyInv, TypeOK
<1>4. TypeOK'
  <2>1. gradient' \in BatchGradients'
    BY <1>2 DEF BatchGradients
  <2> QED BY <1>1, <1>3, <2>1 DEF OnlineInv, PenaltyInv, TypeOK
<1>5. PenaltyBounded'
  BY <1>3 DEF OnlineInv, PenaltyInv, TypeOK, PenaltyBounded
<1>6. WeightAccounted' /\ CaughtUp'
  BY DEF OnlineInv, PenaltyInv, WeightAccounted, CaughtUp
<1>7. given' = given /\ data' = data /\ \A f : (OnlyWrong(f)' <=> OnlyWrong(f))
                                            /\ (AlwaysRight(f)' <=> AlwaysRight(f))
  BY DEF online, OnlyWrong, AlwaysRight, Having
<1>8. StepsFavour'
  BY <1>2, <1>7 DEF StepsFavour
<1>9. FavoursTheTruth'
  BY <1>7 DEF OnlineInv, FavoursTheTruth
<1>10. NoPenalty'
  BY <1>7 DEF OnlineInv, NoPenalty
<1> QED BY <1>4, <1>5, <1>6, <1>7, <1>8, <1>9, <1>10 DEF OnlineInv, PenaltyInv

\* What any change of a weight by a gradient step keeps.
LEMMA WeightSigned ==
  ASSUME OnlineInv, NEW i \in DOMAIN gradient, UNCHANGED <<gradient, online>>,
         weights' \in [Features -> Int],
         \A j \in Features : j # i => weights'[j] = weights[j],
         LET w == weights[i] + eta * gradient[i]
         IN  (w >= 0 => 0 <= weights'[i]) /\ (w <= 0 => weights'[i] <= 0)
  PROVE  StepsFavour' /\ FavoursTheTruth'
<1>1. i \in Features /\ gradient[i] \in Int /\ eta \in Nat /\ weights[i] \in Int
  BY ChangeType DEF OnlineInv, PenaltyInv, TypeOK
<1>2. \A f : (OnlyWrong(f)' <=> OnlyWrong(f)) /\ (AlwaysRight(f)' <=> AlwaysRight(f))
  BY DEF online, OnlyWrong, AlwaysRight, Having
<1>3. /\ OnlyWrong(i) => gradient[i] >= 0 /\ weights[i] >= 0
      /\ AlwaysRight(i) => gradient[i] <= 0 /\ weights[i] <= 0
  BY <1>1, Favour DEF OnlineInv, StepsFavour
<1> DEFINE c == eta * gradient[i]
<1>4. c \in Int /\ (gradient[i] >= 0 => c >= 0) /\ (gradient[i] <= 0 => c <= 0)
  BY <1>1, SignedProduct
<1>5. (weights[i] + c >= 0 => 0 <= weights'[i]) /\ (weights[i] + c <= 0 => weights'[i] <= 0)
  OBVIOUS
<1> HIDE DEF c
<1>6. /\ OnlyWrong(i) => weights'[i] >= 0
      /\ AlwaysRight(i) => weights'[i] <= 0
  BY <1>1, <1>3, <1>4, <1>5
<1>7. \A f \in Features : /\ OnlyWrong(f) => weights'[f] >= 0
                          /\ AlwaysRight(f) => weights'[f] <= 0
  BY <1>6, Favour DEF OnlineInv
<1>8. FavoursTheTruth'
  <2>1. (\A f \in Features : /\ OnlyWrong(f) => weights[f] >= 0
                             /\ AlwaysRight(f) => weights[f] <= 0)'
    BY <1>2, <1>7
  <2> QED BY <2>1 DEF FavoursTheTruth, OnlyWrong, AlwaysRight, Having
<1>9. StepsFavour'
  BY <1>2 DEF OnlineInv, StepsFavour
<1> QED BY <1>8, <1>9

LEMMA L1UpdateInv ==
  ASSUME OnlineInv, NEW i \in Features, L1Update(i)
  PROVE  OnlineInv'
<1>1. Update(i) /\ "l1" \in given /\ UNCHANGED online
  BY DEF L1Update
<1>2. PenaltyInv'
  BY <1>1, UpdatePenaltyInv DEF OnlineInv
<1>3. i \in DOMAIN gradient /\ gradient' = gradient
  BY <1>1 DEF Update, OnlineInv, PenaltyInv, TypeOK
<1>4. StepsFavour' /\ FavoursTheTruth'
  <2>1. \A j \in Features : j # i => weights'[j] = weights[j]
    BY <1>1, UpdateOthers DEF OnlineInv
  <2>2. LET w == weights[i] + eta * gradient[i]
        IN  (w >= 0 => 0 <= weights'[i]) /\ (w <= 0 => weights'[i] <= 0)
    BY <1>1, UpdateOne DEF OnlineInv
  <2>3. weights' \in [Features -> Int]
    BY <1>2 DEF PenaltyInv, TypeOK
  <2> QED BY <1>1, <1>3, <2>1, <2>2, <2>3, WeightSigned
<1> QED BY <1>1, <1>2, <1>4 DEF OnlineInv, NoPenalty, online

LEMMA SgdUpdateInv ==
  ASSUME OnlineInv, NEW i \in Features, SgdUpdate(i)
  PROVE  OnlineInv'
<1> DEFINE c == eta * gradient[i]
<1>1. /\ "l1" \notin given /\ i \in todo /\ todo' = todo \ {i}
      /\ weights' = [weights EXCEPT ![i] = @ + c]
      /\ applied' = [applied EXCEPT ![i] = @ + c]
      /\ UNCHANGED <<u, q, zeroWeights, pass, batch, eta, gradient, online>>
  BY DEF SgdUpdate
<1>2. i \in DOMAIN gradient /\ c \in Int
  BY <1>1, ChangeType DEF OnlineInv, PenaltyInv, TypeOK
<1>3. /\ weights \in [Features -> Int] /\ applied \in [Features -> Int] /\ q \in [Features -> Int]
      /\ u = 0 /\ \A j \in Features : q[j] = 0 /\ weights[j] = applied[j] + q[j]
  BY <1>1 DEF OnlineInv, PenaltyInv, TypeOK, NoPenalty, WeightAccounted
<1>4. weights'[i] = weights[i] + c
  BY <1>1, <1>3
<1>5. StepsFavour' /\ FavoursTheTruth'
  <2>1. weights' \in [Features -> Int] /\ \A j \in Features : j # i => weights'[j] = weights[j]
    <3> HIDE DEF c
    <3> QED BY <1>1, <1>2, <1>3
  <2>2. UNCHANGED <<gradient, online>>
    BY <1>1
  <2>3. (weights[i] + c >= 0 => 0 <= weights'[i]) /\ (weights[i] + c <= 0 => weights'[i] <= 0)
    <3>1. weights[i] + c \in Int
      <4> HIDE DEF c
      <4> QED BY <1>2, <1>3
    <3> HIDE DEF c
    <3> QED BY <1>4, <3>1
  <2> QED BY <1>2, <2>1, <2>2, <2>3, WeightSigned
<1> HIDE DEF c
<1>6. TypeOK'
  BY <1>1, <1>2, <1>3 DEF OnlineInv, PenaltyInv, TypeOK, BatchGradients
<1>7. PenaltyBounded' /\ WeightAccounted'
  BY <1>1, <1>2, <1>3 DEF OnlineInv, PenaltyInv, PenaltyBounded, WeightAccounted
<1>8. CaughtUp'
  <2>1. \A j \in DOMAIN gradient' : q'[j] = -u' /\ q'[j] = u'
    BY <1>1, <1>3, ChangeType DEF OnlineInv, PenaltyInv
  <2> QED BY <2>1 DEF CaughtUp
<1> QED BY <1>1, <1>5, <1>6, <1>7, <1>8 DEF OnlineInv, PenaltyInv, NoPenalty, online

\* Everything but the trainers leaves weights, penalties and batches alone.
LEMMA ElsewhereInv == OnlineInv /\ UNCHANGED <<vars, online>> => OnlineInv'
<1> SUFFICES ASSUME OnlineInv, UNCHANGED <<vars, online>> PROVE OnlineInv'
  OBVIOUS
<1>1. PenaltyInv'
  BY StutterPenaltyInv DEF OnlineInv
<1> QED BY <1>1 DEF OnlineInv, vars, online, NoPenalty, StepsFavour, FavoursTheTruth, OnlyWrong,
       AlwaysRight, Having

LEMMA TrainPassInv == OnlineInv /\ TrainPass => OnlineInv'
<1> SUFFICES ASSUME OnlineInv, TrainPass PROVE OnlineInv'
  OBVIOUS
<1>1. PenaltyInv'
  BY NextPassPenaltyInv DEF OnlineInv, TrainPass
<1> QED BY <1>1 DEF OnlineInv, TrainPass, NextPass, online, NoPenalty, StepsFavour, FavoursTheTruth,
       OnlyWrong, AlwaysRight, Having

LEMMA OnlineNextInv == OnlineInv /\ [OnlineNext]_onlineVars => OnlineInv'
<1> SUFFICES ASSUME OnlineInv, [OnlineNext]_onlineVars PROVE OnlineInv'
  OBVIOUS
<1>1. CASE MissingOption \/ Start \/ NoPaths \/ Finish \/ UNCHANGED onlineVars
  BY <1>1, ElsewhereInv DEF MissingOption, Start, NoPaths, Finish, Fail, onlineVars
<1>2. CASE L1Batch
  BY <1>2, BatchInv DEF L1Batch
<1>3. CASE SgdBatch
  BY <1>3, BatchInv DEF SgdBatch
<1> QED BY <1>1, <1>2, <1>3, TrainPassInv, L1UpdateInv, SgdUpdateInv DEF OnlineNext

\* The invariant of the program with either trainer.
THEOREM OnlineInvariance == OnlineSpec => []OnlineInv
  BY OnlineInitInv, OnlineNextInv, PTL DEF OnlineSpec

\* In the program, for any data: weights, penalties and counters have their types.
THEOREM OnlineTypes == OnlineSpec => []TypeOK
<1>1. OnlineInv => TypeOK
  BY DEF OnlineInv, PenaltyInv
<1> QED BY <1>1, OnlineInvariance, PTL

\* No weight is penalised beyond u_, in either direction, with either trainer.
THEOREM OnlineBounded == OnlineSpec => []PenaltyBounded
<1>1. OnlineInv => PenaltyBounded
  BY DEF OnlineInv, PenaltyInv
<1> QED BY <1>1, OnlineInvariance, PTL

\* The penalty received is what separates a weight from its gradient steps.
THEOREM OnlineAccounted == OnlineSpec => []WeightAccounted
<1>1. OnlineInv => WeightAccounted
  BY DEF OnlineInv, PenaltyInv
<1> QED BY <1>1, OnlineInvariance, PTL

\* Whatever the last batch has changed has caught up with the penalty, or is 0.
THEOREM OnlineCaughtUp == OnlineSpec => []CaughtUp
<1>1. OnlineInv => CaughtUp
  BY DEF OnlineInv, PenaltyInv
<1> QED BY <1>1, OnlineInvariance, PTL

\* For any data and any sequence of batches, learning rates and penalties: a feature
\* of the right outputs only never costs, one of wrong outputs only is never
\* preferred.
THEOREM TruthFavoured == OnlineSpec => []FavoursTheTruth
<1>1. OnlineInv => FavoursTheTruth
  BY DEF OnlineInv
<1> QED BY <1>1, OnlineInvariance, PTL

LEMMA UpdateShrinks ==
  ASSUME PenaltyInv, NEW i \in Features, Update(i), NEW j \in todo \ todo'
  PROVE  LET w == weights[j] + eta * gradient[j]
         IN  /\ w >= 0 => 0 <= weights'[j] /\ weights'[j] <= w
             /\ w <= 0 => w <= weights'[j] /\ weights'[j] <= 0
<1>1. j = i
  BY DEF Update
<1> QED BY <1>1, UpdateOne

\* Without the option a change is the gradient step itself.
LEMMA SgdUpdateStep ==
  ASSUME PenaltyInv, NEW i \in Features, SgdUpdate(i), NEW j \in todo \ todo'
  PROVE  /\ weights'[j] = weights[j] + eta * gradient[j]
         /\ weights[j] + eta * gradient[j] \in Int
<1> DEFINE c == eta * gradient[i]
<1>1. j = i /\ i \in DOMAIN gradient /\ c \in Int
  BY ChangeType DEF SgdUpdate, PenaltyInv, TypeOK
<1>2. weights' = [weights EXCEPT ![i] = @ + c] /\ weights \in [Features -> Int]
  BY DEF SgdUpdate, PenaltyInv, TypeOK
<1> HIDE DEF c
<1>3. weights'[i] = weights[i] + c /\ weights[i] + c \in Int
  BY <1>1, <1>2
<1> QED BY <1>1, <1>3 DEF c

\* In the program: a penalty moves a weight towards 0 and never past it.
THEOREM OnlineShrinks == OnlineSpec => PenaltyShrinks
<1> DEFINE A == \A i \in todo \ todo' :
                  LET w == weights[i] + eta * gradient[i]
                  IN  /\ w >= 0 => 0 <= weights'[i] /\ weights'[i] <= w
                      /\ w <= 0 => w <= weights'[i] /\ weights'[i] <= 0
<1>1. OnlineInv /\ [OnlineNext]_onlineVars => [A]_vars
  <2> SUFFICES ASSUME OnlineInv, OnlineNext, vars' # vars PROVE A
    BY DEF onlineVars
  <2>1. CASE MissingOption \/ Start \/ NoPaths \/ Finish
    BY <2>1 DEF MissingOption, Start, NoPaths, Finish, Fail
  <2>2. CASE TrainPass \/ L1Batch \/ SgdBatch
    BY <2>2 DEF TrainPass, NextPass, L1Batch, SgdBatch, CanSum, AtBatch
  <2>3. CASE \E i \in Features : L1Update(i)
    BY <2>3, UpdateShrinks DEF L1Update, OnlineInv
  <2>4. CASE \E i \in Features : SgdUpdate(i)
    <3> SUFFICES ASSUME NEW j \in todo \ todo'
                 PROVE  LET w == weights[j] + eta * gradient[j]
                        IN  /\ w >= 0 => 0 <= weights'[j] /\ weights'[j] <= w
                            /\ w <= 0 => w <= weights'[j] /\ weights'[j] <= 0
      OBVIOUS
    <3> DEFINE w == weights[j] + eta * gradient[j]
    <3>1. weights'[j] = w /\ w \in Int
      BY <2>4, SgdUpdateStep DEF OnlineInv
    <3> HIDE DEF w
    <3>2. /\ w >= 0 => 0 <= weights'[j] /\ weights'[j] <= w
          /\ w <= 0 => w <= weights'[j] /\ weights'[j] <= 0
      BY <3>1
    <3> QED BY <3>2 DEF w
  <2> QED BY <2>1, <2>2, <2>3, <2>4 DEF OnlineNext
<1> QED BY <1>1, OnlineInvariance, PTL DEF OnlineSpec, PenaltyShrinks
=============================================================================
