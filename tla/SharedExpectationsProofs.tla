---------------------- MODULE SharedExpectationsProofs ----------------------
(***************************************************************************)
(* IInv is an invariant of SharedExpectations for any number of workers,   *)
(* weights and objects; the properties that TLC checks follow from it.     *)
(***************************************************************************)
EXTENDS SharedExpectations, FiniteSetTheorems, TLAPS

USE ConstantsAssumption

\* Holders(o) is finite, so its cardinality is a number.
LEMMA HoldersFinite ==
  ASSUME NEW o
  PROVE  IsFiniteSet(Holders(o)) /\ Cardinality(Holders(o)) \in Nat
<1>1. IsFiniteSet(Handles \cup Threads)
  BY FS_Union
<1>2. Holders(o) \in SUBSET (Handles \cup Threads)
  BY DEF Holders
<1> QED
  BY <1>1, <1>2, FS_Subset, FS_CardinalityType

\* Replacing one member of a finite set by a new one keeps its size.
LEMMA SwapCardinality ==
  ASSUME NEW S, IsFiniteSet(S), NEW x \in S, NEW y, y \notin S
  PROVE  Cardinality((S \ {x}) \cup {y}) = Cardinality(S)
<1>1. /\ IsFiniteSet(S \ {x})
      /\ Cardinality(S \ {x}) = Cardinality(S) - 1
      /\ Cardinality(S) \in Nat
  BY FS_RemoveElement, FS_CardinalityType
<1>2. y \notin S \ {x}
  OBVIOUS
<1>3. Cardinality((S \ {x}) \cup {y}) = Cardinality(S \ {x}) + 1
  BY <1>1, <1>2, FS_AddElement
<1> QED
  BY <1>1, <1>3

LEMMA InitInv == Init => IInv
<1> SUFFICES ASSUME Init PROVE IInv
  OBVIOUS
<1> USE DEF Init
<1>1. TypeOK
  BY DEF TypeOK, Steps, Threads
<1>2. NoDangling /\ CountExact /\ NoLeak
  BY DEF NoDangling, CountExact, NoLeak
<1>3. LocalState /\ PhaseState
  BY DEF LocalState, PhaseState, Threads, Releasing, Unsharing
<1>4. SharedThroughModel /\ SoleDeleter /\ UnsharedState
  BY DEF SharedThroughModel, SoleDeleter, UnsharedState, Uses, Threads, Unsharing
<1> QED
  BY <1>1, <1>2, <1>3, <1>4 DEF IInv

\* Operations of two threads overlap only if both are workers.
LEMMA OverlapOfWorkers ==
  ASSUME IInv, NEW t \in Threads, NEW u \in Threads, pc[u] # "idle",
         Runs(t) \/ pc[t] # "idle", t # u
  PROVE  t \in Workers /\ u \in Workers /\ phase = "par"
BY DEF IInv, PhaseState, Runs, Threads, TypeOK

\* While Main runs alone, no worker refers to anything.
LEMMA WorkersUseNothing ==
  ASSUME IInv, phase = "seq", NEW w \in Workers, NEW o \in Objs
  PROVE  ~ Uses(w, o)
BY DEF IInv, PhaseState, LocalState, Uses, ModelHandles, Threads, Releasing,
       Unsharing, TypeOK

\* A counted reference makes the count positive.
LEMMA HolderCounts ==
  ASSUME IInv, NEW o \in heap, NEW x \in Holders(o)
  PROVE  count[o] > 0
<1>1. Holders(o) # {} /\ count[o] = Cardinality(Holders(o))
  BY DEF IInv, CountExact
<1>2. Cardinality(Holders(o)) # 0 /\ Cardinality(Holders(o)) \in Nat
  BY <1>1, HoldersFinite, FS_EmptySet
<1> QED
  BY <1>1, <1>2

\* An object that t may copy is not one that a thread is changing.
LEMMA ReadableNotTarget ==
  ASSUME IInv, NEW t \in Threads, Runs(t), pc[t] = "idle",
         NEW g \in Handles, Owner[g] \in {t, Main}, ptr[g] # NoObj,
         NEW u \in Threads, pc[u] \in {"write"} \cup Unsharing
  PROVE  ptr[target[u]] # ptr[g]
<1>1. u # t /\ u # Main
  BY OverlapOfWorkers DEF Unsharing
<1>2. ptr[target[u]] \in Objs /\ Owner[target[u]] = u
  BY DEF IInv, LocalState, TypeOK
<1>3. Holders(ptr[target[u]]) = {target[u]}
  BY <1>2 DEF IInv, UnsharedState
<1>4. g \in Holders(ptr[g])
  BY DEF Holders
<1> QED
  BY <1>1, <1>2, <1>3, <1>4

\* An object that a handle or a counted thread refers to is nobody's to delete.
LEMMA HeldNotDeleted ==
  ASSUME IInv, NEW o \in Objs, Holders(o) # {}, NEW u \in Threads, pc[u] = "delete"
  PROVE  held[u] # o
BY DEF IInv, SoleDeleter

-----------------------------------------------------------------------------

LEMMA CopyConstructInv ==
  ASSUME IInv, NEW t \in Threads, NEW h \in Handles, NEW g \in Handles,
         CopyConstruct(t, h, g)
  PROVE  IInv'
<1> DEFINE o1 == ptr[g]
<1> USE DEF IInv, CopyConstruct, Starts, IncCount
<1>1. TypeOK'
  BY DEF TypeOK
<1>2. o1 \in heap /\ o1 \in Objs
  BY DEF TypeOK, NoDangling
<1>3. \A o \in Objs : Holders(o)' = IF o = o1 THEN Holders(o) \cup {h} ELSE Holders(o)
  BY DEF Holders, Counted, TypeOK, Threads
<1>4. \A o \in Objs : h \notin Holders(o)
  BY DEF Holders
<1>5. NoDangling'
  BY <1>2 DEF NoDangling, TypeOK
<1>6. CountExact'
  <2> SUFFICES ASSUME NEW o \in heap PROVE count'[o] = Cardinality(Holders(o)')
    BY DEF CountExact
  <2>1. o \in Objs /\ o # NoObj /\ count[o] = Cardinality(Holders(o))
    BY DEF CountExact, TypeOK
  <2>2. CASE o = o1
    <3>1. Cardinality(Holders(o) \cup {h}) = Cardinality(Holders(o)) + 1
      BY <1>4, <2>1, HoldersFinite, FS_AddElement
    <3> QED
      BY <1>3, <2>1, <2>2, <3>1 DEF TypeOK
  <2>3. CASE o # o1
    BY <1>3, <2>1, <2>3 DEF TypeOK
  <2> QED
    BY <2>2, <2>3
<1>7. NoLeak'
  BY <1>3 DEF NoLeak, TypeOK
<1>8. LocalState'
  BY DEF LocalState, TypeOK
<1>9. PhaseState'
  BY DEF PhaseState, Runs, TypeOK, ModelHandles, Threads
<1>10. SharedThroughModel'
  BY DEF SharedThroughModel, Uses, Runs, TypeOK, ModelHandles, Threads, PhaseState
<1>11. SoleDeleter'
  BY <1>2, <1>3 DEF SoleDeleter, Holders, TypeOK
<1>12. UnsharedState'
  <2>1. \A u \in Threads : pc[u] \in {"write"} \cup Unsharing =>
          /\ ptr[target[u]] \in Objs \ {o1}
          /\ target[u] # h
    BY ReadableNotTarget DEF LocalState, TypeOK
  <2>2. \A u \in Threads, o \in Objs :
          pc[u] \in {"write"} \cup Unsharing /\ (ptr[target[u]])' = o =>
            Holders(o)' = {target[u]}
    BY <1>3, <2>1 DEF UnsharedState, TypeOK
  <2>3. \A u \in Threads, o \in Objs : pc[u] \in Unsharing /\ held[u] = o =>
          \E k \in Handles : ptr'[k] = o /\ Owner[k] \in {u, Main}
    BY DEF UnsharedState, LocalState, TypeOK
  <2> QED
    BY <2>1, <2>2, <2>3 DEF UnsharedState, TypeOK
<1> QED
  BY <1>1, <1>5, <1>6, <1>7, <1>8, <1>9, <1>10, <1>11, <1>12

LEMMA AssignInv ==
  ASSUME IInv, NEW t \in Threads, NEW h \in Handles, NEW g \in Handles,
         Assign(t, h, g)
  PROVE  IInv'
<1> DEFINE o1 == ptr[h]
           o2 == ptr[g]
<1> USE DEF IInv, Assign, Starts, IncCount
<1>1. TypeOK'
  BY DEF TypeOK, Steps, Releasing
<1>2. /\ o1 \in heap /\ o1 \in Objs
      /\ o2 # NoObj => o2 \in heap /\ o2 \in Objs
  BY DEF TypeOK, NoDangling
<1>3. \A o \in Objs :
        /\ t \notin Holders(o)
        /\ h \in Holders(o) <=> o = o1
        /\ o = o1 /\ o1 = o2 => Holders(o)' = Holders(o) \cup {t}
        /\ o = o1 /\ o1 # o2 => Holders(o)' = (Holders(o) \ {h}) \cup {t}
        /\ o # o1 /\ o = o2 => Holders(o)' = Holders(o) \cup {h}
        /\ o # o1 /\ o # o2 => Holders(o)' = Holders(o)
  <2> SUFFICES ASSUME NEW o \in Objs
               PROVE  /\ t \notin Holders(o)
                      /\ h \in Holders(o) <=> o = o1
                      /\ o = o1 /\ o1 = o2 => Holders(o)' = Holders(o) \cup {t}
                      /\ o = o1 /\ o1 # o2 => Holders(o)' = (Holders(o) \ {h}) \cup {t}
                      /\ o # o1 /\ o = o2 => Holders(o)' = Holders(o) \cup {h}
                      /\ o # o1 /\ o # o2 => Holders(o)' = Holders(o)
    OBVIOUS
  <2>1. t \notin Holders(o) /\ (h \in Holders(o) <=> o = o1)
    BY DEF Holders, Counted, Unsharing, Threads
  <2>2. \A k \in Handles : ptr'[k] = IF k = h THEN o2 ELSE ptr[k]
    BY DEF TypeOK
  <2>3. \A u \in Threads : (held[u] = o /\ Counted(u))' <=>
                             IF u = t THEN o = o1 ELSE held[u] = o /\ Counted(u)
    BY DEF TypeOK, Counted
  <2> QED
    BY <2>1, <2>2, <2>3 DEF Holders
<1>4. NoDangling'
  BY <1>2 DEF NoDangling, TypeOK
<1>5. CountExact'
  <2> SUFFICES ASSUME NEW o \in heap PROVE count'[o] = Cardinality(Holders(o)')
    BY DEF CountExact
  <2>1. /\ o \in Objs /\ count[o] = Cardinality(Holders(o)) /\ o # NoObj
        /\ IsFiniteSet(Holders(o))
    BY HoldersFinite DEF CountExact, TypeOK
  <2>2. /\ Cardinality(Holders(o) \cup {t}) = Cardinality(Holders(o)) + 1
        /\ o # o1 => Cardinality(Holders(o) \cup {h}) = Cardinality(Holders(o)) + 1
        /\ o = o1 => Cardinality((Holders(o) \ {h}) \cup {t}) = Cardinality(Holders(o))
    <3>1. t \notin Holders(o) /\ (h \in Holders(o) <=> o = o1)
      BY <1>3, <2>1
    <3>2. IsFiniteSet(Holders(o))
      BY <2>1
    <3>3. Cardinality(Holders(o) \cup {t}) = Cardinality(Holders(o)) + 1
      BY ONLY <3>1, <3>2, FS_AddElement
    <3>4. o # o1 => Cardinality(Holders(o) \cup {h}) = Cardinality(Holders(o)) + 1
      BY ONLY <3>1, <3>2, FS_AddElement
    <3>5. o = o1 => Cardinality((Holders(o) \ {h}) \cup {t}) = Cardinality(Holders(o))
      BY ONLY <3>1, <3>2, SwapCardinality
    <3> QED BY ONLY <3>3, <3>4, <3>5
  <2>3. count'[o] = IF o = o2 THEN count[o] + 1 ELSE count[o]
    BY <2>1 DEF TypeOK
  <2> QED
    BY <1>3, <2>1, <2>2, <2>3
<1>6. NoLeak'
  BY <1>3 DEF NoLeak, TypeOK
<1>7. LocalState'
  BY <1>2 DEF LocalState, TypeOK, Releasing, Unsharing
<1>8. PhaseState'
  BY DEF PhaseState, Runs, TypeOK, ModelHandles, Threads
<1>9. SharedThroughModel'
  <2>1. CASE t = Main
    <3>1. \A w \in Workers, o \in Objs : ~ Uses(w, o)'
      BY <2>1, WorkersUseNothing DEF Runs, Uses, TypeOK
    <3> QED
      BY <3>1 DEF SharedThroughModel
  <2>2. CASE t # Main
    <3>1. \A m \in ModelHandles : ptr'[m] = ptr[m]
      BY <2>2 DEF TypeOK, ModelHandles
    <3>2. \A w \in Workers, o \in Objs :
            Uses(w, o)' => Uses(w, o) \/ (w = t /\ o = o2)
      BY DEF Uses, TypeOK
    <3>3. o2 \in Objs => Uses(t, o2) \/ \E m \in ModelHandles : ptr[m] = o2
      BY DEF Uses, ModelHandles
    <3> QED
      BY <3>1, <3>2, <3>3 DEF SharedThroughModel
  <2> QED
    BY <2>1, <2>2
<1>10. SoleDeleter'
  <2>1. \A u \in Threads : pc[u] = "delete" =>
          /\ held[u] \in Objs \ {o1, o2}
          /\ u # t
    <3>1. h \in Holders(o1) /\ g \in Holders(o2)
      BY DEF Holders
    <3> QED
      BY <3>1, HeldNotDeleted DEF LocalState, TypeOK, Releasing
  <2> QED
    BY <1>3, <2>1 DEF SoleDeleter, TypeOK
<1>11. UnsharedState'
  <2>1. \A u \in Threads : pc[u] \in {"write"} \cup Unsharing =>
          /\ ptr[target[u]] \in Objs \ {o1, o2}
          /\ target[u] # h
          /\ u # t /\ u # Main /\ t # Main
    BY ReadableNotTarget, OverlapOfWorkers DEF LocalState, TypeOK, Threads, Unsharing
  <2>2. \A u \in Threads, o \in Objs :
          pc[u] \in {"write"} \cup Unsharing /\ (ptr[target[u]])' = o =>
            Holders(o)' = {target[u]}
    BY <1>3, <2>1 DEF UnsharedState, TypeOK
  <2>3. \A u \in Threads, o \in Objs : pc[u] \in Unsharing /\ held[u] = o =>
          \E k \in Handles : ptr'[k] = o /\ Owner[k] \in {u, Main}
    BY <2>1 DEF UnsharedState, TypeOK
  <2>4. \A u \in Threads : pc'[u] \in {"write"} \cup Unsharing =>
          pc'[u] = pc[u] /\ held'[u] = held[u] /\ target'[u] = target[u]
    BY DEF TypeOK, Unsharing
  <2> QED
    BY <2>2, <2>3, <2>4 DEF UnsharedState
<1> QED
  BY <1>1, <1>4, <1>5, <1>6, <1>7, <1>8, <1>9, <1>10, <1>11

LEMMA DestroyInv ==
  ASSUME IInv, NEW t \in Threads, NEW h \in Handles, Destroy(t, h)
  PROVE  IInv'
<1> DEFINE o1 == ptr[h]
<1> USE DEF IInv, Destroy, Starts
<1>1. TypeOK'
  BY DEF TypeOK, Steps, Releasing
<1>2. o1 \in heap /\ o1 \in Objs
  BY DEF TypeOK, NoDangling
<1>3. \A o \in Objs :
        /\ t \notin Holders(o)
        /\ h \in Holders(o) <=> o = o1
        /\ Holders(o)' = IF o = o1 THEN (Holders(o) \ {h}) \cup {t} ELSE Holders(o)
  <2> SUFFICES ASSUME NEW o \in Objs
               PROVE  /\ t \notin Holders(o)
                      /\ h \in Holders(o) <=> o = o1
                      /\ Holders(o)' = IF o = o1 THEN (Holders(o) \ {h}) \cup {t}
                                                 ELSE Holders(o)
    OBVIOUS
  <2>1. t \notin Holders(o) /\ (h \in Holders(o) <=> o = o1)
    BY DEF Holders, Counted, Unsharing, Threads
  <2>2. \A k \in Handles : ptr'[k] = IF k = h THEN NoObj ELSE ptr[k]
    BY DEF TypeOK
  <2>3. \A u \in Threads : (held[u] = o /\ Counted(u))' <=>
                             IF u = t THEN o = o1 ELSE held[u] = o /\ Counted(u)
    BY DEF TypeOK, Counted
  <2> QED
    BY <2>1, <2>2, <2>3 DEF Holders
<1>4. NoDangling'
  BY <1>2 DEF NoDangling, TypeOK
<1>5. CountExact'
  <2> SUFFICES ASSUME NEW o \in heap PROVE count'[o] = Cardinality(Holders(o)')
    BY DEF CountExact
  <2>1. o \in Objs /\ count[o] = Cardinality(Holders(o)) /\ IsFiniteSet(Holders(o))
    BY HoldersFinite DEF CountExact, TypeOK
  <2>2. o = o1 => Cardinality((Holders(o) \ {h}) \cup {t}) = Cardinality(Holders(o))
    BY <1>3, <2>1, SwapCardinality
  <2> QED
    BY <1>3, <2>1, <2>2
<1>6. NoLeak'
  BY <1>3 DEF NoLeak, TypeOK
<1>7. LocalState'
  BY <1>2 DEF LocalState, TypeOK, Releasing, Unsharing
<1>8. PhaseState'
  BY DEF PhaseState, Runs, TypeOK, ModelHandles, Threads
<1>9. SharedThroughModel'
  <2>1. CASE t = Main
    <3>1. \A w \in Workers, o \in Objs : ~ Uses(w, o)'
      BY <2>1, WorkersUseNothing DEF Runs, Uses, TypeOK
    <3> QED
      BY <3>1 DEF SharedThroughModel
  <2>2. CASE t # Main
    <3>1. \A m \in ModelHandles : ptr'[m] = ptr[m]
      BY <2>2 DEF TypeOK, ModelHandles
    <3>2. \A w \in Workers, o \in Objs : Uses(w, o)' => Uses(w, o)
      BY DEF Uses, TypeOK
    <3> QED
      BY <3>1, <3>2 DEF SharedThroughModel
  <2> QED
    BY <2>1, <2>2
<1>10. SoleDeleter'
  <2>1. \A u \in Threads : pc[u] = "delete" => held[u] \in Objs \ {o1} /\ u # t
    <3>1. h \in Holders(o1)
      BY DEF Holders
    <3> QED
      BY <3>1, HeldNotDeleted DEF LocalState, TypeOK, Releasing
  <2> QED
    BY <1>3, <2>1 DEF SoleDeleter, TypeOK
<1>11. UnsharedState'
  <2>1. \A u \in Threads : pc[u] \in {"write"} \cup Unsharing =>
          /\ ptr[target[u]] \in Objs \ {o1}
          /\ target[u] # h
          /\ u # t /\ u # Main /\ t # Main
    BY ReadableNotTarget, OverlapOfWorkers DEF LocalState, TypeOK, Threads, Unsharing
  <2>2. \A u \in Threads, o \in Objs :
          pc[u] \in {"write"} \cup Unsharing /\ (ptr[target[u]])' = o =>
            Holders(o)' = {target[u]}
    BY <1>3, <2>1 DEF UnsharedState, TypeOK
  <2>3. \A u \in Threads, o \in Objs : pc[u] \in Unsharing /\ held[u] = o =>
          \E k \in Handles : ptr'[k] = o /\ Owner[k] \in {u, Main}
    BY <2>1 DEF UnsharedState, TypeOK
  <2>4. \A u \in Threads : pc'[u] \in {"write"} \cup Unsharing =>
          pc'[u] = pc[u] /\ held'[u] = held[u] /\ target'[u] = target[u]
    BY DEF TypeOK, Unsharing
  <2> QED
    BY <2>2, <2>3, <2>4 DEF UnsharedState
<1> QED
  BY <1>1, <1>4, <1>5, <1>6, <1>7, <1>8, <1>9, <1>10, <1>11

LEMMA DecCheckInv ==
  ASSUME IInv, NEW t \in Threads, DecCheck(t)
  PROVE  IInv'
<1> USE DEF IInv, DecCheck
<1>1. held[t] \in heap /\ held[t] \in Objs
  BY DEF LocalState, NoDangling, TypeOK, Releasing
<1>2. pc' = [pc EXCEPT ![t] = "sub"]
  BY <1>1, HolderCounts DEF Holders, Counted
<1>3. \A o : Holders(o)' = Holders(o)
  BY <1>2 DEF Holders, Counted, Unsharing, TypeOK
<1>4. TypeOK' /\ NoDangling' /\ CountExact' /\ NoLeak'
  BY <1>2, <1>3 DEF TypeOK, NoDangling, CountExact, NoLeak, Steps, Releasing
<1>5. LocalState' /\ PhaseState'
  BY <1>2 DEF LocalState, PhaseState, TypeOK, Releasing, Unsharing, Threads
<1>6. SharedThroughModel'
  BY DEF SharedThroughModel, Uses
<1>7. SoleDeleter'
  BY <1>2, <1>3 DEF SoleDeleter, TypeOK
<1>8. UnsharedState'
  BY <1>2, <1>3 DEF UnsharedState, TypeOK, Unsharing
<1> QED
  BY <1>4, <1>5, <1>6, <1>7, <1>8

LEMMA DecSubInv ==
  ASSUME IInv, NEW t \in Threads, DecSub(t)
  PROVE  IInv'
<1> DEFINE p == held[t]
<1> USE DEF IInv, DecSub
<1>1. p \in heap /\ p \in Objs /\ t \in Holders(p) /\ count[p] > 0
  <2>1. p \in heap /\ p \in Objs /\ t \in Holders(p)
    BY DEF LocalState, NoDangling, TypeOK, Releasing, Holders, Counted
  <2> QED
    BY <2>1, HolderCounts
<1>2. \A o \in Objs :
        /\ Holders(o)' = IF o = p THEN Holders(o) \ {t} ELSE Holders(o)
        /\ o # p => t \notin Holders(o)
  BY DEF Holders, Counted, Unsharing, TypeOK, Threads
<1>3. TypeOK'
  BY <1>1 DEF TypeOK, Steps, Releasing
<1>4. NoDangling'
  BY DEF NoDangling
<1>5. CountExact'
  <2> SUFFICES ASSUME NEW o \in heap PROVE count'[o] = Cardinality(Holders(o)')
    BY DEF CountExact
  <2>1. o \in Objs /\ count[o] = Cardinality(Holders(o)) /\ IsFiniteSet(Holders(o))
    BY HoldersFinite DEF CountExact, TypeOK
  <2>2. o = p => Cardinality(Holders(o) \ {t}) = Cardinality(Holders(o)) - 1
    BY <1>1, <2>1, FS_RemoveElement
  <2> QED
    BY <1>2, <2>1, <2>2 DEF TypeOK
<1>6. NoLeak'
  BY <1>2 DEF NoLeak, TypeOK
<1>7. LocalState' /\ PhaseState'
  BY DEF LocalState, PhaseState, TypeOK, Releasing, Unsharing, Threads
<1>8. SharedThroughModel'
  BY DEF SharedThroughModel, Uses
<1>9. SoleDeleter'
  <2>1. \A u \in Threads : pc[u] = "delete" => held[u] \in Objs \ {p} /\ u # t
    BY <1>1, HeldNotDeleted DEF LocalState, TypeOK, Releasing
  <2> QED
    BY <1>2, <2>1 DEF SoleDeleter, TypeOK
<1>10. UnsharedState'
  <2>1. \A u \in Threads : pc[u] \in {"write"} \cup Unsharing =>
          ptr[target[u]] \in Objs /\ target[u] # t
    BY DEF LocalState, TypeOK
  <2>2. \A u \in Threads, o \in Objs :
          pc[u] \in {"write"} \cup Unsharing /\ ptr[target[u]] = o =>
            Holders(o)' = {target[u]}
    BY <1>1, <1>2, <2>1 DEF UnsharedState
  <2> QED
    BY <2>2 DEF UnsharedState, TypeOK, Unsharing
<1> QED
  BY <1>3, <1>4, <1>5, <1>6, <1>7, <1>8, <1>9, <1>10

LEMMA DecRereadInv ==
  ASSUME IInv, NEW t \in Threads, DecReread(t)
  PROVE  IInv'
<1> DEFINE p == held[t]
<1> USE DEF IInv, DecReread
<1>1. p \in heap /\ p \in Objs /\ count[p] = Cardinality(Holders(p))
  BY DEF LocalState, NoDangling, TypeOK, Releasing, CountExact
<1>2. \A o \in Objs : Holders(o)' = Holders(o)
  BY DEF Holders, Counted, Unsharing, TypeOK
<1>3. count[p] = 0 <=> Holders(p) = {}
  BY <1>1, HoldersFinite, FS_EmptySet
<1>4. TypeOK' /\ NoDangling' /\ CountExact'
  BY <1>2 DEF TypeOK, NoDangling, CountExact, Steps, Releasing
<1>5. NoLeak'
  BY <1>2, <1>3 DEF NoLeak, TypeOK
<1>6. LocalState' /\ PhaseState'
  BY DEF LocalState, PhaseState, TypeOK, Releasing, Unsharing, Threads
<1>7. SharedThroughModel'
  <2>1. \A u \in Threads, o \in Objs : Uses(u, o)' => Uses(u, o)
    BY DEF Uses, TypeOK
  <2> QED
    BY <2>1 DEF SharedThroughModel, Threads
<1>8. SoleDeleter'
  <2> SUFFICES ASSUME NEW u \in Threads, NEW o \in Objs, pc'[u] = "delete", held'[u] = o
               PROVE  Holders(o) = {} /\ \A v \in Threads \ {u} : held'[v] # o
    BY <1>2 DEF SoleDeleter
  <2>1. CASE u # t
    <3>1. Holders(o) = {} /\ \A v \in Threads \ {u} : held[v] # o
      BY <2>1 DEF SoleDeleter, TypeOK
    <3> QED
      BY <3>1 DEF TypeOK
  <2>2. CASE u = t
    <3>1. count[p] = 0 /\ o = p /\ held' = held
      BY <2>2 DEF TypeOK
    <3>2. ASSUME NEW v \in Threads \ {t}, held[v] = p PROVE FALSE
      <4>1. v \in Workers /\ t \in Workers
        BY <1>1, <3>2, OverlapOfWorkers DEF LocalState, Releasing, Unsharing
      <4>2. \E m \in ModelHandles : ptr[m] = p
        BY <1>1, <3>2, <4>1 DEF SharedThroughModel, Uses
      <4> QED
        BY <1>3, <3>1, <4>2 DEF Holders, ModelHandles
    <3> QED
      BY <1>3, <2>2, <3>1, <3>2
  <2> QED
    BY <2>1, <2>2
<1>9. UnsharedState'
  <2>1. \A u \in Threads : pc[u] \in {"write"} \cup Unsharing => ptr[target[u]] \in Objs
    BY DEF LocalState, TypeOK
  <2> QED
    BY <1>2, <2>1 DEF UnsharedState, TypeOK, Unsharing
<1> QED
  BY <1>4, <1>5, <1>6, <1>7, <1>8, <1>9

LEMMA DeleteInv ==
  ASSUME IInv, NEW t \in Threads, Delete(t)
  PROVE  IInv'
<1> DEFINE p == held[t]
<1> USE DEF IInv, Delete
<1>1. /\ p \in heap /\ p \in Objs
      /\ Holders(p) = {}
      /\ \A u \in Threads \ {t} : held[u] # p
  BY DEF LocalState, NoDangling, TypeOK, Releasing, SoleDeleter
<1>2. \A o \in Objs : Holders(o)' = Holders(o)
  BY DEF Holders, Counted, Unsharing, TypeOK
<1>3. TypeOK' /\ CountExact' /\ NoLeak'
  BY <1>2 DEF TypeOK, CountExact, NoLeak, Steps
<1>4. NoDangling'
  BY <1>1 DEF NoDangling, TypeOK, Holders
<1>5. LocalState' /\ PhaseState'
  BY DEF LocalState, PhaseState, TypeOK, Releasing, Unsharing, Threads
<1>6. SharedThroughModel'
  BY DEF SharedThroughModel, Uses, TypeOK
<1>7. SoleDeleter'
  <2>1. \A u \in Threads : pc[u] = "delete" => held[u] \in Objs
    BY DEF LocalState, TypeOK, Releasing
  <2> QED
    BY <1>1, <1>2, <2>1 DEF SoleDeleter, TypeOK
<1>8. UnsharedState'
  <2>1. \A u \in Threads : pc[u] \in {"write"} \cup Unsharing => ptr[target[u]] \in Objs
    BY DEF LocalState, TypeOK
  <2> QED
    BY <1>2, <2>1 DEF UnsharedState, TypeOK, Unsharing
<1> QED
  BY <1>3, <1>4, <1>5, <1>6, <1>7, <1>8

LEMMA GetFreshInv ==
  ASSUME IInv, NEW t \in Threads, NEW h \in Handles, GetFresh(t, h)
  PROVE  IInv'
<1> USE DEF IInv, GetFresh, Starts
<1>1. PICK n \in Objs : Allocate(h, n, Empty)
  OBVIOUS
<1> USE DEF Allocate
<1>2. \A k \in Handles : ptr[k] # n
  BY <1>1 DEF NoDangling
<1>3. \A u \in Threads : held[u] # n
  BY <1>1 DEF NoDangling
<1>4. Holders(n) = {}
  BY <1>2, <1>3 DEF Holders
<1>5. \A o \in Objs : Holders(o)' = IF o = n THEN {h} ELSE Holders(o)
  <2> SUFFICES ASSUME NEW o \in Objs
               PROVE  Holders(o)' = IF o = n THEN {h} ELSE Holders(o)
    OBVIOUS
  <2>1. \A k \in Handles : ptr'[k] = o <=> IF k = h THEN o = n ELSE ptr[k] = o
    BY <1>1 DEF TypeOK
  <2>2. \A u \in Threads : (held[u] = o /\ Counted(u))' <=> held[u] = o /\ Counted(u)
    BY DEF TypeOK, Counted, Unsharing
  <2> QED
    BY <1>2, <1>3, <2>1, <2>2 DEF Holders
<1>6. TypeOK' /\ NoDangling'
  BY <1>1 DEF TypeOK, NoDangling, Steps
<1>7. CountExact'
  <2>1. Cardinality({h}) = 1
    BY FS_Singleton
  <2>2. \A o \in heap : o \in Objs /\ o # n /\ count'[o] = count[o]
    BY <1>1 DEF TypeOK
  <2>3. heap' = heap \cup {n} /\ count'[n] = 1
    BY <1>1 DEF TypeOK
  <2>4. \A o \in heap : count[o] = Cardinality(Holders(o))
    BY DEF CountExact
  <2> SUFFICES ASSUME NEW o \in heap' PROVE count'[o] = Cardinality(Holders(o)')
    BY DEF CountExact
  <2> QED
    BY <1>5, <2>1, <2>2, <2>3, <2>4
<1>8. NoLeak'
  <2>1. \A o \in heap : o \in Objs /\ o # n
    BY <1>1 DEF TypeOK
  <2>2. \A u \in Threads : pc[u] \in {"reread", "delete"} => pc'[u] = pc[u]
    BY DEF TypeOK
  <2> QED
    BY <1>1, <1>5, <2>1, <2>2 DEF NoLeak
<1>9. LocalState' /\ PhaseState'
  BY <1>1 DEF LocalState, PhaseState, Runs, TypeOK, Releasing, Unsharing, Threads,
              ModelHandles
<1>10. SharedThroughModel'
  <2>1. \A u \in Threads, o \in Objs : Uses(u, o)' => Uses(u, o) \/ (u = t /\ o = n)
    BY <1>1 DEF Uses, TypeOK
  <2>2. \A u \in Threads : ~ Uses(u, n)
    BY <1>2, <1>3 DEF Uses
  <2>3. \A m \in ModelHandles : ptr[m] # NoObj => ptr'[m] = ptr[m]
    BY <1>1 DEF TypeOK, ModelHandles
  <2> QED
    BY <2>1, <2>2, <2>3 DEF SharedThroughModel, Threads
<1>11. SoleDeleter'
  <2>1. \A u \in Threads : pc[u] = "delete" => held[u] \in Objs \ {n} /\ u # t
    BY <1>3 DEF LocalState, TypeOK, Releasing
  <2> QED
    BY <1>5, <2>1 DEF SoleDeleter, TypeOK
<1>12. UnsharedState'
  <2>1. \A u \in Threads : pc[u] \in {"write"} \cup Unsharing =>
          /\ ptr[target[u]] \in Objs \ {n}
          /\ target[u] # h
          /\ u # t
    BY <1>2 DEF LocalState, TypeOK, Unsharing
  <2>2. \A u \in Threads \ {t}, o \in Objs :
          pc[u] \in {"write"} \cup Unsharing /\ (ptr[target[u]])' = o =>
            Holders(o)' = {target[u]}
    BY <1>1, <1>5, <2>1 DEF UnsharedState, TypeOK
  <2>3. (ptr[target[t]])' = n /\ target'[t] = h
    BY <1>1 DEF TypeOK
  <2>4. \A u \in Threads, o \in Objs : pc[u] \in Unsharing /\ held[u] = o =>
          \E k \in Handles : ptr'[k] = o /\ Owner[k] \in {u, Main}
    BY <1>1 DEF UnsharedState, LocalState, TypeOK
  <2> QED
    BY <1>5, <2>1, <2>2, <2>3, <2>4 DEF UnsharedState, TypeOK, Unsharing
<1> QED
  BY <1>6, <1>7, <1>8, <1>9, <1>10, <1>11, <1>12

LEMMA GetSharedInv ==
  ASSUME IInv, NEW t \in Threads, NEW h \in Handles, GetShared(t, h)
  PROVE  IInv'
<1> DEFINE p == ptr[h]
<1> USE DEF IInv, GetShared, Starts
<1>1. PICK n \in Objs : Allocate(h, n, content[p])
  OBVIOUS
<1> USE DEF Allocate
<1>2. \A k \in Handles : ptr[k] # n
  BY <1>1 DEF NoDangling
<1>3. \A u \in Threads : held[u] # n
  BY <1>1 DEF NoDangling
<1>4. p \in heap /\ p \in Objs /\ p # n
  BY <1>2 DEF TypeOK, NoDangling
<1>5. \A o \in Objs :
        /\ t \notin Holders(o)
        /\ h \in Holders(o) <=> o = p
        /\ Holders(o)' = IF o = n THEN {h}
                         ELSE IF o = p THEN (Holders(o) \ {h}) \cup {t}
                         ELSE Holders(o)
  <2> SUFFICES ASSUME NEW o \in Objs
               PROVE  /\ t \notin Holders(o)
                      /\ h \in Holders(o) <=> o = p
                      /\ Holders(o)' = IF o = n THEN {h}
                                       ELSE IF o = p THEN (Holders(o) \ {h}) \cup {t}
                                       ELSE Holders(o)
    OBVIOUS
  <2>1. t \notin Holders(o) /\ (h \in Holders(o) <=> o = p)
    BY DEF Holders, Counted, Unsharing, Threads
  <2>2. \A k \in Handles : ptr'[k] = o <=> IF k = h THEN o = n ELSE ptr[k] = o
    BY <1>1 DEF TypeOK
  <2>3. \A u \in Threads : (held[u] = o /\ Counted(u))' <=>
                             IF u = t THEN o = p ELSE held[u] = o /\ Counted(u)
    BY DEF TypeOK, Counted, Unsharing
  <2> QED
    BY <1>2, <1>3, <1>4, <2>1, <2>2, <2>3 DEF Holders
<1>6. TypeOK' /\ NoDangling'
  BY <1>1, <1>4 DEF TypeOK, NoDangling, Steps, Unsharing
<1>7. CountExact'
  <2>1. Cardinality({h}) = 1
    BY FS_Singleton
  <2>2. \A o \in heap : o \in Objs /\ o # n /\ count'[o] = count[o]
    BY <1>1 DEF TypeOK
  <2>3. heap' = heap \cup {n} /\ count'[n] = 1
    BY <1>1 DEF TypeOK
  <2>4. Cardinality((Holders(p) \ {h}) \cup {t}) = Cardinality(Holders(p))
    BY <1>4, <1>5, HoldersFinite, SwapCardinality
  <2>5. \A o \in heap : count[o] = Cardinality(Holders(o))
    BY DEF CountExact
  <2> SUFFICES ASSUME NEW o \in heap' PROVE count'[o] = Cardinality(Holders(o)')
    BY DEF CountExact
  <2>6. CASE o = n
    BY <1>5, <2>1, <2>3, <2>6
  <2>7. CASE o # n /\ o = p
    BY <1>4, <1>5, <2>2, <2>4, <2>5, <2>7
  <2>8. CASE o # n /\ o # p
    BY <1>5, <2>2, <2>3, <2>5, <2>8
  <2> QED
    BY <2>6, <2>7, <2>8
<1>8. NoLeak'
  <2>1. \A o \in heap : o \in Objs /\ o # n
    BY <1>1 DEF TypeOK
  <2>2. \A u \in Threads : pc[u] \in {"reread", "delete"} =>
          pc'[u] = pc[u] /\ held'[u] = held[u]
    BY DEF TypeOK
  <2> QED
    BY <1>1, <1>5, <2>1, <2>2 DEF NoLeak
<1>9. LocalState' /\ PhaseState'
  BY <1>1, <1>4 DEF LocalState, PhaseState, Runs, TypeOK, Releasing, Unsharing,
                    Threads, ModelHandles
<1>10. SharedThroughModel'
  <2>1. CASE t = Main
    <3>1. \A w \in Workers, o \in Objs : ~ Uses(w, o)'
      BY <1>1, <2>1, WorkersUseNothing DEF Runs, Uses, TypeOK
    <3> QED
      BY <3>1 DEF SharedThroughModel
  <2>2. CASE t # Main
    <3>1. \A m \in ModelHandles : ptr'[m] = ptr[m]
      BY <1>1, <2>2 DEF TypeOK, ModelHandles
    <3>2. \A u \in Threads, o \in Objs : Uses(u, o)' => Uses(u, o) \/ (u = t /\ o = n)
      BY <1>1 DEF Uses, TypeOK
    <3>3. \A u \in Threads : ~ Uses(u, n)
      BY <1>2, <1>3 DEF Uses
    <3> QED
      BY <3>1, <3>2, <3>3 DEF SharedThroughModel, Threads
  <2> QED
    BY <2>1, <2>2
<1>11. SoleDeleter'
  <2>1. \A u \in Threads : pc[u] = "delete" => held[u] \in Objs \ {n, p} /\ u # t
    BY <1>3, <1>4, <1>5, HeldNotDeleted DEF LocalState, TypeOK, Releasing
  <2> QED
    BY <1>5, <2>1 DEF SoleDeleter, TypeOK
<1>12. UnsharedState'
  <2>1. \A u \in Threads : pc[u] \in {"write"} \cup Unsharing =>
          /\ ptr[target[u]] \in Objs \ {n, p}
          /\ target[u] # h
          /\ u # t /\ u # Main /\ t # Main
    BY <1>2, ReadableNotTarget, OverlapOfWorkers
    DEF LocalState, TypeOK, Threads, Unsharing
  <2>2. \A u \in Threads \ {t}, o \in Objs :
          pc[u] \in {"write"} \cup Unsharing /\ (ptr[target[u]])' = o =>
            Holders(o)' = {target[u]}
    BY <1>1, <1>5, <2>1 DEF UnsharedState, TypeOK
  <2>3. (ptr[target[t]])' = n /\ target'[t] = h
    BY <1>1 DEF TypeOK
  <2>4. \A u \in Threads \ {t}, o \in Objs : pc[u] \in Unsharing /\ held[u] = o =>
          \E k \in Handles : ptr'[k] = o /\ Owner[k] \in {u, Main}
    BY <1>1, <2>1 DEF UnsharedState, LocalState, TypeOK
  <2>5. \E k \in Handles : ptr'[k] = p /\ Owner[k] \in {t, Main}
    <3>1. PICK x \in Holders(p) : x # h
      <4>1. Cardinality(Holders(p)) > 1
        BY <1>4 DEF CountExact
      <4>2. Cardinality(Holders(p) \ {h}) # 0
        <5>1. IsFiniteSet(Holders(p)) /\ Cardinality(Holders(p)) \in Nat
          BY HoldersFinite
        <5>2. Cardinality(Holders(p) \ {h}) = Cardinality(Holders(p)) - 1
          BY <1>4, <1>5, <5>1, FS_RemoveElement
        <5> QED
          BY <4>1, <5>1, <5>2
      <4>3. Holders(p) \ {h} # {}
        BY ONLY <4>2, FS_EmptySet
      <4> QED
        BY ONLY <4>3
    <3>2. \A k \in Handles \ {h} : ptr'[k] = ptr[k]
      BY <1>1 DEF TypeOK
    <3>3. CASE t = Main
      <4>1. \A w \in Workers : ~ Uses(w, p)
        BY <1>4, <3>3, WorkersUseNothing DEF Runs
      <4>2. x \in Handles /\ ptr[x] = p /\ Owner[x] \notin Workers
        <5>1. x \notin Threads
          <6> SUFFICES ASSUME x \in Threads PROVE FALSE
            OBVIOUS
          <6>1. held[x] = p /\ x # t
            BY <1>4, <1>5 DEF Holders
          <6> QED
            BY <3>3, <4>1, <6>1 DEF Uses, Threads
        <5>2. x \in Handles /\ ptr[x] = p
          BY <5>1 DEF Holders
        <5> QED
          BY <4>1, <5>2 DEF Uses
      <4> QED
        BY <3>1, <3>2, <4>2 DEF Threads
    <3>4. CASE t # Main /\ x \in Handles /\ Owner[x] \in {t, Main}
      BY <3>1, <3>2, <3>4 DEF Holders, Threads
    <3>5. CASE t # Main /\ ~ (x \in Handles /\ Owner[x] \in {t, Main})
      <4>1. PICK w \in Workers : w # t /\ Uses(w, p)
        <5>1. CASE x \in Handles
          BY <3>1, <3>5, <5>1 DEF Holders, Uses, Threads
        <5>2. CASE x \notin Handles
          <6>1. x \in Threads /\ held[x] = p /\ x # t
            BY <3>1, <5>2, <1>5, <1>4 DEF Holders
          <6>2. x # Main
            BY <3>5, <6>1, <1>4 DEF PhaseState, LocalState, Runs, Releasing, Unsharing, Threads
          <6> QED
            BY <6>1, <6>2 DEF Uses, Threads
        <5> QED
          BY <5>1, <5>2
      <4>2. PICK m \in ModelHandles : ptr[m] = p
        BY <3>5, <4>1, <1>4 DEF SharedThroughModel, Uses, Threads
      <4> QED
        BY <3>2, <3>5, <4>2 DEF ModelHandles
    <3> QED
      BY <3>3, <3>4, <3>5
  <2>6. \A u \in Threads \ {t} : /\ pc'[u] = pc[u]
                                /\ held'[u] = held[u]
                                /\ target'[u] = target[u]
    BY DEF TypeOK
  <2>7. held'[t] = p
    BY DEF TypeOK
  <2> QED
    BY <1>5, <2>2, <2>3, <2>4, <2>5, <2>6, <2>7 DEF UnsharedState
<1> QED
  BY <1>6, <1>7, <1>8, <1>9, <1>10, <1>11, <1>12

LEMMA GetSoleInv ==
  ASSUME IInv, NEW t \in Threads, NEW h \in Handles, GetSole(t, h)
  PROVE  IInv'
<1> DEFINE p == ptr[h]
<1> USE DEF IInv, GetSole, Starts
<1>1. p \in heap /\ p \in Objs
  BY DEF TypeOK, NoDangling
<1>2. Holders(p) = {h}
  <2>1. h \in Holders(p)
    BY DEF Holders
  <2>2. Cardinality(Holders(p)) = count[p] /\ count[p] <= 1
    BY <1>1 DEF CountExact, TypeOK
  <2>3. /\ IsFiniteSet(Holders(p) \ {h})
        /\ Cardinality(Holders(p) \ {h}) = Cardinality(Holders(p)) - 1
        /\ Cardinality(Holders(p) \ {h}) \in Nat
        /\ Cardinality(Holders(p)) \in Nat
    <3>1. IsFiniteSet(Holders(p)) /\ Cardinality(Holders(p)) \in Nat
      BY HoldersFinite
    <3>2. /\ IsFiniteSet(Holders(p) \ {h})
          /\ Cardinality(Holders(p) \ {h}) = Cardinality(Holders(p)) - 1
      BY <2>1, <3>1, FS_RemoveElement
    <3> QED
      BY <3>1, <3>2, FS_CardinalityType
  <2>4. Cardinality(Holders(p) \ {h}) = 0
    BY <2>2, <2>3
  <2> QED
    BY <2>1, <2>3, <2>4, FS_EmptySet
<1>3. \A o \in Objs : Holders(o)' = Holders(o)
  BY DEF Holders, Counted, Unsharing, TypeOK
<1>4. TypeOK' /\ NoDangling' /\ CountExact' /\ NoLeak'
  BY <1>3 DEF TypeOK, NoDangling, CountExact, NoLeak, Steps
<1>5. LocalState' /\ PhaseState'
  BY DEF LocalState, PhaseState, Runs, TypeOK, Releasing, Unsharing, Threads, ModelHandles
<1>6. SharedThroughModel'
  BY DEF SharedThroughModel, Uses
<1>7. SoleDeleter'
  BY <1>3 DEF SoleDeleter, TypeOK
<1>8. UnsharedState'
  BY <1>2, <1>3 DEF UnsharedState, TypeOK, Unsharing
<1> QED
  BY <1>4, <1>5, <1>6, <1>7, <1>8

LEMMA CowCheckInv ==
  ASSUME IInv, NEW t \in Threads, CowCheck(t)
  PROVE  IInv'
<1> USE DEF IInv, CowCheck
<1>1. held[t] \in heap /\ held[t] \in Objs
  BY DEF LocalState, NoDangling, TypeOK, Unsharing
<1>2. pc' = [pc EXCEPT ![t] = "cowSub"] /\ held' = held
  BY <1>1, HolderCounts DEF Holders, Counted, Unsharing
<1>3. \A o : Holders(o)' = Holders(o)
  BY <1>2 DEF Holders, Counted, Unsharing, TypeOK
<1>4. TypeOK' /\ NoDangling' /\ CountExact' /\ NoLeak'
  BY <1>2, <1>3 DEF TypeOK, NoDangling, CountExact, NoLeak, Steps, Unsharing
<1>5. LocalState' /\ PhaseState'
  BY <1>2 DEF LocalState, PhaseState, TypeOK, Releasing, Unsharing, Threads
<1>6. SharedThroughModel'
  BY <1>2 DEF SharedThroughModel, Uses
<1>7. SoleDeleter'
  BY <1>2, <1>3 DEF SoleDeleter, TypeOK
<1>8. UnsharedState'
  BY <1>2, <1>3 DEF UnsharedState, TypeOK, Unsharing
<1> QED
  BY <1>4, <1>5, <1>6, <1>7, <1>8

LEMMA CowSubInv ==
  ASSUME IInv, NEW t \in Threads, CowSub(t)
  PROVE  IInv'
<1> DEFINE p == held[t]
<1> USE DEF IInv, CowSub
<1>1. p \in heap /\ p \in Objs /\ t \in Holders(p) /\ count[p] > 0
  <2>1. p \in heap /\ p \in Objs /\ t \in Holders(p)
    BY DEF LocalState, NoDangling, TypeOK, Unsharing, Holders, Counted
  <2> QED
    BY <2>1, HolderCounts
<1>2. \A o \in Objs :
        /\ Holders(o)' = IF o = p THEN Holders(o) \ {t} ELSE Holders(o)
        /\ o # p => t \notin Holders(o)
  BY <1>1 DEF Holders, Counted, Unsharing, TypeOK, Threads
<1>3. \E k \in Handles : k \in Holders(p)
  BY <1>1 DEF UnsharedState, Holders, Unsharing
<1>4. TypeOK' /\ NoDangling'
  BY <1>1 DEF TypeOK, NoDangling, Steps
<1>5. CountExact'
  <2> SUFFICES ASSUME NEW o \in heap PROVE count'[o] = Cardinality(Holders(o)')
    BY DEF CountExact
  <2>1. o \in Objs /\ count[o] = Cardinality(Holders(o)) /\ IsFiniteSet(Holders(o))
    BY HoldersFinite DEF CountExact, TypeOK
  <2>2. o = p => Cardinality(Holders(o) \ {t}) = Cardinality(Holders(o)) - 1
    BY <1>1, <2>1, FS_RemoveElement
  <2> QED
    BY <1>2, <2>1, <2>2 DEF TypeOK
<1>6. NoLeak'
  <2>1. \A o \in Objs : Holders(o)' = {} => Holders(o) = {}
    BY <1>2, <1>3
  <2>2. \A u \in Threads : pc[u] \in {"reread", "delete"} =>
          pc'[u] = pc[u] /\ held'[u] = held[u]
    BY DEF TypeOK
  <2> QED
    BY <2>1, <2>2 DEF NoLeak, TypeOK
<1>7. LocalState' /\ PhaseState'
  BY DEF LocalState, PhaseState, TypeOK, Releasing, Unsharing, Threads
<1>8. SharedThroughModel'
  <2>1. \A u \in Threads, o \in Objs : Uses(u, o)' => Uses(u, o)
    BY DEF Uses, TypeOK
  <2> QED
    BY <2>1 DEF SharedThroughModel, Threads
<1>9. SoleDeleter'
  <2>1. \A u \in Threads : pc[u] = "delete" => held[u] \in Objs \ {p} /\ u # t
    BY <1>1, HeldNotDeleted DEF LocalState, TypeOK, Releasing
  <2> QED
    BY <1>2, <2>1 DEF SoleDeleter, TypeOK
<1>10. UnsharedState'
  <2>1. \A u \in Threads, o \in Objs :
          pc[u] \in {"write"} \cup Unsharing /\ ptr[target[u]] = o =>
            Holders(o)' = {target[u]}
    <3>1. \A u \in Threads : pc[u] \in {"write"} \cup Unsharing => target[u] # t
      BY DEF LocalState
    <3> QED
      BY <1>1, <1>2, <3>1 DEF UnsharedState
  <2>2. \A u \in Threads :
          /\ pc'[u] \in {"write"} \cup Unsharing => pc[u] \in {"write"} \cup Unsharing
          /\ pc'[u] \in Unsharing => u # t /\ pc[u] \in Unsharing
          /\ u # t => held'[u] = held[u]
    BY DEF TypeOK, Unsharing
  <2>3. ptr' = ptr /\ target' = target
    OBVIOUS
  <2>4. \A u \in Threads, o \in Objs :
          pc[u] \in Unsharing /\ held[u] = o => \E k \in Handles : ptr[k] = o /\ Owner[k] \in {u, Main}
    BY DEF UnsharedState
  <2>5. \A u \in Threads, o \in Objs :
          pc'[u] \in {"write"} \cup Unsharing /\ ptr'[target'[u]] = o => Holders(o)' = {target'[u]}
    BY ONLY <2>1, <2>2, <2>3
  <2>6. \A u \in Threads, o \in Objs :
          pc'[u] \in Unsharing /\ held'[u] = o => \E k \in Handles : ptr'[k] = o /\ Owner[k] \in {u, Main}
    BY ONLY <2>2, <2>3, <2>4
  <2> QED BY ONLY <2>5, <2>6 DEF UnsharedState
<1> QED
  BY <1>4, <1>5, <1>6, <1>7, <1>8, <1>9, <1>10

LEMMA WriteInv ==
  ASSUME IInv, NEW t \in Threads, Write(t)
  PROVE  IInv'
<1> USE DEF IInv, Write
<1>1. \A o : Holders(o)' = Holders(o)
  BY DEF Holders, Counted, Unsharing, TypeOK
<1>2. TypeOK'
  BY DEF TypeOK, LocalState, Steps
<1>3. NoDangling' /\ CountExact' /\ NoLeak'
  BY <1>1 DEF TypeOK, NoDangling, CountExact, NoLeak
<1>4. LocalState' /\ PhaseState'
  BY DEF LocalState, PhaseState, TypeOK, Releasing, Unsharing, Threads
<1>5. SharedThroughModel'
  BY DEF SharedThroughModel, Uses
<1>6. SoleDeleter'
  BY <1>1 DEF SoleDeleter, TypeOK
<1>7. UnsharedState'
  BY <1>1 DEF UnsharedState, TypeOK, Unsharing
<1> QED
  BY <1>2, <1>3, <1>4, <1>5, <1>6, <1>7

LEMMA ForkJoinInv ==
  ASSUME IInv, Fork \/ Join
  PROVE  IInv'
<1> USE DEF IInv, Fork, Join
<1>1. \A o : Holders(o)' = Holders(o)
  BY DEF Holders, Counted
<1>2. TypeOK' /\ NoDangling' /\ CountExact' /\ NoLeak' /\ LocalState'
  BY <1>1 DEF TypeOK, NoDangling, CountExact, NoLeak, LocalState
<1>3. PhaseState'
  BY DEF PhaseState
<1>4. SharedThroughModel' /\ SoleDeleter' /\ UnsharedState'
  BY <1>1 DEF SharedThroughModel, Uses, SoleDeleter, UnsharedState
<1> QED
  BY <1>2, <1>3, <1>4

LEMMA StutterInv == IInv /\ UNCHANGED vars => IInv'
BY DEF IInv, vars, TypeOK, NoDangling, CountExact, NoLeak, LocalState, PhaseState,
       SharedThroughModel, SoleDeleter, UnsharedState, Uses, Holders, Counted

-----------------------------------------------------------------------------

\* The strengthened invariant holds of every behaviour, whatever the number of
\* workers, weights and vectors.
THEOREM Invariance == Spec => []IInv
<1>1. IInv /\ [Next]_vars => IInv'
  BY CopyConstructInv, AssignInv, DestroyInv, DecCheckInv, DecSubInv, DecRereadInv,
     DeleteInv, GetFreshInv, GetSharedInv, GetSoleInv, CowCheckInv, CowSubInv,
     WriteInv, ForkJoinInv, StutterInv DEF Next
<1> QED
  BY <1>1, InitInv, PTL DEF Spec

\* The variables keep their types; in particular no count wraps around below 0
\* in decCount().
THEOREM TypeCorrect == Spec => []TypeOK
<1>1. IInv => TypeOK
  BY DEF IInv
<1> QED
  BY <1>1, Invariance, PTL

\* No weight and no thread refers to a vector that was freed, counts are exact,
\* and a vector nobody refers to is always on its way to be freed.
THEOREM MemorySafe == Spec => [](NoDangling /\ CountExact /\ NoLeak)
<1>1. IInv => NoDangling /\ CountExact /\ NoLeak
  BY DEF IInv
<1> QED
  BY <1>1, Invariance, PTL

\* For any number of threads: whoever refers to a vector refers to one that exists.
THEOREM NeverDangles == Spec => []NoDangling
<1>1. IInv => NoDangling
  BY DEF IInv
<1> QED
  BY <1>1, Invariance, PTL

\* For any number of threads: a vector that nobody refers to is about to be freed
\* by a thread that still holds it.
THEOREM NeverLeaks == Spec => []NoLeak
<1>1. IInv => NoLeak
  BY DEF IInv
<1> QED
  BY <1>1, Invariance, PTL

\* The assertion at the end of the mutable getter holds: whoever changes a
\* vector is the only one to refer to it.
THEOREM ExclusiveWrites == Spec => []WriteIsExclusive
<1>1. IInv => WriteIsExclusive
  <2> SUFFICES ASSUME IInv, NEW t \in Threads, pc[t] = "write"
               PROVE  /\ count[ptr[target[t]]] = 1
                      /\ Holders(ptr[target[t]]) = {target[t]}
    BY DEF WriteIsExclusive
  <2>1. ptr[target[t]] \in Objs /\ ptr[target[t]] \in heap
    BY DEF IInv, LocalState, TypeOK, NoDangling
  <2>2. Holders(ptr[target[t]]) = {target[t]}
    BY <2>1 DEF IInv, UnsharedState
  <2> QED
    BY <2>1, <2>2, FS_Singleton DEF IInv, CountExact
<1> QED
  BY <1>1, Invariance, PTL

-----------------------------------------------------------------------------
\* The refinement: what is seen through the pointers are independent values.

ValueOf(h) == IF ptr[h] = NoObj THEN Empty ELSE content[ptr[h]]
valBar == [h \in Handles |-> ValueOf(h)]

LEMMA CopyRefines ==
  ASSUME IInv, NEW t \in Threads, NEW h \in Handles, NEW g \in Handles,
         CopyConstruct(t, h, g) \/ Assign(t, h, g)
  PROVE  Values!Copy(h, g)
<1>1. ptr' = [ptr EXCEPT ![h] = ptr[g]] /\ content' = content /\ phase' = phase
  BY DEF CopyConstruct, Assign
<1>2. [valBar EXCEPT ![h] = valBar[g]] = valBar'
  BY <1>1 DEF valBar, ValueOf, IInv, TypeOK
<1>3. Owner[h] = t /\ Runs(t) /\ Owner[g] \in {t, Main}
  BY DEF CopyConstruct, Assign, Starts
<1> QED
  BY <1>1, <1>2, <1>3 DEF Values!Copy, Values!Runs, Runs, valBar, ValueOf

LEMMA DestroyRefines ==
  ASSUME IInv, NEW t \in Threads, NEW h \in Handles, Destroy(t, h)
  PROVE  Values!Change(h)
<1>1. [valBar EXCEPT ![h] = Empty] = valBar'
  BY DEF Destroy, valBar, ValueOf, IInv, TypeOK
<1> QED
  BY <1>1 DEF Destroy, Starts, Runs, Values!Change, Values!Runs, valBar, ValueOf

LEMMA GetStutters ==
  ASSUME IInv, NEW t \in Threads, NEW h \in Handles, GetFresh(t, h) \/ GetShared(t, h)
  PROVE  valBar' = valBar /\ phase' = phase
<1>1. PICK n \in Objs : Allocate(h, n, ValueOf(h))
  BY DEF GetFresh, GetShared, ValueOf
<1>2. \A k \in Handles : ptr[k] # n
  BY <1>1 DEF Allocate, IInv, NoDangling
<1>3. n # NoObj /\ phase' = phase
  BY DEF GetFresh, GetShared
<1>4. \A k \in Handles : ValueOf(k)' = ValueOf(k)
  BY <1>1, <1>2, <1>3 DEF Allocate, ValueOf, IInv, TypeOK
<1> QED
  BY <1>3, <1>4 DEF valBar

LEMMA WriteRefines ==
  ASSUME IInv, NEW t \in Threads, Write(t)
  PROVE  \E h \in Handles : Values!Change(h)
<1> SUFFICES ASSUME NEW h, h = target[t] PROVE h \in Handles /\ Values!Change(h)
  OBVIOUS
<1>1. PICK v \in Vals : content' = [content EXCEPT ![ptr[h]] = v]
  BY DEF Write
<1>2. h \in Handles /\ Owner[h] = t /\ ptr[h] \in Objs /\ ptr[h] # NoObj
  BY DEF Write, IInv, LocalState, TypeOK
<1>3. \A k \in Handles \ {h} : ptr[k] # ptr[h]
  BY <1>2 DEF Write, IInv, UnsharedState, Holders
<1>4. [valBar EXCEPT ![h] = v] = valBar'
  BY <1>1, <1>2, <1>3 DEF Write, valBar, ValueOf, IInv, TypeOK
<1>5. Runs(t) /\ phase' = phase
  BY DEF Write, IInv, PhaseState, Runs, TypeOK, Threads
<1> QED
  BY <1>2, <1>4, <1>5 DEF Values!Change, Values!Runs, Runs, valBar, ValueOf

\* Every behaviour of the shared, reference-counted vectors is a behaviour of
\* weights that hold vectors of their own.
THEOREM Refinement == Spec => WeightsAreValues
<1>1. Init => Values!Init
  BY DEF Init, Values!Init
<1>2. IInv /\ [Next]_vars => [Values!Next]_<<valBar, phase>>
  <2> SUFFICES ASSUME IInv, [Next]_vars PROVE [Values!Next]_<<valBar, phase>>
    OBVIOUS
  <2>1. ASSUME NEW t \in Threads, NEW h \in Handles, NEW g \in Handles,
               CopyConstruct(t, h, g) \/ Assign(t, h, g)
        PROVE  Values!Next
    BY <2>1, CopyRefines DEF Values!Next
  <2>2. ASSUME NEW t \in Threads, NEW h \in Handles, Destroy(t, h)
        PROVE  Values!Next
    BY <2>2, DestroyRefines DEF Values!Next
  <2>3. ASSUME NEW t \in Threads, NEW h \in Handles, GetFresh(t, h) \/ GetShared(t, h)
        PROVE  UNCHANGED <<valBar, phase>>
    BY <2>3, GetStutters
  <2>4. ASSUME NEW t \in Threads, Write(t)
        PROVE  Values!Next
    BY <2>4, WriteRefines DEF Values!Next
  <2>5. ASSUME NEW t \in Threads,
               \/ \E h \in Handles : GetSole(t, h)
               \/ DecCheck(t) \/ DecSub(t) \/ DecReread(t) \/ Delete(t)
               \/ CowCheck(t) \/ CowSub(t)
        PROVE  UNCHANGED <<valBar, phase>>
    BY <2>5 DEF GetSole, DecCheck, DecSub, DecReread, Delete, CowCheck, CowSub,
                valBar, ValueOf
  <2>6. CASE Fork
    BY <2>6 DEF Fork, Values!Next, Values!Fork
  <2>7. CASE Join
    BY <2>7 DEF Join, ModelHandles, Values!Next, Values!Join
  <2>8. CASE UNCHANGED vars
    BY <2>8 DEF vars, valBar, ValueOf
  <2> QED
    BY <2>1, <2>2, <2>3, <2>4, <2>5, <2>6, <2>7, <2>8 DEF Next
<1> QED
  BY <1>1, <1>2, Invariance, PTL DEF Spec, WeightsAreValues, Values!Spec, valBar, ValueOf
=============================================================================
