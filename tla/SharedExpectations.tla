------------------------- MODULE SharedExpectations -------------------------
(***************************************************************************)
(* The reference-counted, copy-on-write expectation vectors that the       *)
(* weights of an FST share (core/expectation-weight.h,                     *)
(* core/expectations.h), as the threads of a gradient computation use      *)
(* them.                                                                   *)
(*                                                                         *)
(* A handle stands for one MDExpectationWeight object; it points to at     *)
(* most one MDExpectations object.  The handles of Main are the arc        *)
(* weights of the model FST: Main changes them while it runs alone         *)
(* (phase "seq"), and every worker reads and copies them while the workers *)
(* run (phase "par").  A worker changes only handles of its own, the arc   *)
(* weights of the FSTs it composes.                                        *)
(*                                                                         *)
(* decCount() is three steps here, as it is in the code: the test          *)
(* "count_ > 0", the atomic subtraction, and a second read of count_ that  *)
(* is returned.                                                            *)
(***************************************************************************)
EXTENDS Naturals, FiniteSets

CONSTANTS
  Workers,      \* the threads that process blocks of training pairs
  Main,         \* the thread that sets the feature weights and joins
  Handles,      \* weight objects
  Owner,        \* the thread that constructs, changes and destroys a handle
  Objs,         \* memory cells for MDExpectations objects (bounds the heap)
  Vals,         \* contents of an expectation vector
  Empty,        \* the content of a new MDExpectations
  NoObj         \* the null pointer

Threads == Workers \cup {Main}
ModelHandles == {h \in Handles : Owner[h] = Main}

ASSUME ConstantsAssumption ==
  /\ Main \notin Workers
  /\ Owner \in [Handles -> Threads]
  /\ Handles \cap Threads = {}
  /\ IsFiniteSet(Handles) /\ IsFiniteSet(Threads)
  /\ NoObj \notin Objs \cup Handles
  /\ Empty \in Vals

VARIABLES
  ptr,          \* expectations_ of each handle
  heap,         \* the objects that are allocated
  count,        \* count_ of each object
  content,      \* expectations_ (the map) of each object
  phase,        \* "seq": only Main runs; "par": the workers run
  pc,           \* where each thread is inside a weight operation
  held,         \* the object a thread is releasing
  target        \* the handle a thread has called the mutable getter on

vars == <<ptr, heap, count, content, phase, pc, held, target>>

Releasing == {"check", "sub", "reread", "delete"}
Unsharing == {"cowCheck", "cowSub"}
Steps == {"idle", "write"} \cup Releasing \cup Unsharing

\* The pointers, counts and program counters are in range.
TypeOK ==
  /\ ptr \in [Handles -> Objs \cup {NoObj}]
  /\ heap \subseteq Objs
  /\ count \in [Objs -> Nat]
  /\ content \in [Objs -> Vals]
  /\ phase \in {"seq", "par"}
  /\ pc \in [Threads -> Steps]
  /\ held \in [Threads -> Objs \cup {NoObj}]
  /\ target \in [Threads -> Handles \cup {NoObj}]

-----------------------------------------------------------------------------

Init ==
  /\ ptr = [h \in Handles |-> NoObj]
  /\ heap = {}
  /\ count = [o \in Objs |-> 0]
  /\ content = [o \in Objs |-> Empty]
  /\ phase = "seq"
  /\ pc = [t \in Threads |-> "idle"]
  /\ held = [t \in Threads |-> NoObj]
  /\ target = [t \in Threads |-> NoObj]

Runs(t) == phase = (IF t = Main THEN "seq" ELSE "par")

\* t is about to start an operation on its handle h.
Starts(t, h) == Runs(t) /\ pc[t] = "idle" /\ Owner[h] = t

\* Fault: a copy is not counted.
NotCounted(o) == count

IncCount(o) == [count EXCEPT ![o] = @ + 1]

\* The copy constructor: h, which holds nothing, shares the object of g.
CopyConstruct(t, h, g) ==
  /\ Starts(t, h)
  /\ Owner[g] \in {t, Main}
  /\ ptr[h] = NoObj
  /\ ptr[g] # NoObj
  /\ ptr' = [ptr EXCEPT ![h] = ptr[g]]
  /\ count' = IncCount(ptr[g])
  /\ UNCHANGED <<heap, content, phase, pc, held, target>>

\* operator= on a handle that holds an object: the object of g is taken and
\* counted first, the old one is released after that.
Assign(t, h, g) ==
  /\ Starts(t, h)
  /\ Owner[g] \in {t, Main}
  /\ ptr[h] # NoObj
  /\ ptr' = [ptr EXCEPT ![h] = ptr[g]]
  /\ count' = IF ptr[g] = NoObj THEN count ELSE IncCount(ptr[g])
  /\ held' = [held EXCEPT ![t] = ptr[h]]
  /\ pc' = [pc EXCEPT ![t] = "check"]
  /\ UNCHANGED <<heap, content, phase, target>>

\* The destructor.
Destroy(t, h) ==
  /\ Starts(t, h)
  /\ ptr[h] # NoObj
  /\ ptr' = [ptr EXCEPT ![h] = NoObj]
  /\ held' = [held EXCEPT ![t] = ptr[h]]
  /\ pc' = [pc EXCEPT ![t] = "check"]
  /\ UNCHANGED <<heap, count, content, phase, target>>

\* decCount(), first step: the test that guards the subtraction.
DecCheck(t) ==
  /\ pc[t] = "check"
  /\ pc' = [pc EXCEPT ![t] = IF count[held[t]] > 0 THEN "sub" ELSE "reread"]
  /\ UNCHANGED <<ptr, heap, count, content, phase, held, target>>

\* decCount(), second step: __sync_sub_and_fetch, whose result is dropped.
DecSub(t) ==
  /\ pc[t] = "sub"
  /\ count' = [count EXCEPT ![held[t]] = @ - 1]
  /\ pc' = [pc EXCEPT ![t] = "reread"]
  /\ UNCHANGED <<ptr, heap, content, phase, held, target>>

\* Fault: the object is deleted one reference too early.
DecRereadEarly(t) ==
  /\ pc[t] = "reread"
  /\ IF count[held[t]] <= 1
     THEN pc' = [pc EXCEPT ![t] = "delete"] /\ held' = held
     ELSE pc' = [pc EXCEPT ![t] = "idle"] /\ held' = [held EXCEPT ![t] = NoObj]
  /\ UNCHANGED <<ptr, heap, count, content, phase, target>>

\* decCount(), third step: count_ is read again and returned; the caller
\* deletes the object if it sees 0.
DecReread(t) ==
  /\ pc[t] = "reread"
  /\ IF count[held[t]] = 0
     THEN pc' = [pc EXCEPT ![t] = "delete"] /\ held' = held
     ELSE pc' = [pc EXCEPT ![t] = "idle"] /\ held' = [held EXCEPT ![t] = NoObj]
  /\ UNCHANGED <<ptr, heap, count, content, phase, target>>

Delete(t) ==
  /\ pc[t] = "delete"
  /\ heap' = heap \ {held[t]}
  /\ pc' = [pc EXCEPT ![t] = "idle"]
  /\ held' = [held EXCEPT ![t] = NoObj]
  /\ UNCHANGED <<ptr, count, content, phase, target>>

\* A new object o with reference count 1 and content v, stored in h.
Allocate(h, o, v) ==
  /\ o \in Objs \ heap
  /\ heap' = heap \cup {o}
  /\ count' = [count EXCEPT ![o] = 1]
  /\ content' = [content EXCEPT ![o] = v]
  /\ ptr' = [ptr EXCEPT ![h] = o]

\* The mutable GetMDExpectations() on a handle without an object.
GetFresh(t, h) ==
  /\ Starts(t, h)
  /\ ptr[h] = NoObj
  /\ \E o \in Objs : Allocate(h, o, Empty)
  /\ pc' = [pc EXCEPT ![t] = "write"]
  /\ target' = [target EXCEPT ![t] = h]
  /\ UNCHANGED <<phase, held>>

\* Fault: the shared object is not released.
GetSharedUnreleased(t, h) ==
  /\ Starts(t, h)
  /\ ptr[h] # NoObj
  /\ count[ptr[h]] > 1
  /\ \E o \in Objs : Allocate(h, o, content[ptr[h]])
  /\ pc' = [pc EXCEPT ![t] = "write"]
  /\ target' = [target EXCEPT ![t] = h]
  /\ UNCHANGED <<phase, held>>

\* The mutable GetMDExpectations() on a shared object: the handle gets a copy
\* and the shared object is released by a decCount() whose result is ignored.
GetShared(t, h) ==
  /\ Starts(t, h)
  /\ ptr[h] # NoObj
  /\ count[ptr[h]] > 1
  /\ \E o \in Objs : Allocate(h, o, content[ptr[h]])
  /\ pc' = [pc EXCEPT ![t] = "cowCheck"]
  /\ held' = [held EXCEPT ![t] = ptr[h]]
  /\ target' = [target EXCEPT ![t] = h]
  /\ UNCHANGED phase

\* Fault: an object with two references is not copied.
GetSoleOffByOne(t, h) ==
  /\ Starts(t, h)
  /\ ptr[h] # NoObj
  /\ ~ (count[ptr[h]] > 2)
  /\ pc' = [pc EXCEPT ![t] = "write"]
  /\ target' = [target EXCEPT ![t] = h]
  /\ UNCHANGED <<ptr, heap, count, content, phase, held>>

\* The mutable GetMDExpectations() on an object no one else refers to.
GetSole(t, h) ==
  /\ Starts(t, h)
  /\ ptr[h] # NoObj
  /\ ~ (count[ptr[h]] > 1)
  /\ pc' = [pc EXCEPT ![t] = "write"]
  /\ target' = [target EXCEPT ![t] = h]
  /\ UNCHANGED <<ptr, heap, count, content, phase, held>>

CowCheck(t) ==
  /\ pc[t] = "cowCheck"
  /\ IF count[held[t]] > 0
     THEN pc' = [pc EXCEPT ![t] = "cowSub"] /\ held' = held
     ELSE pc' = [pc EXCEPT ![t] = "write"] /\ held' = [held EXCEPT ![t] = NoObj]
  /\ UNCHANGED <<ptr, heap, count, content, phase, target>>

CowSub(t) ==
  /\ pc[t] = "cowSub"
  /\ count' = [count EXCEPT ![held[t]] = @ - 1]
  /\ pc' = [pc EXCEPT ![t] = "write"]
  /\ held' = [held EXCEPT ![t] = NoObj]
  /\ UNCHANGED <<ptr, heap, content, phase, target>>

\* The caller of the mutable getter changes the vector it was given.
Write(t) ==
  /\ pc[t] = "write"
  /\ \E v \in Vals : content' = [content EXCEPT ![ptr[target[t]]] = v]
  /\ pc' = [pc EXCEPT ![t] = "idle"]
  /\ target' = [target EXCEPT ![t] = NoObj]
  /\ UNCHANGED <<ptr, heap, count, phase, held>>

\* The threads of one gradient computation are started ...
Fork ==
  /\ phase = "seq" /\ pc[Main] = "idle"
  /\ phase' = "par"
  /\ UNCHANGED <<ptr, heap, count, content, pc, held, target>>

\* ... and joined: a thread that has ended has destroyed its FSTs.
Join ==
  /\ phase = "par"
  /\ \A t \in Workers : pc[t] = "idle"
  /\ \A h \in Handles \ ModelHandles : ptr[h] = NoObj
  /\ phase' = "seq"
  /\ UNCHANGED <<ptr, heap, count, content, pc, held, target>>

Next ==
  \/ \E t \in Threads :
       \/ \E h, g \in Handles : CopyConstruct(t, h, g) \/ Assign(t, h, g)
       \/ \E h \in Handles : \/ Destroy(t, h)
                             \/ GetFresh(t, h)
                             \/ GetShared(t, h)
                             \/ GetSole(t, h)
       \/ DecCheck(t) \/ DecSub(t) \/ DecReread(t) \/ Delete(t)
       \/ CowCheck(t) \/ CowSub(t) \/ Write(t)
  \/ Fork
  \/ Join

Spec == Init /\ [][Next]_vars

-----------------------------------------------------------------------------

\* What the count of an object is a count of: the handles that point to it and
\* the threads that have taken a handle off it but not subtracted yet.
Counted(t) == pc[t] \in {"check", "sub"} \cup Unsharing
Holders(o) == {h \in Handles : ptr[h] = o}
                \cup {t \in Threads : held[t] = o /\ Counted(t)}

\* No weight points to memory that was freed, and no thread is about to read
\* or delete an object that is gone already: decCount()'s second read and the
\* delete that follows it never race with another thread's.
NoDangling ==
  /\ \A h \in Handles : ptr[h] # NoObj => ptr[h] \in heap
  /\ \A t \in Threads : held[t] # NoObj => held[t] \in heap

\* At every moment the count of a live object is the number of references to
\* it, so the subtraction never wraps around and 0 means unreferenced.
CountExact == \A o \in heap : count[o] = Cardinality(Holders(o))

\* An object that nobody refers to any more is being deleted: neither the
\* two-step decCount() nor the ignored one in the mutable getter leaks.
NoLeak ==
  \A o \in heap :
    Holders(o) = {} => \E t \in Threads : held[t] = o /\ pc[t] \in {"reread", "delete"}

\* The assertion at the end of the mutable getter, and why it is there: while
\* a caller changes a vector, no other weight or thread refers to it.
WriteIsExclusive ==
  \A t \in Threads :
    pc[t] = "write" => /\ count[ptr[target[t]]] = 1
                       /\ Holders(ptr[target[t]]) = {target[t]}

\* A weight is a value: seen through the pointers, every step behaves like a
\* step on handles that share nothing.
Values == INSTANCE WeightValues WITH
  val <- [h \in Handles |-> IF ptr[h] = NoObj THEN Empty ELSE content[ptr[h]]]
WeightsAreValues == Values!Spec
-----------------------------------------------------------------------------

\* The strengthening under which the properties above are inductive.

\* What a thread holds and works on at each of its steps.
LocalState ==
  \A t \in Threads :
    /\ held[t] # NoObj <=> pc[t] \in Releasing \cup Unsharing
    /\ pc[t] \in {"write"} \cup Unsharing =>
         target[t] \in Handles /\ Owner[target[t]] = t /\ ptr[target[t]] # NoObj

\* The phases do not overlap.
PhaseState ==
  /\ phase = "par" => pc[Main] = "idle"
  /\ phase = "seq" => \A t \in Workers : pc[t] = "idle"
  /\ phase = "seq" => \A h \in Handles \ ModelHandles : ptr[h] = NoObj

\* Two workers have an object in common only if the model refers to it too:
\* its count then stays above 0 until the workers are joined.
Uses(t, o) == held[t] = o \/ \E h \in Handles : Owner[h] = t /\ ptr[h] = o
SharedThroughModel ==
  \A o \in Objs : \A t, u \in Workers :
    t # u /\ Uses(t, o) /\ Uses(u, o) => \E m \in ModelHandles : ptr[m] = o

\* Nobody else can reach an object that a thread is going to delete.
SoleDeleter ==
  \A t \in Threads, o \in Objs :
    pc[t] = "delete" /\ held[t] = o => /\ Holders(o) = {}
                                      /\ \A u \in Threads \ {t} : held[u] # o

\* The object that the mutable getter has made for its caller is the caller's,
\* and the one it was copied from has another referent that will not go away
\* before the getter has returned.
UnsharedState ==
  \A t \in Threads, o \in Objs :
    /\ pc[t] \in {"write"} \cup Unsharing /\ ptr[target[t]] = o =>
         Holders(o) = {target[t]}
    /\ pc[t] \in Unsharing /\ held[t] = o =>
         \E h \in Handles : ptr[h] = o /\ Owner[h] \in {t, Main}

IInv ==
  /\ TypeOK
  /\ NoDangling
  /\ CountExact
  /\ NoLeak
  /\ LocalState
  /\ PhaseState
  /\ SharedThroughModel
  /\ SoleDeleter
  /\ UnsharedState
=============================================================================
