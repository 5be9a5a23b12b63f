----------------------------- MODULE ObjectPool -----------------------------
(***************************************************************************)
(* ObjectPool<T> (DHNetWork/ObjectPool.h): the pool the server and the     *)
(* client take their Overlapped structures from.  Any number of threads    *)
(* call GetObject and ResetObject.  The available objects are in a         *)
(* tbb::concurrent_queue, which synchronises itself; the record of all     *)
(* objects, ALL_Object_List, is a std::vector without any lock.            *)
(*                                                                         *)
(* An object is the number of its allocation: 1, 2, 3, ...                 *)
(***************************************************************************)
EXTENDS Naturals, Sequences, FiniteSets

CONSTANTS
    Threads,            \* the threads that use the pool
    Sample_Obj_Count,   \* m_Sample_Obj_Count: objects the constructor makes
    GrowDivisor,        \* 10 in the code: the pool grows by a tenth of it
    MaxHeld             \* bound: objects one thread holds at the same time

ASSUME PoolAssumption ==
    /\ IsFiniteSet(Threads)
    /\ Sample_Obj_Count \in Nat
    /\ GrowDivisor \in Nat \ {0}
    /\ MaxHeld \in Nat

VARIABLES
    m_Available_Obj,    \* the concurrent queue
    ALL_Object_List,    \* the storage of the vector (slots written so far)
    listSize,           \* size() of the vector
    created,            \* how many objects have been allocated with new
    pc,                 \* where a thread is in GetObject ("idle" outside)
    grown,              \* a thread's counter i of the growing loop
    adding,             \* a thread's Add_Object
    held,               \* the objects a thread was given and did not return
    peak,               \* ghost: the largest number of objects held so far
    alive,              \* the destructor has not run
    freed               \* what the destructor deleted, in order

vars == <<m_Available_Obj, ALL_Object_List, listSize, created, pc, grown,
          adding, held, peak, alive, freed>>

Objects == 1..created

\* How many objects one round of growth adds: "m_Sample_Obj_Count / 10".
GrowCount == Sample_Obj_Count \div GrowDivisor

HeldCount(h) == Cardinality(UNION {h[t] : t \in Threads})

\* The constructor: Sample_Obj_Count objects, each queued and recorded.
Init ==
    /\ m_Available_Obj = [i \in 1..Sample_Obj_Count |-> i]
    /\ ALL_Object_List = [i \in 1..Sample_Obj_Count |-> i]
    /\ listSize = Sample_Obj_Count
    /\ created = Sample_Obj_Count
    /\ pc = [t \in Threads |-> "idle"]
    /\ grown = [t \in Threads |-> 0]
    /\ adding = [t \in Threads |-> 0]
    /\ held = [t \in Threads |-> {}]
    /\ peak = 0
    /\ alive = TRUE
    /\ freed = <<>>

-----------------------------------------------------------------------------
(* GetObject.                                                              *)

\* Mutant of CheckEmpty: every caller grows the pool.
CheckNothing(t) ==
    /\ alive
    /\ pc[t] = "idle"
    /\ Cardinality(held[t]) < MaxHeld
    /\ grown' = [grown EXCEPT ![t] = 0]
    /\ pc' = [pc EXCEPT ![t] = "grow"]
    /\ UNCHANGED <<m_Available_Obj, ALL_Object_List, listSize, created,
                   adding, held, peak, alive, freed>>

\* "if (m_Available_Obj.empty())": a thread that finds the queue empty goes
\* on to the growing loop, every other one to try_pop.
CheckEmpty(t) ==
    /\ alive
    /\ pc[t] = "idle"
    /\ Cardinality(held[t]) < MaxHeld
    /\ grown' = [grown EXCEPT ![t] = 0]
    /\ pc' = [pc EXCEPT ![t] =
                IF m_Available_Obj = <<>> THEN "grow" ELSE "pop"]
    /\ UNCHANGED <<m_Available_Obj, ALL_Object_List, listSize, created,
                   adding, held, peak, alive, freed>>

\* One iteration of the loop: a new object is queued at once, and from then
\* on any thread may take it; it is recorded in the vector afterwards.
GrowPush(t) ==
    /\ pc[t] = "grow"
    /\ grown[t] < GrowCount
    /\ created' = created + 1
    /\ adding' = [adding EXCEPT ![t] = created + 1]
    /\ m_Available_Obj' = Append(m_Available_Obj, created + 1)
    /\ pc' = [pc EXCEPT ![t] = "store"]
    /\ UNCHANGED <<ALL_Object_List, listSize, grown, held, peak, alive, freed>>

\* push_back writes the slot after the last element ...
GrowStore(t) ==
    /\ pc[t] = "store"
    /\ ALL_Object_List' =
         IF Len(ALL_Object_List) > listSize
         THEN [ALL_Object_List EXCEPT ![listSize + 1] = adding[t]]
         ELSE Append(ALL_Object_List, adding[t])
    /\ pc' = [pc EXCEPT ![t] = "bump"]
    /\ UNCHANGED <<m_Available_Obj, listSize, created, grown, adding, held,
                   peak, alive, freed>>

\* ... and then moves the end of the vector.
GrowBump(t) ==
    /\ pc[t] = "bump"
    /\ listSize' = listSize + 1
    /\ grown' = [grown EXCEPT ![t] = @ + 1]
    /\ pc' = [pc EXCEPT ![t] = "grow"]
    /\ UNCHANGED <<m_Available_Obj, ALL_Object_List, created, adding, held,
                   peak, alive, freed>>

GrowDone(t) ==
    /\ pc[t] = "grow"
    /\ grown[t] = GrowCount
    /\ pc' = [pc EXCEPT ![t] = "pop"]
    /\ UNCHANGED <<m_Available_Obj, ALL_Object_List, listSize, created, grown,
                   adding, held, peak, alive, freed>>

\* Mutant of TryPop: the front is read and not taken off.
TryPopPeeks(t) ==
    /\ pc[t] = "pop"
    /\ m_Available_Obj # <<>>
    /\ held' = [held EXCEPT ![t] = @ \cup {Head(m_Available_Obj)}]
    /\ pc' = [pc EXCEPT ![t] = "idle"]
    /\ UNCHANGED <<m_Available_Obj, ALL_Object_List, listSize, created, grown,
                   adding, peak, alive, freed>>

\* "while (!m_Available_Obj.try_pop(Return_Obj)){}": the thread spins here
\* while the queue is empty; it never goes back to the emptiness test.
TryPop(t) ==
    /\ pc[t] = "pop"
    /\ m_Available_Obj # <<>>
    /\ held' = [held EXCEPT ![t] = @ \cup {Head(m_Available_Obj)}]
    /\ m_Available_Obj' = Tail(m_Available_Obj)
    /\ peak' = IF HeldCount(held') > peak THEN HeldCount(held') ELSE peak
    /\ pc' = [pc EXCEPT ![t] = "idle"]
    /\ UNCHANGED <<ALL_Object_List, listSize, created, grown, adding, alive, freed>>

GetObject(t) ==
    \/ CheckEmpty(t) \/ GrowPush(t) \/ GrowStore(t) \/ GrowBump(t)
    \/ GrowDone(t) \/ TryPop(t)

\* Mutant of ResetObject: the object is not queued again.
ResetObjectDrops(t, o) ==
    /\ alive
    /\ pc[t] = "idle"
    /\ o \in held[t]
    /\ held' = [held EXCEPT ![t] = @ \ {o}]
    /\ UNCHANGED <<m_Available_Obj, ALL_Object_List, listSize, created, pc,
                   grown, adding, peak, alive, freed>>

\* ResetObject: the object is reconstructed in place and queued again.
ResetObject(t, o) ==
    /\ alive
    /\ pc[t] = "idle"
    /\ o \in held[t]
    /\ held' = [held EXCEPT ![t] = @ \ {o}]
    /\ m_Available_Obj' = Append(m_Available_Obj, o)
    /\ UNCHANGED <<ALL_Object_List, listSize, created, pc, grown, adding,
                   peak, alive, freed>>

\* The element i of the vector; a slot inside the vector that was never
\* written holds no object (0).
Listed(i) ==
    IF i <= Len(ALL_Object_List) THEN ALL_Object_List[i] ELSE 0

\* The destructor, called once every thread has left GetObject (End joins
\* them first): the queue is cleared, every element of the vector deleted.
Destroy ==
    /\ alive
    /\ \A t \in Threads : pc[t] = "idle"
    /\ alive' = FALSE
    /\ m_Available_Obj' = <<>>
    /\ freed' = [i \in 1..listSize |-> Listed(i)]
    /\ UNCHANGED <<ALL_Object_List, listSize, created, pc, grown, adding, held,
                   peak>>

Next ==
    \/ \E t \in Threads : GetObject(t)
    \/ \E t \in Threads : \E o \in held[t] : ResetObject(t, o)
    \/ Destroy

Spec == Init /\ [][Next]_vars

\* A thread inside GetObject keeps running, and try_pop succeeds if the queue
\* is filled again and again.  Nothing obliges a holder to give an object back:
\* an Overlapped is held while its I/O is pending, and a WSARecv on a silent
\* connection stays pending for ever.
FairSpec ==
    /\ Spec
    /\ \A t \in Threads : /\ WF_vars(GetObject(t) /\ pc[t] # "idle")
                          /\ SF_vars(TryPop(t))

-----------------------------------------------------------------------------
(* Properties.                                                             *)

\* Types of the variables.
TypeOK ==
    /\ created \in Nat
    /\ m_Available_Obj \in Seq(Objects)
    /\ ALL_Object_List \in Seq(Objects)
    /\ listSize \in Nat
    /\ pc \in [Threads -> {"idle", "grow", "store", "bump", "pop"}]
    /\ grown \in [Threads -> 0..GrowCount]
    /\ adding \in [Threads -> 0..created]
    /\ held \in [Threads -> SUBSET Objects]
    /\ peak \in Nat
    /\ alive \in BOOLEAN
    /\ freed \in Seq(0..created)

\* The queue holds no object twice.
QueueOnce ==
    \A i, j \in 1..Len(m_Available_Obj) :
        m_Available_Obj[i] = m_Available_Obj[j] => i = j

\* No object is available and in use, or in use by two threads.
OneHolder ==
    /\ \A t \in Threads : \A i \in 1..Len(m_Available_Obj) :
          m_Available_Obj[i] \notin held[t]
    /\ \A t, u \in Threads : t # u => held[t] \cap held[u] = {}

\* GetObject never hands an object to two threads, however the growing loops
\* and the pops interleave: two I/O operations never share one Overlapped.
ExclusiveUse == QueueOnce /\ OneHolder

\* GetObject and ResetObject lose no object: until the destructor runs, each
\* one is in the queue or in use.
NoneLost ==
    alive =>
        \A o \in Objects :
            \/ \E i \in 1..Len(m_Available_Obj) : m_Available_Obj[i] = o
            \/ \E t \in Threads : o \in held[t]

\* The pool's memory is bounded by the demand: it outgrows its sample only by
\* what one simultaneous round of growth of all the threads adds to the
\* largest number of objects that were ever in use at the same time.
BoundedByDemand ==
    \/ created <= Sample_Obj_Count
    \/ created <= peak + Cardinality(Threads) * GrowCount

\* ObjectPool.h:63 says the vector manages every object, used or unused: the
\* destructor then deletes each one, and nothing that is not an object.
DestructorDeletesAll ==
    ~alive => {freed[i] : i \in 1..Len(freed)} = Objects

\* ObjectPool.h:55: a caller that finds no available object is given one of
\* a freshly allocated batch, so that every GetObject returns.
GetReturns ==
    \A t \in Threads : pc[t] # "idle" ~> pc[t] = "idle"
=============================================================================
