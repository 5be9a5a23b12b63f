----------------------------- MODULE PoolProofs -----------------------------
(* Proofs about the two pools, for every number of threads and every size:  *)
(* who uses an object of ObjectPool and how many objects there are, and     *)
(* that MemoryPool always finds a block.                                    *)
EXTENDS ObjectPool, MemoryPool, FiniteSetTheorems, SequenceTheorems, TLAPS

\* A thread between the queue and the vector has an object to record and is
\* inside the bounds of the growing loop.
InGrowLoop ==
    \A t \in Threads :
        pc[t] \in {"store", "bump"} => adding[t] # 0 /\ grown[t] < GrowCount

\* The inductive invariant.  The two parts of ExclusiveUse need each other:
\* a pop moves an object from the queue to one thread, a reset moves it back.
IInv == TypeOK /\ InGrowLoop /\ ExclusiveUse /\ NoneLost

LEMMA GrowCountNat == GrowCount \in Nat
  BY PoolAssumption DEF GrowCount

\* A sequence of objects stays one when another object is allocated.
LEMMA SeqGrows ==
    ASSUME NEW n \in Nat, NEW lo \in Nat, NEW s \in Seq(lo..n)
    PROVE  s \in Seq(lo..(n + 1))
  OBVIOUS

LEMMA InitIInv == Init => IInv
<1> SUFFICES ASSUME Init PROVE IInv
    OBVIOUS
<1> USE PoolAssumption, GrowCountNat DEF Init, Objects
<1>1. m_Available_Obj \in Seq(Objects) /\ Len(m_Available_Obj) = Sample_Obj_Count
    OBVIOUS
<1>2. TypeOK
    BY <1>1 DEF TypeOK
<1>3. ExclusiveUse
    BY <1>1 DEF ExclusiveUse, QueueOnce, OneHolder
<1>4. NoneLost
    BY <1>1 DEF NoneLost
<1>5. QED
    BY <1>2, <1>3, <1>4 DEF IInv, InGrowLoop

LEMMA HeldCountNat ==
    ASSUME NEW h \in [Threads -> SUBSET Objects], created \in Nat
    PROVE  HeldCount(h) \in Nat
<1>1. IsFiniteSet(Objects)
    BY FS_Interval DEF Objects
<1>2. UNION {h[t] : t \in Threads} \subseteq Objects
    OBVIOUS
<1>3. QED
    BY <1>1, <1>2, FS_Subset, FS_CardinalityType DEF HeldCount

LEMMA TypeStep == TypeOK /\ InGrowLoop /\ [Next]_vars => TypeOK' /\ InGrowLoop'
<1> SUFFICES ASSUME TypeOK, InGrowLoop, [Next]_vars PROVE TypeOK' /\ InGrowLoop'
    OBVIOUS
<1> USE PoolAssumption, GrowCountNat DEF TypeOK, InGrowLoop, Objects
<1>1. CASE UNCHANGED vars
    BY <1>1 DEF vars
<1>2. ASSUME NEW t \in Threads, CheckEmpty(t) PROVE TypeOK' /\ InGrowLoop'
    BY <1>2 DEF CheckEmpty
<1>3. ASSUME NEW t \in Threads, GrowPush(t) PROVE TypeOK' /\ InGrowLoop'
  <2>1. /\ m_Available_Obj \in Seq(1..(created + 1))
        /\ ALL_Object_List \in Seq(1..(created + 1))
        /\ freed \in Seq(0..(created + 1))
      BY SeqGrows
  <2>2. m_Available_Obj' \in Seq(1..(created + 1))
      BY <1>3, <2>1 DEF GrowPush
  <2>3. TypeOK'
      BY <1>3, <2>1, <2>2 DEF GrowPush
  <2>4. InGrowLoop'
      BY <1>3 DEF GrowPush
  <2>5. QED
      BY <2>3, <2>4
<1>4. ASSUME NEW t \in Threads, GrowStore(t) PROVE TypeOK' /\ InGrowLoop'
  <2>1. ALL_Object_List' \in Seq(Objects)
    <3>1. adding[t] \in Objects
        BY <1>4 DEF GrowStore
    <3>2. CASE Len(ALL_Object_List) > listSize
      <4>1. listSize + 1 \in 1..Len(ALL_Object_List)
          BY <3>2
      <4>2. QED
          BY <1>4, <3>1, <3>2, <4>1, ExceptSeq DEF GrowStore
    <3>3. CASE ~(Len(ALL_Object_List) > listSize)
        BY <1>4, <3>1, <3>3, AppendProperties DEF GrowStore
    <3>4. QED
        BY <3>2, <3>3
  <2>2. QED
      BY <1>4, <2>1 DEF GrowStore
<1>5. ASSUME NEW t \in Threads, GrowBump(t) PROVE TypeOK' /\ InGrowLoop'
    BY <1>5 DEF GrowBump
<1>6. ASSUME NEW t \in Threads, GrowDone(t) PROVE TypeOK' /\ InGrowLoop'
    BY <1>6 DEF GrowDone
<1>7. ASSUME NEW t \in Threads, TryPop(t) PROVE TypeOK' /\ InGrowLoop'
  <2>1. held' \in [Threads -> SUBSET Objects]
      BY <1>7 DEF TryPop
  <2>2. peak' \in Nat
      BY <1>7, <2>1, HeldCountNat DEF TryPop
  <2>3. QED
      BY <1>7, <2>1, <2>2 DEF TryPop
<1>8. ASSUME NEW t \in Threads, NEW o \in held[t], ResetObject(t, o)
      PROVE  TypeOK' /\ InGrowLoop'
    BY <1>8 DEF ResetObject
<1>9. CASE Destroy
  <2>1. freed' \in Seq(0..created)
    <3>1. \A i \in 1..listSize : Listed(i) \in 0..created
        BY DEF Listed
    <3>2. QED
        BY <1>9, <3>1 DEF Destroy
  <2>2. m_Available_Obj' \in Seq(Objects)
      BY <1>9, EmptySeq DEF Destroy
  <2>3. QED
      BY <1>9, <2>1, <2>2 DEF Destroy
<1>10. QED
    BY <1>1, <1>2, <1>3, <1>4, <1>5, <1>6, <1>7, <1>8, <1>9 DEF Next, GetObject

LEMMA OwnershipStep ==
    TypeOK /\ ExclusiveUse /\ NoneLost /\ [Next]_vars => ExclusiveUse' /\ NoneLost'
<1> SUFFICES ASSUME TypeOK, ExclusiveUse, NoneLost, [Next]_vars
             PROVE  ExclusiveUse' /\ NoneLost'
    OBVIOUS
<1> DEFINE Q == m_Available_Obj
<1>0. /\ Q \in Seq(1..created)
      /\ Len(Q) \in Nat
      /\ \A i \in 1..Len(Q) : Q[i] \in 1..created
      /\ created \in Nat
      /\ \A u \in Threads : held[u] \subseteq 1..created
    BY DEF TypeOK, Objects
<1>1. CASE UNCHANGED vars
    BY <1>1 DEF vars, ExclusiveUse, QueueOnce, OneHolder, NoneLost, Objects
<1>2. ASSUME NEW t \in Threads,
             CheckEmpty(t) \/ GrowStore(t) \/ GrowBump(t) \/ GrowDone(t)
      PROVE  ExclusiveUse' /\ NoneLost'
  <2>1. UNCHANGED <<m_Available_Obj, created, held, alive>>
      BY <1>2 DEF CheckEmpty, GrowStore, GrowBump, GrowDone
  <2>2. QED
      BY <2>1 DEF ExclusiveUse, QueueOnce, OneHolder, NoneLost, Objects
<1>3. ASSUME NEW t \in Threads, GrowPush(t)
      PROVE  ExclusiveUse' /\ NoneLost'
  <2>1. /\ Len(Q') = Len(Q) + 1
        /\ \A i \in 1..Len(Q) : Q'[i] = Q[i]
        /\ Q'[Len(Q) + 1] = created + 1
      BY <1>0, <1>3, AppendProperties DEF GrowPush
  <2>2. created' = created + 1 /\ held' = held /\ alive' = alive
      BY <1>3 DEF GrowPush
  <2>3. QueueOnce'
    <3>1. \A i \in 1..Len(Q) : Q'[i] # created + 1
        BY <1>0, <2>1
    <3> SUFFICES ASSUME NEW i \in 1..(Len(Q) + 1), NEW j \in 1..(Len(Q) + 1),
                        Q'[i] = Q'[j]
                 PROVE  i = j
        BY <2>1 DEF QueueOnce
    <3>2. (i \in 1..Len(Q) \/ i = Len(Q) + 1) /\ (j \in 1..Len(Q) \/ j = Len(Q) + 1)
        BY <1>0
    <3>3. CASE i \in 1..Len(Q) /\ j \in 1..Len(Q)
        BY <2>1, <3>3 DEF ExclusiveUse, QueueOnce
    <3>4. QED
        BY <2>1, <3>1, <3>2, <3>3
  <2>4. OneHolder'
    <3>1. \A u \in Threads : created + 1 \notin held[u]
        BY <1>0
    <3>2. \A u \in Threads : \A i \in 1..Len(Q) + 1 : Q'[i] \notin held[u]
      <4>1. \A u \in Threads : \A i \in 1..Len(Q) : Q'[i] \notin held[u]
          BY <2>1 DEF ExclusiveUse, OneHolder
      <4>2. \A i \in 1..Len(Q) + 1 : i \in 1..Len(Q) \/ i = Len(Q) + 1
          BY <1>0
      <4>3. QED
          BY <2>1, <3>1, <4>1, <4>2
    <3>3. QED
        BY <2>1, <2>2, <3>2 DEF ExclusiveUse, OneHolder
  <2>5. NoneLost'
    <3> SUFFICES ASSUME alive, NEW o \in 1..(created + 1),
                        ~ \E u \in Threads : o \in held[u]
                 PROVE  \E i \in 1..(Len(Q) + 1) : Q'[i] = o
        BY <2>1, <2>2 DEF NoneLost, Objects
    <3>1. CASE o = created + 1
        BY <1>0, <2>1, <3>1
    <3>2. CASE o \in 1..created
      <4>1. PICK j \in 1..Len(Q) : Q[j] = o
          BY <3>2 DEF NoneLost, Objects
      <4>2. j \in 1..(Len(Q) + 1)
          BY <1>0
      <4>3. QED
          BY <2>1, <4>1, <4>2
    <3>3. QED
        BY <1>0, <3>1, <3>2
  <2>6. QED
      BY <2>3, <2>4, <2>5 DEF ExclusiveUse
<1>4. ASSUME NEW t \in Threads, TryPop(t)
      PROVE  ExclusiveUse' /\ NoneLost'
  <2>1. /\ Len(Q) > 0
        /\ Len(Q') = Len(Q) - 1
        /\ \A i \in 1..(Len(Q) - 1) : Q'[i] = Q[i + 1]
        /\ Head(Q) = Q[1]
      BY <1>0, <1>4, HeadTailProperties, EmptySeq DEF TryPop
  <2>2. /\ created' = created /\ alive' = alive
        /\ held'[t] = held[t] \cup {Q[1]}
        /\ \A u \in Threads : u # t => held'[u] = held[u]
      BY <1>4, <2>1 DEF TryPop, TypeOK
  <2>3. \A i \in 1..(Len(Q) - 1) : Q'[i] # Q[1]
    <3>1. \A i, j \in 1..Len(Q) : Q[i] = Q[j] => i = j
        BY <1>0 DEF ExclusiveUse, QueueOnce
    <3>2. ASSUME NEW i \in 1..(Len(Q) - 1) PROVE i + 1 \in 1..Len(Q) /\ 1 \in 1..Len(Q) /\ i + 1 # 1
        BY <1>0, <2>1, <3>2
    <3>3. QED
        BY <2>1, <3>1, <3>2
  <2>4. QueueOnce'
    <3> SUFFICES ASSUME NEW i \in 1..(Len(Q) - 1), NEW j \in 1..(Len(Q) - 1),
                        Q'[i] = Q'[j]
                 PROVE  i = j
        BY <2>1 DEF QueueOnce
    <3>1. i + 1 \in 1..Len(Q) /\ j + 1 \in 1..Len(Q)
        BY <1>0
    <3>2. i + 1 = j + 1
      <4>1. Q[i + 1] = Q[j + 1]
          BY ONLY <2>1, Q'[i] = Q'[j], i \in 1..(Len(Q) - 1), j \in 1..(Len(Q) - 1)
      <4>2. QED
          BY <3>1, <4>1 DEF ExclusiveUse, QueueOnce
    <3>3. QED
        BY <1>0, <3>2
  <2>5. OneHolder'
    <3>1. \A u \in Threads : Q[1] \notin held[u]
        BY <1>0, <2>1 DEF ExclusiveUse, OneHolder
    <3>2. \A u \in Threads : \A i \in 1..(Len(Q) - 1) : Q'[i] \notin held[u]
      <4> SUFFICES ASSUME NEW u \in Threads, NEW i \in 1..(Len(Q) - 1)
                   PROVE  Q'[i] \notin held[u]
          OBVIOUS
      <4>1. i + 1 \in 1..Len(Q)
          BY <1>0
      <4>2. Q[i + 1] \notin held[u]
          BY <4>1 DEF ExclusiveUse, OneHolder
      <4>3. QED
          BY <2>1, <4>2
    <3>3. \A u \in Threads : \A i \in 1..(Len(Q) - 1) : Q'[i] \notin held'[u]
      <4> SUFFICES ASSUME NEW u \in Threads, NEW i \in 1..(Len(Q) - 1)
                   PROVE  Q'[i] \notin held'[u]
          OBVIOUS
      <4>1. Q'[i] # Q[1] /\ Q'[i] \notin held[u]
          BY <2>3, <3>2
      <4>2. QED
          BY <2>2, <4>1
    <3>4. \A u, v \in Threads : u # v => held'[u] \cap held'[v] = {}
        BY <2>2, <3>1 DEF ExclusiveUse, OneHolder
    <3>5. QED
        BY <2>1, <3>3, <3>4 DEF OneHolder
  <2>6. NoneLost'
    <3> SUFFICES ASSUME alive, NEW o \in 1..created,
                        ~ \E u \in Threads : o \in held'[u]
                 PROVE  \E i \in 1..(Len(Q) - 1) : Q'[i] = o
        BY <2>1, <2>2 DEF NoneLost, Objects
    <3>1. o # Q[1] /\ ~ \E u \in Threads : o \in held[u]
        BY <2>2
    <3>2. PICK j \in 1..Len(Q) : Q[j] = o
        BY <3>1 DEF NoneLost, Objects
    <3>3. j # 1 /\ j - 1 \in 1..(Len(Q) - 1)
        BY <1>0, <3>1, <3>2
    <3>4. Q'[j - 1] = o
        BY <1>0, <2>1, <3>2, <3>3
    <3>5. QED
        BY <3>3, <3>4
  <2>7. QED
      BY <2>4, <2>5, <2>6 DEF ExclusiveUse
<1>5. ASSUME NEW t \in Threads, NEW o \in held[t], ResetObject(t, o)
      PROVE  ExclusiveUse' /\ NoneLost'
  <2>1. /\ Len(Q') = Len(Q) + 1
        /\ \A i \in 1..Len(Q) : Q'[i] = Q[i]
        /\ Q'[Len(Q) + 1] = o
      BY <1>0, <1>5, AppendProperties DEF ResetObject
  <2>2. /\ created' = created /\ alive' = alive
        /\ held'[t] = held[t] \ {o}
        /\ \A u \in Threads : u # t => held'[u] = held[u]
      BY <1>5 DEF ResetObject, TypeOK
  <2>3. \A i \in 1..Len(Q) : Q[i] # o
      BY DEF ExclusiveUse, OneHolder
  <2>4. QueueOnce'
      BY <1>0, <2>1, <2>3 DEF ExclusiveUse, QueueOnce
  <2>5. OneHolder'
    <3>1. \A u \in Threads : o \notin held'[u]
        BY <2>2 DEF ExclusiveUse, OneHolder
    <3>2. \A u \in Threads : \A i \in 1..(Len(Q) + 1) : Q'[i] \notin held'[u]
      <4>1. \A u \in Threads : \A i \in 1..Len(Q) : Q'[i] \notin held'[u]
          BY <2>1, <2>2 DEF ExclusiveUse, OneHolder
      <4>2. QED
          BY <1>0, <2>1, <3>1, <4>1
    <3>3. \A u, v \in Threads : u # v => held'[u] \cap held'[v] = {}
        BY <2>2 DEF ExclusiveUse, OneHolder
    <3>4. QED
        BY <2>1, <3>2, <3>3 DEF OneHolder
  <2>6. NoneLost'
    <3> SUFFICES ASSUME alive, NEW x \in 1..created,
                        ~ \E u \in Threads : x \in held'[u]
                 PROVE  \E i \in 1..(Len(Q) + 1) : Q'[i] = x
        BY <2>1, <2>2 DEF NoneLost, Objects
    <3>1. CASE x = o
      <4>1. Len(Q) + 1 \in 1..(Len(Q) + 1)
          BY <1>0
      <4>2. QED
          BY <2>1, <3>1, <4>1
    <3>2. CASE x # o
      <4>1. ~ \E u \in Threads : x \in held[u]
          BY <2>2, <3>2
      <4>2. PICK j \in 1..Len(Q) : Q[j] = x
          BY <4>1 DEF NoneLost, Objects
      <4>3. QED
          BY <1>0, <2>1, <4>2
    <3>3. QED
        BY <3>1, <3>2
  <2>7. QED
      BY <2>4, <2>5, <2>6 DEF ExclusiveUse
<1>6. CASE Destroy
  <2>1. Len(Q') = 0 /\ held' = held /\ alive' = FALSE
      BY <1>6, EmptySeq DEF Destroy
  <2>2. QED
      BY <2>1 DEF ExclusiveUse, QueueOnce, OneHolder, NoneLost
<1>7. QED
    BY <1>1, <1>2, <1>3, <1>4, <1>5, <1>6 DEF Next, GetObject

\* Two threads are never given the same object, whatever the interleaving of
\* growing, popping and returning (ObjectPool.h:50-72, 39-48).
THEOREM PoolExclusiveUse == Spec => []ExclusiveUse
<1>1. IInv /\ [Next]_vars => IInv'
    BY TypeStep, OwnershipStep DEF IInv
<1>2. IInv => ExclusiveUse
    BY DEF IInv
<1>3. QED
    BY InitIInv, <1>1, <1>2, PTL DEF Spec

\* No object leaves the pool's accounting before the destructor.
THEOREM PoolLosesNone == Spec => []NoneLost
<1>1. IInv /\ [Next]_vars => IInv'
    BY TypeStep, OwnershipStep DEF IInv
<1>2. IInv => NoneLost
    BY DEF IInv
<1>3. QED
    BY InitIInv, <1>1, <1>2, PTL DEF Spec

-----------------------------------------------------------------------------
(* The size of the pool.                                                   *)

\* The objects the threads in the growing loop are still going to make: a pair for each
\* iteration that is left.
Promised ==
    {x \in Threads \X (1..GrowCount) :
        /\ pc[x[1]] \in {"grow", "store", "bump"}
        /\ x[2] > grown[x[1]] + (IF pc[x[1]] = "grow" THEN 0 ELSE 1)}

\* The inductive form of BoundedByDemand.  A thread starts to grow only when every object is
\* in use, and then all the threads together are going to make at most one round each.
Demand ==
    /\ HeldCount(held) <= peak
    /\ \/ created = Sample_Obj_Count /\ \A t \in Threads : pc[t] \in {"idle", "pop"}
       \/ created + Cardinality(Promised) <= peak + Cardinality(Threads) * GrowCount


LEMMA PromisedFinite ==
    /\ IsFiniteSet(Promised) /\ Cardinality(Promised) \in Nat
    /\ Cardinality(Threads) * GrowCount \in Nat
    /\ Cardinality(Promised) <= Cardinality(Threads) * GrowCount
<1>1. IsFiniteSet(1..GrowCount) /\ Cardinality(1..GrowCount) = GrowCount
  BY GrowCountNat, FS_Interval
<1>2. /\ IsFiniteSet(Threads \X (1..GrowCount))
      /\ Cardinality(Threads \X (1..GrowCount)) = Cardinality(Threads) * GrowCount
  BY <1>1, PoolAssumption, FS_Product
<1>3. Promised \subseteq Threads \X (1..GrowCount)
  BY DEF Promised
<1> QED BY <1>2, <1>3, FS_Subset, FS_CardinalityType

\* What fewer objects in use, or fewer promises, count.
LEMMA HeldFewer ==
    ASSUME TypeOK, NEW h \in [Threads -> SUBSET Objects],
           \A t \in Threads : h[t] \subseteq held[t]
    PROVE  HeldCount(h) <= HeldCount(held)
<1>1. IsFiniteSet(Objects)
  BY FS_Interval DEF Objects, TypeOK
<1>2. UNION {held[t] : t \in Threads} \subseteq Objects
  BY DEF TypeOK
<1>3. UNION {h[t] : t \in Threads} \subseteq UNION {held[t] : t \in Threads}
  OBVIOUS
<1> QED BY <1>1, <1>2, <1>3, FS_Subset DEF HeldCount

\* When the queue is empty every object is in use.
LEMMA EmptyAllHeld ==
    ASSUME TypeOK, NoneLost, alive, m_Available_Obj = <<>>
    PROVE  created <= HeldCount(held)
<1>1. IsFiniteSet(1..created) /\ Cardinality(1..created) = created
  BY FS_Interval DEF TypeOK
<1> PICK inUse : inUse = UNION {held[t] : t \in Threads}
    OBVIOUS
<1>2. inUse \subseteq 1..created
  BY DEF TypeOK, Objects
<1>3. 1..created \subseteq inUse
  BY DEF NoneLost, Objects
<1>4. IsFiniteSet(inUse) /\ created <= Cardinality(inUse)
  BY <1>1, <1>2, <1>3, FS_Subset
<1> QED BY <1>4 DEF HeldCount

\* A step that makes no object, starts no round of growth and leaves what is held.
LEMMA DemandKept ==
    ASSUME IInv, Demand, created' = created, HeldCount(held') <= peak', peak <= peak',
           peak' \in Nat, Promised' \subseteq Promised,
           \A t \in Threads : pc[t] \in {"idle", "pop"} => pc'[t] \in {"idle", "pop"}
    PROVE  Demand'
<1> PICK b : b = Cardinality(Threads) * GrowCount
    OBVIOUS
<1>1. b \in Nat /\ IsFiniteSet(Promised) /\ Cardinality(Promised) \in Nat
  BY PromisedFinite
<1>2. /\ IsFiniteSet(Promised') /\ Cardinality(Promised') \in Nat
      /\ Cardinality(Promised') <= Cardinality(Promised)
  BY <1>1, FS_Subset, FS_CardinalityType
<1>3. created \in Nat /\ peak \in Nat
  BY DEF IInv, TypeOK
<1>4. CASE created = Sample_Obj_Count /\ \A t \in Threads : pc[t] \in {"idle", "pop"}
  BY <1>4 DEF Demand
<1>5. CASE created + Cardinality(Promised) <= peak + b
  <2>1. created' + Cardinality(Promised') <= peak' + b
    BY <1>1, <1>2, <1>3, <1>5
  <2> QED BY <2>1 DEF Demand
<1> QED BY <1>4, <1>5 DEF Demand

LEMMA DemandStep == IInv /\ Demand /\ [Next]_vars => Demand'
<1> SUFFICES ASSUME IInv, Demand, [Next]_vars PROVE Demand'
    OBVIOUS
<1>1. /\ created \in Nat /\ peak \in Nat
      /\ pc \in [Threads -> {"idle", "grow", "store", "bump", "pop"}]
      /\ grown \in [Threads -> 0..GrowCount] /\ GrowCount \in Nat
      /\ HeldCount(held) <= peak
  BY GrowCountNat DEF IInv, TypeOK, Demand
<1>2. CASE UNCHANGED vars
  <2>1. Promised' = Promised
    BY <1>2 DEF vars, Promised
  <2> QED BY <1>1, <1>2, <2>1, DemandKept DEF vars
<1>3. ASSUME NEW t \in Threads, CheckEmpty(t) PROVE Demand'
  <2>1. UNCHANGED <<created, held, peak>> /\ alive
    BY <1>3 DEF CheckEmpty
  <2>2. CASE m_Available_Obj = <<>>
    <3> PICK b : b = Cardinality(Threads) * GrowCount
        OBVIOUS
    <3>1. created <= peak
      <4>1. created <= HeldCount(held)
        BY <2>1, <2>2, EmptyAllHeld DEF IInv
      <4>2. HeldCount(held) \in Nat
        BY HeldCountNat DEF IInv, TypeOK
      <4> QED BY <1>1, <4>1, <4>2
    <3>2. Cardinality(Promised') \in Nat /\ b \in Nat /\ Cardinality(Promised') <= b
      <4>1. (Cardinality(Promised) \in Nat /\ Cardinality(Promised) <= b)'
        <5>1. IsFiniteSet(1..GrowCount) /\ Cardinality(1..GrowCount) = GrowCount
          BY GrowCountNat, FS_Interval
        <5>2. /\ IsFiniteSet(Threads \X (1..GrowCount))
              /\ Cardinality(Threads \X (1..GrowCount)) = b
          BY <5>1, PoolAssumption, FS_Product
        <5>3. Promised' \subseteq Threads \X (1..GrowCount)
          BY DEF Promised
        <5> QED BY <5>2, <5>3, FS_Subset, FS_CardinalityType
      <4> QED BY <4>1, PromisedFinite
    <3>3. created + Cardinality(Promised') <= peak + b
      BY <1>1, <3>1, <3>2
    <3> QED BY <1>1, <2>1, <3>3 DEF Demand
  <2>3. CASE m_Available_Obj # <<>>
    <3>1. /\ pc' = [pc EXCEPT ![t] = "pop"] /\ pc[t] = "idle"
          /\ \A u \in Threads : u # t => grown'[u] = grown[u]
      BY <1>1, <1>3, <2>3 DEF CheckEmpty
    <3>2. Promised' \subseteq Promised
      BY <1>1, <3>1 DEF Promised
    <3> QED BY <1>1, <2>1, <3>1, <3>2, DemandKept
  <2> QED BY <2>2, <2>3
<1>4. ASSUME NEW t \in Threads, GrowPush(t) PROVE Demand'
  <2> PICK b : b = Cardinality(Threads) * GrowCount
      OBVIOUS
  <2>1. /\ pc[t] = "grow" /\ grown[t] < GrowCount /\ created' = created + 1
        /\ pc' = [pc EXCEPT ![t] = "store"] /\ UNCHANGED <<grown, held, peak>>
    BY <1>4 DEF GrowPush
  <2>2. <<t, grown[t] + 1>> \in Promised
    BY <1>1, <2>1 DEF Promised
  <2>3. Promised' \subseteq Promised \ {<<t, grown[t] + 1>>}
    <3> SUFFICES ASSUME NEW x \in Promised'
                 PROVE  x \in Promised /\ x # <<t, grown[t] + 1>>
        OBVIOUS
    <3>1. /\ x \in Threads \X (1..GrowCount) /\ pc'[x[1]] \in {"grow", "store", "bump"}
          /\ x[2] > grown[x[1]] + (IF pc'[x[1]] = "grow" THEN 0 ELSE 1)
      BY <2>1 DEF Promised
    <3>2. x[1] \in Threads /\ x[2] \in 1..GrowCount /\ grown[x[1]] \in Nat
      BY <1>1, <3>1
    <3>3. CASE x[1] = t
      <4>1. x[2] > grown[t] + 1
        BY <1>1, <2>1, <3>1, <3>3
      <4>2. x[2] > grown[t]
        BY <3>2, <3>3, <4>1
      <4> QED BY <2>1, <3>1, <3>2, <3>3, <4>1, <4>2 DEF Promised
    <3>4. CASE x[1] # t
      BY <1>1, <2>1, <3>1, <3>2, <3>4 DEF Promised
    <3> QED BY <3>3, <3>4
  <2>4. b \in Nat /\ IsFiniteSet(Promised) /\ Cardinality(Promised) \in Nat
    BY PromisedFinite
  <2>5. /\ IsFiniteSet(Promised \ {<<t, grown[t] + 1>>})
        /\ Cardinality(Promised \ {<<t, grown[t] + 1>>}) = Cardinality(Promised) - 1
    BY <2>2, <2>4, FS_RemoveElement
  <2>6. Cardinality(Promised') \in Nat /\ Cardinality(Promised') <= Cardinality(Promised) - 1
    BY <2>3, <2>5, FS_Subset, FS_CardinalityType
  <2>7. created + Cardinality(Promised) <= peak + b
    BY <2>1 DEF Demand
  <2>8. created' + Cardinality(Promised') <= peak' + b
    BY <1>1, <2>1, <2>4, <2>6, <2>7
  <2> QED BY <1>1, <2>1, <2>8 DEF Demand
<1>5. ASSUME NEW t \in Threads, GrowStore(t) \/ GrowBump(t) \/ GrowDone(t) PROVE Demand'
  <2>1. UNCHANGED <<created, held, peak>>
    BY <1>5 DEF GrowStore, GrowBump, GrowDone
  <2>2. \A u \in Threads : pc[u] \in {"idle", "pop"} => pc'[u] \in {"idle", "pop"}
    BY <1>1, <1>5 DEF GrowStore, GrowBump, GrowDone
  <2>3. Promised' \subseteq Promised
    BY <1>1, <1>5 DEF GrowStore, GrowBump, GrowDone, Promised
  <2> QED BY <1>1, <2>1, <2>2, <2>3, DemandKept
<1>6. ASSUME NEW t \in Threads, TryPop(t) PROVE Demand'
  <2>1. UNCHANGED <<created, grown>> /\ pc' = [pc EXCEPT ![t] = "idle"]
    BY <1>6 DEF TryPop
  <2>2. held' \in [Threads -> SUBSET Objects]
    BY <1>6, TypeStep, <2>1 DEF IInv, TypeOK, Next, GetObject, Objects
  <2>3. HeldCount(held') \in Nat
    BY <1>1, <2>2, HeldCountNat
  <2>4. HeldCount(held') <= peak' /\ peak <= peak' /\ peak' \in Nat
    BY <1>1, <1>6, <2>3 DEF TryPop
  <2>5. Promised' \subseteq Promised
    BY <1>1, <2>1 DEF Promised
  <2> QED BY <1>1, <2>1, <2>4, <2>5, DemandKept
<1>7. ASSUME NEW t \in Threads, NEW o \in held[t], ResetObject(t, o) PROVE Demand'
  <2>1. /\ UNCHANGED <<created, grown, pc, peak>> /\ held' \in [Threads -> SUBSET Objects]
        /\ \A u \in Threads : held'[u] \subseteq held[u]
    BY <1>7 DEF ResetObject, IInv, TypeOK
  <2>2. HeldCount(held') <= HeldCount(held)
    BY <2>1, HeldFewer DEF IInv
  <2>3. HeldCount(held') \in Nat /\ HeldCount(held) \in Nat
    BY <1>1, <2>1, HeldCountNat DEF IInv, TypeOK
  <2>4. Promised' = Promised
    BY <2>1 DEF Promised
  <2> QED BY <1>1, <2>1, <2>2, <2>3, <2>4, DemandKept
<1>8. CASE Destroy
  <2>1. UNCHANGED <<created, held, peak, pc, grown>>
    BY <1>8 DEF Destroy
  <2>2. Promised' = Promised
    BY <2>1 DEF Promised
  <2> QED BY <1>1, <2>1, <2>2, DemandKept
<1> QED BY <1>2, <1>3, <1>4, <1>5, <1>6, <1>7, <1>8 DEF Next, GetObject

LEMMA DemandInit == Init => Demand
<1> SUFFICES ASSUME Init PROVE Demand
    OBVIOUS
<1>1. UNION {held[t] : t \in Threads} = {}
  BY DEF Init
<1>2. HeldCount(held) = 0
  BY <1>1, FS_EmptySet DEF HeldCount
<1> QED BY <1>2 DEF Init, Demand

\* The pool outgrows its sample only by one round of growth of every thread over what was
\* in use at the same time (ObjectPool.h:55-66), for any number of threads and any sizes.
THEOREM PoolBoundedByDemand == Spec => []BoundedByDemand
<1>1. IInv /\ [Next]_vars => IInv'
  BY TypeStep, OwnershipStep DEF IInv
<1>2. IInv /\ Demand => BoundedByDemand
  <2> SUFFICES ASSUME IInv, Demand, created + Cardinality(Promised)
                                      <= peak + Cardinality(Threads) * GrowCount
               PROVE  created <= peak + Cardinality(Threads) * GrowCount
      BY PoolAssumption DEF Demand, BoundedByDemand
  <2> PICK b : b = peak + Cardinality(Threads) * GrowCount
      OBVIOUS
  <2>1. created \in Nat /\ Cardinality(Promised) \in Nat /\ b \in Nat
    BY PromisedFinite DEF IInv, TypeOK
  <2>2. created <= b
    BY <2>1
  <2> QED BY <2>2
<1> QED BY InitIInv, <1>1, <1>2, DemandInit, DemandStep, PTL DEF Spec

-----------------------------------------------------------------------------
(* MemoryPool, for every set of threads, every sample count and every      *)
(* share of it that leaves a size at least one block per growth.           *)

\* A thread gives back a block it has.
ReturnsHeld == \A t \in Callers : stage[t] = "reset" => blocks[t][size[t]] > 0

\* The inductive invariant: a thread uses a queue only under its accessor.
BlockInv == MemoryTypeOK /\ ReturnsHeld /\ WorksUnderAccessor /\ PopFindsBlock

\* The growing loop adds at least one block (MemoryPoolAssumption).
LEMMA GrowsByOne ==
    ASSUME NEW k \in Sizes
    PROVE  /\ Block_Count(k) \in Nat
           /\ Block_Count(k) \div BlockDivisor \in Nat \ {0}
  BY MemoryPoolAssumption DEF Block_Count

LEMMA InitBlocks == ASSUME MemoryInit PROVE BlockInv
  BY MemoryPoolAssumption, GrowsByOne
  DEF MemoryInit, BlockInv, MemoryTypeOK, ReturnsHeld, WorksUnderAccessor, PopFindsBlock

LEMMA StepBlocks == ASSUME BlockInv, [MemoryNext]_memoryVars PROVE BlockInv'
<1> USE DEF BlockInv, MemoryTypeOK, ReturnsHeld, WorksUnderAccessor, PopFindsBlock
<1>1. CASE UNCHANGED memoryVars
    BY <1>1 DEF memoryVars
<1>2. ASSUME NEW t \in Callers, NEW k \in Sizes, GetMemory(t, k)
      PROVE  BlockInv'
    BY <1>2 DEF GetMemory
<1>3. ASSUME NEW t \in Callers, NEW k \in Sizes, ResetMemory(t, k)
      PROVE  BlockInv'
    BY <1>3 DEF ResetMemory
<1>4. ASSUME NEW t \in Callers, FindAccessor(t)
      PROVE  BlockInv'
    BY <1>4, MemoryPoolAssumption DEF FindAccessor
<1>5. ASSUME NEW t \in Callers, FindMemoryGrow(t)
      PROVE  BlockInv'
  <2>1. Block_Count(size[t]) \div BlockDivisor \in Nat \ {0}
      BY GrowsByOne
  <2>2. MemoryTypeOK'
    <3>1. queue' \in [Sizes -> Nat]
        BY <1>5, <2>1 DEF FindMemoryGrow
    <3>2. allocated' \in [Sizes -> Nat]
      <4>1. PICK n \in Nat : n = Block_Count(size[t]) \div BlockDivisor
          BY <2>1
      <4>2. allocated' \in {allocated, [allocated EXCEPT ![size[t]] = @ + n]}
          BY <1>5, <4>1 DEF FindMemoryGrow
      <4>3. QED
          BY <4>2
    <3>3. stage' \in [Callers -> {"idle", "get", "check", "pop", "reset"}]
        BY <1>5 DEF FindMemoryGrow
    <3>4. QED
        BY <1>5, <3>1, <3>2, <3>3 DEF FindMemoryGrow
  <2>3. WorksUnderAccessor'
      BY <1>5 DEF FindMemoryGrow
  <2>4. PopFindsBlock'
      BY <1>5, <2>1 DEF FindMemoryGrow
  <2>5. ReturnsHeld'
      BY <1>5 DEF FindMemoryGrow
  <2>6. QED
      BY <2>2, <2>3, <2>4, <2>5
<1>6. ASSUME NEW t \in Callers, FindMemoryPop(t)
      PROVE  BlockInv'
  <2>1. MemoryTypeOK'
      BY <1>6 DEF FindMemoryPop
  <2>2. WorksUnderAccessor'
      BY <1>6 DEF FindMemoryPop
  <2>3. PopFindsBlock'
      BY <1>6 DEF FindMemoryPop
  <2>4. ReturnsHeld'
      BY <1>6 DEF FindMemoryPop
  <2>5. QED
      BY <2>1, <2>2, <2>3, <2>4
<1>7. ASSUME NEW t \in Callers, ResetMemoryPush(t)
      PROVE  BlockInv'
  <2>1. MemoryTypeOK'
    <3>1. blocks' \in [Callers -> [Sizes -> Nat]]
        BY <1>7 DEF ResetMemoryPush
    <3>2. QED
        BY <1>7, <3>1 DEF ResetMemoryPush
  <2>2. WorksUnderAccessor'
      BY <1>7 DEF ResetMemoryPush
  <2>3. PopFindsBlock'
      BY <1>7 DEF ResetMemoryPush
  <2>4. ReturnsHeld'
      BY <1>7 DEF ResetMemoryPush
  <2>5. QED
      BY <2>1, <2>2, <2>3, <2>4
<1>8. QED
    BY <1>1, <1>2, <1>3, <1>4, <1>5, <1>6, <1>7 DEF MemoryNext, Step

\* FindMemory's spin on try_pop (MemoryPool.cpp:48) always ends at once: the
\* tested queue cannot be emptied by another thread under the accessor.
THEOREM MemoryPoolNeverSpins == MemorySpec => []PopFindsBlock
<1>1. BlockInv => PopFindsBlock
    BY DEF BlockInv
<1>2. MemoryInit => BlockInv
    BY InitBlocks
<1>3. BlockInv /\ [MemoryNext]_memoryVars => BlockInv'
    BY StepBlocks
<1>4. QED
    BY <1>1, <1>2, <1>3, PTL DEF MemorySpec
=============================================================================
