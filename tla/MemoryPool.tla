----------------------------- MODULE MemoryPool -----------------------------
(***************************************************************************)
(* MemoryPool (DHNetWork/MemoryPool.cpp): a tbb::concurrent_hash_map from  *)
(* the block sizes 4, 8, ..., 512 to queues of free blocks.  GetMemory and *)
(* ResetMemory hold the accessor (the write lock) of their size for as     *)
(* long as they use its queue, the growing loop and the spin on try_pop    *)
(* included.  Blocks of one size are interchangeable, so a queue is the    *)
(* number of blocks in it.                                                 *)
(***************************************************************************)
EXTENDS Naturals

CONSTANTS
    Callers,        \* the threads that use the pool
    Sizes,          \* the registered block sizes
    Samples,        \* _Sample_Memory_Count, the constructor's argument
    Share,          \* size -> 1, 2 or 4: the size gets Samples / Share blocks
    BlockDivisor,   \* 10 in the code: a used-up size grows by a tenth
    MaxBlocks,      \* bound: blocks of one size a thread holds
    NoThread

\* The last conjunct is what the code relies on: the smallest share of the
\* samples (500 of the server's 2000) still has a tenth.
ASSUME MemoryPoolAssumption ==
    /\ NoThread \notin Callers
    /\ Samples \in Nat
    /\ Share \in [Sizes -> Nat \ {0}]
    /\ BlockDivisor \in Nat \ {0}
    /\ MaxBlocks \in Nat
    /\ \A k \in Sizes : (Samples \div Share[k]) \div BlockDivisor >= 1

VARIABLES
    queue,      \* size -> number of free blocks (m_Memory_Pool)
    accessor,   \* size -> the thread that has its accessor, or NoThread
    allocated,  \* size -> number of blocks allocated
    blocks,     \* thread -> size -> number of blocks in use
    stage,      \* thread -> step of the call it is in
    size        \* thread -> the size argument of that call

memoryVars == <<queue, accessor, allocated, blocks, stage, size>>

\* m_4Byte_Block_Count ... m_512Byte_Block_Count.
Block_Count(k) == Samples \div Share[k]

\* The constructor: CreateMemory for each size.
MemoryInit ==
    /\ queue = [k \in Sizes |-> Block_Count(k)]
    /\ accessor = [k \in Sizes |-> NoThread]
    /\ allocated = [k \in Sizes |-> Block_Count(k)]
    /\ blocks = [t \in Callers |-> [k \in Sizes |-> 0]]
    /\ stage = [t \in Callers |-> "idle"]
    /\ size \in [Callers -> Sizes]

\* GetMemory(k) for a registered size; any other size returns nullptr and
\* touches nothing.
GetMemory(t, k) ==
    /\ stage[t] = "idle"
    /\ blocks[t][k] < MaxBlocks
    /\ stage' = [stage EXCEPT ![t] = "get"]
    /\ size' = [size EXCEPT ![t] = k]
    /\ UNCHANGED <<queue, accessor, allocated, blocks>>

\* Mutant of FindAccessor: the accessor does not lock.
FindUnlocked(t) ==
    /\ stage[t] = "get"
    /\ accessor' = [accessor EXCEPT ![size[t]] = t]
    /\ stage' = [stage EXCEPT ![t] = "check"]
    /\ UNCHANGED <<queue, allocated, blocks, size>>

\* FindMemory: find(accessor) waits until no other thread has the accessor.
FindAccessor(t) ==
    /\ stage[t] = "get"
    /\ accessor[size[t]] = NoThread
    /\ accessor' = [accessor EXCEPT ![size[t]] = t]
    /\ stage' = [stage EXCEPT ![t] = "check"]
    /\ UNCHANGED <<queue, allocated, blocks, size>>

\* The emptiness test and the growing loop.
FindMemoryGrow(t) ==
    LET k == size[t]
        n == Block_Count(k) \div BlockDivisor
    IN  /\ stage[t] = "check"
        /\ IF queue[k] = 0
           THEN /\ queue' = [queue EXCEPT ![k] = n]
                /\ allocated' = [allocated EXCEPT ![k] = @ + n]
           ELSE UNCHANGED <<queue, allocated>>
        /\ stage' = [stage EXCEPT ![t] = "pop"]
        /\ UNCHANGED <<accessor, blocks, size>>

\* Mutant of FindMemoryPop: the accessor is not given back.
PopKeepsAccessor(t) ==
    LET k == size[t]
    IN  /\ stage[t] = "pop"
        /\ queue[k] > 0
        /\ queue' = [queue EXCEPT ![k] = @ - 1]
        /\ blocks' = [blocks EXCEPT ![t][k] = @ + 1]
        /\ stage' = [stage EXCEPT ![t] = "idle"]
        /\ UNCHANGED <<accessor, allocated, size>>

\* "while (!try_pop(...)) {}" spins with the accessor held while the queue is
\* empty; a pop returns from GetMemory, whose scope gives the accessor back.
FindMemoryPop(t) ==
    LET k == size[t]
    IN  /\ stage[t] = "pop"
        /\ queue[k] > 0
        /\ queue' = [queue EXCEPT ![k] = @ - 1]
        /\ blocks' = [blocks EXCEPT ![t][k] = @ + 1]
        /\ accessor' = [accessor EXCEPT ![k] = NoThread]
        /\ stage' = [stage EXCEPT ![t] = "idle"]
        /\ UNCHANGED <<allocated, size>>

\* ResetMemory(p, k): k is the size the block was asked with.
ResetMemory(t, k) ==
    /\ stage[t] = "idle"
    /\ blocks[t][k] > 0
    /\ stage' = [stage EXCEPT ![t] = "reset"]
    /\ size' = [size EXCEPT ![t] = k]
    /\ UNCHANGED <<queue, accessor, allocated, blocks>>

\* It waits for the same accessor, clears the block and queues it.
ResetMemoryPush(t) ==
    LET k == size[t]
    IN  /\ stage[t] = "reset"
        /\ accessor[k] = NoThread
        /\ queue' = [queue EXCEPT ![k] = @ + 1]
        /\ blocks' = [blocks EXCEPT ![t][k] = @ - 1]
        /\ stage' = [stage EXCEPT ![t] = "idle"]
        /\ UNCHANGED <<accessor, allocated, size>>

Step(t) == FindAccessor(t) \/ FindMemoryGrow(t) \/ FindMemoryPop(t)
           \/ ResetMemoryPush(t)

MemoryNext == \E t \in Callers : \/ \E k \in Sizes : GetMemory(t, k) \/ ResetMemory(t, k)
                           \/ Step(t)

MemorySpec == MemoryInit /\ [][MemoryNext]_memoryVars

\* A thread inside a call keeps running, and one that waits for an accessor
\* gets it if it is free again and again.  No thread has to return a block.
MemoryFairSpec ==
    /\ MemorySpec
    /\ \A t \in Callers : /\ WF_memoryVars(FindMemoryGrow(t) \/ FindMemoryPop(t))
                          /\ SF_memoryVars(FindAccessor(t))
                          /\ SF_memoryVars(ResetMemoryPush(t))

-----------------------------------------------------------------------------
(* Properties.                                                             *)

\* Types of the variables.
MemoryTypeOK ==
    /\ queue \in [Sizes -> Nat]
    /\ accessor \in [Sizes -> Callers \cup {NoThread}]
    /\ allocated \in [Sizes -> Nat]
    /\ blocks \in [Callers -> [Sizes -> Nat]]
    /\ stage \in [Callers -> {"idle", "get", "check", "pop", "reset"}]
    /\ size \in [Callers -> Sizes]

\* A thread that works on a queue has the accessor of that size.
WorksUnderAccessor ==
    \A t \in Callers : stage[t] \in {"check", "pop"} => accessor[size[t]] = t

\* FindMemory never spins on try_pop: under the accessor the queue it has
\* tested, and grown if it was empty, still has a block.  (If it could spin it
\* would do so for ever, because ResetMemory needs the accessor it holds.)
PopFindsBlock ==
    \A t \in Callers : stage[t] = "pop" => queue[size[t]] > 0

\* Every GetMemory and every ResetMemory returns, though no thread is obliged
\* to give a block back.
CallsReturn == \A t \in Callers : stage[t] # "idle" ~> stage[t] = "idle"
=============================================================================
