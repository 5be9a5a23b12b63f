------------------------------ MODULE ClientMap ------------------------------
(***************************************************************************)
(* g_Connected_Client as tbb::concurrent_hash_map keeps it                 *)
(* (oneapi/tbb/concurrent_hash_map.h).  When an insertion has filled the   *)
(* table, the number of buckets grows and the new ones are marked          *)
(* rehash_req: the nodes that belong there stay in the old bucket until    *)
(* the first lookup of the new one moves them.  An iterator takes no lock  *)
(* and walks the lists as it finds them.                                   *)
(*                                                                         *)
(* A lookup, an insertion or an erasure is one step: it holds the locks of *)
(* the buckets it changes.  A node is the key with the connection it       *)
(* stands for.                                                             *)
(***************************************************************************)
EXTENDS Naturals, SequencesExt

CONSTANTS
    Slots,          \* the keys: SOCKET values
    Hash,           \* key -> its hash
    BucketCounts    \* the numbers of buckets, powers of two (2, 256, 512, ...)

\* bound: 2^16 buckets
Powers == {1, 2, 4, 8, 16, 32, 64, 128, 256, 512, 1024, 2048, 4096, 8192, 16384, 32768, 65536}

ASSUME MapAssumption ==
    /\ Hash \in [Slots -> Nat]
    /\ BucketCounts \in Seq(Powers) /\ BucketCounts # <<>>
    /\ \A i, j \in 1..Len(BucketCounts) : i < j => BucketCounts[i] < BucketCounts[j]

VARIABLES
    buckets,    \* index -> its list, or rehash_req (an unused bucket too)
    my_mask,
    my_size

mapVars == <<buckets, my_mask, my_size>>

Bucket(list) == [rehash_req |-> FALSE, list |-> list]
RehashReq == [rehash_req |-> TRUE, list |-> <<>>]

Indexes == 0..BucketCounts[Len(BucketCounts)] - 1

MapInit ==
    /\ buckets = [i \in Indexes |->
                     IF i < BucketCounts[1] THEN Bucket(<<>>) ELSE RehashReq]
    /\ my_mask = BucketCounts[1] - 1
    /\ my_size = 0

Listed(b) == {b.list[i] : i \in 1..Len(b.list)}
Nodes == UNION {Listed(buckets[i]) : i \in Indexes}

-----------------------------------------------------------------------------
(* rehash_bucket: a new bucket takes its nodes from the bucket whose index *)
(* has the topmost bit cleared, which may itself have to be rehashed.      *)

TopBit(i) == CHOOSE p \in Powers : p <= i /\ i < 2 * p
Parent(i) == i - TopBit(i)

Belongs(n, i) == Hash[n.key] % (2 * TopBit(i)) = i

\* The list once the nodes that are not in keep have been unlinked.
Unlink(list, keep) ==
    LET left[p \in 0..Len(list)] ==
            IF p = 0 THEN <<>>
            ELSE IF list[p] \in keep THEN Append(left[p - 1], list[p]) ELSE left[p - 1]
    IN  left[Len(list)]

Split(bs, i) ==
    LET old == bs[Parent(i)]
        moved == {n \in Listed(old) : Belongs(n, i)}
    IN  [bs EXCEPT ![Parent(i)] = Bucket(Unlink(old.list, Listed(old) \ moved)),
                   ![i] = Bucket(Reverse(Unlink(old.list, moved)))]

\* Mutant of Acquire: only the bucket itself is rehashed, not the one its nodes come from.
AcquireShallow(i) == IF buckets[i].rehash_req THEN Split(buckets, i) ELSE buckets

\* The buckets once bucket_accessor has acquired bucket i.
Acquire(i) ==
    LET rehashed[j \in Indexes] ==
            IF buckets[j].rehash_req THEN Split(rehashed[Parent(j)], j) ELSE buckets
    IN  rehashed[i]

-----------------------------------------------------------------------------
Home(s) == Hash[s] % (my_mask + 1)

\* The nodes that a lookup of s finds, and the buckets it leaves.
Lookup(s) == {n \in Listed(Acquire(Home(s))[Home(s)]) : n.key = s}
Find(s) == buckets' = Acquire(Home(s)) /\ UNCHANGED <<my_mask, my_size>>

\* insert_new_node and enable_segment.
Grow(size) ==
    IF size >= my_mask /\ \E i \in 1..Len(BucketCounts) : BucketCounts[i] > my_mask + 1
    THEN LET i == CHOOSE j \in 1..Len(BucketCounts) - 1 : BucketCounts[j] = my_mask + 1
         IN  BucketCounts[i + 1] - 1
    ELSE my_mask

Insert(n) ==
    /\ buckets' = [Acquire(Home(n.key)) EXCEPT ![Home(n.key)].list = <<n>> \o @]
    /\ my_size' = my_size + 1
    /\ my_mask' = Grow(my_size + 1)

Erase(n) ==
    /\ LET acquired == Acquire(Home(n.key))
           i == Home(n.key)
       IN  buckets' = [acquired EXCEPT
                          ![i].list = Unlink(@, Listed(acquired[i]) \ {n})]
    /\ my_size' = my_size - 1
    /\ UNCHANGED my_mask

-----------------------------------------------------------------------------
(* hash_map_iterator.  at.node = <<>> is end().                            *)

EndIter == [my_index |-> 0, my_node |-> <<>>]

\* Mutant of AdvanceFrom: the last bucket is left out.
AdvanceShort(k) ==
    LET full == {j \in k..my_mask : j < my_mask /\ buckets[j].list # <<>>}
    IN  IF full = {} THEN EndIter
        ELSE LET j == CHOOSE j \in full : \A i \in full : j <= i
             IN  [my_index |-> j, my_node |-> <<Head(buckets[j].list)>>]

\* advance_to_next_bucket: the first node of the buckets from k on.
AdvanceFrom(k) ==
    LET full == {j \in k..my_mask : buckets[j].list # <<>>}
    IN  IF full = {} THEN EndIter
        ELSE LET j == CHOOSE j \in full : \A i \in full : j <= i
             IN  [my_index |-> j, my_node |-> <<Head(buckets[j].list)>>]

BeginIter == AdvanceFrom(0)

\* operator++: the next node of the list in which the node is now; at the end
\* of that list, the buckets after my_index.
Increment(it) ==
    LET i == CHOOSE i \in Indexes : it.my_node[1] \in Listed(buckets[i])
        l == buckets[i].list
        p == CHOOSE p \in 1..Len(l) : l[p] = it.my_node[1]
    IN  IF p < Len(l) THEN [it EXCEPT !.my_node = <<l[p + 1]>>]
        ELSE AdvanceFrom(it.my_index + 1)

\* Every node is where a lookup with the present mask looks for it first.
Settled == \A i \in Indexes : \A n \in Listed(buckets[i]) : Home(n.key) = i
=============================================================================
