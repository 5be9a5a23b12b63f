------------------------ MODULE ServerMessagesProofs -------------------------
(***************************************************************************)
(* Proofs about ServerMessages and the hash map it is built on, for any    *)
(* number of sockets, clients, calls and copies, any hash function and any *)
(* table that grows through powers of two up to 2^16 buckets:              *)
(*   - MessagesMapFinds: the map keeps every client in the one bucket a    *)
(*     lookup ends in, however far its lazy rehashing has come.            *)
(*     Invariant: Good, the table's own, held by every bucket operation;   *)
(*   - MessagesCopiesAccounted: every copy Send made is at one place.      *)
(*     Invariant: CopyInv;                                                 *)
(*   - MessagesSettledBroadcast: a broadcast over a settled table during   *)
(*     which nobody joins queues one copy for each client that stays.      *)
(*     Invariant: BroadcastInv;                                            *)
(*   - MessagesTypeOK.  Invariant: Basics, CopyInv and SizeInv.            *)
(* Basics (the map, the application's call, the queue) is the ground the   *)
(* four stand on.                                                          *)
(***************************************************************************)
EXTENDS ServerMessages, FiniteSetTheorems, SequenceTheorems, NaturalsInduction,
        WellFoundedInduction, TLAPS

-----------------------------------------------------------------------------
(* Numbers.                                                                *)

\* A set of numbers that is not empty has a least one.
LEMMA SmallestNat ==
    ASSUME NEW T, T \subseteq Nat, T # {}
    PROVE  \E x \in T : \A y \in T : x <= y
<1>1. PICK R : R = OpToRel(<, Nat)
    OBVIOUS
<1>2. IsWellFoundedOn(R, Nat)
    BY <1>1, NatLessThanWellFounded
<1>3. PICK x \in T : \A y \in T : ~(<<y, x>> \in R)
    BY <1>2, WFMin
<1>4. \A y \in T : y < x => <<y, x>> \in R
    BY <1>1 DEF OpToRel
<1>5. ASSUME NEW y \in T PROVE x <= y
  <2>1. ~(y < x)
      BY <1>3, <1>4
  <2>2. x \in Nat /\ y \in Nat
      OBVIOUS
  <2>3. QED
      BY ONLY <2>1, <2>2
<1>6. QED
    BY <1>5

-----------------------------------------------------------------------------
(* Unlink.                                                                 *)

\* a is in the list, and before an occurrence of b.
Has(l, a) == \E p \in 1..Len(l) : l[p] = a
Before(l, a, b) == \E p, q \in 1..Len(l) : p < q /\ l[p] = a /\ l[q] = b

\* f gives the list after each of its first m nodes.
Unlinking(f, l, keep, m) ==
    f = [p \in 0..m |->
            IF p = 0 THEN <<>>
            ELSE IF l[p] \in keep THEN Append(f[p - 1], l[p]) ELSE f[p - 1]]

\* The recursive function in Unlink exists.
LEMMA UnlinkingExists ==
    ASSUME NEW T, NEW l \in Seq(T), NEW keep
    PROVE  \E f : Unlinking(f, l, keep, Len(l))
<1> DEFINE Bad == {m \in 0..Len(l) : ~\E f : Unlinking(f, l, keep, m)}
<1>1. Len(l) \in Nat
    OBVIOUS
<1>2. ASSUME Bad # {} PROVE FALSE
  <2>0. Bad \subseteq Nat
      BY <1>1
  <2>1. PICK m \in Bad : \A y \in Bad : m <= y
    <3> HIDE DEF Bad
    <3>1. QED
        BY <2>0, <1>2, SmallestNat
  <2>2. m \in 0..Len(l) /\ m \in Nat
      BY <1>1
  <2>3. CASE m = 0
    <3>1. PICK f : f = [p \in 0..0 |-> <<>>]
        OBVIOUS
    <3>2. Unlinking(f, l, keep, 0)
        BY <3>1 DEF Unlinking
    <3>3. QED
        BY <2>3, <3>2
  <2>4. CASE m # 0
    <3>1. m - 1 \in 0..Len(l) /\ ~(m <= m - 1)
        BY <2>2, <2>4, <1>1
    <3>2. m - 1 \notin Bad
        BY <2>1, <3>1
    <3>3. PICK f : Unlinking(f, l, keep, m - 1)
        BY <3>1, <3>2
    <3>4. PICK g : g = [p \in 0..m |-> IF p < m THEN f[p]
                            ELSE IF l[m] \in keep THEN Append(f[m - 1], l[m]) ELSE f[m - 1]]
        OBVIOUS
    <3>5. DOMAIN f = 0..m - 1
        BY <3>3 DEF Unlinking
    <3>6. \A p \in 0..m - 1 : g[p] = f[p]
        BY <3>4, <2>2, <2>4
    <3>7. \A p \in 0..m : g[p] =
            IF p = 0 THEN <<>>
            ELSE IF l[p] \in keep THEN Append(g[p - 1], l[p]) ELSE g[p - 1]
      <4>1. ASSUME NEW p \in 0..m - 1
            PROVE g[p] =
                    IF p = 0 THEN <<>>
                    ELSE IF l[p] \in keep THEN Append(g[p - 1], l[p]) ELSE g[p - 1]
        <5>1. f[p] = IF p = 0 THEN <<>>
                     ELSE IF l[p] \in keep THEN Append(f[p - 1], l[p]) ELSE f[p - 1]
            BY <3>3 DEF Unlinking
        <5>2. p = 0 \/ p - 1 \in 0..m - 1
            BY <2>2
        <5>3. QED
            BY <5>1, <5>2, <3>6
      <4>2. g[m] = IF l[m] \in keep THEN Append(g[m - 1], l[m]) ELSE g[m - 1]
          BY <3>4, <3>6, <2>2, <2>4
      <4>3. QED
          BY <4>1, <4>2, <2>2, <2>4
    <3>8. Unlinking(g, l, keep, m)
        BY <3>4, <3>7 DEF Unlinking
    <3>9. QED
        BY <3>8
  <2>5. QED
      BY <2>3, <2>4
<1>3. QED
    BY <1>1, <1>2

LEMMA UnlinkIs ==
    ASSUME NEW T, NEW l \in Seq(T), NEW keep
    PROVE  \E f : Unlinking(f, l, keep, Len(l)) /\ Unlink(l, keep) = f[Len(l)]
<1>1. PICK f : f = CHOOSE g : Unlinking(g, l, keep, Len(l))
    OBVIOUS
<1>2. Unlinking(f, l, keep, Len(l))
    BY <1>1, UnlinkingExists
<1>3. Unlink(l, keep) = f[Len(l)]
    BY <1>1 DEF Unlink, Unlinking
<1>4. QED
    BY <1>2, <1>3

\* What is left of the first m nodes: those in keep, in their order.
LeftOf(r, l, keep, m) ==
    /\ \A a : Has(r, a) <=> a \in keep /\ \E p \in 1..m : l[p] = a
    /\ \A a, b : Before(r, a, b) <=>
          a \in keep /\ b \in keep /\ \E p, q \in 1..m : p < q /\ l[p] = a /\ l[q] = b

LEMMA AppendHas ==
    ASSUME NEW T, NEW l \in Seq(T), NEW x \in T
    PROVE  /\ Append(l, x) \in Seq(T)
           /\ \A a : Has(Append(l, x), a) <=> Has(l, a) \/ a = x
           /\ \A a, b : Before(Append(l, x), a, b) <=>
                 Before(l, a, b) \/ (Has(l, a) /\ b = x)
<1>1. PICK n \in Nat : n = Len(l)
    OBVIOUS
<1>2. PICK r : r = Append(l, x)
    OBVIOUS
<1>3. r \in Seq(T) /\ Len(r) = n + 1 /\ (\A i \in 1..n : r[i] = l[i]) /\ r[n + 1] = x
    BY <1>1, <1>2, AppendProperties
<1>4. \A i \in 1..n + 1 : i \in 1..n \/ i = n + 1
    BY <1>1
<1>5. \A i \in 1..n : i \in 1..n + 1 /\ i < n + 1 /\ ~(n + 1 < i)
    BY <1>1
<1>6. n + 1 \in 1..n + 1 /\ ~(n + 1 < n + 1)
    BY <1>1
<1>7. \A a : Has(r, a) <=> Has(l, a) \/ a = x
    BY <1>1, <1>3, <1>4, <1>5, <1>6 DEF Has
<1>8. \A a, b : Before(r, a, b) <=> Before(l, a, b) \/ (Has(l, a) /\ b = x)
    BY <1>1, <1>3, <1>4, <1>5, <1>6 DEF Has, Before
<1>9. QED
    BY <1>2, <1>3, <1>7, <1>8

LEMMA UnlinkFacts ==
    ASSUME NEW T, NEW l \in Seq(T), NEW keep
    PROVE  /\ Unlink(l, keep) \in Seq(T)
           /\ \A a : Has(Unlink(l, keep), a) <=> a \in keep /\ Has(l, a)
           /\ \A a, b : Before(Unlink(l, keep), a, b) <=>
                 a \in keep /\ b \in keep /\ Before(l, a, b)
<1>1. PICK f : Unlinking(f, l, keep, Len(l)) /\ Unlink(l, keep) = f[Len(l)]
    BY UnlinkIs
<1>2. PICK n \in Nat : n = Len(l)
    OBVIOUS
<1> DEFINE Bad == {m \in 0..n : ~(f[m] \in Seq(T) /\ LeftOf(f[m], l, keep, m))}
<1>3. ASSUME Bad # {} PROVE FALSE
  <2>1. Bad \subseteq Nat
      BY <1>2
  <2>2. PICK m \in Bad : \A y \in Bad : m <= y
    <3> HIDE DEF Bad
    <3>1. QED
        BY <2>1, <1>3, SmallestNat
  <2>3. m \in 0..n /\ m \in Nat
      BY <1>2
  <2>4. CASE m = 0
    <3>1. f[0] = <<>>
        BY <1>1, <1>2 DEF Unlinking
    <3>2. \A a, b : ~Has(<<>>, a) /\ ~Before(<<>>, a, b)
        BY DEF Has, Before
    <3>3. \A p : p \notin 1..0
        OBVIOUS
    <3>4. LeftOf(f[0], l, keep, 0)
        BY <3>1, <3>2, <3>3 DEF LeftOf
    <3>5. <<>> \in Seq(T)
        BY EmptySeq
    <3>6. QED
        BY ONLY <2>4, <2>2, <3>1, <3>4, <3>5
  <2>5. CASE m # 0
    <3>1. m - 1 \in 0..n /\ ~(m <= m - 1) /\ m \in 1..n /\ m - 1 \in Nat
        BY <2>3, <2>5, <1>2
    <3>2. f[m - 1] \in Seq(T) /\ LeftOf(f[m - 1], l, keep, m - 1)
        BY <2>2, <3>1
    <3>3. f[m] = IF l[m] \in keep THEN Append(f[m - 1], l[m]) ELSE f[m - 1]
        BY <1>1, <1>2, <2>3, <2>5 DEF Unlinking
    <3>4. \A i \in 1..m : i \in 1..m - 1 \/ i = m
        BY <3>1
    <3>5. \A i \in 1..m - 1 : i \in 1..m /\ i < m /\ ~(m < i)
        BY <3>1
    <3>6. m \in 1..m /\ ~(m < m)
        BY <3>1
    <3>7. l[m] \in T
        BY <3>1, <1>2
    <3>8. CASE l[m] \in keep
      <4>1. PICK r : r = f[m - 1]
          OBVIOUS
      <4>2. PICK x : x = l[m]
          OBVIOUS
      <4>3. /\ Append(r, x) \in Seq(T)
            /\ \A a : Has(Append(r, x), a) <=> Has(r, a) \/ a = x
            /\ \A a, b : Before(Append(r, x), a, b) <=>
                  Before(r, a, b) \/ (Has(r, a) /\ b = x)
          BY <3>2, <3>7, <4>1, <4>2, AppendHas
      <4>4. \A a : Has(r, a) <=> a \in keep /\ \E p \in 1..m - 1 : l[p] = a
          BY <3>2, <4>1 DEF LeftOf
      <4>5. \A a, b : Before(r, a, b) <=>
                a \in keep /\ b \in keep /\ \E p, q \in 1..m - 1 : p < q /\ l[p] = a /\ l[q] = b
          BY <3>2, <4>1 DEF LeftOf
      <4>6. \A a : Has(Append(r, x), a) <=> a \in keep /\ \E p \in 1..m : l[p] = a
          BY ONLY <4>2, <4>3, <4>4, <3>4, <3>5, <3>6, <3>8
      <4>7. \A a, b : Before(Append(r, x), a, b) <=>
                a \in keep /\ b \in keep /\ \E p, q \in 1..m : p < q /\ l[p] = a /\ l[q] = b
          BY ONLY <4>2, <4>3, <4>4, <4>5, <3>4, <3>5, <3>6, <3>8
      <4>8. f[m] \in Seq(T) /\ LeftOf(f[m], l, keep, m)
          BY <3>3, <3>8, <4>1, <4>2, <4>3, <4>6, <4>7 DEF LeftOf
      <4>9. QED
          BY <4>8
    <3>9. CASE l[m] \notin keep
      <4>1. LeftOf(f[m - 1], l, keep, m)
          BY <3>2, <3>9, <3>4, <3>5, <3>6 DEF LeftOf
      <4>2. QED
          BY <3>2, <3>3, <3>9, <4>1
    <3>10. QED
        BY <3>8, <3>9
  <2>6. QED
      BY <2>4, <2>5
<1>4. f[n] \in Seq(T) /\ LeftOf(f[n], l, keep, n)
    BY <1>2, <1>3
<1>5. QED
    BY <1>1, <1>2, <1>4 DEF LeftOf, Has, Before

LEMMA ReverseFacts ==
    ASSUME NEW T, NEW l \in Seq(T)
    PROVE  /\ Reverse(l) \in Seq(T)
           /\ \A a : Has(Reverse(l), a) <=> Has(l, a)
           /\ \A a, b : Before(Reverse(l), a, b) <=> Before(l, b, a)
<1>1. PICK n \in Nat : n = Len(l)
    OBVIOUS
<1>2. PICK r : r = Reverse(l)
    OBVIOUS
<1>3. r = [i \in 1..n |-> l[(n - i) + 1]]
    BY <1>1, <1>2 DEF Reverse
<1>4. \A i \in 1..n : (n - i) + 1 \in 1..n /\ (n - ((n - i) + 1)) + 1 = i
    BY <1>1
<1>5. \A i, j \in 1..n : i < j <=> (n - j) + 1 < (n - i) + 1
    BY <1>1
<1>6. r \in Seq(T) /\ Len(r) = n
    BY <1>1, <1>3, <1>4
<1>7. \A i \in 1..n : r[i] = l[(n - i) + 1] /\ l[i] = r[(n - i) + 1]
    BY <1>3, <1>4
<1>8. \A a : Has(r, a) <=> Has(l, a)
    BY <1>1, <1>4, <1>6, <1>7 DEF Has
<1>9. ASSUME NEW a, NEW b, Before(r, a, b) PROVE Before(l, b, a)
  <2>1. PICK p, q \in 1..n : p < q /\ r[p] = a /\ r[q] = b
      BY <1>6, <1>9 DEF Before
  <2>2. PICK i, j \in 1..n : i = (n - p) + 1 /\ j = (n - q) + 1
      BY <1>4
  <2>3. j < i /\ l[i] = a /\ l[j] = b
      BY <1>5, <1>7, <2>1, <2>2
  <2>4. QED
      BY <1>1, <2>3 DEF Before
<1>10. ASSUME NEW a, NEW b, Before(l, b, a) PROVE Before(r, a, b)
  <2>1. PICK p, q \in 1..n : p < q /\ l[p] = b /\ l[q] = a
      BY <1>1, <1>10 DEF Before
  <2>2. PICK i, j \in 1..n : i = (n - p) + 1 /\ j = (n - q) + 1
      BY <1>4
  <2>3. j < i /\ r[i] = b /\ r[j] = a
      BY <1>5, <1>7, <2>1, <2>2
  <2>4. QED
      BY <1>6, <2>3 DEF Before
<1>11. QED
    BY <1>2, <1>6, <1>8, <1>9, <1>10

\* insert_new_node puts the node in front.
LEMMA ConsFacts ==
    ASSUME NEW T, NEW l \in Seq(T), NEW x \in T
    PROVE  /\ <<x>> \o l \in Seq(T)
           /\ \A a : Has(<<x>> \o l, a) <=> Has(l, a) \/ a = x
           /\ \A a, b : Before(<<x>> \o l, a, b) <=> Before(l, a, b) \/ (a = x /\ Has(l, b))
<1>1. PICK n \in Nat : n = Len(l)
    OBVIOUS
<1>2. PICK r : r = <<x>> \o l
    OBVIOUS
<1>3. <<x>> \in Seq(T) /\ Len(<<x>>) = 1 /\ <<x>>[1] = x
    OBVIOUS
<1>4. /\ r \in Seq(T) /\ Len(r) = 1 + n
      /\ \A i \in 1..1 + n : r[i] = IF i <= 1 THEN <<x>>[i] ELSE l[i - 1]
    BY <1>1, <1>2, <1>3, ConcatProperties
<1>5. r[1] = x /\ 1 \in 1..1 + n
    BY <1>1, <1>3, <1>4
<1>6. \A i \in 1..n : r[i + 1] = l[i] /\ i + 1 \in 1..1 + n /\ 1 < i + 1
    BY <1>1, <1>4
<1>7. \A i \in 1..1 + n : i = 1 \/ (i - 1 \in 1..n /\ r[i] = l[i - 1] /\ (i - 1) + 1 = i)
    BY <1>1, <1>4
<1>8. \A i, j \in 1..n : i < j <=> i + 1 < j + 1
    BY <1>1
<1>9. \A i, j \in 1..1 + n : i < j => j # 1 /\ (i # 1 => i - 1 < j - 1)
    BY <1>1
<1>10. \A a : Has(r, a) <=> Has(l, a) \/ a = x
  <2>1. ASSUME NEW a, Has(r, a) PROVE Has(l, a) \/ a = x
    <3>1. PICK i \in 1..1 + n : r[i] = a
        BY <1>4, <2>1 DEF Has
    <3>2. QED
        BY <1>1, <1>5, <1>7, <3>1 DEF Has
  <2>2. ASSUME NEW a, Has(l, a) PROVE Has(r, a)
    <3>1. PICK i \in 1..n : l[i] = a
        BY <1>1, <2>2 DEF Has
    <3>2. PICK j \in 1..1 + n : r[j] = a
        BY <1>6, <3>1
    <3>3. QED
        BY <1>4, <3>2 DEF Has
  <2>3. Has(r, x)
      BY <1>4, <1>5 DEF Has
  <2>4. QED
      BY <2>1, <2>2, <2>3
<1>11. ASSUME NEW a, NEW b, Before(r, a, b) PROVE Before(l, a, b) \/ (a = x /\ Has(l, b))
  <2>1. PICK p, q \in 1..1 + n : p < q /\ r[p] = a /\ r[q] = b
      BY <1>4, <1>11 DEF Before
  <2>2. PICK j \in 1..n : j = q - 1 /\ l[j] = b
      BY <1>7, <1>9, <2>1
  <2>3. CASE p = 1
      BY <1>1, <1>5, <2>1, <2>2, <2>3 DEF Has
  <2>4. CASE p # 1
    <3>1. PICK i \in 1..n : i = p - 1 /\ l[i] = a
        BY <1>7, <2>1, <2>4
    <3>2. i < j
        BY <1>9, <2>1, <2>2, <2>4, <3>1
    <3>3. QED
        BY <1>1, <2>2, <3>1, <3>2 DEF Before
  <2>5. QED
      BY <2>3, <2>4
<1>12. ASSUME NEW a, NEW b PROVE Before(l, a, b) \/ (a = x /\ Has(l, b)) => Before(r, a, b)
  <2>1. CASE Before(l, a, b)
    <3>1. PICK p, q \in 1..n : p < q /\ l[p] = a /\ l[q] = b
        BY <1>1, <2>1 DEF Before
    <3>2. p + 1 \in 1..1 + n /\ q + 1 \in 1..1 + n /\ p + 1 < q + 1 /\ r[p + 1] = a /\ r[q + 1] = b
        BY <1>6, <1>8, <3>1
    <3>3. QED
        BY <1>4, <3>2 DEF Before
  <2>2. CASE a = x /\ Has(l, b)
    <3>1. PICK q \in 1..n : l[q] = b
        BY <1>1, <2>2 DEF Has
    <3>2. q + 1 \in 1..1 + n /\ 1 < q + 1 /\ r[q + 1] = b
        BY <1>6, <3>1
    <3>3. QED
        BY <1>4, <1>5, <2>2, <3>2 DEF Before
  <2>3. QED
      BY <2>1, <2>2
<1>13. QED
    BY <1>2, <1>4, <1>10, <1>11, <1>12

-----------------------------------------------------------------------------
(* Powers of two: what is left of a hash, and its topmost bit.             *)

LEMMA PowerNat == \A p \in Powers : p \in Nat /\ p >= 1
  BY DEF Powers

LEMMA PowerDouble == \A p, q \in Powers : p < q => 2 * p <= q /\ 2 * p \in Powers
  BY DEF Powers

LEMMA ModFacts ==
    ASSUME NEW h \in Nat, NEW q \in Powers
    PROVE  /\ h % q \in 0..q - 1
           /\ h < q => h % q = h
           /\ q <= h /\ h < 2 * q => h % q = h - q
  BY DEF Powers

\* The lower bits of the lower bits.
LEMMA ModMod ==
    ASSUME NEW h \in Nat, NEW q \in Powers, NEW p \in Powers, p <= q
    PROVE  (h % q) % p = h % p
<1>1. CASE q = 1       BY <1>1 DEF Powers
<1>2. CASE q = 2       BY <1>2 DEF Powers
<1>3. CASE q = 4       BY <1>3 DEF Powers
<1>4. CASE q = 8       BY <1>4 DEF Powers
<1>5. CASE q = 16      BY <1>5 DEF Powers
<1>6. CASE q = 32      BY <1>6 DEF Powers
<1>7. CASE q = 64      BY <1>7 DEF Powers
<1>8. CASE q = 128     BY <1>8 DEF Powers
<1>9. CASE q = 256     BY <1>9 DEF Powers
<1>10. CASE q = 512    BY <1>10 DEF Powers
<1>11. CASE q = 1024   BY <1>11 DEF Powers
<1>12. CASE q = 2048   BY <1>12 DEF Powers
<1>13. CASE q = 4096   BY <1>13 DEF Powers
<1>14. CASE q = 8192   BY <1>14 DEF Powers
<1>15. CASE q = 16384  BY <1>15 DEF Powers
<1>16. CASE q = 32768  BY <1>16 DEF Powers
<1>17. CASE q = 65536  BY <1>17 DEF Powers
<1>18. QED
    BY <1>1, <1>2, <1>3, <1>4, <1>5, <1>6, <1>7, <1>8, <1>9, <1>10, <1>11, <1>12,
       <1>13, <1>14, <1>15, <1>16, <1>17 DEF Powers

\* A bucket other than the first has a topmost bit, and its parent is below it.
LEMMA TopBitFacts ==
    ASSUME NEW w \in Powers, NEW i \in 1..w - 1
    PROVE  /\ TopBit(i) \in Powers /\ TopBit(i) <= i /\ i < 2 * TopBit(i)
           /\ 2 * TopBit(i) \in Powers /\ 2 * TopBit(i) <= w
           /\ Parent(i) \in Nat /\ Parent(i) < TopBit(i) /\ Parent(i) < i
           /\ Parent(i) = i % TopBit(i)
<1>1. i \in Nat /\ 1 <= i /\ i < 65536
  <2>1. w \in Nat /\ w <= 65536
      BY DEF Powers
  <2>2. QED
      BY <2>1
<1>2. \E p \in Powers : p <= i /\ i < 2 * p
    BY <1>1 DEF Powers
<1>3. PICK t \in Powers : t = TopBit(i) /\ t <= i /\ i < 2 * t
    BY <1>2 DEF TopBit
<1>4. t < w /\ t \in Nat /\ i \in Nat
    BY <1>3, PowerNat
<1>5. 2 * t \in Powers /\ 2 * t <= w
    BY <1>4, PowerDouble
<1>6. i % t = i - t
    BY <1>3, <1>4, ModFacts
<1>7. QED
    BY <1>3, <1>4, <1>5, <1>6 DEF Parent

-----------------------------------------------------------------------------
(* The table.                                                              *)

ClientNodes == [key : Slots, conn : Conns]
Tables == [Indexes -> [rehash_req : BOOLEAN, list : Seq(ClientNodes)]]
Counts == {BucketCounts[i] : i \in 1..Len(BucketCounts)}

LEMMA CountFacts ==
    /\ Counts \subseteq Powers
    /\ BucketCounts[1] \in Counts
    /\ Indexes \subseteq Nat
    /\ \A w \in Counts : 0..w - 1 \subseteq Indexes
    /\ 0 \in Indexes
<1>1. PICK n \in Nat : n = Len(BucketCounts) /\ n >= 1
    BY MapAssumption
<1>2. \A i \in 1..n : BucketCounts[i] \in Powers
    BY <1>1, MapAssumption
<1>3. \A i \in 1..n : BucketCounts[i] <= BucketCounts[n]
  <2>1. ASSUME NEW i \in 1..n PROVE BucketCounts[i] <= BucketCounts[n]
    <3>1. i = n \/ i < n
        BY <1>1
    <3>2. n \in 1..n
        BY <1>1
    <3>3. BucketCounts[i] \in Nat /\ BucketCounts[n] \in Nat
        BY <1>2, <3>2, PowerNat
    <3>4. i < n => BucketCounts[i] < BucketCounts[n]
        BY <1>1, <3>2, MapAssumption
    <3>5. QED
        BY <3>1, <3>3, <3>4
  <2>2. QED
      BY <2>1
<1>4. 1 \in 1..n /\ n \in 1..n
    BY <1>1
<1>5. Indexes = 0..BucketCounts[n] - 1
    BY <1>1 DEF Indexes
<1>6. \A w \in Counts : w \in Powers /\ w <= BucketCounts[n]
    BY <1>1, <1>2, <1>3 DEF Counts
<1>7. BucketCounts[n] \in Nat /\ BucketCounts[n] >= 1
    BY <1>2, <1>4, PowerNat
<1>8. ASSUME NEW w \in Counts PROVE 0..w - 1 \subseteq Indexes
  <2>1. w \in Nat
      BY <1>6, PowerNat
  <2>2. QED
      BY <1>5, <1>6, <1>7, <2>1
<1>9. QED
    BY <1>1, <1>4, <1>5, <1>6, <1>7, <1>8 DEF Counts

\* n is in bucket i because its hash led there when the table had q buckets; a
\* bucket where it leads since then has still to be rehashed.
Placed(bs, w, n, i) ==
    \E q \in Powers :
        /\ q <= w /\ i = Hash[n.key] % q
        /\ \A p \in Powers : (q <= p /\ p <= w /\ Hash[n.key] % p # i) =>
              bs[Hash[n.key] % p].rehash_req

\* The buckets bs of a table of w buckets.
Good(bs, w) ==
    /\ bs \in Tables
    /\ ~bs[0].rehash_req
    /\ \A i \in Indexes : bs[i].rehash_req => bs[i].list = <<>>
    /\ \A i \in Indexes : i >= w => bs[i].rehash_req
    /\ \A i \in Indexes : \A n : Has(bs[i].list, n) => Placed(bs, w, n, i)
    /\ \A i \in Indexes : \A n : ~Before(bs[i].list, n, n)

Holds(bs, n) == \E i \in Indexes : Has(bs[i].list, n)

LEMMA EmptyHas == \A a, b : ~Has(<<>>, a) /\ ~Before(<<>>, a, b)
  BY DEF Has, Before

LEMMA BeforeHas == \A l, a, b : Before(l, a, b) => Has(l, a) /\ Has(l, b)
  BY DEF Has, Before

LEMMA HasNode ==
    ASSUME NEW bs \in Tables, NEW i \in Indexes, NEW n, Has(bs[i].list, n)
    PROVE  n \in ClientNodes /\ Hash[n.key] \in Nat
<1>1. bs[i].list \in Seq(ClientNodes)
    BY DEF Tables
<1>2. n \in ClientNodes
    BY <1>1 DEF Has
<1>3. QED
    BY <1>2, MapAssumption DEF ClientNodes

\* What a bucket that is rehashed takes, and what it leaves.
LEMMA SplitFacts ==
    ASSUME NEW w \in Counts, NEW bs \in Tables, NEW j \in Indexes, 1 <= j, j < w
    PROVE  LET par == Parent(j)
               cs == Split(bs, j)
           IN  /\ cs \in Tables /\ par \in Indexes /\ par < j
               /\ \A i \in Indexes : i # par /\ i # j => cs[i] = bs[i]
               /\ ~cs[par].rehash_req /\ ~cs[j].rehash_req
               /\ \A n : Has(cs[par].list, n) <=> Has(bs[par].list, n) /\ ~Belongs(n, j)
               /\ \A n : Has(cs[j].list, n) <=> Has(bs[par].list, n) /\ Belongs(n, j)
               /\ \A a, b : Before(cs[par].list, a, b) <=>
                     Before(bs[par].list, a, b) /\ ~Belongs(a, j) /\ ~Belongs(b, j)
               /\ \A a, b : Before(cs[j].list, a, b) => Before(bs[par].list, b, a)
<1>1. w \in Powers /\ w \in Nat /\ j \in Nat
    BY CountFacts, PowerNat
<1>2. PICK par : par = Parent(j) /\ par \in Nat /\ par < j
    BY <1>1, TopBitFacts
<1>3. par \in Indexes /\ par # j
    BY <1>1, <1>2, CountFacts
<1>4. PICK old : old = bs[par]
    OBVIOUS
<1>5. old.list \in Seq(ClientNodes)
    BY <1>3, <1>4 DEF Tables
<1>6. PICK moved : moved = {n \in Listed(old) : Belongs(n, j)}
    OBVIOUS
<1>7. PICK left : left = Unlink(old.list, Listed(old) \ moved)
    OBVIOUS
<1>8. PICK taken : taken = Unlink(old.list, moved)
    OBVIOUS
<1>9. \A n : Has(old.list, n) <=> n \in Listed(old)
    BY DEF Has, Listed
<1>10. /\ left \in Seq(ClientNodes)
       /\ \A n : Has(left, n) <=> n \in Listed(old) \ moved /\ Has(old.list, n)
       /\ \A a, b : Before(left, a, b) <=>
             a \in Listed(old) \ moved /\ b \in Listed(old) \ moved /\ Before(old.list, a, b)
    BY <1>5, <1>7, UnlinkFacts
<1>11. /\ taken \in Seq(ClientNodes)
       /\ \A n : Has(taken, n) <=> n \in moved /\ Has(old.list, n)
       /\ \A a, b : Before(taken, a, b) => Before(old.list, a, b)
    BY <1>5, <1>8, UnlinkFacts
<1>12. /\ Reverse(taken) \in Seq(ClientNodes)
       /\ \A n : Has(Reverse(taken), n) <=> Has(taken, n)
       /\ \A a, b : Before(Reverse(taken), a, b) <=> Before(taken, b, a)
    BY <1>11, ReverseFacts
<1>13. PICK cs : cs = Split(bs, j)
    OBVIOUS
<1>14. cs = [bs EXCEPT ![par] = Bucket(left), ![j] = Bucket(Reverse(taken))]
    BY <1>13, <1>2, <1>4, <1>6, <1>7, <1>8 DEF Split
<1>15. /\ cs \in Tables
       /\ \A i \in Indexes : i # par /\ i # j => cs[i] = bs[i]
       /\ cs[par] = Bucket(left) /\ cs[j] = Bucket(Reverse(taken))
    BY <1>14, <1>3, <1>10, <1>12 DEF Tables, Bucket
<1>16. /\ ~cs[par].rehash_req /\ ~cs[j].rehash_req
       /\ cs[par].list = left /\ cs[j].list = Reverse(taken)
    BY <1>15 DEF Bucket
<1>17. \A n : Has(cs[par].list, n) <=> Has(old.list, n) /\ ~Belongs(n, j)
    BY <1>16, <1>9, <1>10, <1>6
<1>18. \A n : Has(cs[j].list, n) <=> Has(old.list, n) /\ Belongs(n, j)
    BY <1>16, <1>9, <1>11, <1>12, <1>6
<1>19. \A a, b : /\ Before(cs[par].list, a, b) <=>
                       Before(old.list, a, b) /\ ~Belongs(a, j) /\ ~Belongs(b, j)
                 /\ Before(cs[j].list, a, b) => Before(old.list, b, a)
    BY <1>16, <1>6, <1>9, <1>10, <1>11, <1>12, BeforeHas
<1>20. QED
    BY <1>2, <1>3, <1>4, <1>13, <1>15, <1>16, <1>17, <1>18, <1>19

\* Where nodes with hash h may be, with t the topmost bit of a bucket j that is
\* rehashed from its parent.
LEMMA SplitHash ==
    ASSUME NEW w \in Counts, NEW j \in Indexes, 1 <= j, j < w, NEW h \in Nat
    PROVE  LET t == TopBit(j)
           IN  /\ t \in Powers /\ 2 * t \in Powers /\ t < 2 * t /\ 2 * t <= w
               /\ \A p \in Powers : h % p = j => 2 * t <= p /\ h % t = Parent(j)
                                                /\ h % (2 * t) = j
               /\ \A p \in Powers : 2 * t <= p /\ h % p = Parent(j) => h % (2 * t) # j
               /\ \A p, q \in Powers : (h % p = j /\ 2 * t <= q /\ q <= p) => h % q = j
<1>1. w \in Powers /\ w \in Nat /\ j \in Nat
    BY CountFacts, PowerNat
<1>2. j \in 1..w - 1
    BY <1>1
<1>3. PICK t \in Powers : t = TopBit(j)
    BY <1>1, <1>2, TopBitFacts
<1>4. /\ t <= j /\ j < 2 * t /\ 2 * t \in Powers /\ 2 * t <= w
      /\ Parent(j) \in Nat /\ Parent(j) < t /\ Parent(j) < j /\ Parent(j) = j % t
    BY <1>1, <1>2, <1>3, TopBitFacts
<1>5. t \in Nat /\ t >= 1 /\ t < 2 * t /\ 2 * t \in Nat
    BY <1>3, PowerNat
<1>6. PICK d \in Powers : d = 2 * t
    BY <1>4
<1>7. ASSUME NEW p \in Powers, h % p = j PROVE d <= p /\ h % t = Parent(j) /\ h % d = j
  <2>1. p \in Nat /\ j < p
      BY <1>7, ModFacts, PowerNat
  <2>2. d <= p
    <3>1. t < p
        BY <1>1, <1>4, <1>5, <2>1
    <3>2. QED
        BY <1>3, <1>6, <3>1, PowerDouble
  <2>3. t <= p
      BY <1>5, <1>6, <2>1, <2>2
  <2>4. h % t = Parent(j)
      BY <1>4, <1>7, <2>3, ModMod
  <2>5. j % d = j
      BY <1>1, <1>4, <1>6, ModFacts
  <2>6. h % d = j
      BY <1>7, <2>2, <2>5, ModMod
  <2>7. QED
      BY <2>2, <2>4, <2>6
<1>8. ASSUME NEW p \in Powers, d <= p, h % p = Parent(j) PROVE h % d # j
  <2>1. PICK par \in Nat : par = Parent(j) /\ par < t /\ par < j
      BY <1>4
  <2>2. par % d = par
      BY <1>5, <1>6, <2>1, ModFacts
  <2>3. h % d = par
      BY <1>8, <2>1, <2>2, ModMod
  <2>4. QED
      BY <1>1, <2>1, <2>3
<1>9. ASSUME NEW p \in Powers, NEW q \in Powers, h % p = j, d <= q, q <= p
      PROVE  h % q = j
  <2>1. q \in Nat /\ j < q
      BY <1>1, <1>4, <1>6, <1>9, PowerNat
  <2>2. j % q = j
      BY <1>1, <2>1, ModFacts
  <2>3. QED
      BY <1>9, <2>2, ModMod
<1>10. QED
    BY <1>3, <1>4, <1>5, <1>6, <1>7, <1>8, <1>9

\* Rehashing a bucket keeps the table good, and every node.
LEMMA SplitGood ==
    ASSUME NEW w \in Counts, NEW bs, Good(bs, w), NEW j \in Indexes, j < w,
           bs[j].rehash_req, ~bs[Parent(j)].rehash_req
    PROVE  LET cs == Split(bs, j)
           IN  /\ Good(cs, w) /\ ~cs[j].rehash_req
               /\ \A i \in Indexes : i > j => cs[i] = bs[i]
               /\ \A n : Holds(cs, n) <=> Holds(bs, n)
<1>1. bs \in Tables /\ j \in Nat /\ j # 0 /\ w \in Nat /\ 0 \in Indexes
    BY CountFacts, PowerNat DEF Good
<1>2. 1 <= j
    BY <1>1
<1>3. PICK par : par = Parent(j)
    OBVIOUS
<1>4. PICK cs : cs = Split(bs, j)
    OBVIOUS
<1>5. /\ cs \in Tables /\ par \in Indexes /\ par < j
      /\ \A i \in Indexes : i # par /\ i # j => cs[i] = bs[i]
      /\ ~cs[par].rehash_req /\ ~cs[j].rehash_req
      /\ \A n : Has(cs[par].list, n) <=> Has(bs[par].list, n) /\ ~Belongs(n, j)
      /\ \A n : Has(cs[j].list, n) <=> Has(bs[par].list, n) /\ Belongs(n, j)
      /\ \A a, b : Before(cs[par].list, a, b) => Before(bs[par].list, a, b)
      /\ \A a, b : Before(cs[j].list, a, b) => Before(bs[par].list, b, a)
    BY <1>1, <1>2, <1>3, <1>4, SplitFacts
<1>6. ~bs[par].rehash_req /\ \A n : ~Has(bs[j].list, n)
    BY <1>3, EmptyHas DEF Good
<1>7. \A i \in Indexes : i # j => (cs[i].rehash_req <=> bs[i].rehash_req)
    BY <1>5, <1>6
<1>8. ASSUME NEW i \in Indexes, NEW n, Has(cs[i].list, n) PROVE Placed(cs, w, n, i)
  <2>1. PICK o \in Indexes : Has(bs[o].list, n) /\ (o = i \/ (o = par /\ i = j))
      BY <1>5, <1>6, <1>8
  <2>2. PICK h \in Nat : h = Hash[n.key]
      BY <1>1, <2>1, HasNode
  <2>3. PICK q \in Powers :
           /\ q <= w /\ o = h % q
           /\ \A p \in Powers : (q <= p /\ p <= w /\ h % p # o) => bs[h % p].rehash_req
      BY <2>1, <2>2 DEF Good, Placed
  <2>4. PICK t : t = TopBit(j)
      OBVIOUS
  <2>5. /\ t \in Powers /\ 2 * t \in Powers /\ t < 2 * t /\ 2 * t <= w
        /\ \A p \in Powers : h % p = j => 2 * t <= p /\ h % t = par /\ h % (2 * t) = j
        /\ \A p \in Powers : 2 * t <= p /\ h % p = par => h % (2 * t) # j
        /\ \A p, qq \in Powers : (h % p = j /\ 2 * t <= qq /\ qq <= p) => h % qq = j
      BY <1>1, <1>2, <1>3, <2>4, SplitHash
  <2>6. PICK d \in Powers : d = 2 * t
      BY <2>5
  <2>7. Belongs(n, j) <=> h % d = j
      BY <2>2, <2>4, <2>6 DEF Belongs
  <2>8. \A p \in Powers : h % p \in 0..p - 1 /\ p \in Nat
      BY ModFacts, PowerNat
  <2>9. ASSUME NEW p \in Powers, p <= w PROVE h % p \in Indexes
    <3>1. h % p \in 0..w - 1
        BY <1>1, <2>8, <2>9
    <3>2. QED
        BY <3>1, CountFacts
  <2>10. t \in Nat /\ d \in Nat /\ q \in Nat /\ t < d /\ d <= w
      BY <2>5, <2>6, PowerNat
  <2>11. CASE i # par /\ i # j
    <3>1. o = i
        BY <2>1, <2>11
    <3>2. ASSUME NEW p \in Powers, q <= p, p <= w, h % p # i PROVE cs[h % p].rehash_req
      <4>1. bs[h % p].rehash_req
          BY <2>3, <3>1, <3>2
      <4>2. h % p # j
        <5>1. SUFFICES ASSUME h % p = j PROVE FALSE
            OBVIOUS
        <5>2. d <= p /\ h % t = par
            BY <2>5, <2>6, <5>1
        <5>3. CASE q <= t
          <6>1. t <= w
              BY <1>1, <2>10
          <6>2. bs[h % t].rehash_req
              BY <2>3, <2>5, <3>1, <5>2, <5>3, <6>1, <2>11
          <6>3. QED
              BY <5>2, <6>2, <1>6
        <5>4. CASE ~(q <= t)
          <6>1. d <= q
              BY <2>5, <2>6, <2>10, <5>4, PowerDouble
          <6>2. h % q = j
              BY <2>5, <2>6, <3>2, <5>1, <6>1
          <6>3. QED
              BY <6>2, <2>3, <3>1, <2>11
        <5>5. QED
            BY <5>3, <5>4
      <4>3. QED
          BY <4>1, <4>2, <1>7, <2>9, <3>2
    <3>3. QED
        BY <2>2, <2>3, <3>1, <3>2 DEF Placed
  <2>12. CASE i = j
    <3>1. o = par /\ h % d = j
        BY <1>5, <2>7, <2>12, <1>6, <1>8, <2>1
    <3>2. ~(d <= q)
        BY <2>3, <2>5, <2>6, <3>1
    <3>3. ASSUME NEW p \in Powers, d <= p, p <= w, h % p # j PROVE cs[h % p].rehash_req
      <4>1. q <= p
          BY <2>8, <2>10, <3>2, <3>3
      <4>2. h % p # par
          BY <2>5, <2>6, <3>1, <3>3
      <4>3. bs[h % p].rehash_req
          BY <2>3, <3>1, <3>3, <4>1, <4>2
      <4>4. QED
          BY <4>3, <1>7, <2>9, <3>3
    <3>4. QED
        BY <2>2, <2>10, <2>12, <3>1, <3>3 DEF Placed
  <2>13. CASE i = par /\ i # j
    <3>1. o = par /\ h % d # j
        BY <1>5, <2>1, <2>7, <2>13, <1>8
    <3>2. ASSUME NEW p \in Powers, q <= p, p <= w, h % p # i PROVE cs[h % p].rehash_req
      <4>1. bs[h % p].rehash_req
          BY <2>3, <2>13, <3>1, <3>2
      <4>2. h % p # j
          BY <2>5, <2>6, <3>1
      <4>3. QED
          BY <4>1, <4>2, <1>7, <2>9, <3>2
    <3>3. QED
        BY <2>2, <2>3, <2>13, <3>1, <3>2 DEF Placed
  <2>14. QED
      BY <2>11, <2>12, <2>13
<1>9. ~cs[0].rehash_req
    BY <1>1, <1>5, <1>7 DEF Good
<1>10. ASSUME NEW i \in Indexes, cs[i].rehash_req PROVE cs[i].list = <<>>
    BY <1>5, <1>10 DEF Good
<1>11. ASSUME NEW i \in Indexes, i >= w PROVE cs[i].rehash_req
  <2>1. i # j
      BY <1>1, <1>11, CountFacts
  <2>2. QED
      BY <1>7, <1>11, <2>1 DEF Good
<1>12. ASSUME NEW i \in Indexes, NEW n PROVE ~Before(cs[i].list, n, n)
    BY <1>5 DEF Good
<1>13. Good(cs, w)
    BY <1>5, <1>8, <1>9, <1>10, <1>11, <1>12 DEF Good
<1>14. ASSUME NEW i \in Indexes, i > j PROVE cs[i] = bs[i]
  <2>1. i # j /\ i # par
      BY <1>1, <1>5, <1>14, CountFacts
  <2>2. QED
      BY <1>5, <2>1
<1>15. ASSUME NEW n PROVE Holds(cs, n) <=> Holds(bs, n)
    BY <1>5, <1>6 DEF Holds
<1>16. QED
    BY <1>4, <1>5, <1>13, <1>14, <1>15

\* All nodes are where their hash leads now.
AtHome(bs, w) == \A i \in Indexes : \A n : Has(bs[i].list, n) => Hash[n.key] % w = i

\* The same nodes in the same order.
SameLists(bs, cs) ==
    \A i \in Indexes : \A a, b : /\ Has(cs[i].list, a) <=> Has(bs[i].list, a)
                                 /\ Before(cs[i].list, a, b) <=> Before(bs[i].list, a, b)

\* Nothing moves when all nodes are where they belong.
LEMMA SplitAtHome ==
    ASSUME NEW w \in Counts, NEW bs, Good(bs, w), NEW j \in Indexes, j < w,
           bs[j].rehash_req, AtHome(bs, w)
    PROVE  SameLists(bs, Split(bs, j))
<1>1. bs \in Tables /\ j \in Nat /\ j # 0 /\ w \in Nat /\ w \in Powers /\ 0 \in Indexes
    BY CountFacts, PowerNat DEF Good
<1>2. 1 <= j
    BY <1>1
<1>3. PICK par : par = Parent(j)
    OBVIOUS
<1>4. PICK cs : cs = Split(bs, j)
    OBVIOUS
<1>5. /\ cs \in Tables /\ par \in Indexes /\ par < j
      /\ \A i \in Indexes : i # par /\ i # j => cs[i] = bs[i]
      /\ \A n : Has(cs[par].list, n) <=> Has(bs[par].list, n) /\ ~Belongs(n, j)
      /\ \A n : Has(cs[j].list, n) <=> Has(bs[par].list, n) /\ Belongs(n, j)
      /\ \A a, b : Before(cs[par].list, a, b) <=>
            Before(bs[par].list, a, b) /\ ~Belongs(a, j) /\ ~Belongs(b, j)
    BY <1>1, <1>2, <1>3, <1>4, SplitFacts
<1>6. \A a, b : ~Has(bs[j].list, a) /\ ~Before(bs[j].list, a, b)
    BY EmptyHas DEF Good
<1>7. ASSUME NEW n, Has(bs[par].list, n) PROVE ~Belongs(n, j)
  <2>1. PICK h \in Nat : h = Hash[n.key]
      BY <1>1, <1>5, <1>7, HasNode
  <2>2. h % w = par
      BY <1>5, <1>7, <2>1 DEF AtHome
  <2>3. h % (2 * TopBit(j)) # j
      BY <1>1, <1>2, <1>3, <2>2, SplitHash
  <2>4. QED
      BY <2>1, <2>3 DEF Belongs
<1>8. ASSUME NEW i \in Indexes, NEW a, NEW b
      PROVE  /\ Has(cs[i].list, a) <=> Has(bs[i].list, a)
             /\ Before(cs[i].list, a, b) <=> Before(bs[i].list, a, b)
  <2>1. CASE i = par
      BY <1>5, <1>7, <2>1, BeforeHas
  <2>2. CASE i = j
      BY <1>5, <1>6, <1>7, <2>2, BeforeHas
  <2>3. CASE i # par /\ i # j
      BY <1>5, <2>3
  <2>4. QED
      BY <2>1, <2>2, <2>3
<1>9. QED
    BY <1>4, <1>8 DEF SameLists

\* f gives the buckets once each of the buckets up to m has been acquired.
Rehashing(f, m) ==
    f = [j \in 0..m |->
            IF buckets[j].rehash_req THEN Split(f[Parent(j)], j) ELSE buckets]

LEMMA AllIndexes == \E m \in Counts : Indexes = 0..m - 1 /\ m \in Powers /\ m \in Nat /\ m >= 1
<1>1. Len(BucketCounts) \in 1..Len(BucketCounts)
    BY MapAssumption
<1>2. BucketCounts[Len(BucketCounts)] \in Counts
    BY <1>1 DEF Counts
<1>3. QED
    BY <1>2, CountFacts, PowerNat DEF Indexes

LEMMA ParentBelow ==
    ASSUME NEW j \in Indexes, j # 0
    PROVE  Parent(j) \in 0..j - 1
<1>1. PICK m \in Counts : Indexes = 0..m - 1 /\ m \in Powers /\ m \in Nat
    BY AllIndexes
<1>2. j \in 1..m - 1
    BY <1>1
<1>3. Parent(j) \in Nat /\ Parent(j) < j
    BY <1>1, <1>2, TopBitFacts
<1>4. QED
    BY <1>2, <1>3

\* The recursive function in Acquire exists.
LEMMA RehashingExists ==
    ASSUME ~buckets[0].rehash_req, NEW top \in Nat, Indexes = 0..top
    PROVE  \E f : Rehashing(f, top)
<1> DEFINE Bad == {m \in 0..top : ~\E f : Rehashing(f, m)}
<1>1. ASSUME Bad # {} PROVE FALSE
  <2>1. Bad \subseteq Nat
      OBVIOUS
  <2>2. PICK m \in Bad : \A y \in Bad : m <= y
    <3> HIDE DEF Bad
    <3>1. QED
        BY <2>1, <1>1, SmallestNat
  <2>3. m \in 0..top /\ m \in Nat
      OBVIOUS
  <2>4. CASE m = 0
    <3>1. PICK f : f = [j \in 0..0 |-> buckets]
        OBVIOUS
    <3>2. Rehashing(f, 0)
        BY <3>1 DEF Rehashing
    <3>3. QED
        BY <2>4, <3>2
  <2>5. CASE m # 0
    <3>1. m - 1 \in 0..top /\ ~(m <= m - 1)
        BY <2>3, <2>5
    <3>2. PICK f : Rehashing(f, m - 1)
        BY <2>2, <3>1
    <3>3. PICK g : g = [j \in 0..m |-> IF j < m THEN f[j]
                           ELSE IF buckets[m].rehash_req THEN Split(f[Parent(m)], m) ELSE buckets]
        OBVIOUS
    <3>4. \A j \in 0..m - 1 : g[j] = f[j]
        BY <3>3, <2>3, <2>5
    <3>5. \A j \in 0..m : j = 0 \/ Parent(j) \in 0..j - 1
        BY <2>3, ParentBelow
    <3>6. ASSUME NEW j \in 0..m
          PROVE  g[j] = IF buckets[j].rehash_req THEN Split(g[Parent(j)], j) ELSE buckets
      <4>1. CASE j = m
        <5>1. Parent(m) \in 0..m - 1
            BY <2>3, <2>5, <3>5
        <5>2. QED
            BY <2>3, <3>3, <3>4, <4>1, <5>1
      <4>2. CASE j # m
        <5>1. j \in 0..m - 1
            BY <2>3, <4>2
        <5>2. f[j] = IF buckets[j].rehash_req THEN Split(f[Parent(j)], j) ELSE buckets
            BY <3>2, <5>1 DEF Rehashing
        <5>3. CASE j = 0
            BY <3>4, <5>1, <5>2, <5>3
        <5>4. CASE j # 0
          <6>1. Parent(j) \in 0..m - 1
              BY <2>3, <3>5, <5>1, <5>4
          <6>2. QED
              BY <3>4, <5>1, <5>2, <6>1
        <5>5. QED
            BY <5>3, <5>4
      <4>3. QED
          BY <4>1, <4>2
    <3>7. Rehashing(g, m)
        BY <3>3, <3>6 DEF Rehashing
    <3>8. QED
        BY <3>7
  <2>6. QED
      BY <2>4, <2>5
<1>2. QED
    BY <1>1

\* The buckets cs once bucket c of bs has been acquired.
Acquired(cs, bs, w, c) ==
    /\ Good(cs, w) /\ ~cs[c].rehash_req
    /\ \A i \in Indexes : i > c => cs[i] = bs[i]
    /\ \A n : Holds(cs, n) <=> Holds(bs, n)
    /\ AtHome(bs, w) => SameLists(bs, cs)

LEMMA AcquireFacts ==
    ASSUME NEW w \in Counts, Good(buckets, w), NEW c \in Indexes, c < w
    PROVE  Acquired(Acquire(c), buckets, w, c)
<1>1. PICK m \in Counts : Indexes = 0..m - 1 /\ m \in Nat /\ m >= 1
    BY AllIndexes
<1>2. PICK top \in Nat : top = m - 1
    BY <1>1
<1>3. Indexes = 0..top /\ w \in Nat /\ c \in Nat
    BY <1>1, <1>2, CountFacts, PowerNat
<1>4. PICK f : f = CHOOSE g : Rehashing(g, top)
    OBVIOUS
<1>5. ~buckets[0].rehash_req
    BY DEF Good
<1>6. Rehashing(f, top)
    BY <1>3, <1>4, <1>5, RehashingExists
<1>7. Acquire(c) = f[c]
    BY <1>3, <1>4 DEF Acquire, Rehashing
<1> DEFINE Bad == {j \in 0..top : j < w /\ ~Acquired(f[j], buckets, w, j)}
<1>8. ASSUME Bad # {} PROVE FALSE
  <2>1. Bad \subseteq Nat
      OBVIOUS
  <2>2. PICK j \in Bad : \A y \in Bad : j <= y
    <3> HIDE DEF Bad
    <3>1. QED
        BY <2>1, <1>8, SmallestNat
  <2>3. j \in 0..top /\ j \in Nat /\ j < w /\ j \in Indexes
      BY <1>3
  <2>4. f[j] = IF buckets[j].rehash_req THEN Split(f[Parent(j)], j) ELSE buckets
      BY <1>6, <2>3 DEF Rehashing
  <2>5. CASE ~buckets[j].rehash_req
    <3>1. Acquired(buckets, buckets, w, j)
        BY <2>5 DEF Acquired, SameLists
    <3>2. QED
        BY <2>4, <2>5, <3>1
  <2>6. CASE buckets[j].rehash_req
    <3>1. j # 0
        BY <1>5, <2>6
    <3>2. PICK par \in 0..j - 1 : par = Parent(j)
        BY <2>3, <3>1, ParentBelow
    <3>3. par \in 0..top /\ par < w /\ ~(j <= par) /\ par < j /\ par \in Indexes
        BY <1>3, <2>3, <3>2
    <3>4. Acquired(f[par], buckets, w, par)
        BY <2>2, <3>3
    <3>5. PICK bs : bs = f[par]
        OBVIOUS
    <3>6. /\ Good(bs, w) /\ ~bs[par].rehash_req /\ bs[j] = buckets[j]
          /\ \A n : Holds(bs, n) <=> Holds(buckets, n)
        BY <2>3, <3>3, <3>4, <3>5 DEF Acquired
    <3>7. PICK cs : cs = Split(bs, j)
        OBVIOUS
    <3>8. /\ Good(cs, w) /\ ~cs[j].rehash_req
          /\ \A i \in Indexes : i > j => cs[i] = bs[i]
          /\ \A n : Holds(cs, n) <=> Holds(bs, n)
        BY <2>3, <2>6, <3>2, <3>6, <3>7, SplitGood
    <3>9. ASSUME NEW i \in Indexes, i > j PROVE cs[i] = buckets[i]
      <4>1. i > par
          BY <1>3, <2>3, <3>3, <3>9
      <4>2. QED
          BY <3>4, <3>5, <3>8, <3>9, <4>1 DEF Acquired
    <3>10. ASSUME AtHome(buckets, w) PROVE SameLists(buckets, cs)
      <4>1. SameLists(buckets, bs)
          BY <3>4, <3>5, <3>10 DEF Acquired
      <4>2. AtHome(bs, w)
          BY <3>10, <4>1 DEF AtHome, SameLists
      <4>3. SameLists(bs, cs)
          BY <2>3, <2>6, <3>6, <3>7, <4>2, SplitAtHome
      <4>4. QED
          BY <4>1, <4>3 DEF SameLists
    <3>11. Acquired(cs, buckets, w, j)
        BY <3>6, <3>8, <3>9, <3>10 DEF Acquired
    <3>12. QED
        BY <2>4, <2>6, <3>2, <3>5, <3>7, <3>11
  <2>7. QED
      BY <2>5, <2>6
<1>9. c \notin Bad
    BY <1>8
<1>10. Acquired(f[c], buckets, w, c)
    BY <1>3, <1>9
<1>11. QED
    BY <1>7, <1>10

-----------------------------------------------------------------------------
(* What the operations on the map do.                                      *)

\* The table is good and holds the clients that are registered.
MapInv ==
    /\ my_mask \in Nat /\ my_mask + 1 \in Counts
    /\ Good(buckets, my_mask + 1)
    /\ client \in [Slots -> 0..MaxClients]
    /\ \A n : Holds(buckets, n) <=> \E s \in Slots : client[s] # 0 /\ n = Node(s)

LEMMA HomeFacts ==
    ASSUME MapInv, NEW s \in Slots
    PROVE  /\ Home(s) \in Indexes /\ Home(s) < my_mask + 1
           /\ Home(s) = Hash[s] % (my_mask + 1) /\ Hash[s] \in Nat
<1>1. PICK w \in Counts : w = my_mask + 1
    BY DEF MapInv
<1>2. PICK h \in Nat : h = Hash[s]
    BY MapAssumption
<1>3. w \in Powers /\ w \in Nat /\ 0..w - 1 \subseteq Indexes
    BY CountFacts, PowerNat
<1>4. h % w \in 0..w - 1
    BY <1>3, ModFacts
<1>5. Home(s) = h % w
    BY <1>1, <1>2 DEF Home
<1>6. QED
    BY <1>1, <1>2, <1>3, <1>4, <1>5

LEMMA LookupAcquires ==
    ASSUME MapInv, NEW s \in Slots
    PROVE  Acquired(Acquire(Home(s)), buckets, my_mask + 1, Home(s))
  BY HomeFacts, AcquireFacts DEF MapInv

\* A node of an acquired bucket's key is in that bucket.
LEMMA FoundAtHome ==
    ASSUME NEW w \in Counts, NEW cs, Good(cs, w), NEW i \in Indexes, NEW n,
           Has(cs[i].list, n), ~cs[Hash[n.key] % w].rehash_req
    PROVE  i = Hash[n.key] % w
<1>1. w \in Powers /\ w \in Nat
    BY CountFacts, PowerNat
<1>2. PICK q \in Powers :
         /\ q <= w /\ i = Hash[n.key] % q
         /\ \A p \in Powers : (q <= p /\ p <= w /\ Hash[n.key] % p # i) =>
               cs[Hash[n.key] % p].rehash_req
    BY DEF Good, Placed
<1>3. w <= w
    BY <1>1
<1>4. QED
    BY <1>1, <1>2, <1>3

LEMMA LookupFacts ==
    ASSUME MapInv, NEW s \in Slots
    PROVE  Lookup(s) = IF client[s] = 0 THEN {} ELSE {Node(s)}
<1>1. PICK c : c = Home(s)
    OBVIOUS
<1>2. PICK w : w = my_mask + 1
    OBVIOUS
<1>3. PICK cs : cs = Acquire(c)
    OBVIOUS
<1>4. c \in Indexes /\ c = Hash[s] % w /\ w \in Counts
    BY <1>1, <1>2, HomeFacts DEF MapInv
<1>5. Acquired(cs, buckets, w, c)
    BY <1>1, <1>2, <1>3, LookupAcquires
<1>6. Good(cs, w) /\ ~cs[c].rehash_req /\ \A n : Holds(cs, n) <=> Holds(buckets, n)
    BY <1>5 DEF Acquired
<1>7. \A n : n \in Lookup(s) <=> Has(cs[c].list, n) /\ n.key = s
    BY <1>1, <1>3 DEF Lookup, Listed, Has
<1>8. ASSUME NEW n, n.key = s PROVE Has(cs[c].list, n) <=> Holds(buckets, n)
  <2>1. ASSUME NEW i \in Indexes, Has(cs[i].list, n) PROVE i = c
      BY <1>4, <1>6, <1>8, <2>1, FoundAtHome
  <2>2. QED
      BY <1>4, <1>6, <2>1 DEF Holds
<1>9. \A t \in Slots : Node(t).key = t
    BY DEF Node
<1>10. \A n : n \in Lookup(s) <=> client[s] # 0 /\ n = Node(s)
    BY <1>7, <1>8, <1>9 DEF MapInv
<1>11. QED
    BY <1>10

\* find, whatever it rehashes.
LEMMA FindFacts ==
    ASSUME MapInv, NEW s \in Slots, Find(s), client' = client
    PROVE  /\ MapInv'
           /\ AtHome(buckets, my_mask + 1) => SameLists(buckets, buckets')
<1>1. PICK w : w = my_mask + 1
    OBVIOUS
<1>2. PICK cs : cs = Acquire(Home(s))
    OBVIOUS
<1>3. Acquired(cs, buckets, w, Home(s))
    BY <1>1, <1>2, LookupAcquires
<1>4. buckets' = cs /\ my_mask' = my_mask
    BY <1>2 DEF Find
<1>5. \A t \in Slots : Node(t)' = Node(t)
    BY DEF Node
<1>6. Good(cs, w) /\ \A n : Holds(cs, n) <=> Holds(buckets, n)
    BY <1>3 DEF Acquired
<1>7. MapInv'
  <2>1. my_mask' \in Nat /\ (my_mask + 1)' \in Counts
      BY <1>4 DEF MapInv
  <2>2. Good(buckets, my_mask + 1)'
      BY <1>1, <1>4, <1>6 DEF Good, Placed
  <2>3. \A n : Holds(buckets, n)' <=> Holds(cs, n)
      BY <1>4 DEF Holds
  <2>4. QED
      BY <2>1, <2>2, <2>3, <1>5, <1>6 DEF MapInv
<1>8. QED
    BY <1>1, <1>3, <1>4, <1>7 DEF Acquired

\* The buckets that come with a larger table are all to be rehashed.
LEMMA GoodGrows ==
    ASSUME NEW w \in Counts, NEW v \in Counts, w <= v, NEW bs, Good(bs, w)
    PROVE  Good(bs, v)
<1>1. w \in Powers /\ v \in Powers /\ w \in Nat /\ v \in Nat
    BY CountFacts, PowerNat
<1>2. ASSUME NEW i \in Indexes, NEW n, Has(bs[i].list, n) PROVE Placed(bs, v, n, i)
  <2>1. PICK h \in Nat : h = Hash[n.key]
      BY <1>2, HasNode DEF Good
  <2>2. PICK q \in Powers :
           /\ q <= w /\ i = h % q
           /\ \A p \in Powers : (q <= p /\ p <= w /\ h % p # i) => bs[h % p].rehash_req
      BY <1>2, <2>1 DEF Good, Placed
  <2>3. q \in Nat /\ q <= v
      BY <1>1, <2>2, PowerNat
  <2>4. ASSUME NEW p \in Powers, q <= p, p <= v, h % p # i PROVE bs[h % p].rehash_req
    <3>1. p \in Nat /\ h % p \in 0..p - 1
        BY PowerNat, ModFacts
    <3>2. h % p \in 0..v - 1
        BY <1>1, <2>4, <3>1
    <3>3. h % p \in Indexes /\ h % p \in Nat
        BY <3>1, <3>2, CountFacts
    <3>4. CASE p <= w
        BY <2>2, <2>4, <3>4
    <3>5. CASE h % p >= w
        BY <3>3, <3>5 DEF Good
    <3>6. CASE ~(p <= w) /\ ~(h % p >= w)
      <4>1. PICK r \in Nat : r = h % p
          BY <3>3
      <4>2. r < w /\ w <= p
          BY <1>1, <3>1, <3>6, <4>1
      <4>3. r % w = r
          BY <1>1, <4>2, ModFacts
      <4>4. r % w = h % w
          BY <1>1, <4>1, <4>2, ModMod
      <4>5. w <= w
          BY <1>1
      <4>6. QED
          BY <1>1, <2>2, <2>4, <4>1, <4>3, <4>4, <4>5
    <3>7. QED
        BY <3>4, <3>5, <3>6
  <2>5. QED
      BY <2>1, <2>2, <2>3, <2>4 DEF Placed
<1>3. \A i \in Indexes : i >= v => i >= w
    BY <1>1, CountFacts
<1>4. QED
    BY <1>2, <1>3 DEF Good

LEMMA GrowFacts ==
    ASSUME MapInv, NEW size
    PROVE  Grow(size) \in Nat /\ Grow(size) + 1 \in Counts /\ my_mask <= Grow(size)
<1>1. PICK n \in Nat : n = Len(BucketCounts)
    BY MapAssumption
<1>2. \A i \in 1..n : BucketCounts[i] \in Counts /\ BucketCounts[i] \in Nat /\ BucketCounts[i] >= 1
    BY <1>1, CountFacts, PowerNat DEF Counts
<1>3. \A i, j \in 1..n : i < j => BucketCounts[i] < BucketCounts[j]
    BY <1>1, MapAssumption
<1>4. my_mask \in Nat /\ my_mask + 1 \in Counts
    BY DEF MapInv
<1>5. CASE ~(size >= my_mask /\ \E i \in 1..n : BucketCounts[i] > my_mask + 1)
  <2>1. Grow(size) = my_mask
      BY <1>1, <1>5 DEF Grow
  <2>2. QED
      BY <1>4, <2>1
<1>6. CASE size >= my_mask /\ \E i \in 1..n : BucketCounts[i] > my_mask + 1
  <2>1. PICK i \in 1..n : BucketCounts[i] > my_mask + 1
      BY <1>6
  <2>2. PICK k \in 1..n : BucketCounts[k] = my_mask + 1
      BY <1>1, <1>4 DEF Counts
  <2>3. ~(i < k) /\ i # k
      BY <1>2, <1>3, <1>4, <2>1, <2>2
  <2>4. k \in 1..n - 1
      BY <1>1, <2>3
  <2>5. PICK j : j = CHOOSE x \in 1..n - 1 : BucketCounts[x] = my_mask + 1
      OBVIOUS
  <2>6. j \in 1..n - 1 /\ BucketCounts[j] = my_mask + 1
      BY <2>2, <2>4, <2>5
  <2>7. j \in 1..n /\ j + 1 \in 1..n /\ j < j + 1
      BY <1>1, <2>6
  <2>8. my_mask + 1 < BucketCounts[j + 1] /\ BucketCounts[j + 1] \in Counts
        /\ BucketCounts[j + 1] \in Nat
      BY <1>2, <1>3, <2>6, <2>7
  <2>9. Grow(size) = BucketCounts[j + 1] - 1
      BY <1>1, <1>6, <2>5 DEF Grow
  <2>10. PICK b \in Nat : b = BucketCounts[j + 1]
      BY <2>8
  <2>11. b - 1 \in Nat /\ (b - 1) + 1 = b /\ my_mask <= b - 1
      BY <1>4, <2>8, <2>10
  <2>12. QED
      BY <2>8, <2>9, <2>10, <2>11
<1>7. QED
    BY <1>5, <1>6

\* List l can be the one of bucket c: its nodes were there, or a lookup looks there.
Fits(l, bs, w, c) ==
    /\ l \in Seq(ClientNodes) /\ \A n : ~Before(l, n, n)
    /\ \A n : Has(l, n) => Has(bs[c].list, n) \/ (n \in ClientNodes /\ c = Hash[n.key] % w)

WithList(bs, c, l) == [bs EXCEPT ![c].list = l]

\* One list of the table changes.
LEMMA GoodExcept ==
    ASSUME NEW w \in Counts, NEW bs, Good(bs, w), NEW c \in Indexes, ~bs[c].rehash_req,
           NEW l, Fits(l, bs, w, c), NEW cs, cs = WithList(bs, c, l)
    PROVE  /\ Good(cs, w) /\ cs[c].list = l
           /\ \A i \in Indexes : i # c => cs[i] = bs[i]
<1>2. bs \in Tables /\ w \in Powers /\ w \in Nat
    BY CountFacts, PowerNat DEF Good
<1>3. /\ cs \in Tables /\ cs[c].list = l
      /\ \A i \in Indexes : i # c => cs[i] = bs[i]
      /\ cs[c].rehash_req = bs[c].rehash_req
    BY <1>2 DEF Tables, Fits, WithList
<1>4. \A i \in Indexes : cs[i].rehash_req = bs[i].rehash_req
    BY <1>3
<1>5. ASSUME NEW i \in Indexes, NEW n, Has(cs[i].list, n) PROVE Placed(cs, w, n, i)
  <2>1. n \in ClientNodes /\ Hash[n.key] \in Nat
      BY <1>3, <1>5, HasNode
  <2>2. PICK h \in Nat : h = Hash[n.key]
      BY <2>1
  <2>3. ASSUME NEW p \in Powers, p <= w PROVE cs[h % p].rehash_req = bs[h % p].rehash_req
    <3>1. p \in Nat /\ h % p \in 0..p - 1
        BY PowerNat, ModFacts
    <3>2. h % p \in 0..w - 1
        BY <1>2, <2>3, <3>1
    <3>3. QED
        BY <1>4, <3>2, CountFacts
  <2>4. CASE Has(bs[i].list, n)
    <3>1. Placed(bs, w, n, i)
        BY <2>4 DEF Good
    <3>2. QED
        BY <2>2, <2>3, <3>1 DEF Placed
  <2>5. CASE ~Has(bs[i].list, n)
    <3>1. i = c /\ c = h % w
        BY <1>3, <1>5, <2>2, <2>5 DEF Fits
    <3>2. w <= w /\ \A p \in Powers : w <= p /\ p <= w => p = w
        BY <1>2, PowerNat
    <3>3. QED
        BY <1>2, <2>2, <3>1, <3>2 DEF Placed
  <2>6. QED
      BY <2>4, <2>5
<1>6. /\ ~cs[0].rehash_req
      /\ \A i \in Indexes : cs[i].rehash_req => cs[i].list = <<>>
      /\ \A i \in Indexes : i >= w => cs[i].rehash_req
    BY <1>3, <1>4, CountFacts DEF Good
<1>7. \A i \in Indexes : \A n : ~Before(cs[i].list, n, n)
    BY <1>3 DEF Good, Fits
<1>8. Good(cs, w)
    BY <1>3, <1>5, <1>6, <1>7 DEF Good
<1>9. QED
    BY <1>3, <1>8

\* insert of a client that is not there.
LEMMA InsertFacts ==
    ASSUME MapInv, NEW s \in Slots, client[s] = 0, joined \in Nat, joined < MaxClients,
           client' = [client EXCEPT ![s] = joined + 1],
           Insert([key |-> s, conn |-> joined + 1])
    PROVE  MapInv'
<1>1. PICK n : n = [key |-> s, conn |-> joined + 1]
    OBVIOUS
<1>2. n \in ClientNodes /\ n.key = s /\ n.conn = joined + 1
    BY <1>1, MessagesAssumption DEF ClientNodes, Conns
<1>3. PICK w \in Counts : w = my_mask + 1
    BY DEF MapInv
<1>4. PICK c \in Indexes : c = Home(s) /\ c = Hash[s] % w
    BY <1>3, HomeFacts
<1>5. PICK cs : cs = Acquire(c)
    OBVIOUS
<1>6. Good(cs, w) /\ ~cs[c].rehash_req /\ \A m : Holds(cs, m) <=> Holds(buckets, m)
    BY <1>3, <1>4, <1>5, LookupAcquires DEF Acquired
<1>7. PICK l : l = cs[c].list
    OBVIOUS
<1>8. l \in Seq(ClientNodes)
    BY <1>6, <1>7 DEF Good, Tables
<1>9. PICK k : k = <<n>> \o l
    OBVIOUS
<1>10. /\ k \in Seq(ClientNodes)
       /\ \A a : Has(k, a) <=> Has(l, a) \/ a = n
       /\ \A a, b : Before(k, a, b) <=> Before(l, a, b) \/ (a = n /\ Has(l, b))
    BY <1>2, <1>8, <1>9, ConsFacts
<1>11. ~Holds(buckets, n)
  <2>1. \A t \in Slots : Node(t).key = t
      BY DEF Node
  <2>2. QED
      BY <1>2, <2>1 DEF MapInv
<1>12. ~Has(l, n)
    BY <1>6, <1>7, <1>11 DEF Holds
<1>13. \A a : ~Before(k, a, a)
    BY <1>6, <1>7, <1>10, <1>12 DEF Good
<1>14. PICK ds : ds = WithList(cs, c, k)
    OBVIOUS
<1>15. /\ Good(ds, w) /\ ds[c].list = k
       /\ \A i \in Indexes : i # c => ds[i] = cs[i]
  <2>1. \A m : Has(k, m) => Has(cs[c].list, m) \/ (m \in ClientNodes /\ c = Hash[m.key] % w)
      BY <1>2, <1>4, <1>7, <1>10
  <2>2. Fits(k, cs, w, c)
      BY <1>10, <1>13, <2>1 DEF Fits
  <2>3. QED
      BY <1>6, <1>14, <2>2, GoodExcept
<1>16. buckets' = ds /\ my_mask' = Grow(my_size + 1)
    BY <1>2, <1>1, <1>4, <1>5, <1>7, <1>9, <1>14 DEF Insert, WithList
<1>17. PICK g \in Nat : g = Grow(my_size + 1) /\ g + 1 \in Counts /\ my_mask <= g
    BY GrowFacts
<1>18. Good(ds, g + 1)
  <2>1. w <= g + 1
      BY <1>3, <1>17 DEF MapInv
  <2>2. QED
      BY <1>15, <1>17, <2>1, GoodGrows
<1>19. \A m : Holds(ds, m) <=> Holds(buckets, m) \/ m = n
    BY <1>6, <1>7, <1>10, <1>15 DEF Holds
<1>20. client \in [Slots -> 0..MaxClients]
    BY DEF MapInv
<1>21. client' \in [Slots -> 0..MaxClients]
    BY <1>20, MessagesAssumption
<1>22. client'[s] = joined + 1 /\ joined + 1 # 0 /\ \A t \in Slots : t # s => client'[t] = client[t]
    BY <1>20
<1>23. Node(s)' = n /\ \A t \in Slots : t # s => Node(t)' = Node(t)
    BY <1>1, <1>22 DEF Node
<1>24. \A m : Holds(ds, m) <=> \E t \in Slots : client'[t] # 0 /\ m = Node(t)'
    BY <1>19, <1>22, <1>23 DEF MapInv
<1>25. Good(buckets, my_mask + 1)'
    BY <1>16, <1>17, <1>18 DEF Good, Placed
<1>26. \A m : Holds(buckets, m)' <=> Holds(ds, m)
    BY <1>16 DEF Holds
<1>27. QED
    BY <1>16, <1>17, <1>21, <1>24, <1>25, <1>26 DEF MapInv

\* erase of a client that is there.
LEMMA EraseFacts ==
    ASSUME MapInv, NEW s \in Slots, client[s] # 0,
           client' = [client EXCEPT ![s] = 0], Erase(Node(s))
    PROVE  /\ MapInv'
           /\ my_mask' = my_mask
           /\ AtHome(buckets, my_mask + 1) =>
                 \A i \in Indexes : \A a, b :
                    /\ Has(buckets'[i].list, a) <=> Has(buckets[i].list, a) /\ a # Node(s)
                    /\ Before(buckets'[i].list, a, b) <=>
                          Before(buckets[i].list, a, b) /\ a # Node(s) /\ b # Node(s)
<1>1. PICK n : n = Node(s) /\ n.key = s
    BY DEF Node
<1>2. PICK w \in Counts : w = my_mask + 1
    BY DEF MapInv
<1>3. PICK c \in Indexes : c = Home(s) /\ c = Hash[s] % w
    BY <1>2, HomeFacts
<1>4. PICK cs : cs = Acquire(c)
    OBVIOUS
<1>5. /\ Good(cs, w) /\ ~cs[c].rehash_req /\ \A m : Holds(cs, m) <=> Holds(buckets, m)
      /\ AtHome(buckets, w) => SameLists(buckets, cs)
    BY <1>2, <1>3, <1>4, LookupAcquires DEF Acquired
<1>6. PICK l : l = cs[c].list
    OBVIOUS
<1>7. l \in Seq(ClientNodes)
    BY <1>5, <1>6 DEF Good, Tables
<1>8. PICK k : k = Unlink(l, Listed(cs[c]) \ {n})
    OBVIOUS
<1>9. \A a : Has(l, a) <=> a \in Listed(cs[c])
    BY <1>6 DEF Has, Listed
<1>10. /\ k \in Seq(ClientNodes)
       /\ \A a : Has(k, a) <=> Has(l, a) /\ a # n
       /\ \A a, b : Before(k, a, b) <=> Before(l, a, b) /\ a # n /\ b # n
  <2>1. /\ k \in Seq(ClientNodes)
        /\ \A a : Has(k, a) <=> a \in Listed(cs[c]) \ {n} /\ Has(l, a)
        /\ \A a, b : Before(k, a, b) <=>
              a \in Listed(cs[c]) \ {n} /\ b \in Listed(cs[c]) \ {n} /\ Before(l, a, b)
      BY <1>7, <1>8, UnlinkFacts
  <2>2. QED
      BY <2>1, <1>9, BeforeHas
<1>11. PICK ds : ds = WithList(cs, c, k)
    OBVIOUS
<1>12. /\ Good(ds, w) /\ ds[c].list = k
       /\ \A i \in Indexes : i # c => ds[i] = cs[i]
  <2>1. \A m : Has(k, m) => Has(cs[c].list, m)
      BY <1>6, <1>10
  <2>2. \A m : ~Before(k, m, m)
      BY <1>5, <1>6, <1>10 DEF Good
  <2>3. Fits(k, cs, w, c)
      BY <1>10, <2>1, <2>2 DEF Fits
  <2>4. QED
      BY <1>5, <1>11, <2>3, GoodExcept
<1>13. buckets' = ds /\ my_mask' = my_mask
    BY <1>1, <1>3, <1>4, <1>6, <1>8, <1>11 DEF Erase, WithList
<1>14. \A i \in Indexes : Has(cs[i].list, n) => i = c
    BY <1>1, <1>3, <1>5, FoundAtHome
<1>15. \A i \in Indexes : \A a, b :
          /\ Has(ds[i].list, a) <=> Has(cs[i].list, a) /\ a # n
          /\ Before(ds[i].list, a, b) <=> Before(cs[i].list, a, b) /\ a # n /\ b # n
    BY <1>6, <1>10, <1>12, <1>14, BeforeHas
<1>16. \A m : Holds(ds, m) <=> Holds(buckets, m) /\ m # n
    BY <1>5, <1>15 DEF Holds
<1>17. client \in [Slots -> 0..MaxClients]
    BY DEF MapInv
<1>18. client' \in [Slots -> 0..MaxClients]
    BY <1>17, MessagesAssumption
<1>19. client'[s] = 0 /\ \A t \in Slots : t # s => client'[t] = client[t]
    BY <1>17
<1>20. \A t \in Slots : Node(t).key = t /\ (t # s => Node(t)' = Node(t))
    BY <1>19 DEF Node
<1>21. \A m : Holds(ds, m) <=> \E t \in Slots : client'[t] # 0 /\ m = Node(t)'
    BY <1>1, <1>16, <1>19, <1>20 DEF MapInv
<1>22. Good(buckets, my_mask + 1)'
    BY <1>2, <1>12, <1>13 DEF Good, Placed
<1>23. \A m : Holds(buckets, m)' <=> Holds(ds, m)
    BY <1>13 DEF Holds
<1>24. MapInv'
    BY <1>13, <1>18, <1>21, <1>22, <1>23 DEF MapInv
<1>25. ASSUME AtHome(buckets, w), NEW i \in Indexes, NEW a, NEW b
       PROVE  /\ Has(ds[i].list, a) <=> Has(buckets[i].list, a) /\ a # n
              /\ Before(ds[i].list, a, b) <=> Before(buckets[i].list, a, b) /\ a # n /\ b # n
    BY <1>5, <1>15, <1>25 DEF SameLists
<1>26. QED
    BY <1>1, <1>2, <1>13, <1>24, <1>25

-----------------------------------------------------------------------------
(* The iterator.                                                           *)

\* The order of a list without repetition.
LEMMA OrderFacts ==
    ASSUME NEW T, NEW l \in Seq(T), \A n : ~Before(l, n, n)
    PROVE  /\ \A p, q \in 1..Len(l) : l[p] = l[q] => p = q
           /\ \A a, b : Has(l, a) /\ Has(l, b) => a = b \/ Before(l, a, b) \/ Before(l, b, a)
           /\ \A a, b : ~(Before(l, a, b) /\ Before(l, b, a))
<1>1. PICK n \in Nat : n = Len(l)
    OBVIOUS
<1>2. \A p, q \in 1..n : p = q \/ p < q \/ q < p
    BY <1>1
<1>3. \A p, q \in 1..n : l[p] = l[q] => p = q
    BY <1>1, <1>2 DEF Before
<1>4. \A a, b : Has(l, a) /\ Has(l, b) => a = b \/ Before(l, a, b) \/ Before(l, b, a)
    BY <1>1, <1>2 DEF Before, Has
<1>5. ASSUME NEW a, NEW b, Before(l, a, b), Before(l, b, a) PROVE FALSE
  <2>1. PICK p, q \in 1..n : p < q /\ l[p] = a /\ l[q] = b
      BY <1>1, <1>5 DEF Before
  <2>2. PICK i, j \in 1..n : i < j /\ l[i] = b /\ l[j] = a
      BY <1>1, <1>5 DEF Before
  <2>3. i = q /\ j = p
      BY <1>3, <2>1, <2>2
  <2>4. QED
      BY <1>1, <2>1, <2>2, <2>3
<1>6. QED
    BY <1>1, <1>3, <1>4, <1>5

LEMMA HeadFacts ==
    ASSUME NEW T, NEW l \in Seq(T), \A n : ~Before(l, n, n), l # <<>>
    PROVE  Head(l) \in T /\ Has(l, Head(l)) /\ \A x : ~Before(l, x, Head(l))
<1>1. PICK n \in Nat : n = Len(l) /\ n >= 1
    OBVIOUS
<1>2. Head(l) = l[1] /\ 1 \in 1..n
    BY <1>1
<1>3. Has(l, Head(l)) /\ Head(l) \in T
    BY <1>1, <1>2 DEF Has
<1>4. ASSUME NEW x, Before(l, x, Head(l)) PROVE FALSE
  <2>1. PICK p, q \in 1..n : p < q /\ l[p] = x /\ l[q] = l[1]
      BY <1>1, <1>2, <1>4 DEF Before
  <2>2. q = 1
      BY <1>1, <1>2, <2>1, OrderFacts
  <2>3. QED
      BY <1>1, <2>1, <2>2
<1>5. QED
    BY <1>3, <1>4

\* The node after the one at position p.
LEMMA SuccFacts ==
    ASSUME NEW T, NEW l \in Seq(T), \A n : ~Before(l, n, n), NEW p \in 1..Len(l)
    PROVE  /\ p < Len(l) => /\ l[p + 1] \in T /\ Has(l, l[p + 1]) /\ l[p + 1] # l[p]
                            /\ \A x : Before(l, x, l[p + 1]) <=> x = l[p] \/ Before(l, x, l[p])
           /\ ~(p < Len(l)) => \A x : Has(l, x) => x = l[p] \/ Before(l, x, l[p])
<1>1. PICK n \in Nat : n = Len(l)
    OBVIOUS
<1>2. \A i, j \in 1..n : l[i] = l[j] => i = j
    BY <1>1, OrderFacts
<1>3. p \in 1..n
    BY <1>1
<1>4. ASSUME p < n
      PROVE  /\ l[p + 1] \in T /\ Has(l, l[p + 1]) /\ l[p + 1] # l[p]
             /\ \A x : Before(l, x, l[p + 1]) <=> x = l[p] \/ Before(l, x, l[p])
  <2>1. PICK k \in 1..n : k = p + 1 /\ p < k
      BY <1>1, <1>3, <1>4
  <2>2. l[k] \in T /\ Has(l, l[k]) /\ l[k] # l[p]
    <3>1. k # p
        BY <1>1, <1>3, <2>1
    <3>2. QED
        BY <1>1, <1>2, <1>3, <3>1 DEF Has
  <2>3. ASSUME NEW x, Before(l, x, l[k]) PROVE x = l[p] \/ Before(l, x, l[p])
    <3>1. PICK i, j \in 1..n : i < j /\ l[i] = x /\ l[j] = l[k]
        BY <1>1, <2>3 DEF Before
    <3>2. j = k
        BY <1>2, <3>1
    <3>3. i = p \/ i < p
        BY <1>1, <1>3, <2>1, <3>1, <3>2
    <3>4. QED
        BY <1>1, <1>3, <3>1, <3>3 DEF Before
  <2>4. Before(l, l[p], l[k])
      BY <1>1, <1>3, <2>1 DEF Before
  <2>5. ASSUME NEW x, Before(l, x, l[p]) PROVE Before(l, x, l[k])
    <3>1. PICK i, j \in 1..n : i < j /\ l[i] = x /\ l[j] = l[p]
        BY <1>1, <2>5 DEF Before
    <3>2. j = p
        BY <1>2, <1>3, <3>1
    <3>3. i < k
        BY <1>1, <1>3, <2>1, <3>1, <3>2
    <3>4. QED
        BY <1>1, <3>1, <3>3 DEF Before
  <2>6. QED
      BY <2>1, <2>2, <2>3, <2>4, <2>5
<1>5. ASSUME ~(p < n), NEW x, Has(l, x) PROVE x = l[p] \/ Before(l, x, l[p])
  <2>1. PICK i \in 1..n : l[i] = x
      BY <1>1, <1>5 DEF Has
  <2>2. i = p \/ i < p
      BY <1>1, <1>3, <1>5
  <2>3. QED
      BY <1>1, <1>3, <2>1, <2>2 DEF Before
<1>6. QED
    BY <1>1, <1>4, <1>5

\* A node is in one bucket only.
LEMMA NodeOnce ==
    ASSUME NEW w, NEW bs, Good(bs, w), NEW i \in Indexes, NEW j \in Indexes, NEW n,
           Has(bs[i].list, n), Has(bs[j].list, n), w \in Counts
    PROVE  i = j
<1>1. PICK q \in Powers :
         /\ q <= w /\ i = Hash[n.key] % q
         /\ \A p \in Powers : (q <= p /\ p <= w /\ Hash[n.key] % p # i) =>
               bs[Hash[n.key] % p].rehash_req
    BY DEF Good, Placed
<1>2. PICK r \in Powers :
         /\ r <= w /\ j = Hash[n.key] % r
         /\ \A p \in Powers : (r <= p /\ p <= w /\ Hash[n.key] % p # j) =>
               bs[Hash[n.key] % p].rehash_req
    BY DEF Good, Placed
<1>3. ~bs[i].rehash_req /\ ~bs[j].rehash_req
    BY EmptyHas DEF Good
<1>4. q <= r \/ r <= q
    BY PowerNat
<1>5. QED
    BY <1>1, <1>2, <1>3, <1>4

LEMMA NodesHeld == \A n : n \in Nodes <=> Holds(buckets, n)
  BY DEF Nodes, Holds, Listed, Has

\* advance_to_next_bucket finds the first node from bucket k on.
LEMMA AdvanceFacts ==
    ASSUME MapInv, NEW k \in Nat
    PROVE  \/ /\ AdvanceFrom(k) = EndIter
              /\ \A i \in Indexes : k <= i => \A x : ~Has(buckets[i].list, x)
           \/ \E j \in Indexes, m \in ClientNodes :
              /\ AdvanceFrom(k) = [my_index |-> j, my_node |-> <<m>>]
              /\ k <= j /\ Has(buckets[j].list, m)
              /\ \A x : ~Before(buckets[j].list, x, m)
              /\ \A i \in Indexes : (k <= i /\ i < j) => \A x : ~Has(buckets[i].list, x)
<1>1. PICK w \in Counts : w = my_mask + 1 /\ my_mask \in Nat /\ Good(buckets, w)
    BY DEF MapInv
<1>2. w \in Nat /\ 0..w - 1 \subseteq Indexes /\ Indexes \subseteq Nat
    BY CountFacts, PowerNat
<1>3. \A i \in Indexes : buckets[i].list \in Seq(ClientNodes) /\ \A n : ~Before(buckets[i].list, n, n)
    BY <1>1 DEF Good, Tables
<1>4. \A i \in Indexes : ~(i \in 0..my_mask) => \A x : ~Has(buckets[i].list, x)
  <2>1. ASSUME NEW i \in Indexes, ~(i \in 0..my_mask) PROVE i >= w
      BY <1>1, <1>2, <2>1
  <2>2. QED
      BY <1>1, <2>1, EmptyHas DEF Good
<1>5. PICK full : full = {j \in k..my_mask : buckets[j].list # <<>>}
    OBVIOUS
<1>6. full \subseteq Indexes /\ full \subseteq Nat
    BY <1>1, <1>2, <1>5
<1>7. \A i \in Indexes : k <= i /\ i \notin full => \A x : ~Has(buckets[i].list, x)
  <2>1. ASSUME NEW i \in Indexes, k <= i, i \notin full, NEW x PROVE ~Has(buckets[i].list, x)
    <3>1. CASE i \in 0..my_mask
      <4>1. i \in k..my_mask
          BY <1>1, <2>1, <3>1
      <4>2. buckets[i].list = <<>>
          BY <1>5, <2>1, <4>1
      <4>3. QED
          BY <4>2, EmptyHas
    <3>2. QED
        BY <1>4, <3>1
  <2>2. QED
      BY <2>1
<1>8. CASE full = {}
    BY <1>5, <1>7, <1>8 DEF AdvanceFrom
<1>9. CASE full # {}
  <2>1. PICK j : j = CHOOSE x \in full : \A i \in full : x <= i
      OBVIOUS
  <2>2. j \in full /\ \A i \in full : j <= i
      BY <1>6, <1>9, <2>1, SmallestNat
  <2>3. AdvanceFrom(k) = [my_index |-> j, my_node |-> <<Head(buckets[j].list)>>]
      BY <1>5, <1>9, <2>1 DEF AdvanceFrom
  <2>4. j \in Indexes /\ k <= j /\ buckets[j].list # <<>> /\ j \in Nat
      BY <1>5, <1>6, <2>2
  <2>5. PICK m : m = Head(buckets[j].list)
      OBVIOUS
  <2>6. m \in ClientNodes /\ Has(buckets[j].list, m) /\ \A x : ~Before(buckets[j].list, x, m)
      BY <1>3, <2>4, <2>5, HeadFacts
  <2>7. ASSUME NEW i \in Indexes, k <= i, i < j PROVE \A x : ~Has(buckets[i].list, x)
    <3>1. i \notin full
        BY <1>2, <2>2, <2>4, <2>7
    <3>2. QED
        BY <1>7, <2>7, <3>1
  <2>8. QED
      BY <2>3, <2>4, <2>5, <2>6, <2>7
<1>10. QED
    BY <1>8, <1>9

BucketOf(n) == CHOOSE i \in Indexes : n \in Listed(buckets[i])
PlaceIn(l, n) == CHOOSE p \in 1..Len(l) : l[p] = n

\* operator++ goes on from node n, which is in bucket o now.
LEMMA IncrementFacts ==
    ASSUME MapInv, NEW it, NEW n, it.my_node[1] = n, NEW o \in Indexes, Has(buckets[o].list, n)
    PROVE  \/ /\ Increment(it) = AdvanceFrom(it.my_index + 1)
              /\ \A x : Has(buckets[o].list, x) => x = n \/ Before(buckets[o].list, x, n)
           \/ \E m \in ClientNodes :
              /\ Increment(it) = [it EXCEPT !.my_node = <<m>>]
              /\ Has(buckets[o].list, m) /\ m # n
              /\ \A x : Before(buckets[o].list, x, m) <=> x = n \/ Before(buckets[o].list, x, n)
<1>1. PICK w \in Counts : Good(buckets, w)
    BY DEF MapInv
<1>2. PICK i : i = BucketOf(n)
    OBVIOUS
<1>3. \A j \in Indexes : n \in Listed(buckets[j]) <=> Has(buckets[j].list, n)
    BY DEF Listed, Has
<1>4. i \in Indexes /\ Has(buckets[i].list, n)
    BY <1>2, <1>3 DEF BucketOf
<1>5. i = o
    BY <1>1, <1>4, NodeOnce
<1>6. PICK l : l = buckets[o].list
    OBVIOUS
<1>7. l \in Seq(ClientNodes) /\ \A x : ~Before(l, x, x)
    BY <1>1, <1>6 DEF Good, Tables
<1>8. PICK p : p = PlaceIn(l, n)
    OBVIOUS
<1>9. p \in 1..Len(l) /\ l[p] = n
    BY <1>6, <1>8 DEF Has, PlaceIn
<1>10. Increment(it) = IF p < Len(l) THEN [it EXCEPT !.my_node = <<l[p + 1]>>]
                       ELSE AdvanceFrom(it.my_index + 1)
  <2>1. Increment(it) =
          LET at == it.my_node[1]
              here == buckets[BucketOf(at)].list
          IN  IF PlaceIn(here, at) < Len(here)
              THEN [it EXCEPT !.my_node = <<here[PlaceIn(here, at) + 1]>>]
              ELSE AdvanceFrom(it.my_index + 1)
      BY DEF Increment, BucketOf, PlaceIn
  <2>2. QED
      BY <1>2, <1>5, <1>6, <1>8, <2>1
<1>11. CASE p < Len(l)
  <2>1. PICK m : m = l[p + 1]
      OBVIOUS
  <2>2. m \in ClientNodes /\ Has(l, m) /\ m # n /\ \A x : Before(l, x, m) <=> x = n \/ Before(l, x, n)
    <3>1. /\ l[p + 1] \in ClientNodes /\ Has(l, l[p + 1]) /\ l[p + 1] # l[p]
          /\ \A x : Before(l, x, l[p + 1]) <=> x = l[p] \/ Before(l, x, l[p])
        BY <1>7, <1>9, <1>11, SuccFacts
    <3>2. QED
        BY ONLY <1>9, <2>1, <3>1
  <2>3. QED
      BY <1>6, <1>10, <1>11, <2>1, <2>2
<1>12. CASE ~(p < Len(l))
  <2>1. \A x : Has(l, x) => x = n \/ Before(l, x, n)
      BY <1>7, <1>9, <1>12, SuccFacts
  <2>2. QED
      BY <1>6, <1>10, <1>12, <2>1
<1>13. QED
    BY <1>11, <1>12

-----------------------------------------------------------------------------
(* The map is right whatever the threads do.                               *)

Iters == [my_index : Nat, my_node : Seq(ClientNodes)]
Calls == [step : {"idle", "begin", "next", "find", "join", "ended"},
          type : {"none", "broadcast", "target", "except"}, target : Slots \cup {0},
          at : Iters, ok : BOOLEAN, stay : SUBSET Conns, queued : [Conns -> Nat],
          settled : BOOLEAN]
Walks == {"broadcast", "except"}

\* The application knows which client it looks up.
AppInv ==
    /\ call \in Calls /\ sends \in 0..MaxCalls
    /\ call.step \in {"begin", "next", "find"} => sends >= 1
    /\ call.step \in {"begin", "next"} => call.type \in Walks
    /\ call.step \in {"next", "find"} =>
          \/ call.type = "target" /\ call.target \in Slots
          \/ call.type \in Walks /\ \E n \in ClientNodes : call.at.my_node = <<n>>

\* SendThread knows which client its copy is for.
QueueInv ==
    /\ Send_Data_Queue \in Seq(Copy)
    /\ sender \in [step : {"test", "loop", "find", "send", "exited"}, copy : Copy \cup {NoCopy}]
    /\ sender.step \in {"find", "send"} => sender.copy \in Copy
    /\ sender.step \in {"loop", "test", "exited"} => sender.copy = NoCopy
    /\ copies \in Nat

Basics == MapInv /\ AppInv /\ QueueInv /\ joined \in 0..MaxClients

LEMMA SoughtFacts == AppInv /\ call.step = "find" => Sought \in Slots
<1>1. SUFFICES ASSUME AppInv, call.step = "find" PROVE Sought \in Slots
    OBVIOUS
<1>2. CASE call.type = "target"
    BY <1>1, <1>2 DEF AppInv, Sought, Walks
<1>3. CASE call.type # "target"
  <2>1. PICK n \in ClientNodes : call.at.my_node = <<n>>
      BY <1>1, <1>3 DEF AppInv
  <2>2. QED
      BY <1>3, <2>1 DEF Sought, ClientNodes
<1>4. QED
    BY <1>2, <1>3

LEMMA MapSame == ASSUME MapInv, UNCHANGED <<mapVars, client>> PROVE MapInv'
<1>1. \A s \in Slots : Node(s)' = Node(s)
    BY DEF Node
<1>2. buckets' = buckets /\ my_mask' = my_mask /\ client' = client
    BY DEF mapVars
<1>3. Good(buckets, my_mask + 1)'
    BY <1>2 DEF MapInv, Good, Placed
<1>4. \A n : Holds(buckets, n)' <=> Holds(buckets, n)
    BY <1>2 DEF Holds
<1>5. QED
    BY <1>1, <1>2, <1>3, <1>4 DEF MapInv

LEMMA NoCallFacts == NoCall \in Calls /\ NoCall.step = "idle" /\ NoCall.type = "none"
                     /\ NoCall.ok = FALSE /\ EndIter \in Iters
<1>1. EndIter \in Iters
    BY DEF EndIter, Iters
<1>2. QED
    BY <1>1 DEF NoCall, Calls

LEMMA InitBasics == Init => Basics
<1>1. SUFFICES ASSUME Init PROVE Basics
    OBVIOUS
<1>2. PICK w \in Counts : w = BucketCounts[1]
    BY CountFacts
<1>3. w \in Nat /\ w >= 1 /\ w \in Powers
    BY CountFacts, PowerNat
<1>4. my_mask \in Nat /\ my_mask + 1 = w
    BY <1>1, <1>2, <1>3 DEF Init, MapInit
<1>5. \A i \in Indexes : buckets[i] = IF i < w THEN Bucket(<<>>) ELSE RehashReq
    BY <1>1, <1>2 DEF Init, MapInit
<1>6. \A i \in Indexes : buckets[i].list = <<>> /\ (buckets[i].rehash_req <=> ~(i < w))
    BY <1>5 DEF Bucket, RehashReq
<1>7. <<>> \in Seq(ClientNodes)
    BY EmptySeq
<1>8. buckets \in Tables
  <2>1. buckets = [i \in Indexes |-> IF i < w THEN Bucket(<<>>) ELSE RehashReq]
      BY <1>1, <1>2 DEF Init, MapInit
  <2>2. Bucket(<<>>) \in [rehash_req : BOOLEAN, list : Seq(ClientNodes)]
        /\ RehashReq \in [rehash_req : BOOLEAN, list : Seq(ClientNodes)]
      BY <1>7 DEF Bucket, RehashReq
  <2>3. QED
      BY <2>1, <2>2 DEF Tables
<1>9. 0 \in Indexes /\ 0 < w
    BY <1>3, CountFacts
<1>10. \A i \in Indexes : i >= w => ~(i < w)
    BY <1>3, CountFacts
<1>11. \A i \in Indexes : \A a, b : ~Has(buckets[i].list, a) /\ ~Before(buckets[i].list, a, b)
    BY <1>6, EmptyHas
<1>12. Good(buckets, w)
    BY <1>6, <1>8, <1>9, <1>10, <1>11 DEF Good
<1>13. client \in [Slots -> 0..MaxClients] /\ \A s \in Slots : client[s] = 0
    BY <1>1, MessagesAssumption DEF Init
<1>14. MapInv
    BY <1>4, <1>11, <1>12, <1>13 DEF MapInv, Holds
<1>15. AppInv
    BY <1>1, NoCallFacts, MessagesAssumption DEF Init, AppInv
<1>16. QueueInv
  <2>1. <<>> \in Seq(Copy)
      BY EmptySeq
  <2>2. QED
      BY <1>1, <2>1 DEF Init, QueueInv
<1>17. QED
    BY <1>1, <1>14, <1>15, <1>16, MessagesAssumption DEF Basics, Init

LEMMA SendBasics ==
    ASSUME Basics, NEW type, NEW target, Send(type, target),
           \/ type = "broadcast" /\ target = 0
           \/ type \in {"target", "except"} /\ target \in Slots
    PROVE  Basics'
<1>1. MapInv'
    BY MapSame DEF Basics, Send
<1>2. QueueInv' /\ joined' \in 0..MaxClients
    BY DEF Basics, Send, QueueInv, memory
<1>3. AppInv'
  <2>1. {client[s] : s \in Slots} \ {0} \subseteq Conns
      BY MessagesAssumption DEF Basics, MapInv, Conns
  <2>2. Settled \in BOOLEAN
      BY DEF Settled
  <2>3. call' = [NoCall EXCEPT !.step = IF type = "target" THEN "find" ELSE "begin",
                              !.type = type, !.target = target,
                              !.stay = {client[s] : s \in Slots} \ {0},
                              !.settled = Settled]
      BY DEF Send
  <2>4. call' \in Calls /\ call'.step = (IF type = "target" THEN "find" ELSE "begin")
        /\ call'.type = type /\ call'.target = target
      BY <2>1, <2>2, <2>3, NoCallFacts DEF Calls
  <2>5. sends' \in 0..MaxCalls /\ sends' >= 1
      BY MessagesAssumption DEF Basics, AppInv, Send
  <2>6. QED
      BY <2>4, <2>5 DEF AppInv, Walks
<1>4. QED
    BY <1>1, <1>2, <1>3 DEF Basics

LEMMA OneNode == \A n \in ClientNodes : <<n>> \in Seq(ClientNodes)
  OBVIOUS

\* begin and ++ give a node, or the end.
LEMMA MoveIter ==
    ASSUME Basics, NEW it,
           \/ call.step = "begin" /\ it = BeginIter
           \/ call.step = "next" /\ call.at.my_node[1] \in Nodes /\ it = Increment(call.at)
    PROVE  /\ it \in Iters
           /\ it.my_node = <<>> \/ \E n \in ClientNodes : it.my_node = <<n>>
<1> USE DEF Basics
<1>1. \A k \in Nat : /\ AdvanceFrom(k) \in Iters
                     /\ AdvanceFrom(k).my_node = <<>> \/
                           \E n \in ClientNodes : AdvanceFrom(k).my_node = <<n>>
  <2>1. ASSUME NEW k \in Nat
        PROVE  /\ AdvanceFrom(k) \in Iters
               /\ AdvanceFrom(k).my_node = <<>> \/
                     \E n \in ClientNodes : AdvanceFrom(k).my_node = <<n>>
    <3>1. CASE AdvanceFrom(k) = EndIter
        BY <3>1, NoCallFacts DEF EndIter
    <3>2. ASSUME NEW j \in Indexes, NEW m \in ClientNodes,
                 AdvanceFrom(k) = [my_index |-> j, my_node |-> <<m>>]
          PROVE  AdvanceFrom(k) \in Iters /\ AdvanceFrom(k).my_node = <<m>>
      <4>1. j \in Nat
          BY CountFacts
      <4>2. QED
          BY <3>2, <4>1 DEF Iters
    <3>3. QED
        BY <3>1, <3>2, AdvanceFacts
  <2>2. QED
      BY <2>1
<1>2. CASE call.step = "begin" /\ it = BeginIter
    BY <1>1, <1>2 DEF BeginIter
<1>3. CASE call.step = "next" /\ call.at.my_node[1] \in Nodes /\ it = Increment(call.at)
  <2>1. PICK n : n = call.at.my_node[1]
      OBVIOUS
  <2>2. PICK o \in Indexes : Has(buckets[o].list, n)
      BY <1>3, <2>1, NodesHeld DEF Holds
  <2>3. call.at \in Iters
      BY DEF AppInv, Calls
  <2>4. CASE Increment(call.at) = AdvanceFrom(call.at.my_index + 1)
    <3>1. call.at.my_index + 1 \in Nat
        BY <2>3 DEF Iters
    <3>2. QED
        BY <1>1, <1>3, <2>4, <3>1
  <2>5. ASSUME NEW m \in ClientNodes, Increment(call.at) = [call.at EXCEPT !.my_node = <<m>>]
        PROVE  Increment(call.at) \in Iters /\ Increment(call.at).my_node = <<m>>
    <3>1. PICK at \in Iters : at = call.at
        BY <2>3
    <3>2. PICK l \in Seq(ClientNodes) : l = <<m>>
        BY OneNode
    <3>3. [at EXCEPT !.my_node = l] \in Iters /\ [at EXCEPT !.my_node = l].my_node = l
        BY ONLY <3>1, <3>2 DEF Iters
    <3>4. QED
        BY <2>5, <3>1, <3>2, <3>3
  <2>6. QED
      BY <1>3, <2>1, <2>2, <2>4, <2>5, IncrementFacts
<1>4. QED
    BY <1>2, <1>3

LEMMA MoveBasics == ASSUME Basics, Move PROVE Basics'
<1>1. MapInv'
    BY MapSame DEF Basics, Move
<1>2. QueueInv' /\ joined' \in 0..MaxClients
    BY DEF Basics, Move, QueueInv, memory
<1>3. AppInv'
  <2>1. PICK it : it = IF call.step = "begin" THEN BeginIter ELSE Increment(call.at)
      OBVIOUS
  <2>2. \/ call.step = "begin" /\ it = BeginIter
        \/ call.step = "next" /\ call.at.my_node[1] \in Nodes /\ it = Increment(call.at)
      BY <2>1 DEF Move
  <2>3. it \in Iters /\ (it.my_node = <<>> \/ \E n \in ClientNodes : it.my_node = <<n>>)
      BY <2>2, MoveIter
  <2>4. call' = IF it.my_node = <<>>
                THEN [call EXCEPT !.step = "idle", !.ok = TRUE]
                ELSE [call EXCEPT !.step = "find", !.at = it]
      BY <2>1 DEF Move
  <2>5. call \in Calls /\ sends \in 0..MaxCalls /\ sends >= 1 /\ call.type \in Walks
      BY <2>2 DEF Basics, AppInv
  <2>6. sends' = sends
      BY DEF Move
  <2>7. CASE it.my_node = <<>>
    <3>1. call' \in Calls /\ call'.step = "idle"
        BY <2>4, <2>5, <2>7 DEF Calls
    <3>2. QED
        BY <2>5, <2>6, <3>1 DEF AppInv
  <2>8. CASE it.my_node # <<>>
    <3>1. call' \in Calls /\ call'.step = "find" /\ call'.at = it /\ call'.type = call.type
        BY <2>3, <2>4, <2>5, <2>8 DEF Calls
    <3>2. QED
        BY <2>3, <2>5, <2>6, <2>8, <3>1 DEF AppInv
  <2>9. QED
      BY <2>7, <2>8
<1>4. QED
    BY <1>1, <1>2, <1>3 DEF Basics

LEMMA MoveFromErasedBasics == ASSUME Basics, MoveFromErased PROVE Basics'
<1>1. MapInv'
    BY MapSame DEF Basics, MoveFromErased
<1>2. QED
    BY <1>1 DEF Basics, MoveFromErased, QueueInv, AppInv, memory, app

LEMMA AbsentBasics == ASSUME Basics, Absent PROVE Basics'
<1>1. MapInv'
    BY SoughtFacts, FindFacts DEF Basics, Absent
<1>2. QueueInv' /\ joined' \in 0..MaxClients
  <2>1. copies' \in Nat
      BY DEF Absent, memory, Basics, QueueInv
  <2>2. QED
      BY <2>1 DEF Basics, Absent, QueueInv
<1>3. AppInv'
    BY NoCallFacts DEF Basics, Absent, AppInv
<1>4. QED
    BY <1>1, <1>2, <1>3 DEF Basics

LEMMA SkippedBasics == ASSUME Basics, Skipped PROVE Basics'
<1>1. MapInv'
    BY SoughtFacts, FindFacts DEF Basics, Skipped
<1>2. QueueInv' /\ joined' \in 0..MaxClients
    BY DEF Basics, Skipped, QueueInv, memory
<1>3. AppInv'
  <2>1. call \in Calls /\ call' = [call EXCEPT !.step = "next"] /\ call.type = "except"
      BY DEF Basics, AppInv, Skipped
  <2>2. call' \in Calls /\ call'.step = "next" /\ call'.type = "except" /\ call'.at = call.at
      BY <2>1 DEF Calls
  <2>3. \E n \in ClientNodes : call.at.my_node = <<n>>
      BY DEF Basics, AppInv, Skipped
  <2>4. sends' = sends /\ sends \in 0..MaxCalls /\ sends >= 1
      BY DEF Basics, AppInv, Skipped
  <2>5. QED
      BY <2>2, <2>3, <2>4 DEF AppInv, Walks
<1>4. QED
    BY <1>1, <1>2, <1>3 DEF Basics

\* What is queued, and for whom.
LEMMA QueuedFacts ==
    ASSUME Basics, Queued
    PROVE  \E n \in ClientNodes :
              /\ n = Node(Sought) /\ n.key = Sought /\ Sought \in Slots
              /\ client[Sought] # 0 /\ n.conn = client[Sought]
              /\ LET copy == [sock |-> n.key, conn |-> n.conn, send |-> sends, id |-> copies + 1]
                 IN  copy \in Copy /\ Send_Data_Queue' = Append(Send_Data_Queue, copy)
              /\ call' = [call EXCEPT !.queued[n.conn] = @ + 1,
                                      !.step = IF call.type = "target" THEN "idle" ELSE "next",
                                      !.ok = (call.type = "target")]
<1>1. Sought \in Slots
    BY SoughtFacts DEF Basics, Queued
<1>2. PICK n \in Lookup(Sought) :
          /\ Send_Data_Queue' = Append(Send_Data_Queue,
                 [sock |-> n.key, conn |-> n.conn, send |-> sends, id |-> copies + 1])
          /\ call' = [call EXCEPT !.queued[n.conn] = @ + 1,
                                  !.step = IF call.type = "target" THEN "idle" ELSE "next",
                                  !.ok = (call.type = "target")]
    BY DEF Queued
<1>3. client[Sought] # 0 /\ n = Node(Sought)
    BY <1>1, <1>2, LookupFacts DEF Basics
<1>4. n.key = Sought /\ n.conn = client[Sought]
    BY <1>3 DEF Node
<1>5. client[Sought] \in Conns
    BY <1>1, <1>3, MessagesAssumption DEF Basics, MapInv, Conns
<1>6. n \in ClientNodes
    BY <1>1, <1>3, <1>5 DEF ClientNodes, Node
<1>7. sends \in 1..MaxCalls /\ copies + 1 \in Nat
    BY MessagesAssumption DEF Basics, AppInv, QueueInv, Queued
<1>8. [sock |-> n.key, conn |-> n.conn, send |-> sends, id |-> copies + 1] \in Copy
    BY <1>1, <1>4, <1>5, <1>7 DEF Copy
<1>9. QED
    BY <1>1, <1>2, <1>3, <1>4, <1>6, <1>8

LEMMA QueuedBasics == ASSUME Basics, Queued PROVE Basics'
<1>1. MapInv'
    BY SoughtFacts, FindFacts DEF Basics, Queued
<1>2. PICK n \in ClientNodes :
          /\ LET copy == [sock |-> n.key, conn |-> n.conn, send |-> sends, id |-> copies + 1]
             IN  copy \in Copy /\ Send_Data_Queue' = Append(Send_Data_Queue, copy)
          /\ call' = [call EXCEPT !.queued[n.conn] = @ + 1,
                                  !.step = IF call.type = "target" THEN "idle" ELSE "next",
                                  !.ok = (call.type = "target")]
    BY QueuedFacts
<1>3. Send_Data_Queue' \in Seq(Copy)
    BY <1>2, AppendProperties DEF Basics, QueueInv
<1>4. copies' = copies + 1 /\ copies' \in Nat
    BY DEF Basics, QueueInv, Queued
<1>5. QueueInv' /\ joined' \in 0..MaxClients
    BY <1>3, <1>4 DEF Basics, Queued, QueueInv
<1>6. AppInv'
  <2>1. call \in Calls /\ n.conn \in Conns
      BY DEF Basics, AppInv, ClientNodes
  <2>2. PICK k : k = [call.queued EXCEPT ![n.conn] = @ + 1]
      OBVIOUS
  <2>3. k \in [Conns -> Nat]
      BY <2>1, <2>2 DEF Calls
  <2>4. call' = [call EXCEPT !.queued = k,
                             !.step = IF call.type = "target" THEN "idle" ELSE "next",
                             !.ok = (call.type = "target")]
      BY <1>2, <2>2
  <2>5. /\ call' \in Calls /\ call'.type = call.type /\ call'.at = call.at
        /\ call'.step = (IF call.type = "target" THEN "idle" ELSE "next")
      BY <2>1, <2>3, <2>4 DEF Calls
  <2>6. sends' = sends /\ sends \in 0..MaxCalls /\ sends >= 1
      BY DEF Basics, AppInv, Queued
  <2>7. call.type # "target" =>
           call.type \in Walks /\ \E m \in ClientNodes : call.at.my_node = <<m>>
      BY DEF Basics, AppInv, Queued
  <2>8. QED
      BY <2>5, <2>6, <2>7 DEF AppInv
<1>7. QED
    BY <1>1, <1>5, <1>6 DEF Basics

LEMMA SendThreadBasics == ASSUME Basics, SendThread PROVE Basics'
<1>1. AppInv' /\ joined' \in 0..MaxClients /\ copies' = copies
    BY DEF Basics, AppInv, SendThread, Pop, Drop, Hold, Transmit, SenderEmpty, SenderTest, Delete, app, memory
<1>2. MapInv'
  <2>1. CASE Pop \/ Transmit \/ SenderEmpty \/ SenderTest
      BY <2>1, MapSame DEF Basics, Pop, Transmit, SenderEmpty, SenderTest
  <2>2. CASE Drop \/ Hold
    <3>1. sender.copy.sock \in Slots /\ Find(sender.copy.sock) /\ client' = client
        BY <2>2 DEF Basics, QueueInv, Copy, Drop, Hold
    <3>2. QED
        BY <3>1, FindFacts DEF Basics
  <2>3. QED
      BY <2>1, <2>2 DEF SendThread
<1>3. QueueInv'
  <2>1. CASE Pop
    <3>1. Head(Send_Data_Queue) \in Copy /\ Tail(Send_Data_Queue) \in Seq(Copy)
        BY <2>1, HeadTailProperties DEF Pop, Basics, QueueInv
    <3>2. QED
        BY <1>1, <2>1, <3>1 DEF Pop, Basics, QueueInv
  <2>2. CASE Drop
      BY <1>1, <2>2 DEF Drop, Basics, QueueInv
  <2>3. CASE Hold
    <3>1. sender' \in [step : {"test", "loop", "find", "send", "exited"}, copy : Copy \cup {NoCopy}]
          /\ sender'.step = "send" /\ sender'.copy = sender.copy
        BY <2>3 DEF Hold, Basics, QueueInv
    <3>2. QED
        BY <1>1, <2>3, <3>1 DEF Hold, Basics, QueueInv
  <2>4. CASE Transmit
      BY <1>1, <2>4 DEF Transmit, Basics, QueueInv
  <2>5. CASE SenderEmpty \/ SenderTest
    <3>1. sender' \in [step : {"test", "loop", "find", "send", "exited"}, copy : Copy \cup {NoCopy}]
          /\ sender.step \in {"loop", "test"} /\ sender'.copy = sender.copy
        BY <2>5 DEF SenderEmpty, SenderTest, Basics, QueueInv
    <3>2. QED
        BY <1>1, <2>5, <3>1 DEF SenderEmpty, SenderTest, Basics, QueueInv
  <2>6. QED
      BY <2>1, <2>2, <2>3, <2>4, <2>5 DEF SendThread
<1>4. QED
    BY <1>1, <1>2, <1>3 DEF Basics

\* What the workers leave of the call.
LEMMA WorkerCall ==
    ASSUME Basics, NEW s \in Slots, AddClientSocket(s) \/ Delete_in_Socket_List(s)
    PROVE  /\ call' \in Calls /\ call'.step = call.step /\ call'.type = call.type
           /\ call'.target = call.target /\ call'.at = call.at /\ call'.ok = call.ok
           /\ call'.queued = call.queued
           /\ AddClientSocket(s) => /\ call'.settled = (call.settled /\ call.step = "idle")
                                    /\ call'.stay = call.stay
           /\ Delete_in_Socket_List(s) =>
                 /\ call'.settled = call.settled
                 /\ call'.stay = IF call.step = "idle" THEN call.stay ELSE call.stay \ {client[s]}
<1>1. call \in Calls
    BY DEF Basics, AppInv
<1>2. call.settled \in BOOLEAN /\ call.stay \in SUBSET Conns
    BY <1>1 DEF Calls
<1>3. CASE AddClientSocket(s)
  <2>1. PICK b \in BOOLEAN : b = (call.settled /\ call.step = "idle")
      BY <1>2
  <2>2. call' = [call EXCEPT !.settled = b]
      BY <1>3, <2>1 DEF AddClientSocket
  <2>3. /\ call' \in Calls /\ call'.step = call.step /\ call'.type = call.type
        /\ call'.target = call.target /\ call'.at = call.at /\ call'.ok = call.ok
        /\ call'.queued = call.queued /\ call'.settled = b /\ call'.stay = call.stay
      BY ONLY <1>1, <2>1, <2>2 DEF Calls
  <2>4. ~Delete_in_Socket_List(s)
      BY <1>3 DEF AddClientSocket, Delete_in_Socket_List
  <2>5. QED
      BY <2>1, <2>3, <2>4
<1>4. CASE Delete_in_Socket_List(s)
  <2>1. PICK t \in SUBSET Conns :
            t = IF call.step = "idle" THEN call.stay ELSE call.stay \ {client[s]}
      BY <1>2
  <2>2. call' = [call EXCEPT !.stay = t]
      BY <1>4, <2>1 DEF Delete_in_Socket_List
  <2>3. /\ call' \in Calls /\ call'.step = call.step /\ call'.type = call.type
        /\ call'.target = call.target /\ call'.at = call.at /\ call'.ok = call.ok
        /\ call'.queued = call.queued /\ call'.settled = call.settled /\ call'.stay = t
      BY ONLY <1>1, <2>1, <2>2 DEF Calls
  <2>4. ~AddClientSocket(s)
      BY <1>4 DEF AddClientSocket, Delete_in_Socket_List
  <2>5. QED
      BY <2>1, <2>3, <2>4
<1>5. QED
    BY <1>3, <1>4

LEMMA WorkThreadBasics == ASSUME Basics, WorkThread PROVE Basics'
<1>1. PICK s \in Slots : AddClientSocket(s) \/ Delete_in_Socket_List(s)
    BY DEF WorkThread
<1>2. AppInv'
  <2>1. sends' = sends
      BY <1>1 DEF AddClientSocket, Delete_in_Socket_List
  <2>2. QED
      BY <1>1, <2>1, WorkerCall DEF Basics, AppInv
<1>3. QueueInv'
    BY <1>1 DEF Basics, QueueInv, AddClientSocket, Delete_in_Socket_List, memory
<1>4. MapInv' /\ joined' \in 0..MaxClients
  <2>1. CASE AddClientSocket(s)
    <3>1. joined \in Nat /\ joined < MaxClients /\ joined' \in 0..MaxClients
        BY <2>1, MessagesAssumption DEF Basics, AddClientSocket
    <3>2. QED
        BY <2>1, <3>1, InsertFacts DEF Basics, AddClientSocket
  <2>2. CASE Delete_in_Socket_List(s)
      BY <2>2, EraseFacts DEF Basics, Delete_in_Socket_List
  <2>3. QED
      BY <1>1, <2>1, <2>2
<1>5. QED
    BY <1>2, <1>3, <1>4 DEF Basics

LEMMA EndBasics == ASSUME Basics, End \/ EndJoined PROVE Basics'
<1>1. MapInv' /\ joined' \in 0..MaxClients
    BY MapSame DEF Basics, End, EndJoined
<1>2. call' \in Calls /\ call'.step \in {"join", "ended"} /\ sends' = sends
    BY DEF Basics, AppInv, Calls, End, EndJoined
<1>3. AppInv'
    BY <1>2 DEF Basics, AppInv
<1>4. <<>> \in Seq(Copy)
    BY EmptySeq
<1>5. QueueInv'
    BY <1>4 DEF Basics, QueueInv, End, EndJoined, memory
<1>6. QED
    BY <1>1, <1>3, <1>5 DEF Basics

LEMMA StepBasics == Basics /\ [Next]_vars => Basics'
<1>1. SUFFICES ASSUME Basics, [Next]_vars PROVE Basics'
    OBVIOUS
<1>2. CASE UNCHANGED vars
  <2>1. UNCHANGED <<mapVars, client>>
      BY <1>2 DEF vars
  <2>2. QED
      BY <1>1, <1>2, <2>1, MapSame DEF Basics, AppInv, QueueInv, vars, app, memory
<1>3. CASE Send("broadcast", 0) \/ \E s \in Slots : Send("target", s) \/ Send("except", s)
    BY <1>1, <1>3, SendBasics
<1>4. CASE AppStep \/ End
    BY <1>1, <1>4, EndBasics, MoveBasics, MoveFromErasedBasics, AbsentBasics, SkippedBasics,
       QueuedBasics DEF AppStep, SendStep
<1>5. CASE SendThread \/ WorkThread
    BY <1>1, <1>5, SendThreadBasics, WorkThreadBasics
<1>6. QED
    BY <1>1, <1>2, <1>3, <1>4, <1>5 DEF Next

LEMMA AlwaysBasics == Spec => []Basics
  BY InitBasics, StepBasics, PTL DEF Spec

\* A lookup of the map finds a client exactly when it is registered: a table that
\* grows by rehashing its buckets one by one, when they are looked up, loses and
\* repeats no client.
THEOREM MessagesMapFinds == Spec => []MapFinds
<1>1. Basics => MapFinds
    BY LookupFacts DEF Basics, MapFinds
<1>2. QED
    BY <1>1, AlwaysBasics, PTL

-----------------------------------------------------------------------------
(* The copies.                                                             *)

DistinctIds ==
    \A i, j \in 1..Len(Send_Data_Queue) :
        Send_Data_Queue[i].id = Send_Data_Queue[j].id => i = j

\* A copy is in one place.
OnePlace ==
    /\ InQueue \cap (InHand \cup freed) = {} /\ InHand \cap freed = {}
    /\ leaked \cap (InQueue \cup InHand \cup freed) = {}
    /\ 1..copies = InQueue \cup InHand \cup freed \cup leaked

InSending == sender.step \in {"find", "send"} => sender.copy.id # 0

CopyInv ==
    /\ DistinctIds /\ OnePlace /\ InSending
    /\ call.step = "ended" => 1..copies = freed \cup leaked

LEMMA QueueIds == InQueue = {Send_Data_Queue[i].id : i \in 1..Len(Send_Data_Queue)}
  BY DEF InQueue, QueuedIds

LEMMA QueueIdsNext == InQueue' = {Send_Data_Queue'[i].id : i \in 1..Len(Send_Data_Queue')}
  BY DEF InQueue, QueuedIds

\* Nothing in the hand of SendThread, or the copy that it has popped.
LEMMA HandFacts ==
    /\ sender.copy = NoCopy => InHand = {}
    /\ \A id : sender.copy.id = id /\ id # 0 => InHand = {id}
  BY DEF InHand, NoCopy

LEMMA HandFactsNext ==
    /\ sender'.copy = NoCopy => InHand' = {}
    /\ \A id : sender'.copy.id = id /\ id # 0 => InHand' = {id}
  BY DEF InHand, NoCopy

LEMMA InitCopies == Init => CopyInv
<1>1. SUFFICES ASSUME Init PROVE CopyInv
    OBVIOUS
<1>2. Send_Data_Queue = <<>> /\ sender.copy = NoCopy /\ copies = 0 /\ freed = {} /\ leaked = {}
      /\ call.step = "idle"
    BY <1>1, NoCallFacts DEF Init
<1>3. InQueue = {} /\ DistinctIds
    BY <1>2, QueueIds DEF DistinctIds
<1>4. InHand = {}
    BY <1>2, HandFacts
<1>5. OnePlace
    BY <1>2, <1>3, <1>4 DEF OnePlace
<1>6. InSending
    BY <1>1 DEF Init, InSending
<1>7. QED
    BY <1>2, <1>3, <1>5, <1>6 DEF CopyInv

\* Steps that leave the copies alone.
LEMMA SameCopies ==
    ASSUME CopyInv, UNCHANGED <<Send_Data_Queue, memory>>, sender'.copy = sender.copy,
           sender'.step \in {"find", "send"} => sender.step \in {"find", "send"},
           call'.step # "ended" \/ call.step = "ended"
    PROVE  CopyInv'
<1>1. InQueue' = InQueue /\ InHand' = InHand
    BY DEF InQueue, QueuedIds, InHand
<1>2. QED
    BY <1>1 DEF CopyInv, OnePlace, DistinctIds, InSending, memory

LEMMA QueuedCopies == ASSUME Basics, CopyInv, Queued PROVE CopyInv'
<1>1. PICK copy \in Copy : copy.id = copies + 1
                           /\ Send_Data_Queue' = Append(Send_Data_Queue, copy)
    BY QueuedFacts
<1>2. PICK q \in Seq(Copy) : q = Send_Data_Queue
    BY DEF Basics, QueueInv
<1>3. PICK r : r = Send_Data_Queue'
    OBVIOUS
<1>4. PICK n \in Nat : n = Len(q)
    OBVIOUS
<1>5. /\ Len(r) = n + 1 /\ r[n + 1].id = copies + 1
      /\ \A i \in 1..n : r[i] = q[i]
    BY <1>1, <1>2, <1>3, <1>4, AppendProperties
<1>6. copies \in Nat /\ copies' = copies + 1 /\ freed' = freed /\ leaked' = leaked
      /\ sender' = sender /\ call'.step # "ended"
  <2>1. AppInv'
      BY QueuedBasics DEF Basics
  <2>2. call \in Calls
      BY DEF Basics, AppInv
  <2>3. call'.step \in {"idle", "next"}
      BY <2>2, QueuedFacts DEF Calls
  <2>4. QED
      BY <2>3 DEF Queued, Basics, QueueInv
<1>7. InHand' = InHand
    BY <1>6 DEF InHand
<1>8. \A i \in 1..n + 1 : i \in 1..n \/ i = n + 1
    BY <1>4
<1>9. \A i \in 1..n : i \in 1..n + 1
    BY <1>4
<1>10. n + 1 \in 1..n + 1
    BY <1>4
<1>11. InQueue' = InQueue \cup {copies + 1}
  <2>1. InQueue' = {r[i].id : i \in 1..n + 1}
      BY <1>3, <1>5, QueueIdsNext
  <2>2. InQueue = {q[i].id : i \in 1..n}
      BY <1>2, <1>4, QueueIds
  <2>3. QED
      BY <2>1, <2>2, <1>5, <1>8, <1>9, <1>10
<1>12. copies + 1 \notin 1..copies /\ 1..copies + 1 = 1..copies \cup {copies + 1}
    BY <1>6
<1>13. DistinctIds'
  <2>1. \A i \in 1..n : q[i].id # copies + 1
      BY <1>2, <1>4, <1>12, QueueIds DEF CopyInv, OnePlace
  <2>2. \A i, j \in 1..n : q[i].id = q[j].id => i = j
      BY <1>2, <1>4 DEF CopyInv, DistinctIds
  <2>3. \A i, j \in 1..n + 1 : r[i].id = r[j].id => i = j
      BY <2>1, <2>2, <1>5, <1>8
  <2>4. QED
      BY <1>3, <1>5, <2>3 DEF DistinctIds
<1>14. OnePlace'
    BY <1>6, <1>7, <1>11, <1>12 DEF CopyInv, OnePlace
<1>15. QED
    BY <1>6, <1>13, <1>14 DEF CopyInv, InSending

LEMMA AbsentCopies == ASSUME Basics, CopyInv, Absent PROVE CopyInv'
<1>1. call'.step # "ended" /\ Send_Data_Queue' = Send_Data_Queue /\ sender' = sender
    BY NoCallFacts DEF Absent
<1>2. CASE UNCHANGED memory
    BY <1>1, <1>2, SameCopies
<1>3. CASE copies' = copies + 1 /\ leaked' = leaked \cup {copies + 1} /\ freed' = freed
  <2>1. InQueue' = InQueue /\ InHand' = InHand /\ DistinctIds'
      BY <1>1 DEF InQueue, QueuedIds, InHand, CopyInv, DistinctIds
  <2>2. copies \in Nat
      BY DEF Basics, QueueInv
  <2>3. copies + 1 \notin 1..copies /\ 1..copies + 1 = 1..copies \cup {copies + 1}
      BY <2>2
  <2>4. OnePlace'
      BY <1>3, <2>1, <2>3 DEF CopyInv, OnePlace
  <2>5. QED
      BY <1>1, <2>1, <2>4 DEF CopyInv, InSending
<1>4. QED
    BY <1>2, <1>3 DEF Absent

LEMMA PopCopies == ASSUME Basics, CopyInv, Pop PROVE CopyInv'
<1>1. PICK q \in Seq(Copy) : q = Send_Data_Queue /\ q # <<>>
    BY DEF Basics, QueueInv, Pop
<1>2. PICK n \in Nat : n = Len(q) /\ n >= 1
    BY <1>1
<1>3. PICK r : r = Send_Data_Queue'
    OBVIOUS
<1>4. PICK m \in Nat : m = n - 1
    BY <1>2
<1>5. /\ Len(r) = m /\ \A i \in 1..m : r[i] = q[i + 1]
      /\ sender'.copy = q[1]
  <2>1. r = Tail(q) /\ sender'.copy = Head(q)
      BY <1>1, <1>3 DEF Pop
  <2>2. Head(q) = q[1]
      BY <1>1
  <2>3. QED
      BY <1>1, <1>2, <1>4, <2>1, <2>2, HeadTailProperties
<1>6. sender.copy = NoCopy /\ InHand = {}
    BY HandFacts DEF Basics, QueueInv, Pop
<1>7. UNCHANGED memory /\ call' = call
    BY DEF Pop, app
<1>8. \A i \in 1..n : i = 1 \/ (i - 1 \in 1..m /\ (i - 1) + 1 = i)
    BY <1>2, <1>4
<1>9. \A i \in 1..m : i + 1 \in 1..n /\ i + 1 # 1
    BY <1>2, <1>4
<1>10. 1 \in 1..n
    BY <1>2
<1>11. \A i, j \in 1..n : q[i].id = q[j].id => i = j
    BY <1>1, <1>2 DEF CopyInv, DistinctIds
<1>12. PICK id : id = q[1].id
    OBVIOUS
<1>13. InQueue = {q[i].id : i \in 1..n} /\ InQueue' = {r[i].id : i \in 1..m}
    BY <1>1, <1>2, <1>3, <1>5, QueueIds, QueueIdsNext
<1>14. InQueue = InQueue' \cup {id} /\ id \notin InQueue'
  <2>1. ASSUME NEW x \in InQueue PROVE x \in InQueue' \/ x = id
    <3>1. PICK i \in 1..n : x = q[i].id
        BY <1>13
    <3>2. QED
        BY <1>5, <1>8, <1>12, <1>13, <3>1
  <2>2. ASSUME NEW x \in InQueue' PROVE x \in InQueue /\ x # id
    <3>1. PICK i \in 1..m : x = r[i].id
        BY <1>13
    <3>2. x = q[i + 1].id
        BY <1>5, <3>1
    <3>3. QED
        BY <1>9, <1>10, <1>11, <1>12, <1>13, <3>2
  <2>3. id \in InQueue
      BY <1>10, <1>12, <1>13
  <2>4. QED
      BY <2>1, <2>2, <2>3
<1>15. id # 0
  <2>1. id \in 1..copies
      BY <1>14 DEF CopyInv, OnePlace
  <2>2. QED
      BY <2>1
<1>16. InHand' = {id}
    BY <1>5, <1>12, <1>15, HandFactsNext
<1>17. DistinctIds'
  <2>1. ASSUME NEW i \in 1..m, NEW j \in 1..m, r[i].id = r[j].id PROVE i + 1 = j + 1
    <3>1. PICK k \in 1..n : k = i + 1 /\ r[i] = q[k]
        BY <1>5, <1>9
    <3>2. PICK l \in 1..n : l = j + 1 /\ r[j] = q[l]
        BY <1>5, <1>9
    <3>3. QED
        BY <1>11, <2>1, <3>1, <3>2
  <2>2. \A i, j \in 1..m : i + 1 = j + 1 => i = j
      OBVIOUS
  <2>3. QED
      BY <1>3, <1>5, <2>1, <2>2 DEF DistinctIds
<1>18. OnePlace'
    BY <1>6, <1>7, <1>14, <1>16 DEF CopyInv, OnePlace, memory
<1>19. QED
    BY <1>5, <1>7, <1>12, <1>15, <1>17, <1>18 DEF CopyInv, InSending, memory

LEMMA DeleteCopies == ASSUME Basics, CopyInv, Drop \/ Transmit PROVE CopyInv'
<1>1. /\ freed' = freed \cup {sender.copy.id} /\ copies' = copies /\ leaked' = leaked
      /\ Send_Data_Queue' = Send_Data_Queue /\ call' = call /\ sender'.copy = NoCopy
    BY DEF Drop, Transmit, Delete, app
<1>2. InQueue' = InQueue /\ InHand' = {}
    BY <1>1, HandFactsNext DEF InQueue, QueuedIds
<1>3. DistinctIds'
    BY <1>1 DEF DistinctIds, CopyInv
<1>4. InHand = {sender.copy.id}
    BY HandFacts DEF CopyInv, InSending, Drop, Transmit
<1>5. OnePlace'
    BY <1>1, <1>2, <1>4 DEF CopyInv, OnePlace
<1>6. InSending'
    BY DEF InSending, Drop, Transmit
<1>7. call.step # "ended"
    BY <1>4 DEF CopyInv, OnePlace
<1>8. QED
    BY <1>1, <1>3, <1>5, <1>6, <1>7 DEF CopyInv

LEMMA EndJoinedCopies == ASSUME Basics, CopyInv, EndJoined PROVE CopyInv'
<1>1. /\ Send_Data_Queue' = <<>> /\ freed' = freed \cup InQueue
      /\ copies' = copies /\ leaked' = leaked /\ sender' = sender
    BY QueueIds DEF EndJoined
<1>2. sender.copy = NoCopy /\ InHand = {}
    BY HandFacts DEF Basics, QueueInv, EndJoined
<1>3. InHand' = {} /\ InQueue' = {}
    BY <1>1, <1>2, HandFactsNext, QueueIdsNext
<1>4. DistinctIds' /\ InSending'
    BY <1>1 DEF DistinctIds, InSending, CopyInv
<1>5. OnePlace' /\ 1..copies = freed' \cup leaked
    BY <1>1, <1>2, <1>3 DEF CopyInv, OnePlace
<1>6. QED
    BY <1>1, <1>4, <1>5 DEF CopyInv

LEMMA StepCopies == Basics /\ CopyInv /\ [Next]_vars => CopyInv'
<1>1. SUFFICES ASSUME Basics, CopyInv, [Next]_vars PROVE CopyInv'
    OBVIOUS
<1>2. call \in Calls /\ sender \in [step : {"test", "loop", "find", "send", "exited"}, copy : Copy \cup {NoCopy}]
    BY <1>1 DEF Basics, AppInv, QueueInv
<1>3. CASE UNCHANGED vars
  <2>1. UNCHANGED <<Send_Data_Queue, memory>> /\ sender' = sender /\ call' = call
      BY <1>3 DEF vars, app
  <2>2. QED
      BY <1>1, <2>1, SameCopies
<1>4. ASSUME NEW type, NEW target, Send(type, target) PROVE CopyInv'
  <2>1. call'.step # "ended"
      BY <1>4 DEF Send, NoCall
  <2>2. QED
      BY <1>1, <1>4, <2>1, SameCopies DEF Send
<1>5. CASE End \/ Move \/ Skipped \/ MoveFromErased
  <2>1. call'.step # "ended" \/ call' = call
    <3>1. CASE End \/ Skipped
        BY <1>2, <3>1 DEF End, Skipped, Calls
    <3>2. CASE MoveFromErased
        BY <3>2 DEF MoveFromErased, app
    <3>3. CASE Move
      <4>1. PICK it : call' = IF it.my_node = <<>>
                              THEN [call EXCEPT !.step = "idle", !.ok = TRUE]
                              ELSE [call EXCEPT !.step = "find", !.at = it]
          BY <3>3 DEF Move
      <4>2. QED
          BY <1>2, <4>1 DEF Calls
    <3>4. QED
        BY <1>5, <3>1, <3>2, <3>3
  <2>2. UNCHANGED <<Send_Data_Queue, memory>> /\ sender' = sender
      BY <1>5 DEF End, Move, Skipped, MoveFromErased
  <2>3. QED
      BY <1>1, <2>1, <2>2, SameCopies
<1>6. CASE Hold \/ SenderEmpty \/ SenderTest
  <2>1. UNCHANGED <<Send_Data_Queue, memory>> /\ call' = call
      BY <1>6 DEF Hold, SenderEmpty, SenderTest, app
  <2>2. /\ sender'.copy = sender.copy
        /\ sender'.step \in {"find", "send"} => sender.step \in {"find", "send"}
      BY <1>2, <1>6 DEF Hold, SenderEmpty, SenderTest
  <2>3. QED
      BY <1>1, <2>1, <2>2, SameCopies
<1>7. CASE WorkThread
  <2>1. PICK s \in Slots : AddClientSocket(s) \/ Delete_in_Socket_List(s)
      BY <1>7 DEF WorkThread
  <2>2. UNCHANGED <<Send_Data_Queue, memory>> /\ sender' = sender
      BY <2>1 DEF AddClientSocket, Delete_in_Socket_List
  <2>3. call'.step = call.step
      BY <1>1, <2>1, WorkerCall
  <2>4. QED
      BY <1>1, <2>2, <2>3, SameCopies
<1>8. CASE AppStep \/ End
    BY <1>1, <1>5, <1>8, AbsentCopies, QueuedCopies, EndJoinedCopies DEF AppStep, SendStep
<1>9. CASE SendThread
    BY <1>1, <1>6, <1>9, PopCopies, DeleteCopies DEF SendThread
<1>10. QED
    BY <1>1, <1>3, <1>4, <1>7, <1>8, <1>9 DEF Next

LEMMA AlwaysCopies == Spec => [](Basics /\ CopyInv)
<1>1. Init => Basics /\ CopyInv
    BY InitBasics, InitCopies
<1>2. Basics /\ CopyInv /\ [Next]_vars => (Basics /\ CopyInv)'
    BY StepBasics, StepCopies
<1>3. QED
    BY <1>1, <1>2, PTL DEF Spec

\* Every copy of a packet is in the queue once, or with SendThread, or deleted, or
\* lost by a call of Send that failed; after End none is left.
THEOREM MessagesCopiesAccounted == Spec => []CopiesAccounted
<1>1. ASSUME Basics, CopyInv PROVE CopiesAccounted
  <2>1. PICK q \in Seq(Copy) : q = Send_Data_Queue
      BY <1>1 DEF Basics, QueueInv
  <2>2. PICK n \in Nat : n = Len(q)
      OBVIOUS
  <2>3. PICK f : f = [i \in 1..n |-> q[i].id]
      OBVIOUS
  <2>4. InQueue = {q[i].id : i \in 1..n}
      BY <2>1, <2>2, QueueIds
  <2>5. \A i, j \in 1..n : q[i].id = q[j].id => i = j
      BY <1>1, <2>1, <2>2 DEF CopyInv, DistinctIds
  <2>6. f \in Bijection(1..n, InQueue)
    <3>1. f \in [1..n -> InQueue]
        BY <2>3, <2>4
    <3>2. \A i, j \in 1..n : f[i] = f[j] => i = j
        BY <2>3, <2>5
    <3>3. \A x \in InQueue : \E i \in 1..n : f[i] = x
        BY <2>3, <2>4
    <3>4. QED
        BY <3>1, <3>2, <3>3 DEF Bijection, Injection, Surjection, IsInjective
  <2>7. ExistsBijection(1..n, InQueue)
      BY <2>6 DEF ExistsBijection
  <2>8. IsFiniteSet(1..n) /\ Cardinality(1..n) = n
    <3>1. /\ IsFiniteSet(1..n)
          /\ Cardinality(1..n) = IF 1 > n THEN 0 ELSE n - 1 + 1
        BY FS_Interval
    <3>2. QED
        BY <3>1
  <2>9. Cardinality(InQueue) = n
      BY <2>7, <2>8, FS_Bijection
  <2>10. QED
      BY <1>1, <2>1, <2>2, <2>9 DEF CopiesAccounted, CopyInv, OnePlace
<1>2. QED
    BY <1>1, AlwaysCopies, PTL

-----------------------------------------------------------------------------
(* The walk over the map of a call of Send.                                *)

\* How many copies a call is to queue for the client of node m.
Due(c, m) == IF c.type = "except" /\ m.key = c.target THEN 0 ELSE 1

\* The iterator, on node n of bucket idx, has passed node m; n itself if here.
Passed(bs, idx, n, here, m) ==
    \E i \in Indexes :
        /\ Has(bs[i].list, m)
        /\ i < idx \/ (i = idx /\ (Before(bs[i].list, m, n) \/ (here /\ m = n)))

\* What call c has queued so far, in the buckets bs of a table of w buckets with
\* the clients cl: what is due to the nodes that the iterator has passed.
WalkOK(bs, w, cl, c) ==
    /\ AtHome(bs, w)
    /\ c.step = "begin" => \A x \in Conns : c.queued[x] = 0
    /\ c.step \in {"next", "find"} =>
          LET n == c.at.my_node[1]
              idx == c.at.my_index
          IN  /\ cl[n.key] # 0 => n = [key |-> n.key, conn |-> cl[n.key]]
              /\ Holds(bs, n) =>
                    /\ idx \in Indexes /\ Has(bs[idx].list, n)
                    /\ \A m : Holds(bs, m) =>
                          c.queued[m.conn] =
                             IF Passed(bs, idx, n, c.step = "next", m) THEN Due(c, m) ELSE 0

Walking(c) == c.settled /\ c.step \in {"begin", "next", "find"} /\ c.type \in Walks

OnTheWay == Walking(call) => WalkOK(buckets, my_mask + 1, client, call)

\* Connections are numbered as they come; a call knows those that were there.
Numbered ==
    /\ \A s, t \in Slots : client[s] # 0 /\ client[s] = client[t] => s = t
    /\ \A s \in Slots : client[s] <= joined
    /\ call.stay \subseteq 1..joined

BroadcastInv == Numbered /\ OnTheWay /\ SettledBroadcast

LEMMA NextOnTheWay ==
    OnTheWay' <=> (Walking(call') => WalkOK(buckets', my_mask' + 1, client', call'))
  BY DEF OnTheWay, Walking, WalkOK, AtHome, Holds, Passed, Due, Has, Before

LEMMA SameWalk ==
    ASSUME NEW bs, NEW cs, SameLists(bs, cs), NEW w, NEW cl, NEW c, WalkOK(bs, w, cl, c)
    PROVE  WalkOK(cs, w, cl, c)
<1>1. AtHome(cs, w)
    BY DEF WalkOK, AtHome, SameLists
<1>2. \A m : Holds(cs, m) <=> Holds(bs, m)
    BY DEF Holds, SameLists
<1>3. \A idx, n, here, m : Passed(cs, idx, n, here, m) <=> Passed(bs, idx, n, here, m)
    BY DEF Passed, SameLists
<1>4. \A i \in Indexes : \A m : Has(cs[i].list, m) <=> Has(bs[i].list, m)
    BY DEF SameLists
<1>5. QED
    BY <1>1, <1>2, <1>3, <1>4 DEF WalkOK

\* A client has left.
LEMMA ErasedWalk ==
    ASSUME NEW bs, NEW cs, NEW x,
           \A i \in Indexes : \A a, b :
              /\ Has(cs[i].list, a) <=> Has(bs[i].list, a) /\ a # x
              /\ Before(cs[i].list, a, b) <=> Before(bs[i].list, a, b) /\ a # x /\ b # x,
           NEW w, NEW cl \in [Slots -> 0..MaxClients], NEW s \in Slots,
           NEW c \in Calls, WalkOK(bs, w, cl, c), c.step \in {"begin", "next", "find"},
           c.step \in {"next", "find"} => c.at.my_node[1].key \in Slots,
           NEW d, d.step = c.step, d.at = c.at, d.queued = c.queued, d.type = c.type,
           d.target = c.target
    PROVE  WalkOK(cs, w, [cl EXCEPT ![s] = 0], d)
<1>1. AtHome(cs, w)
    BY DEF WalkOK, AtHome
<1>2. \A m : Holds(cs, m) <=> Holds(bs, m) /\ m # x
    BY DEF Holds
<1>3. \A m : Due(d, m) = Due(c, m)
    BY DEF Due
<1>4. CASE c.step = "begin"
    BY <1>1, <1>4 DEF WalkOK
<1>5. CASE c.step \in {"next", "find"}
  <2>1. PICK n : n = c.at.my_node[1]
      OBVIOUS
  <2>2. PICK idx : idx = c.at.my_index
      OBVIOUS
  <2>3. PICK el : el = [cl EXCEPT ![s] = 0]
      OBVIOUS
  <2>4. el[n.key] # 0 => n = [key |-> n.key, conn |-> el[n.key]]
      BY <1>5, <2>1, <2>3 DEF WalkOK
  <2>5. ASSUME Holds(cs, n)
        PROVE  /\ idx \in Indexes /\ Has(cs[idx].list, n)
               /\ \A m : Holds(cs, m) =>
                     c.queued[m.conn] =
                        IF Passed(cs, idx, n, c.step = "next", m) THEN Due(c, m) ELSE 0
    <3>1. /\ idx \in Indexes /\ Has(bs[idx].list, n)
          /\ \A m : Holds(bs, m) =>
                c.queued[m.conn] =
                   IF Passed(bs, idx, n, c.step = "next", m) THEN Due(c, m) ELSE 0
        BY <1>2, <1>5, <2>1, <2>2, <2>5 DEF WalkOK
    <3>2. n # x
        BY <1>2, <2>5
    <3>3. \A m : m # x => (Passed(cs, idx, n, c.step = "next", m) <=>
                           Passed(bs, idx, n, c.step = "next", m))
        BY <3>2 DEF Passed
    <3>4. QED
        BY <1>2, <3>1, <3>2, <3>3
  <2>6. QED
      BY <1>1, <1>3, <1>5, <2>1, <2>2, <2>3, <2>4, <2>5 DEF WalkOK
<1>6. QED
    BY <1>4, <1>5

\* The call has done with the client it looked up.
LEMMA NextWalk ==
    ASSUME NEW bs, NEW w, NEW cl, NEW c, WalkOK(bs, w, cl, c), c.step = "find",
           NEW n, n = c.at.my_node[1], Holds(bs, n),
           NEW d, d.step = "next", d.at = c.at, d.type = c.type, d.target = c.target,
           \A m : Holds(bs, m) => d.queued[m.conn] =
              IF m = n THEN Due(c, m) ELSE c.queued[m.conn]
    PROVE  WalkOK(bs, w, cl, d)
<1>1. PICK idx : idx = c.at.my_index
    OBVIOUS
<1>2. /\ AtHome(bs, w) /\ (cl[n.key] # 0 => n = [key |-> n.key, conn |-> cl[n.key]])
      /\ idx \in Indexes /\ Has(bs[idx].list, n)
      /\ \A m : Holds(bs, m) =>
            c.queued[m.conn] = IF Passed(bs, idx, n, FALSE, m) THEN Due(c, m) ELSE 0
  <2>1. (c.step = "next") = FALSE
      OBVIOUS
  <2>2. QED
      BY <1>1, <2>1 DEF WalkOK
<1>3. \A m : Passed(bs, idx, n, TRUE, m) <=> Passed(bs, idx, n, FALSE, m) \/ m = n
    BY <1>2 DEF Passed
<1>4. \A m : Due(d, m) = Due(c, m)
    BY DEF Due
<1>5. \A m : Holds(bs, m) =>
          d.queued[m.conn] = IF Passed(bs, idx, n, TRUE, m) THEN Due(d, m) ELSE 0
    BY <1>2, <1>3, <1>4
<1>6. (d.step = "next") = TRUE
    OBVIOUS
<1>7. QED
    BY <1>1, <1>2, <1>5, <1>6 DEF WalkOK

\* The iterator arrives at node m of bucket j, having passed the nodes that it had
\* passed or was on.
LEMMA ArriveWalk ==
    ASSUME NEW bs, NEW w, NEW cl, AtHome(bs, w), NEW d, d.step = "find",
           NEW j \in Indexes, NEW m, d.at.my_index = j, d.at.my_node[1] = m,
           Has(bs[j].list, m), cl[m.key] # 0 => m = [key |-> m.key, conn |-> cl[m.key]],
           \A x : Holds(bs, x) =>
              d.queued[x.conn] = IF Passed(bs, j, m, FALSE, x) THEN Due(d, x) ELSE 0
    PROVE  WalkOK(bs, w, cl, d)
<1>1. (d.step = "next") = FALSE
    OBVIOUS
<1>2. QED
    BY <1>1 DEF WalkOK

\* A node of the table stands for the client on its slot.
LEMMA HeldNode ==
    ASSUME MapInv, NEW m, Holds(buckets, m)
    PROVE  /\ m.key \in Slots /\ client[m.key] # 0 /\ m.conn = client[m.key]
           /\ m = [key |-> m.key, conn |-> client[m.key]] /\ m.conn \in Conns
<1>1. PICK s \in Slots : client[s] # 0 /\ m = Node(s)
    BY DEF MapInv
<1>2. client[s] \in Conns
    BY <1>1, MessagesAssumption DEF MapInv, Conns
<1>3. QED
    BY <1>1, <1>2 DEF Node

\* The walk begins.
LEMMA BeginWalk ==
    ASSUME Basics, WalkOK(buckets, my_mask + 1, client, call), call.step = "begin", Move
    PROVE  \/ call'.step = "find" /\ WalkOK(buckets, my_mask + 1, client, call')
           \/ call'.step = "idle" /\ \A m : ~Holds(buckets, m)
<1>1. call \in Calls /\ MapInv
    BY DEF Basics, AppInv
<1>2. PICK it : it = AdvanceFrom(0)
    OBVIOUS
<1>3. call' = IF it.my_node = <<>>
              THEN [call EXCEPT !.step = "idle", !.ok = TRUE]
              ELSE [call EXCEPT !.step = "find", !.at = it]
    BY <1>2 DEF Move, BeginIter
<1>4. \A i \in Indexes : 0 <= i /\ i \in Nat
    BY CountFacts
<1>5. CASE it = EndIter /\ \A i \in Indexes : 0 <= i => \A x : ~Has(buckets[i].list, x)
  <2>1. \A m : ~Holds(buckets, m)
      BY <1>4, <1>5 DEF Holds
  <2>2. call'.step = "idle"
      BY <1>1, <1>3, <1>5 DEF Calls, EndIter
  <2>3. QED
      BY <2>1, <2>2
<1>6. ASSUME NEW j \in Indexes, NEW m \in ClientNodes,
             it = [my_index |-> j, my_node |-> <<m>>], Has(buckets[j].list, m),
             \A x : ~Before(buckets[j].list, x, m),
             \A i \in Indexes : (0 <= i /\ i < j) => \A x : ~Has(buckets[i].list, x)
      PROVE  call'.step = "find" /\ WalkOK(buckets, my_mask + 1, client, call')
  <2>1. it.my_node = <<m>> /\ it.my_node # <<>> /\ it.my_index = j /\ it.my_node[1] = m
      BY <1>6
  <2>2. PICK d : d = call'
      OBVIOUS
  <2>3. d.step = "find" /\ d.at = it /\ d.queued = call.queued
      BY <1>1, <1>3, <2>1, <2>2 DEF Calls
  <2>4. \A x : ~Passed(buckets, j, m, FALSE, x)
      BY <1>4, <1>6 DEF Passed
  <2>5. \A x : Holds(buckets, x) => d.queued[x.conn] = 0
      BY <1>1, <2>3, HeldNode DEF WalkOK
  <2>6. client[m.key] # 0 => m = [key |-> m.key, conn |-> client[m.key]]
      BY <1>1, <1>6, HeldNode DEF Holds
  <2>7. AtHome(buckets, my_mask + 1)
      BY DEF WalkOK
  <2>8. WalkOK(buckets, my_mask + 1, client, d)
      BY <1>6, <2>1, <2>3, <2>4, <2>5, <2>6, <2>7, ArriveWalk
  <2>9. QED
      BY <2>2, <2>3, <2>8
<1>7. QED
    BY <1>1, <1>2, <1>5, <1>6, AdvanceFacts

\* The walk goes on, or has passed every node.
LEMMA MoveOnWalk ==
    ASSUME Basics, WalkOK(buckets, my_mask + 1, client, call), call.step = "next", Move
    PROVE  \/ call'.step = "find" /\ WalkOK(buckets, my_mask + 1, client, call')
           \/ /\ call'.step = "idle"
              /\ \A m : Holds(buckets, m) => call.queued[m.conn] = Due(call, m)
<1>1. call \in Calls /\ MapInv
    BY DEF Basics, AppInv
<1>2. PICK n : n = call.at.my_node[1]
    OBVIOUS
<1>3. PICK idx : idx = call.at.my_index
    OBVIOUS
<1>4. Holds(buckets, n)
    BY <1>2, NodesHeld DEF Move
<1>5. /\ AtHome(buckets, my_mask + 1)
      /\ idx \in Indexes /\ idx \in Nat /\ Has(buckets[idx].list, n)
      /\ \A m : Holds(buckets, m) =>
            call.queued[m.conn] = IF Passed(buckets, idx, n, TRUE, m) THEN Due(call, m) ELSE 0
  <2>1. (call.step = "next") = TRUE
      OBVIOUS
  <2>2. QED
      BY <1>2, <1>3, <1>4, <2>1, CountFacts DEF WalkOK
<1>6. PICK it : it = Increment(call.at)
    OBVIOUS
<1>7. call' = IF it.my_node = <<>>
              THEN [call EXCEPT !.step = "idle", !.ok = TRUE]
              ELSE [call EXCEPT !.step = "find", !.at = it]
    BY <1>6 DEF Move
<1>8. call.at \in Iters
    BY <1>1 DEF Calls
<1>9. PICK d : d = call'
    OBVIOUS
<1>10. ASSUME it.my_node # <<>>
       PROVE  d.step = "find" /\ d.at = it /\ d.queued = call.queued
              /\ \A m : Due(d, m) = Due(call, m)
    BY <1>1, <1>7, <1>9, <1>10 DEF Calls, Due
<1>11. ASSUME NEW m \in ClientNodes, it = [call.at EXCEPT !.my_node = <<m>>],
              Has(buckets[idx].list, m),
              \A x : Before(buckets[idx].list, x, m) <=> x = n \/ Before(buckets[idx].list, x, n)
       PROVE  d.step = "find" /\ WalkOK(buckets, my_mask + 1, client, d)
  <2>1. it.my_node = <<m>> /\ it.my_node # <<>> /\ it.my_index = idx /\ it.my_node[1] = m
      BY <1>3, <1>8, <1>11 DEF Iters
  <2>2. \A x : Passed(buckets, idx, m, FALSE, x) <=> Passed(buckets, idx, n, TRUE, x)
      BY <1>11, <1>5 DEF Passed
  <2>3. client[m.key] # 0 => m = [key |-> m.key, conn |-> client[m.key]]
      BY <1>1, <1>5, <1>11, HeldNode DEF Holds
  <2>4. \A x : Holds(buckets, x) =>
            d.queued[x.conn] = IF Passed(buckets, idx, m, FALSE, x) THEN Due(d, x) ELSE 0
      BY <1>5, <1>10, <2>1, <2>2
  <2>5. WalkOK(buckets, my_mask + 1, client, d)
      BY <1>5, <1>10, <1>11, <2>1, <2>3, <2>4, ArriveWalk
  <2>6. QED
      BY <1>10, <2>1, <2>5
<1>12. ASSUME it = AdvanceFrom(idx + 1),
              \A x : Has(buckets[idx].list, x) => x = n \/ Before(buckets[idx].list, x, n)
       PROVE  \/ d.step = "find" /\ WalkOK(buckets, my_mask + 1, client, d)
              \/ /\ d.step = "idle"
                 /\ \A m : Holds(buckets, m) => call.queued[m.conn] = Due(call, m)
  <2>1. idx + 1 \in Nat
      BY <1>5
  <2>2. \A i \in Indexes : i \in Nat /\ (i < idx \/ i = idx \/ idx + 1 <= i)
    <3>1. idx \in Nat /\ Indexes \subseteq Nat
        BY <1>5, CountFacts
    <3>2. QED
        BY ONLY <3>1
  <2>3. CASE it = EndIter /\ \A i \in Indexes : idx + 1 <= i => \A x : ~Has(buckets[i].list, x)
    <3>1. \A m : Holds(buckets, m) => Passed(buckets, idx, n, TRUE, m)
        BY <1>12, <2>2, <2>3 DEF Holds, Passed
    <3>2. d.step = "idle"
        BY <1>1, <1>7, <1>9, <2>3 DEF Calls, EndIter
    <3>3. QED
        BY <1>5, <3>1, <3>2
  <2>4. ASSUME NEW j \in Indexes, NEW m \in ClientNodes,
               it = [my_index |-> j, my_node |-> <<m>>], idx + 1 <= j, Has(buckets[j].list, m),
               \A x : ~Before(buckets[j].list, x, m),
               \A i \in Indexes : (idx + 1 <= i /\ i < j) => \A x : ~Has(buckets[i].list, x)
        PROVE  d.step = "find" /\ WalkOK(buckets, my_mask + 1, client, d)
    <3>1. it.my_node = <<m>> /\ it.my_node # <<>> /\ it.my_index = j /\ it.my_node[1] = m
        BY <2>4
    <3>2. \A i \in Indexes : /\ i < idx => i < j
                             /\ i = idx => i < j
                             /\ i = j => ~(i < idx) /\ i # idx
                             /\ ~(i < j) => ~(i < idx) /\ i # idx
      <4>1. idx \in Nat /\ Indexes \subseteq Nat /\ idx + 1 <= j /\ j \in Nat
          BY <1>5, <2>4, CountFacts
      <4>2. QED
          BY ONLY <4>1
    <3>3. ASSUME NEW x PROVE Passed(buckets, j, m, FALSE, x) <=> Passed(buckets, idx, n, TRUE, x)
      <4>1. ASSUME Passed(buckets, j, m, FALSE, x) PROVE Passed(buckets, idx, n, TRUE, x)
        <5>1. PICK i \in Indexes : Has(buckets[i].list, x) /\ i < j
            BY <2>4, <4>1 DEF Passed
        <5>2. i < idx \/ i = idx
            BY <2>2, <2>4, <5>1
        <5>3. QED
            BY <1>12, <5>1, <5>2 DEF Passed
      <4>2. ASSUME Passed(buckets, idx, n, TRUE, x) PROVE Passed(buckets, j, m, FALSE, x)
        <5>1. PICK i \in Indexes : Has(buckets[i].list, x) /\ (i < idx \/ i = idx)
            BY <4>2 DEF Passed
        <5>2. QED
            BY <3>2, <5>1 DEF Passed
      <4>3. QED
          BY <4>1, <4>2
    <3>4. client[m.key] # 0 => m = [key |-> m.key, conn |-> client[m.key]]
        BY <1>1, <2>4, HeldNode DEF Holds
    <3>5. \A x : Holds(buckets, x) =>
              d.queued[x.conn] = IF Passed(buckets, j, m, FALSE, x) THEN Due(d, x) ELSE 0
        BY <1>5, <1>10, <3>1, <3>3
    <3>6. WalkOK(buckets, my_mask + 1, client, d)
        BY <1>5, <1>10, <2>4, <3>1, <3>4, <3>5, ArriveWalk
    <3>7. QED
        BY <1>10, <3>1, <3>6
  <2>5. QED
      BY <1>1, <1>12, <2>1, <2>3, <2>4, AdvanceFacts
<1>13. QED
    BY <1>1, <1>2, <1>3, <1>5, <1>6, <1>9, <1>11, <1>12, IncrementFacts

-----------------------------------------------------------------------------
(* Each step keeps what a settled walk has queued.                         *)

LEMMA SameNumbered ==
    ASSUME Numbered, client' = client, joined' = joined, call'.stay \subseteq call.stay
    PROVE  Numbered'
  BY DEF Numbered

LEMMA InitBroadcast == Init => BroadcastInv
<1>1. SUFFICES ASSUME Init PROVE BroadcastInv
    OBVIOUS
<1>2. call.step = "idle" /\ call.ok = FALSE /\ call.stay = {} /\ joined = 0
    BY <1>1 DEF Init, NoCall
<1>3. \A s \in Slots : client[s] = 0
    BY <1>1 DEF Init
<1>4. QED
    BY <1>2, <1>3 DEF BroadcastInv, Numbered, OnTheWay, Walking, SettledBroadcast

LEMMA SendBroadcast ==
    ASSUME Basics, BroadcastInv, NEW type, NEW target, Send(type, target)
    PROVE  BroadcastInv'
<1>1. call' = [NoCall EXCEPT !.step = IF type = "target" THEN "find" ELSE "begin",
                              !.type = type, !.target = target,
                              !.stay = {client[s] : s \in Slots} \ {0},
                              !.settled = Settled]
    BY DEF Send
<1>2. /\ call'.step = IF type = "target" THEN "find" ELSE "begin"
      /\ call'.stay = {client[s] : s \in Slots} \ {0} /\ call'.settled = Settled
      /\ call'.type = type /\ call'.queued = [c \in Conns |-> 0]
    BY <1>1 DEF NoCall
<1>3. client' = client /\ joined' = joined /\ buckets' = buckets /\ my_mask' = my_mask
    BY DEF Send, mapVars
<1>4. Numbered'
  <2>1. \A s \in Slots : client[s] \in 0..joined
      BY MessagesAssumption DEF BroadcastInv, Numbered, Basics, MapInv
  <2>2. joined \in Nat
      BY DEF Basics
  <2>3. {client[s] : s \in Slots} \ {0} \subseteq 1..joined
      BY <2>1, <2>2
  <2>4. QED
      BY <1>2, <1>3, <2>3 DEF BroadcastInv, Numbered
<1>5. SettledBroadcast'
    BY <1>2 DEF SettledBroadcast
<1>6. ASSUME Walking(call') PROVE WalkOK(buckets', my_mask' + 1, client', call')
  <2>1. Settled /\ call'.step = "begin"
      BY <1>2, <1>6 DEF Walking, Walks
  <2>2. AtHome(buckets, my_mask + 1)
      BY <2>1 DEF Settled, AtHome, Listed, Has, Home
  <2>3. QED
      BY <1>2, <1>3, <2>1, <2>2 DEF WalkOK
<1>7. QED
    BY <1>4, <1>5, <1>6, NextOnTheWay DEF BroadcastInv

LEMMA MoveBroadcast == ASSUME Basics, BroadcastInv, Move PROVE BroadcastInv'
<1>1. call \in Calls /\ MapInv /\ call.type \in Walks /\ call.step \in {"begin", "next"}
    BY DEF Basics, AppInv, Move
<1>2. client' = client /\ joined' = joined /\ buckets' = buckets /\ my_mask' = my_mask
    BY DEF Move, mapVars
<1>3. /\ call'.stay = call.stay /\ call'.settled = call.settled /\ call'.type = call.type
      /\ call'.target = call.target /\ call'.queued = call.queued
  <2>1. PICK it : call' = IF it.my_node = <<>>
                          THEN [call EXCEPT !.step = "idle", !.ok = TRUE]
                          ELSE [call EXCEPT !.step = "find", !.at = it]
      BY DEF Move
  <2>2. QED
      BY <1>1, <2>1 DEF Calls
<1>4. Numbered'
    BY <1>2, <1>3, SameNumbered DEF BroadcastInv
<1>5. CASE ~call.settled
    BY <1>3, <1>4, <1>5, NextOnTheWay DEF BroadcastInv, SettledBroadcast, Walking
<1>6. CASE call.settled
  <2>1. WalkOK(buckets, my_mask + 1, client, call)
      BY <1>1, <1>6 DEF BroadcastInv, OnTheWay, Walking
  <2>2. \/ call'.step = "find" /\ WalkOK(buckets, my_mask + 1, client, call')
        \/ /\ call'.step = "idle"
           /\ \A m : Holds(buckets, m) => call.queued[m.conn] = Due(call, m)
      BY <1>1, <2>1, BeginWalk, MoveOnWalk
  <2>3. CASE call'.step = "find" /\ WalkOK(buckets, my_mask + 1, client, call')
      BY <1>2, <1>4, <2>3, NextOnTheWay DEF BroadcastInv, SettledBroadcast
  <2>4. CASE call'.step = "idle" /\ \A m : Holds(buckets, m) => call.queued[m.conn] = Due(call, m)
    <3>1. ASSUME NEW s \in Slots, client[s] \in call.stay
          PROVE  call.queued[client[s]] = IF call.type = "except" /\ s = call.target THEN 0 ELSE 1
      <4>1. client[s] # 0
          BY <3>1 DEF BroadcastInv, Numbered
      <4>2. Holds(buckets, Node(s)) /\ Node(s).key = s /\ Node(s).conn = client[s]
          BY <1>1, <4>1 DEF MapInv, Node
      <4>3. QED
          BY <2>4, <4>2 DEF Due
    <3>2. SettledBroadcast'
        BY <1>2, <1>3, <3>1 DEF SettledBroadcast
    <3>3. ~Walking(call')
        BY <2>4 DEF Walking
    <3>4. QED
        BY <1>4, <3>2, <3>3, NextOnTheWay DEF BroadcastInv
  <2>5. QED
      BY <2>2, <2>3, <2>4
<1>7. QED
    BY <1>5, <1>6

\* Steps that do not touch the call: the map may be rehashed.
LEMMA FindBroadcast ==
    ASSUME Basics, BroadcastInv, call' = call, client' = client, joined' = joined,
           UNCHANGED mapVars \/ \E s \in Slots : Find(s)
    PROVE  BroadcastInv'
<1>1. Numbered' /\ SettledBroadcast'
    BY SameNumbered DEF BroadcastInv, SettledBroadcast
<1>2. my_mask' = my_mask
    BY DEF mapVars, Find
<1>3. ASSUME Walking(call') PROVE WalkOK(buckets', my_mask' + 1, client', call')
  <2>1. WalkOK(buckets, my_mask + 1, client, call)
      BY <1>3 DEF BroadcastInv, OnTheWay
  <2>2. SameLists(buckets, buckets')
    <3>1. CASE UNCHANGED mapVars
        BY <3>1 DEF mapVars, SameLists
    <3>2. CASE \E s \in Slots : Find(s)
        BY <2>1, <3>2, FindFacts DEF Basics, WalkOK
    <3>3. QED
        BY <3>1, <3>2
  <2>3. QED
      BY <1>2, <2>1, <2>2, SameWalk
<1>4. QED
    BY <1>1, <1>3, NextOnTheWay DEF BroadcastInv

\* The client that the walk is at has been found: the node is still there.
LEMMA FoundNode ==
    ASSUME Basics, WalkOK(buckets, my_mask + 1, client, call), call.step = "find",
           call.type \in Walks, Lookup(Sought) # {}
    PROVE  LET n == call.at.my_node[1]
           IN  Sought = n.key /\ n = Node(n.key) /\ Holds(buckets, n) /\ client[n.key] # 0
<1>1. Sought \in Slots /\ MapInv
    BY SoughtFacts DEF Basics
<1>2. PICK n : n = call.at.my_node[1]
    OBVIOUS
<1>3. Sought = n.key
    BY <1>2 DEF Sought, Walks
<1>4. client[n.key] # 0
    BY <1>1, <1>3, LookupFacts
<1>5. n = Node(n.key)
    BY <1>2, <1>4 DEF WalkOK, Node
<1>6. Holds(buckets, n)
    BY <1>1, <1>3, <1>4, <1>5 DEF MapInv
<1>7. QED
    BY <1>2, <1>3, <1>4, <1>5, <1>6

LEMMA SkippedBroadcast == ASSUME Basics, BroadcastInv, Skipped PROVE BroadcastInv'
<1>1. call \in Calls /\ MapInv /\ Sought \in Slots /\ call.step = "find" /\ call.type = "except"
    BY SoughtFacts DEF Basics, AppInv, Skipped
<1>2. client' = client /\ joined' = joined /\ my_mask' = my_mask
    BY DEF Skipped, Find
<1>3. PICK d : d = call'
    OBVIOUS
<1>4. /\ d.stay = call.stay /\ d.settled = call.settled /\ d.type = call.type
      /\ d.target = call.target /\ d.queued = call.queued /\ d.at = call.at /\ d.step = "next"
    BY <1>1, <1>3 DEF Skipped, Calls
<1>5. Numbered' /\ SettledBroadcast'
  <2>1. call'.step # "idle"
      BY <1>3, <1>4
  <2>2. QED
      BY <1>2, <1>3, <1>4, <2>1, SameNumbered DEF BroadcastInv, SettledBroadcast
<1>6. ASSUME Walking(d) PROVE WalkOK(buckets', my_mask' + 1, client', d)
  <2>1. WalkOK(buckets, my_mask + 1, client, call)
      BY <1>1, <1>4, <1>6 DEF BroadcastInv, OnTheWay, Walking
  <2>2. PICK n : n = call.at.my_node[1]
      OBVIOUS
  <2>3. Sought = n.key /\ n = Node(n.key) /\ Holds(buckets, n)
      BY <1>1, <2>1, <2>2, FoundNode DEF Walks, Skipped
  <2>4. Due(call, n) = 0
      BY <1>1, <2>3 DEF Due, Skipped
  <2>5. call.queued[n.conn] = 0
      BY <1>1, <2>1, <2>2, <2>3, <2>4 DEF WalkOK
  <2>6. \A m : Holds(buckets, m) =>
            d.queued[m.conn] = IF m = n THEN Due(call, m) ELSE call.queued[m.conn]
      BY <1>4, <2>4, <2>5
  <2>7. WalkOK(buckets, my_mask + 1, client, d)
      BY <1>1, <1>4, <2>1, <2>2, <2>3, <2>6, NextWalk
  <2>8. SameLists(buckets, buckets')
      BY <1>1, <1>2, <2>1, FindFacts DEF WalkOK, Skipped
  <2>9. QED
      BY <1>2, <2>7, <2>8, SameWalk
<1>7. QED
    BY <1>3, <1>5, <1>6, NextOnTheWay DEF BroadcastInv

LEMMA QueuedBroadcast == ASSUME Basics, BroadcastInv, Queued PROVE BroadcastInv'
<1>1. call \in Calls /\ MapInv /\ Sought \in Slots /\ call.step = "find"
    BY SoughtFacts DEF Basics, AppInv, Queued
<1>2. client' = client /\ joined' = joined /\ my_mask' = my_mask
    BY DEF Queued, Find
<1>3. PICK d : d = call'
    OBVIOUS
<1>4. PICK n \in ClientNodes :
          /\ n = Node(Sought) /\ n.key = Sought
          /\ d = [call EXCEPT !.queued[n.conn] = @ + 1,
                              !.step = IF call.type = "target" THEN "idle" ELSE "next",
                              !.ok = (call.type = "target")]
    BY <1>3, QueuedFacts
<1>5. n.conn \in Conns /\ call.queued \in [Conns -> Nat]
    BY <1>1 DEF ClientNodes, Calls
<1>6. /\ d.stay = call.stay /\ d.settled = call.settled /\ d.type = call.type
      /\ d.target = call.target /\ d.at = call.at
      /\ d.step = IF call.type = "target" THEN "idle" ELSE "next"
      /\ d.queued = [call.queued EXCEPT ![n.conn] = @ + 1]
    BY <1>1, <1>4 DEF Calls
<1>7. Numbered' /\ SettledBroadcast'
  <2>1. ~(call'.step = "idle" /\ call'.type \in {"broadcast", "except"})
      BY <1>3, <1>6
  <2>2. QED
      BY <1>2, <1>3, <1>6, <2>1, SameNumbered DEF BroadcastInv, SettledBroadcast
<1>8. ASSUME Walking(d) PROVE WalkOK(buckets', my_mask' + 1, client', d)
  <2>1. WalkOK(buckets, my_mask + 1, client, call) /\ call.type \in Walks /\ d.step = "next"
      BY <1>1, <1>6, <1>8 DEF BroadcastInv, OnTheWay, Walking, Walks
  <2>2. PICK k : k = call.at.my_node[1]
      OBVIOUS
  <2>3. Sought = k.key /\ k = Node(k.key) /\ Holds(buckets, k)
      BY <1>1, <2>1, <2>2, FoundNode DEF Queued
  <2>4. k = n
      BY <1>4, <2>3
  <2>5. Due(call, n) = 1
      BY <1>4 DEF Due, Queued
  <2>6. call.queued[n.conn] = 0
    <3>1. PICK idx : idx = call.at.my_index
        OBVIOUS
    <3>2. (call.step = "next") = FALSE
        BY <1>1
    <3>3. /\ idx \in Indexes /\ Has(buckets[idx].list, n)
          /\ call.queued[n.conn] =
                IF Passed(buckets, idx, n, FALSE, n) THEN Due(call, n) ELSE 0
        BY <1>1, <2>1, <2>2, <2>3, <2>4, <3>1, <3>2 DEF WalkOK
    <3>4. ~Passed(buckets, idx, n, FALSE, n)
      <4>1. \A i \in Indexes : Has(buckets[i].list, n) => i = idx
          BY <1>1, <3>3, NodeOnce DEF MapInv
      <4>2. ~(idx < idx)
          BY <3>3, CountFacts
      <4>3. ~Before(buckets[idx].list, n, n)
          BY <1>1, <3>3 DEF MapInv, Good
      <4>4. QED
          BY <4>1, <4>2, <4>3 DEF Passed
    <3>5. QED
        BY <3>3, <3>4
  <2>7. ASSUME NEW m, Holds(buckets, m), m # n PROVE m.conn # n.conn /\ m.conn \in Conns
    <3>1. m.key \in Slots /\ client[m.key] # 0 /\ m.conn = client[m.key] /\ m.conn \in Conns
          /\ m = [key |-> m.key, conn |-> client[m.key]]
        BY <1>1, <2>7, HeldNode
    <3>2. n.conn = client[n.key] /\ n.key \in Slots /\ n = [key |-> n.key, conn |-> client[n.key]]
        BY <1>1, <1>4 DEF Node
    <3>3. m.key # n.key
        BY <2>7, <3>1, <3>2
    <3>4. QED
        BY <3>1, <3>2, <3>3 DEF BroadcastInv, Numbered
  <2>8. \A m : Holds(buckets, m) =>
            d.queued[m.conn] = IF m = n THEN Due(call, m) ELSE call.queued[m.conn]
      BY <1>5, <1>6, <2>5, <2>6, <2>7
  <2>9. WalkOK(buckets, my_mask + 1, client, d)
    <3>1. n = call.at.my_node[1] /\ Holds(buckets, n)
        BY <2>2, <2>3, <2>4
    <3>2. d.at = call.at /\ d.type = call.type /\ d.target = call.target
        BY <1>6
    <3>3. QED
        BY ONLY <1>1, <2>1, <2>8, <3>1, <3>2, NextWalk
  <2>10. SameLists(buckets, buckets')
      BY <1>1, <1>2, <2>1, FindFacts DEF WalkOK, Queued
  <2>11. QED
      BY <1>2, <2>9, <2>10, SameWalk
<1>9. QED
    BY <1>3, <1>7, <1>8, NextOnTheWay DEF BroadcastInv

LEMMA AbsentBroadcast == ASSUME Basics, BroadcastInv, Absent PROVE BroadcastInv'
<1>1. call'.step = "idle" /\ call'.ok = FALSE /\ call'.stay = {}
    BY DEF Absent, NoCall
<1>2. client' = client /\ joined' = joined
    BY DEF Absent
<1>3. Numbered'
    BY <1>1, <1>2, SameNumbered DEF BroadcastInv
<1>4. QED
    BY <1>1, <1>3, NextOnTheWay DEF BroadcastInv, SettledBroadcast, Walking

\* A client comes: the walk is not settled any more, and a call that is over does
\* not know the client.
LEMMA AddBroadcast ==
    ASSUME Basics, BroadcastInv, NEW s \in Slots, AddClientSocket(s)
    PROVE  BroadcastInv'
<1>1. /\ call'.step = call.step /\ call'.type = call.type /\ call'.target = call.target
      /\ call'.ok = call.ok /\ call'.queued = call.queued /\ call'.stay = call.stay
      /\ call'.settled = (call.settled /\ call.step = "idle")
    BY WorkerCall
<1>2. /\ client[s] = 0 /\ joined' = joined + 1 /\ joined \in Nat
      /\ client' = [client EXCEPT ![s] = joined + 1] /\ client \in [Slots -> 0..MaxClients]
    BY DEF AddClientSocket, Basics, MapInv
<1>3. client'[s] = joined + 1 /\ \A t \in Slots : t # s => client'[t] = client[t]
    BY <1>2
<1>4. \A t \in Slots : client[t] \in Nat /\ client[t] <= joined /\ client[t] # joined + 1
    BY <1>2 DEF BroadcastInv, Numbered
<1>5. Numbered'
  <2>1. \A t \in Slots : client'[t] <= joined + 1
      BY <1>2, <1>3, <1>4
  <2>2. \A t, u \in Slots : client'[t] # 0 /\ client'[t] = client'[u] => t = u
      BY <1>3, <1>4 DEF BroadcastInv, Numbered
  <2>3. call.stay \subseteq 1..joined + 1
      BY <1>2 DEF BroadcastInv, Numbered
  <2>4. QED
      BY <1>1, <1>2, <2>1, <2>2, <2>3 DEF Numbered
<1>6. joined + 1 \notin call.stay
    BY <1>2 DEF BroadcastInv, Numbered
<1>7. SettledBroadcast'
  <2>1. SUFFICES ASSUME call.step = "idle", call.ok, call.settled,
                        call.type \in {"broadcast", "except"},
                        NEW t \in Slots, client'[t] \in call.stay
                 PROVE  call.queued[client'[t]] =
                           IF call.type = "except" /\ t = call.target THEN 0 ELSE 1
      BY <1>1 DEF SettledBroadcast
  <2>2. client'[t] = client[t]
      BY <1>3, <1>6, <2>1
  <2>3. QED
      BY <2>1, <2>2 DEF BroadcastInv, SettledBroadcast
<1>8. ~Walking(call')
    BY <1>1 DEF Walking
<1>9. QED
    BY <1>5, <1>7, <1>8, NextOnTheWay DEF BroadcastInv

LEMMA DeleteBroadcast ==
    ASSUME Basics, BroadcastInv, NEW s \in Slots, Delete_in_Socket_List(s)
    PROVE  BroadcastInv'
<1>1. /\ call'.step = call.step /\ call'.type = call.type /\ call'.target = call.target
      /\ call'.at = call.at /\ call'.ok = call.ok /\ call'.queued = call.queued
      /\ call'.settled = call.settled /\ call'.stay \subseteq call.stay
      /\ call.step = "idle" => call'.stay = call.stay
    BY WorkerCall
<1>2. /\ client[s] # 0 /\ joined' = joined /\ joined \in Nat /\ Erase(Node(s)) /\ MapInv
      /\ client' = [client EXCEPT ![s] = 0] /\ client \in [Slots -> 0..MaxClients]
    BY DEF Delete_in_Socket_List, Basics, MapInv
<1>3. client'[s] = 0 /\ \A t \in Slots : t # s => client'[t] = client[t]
    BY <1>2
<1>4. Numbered'
    BY <1>1, <1>2, <1>3 DEF BroadcastInv, Numbered
<1>5. SettledBroadcast'
  <2>1. SUFFICES ASSUME call.step = "idle", call.ok, call.settled,
                        call.type \in {"broadcast", "except"},
                        NEW t \in Slots, client'[t] \in call.stay
                 PROVE  call.queued[client'[t]] =
                           IF call.type = "except" /\ t = call.target THEN 0 ELSE 1
      BY <1>1 DEF SettledBroadcast
  <2>2. client'[t] = client[t]
      BY <1>3, <2>1 DEF BroadcastInv, Numbered
  <2>3. QED
      BY <2>1, <2>2 DEF BroadcastInv, SettledBroadcast
<1>6. ASSUME Walking(call') PROVE WalkOK(buckets', my_mask' + 1, client', call')
  <2>1. Walking(call) /\ WalkOK(buckets, my_mask + 1, client, call)
      BY <1>1, <1>6 DEF BroadcastInv, OnTheWay, Walking
  <2>2. PICK x : x = Node(s)
      OBVIOUS
  <2>3. PICK cs : cs = buckets'
      OBVIOUS
  <2>4. /\ my_mask' = my_mask
        /\ \A i \in Indexes : \A a, b :
              /\ Has(cs[i].list, a) <=> Has(buckets[i].list, a) /\ a # x
              /\ Before(cs[i].list, a, b) <=> Before(buckets[i].list, a, b) /\ a # x /\ b # x
      BY <1>2, <2>1, <2>2, <2>3, EraseFacts DEF WalkOK
  <2>5. call \in Calls /\ call.step \in {"begin", "next", "find"}
      BY <2>1 DEF Basics, AppInv, Walking
  <2>6. call.step \in {"next", "find"} => call.at.my_node[1].key \in Slots
    <3>1. SUFFICES ASSUME call.step \in {"next", "find"} PROVE call.at.my_node[1].key \in Slots
        OBVIOUS
    <3>2. PICK n \in ClientNodes : call.at.my_node = <<n>>
        BY <2>1, <3>1 DEF Basics, AppInv, Walking, Walks
    <3>3. QED
        BY <3>2 DEF ClientNodes
  <2>7. PICK d : d = call'
      OBVIOUS
  <2>8. WalkOK(cs, my_mask + 1, [client EXCEPT ![s] = 0], d)
      BY <1>1, <1>2, <2>1, <2>4, <2>5, <2>6, <2>7, ErasedWalk
  <2>9. QED
      BY <1>2, <2>3, <2>4, <2>7, <2>8
<1>7. QED
    BY <1>4, <1>5, <1>6, NextOnTheWay DEF BroadcastInv

LEMMA EndBroadcast == ASSUME Basics, BroadcastInv, End \/ EndJoined PROVE BroadcastInv'
<1>1. client' = client /\ joined' = joined
    BY DEF End, EndJoined
<1>2. call'.step \in {"join", "ended"} /\ call'.stay = call.stay
    BY DEF Basics, AppInv, Calls, End, EndJoined
<1>3. QED
    BY <1>1, <1>2, SameNumbered, NextOnTheWay DEF BroadcastInv, SettledBroadcast, Walking

LEMMA StepBroadcast == Basics /\ BroadcastInv /\ [Next]_vars => BroadcastInv'
<1>1. SUFFICES ASSUME Basics, BroadcastInv, [Next]_vars PROVE BroadcastInv'
    OBVIOUS
<1>2. CASE UNCHANGED vars
  <2>1. call' = call /\ client' = client /\ joined' = joined /\ UNCHANGED mapVars
      BY <1>2 DEF vars, app
  <2>2. QED
      BY <1>1, <2>1, FindBroadcast
<1>3. CASE Send("broadcast", 0) \/ \E s \in Slots : Send("target", s) \/ Send("except", s)
    BY <1>1, <1>3, SendBroadcast
<1>4. CASE MoveFromErased
  <2>1. call' = call /\ client' = client /\ joined' = joined /\ UNCHANGED mapVars
      BY <1>4 DEF MoveFromErased, app
  <2>2. QED
      BY <1>1, <2>1, FindBroadcast
<1>5. CASE AppStep \/ End
    BY <1>1, <1>4, <1>5, EndBroadcast, MoveBroadcast, AbsentBroadcast, SkippedBroadcast,
       QueuedBroadcast DEF AppStep, SendStep
<1>6. CASE SendThread
  <2>1. call' = call /\ client' = client /\ joined' = joined
      BY <1>6 DEF SendThread, Pop, Drop, Hold, Transmit, SenderEmpty, SenderTest, app
  <2>2. UNCHANGED mapVars \/ \E s \in Slots : Find(s)
    <3>1. CASE Pop \/ Transmit \/ SenderEmpty \/ SenderTest
        BY <3>1 DEF Pop, Transmit, SenderEmpty, SenderTest
    <3>2. CASE Drop \/ Hold
      <4>1. sender.copy.sock \in Slots /\ Find(sender.copy.sock)
          BY <1>1, <3>2 DEF Basics, QueueInv, Copy, Drop, Hold
      <4>2. QED
          BY <4>1
    <3>3. QED
        BY <1>6, <3>1, <3>2 DEF SendThread
  <2>3. QED
      BY <1>1, <2>1, <2>2, FindBroadcast
<1>7. CASE WorkThread
    BY <1>1, <1>7, AddBroadcast, DeleteBroadcast DEF WorkThread
<1>8. QED
    BY <1>1, <1>2, <1>3, <1>5, <1>6, <1>7 DEF Next

LEMMA AlwaysBroadcast == Spec => [](Basics /\ BroadcastInv)
<1>1. Init => Basics /\ BroadcastInv
    BY InitBasics, InitBroadcast
<1>2. Basics /\ BroadcastInv /\ [Next]_vars => (Basics /\ BroadcastInv)'
    BY StepBasics, StepBroadcast
<1>3. QED
    BY <1>1, <1>2, PTL DEF Spec

\* A broadcast that begins in a settled table, while nobody comes, queues one copy
\* for each client that stays, none for the one left out: the lookups of the call and
\* of SendThread and the clients that leave do not make the iterator miss a client,
\* or meet one twice.
THEOREM MessagesSettledBroadcast == Spec => []SettledBroadcast
  BY AlwaysBroadcast, PTL DEF BroadcastInv

-----------------------------------------------------------------------------
(* Types.                                                                  *)

Present == {s \in Slots : client[s] # 0}

\* my_size counts the clients.
SizeInv ==
    /\ IsFiniteSet(Present) /\ my_size = Cardinality(Present)
    /\ g_Is_Exit \in BOOLEAN /\ crashed \in BOOLEAN /\ strayed \in BOOLEAN

LEMMA InitSize == Init => SizeInv
<1>1. SUFFICES ASSUME Init PROVE SizeInv
    OBVIOUS
<1>2. Present = {}
    BY <1>1 DEF Init, Present
<1>3. QED
    BY <1>1, <1>2, FS_EmptySet DEF SizeInv, Init, MapInit

LEMMA StepSize == Basics /\ SizeInv /\ [Next]_vars => SizeInv'
<1>1. SUFFICES ASSUME Basics, SizeInv, [Next]_vars PROVE SizeInv'
    OBVIOUS
<1>2. ASSUME my_size' = my_size, client' = client, g_Is_Exit' \in BOOLEAN,
             crashed' \in BOOLEAN, strayed' \in BOOLEAN
      PROVE  SizeInv'
    BY <1>1, <1>2 DEF SizeInv, Present
<1>3. CASE UNCHANGED vars
    BY <1>1, <1>2, <1>3 DEF vars, mapVars, SizeInv
<1>4. ASSUME NEW type, NEW target, Send(type, target) PROVE SizeInv'
    BY <1>1, <1>2, <1>4 DEF Send, mapVars, SizeInv
<1>5. CASE AppStep \/ End
    BY <1>1, <1>2, <1>5 DEF AppStep, SendStep, End, EndJoined, Move, MoveFromErased, Absent,
       Skipped, Queued, Find, mapVars, SizeInv
<1>6. CASE SendThread
    BY <1>1, <1>2, <1>6 DEF SendThread, Pop, Drop, Hold, Transmit, SenderEmpty, SenderTest, Find, mapVars,
       SizeInv
<1>7. CASE WorkThread
  <2>1. PICK s \in Slots : AddClientSocket(s) \/ Delete_in_Socket_List(s)
      BY <1>7 DEF WorkThread
  <2>2. g_Is_Exit' = g_Is_Exit /\ crashed' = crashed /\ strayed' = strayed
      BY <2>1 DEF AddClientSocket, Delete_in_Socket_List
  <2>3. client \in [Slots -> 0..MaxClients] /\ joined \in Nat
      BY <1>1 DEF Basics, MapInv
  <2>4. CASE AddClientSocket(s)
    <3>1. client' = [client EXCEPT ![s] = joined + 1] /\ my_size' = my_size + 1
          /\ client[s] = 0 /\ joined + 1 # 0
        BY <2>3, <2>4 DEF AddClientSocket, Insert
    <3>2. Present' = Present \cup {s} /\ s \notin Present
        BY <2>3, <3>1 DEF Present
    <3>3. QED
        BY <1>1, <2>2, <3>1, <3>2, FS_AddElement DEF SizeInv
  <2>5. CASE Delete_in_Socket_List(s)
    <3>1. client' = [client EXCEPT ![s] = 0] /\ my_size' = my_size - 1 /\ client[s] # 0
        BY <2>5 DEF Delete_in_Socket_List, Erase
    <3>2. Present' = Present \ {s} /\ s \in Present
        BY <2>3, <3>1 DEF Present
    <3>3. QED
        BY <1>1, <2>2, <3>1, <3>2, FS_RemoveElement DEF SizeInv
  <2>6. QED
      BY <2>1, <2>4, <2>5
<1>8. QED
    BY <1>1, <1>3, <1>4, <1>5, <1>6, <1>7 DEF Next

\* The types of the variables; my_size does not go below zero, the mask is always
\* that of a size of the table, and only copies that were made are deleted or lost.
THEOREM MessagesTypeOK == Spec => []TypeOK
<1>1. Init => Basics /\ CopyInv /\ SizeInv
    BY InitBasics, InitCopies, InitSize
<1>2. Basics /\ CopyInv /\ SizeInv /\ [Next]_vars => (Basics /\ CopyInv /\ SizeInv)'
    BY StepBasics, StepCopies, StepSize
<1>3. ASSUME Basics, CopyInv, SizeInv PROVE TypeOK
  <2>1. \A i \in Indexes : Listed(buckets[i]) \subseteq [key : Slots, conn : Conns]
    <3>1. \A i \in Indexes : buckets[i].list \in Seq(ClientNodes)
        BY <1>3 DEF Basics, MapInv, Good, Tables
    <3>2. \A i \in Indexes : \A p \in 1..Len(buckets[i].list) : buckets[i].list[p] \in ClientNodes
        BY <3>1, ElementOfSeq
    <3>3. \A i \in Indexes : Listed(buckets[i]) \subseteq ClientNodes
        BY <3>2, Zenon DEF Listed
    <3>4. QED
        BY <3>3 DEF ClientNodes
  <2>2. my_mask + 1 \in {BucketCounts[i] : i \in 1..Len(BucketCounts)}
      BY <1>3 DEF Basics, MapInv, Counts
  <2>3. my_size \in Nat
      BY <1>3, FS_CardinalityType DEF SizeInv
  <2>4. /\ Send_Data_Queue \in Seq(Copy) /\ sender.step \in {"test", "loop", "find", "send", "exited"}
        /\ sender.copy \in Copy \cup {NoCopy}
      BY <1>3 DEF Basics, QueueInv
  <2>5. call.step \in {"idle", "begin", "next", "find", "join", "ended"}
      BY <1>3 DEF Basics, AppInv, Calls
  <2>6. client \in [Slots -> 0..MaxClients]
      BY <1>3 DEF Basics, MapInv
  <2>7. freed \subseteq 1..copies /\ leaked \subseteq 1..copies
      BY <1>3 DEF CopyInv, OnePlace
  <2>8. QED
      BY <1>3, <2>1, <2>2, <2>3, <2>4, <2>5, <2>6, <2>7 DEF SizeInv, TypeOK
<1>4. QED
    BY <1>1, <1>2, <1>3, PTL DEF Spec
=============================================================================
