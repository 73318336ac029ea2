---------------------------- MODULE BcacheProofs ----------------------------
(***************************************************************************)
(* Proofs about the hashed buffer cache of lab 3, for any number of        *)
(* processes, buffers, buckets and blocks: a block has one copy, every     *)
(* buffer is where bget() looks for it, and none is recycled while it is   *)
(* in use.                                                                 *)
(***************************************************************************)
EXTENDS HashBcache, FiniteSetTheorems, SequenceTheorems, WellFoundedInduction, TLAPS

-----------------------------------------------------------------------------
(* The inductive invariant *)

\* Every buffer hangs in one list, once, where bget() looks for its block.
ListInv ==
  /\ \A b \in Buf : \E k \in Bucket : b \in In(k)
  /\ \A k, l \in Bucket : In(k) \cap In(l) # {} => k = l
  /\ \A k \in Bucket : \A m, n \in DOMAIN list[k] : list[k][m] = list[k][n] => m = n
  /\ \A k \in Bucket : \A b \in In(k) : blockno[b] # None => Hash(blockno[b]) = k

\* b->refcnt counts the processes that have the buffer, and the pin.
Users(b) == {p \in Proc : buf[p] = b}
RefcntInv ==
  \A b \in Buf :
    /\ IsFiniteSet(Users(b))
    /\ refcnt[b] = Cardinality(Users(b)) + (IF b \in pinned THEN 1 ELSE 0)

\* Where a process is says what it has, and its buffer keeps its block.
ProcInv ==
  \A p \in Proc :
    /\ pc[p] # "idle" <=> want[p] # None
    /\ pc[p] \in {"acquiresleep", "use", "brelse"} <=> buf[p] # None
    /\ buf[p] # None => blockno[buf[p]] = want[p]

\* A process that looks for a buffer in other buckets keeps its own locked, so
\* that nobody else brings its block into the cache.
StealInv ==
  /\ \A p \in Proc, k \in Bucket : lock[k] = p <=> pc[p] = "steal" /\ k = Hash(want[p])
  /\ \A p \in Proc, b \in Buf : pc[p] = "steal" => blockno[b] # want[p]

\* The holder of the sleep lock uses the buffer; what is valid is the block.
HolderInv ==
  /\ \A p \in Proc, b \in Buf : holder[b] = p <=> pc[p] = "use" /\ buf[p] = b
  /\ \A b \in Buf : valid[b] => loaded[b] = blockno[b]
  /\ \A p \in Proc : pc[p] = "use" => valid[buf[p]]

Inv == TypeOK /\ OneCopy /\ ListInv /\ RefcntInv /\ ProcInv /\ StealInv /\ HolderInv

-----------------------------------------------------------------------------
(* Lemmas and theorems *)

\* Every non-empty set of natural numbers has a least element.
LEMMA Least ==
  ASSUME NEW T \in SUBSET Nat, T # {}
  PROVE  \E x \in T : \A y \in T : x =< y
<1>1. IsWellFoundedOn(OpToRel(<, Nat), Nat)
  BY NatLessThanWellFounded
<1>2. PICK x \in T : \A y \in T : ~(<<y, x>> \in OpToRel(<, Nat))
  BY <1>1, WFMin, Zenon
<1>3. \A y \in T : ~(y < x)
  BY <1>2, Zenon DEF OpToRel
<1>4. QED
  BY <1>3

\* A non-empty set of numbers up to n has a greatest element.
LEMMA MaxIs ==
  ASSUME NEW n \in Nat, NEW S \in SUBSET (1..n), S # {}
  PROVE  Max(S) \in S
<1> DEFINE T == {n - x : x \in S}
<1>1. T \in SUBSET Nat /\ T # {}
  <2>1. \A x \in S : x \in Nat /\ x =< n
    OBVIOUS
  <2>2. \A x \in S : n - x \in Nat
    BY <2>1
  <2>3. QED
    BY <2>2
<1>2. PICK t \in T : \A y \in T : t =< y
  BY <1>1, Least
<1>3. PICK x \in S : t = n - x
  BY <1>2
<1>4. \A y \in S : n - x =< n - y
  BY <1>2, <1>3
<1>5. \A y \in S : x >= y
  BY <1>4
<1>6. \E z \in S : \A y \in S : z >= y
  BY <1>5
<1>7. QED
  BY <1>6, Zenon DEF Max

\* The elements of a sequence.
Elems(s) == {s[j] : j \in DOMAIN s}

\* No element is there twice.
Once(s) == \A m, n \in DOMAIN s : s[m] = s[n] => m = n

\* What RemoveAt leaves, element by element.
LEMMA RemoveAtIs ==
  ASSUME NEW S, NEW s \in Seq(S), NEW n \in 1..Len(s)
  PROVE  /\ RemoveAt(s, n) \in Seq(S) /\ Len(RemoveAt(s, n)) = Len(s) - 1
         /\ \A m \in 1..(Len(s) - 1) : RemoveAt(s, n)[m] = IF m < n THEN s[m] ELSE s[m + 1]
<1> DEFINE u == SubSeq(s, 1, n - 1)
           v == SubSeq(s, n + 1, Len(s))
<1>1. Len(s) \in Nat /\ n \in Nat /\ 1 =< n /\ n =< Len(s)
  OBVIOUS
<1>2. u \in Seq(S) /\ Len(u) = n - 1 /\ \A m \in 1..(n - 1) : u[m] = s[m]
  BY <1>1
<1>3. v \in Seq(S) /\ Len(v) = Len(s) - n /\ \A m \in 1..(Len(s) - n) : v[m] = s[n + m]
  BY <1>1
<1> HIDE DEF u, v
<1>4. /\ u \o v \in Seq(S) /\ Len(u \o v) = Len(s) - 1
      /\ \A m \in 1..(Len(s) - 1) : (u \o v)[m] = IF m < n THEN u[m] ELSE v[m - (n - 1)]
  <2>1. u \o v \in Seq(S) /\ Len(u \o v) = Len(u) + Len(v)
    BY <1>2, <1>3, ConcatProperties
  <2>2. \A m \in 1..(Len(u) + Len(v)) : (u \o v)[m] = IF m =< Len(u) THEN u[m] ELSE v[m - Len(u)]
    BY <1>2, <1>3, ConcatProperties
  <2>3. QED
    BY <1>1, <1>2, <1>3, <2>1, <2>2
<1>5. \A m \in 1..(Len(s) - 1) : (u \o v)[m] = IF m < n THEN s[m] ELSE s[m + 1]
  <2> SUFFICES ASSUME NEW m \in 1..(Len(s) - 1)
               PROVE  (u \o v)[m] = IF m < n THEN s[m] ELSE s[m + 1]
    OBVIOUS
  <2>1. CASE m < n
    BY <2>1, <1>1, <1>2, <1>4
  <2>2. CASE ~(m < n)
    <3>1. m - (n - 1) \in 1..(Len(s) - n) /\ n + (m - (n - 1)) = m + 1
      BY <2>2, <1>1
    <3>2. QED
      BY <2>2, <3>1, <1>3, <1>4
  <2>3. QED
    BY <2>1, <2>2
<1>6. RemoveAt(s, n) = u \o v
  BY DEF RemoveAt, u, v
<1>7. QED
  BY <1>4, <1>5, <1>6

\* Taking b out of a list leaves the others there.
LEMMA UnlinkIs ==
  ASSUME NEW S, NEW s \in Seq(S), NEW b, Once(s)
  PROVE  /\ unlink(b, s) \in Seq(S)
         /\ Once(unlink(b, s))
         /\ Elems(unlink(b, s)) = Elems(s) \ {b}
<1>1. CASE \E n \in DOMAIN s : s[n] = b
  <2>1. PICK n \in DOMAIN s : s[n] = b /\ unlink(b, s) = RemoveAt(s, n)
    BY <1>1 DEF unlink
  <2> DEFINE r == RemoveAt(s, n)
  <2>2. /\ r \in Seq(S) /\ Len(r) = Len(s) - 1 /\ n \in 1..Len(s)
        /\ \A m \in 1..(Len(s) - 1) : r[m] = IF m < n THEN s[m] ELSE s[m + 1]
    BY <2>1, RemoveAtIs
  <2> HIDE DEF r
  <2>3. DOMAIN r = 1..(Len(s) - 1) /\ DOMAIN s = 1..Len(s) /\ Len(s) \in Nat
    BY <2>2
  <2> DEFINE at(m) == IF m < n THEN m ELSE m + 1
  <2>a. \A m \in DOMAIN r : at(m) \in DOMAIN s /\ r[m] = s[at(m)]
    BY <2>2, <2>3
  <2>b. \A m, l \in DOMAIN r : at(m) = at(l) => m = l
    BY <2>2, <2>3
  <2> HIDE DEF at
  <2>4. Once(r)
    BY <2>a, <2>b DEF Once
  <2>5. ASSUME NEW x \in Elems(r) PROVE x \in Elems(s) \ {b}
    <3>1. PICK m \in 1..(Len(s) - 1) : x = r[m]
      BY <2>3 DEF Elems
    <3>2. PICK j \in DOMAIN s : x = s[j] /\ j # n
      BY <3>1, <2>2, <2>3
    <3>3. QED
      BY <3>2, <2>1 DEF Once, Elems
  <2>6. ASSUME NEW x \in Elems(s) \ {b} PROVE x \in Elems(r)
    <3>1. PICK j \in DOMAIN s : x = s[j]
      BY DEF Elems
    <3>2. j # n
      BY <3>1, <2>1
    <3>3. CASE j < n
      BY <3>1, <3>3, <2>2, <2>3 DEF Elems
    <3>4. CASE j > n
      <4>1. j - 1 \in 1..(Len(s) - 1) /\ ~(j - 1 < n) /\ j - 1 + 1 = j
        BY <3>4, <2>2, <2>3
      <4>2. r[j - 1] = x
        BY <4>1, <2>2, <3>1
      <4>3. QED
        BY <4>1, <4>2, <2>3 DEF Elems
    <3>5. QED
      BY <3>2, <3>3, <3>4, <2>2, <2>3
  <2>7. QED
    BY <2>1, <2>2, <2>4, <2>5, <2>6 DEF r
<1>2. CASE ~ \E n \in DOMAIN s : s[n] = b
  BY <1>2 DEF unlink, Elems
<1>3. QED
  BY <1>1, <1>2

\* Putting b in front of a list.
LEMMA ConsIs ==
  ASSUME NEW S, NEW s \in Seq(S), NEW b \in S, Once(s), b \notin Elems(s)
  PROVE  /\ <<b>> \o s \in Seq(S)
         /\ Once(<<b>> \o s)
         /\ Elems(<<b>> \o s) = Elems(s) \cup {b}
<1> DEFINE r == <<b>> \o s
<1>1. /\ r \in Seq(S) /\ Len(r) = Len(s) + 1 /\ r[1] = b
      /\ \A m \in 2..(Len(s) + 1) : r[m] = s[m - 1]
  OBVIOUS
<1> HIDE DEF r
<1>2. DOMAIN r = 1..(Len(s) + 1) /\ DOMAIN s = 1..Len(s) /\ Len(s) \in Nat
  BY <1>1
<1>3. \A m \in DOMAIN r : m # 1 => m - 1 \in DOMAIN s /\ r[m] = s[m - 1] /\ r[m] # b
  BY <1>1, <1>2 DEF Elems
<1>4. Once(r)
  <2> SUFFICES ASSUME NEW m \in DOMAIN r, NEW n \in DOMAIN r, r[m] = r[n] PROVE m = n
    BY DEF Once
  <2>1. CASE m = 1 \/ n = 1
    BY <2>1, <1>1, <1>3
  <2>2. CASE m # 1 /\ n # 1
    <3>1. m - 1 = n - 1
      BY <2>2, <1>3 DEF Once
    <3>2. QED
      BY <3>1, <1>2
  <2>3. QED
    BY <2>1, <2>2
<1>5. Elems(r) = Elems(s) \cup {b}
  <2>1. ASSUME NEW x \in Elems(r) PROVE x \in Elems(s) \cup {b}
    BY <1>1, <1>3 DEF Elems
  <2>2. ASSUME NEW x \in Elems(s) PROVE x \in Elems(r)
    <3>1. PICK j \in DOMAIN s : x = s[j]
      BY DEF Elems
    <3>2. j + 1 \in 2..(Len(s) + 1) /\ j + 1 - 1 = j
      BY <1>2
    <3>3. r[j + 1] = x /\ j + 1 \in DOMAIN r
      BY <3>1, <3>2, <1>1, <1>2
    <3>4. QED
      BY <3>3 DEF Elems
  <2>3. b \in Elems(r)
    <3>1. 1 \in DOMAIN r
      BY <1>2
    <3>2. QED
      BY <3>1, <1>1 DEF Elems
  <2>4. QED
    BY <2>1, <2>2, <2>3
<1>6. QED
  BY <1>1, <1>4, <1>5 DEF r

-----------------------------------------------------------------------------

\* A block's list.
LEMMA HashIs ==
  ASSUME BcacheConstants, NEW n \in Block
  PROVE  Hash(n) \in Bucket /\ Hash(n) # None /\ n # None
<1>1. n \in Nat /\ NBUCKETS \in Nat \ {0}
  BY DEF BcacheConstants
<1>2. n % NBUCKETS \in 0..(NBUCKETS - 1)
  BY <1>1
<1>3. QED
  BY <1>2 DEF Hash, Bucket, BcacheConstants

\* What the constants say of buffers, buckets and the null pointer.
LEMMA Facts ==
  ASSUME BcacheConstants
  PROVE  /\ None \notin Buf /\ None \notin Proc /\ None \notin Block /\ None \notin Bucket
         /\ None \notin 0..NBUCKETS
         /\ IsFiniteSet(Buf) /\ Cardinality(Buf) = NBUF
<1>1. None \notin Buf /\ None \notin Proc /\ None \notin Block /\ None \notin Bucket
      /\ None \notin 0..NBUCKETS
  BY DEF BcacheConstants, Buf, Bucket
<1>2. IsFiniteSet(1..NBUF) /\ Cardinality(1..NBUF) = NBUF
  <2>1. 1 \in Int /\ NBUF \in Int /\ NBUF >= 1
    BY DEF BcacheConstants
  <2>2. QED
    BY <2>1, FS_Interval
<1>3. QED
  BY <1>1, <1>2 DEF Buf

\* bget() recycles a buffer of the list it searches that nobody uses.
LEMMA LruIs ==
  ASSUME TypeOK, NEW k \in Bucket, Unused(k) # {}
  PROVE  Lru(k) \in In(k) /\ Lru(k) \in Buf /\ refcnt[Lru(k)] = 0
<1> DEFINE J == {j \in DOMAIN list[k] : refcnt[list[k][j]] = 0}
<1>1. list[k] \in Seq(Buf)
  BY DEF TypeOK
<1>2. Len(list[k]) \in Nat /\ J \in SUBSET (1..Len(list[k]))
  BY <1>1
<1>3. J # {}
  BY DEF Unused, In
<1>4. Max(J) \in J
  BY <1>2, <1>3, MaxIs
<1>5. Lru(k) = list[k][Max(J)]
  BY DEF Lru
<1> HIDE DEF J
<1>6. PICK j \in J : Lru(k) = list[k][j]
  BY <1>4, <1>5
<1>7. j \in DOMAIN list[k] /\ refcnt[list[k][j]] = 0
  BY DEF J
<1>8. QED
  BY <1>1, <1>6, <1>7 DEF In

\* What moving a buffer to the head of a list does to the lists.
LEMMA MoveIs ==
  ASSUME BcacheConstants, TypeOK, ListInv, NEW b \in Buf, NEW k \in Bucket,
         list' = MoveToHead(b, k)
  PROVE  /\ list' \in [Bucket -> Seq(Buf)]
         /\ \A j \in Bucket : In(j)' = (In(j) \ {b}) \cup (IF j = k THEN {b} ELSE {})
         /\ \A j \in Bucket : Once(list'[j])
<1>1. \A j \in Bucket : /\ list[j] \in Seq(Buf) /\ Once(list[j])
                        /\ In(j) = Elems(list[j])
  BY DEF TypeOK, ListInv, Once, Elems, In
<1>2. \A j \in Bucket : /\ unlink(b, list[j]) \in Seq(Buf)
                        /\ Once(unlink(b, list[j]))
                        /\ Elems(unlink(b, list[j])) = In(j) \ {b}
  BY <1>1, UnlinkIs
<1>3. /\ <<b>> \o unlink(b, list[k]) \in Seq(Buf)
      /\ Once(<<b>> \o unlink(b, list[k]))
      /\ Elems(<<b>> \o unlink(b, list[k])) = (In(k) \ {b}) \cup {b}
  <2> DEFINE r == unlink(b, list[k])
  <2>1. r \in Seq(Buf) /\ Once(r) /\ Elems(r) = In(k) \ {b} /\ b \notin Elems(r)
    BY <1>2
  <2> HIDE DEF r
  <2>2. /\ <<b>> \o r \in Seq(Buf) /\ Once(<<b>> \o r)
        /\ Elems(<<b>> \o r) = Elems(r) \cup {b}
    BY <2>1, ConsIs
  <2>3. QED
    BY <2>1, <2>2 DEF r
<1>4. list' = [j \in Bucket |-> IF j = k THEN <<b>> \o unlink(b, list[j]) ELSE unlink(b, list[j])]
  BY DEF MoveToHead
<1>5. ASSUME NEW j \in Bucket
      PROVE  /\ list'[j] \in Seq(Buf) /\ Once(list'[j])
             /\ Elems(list'[j]) = (In(j) \ {b}) \cup (IF j = k THEN {b} ELSE {})
  <2>1. CASE j = k
    BY <2>1, <1>3, <1>4
  <2>2. CASE j # k
    <3>1. list'[j] = unlink(b, list[j])
      BY <2>2, <1>4
    <3>2. QED
      BY <2>2, <3>1, <1>2
  <2>3. QED
    BY <2>1, <2>2
<1>6. list' \in [Bucket -> Seq(Buf)]
  BY <1>4, <1>5
<1>7. \A j \in Bucket : In(j)' = Elems(list'[j])
  BY DEF In, Elems
<1>8. QED
  BY <1>5, <1>6, <1>7

\* A buffer that moves to the list of its block leaves the lists in order.
LEMMA MoveKeeps ==
  ASSUME BcacheConstants, TypeOK, ListInv, NEW b \in Buf, NEW k \in Bucket,
         list' = MoveToHead(b, k),
         \A x \in Buf : x # b => blockno'[x] = blockno[x],
         Hash(blockno'[b]) = k
  PROVE  ListInv' /\ list' \in [Bucket -> Seq(Buf)]
<1>1. /\ list' \in [Bucket -> Seq(Buf)]
      /\ \A j \in Bucket : In(j)' = (In(j) \ {b}) \cup (IF j = k THEN {b} ELSE {})
      /\ \A j \in Bucket : Once(list'[j])
  BY MoveIs
<1>2. \A x \in Buf : \E j \in Bucket : x \in In(j)'
  BY <1>1 DEF ListInv
<1>3. \A j, l \in Bucket : In(j)' \cap In(l)' # {} => j = l
  BY <1>1 DEF ListInv
<1>4. \A j \in Bucket : \A x \in In(j)' : blockno'[x] # None => Hash(blockno'[x]) = j
  <2> SUFFICES ASSUME NEW j \in Bucket, NEW x \in In(j)', blockno'[x] # None
               PROVE  Hash(blockno'[x]) = j
    OBVIOUS
  <2>1. CASE x = b
    BY <2>1, <1>1
  <2>2. CASE x # b
    <3>1. x \in In(j)
      BY <2>2, <1>1
    <3>2. x \in Buf
      BY <3>1 DEF In, TypeOK
    <3>3. QED
      BY <2>2, <3>1, <3>2 DEF ListInv
  <2>3. QED
    BY <2>1, <2>2
<1>5. \A j \in Bucket : \A m, n \in DOMAIN list'[j] : list'[j][m] = list'[j][n] => m = n
  BY <1>1 DEF Once
<1>6. QED
  BY <1>1, <1>2, <1>3, <1>4, <1>5, Zenon DEF ListInv

\* A block that is not in its own list is in no buffer.
LEMMA NotCached ==
  ASSUME BcacheConstants, TypeOK, ListInv, NEW n \in Block, Hit(n) = {}, NEW b \in Buf
  PROVE  blockno[b] # n
<1> SUFFICES ASSUME blockno[b] = n PROVE FALSE
  OBVIOUS
<1>1. PICK k \in Bucket : b \in In(k)
  BY DEF ListInv
<1>2. Hash(n) = k
  BY <1>1, HashIs DEF ListInv
<1>3. QED
  BY <1>1, <1>2 DEF Hit

\* A process gets a buffer ...
LEMMA UsersGain ==
  ASSUME BcacheConstants, TypeOK, RefcntInv, NEW p \in Proc, NEW b \in Buf, buf[p] = None,
         buf' = [buf EXCEPT ![p] = b], pinned' = pinned, refcnt' = [refcnt EXCEPT ![b] = @ + 1]
  PROVE  RefcntInv' /\ refcnt' \in [Buf -> Nat]
<1>1. buf \in [Proc -> Buf \cup {None}] /\ refcnt \in [Buf -> Nat] /\ None \notin Buf
  BY Facts DEF TypeOK
<1>2. /\ Users(b)' = Users(b) \cup {p} /\ p \notin Users(b)
      /\ \A x \in Buf : x # b => Users(x)' = Users(x)
  BY <1>1 DEF Users
<1>3. IsFiniteSet(Users(b)) /\ Cardinality(Users(b)) \in Nat
  BY FS_CardinalityType DEF RefcntInv
<1>4. IsFiniteSet(Users(b) \cup {p}) /\ Cardinality(Users(b) \cup {p}) = Cardinality(Users(b)) + 1
  BY <1>2, <1>3, FS_AddElement
<1>5. refcnt'[b] = refcnt[b] + 1 /\ \A x \in Buf : x # b => refcnt'[x] = refcnt[x]
  BY <1>1
<1>6. refcnt' \in [Buf -> Nat]
  BY <1>1
<1>7. refcnt[b] = Cardinality(Users(b)) + (IF b \in pinned THEN 1 ELSE 0)
  BY DEF RefcntInv
<1>8. /\ IsFiniteSet(Users(b)')
      /\ refcnt'[b] = Cardinality(Users(b)') + (IF b \in pinned' THEN 1 ELSE 0)
  BY <1>2, <1>3, <1>4, <1>5, <1>7
<1>9. \A x \in Buf : x # b =>
        /\ IsFiniteSet(Users(x)')
        /\ refcnt'[x] = Cardinality(Users(x)') + (IF x \in pinned' THEN 1 ELSE 0)
  BY <1>2, <1>5 DEF RefcntInv
<1>10. QED
  BY <1>6, <1>8, <1>9 DEF RefcntInv

\* ... and gives it back.
LEMMA UsersLose ==
  ASSUME BcacheConstants, TypeOK, RefcntInv, NEW p \in Proc, NEW b \in Buf, buf[p] = b,
         buf' = [buf EXCEPT ![p] = None], pinned' = pinned, refcnt' = [refcnt EXCEPT ![b] = @ - 1]
  PROVE  RefcntInv' /\ refcnt' \in [Buf -> Nat]
<1>1. buf \in [Proc -> Buf \cup {None}] /\ refcnt \in [Buf -> Nat] /\ None \notin Buf
  BY Facts DEF TypeOK
<1>2. /\ Users(b)' = Users(b) \ {p} /\ p \in Users(b)
      /\ \A x \in Buf : x # b => Users(x)' = Users(x)
  BY <1>1 DEF Users
<1>3. IsFiniteSet(Users(b)) /\ Cardinality(Users(b)) \in Nat
  BY FS_CardinalityType DEF RefcntInv
<1>4. /\ IsFiniteSet(Users(b) \ {p}) /\ Cardinality(Users(b) \ {p}) = Cardinality(Users(b)) - 1
      /\ Cardinality(Users(b) \ {p}) \in Nat
  BY <1>2, <1>3, FS_RemoveElement, FS_CardinalityType
<1>5. refcnt'[b] = refcnt[b] - 1 /\ \A x \in Buf : x # b => refcnt'[x] = refcnt[x]
  BY <1>1
<1>6. refcnt[b] = Cardinality(Users(b)) + (IF b \in pinned THEN 1 ELSE 0)
  BY DEF RefcntInv
<1>7. refcnt[b] - 1 \in Nat
  BY <1>3, <1>4, <1>6
<1>8. refcnt' \in [Buf -> Nat]
  BY <1>1, <1>7
<1>9. /\ IsFiniteSet(Users(b)')
      /\ refcnt'[b] = Cardinality(Users(b)') + (IF b \in pinned' THEN 1 ELSE 0)
  BY <1>2, <1>3, <1>4, <1>5, <1>6
<1>10. \A x \in Buf : x # b =>
        /\ IsFiniteSet(Users(x)')
        /\ refcnt'[x] = Cardinality(Users(x)') + (IF x \in pinned' THEN 1 ELSE 0)
  BY <1>2, <1>5 DEF RefcntInv
<1>11. QED
  BY <1>8, <1>9, <1>10 DEF RefcntInv

\* Nobody has a buffer whose count is zero.
LEMMA NoUsers ==
  ASSUME RefcntInv, NEW b \in Buf, refcnt[b] = 0
  PROVE  b \notin pinned /\ \A p \in Proc : buf[p] # b
<1>1. IsFiniteSet(Users(b)) /\ Cardinality(Users(b)) \in Nat
  BY FS_CardinalityType DEF RefcntInv
<1>2. b \notin pinned /\ Cardinality(Users(b)) = 0
  BY <1>1 DEF RefcntInv
<1>3. Users(b) = {}
  BY <1>1, <1>2, FS_EmptySet
<1>4. QED
  BY <1>2, <1>3 DEF Users

\* The lock a process waits for is free when it goes on.
LEMMA LockFree ==
  ASSUME BcacheConstants, Inv, NEW p \in Proc, NEW l, At(p, l), l \in {"bget", "brelse"}
  PROVE  /\ want[p] \in Block /\ Hash(want[p]) \in Bucket /\ lock[Hash(want[p])] = None
         /\ \A q \in Proc : pc[q] = "steal" => Hash(want[q]) # Hash(want[p])
<1>1. pc[p] = l /\ want[p] \in Block
  BY DEF At, Inv, TypeOK, ProcInv
<1>2. Hash(want[p]) \in Bucket /\ Hash(want[p]) # None
  BY <1>1, HashIs
<1>3. Wants(p) = Hash(want[p])
  BY <1>1 DEF Wants
<1>4. lock[Hash(want[p])] = None
  BY <1>2, <1>3 DEF At
<1>5. QED
  BY <1>1, <1>2, <1>4, Facts DEF Inv, StealInv

\* The lists depend on list and blockno only,
LEMMA ListsSame ==
  ASSUME ListInv, list' = list, blockno' = blockno
  PROVE  ListInv'
BY DEF ListInv, In

\* and the counts on buf, refcnt and pinned.
LEMMA UsersSame ==
  ASSUME RefcntInv, buf' = buf, refcnt' = refcnt, pinned' = pinned
  PROVE  RefcntInv'
BY DEF RefcntInv, Users

\* A process asks for a block.
LEMMA BreadStep ==
  ASSUME BcacheConstants, Inv, NEW p \in Proc, NEW n \in Block, bread(p, n)
  PROVE  Inv'
<1>0. /\ UNCHANGED <<bufvars, list, lock, holder, buf, i, panicked>>
      /\ pc' = [pc EXCEPT ![p] = "bget"] /\ want' = [want EXCEPT ![p] = n] /\ pc[p] = "idle"
  BY DEF bread, At, goto
<1> USE DEF bufvars
<1>t. pc \in [Proc -> PCs] /\ want \in [Proc -> Block \cup {None}] /\ None \notin Block
  BY Facts DEF Inv, TypeOK
<1>1. TypeOK'
  BY <1>0, <1>t DEF Inv, TypeOK, PCs
<1>2. OneCopy' /\ ListInv' /\ RefcntInv'
  BY <1>0, ListsSame, UsersSame DEF Inv, OneCopy
<1>3. /\ pc'[p] = "bget" /\ want'[p] = n
      /\ \A q \in Proc : q # p => pc'[q] = pc[q] /\ want'[q] = want[q]
  BY <1>0, <1>t
<1>4. ProcInv'
  BY <1>0, <1>3, <1>t DEF Inv, ProcInv
<1>5. StealInv'
  BY <1>0, <1>3 DEF Inv, StealInv
<1>6. HolderInv'
  BY <1>0, <1>3 DEF Inv, HolderInv
<1>7. QED
  BY <1>1, <1>2, <1>4, <1>5, <1>6 DEF Inv

\* The block is cached.
LEMMA HitStep ==
  ASSUME BcacheConstants, Inv, NEW p \in Proc, bget_hit(p)
  PROVE  Inv'
<1>0. UNCHANGED <<blockno, valid, loaded, pinned, list, lock, holder, want, i, panicked>>
      /\ pc' = [pc EXCEPT ![p] = "acquiresleep"] /\ pc[p] = "bget"
  BY DEF bget_hit, At, goto
<1>1. PICK b \in Hit(want[p]) : /\ refcnt' = [refcnt EXCEPT ![b] = @ + 1]
                                /\ buf' = [buf EXCEPT ![p] = b]
  BY DEF bget_hit
<1>t. /\ pc \in [Proc -> PCs] /\ buf \in [Proc -> Buf \cup {None}] /\ None \notin Buf
      /\ refcnt \in [Buf -> Nat]
  BY Facts DEF Inv, TypeOK
<1>2. b \in Buf /\ blockno[b] = want[p]
  <2>1. want[p] \in Block /\ Hash(want[p]) \in Bucket
    BY LockFree DEF bget_hit
  <2>2. QED
    BY <2>1 DEF Hit, In, Inv, TypeOK
<1>3. buf[p] = None
  BY <1>0 DEF Inv, ProcInv
<1>4. RefcntInv' /\ refcnt' \in [Buf -> Nat]
  BY <1>0, <1>1, <1>2, <1>3, UsersGain DEF Inv
<1>5. TypeOK'
  BY <1>0, <1>1, <1>2, <1>4, <1>t DEF Inv, TypeOK, PCs
<1>6. OneCopy' /\ ListInv'
  BY <1>0, ListsSame DEF Inv, OneCopy
<1>7. /\ pc'[p] = "acquiresleep" /\ buf'[p] = b
      /\ \A q \in Proc : q # p => pc'[q] = pc[q] /\ buf'[q] = buf[q]
  BY <1>0, <1>1, <1>t
<1>8. ProcInv'
  BY <1>0, <1>2, <1>7, <1>t DEF Inv, ProcInv
<1>9. StealInv'
  BY <1>0, <1>7 DEF Inv, StealInv
<1>10. HolderInv'
  BY <1>0, <1>7 DEF Inv, HolderInv
<1>11. QED
  BY <1>4, <1>5, <1>6, <1>8, <1>9, <1>10 DEF Inv

\* bget() recycles a buffer of the block's own list, which is not locked:
\* nobody who looks for the same block is inside steal.
LEMMA RecycleStep ==
  ASSUME BcacheConstants, Inv, NEW p \in Proc, bget_recycle(p)
  PROVE  Inv'
<1> DEFINE k == Hash(want[p])
           b == Lru(k)
<1>0. /\ UNCHANGED <<list, lock, holder, want, i, panicked, loaded, pinned>>
      /\ pc' = [pc EXCEPT ![p] = "acquiresleep"] /\ pc[p] = "bget"
      /\ buf' = [buf EXCEPT ![p] = b]
      /\ blockno' = [blockno EXCEPT ![b] = want[p]]
      /\ refcnt' = [refcnt EXCEPT ![b] = 1]
      /\ valid' = [valid EXCEPT ![b] = FALSE]
      /\ Hit(want[p]) = {} /\ Unused(k) # {}
  BY DEF bget_recycle, At, goto, recycle
<1>t. /\ pc \in [Proc -> PCs] /\ buf \in [Proc -> Buf \cup {None}] /\ None \notin Buf
      /\ refcnt \in [Buf -> Nat] /\ valid \in [Buf -> BOOLEAN]
      /\ blockno \in [Buf -> Block \cup {None}] /\ None \notin Proc
  BY Facts DEF Inv, TypeOK
<1>1. /\ want[p] \in Block /\ k \in Bucket /\ lock[k] = None /\ want[p] # None
      /\ \A q \in Proc : pc[q] = "steal" => Hash(want[q]) # k
  BY LockFree, Facts DEF bget_recycle
<1>2. b \in In(k) /\ b \in Buf /\ refcnt[b] = 0
  BY <1>0, <1>1, LruIs DEF Inv
<1>3. b \notin pinned /\ \A q \in Proc : buf[q] # b
  BY <1>2, NoUsers DEF Inv
<1>4. \A x \in Buf : blockno[x] # want[p]
  BY <1>0, <1>1, NotCached DEF Inv
<1>5. buf[p] = None
  BY <1>0 DEF Inv, ProcInv
<1> HIDE DEF b
<1>6. RefcntInv' /\ refcnt' \in [Buf -> Nat]
  <2>1. refcnt' = [refcnt EXCEPT ![b] = @ + 1]
    BY <1>0, <1>2, <1>t
  <2>2. QED
    BY <2>1, <1>0, <1>2, <1>5, UsersGain DEF Inv
<1>7. /\ pc'[p] = "acquiresleep" /\ buf'[p] = b
      /\ \A q \in Proc : q # p => pc'[q] = pc[q] /\ buf'[q] = buf[q]
  BY <1>0, <1>t
<1>8. /\ blockno'[b] = want[p] /\ ~valid'[b]
      /\ \A x \in Buf : x # b => blockno'[x] = blockno[x] /\ valid'[x] = valid[x]
  BY <1>0, <1>2, <1>t
<1>9. TypeOK'
  BY <1>0, <1>1, <1>2, <1>6, <1>t DEF Inv, TypeOK, PCs
<1>10. OneCopy'
  BY <1>4, <1>8 DEF Inv, OneCopy
<1>11. ListInv'
  <2>1. \A j \in Bucket : In(j)' = In(j)
    BY <1>0 DEF In
  <2>2. \A j \in Bucket : \A x \in In(j) : x \in Buf
    BY DEF In, Inv, TypeOK
  <2>3. \A j \in Bucket : b \in In(j) => j = k
    BY <1>1, <1>2 DEF Inv, ListInv
  <2>4. \A j \in Bucket : \A x \in In(j) : blockno'[x] # None => Hash(blockno'[x]) = j
    BY <1>8, <2>2, <2>3 DEF Inv, ListInv
  <2>5. QED
    BY <1>0, <2>1, <2>4 DEF Inv, ListInv
<1>12. ProcInv'
  BY <1>0, <1>1, <1>3, <1>7, <1>8, <1>2, <1>t DEF Inv, ProcInv
<1>13. StealInv'
  <2>1. \A q \in Proc : pc[q] = "steal" => want[q] # want[p]
    BY <1>1
  <2>2. \A q \in Proc, x \in Buf : pc'[q] = "steal" => blockno'[x] # want'[q]
    BY <2>1, <1>0, <1>7, <1>8 DEF Inv, StealInv
  <2>3. QED
    BY <2>2, <1>0, <1>7 DEF Inv, StealInv
<1>14. HolderInv'
  BY <1>0, <1>2, <1>3, <1>7, <1>8 DEF Inv, HolderInv
<1>15. QED
  BY <1>6, <1>9, <1>10, <1>11, <1>12, <1>13, <1>14 DEF Inv

\* bget() keeps its list locked: the block is in no buffer, and will not
\* be.
LEMMA MissStep ==
  ASSUME BcacheConstants, Inv, NEW p \in Proc, bget_miss(p)
  PROVE  Inv'
<1>0. /\ UNCHANGED <<bufvars, list, holder, want, buf, panicked>>
      /\ pc' = [pc EXCEPT ![p] = "steal"] /\ pc[p] = "bget" /\ i' = [i EXCEPT ![p] = 0]
      /\ lock' = [lock EXCEPT ![Hash(want[p])] = p] /\ Hit(want[p]) = {}
  BY DEF bget_miss, At, goto, LookLocked
<1> USE DEF bufvars
<1>t. /\ pc \in [Proc -> PCs] /\ lock \in [Bucket -> Proc \cup {None}] /\ None \notin Proc
      /\ i \in [Proc -> 0..NBUCKETS] /\ 0 \in 0..NBUCKETS
  BY Facts DEF Inv, TypeOK, BcacheConstants
<1>1. /\ want[p] \in Block /\ Hash(want[p]) \in Bucket /\ lock[Hash(want[p])] = None
      /\ \A q \in Proc : pc[q] = "steal" => Hash(want[q]) # Hash(want[p])
  BY LockFree DEF bget_miss
<1>2. \A x \in Buf : blockno[x] # want[p]
  BY <1>0, <1>1, NotCached DEF Inv
<1>3. pc'[p] = "steal" /\ \A q \in Proc : q # p => pc'[q] = pc[q]
  BY <1>0, <1>t
<1>4. /\ lock'[Hash(want[p])] = p
      /\ \A k \in Bucket : k # Hash(want[p]) => lock'[k] = lock[k]
  BY <1>0, <1>1, <1>t
<1>5. TypeOK'
  BY <1>0, <1>1, <1>t DEF Inv, TypeOK, PCs
<1>6. OneCopy' /\ ListInv' /\ RefcntInv'
  BY <1>0, ListsSame, UsersSame DEF Inv, OneCopy
<1>7. ProcInv' /\ HolderInv'
  BY <1>0, <1>3 DEF Inv, ProcInv, HolderInv
<1>8. StealInv'
  BY <1>0, <1>1, <1>2, <1>3, <1>4, <1>t DEF Inv, StealInv
<1>9. QED
  BY <1>5, <1>6, <1>7, <1>8 DEF Inv

\* Nothing to take in another list, or in any.
LEMMA NextBucketStep ==
  ASSUME BcacheConstants, Inv, NEW p \in Proc, steal_next(p) \/ bget_panic(p)
  PROVE  Inv'
<1>0. UNCHANGED <<bufvars, list, lock, holder, pc, want, buf>>
  BY DEF steal_next, bget_panic, procvars
<1> USE DEF bufvars
<1>1. i' \in [Proc -> 0..NBUCKETS]
  <2>1. CASE steal_next(p)
    <3>1. i[p] \in Bucket /\ i' = [i EXCEPT ![p] = @ + 1] /\ i \in [Proc -> 0..NBUCKETS]
      BY <2>1 DEF steal_next, Inv, TypeOK
    <3>2. i[p] + 1 \in 0..NBUCKETS
      BY <3>1 DEF Bucket, BcacheConstants
    <3>3. QED
      BY <3>1, <3>2
  <2>2. CASE bget_panic(p)
    BY <2>2 DEF bget_panic, procvars, Inv, TypeOK
  <2>3. QED
    BY <2>1, <2>2
<1>2. panicked' \in BOOLEAN
  BY DEF steal_next, bget_panic, Inv, TypeOK
<1>3. TypeOK'
  BY <1>0, <1>1, <1>2 DEF Inv, TypeOK
<1>4. OneCopy' /\ ListInv' /\ RefcntInv'
  BY <1>0, ListsSame, UsersSame DEF Inv, OneCopy
<1>5. ProcInv' /\ HolderInv' /\ StealInv'
  BY <1>0 DEF Inv, ProcInv, HolderInv, StealInv
<1>6. QED
  BY <1>3, <1>4, <1>5 DEF Inv

\* bget() moves a buffer into its own list, which it has locked.
LEMMA StealStep ==
  ASSUME BcacheConstants, Inv, NEW p \in Proc, bget_steal(p)
  PROVE  Inv'
<1> DEFINE k == Hash(want[p])
           b == Lru(i[p])
<1>0. /\ UNCHANGED <<holder, want, panicked, loaded, pinned>>
      /\ pc' = [pc EXCEPT ![p] = "acquiresleep"] /\ pc[p] = "steal"
      /\ buf' = [buf EXCEPT ![p] = b]
      /\ blockno' = [blockno EXCEPT ![b] = want[p]]
      /\ refcnt' = [refcnt EXCEPT ![b] = 1]
      /\ valid' = [valid EXCEPT ![b] = FALSE]
      /\ lock' = [lock EXCEPT ![k] = None]
      /\ i' = [i EXCEPT ![p] = 0]
      /\ list' = MoveToHead(b, k)
      /\ i[p] \in Bucket /\ Unused(i[p]) # {}
  BY DEF bget_steal, At, goto, recycle, steal_list
<1>t. /\ pc \in [Proc -> PCs] /\ buf \in [Proc -> Buf \cup {None}] /\ None \notin Buf
      /\ refcnt \in [Buf -> Nat] /\ valid \in [Buf -> BOOLEAN]
      /\ blockno \in [Buf -> Block \cup {None}] /\ None \notin Proc
      /\ lock \in [Bucket -> Proc \cup {None}] /\ i \in [Proc -> 0..NBUCKETS] /\ 0 \in 0..NBUCKETS
  BY Facts DEF Inv, TypeOK, BcacheConstants
<1>1. /\ want[p] \in Block /\ want[p] # None /\ k \in Bucket /\ lock[k] = p
      /\ \A x \in Buf : blockno[x] # want[p]
  <2>1. want[p] \in Block /\ want[p] # None
    BY <1>0, Facts DEF Inv, ProcInv, TypeOK
  <2>2. k \in Bucket
    BY <2>1, HashIs
  <2>3. QED
    BY <2>1, <2>2, <1>0 DEF Inv, StealInv
<1>2. b \in Buf /\ refcnt[b] = 0
  BY <1>0, LruIs DEF Inv
<1>3. b \notin pinned /\ \A q \in Proc : buf[q] # b
  BY <1>2, NoUsers DEF Inv
<1>4. buf[p] = None
  BY <1>0 DEF Inv, ProcInv
<1> HIDE DEF b
<1>5. RefcntInv' /\ refcnt' \in [Buf -> Nat]
  <2>1. refcnt' = [refcnt EXCEPT ![b] = @ + 1]
    BY <1>0, <1>2, <1>t
  <2>2. QED
    BY <2>1, <1>0, <1>2, <1>4, UsersGain DEF Inv
<1>6. /\ pc'[p] = "acquiresleep" /\ buf'[p] = b
      /\ \A q \in Proc : q # p => pc'[q] = pc[q] /\ buf'[q] = buf[q]
  BY <1>0, <1>t
<1>7. /\ blockno'[b] = want[p] /\ ~valid'[b]
      /\ \A x \in Buf : x # b => blockno'[x] = blockno[x] /\ valid'[x] = valid[x]
  BY <1>0, <1>2, <1>t
<1>8. lock'[k] = None /\ \A l \in Bucket : l # k => lock'[l] = lock[l]
  BY <1>0, <1>1, <1>t
<1>9. ListInv' /\ list' \in [Bucket -> Seq(Buf)]
  BY <1>0, <1>1, <1>2, <1>7, MoveKeeps DEF Inv
<1>10. TypeOK'
  <2>1. lock' \in [Bucket -> Proc \cup {None}] /\ i' \in [Proc -> 0..NBUCKETS]
    BY <1>0, <1>t
  <2>2. blockno' \in [Buf -> Block \cup {None}] /\ valid' \in [Buf -> BOOLEAN]
    BY <1>0, <1>1, <1>t
  <2>3. pc' \in [Proc -> PCs] /\ buf' \in [Proc -> Buf \cup {None}]
    BY <1>0, <1>2, <1>t DEF PCs
  <2>4. QED
    BY <1>0, <1>5, <1>9, <2>1, <2>2, <2>3 DEF Inv, TypeOK
<1>11. OneCopy'
  BY <1>1, <1>7 DEF Inv, OneCopy
<1>12. ProcInv'
  BY <1>0, <1>1, <1>3, <1>6, <1>7, <1>2, <1>t DEF Inv, ProcInv
<1>13. StealInv'
  <2>1. \A q \in Proc : q # p /\ pc[q] = "steal" => want[q] # want[p] /\ Hash(want[q]) # k
    BY <1>0, <1>1 DEF Inv, StealInv
  <2>2. \A q \in Proc, x \in Buf : pc'[q] = "steal" => blockno'[x] # want'[q]
    BY <2>1, <1>0, <1>6, <1>7 DEF Inv, StealInv
  <2>3. \A q \in Proc, l \in Bucket : lock'[l] = q <=> pc'[q] = "steal" /\ l = Hash(want'[q])
    BY <2>1, <1>0, <1>1, <1>6, <1>8, <1>t DEF Inv, StealInv
  <2>4. QED
    BY <2>2, <2>3 DEF StealInv
<1>14. HolderInv'
  BY <1>0, <1>2, <1>3, <1>6, <1>7 DEF Inv, HolderInv
<1>15. QED
  BY <1>5, <1>9, <1>10, <1>11, <1>12, <1>13, <1>14 DEF Inv

\* bread() has the sleep lock and the data.
LEMMA ReturnStep ==
  ASSUME BcacheConstants, Inv, NEW p \in Proc, bread_return(p)
  PROVE  Inv'
<1> DEFINE b == buf[p]
<1>0. /\ UNCHANGED <<blockno, refcnt, pinned, list, lock, want, buf, i, panicked>>
      /\ pc[p] = "acquiresleep" /\ holder[b] = None
      /\ holder' = [holder EXCEPT ![b] = p]
      /\ loaded' = IF valid[b] THEN loaded ELSE [loaded EXCEPT ![b] = blockno[b]]
      /\ valid' = [valid EXCEPT ![b] = TRUE]
      /\ pc' = [pc EXCEPT ![p] = "use"]
  BY DEF bread_return, At, goto
<1>t. /\ pc \in [Proc -> PCs] /\ holder \in [Buf -> Proc \cup {None}] /\ None \notin Proc
      /\ valid \in [Buf -> BOOLEAN] /\ loaded \in [Buf -> Block \cup {None}]
      /\ blockno \in [Buf -> Block \cup {None}]
  BY Facts DEF Inv, TypeOK
<1>1. b \in Buf
  BY <1>0 DEF Inv, ProcInv, TypeOK
<1> HIDE DEF b
<1>2. pc'[p] = "use" /\ \A q \in Proc : q # p => pc'[q] = pc[q]
  BY <1>0, <1>t
<1>3. holder'[b] = p /\ \A x \in Buf : x # b => holder'[x] = holder[x]
  BY <1>0, <1>1, <1>t
<1>4. /\ valid'[b] /\ \A x \in Buf : x # b => valid'[x] = valid[x] /\ loaded'[x] = loaded[x]
      /\ loaded'[b] = IF valid[b] THEN loaded[b] ELSE blockno[b]
  BY <1>0, <1>1, <1>t
<1>5. TypeOK'
  <2>1. loaded' \in [Buf -> Block \cup {None}]
    BY <1>0, <1>1, <1>t
  <2>2. QED
    BY <2>1, <1>0, <1>1, <1>t DEF Inv, TypeOK, PCs
<1>6. OneCopy' /\ ListInv' /\ RefcntInv'
  BY <1>0, ListsSame, UsersSame DEF Inv, OneCopy
<1>7. ProcInv' /\ StealInv'
  BY <1>0, <1>2 DEF Inv, ProcInv, StealInv
<1>8. HolderInv'
  <2>1. \A q \in Proc : pc[q] = "use" => buf[q] # b
    BY <1>0, <1>1, <1>t DEF Inv, HolderInv
  <2>2. \A q \in Proc, x \in Buf : holder'[x] = q <=> pc'[q] = "use" /\ buf'[q] = x
    BY <2>1, <1>0, <1>1, <1>2, <1>3, <1>t DEF b, Inv, HolderInv
  <2>3. \A x \in Buf : valid'[x] => loaded'[x] = blockno'[x]
    BY <1>0, <1>4 DEF Inv, HolderInv
  <2>4. \A q \in Proc : pc'[q] = "use" => buf[q] \in Buf
    BY <1>1, <1>2 DEF b, Inv, ProcInv, TypeOK
  <2>5. \A q \in Proc : pc'[q] = "use" => valid'[buf'[q]]
    BY <2>4, <1>0, <1>1, <1>2, <1>4 DEF b, Inv, HolderInv
  <2>6. QED
    BY <2>2, <2>3, <2>5 DEF HolderInv
<1>9. QED
  BY <1>5, <1>6, <1>7, <1>8 DEF Inv

\* bpin() and bunpin().
LEMMA PinStep ==
  ASSUME BcacheConstants, Inv, NEW p \in Proc, bpin(p) \/ bunpin(p)
  PROVE  Inv'
<1> DEFINE b == buf[p]
<1>0. /\ UNCHANGED <<blockno, valid, loaded, list, lock, holder, pc, want, buf, i, panicked>>
      /\ pc[p] = "use"
  BY DEF bpin, bunpin, At, procvars
<1>1. /\ b \in Buf /\ refcnt \in [Buf -> Nat] /\ pinned \subseteq Buf
      /\ IsFiniteSet(Users(b)) /\ Cardinality(Users(b)) \in Nat
      /\ refcnt[b] = Cardinality(Users(b)) + (IF b \in pinned THEN 1 ELSE 0)
  BY <1>0, FS_CardinalityType DEF Inv, ProcInv, TypeOK, RefcntInv
<1>2. \/ b \notin pinned /\ refcnt' = [refcnt EXCEPT ![b] = @ + 1] /\ pinned' = pinned \cup {b}
      \/ b \in pinned /\ refcnt' = [refcnt EXCEPT ![b] = @ - 1] /\ pinned' = pinned \ {b}
  BY DEF bpin, bunpin
<1>u. \A x \in Buf : Users(x)' = Users(x)
  BY <1>0 DEF Users
<1> HIDE DEF b
<1>3. /\ refcnt' \in [Buf -> Nat] /\ pinned' \subseteq Buf
      /\ refcnt'[b] = Cardinality(Users(b)) + (IF b \in pinned' THEN 1 ELSE 0)
      /\ \A x \in Buf : x # b => refcnt'[x] = refcnt[x] /\ (x \in pinned' <=> x \in pinned)
  <2>1. CASE b \notin pinned /\ refcnt' = [refcnt EXCEPT ![b] = @ + 1] /\ pinned' = pinned \cup {b}
    BY <2>1, <1>1
  <2>2. CASE b \in pinned /\ refcnt' = [refcnt EXCEPT ![b] = @ - 1] /\ pinned' = pinned \ {b}
    <3>1. refcnt[b] - 1 \in Nat /\ refcnt[b] - 1 = Cardinality(Users(b)) + 0
      BY <2>2, <1>1
    <3>2. QED
      BY <2>2, <3>1, <1>1
  <2>3. QED
    BY <2>1, <2>2, <1>2
<1>4. RefcntInv'
  <2>1. \A x \in Buf : x # b =>
          /\ IsFiniteSet(Users(x)')
          /\ refcnt'[x] = Cardinality(Users(x)') + (IF x \in pinned' THEN 1 ELSE 0)
    BY <1>u, <1>3 DEF Inv, RefcntInv
  <2>2. QED
    BY <2>1, <1>1, <1>3, <1>u DEF RefcntInv
<1>5. TypeOK'
  BY <1>0, <1>3 DEF Inv, TypeOK
<1>6. OneCopy' /\ ListInv'
  BY <1>0, ListsSame DEF Inv, OneCopy
<1>7. ProcInv' /\ StealInv' /\ HolderInv'
  BY <1>0 DEF Inv, ProcInv, StealInv, HolderInv
<1>8. QED
  BY <1>4, <1>5, <1>6, <1>7 DEF Inv

\* brelse() gives up the sleep lock,
LEMMA UnlockStep ==
  ASSUME BcacheConstants, Inv, NEW p \in Proc, brelse_unlock(p)
  PROVE  Inv'
<1> DEFINE b == buf[p]
<1>0. /\ UNCHANGED <<bufvars, list, lock, want, buf, i, panicked>>
      /\ pc[p] = "use" /\ holder' = [holder EXCEPT ![b] = None]
      /\ pc' = [pc EXCEPT ![p] = "brelse"]
  BY DEF brelse_unlock, At, goto
<1> USE DEF bufvars
<1>t. pc \in [Proc -> PCs] /\ holder \in [Buf -> Proc \cup {None}] /\ None \notin Proc
  BY Facts DEF Inv, TypeOK
<1>1. b \in Buf /\ holder[b] = p
  BY <1>0 DEF Inv, ProcInv, TypeOK, HolderInv
<1>2. pc'[p] = "brelse" /\ \A q \in Proc : q # p => pc'[q] = pc[q]
  BY <1>0, <1>t
<1>3. holder'[b] = None /\ \A x \in Buf : x # b => holder'[x] = holder[x]
  BY <1>0, <1>1, <1>t
<1>4. TypeOK'
  BY <1>0, <1>1, <1>t DEF Inv, TypeOK, PCs
<1>5. OneCopy' /\ ListInv' /\ RefcntInv'
  BY <1>0, ListsSame, UsersSame DEF Inv, OneCopy
<1>6. ProcInv' /\ StealInv'
  BY <1>0, <1>2 DEF Inv, ProcInv, StealInv
<1>7. HolderInv'
  <2>1. \A q \in Proc, x \in Buf : holder'[x] = q <=> pc'[q] = "use" /\ buf'[q] = x
    BY <1>0, <1>1, <1>2, <1>3, <1>t DEF Inv, HolderInv
  <2>2. QED
    BY <2>1, <1>0, <1>2 DEF Inv, HolderInv
<1>8. QED
  BY <1>4, <1>5, <1>6, <1>7 DEF Inv

\* and then its reference.
LEMMA ReleaseStep ==
  ASSUME BcacheConstants, Inv, NEW p \in Proc, brelse(p)
  PROVE  Inv'
<1> DEFINE b == buf[p]
<1>0. /\ UNCHANGED <<blockno, valid, loaded, pinned, lock, holder, i, panicked>>
      /\ pc[p] = "brelse" /\ pc' = [pc EXCEPT ![p] = "idle"]
      /\ want' = [want EXCEPT ![p] = None] /\ buf' = [buf EXCEPT ![p] = None]
      /\ refcnt' = [refcnt EXCEPT ![b] = @ - 1]
      /\ list' = list \/ list' = MoveToHead(b, Hash(blockno[b]))
  BY DEF brelse, At, goto, drop
<1>t. /\ pc \in [Proc -> PCs] /\ buf \in [Proc -> Buf \cup {None}] /\ None \notin Buf
      /\ want \in [Proc -> Block \cup {None}] /\ None \notin Block
  BY Facts DEF Inv, TypeOK
<1>1. b \in Buf /\ blockno[b] \in Block
  BY <1>0, <1>t DEF Inv, ProcInv
<1> HIDE DEF b
<1>2. RefcntInv' /\ refcnt' \in [Buf -> Nat]
  BY <1>0, <1>1, UsersLose DEF Inv, b
<1>3. ListInv' /\ list' \in [Bucket -> Seq(Buf)]
  <2>1. CASE list' = list
    BY <2>1, <1>0, ListsSame DEF Inv, TypeOK
  <2>2. CASE list' = MoveToHead(b, Hash(blockno[b]))
    <3>1. Hash(blockno[b]) \in Bucket
      BY <1>1, HashIs
    <3>2. QED
      BY <2>2, <3>1, <1>0, <1>1, MoveKeeps DEF Inv
  <2>3. QED
    BY <2>1, <2>2, <1>0
<1>4. /\ pc'[p] = "idle" /\ want'[p] = None /\ buf'[p] = None
      /\ \A q \in Proc : q # p => pc'[q] = pc[q] /\ want'[q] = want[q] /\ buf'[q] = buf[q]
  BY <1>0, <1>t
<1>5. TypeOK'
  BY <1>0, <1>2, <1>3, <1>t DEF Inv, TypeOK, PCs
<1>6. OneCopy'
  BY <1>0 DEF Inv, OneCopy
<1>7. ProcInv'
  BY <1>0, <1>4 DEF Inv, ProcInv
<1>8. StealInv'
  BY <1>0, <1>4 DEF Inv, StealInv
<1>9. HolderInv'
  BY <1>0, <1>4 DEF Inv, HolderInv
<1>10. QED
  BY <1>2, <1>3, <1>5, <1>6, <1>7, <1>8, <1>9 DEF Inv

\* The first state.
LEMMA InitInv ==
  ASSUME BcacheConstants
  PROVE  Init => Inv
<1> SUFFICES ASSUME Init PROVE Inv
  OBVIOUS
<1> DEFINE s == [j \in Buf |-> NBUF + 1 - j]
<1>c. NBUF \in Nat /\ NBUF >= 1 /\ 0 \in Bucket /\ 0 \in 0..NBUCKETS
  BY DEF BcacheConstants, Bucket
<1>1. /\ s \in Seq(Buf) /\ DOMAIN s = Buf
      /\ \A m, n \in Buf : s[m] = s[n] => m = n
      /\ \A b \in Buf : NBUF + 1 - b \in Buf /\ s[NBUF + 1 - b] = b
  <2>1. \A b \in Buf : NBUF + 1 - b \in 1..NBUF /\ NBUF + 1 - (NBUF + 1 - b) = b
    BY <1>c DEF Buf
  <2>2. s \in [1..NBUF -> Buf]
    BY <2>1 DEF Buf
  <2>3. s \in Seq(Buf)
    BY <2>2, <1>c
  <2>4. \A m, n \in Buf : NBUF + 1 - m = NBUF + 1 - n => m = n
    BY <1>c DEF Buf
  <2>5. QED
    BY <2>1, <2>3, <2>4 DEF Buf
<1>2. list = [k \in Bucket |-> IF k = 0 THEN s ELSE << >>]
  BY DEF Init
<1> HIDE DEF s
<1>3. TypeOK
  <2>1. << >> \in Seq(Buf)
    OBVIOUS
  <2>2. \A k \in Bucket : (IF k = 0 THEN s ELSE << >>) \in Seq(Buf)
    BY <1>1, <2>1
  <2>3. list \in [Bucket -> Seq(Buf)]
    BY <1>2, <2>2
  <2>4. QED
    BY <2>3, <1>c DEF TypeOK, PCs, Init
<1>4. In(0) = Buf /\ \A k \in Bucket : k # 0 => In(k) = {}
  <2>1. list[0] = s /\ \A k \in Bucket : k # 0 => list[k] = << >>
    BY <1>2, <1>c
  <2>2. In(0) = Buf
    <3>1. \A b \in Buf : b \in In(0)
      BY <2>1, <1>1 DEF In
    <3>2. \A b \in In(0) : b \in Buf
      BY <2>1, <1>1 DEF In
    <3>3. QED
      BY <3>1, <3>2
  <2>3. \A k \in Bucket : k # 0 => In(k) = {}
    BY <2>1 DEF In
  <2>4. QED
    BY <2>2, <2>3
<1>5. ListInv
  <2>1. \A k \in Bucket : \A m, n \in DOMAIN list[k] : list[k][m] = list[k][n] => m = n
    BY <1>1, <1>2
  <2>2. QED
    BY <2>1, <1>4, <1>c DEF ListInv, Init
<1>6. RefcntInv
  <2>1. \A b \in Buf : Users(b) = {}
    BY Facts DEF Users, Init
  <2>2. IsFiniteSet({}) /\ Cardinality({}) = 0
    BY FS_EmptySet
  <2>3. \A b \in Buf : IsFiniteSet(Users(b)) /\ Cardinality(Users(b)) = 0
    BY <2>1, <2>2, Zenon
  <2>4. \A b \in Buf : refcnt[b] = 0 /\ b \notin pinned
    BY DEF Init
  <2>5. QED
    BY <2>3, <2>4 DEF RefcntInv
<1>7. OneCopy /\ ProcInv /\ StealInv /\ HolderInv
  BY Facts DEF OneCopy, ProcInv, StealInv, HolderInv, Init
<1>8. QED
  BY <1>3, <1>5, <1>6, <1>7 DEF Inv

\* Every step of bget(), brelse(), bpin() and bunpin() keeps the invariant.
THEOREM Invariance == BcacheConstants => (Spec => []Inv)
<1> SUFFICES ASSUME BcacheConstants PROVE Spec => []Inv
  OBVIOUS
<1>1. Inv /\ [Next]_vars => Inv'
  <2> SUFFICES ASSUME Inv, [Next]_vars PROVE Inv'
    OBVIOUS
  <2>1. CASE UNCHANGED vars
    <3>1. TypeOK' /\ OneCopy' /\ ProcInv' /\ StealInv' /\ HolderInv'
      BY <2>1
         DEF vars, bufvars, procvars, Inv, TypeOK, OneCopy, ProcInv, StealInv,
             HolderInv
    <3>2. ListInv' /\ RefcntInv'
      BY <2>1, ListsSame, UsersSame DEF vars, bufvars, procvars, Inv
    <3>3. QED
      BY <3>1, <3>2 DEF Inv
  <2>2. ASSUME NEW p \in Proc, NEW n \in Block, bread(p, n) PROVE Inv'
    BY <2>2, BreadStep
  <2>3. ASSUME NEW p \in Proc, bget_hit(p) \/ bget_recycle(p) \/ bget_miss(p) PROVE Inv'
    BY <2>3, HitStep, RecycleStep, MissStep
  <2>4. ASSUME NEW p \in Proc, steal_next(p) \/ bget_steal(p) \/ bget_panic(p) PROVE Inv'
    BY <2>4, NextBucketStep, StealStep
  <2>5. ASSUME NEW p \in Proc, bread_return(p) \/ bpin(p) \/ bunpin(p) PROVE Inv'
    BY <2>5, ReturnStep, PinStep
  <2>6. ASSUME NEW p \in Proc, brelse_unlock(p) \/ brelse(p) PROVE Inv'
    BY <2>6, UnlockStep, ReleaseStep
  <2>7. QED
    BY <2>1, <2>2, <2>3, <2>4, <2>5, <2>6 DEF Next
<1>2. QED
  BY <1>1, InitInv, PTL DEF Spec

\* No list is longer than there are buffers.
LEMMA ListLength ==
  ASSUME BcacheConstants, Inv, NEW k \in Bucket
  PROVE  Len(list[k]) =< NBUF
<1> DEFINE s == list[k]
           S == 1..Len(s)
<1>1. s \in Seq(Buf) /\ Len(s) \in Nat /\ s \in [S -> Buf]
  BY DEF Inv, TypeOK
<1>2. \A m, n \in S : s[m] = s[n] => m = n
  BY <1>1 DEF Inv, ListInv
<1>3. s \in Injection(S, Buf)
  BY <1>1, <1>2 DEF Injection, IsInjective
<1>4. Cardinality(S) =< NBUF
  <2> HIDE DEF s, S
  <2>1. QED
    BY <1>3, Facts, FS_Injection
<1>5. Cardinality(S) = Len(s)
  BY <1>1, FS_Interval
<1>6. QED
  BY <1>4, <1>5

\* The hashed cache of lab 3 keeps at most one copy of a block, every buffer
\* in one list where bget() finds it, and recycles none that somebody uses,
\* awaits or has pinned, for any number of processes, buffers and buckets.
THEOREM CacheAlwaysRight == BcacheConstants => (Spec => []CacheRight)
<1> SUFFICES ASSUME BcacheConstants PROVE Spec => []CacheRight
  OBVIOUS
<1>1. Inv => CacheRight
  <2> SUFFICES ASSUME Inv PROVE CacheRight
    OBVIOUS
  <2>1. ListsOK
    <3>1. ASSUME NEW b \in Buf
          PROVE  Cardinality({kj \in Bucket \X Buf :
                                kj[2] =< Len(list[kj[1]]) /\ list[kj[1]][kj[2]] = b}) = 1
      <4> DEFINE K == {kj \in Bucket \X Buf :
                         kj[2] =< Len(list[kj[1]]) /\ list[kj[1]][kj[2]] = b}
      <4>1. PICK k \in Bucket : b \in In(k)
        BY DEF Inv, ListInv
      <4>2. PICK j \in DOMAIN list[k] : list[k][j] = b
        BY <4>1 DEF In
      <4>3. \A l \in Bucket : list[l] \in Seq(Buf) /\ Len(list[l]) \in Nat /\ DOMAIN list[l] = 1..Len(list[l])
        BY DEF Inv, TypeOK
      <4>4. j \in Buf /\ j =< Len(list[k])
        BY <4>2, <4>3, ListLength DEF Buf, BcacheConstants
      <4>5. ASSUME NEW kj \in K PROVE kj = <<k, j>>
        <5>1. PICK l \in Bucket, m \in Buf : kj = <<l, m>> /\ m =< Len(list[l]) /\ list[l][m] = b
          OBVIOUS
        <5>2. m \in DOMAIN list[l]
          BY <5>1, <4>3 DEF Buf
        <5>3. b \in In(l)
          BY <5>1, <5>2 DEF In
        <5>4. l = k
          BY <4>1, <5>3 DEF Inv, ListInv
        <5>5. m = j
          BY <5>1, <5>2, <5>4, <4>2 DEF Inv, ListInv
        <5>6. QED
          BY <5>1, <5>4, <5>5
      <4>6. <<k, j>> \in K
        BY <4>2, <4>4
      <4>7. K = {<<k, j>>}
        BY <4>5, <4>6
      <4>8. QED
        BY <4>7, FS_Singleton
    <3>2. QED
      BY <3>1 DEF ListsOK, Inv, ListInv
  <2>2. NotRecycled
    <3>1. \A p \in Proc : buf[p] # None => buf[p] \in Buf /\ refcnt[buf[p]] \in Nat /\ refcnt[buf[p]] # 0
      BY NoUsers DEF Inv, TypeOK
    <3>2. \A p \in Proc : pc[p] = "use" => loaded[buf[p]] = want[p]
      BY <3>1 DEF Inv, HolderInv, ProcInv
    <3>3. \A b \in pinned : refcnt[b] \in Nat /\ refcnt[b] # 0
      BY NoUsers DEF Inv, TypeOK
    <3>4. QED
      BY <3>1, <3>2, <3>3 DEF NotRecycled, Inv, ProcInv
  <2>3. QED
    BY <2>1, <2>2 DEF CacheRight, Inv
<1>2. QED
  BY <1>1, Invariance, PTL
=============================================================================
