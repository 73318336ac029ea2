----------------------------- MODULE HashBcache -----------------------------
(***************************************************************************)
(* The buffer cache of lab 3 (实验三/kernel/bio.c): the buffers hang in    *)
(* NBUCKETS lists, each with a lock of its own; a block belongs to the     *)
(* list blockno % NBUCKETS.  bget() looks in the list of its block and     *)
(* then, with that list still locked, takes an unused buffer from another. *)
(*                                                                         *)
(* One step per acquire() of a list's lock.  The lists are in the order in *)
(* which their buffers were last used.  Only one device is modelled.       *)
(***************************************************************************)
EXTENDS Integers, FiniteSets, Sequences, SequencesExt

CONSTANTS Proc,      \* processes that use the cache
          NBUF,      \* number of buffers
          NBUCKETS,
          Block,     \* block numbers
          None       \* the null pointer, and the block of a buffer never used

\* What the constants have to be.
BcacheConstants ==
  /\ NBUF \in Nat \ {0}
  /\ NBUCKETS \in Nat \ {0}
  /\ Block \subseteq Nat
  /\ None \notin Proc \cup Block \cup Nat

Buf == 1..NBUF
Bucket == 0..(NBUCKETS - 1)

VARIABLES
  blockno, refcnt, valid,  \* struct buf
  loaded,    \* the block whose contents are in b->data
  pinned,    \* buffers that bpin() holds in the cache for the log
  list,      \* the buffers of a bucket, most recently used first
  lock,      \* the process that holds bcache.lock[k]
  holder,    \* the process that holds the sleep lock b->lock
  pc, want,  \* where a process is, and the block it asks for
  buf,       \* the buffer it got
  i,         \* bget()'s loop over the other buckets
  panicked

bufvars == <<blockno, refcnt, valid, loaded, pinned>>
procvars == <<pc, want, buf, i>>
vars == <<bufvars, list, lock, holder, procvars, panicked>>

PCs == {"idle", "bget", "steal", "acquiresleep", "use", "brelse"}

TypeOK ==
  /\ blockno \in [Buf -> Block \cup {None}]
  /\ refcnt \in [Buf -> Nat]
  /\ valid \in [Buf -> BOOLEAN]
  /\ loaded \in [Buf -> Block \cup {None}]
  /\ pinned \subseteq Buf
  /\ list \in [Bucket -> Seq(Buf)]
  /\ lock \in [Bucket -> Proc \cup {None}]
  /\ holder \in [Buf -> Proc \cup {None}]
  /\ pc \in [Proc -> PCs]
  /\ want \in [Proc -> Block \cup {None}]
  /\ buf \in [Proc -> Buf \cup {None}]
  /\ i \in [Proc -> 0..NBUCKETS]
  /\ panicked \in BOOLEAN

\* binit(): all buffers are in bucket 0, the last one at its head.
Init ==
  /\ blockno = [b \in Buf |-> None]
  /\ refcnt = [b \in Buf |-> 0]
  /\ valid = [b \in Buf |-> FALSE]
  /\ loaded = [b \in Buf |-> None]
  /\ pinned = {}
  /\ list = [k \in Bucket |-> IF k = 0 THEN [j \in Buf |-> NBUF + 1 - j] ELSE << >>]
  /\ lock = [k \in Bucket |-> None]
  /\ holder = [b \in Buf |-> None]
  /\ pc = [p \in Proc |-> "idle"]
  /\ want = [p \in Proc |-> None]
  /\ buf = [p \in Proc |-> None]
  /\ i = [p \in Proc |-> 0]
  /\ panicked = FALSE

----------------------------------------------------------------------------
goto(p, l) == [pc EXCEPT ![p] = l]

Hash(n) == n % NBUCKETS

In(k) == {list[k][j] : j \in DOMAIN list[k]}

Hit(n) == {b \in In(Hash(n)) : blockno[b] = n}

Unused(k) == {b \in In(k) : refcnt[b] = 0}

\* The least recently used buffer of a bucket that nobody uses.
Lru(k) == list[k][Max({j \in DOMAIN list[k] : refcnt[list[k][j]] = 0})]

\* The buffer gets another block; its data will have to be read.
recycle(b, n) ==
  /\ blockno' = [blockno EXCEPT ![b] = n]
  /\ refcnt' = [refcnt EXCEPT ![b] = 1]
  /\ valid' = [valid EXCEPT ![b] = FALSE]
  /\ UNCHANGED <<loaded, pinned>>

\* The neighbours of buffer b in list s are linked to each other.
unlink(b, s) ==
  IF \E n \in DOMAIN s : s[n] = b THEN RemoveAt(s, CHOOSE n \in DOMAIN s : s[n] = b) ELSE s

\* Buffer b leaves its list and becomes the first one of bucket k.
MoveToHead(b, k) ==
  [j \in Bucket |-> IF j = k THEN <<b>> \o unlink(b, list[j]) ELSE unlink(b, list[j])]

\* The lock p acquires next.
Wants(p) ==
  CASE pc[p] = "bget" -> Hash(want[p])
    [] pc[p] = "steal" /\ i[p] \in Bucket \ {Hash(want[p])} -> i[p]
    [] pc[p] = "brelse" -> Hash(want[p])
    [] OTHER -> None

At(p, l) ==
  /\ ~panicked
  /\ pc[p] = l
  /\ Wants(p) # None => lock[Wants(p)] = None

----------------------------------------------------------------------------
(* bget() and bread()                                                      *)

bread(p, n) ==
  /\ At(p, "idle")
  /\ pc' = goto(p, "bget")
  /\ want' = [want EXCEPT ![p] = n]
  /\ UNCHANGED <<bufvars, list, lock, holder, buf, i, panicked>>

\* The block is cached.
bget_hit(p) ==
  /\ At(p, "bget")
  /\ \E b \in Hit(want[p]) :
       /\ refcnt' = [refcnt EXCEPT ![b] = @ + 1]
       /\ buf' = [buf EXCEPT ![p] = b]
  /\ pc' = goto(p, "acquiresleep")
  /\ UNCHANGED <<blockno, valid, loaded, pinned, list, lock, holder, want, i, panicked>>

\* Not cached, but there is an unused buffer in the block's own bucket.
bget_recycle(p) ==
  LET k == Hash(want[p]) IN
  /\ At(p, "bget")
  /\ Hit(want[p]) = {}
  /\ Unused(k) # {}
  /\ recycle(Lru(k), want[p])
  /\ buf' = [buf EXCEPT ![p] = Lru(k)]
  /\ pc' = goto(p, "acquiresleep")
  /\ UNCHANGED <<list, lock, holder, want, i, panicked>>

\* Neither: the bucket stays locked while p looks in the others.
LookUnlocked(p) == lock  \* mutant: the own bucket is released first
LookLocked(p) == [lock EXCEPT ![Hash(want[p])] = p]

bget_miss(p) ==
  /\ At(p, "bget")
  /\ Hit(want[p]) = {}
  /\ Unused(Hash(want[p])) = {}
  /\ lock' = LookLocked(p)
  /\ i' = [i EXCEPT ![p] = 0]
  /\ pc' = goto(p, "steal")
  /\ UNCHANGED <<bufvars, list, holder, want, buf, panicked>>

\* One turn of the loop over the other buckets: nothing there ...
steal_next(p) ==
  /\ At(p, "steal")
  /\ i[p] \in Bucket
  /\ i[p] # Hash(want[p]) => Unused(i[p]) = {}
  /\ i' = [i EXCEPT ![p] = @ + 1]
  /\ UNCHANGED <<bufvars, list, lock, holder, pc, want, buf, panicked>>

\* ... or a buffer, which moves to the block's own bucket.
steal_list(p) == MoveToHead(Lru(i[p]), Hash(want[p]))

bget_steal(p) ==
  /\ At(p, "steal")
  /\ i[p] \in Bucket \ {Hash(want[p])}
  /\ Unused(i[p]) # {}
  /\ recycle(Lru(i[p]), want[p])
  /\ list' = steal_list(p)
  /\ buf' = [buf EXCEPT ![p] = Lru(i[p])]
  /\ lock' = [lock EXCEPT ![Hash(want[p])] = None]
  /\ i' = [i EXCEPT ![p] = 0]
  /\ pc' = goto(p, "acquiresleep")
  /\ UNCHANGED <<holder, want, panicked>>

bget_panic(p) ==
  /\ At(p, "steal")
  /\ i[p] \notin Bucket
  /\ panicked' = TRUE
  /\ UNCHANGED <<bufvars, list, lock, holder, procvars>>

\* acquiresleep(); bread() reads the block from the disk if it has to.
bread_return(p) ==
  /\ At(p, "acquiresleep")
  /\ holder[buf[p]] = None
  /\ holder' = [holder EXCEPT ![buf[p]] = p]
  /\ loaded' = IF valid[buf[p]] THEN loaded
               ELSE [loaded EXCEPT ![buf[p]] = blockno[buf[p]]]
  /\ valid' = [valid EXCEPT ![buf[p]] = TRUE]
  /\ pc' = goto(p, "use")
  /\ UNCHANGED <<blockno, refcnt, pinned, list, lock, want, buf, i, panicked>>

----------------------------------------------------------------------------
(* bpin(), bunpin() and brelse()                                           *)

\* log_write() pins a buffer it was given, the commit unpins it.
bpin(p) ==
  /\ At(p, "use")
  /\ lock[Hash(want[p])] = None
  /\ buf[p] \notin pinned
  /\ refcnt' = [refcnt EXCEPT ![buf[p]] = @ + 1]
  /\ pinned' = pinned \cup {buf[p]}
  /\ UNCHANGED <<blockno, valid, loaded, list, lock, holder, procvars, panicked>>

bunpin(p) ==
  /\ At(p, "use")
  /\ lock[Hash(want[p])] = None
  /\ buf[p] \in pinned
  /\ refcnt' = [refcnt EXCEPT ![buf[p]] = @ - 1]
  /\ pinned' = pinned \ {buf[p]}
  /\ UNCHANGED <<blockno, valid, loaded, list, lock, holder, procvars, panicked>>

brelse_unlock(p) ==
  /\ At(p, "use")
  /\ holder' = [holder EXCEPT ![buf[p]] = None]
  /\ pc' = goto(p, "brelse")
  /\ UNCHANGED <<bufvars, list, lock, want, buf, i, panicked>>

drop(b) == [refcnt EXCEPT ![b] = @ - 1]

brelse(p) ==
  /\ At(p, "brelse")
  /\ refcnt' = drop(buf[p])
  /\ list' = IF refcnt'[buf[p]] = 0 THEN MoveToHead(buf[p], Hash(blockno[buf[p]])) ELSE list
  /\ pc' = goto(p, "idle")
  /\ want' = [want EXCEPT ![p] = None]
  /\ buf' = [buf EXCEPT ![p] = None]
  /\ UNCHANGED <<blockno, valid, loaded, pinned, lock, holder, i, panicked>>

----------------------------------------------------------------------------
Next ==
  \/ \E p \in Proc, n \in Block : bread(p, n)
  \/ \E p \in Proc :
       \/ bget_hit(p) \/ bget_recycle(p) \/ bget_miss(p)
       \/ steal_next(p) \/ bget_steal(p) \/ bget_panic(p) \/ bread_return(p)
       \/ bpin(p) \/ bunpin(p) \/ brelse_unlock(p) \/ brelse(p)

Spec == Init /\ [][Next]_vars

----------------------------------------------------------------------------
(* Properties.                                                             *)

\* A block has at most one buffer, although the search for it and the search
\* for an unused buffer are under different locks: two processes that change
\* one block change the same copy.
OneCopy ==
  \A a, b \in Buf : blockno[a] # None /\ blockno[a] = blockno[b] => a = b

\* Every buffer is in exactly one list, once, and in the one where bget()
\* will look for its block.
ListsOK ==
  /\ \A b \in Buf : Cardinality({kj \in Bucket \X Buf :
                                   kj[2] =< Len(list[kj[1]]) /\ list[kj[1]][kj[2]] = b}) = 1
  /\ \A k \in Bucket : \A b \in In(k) : blockno[b] # None => Hash(blockno[b]) = k

\* A buffer is not recycled while somebody uses it, waits for its sleep lock,
\* or the log has pinned it; the user of a buffer finds his block in it.
NotRecycled ==
  /\ \A p \in Proc : buf[p] # None => blockno[buf[p]] = want[p] /\ refcnt[buf[p]] > 0
  /\ \A p \in Proc : pc[p] = "use" => loaded[buf[p]] = want[p]
  /\ \A b \in pinned : refcnt[b] > 0

\* The hashed cache never has two buffers of one block, each buffer is in the
\* one list where bget() looks for it, and none that somebody uses, awaits or
\* pins is recycled.
CacheRight == TypeOK /\ OneCopy /\ ListsOK /\ NotRecycled

\* "In either case, return locked buffer" (bio.c:64): bget() returns, so its
\* callers do not wait for the locks of buckets in a circle.
NoCircle ==
  \A S \in SUBSET Proc :
    S = {} \/ \E p \in S : Wants(p) = None \/ lock[Wants(p)] \notin S
=============================================================================
