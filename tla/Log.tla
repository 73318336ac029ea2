-------------------------------- MODULE Log --------------------------------
(***************************************************************************)
(* The write-ahead log of the xv6 file system (kernel/log.c) together      *)
(* with the part of the buffer cache it leans on (kernel/bio.c): reference *)
(* counts, pinning, buffer sleep-locks and the recycling of unused         *)
(* buffers.  System calls run concurrently, a group of them commits when   *)
(* the last one ends, and the machine may lose power between any two disk  *)
(* writes, also while it recovers.                                         *)
(*                                                                         *)
(* A disk block write is atomic.  The cache holds at most one buffer per   *)
(* block (HashBcache shows it), so buffers are indexed by block here.      *)
(***************************************************************************)
EXTENDS Integers, Sequences, FiniteSets

CONSTANTS Proc, Block, Value,
          MAXOPBLOCKS,  \* most blocks one FS system call writes (param.h)
          OPBLOCKS,     \* most blocks a call of this file system really logs
          LOGSIZE,      \* most data blocks in the on-disk log (param.h)
          nlog,         \* log.size: blocks mkfs gave the log, header included
          RefMod,       \* 2^32 in the code: refcnt is a uint
          NotCached,    \* no buffer holds the block
          Invalid,      \* a buffer is assigned to the block, not yet read
          Nobody        \* no process holds the buffer's sleep-lock

\* No system call logs all the blocks it reserves: the longest, a chunk of
\* filewrite() (file.c:155), logs 4 data blocks, the bitmap, the indirect block
\* and the inode, 7 of MAXOPBLOCKS = 10.  LOGSIZE is 3 * MAXOPBLOCKS (param.h),
\* and mkfs, which is not in the repository, gives the log nlog = LOGSIZE
\* blocks, header included, so that the log holds LOGSIZE - 1 data blocks;
\* initlog() takes sb->nlog as it is.
ASSUME LogConstants ==
  /\ MAXOPBLOCKS \in Nat
  /\ OPBLOCKS \in 1..(MAXOPBLOCKS - 1)
  /\ LOGSIZE \in Nat
  /\ MAXOPBLOCKS < LOGSIZE
  /\ nlog \in Nat
  /\ LOGSIZE =< nlog
  /\ RefMod \in Nat
  /\ IsFiniteSet(Proc)
  /\ RefMod > Cardinality(Proc) + 2
  /\ NotCached \notin Value
  /\ Invalid \notin Value
  /\ NotCached # Invalid
  /\ Nobody \notin Proc

VARIABLES
  disk,         \* home locations of the blocks
  dlog,         \* the data blocks of the on-disk log
  dhead,        \* the on-disk log header: the block numbers it lists
  lh,           \* log.lh, the in-memory header
  outstanding,  \* log.outstanding
  committing,   \* log.committing
  bufdata,      \* what the buffer of each block holds
  refcnt,       \* b->refcnt
  holder,       \* who holds b->lock
  pc,           \* where each process is in the logging code
  arg,          \* the block of the buffer each process is working on
  wrote,        \* the blocks each process has logged in its system call
  tail,         \* the loop variable of write_log() and install_trans()
  boot,         \* where recover_from_log() is, "up" once it returned
  panicked,     \* the kernel has called panic()
  leaked,       \* history: buffers recovery has unpinned without a pin
  stolen        \* history: a buffer in use or pinned has been recycled

memvars == <<lh, outstanding, committing, pc, arg, wrote, tail, boot>>
cachevars == <<bufdata, refcnt, holder, leaked, stolen>>
diskvars == <<disk, dlog, dhead>>
vars == <<disk, dlog, dhead, lh, outstanding, committing, bufdata, refcnt,
          holder, pc, arg, wrote, tail, boot, panicked, leaked, stolen>>

InOp == {"op", "bget", "modified", "checked", "logged"}
InCommit == {"commit", "write_log", "write_head", "install", "erase", "finish"}
PCs == {"idle", "begin", "asleep"} \cup InOp \cup InCommit
UsesBuffer == {"bget", "modified", "checked", "logged"}
HoldsBuffer == {"modified", "checked", "logged"}

Logged == {lh[i] : i \in 1..Len(lh)}
Plus(n, k) == (n + k) % RefMod

\* A process that works on a buffer has taken a reference; log_write() takes
\* one more, the pin, for each block of the log until the block is installed.
Users(b) == {p \in Proc : pc[p] \in UsesBuffer /\ arg[p] = b}
Installed == IF \E p \in Proc : pc[p] = "erase" THEN Len(lh)
             ELSE IF \E p \in Proc : pc[p] = "install" THEN tail - 1
             ELSE 0
Pinned == IF boot = "up" THEN {lh[i] : i \in (Installed + 1)..Len(lh)} ELSE {}
InUse(b) == b \in Pinned \/ Users(b) # {}

TypeOK ==
  /\ disk \in [Block -> Value]
  /\ dlog \in [1..(nlog - 1) -> Value]
  /\ dhead \in Seq(Block)
  /\ lh \in Seq(Block)
  /\ outstanding \in Nat
  /\ committing \in BOOLEAN
  /\ bufdata \in [Block -> Value \cup {NotCached, Invalid}]
  /\ refcnt \in [Block -> 0..(RefMod - 1)]
  /\ holder \in [Block -> Proc \cup {Nobody}]
  /\ pc \in [Proc -> PCs]
  /\ arg \in [Proc -> Block]
  /\ wrote \in [Proc -> SUBSET Block]
  /\ tail \in Nat
  /\ boot \in {"read_head", "install", "up"}
  /\ panicked \in BOOLEAN
  /\ leaked \in SUBSET Block
  /\ stolen \in BOOLEAN

----------------------------------------------------------------------------
\* Power on with the empty log mkfs wrote.
Init ==
  /\ disk \in [Block -> Value]
  /\ dlog \in [1..(nlog - 1) -> Value]
  /\ \A i, j \in 1..(nlog - 1) : dlog[i] = dlog[j]
  /\ dhead = <<>>
  /\ lh = <<>>
  /\ outstanding = 0
  /\ committing = FALSE
  /\ bufdata = [b \in Block |-> NotCached]
  /\ refcnt = [b \in Block |-> 0]
  /\ holder = [b \in Block |-> Nobody]
  /\ pc = [p \in Proc |-> "idle"]
  /\ arg \in [Proc -> Block]
  /\ \A p, q \in Proc : arg[p] = arg[q]
  /\ wrote = [p \in Proc |-> {}]
  /\ tail = 1
  /\ boot = "read_head"
  /\ panicked = FALSE
  /\ leaked = {}
  /\ stolen = FALSE

\* The kernel is up.  After a buffer in use was recycled two processes share
\* it, and the model follows the kernel no further than that.
Running == boot = "up" /\ ~panicked /\ ~stolen

wakeup_nobody(pcs) == pcs  \* mutant: end_op() forgets wakeup(&log)
wakeup_log(pcs) == [q \in Proc |-> IF pcs[q] = "asleep" THEN "begin" ELSE pcs[q]]
goto(p, l) == [pc EXCEPT ![p] = l]

----------------------------------------------------------------------------
(* A file system system call.                                              *)

HasSpaceNow ==  \* mutant: forgets the blocks that are in the log already
  (outstanding + 1) * MAXOPBLOCKS =< LOGSIZE
\* The condition under which begin_op() lets one more system call in.
HasSpace == Len(lh) + (outstanding + 1) * MAXOPBLOCKS =< LOGSIZE

MustWaitSpace == ~HasSpace  \* mutant: enters while a commit is under way
MustWait == committing \/ ~HasSpace

begin_op(p) ==
  /\ Running
  /\ pc[p] \in {"idle", "begin"}
  /\ IF MustWait
     THEN /\ pc' = goto(p, "asleep")
          /\ UNCHANGED <<outstanding, wrote>>
     ELSE /\ outstanding' = outstanding + 1
          /\ pc' = goto(p, "op")
          /\ wrote' = [wrote EXCEPT ![p] = {}]
  /\ UNCHANGED <<diskvars, cachevars, lh, committing, arg, tail, boot, panicked>>

\* bread() of a block the call is going to change: bget() finds the buffer
\* or assigns one, and takes a reference.  The call keeps to the number of
\* blocks it reserved.
bget(p, b) ==
  /\ Running
  /\ pc[p] = "op"
  /\ b \in wrote[p] \/ Cardinality(wrote[p]) < OPBLOCKS
  /\ pc' = goto(p, "bget")
  /\ arg' = [arg EXCEPT ![p] = b]
  /\ IF bufdata[b] = NotCached
     THEN /\ bufdata' = [bufdata EXCEPT ![b] = Invalid]
          /\ refcnt' = [refcnt EXCEPT ![b] = 1]
     ELSE /\ refcnt' = [refcnt EXCEPT ![b] = Plus(@, 1)]
          /\ UNCHANGED bufdata
  /\ UNCHANGED <<diskvars, lh, outstanding, committing, holder, leaked, stolen,
                 wrote, tail, boot, panicked>>

\* ... acquiresleep(), the read of an invalid buffer, and the caller's change
\* of b->data.
modify(p, v) ==
  LET b == arg[p] IN
  /\ Running
  /\ pc[p] = "bget"
  /\ holder[b] = Nobody
  /\ holder' = [holder EXCEPT ![b] = p]
  /\ bufdata' = [bufdata EXCEPT ![b] = v]
  /\ pc' = goto(p, "modified")
  /\ UNCHANGED <<diskvars, lh, outstanding, committing, refcnt, leaked, stolen,
                 arg, wrote, tail, boot, panicked>>

\* log_write() looks at log.lh.n and log.outstanding before it locks the log.
TooBig == Len(lh) >= LOGSIZE \/ Len(lh) >= nlog - 1

log_write_check(p) ==
  /\ Running
  /\ pc[p] = "modified"
  /\ IF TooBig \/ outstanding < 1
     THEN panicked' = TRUE /\ UNCHANGED pc
     ELSE pc' = goto(p, "checked") /\ UNCHANGED panicked
  /\ UNCHANGED <<diskvars, cachevars, lh, outstanding, committing, arg, wrote,
                 tail, boot>>

no_bpin(b) == refcnt  \* mutant: the logged buffer is not pinned
bpin(b) == [refcnt EXCEPT ![b] = Plus(@, 1)]

\* What is left of it runs under log.lock: absorb the block or append and pin.
log_write(p) ==
  LET b == arg[p] IN
  /\ Running
  /\ pc[p] = "checked"
  /\ IF b \in Logged
     THEN UNCHANGED <<lh, refcnt>>
     ELSE /\ lh' = Append(lh, b)
          /\ refcnt' = bpin(b)
  /\ wrote' = [wrote EXCEPT ![p] = @ \cup {b}]
  /\ pc' = goto(p, "logged")
  /\ UNCHANGED <<diskvars, outstanding, committing, bufdata, holder, leaked,
                 stolen, arg, tail, boot, panicked>>

brelse(p) ==
  LET b == arg[p] IN
  /\ Running
  /\ pc[p] = "logged"
  /\ holder' = [holder EXCEPT ![b] = Nobody]
  /\ refcnt' = [refcnt EXCEPT ![b] = Plus(@, -1)]
  /\ pc' = goto(p, "op")
  /\ UNCHANGED <<diskvars, lh, outstanding, committing, bufdata, leaked, stolen,
                 arg, wrote, tail, boot, panicked>>

end_op(p) ==
  /\ Running
  /\ pc[p] = "op"
  /\ outstanding' = outstanding - 1
  /\ IF committing
     THEN panicked' = TRUE /\ UNCHANGED <<committing, pc>>
     ELSE /\ UNCHANGED panicked
          /\ IF outstanding' = 0
             THEN committing' = TRUE /\ pc' = goto(p, "commit")
             ELSE pc' = wakeup_log(goto(p, "idle")) /\ UNCHANGED committing
  /\ UNCHANGED <<diskvars, cachevars, lh, arg, wrote, tail, boot>>

----------------------------------------------------------------------------
(* commit(), one step per disk write.                                      *)

commit(p) ==
  /\ Running
  /\ pc[p] = "commit"
  /\ pc' = goto(p, IF Len(lh) > 0 THEN "write_log" ELSE "finish")
  /\ tail' = 1
  /\ UNCHANGED <<diskvars, cachevars, lh, outstanding, committing, arg, wrote,
                 boot, panicked>>

\* The buffer bread() returns for block b: what the cache holds, else the disk.
Content(b) == IF bufdata[b] \in Value THEN bufdata[b] ELSE disk[b]

\* bread(b), k calls of bunpin(b) and brelse(b) leave this reference count.
RefAfterNoUnpin(b, k) ==  \* mutant: install_trans() forgets bunpin()
  IF bufdata[b] = NotCached THEN 0 ELSE refcnt[b]
RefAfter(b, k) ==
  LET n == IF bufdata[b] = NotCached THEN 1 ELSE Plus(refcnt[b], 1)
  IN  Plus(n, -(k + 1))

write_log(p) ==
  /\ Running
  /\ pc[p] = "write_log"
  /\ LET b == lh[tail] IN
     /\ holder[b] = Nobody
     /\ dlog' = [dlog EXCEPT ![tail] = Content(b)]
     /\ bufdata' = [bufdata EXCEPT ![b] = Content(b)]
     /\ refcnt' = [refcnt EXCEPT ![b] = RefAfter(b, 0)]
  /\ IF tail < Len(lh)
     THEN tail' = tail + 1 /\ UNCHANGED pc
     ELSE tail' = 1 /\ pc' = goto(p, "write_head")
  /\ UNCHANGED <<disk, dhead, lh, outstanding, committing, holder, leaked,
                 stolen, arg, wrote, boot, panicked>>

\* The true commit point.
write_head(p) ==
  /\ Running
  /\ pc[p] = "write_head"
  /\ dhead' = lh
  /\ pc' = goto(p, "install")
  /\ UNCHANGED <<disk, dlog, cachevars, lh, outstanding, committing, arg, wrote,
                 tail, boot, panicked>>

\* One turn of install_trans()'s loop.
InstallCacheOnly ==  \* mutant: the bwrite() is missing
  LET b == lh[tail] IN
  /\ holder[b] = Nobody
  /\ bufdata' = [bufdata EXCEPT ![b] = dlog[tail]]
  /\ refcnt' = [refcnt EXCEPT ![b] = RefAfter(b, 1)]
  /\ UNCHANGED disk
InstallBlock ==
  LET b == lh[tail] IN
  /\ holder[b] = Nobody
  /\ disk' = [disk EXCEPT ![b] = dlog[tail]]
  /\ bufdata' = [bufdata EXCEPT ![b] = dlog[tail]]
  /\ refcnt' = [refcnt EXCEPT ![b] = RefAfter(b, 1)]

install_trans(p) ==
  /\ Running
  /\ pc[p] = "install"
  /\ InstallBlock
  /\ IF tail < Len(lh)
     THEN tail' = tail + 1 /\ UNCHANGED pc
     ELSE tail' = 1 /\ pc' = goto(p, "erase")
  /\ UNCHANGED <<dlog, dhead, lh, outstanding, committing, holder, leaked,
                 stolen, arg, wrote, boot, panicked>>

\* log.lh.n = 0; write_head().
EraseMemoryOnly ==  \* mutant: the second write_head() is missing
  /\ lh' = <<>>
  /\ UNCHANGED dhead
EraseHead ==
  /\ lh' = <<>>
  /\ dhead' = <<>>

erase_head(p) ==
  /\ Running
  /\ pc[p] = "erase"
  /\ EraseHead
  /\ pc' = goto(p, "finish")
  /\ UNCHANGED <<disk, dlog, cachevars, outstanding, committing, arg, wrote,
                 tail, boot, panicked>>

\* The end of end_op(): let the waiting system calls in.
finish_commit(p) ==
  /\ Running
  /\ pc[p] = "finish"
  /\ committing' = FALSE
  /\ pc' = wakeup_log(goto(p, "idle"))
  /\ UNCHANGED <<diskvars, cachevars, lh, outstanding, arg, wrote, tail, boot,
                 panicked>>

----------------------------------------------------------------------------
(* The buffer cache on behalf of everybody else.                           *)

\* A reader (readi(), ilock(), ...) breads and releases a block; it needs no
\* transaction, so it runs at any time.
read_block(b) ==
  /\ Running
  /\ holder[b] = Nobody
  /\ bufdata[b] = NotCached
  /\ bufdata' = [bufdata EXCEPT ![b] = disk[b]]
  /\ refcnt' = [refcnt EXCEPT ![b] = 0]
  /\ UNCHANGED <<diskvars, memvars, holder, leaked, stolen, panicked>>

\* bget() of some other block takes the buffer of b: it asks only whether
\* refcnt is zero.
recycle(b) ==
  /\ Running
  /\ bufdata[b] # NotCached
  /\ refcnt[b] = 0
  /\ bufdata' = [bufdata EXCEPT ![b] = NotCached]
  /\ leaked' = leaked \ {b}
  /\ stolen' = InUse(b)
  /\ UNCHANGED <<diskvars, memvars, refcnt, holder, panicked>>

----------------------------------------------------------------------------
(* Power failure and initlog().                                            *)

crash ==
  /\ lh' = <<>>
  /\ outstanding' = 0
  /\ committing' = FALSE
  /\ bufdata' = [b \in Block |-> NotCached]
  /\ refcnt' = [b \in Block |-> 0]
  /\ holder' = [b \in Block |-> Nobody]
  /\ pc' = [p \in Proc |-> "idle"]
  /\ wrote' = [p \in Proc |-> {}]
  /\ tail' = 1
  /\ boot' = "read_head"
  /\ panicked' = FALSE
  /\ leaked' = {}
  /\ stolen' = FALSE
  /\ UNCHANGED <<diskvars, arg>>

read_head ==
  /\ boot = "read_head"
  /\ lh' = dhead
  /\ boot' = "install"
  /\ UNCHANGED <<diskvars, cachevars, outstanding, committing, pc, arg, wrote,
                 tail, panicked>>

\* recover_from_log() runs the same install_trans(), on buffers nobody has
\* pinned.
recover_install ==
  /\ boot = "install"
  /\ tail =< Len(lh)
  /\ InstallBlock
  /\ tail' = tail + 1
  /\ leaked' = leaked \cup {lh[tail]}
  /\ UNCHANGED <<dlog, dhead, lh, outstanding, committing, holder, stolen, pc,
                 arg, wrote, boot, panicked>>

recover_erase ==
  /\ boot = "install"
  /\ tail > Len(lh)
  /\ EraseHead
  /\ tail' = 1
  /\ boot' = "up"
  /\ UNCHANGED <<disk, dlog, cachevars, outstanding, committing, pc, arg, wrote,
                 panicked>>

----------------------------------------------------------------------------
Step(p) ==
  \/ log_write_check(p) \/ log_write(p) \/ brelse(p)
  \/ commit(p) \/ write_log(p) \/ write_head(p)
  \/ install_trans(p) \/ erase_head(p) \/ finish_commit(p)

Recover == read_head \/ recover_install \/ recover_erase

Next ==
  \/ \E p \in Proc : begin_op(p) \/ end_op(p) \/ Step(p)
  \/ \E p \in Proc, b \in Block : bget(p, b)
  \/ \E p \in Proc, v \in Value : modify(p, v)
  \/ \E b \in Block : read_block(b) \/ recycle(b)
  \/ Recover
  \/ crash

Spec == Init /\ [][Next]_vars

\* The scheduler runs every process and the disk answers, so a process in the
\* kernel keeps moving; a system call writes finitely often, so it ends.
Fairness ==
  /\ \A p \in Proc :
       /\ WF_vars(Step(p))
       /\ SF_vars(\E v \in Value : modify(p, v))
       /\ SF_vars(end_op(p))
  /\ WF_vars(Recover)

FairSpec == Spec /\ Fairness

----------------------------------------------------------------------------
(* Properties.                                                             *)

\* Where block b would be found after a crash now and a complete recovery.
Recovered(b) ==
  IF \E i \in 1..Len(dhead) : dhead[i] = b
  THEN dlog[CHOOSE i \in 1..Len(dhead) : dhead[i] = b]
  ELSE disk[b]

mem == [b \in Block |-> IF boot = "up" THEN Content(b) ELSE Recovered(b)]
stable == [b \in Block |-> Recovered(b)]
active == {p \in Proc : pc[p] \in InOp}
up == boot = "up"

Abs == INSTANCE AtomicDisk

\* The log implements the atomic disk as long as no buffer in use is recycled:
\* whatever the interleaving of system calls, commits, evictions and crashes,
\* recovery brings back exactly the last group of system calls whose header
\* write_head() put on the disk.
AtomicUnlessStolen ==
  Abs!Init /\ [][Abs!Next \/ stolen']_(Abs!vars)

\* The same without the escape, as "commit()/write_log() will do the disk
\* write" (log.c:206) promises it.
AtomicCommit == Abs!Spec

\* bget() takes a buffer from its user, or from the log that pinned it, only
\* after install_trans() ran in recovery and dropped a pin nobody had taken.
OnlyLeakedStolen == [][stolen' => leaked # {}]_vars

\* b->refcnt counts the processes in bget()..brelse() and the pin of
\* log_write(), modulo the width of a uint, and is one too small for the
\* buffers recovery installed.
RefcntExact ==
  ~stolen =>
    \A b \in Block : bufdata[b] # NotCached =>
      refcnt[b] = Plus(Cardinality(Users(b)) + (IF b \in Pinned THEN 1 ELSE 0),
                       IF b \in leaked THEN -1 ELSE 0)

\* The header never lists more blocks than its array holds, nor more than the
\* log on the disk has room for.  begin_op()'s reservation alone sees to it:
\* log_write() tests log.lh.n before it takes the lock, and then appends.
LogFits == Len(lh) =< LOGSIZE /\ Len(lh) < nlog

\* None of the panics of log.c is reachable: no call finds the log full in
\* log_write(), none is inside a transaction while the last one commits.
NoPanic == ~panicked

\* Between transactions the disk alone holds all that any process has written.
QuiescentDurable ==
  boot = "up" /\ outstanding = 0 /\ ~committing /\ ~stolen =>
    \A b \in Block : Recovered(b) = Content(b) /\ disk[b] = Content(b)

\* end_op() wakes up the processes begin_op() put to sleep: nobody sleeps on
\* the log for ever, unless the kernel has panicked.
Sleeps(p) == pc[p] = "asleep" /\ ~panicked /\ ~stolen
SleepersWake == \A p \in Proc : Sleeps(p) ~> ~Sleeps(p)
=============================================================================
