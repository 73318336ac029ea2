------------------------------- MODULE LogInv -------------------------------
(***************************************************************************)
(* The inductive invariants behind the theorems about Log: SafeInv, on the *)
(* control and the space of the log, and AtomInv, on the contents.         *)
(***************************************************************************)
EXTENDS Log

\* Who may be where: log.outstanding counts the system calls inside a
\* transaction, at most one process commits, and it commits alone.
ControlInv ==
  /\ outstanding = Cardinality(active)
  /\ committing => active = {}
  /\ \A p \in Proc : pc[p] \in InCommit => committing
  /\ \A p, q \in Proc : pc[p] \in InCommit /\ pc[q] \in InCommit => p = q
  /\ boot # "up" => \A p \in Proc : pc[p] = "idle"

\* The loop variable of write_log() and install_trans() stays in the header.
TailInv ==
  /\ \A p \in Proc :
       /\ pc[p] \in {"write_log", "install"} => tail \in 1..Len(lh)
       /\ pc[p] = "write_head" => tail = 1 /\ Len(lh) > 0
  /\ boot = "read_head" => tail = 1
  /\ boot = "install" => tail >= 1

\* The blocks the running system calls may still add to the header, one token
\* <<p, i>> each.
TokensOf(f, w) == {t \in Proc \X (1..OPBLOCKS) :
                     f[t[1]] \in InOp /\ t[2] > Cardinality(w[t[1]])}
Tokens == TokensOf(pc, wrote)

\* The log is empty between two groups of system calls.
EmptyInv ==
  /\ \A p \in Proc : pc[p] = "finish" => lh = <<>>
  /\ boot = "up" /\ active = {} /\ ~committing => lh = <<>>

\* There is always room in the log for what the running system calls may add,
\* and two blocks to spare: a call alone starts with an empty log, which is
\* larger than its reservation, and each of several reserves a block too many.
SpaceInv ==
  /\ Len(dhead) =< LOGSIZE - 2
  /\ Len(lh) + Cardinality(Tokens) =< LOGSIZE - 2
  /\ \A p \in Proc : pc[p] \in InOp =>
       /\ wrote[p] \subseteq Logged
       /\ IsFiniteSet(wrote[p])
       /\ Cardinality(wrote[p]) =< OPBLOCKS
  /\ \A p \in Proc : pc[p] \in {"bget", "modified", "checked"} =>
       arg[p] \in wrote[p] \/ Cardinality(wrote[p]) < OPBLOCKS

\* The inductive invariant: no step of begin_op(), log_write(), end_op(),
\* commit() or recovery gives away log space a running call has reserved.
SafeInv == TypeOK /\ ControlInv /\ TailInv /\ EmptyInv /\ SpaceInv

----------------------------------------------------------------------------
(* What the log, the cache and the disk say of each other.                 *)

\* No block is twice in the header, in memory or on the disk, and the header
\* on the disk is empty but from write_head() to the end of install_trans().
HeaderInv ==
  /\ \A i, j \in 1..Len(lh) : lh[i] = lh[j] => i = j
  /\ \A i, j \in 1..Len(dhead) : dhead[i] = dhead[j] => i = j
  /\ boot = "install" => lh = dhead
  /\ boot = "up" =>
       dhead = IF \E p \in Proc : pc[p] \in {"install", "erase"} THEN lh ELSE <<>>

\* The part of the log area that is written holds what the cache holds, and
\* the part that is installed is at home.
CopyInv ==
  /\ ~stolen => \A p \in Proc, i \in 1..Len(lh) :
       pc[p] \in {"write_head", "install", "erase"} \/ (pc[p] = "write_log" /\ i < tail)
         => dlog[i] = Content(lh[i])
  /\ \A p \in Proc, i \in 1..Len(lh) :
       pc[p] = "erase" \/ (pc[p] = "install" /\ i < tail) => disk[lh[i]] = dlog[i]
  /\ boot = "install" =>
       \A i \in 1..Len(lh) : i < tail => disk[lh[i]] = dlog[i]

\* A block that differs from its home is pinned, or about to be.
Unsaved(b) == \/ b \in Pinned
              \/ \E p \in Proc : pc[p] \in {"modified", "checked"} /\ arg[p] = b
CleanInv == ~stolen => \A b \in Block : Unsaved(b) \/ Content(b) = disk[b]

\* A buffer in use is in the cache.
CacheInv ==
  /\ stolen => boot = "up"
  /\ ~stolen => \A b \in Block : bufdata[b] = NotCached => ~InUse(b) /\ b \notin leaked
  /\ boot # "up" => \A b \in Block : bufdata[b] # NotCached =>
       \E i \in 1..Len(lh) : i < tail /\ lh[i] = b

\* What makes the commit atomic: the log, the cache and the disk agree at every
\* step of write_log(), write_head() and install_trans(), and a reference count
\* protects what is not at home yet.
AtomInv == HeaderInv /\ CopyInv /\ CleanInv /\ CacheInv /\ RefcntExact
=============================================================================
