----------------------------- MODULE LogProofs -----------------------------
(***************************************************************************)
(* Proofs about the log for every number of processes, blocks and values   *)
(* and every size of the log.  The first part is on control and space:     *)
(* type correctness, and that begin_op()'s reservation keeps log_write()   *)
(* inside the header and out of its panics.  The second part is on the     *)
(* contents of the log, the cache and the disk: reference counts are       *)
(* exact, nothing but a buffer recovery unpinned is ever taken from its    *)
(* user, the disk is up to date between transactions, and the log          *)
(* implements the atomic disk.                                             *)
(***************************************************************************)
EXTENDS LogInv, FiniteSetTheorems, TLAPS

-----------------------------------------------------------------------------
(* Control and space *)

\* The counts the invariant speaks of are numbers: the sets are finite.
LEMMA ActiveFinite ==
  /\ IsFiniteSet(active)
  /\ Cardinality(active) \in Nat
<1>1. active \in SUBSET Proc
  BY DEF active
<1>2. QED
  BY <1>1, FS_Subset, FS_CardinalityType, LogConstants

LEMMA TokensFinite ==
  ASSUME NEW f, NEW w
  PROVE  /\ IsFiniteSet(TokensOf(f, w))
         /\ Cardinality(TokensOf(f, w)) \in Nat
<1>1. IsFiniteSet(1..OPBLOCKS)
  BY FS_Interval, LogConstants
<1>2. IsFiniteSet(Proc \X (1..OPBLOCKS))
  BY <1>1, FS_Product, LogConstants
<1>3. TokensOf(f, w) \in SUBSET (Proc \X (1..OPBLOCKS))
  BY DEF TokensOf
<1>4. QED
  BY <1>2, <1>3, FS_Subset, FS_CardinalityType

\* A running system call holds at most OPBLOCKS tokens.
LEMMA TokensBound ==
  ASSUME NEW f, NEW w, NEW A, IsFiniteSet(A), {p \in Proc : f[p] \in InOp} \subseteq A
  PROVE  Cardinality(TokensOf(f, w)) =< Cardinality(A) * OPBLOCKS
<1>1. IsFiniteSet(1..OPBLOCKS) /\ Cardinality(1..OPBLOCKS) = OPBLOCKS
  BY FS_Interval, LogConstants
<1>2. /\ IsFiniteSet(A \X (1..OPBLOCKS))
      /\ Cardinality(A \X (1..OPBLOCKS)) = Cardinality(A) * OPBLOCKS
  BY <1>1, FS_Product
<1>3. TokensOf(f, w) \in SUBSET (A \X (1..OPBLOCKS))
  BY DEF TokensOf
<1>4. QED
  BY <1>2, <1>3, FS_Subset

LEMMA MulMono ==
  ASSUME NEW i \in Nat, NEW j \in Nat, NEW k \in Nat, i =< j
  PROVE  i * k =< j * k
  OBVIOUS

\* k system calls that log fewer blocks than they reserve leave k to spare.
LEMMA OneSpare ==
  ASSUME NEW k \in Nat, NEW m \in Nat, NEW n \in Nat, n =< m - 1
  PROVE  k * n =< k * m - k
<1>1. n * k =< (m - 1) * k
  BY MulMono
<1>2. QED
  BY <1>1

LEMMA TwoSpare ==
  ASSUME NEW i \in Nat, NEW c \in Nat, NEW a \in Int, NEW b \in Int, NEW k \in Nat,
         NEW l \in Nat, i + a =< l, c =< b, b =< a - k, k >= 2
  PROVE  i + c =< l - 2
  OBVIOUS

\* Reference counts are reduced modulo a positive number.
LEMMA RefModPositive == RefMod \in Nat /\ RefMod > 2
  BY LogConstants, FS_CardinalityType

\* Arithmetic on uint reference counts stays in range.
LEMMA PlusType ==
  ASSUME NEW n \in Int, NEW k \in Int
  PROVE  Plus(n, k) \in 0..(RefMod - 1)
  BY RefModPositive DEF Plus

\* The blocks the header lists fit the log on the disk.
LEMMA LenBound ==
  ASSUME TypeOK, SpaceInv
  PROVE  Len(lh) \in Nat /\ Len(lh) =< LOGSIZE - 2 /\ Len(lh) < nlog
<1>1. Len(lh) \in Nat /\ Cardinality(Tokens) \in Nat
  BY TokensFinite DEF Tokens, TypeOK
<1>2. QED
  BY <1>1, LogConstants DEF SpaceInv

LEMMA InitSafe == Init => SafeInv
<1> SUFFICES ASSUME Init PROVE SafeInv
  OBVIOUS
<1> USE LogConstants DEF Init
<1>1. TypeOK
  <2>1. refcnt \in [Block -> 0..(RefMod - 1)]
    BY RefModPositive
  <2>2. pc \in [Proc -> PCs]
    BY DEF PCs
  <2>3. holder \in [Block -> Proc \cup {Nobody}]
    OBVIOUS
  <2>4. bufdata \in [Block -> Value \cup {NotCached, Invalid}]
    OBVIOUS
  <2>5. wrote \in [Proc -> SUBSET Block]
    OBVIOUS
  <2>6. dhead \in Seq(Block) /\ lh \in Seq(Block)
    OBVIOUS
  <2>7. outstanding \in Nat /\ tail \in Nat /\ boot \in {"read_head", "install", "up"}
    OBVIOUS
  <2>8. committing \in BOOLEAN /\ panicked \in BOOLEAN /\ stolen \in BOOLEAN /\ leaked \in SUBSET Block
    OBVIOUS
  <2>9. QED
    BY <2>1, <2>2, <2>3, <2>4, <2>5, <2>6, <2>7, <2>8 DEF TypeOK
<1>2. active = {} /\ Tokens = {}
  BY DEF active, Tokens, TokensOf, InOp
<1>3. Cardinality(active) = 0 /\ Cardinality(Tokens) = 0
  BY <1>2, FS_EmptySet
<1>4. ControlInv
  BY <1>2, <1>3 DEF ControlInv, InCommit
<1>5. TailInv
  BY DEF TailInv
<1>6. SpaceInv
  BY <1>3 DEF SpaceInv, InOp
<1>7. EmptyInv
  BY DEF EmptyInv
<1>8. QED
  BY <1>1, <1>4, <1>5, <1>6, <1>7 DEF SafeInv

----------------------------------------------------------------------------
(* Steps keep the types.                                                   *)

LEMMA RefAfterType ==
  ASSUME TypeOK, NEW b \in Block, NEW k \in Nat
  PROVE  RefAfter(b, k) \in 0..(RefMod - 1)
<1> DEFINE n == IF bufdata[b] = NotCached THEN 1 ELSE Plus(refcnt[b], 1)
<1>1. refcnt[b] \in Int
  BY DEF TypeOK
<1>2. Plus(refcnt[b], 1) \in Int
  BY <1>1, RefModPositive DEF Plus
<1>3. n \in Int
  BY <1>2
<1>4. -(k + 1) \in Int
  OBVIOUS
<1>5. \A m \in Int : Plus(m, -(k + 1)) \in 0..(RefMod - 1)
  BY <1>4, PlusType
<1>6. RefAfter(b, k) = Plus(n, -(k + 1))
  BY DEF RefAfter
<1>7. QED
  BY <1>3, <1>5, <1>6

\* One turn of install_trans()'s loop, whoever runs it.
LEMMA InstallType ==
  ASSUME TypeOK, SpaceInv, InstallBlock, tail \in 1..Len(lh)
  PROVE  /\ lh[tail] \in Block
         /\ disk' \in [Block -> Value]
         /\ bufdata' \in [Block -> Value \cup {NotCached, Invalid}]
         /\ refcnt' \in [Block -> 0..(RefMod - 1)]
<1>1. lh[tail] \in Block
  BY DEF TypeOK
<1>2. tail \in 1..(nlog - 1)
  BY LenBound, LogConstants
<1>3. dlog[tail] \in Value
  BY <1>2 DEF TypeOK
<1>4. RefAfter(lh[tail], 1) \in 0..(RefMod - 1)
  BY <1>1, RefAfterType
<1>5. QED
  BY <1>1, <1>3, <1>4 DEF InstallBlock, TypeOK

LEMMA TypeStep ==
  ASSUME SafeInv, Next
  PROVE  TypeOK'
<1> USE DEF SafeInv, diskvars, cachevars, memvars
<1>T1. refcnt \in [Block -> 0..(RefMod - 1)]
  BY DEF TypeOK
<1>T2. bufdata \in [Block -> Value \cup {NotCached, Invalid}]
  BY DEF TypeOK
<1>T3. outstanding \in Nat /\ wrote \in [Proc -> SUBSET Block]
  BY DEF TypeOK
<1>T4. lh \in Seq(Block)
  BY DEF TypeOK
<1>T5. tail \in Nat /\ pc \in [Proc -> PCs]
  BY DEF TypeOK
<1>0. \A p \in Proc, l \in PCs : goto(p, l) \in [Proc -> PCs]
  BY DEF goto, TypeOK
<1>L. /\ {"idle", "begin", "asleep"} \subseteq PCs
      /\ {"op", "bget", "modified", "checked", "logged"} \subseteq PCs
      /\ {"commit", "write_log", "write_head", "install", "erase", "finish"} \subseteq PCs
  BY DEF PCs, InOp, InCommit
<1>R. \A b \in Block, k \in Int :
        [refcnt EXCEPT ![b] = Plus(@, k)] \in [Block -> 0..(RefMod - 1)]
  <2> SUFFICES ASSUME NEW b \in Block, NEW k \in Int
               PROVE  Plus(refcnt[b], k) \in 0..(RefMod - 1)
    BY DEF TypeOK
  <2>1. refcnt[b] \in Int
    BY <1>T1
  <2>2. QED
    BY <2>1, PlusType
<1>W. \A f \in [Proc -> PCs] : wakeup_log(f) \in [Proc -> PCs]
  BY <1>L DEF wakeup_log
<1>1. ASSUME NEW p \in Proc, begin_op(p) PROVE TypeOK'
  <2>1. pc' \in [Proc -> PCs]
    BY <1>1, <1>0, <1>L DEF begin_op
  <2>2. outstanding' \in Nat /\ wrote' \in [Proc -> SUBSET Block]
    <3>1. \/ outstanding' = outstanding /\ wrote' = wrote
          \/ outstanding' = outstanding + 1 /\ wrote' = [wrote EXCEPT ![p] = {}]
      BY <1>1 DEF begin_op
    <3>2. QED
      BY <3>1, <1>T3
  <2>3. QED
    BY <1>1, <2>1, <2>2 DEF begin_op, TypeOK
<1>2. ASSUME NEW p \in Proc, NEW b \in Block, bget(p, b) PROVE TypeOK'
  <2>1. refcnt' \in [Block -> 0..(RefMod - 1)]
    <3>1. CASE bufdata[b] = NotCached
      <4>1. refcnt' = [refcnt EXCEPT ![b] = 1]
        BY <1>2, <3>1 DEF bget
      <4>2. QED
        BY <4>1, <1>T1, RefModPositive
    <3>2. CASE bufdata[b] # NotCached
      BY <1>2, <3>2, <1>R DEF bget
    <3>3. QED
      BY <3>1, <3>2
  <2>2. bufdata' \in [Block -> Value \cup {NotCached, Invalid}]
    BY <1>2, <1>T2 DEF bget
  <2>3. pc' \in [Proc -> PCs]
    BY <1>2, <1>0, <1>L DEF bget
  <2>4. QED
    BY <1>2, <2>1, <2>2, <2>3 DEF bget, TypeOK
<1>3. ASSUME NEW p \in Proc, NEW v \in Value, modify(p, v) PROVE TypeOK'
  <2>1. pc' \in [Proc -> PCs]
    BY <1>3, <1>0, <1>L DEF modify
  <2>2. QED
    BY <1>3, <2>1 DEF modify, TypeOK
<1>4. ASSUME NEW p \in Proc, log_write_check(p) PROVE TypeOK'
  <2>1. pc' \in [Proc -> PCs]
    BY <1>4, <1>0, <1>L DEF log_write_check, TypeOK
  <2>2. QED
    BY <1>4, <2>1 DEF log_write_check, TypeOK
<1>5. ASSUME NEW p \in Proc, log_write(p) PROVE TypeOK'
  <2>1. arg[p] \in Block
    BY DEF TypeOK
  <2>2. refcnt' \in [Block -> 0..(RefMod - 1)]
    <3>1. refcnt' = refcnt \/ refcnt' = bpin(arg[p])
      BY <1>5 DEF log_write
    <3>2. QED
      BY <3>1, <2>1, <1>R, <1>T1 DEF bpin
  <2>3. lh' \in Seq(Block)
    <3>1. lh' = lh \/ lh' = Append(lh, arg[p])
      BY <1>5 DEF log_write
    <3>2. QED
      BY <3>1, <2>1, <1>T4
  <2>4. pc' \in [Proc -> PCs]
    BY <1>5, <1>0, <1>L DEF log_write
  <2>5. QED
    BY <1>5, <2>1, <2>2, <2>3, <2>4 DEF log_write, TypeOK
<1>6. ASSUME NEW p \in Proc, brelse(p) PROVE TypeOK'
  <2>1. arg[p] \in Block
    BY DEF TypeOK
  <2>2. refcnt' \in [Block -> 0..(RefMod - 1)]
    BY <1>6, <1>R, <2>1 DEF brelse
  <2>3. pc' \in [Proc -> PCs]
    BY <1>6, <1>0, <1>L DEF brelse
  <2>4. QED
    BY <1>6, <2>1, <2>2, <2>3 DEF brelse, TypeOK
<1>7. ASSUME NEW p \in Proc, end_op(p) PROVE TypeOK'
  <2>1. p \in active /\ outstanding > 0
    BY <1>7, ActiveFinite, FS_EmptySet DEF end_op, active, ControlInv, InOp
  <2>2. pc' \in [Proc -> PCs]
    BY <1>7, <1>0, <1>L, <1>W DEF end_op, TypeOK
  <2>3. committing' \in BOOLEAN /\ panicked' \in BOOLEAN
    BY <1>7 DEF end_op, TypeOK
  <2>4. outstanding' \in Nat
    BY <1>7, <2>1 DEF end_op, TypeOK
  <2>5. QED
    BY <1>7, <2>2, <2>3, <2>4 DEF end_op, TypeOK
<1>8. ASSUME NEW p \in Proc, commit(p) PROVE TypeOK'
  <2>1. pc' \in [Proc -> PCs]
    BY <1>8, <1>0, <1>L DEF commit
  <2>2. QED
    BY <1>8, <2>1 DEF commit, TypeOK
<1>9. ASSUME NEW p \in Proc, write_log(p) PROVE TypeOK'
  <2> DEFINE b == lh[tail]
  <2>1. b \in Block
    BY <1>9 DEF write_log, TailInv, TypeOK
  <2>2. Content(b) \in Value
    BY <2>1 DEF Content, TypeOK
  <2>3. RefAfter(b, 0) \in 0..(RefMod - 1)
    BY <2>1, RefAfterType
  <2>4. dlog' \in [1..(nlog - 1) -> Value]
    BY <1>9, <2>2 DEF write_log, TypeOK
  <2>5. bufdata' \in [Block -> Value \cup {NotCached, Invalid}]
    BY <1>9, <2>1, <2>2 DEF write_log, TypeOK
  <2>6. refcnt' \in [Block -> 0..(RefMod - 1)]
    BY <1>9, <2>1, <2>3 DEF write_log, TypeOK
  <2>7. tail' \in Nat /\ pc' \in [Proc -> PCs]
    BY <1>9, <1>0, <1>L DEF write_log, TypeOK
  <2>8. QED
    BY <1>9, <2>4, <2>5, <2>6, <2>7 DEF write_log, TypeOK
<1>10. ASSUME NEW p \in Proc, write_head(p) PROVE TypeOK'
  <2>1. pc' \in [Proc -> PCs]
    BY <1>10, <1>0, <1>L DEF write_head
  <2>2. QED
    BY <1>10, <2>1 DEF write_head, TypeOK
<1>11. ASSUME NEW p \in Proc, install_trans(p) PROVE TypeOK'
  <2>1. tail \in 1..Len(lh)
    BY <1>11 DEF install_trans, TailInv
  <2>2. tail' \in Nat /\ pc' \in [Proc -> PCs]
    <3>1. (tail' = tail + 1 /\ pc' = pc) \/ (tail' = 1 /\ pc' = goto(p, "erase"))
      BY <1>11 DEF install_trans
    <3>2. goto(p, "erase") \in [Proc -> PCs]
      BY <1>0, <1>L
    <3>3. QED
      BY <3>1, <3>2, <1>T5
  <2>3. QED
    BY <1>11, <2>1, <2>2, InstallType DEF install_trans, TypeOK
<1>12. ASSUME NEW p \in Proc, erase_head(p) PROVE TypeOK'
  <2>1. pc' \in [Proc -> PCs]
    BY <1>12, <1>0, <1>L DEF erase_head
  <2>2. QED
    BY <1>12, <2>1 DEF erase_head, EraseHead, TypeOK
<1>13. ASSUME NEW p \in Proc, finish_commit(p) PROVE TypeOK'
  <2>1. pc' \in [Proc -> PCs]
    BY <1>13, <1>0, <1>L, <1>W DEF finish_commit
  <2>2. QED
    BY <1>13, <2>1 DEF finish_commit, TypeOK
<1>14. ASSUME NEW b \in Block, read_block(b) PROVE TypeOK'
  BY <1>14, RefModPositive DEF read_block, TypeOK
<1>15. ASSUME NEW b \in Block, recycle(b) PROVE TypeOK'
  <2>1. stolen' \in BOOLEAN
    BY <1>15 DEF recycle, InUse
  <2>2. QED
    BY <1>15, <2>1 DEF recycle, TypeOK
<1>16. ASSUME crash PROVE TypeOK'
  <2>1. /\ bufdata' \in [Block -> Value \cup {NotCached, Invalid}]
        /\ refcnt' \in [Block -> 0..(RefMod - 1)]
        /\ holder' \in [Block -> Proc \cup {Nobody}]
    BY <1>16, RefModPositive DEF crash
  <2>2. pc' \in [Proc -> PCs] /\ wrote' \in [Proc -> SUBSET Block]
    BY <1>16, <1>L DEF crash
  <2>3. QED
    <3>1. lh' \in Seq(Block) /\ outstanding' \in Nat /\ tail' \in Nat
      BY <1>16 DEF crash
    <3>2. /\ committing' \in BOOLEAN /\ panicked' \in BOOLEAN
          /\ stolen' \in BOOLEAN /\ leaked' \in SUBSET Block
      BY <1>16 DEF crash
    <3>3. QED
      BY <1>16, <2>1, <2>2, <3>1, <3>2 DEF crash, TypeOK
<1>17. ASSUME read_head PROVE TypeOK'
  BY <1>17 DEF read_head, TypeOK
<1>18. ASSUME recover_install PROVE TypeOK'
  <2>1. tail \in 1..Len(lh)
    BY <1>18 DEF recover_install, TailInv, TypeOK
  <2>2. /\ lh[tail] \in Block
        /\ disk' \in [Block -> Value]
        /\ bufdata' \in [Block -> Value \cup {NotCached, Invalid}]
        /\ refcnt' \in [Block -> 0..(RefMod - 1)]
    BY <1>18, <2>1, InstallType DEF recover_install
  <2>3. QED
    BY <1>18, <2>2 DEF recover_install, TypeOK
<1>19. ASSUME recover_erase PROVE TypeOK'
  BY <1>19 DEF recover_erase, EraseHead, TypeOK
<1>20. QED
  BY <1>1, <1>2, <1>3, <1>4, <1>5, <1>6, <1>7, <1>8, <1>9, <1>10, <1>11,
     <1>12, <1>13, <1>14, <1>15, <1>16, <1>17, <1>18, <1>19
     DEF Next, Step, Recover

----------------------------------------------------------------------------
(* Steps keep the control invariant.                                       *)

\* A process that moves inside its transaction or inside commit() changes
\* nothing that ControlInv speaks of.
LEMMA SameControl ==
  ASSUME ControlInv, TypeOK, boot = "up",
         UNCHANGED <<outstanding, committing, boot>>,
         NEW p \in Proc, NEW l, pc' = pc \/ pc' = goto(p, l),
         \/ pc[p] \in InOp /\ l \in InOp
         \/ pc[p] \in InCommit /\ l \in InCommit
  PROVE  ControlInv'
<1>1. pc \in [Proc -> PCs]
  BY DEF TypeOK
<1>2. \A q \in Proc : /\ pc'[q] \in InOp <=> pc[q] \in InOp
                      /\ pc'[q] \in InCommit <=> pc[q] \in InCommit
  BY <1>1 DEF goto, InOp, InCommit
<1>3. active' = active
  BY <1>2 DEF active
<1>4. QED
  BY <1>2, <1>3 DEF ControlInv

LEMMA ControlStep ==
  ASSUME SafeInv, Next
  PROVE  ControlInv'
<1> USE DEF SafeInv, diskvars, cachevars, memvars
<1>T. pc \in [Proc -> PCs]
  BY DEF TypeOK
<1>C. ASSUME UNCHANGED <<outstanding, committing, pc>>, boot' # "up" => boot # "up"
      PROVE  ControlInv'
  <2>1. active' = active
    BY <1>C DEF active
  <2>2. QED
    BY <1>C, <2>1 DEF ControlInv
<1>1. ASSUME NEW p \in Proc, begin_op(p) PROVE ControlInv'
  <2>1. CASE MustWait
    <3>1. /\ pc' = goto(p, "asleep") /\ pc[p] \in {"idle", "begin"}
          /\ UNCHANGED <<outstanding, committing, boot>> /\ boot = "up"
      BY <1>1, <2>1 DEF begin_op, Running
    <3>2. \A q \in Proc : /\ pc'[q] \in InOp <=> pc[q] \in InOp
                          /\ pc'[q] \in InCommit <=> pc[q] \in InCommit
      BY <3>1, <1>T DEF goto, InOp, InCommit
    <3>3. active' = active
      BY <3>2 DEF active
    <3>4. QED
      BY <3>1, <3>2, <3>3 DEF ControlInv
  <2>2. CASE ~MustWait
    <3>1. /\ pc' = goto(p, "op") /\ pc[p] \in {"idle", "begin"}
          /\ outstanding' = outstanding + 1
          /\ UNCHANGED <<committing, boot>> /\ boot = "up"
      BY <1>1, <2>2 DEF begin_op, Running
    <3>2. active' = active \cup {p} /\ p \notin active
      BY <3>1, <1>T DEF active, goto, InOp
    <3>3. Cardinality(active') = Cardinality(active) + 1
      BY <3>2, ActiveFinite, FS_AddElement
    <3>4. ~committing
      BY <2>2 DEF MustWait
    <3>5. \A q \in Proc : pc'[q] \in InCommit <=> pc[q] \in InCommit
      BY <3>1, <1>T DEF goto, InCommit
    <3>6. QED
      BY <3>1, <3>3, <3>4, <3>5 DEF ControlInv
  <2>3. QED
    BY <2>1, <2>2
<1>2. ASSUME NEW p \in Proc, NEW b \in Block, bget(p, b) PROVE ControlInv'
  <2>1. /\ pc' = goto(p, "bget") /\ pc[p] \in InOp /\ "bget" \in InOp /\ boot = "up"
        /\ UNCHANGED <<outstanding, committing, boot>>
    BY <1>2 DEF bget, InOp, Running
  <2>2. QED
    BY <2>1, SameControl
<1>3. ASSUME NEW p \in Proc, NEW v \in Value, modify(p, v) PROVE ControlInv'
  <2>1. /\ pc' = goto(p, "modified") /\ pc[p] \in InOp /\ "modified" \in InOp /\ boot = "up"
        /\ UNCHANGED <<outstanding, committing, boot>>
    BY <1>3 DEF modify, InOp, Running
  <2>2. QED
    BY <2>1, SameControl
<1>4. ASSUME NEW p \in Proc, log_write_check(p) PROVE ControlInv'
  <2>1. /\ pc' = pc \/ pc' = goto(p, "checked")
        /\ pc[p] \in InOp /\ "checked" \in InOp /\ boot = "up"
        /\ UNCHANGED <<outstanding, committing, boot>>
    BY <1>4 DEF log_write_check, InOp, Running
  <2>2. QED
    BY <2>1, SameControl
<1>5. ASSUME NEW p \in Proc, log_write(p) PROVE ControlInv'
  <2>1. /\ pc' = goto(p, "logged") /\ pc[p] \in InOp /\ "logged" \in InOp /\ boot = "up"
        /\ UNCHANGED <<outstanding, committing, boot>>
    BY <1>5 DEF log_write, InOp, Running
  <2>2. QED
    BY <2>1, SameControl
<1>6. ASSUME NEW p \in Proc, brelse(p) PROVE ControlInv'
  <2>1. /\ pc' = goto(p, "op") /\ pc[p] \in InOp /\ "op" \in InOp /\ boot = "up"
        /\ UNCHANGED <<outstanding, committing, boot>>
    BY <1>6 DEF brelse, InOp, Running
  <2>2. QED
    BY <2>1, SameControl
<1>7. ASSUME NEW p \in Proc, end_op(p) PROVE ControlInv'
  <2>1. p \in active /\ ~committing /\ pc[p] = "op" /\ boot = "up" /\ boot' = boot
    BY <1>7 DEF end_op, active, InOp, ControlInv, Running
  <2>2. outstanding' = outstanding - 1
    BY <1>7 DEF end_op
  <2>3. Cardinality(active \ {p}) = Cardinality(active) - 1
    BY <2>1, ActiveFinite, FS_RemoveElement
  <2>4. \A q \in Proc : pc[q] \notin InCommit
    BY <2>1 DEF ControlInv
  <2>5. CASE outstanding' = 0
    <3>1. committing' = TRUE /\ pc' = goto(p, "commit")
      BY <1>7, <2>1, <2>5 DEF end_op
    <3>2. active' = active \ {p}
      BY <3>1, <1>T DEF active, goto, InOp
    <3>3. active' = {}
      BY <2>2, <2>3, <2>5, <3>2, ActiveFinite, FS_EmptySet, FS_RemoveElement DEF ControlInv
    <3>4. \A q \in Proc : pc'[q] \in InCommit => q = p
      BY <3>1, <2>4, <1>T DEF goto
    <3>5. QED
      BY <2>1, <2>2, <2>3, <3>1, <3>2, <3>3, <3>4 DEF ControlInv
  <2>6. CASE outstanding' # 0
    <3>1. committing' = committing /\ pc' = wakeup_log(goto(p, "idle"))
      BY <1>7, <2>1, <2>6 DEF end_op
    <3>2. \A q \in Proc : /\ pc'[q] \in InOp <=> pc[q] \in InOp /\ q # p
                          /\ pc'[q] \notin InCommit
      BY <3>1, <2>4, <1>T DEF goto, wakeup_log, InOp, InCommit
    <3>3. active' = active \ {p}
      BY <3>2 DEF active
    <3>4. QED
      BY <2>1, <2>2, <2>3, <3>1, <3>2, <3>3 DEF ControlInv
  <2>7. QED
    BY <2>5, <2>6
<1>8. ASSUME NEW p \in Proc, commit(p) PROVE ControlInv'
  <2>1. /\ pc' = goto(p, "write_log") \/ pc' = goto(p, "finish")
        /\ pc[p] \in InCommit /\ "write_log" \in InCommit /\ "finish" \in InCommit
        /\ UNCHANGED <<outstanding, committing, boot>> /\ boot = "up"
    BY <1>8 DEF commit, InCommit, Running
  <2>2. QED
    BY <2>1, SameControl
<1>9. ASSUME NEW p \in Proc, write_log(p) PROVE ControlInv'
  <2>1. /\ pc' = pc \/ pc' = goto(p, "write_head")
        /\ pc[p] \in InCommit /\ "write_head" \in InCommit
        /\ UNCHANGED <<outstanding, committing, boot>> /\ boot = "up"
    BY <1>9 DEF write_log, InCommit, Running
  <2>2. QED
    BY <2>1, SameControl
<1>10. ASSUME NEW p \in Proc, write_head(p) PROVE ControlInv'
  <2>1. /\ pc' = goto(p, "install") /\ pc[p] \in InCommit /\ "install" \in InCommit
        /\ UNCHANGED <<outstanding, committing, boot>> /\ boot = "up"
    BY <1>10 DEF write_head, InCommit, Running
  <2>2. QED
    BY <2>1, SameControl
<1>11. ASSUME NEW p \in Proc, install_trans(p) PROVE ControlInv'
  <2>1. /\ pc' = pc \/ pc' = goto(p, "erase")
        /\ pc[p] \in InCommit /\ "erase" \in InCommit
        /\ UNCHANGED <<outstanding, committing, boot>> /\ boot = "up"
    BY <1>11 DEF install_trans, InCommit, Running
  <2>2. QED
    BY <2>1, SameControl
<1>12. ASSUME NEW p \in Proc, erase_head(p) PROVE ControlInv'
  <2>1. /\ pc' = goto(p, "finish") /\ pc[p] \in InCommit /\ "finish" \in InCommit
        /\ UNCHANGED <<outstanding, committing, boot>> /\ boot = "up"
    BY <1>12 DEF erase_head, InCommit, Running
  <2>2. QED
    BY <2>1, SameControl
<1>13. ASSUME NEW p \in Proc, finish_commit(p) PROVE ControlInv'
  <2>1. /\ pc' = wakeup_log(goto(p, "idle")) /\ pc[p] = "finish" /\ committing' = FALSE
        /\ UNCHANGED <<outstanding, boot>> /\ boot = "up"
    BY <1>13 DEF finish_commit, Running
  <2>2. \A q \in Proc : pc[q] \in InCommit => q = p
    BY <2>1 DEF ControlInv, InCommit
  <2>3. \A q \in Proc : /\ pc'[q] \in InOp <=> pc[q] \in InOp
                        /\ pc'[q] \notin InCommit
    BY <2>1, <2>2, <1>T DEF goto, wakeup_log, InOp, InCommit
  <2>4. active' = active
    BY <2>3 DEF active
  <2>5. QED
    BY <2>1, <2>3, <2>4 DEF ControlInv
<1>14. ASSUME NEW b \in Block, read_block(b) PROVE ControlInv'
  BY <1>14, <1>C DEF read_block
<1>15. ASSUME NEW b \in Block, recycle(b) PROVE ControlInv'
  BY <1>15, <1>C DEF recycle
<1>16. ASSUME crash PROVE ControlInv'
  <2>1. pc' = [p \in Proc |-> "idle"] /\ outstanding' = 0 /\ committing' = FALSE
    BY <1>16 DEF crash
  <2>2. active' = {} /\ \A q \in Proc : pc'[q] = "idle" /\ pc'[q] \notin InCommit
    BY <2>1 DEF active, InOp, InCommit
  <2>3. Cardinality(active') = 0
    BY <2>2, FS_EmptySet
  <2>4. QED
    BY <2>1, <2>2, <2>3 DEF ControlInv
<1>17. ASSUME read_head PROVE ControlInv'
  BY <1>17, <1>C DEF read_head
<1>18. ASSUME recover_install PROVE ControlInv'
  BY <1>18, <1>C DEF recover_install
<1>19. ASSUME recover_erase PROVE ControlInv'
  BY <1>19, <1>C DEF recover_erase
<1>20. QED
  BY <1>1, <1>2, <1>3, <1>4, <1>5, <1>6, <1>7, <1>8, <1>9, <1>10, <1>11,
     <1>12, <1>13, <1>14, <1>15, <1>16, <1>17, <1>18, <1>19
     DEF Next, Step, Recover

----------------------------------------------------------------------------
(* Steps keep the loop variable in the header.                             *)

LEMMA SameTail ==
  ASSUME TailInv, UNCHANGED <<tail, lh, boot>>,
         \A q \in Proc : pc'[q] \in {"write_log", "install", "write_head"} =>
                          pc'[q] = pc[q]
  PROVE  TailInv'
  BY DEF TailInv

LEMMA TailStep ==
  ASSUME SafeInv, Next
  PROVE  TailInv'
<1> USE DEF SafeInv, diskvars, cachevars, memvars
<1>T. pc \in [Proc -> PCs] /\ tail \in Nat /\ lh \in Seq(Block)
  BY DEF TypeOK
<1>M. ASSUME NEW p \in Proc, NEW l, l \notin {"write_log", "install", "write_head"},
             pc' = pc \/ pc' = goto(p, l), UNCHANGED <<tail, lh, boot>>
      PROVE  TailInv'
  <2>1. \A q \in Proc : pc'[q] \in {"write_log", "install", "write_head"} => pc'[q] = pc[q]
    BY <1>M, <1>T DEF goto
  <2>2. QED
    BY <1>M, <2>1, SameTail
<1>I. ASSUME NEW p \in Proc, pc[p] \in InOp
      PROVE  \A q \in Proc : pc[q] \notin InCommit
  BY <1>I DEF ControlInv, active
<1>U. ASSUME NEW p \in Proc, pc[p] \in InCommit
      PROVE  \A q \in Proc : pc[q] \in InCommit => q = p
  BY <1>U DEF ControlInv
<1>1. ASSUME NEW p \in Proc, begin_op(p) PROVE TailInv'
  BY <1>1, <1>M DEF begin_op
<1>2. ASSUME NEW p \in Proc, NEW b \in Block, bget(p, b) PROVE TailInv'
  BY <1>2, <1>M DEF bget
<1>3. ASSUME NEW p \in Proc, NEW v \in Value, modify(p, v) PROVE TailInv'
  BY <1>3, <1>M DEF modify
<1>4. ASSUME NEW p \in Proc, log_write_check(p) PROVE TailInv'
  BY <1>4, <1>M DEF log_write_check
<1>5. ASSUME NEW p \in Proc, log_write(p) PROVE TailInv'
  <2>1. \A q \in Proc : pc[q] \notin InCommit
    BY <1>5, <1>I DEF log_write, InOp
  <2>2. pc' = goto(p, "logged") /\ boot = "up" /\ boot' = boot
    BY <1>5 DEF log_write, Running
  <2>3. \A q \in Proc : pc'[q] \notin {"write_log", "install", "write_head"}
    BY <2>1, <2>2, <1>T DEF goto, InCommit
  <2>4. QED
    BY <2>2, <2>3 DEF TailInv
<1>6. ASSUME NEW p \in Proc, brelse(p) PROVE TailInv'
  BY <1>6, <1>M DEF brelse
<1>7. ASSUME NEW p \in Proc, end_op(p) PROVE TailInv'
  <2>1. pc' = pc \/ pc' = goto(p, "commit") \/ pc' = wakeup_log(goto(p, "idle"))
    BY <1>7 DEF end_op
  <2>2. \A q \in Proc : pc'[q] \in {"write_log", "install", "write_head"} => pc'[q] = pc[q]
    BY <2>1, <1>T DEF goto, wakeup_log
  <2>3. UNCHANGED <<tail, lh, boot>>
    BY <1>7 DEF end_op
  <2>4. QED
    BY <2>2, <2>3, SameTail
<1>8. ASSUME NEW p \in Proc, commit(p) PROVE TailInv'
  <2>1. /\ pc[p] \in InCommit /\ tail' = 1 /\ lh' = lh /\ boot' = boot /\ boot = "up"
        /\ pc' = goto(p, IF Len(lh) > 0 THEN "write_log" ELSE "finish")
    BY <1>8 DEF commit, InCommit, Running
  <2>2. \A q \in Proc : pc'[q] \in {"write_log", "install", "write_head"} =>
                            q = p /\ pc'[p] = "write_log" /\ Len(lh) > 0
    BY <2>1, <1>U, <1>T DEF goto, InCommit
  <2>3. QED
    BY <2>1, <2>2, <1>T DEF TailInv
<1>9. ASSUME NEW p \in Proc, write_log(p) PROVE TailInv'
  <2>1. /\ pc[p] = "write_log" /\ lh' = lh /\ boot' = boot /\ boot = "up"
        /\ \/ tail < Len(lh) /\ tail' = tail + 1 /\ pc' = pc
           \/ tail' = 1 /\ pc' = goto(p, "write_head")
    BY <1>9 DEF write_log, Running
  <2>2. tail \in 1..Len(lh)
    BY <2>1 DEF TailInv
  <2>3. \A q \in Proc : pc'[q] \in {"write_log", "install", "write_head"} => q = p
    BY <2>1, <1>U, <1>T DEF goto, InCommit
  <2>4. QED
    BY <2>1, <2>2, <2>3, <1>T DEF TailInv, goto
<1>10. ASSUME NEW p \in Proc, write_head(p) PROVE TailInv'
  <2>1. /\ pc[p] = "write_head" /\ lh' = lh /\ tail' = tail
        /\ boot' = boot /\ boot = "up" /\ pc' = goto(p, "install")
    BY <1>10 DEF write_head, Running
  <2>2. tail = 1 /\ Len(lh) > 0
    BY <2>1 DEF TailInv
  <2>3. \A q \in Proc : pc'[q] \in {"write_log", "install", "write_head"} => q = p
    BY <2>1, <1>U, <1>T DEF goto, InCommit
  <2>4. QED
    BY <2>1, <2>2, <2>3, <1>T DEF TailInv, goto
<1>11. ASSUME NEW p \in Proc, install_trans(p) PROVE TailInv'
  <2>1. /\ pc[p] = "install" /\ lh' = lh /\ boot' = boot /\ boot = "up"
        /\ \/ tail < Len(lh) /\ tail' = tail + 1 /\ pc' = pc
           \/ tail' = 1 /\ pc' = goto(p, "erase")
    BY <1>11 DEF install_trans, Running
  <2>2. tail \in 1..Len(lh)
    BY <2>1 DEF TailInv
  <2>3. \A q \in Proc : pc'[q] \in {"write_log", "install", "write_head"} => q = p
    BY <2>1, <1>U, <1>T DEF goto, InCommit
  <2>4. QED
    BY <2>1, <2>2, <2>3, <1>T DEF TailInv, goto
<1>12. ASSUME NEW p \in Proc, erase_head(p) PROVE TailInv'
  <2>1. pc[p] = "erase" /\ boot' = boot /\ boot = "up" /\ pc' = goto(p, "finish")
    BY <1>12 DEF erase_head, Running
  <2>2. \A q \in Proc : pc'[q] \notin {"write_log", "install", "write_head"}
    BY <2>1, <1>U, <1>T DEF goto, InCommit
  <2>3. QED
    BY <2>1, <2>2 DEF TailInv
<1>13. ASSUME NEW p \in Proc, finish_commit(p) PROVE TailInv'
  <2>1. pc' = wakeup_log(goto(p, "idle")) /\ UNCHANGED <<tail, lh, boot>>
    BY <1>13 DEF finish_commit
  <2>2. \A q \in Proc : pc'[q] \in {"write_log", "install", "write_head"} => pc'[q] = pc[q]
    BY <2>1, <1>T DEF goto, wakeup_log
  <2>3. QED
    BY <2>1, <2>2, SameTail
<1>14. ASSUME NEW b \in Block, read_block(b) PROVE TailInv'
  BY <1>14, SameTail DEF read_block
<1>15. ASSUME NEW b \in Block, recycle(b) PROVE TailInv'
  BY <1>15, SameTail DEF recycle
<1>16. ASSUME crash PROVE TailInv'
  BY <1>16 DEF crash, TailInv
<1>17. ASSUME read_head PROVE TailInv'
  BY <1>17 DEF read_head, TailInv, ControlInv
<1>18. ASSUME recover_install PROVE TailInv'
  BY <1>18, <1>T DEF recover_install, TailInv, ControlInv
<1>19. ASSUME recover_erase PROVE TailInv'
  BY <1>19 DEF recover_erase, TailInv, ControlInv
<1>20. QED
  BY <1>1, <1>2, <1>3, <1>4, <1>5, <1>6, <1>7, <1>8, <1>9, <1>10, <1>11,
     <1>12, <1>13, <1>14, <1>15, <1>16, <1>17, <1>18, <1>19
     DEF Next, Step, Recover

----------------------------------------------------------------------------
(* Steps leave the log empty between groups.                               *)

LEMMA EmptyStep ==
  ASSUME SafeInv, Next
  PROVE  EmptyInv'
<1> USE DEF SafeInv, diskvars, cachevars, memvars
<1>T. pc \in [Proc -> PCs]
  BY DEF TypeOK
<1>M. ASSUME NEW p \in Proc, NEW l, l # "finish", UNCHANGED <<lh, boot, committing>>,
             pc' = pc \/ pc' = goto(p, l), pc[p] \in InOp => l \in InOp
      PROVE  EmptyInv'
  <2>1. \A q \in Proc : /\ pc'[q] = "finish" => pc[q] = "finish"
                        /\ pc[q] \in InOp => pc'[q] \in InOp
    BY <1>M, <1>T DEF goto
  <2>2. active' = {} => active = {}
    BY <2>1 DEF active
  <2>3. QED
    BY <1>M, <2>1, <2>2 DEF EmptyInv
<1>C. ASSUME NEW p \in Proc, pc[p] \in InOp
      PROVE  ~committing /\ \A q \in Proc : pc[q] # "finish"
  <2>1. ~committing
    BY <1>C DEF ControlInv, active
  <2>2. QED
    BY <2>1 DEF ControlInv, InCommit
<1>1. ASSUME NEW p \in Proc, begin_op(p) PROVE EmptyInv'
  BY <1>1, <1>M DEF begin_op, InOp
<1>2. ASSUME NEW p \in Proc, NEW b \in Block, bget(p, b) PROVE EmptyInv'
  BY <1>2, <1>M DEF bget, InOp
<1>3. ASSUME NEW p \in Proc, NEW v \in Value, modify(p, v) PROVE EmptyInv'
  BY <1>3, <1>M DEF modify, InOp
<1>4. ASSUME NEW p \in Proc, log_write_check(p) PROVE EmptyInv'
  BY <1>4, <1>M DEF log_write_check, InOp
<1>5. ASSUME NEW p \in Proc, log_write(p) PROVE EmptyInv'
  <2>1. pc[p] = "checked" /\ pc' = goto(p, "logged")
    BY <1>5 DEF log_write
  <2>2. \A q \in Proc : pc'[q] # "finish"
    BY <2>1, <1>C, <1>T DEF goto, InOp
  <2>3. p \in active'
    BY <2>1, <1>T DEF active, goto, InOp
  <2>4. QED
    BY <2>2, <2>3 DEF EmptyInv
<1>6. ASSUME NEW p \in Proc, brelse(p) PROVE EmptyInv'
  BY <1>6, <1>M DEF brelse, InOp
<1>7. ASSUME NEW p \in Proc, end_op(p) PROVE EmptyInv'
  <2>1. pc[p] = "op" /\ pc[p] \in InOp /\ p \in active
    BY <1>7 DEF end_op, InOp, active
  <2>2. ~committing /\ \A q \in Proc : pc[q] # "finish"
    BY <2>1, <1>C
  <2>3. \A q \in Proc : pc'[q] # "finish"
    BY <1>7, <2>2, <1>T DEF end_op, goto, wakeup_log
  <2>4. CASE outstanding' = 0
    <3>1. committing'
      BY <1>7, <2>2, <2>4 DEF end_op
    <3>2. QED
      BY <2>3, <3>1 DEF EmptyInv
  <2>5. CASE outstanding' # 0
    <3>1. active' # {}
      BY <2>5, <1>7, ControlStep, FS_EmptySet DEF ControlInv, Next
    <3>2. QED
      BY <2>3, <3>1 DEF EmptyInv
  <2>6. QED
    BY <2>4, <2>5
<1>8. ASSUME NEW p \in Proc, commit(p) PROVE EmptyInv'
  <2>1. /\ pc[p] \in InCommit /\ UNCHANGED <<lh, boot, committing>>
        /\ pc' = goto(p, IF Len(lh) > 0 THEN "write_log" ELSE "finish")
    BY <1>8 DEF commit, InCommit
  <2>2. committing'
    BY <2>1 DEF ControlInv
  <2>3. \A q \in Proc : pc'[q] = "finish" => Len(lh) = 0 \/ pc[q] = "finish"
    BY <2>1, <1>T DEF goto, TypeOK
  <2>4. Len(lh) = 0 => lh = <<>>
    BY DEF TypeOK
  <2>5. QED
    BY <2>1, <2>2, <2>3, <2>4 DEF EmptyInv
<1>9. ASSUME NEW p \in Proc, write_log(p) PROVE EmptyInv'
  BY <1>9, <1>M DEF write_log, InOp
<1>10. ASSUME NEW p \in Proc, write_head(p) PROVE EmptyInv'
  BY <1>10, <1>M DEF write_head, InOp
<1>11. ASSUME NEW p \in Proc, install_trans(p) PROVE EmptyInv'
  BY <1>11, <1>M DEF install_trans, InOp
<1>12. ASSUME NEW p \in Proc, erase_head(p) PROVE EmptyInv'
  BY <1>12 DEF erase_head, EraseHead, EmptyInv
<1>13. ASSUME NEW p \in Proc, finish_commit(p) PROVE EmptyInv'
  <2>1. lh = <<>> /\ lh' = lh
    BY <1>13 DEF finish_commit, EmptyInv
  <2>2. QED
    BY <2>1 DEF EmptyInv
<1>14. ASSUME NEW b \in Block, read_block(b) \/ recycle(b) PROVE EmptyInv'
  BY <1>14 DEF read_block, recycle, EmptyInv, active
<1>15. ASSUME crash PROVE EmptyInv'
  BY <1>15 DEF crash, EmptyInv
<1>16. ASSUME read_head PROVE EmptyInv'
  BY <1>16 DEF read_head, EmptyInv, ControlInv
<1>17. ASSUME recover_install PROVE EmptyInv'
  BY <1>17 DEF recover_install, EmptyInv, active
<1>18. ASSUME recover_erase PROVE EmptyInv'
  BY <1>18 DEF recover_erase, EraseHead, EmptyInv
<1>19. QED
  BY <1>1, <1>2, <1>3, <1>4, <1>5, <1>6, <1>7, <1>8, <1>9, <1>10, <1>11,
     <1>12, <1>13, <1>14, <1>15, <1>16, <1>17, <1>18
     DEF Next, Step, Recover

----------------------------------------------------------------------------
(* Steps keep the reservation.                                             *)

\* Fewer tokens need no more room.
LEMMA FewerTokens ==
  ASSUME NEW f, NEW w, TokensOf(f, w) \subseteq Tokens
  PROVE  Cardinality(TokensOf(f, w)) =< Cardinality(Tokens)
  BY TokensFinite, FS_Subset DEF Tokens

\* Steps that log nothing and start no system call.
LEMMA SameSpace ==
  ASSUME SpaceInv, TypeOK, UNCHANGED <<dhead, lh, wrote>>,
         \A q \in Proc : pc'[q] \in InOp => pc[q] \in InOp,
         \A q \in Proc : pc'[q] \in {"bget", "modified", "checked"} =>
            arg'[q] = arg[q] /\ pc[q] \in {"bget", "modified", "checked"}
  PROVE  SpaceInv'
<1>1. TokensOf(pc', wrote') \subseteq Tokens
  BY DEF Tokens, TokensOf
<1>2. Cardinality(Tokens') =< Cardinality(Tokens)
  BY <1>1, FewerTokens DEF Tokens
<1>3. Cardinality(Tokens) \in Nat /\ Cardinality(Tokens') \in Nat /\ Len(lh) \in Nat
  BY TokensFinite DEF Tokens, TypeOK
<1>4. Len(lh') + Cardinality(Tokens') =< LOGSIZE - 2
  BY <1>2, <1>3, LogConstants DEF SpaceInv
<1>5. Logged' = Logged
  BY DEF Logged
<1>6. QED
  BY <1>4, <1>5 DEF SpaceInv

LEMMA SpaceStep ==
  ASSUME SafeInv, Next
  PROVE  SpaceInv'
<1> USE DEF SafeInv, diskvars, cachevars, memvars
<1>T. /\ pc \in [Proc -> PCs] /\ arg \in [Proc -> Block]
      /\ wrote \in [Proc -> SUBSET Block]
  BY DEF TypeOK
<1>S. lh \in Seq(Block) /\ Len(lh) \in Nat /\ dhead \in Seq(Block)
  BY DEF TypeOK
<1>N. Cardinality(Tokens) \in Nat /\ Cardinality(Tokens') \in Nat
  BY TokensFinite DEF Tokens
<1>M. ASSUME NEW p \in Proc, NEW l,
             pc' = pc \/ pc' = goto(p, l) \/ pc' = wakeup_log(goto(p, l)),
             l \in InOp => pc[p] \in InOp,
             l \in {"bget", "modified", "checked"} =>
               pc[p] \in {"bget", "modified", "checked"},
             UNCHANGED <<dhead, lh, wrote, arg>>
      PROVE  SpaceInv'
  <2>1. \A q \in Proc : pc'[q] \in InOp => pc[q] \in InOp
    BY <1>M, <1>T DEF goto, wakeup_log, InOp
  <2>2. \A q \in Proc : pc'[q] \in {"bget", "modified", "checked"} =>
            pc[q] \in {"bget", "modified", "checked"}
    BY <1>M, <1>T DEF goto, wakeup_log
  <2>3. QED
    BY <1>M, <2>1, <2>2, SameSpace
<1>1. ASSUME NEW p \in Proc, begin_op(p) PROVE SpaceInv'
  <2>1. CASE MustWait
    BY <1>1, <2>1, <1>M DEF begin_op, InOp
  <2>2. CASE ~MustWait
    <3>1. /\ pc' = goto(p, "op") /\ wrote' = [wrote EXCEPT ![p] = {}]
          /\ UNCHANGED <<dhead, lh, arg>> /\ outstanding \in Nat
      BY <1>1, <2>2 DEF begin_op, TypeOK
    <3>2. Len(lh) + (outstanding + 1) * MAXOPBLOCKS =< LOGSIZE
      BY <2>2 DEF MustWait, HasSpace
    <3>3. /\ IsFiniteSet(active \cup {p})
          /\ Cardinality(active \cup {p}) =< outstanding + 1
      <4>1. Cardinality(active) \in Nat /\ IsFiniteSet(active)
        BY ActiveFinite
      <4>2. /\ IsFiniteSet(active \cup {p})
            /\ \/ Cardinality(active \cup {p}) = Cardinality(active)
               \/ Cardinality(active \cup {p}) = Cardinality(active) + 1
        BY <4>1, FS_AddElement
      <4>3. outstanding = Cardinality(active)
        BY DEF ControlInv
      <4>4. QED
        BY <4>1, <4>2, <4>3
    <3>4. Cardinality(TokensOf(pc', wrote')) =< Cardinality(active \cup {p}) * OPBLOCKS
      <4>1. {q \in Proc : pc'[q] \in InOp} \subseteq active \cup {p}
        BY <3>1, <1>T DEF active, goto
      <4>2. QED
        BY <3>3, <4>1, TokensBound
    <3>5. Len(lh') + Cardinality(Tokens') =< LOGSIZE - 2
      <4> DEFINE k == outstanding + 1
      <4>1. Cardinality(active \cup {p}) \in Nat /\ k \in Nat
        BY <3>1, <3>3, FS_CardinalityType
      <4>2. Cardinality(active \cup {p}) * OPBLOCKS =< k * OPBLOCKS
        BY <3>3, <4>1, MulMono, LogConstants
      <4>3. Cardinality(Tokens') =< k * OPBLOCKS
        <5>1. Cardinality(Tokens') =< Cardinality(active \cup {p}) * OPBLOCKS
          BY <3>4 DEF Tokens
        <5>2. k * OPBLOCKS \in Int /\ Cardinality(active \cup {p}) * OPBLOCKS \in Int
          BY <4>1, LogConstants
        <5>3. QED
          BY <4>2, <5>1, <5>2, <1>N
      <4>4. k * OPBLOCKS =< k * MAXOPBLOCKS - k
        BY <4>1, OneSpare, LogConstants
      <4>5. k * MAXOPBLOCKS \in Int /\ k * OPBLOCKS \in Int /\ Len(lh') = Len(lh)
        BY <3>1, <4>1, LogConstants
      <4>6. CASE outstanding = 0
        <5>1. active = {}
          BY <4>6, ActiveFinite, FS_EmptySet DEF ControlInv
        <5>2. Len(lh) = 0
          <6>1. boot = "up" /\ ~committing
            BY <1>1, <2>2 DEF begin_op, Running, MustWait
          <6>2. QED
            BY <5>1, <6>1 DEF EmptyInv
        <5>3. k * OPBLOCKS = OPBLOCKS
          BY <4>6, LogConstants
        <5>4. QED
          BY <5>2, <5>3, <4>3, <4>5, <1>N, LogConstants
      <4>7. CASE outstanding # 0
        <5>1. k >= 2
          BY <3>1, <4>7
        <5>2. QED
          BY <5>1, <3>2, <4>3, <4>4, <4>5, <4>1, <1>N, <1>S, TwoSpare, LogConstants
      <4>8. QED
        BY <4>6, <4>7
    <3>6. Logged' = Logged
      BY <3>1 DEF Logged
    <3>7. \A q \in Proc : pc'[q] \in InOp => (q = p /\ wrote'[q] = {})
                            \/ (pc[q] \in InOp /\ wrote'[q] = wrote[q])
      BY <3>1, <1>T DEF goto
    <3>8. IsFiniteSet({}) /\ Cardinality({}) = 0 /\ 0 =< OPBLOCKS
      BY FS_EmptySet, LogConstants
    <3>9. \A q \in Proc : pc'[q] \in {"bget", "modified", "checked"} =>
            /\ pc[q] \in {"bget", "modified", "checked"}
            /\ wrote'[q] = wrote[q] /\ arg'[q] = arg[q]
      BY <3>1, <1>T DEF goto
    <3>10. QED
      BY <3>1, <3>5, <3>6, <3>7, <3>8, <3>9 DEF SpaceInv
  <2>3. QED
    BY <2>1, <2>2
<1>2. ASSUME NEW p \in Proc, NEW b \in Block, bget(p, b) PROVE SpaceInv'
  <2>1. /\ pc' = goto(p, "bget") /\ pc[p] = "op"
        /\ arg' = [arg EXCEPT ![p] = b]
        /\ b \in wrote[p] \/ Cardinality(wrote[p]) < OPBLOCKS
        /\ UNCHANGED <<dhead, lh, wrote>>
    BY <1>2 DEF bget
  <2>2. \A q \in Proc : pc'[q] \in InOp <=> pc[q] \in InOp
    BY <2>1, <1>T DEF goto, InOp
  <2>3. Tokens' = Tokens /\ Logged' = Logged
    BY <2>1, <2>2 DEF Tokens, TokensOf, Logged
  <2>4. \A q \in Proc : pc'[q] \in {"bget", "modified", "checked"} =>
            \/ q = p /\ arg'[q] = b
            \/ pc[q] \in {"bget", "modified", "checked"} /\ arg'[q] = arg[q]
    BY <2>1, <1>T DEF goto
  <2>5. QED
    BY <2>1, <2>2, <2>3, <2>4 DEF SpaceInv
<1>3. ASSUME NEW p \in Proc, NEW v \in Value, modify(p, v) PROVE SpaceInv'
  BY <1>3, <1>M DEF modify, InOp
<1>4. ASSUME NEW p \in Proc, log_write_check(p) PROVE SpaceInv'
  BY <1>4, <1>M DEF log_write_check, InOp
<1>5. ASSUME NEW p \in Proc, log_write(p) PROVE SpaceInv'
  <2> DEFINE b == arg[p]
  <2> DEFINE n == Cardinality(wrote[p])
  <2>1. /\ pc' = goto(p, "logged") /\ pc[p] = "checked"
        /\ wrote' = [wrote EXCEPT ![p] = @ \cup {b}]
        /\ UNCHANGED <<dhead, arg>> /\ b \in Block
    BY <1>5, <1>T DEF log_write
  <2>2. /\ IsFiniteSet(wrote[p]) /\ n \in Nat /\ n =< OPBLOCKS
        /\ wrote[p] \subseteq Logged
        /\ b \in wrote[p] \/ n < OPBLOCKS
    BY <2>1, FS_CardinalityType DEF SpaceInv, InOp
  <2>3. /\ IsFiniteSet(wrote'[p])
        /\ Cardinality(wrote'[p]) = IF b \in wrote[p] THEN n ELSE n + 1
    BY <2>1, <2>2, <1>T, FS_AddElement
  <2>4. \A q \in Proc : pc'[q] \in InOp => pc[q] \in InOp
    BY <2>1, <1>T DEF goto, InOp
  <2>5. \A q \in Proc : q # p => wrote'[q] = wrote[q]
    BY <2>1, <1>T
  <2>6. \A q \in Proc : pc'[q] \in {"bget", "modified", "checked"} =>
            q # p /\ pc[q] \in {"bget", "modified", "checked"}
    BY <2>1, <1>T DEF goto
  <2>7. TokensOf(pc', wrote') \subseteq Tokens
    <3>1. \A q \in Proc : \A i \in Int : i > Cardinality(wrote'[q]) =>
              i > Cardinality(wrote[q]) \/ q \notin Proc
      BY <2>2, <2>3, <2>5
    <3>2. QED
      BY <3>1, <2>4 DEF Tokens, TokensOf
  <2>8. Logged \subseteq Logged' /\ b \in Logged'
        /\ Len(lh') + Cardinality(Tokens') =< LOGSIZE - 2
    <3>1. CASE b \in Logged
      <4>1. lh' = lh
        BY <1>5, <3>1 DEF log_write
      <4>2. Logged' = Logged
        BY <4>1 DEF Logged
      <4>3. Cardinality(Tokens') =< Cardinality(Tokens)
        BY <2>7, FewerTokens DEF Tokens
      <4>4. QED
        BY <3>1, <4>1, <4>2, <4>3, <1>N, <1>S, LogConstants DEF SpaceInv
    <3>2. CASE b \notin Logged
      <4>1. lh' = Append(lh, b)
        BY <1>5, <3>2 DEF log_write
      <4>2. /\ Len(lh') = Len(lh) + 1
            /\ \A i \in 1..Len(lh) : lh'[i] = lh[i]
            /\ lh'[Len(lh) + 1] = b
        BY <4>1, <1>S, <2>1
      <4>3. Logged \subseteq Logged' /\ b \in Logged'
        <5>1. 1..Len(lh) \subseteq 1..Len(lh') /\ Len(lh) + 1 \in 1..Len(lh')
          BY <4>2, <1>S
        <5>2. ASSUME NEW i \in 1..Len(lh) PROVE lh[i] \in Logged'
          <6>1. lh[i] = lh'[i] /\ i \in 1..Len(lh')
            BY <4>2, <5>1
          <6>2. QED
            BY <6>1 DEF Logged
        <5>3. b \in Logged'
          BY <4>2, <5>1 DEF Logged
        <5>4. QED
          BY <5>2, <5>3 DEF Logged
      <4>4. n < OPBLOCKS /\ Cardinality(wrote'[p]) = n + 1
        BY <2>2, <2>3, <3>2
      <4>5. <<p, n + 1>> \in Tokens
        BY <2>1, <2>2, <4>4, LogConstants DEF Tokens, TokensOf, InOp
      <4>6. <<p, n + 1>> \notin TokensOf(pc', wrote')
        BY <4>4, <2>2 DEF TokensOf
      <4>7. TokensOf(pc', wrote') \subseteq Tokens \ {<<p, n + 1>>}
        BY <2>7, <4>6
      <4>8. /\ IsFiniteSet(Tokens \ {<<p, n + 1>>})
            /\ Cardinality(Tokens \ {<<p, n + 1>>}) = Cardinality(Tokens) - 1
        BY <4>5, TokensFinite, FS_RemoveElement DEF Tokens
      <4>9. Cardinality(Tokens') =< Cardinality(Tokens) - 1
        BY <4>7, <4>8, FS_Subset DEF Tokens
      <4>10. QED
        BY <4>2, <4>3, <4>9, <1>N, <1>S, LogConstants DEF SpaceInv
    <3>3. QED
      BY <3>1, <3>2
  <2>9. Cardinality(wrote'[p]) =< OPBLOCKS
    BY <2>2, <2>3, LogConstants
  <2>10. wrote'[p] \subseteq Logged'
    BY <2>1, <2>2, <2>8, <1>T
  <2>11. QED
    BY <2>1, <2>3, <2>4, <2>5, <2>6, <2>8, <2>9, <2>10 DEF SpaceInv
<1>6. ASSUME NEW p \in Proc, brelse(p) PROVE SpaceInv'
  BY <1>6, <1>M DEF brelse, InOp
<1>7. ASSUME NEW p \in Proc, end_op(p) PROVE SpaceInv'
  BY <1>7, <1>M DEF end_op, InOp
<1>8. ASSUME NEW p \in Proc, commit(p) PROVE SpaceInv'
  BY <1>8, <1>M DEF commit, InOp
<1>9. ASSUME NEW p \in Proc, write_log(p) PROVE SpaceInv'
  BY <1>9, <1>M DEF write_log, InOp
<1>10. ASSUME NEW p \in Proc, write_head(p) PROVE SpaceInv'
  <2>1. /\ pc' = goto(p, "install") /\ dhead' = lh /\ lh' = lh
        /\ UNCHANGED <<arg, wrote>>
    BY <1>10 DEF write_head
  <2>2. \A q \in Proc : /\ pc'[q] \in InOp => pc[q] \in InOp
                        /\ pc'[q] \in {"bget", "modified", "checked"} =>
                              pc[q] \in {"bget", "modified", "checked"}
    BY <2>1, <1>T DEF goto, InOp
  <2>3. TokensOf(pc', wrote') \subseteq Tokens
    BY <2>1, <2>2 DEF Tokens, TokensOf
  <2>4. Cardinality(Tokens') =< Cardinality(Tokens)
    BY <2>3, FewerTokens DEF Tokens
  <2>5. Len(dhead') =< LOGSIZE - 2 /\ Len(lh') + Cardinality(Tokens') =< LOGSIZE - 2
    BY <2>1, <2>4, <1>N, <1>S, LogConstants DEF SpaceInv
  <2>6. Logged' = Logged
    BY <2>1 DEF Logged
  <2>7. QED
    BY <2>1, <2>2, <2>5, <2>6 DEF SpaceInv
<1>11. ASSUME NEW p \in Proc, install_trans(p) PROVE SpaceInv'
  BY <1>11, <1>M DEF install_trans, InOp
<1>E. ASSUME NEW h \in Seq(Block), lh' = h, Len(h) =< LOGSIZE - 2, Len(dhead') =< LOGSIZE - 2,
             \A q \in Proc : pc'[q] \notin InOp
      PROVE  SpaceInv'
  <2>1. Tokens' = {}
    BY <1>E DEF Tokens, TokensOf
  <2>2. Cardinality(Tokens') = 0
    BY <2>1, FS_EmptySet
  <2>3. \A q \in Proc : pc'[q] \notin {"bget", "modified", "checked"}
    BY <1>E DEF InOp
  <2>4. QED
    BY <1>E, <2>2, <2>3 DEF SpaceInv
<1>Z. <<>> \in Seq(Block) /\ Len(<<>>) =< LOGSIZE - 2
  BY LogConstants
<1>12. ASSUME NEW p \in Proc, erase_head(p) PROVE SpaceInv'
  <2>1. pc[p] = "erase" /\ pc' = goto(p, "finish") /\ lh' = <<>> /\ dhead' = <<>>
    BY <1>12 DEF erase_head, EraseHead
  <2>2. active = {}
    BY <2>1 DEF ControlInv, InCommit
  <2>3. \A q \in Proc : pc'[q] \notin InOp
    BY <2>1, <2>2, <1>T DEF goto, active, InOp
  <2>4. QED
    BY <2>1, <2>3, <1>E, <1>Z
<1>13. ASSUME NEW p \in Proc, finish_commit(p) PROVE SpaceInv'
  BY <1>13, <1>M DEF finish_commit, InOp
<1>14. ASSUME NEW b \in Block, read_block(b) PROVE SpaceInv'
  BY <1>14, SameSpace DEF read_block
<1>15. ASSUME NEW b \in Block, recycle(b) PROVE SpaceInv'
  BY <1>15, SameSpace DEF recycle
<1>16. ASSUME crash PROVE SpaceInv'
  <2>1. lh' = <<>> /\ dhead' = dhead /\ \A q \in Proc : pc'[q] \notin InOp
    BY <1>16 DEF crash, InOp
  <2>2. QED
    BY <2>1, <1>E, <1>Z DEF SpaceInv
<1>17. ASSUME read_head PROVE SpaceInv'
  <2>1. /\ lh' = dhead /\ dhead' = dhead /\ pc' = pc
        /\ \A q \in Proc : pc[q] = "idle"
    BY <1>17 DEF read_head, ControlInv
  <2>2. \A q \in Proc : pc'[q] \notin InOp
    BY <2>1 DEF InOp
  <2>3. QED
    BY <2>1, <2>2, <1>E, <1>S DEF SpaceInv
<1>18. ASSUME recover_install PROVE SpaceInv'
  BY <1>18, SameSpace DEF recover_install
<1>19. ASSUME recover_erase PROVE SpaceInv'
  <2>1. /\ lh' = <<>> /\ dhead' = <<>> /\ pc' = pc
        /\ \A q \in Proc : pc[q] = "idle"
    BY <1>19 DEF recover_erase, EraseHead, ControlInv
  <2>2. \A q \in Proc : pc'[q] \notin InOp
    BY <2>1 DEF InOp
  <2>3. QED
    BY <2>1, <2>2, <1>E, <1>Z
<1>20. QED
  BY <1>1, <1>2, <1>3, <1>4, <1>5, <1>6, <1>7, <1>8, <1>9, <1>10, <1>11,
     <1>12, <1>13, <1>14, <1>15, <1>16, <1>17, <1>18, <1>19
     DEF Next, Step, Recover

----------------------------------------------------------------------------
(* The theorems.                                                           *)

LEMMA SafeInvariant == Spec => []SafeInv
<1>1. Init => SafeInv
  BY InitSafe
<1>2. SafeInv /\ [Next]_vars => SafeInv'
  <2> SUFFICES ASSUME SafeInv, [Next]_vars PROVE SafeInv'
    OBVIOUS
  <2>1. CASE Next
    BY <2>1, TypeStep, ControlStep, TailStep, EmptyStep, SpaceStep DEF SafeInv
  <2>2. CASE UNCHANGED vars
    BY <2>2 DEF vars, SafeInv, TypeOK, ControlInv, TailInv, EmptyInv, SpaceInv, Tokens,
                TokensOf, active, Logged
  <2>3. QED
    BY <2>1, <2>2
<1>3. QED
  BY <1>1, <1>2, PTL DEF Spec

\* The variables of log.c keep their types: no index of the header or of the
\* log is ever out of range, and log.outstanding never goes below zero.
THEOREM TypeCorrect == Spec => []TypeOK
<1>1. SafeInv => TypeOK
  BY DEF SafeInv
<1>2. QED
  BY <1>1, SafeInvariant, PTL

\* log_write() never writes past log.lh.block[LOGSIZE - 1], nor commit() past
\* the end of the log on the disk, although log_write() tests log.lh.n before
\* it takes log.lock: begin_op() has reserved the room.
THEOREM LogNeverOverflows == Spec => []LogFits
<1>1. SafeInv => LogFits
  BY LenBound, LogConstants DEF SafeInv, LogFits
<1>2. QED
  BY <1>1, SafeInvariant, PTL

\* None of the panics of log.c is reachable, also where mkfs gave the log
\* nlog = LOGSIZE blocks and log_write() panics at LOGSIZE - 1: system calls
\* that log fewer blocks than they reserve never bring the log that far.
THEOREM NeverPanics == Spec => []NoPanic
<1> USE DEF diskvars, cachevars, memvars
<1>1. Init => NoPanic
  BY DEF Init, NoPanic
<1>2. SafeInv /\ NoPanic /\ [Next]_vars => NoPanic'
  <2> SUFFICES ASSUME SafeInv, NoPanic, Next PROVE NoPanic'
    BY DEF NoPanic, vars
  <2>1. ASSUME NEW p \in Proc, log_write_check(p) PROVE NoPanic'
    <3>1. pc[p] \in InOp
      BY <2>1 DEF log_write_check, InOp
    <3>2. ~TooBig
      <4>1. Len(lh) \in Nat /\ Len(lh) =< LOGSIZE - 2
        BY LenBound DEF SafeInv
      <4>2. QED
        BY <4>1, LogConstants DEF TooBig
    <3>3. outstanding >= 1
      <4>1. p \in active
        BY <3>1 DEF active
      <4>2. outstanding \in Nat /\ outstanding # 0
        BY <4>1, ActiveFinite, FS_EmptySet DEF SafeInv, ControlInv
      <4>3. QED
        BY <4>2
    <3>4. QED
      <4>1. ~(outstanding < 1)
        BY <3>3 DEF SafeInv, TypeOK
      <4>2. QED
        BY <2>1, <3>2, <4>1 DEF log_write_check, NoPanic
  <2>2. ASSUME NEW p \in Proc, end_op(p) PROVE NoPanic'
    <3>1. p \in active
      BY <2>2 DEF end_op, active, InOp
    <3>2. ~committing
      BY <3>1 DEF SafeInv, ControlInv
    <3>3. QED
      BY <2>2, <3>2 DEF end_op, NoPanic
  <2>3. ASSUME NEW p \in Proc,
               begin_op(p) \/ log_write(p) \/ brelse(p) \/ commit(p) \/ write_log(p)
               \/ write_head(p) \/ install_trans(p) \/ erase_head(p) \/ finish_commit(p)
        PROVE  NoPanic'
    BY <2>3 DEF begin_op, log_write, brelse, commit, write_log, write_head,
                install_trans, erase_head, finish_commit, NoPanic
  <2>4. ASSUME NEW p \in Proc, NEW b \in Block, bget(p, b) PROVE NoPanic'
    BY <2>4 DEF bget, NoPanic
  <2>5. ASSUME NEW p \in Proc, NEW v \in Value, modify(p, v) PROVE NoPanic'
    BY <2>5 DEF modify, NoPanic
  <2>6. ASSUME NEW b \in Block, read_block(b) \/ recycle(b) PROVE NoPanic'
    BY <2>6 DEF read_block, recycle, NoPanic
  <2>7. ASSUME Recover \/ crash PROVE NoPanic'
    BY <2>7 DEF Recover, read_head, recover_install, recover_erase, crash, NoPanic
  <2>8. QED
    BY <2>1, <2>2, <2>3, <2>4, <2>5, <2>6, <2>7 DEF Next, Step
<1>3. QED
  BY <1>1, <1>2, SafeInvariant, PTL DEF Spec

-----------------------------------------------------------------------------
(* Contents *)

\* Division with remainder.
LEMMA DivMod ==
  ASSUME NEW a \in Int, NEW m \in Nat \ {0}
  PROVE  \E q \in Int, r \in 0..(m - 1) : a = m * q + r /\ a % m = r
<1> DEFINE Q == a \div m
           R == a % m
<1>1. R \in 0..(m - 1) /\ Q \in Int /\ a = m * Q + R
  OBVIOUS
<1> HIDE DEF Q, R
<1>2. \E q \in Int, r \in 0..(m - 1) : a = m * q + r /\ R = r
  BY <1>1
<1>3. QED
  BY <1>2 DEF R

\* The remainder is unique.
LEMMA ModUnique ==
  ASSUME NEW m \in Nat \ {0}, NEW q \in Int, NEW r \in 0..(m - 1)
  PROVE  (m * q + r) % m = r
OBVIOUS

\* A sum of uint additions is reduced once.
LEMMA PlusPlus ==
  ASSUME NEW n \in Int, NEW k \in Int, NEW j \in Int
  PROVE  Plus(Plus(n, k), j) = Plus(n + j, k)
<1> USE RefModPositive
<1>m. RefMod \in Nat \ {0} /\ n + k \in Int
  OBVIOUS
<1>1. PICK q \in Int, r \in 0..(RefMod - 1) : n + k = RefMod * q + r /\ (n + k) % RefMod = r
  BY <1>m, DivMod, Zenon
<1>j. r + j \in Int
  BY <1>1
<1>2. PICK t \in Int, s \in 0..(RefMod - 1) : r + j = RefMod * t + s /\ (r + j) % RefMod = s
  BY <1>m, <1>j, DivMod, Zenon
<1>3. n + j + k = RefMod * (q + t) + s
  BY <1>1, <1>2
<1>4. (RefMod * (q + t) + s) % RefMod = s
  <2>1. q + t \in Int
    BY <1>1, <1>2
  <2>2. QED
    BY <1>m, <1>2, <2>1, ModUnique, Zenon
<1>5. QED
  BY <1>1, <1>2, <1>3, <1>4 DEF Plus

\* A count below 2^32 is not reduced.
LEMMA PlusZero ==
  ASSUME NEW n \in 0..(RefMod - 1)
  PROVE  Plus(n, 0) = n
<1>1. n = RefMod * 0 + n /\ n + 0 = n
  BY RefModPositive
<1>2. QED
  BY <1>1, RefModPositive, ModUnique DEF Plus

\* bread() and brelse() leave the count alone ...
LEMMA PlusBack ==
  ASSUME NEW n \in 0..(RefMod - 1)
  PROVE  Plus(Plus(n, 1), -1) = n
<1>1. n \in Int /\ 1 \in Int /\ -1 \in Int
  BY RefModPositive
<1>2. Plus(Plus(n, 1), -1) = Plus(n + (-1), 1)
  BY <1>1, PlusPlus, Zenon
<1>3. Plus(n + (-1), 1) = Plus(n, 0)
  BY <1>1 DEF Plus
<1>4. QED
  BY <1>2, <1>3, PlusZero

\* ... and with bunpin() between them take one off.
LEMMA PlusUnpin ==
  ASSUME NEW n \in Int
  PROVE  Plus(Plus(n, 1), -2) = Plus(n, -1)
<1>1. n \in Int /\ 1 \in Int /\ -2 \in Int
  OBVIOUS
<1>2. Plus(Plus(n, 1), -2) = Plus(n + (-2), 1)
  BY <1>1, PlusPlus, Zenon
<1>3. n + (-2) + 1 = n + (-1)
  OBVIOUS
<1>4. QED
  BY <1>2, <1>3 DEF Plus

\* What a reader of b sees depends on the buffer and the disk only.
LEMMA SameContent ==
  ASSUME NEW b, bufdata'[b] = bufdata[b], disk'[b] = disk[b]
  PROVE  Content(b)' = Content(b)
BY DEF Content

\* The users of a block and the references they and the pin account for.
Count(b) == Cardinality(Users(b)) + (IF b \in Pinned THEN 1 ELSE 0)
\* One less for a buffer that recovery unpinned.
Leak(b) == IF b \in leaked THEN -1 ELSE 0

\* A buffer has at most as many users as there are processes.
LEMMA UsersFinite ==
  ASSUME NEW b
  PROVE  /\ IsFiniteSet(Users(b))
         /\ Cardinality(Users(b)) \in Nat
         /\ Cardinality(Users(b)) =< Cardinality(Proc)
<1>1. Users(b) \in SUBSET Proc
  BY DEF Users
<1>2. QED
  BY <1>1, FS_Subset, FS_CardinalityType, LogConstants

\* The count is zero just for a buffer that is not in use.
LEMMA CountType ==
  ASSUME NEW b
  PROVE  /\ Count(b) \in Nat
         /\ Count(b) =< Cardinality(Proc) + 1
         /\ Count(b) = 0 <=> ~InUse(b)
         /\ Leak(b) \in Int
<1>1. Cardinality(Users(b)) = 0 <=> Users(b) = {}
  BY UsersFinite, FS_EmptySet
<1>2. Cardinality(Proc) \in Nat
  BY FS_CardinalityType, LogConstants
<1>3. QED
  BY <1>1, <1>2, UsersFinite DEF Count, Leak, InUse

\* RefcntExact in these terms.
LEMMA RefcntCounts ==
  RefcntExact <=> (~stolen => \A b \in Block : bufdata[b] # NotCached =>
                                refcnt[b] = Plus(Count(b), Leak(b)))
BY DEF RefcntExact, Count, Leak

\* Which blocks are pinned, by where the committing process is.
LEMMA PinnedAll ==
  ASSUME boot = "up", \A q \in Proc : pc[q] \notin {"install", "erase"}
  PROVE  Pinned = Logged
<1>1. Installed = 0
  BY DEF Installed
<1>2. QED
  BY <1>1 DEF Pinned, Logged

\* ... in install_trans(), what is not installed yet;
LEMMA PinnedRest ==
  ASSUME SafeInv, NEW p \in Proc, pc[p] = "install"
  PROVE  Pinned = {lh[i] : i \in tail..Len(lh)}
<1>1. boot = "up" /\ \A q \in Proc : pc[q] # "erase"
  BY DEF SafeInv, ControlInv, InCommit
<1>2. Installed = tail - 1 /\ tail \in Nat
  BY <1>1 DEF Installed, SafeInv, TypeOK
<1>3. Installed + 1 = tail
  BY <1>2
<1>4. QED
  BY <1>1, <1>3 DEF Pinned

\* ... nothing once all is installed, or in recovery.
LEMMA PinnedNone ==
  ASSUME TypeOK, boot # "up" \/ \E p \in Proc : pc[p] = "erase"
  PROVE  Pinned = {}
<1>1. CASE boot # "up"
  BY <1>1 DEF Pinned
<1>2. CASE \E p \in Proc : pc[p] = "erase"
  <2>1. Installed = Len(lh) /\ Len(lh) \in Nat
    BY <1>2 DEF Installed, TypeOK
  <2>2. QED
    BY <2>1 DEF Pinned
<1>3. QED
  BY <1>1, <1>2

\* A step that moves nobody into or out of install_trans() keeps the pins ...
LEMMA PinnedSame ==
  ASSUME UNCHANGED <<lh, tail, boot>>,
         \A q \in Proc : /\ pc'[q] = "install" <=> pc[q] = "install"
                         /\ pc'[q] = "erase" <=> pc[q] = "erase"
  PROVE  Pinned' = Pinned
<1>1. Installed' = Installed
  BY DEF Installed
<1>2. QED
  BY <1>1 DEF Pinned

\* ... and one that moves nobody into bget() or out of brelse() the users,
LEMMA UsersSame ==
  ASSUME UNCHANGED arg,
         \A q \in Proc : pc'[q] \in UsesBuffer <=> pc[q] \in UsesBuffer
  PROVE  \A b : Users(b)' = Users(b)
BY DEF Users

\* and with both the count is the same.
LEMMA CountSame ==
  ASSUME NEW b, Users(b)' = Users(b), (b \in Pinned)' <=> b \in Pinned
  PROVE  /\ Count(b)' = Count(b)
         /\ InUse(b)' <=> InUse(b)
BY DEF Count, InUse

\* Who commits, commits alone.
LEMMA Alone ==
  ASSUME SafeInv, NEW p \in Proc, pc[p] \in InCommit
  PROVE  /\ boot = "up" /\ committing /\ active = {}
         /\ \A q \in Proc : pc[q] \notin InOp /\ (pc[q] \in InCommit => q = p)
         /\ \A b : Users(b) = {}
<1>1. boot = "up" /\ committing /\ active = {}
  BY DEF SafeInv, ControlInv, InCommit
<1>2. \A q \in Proc : pc[q] \notin InOp /\ (pc[q] \in InCommit => q = p)
  BY <1>1 DEF SafeInv, ControlInv, active
<1>3. QED
  BY <1>1, <1>2 DEF Users, UsesBuffer, InOp

\* A process inside a transaction keeps the others from committing.
LEMMA NoCommit ==
  ASSUME SafeInv, NEW p \in Proc, pc[p] \in InOp
  PROVE  /\ boot = "up" /\ ~committing
         /\ \A q \in Proc : pc[q] \notin InCommit
         /\ Pinned = Logged
<1>1. boot = "up" /\ ~committing
  BY DEF SafeInv, ControlInv, active, InOp
<1>2. \A q \in Proc : pc[q] \notin InCommit
  BY <1>1 DEF SafeInv, ControlInv
<1>3. QED
  BY <1>1, <1>2, PinnedAll DEF InCommit

----------------------------------------------------------------------------
(* Every step keeps the invariant.                                         *)

\* A step that moves a process neither into nor out of the code that touches
\* buffers or the disk.
LEMMA QuietStep ==
  ASSUME SafeInv, AtomInv, UNCHANGED <<diskvars, cachevars, lh, tail, boot, arg>>,
         \A q \in Proc : pc'[q] # pc[q] =>
           /\ pc[q] \notin {"write_log", "write_head", "install", "erase", "bget", "logged"}
           /\ pc'[q] \notin {"write_log", "write_head", "install", "erase", "bget", "logged"}
           /\ pc[q] \in {"modified", "checked"} <=> pc'[q] \in {"modified", "checked"}
  PROVE  AtomInv'
<1> USE DEF AtomInv, diskvars, cachevars
<1>1. Pinned' = Pinned
  BY PinnedSame
<1>2. \A b : Users(b)' = Users(b)
  <2>1. \A q \in Proc : pc'[q] \in UsesBuffer <=> pc[q] \in UsesBuffer
    BY DEF UsesBuffer
  <2>2. QED
    BY <2>1, UsersSame
<1>3. \A b : Content(b)' = Content(b)
  BY DEF Content
<1>4. HeaderInv'
  BY DEF HeaderInv
<1>5. CopyInv'
  BY <1>3 DEF CopyInv
<1>6. CleanInv'
  BY <1>1, <1>3 DEF CleanInv, Unsaved
<1>7. CacheInv'
  BY <1>1, <1>2 DEF CacheInv, InUse
<1>8. RefcntExact'
  BY <1>1, <1>2 DEF RefcntExact
<1>9. QED
  BY <1>4, <1>5, <1>6, <1>7, <1>8

\* begin_op() admits a system call or puts it to sleep.
LEMMA BeginStep ==
  ASSUME SafeInv, AtomInv, NEW p \in Proc, begin_op(p)
  PROVE  AtomInv'
<1>1. pc \in [Proc -> PCs]
  BY DEF SafeInv, TypeOK
<1>2. \A q \in Proc : pc'[q] # pc[q] =>
        pc[q] \in {"idle", "begin"} /\ pc'[q] \in {"asleep", "op"}
  BY <1>1 DEF begin_op, goto
<1>3. active' = {} => active = {}
  BY <1>2 DEF active, InOp
<1>4. QED
  BY <1>2, <1>3, QuietStep DEF begin_op, diskvars, cachevars, AtomInv, HeaderInv

\* log_write() before it takes log.lock.
LEMMA CheckStep ==
  ASSUME SafeInv, AtomInv, NEW p \in Proc, log_write_check(p)
  PROVE  AtomInv'
<1>1. pc \in [Proc -> PCs]
  BY DEF SafeInv, TypeOK
<1>2. \A q \in Proc : pc'[q] # pc[q] => pc[q] = "modified" /\ pc'[q] = "checked"
  BY <1>1 DEF log_write_check, goto
<1>3. p \in active'
  BY <1>1, <1>2 DEF active, InOp, log_write_check
<1>4. QED
  BY <1>2, <1>3, QuietStep
     DEF log_write_check, diskvars, cachevars, AtomInv, HeaderInv

\* end_op(): the last call out starts the commit.
LEMMA EndStep ==
  ASSUME SafeInv, AtomInv, NEW p \in Proc, end_op(p)
  PROVE  AtomInv'
<1>1. pc \in [Proc -> PCs] /\ outstanding \in Nat
  BY DEF SafeInv, TypeOK
<1>2. ~committing /\ p \in active /\ pc[p] = "op" /\ boot = "up"
  BY NoCommit DEF end_op, InOp, active
<1>3. \A q \in Proc : pc'[q] # pc[q] =>
        pc[q] \in {"op", "asleep"} /\ pc'[q] \in {"idle", "begin", "commit"}
  BY <1>1, <1>2 DEF end_op, goto, wakeup_log
<1>4. active' = active \ {p}
  BY <1>1, <1>2 DEF end_op, goto, wakeup_log, active, InOp
<1>5. active' = {} => committing'
  <2>1. active' = {} => Cardinality(active) = 1
    <3>1. ASSUME active' = {} PROVE active = {p}
      BY <1>2, <1>4, <3>1
    <3>2. QED
      BY <3>1, FS_Singleton
  <2>2. active' = {} => outstanding' = 0
    BY <1>1, <2>1 DEF end_op, SafeInv, ControlInv
  <2>3. QED
    BY <1>2, <2>2 DEF end_op
<1>6. QED
  BY <1>3, <1>5, QuietStep DEF end_op, diskvars, cachevars, AtomInv, HeaderInv

\* The end of the commit: the header in memory is empty.
LEMMA FinishStep ==
  ASSUME SafeInv, AtomInv, NEW p \in Proc, finish_commit(p)
  PROVE  AtomInv'
<1>1. pc \in [Proc -> PCs]
  BY DEF SafeInv, TypeOK
<1>2. \A q \in Proc : pc'[q] # pc[q] =>
        pc[q] \in {"finish", "asleep"} /\ pc'[q] \in {"idle", "begin"}
  BY <1>1 DEF finish_commit, goto, wakeup_log
<1>3. lh = <<>>
  BY DEF finish_commit, SafeInv, EmptyInv
<1>4. QED
  BY <1>2, <1>3, QuietStep DEF finish_commit, diskvars, cachevars

\* commit() starts write_log() at the first block.
LEMMA CommitStep ==
  ASSUME SafeInv, AtomInv, NEW p \in Proc, commit(p)
  PROVE  AtomInv'
<1> USE DEF AtomInv, diskvars, cachevars
<1>1. pc \in [Proc -> PCs] /\ lh \in Seq(Block)
  BY DEF SafeInv, TypeOK
<1>2. /\ boot = "up" /\ committing
      /\ \A q \in Proc : pc[q] \notin InOp /\ (pc[q] \in InCommit => q = p)
      /\ \A b : Users(b) = {}
  BY Alone DEF commit, InCommit
<1>3. \A q \in Proc : /\ pc[q] \notin {"write_log", "write_head", "install", "erase", "finish"}
                      /\ pc'[q] \notin InOp \cup {"write_head", "install", "erase"}
                      /\ pc'[q] = "finish" => Len(lh) = 0
  BY <1>1, <1>2 DEF commit, goto, InOp, InCommit
<1>4. Pinned = Logged
  BY <1>2, <1>3, PinnedAll
<1>5. Pinned' = Logged
  <2>1. Installed' = 0 /\ boot' = "up" /\ lh' = lh
    BY <1>2, <1>3 DEF Installed, commit
  <2>2. QED
    BY <2>1 DEF Pinned, Logged
<1>6. \A b : Users(b)' = {}
  BY <1>3 DEF Users, UsesBuffer, InOp
<1>7. HeaderInv'
  BY <1>1, <1>2, <1>3 DEF HeaderInv, commit
<1>8. CopyInv'
  BY <1>2, <1>3 DEF CopyInv, Content, commit
<1>9. CleanInv'
  BY <1>2, <1>3, <1>4, <1>5 DEF CleanInv, Unsaved, Content, commit, InOp
<1>10. CacheInv'
  BY <1>2, <1>4, <1>5, <1>6 DEF CacheInv, InUse, commit
<1>11. RefcntExact'
  BY <1>2, <1>4, <1>5, <1>6 DEF RefcntExact, commit
<1>12. QED
  BY <1>7, <1>8, <1>9, <1>10, <1>11

\* bget() takes one reference to a buffer that is in the cache, or becomes the
\* first user of one that is not.
LEMMA BgetStep ==
  ASSUME SafeInv, AtomInv, NEW p \in Proc, NEW b \in Block, bget(p, b)
  PROVE  AtomInv'
<1> USE DEF AtomInv, diskvars, cachevars
<1>1. /\ pc \in [Proc -> PCs] /\ arg \in [Proc -> Block]
      /\ bufdata \in [Block -> Value \cup {NotCached, Invalid}]
      /\ refcnt \in [Block -> 0..(RefMod - 1)]
  BY DEF SafeInv, TypeOK
<1>2. ~stolen /\ boot = "up" /\ pc[p] = "op" /\ UNCHANGED <<stolen, boot>>
  BY DEF bget, Running
<1>3. ~committing /\ \A q \in Proc : pc[q] \notin InCommit
  BY <1>2, NoCommit DEF InOp
<1>4. pc' = [pc EXCEPT ![p] = "bget"] /\ arg' = [arg EXCEPT ![p] = b]
  BY DEF bget, goto
<1>5. Pinned' = Pinned
  BY <1>1, <1>2, <1>4, PinnedSame DEF bget
<1>6. /\ p \notin Users(b) /\ Users(b)' = Users(b) \cup {p}
      /\ \A c : c # b => Users(c)' = Users(c)
  BY <1>1, <1>2, <1>4 DEF Users, UsesBuffer
<1>7. \A c \in Block : Content(c)' = Content(c)
  BY <1>1, LogConstants DEF Content, bget
<1>8. active' = active
  BY <1>1, <1>2, <1>4 DEF active, InOp
<1>9. HeaderInv'
  BY <1>1, <1>2, <1>3, <1>4, <1>8 DEF HeaderInv, bget, InCommit
<1>10. CopyInv'
  BY <1>1, <1>2, <1>3, <1>4 DEF CopyInv, bget, InCommit
<1>11. CleanInv'
  BY <1>1, <1>2, <1>4, <1>5, <1>7 DEF CleanInv, Unsaved, bget
<1>12. CacheInv'
  BY <1>1, <1>2, <1>5, <1>6, LogConstants DEF CacheInv, InUse, bget
<1>13. RefcntExact'
  <2> SUFFICES ASSUME NEW c \in Block, bufdata'[c] # NotCached
               PROVE  refcnt'[c] = Plus(Count(c), Leak(c))'
    BY DEF RefcntExact, Count, Leak
  <2>1. Leak(c)' = Leak(c)
    BY DEF Leak, bget
  <2>2. CASE c # b
    <3>1. Count(c)' = Count(c)
      BY <1>5, <1>6, <2>2, CountSame
    <3>2. refcnt'[c] = refcnt[c] /\ bufdata'[c] = bufdata[c]
      BY <1>1, <2>2 DEF bget
    <3>3. QED
      BY <1>2, <2>1, <3>1, <3>2, RefcntCounts DEF Plus
  <2>3. CASE c = b
    <3>1. Cardinality(Users(b)') = Cardinality(Users(b)) + 1
      BY <1>6, UsersFinite, FS_AddElement
    <3>2. Count(b)' = Count(b) + 1
      BY <1>5, <3>1, UsersFinite DEF Count
    <3>3. CASE bufdata[b] = NotCached
      <4>1. Count(b) = 0 /\ Leak(b) = 0
        BY <1>2, <3>3, CountType DEF CacheInv, Leak
      <4>2. Plus(1, 0) = 1
        BY PlusZero, RefModPositive
      <4>3. QED
        BY <1>1, <2>1, <2>3, <3>2, <3>3, <4>1, <4>2 DEF bget, Plus
    <3>4. CASE bufdata[b] # NotCached
      <4>1. refcnt'[b] = Plus(Plus(Count(b), Leak(b)), 1)
        BY <1>1, <1>2, <3>4, RefcntCounts DEF bget
      <4>2. Plus(Plus(Count(b), Leak(b)), 1) = Plus(Count(b) + 1, Leak(b))
        BY PlusPlus, CountType
      <4>3. QED
        BY <2>1, <2>3, <3>2, <4>1, <4>2 DEF Plus
    <3>5. QED
      BY <3>3, <3>4
  <2>4. QED
    BY <2>2, <2>3
<1>14. QED
  BY <1>9, <1>10, <1>11, <1>12, <1>13

\* The caller's change of b->data, under the buffer's lock.
LEMMA ModifyStep ==
  ASSUME SafeInv, AtomInv, NEW p \in Proc, NEW v \in Value, modify(p, v)
  PROVE  AtomInv'
<1> USE DEF AtomInv, diskvars, cachevars
<1>1. /\ pc \in [Proc -> PCs] /\ arg \in [Proc -> Block]
      /\ bufdata \in [Block -> Value \cup {NotCached, Invalid}]
  BY DEF SafeInv, TypeOK
<1>2. ~stolen /\ boot = "up" /\ pc[p] = "bget" /\ UNCHANGED <<stolen, boot>>
  BY DEF modify, Running
<1>3. ~committing /\ \A q \in Proc : pc[q] \notin InCommit
  BY <1>2, NoCommit DEF InOp
<1>4. pc' = [pc EXCEPT ![p] = "modified"] /\ arg' = arg /\ arg[p] \in Block
  BY <1>1 DEF modify, goto
<1>5. Pinned' = Pinned
  BY <1>1, <1>2, <1>4, PinnedSame DEF modify
<1>6. \A c : Users(c)' = Users(c)
  BY <1>1, <1>2, <1>4, UsersSame DEF UsesBuffer
<1>7. \A c \in Block : c # arg[p] => Content(c)' = Content(c)
  BY <1>1 DEF Content, modify
<1>8. active' = active
  BY <1>1, <1>2, <1>4 DEF active, InOp
<1>9. HeaderInv'
  BY <1>1, <1>2, <1>3, <1>4, <1>8 DEF HeaderInv, modify, InCommit
<1>10. CopyInv'
  BY <1>1, <1>2, <1>3, <1>4 DEF CopyInv, modify, InCommit
<1>11. CleanInv'
  <2> SUFFICES ASSUME NEW c \in Block PROVE Unsaved(c)' \/ Content(c)' = disk'[c]
    BY DEF CleanInv
  <2>1. CASE c = arg[p]
    BY <1>1, <1>4, <2>1 DEF Unsaved
  <2>2. CASE c # arg[p]
    BY <1>1, <1>2, <1>4, <1>5, <1>7, <2>2 DEF CleanInv, Unsaved, modify
  <2>3. QED
    BY <2>1, <2>2
<1>12. bufdata[arg[p]] # NotCached
  BY <1>1, <1>2, <1>4 DEF CacheInv, InUse, Users, UsesBuffer
<1>13. CacheInv'
  BY <1>1, <1>2, <1>5, <1>6, LogConstants DEF CacheInv, InUse, modify
<1>14. RefcntExact'
  BY <1>1, <1>2, <1>4, <1>5, <1>6, <1>12 DEF RefcntExact, modify
<1>15. QED
  BY <1>9, <1>10, <1>11, <1>13, <1>14

\* log_write() under log.lock: the block is in the header, with one pin.
LEMMA LogWriteStep ==
  ASSUME SafeInv, AtomInv, NEW p \in Proc, log_write(p)
  PROVE  AtomInv'
<1> USE DEF AtomInv, diskvars, cachevars
<1>0. PICK b \in Block : b = arg[p]
  BY DEF SafeInv, TypeOK
<1> USE <1>0
<1>1. /\ pc \in [Proc -> PCs] /\ arg \in [Proc -> Block] /\ lh \in Seq(Block)
      /\ refcnt \in [Block -> 0..(RefMod - 1)] /\ b \in Block
  BY DEF SafeInv, TypeOK
<1>2. ~stolen /\ boot = "up" /\ pc[p] = "checked" /\ UNCHANGED <<stolen, boot>>
  BY DEF log_write, Running
<1>3. ~committing /\ Pinned = Logged /\ \A q \in Proc : pc[q] \notin InCommit
  BY <1>2, NoCommit DEF InOp
<1>4. pc' = [pc EXCEPT ![p] = "logged"] /\ arg' = arg
  BY DEF log_write, goto
<1>5. \A q \in Proc : pc'[q] \notin InCommit
  BY <1>1, <1>3, <1>4 DEF InCommit
<1>6. Logged' = Logged \cup {b}
  <2>1. CASE b \in Logged
    BY <2>1 DEF log_write, Logged
  <2>2. CASE b \notin Logged
    <3>1. /\ Len(lh') = Len(lh) + 1 /\ Len(lh) \in Nat /\ lh'[Len(lh) + 1] = b
          /\ \A i \in 1..Len(lh) : lh'[i] = lh[i]
      BY <1>1, <2>2 DEF log_write
    <3>2. 1..Len(lh') = 1..Len(lh) \cup {Len(lh) + 1}
      BY <3>1
    <3>3. QED
      BY <3>1, <3>2 DEF Logged
  <2>3. QED
    BY <2>1, <2>2
<1>7. Pinned' = Logged'
  <2>1. Installed' = 0 /\ boot' = "up"
    BY <1>2, <1>5 DEF Installed, InCommit
  <2>2. QED
    BY <2>1 DEF Pinned, Logged
<1>8. \A c : Users(c)' = Users(c)
  BY <1>1, <1>2, <1>4, UsersSame DEF UsesBuffer
<1>9. \A c \in Block : Content(c)' = Content(c)
  BY DEF Content, log_write
<1>10. p \in active'
  BY <1>1, <1>4 DEF active, InOp
<1>11. \A i, j \in 1..Len(lh') : lh'[i] = lh'[j] => i = j
  <2>1. CASE b \in Logged
    BY <2>1 DEF log_write, HeaderInv
  <2>2. CASE b \notin Logged
    <3>1. /\ Len(lh') = Len(lh) + 1 /\ Len(lh) \in Nat /\ lh'[Len(lh) + 1] = b
          /\ \A i \in 1..Len(lh) : lh'[i] = lh[i]
      BY <1>1, <2>2 DEF log_write
    <3>2. \A i \in 1..Len(lh) : lh'[i] # b
      BY <2>2, <3>1 DEF Logged
    <3>3. QED
      BY <3>1, <3>2 DEF HeaderInv
  <2>3. QED
    BY <2>1, <2>2
<1>12. dhead = <<>>
  BY <1>2, <1>3 DEF HeaderInv, InCommit
<1>13. HeaderInv'
  BY <1>1, <1>2, <1>5, <1>10, <1>11, <1>12 DEF HeaderInv, log_write, InCommit
<1>14. CopyInv'
  BY <1>1, <1>2, <1>5 DEF CopyInv, log_write, InCommit
<1>15. CleanInv'
  BY <1>1, <1>2, <1>3, <1>4, <1>6, <1>7, <1>9 DEF CleanInv, Unsaved, log_write
<1>16. bufdata[b] # NotCached
  BY <1>1, <1>2 DEF CacheInv, InUse, Users, UsesBuffer
<1>17. CacheInv'
  BY <1>1, <1>2, <1>3, <1>6, <1>7, <1>8, <1>16 DEF CacheInv, InUse, log_write
<1>18. RefcntExact'
  <2> SUFFICES ASSUME NEW c \in Block, bufdata'[c] # NotCached
               PROVE  refcnt'[c] = Plus(Count(c), Leak(c))'
    BY DEF RefcntExact, Count, Leak
  <2>1. Leak(c)' = Leak(c) /\ refcnt[c] = Plus(Count(c), Leak(c))
    BY <1>2, RefcntCounts DEF Leak, log_write
  <2>2. CASE c # b \/ b \in Logged
    <3>1. Count(c)' = Count(c)
      BY <1>3, <1>6, <1>7, <1>8, <2>2, CountSame
    <3>2. refcnt'[c] = refcnt[c]
      BY <1>1, <2>2 DEF log_write, bpin
    <3>3. QED
      BY <2>1, <3>1, <3>2 DEF Plus
  <2>3. CASE c = b /\ b \notin Logged
    <3>1. Count(b)' = Count(b) + 1
      BY <1>3, <1>6, <1>7, <1>8, <2>3, UsersFinite DEF Count
    <3>2. refcnt'[b] = Plus(Plus(Count(b), Leak(b)), 1)
      BY <1>1, <2>1, <2>3 DEF log_write, bpin
    <3>3. Plus(Plus(Count(b), Leak(b)), 1) = Plus(Count(b) + 1, Leak(b))
      BY PlusPlus, CountType
    <3>4. QED
      BY <2>1, <2>3, <3>1, <3>2, <3>3 DEF Plus
  <2>4. QED
    BY <2>2, <2>3
<1>19. QED
  BY <1>13, <1>14, <1>15, <1>17, <1>18

\* brelse() gives back the reference bget() took.
LEMMA BrelseStep ==
  ASSUME SafeInv, AtomInv, NEW p \in Proc, brelse(p)
  PROVE  AtomInv'
<1> USE DEF AtomInv, diskvars, cachevars
<1>0. PICK b \in Block : b = arg[p]
  BY DEF SafeInv, TypeOK
<1> USE <1>0
<1>1. /\ pc \in [Proc -> PCs] /\ arg \in [Proc -> Block]
      /\ refcnt \in [Block -> 0..(RefMod - 1)] /\ b \in Block
  BY DEF SafeInv, TypeOK
<1>2. ~stolen /\ boot = "up" /\ pc[p] = "logged" /\ UNCHANGED <<stolen, boot>>
  BY DEF brelse, Running
<1>3. ~committing /\ \A q \in Proc : pc[q] \notin InCommit
  BY <1>2, NoCommit DEF InOp
<1>4. pc' = [pc EXCEPT ![p] = "op"] /\ arg' = arg
  BY DEF brelse, goto
<1>5. Pinned' = Pinned
  BY <1>1, <1>2, <1>4, PinnedSame DEF brelse
<1>6. /\ p \in Users(b) /\ Users(b)' = Users(b) \ {p}
      /\ \A c : c # b => Users(c)' = Users(c)
  BY <1>1, <1>2, <1>4 DEF Users, UsesBuffer
<1>7. \A c \in Block : Content(c)' = Content(c)
  BY DEF Content, brelse
<1>8. active' = active
  BY <1>1, <1>2, <1>4 DEF active, InOp
<1>9. HeaderInv'
  BY <1>1, <1>2, <1>3, <1>4, <1>8 DEF HeaderInv, brelse, InCommit
<1>10. CopyInv'
  BY <1>1, <1>2, <1>3, <1>4 DEF CopyInv, brelse, InCommit
<1>11. CleanInv'
  BY <1>1, <1>2, <1>4, <1>5, <1>7 DEF CleanInv, Unsaved, brelse
<1>12. CacheInv'
  BY <1>1, <1>2, <1>5, <1>6 DEF CacheInv, InUse, brelse
<1>13. RefcntExact'
  <2> SUFFICES ASSUME NEW c \in Block, bufdata'[c] # NotCached
               PROVE  refcnt'[c] = Plus(Count(c), Leak(c))'
    BY DEF RefcntExact, Count, Leak
  <2>1. Leak(c)' = Leak(c) /\ refcnt[c] = Plus(Count(c), Leak(c))
    BY <1>2, RefcntCounts DEF Leak, brelse
  <2>2. CASE c # b
    <3>1. Count(c)' = Count(c)
      BY <1>5, <1>6, <2>2, CountSame
    <3>2. refcnt'[c] = refcnt[c]
      BY <1>1, <2>2 DEF brelse
    <3>3. QED
      BY <2>1, <3>1, <3>2 DEF Plus
  <2>3. CASE c = b
    <3>1. Cardinality(Users(b)') = Cardinality(Users(b)) - 1
      BY <1>6, UsersFinite, FS_RemoveElement
    <3>2. Count(b)' = Count(b) + (-1)
      BY <1>5, <3>1, UsersFinite DEF Count
    <3>3. refcnt'[b] = Plus(Plus(Count(b), Leak(b)), -1)
      BY <1>1, <2>1, <2>3 DEF brelse
    <3>4. Plus(Plus(Count(b), Leak(b)), -1) = Plus(Count(b) + (-1), Leak(b))
      BY PlusPlus, CountType
    <3>5. QED
      BY <2>1, <2>3, <3>2, <3>3, <3>4 DEF Plus
  <2>4. QED
    BY <2>2, <2>3
<1>14. QED
  BY <1>9, <1>10, <1>11, <1>12, <1>13

\* A reader brings a block into the cache.
LEMMA ReadStep ==
  ASSUME SafeInv, AtomInv, NEW b \in Block, read_block(b)
  PROVE  AtomInv'
<1> USE DEF AtomInv, diskvars, cachevars, memvars
<1>1. /\ bufdata \in [Block -> Value \cup {NotCached, Invalid}] /\ disk[b] \in Value
      /\ refcnt \in [Block -> 0..(RefMod - 1)]
  BY DEF SafeInv, TypeOK
<1>2. ~stolen /\ boot = "up" /\ bufdata[b] = NotCached
  BY DEF read_block, Running
<1>3. Pinned' = Pinned /\ \A c : Users(c)' = Users(c)
  BY PinnedSame, UsersSame DEF read_block
<1>4. \A c \in Block : Content(c)' = Content(c)
  BY <1>1, LogConstants DEF Content, read_block
<1>5. HeaderInv'
  BY DEF HeaderInv, read_block, active
<1>6. CopyInv'
  <2>1. \A i \in 1..Len(lh) : lh[i] \in Block
    BY DEF SafeInv, TypeOK
  <2>2. QED
    BY <1>4, <2>1 DEF CopyInv, read_block
<1>7. CleanInv'
  BY <1>3, <1>4 DEF CleanInv, Unsaved, read_block
<1>8. CacheInv'
  BY <1>1, <1>2, <1>3, LogConstants DEF CacheInv, InUse, read_block
<1>9. RefcntExact'
  <2> SUFFICES ASSUME NEW c \in Block, bufdata'[c] # NotCached
               PROVE  refcnt'[c] = Plus(Count(c), Leak(c))'
    BY DEF RefcntExact, Count, Leak
  <2>1. Leak(c)' = Leak(c) /\ Count(c)' = Count(c)
    BY <1>3, CountSame DEF Leak, read_block
  <2>2. CASE c # b
    BY <1>1, <1>2, <2>1, <2>2, RefcntCounts DEF read_block, Plus
  <2>3. CASE c = b
    <3>1. Count(c) = 0 /\ Leak(c) = 0
      BY <1>2, <2>3, CountType DEF CacheInv, Leak
    <3>2. Plus(0, 0) = 0
      BY PlusZero, RefModPositive
    <3>3. QED
      BY <1>1, <2>1, <2>3, <3>1, <3>2 DEF read_block, Plus
  <2>4. QED
    BY <2>2, <2>3
<1>10. QED
  BY <1>5, <1>6, <1>7, <1>8, <1>9

\* A buffer that nobody uses and no pin holds equals its home location, so
\* nothing is lost when it is recycled.
LEMMA RecycleStep ==
  ASSUME SafeInv, AtomInv, NEW b \in Block, recycle(b)
  PROVE  AtomInv'
<1> USE DEF AtomInv, diskvars, cachevars, memvars
<1>1. /\ bufdata \in [Block -> Value \cup {NotCached, Invalid}] /\ disk[b] \in Value
      /\ \A i \in 1..Len(lh) : lh[i] \in Block
  BY DEF SafeInv, TypeOK
<1>2. ~stolen /\ boot = "up" /\ boot' = "up" /\ stolen' = InUse(b)
  BY DEF recycle, Running
<1>3. Pinned' = Pinned /\ \A c : Users(c)' = Users(c)
  BY PinnedSame, UsersSame DEF recycle
<1>4. HeaderInv'
  BY DEF HeaderInv, recycle, active
<1>5. CASE InUse(b)
  <2>1. stolen'
    BY <1>2, <1>5
  <2>2. CopyInv'
    BY <1>2, <2>1 DEF CopyInv, recycle
  <2>3. QED
    BY <1>2, <1>4, <2>1, <2>2 DEF CleanInv, CacheInv, RefcntExact
<1>6. CASE ~InUse(b)
  <2>1. ~Unsaved(b)
    BY <1>6 DEF Unsaved, InUse, Users, UsesBuffer
  <2>2. \A c \in Block : Content(c)' = Content(c)
    BY <1>1, <1>2, <2>1, LogConstants DEF Content, CleanInv, recycle
  <2>3. CopyInv'
    BY <1>1, <1>2, <2>2 DEF CopyInv, recycle
  <2>4. CleanInv'
    BY <1>2, <1>3, <2>2 DEF CleanInv, Unsaved, recycle
  <2>5. CacheInv'
    BY <1>1, <1>2, <1>3, <1>6 DEF CacheInv, InUse, recycle
  <2>6. RefcntExact'
    <3> SUFFICES ASSUME NEW c \in Block, bufdata'[c] # NotCached
                 PROVE  refcnt'[c] = Plus(Count(c), Leak(c))'
      BY DEF RefcntExact, Count, Leak
    <3>1. c # b /\ bufdata[c] # NotCached /\ refcnt'[c] = refcnt[c]
      BY <1>1 DEF recycle
    <3>2. Leak(c)' = Leak(c) /\ Count(c)' = Count(c)
      BY <1>3, <3>1, CountSame DEF Leak, recycle
    <3>3. QED
      BY <1>2, <3>1, <3>2, RefcntCounts DEF Plus
  <2>7. QED
    BY <1>4, <2>3, <2>4, <2>5, <2>6
<1>7. QED
  BY <1>5, <1>6

\* write_log() copies the cache into the log area; every block it copies is
\* pinned, hence in the cache.
LEMMA WriteLogStep ==
  ASSUME SafeInv, AtomInv, NEW p \in Proc, write_log(p)
  PROVE  AtomInv'
<1> USE DEF AtomInv, diskvars, cachevars
<1>0. PICK b \in Block : b = lh[tail] /\ tail \in 1..Len(lh)
  BY DEF SafeInv, TypeOK, TailInv, write_log
<1>b. /\ Len(lh) \in Nat /\ Len(lh) < nlog /\ nlog \in Nat
      /\ \A i \in 1..Len(lh) : lh[i] \in Block
  BY LenBound, LogConstants DEF SafeInv, TypeOK
<1>1. /\ pc \in [Proc -> PCs] /\ disk[b] \in Value /\ tail \in 1..(nlog - 1)
      /\ bufdata \in [Block -> Value \cup {NotCached, Invalid}]
      /\ refcnt \in [Block -> 0..(RefMod - 1)] /\ dlog \in [1..(nlog - 1) -> Value]
      /\ Len(lh) \in Nat /\ Len(lh) < nlog /\ \A i \in 1..Len(lh) : lh[i] \in Block
  BY <1>0, <1>b DEF SafeInv, TypeOK
<1>2. /\ boot = "up" /\ committing /\ \A c : Users(c) = {}
      /\ \A q \in Proc : pc[q] \notin InOp /\ (pc[q] \in InCommit => q = p)
  BY Alone DEF write_log, InCommit
<1>3. ~stolen /\ pc[p] = "write_log" /\ UNCHANGED <<boot, stolen, leaked, committing, arg, lh>>
  BY DEF write_log, Running
<1>4. \A q \in Proc : /\ q # p => pc'[q] = pc[q]
                      /\ pc[q] \notin {"install", "erase"}
                      /\ pc'[q] \notin InOp \cup {"install", "erase"}
  BY <1>1, <1>2, <1>3 DEF write_log, goto, InOp, InCommit
<1>5. pc'[p] = IF tail < Len(lh) THEN "write_log" ELSE "write_head"
  BY <1>1, <1>3 DEF write_log, goto
<1>6. Pinned = Logged
  BY <1>2, <1>4, PinnedAll
<1>7. Pinned' = Logged
  <2>1. Installed' = 0 /\ boot' = "up" /\ lh' = lh
    BY <1>2, <1>3, <1>4 DEF Installed
  <2>2. QED
    BY <2>1 DEF Pinned, Logged
<1>8. \A c : Users(c)' = {}
  BY <1>4 DEF Users, UsesBuffer, InOp
<1>9. b \in Pinned /\ bufdata[b] # NotCached
  BY <1>0, <1>3, <1>6 DEF CacheInv, InUse, Logged
<1>10. Content(b) \in Value /\ \A c \in Block : Content(c)' = Content(c)
  BY <1>0, <1>1 DEF Content, write_log
<1>11. refcnt' = refcnt
  <2>1. -(0 + 1) = -1
    OBVIOUS
  <2>2. RefAfter(b, 0) = refcnt[b]
    BY <1>1, <1>9, <2>1, PlusBack DEF RefAfter
  <2>3. QED
    BY <1>0, <1>1, <2>2 DEF write_log
<1>12. HeaderInv'
  BY <1>2, <1>3, <1>4, <1>5 DEF HeaderInv, write_log, active, InCommit
<1>13. CopyInv'
  <2>1. dlog' = [dlog EXCEPT ![tail] = Content(b)]
    BY <1>0 DEF write_log
  <2>2. \A i \in 1..Len(lh) : i < tail => dlog[i] = Content(lh[i])
    BY <1>3 DEF CopyInv
  <2>3. \A i \in 1..Len(lh) : i =< tail => dlog'[i] = Content(lh[i])'
    BY <1>0, <1>1, <1>3, <1>10, <2>1, <2>2
  <2>4. tail < Len(lh) => tail' = tail + 1
    BY DEF write_log
  <2>5. \A q \in Proc : pc'[q] \in {"write_log", "write_head"} => q = p
    BY <1>2, <1>4 DEF InCommit
  <2>6. QED
    BY <1>0, <1>1, <1>2, <1>3, <1>4, <1>5, <2>3, <2>4, <2>5 DEF CopyInv
<1>14. CleanInv'
  BY <1>2, <1>3, <1>4, <1>6, <1>7, <1>10 DEF CleanInv, Unsaved, InOp, write_log
<1>15. CacheInv'
  BY <1>0, <1>1, <1>2, <1>3, <1>6, <1>7, <1>8, <1>9, <1>10, LogConstants
     DEF CacheInv, InUse, write_log
<1>16. RefcntExact'
  BY <1>0, <1>1, <1>2, <1>3, <1>6, <1>7, <1>8, <1>9, <1>11 DEF RefcntExact, write_log
<1>17. QED
  BY <1>12, <1>13, <1>14, <1>15, <1>16

\* write_head() makes the header in memory the header on the disk.
LEMMA WriteHeadStep ==
  ASSUME SafeInv, AtomInv, NEW p \in Proc, write_head(p)
  PROVE  AtomInv'
<1> USE DEF AtomInv, diskvars, cachevars
<1>1. pc \in [Proc -> PCs] /\ tail = 1
  BY DEF SafeInv, TypeOK, TailInv, write_head
<1>2. /\ boot = "up" /\ committing /\ \A c : Users(c) = {}
      /\ \A q \in Proc : pc[q] \notin InOp /\ (pc[q] \in InCommit => q = p)
  BY Alone DEF write_head, InCommit
<1>3. /\ ~stolen /\ pc[p] = "write_head" /\ dhead' = lh
      /\ UNCHANGED <<disk, dlog, cachevars, boot, committing, arg, lh, tail>>
  BY DEF write_head, Running
<1>4. \A q \in Proc : /\ pc[q] \notin {"install", "erase"}
                      /\ pc'[q] \notin InOp \cup {"erase", "write_log", "write_head", "finish"}
                      /\ pc'[q] = "install" => q = p
  BY <1>1, <1>2, <1>3 DEF write_head, goto, InOp, InCommit
<1>5. pc'[p] = "install"
  BY <1>1 DEF write_head, goto
<1>6. Pinned = Logged
  BY <1>2, <1>4, PinnedAll
<1>7. Pinned' = Logged
  <2>1. Installed' = 0 /\ boot' = "up" /\ lh' = lh
    BY <1>1, <1>2, <1>3, <1>4, <1>5 DEF Installed
  <2>2. QED
    BY <2>1 DEF Pinned, Logged
<1>8. \A c : Users(c)' = {}
  BY <1>4 DEF Users, UsesBuffer, InOp
<1>9. \A c : Content(c)' = Content(c)
  BY <1>3 DEF Content
<1>10. HeaderInv'
  BY <1>2, <1>3, <1>4, <1>5 DEF HeaderInv
<1>11. CopyInv'
  BY <1>1, <1>2, <1>3, <1>4, <1>9 DEF CopyInv
<1>12. CleanInv'
  BY <1>2, <1>3, <1>4, <1>6, <1>7, <1>9 DEF CleanInv, Unsaved, InOp
<1>13. CacheInv'
  BY <1>2, <1>3, <1>6, <1>7, <1>8 DEF CacheInv, InUse
<1>14. RefcntExact'
  BY <1>2, <1>3, <1>6, <1>7, <1>8 DEF RefcntExact
<1>15. QED
  BY <1>10, <1>11, <1>12, <1>13, <1>14

\* One turn of install_trans()'s loop writes the cached contents home and
\* drops the pin of the block.
LEMMA InstallStep ==
  ASSUME SafeInv, AtomInv, NEW p \in Proc, install_trans(p)
  PROVE  AtomInv'
<1> USE DEF AtomInv, diskvars, cachevars
<1>0. PICK b \in Block : b = lh[tail] /\ tail \in 1..Len(lh)
  BY DEF SafeInv, TypeOK, TailInv, install_trans
<1>b. /\ Len(lh) \in Nat /\ Len(lh) < nlog /\ nlog \in Nat
      /\ \A i \in 1..Len(lh) : lh[i] \in Block
  BY LenBound, LogConstants DEF SafeInv, TypeOK
<1>1. /\ pc \in [Proc -> PCs] /\ disk \in [Block -> Value] /\ tail \in 1..(nlog - 1)
      /\ bufdata \in [Block -> Value \cup {NotCached, Invalid}]
      /\ refcnt \in [Block -> 0..(RefMod - 1)] /\ dlog \in [1..(nlog - 1) -> Value]
      /\ Len(lh) \in Nat /\ Len(lh) < nlog /\ \A i \in 1..Len(lh) : lh[i] \in Block
  BY <1>0, <1>b DEF SafeInv, TypeOK
<1>2. /\ boot = "up" /\ committing /\ \A c : Users(c) = {}
      /\ \A q \in Proc : pc[q] \notin InOp /\ (pc[q] \in InCommit => q = p)
  BY Alone DEF install_trans, InCommit
<1>3. /\ ~stolen /\ pc[p] = "install"
      /\ UNCHANGED <<dlog, dhead, boot, stolen, leaked, committing, arg, lh>>
  BY DEF install_trans, Running
<1>4. \A q \in Proc : /\ pc'[q] \notin InOp \cup {"write_log", "write_head", "finish"}
                      /\ pc'[q] \in {"install", "erase"} => q = p
  BY <1>1, <1>2, <1>3 DEF install_trans, goto, InOp, InCommit
<1>5. /\ pc'[p] = IF tail < Len(lh) THEN "install" ELSE "erase"
      /\ tail < Len(lh) => tail' = tail + 1
  BY <1>1, <1>3 DEF install_trans, goto
<1>6. /\ disk' = [disk EXCEPT ![b] = dlog[tail]]
      /\ bufdata' = [bufdata EXCEPT ![b] = dlog[tail]]
      /\ refcnt' = [refcnt EXCEPT ![b] = RefAfter(b, 1)]
  BY <1>0 DEF install_trans, InstallBlock
<1>7. dlog[tail] = Content(b) /\ dlog[tail] \in Value
  BY <1>0, <1>1, <1>3 DEF CopyInv
<1>8. \A c \in Block : Content(c)' = Content(c)
  BY <1>1, <1>6, <1>7 DEF Content
<1>9. Pinned = {lh[i] : i \in tail..Len(lh)}
  BY <1>3, PinnedRest
<1>10. Pinned' = Pinned \ {b}
  <2>1. \A i \in tail..Len(lh) : lh[i] = b <=> i = tail
    BY <1>0, <1>1 DEF HeaderInv
  <2>2. CASE tail < Len(lh)
    <3>1. Installed' = tail
      BY <1>0, <1>3, <1>4, <1>5, <2>2 DEF Installed
    <3>2. Pinned' = {lh[i] : i \in (tail + 1)..Len(lh)}
      BY <1>2, <1>3, <3>1 DEF Pinned
    <3>3. \A i \in Int : i \in (tail + 1)..Len(lh) <=> i \in tail..Len(lh) /\ i # tail
      BY <1>0, <1>1
    <3>4. QED
      BY <1>9, <2>1, <3>2, <3>3
  <2>3. CASE ~(tail < Len(lh))
    <3>1. Installed' = Len(lh) /\ tail = Len(lh)
      BY <1>0, <1>1, <1>3, <1>5, <2>3 DEF Installed
    <3>2. Pinned' = {}
      BY <1>1, <1>3, <3>1 DEF Pinned
    <3>3. Pinned = {b}
      BY <1>0, <1>1, <1>9, <3>1
    <3>4. QED
      BY <3>2, <3>3
  <2>4. QED
    BY <2>2, <2>3
<1>11. b \in Pinned /\ bufdata[b] # NotCached
  BY <1>0, <1>1, <1>3, <1>9 DEF CacheInv, InUse
<1>12. \A c : Users(c)' = {}
  BY <1>4 DEF Users, UsesBuffer, InOp
<1>13. HeaderInv'
  <2>1. dhead = lh
    BY <1>2, <1>3 DEF HeaderInv
  <2>2. QED
    BY <1>2, <1>3, <1>4, <1>5, <2>1 DEF HeaderInv
<1>14. CopyInv'
  <2>1. \A i \in 1..Len(lh) : dlog[i] = Content(lh[i])'
    BY <1>1, <1>3, <1>8 DEF CopyInv
  <2>2. \A i \in 1..Len(lh) : i =< tail => disk'[lh[i]] = dlog[i]
    <3> SUFFICES ASSUME NEW i \in 1..Len(lh), i =< tail PROVE disk'[lh[i]] = dlog[i]
      OBVIOUS
    <3>1. CASE i = tail
      BY <1>0, <1>1, <1>6, <3>1
    <3>2. CASE i < tail
      <4>1. lh[i] # b /\ disk[lh[i]] = dlog[i]
        BY <1>0, <1>3, <3>2 DEF HeaderInv, CopyInv
      <4>2. QED
        BY <1>1, <1>6, <4>1
    <3>3. QED
      BY <1>1, <3>1, <3>2
  <2>3. QED
    BY <1>0, <1>1, <1>2, <1>3, <1>4, <1>5, <2>1, <2>2 DEF CopyInv
<1>15. CleanInv'
  <2> SUFFICES ASSUME NEW c \in Block PROVE Unsaved(c)' \/ Content(c)' = disk'[c]
    BY DEF CleanInv
  <2>1. CASE c = b
    BY <1>1, <1>6, <1>7, <1>8, <2>1
  <2>2. CASE c # b
    BY <1>1, <1>2, <1>3, <1>6, <1>8, <1>10, <2>2 DEF CleanInv, Unsaved, InOp
  <2>3. QED
    BY <2>1, <2>2
<1>16. CacheInv'
  BY <1>1, <1>2, <1>3, <1>6, <1>7, <1>10, <1>12, LogConstants DEF CacheInv, InUse
<1>17. RefcntExact'
  <2> SUFFICES ASSUME NEW c \in Block, bufdata'[c] # NotCached
               PROVE  refcnt'[c] = Plus(Count(c), Leak(c))'
    BY DEF RefcntExact, Count, Leak
  <2>1. Leak(c)' = Leak(c) /\ Users(c)' = Users(c)
    BY <1>2, <1>3, <1>12 DEF Leak
  <2>2. CASE c # b
    <3>1. Count(c)' = Count(c) /\ refcnt'[c] = refcnt[c] /\ bufdata'[c] = bufdata[c]
      BY <1>1, <1>6, <1>10, <2>1, <2>2, CountSame
    <3>2. QED
      BY <1>3, <2>1, <3>1, RefcntCounts DEF Plus
  <2>3. CASE c = b
    <3>1. Count(b)' = Count(b) + (-1)
      BY <1>10, <1>11, <2>1, <2>3, UsersFinite DEF Count
    <3>2. -(1 + 1) = -2 /\ refcnt[b] \in Int
      BY <1>1, RefModPositive
    <3>3. RefAfter(b, 1) = Plus(refcnt[b], -1)
      BY <1>11, <3>2, PlusUnpin DEF RefAfter
    <3>4. refcnt'[b] = Plus(Plus(Count(b), Leak(b)), -1)
      BY <1>1, <1>3, <1>6, <1>11, <3>3, RefcntCounts
    <3>5. Plus(Plus(Count(b), Leak(b)), -1) = Plus(Count(b) + (-1), Leak(b))
      BY PlusPlus, CountType
    <3>6. QED
      BY <2>1, <2>3, <3>1, <3>4, <3>5 DEF Plus
  <2>4. QED
    BY <2>2, <2>3
<1>18. QED
  BY <1>13, <1>14, <1>15, <1>16, <1>17

\* The second write_head() empties a header whose blocks are all at home.
LEMMA EraseStep ==
  ASSUME SafeInv, AtomInv, NEW p \in Proc, erase_head(p)
  PROVE  AtomInv'
<1> USE DEF AtomInv, diskvars, cachevars
<1>1. pc \in [Proc -> PCs]
  BY DEF SafeInv, TypeOK
<1>2. /\ boot = "up" /\ committing /\ \A c : Users(c) = {}
      /\ \A q \in Proc : pc[q] \notin InOp /\ (pc[q] \in InCommit => q = p)
  BY Alone DEF erase_head, InCommit
<1>3. /\ ~stolen /\ pc[p] = "erase" /\ lh' = <<>> /\ dhead' = <<>>
      /\ UNCHANGED <<disk, dlog, cachevars, boot, committing, arg, tail>>
  BY DEF erase_head, EraseHead, Running
<1>4. \A q \in Proc : pc'[q] \notin InOp \cup {"install", "erase", "write_log", "write_head"}
  BY <1>1, <1>2, <1>3 DEF erase_head, goto, InOp, InCommit
<1>5. Pinned = {}
  BY <1>3, PinnedNone DEF SafeInv
<1>6. Pinned' = {}
  <2>1. Installed' = 0 /\ lh' = <<>>
    BY <1>3, <1>4 DEF Installed
  <2>2. QED
    BY <2>1 DEF Pinned
<1>7. \A c : Users(c)' = {}
  BY <1>4 DEF Users, UsesBuffer, InOp
<1>8. HeaderInv'
  BY <1>2, <1>3, <1>4 DEF HeaderInv
<1>9. CopyInv'
  BY <1>2, <1>3 DEF CopyInv
<1>10. CleanInv'
  BY <1>2, <1>3, <1>4, <1>5, <1>6 DEF CleanInv, Unsaved, Content, InOp
<1>11. CacheInv'
  BY <1>2, <1>3, <1>5, <1>6, <1>7 DEF CacheInv, InUse
<1>12. RefcntExact'
  BY <1>2, <1>3, <1>5, <1>6, <1>7 DEF RefcntExact
<1>13. QED
  BY <1>8, <1>9, <1>10, <1>11, <1>12

\* Power failure: the cache is gone, the disk is not.
LEMMA CrashStep ==
  ASSUME SafeInv, AtomInv, crash
  PROVE  AtomInv'
<1> USE DEF AtomInv, crash, diskvars
<1>1. Pinned' = {} /\ \A c : Users(c)' = {}
  BY DEF Pinned, Users, UsesBuffer
<1>2. HeaderInv'
  BY DEF HeaderInv
<1>3. CopyInv'
  BY DEF CopyInv
<1>4. CleanInv'
  BY LogConstants DEF CleanInv, Content
<1>5. CacheInv'
  BY <1>1 DEF CacheInv, InUse
<1>6. RefcntExact'
  BY DEF RefcntExact
<1>7. QED
  BY <1>2, <1>3, <1>4, <1>5, <1>6

\* recover_from_log() reads the header with an empty cache.
LEMMA ReadHeadStep ==
  ASSUME SafeInv, AtomInv, read_head
  PROVE  AtomInv'
<1> USE DEF AtomInv, read_head, diskvars, cachevars
<1>1. tail = 1 /\ tail' = 1 /\ ~stolen /\ \A q \in Proc : pc[q] = "idle"
  BY DEF SafeInv, ControlInv, TailInv, CacheInv
<1>2. \A b \in Block : bufdata[b] = NotCached
  BY <1>1 DEF CacheInv
<1>3. Pinned' = {} /\ Pinned = {} /\ \A c : Users(c)' = Users(c)
  BY DEF Pinned, Users
<1>4. HeaderInv'
  BY <1>1 DEF HeaderInv
<1>5. CopyInv'
  BY <1>1 DEF CopyInv
<1>6. CleanInv'
  BY <1>2, LogConstants DEF CleanInv, Content
<1>7. CacheInv'
  BY <1>1, <1>2, <1>3 DEF CacheInv, InUse
<1>8. RefcntExact'
  BY <1>2 DEF RefcntExact
<1>9. QED
  BY <1>4, <1>5, <1>6, <1>7, <1>8

\* In recovery install_trans() drops a pin that nobody has taken.
LEMMA RecoverInstallStep ==
  ASSUME SafeInv, AtomInv, recover_install
  PROVE  AtomInv'
<1> USE DEF AtomInv, diskvars, cachevars
<1>0. PICK b \in Block : b = lh[tail] /\ tail \in 1..Len(lh)
  BY DEF SafeInv, TypeOK, TailInv, recover_install
<1>1. /\ disk \in [Block -> Value] /\ lh = dhead /\ tail \in 1..(nlog - 1)
      /\ bufdata \in [Block -> Value \cup {NotCached, Invalid}]
      /\ refcnt \in [Block -> 0..(RefMod - 1)] /\ dlog \in [1..(nlog - 1) -> Value]
      /\ Len(lh) \in Nat /\ Len(lh) < nlog /\ \A i \in 1..Len(lh) : lh[i] \in Block
  BY <1>0, LogConstants DEF SafeInv, TypeOK, SpaceInv, HeaderInv, recover_install
<1>2. /\ boot = "install" /\ ~stolen /\ tail' = tail + 1 /\ leaked' = leaked \cup {b}
      /\ UNCHANGED <<dlog, dhead, lh, stolen, pc, arg, boot>>
      /\ \A q \in Proc : pc[q] = "idle"
  BY <1>0 DEF recover_install, SafeInv, ControlInv, CacheInv
<1>3. /\ disk' = [disk EXCEPT ![b] = dlog[tail]]
      /\ bufdata' = [bufdata EXCEPT ![b] = dlog[tail]]
      /\ refcnt' = [refcnt EXCEPT ![b] = RefAfter(b, 1)]
      /\ dlog[tail] \in Value
  BY <1>0, <1>1 DEF recover_install, InstallBlock
<1>4. Pinned' = {} /\ Pinned = {} /\ \A c : Users(c)' = {} /\ Users(c) = {}
  BY <1>2 DEF Pinned, Users, UsesBuffer
<1>5. bufdata[b] = NotCached
  BY <1>0, <1>2 DEF CacheInv, HeaderInv
<1>6. HeaderInv'
  BY <1>2 DEF HeaderInv
<1>7. CopyInv'
  <2> SUFFICES ASSUME NEW i \in 1..Len(lh), i < tail + 1 PROVE disk'[lh[i]] = dlog[i]
    BY <1>2 DEF CopyInv
  <2>1. CASE i = tail
    BY <1>0, <1>1, <1>3, <2>1
  <2>2. CASE i < tail
    <3>1. lh[i] # b /\ disk[lh[i]] = dlog[i]
      BY <1>0, <1>2, <2>2 DEF HeaderInv, CopyInv
    <3>2. QED
      BY <1>1, <1>3, <3>1
  <2>3. QED
    BY <1>1, <2>1, <2>2
<1>8. CleanInv'
  BY <1>1, <1>2, <1>3, <1>4, LogConstants DEF CleanInv, Unsaved, Content
<1>9. CacheInv'
  BY <1>0, <1>1, <1>2, <1>3, <1>4, LogConstants DEF CacheInv, InUse
<1>10. RefcntExact'
  <2> SUFFICES ASSUME NEW c \in Block, bufdata'[c] # NotCached
               PROVE  refcnt'[c] = Plus(Count(c), Leak(c))'
    BY DEF RefcntExact, Count, Leak
  <2>1. Count(c) = 0 /\ Count(c)' = 0
    BY <1>4, FS_EmptySet DEF Count
  <2>2. CASE c # b
    <3>1. Leak(c)' = Leak(c) /\ refcnt'[c] = refcnt[c] /\ bufdata'[c] = bufdata[c]
      BY <1>1, <1>2, <1>3, <2>2 DEF Leak
    <3>2. QED
      BY <1>2, <2>1, <3>1, RefcntCounts DEF Plus
  <2>3. CASE c = b
    <3>1. Leak(b)' = -1
      BY <1>2 DEF Leak
    <3>2. RefAfter(b, 1) = Plus(0, -1)
      BY <1>5 DEF RefAfter, Plus
    <3>3. QED
      BY <1>1, <1>3, <2>1, <2>3, <3>1, <3>2 DEF Plus
  <2>4. QED
    BY <2>2, <2>3
<1>11. QED
  BY <1>6, <1>7, <1>8, <1>9, <1>10

\* The system comes up with an empty log and a clean cache.
LEMMA RecoverEraseStep ==
  ASSUME SafeInv, AtomInv, recover_erase
  PROVE  AtomInv'
<1> USE DEF AtomInv, diskvars, cachevars
<1>1. /\ boot = "install" /\ boot' = "up" /\ lh' = <<>> /\ dhead' = <<>> /\ ~stolen
      /\ UNCHANGED <<disk, dlog, cachevars, pc, arg>>
      /\ \A q \in Proc : pc[q] = "idle"
  BY DEF recover_erase, EraseHead, SafeInv, ControlInv, CacheInv
<1>2. Pinned = {} /\ \A c : Users(c)' = Users(c)
  BY <1>1 DEF Pinned, Users
<1>3. Pinned' = {}
  <2>1. Installed' = 0 /\ lh' = <<>>
    BY <1>1 DEF Installed
  <2>2. QED
    BY <2>1 DEF Pinned
<1>4. HeaderInv'
  BY <1>1 DEF HeaderInv
<1>5. CopyInv'
  BY <1>1 DEF CopyInv
<1>6. CleanInv'
  BY <1>1, <1>2, <1>3 DEF CleanInv, Unsaved, Content
<1>7. CacheInv'
  BY <1>1, <1>2, <1>3 DEF CacheInv, InUse
<1>8. RefcntExact'
  BY <1>1, <1>2, <1>3 DEF RefcntExact
<1>9. QED
  BY <1>4, <1>5, <1>6, <1>7, <1>8

----------------------------------------------------------------------------
(* The invariants and the action property.                                 *)

\* The first state.
LEMMA InitAtom == Init => AtomInv
<1> SUFFICES ASSUME Init PROVE AtomInv
  OBVIOUS
<1> USE DEF Init
<1>1. Pinned = {} /\ \A c : Users(c) = {}
  BY DEF Pinned, Users, UsesBuffer
<1>2. HeaderInv
  BY DEF HeaderInv
<1>3. CopyInv
  BY DEF CopyInv
<1>4. CleanInv
  BY LogConstants DEF CleanInv, Content
<1>5. CacheInv
  BY <1>1 DEF CacheInv, InUse
<1>6. RefcntExact
  BY DEF RefcntExact
<1>7. QED
  BY <1>2, <1>3, <1>4, <1>5, <1>6 DEF AtomInv

\* The invariant depends on the variables only.
LEMMA StutterAtom ==
  ASSUME AtomInv, UNCHANGED vars
  PROVE  AtomInv'
<1> USE DEF vars, AtomInv
<1>1. Pinned' = Pinned
  BY PinnedSame
<1>2. \A c : Users(c)' = Users(c)
  BY UsersSame
<1>3. \A c : Content(c)' = Content(c)
  BY DEF Content
<1>4. HeaderInv' /\ CopyInv'
  BY <1>3 DEF HeaderInv, CopyInv, active
<1>5. CleanInv' /\ CacheInv' /\ RefcntExact'
  BY <1>1, <1>2, <1>3 DEF CleanInv, Unsaved, CacheInv, InUse, RefcntExact
<1>6. QED
  BY <1>4, <1>5

\* The log, the cache and the disk agree as AtomInv says in every state.
THEOREM AtomInvariant == Spec => [](SafeInv /\ AtomInv)
<1>1. Init => AtomInv
  BY InitAtom
<1>2. SafeInv /\ AtomInv /\ [Next]_vars => AtomInv'
  <2> SUFFICES ASSUME SafeInv, AtomInv, [Next]_vars PROVE AtomInv'
    OBVIOUS
  <2>1. CASE Next
    BY <2>1, BeginStep, EndStep, CheckStep, LogWriteStep, BrelseStep, CommitStep,
       WriteLogStep,
       WriteHeadStep, InstallStep, EraseStep, FinishStep, BgetStep, ModifyStep,
       ReadStep, RecycleStep, CrashStep, ReadHeadStep, RecoverInstallStep,
       RecoverEraseStep
       DEF Next, Step, Recover
  <2>2. CASE UNCHANGED vars
    BY <2>2, StutterAtom
  <2>3. QED
    BY <2>1, <2>2
<1>3. QED
  BY <1>1, <1>2, SafeInvariant, PTL DEF Spec

\* b->refcnt counts exactly the users and the pin of every buffer, and is one
\* too small just for the buffers recovery has installed, for any number of
\* processes and blocks.
THEOREM RefcntAlwaysExact == Spec => []RefcntExact
<1>1. AtomInv => RefcntExact
  BY DEF AtomInv
<1>2. QED
  BY <1>1, AtomInvariant, PTL

\* Between transactions the disk alone holds all that any process has written.
THEOREM AlwaysDurable == Spec => []QuiescentDurable
<1>1. SafeInv /\ AtomInv => QuiescentDurable
  <2> SUFFICES ASSUME SafeInv, AtomInv, boot = "up", outstanding = 0, ~committing, ~stolen,
                      NEW b \in Block
               PROVE  Recovered(b) = disk[b] /\ disk[b] = Content(b)
    BY DEF QuiescentDurable
  <2>1. active = {}
    BY ActiveFinite, FS_EmptySet DEF SafeInv, ControlInv
  <2>2. lh = <<>> /\ \A q \in Proc : pc[q] \notin InOp \cup InCommit
    BY <2>1 DEF SafeInv, EmptyInv, ControlInv, active
  <2>3. dhead = <<>>
    BY <2>2 DEF AtomInv, HeaderInv, InCommit
  <2>4. Pinned = {}
    <3>1. Pinned = Logged
      BY <2>2, PinnedAll DEF InCommit
    <3>2. QED
      BY <2>2, <3>1 DEF Logged
  <2>5. QED
    BY <2>2, <2>3, <2>4 DEF AtomInv, CleanInv, Unsaved, Recovered, InOp
<1>2. QED
  BY <1>1, AtomInvariant, PTL

\* bget() recycles a buffer in use only after recovery has unpinned a buffer
\* that nobody had pinned: with an exact count, refcnt = 0 means unused.
THEOREM OnlyLeakedAreStolen == Spec => OnlyLeakedStolen
<1>1. SafeInv /\ AtomInv /\ [Next]_vars => [stolen' => leaked # {}]_vars
  <2> SUFFICES ASSUME SafeInv, AtomInv, Next, stolen' PROVE leaked # {}
    OBVIOUS
  <2> USE DEF diskvars, cachevars, memvars, Running
  <2>1. ASSUME NEW b \in Block, recycle(b) PROVE leaked # {}
    <3>1. ~stolen /\ InUse(b) /\ bufdata[b] # NotCached /\ refcnt[b] = 0
      BY <2>1 DEF recycle
    <3>2. Count(b) \in Nat /\ Count(b) # 0 /\ Count(b) =< Cardinality(Proc) + 1
      BY <3>1, CountType
    <3>3. Count(b) \in 0..(RefMod - 1)
      BY <3>2, LogConstants, FS_CardinalityType
    <3>4. Plus(Count(b), 0) # 0
      BY <3>2, <3>3, PlusZero
    <3>5. Plus(Count(b), Leak(b)) = 0
      BY <3>1, RefcntCounts DEF AtomInv
    <3>6. QED
      BY <3>4, <3>5 DEF Leak
  <2>2. ASSUME ~stolen, stolen' = stolen PROVE leaked # {}
    BY <2>2
  <2>3. stolen => boot = "up"
    BY DEF AtomInv, CacheInv
  <2>4. QED
    BY <2>1, <2>2, <2>3 DEF Next, Step, Recover, begin_op, end_op, log_write_check,
       log_write, brelse, commit, write_log, write_head, install_trans, erase_head,
       finish_commit, bget, modify, read_block, crash, read_head, recover_install,
       recover_erase
<1>2. QED
  BY <1>1, AtomInvariant, PTL DEF Spec, OnlyLeakedStolen

----------------------------------------------------------------------------
(* The refinement of AtomicDisk.                                           *)

\* Where recovery would find a block, by whether the header lists it.
LEMMA IndexOf ==
  ASSUME NEW s, NEW k \in 1..Len(s), \A i, j \in 1..Len(s) : s[i] = s[j] => i = j
  PROVE  (CHOOSE i \in 1..Len(s) : s[i] = s[k]) = k
OBVIOUS

\* A block that the header lists is found in the log area ...
LEMMA RecoveredListed ==
  ASSUME AtomInv, NEW k \in 1..Len(dhead)
  PROVE  Recovered(dhead[k]) = dlog[k]
BY IndexOf DEF Recovered, AtomInv, HeaderInv

\* ... also after the step,
LEMMA RecoveredListedNext ==
  ASSUME AtomInv', NEW k \in 1..Len(dhead')
  PROVE  \A b : b = dhead'[k] => Recovered(b)' = dlog'[k]
BY IndexOf DEF Recovered, AtomInv, HeaderInv

\* and the others at home.
LEMMA RecoveredHome ==
  ASSUME NEW b
  PROVE  /\ (\A i \in 1..Len(dhead) : dhead[i] # b) => Recovered(b) = disk[b]
         /\ (\A i \in 1..Len(dhead') : dhead'[i] # b) => Recovered(b)' = disk'[b]
BY DEF Recovered

\* Recovery finds the same as before when neither the header nor what it lists
\* has changed, nor the home of a block it does not list.
LEMMA StableSame ==
  ASSUME AtomInv, AtomInv', dhead' = dhead, \A i \in 1..Len(dhead) : dlog'[i] = dlog[i],
         \A b \in Block : (\A i \in 1..Len(dhead) : dhead[i] # b) => disk'[b] = disk[b]
  PROVE  \A b \in Block : Recovered(b)' = Recovered(b)
<1> SUFFICES ASSUME NEW b \in Block PROVE Recovered(b)' = Recovered(b)
  OBVIOUS
<1>1. CASE \E i \in 1..Len(dhead) : dhead[i] = b
  <2>1. PICK k \in 1..Len(dhead) : dhead[k] = b
    BY <1>1
  <2>2. QED
    BY <2>1, RecoveredListed, RecoveredListedNext
<1>2. CASE \A i \in 1..Len(dhead) : dhead[i] # b
  BY <1>2, RecoveredHome
<1>3. QED
  BY <1>1, <1>2

\* A step that the abstract disk does not see.
LEMMA Invisible ==
  ASSUME active' = active, boot' = boot,
         \A b \in Block : Recovered(b)' = Recovered(b),
         boot = "up" => \A b \in Block : Content(b)' = Content(b)
  PROVE  UNCHANGED Abs!vars
<1>1. stable' = stable
  BY DEF stable
<1>2. mem' = mem
  BY DEF mem
<1>3. up' = up
  BY DEF up
<1>4. QED
  BY <1>1, <1>2, <1>3 DEF Abs!vars

\* Steps that touch neither the disk nor what a reader sees.
LEMMA NoDiskStep ==
  ASSUME UNCHANGED <<diskvars, boot>>
  PROVE  stable' = stable /\ up' = up /\ \A b : Recovered(b)' = Recovered(b)
BY DEF stable, Recovered, up, diskvars

\* begin_op() is Begin, or a process goes to sleep.
LEMMA BeginImplements ==
  ASSUME SafeInv, NEW p \in Proc, begin_op(p)
  PROVE  Abs!Begin(p) \/ UNCHANGED Abs!vars
<1> USE DEF begin_op, diskvars, cachevars
<1>1. pc \in [Proc -> PCs] /\ boot = "up" /\ boot' = boot
  BY DEF SafeInv, TypeOK, Running
<1>2. stable' = stable /\ up' = up /\ \A b : Recovered(b)' = Recovered(b) /\ Content(b)' = Content(b)
  BY <1>1, NoDiskStep DEF Content
<1>3. mem' = mem
  BY <1>1, <1>2 DEF mem
<1>4. CASE MustWait
  <2>1. active' = active
    BY <1>1, <1>4 DEF active, goto, InOp
  <2>2. QED
    BY <1>2, <1>3, <2>1 DEF Abs!vars
<1>5. CASE ~MustWait
  <2>1. active' = active \cup {p} /\ p \notin active
    BY <1>1, <1>5 DEF active, goto, InOp
  <2>2. QED
    BY <1>1, <1>2, <1>3, <2>1 DEF Abs!Begin, up
<1>6. QED
  BY <1>4, <1>5

\* end_op() is End.
LEMMA EndImplements ==
  ASSUME SafeInv, NEW p \in Proc, end_op(p)
  PROVE  Abs!End(p)
<1> USE DEF end_op, diskvars, cachevars
<1>1. pc \in [Proc -> PCs] /\ boot = "up" /\ boot' = boot /\ pc[p] = "op"
  BY DEF SafeInv, TypeOK, Running
<1>2. stable' = stable /\ up' = up /\ \A b : Recovered(b)' = Recovered(b) /\ Content(b)' = Content(b)
  BY <1>1, NoDiskStep DEF Content
<1>3. mem' = mem
  BY <1>1, <1>2 DEF mem
<1>4. ~committing
  BY <1>1, NoCommit DEF InOp
<1>5. active' = active \ {p} /\ p \in active
  BY <1>1, <1>4 DEF active, goto, wakeup_log, InOp
<1>6. QED
  BY <1>2, <1>3, <1>5 DEF Abs!End

\* The change of b->data is Write: whoever reads the block sees it at once.
LEMMA ModifyImplements ==
  ASSUME SafeInv, NEW p \in Proc, NEW v \in Value, modify(p, v)
  PROVE  \E b \in Block : Abs!Write(p, b, v)
<1>0. PICK b \in Block : b = arg[p]
  BY DEF SafeInv, TypeOK
<1>1. /\ pc \in [Proc -> PCs] /\ boot = "up" /\ boot' = boot /\ pc[p] = "bget"
      /\ bufdata \in [Block -> Value \cup {NotCached, Invalid}]
      /\ pc' = [pc EXCEPT ![p] = "modified"] /\ bufdata' = [bufdata EXCEPT ![b] = v]
      /\ UNCHANGED diskvars
  BY <1>0 DEF SafeInv, TypeOK, Running, modify, goto
<1>2. stable' = stable /\ up' = up
  BY <1>1, NoDiskStep
<1>3. active' = active /\ p \in active
  BY <1>1 DEF active, InOp
<1>4. \A c \in Block : Content(c)' = IF c = b THEN v ELSE Content(c)
  BY <1>1 DEF Content, diskvars
<1>5. mem' = [mem EXCEPT ![b] = v]
  BY <1>1, <1>4 DEF mem
<1>6. QED
  BY <1>2, <1>3, <1>5 DEF Abs!Write

\* Everything else a system call does is invisible.
LEMMA CallImplements ==
  ASSUME SafeInv, NEW p \in Proc,
         \/ \E b \in Block : bget(p, b)
         \/ log_write_check(p) \/ log_write(p) \/ brelse(p) \/ commit(p) \/ finish_commit(p)
  PROVE  UNCHANGED Abs!vars
<1> USE DEF bget, log_write_check, log_write, brelse, commit, finish_commit, diskvars,
        cachevars
<1>1. /\ pc \in [Proc -> PCs] /\ boot' = boot /\ UNCHANGED diskvars
      /\ bufdata \in [Block -> Value \cup {NotCached, Invalid}]
  BY DEF SafeInv, TypeOK
<1>2. \A b \in Block : Recovered(b)' = Recovered(b)
  BY <1>1, NoDiskStep
<1>3. active' = active
  BY <1>1 DEF active, goto, wakeup_log, InOp
<1>4. \A b \in Block : Content(b)' = Content(b)
  BY <1>1, LogConstants DEF Content
<1>5. QED
  BY <1>1, <1>2, <1>3, <1>4, Invisible

\* write_log() writes the log area while the header on the disk is empty.
LEMMA WriteLogImplements ==
  ASSUME SafeInv, AtomInv, AtomInv', NEW p \in Proc, write_log(p)
  PROVE  UNCHANGED Abs!vars
<1>1. /\ boot = "up" /\ boot' = boot /\ UNCHANGED <<disk, dhead>> /\ pc[p] = "write_log"
      /\ pc \in [Proc -> PCs] /\ tail \in 1..Len(lh)
      /\ disk \in [Block -> Value] /\ \A i \in 1..Len(lh) : lh[i] \in Block
      /\ bufdata \in [Block -> Value \cup {NotCached, Invalid}]
  BY DEF write_log, Running, SafeInv, TypeOK, TailInv
<1>2. \A q \in Proc : pc[q] \notin {"install", "erase"}
  BY <1>1, Alone DEF InCommit
<1>3. dhead = <<>>
  BY <1>1, <1>2 DEF AtomInv, HeaderInv
<1>4. \A b \in Block : Recovered(b)' = Recovered(b)
  BY <1>1, <1>3, StableSame
<1>5. active' = active
  BY <1>1 DEF active, write_log, goto, InOp
<1>6. \A b \in Block : Content(b)' = Content(b)
  BY <1>1 DEF Content, write_log
<1>7. QED
  BY <1>1, <1>4, <1>5, <1>6, Invisible

\* write_head() is the commit point, Sync: the listed blocks are recovered
\* from the log area, the others are clean.
LEMMA WriteHeadImplements ==
  ASSUME SafeInv, AtomInv, AtomInv', NEW p \in Proc, write_head(p)
  PROVE  Abs!Sync
<1>1. /\ boot = "up" /\ boot' = boot /\ UNCHANGED <<disk, dlog, bufdata>> /\ pc[p] = "write_head"
      /\ pc \in [Proc -> PCs] /\ dhead' = lh /\ ~stolen
  BY DEF write_head, Running, SafeInv, TypeOK, cachevars
<1>2. /\ active = {}
      /\ \A q \in Proc : pc[q] \notin InOp \cup {"install", "erase"}
  BY <1>1, Alone DEF InCommit
<1>3. active' = active
  BY <1>1 DEF active, write_head, goto, InOp
<1>4. Pinned = Logged
  BY <1>1, <1>2, PinnedAll
<1>5. \A b \in Block : Recovered(b)' = Content(b)
  <2> SUFFICES ASSUME NEW b \in Block PROVE Recovered(b)' = Content(b)
    OBVIOUS
  <2>1. CASE b \in Logged
    <3>1. PICK k \in 1..Len(lh) : lh[k] = b
      BY <2>1 DEF Logged
    <3>2. dlog[k] = Content(b)
      BY <1>1, <3>1 DEF AtomInv, CopyInv
    <3>3. QED
      BY <1>1, <3>1, <3>2, RecoveredListedNext
  <2>2. CASE b \notin Logged
    <3>1. Content(b) = disk[b]
      BY <1>1, <1>2, <1>4, <2>2 DEF AtomInv, CleanInv, Unsaved, InOp
    <3>2. Recovered(b)' = disk'[b]
      BY <1>1, <2>2, RecoveredHome DEF Logged
    <3>3. QED
      BY <1>1, <3>1, <3>2
  <2>3. QED
    BY <2>1, <2>2
<1>6. \A b : Content(b)' = Content(b)
  BY <1>1 DEF Content
<1>7. stable' = mem
  BY <1>1, <1>5 DEF stable, mem
<1>8. mem' = mem
  BY <1>1, <1>6 DEF mem
<1>9. QED
  BY <1>1, <1>2, <1>3, <1>7, <1>8 DEF Abs!Sync, up

\* install_trans() writes home what recovery would find there anyway.
LEMMA InstallImplements ==
  ASSUME SafeInv, AtomInv, AtomInv', NEW p \in Proc, install_trans(p)
  PROVE  UNCHANGED Abs!vars
<1>b. Len(lh) \in Nat /\ Len(lh) < nlog /\ nlog \in Nat
  BY LenBound, LogConstants DEF SafeInv
<1>1. /\ boot = "up" /\ boot' = boot /\ UNCHANGED <<dlog, dhead>> /\ pc[p] = "install" /\ ~stolen
      /\ pc \in [Proc -> PCs] /\ tail \in 1..Len(lh) /\ tail \in 1..(nlog - 1)
      /\ disk \in [Block -> Value] /\ dlog \in [1..(nlog - 1) -> Value]
      /\ bufdata \in [Block -> Value \cup {NotCached, Invalid}]
  BY <1>b DEF install_trans, Running, SafeInv, TypeOK, TailInv
<1>2. dhead = lh
  BY <1>1 DEF AtomInv, HeaderInv
<1>3. \A b \in Block : b # lh[tail] => disk'[b] = disk[b] /\ bufdata'[b] = bufdata[b]
  BY <1>1 DEF install_trans, InstallBlock
<1>4. \A b \in Block : Recovered(b)' = Recovered(b)
  BY <1>1, <1>2, <1>3, StableSame
<1>5. active' = active
  BY <1>1 DEF active, install_trans, goto, InOp
<1>6. \A b \in Block : Content(b)' = Content(b)
  <2>1. dlog[tail] = Content(lh[tail]) /\ dlog[tail] \in Value
    BY <1>1 DEF AtomInv, CopyInv
  <2>2. QED
    BY <1>1, <1>3, <2>1 DEF Content, install_trans, InstallBlock
<1>7. QED
  BY <1>1, <1>4, <1>5, <1>6, Invisible

\* When the header is emptied all that it listed is at home.
LEMMA HomeWhenInstalled ==
  ASSUME AtomInv, \A i \in 1..Len(dhead) : disk[dhead[i]] = dlog[i], NEW b \in Block
  PROVE  Recovered(b) = disk[b]
<1>1. CASE \E i \in 1..Len(dhead) : dhead[i] = b
  BY <1>1, RecoveredListed
<1>2. CASE \A i \in 1..Len(dhead) : dhead[i] # b
  BY <1>2, RecoveredHome
<1>3. QED
  BY <1>1, <1>2

\* So the second write_head() changes nothing that recovery would find.
LEMMA EraseImplements ==
  ASSUME SafeInv, AtomInv, AtomInv', NEW p \in Proc, erase_head(p)
  PROVE  UNCHANGED Abs!vars
<1>1. /\ boot = "up" /\ boot' = boot /\ UNCHANGED <<disk, bufdata>> /\ pc[p] = "erase"
      /\ pc \in [Proc -> PCs] /\ dhead' = <<>>
  BY DEF erase_head, EraseHead, Running, SafeInv, TypeOK, cachevars
<1>2. dhead = lh /\ \A i \in 1..Len(lh) : disk[lh[i]] = dlog[i]
  BY <1>1 DEF AtomInv, HeaderInv, CopyInv
<1>3. \A b \in Block : Recovered(b) = disk[b] /\ Recovered(b)' = disk[b]
  BY <1>1, <1>2, HomeWhenInstalled, RecoveredHome
<1>4. active' = active
  BY <1>1 DEF active, erase_head, goto, InOp
<1>5. \A b \in Block : Content(b)' = Content(b)
  BY <1>1 DEF Content
<1>6. QED
  BY <1>1, <1>3, <1>4, <1>5, Invisible

\* Reading and recycling change no contents, unless a buffer in use is taken.
LEMMA CacheImplements ==
  ASSUME SafeInv, AtomInv, NEW b \in Block, read_block(b) \/ recycle(b)
  PROVE  stolen' \/ UNCHANGED Abs!vars
<1> USE DEF read_block, recycle, diskvars, memvars
<1>1. /\ boot' = boot /\ UNCHANGED <<diskvars, pc>> /\ ~stolen
      /\ bufdata \in [Block -> Value \cup {NotCached, Invalid}] /\ disk \in [Block -> Value]
  BY DEF SafeInv, TypeOK, Running
<1>2. \A c \in Block : Recovered(c)' = Recovered(c)
  BY <1>1, NoDiskStep
<1>3. active' = active
  BY <1>1 DEF active
<1>4. ~stolen' => \A c \in Block : Content(c)' = Content(c)
  <2>1. CASE read_block(b)
    BY <1>1, <2>1, LogConstants DEF Content
  <2>2. CASE recycle(b) /\ ~InUse(b)
    <3>1. ~Unsaved(b)
      BY <2>2 DEF Unsaved, InUse, Users, UsesBuffer
    <3>2. QED
      BY <1>1, <2>2, <3>1, LogConstants DEF Content, AtomInv, CleanInv
  <2>3. QED
    BY <2>1, <2>2
<1>5. QED
  BY <1>1, <1>2, <1>3, <1>4, Invisible

\* A crash takes every reader back to what is stable.
LEMMA CrashImplements ==
  ASSUME SafeInv, crash
  PROVE  Abs!Crash
<1> USE DEF crash, diskvars
<1>1. \A b : Recovered(b)' = Recovered(b)
  BY DEF Recovered
<1>2. stable' = stable /\ mem' = stable
  BY <1>1 DEF stable, mem
<1>3. active' = {} /\ up' = FALSE
  BY DEF active, up, InOp
<1>4. QED
  BY <1>2, <1>3 DEF Abs!Crash

\* Recovery installs again what a crash may have left half installed; it ends
\* with Mount.
LEMMA RecoverImplements ==
  ASSUME SafeInv, AtomInv, AtomInv', Recover
  PROVE  Abs!Mount \/ UNCHANGED Abs!vars
<1> USE DEF diskvars, cachevars
<1>1. active' = active
  BY DEF Recover, read_head, recover_install, recover_erase, active
<1>2. CASE read_head
  <2>1. \A b \in Block : Recovered(b)' = Recovered(b)
    BY <1>2 DEF read_head, Recovered
  <2>2. up' = up /\ stable' = stable /\ mem' = mem
    BY <1>2, <2>1 DEF read_head, up, stable, mem
  <2>3. QED
    BY <1>1, <2>2 DEF Abs!vars
<1>3. CASE recover_install
  <2>1. /\ boot = "install" /\ boot' = boot /\ UNCHANGED <<dlog, dhead>> /\ lh = dhead
        /\ tail \in 1..Len(lh) /\ disk \in [Block -> Value]
    BY <1>3 DEF recover_install, SafeInv, TypeOK, TailInv, AtomInv, HeaderInv
  <2>2. \A b \in Block : b # lh[tail] => disk'[b] = disk[b]
    BY <1>3, <2>1 DEF recover_install, InstallBlock
  <2>3. \A b \in Block : Recovered(b)' = Recovered(b)
    BY <2>1, <2>2, StableSame
  <2>4. QED
    BY <1>1, <2>1, <2>3, Invisible
<1>4. CASE recover_erase
  <2>1. /\ boot = "install" /\ boot' = "up" /\ dhead' = <<>> /\ lh = dhead /\ ~stolen
        /\ UNCHANGED <<disk, bufdata>> /\ \A q \in Proc : pc[q] = "idle"
        /\ \A i \in 1..Len(lh) : i < tail
    BY <1>4
       DEF recover_erase, EraseHead, SafeInv, TypeOK, ControlInv, AtomInv, HeaderInv,
           CacheInv
  <2>2. \A i \in 1..Len(dhead) : disk[dhead[i]] = dlog[i]
    BY <2>1 DEF AtomInv, CopyInv
  <2>3. \A b \in Block : Recovered(b) = disk[b] /\ Recovered(b)' = disk[b]
    BY <2>1, <2>2, HomeWhenInstalled, RecoveredHome
  <2>4. \A b \in Block : Content(b)' = disk[b]
    BY <2>1 DEF AtomInv, CleanInv, Unsaved, Pinned, Content
  <2>5. stable' = stable /\ mem' = mem
    BY <2>1, <2>3, <2>4 DEF stable, mem
  <2>6. QED
    BY <1>1, <2>1, <2>5 DEF Abs!Mount, up
<1>5. QED
  BY <1>2, <1>3, <1>4 DEF Recover

\* The log implements the atomic disk, for any number of processes, blocks and
\* values and any size of the log, as long as no buffer in use is recycled:
\* every step of log.c is a step of AtomicDisk or invisible to it.
THEOREM ImplementsAtomicDisk == Spec => AtomicUnlessStolen
<1>1. Init => Abs!Init
  <2> SUFFICES ASSUME Init PROVE Abs!Init
    OBVIOUS
  <2>1. \A b \in Block : Recovered(b) = disk[b] /\ disk[b] \in Value
    BY DEF Init, Recovered
  <2>2. stable = mem /\ mem \in [Block -> Value]
    BY <2>1 DEF Init, stable, mem
  <2>3. active = {} /\ up = FALSE
    BY DEF Init, active, up, InOp
  <2>4. QED
    BY <2>2, <2>3 DEF Abs!Init
<1>2. SafeInv /\ AtomInv /\ AtomInv' /\ [Next]_vars => [Abs!Next \/ stolen']_(Abs!vars)
  <2> SUFFICES ASSUME SafeInv, AtomInv, AtomInv', [Next]_vars
               PROVE  Abs!Next \/ stolen' \/ UNCHANGED Abs!vars
    OBVIOUS
  <2>1. CASE UNCHANGED vars
    <3>1. \A b : Recovered(b)' = Recovered(b) /\ Content(b)' = Content(b)
      BY <2>1 DEF vars, Recovered, Content
    <3>2. active' = active /\ boot' = boot
      BY <2>1 DEF vars, active
    <3>3. QED
      BY <3>1, <3>2, Invisible
  <2>2. ASSUME NEW p \in Proc, begin_op(p) \/ end_op(p)
        PROVE  Abs!Next \/ UNCHANGED Abs!vars
    BY <2>2, BeginImplements, EndImplements DEF Abs!Next
  <2>3. ASSUME NEW p \in Proc, NEW v \in Value, modify(p, v) PROVE Abs!Next
    BY <2>3, ModifyImplements DEF Abs!Next
  <2>4. ASSUME NEW p \in Proc, Step(p) PROVE Abs!Next \/ UNCHANGED Abs!vars
    BY <2>4, CallImplements, WriteLogImplements, WriteHeadImplements,
       InstallImplements,
       EraseImplements DEF Step, Abs!Next
  <2>5. ASSUME NEW p \in Proc, NEW b \in Block, bget(p, b) PROVE UNCHANGED Abs!vars
    BY <2>5, CallImplements
  <2>6. CASE crash
    BY <2>6, CrashImplements DEF Abs!Next
  <2>7. CASE Recover
    BY <2>7, RecoverImplements DEF Abs!Next
  <2>8. QED
    BY <2>1, <2>2, <2>3, <2>4, <2>5, <2>6, <2>7, CacheImplements DEF Next
<1>3. QED
  BY <1>1, <1>2, AtomInvariant, PTL DEF Spec, AtomicUnlessStolen
=============================================================================
