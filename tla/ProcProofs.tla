----------------------------- MODULE ProcProofs -----------------------------
(***************************************************************************)
(* Proofs about the life cycle of processes, for every number of slots: a  *)
(* freed process is off its kernel stack, a living process has a living    *)
(* parent, a parent that sleeps in wait() is not left with a zombie, and   *)
(* exit() calls never wait for each other in a circle unless one of them   *)
(* remembered a parent that is gone.                                       *)
(***************************************************************************)
EXTENDS Proc, WellFoundedInduction, TLAPS

-----------------------------------------------------------------------------
(* The inductive invariant *)

\* Where the thread of a process in each state can be.
Running == {"user", "wait", "scan", "exit", "exit_parent", "exit_lock_parent",
            "exit_lock_self", "reparent"}
StateInv ==
  \A s \in Slot :
    /\ state[s] = "UNUSED" => pc[s] = "none"
    /\ state[s] = "SLEEPING" => pc[s] = "asleep"
    /\ state[s] = "RUNNABLE" => pc[s] \in {"user", "asleep"}
    /\ state[s] = "RUNNING" => pc[s] \in Running
    /\ state[s] = "ZOMBIE" => pc[s] \in {"zombie", "none"}

\* The locks that process p holds, by where it is.
Holds(p, s) ==
  \/ pc[p] \in {"scan", "reparent", "zombie"} /\ s = p
  \/ pc[p] \in {"exit_lock_self", "reparent"} /\ s = original[p]
LockInv == \A p, s \in Slot : lock[s] = p <=> Holds(p, s)

\* init stays, and has no parent.
Immortal ==
  /\ state[initproc] \notin {"UNUSED", "ZOMBIE"} /\ parent[initproc] = None
  /\ pc[initproc] \in {"user", "wait", "scan", "asleep"}

\* Parents are older than their children, so that nobody is his own ancestor.
PidInv ==
  /\ pid[initproc] = 1 /\ nextpid > 1
  /\ \A s \in Slot :
       IF state[s] = "UNUSED" THEN parent[s] = None
       ELSE /\ pid[s] < nextpid
            /\ s # initproc => pid[s] > 1 /\ (parent[s] \in Slot => pid[parent[s]] < pid[s])

\* What exit() remembers is the parent, or was before that gave p to init.
OriginalInv ==
  \A s \in Slot :
    IF pc[s] \in {"exit_lock_parent", "exit_lock_self", "reparent"}
    THEN original[s] \in Slot /\ original[s] # s /\ parent[s] \in {original[s], initproc}
    ELSE original[s] = None

\* reparent() has left no child behind it.
ReparentInv ==
  \A p, s \in Slot : pc[p] = "reparent" /\ s < np[p] => parent[s] # p

\* wait() has left no zombie child behind it: a child that exits needs the
\* lock of its parent, unless it has become a child of init.
ScanInv ==
  \A p, s \in Slot :
    p # initproc /\ pc[p] = "scan" /\ s < np[p] /\ parent[s] = p => state[s] # "ZOMBIE"

Inv ==
  /\ TypeOK /\ StateInv /\ LockInv /\ Immortal /\ PidInv /\ OriginalInv
  /\ ParentAlive /\ ReparentInv /\ ScanInv /\ NoLostWakeup

-----------------------------------------------------------------------------
(* Lemmas and theorems *)

\* init has a slot, None is none.
LEMMA SlotFacts == initproc \in Slot /\ None \notin Slot
BY ProcConstants DEF Slot, initproc

\* The loop variables stay in the process table or one past its end.
LEMMA IndexFacts ==
  /\ 1 \in 1..(NPROC + 1)
  /\ \A n \in Slot : /\ n \in Nat /\ ~(n < 1)
                     /\ n \in 1..(NPROC + 1) /\ n + 1 \in 1..(NPROC + 1)
  /\ \A n \in 1..(NPROC + 1) : n \notin Slot => \A s \in Slot : s < n
  /\ \A n \in Slot, s \in Slot : s < n + 1 => s < n \/ s = n
BY ProcConstants DEF Slot

\* A process that slept in wait() starts its scan again, with its own lock.
LEMMA SchedulerStep ==
  ASSUME Inv, NEW p \in Slot, scheduler(p)
  PROVE Inv'
<1> USE SlotFacts DEF Inv, scheduler, CanStep, Free, goto
<1>1. TypeOK'
  <2>1. CASE pc[p] = "asleep"
    <3>1. state' \in [Slot -> States] /\ pc' \in [Slot -> PCs]
      BY DEF TypeOK, PCs, States
    <3>2. lock' \in [Slot -> Slot \cup {None}] /\ np' \in [Slot -> 1..(NPROC + 1)]
      BY IndexFacts DEF TypeOK
    <3>3. havekids' \in [Slot -> BOOLEAN]
      BY <2>1 DEF TypeOK
    <3>4. QED
      BY <2>1, <3>1, <3>2, <3>3 DEF TypeOK
  <2>2. CASE pc[p] # "asleep"
    BY <2>2 DEF TypeOK, States
  <2>3. QED
    BY <2>1, <2>2
<1>2. StateInv'
  BY DEF TypeOK, StateInv, Running
<1>3. LockInv'
  BY DEF TypeOK, LockInv, Holds
<1>4. Immortal'
  BY DEF TypeOK, Immortal
<1>5. PidInv'
  BY DEF PidInv
<1>6. OriginalInv'
  BY DEF TypeOK, OriginalInv
<1>7. ParentAlive'
  BY DEF ParentAlive
<1>8. ReparentInv'
  BY DEF TypeOK, ReparentInv
<1>9. ScanInv'
  BY IndexFacts DEF TypeOK, ScanInv
<1>10. NoLostWakeup'
  BY DEF NoLostWakeup
<1>11. QED
  BY <1>1, <1>2, <1>3, <1>4, <1>5, <1>6, <1>7, <1>8, <1>9, <1>10

\* fork() makes a child that is younger than its parent, in a free slot.
LEMMA ForkStep ==
  ASSUME Inv, NEW p \in Slot, NEW s \in Slot, fork(p, s)
  PROVE Inv'
<1> USE SlotFacts DEF Inv, fork, ForkBy, CanStep, Free, goto
<1>1. TypeOK'
  BY DEF TypeOK, States
<1>2. StateInv'
  BY DEF TypeOK, StateInv
<1>3. LockInv'
  BY DEF LockInv, Holds, StateInv
<1>4. Immortal'
  BY DEF Immortal
<1>5. PidInv'
  BY DEF TypeOK, PidInv, Immortal, ParentAlive
<1>6. OriginalInv'
  BY DEF OriginalInv, StateInv
<1>7. ParentAlive'
  BY DEF TypeOK, ParentAlive
<1>8. ReparentInv'
  BY DEF ReparentInv
<1>9. ScanInv'
  BY DEF ScanInv
<1>10. NoLostWakeup'
  BY DEF NoLostWakeup
<1>11. QED
  BY <1>1, <1>2, <1>3, <1>4, <1>5, <1>6, <1>7, <1>8, <1>9, <1>10

\* A slot that allocproc() gives up stays free.
LEMMA ForkNoTrapframeStep ==
  ASSUME Inv, NEW p \in Slot, NEW s \in Slot, fork_no_trapframe(p, s)
  PROVE Inv'
<1> USE SlotFacts DEF Inv, fork_no_trapframe, ForkBy, CanStep, Free, goto
<1>1. TypeOK'
  BY DEF TypeOK
<1>2. StateInv'
  BY DEF StateInv
<1>3. LockInv'
  BY DEF LockInv, Holds
<1>4. Immortal'
  BY DEF Immortal
<1>5. PidInv'
  BY DEF TypeOK, PidInv, Immortal, ParentAlive
<1>6. OriginalInv'
  BY DEF OriginalInv
<1>7. ParentAlive'
  BY DEF ParentAlive
<1>8. ReparentInv'
  BY DEF ReparentInv
<1>9. ScanInv'
  BY DEF ScanInv
<1>10. NoLostWakeup'
  BY DEF NoLostWakeup
<1>11. QED
  BY <1>1, <1>2, <1>3, <1>4, <1>5, <1>6, <1>7, <1>8, <1>9, <1>10

\* freeproc() of a slot that was never used leaves it free.
LEMMA ForkNoMemoryStep ==
  ASSUME Inv, NEW p \in Slot, NEW s \in Slot, fork_no_memory(p, s)
  PROVE Inv'
<1> USE SlotFacts DEF Inv, fork_no_memory, ForkBy, CanStep, Free, goto
<1>1. TypeOK'
  BY DEF TypeOK
<1>2. StateInv'
  BY DEF StateInv
<1>3. LockInv'
  BY DEF LockInv, Holds
<1>4. Immortal'
  BY DEF Immortal
<1>5. PidInv'
  BY DEF TypeOK, PidInv, Immortal
<1>6. OriginalInv'
  BY DEF OriginalInv, StateInv
<1>7. ParentAlive'
  BY DEF ParentAlive
<1>8. ReparentInv'
  BY DEF ReparentInv
<1>9. ScanInv'
  BY DEF ScanInv
<1>10. NoLostWakeup'
  BY DEF NoLostWakeup
<1>11. QED
  BY <1>1, <1>2, <1>3, <1>4, <1>5, <1>6, <1>7, <1>8, <1>9, <1>10

\* kill() wakes a sleeper and touches neither locks nor the tree.
LEMMA KillStep ==
  ASSUME Inv, NEW p \in Slot, NEW n \in Nat, kill(p, n)
  PROVE Inv'
<1> USE SlotFacts DEF Inv, kill, KillWakes, CanStep, Free, goto
<1>1. TypeOK'
  BY DEF TypeOK, States
<1>2. StateInv'
  BY DEF StateInv
<1>3. LockInv'
  BY DEF LockInv, Holds
<1>4. Immortal'
  BY DEF Immortal
<1>5. PidInv'
  BY DEF PidInv
<1>6. OriginalInv'
  BY DEF OriginalInv
<1>7. ParentAlive'
  BY DEF ParentAlive
<1>8. ReparentInv'
  BY DEF ReparentInv
<1>9. ScanInv'
  BY DEF ScanInv
<1>10. NoLostWakeup'
  BY DEF NoLostWakeup
<1>11. QED
  BY <1>1, <1>2, <1>3, <1>4, <1>5, <1>6, <1>7, <1>8, <1>9, <1>10

\* init does not get past the panic of exit().
LEMMA ExitStep ==
  ASSUME Inv, NEW p \in Slot, exit(p)
  PROVE Inv'
<1> USE SlotFacts DEF Inv, exit, CanStep, Free, goto
<1>1. TypeOK'
  <2>1. CASE p = initproc
    BY <2>1 DEF TypeOK
  <2>2. CASE p # initproc
    BY <2>2 DEF TypeOK, PCs
  <2>3. QED
    BY <2>1, <2>2
<1>2. StateInv'
  BY DEF TypeOK, StateInv, Running
<1>3. LockInv'
  BY DEF TypeOK, LockInv, Holds
<1>4. Immortal'
  BY DEF TypeOK, Immortal
<1>5. PidInv'
  BY DEF PidInv
<1>6. OriginalInv'
  BY DEF TypeOK, OriginalInv
<1>7. ParentAlive'
  BY DEF ParentAlive
<1>8. ReparentInv'
  BY DEF TypeOK, ReparentInv
<1>9. ScanInv'
  BY DEF TypeOK, ScanInv
<1>10. NoLostWakeup'
  BY DEF NoLostWakeup
<1>11. QED
  BY <1>1, <1>2, <1>3, <1>4, <1>5, <1>6, <1>7, <1>8, <1>9, <1>10

\* init may be woken for nothing.
LEMMA ExitWakeInitStep ==
  ASSUME Inv, NEW p \in Slot, exit_wake_init(p)
  PROVE Inv'
<1> USE SlotFacts DEF Inv, exit_wake_init, wakeup1, CanStep, Free, goto
<1>1. TypeOK'
  BY DEF TypeOK, PCs, States
<1>2. StateInv'
  BY DEF StateInv, Running
<1>3. LockInv'
  BY DEF LockInv, Holds
<1>4. Immortal'
  BY DEF Immortal
<1>5. PidInv'
  BY DEF PidInv
<1>6. OriginalInv'
  BY DEF OriginalInv
<1>7. ParentAlive'
  BY DEF ParentAlive
<1>8. ReparentInv'
  BY DEF ReparentInv
<1>9. ScanInv'
  BY DEF ScanInv
<1>10. NoLostWakeup'
  BY DEF NoLostWakeup
<1>11. QED
  BY <1>1, <1>2, <1>3, <1>4, <1>5, <1>6, <1>7, <1>8, <1>9, <1>10

\* exit() reads a living parent: p is not init.
LEMMA ExitReadParentStep ==
  ASSUME Inv, NEW p \in Slot, exit_read_parent(p)
  PROVE Inv'
<1> USE SlotFacts DEF Inv, exit_read_parent, CanStep, Free, goto
<1>1. TypeOK'
  <2>1. parent[p] \in Slot
    BY DEF TypeOK, ParentAlive, Immortal
  <2>2. QED
    BY <2>1 DEF TypeOK, PCs
<1>2. StateInv'
  BY DEF StateInv, Running
<1>3. LockInv'
  BY DEF LockInv, Holds
<1>4. Immortal'
  BY DEF Immortal
<1>5. PidInv'
  BY DEF PidInv
<1>6. OriginalInv'
  BY DEF TypeOK, OriginalInv, Immortal, ParentAlive, PidInv
<1>7. ParentAlive'
  BY DEF ParentAlive
<1>8. ReparentInv'
  BY DEF ReparentInv
<1>9. ScanInv'
  BY DEF ScanInv
<1>10. NoLostWakeup'
  BY DEF NoLostWakeup
<1>11. QED
  BY <1>1, <1>2, <1>3, <1>4, <1>5, <1>6, <1>7, <1>8, <1>9, <1>10

\* The remembered parent's lock was free.
LEMMA ExitLockParentStep ==
  ASSUME Inv, NEW p \in Slot, exit_lock_parent(p)
  PROVE Inv'
<1> USE SlotFacts DEF Inv, exit_lock_parent, CanStep, Free, goto
<1>1. TypeOK'
  BY DEF TypeOK, PCs
<1>2. StateInv'
  BY DEF StateInv, Running
<1>3. LockInv'
  <2>1. original[p] \in Slot /\ lock[original[p]] = None
    BY DEF OriginalInv, Wants
  <2>2. QED
    BY <2>1 DEF TypeOK, LockInv, Holds, OriginalInv
<1>4. Immortal'
  BY DEF Immortal
<1>5. PidInv'
  BY DEF PidInv
<1>6. OriginalInv'
  BY DEF OriginalInv
<1>7. ParentAlive'
  BY DEF ParentAlive
<1>8. ReparentInv'
  BY DEF ReparentInv
<1>9. ScanInv'
  BY DEF ScanInv
<1>10. NoLostWakeup'
  BY DEF NoLostWakeup
<1>11. QED
  BY <1>1, <1>2, <1>3, <1>4, <1>5, <1>6, <1>7, <1>8, <1>9, <1>10

\* With the remembered parent's lock, exit() takes its own.
LEMMA ExitLockSelfStep ==
  ASSUME Inv, NEW p \in Slot, exit_lock_self(p)
  PROVE Inv'
<1> USE SlotFacts DEF Inv, exit_lock_self, CanStep, Free, goto
<1>1. TypeOK'
  BY IndexFacts DEF TypeOK, PCs
<1>2. StateInv'
  BY DEF StateInv, Running
<1>3. LockInv'
  <2>1. p \in Slot /\ lock[p] = None
    BY DEF Wants
  <2>2. QED
    BY <2>1 DEF TypeOK, LockInv, Holds, OriginalInv
<1>4. Immortal'
  BY DEF Immortal
<1>5. PidInv'
  BY DEF PidInv
<1>6. OriginalInv'
  BY DEF OriginalInv
<1>7. ParentAlive'
  BY DEF ParentAlive
<1>8. ReparentInv'
  BY IndexFacts DEF TypeOK, ReparentInv
<1>9. ScanInv'
  BY DEF ScanInv
<1>10. NoLostWakeup'
  BY DEF NoLostWakeup
<1>11. QED
  BY <1>1, <1>2, <1>3, <1>4, <1>5, <1>6, <1>7, <1>8, <1>9, <1>10

\* One turn of reparent() gives one slot's process to init.
LEMMA ReparentStep ==
  ASSUME Inv, NEW p \in Slot, reparent(p)
  PROVE Inv'
<1> USE SlotFacts DEF Inv, reparent, GiveAway, CanStep, Free, goto
<1>1. TypeOK'
  BY IndexFacts DEF TypeOK
<1>2. StateInv'
  BY DEF StateInv
<1>3. LockInv'
  BY DEF LockInv, Holds
<1>4. Immortal'
  BY DEF Immortal
<1>5. PidInv'
  BY DEF PidInv
<1>6. OriginalInv'
  BY DEF OriginalInv
<1>7. ParentAlive'
  BY DEF ParentAlive, Immortal
<1>8. ReparentInv'
  <2>1. p # initproc
    BY DEF Immortal
  <2>2. ASSUME NEW q \in Slot, NEW t \in Slot, (pc[q] = "reparent" /\ t < np[q])'
        PROVE  parent'[t] # q
    <3>1. q # initproc /\ pc[q] = "reparent"
      BY <2>2 DEF Immortal
    <3>2. CASE t < np[q]
      BY <3>1, <3>2 DEF ReparentInv
    <3>3. CASE q = p /\ t = np[p]
      BY <2>1, <3>3 DEF TypeOK
    <3>4. t < np[q] \/ (q = p /\ t = np[p])
      BY <2>2, IndexFacts
    <3>5. QED
      BY <3>2, <3>3, <3>4
  <2>3. QED
    BY <2>2 DEF ReparentInv
<1>9. ScanInv'
  BY DEF ScanInv
<1>10. NoLostWakeup'
  BY DEF NoLostWakeup
<1>11. QED
  BY <1>1, <1>2, <1>3, <1>4, <1>5, <1>6, <1>7, <1>8, <1>9, <1>10

\* A process dies when it has no children, and with its parent's lock held, if
\* its parent is not init: the parent is not between its scan and its sleep.
LEMMA ExitZombieStep ==
  ASSUME Inv, NEW p \in Slot, exit_zombie(p)
  PROVE Inv'
<1> USE SlotFacts DEF Inv, exit_zombie, wakeup1, UnlockParent, CanStep, Free, goto
<1>1. TypeOK'
  BY IndexFacts DEF TypeOK, PCs, States
<1>2. StateInv'
  BY DEF TypeOK, StateInv
<1>3. LockInv'
  BY DEF TypeOK, LockInv, Holds, OriginalInv
<1>4. Immortal'
  BY DEF TypeOK, Immortal
<1>5. PidInv'
  BY DEF TypeOK, PidInv
<1>6. OriginalInv'
  BY DEF TypeOK, OriginalInv
<1>7. ParentAlive'
  <2>1. \A s \in Slot : parent[s] # p
    BY IndexFacts DEF TypeOK, ReparentInv
  <2>2. \A s \in Slot : state'[s] # "UNUSED" => state[s] # "UNUSED"
    BY DEF TypeOK
  <2>3. \A s \in Slot \ {p} :
          state[s] \notin {"UNUSED", "ZOMBIE"} => state'[s] \notin {"UNUSED", "ZOMBIE"}
    BY DEF TypeOK
  <2>4. QED
    BY <2>1, <2>2, <2>3 DEF TypeOK, ParentAlive
<1>8. ReparentInv'
  BY IndexFacts DEF ReparentInv
<1>9. ScanInv'
  BY DEF TypeOK, ScanInv, LockInv, Holds, OriginalInv
<1>10. NoLostWakeup'
  BY DEF TypeOK, NoLostWakeup, OriginalInv
<1>11. QED
  BY <1>1, <1>2, <1>3, <1>4, <1>5, <1>6, <1>7, <1>8, <1>9, <1>10

\* The scheduler releases the lock of the dead.
LEMMA SchedZombieStep ==
  ASSUME Inv, NEW p \in Slot, sched_zombie(p)
  PROVE Inv'
<1> USE SlotFacts DEF Inv, sched_zombie, CanStep, Free, goto
<1>1. TypeOK'
  BY DEF TypeOK, PCs
<1>2. StateInv'
  BY DEF StateInv, Running
<1>3. LockInv'
  BY DEF TypeOK, LockInv, Holds
<1>4. Immortal'
  BY DEF Immortal
<1>5. PidInv'
  BY DEF PidInv
<1>6. OriginalInv'
  BY DEF OriginalInv
<1>7. ParentAlive'
  BY DEF ParentAlive
<1>8. ReparentInv'
  BY DEF ReparentInv
<1>9. ScanInv'
  BY DEF ScanInv
<1>10. NoLostWakeup'
  BY DEF NoLostWakeup
<1>11. QED
  BY <1>1, <1>2, <1>3, <1>4, <1>5, <1>6, <1>7, <1>8, <1>9, <1>10

\* wait() up to its acquire().
LEMMA WaitStep ==
  ASSUME Inv, NEW p \in Slot, wait(p)
  PROVE Inv'
<1> USE SlotFacts DEF Inv, wait, CanStep, Free, goto
<1>1. TypeOK'
  BY DEF TypeOK, PCs
<1>2. StateInv'
  BY DEF StateInv, Running
<1>3. LockInv'
  BY DEF LockInv, Holds
<1>4. Immortal'
  BY DEF Immortal
<1>5. PidInv'
  BY DEF PidInv
<1>6. OriginalInv'
  BY DEF OriginalInv
<1>7. ParentAlive'
  BY DEF ParentAlive
<1>8. ReparentInv'
  BY DEF ReparentInv
<1>9. ScanInv'
  BY DEF ScanInv
<1>10. NoLostWakeup'
  BY DEF NoLostWakeup
<1>11. QED
  BY <1>1, <1>2, <1>3, <1>4, <1>5, <1>6, <1>7, <1>8, <1>9, <1>10

\* wait() starts its scan with its own lock.
LEMMA WaitLockStep ==
  ASSUME Inv, NEW p \in Slot, wait_lock(p)
  PROVE Inv'
<1> USE SlotFacts DEF Inv, wait_lock, CanStep, Free, goto
<1>1. TypeOK'
  BY IndexFacts DEF TypeOK, PCs
<1>2. StateInv'
  BY DEF StateInv, Running
<1>3. LockInv'
  <2>1. p \in Slot /\ lock[p] = None
    BY DEF Wants
  <2>2. QED
    BY <2>1 DEF TypeOK, LockInv, Holds, OriginalInv
<1>4. Immortal'
  BY DEF Immortal
<1>5. PidInv'
  BY DEF PidInv
<1>6. OriginalInv'
  BY DEF OriginalInv
<1>7. ParentAlive'
  BY DEF ParentAlive
<1>8. ReparentInv'
  BY DEF ReparentInv
<1>9. ScanInv'
  BY IndexFacts DEF TypeOK, ScanInv
<1>10. NoLostWakeup'
  BY DEF NoLostWakeup
<1>11. QED
  BY <1>1, <1>2, <1>3, <1>4, <1>5, <1>6, <1>7, <1>8, <1>9, <1>10

\* The scan passes what is no zombie child.
LEMMA WaitScanStep ==
  ASSUME Inv, NEW p \in Slot, wait_scan(p)
  PROVE Inv'
<1> USE SlotFacts DEF Inv, wait_scan, CanStep, Free, goto
<1>1. TypeOK'
  BY IndexFacts DEF TypeOK
<1>2. StateInv'
  BY DEF StateInv
<1>3. LockInv'
  BY DEF LockInv, Holds
<1>4. Immortal'
  BY DEF Immortal
<1>5. PidInv'
  BY DEF PidInv
<1>6. OriginalInv'
  BY DEF OriginalInv
<1>7. ParentAlive'
  BY DEF ParentAlive
<1>8. ReparentInv'
  BY DEF ReparentInv
<1>9. ScanInv'
  <2>1. \A q, t \in Slot :
          pc[q] = "scan" /\ t < np'[q] => t < np[q] \/ (q = p /\ t = np[p])
    BY IndexFacts
  <2>2. QED
    BY <2>1 DEF ScanInv
<1>10. NoLostWakeup'
  BY DEF NoLostWakeup
<1>11. QED
  BY <1>1, <1>2, <1>3, <1>4, <1>5, <1>6, <1>7, <1>8, <1>9, <1>10

\* The freed child is off its kernel stack: its lock was free.
LEMMA WaitReapStep ==
  ASSUME Inv, NEW p \in Slot, wait_reap(p)
  PROVE Inv'
<1> USE SlotFacts DEF Inv, wait_reap, return_from_wait, CanStep, Free, goto
<1>1. TypeOK'
  BY IndexFacts DEF TypeOK, PCs, States
<1>2. StateInv'
  <2>1. pc[np[p]] # "zombie"
    BY DEF LockInv, Holds, Wants
  <2>2. QED
    BY <2>1 DEF TypeOK, StateInv, Running
<1>3. LockInv'
  BY DEF TypeOK, LockInv, Holds
<1>4. Immortal'
  BY DEF Immortal
<1>5. PidInv'
  BY DEF TypeOK, PidInv, Immortal
<1>6. OriginalInv'
  BY DEF OriginalInv, StateInv
<1>7. ParentAlive'
  BY DEF TypeOK, ParentAlive
<1>8. ReparentInv'
  BY DEF ReparentInv
<1>9. ScanInv'
  BY IndexFacts DEF ScanInv
<1>10. NoLostWakeup'
  BY DEF NoLostWakeup
<1>11. QED
  BY <1>1, <1>2, <1>3, <1>4, <1>5, <1>6, <1>7, <1>8, <1>9, <1>10

\* wait() that cannot copy out the status leaves the zombie.
LEMMA WaitBadAddressStep ==
  ASSUME Inv, NEW p \in Slot, wait_bad_address(p)
  PROVE Inv'
<1> USE SlotFacts DEF Inv, wait_bad_address, return_from_wait, CanStep, Free, goto
<1>1. TypeOK'
  BY IndexFacts DEF TypeOK, PCs
<1>2. StateInv'
  BY DEF StateInv, Running
<1>3. LockInv'
  BY DEF TypeOK, LockInv, Holds
<1>4. Immortal'
  BY DEF Immortal
<1>5. PidInv'
  BY DEF PidInv
<1>6. OriginalInv'
  BY DEF OriginalInv
<1>7. ParentAlive'
  BY DEF ParentAlive
<1>8. ReparentInv'
  BY DEF ReparentInv
<1>9. ScanInv'
  BY IndexFacts DEF ScanInv
<1>10. NoLostWakeup'
  BY DEF NoLostWakeup
<1>11. QED
  BY <1>1, <1>2, <1>3, <1>4, <1>5, <1>6, <1>7, <1>8, <1>9, <1>10

\* wait() returns without a child.
LEMMA WaitNoKidsStep ==
  ASSUME Inv, NEW p \in Slot, wait_no_kids(p)
  PROVE Inv'
<1> USE SlotFacts DEF Inv, wait_no_kids, return_from_wait, CanStep, Free, goto
<1>1. TypeOK'
  BY IndexFacts DEF TypeOK, PCs
<1>2. StateInv'
  BY DEF StateInv, Running
<1>3. LockInv'
  BY DEF TypeOK, LockInv, Holds
<1>4. Immortal'
  BY DEF Immortal
<1>5. PidInv'
  BY DEF PidInv
<1>6. OriginalInv'
  BY DEF OriginalInv
<1>7. ParentAlive'
  BY DEF ParentAlive
<1>8. ReparentInv'
  BY DEF ReparentInv
<1>9. ScanInv'
  BY IndexFacts DEF ScanInv
<1>10. NoLostWakeup'
  BY DEF NoLostWakeup
<1>11. QED
  BY <1>1, <1>2, <1>3, <1>4, <1>5, <1>6, <1>7, <1>8, <1>9, <1>10

\* wait() sleeps after a scan that found no zombie.
LEMMA WaitSleepStep ==
  ASSUME Inv, NEW p \in Slot, wait_sleep(p)
  PROVE Inv'
<1> USE SlotFacts DEF Inv, wait_sleep, CanStep, Free, goto
<1>1. TypeOK'
  BY IndexFacts DEF TypeOK, PCs, States
<1>2. StateInv'
  BY DEF TypeOK, StateInv
<1>3. LockInv'
  BY DEF TypeOK, LockInv, Holds
<1>4. Immortal'
  BY DEF Immortal
<1>5. PidInv'
  BY DEF PidInv
<1>6. OriginalInv'
  BY DEF OriginalInv
<1>7. ParentAlive'
  BY DEF ParentAlive
<1>8. ReparentInv'
  BY DEF ReparentInv
<1>9. ScanInv'
  BY IndexFacts DEF ScanInv
<1>10. NoLostWakeup'
  BY IndexFacts DEF TypeOK, NoLostWakeup, ScanInv
<1>11. QED
  BY <1>1, <1>2, <1>3, <1>4, <1>5, <1>6, <1>7, <1>8, <1>9, <1>10

\* Every non-empty set of natural numbers has a least element.
LEMMA Least ==
  ASSUME NEW T \in SUBSET Nat, T # {}
  PROVE  \E x \in T : \A y \in T : x =< y
<1>1. IsWellFoundedOn(OpToRel(<, Nat), Nat)
  BY NatLessThanWellFounded
<1>2. PICK x \in T : \A y \in T : ~(<<y, x>> \in OpToRel(<, Nat))
  BY <1>1, WFMin, Zenon
<1>3. \A y \in T : ~(y < x)
  BY <1>2, Zenon DEF OpToRel
<1>4. QED
  BY <1>3

\* A process that waits for a lock, with another one in hand that is not the
\* lock of a stale parent, waits for a younger process.
LEMMA WaitsForYounger ==
  ASSUME Inv, NEW p \in Slot, NEW q \in Slot, ~Stale(q),
         pc[p] \in {"scan", "exit_lock_self", "reparent"},
         Wants(p) # None, lock[Wants(p)] = q
  PROVE  pid[p] < pid[q]
<1> DEFINE w == Wants(p)
<1>1. w \in Slot /\ (w = p \/ parent[w] = p)
  BY DEF Wants
<1>2. q = w \/ parent[q] = w
  BY <1>1 DEF Inv, LockInv, Holds, Stale
<1>3. ~(q = w /\ w = p)
  BY DEF Inv, LockInv, Holds, OriginalInv, Wants, Immortal, TypeOK, PidInv
<1>4. \A s \in Slot : parent[s] \in Slot => pid[parent[s]] < pid[s]
  BY SlotFacts DEF Inv, PidInv, Immortal
<1>5. pid[p] \in Nat /\ pid[q] \in Nat /\ pid[w] \in Nat
  BY <1>1 DEF Inv, TypeOK
<1>6. QED
  BY <1>1, <1>2, <1>3, <1>4, <1>5

\* A circle of waiting exit() calls would have a member of least age, that
\* waits for nobody younger.
LEMMA NoCircle == Inv => NoCycleUnlessStale
<1> SUFFICES ASSUME Inv, NEW S \in SUBSET Slot, Circle(S), \A p \in S : ~Stale(p)
             PROVE  FALSE
  BY DEF NoCycleUnlessStale
<1> DEFINE H == {p \in S : pc[p] \in {"scan", "exit_lock_self", "reparent"}}
           T == {nextpid - pid[p] : p \in H}
<1>1. \A p \in S : Wants(p) \in Slot /\ lock[Wants(p)] \in S
  BY SlotFacts DEF Circle, Inv, TypeOK, Wants
<1>2. \A p \in S : lock[Wants(p)] \in H
  <2> SUFFICES ASSUME NEW p \in S PROVE lock[Wants(p)] \in H
    OBVIOUS
  <2> DEFINE q == lock[Wants(p)]
  <2>1. q \in S /\ Holds(q, Wants(p))
    BY <1>1 DEF Inv, LockInv
  <2>2. Wants(q) # None
    BY DEF Circle
  <2>3. pc[q] # "zombie"
    BY <2>2 DEF Wants
  <2>4. QED
    BY <2>1, <2>3 DEF Holds
<1>3. \A p \in H : pid[p] < pid[lock[Wants(p)]]
  <2> SUFFICES ASSUME NEW p \in H PROVE pid[p] < pid[lock[Wants(p)]]
    OBVIOUS
  <2>1. Wants(p) # None /\ lock[Wants(p)] \in S
    BY DEF Circle
  <2>2. QED
    BY <2>1, WaitsForYounger
<1>4. T # {}
  BY <1>2 DEF Circle
<1>5. \A p \in H : pid[p] \in Nat /\ nextpid \in Nat /\ pid[p] < nextpid
  BY DEF Inv, TypeOK, StateInv, PidInv
<1>6. T \in SUBSET Nat
  BY <1>5
<1>7. PICK p \in H : \A q \in H : nextpid - pid[p] =< nextpid - pid[q]
  <2>1. PICK x \in T : \A y \in T : x =< y
    BY <1>4, <1>6, Least
  <2>2. QED
    BY <2>1
<1>8. lock[Wants(p)] \in H /\ pid[p] < pid[lock[Wants(p)]]
  BY <1>2, <1>3
<1>9. QED
  BY <1>5, <1>7, <1>8

\* The first state.
LEMMA InitInv == Init => Inv
<1> SUFFICES ASSUME Init PROVE Inv
  OBVIOUS
<1> USE SlotFacts DEF Init
<1>1. TypeOK
  BY IndexFacts DEF TypeOK, PCs, States
<1>2. StateInv /\ LockInv
  BY DEF StateInv, LockInv, Holds
<1>3. Immortal /\ PidInv /\ OriginalInv
  BY DEF Immortal, PidInv, OriginalInv
<1>4. ParentAlive /\ ReparentInv /\ ScanInv /\ NoLostWakeup
  BY DEF ParentAlive, ReparentInv, ScanInv, NoLostWakeup
<1>5. QED
  BY <1>1, <1>2, <1>3, <1>4 DEF Inv

\* The invariant depends on the variables only.
LEMMA StutterInv ==
  ASSUME Inv, UNCHANGED vars
  PROVE  Inv'
<1> USE DEF vars, Inv
<1>1. TypeOK' /\ StateInv' /\ LockInv'
  BY DEF TypeOK, StateInv, LockInv, Holds
<1>2. Immortal' /\ PidInv' /\ OriginalInv'
  BY DEF Immortal, PidInv, OriginalInv
<1>3. ParentAlive' /\ ReparentInv' /\ ScanInv' /\ NoLostWakeup'
  BY DEF ParentAlive, ReparentInv, ScanInv, NoLostWakeup
<1>4. QED
  BY <1>1, <1>2, <1>3

\* Inv is an invariant of the process table.
THEOREM Invariance == Spec => []Inv
<1>1. Inv /\ [Next]_vars => Inv'
  <2> SUFFICES ASSUME Inv, [Next]_vars PROVE Inv'
    OBVIOUS
  <2>1. ASSUME NEW p \in Slot, KernelStep(p) PROVE Inv'
    <3>1. CASE scheduler(p) \/ exit_wake_init(p) \/ exit_read_parent(p)
      BY <3>1, SchedulerStep, ExitWakeInitStep, ExitReadParentStep
    <3>2. CASE exit_lock_parent(p) \/ exit_lock_self(p)
      BY <3>2, ExitLockParentStep, ExitLockSelfStep
    <3>3. CASE reparent(p) \/ exit_zombie(p) \/ sched_zombie(p)
      BY <3>3, ReparentStep, ExitZombieStep, SchedZombieStep
    <3>4. CASE wait_lock(p) \/ wait_scan(p) \/ wait_reap(p)
      BY <3>4, WaitLockStep, WaitScanStep, WaitReapStep
    <3>5. CASE wait_bad_address(p) \/ wait_no_kids(p) \/ wait_sleep(p)
      BY <3>5, WaitBadAddressStep, WaitNoKidsStep, WaitSleepStep
    <3>6. QED
      BY <2>1, <3>1, <3>2, <3>3, <3>4, <3>5 DEF KernelStep
  <2>2. ASSUME NEW p \in Slot, exit(p) \/ wait(p) PROVE Inv'
    BY <2>2, ExitStep, WaitStep
  <2>3. ASSUME NEW p \in Slot, NEW s \in Slot,
               fork(p, s) \/ fork_no_trapframe(p, s) \/ fork_no_memory(p, s)
        PROVE  Inv'
    BY <2>3, ForkStep, ForkNoTrapframeStep, ForkNoMemoryStep
  <2>4. ASSUME NEW p \in Slot, NEW n \in KILL, kill(p, n) PROVE Inv'
    BY <2>4, KillStep, ProcConstants
  <2>5. CASE UNCHANGED vars
    BY <2>5, StutterInv
  <2>6. QED
    BY <2>1, <2>2, <2>3, <2>4, <2>5 DEF Next
<1>2. QED
  BY InitInv, <1>1, PTL DEF Spec

----------------------------------------------------------------------------
(* What it means for the code.                                             *)

\* For a process table of any size, a slot is free only when its last thread
\* has left its kernel stack: wait() needs the lock which exit() holds until
\* the scheduler has switched away.
THEOREM AlwaysFreedWhenGone == Spec => []FreedWhenGone
<1>1. Inv => FreedWhenGone
  BY DEF Inv, FreedWhenGone, StateInv
<1>2. QED
  BY Invariance, <1>1, PTL

\* For a process table of any size, every process but init has a living parent.
THEOREM ParentAlwaysAlive == Spec => []ParentAlive
<1>1. Inv => ParentAlive
  BY DEF Inv
<1>2. QED
  BY Invariance, <1>1, PTL

\* For a process table of any size, no process but init sleeps in wait() while
\* it has a zombie child, although exit() reads the parent without a lock.
THEOREM WakeupNeverLost == Spec => []NoLostWakeup
<1>1. Inv => NoLostWakeup
  BY DEF Inv
<1>2. QED
  BY Invariance, <1>1, PTL

\* For a process table of any size, a circle of processes that spin for each
\* other's locks contains one whose exit() uses a stale parent.
THEOREM NeverCircleUnlessStale == Spec => []NoCycleUnlessStale
<1>1. QED
  BY Invariance, NoCircle, PTL
=============================================================================
