---------------------------- MODULE SchedProofs ----------------------------
(***************************************************************************)
(* Proofs about the scheduler, spin locks, sleep and wakeup for every      *)
(* number of cpus and of process slots: interrupts are off while a spin    *)
(* lock is held, no two cpus run one process or hold one lock, and no      *)
(* wakeup() of a sleep lock is missed.                                     *)
(***************************************************************************)
EXTENDS Sched, FiniteSetTheorems, TLAPS

-----------------------------------------------------------------------------
(* The inductive invariant *)

\* A thread that swtch() has left, or is about to come back to, is here, with
\* its own p->lock held by the CPU on the other side.
Switched == {"forkret", "asleep", "yielded"}
HasLK == {"sleep", "wakeup"}

\* The spin locks CPU c holds, by where it is: at most one.
Holds(c, l) ==
  IF running[c] = None THEN switched[c] /\ l = slot[c]
  ELSE \/ pc[running[c]] \in Switched /\ l = running[c]
       \/ pc[running[c]] \in HasLK /\ l = LK
HoldsOne(c) ==
  IF running[c] = None THEN switched[c] ELSE pc[running[c]] \in Switched \cup HasLK

\* lk->cpu says who holds what.
HolderInv == \A c \in CPU, l \in Lock : holder[l] = c <=> Holds(c, l)

\* A CPU runs the process that its scheduler() has switched to; it spins only
\* where the code acquires a lock.
CpuAt(c) ==
  /\ running[c] # None => switched[c] /\ slot[c] = running[c]
  /\ switched[c] => slot[c] \in Slot
  /\ spinning[c] => Wants(c) \in Lock
CpuInv == \A c \in CPU : CpuAt(c)

\* noff is the number of locks held and awaited; a thread that is going to
\* enable interrupts again remembers that they were on, in c->intena while it
\* runs and in its own saved while it does not.
NoffAt(c) ==
  /\ noff[c] = (IF HoldsOne(c) THEN 1 ELSE 0) + (IF spinning[c] THEN 1 ELSE 0)
  /\ noff[c] > 0 => ~intr[c]
  /\ running[c] # None =>
       /\ pc[running[c]] = "yield" => ~intr[c]
       /\ pc[running[c]] \notin Switched \cup {"yield"} =>
            IF noff[c] = 0 THEN intr[c] ELSE intena[c]
NoffInv == \A c \in CPU : NoffAt(c)
SavedInv == \A p \in Slot : pc[p] = "asleep" => saved[p]

\* RUNNING processes are those on CPUs, each on one ...
OnceInv == \A c, d \in CPU : running[c] # None /\ running[c] = running[d] => c = d
RunInv == \A p \in Slot : state[p] = "RUNNING" <=> \E c \in CPU : running[c] = p

\* ... and all others are inside swtch(); a sleeper can be found by wakeup().
AwayInv ==
  \A p \in Slot :
    /\ state[p] # "RUNNING" => pc[p] \in Switched
    /\ state[p] = "SLEEPING" => pc[p] = "asleep"
    /\ pc[p] = "asleep" => chan[p]

\* The timer comes only where interrupts are on.
Interruptible == {"user", "acquiresleep", "hold", "releasesleep", "kill"}
RetInv ==
  \A p \in Slot :
    /\ pc[p] # "none"
    /\ pc[p] \in {"yield", "yielded"} => ret[p] \in Interruptible

\* Who is about to sleep has seen the lock taken and still holds its spin
\* lock; wakeup() has left no sleeper behind.
WakeInv ==
  \A p \in Slot :
    /\ pc[p] = "sleep" => locked
    /\ pc[p] = "wakeup" => \A q \in Slot : q < i[p] => state[q] # "SLEEPING"

\* The inductive invariant: p->lock is handed over at swtch(), interrupts are
\* restored by who turned them off, and a sleeper holds the spin lock until it
\* can be woken.
Inv ==
  /\ TypeOK /\ NoPanic /\ HolderInv /\ CpuInv /\ NoffInv /\ SavedInv
  /\ OnceInv /\ RunInv /\ AwayInv /\ RetInv /\ SleepLockExclusive /\ WakeInv /\ NoMissedWakeup

-----------------------------------------------------------------------------
(* Lemmas and theorems *)

\* The step leaves cpu d and the process it runs alone.
Elsewhere(d) ==
  /\ running'[d] = running[d] /\ switched'[d] = switched[d] /\ slot'[d] = slot[d]
  /\ noff'[d] = noff[d] /\ intr'[d] = intr[d] /\ intena'[d] = intena[d]
  /\ spinning'[d] = spinning[d]
  /\ running[d] # None => /\ pc'[running[d]] = pc[running[d]]
                          /\ i'[running[d]] = i[running[d]]

\* LK, the process locks and None are all different.
LEMMA LockFacts ==
  /\ LK \in Lock /\ LK \notin Slot /\ Slot \subseteq Lock
  /\ None \notin Slot /\ None \notin Lock /\ None \notin CPU
BY SchedConstants DEF LK, Lock, Slot

\* The loop variables stay in the process table or one past its end.
LEMMA IndexFacts ==
  /\ 1 \in 1..(NPROC + 1)
  /\ \A n \in Slot : n \in 1..(NPROC + 1) /\ n + 1 \in 1..(NPROC + 1)
BY SchedConstants DEF Slot

\* What the invariant says of a cpu that the step leaves alone stays true.
LEMMA ElsewhereSame ==
  ASSUME NEW d \in CPU, Elsewhere(d), CpuAt(d), NoffAt(d)
  PROVE  CpuAt(d)' /\ NoffAt(d)' /\ \A l \in Lock : Holds(d, l)' <=> Holds(d, l)
<1> USE DEF Elsewhere
<1>1. Wants(d)' = Wants(d)
  BY DEF Wants
<1>2. CpuAt(d)'
  BY <1>1 DEF CpuAt
<1>3. HoldsOne(d)' <=> HoldsOne(d)
  BY DEF HoldsOne
<1>4. NoffAt(d)'
  BY <1>3 DEF NoffAt
<1>5. \A l \in Lock : Holds(d, l)' <=> Holds(d, l)
  BY DEF Holds
<1>6. QED
  BY <1>2, <1>4, <1>5

\* So a step of cpu c has to be looked at on cpu c only.
LEMMA OneCpuMoves ==
  ASSUME HolderInv, CpuInv, NoffInv, NEW c \in CPU,
         \A d \in CPU \ {c} : Elsewhere(d),
         \A l \in Lock : holder'[l] = c <=> Holds(c, l)',
         \A d \in CPU \ {c}, l \in Lock : holder'[l] = d <=> holder[l] = d,
         CpuAt(c)', NoffAt(c)'
  PROVE  HolderInv' /\ CpuInv' /\ NoffInv'
<1>1. \A d \in CPU \ {c} :
        CpuAt(d)' /\ NoffAt(d)' /\ \A l \in Lock : Holds(d, l)' <=> Holds(d, l)
  BY ElsewhereSame DEF CpuInv, NoffInv
<1>2. HolderInv'
  BY <1>1 DEF HolderInv
<1>3. QED
  BY <1>1, <1>2 DEF CpuInv, NoffInv

\* A process that runs on cpu c runs nowhere else.
LEMMA OnCpu ==
  ASSUME Inv, NEW c \in CPU, NEW p \in Slot, running[c] = p
  PROVE  /\ p # None /\ state[p] = "RUNNING"
         /\ CpuAt(c) /\ NoffAt(c)
         /\ \A d \in CPU \ {c} : running[d] # p
BY LockFacts DEF Inv, RunInv, OnceInv, CpuInv, NoffInv

\* Who is inside the sleep lock's spin lock holds it.
LEMMA InsideLK ==
  ASSUME Inv, NEW p \in Slot, pc[p] \in HasLK
  PROVE  \E d \in CPU : running[d] = p /\ holder[LK] = d
<1>1. state[p] = "RUNNING"
  BY DEF Inv, AwayInv, HasLK, Switched
<1>2. PICK d \in CPU : running[d] = p
  BY <1>1 DEF Inv, RunInv
<1>3. Holds(d, LK)
  BY <1>2, LockFacts DEF Holds
<1>4. QED
  BY <1>2, <1>3, LockFacts DEF Inv, HolderInv

\* push_off() counts one more and turns interrupts off; the thread does not hold
\* the lock it asks for, so acquire() does not panic.
LEMMA PushOffStep ==
  ASSUME Inv, NEW c \in CPU, push_off(c)
  PROVE Inv'
<1> USE LockFacts DEF Inv, push_off, push_count, cpuvars, procvars, lockvars
<1>1. CpuAt(c) /\ NoffAt(c)
  BY DEF CpuInv, NoffInv
<1>2. \A d \in CPU \ {c} : Elsewhere(d)
  BY DEF Elsewhere
<1>3. \A l \in Lock : holder'[l] = c <=> Holds(c, l)'
  BY DEF HolderInv, Holds
<1>4. \A d \in CPU \ {c}, l \in Lock : holder'[l] = d <=> holder[l] = d
  OBVIOUS
<1>5. CpuAt(c)'
  BY <1>1 DEF CpuAt, Wants
<1>6. NoffAt(c)'
  BY <1>1 DEF TypeOK, NoffAt, HoldsOne
<1>7. HolderInv' /\ CpuInv' /\ NoffInv'
  BY <1>2, <1>3, <1>5, <1>6, OneCpuMoves
<1>8. noff' \in [CPU -> Nat]
  BY DEF TypeOK
<1>9. TypeOK'
  BY DEF TypeOK
<1>10. NoPanic'
  <2>1. ~Holds(c, Wants(c))
    BY DEF Wants, Holds, Switched, HasLK, TypeOK
  <2>2. Wants(c) \in Lock
    BY DEF Wants, TypeOK
  <2>3. QED
    BY <2>1, <2>2 DEF HolderInv, NoPanic
<1>11. SavedInv'
  BY DEF SavedInv
<1>12. OnceInv'
  BY DEF OnceInv
<1>13. RunInv'
  BY DEF RunInv
<1>14. AwayInv'
  BY DEF AwayInv
<1>15. RetInv'
  BY DEF RetInv
<1>16. SleepLockExclusive'
  BY DEF SleepLockExclusive, InCriticalSection
<1>17. WakeInv'
  BY DEF WakeInv
<1>18. NoMissedWakeup'
  BY DEF NoMissedWakeup
<1>19. QED
  BY <1>7, <1>9, <1>10, <1>11, <1>12, <1>13, <1>14, <1>15, <1>16, <1>17, <1>18

\* scheduler() keeps p->lock where it switches to p, and p is inside its own
\* swtch(), so the lock becomes p's to release.
LEMMA SchedulerStep ==
  ASSUME Inv, NEW c \in CPU, scheduler(c)
  PROVE Inv'
<1> USE LockFacts
        DEF Inv, scheduler, InScheduler, Acquired, Keep, LockAndRelease, pop_off,
        cpuvars, procvars, lockvars
<1>1. CpuAt(c) /\ NoffAt(c)
  BY DEF CpuInv, NoffInv
<1>2. Wants(c) = slot[c] /\ slot[c] \in Slot
  BY <1>1 DEF CpuAt, Wants
<1>3. \A d \in CPU \ {c} : Elsewhere(d)
  BY DEF Elsewhere, TypeOK
<1>4. \A l \in Lock : holder'[l] = c <=> Holds(c, l)'
  <2>1. \A l \in Lock : ~Holds(c, l)
    BY <1>2 DEF Wants, Holds
  <2>2. CASE state[slot[c]] = "RUNNABLE"
    <3>1. pc[slot[c]] \in Switched
      BY <2>2, <1>2 DEF AwayInv
    <3>2. \A l \in Lock : Holds(c, l)' <=> l = slot[c]
      BY <2>2, <3>1 DEF TypeOK, Holds, Switched, HasLK
    <3>3. QED
      BY <2>1, <2>2, <3>2, <1>2 DEF TypeOK, HolderInv
  <2>3. CASE state[slot[c]] # "RUNNABLE"
    BY <2>3, <1>2 DEF HolderInv, Holds
  <2>4. QED
    BY <2>2, <2>3
<1>5. \A d \in CPU \ {c}, l \in Lock : holder'[l] = d <=> holder[l] = d
  BY <1>2 DEF TypeOK
<1>6. CpuAt(c)'
  BY <1>1 DEF TypeOK, CpuAt, Wants
<1>7. NoffAt(c)'
  <2>1. CASE state[slot[c]] = "RUNNABLE"
    BY <1>1, <1>2 DEF TypeOK, NoffAt, HoldsOne, Wants, AwayInv
  <2>2. CASE ~(state[slot[c]] = "RUNNABLE")
    BY <2>2, <1>1 DEF TypeOK, NoffAt, HoldsOne
  <2>3. QED
    BY <2>1, <2>2
<1>8. HolderInv' /\ CpuInv' /\ NoffInv'
  BY <1>3, <1>4, <1>5, <1>6, <1>7, OneCpuMoves
<1>9. noff' \in [CPU -> Nat]
  BY <1>1 DEF TypeOK, NoffAt
<1>10. TypeOK'
  <2>1. CASE state[slot[c]] = "RUNNABLE"
    <3>1. state' \in [Slot -> {"SLEEPING", "RUNNABLE", "RUNNING"}]
      BY DEF TypeOK
    <3>2. running' \in [CPU -> Slot \cup {None}] /\ switched' \in [CPU -> BOOLEAN]
      BY <2>1, <1>2 DEF TypeOK
    <3>3. holder' \in [Lock -> CPU \cup {None}]
      BY DEF TypeOK
    <3>4. QED
      BY <2>1, <3>1, <3>2, <3>3, <1>9 DEF TypeOK
  <2>2. CASE state[slot[c]] # "RUNNABLE"
    BY <2>2, <1>2, <1>9, IndexFacts DEF TypeOK
  <2>3. QED
    BY <2>1, <2>2
<1>11. NoPanic'
  BY DEF NoPanic
<1>12. SavedInv'
  BY DEF SavedInv
<1>13. OnceInv'
  BY DEF TypeOK, OnceInv, RunInv
<1>14. RunInv'
  BY DEF TypeOK, RunInv
<1>15. AwayInv'
  BY DEF TypeOK, AwayInv
<1>16. RetInv'
  BY DEF RetInv
<1>17. SleepLockExclusive'
  BY DEF SleepLockExclusive, InCriticalSection
<1>18. WakeInv'
  BY DEF TypeOK, WakeInv, AwayInv, Switched
<1>19. NoMissedWakeup'
  BY DEF TypeOK, WakeInv, NoMissedWakeup
<1>20. QED
  BY <1>8, <1>10, <1>11, <1>12, <1>13, <1>14, <1>15, <1>16, <1>17, <1>18, <1>19

\* scheduler() releases the lock that the thread it comes back from acquired.
LEMMA SchedulerBackStep ==
  ASSUME Inv, NEW c \in CPU, scheduler_back(c)
  PROVE Inv'
<1> USE LockFacts
        DEF Inv, scheduler_back, InScheduler, Release, pop_off, cpuvars, procvars,
        lockvars
<1>1. CpuAt(c) /\ NoffAt(c)
  BY DEF CpuInv, NoffInv
<1>2. \A d \in CPU \ {c} : Elsewhere(d)
  BY DEF Elsewhere
<1>3. \A l \in Lock : Holds(c, l) <=> l = slot[c]
  BY DEF Holds
<1>4. \A l \in Lock : ~Holds(c, l)'
  BY DEF Holds, TypeOK
<1>5. \A l \in Lock : holder'[l] = c <=> Holds(c, l)'
  BY <1>3, <1>4 DEF TypeOK, HolderInv
<1>6. \A d \in CPU \ {c}, l \in Lock : holder'[l] = d <=> holder[l] = d
  BY <1>3 DEF HolderInv
<1>7. CpuAt(c)'
  BY <1>1 DEF TypeOK, CpuAt, Wants
<1>8. NoffAt(c)'
  BY <1>1 DEF TypeOK, NoffAt, HoldsOne
<1>9. HolderInv' /\ CpuInv' /\ NoffInv'
  BY <1>2, <1>5, <1>6, <1>7, <1>8, OneCpuMoves
<1>10. noff' \in [CPU -> Nat]
  BY <1>1 DEF TypeOK, NoffAt, HoldsOne
<1>11. TypeOK'
  BY <1>1, <1>10, IndexFacts DEF TypeOK, CpuAt
<1>12. NoPanic'
  BY DEF NoPanic
<1>13. SavedInv'
  BY DEF SavedInv
<1>14. OnceInv'
  BY DEF OnceInv
<1>15. RunInv'
  BY DEF RunInv
<1>16. AwayInv'
  BY DEF AwayInv
<1>17. RetInv'
  BY DEF RetInv
<1>18. SleepLockExclusive'
  BY DEF SleepLockExclusive, InCriticalSection
<1>19. WakeInv'
  BY DEF WakeInv
<1>20. NoMissedWakeup'
  BY DEF NoMissedWakeup
<1>21. QED
  BY <1>9, <1>11, <1>12, <1>13, <1>14, <1>15, <1>16, <1>17, <1>18, <1>19, <1>20

\* At the end of the table the scheduler holds nothing: interrupts can go on.
LEMMA SchedulerAgainStep ==
  ASSUME Inv, NEW c \in CPU, scheduler_again(c)
  PROVE Inv'
<1> USE LockFacts
        DEF Inv, scheduler_again, InScheduler, first, cpuvars, procvars, lockvars
<1>1. CpuAt(c) /\ NoffAt(c)
  BY DEF CpuInv, NoffInv
<1>2. \A d \in CPU \ {c} : Elsewhere(d)
  BY DEF Elsewhere
<1>3. \A l \in Lock : ~Holds(c, l)
  BY <1>1 DEF Holds, CpuAt
<1>4. \A l \in Lock : ~Holds(c, l)'
  BY <1>1 DEF Holds, CpuAt
<1>5. \A l \in Lock : holder'[l] = c <=> Holds(c, l)'
  BY <1>3, <1>4 DEF HolderInv
<1>6. \A d \in CPU \ {c}, l \in Lock : holder'[l] = d <=> holder[l] = d
  OBVIOUS
<1>7. CpuAt(c)'
  BY <1>1 DEF CpuAt, Wants
<1>8. NoffAt(c)'
  BY <1>1 DEF CpuAt, NoffAt, HoldsOne, Wants
<1>9. HolderInv' /\ CpuInv' /\ NoffInv'
  BY <1>2, <1>5, <1>7, <1>8, OneCpuMoves
<1>10. noff' \in [CPU -> Nat]
  BY DEF TypeOK
<1>11. TypeOK'
  BY IndexFacts DEF TypeOK
<1>12. NoPanic'
  BY DEF NoPanic
<1>13. SavedInv'
  BY DEF SavedInv
<1>14. OnceInv'
  BY DEF OnceInv
<1>15. RunInv'
  BY DEF RunInv
<1>16. AwayInv'
  BY DEF AwayInv
<1>17. RetInv'
  BY DEF RetInv
<1>18. SleepLockExclusive'
  BY DEF SleepLockExclusive, InCriticalSection
<1>19. WakeInv'
  BY DEF WakeInv
<1>20. NoMissedWakeup'
  BY DEF NoMissedWakeup
<1>21. QED
  BY <1>9, <1>11, <1>12, <1>13, <1>14, <1>15, <1>16, <1>17, <1>18, <1>19, <1>20

\* forkret() releases the lock scheduler() acquired.
LEMMA ForkretStep ==
  ASSUME Inv, NEW c \in CPU, NEW p \in Slot, forkret(c, p)
  PROVE Inv'
<1> USE LockFacts DEF Inv, forkret, At, goto, cpuvars, procvars, lockvars
<1>1. /\ running[c] = p /\ p # None /\ state[p] = "RUNNING"
      /\ CpuAt(c) /\ NoffAt(c) /\ \A d \in CPU \ {c} : running[d] # p
  BY OnCpu
<1>2. \A d \in CPU \ {c} : Elsewhere(d)
  BY <1>1 DEF Elsewhere
<1>3. \A l \in Lock : Holds(c, l) <=> l = p
  BY DEF Holds, Switched, HasLK
<1>4. \A l \in Lock : ~Holds(c, l)'
  BY DEF Holds, Switched, HasLK, TypeOK
<1>5. \A l \in Lock : holder'[l] = c <=> Holds(c, l)'
  BY <1>3, <1>4 DEF TypeOK, HolderInv
<1>6. \A d \in CPU \ {c}, l \in Lock : holder'[l] = d <=> holder[l] = d
  BY <1>3 DEF HolderInv
<1>7. CpuAt(c)'
  BY <1>1 DEF CpuAt, Wants
<1>8. NoffAt(c)'
  BY <1>1 DEF TypeOK, CpuAt, NoffAt, HoldsOne, Switched, HasLK, Wants
<1>9. HolderInv' /\ CpuInv' /\ NoffInv'
  BY <1>2, <1>5, <1>6, <1>7, <1>8, OneCpuMoves
<1>10. noff' \in [CPU -> Nat]
  BY <1>1 DEF TypeOK, NoffAt, HoldsOne, Switched
<1>11. TypeOK'
  BY <1>10 DEF TypeOK, PCs
<1>12. NoPanic'
  BY DEF NoPanic
<1>13. SavedInv'
  BY DEF SavedInv
<1>14. OnceInv'
  BY DEF OnceInv
<1>15. RunInv'
  BY DEF RunInv
<1>16. AwayInv'
  BY <1>1 DEF AwayInv
<1>17. RetInv'
  BY DEF RetInv
<1>18. SleepLockExclusive'
  BY DEF SleepLockExclusive, InCriticalSection
<1>19. WakeInv'
  BY DEF WakeInv
<1>20. NoMissedWakeup'
  BY DEF NoMissedWakeup
<1>21. QED
  BY <1>9, <1>11, <1>12, <1>13, <1>14, <1>15, <1>16, <1>17, <1>18, <1>19, <1>20

\* A timer interrupt comes only where no lock is held or awaited.
LEMMA TimerStep ==
  ASSUME Inv, NEW c \in CPU, NEW p \in Slot, timer(c, p)
  PROVE Inv'
<1> USE LockFacts DEF Inv, timer, goto, cpuvars, procvars, lockvars
<1>1. /\ running[c] = p /\ p # None /\ state[p] = "RUNNING"
      /\ CpuAt(c) /\ NoffAt(c) /\ \A d \in CPU \ {c} : running[d] # p
  BY OnCpu
<1>2. \A d \in CPU \ {c} : Elsewhere(d)
  BY <1>1 DEF Elsewhere
<1>3. \A l \in Lock : ~Holds(c, l)
  BY <1>1 DEF Holds, NoffAt, HoldsOne
<1>4. \A l \in Lock : ~Holds(c, l)'
  BY DEF Holds, Switched, HasLK, TypeOK
<1>5. \A l \in Lock : holder'[l] = c <=> Holds(c, l)'
  BY <1>3, <1>4 DEF HolderInv
<1>6. \A d \in CPU \ {c}, l \in Lock : holder'[l] = d <=> holder[l] = d
  OBVIOUS
<1>7. CpuAt(c)'
  BY <1>1 DEF CpuAt, NoffAt
<1>8. NoffAt(c)'
  BY <1>1 DEF TypeOK, NoffAt, HoldsOne, Switched, HasLK
<1>9. HolderInv' /\ CpuInv' /\ NoffInv'
  BY <1>2, <1>5, <1>7, <1>8, OneCpuMoves
<1>10. noff' \in [CPU -> Nat]
  BY DEF TypeOK
<1>11. TypeOK'
  BY DEF TypeOK, PCs
<1>12. NoPanic'
  BY DEF NoPanic
<1>13. SavedInv'
  BY DEF SavedInv
<1>14. OnceInv'
  BY DEF OnceInv
<1>15. RunInv'
  BY DEF RunInv
<1>16. AwayInv'
  BY <1>1 DEF AwayInv
<1>17. RetInv'
  BY <1>1 DEF TypeOK, RetInv, Interruptible, NoffAt, HoldsOne, Switched, HasLK, PCs
<1>18. SleepLockExclusive'
  <2>1. pc[p] \notin {"yield", "yielded"}
    BY <1>1 DEF NoffAt, HoldsOne, Switched
  <2>2. \A q \in Slot : InCriticalSection(q)' <=> InCriticalSection(q)
    BY <2>1 DEF InCriticalSection, TypeOK
  <2>3. QED
    BY <2>2 DEF SleepLockExclusive
<1>19. WakeInv'
  BY DEF WakeInv
<1>20. NoMissedWakeup'
  BY <1>1 DEF NoMissedWakeup, NoffAt, HoldsOne, HasLK
<1>21. QED
  BY <1>9, <1>11, <1>12, <1>13, <1>14, <1>15, <1>16, <1>17, <1>18, <1>19, <1>20

\* yield() passes the checks of sched() and leaves its lock to the scheduler.
LEMMA YieldStep ==
  ASSUME Inv, NEW c \in CPU, NEW p \in Slot, yield(c, p)
  PROVE Inv'
<1> USE LockFacts DEF Inv, yield, At, goto, Acquired, sched, cpuvars, procvars, lockvars
<1>1. /\ running[c] = p /\ p # None /\ state[p] = "RUNNING"
      /\ CpuAt(c) /\ NoffAt(c) /\ \A d \in CPU \ {c} : running[d] # p
  BY OnCpu
<1>2. Wants(c) = p
  BY DEF Wants
<1>3. \A d \in CPU \ {c} : Elsewhere(d)
  BY <1>1 DEF Elsewhere
<1>4. \A l \in Lock : ~Holds(c, l)
  BY DEF Holds, Switched, HasLK
<1>5. \A l \in Lock : Holds(c, l)' <=> l = p
  BY <1>1 DEF Holds, TypeOK, CpuAt
<1>6. \A l \in Lock : holder'[l] = c <=> Holds(c, l)'
  BY <1>4, <1>5 DEF TypeOK, HolderInv
<1>7. \A d \in CPU \ {c}, l \in Lock : holder'[l] = d <=> holder[l] = d
  BY <1>2
<1>8. CpuAt(c)'
  BY <1>1 DEF TypeOK, CpuAt
<1>9. NoffAt(c)'
  BY <1>1 DEF TypeOK, CpuAt, NoffAt, HoldsOne, Switched, HasLK
<1>10. HolderInv' /\ CpuInv' /\ NoffInv'
  BY <1>3, <1>6, <1>7, <1>8, <1>9, OneCpuMoves
<1>11. noff' \in [CPU -> Nat]
  BY DEF TypeOK
<1>12. TypeOK'
  BY DEF TypeOK, PCs
<1>13. NoPanic'
  BY <1>1 DEF NoPanic, TypeOK, NoffAt, HoldsOne, Switched, HasLK
<1>14. SavedInv'
  BY DEF SavedInv
<1>15. OnceInv'
  BY DEF OnceInv
<1>16. RunInv'
  BY <1>1 DEF TypeOK, RunInv
<1>17. AwayInv'
  BY DEF TypeOK, AwayInv, Switched
<1>18. RetInv'
  BY DEF RetInv
<1>19. SleepLockExclusive'
  BY DEF SleepLockExclusive, InCriticalSection
<1>20. WakeInv'
  BY DEF WakeInv
<1>21. NoMissedWakeup'
  BY DEF NoMissedWakeup
<1>22. QED
  BY <1>10, <1>12, <1>13, <1>14, <1>15, <1>16, <1>17, <1>18, <1>19, <1>20, <1>21

\* The thread comes back from the trap with interrupts on, where it was.
LEMMA YieldReturnStep ==
  ASSUME Inv, NEW c \in CPU, NEW p \in Slot, yield_return(c, p)
  PROVE Inv'
<1> USE LockFacts
        DEF Inv, yield_return, At, goto, IntenaBack, cpuvars, procvars, lockvars
<1>1. /\ running[c] = p /\ p # None /\ state[p] = "RUNNING"
      /\ CpuAt(c) /\ NoffAt(c) /\ \A d \in CPU \ {c} : running[d] # p
  BY OnCpu
<1>2. \A d \in CPU \ {c} : Elsewhere(d)
  BY <1>1 DEF Elsewhere
<1>3. \A l \in Lock : Holds(c, l) <=> l = p
  BY DEF Holds, Switched, HasLK
<1>4. \A l \in Lock : ~Holds(c, l)'
  BY DEF Holds, Switched, HasLK, TypeOK, RetInv, Interruptible
<1>5. \A l \in Lock : holder'[l] = c <=> Holds(c, l)'
  BY <1>3, <1>4 DEF TypeOK, HolderInv
<1>6. \A d \in CPU \ {c}, l \in Lock : holder'[l] = d <=> holder[l] = d
  BY <1>3 DEF HolderInv
<1>7. CpuAt(c)'
  BY <1>1 DEF CpuAt, Wants
<1>8. NoffAt(c)'
  BY <1>1
     DEF TypeOK, CpuAt, NoffAt, HoldsOne, Switched, HasLK, Wants, RetInv,
         Interruptible
<1>9. HolderInv' /\ CpuInv' /\ NoffInv'
  BY <1>2, <1>5, <1>6, <1>7, <1>8, OneCpuMoves
<1>10. noff' \in [CPU -> Nat]
  BY <1>1 DEF TypeOK, NoffAt, HoldsOne, Switched
<1>11. TypeOK'
  BY <1>10 DEF TypeOK, PCs
<1>12. NoPanic'
  BY DEF NoPanic
<1>13. SavedInv'
  BY DEF SavedInv, RetInv, Interruptible
<1>14. OnceInv'
  BY DEF OnceInv
<1>15. RunInv'
  BY DEF RunInv
<1>16. AwayInv'
  BY <1>1 DEF AwayInv, RetInv, Interruptible
<1>17. RetInv'
  BY DEF TypeOK, RetInv, Interruptible
<1>18. SleepLockExclusive'
  BY DEF TypeOK, SleepLockExclusive, InCriticalSection
<1>19. WakeInv'
  BY DEF WakeInv, RetInv, Interruptible
<1>20. NoMissedWakeup'
  BY DEF NoMissedWakeup
<1>21. QED
  BY <1>9, <1>11, <1>12, <1>13, <1>14, <1>15, <1>16, <1>17, <1>18, <1>19, <1>20

\* The steps that only move a thread without locks: acquiresleep() and
\* releasesleep() up to their acquire(), and kill() up to its loop.
LEMMA SyscallStep ==
  ASSUME Inv, NEW c \in CPU, NEW p \in Slot,
         acquiresleep(c, p) \/ releasesleep(c, p) \/ kill(c, p)
  PROVE Inv'
<1> USE LockFacts
        DEF Inv, acquiresleep, releasesleep, kill, At, goto, cpuvars, procvars, lockvars
<1>1. /\ running[c] = p /\ p # None /\ state[p] = "RUNNING"
      /\ CpuAt(c) /\ NoffAt(c) /\ \A d \in CPU \ {c} : running[d] # p
  BY OnCpu
<1>2. \A d \in CPU \ {c} : Elsewhere(d)
  BY <1>1 DEF Elsewhere, TypeOK
<1>3. \A l \in Lock : ~Holds(c, l)
  BY DEF Holds, Switched, HasLK
<1>4. \A l \in Lock : ~Holds(c, l)'
  BY DEF Holds, Switched, HasLK, TypeOK
<1>5. \A l \in Lock : holder'[l] = c <=> Holds(c, l)'
  BY <1>3, <1>4 DEF HolderInv
<1>6. \A d \in CPU \ {c}, l \in Lock : holder'[l] = d <=> holder[l] = d
  OBVIOUS
<1>7. CpuAt(c)'
  BY <1>1 DEF CpuAt, Wants
<1>8. NoffAt(c)'
  BY <1>1 DEF TypeOK, NoffAt, HoldsOne, Switched, HasLK
<1>9. HolderInv' /\ CpuInv' /\ NoffInv'
  BY <1>2, <1>5, <1>7, <1>8, OneCpuMoves
<1>10. noff' \in [CPU -> Nat]
  BY DEF TypeOK
<1>11. TypeOK'
  BY DEF TypeOK, PCs
<1>12. NoPanic'
  BY DEF NoPanic
<1>13. SavedInv'
  BY DEF TypeOK, SavedInv
<1>14. OnceInv'
  BY DEF OnceInv
<1>15. RunInv'
  BY DEF RunInv
<1>16. AwayInv'
  BY <1>1 DEF TypeOK, AwayInv
<1>17. RetInv'
  BY DEF TypeOK, RetInv
<1>18. SleepLockExclusive'
  BY DEF TypeOK, SleepLockExclusive, InCriticalSection
<1>19. WakeInv'
  BY DEF TypeOK, WakeInv
<1>20. NoMissedWakeup'
  BY DEF TypeOK, WakeInv, NoMissedWakeup
<1>21. QED
  BY <1>9, <1>11, <1>12, <1>13, <1>14, <1>15, <1>16, <1>17, <1>18, <1>19, <1>20

\* acquiresleep() takes the free lock, or goes to sleep with the spin lock held.
LEMMA AcquiresleepTryStep ==
  ASSUME Inv, NEW c \in CPU, NEW p \in Slot, acquiresleep_try(c, p)
  PROVE Inv'
<1> USE LockFacts
        DEF Inv, acquiresleep_try, At, goto, Acquired, Keep, LockAndRelease, pop_off,
        cpuvars, procvars, lockvars
<1>1. /\ running[c] = p /\ p # None /\ state[p] = "RUNNING"
      /\ CpuAt(c) /\ NoffAt(c) /\ \A d \in CPU \ {c} : running[d] # p
  BY OnCpu
<1>2. Wants(c) = LK
  BY DEF Wants
<1>3. \A d \in CPU \ {c} : Elsewhere(d)
  BY <1>1 DEF Elsewhere, TypeOK
<1>4. \A l \in Lock : holder'[l] = c <=> Holds(c, l)'
  <2>1. CASE locked
    BY DEF TypeOK, HolderInv, Holds, Switched, HasLK
  <2>2. CASE ~(locked)
    BY DEF TypeOK, HolderInv, Holds, Switched, HasLK
  <2>3. QED
    BY <2>1, <2>2
<1>5. \A d \in CPU \ {c}, l \in Lock : holder'[l] = d <=> holder[l] = d
  BY <1>2 DEF TypeOK
<1>6. CpuAt(c)'
  BY <1>1 DEF TypeOK, CpuAt
<1>7. NoffAt(c)'
  <2>1. CASE locked
    BY <2>1, <1>1 DEF TypeOK, NoffAt, HoldsOne, Switched, HasLK
  <2>2. CASE ~(locked)
    BY <2>2, <1>1 DEF TypeOK, NoffAt, HoldsOne, Switched, HasLK
  <2>3. QED
    BY <2>1, <2>2
<1>8. HolderInv' /\ CpuInv' /\ NoffInv'
  BY <1>3, <1>4, <1>5, <1>6, <1>7, OneCpuMoves
<1>9. noff' \in [CPU -> Nat]
  <2>1. CASE locked
    BY <2>1 DEF TypeOK
  <2>2. CASE ~(locked)
    BY <1>1 DEF TypeOK, NoffAt
  <2>3. QED
    BY <2>1, <2>2
<1>10. TypeOK'
  <2>1. CASE locked
    BY <2>1 DEF TypeOK, PCs
  <2>2. CASE ~(locked)
    BY <2>2, <1>9 DEF TypeOK, PCs
  <2>3. QED
    BY <2>1, <2>2
<1>11. NoPanic'
  BY DEF NoPanic
<1>12. SavedInv'
  <2>1. CASE locked
    BY DEF TypeOK, SavedInv
  <2>2. CASE ~(locked)
    BY DEF TypeOK, SavedInv
  <2>3. QED
    BY <2>1, <2>2
<1>13. OnceInv'
  BY DEF OnceInv
<1>14. RunInv'
  BY DEF RunInv
<1>15. AwayInv'
  BY <1>1 DEF TypeOK, AwayInv
<1>16. RetInv'
  <2>1. CASE locked
    BY DEF TypeOK, RetInv
  <2>2. CASE ~(locked)
    BY DEF TypeOK, RetInv
  <2>3. QED
    BY <2>1, <2>2
<1>17. SleepLockExclusive'
  BY DEF TypeOK, SleepLockExclusive, InCriticalSection
<1>18. WakeInv'
  <2>1. \A q \in Slot : pc[q] \notin HasLK
    BY <1>2, InsideLK
  <2>2. QED
    BY <1>1, <2>1 DEF TypeOK, WakeInv, HasLK
<1>19. NoMissedWakeup'
  BY DEF NoMissedWakeup
<1>20. QED
  BY <1>8, <1>10, <1>11, <1>12, <1>13, <1>14, <1>15, <1>16, <1>17, <1>18, <1>19

\* sleep() exchanges the spin lock for p->lock and passes the checks of sched();
\* no wakeup() is under way, since that would hold the spin lock.
LEMMA SleepStep ==
  ASSUME Inv, NEW c \in CPU, NEW p \in Slot, sleep(c, p)
  PROVE Inv'
<1> USE LockFacts DEF Inv, sleep, At, goto, Acquired, sched, cpuvars, procvars, lockvars
<1>1. /\ running[c] = p /\ p # None /\ state[p] = "RUNNING"
      /\ CpuAt(c) /\ NoffAt(c) /\ \A d \in CPU \ {c} : running[d] # p
  BY OnCpu
<1>2. Wants(c) = p
  BY DEF Wants
<1>3. \A d \in CPU \ {c} : Elsewhere(d)
  BY <1>1 DEF Elsewhere
<1>4. \A l \in Lock : Holds(c, l) <=> l = LK
  BY DEF Holds, Switched, HasLK
<1>5. \A l \in Lock : Holds(c, l)' <=> l = p
  BY <1>1 DEF Holds, TypeOK, CpuAt
<1>6. \A l \in Lock : holder'[l] = c <=> Holds(c, l)'
  BY <1>4, <1>5 DEF TypeOK, HolderInv
<1>7. \A d \in CPU \ {c}, l \in Lock : holder'[l] = d <=> holder[l] = d
  BY <1>4, <1>2 DEF TypeOK, HolderInv
<1>8. CpuAt(c)'
  BY <1>1 DEF TypeOK, CpuAt
<1>9. NoffAt(c)'
  BY <1>1 DEF TypeOK, CpuAt, NoffAt, HoldsOne, HasLK
<1>10. HolderInv' /\ CpuInv' /\ NoffInv'
  BY <1>3, <1>6, <1>7, <1>8, <1>9, OneCpuMoves
<1>11. noff' \in [CPU -> Nat]
  BY <1>1 DEF TypeOK, NoffAt
<1>12. TypeOK'
  BY <1>11 DEF TypeOK, PCs
<1>13. NoPanic'
  BY <1>1 DEF NoPanic, TypeOK, NoffAt, HoldsOne, HasLK
<1>14. SavedInv'
  BY <1>1 DEF TypeOK, NoffAt, SavedInv, Switched
<1>15. OnceInv'
  BY DEF OnceInv
<1>16. RunInv'
  BY <1>1 DEF TypeOK, RunInv
<1>17. AwayInv'
  BY DEF TypeOK, AwayInv, Switched
<1>18. RetInv'
  BY DEF RetInv
<1>19. SleepLockExclusive'
  BY DEF SleepLockExclusive, InCriticalSection
<1>20. WakeInv'
  BY InsideLK DEF WakeInv, HasLK
<1>21. NoMissedWakeup'
  BY DEF WakeInv, NoMissedWakeup
<1>22. QED
  BY <1>10, <1>12, <1>13, <1>14, <1>15, <1>16, <1>17, <1>18, <1>19, <1>20, <1>21

\* The end of sleep() releases p->lock with the interrupt state of its caller.
LEMMA SleepReturnStep ==
  ASSUME Inv, NEW c \in CPU, NEW p \in Slot, sleep_return(c, p)
  PROVE Inv'
<1> USE LockFacts
        DEF Inv, sleep_return, At, goto, IntenaBack, Release, pop_off, again, cpuvars,
        procvars, lockvars
<1>1. /\ running[c] = p /\ p # None /\ state[p] = "RUNNING"
      /\ CpuAt(c) /\ NoffAt(c) /\ \A d \in CPU \ {c} : running[d] # p
  BY OnCpu
<1>2. \A d \in CPU \ {c} : Elsewhere(d)
  BY <1>1 DEF Elsewhere
<1>3. \A l \in Lock : Holds(c, l) <=> l = p
  BY DEF Holds, Switched, HasLK
<1>4. \A l \in Lock : ~Holds(c, l)'
  BY DEF Holds, Switched, HasLK, TypeOK
<1>5. \A l \in Lock : holder'[l] = c <=> Holds(c, l)'
  BY <1>3, <1>4 DEF TypeOK, HolderInv
<1>6. \A d \in CPU \ {c}, l \in Lock : holder'[l] = d <=> holder[l] = d
  BY <1>3 DEF HolderInv
<1>7. CpuAt(c)'
  BY <1>1 DEF CpuAt, Wants
<1>8. NoffAt(c)'
  BY <1>1 DEF TypeOK, NoffAt, HoldsOne, Switched, HasLK, SavedInv
<1>9. HolderInv' /\ CpuInv' /\ NoffInv'
  BY <1>2, <1>5, <1>6, <1>7, <1>8, OneCpuMoves
<1>10. noff' \in [CPU -> Nat]
  BY <1>1 DEF TypeOK, NoffAt, HoldsOne, Switched
<1>11. TypeOK'
  BY <1>10 DEF TypeOK, PCs
<1>12. NoPanic'
  BY DEF NoPanic
<1>13. SavedInv'
  BY DEF SavedInv
<1>14. OnceInv'
  BY DEF OnceInv
<1>15. RunInv'
  BY DEF RunInv
<1>16. AwayInv'
  BY <1>1 DEF TypeOK, AwayInv
<1>17. RetInv'
  BY DEF RetInv
<1>18. SleepLockExclusive'
  BY DEF SleepLockExclusive, InCriticalSection
<1>19. WakeInv'
  BY DEF WakeInv
<1>20. NoMissedWakeup'
  BY DEF NoMissedWakeup
<1>21. QED
  BY <1>9, <1>11, <1>12, <1>13, <1>14, <1>15, <1>16, <1>17, <1>18, <1>19, <1>20

\* releasesleep() frees the lock; nobody is between its test and its sleep.
LEMMA ReleasesleepUnlockStep ==
  ASSUME Inv, NEW c \in CPU, NEW p \in Slot, releasesleep_unlock(c, p)
  PROVE Inv'
<1> USE LockFacts
        DEF Inv, releasesleep_unlock, At, goto, Acquired, Keep, cpuvars, procvars,
        lockvars
<1>1. /\ running[c] = p /\ p # None /\ state[p] = "RUNNING"
      /\ CpuAt(c) /\ NoffAt(c) /\ \A d \in CPU \ {c} : running[d] # p
  BY OnCpu
<1>2. Wants(c) = LK
  BY DEF Wants
<1>3. \A d \in CPU \ {c} : Elsewhere(d)
  BY <1>1 DEF Elsewhere
<1>4. \A l \in Lock : ~Holds(c, l)
  BY DEF Holds, Switched, HasLK
<1>5. \A l \in Lock : Holds(c, l)' <=> l = LK
  BY DEF Holds, Switched, HasLK, TypeOK
<1>6. \A l \in Lock : holder'[l] = c <=> Holds(c, l)'
  BY <1>4, <1>5 DEF TypeOK, HolderInv
<1>7. \A d \in CPU \ {c}, l \in Lock : holder'[l] = d <=> holder[l] = d
  BY <1>2
<1>8. CpuAt(c)'
  BY <1>1 DEF TypeOK, CpuAt
<1>9. NoffAt(c)'
  BY <1>1 DEF TypeOK, NoffAt, HoldsOne, Switched, HasLK
<1>10. HolderInv' /\ CpuInv' /\ NoffInv'
  BY <1>3, <1>6, <1>7, <1>8, <1>9, OneCpuMoves
<1>11. noff' \in [CPU -> Nat]
  BY DEF TypeOK
<1>12. TypeOK'
  BY <1>1, <1>2, <1>11, IndexFacts DEF TypeOK, PCs, CpuAt
<1>13. NoPanic'
  BY DEF NoPanic
<1>14. SavedInv'
  BY DEF SavedInv
<1>15. OnceInv'
  BY DEF OnceInv
<1>16. RunInv'
  BY DEF RunInv
<1>17. AwayInv'
  BY <1>1 DEF AwayInv
<1>18. RetInv'
  BY DEF RetInv
<1>19. SleepLockExclusive'
  BY DEF TypeOK, SleepLockExclusive, InCriticalSection
<1>20. WakeInv'
  BY <1>2, InsideLK DEF TypeOK, WakeInv, Slot, HasLK
<1>21. NoMissedWakeup'
  BY DEF TypeOK, NoMissedWakeup
<1>22. QED
  BY <1>10, <1>12, <1>13, <1>14, <1>15, <1>16, <1>17, <1>18, <1>19, <1>20, <1>21

\* One turn of wakeup() leaves one more slot without a sleeper.
LEMMA WakeupStep ==
  ASSUME Inv, NEW c \in CPU, NEW p \in Slot, wakeup(c, p)
  PROVE Inv'
<1> USE LockFacts
        DEF Inv, wakeup, At, Acquired, Wake, LockAndRelease, pop_off, cpuvars, procvars,
        lockvars
<1>1. /\ running[c] = p /\ p # None /\ state[p] = "RUNNING"
      /\ CpuAt(c) /\ NoffAt(c) /\ \A d \in CPU \ {c} : running[d] # p
  BY OnCpu
<1>2. Wants(c) = i[p] /\ i[p] \in Slot
  BY <1>1 DEF CpuAt, Wants
<1>3. \A d \in CPU \ {c} : Elsewhere(d)
  BY <1>1 DEF Elsewhere
<1>4. \A l \in Lock : Holds(c, l) <=> l = LK
  BY DEF Holds, Switched, HasLK
<1>5. \A l \in Lock : Holds(c, l)' <=> l = LK
  BY DEF Holds, Switched, HasLK
<1>6. \A l \in Lock : holder'[l] = c <=> Holds(c, l)'
  BY <1>4, <1>5 DEF HolderInv
<1>7. \A d \in CPU \ {c}, l \in Lock : holder'[l] = d <=> holder[l] = d
  OBVIOUS
<1>8. CpuAt(c)'
  BY <1>1 DEF TypeOK, CpuAt
<1>9. NoffAt(c)'
  BY <1>1 DEF TypeOK, NoffAt, HoldsOne
<1>10. HolderInv' /\ CpuInv' /\ NoffInv'
  BY <1>3, <1>6, <1>8, <1>9, OneCpuMoves
<1>11. noff' \in [CPU -> Nat]
  BY <1>1 DEF TypeOK, NoffAt
<1>12. TypeOK'
  BY <1>2, <1>11, IndexFacts DEF TypeOK
<1>13. NoPanic'
  BY DEF NoPanic
<1>14. SavedInv'
  BY DEF SavedInv
<1>15. OnceInv'
  BY DEF OnceInv
<1>16. RunInv'
  BY DEF RunInv
<1>17. AwayInv'
  BY DEF AwayInv
<1>18. RetInv'
  BY DEF RetInv
<1>19. SleepLockExclusive'
  BY DEF SleepLockExclusive, InCriticalSection
<1>20. WakeInv'
  BY DEF TypeOK, WakeInv, AwayInv, Slot
<1>21. NoMissedWakeup'
  BY DEF NoMissedWakeup
<1>22. QED
  BY <1>10, <1>12, <1>13, <1>14, <1>15, <1>16, <1>17, <1>18, <1>19, <1>20, <1>21

\* wakeup() has passed the whole table when releasesleep() ends.
LEMMA WakeupDoneStep ==
  ASSUME Inv, NEW c \in CPU, NEW p \in Slot, wakeup_done(c, p)
  PROVE Inv'
<1> USE LockFacts
        DEF Inv, wakeup_done, At, goto, Release, pop_off, cpuvars, procvars, lockvars
<1>1. /\ running[c] = p /\ p # None /\ state[p] = "RUNNING"
      /\ CpuAt(c) /\ NoffAt(c) /\ \A d \in CPU \ {c} : running[d] # p
  BY OnCpu
<1>2. \A d \in CPU \ {c} : Elsewhere(d)
  BY <1>1 DEF Elsewhere
<1>3. \A l \in Lock : Holds(c, l) <=> l = LK
  BY DEF Holds, Switched, HasLK
<1>4. \A l \in Lock : ~Holds(c, l)'
  BY DEF Holds, Switched, HasLK, TypeOK
<1>5. \A l \in Lock : holder'[l] = c <=> Holds(c, l)'
  BY <1>3, <1>4 DEF TypeOK, HolderInv
<1>6. \A d \in CPU \ {c}, l \in Lock : holder'[l] = d <=> holder[l] = d
  BY <1>3 DEF HolderInv
<1>7. CpuAt(c)'
  BY <1>1 DEF CpuAt, Wants
<1>8. NoffAt(c)'
  BY <1>1 DEF TypeOK, NoffAt, HoldsOne, Switched, HasLK
<1>9. HolderInv' /\ CpuInv' /\ NoffInv'
  BY <1>2, <1>5, <1>6, <1>7, <1>8, OneCpuMoves
<1>10. noff' \in [CPU -> Nat]
  BY <1>1 DEF TypeOK, NoffAt, HoldsOne, HasLK
<1>11. TypeOK'
  BY <1>10, IndexFacts DEF TypeOK, PCs
<1>12. NoPanic'
  BY DEF NoPanic
<1>13. SavedInv'
  BY DEF SavedInv
<1>14. OnceInv'
  BY DEF OnceInv
<1>15. RunInv'
  BY DEF RunInv
<1>16. AwayInv'
  BY <1>1 DEF AwayInv
<1>17. RetInv'
  BY DEF RetInv
<1>18. SleepLockExclusive'
  BY DEF SleepLockExclusive, InCriticalSection
<1>19. WakeInv'
  BY DEF WakeInv, Slot
<1>20. NoMissedWakeup'
  <2>1. \A q \in Slot : q < i[p]
    BY SchedConstants DEF TypeOK, Slot
  <2>2. QED
    BY <1>1, <2>1 DEF TypeOK, WakeInv, NoMissedWakeup
<1>21. QED
  BY <1>9, <1>11, <1>12, <1>13, <1>14, <1>15, <1>16, <1>17, <1>18, <1>19, <1>20

\* kill() may wake a sleeper; it puts none to sleep.
LEMMA KillSlotStep ==
  ASSUME Inv, NEW c \in CPU, NEW p \in Slot, kill_slot(c, p)
  PROVE Inv'
<1> USE LockFacts
        DEF Inv, kill_slot, At, goto, Acquired, LockAndRelease, pop_off, cpuvars,
        procvars, lockvars
<1>1. /\ running[c] = p /\ p # None /\ state[p] = "RUNNING"
      /\ CpuAt(c) /\ NoffAt(c) /\ \A d \in CPU \ {c} : running[d] # p
  BY OnCpu
<1>2. Wants(c) = i[p] /\ i[p] \in Slot
  BY <1>1 DEF CpuAt, Wants
<1>3. \A d \in CPU \ {c} : Elsewhere(d)
  BY <1>1 DEF Elsewhere, TypeOK
<1>4. \A l \in Lock : ~Holds(c, l)
  BY DEF Holds, Switched, HasLK
<1>5. \A l \in Lock : ~Holds(c, l)'
  BY DEF Holds, Switched, HasLK, TypeOK
<1>6. \A l \in Lock : holder'[l] = c <=> Holds(c, l)'
  BY <1>4, <1>5 DEF HolderInv
<1>7. \A d \in CPU \ {c}, l \in Lock : holder'[l] = d <=> holder[l] = d
  OBVIOUS
<1>8. CpuAt(c)'
  BY <1>1 DEF TypeOK, CpuAt
<1>9. NoffAt(c)'
  BY <1>1 DEF TypeOK, NoffAt, HoldsOne, Switched, HasLK
<1>10. HolderInv' /\ CpuInv' /\ NoffInv'
  BY <1>3, <1>6, <1>8, <1>9, OneCpuMoves
<1>11. noff' \in [CPU -> Nat]
  BY <1>1 DEF TypeOK, NoffAt
<1>12. TypeOK'
  BY <1>2, <1>11, IndexFacts DEF TypeOK, PCs
<1>13. NoPanic'
  BY DEF NoPanic
<1>14. SavedInv'
  BY DEF TypeOK, SavedInv
<1>15. OnceInv'
  BY DEF OnceInv
<1>16. RunInv'
  BY DEF TypeOK, RunInv
<1>17. AwayInv'
  BY <1>1 DEF TypeOK, AwayInv
<1>18. RetInv'
  BY DEF TypeOK, RetInv
<1>19. SleepLockExclusive'
  BY DEF TypeOK, SleepLockExclusive, InCriticalSection
<1>20. WakeInv'
  <2>1. pc[p] = "kill" /\ \A q \in Slot \ {p} : pc'[q] = pc[q] /\ i'[q] = i[q]
    BY DEF TypeOK
  <2>2. pc'[p] \in {"user", "kill"}
    BY DEF TypeOK
  <2>3. \A q \in Slot : state'[q] = "SLEEPING" => state[q] = "SLEEPING"
    BY DEF TypeOK
  <2>4. QED
    BY <2>1, <2>2, <2>3 DEF WakeInv
<1>21. NoMissedWakeup'
  BY DEF TypeOK, WakeInv, NoMissedWakeup
<1>22. QED
  BY <1>10, <1>12, <1>13, <1>14, <1>15, <1>16, <1>17, <1>18, <1>19, <1>20, <1>21

\* kill() finds no such process and holds nothing.
LEMMA KillNobodyStep ==
  ASSUME Inv, NEW c \in CPU, NEW p \in Slot, kill_nobody(c, p)
  PROVE Inv'
<1> USE LockFacts DEF Inv, kill_nobody, At, goto, cpuvars, procvars, lockvars
<1>1. /\ running[c] = p /\ p # None /\ state[p] = "RUNNING"
      /\ CpuAt(c) /\ NoffAt(c) /\ \A d \in CPU \ {c} : running[d] # p
  BY OnCpu
<1>2. \A d \in CPU \ {c} : Elsewhere(d)
  BY <1>1 DEF Elsewhere
<1>3. \A l \in Lock : ~Holds(c, l)
  BY DEF Holds, Switched, HasLK
<1>4. \A l \in Lock : ~Holds(c, l)'
  BY DEF Holds, Switched, HasLK
<1>5. \A l \in Lock : holder'[l] = c <=> Holds(c, l)'
  BY <1>3, <1>4 DEF HolderInv
<1>6. \A d \in CPU \ {c}, l \in Lock : holder'[l] = d <=> holder[l] = d
  OBVIOUS
<1>7. CpuAt(c)'
  BY <1>1 DEF CpuAt, Wants
<1>8. NoffAt(c)'
  BY <1>1 DEF NoffAt, HoldsOne, Switched, HasLK
<1>9. HolderInv' /\ CpuInv' /\ NoffInv'
  BY <1>2, <1>5, <1>7, <1>8, OneCpuMoves
<1>10. noff' \in [CPU -> Nat]
  BY DEF TypeOK
<1>11. TypeOK'
  BY IndexFacts DEF TypeOK, PCs
<1>12. NoPanic'
  BY DEF NoPanic
<1>13. SavedInv'
  BY DEF SavedInv
<1>14. OnceInv'
  BY DEF OnceInv
<1>15. RunInv'
  BY DEF RunInv
<1>16. AwayInv'
  BY <1>1 DEF AwayInv
<1>17. RetInv'
  BY DEF RetInv
<1>18. SleepLockExclusive'
  BY DEF SleepLockExclusive, InCriticalSection
<1>19. WakeInv'
  BY DEF WakeInv
<1>20. NoMissedWakeup'
  BY DEF NoMissedWakeup
<1>21. QED
  BY <1>9, <1>11, <1>12, <1>13, <1>14, <1>15, <1>16, <1>17, <1>18, <1>19, <1>20


----------------------------------------------------------------------------
(* The invariant holds of every step of the specification.                 *)

\* All processes are new and all CPUs in scheduler(), with no lock held.
\* The first state.
LEMMA InitInv == Init => Inv
<1> SUFFICES ASSUME Init PROVE Inv
  OBVIOUS
<1> USE LockFacts DEF Init
<1>1. TypeOK
  BY IndexFacts DEF TypeOK, PCs
<1>2. HolderInv
  BY DEF HolderInv, Holds
<1>3. CpuInv
  BY DEF CpuInv, CpuAt
<1>4. NoffInv
  BY DEF NoffInv, NoffAt, HoldsOne
<1>5. SavedInv /\ OnceInv /\ RunInv
  BY DEF SavedInv, OnceInv, RunInv
<1>6. AwayInv
  BY DEF AwayInv, Switched
<1>7. RetInv /\ SleepLockExclusive
  BY DEF RetInv, SleepLockExclusive, InCriticalSection
<1>8. WakeInv /\ NoMissedWakeup
  BY DEF WakeInv, NoMissedWakeup
<1>9. QED
  BY <1>1, <1>2, <1>3, <1>4, <1>5, <1>6, <1>7, <1>8 DEF Inv, NoPanic

\* A stuttering step changes nothing the invariant mentions.
\* The invariant depends on the variables only.
LEMMA StutterInv ==
  ASSUME Inv, UNCHANGED vars
  PROVE  Inv'
<1> USE DEF vars, cpuvars, procvars, lockvars
<1>1. TypeOK' /\ NoPanic' /\ SavedInv' /\ OnceInv' /\ RunInv'
  BY DEF Inv, TypeOK, NoPanic, SavedInv, OnceInv, RunInv
<1>2. HolderInv'
  BY DEF Inv, HolderInv, Holds
<1>3. CpuInv' /\ NoffInv'
  BY DEF Inv, CpuInv, CpuAt, Wants, NoffInv, NoffAt, HoldsOne
<1>4. AwayInv' /\ RetInv'
  BY DEF Inv, AwayInv, RetInv
<1>5. SleepLockExclusive' /\ WakeInv' /\ NoMissedWakeup'
  BY DEF Inv, SleepLockExclusive, InCriticalSection, WakeInv, NoMissedWakeup
<1>6. QED
  BY <1>1, <1>2, <1>3, <1>4, <1>5 DEF Inv

\* Inv is an invariant of the CPUs, threads and locks.
THEOREM Invariance == Spec => []Inv
<1>1. Inv /\ [Next]_vars => Inv'
  <2> SUFFICES ASSUME Inv, [Next]_vars PROVE Inv'
    OBVIOUS
  <2>1. CASE \E c \in CPU : CpuStep(c)
    BY <2>1, PushOffStep, SchedulerStep, SchedulerBackStep, SchedulerAgainStep
       DEF CpuStep
  <2>2. ASSUME NEW c \in CPU, NEW p \in Slot, ThreadStep(c, p) PROVE Inv'
    <3>1. CASE forkret(c, p) \/ yield(c, p) \/ yield_return(c, p)
      BY <3>1, ForkretStep, YieldStep, YieldReturnStep
    <3>2. CASE acquiresleep_try(c, p) \/ sleep(c, p) \/ sleep_return(c, p)
      BY <3>2, AcquiresleepTryStep, SleepStep, SleepReturnStep
    <3>3. CASE releasesleep_unlock(c, p) \/ wakeup(c, p) \/ wakeup_done(c, p)
      BY <3>3, ReleasesleepUnlockStep, WakeupStep, WakeupDoneStep
    <3>4. CASE kill_slot(c, p) \/ kill_nobody(c, p)
      BY <3>4, KillSlotStep, KillNobodyStep
    <3>5. QED
      BY <2>2, <3>1, <3>2, <3>3, <3>4 DEF ThreadStep
  <2>3. ASSUME NEW c \in CPU, NEW p \in Slot,
               timer(c, p) \/ acquiresleep(c, p) \/ releasesleep(c, p) \/ kill(c, p)
        PROVE  Inv'
    BY <2>3, TimerStep, SyscallStep
  <2>4. CASE UNCHANGED vars
    BY <2>4, StutterInv
  <2>5. QED
    BY <2>1, <2>2, <2>3, <2>4 DEF Next
<1>2. QED
  BY InitInv, <1>1, PTL DEF Spec

----------------------------------------------------------------------------
(* What it means for the code.                                             *)

\* A CPU holds no lock, or exactly one.
LEMMA HeldCount ==
  ASSUME Inv, NEW c \in CPU
  PROVE  Cardinality(HeldBy(c)) = IF HoldsOne(c) THEN 1 ELSE 0
<1> USE LockFacts
<1>1. HeldBy(c) = {l \in Lock : Holds(c, l)}
  BY DEF Inv, HolderInv, HeldBy
<1>2. CASE HoldsOne(c)
  <2>1. PICK m \in Lock : \A l \in Lock : Holds(c, l) <=> l = m
    BY <1>2 DEF Inv, CpuInv, CpuAt, Holds, HoldsOne, Switched, HasLK
  <2>2. HeldBy(c) = {m}
    BY <1>1, <2>1
  <2>3. QED
    BY <1>2, <2>2, FS_Singleton
<1>3. CASE ~HoldsOne(c)
  <2>1. HeldBy(c) = {}
    BY <1>1, <1>3 DEF Holds, HoldsOne
  <2>2. QED
    BY <1>3, <2>1, FS_EmptySet
<1>4. QED
  BY <1>2, <1>3

\* For any number of CPUs and processes, the nesting count noff is the number
\* of spin locks held and awaited, interrupts are off while it is positive and
\* on again when it is back to zero, whichever thread swtch() went to in
\* between, and no check of acquire() or sched() panics.
THEOREM InterruptsAlwaysRight == Spec => []InterruptsRight
<1>1. Inv => InterruptsRight
  <2> SUFFICES ASSUME Inv PROVE InterruptsRight
    OBVIOUS
  <2>1. ASSUME NEW c \in CPU
        PROVE  /\ noff[c] = Cardinality(HeldBy(c)) + (IF spinning[c] THEN 1 ELSE 0)
               /\ noff[c] > 0 => ~intr[c]
    BY HeldCount DEF Inv, NoffInv, NoffAt
  <2>2. IntrRestored
    BY DEF IntrRestored, Inv, NoffInv, NoffAt, HoldsOne
  <2>3. QED
    BY <2>1, <2>2 DEF InterruptsRight, NoffExact, Inv
<1>2. QED
  BY Invariance, <1>1, PTL

\* For any number of CPUs and processes, no process is on two CPUs, p->state
\* says RUNNING of exactly those on one, and a sleep lock is held by at most
\* the one process it names.
THEOREM AlwaysExclusive == Spec => []Exclusive
<1>1. Inv => Exclusive
  BY DEF Inv, Exclusive, OneCpu, OnceInv, RunInv
<1>2. QED
  BY Invariance, <1>1, PTL

\* For any number of CPUs and processes, a process that sleeps on a free sleep
\* lock will be met by a wakeup() that is already under way.
THEOREM NoWakeupMissed == Spec => []NoMissedWakeup
<1>1. Inv => NoMissedWakeup
  BY DEF Inv
<1>2. QED
  BY Invariance, <1>1, PTL
=============================================================================
