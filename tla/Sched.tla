------------------------------- MODULE Sched -------------------------------
(***************************************************************************)
(* CPUs and kernel threads of xv6 (kernel/proc.c, spinlock.c, sleeplock.c  *)
(* and trap.c of lab 2): the scheduler loop of every CPU, swtch() with     *)
(* p->lock held across it, timer interrupts, the nesting count of disabled *)
(* interrupts, and sleep() and wakeup() under one of their clients, a      *)
(* sleep lock.                                                             *)
(*                                                                         *)
(* acquire() is two steps: push_off(), then the swap that wins the lock.   *)
(* What a thread does from there to its next acquire() or release() is     *)
(* part of the second step.                                                *)
(***************************************************************************)
EXTENDS Integers, FiniteSets

CONSTANTS CPU,     \* the set of CPUs
          NPROC,   \* size of the process table
          KILLS,   \* whether processes call kill()
          None     \* the null pointer

ASSUME SchedConstants ==
  /\ CPU # {}
  /\ NPROC \in Nat \ {0}
  /\ KILLS \in BOOLEAN
  /\ None \notin CPU
  /\ None \notin 0..NPROC

Slot == 1..NPROC
LK == 0               \* the spin lock inside the sleep lock
Lock == Slot \cup {LK}

VARIABLES
  state,     \* p->state
  chan,      \* whether p->chan is the sleep lock
  holder,    \* lk->cpu of every spin lock, None if it is free
  locked,    \* sleeplock.locked
  owner,     \* sleeplock.pid
  running,   \* c->proc: the process whose thread is on the CPU
  noff,      \* c->noff
  intena,    \* c->intena
  intr,      \* whether the CPU takes interrupts (sstatus.SIE)
  spinning,  \* the CPU has called push_off() and spins in acquire()
  slot,      \* p in the CPU's scheduler()
  switched,  \* scheduler() is behind its swtch()
  pc,        \* where the thread of a process is
  i,         \* its loop variable in wakeup() and kill()
  saved,     \* intena in its sched()
  ret,       \* where the timer interrupted it
  panicked

cpuvars == <<running, noff, intena, intr, spinning, slot, switched>>
procvars == <<pc, i, saved, ret>>
lockvars == <<locked, owner>>
vars == <<state, chan, holder, lockvars, cpuvars, procvars, panicked>>

PCs == {"none", "forkret", "user", "acquiresleep", "sleep", "asleep", "hold",
        "releasesleep", "wakeup", "yield", "yielded", "kill"}

TypeOK ==
  /\ state \in [Slot -> {"SLEEPING", "RUNNABLE", "RUNNING"}]
  /\ chan \in [Slot -> BOOLEAN]
  /\ holder \in [Lock -> CPU \cup {None}]
  /\ locked \in BOOLEAN
  /\ owner \in Slot \cup {None}
  /\ running \in [CPU -> Slot \cup {None}]
  /\ noff \in [CPU -> Nat]
  /\ intena \in [CPU -> BOOLEAN]
  /\ intr \in [CPU -> BOOLEAN]
  /\ spinning \in [CPU -> BOOLEAN]
  /\ slot \in [CPU -> 1..(NPROC + 1)]
  /\ switched \in [CPU -> BOOLEAN]
  /\ pc \in [Slot -> PCs]
  /\ i \in [Slot -> 1..(NPROC + 1)]
  /\ saved \in [Slot -> BOOLEAN]
  /\ ret \in [Slot -> PCs]
  /\ panicked \in BOOLEAN

\* Every process has just been created by fork(); the CPUs enter scheduler().
Init ==
  /\ state = [p \in Slot |-> "RUNNABLE"]
  /\ chan = [p \in Slot |-> FALSE]
  /\ holder = [l \in Lock |-> None]
  /\ locked = FALSE
  /\ owner = None
  /\ running = [c \in CPU |-> None]
  /\ noff = [c \in CPU |-> 0]
  /\ intena = [c \in CPU |-> FALSE]
  /\ intr = [c \in CPU |-> TRUE]
  /\ spinning = [c \in CPU |-> FALSE]
  /\ slot = [c \in CPU |-> 1]
  /\ switched = [c \in CPU |-> FALSE]
  /\ pc = [p \in Slot |-> "forkret"]
  /\ i = [p \in Slot |-> 1]
  /\ saved = [p \in Slot |-> FALSE]
  /\ ret = [p \in Slot |-> "none"]
  /\ panicked = FALSE

----------------------------------------------------------------------------
(* Spin locks.                                                             *)

goto(p, l) == [pc EXCEPT ![p] = l]

\* The thread of process p is on CPU c, at l.
At(c, p, l) == ~panicked /\ running[c] = p /\ pc[p] = l

InScheduler(c) == ~panicked /\ running[c] = None

\* The lock that the thread on CPU c acquires next.
Wants(c) ==
  IF running[c] = None
  THEN IF ~switched[c] /\ slot[c] \in Slot THEN slot[c] ELSE None
  ELSE LET p == running[c] IN
       CASE pc[p] \in {"acquiresleep", "releasesleep"} -> LK
         [] pc[p] \in {"sleep", "yield"} -> p
         [] pc[p] \in {"wakeup", "kill"} /\ i[p] \in Slot -> i[p]
         [] OTHER -> None

push_count(c) == [noff EXCEPT ![c] = @ + 1]

push_off(c) ==
  /\ ~panicked
  /\ Wants(c) # None
  /\ ~spinning[c]
  /\ intena' = IF noff[c] = 0 THEN [intena EXCEPT ![c] = intr[c]] ELSE intena
  /\ noff' = push_count(c)
  /\ intr' = [intr EXCEPT ![c] = FALSE]
  /\ spinning' = [spinning EXCEPT ![c] = TRUE]
  /\ panicked' = (holder[Wants(c)] = c)
  /\ UNCHANGED <<state, chan, holder, lockvars, running, slot, switched, procvars>>

\* The swap in acquire() finds the lock free.
Acquired(c) ==
  /\ spinning[c]
  /\ holder[Wants(c)] = None
  /\ spinning' = [spinning EXCEPT ![c] = FALSE]

\* pop_off() when c->intena is ie.
pop_off(c, ie) ==
  /\ noff' = [noff EXCEPT ![c] = @ - 1]
  /\ intr' = IF noff[c] = 1 THEN [intr EXCEPT ![c] = ie] ELSE intr

\* The lock just acquired is released within the same step.
LockAndRelease(c) == holder' = holder /\ pop_off(c, intena[c])

Keep(c, l) == holder' = [holder EXCEPT ![l] = c] /\ UNCHANGED <<noff, intr>>

Release(c, l, ie) == holder' = [holder EXCEPT ![l] = None] /\ pop_off(c, ie)

----------------------------------------------------------------------------
(* The scheduler of a CPU.                                                 *)

\* One turn of scheduler()'s loop, up to swtch() if the process can run.
scheduler(c) ==
  /\ InScheduler(c)
  /\ Acquired(c)
  /\ IF state[slot[c]] = "RUNNABLE"
     THEN /\ state' = [state EXCEPT ![slot[c]] = "RUNNING"]
          /\ running' = [running EXCEPT ![c] = slot[c]]
          /\ switched' = [switched EXCEPT ![c] = TRUE]
          /\ Keep(c, slot[c])
          /\ UNCHANGED slot
     ELSE /\ slot' = [slot EXCEPT ![c] = @ + 1]
          /\ LockAndRelease(c)
          /\ UNCHANGED <<state, running, switched>>
  /\ UNCHANGED <<chan, lockvars, intena, procvars, panicked>>

\* scheduler() after the process has switched back to it.
scheduler_back(c) ==
  /\ InScheduler(c)
  /\ switched[c]
  /\ Release(c, slot[c], intena[c])
  /\ switched' = [switched EXCEPT ![c] = FALSE]
  /\ slot' = [slot EXCEPT ![c] = @ + 1]
  /\ UNCHANGED <<state, chan, lockvars, running, intena, spinning, procvars, panicked>>

second == 2  \* mutant: the first slot is scheduled only once
first == 1

\* The end of the table: intr_on() and from the top.
scheduler_again(c) ==
  /\ InScheduler(c)
  /\ slot[c] \notin Slot
  /\ slot' = [slot EXCEPT ![c] = first]
  /\ intr' = [intr EXCEPT ![c] = TRUE]
  /\ UNCHANGED <<state, chan, holder, lockvars, running, noff, intena, spinning,
                 switched, procvars, panicked>>

\* sched(): its checks, then swtch() to the scheduler.  p->lock stays held.
sched(c, p) ==
  /\ running' = [running EXCEPT ![c] = None]
  /\ saved' = [saved EXCEPT ![p] = intena[c]]
  /\ panicked' = ~(holder'[p] = c /\ noff'[c] = 1 /\ state'[p] # "RUNNING" /\ ~intr[c])
  /\ UNCHANGED <<intr, intena, slot, switched>>

\* c->intena for a thread that sched() returns to: it is the thread's own.
IntenaOfCpu(c, p) == intena[c]  \* mutant: sched() does not restore intena
IntenaBack(c, p) == saved[p]

\* A new process starts in forkret(), which releases p->lock.
forkret(c, p) ==
  /\ At(c, p, "forkret")
  /\ holder' = [holder EXCEPT ![p] = None]
  /\ noff' = [noff EXCEPT ![c] = @ - 1]
  /\ intr' = [intr EXCEPT ![c] = TRUE]
  /\ pc' = goto(p, "user")
  /\ UNCHANGED <<state, chan, lockvars, running, intena, spinning, slot, switched,
                 i, saved, ret, panicked>>

----------------------------------------------------------------------------
(* Timer interrupts.                                                       *)

\* usertrap() or kerneltrap(): the interrupted code runs with interrupts on.
timer(c, p) ==
  /\ ~panicked
  /\ running[c] = p
  /\ intr[c]
  /\ intr' = [intr EXCEPT ![c] = FALSE]
  /\ ret' = [ret EXCEPT ![p] = pc[p]]
  /\ pc' = goto(p, "yield")
  /\ UNCHANGED <<state, chan, holder, lockvars, running, noff, intena, spinning,
                 slot, switched, i, saved, panicked>>

yield(c, p) ==
  /\ At(c, p, "yield")
  /\ Acquired(c)
  /\ state' = [state EXCEPT ![p] = "RUNNABLE"]
  /\ holder' = [holder EXCEPT ![p] = c]
  /\ UNCHANGED noff
  /\ sched(c, p)
  /\ pc' = goto(p, "yielded")
  /\ UNCHANGED <<chan, lockvars, i, ret>>

\* yield() releases p->lock; the return from the trap turns interrupts on.
yield_return(c, p) ==
  /\ At(c, p, "yielded")
  /\ intena' = [intena EXCEPT ![c] = IntenaBack(c, p)]
  /\ holder' = [holder EXCEPT ![p] = None]
  /\ noff' = [noff EXCEPT ![c] = @ - 1]
  /\ intr' = [intr EXCEPT ![c] = TRUE]
  /\ pc' = goto(p, ret[p])
  /\ ret' = [ret EXCEPT ![p] = "none"]
  /\ UNCHANGED <<state, chan, lockvars, running, spinning, slot, switched, i,
                 saved, panicked>>

----------------------------------------------------------------------------
(* The sleep lock, sleep() and wakeup().                                   *)

\* A system call that needs the lock, and its end.
acquiresleep(c, p) ==
  /\ At(c, p, "user")
  /\ pc' = goto(p, "acquiresleep")
  /\ UNCHANGED <<state, chan, holder, lockvars, cpuvars, i, saved, ret, panicked>>

\* One turn of acquiresleep()'s loop, with the spin lock.
acquiresleep_try(c, p) ==
  /\ At(c, p, "acquiresleep")
  /\ Acquired(c)
  /\ IF locked
     THEN /\ Keep(c, LK)
          /\ pc' = goto(p, "sleep")
          /\ UNCHANGED lockvars
     ELSE /\ LockAndRelease(c)
          /\ locked' = TRUE
          /\ owner' = p
          /\ pc' = goto(p, "hold")
  /\ UNCHANGED <<state, chan, running, intena, slot, switched, i, saved, ret, panicked>>

\* sleep(lk, &lk->lk): p->lock is taken before the spin lock is released.
sleep(c, p) ==
  /\ At(c, p, "sleep")
  /\ Acquired(c)
  /\ holder' = [holder EXCEPT ![p] = c, ![LK] = None]
  /\ noff' = [noff EXCEPT ![c] = @ - 1]
  /\ chan' = [chan EXCEPT ![p] = TRUE]
  /\ state' = [state EXCEPT ![p] = "SLEEPING"]
  /\ sched(c, p)
  /\ pc' = goto(p, "asleep")
  /\ UNCHANGED <<lockvars, i, ret>>

once == "hold"  \* mutant: acquiresleep() says if where it should say while
again == "acquiresleep"

\* The end of sleep(); acquiresleep() takes its spin lock again.
sleep_return(c, p) ==
  /\ At(c, p, "asleep")
  /\ intena' = [intena EXCEPT ![c] = IntenaBack(c, p)]
  /\ Release(c, p, IntenaBack(c, p))
  /\ chan' = [chan EXCEPT ![p] = FALSE]
  /\ pc' = goto(p, again)
  /\ UNCHANGED <<state, lockvars, running, spinning, slot, switched, i, saved,
                 ret, panicked>>

releasesleep(c, p) ==
  /\ At(c, p, "hold")
  /\ pc' = goto(p, "releasesleep")
  /\ UNCHANGED <<state, chan, holder, lockvars, cpuvars, i, saved, ret, panicked>>

releasesleep_unlock(c, p) ==
  /\ At(c, p, "releasesleep")
  /\ Acquired(c)
  /\ Keep(c, LK)
  /\ locked' = FALSE
  /\ owner' = None
  /\ pc' = goto(p, "wakeup")
  /\ i' = [i EXCEPT ![p] = 1]
  /\ UNCHANGED <<state, chan, running, intena, slot, switched, saved, ret, panicked>>

WakeNone(s) == state  \* mutant: the channel is compared the wrong way round
Wake(s) ==
  IF state[s] = "SLEEPING" /\ chan[s] THEN [state EXCEPT ![s] = "RUNNABLE"] ELSE state

\* One turn of wakeup()'s loop.
wakeup(c, p) ==
  /\ At(c, p, "wakeup")
  /\ Acquired(c)
  /\ state' = Wake(i[p])
  /\ i' = [i EXCEPT ![p] = @ + 1]
  /\ LockAndRelease(c)
  /\ UNCHANGED <<chan, lockvars, running, intena, slot, switched, pc, saved, ret,
                 panicked>>

\* releasesleep() gives the spin lock back; the system call ends.
wakeup_done(c, p) ==
  /\ At(c, p, "wakeup")
  /\ i[p] \notin Slot
  /\ Release(c, LK, intena[c])
  /\ pc' = goto(p, "user")
  /\ i' = [i EXCEPT ![p] = 1]
  /\ UNCHANGED <<state, chan, lockvars, running, intena, spinning, slot, switched,
                 saved, ret, panicked>>

\* kill() of a sleeper wakes it whatever it sleeps on.  It walks the table
\* until it meets the pid it was given, or to the end.
kill(c, p) ==
  /\ KILLS
  /\ At(c, p, "user")
  /\ pc' = goto(p, "kill")
  /\ UNCHANGED <<state, chan, holder, lockvars, cpuvars, i, saved, ret, panicked>>

kill_slot(c, p) ==
  /\ At(c, p, "kill")
  /\ Acquired(c)
  /\ \/ /\ state' = [state EXCEPT ![i[p]] =
                       IF @ = "SLEEPING" THEN "RUNNABLE" ELSE @]
        /\ pc' = goto(p, "user")
        /\ i' = [i EXCEPT ![p] = 1]
     \/ /\ i' = [i EXCEPT ![p] = @ + 1]
        /\ UNCHANGED <<state, pc>>
  /\ LockAndRelease(c)
  /\ UNCHANGED <<chan, lockvars, running, intena, slot, switched, saved, ret, panicked>>

kill_nobody(c, p) ==
  /\ At(c, p, "kill")
  /\ i[p] \notin Slot
  /\ pc' = goto(p, "user")
  /\ i' = [i EXCEPT ![p] = 1]
  /\ UNCHANGED <<state, chan, holder, lockvars, cpuvars, saved, ret, panicked>>

----------------------------------------------------------------------------
CpuStep(c) == push_off(c) \/ scheduler(c) \/ scheduler_back(c) \/ scheduler_again(c)

\* What a thread does inside the kernel once it has started.
ThreadStep(c, p) ==
  \/ forkret(c, p) \/ yield(c, p) \/ yield_return(c, p)
  \/ acquiresleep_try(c, p) \/ sleep(c, p) \/ sleep_return(c, p)
  \/ releasesleep_unlock(c, p) \/ wakeup(c, p) \/ wakeup_done(c, p)
  \/ kill_slot(c, p) \/ kill_nobody(c, p)

Next ==
  \/ \E c \in CPU : CpuStep(c)
  \/ \E c \in CPU, p \in Slot :
       \/ ThreadStep(c, p) \/ timer(c, p) \/ acquiresleep(c, p)
       \/ releasesleep(c, p) \/ kill(c, p)

Spec == Init /\ [][Next]_vars

\* CPUs do not stop; a CPU that spins for a lock which is released again and
\* again gets it; the timer of every CPU keeps interrupting (timerinit()), but
\* leaves time for some progress of the thread it interrupts; a system call
\* that holds the sleep lock comes to its end.
Progress(p) ==
  \E c \in CPU :
    running[c] = p /\ pc[p] # "yield" /\ (push_off(c) \/ releasesleep(c, p))

Fairness ==
  /\ \A c \in CPU : SF_vars(CpuStep(c) \/ \E p \in Slot : ThreadStep(c, p))
  /\ \A c \in CPU : SF_vars(\E p \in Slot : timer(c, p))
  /\ \A p \in Slot : SF_vars(Progress(p))

FairSpec == Spec /\ Fairness

----------------------------------------------------------------------------
(* Properties.                                                             *)

\* The checks of acquire() and sched() never fail.
NoPanic == ~panicked

HeldBy(c) == {l \in Lock : holder[l] = c}

\* noff counts the spin locks of the CPU although one thread acquires p->lock
\* and another one releases it, on the far side of swtch(); with a lock held
\* the CPU takes no interrupts.
NoffExact ==
  \A c \in CPU :
    /\ noff[c] = Cardinality(HeldBy(c)) + (IF spinning[c] THEN 1 ELSE 0)
    /\ noff[c] > 0 => ~intr[c]

\* A thread that holds no lock and is in no trap runs with interrupts on,
\* on whatever CPU and after whatever thread it was resumed.
IntrRestored ==
  \A c \in CPU :
    running[c] # None /\ noff[c] = 0 /\ pc[running[c]] # "yield" => intr[c]

\* Nesting and restoring of interrupts is right, and the checks of acquire()
\* and sched() that rest on it never fail.
InterruptsRight == TypeOK /\ NoPanic /\ NoffExact /\ IntrRestored

\* A process is on at most one CPU: no two CPUs run on one kernel stack.  Where
\* p->lock is free, p->state says RUNNING if and only if p is on a CPU.
OneCpu ==
  /\ \A c, d \in CPU : running[c] # None /\ running[c] = running[d] => c = d
  /\ \A p \in Slot : holder[p] = None =>
       (state[p] = "RUNNING" <=> \E c \in CPU : running[c] = p)

InCriticalSection(p) ==
  \/ pc[p] \in {"hold", "releasesleep"}
  \/ pc[p] \in {"yield", "yielded"} /\ ret[p] \in {"hold", "releasesleep"}

\* The sleep lock is held by exactly the process it names.
SleepLockExclusive ==
  \A p \in Slot : InCriticalSection(p) <=> locked /\ owner = p

\* Mutual exclusion: on a kernel stack and inside a sleep lock.
Exclusive == OneCpu /\ SleepLockExclusive

\* Nobody sleeps on the lock when it is free and no wakeup() is on its way:
\* "Once we hold p->lock ... we won't miss any wakeup" (proc.c:564).
NoMissedWakeup ==
  (\E p \in Slot : state[p] = "SLEEPING") =>
     locked \/ \E q \in Slot : pc[q] = "wakeup"

\* A process that can run is run.
RunnableRuns == \A p \in Slot : state[p] = "RUNNABLE" ~> state[p] = "RUNNING"

\* A process that sleeps on the lock is woken.
SleeperWakes == \A p \in Slot : state[p] = "SLEEPING" ~> state[p] # "SLEEPING"
=============================================================================
