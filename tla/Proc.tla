-------------------------------- MODULE Proc --------------------------------
(***************************************************************************)
(* The life of processes in xv6 (kernel/proc.c of lab 2): fork(), exit(),  *)
(* wait(), kill() and the per-process spin locks they take, one step per   *)
(* acquire().  proc.c locks a parent before its child and reads p->parent  *)
(* without a lock; this module is about what that protocol guarantees.     *)
(*                                                                         *)
(* There are at least as many CPUs as processes, so a RUNNABLE process is  *)
(* picked up as soon as its lock is free (Sched models CPUs).  A lock that *)
(* is taken and released without taking another one in between is one      *)
(* step.                                                                   *)
(***************************************************************************)
EXTENDS Integers, FiniteSets

CONSTANTS NPROC,   \* size of the process table
          MAXPID,  \* bound: fork() is not called once nextpid has passed it
          KILL,    \* the numbers processes pass to kill()
          NOMEM,   \* whether kalloc() may fail
          None     \* the null pointer

ASSUME ProcConstants ==
  /\ NPROC \in Nat \ {0}
  /\ MAXPID \in Nat
  /\ KILL \subseteq Nat
  /\ NOMEM \in BOOLEAN
  /\ None \notin 1..NPROC

Slot == 1..NPROC
initproc == 1

VARIABLES
  state,     \* p->state
  parent,    \* p->parent
  killed,    \* p->killed
  pid,       \* p->pid
  nextpid,   \* the next process identifier
  lock,      \* the process that holds p->lock (its CPU, to be exact)
  pc,        \* where the kernel thread of the slot is
  np,        \* its loop variable over the process table
  havekids,  \* wait()'s local
  original,  \* exit()'s original_parent
  panicked   \* the kernel has called panic()

vars == <<state, parent, killed, pid, nextpid, lock, pc, np, havekids,
          original, panicked>>

States == {"UNUSED", "SLEEPING", "RUNNABLE", "RUNNING", "ZOMBIE"}
PCs == {"none", "user", "wait", "scan", "asleep", "exit", "exit_parent",
        "exit_lock_parent", "exit_lock_self", "reparent", "zombie"}

TypeOK ==
  /\ state \in [Slot -> States]
  /\ parent \in [Slot -> Slot \cup {None}]
  /\ killed \in [Slot -> BOOLEAN]
  /\ pid \in [Slot -> Nat]
  /\ nextpid \in Nat
  /\ lock \in [Slot -> Slot \cup {None}]
  /\ pc \in [Slot -> PCs]
  /\ np \in [Slot -> 1..(NPROC + 1)]
  /\ havekids \in [Slot -> BOOLEAN]
  /\ original \in [Slot -> Slot \cup {None}]
  /\ \A s \in Slot : pc[s] \in {"exit_lock_parent", "exit_lock_self", "reparent"} =>
                       original[s] \in Slot
  /\ panicked \in BOOLEAN

\* userinit(): the first process runs, every other slot is free.
Init ==
  /\ state = [s \in Slot |-> IF s = initproc THEN "RUNNABLE" ELSE "UNUSED"]
  /\ parent = [s \in Slot |-> None]
  /\ killed = [s \in Slot |-> FALSE]
  /\ pid = [s \in Slot |-> IF s = initproc THEN 1 ELSE 0]
  /\ nextpid = 2
  /\ lock = [s \in Slot |-> None]
  /\ pc = [s \in Slot |-> IF s = initproc THEN "user" ELSE "none"]
  /\ np = [s \in Slot |-> 1]
  /\ havekids = [s \in Slot |-> FALSE]
  /\ original = [s \in Slot |-> None]
  /\ panicked = FALSE

----------------------------------------------------------------------------
goto(p, l) == [pc EXCEPT ![p] = l]

\* The lock the next acquire() of process p asks for, None if its next step
\* takes no lock.  wait() and reparent() look at pp->parent before they lock.
WantsInit(p) ==  \* mutant: reparent() wakes init with other locks held
  CASE pc[p] \in {"wait", "exit_parent", "exit_lock_self"} -> p
    [] pc[p] \in {"exit", "reparent"} -> initproc
    [] pc[p] = "exit_lock_parent" -> original[p]
    [] pc[p] = "scan" ->
         IF np[p] \in Slot /\ parent[np[p]] = p THEN np[p] ELSE None
    [] OTHER -> None
Wants(p) ==
  CASE pc[p] \in {"wait", "exit_parent", "exit_lock_self"} -> p
    [] pc[p] = "exit" -> initproc
    [] pc[p] = "exit_lock_parent" -> original[p]
    [] pc[p] \in {"scan", "reparent"} ->
         IF np[p] \in Slot /\ parent[np[p]] = p THEN np[p] ELSE None
    [] OTHER -> None

Free(s) == lock[s] = None
CanStep(p) == ~panicked /\ state[p] = "RUNNING" /\ (Wants(p) # None => Free(Wants(p)))

\* wakeup1(s): the caller holds s's lock; only wait() sleeps on the process.
wakeup1_lost(s) == state  \* mutant: the parent is not woken
wakeup1(s) ==
  IF state[s] = "SLEEPING"
  THEN [state EXCEPT ![s] = "RUNNABLE"] ELSE state

\* The scheduler of some CPU switches to p.  A process that slept in wait()
\* comes back from sched() with p->lock held and scans its children again.
scheduler(p) ==
  /\ ~panicked
  /\ state[p] = "RUNNABLE"
  /\ Free(p)
  /\ state' = [state EXCEPT ![p] = "RUNNING"]
  /\ IF pc[p] = "asleep"
     THEN /\ pc' = goto(p, "scan")
          /\ lock' = [lock EXCEPT ![p] = p]
          /\ np' = [np EXCEPT ![p] = 1]
          /\ havekids' = [havekids EXCEPT ![p] = FALSE]
     ELSE UNCHANGED <<pc, lock, np, havekids>>
  /\ UNCHANGED <<parent, killed, pid, nextpid, original, panicked>>

----------------------------------------------------------------------------
(* fork()                                                                  *)

\* allocproc() looks at one locked slot after the other, and slots it has
\* passed may become unused meanwhile, so it may find any unused slot s.
\* From then on s is locked until fork() is done with it.
ForkBy(p, s) ==
  /\ CanStep(p)
  /\ pc[p] = "user"
  /\ ~killed[p]
  /\ nextpid =< MAXPID
  /\ Free(s)
  /\ state[s] = "UNUSED"
  /\ nextpid' = nextpid + 1

fork(p, s) ==
  /\ ForkBy(p, s)
  /\ pid' = [pid EXCEPT ![s] = nextpid]
  /\ parent' = [parent EXCEPT ![s] = p]
  /\ state' = [state EXCEPT ![s] = "RUNNABLE"]
  /\ pc' = goto(s, "user")
  /\ UNCHANGED <<killed, lock, np, havekids, original, panicked>>

\* No memory for the trap frame: allocproc() returns without freeproc().
fork_no_trapframe(p, s) ==
  /\ ForkBy(p, s)
  /\ pid' = [pid EXCEPT ![s] = nextpid]
  /\ UNCHANGED <<state, parent, killed, lock, pc, np, havekids, original, panicked>>

\* No memory for the page table or its contents: freeproc().
fork_no_memory(p, s) ==
  /\ ForkBy(p, s)
  /\ pid' = [pid EXCEPT ![s] = 0]
  /\ parent' = [parent EXCEPT ![s] = None]
  /\ killed' = [killed EXCEPT ![s] = FALSE]
  /\ UNCHANGED <<state, lock, pc, np, havekids, original, panicked>>

KillMarks(s) == state  \* mutant: kill() does not wake a sleeper
KillWakes(s) ==
  IF state[s] = "SLEEPING" THEN [state EXCEPT ![s] = "RUNNABLE"] ELSE state

\* kill(n) acts on a slot that holds the number, whatever the slot's state.
kill(p, n) ==
  /\ CanStep(p)
  /\ pc[p] = "user"
  /\ ~killed[p]
  /\ \E s \in Slot :
       /\ pid[s] = n
       /\ Free(s)
       /\ killed' = [killed EXCEPT ![s] = TRUE]
       /\ state' = KillWakes(s)
  /\ UNCHANGED <<parent, pid, nextpid, lock, pc, np, havekids, original, panicked>>

----------------------------------------------------------------------------
(* exit()                                                                  *)

\* A system call of the process, or usertrap() finding p->killed.
exit(p) ==
  /\ CanStep(p)
  /\ pc[p] = "user"
  /\ p = initproc => killed[p]
  /\ IF p = initproc
     THEN panicked' = TRUE /\ UNCHANGED pc
     ELSE pc' = goto(p, "exit") /\ UNCHANGED panicked
  /\ UNCHANGED <<state, parent, killed, pid, nextpid, lock, np, havekids, original>>

exit_wake_init(p) ==
  /\ pc[p] = "exit"
  /\ CanStep(p)
  /\ state' = wakeup1(initproc)
  /\ pc' = goto(p, "exit_parent")
  /\ UNCHANGED <<parent, killed, pid, nextpid, lock, np, havekids, original, panicked>>

\* original_parent is read under p->lock and the lock is given back.
exit_read_parent(p) ==
  /\ pc[p] = "exit_parent"
  /\ CanStep(p)
  /\ original' = [original EXCEPT ![p] = parent[p]]
  /\ pc' = goto(p, "exit_lock_parent")
  /\ UNCHANGED <<state, parent, killed, pid, nextpid, lock, np, havekids, panicked>>

exit_lock_parent(p) ==
  /\ pc[p] = "exit_lock_parent"
  /\ CanStep(p)
  /\ lock' = [lock EXCEPT ![original[p]] = p]
  /\ pc' = goto(p, "exit_lock_self")
  /\ UNCHANGED <<state, parent, killed, pid, nextpid, np, havekids, original, panicked>>

exit_lock_self(p) ==
  /\ pc[p] = "exit_lock_self"
  /\ CanStep(p)
  /\ lock' = [lock EXCEPT ![p] = p]
  /\ pc' = goto(p, "reparent")
  /\ np' = [np EXCEPT ![p] = 1]
  /\ UNCHANGED <<state, parent, killed, pid, nextpid, havekids, original, panicked>>

GiveLiving(p) ==  \* mutant: children that have already exited are kept
  IF parent[np[p]] = p /\ state[np[p]] # "ZOMBIE"
  THEN [parent EXCEPT ![np[p]] = initproc] ELSE parent
GiveAway(p) ==
  IF parent[np[p]] = p THEN [parent EXCEPT ![np[p]] = initproc] ELSE parent

\* One turn of reparent()'s loop.
reparent(p) ==
  /\ pc[p] = "reparent"
  /\ np[p] \in Slot
  /\ CanStep(p)
  /\ parent' = GiveAway(p)
  /\ np' = [np EXCEPT ![p] = @ + 1]
  /\ UNCHANGED <<state, killed, pid, nextpid, lock, pc, havekids, original, panicked>>

UnlockBoth(p) ==  \* mutant: p->lock is released before sched()
  [lock EXCEPT ![original[p]] = None, ![p] = None]
UnlockParent(p) == [lock EXCEPT ![original[p]] = None]

exit_zombie(p) ==
  /\ pc[p] = "reparent"
  /\ np[p] \notin Slot
  /\ CanStep(p)
  /\ state' = [wakeup1(original[p]) EXCEPT ![p] = "ZOMBIE"]
  /\ lock' = UnlockParent(p)
  /\ pc' = goto(p, "zombie")
  /\ np' = [np EXCEPT ![p] = 1]
  /\ original' = [original EXCEPT ![p] = None]
  /\ UNCHANGED <<parent, killed, pid, nextpid, havekids, panicked>>

\* sched() has left p's kernel stack; the scheduler releases p->lock.
sched_zombie(p) ==
  /\ pc[p] = "zombie"
  /\ ~panicked
  /\ lock' = [lock EXCEPT ![p] = None]
  /\ pc' = goto(p, "none")
  /\ UNCHANGED <<state, parent, killed, pid, nextpid, np, havekids, original, panicked>>

----------------------------------------------------------------------------
(* wait()                                                                  *)

wait(p) ==
  /\ CanStep(p)
  /\ pc[p] = "user"
  /\ ~killed[p]
  /\ pc' = goto(p, "wait")
  /\ UNCHANGED <<state, parent, killed, pid, nextpid, lock, np, havekids,
                 original, panicked>>

wait_lock(p) ==
  /\ pc[p] = "wait"
  /\ CanStep(p)
  /\ lock' = [lock EXCEPT ![p] = p]
  /\ pc' = goto(p, "scan")
  /\ np' = [np EXCEPT ![p] = 1]
  /\ havekids' = [havekids EXCEPT ![p] = FALSE]
  /\ UNCHANGED <<state, parent, killed, pid, nextpid, original, panicked>>

\* Return to user space: the locks of wait() are released.
return_from_wait(p) ==
  /\ pc' = goto(p, "user")
  /\ lock' = [lock EXCEPT ![p] = None]
  /\ np' = [np EXCEPT ![p] = 1]
  /\ havekids' = [havekids EXCEPT ![p] = FALSE]

wait_scan(p) ==
  /\ pc[p] = "scan"
  /\ np[p] \in Slot
  /\ CanStep(p)
  /\ ~(parent[np[p]] = p /\ state[np[p]] = "ZOMBIE")
  /\ havekids' = [havekids EXCEPT ![p] = @ \/ parent[np[p]] = p]
  /\ np' = [np EXCEPT ![p] = @ + 1]
  /\ UNCHANGED <<state, parent, killed, pid, nextpid, lock, pc, original, panicked>>

\* freeproc() of a zombie child ...
wait_reap(p) ==
  LET s == np[p] IN
  /\ pc[p] = "scan"
  /\ s \in Slot
  /\ CanStep(p)
  /\ parent[s] = p
  /\ state[s] = "ZOMBIE"
  /\ state' = [state EXCEPT ![s] = "UNUSED"]
  /\ parent' = [parent EXCEPT ![s] = None]
  /\ killed' = [killed EXCEPT ![s] = FALSE]
  /\ pid' = [pid EXCEPT ![s] = 0]
  /\ return_from_wait(p)
  /\ UNCHANGED <<nextpid, original, panicked>>

\* ... unless copyout() of its exit status fails.
wait_bad_address(p) ==
  /\ pc[p] = "scan"
  /\ np[p] \in Slot
  /\ CanStep(p)
  /\ parent[np[p]] = p
  /\ state[np[p]] = "ZOMBIE"
  /\ p # initproc
  /\ return_from_wait(p)
  /\ UNCHANGED <<state, parent, killed, pid, nextpid, original, panicked>>

wait_no_kids(p) ==
  /\ pc[p] = "scan"
  /\ np[p] \notin Slot
  /\ CanStep(p)
  /\ ~havekids[p] \/ killed[p]
  /\ return_from_wait(p)
  /\ UNCHANGED <<state, parent, killed, pid, nextpid, original, panicked>>

\* sleep(p, &p->lock): p->lock is held until the scheduler has switched away.
wait_sleep(p) ==
  /\ pc[p] = "scan"
  /\ np[p] \notin Slot
  /\ CanStep(p)
  /\ havekids[p] /\ ~killed[p]
  /\ state' = [state EXCEPT ![p] = "SLEEPING"]
  /\ pc' = goto(p, "asleep")
  /\ lock' = [lock EXCEPT ![p] = None]
  /\ np' = [np EXCEPT ![p] = 1]
  /\ havekids' = [havekids EXCEPT ![p] = FALSE]
  /\ UNCHANGED <<parent, killed, pid, nextpid, original, panicked>>

----------------------------------------------------------------------------
\* The steps a process takes inside the kernel, as opposed to its choice of
\* the next system call.
KernelStep(p) ==
  \/ scheduler(p)
  \/ exit_wake_init(p) \/ exit_read_parent(p) \/ exit_lock_parent(p)
  \/ exit_lock_self(p) \/ reparent(p) \/ exit_zombie(p) \/ sched_zombie(p)
  \/ wait_lock(p) \/ wait_scan(p) \/ wait_reap(p) \/ wait_bad_address(p)
  \/ wait_no_kids(p) \/ wait_sleep(p)

Next ==
  \/ \E p \in Slot : KernelStep(p) \/ exit(p) \/ wait(p)
  \/ \E p, s \in Slot :
       fork(p, s) \/ (NOMEM /\ (fork_no_trapframe(p, s) \/ fork_no_memory(p, s)))
  \/ \E p \in Slot, n \in KILL : kill(p, n)

Spec == Init /\ [][Next]_vars

\* Every CPU keeps running its scheduler and a spinning acquire() gets the
\* lock if it is released again and again; a killed process is noticed by the
\* next trap from user space; the init program calls wait() in a loop.
Fairness ==
  /\ \A p \in Slot : SF_vars(KernelStep(p))
  /\ \A p \in Slot : WF_vars(killed[p] /\ exit(p))
  /\ WF_vars(wait(initproc))

FairSpec == Spec /\ Fairness

----------------------------------------------------------------------------
(* Properties.                                                             *)

\* Every process of S spins for a lock that a process of S holds.
Circle(S) == S # {} /\ \A p \in S : Wants(p) # None /\ lock[Wants(p)] \in S

\* exit() has locked, or is about to lock, a process that was p's parent when
\* it looked and has given p away to init since.
Stale(p) == original[p] \notin {None, parent[p]}

\* Parent before child, and init's lock only when no other is held: nobody
\* waits for a lock in a circle, and nobody for a lock he holds himself, but
\* for the case that exit() uses a parent that is not the parent any more.
NoCycleUnlessStale == \A S \in SUBSET Slot : Circle(S) => \E p \in S : Stale(p)

\* "the result will be a harmless spurious wakeup to a dead or wrong process;
\* proc structs are never re-allocated as anything else" (proc.c:369): locking
\* a stale parent does not deadlock either.
NoLockCycle == \A S \in SUBSET Slot : ~Circle(S)

\* reparent() runs before exit() makes the process a zombie, so a living
\* process never has a dead or freed parent, and wait() of somebody alive
\* will find it.
ParentAlive ==
  \A s \in Slot : state[s] # "UNUSED" /\ s # initproc =>
    /\ parent[s] # None
    /\ state[parent[s]] \notin {"UNUSED", "ZOMBIE"}

\* A process other than init never sleeps in wait() while one of its children
\* is a zombie: exit() changes the state with the parent's lock held.
NoLostWakeup ==
  \A p, s \in Slot :
    ~(p # initproc /\ state[p] = "SLEEPING" /\ parent[s] = p /\ state[s] = "ZOMBIE")

\* A slot is freed only after its thread has left its kernel stack for good.
FreedWhenGone == TypeOK /\ \A s \in Slot : state[s] = "UNUSED" => pc[s] = "none"

\* A process that was killed stops running.
KilledExits ==
  \A s \in Slot : killed[s] /\ pc[s] # "none" ~> pc[s] = "none" \/ panicked
=============================================================================
