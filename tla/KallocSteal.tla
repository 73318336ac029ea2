---------------------------- MODULE KallocSteal ----------------------------
(***************************************************************************)
(* The page allocator of lab 3 (实验三/kernel/kalloc.c): one free list and *)
(* one lock per CPU; kalloc() tries the list of its CPU and then the lists *)
(* of all CPUs in order.  A thread reads its CPU number with interrupts    *)
(* off but uses it with interrupts on, so it may be on another CPU by      *)
(* then; the number is any CPU.                                            *)
(*                                                                         *)
(* A list is locked for one look at its head, which is one step.           *)
(***************************************************************************)
EXTENDS Integers, Sequences, FiniteSets

CONSTANTS NCPU, Thread, Page, None

\* What the constants have to be.
KallocConstants ==
  /\ NCPU \in Nat \ {0}
  /\ None \notin Page

Cpu == 0..(NCPU - 1)

VARIABLES
  freelist,  \* kmems[c].freelist
  owned,     \* the pages a thread has got from kalloc() and not given back
  pc,        \* where the thread is
  cpu,       \* its local cpu
  i,         \* kalloc()'s loop variable
  pa         \* kfree()'s argument

vars == <<freelist, owned, pc, cpu, i, pa>>

TypeOK ==
  /\ freelist \in [Cpu -> Seq(Page)]
  /\ owned \in [Thread -> SUBSET Page]
  /\ pc \in [Thread -> {"run", "kalloc", "steal", "kfree"}]
  /\ cpu \in [Thread -> Cpu]
  /\ i \in [Thread -> 0..NCPU]
  /\ pa \in [Thread -> Page \cup {None}]

\* kinit(): freerange() gives every page to the CPU that boots.
Init ==
  /\ \E s \in [1..Cardinality(Page) -> Page] :
       /\ {s[k] : k \in DOMAIN s} = Page
       /\ freelist = [c \in Cpu |-> IF c = 0 THEN s ELSE << >>]
  /\ owned = [t \in Thread |-> {}]
  /\ pc = [t \in Thread |-> "run"]
  /\ cpu = [t \in Thread |-> 0]
  /\ i = [t \in Thread |-> 0]
  /\ pa = [t \in Thread |-> None]

----------------------------------------------------------------------------
goto(t, l) == [pc EXCEPT ![t] = l]

\* The head of the list of CPU c becomes thread t's.
pop(c) == [freelist EXCEPT ![c] = Tail(@)]

take(t, c) ==
  /\ freelist' = pop(c)
  /\ owned' = [owned EXCEPT ![t] = @ \cup {Head(freelist[c])}]
  /\ pc' = goto(t, "run")
  /\ i' = [i EXCEPT ![t] = 0]

----------------------------------------------------------------------------
kalloc(t, c) ==
  /\ pc[t] = "run"
  /\ cpu' = [cpu EXCEPT ![t] = c]
  /\ pc' = goto(t, "kalloc")
  /\ UNCHANGED <<freelist, owned, i, pa>>

kalloc_own(t) ==
  /\ pc[t] = "kalloc"
  /\ freelist[cpu[t]] # << >>
  /\ take(t, cpu[t])
  /\ UNCHANGED <<cpu, pa>>

\* The list of the own CPU is empty and its lock is released.
kalloc_miss(t) ==
  /\ pc[t] = "kalloc"
  /\ freelist[cpu[t]] = << >>
  /\ pc' = goto(t, "steal")
  /\ i' = [i EXCEPT ![t] = 0]
  /\ UNCHANGED <<freelist, owned, cpu, pa>>

steal(t) ==
  /\ pc[t] = "steal"
  /\ i[t] \in Cpu
  /\ freelist[i[t]] # << >>
  /\ take(t, i[t])
  /\ UNCHANGED <<cpu, pa>>

next_cpu(t) == [i EXCEPT ![t] = @ + 1]

steal_next(t) ==
  /\ pc[t] = "steal"
  /\ i[t] \in Cpu
  /\ freelist[i[t]] = << >>
  /\ i' = next_cpu(t)
  /\ UNCHANGED <<freelist, owned, pc, cpu, pa>>

\* kalloc() returns 0.
kalloc_fail(t) ==
  /\ pc[t] = "steal"
  /\ i[t] \notin Cpu
  /\ pc' = goto(t, "run")
  /\ i' = [i EXCEPT ![t] = 0]
  /\ UNCHANGED <<freelist, owned, cpu, pa>>

kfree(t, c, p) ==
  /\ pc[t] = "run"
  /\ p \in owned[t]
  /\ cpu' = [cpu EXCEPT ![t] = c]
  /\ pa' = [pa EXCEPT ![t] = p]
  /\ owned' = [owned EXCEPT ![t] = @ \ {p}]
  /\ pc' = goto(t, "kfree")
  /\ UNCHANGED <<freelist, i>>

kfree_push(t) ==
  /\ pc[t] = "kfree"
  /\ freelist' = [freelist EXCEPT ![cpu[t]] = <<pa[t]>> \o @]
  /\ pa' = [pa EXCEPT ![t] = None]
  /\ pc' = goto(t, "run")
  /\ UNCHANGED <<owned, cpu, i>>

----------------------------------------------------------------------------
Next ==
  \E t \in Thread :
    \/ \E c \in Cpu : kalloc(t, c) \/ \E p \in Page : kfree(t, c, p)
    \/ kalloc_own(t) \/ kalloc_miss(t) \/ steal(t) \/ steal_next(t)
    \/ kalloc_fail(t) \/ kfree_push(t)

Spec == Init /\ [][Next]_vars

----------------------------------------------------------------------------
(* Properties.                                                             *)

\* The places where page p is: positions in the lists and threads.
Places(p) ==
  {<<c, k>> \in Cpu \X (1..Cardinality(Page)) :
     k =< Len(freelist[c]) /\ freelist[c][k] = p}
  \cup {t \in Thread : p \in owned[t] \/ pa[t] = p}

\* Every page is at exactly one place: no page is given to two threads, lost,
\* or in two free lists, although a thread pushes to, or pops from, the list
\* of a CPU it has long left.
PagesConserved == \A p \in Page : Cardinality(Places(p)) = 1
=============================================================================
