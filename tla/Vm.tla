--------------------------------- MODULE Vm ---------------------------------
(***************************************************************************)
(* The memory of processes in xv6 with lab 4's per-process kernel page     *)
(* tables (kernel/vm.c, kernel/proc.c, kernel/exec.c of lab 4, the page    *)
(* allocator of kernel/kalloc.c): which pages are allocated, which table   *)
(* maps them, and which kernel page table each CPU runs on.                *)
(*                                                                         *)
(* A physical page is named after the use it was allocated for, so "alloc" *)
(* grows and shrinks as the free list shrinks and grows, a page that is    *)
(* lost stays in it, and one that is freed twice is missing.  A page table *)
(* has a root and one inner page for each of two regions, where Sv39 has   *)
(* two levels of inner pages.  A system call works on memory of its own    *)
(* process only, so it is one step, and exec(), which reads the disk       *)
(* between the segments it loads, is one step for each; that others take   *)
(* pages from the free list meanwhile is the choice of "left", how many    *)
(* kalloc()s of the step can succeed.  Sizes are in units of PGSIZE to a   *)
(* page.                                                                   *)
(***************************************************************************)
EXTENDS Integers, FiniteSets

CONSTANTS Slot, initproc,  \* process table and the first process
          CPU,
          NPAGE,     \* pages of physical memory
          PGSIZE,    \* units in a page
          WRAP,      \* sizes are computed modulo this in growproc()
          MAXPG,     \* bound: user pages of a process
          GROW,      \* the arguments of sbrk()
          END,       \* where the segments of programs end
          NARG,      \* pages sys_exec() allocates for the argument strings
          None

ASSUME VmConstants ==
  /\ initproc \in Slot /\ None \notin Slot \cup CPU
  /\ {NPAGE, PGSIZE, WRAP, MAXPG} \subseteq Nat \ {0} /\ NARG \in Nat
  /\ NPAGE >= 8   \* userinit() takes eight pages
  /\ MAXPG >= 2   \* exec() makes a stack of two
  /\ GROW \subseteq Int /\ END \subseteq 0..((MAXPG - 2) * PGSIZE)
  /\ WRAP > MAXPG * PGSIZE

VARIABLES
  alloc,    \* the pages that are not on the free list
  proc,     \* state, parent, sz, trapframe, pagetable, kpgtbl, the holder of p->lock
            \* and the image that exec() builds
  cpu,      \* c->proc, the page table in satp, and where the CPU is
  panicked  \* the argument of panic(), "" while the kernel runs

vars == <<alloc, proc, cpu, panicked>>

Region == {"user", "high"}
TRAPFRAME == MAXPG
TRAMPOLINE == MAXPG + 1
VA == 0..TRAMPOLINE
MAXSZ == MAXPG * PGSIZE

\* A user page table: gen tells exec()'s new table from the old one, and is ""
\* in Null, the pointer to none.
Table == [gen : {"", "A", "B"}, tab : SUBSET Region, leaf : SUBSET VA]
Null == [gen |-> "", tab |-> {}, leaf |-> {}]
NoImage == [pt |-> Null, sz |-> 0]
NoProc == [state |-> "UNUSED", parent |-> None, sz |-> 0, trapframe |-> FALSE,
           pagetable |-> Null, kpgtbl |-> {}, lock |-> None, image |-> NoImage]

PGROUNDUP(sz) == ((sz + PGSIZE - 1) \div PGSIZE) * PGSIZE
PGROUNDDOWN(sz) == (sz \div PGSIZE) * PGSIZE
Pages(lo, hi) == {a \in 0..(MAXPG - 1) : lo <= a * PGSIZE /\ a * PGSIZE < hi}

\* The physical pages of slot p.
trapframe_page(p) == <<p, "trapframe", "", "">>
kernel_page(p, x) == <<p, "kernel", "", x>>
table_page(p, gen, r) == <<p, "table", gen, r>>
user_page(p, gen, va) == <<p, "user", gen, va>>
argv(p) == {<<p, "argv", "", i>> : i \in 1..NARG}

-----------------------------------------------------------------------------
(* What the kernel's memory functions do.  m holds the allocated pages, the *)
(* number of kalloc()s that still succeed, the table worked on and its size, *)
(* whether the last function succeeded, and the message of a panic.         *)

kalloc(m, page) ==
  IF m.left = 0 THEN [m EXCEPT !.ok = FALSE]
  ELSE [m EXCEPT !.alloc = @ \cup {page}, !.left = @ - 1, !.ok = TRUE]

\* kfree() of pages; the code does not notice one that is free already.
kfree(m, S) ==
  [m EXCEPT !.alloc = @ \ S,
            !.panic = IF S \subseteq m.alloc THEN @ ELSE "page freed twice"]

panic(m, msg) == [m EXCEPT !.panic = msg, !.ok = FALSE]
fail(m) == [m EXCEPT !.ok = FALSE]

\* mappages() of one of the two pages at the top, after walk() has allocated
\* the inner page.
map_walked(m, va) ==
  IF ~m.ok THEN m
  ELSE IF va \in m.pt.leaf THEN panic(m, "remap")
  ELSE [m EXCEPT !.pt.tab = @ \cup {"high"}, !.pt.leaf = @ \cup {va}]
mappages(m, va) ==
  map_walked(IF "high" \in m.pt.tab THEN [m EXCEPT !.ok = TRUE]
             ELSE kalloc(m, table_page(m.p, m.pt.gen, "high")), va)

uvmunmap(m, S, do_free) ==
  LET u == [m EXCEPT !.pt.leaf = @ \ S] IN
  IF ~(S \subseteq m.pt.leaf) THEN panic(m, "uvmunmap")
  ELSE IF do_free THEN kfree(u, {user_page(m.p, m.pt.gen, va) : va \in S}) ELSE u

freewalk(m) ==
  IF m.pt.leaf # {} THEN panic(m, "freewalk: leaf")
  ELSE [kfree(m, {table_page(m.p, m.pt.gen, r) : r \in m.pt.tab \cup {"root"}})
          EXCEPT !.pt = Null]

uvmfree(m) == freewalk(uvmunmap(m, Pages(0, PGROUNDUP(m.sz)), TRUE))

\* mutant: the page that newsz is in is freed as well
uvmdealloc_down(m, oldsz, newsz) ==
  IF newsz >= oldsz THEN m
  ELSE uvmunmap(m, Pages(PGROUNDDOWN(newsz), PGROUNDUP(oldsz)), TRUE)
uvmdealloc(m, oldsz, newsz) ==
  IF newsz >= oldsz THEN m
  ELSE uvmunmap(m, Pages(PGROUNDUP(newsz), PGROUNDUP(oldsz)), TRUE)

\* The loops of uvmalloc() and uvmcopy() from lo: every page is a kalloc(), and
\* the first one another for the inner page that walk() may miss.  supplied is
\* the address where kalloc() fails.
inner(m) == IF "user" \in m.pt.tab THEN 0 ELSE 1
supplied(m, lo) == lo + (IF m.left > inner(m) THEN m.left - inner(m) ELSE 0) * PGSIZE
map_each(m, S) ==
  IF S = {} THEN [m EXCEPT !.ok = TRUE]
  ELSE IF S \cap m.pt.leaf # {} THEN panic(m, "remap")
  ELSE [m EXCEPT !.alloc = @ \cup {user_page(m.p, m.pt.gen, va) : va \in S}
                             \cup {table_page(m.p, m.pt.gen, "user")},
                 !.left = @ - Cardinality(S) - inner(m),
                 !.pt.tab = @ \cup {"user"}, !.pt.leaf = @ \cup S, !.ok = TRUE]

\* When a page is not to be had, the ones before it are given back.
uvmalloc(m, oldsz, newsz) ==
  LET lo == PGROUNDUP(oldsz)
      a == supplied(m, lo)
  IN IF newsz < oldsz THEN [m EXCEPT !.ok = TRUE]
     ELSE IF newsz <= a THEN map_each(m, Pages(lo, newsz))
     ELSE fail(uvmdealloc(map_each(m, Pages(lo, a)), a, lo))

uvmcopy(m, sz) ==
  LET i == supplied(m, 0) IN
  IF sz <= i THEN map_each(m, Pages(0, sz))
  ELSE fail(uvmunmap(map_each(m, Pages(0, i)), Pages(0, i), TRUE))

pt_trapframe(m) ==
  IF m.ok THEN m ELSE fail(uvmfree(uvmunmap([m EXCEPT !.sz = 0], {TRAMPOLINE}, FALSE)))
pt_trampoline(m) ==
  IF m.ok THEN pt_trapframe(mappages(m, TRAPFRAME)) ELSE fail(uvmfree([m EXCEPT !.sz = 0]))
uvmcreate(m, gen) == kalloc(m, table_page(m.p, gen, "root"))
pt_root(m, gen) ==
  IF m.ok THEN pt_trampoline(mappages([m EXCEPT !.pt = [Null EXCEPT !.gen = gen]], TRAMPOLINE))
  ELSE m
proc_pagetable(m, gen) == pt_root(uvmcreate([m EXCEPT !.pt = Null], gen), gen)

proc_freepagetable(m) ==
  uvmfree(uvmunmap(uvmunmap(m, {TRAMPOLINE}, FALSE), {TRAPFRAME}, FALSE))

\* Pvminit() and the kernel stack's Pvmmap().  The root is written to without
\* a look at what kalloc() returned, and Pvmmap() panics without memory.
kernel_map(m, x) == IF m.ok THEN [m EXCEPT !.kpgtbl = @ \cup {x}] ELSE panic(m, "Pvmmap")
Pvmmap(m, x) == IF m.ok THEN kernel_map(kalloc(m, kernel_page(m.p, x)), x) ELSE m
kernel_root(m) == IF m.ok THEN [m EXCEPT !.kpgtbl = {"root"}] ELSE panic(m, "kerneltrap")
Pvminit(m) ==
  IF ~m.ok THEN m
  ELSE Pvmmap(Pvmmap(kernel_root(kalloc(m, kernel_page(m.p, "root"))), "low"), "high")

Pfreewalk(m) == [kfree(m, {kernel_page(m.p, x) : x \in m.kpgtbl}) EXCEPT !.kpgtbl = {}]

free_trapframe(m) == IF m.trapframe THEN kfree(m, {trapframe_page(m.p)}) ELSE m
free_pagetable(m) == IF m.pt.gen # "" THEN proc_freepagetable(m) ELSE m
freeproc(m) ==
  [Pfreewalk(free_pagetable(free_trapframe(m))) EXCEPT !.trapframe = FALSE, !.sz = 0]

alloc_pagetable(m) == IF m.ok THEN m ELSE fail(freeproc(m))
alloc_trapframe(m) == [m EXCEPT !.trapframe = m.ok]
alloc_kpgtbl(m) == IF m.ok THEN alloc_pagetable(proc_pagetable(m, "A")) ELSE m
allocproc(m) == alloc_kpgtbl(Pvminit(alloc_trapframe(kalloc(m, trapframe_page(m.p)))))

-----------------------------------------------------------------------------
(* System calls *)

\* The memory of slot p as an argument, and what a call leaves of it.
memory(p, left) ==
  [p |-> p, alloc |-> alloc, left |-> left, ok |-> TRUE, panic |-> "", pt |-> proc[p].pagetable,
   sz |-> proc[p].sz, trapframe |-> proc[p].trapframe, kpgtbl |-> proc[p].kpgtbl]
left_with(m, q) ==
  /\ alloc' = m.alloc /\ panicked' = m.panic
  /\ proc' = [proc EXCEPT ![m.p] = [q EXCEPT !.pagetable = m.pt, !.sz = m.sz,
                                             !.trapframe = m.trapframe, !.kpgtbl = m.kpgtbl]]
  /\ UNCHANGED cpu
Left == {left \in 0..NPAGE : left + Cardinality(alloc) <= NPAGE}

\* Process p runs in the kernel, on a CPU and without its lock; it is in the
\* middle of exec(), or at the start of a call.
running(p) == panicked = "" /\ \E c \in CPU : cpu[c].pc = "run" /\ cpu[c].proc = p
loading(p) == proc[p].image.pt.gen # ""
calls(p) == running(p) /\ ~loading(p)

grown(sz, n) == (sz + n) % WRAP

growproc(p) ==
  \E n \in GROW, left \in Left :
    LET m == memory(p, left)
        newsz == grown(m.sz, n)
        sized(x) == IF x.ok /\ (n > 0) = (newsz >= m.sz) THEN [x EXCEPT !.sz = newsz] ELSE x
    IN /\ calls(p)
       /\ \/ n > 0 /\ newsz <= MAXSZ /\ left_with(sized(uvmalloc(m, m.sz, newsz)), proc[p])
          \/ n < 0 /\ left_with(sized(uvmdealloc(m, m.sz, newsz)), proc[p])

\* fork() after uvmcopy(), and after allocproc().
fork_copied(m, p) ==
  IF ~m.ok THEN left_with(freeproc(m), NoProc)
  ELSE left_with([m EXCEPT !.sz = proc[p].sz], [NoProc EXCEPT !.state = "RUNNABLE", !.parent = p])
fork_alloced(m, p) ==
  IF ~m.ok THEN left_with(m, NoProc)
  ELSE IF Pages(0, proc[p].sz) \subseteq proc[p].pagetable.leaf
  THEN fork_copied(uvmcopy(m, proc[p].sz), p)
  ELSE left_with(panic(m, "uvmcopy"), NoProc)

fork(p, np) ==
  \E left \in Left :
    /\ calls(p) /\ proc[np].state = "UNUSED" /\ proc[np].lock = None
    /\ fork_alloced(allocproc(memory(np, left)), p)

\* The image that exec() builds as an argument, and what a step of exec() leaves
\* of it.
new_image(p, left) ==
  [memory(p, left) EXCEPT !.pt = proc[p].image.pt, !.sz = proc[p].image.sz]
built(m) ==
  /\ alloc' = m.alloc /\ panicked' = m.panic
  /\ proc' = [proc EXCEPT ![m.p].image = [pt |-> m.pt, sz |-> m.sz]]
  /\ UNCHANGED cpu

\* mutant: a new image that could not be finished is forgotten
forget_image(m) == [m EXCEPT !.pt = Null]
drop_image(m) == IF m.pt.gen # "" THEN proc_freepagetable(m) ELSE m

\* At "bad:" the image is freed; sys_exec() then frees the argument strings.
exec_bad(m) == built([kfree(drop_image(m), argv(m.p)) EXCEPT !.sz = 0])

\* sys_exec() copies the argument strings to pages of its own, and exec() makes
\* a page table if the file is a program.  If a string cannot be copied it frees
\* the pages it has got and returns, which leaves everything as it was: a step
\* that changes nothing.
argv_copied(m) == [m EXCEPT !.alloc = @ \cup argv(m.p), !.left = @ - NARG]
exec_pagetable(m) == IF m.ok THEN built(m) ELSE exec_bad(m)
sys_exec(p) ==
  \E magic \in BOOLEAN, left \in Left :
    LET m == argv_copied(new_image(p, left)) IN
    /\ calls(p) /\ left >= NARG
    /\ IF magic THEN exec_pagetable(proc_pagetable(m, IF proc[p].pagetable.gen = "A" THEN "B" ELSE "A"))
       ELSE exec_bad(m)

\* One segment, which ends at "end"; load is whether it can be read.
exec_grown(m, sz, load) ==
  IF ~m.ok \/ sz = 0 THEN exec_bad(m)
  ELSE IF load THEN built([m EXCEPT !.sz = sz]) ELSE exec_bad([m EXCEPT !.sz = sz])
exec_segment(p) ==
  \E end \in END, load \in BOOLEAN, left \in Left :
    LET m == new_image(p, left) IN
    /\ running(p) /\ loading(p)
    /\ exec_grown(uvmalloc(m, m.sz, end), IF end < m.sz THEN m.sz ELSE end, load)

\* Two pages for the stack; args is whether the arguments fit.  Then the new
\* image n takes the place of the old one.
commit(n) ==
  LET old == proc_freepagetable([n EXCEPT !.pt = proc[n.p].pagetable, !.sz = proc[n.p].sz]) IN
  left_with([kfree(old, argv(n.p)) EXCEPT !.pt = n.pt, !.sz = n.sz],
            [proc[n.p] EXCEPT !.image = NoImage])
exec_stack(m, args) ==
  IF ~m.ok THEN exec_bad(m)
  ELSE IF args THEN commit([m EXCEPT !.sz = @ + 2 * PGSIZE])
  ELSE exec_bad([m EXCEPT !.sz = @ + 2 * PGSIZE])
exec_loaded(m, args) == exec_stack(uvmalloc(m, m.sz, m.sz + 2 * PGSIZE), args)
exec(p) ==
  \E args \in BOOLEAN, left \in Left :
    /\ running(p) /\ loading(p)
    /\ exec_loaded([new_image(p, left) EXCEPT !.sz = PGROUNDUP(@)], args)

\* wait() frees a child that has exited.
wait(p, np) ==
  /\ calls(p) /\ proc[np].parent = p /\ proc[np].state = "ZOMBIE" /\ proc[np].lock = None
  /\ left_with(freeproc(memory(np, 0)), NoProc)

-----------------------------------------------------------------------------
(* CPUs *)

\* mutant: the CPU stays on the page table of the process that it left
stay(c) == cpu[c].satp
kvminithart(c) == None

scheduler(c, p) ==
  /\ panicked = "" /\ cpu[c].pc = "scheduler"
  /\ proc[p].state = "RUNNABLE" /\ proc[p].lock = None
  /\ proc' = [proc EXCEPT ![p].state = "RUNNING", ![p].lock = c]
  /\ cpu' = [cpu EXCEPT ![c] = [proc |-> p, satp |-> p, pc |-> "resumed"]]
  /\ UNCHANGED <<alloc, panicked>>

\* forkret(), or the end of yield(): release(&p->lock).
resume(c) ==
  /\ panicked = "" /\ cpu[c].pc = "resumed"
  /\ proc' = [proc EXCEPT ![cpu[c].proc].lock = None]
  /\ cpu' = [cpu EXCEPT ![c].pc = "run"]
  /\ UNCHANGED <<alloc, panicked>>

\* A process gives its CPU up with its lock held: yield(), or exit().
yield(c) ==
  LET p == cpu[c].proc IN
  /\ panicked = "" /\ cpu[c].pc = "run" /\ proc[p].lock = None
  /\ proc' = [proc EXCEPT ![p].state = "RUNNABLE", ![p].lock = c]
  /\ cpu' = [cpu EXCEPT ![c].pc = "sched"]
  /\ UNCHANGED <<alloc, panicked>>

exit(c) ==
  LET p == cpu[c].proc IN
  /\ panicked = "" /\ cpu[c].pc = "run" /\ p # initproc /\ ~loading(p)
  /\ proc[p].lock = None /\ proc[proc[p].parent].lock = None
  /\ proc' = [q \in Slot |->
                IF q = p THEN [proc[p] EXCEPT !.state = "ZOMBIE", !.lock = c]
                ELSE IF proc[q].parent = p THEN [proc[q] EXCEPT !.parent = initproc] ELSE proc[q]]
  /\ cpu' = [cpu EXCEPT ![c].pc = "sched"]
  /\ UNCHANGED <<alloc, panicked>>

\* scheduler() after swtch(): kvminithart(), then release(&p->lock).
sched_return(c) ==
  /\ panicked = "" /\ cpu[c].pc = "sched"
  /\ cpu' = [cpu EXCEPT ![c].satp = kvminithart(c), ![c].pc = "switched"]
  /\ UNCHANGED <<alloc, proc, panicked>>

sched_release(c) ==
  /\ panicked = "" /\ cpu[c].pc = "switched"
  /\ proc' = [proc EXCEPT ![cpu[c].proc].lock = None]
  /\ cpu' = [cpu EXCEPT ![c].proc = None, ![c].pc = "scheduler"]
  /\ UNCHANGED <<alloc, panicked>>

\* userinit(): the first process, with one page.
Init ==
  LET m == [p |-> initproc, alloc |-> {}, left |-> NPAGE, ok |-> TRUE, panic |-> "", pt |-> Null,
            sz |-> 0, trapframe |-> FALSE, kpgtbl |-> {}]
      u == uvmalloc(allocproc(m), 0, PGSIZE)
  IN /\ alloc = u.alloc /\ panicked = u.panic
     /\ proc = [p \in Slot |-> IF p # initproc THEN NoProc ELSE
                 [NoProc EXCEPT !.state = "RUNNABLE", !.sz = PGSIZE, !.trapframe = TRUE,
                                !.pagetable = u.pt, !.kpgtbl = u.kpgtbl]]
     /\ cpu = [c \in CPU |-> [proc |-> None, satp |-> None, pc |-> "scheduler"]]

Next ==
  \/ \E c \in CPU : \/ resume(c) \/ yield(c) \/ exit(c) \/ sched_return(c) \/ sched_release(c)
                   \/ \E p \in Slot : scheduler(c, p)
  \/ \E p \in Slot : \/ growproc(p) \/ sys_exec(p) \/ exec_segment(p) \/ exec(p)
                    \/ \E np \in Slot : fork(p, np) \/ wait(p, np)

Spec == Init /\ [][Next]_vars

-----------------------------------------------------------------------------
(* Properties *)

TypeOK ==
  /\ proc \in [Slot -> [state : {"UNUSED", "RUNNABLE", "RUNNING", "ZOMBIE"},
                        parent : Slot \cup {None}, sz : 0..MAXSZ, trapframe : BOOLEAN,
                        pagetable : Table, kpgtbl : SUBSET {"root", "low", "high"},
                        lock : CPU \cup {None}, image : [pt : Table, sz : 0..MAXSZ]]]
  /\ cpu \in [CPU -> [proc : Slot \cup {None}, satp : Slot \cup {None},
                      pc : {"scheduler", "resumed", "run", "sched", "switched"}]]

\* The pages that process p refers to: the ones of a table pt, and all.
TablePages(p, pt) ==
  IF pt.gen = "" THEN {} ELSE
    {table_page(p, pt.gen, r) : r \in pt.tab \cup {"root"}}
    \cup {user_page(p, pt.gen, va) : va \in pt.leaf \ {TRAPFRAME, TRAMPOLINE}}
PagesOf(p) ==
  (IF proc[p].trapframe THEN {trapframe_page(p)} ELSE {})
  \cup {kernel_page(p, x) : x \in proc[p].kpgtbl}
  \cup TablePages(p, proc[p].pagetable) \cup TablePages(p, proc[p].image.pt)
  \cup (IF loading(p) THEN argv(p) ELSE {})

\* The only panics are the ones of Pvminit() and Pvmmap() without memory.
NoPanic == panicked \in {"", "kerneltrap", "Pvmmap"}

\* No call loses a page or frees one that is in use, whichever kalloc() of
\* fork(), exec() and sbrk() fails: between steps the allocated pages are those
\* that some process refers to, the image that exec() builds included.
PagesConserved == NoPanic /\ (panicked = "" => alloc = UNION {PagesOf(p) : p \in Slot})

\* A process has exactly the pages below p->sz (and the two at the top), and so
\* has the image that exec() builds.
Sized(pt, sz) == pt.gen # "" => pt.leaf = Pages(0, sz) \cup {TRAPFRAME, TRAMPOLINE}
SizeMapped ==
  TypeOK /\ \A p \in Slot : panicked = "" =>
    Sized(proc[p].pagetable, proc[p].sz) /\ Sized(proc[p].image.pt, proc[p].image.sz)

\* The page table a CPU runs on is not freed under it: satp names the kernel's
\* table, or the one of a process that is not freed yet and that this CPU runs.
SatpLive ==
  \A c \in CPU : cpu[c].satp # None =>
    /\ {kernel_page(cpu[c].satp, x) : x \in {"root", "low", "high"}} \subseteq alloc
    /\ cpu[c].proc = cpu[c].satp

=============================================================================
