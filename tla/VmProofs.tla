------------------------------ MODULE VmProofs ------------------------------
(***************************************************************************)
(* Proofs about the memory of processes, for any number of processes, CPUs *)
(* and pages and any sizes of programs: no page is lost or freed while it  *)
(* is in use, whichever kalloc() of fork(), exec() or sbrk() fails, every  *)
(* process has exactly the pages below its size, and no CPU runs on a page *)
(* table that has been freed.                                              *)
(*                                                                         *)
(* The proof goes function by function, as the code does: each one of vm.c *)
(* is shown to add or to take exactly the pages of its own table (Holds),  *)
(* the system calls compose them, and a step of one process leaves the     *)
(* pages of the others alone because pages are named after their owners.   *)
(***************************************************************************)
EXTENDS Vm, TLAPS

-----------------------------------------------------------------------------
(* The inductive invariant *)

\* The pages of a kernel page table, the two user pages at the top of every
\* table, the size of the largest image without its stack, and the name of
\* exec()'s new table beside the old one.
Kernel == {"root", "low", "high"}
Top == {TRAPFRAME, TRAMPOLINE}
MAXIMAGE == (MAXPG - 2) * PGSIZE
Other(gen) == IF gen = "A" THEN "B" ELSE "A"

\* What holds of the record r of a process: UNUSED owns nothing, any other has
\* a trapframe, a kernel page table and a user page table with the pages below
\* its size, and beside it the image that exec() builds.
Good(r) ==
  IF r.state = "UNUSED"
  THEN ~r.trapframe /\ r.kpgtbl = {} /\ r.pagetable = Null /\ r.sz = 0 /\ r.image = NoImage
  ELSE /\ r.trapframe /\ r.kpgtbl = Kernel /\ r.pagetable.gen \in {"A", "B"}
       /\ Sized(r.pagetable, r.sz)
       /\ \/ r.image = NoImage
          \/ /\ r.image.pt.gen = Other(r.pagetable.gen) /\ r.state # "ZOMBIE"
             /\ Sized(r.image.pt, r.image.sz) /\ r.image.sz <= MAXIMAGE
SlotOK(p) == Good(proc[p])

\* CPU c is on the kernel table of its process from scheduler() until it is back
\* there, and has the lock of the process while the two change hands.
CpuOK(c) ==
  LET p == cpu[c].proc IN
  /\ cpu[c].satp = (IF cpu[c].pc \in {"scheduler", "switched"} THEN None ELSE p)
  /\ (p = None) = (cpu[c].pc = "scheduler")
  /\ cpu[c].pc \in {"resumed", "run"} => proc[p].state = "RUNNING"
  /\ cpu[c].pc \in {"sched", "switched"} => proc[p].state \in {"RUNNABLE", "ZOMBIE"}
  /\ cpu[c].pc \in {"resumed", "sched", "switched"} => proc[p].lock = c

\* No process runs on two CPUs.
Alone == \A c, d \in CPU : c # d /\ cpu[c].proc # None => cpu[c].proc # cpu[d].proc

\* All of it, while the kernel has not panicked.
Running ==
  /\ alloc = UNION {PagesOf(p) : p \in Slot}
  /\ \A p \in Slot : SlotOK(p)
  /\ \A c \in CPU : CpuOK(c)
  /\ Alone

Inv == TypeOK /\ NoPanic /\ SatpLive /\ (panicked = "" => Running)

-----------------------------------------------------------------------------
(* Pages and sizes *)

\* A product grows with its factor.
LEMMA TimesMonotone ==
  ASSUME NEW a \in Int, NEW b \in Int, NEW n \in Nat, n > 0
  PROVE  (a < b) <=> (a * n < b * n)
<1>1. ASSUME a < b PROVE a * n < b * n
  BY <1>1
<1>2. ASSUME ~(a < b) PROVE ~(a * n < b * n)
  <2>1. a >= b
    BY <1>2
  <2> QED BY <2>1
<1> QED BY <1>1, <1>2

\* PGROUNDUP(s) is the first multiple of PGSIZE that is not below s.
LEMMA RoundUp ==
  ASSUME NEW s \in Nat
  PROVE  \E k \in Nat : PGROUNDUP(s) = k * PGSIZE /\ k * PGSIZE >= s /\ k * PGSIZE < s + PGSIZE
<1> DEFINE k == (s + PGSIZE - 1) \div PGSIZE
<1>1. PGSIZE \in Nat /\ PGSIZE > 0
  BY VmConstants
<1>2. k \in Nat /\ k * PGSIZE <= s + PGSIZE - 1 /\ s + PGSIZE - 1 < k * PGSIZE + PGSIZE
  BY <1>1
<1>3. PGROUNDUP(s) = k * PGSIZE
  BY DEF PGROUNDUP
<1> HIDE DEF k
<1> QED BY <1>1, <1>2, <1>3

\* A page starts below a size exactly when it starts below the size rounded up.
LEMMA RoundedPage ==
  ASSUME NEW s \in Nat, NEW a \in Nat
  PROVE  /\ PGROUNDUP(s) \in Nat /\ PGROUNDUP(s) >= s
         /\ (a * PGSIZE < s) <=> (a * PGSIZE < PGROUNDUP(s))
<1>1. PICK k \in Nat : PGROUNDUP(s) = k * PGSIZE /\ k * PGSIZE >= s /\ k * PGSIZE < s + PGSIZE
  BY RoundUp
<1>2. PGSIZE \in Nat /\ PGSIZE > 0
  BY VmConstants
<1>3. (a < k) <=> (a * PGSIZE < k * PGSIZE)
  BY <1>2, TimesMonotone
<1>4. ASSUME a < k PROVE a * PGSIZE < s
  <2>1. ~(k - 1 < a)
    BY <1>4
  <2>2. ~((k - 1) * PGSIZE < a * PGSIZE)
    BY <2>1, <1>2, TimesMonotone
  <2>3. (k - 1) * PGSIZE = k * PGSIZE - PGSIZE
    BY <1>2
  <2> QED BY <2>2, <2>3, <1>1, <1>2
<1>5. a * PGSIZE \in Nat /\ k * PGSIZE \in Nat
  BY <1>2
<1> QED BY <1>1, <1>3, <1>4, <1>5

\* Pages between two sizes, and the two above all sizes.
LEMMA PagesBetween ==
  ASSUME NEW lo \in Nat, NEW hi \in Nat
  PROVE  /\ Pages(lo, hi) = Pages(0, hi) \ Pages(0, lo)
         /\ Pages(PGROUNDUP(lo), hi) = Pages(0, hi) \ Pages(0, lo)
         /\ Pages(PGROUNDUP(lo), PGROUNDUP(hi)) = Pages(0, hi) \ Pages(0, lo)
         /\ Pages(0, PGROUNDUP(hi)) = Pages(0, hi)
         /\ lo <= hi => Pages(0, lo) \subseteq Pages(0, hi)
<1>1. PGSIZE \in Nat
  BY VmConstants
<1>2. \A a \in Nat : /\ a * PGSIZE \in Nat
                     /\ (a * PGSIZE < lo) <=> (a * PGSIZE < PGROUNDUP(lo))
                     /\ (a * PGSIZE < hi) <=> (a * PGSIZE < PGROUNDUP(hi))
  BY <1>1, RoundedPage
<1>3. PGROUNDUP(lo) \in Nat /\ PGROUNDUP(hi) \in Nat
  BY RoundedPage
<1>4. \A a \in 0..(MAXPG - 1) : a \in Nat
  BY VmConstants
<1>5. \A a, x, y : a \in Pages(x, y) <=> a \in 0..(MAXPG - 1) /\ x <= a * PGSIZE /\ a * PGSIZE < y
  BY DEF Pages
<1>6. ASSUME NEW x \in Nat, NEW y \in Nat,
             \A a \in Nat : (a * PGSIZE < lo) <=> (a * PGSIZE < x),
             \A a \in Nat : (a * PGSIZE < hi) <=> (a * PGSIZE < y)
      PROVE  Pages(x, y) = Pages(0, hi) \ Pages(0, lo)
  <2>1. ASSUME NEW a
        PROVE  a \in Pages(x, y) <=> a \in Pages(0, hi) /\ a \notin Pages(0, lo)
    BY <1>2, <1>4, <1>5, <1>6
  <2> QED BY <2>1
<1>7. \A a : a \in Pages(0, PGROUNDUP(hi)) <=> a \in Pages(0, hi)
  BY <1>2, <1>4, <1>5
<1>8. ASSUME lo <= hi PROVE Pages(0, lo) \subseteq Pages(0, hi)
  <2>1. ASSUME NEW a \in Pages(0, lo) PROVE a \in Pages(0, hi)
    BY <1>2, <1>4, <1>5, <1>8
  <2> QED BY <2>1
<1> QED BY <1>2, <1>3, <1>6, <1>7, <1>8

\* The pages below a size are not the two at the top.
LEMMA PagesLow ==
  ASSUME NEW lo, NEW hi
  PROVE  Pages(lo, hi) \cap Top = {} /\ Pages(lo, hi) \subseteq VA /\ Top \subseteq VA
BY VmConstants DEF Pages, Top, TRAPFRAME, TRAMPOLINE, VA

-----------------------------------------------------------------------------
(* The pages of slot p that belong to table g: tables T and user pages L.   *)

TableSet(p, g, T) == {table_page(p, g, r) : r \in T}
UserSet(p, g, L) == {user_page(p, g, va) : va \in L}
Parts(p, g, T, L) == TableSet(p, g, T \cup {"root"}) \cup UserSet(p, g, L \ Top)

\* No page of the set R belongs to table g.
Apart(R, p, g) == \A x : table_page(p, g, x) \notin R /\ user_page(p, g, x) \notin R

\* Set operations by name, which the lemmas below are about.
Plus(S, T) == S \cup T
Minus(S, T) == S \ T
With(S, x) == S \cup {x}
Sub(S, T) == S \subseteq T
LowSet(S) == S \cap Top = {}

\* The two pages at the top are not the table's.
LEMMA PartsTop ==
  ASSUME NEW p, NEW g, NEW T, NEW L, NEW va \in Top
  PROVE  Parts(p, g, T, With(L, va)) = Parts(p, g, T, L)
<1>1. With(L, va) \ Top = L \ Top
  BY DEF With
<1> QED BY <1>1 DEF Parts

\* Unmapping the pages at the top takes no page from the table.
LEMMA PartsNotTop ==
  ASSUME NEW p, NEW g, NEW T, NEW L, NEW S, Sub(S, Top)
  PROVE  Parts(p, g, T, Minus(L, S)) = Parts(p, g, T, L)
<1>1. Minus(L, S) \ Top = L \ Top
  BY DEF Minus, Sub
<1> QED BY <1>1 DEF Parts

\* A table with the user pages S more.
LEMMA PartsMore ==
  ASSUME NEW p, NEW g, NEW T, NEW L, NEW S, LowSet(S)
  PROVE  Parts(p, g, T, Plus(L, S)) = Plus(Parts(p, g, T, L), UserSet(p, g, S))
<1>1. Plus(L, S) \ Top = (L \ Top) \cup S
  BY DEF Plus, LowSet
<1>2. UserSet(p, g, Plus(L, S) \ Top) = UserSet(p, g, L \ Top) \cup UserSet(p, g, S)
  BY <1>1 DEF UserSet
<1> QED BY <1>2 DEF Parts, Plus

\* A table with the inner page r more.
LEMMA PartsTable ==
  ASSUME NEW p, NEW g, NEW T, NEW L, NEW r
  PROVE  Parts(p, g, With(T, r), L) = With(Parts(p, g, T, L), table_page(p, g, r))
<1>1. TableSet(p, g, With(T, r) \cup {"root"})
        = TableSet(p, g, T \cup {"root"}) \cup {table_page(p, g, r)}
  BY DEF TableSet, With
<1> QED BY <1>1 DEF Parts, With

\* A table with the user pages S less: pages with different names are different.
LEMMA PartsLess ==
  ASSUME NEW p, NEW g, NEW T, NEW L, NEW S, NEW R, LowSet(S), Sub(S, L), Apart(R, p, g)
  PROVE  /\ Plus(R, Parts(p, g, T, Minus(L, S)))
              = Minus(Plus(R, Parts(p, g, T, L)), UserSet(p, g, S))
         /\ Sub(UserSet(p, g, S), Plus(R, Parts(p, g, T, L)))
<1> DEFINE l == L \ Top
           k == Minus(L, S) \ Top
           A == TableSet(p, g, T \cup {"root"})
           B == UserSet(p, g, l)
           C == UserSet(p, g, S)
           D == UserSet(p, g, k)
<1>1. k = l \ S /\ S \subseteq l
  BY DEF Minus, Sub, LowSet
<1>2. Parts(p, g, T, L) = A \cup B /\ Parts(p, g, T, Minus(L, S)) = A \cup D
  BY DEF Parts
<1>3. R \cap C = {} /\ A \cap C = {}
  <2>1. \A x, y : table_page(p, g, x) # user_page(p, g, y)
    BY DEF user_page, table_page
  <2> QED BY <2>1 DEF Apart, TableSet, UserSet
<1> HIDE DEF l, k
<1>4. D = B \ C
  <2>1. \A x, y : user_page(p, g, x) = user_page(p, g, y) => x = y
    BY DEF user_page
  <2> QED BY <1>1, <2>1 DEF UserSet
<1>5. C \subseteq B
  BY <1>1 DEF UserSet
<1> HIDE DEF A, B, C, D
<1>6. R \cup Parts(p, g, T, Minus(L, S)) = (R \cup Parts(p, g, T, L)) \ C
  BY <1>2, <1>3, <1>4, <1>5
<1>7. C \subseteq R \cup Parts(p, g, T, L)
  BY <1>2, <1>5
<1> QED BY <1>6, <1>7 DEF C, Plus, Minus, Sub

\* A table without leaves is its table pages.
LEMMA PartsNone ==
  ASSUME NEW p, NEW g, NEW T, NEW R, NEW L, Apart(R, p, g), L = {}
  PROVE  /\ Minus(Plus(R, Parts(p, g, T, L)), TableSet(p, g, With(T, "root"))) = R
         /\ Sub(TableSet(p, g, With(T, "root")), Plus(R, Parts(p, g, T, L)))
<1>1. UserSet(p, g, L \ Top) = {}
  BY DEF UserSet
<1>2. R \cap TableSet(p, g, T \cup {"root"}) = {}
  BY DEF Apart, TableSet
<1> QED BY <1>1, <1>2 DEF Parts, Plus, Minus, Sub, With

-----------------------------------------------------------------------------
(* The memory functions.  m is the memory of one slot in which table g is   *)
(* worked on, and R the allocated pages that are not of that table.         *)

\* The type of a memory, and names for its fields.
Mem(m) ==
  /\ m = [p |-> m.p, alloc |-> m.alloc, left |-> m.left, ok |-> m.ok, panic |-> m.panic,
          pt |-> m.pt, sz |-> m.sz, trapframe |-> m.trapframe, kpgtbl |-> m.kpgtbl]
  /\ m.p \in Slot /\ m.ok \in BOOLEAN /\ m.pt \in Table
  /\ m.sz \in 0..MAXSZ /\ m.trapframe \in BOOLEAN /\ m.kpgtbl \in SUBSET Kernel

Self(m) == m.p
Alloc(m) == m.alloc
Ok(m) == m.ok
Room(m) == m.left
Tab(m) == m.pt.tab
Leaf(m) == m.pt.leaf
Size(m) == m.sz
High(m) == "high" \in m.pt.tab

\* Table g has its pages allocated, and R is all the rest.
Holds(m, R, g) ==
  /\ Mem(m) /\ m.panic = "" /\ m.pt.gen = g /\ g \in {"A", "B"}
  /\ Apart(R, Self(m), g) /\ Alloc(m) = Plus(R, Parts(Self(m), g, Tab(m), Leaf(m)))

\* What a function on the table leaves alone.
Same(m, n) ==
  /\ Self(n) = Self(m) /\ Size(n) = Size(m)
  /\ n.trapframe = m.trapframe /\ n.kpgtbl = m.kpgtbl

\* mappages() of one of the two pages at the top adds it, or its table as well,
\* or fails and changes nothing.
LEMMA MapTop ==
  ASSUME NEW m, NEW R, NEW g, Holds(m, R, g), Room(m) \in Nat, NEW va \in Top, va \notin Leaf(m)
  PROVE  /\ Holds(mappages(m, va), R, g) /\ Same(m, mappages(m, va))
         /\ Ok(mappages(m, va)) =>
              High(mappages(m, va)) /\ Leaf(mappages(m, va)) = With(Leaf(m), va)
         /\ ~Ok(mappages(m, va)) => Leaf(mappages(m, va)) = Leaf(m)
         /\ Room(mappages(m, va)) \in Nat
         /\ High(m) => Ok(mappages(m, va)) /\ Room(mappages(m, va)) = Room(m)
         /\ Room(m) > 0 => Ok(mappages(m, va)) /\ Room(mappages(m, va)) >= Room(m) - 1
<1> DEFINE n == mappages(m, va)
<1>1. m.pt \in Table /\ m.pt.gen = g /\ g # "" /\ Mem(m) /\ va \in VA /\ Apart(R, Self(m), g)
      /\ Alloc(m) = Plus(R, Parts(Self(m), g, Tab(m), Leaf(m)))
  BY PagesLow DEF Holds, Mem
<1>2. CASE ~High(m) /\ m.left = 0
  <2>1. n = [m EXCEPT !.ok = FALSE]
    BY <1>1, <1>2 DEF mappages, map_walked, kalloc, Mem, High
  <2> HIDE DEF n
  <2>2. Holds(n, R, g) /\ Same(m, n) /\ ~Ok(n) /\ Leaf(n) = Leaf(m) /\ Room(n) = Room(m)
    BY <2>1, <1>1 DEF Holds, Mem, Same, Self, Size, Alloc, Tab, Leaf, Room, Ok
  <2> QED BY <2>2, <1>2 DEF n, Room
<1>3. CASE High(m)
  <2> DEFINE qt == [m.pt EXCEPT !.tab = @ \cup {"high"}, !.leaf = @ \cup {va}]
  <2>1. n = [m EXCEPT !.ok = TRUE, !.pt = qt]
    BY <1>1, <1>3 DEF mappages, map_walked, kalloc, Mem, High, Leaf
  <2>2. qt \in Table /\ qt.gen = g /\ qt.tab = Tab(m) /\ qt.leaf = With(Leaf(m), va)
    BY <1>1, <1>3 DEF Table, Region, Leaf, With, High, Tab
  <2> HIDE DEF n, qt
  <2>3. Plus(R, Parts(Self(m), g, qt.tab, qt.leaf)) = Plus(R, Parts(Self(m), g, Tab(m), Leaf(m)))
    BY <2>2, PartsTop
  <2>4. Holds(n, R, g) /\ Same(m, n) /\ Ok(n) /\ Leaf(n) = qt.leaf /\ High(n) /\ Room(n) = Room(m)
    BY <2>1, <2>2, <2>3, <1>1, <1>3 DEF Holds, Mem, Same, Self, Size, Alloc, Tab, Ok, Leaf, High, Room
  <2> QED BY <2>2, <2>4 DEF n
<1>4. CASE ~High(m) /\ m.left # 0
  <2> DEFINE qt == [m.pt EXCEPT !.tab = @ \cup {"high"}, !.leaf = @ \cup {va}]
             A == m.alloc \cup {table_page(m.p, m.pt.gen, "high")}
  <2>1. n = [m EXCEPT !.ok = TRUE, !.alloc = A, !.left = @ - 1, !.pt = qt]
    BY <1>1, <1>4 DEF mappages, map_walked, kalloc, Mem, High, Leaf
  <2>2. qt \in Table /\ qt.gen = g /\ qt.tab = With(Tab(m), "high")
        /\ qt.leaf = With(Leaf(m), va) /\ "high" \in qt.tab
    BY <1>1 DEF Table, Region, Leaf, With, Tab
  <2>3. A = Plus(R, With(Parts(Self(m), g, Tab(m), Leaf(m)), table_page(Self(m), g, "high")))
    BY <1>1 DEF With, Plus, Alloc, Self
  <2> HIDE DEF n, qt, A
  <2>4. A = Plus(R, Parts(Self(m), g, qt.tab, qt.leaf))
    BY <2>2, <2>3, PartsTop, PartsTable
  <2>5. Holds(n, R, g) /\ Same(m, n) /\ Ok(n) /\ Leaf(n) = qt.leaf /\ High(n)
        /\ Room(n) = Room(m) - 1
    BY <2>1, <2>2, <2>4, <1>1 DEF Holds, Mem, Same, Self, Size, Alloc, Tab, Ok, Leaf, High, Room
  <2>6. Room(m) \in Nat /\ Room(m) # 0
    BY <1>4 DEF Room
  <2> QED BY <2>2, <2>5, <2>6, <1>4 DEF n
<1> QED BY <1>2, <1>3, <1>4

\* uvmunmap() of mapped pages: the two at the top stay allocated, user pages are freed.
LEMMA Unmap ==
  ASSUME NEW m, NEW R, NEW g, Holds(m, R, g), NEW S, Sub(S, Leaf(m)), Sub(S, Top)
  PROVE  /\ Holds(uvmunmap(m, S, FALSE), R, g) /\ Same(m, uvmunmap(m, S, FALSE))
         /\ Leaf(uvmunmap(m, S, FALSE)) = Minus(Leaf(m), S)
<1> DEFINE n == uvmunmap(m, S, FALSE)
           qt == [m.pt EXCEPT !.leaf = @ \ S]
<1>1. m.pt \in Table /\ m.pt.gen = g /\ Mem(m) /\ Apart(R, Self(m), g) /\ m.panic = ""
      /\ Alloc(m) = Plus(R, Parts(Self(m), g, Tab(m), Leaf(m)))
  BY DEF Holds, Mem
<1>2. n = [m EXCEPT !.pt = qt]
  BY <1>1 DEF uvmunmap, Mem, Sub, Leaf
<1>3. qt \in Table /\ qt.gen = g /\ qt.tab = Tab(m) /\ qt.leaf = Minus(Leaf(m), S)
  BY <1>1 DEF Table, Leaf, Minus, Tab
<1> HIDE DEF n, qt
<1>4. Plus(R, Parts(Self(m), g, qt.tab, qt.leaf)) = Plus(R, Parts(Self(m), g, Tab(m), Leaf(m)))
  BY <1>3, PartsNotTop
<1>5. Holds(n, R, g) /\ Same(m, n) /\ Leaf(n) = qt.leaf
  BY <1>1, <1>2, <1>3, <1>4 DEF Holds, Mem, Same, Self, Size, Alloc, Tab, Leaf
<1> QED BY <1>3, <1>5 DEF n

\* uvmunmap() with do_free gives back exactly the pages it unmaps.
LEMMA UnmapFree ==
  ASSUME NEW m, NEW R, NEW g, Holds(m, R, g), NEW S, Sub(S, Leaf(m)), LowSet(S)
  PROVE  /\ Holds(uvmunmap(m, S, TRUE), R, g) /\ Same(m, uvmunmap(m, S, TRUE))
         /\ Leaf(uvmunmap(m, S, TRUE)) = Minus(Leaf(m), S)
<1> DEFINE n == uvmunmap(m, S, TRUE)
           qt == [m.pt EXCEPT !.leaf = @ \ S]
           F == {user_page(m.p, m.pt.gen, va) : va \in S}
           A == m.alloc \ F
<1>0. Apart(R, Self(m), g) /\ Alloc(m) = Plus(R, Parts(Self(m), g, Tab(m), Leaf(m)))
  BY DEF Holds
<1>1. m.pt \in Table /\ m.pt.gen = g /\ Mem(m) /\ m.panic = ""
  BY DEF Holds, Mem
<1>2. F = UserSet(Self(m), g, S)
  BY <1>1 DEF UserSet, Self
<1>3. Sub(UserSet(Self(m), g, S), Alloc(m))
  BY <1>0, PartsLess
<1>4. F \subseteq m.alloc /\ A = Minus(Alloc(m), UserSet(Self(m), g, S))
  BY <1>2, <1>3 DEF Sub, Minus, Alloc
<1>5. n = [m EXCEPT !.alloc = A, !.pt = qt]
  <2>1. n = kfree([m EXCEPT !.pt.leaf = @ \ S], F)
    BY DEF uvmunmap, Sub, Leaf
  <2> HIDE DEF F
  <2> QED BY <2>1, <1>1, <1>4 DEF kfree, Mem
<1>6. qt \in Table /\ qt.gen = g /\ qt.tab = Tab(m) /\ qt.leaf = Minus(Leaf(m), S)
  BY <1>1 DEF Table, Leaf, Minus, Tab
<1> HIDE DEF n, qt, A, F
<1>7. A = Plus(R, Parts(Self(m), g, qt.tab, qt.leaf))
  BY <1>0, <1>4, <1>6, PartsLess
<1>8. Holds(n, R, g) /\ Same(m, n) /\ Leaf(n) = qt.leaf
  BY <1>0, <1>1, <1>5, <1>6, <1>7 DEF Holds, Mem, Same, Self, Size, Alloc, Tab, Leaf
<1> QED BY <1>6, <1>8 DEF n

\* What is left when a table has been freed.
\* Nothing of the table of m is left in n.
Freed(m, n, R) == Mem(n) /\ n.panic = "" /\ Same(m, n) /\ n.pt = Null /\ n.alloc = R

\* freewalk() of a table without leaves gives back all of it.
LEMMA Freewalk ==
  ASSUME NEW m, NEW R, NEW g, Holds(m, R, g), Leaf(m) = {}
  PROVE  Freed(m, freewalk(m), R)
<1> DEFINE n == freewalk(m)
           F == {table_page(m.p, m.pt.gen, r) : r \in m.pt.tab \cup {"root"}}
<1>0. Apart(R, Self(m), g) /\ Alloc(m) = Plus(R, Parts(Self(m), g, Tab(m), Leaf(m)))
  BY DEF Holds
<1>1. m.pt \in Table /\ m.pt.gen = g /\ Mem(m) /\ m.panic = ""
  BY DEF Holds, Mem, Leaf
<1>2. F = TableSet(Self(m), g, With(Tab(m), "root"))
  BY <1>1 DEF TableSet, With, Self, Tab
<1>3. Minus(Alloc(m), F) = R /\ Sub(F, Alloc(m))
  <2> HIDE DEF F
  <2> QED BY <1>0, <1>2, PartsNone
<1>4. n = [m EXCEPT !.alloc = R, !.pt = Null]
  <2>1. n = [kfree(m, F) EXCEPT !.pt = Null]
    BY DEF freewalk, Leaf
  <2> HIDE DEF F
  <2>2. F \subseteq m.alloc /\ m.alloc \ F = R
    BY <1>3 DEF Minus, Sub, Alloc
  <2> QED BY <2>1, <2>2, <1>1 DEF kfree, Mem
<1>5. Null \in Table
  BY DEF Null, Table
<1> HIDE DEF n, F
<1> QED BY <1>1, <1>4, <1>5 DEF Mem, Same, Self, Size, n, Freed

\* Two functions that leave the rest alone.
LEMMA SameTrans ==
  ASSUME NEW m, NEW n, NEW k, Same(m, n), Same(n, k)
  PROVE  Same(m, k)
BY DEF Same

\* A function that leaves the rest alone, and one that frees the table.
LEMMA FreedTrans ==
  ASSUME NEW m, NEW n, NEW k, NEW R, Same(m, n), Freed(n, k, R)
  PROVE  Freed(m, k, R)
BY SameTrans DEF Freed

\* The largest size is a number,
LEMMA MaxType == MAXSZ \in Nat
BY VmConstants DEF MAXSZ

\* and so is the size of a memory.
LEMMA SizeType ==
  ASSUME NEW m, NEW R, NEW g, Holds(m, R, g)
  PROVE  Size(m) \in Nat /\ Size(m) \in 0..MAXSZ
<1>1. m.sz \in 0..MAXSZ
  BY DEF Holds, Mem
<1> QED BY <1>1, MaxType DEF Size

\* uvmfree() and proc_freepagetable() of a table that maps the pages below its
\* size give back exactly the pages of the table.
LEMMA UvmFree ==
  ASSUME NEW m, NEW R, NEW g, Holds(m, R, g), Leaf(m) = Pages(0, Size(m))
  PROVE  Freed(m, uvmfree(m), R)
<1> DEFINE S == Pages(0, PGROUNDUP(Size(m)))
           n == uvmunmap(m, S, TRUE)
<1>1. S = Leaf(m)
  BY SizeType, PagesBetween
<1>2. uvmfree(m) = freewalk(n)
  BY DEF uvmfree, Size
<1>3. LowSet(S) /\ Sub(S, Leaf(m))
  BY <1>1, PagesLow DEF LowSet, Sub
<1>4. Minus(Leaf(m), S) = {}
  BY <1>1 DEF Minus
<1> HIDE DEF S
<1>5. Holds(n, R, g) /\ Same(m, n) /\ Leaf(n) = {}
  BY <1>3, <1>4, UnmapFree
<1> HIDE DEF n
<1>6. Freed(n, freewalk(n), R)
  BY <1>5, Freewalk
<1> QED BY <1>2, <1>5, <1>6, FreedTrans

\* The pages below size s are mapped.
Full(m, s) == Leaf(m) = Pages(0, s) \cup Top

\* proc_freepagetable() of a table with the pages below its size frees all of it.
LEMMA FreePagetable ==
  ASSUME NEW m, NEW R, NEW g, Holds(m, R, g), Full(m, Size(m))
  PROVE  Freed(m, proc_freepagetable(m), R)
<1> DEFINE S == {TRAMPOLINE}
           T == {TRAPFRAME}
           n == uvmunmap(m, S, FALSE)
           k == uvmunmap(n, T, FALSE)
<1>1. proc_freepagetable(m) = uvmfree(k)
  BY DEF proc_freepagetable
<1>2. Sub(S, Top) /\ Sub(T, Top) /\ Sub(S, Leaf(m))
  BY DEF Sub, Top, Full
<1>3. Sub(T, Minus(Leaf(m), S))
  BY VmConstants DEF Sub, Top, Full, Minus, TRAPFRAME, TRAMPOLINE
<1>4. Minus(Minus(Leaf(m), S), T) = Pages(0, Size(m))
  BY PagesLow DEF Top, Full, Minus
<1> HIDE DEF S, T
<1>5. Holds(n, R, g) /\ Same(m, n) /\ Leaf(n) = Minus(Leaf(m), S)
  BY <1>2, Unmap
<1> HIDE DEF n
<1>6. Holds(k, R, g) /\ Same(n, k) /\ Leaf(k) = Minus(Minus(Leaf(m), S), T)
  BY <1>2, <1>3, <1>5, Unmap
<1> HIDE DEF k
<1>7. Leaf(k) = Pages(0, Size(k))
  BY <1>4, <1>5, <1>6 DEF Same
<1>8. Freed(k, uvmfree(k), R)
  BY <1>6, <1>7, UvmFree
<1>9. Same(m, k)
  BY <1>5, <1>6, SameTrans
<1> QED BY <1>1, <1>8, <1>9, FreedTrans

\* map_each() of user pages that are not mapped.
LEMMA MapEach ==
  ASSUME NEW m, NEW R, NEW g, NEW S, Holds(m, R, g), LowSet(S), Sub(S, VA), S \cap Leaf(m) = {}
  PROVE  /\ Holds(map_each(m, S), R, g) /\ Same(m, map_each(m, S)) /\ Ok(map_each(m, S))
         /\ Leaf(map_each(m, S)) = Plus(Leaf(m), S)
<1> DEFINE n == map_each(m, S)
<1>0. Apart(R, Self(m), g) /\ Alloc(m) = Plus(R, Parts(Self(m), g, Tab(m), Leaf(m)))
  BY DEF Holds
<1>1. m.pt \in Table /\ m.pt.gen = g /\ Mem(m) /\ m.panic = ""
  BY DEF Holds, Mem
<1>2. CASE S = {}
  <2>1. n = [m EXCEPT !.ok = TRUE]
    BY <1>2 DEF map_each
  <2>2. Plus(Leaf(m), S) = Leaf(m)
    BY <1>2 DEF Plus
  <2> HIDE DEF n
  <2>3. Holds(n, R, g) /\ Same(m, n) /\ Ok(n) /\ Leaf(n) = Leaf(m)
    BY <1>0, <1>1, <2>1 DEF Holds, Mem, Same, Self, Size, Alloc, Tab, Leaf, Ok
  <2> QED BY <2>2, <2>3 DEF n
<1>3. CASE S # {}
  <2> DEFINE qt == [m.pt EXCEPT !.tab = @ \cup {"user"}, !.leaf = @ \cup S]
             U == {user_page(m.p, m.pt.gen, va) : va \in S}
             A == m.alloc \cup U \cup {table_page(m.p, m.pt.gen, "user")}
             l == m.left - Cardinality(S) - inner(m)
  <2>1. n = [m EXCEPT !.alloc = A, !.left = l, !.pt = qt, !.ok = TRUE]
    <3>1. n = [m EXCEPT !.alloc = @ \cup U \cup {table_page(m.p, m.pt.gen, "user")},
                 !.left = @ - Cardinality(S) - inner(m),
                 !.pt.tab = @ \cup {"user"}, !.pt.leaf = @ \cup S, !.ok = TRUE]
      BY <1>3 DEF map_each, Leaf
    <3> QED BY <3>1, <1>1 DEF Mem
  <2>2. qt \in Table /\ qt.gen = g /\ qt.tab = With(Tab(m), "user") /\ qt.leaf = Plus(Leaf(m), S)
    BY <1>1 DEF Table, Region, Leaf, Tab, With, Plus, Sub
  <2>3. U = UserSet(Self(m), g, S)
    BY <1>1 DEF UserSet, Self
  <2>4. A = With(Plus(Alloc(m), U), table_page(Self(m), g, "user"))
    BY <1>1 DEF With, Plus, Self, Alloc
  <2> HIDE DEF n, qt, U, A, l
  <2>5. Parts(Self(m), g, qt.tab, qt.leaf)
          = With(Plus(Parts(Self(m), g, Tab(m), Leaf(m)), U), table_page(Self(m), g, "user"))
    BY <2>2, <2>3, PartsMore, PartsTable
  <2>6. A = Plus(R, Parts(Self(m), g, qt.tab, qt.leaf))
    <3> DEFINE P == Parts(Self(m), g, Tab(m), Leaf(m))
               x == table_page(Self(m), g, "user")
               Q == Parts(Self(m), g, qt.tab, qt.leaf)
    <3>1. A = With(Plus(Plus(R, P), U), x) /\ Q = With(Plus(P, U), x)
      BY <1>0, <2>4, <2>5
    <3> HIDE DEF P, x, Q
    <3>2. A = Plus(R, Q)
      BY <3>1 DEF With, Plus
    <3> QED BY <3>2 DEF Q
  <2>7. Holds(n, R, g) /\ Same(m, n) /\ Ok(n) /\ Leaf(n) = qt.leaf
    BY <1>0, <1>1, <2>1, <2>2, <2>6 DEF Holds, Mem, Same, Self, Size, Alloc, Tab, Leaf, Ok
  <2> QED BY <2>2, <2>7 DEF n
<1> QED BY <1>2, <1>3

\* A failure changes nothing but the result.
LEMMA Fail ==
  ASSUME NEW m, NEW R, NEW g, Holds(m, R, g)
  PROVE  Holds(fail(m), R, g) /\ Same(m, fail(m)) /\ ~Ok(fail(m)) /\ Leaf(fail(m)) = Leaf(m)
<1>1. fail(m) = [m EXCEPT !.ok = FALSE] /\ Mem(m)
  BY DEF fail, Holds
<1> QED BY <1>1 DEF Holds, Mem, Same, Self, Size, Alloc, Tab, Leaf, Ok

\* uvmdealloc() shrinks a table to the pages below the new size.
LEMMA Dealloc ==
  ASSUME NEW m, NEW R, NEW g, NEW old \in Nat, NEW new \in Nat, Holds(m, R, g), Full(m, old)
  PROVE  /\ Holds(uvmdealloc(m, old, new), R, g) /\ Same(m, uvmdealloc(m, old, new))
         /\ new >= old => uvmdealloc(m, old, new) = m
         /\ new < old => Full(uvmdealloc(m, old, new), new)
<1>1. CASE new >= old
  <2>1. uvmdealloc(m, old, new) = m
    BY <1>1 DEF uvmdealloc
  <2>2. Same(m, m)
    BY DEF Same
  <2> QED BY <1>1, <2>1, <2>2
<1>2. CASE new < old
  <2> DEFINE S == Pages(PGROUNDUP(new), PGROUNDUP(old))
             n == uvmunmap(m, S, TRUE)
  <2>1. uvmdealloc(m, old, new) = n
    <3>1. ~(new >= old)
      BY <1>2
    <3> QED BY <3>1 DEF uvmdealloc
  <2>2. S = Pages(0, old) \ Pages(0, new) /\ Pages(0, new) \subseteq Pages(0, old)
    BY <1>2, PagesBetween
  <2>3. LowSet(S) /\ Pages(0, new) \cap Top = {}
    BY PagesLow DEF LowSet
  <2>4. Sub(S, Leaf(m)) /\ Minus(Leaf(m), S) = Pages(0, new) \cup Top
    BY <2>2, <2>3 DEF Full, Sub, Minus, LowSet
  <2> HIDE DEF S
  <2>5. Holds(n, R, g) /\ Same(m, n) /\ Leaf(n) = Minus(Leaf(m), S)
    BY <2>3, <2>4, UnmapFree
  <2> HIDE DEF n
  <2> QED BY <1>2, <2>1, <2>4, <2>5 DEF Full
<1> QED BY <1>1, <1>2

\* map_each() of the pages from one size to the next.
LEMMA MapBetween ==
  ASSUME NEW m, NEW R, NEW g, NEW old \in Nat, NEW new \in Nat, NEW S,
         Holds(m, R, g), Full(m, old), old <= new, S = Pages(0, new) \ Pages(0, old)
  PROVE  /\ Holds(map_each(m, S), R, g) /\ Same(m, map_each(m, S)) /\ Ok(map_each(m, S))
         /\ Full(map_each(m, S), new)
<1>1. Pages(0, old) \subseteq Pages(0, new)
  BY PagesBetween
<1>2. LowSet(S) /\ Sub(S, VA)
  BY PagesLow DEF LowSet, Sub
<1>3. S \cap Leaf(m) = {} /\ Plus(Leaf(m), S) = Pages(0, new) \cup Top
  BY <1>1, <1>2 DEF Full, Plus, LowSet
<1> QED BY <1>2, <1>3, MapEach DEF Full

\* The address where kalloc() fails is not below the start, and two pages get one page mapped.
LEMMA Supplied ==
  ASSUME NEW m, NEW lo \in Nat, Room(m) \in Nat
  PROVE  /\ supplied(m, lo) \in Nat /\ supplied(m, lo) >= lo
         /\ Room(m) >= 2 => supplied(m, lo) >= lo + PGSIZE
<1> DEFINE k == IF m.left > inner(m) THEN m.left - inner(m) ELSE 0
<1>1. k \in Nat /\ (Room(m) >= 2 => k >= 1)
  BY DEF Room, inner
<1>2. supplied(m, lo) = lo + k * PGSIZE /\ PGSIZE \in Nat
  BY VmConstants DEF supplied
<1> HIDE DEF k
<1>3. k * PGSIZE \in Nat
  BY <1>1, <1>2
<1>4. ASSUME k >= 1 PROVE k * PGSIZE >= PGSIZE
  <2>1. k * PGSIZE = (k - 1) * PGSIZE + PGSIZE /\ (k - 1) * PGSIZE \in Nat
    BY <1>1, <1>2, <1>4
  <2> QED BY <1>2, <2>1
<1> QED BY <1>1, <1>2, <1>3, <1>4

\* uvmalloc() maps the pages below the new size, or leaves those below the old.
LEMMA Uvmalloc ==
  ASSUME NEW m, NEW R, NEW g, NEW old \in Nat, NEW new \in Nat,
         Holds(m, R, g), Full(m, old), Room(m) \in Nat
  PROVE  /\ Holds(uvmalloc(m, old, new), R, g) /\ Same(m, uvmalloc(m, old, new))
         /\ Ok(uvmalloc(m, old, new)) =>
              Full(uvmalloc(m, old, new), IF new < old THEN old ELSE new)
         /\ ~Ok(uvmalloc(m, old, new)) => Full(uvmalloc(m, old, new), old)
         /\ Room(m) >= 2 /\ new <= old + PGSIZE => Ok(uvmalloc(m, old, new))
<1> DEFINE lo == PGROUNDUP(old)
           a == supplied(m, lo)
           n == uvmalloc(m, old, new)
<1>1. lo \in Nat /\ lo >= old /\ a \in Nat /\ a >= lo /\ PGSIZE \in Nat
      /\ (Room(m) >= 2 => a >= lo + PGSIZE)
  BY RoundedPage, Supplied, VmConstants
<1>2. CASE new < old
  <2>1. n = [m EXCEPT !.ok = TRUE]
    BY <1>2 DEF uvmalloc
  <2> HIDE DEF n
  <2>2. Holds(n, R, g) /\ Same(m, n) /\ Ok(n) /\ Leaf(n) = Leaf(m)
    BY <2>1 DEF Holds, Mem, Same, Self, Size, Alloc, Tab, Leaf, Ok
  <2>3. Full(n, old)
    BY <2>2 DEF Full
  <2> QED BY <1>2, <2>2, <2>3 DEF n
<1>3. CASE new >= old /\ new <= a
  <2> DEFINE S == Pages(lo, new)
  <2>1. n = map_each(m, S)
    BY <1>3 DEF uvmalloc
  <2>2. S = Pages(0, new) \ Pages(0, old)
    BY PagesBetween
  <2> HIDE DEF S
  <2>3. Holds(n, R, g) /\ Same(m, n) /\ Ok(n) /\ Full(n, new)
    BY <1>3, <2>1, <2>2, MapBetween
  <2> QED BY <1>3, <2>3
<1>4. CASE new >= old /\ new > a
  <2> DEFINE S == Pages(lo, a)
             k == map_each(m, S)
             d == uvmdealloc(k, a, lo)
  <2>1. n = fail(d)
    BY <1>1, <1>4 DEF uvmalloc
  <2>2. S = Pages(0, a) \ Pages(0, old)
    BY <1>1, PagesBetween
  <2>3. Pages(0, lo) = Pages(0, old)
    BY PagesBetween
  <2> HIDE DEF S
  <2>4. Holds(k, R, g) /\ Same(m, k) /\ Full(k, a)
    BY <1>1, <2>2, MapBetween
  <2> HIDE DEF k
  <2>5. Holds(d, R, g) /\ Same(k, d) /\ (lo >= a => d = k) /\ (lo < a => Full(d, lo))
    BY <1>1, <2>4, Dealloc
  <2>6. Full(d, lo)
    BY <1>1, <2>4, <2>5
  <2> HIDE DEF d
  <2>7. Holds(n, R, g) /\ Same(d, n) /\ ~Ok(n) /\ Leaf(n) = Leaf(d)
    BY <2>1, <2>5, Fail
  <2>8. Same(m, n)
    BY <2>4, <2>5, <2>7, SameTrans
  <2>9. Full(n, old)
    BY <2>3, <2>6, <2>7 DEF Full
  <2>10. ~(Room(m) >= 2 /\ new <= old + PGSIZE)
    BY <1>1, <1>4
  <2> QED BY <2>7, <2>8, <2>9, <2>10
<1> QED BY <1>1, <1>2, <1>3, <1>4

\* An empty process has no page.
LEMMA NoPages == Pages(0, 0) = {}
<1>1. PGSIZE \in Nat
  BY VmConstants
<1>2. \A a \in 0..(MAXPG - 1) : ~(0 <= a * PGSIZE /\ a * PGSIZE < 0)
  BY <1>1
<1> QED BY <1>2 DEF Pages

\* uvmcopy() into a table without user pages.
LEMMA Uvmcopy ==
  ASSUME NEW m, NEW R, NEW g, NEW sz \in Nat, Holds(m, R, g), Full(m, 0), Room(m) \in Nat
  PROVE  /\ Holds(uvmcopy(m, sz), R, g) /\ Same(m, uvmcopy(m, sz))
         /\ Ok(uvmcopy(m, sz)) => Full(uvmcopy(m, sz), sz)
         /\ ~Ok(uvmcopy(m, sz)) => Full(uvmcopy(m, sz), 0)
<1> DEFINE i == supplied(m, 0)
           n == uvmcopy(m, sz)
<1>1. i \in Nat
  BY Supplied
<1>2. \A x \in Nat : Pages(0, x) = Pages(0, x) \ Pages(0, 0)
  BY PagesBetween
<1>3. CASE sz <= i
  <2> DEFINE S == Pages(0, sz)
  <2>1. n = map_each(m, S)
    BY <1>3 DEF uvmcopy
  <2>2. S = Pages(0, sz) \ Pages(0, 0)
    BY <1>2
  <2> HIDE DEF S
  <2> QED BY <2>1, <2>2, MapBetween
<1>4. CASE ~(sz <= i)
  <2> DEFINE S == Pages(0, i)
             k == map_each(m, S)
             d == uvmunmap(k, S, TRUE)
  <2>1. n = fail(d)
    BY <1>4 DEF uvmcopy
  <2>2. S = Pages(0, i) \ Pages(0, 0)
    BY <1>1, <1>2
  <2>3. LowSet(S) /\ S = Pages(0, i)
    BY PagesLow DEF LowSet
  <2>4. Pages(0, 0) = {}
    BY NoPages
  <2> HIDE DEF S
  <2>5. Holds(k, R, g) /\ Same(m, k) /\ Full(k, i)
    BY <1>1, <2>2, MapBetween
  <2> HIDE DEF k
  <2>6. Sub(S, Leaf(k)) /\ Minus(Leaf(k), S) = Pages(0, 0) \cup Top
    BY <2>3, <2>4, <2>5 DEF Full, Sub, Minus, LowSet
  <2>7. Holds(d, R, g) /\ Same(k, d) /\ Leaf(d) = Minus(Leaf(k), S)
    BY <2>3, <2>5, <2>6, UnmapFree
  <2> HIDE DEF d
  <2>8. Holds(n, R, g) /\ Same(d, n) /\ ~Ok(n) /\ Leaf(n) = Leaf(d)
    BY <2>1, <2>7, Fail
  <2>9. Same(m, n)
    BY <2>5, <2>7, <2>8, SameTrans
  <2> QED BY <2>6, <2>7, <2>8, <2>9 DEF Full
<1> QED BY <1>3, <1>4

\* proc_pagetable() makes a table with the two pages at the top, or nothing.
Made(n, R, g) ==
  /\ Ok(n) => Holds(n, R, g) /\ Full(n, 0)
  /\ ~Ok(n) => Freed(n, n, R)

Blank(m, R, g) ==
  /\ Mem(m) /\ m.panic = "" /\ m.alloc = R /\ m.sz = 0
  /\ g \in {"A", "B"} /\ Apart(R, Self(m), g)

\* proc_pagetable() makes a table with the two pages at the top, or leaves nothing behind.
LEMMA ProcPagetable ==
  ASSUME NEW m, NEW R, NEW g, Blank(m, R, g), Room(m) \in Nat
  PROVE  /\ Made(proc_pagetable(m, g), R, g) /\ Same(m, proc_pagetable(m, g))
         /\ Room(m) >= 2 => Ok(proc_pagetable(m, g)) /\ Room(proc_pagetable(m, g)) >= Room(m) - 2
         /\ Room(proc_pagetable(m, g)) \in Nat \/ ~Ok(proc_pagetable(m, g))
<1> DEFINE m0 == [m EXCEPT !.pt = Null]
           m1 == uvmcreate(m0, g)
           n == proc_pagetable(m, g)
<1>1. n = pt_root(m1, g)
  BY DEF proc_pagetable
<1>2. Null \in Table /\ Null.gen = "" /\ Null.tab = {} /\ Null.leaf = {}
  BY DEF Null, Table
<1>3. /\ m0.pt = Null /\ m0.alloc = R /\ m0.left = m.left /\ m0.panic = "" /\ m0.p = m.p
      /\ Mem(m0) /\ Same(m, m0)
  <2>0. Mem(m)
    BY DEF Blank
  <2>1. m0.pt = Null /\ m0.alloc = R /\ m0.left = m.left /\ m0.panic = "" /\ m0.p = m.p
    BY DEF Mem, Blank
  <2>2. Mem(m0)
    <3>1. m0 = [m EXCEPT !.pt = Null] /\ Null \in Table
      BY <1>2
    <3> HIDE DEF m0
    <3> QED BY <2>0, <3>1 DEF Mem
  <2>3. Same(m, m0)
    BY <2>0 DEF Mem, Same, Self, Size
  <2> QED BY <2>1, <2>2, <2>3
<1> HIDE DEF n, m0
<1>4. CASE m.left = 0
  <2>1. m1 = [m0 EXCEPT !.ok = FALSE]
    BY <1>3, <1>4 DEF uvmcreate, kalloc
  <2>2. n = m1
    BY <1>1, <1>3, <2>1 DEF pt_root, Mem
  <2> HIDE DEF m1
  <2>3. Mem(n) /\ n.panic = "" /\ n.pt = Null /\ n.alloc = R /\ ~Ok(n) /\ Same(m0, n)
    BY <1>2, <1>3, <2>1, <2>2 DEF Mem, Ok, Same, Self, Size
  <2>4. Same(m, n) /\ Same(n, n)
    BY <1>3, <2>3, SameTrans DEF Same
  <2>5. Freed(n, n, R)
    BY <2>3, <2>4 DEF Freed
  <2>6. ~(Room(m) >= 2)
    BY <1>4 DEF Room
  <2> QED BY <2>3, <2>4, <2>5, <2>6 DEF Made, n
<1>5. CASE m.left # 0
  <2> DEFINE qt == [Null EXCEPT !.gen = g]
             A == R \cup {table_page(Self(m), g, "root")}
             m2 == [m0 EXCEPT !.alloc = A, !.left = @ - 1, !.ok = TRUE, !.pt = qt]
             m3 == mappages(m2, TRAMPOLINE)
  <2>1. n = pt_trampoline(m3)
    <3>1. m1 = [m0 EXCEPT !.alloc = A, !.left = @ - 1, !.ok = TRUE]
      BY <1>3, <1>5 DEF uvmcreate, kalloc, Self
    <3>2. m1.ok /\ [m1 EXCEPT !.pt = qt] = m2
      BY <1>3, <3>1 DEF Mem
    <3> HIDE DEF m1, m2
    <3> QED BY <1>1, <3>2 DEF pt_root
  <2>2. qt \in Table /\ qt.gen = g /\ qt.tab = {} /\ qt.leaf = {}
    BY DEF Null, Table, Blank
  <2>3. A = Plus(R, Parts(Self(m), g, qt.tab, qt.leaf))
    BY <2>2 DEF Plus, Parts, TableSet, UserSet
  <2> HIDE DEF qt, A
  <2>4. Holds(m2, R, g) /\ Same(m0, m2) /\ Room(m2) = Room(m) - 1 /\ Leaf(m2) = {}
    <3>1. m2.p = m.p /\ m2.alloc = A /\ m2.left = m.left - 1 /\ m2.panic = "" /\ m2.pt = qt
      BY <1>3 DEF Mem
    <3>2. Mem(m2)
      <4>1. m2 = [m0 EXCEPT !.alloc = A, !.left = @ - 1, !.ok = TRUE, !.pt = qt] /\ qt \in Table
        BY <2>2
      <4>2. Mem(m0)
        BY <1>3
      <4> HIDE DEF m2
      <4> QED BY <4>1, <4>2 DEF Mem
    <3>3. Same(m0, m2)
      BY <1>3 DEF Mem, Same, Self, Size
    <3> HIDE DEF m2
    <3>4. Apart(R, Self(m), g) /\ g \in {"A", "B"}
      BY DEF Blank
    <3> QED BY <2>2, <2>3, <3>1, <3>2, <3>3, <3>4 DEF Holds, Self, Alloc, Tab, Leaf, Room
  <2> HIDE DEF m2
  <2>5. Room(m2) \in Nat /\ TRAMPOLINE \in Top /\ TRAPFRAME \in Top /\ TRAMPOLINE \notin Leaf(m2)
    <3>1. m.left \in Nat /\ m.left # 0
      BY <1>5 DEF Room
    <3>2. Room(m2) = m.left - 1
      BY <2>4 DEF Room
    <3> QED BY <2>4, <3>1, <3>2 DEF Top
  <2>6. /\ Holds(m3, R, g) /\ Same(m2, m3) /\ Room(m3) \in Nat
        /\ Ok(m3) => High(m3) /\ Leaf(m3) = With(Leaf(m2), TRAMPOLINE)
        /\ ~Ok(m3) => Leaf(m3) = Leaf(m2)
        /\ Room(m2) > 0 => Ok(m3) /\ Room(m3) >= Room(m2) - 1
    BY <2>4, <2>5, MapTop
  <2> HIDE DEF m3
  <2>7. CASE Ok(m3)
    <3> DEFINE m4 == mappages(m3, TRAPFRAME)
    <3>1. TRAPFRAME \notin Leaf(m3)
      <4>1. TRAPFRAME # TRAMPOLINE
        BY VmConstants DEF TRAPFRAME, TRAMPOLINE
      <4>2. Leaf(m3) = With({}, TRAMPOLINE)
        BY <2>4, <2>6, <2>7
      <4> QED BY <4>1, <4>2 DEF With
    <3>2. /\ Holds(m4, R, g) /\ Same(m3, m4) /\ Ok(m4) /\ Room(m4) = Room(m3)
          /\ Leaf(m4) = With(Leaf(m3), TRAPFRAME)
      BY <2>5, <2>6, <2>7, <3>1, MapTop
    <3>3. n = m4
      BY <2>1, <2>7, <3>2 DEF pt_trampoline, pt_trapframe, Ok
    <3>4. Full(n, 0)
      <4> HIDE DEF m4
      <4> QED BY NoPages, <2>4, <2>6, <2>7, <3>2, <3>3 DEF Full, With, Top
    <3> HIDE DEF m4
    <3>5. Same(m, n)
      BY <1>3, <2>4, <2>6, <3>2, <3>3, SameTrans
    <3>6. Room(n) \in Nat /\ (Room(m) >= 2 => Room(n) >= Room(m) - 2)
      <4>1. Room(n) = Room(m3) /\ Room(m3) \in Nat /\ Room(m2) = Room(m) - 1 /\ Room(m2) \in Nat
            /\ (Room(m2) > 0 => Room(m3) >= Room(m2) - 1)
        BY <2>4, <2>5, <2>6, <3>2, <3>3
      <4> QED BY <4>1
    <3> QED BY <3>2, <3>3, <3>4, <3>5, <3>6 DEF Made, n
  <2>8. CASE ~Ok(m3)
    <3> DEFINE m4 == [m3 EXCEPT !.sz = 0]
               m5 == uvmfree(m4)
    <3>1. n = fail(m5)
      BY <2>1, <2>8 DEF pt_trampoline, Ok
    <3>2. Same(m, m3) /\ Size(m3) = 0
      <4>1. Size(m) = 0
        BY DEF Blank, Size
      <4>2. Same(m, m3)
        BY <1>3, <2>4, <2>6, SameTrans
      <4> QED BY <4>1, <4>2 DEF Same
    <3>3. Holds(m4, R, g) /\ Same(m3, m4) /\ Leaf(m4) = Leaf(m3) /\ Size(m4) = 0
      BY <2>6, <3>2, MaxType DEF Holds, Mem, Same, Self, Size, Alloc, Tab, Leaf
    <3>4. Leaf(m4) = Pages(0, 0)
      <4> HIDE DEF m4
      <4> QED BY NoPages, <2>4, <2>6, <2>8, <3>3
    <3> HIDE DEF m4
    <3>5. Freed(m4, m5, R)
      BY <3>3, <3>4, UvmFree
    <3> HIDE DEF m5
    <3>6. Freed(m4, n, R) /\ ~Ok(n)
      BY <3>1, <3>5 DEF Freed, fail, Mem, Ok, Same, Self, Size
    <3>7. Same(m, n) /\ Same(n, n)
      <4>1. Same(m4, n)
        BY <3>6 DEF Freed
      <4>2. Same(m, m4)
        BY <3>2, <3>3, SameTrans
      <4> QED BY <4>1, <4>2, SameTrans DEF Same
    <3>8. Freed(n, n, R)
      BY <3>6, <3>7 DEF Freed
    <3>9. ~(Room(m) >= 2)
      <4>1. Room(m2) = Room(m) - 1 /\ Room(m2) \in Nat /\ ~(Room(m2) > 0)
        BY <2>4, <2>5, <2>6, <2>8
      <4> QED BY <4>1
    <3> QED BY <3>6, <3>7, <3>8, <3>9 DEF Made, n
  <2> QED BY <2>7, <2>8
<1> QED BY <1>4, <1>5

-----------------------------------------------------------------------------
(* The functions on a whole slot.  R are the allocated pages of others.     *)

\* The pages that allocproc() gives slot p besides the user table.
KernelSet(p) == {kernel_page(p, x) : x \in Kernel}
Base(R, p) == R \cup {trapframe_page(p)} \cup KernelSet(p)
Clear(R, p) == trapframe_page(p) \notin R /\ \A x : kernel_page(p, x) \notin R

\* The slot has these pages; it has none.
Owns(m) == m.trapframe = TRUE /\ m.kpgtbl = Kernel
Gone(m, R) ==
  /\ Mem(m) /\ m.panic = "" /\ m.alloc = R /\ m.pt = Null
  /\ m.trapframe = FALSE /\ m.kpgtbl = {} /\ m.sz = 0

\* The trapframe and the kernel table of a slot are not pages of its user table.
LEMMA BaseApart ==
  ASSUME NEW R, NEW p, NEW g, Apart(R, p, g)
  PROVE  Apart(Base(R, p), p, g) /\ Apart(R \cup KernelSet(p), p, g)
<1>1. \A x, y : table_page(p, g, x) # kernel_page(p, y) /\ user_page(p, g, x) # kernel_page(p, y)
  BY DEF table_page, user_page, kernel_page
<1>2. \A x : table_page(p, g, x) # trapframe_page(p) /\ user_page(p, g, x) # trapframe_page(p)
  BY DEF table_page, user_page, trapframe_page
<1> QED BY <1>1, <1>2 DEF Apart, Base, KernelSet

\* What is left when the trapframe, and then the kernel table, is freed.
LEMMA BaseMinus ==
  ASSUME NEW R, NEW p, Clear(R, p)
  PROVE  /\ trapframe_page(p) \in Base(R, p)
         /\ Base(R, p) \ {trapframe_page(p)} = R \cup KernelSet(p)
         /\ (R \cup KernelSet(p)) \ KernelSet(p) = R
<1>1. \A x : kernel_page(p, x) # trapframe_page(p)
  BY DEF kernel_page, trapframe_page
<1> QED BY <1>1 DEF Base, KernelSet, Clear

\* The trapframe's page is no page of a table.
LEMMA PartsTrapframe ==
  ASSUME NEW p, NEW g, NEW T, NEW L
  PROVE  trapframe_page(p) \notin Parts(p, g, T, L)
<1>1. \A x : table_page(p, g, x) # trapframe_page(p) /\ user_page(p, g, x) # trapframe_page(p)
  BY DEF table_page, user_page, trapframe_page
<1> QED BY <1>1 DEF Parts, TableSet, UserSet

\* freeproc() gives back the trapframe, the page table and the kernel page table.
LEMMA FreeProc ==
  ASSUME NEW m, NEW R, NEW g, Owns(m), Clear(R, Self(m)), Apart(R, Self(m), g),
         \/ Holds(m, Base(R, Self(m)), g) /\ Full(m, Size(m))
         \/ Freed(m, m, Base(R, Self(m)))
  PROVE  Gone(freeproc(m), R) /\ Self(freeproc(m)) = Self(m)
<1> DEFINE p == Self(m)
           B == R \cup KernelSet(p)
           f == free_trapframe(m)
           d == free_pagetable(f)
           w == Pfreewalk(d)
           n == freeproc(m)
<1>1. Mem(m) /\ m.panic = "" /\ m.trapframe = TRUE
  BY DEF Holds, Freed, Owns
<1>2. trapframe_page(p) \in m.alloc
  <2>1. trapframe_page(p) \in Base(R, p)
    BY BaseMinus
  <2> QED BY <2>1 DEF Holds, Freed, Plus, Alloc
<1>3. f = [m EXCEPT !.alloc = @ \ {trapframe_page(p)}]
  BY <1>1, <1>2 DEF free_trapframe, kfree, Self, Mem
<1>4. Mem(f) /\ f.panic = "" /\ Same(m, f) /\ f.pt = m.pt /\ f.alloc = m.alloc \ {trapframe_page(p)}
  <2> HIDE DEF f
  <2> QED BY <1>1, <1>3 DEF Mem, Same, Self, Size
<1> HIDE DEF f
<1>5. Freed(f, d, B)
  <2>1. CASE Holds(m, Base(R, p), g) /\ Full(m, Size(m))
    <3>1. Apart(B, p, g)
      BY BaseApart
    <3>2. f.alloc = Plus(B, Parts(p, g, Tab(m), Leaf(m)))
      <4>1. m.alloc = Base(R, p) \cup Parts(p, g, Tab(m), Leaf(m))
        BY <2>1 DEF Holds, Plus, Alloc
      <4>2. Base(R, p) \ {trapframe_page(p)} = B
        BY BaseMinus
      <4>3. trapframe_page(p) \notin Parts(p, g, Tab(m), Leaf(m))
        BY PartsTrapframe
      <4> DEFINE t == trapframe_page(p)
                 Q == Parts(p, g, Tab(m), Leaf(m))
                 C == Base(R, p)
      <4>4. f.alloc = (C \cup Q) \ {t} /\ C \ {t} = B /\ t \notin Q
        BY <1>4, <4>1, <4>2, <4>3
      <4> HIDE DEF t, Q, C, B
      <4> QED BY <4>4 DEF Plus, Q
    <3>3. f.pt.gen = g /\ g \in {"A", "B"}
      BY <1>4, <2>1 DEF Holds
    <3>4. Self(f) = p /\ Tab(f) = Tab(m) /\ Leaf(f) = Leaf(m) /\ Alloc(f) = f.alloc /\ Size(f) = Size(m)
      BY <1>4 DEF Self, Same, Tab, Leaf, Alloc
    <3> HIDE DEF B, p
    <3>5. Holds(f, B, g)
      BY <1>4, <3>1, <3>2, <3>3, <3>4 DEF Holds
    <3>6. Full(f, Size(f))
      BY <2>1, <3>4 DEF Full
    <3>7. d = proc_freepagetable(f)
      BY <3>3 DEF free_pagetable
    <3> QED BY <3>5, <3>6, <3>7, FreePagetable
  <2>2. CASE Freed(m, m, Base(R, p))
    <3>1. f.alloc = B
      <4>1. f.alloc = Base(R, p) \ {trapframe_page(p)}
        BY <1>4, <2>2 DEF Freed
      <4> QED BY <4>1, BaseMinus
    <3>2. f.pt = Null /\ Null.gen = ""
      BY <1>4, <2>2 DEF Freed, Null
    <3>3. d = f
      BY <3>2 DEF free_pagetable
    <3>4. Same(f, f)
      BY DEF Same
    <3> QED BY <1>4, <3>1, <3>2, <3>3, <3>4 DEF Freed
  <2> QED BY <2>1, <2>2
<1> HIDE DEF d
<1>6. Mem(d) /\ d.panic = "" /\ d.pt = Null /\ d.alloc = B /\ d.kpgtbl = Kernel /\ d.p = p
  BY <1>4, <1>5 DEF Freed, Same, Owns, Self
<1>7. w = [d EXCEPT !.alloc = R, !.kpgtbl = {}]
  <2> DEFINE F == {kernel_page(d.p, x) : x \in d.kpgtbl}
  <2>1. F = KernelSet(p)
    BY <1>6 DEF KernelSet
  <2>2. w = [kfree(d, F) EXCEPT !.kpgtbl = {}]
    BY DEF Pfreewalk
  <2> HIDE DEF F
  <2>3. F \subseteq d.alloc /\ d.alloc \ F = R
    <3>1. B \ KernelSet(p) = R
      BY BaseMinus
    <3> QED BY <1>6, <2>1, <3>1
  <2> QED BY <1>6, <2>2, <2>3 DEF kfree, Mem
<1> HIDE DEF w
<1>8. n = [w EXCEPT !.trapframe = FALSE, !.sz = 0]
  BY DEF freeproc, n, w, d, f
<1> HIDE DEF n
<1>9. Gone(n, R) /\ Self(n) = p
  <2>1. w.alloc = R /\ w.pt = Null /\ w.panic = "" /\ w.kpgtbl = {} /\ w.p = p
    BY <1>6, <1>7 DEF Mem
  <2>2. Mem(w)
    <3>1. Mem(d) /\ {} \in SUBSET Kernel
      BY <1>6
    <3> QED BY <1>7, <3>1 DEF Mem
  <2>3. n.alloc = R /\ n.pt = Null /\ n.panic = "" /\ n.kpgtbl = {} /\ n.p = p
        /\ n.trapframe = FALSE /\ n.sz = 0
    BY <1>8, <2>1, <2>2 DEF Mem
  <2>4. Mem(n)
    <3>1. 0 \in 0..MAXSZ
      BY MaxType
    <3> QED BY <1>8, <2>2, <3>1 DEF Mem
  <2> QED BY <2>3, <2>4 DEF Gone, Self
<1> QED BY <1>9 DEF n

\* What allocproc() leaves: a slot with a trapframe, a kernel page table and a
\* user page table without user pages, or nothing, or a panic.
Alloced(n, R) ==
  /\ Holds(n, Base(R, Self(n)), "A") /\ Full(n, 0) /\ Owns(n) /\ Size(n) = 0 /\ Room(n) \in Nat
Crashed(n, R) == Mem(n) /\ ~Ok(n) /\ n.panic \in {"kerneltrap", "Pvmmap"} /\ R \subseteq n.alloc

\* Pvminit() after the trapframe: k is the memory with the four pages.
KernelMade(m, k) ==
  /\ Mem(k) /\ Self(k) = Self(m) /\ Ok(k) /\ Room(k) = Room(m) - 4 /\ k.panic = "" /\ k.pt = Null
  /\ k.sz = 0 /\ k.trapframe = TRUE /\ k.kpgtbl = Kernel /\ k.alloc = Base(m.alloc, Self(m))

\* The first half of allocproc(): with four pages there are a trapframe and a kernel
\* page table, with fewer it returns 0 and has taken nothing, or panics.
LEMMA KernelMemory ==
  ASSUME NEW m, NEW R, Gone(m, R), Room(m) \in Nat
  PROVE  LET k == Pvminit(alloc_trapframe(kalloc(m, trapframe_page(m.p)))) IN
         \/ Room(m) >= 4 /\ KernelMade(m, k)
         \/ ~(Room(m) >= 4) /\ Self(k) = Self(m) /\ ~Ok(k) /\ (Gone(k, R) \/ Crashed(k, R))
<1> DEFINE tp == trapframe_page(m.p)
           kr == kernel_page(m.p, "root")
           kl == kernel_page(m.p, "low")
           kh == kernel_page(m.p, "high")
           t == alloc_trapframe(kalloc(m, tp))
           r == kernel_root(kalloc(t, kr))
           l == Pvmmap(r, "low")
           h == Pvmmap(l, "high")
           k == Pvminit(t)
<1>0. m.left \in Nat
  BY DEF Room
<1>1. Mem(m) /\ m.panic = "" /\ m.alloc = R /\ m.pt = Null /\ m.trapframe = FALSE /\ m.kpgtbl = {}
      /\ m.sz = 0 /\ m.left \in Nat
  BY DEF Gone, Room
<1>2. CASE m.left = 0
  <2>1. t = [m EXCEPT !.ok = FALSE, !.trapframe = FALSE]
    BY <1>1, <1>2 DEF kalloc, alloc_trapframe, Mem
  <2> HIDE DEF t
  <2>2. Mem(t) /\ t.panic = "" /\ t.alloc = R /\ t.pt = Null /\ t.trapframe = FALSE /\ t.kpgtbl = {}
        /\ t.sz = 0 /\ t.ok = FALSE /\ t.p = m.p
    BY <1>1, <2>1 DEF Mem
  <2>3. k = t
    BY <2>2 DEF Pvminit
  <2> HIDE DEF k
  <2>4. Gone(k, R) /\ ~Ok(k) /\ Self(k) = Self(m)
    BY <2>2, <2>3 DEF Gone, Ok, Self
  <2> QED BY <1>2, <2>4 DEF k, t, Room
<1>3. CASE m.left # 0
  <2>1. t = [m EXCEPT !.alloc = @ \cup {tp}, !.left = @ - 1, !.ok = TRUE, !.trapframe = TRUE]
    BY <1>1, <1>3 DEF kalloc, alloc_trapframe, Mem
  <2> HIDE DEF t, tp
  <2>2. Mem(t) /\ t.panic = "" /\ t.alloc = R \cup {tp} /\ t.pt = Null /\ t.trapframe = TRUE
        /\ t.kpgtbl = {} /\ t.sz = 0 /\ t.ok = TRUE /\ t.p = m.p /\ t.left = m.left - 1
    BY <1>1, <2>1 DEF Mem
  <2>3. k = h
    BY <2>2 DEF Pvminit
  <2> HIDE DEF k
  <2>4. CASE t.left = 0
    <3>1. r = [t EXCEPT !.ok = FALSE, !.panic = "kerneltrap"]
      BY <2>2, <2>4 DEF kalloc, kernel_root, panic, Mem
    <3> HIDE DEF r
    <3>2. Mem(r) /\ r.panic = "kerneltrap" /\ r.ok = FALSE /\ r.alloc = R \cup {tp} /\ r.p = m.p
      BY <2>2, <3>1 DEF Mem
    <3>3. h = r
      BY <3>2 DEF Pvmmap
    <3>4. Crashed(k, R) /\ ~Ok(k) /\ Self(k) = Self(m)
      BY <2>3, <3>2, <3>3 DEF Crashed, Ok, Self
    <3>5. ~(Room(m) >= 4)
      <4>1. m.left \in Nat /\ m.left - 1 = 0
        BY <1>1, <2>2, <2>4
      <4> QED BY <4>1 DEF Room
    <3> QED BY <3>4, <3>5 DEF k, t, tp
  <2>5. CASE t.left # 0
    <3>1. r = [t EXCEPT !.alloc = @ \cup {kr}, !.left = @ - 1, !.ok = TRUE, !.kpgtbl = {"root"}]
      BY <2>2, <2>5 DEF kalloc, kernel_root, Mem
    <3> HIDE DEF r, kr
    <3>2. Mem(r) /\ r.panic = "" /\ r.alloc = R \cup {tp} \cup {kr} /\ r.pt = Null /\ r.trapframe = TRUE
          /\ r.kpgtbl = {"root"} /\ r.sz = 0 /\ r.ok = TRUE /\ r.p = m.p /\ r.left = m.left - 2
      <4>1. Mem(t) /\ {"root"} \in SUBSET Kernel
        BY <2>2 DEF Kernel
      <4>2. Mem(r)
        BY <3>1, <4>1 DEF Mem
      <4>3. r.panic = t.panic /\ r.alloc = t.alloc \cup {kr} /\ r.pt = t.pt
            /\ r.trapframe = t.trapframe /\ r.kpgtbl = {"root"} /\ r.sz = t.sz /\ r.ok = TRUE
            /\ r.p = t.p /\ r.left = t.left - 1
        BY <3>1, <4>1 DEF Mem
      <4>4. m.left - 1 - 1 = m.left - 2
        BY <1>0
      <4> QED BY <2>2, <4>2, <4>3, <4>4
    <3>3. CASE r.left = 0
      <4>1. l = [r EXCEPT !.ok = FALSE, !.panic = "Pvmmap"]
        BY <3>2, <3>3 DEF kalloc, Pvmmap, kernel_map, panic, Mem
      <4> HIDE DEF l
      <4>2. Mem(l) /\ l.panic = "Pvmmap" /\ l.ok = FALSE /\ l.alloc = R \cup {tp} \cup {kr} /\ l.p = m.p
        BY <3>2, <4>1 DEF Mem
      <4>3. h = l
        BY <4>2 DEF Pvmmap
      <4>4. Crashed(k, R) /\ ~Ok(k) /\ Self(k) = Self(m)
        BY <2>3, <4>2, <4>3 DEF Crashed, Ok, Self
      <4>5. ~(Room(m) >= 4)
        <5>1. m.left \in Nat /\ m.left - 2 = 0
          BY <1>1, <3>2, <3>3
        <5> QED BY <5>1 DEF Room
      <4> QED BY <4>4, <4>5 DEF k, t, tp
    <3>4. CASE r.left # 0
      <4>1. l = [r EXCEPT !.alloc = @ \cup {kl}, !.left = @ - 1, !.ok = TRUE,
                          !.kpgtbl = @ \cup {"low"}]
        BY <3>2, <3>4 DEF kalloc, Pvmmap, kernel_map, Mem
      <4> HIDE DEF l, kl
      <4>2. Mem(l) /\ l.panic = "" /\ l.alloc = R \cup {tp} \cup {kr} \cup {kl} /\ l.pt = Null
            /\ l.trapframe = TRUE /\ l.kpgtbl = {"root", "low"} /\ l.sz = 0 /\ l.ok = TRUE
            /\ l.p = m.p /\ l.left = m.left - 3
        <5>1. Mem(r) /\ r.kpgtbl \cup {"low"} \in SUBSET Kernel
          BY <3>2 DEF Kernel
        <5>2. Mem(l)
          BY <4>1, <5>1 DEF Mem
        <5>3. l.panic = r.panic /\ l.alloc = r.alloc \cup {kl} /\ l.pt = r.pt
              /\ l.trapframe = r.trapframe /\ l.kpgtbl = r.kpgtbl \cup {"low"} /\ l.sz = r.sz
              /\ l.ok = TRUE /\ l.p = r.p /\ l.left = r.left - 1
          BY <4>1, <5>1 DEF Mem
        <5>4. m.left - 2 - 1 = m.left - 3
          BY <1>0
        <5>5. r.kpgtbl \cup {"low"} = {"root", "low"}
          BY <3>2
        <5> QED BY <3>2, <5>2, <5>3, <5>4, <5>5
      <4>3. CASE l.left = 0
        <5>1. h = [l EXCEPT !.ok = FALSE, !.panic = "Pvmmap"]
          BY <4>2, <4>3 DEF kalloc, Pvmmap, kernel_map, panic, Mem
        <5> HIDE DEF h
        <5>2. Mem(h) /\ h.panic = "Pvmmap" /\ h.ok = FALSE /\ h.p = m.p
              /\ h.alloc = R \cup {tp} \cup {kr} \cup {kl}
          BY <4>2, <5>1 DEF Mem
        <5>3. Crashed(k, R) /\ ~Ok(k) /\ Self(k) = Self(m)
          BY <2>3, <5>2 DEF Crashed, Ok, Self
        <5>4. ~(Room(m) >= 4)
          <6>1. m.left \in Nat /\ m.left - 3 = 0
            BY <1>1, <4>2, <4>3
          <6> QED BY <6>1 DEF Room
        <5> QED BY <5>3, <5>4 DEF k, t, tp
      <4>4. CASE l.left # 0
        <5>1. h = [l EXCEPT !.alloc = @ \cup {kh}, !.left = @ - 1, !.ok = TRUE,
                            !.kpgtbl = @ \cup {"high"}]
          BY <4>2, <4>4 DEF kalloc, Pvmmap, kernel_map, Mem
        <5> HIDE DEF h, kh
        <5>2. Mem(h) /\ h.panic = "" /\ h.alloc = R \cup {tp} \cup {kr} \cup {kl} \cup {kh}
              /\ h.pt = Null /\ h.trapframe = TRUE /\ h.kpgtbl = Kernel /\ h.sz = 0 /\ h.ok = TRUE
              /\ h.p = m.p /\ h.left = m.left - 4
          <6>1. Mem(l) /\ l.kpgtbl \cup {"high"} = Kernel /\ Kernel \in SUBSET Kernel
            BY <4>2 DEF Kernel
          <6>2. Mem(h)
            BY <5>1, <6>1 DEF Mem
          <6>3. h.panic = l.panic /\ h.alloc = l.alloc \cup {kh} /\ h.pt = l.pt
                /\ h.trapframe = l.trapframe /\ h.kpgtbl = l.kpgtbl \cup {"high"} /\ h.sz = l.sz
                /\ h.ok = TRUE /\ h.p = l.p /\ h.left = l.left - 1
            BY <5>1, <6>1 DEF Mem
          <6>4. m.left - 3 - 1 = m.left - 4
            BY <1>0
          <6> QED BY <4>2, <6>1, <6>2, <6>3, <6>4
        <5>3. Base(R, m.p) = R \cup {tp} \cup {kr} \cup {kl} \cup {kh}
          BY DEF Base, KernelSet, Kernel, tp, kr, kl, kh
        <5>4. KernelMade(m, k)
          BY <1>1, <2>3, <5>2, <5>3 DEF KernelMade, Self, Ok, Room
        <5>5. Room(m) >= 4
          <6>1. m.left \in Nat /\ m.left # 0 /\ m.left - 1 # 0 /\ m.left - 2 # 0 /\ m.left - 3 # 0
            BY <1>1, <1>3, <2>2, <2>5, <3>2, <3>4, <4>2, <4>4
          <6> QED BY <6>1 DEF Room
        <5> QED BY <5>4, <5>5 DEF k, t, tp
      <4> QED BY <4>3, <4>4
    <3> QED BY <3>3, <3>4
  <2> QED BY <2>4, <2>5
<1> QED BY <1>2, <1>3

\* allocproc() fills an empty slot, or leaves it empty, or panics; with six pages
\* on the free list it succeeds.
LEMMA AllocProc ==
  ASSUME NEW m, NEW R, Gone(m, R), Clear(R, Self(m)), Apart(R, Self(m), "A"), Room(m) \in Nat
  PROVE  /\ Self(allocproc(m)) = Self(m)
         /\ Ok(allocproc(m)) => Alloced(allocproc(m), R)
         /\ ~Ok(allocproc(m)) => Gone(allocproc(m), R) \/ Crashed(allocproc(m), R)
         /\ Room(m) >= 6 => Ok(allocproc(m)) /\ Room(allocproc(m)) >= Room(m) - 6
<1> DEFINE k == Pvminit(alloc_trapframe(kalloc(m, trapframe_page(m.p))))
           n == allocproc(m)
           p == Self(m)
           B == Base(R, p)
           q == proc_pagetable(k, "A")
<1>1. \/ Room(m) >= 4 /\ KernelMade(m, k)
      \/ ~(Room(m) >= 4) /\ Self(k) = Self(m) /\ ~Ok(k) /\ (Gone(k, R) \/ Crashed(k, R))
  BY KernelMemory
<1>2. n = alloc_kpgtbl(k)
  BY DEF allocproc
<1> HIDE DEF k, n
<1>3. CASE ~Ok(k)
  <2>1. n = k
    BY <1>2, <1>3 DEF alloc_kpgtbl, Ok
  <2>2. ~(Room(m) >= 4) /\ Self(k) = Self(m) /\ (Gone(k, R) \/ Crashed(k, R))
    BY <1>1, <1>3 DEF KernelMade
  <2>3. ~(Room(m) >= 6)
    BY <2>2
  <2> QED BY <1>3, <2>1, <2>2, <2>3 DEF n
<1>4. CASE Ok(k)
  <2>1. Room(m) >= 4 /\ KernelMade(m, k)
    BY <1>1, <1>4
  <2>2. Self(k) = p /\ Room(k) = Room(m) - 4
    BY <2>1 DEF KernelMade
  <2>3. Room(k) \in Nat
    BY <2>1, <2>2
  <2>4. Apart(B, p, "A")
    BY BaseApart
  <2>5. m.alloc = R
    BY DEF Gone
  <2>6. Blank(k, B, "A")
    <3>1. Mem(k) /\ k.panic = "" /\ k.sz = 0 /\ k.alloc = B
      BY <2>1, <2>5 DEF KernelMade
    <3> HIDE DEF B, p
    <3> QED BY <2>2, <2>4, <3>1 DEF Blank
  <2>7. Owns(k) /\ Size(k) = 0
    BY <2>1 DEF KernelMade, Owns, Size
  <2> HIDE DEF B, p
  <2>8. /\ Made(q, B, "A") /\ Same(k, q)
        /\ Room(k) >= 2 => Ok(q) /\ Room(q) >= Room(k) - 2
        /\ Room(q) \in Nat \/ ~Ok(q)
    BY <2>3, <2>6, ProcPagetable
  <2>9. n = alloc_pagetable(q)
    BY <1>2, <1>4 DEF alloc_kpgtbl, Ok
  <2> HIDE DEF q
  <2>10. Owns(q) /\ Size(q) = 0 /\ Self(q) = p
    BY <2>2, <2>7, <2>8 DEF Same, Owns
  <2>11. CASE Ok(q)
    <3>1. n = q
      BY <2>9, <2>11 DEF alloc_pagetable, Ok
    <3>2. Holds(q, B, "A") /\ Full(q, 0) /\ Room(q) \in Nat
      BY <2>8, <2>11 DEF Made
    <3>3. B = Base(R, Self(q))
      BY <2>10 DEF B
    <3>4. Alloced(n, R)
      BY <2>10, <3>1, <3>2, <3>3 DEF Alloced
    <3>5. Room(m) >= 6 => Room(n) >= Room(m) - 6
      BY <2>2, <2>8, <2>3, <3>1, <3>2
    <3> QED BY <2>10, <2>11, <3>1, <3>4, <3>5 DEF n, p
  <2>12. CASE ~Ok(q)
    <3> DEFINE f == freeproc(q)
    <3>1. n = fail(f)
      BY <2>9, <2>12 DEF alloc_pagetable, Ok
    <3>2. Freed(q, q, Base(R, Self(q)))
      BY <2>8, <2>10, <2>12 DEF Made, B
    <3>3. Clear(R, Self(q)) /\ Apart(R, Self(q), "A")
      BY <2>10 DEF p
    <3>4. Gone(f, R) /\ Self(f) = Self(q)
      BY <2>10, <3>2, <3>3, FreeProc
    <3> HIDE DEF f
    <3>5. Gone(n, R) /\ ~Ok(n) /\ Self(n) = Self(f)
      <4>1. n = [f EXCEPT !.ok = FALSE] /\ Mem(f)
        BY <3>1, <3>4 DEF fail, Gone
      <4>2. Mem(n)
        BY <4>1 DEF Mem
      <4>3. n.panic = f.panic /\ n.alloc = f.alloc /\ n.pt = f.pt /\ n.trapframe = f.trapframe
            /\ n.kpgtbl = f.kpgtbl /\ n.sz = f.sz /\ n.ok = FALSE /\ n.p = f.p
        BY <4>1 DEF Mem
      <4> QED BY <3>4, <4>2, <4>3 DEF Gone, Ok, Self
    <3>6. ~(Room(m) >= 6)
      BY <2>2, <2>3, <2>8, <2>12
    <3> QED BY <2>10, <3>4, <3>5, <3>6 DEF n, p
  <2> QED BY <2>11, <2>12
<1> QED BY <1>3, <1>4

-----------------------------------------------------------------------------
(* The pages of the process table.                                          *)

\* The record of a process.
Rec == [state : {"UNUSED", "RUNNABLE", "RUNNING", "ZOMBIE"}, parent : Slot \cup {None},
        sz : 0..MAXSZ, trapframe : BOOLEAN, pagetable : Table,
        kpgtbl : SUBSET {"root", "low", "high"}, lock : CPU \cup {None},
        image : [pt : Table, sz : 0..MAXSZ]]

\* The pages that record r of slot p refers to, and those of all other slots.
PageSet(p, r) ==
  (IF r.trapframe THEN {trapframe_page(p)} ELSE {})
  \cup {kernel_page(p, x) : x \in r.kpgtbl}
  \cup TablePages(p, r.pagetable) \cup TablePages(p, r.image.pt)
  \cup (IF r.image.pt.gen # "" THEN argv(p) ELSE {})
Others(p) == UNION {PageSet(q, proc[q]) : q \in Slot \ {p}}

\* No page of R is one of slot p.
Foreign(R, p) == \A x \in R : x[1] # p

\* A page is named after the slot it belongs to.
LEMMA PageOwner ==
  ASSUME NEW p, NEW r, NEW x \in PageSet(p, r)
  PROVE  x[1] = p
<1>1. trapframe_page(p)[1] = p /\ \A y : kernel_page(p, y)[1] = p
  BY DEF trapframe_page, kernel_page
<1>2. \A g, y : table_page(p, g, y)[1] = p /\ user_page(p, g, y)[1] = p
  BY DEF table_page, user_page
<1>3. \A y \in argv(p) : y[1] = p
  <2>1. \A i : <<p, "argv", "", i>>[1] = p
    OBVIOUS
  <2>2. \A y \in argv(p) : \E i : y = <<p, "argv", "", i>>
    BY DEF argv
  <2> QED BY <2>1, <2>2
<1>4. ASSUME NEW pt, x \in TablePages(p, pt) PROVE x[1] = p
  BY <1>2, <1>4 DEF TablePages
<1>5. CASE x \in TablePages(p, r.pagetable) \cup TablePages(p, r.image.pt)
  BY <1>4, <1>5
<1>6. CASE x \in (IF r.trapframe THEN {trapframe_page(p)} ELSE {})
  BY <1>1, <1>6
<1>7. CASE x \in {kernel_page(p, y) : y \in r.kpgtbl}
  BY <1>1, <1>7
<1>8. CASE x \in (IF r.image.pt.gen # "" THEN argv(p) ELSE {})
  BY <1>3, <1>8
<1> QED BY <1>5, <1>6, <1>7, <1>8 DEF PageSet

\* The pages of other slots are not of this one.
LEMMA OthersForeign ==
  ASSUME NEW p \in Slot
  PROVE  Foreign(Others(p), p)
BY PageOwner DEF Others, Foreign

\* A page of no other slot has no name of slot p.
LEMMA ForeignApart ==
  ASSUME NEW p, NEW R, Foreign(R, p)
  PROVE  Clear(R, p) /\ (\A g : Apart(R, p, g)) /\ argv(p) \cap R = {}
<1>1. trapframe_page(p)[1] = p /\ \A y : kernel_page(p, y)[1] = p
  BY DEF trapframe_page, kernel_page
<1>2. \A g, y : table_page(p, g, y)[1] = p /\ user_page(p, g, y)[1] = p
  BY DEF table_page, user_page
<1>3. \A y \in argv(p) : y[1] = p
  <2>1. \A i : <<p, "argv", "", i>>[1] = p
    OBVIOUS
  <2>2. \A y \in argv(p) : \E i : y = <<p, "argv", "", i>>
    BY DEF argv
  <2> QED BY <2>1, <2>2
<1> QED BY <1>1, <1>2, <1>3 DEF Foreign, Clear, Apart

\* The pages of one table are not those of another, nor argument strings.
LEMMA PartsApart ==
  ASSUME NEW p, NEW g, NEW h, NEW T, NEW L, g # h
  PROVE  Apart(Parts(p, h, T, L), p, g)
<1>1. \A x, y : /\ table_page(p, g, x) # table_page(p, h, y) /\ table_page(p, g, x) # user_page(p, h, y)
                /\ user_page(p, g, x) # table_page(p, h, y) /\ user_page(p, g, x) # user_page(p, h, y)
  BY DEF table_page, user_page
<1> QED BY <1>1 DEF Apart, Parts, TableSet, UserSet

\* The argument strings of exec() are in pages of no table,
LEMMA ArgvApart ==
  ASSUME NEW p, NEW g, NEW T, NEW L
  PROVE  Apart(argv(p), p, g) /\ argv(p) \cap Parts(p, g, T, L) = {}
<1>1. \A x : table_page(p, g, x) \notin argv(p) /\ user_page(p, g, x) \notin argv(p)
  BY DEF table_page, user_page, argv
<1> QED BY <1>1 DEF Apart, Parts, TableSet, UserSet

\* nor in the trapframe or the kernel table.
LEMMA ArgvBase ==
  ASSUME NEW p, NEW R, Foreign(R, p)
  PROVE  argv(p) \cap Base(R, p) = {}
<1>1. trapframe_page(p) \notin argv(p) /\ \A x : kernel_page(p, x) \notin argv(p)
  BY DEF trapframe_page, kernel_page, argv
<1> QED BY <1>1, ForeignApart DEF Base, KernelSet

\* Two sets without pages of the table.
LEMMA ApartPlus ==
  ASSUME NEW p, NEW g, NEW R, NEW S, Apart(R, p, g), Apart(S, p, g)
  PROVE  Apart(Plus(R, S), p, g)
BY DEF Apart, Plus

-----------------------------------------------------------------------------
(* Steps that change the record of one slot.                                *)

\* All pages that processes refer to, slot by slot.
LEMMA AllPages ==
  /\ UNION {PagesOf(p) : p \in Slot} = UNION {PageSet(p, proc[p]) : p \in Slot}
  /\ (UNION {PagesOf(p) : p \in Slot})' = UNION {PageSet(p, proc'[p]) : p \in Slot}
<1>1. \A p : PagesOf(p) = PageSet(p, proc[p])
  BY DEF PagesOf, PageSet, loading
<1>2. \A p : PagesOf(p)' = PageSet(p, proc'[p])
  BY DEF PagesOf, PageSet, loading, TablePages
<1> QED BY <1>1, <1>2

\* They are those of one slot and those of the others.
LEMMA SplitPages ==
  ASSUME NEW p \in Slot, alloc = UNION {PagesOf(q) : q \in Slot}
  PROVE  alloc = Plus(Others(p), PageSet(p, proc[p]))
<1>1. alloc = UNION {PageSet(q, proc[q]) : q \in Slot}
  BY AllPages
<1> QED BY <1>1 DEF Others, Plus

\* TypeOK in terms of the two kinds of records.
CpuRec == [proc : Slot \cup {None}, satp : Slot \cup {None},
           pc : {"scheduler", "resumed", "run", "sched", "switched"}]

\* The types of the records.
LEMMA Typed ==
  /\ TypeOK <=> proc \in [Slot -> Rec] /\ cpu \in [CPU -> CpuRec]
  /\ TypeOK' <=> proc' \in [Slot -> Rec] /\ cpu' \in [CPU -> CpuRec]
BY DEF TypeOK, Rec, CpuRec, Table

\* The kernel pages of a process that is not UNUSED.
LEMMA KernelPages ==
  ASSUME NEW p, NEW r, Good(r), r.state # "UNUSED"
  PROVE  {kernel_page(p, x) : x \in {"root", "low", "high"}} \subseteq PageSet(p, r)
BY DEF Good, PageSet, Kernel

\* The process of a CPU that is not in scheduler() is in use.
LEMMA CpuUses ==
  ASSUME TypeOK, Running, NEW c \in CPU, cpu[c].proc # None
  PROVE  cpu[c].proc \in Slot /\ proc[cpu[c].proc].state # "UNUSED"
<1>1. cpu[c] \in CpuRec
  BY Typed
<1>2. CpuOK(c)
  BY DEF Running
<1> QED BY <1>1, <1>2 DEF CpuRec, CpuOK

\* SatpLive follows from the rest.
LEMMA RunningLive ==
  ASSUME TypeOK, Running
  PROVE  SatpLive
<1> SUFFICES ASSUME NEW c \in CPU, cpu[c].satp # None
             PROVE  /\ {kernel_page(cpu[c].satp, x) : x \in {"root", "low", "high"}} \subseteq alloc
                    /\ cpu[c].proc = cpu[c].satp
  BY DEF SatpLive
<1> DEFINE p == cpu[c].proc
<1>1. cpu[c].satp = p
  BY DEF Running, CpuOK
<1>2. p \in Slot /\ proc[p].state # "UNUSED"
  BY <1>1, CpuUses
<1>3. Good(proc[p])
  BY <1>2 DEF Running, SlotOK
<1> HIDE DEF p
<1>4. {kernel_page(p, x) : x \in {"root", "low", "high"}} \subseteq PageSet(p, proc[p])
  BY <1>2, <1>3, KernelPages
<1>5. PageSet(p, proc[p]) \subseteq alloc
  <2>1. alloc = Plus(Others(p), PageSet(p, proc[p]))
    BY <1>2, SplitPages DEF Running
  <2> QED BY <2>1 DEF Plus
<1> QED BY <1>1, <1>4, <1>5 DEF p

\* No CPU runs p, or its record is the same for the CPU.
Idle(p) == \A c \in CPU : cpu[c].proc # p

\* No CPU has a process that does not run and is not locked.
LEMMA SlotIdle ==
  ASSUME TypeOK, Running, NEW p \in Slot, proc[p].state # "RUNNING", proc[p].lock = None
  PROVE  Idle(p)
<1> SUFFICES ASSUME NEW c \in CPU, cpu[c].proc = p
             PROVE  FALSE
  BY DEF Idle
<1>1. cpu[c] \in CpuRec
  BY Typed
<1>2. CpuOK(c)
  BY DEF Running
<1>3. c # None /\ p # None
  BY VmConstants
<1> QED BY <1>1, <1>2, <1>3 DEF CpuRec, CpuOK

\* A step that gives slot p the record r, and leaves the pages of r allocated,
\* keeps the invariant if CPUs do not depend on the change.
LEMMA SlotStep ==
  ASSUME NEW p \in Slot, NEW r \in Rec, TypeOK, Running, Good(r),
         proc' = [proc EXCEPT ![p] = r], alloc' = Plus(Others(p), PageSet(p, r)),
         cpu' = cpu, panicked' = "",
         (r.state = proc[p].state /\ r.lock = proc[p].lock) \/ Idle(p)
  PROVE  Inv'
<1>1. proc \in [Slot -> Rec] /\ cpu \in [CPU -> CpuRec]
  BY Typed
<1>2. proc' \in [Slot -> Rec] /\ proc'[p] = r /\ \A q \in Slot \ {p} : proc'[q] = proc[q]
  <2> HIDE DEF Rec
  <2> QED BY <1>1
<1>3. TypeOK'
  BY <1>1, <1>2, Typed
<1>4. alloc' = (UNION {PagesOf(q) : q \in Slot})'
  <2>1. alloc' = UNION {PageSet(q, proc'[q]) : q \in Slot}
    BY <1>2 DEF Others, Plus
  <2> QED BY <2>1, AllPages
<1>5. \A q \in Slot : SlotOK(q)'
  <2>1. \A q \in Slot : Good(proc'[q])
    BY <1>2 DEF Running, SlotOK
  <2> QED BY <2>1 DEF SlotOK, Good, Sized, Pages
<1>6. ASSUME NEW c \in CPU PROVE CpuOK(c)'
  <2>1. CpuOK(c)
    BY DEF Running
  <2>2. cpu[c].proc # None => cpu[c].proc \in Slot
    BY <1>1 DEF CpuRec
  <2>3. CASE cpu[c].proc = None
    BY <2>1, <2>3 DEF CpuOK
  <2>4. CASE cpu[c].proc # None
    <3>1. proc'[cpu[c].proc].state = proc[cpu[c].proc].state
          /\ proc'[cpu[c].proc].lock = proc[cpu[c].proc].lock
      BY <1>2, <2>2, <2>4 DEF Idle
    <3> QED BY <2>1, <3>1 DEF CpuOK
  <2> QED BY <2>3, <2>4
<1>7. Alone'
  BY DEF Running, Alone
<1>8. Running'
  BY <1>4, <1>5, <1>6, <1>7 DEF Running
<1>9. SatpLive'
  BY <1>3, <1>8, RunningLive, PTL
<1> QED BY <1>3, <1>8, <1>9 DEF Inv, NoPanic

-----------------------------------------------------------------------------
(* The memory of a slot as the argument of a call, and what a call leaves.  *)

\* The pages of a table as its parts.
LEMMA TableParts ==
  ASSUME NEW p, NEW pt
  PROVE  /\ pt.gen # "" => TablePages(p, pt) = Parts(p, pt.gen, pt.tab, pt.leaf)
         /\ TablePages(p, Null) = {}
<1>1. ASSUME pt.gen # "" PROVE TablePages(p, pt) = Parts(p, pt.gen, pt.tab, pt.leaf)
  BY <1>1 DEF TablePages, Parts, TableSet, UserSet, Top
<1>2. Null.gen = ""
  BY DEF Null
<1>3. TablePages(p, Null) = {}
  BY <1>2 DEF TablePages
<1> QED BY <1>1, <1>3

\* The pages of a process in use: its own three kinds, and those of exec()'s image.
Extra(p, r) == TablePages(p, r.image.pt) \cup (IF r.image.pt.gen # "" THEN argv(p) ELSE {})

\* The pages of a slot in use, part by part.
LEMMA PagesUsed ==
  ASSUME NEW p, NEW r, NEW O, r.trapframe = TRUE, r.kpgtbl = Kernel, r.pagetable.gen # ""
  PROVE  Plus(O, PageSet(p, r))
           = Plus(Base(O, p), Plus(Parts(p, r.pagetable.gen, r.pagetable.tab, r.pagetable.leaf),
                                   Extra(p, r)))
<1> DEFINE Q == Parts(p, r.pagetable.gen, r.pagetable.tab, r.pagetable.leaf)
           I == TablePages(p, r.image.pt)
           V == IF r.image.pt.gen # "" THEN argv(p) ELSE {}
<1>1. TablePages(p, r.pagetable) = Q
  BY TableParts
<1>2. PageSet(p, r) = {trapframe_page(p)} \cup KernelSet(p) \cup Q \cup I \cup V
  BY <1>1 DEF PageSet, KernelSet
<1>3. Extra(p, r) = I \cup V
  BY DEF Extra
<1> HIDE DEF Q, I, V
<1>4. Plus(O, PageSet(p, r)) = Plus(Base(O, p), Plus(Q, Extra(p, r)))
  BY <1>2, <1>3 DEF Plus, Base
<1> QED BY <1>4 DEF Q

\* Without exec() a slot has no image and no argument strings.
LEMMA NoExtra ==
  ASSUME NEW p, NEW r, r.image = NoImage
  PROVE  Extra(p, r) = {}
<1>1. r.image.pt = Null
  BY DEF NoImage
<1>2. Null.gen = ""
  BY DEF Null
<1> QED BY <1>1, <1>2, TableParts DEF Extra

\* What the memory of a slot holds before a call.
LEMMA MemoryIs ==
  ASSUME NEW p \in Slot, NEW left, TypeOK
  PROVE  LET m == memory(p, left) IN
         /\ Mem(m) /\ Self(m) = p /\ Alloc(m) = alloc /\ Room(m) = left /\ m.panic = ""
         /\ m.pt = proc[p].pagetable /\ Size(m) = proc[p].sz
         /\ m.trapframe = proc[p].trapframe /\ m.kpgtbl = proc[p].kpgtbl
<1>1. proc[p] \in Rec
  BY Typed
<1>2. proc[p].pagetable \in Table /\ proc[p].sz \in 0..MAXSZ /\ proc[p].trapframe \in BOOLEAN
      /\ proc[p].kpgtbl \in SUBSET Kernel
  BY <1>1 DEF Rec, Kernel
<1> QED BY <1>2 DEF memory, Mem, Self, Alloc, Room, Size

\* The memory of a process that is in use and not in exec().
LEMMA MemoryHolds ==
  ASSUME NEW p \in Slot, NEW left, TypeOK, Running, proc[p].state # "UNUSED", ~loading(p)
  PROVE  LET m == memory(p, left) IN
         /\ Holds(m, Base(Others(p), p), proc[p].pagetable.gen) /\ Full(m, Size(m)) /\ Owns(m)
         /\ proc[p].image = NoImage
<1> DEFINE m == memory(p, left)
           r == proc[p]
           g == r.pagetable.gen
<1>1. /\ Mem(m) /\ Self(m) = p /\ Alloc(m) = alloc /\ m.panic = ""
      /\ m.pt = r.pagetable /\ Size(m) = r.sz /\ m.trapframe = r.trapframe /\ m.kpgtbl = r.kpgtbl
  BY MemoryIs
<1>2. Good(r)
  BY DEF Running, SlotOK
<1>3. r.trapframe /\ r.kpgtbl = Kernel /\ g \in {"A", "B"} /\ Sized(r.pagetable, r.sz)
      /\ r.image = NoImage /\ r.trapframe = TRUE
  <2>1. r.trapframe \in BOOLEAN
    BY Typed DEF Rec
  <2> QED BY <1>2, <2>1 DEF Good, loading, Other
<1>4. alloc = Plus(Others(p), PageSet(p, r))
  BY SplitPages DEF Running
<1> HIDE DEF m, r
<1>5. alloc = Plus(Base(Others(p), p), Parts(p, g, Tab(m), Leaf(m)))
  <2>1. Extra(p, r) = {}
    BY <1>3, NoExtra
  <2>2. g # ""
    BY <1>3
  <2>3. Tab(m) = r.pagetable.tab /\ Leaf(m) = r.pagetable.leaf
    BY <1>1 DEF Tab, Leaf
  <2>4. alloc = Plus(Base(Others(p), p), Plus(Parts(p, g, Tab(m), Leaf(m)), {}))
    BY <1>3, <1>4, <2>1, <2>2, <2>3, PagesUsed
  <2> QED BY <2>4 DEF Plus
<1>6. Apart(Base(Others(p), p), p, g)
  BY OthersForeign, ForeignApart, BaseApart
<1>7. m.pt.gen = g
  BY <1>1
<1>8. Holds(m, Base(Others(p), p), g)
  BY <1>1, <1>3, <1>5, <1>6, <1>7 DEF Holds
<1>9. Full(m, Size(m))
  BY <1>1, <1>3 DEF Full, Sized, Leaf, Top
<1>10. Owns(m)
  BY <1>1, <1>3 DEF Owns
<1> QED BY <1>3, <1>8, <1>9, <1>10 DEF m, r

\* The record that left_with() writes.
Result(n, q) ==
  [q EXCEPT !.pagetable = n.pt, !.sz = n.sz, !.trapframe = n.trapframe, !.kpgtbl = n.kpgtbl]

\* The record that a call leaves.
LEMMA ResultIs ==
  ASSUME NEW n, NEW q \in Rec, Mem(n)
  PROVE  LET r == Result(n, q) IN
         /\ r \in Rec /\ r.pagetable = n.pt /\ r.sz = n.sz /\ r.trapframe = n.trapframe
         /\ r.kpgtbl = n.kpgtbl /\ r.state = q.state /\ r.lock = q.lock /\ r.image = q.image
<1>1. n.pt \in Table /\ n.sz \in 0..MAXSZ /\ n.trapframe \in BOOLEAN
      /\ n.kpgtbl \in SUBSET {"root", "low", "high"}
  BY DEF Mem, Kernel
<1> HIDE DEF Mem
<1> QED BY <1>1 DEF Result, Rec

\* No table and no size are of their types.
LEMMA NullType == Null \in Table /\ 0 \in 0..MAXSZ
BY MaxType DEF Null, Table

\* An unused slot is in order.
LEMMA NoProcType == NoProc \in Rec /\ Good(NoProc)
<1>1. Null \in Table /\ 0 \in 0..MAXSZ
  BY NullType
<1>2. NoImage \in [pt : Table, sz : 0..MAXSZ]
  BY <1>1 DEF NoImage
<1>3. NoProc \in Rec
  BY <1>1, <1>2 DEF NoProc, Rec
<1>4. Good(NoProc)
  BY DEF Good, NoProc
<1> QED BY <1>3, <1>4

\* A call that leaves a process in use and no image.
LEMMA LeftHeld ==
  ASSUME NEW n, NEW g, NEW p \in Slot, NEW q \in Rec, TypeOK, Running,
         Holds(n, Base(Others(p), p), g), Full(n, Size(n)), Owns(n), Self(n) = p,
         q.image = NoImage, q.state # "UNUSED", left_with(n, q),
         (q.state = proc[p].state /\ q.lock = proc[p].lock) \/ Idle(p)
  PROVE  Inv'
<1> DEFINE r == Result(n, q)
<1>1. Mem(n) /\ n.panic = "" /\ n.pt.gen = g /\ g \in {"A", "B"}
      /\ Alloc(n) = Plus(Base(Others(p), p), Parts(p, g, Tab(n), Leaf(n)))
  BY DEF Holds
<1>2. /\ r \in Rec /\ r.pagetable = n.pt /\ r.sz = n.sz /\ r.trapframe = n.trapframe
      /\ r.kpgtbl = n.kpgtbl /\ r.state = q.state /\ r.lock = q.lock /\ r.image = q.image
  BY <1>1, ResultIs
<1>3. alloc' = Alloc(n) /\ panicked' = "" /\ cpu' = cpu /\ proc' = [proc EXCEPT ![p] = r]
  BY <1>1 DEF left_with, Self, Alloc, Result
<1> HIDE DEF r
<1>4. r.trapframe = TRUE /\ r.kpgtbl = Kernel /\ r.pagetable.gen = g
  BY <1>1, <1>2 DEF Owns
<1>5. Good(r)
  <2>1. Sized(r.pagetable, r.sz)
    BY <1>2 DEF Sized, Full, Leaf, Size, Top
  <2>2. r.pagetable.gen \in {"A", "B"}
    BY <1>1, <1>4
  <2>3. r.state # "UNUSED" /\ r.image = NoImage
    BY <1>2
  <2> QED BY <1>4, <2>1, <2>2, <2>3 DEF Good
<1>6. alloc' = Plus(Others(p), PageSet(p, r))
  <2>1. Extra(p, r) = {}
    BY <1>2, NoExtra
  <2>2. r.pagetable.gen # ""
    BY <1>1, <1>4
  <2>3. r.pagetable.tab = Tab(n) /\ r.pagetable.leaf = Leaf(n)
    BY <1>2 DEF Tab, Leaf
  <2>4. Plus(Others(p), PageSet(p, r)) = Plus(Base(Others(p), p), Plus(Parts(p, g, Tab(n), Leaf(n)), {}))
    BY <1>4, <2>1, <2>2, <2>3, PagesUsed
  <2>5. Plus(Parts(p, g, Tab(n), Leaf(n)), {}) = Parts(p, g, Tab(n), Leaf(n))
    BY DEF Plus
  <2> QED BY <1>1, <1>3, <2>4, <2>5
<1>7. (r.state = proc[p].state /\ r.lock = proc[p].lock) \/ Idle(p)
  BY <1>2
<1> QED BY <1>2, <1>3, <1>5, <1>6, <1>7, SlotStep

\* A call that leaves a slot empty.
LEMMA LeftGone ==
  ASSUME NEW n, NEW p \in Slot, TypeOK, Running, Gone(n, Others(p)), Self(n) = p,
         left_with(n, NoProc), Idle(p)
  PROVE  Inv'
<1> DEFINE r == Result(n, NoProc)
<1>1. Mem(n) /\ n.panic = "" /\ n.alloc = Others(p) /\ n.pt = Null /\ n.trapframe = FALSE
      /\ n.kpgtbl = {} /\ n.sz = 0
  BY DEF Gone
<1>2. /\ r.pagetable = n.pt /\ r.sz = n.sz /\ r.trapframe = n.trapframe /\ r \in Rec
      /\ r.kpgtbl = n.kpgtbl /\ r.state = NoProc.state /\ r.image = NoProc.image
  BY <1>1, NoProcType, ResultIs
<1>3. alloc' = Others(p) /\ panicked' = "" /\ cpu' = cpu /\ proc' = [proc EXCEPT ![p] = r]
  BY <1>1 DEF left_with, Self, Result
<1> HIDE DEF r
<1>4. r.state = "UNUSED" /\ r.image = NoImage
  BY <1>2 DEF NoProc
<1>5. Good(r)
  BY <1>1, <1>2, <1>4 DEF Good
<1>6. alloc' = Plus(Others(p), PageSet(p, r))
  <2>1. Extra(p, r) = {}
    BY <1>4, NoExtra
  <2>2. TablePages(p, r.pagetable) = {}
    BY <1>1, <1>2, TableParts
  <2>3. r.trapframe = FALSE /\ r.kpgtbl = {}
    BY <1>1, <1>2
  <2>4. PageSet(p, r) = {}
    BY <2>1, <2>2, <2>3 DEF PageSet, Extra
  <2> QED BY <1>3, <2>4 DEF Plus
<1> QED BY <1>2, <1>3, <1>5, <1>6, SlotStep

\* A panic in allocproc().
LEMMA LeftCrashed ==
  ASSUME NEW n, NEW p \in Slot, TypeOK, Running, Crashed(n, Others(p)), Self(n) = p,
         left_with(n, NoProc), Idle(p)
  PROVE  Inv'
<1> DEFINE r == Result(n, NoProc)
<1>1. Mem(n) /\ n.panic \in {"kerneltrap", "Pvmmap"} /\ Others(p) \subseteq n.alloc
  BY DEF Crashed
<1>2. r \in Rec
  BY <1>1, NoProcType, ResultIs
<1>3. alloc' = n.alloc /\ panicked' = n.panic /\ cpu' = cpu /\ proc' = [proc EXCEPT ![p] = r]
  BY DEF left_with, Self, Result
<1> HIDE DEF r
<1>4. TypeOK'
  <2>1. proc \in [Slot -> Rec] /\ cpu \in [CPU -> CpuRec]
    BY Typed
  <2>2. proc' \in [Slot -> Rec] /\ cpu' \in [CPU -> CpuRec]
    BY <1>2, <1>3, <2>1
  <2> QED BY <2>2, Typed
<1>5. SatpLive'
  <2> SUFFICES ASSUME NEW c \in CPU, cpu[c].satp # None
               PROVE  /\ {kernel_page(cpu[c].satp, x) : x \in {"root", "low", "high"}} \subseteq alloc'
                      /\ cpu[c].proc = cpu[c].satp
    BY <1>3 DEF SatpLive, kernel_page
  <2> DEFINE s == cpu[c].satp
  <2>1. cpu[c].proc = s
    BY DEF Running, CpuOK
  <2>2. s \in Slot /\ proc[s].state # "UNUSED" /\ s # p
    BY <2>1, CpuUses DEF Idle
  <2>3. Good(proc[s])
    BY <2>2 DEF Running, SlotOK
  <2> HIDE DEF s
  <2>4. {kernel_page(s, x) : x \in {"root", "low", "high"}} \subseteq PageSet(s, proc[s])
    BY <2>2, <2>3, KernelPages
  <2>5. PageSet(s, proc[s]) \subseteq Others(p)
    BY <2>2 DEF Others
  <2> QED BY <1>1, <1>3, <2>1, <2>4, <2>5 DEF s
<1>6. panicked' # "" /\ NoPanic'
  BY <1>1, <1>3 DEF NoPanic
<1> QED BY <1>4, <1>5, <1>6 DEF Inv

-----------------------------------------------------------------------------
(* The system calls.                                                        *)

\* A process in a system call is RUNNING.
LEMMA RunningSlot ==
  ASSUME NEW p \in Slot, TypeOK, Running, running(p)
  PROVE  proc[p].state = "RUNNING" /\ proc[p] \in Rec
<1>1. PICK c \in CPU : cpu[c].pc = "run" /\ cpu[c].proc = p
  BY DEF running
<1>2. CpuOK(c)
  BY DEF Running
<1>3. proc[p] \in Rec
  BY Typed
<1> QED BY <1>1, <1>2, <1>3 DEF CpuOK

\* A number of kalloc()s.
LEMMA LeftType ==
  ASSUME NEW left \in Left
  PROVE  left \in Nat
BY VmConstants DEF Left

\* Only the size of the memory changes.
Resized(x, s) == [x EXCEPT !.sz = s]

\* Setting the size disturbs nothing else.
LEMMA Resize ==
  ASSUME NEW x, NEW R, NEW g, NEW s \in 0..MAXSZ, Holds(x, R, g)
  PROVE  LET y == Resized(x, s) IN
         /\ Holds(y, R, g) /\ Leaf(y) = Leaf(x) /\ Size(y) = s /\ Self(y) = Self(x)
         /\ Ok(y) = Ok(x) /\ Room(y) = Room(x) /\ (Owns(x) => Owns(y))
<1> DEFINE y == Resized(x, s)
<1>1. y = [x EXCEPT !.sz = s] /\ Mem(x)
  BY DEF Resized, Holds
<1> HIDE DEF y
<1>2. Mem(y)
  BY <1>1 DEF Mem
<1>3. y.panic = x.panic /\ y.pt = x.pt /\ y.sz = s /\ y.p = x.p /\ y.alloc = x.alloc
      /\ y.ok = x.ok /\ y.left = x.left /\ y.trapframe = x.trapframe /\ y.kpgtbl = x.kpgtbl
  BY <1>1 DEF Mem
<1>4. Self(y) = Self(x) /\ Tab(y) = Tab(x) /\ Leaf(y) = Leaf(x) /\ Alloc(y) = Alloc(x) /\ Size(y) = s
      /\ Ok(y) = Ok(x) /\ Room(y) = Room(x) /\ (Owns(x) => Owns(y))
  BY <1>3 DEF Self, Tab, Leaf, Alloc, Size, Ok, Room, Owns
<1>5. Holds(y, R, g)
  BY <1>2, <1>3, <1>4 DEF Holds
<1> QED BY <1>4, <1>5 DEF y

\* uvmdealloc() does not fail.
LEMMA DeallocOk ==
  ASSUME NEW m, NEW old \in Nat, NEW new \in Nat, Mem(m), Ok(m), Full(m, old)
  PROVE  Ok(uvmdealloc(m, old, new))
<1>1. CASE new >= old
  BY <1>1 DEF uvmdealloc
<1>2. CASE new < old
  <2> DEFINE S == Pages(PGROUNDUP(new), PGROUNDUP(old))
             F == {user_page(m.p, m.pt.gen, va) : va \in S}
             u == [m EXCEPT !.pt.leaf = @ \ S]
  <2>1. S \subseteq m.pt.leaf
    BY PagesBetween DEF Full, Leaf
  <2>2. uvmdealloc(m, old, new) = kfree(u, F)
    <3>1. ~(new >= old)
      BY <1>2
    <3>2. uvmdealloc(m, old, new) = uvmunmap(m, S, TRUE)
      BY <3>1 DEF uvmdealloc
    <3> QED BY <2>1, <3>2 DEF uvmunmap
  <2>3. u.ok = TRUE
    BY DEF Mem, Ok
  <2>4. kfree(u, F).ok = u.ok
    <3>1. u = [p |-> u.p, alloc |-> u.alloc, left |-> u.left, ok |-> u.ok, panic |-> u.panic,
               pt |-> u.pt, sz |-> u.sz, trapframe |-> u.trapframe, kpgtbl |-> u.kpgtbl]
      BY DEF Mem
    <3> HIDE DEF u, F
    <3> QED BY <3>1 DEF kfree
  <2> QED BY <2>2, <2>3, <2>4 DEF Ok
<1> QED BY <1>1, <1>2

\* A function on the user table leaves the slot its trapframe and kernel table.
LEMMA OwnsSame ==
  ASSUME NEW m, NEW n, Same(m, n), Owns(m)
  PROVE  Owns(n)
BY DEF Same, Owns

\* growproc() keeps the pages and the size together, also when sz + n wraps.
LEMMA GrowStep ==
  ASSUME NEW p \in Slot, TypeOK, Running, growproc(p)
  PROVE  Inv'
<1>1. PICK n \in GROW, left \in Left :
        LET m == memory(p, left)
            newsz == grown(m.sz, n)
            sized(x) == IF x.ok /\ (n > 0) = (newsz >= m.sz) THEN [x EXCEPT !.sz = newsz] ELSE x
        IN /\ calls(p)
           /\ \/ n > 0 /\ newsz <= MAXSZ /\ left_with(sized(uvmalloc(m, m.sz, newsz)), proc[p])
              \/ n < 0 /\ left_with(sized(uvmdealloc(m, m.sz, newsz)), proc[p])
  BY DEF growproc
<1> DEFINE m == memory(p, left)
           old == Size(m)
           new == grown(old, n)
           R == Base(Others(p), p)
           g == proc[p].pagetable.gen
<1>2. running(p) /\ ~loading(p)
  BY <1>1 DEF calls
<1>3. proc[p].state = "RUNNING" /\ proc[p] \in Rec
  BY <1>2, RunningSlot
<1>4. Holds(m, R, g) /\ Full(m, old) /\ Owns(m) /\ proc[p].image = NoImage
  BY <1>2, <1>3, MemoryHolds
<1>5. Self(m) = p /\ Mem(m) /\ Room(m) \in Nat
  BY MemoryIs, LeftType
<1>6. old \in Nat /\ old \in 0..MAXSZ
  BY <1>4, SizeType
<1>7. new \in Nat
  BY <1>6, VmConstants DEF grown
<1>8. Ok(m)
  BY DEF memory, Ok
<1>9. \/ /\ n > 0 /\ new <= MAXSZ
         /\ \/ /\ Ok(uvmalloc(m, old, new)) /\ new >= old
               /\ left_with(Resized(uvmalloc(m, old, new), new), proc[p])
            \/ ~(Ok(uvmalloc(m, old, new)) /\ new >= old) /\ left_with(uvmalloc(m, old, new), proc[p])
      \/ /\ n < 0
         /\ \/ /\ Ok(uvmdealloc(m, old, new)) /\ ~(new >= old)
               /\ left_with(Resized(uvmdealloc(m, old, new), new), proc[p])
            \/ /\ ~(Ok(uvmdealloc(m, old, new)) /\ ~(new >= old))
               /\ left_with(uvmdealloc(m, old, new), proc[p])
  <2> HIDE DEF m
  <2>1. n \in Int
    BY VmConstants
  <2>2. n < 0 => ~(n > 0)
    BY <2>1
  <2> QED BY <1>1, <2>2 DEF Ok, Resized, m, Size
<1> HIDE DEF m, R, new, g, old
<1>10. ASSUME NEW x, Holds(x, R, g), Full(x, Size(x)), Owns(x), Self(x) = p, left_with(x, proc[p])
       PROVE  Inv'
  <2>1. proc[p].state # "UNUSED"
    BY <1>3
  <2> QED BY <1>3, <1>4, <1>10, <2>1, LeftHeld DEF R
<1>11. ASSUME NEW x, Holds(x, R, g), Full(x, new), Owns(x), Self(x) = p, new <= MAXSZ,
              left_with(Resized(x, new), proc[p])
       PROVE  Inv'
  <2> DEFINE y == Resized(x, new)
  <2>1. new \in 0..MAXSZ
    BY <1>7, <1>11, MaxType
  <2>2. Holds(y, R, g) /\ Leaf(y) = Leaf(x) /\ Size(y) = new /\ Self(y) = p /\ Owns(y)
    BY <1>11, <2>1, Resize
  <2>3. Full(y, Size(y))
    BY <1>11, <2>2 DEF Full
  <2> QED BY <1>10, <1>11, <2>2, <2>3
<1>12. CASE n > 0 /\ new <= MAXSZ
            /\ \/ /\ Ok(uvmalloc(m, old, new)) /\ new >= old
                  /\ left_with(Resized(uvmalloc(m, old, new), new), proc[p])
               \/ ~(Ok(uvmalloc(m, old, new)) /\ new >= old) /\ left_with(uvmalloc(m, old, new), proc[p])
  <2> DEFINE x == uvmalloc(m, old, new)
  <2>1. /\ Holds(x, R, g) /\ Same(m, x)
        /\ Ok(x) => Full(x, IF new < old THEN old ELSE new)
        /\ ~Ok(x) => Full(x, old)
    BY <1>4, <1>5, <1>6, <1>7, Uvmalloc
  <2>2. Owns(x) /\ Self(x) = p /\ Size(x) = old
    BY <1>4, <1>5, <2>1, OwnsSame DEF Same, old
  <2> HIDE DEF x
  <2>3. CASE Ok(x) /\ new >= old /\ left_with(Resized(x, new), proc[p])
    <3>1. ~(new < old)
      BY <1>6, <1>7, <2>3
    <3>2. Full(x, new)
      BY <2>1, <2>3, <3>1
    <3> QED BY <1>11, <1>12, <2>1, <2>2, <2>3, <3>2
  <2>4. CASE ~(Ok(x) /\ new >= old) /\ left_with(x, proc[p])
    <3>1. ~(new >= old) => new < old
      BY <1>6, <1>7
    <3>2. Full(x, old)
      BY <2>1, <2>4, <3>1
    <3> QED BY <1>10, <2>1, <2>2, <2>4, <3>2
  <2> QED BY <1>12, <2>3, <2>4 DEF x
<1>13. CASE \/ /\ Ok(uvmdealloc(m, old, new)) /\ ~(new >= old)
               /\ left_with(Resized(uvmdealloc(m, old, new), new), proc[p])
            \/ /\ ~(Ok(uvmdealloc(m, old, new)) /\ ~(new >= old))
               /\ left_with(uvmdealloc(m, old, new), proc[p])
  <2> DEFINE x == uvmdealloc(m, old, new)
  <2>1. /\ Holds(x, R, g) /\ Same(m, x)
        /\ new >= old => x = m
        /\ new < old => Full(x, new)
    BY <1>4, <1>6, <1>7, Dealloc
  <2>2. Ok(x)
    BY <1>4, <1>5, <1>6, <1>7, <1>8, DeallocOk
  <2>3. Owns(x) /\ Self(x) = p /\ Size(x) = old
    BY <1>4, <1>5, <2>1, OwnsSame DEF Same, old
  <2> HIDE DEF x
  <2>4. CASE ~(new >= old) /\ left_with(Resized(x, new), proc[p])
    <3>1. new < old /\ new <= MAXSZ
      BY <1>6, <1>7, <2>4, MaxType
    <3>2. Full(x, new)
      BY <2>1, <3>1
    <3> QED BY <1>11, <2>1, <2>3, <2>4, <3>1, <3>2
  <2>5. CASE new >= old /\ left_with(x, proc[p])
    <3>1. Full(x, old)
      BY <1>4, <2>1, <2>5
    <3> QED BY <1>10, <2>1, <2>3, <2>5, <3>1
  <2> QED BY <1>13, <2>2, <2>4, <2>5 DEF x
<1> QED BY <1>9, <1>12, <1>13

\* wait() gives back the pages of the child that it removes.
LEMMA WaitStep ==
  ASSUME NEW p \in Slot, NEW np \in Slot, TypeOK, Running, wait(p, np)
  PROVE  Inv'
<1> DEFINE m == memory(np, 0)
           f == freeproc(m)
           R == Others(np)
           g == proc[np].pagetable.gen
<1>1. proc[np].state = "ZOMBIE" /\ proc[np].lock = None /\ left_with(f, NoProc)
  BY DEF wait
<1>2. Idle(np)
  BY <1>1, SlotIdle
<1>3. ~loading(np) /\ proc[np].state # "UNUSED"
  <2>1. Good(proc[np])
    BY DEF Running, SlotOK
  <2>2. proc[np].image = NoImage
    BY <1>1, <2>1 DEF Good
  <2>3. NoImage.pt.gen = ""
    BY DEF NoImage, Null
  <2> QED BY <1>1, <2>2, <2>3 DEF loading
<1>4. Holds(m, Base(R, np), g) /\ Full(m, Size(m)) /\ Owns(m)
  BY <1>3, MemoryHolds
<1>5. Self(m) = np
  BY MemoryIs
<1>6. Clear(R, np) /\ Apart(R, np, g)
  BY OthersForeign, ForeignApart
<1> HIDE DEF m
<1>7. Gone(f, R) /\ Self(f) = np
  BY <1>4, <1>5, <1>6, FreeProc
<1> HIDE DEF f
<1> QED BY <1>1, <1>2, <1>7, LeftGone

\* An UNUSED slot has no memory.
LEMMA MemoryGone ==
  ASSUME NEW p \in Slot, NEW left, TypeOK, Running, proc[p].state = "UNUSED"
  PROVE  Gone(memory(p, left), Others(p))
<1> DEFINE m == memory(p, left)
           r == proc[p]
<1>1. /\ Mem(m) /\ Alloc(m) = alloc /\ m.panic = "" /\ m.pt = r.pagetable /\ Size(m) = r.sz
      /\ m.trapframe = r.trapframe /\ m.kpgtbl = r.kpgtbl
  BY MemoryIs
<1>2. r.trapframe = FALSE /\ r.kpgtbl = {} /\ r.pagetable = Null /\ r.sz = 0 /\ r.image = NoImage
  <2>1. r.trapframe \in BOOLEAN
    BY Typed DEF Rec
  <2>2. Good(r)
    BY DEF Running, SlotOK
  <2> QED BY <2>1, <2>2 DEF Good
<1>3. alloc = Plus(Others(p), PageSet(p, r))
  BY SplitPages DEF Running
<1> HIDE DEF m, r
<1>4. PageSet(p, r) = {}
  <2>1. Extra(p, r) = {} /\ TablePages(p, r.pagetable) = {}
    BY <1>2, NoExtra, TableParts
  <2>2. r.trapframe = FALSE /\ r.kpgtbl = {}
    BY <1>2
  <2> QED BY <2>1, <2>2 DEF PageSet, Extra
<1>5. m.alloc = Others(p)
  BY <1>1, <1>3, <1>4 DEF Plus, Alloc
<1> QED BY <1>1, <1>2, <1>5 DEF Gone, Size, m

\* The two ends of fork() with a child: its size is set, or it is freed.
LEMMA ForkCopied ==
  ASSUME NEW p \in Slot, NEW np \in Slot, NEW c, TypeOK, Running, Idle(np),
         Holds(c, Base(Others(np), np), "A"), Owns(c), Self(c) = np, Size(c) = 0,
         Ok(c) => Full(c, proc[p].sz), ~Ok(c) => Full(c, 0), fork_copied(c, p)
  PROVE  Inv'
<1> DEFINE R == Others(np)
<1>1. CASE ~Ok(c)
  <2> DEFINE f == freeproc(c)
  <2>1. left_with(f, NoProc)
    BY <1>1 DEF fork_copied, Ok
  <2>2. Clear(R, np) /\ Apart(R, np, "A")
    BY OthersForeign, ForeignApart
  <2>3. Full(c, Size(c))
    BY <1>1
  <2>4. Gone(f, R) /\ Self(f) = np
    BY <2>2, <2>3, FreeProc
  <2> HIDE DEF f
  <2> QED BY <2>1, <2>4, LeftGone
<1>2. CASE Ok(c)
  <2> DEFINE s == proc[p].sz
             y == Resized(c, s)
             q == [NoProc EXCEPT !.state = "RUNNABLE", !.parent = p]
  <2>1. left_with(y, q)
    BY <1>2 DEF fork_copied, Ok, Resized
  <2>2. s \in 0..MAXSZ
    BY Typed DEF Rec
  <2>3. q \in Rec
    BY NoProcType DEF Rec
  <2>4. q.image = NoImage /\ q.state # "UNUSED"
    BY DEF NoProc
  <2> HIDE DEF q, s
  <2>5. Holds(y, Base(R, np), "A") /\ Leaf(y) = Leaf(c) /\ Size(y) = s /\ Self(y) = np /\ Owns(y)
    BY <2>2, Resize
  <2>6. Full(y, Size(y))
    BY <1>2, <2>5 DEF Full, s
  <2> HIDE DEF y, R
  <2> QED BY <2>1, <2>3, <2>4, <2>5, <2>6, LeftHeld DEF R
<1> QED BY <1>1, <1>2

\* fork(), whichever of its kalloc()s fails.
LEMMA ForkStep ==
  ASSUME NEW p \in Slot, NEW np \in Slot, TypeOK, Running, fork(p, np)
  PROVE  Inv'
<1>1. PICK left \in Left :
        /\ calls(p) /\ proc[np].state = "UNUSED" /\ proc[np].lock = None
        /\ fork_alloced(allocproc(memory(np, left)), p)
  BY DEF fork
<1> DEFINE m == memory(np, left)
           a == allocproc(m)
           R == Others(np)
           s == proc[p].sz
<1>2. Idle(np)
  BY <1>1, SlotIdle
<1>3. Gone(m, R)
  BY <1>1, MemoryGone
<1>4. Self(m) = np /\ Room(m) \in Nat
  BY MemoryIs, LeftType
<1>5. Clear(R, np) /\ Apart(R, np, "A")
  BY OthersForeign, ForeignApart
<1> HIDE DEF m
<1>6. /\ Self(a) = np
      /\ Ok(a) => Alloced(a, R)
      /\ ~Ok(a) => Gone(a, R) \/ Crashed(a, R)
  BY <1>3, <1>4, <1>5, AllocProc
<1>7. fork_alloced(a, p)
  BY <1>1 DEF m
<1> HIDE DEF a
<1>8. CASE ~Ok(a)
  <2>1. left_with(a, NoProc)
    BY <1>7, <1>8 DEF fork_alloced, Ok
  <2> QED BY <1>2, <1>6, <1>8, <2>1, LeftGone, LeftCrashed
<1>9. CASE Ok(a)
  <2> DEFINE c == uvmcopy(a, s)
  <2>1. Holds(a, Base(R, np), "A") /\ Full(a, 0) /\ Owns(a) /\ Size(a) = 0 /\ Room(a) \in Nat
    BY <1>6, <1>9 DEF Alloced
  <2>2. s \in Nat
    <3>1. s \in 0..MAXSZ
      BY Typed DEF Rec
    <3> QED BY <3>1, MaxType
  <2>3. Pages(0, s) \subseteq proc[p].pagetable.leaf
    <3>1. proc[p].state # "UNUSED" /\ Good(proc[p])
      <4>1. running(p)
        BY <1>1 DEF calls
      <4>2. proc[p].state = "RUNNING"
        BY <4>1, RunningSlot
      <4> QED BY <4>2 DEF Running, SlotOK
    <3>2. proc[p].pagetable.gen \in {"A", "B"} /\ Sized(proc[p].pagetable, s)
      BY <3>1 DEF Good
    <3> QED BY <3>2 DEF Sized
  <2>4. fork_copied(c, p)
    BY <1>7, <1>9, <2>3 DEF fork_alloced, Ok
  <2> HIDE DEF R, s
  <2>5. /\ Holds(c, Base(R, np), "A") /\ Same(a, c)
        /\ Ok(c) => Full(c, s)
        /\ ~Ok(c) => Full(c, 0)
    BY <2>1, <2>2, Uvmcopy
  <2>6. Owns(c) /\ Self(c) = np /\ Size(c) = 0
    BY <1>6, <2>1, <2>5, OwnsSame DEF Same
  <2> HIDE DEF c
  <2> QED BY <1>2, <2>4, <2>5, <2>6, ForkCopied DEF R, s
<1> QED BY <1>8, <1>9

-----------------------------------------------------------------------------
(* exec().  W(p) are the pages that are not of the image it builds.         *)

\* The old image, what stays if exec() fails, and the tables' names.
Old(p) == LET pt == proc[p].pagetable IN Parts(p, pt.gen, pt.tab, pt.leaf)
Kept(p) == Plus(Base(Others(p), p), Old(p))
W(p) == Plus(Kept(p), argv(p))
Gen(p) == proc[p].pagetable.gen
NewGen(p) == Other(Gen(p))

\* A process in exec(), or about to be.
LEMMA ExecSlot ==
  ASSUME NEW p \in Slot, TypeOK, Running, running(p)
  PROVE  /\ proc[p] \in Rec /\ proc[p].state = "RUNNING" /\ proc[p].trapframe = TRUE
         /\ proc[p].kpgtbl = Kernel /\ Gen(p) \in {"A", "B"} /\ Sized(proc[p].pagetable, proc[p].sz)
         /\ NewGen(p) \in {"A", "B"} /\ NewGen(p) # Gen(p)
         /\ alloc = Plus(Kept(p), Extra(p, proc[p]))
         /\ loading(p) => /\ proc[p].image.pt.gen = NewGen(p) /\ proc[p].image.sz <= MAXIMAGE
                          /\ Sized(proc[p].image.pt, proc[p].image.sz)
         /\ ~loading(p) => proc[p].image = NoImage
<1> DEFINE r == proc[p]
<1>1. r.state = "RUNNING" /\ r \in Rec
  BY RunningSlot
<1>2. Good(r)
  BY DEF Running, SlotOK
<1>3. r.trapframe \in BOOLEAN
  BY <1>1 DEF Rec
<1>4. r.trapframe = TRUE /\ r.kpgtbl = Kernel /\ r.pagetable.gen \in {"A", "B"}
      /\ Sized(r.pagetable, r.sz)
      /\ \/ r.image = NoImage
         \/ r.image.pt.gen = Other(r.pagetable.gen) /\ Sized(r.image.pt, r.image.sz)
            /\ r.image.sz <= MAXIMAGE
  BY <1>1, <1>2, <1>3 DEF Good
<1>5. Other(r.pagetable.gen) \in {"A", "B"} /\ Other(r.pagetable.gen) # r.pagetable.gen
  BY <1>4 DEF Other
<1>6. NoImage.pt.gen = ""
  BY DEF NoImage, Null
<1>7. alloc = Plus(Others(p), PageSet(p, r))
  BY SplitPages DEF Running
<1>8. r.pagetable.gen # ""
  BY <1>4
<1> HIDE DEF r
<1>9. alloc = Plus(Base(Others(p), p), Plus(Parts(p, r.pagetable.gen, r.pagetable.tab, r.pagetable.leaf),
                                            Extra(p, r)))
  BY <1>4, <1>7, <1>8, PagesUsed
<1>10. alloc = Plus(Kept(p), Extra(p, r))
  BY <1>9 DEF Plus, Kept, Old, r
<1>11. loading(p) <=> r.image.pt.gen # ""
  BY DEF loading, r
<1> QED BY <1>1, <1>4, <1>5, <1>6, <1>10, <1>11 DEF r, Gen, NewGen

\* The pages that exec() found are not of the image it builds.
LEMMA WApart ==
  ASSUME NEW p \in Slot, TypeOK, Running, running(p)
  PROVE  /\ Apart(W(p), p, NewGen(p)) /\ argv(p) \cap Kept(p) = {}
         /\ Apart(Base(Others(p), p), p, Gen(p)) /\ Apart(Base(Others(p), p), p, NewGen(p))
<1>1. NewGen(p) # Gen(p)
  BY ExecSlot
<1>2. \A g : Apart(Base(Others(p), p), p, g)
  BY OthersForeign, ForeignApart, BaseApart
<1>3. Apart(Old(p), p, NewGen(p))
  BY <1>1, PartsApart DEF Old, Gen
<1>4. Apart(argv(p), p, NewGen(p)) /\ argv(p) \cap Old(p) = {}
  BY ArgvApart DEF Old
<1>5. argv(p) \cap Base(Others(p), p) = {}
  BY OthersForeign, ArgvBase
<1>6. Apart(W(p), p, NewGen(p))
  BY <1>2, <1>3, <1>4, ApartPlus DEF W, Kept
<1>7. argv(p) \cap Kept(p) = {}
  BY <1>4, <1>5 DEF Kept, Plus
<1> QED BY <1>2, <1>6, <1>7

\* What the memory of the image holds before a step of exec().
LEMMA NewImageIs ==
  ASSUME NEW p \in Slot, NEW left, TypeOK
  PROVE  LET m == new_image(p, left) IN
         /\ Mem(m) /\ Self(m) = p /\ Alloc(m) = alloc /\ Room(m) = left /\ m.panic = ""
         /\ m.pt = proc[p].image.pt /\ Size(m) = proc[p].image.sz
         /\ m.trapframe = proc[p].trapframe /\ m.kpgtbl = proc[p].kpgtbl
<1> DEFINE k == memory(p, left)
           m == new_image(p, left)
<1>1. /\ Mem(k) /\ Self(k) = p /\ Alloc(k) = alloc /\ Room(k) = left /\ k.panic = ""
      /\ k.trapframe = proc[p].trapframe /\ k.kpgtbl = proc[p].kpgtbl
  BY MemoryIs
<1>2. proc[p].image.pt \in Table /\ proc[p].image.sz \in 0..MAXSZ
  BY Typed DEF Rec
<1>3. m = [k EXCEPT !.pt = proc[p].image.pt, !.sz = proc[p].image.sz]
  BY DEF new_image
<1> HIDE DEF k, m
<1>4. Mem(m)
  BY <1>1, <1>2, <1>3 DEF Mem
<1>5. m.p = k.p /\ m.alloc = k.alloc /\ m.left = k.left /\ m.panic = k.panic
      /\ m.pt = proc[p].image.pt /\ m.sz = proc[p].image.sz
      /\ m.trapframe = k.trapframe /\ m.kpgtbl = k.kpgtbl
  BY <1>1, <1>3 DEF Mem
<1> QED BY <1>1, <1>4, <1>5 DEF Self, Alloc, Room, Size, m

\* The image in the middle of exec().
LEMMA ImageHolds ==
  ASSUME NEW p \in Slot, NEW left, TypeOK, Running, running(p), loading(p)
  PROVE  LET m == new_image(p, left) IN
         /\ Holds(m, W(p), NewGen(p)) /\ Full(m, Size(m)) /\ Owns(m) /\ Self(m) = p
         /\ Size(m) = proc[p].image.sz
<1> DEFINE m == new_image(p, left)
           h == NewGen(p)
           i == proc[p].image.pt
<1>1. /\ Mem(m) /\ Self(m) = p /\ Alloc(m) = alloc /\ m.panic = ""
      /\ m.pt = i /\ Size(m) = proc[p].image.sz
      /\ m.trapframe = proc[p].trapframe /\ m.kpgtbl = proc[p].kpgtbl
  BY NewImageIs
<1>2. /\ proc[p].trapframe = TRUE /\ proc[p].kpgtbl = Kernel /\ h \in {"A", "B"} /\ i.gen = h
      /\ Sized(i, proc[p].image.sz) /\ alloc = Plus(Kept(p), Extra(p, proc[p]))
  BY ExecSlot
<1>3. Extra(p, proc[p]) = TablePages(p, i) \cup argv(p)
  BY DEF Extra, loading
<1>4. i.gen # ""
  BY DEF loading
<1> HIDE DEF m, h, i
<1>5. TablePages(p, i) = Parts(p, h, Tab(m), Leaf(m))
  <2>1. TablePages(p, i) = Parts(p, i.gen, i.tab, i.leaf)
    BY <1>4, TableParts
  <2>2. i.gen = h /\ i.tab = Tab(m) /\ i.leaf = Leaf(m)
    BY <1>1, <1>2 DEF Tab, Leaf
  <2> QED BY <2>1, <2>2
<1>6. Alloc(m) = Plus(W(p), Parts(p, h, Tab(m), Leaf(m)))
  BY <1>1, <1>2, <1>3, <1>5 DEF W, Plus
<1>7. Apart(W(p), p, h)
  BY WApart DEF h
<1>8. m.pt.gen = h /\ h \in {"A", "B"}
  BY <1>1, <1>2
<1>9. Holds(m, W(p), h)
  BY <1>1, <1>6, <1>7, <1>8 DEF Holds
<1>10. Full(m, Size(m))
  BY <1>1, <1>2, <1>4 DEF Full, Sized, Leaf, Top
<1>11. Owns(m)
  BY <1>1, <1>2 DEF Owns
<1> QED BY <1>1, <1>9, <1>10, <1>11 DEF m, h

\* The record that built() writes.
WithImage(r, pt, sz) == [r EXCEPT !.image = [pt |-> pt, sz |-> sz]]

\* r and q differ in the image only.
SameButImage(r, q) ==
  /\ q.state = r.state /\ q.lock = r.lock /\ q.trapframe = r.trapframe
  /\ q.kpgtbl = r.kpgtbl /\ q.pagetable = r.pagetable /\ q.sz = r.sz

\* The record with a new image.
LEMMA WithImageIs ==
  ASSUME NEW r \in Rec, NEW pt \in Table, NEW sz \in 0..MAXSZ
  PROVE  /\ WithImage(r, pt, sz) \in Rec /\ WithImage(r, pt, sz).image = [pt |-> pt, sz |-> sz]
         /\ SameButImage(r, WithImage(r, pt, sz))
<1>1. [pt |-> pt, sz |-> sz] \in [pt : Table, sz : 0..MAXSZ]
  OBVIOUS
<1> QED BY <1>1 DEF WithImage, Rec, SameButImage

\* What a step of exec() changes.
LEMMA BuiltIs ==
  ASSUME NEW p \in Slot, NEW n, TypeOK, Self(n) = p, built(n)
  PROVE  proc' = [proc EXCEPT ![p] = WithImage(proc[p], n.pt, n.sz)]
         /\ alloc' = Alloc(n) /\ panicked' = n.panic /\ cpu' = cpu
<1>1. proc' = [proc EXCEPT ![p].image = [pt |-> n.pt, sz |-> n.sz]]
  BY DEF built, Self
<1>2. proc \in [Slot -> Rec]
  BY Typed
<1>3. proc' = [proc EXCEPT ![p] = WithImage(proc[p], n.pt, n.sz)]
  BY <1>1, <1>2 DEF WithImage
<1> QED BY <1>3 DEF built, Alloc

\* A step of exec() that leaves an image.
LEMMA BuiltHeld ==
  ASSUME NEW p \in Slot, NEW n, TypeOK, Running, running(p), Self(n) = p,
         Holds(n, W(p), NewGen(p)), Full(n, Size(n)), Size(n) <= MAXIMAGE, built(n)
  PROVE  Inv'
<1> DEFINE q == WithImage(proc[p], n.pt, n.sz)
           h == NewGen(p)
<1>1. Mem(n) /\ n.panic = "" /\ n.pt.gen = h /\ h \in {"A", "B"}
      /\ Alloc(n) = Plus(W(p), Parts(p, h, Tab(n), Leaf(n)))
  BY DEF Holds
<1>2. n.pt \in Table /\ n.sz \in 0..MAXSZ
  BY <1>1 DEF Mem
<1>3. /\ proc[p] \in Rec /\ proc[p].state = "RUNNING" /\ proc[p].trapframe = TRUE
      /\ proc[p].kpgtbl = Kernel /\ Gen(p) \in {"A", "B"} /\ Sized(proc[p].pagetable, proc[p].sz)
  BY ExecSlot
<1>4. proc' = [proc EXCEPT ![p] = q] /\ alloc' = Alloc(n) /\ panicked' = "" /\ cpu' = cpu
  BY <1>1, BuiltIs
<1>5. /\ q \in Rec /\ q.image.pt = n.pt /\ q.image.sz = n.sz
      /\ q.state = proc[p].state /\ q.lock = proc[p].lock /\ q.trapframe = proc[p].trapframe
      /\ q.kpgtbl = proc[p].kpgtbl /\ q.pagetable = proc[p].pagetable /\ q.sz = proc[p].sz
  <2>1. proc[p] \in Rec
    BY Typed
  <2>2. q \in Rec /\ q.image = [pt |-> n.pt, sz |-> n.sz] /\ SameButImage(proc[p], q)
    BY <1>2, <2>1, WithImageIs
  <2> HIDE DEF q
  <2> QED BY <2>2 DEF SameButImage
<1> HIDE DEF q
<1>6. Good(q)
  <2>1. Sized(q.image.pt, q.image.sz) /\ q.image.sz <= MAXIMAGE
    BY <1>5 DEF Sized, Full, Leaf, Size, Top
  <2>2. q.image.pt.gen = Other(q.pagetable.gen)
    BY <1>1, <1>5 DEF NewGen, Gen
  <2>3. q.pagetable.gen \in {"A", "B"} /\ Sized(q.pagetable, q.sz) /\ q.kpgtbl = Kernel /\ q.trapframe
    BY <1>3, <1>5 DEF Gen
  <2>4. q.state = "RUNNING"
    BY <1>3, <1>5
  <2> QED BY <2>1, <2>2, <2>3, <2>4 DEF Good
<1>7. alloc' = Plus(Others(p), PageSet(p, q))
  <2>1. q.pagetable.gen # "" /\ q.image.pt.gen # "" /\ q.image.pt.gen = h
    BY <1>1, <1>3, <1>5 DEF Gen
  <2>2. Parts(p, q.pagetable.gen, q.pagetable.tab, q.pagetable.leaf) = Old(p)
    BY <1>5 DEF Old
  <2>3. q.trapframe = TRUE /\ q.kpgtbl = Kernel
    BY <1>3, <1>5
  <2>4. Plus(Others(p), PageSet(p, q)) = Plus(Base(Others(p), p), Plus(Old(p), Extra(p, q)))
    BY <2>1, <2>2, <2>3, PagesUsed
  <2>5. TablePages(p, q.image.pt) = Parts(p, h, Tab(n), Leaf(n))
    <3>1. q.image.pt.tab = Tab(n) /\ q.image.pt.leaf = Leaf(n)
      BY <1>5 DEF Tab, Leaf
    <3> QED BY <2>1, <3>1, TableParts
  <2>6. Extra(p, q) = Parts(p, h, Tab(n), Leaf(n)) \cup argv(p)
    BY <2>1, <2>5 DEF Extra
  <2>7. alloc' = Plus(W(p), Parts(p, h, Tab(n), Leaf(n)))
    BY <1>1, <1>4
  <2> HIDE DEF h
  <2> QED BY <2>4, <2>6, <2>7 DEF Plus, W, Kept
<1>8. q.state = proc[p].state /\ q.lock = proc[p].lock
  BY <1>5
<1> QED BY <1>4, <1>5, <1>6, <1>7, <1>8, SlotStep

\* A step of exec() that leaves none.
LEMMA BuiltNone ==
  ASSUME NEW p \in Slot, NEW n, TypeOK, Running, running(p), Self(n) = p,
         Alloc(n) = Kept(p), n.panic = "", n.pt = Null, n.sz = 0, built(n)
  PROVE  Inv'
<1> DEFINE q == WithImage(proc[p], Null, 0)
<1>1. Null \in Table /\ 0 \in 0..MAXSZ
  BY NullType
<1>2. /\ proc[p] \in Rec /\ proc[p].state = "RUNNING" /\ proc[p].trapframe = TRUE
      /\ proc[p].kpgtbl = Kernel /\ Gen(p) \in {"A", "B"} /\ Sized(proc[p].pagetable, proc[p].sz)
  BY ExecSlot
<1>3. proc' = [proc EXCEPT ![p] = q] /\ alloc' = Kept(p) /\ panicked' = "" /\ cpu' = cpu
  BY BuiltIs
<1>4. /\ q \in Rec /\ q.image = [pt |-> Null, sz |-> 0]
      /\ q.state = proc[p].state /\ q.lock = proc[p].lock /\ q.trapframe = proc[p].trapframe
      /\ q.kpgtbl = proc[p].kpgtbl /\ q.pagetable = proc[p].pagetable /\ q.sz = proc[p].sz
  <2>1. proc[p] \in Rec
    BY Typed
  <2>2. q \in Rec /\ q.image = [pt |-> Null, sz |-> 0] /\ SameButImage(proc[p], q)
    BY <1>1, <2>1, WithImageIs
  <2> HIDE DEF q
  <2> QED BY <2>2 DEF SameButImage
<1>5. q.image = NoImage
  BY <1>4 DEF NoImage
<1> HIDE DEF q
<1>6. Good(q)
  <2>1. q.pagetable.gen \in {"A", "B"} /\ Sized(q.pagetable, q.sz) /\ q.kpgtbl = Kernel /\ q.trapframe
    BY <1>2, <1>4 DEF Gen
  <2>2. q.state = "RUNNING"
    BY <1>2, <1>4
  <2> QED BY <1>5, <2>1, <2>2 DEF Good
<1>7. alloc' = Plus(Others(p), PageSet(p, q))
  <2>1. q.pagetable.gen # ""
    BY <1>2, <1>4 DEF Gen
  <2>2. Parts(p, q.pagetable.gen, q.pagetable.tab, q.pagetable.leaf) = Old(p)
    BY <1>4 DEF Old
  <2>3. q.trapframe = TRUE /\ q.kpgtbl = Kernel
    BY <1>2, <1>4
  <2>4. Extra(p, q) = {}
    BY <1>5, NoExtra
  <2>5. Plus(Others(p), PageSet(p, q)) = Plus(Base(Others(p), p), Plus(Old(p), {}))
    BY <2>1, <2>2, <2>3, <2>4, PagesUsed
  <2> QED BY <1>3, <2>5 DEF Plus, Kept
<1>8. q.state = proc[p].state /\ q.lock = proc[p].lock
  BY <1>4
<1> QED BY <1>3, <1>4, <1>6, <1>7, <1>8, SlotStep

\* kfree() of the argument strings.
LEMMA FreeArgv ==
  ASSUME NEW p \in Slot, NEW d, NEW K, Mem(d), d.panic = "", Self(d) = p,
         Alloc(d) = Plus(K, argv(p)), argv(p) \cap K = {}
  PROVE  LET f == kfree(d, argv(p)) IN
         /\ f = [d EXCEPT !.alloc = K] /\ Mem(f) /\ Alloc(f) = K /\ Same(d, f)
         /\ f.panic = "" /\ f.pt = d.pt
<1> DEFINE f == kfree(d, argv(p))
           S == argv(p)
<1>1. S \subseteq d.alloc /\ d.alloc \ S = K
  BY DEF Alloc, Plus
<1>2. f = [d EXCEPT !.alloc = K]
  <2> HIDE DEF S
  <2>1. f = kfree(d, S)
    BY DEF S
  <2> HIDE DEF f
  <2> QED BY <1>1, <2>1 DEF kfree, Mem
<1> HIDE DEF f
<1>3. Mem(f)
  BY <1>2 DEF Mem
<1>4. f.alloc = K /\ f.panic = d.panic /\ f.pt = d.pt /\ f.p = d.p /\ f.sz = d.sz
      /\ f.trapframe = d.trapframe /\ f.kpgtbl = d.kpgtbl
  BY <1>2 DEF Mem
<1> QED BY <1>2, <1>3, <1>4 DEF Alloc, Same, Self, Size, f

\* "bad:" of exec() gives the image and the argument strings back.
LEMMA ExecBad ==
  ASSUME NEW p \in Slot, NEW n, TypeOK, Running, running(p), Self(n) = p,
         (Holds(n, W(p), NewGen(p)) /\ Full(n, Size(n))) \/ Freed(n, n, W(p)), exec_bad(n)
  PROVE  Inv'
<1> DEFINE d == drop_image(n)
           f == kfree(d, argv(p))
           b == [f EXCEPT !.sz = 0]
<1>1. Freed(n, d, W(p))
  <2>1. CASE Holds(n, W(p), NewGen(p)) /\ Full(n, Size(n))
    <3>1. n.pt.gen # ""
      BY <2>1 DEF Holds
    <3>2. d = proc_freepagetable(n)
      BY <3>1 DEF drop_image
    <3> QED BY <2>1, <3>2, FreePagetable
  <2>2. CASE Freed(n, n, W(p))
    <3>1. n.pt = Null /\ Null.gen = ""
      BY <2>2 DEF Freed, Null
    <3>2. d = n
      BY <3>1 DEF drop_image
    <3> QED BY <2>2, <3>2
  <2> QED BY <2>1, <2>2
<1>2. built(b)
  BY DEF exec_bad, Self
<1> HIDE DEF d
<1>3. Mem(d) /\ d.panic = "" /\ d.pt = Null /\ Alloc(d) = Plus(Kept(p), argv(p)) /\ Self(d) = p
  BY <1>1 DEF Freed, Same, W, Alloc
<1>4. argv(p) \cap Kept(p) = {}
  BY WApart
<1>5. Mem(f) /\ Alloc(f) = Kept(p) /\ Same(d, f) /\ f.panic = "" /\ f.pt = Null
  BY <1>3, <1>4, FreeArgv
<1> HIDE DEF f
<1>6. b.alloc = f.alloc /\ b.panic = f.panic /\ b.pt = f.pt /\ b.sz = 0 /\ b.p = f.p
  BY <1>5 DEF Mem
<1> HIDE DEF b
<1>7. Alloc(b) = Kept(p) /\ b.panic = "" /\ b.pt = Null /\ b.sz = 0 /\ Self(b) = p
  BY <1>3, <1>5, <1>6 DEF Alloc, Self, Same
<1> QED BY <1>2, <1>7, BuiltNone

\* There is room for the stack above every image.
LEMMA ImageMax ==
  /\ MAXIMAGE \in Nat /\ PGSIZE \in Nat /\ PGSIZE > 0 /\ MAXSZ = MAXIMAGE + 2 * PGSIZE
  /\ 2 * PGSIZE \in Nat
<1>1. MAXPG \in Nat /\ PGSIZE \in Nat /\ PGSIZE > 0 /\ MAXPG - 2 \in Nat
  BY VmConstants
<1>2. (MAXPG - 2) * PGSIZE \in Nat
  BY <1>1
<1>3. MAXPG * PGSIZE = (MAXPG - 2) * PGSIZE + 2 * PGSIZE
  BY <1>1
<1> QED BY <1>1, <1>2, <1>3 DEF MAXIMAGE, MAXSZ

\* The argument strings, before exec() has an image.
LEMMA ArgvCopied ==
  ASSUME NEW p \in Slot, NEW left \in Nat, TypeOK, Running, calls(p), left >= NARG
  PROVE  LET m == argv_copied(new_image(p, left)) IN
         /\ Freed(m, m, W(p)) /\ Size(m) = 0 /\ Self(m) = p /\ Room(m) \in Nat
<1> DEFINE k == new_image(p, left)
           m == argv_copied(k)
           A == k.alloc \cup argv(p)
           l == k.left - NARG
<1>0. running(p) /\ ~loading(p)
  BY DEF calls
<1>1. /\ Mem(k) /\ Self(k) = p /\ Alloc(k) = alloc /\ Room(k) = left /\ k.panic = ""
      /\ k.pt = proc[p].image.pt /\ Size(k) = proc[p].image.sz
  BY NewImageIs
<1>2. proc[p].image = NoImage /\ alloc = Plus(Kept(p), Extra(p, proc[p]))
  BY <1>0, ExecSlot
<1>3. NoImage.pt = Null /\ NoImage.sz = 0
  BY DEF NoImage
<1>4. Extra(p, proc[p]) = {}
  BY <1>2, NoExtra
<1> HIDE DEF k
<1>5. m = [k EXCEPT !.alloc = A, !.left = l]
  BY <1>1 DEF argv_copied, Self
<1>6. A = W(p)
  BY <1>1, <1>2, <1>4 DEF W, Plus, Alloc
<1>7. l \in Nat
  <2>1. k.left = left /\ NARG \in Nat
    BY <1>1, VmConstants DEF Room
  <2> QED BY <2>1
<1> HIDE DEF m, A, l
<1>8. Mem(m)
  BY <1>1, <1>5 DEF Mem
<1>9. m.alloc = A /\ m.left = l /\ m.panic = k.panic /\ m.pt = k.pt /\ m.sz = k.sz /\ m.p = k.p
  BY <1>1, <1>5 DEF Mem
<1>10. m.pt = Null /\ m.sz = 0
  BY <1>1, <1>2, <1>3, <1>9 DEF Size
<1>11. Same(m, m)
  BY DEF Same
<1>12. Freed(m, m, W(p))
  BY <1>1, <1>6, <1>8, <1>9, <1>10, <1>11 DEF Freed
<1>13. Self(m) = p /\ Size(m) = 0
  BY <1>1, <1>9, <1>10 DEF Size, Self
<1>14. Room(m) \in Nat
  BY <1>7, <1>9 DEF Room
<1> QED BY <1>12, <1>13, <1>14 DEF m, k

\* sys_exec() with the page table of the new image, or its failure.
LEMMA SysExecStep ==
  ASSUME NEW p \in Slot, TypeOK, Running, sys_exec(p)
  PROVE  Inv'
<1>1. PICK magic \in BOOLEAN, left \in Left :
        LET m == argv_copied(new_image(p, left)) IN
        /\ calls(p) /\ left >= NARG
        /\ IF magic THEN exec_pagetable(proc_pagetable(m, IF proc[p].pagetable.gen = "A" THEN "B" ELSE "A"))
           ELSE exec_bad(m)
  BY DEF sys_exec
<1> DEFINE m == argv_copied(new_image(p, left))
           h == NewGen(p)
           q == proc_pagetable(m, h)
<1>2. calls(p) /\ left >= NARG /\ (exec_pagetable(q) \/ exec_bad(m))
  BY <1>1 DEF NewGen, Other, Gen
<1>3. running(p)
  BY <1>2 DEF calls
<1>4. Freed(m, m, W(p)) /\ Size(m) = 0 /\ Self(m) = p /\ Room(m) \in Nat
  BY <1>2, LeftType, ArgvCopied
<1> HIDE DEF m
<1>5. CASE exec_bad(m)
  BY <1>3, <1>4, <1>5, ExecBad
<1>6. CASE exec_pagetable(q)
  <2>1. Apart(W(p), p, h) /\ h \in {"A", "B"}
    BY <1>3, WApart, ExecSlot
  <2>2. Blank(m, W(p), h)
    BY <1>4, <2>1 DEF Blank, Freed, Size
  <2> HIDE DEF h
  <2>3. Made(q, W(p), h) /\ Same(m, q)
    BY <1>4, <2>2, ProcPagetable
  <2>4. Self(q) = p /\ Size(q) = 0
    BY <1>4, <2>3 DEF Same
  <2> HIDE DEF q
  <2>5. CASE Ok(q)
    <3>1. built(q)
      BY <1>6, <2>5 DEF exec_pagetable, Ok
    <3>2. Holds(q, W(p), h) /\ Full(q, Size(q))
      BY <2>3, <2>4, <2>5 DEF Made
    <3>3. Size(q) <= MAXIMAGE
      BY <2>4, ImageMax
    <3> QED BY <1>3, <2>4, <3>1, <3>2, <3>3, BuiltHeld DEF h
  <2>6. CASE ~Ok(q)
    <3>1. exec_bad(q)
      BY <1>6, <2>6 DEF exec_pagetable, Ok
    <3>2. Freed(q, q, W(p))
      BY <2>3, <2>6 DEF Made
    <3> QED BY <1>3, <2>4, <3>1, <3>2, ExecBad
  <2> QED BY <2>5, <2>6
<1> QED BY <1>2, <1>5, <1>6

\* A segment that is loaded, or the end of exec().
LEMMA SegmentStep ==
  ASSUME NEW p \in Slot, TypeOK, Running, exec_segment(p)
  PROVE  Inv'
<1>1. PICK end \in END, load \in BOOLEAN, left \in Left :
        LET m == new_image(p, left) IN
        /\ running(p) /\ loading(p)
        /\ exec_grown(uvmalloc(m, m.sz, end), IF end < m.sz THEN m.sz ELSE end, load)
  BY DEF exec_segment
<1> DEFINE m == new_image(p, left)
           old == Size(m)
           u == uvmalloc(m, old, end)
           s == IF end < old THEN old ELSE end
           h == NewGen(p)
<1>2. running(p) /\ loading(p) /\ exec_grown(u, s, load)
  BY <1>1 DEF Size
<1>3. Holds(m, W(p), h) /\ Full(m, old) /\ Self(m) = p /\ old = proc[p].image.sz
  BY <1>2, ImageHolds
<1>4. Room(m) \in Nat
  BY NewImageIs, LeftType
<1>5. old \in Nat /\ end \in Nat /\ s \in 0..MAXSZ /\ s <= MAXIMAGE /\ s \in Nat
  <2>1. old \in Nat /\ old <= MAXIMAGE
    <3>1. proc[p].image.sz <= MAXIMAGE
      BY <1>2, ExecSlot
    <3>2. old \in Nat
      BY <1>3, SizeType
    <3> QED BY <1>3, <3>1, <3>2
  <2>2. end \in 0..MAXIMAGE
    BY VmConstants DEF MAXIMAGE
  <2> HIDE DEF old
  <2> QED BY <2>1, <2>2, ImageMax
<1> HIDE DEF m, h, old
<1>6. /\ Holds(u, W(p), h) /\ Same(m, u)
      /\ Ok(u) => Full(u, s)
      /\ ~Ok(u) => Full(u, old)
  BY <1>3, <1>4, <1>5, Uvmalloc
<1>7. Self(u) = p /\ Size(u) = old
  BY <1>3, <1>6 DEF Same, old
<1> HIDE DEF u
<1>8. CASE ~Ok(u)
  <2>1. exec_bad(u)
    BY <1>2, <1>8 DEF exec_grown, Ok
  <2>2. Full(u, Size(u))
    BY <1>6, <1>7, <1>8
  <2> QED BY <1>2, <1>6, <1>7, <2>1, <2>2, ExecBad DEF h
<1>9. CASE Ok(u) /\ s = 0
  <2>1. exec_bad(u)
    BY <1>2, <1>9 DEF exec_grown
  <2>2. old = 0
    BY <1>5, <1>9
  <2>3. Full(u, Size(u))
    BY <1>6, <1>7, <1>9, <2>2
  <2> QED BY <1>2, <1>6, <1>7, <2>1, <2>3, ExecBad DEF h
<1>10. CASE Ok(u) /\ s # 0
  <2> DEFINE y == Resized(u, s)
  <2>1. built(y) \/ exec_bad(y)
    BY <1>2, <1>10 DEF exec_grown, Ok, Resized
  <2> HIDE DEF s
  <2>2. Holds(y, W(p), h) /\ Leaf(y) = Leaf(u) /\ Size(y) = s /\ Self(y) = p
    BY <1>5, <1>6, <1>7, Resize
  <2>3. Full(y, Size(y))
    BY <1>6, <1>10, <2>2 DEF Full
  <2>4. Size(y) <= MAXIMAGE
    BY <1>5, <2>2
  <2> HIDE DEF y
  <2> QED BY <1>2, <2>1, <2>2, <2>3, <2>4, BuiltHeld, ExecBad DEF h
<1> QED BY <1>8, <1>9, <1>10

\* The size at which exec() puts the stack.
LEMMA StackFits ==
  ASSUME NEW s \in Nat, s <= MAXIMAGE
  PROVE  /\ PGROUNDUP(s) \in Nat /\ PGROUNDUP(s) \in 0..MAXSZ /\ PGROUNDUP(s) <= MAXIMAGE
         /\ PGROUNDUP(s) + 2 * PGSIZE \in 0..MAXSZ
<1>1. PICK k \in Nat : PGROUNDUP(s) = k * PGSIZE /\ k * PGSIZE >= s /\ k * PGSIZE < s + PGSIZE
  BY RoundUp
<1>2. MAXPG - 1 \in Int /\ PGSIZE \in Nat /\ PGSIZE > 0
  BY VmConstants
<1>3. (MAXPG - 1) * PGSIZE = MAXIMAGE + PGSIZE
  BY <1>2, VmConstants DEF MAXIMAGE
<1>4. k * PGSIZE \in Nat
  BY <1>2
<1>5. k * PGSIZE < (MAXPG - 1) * PGSIZE
  BY <1>1, <1>2, <1>3, <1>4, ImageMax
<1>6. k < MAXPG - 1
  BY <1>2, <1>5, TimesMonotone
<1>7. ~(MAXPG - 2 < k)
  BY <1>2, <1>6, VmConstants
<1>8. ~((MAXPG - 2) * PGSIZE < k * PGSIZE)
  BY <1>2, <1>7, VmConstants, TimesMonotone
<1>9. k * PGSIZE <= MAXIMAGE
  BY <1>4, <1>8, ImageMax DEF MAXIMAGE
<1> QED BY <1>1, <1>4, <1>9, ImageMax

\* exec() puts the new image in the place of the old one, whose pages it frees.
LEMMA Commit ==
  ASSUME NEW p \in Slot, NEW n, TypeOK, Running, running(p), Self(n) = p, Owns(n),
         Holds(n, W(p), NewGen(p)), Full(n, Size(n)), commit(n)
  PROVE  Inv'
<1> DEFINE g == Gen(p)
           h == NewGen(p)
           r == proc[p]
           New == Parts(p, h, Tab(n), Leaf(n))
           K == Plus(Base(Others(p), p), New)
           V == Plus(K, argv(p))
           x == [n EXCEPT !.pt = r.pagetable, !.sz = r.sz]
           o == proc_freepagetable(x)
           f == kfree(o, argv(p))
           y == [f EXCEPT !.pt = n.pt, !.sz = n.sz]
           q == [r EXCEPT !.image = NoImage]
<1>1. left_with(y, q)
  BY DEF commit, Self
<1>2. Mem(n) /\ n.panic = "" /\ n.pt.gen = h /\ h \in {"A", "B"} /\ Alloc(n) = Plus(W(p), New)
  BY DEF Holds
<1>3. /\ r \in Rec /\ r.state = "RUNNING" /\ g \in {"A", "B"} /\ Sized(r.pagetable, r.sz)
      /\ h # g
  BY ExecSlot
<1>4. r.pagetable \in Table /\ r.sz \in 0..MAXSZ /\ r.pagetable.gen = g
  BY <1>3 DEF Rec, Gen
<1>5. Apart(Base(Others(p), p), p, g) /\ Apart(Base(Others(p), p), p, h)
  BY WApart
<1>6. q \in Rec /\ q.image = NoImage /\ q.state = r.state /\ q.lock = r.lock
  <2>1. NoImage \in [pt : Table, sz : 0..MAXSZ]
    BY NullType DEF NoImage
  <2>2. r \in Rec
    BY <1>3
  <2> HIDE DEF r
  <2> QED BY <2>1, <2>2 DEF Rec
<1> HIDE DEF q
<1>7. Apart(New, p, g) /\ argv(p) \cap New = {} /\ Apart(argv(p), p, g)
  <2>1. g # h
    BY <1>3
  <2> QED BY <2>1, PartsApart, ArgvApart
<1>8. argv(p) \cap Base(Others(p), p) = {}
  BY OthersForeign, ArgvBase
<1> HIDE DEF New, g, h
<1>9. Apart(V, p, g)
  BY <1>5, <1>7, ApartPlus
<1>10. argv(p) \cap K = {}
  BY <1>7, <1>8 DEF Plus
<1>11. Alloc(n) = Plus(V, Old(p))
  BY <1>2 DEF W, Kept, Plus
<1> HIDE DEF K
<1>12. x.p = n.p /\ x.alloc = n.alloc /\ x.panic = n.panic /\ x.pt = r.pagetable /\ x.sz = r.sz
       /\ x.trapframe = n.trapframe /\ x.kpgtbl = n.kpgtbl
  BY <1>2 DEF Mem
<1>13. Mem(x)
  <2>1. x = [n EXCEPT !.pt = r.pagetable, !.sz = r.sz] /\ Mem(n)
    BY <1>2
  <2>2. r.pagetable \in Table /\ r.sz \in 0..MAXSZ
    BY <1>4
  <2> HIDE DEF x, r
  <2> QED BY <2>1, <2>2 DEF Mem
<1> HIDE DEF x
<1>14. Self(x) = p /\ Alloc(x) = Alloc(n) /\ Size(x) = r.sz /\ Tab(x) = r.pagetable.tab
       /\ Leaf(x) = r.pagetable.leaf
  BY <1>12 DEF Self, Alloc, Size, Tab, Leaf
<1>15. Holds(x, V, g)
  <2>1. Old(p) = Parts(p, g, Tab(x), Leaf(x))
    BY <1>4, <1>14 DEF Old
  <2>2. Alloc(x) = Plus(V, Parts(Self(x), g, Tab(x), Leaf(x)))
    BY <1>11, <1>14, <2>1
  <2>3. x.panic = "" /\ x.pt.gen = g /\ g \in {"A", "B"}
    BY <1>2, <1>3, <1>4, <1>12
  <2> HIDE DEF V
  <2> QED BY <1>9, <1>13, <1>14, <2>2, <2>3 DEF Holds
<1>16. Full(x, Size(x))
  <2>1. r.pagetable.gen # ""
    BY <1>3, <1>4
  <2> QED BY <1>3, <1>14, <2>1 DEF Full, Sized, Top
<1> HIDE DEF V, r
<1>17. Freed(x, o, V)
  BY <1>15, <1>16, FreePagetable
<1> HIDE DEF o
<1>18. Mem(o) /\ o.panic = "" /\ Self(o) = p /\ Alloc(o) = Plus(K, argv(p)) /\ Owns(o)
  <2>1. Mem(o) /\ o.panic = "" /\ Self(o) = Self(x) /\ Alloc(o) = V /\ Same(x, o)
    BY <1>17 DEF Freed, Same, Alloc
  <2>2. Owns(x)
    BY <1>12 DEF Owns
  <2> QED BY <1>14, <2>1, <2>2, OwnsSame DEF V
<1>19. Mem(f) /\ Alloc(f) = K /\ Same(o, f) /\ f.panic = ""
  BY <1>10, <1>18, FreeArgv
<1>20. Owns(f)
  BY <1>18, <1>19, OwnsSame
<1> HIDE DEF f
<1>21. y.p = f.p /\ y.alloc = f.alloc /\ y.panic = f.panic /\ y.pt = n.pt /\ y.sz = n.sz
       /\ y.trapframe = f.trapframe /\ y.kpgtbl = f.kpgtbl
  BY <1>19 DEF Mem
<1>22. Mem(y)
  <2>1. y = [f EXCEPT !.pt = n.pt, !.sz = n.sz] /\ Mem(f)
    BY <1>19
  <2>2. n.pt \in Table /\ n.sz \in 0..MAXSZ
    BY <1>2 DEF Mem
  <2> HIDE DEF y
  <2> QED BY <2>1, <2>2 DEF Mem
<1> HIDE DEF y
<1>23. Self(y) = p /\ Alloc(y) = K /\ Size(y) = Size(n) /\ Tab(y) = Tab(n) /\ Leaf(y) = Leaf(n)
       /\ Owns(y)
  BY <1>18, <1>19, <1>20, <1>21 DEF Self, Alloc, Size, Tab, Leaf, Owns, Same
<1>24. Holds(y, Base(Others(p), p), h)
  <2>1. Alloc(y) = Plus(Base(Others(p), p), Parts(Self(y), h, Tab(y), Leaf(y)))
    BY <1>23 DEF K, New
  <2>2. y.panic = "" /\ y.pt.gen = h /\ h \in {"A", "B"}
    BY <1>2, <1>19, <1>21
  <2> QED BY <1>5, <1>22, <1>23, <2>1, <2>2 DEF Holds
<1>25. Full(y, Size(y))
  BY <1>23 DEF Full
<1>26. q.state # "UNUSED" /\ q.state = proc[p].state /\ q.lock = proc[p].lock
  BY <1>3, <1>6 DEF r
<1> QED BY <1>1, <1>6, <1>23, <1>24, <1>25, <1>26, LeftHeld

\* exec() after the last segment.
LEMMA ExecStep ==
  ASSUME NEW p \in Slot, TypeOK, Running, exec(p)
  PROVE  Inv'
<1>1. PICK args \in BOOLEAN, left \in Left :
        /\ running(p) /\ loading(p)
        /\ exec_loaded([new_image(p, left) EXCEPT !.sz = PGROUNDUP(@)], args)
  BY DEF exec
<1> DEFINE k == new_image(p, left)
           s == Size(k)
           e == PGROUNDUP(s)
           m == Resized(k, e)
           t == e + 2 * PGSIZE
           u == uvmalloc(m, e, t)
           h == NewGen(p)
<1>2. Holds(k, W(p), h) /\ Full(k, s) /\ Owns(k) /\ Self(k) = p /\ s = proc[p].image.sz
  BY <1>1, ImageHolds
<1>3. Room(k) \in Nat
  BY NewImageIs, LeftType
<1>4. s \in Nat /\ s <= MAXIMAGE
  <2>1. proc[p].image.sz <= MAXIMAGE
    BY <1>1, ExecSlot
  <2>2. s \in Nat
    BY <1>2, SizeType
  <2> QED BY <1>2, <2>1, <2>2
<1>5. e \in Nat /\ e \in 0..MAXSZ /\ e <= MAXIMAGE /\ t \in 0..MAXSZ /\ t \in Nat /\ ~(t < e)
  <2> HIDE DEF s
  <2>1. e \in Nat /\ e \in 0..MAXSZ /\ e <= MAXIMAGE /\ t \in 0..MAXSZ
    BY <1>4, StackFits
  <2> HIDE DEF e
  <2> QED BY <2>1, ImageMax
<1>6. exec_loaded(m, args)
  <2>1. [k EXCEPT !.sz = PGROUNDUP(@)] = [k EXCEPT !.sz = PGROUNDUP(k.sz)]
    BY <1>2 DEF Holds, Mem
  <2> QED BY <1>1, <2>1 DEF Resized, Size
<1> HIDE DEF k, h
<1>7. Pages(0, e) = Pages(0, s)
  BY <1>4, PagesBetween
<1> HIDE DEF e
<1>8. Holds(m, W(p), h) /\ Leaf(m) = Leaf(k) /\ Size(m) = e /\ Self(m) = p /\ Room(m) \in Nat /\ Owns(m)
  BY <1>2, <1>3, <1>5, Resize
<1>9. Full(m, e)
  BY <1>2, <1>7, <1>8 DEF Full
<1>10. exec_stack(u, args)
  <2>1. m.sz = e
    BY <1>8 DEF Size
  <2> HIDE DEF m
  <2> QED BY <1>6, <2>1 DEF exec_loaded
<1> HIDE DEF m, t
<1>11. /\ Holds(u, W(p), h) /\ Same(m, u)
       /\ Ok(u) => Full(u, t)
       /\ ~Ok(u) => Full(u, e)
  BY <1>5, <1>8, <1>9, Uvmalloc
<1>12. Self(u) = p /\ Size(u) = e /\ Owns(u)
  BY <1>8, <1>11, OwnsSame DEF Same
<1> HIDE DEF u
<1>13. CASE ~Ok(u)
  <2>1. exec_bad(u)
    BY <1>10, <1>13 DEF exec_stack, Ok
  <2>2. Full(u, Size(u))
    BY <1>11, <1>12, <1>13
  <2> QED BY <1>1, <1>11, <1>12, <2>1, <2>2, ExecBad DEF h
<1>14. CASE Ok(u)
  <2> DEFINE y == Resized(u, t)
  <2>1. commit(y) \/ exec_bad(y)
    <3>1. [u EXCEPT !.sz = @ + 2 * PGSIZE] = y
      <4>1. u.sz = e /\ Mem(u)
        BY <1>11, <1>12 DEF Size, Holds
      <4> QED BY <4>1 DEF Resized, t, Mem
    <3> HIDE DEF y
    <3> QED BY <1>10, <1>14, <3>1 DEF exec_stack, Ok
  <2>2. Holds(y, W(p), h) /\ Leaf(y) = Leaf(u) /\ Size(y) = t /\ Self(y) = p /\ Owns(y)
    BY <1>5, <1>11, <1>12, Resize
  <2>3. Full(y, Size(y))
    BY <1>11, <1>14, <2>2 DEF Full
  <2> HIDE DEF y
  <2> QED BY <1>1, <2>1, <2>2, <2>3, Commit, ExecBad DEF h
<1> QED BY <1>13, <1>14

-----------------------------------------------------------------------------
(* The steps of a CPU.                                                      *)

\* The record of a process whose state and lock change, not its memory.
Memo(r, q) ==
  /\ q.trapframe = r.trapframe /\ q.kpgtbl = r.kpgtbl /\ q.pagetable = r.pagetable
  /\ q.sz = r.sz /\ q.image = r.image
Fits(r, q) ==
  /\ (q.state = "UNUSED") = (r.state = "UNUSED")
  /\ q.state = "ZOMBIE" => r.state = "ZOMBIE" \/ r.image = NoImage

\* Such a change leaves the record in order
LEMMA GoodKept ==
  ASSUME NEW r, NEW q, Good(r), Memo(r, q), Fits(r, q)
  PROVE  Good(q)
<1>1. CASE r.state = "UNUSED"
  BY <1>1 DEF Good, Memo, Fits
<1>2. CASE r.state # "UNUSED"
  <2>1. /\ r.trapframe /\ r.kpgtbl = Kernel /\ r.pagetable.gen \in {"A", "B"}
        /\ Sized(r.pagetable, r.sz)
        /\ \/ r.image = NoImage
           \/ /\ r.image.pt.gen = Other(r.pagetable.gen) /\ r.state # "ZOMBIE"
              /\ Sized(r.image.pt, r.image.sz) /\ r.image.sz <= MAXIMAGE
    BY <1>2 DEF Good
  <2>2. /\ q.trapframe /\ q.kpgtbl = Kernel /\ q.pagetable.gen \in {"A", "B"}
        /\ Sized(q.pagetable, q.sz) /\ q.state # "UNUSED"
    BY <1>2, <2>1 DEF Memo, Fits
  <2>3. \/ q.image = NoImage
        \/ /\ q.image.pt.gen = Other(q.pagetable.gen) /\ q.state # "ZOMBIE"
           /\ Sized(q.image.pt, q.image.sz) /\ q.image.sz <= MAXIMAGE
    BY <2>1 DEF Memo, Fits
  <2> QED BY <2>2, <2>3 DEF Good
<1> QED BY <1>1, <1>2

\* and its pages the same.
LEMMA PagesKept ==
  ASSUME NEW p, NEW r, NEW q, Memo(r, q)
  PROVE  PageSet(p, q) = PageSet(p, r)
BY DEF PageSet, Memo

\* What CpuOK says of CPU c with record k that runs a process with record r.
CpuFits(c, k, r) ==
  /\ k.satp = (IF k.pc \in {"scheduler", "switched"} THEN None ELSE k.proc)
  /\ (k.proc = None) = (k.pc = "scheduler")
  /\ k.pc \in {"resumed", "run"} => r.state = "RUNNING"
  /\ k.pc \in {"sched", "switched"} => r.state \in {"RUNNABLE", "ZOMBIE"}
  /\ k.pc \in {"resumed", "sched", "switched"} => r.lock = c

\* CPU c changes its own record and the state and the lock of slot p, which it
\* runs or which no CPU runs.
LEMMA CpuStep ==
  ASSUME NEW c \in CPU, NEW p \in Slot, NEW k \in CpuRec, TypeOK, Running,
         proc' \in [Slot -> Rec], Memo(proc[p], proc'[p]), Fits(proc[p], proc'[p]),
         \A q \in Slot \ {p} : /\ Memo(proc[q], proc'[q]) /\ proc'[q].state = proc[q].state
                               /\ proc'[q].lock = proc[q].lock,
         cpu' = [cpu EXCEPT ![c] = k], CpuFits(c, k, proc'[p]), k.proc \in {p, None},
         cpu[c].proc = p \/ Idle(p), alloc' = alloc, panicked' = ""
  PROVE  Inv'
<1>1. proc \in [Slot -> Rec] /\ cpu \in [CPU -> CpuRec]
  BY Typed
<1>2. cpu' \in [CPU -> CpuRec] /\ cpu'[c] = k /\ \A d \in CPU \ {c} : cpu'[d] = cpu[d]
  <2> HIDE DEF CpuRec
  <2> QED BY <1>1
<1>3. TypeOK'
  BY <1>2, Typed
<1>4. \A q \in Slot : Memo(proc[q], proc'[q]) /\ Fits(proc[q], proc'[q])
  BY DEF Fits
<1>5. alloc' = (UNION {PagesOf(q) : q \in Slot})'
  <2>1. \A q \in Slot : PageSet(q, proc'[q]) = PageSet(q, proc[q])
    BY <1>4, PagesKept
  <2>2. alloc = UNION {PageSet(q, proc[q]) : q \in Slot}
    BY AllPages DEF Running
  <2>3. alloc' = UNION {PageSet(q, proc'[q]) : q \in Slot}
    BY <2>1, <2>2
  <2> QED BY <2>3, AllPages
<1>6. \A q \in Slot : SlotOK(q)'
  <2>1. \A q \in Slot : Good(proc[q])
    BY DEF Running, SlotOK
  <2>2. \A q \in Slot : Good(proc'[q])
    BY <1>4, <2>1, GoodKept
  <2> QED BY <2>2 DEF SlotOK, Good, Sized, Pages
<1>7. ASSUME NEW d \in CPU \ {c}, cpu[d].proc # None
      PROVE  cpu[d].proc \in Slot \ {p}
  <2>1. cpu[d].proc \in Slot
    BY <1>7, CpuUses
  <2>2. cpu[d].proc # p
    <3>1. CASE Idle(p)
      BY <3>1 DEF Idle
    <3>2. CASE cpu[c].proc = p
      <4>1. p # None
        BY VmConstants
      <4> QED BY <3>2, <4>1 DEF Running, Alone
    <3> QED BY <3>1, <3>2
  <2> QED BY <2>1, <2>2
<1>8. ASSUME NEW d \in CPU PROVE CpuOK(d)'
  <2>1. CASE d = c
    <3>1. k.proc = None => k.pc = "scheduler"
      BY DEF CpuFits
    <3>2. CASE k.proc = p
      BY <1>2, <2>1, <3>2 DEF CpuFits, CpuOK
    <3>3. CASE k.proc = None
      BY <1>2, <2>1, <3>1, <3>3 DEF CpuFits, CpuOK
    <3> QED BY <3>2, <3>3
  <2>2. CASE d # c
    <3>1. CpuOK(d) /\ cpu'[d] = cpu[d]
      BY <1>2, <2>2 DEF Running
    <3>2. CASE cpu[d].proc = None
      BY <3>1, <3>2 DEF CpuOK
    <3>3. CASE cpu[d].proc # None
      <4>1. proc'[cpu[d].proc].state = proc[cpu[d].proc].state
            /\ proc'[cpu[d].proc].lock = proc[cpu[d].proc].lock
        BY <1>7, <2>2, <3>3
      <4> QED BY <3>1, <4>1 DEF CpuOK
    <3> QED BY <3>2, <3>3
  <2> QED BY <2>1, <2>2
<1>9. Alone'
  <2> SUFFICES ASSUME NEW d \in CPU, NEW e \in CPU, d # e, cpu'[d].proc # None
               PROVE  cpu'[d].proc # cpu'[e].proc
    BY DEF Alone
  <2>1. p # None
    BY VmConstants
  <2>2. CASE d # c /\ e # c
    BY <1>2, <2>2 DEF Running, Alone
  <2>3. CASE d = c
    <3>1. cpu'[d].proc = p /\ cpu'[e] = cpu[e] /\ e \in CPU \ {c}
      BY <1>2, <2>3
    <3> QED BY <1>7, <2>1, <3>1
  <2>4. CASE e = c
    <3>1. cpu'[e].proc \in {p, None} /\ cpu'[d] = cpu[d] /\ d \in CPU \ {c}
      BY <1>2, <2>4
    <3> QED BY <1>7, <3>1
  <2> QED BY <2>2, <2>3, <2>4
<1>10. Running'
  BY <1>5, <1>6, <1>8, <1>9 DEF Running
<1>11. SatpLive'
  BY <1>3, <1>10, RunningLive, PTL
<1> QED BY <1>3, <1>10, <1>11 DEF Inv, NoPanic

\* Only the state and the lock of p change.
LEMMA Relocked ==
  ASSUME NEW p \in Slot, NEW s \in {"RUNNABLE", "RUNNING"}, NEW l \in CPU \cup {None}, TypeOK,
         proc[p].state # "UNUSED",
         proc' = [proc EXCEPT ![p] = [proc[p] EXCEPT !.state = s, !.lock = l]]
  PROVE  /\ proc' \in [Slot -> Rec] /\ Memo(proc[p], proc'[p]) /\ Fits(proc[p], proc'[p])
         /\ proc'[p].state = s /\ proc'[p].lock = l
         /\ \A q \in Slot \ {p} : /\ Memo(proc[q], proc'[q]) /\ proc'[q].state = proc[q].state
                                  /\ proc'[q].lock = proc[q].lock
<1> DEFINE r == [proc[p] EXCEPT !.state = s, !.lock = l]
<1>1. proc \in [Slot -> Rec] /\ proc[p] \in Rec
  BY Typed
<1>2. r \in Rec /\ r.state = s /\ r.lock = l /\ Memo(proc[p], r)
  BY <1>1 DEF Rec, Memo
<1> HIDE DEF r
<1>3. proc' = [proc EXCEPT ![p] = r]
  BY DEF r
<1>4. proc' \in [Slot -> Rec] /\ proc'[p] = r /\ \A q \in Slot \ {p} : proc'[q] = proc[q]
  <2> HIDE DEF Rec
  <2> QED BY <1>1, <1>2, <1>3
<1>5. Fits(proc[p], proc'[p])
  <2>1. s # "UNUSED" /\ s # "ZOMBIE"
    OBVIOUS
  <2> QED BY <1>2, <1>4, <2>1 DEF Fits
<1>6. \A q : Memo(q, q)
  BY DEF Memo
<1> QED BY <1>2, <1>4, <1>5, <1>6

\* What a CPU outside scheduler() runs.
LEMMA CpuRuns ==
  ASSUME NEW c \in CPU, TypeOK, Running, cpu[c].pc # "scheduler"
  PROVE  /\ cpu[c].proc \in Slot /\ proc[cpu[c].proc] \in Rec
         /\ proc[cpu[c].proc].state # "UNUSED" /\ cpu[c] \in CpuRec
<1>1. CpuOK(c)
  BY DEF Running
<1>2. cpu[c].proc # None
  BY <1>1 DEF CpuOK
<1>3. cpu[c].proc \in Slot /\ proc[cpu[c].proc].state # "UNUSED"
  BY <1>2, CpuUses
<1> QED BY <1>3, Typed

\* scheduler() switches to the kernel table of a process that is alive.
LEMMA SchedulerStep ==
  ASSUME NEW c \in CPU, NEW p \in Slot, TypeOK, Running, scheduler(c, p)
  PROVE  Inv'
<1> DEFINE k == [proc |-> p, satp |-> p, pc |-> "resumed"]
<1>1. proc[p].state = "RUNNABLE" /\ proc[p].lock = None
      /\ cpu' = [cpu EXCEPT ![c] = k] /\ alloc' = alloc /\ panicked' = ""
  BY DEF scheduler
<1>2. Idle(p)
  BY <1>1, SlotIdle
<1>3. proc' = [proc EXCEPT ![p] = [proc[p] EXCEPT !.state = "RUNNING", !.lock = c]]
  BY Typed DEF scheduler, Rec
<1>4. /\ proc' \in [Slot -> Rec] /\ Memo(proc[p], proc'[p]) /\ Fits(proc[p], proc'[p])
      /\ proc'[p].state = "RUNNING" /\ proc'[p].lock = c
      /\ \A q \in Slot \ {p} : /\ Memo(proc[q], proc'[q]) /\ proc'[q].state = proc[q].state
                               /\ proc'[q].lock = proc[q].lock
  BY <1>1, <1>3, Relocked
<1>5. k \in CpuRec /\ k.proc \in {p, None}
  BY DEF CpuRec
<1>6. CpuFits(c, k, proc'[p])
  <2>1. p # None
    BY VmConstants
  <2> QED BY <1>4, <2>1 DEF CpuFits
<1> HIDE DEF k
<1> QED BY <1>1, <1>2, <1>4, <1>5, <1>6, CpuStep

\* The process releases its lock, and is RUNNING.
LEMMA ResumeStep ==
  ASSUME NEW c \in CPU, TypeOK, Running, resume(c)
  PROVE  Inv'
<1> DEFINE p == cpu[c].proc
           k == [cpu[c] EXCEPT !.pc = "run"]
<1>1. cpu[c].pc = "resumed" /\ alloc' = alloc /\ panicked' = ""
  BY DEF resume
<1>2. p \in Slot /\ proc[p] \in Rec /\ proc[p].state # "UNUSED" /\ cpu[c] \in CpuRec
  BY <1>1, CpuRuns
<1>3. CpuOK(c) /\ proc[p].state = "RUNNING"
  BY <1>1 DEF Running, CpuOK
<1>4. proc' = [proc EXCEPT ![p] = [proc[p] EXCEPT !.state = "RUNNING", !.lock = None]]
  <2>1. proc' = [proc EXCEPT ![p] = [proc[p] EXCEPT !.lock = None]]
    BY <1>2, Typed DEF resume, Rec
  <2>2. proc[p] \in Rec /\ proc[p].state = "RUNNING"
    BY <1>2, <1>3
  <2>3. [proc[p] EXCEPT !.lock = None] = [proc[p] EXCEPT !.state = "RUNNING", !.lock = None]
    BY <2>2 DEF Rec
  <2> QED BY <2>1, <2>3
<1>5. cpu' = [cpu EXCEPT ![c] = k]
  BY <1>2, Typed DEF resume, CpuRec
<1>6. k \in CpuRec /\ k.proc = p /\ k.satp = cpu[c].satp /\ k.pc = "run"
  BY <1>2 DEF CpuRec
<1> HIDE DEF k
<1>7. /\ proc' \in [Slot -> Rec] /\ Memo(proc[p], proc'[p]) /\ Fits(proc[p], proc'[p])
      /\ proc'[p].state = "RUNNING"
      /\ \A q \in Slot \ {p} : /\ Memo(proc[q], proc'[q]) /\ proc'[q].state = proc[q].state
                               /\ proc'[q].lock = proc[q].lock
  BY <1>2, <1>4, Relocked
<1>8. CpuFits(c, k, proc'[p])
  BY <1>1, <1>3, <1>6, <1>7 DEF CpuFits, CpuOK
<1>9. k.proc \in {p, None} /\ cpu[c].proc = p
  BY <1>6
<1> HIDE DEF p
<1> QED BY <1>1, <1>2, <1>5, <1>6, <1>7, <1>8, <1>9, CpuStep

\* yield() takes the lock of a process that this CPU runs.
LEMMA YieldStep ==
  ASSUME NEW c \in CPU, TypeOK, Running, yield(c)
  PROVE  Inv'
<1> DEFINE p == cpu[c].proc
           k == [cpu[c] EXCEPT !.pc = "sched"]
<1>1. cpu[c].pc = "run" /\ alloc' = alloc /\ panicked' = ""
  BY DEF yield
<1>2. p \in Slot /\ proc[p] \in Rec /\ proc[p].state # "UNUSED" /\ cpu[c] \in CpuRec
  BY <1>1, CpuRuns
<1>3. CpuOK(c)
  BY DEF Running
<1>4. proc' = [proc EXCEPT ![p] = [proc[p] EXCEPT !.state = "RUNNABLE", !.lock = c]]
  BY <1>2, Typed DEF yield, Rec
<1>5. cpu' = [cpu EXCEPT ![c] = k]
  BY <1>2, Typed DEF yield, CpuRec
<1>6. k \in CpuRec /\ k.proc = p /\ k.satp = cpu[c].satp /\ k.pc = "sched"
  BY <1>2 DEF CpuRec
<1> HIDE DEF k
<1>7. /\ proc' \in [Slot -> Rec] /\ Memo(proc[p], proc'[p]) /\ Fits(proc[p], proc'[p])
      /\ proc'[p].state = "RUNNABLE" /\ proc'[p].lock = c
      /\ \A q \in Slot \ {p} : /\ Memo(proc[q], proc'[q]) /\ proc'[q].state = proc[q].state
                               /\ proc'[q].lock = proc[q].lock
  BY <1>2, <1>4, Relocked
<1>8. CpuFits(c, k, proc'[p])
  BY <1>1, <1>3, <1>6, <1>7 DEF CpuFits, CpuOK
<1>9. k.proc \in {p, None} /\ cpu[c].proc = p
  BY <1>6
<1> HIDE DEF p
<1> QED BY <1>1, <1>2, <1>5, <1>6, <1>7, <1>8, <1>9, CpuStep

\* The CPU releases the process when it does not use its kernel table any more.
LEMMA ReleaseStep ==
  ASSUME NEW c \in CPU, TypeOK, Running, sched_release(c)
  PROVE  Inv'
<1> DEFINE p == cpu[c].proc
           k == [cpu[c] EXCEPT !.proc = None, !.pc = "scheduler"]
<1>1. cpu[c].pc = "switched" /\ alloc' = alloc /\ panicked' = ""
  BY DEF sched_release
<1>2. p \in Slot /\ proc[p] \in Rec /\ proc[p].state # "UNUSED" /\ cpu[c] \in CpuRec
  BY <1>1, CpuRuns
<1>3. CpuOK(c) /\ cpu[c].satp = None
  BY <1>1 DEF Running, CpuOK
<1> DEFINE r == [proc[p] EXCEPT !.lock = None]
<1>4. proc' = [proc EXCEPT ![p] = r]
  BY <1>2, Typed DEF sched_release, Rec
<1>5. cpu' = [cpu EXCEPT ![c] = k]
  BY <1>2, Typed DEF sched_release, CpuRec
<1>6. k \in CpuRec /\ k.proc = None /\ k.satp = None /\ k.pc = "scheduler"
  BY <1>2, <1>3 DEF CpuRec
<1> HIDE DEF k
<1>7. r \in Rec /\ Memo(proc[p], r) /\ r.state = proc[p].state
  BY <1>2 DEF Rec, Memo
<1> HIDE DEF r
<1>8. proc' \in [Slot -> Rec] /\ proc'[p] = r /\ \A q \in Slot \ {p} : proc'[q] = proc[q]
  <2>1. proc \in [Slot -> Rec]
    BY Typed
  <2> HIDE DEF Rec, p
  <2> QED BY <1>2, <1>4, <1>7, <2>1
<1>9. \A q : Memo(q, q)
  BY DEF Memo
<1>10. Memo(proc[p], proc'[p]) /\ Fits(proc[p], proc'[p])
  BY <1>7, <1>8 DEF Fits
<1>11. CpuFits(c, k, proc'[p])
  BY <1>6 DEF CpuFits
<1>12. k.proc \in {p, None} /\ cpu[c].proc = p
  BY <1>6
<1>13. \A q \in Slot \ {p} : /\ Memo(proc[q], proc'[q]) /\ proc'[q].state = proc[q].state
                             /\ proc'[q].lock = proc[q].lock
  BY <1>8, <1>9
<1> HIDE DEF p
<1> QED BY <1>1, <1>2, <1>5, <1>6, <1>8, <1>10, <1>11, <1>12, <1>13, CpuStep

\* The CPU leaves the kernel table of the process while it has the lock.
LEMMA ReturnStep ==
  ASSUME NEW c \in CPU, TypeOK, Running, sched_return(c)
  PROVE  Inv'
<1> DEFINE p == cpu[c].proc
           k == [cpu[c] EXCEPT !.satp = None, !.pc = "switched"]
<1>1. cpu[c].pc = "sched" /\ alloc' = alloc /\ panicked' = "" /\ proc' = proc
  BY DEF sched_return
<1>2. p \in Slot /\ proc[p] \in Rec /\ proc[p].state # "UNUSED" /\ cpu[c] \in CpuRec
  BY <1>1, CpuRuns
<1>3. CpuOK(c)
  BY DEF Running
<1>4. cpu' = [cpu EXCEPT ![c] = k]
  BY <1>2, Typed DEF sched_return, kvminithart, CpuRec
<1>5. k \in CpuRec /\ k.proc = p /\ k.satp = None /\ k.pc = "switched"
  BY <1>2 DEF CpuRec
<1> HIDE DEF k
<1>6. \A q : Memo(q, q)
  BY DEF Memo
<1>7. proc' \in [Slot -> Rec]
  BY <1>1, Typed
<1>8. Fits(proc[p], proc'[p])
  BY <1>1 DEF Fits
<1>9. CpuFits(c, k, proc'[p])
  BY <1>1, <1>3, <1>5 DEF CpuFits, CpuOK
<1>10. k.proc \in {p, None} /\ cpu[c].proc = p
  BY <1>5
<1>11. Memo(proc[p], proc'[p])
       /\ \A q \in Slot \ {p} : /\ Memo(proc[q], proc'[q]) /\ proc'[q].state = proc[q].state
                                /\ proc'[q].lock = proc[q].lock
  BY <1>1, <1>6
<1> HIDE DEF p
<1> QED BY <1>1, <1>2, <1>4, <1>5, <1>7, <1>8, <1>9, <1>10, <1>11, CpuStep

\* exit() leaves the memory to wait(), and its children to init.
LEMMA ExitStep ==
  ASSUME NEW c \in CPU, TypeOK, Running, exit(c)
  PROVE  Inv'
<1> DEFINE p == cpu[c].proc
           k == [cpu[c] EXCEPT !.pc = "sched"]
           r == [proc[p] EXCEPT !.state = "ZOMBIE", !.lock = c]
<1>1. cpu[c].pc = "run" /\ alloc' = alloc /\ panicked' = "" /\ ~loading(p)
  BY DEF exit
<1>2. p \in Slot /\ proc[p] \in Rec /\ proc[p].state # "UNUSED" /\ cpu[c] \in CpuRec
  BY <1>1, CpuRuns
<1>3. CpuOK(c)
  BY DEF Running
<1>4. proc' = [q \in Slot |->
                IF q = p THEN r
                ELSE IF proc[q].parent = p THEN [proc[q] EXCEPT !.parent = initproc] ELSE proc[q]]
  BY DEF exit
<1>5. cpu' = [cpu EXCEPT ![c] = k]
  BY <1>2, Typed DEF exit, CpuRec
<1>6. k \in CpuRec /\ k.proc = p /\ k.satp = cpu[c].satp /\ k.pc = "sched"
  BY <1>2 DEF CpuRec
<1> HIDE DEF k
<1>7. r \in Rec /\ Memo(proc[p], r) /\ r.state = "ZOMBIE" /\ r.lock = c
  BY <1>2 DEF Rec, Memo
<1> HIDE DEF r
<1>8. proc[p].image = NoImage
  <2>1. Good(proc[p])
    BY <1>2 DEF Running, SlotOK
  <2>2. Other(proc[p].pagetable.gen) # ""
    BY DEF Other
  <2> QED BY <1>1, <1>2, <2>1, <2>2 DEF Good, loading
<1>9. ASSUME NEW q \in Slot \ {p}
      PROVE  /\ proc'[q] \in Rec /\ Memo(proc[q], proc'[q]) /\ proc'[q].state = proc[q].state
             /\ proc'[q].lock = proc[q].lock
  <2>1. proc[q] \in Rec /\ initproc \in Slot
    BY Typed, VmConstants
  <2> DEFINE s == [proc[q] EXCEPT !.parent = initproc]
  <2>2. s \in Rec /\ Memo(proc[q], s) /\ s.state = proc[q].state /\ s.lock = proc[q].lock
    BY <2>1 DEF Rec, Memo
  <2>3. Memo(proc[q], proc[q])
    BY DEF Memo
  <2> HIDE DEF s
  <2>4. proc'[q] = s \/ proc'[q] = proc[q]
    BY <1>4 DEF s
  <2> QED BY <2>1, <2>2, <2>3, <2>4
<1>10. proc'[p] = r
  BY <1>2, <1>4
<1>11. proc' \in [Slot -> Rec]
  <2>1. \A q \in Slot : proc'[q] \in Rec
    BY <1>7, <1>9, <1>10
  <2>2. proc' = [q \in Slot |-> proc'[q]]
    BY <1>4
  <2> HIDE DEF Rec
  <2> QED BY <2>1, <2>2
<1>12. Memo(proc[p], proc'[p]) /\ Fits(proc[p], proc'[p])
  BY <1>2, <1>7, <1>8, <1>10 DEF Fits
<1>13. CpuFits(c, k, proc'[p])
  BY <1>1, <1>3, <1>6, <1>7, <1>10 DEF CpuFits, CpuOK
<1>14. k.proc \in {p, None} /\ cpu[c].proc = p
  BY <1>6
<1> HIDE DEF p
<1> QED BY <1>1, <1>2, <1>5, <1>6, <1>9, <1>11, <1>12, <1>13, <1>14, CpuStep

-----------------------------------------------------------------------------
(* The inductive invariant.                                                 *)

\* The memory that userinit() makes, from eight pages.
LEMMA FirstMemory ==
  LET m == [p |-> initproc, alloc |-> {}, left |-> NPAGE, ok |-> TRUE, panic |-> "", pt |-> Null,
            sz |-> 0, trapframe |-> FALSE, kpgtbl |-> {}]
      u == uvmalloc(allocproc(m), 0, PGSIZE)
  IN Holds(u, Base({}, initproc), "A") /\ Full(u, PGSIZE) /\ Owns(u) /\ Self(u) = initproc
<1> DEFINE m == [p |-> initproc, alloc |-> {}, left |-> NPAGE, ok |-> TRUE, panic |-> "", pt |-> Null,
                 sz |-> 0, trapframe |-> FALSE, kpgtbl |-> {}]
           a == allocproc(m)
           u == uvmalloc(a, 0, PGSIZE)
<1>1. initproc \in Slot /\ NPAGE \in Nat /\ NPAGE >= 8 /\ PGSIZE \in Nat
  BY VmConstants
<1>2. Gone(m, {})
  <2>1. Null \in Table /\ 0 \in 0..MAXSZ /\ {} \in SUBSET Kernel
    BY NullType
  <2> QED BY <1>1, <2>1 DEF Gone, Mem
<1>3. Self(m) = initproc /\ Room(m) = NPAGE
  BY DEF Self, Room
<1>4. Clear({}, initproc) /\ Apart({}, initproc, "A")
  BY DEF Clear, Apart
<1> HIDE DEF m
<1>5. Room(m) \in Nat /\ Room(m) >= 6
  BY <1>1, <1>3
<1>6. Self(a) = initproc /\ Ok(a) /\ Alloced(a, {}) /\ Room(a) >= Room(m) - 6
  BY <1>2, <1>3, <1>4, <1>5, AllocProc
<1> HIDE DEF a
<1>7. Holds(a, Base({}, initproc), "A") /\ Full(a, 0) /\ Owns(a) /\ Room(a) \in Nat
  BY <1>6 DEF Alloced
<1>8. Room(a) >= 2
  BY <1>1, <1>3, <1>6, <1>7
<1>9. PGSIZE <= 0 + PGSIZE /\ ~(PGSIZE < 0)
  BY <1>1
<1>10. Holds(u, Base({}, initproc), "A") /\ Same(a, u) /\ Ok(u) /\ Full(u, PGSIZE)
  BY <1>1, <1>7, <1>8, <1>9, Uvmalloc
<1>11. Owns(u) /\ Self(u) = initproc
  BY <1>6, <1>7, <1>10, OwnsSame DEF Same
<1> QED BY <1>10, <1>11 DEF m, a

\* userinit() has its eight pages and gives the first process one page of memory.
LEMMA InitInv == Init => Inv
<1> SUFFICES ASSUME Init PROVE Inv
  OBVIOUS
<1> DEFINE m == [p |-> initproc, alloc |-> {}, left |-> NPAGE, ok |-> TRUE, panic |-> "", pt |-> Null,
                 sz |-> 0, trapframe |-> FALSE, kpgtbl |-> {}]
           u == uvmalloc(allocproc(m), 0, PGSIZE)
           r == [NoProc EXCEPT !.state = "RUNNABLE", !.sz = PGSIZE, !.trapframe = TRUE,
                               !.pagetable = u.pt, !.kpgtbl = u.kpgtbl]
           k == [proc |-> None, satp |-> None, pc |-> "scheduler"]
           B == Base({}, initproc)
<1>1. /\ alloc = u.alloc /\ panicked = u.panic
      /\ proc = [p \in Slot |-> IF p # initproc THEN NoProc ELSE r] /\ cpu = [c \in CPU |-> k]
  BY DEF Init
<1>2. Holds(u, B, "A") /\ Full(u, PGSIZE) /\ Owns(u) /\ Self(u) = initproc
  BY FirstMemory
<1> HIDE DEF u
<1>3. Mem(u) /\ u.panic = "" /\ u.pt.gen = "A"
      /\ Alloc(u) = Plus(B, Parts(initproc, "A", Tab(u), Leaf(u)))
  BY <1>2 DEF Holds
<1>4. u.pt \in Table /\ u.kpgtbl = Kernel
  BY <1>2, <1>3 DEF Mem, Owns
<1>5. PGSIZE \in 0..MAXSZ
  BY ImageMax
<1>6. r \in Rec /\ r.state = "RUNNABLE" /\ r.sz = PGSIZE /\ r.trapframe = TRUE
      /\ r.pagetable = u.pt /\ r.kpgtbl = Kernel /\ r.image = NoImage
  <2>1. NoProc \in Rec /\ NoProc.image = NoImage
    BY NoProcType DEF NoProc
  <2>2. u.kpgtbl \in SUBSET {"root", "low", "high"}
    BY <1>4 DEF Kernel
  <2> HIDE DEF NoProc
  <2> QED BY <1>4, <1>5, <2>1, <2>2 DEF Rec
<1> HIDE DEF r
<1>7. initproc \in Slot /\ NoProc \in Rec /\ Good(NoProc)
  BY VmConstants, NoProcType
<1>8. k \in CpuRec
  BY DEF CpuRec
<1>9. TypeOK
  <2>1. proc \in [Slot -> Rec] /\ cpu \in [CPU -> CpuRec]
    BY <1>1, <1>6, <1>7, <1>8
  <2> QED BY <2>1, Typed
<1>10. Good(r)
  <2>1. Sized(r.pagetable, r.sz)
    BY <1>2, <1>6 DEF Sized, Full, Leaf, Top
  <2>2. r.pagetable.gen \in {"A", "B"}
    BY <1>3, <1>6
  <2> QED BY <1>6, <2>1, <2>2 DEF Good
<1>11. \A p \in Slot : SlotOK(p)
  BY <1>1, <1>7, <1>10 DEF SlotOK
<1>12. \A c \in CPU : CpuOK(c)
  BY <1>1 DEF CpuOK
<1>13. Alone
  BY <1>1 DEF Alone
<1>14. alloc = UNION {PagesOf(p) : p \in Slot}
  <2>1. PageSet(initproc, NoProc) = {} /\ \A p : PageSet(p, NoProc) = {}
    <3>1. NoProc.image = NoImage /\ NoProc.pagetable = Null /\ NoProc.trapframe = FALSE
          /\ NoProc.kpgtbl = {}
      BY DEF NoProc
    <3>2. ASSUME NEW p PROVE PageSet(p, NoProc) = {}
      <4>1. Extra(p, NoProc) = {} /\ TablePages(p, NoProc.pagetable) = {}
        BY <3>1, NoExtra, TableParts
      <4> QED BY <3>1, <4>1 DEF PageSet, Extra
    <3> QED BY <3>2
  <2>2. alloc = PageSet(initproc, r)
    <3>1. Extra(initproc, r) = {}
      BY <1>6, NoExtra
    <3>2. r.pagetable.gen # "" /\ r.pagetable.gen = "A"
      BY <1>3, <1>6
    <3>3. r.pagetable.tab = Tab(u) /\ r.pagetable.leaf = Leaf(u)
      BY <1>6 DEF Tab, Leaf
    <3>4. r.trapframe = TRUE /\ r.kpgtbl = Kernel
      BY <1>6
    <3>5. Plus({}, PageSet(initproc, r)) = Plus(B, Plus(Parts(initproc, "A", Tab(u), Leaf(u)), {}))
      BY <3>1, <3>2, <3>3, <3>4, PagesUsed
    <3>6. alloc = Plus(B, Parts(initproc, "A", Tab(u), Leaf(u)))
      BY <1>1, <1>3 DEF Alloc
    <3> HIDE DEF B
    <3> QED BY <3>5, <3>6 DEF Plus
  <2>3. \A p \in Slot : PageSet(p, proc[p]) = IF p = initproc THEN alloc ELSE {}
    BY <1>1, <2>1, <2>2
  <2>4. alloc = UNION {PageSet(p, proc[p]) : p \in Slot}
    BY <1>7, <2>3
  <2> QED BY <2>4, AllPages
<1>15. Running
  BY <1>11, <1>12, <1>13, <1>14 DEF Running
<1>16. panicked = ""
  BY <1>1, <1>3
<1> QED BY <1>9, <1>15, <1>16, RunningLive DEF Inv, NoPanic

\* Every step keeps the invariant; after a panic there is none.
LEMMA NextInv == Inv /\ [Next]_vars => Inv'
<1> SUFFICES ASSUME Inv, [Next]_vars PROVE Inv'
  OBVIOUS
<1>1. CASE UNCHANGED vars
  <2>1. alloc' = alloc /\ proc' = proc /\ cpu' = cpu /\ panicked' = panicked
    BY <1>1 DEF vars
  <2>2. TypeOK' /\ NoPanic' /\ SatpLive'
    BY <2>1, Typed DEF Inv, NoPanic, SatpLive
  <2>3. ASSUME Running PROVE Running'
    <3>1. (UNION {PagesOf(p) : p \in Slot})' = UNION {PagesOf(p) : p \in Slot}
      BY <2>1, AllPages
    <3>2. \A p \in Slot : SlotOK(p)'
      BY <2>1, <2>3 DEF Running, SlotOK
    <3>3. (\A c \in CPU : CpuOK(c)') /\ Alone'
      BY <2>1, <2>3 DEF Running, CpuOK, Alone
    <3> QED BY <2>1, <2>3, <3>1, <3>2, <3>3 DEF Running
  <2> QED BY <2>1, <2>2, <2>3 DEF Inv
<1>2. CASE Next
  <2>1. TypeOK /\ (panicked = "" => Running)
    BY DEF Inv
  <2>2. ASSUME NEW c \in CPU, resume(c) PROVE Inv'
    BY <2>1, <2>2, ResumeStep DEF resume
  <2>3. ASSUME NEW c \in CPU, yield(c) PROVE Inv'
    BY <2>1, <2>3, YieldStep DEF yield
  <2>4. ASSUME NEW c \in CPU, exit(c) PROVE Inv'
    BY <2>1, <2>4, ExitStep DEF exit
  <2>5. ASSUME NEW c \in CPU, sched_return(c) PROVE Inv'
    BY <2>1, <2>5, ReturnStep DEF sched_return
  <2>6. ASSUME NEW c \in CPU, sched_release(c) PROVE Inv'
    BY <2>1, <2>6, ReleaseStep DEF sched_release
  <2>7. ASSUME NEW c \in CPU, NEW p \in Slot, scheduler(c, p) PROVE Inv'
    BY <2>1, <2>7, SchedulerStep DEF scheduler
  <2>8. ASSUME NEW p \in Slot, growproc(p) PROVE Inv'
    BY <2>1, <2>8, GrowStep DEF growproc, calls, running
  <2>9. ASSUME NEW p \in Slot, sys_exec(p) PROVE Inv'
    BY <2>1, <2>9, SysExecStep DEF sys_exec, calls, running
  <2>10. ASSUME NEW p \in Slot, exec_segment(p) PROVE Inv'
    BY <2>1, <2>10, SegmentStep DEF exec_segment, running
  <2>11. ASSUME NEW p \in Slot, exec(p) PROVE Inv'
    BY <2>1, <2>11, ExecStep DEF exec, running
  <2>12. ASSUME NEW p \in Slot, NEW np \in Slot, fork(p, np) PROVE Inv'
    BY <2>1, <2>12, ForkStep DEF fork, calls, running
  <2>13. ASSUME NEW p \in Slot, NEW np \in Slot, wait(p, np) PROVE Inv'
    BY <2>1, <2>13, WaitStep DEF wait, calls, running
  <2> QED BY <1>2, <2>2, <2>3, <2>4, <2>5, <2>6, <2>7, <2>8, <2>9, <2>10, <2>11, <2>12, <2>13
          DEF Next
<1> QED BY <1>1, <1>2

\* The invariant holds of every run of the kernel, for any number of processes, CPUs
\* and pages, any page size and width of sizes, and whichever kalloc() fails.
THEOREM Invariance == Spec => []Inv
<1>1. Init => Inv
  BY InitInv
<1>2. Inv /\ [Next]_vars => Inv'
  BY NextInv
<1> QED BY <1>1, <1>2, PTL DEF Spec

\* No call of fork(), exec(), sbrk() and wait() loses a page or frees one twice,
\* whichever kalloc() fails: in every state the allocated pages are exactly those
\* that the processes refer to.  Inv ties the record of each slot to the pages.
THEOREM Conservation == Spec => []PagesConserved
<1>1. Inv => PagesConserved
  BY DEF Inv, Running, PagesConserved
<1> QED BY <1>1, Invariance, PTL

\* A process, and the image that exec() builds, map exactly the pages below their
\* size, also after a growproc() whose sum wraps, and sizes stay within MAXSZ.
THEOREM SizesMapped == Spec => []SizeMapped
<1>1. ASSUME Inv PROVE SizeMapped
  <2>1. TypeOK /\ (panicked = "" => \A p \in Slot : Good(proc[p]))
    BY <1>1 DEF Inv, Running, SlotOK
  <2>2. ASSUME NEW r, Good(r) PROVE Sized(r.pagetable, r.sz) /\ Sized(r.image.pt, r.image.sz)
    <3>1. Null.gen = "" /\ NoImage.pt = Null
      BY DEF Null, NoImage
    <3>2. r.image = NoImage => Sized(r.image.pt, r.image.sz)
      BY <3>1 DEF Sized
    <3>3. r.pagetable = Null => Sized(r.pagetable, r.sz)
      BY <3>1 DEF Sized
    <3> HIDE DEF Sized
    <3> QED BY <2>2, <3>2, <3>3 DEF Good
  <2> QED BY <2>1, <2>2 DEF SizeMapped
<1> QED BY <1>1, Invariance, PTL

\* The kernel page table that a CPU runs on is one of a process that is not freed
\* and that this CPU runs, or the kernel's own; also when fork() panics.
THEOREM SatpLives == Spec => []SatpLive
<1>1. Inv => SatpLive
  BY DEF Inv
<1> QED BY <1>1, Invariance, PTL

=============================================================================
