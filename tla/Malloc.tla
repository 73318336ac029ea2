------------------------------- MODULE Malloc -------------------------------
(***************************************************************************)
(* The allocator of user programs (user/umalloc.c of lab 2): a circular    *)
(* list of free blocks in the order of their addresses.  Addresses count   *)
(* headers; address 0 is the static header base.                           *)
(***************************************************************************)
EXTENDS Integers, FiniteSets

CONSTANTS
  HSIZE,    \* bytes of a header
  NALLOC,   \* 4096 in morecore()
  MAXHEAP,  \* addresses that sbrk() can hand out
  NBYTES,   \* what is asked for: below 2^31 bytes with their header
  Gaps      \* by how much the program itself calls sbrk()

VARIABLES
  hdr,    \* the header at an address: ptr and size
  freep,  \* -1: null
  brk,    \* the end of the heap
  live,   \* the blocks in use
  core    \* the addresses that morecore() has got

vars == <<hdr, freep, brk, live, core>>

base == 0
Heap == 2..MAXHEAP
NoHeader == [ptr |-> 0, size |-> 0]

Init ==
  /\ hdr = [a \in {base} \cup Heap |-> NoHeader] /\ freep = -1
  /\ brk = 2 /\ live = {} /\ core = {}

-----------------------------------------------------------------------------
(* m is what the functions work on: hdr, freep, brk, core and the result.  *)

Ptr(m, p) == m.hdr[p].ptr
Size(m, p) == m.hdr[p].size

\* free(): the block of the list after which bp belongs.
RECURSIVE place(_, _, _)
place(m, bp, p) ==
  IF \/ bp > p /\ bp < Ptr(m, p)
     \/ p >= Ptr(m, p) /\ (bp > p \/ bp < Ptr(m, p)) THEN p
  ELSE place(m, bp, Ptr(m, p))

\* bp joins the block above it, then the one below; a header inside a block
\* is not used again.
join_upper(m, bp, p) ==
  IF bp + Size(m, bp) = Ptr(m, p)
  THEN [m EXCEPT !.hdr[bp] = [ptr |-> Ptr(m, Ptr(m, p)), size |-> Size(m, bp) + Size(m, Ptr(m, p))],
                 !.hdr[Ptr(m, p)] = NoHeader]
  ELSE [m EXCEPT !.hdr[bp].ptr = Ptr(m, p)]
join_lower(m, bp, p) ==
  IF p + Size(m, p) = bp
  THEN [m EXCEPT !.hdr[p] = [ptr |-> Ptr(m, bp), size |-> @.size + Size(m, bp)],
                 !.hdr[bp] = NoHeader]
  ELSE [m EXCEPT !.hdr[p].ptr = bp]
free_after(m, bp, p) == [join_lower(join_upper(m, bp, p), bp, p) EXCEPT !.freep = p]
free(m, bp) == free_after(m, bp, place(m, bp, m.freep))

\* morecore(): at least NALLOC headers more; nothing if sbrk() fails.
units(nu) == IF nu < NALLOC THEN NALLOC ELSE nu
sbrk(m, nu) ==
  [m EXCEPT !.hdr[m.brk].size = nu, !.brk = @ + nu, !.core = @ \cup m.brk..(m.brk + nu - 1)]
morecore(m, nu) ==
  IF m.brk + nu > MAXHEAP + 1 THEN [m EXCEPT !.ok = FALSE] ELSE free(sbrk(m, nu), m.brk)

\* The block p is large enough: all of it, or its upper end.
take(m, prevp, p, nunits) ==
  IF Size(m, p) = nunits
  THEN [m EXCEPT !.hdr[prevp].ptr = Ptr(m, p), !.hdr[p].ptr = 0, !.freep = prevp, !.got = p]
  ELSE [m EXCEPT !.hdr[p].size = @ - nunits, !.hdr[p + Size(m, p) - nunits].size = nunits,
                 !.freep = prevp, !.got = p + Size(m, p) - nunits]

RECURSIVE search(_, _, _, _)
again(m, nunits) == IF m.ok THEN search(m, m.freep, Ptr(m, m.freep), nunits) ELSE m
search(m, prevp, p, nunits) ==
  IF Size(m, p) >= nunits THEN take(m, prevp, p, nunits)
  ELSE IF p = m.freep THEN again(morecore(m, units(nunits)), nunits)
  ELSE search(m, p, Ptr(m, p), nunits)

\* The list is made at the first call.
started(m) == IF m.freep = -1 THEN [m EXCEPT !.hdr[base] = NoHeader, !.freep = base] ELSE m
first(m, nunits) == search(m, m.freep, Ptr(m, m.freep), nunits)
now == [hdr |-> hdr, freep |-> freep, brk |-> brk, core |-> core, got |-> 0, ok |-> TRUE]

stores(m) == hdr' = m.hdr /\ freep' = m.freep /\ brk' = m.brk /\ core' = m.core

malloc ==
  \E nbytes \in NBYTES :
    LET m == first(started(now), (nbytes + HSIZE - 1) \div HSIZE + 1) IN
    stores(m) /\ live' = IF m.ok THEN live \cup {m.got} ELSE live

sys_free ==
  \E bp \in live : stores(free(now, bp)) /\ live' = live \ {bp}

\* The program calls sbrk() itself.
sys_sbrk ==
  \E n \in Gaps :
    /\ brk + n <= MAXHEAP
    /\ brk' = brk + n /\ UNCHANGED <<hdr, freep, live, core>>

Next == malloc \/ sys_free \/ sys_sbrk

Spec == Init /\ [][Next]_vars

-----------------------------------------------------------------------------
(* Properties *)

\* The free blocks, by following the list from base.
RECURSIVE Reach(_)
Reach(S) == LET T == S \cup {hdr[p].ptr : p \in S} IN IF T = S THEN S ELSE Reach(T)
Extent(p) == p..(p + hdr[p].size - 1)
Tiled(free_blocks, blocks) ==
  /\ \A p, q \in blocks : p # q => Extent(p) \cap Extent(q) = {}
  /\ UNION {Extent(p) : p \in blocks} = core
  /\ free_blocks \cap live = {}
  /\ \A p, q \in free_blocks : p + hdr[p].size # q

\* Whatever the order of malloc(), free() and sbrk(), the free blocks and the
\* blocks in use are disjoint and are together what morecore() has got, and
\* neighbours on the free list have been joined.
HeapTiled ==
  freep # -1 => \E F \in {Reach({base}) \ {base}} : Tiled(F, F \cup live)
=============================================================================
