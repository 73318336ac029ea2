------------------------------ MODULE FileData ------------------------------
(***************************************************************************)
(* The content of a file in xv6 (kernel/fs.c and kernel/file.c of lab 2):  *)
(* the block bitmap, bmap() with the indirect block, itrunc(), readi(),    *)
(* writei(), and fileread() and filewrite() with their offset, which       *)
(* processes share after fork().  ip->lock makes readi(), writei() and     *)
(* itrunc() atomic; filewrite() lets go of it after every chunk.           *)
(*                                                                         *)
(* One inode.  A user address may be bad: the copy of the block that needs *)
(* it fails, after the bytes in front of it are in the buffer, which is    *)
(* then not logged and is forgotten when the cache recycles it.            *)
(***************************************************************************)
EXTENDS Integers, Sequences, FiniteSets, FiniteSetsExt, SequencesExt

CONSTANTS
  Proc, File,   \* processes, and open files of the inode
  NBLOCK,       \* blocks of the disk that can hold content
  BSIZE, NDIRECT, NINDIRECT, MAXOPBLOCKS,
  UINT,         \* unsigned numbers are modulo UINT
  WRITES,       \* what is written
  READS,        \* bound: values of n in a read()
  None

DataBlock == 1..NBLOCK
MAXFILE == NDIRECT + NINDIRECT

VARIABLES
  used,      \* the bitmap
  addrs,     \* ip->addrs; entry NDIRECT is the indirect block
  ind,       \* the indirect block's entries
  data,      \* the content of the data blocks, in the cache
  home,      \* their content in the log and on disk
  size,      \* ip->size
  off,       \* f->off
  writing,   \* filewrite(): the bytes left, the file and the first bad byte
  others,    \* blocks of other files
  got,       \* what the last step, a fileread(), returned
  panicked

vars == <<used, addrs, ind, data, home, size, off, writing, others, got, panicked>>

Zeroes(n) == [i \in 0..(n - 1) |-> 0]

Init ==
  /\ others \in {{}, {2}} /\ used = others /\ addrs = Zeroes(NDIRECT + 1) /\ ind = Zeroes(NINDIRECT)
  /\ data = [b \in DataBlock |-> Zeroes(BSIZE)] /\ home = data
  /\ size = 0 /\ off = [f \in File |-> 0]
  /\ writing = [p \in Proc |-> None] /\ got = <<>> /\ panicked = ""

-----------------------------------------------------------------------------
(* Blocks.  m is what a function works on; m.addr is the block it returns. *)

inode == [used |-> used, addrs |-> addrs, ind |-> ind, data |-> data, home |-> home, addr |-> 0,
          tot |-> 0, ok |-> TRUE, out |-> <<>>, panic |-> ""]

panic(m, msg) == [m EXCEPT !.panic = msg, !.ok = FALSE]

balloc(m) ==
  IF m.used = DataBlock THEN panic(m, "balloc: out of blocks")
  ELSE LET b == Min(DataBlock \ m.used) IN
       [m EXCEPT !.used = @ \cup {b}, !.data[b] = Zeroes(BSIZE), !.home[b] = Zeroes(BSIZE),
                 !.addr = b]

\* bfree() of the blocks B.
bfree(m, B) ==
  IF B \subseteq m.used THEN [m EXCEPT !.used = @ \ B]
  ELSE panic(m, "freeing free block")

\* Entry i of addrs, or of the indirect block: allocated if it is 0.
direct(m, i) == IF m.ok THEN [m EXCEPT !.addrs[i] = m.addr] ELSE m
addr_of(m, i) ==
  IF m.addrs[i] # 0 THEN [m EXCEPT !.addr = m.addrs[i]] ELSE direct(balloc(m), i)

indirect(m, i) ==
  IF m.ok THEN [m EXCEPT !.ind[i] = m.addr] ELSE m
ind_of(m, i) ==
  IF ~m.ok THEN m
  ELSE IF m.ind[i] # 0 THEN [m EXCEPT !.addr = m.ind[i]] ELSE indirect(balloc(m), i)

bmap(m, bn) ==
  IF bn < NDIRECT THEN addr_of(m, bn)
  ELSE IF bn < MAXFILE THEN ind_of(addr_of(m, NDIRECT), bn - NDIRECT)
  ELSE panic(m, "bmap: out of range")

\* mutant: the indirect block itself stays allocated
itrunc_direct(m) ==
  [bfree(m, ({m.addrs[i] : i \in 0..(NDIRECT - 1)} \cup {m.ind[j] : j \in 0..(NINDIRECT - 1)}) \ {0})
     EXCEPT !.addrs = Zeroes(NDIRECT + 1), !.ind = Zeroes(NINDIRECT)]
itrunc(m) ==
  [bfree(m, ({m.addrs[i] : i \in 0..NDIRECT} \cup {m.ind[j] : j \in 0..(NINDIRECT - 1)}) \ {0})
     EXCEPT !.addrs = Zeroes(NDIRECT + 1), !.ind = Zeroes(NINDIRECT)]

-----------------------------------------------------------------------------
(* readi() and writei() *)

\* The rounds of their loops: <<block, first byte in it, number of bytes>>.
\* mutant: a round that starts inside a block goes on as if it had started it
rounds_unaligned(o, n) ==
  [k \in 1..((n + BSIZE - 1) \div BSIZE) |->
     <<o \div BSIZE + k - 1, o % BSIZE, Min({BSIZE - (o % BSIZE), n - (k - 1) * BSIZE})>>]
rounds(o, n) ==
  LET first == o \div BSIZE
      last == (o + n - 1) \div BSIZE
      from(b) == IF b = first THEN o % BSIZE ELSE 0
      to(b) == IF b = last THEN (o + n - 1) % BSIZE ELSE BSIZE - 1
  IN IF n = 0 THEN <<>>
     ELSE [k \in 1..(last - first + 1) |->
             <<first + k - 1, from(first + k - 1), to(first + k - 1) - from(first + k - 1) + 1>>]

\* One round of readi(), after bmap(); byte number bad has no place to go.
read_round(m, r, bad) ==
  IF ~m.ok \/ m.tot + r[3] >= bad THEN [m EXCEPT !.ok = FALSE]
  ELSE [m EXCEPT !.out = @ \o [i \in 1..r[3] |-> m.data[m.addr][r[2] + i - 1]],
                 !.tot = @ + r[3]]
readi(o, n, bad) ==
  IF o > size \/ (o + n) % UINT < o THEN inode
  ELSE LET rs == rounds(o, IF o + n > size THEN size - o ELSE n)
           after[k \in 0..Len(rs)] ==
             IF k = 0 THEN inode
             ELSE IF ~after[k - 1].ok THEN after[k - 1]
             ELSE read_round(bmap(after[k - 1], rs[k][1]), rs[k], bad)
       IN after[Len(rs)]

\* The copy of the bytes of s below bad into block m.addr.
copied(m, r, s, bad) ==
  [m EXCEPT !.data[m.addr] = [i \in 0..(BSIZE - 1) |->
      IF r[2] <= i /\ i < r[2] + r[3] /\ m.tot + i - r[2] + 1 < bad
      THEN s[m.tot + i - r[2] + 1] ELSE @[i]]]
log_write(m, r) == [m EXCEPT !.home[m.addr] = m.data[m.addr], !.tot = @ + r[3]]
\* One round of writei(), after bmap(); s[bad] cannot be read.
write_round(m, r, s, bad) ==
  IF ~m.ok THEN m
  ELSE IF m.tot + r[3] >= bad THEN [copied(m, r, s, bad) EXCEPT !.ok = FALSE]
  ELSE log_write(copied(m, r, s, bad), r)
writei(o, s, bad) ==
  LET rs == rounds(o, Len(s))
      after[k \in 0..Len(rs)] ==
        IF k = 0 THEN inode
        ELSE IF ~after[k - 1].ok THEN after[k - 1]
        ELSE write_round(bmap(after[k - 1], rs[k][1]), rs[k], s, bad)
  IN after[Len(rs)]

stores(m) ==
  /\ used' = m.used /\ addrs' = m.addrs /\ ind' = m.ind /\ data' = m.data /\ home' = m.home
  /\ panicked' = m.panic

-----------------------------------------------------------------------------
(* System calls *)

fileread(f) ==
  \E n \in READS, bad \in {2, MAXFILE * BSIZE + 1} :
    LET m == readi(off[f], n % UINT, bad) IN
    /\ panicked = ""
    /\ stores(m)
    /\ off' = [off EXCEPT ![f] = @ + m.tot]
    /\ got' = m.out
    /\ UNCHANGED <<size, writing, others>>

sys_write(p) ==
  \E s \in WRITES, f \in File : \E bad \in 1..(Len(s) + 1) :
    /\ panicked = "" /\ writing[p] = None
    /\ writing' = [writing EXCEPT ![p] = [f |-> f, s |-> s, bad |-> bad]]
    /\ got' = <<>>
    /\ UNCHANGED <<used, addrs, ind, data, home, size, off, others, panicked>>

\* The largest write of one transaction.
max == ((MAXOPBLOCKS - 1 - 1 - 2) \div 2) * BSIZE

\* One chunk.  writei() returns n although the copy failed, and f->off moves
\* by n with it.
filewrite(p) ==
  LET w == writing[p]
      n1 == Min({Len(w.s), max})
      s == SubSeq(w.s, 1, n1)
      o == off[w.f]
      m == writei(o, s, w.bad)
  IN /\ panicked = "" /\ w # None
     /\ IF o > size \/ o + n1 > MAXFILE * BSIZE
        THEN /\ writing' = [writing EXCEPT ![p] = None]
             /\ UNCHANGED <<used, addrs, ind, data, home, size, off, panicked>>
        ELSE /\ stores(m)
             /\ size' = IF o + m.tot > size THEN o + m.tot ELSE size
             /\ off' = [off EXCEPT ![w.f] = @ + n1]
             /\ writing' = [writing EXCEPT ![p] =
                   IF Len(w.s) = n1 THEN None
                   ELSE [w EXCEPT !.s = SubSeq(@, n1 + 1, Len(@)), !.bad = Max({1, @ - n1})]]
     /\ got' = <<>> /\ UNCHANGED others

\* sys_open(): the struct file f, if nobody uses it, or one that is not of File.
busy(f) == \E p \in Proc : IF writing[p] = None THEN FALSE ELSE writing[p].f = f
sys_open(f, trunc) ==
  /\ panicked = ""
  /\ off' = IF busy(f) THEN off ELSE [off EXCEPT ![f] = 0]
  /\ IF trunc THEN stores(itrunc(inode)) /\ size' = 0
     ELSE UNCHANGED <<used, addrs, ind, data, home, size, panicked>>
  /\ got' = <<>> /\ UNCHANGED <<writing, others>>

\* bget() recycles the buffer of block b.
bget(b) ==
  /\ panicked = "" /\ data[b] # home[b]
  /\ data' = [data EXCEPT ![b] = home[b]]
  /\ got' = <<>>
  /\ UNCHANGED <<used, addrs, ind, home, size, off, writing, others, panicked>>

Next ==
  \/ \E f \in File : fileread(f) \/ sys_open(f, TRUE) \/ sys_open(f, FALSE)
  \/ \E p \in Proc : sys_write(p) \/ filewrite(p)
  \/ \E b \in DataBlock : bget(b)

Spec == Init /\ [][Next]_vars

-----------------------------------------------------------------------------
(* Properties *)

Refs == [i \in 1..(NDIRECT + 1 + NINDIRECT) |->
           IF i <= NDIRECT + 1 THEN addrs[i - 1] ELSE ind[i - NDIRECT - 2]]

\* The bitmap marks the blocks of the file and no other, and no block has two
\* uses, also after writes that failed half way; only a full disk panics.
BlocksExact ==
  /\ panicked = "" => used = others \cup ({Refs[i] : i \in DOMAIN Refs} \ {0})
  /\ \A i, j \in DOMAIN Refs : i # j /\ Refs[i] # 0 => Refs[i] # Refs[j] /\ Refs[i] \notin others
  /\ panicked \in {"", "balloc: out of blocks"}

\* The blocks hold a sequence of bytes: writes of several processes, reads
\* across blocks and truncation do what they would do to that sequence.
content(d) ==
  [i \in 1..size |->
     LET bn == (i - 1) \div BSIZE
         b == IF bn < NDIRECT THEN addrs[bn] ELSE ind[bn - NDIRECT]
     IN IF b = 0 THEN 0 ELSE d[b][(i - 1) % BSIZE]]
B == INSTANCE ByteFile WITH
  MAXSIZE <- MAXFILE * BSIZE, bytes <- content(data), kept <- content(home),
  Source <- UNION {{SubSeq(s, i, Len(s)) : i \in 1..Len(s)} : s \in WRITES}
bytes == <<content(data), content(home), got>>
IsByteFileStep == B!Next \/ UNCHANGED bytes
IsByteFile == B!Init /\ [][B!Next]_bytes
=============================================================================
