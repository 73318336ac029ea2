----------------------------- MODULE PipeProofs -----------------------------
(***************************************************************************)
(* Proofs about pipes, for any number of readers and writers, any size of  *)
(* the ring and any width of its counters: nobody touches a pipe that was  *)
(* freed, nobody sleeps beside what it waits for, and the ring implements  *)
(* the bounded queue of Fifo.                                              *)
(***************************************************************************)
EXTENDS Pipe, SequenceTheorems, TLAPS

-----------------------------------------------------------------------------
(* The inductive invariant *)

Sleeping == {"write_sleep", "read_sleep"}
Inside == {"write", "wait_data", "read"}

\* A process works on the pipe with pi->lock, and gives it up to sleep.
LockInv ==
  \A p \in Process :
    /\ pc[p] \in Inside => lock = p
    /\ lock = p => pc[p] \in Inside \cup Sleeping /\ ~asleep[p]
    /\ asleep[p] => pc[p] \in Sleeping

\* Readers read, writers write, and who has closed his descriptor does neither.
RoleInv ==
  \A p \in Process :
    /\ p \notin Writer => pc[p] \notin {"pipewrite", "write", "write_sleep"}
    /\ p \notin Reader => pc[p] \notin {"piperead", "wait_data", "read_sleep", "read"}
    /\ p \in fd <=> pc[p] \notin {"close", "free", "closed"}

\* An end is open until the last process that has it is in pipeclose(), one
\* process at most gets there for each end, and one in all frees the pipe.
SameEnd(p, q) == p \in Writer <=> q \in Writer
CloseInv ==
  /\ \A p \in Process : pc[p] \in {"close", "free"} =>
       \A q \in Process \ {p} : SameEnd(p, q) => pc[q] = "closed"
  /\ \A p \in Process : pc[p] = "free" =>
       \A q \in Process \ {p} : pc[q] = "closed"
  /\ ~writeopen => \A p \in Writer : pc[p] \in {"free", "closed"}
  /\ ~readopen => \A p \in Reader : pc[p] \in {"free", "closed"}
  /\ freed => \A p \in Process : pc[p] = "closed"

\* Who is going to sleep has looked at the pipe with the lock he still holds.
SleepInv ==
  /\ \A p \in Writer : pc[p] = "write_sleep" /\ lock = p => Full /\ readopen
  /\ \A p \in Reader : pc[p] = "read_sleep" /\ lock = p => Empty /\ writeopen

\* Who sleeps without need will be woken by the process that holds the lock.
WakeInv ==
  \A p \in Process : asleep[p] =>
    \/ p \in Reader /\ Empty /\ writeopen
    \/ p \in Writer /\ Full /\ readopen
    \/ p \in Reader /\ \E w \in Writer : killed[w] \/ pc[w] = "write"
    \/ p \in Writer /\ \E r \in Reader : pc[r] = "read"

\* The counters are never further apart than the buffer is long.
UsedInv == Used =< PIPESIZE

Inv ==
  /\ TypeOK /\ LockInv /\ RoleInv /\ CloseInv /\ SleepInv /\ WakeInv /\ UsedInv

-----------------------------------------------------------------------------
(* Lemmas and theorems *)

\* A process is a reader or a writer of the pipe, not both.
LEMMA ProcessFacts ==
  /\ None \notin Process /\ Reader \subseteq Process /\ Writer \subseteq Process
  /\ Reader \cap Writer = {} /\ \A p \in Process : p \in Reader \/ p \in Writer
BY PipeConstants DEF Process

\* Division with remainder.
LEMMA DivMod ==
  ASSUME NEW a \in Nat, NEW m \in Nat \ {0}
  PROVE  \E q \in Nat, r \in 0..(m - 1) : a = m * q + r /\ a % m = r
<1> DEFINE Q == a \div m
           R == a % m
<1>1. R \in 0..(m - 1) /\ Q \in Nat /\ a = m * Q + R
  OBVIOUS
<1> HIDE DEF Q, R
<1>2. \E q \in Nat, r \in 0..(m - 1) : a = m * q + r /\ R = r
  BY <1>1
<1>3. QED
  BY <1>2 DEF R

\* The remainder is unique.
LEMMA ModUnique ==
  ASSUME NEW m \in Nat \ {0}, NEW q \in Nat, NEW r \in 0..(m - 1)
  PROVE  (m * q + r) % m = r
OBVIOUS

\* The remainder does not see multiples of m.
LEMMA ModPeriod ==
  ASSUME NEW m \in Nat \ {0}, NEW a \in Nat, NEW q \in Nat
  PROVE  (a + m * q) % m = a % m
<1>1. PICK k \in Nat, r \in 0..(m - 1) : a = m * k + r /\ a % m = r
  BY DivMod, Zenon
<1>2. a + m * q = m * (k + q) + r
  BY <1>1
<1>3. k + q \in Nat
  OBVIOUS
<1>4. (m * (k + q) + r) % m = r
  OBVIOUS
<1>5. QED
  BY <1>1, <1>2, <1>4, Zenon

\* Fewer than m consecutive numbers have different remainders.
LEMMA ModInjective ==
  ASSUME NEW m \in Nat \ {0}, NEW a \in Nat, NEW b \in Nat, a < b, b < a + m
  PROVE  a % m # b % m
<1>1. PICK k \in Nat, r \in 0..(m - 1) : a = m * k + r /\ a % m = r
  BY DivMod
<1>2. PICK l \in Nat, t \in 0..(m - 1) : b = m * l + t /\ b % m = t
  BY DivMod, Zenon
<1> SUFFICES ASSUME r = t PROVE FALSE
  BY <1>2
<1>3. b - a = m * (l - k)
  BY <1>1, <1>2
<1>4. CASE l - k =< 0
  <2>1. m * (l - k) =< 0
    BY <1>4
  <2>2. QED
    BY <1>3, <2>1
<1>5. CASE l - k >= 1
  <2>1. m * (l - k) >= m
    BY <1>5
  <2>2. QED
    BY <1>3, <2>1
<1>6. QED
  BY <1>2, <1>4, <1>5

\* The unsigned difference of two counters.
LEMMA Difference ==
  ASSUME NEW w \in 0..(UINT - 1), NEW r \in 0..(UINT - 1)
  PROVE  /\ (w - r + UINT) % UINT \in 0..(UINT - 1)
         /\ (w - r + UINT) % UINT = IF w >= r THEN w - r ELSE w - r + UINT
<1> USE PipeConstants
<1>1. CASE w >= r
  <2>1. w - r \in 0..(UINT - 1) /\ w - r + UINT = UINT * 1 + (w - r)
    BY <1>1
  <2>2. (w - r + UINT) % UINT = w - r
    BY <2>1
  <2>3. QED
    BY <1>1, <2>1, <2>2
<1>2. CASE w < r
  <2>1. w - r + UINT \in 0..(UINT - 1) /\ w - r + UINT = UINT * 0 + (w - r + UINT)
    BY <1>2
  <2>2. (w - r + UINT) % UINT = w - r + UINT
    BY <2>1
  <2>3. QED
    BY <1>2, <2>1, <2>2
<1>3. QED
  BY <1>1, <1>2

\* The unsigned sum of a counter and at most the buffer size.
LEMMA UnsignedSum ==
  ASSUME NEW x \in 0..(UINT - 1), NEW y \in 0..(UINT - 1)
  PROVE  (x + y) % UINT = IF x + y < UINT THEN x + y ELSE x + y - UINT
<1> USE PipeConstants
<1>1. CASE x + y < UINT
  <2>1. x + y \in 0..(UINT - 1) /\ x + y = UINT * 0 + (x + y)
    BY <1>1
  <2>2. QED
    BY <1>1, <2>1, ModUnique
<1>2. CASE x + y >= UINT
  <2>1. x + y - UINT \in 0..(UINT - 1) /\ x + y = UINT * 1 + (x + y - UINT)
    BY <1>2
  <2>2. QED
    BY <1>2, <2>1, ModUnique
<1>3. QED
  BY <1>1, <1>2

\* Full and Empty compare the counters, which is to look at the distance.
LEMMA FullEmpty ==
  ASSUME TypeOK
  PROVE  /\ Used \in 0..(UINT - 1)
         /\ Full <=> Used = PIPESIZE
         /\ Empty <=> Used = 0
         /\ Used = IF nwrite >= nread THEN nwrite - nread ELSE nwrite - nread + UINT
<1> USE PipeConstants
<1>1. /\ Used \in 0..(UINT - 1)
      /\ Used = IF nwrite >= nread THEN nwrite - nread ELSE nwrite - nread + UINT
  BY Difference DEF TypeOK, Used
<1>2. PIPESIZE \in 0..(UINT - 1)
  OBVIOUS
<1>3. Full <=> nwrite = IF nread + PIPESIZE < UINT THEN nread + PIPESIZE
                        ELSE nread + PIPESIZE - UINT
  BY <1>2, UnsignedSum DEF TypeOK, Full
<1>4. QED
  BY <1>1, <1>3 DEF TypeOK, Empty

\* A uint counter goes from its largest value to zero.
LEMMA Increment ==
  ASSUME NEW x \in 0..(UINT - 1)
  PROVE  inc(x) = (IF x = UINT - 1 THEN 0 ELSE x + 1) /\ inc(x) \in 0..(UINT - 1)
<1> USE PipeConstants
<1>1. 1 \in 0..(UINT - 1)
  OBVIOUS
<1>2. inc(x) = IF x + 1 < UINT THEN x + 1 ELSE x + 1 - UINT
  BY DEF inc
<1>3. QED
  BY <1>2

\* write_byte() and read_byte() change the number of bytes by one.
LEMMA OneMore ==
  ASSUME TypeOK, UsedInv, ~Full, nwrite' = inc(nwrite), nread' = nread
  PROVE  Used' = Used + 1 /\ Used < PIPESIZE
<1> USE PipeConstants
<1>1. Used < PIPESIZE
  BY FullEmpty DEF UsedInv
<1>2. /\ nwrite' \in 0..(UINT - 1) /\ nread' \in 0..(UINT - 1)
      /\ nwrite' = IF nwrite = UINT - 1 THEN 0 ELSE nwrite + 1
  BY Increment DEF TypeOK
<1>3. Used' = IF nwrite' >= nread' THEN nwrite' - nread' ELSE nwrite' - nread' + UINT
  BY <1>2 DEF Used
<1>4. QED
  BY <1>1, <1>2, <1>3, FullEmpty DEF TypeOK

\* ... and one less.
LEMMA OneLess ==
  ASSUME TypeOK, UsedInv, ~Empty, nread' = inc(nread), nwrite' = nwrite
  PROVE  Used' = Used - 1 /\ Used > 0
<1> USE PipeConstants
<1>1. Used > 0
  BY FullEmpty
<1>2. /\ nwrite' \in 0..(UINT - 1) /\ nread' \in 0..(UINT - 1)
      /\ nread' = IF nread = UINT - 1 THEN 0 ELSE nread + 1
  BY Increment DEF TypeOK
<1>3. Used' = IF nwrite' >= nread' THEN nwrite' - nread' ELSE nwrite' - nread' + UINT
  BY <1>2 DEF Used
<1>4. CASE nread = UINT - 1
  BY <1>2, <1>3, <1>4, FullEmpty
<1>5. CASE nread # UINT - 1
  BY <1>2, <1>3, <1>5, FullEmpty DEF TypeOK
<1>6. QED
  BY <1>4, <1>5

\* What return() leaves behind is well typed.
LEMMA ReturnTypes ==
  ASSUME TypeOK, NEW p \in Process, return(p)
  PROVE  /\ lock' \in Process \cup {None} /\ pc' \in [Process -> PCs]
         /\ i' \in [Process -> Nat] /\ n' \in [Process -> SIZES \cup {0}]
<1>1. lock' \in Process \cup {None} /\ pc' \in [Process -> PCs]
  BY DEF TypeOK, return, goto, PCs
<1>2. i' \in [Process -> Nat]
  BY DEF TypeOK, return
<1>3. n' \in [Process -> SIZES \cup {0}]
  BY DEF TypeOK, return
<1>4. QED
  BY <1>1, <1>2, <1>3

\* A call of write() changes nothing about the pipe.
LEMMA WriteCallStep ==
  ASSUME Inv, NEW p \in Process, write_call(p)
  PROVE Inv'
<1> USE ProcessFacts DEF Inv, write_call, goto, pipe
<1>1. TypeOK'
  BY DEF TypeOK, PCs
<1>2. LockInv'
  BY DEF LockInv, Inside, Sleeping
<1>3. RoleInv'
  BY DEF RoleInv
<1>4. CloseInv'
  BY DEF CloseInv
<1>5. SleepInv'
  BY DEF SleepInv, Full, Empty
<1>6. WakeInv'
  BY DEF WakeInv, Full, Empty
<1>7. UsedInv'
  BY DEF UsedInv, Used
<1>8. QED
  BY <1>1, <1>2, <1>3, <1>4, <1>5, <1>6, <1>7

\* pipewrite() takes the free lock.
LEMMA PipewriteStep ==
  ASSUME Inv, NEW p \in Process, pipewrite(p)
  PROVE Inv'
<1> USE ProcessFacts DEF Inv, pipewrite, Lock, goto, pipe
<1>1. TypeOK'
  BY DEF TypeOK, PCs
<1>2. LockInv'
  BY DEF TypeOK, LockInv, Inside
<1>3. RoleInv'
  BY DEF RoleInv
<1>4. CloseInv'
  BY DEF CloseInv
<1>5. SleepInv'
  BY DEF SleepInv
<1>6. WakeInv'
  BY DEF WakeInv, Full, Empty
<1>7. UsedInv'
  BY DEF UsedInv, Used
<1>8. QED
  BY <1>1, <1>2, <1>3, <1>4, <1>5, <1>6, <1>7

\* A byte goes in when the pipe is not full; no writer is asleep then, and the
\* readers who are will be woken by this writer.
LEMMA WriteByteStep ==
  ASSUME Inv, NEW p \in Process, write_byte(p)
  PROVE Inv'
<1> USE ProcessFacts DEF Inv, write_byte, pipe
<1>1. TypeOK'
  <2>1. nwrite' \in 0..(UINT - 1)
    BY Increment DEF TypeOK
  <2>2. data' \in [0..(PIPESIZE - 1) -> Byte]
    BY DEF TypeOK
  <2>3. i' \in [Process -> Nat]
    BY DEF TypeOK
  <2>4. QED
    BY <2>1, <2>2, <2>3 DEF TypeOK
<1>2. LockInv'
  BY DEF LockInv
<1>3. RoleInv'
  BY DEF RoleInv
<1>4. CloseInv'
  BY DEF CloseInv
<1>5. SleepInv'
  BY DEF SleepInv, LockInv, Inside
<1>6. WakeInv'
  BY DEF WakeInv, RoleInv
<1>7. UsedInv'
  BY OneMore, FullEmpty, PipeConstants DEF UsedInv
<1>8. QED
  BY <1>1, <1>2, <1>3, <1>4, <1>5, <1>6, <1>7

\* pipewrite() wakes the readers and returns.
LEMMA WriteReturnStep ==
  ASSUME Inv, NEW p \in Process, write_return(p)
  PROVE Inv'
<1> USE ProcessFacts DEF Inv, write_return, wake_readers, return, goto, pipe
<1>1. TypeOK'
  BY DEF TypeOK, PCs
<1>2. LockInv'
  BY DEF TypeOK, LockInv, Inside
<1>3. RoleInv'
  BY DEF RoleInv
<1>4. CloseInv'
  BY DEF CloseInv
<1>5. SleepInv'
  BY DEF SleepInv
<1>6. WakeInv'
  BY DEF TypeOK, WakeInv, Full, Empty
<1>7. UsedInv'
  BY DEF UsedInv, Used
<1>8. QED
  BY <1>1, <1>2, <1>3, <1>4, <1>5, <1>6, <1>7

\* A full pipe: pipewrite() gives up, or wakes the readers before it sleeps.
LEMMA WriteFullStep ==
  ASSUME Inv, NEW p \in Process, write_full(p)
  PROVE Inv'
<1> USE ProcessFacts DEF Inv, write_full, wake_readers, return, goto, pipe
<1>1. TypeOK'
  <2>1. CASE ~readopen \/ killed[p]
    BY <2>1, ReturnTypes DEF TypeOK
  <2>2. CASE ~(~readopen \/ killed[p])
    BY <2>2 DEF TypeOK, PCs
  <2>3. QED
    BY <2>1, <2>2
<1>2. LockInv'
  BY DEF TypeOK, LockInv, Inside, Sleeping
<1>3. RoleInv'
  BY DEF TypeOK, RoleInv
<1>4. CloseInv'
  <2>1. /\ pc[p] \notin {"close", "free", "closed"}
        /\ pc'[p] \notin {"close", "free", "closed"}
    BY DEF TypeOK
  <2>2. \A q \in Process \ {p} : pc'[q] = pc[q]
    BY DEF TypeOK
  <2>3. QED
    BY <2>1, <2>2 DEF CloseInv, SameEnd
<1>5. SleepInv'
  BY DEF SleepInv, LockInv, RoleInv, Inside, Full
<1>6. WakeInv'
  BY DEF TypeOK, WakeInv, LockInv, RoleInv, CloseInv, SleepInv, Inside, Sleeping,
         Full, Empty
<1>7. UsedInv'
  BY DEF UsedInv, Used
<1>8. QED
  BY <1>1, <1>2, <1>3, <1>4, <1>5, <1>6, <1>7

\* pipewrite() sleeps, with the pipe still full.
LEMMA WriteSleepStep ==
  ASSUME Inv, NEW p \in Process, write_sleep(p)
  PROVE Inv'
<1> USE ProcessFacts DEF Inv, write_sleep, pipe
<1>1. TypeOK'
  BY DEF TypeOK
<1>2. LockInv'
  BY DEF LockInv, Inside
<1>3. RoleInv'
  BY DEF RoleInv
<1>4. CloseInv'
  BY DEF CloseInv
<1>5. SleepInv'
  BY DEF SleepInv
<1>6. WakeInv'
  BY DEF WakeInv, RoleInv, SleepInv, Full, Empty
<1>7. UsedInv'
  BY DEF UsedInv, Used
<1>8. QED
  BY <1>1, <1>2, <1>3, <1>4, <1>5, <1>6, <1>7

\* pipewrite() takes the lock again at the end of sleep().
LEMMA WriteWokenStep ==
  ASSUME Inv, NEW p \in Process, write_woken(p)
  PROVE Inv'
<1> USE ProcessFacts DEF Inv, write_woken, Lock, goto, pipe
<1>1. TypeOK'
  BY DEF TypeOK, PCs
<1>2. LockInv'
  BY DEF LockInv, Inside, Sleeping
<1>3. RoleInv'
  BY DEF RoleInv
<1>4. CloseInv'
  BY DEF CloseInv
<1>5. SleepInv'
  BY DEF TypeOK, SleepInv
<1>6. WakeInv'
  BY DEF WakeInv, Full, Empty
<1>7. UsedInv'
  BY DEF UsedInv, Used
<1>8. QED
  BY <1>1, <1>2, <1>3, <1>4, <1>5, <1>6, <1>7

\* A call of read() changes nothing about the pipe.
LEMMA ReadCallStep ==
  ASSUME Inv, NEW p \in Process, read_call(p)
  PROVE Inv'
<1> USE ProcessFacts DEF Inv, read_call, goto, pipe
<1>1. TypeOK'
  BY DEF TypeOK, PCs
<1>2. LockInv'
  BY DEF LockInv, Inside, Sleeping
<1>3. RoleInv'
  BY DEF RoleInv
<1>4. CloseInv'
  BY DEF CloseInv
<1>5. SleepInv'
  BY DEF SleepInv, Full, Empty
<1>6. WakeInv'
  BY DEF WakeInv, Full, Empty
<1>7. UsedInv'
  BY DEF UsedInv, Used
<1>8. QED
  BY <1>1, <1>2, <1>3, <1>4, <1>5, <1>6, <1>7

\* piperead() takes the free lock.
LEMMA PipereadStep ==
  ASSUME Inv, NEW p \in Process, piperead(p)
  PROVE Inv'
<1> USE ProcessFacts DEF Inv, piperead, Lock, goto, pipe
<1>1. TypeOK'
  BY DEF TypeOK, PCs
<1>2. LockInv'
  BY DEF TypeOK, LockInv, Inside
<1>3. RoleInv'
  BY DEF RoleInv
<1>4. CloseInv'
  BY DEF CloseInv
<1>5. SleepInv'
  BY DEF SleepInv
<1>6. WakeInv'
  BY DEF WakeInv, Full, Empty
<1>7. UsedInv'
  BY DEF UsedInv, Used
<1>8. QED
  BY <1>1, <1>2, <1>3, <1>4, <1>5, <1>6, <1>7

\* piperead() goes on, gives up or decides to sleep.
LEMMA ReadWaitStep ==
  ASSUME Inv, NEW p \in Process, read_wait(p)
  PROVE Inv'
<1> USE ProcessFacts DEF Inv, read_wait, MustWait, return, goto, pipe
<1>1. TypeOK'
  <2>1. CASE MustWait /\ killed[p]
    BY <2>1, ReturnTypes DEF TypeOK
  <2>2. CASE ~(MustWait /\ killed[p])
    BY <2>2 DEF TypeOK, PCs
  <2>3. QED
    BY <2>1, <2>2
<1>2. LockInv'
  BY DEF TypeOK, LockInv, Inside, Sleeping
<1>3. RoleInv'
  BY DEF TypeOK, RoleInv
<1>4. CloseInv'
  <2>1. /\ pc[p] \notin {"close", "free", "closed"}
        /\ pc'[p] \notin {"close", "free", "closed"}
    BY DEF TypeOK
  <2>2. \A q \in Process \ {p} : pc'[q] = pc[q]
    BY DEF TypeOK
  <2>3. QED
    BY <2>1, <2>2 DEF CloseInv, SameEnd
<1>5. SleepInv'
  BY DEF TypeOK, SleepInv, Full, Empty
<1>6. WakeInv'
  BY DEF WakeInv, LockInv, Inside, Full, Empty
<1>7. UsedInv'
  BY DEF UsedInv, Used
<1>8. QED
  BY <1>1, <1>2, <1>3, <1>4, <1>5, <1>6, <1>7

\* piperead() sleeps, with the pipe still empty and open.
LEMMA ReadSleepStep ==
  ASSUME Inv, NEW p \in Process, read_sleep(p)
  PROVE Inv'
<1> USE ProcessFacts DEF Inv, read_sleep, pipe
<1>1. TypeOK'
  BY DEF TypeOK
<1>2. LockInv'
  BY DEF LockInv, Inside
<1>3. RoleInv'
  BY DEF RoleInv
<1>4. CloseInv'
  BY DEF CloseInv
<1>5. SleepInv'
  BY DEF SleepInv
<1>6. WakeInv'
  BY DEF WakeInv, RoleInv, SleepInv, Full, Empty
<1>7. UsedInv'
  BY DEF UsedInv, Used
<1>8. QED
  BY <1>1, <1>2, <1>3, <1>4, <1>5, <1>6, <1>7

\* piperead() takes the lock again at the end of sleep().
LEMMA ReadWokenStep ==
  ASSUME Inv, NEW p \in Process, read_woken(p)
  PROVE Inv'
<1> USE ProcessFacts DEF Inv, read_woken, Lock, goto, pipe
<1>1. TypeOK'
  BY DEF TypeOK, PCs
<1>2. LockInv'
  BY DEF LockInv, Inside, Sleeping
<1>3. RoleInv'
  BY DEF RoleInv
<1>4. CloseInv'
  BY DEF CloseInv
<1>5. SleepInv'
  BY DEF TypeOK, SleepInv
<1>6. WakeInv'
  BY DEF WakeInv, Full, Empty
<1>7. UsedInv'
  BY DEF UsedInv, Used
<1>8. QED
  BY <1>1, <1>2, <1>3, <1>4, <1>5, <1>6, <1>7

\* A byte comes out when the pipe is not empty; no reader sleeps then without a
\* killed writer, and the writers will be woken by this reader.
LEMMA ReadByteStep ==
  ASSUME Inv, NEW p \in Process, read_byte(p)
  PROVE Inv'
<1> USE ProcessFacts DEF Inv, read_byte, wake_writers, return, goto, pipe
<1>1. TypeOK'
  <2>1. nread' \in 0..(UINT - 1)
    BY Increment DEF TypeOK
  <2>2. /\ pc' \in [Process -> PCs] /\ i' \in [Process -> Nat]
        /\ n' \in [Process -> SIZES \cup {0}]
    <3>1. CASE i' = [i EXCEPT ![p] = @ + 1] /\ UNCHANGED <<asleep, lock, pc, n>>
      BY <3>1 DEF TypeOK
    <3>2. CASE return(p)
      BY <3>2, ReturnTypes
    <3>3. QED
      BY <3>1, <3>2
  <2>3. asleep' \in [Process -> BOOLEAN] /\ lock' \in Process \cup {None}
    BY DEF TypeOK
  <2>4. QED
    BY <2>1, <2>2, <2>3 DEF TypeOK
<1>2. LockInv'
  BY DEF TypeOK, LockInv, Inside
<1>3. RoleInv'
  BY DEF TypeOK, RoleInv
<1>4. CloseInv'
  <2>1. /\ pc[p] \notin {"close", "free", "closed"}
        /\ pc'[p] \notin {"close", "free", "closed"}
    BY DEF TypeOK
  <2>2. \A q \in Process \ {p} : pc'[q] = pc[q]
    BY DEF TypeOK
  <2>3. QED
    BY <2>1, <2>2 DEF CloseInv, SameEnd
<1>5. SleepInv'
  BY DEF SleepInv, LockInv, Inside
<1>6. WakeInv'
  BY DEF TypeOK, WakeInv, RoleInv, CloseInv
<1>7. UsedInv'
  BY OneLess, FullEmpty, PipeConstants DEF UsedInv
<1>8. QED
  BY <1>1, <1>2, <1>3, <1>4, <1>5, <1>6, <1>7

\* piperead() wakes the writers and returns.
LEMMA ReadReturnStep ==
  ASSUME Inv, NEW p \in Process, read_return(p)
  PROVE Inv'
<1> USE ProcessFacts DEF Inv, read_return, wake_writers, return, goto, pipe
<1>1. TypeOK'
  BY DEF TypeOK, PCs
<1>2. LockInv'
  BY DEF TypeOK, LockInv, Inside
<1>3. RoleInv'
  BY DEF RoleInv
<1>4. CloseInv'
  BY DEF CloseInv
<1>5. SleepInv'
  BY DEF SleepInv
<1>6. WakeInv'
  BY DEF TypeOK, WakeInv, CloseInv, Empty
<1>7. UsedInv'
  BY DEF UsedInv, Used
<1>8. QED
  BY <1>1, <1>2, <1>3, <1>4, <1>5, <1>6, <1>7

\* Only the last process of an end goes on to pipeclose().
LEMMA CloseStep ==
  ASSUME Inv, NEW p \in Process, close(p)
  PROVE Inv'
<1> USE ProcessFacts DEF Inv, close, goto, pipe
<1>1. TypeOK'
  BY DEF TypeOK, PCs
<1>2. LockInv'
  BY DEF LockInv, Inside, Sleeping
<1>3. RoleInv'
  BY DEF TypeOK, RoleInv
<1>4. CloseInv'
  BY DEF CloseInv, SameEnd, RoleInv
<1>5. SleepInv'
  BY DEF SleepInv, Full, Empty
<1>6. WakeInv'
  BY DEF WakeInv, Full, Empty
<1>7. UsedInv'
  BY DEF UsedInv, Used
<1>8. QED
  BY <1>1, <1>2, <1>3, <1>4, <1>5, <1>6, <1>7

\* pipeclose() wakes the other end, and frees when both ends are closed.
LEMMA PipecloseStep ==
  ASSUME Inv, NEW p \in Process, pipeclose(p)
  PROVE Inv'
<1> USE ProcessFacts DEF Inv, pipeclose, LastEnd, wake_readers, wake_writers, goto, pipe
<1>1. TypeOK'
  BY DEF TypeOK, PCs
<1>2. LockInv'
  BY DEF TypeOK, LockInv, Inside, Sleeping
<1>3. RoleInv'
  BY DEF RoleInv
<1>4. CloseInv'
  BY DEF TypeOK, CloseInv, SameEnd
<1>5. SleepInv'
  BY DEF SleepInv
<1>6. WakeInv'
  BY DEF TypeOK, WakeInv, Full, Empty
<1>7. UsedInv'
  BY DEF UsedInv, Used
<1>8. QED
  BY <1>1, <1>2, <1>3, <1>4, <1>5, <1>6, <1>7

\* Who frees the pipe is the last one.
LEMMA PipeFreeStep ==
  ASSUME Inv, NEW p \in Process, pipe_free(p)
  PROVE Inv'
<1> USE ProcessFacts DEF Inv, pipe_free, goto, pipe
<1>1. TypeOK'
  BY DEF TypeOK, PCs
<1>2. LockInv'
  BY DEF LockInv, Inside, Sleeping
<1>3. RoleInv'
  BY DEF RoleInv
<1>4. CloseInv'
  BY DEF TypeOK, CloseInv
<1>5. SleepInv'
  BY DEF SleepInv, Full, Empty
<1>6. WakeInv'
  BY DEF WakeInv, Full, Empty
<1>7. UsedInv'
  BY DEF UsedInv, Used
<1>8. QED
  BY <1>1, <1>2, <1>3, <1>4, <1>5, <1>6, <1>7

\* kill() wakes its victim and touches neither lock nor pipe.
LEMMA KillStep ==
  ASSUME Inv, NEW p \in Process, kill(p)
  PROVE Inv'
<1> USE ProcessFacts DEF Inv, kill, pipe
<1>1. TypeOK'
  BY DEF TypeOK
<1>2. LockInv'
  BY DEF LockInv
<1>3. RoleInv'
  BY DEF RoleInv
<1>4. CloseInv'
  BY DEF CloseInv
<1>5. SleepInv'
  BY DEF SleepInv, Full, Empty
<1>6. WakeInv'
  BY DEF WakeInv, Full, Empty
<1>7. UsedInv'
  BY DEF UsedInv, Used
<1>8. QED
  BY <1>1, <1>2, <1>3, <1>4, <1>5, <1>6, <1>7

\* The pipe of pipealloc() is empty and open, and nobody is inside.
\* The first state.
LEMMA InitInv == Init => Inv
<1> SUFFICES ASSUME Init PROVE Inv
  OBVIOUS
<1> USE ProcessFacts, PipeConstants DEF Init
<1>1. TypeOK
  <2>1. data \in [0..(PIPESIZE - 1) -> Byte]
    OBVIOUS
  <2>2. nread \in 0..(UINT - 1) /\ nwrite \in 0..(UINT - 1)
    OBVIOUS
  <2>3. QED
    BY <2>1, <2>2 DEF TypeOK, PCs
<1>2. LockInv /\ RoleInv
  BY DEF LockInv, RoleInv, Inside
<1>3. CloseInv
  BY DEF CloseInv
<1>4. SleepInv /\ WakeInv
  BY DEF SleepInv, WakeInv
<1>5. UsedInv
  BY <1>1, FullEmpty DEF UsedInv
<1>6. QED
  BY <1>1, <1>2, <1>3, <1>4, <1>5 DEF Inv

\* A stuttering step changes nothing the invariant mentions.
\* The invariant depends on the variables only.
LEMMA StutterInv ==
  ASSUME Inv, UNCHANGED vars
  PROVE  Inv'
<1> USE DEF vars, pipe, Inv
<1>1. TypeOK' /\ LockInv' /\ RoleInv'
  BY DEF TypeOK, LockInv, RoleInv
<1>2. CloseInv'
  BY DEF CloseInv
<1>3. SleepInv' /\ WakeInv' /\ UsedInv'
  BY DEF SleepInv, WakeInv, UsedInv, Used, Full, Empty
<1>4. QED
  BY <1>1, <1>2, <1>3

\* Inv is an invariant of the pipe.
THEOREM Invariance == Spec => []Inv
<1>1. Inv /\ [Next]_vars => Inv'
  <2> SUFFICES ASSUME Inv, [Next]_vars PROVE Inv'
    OBVIOUS
  <2>1. ASSUME NEW p \in Process, KernelStep(p) PROVE Inv'
    <3>1. CASE pipewrite(p) \/ write_byte(p) \/ write_return(p) \/ write_full(p)
      BY <3>1, PipewriteStep, WriteByteStep, WriteReturnStep, WriteFullStep
    <3>2. CASE write_sleep(p) \/ write_woken(p) \/ read_sleep(p) \/ read_woken(p)
      BY <3>2, WriteSleepStep, WriteWokenStep, ReadSleepStep, ReadWokenStep
    <3>3. CASE piperead(p) \/ read_wait(p) \/ read_byte(p) \/ read_return(p)
      BY <3>3, PipereadStep, ReadWaitStep, ReadByteStep, ReadReturnStep
    <3>4. CASE pipeclose(p) \/ pipe_free(p)
      BY <3>4, PipecloseStep, PipeFreeStep
    <3>5. QED
      BY <2>1, <3>1, <3>2, <3>3, <3>4 DEF KernelStep
  <2>2. ASSUME NEW p \in Process,
               write_call(p) \/ read_call(p) \/ close(p) \/ kill(p)
        PROVE  Inv'
    BY <2>2, WriteCallStep, ReadCallStep, CloseStep, KillStep
  <2>3. CASE UNCHANGED vars
    BY <2>3, StutterInv
  <2>4. QED
    BY <2>1, <2>2, <2>3 DEF Next
<1>2. QED
  BY InitInv, <1>1, PTL DEF Spec

----------------------------------------------------------------------------
(* What it means for the code.                                             *)

\* For any number of readers and writers, the page of the pipe is freed when
\* every process has closed it and none is inside any more.
THEOREM NeverUsedAfterFree == Spec => []NoUseAfterFree
<1>1. Inv => NoUseAfterFree
  BY DEF Inv, NoUseAfterFree, CloseInv
<1>2. QED
  BY Invariance, <1>1, PTL

\* For any number of readers and writers and any size of the buffer, nobody
\* sleeps in the pipe without need, but for the case of a killed writer.
THEOREM WakeupNeverMissed == Spec => []NoMissedWakeup
<1>1. Inv => NoMissedWakeup
  <2> SUFFICES ASSUME Inv, lock = None PROVE NoMissedWakeup
    BY DEF NoMissedWakeup
  <2>1. \A q \in Process : pc[q] \notin Inside
    BY ProcessFacts DEF Inv, LockInv
  <2>2. QED
    BY <2>1, ProcessFacts DEF Inv, WakeInv, NoMissedWakeup, Inside
<1>2. QED
  BY Invariance, <1>1, PTL

----------------------------------------------------------------------------
(* The ring buffer implements the queue.                                   *)

\* The slot that the k-th byte is in, from the read counter.
LEMMA WriteSlot ==
  ASSUME TypeOK
  PROVE  nwrite % PIPESIZE = (nread + Used) % PIPESIZE
<1> USE PipeConstants
<1>1. PICK q \in Nat, r \in 0..(PIPESIZE - 1) :
        UINT = PIPESIZE * q + r /\ UINT % PIPESIZE = r
  BY DivMod
<1>2. UINT = PIPESIZE * q
  BY <1>1
<1>3. nread + Used = nwrite \/ nread + Used = nwrite + PIPESIZE * q
  BY <1>2, FullEmpty DEF TypeOK
<1>4. (nwrite + PIPESIZE * q) % PIPESIZE = nwrite % PIPESIZE
  <2>1. nwrite \in Nat
    BY DEF TypeOK
  <2>2. QED
    BY <2>1, ModPeriod
<1>5. QED
  BY <1>3, <1>4

\* The slot of a byte does not depend on whether the counter has wrapped.
LEMMA NextSlot ==
  ASSUME TypeOK, NEW k \in Nat
  PROVE  (inc(nread) + k) % PIPESIZE = (nread + 1 + k) % PIPESIZE
<1> USE PipeConstants
<1>1. PICK q \in Nat, r \in 0..(PIPESIZE - 1) :
        UINT = PIPESIZE * q + r /\ UINT % PIPESIZE = r
  BY DivMod
<1>2. UINT = PIPESIZE * q
  BY <1>1
<1>3. CASE nread = UINT - 1
  <2>1. inc(nread) = 0 /\ nread + 1 + k = k + PIPESIZE * q
    BY <1>2, <1>3, Increment
  <2>2. (k + PIPESIZE * q) % PIPESIZE = k % PIPESIZE
    BY ModPeriod
  <2>3. QED
    BY <2>1, <2>2
<1>4. CASE nread # UINT - 1
  BY <1>4, Increment DEF TypeOK
<1>5. QED
  BY <1>3, <1>4

\* contents is a sequence of bytes, taken from the buffer.
ContentsRight ==
  /\ contents \in Seq(Byte) /\ Len(contents) = Used
  /\ \A k \in 1..Used : contents[k] = data[(nread + k - 1) % PIPESIZE]

\* The buffer and the counters always make such a sequence.
LEMMA ContentsSeq == TypeOK => ContentsRight
<1> USE PipeConstants
<1> SUFFICES ASSUME TypeOK PROVE ContentsRight
  OBVIOUS
<1>1. Used \in Nat
  BY FullEmpty
<1>2. \A k \in 1..Used : data[(nread + k - 1) % PIPESIZE] \in Byte
  <2> SUFFICES ASSUME NEW k \in 1..Used
               PROVE  data[(nread + k - 1) % PIPESIZE] \in Byte
    OBVIOUS
  <2>1. nread + k - 1 \in Nat
    BY DEF TypeOK
  <2>2. PICK q \in Nat, r \in 0..(PIPESIZE - 1) : (nread + k - 1) % PIPESIZE = r
    BY <2>1, DivMod, Zenon
  <2>3. QED
    BY <2>2 DEF TypeOK
<1>3. contents \in [1..Used -> Byte]
  BY <1>2 DEF contents
<1>4. contents \in Seq(Byte) /\ Len(contents) = Used
  BY <1>1, <1>3
<1>5. QED
  BY <1>4 DEF contents, ContentsRight

\* pipewrite() puts a byte at the end of the queue: the slot it writes holds
\* none of the bytes that are under way.
LEMMA PutStep ==
  ASSUME Inv, NEW p \in Process, write_byte(p)
  PROVE  \E b \in Byte : F!Put(b)
<1> USE PipeConstants
<1>1. PICK b \in Byte : data' = [data EXCEPT ![nwrite % PIPESIZE] = b]
  BY DEF write_byte
<1>2. TypeOK /\ TypeOK'
  BY WriteByteStep DEF Inv
<1>3. Used \in Nat /\ Used' = Used + 1 /\ Used < PIPESIZE
  BY OneMore, FullEmpty DEF write_byte, Inv
<1>4. /\ contents \in Seq(Byte) /\ Len(contents) = Used
      /\ \A k \in 1..Used : contents[k] = data[(nread + k - 1) % PIPESIZE]
  BY <1>2, ContentsSeq DEF ContentsRight
<1>5. /\ contents' \in Seq(Byte) /\ Len(contents') = Used'
      /\ \A k \in 1..Used' : contents'[k] = data'[(nread' + k - 1) % PIPESIZE]
  <2>1. ContentsRight'
    BY <1>2, ContentsSeq, PTL
  <2>2. QED
    BY <2>1 DEF ContentsRight
<1>6. nread' = nread /\ nread \in Nat /\ nwrite \in Nat
  BY <1>2 DEF write_byte, TypeOK
<1>7. nwrite % PIPESIZE = (nread + Used) % PIPESIZE
  BY <1>2, WriteSlot
<1>8. nwrite % PIPESIZE \in 0..(PIPESIZE - 1)
  BY <1>6
<1>9. ASSUME NEW k \in 1..Used PROVE contents'[k] = contents[k]
  <2>1. nread + k - 1 \in Nat /\ nread + Used \in Nat
    BY <1>3, <1>6
  <2>2. nread + k - 1 < nread + Used /\ nread + Used < nread + k - 1 + PIPESIZE
    BY <1>3, <1>6
  <2>3. (nread + k - 1) % PIPESIZE # nwrite % PIPESIZE
    BY <2>1, <2>2, <1>7, ModInjective
  <2>4. data'[(nread + k - 1) % PIPESIZE] = data[(nread + k - 1) % PIPESIZE]
    BY <1>1, <2>3
  <2>5. k \in 1..Used'
    BY <1>3
  <2>6. QED
    BY <1>4, <1>5, <1>6, <2>4, <2>5
<1>10. contents'[Used + 1] = b
  <2>1. Used + 1 \in 1..Used' /\ nread' + (Used + 1) - 1 = nread + Used
    BY <1>3, <1>6
  <2>2. contents'[Used + 1] = data'[nwrite % PIPESIZE]
    BY <1>5, <1>7, <2>1
  <2>3. QED
    BY <1>1, <1>2, <1>8, <2>2 DEF TypeOK
<1>11. contents' = Append(contents, b)
  <2>1. /\ Append(contents, b) \in Seq(Byte) /\ Len(Append(contents, b)) = Used + 1
        /\ \A k \in 1..Used : Append(contents, b)[k] = contents[k]
        /\ Append(contents, b)[Used + 1] = b
    BY <1>4
  <2>2. \A k \in 1..(Used + 1) : contents'[k] = Append(contents, b)[k]
    BY <1>3, <1>9, <1>10, <2>1
  <2>3. Len(contents') = Used + 1
    BY <1>3, <1>5
  <2>4. QED
    BY <1>5, <2>1, <2>2, <2>3, SeqEqual
<1>12. writeopen /\ UNCHANGED <<readopen, writeopen>>
  BY DEF Inv, RoleInv, CloseInv, write_byte
<1>13. QED
  BY <1>3, <1>4, <1>11, <1>12 DEF F!Put

\* piperead() takes the first byte of the queue.
LEMMA GetStep ==
  ASSUME Inv, NEW p \in Process, read_byte(p)
  PROVE  F!Get
<1> USE PipeConstants
<1>1. TypeOK /\ TypeOK'
  BY ReadByteStep DEF Inv
<1>2. Used \in Nat /\ Used' = Used - 1 /\ Used > 0
  BY OneLess, FullEmpty DEF read_byte, Inv
<1>3. /\ contents \in Seq(Byte) /\ Len(contents) = Used
      /\ \A k \in 1..Used : contents[k] = data[(nread + k - 1) % PIPESIZE]
  BY <1>1, ContentsSeq DEF ContentsRight
<1>4. /\ contents' \in Seq(Byte) /\ Len(contents') = Used'
      /\ \A k \in 1..Used' : contents'[k] = data'[(nread' + k - 1) % PIPESIZE]
  <2>1. ContentsRight'
    BY <1>1, ContentsSeq, PTL
  <2>2. QED
    BY <2>1 DEF ContentsRight
<1>5. nread' = inc(nread) /\ data' = data /\ nread \in Nat /\ nread' \in Nat
  BY <1>1 DEF read_byte, TypeOK
<1>6. contents # << >>
  BY <1>2, <1>3
<1>7. /\ Tail(contents) \in Seq(Byte) /\ Len(Tail(contents)) = Used - 1
      /\ \A k \in 1..(Used - 1) : Tail(contents)[k] = contents[k + 1]
  BY <1>3, <1>6
<1>8. ASSUME NEW k \in 1..(Used - 1) PROVE contents'[k] = contents[k + 1]
  <2>1. k - 1 \in Nat /\ k \in 1..Used' /\ k + 1 \in 1..Used
    BY <1>2
  <2>2. (inc(nread) + (k - 1)) % PIPESIZE = (nread + 1 + (k - 1)) % PIPESIZE
    BY <1>1, NextSlot
  <2>3. /\ nread' + k - 1 = inc(nread) + (k - 1)
        /\ nread + (k + 1) - 1 = nread + 1 + (k - 1)
    BY <1>5
  <2>4. contents'[k] = data[(inc(nread) + (k - 1)) % PIPESIZE]
    BY <1>4, <1>5, <2>1
  <2>5. contents[k + 1] = data[(nread + 1 + (k - 1)) % PIPESIZE]
    BY <1>3, <2>3
  <2>6. QED
    BY <2>2, <2>4, <2>5
<1>9. contents' = Tail(contents)
  BY <1>2, <1>4, <1>7, <1>8
<1>10. readopen /\ UNCHANGED <<readopen, writeopen>>
  BY DEF Inv, RoleInv, CloseInv, read_byte
<1>11. QED
  BY <1>6, <1>9, <1>10 DEF F!Get

\* All other steps leave the queue alone; pipeclose() closes the end it is for.
LEMMA OtherSteps ==
  ASSUME Inv, [Next]_vars, \A p \in Process : ~write_byte(p) /\ ~read_byte(p)
  PROVE  F!CloseRead \/ F!CloseWrite \/ UNCHANGED F!fifovars
<1>1. CASE UNCHANGED <<data, nread, nwrite, readopen, writeopen>>
  BY <1>1 DEF F!fifovars, contents, Used
<1>2. CASE \E p \in Process : pipeclose(p)
  <2>1. PICK p \in Process : pipeclose(p)
    BY <1>2
  <2>2. UNCHANGED contents
    BY <2>1 DEF pipeclose, contents, Used
  <2>3. CASE p \in Writer
    BY <2>1, <2>2, <2>3, ProcessFacts
       DEF Inv, TypeOK, CloseInv, pipeclose, F!CloseWrite
  <2>4. CASE p \in Reader
    BY <2>1, <2>2, <2>4, ProcessFacts
       DEF Inv, TypeOK, CloseInv, pipeclose, F!CloseRead
  <2>5. QED
    BY <2>3, <2>4 DEF Process
<1>3. \/ UNCHANGED <<data, nread, nwrite, readopen, writeopen>>
      \/ \E p \in Process : pipeclose(p)
  BY DEF Next, KernelStep, vars, pipe, pipewrite, write_return, write_full,
         write_sleep,
         write_woken, piperead, read_wait, read_sleep, read_woken, read_return,
         pipe_free, write_call, read_call, close, kill
<1>4. QED
  BY <1>1, <1>2, <1>3

\* For any number of readers and writers, any buffer size and any width of the
\* counters that is a multiple of it, the pipe implements the queue of Fifo:
\* bytes come out once and in order, whoever reads and writes.
THEOREM ImplementsFifo == Spec => IsFifo
<1>1. Init => F!FifoInit
  <2> SUFFICES ASSUME Init PROVE F!FifoInit
    OBVIOUS
  <2>1. TypeOK
    BY InitInv DEF Inv
  <2>2. contents \in Seq(Byte) /\ Len(contents) = 0
    BY <2>1, ContentsSeq, FullEmpty DEF Init, ContentsRight
  <2>3. contents = << >>
    BY <2>2
  <2>4. QED
    BY <2>3 DEF Init, F!FifoInit
<1>2. Inv /\ [Next]_vars => [F!FifoNext]_(F!fifovars)
  <2> SUFFICES ASSUME Inv, [Next]_vars PROVE [F!FifoNext]_(F!fifovars)
    OBVIOUS
  <2>1. CASE \E p \in Process : write_byte(p)
    BY <2>1, PutStep DEF F!FifoNext
  <2>2. CASE \E p \in Process : read_byte(p)
    BY <2>2, GetStep DEF F!FifoNext
  <2>3. CASE \A p \in Process : ~write_byte(p) /\ ~read_byte(p)
    BY <2>3, OtherSteps DEF F!FifoNext
  <2>4. QED
    BY <2>1, <2>2, <2>3
<1>3. QED
  BY Invariance, <1>1, <1>2, PTL DEF Spec, IsFifo, F!FifoSpec
=============================================================================
