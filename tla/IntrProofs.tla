----------------------------- MODULE IntrProofs -----------------------------
(***************************************************************************)
(* Proofs about the kernel's work under interrupts.                        *)
(*                                                                         *)
(* The console and the UART, for any number of readers and any size of the *)
(* rings: no reader sleeps beside a line, the driver does not overwrite or *)
(* forget its own characters, and the input ring implements the line       *)
(* discipline of Tty.                                                      *)
(*                                                                         *)
(* Traps, for any number of harts and processes and any width of ticks: no *)
(* trap goes through the vector of the other mode, kernel code knows its   *)
(* hart, every trap comes back to where it came from, and sys_sleep() does *)
(* not oversleep.                                                          *)
(*                                                                         *)
(* The disk driver, for any number of requests and descriptors:            *)
(* descriptors are conserved, the rings never overflow, nobody sleeps for  *)
(* what is there, and a request returns after its own transfer only.       *)
(***************************************************************************)
EXTENDS Intr, SequenceTheorems, FiniteSetTheorems, WellFoundedInduction, TLAPS

-----------------------------------------------------------------------------
(* The inductive invariant of the console *)

\* How many characters there are from index i to index j.
Dist(i, j) == (j + WIDTH - i) % WIDTH

\* The indices are in the order r, w, e, and at most the ring apart.
RingInv == Dist(r, w) + Dist(w, e) =< INPUT_BUF

\* A lock is held by whoever is at a place where it is held.
LockInv ==
  /\ cons_lock = "intr" <=> intr \in {"edit", "echo", "put", "store"}
  /\ cons_lock = "writer" <=> wat # "idle"
  /\ \A p \in Reader : cons_lock = p <=> at[p] = "loop"
  /\ tx_lock = "intr" <=> intr = "start"
  /\ tx_lock = "writer" <=> wat = "start"
  /\ moving => tx_lock # None

\* What consoleintr() echoes it handles or stores, and there is room for it.
EchoInv ==
  /\ intr \in {"echo", "put"} => c \in Stored \cup {"ERASE", "KILL", "PS"}
  /\ intr = "store" => c \in Stored
  /\ intr \in {"echo", "put", "store"} /\ c \in Stored =>
       Dist(r, w) + Dist(w, e) < INPUT_BUF

\* A reader sleeps only beside an empty ring, whoever has the lock.
SleepInv == \A p \in Reader : at[p] = "asleep" => r = w

Inv == TypeOK /\ RingInv /\ LockInv /\ EchoInv /\ SleepInv /\ TransmitStarts

-----------------------------------------------------------------------------
(* Unsigned arithmetic on the indices *)

\* An index of the input ring.
Index == 0..(WIDTH - 1)

\* Unsigned differences.
LEMMA DistIs ==
  ASSUME ConsoleConstants, NEW x \in Index, NEW y \in Index
  PROVE  /\ Dist(x, y) = IF y >= x THEN y - x ELSE y - x + WIDTH
         /\ Dist(x, y) \in Nat
<1> DEFINE W == WIDTH
<1>1. W \in Nat \ {0} /\ x \in 0..(W - 1) /\ y \in 0..(W - 1)
  BY DEF ConsoleConstants, Index, WIDTH
<1>2. Dist(x, y) = (y + W - x) % W
  BY DEF Dist
<1> HIDE DEF W
<1>3. CASE y >= x
  <2>1. y + W - x = W * 1 + (y - x) /\ y - x \in 0..(W - 1)
    BY <1>1, <1>3
  <2>2. (W * 1 + (y - x)) % W = y - x
    BY <1>1, <2>1
  <2>3. QED
    BY <1>2, <1>3, <2>1, <2>2 DEF W
<1>4. CASE y < x
  <2>1. y + W - x = W * 0 + (y + W - x) /\ y + W - x \in 0..(W - 1)
    BY <1>1, <1>4
  <2>2. (W * 0 + (y + W - x)) % W = y + W - x
    BY <1>1, <2>1
  <2>3. QED
    BY <1>1, <1>2, <1>4, <2>1, <2>2 DEF W
<1>5. QED
  BY <1>1, <1>3, <1>4

\* Unsigned sums.
LEMMA PlusIs ==
  ASSUME ConsoleConstants, NEW x \in Index, NEW k \in -1..INPUT_BUF
  PROVE  /\ plus(x, k) = IF x + k < 0 THEN x + k + WIDTH
                         ELSE IF x + k < WIDTH THEN x + k ELSE x + k - WIDTH
         /\ plus(x, k) \in Index
<1> DEFINE W == WIDTH
<1>1. W \in Nat \ {0} /\ x \in 0..(W - 1) /\ k \in Int /\ -1 =< k /\ k < W
  BY DEF ConsoleConstants, Index, WIDTH
<1>2. plus(x, k) = (x + k + W) % W /\ Index = 0..(W - 1)
  BY DEF plus, Index
<1> HIDE DEF W
<1>3. CASE x + k < 0
  <2>1. x + k + W = W * 0 + (x + k + W) /\ x + k + W \in 0..(W - 1)
    BY <1>1, <1>3
  <2>2. (W * 0 + (x + k + W)) % W = x + k + W
    BY <1>1, <2>1
  <2>3. QED
    BY <1>1, <1>2, <1>3, <2>1, <2>2 DEF W
<1>4. CASE 0 =< x + k /\ x + k < W
  <2>1. x + k + W = W * 1 + (x + k) /\ x + k \in 0..(W - 1)
    BY <1>1, <1>4
  <2>2. (W * 1 + (x + k)) % W = x + k
    BY <1>1, <2>1
  <2>3. QED
    BY <1>1, <1>2, <1>4, <2>1, <2>2 DEF W
<1>5. CASE W =< x + k
  <2>1. x + k + W = W * 2 + (x + k - W) /\ x + k - W \in 0..(W - 1)
    BY <1>1, <1>5
  <2>2. (W * 2 + (x + k - W)) % W = x + k - W
    BY <1>1, <2>1
  <2>3. QED
    BY <1>1, <1>2, <1>5, <2>1, <2>2 DEF W
<1>6. QED
  BY <1>1, <1>3, <1>4, <1>5

\* The slot of an index, and of one a little after the last.
LEMMA SlotIs ==
  ASSUME ConsoleConstants, NEW x \in 0..(3 * INPUT_BUF - 1)
  PROVE  /\ slot(x) = IF x < INPUT_BUF THEN x
                      ELSE IF x < 2 * INPUT_BUF THEN x - INPUT_BUF ELSE x - 2 * INPUT_BUF
         /\ slot(x) \in 0..(INPUT_BUF - 1)
<1> DEFINE B == INPUT_BUF
<1>1. B \in Nat \ {0} /\ x \in 0..(3 * B - 1)
  BY DEF ConsoleConstants
<1>2. slot(x) = x % B
  BY DEF slot
<1> HIDE DEF B
<1>3. CASE x < B
  <2>1. x = B * 0 + x /\ x \in 0..(B - 1)
    BY <1>1, <1>3
  <2>2. (B * 0 + x) % B = x
    BY <1>1, <2>1
  <2>3. QED
    BY <1>1, <1>2, <1>3, <2>1, <2>2 DEF B
<1>4. CASE B =< x /\ x < 2 * B
  <2>1. x = B * 1 + (x - B) /\ x - B \in 0..(B - 1)
    BY <1>1, <1>4
  <2>2. (B * 1 + (x - B)) % B = x - B
    BY <1>1, <2>1
  <2>3. QED
    BY <1>1, <1>2, <1>4, <2>1, <2>2 DEF B
<1>5. CASE 2 * B =< x
  <2>1. x = B * 2 + (x - 2 * B) /\ x - 2 * B \in 0..(B - 1)
    BY <1>1, <1>5
  <2>2. (B * 2 + (x - 2 * B)) % B = x - 2 * B
    BY <1>1, <2>1
  <2>3. QED
    BY <1>1, <1>2, <1>5, <2>1, <2>2 DEF B
<1>6. QED
  BY <1>1, <1>3, <1>4, <1>5

\* What the types say of the numbers.
LEMMA Types ==
  ASSUME ConsoleConstants, TypeOK
  PROVE  /\ r \in Index /\ w \in Index /\ e \in Index
         /\ WIDTH = 2 * INPUT_BUF /\ INPUT_BUF \in Nat /\ INPUT_BUF > 0
         /\ Index = 0..(WIDTH - 1)
BY DEF ConsoleConstants, TypeOK, Index, WIDTH

\* What one step of an index does to the distances.
LEMMA DistSteps ==
  ASSUME ConsoleConstants, NEW x \in Index, NEW y \in Index
  PROVE  /\ Dist(x, x) = 0
         /\ Dist(x, y) = 0 <=> x = y
         /\ Dist(x, y) \in Nat /\ Dist(x, y) < WIDTH
         /\ plus(x, 1) \in Index /\ plus(x, -1) \in Index
         /\ x # y => Dist(plus(x, 1), y) = Dist(x, y) - 1
         /\ x # y => Dist(x, plus(y, -1)) = Dist(x, y) - 1
         /\ Dist(x, y) < WIDTH - 1 => Dist(x, plus(y, 1)) = Dist(x, y) + 1
<1>1. /\ WIDTH \in Nat /\ WIDTH >= 2 /\ Index = 0..(WIDTH - 1)
      /\ 1 \in -1..INPUT_BUF /\ -1 \in -1..INPUT_BUF
  BY DEF ConsoleConstants, WIDTH, Index
<1>2. \A a, b \in Index : Dist(a, b) = IF b >= a THEN b - a ELSE b - a + WIDTH
  BY DistIs
<1>3. \A a \in Index : /\ plus(a, 1) = IF a + 1 < WIDTH THEN a + 1 ELSE a + 1 - WIDTH
                       /\ plus(a, -1) = IF a = 0 THEN WIDTH - 1 ELSE a - 1
                       /\ plus(a, 1) \in Index /\ plus(a, -1) \in Index
  BY <1>1, PlusIs
<1>4. PICK u \in Index, d \in Index : u = plus(x, 1) /\ d = plus(y, -1)
  BY <1>3
<1>5. PICK v \in Index : v = plus(y, 1)
  BY <1>3
<1>6. /\ u = IF x + 1 < WIDTH THEN x + 1 ELSE x + 1 - WIDTH
      /\ v = IF y + 1 < WIDTH THEN y + 1 ELSE y + 1 - WIDTH
      /\ d = IF y = 0 THEN WIDTH - 1 ELSE y - 1
  BY <1>3, <1>4, <1>5
<1>7. /\ Dist(x, x) = 0
      /\ Dist(x, y) = IF y >= x THEN y - x ELSE y - x + WIDTH
      /\ Dist(u, y) = IF y >= u THEN y - u ELSE y - u + WIDTH
      /\ Dist(x, d) = IF d >= x THEN d - x ELSE d - x + WIDTH
      /\ Dist(x, v) = IF v >= x THEN v - x ELSE v - x + WIDTH
  BY <1>1, <1>2
<1>8. /\ x \in 0..(WIDTH - 1) /\ y \in 0..(WIDTH - 1) /\ u \in 0..(WIDTH - 1)
      /\ d \in 0..(WIDTH - 1) /\ v \in 0..(WIDTH - 1)
  BY <1>1
<1>9. Dist(x, y) = 0 <=> x = y
  BY <1>1, <1>7, <1>8
<1>10. Dist(x, y) \in Nat /\ Dist(x, y) < WIDTH
  BY <1>1, <1>7, <1>8
<1>11. x # y => Dist(u, y) = Dist(x, y) - 1
  BY <1>1, <1>6, <1>7, <1>8
<1>12. x # y => Dist(x, d) = Dist(x, y) - 1
  BY <1>1, <1>6, <1>7, <1>8
<1>13. Dist(x, y) < WIDTH - 1 => Dist(x, v) = Dist(x, y) + 1
  BY <1>1, <1>6, <1>7, <1>8
<1>14. QED
  BY <1>3, <1>4, <1>5, <1>7, <1>9, <1>10, <1>11, <1>12, <1>13

\* Distances add up if they stay below the width.
LEMMA DistSum ==
  ASSUME ConsoleConstants, NEW x \in Index, NEW y \in Index, NEW z \in Index,
         Dist(x, y) + Dist(y, z) < WIDTH
  PROVE  Dist(x, z) = Dist(x, y) + Dist(y, z)
<1>1. WIDTH \in Nat /\ Index = 0..(WIDTH - 1)
  BY DEF ConsoleConstants, WIDTH, Index
<1>2. /\ Dist(x, y) = IF y >= x THEN y - x ELSE y - x + WIDTH
      /\ Dist(y, z) = IF z >= y THEN z - y ELSE z - y + WIDTH
      /\ Dist(x, z) = IF z >= x THEN z - x ELSE z - x + WIDTH
  BY DistIs
<1>3. x \in 0..(WIDTH - 1) /\ y \in 0..(WIDTH - 1) /\ z \in 0..(WIDTH - 1)
  BY <1>1
<1>4. QED
  BY <1>1, <1>2, <1>3

\* The ring has room, in terms of the distances.
LEMMA Room ==
  ASSUME ConsoleConstants, TypeOK, RingInv
  PROVE  /\ room <=> Dist(r, w) + Dist(w, e) < INPUT_BUF
         /\ Dist(r, e) = Dist(r, w) + Dist(w, e)
<1>0. Dist(r, w) \in Nat /\ Dist(w, e) \in Nat
  BY Types, DistSteps
<1>1. Dist(r, w) + Dist(w, e) < WIDTH
  BY <1>0, Types DEF RingInv
<1>2. Dist(r, e) = Dist(r, w) + Dist(w, e)
  BY <1>1, Types, DistSum
<1>3. QED
  BY <1>2 DEF room, Dist

\* consoleread() takes a character.
LEMMA TakeKeeps ==
  ASSUME ConsoleConstants, TypeOK, RingInv, r # w, take_char, UNCHANGED <<w, e>>
  PROVE  /\ r' \in Index /\ buf' \in [0..(INPUT_BUF - 1) -> Stored]
         /\ Dist(r, w)' = Dist(r, w) - 1 /\ Dist(w, e)' = Dist(w, e)
<1>1. r' = plus(r, 1)
  BY DEF take_char
<1>2. Dist(r, w)' = Dist(plus(r, 1), w) /\ Dist(w, e)' = Dist(w, e)
  BY <1>1 DEF Dist, plus, WIDTH
<1>3. QED
  BY <1>1, <1>2, Types, DistSteps DEF take_char, TypeOK, Stored

\* consoleread() looks at a character and takes it, or leaves an end of file.
LEMMA ReadCharStep ==
  ASSUME ConsoleConstants, Inv, NEW p \in Reader, consoleread(p), read_char(p)
  PROVE  Inv'
<1>0. UNCHANGED <<irq, intr, c, tx_w, tx_r, tx_lock, moving, thr, wat, panicked, w, e>>
  BY DEF consoleread, read_char, txv
<1>1. r # w /\ at[p] = "loop" /\ cons_lock = p
  BY DEF read_char, empty, Inv, LockInv
<1>2. \/ UNCHANGED <<buf, r>> \/ take_char
  BY DEF read_char
<1>3. returns(p) \/ (UNCHANGED <<cons_lock, at, killed>> /\ got' = [got EXCEPT ![p] = TRUE])
  BY DEF read_char
<1>4. /\ r' \in Index /\ buf' \in [0..(INPUT_BUF - 1) -> Stored]
      /\ Dist(r, w)' + Dist(w, e)' =< Dist(r, w) + Dist(w, e)
      /\ Dist(r, w)' \in Nat /\ Dist(w, e)' \in Nat
  <2>0. r \in Index /\ Dist(r, w) \in Nat /\ Dist(w, e) \in Nat /\ (r # w => Dist(r, w) # 0)
    BY Types, DistSteps DEF Inv
  <2>1. CASE UNCHANGED <<buf, r>>
    <3>1. Dist(r, w)' = Dist(r, w) /\ Dist(w, e)' = Dist(w, e)
      BY <1>0, <2>1 DEF Dist, WIDTH
    <3>2. QED
      BY <2>0, <2>1, <3>1 DEF Inv, TypeOK
  <2>2. CASE take_char
    BY <1>0, <1>1, <2>0, <2>2, TakeKeeps DEF Inv
  <2>3. QED
    BY <1>2, <2>1, <2>2
<1>5. TypeOK'
  BY <1>0, <1>3, <1>4 DEF Inv, TypeOK, returns, Index
<1>6. RingInv' /\ EchoInv'
  <2>1. Dist(r, w) \in Nat /\ Dist(w, e) \in Nat /\ INPUT_BUF \in Nat
    BY Types, DistSteps DEF Inv
  <2>2. RingInv'
    BY <1>4, <2>1 DEF Inv, RingInv
  <2>3. intr' \notin {"edit", "echo", "put", "store"}
    BY <1>0, <1>1 DEF Inv, LockInv, ConsoleConstants
  <2>4. QED
    BY <2>2, <2>3 DEF EchoInv
<1>7. LockInv'
  BY <1>0, <1>1, <1>3 DEF Inv, LockInv, returns, ConsoleConstants, TypeOK
<1>8. SleepInv'
  BY <1>0, <1>1, <1>3 DEF Inv, SleepInv, returns, TypeOK
<1>9. TransmitStarts'
  BY <1>0 DEF Inv, TransmitStarts
<1>10. QED
  BY <1>5, <1>6, <1>7, <1>8, <1>9 DEF Inv

\* The other steps of consoleread() leave the ring alone.
LEMMA ReadLockStep ==
  ASSUME ConsoleConstants, Inv, NEW p \in Reader, consoleread(p),
         read_lock(p) \/ read_wait(p) \/ kill(p)
  PROVE  Inv'
<1>0. UNCHANGED <<irq, intr, c, tx_w, tx_r, tx_lock, moving, thr, wat, panicked,
                buf, r, w, e>>
  BY DEF consoleread, read_lock, read_wait, kill, txv, conv
<1>1. RingInv' /\ EchoInv'
  BY <1>0 DEF Inv, RingInv, EchoInv, Dist, WIDTH
<1>2. TransmitStarts'
  BY <1>0 DEF Inv, TransmitStarts
<1>3. CASE read_lock(p)
  <2>1. TypeOK'
    BY <1>0, <1>3 DEF Inv, TypeOK, read_lock
  <2>2. LockInv'
    BY <1>0, <1>3 DEF Inv, LockInv, read_lock, ConsoleConstants, TypeOK
  <2>3. SleepInv'
    BY <1>0, <1>3 DEF Inv, SleepInv, read_lock, TypeOK
  <2>4. QED
    BY <1>1, <1>2, <2>1, <2>2, <2>3 DEF Inv
<1>4. CASE read_wait(p)
  <2>1. TypeOK'
    BY <1>0, <1>4 DEF Inv, TypeOK, read_wait, returns
  <2>2. LockInv'
    BY <1>0, <1>4 DEF Inv, LockInv, read_wait, returns, ConsoleConstants, TypeOK
  <2>3. SleepInv'
    BY <1>0, <1>4 DEF Inv, SleepInv, read_wait, returns, empty, TypeOK
  <2>4. QED
    BY <1>1, <1>2, <2>1, <2>2, <2>3 DEF Inv
<1>5. CASE kill(p)
  <2>1. TypeOK'
    BY <1>0, <1>5 DEF Inv, TypeOK, kill
  <2>2. LockInv'
    BY <1>0, <1>5 DEF Inv, LockInv, kill, ConsoleConstants, TypeOK
  <2>3. SleepInv'
    BY <1>0, <1>5 DEF Inv, SleepInv, kill, TypeOK
  <2>4. QED
    BY <1>1, <1>2, <2>1, <2>2, <2>3 DEF Inv
<1>6. QED
  BY <1>3, <1>4, <1>5

\* An index of the transmit ring stays one.
LEMMA TxNext ==
  ASSUME ConsoleConstants, NEW x \in 0..(TX_SIZE - 1)
  PROVE  tx_next(x) \in 0..(TX_SIZE - 1)
BY DEF ConsoleConstants, tx_next

\* uartstart() of the writer or of the handler.
LEMMA StartKeeps ==
  ASSUME ConsoleConstants, Inv, NEW x \in {"intr", "writer"},
         uartstart(x) \/ start_return(x)
  PROVE  /\ {tx_w, tx_r}' \subseteq 0..(TX_SIZE - 1) /\ {thr, moving}' \subseteq BOOLEAN
         /\ tx_lock = x /\ moving' \in BOOLEAN
         /\ \/ uartstart(x) /\ tx_lock' = x
            \/ start_return(x) /\ tx_lock' = None /\ ~moving' /\ (tx_w' = tx_r' \/ thr')
<1>1. {tx_w, tx_r} \subseteq 0..(TX_SIZE - 1) /\ {thr, moving} \subseteq BOOLEAN
  BY DEF Inv, TypeOK
<1>2. CASE start_take(x) /\ UNCHANGED tx_lock
  BY <1>1, <1>2, TxNext DEF start_take, uartstart
<1>3. CASE start_put(x) /\ UNCHANGED tx_lock
  BY <1>1, <1>3 DEF start_put, uartstart, txv
<1>4. CASE start_return(x)
  BY <1>1, <1>4 DEF start_return, start_done, txv
<1>5. QED
  BY <1>2, <1>3, <1>4 DEF uartstart

\* consolewrite()
LEMMA WriteStep ==
  ASSUME ConsoleConstants, Inv, consolewrite
  PROVE  Inv'
<1>0. UNCHANGED <<buf, r, w, e, at, got, killed, irq, intr, c>> /\ ~panicked
  BY DEF consolewrite, conv, readv
<1>1. RingInv' /\ EchoInv' /\ SleepInv'
  BY <1>0 DEF Inv, RingInv, EchoInv, SleepInv, Dist, WIDTH
<1>2. CASE write_lock
  <2>1. TypeOK'
    BY <1>0, <1>2 DEF Inv, TypeOK, write_lock, txv
  <2>2. LockInv'
    BY <1>0, <1>2 DEF Inv, LockInv, write_lock, ConsoleConstants, TypeOK
  <2>3. TransmitStarts'
    BY <1>0, <1>2 DEF Inv, TransmitStarts, write_lock, txv
  <2>4. QED
    BY <1>1, <2>1, <2>2, <2>3 DEF Inv
<1>3. CASE uartputc
  <2>1. TypeOK'
    BY <1>0, <1>3, TxNext DEF Inv, TypeOK, uartputc
  <2>2. LockInv'
    BY <1>0, <1>3 DEF Inv, LockInv, uartputc, ConsoleConstants, TypeOK
  <2>3. TransmitStarts'
    BY <1>0, <1>3 DEF Inv, TransmitStarts, uartputc, ConsoleConstants
  <2>4. QED
    BY <1>1, <2>1, <2>2, <2>3 DEF Inv
<1>4. CASE write_start
  <2>0. /\ wat = "start" /\ UNCHANGED panicked
        /\ \/ uartstart("writer") /\ UNCHANGED <<wat, cons_lock>>
           \/ start_return("writer") /\ wat' = "putc" /\ UNCHANGED cons_lock
           \/ start_return("writer") /\ wat' = "idle" /\ cons_lock' = None
    BY <1>4 DEF write_start
  <2>a. /\ {tx_w, tx_r}' \subseteq 0..(TX_SIZE - 1) /\ {thr, moving}' \subseteq BOOLEAN
        /\ tx_lock = "writer" /\ moving' \in BOOLEAN
        /\ \/ tx_lock' = "writer" /\ UNCHANGED <<wat, cons_lock>>
           \/ /\ tx_lock' = None /\ ~moving' /\ (tx_w' = tx_r' \/ thr')
              /\ \/ wat' = "putc" /\ UNCHANGED cons_lock
                 \/ wat' = "idle" /\ cons_lock' = None
    <3>1. CASE uartstart("writer") /\ UNCHANGED <<wat, cons_lock>>
      BY <3>1, StartKeeps DEF uartstart
    <3>2. CASE start_return("writer")
      BY <2>0, <3>2, StartKeeps DEF start_return, uartstart, start_take, start_put
    <3>3. QED
      BY <2>0, <3>1, <3>2
  <2>1. TypeOK'
    BY <1>0, <2>0, <2>a DEF Inv, TypeOK
  <2>2. LockInv'
    BY <1>0, <2>0, <2>a DEF Inv, LockInv, ConsoleConstants, TypeOK
  <2>3. TransmitStarts'
    BY <1>0, <2>a DEF Inv, TransmitStarts, ConsoleConstants
  <2>4. QED
    BY <1>1, <2>1, <2>2, <2>3 DEF Inv
<1>5. QED
  BY <1>2, <1>3, <1>4 DEF consolewrite

\* printf() on another CPU, and the UART.
LEMMA RegisterStep ==
  ASSUME ConsoleConstants, Inv, printf \/ transmit
  PROVE  Inv'
<1>0. UNCHANGED <<buf, r, w, e, at, got, killed, intr, c, cons_lock,
                tx_w, tx_r, tx_lock, moving, wat, panicked>>
  BY DEF printf, transmit, conv, readv, txv
<1>1. RingInv' /\ EchoInv' /\ SleepInv' /\ LockInv'
  BY <1>0 DEF Inv, RingInv, EchoInv, SleepInv, LockInv, Dist, WIDTH
<1>2. TypeOK' /\ TransmitStarts'
  BY <1>0 DEF Inv, TypeOK, TransmitStarts, printf, transmit
<1>3. QED
  BY <1>1, <1>2 DEF Inv

\* The steps of uartintr() that leave the input ring alone.
LEMMA IntrStep ==
  ASSUME ConsoleConstants, Inv, uartintr,
         intr_begin \/ intr_lock \/ intr_echo \/ intr_put \/ intr_start
  PROVE  Inv'
<1>0. UNCHANGED <<buf, r, w, e, at, got, killed, wat, panicked>>
  BY DEF uartintr, intr_begin, intr_lock, intr_echo, intr_put, intr_start, conv
<1>1. RingInv' /\ SleepInv' /\ Dist(r, w)' = Dist(r, w) /\ Dist(w, e)' = Dist(w, e)
  BY <1>0 DEF Inv, RingInv, SleepInv, Dist, WIDTH
<1>2. CASE intr_begin
  <2>1. TypeOK'
    BY <1>0, <1>2 DEF Inv, TypeOK, intr_begin, uartgetc, txv
  <2>2. LockInv'
    BY <1>0, <1>2 DEF Inv, LockInv, intr_begin, uartgetc
  <2>3. EchoInv' /\ TransmitStarts'
    BY <1>0, <1>2 DEF Inv, EchoInv, TransmitStarts, intr_begin, uartgetc
  <2>4. QED
    BY <1>1, <2>1, <2>2, <2>3 DEF Inv
<1>3. CASE intr_lock
  <2>1. TypeOK'
    BY <1>0, <1>3 DEF Inv, TypeOK, intr_lock, txv
  <2>2. LockInv'
    BY <1>0, <1>3 DEF Inv, LockInv, intr_lock, ConsoleConstants
  <2>3. EchoInv' /\ TransmitStarts'
    BY <1>0, <1>3 DEF Inv, EchoInv, TransmitStarts, intr_lock
  <2>4. QED
    BY <1>1, <2>1, <2>2, <2>3 DEF Inv
<1>4. CASE intr_echo
  <2>1. TypeOK'
    BY <1>0, <1>4 DEF Inv, TypeOK, intr_echo, txv
  <2>2. LockInv'
    BY <1>0, <1>4 DEF Inv, LockInv, intr_echo
  <2>3. EchoInv' /\ TransmitStarts'
    BY <1>0, <1>1, <1>4 DEF Inv, EchoInv, TransmitStarts, intr_echo
  <2>4. QED
    BY <1>1, <2>1, <2>2, <2>3 DEF Inv
<1>5. CASE intr_put
  <2>1. TypeOK'
    BY <1>0, <1>5 DEF Inv, TypeOK, intr_put, intr_unlock, uartgetc, txv
  <2>2. LockInv'
    BY <1>0, <1>5 DEF Inv, LockInv, intr_put, intr_unlock, uartgetc, ConsoleConstants
  <2>3. EchoInv' /\ TransmitStarts'
    BY <1>0, <1>1, <1>5 DEF Inv, EchoInv, TransmitStarts, intr_put, intr_unlock, uartgetc, Stored
  <2>4. QED
    BY <1>1, <2>1, <2>2, <2>3 DEF Inv
<1>6. CASE intr_start
  <2>1. CASE intr = "tx" /\ tx_lock = None /\ tx_lock' = "intr" /\ intr' = "start"
               /\ UNCHANGED <<cons_lock, irq, c, txv, moving, thr>>
    <3>1. TypeOK'
      BY <1>0, <2>1 DEF Inv, TypeOK, txv
    <3>2. LockInv'
      BY <1>0, <2>1 DEF Inv, LockInv, ConsoleConstants
    <3>3. EchoInv' /\ TransmitStarts'
      BY <1>0, <2>1 DEF Inv, EchoInv, TransmitStarts
    <3>4. QED
      BY <1>1, <3>1, <3>2, <3>3 DEF Inv
  <2>2. CASE /\ intr = "start" /\ UNCHANGED <<cons_lock, irq, c>>
             /\ \/ uartstart("intr") /\ UNCHANGED intr
                \/ start_return("intr") /\ intr' = "idle"
    <3>0. /\ {tx_w, tx_r}' \subseteq 0..(TX_SIZE - 1) /\ {thr, moving}' \subseteq BOOLEAN
          /\ tx_lock = "intr" /\ moving' \in BOOLEAN
          /\ \/ tx_lock' = "intr" /\ UNCHANGED intr
             \/ tx_lock' = None /\ ~moving' /\ (tx_w' = tx_r' \/ thr') /\ intr' = "idle"
      <4>1. CASE uartstart("intr") /\ UNCHANGED intr
        BY <4>1, StartKeeps DEF uartstart
      <4>2. CASE start_return("intr") /\ intr' = "idle"
        BY <4>2, StartKeeps DEF start_return, uartstart, start_take, start_put
      <4>3. QED
        BY <2>2, <4>1, <4>2
    <3>1. TypeOK'
      BY <1>0, <2>2, <3>0 DEF Inv, TypeOK
    <3>2. LockInv'
      BY <1>0, <2>2, <3>0 DEF Inv, LockInv, ConsoleConstants
    <3>3. EchoInv' /\ TransmitStarts'
      BY <1>0, <2>2, <3>0 DEF Inv, EchoInv, TransmitStarts, ConsoleConstants
    <3>4. QED
      BY <1>1, <3>1, <3>2, <3>3 DEF Inv
  <2>3. QED
    BY <1>6, <2>1, <2>2 DEF intr_start
<1>7. QED
  BY <1>2, <1>3, <1>4, <1>5, <1>6

\* consoleintr() erases a character of the line being typed.
LEMMA EraseKeeps ==
  ASSUME ConsoleConstants, TypeOK, RingInv, e # w, e' = plus(e, -1),
         buf' = [buf EXCEPT ![slot(e')] = "x"], UNCHANGED <<r, w>>
  PROVE  /\ e' \in Index /\ buf' \in [0..(INPUT_BUF - 1) -> Stored]
         /\ Dist(r, w)' = Dist(r, w) /\ Dist(w, e)' = Dist(w, e) - 1
<1>1. Dist(r, w)' = Dist(r, w) /\ Dist(w, e)' = Dist(w, plus(e, -1))
  BY DEF Dist, plus, WIDTH
<1>2. QED
  BY <1>1, Types, DistSteps DEF TypeOK, Stored

\* The switch of consoleintr().
LEMMA EditStep ==
  ASSUME ConsoleConstants, Inv, uartintr, consoleintr
  PROVE  Inv'
<1>0. /\ UNCHANGED <<r, w, at, irq, tx_w, tx_r, tx_lock, moving, thr, got, killed, wat,
                     panicked>>
      /\ intr = "edit"
  BY DEF uartintr, consoleintr, txv
<1>1. Dist(r, w) \in Nat /\ Dist(w, e) \in Nat /\ INPUT_BUF \in Nat
  BY Types, DistSteps DEF Inv
<1>2. /\ \/ intr' = "echo" /\ UNCHANGED cons_lock /\ c' \in Stored \cup {"ERASE", "KILL", "PS"}
         \/ cons_lock' = None /\ c' = None /\ intr' \in {"want", "tx"}
      /\ \/ UNCHANGED <<buf, e>> /\ (intr' = "echo" /\ c' \in Stored => room)
         \/ /\ e # w /\ e' = plus(e, -1) /\ buf' = [buf EXCEPT ![slot(e')] = "x"]
  BY DEF consoleintr, erasable, intr_unlock, uartgetc, Stored
<1>3. /\ e' \in Index /\ buf' \in [0..(INPUT_BUF - 1) -> Stored]
      /\ Dist(r, w)' \in Nat /\ Dist(w, e)' \in Nat
      /\ Dist(r, w)' + Dist(w, e)' =< INPUT_BUF
      /\ intr' = "echo" /\ c' \in Stored => Dist(r, w)' + Dist(w, e)' < INPUT_BUF
  <2>1. CASE UNCHANGED <<buf, e>> /\ (intr' = "echo" /\ c' \in Stored => room)
    <3>1. Dist(r, w)' = Dist(r, w) /\ Dist(w, e)' = Dist(w, e)
      BY <1>0, <2>1 DEF Dist, WIDTH
    <3>2. QED
      BY <1>1, <2>1, <3>1, Types, Room DEF Inv, TypeOK, RingInv
  <2>2. CASE e # w /\ e' = plus(e, -1) /\ buf' = [buf EXCEPT ![slot(e')] = "x"]
    <3>1. /\ e' \in Index /\ buf' \in [0..(INPUT_BUF - 1) -> Stored]
          /\ Dist(r, w)' = Dist(r, w) /\ Dist(w, e)' = Dist(w, e) - 1
      BY <1>0, <2>2, EraseKeeps DEF Inv
    <3>2. Dist(w, e) # 0
      BY <2>2, Types, DistSteps DEF Inv
    <3>3. QED
      BY <1>1, <3>1, <3>2 DEF Inv, RingInv
  <2>3. QED
    BY <1>2, <2>1, <2>2
<1>4. TypeOK'
  BY <1>0, <1>2, <1>3 DEF Inv, TypeOK, Index, Typed
<1>5. RingInv' /\ EchoInv'
  BY <1>2, <1>3 DEF RingInv, EchoInv
<1>6. LockInv'
  BY <1>0, <1>2 DEF Inv, LockInv, ConsoleConstants
<1>7. SleepInv' /\ TransmitStarts'
  BY <1>0, <1>2 DEF Inv, SleepInv, TransmitStarts
<1>8. QED
  BY <1>4, <1>5, <1>6, <1>7 DEF Inv

\* A character is stored; if it ends the line, w follows.
LEMMA StoreKeeps ==
  ASSUME ConsoleConstants, TypeOK, RingInv, Dist(r, w) + Dist(w, e) < INPUT_BUF, c \in Stored,
         e' = plus(e, 1), buf' = [buf EXCEPT ![slot(e)] = c], w' \in {w, e'}, UNCHANGED r
  PROVE  /\ e' \in Index /\ w' \in Index /\ buf' \in [0..(INPUT_BUF - 1) -> Stored]
         /\ IF w' = e' THEN Dist(r, w)' = Dist(r, w) + Dist(w, e) + 1 /\ Dist(w, e)' = 0
                       ELSE Dist(r, w)' = Dist(r, w) /\ Dist(w, e)' = Dist(w, e) + 1
<1>1. Dist(r, w)' = Dist(r, w') /\ Dist(w, e)' = Dist(w', e')
  BY DEF Dist, WIDTH
<1>2. Dist(r, w) \in Nat /\ Dist(w, e) \in Nat /\ INPUT_BUF \in Nat /\ WIDTH = 2 * INPUT_BUF
  BY Types, DistSteps
<1>3. Dist(r, e) = Dist(r, w) + Dist(w, e)
  BY Room
<1>4. e' \in Index /\ w' \in Index /\ buf' \in [0..(INPUT_BUF - 1) -> Stored]
  BY Types, DistSteps DEF TypeOK
<1>5. Dist(r, e) < WIDTH - 1 /\ Dist(w, e) < WIDTH - 1
  BY <1>2, <1>3
<1>6. Dist(r, plus(e, 1)) = Dist(r, e) + 1 /\ Dist(w, plus(e, 1)) = Dist(w, e) + 1
  BY <1>5, Types, DistSteps
<1>7. Dist(e', e') = 0
  BY <1>4, DistSteps
<1>8. QED
  BY <1>1, <1>3, <1>4, <1>6, <1>7

\* consoleintr() stores the character and wakes the readers of a line.
LEMMA StoreStep ==
  ASSUME ConsoleConstants, Inv, uartintr, intr_store
  PROVE  Inv'
<1>0. /\ UNCHANGED <<r, irq, tx_w, tx_r, tx_lock, moving, thr, got, killed, wat, panicked>>
      /\ intr = "store" /\ cons_lock' = None /\ c' = None /\ intr' \in {"want", "tx"}
  BY DEF uartintr, intr_store, intr_unlock, uartgetc, txv
<1>1. /\ Dist(r, w) + Dist(w, e) < INPUT_BUF /\ c \in Stored
      /\ e' = plus(e, 1) /\ buf' = [buf EXCEPT ![slot(e)] = c]
      /\ \/ w' = e' /\ at' = wake(at)
         \/ UNCHANGED <<w, at>>
  BY DEF intr_store, Inv, EchoInv
<1>2. /\ e' \in Index /\ w' \in Index /\ buf' \in [0..(INPUT_BUF - 1) -> Stored]
      /\ IF w' = e' THEN Dist(r, w)' = Dist(r, w) + Dist(w, e) + 1 /\ Dist(w, e)' = 0
                    ELSE Dist(r, w)' = Dist(r, w) /\ Dist(w, e)' = Dist(w, e) + 1
  BY <1>0, <1>1, StoreKeeps DEF Inv
<1>3. Dist(r, w) \in Nat /\ Dist(w, e) \in Nat /\ INPUT_BUF \in Nat
  BY Types, DistSteps DEF Inv
<1>4. TypeOK'
  BY <1>0, <1>1, <1>2 DEF Inv, TypeOK, Index, wake
<1>5. RingInv' /\ EchoInv'
  BY <1>0, <1>1, <1>2, <1>3 DEF RingInv, EchoInv
<1>6. LockInv'
  BY <1>0, <1>1 DEF Inv, LockInv, ConsoleConstants, wake, TypeOK
<1>7. SleepInv'
  BY <1>0, <1>1 DEF Inv, SleepInv, wake
<1>8. TransmitStarts'
  BY <1>0 DEF Inv, TransmitStarts
<1>9. QED
  BY <1>4, <1>5, <1>6, <1>7, <1>8 DEF Inv

\* The first state.
LEMMA InitInv == ASSUME ConsoleConstants, Init PROVE Inv
<1>1. TypeOK
  <2>1. 0 \in 0..(WIDTH - 1) /\ 0 \in 0..(TX_SIZE - 1)
    BY DEF ConsoleConstants, WIDTH
  <2>2. buf \in [0..(INPUT_BUF - 1) -> Stored] /\ {r, w, e} \subseteq 0..(WIDTH - 1)
    BY <2>1 DEF Init, Stored
  <2>3. at \in [Reader -> {"idle", "want", "loop", "asleep"}]
    BY DEF Init
  <2>4. got \in [Reader -> BOOLEAN] /\ killed \in [Reader -> BOOLEAN]
    BY DEF Init
  <2>5. QED
    BY <2>1, <2>2, <2>3, <2>4 DEF Init, TypeOK
<1>2. Dist(r, w) = 0 /\ Dist(w, e) = 0
  BY <1>1, Types, DistSteps DEF Init
<1>3. RingInv /\ EchoInv /\ SleepInv /\ TransmitStarts
  BY <1>2, Types, <1>1 DEF Init, RingInv, EchoInv, SleepInv, TransmitStarts
<1>4. LockInv
  BY DEF Init, LockInv, ConsoleConstants
<1>5. QED
  BY <1>1, <1>3, <1>4 DEF Inv

\* Every step keeps the invariant.
LEMMA NextInv == ASSUME ConsoleConstants, Inv, [Next]_vars PROVE Inv'
<1>1. CASE UNCHANGED vars
  BY <1>1 DEF vars, conv, readv, txv, Inv, TypeOK, RingInv, LockInv, EchoInv, SleepInv,
              TransmitStarts, Dist, WIDTH
<1>2. CASE \E p \in Reader : consoleread(p)
  BY <1>2, ReadCharStep, ReadLockStep DEF consoleread
<1>3. CASE consolewrite \/ printf \/ transmit
  BY <1>3, WriteStep, RegisterStep
<1>4. CASE uartintr
  BY <1>4, IntrStep, EditStep, StoreStep DEF uartintr
<1>5. QED
  BY <1>1, <1>2, <1>3, <1>4 DEF Next

\* The invariant holds in every reachable state.
THEOREM Invariance == ConsoleConstants => (Spec => []Inv)
<1> SUFFICES ASSUME ConsoleConstants PROVE Spec => []Inv
  OBVIOUS
<1>1. Init => Inv
  BY InitInv
<1>2. Inv /\ [Next]_vars => Inv'
  BY NextInv
<1>3. QED
  BY <1>1, <1>2, PTL DEF Spec

\* consoleread() of any number of readers: none stays asleep when consoleintr()
\* has ended a line.
THEOREM ReadersAlwaysWake == ConsoleConstants => (Spec => []ReadersWake)
<1> SUFFICES ASSUME ConsoleConstants PROVE Spec => []ReadersWake
  OBVIOUS
<1>1. Inv => ReadersWake
  BY DEF Inv, SleepInv, ReadersWake, NoMissedWakeup
<1>2. QED
  BY <1>1, Invariance, PTL

\* uart.c: between the look at the transmit register and the write to it the
\* driver itself does not fill it, and a character in the ring of an idle UART
\* has an interrupt coming.
THEOREM TransmitAlwaysRight == ConsoleConstants => (Spec => []TransmitRight)
<1> SUFFICES ASSUME ConsoleConstants PROVE Spec => []TransmitRight
  OBVIOUS
<1>1. Inv => TransmitRight
  <2> SUFFICES ASSUME Inv PROVE moving => intr # "put"
    BY DEF Inv, TransmitRight, OneSender
  <2>1. QED
    BY DEF Inv, TypeOK, LockInv, ConsoleConstants
<1>2. QED
  BY <1>1, Invariance, PTL

\* n characters of a ring b from index x on.
Window(b, x, n) == [k \in 1..n |-> b[slot(x + k - 1)]]

\* They are a sequence.
LEMMA WindowIs ==
  ASSUME ConsoleConstants, NEW b \in [0..(INPUT_BUF - 1) -> Stored], NEW x \in Index,
         NEW n \in 0..INPUT_BUF
  PROVE  /\ Window(b, x, n) \in Seq(Stored) /\ Len(Window(b, x, n)) = n
         /\ \A k \in 1..n : Window(b, x, n)[k] = b[slot(x + (k - 1))]
<1>1. ASSUME NEW k \in 1..n
      PROVE  slot(x + k - 1) \in 0..(INPUT_BUF - 1) /\ x + (k - 1) = x + k - 1
  <2>1. x + k - 1 \in 0..(3 * INPUT_BUF - 1) /\ x + (k - 1) = x + k - 1
    BY DEF ConsoleConstants, Index, WIDTH
  <2>2. QED
    BY <2>1, SlotIs
<1>2. Window(b, x, n) \in [1..n -> Stored]
  BY <1>1 DEF Window
<1>3. Window(b, x, n) \in Seq(Stored) /\ Len(Window(b, x, n)) = n
  BY <1>2
<1>4. \A k \in 1..n : Window(b, x, n)[k] = b[slot(x + (k - 1))]
  BY <1>1 DEF Window
<1>5. QED
  BY <1>3, <1>4

\* Slots are counted from any index of the ring.
LEMMA SlotShift ==
  ASSUME ConsoleConstants, NEW x \in Index, NEW y \in Index, NEW k \in Nat,
         Dist(x, y) + k =< INPUT_BUF
  PROVE  slot(y + k) = slot(x + (Dist(x, y) + k))
<1>1. Dist(x, y) = IF y >= x THEN y - x ELSE y - x + WIDTH
  BY DistIs
<1>2. /\ INPUT_BUF \in Nat /\ INPUT_BUF > 0 /\ WIDTH = 2 * INPUT_BUF
      /\ x \in 0..(WIDTH - 1) /\ y \in 0..(WIDTH - 1)
  BY DEF ConsoleConstants, Index, WIDTH
<1> DEFINE u == y + k
           z == x + (Dist(x, y) + k)
<1>3. u \in 0..(3 * INPUT_BUF - 1) /\ z \in 0..(3 * INPUT_BUF - 1)
  BY <1>1, <1>2
<1>4. z = IF y >= x THEN u ELSE u + 2 * INPUT_BUF
  BY <1>1, <1>2
<1> HIDE DEF u, z
<1>5. /\ slot(u) = IF u < INPUT_BUF THEN u
                   ELSE IF u < 2 * INPUT_BUF THEN u - INPUT_BUF ELSE u - 2 * INPUT_BUF
      /\ slot(z) = IF z < INPUT_BUF THEN z
                   ELSE IF z < 2 * INPUT_BUF THEN z - INPUT_BUF ELSE z - 2 * INPUT_BUF
  BY <1>3, SlotIs
<1>6. slot(u) = slot(z)
  BY <1>2, <1>3, <1>4, <1>5
<1>7. QED
  BY <1>6 DEF u, z

\* Characters of the ring have different slots.
LEMMA SlotDiffer ==
  ASSUME ConsoleConstants, NEW x \in Index,
         NEW a \in 0..(INPUT_BUF - 1), NEW b \in 0..(INPUT_BUF - 1),
         a # b
  PROVE  slot(x + a) # slot(x + b)
<1>1. INPUT_BUF \in Nat /\ INPUT_BUF > 0 /\ x \in 0..(2 * INPUT_BUF - 1)
  BY DEF ConsoleConstants, Index, WIDTH
<1> DEFINE u == x + a
           z == x + b
<1>2. /\ u \in 0..(3 * INPUT_BUF - 1) /\ z \in 0..(3 * INPUT_BUF - 1)
      /\ u # z /\ u - z < INPUT_BUF /\ z - u < INPUT_BUF
  BY <1>1
<1> HIDE DEF u, z
<1>3. /\ slot(u) = IF u < INPUT_BUF THEN u
                   ELSE IF u < 2 * INPUT_BUF THEN u - INPUT_BUF ELSE u - 2 * INPUT_BUF
      /\ slot(z) = IF z < INPUT_BUF THEN z
                   ELSE IF z < 2 * INPUT_BUF THEN z - INPUT_BUF ELSE z - 2 * INPUT_BUF
  BY <1>2, SlotIs
<1>4. slot(u) # slot(z)
  BY <1>1, <1>2, <1>3
<1>5. QED
  BY <1>4 DEF u, z

\* The ended lines and the line being typed, both counted from x.
LEMMA Halves ==
  ASSUME ConsoleConstants, NEW b \in [0..(INPUT_BUF - 1) -> Stored],
         NEW x \in Index, NEW y \in Index, NEW z \in Index,
         Dist(x, y) + Dist(y, z) =< INPUT_BUF
  PROVE  /\ Dist(x, y) \in Nat /\ Dist(y, z) \in Nat
         /\ Window(b, x, Dist(x, y)) \in Seq(Stored)
         /\ Len(Window(b, x, Dist(x, y))) = Dist(x, y)
         /\ \A k \in 1..Dist(x, y) :
              Window(b, x, Dist(x, y))[k] = b[slot(x + (k - 1))]
         /\ Window(b, y, Dist(y, z)) \in Seq(Stored)
         /\ Len(Window(b, y, Dist(y, z))) = Dist(y, z)
         /\ \A k \in 1..Dist(y, z) :
              Window(b, y, Dist(y, z))[k] = b[slot(x + (Dist(x, y) + (k - 1)))]
<1>1. Dist(x, y) \in Nat /\ Dist(y, z) \in Nat
  BY DistIs
<1> DEFINE m == Dist(x, y)
           n == Dist(y, z)
<1>2. m \in 0..INPUT_BUF /\ n \in 0..INPUT_BUF /\ INPUT_BUF \in Nat /\ m + n =< INPUT_BUF
  BY <1>1 DEF ConsoleConstants
<1>3. ASSUME NEW k \in 1..n PROVE slot(y + (k - 1)) = slot(x + (Dist(x, y) + (k - 1)))
  <2>1. k - 1 \in Nat /\ Dist(x, y) + (k - 1) =< INPUT_BUF
    BY <1>2
  <2>2. QED
    BY <2>1, SlotShift
<1>4. \A k \in 1..n : Window(b, y, n)[k] = b[slot(y + (k - 1))]
  BY <1>2, WindowIs
<1>5. \A k \in 1..n : Window(b, y, n)[k] = b[slot(x + (Dist(x, y) + (k - 1)))]
  BY <1>3, <1>4
<1>6. QED
  BY <1>1, <1>2, <1>5, WindowIs

\* content() is a window of the ring.
LEMMA ContentIs ==
  /\ content(r, w) = Window(buf, r, Dist(r, w)) /\ content(w, e) = Window(buf, w, Dist(w, e))
  /\ content(r, w)' = Window(buf', r', Dist(r', w'))
  /\ content(w, e)' = Window(buf', w', Dist(w', e'))
BY DEF content, Window, Dist, WIDTH, slot

\* The characters of the ring, before and after a step.
LEMMA Chars ==
  ASSUME ConsoleConstants, Inv, Inv'
  PROVE  /\ Dist(r, w) \in Nat /\ Dist(w, e) \in Nat
         /\ Dist(r, w) + Dist(w, e) =< INPUT_BUF
         /\ content(r, w) \in Seq(Stored) /\ Len(content(r, w)) = Dist(r, w)
         /\ \A k \in 1..Dist(r, w) : content(r, w)[k] = buf[slot(r + (k - 1))]
         /\ content(w, e) \in Seq(Stored) /\ Len(content(w, e)) = Dist(w, e)
         /\ \A k \in 1..Dist(w, e) :
              content(w, e)[k] = buf[slot(r + (Dist(r, w) + (k - 1)))]
         /\ Dist(r', w') \in Nat /\ Dist(w', e') \in Nat
         /\ Dist(r', w') + Dist(w', e') =< INPUT_BUF
         /\ content(r, w)' \in Seq(Stored) /\ Len(content(r, w)') = Dist(r', w')
         /\ \A k \in 1..Dist(r', w') : content(r, w)'[k] = buf'[slot(r' + (k - 1))]
         /\ content(w, e)' \in Seq(Stored) /\ Len(content(w, e)') = Dist(w', e')
         /\ \A k \in 1..Dist(w', e') :
              content(w, e)'[k] = buf'[slot(r' + (Dist(r', w') + (k - 1)))]
<1>1. /\ buf \in [0..(INPUT_BUF - 1) -> Stored] /\ r \in Index /\ w \in Index /\ e \in Index
      /\ Dist(r, w) + Dist(w, e) =< INPUT_BUF
  BY DEF Inv, TypeOK, RingInv, Index
<1>2. /\ buf' \in [0..(INPUT_BUF - 1) -> Stored] /\ r' \in Index /\ w' \in Index /\ e' \in Index
      /\ Dist(r', w') + Dist(w', e') =< INPUT_BUF
  BY DEF Inv, TypeOK, RingInv, Index, Dist, WIDTH
<1>3. /\ Dist(r, w) \in Nat /\ Dist(w, e) \in Nat
      /\ content(r, w) \in Seq(Stored) /\ Len(content(r, w)) = Dist(r, w)
      /\ \A k \in 1..Dist(r, w) : content(r, w)[k] = buf[slot(r + (k - 1))]
      /\ content(w, e) \in Seq(Stored) /\ Len(content(w, e)) = Dist(w, e)
      /\ \A k \in 1..Dist(w, e) :
           content(w, e)[k] = buf[slot(r + (Dist(r, w) + (k - 1)))]
  <2>1. /\ Dist(r, w) \in Nat /\ Dist(w, e) \in Nat
        /\ Window(buf, r, Dist(r, w)) \in Seq(Stored)
        /\ Len(Window(buf, r, Dist(r, w))) = Dist(r, w)
        /\ \A k \in 1..Dist(r, w) :
             Window(buf, r, Dist(r, w))[k] = buf[slot(r + (k - 1))]
        /\ Window(buf, w, Dist(w, e)) \in Seq(Stored)
        /\ Len(Window(buf, w, Dist(w, e))) = Dist(w, e)
        /\ \A k \in 1..Dist(w, e) :
             Window(buf, w, Dist(w, e))[k] = buf[slot(r + (Dist(r, w) + (k - 1)))]
    BY <1>1, Halves
  <2>2. QED
    BY <2>1, ContentIs, Zenon
<1>4. /\ Dist(r', w') \in Nat /\ Dist(w', e') \in Nat
      /\ content(r, w)' \in Seq(Stored) /\ Len(content(r, w)') = Dist(r', w')
      /\ \A k \in 1..Dist(r', w') : content(r, w)'[k] = buf'[slot(r' + (k - 1))]
      /\ content(w, e)' \in Seq(Stored) /\ Len(content(w, e)') = Dist(w', e')
      /\ \A k \in 1..Dist(w', e') :
           content(w, e)'[k] = buf'[slot(r' + (Dist(r', w') + (k - 1)))]
  <2>1. /\ Dist(r', w') \in Nat /\ Dist(w', e') \in Nat
        /\ Window(buf', r', Dist(r', w')) \in Seq(Stored)
        /\ Len(Window(buf', r', Dist(r', w'))) = Dist(r', w')
        /\ \A k \in 1..Dist(r', w') :
             Window(buf', r', Dist(r', w'))[k] = buf'[slot(r' + (k - 1))]
        /\ Window(buf', w', Dist(w', e')) \in Seq(Stored)
        /\ Len(Window(buf', w', Dist(w', e'))) = Dist(w', e')
        /\ \A k \in 1..Dist(w', e') :
             Window(buf', w', Dist(w', e'))[k] = buf'[slot(r' + (Dist(r', w') + (k - 1)))]
    BY <1>2, Halves
  <2>2. QED
    BY <2>1, ContentIs, Zenon
<1>5. QED
  BY <1>1, <1>2, <1>3, <1>4

\* consoleread() takes the first character of the ended lines.
LEMMA TakeRefines ==
  ASSUME ConsoleConstants, Inv, Inv', r # w, take_char, UNCHANGED <<w, e>>
  PROVE  /\ content(r, w) # << >> /\ content(r, w)' = Tail(content(r, w))
         /\ content(w, e)' = content(w, e)
<1> DEFINE m == Dist(r, w)
           n == Dist(w, e)
           s == content(r, w)
           t == content(w, e)
<1>1. r \in Index /\ w \in Index /\ r' = plus(r, 1) /\ r' \in Index /\ INPUT_BUF \in Nat
  BY Types, DistSteps DEF Inv, take_char
<1>2. Dist(r', w') = m - 1 /\ Dist(w', e') = n
  BY TakeKeeps DEF Inv, Dist, WIDTH
<1>3. Dist(r, r') = 1
  <2>1. Dist(r, r) = 0 /\ (Dist(r, r) < WIDTH - 1 => Dist(r, plus(r, 1)) = Dist(r, r) + 1)
    BY <1>1, DistSteps
  <2>2. QED
    BY <1>1, <2>1, Types DEF Inv
<1>4. /\ m \in Nat /\ n \in Nat /\ m + n =< INPUT_BUF /\ m - 1 \in Nat
      /\ s \in Seq(Stored) /\ Len(s) = m
      /\ \A k \in 1..m : s[k] = buf[slot(r + (k - 1))]
      /\ t \in Seq(Stored) /\ Len(t) = n
      /\ \A k \in 1..n : t[k] = buf[slot(r + (m + (k - 1)))]
      /\ s' \in Seq(Stored) /\ Len(s') = m - 1
      /\ \A k \in 1..(m - 1) : s'[k] = buf'[slot(r' + (k - 1))]
      /\ t' \in Seq(Stored) /\ Len(t') = n
      /\ \A k \in 1..n : t'[k] = buf'[slot(r' + (m - 1 + (k - 1)))]
  BY <1>2, Chars
<1> HIDE DEF m, n, s, t
<1>5. ASSUME NEW j \in 1..(m + n - 1)
      PROVE  slot(r' + (j - 1)) = slot(r + j) /\ buf'[slot(r' + (j - 1))] = buf[slot(r + j)]
  <2>1. j - 1 \in Nat /\ Dist(r, r') + (j - 1) = j /\ j =< INPUT_BUF
    BY <1>1, <1>3, <1>4
  <2>2. slot(r' + (j - 1)) = slot(r + j)
    BY <1>1, <2>1, SlotShift
  <2>3. j \in 0..(INPUT_BUF - 1) /\ 0 \in 0..(INPUT_BUF - 1) /\ j # 0 /\ r + 0 = r
    BY <1>1, <1>4 DEF Index, WIDTH
  <2>4. slot(r + j) # slot(r)
    BY <1>1, <2>3, SlotDiffer
  <2>5. buf'[slot(r + j)] = buf[slot(r + j)]
    BY <2>4 DEF take_char
  <2>6. QED
    BY <2>2, <2>5
<1>6. ASSUME NEW k \in 1..(m - 1) PROVE s'[k] = s[k + 1]
  <2>1. k \in 1..(m + n - 1) /\ k + 1 \in 1..m /\ (k + 1) - 1 = k
    BY <1>4
  <2>2. s[k + 1] = buf[slot(r + k)]
    BY <1>4, <2>1
  <2>3. QED
    BY <1>4, <1>5, <2>1, <2>2
<1>7. ASSUME NEW k \in 1..n PROVE t'[k] = t[k]
  <2>1. m + (k - 1) \in 1..(m + n - 1) /\ (m + (k - 1)) - 1 = m - 1 + (k - 1)
    BY <1>4
  <2>2. buf'[slot(r' + ((m + (k - 1)) - 1))] = buf[slot(r + (m + (k - 1)))]
    BY <1>5, <2>1
  <2>3. QED
    BY <1>4, <2>1, <2>2
<1>8. s # << >>
  BY <1>4
<1>9. s' = Tail(s)
  <2>1. /\ Tail(s) \in Seq(Stored) /\ Len(Tail(s)) = m - 1
        /\ \A k \in 1..(m - 1) : Tail(s)[k] = s[k + 1]
    BY <1>4, <1>8
  <2>2. QED
    BY <1>4, <1>6, <2>1, SeqEqual
<1>10. t' = t
  BY <1>4, <1>7, SeqEqual
<1>11. QED
  BY <1>8, <1>9, <1>10 DEF s, t

\* consoleintr() erases the last character of the line being typed.
LEMMA EraseRefines ==
  ASSUME ConsoleConstants, Inv, Inv', e # w, e' = plus(e, -1),
         buf' = [buf EXCEPT ![slot(e')] = "x"], UNCHANGED <<r, w>>
  PROVE  /\ content(w, e) # << >> /\ content(w, e)' = T!Front(content(w, e))
         /\ content(r, w)' = content(r, w)
<1> DEFINE m == Dist(r, w)
           n == Dist(w, e)
           s == content(r, w)
           t == content(w, e)
<1>1. /\ r \in Index /\ w \in Index /\ e \in Index /\ e' \in Index
      /\ INPUT_BUF \in Nat /\ WIDTH = 2 * INPUT_BUF
  BY Types, DistSteps DEF Inv
<1>2. Dist(r', w') = m /\ Dist(w', e') = n - 1 /\ Dist(w, e') = n - 1
  BY EraseKeeps DEF Inv, Dist, WIDTH
<1>3. /\ m \in Nat /\ n \in Nat /\ m + n =< INPUT_BUF /\ n - 1 \in Nat
      /\ s \in Seq(Stored) /\ Len(s) = m
      /\ \A k \in 1..m : s[k] = buf[slot(r + (k - 1))]
      /\ t \in Seq(Stored) /\ Len(t) = n
      /\ \A k \in 1..n : t[k] = buf[slot(r + (m + (k - 1)))]
      /\ s' \in Seq(Stored) /\ Len(s') = m
      /\ \A k \in 1..m : s'[k] = buf'[slot(r + (k - 1))]
      /\ t' \in Seq(Stored) /\ Len(t') = n - 1
      /\ \A k \in 1..(n - 1) : t'[k] = buf'[slot(r + (m + (k - 1)))]
  BY <1>2, Chars
<1>4. Dist(r, e') = m + (n - 1)
  <2>1. Dist(r, w) + Dist(w, e') < WIDTH
    BY <1>1, <1>2, <1>3
  <2>2. QED
    BY <1>1, <1>2, <2>1, DistSum
<1> HIDE DEF m, n, s, t
<1>5. slot(e') = slot(r + (m + n - 1))
  <2>1. Dist(r, e') + 0 =< INPUT_BUF /\ e' + 0 = e' /\ Dist(r, e') + 0 = m + n - 1
    BY <1>1, <1>3, <1>4 DEF Index
  <2>2. QED
    BY <1>1, <2>1, SlotShift
<1>6. ASSUME NEW j \in 0..(m + n - 2) PROVE buf'[slot(r + j)] = buf[slot(r + j)]
  <2>1. j \in 0..(INPUT_BUF - 1) /\ m + n - 1 \in 0..(INPUT_BUF - 1) /\ j # m + n - 1
    BY <1>1, <1>3
  <2>2. slot(r + j) # slot(r + (m + n - 1))
    BY <1>1, <2>1, SlotDiffer
  <2>3. QED
    BY <1>5, <2>2
<1>7. \A k \in 1..m : s'[k] = s[k]
  <2> SUFFICES ASSUME NEW k \in 1..m PROVE s'[k] = s[k]
    OBVIOUS
  <2>1. k - 1 \in 0..(m + n - 2)
    BY <1>3
  <2>2. QED
    BY <1>3, <1>6, <2>1
<1>8. \A k \in 1..(n - 1) : t'[k] = t[k]
  <2> SUFFICES ASSUME NEW k \in 1..(n - 1) PROVE t'[k] = t[k]
    OBVIOUS
  <2>1. m + (k - 1) \in 0..(m + n - 2) /\ k \in 1..n
    BY <1>3
  <2>2. QED
    BY <1>3, <1>6, <2>1
<1>9. t # << >>
  BY <1>3
<1>10. t' = T!Front(t)
  <2>1. T!Front(t) = SubSeq(t, 1, n - 1)
    BY <1>3 DEF T!Front
  <2>2. /\ SubSeq(t, 1, n - 1) \in Seq(Stored) /\ Len(SubSeq(t, 1, n - 1)) = n - 1
        /\ \A k \in 1..(n - 1) : SubSeq(t, 1, n - 1)[k] = t[k]
    BY <1>3
  <2>3. QED
    BY <1>3, <1>8, <2>1, <2>2, SeqEqual
<1>11. s' = s
  BY <1>3, <1>7, SeqEqual
<1>12. QED
  BY <1>9, <1>10, <1>11 DEF s, t

\* A line ends with an ender or when the ring is full.
LEMMA LineEnds ==
  ASSUME ConsoleConstants, Inv, Dist(r, w) + Dist(w, e) < INPUT_BUF
  PROVE  plus(e, 1) = plus(r, INPUT_BUF) <=> Dist(r, w) + Dist(w, e) = INPUT_BUF - 1
<1>1. /\ r \in Index /\ w \in Index /\ e \in Index
      /\ INPUT_BUF \in Nat /\ INPUT_BUF > 0 /\ WIDTH = 2 * INPUT_BUF /\ Index = 0..(WIDTH - 1)
  BY Types DEF Inv
<1>2. Dist(r, e) = Dist(r, w) + Dist(w, e)
  BY Room DEF Inv
<1>3. Dist(r, e) = IF e >= r THEN e - r ELSE e - r + WIDTH
  BY <1>1, DistIs
<1>a. 1 \in -1..INPUT_BUF /\ INPUT_BUF \in -1..INPUT_BUF /\ ~(e + 1 < 0) /\ ~(r + INPUT_BUF < 0)
  BY <1>1
<1>4. plus(e, 1) = IF e + 1 < WIDTH THEN e + 1 ELSE e + 1 - WIDTH
  BY <1>1, <1>a, PlusIs
<1>5. plus(r, INPUT_BUF) = IF r + INPUT_BUF < WIDTH THEN r + INPUT_BUF ELSE r + INPUT_BUF - WIDTH
  BY <1>1, <1>a, PlusIs
<1>6. Dist(r, e) < INPUT_BUF
  BY <1>2
<1>7. plus(e, 1) = plus(r, INPUT_BUF) <=> Dist(r, e) = INPUT_BUF - 1
  BY <1>1, <1>3, <1>4, <1>5, <1>6
<1>8. QED
  BY <1>2, <1>7

\* consoleintr() adds a character to the line being typed, or ends it.
LEMMA StoreRefines ==
  ASSUME ConsoleConstants, Inv, Inv', intr_store
  PROVE  T!Type(c)
<1> DEFINE m == Dist(r, w)
           n == Dist(w, e)
           s == content(r, w)
           t == content(w, e)
<1>1. /\ c \in Stored /\ m + n < INPUT_BUF /\ r' = r
      /\ e' = plus(e, 1) /\ buf' = [buf EXCEPT ![slot(e)] = c]
      /\ w' = IF line_ends THEN e' ELSE w
  BY DEF Inv, EchoInv, intr_store
<1>2. /\ r \in Index /\ w \in Index /\ e \in Index /\ INPUT_BUF \in Nat
      /\ buf \in [0..(INPUT_BUF - 1) -> Stored]
  BY Types DEF Inv, TypeOK
<1>3. IF w' = e' THEN Dist(r', w') = m + n + 1 /\ Dist(w', e') = 0
                 ELSE Dist(r', w') = m /\ Dist(w', e') = n + 1
  BY <1>1, StoreKeeps DEF Inv, Dist, WIDTH
<1>4. line_ends <=> c \in {"NL", "EOF"} \/ m + n = INPUT_BUF - 1
  BY <1>1, LineEnds DEF line_ends
<1>5. line_ends <=> w' = e'
  <2>1. Dist(w, plus(e, 1)) = n + 1
    <3>1. n \in Nat /\ m \in Nat /\ WIDTH = 2 * INPUT_BUF
      BY <1>2, DistSteps, Types DEF Inv
    <3>2. n < WIDTH - 1
      BY <1>1, <1>2, <3>1
    <3>3. QED
      BY <1>2, <3>2, DistSteps
  <2>2. Dist(w, w) = 0 /\ n \in Nat
    BY <1>2, DistSteps
  <2>3. w # plus(e, 1)
    BY <2>1, <2>2
  <2>4. QED
    BY <1>1, <2>3
<1>6. /\ m \in Nat /\ n \in Nat
      /\ s \in Seq(Stored) /\ Len(s) = m
      /\ \A k \in 1..m : s[k] = buf[slot(r + (k - 1))]
      /\ t \in Seq(Stored) /\ Len(t) = n
      /\ \A k \in 1..n : t[k] = buf[slot(r + (m + (k - 1)))]
      /\ s' \in Seq(Stored) /\ Len(s') = Dist(r', w')
      /\ \A k \in 1..Dist(r', w') : s'[k] = buf'[slot(r + (k - 1))]
      /\ t' \in Seq(Stored) /\ Len(t') = Dist(w', e')
      /\ \A k \in 1..Dist(w', e') : t'[k] = buf'[slot(r + (Dist(r', w') + (k - 1)))]
  BY <1>1, Chars
<1>7. Dist(r, e) = m + n
  BY Room DEF Inv
<1> HIDE DEF m, n, s, t
<1>8. slot(e) = slot(r + (m + n)) /\ slot(e) \in 0..(INPUT_BUF - 1)
  <2>1. Dist(r, e) + 0 =< INPUT_BUF /\ e + 0 = e /\ Dist(r, e) + 0 = m + n
    BY <1>1, <1>2, <1>6, <1>7 DEF Index
  <2>2. e \in 0..(3 * INPUT_BUF - 1)
    BY <1>2 DEF Index, WIDTH
  <2>3. QED
    BY <1>2, <2>1, <2>2, SlotShift, SlotIs
<1>9. ASSUME NEW j \in 0..(m + n - 1) PROVE buf'[slot(r + j)] = buf[slot(r + j)]
  <2>1. j \in 0..(INPUT_BUF - 1) /\ m + n \in 0..(INPUT_BUF - 1) /\ j # m + n
    BY <1>1, <1>2, <1>6
  <2>2. slot(r + j) # slot(r + (m + n))
    BY <1>2, <2>1, SlotDiffer
  <2>3. QED
    BY <1>1, <1>8, <2>2
<1>10. buf'[slot(r + (m + n))] = c
  BY <1>1, <1>2, <1>8
<1>11. \A k \in 1..m : buf'[slot(r + (k - 1))] = s[k]
  <2> SUFFICES ASSUME NEW k \in 1..m PROVE buf'[slot(r + (k - 1))] = s[k]
    OBVIOUS
  <2>1. k - 1 \in 0..(m + n - 1)
    BY <1>6
  <2>2. QED
    BY <1>6, <1>9, <2>1
<1>12. \A k \in 1..n : buf'[slot(r + (m + (k - 1)))] = t[k]
  <2> SUFFICES ASSUME NEW k \in 1..n PROVE buf'[slot(r + (m + (k - 1)))] = t[k]
    OBVIOUS
  <2>1. m + (k - 1) \in 0..(m + n - 1)
    BY <1>6
  <2>2. QED
    BY <1>6, <1>9, <2>1
<1>13. CASE line_ends
  <2>1. Dist(r', w') = m + n + 1 /\ Dist(w', e') = 0
    BY <1>3, <1>5, <1>13
  <2>2. t' = << >>
    BY <1>6, <2>1
  <2> DEFINE u == s \o t \o <<c>>
  <2>3. /\ u \in Seq(Stored) /\ Len(u) = m + n + 1
        /\ \A k \in 1..m : u[k] = s[k]
        /\ \A k \in 1..n : u[m + k] = t[k]
        /\ u[m + n + 1] = c
    <3>1. /\ s \o t \in Seq(Stored) /\ Len(s \o t) = m + n
          /\ \A k \in 1..m : (s \o t)[k] = s[k]
          /\ \A k \in 1..n : (s \o t)[m + k] = t[k]
      <4>1. /\ s \o t \in Seq(Stored) /\ Len(s \o t) = m + n
            /\ \A k \in 1..(m + n) : (s \o t)[k] = IF k =< m THEN s[k] ELSE t[k - m]
        <5>1. s \in Seq(Stored) /\ t \in Seq(Stored) /\ Len(s) = m /\ Len(t) = n
          BY <1>6
        <5>2. QED
          BY <5>1, ConcatProperties
      <4>2. \A k \in 1..m : k \in 1..(m + n) /\ k =< m
        BY <1>6
      <4>3. \A k \in 1..n : m + k \in 1..(m + n) /\ ~(m + k =< m) /\ (m + k) - m = k
        BY <1>6
      <4>4. QED
        BY <4>1, <4>2, <4>3
    <3> DEFINE v == s \o t
    <3>a. v \in Seq(Stored) /\ Len(v) = m + n /\ m + n \in Nat
      BY <1>6, <3>1
    <3> HIDE DEF v
    <3>2. /\ v \o <<c>> \in Seq(Stored) /\ Len(v \o <<c>>) = m + n + 1
          /\ \A k \in 1..(m + n) : (v \o <<c>>)[k] = v[k]
          /\ (v \o <<c>>)[m + n + 1] = c
      <4>1. <<c>> \in Seq(Stored) /\ Len(<<c>>) = 1 /\ <<c>>[1] = c
        BY <1>1
      <4>2. /\ v \o <<c>> \in Seq(Stored) /\ Len(v \o <<c>>) = m + n + 1
            /\ \A k \in 1..(m + n + 1) :
                 (v \o <<c>>)[k] = IF k =< m + n THEN v[k] ELSE <<c>>[k - (m + n)]
        BY <3>a, <4>1, ConcatProperties
      <4>3. \A k \in 1..(m + n) : k \in 1..(m + n + 1) /\ k =< m + n
        BY <3>a
      <4>4. /\ m + n + 1 \in 1..(m + n + 1) /\ ~(m + n + 1 =< m + n)
            /\ (m + n + 1) - (m + n) = 1
        BY <3>a
      <4>5. QED
        BY <4>1, <4>2, <4>3, <4>4
    <3>3. \A k \in 1..m : k \in 1..(m + n)
      BY <1>6
    <3>4. \A k \in 1..n : m + k \in 1..(m + n)
      BY <1>6
    <3>5. QED
      BY <3>1, <3>2, <3>3, <3>4 DEF v
  <2> HIDE DEF u
  <2>4. ASSUME NEW k \in 1..(m + n + 1) PROVE s'[k] = u[k]
    <3>0. s'[k] = buf'[slot(r + (k - 1))]
      BY <1>6, <2>1
    <3>1. CASE k \in 1..m
      BY <1>11, <2>3, <3>0, <3>1
    <3>2. CASE k - m \in 1..n
      <4>1. m + (k - m) = k /\ m + ((k - m) - 1) = k - 1
        BY <1>6
      <4>2. QED
        BY <1>12, <2>3, <3>0, <3>2, <4>1
    <3>3. CASE k = m + n + 1
      <4>1. k - 1 = m + n
        BY <1>6, <3>3
      <4>2. QED
        BY <1>10, <2>3, <3>0, <3>3, <4>1
    <3>4. QED
      BY <1>6, <3>1, <3>2, <3>3
  <2>5. s' = u
    BY <1>6, <2>1, <2>3, <2>4, SeqEqual
  <2>6. QED
    BY <1>1, <1>4, <1>6, <1>13, <2>2, <2>5 DEF T!Type, u, s, t
<1>14. CASE ~line_ends
  <2>1. Dist(r', w') = m /\ Dist(w', e') = n + 1
    BY <1>3, <1>5, <1>14
  <2>2. s' = s
    BY <1>6, <1>11, <2>1, SeqEqual
  <2>3. /\ Append(t, c) \in Seq(Stored) /\ Len(Append(t, c)) = n + 1
        /\ \A k \in 1..n : Append(t, c)[k] = t[k]
        /\ Append(t, c)[n + 1] = c
    BY <1>1, <1>6
  <2>4. ASSUME NEW k \in 1..(n + 1) PROVE t'[k] = Append(t, c)[k]
    <3>0. t'[k] = buf'[slot(r + (m + (k - 1)))]
      BY <1>6, <2>1
    <3>1. CASE k \in 1..n
      BY <1>12, <2>3, <3>0, <3>1
    <3>2. CASE k = n + 1
      <4>1. m + (k - 1) = m + n
        BY <1>6, <3>2
      <4>2. QED
        BY <1>10, <2>3, <3>0, <3>2, <4>1
    <3>3. k \in 1..n \/ k = n + 1
      BY <1>6
    <3>4. QED
      BY <3>1, <3>2, <3>3
  <2>5. t' = Append(t, c)
    BY <1>6, <2>1, <2>3, <2>4, SeqEqual
  <2>6. QED
    BY <1>1, <1>4, <1>6, <1>14, <2>2, <2>5 DEF T!Type, s, t
<1>15. QED
  BY <1>13, <1>14

\* Every step of the console is a step of Tty, or none.
LEMMA StepRefines ==
  ASSUME ConsoleConstants, Inv, [Next]_vars
  PROVE  T!Next \/ UNCHANGED <<content(r, w), content(w, e)>>
<1>0. Inv'
  BY NextInv
<1>1. CASE UNCHANGED <<buf, r, w, e>>
  BY <1>1 DEF content, slot, WIDTH
<1>2. CASE \E p \in Reader : consoleread(p) /\ read_char(p)
  <2>1. r # w /\ UNCHANGED <<w, e>> /\ (UNCHANGED <<buf, r>> \/ take_char)
    BY <1>2 DEF read_char, empty
  <2>2. CASE take_char
    BY <1>0, <2>1, <2>2, TakeRefines DEF T!Next, T!Take
  <2>3. QED
    BY <1>1, <2>1, <2>2
<1>3. CASE uartintr /\ consoleintr
  <2>1. /\ UNCHANGED <<r, w>>
        /\ \/ UNCHANGED <<buf, e>>
           \/ e # w /\ e' = plus(e, -1) /\ buf' = [buf EXCEPT ![slot(e')] = "x"]
    BY <1>3 DEF consoleintr, erasable
  <2>2. CASE e # w /\ e' = plus(e, -1) /\ buf' = [buf EXCEPT ![slot(e')] = "x"]
    BY <1>0, <2>1, <2>2, EraseRefines DEF T!Next, T!Erase
  <2>3. QED
    BY <1>1, <2>1, <2>2
<1>4. CASE uartintr /\ intr_store
  <2>1. c \in Stored
    BY <1>4 DEF Inv, EchoInv, intr_store
  <2>2. QED
    BY <1>0, <1>4, <2>1, StoreRefines DEF T!Next
<1>5. \/ UNCHANGED <<buf, r, w, e>>
      \/ \E p \in Reader : consoleread(p) /\ read_char(p)
      \/ uartintr /\ consoleintr
      \/ uartintr /\ intr_store
  <2>1. CASE UNCHANGED vars
    BY <2>1 DEF vars, conv
  <2>2. CASE \E p \in Reader : consoleread(p)
    BY <2>2 DEF consoleread, read_lock, read_wait, kill, conv
  <2>3. CASE consolewrite \/ printf \/ transmit
    BY <2>3 DEF consolewrite, printf, transmit, conv
  <2>4. CASE uartintr
    BY <2>4 DEF uartintr, intr_begin, intr_lock, intr_echo, intr_put, intr_start, conv
  <2>5. QED
    BY <2>1, <2>2, <2>3, <2>4 DEF Next
<1>6. QED
  BY <1>1, <1>2, <1>3, <1>4, <1>5

\* For any number of readers and any size of the ring, console.c implements the
\* line discipline of Tty: what is typed is read in order, once, and not before
\* its line is ended; only the line being typed is erased.
THEOREM ImplementsTty == ConsoleConstants => (Spec => LineDiscipline)
<1> SUFFICES ASSUME ConsoleConstants PROVE Spec => LineDiscipline
  OBVIOUS
<1>1. Init => T!Init
  <2> SUFFICES ASSUME Init PROVE T!Init
    OBVIOUS
  <2>1. r \in Index /\ w \in Index /\ e \in Index /\ r = w /\ w = e
    BY InitInv, Types DEF Inv, Init
  <2>2. Dist(r, w) = 0 /\ Dist(w, e) = 0
    BY <2>1, DistSteps
  <2>3. content(r, w) = Window(buf, r, 0) /\ content(w, e) = Window(buf, w, 0)
    BY <2>2, ContentIs
  <2>4. Window(buf, r, 0) = << >> /\ Window(buf, w, 0) = << >>
    BY DEF Window
  <2>5. QED
    BY <2>3, <2>4 DEF T!Init
<1>2. Inv /\ [Next]_vars => [T!Next]_<<content(r, w), content(w, e)>>
  BY StepRefines
<1>3. QED
  BY Invariance, <1>1, <1>2, PTL DEF Spec, LineDiscipline, T!Spec

-----------------------------------------------------------------------------
(* The inductive invariant of traps *)

\* Where interrupts may be on, and where a process may be without a hart.
Open == {"syscall", "sys_sleep", "killcheck", "ret"}
Away == {"ret", "kernelret", "sleep"}
\* Every place of a living process in the kernel.
Inside == Open \cup Away \cup {"usertrap", "kerneltrap", "ret_stvec", "ret_sret", "to_sleep"}

Causes == {"none", "quick", "sleep", "timer", "dev", "fault"}
Upc == 0..(MAXUPC - 1)
Tick == 0..(UINT - 1)
Fields == {"pc", "state", "cause", "killed", "epc", "hartid", "frame", "upc", "uleft",
           "kleft", "ticks0", "n"}

\* A process q has the place where it goes on in its trap frame and, in a trap
\* of the kernel, the place it left in the frame of kerneltrap().  Without a hart
\* it is at a place where the scheduler can go on with it.
ProcOK(q) ==
  /\ DOMAIN q = Fields
  /\ q.state \in {"RUNNABLE", "RUNNING", "SLEEPING", "ZOMBIE"}
  /\ q.pc \in Inside \cup {"user", "exit"}
  /\ q.state = "RUNNABLE" => q.pc \in Away
  /\ q.state = "SLEEPING" => q.pc = "sleep"
  /\ q.state = "ZOMBIE" => q.pc = "exit"
  /\ q.pc = "kerneltrap" => q.cause \in {"timer", "dev"} \X Causes
  /\ q.pc # "kerneltrap" => q.cause \in Causes
  /\ q.epc \in Upc /\ q.upc \in Upc /\ q.uleft \in Upc
  /\ q.ticks0 \in Tick /\ q.n \in Tick
  /\ q.pc \in Inside \ {"usertrap"} => q.epc = q.uleft
  /\ q.pc \in {"kerneltrap", "kernelret"} =>
       q.kleft \in Open /\ q.frame = <<"kernel", q.kleft>>

\* The trap vector, the interrupts and the registers x of hart h are right for
\* the place where its process q is.
HartOK(h, x, q) ==
  /\ DOMAIN x = {"p", "user", "sie", "stvec", "sepc", "tp"}
  /\ x.p \in Proc \cup {None} /\ x.user \in BOOLEAN /\ x.sie \in BOOLEAN
  /\ x.stvec \in {"kernelvec", "uservec"}
  /\ ~x.user => x.tp = h
  /\ x.p = None => ~x.user /\ x.stvec = "kernelvec"
  /\ x.p # None => q.state = "RUNNING"
  /\ x.user => x.stvec = "uservec" /\ q.pc = "user" /\ q.hartid = h
  /\ ~x.user /\ x.p # None =>
       /\ q.pc \in Inside
       /\ x.stvec = "uservec" <=> q.pc \in {"usertrap", "ret_sret"}
       /\ x.sie => q.pc \in Open
       /\ q.pc = "usertrap" =>
            /\ x.sepc[1] = "user" /\ x.sepc[2] \in Upc
            /\ q.uleft = IF q.cause \in {"quick", "sleep"} THEN (x.sepc[2] + 1) % MAXUPC
                                                           ELSE x.sepc[2]

\* Process q sleeps in sys_sleep(), or holds tickslock in order to.
Sleepy(q) == q.state = "SLEEPING" \/ q.pc = "to_sleep"

\* Nobody of them has slept long enough.
InTime == \A p \in Proc : Sleepy(proc[p]) => K!passed(p) < proc[p].n

\* No process runs on two harts.
Apart == \A g, h \in K!Hart : hart[g].p = hart[h].p => g = h \/ hart[h].p = None

TrapInv ==
  /\ DOMAIN hart = K!Hart /\ DOMAIN proc = Proc /\ ticks \in Tick
  /\ \A p \in Proc : ProcOK(proc[p])
  /\ \A h \in K!Hart : HartOK(h, hart[h], proc[hart[h].p])
  /\ Apart /\ K!VectorRight /\ InTime

-----------------------------------------------------------------------------
(* Steps of one hart *)

\* What other processes may see happen to process q: kill() or a wakeup.
Kept(q) ==
  /\ ProcOK(proc'[q])
  /\ proc'[q].pc = proc[q].pc /\ proc'[q].hartid = proc[q].hartid
  /\ proc'[q].cause = proc[q].cause /\ proc'[q].uleft = proc[q].uleft
  /\ proc[q].state = "RUNNING" => proc'[q].state = "RUNNING"

\* A step of hart h with process p keeps the invariant if it leaves the two in
\* order and does not disturb the others.
LEMMA StepKeeps ==
  ASSUME K!TrapConstants, TrapInv, NEW h \in K!Hart, NEW p \in Proc,
         DOMAIN hart' = K!Hart, DOMAIN proc' = Proc,
         trap_panicked' = trap_panicked, ticks' \in Tick,
         \/ hart[h].p = p
         \/ hart[h].p = None /\ proc[p].state = "RUNNABLE",
         hart'[h].p \in {p, None},
         \A g \in K!Hart \ {h} : hart'[g] = hart[g],
         \A q \in Proc \ {p} : Kept(q),
         ProcOK(proc'[p]),
         HartOK(h, hart'[h], proc'[hart'[h].p]),
         InTime'
  PROVE  TrapInv'
<1>0. \A g \in K!Hart : hart[g].p \in Proc \cup {None}
  BY DEF TrapInv, HartOK
<1>1. \A g \in K!Hart \ {h} : hart[g].p # p
  <2> SUFFICES ASSUME NEW g \in K!Hart \ {h}, hart[g].p = p PROVE FALSE
    OBVIOUS
  <2>1. hart[g].p # None
    BY DEF K!TrapConstants
  <2>2. proc[p].state = "RUNNING"
    BY <2>1 DEF TrapInv, HartOK
  <2>3. hart[h].p # p
    BY <2>1 DEF TrapInv, Apart
  <2>4. QED
    BY <2>2, <2>3
<1>2. \A q \in Proc : ProcOK(proc'[q])
  BY DEF Kept
<1>3. ASSUME NEW g \in K!Hart PROVE HartOK(g, hart'[g], proc'[hart'[g].p])
  <2>1. CASE g = h
    BY <2>1
  <2>2. CASE g # h
    <3>1. hart'[g] = hart[g] /\ HartOK(g, hart[g], proc[hart[g].p])
      BY <2>2 DEF TrapInv
    <3>2. CASE hart[g].p = None
      BY <3>1, <3>2 DEF HartOK
    <3>3. CASE hart[g].p # None
      <4>1. Kept(hart[g].p)
        BY <1>0, <1>1, <2>2, <3>3
      <4>2. QED
        BY <3>1, <3>3, <4>1 DEF HartOK, Kept
    <3>4. QED
      BY <3>2, <3>3
  <2>3. QED
    BY <2>1, <2>2
<1>4. Apart'
  BY <1>1 DEF TrapInv, Apart
<1>5. QED
  BY <1>2, <1>3, <1>4 DEF TrapInv, K!VectorRight

\* A process no step has touched.
LEMMA Untouched ==
  ASSUME TrapInv, NEW q \in Proc, proc'[q] = proc[q]
  PROVE  Kept(q)
BY DEF TrapInv, Kept

\* Such a step of a hart that has a process, with or without a tick.
LEMMA LocalStep ==
  ASSUME K!TrapConstants, TrapInv, NEW h \in K!Hart, hart[h].p # None, NEW y,
         \/ proc' = K!Set(h, y) /\ ticks' = ticks
         \/ K!clockintr(h, K!Set(h, y)),
         Sleepy(y) =>
           proc' = K!Set(h, y) /\ ticks' = ticks /\ (ticks - y.ticks0) % UINT < y.n,
         trap_panicked' = trap_panicked, DOMAIN hart' = K!Hart,
         hart'[h].p \in {hart[h].p, None},
         \A g \in K!Hart \ {h} : hart'[g] = hart[g],
         ProcOK(y), HartOK(h, hart'[h], y)
  PROVE  TrapInv'
<1> DEFINE p == hart[h].p
<1>1. p \in Proc
  BY DEF TrapInv, HartOK
<1>2. /\ DOMAIN proc = Proc
      /\ \A q \in Proc : ProcOK(proc[q])
      /\ InTime /\ ticks \in Tick
  BY DEF TrapInv
<1>3. CASE proc' = K!Set(h, y) /\ ticks' = ticks
  <2>1. DOMAIN proc' = Proc /\ proc'[p] = y /\ \A q \in Proc \ {p} : proc'[q] = proc[q]
    BY <1>1, <1>2, <1>3 DEF K!Set
  <2>2. \A q \in Proc \ {p} : Kept(q)
    BY <2>1, Untouched
  <2>3. InTime'
    BY <1>2, <1>3, <2>1 DEF InTime, Sleepy, K!passed
  <2>4. HartOK(h, hart'[h], proc'[hart'[h].p])
    BY <2>1 DEF HartOK
  <2> HIDE DEF p
  <2>5. QED
    BY <1>1, <1>2, <1>3, <2>1, <2>2, <2>3, <2>4, StepKeeps DEF p
<1>4. CASE /\ proc' = K!woken(K!Set(h, y)) /\ ticks' = (ticks + 1) % UINT
           /\ K!tickslock_free /\ ~Sleepy(y)
  <2>1. /\ DOMAIN proc' = Proc /\ proc'[p] = y
        /\ \A q \in Proc \ {p} : proc'[q] = IF proc[q].state = "SLEEPING"
                                           THEN [proc[q] EXCEPT !.state = "RUNNABLE"]
                                           ELSE proc[q]
    BY <1>1, <1>2, <1>4 DEF K!Set, K!woken, Sleepy
  <2>2. ASSUME NEW q \in Proc \ {p} PROVE Kept(q) /\ ~Sleepy(proc'[q])
    <3>1. Kept(q) /\ proc'[q].state # "SLEEPING"
      BY <1>2, <2>1 DEF Kept, ProcOK, Fields, Away
    <3>2. proc[q].pc # "to_sleep"
      BY <1>4 DEF K!tickslock_free
    <3>3. QED
      BY <3>1, <3>2 DEF Kept, Sleepy
  <2>3. InTime'
    BY <1>4, <2>1, <2>2 DEF InTime
  <2>4. HartOK(h, hart'[h], proc'[hart'[h].p])
    BY <2>1 DEF HartOK
  <2>5. ticks' \in Tick
    BY <1>2, <1>4 DEF Tick, K!TrapConstants
  <2> HIDE DEF p
  <2>6. QED
    BY <1>1, <1>2, <2>1, <2>2, <2>3, <2>4, <2>5, StepKeeps DEF p
<1>5. QED
  BY <1>3, <1>4 DEF K!clockintr

\* What the invariant says where a hart is in the kernel with its process.
LEMMA Here ==
  ASSUME TrapInv, NEW h \in K!Hart, hart[h].p # None
  PROVE  /\ DOMAIN hart = K!Hart /\ hart[h].p \in Proc
         /\ ProcOK(K!Cur(h)) /\ HartOK(h, hart[h], K!Cur(h))
BY DEF TrapInv, HartOK, K!Cur

-----------------------------------------------------------------------------
(* The actions *)

\* Instructions are numbered modulo MAXUPC.
LEMMA NextUpc ==
  ASSUME K!TrapConstants
  PROVE  0 \in Upc /\ 0 \in Tick /\ \A u \in Upc : (u + 1) % MAXUPC \in Upc
BY DEF K!TrapConstants, Upc, Tick

\* A trap from user mode.
LEMMA UserTrapStep ==
  ASSUME K!TrapConstants, TrapInv, NEW h \in K!Hart,
         NEW cause \in {"quick", "sleep", "timer", "dev", "fault"}, K!user_trap(h, cause)
  PROVE  TrapInv'
<1> DEFINE u == K!Cur(h).upc
           l == IF cause \in {"quick", "sleep"} THEN (u + 1) % MAXUPC ELSE u
           y == [K!Cur(h) EXCEPT !.pc = "usertrap", !.cause = cause, !.upc = 0, !.uleft = l]
<1>1. /\ DOMAIN hart = K!Hart /\ hart[h].p \in Proc /\ hart[h].p # None /\ hart[h].user
      /\ ProcOK(K!Cur(h)) /\ HartOK(h, hart[h], K!Cur(h))
  BY Here DEF K!user_trap
<1>2. /\ hart[h].stvec = "uservec" /\ K!Cur(h).pc = "user" /\ K!Cur(h).hartid = h
      /\ K!Cur(h).state = "RUNNING"
  BY <1>1 DEF HartOK
<1>3. /\ hart' = [hart EXCEPT ![h].user = FALSE, ![h].sie = FALSE,
                              ![h].sepc = <<"user", u>>, ![h].tp = h]
      /\ proc' = K!Set(h, y) /\ ticks' = ticks /\ trap_panicked' = trap_panicked
  BY <1>2 DEF K!user_trap, K!Set, K!Cur, K!next_pc
<1>4. ProcOK(y)
  <2>1. u \in Upc /\ l \in Upc /\ 0 \in Upc
    BY <1>1, NextUpc DEF ProcOK
  <2> HIDE DEF l
  <2>2. QED
    BY <1>1, <1>2, <2>1 DEF ProcOK, Fields, Inside, Causes
<1>5. HartOK(h, hart'[h], y)
  <2>1. u \in Upc
    BY <1>1 DEF ProcOK
  <2> HIDE DEF u
  <2>2. QED
    BY <1>1, <1>2, <1>3, <2>1 DEF HartOK, ProcOK, Fields, Inside
<1>6. /\ y.state # "SLEEPING" /\ y.pc = "usertrap" /\ DOMAIN hart' = K!Hart /\ hart'[h].p = hart[h].p
      /\ \A g \in K!Hart \ {h} : hart'[g] = hart[g]
  BY <1>1, <1>2, <1>3 DEF ProcOK, Fields, HartOK
<1> HIDE DEF y
<1>7. QED
  BY <1>1, <1>3, <1>4, <1>5, <1>6, LocalStep DEF Sleepy

\* What the invariant says of a hart at a place in the kernel.
LEMMA HereAt ==
  ASSUME TrapInv, NEW h \in K!Hart, NEW l, K!At(h, l)
  PROVE  /\ DOMAIN hart = K!Hart /\ hart[h].p \in Proc /\ hart[h].p # None /\ ~hart[h].user
         /\ ProcOK(K!Cur(h)) /\ HartOK(h, hart[h], K!Cur(h))
         /\ K!Cur(h).pc = l /\ K!Cur(h).state = "RUNNING"
BY Here DEF K!At, HartOK

\* An interrupt in the kernel.
LEMMA KernelTrapStep ==
  ASSUME K!TrapConstants, TrapInv, NEW h \in K!Hart, NEW cause \in {"timer", "dev"},
         K!kernel_trap(h, cause)
  PROVE  TrapInv'
<1> DEFINE y == [K!Cur(h) EXCEPT !.pc = "kerneltrap", !.cause = <<cause, K!Cur(h).cause>>,
                              !.frame = <<"kernel", K!Cur(h).pc>>, !.kleft = K!Cur(h).pc]
<1>1. /\ DOMAIN hart = K!Hart /\ hart[h].p \in Proc /\ hart[h].p # None
      /\ ~hart[h].user /\ hart[h].sie
      /\ ProcOK(K!Cur(h)) /\ HartOK(h, hart[h], K!Cur(h))
  BY Here DEF K!kernel_trap
<1>2. /\ hart[h].stvec = "kernelvec" /\ K!Cur(h).pc \in Open /\ K!Cur(h).state = "RUNNING"
  BY <1>1 DEF HartOK, Open
<1>3. /\ hart' = [hart EXCEPT ![h].sie = FALSE, ![h].sepc = <<"kernel", K!Cur(h).pc>>]
      /\ ticks' = ticks /\ trap_panicked' = trap_panicked
  BY <1>2 DEF K!kernel_trap, K!Cur
<1>4. /\ hart'[h].sepc = <<"kernel", K!Cur(h).pc>>
      /\ DOMAIN hart' = K!Hart /\ hart'[h].p = hart[h].p
      /\ \A g \in K!Hart \ {h} : hart'[g] = hart[g]
  BY <1>1, <1>3 DEF HartOK
<1>5. proc' = K!Set(h, y)
  <2> DEFINE p == hart[h].p
             place == <<"kernel", K!Cur(h).pc>>
  <2>1. proc' = [proc EXCEPT ![p].pc = "kerneltrap", ![p].cause = <<cause, proc[p].cause>>,
                             ![p].frame = hart'[h].sepc, ![p].kleft = proc[p].pc]
    BY <1>2 DEF K!kernel_trap, K!Cur
  <2>2. hart'[h].sepc = place
    BY <1>4
  <2> HIDE DEF place
  <2>3. proc' = [proc EXCEPT ![p].pc = "kerneltrap", ![p].cause = <<cause, proc[p].cause>>,
                             ![p].frame = place, ![p].kleft = proc[p].pc]
    BY <2>1, <2>2
  <2>4. QED
    BY <2>3 DEF K!Set, K!Cur, place
<1>6. ProcOK(y) /\ y.state = "RUNNING" /\ y.pc = "kerneltrap"
  BY <1>1, <1>2 DEF ProcOK, Fields, Inside, Causes, Open
<1> HIDE DEF y
<1>7. HartOK(h, hart'[h], y)
  BY <1>1, <1>2, <1>3, <1>6 DEF HartOK, Inside, Open
<1>8. QED
  BY <1>1, <1>3, <1>4, <1>5, <1>6, <1>7, LocalStep DEF Sleepy

\* What the first lines of usertrap() leave of the trap: sepc is saved, behind
\* the ecall if it was one.
LEMMA EpcIs ==
  ASSUME K!TrapConstants, TrapInv, NEW h \in K!Hart, K!At(h, "usertrap")
  PROVE  K!epc_of(h) = K!Cur(h).uleft /\ K!epc_of(h) \in Upc
BY HereAt DEF HartOK, ProcOK, K!epc_of

\* exit() of the process of a hart.
LEMMA ExitStep ==
  ASSUME K!TrapConstants, TrapInv, NEW h \in K!Hart, NEW l, K!At(h, l), K!exited(h),
         ticks' = ticks, trap_panicked' = trap_panicked
  PROVE  TrapInv'
<1> DEFINE y == [K!allocproc EXCEPT !.state = "ZOMBIE", !.pc = "exit"]
<1>1. /\ DOMAIN hart = K!Hart /\ hart[h].p \in Proc /\ hart[h].p # None
      /\ ~hart[h].user /\ HartOK(h, hart[h], K!Cur(h))
  BY HereAt
<1>2. proc' = K!Set(h, y) /\ hart' = [K!Idle(h) EXCEPT ![h].stvec = "kernelvec"]
  BY DEF K!exited
<1>3. ProcOK(y) /\ y.state = "ZOMBIE" /\ y.pc = "exit"
  BY NextUpc DEF K!allocproc, ProcOK, Fields, Inside, Open, Away, Causes
<1> HIDE DEF y
<1>4. HartOK(h, hart'[h], y)
  BY <1>1, <1>2 DEF HartOK, K!Idle
<1>5. /\ DOMAIN hart' = K!Hart /\ hart'[h].p = None
      /\ \A g \in K!Hart \ {h} : hart'[g] = hart[g]
  BY <1>1, <1>2 DEF HartOK, K!Idle
<1>6. QED
  BY <1>1, <1>2, <1>3, <1>4, <1>5, LocalStep DEF Sleepy

\* usertrap() of a system call.
LEMMA SyscallStep ==
  ASSUME K!TrapConstants, TrapInv, NEW h \in K!Hart, K!usertrap_syscall(h)
  PROVE  TrapInv'
<1> DEFINE q == IF K!Cur(h).cause = "quick" THEN "syscall" ELSE "sys_sleep"
           y == [K!Cur(h) EXCEPT !.epc = K!epc_of(h), !.pc = q]
<1>0. K!At(h, "usertrap") /\ ticks' = ticks /\ trap_panicked' = trap_panicked
  BY DEF K!usertrap_syscall
<1>1. /\ DOMAIN hart = K!Hart /\ hart[h].p \in Proc /\ hart[h].p # None /\ ~hart[h].user
      /\ ProcOK(K!Cur(h)) /\ HartOK(h, hart[h], K!Cur(h))
      /\ K!Cur(h).pc = "usertrap" /\ K!Cur(h).state = "RUNNING"
  BY <1>0, HereAt
<1>2. CASE K!exited(h)
  BY <1>0, <1>2, ExitStep
<1>3. CASE ~K!exited(h)
  <2>1. /\ proc' = K!Set(h, y)
        /\ hart' = [hart EXCEPT ![h].stvec = "kernelvec", ![h].sie = TRUE, ![h].sepc = K!Stale]
    BY <1>3 DEF K!usertrap_syscall
  <2>2. ProcOK(y) /\ y.state = "RUNNING" /\ y.pc \in {"syscall", "sys_sleep"}
    <3>1. K!epc_of(h) = K!Cur(h).uleft /\ K!epc_of(h) \in Upc
      BY <1>0, EpcIs
    <3>2. QED
      BY <1>1, <3>1 DEF ProcOK, Fields, Inside, Open
  <2> HIDE DEF y
  <2>3. HartOK(h, hart'[h], y)
    BY <1>1, <2>1, <2>2 DEF HartOK, Inside, Open
  <2>4. /\ DOMAIN hart' = K!Hart /\ hart'[h].p = hart[h].p
        /\ \A g \in K!Hart \ {h} : hart'[g] = hart[g]
    BY <1>1, <2>1 DEF HartOK
  <2>5. QED
    BY <1>0, <1>1, <2>1, <2>2, <2>3, <2>4, LocalStep DEF Sleepy
<1>4. QED
  BY <1>2, <1>3

\* usertrap() of an interrupt or a fault.
LEMMA UserIntrStep ==
  ASSUME K!TrapConstants, TrapInv, NEW h \in K!Hart, K!usertrap_intr(h) \/ K!usertrap_fault(h)
  PROVE  TrapInv'
<1> DEFINE y == [K!Cur(h) EXCEPT !.epc = K!epc_of(h), !.pc = "killcheck"]
           z == [K!Cur(h) EXCEPT !.epc = K!epc_of(h), !.pc = "killcheck", !.killed = TRUE]
<1>0. K!At(h, "usertrap") /\ trap_panicked' = trap_panicked
  BY DEF K!usertrap_intr, K!usertrap_fault
<1>1. /\ DOMAIN hart = K!Hart /\ hart[h].p \in Proc /\ hart[h].p # None /\ ~hart[h].user
      /\ ProcOK(K!Cur(h)) /\ HartOK(h, hart[h], K!Cur(h))
      /\ K!Cur(h).pc = "usertrap" /\ K!Cur(h).state = "RUNNING"
  BY <1>0, HereAt
<1>2. hart' = [hart EXCEPT ![h].stvec = "kernelvec", ![h].sepc = K!Stale]
  BY DEF K!usertrap_intr, K!usertrap_fault
<1>3. \/ proc' = K!Set(h, y) /\ ticks' = ticks
      \/ K!clockintr(h, K!Set(h, y))
      \/ proc' = K!Set(h, z) /\ ticks' = ticks
  BY DEF K!usertrap_intr, K!usertrap_fault, K!devintr
<1>4. /\ ProcOK(y) /\ y.state = "RUNNING" /\ y.pc = "killcheck"
      /\ ProcOK(z) /\ z.state = "RUNNING" /\ z.pc = "killcheck"
  <2>1. K!epc_of(h) = K!Cur(h).uleft /\ K!epc_of(h) \in Upc
    BY <1>0, EpcIs
  <2>2. QED
    BY <1>1, <2>1 DEF ProcOK, Fields, Inside, Open
<1> HIDE DEF y, z
<1>5. HartOK(h, hart'[h], y) /\ HartOK(h, hart'[h], z)
  BY <1>1, <1>2, <1>4 DEF HartOK, Inside, Open
<1>6. /\ DOMAIN hart' = K!Hart /\ hart'[h].p = hart[h].p
      /\ \A g \in K!Hart \ {h} : hart'[g] = hart[g]
  BY <1>1, <1>2 DEF HartOK
<1>7. CASE \/ proc' = K!Set(h, y) /\ ticks' = ticks
           \/ K!clockintr(h, K!Set(h, y))
  BY <1>0, <1>1, <1>4, <1>5, <1>6, <1>7, LocalStep DEF Sleepy
<1>8. CASE proc' = K!Set(h, z) /\ ticks' = ticks
  BY <1>0, <1>1, <1>4, <1>5, <1>6, <1>8, LocalStep DEF Sleepy
<1>9. QED
  BY <1>3, <1>7, <1>8

\* exit() of a killed process, and yield() after a timer interrupt.
LEMMA KillcheckStep ==
  ASSUME K!TrapConstants, TrapInv, NEW h \in K!Hart, K!killcheck(h)
  PROVE  TrapInv'
<1> DEFINE y == [K!Cur(h) EXCEPT !.pc = "ret", !.state = "RUNNABLE"]
           z == [K!Cur(h) EXCEPT !.pc = "ret"]
<1>0. K!At(h, "killcheck") /\ ticks' = ticks /\ trap_panicked' = trap_panicked
  BY DEF K!killcheck
<1>1. /\ DOMAIN hart = K!Hart /\ hart[h].p \in Proc /\ hart[h].p # None /\ ~hart[h].user
      /\ ProcOK(K!Cur(h)) /\ HartOK(h, hart[h], K!Cur(h))
      /\ K!Cur(h).pc = "killcheck" /\ K!Cur(h).state = "RUNNING"
  BY <1>0, HereAt
<1>2. CASE K!exited(h)
  BY <1>0, <1>2, ExitStep
<1>3. CASE proc' = K!Set(h, y) /\ hart' = K!Idle(h)
  <2>1. ProcOK(y) /\ y.state = "RUNNABLE" /\ y.pc = "ret"
    BY <1>1 DEF ProcOK, Fields, Inside, Open, Away
  <2> HIDE DEF y
  <2>2. HartOK(h, hart'[h], y)
    BY <1>1, <1>3 DEF HartOK, K!Idle, Open
  <2>3. /\ DOMAIN hart' = K!Hart /\ hart'[h].p = None
        /\ \A g \in K!Hart \ {h} : hart'[g] = hart[g]
    BY <1>1, <1>3 DEF HartOK, K!Idle
  <2>4. QED
    BY <1>0, <1>1, <1>3, <2>1, <2>2, <2>3, LocalStep DEF Sleepy
<1>4. CASE proc' = K!Set(h, z) /\ UNCHANGED hart
  <2>1. ProcOK(z) /\ z.state = "RUNNING" /\ z.pc = "ret"
    BY <1>1 DEF ProcOK, Fields, Inside, Open, Away
  <2> HIDE DEF z
  <2>2. HartOK(h, hart'[h], z)
    BY <1>1, <1>4, <2>1 DEF HartOK, Inside, Open
  <2>3. QED
    BY <1>0, <1>1, <1>4, <2>1, <2>2, LocalStep DEF Sleepy
<1>5. QED
  BY <1>2, <1>3, <1>4 DEF K!killcheck

\* A system call that does nothing to other processes.
LEMMA CallStep ==
  ASSUME K!TrapConstants, TrapInv, NEW h \in K!Hart, K!syscall(h)
  PROVE  TrapInv'
<1> DEFINE y == [K!Cur(h) EXCEPT !.pc = "killcheck"]
<1>0. K!At(h, "syscall") /\ proc' = K!Set(h, y) /\ UNCHANGED <<hart, ticks, trap_panicked>>
  BY DEF K!syscall
<1>1. /\ DOMAIN hart = K!Hart /\ hart[h].p \in Proc /\ hart[h].p # None /\ ~hart[h].user
      /\ ProcOK(K!Cur(h)) /\ HartOK(h, hart[h], K!Cur(h))
      /\ K!Cur(h).pc = "syscall" /\ K!Cur(h).state = "RUNNING"
  BY <1>0, HereAt
<1>2. ProcOK(y) /\ y.state = "RUNNING" /\ y.pc = "killcheck"
  BY <1>1 DEF ProcOK, Fields, Inside, Open
<1> HIDE DEF y
<1>3. HartOK(h, hart'[h], y)
  BY <1>0, <1>1, <1>2 DEF HartOK, Inside, Open
<1>4. QED
  BY <1>0, <1>1, <1>2, <1>3, LocalStep DEF Sleepy

\* kill() of any process that is not a zombie.
LEMMA KillStep ==
  ASSUME K!TrapConstants, TrapInv, NEW h \in K!Hart, K!sys_kill(h)
  PROVE  TrapInv'
<1> DEFINE p == hart[h].p
<1>0. K!At(h, "syscall") /\ UNCHANGED <<hart, ticks, trap_panicked>>
  BY DEF K!sys_kill
<1>1. /\ DOMAIN hart = K!Hart /\ p \in Proc /\ p # None /\ ~hart[h].user
      /\ ProcOK(proc[p]) /\ HartOK(h, hart[h], proc[p])
      /\ proc[p].pc = "syscall" /\ proc[p].state = "RUNNING"
  BY <1>0, HereAt DEF K!Cur
<1>2. PICK q \in Proc :
        /\ proc[q].state # "ZOMBIE"
        /\ proc' = [proc EXCEPT ![p].pc = "killcheck", ![q].killed = TRUE,
                                ![q].state = IF @ = "SLEEPING" THEN "RUNNABLE" ELSE @]
  BY DEF K!sys_kill
<1>3. DOMAIN proc = Proc /\ (\A o \in Proc : ProcOK(proc[o])) /\ ticks \in Tick /\ InTime
  BY DEF TrapInv
<1>4. DOMAIN proc' = Proc
  BY <1>2, <1>3
<1>5. /\ ProcOK(proc'[p]) /\ proc'[p].pc = "killcheck" /\ proc'[p].state = "RUNNING"
  BY <1>1, <1>2, <1>3 DEF ProcOK, Fields, Inside, Open
<1>6. ASSUME NEW o \in Proc \ {p} PROVE Kept(o)
  <2>1. CASE o # q
    BY <1>1, <1>2, <1>3, <2>1, Untouched
  <2>2. CASE o = q
    <3>1. proc'[o] = [proc[o] EXCEPT !.killed = TRUE,
                                     !.state = IF @ = "SLEEPING" THEN "RUNNABLE" ELSE @]
      BY <1>1, <1>2, <1>3, <2>2 DEF ProcOK, Fields
    <3>2. ProcOK(proc[o])
      BY <1>3
    <3>3. QED
      BY <3>1, <3>2 DEF Kept, ProcOK, Fields, Away
  <2>3. QED
    BY <2>1, <2>2
<1>7. InTime'
  <2> SUFFICES ASSUME NEW o \in Proc, Sleepy(proc'[o])
               PROVE  K!passed(o)' < proc'[o].n
    BY DEF InTime
  <2>1. o # p
    BY <1>5 DEF Sleepy
  <2>2. /\ Sleepy(proc[o])
        /\ proc'[o].ticks0 = proc[o].ticks0 /\ proc'[o].n = proc[o].n
    BY <1>1, <1>2, <1>3, <2>1 DEF ProcOK, Fields, Sleepy
  <2>3. QED
    BY <1>0, <1>3, <2>2 DEF InTime, K!passed
<1>8. HartOK(h, hart'[h], proc'[hart'[h].p])
  <2>1. HartOK(h, hart[h], proc'[p])
    BY <1>1, <1>5 DEF HartOK, Inside, Open
  <2>2. QED
    BY <1>0, <2>1
<1> HIDE DEF p
<1>9. QED
  BY <1>0, <1>1, <1>3, <1>4, <1>5, <1>6, <1>7, <1>8, StepKeeps DEF p

\* sys_sleep() and the loop in it.
LEMMA SleepStep ==
  ASSUME K!TrapConstants, TrapInv, NEW h \in K!Hart,
         K!sys_sleep(h) \/ K!sleep_loop(h) \/ K!sleep(h)
  PROVE  TrapInv'
<1>1. CASE K!sys_sleep(h)
  <2>1. PICK n \in Ticks :
          /\ K!At(h, "sys_sleep")
          /\ proc' = K!Set(h, [K!Cur(h) EXCEPT !.pc = "sleep", !.ticks0 = ticks, !.n = n % UINT])
          /\ hart' = [hart EXCEPT ![h].sie = FALSE] /\ UNCHANGED <<ticks, trap_panicked>>
    BY <1>1 DEF K!sys_sleep
  <2> DEFINE y == [K!Cur(h) EXCEPT !.pc = "sleep", !.ticks0 = ticks, !.n = n % UINT]
  <2>2. /\ DOMAIN hart = K!Hart /\ hart[h].p \in Proc /\ hart[h].p # None /\ ~hart[h].user
        /\ ProcOK(K!Cur(h)) /\ HartOK(h, hart[h], K!Cur(h))
        /\ K!Cur(h).pc = "sys_sleep" /\ K!Cur(h).state = "RUNNING"
    BY <2>1, HereAt
  <2>3. ticks \in Tick /\ n % UINT \in Tick
    <3>1. n \in Int /\ UINT \in Nat \ {0}
      BY DEF K!TrapConstants
    <3>2. n % UINT \in Tick
      BY <3>1 DEF Tick
    <3>3. QED
      BY <3>2 DEF TrapInv
  <2>4. ProcOK(y) /\ y.state = "RUNNING" /\ y.pc = "sleep"
    BY <2>2, <2>3 DEF ProcOK, Fields, Inside, Open, Away
  <2> HIDE DEF y
  <2>5. HartOK(h, hart'[h], y)
    BY <2>1, <2>2, <2>4 DEF HartOK, Inside, Open, Away
  <2>6. /\ DOMAIN hart' = K!Hart /\ hart'[h].p = hart[h].p
        /\ \A g \in K!Hart \ {h} : hart'[g] = hart[g]
    BY <2>1, <2>2 DEF HartOK
  <2>7. proc' = K!Set(h, y)
    BY <2>1 DEF y
  <2>8. QED
    BY <2>1, <2>2, <2>4, <2>5, <2>6, <2>7, LocalStep DEF Sleepy
<1>2. CASE K!sleep_loop(h)
  <2> DEFINE y == [K!Cur(h) EXCEPT !.pc = "to_sleep"]
             z == [K!Cur(h) EXCEPT !.pc = "killcheck", !.ticks0 = 0, !.n = 0]
  <2>0. K!At(h, "sleep") /\ UNCHANGED <<ticks, trap_panicked>>
    BY <1>2 DEF K!sleep_loop
  <2>1. /\ DOMAIN hart = K!Hart /\ hart[h].p \in Proc /\ hart[h].p # None /\ ~hart[h].user
        /\ ProcOK(K!Cur(h)) /\ HartOK(h, hart[h], K!Cur(h))
        /\ K!Cur(h).pc = "sleep" /\ K!Cur(h).state = "RUNNING"
    BY <2>0, HereAt
  <2>2. CASE proc' = K!Set(h, y) /\ UNCHANGED hart /\ K!passed(hart[h].p) < K!Cur(h).n
    <3>1. /\ ProcOK(y) /\ y.ticks0 = K!Cur(h).ticks0 /\ y.n = K!Cur(h).n
          /\ y.state = "RUNNING" /\ y.pc = "to_sleep"
      BY <2>1 DEF ProcOK, Fields, Inside, Open, Away
    <3>2. (ticks - y.ticks0) % UINT < y.n
      BY <2>2, <3>1 DEF K!passed, K!Cur
    <3> HIDE DEF y
    <3>3. HartOK(h, hart'[h], y)
      BY <2>1, <2>2, <3>1 DEF HartOK, Inside, Open
    <3>4. QED
      BY <2>0, <2>1, <2>2, <3>1, <3>2, <3>3, LocalStep
  <2>3. CASE proc' = K!Set(h, z) /\ hart' = [hart EXCEPT ![h].sie = TRUE]
    <3>1. ProcOK(z) /\ z.state = "RUNNING" /\ z.pc = "killcheck"
      BY <2>1, NextUpc DEF ProcOK, Fields, Inside, Open, Away
    <3> HIDE DEF z
    <3>2. HartOK(h, hart'[h], z)
      BY <2>1, <2>3, <3>1 DEF HartOK, Inside, Open
    <3>3. /\ DOMAIN hart' = K!Hart /\ hart'[h].p = hart[h].p
          /\ \A g \in K!Hart \ {h} : hart'[g] = hart[g]
      BY <2>1, <2>3 DEF HartOK
    <3>4. QED
      BY <2>0, <2>1, <2>3, <3>1, <3>2, <3>3, LocalStep DEF Sleepy
  <2>4. QED
    BY <1>2, <2>2, <2>3 DEF K!sleep_loop
<1>3. CASE K!sleep(h)
  <2> DEFINE y == [K!Cur(h) EXCEPT !.pc = "sleep", !.state = "SLEEPING"]
  <2>0. /\ K!At(h, "to_sleep") /\ proc' = K!Set(h, y) /\ hart' = K!Idle(h)
        /\ UNCHANGED <<ticks, trap_panicked>>
    BY <1>3 DEF K!sleep
  <2>1. /\ DOMAIN hart = K!Hart /\ hart[h].p \in Proc /\ hart[h].p # None /\ ~hart[h].user
        /\ ProcOK(K!Cur(h)) /\ HartOK(h, hart[h], K!Cur(h))
        /\ K!Cur(h).pc = "to_sleep" /\ K!Cur(h).state = "RUNNING"
    BY <2>0, HereAt
  <2>2. K!passed(hart[h].p) < K!Cur(h).n
    BY <2>1 DEF TrapInv, InTime, Sleepy, K!Cur
  <2>3. ProcOK(y) /\ y.ticks0 = K!Cur(h).ticks0 /\ y.n = K!Cur(h).n
    BY <2>1 DEF ProcOK, Fields, Inside, Open, Away
  <2>4. (ticks - y.ticks0) % UINT < y.n
    BY <2>2, <2>3 DEF K!passed, K!Cur
  <2> HIDE DEF y
  <2>5. HartOK(h, hart'[h], y)
    BY <2>0, <2>1 DEF HartOK, K!Idle
  <2>6. /\ DOMAIN hart' = K!Hart /\ hart'[h].p = None
        /\ \A g \in K!Hart \ {h} : hart'[g] = hart[g]
    BY <2>0, <2>1 DEF HartOK, K!Idle
  <2>7. QED
    BY <2>0, <2>1, <2>3, <2>4, <2>5, <2>6, LocalStep
<1>4. QED
  BY <1>1, <1>2, <1>3

\* kerneltrap(), with yield() after a timer interrupt.
LEMMA KerneltrapStep ==
  ASSUME K!TrapConstants, TrapInv, NEW h \in K!Hart, K!kerneltrap(h)
  PROVE  TrapInv'
<1> DEFINE z == [K!Cur(h) EXCEPT !.pc = "kernelret", !.cause = K!Cur(h).cause[2]]
           y == [z EXCEPT !.state = "RUNNABLE"]
<1>0. K!At(h, "kerneltrap") /\ trap_panicked' = trap_panicked
  BY DEF K!kerneltrap
<1>1. /\ DOMAIN hart = K!Hart /\ hart[h].p \in Proc /\ hart[h].p # None /\ ~hart[h].user
      /\ ProcOK(K!Cur(h)) /\ HartOK(h, hart[h], K!Cur(h))
      /\ K!Cur(h).pc = "kerneltrap" /\ K!Cur(h).state = "RUNNING"
  BY <1>0, HereAt
<1>2. ProcOK(z) /\ z.state = "RUNNING" /\ z.pc = "kernelret"
  BY <1>1 DEF ProcOK, Fields, Inside, Away
<1>3. ProcOK(y) /\ y.state = "RUNNABLE" /\ y.pc = "kernelret"
  <2> HIDE DEF z
  <2>1. QED
    BY <1>2 DEF ProcOK, Fields, Away
<1>4. \/ K!clockintr(h, K!Set(h, y)) /\ hart' = K!Idle(h)
      \/ proc' = K!Set(h, z) /\ UNCHANGED <<hart, ticks>>
  BY DEF K!kerneltrap
<1> HIDE DEF y, z
<1>5. CASE K!clockintr(h, K!Set(h, y)) /\ hart' = K!Idle(h)
  <2>1. HartOK(h, hart'[h], y)
    BY <1>1, <1>5 DEF HartOK, K!Idle
  <2>2. /\ DOMAIN hart' = K!Hart /\ hart'[h].p = None
        /\ \A g \in K!Hart \ {h} : hart'[g] = hart[g]
    BY <1>1, <1>5 DEF HartOK, K!Idle
  <2>3. QED
    BY <1>0, <1>1, <1>3, <1>5, <2>1, <2>2, LocalStep DEF Sleepy
<1>6. CASE proc' = K!Set(h, z) /\ UNCHANGED <<hart, ticks>>
  <2>1. HartOK(h, hart'[h], z)
    BY <1>1, <1>2, <1>6 DEF HartOK, Inside, Open, Away
  <2>2. QED
    BY <1>0, <1>1, <1>2, <1>6, <2>1, LocalStep DEF Sleepy
<1>7. QED
  BY <1>4, <1>5, <1>6

\* The end of kerneltrap() finds an address of the kernel in its frame.
LEMMA KernelretStep ==
  ASSUME K!TrapConstants, TrapInv, NEW h \in K!Hart, K!kernelret(h)
  PROVE  TrapInv'
<1> DEFINE y == [K!Cur(h) EXCEPT !.pc = K!Cur(h).kleft, !.frame = K!Stale, !.kleft = ""]
<1>0. K!At(h, "kernelret") /\ ticks' = ticks
  BY DEF K!kernelret
<1>1. /\ DOMAIN hart = K!Hart /\ hart[h].p \in Proc /\ hart[h].p # None /\ ~hart[h].user
      /\ ProcOK(K!Cur(h)) /\ HartOK(h, hart[h], K!Cur(h))
      /\ K!Cur(h).pc = "kernelret" /\ K!Cur(h).state = "RUNNING"
  BY <1>0, HereAt
<1>2. K!Cur(h).kleft \in Open /\ K!Cur(h).frame = <<"kernel", K!Cur(h).kleft>>
  BY <1>1 DEF ProcOK
<1>3. K!restored(h)[1] = "kernel" /\ K!restored(h)[2] = K!Cur(h).kleft
  BY <1>2 DEF K!restored
<1>4. /\ proc' = K!Set(h, y) /\ trap_panicked' = trap_panicked
      /\ hart' = [hart EXCEPT ![h].sepc = K!Stale, ![h].sie = TRUE]
  BY <1>3 DEF K!kernelret
<1>5. ProcOK(y) /\ y.state = "RUNNING" /\ y.pc \in Open
  BY <1>1, <1>2 DEF ProcOK, Fields, Inside, Open, Away
<1> HIDE DEF y
<1>6. HartOK(h, hart'[h], y)
  BY <1>1, <1>4, <1>5 DEF HartOK, Inside, Open, Away
<1>7. /\ DOMAIN hart' = K!Hart /\ hart'[h].p = hart[h].p
      /\ \A g \in K!Hart \ {h} : hart'[g] = hart[g]
  BY <1>1, <1>4 DEF HartOK
<1>8. QED
  BY <1>0, <1>1, <1>4, <1>5, <1>6, <1>7, LocalStep DEF Sleepy, Open

\* usertrapret() up to sret: interrupts are off before the vector changes.
LEMMA UsertrapretStep ==
  ASSUME K!TrapConstants, TrapInv, NEW h \in K!Hart,
         K!ret_intr_off(h) \/ K!ret_stvec(h) \/ K!ret_sret(h)
  PROVE  TrapInv'
<1>1. CASE K!ret_intr_off(h)
  <2> DEFINE y == [K!Cur(h) EXCEPT !.pc = "ret_stvec"]
  <2>0. /\ K!At(h, "ret") /\ UNCHANGED <<ticks, trap_panicked>>
        /\ proc' = K!Set(h, y) /\ hart' = [hart EXCEPT ![h].sie = FALSE]
    BY <1>1 DEF K!ret_intr_off, K!intr_off
  <2>1. /\ DOMAIN hart = K!Hart /\ hart[h].p \in Proc /\ hart[h].p # None /\ ~hart[h].user
        /\ ProcOK(K!Cur(h)) /\ HartOK(h, hart[h], K!Cur(h))
        /\ K!Cur(h).pc = "ret" /\ K!Cur(h).state = "RUNNING"
    BY <2>0, HereAt
  <2>2. ProcOK(y) /\ y.state = "RUNNING" /\ y.pc = "ret_stvec"
    BY <2>1 DEF ProcOK, Fields, Inside, Open
  <2> HIDE DEF y
  <2>3. HartOK(h, hart'[h], y)
    BY <2>0, <2>1, <2>2 DEF HartOK, Inside, Open
  <2>4. /\ DOMAIN hart' = K!Hart /\ hart'[h].p = hart[h].p
        /\ \A g \in K!Hart \ {h} : hart'[g] = hart[g]
    BY <2>0, <2>1 DEF HartOK
  <2>5. QED
    BY <2>0, <2>1, <2>2, <2>3, <2>4, LocalStep DEF Sleepy
<1>2. CASE K!ret_stvec(h)
  <2> DEFINE y == [K!Cur(h) EXCEPT !.pc = "ret_sret"]
  <2>0. /\ K!At(h, "ret_stvec") /\ UNCHANGED <<ticks, trap_panicked>>
        /\ proc' = K!Set(h, y) /\ hart' = [hart EXCEPT ![h].stvec = "uservec"]
    BY <1>2 DEF K!ret_stvec
  <2>1. /\ DOMAIN hart = K!Hart /\ hart[h].p \in Proc /\ hart[h].p # None /\ ~hart[h].user
        /\ ProcOK(K!Cur(h)) /\ HartOK(h, hart[h], K!Cur(h))
        /\ K!Cur(h).pc = "ret_stvec" /\ K!Cur(h).state = "RUNNING"
    BY <2>0, HereAt
  <2>2. ProcOK(y) /\ y.state = "RUNNING" /\ y.pc = "ret_sret"
    BY <2>1 DEF ProcOK, Fields, Inside, Open
  <2> HIDE DEF y
  <2>3. HartOK(h, hart'[h], y)
    BY <2>0, <2>1, <2>2 DEF HartOK, Inside, Open
  <2>4. /\ DOMAIN hart' = K!Hart /\ hart'[h].p = hart[h].p
        /\ \A g \in K!Hart \ {h} : hart'[g] = hart[g]
    BY <2>0, <2>1 DEF HartOK
  <2>5. QED
    BY <2>0, <2>1, <2>2, <2>3, <2>4, LocalStep DEF Sleepy
<1>3. CASE K!ret_sret(h)
  <2> DEFINE y == [K!Cur(h) EXCEPT !.pc = "user", !.hartid = K!kernel_hartid(h),
                                 !.upc = K!Cur(h).epc, !.epc = 0, !.cause = "none", !.uleft = 0]
  <2>0. /\ K!At(h, "ret_sret") /\ UNCHANGED <<ticks, trap_panicked>>
        /\ proc' = K!Set(h, y)
        /\ hart' = [hart EXCEPT ![h].user = TRUE, ![h].sie = TRUE, ![h].tp = K!Junk]
    BY <1>3 DEF K!ret_sret
  <2>1. /\ DOMAIN hart = K!Hart /\ hart[h].p \in Proc /\ hart[h].p # None /\ ~hart[h].user
        /\ ProcOK(K!Cur(h)) /\ HartOK(h, hart[h], K!Cur(h))
        /\ K!Cur(h).pc = "ret_sret" /\ K!Cur(h).state = "RUNNING"
    BY <2>0, HereAt
  <2>2. K!kernel_hartid(h) = h
    BY <2>1 DEF HartOK, K!kernel_hartid
  <2>3. ProcOK(y) /\ y.state = "RUNNING" /\ y.pc = "user" /\ y.hartid = h
    BY <2>1, <2>2, NextUpc DEF ProcOK, Fields, Inside, Away, Open, Causes
  <2> HIDE DEF y
  <2>4. HartOK(h, hart'[h], y)
    BY <2>0, <2>1, <2>3 DEF HartOK
  <2>5. /\ DOMAIN hart' = K!Hart /\ hart'[h].p = hart[h].p
        /\ \A g \in K!Hart \ {h} : hart'[g] = hart[g]
    BY <2>0, <2>1 DEF HartOK
  <2>6. QED
    BY <2>0, <2>1, <2>3, <2>4, <2>5, LocalStep DEF Sleepy
<1>4. QED
  BY <1>1, <1>2, <1>3

\* scheduler() takes a process that runs on no other hart, with the vector of
\* the kernel.
LEMMA SchedulerStep ==
  ASSUME K!TrapConstants, TrapInv, NEW h \in K!Hart, K!scheduler(h)
  PROVE  TrapInv'
<1>1. PICK p \in Proc :
        /\ hart[h].p = None /\ proc[p].state = "RUNNABLE"
        /\ proc' = [proc EXCEPT ![p].state = "RUNNING"]
        /\ hart' = [hart EXCEPT ![h].p = p, ![h].sie = FALSE]
        /\ UNCHANGED <<ticks, trap_panicked>>
  BY DEF K!scheduler
<1>2. /\ DOMAIN proc = Proc /\ DOMAIN hart = K!Hart /\ ticks \in Tick /\ InTime
      /\ ProcOK(proc[p]) /\ HartOK(h, hart[h], proc[hart[h].p])
  BY DEF TrapInv
<1>3. ProcOK(proc'[p]) /\ proc'[p].state = "RUNNING" /\ proc'[p].pc \in Away
  BY <1>1, <1>2 DEF ProcOK, Fields
<1>4. DOMAIN proc' = Proc /\ \A q \in Proc \ {p} : proc'[q] = proc[q]
  BY <1>1, <1>2
<1>5. \A q \in Proc \ {p} : Kept(q)
  BY <1>4, Untouched
<1>6. InTime'
  BY <1>1, <1>2, <1>3, <1>4 DEF InTime, Sleepy, Away, K!passed
<1>7. /\ DOMAIN hart' = K!Hart /\ hart'[h].p = p
      /\ \A g \in K!Hart \ {h} : hart'[g] = hart[g]
  BY <1>1, <1>2 DEF HartOK
<1>8. HartOK(h, hart'[h], proc'[hart'[h].p])
  <2>1. HartOK(h, hart'[h], proc'[p])
    BY <1>1, <1>2, <1>3 DEF HartOK, Inside, Open, Away, K!TrapConstants
  <2>2. QED
    BY <1>7, <2>1
<1>9. QED
  BY <1>1, <1>2, <1>3, <1>4, <1>5, <1>6, <1>7, <1>8, StepKeeps

\* A tick while a hart has no process.
LEMMA TickStep ==
  ASSUME K!TrapConstants, TrapInv, NEW h \in K!Hart, K!scheduler_intr(h)
  PROVE  TrapInv'
<1>0. K!clockintr(h, proc) /\ UNCHANGED <<hart, trap_panicked>>
  BY DEF K!scheduler_intr
<1>1. CASE proc' = proc /\ ticks' = ticks
  BY <1>0, <1>1 DEF TrapInv, Apart, K!VectorRight, InTime, K!passed
<1>2. CASE K!tickslock_free /\ ticks' = (ticks + 1) % UINT /\ proc' = K!woken(proc)
  <2>1. /\ DOMAIN proc' = Proc
        /\ \A q \in Proc : proc'[q] = IF proc[q].state = "SLEEPING"
                                      THEN [proc[q] EXCEPT !.state = "RUNNABLE"]
                                      ELSE proc[q]
    BY <1>2 DEF K!woken
  <2>2. ASSUME NEW q \in Proc PROVE Kept(q) /\ ~Sleepy(proc'[q])
    <3>1. ProcOK(proc[q])
      BY DEF TrapInv
    <3>2. Kept(q) /\ proc'[q].state # "SLEEPING"
      BY <2>1, <3>1 DEF Kept, ProcOK, Fields, Away
    <3>3. proc[q].pc # "to_sleep"
      BY <1>2 DEF K!tickslock_free
    <3>4. QED
      BY <3>2, <3>3 DEF Kept, Sleepy
  <2>3. ticks' \in Tick /\ InTime'
    BY <1>2, <2>2 DEF TrapInv, Tick, K!TrapConstants, InTime
  <2>4. ASSUME NEW g \in K!Hart PROVE HartOK(g, hart'[g], proc'[hart'[g].p])
    <3>1. HartOK(g, hart[g], proc[hart[g].p])
      BY DEF TrapInv
    <3>2. CASE hart[g].p = None
      BY <1>0, <3>1, <3>2 DEF HartOK
    <3>3. CASE hart[g].p \in Proc
      <4>1. Kept(hart[g].p)
        BY <2>2, <3>3
      <4>2. HartOK(g, hart[g], proc'[hart[g].p])
        BY <3>1, <4>1 DEF HartOK, Kept
      <4>3. QED
        BY <1>0, <4>2
    <3>4. QED
      BY <3>1, <3>2, <3>3 DEF HartOK
  <2>5. QED
    BY <1>0, <2>1, <2>2, <2>3, <2>4 DEF TrapInv, Apart, K!VectorRight, Kept
<1>3. QED
  BY <1>0, <1>1, <1>2 DEF K!clockintr

-----------------------------------------------------------------------------
(* The invariant *)

\* The first state.
LEMMA TrapInitInv == ASSUME K!TrapConstants, K!Init PROVE TrapInv
<1>1. DOMAIN hart = K!Hart /\ DOMAIN proc = Proc /\ ticks \in Tick
  BY NextUpc DEF K!Init
<1>2. ASSUME NEW p \in Proc PROVE ProcOK(proc[p]) /\ ~Sleepy(proc[p])
  BY <1>1, NextUpc DEF K!Init, K!allocproc, ProcOK, Fields, Inside, Away, Open, Causes, Sleepy
<1>3. ASSUME NEW h \in K!Hart PROVE HartOK(h, hart[h], proc[hart[h].p]) /\ hart[h].p = None
  BY DEF K!Init, HartOK
<1>4. QED
  BY <1>1, <1>2, <1>3 DEF K!Init, TrapInv, Apart, K!VectorRight, InTime

\* Every step keeps the invariant.
LEMMA TrapNextInv == ASSUME K!TrapConstants, TrapInv, [K!Next]_K!vars PROVE TrapInv'
<1>1. CASE UNCHANGED K!vars
  BY <1>1 DEF K!vars, TrapInv, Apart, K!VectorRight, InTime, K!passed
<1>2. CASE K!Next
  BY <1>2, UserTrapStep, KernelTrapStep, SyscallStep, UserIntrStep, KillcheckStep, CallStep,
     KillStep, SleepStep, KerneltrapStep, KernelretStep, UsertrapretStep, SchedulerStep,
     TickStep
     DEF K!Next
<1>3. QED
  BY <1>1, <1>2

\* The invariant holds in every reachable state.
THEOREM TrapInvariance == K!TrapConstants => (K!Spec => []TrapInv)
<1> SUFFICES ASSUME K!TrapConstants PROVE K!Spec => []TrapInv
  OBVIOUS
<1>1. K!Init => TrapInv
  BY TrapInitInv
<1>2. TrapInv /\ [K!Next]_K!vars => TrapInv'
  BY TrapNextInv
<1>3. QED
  BY <1>1, <1>2, PTL DEF K!Spec

\* trap.c, for any number of harts and processes: traps from user mode go
\* through uservec and traps from the kernel through kernelvec, although
\* usertrapret() switches the vector in the kernel.
THEOREM VectorAlwaysRight == K!TrapConstants => (K!Spec => []K!VectorRight)
<1> SUFFICES ASSUME K!TrapConstants PROVE K!Spec => []K!VectorRight
  OBVIOUS
<1>1. TrapInv => K!VectorRight
  BY DEF TrapInv
<1>2. QED
  BY <1>1, TrapInvariance, PTL

\* cpuid() is right wherever the kernel runs: usertrapret() saves the number of
\* the hart that goes back to user mode, not of the one that was entered.
THEOREM CpuidAlwaysRight == K!TrapConstants => (K!Spec => []K!CpuidRight)
<1> SUFFICES ASSUME K!TrapConstants PROVE K!Spec => []K!CpuidRight
  OBVIOUS
<1>1. TrapInv => K!CpuidRight
  BY DEF TrapInv, K!CpuidRight, HartOK
<1>2. QED
  BY <1>1, TrapInvariance, PTL

\* sys_sleep() is awake again when its ticks have passed, for any width of
\* ticks and any argument: clockintr() wakes it with every tick.
THEOREM NeverOversleeps == K!TrapConstants => (K!Spec => []K!NoOversleep)
<1> SUFFICES ASSUME K!TrapConstants PROVE K!Spec => []K!NoOversleep
  OBVIOUS
<1>1. TrapInv => K!NoOversleep
  BY DEF TrapInv, InTime, Sleepy, K!NoOversleep
<1>2. QED
  BY <1>1, TrapInvariance, PTL

-----------------------------------------------------------------------------
(* Coming back *)

\* The place of process p does not change in a way ComesBackTo is about.
Stays(p) ==
  \/ proc'[p].pc = proc[p].pc
  \/ proc[p].pc # "kernelret" /\ proc'[p].pc # "user"

\* What every action needs to know.
LEMMA Shape ==
  ASSUME TrapInv
  PROVE  /\ DOMAIN proc = Proc /\ \A q \in Proc : DOMAIN proc[q] = Fields
         /\ \A h \in K!Hart : hart[h].p # None => hart[h].p \in Proc
BY DEF TrapInv, ProcOK, HartOK

\* Ticks and wakeups do not change places.
LEMMA TickStays ==
  ASSUME NEW h \in K!Hart, NEW P, NEW p \in Proc, DOMAIN P[p] = Fields,
         (proc' = P /\ ticks' = ticks) \/ K!clockintr(h, P)
  PROVE  proc'[p].pc = P[p].pc
BY DEF K!clockintr, K!woken, Fields

\* A step of a hart that has a process, from a place where no trap ends.
LEMMA SetStays ==
  ASSUME TrapInv, NEW h \in K!Hart, hart[h].p # None, NEW p \in Proc, NEW y,
         proc' = K!Set(h, y),
         y.pc = K!Cur(h).pc \/ (y.pc # "user" /\ K!Cur(h).pc # "kernelret")
  PROVE  Stays(p)
BY Shape DEF K!Set, K!Cur, Stays

\* Only the last steps of kerneltrap() and usertrapret() leave the kernel's trap
\* code.
LEMMA OthersStay ==
  ASSUME K!TrapConstants, TrapInv, NEW h \in K!Hart, NEW p \in Proc,
         \/ \E cause \in {"quick", "sleep", "timer", "dev", "fault"} : K!user_trap(h, cause)
         \/ \E cause \in {"timer", "dev"} : K!kernel_trap(h, cause)
         \/ K!usertrap_syscall(h) \/ K!usertrap_intr(h) \/ K!usertrap_fault(h) \/ K!killcheck(h)
         \/ K!syscall(h) \/ K!sys_kill(h) \/ K!sys_sleep(h) \/ K!sleep_loop(h) \/ K!sleep(h)
         \/ K!kerneltrap(h) \/ K!ret_intr_off(h) \/ K!ret_stvec(h)
         \/ K!scheduler(h) \/ K!scheduler_intr(h)
  PROVE  Stays(p)
<1>0. /\ DOMAIN proc = Proc /\ \A q \in Proc : DOMAIN proc[q] = Fields
      /\ hart[h].p # None => hart[h].p \in Proc
  BY Shape
<1>1. CASE \E cause \in {"quick", "sleep", "timer", "dev", "fault"} : K!user_trap(h, cause)
  <2>1. hart[h].user => proc[hart[h].p].pc = "user"
    BY DEF TrapInv, HartOK
  <2>2. QED
    BY <1>0, <1>1, <2>1 DEF Stays, Fields, K!user_trap
<1>2. CASE \E cause \in {"timer", "dev"} : K!kernel_trap(h, cause)
  <2>1. ~hart[h].user /\ hart[h].p # None /\ hart[h].sie => proc[hart[h].p].pc \in Open
    BY DEF TrapInv, HartOK
  <2>2. PICK cause \in {"timer", "dev"} : K!kernel_trap(h, cause)
    BY <1>2
  <2> DEFINE o == hart[h].p
             f == hart'[h].sepc
  <2>3. /\ o \in Proc /\ proc[o].pc \in Open
        /\ \/ proc' = proc
           \/ proc' = [proc EXCEPT ![o].pc = "kerneltrap",
                                   ![o].cause = <<cause, proc[o].cause>>,
                                   ![o].frame = f, ![o].kleft = proc[o].pc]
    BY <1>0, <2>1, <2>2 DEF K!kernel_trap
  <2> HIDE DEF o, f
  <2>4. QED
    BY <1>0, <2>3 DEF Stays, Fields, Open
<1>3. CASE K!usertrap_syscall(h) \/ K!killcheck(h)
  <2>1. hart[h].p # None /\ K!Cur(h).pc \in {"usertrap", "killcheck"} /\ DOMAIN K!Cur(h) = Fields
    BY <1>0, <1>3 DEF K!usertrap_syscall, K!killcheck, K!At, K!Cur
  <2> DEFINE dead == [K!allocproc EXCEPT !.state = "ZOMBIE", !.pc = "exit"]
             gone == [K!Cur(h) EXCEPT !.pc = "ret", !.state = "RUNNABLE"]
             back == [K!Cur(h) EXCEPT !.pc = "ret"]
             call == [K!Cur(h) EXCEPT !.epc = K!epc_of(h),
                                    !.pc = IF K!Cur(h).cause = "quick" THEN "syscall"
                                                                     ELSE "sys_sleep"]
  <2>2. \E y \in {dead, gone, back, call} : proc' = K!Set(h, y)
    BY <1>3 DEF K!usertrap_syscall, K!killcheck, K!exited
  <2>3. \A y \in {dead, gone, back, call} : y.pc # "user"
    BY <2>1 DEF K!allocproc, Fields
  <2> HIDE DEF dead, gone, back, call
  <2>4. QED
    BY <2>1, <2>2, <2>3, SetStays
<1>4. CASE K!usertrap_intr(h)
  <2> DEFINE P == K!Set(h, [K!Cur(h) EXCEPT !.epc = K!epc_of(h), !.pc = "killcheck"])
  <2>1. (proc' = P /\ ticks' = ticks) \/ K!clockintr(h, P)
    BY <1>4 DEF K!usertrap_intr, K!devintr
  <2>2. DOMAIN P[p] = Fields /\ P[p].pc = IF p = hart[h].p THEN "killcheck" ELSE proc[p].pc
    BY <1>0, <1>4 DEF K!Set, K!Cur, Fields, K!usertrap_intr, K!At
  <2> HIDE DEF P
  <2>3. proc'[p].pc = P[p].pc
    BY <2>1, <2>2, TickStays
  <2>4. QED
    BY <1>4, <2>2, <2>3 DEF Stays, K!usertrap_intr, K!At, K!Cur
<1>5. CASE \/ K!usertrap_fault(h) \/ K!syscall(h) \/ K!sys_sleep(h)
           \/ K!ret_intr_off(h) \/ K!ret_stvec(h)
  BY <1>0, <1>5 DEF Stays, Fields, K!usertrap_fault, K!syscall, K!sys_sleep,
     K!ret_intr_off, K!ret_stvec, K!At, K!Set, K!Cur
<1>6. CASE K!sys_kill(h)
  <2> DEFINE o == hart[h].p
  <2>1. o \in Proc /\ proc[o].pc = "syscall"
    BY <1>0, <1>6 DEF K!sys_kill, K!At, K!Cur
  <2>2. PICK q \in Proc :
          proc' = [proc EXCEPT ![o].pc = "killcheck", ![q].killed = TRUE,
                               ![q].state = IF @ = "SLEEPING" THEN "RUNNABLE" ELSE @]
    BY <1>6 DEF K!sys_kill
  <2> HIDE DEF o
  <2>3. proc'[p].pc = IF p = o THEN "killcheck" ELSE proc[p].pc
    BY <1>0, <2>1, <2>2 DEF Fields
  <2>4. QED
    BY <2>1, <2>3 DEF Stays
<1>7. CASE K!sleep_loop(h) \/ K!sleep(h)
  <2>1. /\ hart[h].p # None /\ K!Cur(h).pc \in {"sleep", "to_sleep"}
        /\ DOMAIN K!Cur(h) = Fields
    BY <1>0, <1>7 DEF K!sleep_loop, K!sleep, K!At, K!Cur
  <2> DEFINE x == [K!Cur(h) EXCEPT !.pc = "sleep", !.state = "SLEEPING"]
             y == [K!Cur(h) EXCEPT !.pc = "to_sleep"]
             z == [K!Cur(h) EXCEPT !.pc = "killcheck", !.ticks0 = 0, !.n = 0]
  <2>2. proc' = K!Set(h, x) \/ proc' = K!Set(h, y) \/ proc' = K!Set(h, z)
    BY <1>7 DEF K!sleep_loop, K!sleep
  <2>3. x.pc = "sleep" /\ y.pc = "to_sleep" /\ z.pc = "killcheck"
    BY <2>1 DEF Fields
  <2> HIDE DEF x, y, z
  <2>4. QED
    BY <2>1, <2>2, <2>3, SetStays
<1>8. CASE K!kerneltrap(h)
  <2> DEFINE y == [K!Cur(h) EXCEPT !.pc = "kernelret", !.cause = K!Cur(h).cause[2]]
             P == K!Set(h, y)
             R == K!Set(h, [y EXCEPT !.state = "RUNNABLE"])
  <2>1. \/ proc' = P /\ ticks' = ticks
        \/ K!clockintr(h, R)
    BY <1>8 DEF K!kerneltrap
  <2>2. /\ DOMAIN P[p] = Fields /\ P[p].pc = IF p = hart[h].p THEN "kernelret" ELSE proc[p].pc
        /\ DOMAIN R[p] = Fields /\ R[p].pc = IF p = hart[h].p THEN "kernelret" ELSE proc[p].pc
    BY <1>0, <1>8 DEF K!Set, K!Cur, Fields, K!kerneltrap, K!At
  <2> HIDE DEF P, R
  <2>3. proc'[p].pc = IF p = hart[h].p THEN "kernelret" ELSE proc[p].pc
    BY <2>1, <2>2, TickStays
  <2>4. QED
    BY <1>8, <2>3 DEF Stays, K!kerneltrap, K!At, K!Cur
<1>9. CASE K!scheduler(h)
  <2>1. PICK q \in Proc : proc' = [proc EXCEPT ![q].state = "RUNNING"]
    BY <1>9 DEF K!scheduler
  <2>2. QED
    BY <1>0, <2>1 DEF Stays, Fields
<1>10. CASE K!scheduler_intr(h)
  BY <1>0, <1>10, TickStays DEF Stays, K!scheduler_intr
<1>11. QED
  BY <1>1, <1>2, <1>3, <1>4, <1>5, <1>6, <1>7, <1>8, <1>9, <1>10

\* The two steps that come back find the place in the frame.
LEMMA StepComesBack ==
  ASSUME K!TrapConstants, TrapInv, [K!Next]_K!vars, NEW p \in Proc
  PROVE  K!ComesBackTo(p)
<1>0. /\ DOMAIN proc = Proc /\ DOMAIN proc[p] = Fields
      /\ \A h \in K!Hart : hart[h].p # None => hart[h].p \in Proc
  BY Shape
<1>1. CASE UNCHANGED K!vars
  BY <1>1 DEF K!vars, K!ComesBackTo
<1>2. ASSUME NEW h \in K!Hart, K!kernelret(h) PROVE K!ComesBackTo(p)
  <2>1. /\ ProcOK(K!Cur(h)) /\ K!Cur(h).pc = "kernelret" /\ hart[h].p \in Proc
    BY <1>2, HereAt DEF K!kernelret
  <2>2. /\ K!restored(h)[1] = "kernel" /\ K!restored(h)[2] = K!Cur(h).kleft
        /\ K!Cur(h).kleft \in Open
    BY <2>1 DEF ProcOK, K!restored
  <2>3. proc' = K!Set(h, [K!Cur(h) EXCEPT !.pc = K!Cur(h).kleft, !.frame = K!Stale, !.kleft = ""])
    BY <1>2, <2>2 DEF K!kernelret
  <2>4. proc'[p].pc = IF p = hart[h].p THEN K!Cur(h).kleft ELSE proc[p].pc
    BY <1>0, <2>1, <2>3 DEF K!Set, K!Cur, Fields
  <2>5. QED
    BY <2>1, <2>2, <2>4 DEF K!ComesBackTo, K!Cur, Open
<1>3. ASSUME NEW h \in K!Hart, K!ret_sret(h) PROVE K!ComesBackTo(p)
  <2>1. /\ ProcOK(K!Cur(h)) /\ K!Cur(h).pc = "ret_sret" /\ hart[h].p \in Proc
    BY <1>3, HereAt DEF K!ret_sret
  <2>2. K!Cur(h).epc = K!Cur(h).uleft
    BY <2>1 DEF ProcOK, Inside
  <2>3. /\ p # hart[h].p => proc'[p] = proc[p]
        /\ p = hart[h].p => proc'[p].upc = K!Cur(h).epc
    BY <1>0, <1>3, <2>1 DEF K!ret_sret, K!Set, K!Cur, Fields
  <2>4. QED
    BY <2>1, <2>2, <2>3 DEF K!ComesBackTo, K!Cur
<1>4. ASSUME NEW h \in K!Hart, Stays(p) PROVE K!ComesBackTo(p)
  BY <1>4 DEF Stays, K!ComesBackTo
<1>5. QED
  BY <1>1, <1>2, <1>3, <1>4, OthersStay DEF K!Next

\* usertrapret() and the end of kerneltrap(), for any number of harts and
\* processes: every trap comes back to the place it left, behind the ecall of a
\* system call, however often the process has been moved in between.
THEOREM TrapsComeBack == K!TrapConstants => (K!Spec => K!ComesBack)
<1> SUFFICES ASSUME K!TrapConstants PROVE K!Spec => K!ComesBack
  OBVIOUS
<1>1. TrapInv /\ [K!Next]_K!vars => [\A p \in Proc : K!ComesBackTo(p)]_K!vars
  BY StepComesBack
<1>2. QED
  BY <1>1, TrapInvariance, PTL DEF K!Spec, K!ComesBack

-----------------------------------------------------------------------------
(* The inductive invariant of the disk driver *)

\* Slot k of a ring is between the indices lo and hi, which wrap at NUM.
Between(k, lo, hi) == IF lo =< hi THEN lo =< k /\ k < hi ELSE lo =< k \/ k < hi
InAvail(k) == Between(k, seen, availIdx)
InUsed(k) == Between(k, usedIdx, usedId)

\* Every request that waits has one chain, made of three descriptors that name
\* its buffer.
HeadInv ==
  /\ \A i, j \in D!Desc : info[i] # None /\ info[i] = info[j] => i = j
  /\ \A b \in Buf : D!Waits(b) <=> \E i \in D!Desc : info[i] = b
  /\ \A i \in D!Desc : info[i] # None =>
       /\ desc[i].chain /\ desc[i].next # i
       /\ desc[desc[i].next].chain /\ desc[desc[i].next].addr = info[i]

\* The chain with head i belongs to a request the handler has not answered.
Unanswered(i) == info[i] # None /\ bdisk[info[i]]

\* A chain that is to be transferred is in one place only: in the available
\* ring, at the device, or in the used ring when its transfer is over.
FlightInv ==
  /\ \A k \in D!Desc : InAvail(k) => Unanswered(avail[k]) /\ avail[k] \notin busy
  /\ \A i \in busy : Unanswered(i)
  /\ \A k \in D!Desc : InUsed(k) =>
       Unanswered(used[k]) /\ used[k] \notin busy /\ info[used[k]] \in served
  /\ \A k, l \in D!Desc : InAvail(k) /\ InUsed(l) => avail[k] # used[l]
  /\ \A k, l \in D!Desc : InAvail(k) /\ InAvail(l) /\ avail[k] = avail[l] => k = l
  /\ \A k, l \in D!Desc : InUsed(k) /\ InUsed(l) /\ used[k] = used[l] => k = l

\* b->disk is set while the request waits, and no sleeper is left behind.
WaitInv ==
  \A b \in Buf :
    /\ bdisk[b] => D!Waits(b)
    /\ D!Waits(b) => bdisk[b] \/ b \in served
    /\ pc[b] = "sleep_buf" => bdisk[b]
    /\ pc[b] = "sleep_desc" => D!Cardinality(free) < 3

DiskInv == D!TypeOK /\ D!NoPanic /\ D!DescConserved /\ HeadInv /\ FlightInv /\ WaitInv

-----------------------------------------------------------------------------
(* The disk driver *)

\* Virtio counts as the theorems about finite sets do.
LEMMA DiskCard == \A S : D!Cardinality(S) = Cardinality(S)
BY DEF D!Cardinality, Cardinality

\* An index of a ring is below NUM and its successor wraps.
LEMMA Wrap ==
  ASSUME D!VirtioConstants, NEW x \in D!Desc
  PROVE  /\ x % NUM = x
         /\ (x + 1) % NUM = IF x = NUM - 1 THEN 0 ELSE x + 1
         /\ (x + 1) % NUM \in D!Desc
<1>1. x % NUM = x
  BY DEF D!VirtioConstants, D!Desc
<1>2. x # NUM - 1 => (x + 1) % NUM = x + 1
  BY DEF D!VirtioConstants, D!Desc
<1>3. NUM % NUM = 0
  BY DEF D!VirtioConstants
<1>4. x = NUM - 1 => x + 1 = NUM
  BY DEF D!VirtioConstants, D!Desc
<1>5. QED
  BY <1>1, <1>2, <1>3, <1>4 DEF D!VirtioConstants, D!Desc

\* What a producer adds to a ring that is not full ...
LEMMA RingPush ==
  ASSUME D!VirtioConstants, NEW lo \in D!Desc, NEW hi \in D!Desc, (hi + 1) % NUM # lo
  PROVE  /\ ~Between(hi, lo, hi)
         /\ \A k \in D!Desc : Between(k, lo, (hi + 1) % NUM) <=> Between(k, lo, hi) \/ k = hi
BY Wrap DEF D!VirtioConstants, D!Desc, Between

\* ... and what a consumer takes from one that is not empty.
LEMMA RingPop ==
  ASSUME D!VirtioConstants, NEW lo \in D!Desc, NEW hi \in D!Desc, lo # hi
  PROVE  /\ Between(lo, lo, hi)
         /\ \A k \in D!Desc : Between(k, (lo + 1) % NUM, hi) <=> Between(k, lo, hi) /\ k # lo
BY Wrap DEF D!VirtioConstants, D!Desc, Between

\* A full ring has one slot left.
LEMMA RingFull ==
  ASSUME D!VirtioConstants, NEW lo \in D!Desc, NEW hi \in D!Desc, (hi + 1) % NUM = lo
  PROVE  \A k \in D!Desc : k # hi => Between(k, lo, hi)
BY Wrap DEF D!VirtioConstants, D!Desc, Between

\* Every non-empty set of descriptors has a lowest one.
LEMMA MinIs ==
  ASSUME D!VirtioConstants, NEW Q \in SUBSET D!Desc, Q # {}
  PROVE  D!Min(Q) \in Q
<1>1. Q \in SUBSET Nat
  BY DEF D!Desc, D!VirtioConstants
<1>2. IsWellFoundedOn(OpToRel(<, Nat), Nat)
  BY NatLessThanWellFounded
<1>3. PICK x \in Q : \A y \in Q : ~(<<y, x>> \in OpToRel(<, Nat))
  BY <1>1, <1>2, WFMin, Zenon
<1>4. \A y \in Q : ~(y < x)
  BY <1>1, <1>3, Zenon DEF OpToRel
<1>5. \A y \in Q : x =< y
  BY <1>1, <1>4
<1>6. \E z \in Q : \A y \in Q : z =< y
  BY <1>5
<1>7. QED
  BY <1>6, Zenon DEF D!Min

\* There are NUM descriptors.
LEMMA DescFinite ==
  ASSUME D!VirtioConstants
  PROVE  /\ IsFiniteSet(D!Desc) /\ D!Cardinality(D!Desc) = NUM
         /\ \A Q \in SUBSET D!Desc : IsFiniteSet(Q) /\ D!Cardinality(Q) \in Nat
<1>1. IsFiniteSet(D!Desc) /\ D!Cardinality(D!Desc) = NUM
  <2>1. 0 \in Int /\ NUM - 1 \in Int
    BY DEF D!VirtioConstants
  <2>2. QED
    BY <2>1, FS_Interval, DiskCard DEF D!VirtioConstants, D!Desc
<1>2. QED
  BY <1>1, FS_Subset, FS_CardinalityType, DiskCard

\* alloc_desc() finds a free descriptor, if there is one.
LEMMA TakeOne ==
  ASSUME D!VirtioConstants, NEW Q \in SUBSET D!Desc, NEW n \in Nat, D!Cardinality(Q) >= n + 1
  PROVE  /\ Q # {} /\ D!Min(Q) \in Q
         /\ Q \ {D!Min(Q)} \in SUBSET D!Desc /\ D!Cardinality(Q \ {D!Min(Q)}) >= n
<1>1. IsFiniteSet(Q) /\ D!Cardinality(Q) \in Nat
  BY DescFinite
<1>2. Q # {}
  BY <1>1, FS_EmptySet, DiskCard
<1>3. D!Min(Q) \in Q
  BY <1>2, MinIs
<1>4. D!Cardinality(Q \ {D!Min(Q)}) = D!Cardinality(Q) - 1
  BY <1>1, <1>3, FS_RemoveElement, DiskCard
<1>5. QED
  BY <1>1, <1>2, <1>3, <1>4

\* alloc3_desc() gets three different free descriptors.
LEMMA LowestThree ==
  ASSUME D!VirtioConstants, free \in SUBSET D!Desc, D!Cardinality(free) >= 3
  PROVE  \E x, y, z \in free : /\ D!lowest3 = <<x, y, z>>
                               /\ x # y /\ x # z /\ y # z
<1> DEFINE a == D!Min(free)
           b == D!Min(free \ {a})
           v == D!Min(free \ {a, b})
<1>1. a \in free /\ free \ {a} \in SUBSET D!Desc /\ D!Cardinality(free \ {a}) >= 2
  <2>1. 2 \in Nat /\ D!Cardinality(free) >= 2 + 1
    OBVIOUS
  <2>2. QED
    BY <2>1, TakeOne
<1>2. b \in free \ {a} /\ (free \ {a}) \ {b} \in SUBSET D!Desc /\ D!Cardinality((free \ {a}) \ {b}) >= 1
  <2>1. 1 \in Nat /\ D!Cardinality(free \ {a}) >= 1 + 1
    BY <1>1
  <2>2. QED
    BY <1>1, <2>1, TakeOne
<1>3. (free \ {a}) \ {b} = free \ {a, b}
  OBVIOUS
<1>4. v \in free \ {a, b}
  <2>1. 0 \in Nat /\ D!Cardinality(free \ {a, b}) >= 0 + 1 /\ free \ {a, b} \in SUBSET D!Desc
    BY <1>2, <1>3
  <2>2. QED
    BY <2>1, TakeOne
<1>5. D!lowest3 = <<a, b, v>>
  BY DEF D!lowest3
<1> HIDE DEF a, b, v
<1>6. a \in free /\ b \in free /\ v \in free /\ a # b /\ a # v /\ b # v
  BY <1>1, <1>2, <1>4
<1>7. QED
  BY <1>5, <1>6

\* A ring in which different slots hold different descriptors out of fewer than
\* NUM - 1 is not full.
LEMMA NotFull ==
  ASSUME D!VirtioConstants, NEW lo \in D!Desc, NEW hi \in D!Desc, NEW f \in [D!Desc -> D!Desc],
         NEW x \in D!Desc, NEW y \in D!Desc, x # y,
         \A k \in D!Desc : Between(k, lo, hi) => f[k] # x /\ f[k] # y,
         \A k, l \in D!Desc : Between(k, lo, hi) /\ Between(l, lo, hi) /\ f[k] = f[l] => k = l
  PROVE  (hi + 1) % NUM # lo
<1> SUFFICES ASSUME (hi + 1) % NUM = lo PROVE FALSE
  OBVIOUS
<1> DEFINE S == D!Desc \ {hi}
           Q == (D!Desc \ {x}) \ {y}
           g == [k \in S |-> f[k]]
<1>1. \A k \in S : Between(k, lo, hi)
  BY RingFull
<1>2. g \in [S -> Q] /\ \A k, l \in S : g[k] = g[l] => k = l
  BY <1>1
<1>3. g \in Injection(S, Q)
  BY <1>2 DEF Injection, IsInjective
<1>4. IsFiniteSet(S) /\ D!Cardinality(S) = NUM - 1
  BY DescFinite, FS_RemoveElement, DiskCard
<1>5. IsFiniteSet(D!Desc \ {x}) /\ D!Cardinality(D!Desc \ {x}) = NUM - 1
  BY DescFinite, FS_RemoveElement, DiskCard
<1>6. IsFiniteSet(Q) /\ D!Cardinality(Q) = NUM - 2
  <2>1. IsFiniteSet(Q) /\ D!Cardinality(Q) = D!Cardinality(D!Desc \ {x}) - 1
    BY <1>5, FS_RemoveElement, DiskCard
  <2>2. QED
    BY <1>5, <2>1 DEF D!VirtioConstants
<1>7. D!Cardinality(S) =< D!Cardinality(Q)
  <2> HIDE DEF S, Q, g
  <2>1. QED
    BY <1>3, <1>4, <1>6, FS_Injection, DiskCard
<1>8. QED
  BY <1>4, <1>6, <1>7 DEF D!VirtioConstants

\* The heads of the chains of requests.
Heads == {i \in D!Desc : info[i] # None}

\* free_chain() of a request frees three descriptors.
LEMMA ChainIs ==
  ASSUME D!TypeOK, HeadInv, NEW i \in Heads
  PROVE  /\ desc[i].next \in D!Desc /\ desc[desc[i].next].next \in D!Desc
         /\ D!chain(i) = {i, desc[i].next, desc[desc[i].next].next}
<1>1. desc[i].chain /\ desc[desc[i].next].chain /\ desc[i].next \in D!Desc
  BY DEF HeadInv, Heads, D!TypeOK
<1>2. desc[desc[i].next].next \in D!Desc
  BY <1>1 DEF D!TypeOK
<1>3. QED
  BY <1>1, <1>2 DEF D!chain

\* DescConserved, descriptor by descriptor.
LEMMA Conserved ==
  ASSUME D!TypeOK, HeadInv
  PROVE  D!DescConserved <=>
           /\ \A d \in D!Desc : d \in free \/ \E i \in Heads : d \in D!chain(i)
           /\ \A i, j \in Heads : i # j => D!chain(i) \cap D!chain(j) = {}
           /\ \A i \in Heads : D!chain(i) \cap free = {}
<1>1. \A i \in Heads : D!chain(i) \subseteq D!Desc
  BY ChainIs DEF Heads
<1>2. free \subseteq D!Desc
  BY DEF D!TypeOK
<1> HIDE DEF D!Desc
<1>3. free \cup UNION {D!chain(i) : i \in Heads} = D!Desc
        <=> \A d \in D!Desc : d \in free \/ \E i \in Heads : d \in D!chain(i)
  BY <1>1, <1>2
<1>4. QED
  BY <1>3 DEF D!DescConserved, Heads

\* The same of the state after a step.
LEMMA ConservedPrimed ==
  ASSUME D!TypeOK', HeadInv',
         \A d \in D!Desc : d \in free' \/ \E i \in Heads' : d \in D!chain(i)',
         \A i, j \in Heads' : i # j => D!chain(i)' \cap D!chain(j)' = {},
         \A i \in Heads' : D!chain(i)' \cap free' = {}
  PROVE  D!DescConserved'
<1>0. \A i \in Heads' : desc'[i].next \in D!Desc /\ desc'[desc'[i].next].next \in D!Desc
  BY DEF HeadInv, Heads, D!TypeOK
<1>1. \A i \in Heads' : D!chain(i)' \subseteq D!Desc
  BY <1>0 DEF D!chain, HeadInv, Heads
<1>2. free' \subseteq D!Desc
  BY DEF D!TypeOK
<1>3. free' \cup UNION {D!chain(i)' : i \in Heads'} = D!Desc
  BY <1>1, <1>2
<1>4. QED
  BY <1>3 DEF D!DescConserved, Heads

\* A chain does not change when its descriptors do not.
LEMMA SameChain ==
  ASSUME NEW i, desc'[i] = desc[i], desc'[desc[i].next] = desc[desc[i].next]
  PROVE  D!chain(i)' = D!chain(i)
BY DEF D!chain

\* The first state.
LEMMA DiskInitInv == ASSUME D!VirtioConstants PROVE D!Init => DiskInv
<1> SUFFICES ASSUME D!Init PROVE DiskInv
  OBVIOUS
<1> USE DEF D!Init
<1>0. 0 \in D!Desc /\ D!WIDTH = NUM
  BY DEF D!VirtioConstants, D!Desc, D!WIDTH
<1>1. D!TypeOK
  <2>1. desc \in [D!Desc -> [chain : BOOLEAN, next : D!Desc, addr : Buf \cup {None}]]
    BY <1>0 DEF D!blank
  <2>2. {avail, used} \subseteq [D!Desc -> D!Desc]
    BY <1>0
  <2>3. {availIdx, usedId, seen} \subseteq 0..(D!WIDTH - 1)
    BY <1>0 DEF D!Desc
  <2>4. QED
    BY <1>0, <2>1, <2>2, <2>3 DEF D!TypeOK
<1>2. \A k \in D!Desc : ~InAvail(k) /\ ~InUsed(k)
  BY DEF InAvail, InUsed, Between, D!Desc, D!VirtioConstants
<1>3. HeadInv /\ FlightInv /\ WaitInv /\ D!NoPanic
  BY <1>1, <1>2 DEF HeadInv, FlightInv, WaitInv, D!Waits, D!NoPanic, D!VirtioConstants
<1>4. Heads = {}
  BY DEF Heads
<1>5. D!DescConserved
  BY <1>1, <1>3, <1>4, Conserved
<1>6. QED
  BY <1>1, <1>3, <1>5 DEF DiskInv

\* The steps that touch neither descriptors nor rings.
LEMMA QuietStep ==
  ASSUME D!VirtioConstants, DiskInv, UNCHANGED <<free, desc, info>>
  PROVE  D!DescConserved'
BY DEF DiskInv, D!DescConserved, D!chain

\* virtio_disk_rw() finds fewer than three free descriptors.
LEMMA DiskSleepStep ==
  ASSUME D!VirtioConstants, DiskInv, NEW b \in Buf, D!virtio_disk_rw(b), D!rw_sleep(b)
  PROVE  DiskInv'
<1> USE DEF D!virtio_disk_rw, D!rw_sleep
<1>0. UNCHANGED <<free, desc, info, avail, availIdx, bdisk, served, used, usedId, usedIdx,
                  seen, busy, isr, handler, disk_panicked>>
  OBVIOUS
<1>1. /\ pc' \in [Buf -> {"idle", "sleep_desc", "want_desc", "sleep_buf", "woken_buf"}]
      /\ \A x \in Buf : (pc'[x] = pc[x] \/ pc'[x] = "want_desc" \/ x = b)
      /\ \A x \in Buf : x # b => (pc'[x] = "want_desc" => pc[x] \in {"want_desc", "sleep_desc"})
      /\ pc'[b] = "sleep_desc" /\ pc[b] \in {"idle", "want_desc"}
  BY DEF DiskInv, D!TypeOK, D!wake_desc
<1>2. D!TypeOK'
  BY <1>0, <1>1 DEF DiskInv, D!TypeOK
<1>3. \A x \in Buf : D!Waits(x)' <=> D!Waits(x)
  BY <1>1 DEF D!Waits, DiskInv, D!TypeOK
<1>4. HeadInv'
  BY <1>0, <1>3 DEF DiskInv, HeadInv
<1>5. FlightInv'
  BY <1>0 DEF DiskInv, FlightInv, InAvail, InUsed, Unanswered
<1>6. WaitInv'
  BY <1>0, <1>1, <1>3 DEF DiskInv, WaitInv
<1>7. D!NoPanic'
  BY <1>0 DEF DiskInv, D!NoPanic
<1>8. D!DescConserved'
  BY <1>0, QuietStep
<1>9. QED
  BY <1>2, <1>4, <1>5, <1>6, <1>7, <1>8 DEF DiskInv

\* kill() wakes a requester that goes back to sleep.
LEMMA DiskKillStep ==
  ASSUME D!VirtioConstants, DiskInv, NEW b \in Buf, D!kill(b)
  PROVE  DiskInv'
<1> USE DEF D!kill
<1>0. UNCHANGED <<free, desc, info, avail, availIdx, bdisk, served, used, usedId, usedIdx,
                  seen, busy, isr, handler, disk_panicked>>
  OBVIOUS
<1>1. /\ pc' \in [Buf -> {"idle", "sleep_desc", "want_desc", "sleep_buf", "woken_buf"}]
      /\ \A x \in Buf : x # b => pc'[x] = pc[x]
      /\ \/ pc[b] = "sleep_desc" /\ pc'[b] = "want_desc"
         \/ pc[b] = "sleep_buf" /\ pc'[b] = "woken_buf"
  BY DEF DiskInv, D!TypeOK
<1>2. D!TypeOK'
  BY <1>0, <1>1 DEF DiskInv, D!TypeOK
<1>3. \A x \in Buf : D!Waits(x)' <=> D!Waits(x)
  BY <1>1 DEF D!Waits, DiskInv, D!TypeOK
<1>4. HeadInv'
  BY <1>0, <1>3 DEF DiskInv, HeadInv
<1>5. FlightInv'
  BY <1>0 DEF DiskInv, FlightInv, InAvail, InUsed, Unanswered
<1>6. WaitInv'
  BY <1>0, <1>1, <1>3 DEF DiskInv, WaitInv
<1>7. D!NoPanic'
  BY <1>0 DEF DiskInv, D!NoPanic
<1>8. D!DescConserved'
  BY <1>0, QuietStep
<1>9. QED
  BY <1>2, <1>4, <1>5, <1>6, <1>7, <1>8 DEF DiskInv

\* The handler begins, or acknowledges its interrupt.
LEMMA DiskIntrStep ==
  ASSUME D!VirtioConstants, DiskInv, D!intr \/ D!intr_ack
  PROVE  DiskInv'
<1> USE DEF D!intr, D!intr_ack
<1>0. UNCHANGED <<free, desc, info, avail, availIdx, bdisk, served, used, usedId, usedIdx,
                  seen, busy, pc, disk_panicked>>
  OBVIOUS
<1>2. D!TypeOK'
  BY <1>0 DEF DiskInv, D!TypeOK
<1>4. HeadInv'
  BY <1>0 DEF DiskInv, HeadInv, D!Waits
<1>5. FlightInv'
  BY <1>0 DEF DiskInv, FlightInv, InAvail, InUsed, Unanswered
<1>6. WaitInv'
  BY <1>0 DEF DiskInv, WaitInv, D!Waits
<1>7. D!NoPanic'
  BY <1>0 DEF DiskInv, D!NoPanic
<1>8. D!DescConserved'
  BY <1>0, QuietStep
<1>9. QED
  BY <1>2, <1>4, <1>5, <1>6, <1>7, <1>8 DEF DiskInv

\* virtio_disk_rw() publishes a chain: its descriptors were free, and the
\* available ring has room because every entry names a chain of its own.
LEMMA PublishStep ==
  ASSUME D!VirtioConstants, DiskInv, NEW b \in Buf, D!virtio_disk_rw(b), D!rw_publish(b)
  PROVE  DiskInv'
<1>0. UNCHANGED <<used, usedId, usedIdx, seen, busy, isr, handler, disk_panicked>>
  BY DEF D!virtio_disk_rw
<1>t. /\ free \in SUBSET D!Desc /\ info \in [D!Desc -> Buf \cup {None}] /\ avail \in [D!Desc -> D!Desc]
      /\ desc \in [D!Desc -> [chain : BOOLEAN, next : D!Desc, addr : Buf \cup {None}]]
      /\ availIdx \in D!Desc /\ seen \in D!Desc /\ b # None /\ D!WIDTH = NUM
      /\ bdisk \in [Buf -> BOOLEAN] /\ busy \subseteq D!Desc
      /\ pc \in [Buf -> {"idle", "sleep_desc", "want_desc", "sleep_buf", "woken_buf"}]
  BY DEF DiskInv, D!TypeOK, D!VirtioConstants, D!WIDTH, D!Desc
<1>1. PICK x, y, z \in free : /\ D!lowest3 = <<x, y, z>>
                              /\ x # y /\ x # z /\ y # z
  BY <1>t, LowestThree DEF D!rw_publish
<1>2. /\ free' = free \ {x, y, z}
      /\ desc' = [desc EXCEPT ![x] = [chain |-> TRUE, next |-> y, addr |-> None],
                              ![y] = [chain |-> TRUE, next |-> z, addr |-> b],
                              ![z] = [chain |-> FALSE, next |-> 0, addr |-> None]]
      /\ info' = [info EXCEPT ![x] = b]
      /\ avail' = [avail EXCEPT ![availIdx % NUM] = x]
  BY <1>1 DEF D!rw_publish
<1>3. /\ availIdx' = (availIdx + 1) % NUM
      /\ bdisk' = [bdisk EXCEPT ![b] = TRUE]
      /\ served' = served \ {b}
      /\ pc' = [pc EXCEPT ![b] = "sleep_buf"]
      /\ pc[b] \in {"idle", "want_desc"}
  BY <1>t DEF D!rw_publish, D!virtio_disk_rw
<1>4. x \in D!Desc /\ y \in D!Desc /\ z \in D!Desc /\ 0 \in D!Desc
  BY <1>t DEF D!VirtioConstants, D!Desc
<1>5. availIdx % NUM = availIdx /\ availIdx' \in D!Desc
  BY <1>t, <1>3, Wrap
<1>v. /\ \A d \in D!Desc : d \in free \/ \E i \in Heads : d \in D!chain(i)
      /\ \A i, j \in Heads : i # j => D!chain(i) \cap D!chain(j) = {}
      /\ \A i \in Heads : D!chain(i) \cap free = {}
      /\ \A i \in Heads : /\ desc[i].next \in D!Desc /\ desc[desc[i].next].next \in D!Desc
                          /\ D!chain(i) = {i, desc[i].next, desc[desc[i].next].next}
  BY Conserved, ChainIs DEF DiskInv
<1>6. D!TypeOK'
  <2>1. desc' \in [D!Desc -> [chain : BOOLEAN, next : D!Desc, addr : Buf \cup {None}]]
    BY <1>t, <1>2, <1>4
  <2>2. avail' \in [D!Desc -> D!Desc] /\ used' \in [D!Desc -> D!Desc]
    BY <1>0, <1>t, <1>2, <1>4 DEF DiskInv, D!TypeOK
  <2>3. info' \in [D!Desc -> Buf \cup {None}] /\ bdisk' \in [Buf -> BOOLEAN]
    BY <1>t, <1>2, <1>3
  <2>4. pc' \in [Buf -> {"idle", "sleep_desc", "want_desc", "sleep_buf", "woken_buf"}]
    BY <1>t, <1>3
  <2>5. availIdx' \in 0..(D!WIDTH - 1)
    BY <1>t, <1>5 DEF D!Desc
  <2>6. {availIdx', usedId', seen'} \subseteq 0..(D!WIDTH - 1) /\ {avail', used'} \subseteq [D!Desc -> D!Desc]
    BY <1>0, <2>2, <2>5 DEF DiskInv, D!TypeOK
  <2>7. free' \subseteq D!Desc /\ served' \subseteq Buf
    BY <1>2, <1>3, <1>t DEF DiskInv, D!TypeOK
  <2>8. QED
    BY <1>0, <2>1, <2>3, <2>4, <2>6, <2>7 DEF DiskInv, D!TypeOK
<1>7. \A i \in Heads : /\ i \notin free /\ desc[i].next \notin free
                       /\ desc'[i] = desc[i] /\ desc'[desc[i].next] = desc[desc[i].next]
                       /\ info'[i] = info[i]
  BY <1>t, <1>v, <1>2, <1>4 DEF Heads
<1>8. /\ desc'[x] = [chain |-> TRUE, next |-> y, addr |-> None]
      /\ desc'[y] = [chain |-> TRUE, next |-> z, addr |-> b]
      /\ info'[x] = b /\ Heads' = Heads \cup {x} /\ x \notin Heads
  <2>1. /\ desc'[x] = [chain |-> TRUE, next |-> y, addr |-> None]
        /\ desc'[y] = [chain |-> TRUE, next |-> z, addr |-> b]
    BY <1>t, <1>1, <1>2, <1>4
  <2>2. info'[x] = b /\ \A i \in D!Desc : i # x => info'[i] = info[i]
    BY <1>t, <1>2, <1>4
  <2>3. Heads' = Heads \cup {x}
    BY <2>2, <1>t, <1>4 DEF Heads
  <2>4. QED
    BY <2>1, <2>2, <2>3, <1>7, <1>1
<1>9. /\ \A i \in Heads : D!chain(i)' = D!chain(i)
      /\ D!chain(x)' = {x, y, z}
  <2>1. \A i \in Heads : D!chain(i)' = D!chain(i)
    BY <1>7, SameChain
  <2>2. D!chain(x)' = {x, y, z}
    BY <1>8 DEF D!chain
  <2>3. QED
    BY <2>1, <2>2
<1>10. \A i \in Heads : info[i] # b
  BY <1>3 DEF DiskInv, HeadInv, D!Waits, Heads
<1>11. HeadInv'
  <2>1. ASSUME NEW i \in D!Desc, NEW j \in D!Desc, info'[i] # None, info'[i] = info'[j]
        PROVE  i = j
    <3>1. i \in Heads' /\ j \in Heads'
      BY <2>1 DEF Heads
    <3>2. QED
      BY <2>1, <3>1, <1>7, <1>8, <1>10 DEF Heads, DiskInv, HeadInv
  <2>2. ASSUME NEW v \in Buf PROVE D!Waits(v)' <=> \E i \in D!Desc : info'[i] = v
    <3>1. v = b => D!Waits(v)' /\ info'[x] = v
      BY <1>t, <1>3, <1>8 DEF D!Waits
    <3>2. v # b => (D!Waits(v)' <=> D!Waits(v))
      BY <1>t, <1>3 DEF D!Waits
    <3>3. v # b => \A i \in D!Desc : info'[i] = v <=> info[i] = v
      BY <1>t, <1>2, <1>4, <1>8 DEF Heads, D!VirtioConstants
    <3>4. QED
      BY <3>1, <3>2, <3>3, <1>4 DEF DiskInv, HeadInv
  <2>3. ASSUME NEW i \in D!Desc, info'[i] # None
        PROVE  /\ desc'[i].chain /\ desc'[i].next # i
               /\ desc'[desc'[i].next].chain /\ desc'[desc'[i].next].addr = info'[i]
    <3>1. CASE i = x
      BY <3>1, <1>8, <1>1
    <3>2. CASE i # x
      <4>1. i \in Heads
        BY <3>2, <2>3, <1>8 DEF Heads
      <4>2. QED
        BY <4>1, <1>7 DEF DiskInv, HeadInv, Heads
    <3>3. QED
      BY <3>1, <3>2
  <2>4. QED
    BY <2>1, <2>2, <2>3 DEF HeadInv
<1>12. D!DescConserved'
  <2>1. \A d \in D!Desc : d \in free' \/ \E i \in Heads' : d \in D!chain(i)'
    <3> SUFFICES ASSUME NEW d \in D!Desc, d \notin free' PROVE \E i \in Heads' : d \in D!chain(i)'
      OBVIOUS
    <3>1. CASE d \in {x, y, z}
      BY <3>1, <1>8, <1>9
    <3>2. CASE d \notin {x, y, z}
      <4>1. PICK i \in Heads : d \in D!chain(i)
        BY <3>2, <1>v, <1>2
      <4>2. QED
        BY <4>1, <1>8, <1>9
    <3>3. QED
      BY <3>1, <3>2
  <2>2. \A i, j \in Heads' : i # j => D!chain(i)' \cap D!chain(j)' = {}
    BY <1>1, <1>8, <1>9, <1>v
  <2>3. \A i \in Heads' : D!chain(i)' \cap free' = {}
    BY <1>2, <1>8, <1>9, <1>v
  <2>4. QED
    BY <1>6, <1>11, <2>1, <2>2, <2>3, ConservedPrimed
<1>13. (availIdx + 1) % NUM # seen
  <2>1. \A k \in D!Desc : InAvail(k) => avail[k] \in Heads
    BY <1>t DEF DiskInv, FlightInv, Unanswered, Heads
  <2>2. \A k \in D!Desc : Between(k, seen, availIdx) => avail[k] # x /\ avail[k] # y
    BY <2>1, <1>7, <1>1 DEF InAvail
  <2>3. \A k, l \in D!Desc :
          Between(k, seen, availIdx) /\ Between(l, seen, availIdx) /\ avail[k] = avail[l] => k = l
    BY DEF DiskInv, FlightInv, InAvail
  <2>4. QED
    BY <1>t, <1>1, <1>4, <2>2, <2>3, NotFull
<1>14. /\ ~InAvail(availIdx)
       /\ \A k \in D!Desc : InAvail(k)' <=> InAvail(k) \/ k = availIdx
  BY <1>0, <1>3, <1>13, <1>t, RingPush DEF InAvail
<1>15. \A k \in D!Desc : InUsed(k)' <=> InUsed(k)
  BY <1>0 DEF InUsed
<1>16. /\ avail'[availIdx] = x
       /\ \A k \in D!Desc : InAvail(k) => avail'[k] = avail[k]
  BY <1>2, <1>5, <1>14, <1>t
<1>17. /\ Unanswered(x)'
       /\ \A i \in D!Desc : Unanswered(i) => Unanswered(i)' /\ i # x /\ info[i] # b
  <2>1. Unanswered(x)'
    BY <1>t, <1>3, <1>8 DEF Unanswered
  <2>2. ASSUME NEW i \in D!Desc, Unanswered(i) PROVE Unanswered(i)' /\ i # x /\ info[i] # b
    <3>1. i \in Heads
      BY <2>2 DEF Unanswered, Heads
    <3>2. info[i] \in Buf /\ info[i] # b /\ i # x /\ info'[i] = info[i]
      BY <3>1, <1>7, <1>8, <1>10, <1>t DEF Heads
    <3>3. QED
      BY <2>2, <3>2, <1>3, <1>t DEF Unanswered
  <2>3. QED
    BY <2>1, <2>2
<1>18. FlightInv'
  <2>1. /\ \A i \in busy : i # x
        /\ \A l \in D!Desc : InUsed(l) => used[l] \in D!Desc /\ used[l] # x
    BY <1>17, <1>t DEF DiskInv, FlightInv, D!TypeOK
  <2>2. \A k \in D!Desc : InAvail(k)' => Unanswered(avail[k])' /\ avail'[k] \notin busy'
    BY <1>0, <1>t, <1>14, <1>16, <1>17, <2>1 DEF DiskInv, FlightInv
  <2>3. \A i \in busy' : Unanswered(i)'
    BY <1>0, <1>17, <1>t DEF DiskInv, FlightInv
  <2>4. \A k \in D!Desc : InUsed(k)' =>
          Unanswered(used[k])' /\ used'[k] \notin busy' /\ info'[used'[k]] \in served'
    <3> SUFFICES ASSUME NEW k \in D!Desc, InUsed(k)'
                 PROVE  Unanswered(used[k])' /\ used'[k] \notin busy' /\ info'[used'[k]] \in served'
      OBVIOUS
    <3>1. InUsed(k) /\ used[k] \in D!Desc /\ used[k] # x
      BY <1>15, <2>1
    <3>2. Unanswered(used[k]) /\ used[k] \notin busy /\ info[used[k]] \in served
      BY <3>1 DEF DiskInv, FlightInv
    <3>3. info'[used[k]] = info[used[k]]
      BY <3>1, <1>2, <1>t
    <3>4. QED
      BY <3>1, <3>2, <3>3, <1>17, <1>0, <1>3
  <2>5. \A k, l \in D!Desc : InAvail(k)' /\ InUsed(l)' => avail'[k] # used'[l]
    BY <1>0, <1>14, <1>15, <1>16, <2>1 DEF DiskInv, FlightInv
  <2>6. \A k, l \in D!Desc : InAvail(k)' /\ InAvail(l)' /\ avail'[k] = avail'[l] => k = l
    BY <1>14, <1>16, <1>17, <1>t DEF DiskInv, FlightInv
  <2>7. \A k, l \in D!Desc : InUsed(k)' /\ InUsed(l)' /\ used'[k] = used'[l] => k = l
    BY <1>0, <1>15 DEF DiskInv, FlightInv
  <2>8. QED
    BY <2>2, <2>3, <2>4, <2>5, <2>6, <2>7 DEF FlightInv
<1>19. WaitInv'
  <2>1. D!Cardinality(free') =< D!Cardinality(free) /\ D!Cardinality(free') \in Nat /\ D!Cardinality(free) \in Nat
    BY <1>2, <1>t, DescFinite, FS_Subset, DiskCard
  <2>2. QED
    BY <2>1, <1>3, <1>t DEF DiskInv, WaitInv, D!Waits
<1>20. QED
  BY <1>6, <1>11, <1>12, <1>18, <1>19, <1>0 DEF DiskInv, D!NoPanic

\* The types of the variables, one by one.
LEMMA DiskTypes ==
  ASSUME D!VirtioConstants, D!TypeOK
  PROVE  /\ free \in SUBSET D!Desc /\ busy \in SUBSET D!Desc
         /\ info \in [D!Desc -> Buf \cup {None}]
         /\ avail \in [D!Desc -> D!Desc] /\ used \in [D!Desc -> D!Desc]
         /\ desc \in [D!Desc -> [chain : BOOLEAN, next : D!Desc, addr : Buf \cup {None}]]
         /\ availIdx \in D!Desc /\ seen \in D!Desc /\ usedId \in D!Desc /\ usedIdx \in D!Desc
         /\ bdisk \in [Buf -> BOOLEAN] /\ served \in SUBSET Buf /\ D!WIDTH = NUM /\ None \notin Buf
         /\ pc \in [Buf -> {"idle", "sleep_desc", "want_desc", "sleep_buf", "woken_buf"}]
BY DEF D!TypeOK, D!VirtioConstants, D!WIDTH, D!Desc

\* virtio_disk_rw() returns: its chain is in neither ring nor at the
\* device, since b->disk is clear, and free_desc() finds none of it free.
LEMMA WokenStep ==
  ASSUME D!VirtioConstants, DiskInv, NEW b \in Buf, D!rw_woken(b), D!finished(b)
  PROVE  DiskInv'
<1>0. UNCHANGED <<avail, availIdx, used, usedId, usedIdx, bdisk, seen, busy, isr, handler, served>>
  BY DEF D!rw_woken
<1>t. /\ free \in SUBSET D!Desc /\ info \in [D!Desc -> Buf \cup {None}] /\ avail \in [D!Desc -> D!Desc]
      /\ desc \in [D!Desc -> [chain : BOOLEAN, next : D!Desc, addr : Buf \cup {None}]]
      /\ bdisk \in [Buf -> BOOLEAN] /\ busy \subseteq D!Desc /\ None \notin Buf
      /\ pc \in [Buf -> {"idle", "sleep_desc", "want_desc", "sleep_buf", "woken_buf"}]
  BY DiskTypes DEF DiskInv
<1> DEFINE h == CHOOSE i \in D!Desc : info[i] = b
<1>1. h \in D!Desc /\ info[h] = b
  <2>1. \E i \in D!Desc : info[i] = b
    BY DEF D!rw_woken, D!Waits, DiskInv, HeadInv
  <2>2. QED
    BY <2>1
<1>2. /\ disk_panicked' = (D!chain(h) \cap free # {})
      /\ info' = [info EXCEPT ![h] = None]
      /\ free' = free \cup D!chain(h)
      /\ desc' = [d \in D!Desc |-> IF d \in D!chain(h) THEN D!blank ELSE desc[d]]
      /\ pc' = [D!wake_desc(pc) EXCEPT ![b] = "idle"]
      /\ pc[b] = "woken_buf" /\ ~bdisk[b]
  BY DEF D!rw_woken, D!free_chain, D!finished
<1> HIDE DEF h
<1>3. h \in Heads
  BY <1>1, <1>t DEF Heads
<1>v. /\ \A d \in D!Desc : d \in free \/ \E i \in Heads : d \in D!chain(i)
      /\ \A i, j \in Heads : i # j => D!chain(i) \cap D!chain(j) = {}
      /\ \A i \in Heads : D!chain(i) \cap free = {}
      /\ \A i \in Heads : /\ desc[i].next \in D!Desc /\ desc[desc[i].next].next \in D!Desc
                          /\ D!chain(i) = {i, desc[i].next, desc[desc[i].next].next}
  BY Conserved, ChainIs DEF DiskInv
<1>4. /\ \A i \in D!Desc : i # h => info'[i] = info[i]
      /\ info'[h] = None /\ Heads' = Heads \ {h}
  <2>1. /\ \A i \in D!Desc : i # h => info'[i] = info[i]
        /\ info'[h] = None
    BY <1>1, <1>2, <1>t
  <2>2. QED
    BY <2>1 DEF Heads
<1>5. \A i \in Heads : i # h => desc'[i] = desc[i] /\ desc'[desc[i].next] = desc[desc[i].next]
  <2> SUFFICES ASSUME NEW i \in Heads, i # h
               PROVE  desc'[i] = desc[i] /\ desc'[desc[i].next] = desc[desc[i].next]
    OBVIOUS
  <2>1. i \notin D!chain(h) /\ desc[i].next \notin D!chain(h) /\ i \in D!Desc /\ desc[i].next \in D!Desc
    BY <1>v, <1>3 DEF Heads
  <2>2. QED
    BY <2>1, <1>2
<1>6. \A i \in Heads : i # h => D!chain(i)' = D!chain(i)
  BY <1>5, SameChain
<1>7. D!chain(h) \subseteq D!Desc
  BY <1>1, <1>3, <1>v
<1>8. /\ pc' \in [Buf -> {"idle", "sleep_desc", "want_desc", "sleep_buf", "woken_buf"}]
      /\ \A x \in Buf : x # b => pc'[x] = IF pc[x] = "sleep_desc" THEN "want_desc" ELSE pc[x]
      /\ pc'[b] = "idle"
  BY <1>2, <1>t DEF D!wake_desc
<1>9. D!TypeOK'
  <2>1. info' \in [D!Desc -> Buf \cup {None}]
    BY <1>2, <1>t
  <2>2. D!blank \in [chain : BOOLEAN, next : D!Desc, addr : Buf \cup {None}]
    BY DEF D!blank, D!Desc, D!VirtioConstants
  <2>3. desc' \in [D!Desc -> [chain : BOOLEAN, next : D!Desc, addr : Buf \cup {None}]]
    BY <1>2, <1>t, <2>2
  <2>4. free' \subseteq D!Desc
    BY <1>2, <1>7, <1>t
  <2>5. disk_panicked' \in BOOLEAN
    BY <1>2
  <2>6. {isr', disk_panicked'} \subseteq BOOLEAN
    BY <1>0, <2>5 DEF DiskInv, D!TypeOK
  <2>7. QED
    BY <1>0, <1>8, <2>1, <2>3, <2>4, <2>6 DEF DiskInv, D!TypeOK
<1>10. \A x \in Buf : D!Waits(x)' <=> D!Waits(x) /\ x # b
  BY <1>8 DEF D!Waits
<1>11. HeadInv'
  <2>1. ASSUME NEW i \in D!Desc, NEW j \in D!Desc, info'[i] # None, info'[i] = info'[j]
        PROVE  i = j
    BY <2>1, <1>4 DEF DiskInv, HeadInv
  <2>2. ASSUME NEW v \in Buf PROVE D!Waits(v)' <=> \E i \in D!Desc : info'[i] = v
    <3>1. ASSUME NEW i \in D!Desc PROVE info'[i] = v <=> info[i] = v /\ v # b
      BY <1>1, <1>4, <1>t DEF DiskInv, HeadInv
    <3>2. QED
      BY <3>1, <1>10 DEF DiskInv, HeadInv
  <2>3. ASSUME NEW i \in D!Desc, info'[i] # None
        PROVE  /\ desc'[i].chain /\ desc'[i].next # i
               /\ desc'[desc'[i].next].chain /\ desc'[desc'[i].next].addr = info'[i]
    <3>1. i \in Heads /\ i # h
      BY <2>3, <1>4 DEF Heads
    <3>2. QED
      BY <3>1, <1>4, <1>5 DEF DiskInv, HeadInv, Heads
  <2>4. QED
    BY <2>1, <2>2, <2>3 DEF HeadInv
<1>12. D!DescConserved'
  <2>1. \A d \in D!Desc : d \in free' \/ \E i \in Heads' : d \in D!chain(i)'
    <3> SUFFICES ASSUME NEW d \in D!Desc, d \notin free' PROVE \E i \in Heads' : d \in D!chain(i)'
      OBVIOUS
    <3>1. PICK i \in Heads : d \in D!chain(i)
      BY <1>v, <1>2
    <3>2. i # h
      BY <3>1, <1>2
    <3>3. QED
      BY <3>1, <3>2, <1>4, <1>6
  <2>2. \A i, j \in Heads' : i # j => D!chain(i)' \cap D!chain(j)' = {}
    BY <1>4, <1>6, <1>v
  <2>3. \A i \in Heads' : D!chain(i)' \cap free' = {}
    BY <1>2, <1>3, <1>4, <1>6, <1>v
  <2>4. QED
    BY <1>9, <1>11, <2>1, <2>2, <2>3, ConservedPrimed
<1>13. \A i \in D!Desc : Unanswered(i) => Unanswered(i)' /\ info'[i] = info[i]
  BY <1>0, <1>1, <1>2, <1>4 DEF Unanswered
<1>14. FlightInv'
  <2>1. \A k \in D!Desc : (InAvail(k)' <=> InAvail(k)) /\ (InUsed(k)' <=> InUsed(k))
    BY <1>0 DEF InAvail, InUsed
  <2>2. \A k \in D!Desc : avail[k] \in D!Desc /\ used[k] \in D!Desc
    BY DiskTypes DEF DiskInv
  <2>3. \A k \in D!Desc : InAvail(k)' => Unanswered(avail[k])' /\ avail'[k] \notin busy'
    BY <1>0, <1>13, <2>1, <2>2 DEF DiskInv, FlightInv
  <2>4. \A i \in busy' : Unanswered(i)'
    BY <1>0, <1>13, <1>t DEF DiskInv, FlightInv
  <2>5. \A k \in D!Desc : InUsed(k)' =>
          Unanswered(used[k])' /\ used'[k] \notin busy' /\ info'[used'[k]] \in served'
    BY <1>0, <1>13, <2>1, <2>2 DEF DiskInv, FlightInv
  <2>6. QED
    BY <1>0, <2>1, <2>3, <2>4, <2>5 DEF DiskInv, FlightInv
<1>15. WaitInv'
  BY <1>0, <1>2, <1>8, <1>10 DEF DiskInv, WaitInv
<1>16. D!NoPanic'
  BY <1>2, <1>3, <1>v DEF D!NoPanic
<1>17. QED
  BY <1>9, <1>11, <1>12, <1>14, <1>15, <1>16 DEF DiskInv

\* A process woken early goes back to sleep.
LEMMA SpuriousStep ==
  ASSUME D!VirtioConstants, DiskInv, NEW b \in Buf, D!rw_woken(b), ~D!finished(b)
  PROVE  DiskInv'
<1>0. UNCHANGED <<free, desc, info, avail, availIdx, bdisk, served, used, usedId, usedIdx,
                  seen, busy, isr, handler, disk_panicked>>
  BY DEF D!rw_woken
<1>1. /\ pc' = [pc EXCEPT ![b] = "sleep_buf"] /\ bdisk[b] /\ pc[b] = "woken_buf"
      /\ pc \in [Buf -> {"idle", "sleep_desc", "want_desc", "sleep_buf", "woken_buf"}]
  BY DEF D!rw_woken, D!finished, DiskInv, D!TypeOK
<1>2. D!TypeOK'
  BY <1>0, <1>1 DEF DiskInv, D!TypeOK
<1>3. \A x \in Buf : D!Waits(x)' <=> D!Waits(x)
  BY <1>1 DEF D!Waits
<1>4. HeadInv'
  BY <1>0, <1>3 DEF DiskInv, HeadInv
<1>5. FlightInv'
  BY <1>0 DEF DiskInv, FlightInv, InAvail, InUsed, Unanswered
<1>6. WaitInv'
  BY <1>0, <1>1, <1>3 DEF DiskInv, WaitInv
<1>7. D!NoPanic'
  BY <1>0 DEF DiskInv, D!NoPanic
<1>8. D!DescConserved'
  BY <1>0, QuietStep
<1>9. QED
  BY <1>2, <1>4, <1>5, <1>6, <1>7, <1>8 DEF DiskInv

\* The device takes the oldest entry of the available ring.
LEMMA TakeStep ==
  ASSUME D!VirtioConstants, DiskInv, D!dev_take
  PROVE  DiskInv'
<1>0. UNCHANGED <<free, desc, info, availIdx, used, usedId, usedIdx, bdisk, pc, isr, handler,
                  served, disk_panicked>>
  BY DEF D!dev_take
<1>t. /\ avail \in [D!Desc -> D!Desc] /\ used \in [D!Desc -> D!Desc] /\ busy \subseteq D!Desc
      /\ seen \in D!Desc /\ availIdx \in D!Desc /\ 0 \in D!Desc /\ D!WIDTH = NUM
  <2>1. 0 \in D!Desc
    BY DEF D!Desc, D!VirtioConstants
  <2>2. QED
    BY <2>1, DiskTypes DEF DiskInv
<1>1. /\ seen # availIdx /\ busy' = busy \cup {avail[seen]}
      /\ avail' = [avail EXCEPT ![seen] = 0]
      /\ seen' = (seen + 1) % NUM /\ seen' \in D!Desc
  BY <1>t, Wrap DEF D!dev_take
<1>2. /\ InAvail(seen)
      /\ \A k \in D!Desc : InAvail(k)' <=> InAvail(k) /\ k # seen
  BY <1>0, <1>1, <1>t, RingPop DEF InAvail
<1>3. \A k \in D!Desc : k # seen => avail'[k] = avail[k]
  BY <1>1, <1>t
<1>4. D!TypeOK'
  <2>1. avail' \in [D!Desc -> D!Desc] /\ busy' \subseteq D!Desc
    BY <1>1, <1>t
  <2>2. {avail', used'} \subseteq [D!Desc -> D!Desc]
    BY <1>0, <1>t, <2>1
  <2>3. {availIdx', usedId', seen'} \subseteq 0..(D!WIDTH - 1)
    BY <1>0, <1>1, <1>t DEF DiskInv, D!TypeOK, D!Desc
  <2>4. QED
    BY <1>0, <2>1, <2>2, <2>3 DEF DiskInv, D!TypeOK
<1>5. HeadInv'
  BY <1>0 DEF DiskInv, HeadInv, D!Waits
<1>6. FlightInv'
  <2>1. \A i \in D!Desc : Unanswered(i)' <=> Unanswered(i)
    BY <1>0 DEF Unanswered
  <2>2. \A k \in D!Desc : InUsed(k)' <=> InUsed(k)
    BY <1>0 DEF InUsed
  <2>3. \A k \in D!Desc : InAvail(k)' => Unanswered(avail[k])' /\ avail'[k] \notin busy'
    <3> SUFFICES ASSUME NEW k \in D!Desc, InAvail(k)' PROVE Unanswered(avail[k])' /\ avail'[k] \notin busy'
      OBVIOUS
    <3>1. InAvail(k) /\ k # seen /\ avail'[k] = avail[k] /\ avail[k] \in D!Desc
      BY <1>2, <1>3, <1>t
    <3>2. Unanswered(avail[k])'
      BY <3>1, <1>0 DEF DiskInv, FlightInv, Unanswered
    <3>3. QED
      BY <3>1, <3>2, <1>1, <1>2, <1>t DEF DiskInv, FlightInv
  <2>4. \A i \in busy' : Unanswered(i)'
    BY <1>1, <1>2, <1>t, <2>1 DEF DiskInv, FlightInv
  <2>5. \A k \in D!Desc : InUsed(k)' =>
          Unanswered(used[k])' /\ used'[k] \notin busy' /\ info'[used'[k]] \in served'
    <3> SUFFICES ASSUME NEW k \in D!Desc, InUsed(k)
                 PROVE Unanswered(used[k])' /\ used[k] \notin busy' /\ info[used[k]] \in served
      BY <1>0, <2>2
    <3>1. Unanswered(used[k]) /\ used[k] \notin busy /\ info[used[k]] \in served
      BY DEF DiskInv, FlightInv
    <3>2. avail[seen] # used[k]
      BY <1>2, <1>t DEF DiskInv, FlightInv
    <3>3. QED
      BY <3>1, <3>2, <1>0, <1>1 DEF Unanswered
  <2>6. \A k, l \in D!Desc : InAvail(k)' /\ InUsed(l)' => avail'[k] # used'[l]
    BY <1>0, <1>2, <1>3, <2>2 DEF DiskInv, FlightInv
  <2>7. \A k, l \in D!Desc : InAvail(k)' /\ InAvail(l)' /\ avail'[k] = avail'[l] => k = l
    BY <1>2, <1>3 DEF DiskInv, FlightInv
  <2>8. \A k, l \in D!Desc : InUsed(k)' /\ InUsed(l)' /\ used'[k] = used'[l] => k = l
    BY <1>0, <2>2 DEF DiskInv, FlightInv
  <2>9. QED
    BY <2>3, <2>4, <2>5, <2>6, <2>7, <2>8 DEF FlightInv
<1>7. WaitInv'
  BY <1>0 DEF DiskInv, WaitInv, D!Waits
<1>8. D!NoPanic' /\ D!DescConserved'
  BY <1>0, QuietStep DEF DiskInv, D!NoPanic
<1>9. QED
  BY <1>4, <1>5, <1>6, <1>7, <1>8 DEF DiskInv

\* The device finishes a chain: the used ring has room for it.
LEMMA CompleteStep ==
  ASSUME D!VirtioConstants, DiskInv, NEW i \in D!Desc, D!dev_complete(i)
  PROVE  DiskInv'
<1>0. UNCHANGED <<free, desc, info, avail, availIdx, usedIdx, bdisk, pc, seen, handler, disk_panicked>>
  BY DEF D!dev_complete
<1>t. /\ avail \in [D!Desc -> D!Desc] /\ used \in [D!Desc -> D!Desc] /\ busy \subseteq D!Desc
      /\ usedIdx \in D!Desc /\ usedId \in D!Desc /\ D!WIDTH = NUM /\ served \subseteq Buf
      /\ info \in [D!Desc -> Buf \cup {None}]
      /\ desc \in [D!Desc -> [chain : BOOLEAN, next : D!Desc, addr : Buf \cup {None}]]
  BY DiskTypes DEF DiskInv
<1>1. /\ i \in busy /\ busy' = busy \ {i}
      /\ used' = [used EXCEPT ![usedId] = i]
      /\ usedId' = (usedId + 1) % NUM /\ usedId' \in D!Desc /\ isr' = TRUE
  BY <1>t, Wrap DEF D!dev_complete
<1>2. Unanswered(i) /\ i \in Heads /\ desc[desc[i].next].addr = info[i] /\ desc[i].next # i
  BY <1>1 DEF DiskInv, FlightInv, Unanswered, HeadInv, Heads
<1>3. served' = served \cup {info[i]} /\ info[i] \in Buf
  BY <1>2, <1>t DEF D!dev_complete, Heads
<1>4. desc[i].next \in D!Desc /\ desc[i].next \notin Heads
  <2>1. desc[i].next \in D!chain(i) /\ desc[i].next \in D!Desc
    BY <1>2, ChainIs DEF DiskInv
  <2>2. ASSUME desc[i].next \in Heads PROVE FALSE
    <3>1. desc[i].next \in D!chain(desc[i].next)
      BY <2>2, ChainIs DEF DiskInv
    <3>2. QED
      BY <3>1, <2>1, <2>2, <1>2, Conserved DEF DiskInv
  <2>3. QED
    BY <2>1, <2>2
<1>5. (usedId + 1) % NUM # usedIdx
  <2> DEFINE n == desc[i].next
  <2>0. n \in D!Desc /\ i # n
    BY <1>2, <1>4
  <2>1. \A k \in D!Desc : Between(k, usedIdx, usedId) => used[k] # i /\ used[k] # n
    BY <1>1, <1>4, <1>t DEF DiskInv, FlightInv, InUsed, Unanswered, Heads
  <2>2. \A k, l \in D!Desc :
          Between(k, usedIdx, usedId) /\ Between(l, usedIdx, usedId) /\ used[k] = used[l] => k = l
    BY DEF DiskInv, FlightInv, InUsed
  <2> HIDE DEF n
  <2>3. QED
    BY <2>0, <2>1, <2>2, <1>t, NotFull
<1>6. /\ ~InUsed(usedId)
      /\ \A k \in D!Desc : InUsed(k)' <=> InUsed(k) \/ k = usedId
  BY <1>0, <1>1, <1>5, <1>t, RingPush DEF InUsed
<1>7. used'[usedId] = i /\ \A k \in D!Desc : InUsed(k) => used'[k] = used[k]
  BY <1>1, <1>6, <1>t
<1>8. D!TypeOK'
  <2>1. used' \in [D!Desc -> D!Desc] /\ busy' \subseteq D!Desc /\ served' \subseteq Buf
    BY <1>1, <1>3, <1>t
  <2>2. {avail', used'} \subseteq [D!Desc -> D!Desc]
    BY <1>0, <1>t, <2>1
  <2>3. {availIdx', usedId', seen'} \subseteq 0..(D!WIDTH - 1)
    BY <1>0, <1>1, <1>t DEF DiskInv, D!TypeOK, D!Desc
  <2>4. {isr', disk_panicked'} \subseteq BOOLEAN
    BY <1>0, <1>1 DEF DiskInv, D!TypeOK
  <2>5. QED
    BY <1>0, <2>1, <2>2, <2>3, <2>4 DEF DiskInv, D!TypeOK
<1>9. HeadInv'
  BY <1>0 DEF DiskInv, HeadInv, D!Waits
<1>10. FlightInv'
  <2>1. \A j \in D!Desc : Unanswered(j)' <=> Unanswered(j)
    BY <1>0 DEF Unanswered
  <2>2. \A k \in D!Desc : InAvail(k)' <=> InAvail(k)
    BY <1>0 DEF InAvail
  <2>3. \A k \in D!Desc : InAvail(k)' => Unanswered(avail[k])' /\ avail'[k] \notin busy'
    BY <1>0, <1>1, <2>2 DEF DiskInv, FlightInv, Unanswered
  <2>4. \A j \in busy' : Unanswered(j)'
    BY <1>1, <1>t, <2>1 DEF DiskInv, FlightInv
  <2>5. \A k \in D!Desc : InUsed(k)' =>
          Unanswered(used[k])' /\ used'[k] \notin busy' /\ info'[used'[k]] \in served'
    <3> SUFFICES ASSUME NEW k \in D!Desc, InUsed(k)'
                 PROVE Unanswered(used[k])' /\ used'[k] \notin busy' /\ info'[used'[k]] \in served'
      OBVIOUS
    <3>1. CASE k = usedId
      BY <3>1, <1>0, <1>1, <1>2, <1>3, <1>7 DEF Unanswered
    <3>2. CASE InUsed(k)
      <4>1. Unanswered(used[k]) /\ used[k] \notin busy /\ info[used[k]] \in served
        BY <3>2 DEF DiskInv, FlightInv
      <4>2. QED
        BY <4>1, <3>2, <1>0, <1>1, <1>3, <1>7 DEF Unanswered
    <3>3. QED
      BY <3>1, <3>2, <1>6
  <2>6. \A k, l \in D!Desc : InAvail(k)' /\ InUsed(l)' => avail'[k] # used'[l]
    BY <1>0, <1>1, <1>6, <1>7, <2>2 DEF DiskInv, FlightInv
  <2>7. \A k, l \in D!Desc : InAvail(k)' /\ InAvail(l)' /\ avail'[k] = avail'[l] => k = l
    BY <1>0, <2>2 DEF DiskInv, FlightInv
  <2>8. \A k, l \in D!Desc : InUsed(k)' /\ InUsed(l)' /\ used'[k] = used'[l] => k = l
    BY <1>1, <1>6, <1>7 DEF DiskInv, FlightInv
  <2>9. QED
    BY <2>3, <2>4, <2>5, <2>6, <2>7, <2>8 DEF FlightInv
<1>11. WaitInv'
  BY <1>0, <1>3 DEF DiskInv, WaitInv, D!Waits
<1>12. D!NoPanic' /\ D!DescConserved'
  BY <1>0, QuietStep DEF DiskInv, D!NoPanic
<1>13. QED
  BY <1>8, <1>9, <1>10, <1>11, <1>12 DEF DiskInv

\* The handler answers the oldest entry of the used ring and wakes its
\* requester, or is done.
LEMMA LoopStep ==
  ASSUME D!VirtioConstants, DiskInv, D!intr_loop
  PROVE  DiskInv'
<1>0. UNCHANGED <<free, desc, info, avail, availIdx, usedId, seen, busy, isr, served>>
  BY DEF D!intr_loop
<1>t. /\ used \in [D!Desc -> D!Desc] /\ busy \subseteq D!Desc /\ avail \in [D!Desc -> D!Desc]
      /\ usedIdx \in D!Desc /\ usedId \in D!Desc /\ None \notin Buf
      /\ info \in [D!Desc -> Buf \cup {None}] /\ bdisk \in [Buf -> BOOLEAN]
      /\ pc \in [Buf -> {"idle", "sleep_desc", "want_desc", "sleep_buf", "woken_buf"}]
  BY DiskTypes DEF DiskInv
<1>i. usedIdx % NUM = usedIdx /\ usedId % NUM = usedId
  BY <1>t, Wrap
<1>1. CASE usedIdx = usedId
  <2>0. UNCHANGED <<bdisk, pc, used, usedIdx, disk_panicked>> /\ handler' = "ack"
    BY <1>1 DEF D!intr_loop
  <2>1. D!TypeOK'
    BY <1>0, <2>0 DEF DiskInv, D!TypeOK
  <2>2. HeadInv' /\ WaitInv'
    BY <1>0, <2>0 DEF DiskInv, HeadInv, WaitInv, D!Waits
  <2>3. FlightInv'
    BY <1>0, <2>0 DEF DiskInv, FlightInv, InAvail, InUsed, Unanswered
  <2>4. D!NoPanic' /\ D!DescConserved'
    BY <1>0, <2>0, QuietStep DEF DiskInv, D!NoPanic
  <2>5. QED
    BY <2>1, <2>2, <2>3, <2>4 DEF DiskInv
<1>2. CASE usedIdx # usedId
  <2> DEFINE h == used[usedIdx]
             b == info[h]
  <2>0. /\ disk_panicked' = (b = None)
        /\ bdisk' = [x \in Buf |-> bdisk[x] /\ x # b]
        /\ pc' = [x \in Buf |-> IF x = b /\ pc[x] = "sleep_buf" THEN "woken_buf" ELSE pc[x]]
        /\ used' = [used EXCEPT ![usedIdx] = 0]
        /\ usedIdx' = (usedIdx + 1) % NUM
        /\ handler' = IF b = None THEN "idle" ELSE handler
    BY <1>i, <1>2 DEF D!intr_loop, D!oldest, D!next_used
  <2>1. /\ InUsed(usedIdx)
        /\ \A k \in D!Desc : InUsed(k)' <=> InUsed(k) /\ k # usedIdx
    BY <1>0, <1>2, <1>t, <2>0, RingPop DEF InUsed
  <2>2. /\ h \in D!Desc /\ b \in Buf /\ bdisk[b] /\ b \in served /\ h \notin busy
        /\ info[h] = b /\ b # None
    BY <1>t, <2>1 DEF DiskInv, FlightInv, Unanswered
  <2>3. \A k \in D!Desc : k # usedIdx => used'[k] = used[k]
    BY <1>t, <2>0
  <2>4. /\ \A k \in D!Desc : InUsed(k) /\ k # usedIdx => used[k] # h
        /\ \A k \in D!Desc : InAvail(k) => avail[k] # h
    BY <1>t, <2>1 DEF DiskInv, FlightInv
  <2> HIDE DEF h, b
  <2>5. /\ bdisk' \in [Buf -> BOOLEAN]
        /\ \A x \in Buf : bdisk'[x] <=> bdisk[x] /\ x # b
    BY <1>t, <2>0
  <2>6. /\ pc' \in [Buf -> {"idle", "sleep_desc", "want_desc", "sleep_buf", "woken_buf"}]
        /\ \A x \in Buf : x # b => pc'[x] = pc[x]
        /\ pc'[b] = IF pc[b] = "sleep_buf" THEN "woken_buf" ELSE pc[b]
    BY <1>t, <2>0, <2>2
  <2>7. D!TypeOK'
    <3>1. usedIdx' \in D!Desc
      BY <1>t, <2>0, Wrap
    <3>2. 0 \in D!Desc
      BY DEF D!Desc, D!VirtioConstants
    <3>3. used' \in [D!Desc -> D!Desc]
      BY <1>t, <2>0, <3>2
    <3>4. {avail', used'} \subseteq [D!Desc -> D!Desc] /\ {isr', disk_panicked'} \subseteq BOOLEAN
      BY <1>0, <1>t, <2>0, <3>3 DEF DiskInv, D!TypeOK
    <3>5. handler' \in {"idle", "loop", "ack"}
      BY <2>0 DEF DiskInv, D!TypeOK
    <3>6. QED
      BY <1>0, <2>5, <2>6, <3>1, <3>4, <3>5 DEF DiskInv, D!TypeOK
  <2>8. \A x \in Buf : D!Waits(x)' <=> D!Waits(x)
    BY <2>6 DEF D!Waits
  <2>9. HeadInv'
    BY <1>0, <2>8 DEF DiskInv, HeadInv
  <2>10. \A i \in D!Desc : Unanswered(i) /\ i # h => Unanswered(i)'
    BY <1>0, <1>t, <2>2, <2>5 DEF DiskInv, HeadInv, Unanswered
  <2>11. FlightInv'
    <3>1. \A k \in D!Desc : InAvail(k)' <=> InAvail(k)
      BY <1>0 DEF InAvail
    <3>2. \A k \in D!Desc : InAvail(k)' => Unanswered(avail[k])' /\ avail'[k] \notin busy'
      <4> SUFFICES ASSUME NEW k \in D!Desc, InAvail(k)
                   PROVE  Unanswered(avail[k])' /\ avail[k] \notin busy
        BY <1>0, <3>1
      <4>1. Unanswered(avail[k]) /\ avail[k] \notin busy /\ avail[k] # h /\ avail[k] \in D!Desc
        BY <1>t, <2>4 DEF DiskInv, FlightInv
      <4>2. QED
        BY <4>1, <2>10, <1>0 DEF Unanswered
    <3>3. \A i \in busy' : Unanswered(i)'
      BY <1>0, <1>t, <2>2, <2>10 DEF DiskInv, FlightInv
    <3>4. \A k \in D!Desc : InUsed(k)' =>
            Unanswered(used[k])' /\ used'[k] \notin busy' /\ info'[used'[k]] \in served'
      <4> SUFFICES ASSUME NEW k \in D!Desc, InUsed(k), k # usedIdx
                   PROVE  Unanswered(used[k])' /\ used'[k] \notin busy' /\ info'[used'[k]] \in served'
        BY <2>1
      <4>1. /\ Unanswered(used[k]) /\ used[k] \notin busy /\ info[used[k]] \in served
            /\ used[k] # h /\ used[k] \in D!Desc /\ used'[k] = used[k]
        BY <1>t, <2>3, <2>4 DEF DiskInv, FlightInv
      <4>2. QED
        BY <4>1, <2>10, <1>0 DEF Unanswered
    <3>5. \A k, l \in D!Desc : InAvail(k)' /\ InUsed(l)' => avail'[k] # used'[l]
      BY <1>0, <2>1, <2>3, <3>1 DEF DiskInv, FlightInv
    <3>6. \A k, l \in D!Desc : InAvail(k)' /\ InAvail(l)' /\ avail'[k] = avail'[l] => k = l
      BY <1>0, <3>1 DEF DiskInv, FlightInv
    <3>7. \A k, l \in D!Desc : InUsed(k)' /\ InUsed(l)' /\ used'[k] = used'[l] => k = l
      BY <2>1, <2>3 DEF DiskInv, FlightInv
    <3>8. QED
      BY <3>2, <3>3, <3>4, <3>5, <3>6, <3>7 DEF FlightInv
  <2>12. WaitInv'
    BY <1>0, <2>2, <2>5, <2>6, <2>8 DEF DiskInv, WaitInv
  <2>13. D!NoPanic' /\ D!DescConserved'
    BY <1>0, <2>0, <2>2, QuietStep DEF DiskInv, D!NoPanic
  <2>14. QED
    BY <2>7, <2>9, <2>11, <2>12, <2>13 DEF DiskInv
<1>3. QED
  BY <1>1, <1>2

\* Every step of the driver, the device and kill() keeps the invariant.
THEOREM DiskInvariance == D!VirtioConstants => (D!SafeSpec => []DiskInv)
<1> SUFFICES ASSUME D!VirtioConstants PROVE D!SafeSpec => []DiskInv
  OBVIOUS
<1>1. DiskInv /\ [D!Next]_D!vars => DiskInv'
  <2> SUFFICES ASSUME DiskInv, [D!Next]_D!vars PROVE DiskInv'
    OBVIOUS
  <2>1. CASE UNCHANGED D!vars
    <3>1. D!TypeOK' /\ D!NoPanic' /\ HeadInv' /\ WaitInv'
      BY <2>1 DEF D!vars, DiskInv, D!TypeOK, D!NoPanic, HeadInv, WaitInv, D!Waits
    <3>2. FlightInv'
      BY <2>1 DEF D!vars, DiskInv, FlightInv, InAvail, InUsed, Unanswered
    <3>3. D!DescConserved'
      BY <2>1, QuietStep DEF D!vars
    <3>4. QED
      BY <3>1, <3>2, <3>3 DEF DiskInv
  <2>2. ASSUME NEW b \in Buf, D!virtio_disk_rw(b) PROVE DiskInv'
    BY <2>2, DiskSleepStep, PublishStep DEF D!virtio_disk_rw
  <2>3. ASSUME NEW b \in Buf, D!rw_woken(b) PROVE DiskInv'
    BY <2>3, WokenStep, SpuriousStep
  <2>4. ASSUME NEW b \in Buf, D!kill(b) PROVE DiskInv'
    BY <2>4, DiskKillStep
  <2>5. CASE D!dev_take
    BY <2>5, TakeStep
  <2>6. ASSUME NEW i \in D!Desc, D!dev_complete(i) PROVE DiskInv'
    BY <2>6, CompleteStep
  <2>7. CASE D!intr \/ D!intr_ack
    BY <2>7, DiskIntrStep
  <2>8. CASE D!intr_loop
    BY <2>8, LoopStep
  <2>9. QED
    BY <2>1, <2>2, <2>3, <2>4, <2>5, <2>6, <2>7, <2>8 DEF D!Next
<1>2. QED
  BY <1>1, DiskInitInv, PTL DEF D!SafeSpec

-----------------------------------------------------------------------------
(* The three side by side *)

\* Console, Trap and Virtio share nothing: what Intr does to the state of each
\* is a behaviour of it.
THEOREM RunsAll == IntrSpec => Spec /\ K!Spec /\ D!SafeSpec
<1>1. IntrInit => Init /\ K!Init /\ D!Init
  BY DEF IntrInit
<1>2. [IntrNext]_allvars => [Next]_vars /\ [K!Next]_K!vars /\ [D!Next]_D!vars
  BY DEF IntrNext, allvars, trapvars, diskvars, K!vars, D!vars
<1>3. QED
  BY <1>1, <1>2, PTL DEF IntrSpec, Spec, K!Spec, D!SafeSpec

\* trap.c and sys_sleep(), as the run checks them: the vectors, cpuid() and the
\* end of every sleep are right at all times.
THEOREM TrapAlwaysRight == K!TrapConstants => (IntrSpec => []TrapRight)
<1> SUFFICES ASSUME K!TrapConstants PROVE IntrSpec => []TrapRight
  OBVIOUS
<1>1. TrapInv => TrapRight
  BY DEF TrapInv, HartOK, InTime, Sleepy, TrapRight, K!CpuidRight, K!NoOversleep
<1>2. QED
  BY <1>1, RunsAll, TrapInvariance, PTL

\* usertrapret() and the end of kerneltrap(), as the run checks them: every trap
\* comes back to the place it left, behind the ecall of a system call, however
\* often the process has been moved in between.
THEOREM AlwaysComesBack == K!TrapConstants => (IntrSpec => ComesBack)
<1> SUFFICES ASSUME K!TrapConstants PROVE IntrSpec => ComesBack
  OBVIOUS
<1>1. TrapInv /\ [IntrNext]_allvars => [\A p \in Proc : K!ComesBackTo(p)]_allvars
  <2> SUFFICES ASSUME TrapInv, [IntrNext]_allvars
               PROVE  \A p \in Proc : K!ComesBackTo(p)
    OBVIOUS
  <2>1. [K!Next]_K!vars
    BY DEF IntrNext, allvars, trapvars, K!vars
  <2>2. QED
    BY <2>1, StepComesBack
<1>2. QED
  BY <1>1, RunsAll, TrapInvariance, PTL DEF IntrSpec, ComesBack

\* In virtio_disk.c every descriptor is free or in the chain of one request,
\* and no process sleeps for descriptors or a transfer that are there, for any
\* number of requests and any size of the rings.
THEOREM DescAlwaysRight == D!VirtioConstants => (IntrSpec => []DescRight)
<1> SUFFICES ASSUME D!VirtioConstants PROVE IntrSpec => []DescRight
  OBVIOUS
<1>1. DiskInv => DescRight
  BY DEF DiskInv, WaitInv, D!NoMissedWakeup, DescRight
<1>2. QED
  BY <1>1, RunsAll, DiskInvariance, PTL

\* virtio_disk_rw() returns after the transfer of its own buffer only, and
\* neither free_desc() nor the handler panics.
THEOREM AlwaysServedRight == D!VirtioConstants => (IntrSpec => []ServedRight)
<1> SUFFICES ASSUME D!VirtioConstants PROVE IntrSpec => []ServedRight
  OBVIOUS
<1>1. DiskInv => ServedRight
  <2> SUFFICES ASSUME DiskInv PROVE D!ServedFirst
    BY DEF DiskInv, ServedRight
  <2>1. \A i \in busy : /\ info[i] # None
                       /\ desc[desc[i].next].addr = info[i]
                       /\ bdisk[info[i]]
    BY DiskTypes DEF DiskInv, FlightInv, Unanswered, HeadInv
  <2>2. QED
    BY <2>1 DEF DiskInv, WaitInv, D!ServedFirst, D!Waits
<1>2. QED
  BY <1>1, RunsAll, DiskInvariance, PTL
=============================================================================
