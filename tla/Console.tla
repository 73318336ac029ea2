------------------------------ MODULE Console ------------------------------
(***************************************************************************)
(* The console and the UART of xv6 (kernel/console.c and kernel/uart.c of  *)
(* lab 2): line editing in the input ring, readers that sleep for a line,  *)
(* the transmit ring, and the three ways a character reaches the transmit  *)
(* register: consolewrite() through the ring, the interrupt handler that   *)
(* drains it, and uartputc_sync() for echo and printf(), which takes no    *)
(* lock.  A wait for a register and the write to it are two steps, because *)
(* another CPU may write it in between.                                    *)
(*                                                                         *)
(* Characters of the same effect are one model value.  A backspace is      *)
(* echoed as one character.                                                *)
(***************************************************************************)
EXTENDS Integers, FiniteSets, Sequences

CONSTANTS
  Reader,     \* processes that read
  INPUT_BUF,  \* size of the input ring
  TX_SIZE,    \* UART_TX_BUF_SIZE
  None

\* What the constants have to be.
ConsoleConstants ==
  /\ INPUT_BUF \in Nat \ {0} /\ TX_SIZE \in Nat /\ TX_SIZE > 1
  /\ Reader \cap {"intr", "writer", None} = {} /\ None \notin {"intr", "writer"}

WIDTH == 2 * INPUT_BUF  \* cons.r, w and e wrap at a multiple of INPUT_BUF

Stored == {"x", "NL", "EOF"}         \* C('D') is EOF
Typed == Stored \cup {"CR", "NUL", "ERASE", "KILL", "PS"}

VARIABLES
  buf, r, w, e,          \* cons
  cons_lock,             \* holder of cons.lock
  at, got,               \* consoleread(): where each reader is, and n < target
  killed,                \* p->killed
  irq,                   \* the UART's interrupt for an empty register is pending
  intr, c,               \* where uartintr() is, and its character
  tx_w, tx_r, tx_lock,   \* the transmit ring
  moving,                \* uartstart() has a character that is in no ring or register
  thr,                   \* the transmit holding register is full
  wat,                   \* where consolewrite() is
  panicked

conv == <<buf, r, w, e>>
readv == <<at, got, killed>>
txv == <<tx_w, tx_r>>
vars == <<conv, cons_lock, readv, irq, intr, c, txv, tx_lock, moving, thr, wat, panicked>>

TypeOK ==
  /\ buf \in [0..(INPUT_BUF - 1) -> Stored] /\ {r, w, e} \subseteq 0..(WIDTH - 1)
  /\ cons_lock \in Reader \cup {"intr", "writer", None}
  /\ at \in [Reader -> {"idle", "want", "loop", "asleep"}]
  /\ got \in [Reader -> BOOLEAN] /\ killed \in [Reader -> BOOLEAN]
  /\ c \in Typed \cup {None}
  /\ intr \in {"idle", "want", "edit", "echo", "put", "store", "tx", "start"}
  /\ {tx_w, tx_r} \subseteq 0..(TX_SIZE - 1)
  /\ tx_lock \in {"intr", "writer", None}
  /\ wat \in {"idle", "putc", "start"}
  /\ {thr, moving, irq, panicked} \subseteq BOOLEAN

Init ==
  /\ buf = [i \in 0..(INPUT_BUF - 1) |-> "x"] /\ r = 0 /\ w = 0 /\ e = 0
  /\ cons_lock = None /\ tx_lock = None
  /\ at = [p \in Reader |-> "idle"]
  /\ killed = [p \in Reader |-> FALSE] /\ got = killed
  /\ irq = FALSE /\ intr = "idle" /\ c = None
  /\ tx_w = 0 /\ tx_r = 0
  /\ moving = FALSE /\ thr = FALSE
  /\ wat = "idle"
  /\ panicked = FALSE

-----------------------------------------------------------------------------
(* consoleread() *)

\* Index and difference arithmetic on 32-bit unsigned numbers.
plus(i, k) == (i + k + WIDTH) % WIDTH
slot(i) == i % INPUT_BUF

\* A call starts, or a woken reader goes on, when it gets the lock.
read_lock(p) ==
  /\ at[p] \in {"idle", "want"} /\ cons_lock = None
  /\ cons_lock' = p
  /\ at' = [at EXCEPT ![p] = "loop"]
  /\ UNCHANGED <<conv, got, killed>>

\* The reader returns; one that is killed exits and another takes its place.
returns(p) ==
  /\ cons_lock' = None
  /\ at' = [at EXCEPT ![p] = "idle"]
  /\ got' = [got EXCEPT ![p] = FALSE]
  /\ killed' = [killed EXCEPT ![p] = FALSE]

empty(p) == r = w

\* Nothing to read: a killed reader gives up, another one goes to sleep, not
\* noticing a kill() that comes between the look at p->killed and sleep().
read_wait(p) ==
  /\ at[p] = "loop" /\ empty(p)
  /\ \/ killed[p] /\ returns(p)
     \/ /\ ~killed[p]
        /\ cons_lock' = None
        /\ at' = [at EXCEPT ![p] = "asleep"]
        /\ killed' \in {killed, [killed EXCEPT ![p] = TRUE]}
        /\ UNCHANGED got
  /\ UNCHANGED conv

push_back(p) == got[p]

\* A slot outside r..e is never read; the model resets it.
take_char == r' = plus(r, 1) /\ buf' = [buf EXCEPT ![slot(r)] = "x"]

\* One character is taken; the reader goes on unless it has got all it wants.
read_char(p) ==
  /\ at[p] = "loop" /\ ~empty(p)
  /\ LET ch == buf[slot(r)] IN
     \/ /\ ch = "EOF"
        /\ IF push_back(p) THEN UNCHANGED <<buf, r>> ELSE take_char
        /\ returns(p)
     \/ /\ ch # "EOF"
        /\ take_char
        /\ \/ returns(p)   \* a newline, n characters, or either_copyout() failed
           \/ /\ ch # "NL"
              /\ got' = [got EXCEPT ![p] = TRUE]
              /\ UNCHANGED <<cons_lock, at, killed>>
  /\ UNCHANGED <<w, e>>

kill(p) ==
  /\ at[p] # "idle"
  /\ killed' = [killed EXCEPT ![p] = TRUE]
  /\ at' = [at EXCEPT ![p] = IF @ = "asleep" THEN "want" ELSE @]
  /\ UNCHANGED <<conv, cons_lock, got>>

consoleread(p) ==
  /\ ~panicked
  /\ read_lock(p) \/ read_wait(p) \/ read_char(p) \/ kill(p)
  /\ UNCHANGED <<irq, intr, c, txv, tx_lock, moving, thr, wat, panicked>>

-----------------------------------------------------------------------------
(* The transmit register *)

\* The UART sends the character and interrupts (external).
transmit ==
  /\ thr /\ thr' = FALSE /\ irq' = TRUE
  /\ UNCHANGED <<conv, cons_lock, readv, intr, c, txv, tx_lock, moving, wat, panicked>>

tx_next(i) == (i + 1) % TX_SIZE

\* uartstart(), called by x with uart_tx_lock held: it returns when the ring
\* is empty or the register full, else moves one character.
start_done == tx_w = tx_r \/ thr

start_take(x) ==
  /\ tx_lock = x /\ ~moving /\ ~start_done
  /\ moving' = TRUE
  /\ tx_r' = tx_next(tx_r)
  /\ UNCHANGED <<tx_w, thr>>

start_put(x) ==
  /\ tx_lock = x /\ moving
  /\ thr' = TRUE /\ moving' = FALSE
  /\ UNCHANGED txv

uartstart(x) == (start_take(x) \/ start_put(x)) /\ UNCHANGED tx_lock
start_return(x) ==
  /\ tx_lock = x /\ ~moving /\ start_done
  /\ tx_lock' = None
  /\ UNCHANGED <<txv, moving, thr>>

-----------------------------------------------------------------------------
(* consolewrite() *)

\* mutant: consolewrite() does not keep cons.lock
write_nolock ==
  /\ wat = "idle" /\ cons_lock = None /\ wat' = "putc"
  /\ UNCHANGED <<cons_lock, txv, tx_lock, moving, thr, panicked>>
write_lock ==
  /\ wat = "idle" /\ cons_lock = None
  /\ cons_lock' = "writer" /\ wat' = "putc"
  /\ UNCHANGED <<txv, tx_lock, moving, thr, panicked>>

tx_full == tx_next(tx_w) = tx_r

\* uartputc(): when the ring is full it sleeps, but with cons.lock held
\* sched() panics.
uartputc ==
  /\ wat = "putc" /\ tx_lock = None
  /\ \/ /\ tx_full
        /\ panicked' = TRUE
        /\ UNCHANGED <<tx_w, tx_lock, wat>>
     \/ /\ ~tx_full
        /\ tx_w' = tx_next(tx_w)
        /\ tx_lock' = "writer" /\ wat' = "start"
        /\ UNCHANGED panicked
  /\ UNCHANGED <<cons_lock, tx_r, moving, thr>>

\* After a character comes the next one, or the return: all are written, or
\* either_copyin() fails.
write_start ==
  /\ wat = "start"
  /\ \/ uartstart("writer") /\ UNCHANGED <<wat, cons_lock>>
     \/ /\ start_return("writer")
        /\ \/ wat' = "putc" /\ UNCHANGED cons_lock
           \/ wat' = "idle" /\ cons_lock' = None
  /\ UNCHANGED panicked

consolewrite ==
  /\ ~panicked
  /\ write_lock \/ uartputc \/ write_start
  /\ UNCHANGED <<conv, readv, irq, intr, c>>

-----------------------------------------------------------------------------
(* uartintr() and consoleintr() *)

\* uartgetc() has a character to handle, or none is left.
uartgetc == intr' \in {"want", "tx"}

\* The interrupt of an empty register, or one for a key.
intr_begin ==
  /\ intr = "idle" /\ uartgetc /\ irq' = FALSE
  /\ UNCHANGED <<conv, cons_lock, at, c, txv, tx_lock, moving, thr>>

\* Any key may have been typed (external).
intr_lock ==
  /\ intr = "want" /\ cons_lock = None
  /\ c' \in Typed
  /\ cons_lock' = "intr" /\ intr' = "edit"
  /\ UNCHANGED <<conv, at, irq, txv, tx_lock, moving, thr>>

intr_unlock == cons_lock' = None /\ c' = None /\ uartgetc

erasable == e # w

\* mutant: the ring is one character too full
room_over == (e + WIDTH - r) % WIDTH <= INPUT_BUF
room == (e + WIDTH - r) % WIDTH < INPUT_BUF

\* The switch over the character.
consoleintr ==
  /\ intr = "edit"
  /\ \/ c = "PS" /\ intr' = "echo" /\ UNCHANGED <<buf, e, c, cons_lock>>  \* procdump()
     \/ /\ c \in {"ERASE", "KILL"} /\ erasable /\ (c = "KILL" => buf[slot(plus(e, -1))] # "NL")
        /\ e' = plus(e, -1) /\ buf' = [buf EXCEPT ![slot(e')] = "x"]
        /\ intr' = "echo" /\ UNCHANGED <<c, cons_lock>>
     \/ /\ c \in {"ERASE", "KILL"} /\ ~(erasable /\ (c = "KILL" => buf[slot(plus(e, -1))] # "NL"))
        /\ intr_unlock /\ UNCHANGED <<buf, e>>
     \/ /\ c \in Stored \cup {"CR"} /\ room
        /\ c' = IF c = "CR" THEN "NL" ELSE c
        /\ intr' = "echo" /\ UNCHANGED <<buf, e, cons_lock>>
     \/ /\ c = "NUL" \/ (c \in Stored \cup {"CR"} /\ ~room)
        /\ intr_unlock /\ UNCHANGED <<buf, e>>
  /\ UNCHANGED <<r, w, at, irq, txv, tx_lock, moving, thr>>

\* uartputc_sync() spins until the register is empty, then writes it; the
\* rest of the case follows.
intr_echo ==
  /\ intr = "echo" /\ ~thr
  /\ intr' = "put"
  /\ UNCHANGED <<conv, cons_lock, at, irq, c, txv, tx_lock, moving, thr>>

intr_put ==
  /\ intr = "put"
  /\ thr' = TRUE
  /\ \/ c = "KILL" /\ intr' = "edit" /\ UNCHANGED <<c, cons_lock>>
     \/ c \in {"ERASE", "PS"} /\ intr_unlock
     \/ c \in Stored /\ intr' = "store" /\ UNCHANGED <<c, cons_lock>>
  /\ UNCHANGED <<conv, at, irq, txv, tx_lock, moving>>

\* mutant: the readers are not woken
wake_none(f) == f

\* wakeup(&cons.r)
wake(f) == [p \in Reader |-> IF f[p] = "asleep" THEN "want" ELSE f[p]]

line_ends == c \in {"NL", "EOF"} \/ plus(e, 1) = plus(r, INPUT_BUF)

intr_store ==
  /\ intr = "store"
  /\ buf' = [buf EXCEPT ![slot(e)] = c]
  /\ e' = plus(e, 1)
  /\ IF line_ends THEN w' = e' /\ at' = wake(at) ELSE UNCHANGED <<w, at>>
  /\ intr_unlock
  /\ UNCHANGED <<r, irq, txv, tx_lock, moving, thr>>

intr_start ==
  \/ /\ intr = "tx" /\ tx_lock = None
     /\ tx_lock' = "intr" /\ intr' = "start"
     /\ UNCHANGED <<conv, cons_lock, at, irq, c, txv, moving, thr>>
  \/ /\ intr = "start"
     /\ \/ uartstart("intr") /\ UNCHANGED intr
        \/ start_return("intr") /\ intr' = "idle"
     /\ UNCHANGED <<conv, cons_lock, at, irq, c>>

uartintr ==
  /\ ~panicked
  /\ \/ intr_begin \/ intr_lock \/ consoleintr \/ intr_echo \/ intr_put \/ intr_store
     \/ intr_start
  /\ UNCHANGED <<got, killed, wat, panicked>>

\* The kernel's printf() on another CPU: consputc(), uartputc_sync().  What
\* it writes late into a register that has been filled meanwhile overwrites
\* a character, which the state does not show.
printf ==
  /\ ~panicked /\ ~thr /\ thr' = TRUE
  /\ UNCHANGED <<conv, cons_lock, readv, irq, intr, c, txv, tx_lock, moving, wat, panicked>>

Next ==
  \/ \E p \in Reader : consoleread(p)
  \/ consolewrite \/ printf
  \/ uartintr \/ transmit

Spec == Init /\ [][Next]_vars

-----------------------------------------------------------------------------
(* Properties *)

\* The ring of console.c is the line discipline of Tty: nothing typed is lost,
\* reordered or read before its line is ended, at every position of the ring
\* and when it is full.
content(i, j) ==
  [k \in 1..((j + WIDTH - i) % WIDTH) |-> buf[slot(i + k - 1)]]
T == INSTANCE Tty WITH
  Char <- Stored, Ender <- {"NL", "EOF"}, SIZE <- INPUT_BUF,
  line <- content(r, w), edit <- content(w, e)
LineDiscipline == T!Spec

\* A reader sleeps only while there is no line to read.
NoMissedWakeup ==
  cons_lock = None => \A p \in Reader : at[p] = "asleep" => r = w

\* No character is overwritten in the transmit register by the driver itself:
\* between uartstart()'s look at the register and its write, in consolewrite()
\* or in the interrupt handler, there is no echo.  Only printf() on another
\* CPU, which takes no lock of the console, can come between.
OneSender == moving => intr # "put"

\* A character never stays in the transmit ring of an idle UART: an interrupt
\* that will start it is pending or being handled.
TransmitStarts ==
  (tx_w # tx_r /\ tx_lock = None /\ ~thr /\ ~panicked) => irq \/ intr # "idle"

\* A reader of the console is not left asleep beside a line.
ReadersWake == TypeOK /\ NoMissedWakeup

\* The UART driver does not overwrite its own character in the transmit
\* register, and leaves none in the transmit ring of an idle UART.
TransmitRight == OneSender /\ TransmitStarts
=============================================================================
