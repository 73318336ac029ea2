-------------------------------- MODULE Pipe --------------------------------
(***************************************************************************)
(* A pipe (kernel/pipe.c of lab 2) between processes that share its two    *)
(* ends: pipewrite(), piperead() and pipeclose() under pi->lock, the       *)
(* sleeps in which they give the lock up, kill() at any moment, and the    *)
(* counters as unsigned numbers that wrap around.                          *)
(*                                                                         *)
(* sleep() and wakeup() are used as Sched shows them to work: to sleep and *)
(* to release pi->lock is one step.                                        *)
(***************************************************************************)
EXTENDS Integers, Sequences

CONSTANTS Reader,    \* processes that share the read end
          Writer,    \* processes that share the write end
          Byte,      \* the values of a byte
          PIPESIZE,
          UINT,      \* the number of values of a uint; 2^32 in the code
          SIZES,     \* bound: the values of n in read() and write()
          VICTIMS,   \* the processes that may be killed
          None

ASSUME PipeConstants ==
  /\ Reader \cap Writer = {}
  /\ None \notin Reader \cup Writer
  /\ Byte # {}
  /\ PIPESIZE \in Nat \ {0}
  /\ UINT \in Nat
  /\ UINT > PIPESIZE
  /\ UINT % PIPESIZE = 0
  /\ SIZES \subseteq Nat
  /\ VICTIMS \subseteq Reader \cup Writer

Process == Reader \cup Writer

VARIABLES
  data, nread, nwrite, readopen, writeopen,  \* struct pipe
  freed,    \* kfree() was called for the pipe
  lock,     \* the process that holds pi->lock
  fd,       \* the processes that still have their descriptor
  pc, i, n, \* where a process is, and pipewrite()'s and piperead()'s locals
  asleep,   \* p->state is SLEEPING
  killed    \* p->killed

pipe == <<data, nread, nwrite, readopen, writeopen, freed>>
vars == <<pipe, lock, fd, pc, i, n, asleep, killed>>

PCs == {"user", "pipewrite", "write", "write_sleep", "piperead", "wait_data",
        "read_sleep", "read", "close", "free", "closed"}

TypeOK ==
  /\ data \in [0..(PIPESIZE - 1) -> Byte]
  /\ nread \in 0..(UINT - 1)
  /\ nwrite \in 0..(UINT - 1)
  /\ readopen \in BOOLEAN
  /\ writeopen \in BOOLEAN
  /\ freed \in BOOLEAN
  /\ lock \in Process \cup {None}
  /\ fd \subseteq Process
  /\ pc \in [Process -> PCs]
  /\ i \in [Process -> Nat]
  /\ n \in [Process -> SIZES \cup {0}]
  /\ asleep \in [Process -> BOOLEAN]
  /\ killed \in [Process -> BOOLEAN]

\* pipealloc(); then the processes were forked and closed the end they do not use.
Init ==
  /\ data \in {[k \in 0..(PIPESIZE - 1) |-> b] : b \in Byte}
  /\ nread = 0
  /\ nwrite = 0
  /\ readopen = TRUE
  /\ writeopen = TRUE
  /\ freed = FALSE
  /\ lock = None
  /\ fd = Process
  /\ pc = [p \in Process |-> "user"]
  /\ i = [p \in Process |-> 0]
  /\ n = [p \in Process |-> 0]
  /\ asleep = [p \in Process |-> FALSE]
  /\ killed = [p \in Process |-> FALSE]

----------------------------------------------------------------------------
goto(p, l) == [pc EXCEPT ![p] = l]

\* wakeup(&pi->nread) and wakeup(&pi->nwrite).
wake_nobody == asleep  \* mutant: the wakeup is missing
wake_readers == [p \in Process |-> asleep[p] /\ p \notin Reader]
wake_writers == [p \in Process |-> asleep[p] /\ p \notin Writer]

inc(x) == (x + 1) % UINT

\* The counter after PIPESIZE more bytes is an unsigned sum as well.
FullLate == nwrite = (nread + PIPESIZE + 1) % UINT  \* mutant: one too many
Full == nwrite = (nread + PIPESIZE) % UINT

Empty == nread = nwrite

\* A call returns: pi->lock is released.
return(p) == /\ lock' = None
             /\ pc' = goto(p, "user")
             /\ i' = [i EXCEPT ![p] = 0]
             /\ n' = [n EXCEPT ![p] = 0]

\* A process asks for pi->lock, at the start of a call or after sleep().
Lock(p, at, then) ==
  /\ pc[p] = at
  /\ ~asleep[p]
  /\ lock = None
  /\ lock' = p
  /\ pc' = goto(p, then)

----------------------------------------------------------------------------
(* pipewrite()                                                             *)

write_call(p) ==
  /\ pc[p] = "user"
  /\ p \in Writer \cap fd
  /\ ~killed[p]
  /\ \E m \in SIZES : n' = [n EXCEPT ![p] = m]
  /\ pc' = goto(p, "pipewrite")
  /\ UNCHANGED <<pipe, lock, fd, i, asleep, killed>>

pipewrite(p) ==
  /\ Lock(p, "pipewrite", "write")
  /\ UNCHANGED <<pipe, fd, i, n, asleep, killed>>

write_byte(p) ==
  /\ pc[p] = "write"
  /\ i[p] < n[p]
  /\ ~Full
  /\ \E b \in Byte : data' = [data EXCEPT ![nwrite % PIPESIZE] = b]
  /\ nwrite' = inc(nwrite)
  /\ i' = [i EXCEPT ![p] = @ + 1]
  /\ UNCHANGED <<nread, readopen, writeopen, freed, lock, fd, pc, n, asleep, killed>>

\* All bytes are written, or copyin() fails.
write_return(p) ==
  /\ pc[p] = "write"
  /\ i[p] = n[p] \/ ~Full
  /\ asleep' = wake_readers
  /\ return(p)
  /\ UNCHANGED <<pipe, fd, killed>>

\* A full pipe: give up, or decide to sleep and wake the readers first.
write_full(p) ==
  /\ pc[p] = "write"
  /\ i[p] < n[p]
  /\ Full
  /\ IF ~readopen \/ killed[p]
     THEN return(p) /\ UNCHANGED asleep
     ELSE /\ asleep' = wake_readers
          /\ pc' = goto(p, "write_sleep")
          /\ UNCHANGED <<lock, i, n>>
  /\ UNCHANGED <<pipe, fd, killed>>

\* sleep(&pi->nwrite, &pi->lock), and its end.
write_sleep(p) ==
  /\ pc[p] = "write_sleep"
  /\ lock = p
  /\ lock' = None
  /\ asleep' = [asleep EXCEPT ![p] = TRUE]
  /\ UNCHANGED <<pipe, fd, pc, i, n, killed>>

write_woken(p) ==
  /\ lock # p
  /\ Lock(p, "write_sleep", "write")
  /\ UNCHANGED <<pipe, fd, i, n, asleep, killed>>

----------------------------------------------------------------------------
(* piperead()                                                              *)

read_call(p) ==
  /\ pc[p] = "user"
  /\ p \in Reader \cap fd
  /\ ~killed[p]
  /\ \E m \in SIZES : n' = [n EXCEPT ![p] = m]
  /\ pc' = goto(p, "piperead")
  /\ UNCHANGED <<pipe, lock, fd, i, asleep, killed>>

piperead(p) ==
  /\ Lock(p, "piperead", "wait_data")
  /\ UNCHANGED <<pipe, fd, i, n, asleep, killed>>

MustWaitAlways == Empty  \* mutant: a closed write end is not looked at
MustWait == Empty /\ writeopen

\* The loop around sleep().
read_wait(p) ==
  /\ pc[p] = "wait_data"
  /\ IF MustWait
     THEN IF killed[p] THEN return(p)
                       ELSE pc' = goto(p, "read_sleep") /\ UNCHANGED <<lock, i, n>>
     ELSE pc' = goto(p, "read") /\ UNCHANGED <<lock, i, n>>
  /\ UNCHANGED <<pipe, fd, asleep, killed>>

read_sleep(p) ==
  /\ pc[p] = "read_sleep"
  /\ lock = p
  /\ lock' = None
  /\ asleep' = [asleep EXCEPT ![p] = TRUE]
  /\ UNCHANGED <<pipe, fd, pc, i, n, killed>>

read_woken(p) ==
  /\ lock # p
  /\ Lock(p, "read_sleep", "wait_data")
  /\ UNCHANGED <<pipe, fd, i, n, asleep, killed>>

\* The byte is taken out before copyout() is tried; if that fails the call
\* ends and the byte is gone.
read_byte(p) ==
  /\ pc[p] = "read"
  /\ i[p] < n[p]
  /\ ~Empty
  /\ nread' = inc(nread)
  /\ \/ /\ i' = [i EXCEPT ![p] = @ + 1]
        /\ UNCHANGED <<asleep, lock, pc, n>>
     \/ /\ asleep' = wake_writers
        /\ return(p)
  /\ UNCHANGED <<data, nwrite, readopen, writeopen, freed, fd, killed>>

read_return(p) ==
  /\ pc[p] = "read"
  /\ i[p] = n[p] \/ Empty
  /\ asleep' = wake_writers
  /\ return(p)
  /\ UNCHANGED <<pipe, fd, killed>>

----------------------------------------------------------------------------
(* Closing an end, and kill().                                             *)

\* fileclose(): the last process that has the end closes it.  A killed
\* process comes here from exit().
close(p) ==
  /\ pc[p] = "user"
  /\ p \in fd
  /\ fd' = fd \ {p}
  /\ LET End == IF p \in Writer THEN Writer ELSE Reader IN
     pc' = goto(p, IF fd' \cap End = {} THEN "close" ELSE "closed")
  /\ UNCHANGED <<pipe, lock, i, n, asleep, killed>>

LastEither == ~readopen' \/ ~writeopen'  \* mutant: the first one to close frees
LastEnd == ~readopen' /\ ~writeopen'

pipeclose(p) ==
  /\ pc[p] = "close"
  /\ lock = None
  /\ writeopen' = (writeopen /\ p \notin Writer)
  /\ readopen' = (readopen /\ p \notin Reader)
  /\ asleep' = IF p \in Writer THEN wake_readers ELSE wake_writers
  /\ pc' = goto(p, IF LastEnd THEN "free" ELSE "closed")
  /\ UNCHANGED <<data, nread, nwrite, freed, lock, fd, i, n, killed>>

\* kfree() after the lock has been released.
pipe_free(p) ==
  /\ pc[p] = "free"
  /\ freed' = TRUE
  /\ pc' = goto(p, "closed")
  /\ UNCHANGED <<data, nread, nwrite, readopen, writeopen, lock, fd, i, n, asleep, killed>>

kill(p) ==
  /\ p \in VICTIMS
  /\ ~killed[p]
  /\ pc[p] # "closed"
  /\ killed' = [killed EXCEPT ![p] = TRUE]
  /\ asleep' = [asleep EXCEPT ![p] = FALSE]
  /\ UNCHANGED <<pipe, lock, fd, pc, i, n>>

----------------------------------------------------------------------------
\* What a process does inside the kernel.
KernelStep(p) ==
  \/ pipewrite(p) \/ write_byte(p) \/ write_return(p) \/ write_full(p)
  \/ write_sleep(p) \/ write_woken(p)
  \/ piperead(p) \/ read_wait(p) \/ read_sleep(p) \/ read_woken(p)
  \/ read_byte(p) \/ read_return(p)
  \/ pipeclose(p) \/ pipe_free(p)

Next ==
  \E p \in Process :
    KernelStep(p) \/ write_call(p) \/ read_call(p) \/ close(p) \/ kill(p)

Spec == Init /\ [][Next]_vars

\* A process inside the kernel is run until it sleeps or returns, and a
\* spinning acquire() gets pi->lock if it is released again and again; a
\* killed process exits when it is back in user space (usertrap()).
Fairness ==
  \A p \in Process : SF_vars(KernelStep(p)) /\ WF_vars(killed[p] /\ close(p))

FairSpec == Spec /\ Fairness

----------------------------------------------------------------------------
(* Properties.                                                             *)

Used == (nwrite - nread + UINT) % UINT

contents == [k \in 1..Used |-> data[(nread + k - 1) % PIPESIZE]]

F == INSTANCE Fifo WITH CAPACITY <- PIPESIZE, queue <- contents,
                        readend <- readopen, writeend <- writeopen

\* The ring buffer with its wrapping counters is a queue of at most PIPESIZE
\* bytes, whoever reads and writes at the same time.
IsFifo == F!FifoSpec

\* Nobody sleeps in the pipe with pi->lock free unless he has to: the reader
\* of an empty pipe somebody can still write to, the writer of a full pipe
\* somebody can still read from.  There is one exception: a writer that is
\* killed when the pipe is full returns without the wakeup for the bytes it
\* has written, and a reader may stay asleep beside them.
NoMissedWakeup ==
  lock = None => \A p \in Process : asleep[p] =>
    \/ p \in Reader /\ Empty /\ writeopen
    \/ p \in Writer /\ Full /\ readopen
    \/ p \in Reader /\ \E w \in Writer : killed[w]

\* The page of the pipe is given back only when no process will look at the
\* pipe again, not even to take its lock.
NoUseAfterFree == TypeOK /\ (freed => \A p \in Process : pc[p] = "closed")

\* When the last writer has closed the pipe, every read() comes to its end,
\* and when the last reader has, every write().
ClosedEndNoticed ==
  /\ \A p \in Reader : ~writeopen /\ pc[p] # "user" ~> pc[p] \in {"user", "closed"}
  /\ \A p \in Writer : ~readopen /\ pc[p] # "user" ~> pc[p] \in {"user", "closed"}
=============================================================================
