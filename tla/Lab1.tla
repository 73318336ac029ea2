-------------------------------- MODULE Lab1 --------------------------------
(***************************************************************************)
(* The concurrent programs of lab 1: primes.c, a sieve in which every      *)
(* process filters the numbers of the one before it, and pingpong.c, in    *)
(* which two processes answer each other over two pipes.  Both are run     *)
(* without arguments.  A message of pingpong.c is one item.                *)
(***************************************************************************)
EXTENDS Unix, SequencesExt

CONSTANT MAXNUM  \* primes are looked for among 2..MAXNUM

VARIABLES
  out,    \* what has been printed
  clean,  \* the uninitialized c[4] of pingpong.c is 0, in the child and the parent
  failed  \* history: a pipe() or the fork() of pingpong.c has failed

vars == <<proc, pipe, out, clean, failed>>

At(p, pc) == proc[p].pc = pc
Goes(P) == proc' = P /\ UNCHANGED <<pipe, clean, failed>>
Silent == UNCHANGED out
Loc(p) == proc[p].loc
To(p, pc) == [proc EXCEPT ![p].pc = pc]

-----------------------------------------------------------------------------
(* primes.c.  loc: num and how much of it is sent, temp, and the ends of   *)
(* the pipe in use.                                                        *)

Sieve(num) == [num |-> num, i |-> 1, temp |-> 0, p |-> <<0, 0>>]

PrimesInit ==
  /\ proc = [p \in Pid |-> IF p = 1 THEN Started(Sieve([i \in 1..(MAXNUM - 1) |-> i + 1]), "primes") ELSE Gone]
  /\ pipe = [k \in 1..NPIPE |-> <<>>] /\ out = <<>> /\ clean = <<TRUE, TRUE>> /\ failed = FALSE

\* One number is left.
primes_last(p) ==
  /\ At(p, "primes") /\ Len(Loc(p).num) = 1
  /\ out' = Append(out, Loc(p).num[1]) /\ Goes(To(p, "wait"))

ends(t) == <<Min(FreeFds(t)), Min(FreeFds(t) \ {Min(FreeFds(t))})>>
\* pipe() and printf(); the program goes on only if there are descriptors.
primes_pipe(p) ==
  /\ At(p, "primes") /\ Len(Loc(p).num) # 1 /\ CanPipe(p)
  /\ out' = Append(out, Loc(p).num[1])
  /\ pipe' = emptied /\ UNCHANGED <<clean, failed>>
  /\ proc' = [proc EXCEPT ![p].pc = "fork", ![p].fd = sys_pipe(@), ![p].loc.p = ends(proc[p].fd),
                          ![p].loc.temp = Loc(p).num[1]]

child_fd(t, p) == close(t, p[2])
primes_fork(p) ==
  /\ At(p, "fork") /\ Silent
  /\ Goes(IF CanFork THEN [fork(proc, p, "read", [Loc(p) EXCEPT !.num = <<>>]) EXCEPT
                             ![p].pc = "write", ![Child].fd = child_fd(@, Loc(p).p)]
          ELSE To(p, "write"))

\* The child: a number that temp does not divide is kept.
keeps(buf, temp) == buf % temp # 0
primes_read(p) ==
  LET buf == Item(p, Loc(p).p[1]) IN
  /\ At(p, "read") /\ CanRead(p, Loc(p).p[1]) /\ read(p, Loc(p).p[1]) /\ Silent /\ UNCHANGED <<clean, failed>>
  /\ proc' = IF keeps(buf, Loc(p).temp) THEN [proc EXCEPT ![p].loc.num = Append(@, buf)] ELSE proc
primes_eof(p) ==
  /\ At(p, "read") /\ Eof(p, Loc(p).p[1]) /\ Silent
  /\ Goes([proc EXCEPT ![p].pc = "primes", ![p].loc.i = 1])

\* The parent: num[1..] goes to the child.
unsent(p) == Loc(p).i < Len(Loc(p).num)
primes_write(p) ==
  /\ At(p, "write") /\ unsent(p) /\ Silent /\ UNCHANGED <<clean, failed>>
  /\ IF Broken(p, Loc(p).p[2]) THEN proc' = exit(proc, p) /\ UNCHANGED pipe
     ELSE /\ CanWrite(p, Loc(p).p[2])
          /\ write(p, Loc(p).p[2], Loc(p).num[Loc(p).i + 1])
          /\ proc' = [proc EXCEPT ![p].loc.i = @ + 1]
primes_sent(p) ==
  /\ At(p, "write") /\ ~unsent(p) /\ Silent
  /\ Goes([proc EXCEPT ![p].pc = "wait", ![p].fd = close(@, Loc(p).p[2])])

\* wait() and exit()
primes_wait(p) == At(p, "wait") /\ WaitReturns(p) /\ Silent /\ Goes(exit(wait(proc, p), p))

PrimesStep(p) ==
  \/ primes_last(p) \/ primes_pipe(p) \/ primes_fork(p) \/ primes_read(p) \/ primes_eof(p)
  \/ primes_write(p) \/ primes_sent(p) \/ primes_wait(p)

-----------------------------------------------------------------------------
(* pingpong.c.  loc: p1 and p2.  A message of four bytes is read into      *)
(* c[5]; strcmp() also looks at c[4].                                      *)

Ping == 0
Pong == 1

PingPongInit ==
  /\ proc = [p \in Pid |-> IF p = 1 THEN Started(<<<<0, 0>>, <<0, 0>>>>, "main") ELSE Gone]
  /\ pipe = [k \in 1..NPIPE |-> <<>>] /\ out = <<>> /\ clean \in BOOLEAN \X BOOLEAN /\ failed = FALSE

\* What p1 and p2 hold before pipe() writes to them: the number of a
\* descriptor of the console, of one that may be of the other pipe, or of none.
Junk == {0, 3, NOFILE - 1}

\* pipe(), whose result nobody looks at.
ping_pipe(i, next) ==
  /\ Silent /\ UNCHANGED clean
  /\ \/ /\ CanPipe(1)
        /\ proc' = [proc EXCEPT ![1].pc = next, ![1].fd = sys_pipe(@), ![1].loc[i] = ends(proc[1].fd)]
        /\ pipe' = emptied /\ UNCHANGED failed
     \/ /\ \E junk \in Junk \X Junk : proc' = [proc EXCEPT ![1].pc = next, ![1].loc[i] = junk]
        /\ failed' = TRUE /\ UNCHANGED pipe
ping_main ==
  \/ At(1, "main") /\ ping_pipe(1, "pipe2")
  \/ At(1, "pipe2") /\ ping_pipe(2, "ping_fork")

\* When fork() fails the process goes on as the parent of no child.
ping_fork ==
  /\ At(1, "ping_fork") /\ Silent /\ UNCHANGED <<pipe, clean>>
  /\ \/ CanFork /\ proc' = [fork(proc, 1, "ping", Loc(1)) EXCEPT ![1].pc = "send"] /\ UNCHANGED failed
     \/ proc' = To(1, "send") /\ failed' = TRUE

\* write() of a process, which then goes on at next.
sends(p, fd, msg, next) ==
  /\ UNCHANGED <<out, clean, failed>>
  /\ \/ Broken(p, fd) /\ proc' = exit(proc, p) /\ UNCHANGED pipe
     \/ CanWrite(p, fd) /\ write(p, fd, msg) /\ proc' = To(p, next)

\* read() and strcmp() of a process; a match is printed.  At the end of the
\* input c holds what it held before, which is taken for no message.
receives(p, fd, msg, i, next) ==
  /\ UNCHANGED <<clean, failed>>
  /\ \/ /\ proc[p].fd[fd][1] \in {"closed", "w"} /\ proc' = exit(proc, p) /\ UNCHANGED <<pipe, out>>
     \/ /\ proc[p].fd[fd][1] \in {"r", "console"} /\ Eof(p, fd)
        /\ proc' = To(p, "close") /\ UNCHANGED <<pipe, out>>
     \/ /\ CanRead(p, fd) /\ read(p, fd)
        /\ LET match == Item(p, fd) = msg /\ clean[i] IN
           /\ out' = IF match THEN Append(out, msg) ELSE out
           /\ proc' = To(p, IF match THEN next ELSE "close")

ping_send == At(1, "send") /\ sends(1, Loc(1)[1][2], Ping, "pong")
child_read == At(2, "ping") /\ receives(2, Loc(2)[1][1], Ping, 1, "answer")
child_write == At(2, "answer") /\ sends(2, Loc(2)[2][2], Pong, "close")
parent_read == At(1, "pong") /\ receives(1, Loc(1)[2][1], Pong, 2, "close")
ping_exit(p) == At(p, "close") /\ Silent /\ Goes(exit(proc, p))

PingPongStep ==
  ping_main \/ ping_fork \/ ping_send \/ child_read \/ child_write \/ parent_read \/ \E p \in Pid : ping_exit(p)

-----------------------------------------------------------------------------

Init == PrimesInit \/ PingPongInit

Next == (\E p \in Pid : PrimesStep(p)) \/ PingPongStep

Spec == Init /\ [][Next]_vars

-----------------------------------------------------------------------------
(* Properties *)

Ended == \A p \in Pid : At(p, "unused")
IsPrime(n) == \A d \in 2..(n - 1) : n % d # 0
Primes == SelectSeq([i \in 1..(MAXNUM - 1) |-> i + 1], IsPrime)
InPrimes == out # <<>> /\ out[1] # Ping

\* The sieve prints the primes in order, although every process prints on its
\* own, and each of them once.
PrimesInOrder == InPrimes => IsPrefix(out, Primes) /\ (Ended => out = Primes)

\* Both programs end: when no process can go on, all are gone.  Every process
\* of the sieve gets the end of its input and its child, and no process of
\* pingpong.c waits for ever, with two exceptions.  If the child's c[4] does not
\* happen to be 0 it does not answer, and the parent reads from a pipe whose
\* writing end it has kept open.  So it does if fork() fails, which leaves it
\* without a child; with a pipe() that fails, too, either process may wait.
ProgramsEnd == ~ENABLED Next /\ clean[1] /\ ~failed => Ended
=============================================================================
