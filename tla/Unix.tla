-------------------------------- MODULE Unix --------------------------------
(***************************************************************************)
(* The system calls that user programs build on: fork, exit, wait, pipe,   *)
(* dup, close, read and write (kernel/sysfile.c, proc.c and pipe.c of lab  *)
(* 2), each one a single step.  Pipe and Proc model how the kernel does    *)
(* them; here only what a program can observe is kept.                     *)
(***************************************************************************)
EXTENDS Integers, Sequences, FiniteSets, FiniteSetsExt

CONSTANTS
  Pid,       \* places of the process table, numbers from 1; 0 is init
  NPIPE,     \* pipes
  PIPESIZE,  \* items a pipe holds
  NOFILE     \* descriptors of a process

VARIABLES
  proc,  \* what every process does: pc, its fd table, its parent, its locals
  pipe   \* what the pipes hold

Fd == 0..(NOFILE - 1)
Closed == <<"closed", 0>>
Console == <<"console", 0>>
Disk == <<"disk", 0>>       \* a file of the file system
Rd(k) == <<"r", k>>
Wr(k) == <<"w", k>>

Gone == [pc |-> "unused", fd |-> [i \in Fd |-> Closed], parent |-> 0, loc |-> <<>>]
Started(loc, pc) ==
  [pc |-> pc, fd |-> [i \in Fd |-> IF i < 3 THEN Console ELSE Closed], parent |-> 0, loc |-> loc]

-----------------------------------------------------------------------------
(* Descriptors: t is a descriptor table *)

FreeFds(t) == {i \in Fd : t[i] = Closed}
fdalloc(t, f) == IF FreeFds(t) = {} THEN t ELSE [t EXCEPT ![Min(FreeFds(t))] = f]
close(t, i) == [t EXCEPT ![i] = Closed]
dup(t, i) == fdalloc(t, t[i])

Open(f) == \E p \in Pid, i \in Fd : proc[p].fd[i] = f

\* sys_pipe(): a pipe that nobody has open, if there are two descriptors.
FreePipes == {k \in 1..NPIPE : ~Open(Rd(k)) /\ ~Open(Wr(k))}
CanPipe(p) == FreePipes # {} /\ Cardinality(FreeFds(proc[p].fd)) >= 2
NewPipe == Min(FreePipes)
sys_pipe(t) == fdalloc(fdalloc(t, Rd(NewPipe)), Wr(NewPipe))
emptied == [pipe EXCEPT ![NewPipe] = <<>>]

-----------------------------------------------------------------------------
(* Processes: P is the process table *)

Unused == {c \in Pid : proc[c].pc = "unused"}
CanFork == Unused # {}
Child == Min(Unused)
\* The child gets a copy of p's descriptors, and goes on at pc with loc.
fork(P, p, pc, loc) == [P EXCEPT ![Child] = [P[p] EXCEPT !.pc = pc, !.loc = loc, !.parent = p]]

\* The process closes its descriptors and gives its children to init, which
\* waits for them for ever.
exit(P, p) ==
  [q \in Pid |->
     IF q = p THEN IF P[p].parent = 0 THEN Gone ELSE [P[p] EXCEPT !.pc = "zombie", !.fd = Gone.fd]
     ELSE IF P[q].parent # p THEN P[q]
     ELSE IF P[q].pc = "zombie" THEN Gone ELSE [P[q] EXCEPT !.parent = 0]]

Kids(p) == {q \in Pid : proc[q].pc # "unused" /\ proc[q].parent = p}
Zombies(p) == {q \in Kids(p) : proc[q].pc = "zombie"}
\* wait() returns: a child has ended, or there is none.
WaitReturns(p) == Zombies(p) # {} \/ Kids(p) = {}
wait(P, p) == IF Zombies(p) = {} THEN P ELSE [P EXCEPT ![Min(Zombies(p))] = Gone]

-----------------------------------------------------------------------------
(* read() and write() of one item *)

\* The other end is closed: a read returns 0, a write fails.
Eof(p, i) == LET f == proc[p].fd[i] IN f[1] = "r" => pipe[f[2]] = <<>> /\ ~Open(Wr(f[2]))
CanRead(p, i) == LET f == proc[p].fd[i] IN f[1] = "r" /\ pipe[f[2]] # <<>>
Item(p, i) == Head(pipe[proc[p].fd[i][2]])
read(p, i) == pipe' = [pipe EXCEPT ![proc[p].fd[i][2]] = Tail(@)]

Broken(p, i) == LET f == proc[p].fd[i] IN
  f[1] \in {"closed", "r"} \/ (f[1] = "w" /\ ~Open(Rd(f[2])))
CanWrite(p, i) == LET f == proc[p].fd[i] IN
  f[1] \in {"console", "disk"} \/ (f[1] = "w" /\ Open(Rd(f[2])) /\ Len(pipe[f[2]]) < PIPESIZE)
write(p, i, x) ==
  pipe' = IF proc[p].fd[i][1] = "w" THEN [pipe EXCEPT ![proc[p].fd[i][2]] = Append(@, x)] ELSE pipe
=============================================================================
