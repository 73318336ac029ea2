------------------------------- MODULE Shell --------------------------------
(***************************************************************************)
(* The shell (user/sh.c of lab 2): main() reads command lines and waits    *)
(* for the process that runs each; runcmd() builds pipelines, lists,       *)
(* redirections and background commands out of fork, pipe, dup, close and  *)
(* wait.  The programs it starts are external and stand for three kinds:   *)
(* one writes two items, one copies its input until it ends, one quits.    *)
(***************************************************************************)
EXTENDS Unix, ShellParse

CONSTANT Sessions  \* what is typed: sequences of command lines

VARIABLES
  typed,   \* the command lines still to be read
  failed   \* history: a fork() or a pipe() has failed

vars == <<proc, pipe, typed, failed>>

\* loc of a process: its command, the descriptors p[0] and p[1], whether it
\* runs in the background, and (history) the input and the output it is
\* meant to have.  What main() has is not used.
Local(cmd) == [cmd |-> cmd, p |-> <<0, 0>>, bg |-> FALSE, want |-> <<Console, Console>>, n |-> 0]

Init ==
  /\ proc = [p \in Pid |-> IF p = 1 THEN Started(Local(execcmd(<<>>)), "prompt") ELSE Gone]
  /\ pipe = [k \in 1..NPIPE |-> <<>>]
  /\ typed \in Sessions /\ failed = FALSE

Goes(p, P) == proc' = P /\ UNCHANGED <<pipe, typed, failed>>
Exits(p) == Goes(p, exit(proc, p))
At(p, pc) == proc[p].pc = pc
Cmd(p) == proc[p].loc.cmd
Runs(p, type) == At(p, "run") /\ Cmd(p).type = type

\* fork1(): the child goes on at pc with loc, the parent at next; without a
\* place for the child, panic("fork").
fork1(p, pc, loc, next) ==
  /\ IF CanFork THEN proc' = [fork(proc, p, pc, loc) EXCEPT ![p].pc = next] /\ UNCHANGED failed
     ELSE proc' = exit(proc, p) /\ failed' = TRUE
  /\ UNCHANGED <<pipe, typed>>
Under(p, cmd) == [proc[p].loc EXCEPT !.cmd = cmd]

-----------------------------------------------------------------------------
(* main() *)

\* A line is read; "cd" is done by the shell itself.
main_getcmd ==
  LET ts == Head(typed) IN
    /\ At(1, "prompt") /\ typed # <<>>
    /\ typed' = Tail(typed) /\ UNCHANGED pipe
    /\ IF peek(ts, {"cd"}) THEN UNCHANGED <<proc, failed>>
       ELSE IF ~CanFork THEN proc' = exit(proc, 1) /\ failed' = TRUE
       ELSE /\ proc' = LET r == parsecmd(ts) IN
                 [fork(proc, 1, IF r.err = "" THEN "run" ELSE "syntax", Local(r.cmd)) EXCEPT ![1].pc = "wait"]
            /\ UNCHANGED failed

main_wait ==
  /\ At(1, "wait") /\ WaitReturns(1)
  /\ Goes(1, [wait(proc, 1) EXCEPT ![1].pc = "prompt"])

-----------------------------------------------------------------------------
(* runcmd() *)

\* panic() in the parser.
syntax(p) == At(p, "syntax") /\ Exits(p)

\* exec(), which may fail.
run_exec(p) ==
  /\ Runs(p, "EXEC")
  /\ \/ Exits(p)
     \/ Cmd(p).argv # <<>> /\ Goes(p, [proc EXCEPT ![p].pc = "prog"])

\* close(rcmd->fd) and open(): the file takes the lowest free descriptor.
rfd(cmd) == IF cmd.mode = "<" THEN 0 ELSE 1
redirected(t, cmd) == fdalloc(close(t, rfd(cmd)), Disk)
run_redir(p) ==
  /\ Runs(p, "REDIR")
  /\ \/ Exits(p)
     \/ Goes(p, [proc EXCEPT ![p].fd = redirected(@, Cmd(p)), ![p].loc.cmd = Cmd(p).cmd,
                             ![p].loc.want[rfd(Cmd(p)) + 1] = Disk])

run_list(p) == Runs(p, "LIST") /\ fork1(p, "run", Under(p, Cmd(p).left), "list")
list_wait(p) ==
  /\ At(p, "list") /\ WaitReturns(p)
  /\ Goes(p, [wait(proc, p) EXCEPT ![p].pc = "run", ![p].loc.cmd = Cmd(p).right])

run_back(p) == Runs(p, "BACK") /\ fork1(p, "run", [Under(p, Cmd(p).cmd) EXCEPT !.bg = TRUE], "exit")

\* pipe(p)
ends(t) == <<Min(FreeFds(t)), Min(FreeFds(t) \ {Min(FreeFds(t))})>>
run_pipe(p) ==
  /\ Runs(p, "PIPE") /\ UNCHANGED typed
  /\ IF CanPipe(p)
     THEN /\ proc' = [proc EXCEPT ![p].pc = "fork_left", ![p].loc.p = ends(proc[p].fd),
                                  ![p].fd = sys_pipe(@)]
          /\ pipe' = emptied /\ UNCHANGED failed
     ELSE proc' = exit(proc, p) /\ failed' = TRUE /\ UNCHANGED pipe

\* The two children, the right one after the left one.
End(p, i) == proc[p].fd[proc[p].loc.p[i]]
fork_left(p) ==
  /\ At(p, "fork_left")
  /\ fork1(p, "left", [Under(p, Cmd(p).left) EXCEPT !.want[2] = End(p, 2)], "fork_right")
fork_right(p) ==
  /\ At(p, "fork_right")
  /\ fork1(p, "right", [Under(p, Cmd(p).right) EXCEPT !.want[1] = End(p, 1)], "parent")

close_ends(t, p) == close(close(t, p[1]), p[2])
\* close(i); dup(p[i]); close(p[0]); close(p[1])
dup_end(t, p, i) == close_ends(dup(close(t, i), p[i + 1]), p)
left(p) == At(p, "left") /\ Goes(p, [proc EXCEPT ![p].pc = "run", ![p].fd = dup_end(@, proc[p].loc.p, 1)])
right(p) == At(p, "right") /\ Goes(p, [proc EXCEPT ![p].pc = "run", ![p].fd = dup_end(@, proc[p].loc.p, 0)])

\* mutant: the parent keeps the writing end
parent_fd_keep(t, p) == close(t, p[1])
parent_fd(t, p) == close_ends(t, p)
parent(p) ==
  At(p, "parent") /\ Goes(p, [proc EXCEPT ![p].pc = "wait1", ![p].fd = parent_fd(@, proc[p].loc.p)])

\* mutant: the parent waits for one child only
wait1_only(p) ==
  At(p, "wait1") /\ WaitReturns(p) /\ Goes(p, [wait(proc, p) EXCEPT ![p].pc = "exit"])
wait1(p) ==
  At(p, "wait1") /\ WaitReturns(p) /\ Goes(p, [wait(proc, p) EXCEPT ![p].pc = "wait2"])
wait2(p) ==
  At(p, "wait2") /\ WaitReturns(p) /\ Goes(p, [wait(proc, p) EXCEPT ![p].pc = "exit"])
exit0(p) == At(p, "exit") /\ Exits(p)

-----------------------------------------------------------------------------
(* The programs *)

Kind(p) == Cmd(p).argv[1]
Writes(p) == write(p, 1, 1) /\ UNCHANGED <<typed, failed>>

prog_write(p) ==
  /\ At(p, "prog") /\ Kind(p) \in {"src", "cat"}
  /\ proc[p].loc.n > 0 \/ (Kind(p) = "src" /\ proc[p].loc.n > -2)
  /\ CanWrite(p, 1) /\ Writes(p)
  /\ proc' = [proc EXCEPT ![p].loc.n = @ - 1]
prog_read(p) ==
  /\ At(p, "prog") /\ Kind(p) = "cat" /\ proc[p].loc.n = 0 /\ CanRead(p, 0)
  /\ read(p, 0) /\ proc' = [proc EXCEPT ![p].loc.n = 1] /\ UNCHANGED <<typed, failed>>
prog_ends(p) ==
  /\ At(p, "prog")
  /\ CASE Kind(p) = "src" -> proc[p].loc.n = -2 \/ Broken(p, 1)
       [] Kind(p) = "cat" -> IF proc[p].loc.n = 1 THEN Broken(p, 1) ELSE Eof(p, 0)
       [] OTHER -> TRUE
  /\ Exits(p)

-----------------------------------------------------------------------------

Step(p) ==
  \/ syntax(p) \/ run_exec(p) \/ run_redir(p) \/ run_list(p) \/ list_wait(p) \/ run_back(p)
  \/ run_pipe(p) \/ fork_left(p) \/ fork_right(p) \/ left(p) \/ right(p) \/ parent(p)
  \/ wait1(p) \/ wait2(p) \/ exit0(p)
  \/ prog_write(p) \/ prog_read(p) \/ prog_ends(p)

Next == main_getcmd \/ main_wait \/ \E p \in Pid : Step(p)

Spec == Init /\ [][Next]_vars

-----------------------------------------------------------------------------
(* Properties *)

\* A program starts with the input and the output that its place in the
\* command line gives it and with no other descriptor: no end of a pipe
\* leaks, however pipelines, lists and redirections are nested.
StdFds ==
  \A p \in Pid : At(p, "prog") =>
    proc[p].fd = [i \in Fd |-> IF i < 2 THEN proc[p].loc.want[i + 1] ELSE IF i = 2 THEN Console ELSE Closed]

\* When the shell prompts, what the lines before have started has ended,
\* except what runs in the background, and unless a fork() or a pipe() failed.
Foreground ==
  At(1, "prompt") /\ ~failed => \A p \in Pid \ {1} : ~At(p, "unused") => proc[p].loc.bg

\* Nothing hangs: when no process can go on, the shell is at its prompt and
\* everything it has started is gone, also when processes or pipes have run
\* out half way through a pipeline.  (A session is finite, so the shell gets
\* back to its prompt after every line.)
NoHang ==
  ~ENABLED (main_wait \/ \E p \in Pid : Step(p)) =>
    ~At(1, "wait") /\ \A p \in Pid \ {1} : At(p, "unused")
=============================================================================
