-------------------------------- MODULE Trap --------------------------------
(***************************************************************************)
(* Traps (kernel/trap.c of lab 2, with sys_sleep() and sys_kill() of       *)
(* sysproc.c): how processes enter the kernel and come back to the place   *)
(* they left, while timer interrupts move them between harts.              *)
(*                                                                         *)
(* Every hart has its own trap registers, which the next trap overwrites.  *)
(* What the hardware, trampoline.S and kernelvec.S do before usertrap()    *)
(* and kerneltrap() is a step of its own.  A place is <<"user", n>> or     *)
(* <<"kernel", pc>>.  A register or a field that is written before it is   *)
(* read again is reset, to keep the states few.                            *)
(***************************************************************************)
EXTENDS Integers, Sequences, FiniteSets

CONSTANTS
  NHART,   \* harts 0..NHART-1
  Proc,
  UINT,    \* ticks is counted modulo UINT
  MAXUPC,  \* bound: user programs are loops of MAXUPC instructions
  Ticks,   \* arguments of sleep()
  None

\* A hart, a tick and an instruction at least; arguments of sleep() are ints.
TrapConstants ==
  /\ NHART \in Nat \ {0} /\ UINT \in Nat \ {0} /\ MAXUPC \in Nat \ {0}
  /\ Ticks \subseteq Int /\ None \notin Proc

Hart == 0..(NHART - 1)
Junk == -1  \* what a user program has put into the register tp
Stale == <<"kernel", "elsewhere">>  \* sepc when it is of no use

VARIABLES
  hart,     \* the process, user mode or not, sie, stvec, sepc and tp of a hart
  proc,     \* the processes
  ticks,
  panicked

vars == <<hart, proc, ticks, panicked>>

\* A new process, which starts in user mode through usertrapret().
allocproc ==
  [pc |-> "ret", state |-> "RUNNABLE", cause |-> "none", killed |-> FALSE,
   epc |-> 0, hartid |-> Junk,            \* trapframe
   frame |-> Stale,                       \* sepc in kerneltrap()
   upc |-> 0, uleft |-> 0, kleft |-> "",  \* history: where it has to come back
   ticks0 |-> 0, n |-> 0]                 \* sys_sleep()

Init ==
  /\ hart = [h \in Hart |-> [p |-> None, user |-> FALSE, sie |-> TRUE, stvec |-> "kernelvec",
                             sepc |-> Stale, tp |-> h]]
  /\ proc = [p \in Proc |-> allocproc]
  /\ ticks = 0 /\ panicked = ""

Cur(h) == proc[hart[h].p]
At(h, pc) == panicked = "" /\ hart[h].p # None /\ ~hart[h].user /\ Cur(h).pc = pc
Set(h, r) == [proc EXCEPT ![hart[h].p] = r]
Idle(h) == [hart EXCEPT ![h].p = None, ![h].sie = TRUE, ![h].sepc = Stale]

-----------------------------------------------------------------------------
(* Entering the kernel *)

next_pc(p) == (proc[p].upc + 1) % MAXUPC
\* From user mode through uservec, which loads tp; the causes "quick" and
\* "sleep" are system calls.
user_trap(h, cause) ==
  LET p == hart[h].p IN
  /\ panicked = "" /\ p # None /\ hart[h].user
  /\ IF hart[h].stvec # "uservec"
     THEN panicked' = "kerneltrap: not from supervisor mode" /\ UNCHANGED <<hart, proc, ticks>>
     ELSE /\ hart' = [hart EXCEPT ![h].user = FALSE, ![h].sie = FALSE,
                                  ![h].sepc = <<"user", proc[p].upc>>, ![h].tp = proc[p].hartid]
          /\ proc' = [proc EXCEPT ![p].pc = "usertrap", ![p].cause = cause, ![p].upc = 0,
                                  ![p].uleft = IF cause \in {"quick", "sleep"} THEN next_pc(p) ELSE proc[p].upc]
          /\ UNCHANGED <<ticks, panicked>>

\* From the kernel through kernelvec.  The process is at a place where
\* interrupts are on.
kernel_trap(h, cause) ==
  LET p == hart[h].p IN
  /\ panicked = "" /\ p # None /\ ~hart[h].user /\ hart[h].sie
  /\ IF hart[h].stvec # "kernelvec"
     THEN panicked' = "usertrap: not from user mode" /\ UNCHANGED <<hart, proc, ticks>>
     ELSE /\ hart' = [hart EXCEPT ![h].sie = FALSE, ![h].sepc = <<"kernel", proc[p].pc>>]
          /\ proc' = [proc EXCEPT ![p].pc = "kerneltrap", ![p].cause = <<cause, proc[p].cause>>,
                                  ![p].frame = hart'[h].sepc, ![p].kleft = proc[p].pc]
          /\ UNCHANGED <<ticks, panicked>>

-----------------------------------------------------------------------------
(* clockintr(), called by the hart that takes itself for number 0 *)

\* tickslock, as far as it matters: sys_sleep() has it between its last look at
\* ticks and sleep(), and clockintr() spins for it.
tickslock_free == \A p \in Proc : proc[p].pc # "to_sleep"

woken(P) == [p \in Proc |-> IF P[p].state = "SLEEPING" THEN [P[p] EXCEPT !.state = "RUNNABLE"] ELSE P[p]]
clockintr(h, P) ==
  IF hart[h].tp = 0 THEN tickslock_free /\ ticks' = (ticks + 1) % UINT /\ proc' = woken(P)
  ELSE UNCHANGED ticks /\ proc' = P

\* devintr() for the causes "timer" and "dev".
devintr(h, cause, P) == IF cause = "timer" THEN clockintr(h, P) ELSE UNCHANGED ticks /\ proc' = P

\* The scheduler of a hart without a process is interrupted, too.
scheduler_intr(h) ==
  /\ panicked = "" /\ hart[h].p = None
  /\ clockintr(h, proc) /\ UNCHANGED <<hart, panicked>>

-----------------------------------------------------------------------------
(* usertrap() *)

exited(h) == /\ proc' = Set(h, [allocproc EXCEPT !.state = "ZOMBIE", !.pc = "exit"])
             /\ hart' = [Idle(h) EXCEPT ![h].stvec = "kernelvec"]

epc_of(h) ==
  IF Cur(h).cause \in {"quick", "sleep"} THEN (hart[h].sepc[2] + 1) % MAXUPC ELSE hart[h].sepc[2]
usertrap_syscall(h) ==
  /\ At(h, "usertrap") /\ Cur(h).cause \in {"quick", "sleep"}
  /\ IF Cur(h).killed THEN exited(h)
     ELSE /\ proc' = Set(h, [Cur(h) EXCEPT !.epc = epc_of(h),
                                           !.pc = IF Cur(h).cause = "quick" THEN "syscall" ELSE "sys_sleep"])
          /\ hart' = [hart EXCEPT ![h].stvec = "kernelvec", ![h].sie = TRUE, ![h].sepc = Stale]
  /\ UNCHANGED <<ticks, panicked>>
usertrap_intr(h) ==
  /\ At(h, "usertrap") /\ Cur(h).cause \in {"timer", "dev"}
  /\ devintr(h, Cur(h).cause, Set(h, [Cur(h) EXCEPT !.epc = epc_of(h), !.pc = "killcheck"]))
  /\ hart' = [hart EXCEPT ![h].stvec = "kernelvec", ![h].sepc = Stale]
  /\ UNCHANGED panicked
usertrap_fault(h) ==
  /\ At(h, "usertrap") /\ Cur(h).cause = "fault"
  /\ proc' = Set(h, [Cur(h) EXCEPT !.epc = epc_of(h), !.pc = "killcheck", !.killed = TRUE])
  /\ hart' = [hart EXCEPT ![h].stvec = "kernelvec", ![h].sepc = Stale]
  /\ UNCHANGED <<ticks, panicked>>

\* if(p->killed) exit(-1), and yield() after a timer interrupt.
killcheck(h) ==
  /\ At(h, "killcheck")
  /\ IF Cur(h).killed THEN exited(h)
     ELSE IF Cur(h).cause = "timer"
     THEN proc' = Set(h, [Cur(h) EXCEPT !.pc = "ret", !.state = "RUNNABLE"]) /\ hart' = Idle(h)
     ELSE proc' = Set(h, [Cur(h) EXCEPT !.pc = "ret"]) /\ UNCHANGED hart
  /\ UNCHANGED <<ticks, panicked>>

-----------------------------------------------------------------------------
(* System calls *)

syscall(h) ==
  /\ At(h, "syscall")
  /\ proc' = Set(h, [Cur(h) EXCEPT !.pc = "killcheck"]) /\ UNCHANGED <<hart, ticks, panicked>>

sys_kill(h) ==
  \E q \in Proc :
    /\ At(h, "syscall") /\ proc[q].state # "ZOMBIE"
    /\ proc' = [proc EXCEPT ![hart[h].p].pc = "killcheck", ![q].killed = TRUE,
                            ![q].state = IF @ = "SLEEPING" THEN "RUNNABLE" ELSE @]
    /\ UNCHANGED <<hart, ticks, panicked>>

\* sys_sleep() reads ticks, ...
sys_sleep(h) ==
  \E n \in Ticks :
    /\ At(h, "sys_sleep")
    /\ proc' = Set(h, [Cur(h) EXCEPT !.pc = "sleep", !.ticks0 = ticks, !.n = n % UINT])
    /\ hart' = [hart EXCEPT ![h].sie = FALSE] /\ UNCHANGED <<ticks, panicked>>

\* ... looks at it and at killed, ...
passed(p) == (ticks - proc[p].ticks0) % UINT
sleep_loop(h) ==
  /\ At(h, "sleep")
  /\ IF passed(hart[h].p) < Cur(h).n /\ ~Cur(h).killed
     THEN proc' = Set(h, [Cur(h) EXCEPT !.pc = "to_sleep"]) /\ UNCHANGED hart
     ELSE /\ proc' = Set(h, [Cur(h) EXCEPT !.pc = "killcheck", !.ticks0 = 0, !.n = 0])
          /\ hart' = [hart EXCEPT ![h].sie = TRUE]
  /\ UNCHANGED <<ticks, panicked>>

\* ... and sleeps, although it may have been killed since: tickslock keeps
\* clockintr() out and not kill().
sleep(h) ==
  /\ At(h, "to_sleep")
  /\ proc' = Set(h, [Cur(h) EXCEPT !.pc = "sleep", !.state = "SLEEPING"])
  /\ hart' = Idle(h) /\ UNCHANGED <<ticks, panicked>>

-----------------------------------------------------------------------------
(* kerneltrap() *)

kerneltrap(h) ==
  LET c == Cur(h).cause
      back == [Cur(h) EXCEPT !.pc = "kernelret", !.cause = c[2]]
  IN /\ At(h, "kerneltrap") /\ UNCHANGED panicked
     /\ IF c[1] = "timer"
        THEN clockintr(h, Set(h, [back EXCEPT !.state = "RUNNABLE"])) /\ hart' = Idle(h)
        ELSE proc' = Set(h, back) /\ UNCHANGED <<hart, ticks>>

\* w_sepc() and w_sstatus(), then sret.
\* mutant: the registers are not restored
restored_not(h) == hart[h].sepc
restored(h) == Cur(h).frame
kernelret(h) ==
  /\ At(h, "kernelret")
  /\ hart' = [hart EXCEPT ![h].sepc = Stale, ![h].sie = TRUE]
  /\ IF restored(h)[1] = "kernel"
     THEN proc' = Set(h, [Cur(h) EXCEPT !.pc = restored(h)[2], !.frame = Stale, !.kleft = ""]) /\ UNCHANGED panicked
     ELSE panicked' = "kernelvec: a user address" /\ UNCHANGED proc
  /\ UNCHANGED ticks

-----------------------------------------------------------------------------
(* usertrapret(), and sret in trampoline.S *)

intr_off(h) == [hart EXCEPT ![h].sie = FALSE]
ret_intr_off(h) ==
  /\ At(h, "ret")
  /\ proc' = Set(h, [Cur(h) EXCEPT !.pc = "ret_stvec"])
  /\ hart' = intr_off(h) /\ UNCHANGED <<ticks, panicked>>
ret_stvec(h) ==
  /\ At(h, "ret_stvec")
  /\ proc' = Set(h, [Cur(h) EXCEPT !.pc = "ret_sret"])
  /\ hart' = [hart EXCEPT ![h].stvec = "uservec"] /\ UNCHANGED <<ticks, panicked>>
\* mutant: the hart that the process entered the kernel on
kernel_hartid_kept(h) == IF Cur(h).hartid = Junk THEN hart[h].tp ELSE Cur(h).hartid
kernel_hartid(h) == hart[h].tp
ret_sret(h) ==
  /\ At(h, "ret_sret")
  /\ proc' = Set(h, [Cur(h) EXCEPT !.pc = "user", !.hartid = kernel_hartid(h), !.upc = Cur(h).epc, !.epc = 0,
                                     !.cause = "none", !.uleft = 0])
  /\ hart' = [hart EXCEPT ![h].user = TRUE, ![h].sie = TRUE, ![h].tp = Junk]
  /\ UNCHANGED <<ticks, panicked>>

-----------------------------------------------------------------------------

\* scheduler(): a process runs on from where it gave up its hart, with
\* interrupts off.
scheduler(h) ==
  \E p \in Proc :
    /\ panicked = "" /\ hart[h].p = None /\ proc[p].state = "RUNNABLE"
    /\ proc' = [proc EXCEPT ![p].state = "RUNNING"]
    /\ hart' = [hart EXCEPT ![h].p = p, ![h].sie = FALSE]
    /\ UNCHANGED <<ticks, panicked>>

Next ==
  \E h \in Hart :
    \/ \E cause \in {"quick", "sleep", "timer", "dev", "fault"} : user_trap(h, cause)
    \/ \E cause \in {"timer", "dev"} : kernel_trap(h, cause)
    \/ usertrap_syscall(h) \/ usertrap_intr(h) \/ usertrap_fault(h) \/ killcheck(h)
    \/ syscall(h) \/ sys_kill(h) \/ sys_sleep(h) \/ sleep_loop(h) \/ sleep(h)
    \/ kerneltrap(h) \/ kernelret(h) \/ ret_intr_off(h) \/ ret_stvec(h) \/ ret_sret(h)
    \/ scheduler(h) \/ scheduler_intr(h)

Spec == Init /\ [][Next]_vars

-----------------------------------------------------------------------------
(* Properties *)

\* No trap arrives through the vector of the other mode, wherever an
\* interrupt comes and on whichever hart the process has gone on.
VectorRight == panicked = ""

\* Kernel code finds its own hart in tp: what usertrapret() saves is right
\* when the process comes back, although the hart may be another every time.
CpuidRight == \A h \in Hart : ~hart[h].user => hart[h].tp = h

\* A trap comes back to the place that was left: behind the ecall of a system
\* call, at the interrupted instruction otherwise, and in the kernel with the
\* registers of its own trap although others have used the hart since.
ComesBackTo(p) ==
  /\ proc[p].pc # "user" /\ proc'[p].pc = "user" => proc'[p].upc = proc[p].uleft
  /\ proc[p].pc = "kernelret" /\ proc'[p].pc # "kernelret" => proc'[p].pc = proc[p].kleft
ComesBack == [][\A p \in Proc : ComesBackTo(p)]_vars

\* Nobody sleeps after the time it asked for, also when ticks wraps around or
\* the clock interrupt comes between the last look at ticks and sleep().
NoOversleep ==
  \A p \in Proc : proc[p].state = "SLEEPING" => passed(p) < proc[p].n
=============================================================================
