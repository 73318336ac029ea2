------------------------------- MODULE MCLive -------------------------------
(***************************************************************************)
(* Instances of Virtio, Log and Sched for TLC that ask whether those who   *)
(* wait go on: a behaviour is one of the disk driver, one of the log above *)
(* it or one of the scheduler; `which' says of which.  (MCLog and MCSched  *)
(* check the safety of the other two, on larger instances.)  Log and Sched *)
(* share the variables s1, s2, ...; the variables of Virtio stay as they   *)
(* are at the start while another machine runs.                            *)
(***************************************************************************)
EXTENDS Virtio

CONSTANTS b1, b2, b3, p1, p2, v1, c1, NotCached, Invalid

VARIABLES which, s1, s2, s3, s4, s5, s6, s7, s8, s9, s10, s11, s12, s13, s14, s15, s16, s17

svars == <<s1, s2, s3, s4, s5, s6, s7, s8, s9, s10, s11, s12, s13, s14, s15, s16, s17>>
allvars == <<which, vars, svars>>

ASSUME VirtioConstants

\* The requests, and the processes of the log, in some order.
Requests == <<b1, b2, b3>>
Callers == <<p1, p2>>

\* The log has room for one system call at a time.
L == INSTANCE Log WITH
  Proc <- {p1, p2}, Block <- {b1, b2}, Value <- {v1},
  MAXOPBLOCKS <- 2, OPBLOCKS <- 1, LOGSIZE <- 3, nlog <- 3, RefMod <- 8, Nobody <- None,
  disk <- s1, dlog <- s2, dhead <- s3, lh <- s4, outstanding <- s5, committing <- s6,
  bufdata <- s7, refcnt <- s8, holder <- s9, pc <- s10, arg <- s11, wrote <- s12, tail <- s13,
  boot <- s14, panicked <- s15, leaked <- s16, stolen <- s17

\* Three processes on one CPU.
S == INSTANCE Sched WITH
  CPU <- {c1}, NPROC <- 3, KILLS <- FALSE,
  state <- s1, chan <- s2, holder <- s3, locked <- s4, owner <- s5, running <- s6, noff <- s7,
  intena <- s8, intr <- s9, spinning <- s10, slot <- s11, switched <- s12, pc <- s13, i <- s14,
  saved <- s15, ret <- s16, panicked <- s17

Driver(A) == which = "driver" /\ A /\ UNCHANGED <<which, svars>>
Logging(A) == which = "log" /\ A /\ UNCHANGED <<which, vars>>
Scheduling(A) == which = "sched" /\ A /\ UNCHANGED <<which, vars>>

\* The variables of Log and Sched are not used.
Off ==
  /\ s1 = None /\ s2 = None /\ s3 = None /\ s4 = None /\ s5 = None /\ s6 = None /\ s7 = None
  /\ s8 = None /\ s9 = None /\ s10 = None /\ s11 = None /\ s12 = None /\ s13 = None
  /\ s14 = None /\ s15 = None /\ s16 = None /\ s17 = None

LiveInit ==
  /\ Init
  /\ \/ which = "driver" /\ Off
     \/ which = "log" /\ L!Init
     \/ which = "sched" /\ S!Init

LiveNext == Driver(Next) \/ Logging(L!Next) \/ Scheduling(S!Next)

\* The fairness of Virtio, Log and Sched.  Only one of the machines runs, so
\* fairness of the disjunction of a step of each is fairness of each step.
modify(p) == L!modify(p, v1)
Cpu == S!CpuStep(c1) \/ \E p \in 1..3 : S!ThreadStep(c1, p)
Timer == \E p \in 1..3 : S!timer(c1, p)
LiveFairness ==
  /\ WF_allvars(Driver(dev_take) \/ Logging(L!Recover))
  /\ \A i \in Desc : WF_allvars(Driver(dev_complete(i)))
  /\ WF_allvars(Driver(intr_loop) \/ Logging(L!Step(p1)))
  /\ WF_allvars(Driver(intr_ack) \/ Logging(L!Step(p2)))
  /\ SF_allvars(Driver(intr) \/ Logging(modify(p1)) \/ Scheduling(S!Progress(1)))
  /\ SF_allvars(Driver(rw_woken(b1)) \/ Logging(modify(p2)) \/ Scheduling(S!Progress(2)))
  /\ SF_allvars(Driver(rw_woken(b2)) \/ Logging(L!end_op(p1)) \/ Scheduling(S!Progress(3)))
  /\ SF_allvars(Driver(rw_woken(b3)) \/ Logging(L!end_op(p2)) \/ Scheduling(Cpu))
  /\ SF_allvars(Scheduling(Timer))

LiveSpec == LiveInit /\ [][LiveNext]_allvars /\ LiveFairness

-----------------------------------------------------------------------------
(* Properties, besides those of Virtio *)

Sleeps(k) ==
  \/ which = "driver" /\ Waits(Requests[k])
  \/ which = "log" /\ k \in DOMAIN Callers /\ L!Sleeps(Callers[k])
  \/ which = "sched" /\ s1[k] = "SLEEPING"

\* Whoever sleeps goes on: for a request that the driver has published, in
\* begin_op(), or for a sleep lock.  These are RequestFinishes of Virtio,
\* SleepersWake of Log and SleeperWakes of Sched.
WaitersGoOn ==
  []<>(which = "driver" => ~swallowed) => \A k \in 1..3 : Sleeps(k) ~> ~Sleeps(k)

\* The scheduler runs every process that can run: RunnableRuns of Sched.
RunnableRuns ==
  \A k \in 1..3 :
    which = "sched" /\ s1[k] = "RUNNABLE" ~> which = "sched" /\ s1[k] = "RUNNING"
=============================================================================
