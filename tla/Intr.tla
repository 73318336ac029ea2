-------------------------------- MODULE Intr --------------------------------
(***************************************************************************)
(* The kernel's work under interrupts: the machines of Console, of Trap    *)
(* and of Virtio side by side.  They share no state, so a behaviour is one *)
(* of one of them; `which' says of which, and the others stay as they are  *)
(* at the start.                                                           *)
(***************************************************************************)
EXTENDS Console

CONSTANTS NHART, Proc, UINT, MAXUPC, Ticks,  \* of Trap
          Buf, NUM                           \* of Virtio

VARIABLES which,
          hart, proc, ticks, trap_panicked,
          free, desc, info, avail, availIdx, used, usedId, usedIdx, bdisk, pc, seen, busy, isr,
          handler, served, disk_panicked

K == INSTANCE Trap WITH panicked <- trap_panicked
D == INSTANCE Virtio WITH panicked <- disk_panicked

trapvars == <<hart, proc, ticks, trap_panicked>>
diskvars == <<free, desc, info, avail, availIdx, used, usedId, usedIdx, bdisk, pc, seen, busy,
              isr, handler, served, disk_panicked>>
allvars == <<which, vars, trapvars, diskvars>>

IntrInit == which \in {"console", "trap", "disk"} /\ Init /\ K!Init /\ D!Init

IntrNext ==
  \/ which = "console" /\ Next /\ UNCHANGED <<which, trapvars, diskvars>>
  \/ which = "trap" /\ K!Next /\ UNCHANGED <<which, vars, diskvars>>
  \/ which = "disk" /\ D!Next /\ UNCHANGED <<which, vars, trapvars>>

IntrSpec == IntrInit /\ [][IntrNext]_allvars

-----------------------------------------------------------------------------
(* Properties, besides those of Console; Trap and Virtio explain them. *)

\* No trap arrives through the vector of the other mode, kernel code finds the
\* number of its own hart in tp after any migration (trap.c), and nobody sleeps
\* in sys_sleep() after the ticks it asked for have passed.
TrapRight == K!VectorRight /\ K!CpuidRight /\ K!NoOversleep

\* A trap comes back to the place it left, with its own registers.
ComesBack == [][\A p \in Proc : K!ComesBackTo(p)]_allvars

\* Every descriptor of virtio_disk.c is free or in the chain of one request,
\* and nobody sleeps for what is there.
DescRight == D!TypeOK /\ D!DescConserved /\ D!NoMissedWakeup

\* virtio_disk_rw() returns after the transfer of its own buffer only, and the
\* driver never panics.
ServedRight == D!ServedFirst /\ D!NoPanic
=============================================================================
