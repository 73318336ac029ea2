----------------------------- MODULE AtomicDisk -----------------------------
(***************************************************************************)
(* What the logging layer of xv6 promises to the file system above it:     *)
(* system calls write blocks of `mem`, and a crash takes the file system   *)
(* back to `stable`, which is always what `mem` was at a moment when no    *)
(* system call was in the middle of its writes.  So a system call's        *)
(* writes survive a crash all together or not at all.                      *)
(***************************************************************************)
CONSTANTS Proc, Block, Value

VARIABLES mem,     \* what a reader of the block sees
          stable,  \* what the block would hold after a crash and recovery
          active,  \* the processes between begin_op() and end_op()
          up       \* the file system is mounted

vars == <<mem, stable, active, up>>

Init ==
  /\ mem \in [Block -> Value]
  /\ stable = mem
  /\ active = {}
  /\ up = FALSE

Mount ==
  /\ ~up
  /\ up' = TRUE
  /\ UNCHANGED <<mem, stable, active>>

Begin(p) ==
  /\ up
  /\ p \notin active
  /\ active' = active \cup {p}
  /\ UNCHANGED <<mem, stable, up>>

Write(p, b, v) ==
  /\ p \in active
  /\ mem' = [mem EXCEPT ![b] = v]
  /\ UNCHANGED <<stable, active, up>>

End(p) ==
  /\ p \in active
  /\ active' = active \ {p}
  /\ UNCHANGED <<mem, stable, up>>

\* The commit point: everything written so far becomes permanent at once.
Sync ==
  /\ active = {}
  /\ stable' = mem
  /\ UNCHANGED <<mem, active, up>>

Crash ==
  /\ mem' = stable
  /\ active' = {}
  /\ up' = FALSE
  /\ UNCHANGED stable

Next ==
  \/ \E p \in Proc : Begin(p) \/ End(p)
  \/ \E p \in Proc, b \in Block, v \in Value : Write(p, b, v)
  \/ Mount
  \/ Sync
  \/ Crash

Spec == Init /\ [][Next]_vars
=============================================================================
