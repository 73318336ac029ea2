------------------------------- MODULE Virtio -------------------------------
(***************************************************************************)
(* The disk driver of xv6 (kernel/virtio_disk.c of lab 2): descriptors,    *)
(* the available and the used ring, the interrupt handler, and processes   *)
(* that sleep for descriptors or for their buffer.                         *)
(*                                                                         *)
(* A buffer is locked by the process that calls virtio_disk_rw() for it,   *)
(* so a request is named by its buffer.  A section under vdisk_lock is one *)
(* step, except the interrupt handler: the device does not take the lock   *)
(* and works on while the handler looks at the used ring.  The device is   *)
(* modelled from what the driver relies on: it takes requests in order,    *)
(* completes them in any order and never reports an error.  Ring slots     *)
(* that have been consumed, and the flags and next of free descriptors,    *)
(* are never read again; the model resets them to keep the states few.     *)
(***************************************************************************)
EXTENDS Integers, FiniteSets, Sequences, FiniteSetsExt

CONSTANTS Buf, NUM, None

\* What the constants have to be.
VirtioConstants == NUM \in Nat /\ NUM >= 3 /\ None \notin Buf

Desc == 0..(NUM - 1)
WIDTH == NUM  \* avail[1] and used->id wrap at 2^16; only their values modulo NUM matter

VARIABLES
  free,      \* disk.free, as the set of free descriptors
  desc,      \* the descriptors: whether VRING_DESC_F_NEXT is set, next and addr
  info,      \* disk.info[].b
  avail, availIdx,  \* the ring of chains for the device, and avail[1]
  used, usedId,     \* the ring of finished chains, and used->id
  usedIdx,   \* disk.used_idx
  bdisk,     \* b->disk
  pc,        \* where the process that wants the buffer is
  seen,      \* external: how far the device has read avail
  busy,      \* external: the chains the device works on
  isr,       \* the interrupt status register
  handler,   \* "idle", or where virtio_disk_intr() is; it holds vdisk_lock
  served,    \* history: the buffers whose transfer the device has finished
  panicked

vars == <<free, desc, info, avail, availIdx, used, usedId, usedIdx, bdisk, pc, seen, busy, isr,
          handler, served, panicked>>

TypeOK ==
  /\ free \subseteq Desc /\ busy \subseteq Desc
  /\ desc \in [Desc -> [chain : BOOLEAN, next : Desc, addr : Buf \cup {None}]]
  /\ info \in [Desc -> Buf \cup {None}]
  /\ {avail, used} \subseteq [Desc -> Desc]
  /\ {availIdx, usedId, seen} \subseteq 0..(WIDTH - 1) /\ usedIdx \in Desc
  /\ bdisk \in [Buf -> BOOLEAN]
  /\ pc \in [Buf -> {"idle", "sleep_desc", "want_desc", "sleep_buf", "woken_buf"}]
  /\ handler \in {"idle", "loop", "ack"}
  /\ {isr, panicked} \subseteq BOOLEAN /\ served \subseteq Buf

blank == [chain |-> FALSE, next |-> 0, addr |-> None]

Init ==
  /\ free = Desc /\ busy = {} /\ served = {}
  /\ desc = [i \in Desc |-> blank]
  /\ info = [i \in Desc |-> None]
  /\ avail = [i \in Desc |-> 0] /\ used = [i \in Desc |-> 0]
  /\ availIdx = 0 /\ usedId = 0 /\ usedIdx = 0 /\ seen = 0
  /\ bdisk = [b \in Buf |-> FALSE]
  /\ pc = [b \in Buf |-> "idle"]
  /\ isr = FALSE /\ handler = "idle" /\ panicked = FALSE

-----------------------------------------------------------------------------
(* virtio_disk_rw() *)

unlocked == handler = "idle" /\ ~panicked

\* wakeup(&disk.free[0])
wake_desc(f) == [b \in Buf |-> IF f[b] = "sleep_desc" THEN "want_desc" ELSE f[b]]

\* The three lowest free descriptors, in order.
lowest3 ==
  LET a == Min(free)
      b == Min(free \ {a})
  IN <<a, b, Min(free \ {a, b})>>

\* alloc3_desc() failed: what it had taken it gives back, with a wakeup.
rw_sleep(b) ==
  /\ Cardinality(free) < 3
  /\ pc' = [IF free # {} THEN wake_desc(pc) ELSE pc EXCEPT ![b] = "sleep_desc"]
  /\ UNCHANGED <<free, desc, info, avail, availIdx, bdisk, served>>

\* The request is published; the process sleeps until b->disk is 0.
rw_publish(b) ==
  /\ Cardinality(free) >= 3
  /\ LET i == lowest3 IN
     /\ free' = free \ {i[1], i[2], i[3]}
     /\ desc' = [desc EXCEPT ![i[1]] = [chain |-> TRUE, next |-> i[2], addr |-> None],
                             ![i[2]] = [chain |-> TRUE, next |-> i[3], addr |-> b],
                             ![i[3]] = [chain |-> FALSE, next |-> 0, addr |-> None]]
     /\ info' = [info EXCEPT ![i[1]] = b]
     /\ avail' = [avail EXCEPT ![availIdx % NUM] = i[1]]
  /\ availIdx' = (availIdx + 1) % WIDTH
  /\ bdisk' = [bdisk EXCEPT ![b] = TRUE]
  /\ served' = served \ {b}
  /\ pc' = [pc EXCEPT ![b] = "sleep_buf"]

virtio_disk_rw(b) ==
  /\ unlocked /\ pc[b] \in {"idle", "want_desc"}
  /\ rw_sleep(b) \/ rw_publish(b)
  /\ UNCHANGED <<used, usedId, usedIdx, seen, busy, isr, handler, panicked>>

\* free_chain(), with free_desc()'s wakeup.
chain(i) == IF desc[i].chain
            THEN {i, desc[i].next} \cup (IF desc[desc[i].next].chain THEN {desc[desc[i].next].next} ELSE {})
            ELSE {i}

\* mutant: the status descriptor stays allocated
chain_short(i) == IF desc[i].chain THEN {i, desc[i].next} ELSE {i}
free_chain(i) == chain(i)

\* mutant: a process that is woken does not look at b->disk again
finished_unchecked(b) == TRUE
finished(b) == ~bdisk[b]

rw_woken(b) ==
  /\ unlocked /\ pc[b] = "woken_buf"
  /\ IF finished(b)
     THEN LET i == CHOOSE i \in Desc : info[i] = b IN
          /\ panicked' = (free_chain(i) \cap free # {})
          /\ info' = [info EXCEPT ![i] = None]
          /\ free' = free \cup free_chain(i)
          /\ desc' = [d \in Desc |-> IF d \in free_chain(i) THEN blank ELSE desc[d]]
          /\ pc' = [wake_desc(pc) EXCEPT ![b] = "idle"]
     ELSE pc' = [pc EXCEPT ![b] = "sleep_buf"] /\ UNCHANGED <<free, desc, info, panicked>>
  /\ UNCHANGED <<avail, availIdx, used, usedId, usedIdx, bdisk, seen, busy, isr, handler,
                 served>>

-----------------------------------------------------------------------------
(* kill() *)

\* kill() makes a sleeping process runnable, whatever it waits for.
kill(b) ==
  /\ unlocked /\ pc[b] \in {"sleep_desc", "sleep_buf"}
  /\ pc' = [pc EXCEPT ![b] = IF @ = "sleep_desc" THEN "want_desc" ELSE "woken_buf"]
  /\ UNCHANGED <<free, desc, info, avail, availIdx, used, usedId, usedIdx, bdisk, seen, busy, isr,
                 handler, served, panicked>>

-----------------------------------------------------------------------------
(* The device (external) *)

dev_take ==
  /\ seen # availIdx
  /\ busy' = busy \cup {avail[seen % NUM]}
  /\ avail' = [avail EXCEPT ![seen % NUM] = 0]
  /\ seen' = (seen + 1) % WIDTH
  /\ UNCHANGED <<free, desc, info, availIdx, used, usedId, usedIdx, bdisk, pc, isr, handler,
                 served, panicked>>

dev_complete(i) ==
  /\ i \in busy
  /\ busy' = busy \ {i}
  /\ served' = served \cup ({desc[desc[i].next].addr} \ {None})
  /\ used' = [used EXCEPT ![usedId % NUM] = i]
  /\ usedId' = (usedId + 1) % WIDTH
  /\ isr' = TRUE
  /\ UNCHANGED <<free, desc, info, avail, availIdx, usedIdx, bdisk, pc, seen, handler, panicked>>

-----------------------------------------------------------------------------
(* virtio_disk_intr() *)

intr ==
  /\ unlocked /\ isr /\ handler' = "loop"
  /\ UNCHANGED <<free, desc, info, avail, availIdx, used, usedId, usedIdx, bdisk, pc, seen, busy,
                 isr, served, panicked>>

next_used == (usedIdx + 1) % NUM

oldest == used[usedIdx]

intr_loop ==
  /\ handler = "loop"
  /\ IF usedIdx % NUM # usedId % NUM
     THEN LET b == info[oldest] IN
          /\ panicked' = (b = None)
          /\ bdisk' = [x \in Buf |-> bdisk[x] /\ x # b]
          /\ pc' = [x \in Buf |-> IF x = b /\ pc[x] = "sleep_buf" THEN "woken_buf" ELSE pc[x]]
          /\ used' = [used EXCEPT ![usedIdx] = 0]
          /\ usedIdx' = next_used
          /\ handler' = IF b = None THEN "idle" ELSE handler
     ELSE handler' = "ack" /\ UNCHANGED <<bdisk, pc, used, usedIdx, panicked>>
  /\ UNCHANGED <<free, desc, info, avail, availIdx, usedId, seen, busy, isr, served>>

\* The acknowledgement clears the interrupt of a request that the device has
\* finished since the handler looked at the ring for the last time.
intr_ack ==
  /\ handler = "ack"
  /\ isr' = FALSE
  /\ handler' = "idle"
  /\ UNCHANGED <<free, desc, info, avail, availIdx, used, usedId, usedIdx, bdisk, pc, seen, busy,
                 served, panicked>>

Next ==
  \/ \E b \in Buf : virtio_disk_rw(b) \/ rw_woken(b) \/ kill(b)
  \/ dev_take \/ \E i \in Desc : dev_complete(i)
  \/ intr \/ intr_loop \/ intr_ack

\* The device takes every request and finishes each one some time, interrupts
\* are taken, and a process that keeps trying gets the spin lock.
Fairness ==
  /\ WF_vars(dev_take) /\ \A i \in Desc : WF_vars(dev_complete(i))
  /\ SF_vars(intr) /\ WF_vars(intr_loop) /\ WF_vars(intr_ack)
  /\ \A b \in Buf : SF_vars(rw_woken(b))

SafeSpec == Init /\ [][Next]_vars
Spec == SafeSpec /\ Fairness

-----------------------------------------------------------------------------
(* Properties *)

\* Descriptors are neither lost nor used twice: they are free, or in the chain
\* of exactly one request.
DescConserved ==
  LET heads == {i \in Desc : info[i] # None} IN
  /\ free \cup UNION {chain(i) : i \in heads} = Desc
  /\ \A i, j \in heads : i # j => chain(i) \cap chain(j) = {}
  /\ \A i \in heads : chain(i) \cap free = {}

\* virtio_disk_rw() returns only after the device has finished the transfer of
\* its own buffer, in whatever order requests are completed: b->disk is
\* cleared for a buffer that has been served, and every chain the device or
\* the used ring holds belongs to a request that still waits.
ServedFirst ==
  /\ \A b \in Buf : pc[b] \in {"sleep_buf", "woken_buf"} => bdisk[b] \/ b \in served
  /\ \A b \in Buf : pc[b] = "idle" => ~bdisk[b]
  /\ \A i \in busy : info[i] # None /\ desc[desc[i].next].addr = info[i] /\ bdisk[info[i]]

\* No process sleeps for descriptors when three are free, and none sleeps for
\* a buffer that is done.
NoMissedWakeup ==
  unlocked => \A b \in Buf :
    /\ pc[b] = "sleep_desc" => Cardinality(free) < 3
    /\ pc[b] = "sleep_buf" => bdisk[b]

\* An interrupt has been acknowledged with a finished request left unseen.
swallowed == handler = "idle" /\ ~isr /\ usedIdx # usedId % NUM

Waits(b) == pc[b] \in {"sleep_buf", "woken_buf"}

\* A published request is finished, as long as the interrupt of the last one
\* is not lost for good to the acknowledgement (see intr_ack).
RequestFinishes ==
  []<>(~swallowed) => \A b \in Buf : Waits(b) ~> ~Waits(b)

\* free_desc() and the handler never panic.
NoPanic == ~panicked
=============================================================================
