# xv6 (HITSZ OS labs) in TLA+

This directory models the xv6-riscv kernel of this repository and the user
programs written for it: the write-ahead log and its recovery, the life of
processes, scheduling with sleep and wakeup, traps, pipes, files and
directories, virtual memory, the disk and console drivers, the shell, the user
memory allocator, the programs of lab 1, and the buffer cache, page allocator
and page tables that labs 3 and 4 redesign.  Every definition is translated
from the C source; `PROJECT.json` maps it to its lines.

## 1. The system

The repository holds the labs of an operating-systems course.  Lab 2 (`实验二`)
is a complete xv6-2020 kernel with two added system calls (`trace`, `sysinfo`)
and all user programs.  Lab 3 (`实验三`) replaces two of its files: a page
allocator with one free list per CPU and a buffer cache hashed into 13 buckets.
Lab 4 (`实验四`) replaces the virtual-memory files so that every process has a
kernel page table of its own.  Lab 1 (`实验一`) is five user programs.  Lab 5 is
an empty submodule.

### Inventory

| component | state | operations | interacts with | what makes it correct |
|---|---|---|---|---|
| write-ahead log, `log.c` | `log.lh`, `outstanding`, `committing`, header and log blocks on disk | `begin_op`, `log_write`, `end_op`, `commit`, `recover_from_log` | pins buffers; sleeps on `&log` | a group of calls reaches the disk as a whole or not at all, whenever the power fails; the header never overflows; nobody waits for ever |
| buffer cache, `bio.c` (labs 2, 3) | buffers with `blockno`, `valid`, `refcnt`, sleep lock | `bread`, `bwrite`, `brelse`, `bpin`, `bunpin` | disk driver, log, file system | one copy per block, no buffer recycled in use |
| processes, `proc.c` | `proc[NPROC]`, `nextpid` | `fork`, `exit`, `wait`, `kill` | scheduler, every sleeper | a child always has a parent that can reap it; no lock cycle; a slot is freed after its thread is gone |
| scheduler and locks, `proc.c`, `spinlock.c`, `sleeplock.c` | `cpus[NCPU]`, `noff`, `intena`, `p->state`, `p->chan` | `scheduler`, `sched`, `yield`, `sleep`, `wakeup`, `acquire`, `release`, `acquiresleep`, `releasesleep` | everything | a thread is on one CPU, no wakeup is missed, interrupts are off exactly while a spin lock is held |
| traps, `trap.c` | trap registers of every hart, `p->trapframe`, `ticks` | `usertrap`, `usertrapret`, `kerneltrap`, `devintr`, `clockintr`, `sys_sleep` | scheduler, every system call | a trap comes back to the place it left, on whatever hart; the vector fits the mode; a sleeper wakes in time |
| pipes, `pipe.c` | ring buffer, `nread`, `nwrite`, open flags | `pipewrite`, `piperead`, `pipeclose` | sleep/wakeup, file table | a bounded queue; freed after its last use; a closed end is noticed |
| page allocator, `kalloc.c` (labs 2, 3) | free lists | `kalloc`, `kfree` | everyone | a page has one owner |
| disk driver, `virtio_disk.c` | descriptors, rings, `info[]` | `virtio_disk_rw`, `virtio_disk_intr` | buffer cache, PLIC | every request completes once and after its transfer, descriptors are not lost |
| console and UART, `console.c`, `uart.c` | `cons.buf`, `uart_tx_buf` | `consoleread`, `consolewrite`, `consoleintr`, `uartputc`, `uartintr` | sleep/wakeup, interrupts | characters in order, edited lines, no stalled transmission |
| inodes and directories, `fs.c` | inode cache, on-disk inodes, bitmap | `iget`, `ilock`, `iput`, `itrunc`, `readi`, `writei`, `dirlink`, `namex` | log, buffer cache | `ref` and `nlink` are exact; a block has one owner; a file is a sequence of bytes |
| files and their system calls, `file.c`, `sysfile.c` | `ftable`, `p->ofile`, `p->cwd` | `open`, `dup`, `close`, `read`, `write`, `link`, `unlink`, `mkdir`, `mknod`, `chdir` | inodes, pipes | `ref` counts descriptors; every error path gives back what it took; no lock cycle |
| virtual memory, `vm.c`, `exec.c` (labs 2, 4) | page tables | `uvmalloc`, `uvmcopy`, `uvmunmap`, `exec`, in lab 4 a kernel page table per process | page allocator, scheduler | a page is mapped by one process and freed once; `satp` never names a freed table |
| shell, `sh.c` | descriptors, commands | `parsecmd`, `runcmd` | `fork`, `pipe`, `dup`, `wait` | programs get the descriptors the line says; no end of a pipe is left open |
| user allocator, `umalloc.c` | circular free list | `malloc`, `free`, `morecore` | `sbrk` | no byte is lost or given out twice |
| programs of lab 1 | processes and pipes | `primes`, `pingpong`, `find`, `xargs`, `sleep` | system calls | they end and print what they should |
| boot, PLIC, formatting, other programs | registers | | all | straight-line code |

The behaviours that are hard to test, with the line where each one bites, are
the `hazards` of `PROJECT.json`.

## 2. What is modelled

A step of a model ends where another actor can come in: where the code takes or
gives up a lock, sleeps, touches the disk or a device register, or returns to
the user.

### Log: `Log.tla`, abstract specification `AtomicDisk.tla`

State: the in-memory header and counters of `log.c`, the header, log blocks and
home blocks on disk, the buffers with their reference counts (modulo `RefMod`,
the number of values of `uint`), and the program counter of each process.  One
step per disk write: `write_log`, `write_head`, `install_trans` and
`erase_head` write one block each, so `crash` can fall between any two of them,
also during recovery.  `bget`, `modify`, `log_write_check`, `log_write`,
`brelse` are what a system call does with one block; `log_write` tests the size
of the log before it takes the lock, so the test is a step of its own.
`AtomicDisk` has the contents in memory and on stable storage only: a system
call changes memory, the whole group becomes stable in one step when no call is
active, and a crash takes memory back to what is stable.  `Log` is shown to
implement it (`AtomicUnlessStolen`), with the mapping "what recovery would make
of the disk".

`OPBLOCKS` is the number of blocks a system call really logs, `MAXOPBLOCKS` what
it reserves, `LOGSIZE` the size of the header's array and `nlog` the blocks of
the log on the disk, header included (`log.size`).  The assumptions on them,
`LogConstants`, are what the code is built with: the callers in `sysfile.c` and
`file.c` log at most 7 of the 10 blocks they reserve, so
`OPBLOCKS < MAXOPBLOCKS`; `param.h` makes `LOGSIZE` three reservations, so
`MAXOPBLOCKS < LOGSIZE`; and `mkfs`, which is not in the repository, makes
`nlog = LOGSIZE`, so `LOGSIZE =< nlog`, which `initlog` takes from the disk
unchecked.  Nothing makes the test of `log.size - 1` in `log_write` redundant:
with `nlog = LOGSIZE` the log holds one block fewer than the header's array.  If
calls logged all they reserve, the panic "too big a transaction" would be
reachable, since its test comes before absorption.

### Process life: `Proc.tla`

State: `state`, `parent`, `killed`, `pid` of every slot, the holder of every
`p->lock`, and the locals of `exit` and `wait`.  One step per `acquire`; the
unlocked reads of `p->parent` happen when the lock is asked for.  There is a CPU
for every process (`Sched` is about CPUs).  `fork` is one step because the new
slot is locked throughout; its two failure paths are actions of their own, since
one of them leaves a pid in a free slot.

### Scheduler: `Sched.tla`

State: `p->state`, `p->chan`, the CPU that holds each spin lock, `c->proc`,
`c->noff`, `c->intena`, the interrupt-enable bit, and where each thread is.
`acquire` is two steps, `push_off` and the winning swap, so that a CPU spins
with interrupts off.  `swtch` moves the CPU between a thread and its scheduler
with `p->lock` held.  The client of `sleep` and `wakeup` is a sleep lock
(`acquiresleep`, `releasesleep`); `kill` wakes a sleeper without a reason.  The
timer interrupts any thread whose CPU has interrupts on, in user or in kernel
code.

### Traps: `Trap.tla`

State: of every hart its mode, `stvec`, `sepc`, `tp` and who runs on it; of
every process what its trapframe and the frame of `kerneltrap` keep, and where
it has to come back; `ticks` modulo `UINT`.  What hardware, `trampoline.S` and `kernelvec.S` do is external.
A user program is a loop of instructions that calls, faults or is interrupted at
any of them; the kernel is interrupted wherever interrupts are on, the system
call `sleep` included, and a process that yields may go on on the other hart.
`sys_sleep` is a step for its look at `ticks` and `killed` and one for `sleep`;
in between it holds `tickslock`, which keeps `clockintr` waiting and not `kill`.

### Pipes: `Pipe.tla`, abstract specification `Fifo.tla`

State: the ring buffer and its wrapping counters, the open flags, `pi->lock`,
and each process's progress through `pipewrite` or `piperead`, one step per
byte.  Between the decision to sleep and the sleep there is a step, because
`kill` needs no `pi->lock`.  Failing `copyin` and `copyout` are alternatives of
`write_return` and `read_byte`.  `Fifo` is a queue of at most `PIPESIZE` bytes
with two ends that close; `Pipe` implements it with the contents of the ring as
the queue.

### Files: `FileSys.tla`, `FileData.tla`, abstract specification `ByteFile.tla`

`FileSys` has the inodes on disk with their directory entries, the inode cache
with its reference counts and sleep locks, the open file table, and descriptors
and working directory of every process.  Each system call is its sequence of
steps between the places where `ilock` may block or `icache.lock` is given up,
with path names resolved component by component and every error path; `iput` of
the last reference to an unlinked inode frees it.  The inode cache has `NINODE`
entries, of which processes outside the model may use up to `OTHERS`, so `iget`
may panic as soon as that leaves none.  A transaction is atomic, which is what
`Log` provides, so a crash leaves the disk as it was when no transaction was
open.  Two history variables mark what the code does wrong: `orphan` has the
inodes the file system has lost, and `stale` says that a `..` of a removed
directory was followed to an inode that was gone; the model goes on after that,
into the panic of `ilock` or into another file's inode.

`FileData` has one inode's block addresses, the bitmap, the data blocks and the
offsets of open files: `bmap` with the indirect block, `itrunc`, `readi`,
`writei`, and `filewrite` in chunks between which `ip->lock` is free.  Disk space
may run out and a user address may be bad in the middle of a copy; the block
that was being copied into is then changed in the cache only.  `ByteFile` is the
promise: a sequence of bytes, where a failed write may have changed bytes that
are not kept yet.

### Memory: `Vm.tla`

State: the set of pages in use, each named after what it was allocated for, of
every process its state, size, page table, trapframe and (lab 4) kernel page
table, of every CPU the table in `satp`.  Actions: `fork`, `sbrk`, `exit`,
`wait`, `exec`, and `scheduler` in the steps between which another CPU may free
the process.  `exec` is a step for the pages of its arguments (`sys_exec`), one
for each segment of the program (`exec_segment`) and one that puts the image
beside the old table in its place (`exec`); each of them may fail and gives back
what has been built.  Every call chooses how many of its `kalloc`s can still
succeed, so each error path of `fork`, `exec` and `sbrk` runs with each prefix of
the allocations done.  A `sys_exec` that cannot copy its arguments frees the
pages it has got and returns before it calls `exec`: that changes nothing in the
end and is not a step of the model.

### Devices: `Virtio.tla`; `Console.tla`, abstract specification `Tty.tla`

`Virtio` has the descriptors, the available and the used ring and the sleepers
of `virtio_disk.c`.  The device is external: it takes chains in order, finishes
them in any order, and raises an interrupt; it works on while
`virtio_disk_intr` looks at the used ring.  `kill` wakes a requester early.

`Console` has the input ring with its three indices, readers, the transmit ring
and the transmit register.  Keyboard characters, the interrupt for an empty
register, `consolewrite`, echo and `printf` on another CPU interleave at every
look at a register.  `Tty` is the line discipline: ended lines, and the line
being edited.

### User programs: `Unix.tla` with `ShellParse.tla`, `Shell.tla`, `Lab1.tla`; `Malloc.tla`; `Find.tla`

`Unix` has the system calls as one step each, from what a program can observe of
`Pipe` and `Proc`.  `ShellParse` is the recursive-descent parser on tokens;
`Shell` is `main` and `runcmd`, with failing `fork` and `pipe`.  `Lab1` is
`primes.c` and `pingpong.c`; the byte of `pingpong.c` that is never initialised
may have any value, and its `pipe` and `fork`, whose results it does not look
at, may fail.  `Malloc` is the free list of `umalloc.c` with an `sbrk` of
the program between two of `morecore` and one that fails.  `Find` is the
recursion of `find.c` over a directory tree, with erased entries and a limited
number of descriptors.

### Lab 3: `HashBcache.tla`, `KallocSteal.tla`

`HashBcache` has the bucket lists in order of use, the bucket locks and the
sleep locks; `bget` is split where it takes another bucket's lock.
`KallocSteal` has a free list per CPU; a thread's CPU number is any CPU, since it
may be stale when it is used.

### Modules for TLC

`MCLog`, `MCProc`, `MCSched`, `MCPipe`, `MCHashBcache`, `MCFileSys` and `MCVm`
extend one module each.  `Intr` puts `Console`, `Trap` and `Virtio` side by side,
each with its own variables and each allowed to step while the others wait, and
`MCIntr` extends it.  `MCLive`, `MCIntr` and `MCLabs` put several independent machines into
one state graph: the variable `which`, fixed in the initial state, says which
machine a behaviour belongs to.  `MCLive` and `MCLabs` extend the module of one
machine (`Virtio`, `HashBcache`), whose variables stay in their initial state when
another machine runs, so that the properties of that module are checked as they
are; the other machines are instances of their modules over variables they share.
The machines do not interact there; the unions ask the same kind of question of
each in one run.

## 3. What the runs show

| run | instance | shows |
|---|---|---|
| `log` | 2 processes, 4 blocks, 2 values, calls of 1 block that reserve 2, log of 4 (`LOGSIZE` and `nlog`); crashes anywhere | refines `AtomicDisk` unless a buffer is stolen, and only a leaked one is; panics unreachable; no overflow; reference counts exact; after a quiet moment everything is on disk |
| `log_recovery` (violation) | 1 process | recovery unpins buffers nobody pinned; see findings |
| `proc` | 3 slots, 4 pids, `kill` of every number 0..4, failing `kalloc` | the only lock cycle is the stale parent's; living parents; no lost wakeup; slots freed last; killed processes exit |
| `proc_reuse` (violation) | 4 slots, 5 pids | a stale parent pointer leads to a lock cycle |
| `sched` | 2 CPUs, 3 processes, `kill` | a process on one CPU, sleep lock excludes, `noff` and `intena` right, no missed wakeup, no panic, no deadlock |
| `live` | driver: 3 requests, 8 descriptors; log: 2 processes, room for one call; scheduler: 3 processes, 1 CPU | whoever sleeps goes on; every runnable process runs; no deadlock |
| `pipe` | 1 reader, 2 writers, 2 bytes, counters modulo 4, calls of 3 bytes | refines `Fifo`; wakeups; freed last; closed end noticed |
| `bcache_deadlock` (violation) | 2 processes, 3 buckets | two buckets locked in opposite order |
| `fs` | 2 processes, 3 inodes, 3 cache entries of which others may use 1, 1 open file, 2 descriptors each, crashes | `ref` and `nlink` exact, no inode lost, no call blocks in `iput`, deadlocks or panics, with the exceptions listed below |
| `vm` | 3 processes, 2 CPUs, 24 pages, sizes up to 4 pages, computed modulo 16 | no page lost or freed twice; a process maps exactly what its size says; no CPU on a freed page table |
| `intr` | console: rings of 2, 2 readers, a writer, `printf`; traps: 2 harts, 2 processes, `ticks` modulo 3; driver: 3 requests, 8 descriptors | refines `Tty`; no reader or `sleep` call oversleeps; transmission neither stalls nor overwrites itself; traps come back, with the right hart and vector; descriptors conserved; a request returns after its own transfer |
| `labs` | shell: 6 sessions, 6 processes, 2 pipes, 5 descriptors; primes to 35 with the kernel's 16 descriptors; heap of 10 units; 3 directories; a file on 4 blocks; cache of 3 buffers, 2 buckets, 3 processes; 3 CPUs' free lists | programs get the right descriptors, end and print what they should; space conserved; a file is a `ByteFile`; one copy of a block |

Why the bounds are enough for the cases meant.  The log has values that differ,
more blocks than fit into it, so that an overflow would happen if `begin_op` let
too many calls in, and crashes during recovery; calls of more than one block
would make the run too long and are left to the proof.  In `live` the log is
full after one call, so that `begin_op` sleeps.  More pids than slots make slots
be reused.  Two CPUs suffice for every race of two threads and the third process
gives two sleepers for one wakeup.  A call larger than the pipe forces a writer
to sleep in the middle, and all wrapping counters (`UINT`, `WIDTH`, `WRAP`,
`RefMod`) wrap within a few steps.  Three requests need nine descriptors of
eight.  The file table, the inodes, the inode cache and the descriptors of `fs`
all run out, and each call of `MCCalls` meets each other one at every step; once
a `..` has led to an inode that is gone, the calls under way are followed to
their end and no further one begins (the constraint `ToTheEnd` of `MCFileSys`).  In `vm` an exec of
two segments, a fork and a growing process compete for 24 pages.  The rings of
the console fill and wrap at two characters.  In `labs`, processes and
pipes run out in the shell (descriptors do not), the file needs the indirect block
and the disk is full before the file is, and there are more blocks than buffers.  `MAXPID`,
`SIZES`, `VICTIMS`, `MAXLINK`, `MAXPG`, `READS` and `MAXUPC` are bounds only.

Deadlock is checked in `log`, `sched` and `live`.  In the other runs a state
without a next step is legal (all processes gone, waiting for input, a panic);
lock cycles and hanging programs have invariants of their own there
(`NoCycleUnlessStale`, `CallsGoOn`, `NoHang`, which says that when no process can
go on none is left waiting).  Symmetry is used for sets of interchangeable values
in runs without liveness properties only.

Fairness.  `Log`: a process inside the kernel goes on, a system call that has
begun ends, recovery goes on.  `Proc`: the steps inside the kernel are strongly
fair (a spinning `acquire` gets a lock that is released again and again, which
test-and-set does not promise but hardware arbitration gives); a killed process
traps into the kernel (timer); the init program calls `wait` in a loop
(`user/init.c`).  `Sched`: CPUs keep going, timers keep firing (`timerinit`) and
leave time for progress, critical sections end.  `Pipe`: steps inside the kernel
are strongly fair, a killed process leaves.  `Virtio`: the device takes and
finishes each chain, a pending interrupt is taken, the handler goes on, and a
woken process gets `vdisk_lock`.  No process is assumed to make a system call.
In `MCLive` only one machine runs, so fairness of a disjunction of one step from
each is fairness of each; the conjuncts are paired to keep TLC's work small.
`WaitersGoOn` assumes of the driver that a swallowed interrupt (below) does not
last.  The programs have no fairness: `NoHang` is an invariant.

### Findings

* `log_recovery`: `install_trans` unpins in recovery too.  The reference count
  of a recovered block is one too low (it wraps), so a later pinned buffer can be
  recycled before it is logged and the update is lost.  `OnlyLeakedStolen` shows
  that this is the only way to lose a pinned buffer.
* `proc_reuse`: `exit` locks a parent it has read earlier; if that slot was freed
  and allocated again to a descendant, two CPUs wait for each other.
  `NoCycleUnlessStale` shows that this is the only way.
* `bcache_deadlock`: lab 3's `bget` holds its bucket and locks another.

The models contain further behaviours that a reader of the code should know and
that no property excludes:

* `kill` of the number of a free slot (0, or one left by a failed `allocproc`)
  marks the slot and the next process born there dies.
* init can miss the wakeup of an orphan's `exit` and sleep beside a zombie
  (`proc.c:360` says so).
* A process killed between its test of `killed` and `sleep` in a pipe, in
  `consoleread` or in `sys_sleep` stays asleep; a writer killed at a full pipe
  does not wake the readers of what it wrote (hence the exception in `Pipe`'s
  `NoMissedWakeup`).
* `virtio_disk_intr` acknowledges the interrupt after its last look at the used
  ring (`virtio_disk.c:267`): a request that finishes in between is noticed with
  the next interrupt only (`swallowed`).
* `consolewrite` holds `cons.lock` while `uartputc` sleeps for room in the
  transmit ring: `sched` panics ("sched locks").
* `writei` returns `n`, and the offset moves on by `n`, after a copy that failed.
* An inode that is unlinked but open when the power fails is never freed, nor is
  one that was linked into a directory already removed.  A third way to lose one
  needs no crash: `iput` frees an inode, gives its lock up (`fs.c:351`) and drops
  its own reference later (`fs.c:356`).  If the inode is allocated again in
  between and the new file is unlinked and closed, its last user sees `ref = 2`
  and leaves it alone, and the first `iput` drops the last reference without
  looking at `nlink` again, although `fs.c:328-329` says "If that was the last
  reference and the inode has no links to it, free the inode".  `NoLostInode`
  names the three exceptions.
* A directory that is somebody's working directory can be removed, and keeps its
  `..`; the parent can be removed, too, and its inode freed or allocated again.
  Whoever then follows `..` makes `ilock` panic ("ilock: no type", `fs.c:310`) or
  ends up in another file, whose counts go wrong.  `LinksExact`, `NoLostInode`
  and the panics of `CallsGoOn` speak of the time before that (`stale`); the
  reference counts and the locks are right after it as well.
* `iget` panics when all `NINODE` entries of the inode cache are in use, which 100
  open files and 64 working directories can do to 50 entries; `ialloc` panics
  when the disk has no inode left.  `CallsGoOn` allows these two panics.
* `Pvmmap` panics when memory runs out.
* `find.c` does not skip erased entries, whose empty name leads back to the
  directory itself: it visits that again, as long as there are descriptors.
* `pingpong.c` compares a byte it never initialised: if it is not 0 the child does
  not answer, and the parent waits for ever.  It ignores the results of `pipe` and
  `fork`: after a `fork` that failed it goes on as a parent and reads a pipe whose
  writing end only it has open (`pingpong.c:14`).  `NoHang` excepts both.
* Lab 3's `bget` can panic, and its `kalloc` can return 0, although a buffer or a
  page was free all the time, because the buckets and lists are searched one lock
  at a time.

## 4. What is proved

TLAPS proves the following for every value of the constants that satisfies the
assumptions named in `Log`, `Sched`, `Proc`, `Pipe`, `FileSys` and `Vm`, which TLC
evaluates in the runs of the `MC` modules that extend them.  In the theorems about `Virtio`,
`HashBcache`, `Console` and `Trap` what they need of their constants is a
hypothesis, `VirtioConstants`, `BcacheConstants`, `ConsoleConstants` and
`TrapConstants`, which `MCLive`, `MCLabs` and `MCIntr` assume.  Each `...Proofs`
module begins with the inductive invariant (the one of `Log` is a module of its
own, `LogInv`, which `MCLog` extends) and goes on with the proofs: one
lemma per action, one step per conjunct the action can disturb.  Every invariant
was checked by TLC on a small instance before it was proved.

| module | theorem | property |
|---|---|---|
| `LogProofs` | `TypeCorrect` | `TypeOK` |
| | `LogNeverOverflows` | `LogFits`: the header never lists more blocks than its array or the log on disk has room for |
| | `NeverPanics` | `NoPanic` |
| | `RefcntAlwaysExact` | `RefcntExact` |
| | `AlwaysDurable` | `QuiescentDurable` |
| | `OnlyLeakedAreStolen` | `OnlyLeakedStolen`, an action property |
| | `ImplementsAtomicDisk` | `AtomicUnlessStolen`, the refinement of `AtomicDisk` |
| `SchedProofs` | `InterruptsAlwaysRight` | `InterruptsRight`, the absence of panics included |
| | `AlwaysExclusive` | `Exclusive` |
| | `NoWakeupMissed` | `NoMissedWakeup` |
| `ProcProofs` | `AlwaysFreedWhenGone` | `FreedWhenGone` |
| | `ParentAlwaysAlive` | `ParentAlive` |
| | `WakeupNeverLost` | `NoLostWakeup` |
| | `NeverCircleUnlessStale` | `NoCycleUnlessStale` |
| `PipeProofs` | `NeverUsedAfterFree` | `NoUseAfterFree` |
| | `WakeupNeverMissed` | `NoMissedWakeup` |
| | `ImplementsFifo` | `IsFifo`, the refinement of `Fifo` |
| `BcacheProofs` | `CacheAlwaysRight` | `CacheRight`: `OneCopy`, `ListsOK`, `NotRecycled` |
| `IntrProofs` | `ReadersAlwaysWake` | `ReadersWake` |
| | `TransmitAlwaysRight` | `TransmitRight`: `OneSender`, `TransmitStarts` |
| | `ImplementsTty` | `LineDiscipline`, the refinement of `Tty` |
| | `TrapAlwaysRight` | `TrapRight`: `VectorRight`, `CpuidRight`, `NoOversleep` |
| | `AlwaysComesBack` | `ComesBack`, an action property |
| | `DescAlwaysRight` | `DescRight`: `DescConserved`, `NoMissedWakeup` |
| | `AlwaysServedRight` | `ServedRight`: `ServedFirst`, `NoPanic` |
| `FileSysProofs` | `RefsAlwaysRight` | `RefsRight`: `RefsExact`, `IputNeverBlocks`, no panic in `ilock` |
| `VmProofs` | `Conservation` | `PagesConserved`: a page is owned once, freed once and not lost |
| | `SizesMapped` | `SizeMapped` |
| | `SatpLives` | `SatpLive` |

### Log

`LogFits` is not inductive: `log_write_check` reads `lh.n` long before
`log_write` appends.  The strengthening `SafeInv` of `LogInv` has control facts
that tie `outstanding`, `committing` and the program counters together, the
position of `write_log` and `install_trans` in the header, and a space
invariant: the blocks in the header plus the blocks every active call may still
log are at most `LOGSIZE - 2`.  The calls' remaining blocks are counted as the size
of a set of tokens, one per block a call may still log, so that each step's effect
on the sum is adding or removing elements of a finite set.

The two blocks to spare are what `NeverPanics` rests on.  `log_write` panics when
the header lists `nlog - 1` blocks already, and `nlog` may be `LOGSIZE`.  A call
that `begin_op` lets in beside others leaves one of its reserved blocks unused,
and so does one of the others, which makes two.  A call that comes in alone finds
an empty log, because the last call of the group before has committed it
(`EmptyInv`); it leaves one block unused, and `LOGSIZE` is larger than its
reservation, which is the second.  Nothing is assumed of the log but
`LogConstants`, see section 2.

Atomicity needs `AtomInv` as well, on the contents: the header has no block
twice and is on disk only from `write_head` to `erase_head`; the part of the log
area already written equals the cache and the part already installed is at home;
a block whose cached contents differ from its home is pinned or about to be
pinned; a buffer in use is cached; and `RefcntExact` itself, since only a right
reference count keeps `bget` from recycling what is not at home yet.  Everything
but the header facts holds until a buffer is stolen, and `OnlyLeakedStolen`
shows that the leak in recovery is the only cause.  The refinement then has one
lemma per action: `write_head` is the step that makes the group stable, `modify`
changes memory, `crash` takes memory back, all others stutter.  Reference counts
live modulo `RefMod`; the arithmetic needed (uniqueness of the remainder, adding
and taking away modulo `RefMod`) is a handful of lemmas at the head of the file.

### Scheduler

`Exclusive` fails to be inductive at `swtch`, where a process is neither on the
CPU that leaves it nor on the next one.  The invariant says which CPU holds
`p->lock` on either side of `swtch`: the locks each CPU holds follow from where
it is (`HolderInv`), `noff` is their number plus the lock being awaited, and
whoever will turn interrupts on again remembers that they were on, in
`c->intena` while it runs and in its own `saved` while it does not.  For the
wakeups, a process about to sleep still holds the spin lock under which it saw
the sleep lock taken, and `wakeup` has left no sleeper behind its index.

### Processes

The invariant ties the state of a slot to where its thread is and the locks to where
their holders are; a parent's pid is smaller than its child's, so no process is
its own ancestor; what `exit` remembers as parent is still the parent, or the
process has been given to init; `reparent` and the scan of `wait` have left
nothing behind their index.  `NeverCircleUnlessStale` takes the youngest of the
circle's members that hold a lock: whoever holds a lock and waits for another
waits for a process younger than itself, parents being locked before children,
unless it is stale.  That there is a youngest one comes from the library's
theorem on well-founded relations.

### Pipes

The invariant: the counters are at most `PIPESIZE` apart although both wrap; a
process inside the pipe has `pi->lock`; whoever is going to sleep has looked at
the pipe under the lock it still holds; an end is open until the last process
that has it is in `pipeclose`.  `NoMissedWakeup` is proved from `WakeInv`, which
holds also while the lock is taken: a sleeper without need will be woken by the
process inside.  In the refinement the queue is the contents of the ring; a byte
written appends, a byte read removes the head, everything else stutters.

### Disk driver

The invariant says of every request that waits that it has one chain of three
descriptors which name its buffer, and of every chain that is to be transferred
that it is in one place only: between the indices of the available ring, at the
device, or between the indices of the used ring.  The indices wrap at `NUM`, so
a full ring would look empty; the entries of a ring are different heads and
every head takes two more descriptors, hence a ring never fills (`NotFull`, a
pigeonhole argument on finite sets).  A sleeper for descriptors has fewer than
three free ones, and one for its buffer has not been answered.

### Hashed buffer cache

The invariant: the lists hold every buffer once, each where `bget` looks for its
block; `refcnt` is the number of the processes that have the buffer, plus the
pin; the holder of the sleep lock is the user.  `OneCopy` needs the fact that
makes stealing safe: a process that looks for a buffer in other buckets keeps
its own locked, so its block is in no buffer until it brings it in.  What
`unlink` and `MoveToHead` do to a list is proved once, from `RemoveAt`.

### Console

The invariant: the indices `r`, `w`, `e` of the input
ring are in this order and at most the ring apart, although they wrap (`Dist` is the unsigned difference); a
lock is held exactly at the places of the code between its `acquire` and
`release`; a character that `consoleintr` echoes in order to store it has room,
because readers need the lock it holds; a reader is asleep only while `r = w`,
whoever has the lock.  `TransmitStarts` is inductive together with the locks.
For the refinement, `Tty`'s lines are the characters from `r` to `w` and the line
being typed those from `w` to `e`.  Taking, erasing and storing a character are
the three steps of `Tty`, everything else stutters; the core of the proof is that
the characters of the ring have different slots (`SlotDiffer`), so that a stored
character overwrites none of them.

### Traps

The invariant says for the place of every process what its hart
looks like: `stvec` is `uservec` exactly in user mode and between `w_stvec` in
`usertrapret` and in `usertrap`; interrupts are on only where the vector is
`kernelvec` and no trap is being handled; `tp` is the hart's number in the kernel,
and the trap frame has it in user mode.  For every process, on a hart or not, it
says what has been saved: `epc` is the place to go back to from the first lines
of `usertrap` on, and the frame of `kerneltrap` the place that was interrupted.
One lemma (`LocalStep`) shows that a step which leaves its own hart and process in
order keeps the rest, ticks and wakeups included; then each action needs only its
own records.  `NoOversleep` needs that a process which holds `tickslock` on its way
into `sleep` has not slept long enough either (`InTime`), which `clockintr` cannot
change while it waits for the lock.  `RunsAll` shows that `Intr`, which puts console, traps and disk driver
side by side, implements all three (the driver without its fairness), so what is
proved of each holds of what the run checks.

### Files

`RefsExact` compares `ref` with the number of pointers in working directories,
open files and the local variables of threads.  It is not inductive: `iput` of a
thread that has no such pointer, or a second one of the same pointer, would break
it.  The invariant `Inv` of `FileSysProofs` adds, for every thread, which of its
locals hold a pointer at the place where it is, or will be after the `iput`s it
still has to do (`Locals`, `PutsOK`), and that namei's caller fits its parameters
(`LookupOK`); that a slot without a process and a process at the end of `exit` have
no files; that an open file in use has an inode; and that whoever holds an inode's
lock keeps a reference to it for as long (`LockedBy`).

The pointers to an inode are a finite set.  `RefsStep` splits it into the ones of
each process (`Own`) and the ones of the file table, so that a step of one process
changes the sum by its own difference alone; `ThreadStep` turns this into the
invariant, and each action then has to show what it does to one thread and one
inode.  `IputNeverBlocks` follows: the holder of the lock would have a second
reference while `ref` is 1.  `ilock` does not panic because its caller has one.  All
this is proved for every size of the inode cache, and also after a `..` has led to
an inode that was gone.  A crash empties the cache together with everything that points into it.

### Memory

`PagesConserved` says that the pages in use are those the processes own, which is
not inductive: `exec` has two images at once, a failing call has some of the pages
it asked for, and a CPU may still run on the table of a process that is exiting.
The invariant has four parts.  `Good` is about one process: a free slot owns
nothing, any other has a trapframe, a kernel page table and a user page table that
maps the pages below its size and the two at the top, and beside it perhaps the
image of `exec` in the same shape.  `CpuOK` ties the table in `satp` and `p->lock`
to the place of the CPU in `scheduler`, and `Alone` says that a process is on one
CPU.  Pages are named after the slot, the table and the address they were allocated
for, so the pages of two processes are different, and the last part, that the pages
in use are the union of what the processes own, splits into one equation per
process.

One lemma for each function of `vm.c` and `exec.c` says what it makes of a table and
of the pages in use (`Holds`), whichever `kalloc` fails; an action composes these
lemmas as the code composes the functions.  Sizes are computed modulo `WRAP`, and
the proof needs that they wrap only where the comparison of old and new size
notices it, which `WRAP > MAXPG * PGSIZE` gives, as `MAXVA` does in the code; `exec`
has room for its two pages of stack because `END` bounds a segment.

### Only model-checked

* Liveness and whatever needs `ENABLED` (deadlock, `CallsGoOn`, `NoHang`), which
  the prover does not handle.
* `LinksExact` and `NoLostInode` of `FileSys`, which need the shape of the directory
  tree and the contents of directories between the steps of a call.
* `KallocSteal`, and `FileData` with its refinement of `ByteFile`.
* `ShellParse` and `Malloc`, which use RECURSIVE operators, and `Shell` and
  `MCLabs`, which build on them.

## 5. What is not modelled

* `copyin`, `copyout`, `copyinstr` and the fetching of system-call arguments:
  they move data and change no table; where a copy fails, the caller's model has
  the failure as an alternative.
* Boot (`start.c`, `main.c`, `entry.S`), the PLIC, `printf` and the string
  helpers: straight-line register setup and formatting.  That `printf` puts a
  character into the UART between others is a step of `Console`.
* `trace` and `sysinfo`, which only read and print.
* `xargs` and `sleep` of lab 1, the filters, and `usertests`: string work around
  single system calls, and tests.
* The LRU order of lab 2's cache: any unused buffer may be recycled.
* Weak memory: the code orders its accesses with `__sync_synchronize` in
  `acquire` and `release`, and in the driver.
* Errors of the disk: the driver answers a bad status with a panic
  (`virtio_disk.c:260`), and the device of `Virtio` reports none.
* The files that labs 3 and 4 repeat unchanged from lab 2 are mapped where lab 2
  has them.

## 6. Plan

The model is complete along the plan; what is left is proof, in this order:

1. `KallocSteal`: pages are conserved.
2. `FileData`: the refinement of `ByteFile`.
3. `FileSys`: `LinksExact`, on top of the invariant of `RefsAlwaysRight`.
