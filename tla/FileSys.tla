------------------------------ MODULE FileSys ------------------------------
(***************************************************************************)
(* Inodes, directories, path names and open files of xv6 (kernel/fs.c,     *)
(* kernel/file.c and kernel/sysfile.c of lab 2) under concurrent system    *)
(* calls: reference counts, link counts and inode locks.                   *)
(*                                                                         *)
(* A step ends where the code may block on an inode's sleep lock or gives  *)
(* icache.lock up.  The contents of files are in FileData.  Transactions   *)
(* are atomic (Log implements AtomicDisk), so a crash leaves the disk as   *)
(* it was when no transaction was open.                                    *)
(***************************************************************************)
EXTENDS Integers, FiniteSets, Sequences, FiniteSetsExt

CONSTANTS Proc, initproc, \* the process slots, and the one that never exits
          NINO,     \* inodes on the disk
          NINODE,   \* size of the inode cache
          OTHERS,   \* entries of it that processes outside the model may use
          NFILE,    \* size of the open file table
          NOFILE,   \* open files of a process
          Name,     \* ordinary names
          CALLS,    \* the calls with a path that each process makes
          MAXLINK,  \* bound: link() is not called for an inode with more links
          CRASH,    \* whether the machine may fail
          None

INO == 1..NINO
ROOTINO == 1
Dots == {".", ".."}
Elem == Name \cup Dots

\* A path name is a sequence of elements, with "/" in front if it is absolute.
Absolute(path) == path # <<>> /\ path[1] = "/"
Relative(path) == IF Absolute(path) THEN Tail(path) ELSE path

Op == {"open", "link", "unlink", "mkdir", "mknod", "chdir"}
Call == [op : Op, path : Seq({"/"} \cup Elem), new : Seq({"/"} \cup Elem),
         mode : {"", "rdonly", "rdwr", "create", "dev", "baddev"}]

ASSUME FileSysConstants ==
  /\ IsFiniteSet(Proc) /\ initproc \in Proc /\ None \notin Proc
  /\ OTHERS \in Nat
  /\ {NINO, NINODE, NFILE, NOFILE, MAXLINK} \subseteq Nat \ {0}
  /\ CRASH \in BOOLEAN
  /\ Name \cap ({"/"} \cup Dots) = {}
  /\ \A p \in Proc : \A c \in CALLS[p] :
       /\ c \in Call \ {None} /\ {Relative(c.path), Relative(c.new)} \subseteq Seq(Elem)
       /\ c.op = "mknod" => c.mode \in {"dev", "baddev"}

VARIABLES
  disk,     \* dinodes: type, nlink and the directory's entries
  icache,   \* in-memory inodes: ref, valid, type, nlink and the holder of lock
  file,     \* ftable.file: ref and ip
  ofile,    \* p->ofile
  cwd,      \* p->cwd (0: the slot is unused)
  th,       \* the kernel thread of each process: pc and locals
  panicked, \* the argument of panic(), "" while the kernel runs
  orphan,   \* history: inodes the file system lost, see link_in, iput_dec and crash
  stale     \* history: a ".." was followed to an inode that was gone, see namex

vars == <<disk, icache, file, ofile, cwd, th, panicked, orphan, stale>>

Types == {"free", "dir", "file", "dev", "baddev"}
NoInode == [type |-> "free", nlink |-> 0, ents |-> [n \in Elem |-> 0]]
NoThread == [pc |-> "user", call |-> None, path |-> <<>>, par |-> FALSE, cur |-> 0,
             k |-> "user", kf |-> "user", ip |-> 0, dp |-> 0, put |-> <<>>, r |-> "user"]
Threads == {"user", "namex", "put", "put_free", "put_valid", "put_dec", "link_ip", "link_dp",
            "link_bad", "unlink_dp", "unlink_ip", "unlink_done", "create_dp", "create_ialloc",
            "create_iget", "create_ip", "create_found", "open_ip", "open_file",
            "chdir_ip", "chdir_set", "exit_files", "exit_done"}

Thread == [pc : Threads, call : {None} \cup UNION {CALLS[p] : p \in Proc}, path : Seq(Elem),
           par : BOOLEAN, cur : INO \cup {0}, k : Threads, kf : Threads, ip : INO \cup {0},
           dp : INO \cup {0}, put : Seq({"put", "unlockput"} \X INO), r : Threads]

\* nlink is a short.
TypeOK ==
  /\ disk \in [INO -> [type : Types, nlink : Int, ents : [Elem -> INO \cup {0}]]]
  /\ icache \in [INO -> [ref : Nat, valid : BOOLEAN, type : Types, nlink : Int,
                         lock : Proc \cup {None}]]
  /\ file \in [1..NFILE -> [ref : Nat, ip : INO \cup {0}]]
  /\ ofile \in [Proc -> [1..NOFILE -> 0..NFILE]]
  /\ cwd \in [Proc -> INO \cup {0}]
  /\ th \in [Proc -> Thread]
  /\ orphan \subseteq INO /\ stale \in BOOLEAN

NoMemInode == [ref |-> 0, valid |-> FALSE, type |-> "free", nlink |-> 0, lock |-> None]

\* Memory after boot: init holds its working directory, the root.
booted(c) == [c EXCEPT ![ROOTINO].ref = 1]

Init ==
  /\ disk = [[i \in INO |-> NoInode] EXCEPT ![ROOTINO] =
               [type |-> "dir", nlink |-> 1,
                ents |-> [n \in Elem |-> IF n \in Dots THEN ROOTINO ELSE 0]]]
  /\ icache = booted([i \in INO |-> NoMemInode])
  /\ file = [f \in 1..NFILE |-> [ref |-> 0, ip |-> 0]]
  /\ ofile = [p \in Proc |-> [d \in 1..NOFILE |-> 0]]
  /\ cwd = [p \in Proc |-> IF p = initproc THEN ROOTINO ELSE 0]
  /\ th = [p \in Proc |-> NoThread]
  /\ panicked = "" /\ orphan = {} /\ stale = FALSE

-----------------------------------------------------------------------------
(* Inodes *)

running == panicked = ""
at(p, l) == running /\ th[p].pc = l
go(p, t) == th' = [th EXCEPT ![p] = t]

iget(c, i) ==
  IF c[i].ref > 0 THEN [c EXCEPT ![i].ref = @ + 1]
  ELSE [c EXCEPT ![i] = [NoMemInode EXCEPT !.ref = 1]]

\* The cache after ilock() has read the inode if necessary.
loaded(c, i) ==
  IF c[i].valid THEN c
  ELSE [c EXCEPT ![i].valid = TRUE, ![i].type = disk[i].type, ![i].nlink = disk[i].nlink]

iupdate(d, c, i) == [d EXCEPT ![i].type = c[i].type, ![i].nlink = c[i].nlink]

lock_panic(i) ==
  IF icache[i].ref < 1 THEN "ilock"
  ELSE IF loaded(icache, i)[i].type = "free" /\ ~icache[i].valid THEN "ilock: no type"
  ELSE ""

Panic(msg) ==
  panicked' = msg /\ UNCHANGED <<disk, icache, file, ofile, cwd, th, orphan, stale>>

\* ilock(i), after which process p goes on with A.
ilock(p, i, A) ==
  /\ icache[i].lock = None
  /\ IF lock_panic(i) # "" THEN Panic(lock_panic(i)) ELSE panicked' = panicked /\ A

\* iget(j) finds or gets an entry of the cache; it panics when all are in use.
Used == Cardinality({k \in INO : icache[k].ref > 0})
has_slot(j) == j # 0 /\ icache[j].ref = 0 => Used < NINODE
no_slot(j) == j # 0 /\ icache[j].ref = 0 /\ Used + OTHERS >= NINODE

\* ilock() as above with a call of iget(j) in A, unless j is 0.
ilock_iget(p, i, j, A) ==
  \/ /\ icache[i].lock = None /\ lock_panic(i) = "" /\ no_slot(j)
     /\ Panic("iget: no inodes")
  \/ ilock(p, i, has_slot(j) /\ A)

\* ilock() of a directory and dirlookup() in it, which calls iget(j).
dirlock(p, dp, j, A) ==
  IF icache[dp].lock = None /\ lock_panic(dp) = "" /\ loaded(icache, dp)[dp].type # "dir"
  THEN Panic("dirlookup not DIR") ELSE ilock_iget(p, dp, j, A)

\* p has done the first of them.
popped(p) ==
  LET t == th[p] IN
  go(p, IF Len(t.put) > 1 THEN [t EXCEPT !.pc = "put", !.put = Tail(@)]
        ELSE IF t.r = "user" THEN NoThread
        ELSE [t EXCEPT !.pc = t.r, !.put = <<>>, !.r = "user"])

\* t, and then iput()s and iunlockput()s in the order of s before p goes on at r.
puts(p, s, r, t) == go(p, [t EXCEPT !.pc = "put", !.put = s, !.r = r])
put(i) == <<"put", i>>
unlockput(i) == <<"unlockput", i>>

iunlockput(p) ==
  /\ at(p, "put")
  /\ LET i == Head(th[p].put)[2] IN
     /\ Head(th[p].put)[1] = "unlockput"
     /\ icache' = [icache EXCEPT ![i].lock = None]
     /\ go(p, [th[p] EXCEPT !.put = <<put(i)>> \o Tail(@)])
  /\ UNCHANGED <<disk, file, ofile, cwd, panicked, orphan, stale>>

\* No other reference and no name: iput() must free the inode.
Last(i) == icache[i].ref = 1 /\ icache[i].valid /\ icache[i].nlink = 0

iput(p) ==
  /\ at(p, "put")
  /\ LET i == Head(th[p].put)[2] IN
     /\ Head(th[p].put)[1] = "put"
     /\ IF Last(i)
        THEN /\ icache[i].lock = None  \* acquiresleep() with icache.lock held
             /\ icache' = [icache EXCEPT ![i].lock = p]
             /\ go(p, [th[p] EXCEPT !.pc = "put_free"])
        ELSE /\ icache' = [icache EXCEPT ![i].ref = @ - 1]
             /\ popped(p)
  /\ UNCHANGED <<disk, file, ofile, cwd, panicked, orphan, stale>>

iput_free(p) ==
  /\ at(p, "put_free")
  /\ LET i == Head(th[p].put)[2] IN
     /\ icache' = [icache EXCEPT ![i].type = "free"]
     /\ disk' = [disk EXCEPT ![i] = NoInode]
     /\ orphan' = orphan \ {i}
  /\ go(p, [th[p] EXCEPT !.pc = "put_valid"])
  /\ UNCHANGED <<file, ofile, cwd, panicked, stale>>

invalid(c, i) == [c EXCEPT ![i].valid = FALSE]

iput_unlock(p) ==
  /\ at(p, "put_valid")
  /\ icache' = [invalid(icache, Head(th[p].put)[2]) EXCEPT ![Head(th[p].put)[2]].lock = None]
  /\ go(p, [th[p] EXCEPT !.pc = "put_dec"])
  /\ UNCHANGED <<disk, file, ofile, cwd, panicked, orphan, stale>>

\* The inode may have been allocated again since iput_unlock(), to a file that
\* was unlinked and given up while p still had this reference: whoever gave it
\* up left the inode to the last reference, which p drops without looking at
\* nlink once more.  The inode is lost.
iput_dec(p) ==
  /\ at(p, "put_dec")
  /\ LET i == Head(th[p].put)[2] IN
     /\ icache' = [icache EXCEPT ![i].ref = @ - 1]
     /\ orphan' = IF /\ icache[i].ref = 1 /\ disk[i].nlink = 0 /\ disk[i].type # "free"
                     /\ \A q \in Proc : ~(th[q].pc = "create_iget" /\ th[q].ip = i)
                  THEN orphan \cup {i} ELSE orphan
  /\ popped(p)
  /\ UNCHANGED <<disk, file, ofile, cwd, panicked, stale>>

-----------------------------------------------------------------------------
(* Path names *)

Start(p, path) == IF Absolute(path) THEN ROOTINO ELSE cwd[p]

\* namex() begins: p walks path, and goes on at k when it is found, else at kf.
lookup(p, path, par, k, kf) ==
  [th[p] EXCEPT !.pc = "namex", !.path = Relative(path), !.par = par, !.cur = Start(p, path),
                !.k = k, !.kf = kf]

\* No inode of a file that is there or still in use: a free one, one that
\* iput() is freeing or one that ialloc() has marked and not yet got.
gone(i) ==
  /\ disk[i].nlink = 0
  /\ \/ icache[i].ref = 0 \/ ~icache[i].valid
     \/ \E q \in Proc : th[q].pc \in {"put_free", "put_valid"} /\ Head(th[q].put)[2] = i

\* One round of namex()'s loop: ilock(ip), dirlookup(), iunlock(ip), then iput(ip).
\* A removed directory keeps its "..", and nothing keeps the parent from being
\* removed and its inode from being freed or allocated again: whoever follows
\* that ".." finds a free inode, where ilock() panics, or gets the inode of a
\* file that somebody is creating, frees it in iput() because it has no link
\* yet, and link counts mean nothing any more.
namex(p) ==
  LET t == th[p]
      i == t.cur
      next == disk[i].ents[Head(t.path)]
      c == loaded(icache, i)
      last == t.par /\ Len(t.path) = 1
      done == [t EXCEPT !.cur = 0, !.k = "user", !.kf = "user"]
  IN /\ at(p, "namex") /\ t.path # <<>>
     /\ ilock_iget(p, i, IF c[i].type = "dir" /\ ~last THEN next ELSE 0,
          \/ /\ c[i].type = "dir" /\ last
             /\ icache' = c /\ stale' = stale
             /\ go(p, [done EXCEPT !.pc = t.k, !.dp = i])
          \/ /\ c[i].type # "dir" \/ (~last /\ next = 0)
             /\ icache' = c /\ stale' = stale
             /\ puts(p, <<put(i)>>, t.kf, [done EXCEPT !.path = <<>>])
          \/ /\ c[i].type = "dir" /\ ~last /\ next # 0
             /\ icache' = iget(c, next)
             /\ stale' = (stale \/ /\ Head(t.path) = ".." /\ gone(next)
                                   /\ c[i].nlink = 0 \/ i \in orphan)
             /\ puts(p, <<put(i)>>, "namex", [t EXCEPT !.cur = next, !.path = Tail(@)]))
     /\ UNCHANGED <<disk, file, ofile, cwd, orphan>>

namex_end(p) ==
  LET t == th[p]
      done == [t EXCEPT !.cur = 0, !.k = "user", !.kf = "user"]
  IN /\ at(p, "namex") /\ t.path = <<>>
     /\ IF t.par THEN puts(p, <<put(t.cur)>>, t.kf, done)
        ELSE go(p, [done EXCEPT !.pc = t.k, !.ip = t.cur])
     /\ UNCHANGED <<disk, icache, file, ofile, cwd, panicked, orphan, stale>>

\* An entry for i in dp; when no path leads to dp, none leads to i through it.
link_in(d, dp, n, i) ==
  /\ disk' = [d EXCEPT ![dp].ents[n] = i]
  /\ orphan' = IF disk[dp].nlink = 0 \/ dp \in orphan THEN orphan \cup {i, dp} ELSE orphan

-----------------------------------------------------------------------------
(* System calls *)

\* The calls that take a path: begin_op() and the start of their first namex().
sys_call(p) ==
  \E c \in CALLS[p] :
    /\ at(p, "user") /\ cwd[p] # 0
    /\ \/ no_slot(Start(p, c.path)) /\ Panic("iget: no inodes")
       \/ /\ has_slot(Start(p, c.path))
          /\ icache' = iget(icache, Start(p, c.path))
          /\ go(p, [ CASE c.op = "link" -> lookup(p, c.path, FALSE, "link_ip", "user")
                      [] c.op = "unlink" -> lookup(p, c.path, TRUE, "unlink_dp", "user")
                      [] c.op = "chdir" -> lookup(p, c.path, FALSE, "chdir_ip", "user")
                      [] c.op = "open" /\ c.mode # "create" ->
                           lookup(p, c.path, FALSE, "open_ip", "user")
                      [] OTHER -> lookup(p, c.path, TRUE, "create_dp", "user")
                    EXCEPT !.call = c])
          /\ UNCHANGED <<disk, file, ofile, cwd, panicked, orphan, stale>>

\* mutant: the inode stays locked while the new path is looked up
link_keep(c, p, i) == [c EXCEPT ![i].lock = p]
link_unlock(c, p, i) == [c EXCEPT ![i].lock = None]

sys_link(p) ==
  LET i == th[p].ip
      c == loaded(icache, i)
      linked == [c EXCEPT ![i].nlink = @ + 1]
      refuse == c[i].type = "dir" \/ c[i].nlink >= MAXLINK
  IN /\ at(p, "link_ip")
     /\ ilock_iget(p, i, IF refuse THEN 0 ELSE Start(p, th[p].call.new),
          IF refuse
          THEN icache' = c /\ disk' = disk /\ puts(p, <<put(i)>>, "user", [th[p] EXCEPT !.ip = 0])
          ELSE /\ disk' = iupdate(disk, linked, i)
               /\ icache' = iget(link_unlock(linked, p, i), Start(p, th[p].call.new))
               /\ go(p, lookup(p, th[p].call.new, TRUE, "link_dp", "link_bad")))
     /\ UNCHANGED <<file, ofile, cwd, orphan, stale>>

link_dp(p) ==
  LET i == th[p].ip
      dp == th[p].dp
      n == Head(th[p].path)
      e == disk[dp].ents[n]
      c == loaded(icache, dp)
  IN /\ at(p, "link_dp")
     /\ dirlock(p, dp, e,
          IF e # 0
          THEN /\ icache' = [iget(c, e) EXCEPT ![dp].lock = p]
               /\ puts(p, <<put(e), unlockput(dp)>>, "link_bad", [th[p] EXCEPT !.dp = 0, !.path = <<>>])
               /\ UNCHANGED <<disk, orphan>>
          ELSE /\ icache' = c
               /\ link_in(disk, dp, n, i)
               /\ puts(p, <<put(dp), put(i)>>, "user", [th[p] EXCEPT !.ip = 0, !.dp = 0]))
     /\ UNCHANGED <<file, ofile, cwd, stale>>

link_bad(p) ==
  LET i == th[p].ip
      c == [loaded(icache, i) EXCEPT ![i].nlink = @ - 1]
  IN /\ at(p, "link_bad")
     /\ ilock(p, i, /\ icache' = c /\ disk' = iupdate(disk, c, i)
                    /\ puts(p, <<put(i)>>, "user", [th[p] EXCEPT !.ip = 0]))
     /\ UNCHANGED <<file, ofile, cwd, orphan, stale>>

sys_unlink(p) ==
  LET dp == th[p].dp
      n == Head(th[p].path)
      e == disk[dp].ents[n]
      c == [loaded(icache, dp) EXCEPT ![dp].lock = p]
  IN /\ at(p, "unlink_dp")
     /\ dirlock(p, dp, IF n \in Dots THEN 0 ELSE e,
          IF n \in Dots \/ e = 0
          THEN icache' = c /\ puts(p, <<unlockput(dp)>>, "user", [th[p] EXCEPT !.dp = 0])
          ELSE icache' = iget(c, e) /\ go(p, [th[p] EXCEPT !.pc = "unlink_ip", !.ip = e]))
     /\ UNCHANGED <<disk, file, ofile, cwd, orphan, stale>>

\* mutant: the search for entries starts behind the last one
isdirempty_late(i) == \A n \in {} : disk[i].ents[n] = 0
isdirempty(i) == \A n \in Name : disk[i].ents[n] = 0

\* mutant: the ".." of the removed directory stays counted
keep_dotdot(c, i, dp) == c
drop_dotdot(c, i, dp) == [c EXCEPT ![dp].nlink = IF c[i].type = "dir" THEN @ - 1 ELSE @]

unlink_ip(p) ==
  LET i == th[p].ip
      dp == th[p].dp
      n == Head(th[p].path)
      c == [loaded(icache, i) EXCEPT ![i].lock = p]
      less == drop_dotdot(c, i, dp)
  IN /\ at(p, "unlink_ip")
     /\ IF icache[i].lock = None /\ lock_panic(i) = "" /\ c[i].nlink < 1
        THEN Panic("unlink: nlink < 1") ELSE ilock(p, i,
          IF c[i].type = "dir" /\ ~isdirempty(i)
          THEN /\ icache' = c /\ disk' = disk
               /\ puts(p, <<unlockput(i), unlockput(dp)>>, "user", [th[p] EXCEPT !.ip = 0, !.dp = 0])
          ELSE /\ icache' = less
               /\ disk' = [iupdate(disk, less, dp) EXCEPT ![dp].ents[n] = 0]
               /\ puts(p, <<unlockput(dp)>>, "unlink_done", [th[p] EXCEPT !.dp = 0, !.path = <<>>]))
     /\ UNCHANGED <<file, ofile, cwd, orphan, stale>>

unlink_done(p) ==
  LET i == th[p].ip
      c == [icache EXCEPT ![i].nlink = @ - 1]
  IN /\ at(p, "unlink_done")
     /\ icache' = c /\ disk' = iupdate(disk, c, i)
     /\ puts(p, <<unlockput(i)>>, "user", [th[p] EXCEPT !.ip = 0])
     /\ UNCHANGED <<file, ofile, cwd, panicked, orphan, stale>>

create(p) ==
  LET dp == th[p].dp
      e == disk[dp].ents[Head(th[p].path)]
      c == loaded(icache, dp)
  IN /\ at(p, "create_dp")
     /\ dirlock(p, dp, e,
          IF e # 0
          THEN /\ icache' = iget(c, e)
               /\ puts(p, <<put(dp)>>, "create_found", [th[p] EXCEPT !.ip = e, !.dp = 0, !.path = <<>>])
          ELSE /\ icache' = [c EXCEPT ![dp].lock = p]
               /\ go(p, [th[p] EXCEPT !.pc = "create_ialloc"]))
     /\ UNCHANGED <<disk, file, ofile, cwd, orphan, stale>>

create_found(p) ==
  LET i == th[p].ip
      c == loaded(icache, i)
  IN /\ at(p, "create_found")
     /\ ilock(p, i,
          IF th[p].call.op = "open" /\ c[i].type # "dir"
          THEN icache' = [c EXCEPT ![i].lock = p] /\ go(p, [th[p] EXCEPT !.pc = "open_file"])
          ELSE icache' = c /\ puts(p, <<put(i)>>, "user", [th[p] EXCEPT !.ip = 0]))
     /\ UNCHANGED <<disk, file, ofile, cwd, orphan, stale>>

\* The type of the inode that a call creates.
NewType(c) == CASE c.op = "open" -> "file" [] c.op = "mkdir" -> "dir" [] OTHER -> c.mode

\* ialloc() marks an inode that was free when its scan came by ...
ialloc(p) ==
  /\ at(p, "create_ialloc")
  /\ \/ \E i \in INO :
          /\ disk[i].type = "free"
          /\ disk' = [disk EXCEPT ![i] = [NoInode EXCEPT !.type = NewType(th[p].call)]]
          /\ go(p, [th[p] EXCEPT !.pc = "create_iget", !.ip = i])
          /\ UNCHANGED <<icache, file, ofile, cwd, panicked, orphan, stale>>
     \/ (\A i \in INO : disk[i].type # "free") /\ Panic("ialloc: no inodes")

\* ... and takes its reference after that.
ialloc_iget(p) ==
  /\ at(p, "create_iget")
  /\ \/ no_slot(th[p].ip) /\ Panic("iget: no inodes")
     \/ /\ has_slot(th[p].ip)
        /\ icache' = iget(icache, th[p].ip)
        /\ go(p, [th[p] EXCEPT !.pc = "create_ip"])
        /\ UNCHANGED <<disk, file, ofile, cwd, panicked, orphan, stale>>

\* sys_open() goes on with the locked inode, sys_mkdir() and sys_mknod() drop it.
created(p, i, dp) ==
  IF th[p].call.op = "open" THEN puts(p, <<unlockput(dp)>>, "open_file", [th[p] EXCEPT !.dp = 0, !.path = <<>>])
  ELSE puts(p, <<unlockput(dp), unlockput(i)>>, "user", [th[p] EXCEPT !.ip = 0, !.dp = 0])

create_ip(p) ==
  LET i == th[p].ip
      dp == th[p].dp
      n == Head(th[p].path)
      dir == NewType(th[p].call) = "dir"
      locked == [loaded(icache, i) EXCEPT ![i].lock = p]
      mine == [locked EXCEPT ![i].nlink = 1]
      c == [mine EXCEPT ![dp].nlink = IF dir THEN @ + 1 ELSE @]
      d == iupdate(iupdate(disk, c, i), c, dp)
  IN /\ at(p, "create_ip")
     /\ ilock(p, i,
          /\ disk[dp].ents[n] = 0  \* dp has been locked since create() looked
          /\ icache' = c
          /\ link_in(IF dir THEN [d EXCEPT ![i].ents["."] = i, ![i].ents[".."] = dp] ELSE d, dp, n, i)
          /\ created(p, i, dp))
     /\ UNCHANGED <<file, ofile, cwd, stale>>

sys_open(p) ==
  LET i == th[p].ip
      c == loaded(icache, i)
  IN /\ at(p, "open_ip")
     /\ ilock(p, i,
          IF c[i].type = "dir" /\ th[p].call.mode # "rdonly"
          THEN icache' = c /\ puts(p, <<put(i)>>, "user", [th[p] EXCEPT !.ip = 0])
          ELSE icache' = [c EXCEPT ![i].lock = p] /\ go(p, [th[p] EXCEPT !.pc = "open_file"]))
     /\ UNCHANGED <<disk, file, ofile, cwd, orphan, stale>>

\* 0 is the null pointer, or the -1 of fdalloc().
Lowest(S) == IF S = {} THEN 0 ELSE Min(S)
filealloc == Lowest({f \in DOMAIN file : file[f].ref = 0})
fdalloc(p) == Lowest({d \in 1..NOFILE : ofile[p][d] = 0})

open_file(p) ==
  LET i == th[p].ip IN
  /\ at(p, "open_file")
  /\ IF icache[i].type = "baddev" \/ filealloc = 0 \/ fdalloc(p) = 0
     THEN /\ puts(p, <<unlockput(i)>>, "user", [th[p] EXCEPT !.ip = 0])
          /\ UNCHANGED <<icache, file, ofile>>
     ELSE /\ file' = [file EXCEPT ![filealloc] = [ref |-> 1, ip |-> i]]
          /\ ofile' = [ofile EXCEPT ![p][fdalloc(p)] = filealloc]
          /\ icache' = [icache EXCEPT ![i].lock = None]
          /\ go(p, NoThread)
  /\ UNCHANGED <<disk, cwd, panicked, orphan, stale>>

sys_chdir(p) ==
  LET i == th[p].ip
      c == loaded(icache, i)
  IN /\ at(p, "chdir_ip")
     /\ ilock(p, i,
          /\ icache' = c
          /\ IF c[i].type # "dir" THEN puts(p, <<put(i)>>, "user", [th[p] EXCEPT !.ip = 0])
             ELSE puts(p, <<put(cwd[p])>>, "chdir_set", th[p]))
     /\ UNCHANGED <<disk, file, ofile, cwd, orphan, stale>>

chdir_set(p) ==
  /\ at(p, "chdir_set")
  /\ cwd' = [cwd EXCEPT ![p] = th[p].ip]
  /\ go(p, NoThread)
  /\ UNCHANGED <<disk, icache, file, ofile, panicked, orphan, stale>>

-----------------------------------------------------------------------------
(* Open files and processes *)

\* mutant: the copy of a descriptor is not counted
no_filedup(f) ==
  file
filedup(f) == [file EXCEPT ![f].ref = @ + 1]

sys_dup(p) ==
  \E d \in 1..NOFILE :
    /\ at(p, "user") /\ ofile[p][d] # 0 /\ fdalloc(p) # 0
    /\ ofile' = [ofile EXCEPT ![p][fdalloc(p)] = ofile[p][d]]
    /\ file' = filedup(ofile[p][d])
    /\ UNCHANGED <<disk, icache, cwd, th, panicked, orphan, stale>>

\* fileclose(): the last reference takes the inode with it.
fileclose(p, d, r) ==
  LET f == ofile[p][d] IN
  /\ ofile' = [ofile EXCEPT ![p][d] = 0]
  /\ IF file[f].ref > 1
     THEN file' = [file EXCEPT ![f].ref = @ - 1] /\ go(p, [th[p] EXCEPT !.pc = r])
     ELSE /\ file' = [file EXCEPT ![f] = [ref |-> 0, ip |-> 0]]
          /\ puts(p, <<put(file[f].ip)>>, r, th[p])
  /\ UNCHANGED <<disk, icache, cwd, panicked, orphan, stale>>

sys_close(p) == \E d \in 1..NOFILE : at(p, "user") /\ ofile[p][d] # 0 /\ fileclose(p, d, "user")

\* filestat() locks the inode of an open file and only reads it.
filestat(p) ==
  \E d \in 1..NOFILE :
    /\ at(p, "user") /\ ofile[p][d] # 0
    /\ LET i == file[ofile[p][d]].ip IN
       ilock(p, i, icache' = loaded(icache, i) /\ UNCHANGED <<th, stale, orphan, disk>>)
    /\ UNCHANGED <<file, ofile, cwd>>

\* fork()'s part in it: the child shares the open files and the directory.
fork(p, q) ==
  /\ at(p, "user") /\ cwd[p] # 0 /\ cwd[q] = 0 /\ th[q].pc = "user"
  /\ ofile' = [ofile EXCEPT ![q] = ofile[p]]
  /\ file' = [f \in DOMAIN file |->
                [file[f] EXCEPT !.ref = @ + Cardinality({d \in 1..NOFILE : ofile[p][d] = f})]]
  /\ icache' = [icache EXCEPT ![cwd[p]].ref = @ + 1]
  /\ cwd' = [cwd EXCEPT ![q] = cwd[p]]
  /\ UNCHANGED <<disk, th, panicked, orphan, stale>>

\* exit() closes the files one by one, then drops the directory.
exit(p) ==
  /\ at(p, "user") \/ at(p, "exit_files")
  /\ cwd[p] # 0 /\ p # initproc
  /\ IF \E d \in 1..NOFILE : ofile[p][d] # 0
     THEN fileclose(p, Lowest({d \in 1..NOFILE : ofile[p][d] # 0}), "exit_files")
     ELSE /\ puts(p, <<put(cwd[p])>>, "exit_done", th[p])
          /\ UNCHANGED <<disk, icache, file, ofile, cwd, panicked, orphan, stale>>

exit_done(p) ==
  /\ at(p, "exit_done")
  /\ cwd' = [cwd EXCEPT ![p] = 0]
  /\ go(p, NoThread)
  /\ UNCHANGED <<disk, icache, file, ofile, panicked, orphan, stale>>

Quiescent == \A p \in Proc : th[p].pc \in {"user", "exit_files"}

\* Power fails and the machine boots again: only the disk is left.
crash ==
  /\ CRASH /\ Quiescent /\ running
  /\ orphan' = orphan \cup {i \in INO : disk[i].type # "free" /\ disk[i].nlink = 0}
  /\ icache' = booted([i \in INO |-> NoMemInode])
  /\ file' = [f \in 1..NFILE |-> [ref |-> 0, ip |-> 0]]
  /\ ofile' = [p \in Proc |-> [d \in 1..NOFILE |-> 0]]
  /\ cwd' = [p \in Proc |-> IF p = initproc THEN ROOTINO ELSE 0]
  /\ th' = [p \in Proc |-> NoThread]
  /\ UNCHANGED <<disk, panicked, stale>>

Next ==
  \/ \E p \in Proc :
       \/ iunlockput(p) \/ iput(p) \/ iput_free(p) \/ iput_unlock(p) \/ iput_dec(p)
       \/ sys_call(p) \/ namex(p) \/ namex_end(p)
       \/ sys_link(p) \/ link_dp(p) \/ link_bad(p)
       \/ sys_unlink(p) \/ unlink_ip(p) \/ unlink_done(p)
       \/ create(p) \/ create_found(p) \/ ialloc(p) \/ ialloc_iget(p) \/ create_ip(p)
       \/ sys_open(p) \/ open_file(p) \/ sys_chdir(p) \/ chdir_set(p)
       \/ sys_dup(p) \/ sys_close(p) \/ filestat(p)
       \/ exit(p) \/ exit_done(p)
       \/ \E q \in Proc : fork(p, q)
  \/ crash

Spec == Init /\ [][Next]_vars

-----------------------------------------------------------------------------
(* Properties *)

Count(S) == Cardinality(S)

\* The references to inode i that memory holds.
Refs(i) ==
  Count({f \in DOMAIN file : file[f].ref > 0 /\ file[f].ip = i})
  + Count({p \in Proc : cwd[p] = i /\ "chdir_set" \notin {th[p].pc, th[p].r}
                                   /\ "exit_done" \notin {th[p].pc, th[p].r}})
  + Count({p \in Proc : th[p].cur = i})
  + Count({p \in Proc : th[p].dp = i})
  + Count({p \in Proc : th[p].ip = i /\ th[p].pc # "create_iget"})
  + Count({p \in Proc : th[p].put # <<>> /\ th[p].put[1][2] = i})
  + Count({p \in Proc : Len(th[p].put) = 2 /\ th[p].put[2][2] = i})

\* Every reference is counted once: an inode's ref is the number of open
\* files, working directories and kernel threads that point to it, and an
\* open file's ref the number of descriptors.
RefsExact ==
  /\ TypeOK
  /\ \A i \in INO : icache[i].ref = Refs(i)
  /\ \A f \in DOMAIN file :
       file[f].ref = Count({x \in Proc \X (1..NOFILE) : ofile[x[1]][x[2]] = f})

\* The comment in iput(): with ref = 1 "this acquiresleep() won't block".
IputNeverBlocks ==
  \A p \in Proc : th[p].pc = "put" =>
    LET i == Head(th[p].put)[2] IN
    Head(th[p].put)[1] = "put" /\ Last(i) => icache[i].lock = None

\* The counts are right, and with them two things that depend on them: iput()
\* never blocks, and ilock() never meets an inode that the cache has given up.
RefsRight == RefsExact /\ IputNeverBlocks /\ panicked # "ilock"

\* Between transactions nlink is the number of entries that name an inode,
\* plus the ".." of the directories in it (the root has one more), and at no
\* time is it negative.  The exceptions are inodes that were linked in a removed
\* directory, see link_in, and all of them once a ".." led to an inode that was
\* gone, see namex.
LinksExact == ~stale =>
  /\ \A i \in INO : disk[i].nlink >= 0 /\ icache[i].nlink >= 0
  /\ Quiescent => \A i \in INO \ orphan :
    disk[i].type # "free" =>
      disk[i].nlink =
        Count({x \in INO \X Name : disk[x[1]].type = "dir" /\ disk[x[1]].ents[x[2]] = i})
        + Count({n \in Name : disk[i].ents[n] # 0 /\ disk[disk[i].ents[n]].type = "dir"})
        + (IF i = ROOTINO THEN 1 ELSE 0)

\* A path leads from the root to i.
Reachable(i) ==
  \A S \in SUBSET INO :
    /\ ROOTINO \in S
    /\ \A d \in S, n \in Name : disk[d].ents[n] # 0 => disk[d].ents[n] \in S
    => i \in S

\* No inode is lost: between transactions an allocated inode that nothing in
\* memory refers to can be reached from the root, and no entry of a directory
\* that can be reached names a free inode.  The exceptions are an inode that
\* was unlinked and still open at a crash; one linked in a directory that had
\* been removed (create() and sys_link() do not look at dp->nlink); one that
\* was allocated and unlinked again between the releasesleep() and the ref-- of
\* an iput() that freed it, which needs no crash, although iput() is to "free
\* the inode" with the last reference; and all of them once a ".." led to an
\* inode that was gone, see namex.
NoLostInode ==
  Quiescent /\ ~stale => \A i \in INO :
    /\ disk[i].type # "free" /\ icache[i].ref = 0 => Reachable(i) \/ i \in orphan
    /\ Reachable(i) => disk[i].type # "free"

\* The inode that p locks next, 0 for none.
Waits(p) ==
  LET t == th[p] IN
  CASE t.pc = "namex" /\ t.path # <<>> -> t.cur
    [] t.pc \in {"link_dp", "unlink_dp", "create_dp"} -> t.dp
    [] t.pc \in {"link_ip", "link_bad", "unlink_ip", "create_found", "create_ip", "open_ip",
                 "chdir_ip"} -> t.ip
    [] OTHER -> 0

\* Inode locks are taken from parent to child, so no set of processes waits
\* for itself (and no process for a lock it holds).
NoLockCycle ==
  \A S \in SUBSET Proc \ {{}} :
    \E p \in S : Waits(p) = 0 \/ icache[Waits(p)].lock \notin S

\* The kernel panics only when the disk is out of inodes, when the inode cache
\* is full, and after a ".." of a removed directory led to an inode that was
\* gone ("ilock: no type" in namex(), and what follows from the wrong counts).
NoPanic == panicked \in {"", "ialloc: no inodes", "iget: no inodes"} \/ stale

\* No call of the file system stops the kernel: the inode locks close no
\* circle, and nothing panics but for the three causes NoPanic names.
CallsGoOn == NoLockCycle /\ NoPanic

=============================================================================
