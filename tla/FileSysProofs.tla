--------------------------- MODULE FileSysProofs ---------------------------
(***************************************************************************)
(* Proofs about inodes and open files, for any number of processes, inodes *)
(* and files, any calls, any paths and any crashes: the reference counts   *)
(* are exact, iput() never blocks, and ilock() never meets an inode that   *)
(* the cache has given up.                                                 *)
(***************************************************************************)
EXTENDS FileSys, FiniteSetTheorems, WellFoundedInduction, TLAPS

-----------------------------------------------------------------------------
(* The inductive invariant *)

\* Where an iput() is under way, and where a thread is or will be after the
\* iput()s it still has to do.
Putting == {"put", "put_free", "put_valid", "put_dec"}
Where(t) == IF t.pc \in Putting THEN t.r ELSE t.pc

\* Where a call has a reference in dp, in ip, or in both.
WithDp == {"unlink_dp", "create_dp", "create_ialloc", "link_dp", "unlink_ip", "create_iget", "create_ip"}
WithIp == {"link_ip", "open_ip", "chdir_ip", "link_bad", "unlink_done", "create_found", "open_file",
           "chdir_set", "link_dp", "unlink_ip", "create_iget", "create_ip"}
Idle == {"user", "exit_files", "exit_done"}

\* What namex() was called for.
LookupOK(t) ==
  \/ ~t.par /\ t.k \in {"link_ip", "open_ip", "chdir_ip"} /\ t.kf = "user"
  \/ t.par /\ t.k = "unlink_dp" /\ t.kf = "user"
  \/ t.par /\ t.k = "create_dp" /\ t.kf = "user" /\ t.call.op \in {"open", "mkdir", "mknod"}
  \/ t.par /\ t.k = "link_dp" /\ t.kf = "link_bad"

\* The locals of a thread that is at l, or will be there.
Locals(t, l) ==
  /\ l \notin Putting
  /\ (t.cur # 0) <=> (l = "namex")
  /\ (t.dp # 0) <=> (l \in WithDp)
  /\ (t.ip # 0) <=> (l \in WithIp \/ (l = "namex" /\ t.k = "link_dp"))
  /\ l \in WithDp => Len(t.path) = 1
  /\ l = "namex" => LookupOK(t)
  /\ l \in {"create_dp", "create_ialloc", "create_iget", "create_ip"} =>
       t.call.op \in {"open", "mkdir", "mknod"}
  /\ l \notin Idle => t.call # None

\* The inodes that a thread is about to put.
PutsOK(t) ==
  IF t.pc \in Putting
  THEN Len(t.put) \in {1, 2} /\ t.r # "create_iget" /\ (t.pc # "put" => t.put[1][1] = "put")
  ELSE t.put = <<>> /\ t.r = "user"

ThreadOK(t) == Locals(t, Where(t)) /\ PutsOK(t) /\ (t.pc = "user" => t = NoThread)

\* A slot without a process, and an exiting process, have no files.
ExitOK(p) ==
  /\ cwd[p] = 0 => th[p] = NoThread
  /\ cwd[p] = 0 \/ Where(th[p]) = "exit_done" => \A d \in 1..NOFILE : ofile[p][d] = 0

\* Thread t has inode i locked, and keeps a reference to it for as long.
LockedBy(t, i) ==
  \/ t.pc \in {"unlink_ip", "create_ialloc", "create_iget", "create_ip"} /\ t.dp = i
  \/ Where(t) \in {"unlink_done", "open_file"} /\ t.ip = i
  \/ \E j \in 1..Len(t.put) : t.put[j] = unlockput(i)
  \/ t.pc \in {"put_free", "put_valid"} /\ t.put[1][2] = i

Inv ==
  /\ RefsExact
  /\ panicked # "ilock"
  /\ \A p \in Proc : ThreadOK(th[p]) /\ ExitOK(p)
  /\ \A f \in 1..NFILE : file[f].ref > 0 => file[f].ip # 0
  /\ \A i \in INO : icache[i].lock # None => LockedBy(th[icache[i].lock], i)

\* The references that a thread and a working directory c hold to inode i.
B(b) == IF b THEN 1 ELSE 0
One(j, i) == IF j = i THEN 1 ELSE 0
OnCwd(t) == "chdir_set" \notin {t.pc, t.r} /\ "exit_done" \notin {t.pc, t.r}
Own1(t, c, i) == B(c = i /\ OnCwd(t))
Own2(t, i) == B(t.cur = i)
Own3(t, i) == B(t.dp = i)
Own4(t, i) == B(t.ip = i /\ t.pc # "create_iget")
Own5(t, i) == B(t.put # <<>> /\ t.put[1][2] = i)
Own6(t, i) == B(Len(t.put) = 2 /\ t.put[2][2] = i)
Own(t, c, i) == Own1(t, c, i) + Own2(t, i) + Own3(t, i) + Own4(t, i) + Own5(t, i) + Own6(t, i)
Only(p) == \A q \in Proc \ {p} : th'[q] = th[q] /\ cwd'[q] = cwd[q]
Files == DOMAIN file = 1..NFILE
FileRefs(i) == {f \in DOMAIN file : file[f].ref > 0 /\ file[f].ip = i}

-----------------------------------------------------------------------------
(* Counting *)

\* A set that changes at one element grows or shrinks by it.
LEMMA ChangeOne ==
  ASSUME NEW A, IsFiniteSet(A), NEW S \in SUBSET A, NEW T \in SUBSET A, NEW x, S \ {x} = T \ {x}
  PROVE  /\ Cardinality(S) \in Nat /\ Cardinality(T) \in Nat
         /\ Cardinality(T) = Cardinality(S) + B(x \in T) - B(x \in S)
<1>1. IsFiniteSet(S) /\ IsFiniteSet(T)
  BY FS_Subset
<1>2. Cardinality(S) \in Nat /\ Cardinality(T) \in Nat
  BY <1>1, FS_CardinalityType
<1>3. /\ Cardinality(S \ {x}) = IF x \in S THEN Cardinality(S) - 1 ELSE Cardinality(S)
      /\ Cardinality(T \ {x}) = IF x \in T THEN Cardinality(T) - 1 ELSE Cardinality(T)
  BY <1>1, FS_RemoveElement
<1> QED BY <1>2, <1>3 DEF B

\* A set has at least the elements that one knows.
LEMMA AtLeastTwo ==
  ASSUME NEW A, IsFiniteSet(A), NEW S \in SUBSET A, NEW x, NEW y
  PROVE  /\ Cardinality(S) \in Nat
         /\ Cardinality(S) >= B(x \in S)
         /\ x # y => Cardinality(S) >= B(x \in S) + B(y \in S)
<1>1. IsFiniteSet(S) /\ IsFiniteSet(S \ {x}) /\ IsFiniteSet((S \ {x}) \ {y})
  BY FS_Subset
<1>2. /\ Cardinality(S) \in Nat /\ Cardinality(S \ {x}) \in Nat
      /\ Cardinality((S \ {x}) \ {y}) \in Nat
  BY <1>1, FS_CardinalityType
<1>3. Cardinality(S \ {x}) = IF x \in S THEN Cardinality(S) - 1 ELSE Cardinality(S)
  BY <1>1, FS_RemoveElement
<1>4. Cardinality((S \ {x}) \ {y}) =
        IF y \in S \ {x} THEN Cardinality(S \ {x}) - 1 ELSE Cardinality(S \ {x})
  BY <1>1, FS_RemoveElement
<1> QED BY <1>2, <1>3, <1>4 DEF B

\* They are numbers.
Owns(t, c, i) ==
  /\ Own1(t, c, i) \in Nat /\ Own2(t, i) \in Nat /\ Own3(t, i) \in Nat
  /\ Own4(t, i) \in Nat /\ Own5(t, i) \in Nat /\ Own6(t, i) \in Nat
LEMMA OwnsInt == \A t, c, i : Owns(t, c, i)
BY DEF Owns, Own1, Own2, Own3, Own4, Own5, Own6, B

\* There are finitely many processes, files and descriptors.
LEMMA Finite ==
  /\ IsFiniteSet(Proc) /\ IsFiniteSet(1..NFILE) /\ IsFiniteSet(1..NOFILE)
  /\ {NINO, NFILE, NOFILE} \subseteq Nat \ {0} /\ ROOTINO \in INO /\ 0 \notin INO
<1>1. {NINO, NFILE, NOFILE} \subseteq Nat \ {0} /\ IsFiniteSet(Proc)
  BY FileSysConstants
<1>2. IsFiniteSet(1..NFILE) /\ IsFiniteSet(1..NOFILE)
  BY <1>1, FS_Interval
<1> QED BY <1>1, <1>2 DEF ROOTINO, INO

\* When one process changes its pointers, the references change by its own.
LEMMA RefsStep ==
  ASSUME NEW p \in Proc, Only(p), NEW i \in INO, Files, Files'
  PROVE  /\ Refs(i) \in Nat /\ Refs(i)' \in Nat
         /\ Cardinality(FileRefs(i)) \in Nat /\ Cardinality(FileRefs(i))' \in Nat
         /\ Refs(i)' = Refs(i) + Cardinality(FileRefs(i))' - Cardinality(FileRefs(i))
                       + Own(th'[p], cwd'[p], i) - Own(th[p], cwd[p], i)
<1> DEFINE C == {q \in Proc : cwd[q] = i /\ OnCwd(th[q])}
           U == {q \in Proc : th[q].cur = i}
           D == {q \in Proc : th[q].dp = i}
           I == {q \in Proc : th[q].ip = i /\ th[q].pc # "create_iget"}
           J == {q \in Proc : th[q].put # <<>> /\ th[q].put[1][2] = i}
           K == {q \in Proc : Len(th[q].put) = 2 /\ th[q].put[2][2] = i}
           F == Cardinality(FileRefs(i))
           Card(S) == Cardinality(S)
<1>1. IsFiniteSet(Proc) /\ IsFiniteSet(1..NFILE)
  BY Finite
<1>2. F \in Nat /\ F' \in Nat
  BY <1>1, FS_Subset, FS_CardinalityType DEF FileRefs, Files
<1>3. /\ Card(C) \in Nat /\ Card(C') \in Nat
      /\ Card(C') = Card(C) + Own1(th'[p], cwd'[p], i) - Own1(th[p], cwd[p], i)
  <2>1. C \in SUBSET Proc /\ C' \in SUBSET Proc /\ C \ {p} = C' \ {p}
    BY DEF OnCwd, Only
  <2>2. (p \in C <=> (cwd[p] = i /\ OnCwd(th[p]))) /\ (p \in C' <=> (cwd'[p] = i /\ OnCwd(th'[p])))
    BY DEF OnCwd
  <2> HIDE DEF C
  <2>3. Card(C) \in Nat /\ Card(C') \in Nat /\ Card(C') = Card(C) + B(p \in C') - B(p \in C)
    BY <2>1, <1>1, ChangeOne
  <2> QED BY <2>2, <2>3 DEF B, Own1
<1>4. /\ Card(U) \in Nat /\ Card(U') \in Nat
      /\ Card(U') = Card(U) + Own2(th'[p], i) - Own2(th[p], i)
  <2>1. U \in SUBSET Proc /\ U' \in SUBSET Proc /\ U \ {p} = U' \ {p}
    BY DEF Only
  <2>2. (p \in U <=> th[p].cur = i) /\ (p \in U' <=> th'[p].cur = i)
    OBVIOUS
  <2> HIDE DEF U
  <2>3. Card(U) \in Nat /\ Card(U') \in Nat /\ Card(U') = Card(U) + B(p \in U') - B(p \in U)
    BY <2>1, <1>1, ChangeOne
  <2> QED BY <2>2, <2>3 DEF B, Own2
<1>5. /\ Card(D) \in Nat /\ Card(D') \in Nat
      /\ Card(D') = Card(D) + Own3(th'[p], i) - Own3(th[p], i)
  <2>1. D \in SUBSET Proc /\ D' \in SUBSET Proc /\ D \ {p} = D' \ {p}
    BY DEF Only
  <2>2. (p \in D <=> th[p].dp = i) /\ (p \in D' <=> th'[p].dp = i)
    OBVIOUS
  <2> HIDE DEF D
  <2>3. Card(D) \in Nat /\ Card(D') \in Nat /\ Card(D') = Card(D) + B(p \in D') - B(p \in D)
    BY <2>1, <1>1, ChangeOne
  <2> QED BY <2>2, <2>3 DEF B, Own3
<1>6. /\ Card(I) \in Nat /\ Card(I') \in Nat
      /\ Card(I') = Card(I) + Own4(th'[p], i) - Own4(th[p], i)
  <2>1. I \in SUBSET Proc /\ I' \in SUBSET Proc /\ I \ {p} = I' \ {p}
    BY DEF Only
  <2>2. /\ p \in I <=> (th[p].ip = i /\ th[p].pc # "create_iget")
        /\ p \in I' <=> (th'[p].ip = i /\ th'[p].pc # "create_iget")
    OBVIOUS
  <2> HIDE DEF I
  <2>3. Card(I) \in Nat /\ Card(I') \in Nat /\ Card(I') = Card(I) + B(p \in I') - B(p \in I)
    BY <2>1, <1>1, ChangeOne
  <2> QED BY <2>2, <2>3 DEF B, Own4
<1>7. /\ Card(J) \in Nat /\ Card(J') \in Nat
      /\ Card(J') = Card(J) + Own5(th'[p], i) - Own5(th[p], i)
  <2>1. J \in SUBSET Proc /\ J' \in SUBSET Proc /\ J \ {p} = J' \ {p}
    BY DEF Only
  <2>2. /\ p \in J <=> (th[p].put # <<>> /\ th[p].put[1][2] = i)
        /\ p \in J' <=> (th'[p].put # <<>> /\ th'[p].put[1][2] = i)
    OBVIOUS
  <2> HIDE DEF J
  <2>3. Card(J) \in Nat /\ Card(J') \in Nat /\ Card(J') = Card(J) + B(p \in J') - B(p \in J)
    BY <2>1, <1>1, ChangeOne
  <2> QED BY <2>2, <2>3 DEF B, Own5
<1>8. /\ Card(K) \in Nat /\ Card(K') \in Nat
      /\ Card(K') = Card(K) + Own6(th'[p], i) - Own6(th[p], i)
  <2>1. K \in SUBSET Proc /\ K' \in SUBSET Proc /\ K \ {p} = K' \ {p}
    BY DEF Only
  <2>2. /\ p \in K <=> (Len(th[p].put) = 2 /\ th[p].put[2][2] = i)
        /\ p \in K' <=> (Len(th'[p].put) = 2 /\ th'[p].put[2][2] = i)
    OBVIOUS
  <2> HIDE DEF K
  <2>3. Card(K) \in Nat /\ Card(K') \in Nat /\ Card(K') = Card(K) + B(p \in K') - B(p \in K)
    BY <2>1, <1>1, ChangeOne
  <2> QED BY <2>2, <2>3 DEF B, Own6
<1>9. /\ Refs(i) = F + Card(C) + Card(U) + Card(D) + Card(I) + Card(J) + Card(K)
      /\ Refs(i)' = F' + Card(C') + Card(U') + Card(D') + Card(I') + Card(J') + Card(K')
  BY DEF Refs, Count, FileRefs, OnCwd
<1> HIDE DEF C, U, D, I, J, K, F
<1>10. Owns(th[p], cwd[p], i) /\ Owns(th'[p], cwd'[p], i)
  BY OwnsInt
<1> QED BY <1>2, <1>3, <1>4, <1>5, <1>6, <1>7, <1>8, <1>9, <1>10 DEF Own, Owns, F

\* The threads of two processes have different references.
LEMMA RefsAtLeast ==
  ASSUME NEW p \in Proc, NEW q \in Proc, NEW i \in INO, Files
  PROVE  /\ Refs(i) \in Nat
         /\ Refs(i) >= Own(th[p], cwd[p], i)
         /\ p # q => Refs(i) >= Own(th[p], cwd[p], i) + Own(th[q], cwd[q], i)
         /\ \A f \in FileRefs(i) : Refs(i) >= 1
<1> DEFINE C == {x \in Proc : cwd[x] = i /\ OnCwd(th[x])}
           U == {x \in Proc : th[x].cur = i}
           D == {x \in Proc : th[x].dp = i}
           I == {x \in Proc : th[x].ip = i /\ th[x].pc # "create_iget"}
           J == {x \in Proc : th[x].put # <<>> /\ th[x].put[1][2] = i}
           K == {x \in Proc : Len(th[x].put) = 2 /\ th[x].put[2][2] = i}
           F == FileRefs(i)
           Card(S) == Cardinality(S)
           Two(S) == /\ Card(S) \in Nat /\ Card(S) >= B(p \in S)
                     /\ p # q => Card(S) >= B(p \in S) + B(q \in S)
<1>1. IsFiniteSet(Proc) /\ IsFiniteSet(1..NFILE)
  BY Finite
<1>2. Card(F) \in Nat /\ \A f \in F : Card(F) >= 1
  <2>1. F \in SUBSET (1..NFILE)
    BY DEF FileRefs, Files
  <2>2. Card(F) \in Nat /\ \A f \in F : Card(F) >= B(f \in F)
    BY <2>1, <1>1, AtLeastTwo
  <2> QED BY <2>2 DEF B
<1>3. \A S \in SUBSET Proc : Two(S)
  BY <1>1, AtLeastTwo
<1>4. Refs(i) = Card(F) + Card(C) + Card(U) + Card(D) + Card(I) + Card(J) + Card(K)
  BY DEF Refs, Count, FileRefs, OnCwd
<1> DEFINE Enough(S, m, n) == Card(S) \in Nat /\ Card(S) >= m /\ (p # q => Card(S) >= m + n)
<1>5. Enough(C, Own1(th[p], cwd[p], i), Own1(th[q], cwd[q], i))
  BY <1>3 DEF Own1, B
<1>6. Enough(U, Own2(th[p], i), Own2(th[q], i))
  BY <1>3 DEF Own2, B
<1>7. Enough(D, Own3(th[p], i), Own3(th[q], i))
  BY <1>3 DEF Own3, B
<1>8. Enough(I, Own4(th[p], i), Own4(th[q], i))
  BY <1>3 DEF Own4, B
<1>9. Enough(J, Own5(th[p], i), Own5(th[q], i))
  BY <1>3 DEF Own5, B
<1>10. Enough(K, Own6(th[p], i), Own6(th[q], i))
  BY <1>3 DEF Own6, B
<1>11. Owns(th[p], cwd[p], i) /\ Owns(th[q], cwd[q], i)
  BY OwnsInt
<1> HIDE DEF C, U, D, I, J, K
<1> QED BY <1>2, <1>4, <1>5, <1>6, <1>7, <1>8, <1>9, <1>10, <1>11 DEF Own, Owns

-----------------------------------------------------------------------------
(* Steps of one thread *)

Disks == [INO -> [type : Types, nlink : Int, ents : [Elem -> INO \cup {0}]]]
Caches == [INO -> [ref : Int, valid : BOOLEAN, type : Types, nlink : Int, lock : Proc \cup {None}]]
Counting(c) == \A i \in INO : c[i].ref \in Nat

\* Process p may be at u, and its new references and locks are its own.
Stays(p, u) ==
  /\ cwd[p] = 0 => u = NoThread
  /\ Where(u) = "exit_done" => \A d \in 1..NOFILE : ofile[p][d] = 0
Counted(p, u) ==
  \A i \in INO : icache'[i].ref = icache[i].ref + Own(u, cwd[p], i) - Own(th[p], cwd[p], i)
Locking(p, u) ==
  \A i \in INO : icache'[i].lock # None =>
    icache'[i].lock \in {icache[i].lock, p} /\ (icache'[i].lock = p => LockedBy(u, i))

\* What the invariant says of process p.
State(p) ==
  /\ th[p] \in Thread /\ ThreadOK(th[p]) /\ ExitOK(p)
  /\ disk \in Disks /\ icache \in Caches /\ Counting(icache)
  /\ cwd[p] \in INO \cup {0} /\ orphan \subseteq INO /\ stale \in BOOLEAN
  /\ \A i \in INO : icache[i].lock = p => LockedBy(th[p], i)

LEMMA Known ==
  ASSUME Inv, NEW p \in Proc
  PROVE  State(p)
<1>1. p # None
  BY FileSysConstants
<1> QED BY <1>1 DEF Inv, RefsExact, TypeOK, Disks, Caches, Counting, State

\* A step of one thread: what is left to show of an action.
LEMMA ThreadStep ==
  ASSUME Inv, NEW p \in Proc, NEW u \in Thread, th' = [th EXCEPT ![p] = u],
         UNCHANGED <<file, ofile, cwd, panicked>>,
         disk' \in Disks, icache' \in Caches, orphan' \subseteq INO, stale' \in BOOLEAN,
         ThreadOK(u), Stays(p, u), Counted(p, u), Locking(p, u)
  PROVE  Inv'
<1>1. TypeOK
  BY DEF Inv, RefsExact
<1>2. Only(p) /\ Files /\ Files' /\ th'[p] = u /\ cwd'[p] = cwd[p]
  BY <1>1 DEF TypeOK, Only, Files
<1>3. \A i \in INO : /\ Refs(i)' = Refs(i) + Own(u, cwd[p], i) - Own(th[p], cwd[p], i)
                     /\ Refs(i)' \in Nat
  <2> SUFFICES ASSUME NEW i \in INO
               PROVE  /\ Refs(i)' = Refs(i) + Own(u, cwd[p], i) - Own(th[p], cwd[p], i)
                      /\ Refs(i)' \in Nat
    OBVIOUS
  <2>1. Cardinality(FileRefs(i))' = Cardinality(FileRefs(i))
    BY DEF FileRefs
  <2>2. /\ Refs(i) \in Nat /\ Refs(i)' \in Nat
        /\ Cardinality(FileRefs(i)) \in Nat /\ Cardinality(FileRefs(i))' \in Nat
        /\ Refs(i)' = Refs(i) + Cardinality(FileRefs(i))' - Cardinality(FileRefs(i))
                      + Own(th'[p], cwd'[p], i) - Own(th[p], cwd[p], i)
    BY <1>2, RefsStep
  <2>3. Owns(u, cwd[p], i) /\ Owns(th[p], cwd[p], i)
    BY OwnsInt
  <2>4. Own(u, cwd[p], i) \in Int /\ Own(th[p], cwd[p], i) \in Int
    BY <2>3 DEF Own, Owns
  <2> QED BY <2>1, <2>2, <2>4, <1>2
<1>4. \A i \in INO : icache'[i].ref = Refs(i)' /\ icache'[i].ref \in Nat
  BY <1>3 DEF Counted, Inv, RefsExact
<1>5. TypeOK'
  <2>1. icache' \in [INO -> [ref : Nat, valid : BOOLEAN, type : Types, nlink : Int,
                             lock : Proc \cup {None}]]
    BY <1>4 DEF Caches
  <2>2. th' \in [Proc -> Thread]
    BY <1>1 DEF TypeOK
  <2> QED BY <1>1, <2>1, <2>2 DEF TypeOK, Disks
<1>6. RefsExact'
  BY <1>4, <1>5 DEF Inv, RefsExact, Count
<1>7. \A q \in Proc : ThreadOK(th[q])' /\ ExitOK(q)'
  <2>1. \A q \in Proc : ThreadOK(th'[q])
    BY <1>1 DEF Inv, TypeOK
  <2>2. \A q \in Proc : ExitOK(q)'
    BY <1>1 DEF Inv, TypeOK, ExitOK, Stays
  <2>3. \A q \in Proc : ThreadOK(th[q])'
    BY <2>1 DEF ThreadOK, Locals, PutsOK, LookupOK, Where
  <2> QED BY <2>2, <2>3
<1>8. \A i \in INO : icache'[i].lock # None => LockedBy(th'[icache'[i].lock], i)
  <2> SUFFICES ASSUME NEW i \in INO, icache'[i].lock # None
               PROVE  LockedBy(th'[icache'[i].lock], i)
    OBVIOUS
  <2>1. icache'[i].lock \in Proc
    BY DEF Caches
  <2>2. CASE icache'[i].lock = p
    BY <2>2, <1>2 DEF Locking
  <2>3. CASE icache'[i].lock # p
    <3>1. icache'[i].lock = icache[i].lock
      BY <2>3 DEF Locking
    <3>2. th'[icache'[i].lock] = th[icache[i].lock]
      BY <3>1, <2>1, <2>3, <1>1 DEF TypeOK
    <3>3. LockedBy(th[icache[i].lock], i)
      BY <3>1 DEF Inv
    <3> QED BY <3>2, <3>3
  <2> QED BY <2>2, <2>3
<1>9. (\A i \in INO : icache[i].lock # None => LockedBy(th[icache[i].lock], i))'
  BY <1>8 DEF LockedBy, Where
<1>10. (\A f \in 1..NFILE : file[f].ref > 0 => file[f].ip # 0)' /\ panicked' # "ilock"
  BY DEF Inv
<1> QED BY <1>6, <1>7, <1>9, <1>10 DEF Inv

LEMMA PanicStep ==
  ASSUME Inv, NEW msg, Panic(msg), msg # "ilock"
  PROVE  Inv'
<1>1. UNCHANGED <<disk, icache, file, ofile, cwd, th, orphan, stale>> /\ panicked' # "ilock"
  BY DEF Panic
<1>2. RefsExact'
  <2>1. \A i : Refs(i)' = Refs(i)
    BY <1>1 DEF Refs
  <2>2. TypeOK'
    BY <1>1 DEF Inv, RefsExact, TypeOK
  <2> QED BY <1>1, <2>1, <2>2 DEF Inv, RefsExact
<1>3. \A q \in Proc : ThreadOK(th[q])' /\ ExitOK(q)'
  BY <1>1 DEF Inv, ThreadOK, ExitOK, Locals, PutsOK, LookupOK, Where
<1>4. (\A i \in INO : icache[i].lock # None => LockedBy(th[icache[i].lock], i))'
  BY <1>1 DEF Inv, LockedBy, Where
<1>5. (\A f \in 1..NFILE : file[f].ref > 0 => file[f].ip # 0)'
  BY <1>1 DEF Inv
<1> QED BY <1>1, <1>2, <1>3, <1>4, <1>5 DEF Inv

\* An inode that a thread points to, or an open file, is in the cache.
LEMMA InCache ==
  ASSUME Inv, NEW p \in Proc, NEW i \in INO,
         \/ th[p].cur = i \/ th[p].dp = i \/ (th[p].ip = i /\ th[p].pc # "create_iget")
         \/ \E f \in 1..NFILE : file[f].ref > 0 /\ file[f].ip = i
  PROVE  icache[i].ref >= 1 /\ lock_panic(i) # "ilock"
<1>1. Files /\ icache[i].ref = Refs(i)
  BY DEF Inv, RefsExact, TypeOK, Files
<1>2. /\ Refs(i) \in Nat /\ Refs(i) >= Own(th[p], cwd[p], i) /\ \A f \in FileRefs(i) : Refs(i) >= 1
  BY <1>1, RefsAtLeast
<1>3. Owns(th[p], cwd[p], i)
  BY OwnsInt
<1>4. Refs(i) >= 1
  <2>1. CASE \E f \in 1..NFILE : file[f].ref > 0 /\ file[f].ip = i
    BY <2>1, <1>1, <1>2 DEF FileRefs, Files
  <2>2. CASE th[p].cur = i
    <3>1. Own2(th[p], i) = 1
      BY <2>2 DEF Own2, B, One
    <3> QED BY <3>1, <1>2, <1>3 DEF Own, Owns
  <2>3. CASE th[p].dp = i
    <3>1. Own3(th[p], i) = 1
      BY <2>3 DEF Own3, B, One
    <3> QED BY <3>1, <1>2, <1>3 DEF Own, Owns
  <2>4. CASE th[p].ip = i /\ th[p].pc # "create_iget"
    <3>1. Own4(th[p], i) = 1
      BY <2>4 DEF Own4, B, One
    <3> QED BY <3>1, <1>2, <1>3 DEF Own, Owns
  <2> QED BY <2>1, <2>2, <2>3, <2>4
<1> QED BY <1>1, <1>2, <1>4 DEF lock_panic

\* What iget() and ilock() do to the cache.
LEMMA IgetOK ==
  ASSUME NEW c \in Caches, Counting(c), NEW i \in INO
  PROVE  /\ iget(c, i) \in Caches /\ Counting(iget(c, i))
         /\ \A j \in INO : /\ iget(c, i)[j].ref = c[j].ref + One(j, i)
                           /\ iget(c, i)[j].lock \in {c[j].lock, None}
<1>1. CASE c[i].ref > 0
  <2>1. iget(c, i) = [c EXCEPT ![i].ref = @ + 1]
    BY <1>1 DEF iget
  <2> QED BY <2>1 DEF Caches, Counting, B, One
<1>2. CASE ~(c[i].ref > 0)
  <2>1. iget(c, i) = [c EXCEPT ![i] = [NoMemInode EXCEPT !.ref = 1]] /\ c[i].ref = 0
    BY <1>2 DEF iget, Counting
  <2>2. [NoMemInode EXCEPT !.ref = 1] \in
          [ref : Int, valid : BOOLEAN, type : Types, nlink : Int, lock : Proc \cup {None}]
    <3>1. NoMemInode \in
            [ref : Int, valid : BOOLEAN, type : Types, nlink : Int, lock : Proc \cup {None}]
      BY DEF NoMemInode, Types
    <3> QED BY <3>1
  <2>3. iget(c, i) \in Caches
    BY <2>1, <2>2 DEF Caches
  <2>4. iget(c, i)[i].ref = 1 /\ iget(c, i)[i].lock = None
    BY <2>1 DEF Caches, NoMemInode
  <2>5. \A j \in INO \ {i} : iget(c, i)[j] = c[j]
    BY <2>1 DEF Caches
  <2> QED BY <2>1, <2>3, <2>4, <2>5 DEF B, One, Counting
<1> QED BY <1>1, <1>2

LEMMA LoadedOK ==
  ASSUME NEW c \in Caches, disk \in Disks, NEW i \in INO
  PROVE  /\ loaded(c, i) \in Caches
         /\ \A j \in INO : loaded(c, i)[j].ref = c[j].ref /\ loaded(c, i)[j].lock = c[j].lock
<1>1. CASE c[i].valid
  BY <1>1 DEF loaded
<1>2. CASE ~c[i].valid
  <2> DEFINE a == disk[i].type
             n == disk[i].nlink
  <2>1. a \in Types /\ n \in Int
    BY DEF Disks
  <2>2. loaded(c, i) = [c EXCEPT ![i].valid = TRUE, ![i].type = a, ![i].nlink = n]
    BY <1>2 DEF loaded
  <2> DEFINE v == [c EXCEPT ![i].valid = TRUE]
             w == [v EXCEPT ![i].type = a]
  <2>3. loaded(c, i) = [w EXCEPT ![i].nlink = n]
    BY <2>2, Zenon
  <2> HIDE DEF a, n
  <2>4. v \in Caches /\ \A j \in INO : v[j].ref = c[j].ref /\ v[j].lock = c[j].lock
    BY DEF Caches
  <2> HIDE DEF v
  <2>5. w \in Caches /\ \A j \in INO : w[j].ref = v[j].ref /\ w[j].lock = v[j].lock
    BY <2>1, <2>4 DEF Caches
  <2> HIDE DEF w
  <2> QED BY <2>1, <2>3, <2>4, <2>5 DEF Caches
<1> QED BY <1>1, <1>2

\* The pending iput()s are one or two.
LEMMA Pending ==
  ASSUME NEW S, NEW s \in Seq(S), NEW x \in S, Len(s) \in {1, 2}
  PROVE  /\ Head(s) = s[1] /\ s[1] \in S /\ Tail(s) \in Seq(S) /\ Len(Tail(s)) = Len(s) - 1
         /\ s # <<>> /\ (Len(s) = 2 => Tail(s)[1] = s[2] /\ Tail(s) # <<>>)
         /\ <<x>> \o Tail(s) \in Seq(S) /\ Len(<<x>> \o Tail(s)) = Len(s)
         /\ (<<x>> \o Tail(s))[1] = x /\ <<x>> \o Tail(s) # <<>>
         /\ Len(s) = 2 => (<<x>> \o Tail(s))[2] = s[2]
OBVIOUS

LEMMA OwnInt == \A t, c, i : Own(t, c, i) \in Nat
BY OwnsInt DEF Owns, Own

\* The references of a thread change as those in the cache do: not at all, by one
\* more, or by one less.
LEMMA CountedSame ==
  ASSUME NEW p, NEW u, icache \in Caches,
         \A j \in INO : icache'[j].ref = icache[j].ref,
         \A j \in INO : Own(u, cwd[p], j) = Own(th[p], cwd[p], j)
  PROVE  Counted(p, u)
<1> SUFFICES ASSUME NEW j \in INO
             PROVE  icache'[j].ref = icache[j].ref + Own(u, cwd[p], j) - Own(th[p], cwd[p], j)
  BY DEF Counted
<1>1. icache[j].ref \in Int
  BY DEF Caches
<1>2. Own(u, cwd[p], j) \in Nat /\ Own(th[p], cwd[p], j) \in Nat
  BY OwnInt
<1> QED BY <1>1, <1>2

LEMMA CountedMore ==
  ASSUME NEW p, NEW u, NEW a, icache \in Caches,
         \A j \in INO : icache'[j].ref = icache[j].ref + One(j, a),
         \A j \in INO : Own(u, cwd[p], j) = Own(th[p], cwd[p], j) + One(j, a)
  PROVE  Counted(p, u)
<1> SUFFICES ASSUME NEW j \in INO
             PROVE  icache'[j].ref = icache[j].ref + Own(u, cwd[p], j) - Own(th[p], cwd[p], j)
  BY DEF Counted
<1>1. icache[j].ref \in Int /\ One(j, a) \in Int
  BY DEF Caches, B, One
<1>2. Own(u, cwd[p], j) \in Nat /\ Own(th[p], cwd[p], j) \in Nat
  BY OwnInt
<1>3. /\ icache'[j].ref = icache[j].ref + One(j, a)
      /\ Own(u, cwd[p], j) = Own(th[p], cwd[p], j) + One(j, a)
  OBVIOUS
<1> QED BY <1>1, <1>2, <1>3

LEMMA CountedLess ==
  ASSUME NEW p, NEW u, NEW a, icache \in Caches,
         \A j \in INO : icache'[j].ref = icache[j].ref - One(j, a),
         \A j \in INO : Own(th[p], cwd[p], j) = Own(u, cwd[p], j) + One(j, a)
  PROVE  Counted(p, u)
<1> SUFFICES ASSUME NEW j \in INO
             PROVE  icache'[j].ref = icache[j].ref + Own(u, cwd[p], j) - Own(th[p], cwd[p], j)
  BY DEF Counted
<1>1. icache[j].ref \in Int /\ One(j, a) \in Int
  BY DEF Caches, B, One
<1>2. Own(u, cwd[p], j) \in Nat /\ Own(th[p], cwd[p], j) \in Nat
  BY OwnInt
<1>3. /\ icache'[j].ref = icache[j].ref - One(j, a)
      /\ Own(th[p], cwd[p], j) = Own(u, cwd[p], j) + One(j, a)
  OBVIOUS
<1> QED BY <1>1, <1>2, <1>3

LEMMA NoThreadOK ==
  NoThread \in Thread /\ ThreadOK(NoThread) /\ \A c, i : c # i /\ i # 0 => Own(NoThread, c, i) = 0
<1>1. NoThread \in Thread
  BY DEF NoThread, Thread, Threads
<1>2. ThreadOK(NoThread)
  BY DEF NoThread, ThreadOK, Locals, PutsOK, Where, Putting, WithDp, WithIp, Idle
<1>3. ASSUME NEW c, NEW i, c # i, i # 0 PROVE Own(NoThread, c, i) = 0
  BY <1>3 DEF Own, Own1, Own2, Own3, Own4, Own5, Own6, B, One, NoThread
<1> QED BY <1>1, <1>2, <1>3

\* iunlockput() gives the lock up and keeps the reference.
LEMMA UnlockStep == ASSUME Inv, NEW p \in Proc, iunlockput(p) PROVE Inv'
<1> DEFINE t == th[p]
           i == Head(t.put)[2]
           u == [t EXCEPT !.put = <<put(i)>> \o Tail(@)]
<1>1. State(p)
  BY Known
<1>2. /\ t.pc = "put" /\ Head(t.put)[1] = "unlockput" /\ icache' = [icache EXCEPT ![i].lock = None]
      /\ th' = [th EXCEPT ![p] = u] /\ UNCHANGED <<disk, file, ofile, cwd, panicked, orphan, stale>>
  BY DEF iunlockput, at, go
<1>3. Len(t.put) \in {1, 2} /\ t.put \in Seq({"put", "unlockput"} \X INO)
  BY <1>1, <1>2 DEF State, ThreadOK, PutsOK, Putting, Thread
<1>4. i \in INO /\ t.put[1][2] = i
  BY <1>3
<1>5. /\ u.put \in Seq({"put", "unlockput"} \X INO) /\ Len(u.put) = Len(t.put)
      /\ u.put[1] = <<"put", i>> /\ u.put # <<>> /\ t.put # <<>>
      /\ Len(t.put) = 2 => u.put[2] = t.put[2]
  <2>1. u.put = <<put(i)>> \o Tail(t.put) /\ put(i) = <<"put", i>> /\ put(i) \in {"put", "unlockput"} \X INO
    BY <1>1, <1>4 DEF State, Thread, put
  <2> HIDE DEF u, i
  <2> QED BY <2>1, <1>3, Pending
<1>6. u \in Thread
  BY <1>1, <1>5 DEF State, Thread
<1>7. ThreadOK(u)
  BY <1>1, <1>2, <1>3, <1>5 DEF State, Thread, ThreadOK, Locals, PutsOK, Where, Putting, LookupOK
<1>8. \A j : Own(u, cwd[p], j) = Own(t, cwd[p], j)
  BY <1>1, <1>4, <1>5 DEF State, Thread, Own, Own1, Own2, Own3, Own4, Own5, Own6, B, One, OnCwd
<1>9. Stays(p, u)
  BY <1>1, <1>2 DEF State, ExitOK, Stays, Where, Putting, NoThread, Thread
<1>10. icache' \in Caches /\ \A j \in INO : icache'[j].ref = icache[j].ref
  <2>1. icache \in Caches /\ i \in INO /\ icache' = [icache EXCEPT ![i].lock = None]
    BY <1>1, <1>2, <1>4 DEF State
  <2> HIDE DEF i
  <2> QED BY <2>1 DEF Caches
<1>11. Counted(p, u)
  BY <1>8, <1>10, <1>1, CountedSame DEF State
<1>12. Locking(p, u)
  <2> SUFFICES ASSUME NEW j \in INO, icache'[j].lock # None
               PROVE  icache'[j].lock = icache[j].lock /\ (icache'[j].lock = p => LockedBy(u, j))
    BY DEF Locking
  <2>1. j # i /\ icache'[j].lock = icache[j].lock
    BY <1>1, <1>2, <1>4 DEF State, Caches
  <2>2. ASSUME LockedBy(t, j) PROVE LockedBy(u, j)
    <3>1. u.pc = t.pc /\ u.r = t.r /\ u.dp = t.dp /\ u.ip = t.ip
      BY <1>1 DEF State, Thread
    <3>2. ASSUME NEW k \in 1..Len(t.put), t.put[k] = <<"unlockput", j>>
          PROVE  k \in 1..Len(u.put) /\ u.put[k] = <<"unlockput", j>>
      <4> HIDE DEF u, i
      <4>1. k = 1 \/ k = 2
        BY <3>2, <1>3
      <4>2. k # 1
        BY <3>2, <2>1, <1>4
      <4> QED BY <4>1, <4>2, <3>2, <1>3, <1>5
    <3> HIDE DEF u, i
    <3> QED BY <2>2, <3>1, <3>2, <1>2 DEF LockedBy, Where, unlockput
  <2> QED BY <2>1, <2>2, <1>1 DEF State
<1> QED
  <2> HIDE DEF u
  <2> QED BY <1>1, <1>2, <1>6, <1>7, <1>9, <1>10, <1>11, <1>12, ThreadStep DEF State

\* A thread that has done the first of its iput()s.
Pop(t) ==
  IF Len(t.put) > 1 THEN [t EXCEPT !.pc = "put", !.put = Tail(@)]
  ELSE IF t.r = "user" THEN NoThread
  ELSE [t EXCEPT !.pc = t.r, !.put = <<>>, !.r = "user"]

LEMMA PopOK ==
  ASSUME NEW p, State(p), th[p].pc \in {"put", "put_dec"}, th[p].put[1][1] = "put"
  PROVE  /\ Pop(th[p]) \in Thread /\ ThreadOK(Pop(th[p])) /\ Stays(p, Pop(th[p]))
         /\ th[p].put[1][2] \in INO /\ Head(th[p].put) = th[p].put[1]
         /\ \A j \in INO : /\ Own(th[p], cwd[p], j) = Own(Pop(th[p]), cwd[p], j) + One(j, th[p].put[1][2])
                           /\ LockedBy(th[p], j) => LockedBy(Pop(th[p]), j)
<1> DEFINE t == th[p]
           u == Pop(t)
           i == t.put[1][2]
           Pairs == {"put", "unlockput"} \X INO
           Good == /\ u \in Thread /\ ThreadOK(u) /\ Stays(p, u)
                   /\ \A j \in INO : Own(t, cwd[p], j) = Own(u, cwd[p], j) + One(j, i)
                   /\ \A j \in INO : LockedBy(t, j) => LockedBy(u, j)
<1>1. /\ t \in Thread /\ ThreadOK(t) /\ Len(t.put) \in {1, 2} /\ t.put \in Seq(Pairs)
      /\ cwd[p] # 0 /\ cwd[p] \in INO \cup {0}
  BY DEF State, ThreadOK, PutsOK, Putting, Thread, ExitOK, NoThread
<1>2. /\ Head(t.put) = t.put[1] /\ t.put[1] \in Pairs /\ t.put # <<>>
      /\ Tail(t.put) \in Seq(Pairs) /\ Len(Tail(t.put)) = Len(t.put) - 1
      /\ Len(t.put) = 2 => Tail(t.put)[1] = t.put[2] /\ Tail(t.put) # <<>>
  <2> HIDE DEF t
  <2>1. t.put[1] \in Pairs
    BY <1>1
  <2> HIDE DEF Pairs
  <2> QED BY <1>1, <2>1, Pending
<1>3. Locals(t, t.r) /\ t.r \notin Putting \cup {"create_iget"} /\ t.r \in Threads
  BY <1>1 DEF ThreadOK, Where, Putting, Locals, Thread, PutsOK
<1>4. ASSUME Len(t.put) = 2 PROVE Good
  <2>1. u = [t EXCEPT !.pc = "put", !.put = Tail(@)]
    BY <1>4 DEF Pop
  <2>2. /\ u \in Thread /\ u.pc = "put" /\ u.put = Tail(t.put) /\ u.cur = t.cur /\ u.dp = t.dp /\ u.ip = t.ip
        /\ u.r = t.r /\ u.call = t.call /\ u.path = t.path /\ u.par = t.par /\ u.k = t.k /\ u.kf = t.kf
    <3>1. "put" \in Threads /\ "user" \in Threads /\ <<>> \in Seq(Pairs)
      BY DEF Threads
    <3> QED BY <2>1, <1>1, <1>2, <1>3, <3>1 DEF Thread
  <2>3. Len(u.put) = 1 /\ u.put[1] = t.put[2] /\ u.put # <<>>
    BY <2>2, <1>2, <1>4
  <2> HIDE DEF u
  <2>4. ThreadOK(u)
    BY <2>2, <2>3, <1>3 DEF ThreadOK, PutsOK, Locals, Where, Putting, LookupOK
  <2>5. Stays(p, u)
    BY <2>2, <1>1 DEF State, ExitOK, Stays, Where, Putting
  <2>6. \A j \in INO : Own(t, cwd[p], j) = Own(u, cwd[p], j) + One(j, i)
    <3> SUFFICES ASSUME NEW j \in INO PROVE Own(t, cwd[p], j) = Own(u, cwd[p], j) + One(j, i)
      OBVIOUS
    <3>1. /\ Own1(u, cwd[p], j) = Own1(t, cwd[p], j) /\ Own2(u, j) = Own2(t, j)
          /\ Own3(u, j) = Own3(t, j) /\ Own4(u, j) = Own4(t, j)
      BY <2>2 DEF Own1, Own2, Own3, Own4, B, One, OnCwd
    <3>2. Own5(u, j) = Own6(t, j) /\ Own6(u, j) = 0 /\ Own5(t, j) = One(j, i)
      BY <2>3, <1>2, <1>4 DEF Own5, Own6, B, One
    <3> QED BY <3>1, <3>2, OwnsInt DEF Own, Owns
  <2>7. ASSUME NEW j \in INO, LockedBy(t, j) PROVE LockedBy(u, j)
    <3>1. ASSUME NEW k \in 1..Len(t.put), t.put[k] = <<"unlockput", j>>
          PROVE  1 \in 1..Len(u.put) /\ u.put[1] = <<"unlockput", j>>
      BY <3>1, <2>3, <1>4
    <3> QED BY <2>7, <3>1, <2>2 DEF LockedBy, Where, Putting, unlockput
  <2> QED BY <2>2, <2>4, <2>5, <2>6, <2>7
<1>5. ASSUME Len(t.put) = 1, t.r = "user" PROVE Good
  <2>1. u = NoThread
    BY <1>5 DEF Pop
  <2>2. t.cur = 0 /\ t.dp = 0 /\ t.ip = 0
    BY <1>3, <1>5 DEF Locals, WithDp, WithIp
  <2>3. \A j \in INO : Own(t, cwd[p], j) = Own(u, cwd[p], j) + One(j, i)
    BY <2>1, <2>2, <1>2, <1>5, Finite DEF NoThread, Own, Own1, Own2, Own3, Own4, Own5, Own6, B, One, OnCwd
  <2>4. ASSUME NEW j \in INO, LockedBy(t, j) PROVE FALSE
    BY <2>4, <1>5 DEF LockedBy, Where, Putting, unlockput
  <2>5. Stays(p, u)
    BY <2>1, <1>1 DEF Stays, NoThread, Where, Putting
  <2> QED BY <2>1, <2>3, <2>4, <2>5, NoThreadOK
<1>6. ASSUME Len(t.put) = 1, t.r # "user" PROVE Good
  <2>1. u = [t EXCEPT !.pc = t.r, !.put = <<>>, !.r = "user"]
    BY <1>6 DEF Pop
  <2>2. /\ u \in Thread /\ u.pc = t.r /\ u.put = <<>> /\ u.cur = t.cur /\ u.dp = t.dp /\ u.ip = t.ip
        /\ u.r = "user" /\ u.call = t.call /\ u.path = t.path /\ u.par = t.par /\ u.k = t.k /\ u.kf = t.kf
    <3>1. "put" \in Threads /\ "user" \in Threads /\ <<>> \in Seq(Pairs)
      BY DEF Threads
    <3> QED BY <2>1, <1>1, <1>2, <1>3, <3>1 DEF Thread
  <2> HIDE DEF u
  <2>4. ThreadOK(u)
    BY <2>2, <1>3, <1>6 DEF ThreadOK, PutsOK, Locals, Where, LookupOK
  <2>5. Stays(p, u)
    BY <2>2, <1>1, <1>3 DEF State, ExitOK, Stays, Where, Putting
  <2>6. \A j \in INO : Own(t, cwd[p], j) = Own(u, cwd[p], j) + One(j, i)
    BY <2>2, <1>2, <1>3, <1>6 DEF Own, Own1, Own2, Own3, Own4, Own5, Own6, B, One, OnCwd
  <2>7. ASSUME NEW j \in INO, LockedBy(t, j) PROVE LockedBy(u, j)
    BY <2>7, <2>2, <1>3, <1>6 DEF LockedBy, Where, Putting, unlockput
  <2> QED BY <2>2, <2>4, <2>5, <2>6, <2>7
<1>7. Good
  BY <1>1, <1>4, <1>5, <1>6
<1> QED BY <1>2, <1>7

\* iput() goes on to another of its steps.
LEMMA PutPc ==
  ASSUME NEW p, State(p), th[p].pc \in Putting, th[p].put[1][1] = "put",
         NEW x \in {"put_free", "put_valid", "put_dec"}
  PROVE  LET u == [th[p] EXCEPT !.pc = x]
             i == Head(th[p].put)[2]
         IN /\ u \in Thread /\ ThreadOK(u) /\ Stays(p, u) /\ i \in INO
            /\ \A j \in INO : Own(u, cwd[p], j) = Own(th[p], cwd[p], j)
            /\ \A j \in INO : LockedBy(th[p], j) => LockedBy(u, j) \/ j = i
            /\ x # "put_dec" => LockedBy(u, i)
<1> DEFINE t == th[p]
           u == [t EXCEPT !.pc = x]
           i == Head(t.put)[2]
<1>1. /\ t \in Thread /\ ThreadOK(t) /\ Len(t.put) \in {1, 2}
      /\ t.put \in Seq({"put", "unlockput"} \X INO) /\ cwd[p] # 0
  BY DEF State, ThreadOK, PutsOK, Putting, Thread, ExitOK, NoThread
<1>2. i \in INO /\ i = t.put[1][2]
  BY <1>1
<1>3. x \in Threads
  BY DEF Threads
<1>4. /\ u \in Thread /\ u.pc = x /\ u.put = t.put /\ u.cur = t.cur /\ u.dp = t.dp /\ u.ip = t.ip
      /\ u.r = t.r /\ u.call = t.call /\ u.path = t.path /\ u.par = t.par /\ u.k = t.k /\ u.kf = t.kf
  BY <1>1, <1>3 DEF Thread
<1> HIDE DEF u
<1>5. ThreadOK(u)
  BY <1>1, <1>4 DEF ThreadOK, PutsOK, Locals, Where, Putting, LookupOK
<1>6. Stays(p, u)
  BY <1>1, <1>4 DEF State, ExitOK, Stays, Where, Putting
<1>7. \A j \in INO : Own(u, cwd[p], j) = Own(t, cwd[p], j)
  BY <1>4 DEF Own, Own1, Own2, Own3, Own4, Own5, Own6, B, One, OnCwd, Putting
<1>8. \A j \in INO : LockedBy(t, j) => LockedBy(u, j) \/ j = i
  BY <1>2, <1>4 DEF LockedBy, Where, Putting
<1>9. x # "put_dec" => LockedBy(u, i)
  BY <1>2, <1>4 DEF LockedBy
<1> QED BY <1>2, <1>4, <1>5, <1>6, <1>7, <1>8, <1>9 DEF u

LEMMA NoInodeOK == NoInode \in [type : Types, nlink : Int, ents : [Elem -> INO \cup {0}]]
BY DEF NoInode, Types

\* iput() drops a reference, or locks an inode that has to be freed ...
LEMMA PutStep == ASSUME Inv, NEW p \in Proc, iput(p) PROVE Inv'
<1> DEFINE t == th[p]
           i == Head(t.put)[2]
<1>1. State(p)
  BY Known
<1>2. /\ t.pc = "put" /\ Head(t.put)[1] = "put"
      /\ UNCHANGED <<disk, file, ofile, cwd, panicked, orphan, stale>>
  BY DEF iput, at
<1>3. t.put[1] = Head(t.put)
  OBVIOUS
<1>4. CASE Last(i)
  <2> DEFINE u == [t EXCEPT !.pc = "put_free"]
  <2>1. icache' = [icache EXCEPT ![i].lock = p] /\ th' = [th EXCEPT ![p] = u]
    BY <1>4 DEF iput, go
  <2>2. /\ u \in Thread /\ ThreadOK(u) /\ Stays(p, u) /\ i \in INO
        /\ \A j \in INO : Own(u, cwd[p], j) = Own(t, cwd[p], j)
        /\ \A j \in INO : LockedBy(t, j) => LockedBy(u, j) \/ j = i
        /\ LockedBy(u, i)
    BY <1>1, <1>2, <1>3, PutPc DEF Putting
  <2> HIDE DEF u
  <2>3. /\ icache' \in Caches
        /\ \A j \in INO : icache'[j].ref = icache[j].ref /\ icache'[j].lock = IF j = i THEN p ELSE icache[j].lock
    <3>1. icache \in Caches /\ i \in INO /\ icache' = [icache EXCEPT ![i].lock = p]
      BY <1>1, <2>1, <2>2 DEF State
    <3> HIDE DEF i
    <3> QED BY <3>1 DEF Caches
  <2>4. Counted(p, u)
    BY <2>2, <2>3, <1>1, CountedSame DEF State
  <2>5. Locking(p, u)
    BY <1>1, <2>2, <2>3 DEF State, Locking
  <2> QED BY <1>1, <1>2, <2>1, <2>2, <2>3, <2>4, <2>5, ThreadStep DEF State
<1>5. CASE ~Last(i)
  <2> DEFINE u == Pop(t)
  <2>1. icache' = [icache EXCEPT ![i].ref = @ - 1] /\ th' = [th EXCEPT ![p] = u]
    BY <1>5 DEF iput, popped, go, Pop
  <2>2. /\ u \in Thread /\ ThreadOK(u) /\ Stays(p, u) /\ i \in INO
        /\ \A j \in INO : Own(t, cwd[p], j) = Own(u, cwd[p], j) + One(j, i)
        /\ \A j \in INO : LockedBy(t, j) => LockedBy(u, j)
    BY <1>1, <1>2, <1>3, PopOK
  <2> HIDE DEF u
  <2>3. /\ icache' \in Caches
        /\ \A j \in INO : icache'[j].ref = icache[j].ref - One(j, i) /\ icache'[j].lock = icache[j].lock
    <3>1. icache \in Caches /\ i \in INO /\ icache' = [icache EXCEPT ![i].ref = @ - 1]
      BY <1>1, <2>1, <2>2 DEF State
    <3> HIDE DEF i
    <3> QED BY <3>1 DEF Caches, One
  <2>4. Counted(p, u)
    BY <2>2, <2>3, <1>1, CountedLess DEF State
  <2>5. Locking(p, u)
    BY <1>1, <2>2, <2>3 DEF State, Locking
  <2> QED BY <1>1, <1>2, <2>1, <2>2, <2>3, <2>4, <2>5, ThreadStep, Zenon DEF State
<1> QED BY <1>4, <1>5

\* ... which it then does, and unlocks it ...
LEMMA FreeStep == ASSUME Inv, NEW p \in Proc, iput_free(p) PROVE Inv'
<1> DEFINE t == th[p]
           i == Head(t.put)[2]
           u == [t EXCEPT !.pc = "put_valid"]
<1>1. State(p)
  BY Known
<1>2. /\ t.pc = "put_free" /\ icache' = [icache EXCEPT ![i].type = "free"]
      /\ disk' = [disk EXCEPT ![i] = NoInode] /\ orphan' = orphan \ {i} /\ th' = [th EXCEPT ![p] = u]
      /\ UNCHANGED <<file, ofile, cwd, panicked, stale>>
  BY DEF iput_free, at, go
<1>3. t.put[1][1] = "put"
  BY <1>1, <1>2 DEF State, ThreadOK, PutsOK, Putting
<1>4. /\ u \in Thread /\ ThreadOK(u) /\ Stays(p, u) /\ i \in INO
      /\ \A j \in INO : Own(u, cwd[p], j) = Own(t, cwd[p], j)
      /\ \A j \in INO : LockedBy(t, j) => LockedBy(u, j) \/ j = i
      /\ LockedBy(u, i)
  BY <1>1, <1>2, <1>3, PutPc DEF Putting
<1> HIDE DEF u
<1>5. icache' \in Caches /\ \A j \in INO : icache'[j].ref = icache[j].ref /\ icache'[j].lock = icache[j].lock
  <2>1. icache \in Caches /\ i \in INO /\ icache' = [icache EXCEPT ![i].type = "free"] /\ "free" \in Types
    BY <1>1, <1>2, <1>4 DEF State, Types
  <2> HIDE DEF i
  <2> QED BY <2>1 DEF Caches
<1>6. disk' \in Disks /\ orphan' \subseteq INO
  BY <1>1, <1>2, <1>4, NoInodeOK DEF State, Disks
<1>7. Counted(p, u)
  BY <1>4, <1>5, <1>1, CountedSame DEF State
<1>8. Locking(p, u)
  BY <1>1, <1>4, <1>5 DEF State, Locking
<1> QED BY <1>1, <1>2, <1>4, <1>5, <1>6, <1>7, <1>8, ThreadStep DEF State

LEMMA FreedStep == ASSUME Inv, NEW p \in Proc, iput_unlock(p) PROVE Inv'
<1> DEFINE t == th[p]
           i == Head(t.put)[2]
           u == [t EXCEPT !.pc = "put_dec"]
<1>1. State(p)
  BY Known
<1>2. /\ t.pc = "put_valid" /\ icache' = [[icache EXCEPT ![i].valid = FALSE] EXCEPT ![i].lock = None]
      /\ th' = [th EXCEPT ![p] = u] /\ UNCHANGED <<disk, file, ofile, cwd, panicked, orphan, stale>>
  BY DEF iput_unlock, at, go, invalid
<1>3. t.put[1][1] = "put"
  BY <1>1, <1>2 DEF State, ThreadOK, PutsOK, Putting
<1>4. /\ u \in Thread /\ ThreadOK(u) /\ Stays(p, u) /\ i \in INO
      /\ \A j \in INO : Own(u, cwd[p], j) = Own(t, cwd[p], j)
      /\ \A j \in INO : LockedBy(t, j) => LockedBy(u, j) \/ j = i
  BY <1>1, <1>2, <1>3, PutPc DEF Putting
<1> HIDE DEF u
<1>5. /\ icache' \in Caches
      /\ \A j \in INO : icache'[j].ref = icache[j].ref /\ icache'[j].lock = IF j = i THEN None ELSE icache[j].lock
  <2> DEFINE c == [icache EXCEPT ![i].valid = FALSE]
  <2>1. icache \in Caches /\ i \in INO /\ icache' = [c EXCEPT ![i].lock = None]
    BY <1>1, <1>2, <1>4 DEF State
  <2> HIDE DEF i
  <2>2. c \in Caches /\ \A j \in INO : c[j].ref = icache[j].ref /\ c[j].lock = icache[j].lock
    BY <2>1 DEF Caches
  <2> HIDE DEF c
  <2> QED BY <2>1, <2>2 DEF Caches
<1>6. Counted(p, u)
  BY <1>4, <1>5, <1>1, CountedSame DEF State
<1>7. Locking(p, u)
  BY <1>1, <1>4, <1>5 DEF State, Locking
<1> QED BY <1>1, <1>2, <1>4, <1>5, <1>6, <1>7, ThreadStep, Zenon DEF State

\* ... before it drops the reference.
LEMMA DecStep == ASSUME Inv, NEW p \in Proc, iput_dec(p) PROVE Inv'
<1> DEFINE t == th[p]
           i == Head(t.put)[2]
           u == Pop(t)
<1>1. State(p)
  BY Known
<1>2. /\ t.pc = "put_dec" /\ icache' = [icache EXCEPT ![i].ref = @ - 1]
      /\ orphan' \in {orphan, orphan \cup {i}} /\ th' = [th EXCEPT ![p] = u]
      /\ UNCHANGED <<disk, file, ofile, cwd, panicked, stale>>
  BY DEF iput_dec, at, popped, go, Pop
<1>3. t.put[1][1] = "put"
  BY <1>1, <1>2 DEF State, ThreadOK, PutsOK, Putting
<1>4. /\ u \in Thread /\ ThreadOK(u) /\ Stays(p, u) /\ i \in INO
      /\ \A j \in INO : Own(t, cwd[p], j) = Own(u, cwd[p], j) + One(j, i)
      /\ \A j \in INO : LockedBy(t, j) => LockedBy(u, j)
  BY <1>1, <1>2, <1>3, PopOK
<1> HIDE DEF u
<1>5. /\ icache' \in Caches
      /\ \A j \in INO : icache'[j].ref = icache[j].ref - One(j, i) /\ icache'[j].lock = icache[j].lock
  <2>1. icache \in Caches /\ i \in INO /\ icache' = [icache EXCEPT ![i].ref = @ - 1]
    BY <1>1, <1>2, <1>4 DEF State
  <2> HIDE DEF i
  <2> QED BY <2>1 DEF Caches, One
<1>6. Counted(p, u)
  BY <1>4, <1>5, <1>1, CountedLess DEF State
<1>7. Locking(p, u)
  BY <1>1, <1>4, <1>5 DEF State, Locking
<1>8. orphan' \subseteq INO
  BY <1>1, <1>2, <1>4 DEF State
<1> QED BY <1>1, <1>2, <1>4, <1>5, <1>6, <1>7, <1>8, ThreadStep, Zenon DEF State

\* Every label is one, and the lists of iput()s that calls make are lists.
LEMMA Labels ==
  /\ {"user", "namex", "put", "link_ip", "link_dp", "link_bad", "unlink_dp", "unlink_ip", "unlink_done"}
       \subseteq Threads
  /\ {"create_dp", "create_ialloc", "create_iget", "create_ip", "create_found", "open_ip", "open_file",
      "chdir_ip", "chdir_set", "exit_files", "exit_done"} \subseteq Threads
  /\ <<>> \in Seq({"put", "unlockput"} \X INO) /\ <<>> \in Seq(Elem)
  /\ \A a, b \in {"put", "unlockput"} \X INO :
       <<a>> \in Seq({"put", "unlockput"} \X INO) /\ <<a, b>> \in Seq({"put", "unlockput"} \X INO)
  /\ \A i \in INO : put(i) \in {"put", "unlockput"} \X INO /\ unlockput(i) \in {"put", "unlockput"} \X INO
<1>1. \A i \in INO : put(i) \in {"put", "unlockput"} \X INO /\ unlockput(i) \in {"put", "unlockput"} \X INO
  BY DEF put, unlockput
<1>2. \A a, b \in {"put", "unlockput"} \X INO :
        <<a>> \in Seq({"put", "unlockput"} \X INO) /\ <<a, b>> \in Seq({"put", "unlockput"} \X INO)
  OBVIOUS
<1>3. <<>> \in Seq({"put", "unlockput"} \X INO) /\ <<>> \in Seq(Elem)
  OBVIOUS
<1> QED BY <1>1, <1>2, <1>3 DEF Threads

\* A thread inside a call and between iput()s.
LEMMA Rest ==
  ASSUME NEW p, State(p), th[p].pc \notin Putting \cup {"user"}
  PROVE  /\ th[p] \in Thread /\ Locals(th[p], th[p].pc) /\ th[p].put = <<>> /\ th[p].r = "user"
         /\ cwd[p] \in INO
BY DEF State, ThreadOK, Where, PutsOK, ExitOK, NoThread

\* New locks are those the thread has at u, old ones it keeps.
LEMMA LockingOK ==
  ASSUME NEW p, NEW u, State(p),
         \A j \in INO : LockedBy(th[p], j) => LockedBy(u, j),
         \A j \in INO : \/ icache'[j].lock \in {icache[j].lock, None}
                        \/ icache'[j].lock = p /\ LockedBy(u, j)
  PROVE  Locking(p, u)
BY DEF Locking, State

\* Where a path starts, and what the calls of the programs look like.
LEMMA StartOK ==
  ASSUME NEW p, cwd[p] \in INO, NEW path
  PROVE  Start(p, path) \in INO
BY Finite DEF Start

LEMMA CallOK ==
  ASSUME NEW c \in UNION {CALLS[p] : p \in Proc}
  PROVE  /\ c \in Call /\ Relative(c.path) \in Seq(Elem) /\ Relative(c.new) \in Seq(Elem)
         /\ c.op = "mknod" => c.mode \in {"dev", "baddev"}
BY FileSysConstants

\* The entry of a directory, and a change of it.
LEMMA EntryOK ==
  ASSUME disk \in Disks, NEW d \in INO, NEW path \in Seq(Elem), path # <<>>
  PROVE  Head(path) \in Elem /\ disk[d].ents[Head(path)] \in INO \cup {0} /\ Tail(path) \in Seq(Elem)
<1>1. Head(path) \in Elem /\ Tail(path) \in Seq(Elem)
  OBVIOUS
<1> QED BY <1>1 DEF Disks

LEMMA EnterOK ==
  ASSUME NEW d \in Disks, NEW dp \in INO, NEW n \in Elem, NEW i \in INO \cup {0}
  PROVE  [d EXCEPT ![dp].ents[n] = i] \in Disks
BY DEF Disks

LEMMA UpdateOK ==
  ASSUME NEW d \in Disks, NEW c \in Caches, NEW i \in INO
  PROVE  iupdate(d, c, i) \in Disks
BY DEF Disks, Caches, iupdate

LEMMA LinkInOK ==
  ASSUME NEW d \in Disks, NEW dp \in INO, NEW n \in Elem, NEW i \in INO, orphan \subseteq INO,
         link_in(d, dp, n, i)
  PROVE  disk' \in Disks /\ orphan' \subseteq INO
<1>1. disk' = [d EXCEPT ![dp].ents[n] = i] /\ orphan' \in {orphan, orphan \cup {i, dp}}
  BY DEF link_in
<1> QED BY <1>1, EnterOK

\* The cache as it is, after p has locked i and taken a reference to a (0: none).
Like(c, p, i, a) ==
  /\ c \in Caches /\ Counting(c)
  /\ \A j \in INO : c[j].ref = icache[j].ref + One(j, a)
  /\ \A j \in INO : c[j].lock \in {icache[j].lock, None} \/ (c[j].lock = p /\ j = i)

LEMMA LikeItself ==
  ASSUME NEW p, State(p)
  PROVE  Like(icache, p, 0, 0)
BY Finite DEF Like, State, Caches, One

LEMMA LikeLoaded ==
  ASSUME NEW p, State(p), NEW i \in INO
  PROVE  Like(loaded(icache, i), p, 0, 0)
<1>1. /\ loaded(icache, i) \in Caches
      /\ \A j \in INO : loaded(icache, i)[j].ref = icache[j].ref /\ loaded(icache, i)[j].lock = icache[j].lock
  BY LoadedOK DEF State
<1>2. \A j \in INO : One(j, 0) = 0 /\ icache[j].ref \in Int
  BY Finite DEF One, State, Caches
<1> HIDE DEF loaded
<1> QED BY <1>1, <1>2 DEF Like, State, Counting

LEMMA LikeLock ==
  ASSUME NEW p \in Proc, NEW i \in INO, NEW c, NEW a, Like(c, p, 0, a)
  PROVE  Like([c EXCEPT ![i].lock = p], p, i, a)
<1>1. /\ [c EXCEPT ![i].lock = p] \in Caches
      /\ \A j \in INO : /\ [c EXCEPT ![i].lock = p][j].ref = c[j].ref
                        /\ [c EXCEPT ![i].lock = p][j].lock = IF j = i THEN p ELSE c[j].lock
  BY DEF Like, Caches
<1>2. \A j \in INO : j # 0
  BY Finite
<1> QED BY <1>1, <1>2 DEF Like, Counting

LEMMA LikeUnlock ==
  ASSUME NEW p, NEW i \in INO, NEW c, NEW a, NEW k, Like(c, p, k, a)
  PROVE  Like([c EXCEPT ![i].lock = None], p, k, a)
<1>1. /\ [c EXCEPT ![i].lock = None] \in Caches
      /\ \A j \in INO : /\ [c EXCEPT ![i].lock = None][j].ref = c[j].ref
                        /\ [c EXCEPT ![i].lock = None][j].lock = IF j = i THEN None ELSE c[j].lock
  BY DEF Like, Caches
<1> QED BY <1>1 DEF Like, Counting

LEMMA LikeNlink ==
  ASSUME NEW p, NEW i \in INO, NEW c, NEW a, NEW k, Like(c, p, k, a), NEW n \in Int
  PROVE  Like([c EXCEPT ![i].nlink = n], p, k, a)
<1>1. /\ [c EXCEPT ![i].nlink = n] \in Caches
      /\ \A j \in INO : /\ [c EXCEPT ![i].nlink = n][j].ref = c[j].ref
                        /\ [c EXCEPT ![i].nlink = n][j].lock = c[j].lock
  BY DEF Like, Caches
<1> QED BY <1>1 DEF Like, Counting

LEMMA LikeGet ==
  ASSUME NEW p, State(p), NEW a \in INO, NEW c, NEW k, Like(c, p, k, 0)
  PROVE  Like(iget(c, a), p, k, a)
<1>1. /\ iget(c, a) \in Caches /\ Counting(iget(c, a))
      /\ \A j \in INO : /\ iget(c, a)[j].ref = c[j].ref + One(j, a)
                        /\ iget(c, a)[j].lock \in {c[j].lock, None}
  BY IgetOK DEF Like
<1>2. \A j \in INO : One(j, 0) = 0 /\ icache[j].ref \in Int
  BY Finite DEF One, State, Caches
<1>3. \A j \in INO : c[j].ref = icache[j].ref
  BY <1>2 DEF Like
<1> HIDE DEF iget
<1> QED BY <1>1, <1>3 DEF Like

\* What a thread holds when it has nothing, one inode or two to put.
LEMMA OwnRest ==
  ASSUME NEW t, NEW c, NEW j, t.put = <<>>, t.r = "user", t.pc \notin {"chdir_set", "exit_done", "create_iget"}
  PROVE  Own(t, c, j) = One(j, c) + One(j, t.cur) + One(j, t.dp) + One(j, t.ip)
<1>1. /\ Own1(t, c, j) = One(j, c) /\ Own2(t, j) = One(j, t.cur) /\ Own3(t, j) = One(j, t.dp)
      /\ Own4(t, j) = One(j, t.ip) /\ Own5(t, j) = 0 /\ Own6(t, j) = 0
  BY DEF Own1, Own2, Own3, Own4, Own5, Own6, B, One, OnCwd
<1> QED BY <1>1, OwnsInt DEF Own, Owns

LEMMA OwnPut ==
  ASSUME NEW t, NEW c, NEW j, NEW x, t.put = <<x>>, t.r \notin {"chdir_set", "exit_done"}, t.pc = "put"
  PROVE  Own(t, c, j) = One(j, c) + One(j, t.cur) + One(j, t.dp) + One(j, t.ip) + One(j, x[2])
<1>1. /\ Own1(t, c, j) = One(j, c) /\ Own2(t, j) = One(j, t.cur) /\ Own3(t, j) = One(j, t.dp)
      /\ Own4(t, j) = One(j, t.ip) /\ Own5(t, j) = One(j, x[2]) /\ Own6(t, j) = 0
  BY DEF Own1, Own2, Own3, Own4, Own5, Own6, B, One, OnCwd
<1> QED BY <1>1, OwnsInt DEF Own, Owns

LEMMA OwnPuts ==
  ASSUME NEW t, NEW c, NEW j, NEW x, NEW y, t.put = <<x, y>>, t.r \notin {"chdir_set", "exit_done"},
         t.pc = "put"
  PROVE  Own(t, c, j) = One(j, c) + One(j, t.cur) + One(j, t.dp) + One(j, t.ip) + One(j, x[2]) + One(j, y[2])
<1>1. /\ Own1(t, c, j) = One(j, c) /\ Own2(t, j) = One(j, t.cur) /\ Own3(t, j) = One(j, t.dp)
      /\ Own4(t, j) = One(j, t.ip) /\ Own5(t, j) = One(j, x[2]) /\ Own6(t, j) = One(j, y[2])
  BY DEF Own1, Own2, Own3, Own4, Own5, Own6, B, One, OnCwd
<1> QED BY <1>1, OwnsInt DEF Own, Owns

LEMMA Ones == \A i, j : One(j, i) \in Nat /\ (j \in INO => One(j, 0) = 0)
BY Finite DEF One

\* At u, process p has the references it had and one to a, and the locks it had.
Gains(p, u, a) == \A j \in INO : Own(u, cwd[p], j) = Own(th[p], cwd[p], j) + One(j, a)
Keeps(p, u) == \A j \in INO : LockedBy(th[p], j) => LockedBy(u, j)

LEMMA MoveStep ==
  ASSUME Inv, NEW p \in Proc, NEW u \in Thread, NEW i, NEW a, th' = [th EXCEPT ![p] = u],
         UNCHANGED <<file, ofile, cwd, panicked>>,
         disk' \in Disks, Like(icache', p, i, a), orphan' \subseteq INO, stale' \in BOOLEAN,
         ThreadOK(u), cwd[p] \in INO, Where(u) # "exit_done", Gains(p, u, a), Keeps(p, u),
         i # 0 => LockedBy(u, i)
  PROVE  Inv'
<1>1. State(p)
  BY Known
<1>2. /\ icache' \in Caches
      /\ \A j \in INO : icache'[j].ref = icache[j].ref + One(j, a)
      /\ \A j \in INO : icache'[j].lock \in {icache[j].lock, None} \/ (icache'[j].lock = p /\ j = i)
  BY DEF Like
<1>3. Counted(p, u)
  BY <1>1, <1>2, CountedMore DEF State, Gains
<1>4. Locking(p, u)
  <2>1. \A j \in INO : \/ icache'[j].lock \in {icache[j].lock, None}
                       \/ icache'[j].lock = p /\ LockedBy(u, j)
    BY <1>2, Finite
  <2> QED BY <1>1, <2>1, LockingOK DEF Keeps
<1>5. Stays(p, u)
  BY Finite DEF Stays
<1> QED BY <1>2, <1>3, <1>4, <1>5, ThreadStep

\* The locals where a call has a directory, and where it has only an inode.
LEMMA DpRest ==
  ASSUME NEW t \in Thread, Locals(t, t.pc), t.pc \in WithDp
  PROVE  /\ t.cur = 0 /\ t.dp \in INO /\ t.call # None /\ t.path \in Seq(Elem) /\ t.path # <<>>
         /\ IF t.pc \in WithIp THEN t.ip \in INO ELSE t.ip = 0
<1>1. /\ t.cur = 0 /\ t.dp \in INO /\ t.call # None /\ t.path \in Seq(Elem) /\ Len(t.path) = 1
      /\ t.ip \in INO \cup {0} /\ (t.ip # 0 <=> t.pc \in WithIp)
  BY DEF Locals, WithDp, Idle, Thread
<1>2. t.path # <<>>
  <2>1. Len(t.path) = 1
    BY <1>1
  <2>2. Len(<<>>) = 0
    OBVIOUS
  <2> QED BY <2>1, <2>2
<1> QED BY <1>1, <1>2

LEMMA IpRest ==
  ASSUME NEW t \in Thread, Locals(t, t.pc), t.pc \in WithIp \ WithDp
  PROVE  t.cur = 0 /\ t.dp = 0 /\ t.ip \in INO /\ t.call # None
BY DEF Locals, WithIp, Idle, Thread

\* sys_open() of a file that exists.
LEMMA OpenStep == ASSUME Inv, NEW p \in Proc, sys_open(p) PROVE Inv'
<1> DEFINE t == th[p]
           i == t.ip
           c == loaded(icache, i)
<1>1. State(p)
  BY Known
<1>2. t.pc = "open_ip" /\ UNCHANGED <<disk, file, ofile, cwd, orphan, stale>>
  BY DEF sys_open, at
<1>3. t \in Thread /\ Locals(t, t.pc) /\ t.put = <<>> /\ t.r = "user" /\ cwd[p] \in INO
  BY <1>1, <1>2, Rest DEF Putting
<1>4. t.cur = 0 /\ t.dp = 0 /\ i \in INO /\ t.call # None
  BY <1>2, <1>3, IpRest DEF WithDp, WithIp
<1>5. \A j \in INO : Own(t, cwd[p], j) = One(j, cwd[p]) + One(j, t.cur) + One(j, t.dp) + One(j, t.ip)
  BY <1>2, <1>3, OwnRest
<1>6. lock_panic(i) # "ilock"
  BY <1>2, <1>4, InCache
<1>7. ASSUME Panic(lock_panic(i)) PROVE Inv'
  BY <1>6, <1>7, PanicStep
<1>8. \/ Panic(lock_panic(i))
      \/ /\ panicked' = panicked /\ icache' = c
         /\ th' = [th EXCEPT ![p] = [[t EXCEPT !.ip = 0] EXCEPT !.pc = "put", !.put = <<put(i)>>, !.r = "user"]]
      \/ /\ panicked' = panicked /\ icache' = [c EXCEPT ![i].lock = p]
         /\ th' = [th EXCEPT ![p] = [t EXCEPT !.pc = "open_file"]]
  BY <1>6, <1>2, <1>3, <1>4 DEF sys_open, ilock, puts, go
<1>9. ASSUME panicked' = panicked, icache' = c,
            th' = [th EXCEPT ![p] = [[t EXCEPT !.ip = 0] EXCEPT !.pc = "put", !.put = <<put(i)>>, !.r = "user"]]
      PROVE  Inv'
  <2> DEFINE u == [[t EXCEPT !.ip = 0] EXCEPT !.pc = "put", !.put = <<put(i)>>, !.r = "user"]
  <2>10. th' = [th EXCEPT ![p] = u] /\ UNCHANGED <<file, ofile, cwd, panicked>>
    BY <1>2, <1>9
  <2>1. /\ u \in Thread /\ u.pc = "put" /\ u.call = t.call /\ u.path = t.path /\ u.par = t.par
        /\ u.cur = t.cur /\ u.k = t.k /\ u.kf = t.kf /\ u.ip = 0 /\ u.dp = t.dp /\ u.put = <<put(i)>>
        /\ u.r = "user"
    BY <1>2, <1>3, <1>4, <1>9, Labels DEF Thread
  <2> HIDE DEF u
  <2>2. ThreadOK(u) /\ Where(u) # "exit_done"
    BY <1>2, <1>3, <1>4, <2>1, Finite DEF ThreadOK, PutsOK, Locals, Where, Putting, WithDp, WithIp, Idle, LookupOK
  <2>3. Gains(p, u, 0)
    <3> SUFFICES ASSUME NEW j \in INO PROVE Own(u, cwd[p], j) = Own(t, cwd[p], j) + One(j, 0)
      BY DEF Gains
    <3>1. Own(u, cwd[p], j) = One(j, cwd[p]) + One(j, u.cur) + One(j, u.dp) + One(j, u.ip) + One(j, put(i)[2])
      BY <1>2, <1>3, <1>4, <2>1, OwnPut
    <3> QED BY <1>5, <3>1, <1>4, <2>1, Ones DEF put, unlockput
  <2>4. Keeps(p, u)
    BY <1>2, <1>3, <1>4, <2>1 DEF Keeps, LockedBy, Where, Putting, put, unlockput
  <2>5. Like(icache', p, 0, 0)
    BY <1>1, <1>4, <1>9, LikeLoaded
  <2>7. disk' \in Disks /\ orphan' \subseteq INO /\ stale' \in BOOLEAN
    BY <1>1, <1>2, <1>9 DEF State
  <2> QED BY <1>3, <2>1, <2>2, <2>3, <2>4, <2>5, <2>7, <2>10, Finite, MoveStep
<1>10. ASSUME panicked' = panicked, icache' = [c EXCEPT ![i].lock = p],
            th' = [th EXCEPT ![p] = [t EXCEPT !.pc = "open_file"]]
      PROVE  Inv'
  <2> DEFINE u == [t EXCEPT !.pc = "open_file"]
  <2>10. th' = [th EXCEPT ![p] = u] /\ UNCHANGED <<file, ofile, cwd, panicked>>
    BY <1>2, <1>10
  <2>1. /\ u \in Thread /\ u.pc = "open_file" /\ u.call = t.call /\ u.path = t.path /\ u.par = t.par
        /\ u.cur = t.cur /\ u.k = t.k /\ u.kf = t.kf /\ u.ip = t.ip /\ u.dp = t.dp /\ u.put = t.put
        /\ u.r = t.r
    BY <1>2, <1>3, <1>4, <1>10, Labels DEF Thread
  <2> HIDE DEF u
  <2>2. ThreadOK(u) /\ Where(u) # "exit_done"
    BY <1>2, <1>3, <1>4, <2>1, Finite DEF ThreadOK, PutsOK, Locals, Where, Putting, WithDp, WithIp, Idle, LookupOK
  <2>3. Gains(p, u, 0)
    <3> SUFFICES ASSUME NEW j \in INO PROVE Own(u, cwd[p], j) = Own(t, cwd[p], j) + One(j, 0)
      BY DEF Gains
    <3>1. Own(u, cwd[p], j) = One(j, cwd[p]) + One(j, u.cur) + One(j, u.dp) + One(j, u.ip)
      BY <1>2, <1>3, <1>4, <2>1, OwnRest
    <3> QED BY <1>5, <3>1, <1>4, <2>1, Ones DEF put, unlockput
  <2>4. Keeps(p, u)
    BY <1>2, <1>3, <1>4, <2>1 DEF Keeps, LockedBy, Where, Putting, put, unlockput
  <2>5. Like(icache', p, i, 0)
    BY <1>1, <1>4, <1>10, LikeLoaded, LikeLock
  <2>6. LockedBy(u, i)
    BY <1>2, <1>3, <1>4, <2>1 DEF LockedBy, Where, Putting, put, unlockput
  <2>7. disk' \in Disks /\ orphan' \subseteq INO /\ stale' \in BOOLEAN
    BY <1>1, <1>2, <1>10 DEF State
  <2> QED BY <1>3, <2>1, <2>2, <2>3, <2>4, <2>5, <2>6, <2>7, <2>10, Finite, MoveStep
<1> QED BY <1>7, <1>8, <1>9, <1>10

\* create() of a file that exists.
LEMMA FoundStep == ASSUME Inv, NEW p \in Proc, create_found(p) PROVE Inv'
<1> DEFINE t == th[p]
           i == t.ip
           c == loaded(icache, i)
<1>1. State(p)
  BY Known
<1>2. t.pc = "create_found" /\ UNCHANGED <<disk, file, ofile, cwd, orphan, stale>>
  BY DEF create_found, at
<1>3. t \in Thread /\ Locals(t, t.pc) /\ t.put = <<>> /\ t.r = "user" /\ cwd[p] \in INO
  BY <1>1, <1>2, Rest DEF Putting
<1>4. t.cur = 0 /\ t.dp = 0 /\ i \in INO /\ t.call # None
  BY <1>2, <1>3, IpRest DEF WithDp, WithIp
<1>5. \A j \in INO : Own(t, cwd[p], j) = One(j, cwd[p]) + One(j, t.cur) + One(j, t.dp) + One(j, t.ip)
  BY <1>2, <1>3, OwnRest
<1>6. lock_panic(i) # "ilock"
  BY <1>2, <1>4, InCache
<1>7. ASSUME Panic(lock_panic(i)) PROVE Inv'
  BY <1>6, <1>7, PanicStep
<1>8. \/ Panic(lock_panic(i))
      \/ /\ panicked' = panicked /\ icache' = c
         /\ th' = [th EXCEPT ![p] = [[t EXCEPT !.ip = 0] EXCEPT !.pc = "put", !.put = <<put(i)>>, !.r = "user"]]
      \/ /\ panicked' = panicked /\ icache' = [c EXCEPT ![i].lock = p]
         /\ th' = [th EXCEPT ![p] = [t EXCEPT !.pc = "open_file"]]
  BY <1>6, <1>2, <1>3, <1>4 DEF create_found, ilock, puts, go
<1>9. ASSUME panicked' = panicked, icache' = c,
            th' = [th EXCEPT ![p] = [[t EXCEPT !.ip = 0] EXCEPT !.pc = "put", !.put = <<put(i)>>, !.r = "user"]]
      PROVE  Inv'
  <2> DEFINE u == [[t EXCEPT !.ip = 0] EXCEPT !.pc = "put", !.put = <<put(i)>>, !.r = "user"]
  <2>10. th' = [th EXCEPT ![p] = u] /\ UNCHANGED <<file, ofile, cwd, panicked>>
    BY <1>2, <1>9
  <2>1. /\ u \in Thread /\ u.pc = "put" /\ u.call = t.call /\ u.path = t.path /\ u.par = t.par
        /\ u.cur = t.cur /\ u.k = t.k /\ u.kf = t.kf /\ u.ip = 0 /\ u.dp = t.dp /\ u.put = <<put(i)>>
        /\ u.r = "user"
    BY <1>2, <1>3, <1>4, <1>9, Labels DEF Thread
  <2> HIDE DEF u
  <2>2. ThreadOK(u) /\ Where(u) # "exit_done"
    BY <1>2, <1>3, <1>4, <2>1, Finite DEF ThreadOK, PutsOK, Locals, Where, Putting, WithDp, WithIp, Idle, LookupOK
  <2>3. Gains(p, u, 0)
    <3> SUFFICES ASSUME NEW j \in INO PROVE Own(u, cwd[p], j) = Own(t, cwd[p], j) + One(j, 0)
      BY DEF Gains
    <3>1. Own(u, cwd[p], j) = One(j, cwd[p]) + One(j, u.cur) + One(j, u.dp) + One(j, u.ip) + One(j, put(i)[2])
      BY <1>2, <1>3, <1>4, <2>1, OwnPut
    <3> QED BY <1>5, <3>1, <1>4, <2>1, Ones DEF put, unlockput
  <2>4. Keeps(p, u)
    BY <1>2, <1>3, <1>4, <2>1 DEF Keeps, LockedBy, Where, Putting, put, unlockput
  <2>5. Like(icache', p, 0, 0)
    BY <1>1, <1>4, <1>9, LikeLoaded
  <2>7. disk' \in Disks /\ orphan' \subseteq INO /\ stale' \in BOOLEAN
    BY <1>1, <1>2, <1>9 DEF State
  <2> QED BY <1>3, <2>1, <2>2, <2>3, <2>4, <2>5, <2>7, <2>10, Finite, MoveStep
<1>10. ASSUME panicked' = panicked, icache' = [c EXCEPT ![i].lock = p],
            th' = [th EXCEPT ![p] = [t EXCEPT !.pc = "open_file"]]
      PROVE  Inv'
  <2> DEFINE u == [t EXCEPT !.pc = "open_file"]
  <2>10. th' = [th EXCEPT ![p] = u] /\ UNCHANGED <<file, ofile, cwd, panicked>>
    BY <1>2, <1>10
  <2>1. /\ u \in Thread /\ u.pc = "open_file" /\ u.call = t.call /\ u.path = t.path /\ u.par = t.par
        /\ u.cur = t.cur /\ u.k = t.k /\ u.kf = t.kf /\ u.ip = t.ip /\ u.dp = t.dp /\ u.put = t.put
        /\ u.r = t.r
    BY <1>2, <1>3, <1>4, <1>10, Labels DEF Thread
  <2> HIDE DEF u
  <2>2. ThreadOK(u) /\ Where(u) # "exit_done"
    BY <1>2, <1>3, <1>4, <2>1, Finite DEF ThreadOK, PutsOK, Locals, Where, Putting, WithDp, WithIp, Idle, LookupOK
  <2>3. Gains(p, u, 0)
    <3> SUFFICES ASSUME NEW j \in INO PROVE Own(u, cwd[p], j) = Own(t, cwd[p], j) + One(j, 0)
      BY DEF Gains
    <3>1. Own(u, cwd[p], j) = One(j, cwd[p]) + One(j, u.cur) + One(j, u.dp) + One(j, u.ip)
      BY <1>2, <1>3, <1>4, <2>1, OwnRest
    <3> QED BY <1>5, <3>1, <1>4, <2>1, Ones DEF put, unlockput
  <2>4. Keeps(p, u)
    BY <1>2, <1>3, <1>4, <2>1 DEF Keeps, LockedBy, Where, Putting, put, unlockput
  <2>5. Like(icache', p, i, 0)
    BY <1>1, <1>4, <1>10, LikeLoaded, LikeLock
  <2>6. LockedBy(u, i)
    BY <1>2, <1>3, <1>4, <2>1 DEF LockedBy, Where, Putting, put, unlockput
  <2>7. disk' \in Disks /\ orphan' \subseteq INO /\ stale' \in BOOLEAN
    BY <1>1, <1>2, <1>10 DEF State
  <2> QED BY <1>3, <2>1, <2>2, <2>3, <2>4, <2>5, <2>6, <2>7, <2>10, Finite, MoveStep
<1> QED BY <1>7, <1>8, <1>9, <1>10

\* sys_chdir() drops the old directory first.
LEMMA ChdirStep == ASSUME Inv, NEW p \in Proc, sys_chdir(p) PROVE Inv'
<1> DEFINE t == th[p]
           i == t.ip
           c == loaded(icache, i)
<1>1. State(p)
  BY Known
<1>2. t.pc = "chdir_ip" /\ UNCHANGED <<disk, file, ofile, cwd, orphan, stale>>
  BY DEF sys_chdir, at
<1>3. t \in Thread /\ Locals(t, t.pc) /\ t.put = <<>> /\ t.r = "user" /\ cwd[p] \in INO
  BY <1>1, <1>2, Rest DEF Putting
<1>4. t.cur = 0 /\ t.dp = 0 /\ i \in INO /\ t.call # None
  BY <1>2, <1>3, IpRest DEF WithDp, WithIp
<1>5. \A j \in INO : Own(t, cwd[p], j) = One(j, cwd[p]) + One(j, t.cur) + One(j, t.dp) + One(j, t.ip)
  BY <1>2, <1>3, OwnRest
<1>6. lock_panic(i) # "ilock"
  BY <1>2, <1>4, InCache
<1>7. ASSUME Panic(lock_panic(i)) PROVE Inv'
  BY <1>6, <1>7, PanicStep
<1>8. \/ Panic(lock_panic(i))
      \/ /\ panicked' = panicked /\ icache' = c
         /\ th' = [th EXCEPT ![p] = [[t EXCEPT !.ip = 0] EXCEPT !.pc = "put", !.put = <<put(i)>>, !.r = "user"]]
      \/ /\ panicked' = panicked /\ icache' = c
         /\ th' = [th EXCEPT ![p] = [t EXCEPT !.pc = "put", !.put = <<put(cwd[p])>>, !.r = "chdir_set"]]
  BY <1>6, <1>2, <1>3, <1>4 DEF sys_chdir, ilock, puts, go
<1>9. ASSUME panicked' = panicked, icache' = c,
            th' = [th EXCEPT ![p] = [[t EXCEPT !.ip = 0] EXCEPT !.pc = "put", !.put = <<put(i)>>, !.r = "user"]]
      PROVE  Inv'
  <2> DEFINE u == [[t EXCEPT !.ip = 0] EXCEPT !.pc = "put", !.put = <<put(i)>>, !.r = "user"]
  <2>10. th' = [th EXCEPT ![p] = u] /\ UNCHANGED <<file, ofile, cwd, panicked>>
    BY <1>2, <1>9
  <2>1. /\ u \in Thread /\ u.pc = "put" /\ u.call = t.call /\ u.path = t.path /\ u.par = t.par
        /\ u.cur = t.cur /\ u.k = t.k /\ u.kf = t.kf /\ u.ip = 0 /\ u.dp = t.dp /\ u.put = <<put(i)>>
        /\ u.r = "user"
    BY <1>2, <1>3, <1>4, <1>9, Labels DEF Thread
  <2> HIDE DEF u
  <2>2. ThreadOK(u) /\ Where(u) # "exit_done"
    BY <1>2, <1>3, <1>4, <2>1, Finite DEF ThreadOK, PutsOK, Locals, Where, Putting, WithDp, WithIp, Idle, LookupOK
  <2>3. Gains(p, u, 0)
    <3> SUFFICES ASSUME NEW j \in INO PROVE Own(u, cwd[p], j) = Own(t, cwd[p], j) + One(j, 0)
      BY DEF Gains
    <3>1. Own(u, cwd[p], j) = One(j, cwd[p]) + One(j, u.cur) + One(j, u.dp) + One(j, u.ip) + One(j, put(i)[2])
      BY <1>2, <1>3, <1>4, <2>1, OwnPut
    <3> QED BY <1>5, <3>1, <1>4, <2>1, Ones DEF put, unlockput
  <2>4. Keeps(p, u)
    BY <1>2, <1>3, <1>4, <2>1 DEF Keeps, LockedBy, Where, Putting, put, unlockput
  <2>5. Like(icache', p, 0, 0)
    BY <1>1, <1>4, <1>9, LikeLoaded
  <2>7. disk' \in Disks /\ orphan' \subseteq INO /\ stale' \in BOOLEAN
    BY <1>1, <1>2, <1>9 DEF State
  <2> QED BY <1>3, <2>1, <2>2, <2>3, <2>4, <2>5, <2>7, <2>10, Finite, MoveStep
<1>10. ASSUME panicked' = panicked, icache' = c,
            th' = [th EXCEPT ![p] = [t EXCEPT !.pc = "put", !.put = <<put(cwd[p])>>, !.r = "chdir_set"]]
      PROVE  Inv'
  <2> DEFINE u == [t EXCEPT !.pc = "put", !.put = <<put(cwd[p])>>, !.r = "chdir_set"]
  <2>10. th' = [th EXCEPT ![p] = u] /\ UNCHANGED <<file, ofile, cwd, panicked>>
    BY <1>2, <1>10
  <2>1. /\ u \in Thread /\ u.pc = "put" /\ u.call = t.call /\ u.path = t.path /\ u.par = t.par
        /\ u.cur = t.cur /\ u.k = t.k /\ u.kf = t.kf /\ u.ip = t.ip /\ u.dp = t.dp
        /\ u.put = <<put(cwd[p])>> /\ u.r = "chdir_set"
    BY <1>2, <1>3, <1>4, <1>10, Labels DEF Thread
  <2> HIDE DEF u
  <2>2. ThreadOK(u) /\ Where(u) # "exit_done"
    BY <1>2, <1>3, <1>4, <2>1, Finite DEF ThreadOK, PutsOK, Locals, Where, Putting, WithDp, WithIp, Idle, LookupOK
  <2>3. Gains(p, u, 0)
    <3> SUFFICES ASSUME NEW j \in INO PROVE Own(u, cwd[p], j) = Own(t, cwd[p], j) + One(j, 0)
      BY DEF Gains
    <3>1. /\ Own1(u, cwd[p], j) = 0 /\ Own2(u, j) = One(j, t.cur) /\ Own3(u, j) = One(j, t.dp)
          /\ Own4(u, j) = One(j, t.ip) /\ Own5(u, j) = One(j, cwd[p]) /\ Own6(u, j) = 0
      BY <1>2, <1>3, <1>4, <2>1 DEF Own1, Own2, Own3, Own4, Own5, Own6, B, One, OnCwd, put
    <3> QED BY <1>5, <3>1, Ones DEF Own
  <2>4. Keeps(p, u)
    BY <1>2, <1>3, <1>4, <2>1 DEF Keeps, LockedBy, Where, Putting, put, unlockput
  <2>5. Like(icache', p, 0, 0)
    BY <1>1, <1>4, <1>10, LikeLoaded
  <2>7. disk' \in Disks /\ orphan' \subseteq INO /\ stale' \in BOOLEAN
    BY <1>1, <1>2, <1>10 DEF State
  <2> QED BY <1>3, <2>1, <2>2, <2>3, <2>4, <2>5, <2>7, <2>10, Finite, MoveStep
<1> QED BY <1>7, <1>8, <1>9, <1>10

\* One round of namex().
LEMMA NamexStep == ASSUME Inv, NEW p \in Proc, namex(p) PROVE Inv'
<1> DEFINE t == th[p]
           i == t.cur
           c == loaded(icache, i)
           next == disk[i].ents[Head(t.path)]
           done == [t EXCEPT !.cur = 0, !.k = "user", !.kf = "user"]
<1>1. State(p)
  BY Known
<1>2. t.pc = "namex" /\ UNCHANGED <<disk, file, ofile, cwd, orphan>>
  BY DEF namex, at
<1>3. t \in Thread /\ Locals(t, t.pc) /\ t.put = <<>> /\ t.r = "user" /\ cwd[p] \in INO
  BY <1>1, <1>2, Rest DEF Putting
<1>4. t.dp = 0 /\ i \in INO /\ t.call # None /\ LookupOK(t) /\ t.path \in Seq(Elem)
  BY <1>2, <1>3 DEF Locals, WithDp, WithIp, Idle, Thread
<1>5. /\ t.par => t.k \in {"unlink_dp", "create_dp", "link_dp"}
      /\ ~t.par => t.k \in {"link_ip", "open_ip", "chdir_ip"}
      /\ t.kf \in {"user", "link_bad"}
  BY <1>4 DEF LookupOK
<1>6. \A j \in INO : Own(t, cwd[p], j) = One(j, cwd[p]) + One(j, t.cur) + One(j, t.dp) + One(j, t.ip)
  BY <1>2, <1>3, OwnRest
<1>7. lock_panic(i) # "ilock"
  BY <1>2, <1>4, InCache
<1>8. ASSUME Panic(lock_panic(i)) \/ Panic("iget: no inodes") PROVE Inv'
  BY <1>7, <1>8, PanicStep
<1>9. \/ Panic(lock_panic(i)) \/ Panic("iget: no inodes")
      \/ /\ panicked' = panicked /\ icache' = c /\ stale' = stale /\ t.par /\ Len(t.path) = 1
         /\ th' = [th EXCEPT ![p] = [done EXCEPT !.pc = t.k, !.dp = i]]
      \/ /\ panicked' = panicked /\ icache' = c /\ stale' = stale
         /\ th' = [th EXCEPT ![p] = [[done EXCEPT !.path = <<>>] EXCEPT !.pc = "put", !.put = <<put(i)>>, !.r = t.kf]]
      \/ /\ panicked' = panicked /\ icache' = iget(c, next) /\ stale' \in BOOLEAN /\ next # 0
         /\ t.path # <<>>
         /\ th' = [th EXCEPT ![p] = [[t EXCEPT !.cur = next, !.path = Tail(@)] EXCEPT !.pc = "put", !.put = <<put(i)>>, !.r = "namex"]]
  BY <1>7, <1>2, <1>3, <1>4, <1>5, <1>1, Zenon DEF namex, ilock_iget, ilock, puts, go, at, State
<1>10. ASSUME panicked' = panicked, icache' = c, stale' = stale, t.par, Len(t.path) = 1,
            th' = [th EXCEPT ![p] = [done EXCEPT !.pc = t.k, !.dp = i]]
      PROVE  Inv'
  <2> DEFINE u == [done EXCEPT !.pc = t.k, !.dp = i]
  <2>10. th' = [th EXCEPT ![p] = u] /\ UNCHANGED <<file, ofile, cwd, panicked>>
    BY <1>2, <1>10
  <2>1. /\ u \in Thread /\ u.pc = t.k /\ u.call = t.call /\ u.path = t.path /\ u.par = t.par /\ u.cur = 0
        /\ u.k = "user" /\ u.kf = "user" /\ u.ip = t.ip /\ u.dp = i /\ u.put = t.put /\ u.r = t.r
    BY <1>2, <1>3, <1>4, <1>5, <1>10, Labels DEF Thread
  <2> HIDE DEF u
  <2>2. ThreadOK(u) /\ Where(u) # "exit_done"
    BY <1>2, <1>3, <1>4, <1>5, <1>10, <2>1, Finite DEF ThreadOK, PutsOK, Locals, Where, Putting, WithDp, WithIp, Idle, LookupOK
  <2>3. Gains(p, u, 0)
    <3> SUFFICES ASSUME NEW j \in INO PROVE Own(u, cwd[p], j) = Own(t, cwd[p], j) + One(j, 0)
      BY DEF Gains
    <3>1. Own(u, cwd[p], j) = One(j, cwd[p]) + One(j, u.cur) + One(j, u.dp) + One(j, u.ip)
      BY <1>2, <1>3, <1>4, <1>5, <1>10, <2>1, OwnRest
    <3> QED BY <1>6, <3>1, <1>4, <2>1, Ones DEF put, unlockput
  <2>4. Keeps(p, u)
    BY <1>2, <1>3, <1>4, <1>5, <1>10, <2>1 DEF Keeps, LockedBy, Where, Putting, put, unlockput
  <2>5. Like(icache', p, 0, 0)
    BY <1>1, <1>4, <1>10, LikeLoaded
  <2>7. disk' \in Disks /\ orphan' \subseteq INO /\ stale' \in BOOLEAN
    BY <1>1, <1>2, <1>10 DEF State
  <2> QED BY <1>3, <2>1, <2>2, <2>3, <2>4, <2>5, <2>7, <2>10, Finite, MoveStep
<1>11. ASSUME panicked' = panicked, icache' = c, stale' = stale,
            th' = [th EXCEPT ![p] = [[done EXCEPT !.path = <<>>] EXCEPT !.pc = "put", !.put = <<put(i)>>, !.r = t.kf]]
      PROVE  Inv'
  <2> DEFINE u == [[done EXCEPT !.path = <<>>] EXCEPT !.pc = "put", !.put = <<put(i)>>, !.r = t.kf]
  <2>10. th' = [th EXCEPT ![p] = u] /\ UNCHANGED <<file, ofile, cwd, panicked>>
    BY <1>2, <1>11
  <2>1. /\ u \in Thread /\ u.pc = "put" /\ u.call = t.call /\ u.path = <<>> /\ u.par = t.par /\ u.cur = 0
        /\ u.k = "user" /\ u.kf = "user" /\ u.ip = t.ip /\ u.dp = t.dp /\ u.put = <<put(i)>> /\ u.r = t.kf
    BY <1>2, <1>3, <1>4, <1>5, <1>11, Labels DEF Thread
  <2> HIDE DEF u
  <2>2. ThreadOK(u) /\ Where(u) # "exit_done"
    BY <1>2, <1>3, <1>4, <1>5, <2>1, Finite DEF ThreadOK, PutsOK, Locals, Where, Putting, WithDp, WithIp, Idle, LookupOK
  <2>3. Gains(p, u, 0)
    <3> SUFFICES ASSUME NEW j \in INO PROVE Own(u, cwd[p], j) = Own(t, cwd[p], j) + One(j, 0)
      BY DEF Gains
    <3>1. Own(u, cwd[p], j) = One(j, cwd[p]) + One(j, u.cur) + One(j, u.dp) + One(j, u.ip) + One(j, put(i)[2])
      BY <1>2, <1>3, <1>4, <1>5, <2>1, OwnPut
    <3> QED BY <1>6, <3>1, <1>4, <2>1, Ones DEF put, unlockput
  <2>4. Keeps(p, u)
    BY <1>2, <1>3, <1>4, <1>5, <2>1 DEF Keeps, LockedBy, Where, Putting, put, unlockput
  <2>5. Like(icache', p, 0, 0)
    BY <1>1, <1>4, <1>11, LikeLoaded
  <2>7. disk' \in Disks /\ orphan' \subseteq INO /\ stale' \in BOOLEAN
    BY <1>1, <1>2, <1>11 DEF State
  <2> QED BY <1>3, <2>1, <2>2, <2>3, <2>4, <2>5, <2>7, <2>10, Finite, MoveStep
<1>12. ASSUME panicked' = panicked, icache' = iget(c, next), stale' \in BOOLEAN, next # 0, t.path # <<>>,
            th' = [th EXCEPT ![p] = [[t EXCEPT !.cur = next, !.path = Tail(@)] EXCEPT !.pc = "put", !.put = <<put(i)>>, !.r = "namex"]]
      PROVE  Inv'
  <2>20. next \in INO /\ Tail(t.path) \in Seq(Elem)
    BY <1>1, <1>4, <1>12, EntryOK DEF State
  <2> DEFINE u == [[t EXCEPT !.cur = next, !.path = Tail(@)] EXCEPT !.pc = "put", !.put = <<put(i)>>, !.r = "namex"]
  <2>10. th' = [th EXCEPT ![p] = u] /\ UNCHANGED <<file, ofile, cwd, panicked>>
    BY <1>2, <1>12
  <2>1. /\ u \in Thread /\ u.pc = "put" /\ u.call = t.call /\ u.path = Tail(t.path) /\ u.par = t.par
        /\ u.cur = next /\ u.k = t.k /\ u.kf = t.kf /\ u.ip = t.ip /\ u.dp = t.dp /\ u.put = <<put(i)>>
        /\ u.r = "namex"
    BY <1>2, <1>3, <1>4, <1>5, <1>12, <2>20, Labels, Zenon DEF Thread
  <2> HIDE DEF u
  <2>2. ThreadOK(u) /\ Where(u) # "exit_done"
    BY <1>2, <1>3, <1>4, <1>5, <2>20, <2>1, Finite DEF ThreadOK, PutsOK, Locals, Where, Putting, WithDp, WithIp, Idle, LookupOK
  <2>3. Gains(p, u, next)
    <3> SUFFICES ASSUME NEW j \in INO PROVE Own(u, cwd[p], j) = Own(t, cwd[p], j) + One(j, next)
      BY DEF Gains
    <3>1. Own(u, cwd[p], j) = One(j, cwd[p]) + One(j, u.cur) + One(j, u.dp) + One(j, u.ip) + One(j, put(i)[2])
      BY <1>2, <1>3, <1>4, <1>5, <2>20, <2>1, OwnPut
    <3> QED BY <1>6, <3>1, <1>4, <2>20, <2>1, Ones DEF put, unlockput
  <2>4. Keeps(p, u)
    BY <1>2, <1>3, <1>4, <1>5, <2>20, <2>1 DEF Keeps, LockedBy, Where, Putting, put, unlockput
  <2>5. Like(icache', p, 0, next)
    BY <1>1, <1>4, <1>12, <2>20, LikeLoaded, LikeGet
  <2>7. disk' \in Disks /\ orphan' \subseteq INO /\ stale' \in BOOLEAN
    BY <1>1, <1>2, <1>12 DEF State
  <2> QED BY <1>3, <2>1, <2>2, <2>3, <2>4, <2>5, <2>7, <2>10, Finite, MoveStep, Zenon
<1> QED BY <1>8, <1>9, <1>10, <1>11, <1>12

\* The end of namex().
LEMMA NamexEndStep == ASSUME Inv, NEW p \in Proc, namex_end(p) PROVE Inv'
<1> DEFINE t == th[p]
           i == t.cur
           done == [t EXCEPT !.cur = 0, !.k = "user", !.kf = "user"]
<1>1. State(p)
  BY Known
<1>2. t.pc = "namex" /\ UNCHANGED <<disk, icache, file, ofile, cwd, panicked, orphan, stale>>
  BY DEF namex_end, at
<1>3. t \in Thread /\ Locals(t, t.pc) /\ t.put = <<>> /\ t.r = "user" /\ cwd[p] \in INO
  BY <1>1, <1>2, Rest DEF Putting
<1>4. t.dp = 0 /\ i \in INO /\ t.call # None /\ LookupOK(t) /\ t.path \in Seq(Elem)
  BY <1>2, <1>3 DEF Locals, WithDp, WithIp, Idle, Thread
<1>5. /\ t.par => t.k \in {"unlink_dp", "create_dp", "link_dp"}
      /\ ~t.par => t.k \in {"link_ip", "open_ip", "chdir_ip"}
      /\ t.kf \in {"user", "link_bad"}
  BY <1>4 DEF LookupOK
<1>6. \A j \in INO : Own(t, cwd[p], j) = One(j, cwd[p]) + One(j, t.cur) + One(j, t.dp) + One(j, t.ip)
  BY <1>2, <1>3, OwnRest
<1>7. \/ /\ t.par /\ icache' = icache
         /\ th' = [th EXCEPT ![p] = [done EXCEPT !.pc = "put", !.put = <<put(i)>>, !.r = t.kf]]
      \/ ~t.par /\ icache' = icache /\ th' = [th EXCEPT ![p] = [done EXCEPT !.pc = t.k, !.ip = i]]
  BY <1>2, <1>3, <1>4, <1>5 DEF namex_end, puts, go
<1>8. ASSUME t.par, icache' = icache,
            th' = [th EXCEPT ![p] = [done EXCEPT !.pc = "put", !.put = <<put(i)>>, !.r = t.kf]]
      PROVE  Inv'
  <2> DEFINE u == [done EXCEPT !.pc = "put", !.put = <<put(i)>>, !.r = t.kf]
  <2>10. th' = [th EXCEPT ![p] = u] /\ UNCHANGED <<file, ofile, cwd, panicked>>
    BY <1>2, <1>8
  <2>1. /\ u \in Thread /\ u.pc = "put" /\ u.call = t.call /\ u.path = t.path /\ u.par = t.par /\ u.cur = 0
        /\ u.k = "user" /\ u.kf = "user" /\ u.ip = t.ip /\ u.dp = t.dp /\ u.put = <<put(i)>> /\ u.r = t.kf
    BY <1>2, <1>3, <1>4, <1>5, <1>8, Labels DEF Thread
  <2> HIDE DEF u
  <2>2. ThreadOK(u) /\ Where(u) # "exit_done"
    BY <1>2, <1>3, <1>4, <1>5, <1>8, <2>1, Finite DEF ThreadOK, PutsOK, Locals, Where, Putting, WithDp, WithIp, Idle, LookupOK
  <2>3. Gains(p, u, 0)
    <3> SUFFICES ASSUME NEW j \in INO PROVE Own(u, cwd[p], j) = Own(t, cwd[p], j) + One(j, 0)
      BY DEF Gains
    <3>1. Own(u, cwd[p], j) = One(j, cwd[p]) + One(j, u.cur) + One(j, u.dp) + One(j, u.ip) + One(j, put(i)[2])
      BY <1>2, <1>3, <1>4, <1>5, <1>8, <2>1, OwnPut
    <3> QED BY <1>6, <3>1, <1>4, <2>1, Ones DEF put, unlockput
  <2>4. Keeps(p, u)
    BY <1>2, <1>3, <1>4, <1>5, <1>8, <2>1 DEF Keeps, LockedBy, Where, Putting, put, unlockput
  <2>5. Like(icache', p, 0, 0)
    BY <1>1, <1>8, LikeItself
  <2>7. disk' \in Disks /\ orphan' \subseteq INO /\ stale' \in BOOLEAN
    BY <1>1, <1>2, <1>8 DEF State
  <2> QED BY <1>3, <2>1, <2>2, <2>3, <2>4, <2>5, <2>7, <2>10, Finite, MoveStep
<1>9. ASSUME ~t.par, icache' = icache,
            th' = [th EXCEPT ![p] = [done EXCEPT !.pc = t.k, !.ip = i]]
      PROVE  Inv'
  <2>20. t.ip = 0
    BY <1>2, <1>3, <1>5, <1>9 DEF Locals, WithIp
  <2> DEFINE u == [done EXCEPT !.pc = t.k, !.ip = i]
  <2>10. th' = [th EXCEPT ![p] = u] /\ UNCHANGED <<file, ofile, cwd, panicked>>
    BY <1>2, <1>9
  <2>1. /\ u \in Thread /\ u.pc = t.k /\ u.call = t.call /\ u.path = t.path /\ u.par = t.par /\ u.cur = 0
        /\ u.k = "user" /\ u.kf = "user" /\ u.ip = i /\ u.dp = t.dp /\ u.put = t.put /\ u.r = t.r
    BY <1>2, <1>3, <1>4, <1>5, <1>9, <2>20, Labels DEF Thread
  <2> HIDE DEF u
  <2>2. ThreadOK(u) /\ Where(u) # "exit_done"
    BY <1>2, <1>3, <1>4, <1>5, <1>9, <2>20, <2>1, Finite DEF ThreadOK, PutsOK, Locals, Where, Putting, WithDp, WithIp, Idle, LookupOK
  <2>3. Gains(p, u, 0)
    <3> SUFFICES ASSUME NEW j \in INO PROVE Own(u, cwd[p], j) = Own(t, cwd[p], j) + One(j, 0)
      BY DEF Gains
    <3>1. Own(u, cwd[p], j) = One(j, cwd[p]) + One(j, u.cur) + One(j, u.dp) + One(j, u.ip)
      BY <1>2, <1>3, <1>4, <1>5, <1>9, <2>20, <2>1, OwnRest
    <3> QED BY <1>6, <3>1, <1>4, <2>20, <2>1, Ones DEF put, unlockput
  <2>4. Keeps(p, u)
    BY <1>2, <1>3, <1>4, <1>5, <1>9, <2>20, <2>1 DEF Keeps, LockedBy, Where, Putting, put, unlockput
  <2>5. Like(icache', p, 0, 0)
    BY <1>1, <1>9, LikeItself
  <2>7. disk' \in Disks /\ orphan' \subseteq INO /\ stale' \in BOOLEAN
    BY <1>1, <1>2, <1>9 DEF State
  <2> QED BY <1>3, <2>1, <2>2, <2>3, <2>4, <2>5, <2>7, <2>10, Finite, MoveStep
<1> QED BY <1>7, <1>8, <1>9

\* sys_link(): the link is counted before its name is looked up.
LEMMA LinkStep == ASSUME Inv, NEW p \in Proc, sys_link(p) PROVE Inv'
<1> DEFINE t == th[p]
           i == t.ip
           c == loaded(icache, i)
           linked == [c EXCEPT ![i].nlink = @ + 1]
           s == Start(p, t.call.new)
           new == Relative(t.call.new)
<1>1. State(p)
  BY Known
<1>2. t.pc = "link_ip" /\ UNCHANGED <<file, ofile, cwd, orphan, stale>>
  BY DEF sys_link, at
<1>3. t \in Thread /\ Locals(t, t.pc) /\ t.put = <<>> /\ t.r = "user" /\ cwd[p] \in INO
  BY <1>1, <1>2, Rest DEF Putting
<1>4. t.cur = 0 /\ t.dp = 0 /\ i \in INO /\ t.call # None
  BY <1>2, <1>3, IpRest DEF WithDp, WithIp
<1>5. \A j \in INO : Own(t, cwd[p], j) = One(j, cwd[p]) + One(j, t.cur) + One(j, t.dp) + One(j, t.ip)
  BY <1>2, <1>3, OwnRest
<1>6. lock_panic(i) # "ilock"
  BY <1>2, <1>4, InCache
<1>7. ASSUME Panic(lock_panic(i)) \/ Panic("iget: no inodes") PROVE Inv'
  BY <1>6, <1>7, PanicStep
<1>8. \/ Panic(lock_panic(i)) \/ Panic("iget: no inodes")
      \/ /\ panicked' = panicked /\ icache' = c /\ disk' = disk
         /\ th' = [th EXCEPT ![p] = [[t EXCEPT !.ip = 0] EXCEPT !.pc = "put", !.put = <<put(i)>>, !.r = "user"]]
      \/ /\ panicked' = panicked /\ disk' = iupdate(disk, linked, i)
         /\ icache' = iget(link_unlock(linked, p, i), s)
         /\ th' = [th EXCEPT ![p] = [t EXCEPT !.pc = "namex", !.path = new, !.par = TRUE, !.cur = s, !.k = "link_dp", !.kf = "link_bad"]]
  BY <1>6, <1>2, <1>3, <1>4 DEF sys_link, ilock_iget, ilock, puts, go, lookup
<1>9. ASSUME panicked' = panicked, icache' = c, disk' = disk,
            th' = [th EXCEPT ![p] = [[t EXCEPT !.ip = 0] EXCEPT !.pc = "put", !.put = <<put(i)>>, !.r = "user"]]
      PROVE  Inv'
  <2> DEFINE u == [[t EXCEPT !.ip = 0] EXCEPT !.pc = "put", !.put = <<put(i)>>, !.r = "user"]
  <2>10. th' = [th EXCEPT ![p] = u] /\ UNCHANGED <<file, ofile, cwd, panicked>>
    BY <1>2, <1>9
  <2>1. /\ u \in Thread /\ u.pc = "put" /\ u.call = t.call /\ u.path = t.path /\ u.par = t.par
        /\ u.cur = t.cur /\ u.k = t.k /\ u.kf = t.kf /\ u.ip = 0 /\ u.dp = t.dp /\ u.put = <<put(i)>>
        /\ u.r = "user"
    BY <1>2, <1>3, <1>4, <1>9, Labels DEF Thread
  <2> HIDE DEF u
  <2>2. ThreadOK(u) /\ Where(u) # "exit_done"
    BY <1>2, <1>3, <1>4, <2>1, Finite DEF ThreadOK, PutsOK, Locals, Where, Putting, WithDp, WithIp, Idle, LookupOK
  <2>3. Gains(p, u, 0)
    <3> SUFFICES ASSUME NEW j \in INO PROVE Own(u, cwd[p], j) = Own(t, cwd[p], j) + One(j, 0)
      BY DEF Gains
    <3>1. Own(u, cwd[p], j) = One(j, cwd[p]) + One(j, u.cur) + One(j, u.dp) + One(j, u.ip) + One(j, put(i)[2])
      BY <1>2, <1>3, <1>4, <2>1, OwnPut
    <3> QED BY <1>5, <3>1, <1>4, <2>1, Ones DEF put, unlockput
  <2>4. Keeps(p, u)
    BY <1>2, <1>3, <1>4, <2>1 DEF Keeps, LockedBy, Where, Putting, put, unlockput
  <2>5. Like(icache', p, 0, 0)
    BY <1>1, <1>4, <1>9, LikeLoaded
  <2>7. disk' \in Disks /\ orphan' \subseteq INO /\ stale' \in BOOLEAN
    BY <1>1, <1>2, <1>9 DEF State
  <2> QED BY <1>3, <2>1, <2>2, <2>3, <2>4, <2>5, <2>7, <2>10, Finite, MoveStep
<1>10. ASSUME panicked' = panicked, disk' = iupdate(disk, linked, i), icache' = iget(link_unlock(linked, p, i), s),
            th' = [th EXCEPT ![p] = [t EXCEPT !.pc = "namex", !.path = new, !.par = TRUE, !.cur = s, !.k = "link_dp", !.kf = "link_bad"]]
      PROVE  Inv'
  <2>20. s \in INO /\ new \in Seq(Elem)
    BY <1>3, <1>4, StartOK, CallOK DEF Thread
  <2> DEFINE u == [t EXCEPT !.pc = "namex", !.path = new, !.par = TRUE, !.cur = s, !.k = "link_dp", !.kf = "link_bad"]
  <2>10. th' = [th EXCEPT ![p] = u] /\ UNCHANGED <<file, ofile, cwd, panicked>>
    BY <1>2, <1>10
  <2>1. /\ u \in Thread /\ u.pc = "namex" /\ u.call = t.call /\ u.path = new /\ u.par = TRUE /\ u.cur = s
        /\ u.k = "link_dp" /\ u.kf = "link_bad" /\ u.ip = t.ip /\ u.dp = t.dp /\ u.put = t.put /\ u.r = t.r
    BY <1>2, <1>3, <1>4, <1>10, <2>20, Labels DEF Thread
  <2> HIDE DEF u
  <2>2. ThreadOK(u) /\ Where(u) # "exit_done"
    BY <1>2, <1>3, <1>4, <2>20, <2>1, Finite DEF ThreadOK, PutsOK, Locals, Where, Putting, WithDp, WithIp, Idle, LookupOK
  <2>3. Gains(p, u, s)
    <3> SUFFICES ASSUME NEW j \in INO PROVE Own(u, cwd[p], j) = Own(t, cwd[p], j) + One(j, s)
      BY DEF Gains
    <3>1. Own(u, cwd[p], j) = One(j, cwd[p]) + One(j, u.cur) + One(j, u.dp) + One(j, u.ip)
      BY <1>2, <1>3, <1>4, <2>20, <2>1, OwnRest
    <3> QED BY <1>5, <3>1, <1>4, <2>20, <2>1, Ones DEF put, unlockput
  <2>4. Keeps(p, u)
    BY <1>2, <1>3, <1>4, <2>20, <2>1 DEF Keeps, LockedBy, Where, Putting, put, unlockput
  <2>5. Like(icache', p, 0, s)
    <3>1. Like(c, p, 0, 0) /\ c[i].nlink + 1 \in Int
      BY <1>1, <1>4, LikeLoaded DEF Like, Caches
    <3>2. Like(linked, p, 0, 0)
      BY <3>1, <1>4, LikeNlink
    <3> HIDE DEF linked, c
    <3>3. Like(link_unlock(linked, p, i), p, 0, 0)
      BY <3>2, <1>4, LikeUnlock DEF link_unlock
    <3> HIDE DEF s
    <3> QED BY <1>1, <1>10, <2>20, <3>3, LikeGet
  <2>7. disk' \in Disks /\ orphan' \subseteq INO /\ stale' \in BOOLEAN
    <3>1. Like(c, p, 0, 0) /\ c[i].nlink + 1 \in Int
      BY <1>1, <1>4, LikeLoaded DEF Like, Caches
    <3>2. Like(linked, p, 0, 0)
      BY <3>1, <1>4, LikeNlink
    <3> HIDE DEF linked
    <3> QED BY <1>1, <1>2, <1>4, <1>10, <3>2, UpdateOK DEF State, Like
  <2> QED BY <1>3, <2>1, <2>2, <2>3, <2>4, <2>5, <2>7, <2>10, Finite, MoveStep
<1> QED BY <1>7, <1>8, <1>9, <1>10

\* sys_link() in the new directory.
LEMMA LinkDpStep == ASSUME Inv, NEW p \in Proc, link_dp(p) PROVE Inv'
<1> DEFINE t == th[p]
           i == t.ip
           dp == t.dp
           e == disk[dp].ents[Head(t.path)]
           c == loaded(icache, dp)
<1>1. State(p)
  BY Known
<1>2. t.pc = "link_dp" /\ UNCHANGED <<file, ofile, cwd, stale>>
  BY Zenon DEF link_dp, at
<1>3. t \in Thread /\ Locals(t, t.pc) /\ t.put = <<>> /\ t.r = "user" /\ cwd[p] \in INO
  BY <1>1, <1>2, Rest DEF Putting
<1>4. t.cur = 0 /\ dp \in INO /\ t.call # None /\ t.path \in Seq(Elem) /\ t.path # <<>> /\ i \in INO
  BY <1>2, <1>3, DpRest DEF WithDp, WithIp
<1>5. \A j \in INO : Own(t, cwd[p], j) = One(j, cwd[p]) + One(j, t.cur) + One(j, t.dp) + One(j, t.ip)
  BY <1>2, <1>3, OwnRest
<1>6. lock_panic(dp) # "ilock"
  BY <1>2, <1>4, InCache
<1>7. ASSUME Panic(lock_panic(dp)) \/ Panic("dirlookup not DIR") \/ Panic("iget: no inodes") PROVE Inv'
  BY <1>6, <1>7, PanicStep
<1>8. \/ Panic(lock_panic(dp)) \/ Panic("dirlookup not DIR") \/ Panic("iget: no inodes")
      \/ /\ panicked' = panicked /\ icache' = [iget(c, e) EXCEPT ![dp].lock = p] /\ disk' = disk
         /\ orphan' = orphan /\ e # 0
         /\ th' = [th EXCEPT ![p] = [[t EXCEPT !.dp = 0, !.path = <<>>] EXCEPT !.pc = "put", !.put = <<put(e), unlockput(dp)>>, !.r = "link_bad"]]
      \/ /\ panicked' = panicked /\ icache' = c /\ link_in(disk, dp, Head(t.path), i)
         /\ th' = [th EXCEPT ![p] = [[t EXCEPT !.ip = 0, !.dp = 0] EXCEPT !.pc = "put", !.put = <<put(dp), put(i)>>, !.r = "user"]]
  BY <1>6, <1>2, <1>3, <1>4, Zenon DEF link_dp, dirlock, ilock_iget, ilock, puts, go
<1>9. ASSUME panicked' = panicked, icache' = [iget(c, e) EXCEPT ![dp].lock = p], disk' = disk, orphan' = orphan, e # 0,
            th' = [th EXCEPT ![p] = [[t EXCEPT !.dp = 0, !.path = <<>>] EXCEPT !.pc = "put", !.put = <<put(e), unlockput(dp)>>, !.r = "link_bad"]]
      PROVE  Inv'
  <2>20. e \in INO
    BY <1>1, <1>4, <1>9, EntryOK, Zenon DEF State
  <2> HIDE DEF e
  <2> DEFINE u == [[t EXCEPT !.dp = 0, !.path = <<>>] EXCEPT !.pc = "put", !.put = <<put(e), unlockput(dp)>>, !.r = "link_bad"]
  <2>10. th' = [th EXCEPT ![p] = u] /\ UNCHANGED <<file, ofile, cwd, panicked>>
    BY <1>2, <1>9
  <2>1. /\ u \in Thread /\ u.pc = "put" /\ u.call = t.call /\ u.path = <<>> /\ u.par = t.par
        /\ u.cur = t.cur /\ u.k = t.k /\ u.kf = t.kf /\ u.ip = t.ip /\ u.dp = 0
        /\ u.put = <<put(e), unlockput(dp)>> /\ u.r = "link_bad"
    BY <1>2, <1>3, <1>4, <1>9, <2>20, Labels DEF Thread
  <2> HIDE DEF u
  <2>2. ThreadOK(u) /\ Where(u) # "exit_done"
    BY <1>2, <1>3, <1>4, <2>20, <2>1, Finite DEF ThreadOK, PutsOK, Locals, Where, Putting, WithDp, WithIp, Idle, LookupOK
  <2>3. Gains(p, u, e)
    <3> SUFFICES ASSUME NEW j \in INO PROVE Own(u, cwd[p], j) = Own(t, cwd[p], j) + One(j, e)
      BY DEF Gains
    <3>1. Own(u, cwd[p], j) = One(j, cwd[p]) + One(j, u.cur) + One(j, u.dp) + One(j, u.ip) + One(j, put(e)[2]) + One(j, unlockput(dp)[2])
      BY <1>2, <1>3, <1>4, <2>20, <2>1, OwnPuts
    <3> QED BY <1>5, <3>1, <1>4, <2>20, <2>1, Ones DEF put, unlockput
  <2>4. Keeps(p, u)
    BY <1>2, <1>3, <1>4, <2>20, <2>1 DEF Keeps, LockedBy, Where, Putting, put, unlockput
  <2>5. Like(icache', p, dp, e)
    <3>1. Like(c, p, 0, 0)
      BY <1>1, <1>4, LikeLoaded
    <3> HIDE DEF c
    <3>2. Like(iget(c, e), p, 0, e)
      BY <1>1, <2>20, <3>1, LikeGet
    <3> QED BY <1>4, <1>9, <3>2, LikeLock
  <2>6. LockedBy(u, dp)
    <3>1. 2 \in 1..Len(u.put) /\ u.put[2] = unlockput(dp)
      BY <2>1
    <3> QED BY <3>1 DEF LockedBy
  <2>7. disk' \in Disks /\ orphan' \subseteq INO /\ stale' \in BOOLEAN
    BY <1>1, <1>2, <1>9 DEF State
  <2> QED BY <1>3, <2>1, <2>2, <2>3, <2>4, <2>5, <2>6, <2>7, <2>10, Finite, MoveStep
<1>10. ASSUME panicked' = panicked, icache' = c, link_in(disk, dp, Head(t.path), i),
            th' = [th EXCEPT ![p] = [[t EXCEPT !.ip = 0, !.dp = 0] EXCEPT !.pc = "put", !.put = <<put(dp), put(i)>>, !.r = "user"]]
      PROVE  Inv'
  <2> DEFINE u == [[t EXCEPT !.ip = 0, !.dp = 0] EXCEPT !.pc = "put", !.put = <<put(dp), put(i)>>, !.r = "user"]
  <2>10. th' = [th EXCEPT ![p] = u] /\ UNCHANGED <<file, ofile, cwd, panicked>>
    BY <1>2, <1>10
  <2>1. /\ u \in Thread /\ u.pc = "put" /\ u.call = t.call /\ u.path = t.path /\ u.par = t.par
        /\ u.cur = t.cur /\ u.k = t.k /\ u.kf = t.kf /\ u.ip = 0 /\ u.dp = 0 /\ u.put = <<put(dp), put(i)>>
        /\ u.r = "user"
    BY <1>2, <1>3, <1>4, <1>10, Labels DEF Thread
  <2> HIDE DEF u
  <2>2. ThreadOK(u) /\ Where(u) # "exit_done"
    BY <1>2, <1>3, <1>4, <2>1, Finite DEF ThreadOK, PutsOK, Locals, Where, Putting, WithDp, WithIp, Idle, LookupOK
  <2>3. Gains(p, u, 0)
    <3> SUFFICES ASSUME NEW j \in INO PROVE Own(u, cwd[p], j) = Own(t, cwd[p], j) + One(j, 0)
      BY DEF Gains
    <3>1. Own(u, cwd[p], j) = One(j, cwd[p]) + One(j, u.cur) + One(j, u.dp) + One(j, u.ip) + One(j, put(dp)[2]) + One(j, put(i)[2])
      BY <1>2, <1>3, <1>4, <2>1, OwnPuts
    <3> QED BY <1>5, <3>1, <1>4, <2>1, Ones DEF put, unlockput
  <2>4. Keeps(p, u)
    BY <1>2, <1>3, <1>4, <2>1 DEF Keeps, LockedBy, Where, Putting, put, unlockput
  <2>5. Like(icache', p, 0, 0)
    BY <1>1, <1>4, <1>10, LikeLoaded
  <2>7. disk' \in Disks /\ orphan' \subseteq INO /\ stale' \in BOOLEAN
    <3>1. Head(t.path) \in Elem
      BY <1>1, <1>4, EntryOK DEF State
    <3> QED BY <1>1, <1>2, <1>4, <1>10, <3>1, LinkInOK DEF State
  <2> QED BY <1>3, <2>1, <2>2, <2>3, <2>4, <2>5, <2>7, <2>10, Finite, MoveStep
<1> QED BY <1>7, <1>8, <1>9, <1>10, Zenon

\* sys_link() takes the count back.
LEMMA LinkBadStep == ASSUME Inv, NEW p \in Proc, link_bad(p) PROVE Inv'
<1> DEFINE t == th[p]
           i == t.ip
           c == [loaded(icache, i) EXCEPT ![i].nlink = @ - 1]
<1>1. State(p)
  BY Known
<1>2. t.pc = "link_bad" /\ UNCHANGED <<file, ofile, cwd, orphan, stale>>
  BY DEF link_bad, at
<1>3. t \in Thread /\ Locals(t, t.pc) /\ t.put = <<>> /\ t.r = "user" /\ cwd[p] \in INO
  BY <1>1, <1>2, Rest DEF Putting
<1>4. t.cur = 0 /\ t.dp = 0 /\ i \in INO /\ t.call # None
  BY <1>2, <1>3, IpRest DEF WithDp, WithIp
<1>5. \A j \in INO : Own(t, cwd[p], j) = One(j, cwd[p]) + One(j, t.cur) + One(j, t.dp) + One(j, t.ip)
  BY <1>2, <1>3, OwnRest
<1>6. lock_panic(i) # "ilock"
  BY <1>2, <1>4, InCache
<1>7. ASSUME Panic(lock_panic(i)) PROVE Inv'
  BY <1>6, <1>7, PanicStep
<1>8. \/ Panic(lock_panic(i))
      \/ /\ panicked' = panicked /\ icache' = c /\ disk' = iupdate(disk, c, i)
         /\ th' = [th EXCEPT ![p] = [[t EXCEPT !.ip = 0] EXCEPT !.pc = "put", !.put = <<put(i)>>, !.r = "user"]]
  BY <1>6, <1>2, <1>3, <1>4 DEF link_bad, ilock, puts, go
<1>9. ASSUME panicked' = panicked, icache' = c, disk' = iupdate(disk, c, i),
            th' = [th EXCEPT ![p] = [[t EXCEPT !.ip = 0] EXCEPT !.pc = "put", !.put = <<put(i)>>, !.r = "user"]]
      PROVE  Inv'
  <2> DEFINE u == [[t EXCEPT !.ip = 0] EXCEPT !.pc = "put", !.put = <<put(i)>>, !.r = "user"]
  <2>10. th' = [th EXCEPT ![p] = u] /\ UNCHANGED <<file, ofile, cwd, panicked>>
    BY <1>2, <1>9
  <2>1. /\ u \in Thread /\ u.pc = "put" /\ u.call = t.call /\ u.path = t.path /\ u.par = t.par
        /\ u.cur = t.cur /\ u.k = t.k /\ u.kf = t.kf /\ u.ip = 0 /\ u.dp = t.dp /\ u.put = <<put(i)>>
        /\ u.r = "user"
    BY <1>2, <1>3, <1>4, <1>9, Labels DEF Thread
  <2> HIDE DEF u
  <2>2. ThreadOK(u) /\ Where(u) # "exit_done"
    BY <1>2, <1>3, <1>4, <2>1, Finite DEF ThreadOK, PutsOK, Locals, Where, Putting, WithDp, WithIp, Idle, LookupOK
  <2>3. Gains(p, u, 0)
    <3> SUFFICES ASSUME NEW j \in INO PROVE Own(u, cwd[p], j) = Own(t, cwd[p], j) + One(j, 0)
      BY DEF Gains
    <3>1. Own(u, cwd[p], j) = One(j, cwd[p]) + One(j, u.cur) + One(j, u.dp) + One(j, u.ip) + One(j, put(i)[2])
      BY <1>2, <1>3, <1>4, <2>1, OwnPut
    <3> QED BY <1>5, <3>1, <1>4, <2>1, Ones DEF put, unlockput
  <2>4. Keeps(p, u)
    BY <1>2, <1>3, <1>4, <2>1 DEF Keeps, LockedBy, Where, Putting, put, unlockput
  <2>5. Like(icache', p, 0, 0)
    <3>1. Like(loaded(icache, i), p, 0, 0) /\ loaded(icache, i)[i].nlink - 1 \in Int
      BY <1>1, <1>4, LikeLoaded DEF Like, Caches
    <3> QED BY <1>4, <1>9, <3>1, LikeNlink
  <2>7. disk' \in Disks /\ orphan' \subseteq INO /\ stale' \in BOOLEAN
    BY <1>1, <1>2, <1>4, <1>9, <2>5, UpdateOK DEF State, Like
  <2> QED BY <1>3, <2>1, <2>2, <2>3, <2>4, <2>5, <2>7, <2>10, Finite, MoveStep
<1> QED BY <1>7, <1>8, <1>9

\* sys_unlink() in the directory.
LEMMA UnlinkStep == ASSUME Inv, NEW p \in Proc, sys_unlink(p) PROVE Inv'
<1> DEFINE t == th[p]
           dp == t.dp
           e == disk[dp].ents[Head(t.path)]
           c == [loaded(icache, dp) EXCEPT ![dp].lock = p]
<1>1. State(p)
  BY Known
<1>2. t.pc = "unlink_dp" /\ UNCHANGED <<disk, file, ofile, cwd, orphan, stale>>
  BY DEF sys_unlink, at
<1>3. t \in Thread /\ Locals(t, t.pc) /\ t.put = <<>> /\ t.r = "user" /\ cwd[p] \in INO
  BY <1>1, <1>2, Rest DEF Putting
<1>4. t.cur = 0 /\ dp \in INO /\ t.call # None /\ t.path \in Seq(Elem) /\ t.path # <<>> /\ t.ip = 0
  BY <1>2, <1>3, DpRest DEF WithDp, WithIp
<1>5. \A j \in INO : Own(t, cwd[p], j) = One(j, cwd[p]) + One(j, t.cur) + One(j, t.dp) + One(j, t.ip)
  BY <1>2, <1>3, OwnRest
<1>6. lock_panic(dp) # "ilock"
  BY <1>2, <1>4, InCache
<1>7. ASSUME Panic(lock_panic(dp)) \/ Panic("dirlookup not DIR") \/ Panic("iget: no inodes") PROVE Inv'
  BY <1>6, <1>7, PanicStep
<1>8. \/ Panic(lock_panic(dp)) \/ Panic("dirlookup not DIR") \/ Panic("iget: no inodes")
      \/ /\ panicked' = panicked /\ icache' = c
         /\ th' = [th EXCEPT ![p] = [[t EXCEPT !.dp = 0] EXCEPT !.pc = "put", !.put = <<unlockput(dp)>>, !.r = "user"]]
      \/ /\ panicked' = panicked /\ icache' = iget(c, e) /\ e # 0
         /\ th' = [th EXCEPT ![p] = [t EXCEPT !.pc = "unlink_ip", !.ip = e]]
  BY <1>6, <1>2, <1>3, <1>4 DEF sys_unlink, dirlock, ilock_iget, ilock, puts, go
<1>9. ASSUME panicked' = panicked, icache' = c,
            th' = [th EXCEPT ![p] = [[t EXCEPT !.dp = 0] EXCEPT !.pc = "put", !.put = <<unlockput(dp)>>, !.r = "user"]]
      PROVE  Inv'
  <2> DEFINE u == [[t EXCEPT !.dp = 0] EXCEPT !.pc = "put", !.put = <<unlockput(dp)>>, !.r = "user"]
  <2>10. th' = [th EXCEPT ![p] = u] /\ UNCHANGED <<file, ofile, cwd, panicked>>
    BY <1>2, <1>9
  <2>1. /\ u \in Thread /\ u.pc = "put" /\ u.call = t.call /\ u.path = t.path /\ u.par = t.par
        /\ u.cur = t.cur /\ u.k = t.k /\ u.kf = t.kf /\ u.ip = t.ip /\ u.dp = 0
        /\ u.put = <<unlockput(dp)>> /\ u.r = "user"
    BY <1>2, <1>3, <1>4, <1>9, Labels DEF Thread
  <2> HIDE DEF u
  <2>2. ThreadOK(u) /\ Where(u) # "exit_done"
    BY <1>2, <1>3, <1>4, <2>1, Finite DEF ThreadOK, PutsOK, Locals, Where, Putting, WithDp, WithIp, Idle, LookupOK
  <2>3. Gains(p, u, 0)
    <3> SUFFICES ASSUME NEW j \in INO PROVE Own(u, cwd[p], j) = Own(t, cwd[p], j) + One(j, 0)
      BY DEF Gains
    <3>1. Own(u, cwd[p], j) = One(j, cwd[p]) + One(j, u.cur) + One(j, u.dp) + One(j, u.ip) + One(j, unlockput(dp)[2])
      BY <1>2, <1>3, <1>4, <2>1, OwnPut
    <3> QED BY <1>5, <3>1, <1>4, <2>1, Ones DEF put, unlockput
  <2>4. Keeps(p, u)
    BY <1>2, <1>3, <1>4, <2>1 DEF Keeps, LockedBy, Where, Putting, put, unlockput
  <2>5. Like(icache', p, dp, 0)
    BY <1>1, <1>4, <1>9, LikeLoaded, LikeLock
  <2>6. LockedBy(u, dp)
    BY <1>2, <1>3, <1>4, <2>1 DEF LockedBy, Where, Putting, put, unlockput
  <2>7. disk' \in Disks /\ orphan' \subseteq INO /\ stale' \in BOOLEAN
    BY <1>1, <1>2, <1>9 DEF State
  <2> QED BY <1>3, <2>1, <2>2, <2>3, <2>4, <2>5, <2>6, <2>7, <2>10, Finite, MoveStep
<1>10. ASSUME panicked' = panicked, icache' = iget(c, e), e # 0,
            th' = [th EXCEPT ![p] = [t EXCEPT !.pc = "unlink_ip", !.ip = e]]
      PROVE  Inv'
  <2>20. e \in INO
    BY <1>1, <1>4, <1>10, EntryOK DEF State
  <2> HIDE DEF e
  <2> DEFINE u == [t EXCEPT !.pc = "unlink_ip", !.ip = e]
  <2>10. th' = [th EXCEPT ![p] = u] /\ UNCHANGED <<file, ofile, cwd, panicked>>
    BY <1>2, <1>10
  <2>1. /\ u \in Thread /\ u.pc = "unlink_ip" /\ u.call = t.call /\ u.path = t.path /\ u.par = t.par
        /\ u.cur = t.cur /\ u.k = t.k /\ u.kf = t.kf /\ u.ip = e /\ u.dp = t.dp /\ u.put = t.put
        /\ u.r = t.r
    BY <1>2, <1>3, <1>4, <1>10, <2>20, Labels DEF Thread
  <2> HIDE DEF u
  <2>2. ThreadOK(u) /\ Where(u) # "exit_done"
    BY <1>2, <1>3, <1>4, <2>20, <2>1, Finite DEF ThreadOK, PutsOK, Locals, Where, Putting, WithDp, WithIp, Idle, LookupOK
  <2>3. Gains(p, u, e)
    <3> SUFFICES ASSUME NEW j \in INO PROVE Own(u, cwd[p], j) = Own(t, cwd[p], j) + One(j, e)
      BY DEF Gains
    <3>1. Own(u, cwd[p], j) = One(j, cwd[p]) + One(j, u.cur) + One(j, u.dp) + One(j, u.ip)
      BY <1>2, <1>3, <1>4, <2>20, <2>1, OwnRest
    <3> QED BY <1>5, <3>1, <1>4, <2>20, <2>1, Ones DEF put, unlockput
  <2>4. Keeps(p, u)
    BY <1>2, <1>3, <1>4, <2>20, <2>1 DEF Keeps, LockedBy, Where, Putting, put, unlockput
  <2>5. Like(icache', p, dp, e)
    <3>1. Like(c, p, dp, 0)
      BY <1>1, <1>4, LikeLoaded, LikeLock
    <3> HIDE DEF c
    <3> QED BY <1>1, <2>20, <1>10, <3>1, LikeGet
  <2>6. LockedBy(u, dp)
    BY <1>2, <1>3, <1>4, <2>20, <2>1 DEF LockedBy, Where, Putting, put, unlockput
  <2>7. disk' \in Disks /\ orphan' \subseteq INO /\ stale' \in BOOLEAN
    BY <1>1, <1>2, <1>10 DEF State
  <2> QED BY <1>3, <2>1, <2>2, <2>3, <2>4, <2>5, <2>6, <2>7, <2>10, Finite, MoveStep
<1> QED BY <1>7, <1>8, <1>9, <1>10

\* sys_unlink() of the entry.
LEMMA UnlinkIpStep == ASSUME Inv, NEW p \in Proc, unlink_ip(p) PROVE Inv'
<1> DEFINE t == th[p]
           i == t.ip
           dp == t.dp
           n == Head(t.path)
           c == [loaded(icache, i) EXCEPT ![i].lock = p]
           less == drop_dotdot(c, i, dp)
<1>1. State(p)
  BY Known
<1>2. t.pc = "unlink_ip" /\ UNCHANGED <<file, ofile, cwd, orphan, stale>>
  BY Zenon DEF unlink_ip, at
<1>3. t \in Thread /\ Locals(t, t.pc) /\ t.put = <<>> /\ t.r = "user" /\ cwd[p] \in INO
  BY <1>1, <1>2, Rest DEF Putting
<1>4. t.cur = 0 /\ dp \in INO /\ t.call # None /\ t.path \in Seq(Elem) /\ t.path # <<>> /\ i \in INO
  BY <1>2, <1>3, DpRest DEF WithDp, WithIp
<1>5. \A j \in INO : Own(t, cwd[p], j) = One(j, cwd[p]) + One(j, t.cur) + One(j, t.dp) + One(j, t.ip)
  BY <1>2, <1>3, OwnRest
<1>6. lock_panic(i) # "ilock"
  BY <1>2, <1>4, InCache
<1>7. ASSUME Panic(lock_panic(i)) \/ Panic("unlink: nlink < 1") PROVE Inv'
  BY <1>6, <1>7, PanicStep
<1>8. \/ Panic(lock_panic(i)) \/ Panic("unlink: nlink < 1")
      \/ /\ panicked' = panicked /\ icache' = c /\ disk' = disk
         /\ th' = [th EXCEPT ![p] = [[t EXCEPT !.ip = 0, !.dp = 0] EXCEPT !.pc = "put", !.put = <<unlockput(i), unlockput(dp)>>, !.r = "user"]]
      \/ /\ panicked' = panicked /\ icache' = less
         /\ disk' = [iupdate(disk, less, dp) EXCEPT ![dp].ents[n] = 0]
         /\ th' = [th EXCEPT ![p] = [[t EXCEPT !.dp = 0, !.path = <<>>] EXCEPT !.pc = "put", !.put = <<unlockput(dp)>>, !.r = "unlink_done"]]
  BY <1>6, <1>2, <1>3, <1>4, Zenon DEF unlink_ip, ilock, puts, go
<1>9. ASSUME panicked' = panicked, icache' = c, disk' = disk,
            th' = [th EXCEPT ![p] = [[t EXCEPT !.ip = 0, !.dp = 0] EXCEPT !.pc = "put", !.put = <<unlockput(i), unlockput(dp)>>, !.r = "user"]]
      PROVE  Inv'
  <2> DEFINE u == [[t EXCEPT !.ip = 0, !.dp = 0] EXCEPT !.pc = "put", !.put = <<unlockput(i), unlockput(dp)>>, !.r = "user"]
  <2>10. th' = [th EXCEPT ![p] = u] /\ UNCHANGED <<file, ofile, cwd, panicked>>
    BY <1>2, <1>9
  <2>1. /\ u \in Thread /\ u.pc = "put" /\ u.call = t.call /\ u.path = t.path /\ u.par = t.par
        /\ u.cur = t.cur /\ u.k = t.k /\ u.kf = t.kf /\ u.ip = 0 /\ u.dp = 0
        /\ u.put = <<unlockput(i), unlockput(dp)>> /\ u.r = "user"
    BY <1>2, <1>3, <1>4, <1>9, Labels DEF Thread
  <2> HIDE DEF u
  <2>2. ThreadOK(u) /\ Where(u) # "exit_done"
    BY <1>2, <1>3, <1>4, <2>1, Finite DEF ThreadOK, PutsOK, Locals, Where, Putting, WithDp, WithIp, Idle, LookupOK
  <2>3. Gains(p, u, 0)
    <3> SUFFICES ASSUME NEW j \in INO PROVE Own(u, cwd[p], j) = Own(t, cwd[p], j) + One(j, 0)
      BY DEF Gains
    <3>1. Own(u, cwd[p], j) = One(j, cwd[p]) + One(j, u.cur) + One(j, u.dp) + One(j, u.ip) + One(j, unlockput(i)[2]) + One(j, unlockput(dp)[2])
      BY <1>2, <1>3, <1>4, <2>1, OwnPuts
    <3> QED BY <1>5, <3>1, <1>4, <2>1, Ones DEF put, unlockput
  <2>4. Keeps(p, u)
    BY <1>2, <1>3, <1>4, <2>1 DEF Keeps, LockedBy, Where, Putting, put, unlockput
  <2>5. Like(icache', p, i, 0)
    BY <1>1, <1>4, <1>9, LikeLoaded, LikeLock
  <2>6. LockedBy(u, i)
    BY <1>2, <1>3, <1>4, <2>1 DEF LockedBy, Where, Putting, put, unlockput
  <2>7. disk' \in Disks /\ orphan' \subseteq INO /\ stale' \in BOOLEAN
    BY <1>1, <1>2, <1>9 DEF State
  <2> QED BY <1>3, <2>1, <2>2, <2>3, <2>4, <2>5, <2>6, <2>7, <2>10, Finite, MoveStep
<1>10. ASSUME panicked' = panicked, icache' = less, disk' = [iupdate(disk, less, dp) EXCEPT ![dp].ents[n] = 0],
            th' = [th EXCEPT ![p] = [[t EXCEPT !.dp = 0, !.path = <<>>] EXCEPT !.pc = "put", !.put = <<unlockput(dp)>>, !.r = "unlink_done"]]
      PROVE  Inv'
  <2> DEFINE u == [[t EXCEPT !.dp = 0, !.path = <<>>] EXCEPT !.pc = "put", !.put = <<unlockput(dp)>>, !.r = "unlink_done"]
  <2>10. th' = [th EXCEPT ![p] = u] /\ UNCHANGED <<file, ofile, cwd, panicked>>
    BY <1>2, <1>10, Zenon
  <2>1. /\ u \in Thread /\ u.pc = "put" /\ u.call = t.call /\ u.path = <<>> /\ u.par = t.par
        /\ u.cur = t.cur /\ u.k = t.k /\ u.kf = t.kf /\ u.ip = t.ip /\ u.dp = 0
        /\ u.put = <<unlockput(dp)>> /\ u.r = "unlink_done"
    BY <1>2, <1>3, <1>4, <1>10, Labels, Zenon DEF Thread
  <2> HIDE DEF u
  <2>2. ThreadOK(u) /\ Where(u) # "exit_done"
    BY <1>2, <1>3, <1>4, <2>1, Finite DEF ThreadOK, PutsOK, Locals, Where, Putting, WithDp, WithIp, Idle, LookupOK
  <2>3. Gains(p, u, 0)
    <3> SUFFICES ASSUME NEW j \in INO PROVE Own(u, cwd[p], j) = Own(t, cwd[p], j) + One(j, 0)
      BY DEF Gains
    <3>1. Own(u, cwd[p], j) = One(j, cwd[p]) + One(j, u.cur) + One(j, u.dp) + One(j, u.ip) + One(j, unlockput(dp)[2])
      BY <1>2, <1>3, <1>4, <2>1, OwnPut
    <3> QED BY <1>5, <3>1, <1>4, <2>1, Ones DEF put, unlockput
  <2>4. Keeps(p, u)
    BY <1>2, <1>3, <1>4, <2>1 DEF Keeps, LockedBy, Where, Putting, put, unlockput
  <2>5. Like(icache', p, i, 0)
    <3>1. Like(c, p, i, 0)
      BY <1>1, <1>4, LikeLoaded, LikeLock
    <3> HIDE DEF c
    <3>2. (IF c[i].type = "dir" THEN c[dp].nlink - 1 ELSE c[dp].nlink) \in Int
      BY <1>4, <3>1 DEF Like, Caches
    <3> QED BY <1>4, <1>10, <3>1, <3>2, LikeNlink, Zenon DEF drop_dotdot
  <2>6. LockedBy(u, i)
    BY <1>2, <1>3, <1>4, <2>1 DEF LockedBy, Where, Putting, put, unlockput
  <2>7. disk' \in Disks /\ orphan' \subseteq INO /\ stale' \in BOOLEAN
    <3>1. Head(t.path) \in Elem
      BY <1>1, <1>4, EntryOK DEF State
    <3>2. icache' \in Caches /\ less = icache'
      BY <2>5, <1>10, Zenon DEF Like
    <3> HIDE DEF less
    <3>3. iupdate(disk, less, dp) \in Disks
      BY <1>1, <1>4, <3>2, UpdateOK DEF State
    <3> QED BY <1>1, <1>2, <1>4, <1>10, <3>1, <3>3, EnterOK DEF State
  <2> QED BY <1>3, <2>1, <2>2, <2>3, <2>4, <2>5, <2>6, <2>7, <2>10, Finite, MoveStep
<1> QED BY <1>7, <1>8, <1>9, <1>10, Zenon

\* sys_unlink() has released the directory.
LEMMA UnlinkDoneStep == ASSUME Inv, NEW p \in Proc, unlink_done(p) PROVE Inv'
<1> DEFINE t == th[p]
           i == t.ip
           c == [icache EXCEPT ![i].nlink = @ - 1]
<1>1. State(p)
  BY Known
<1>2. t.pc = "unlink_done" /\ UNCHANGED <<file, ofile, cwd, panicked, orphan, stale>>
  BY DEF unlink_done, at
<1>3. t \in Thread /\ Locals(t, t.pc) /\ t.put = <<>> /\ t.r = "user" /\ cwd[p] \in INO
  BY <1>1, <1>2, Rest DEF Putting
<1>4. t.cur = 0 /\ t.dp = 0 /\ i \in INO /\ t.call # None
  BY <1>2, <1>3, IpRest DEF WithDp, WithIp
<1>5. \A j \in INO : Own(t, cwd[p], j) = One(j, cwd[p]) + One(j, t.cur) + One(j, t.dp) + One(j, t.ip)
  BY <1>2, <1>3, OwnRest
<1>6. /\ icache' = c /\ disk' = iupdate(disk, c, i)
      /\ th' = [th EXCEPT ![p] = [[t EXCEPT !.ip = 0] EXCEPT !.pc = "put", !.put = <<unlockput(i)>>, !.r = "user"]]
  BY <1>2, <1>3, <1>4 DEF unlink_done, puts, go
<1>7. ASSUME icache' = c, disk' = iupdate(disk, c, i),
            th' = [th EXCEPT ![p] = [[t EXCEPT !.ip = 0] EXCEPT !.pc = "put", !.put = <<unlockput(i)>>, !.r = "user"]]
      PROVE  Inv'
  <2> DEFINE u == [[t EXCEPT !.ip = 0] EXCEPT !.pc = "put", !.put = <<unlockput(i)>>, !.r = "user"]
  <2>10. th' = [th EXCEPT ![p] = u] /\ UNCHANGED <<file, ofile, cwd, panicked>>
    BY <1>2, <1>7
  <2>1. /\ u \in Thread /\ u.pc = "put" /\ u.call = t.call /\ u.path = t.path /\ u.par = t.par
        /\ u.cur = t.cur /\ u.k = t.k /\ u.kf = t.kf /\ u.ip = 0 /\ u.dp = t.dp /\ u.put = <<unlockput(i)>>
        /\ u.r = "user"
    BY <1>2, <1>3, <1>4, <1>7, Labels DEF Thread
  <2> HIDE DEF u
  <2>2. ThreadOK(u) /\ Where(u) # "exit_done"
    BY <1>2, <1>3, <1>4, <2>1, Finite DEF ThreadOK, PutsOK, Locals, Where, Putting, WithDp, WithIp, Idle, LookupOK
  <2>3. Gains(p, u, 0)
    <3> SUFFICES ASSUME NEW j \in INO PROVE Own(u, cwd[p], j) = Own(t, cwd[p], j) + One(j, 0)
      BY DEF Gains
    <3>1. Own(u, cwd[p], j) = One(j, cwd[p]) + One(j, u.cur) + One(j, u.dp) + One(j, u.ip) + One(j, unlockput(i)[2])
      BY <1>2, <1>3, <1>4, <2>1, OwnPut
    <3> QED BY <1>5, <3>1, <1>4, <2>1, Ones DEF put, unlockput
  <2>4. Keeps(p, u)
    BY <1>2, <1>3, <1>4, <2>1 DEF Keeps, LockedBy, Where, Putting, put, unlockput
  <2>5. Like(icache', p, 0, 0)
    <3>1. Like(icache, p, 0, 0) /\ icache[i].nlink - 1 \in Int
      BY <1>1, <1>4, LikeItself DEF State, Caches
    <3> QED BY <1>4, <1>7, <3>1, LikeNlink
  <2>7. disk' \in Disks /\ orphan' \subseteq INO /\ stale' \in BOOLEAN
    BY <1>1, <1>2, <1>4, <1>7, <2>5, UpdateOK DEF State, Like
  <2> QED BY <1>3, <2>1, <2>2, <2>3, <2>4, <2>5, <2>7, <2>10, Finite, MoveStep
<1> QED BY <1>6, <1>7

\* create() in the directory.
LEMMA CreateStep == ASSUME Inv, NEW p \in Proc, create(p) PROVE Inv'
<1> DEFINE t == th[p]
           dp == t.dp
           e == disk[dp].ents[Head(t.path)]
           c == loaded(icache, dp)
<1>1. State(p)
  BY Known
<1>2. t.pc = "create_dp" /\ UNCHANGED <<disk, file, ofile, cwd, orphan, stale>>
  BY DEF create, at
<1>3. t \in Thread /\ Locals(t, t.pc) /\ t.put = <<>> /\ t.r = "user" /\ cwd[p] \in INO
  BY <1>1, <1>2, Rest DEF Putting
<1>4. t.cur = 0 /\ dp \in INO /\ t.call # None /\ t.path \in Seq(Elem) /\ t.path # <<>> /\ t.ip = 0
  BY <1>2, <1>3, DpRest DEF WithDp, WithIp
<1>5. \A j \in INO : Own(t, cwd[p], j) = One(j, cwd[p]) + One(j, t.cur) + One(j, t.dp) + One(j, t.ip)
  BY <1>2, <1>3, OwnRest
<1>6. lock_panic(dp) # "ilock"
  BY <1>2, <1>4, InCache
<1>7. ASSUME Panic(lock_panic(dp)) \/ Panic("dirlookup not DIR") \/ Panic("iget: no inodes") PROVE Inv'
  BY <1>6, <1>7, PanicStep
<1>8. \/ Panic(lock_panic(dp)) \/ Panic("dirlookup not DIR") \/ Panic("iget: no inodes")
      \/ /\ panicked' = panicked /\ icache' = iget(c, e) /\ e # 0
         /\ th' = [th EXCEPT ![p] = [[t EXCEPT !.ip = e, !.dp = 0, !.path = <<>>] EXCEPT !.pc = "put", !.put = <<put(dp)>>, !.r = "create_found"]]
      \/ /\ panicked' = panicked /\ icache' = [c EXCEPT ![dp].lock = p]
         /\ th' = [th EXCEPT ![p] = [t EXCEPT !.pc = "create_ialloc"]]
  BY <1>6, <1>2, <1>3, <1>4 DEF create, dirlock, ilock_iget, ilock, puts, go
<1>9. ASSUME panicked' = panicked, icache' = iget(c, e), e # 0,
            th' = [th EXCEPT ![p] = [[t EXCEPT !.ip = e, !.dp = 0, !.path = <<>>] EXCEPT !.pc = "put", !.put = <<put(dp)>>, !.r = "create_found"]]
      PROVE  Inv'
  <2>20. e \in INO
    BY <1>1, <1>4, <1>9, EntryOK DEF State
  <2> HIDE DEF e
  <2> DEFINE u == [[t EXCEPT !.ip = e, !.dp = 0, !.path = <<>>] EXCEPT !.pc = "put", !.put = <<put(dp)>>, !.r = "create_found"]
  <2>10. th' = [th EXCEPT ![p] = u] /\ UNCHANGED <<file, ofile, cwd, panicked>>
    BY <1>2, <1>9
  <2>1. /\ u \in Thread /\ u.pc = "put" /\ u.call = t.call /\ u.path = <<>> /\ u.par = t.par
        /\ u.cur = t.cur /\ u.k = t.k /\ u.kf = t.kf /\ u.ip = e /\ u.dp = 0 /\ u.put = <<put(dp)>>
        /\ u.r = "create_found"
    BY <1>2, <1>3, <1>4, <1>9, <2>20, Labels DEF Thread
  <2> HIDE DEF u
  <2>2. ThreadOK(u) /\ Where(u) # "exit_done"
    BY <1>2, <1>3, <1>4, <2>20, <2>1, Finite DEF ThreadOK, PutsOK, Locals, Where, Putting, WithDp, WithIp, Idle, LookupOK
  <2>3. Gains(p, u, e)
    <3> SUFFICES ASSUME NEW j \in INO PROVE Own(u, cwd[p], j) = Own(t, cwd[p], j) + One(j, e)
      BY DEF Gains
    <3>1. Own(u, cwd[p], j) = One(j, cwd[p]) + One(j, u.cur) + One(j, u.dp) + One(j, u.ip) + One(j, put(dp)[2])
      BY <1>2, <1>3, <1>4, <2>20, <2>1, OwnPut
    <3> QED BY <1>5, <3>1, <1>4, <2>20, <2>1, Ones DEF put, unlockput
  <2>4. Keeps(p, u)
    BY <1>2, <1>3, <1>4, <2>20, <2>1 DEF Keeps, LockedBy, Where, Putting, put, unlockput
  <2>5. Like(icache', p, 0, e)
    <3>1. Like(c, p, 0, 0)
      BY <1>1, <1>4, LikeLoaded
    <3> HIDE DEF c
    <3> QED BY <1>1, <2>20, <1>9, <3>1, LikeGet
  <2>7. disk' \in Disks /\ orphan' \subseteq INO /\ stale' \in BOOLEAN
    BY <1>1, <1>2, <1>9 DEF State
  <2> QED BY <1>3, <2>1, <2>2, <2>3, <2>4, <2>5, <2>7, <2>10, Finite, MoveStep
<1>10. ASSUME panicked' = panicked, icache' = [c EXCEPT ![dp].lock = p],
            th' = [th EXCEPT ![p] = [t EXCEPT !.pc = "create_ialloc"]]
      PROVE  Inv'
  <2> DEFINE u == [t EXCEPT !.pc = "create_ialloc"]
  <2>10. th' = [th EXCEPT ![p] = u] /\ UNCHANGED <<file, ofile, cwd, panicked>>
    BY <1>2, <1>10
  <2>1. /\ u \in Thread /\ u.pc = "create_ialloc" /\ u.call = t.call /\ u.path = t.path /\ u.par = t.par
        /\ u.cur = t.cur /\ u.k = t.k /\ u.kf = t.kf /\ u.ip = t.ip /\ u.dp = t.dp /\ u.put = t.put
        /\ u.r = t.r
    BY <1>2, <1>3, <1>4, <1>10, Labels DEF Thread
  <2> HIDE DEF u
  <2>2. ThreadOK(u) /\ Where(u) # "exit_done"
    BY <1>2, <1>3, <1>4, <2>1, Finite DEF ThreadOK, PutsOK, Locals, Where, Putting, WithDp, WithIp, Idle, LookupOK
  <2>3. Gains(p, u, 0)
    <3> SUFFICES ASSUME NEW j \in INO PROVE Own(u, cwd[p], j) = Own(t, cwd[p], j) + One(j, 0)
      BY DEF Gains
    <3>1. Own(u, cwd[p], j) = One(j, cwd[p]) + One(j, u.cur) + One(j, u.dp) + One(j, u.ip)
      BY <1>2, <1>3, <1>4, <2>1, OwnRest
    <3> QED BY <1>5, <3>1, <1>4, <2>1, Ones DEF put, unlockput
  <2>4. Keeps(p, u)
    BY <1>2, <1>3, <1>4, <2>1 DEF Keeps, LockedBy, Where, Putting, put, unlockput
  <2>5. Like(icache', p, dp, 0)
    BY <1>1, <1>4, <1>10, LikeLoaded, LikeLock
  <2>6. LockedBy(u, dp)
    BY <1>2, <1>3, <1>4, <2>1 DEF LockedBy, Where, Putting, put, unlockput
  <2>7. disk' \in Disks /\ orphan' \subseteq INO /\ stale' \in BOOLEAN
    BY <1>1, <1>2, <1>10 DEF State
  <2> QED BY <1>3, <2>1, <2>2, <2>3, <2>4, <2>5, <2>6, <2>7, <2>10, Finite, MoveStep
<1> QED BY <1>7, <1>8, <1>9, <1>10

\* ialloc() takes its reference.
LEMMA IallocIgetStep == ASSUME Inv, NEW p \in Proc, ialloc_iget(p) PROVE Inv'
<1>0. SUFFICES ASSUME ~Panic("iget: no inodes") PROVE Inv'
  BY PanicStep
<1> DEFINE t == th[p]
           i == t.ip
<1>1. State(p)
  BY Known
<1>2. t.pc = "create_iget" /\ UNCHANGED <<disk, file, ofile, cwd, panicked, orphan, stale>>
  BY <1>0 DEF ialloc_iget, at
<1>3. t \in Thread /\ Locals(t, t.pc) /\ t.put = <<>> /\ t.r = "user" /\ cwd[p] \in INO
  BY <1>1, <1>2, Rest DEF Putting
<1>4. t.cur = 0 /\ t.dp \in INO /\ t.call # None /\ t.path \in Seq(Elem) /\ t.path # <<>> /\ i \in INO
  BY <1>2, <1>3, DpRest DEF WithDp, WithIp
<1>5. icache' = iget(icache, i) /\ th' = [th EXCEPT ![p] = [t EXCEPT !.pc = "create_ip"]]
  BY <1>0, <1>2, <1>3, <1>4 DEF ialloc_iget, go
<1>6. ASSUME icache' = iget(icache, i),
            th' = [th EXCEPT ![p] = [t EXCEPT !.pc = "create_ip"]]
      PROVE  Inv'
  <2> DEFINE u == [t EXCEPT !.pc = "create_ip"]
  <2>10. th' = [th EXCEPT ![p] = u] /\ UNCHANGED <<file, ofile, cwd, panicked>>
    BY <1>2, <1>6
  <2>1. /\ u \in Thread /\ u.pc = "create_ip" /\ u.call = t.call /\ u.path = t.path /\ u.par = t.par
        /\ u.cur = t.cur /\ u.k = t.k /\ u.kf = t.kf /\ u.ip = t.ip /\ u.dp = t.dp /\ u.put = t.put
        /\ u.r = t.r
    BY <1>2, <1>3, <1>4, <1>6, Labels DEF Thread
  <2> HIDE DEF u
  <2>2. ThreadOK(u) /\ Where(u) # "exit_done"
    BY <1>2, <1>3, <1>4, <2>1, Finite DEF ThreadOK, PutsOK, Locals, Where, Putting, WithDp, WithIp, Idle, LookupOK
  <2>3. Gains(p, u, i)
    <3> SUFFICES ASSUME NEW j \in INO PROVE Own(u, cwd[p], j) = Own(t, cwd[p], j) + One(j, i)
      BY DEF Gains
    <3>1. /\ Own1(t, cwd[p], j) = One(j, cwd[p]) /\ Own2(t, j) = One(j, t.cur) /\ Own3(t, j) = One(j, t.dp)
          /\ Own4(t, j) = 0 /\ Own5(t, j) = 0 /\ Own6(t, j) = 0
      BY <1>2, <1>3, <1>4, <2>1 DEF Own1, Own2, Own3, Own4, Own5, Own6, B, One, OnCwd
    <3>2. Own(u, cwd[p], j) = One(j, cwd[p]) + One(j, u.cur) + One(j, u.dp) + One(j, u.ip)
      BY <1>2, <1>3, <1>4, <2>1, OwnRest
    <3> QED BY <3>1, <3>2, <1>4, <2>1, Ones DEF Own
  <2>4. Keeps(p, u)
    BY <1>2, <1>3, <1>4, <2>1 DEF Keeps, LockedBy, Where, Putting, put, unlockput
  <2>5. Like(icache', p, 0, i)
    BY <1>1, <1>4, <1>6, LikeItself, LikeGet
  <2>7. disk' \in Disks /\ orphan' \subseteq INO /\ stale' \in BOOLEAN
    BY <1>1, <1>2, <1>6 DEF State
  <2> QED BY <1>3, <2>1, <2>2, <2>3, <2>4, <2>5, <2>7, <2>10, Finite, MoveStep
<1> QED BY <1>5, <1>6

\* create() fills the new inode in and enters it.
LEMMA CreateIpStep == ASSUME Inv, NEW p \in Proc, create_ip(p) PROVE Inv'
<1> DEFINE t == th[p]
           i == t.ip
           dp == t.dp
           dir == NewType(t.call) = "dir"
           locked == [loaded(icache, i) EXCEPT ![i].lock = p]
           mine == [locked EXCEPT ![i].nlink = 1]
           c == [mine EXCEPT ![dp].nlink = IF dir THEN @ + 1 ELSE @]
           d == iupdate(iupdate(disk, c, i), c, dp)
           e == IF dir THEN [d EXCEPT ![i].ents["."] = i, ![i].ents[".."] = dp] ELSE d
<1>1. State(p)
  BY Known
<1>2. t.pc = "create_ip" /\ UNCHANGED <<file, ofile, cwd, stale>>
  BY Zenon DEF create_ip, at
<1>3. t \in Thread /\ Locals(t, t.pc) /\ t.put = <<>> /\ t.r = "user" /\ cwd[p] \in INO
  BY <1>1, <1>2, Rest DEF Putting
<1>4. t.cur = 0 /\ dp \in INO /\ t.call # None /\ t.path \in Seq(Elem) /\ t.path # <<>> /\ i \in INO
  BY <1>2, <1>3, DpRest DEF WithDp, WithIp
<1>5. Like(c, p, i, 0)
  <2>1. Like(loaded(icache, i), p, 0, 0)
    BY <1>1, <1>4, LikeLoaded
  <2>4. Like(locked, p, i, 0)
    BY <1>4, <2>1, LikeLock
  <2>5. 1 \in Int
    OBVIOUS
  <2> HIDE DEF locked
  <2>2. Like(mine, p, i, 0)
    BY <1>4, <2>4, <2>5, LikeNlink
  <2> HIDE DEF mine, dir
  <2>3. (IF dir THEN mine[dp].nlink + 1 ELSE mine[dp].nlink) \in Int
    BY <1>4, <2>2 DEF Like, Caches
  <2> QED BY <1>4, <2>2, <2>3, LikeNlink
<1>6. \A j \in INO : Own(t, cwd[p], j) = One(j, cwd[p]) + One(j, t.cur) + One(j, t.dp) + One(j, t.ip)
  BY <1>2, <1>3, OwnRest
<1>7. lock_panic(i) # "ilock"
  BY <1>2, <1>4, InCache
<1>8. ASSUME Panic(lock_panic(i)) PROVE Inv'
  BY <1>7, <1>8, PanicStep
<1>9. \/ Panic(lock_panic(i))
      \/ /\ panicked' = panicked /\ icache' = c /\ link_in(e, dp, Head(t.path), i)
         /\ th' = [th EXCEPT ![p] = [[t EXCEPT !.dp = 0, !.path = <<>>] EXCEPT !.pc = "put", !.put = <<unlockput(dp)>>, !.r = "open_file"]]
      \/ /\ panicked' = panicked /\ icache' = c /\ link_in(e, dp, Head(t.path), i)
         /\ th' = [th EXCEPT ![p] = [[t EXCEPT !.ip = 0, !.dp = 0] EXCEPT !.pc = "put", !.put = <<unlockput(dp), unlockput(i)>>, !.r = "user"]]
  BY <1>7, <1>2, <1>3, <1>4, Zenon DEF create_ip, created, ilock, puts, go
<1>10. ASSUME panicked' = panicked, icache' = c, link_in(e, dp, Head(t.path), i),
            th' = [th EXCEPT ![p] = [[t EXCEPT !.dp = 0, !.path = <<>>] EXCEPT !.pc = "put", !.put = <<unlockput(dp)>>, !.r = "open_file"]]
      PROVE  Inv'
  <2> DEFINE u == [[t EXCEPT !.dp = 0, !.path = <<>>] EXCEPT !.pc = "put", !.put = <<unlockput(dp)>>, !.r = "open_file"]
  <2>10. th' = [th EXCEPT ![p] = u] /\ UNCHANGED <<file, ofile, cwd, panicked>>
    BY <1>2, <1>10, Zenon
  <2>1. /\ u \in Thread /\ u.pc = "put" /\ u.call = t.call /\ u.path = <<>> /\ u.par = t.par
        /\ u.cur = t.cur /\ u.k = t.k /\ u.kf = t.kf /\ u.ip = t.ip /\ u.dp = 0
        /\ u.put = <<unlockput(dp)>> /\ u.r = "open_file"
    BY <1>2, <1>3, <1>4, <1>10, Labels, Zenon DEF Thread
  <2> HIDE DEF u
  <2>2. ThreadOK(u) /\ Where(u) # "exit_done"
    BY <1>2, <1>3, <1>4, <2>1, Finite DEF ThreadOK, PutsOK, Locals, Where, Putting, WithDp, WithIp, Idle, LookupOK
  <2>3. Gains(p, u, 0)
    <3> SUFFICES ASSUME NEW j \in INO PROVE Own(u, cwd[p], j) = Own(t, cwd[p], j) + One(j, 0)
      BY DEF Gains
    <3>1. Own(u, cwd[p], j) = One(j, cwd[p]) + One(j, u.cur) + One(j, u.dp) + One(j, u.ip) + One(j, unlockput(dp)[2])
      BY <1>2, <1>3, <1>4, <2>1, OwnPut
    <3> QED BY <1>6, <3>1, <1>4, <2>1, Ones DEF put, unlockput
  <2>4. Keeps(p, u)
    BY <1>2, <1>3, <1>4, <2>1 DEF Keeps, LockedBy, Where, Putting, put, unlockput
  <2>5. Like(icache', p, i, 0)
    BY <1>5, <1>10, Zenon
  <2>6. LockedBy(u, i)
    BY <1>2, <1>3, <1>4, <2>1 DEF LockedBy, Where, Putting, put, unlockput
  <2>7. disk' \in Disks /\ orphan' \subseteq INO /\ stale' \in BOOLEAN
    <3>1. Head(t.path) \in Elem /\ "." \in Elem /\ ".." \in Elem
      BY <1>1, <1>4, EntryOK DEF State, Elem, Dots
    <3>2. c \in Caches
      BY <1>5, Zenon DEF Like
    <3> HIDE DEF c
    <3>3. d \in Disks
      BY <1>1, <1>4, <3>2, UpdateOK DEF State
    <3>4. e \in Disks
      <4> HIDE DEF d, dir
      <4>1. [[d EXCEPT ![i].ents["."] = i] EXCEPT ![i].ents[".."] = dp] \in Disks
        BY <1>4, <3>1, <3>3, EnterOK
      <4> QED BY <4>1, <3>3
    <3> HIDE DEF e
    <3> QED BY <1>1, <1>2, <1>4, <1>10, <3>1, <3>4, LinkInOK DEF State
  <2> QED BY <1>3, <2>1, <2>2, <2>3, <2>4, <2>5, <2>6, <2>7, <2>10, Finite, MoveStep
<1>11. ASSUME panicked' = panicked, icache' = c, link_in(e, dp, Head(t.path), i),
            th' = [th EXCEPT ![p] = [[t EXCEPT !.ip = 0, !.dp = 0] EXCEPT !.pc = "put", !.put = <<unlockput(dp), unlockput(i)>>, !.r = "user"]]
      PROVE  Inv'
  <2> DEFINE u == [[t EXCEPT !.ip = 0, !.dp = 0] EXCEPT !.pc = "put", !.put = <<unlockput(dp), unlockput(i)>>, !.r = "user"]
  <2>10. th' = [th EXCEPT ![p] = u] /\ UNCHANGED <<file, ofile, cwd, panicked>>
    BY <1>2, <1>11, Zenon
  <2>1. /\ u \in Thread /\ u.pc = "put" /\ u.call = t.call /\ u.path = t.path /\ u.par = t.par
        /\ u.cur = t.cur /\ u.k = t.k /\ u.kf = t.kf /\ u.ip = 0 /\ u.dp = 0
        /\ u.put = <<unlockput(dp), unlockput(i)>> /\ u.r = "user"
    BY <1>2, <1>3, <1>4, <1>11, Labels DEF Thread
  <2> HIDE DEF u
  <2>2. ThreadOK(u) /\ Where(u) # "exit_done"
    BY <1>2, <1>3, <1>4, <2>1, Finite DEF ThreadOK, PutsOK, Locals, Where, Putting, WithDp, WithIp, Idle, LookupOK
  <2>3. Gains(p, u, 0)
    <3> SUFFICES ASSUME NEW j \in INO PROVE Own(u, cwd[p], j) = Own(t, cwd[p], j) + One(j, 0)
      BY DEF Gains
    <3>1. Own(u, cwd[p], j) = One(j, cwd[p]) + One(j, u.cur) + One(j, u.dp) + One(j, u.ip) + One(j, unlockput(dp)[2]) + One(j, unlockput(i)[2])
      BY <1>2, <1>3, <1>4, <2>1, OwnPuts
    <3> QED BY <1>6, <3>1, <1>4, <2>1, Ones DEF put, unlockput
  <2>4. Keeps(p, u)
    BY <1>2, <1>3, <1>4, <2>1 DEF Keeps, LockedBy, Where, Putting, put, unlockput
  <2>5. Like(icache', p, i, 0)
    BY <1>5, <1>11, Zenon
  <2>6. LockedBy(u, i)
    BY <1>2, <1>3, <1>4, <2>1 DEF LockedBy, Where, Putting, put, unlockput
  <2>7. disk' \in Disks /\ orphan' \subseteq INO /\ stale' \in BOOLEAN
    <3>1. Head(t.path) \in Elem /\ "." \in Elem /\ ".." \in Elem
      BY <1>1, <1>4, EntryOK DEF State, Elem, Dots
    <3>2. c \in Caches
      BY <1>5 DEF Like
    <3> HIDE DEF c
    <3>3. d \in Disks
      BY <1>1, <1>4, <3>2, UpdateOK DEF State
    <3>4. e \in Disks
      <4> HIDE DEF d, dir
      <4>1. [[d EXCEPT ![i].ents["."] = i] EXCEPT ![i].ents[".."] = dp] \in Disks
        BY <1>4, <3>1, <3>3, EnterOK
      <4> QED BY <4>1, <3>3
    <3> HIDE DEF e
    <3> QED BY <1>1, <1>2, <1>4, <1>11, <3>1, <3>4, LinkInOK DEF State
  <2> QED BY <1>3, <2>1, <2>2, <2>3, <2>4, <2>5, <2>6, <2>7, <2>10, Finite, MoveStep
<1> QED BY <1>8, <1>9, <1>10, <1>11, Zenon

\* sys_open() finds no free file or descriptor, or the device number is bad.
LEMMA OpenFailStep == ASSUME Inv, NEW p \in Proc, open_file(p), icache[th[p].ip].type = "baddev" \/ filealloc = 0 \/ fdalloc(p) = 0 PROVE Inv'
<1> DEFINE t == th[p]
           i == t.ip
<1>1. State(p)
  BY Known
<1>2. t.pc = "open_file" /\ UNCHANGED <<disk, cwd, panicked, orphan, stale>>
  BY DEF open_file, at
<1>3. t \in Thread /\ Locals(t, t.pc) /\ t.put = <<>> /\ t.r = "user" /\ cwd[p] \in INO
  BY <1>1, <1>2, Rest DEF Putting
<1>4. t.cur = 0 /\ t.dp = 0 /\ i \in INO /\ t.call # None
  BY <1>2, <1>3, IpRest DEF WithDp, WithIp
<1>5. \A j \in INO : Own(t, cwd[p], j) = One(j, cwd[p]) + One(j, t.cur) + One(j, t.dp) + One(j, t.ip)
  BY <1>2, <1>3, OwnRest
<1>6. /\ UNCHANGED <<icache, file, ofile>>
      /\ th' = [th EXCEPT ![p] = [[t EXCEPT !.ip = 0] EXCEPT !.pc = "put", !.put = <<unlockput(i)>>, !.r = "user"]]
  BY <1>2, <1>3, <1>4 DEF open_file, puts, go
<1>7. ASSUME UNCHANGED <<icache, file, ofile>>,
            th' = [th EXCEPT ![p] = [[t EXCEPT !.ip = 0] EXCEPT !.pc = "put", !.put = <<unlockput(i)>>, !.r = "user"]]
      PROVE  Inv'
  <2> DEFINE u == [[t EXCEPT !.ip = 0] EXCEPT !.pc = "put", !.put = <<unlockput(i)>>, !.r = "user"]
  <2>10. th' = [th EXCEPT ![p] = u] /\ UNCHANGED <<file, ofile, cwd, panicked>>
    BY <1>2, <1>7
  <2>1. /\ u \in Thread /\ u.pc = "put" /\ u.call = t.call /\ u.path = t.path /\ u.par = t.par
        /\ u.cur = t.cur /\ u.k = t.k /\ u.kf = t.kf /\ u.ip = 0 /\ u.dp = t.dp /\ u.put = <<unlockput(i)>>
        /\ u.r = "user"
    BY <1>2, <1>3, <1>4, <1>7, Labels DEF Thread
  <2> HIDE DEF u
  <2>2. ThreadOK(u) /\ Where(u) # "exit_done"
    BY <1>2, <1>3, <1>4, <2>1, Finite DEF ThreadOK, PutsOK, Locals, Where, Putting, WithDp, WithIp, Idle, LookupOK
  <2>3. Gains(p, u, 0)
    <3> SUFFICES ASSUME NEW j \in INO PROVE Own(u, cwd[p], j) = Own(t, cwd[p], j) + One(j, 0)
      BY DEF Gains
    <3>1. Own(u, cwd[p], j) = One(j, cwd[p]) + One(j, u.cur) + One(j, u.dp) + One(j, u.ip) + One(j, unlockput(i)[2])
      BY <1>2, <1>3, <1>4, <2>1, OwnPut
    <3> QED BY <1>5, <3>1, <1>4, <2>1, Ones DEF put, unlockput
  <2>4. Keeps(p, u)
    BY <1>2, <1>3, <1>4, <2>1 DEF Keeps, LockedBy, Where, Putting, put, unlockput
  <2>5. Like(icache', p, 0, 0)
    BY <1>1, <1>7, LikeItself
  <2>7. disk' \in Disks /\ orphan' \subseteq INO /\ stale' \in BOOLEAN
    BY <1>1, <1>2, <1>7 DEF State
  <2> QED BY <1>3, <2>1, <2>2, <2>3, <2>4, <2>5, <2>7, <2>10, Finite, MoveStep
<1> QED BY <1>6, <1>7

-----------------------------------------------------------------------------
(* Open files *)

\* The descriptors that name file f, and those of one process with descriptors o.
Fds(f) == {x \in Proc \X (1..NOFILE) : ofile[x[1]][x[2]] = f}
Row(o, f) == {d \in 1..NOFILE : o[d] = f}
Rows == [1..NOFILE -> 0..NFILE]

LEMMA RowOK == \A o, f : IsFiniteSet(Row(o, f)) /\ Cardinality(Row(o, f)) \in Nat
<1> SUFFICES ASSUME NEW o, NEW f PROVE IsFiniteSet(Row(o, f)) /\ Cardinality(Row(o, f)) \in Nat
  OBVIOUS
<1>1. Row(o, f) \in SUBSET (1..NOFILE)
  BY DEF Row
<1>2. IsFiniteSet(Row(o, f))
  BY <1>1, Finite, FS_Subset
<1> QED BY <1>2, FS_CardinalityType

\* When the descriptors of one process change, a file loses those that named it
\* and wins those that do now.
LEMMA FdStep ==
  ASSUME NEW p \in Proc, ofile \in [Proc -> Rows], NEW o \in Rows, ofile' = [ofile EXCEPT ![p] = o], NEW f
  PROVE  /\ Cardinality(Fds(f)) \in Nat /\ Cardinality(Fds(f))' \in Nat
         /\ Cardinality(Fds(f))' = Cardinality(Fds(f)) + Cardinality(Row(o, f)) - Cardinality(Row(ofile[p], f))
         /\ \A d \in 1..NOFILE : ofile[p][d] = f => Cardinality(Fds(f)) >= 1
<1> DEFINE A == {x \in (Proc \ {p}) \X (1..NOFILE) : ofile[x[1]][x[2]] = f}
           M(r) == {p} \X Row(r, f)
<1>1. IsFiniteSet(Proc \X (1..NOFILE))
  BY Finite, FS_Product
<1>2. A \in SUBSET (Proc \X (1..NOFILE))
  OBVIOUS
<1>3. IsFiniteSet(A) /\ Cardinality(A) \in Nat
  BY <1>1, <1>2, FS_Subset, FS_CardinalityType
<1>4. \A r : /\ IsFiniteSet(M(r)) /\ Cardinality(M(r)) = Cardinality(Row(r, f))
             /\ A \cap M(r) = {} /\ Cardinality(Row(r, f)) \in Nat
  <2> SUFFICES ASSUME NEW r
               PROVE  /\ IsFiniteSet(M(r)) /\ Cardinality(M(r)) = Cardinality(Row(r, f))
                      /\ A \cap M(r) = {} /\ Cardinality(Row(r, f)) \in Nat
    OBVIOUS
  <2>1. IsFiniteSet({p}) /\ Cardinality({p}) = 1
    BY FS_Singleton
  <2>2. IsFiniteSet(Row(r, f)) /\ Cardinality(Row(r, f)) \in Nat
    BY RowOK
  <2>3. IsFiniteSet(M(r)) /\ Cardinality(M(r)) = 1 * Cardinality(Row(r, f))
    BY <2>1, <2>2, FS_Product
  <2>4. A \cap M(r) = {}
    OBVIOUS
  <2> QED BY <2>2, <2>3, <2>4
<1>5. Fds(f) = A \cup M(ofile[p])
  BY DEF Fds, Row, Rows
<1>6. Fds(f)' = A \cup M(o)
  BY DEF Fds, Row, Rows
<1> HIDE DEF A
<1>7. \A r : Cardinality(A \cup M(r)) = Cardinality(A) + Cardinality(Row(r, f))
  <2> SUFFICES ASSUME NEW r PROVE Cardinality(A \cup M(r)) = Cardinality(A) + Cardinality(Row(r, f))
    OBVIOUS
  <2> DEFINE N == M(r)
  <2>1. IsFiniteSet(N) /\ Cardinality(N) = Cardinality(Row(r, f)) /\ A \cap N = {} /\ Cardinality(N) \in Nat
    BY <1>4
  <2> HIDE DEF N
  <2>2. Cardinality(A \cup N) = Cardinality(A) + Cardinality(N) - Cardinality(A \cap N)
    BY <1>3, <2>1, FS_Union
  <2>3. Cardinality(A \cap N) = 0
    BY <2>1, FS_EmptySet
  <2> QED BY <1>3, <2>1, <2>2, <2>3 DEF N
<1>8. /\ Cardinality(Fds(f)) = Cardinality(A) + Cardinality(Row(ofile[p], f))
      /\ Cardinality(Fds(f))' = Cardinality(A) + Cardinality(Row(o, f))
  BY <1>5, <1>6, <1>7
<1>9. ASSUME NEW d \in 1..NOFILE, ofile[p][d] = f PROVE Cardinality(Row(ofile[p], f)) >= 1
  <2>1. Row(ofile[p], f) # {} /\ IsFiniteSet(Row(ofile[p], f)) /\ Cardinality(Row(ofile[p], f)) \in Nat
    BY <1>9, RowOK DEF Row
  <2>2. Cardinality(Row(ofile[p], f)) # 0
    BY <2>1, FS_EmptySet
  <2> QED BY <2>1, <2>2
<1> QED BY <1>3, <1>8, <1>9, RowOK

\* One descriptor changes.
LEMMA RowStep ==
  ASSUME NEW o \in Rows, NEW d \in 1..NOFILE, NEW g \in 0..NFILE, NEW f
  PROVE  /\ [o EXCEPT ![d] = g] \in Rows
         /\ Cardinality(Row([o EXCEPT ![d] = g], f)) = Cardinality(Row(o, f)) + One(g, f) - One(o[d], f)
<1> DEFINE S == Row(o, f)
           T == Row([o EXCEPT ![d] = g], f)
<1>1. S \in SUBSET (1..NOFILE) /\ T \in SUBSET (1..NOFILE) /\ S \ {d} = T \ {d}
  BY DEF Row, Rows
<1>2. (d \in S <=> o[d] = f) /\ (d \in T <=> g = f)
  BY DEF Row, Rows
<1>3. [o EXCEPT ![d] = g] \in Rows
  BY DEF Rows
<1> HIDE DEF S, T
<1>4. Cardinality(T) = Cardinality(S) + B(d \in T) - B(d \in S)
  BY <1>1, Finite, ChangeOne
<1> QED BY <1>2, <1>3, <1>4 DEF B, One, S, T

LEMMA Least ==
  ASSUME NEW T \in SUBSET Nat, T # {}
  PROVE  \E x \in T : \A y \in T : x =< y
<1>1. IsWellFoundedOn(OpToRel(<, Nat), Nat)
  BY NatLessThanWellFounded
<1>2. PICK x \in T : \A y \in T : ~(<<y, x>> \in OpToRel(<, Nat))
  BY <1>1, WFMin, Zenon
<1>3. \A y \in T : ~(y < x)
  BY <1>2, Zenon DEF OpToRel
<1> QED BY <1>3

\* The first free one is free.
LEMMA LowestOK ==
  ASSUME NEW T \in SUBSET Nat
  PROVE  Lowest(T) # 0 => Lowest(T) \in T
<1>1. CASE T = {}
  BY <1>1 DEF Lowest
<1>2. CASE T # {}
  <2>1. \E x \in T : \A y \in T : x =< y
    BY <1>2, Least
  <2>2. Lowest(T) = Min(T)
    BY <1>2 DEF Lowest
  <2>3. Min(T) \in T
    BY <2>1 DEF Min
  <2> QED BY <2>2, <2>3
<1> QED BY <1>1, <1>2

FileTable == [1..NFILE -> [ref : Int, ip : INO \cup {0}]]

\* Process p goes on at u in directory w and with descriptors o: the counts follow.
Held(p, u, w) ==
  \A i \in INO : icache'[i].ref = icache[i].ref + Cardinality(FileRefs(i))' - Cardinality(FileRefs(i))
                                  + Own(u, w, i) - Own(th[p], cwd[p], i)
Named(p, o) ==
  \A f \in 1..NFILE : /\ file'[f].ref = file[f].ref + Cardinality(Row(o, f)) - Cardinality(Row(ofile[p], f))
                      /\ file'[f].ref > 0 => file'[f].ip # 0

LEMMA FilesStep ==
  ASSUME Inv, NEW p \in Proc, NEW u \in Thread, NEW w \in INO \cup {0}, NEW o \in Rows,
         th' = [th EXCEPT ![p] = u], cwd' = [cwd EXCEPT ![p] = w], ofile' = [ofile EXCEPT ![p] = o],
         UNCHANGED <<disk, panicked, orphan, stale>>, file' \in FileTable, icache' \in Caches,
         ThreadOK(u), w = 0 => u = NoThread,
         w = 0 \/ Where(u) = "exit_done" => \A d \in 1..NOFILE : o[d] = 0,
         Locking(p, u), Held(p, u, w), Named(p, o)
  PROVE  Inv'
<1>1. TypeOK
  BY DEF Inv, RefsExact
<1>2. Only(p) /\ Files /\ Files' /\ th'[p] = u /\ cwd'[p] = w
  BY <1>1 DEF TypeOK, Only, Files, FileTable
<1>3. \A i \in INO : icache'[i].ref = Refs(i)' /\ icache'[i].ref \in Nat
  <2> SUFFICES ASSUME NEW i \in INO PROVE icache'[i].ref = Refs(i)' /\ icache'[i].ref \in Nat
    OBVIOUS
  <2>1. /\ Refs(i) \in Nat /\ Refs(i)' \in Nat
        /\ Cardinality(FileRefs(i)) \in Nat /\ Cardinality(FileRefs(i))' \in Nat
        /\ Refs(i)' = Refs(i) + Cardinality(FileRefs(i))' - Cardinality(FileRefs(i))
                      + Own(th'[p], cwd'[p], i) - Own(th[p], cwd[p], i)
    BY <1>2, RefsStep
  <2>2. /\ icache'[i].ref = icache[i].ref + Cardinality(FileRefs(i))' - Cardinality(FileRefs(i))
                            + Own(u, w, i) - Own(th[p], cwd[p], i)
        /\ icache[i].ref = Refs(i)
    BY DEF Held, Inv, RefsExact
  <2> QED BY <1>2, <2>1, <2>2
<1>4. \A f \in 1..NFILE : file'[f].ref = Cardinality(Fds(f))' /\ file'[f].ref \in Nat
  <2> SUFFICES ASSUME NEW f \in 1..NFILE PROVE file'[f].ref = Cardinality(Fds(f))' /\ file'[f].ref \in Nat
    OBVIOUS
  <2>1. ofile \in [Proc -> Rows]
    BY <1>1 DEF TypeOK, Rows
  <2>2. /\ Cardinality(Fds(f)) \in Nat /\ Cardinality(Fds(f))' \in Nat
        /\ Cardinality(Fds(f))' = Cardinality(Fds(f)) + Cardinality(Row(o, f)) - Cardinality(Row(ofile[p], f))
    BY <2>1, FdStep
  <2>3. file[f].ref = Cardinality(Fds(f))
    BY <1>2 DEF Inv, RefsExact, Count, Fds, Files
  <2>4. file'[f].ref = file[f].ref + Cardinality(Row(o, f)) - Cardinality(Row(ofile[p], f))
    BY DEF Named
  <2> QED BY <2>2, <2>3, <2>4
<1>5. TypeOK'
  <2>1. icache' \in [INO -> [ref : Nat, valid : BOOLEAN, type : Types, nlink : Int,
                             lock : Proc \cup {None}]]
    BY <1>3 DEF Caches
  <2>2. file' \in [1..NFILE -> [ref : Nat, ip : INO \cup {0}]]
    BY <1>4 DEF FileTable
  <2>3. th' \in [Proc -> Thread] /\ cwd' \in [Proc -> INO \cup {0}]
    BY <1>1 DEF TypeOK
  <2>4. ofile' \in [Proc -> [1..NOFILE -> 0..NFILE]]
    BY <1>1 DEF TypeOK, Rows
  <2> QED BY <1>1, <2>1, <2>2, <2>3, <2>4 DEF TypeOK
<1>6. RefsExact'
  BY <1>2, <1>3, <1>4, <1>5 DEF RefsExact, Count, Fds, Files
<1>7. \A q \in Proc : ThreadOK(th[q])' /\ ExitOK(q)'
  <2>1. \A q \in Proc : ThreadOK(th'[q])
    BY <1>1 DEF Inv, TypeOK
  <2>2. \A q \in Proc : ExitOK(q)'
    <3> SUFFICES ASSUME NEW q \in Proc PROVE ExitOK(q)'
      OBVIOUS
    <3>1. CASE q = p
      BY <3>1, <1>1, <1>2 DEF TypeOK, ExitOK, Where
    <3>2. CASE q # p
      <4>1. th'[q] = th[q] /\ cwd'[q] = cwd[q] /\ ofile'[q] = ofile[q]
        BY <3>2, <1>1, <1>2 DEF TypeOK, Only
      <4>2. ExitOK(q)
        BY DEF Inv
      <4> QED BY <4>1, <4>2 DEF ExitOK, Where
    <3> QED BY <3>1, <3>2
  <2>3. \A q \in Proc : ThreadOK(th[q])'
    BY <2>1 DEF ThreadOK, Locals, PutsOK, LookupOK, Where
  <2> QED BY <2>2, <2>3
<1>8. \A i \in INO : icache'[i].lock # None => LockedBy(th'[icache'[i].lock], i)
  <2> SUFFICES ASSUME NEW i \in INO, icache'[i].lock # None
               PROVE  LockedBy(th'[icache'[i].lock], i)
    OBVIOUS
  <2>1. icache'[i].lock \in Proc
    BY DEF Caches
  <2>2. CASE icache'[i].lock = p
    BY <2>2, <1>2 DEF Locking
  <2>3. CASE icache'[i].lock # p
    <3>1. icache'[i].lock = icache[i].lock
      BY <2>3 DEF Locking
    <3>2. th'[icache'[i].lock] = th[icache[i].lock]
      BY <3>1, <2>1, <2>3, <1>1 DEF TypeOK
    <3>3. LockedBy(th[icache[i].lock], i)
      BY <3>1 DEF Inv
    <3> QED BY <3>2, <3>3
  <2> QED BY <2>2, <2>3
<1>9. (\A i \in INO : icache[i].lock # None => LockedBy(th[icache[i].lock], i))'
  BY <1>8 DEF LockedBy, Where
<1>10. (\A f \in 1..NFILE : file[f].ref > 0 => file[f].ip # 0)' /\ panicked' # "ilock"
  BY DEF Inv, Named
<1> QED BY <1>6, <1>7, <1>9, <1>10 DEF Inv

\* When one open file changes, its inode loses or wins a reference.
LEMMA FileRefsStep ==
  ASSUME Files, Files', NEW f \in 1..NFILE, \A g \in (1..NFILE) \ {f} : file'[g] = file[g], NEW i
  PROVE  /\ Cardinality(FileRefs(i)) \in Nat /\ Cardinality(FileRefs(i))' \in Nat
         /\ Cardinality(FileRefs(i))' = Cardinality(FileRefs(i))
              + B(file'[f].ref > 0 /\ file'[f].ip = i) - B(file[f].ref > 0 /\ file[f].ip = i)
<1> DEFINE S == FileRefs(i)
           T == {g \in 1..NFILE : file'[g].ref > 0 /\ file'[g].ip = i}
<1>1. S \in SUBSET (1..NFILE) /\ T \in SUBSET (1..NFILE) /\ S \ {f} = T \ {f}
  BY DEF FileRefs, Files
<1>2. (f \in S <=> (file[f].ref > 0 /\ file[f].ip = i)) /\ (f \in T <=> (file'[f].ref > 0 /\ file'[f].ip = i))
  BY DEF FileRefs, Files
<1>3. Cardinality(FileRefs(i))' = Cardinality(T)
  BY DEF FileRefs, Files
<1> HIDE DEF S, T
<1>4. Cardinality(S) \in Nat /\ Cardinality(T) \in Nat /\ Cardinality(T) = Cardinality(S) + B(f \in T) - B(f \in S)
  BY <1>1, Finite, ChangeOne
<1> QED BY <1>2, <1>3, <1>4 DEF B, S

\* What the invariant says of files and descriptors.
FileState(p) ==
  /\ file \in FileTable /\ ofile \in [Proc -> Rows] /\ cwd \in [Proc -> INO \cup {0}] /\ Files
  /\ th \in [Proc -> Thread]
  /\ \A f \in 1..NFILE : file[f].ref \in Nat /\ file[f].ref = Cardinality(Fds(f)) /\ (file[f].ref > 0 => file[f].ip # 0)
  /\ \A d \in 1..NOFILE : ofile[p][d] # 0 =>
       /\ cwd[p] \in INO /\ ofile[p][d] \in 1..NFILE /\ file[ofile[p][d]].ref >= 1
       /\ file[ofile[p][d]].ip \in INO

LEMMA FileKnown ==
  ASSUME Inv, NEW p \in Proc
  PROVE  FileState(p)
<1>1. TypeOK /\ ExitOK(p)
  BY DEF Inv, RefsExact
<1>2. /\ file \in FileTable /\ ofile \in [Proc -> Rows] /\ Files /\ cwd \in [Proc -> INO \cup {0}]
      /\ th \in [Proc -> Thread]
  BY <1>1 DEF TypeOK, FileTable, Rows, Files
<1>3. \A f \in 1..NFILE : file[f].ref \in Nat /\ file[f].ref = Cardinality(Fds(f)) /\ (file[f].ref > 0 => file[f].ip # 0)
  BY <1>1, <1>2 DEF TypeOK, Inv, RefsExact, Count, Fds, Files
<1>4. ASSUME NEW d \in 1..NOFILE, ofile[p][d] # 0
      PROVE  /\ cwd[p] \in INO /\ ofile[p][d] \in 1..NFILE /\ file[ofile[p][d]].ref >= 1
             /\ file[ofile[p][d]].ip \in INO
  <2> DEFINE f == ofile[p][d]
  <2>1. f \in 1..NFILE
    BY <1>2, <1>4, Finite DEF Rows
  <2>2. cwd[p] \in INO
    BY <1>1, <1>2, <1>4 DEF ExitOK
  <2>3. <<p, d>> \in Fds(f) /\ Fds(f) \in SUBSET (Proc \X (1..NOFILE))
    BY DEF Fds
  <2>4. IsFiniteSet(Proc \X (1..NOFILE))
    BY Finite, FS_Product
  <2> HIDE DEF f
  <2>5. IsFiniteSet(Fds(f)) /\ Cardinality(Fds(f)) \in Nat
    BY <2>3, <2>4, FS_Subset, FS_CardinalityType
  <2>6. Cardinality(Fds(f)) # 0
    BY <2>3, <2>5, FS_EmptySet
  <2>7. file[f].ref >= 1
    BY <1>3, <2>1, <2>5, <2>6
  <2>8. file[f].ip \in INO \cup {0} /\ file[f].ip # 0
    BY <1>2, <1>3, <2>1, <2>7 DEF FileTable
  <2> QED BY <2>1, <2>2, <2>7, <2>8 DEF f
<1> QED BY <1>2, <1>3, <1>4 DEF FileState

\* A process between calls, or in exit(), holds only its directory.
LEMMA IdleRest ==
  ASSUME NEW p, State(p), th[p].pc \in {"user", "exit_files"}
  PROVE  /\ th[p] \in Thread /\ th[p].put = <<>> /\ th[p].r = "user"
         /\ th[p].cur = 0 /\ th[p].dp = 0 /\ th[p].ip = 0
         /\ th[p].pc = "user" => th[p] = NoThread
         /\ \A j \in INO : ~LockedBy(th[p], j)
         /\ \A c : \A j \in INO : Own(th[p], c, j) = One(j, c)
<1>1. /\ th[p] \in Thread /\ Locals(th[p], th[p].pc) /\ th[p].put = <<>> /\ th[p].r = "user"
      /\ th[p].pc = "user" => th[p] = NoThread
  BY DEF State, ThreadOK, Where, PutsOK, Putting
<1>2. th[p].cur = 0 /\ th[p].dp = 0 /\ th[p].ip = 0
  BY <1>1 DEF Locals, WithDp, WithIp
<1>3. \A j \in INO : ~LockedBy(th[p], j)
  BY <1>1 DEF LockedBy, Where, Putting
<1>4. ASSUME NEW c, NEW j \in INO PROVE Own(th[p], c, j) = One(j, c)
  <2>1. Own(th[p], c, j) = One(j, c) + One(j, 0) + One(j, 0) + One(j, 0)
    BY <1>1, <1>2, OwnRest
  <2> QED BY <2>1, Ones
<1> QED BY <1>1, <1>2, <1>3, <1>4

LEMMA NoThreadOwn ==
  /\ \A c : \A j \in INO : Own(NoThread, c, j) = One(j, c)
  /\ NoThread \in Thread /\ ThreadOK(NoThread) /\ Where(NoThread) = "user"
  /\ \A j : ~LockedBy(NoThread, j)
<1>1. /\ NoThread.put = <<>> /\ NoThread.r = "user" /\ NoThread.pc = "user"
      /\ NoThread.cur = 0 /\ NoThread.dp = 0 /\ NoThread.ip = 0
  BY DEF NoThread
<1>2. ASSUME NEW c, NEW j \in INO PROVE Own(NoThread, c, j) = One(j, c)
  <2>1. Own(NoThread, c, j) = One(j, c) + One(j, 0) + One(j, 0) + One(j, 0)
    BY <1>1, OwnRest
  <2> QED BY <2>1, Ones
<1>3. Where(NoThread) = "user" /\ \A j : ~LockedBy(NoThread, j)
  BY <1>1 DEF Where, Putting, LockedBy
<1> QED BY <1>2, <1>3, NoThreadOK

\* Nothing about the open files changes.
LEMMA FilesSame ==
  ASSUME Inv, NEW p \in Proc, UNCHANGED <<file, ofile>>
  PROVE  /\ ofile' = [ofile EXCEPT ![p] = ofile[p]] /\ ofile[p] \in Rows /\ file' \in FileTable
         /\ Named(p, ofile[p])
         /\ \A i : Cardinality(FileRefs(i)) \in Nat /\ Cardinality(FileRefs(i))' = Cardinality(FileRefs(i))
<1>1. FileState(p)
  BY FileKnown
<1>2. ofile' = [ofile EXCEPT ![p] = ofile[p]] /\ ofile[p] \in Rows /\ file' \in FileTable
  BY <1>1 DEF FileState
<1>3. Named(p, ofile[p])
  BY <1>1, RowOK DEF Named, FileState
<1>4. ASSUME NEW i PROVE Cardinality(FileRefs(i)) \in Nat /\ Cardinality(FileRefs(i))' = Cardinality(FileRefs(i))
  <2>1. FileRefs(i) \in SUBSET (1..NFILE) /\ FileRefs(i)' = FileRefs(i)
    BY <1>1 DEF FileRefs, Files, FileState
  <2> QED BY <2>1, Finite, FS_Subset, FS_CardinalityType
<1> QED BY <1>2, <1>3, <1>4

\* sys_chdir() sets the new directory.
LEMMA ChdirSetStep == ASSUME Inv, NEW p \in Proc, chdir_set(p) PROVE Inv'
<1> DEFINE t == th[p]
           i == t.ip
<1>1. State(p) /\ FileState(p)
  BY Known, FileKnown
<1>2. /\ t.pc = "chdir_set" /\ th' = [th EXCEPT ![p] = NoThread] /\ cwd' = [cwd EXCEPT ![p] = i]
      /\ UNCHANGED <<disk, icache, file, ofile, panicked, orphan, stale>>
  BY DEF chdir_set, at, go
<1>3. t \in Thread /\ Locals(t, t.pc) /\ t.put = <<>> /\ t.r = "user"
  BY <1>1, <1>2, Rest DEF Putting
<1>4. t.cur = 0 /\ t.dp = 0 /\ i \in INO
  BY <1>2, <1>3, IpRest DEF WithDp, WithIp
<1>5. /\ ofile' = [ofile EXCEPT ![p] = ofile[p]] /\ ofile[p] \in Rows /\ file' \in FileTable
      /\ Named(p, ofile[p])
      /\ \A j : Cardinality(FileRefs(j)) \in Nat /\ Cardinality(FileRefs(j))' = Cardinality(FileRefs(j))
  BY <1>2, FilesSame
<1>6. Held(p, NoThread, i)
  <2> SUFFICES ASSUME NEW j \in INO
               PROVE  icache'[j].ref = icache[j].ref + Cardinality(FileRefs(j))' - Cardinality(FileRefs(j))
                                       + Own(NoThread, i, j) - Own(t, cwd[p], j)
    BY DEF Held
  <2>1. Own(NoThread, i, j) = One(j, i)
    BY NoThreadOwn
  <2>2. /\ Own1(t, cwd[p], j) = 0 /\ Own2(t, j) = One(j, 0) /\ Own3(t, j) = One(j, 0)
        /\ Own4(t, j) = One(j, i) /\ Own5(t, j) = 0 /\ Own6(t, j) = 0
    BY <1>2, <1>3, <1>4 DEF Own1, Own2, Own3, Own4, Own5, Own6, B, One, OnCwd
  <2>3. Own(t, cwd[p], j) = One(j, i)
    BY <2>2, Ones DEF Own
  <2>4. icache'[j].ref = icache[j].ref /\ icache[j].ref \in Int
    BY <1>1, <1>2 DEF State, Caches
  <2>5. Cardinality(FileRefs(j)) \in Nat /\ Cardinality(FileRefs(j))' = Cardinality(FileRefs(j)) /\ One(j, i) \in Nat
    BY <1>5, Ones
  <2> HIDE DEF t, i
  <2> QED BY <2>1, <2>3, <2>4, <2>5
<1>7. \A j \in INO : icache[j].lock # p
  BY <1>1, <1>2, <1>3 DEF State, LockedBy, Where, Putting
<1>8. Locking(p, NoThread)
  BY <1>2, <1>7 DEF Locking
<1>9. icache' \in Caches /\ i \in INO \cup {0} /\ i # 0
  BY <1>1, <1>2, <1>4, Finite DEF State
<1> HIDE DEF i
<1> QED BY <1>2, <1>5, <1>6, <1>8, <1>9, NoThreadOwn, FilesStep

\* exit() has dropped the directory.
LEMMA ExitDoneStep == ASSUME Inv, NEW p \in Proc, exit_done(p) PROVE Inv'
<1> DEFINE t == th[p]
<1>1. State(p) /\ FileState(p)
  BY Known, FileKnown
<1>2. /\ t.pc = "exit_done" /\ th' = [th EXCEPT ![p] = NoThread] /\ cwd' = [cwd EXCEPT ![p] = 0]
      /\ UNCHANGED <<disk, icache, file, ofile, panicked, orphan, stale>>
  BY DEF exit_done, at, go
<1>3. t \in Thread /\ Locals(t, t.pc) /\ t.put = <<>> /\ t.r = "user"
  BY <1>1, <1>2, Rest DEF Putting
<1>4. t.cur = 0 /\ t.dp = 0 /\ t.ip = 0
  BY <1>2, <1>3 DEF Locals, WithDp, WithIp
<1>5. /\ ofile' = [ofile EXCEPT ![p] = ofile[p]] /\ ofile[p] \in Rows /\ file' \in FileTable
      /\ Named(p, ofile[p])
      /\ \A j : Cardinality(FileRefs(j)) \in Nat /\ Cardinality(FileRefs(j))' = Cardinality(FileRefs(j))
  BY <1>2, FilesSame
<1>6. Held(p, NoThread, 0)
  <2> SUFFICES ASSUME NEW j \in INO
               PROVE  icache'[j].ref = icache[j].ref + Cardinality(FileRefs(j))' - Cardinality(FileRefs(j))
                                       + Own(NoThread, 0, j) - Own(t, cwd[p], j)
    BY DEF Held
  <2>1. Own(NoThread, 0, j) = 0
    BY NoThreadOwn, Ones
  <2>2. /\ Own1(t, cwd[p], j) = 0 /\ Own2(t, j) = One(j, 0) /\ Own3(t, j) = One(j, 0)
        /\ Own4(t, j) = One(j, 0) /\ Own5(t, j) = 0 /\ Own6(t, j) = 0
    BY <1>2, <1>3, <1>4 DEF Own1, Own2, Own3, Own4, Own5, Own6, B, One, OnCwd
  <2>3. Own(t, cwd[p], j) = 0
    BY <2>2, Ones DEF Own
  <2>4. icache'[j].ref = icache[j].ref /\ icache[j].ref \in Int
    BY <1>1, <1>2 DEF State, Caches
  <2>5. Cardinality(FileRefs(j)) \in Nat /\ Cardinality(FileRefs(j))' = Cardinality(FileRefs(j))
    BY <1>5
  <2> HIDE DEF t
  <2> QED BY <2>1, <2>3, <2>4, <2>5
<1>7. \A j \in INO : icache[j].lock # p
  BY <1>1, <1>2, <1>3 DEF State, LockedBy, Where, Putting
<1>8. Locking(p, NoThread)
  BY <1>2, <1>7 DEF Locking
<1>9. icache' \in Caches /\ \A d \in 1..NOFILE : ofile[p][d] = 0
  BY <1>1, <1>2 DEF State, ExitOK, Where, Putting
<1> QED BY <1>2, <1>5, <1>6, <1>8, <1>9, NoThreadOwn, FilesStep

\* A step that changes one descriptor and one file of a process.
\* Descriptor d of p becomes g, and file f gets r references and inode i ...
OtherFiles(p, d, g, f) == \A h \in (1..NFILE) \ {f} : One(g, h) = One(ofile[p][d], h)
SetsFile(p, d, g, f, r, i) ==
  /\ d \in 1..NOFILE /\ g \in 0..NFILE /\ f \in 1..NFILE /\ r \in Int /\ i \in INO \cup {0}
  /\ file' = [file EXCEPT ![f] = [ref |-> r, ip |-> i]]
  /\ r = file[f].ref + One(g, f) - One(ofile[p][d], f) /\ (r > 0 => i # 0)
  /\ OtherFiles(p, d, g, f)

\* ... which changes what the inodes count.
Recounts(f, r, i) ==
  \A j : /\ Cardinality(FileRefs(j)) \in Nat /\ Cardinality(FileRefs(j))' \in Nat
         /\ Cardinality(FileRefs(j))' = Cardinality(FileRefs(j)) + B(r > 0 /\ i = j)
                                        - B(file[f].ref > 0 /\ file[f].ip = j)
LEMMA OneFile ==
  ASSUME Inv, NEW p \in Proc, NEW d, NEW g, NEW f, NEW r, NEW i, SetsFile(p, d, g, f, r, i)
  PROVE  /\ file' \in FileTable /\ [ofile[p] EXCEPT ![d] = g] \in Rows
         /\ Named(p, [ofile[p] EXCEPT ![d] = g]) /\ Recounts(f, r, i)
<1> USE DEF SetsFile
<1> DEFINE o == [ofile[p] EXCEPT ![d] = g]
<1>1. FileState(p)
  BY FileKnown
<1>2. ofile[p] \in Rows /\ file \in FileTable /\ Files
  BY <1>1 DEF FileState
<1>3. /\ file' \in FileTable /\ file'[f].ref = r /\ file'[f].ip = i
      /\ \A h \in (1..NFILE) \ {f} : file'[h] = file[h]
  BY <1>2 DEF FileTable
<1>4. Files'
  BY <1>3 DEF Files, FileTable
<1>5. \A h : /\ o \in Rows
             /\ Cardinality(Row(o, h)) = Cardinality(Row(ofile[p], h)) + One(g, h) - One(ofile[p][d], h)
  BY <1>2, RowStep
<1>6. \A j : /\ Cardinality(FileRefs(j)) \in Nat /\ Cardinality(FileRefs(j))' \in Nat
             /\ Cardinality(FileRefs(j))' = Cardinality(FileRefs(j))
                  + B(file'[f].ref > 0 /\ file'[f].ip = j) - B(file[f].ref > 0 /\ file[f].ip = j)
  BY <1>2, <1>3, <1>4, FileRefsStep
<1> HIDE DEF o
<1>7. Named(p, o)
  <2> SUFFICES ASSUME NEW h \in 1..NFILE
               PROVE  /\ file'[h].ref = file[h].ref + Cardinality(Row(o, h)) - Cardinality(Row(ofile[p], h))
                      /\ file'[h].ref > 0 => file'[h].ip # 0
    BY DEF Named
  <2>1. Cardinality(Row(o, h)) \in Nat /\ Cardinality(Row(ofile[p], h)) \in Nat /\ file[h].ref \in Nat
    BY <1>1, RowOK DEF FileState
  <2>2. Cardinality(Row(o, h)) = Cardinality(Row(ofile[p], h)) + One(g, h) - One(ofile[p][d], h)
    BY <1>5
  <2>3. One(g, h) \in Nat /\ One(ofile[p][d], h) \in Nat
    BY Ones
  <2>4. CASE h = f
    BY <2>1, <2>2, <2>3, <2>4, <1>3
  <2>5. CASE h # f
    <3>1. file'[h] = file[h] /\ One(g, h) = One(ofile[p][d], h) /\ (file[h].ref > 0 => file[h].ip # 0)
      BY <2>5, <1>1, <1>3 DEF FileState, OtherFiles
    <3> QED BY <3>1, <2>1, <2>2, <2>3
  <2> QED BY <2>4, <2>5
<1>8. Recounts(f, r, i)
  BY <1>3, <1>6 DEF Recounts
<1> QED BY <1>3, <1>5, <1>7, <1>8 DEF o

\* sys_open() installs the file.
LEMMA OpenFileStep ==
  ASSUME Inv, NEW p \in Proc, open_file(p),
         ~(icache[th[p].ip].type = "baddev" \/ filealloc = 0 \/ fdalloc(p) = 0)
  PROVE  Inv'
<1> DEFINE t == th[p]
           i == t.ip
           f == filealloc
           d == fdalloc(p)
           o == [ofile[p] EXCEPT ![d] = f]
           r == 1
<1>1. State(p) /\ FileState(p)
  BY Known, FileKnown
<1>2. /\ t.pc = "open_file" /\ file' = [file EXCEPT ![f] = [ref |-> 1, ip |-> i]]
      /\ ofile' = [ofile EXCEPT ![p][d] = f] /\ icache' = [icache EXCEPT ![i].lock = None]
      /\ th' = [th EXCEPT ![p] = NoThread] /\ UNCHANGED <<disk, cwd, panicked, orphan, stale>>
  BY DEF open_file, at, go
<1>3. t \in Thread /\ Locals(t, t.pc) /\ t.put = <<>> /\ t.r = "user" /\ cwd[p] \in INO
  BY <1>1, <1>2, Rest DEF Putting
<1>4. t.cur = 0 /\ t.dp = 0 /\ i \in INO /\ i # 0
  BY <1>2, <1>3, IpRest, Finite DEF WithDp, WithIp
<1>5. f \in 1..NFILE /\ file[f].ref = 0 /\ f # 0
  <2>1. {g \in DOMAIN file : file[g].ref = 0} \in SUBSET Nat /\ DOMAIN file = 1..NFILE
    BY <1>1, Finite DEF FileState, Files
  <2>2. f \in {g \in DOMAIN file : file[g].ref = 0}
    BY <2>1, LowestOK DEF filealloc
  <2> QED BY <2>1, <2>2, Finite
<1>6. d \in 1..NOFILE /\ ofile[p][d] = 0
  <2>1. {x \in 1..NOFILE : ofile[p][x] = 0} \in SUBSET Nat
    BY Finite
  <2>2. d \in {x \in 1..NOFILE : ofile[p][x] = 0}
    BY <2>1, LowestOK DEF fdalloc
  <2> QED BY <2>2
<1>7. ofile' = [ofile EXCEPT ![p] = o] /\ cwd' = [cwd EXCEPT ![p] = cwd[p]] /\ f \in 0..NFILE
  BY <1>1, <1>2, <1>5, Finite DEF FileState
<1>8. SetsFile(p, d, f, f, r, i) /\ r > 0
  BY <1>2, <1>4, <1>5, <1>6, <1>7 DEF One, OtherFiles, SetsFile
<1> HIDE DEF f, d, i, r
<1>9. /\ file' \in FileTable /\ o \in Rows /\ Named(p, o) /\ Recounts(f, r, i)
  BY <1>8, OneFile
<1> HIDE DEF o
<1>10. icache' \in Caches /\ \A j \in INO : icache'[j].ref = icache[j].ref /\ icache'[j].lock \in {icache[j].lock, None}
                              /\ (j = i => icache'[j].lock = None)
  BY <1>1, <1>2, <1>4 DEF State, Caches
<1>11. Held(p, NoThread, cwd[p])
  <2> SUFFICES ASSUME NEW j \in INO
               PROVE  icache'[j].ref = icache[j].ref + Cardinality(FileRefs(j))' - Cardinality(FileRefs(j))
                                       + Own(NoThread, cwd[p], j) - Own(t, cwd[p], j)
    BY DEF Held
  <2>1. Own(NoThread, cwd[p], j) = One(j, cwd[p])
    BY NoThreadOwn
  <2>2. Own(t, cwd[p], j) = One(j, cwd[p]) + One(j, 0) + One(j, 0) + One(j, i)
    BY <1>2, <1>3, <1>4, OwnRest DEF i
  <2>3. icache'[j].ref = icache[j].ref /\ icache[j].ref \in Int
    BY <1>1, <1>10 DEF State, Caches
  <2>4. Cardinality(FileRefs(j)) \in Nat /\ Cardinality(FileRefs(j))' = Cardinality(FileRefs(j)) + One(j, i)
    BY <1>5, <1>8, <1>9 DEF B, One, Recounts
  <2>5. One(j, i) \in Nat /\ One(j, cwd[p]) \in Nat /\ One(j, 0) = 0
    BY Ones
  <2> HIDE DEF t
  <2> QED BY <2>1, <2>2, <2>3, <2>4, <2>5
<1>12. Locking(p, NoThread)
  <2>1. \A j \in INO : icache[j].lock = p => j = i
    BY <1>1, <1>2, <1>3 DEF State, LockedBy, Where, Putting, i
  <2> QED BY <1>10, <2>1 DEF Locking
<1>13. cwd[p] \in INO \cup {0} /\ cwd[p] # 0
  BY <1>3, Finite
<1> QED BY <1>2, <1>7, <1>9, <1>10, <1>11, <1>12, <1>13, NoThreadOwn, FilesStep

\* A step of an idle process that keeps the cache as it is.
LEMMA IdleHeld ==
  ASSUME Inv, NEW p \in Proc, th[p].pc \in {"user", "exit_files"}, icache' = icache, NEW u,
         \A j \in INO : /\ Cardinality(FileRefs(j)) \in Nat /\ Cardinality(FileRefs(j))' \in Nat
                        /\ Own(u, cwd[p], j) + Cardinality(FileRefs(j))' = One(j, cwd[p]) + Cardinality(FileRefs(j))
  PROVE  Held(p, u, cwd[p]) /\ Locking(p, u) /\ icache' \in Caches
<1>1. State(p)
  BY Known
<1>2. /\ \A j \in INO : ~LockedBy(th[p], j)
      /\ \A j \in INO : Own(th[p], cwd[p], j) = One(j, cwd[p])
  BY <1>1, IdleRest
<1>3. Held(p, u, cwd[p])
  <2> SUFFICES ASSUME NEW j \in INO
               PROVE  icache'[j].ref = icache[j].ref + Cardinality(FileRefs(j))' - Cardinality(FileRefs(j))
                                       + Own(u, cwd[p], j) - Own(th[p], cwd[p], j)
    BY DEF Held
  <2>1. icache'[j].ref = icache[j].ref /\ icache[j].ref \in Int
    BY <1>1 DEF State, Caches
  <2>2. Own(u, cwd[p], j) \in Nat /\ One(j, cwd[p]) \in Nat /\ Own(th[p], cwd[p], j) = One(j, cwd[p])
    BY <1>2, OwnInt, Ones
  <2>3. /\ Cardinality(FileRefs(j)) \in Nat /\ Cardinality(FileRefs(j))' \in Nat
        /\ Own(u, cwd[p], j) + Cardinality(FileRefs(j))' = One(j, cwd[p]) + Cardinality(FileRefs(j))
    OBVIOUS
  <2> QED BY <2>1, <2>2, <2>3
<1>4. Locking(p, u)
  BY <1>1, <1>2 DEF Locking, State
<1> QED BY <1>1, <1>3, <1>4 DEF State

\* sys_dup() copies a descriptor.
LEMMA DupStep == ASSUME Inv, NEW p \in Proc, sys_dup(p) PROVE Inv'
<1>1. State(p) /\ FileState(p)
  BY Known, FileKnown
<1>2. PICK e \in 1..NOFILE :
        /\ th[p].pc = "user" /\ ofile[p][e] # 0 /\ fdalloc(p) # 0
        /\ ofile' = [ofile EXCEPT ![p][fdalloc(p)] = ofile[p][e]]
        /\ file' = [file EXCEPT ![ofile[p][e]].ref = @ + 1]
        /\ UNCHANGED <<disk, icache, cwd, th, panicked, orphan, stale>>
  BY DEF sys_dup, filedup, at
<1> DEFINE d == fdalloc(p)
           f == ofile[p][e]
           o == [ofile[p] EXCEPT ![d] = f]
           i == file[f].ip
           r == file[f].ref + 1
<1>3. /\ cwd[p] \in INO /\ f \in 1..NFILE /\ file[f].ref >= 1 /\ i \in INO
      /\ file[f].ref \in Nat /\ i # 0
  BY <1>1, <1>2, Finite DEF FileState
<1>4. d \in 1..NOFILE /\ ofile[p][d] = 0
  <2>1. {x \in 1..NOFILE : ofile[p][x] = 0} \in SUBSET Nat
    BY Finite
  <2>2. d \in {x \in 1..NOFILE : ofile[p][x] = 0}
    BY <1>2, <2>1, LowestOK DEF fdalloc
  <2> QED BY <2>2
<1>5. /\ ofile' = [ofile EXCEPT ![p] = o] /\ cwd' = [cwd EXCEPT ![p] = cwd[p]]
      /\ th' = [th EXCEPT ![p] = th[p]] /\ f \in 0..NFILE
  BY <1>1, <1>2, <1>3, Finite DEF FileState
<1>6. file' = [file EXCEPT ![f] = [ref |-> r, ip |-> i]]
  <2>1. file[f] \in [ref : Int, ip : INO \cup {0}]
    BY <1>1, <1>3 DEF FileState, FileTable
  <2>2. [file[f] EXCEPT !.ref = @ + 1] = [ref |-> r, ip |-> i]
    BY <2>1
  <2>3. file' = [file EXCEPT ![f] = [file[f] EXCEPT !.ref = @ + 1]]
    BY <1>2
  <2> QED BY <2>2, <2>3
<1>7. SetsFile(p, d, f, f, r, i) /\ r \in Int /\ r > 0
  BY <1>3, <1>4, <1>5, <1>6, Finite DEF One, OtherFiles, SetsFile
<1> HIDE DEF f, d, i, r
<1>8. /\ file' \in FileTable /\ o \in Rows /\ Named(p, o) /\ Recounts(f, r, i)
  BY <1>7, OneFile
<1> HIDE DEF o
<1>9. /\ th[p] \in Thread /\ th[p] = NoThread /\ \A j \in INO : Own(th[p], cwd[p], j) = One(j, cwd[p])
  BY <1>1, <1>2, IdleRest
<1>10. \A j \in INO : Own(th[p], cwd[p], j) + Cardinality(FileRefs(j))' = One(j, cwd[p]) + Cardinality(FileRefs(j))
  BY <1>3, <1>7, <1>8, <1>9, Ones DEF B, i, Recounts
<1>11. Held(p, th[p], cwd[p]) /\ Locking(p, th[p]) /\ icache' \in Caches
  BY <1>2, <1>8, <1>10, IdleHeld DEF Recounts
<1>12. cwd[p] \in INO \cup {0} /\ cwd[p] # 0
  BY <1>3, Finite
<1> QED BY <1>2, <1>5, <1>8, <1>9, <1>11, <1>12, NoThreadOwn, FilesStep

\* fileclose(), for close() or exit().
LEMMA FilecloseStep ==
  ASSUME Inv, NEW p \in Proc, NEW d \in 1..NOFILE, NEW x \in {"user", "exit_files"},
         th[p].pc \in {"user", "exit_files"}, x = "user" => th[p].pc = "user",
         ofile[p][d] # 0, fileclose(p, d, x)
  PROVE  Inv'
<1> DEFINE t == th[p]
           f == ofile[p][d]
           o == [ofile[p] EXCEPT ![d] = 0]
           i == file[f].ip
<1>1. State(p) /\ FileState(p)
  BY Known, FileKnown
<1>2. /\ ofile' = [ofile EXCEPT ![p][d] = 0] /\ UNCHANGED <<disk, icache, cwd, panicked, orphan, stale>>
      /\ \/ /\ file[f].ref > 1 /\ file' = [file EXCEPT ![f].ref = @ - 1]
            /\ th' = [th EXCEPT ![p] = [t EXCEPT !.pc = x]]
         \/ /\ ~(file[f].ref > 1) /\ file' = [file EXCEPT ![f] = [ref |-> 0, ip |-> 0]]
            /\ th' = [th EXCEPT ![p] = [t EXCEPT !.pc = "put", !.put = <<put(i)>>, !.r = x]]
  BY DEF fileclose, puts, go
<1>3. /\ cwd[p] \in INO /\ f \in 1..NFILE /\ file[f].ref >= 1 /\ i \in INO
      /\ file[f].ref \in Nat /\ i # 0 /\ cwd[p] # 0 /\ cwd[p] \in INO \cup {0}
  BY <1>1, Finite DEF FileState
<1>4. /\ ofile' = [ofile EXCEPT ![p] = o] /\ cwd' = [cwd EXCEPT ![p] = cwd[p]] /\ 0 \in 0..NFILE
  BY <1>1, <1>2, Finite DEF FileState
<1>5. /\ t \in Thread /\ t.put = <<>> /\ t.r = "user" /\ t.cur = 0 /\ t.dp = 0 /\ t.ip = 0
      /\ t.pc = "user" => t = NoThread
      /\ \A j \in INO : Own(t, cwd[p], j) = One(j, cwd[p])
  BY <1>1, IdleRest
<1>6. /\ One(f, f) = 1 /\ One(0, f) = 0 /\ OtherFiles(p, d, 0, f)
  BY <1>3, Finite DEF One, OtherFiles
<1>7. ASSUME file[f].ref > 1, file' = [file EXCEPT ![f].ref = @ - 1], th' = [th EXCEPT ![p] = [t EXCEPT !.pc = x]]
      PROVE  Inv'
  <2> DEFINE u == [t EXCEPT !.pc = x]
             r == file[f].ref - 1
  <2>1. file' = [file EXCEPT ![f] = [ref |-> r, ip |-> i]]
    <3>1. file[f] \in [ref : Int, ip : INO \cup {0}]
      BY <1>1, <1>3 DEF FileState, FileTable
    <3>2. [file[f] EXCEPT !.ref = @ - 1] = [ref |-> r, ip |-> i]
      BY <3>1
    <3>3. file' = [file EXCEPT ![f] = [file[f] EXCEPT !.ref = @ - 1]]
      BY <1>7
    <3> QED BY <3>2, <3>3
  <2>2. SetsFile(p, d, 0, f, r, i) /\ r \in Int /\ r > 0
    <3>1. r \in Int /\ r > 0 /\ r = file[f].ref + One(0, f) - One(ofile[p][d], f)
      BY <1>3, <1>6, <1>7
    <3> HIDE DEF r, f, i
    <3> QED BY <1>3, <1>4, <1>6, <2>1, <3>1 DEF SetsFile
  <2>3. /\ u \in Thread /\ u.pc = x /\ u.put = <<>> /\ u.r = "user" /\ u.cur = 0 /\ u.dp = 0 /\ u.ip = 0
        /\ x = "user" => u = NoThread
    <3>1. u \in Thread /\ u.pc = x /\ u.put = t.put /\ u.r = t.r /\ u.cur = t.cur /\ u.dp = t.dp /\ u.ip = t.ip
      BY <1>5, Labels DEF Thread
    <3>2. x = "user" => u = t
      BY <1>5 DEF Thread
    <3> QED BY <1>5, <3>1, <3>2
  <2>4. th' = [th EXCEPT ![p] = u]
    BY <1>7
  <2> HIDE DEF u, r, f, i
  <2>5. file' \in FileTable /\ o \in Rows /\ Named(p, o) /\ Recounts(f, r, i)
    BY <2>2, OneFile
  <2> HIDE DEF o
  <2>6. ThreadOK(u) /\ Where(u) = x
    BY <2>3, NoThreadOwn DEF ThreadOK, PutsOK, Locals, Where, Putting, WithDp, WithIp, Idle
  <2>7. \A j \in INO : Own(u, cwd[p], j) + Cardinality(FileRefs(j))' = One(j, cwd[p]) + Cardinality(FileRefs(j))
    <3> SUFFICES ASSUME NEW j \in INO
                 PROVE  Own(u, cwd[p], j) + Cardinality(FileRefs(j))' = One(j, cwd[p]) + Cardinality(FileRefs(j))
      OBVIOUS
    <3>1. Own(u, cwd[p], j) = One(j, cwd[p]) + One(j, 0) + One(j, 0) + One(j, 0)
      BY <2>3, OwnRest
    <3>2. Cardinality(FileRefs(j))' = Cardinality(FileRefs(j)) /\ Cardinality(FileRefs(j)) \in Nat
      BY <1>3, <2>2, <2>5 DEF Recounts, B, i
    <3> QED BY <3>1, <3>2, Ones
  <2>8. Held(p, u, cwd[p]) /\ Locking(p, u) /\ icache' \in Caches
    BY <1>2, <2>5, <2>7, IdleHeld DEF Recounts
  <2> QED BY <1>2, <1>3, <1>4, <2>3, <2>4, <2>5, <2>6, <2>8, FilesStep
<1>8. ASSUME ~(file[f].ref > 1), file' = [file EXCEPT ![f] = [ref |-> 0, ip |-> 0]],
             th' = [th EXCEPT ![p] = [t EXCEPT !.pc = "put", !.put = <<put(i)>>, !.r = x]]
      PROVE  Inv'
  <2> DEFINE u == [t EXCEPT !.pc = "put", !.put = <<put(i)>>, !.r = x]
             r == 0
             k == 0
  <2>1. SetsFile(p, d, 0, f, r, k) /\ r = 0 /\ file[f].ref = 1
    BY <1>3, <1>4, <1>6, <1>8 DEF SetsFile
  <2>2. /\ u \in Thread /\ u.pc = "put" /\ u.put = <<put(i)>> /\ u.r = x /\ u.cur = 0 /\ u.dp = 0 /\ u.ip = 0
    BY <1>3, <1>5, Labels DEF Thread
  <2>3. th' = [th EXCEPT ![p] = u]
    BY <1>8
  <2> HIDE DEF u, r, f, i, k
  <2>5. file' \in FileTable /\ o \in Rows /\ Named(p, o) /\ Recounts(f, r, k)
    BY <2>1, OneFile
  <2> HIDE DEF o
  <2>6. ThreadOK(u) /\ Where(u) = x
    BY <2>2 DEF ThreadOK, PutsOK, Locals, Where, Putting, WithDp, WithIp, Idle
  <2>7. \A j \in INO : Own(u, cwd[p], j) + Cardinality(FileRefs(j))' = One(j, cwd[p]) + Cardinality(FileRefs(j))
    <3> SUFFICES ASSUME NEW j \in INO
                 PROVE  Own(u, cwd[p], j) + Cardinality(FileRefs(j))' = One(j, cwd[p]) + Cardinality(FileRefs(j))
      OBVIOUS
    <3>1. Own(u, cwd[p], j) = One(j, cwd[p]) + One(j, 0) + One(j, 0) + One(j, 0) + One(j, i)
      BY <2>2, OwnPut DEF put
    <3>2. Cardinality(FileRefs(j))' = Cardinality(FileRefs(j)) - One(j, i) /\ Cardinality(FileRefs(j)) \in Nat
      BY <2>1, <2>5 DEF Recounts, B, One, i
    <3> QED BY <3>1, <3>2, Ones
  <2>8. Held(p, u, cwd[p]) /\ Locking(p, u) /\ icache' \in Caches
    BY <1>2, <2>5, <2>7, IdleHeld DEF Recounts
  <2> QED BY <1>2, <1>3, <1>4, <2>2, <2>3, <2>5, <2>6, <2>8, FilesStep
<1> QED BY <1>2, <1>7, <1>8

LEMMA CloseStep == ASSUME Inv, NEW p \in Proc, sys_close(p) PROVE Inv'
<1>1. PICK d \in 1..NOFILE : th[p].pc = "user" /\ ofile[p][d] # 0 /\ fileclose(p, d, "user")
  BY DEF sys_close, at
<1> QED BY <1>1, FilecloseStep

\* exit() closes a file, or drops the directory when there is none left.
LEMMA ExitStep == ASSUME Inv, NEW p \in Proc, exit(p) PROVE Inv'
<1> DEFINE t == th[p]
           S == {d \in 1..NOFILE : ofile[p][d] # 0}
<1>1. State(p) /\ FileState(p)
  BY Known, FileKnown
<1>2. t.pc \in {"user", "exit_files"} /\ cwd[p] \in INO
  BY <1>1 DEF exit, at, State
<1>3. CASE S # {}
  <2> DEFINE d == Lowest(S)
  <2>1. S \in SUBSET Nat /\ \E x \in S : TRUE
    BY <1>3, Finite
  <2>2. d \in S
    <3>1. \E x \in S : \A y \in S : x =< y
      BY <1>3, <2>1, Least
    <3> HIDE DEF S
    <3> QED BY <1>3, <3>1 DEF Lowest, Min
  <2>3. fileclose(p, d, "exit_files")
    BY <1>3 DEF exit
  <2> HIDE DEF d
  <2> QED BY <1>2, <2>2, <2>3, FilecloseStep
<1>4. CASE S = {}
  <2> DEFINE u == [t EXCEPT !.pc = "put", !.put = <<put(cwd[p])>>, !.r = "exit_done"]
  <2>1. th' = [th EXCEPT ![p] = u] /\ UNCHANGED <<disk, icache, file, ofile, cwd, panicked, orphan, stale>>
    BY <1>4 DEF exit, puts, go
  <2>2. /\ t \in Thread /\ t.put = <<>> /\ t.r = "user" /\ t.cur = 0 /\ t.dp = 0 /\ t.ip = 0
        /\ \A j \in INO : ~LockedBy(t, j)
        /\ \A j \in INO : Own(t, cwd[p], j) = One(j, cwd[p])
    BY <1>1, <1>2, IdleRest
  <2>3. /\ u \in Thread /\ u.pc = "put" /\ u.put = <<put(cwd[p])>> /\ u.r = "exit_done"
        /\ u.cur = 0 /\ u.dp = 0 /\ u.ip = 0
    BY <1>2, <2>2, Labels DEF Thread
  <2> HIDE DEF u
  <2>4. ThreadOK(u)
    BY <2>3 DEF ThreadOK, PutsOK, Locals, Where, Putting, WithDp, WithIp, Idle
  <2>5. Stays(p, u)
    BY <1>2, <1>4, Finite DEF Stays
  <2>6. Counted(p, u)
    <3>1. \A j \in INO : Own(u, cwd[p], j) = Own(t, cwd[p], j)
      <4> SUFFICES ASSUME NEW j \in INO PROVE Own(u, cwd[p], j) = Own(t, cwd[p], j)
        OBVIOUS
      <4>1. /\ Own1(u, cwd[p], j) = 0 /\ Own2(u, j) = One(j, 0) /\ Own3(u, j) = One(j, 0)
            /\ Own4(u, j) = One(j, 0) /\ Own5(u, j) = One(j, cwd[p]) /\ Own6(u, j) = 0
        BY <2>3 DEF Own1, Own2, Own3, Own4, Own5, Own6, B, One, OnCwd, put
      <4> QED BY <2>2, <4>1, Ones DEF Own
    <3> QED BY <1>1, <2>1, <3>1, CountedSame DEF State
  <2>7. Locking(p, u)
    BY <1>1, <2>1, <2>2 DEF Locking, State
  <2> QED BY <1>1, <2>1, <2>3, <2>4, <2>5, <2>6, <2>7, ThreadStep DEF State
<1> QED BY <1>3, <1>4

\* filestat() only reads.
LEMMA StatStep == ASSUME Inv, NEW p \in Proc, filestat(p) PROVE Inv'
<1>1. State(p) /\ FileState(p)
  BY Known, FileKnown
<1>2. PICK d \in 1..NOFILE :
        /\ th[p].pc = "user" /\ ofile[p][d] # 0
        /\ ilock(p, file[ofile[p][d]].ip, icache' = loaded(icache, file[ofile[p][d]].ip) /\ UNCHANGED <<th, stale, orphan, disk>>)
        /\ UNCHANGED <<file, ofile, cwd>>
  BY DEF filestat, at
<1> DEFINE f == ofile[p][d]
           i == file[f].ip
<1>3. cwd[p] \in INO /\ f \in 1..NFILE /\ file[f].ref > 0 /\ i \in INO
  <2>1. cwd[p] \in INO /\ f \in 1..NFILE /\ file[f].ref >= 1 /\ i \in INO /\ file[f].ref \in Nat
    BY <1>1, <1>2 DEF FileState
  <2> QED BY <2>1
<1>4. lock_panic(i) # "ilock"
  BY <1>3, InCache
<1>5. \/ Panic(lock_panic(i))
      \/ panicked' = panicked /\ icache' = loaded(icache, i) /\ UNCHANGED <<th, stale, orphan, disk>>
  BY <1>2 DEF ilock
<1>6. CASE Panic(lock_panic(i))
  BY <1>4, <1>6, PanicStep
<1>7. CASE panicked' = panicked /\ icache' = loaded(icache, i) /\ UNCHANGED <<th, stale, orphan, disk>>
  <2>1. Like(icache', p, 0, 0)
    BY <1>1, <1>3, <1>7, LikeLoaded
  <2>2. th[p] = NoThread
    BY <1>1, <1>2, IdleRest
  <2>3. Gains(p, th[p], 0) /\ Keeps(p, th[p])
    BY Ones, OwnInt DEF Gains, Keeps
  <2>4. th' = [th EXCEPT ![p] = th[p]]
    BY <1>1, <1>7 DEF FileState
  <2>5. disk' \in Disks /\ orphan' \subseteq INO /\ stale' \in BOOLEAN
    BY <1>1, <1>7 DEF State
  <2>6. UNCHANGED <<file, ofile, cwd, panicked>>
    BY <1>2, <1>7
  <2>7. th[p] \in Thread /\ ThreadOK(th[p]) /\ Where(th[p]) # "exit_done"
    BY <2>2, NoThreadOwn
  <2> QED BY <1>3, <2>1, <2>3, <2>4, <2>5, <2>6, <2>7, Finite, MoveStep
<1> QED BY <1>5, <1>6, <1>7

\* fork(): the child has the descriptors and the directory of its parent.
LEMMA ForkStep == ASSUME Inv, NEW p \in Proc, NEW q \in Proc, fork(p, q) PROVE Inv'
<1> DEFINE o == ofile[p]
           w == cwd[p]
<1>1. State(p) /\ FileState(p) /\ State(q) /\ FileState(q)
  BY Known, FileKnown
<1>2. /\ w # 0 /\ cwd[q] = 0 /\ ofile' = [ofile EXCEPT ![q] = o] /\ cwd' = [cwd EXCEPT ![q] = w]
      /\ file' = [f \in DOMAIN file |-> [file[f] EXCEPT !.ref = @ + Cardinality(Row(o, f))]]
      /\ icache' = [icache EXCEPT ![w].ref = @ + 1] /\ UNCHANGED <<disk, th, panicked, orphan, stale>>
  BY DEF fork, Row
<1>3. w \in INO /\ w \in INO \cup {0} /\ o \in Rows
  BY <1>1, <1>2 DEF State, FileState
<1>4. th[q] = NoThread /\ th' = [th EXCEPT ![q] = NoThread] /\ \A d \in 1..NOFILE : ofile[q][d] = 0
  BY <1>1, <1>2 DEF State, ExitOK, FileState
<1>5. \A f \in 1..NFILE : Cardinality(Row(ofile[q], f)) = 0
  <2> SUFFICES ASSUME NEW f \in 1..NFILE PROVE Cardinality(Row(ofile[q], f)) = 0
    OBVIOUS
  <2>1. Row(ofile[q], f) = {}
    BY <1>4, Finite DEF Row
  <2> QED BY <2>1, FS_EmptySet
<1> HIDE DEF o, w
<1>6. \A f \in 1..NFILE : /\ Cardinality(Row(o, f)) \in Nat /\ file[f].ref \in Nat
                          /\ Cardinality(Row(o, f)) > 0 => file[f].ref >= 1
  <2> SUFFICES ASSUME NEW f \in 1..NFILE
               PROVE  /\ Cardinality(Row(o, f)) \in Nat /\ file[f].ref \in Nat
                      /\ Cardinality(Row(o, f)) > 0 => file[f].ref >= 1
    OBVIOUS
  <2>1. IsFiniteSet(Row(o, f)) /\ Cardinality(Row(o, f)) \in Nat /\ file[f].ref \in Nat
    BY <1>1, RowOK DEF FileState
  <2>2. ASSUME Cardinality(Row(o, f)) > 0 PROVE file[f].ref >= 1
    <3>1. Row(o, f) # {}
      BY <2>1, <2>2, FS_EmptySet
    <3>2. PICK d \in 1..NOFILE : ofile[p][d] = f
      BY <3>1 DEF Row, o
    <3> QED BY <1>1, <3>2, Finite DEF FileState
  <2> QED BY <2>1, <2>2
<1>7. /\ file' \in FileTable
      /\ \A f \in 1..NFILE : file'[f].ref = file[f].ref + Cardinality(Row(o, f)) /\ file'[f].ip = file[f].ip
  <2>1. DOMAIN file = 1..NFILE /\ \A f \in 1..NFILE : file[f] \in [ref : Int, ip : INO \cup {0}]
    BY <1>1 DEF FileState, FileTable
  <2>2. \A f \in 1..NFILE : file'[f] = [file[f] EXCEPT !.ref = @ + Cardinality(Row(o, f))]
    BY <1>2, <2>1
  <2>3. \A f \in 1..NFILE : /\ file'[f].ref = file[f].ref + Cardinality(Row(o, f)) /\ file'[f].ip = file[f].ip
                            /\ file'[f] \in [ref : Int, ip : INO \cup {0}]
    <3> SUFFICES ASSUME NEW f \in 1..NFILE
                 PROVE  /\ file'[f].ref = file[f].ref + Cardinality(Row(o, f)) /\ file'[f].ip = file[f].ip
                        /\ file'[f] \in [ref : Int, ip : INO \cup {0}]
      OBVIOUS
    <3> DEFINE n == Cardinality(Row(o, f))
    <3>1. n \in Nat /\ file[f] \in [ref : Int, ip : INO \cup {0}] /\ file'[f] = [file[f] EXCEPT !.ref = @ + n]
      BY <1>6, <2>1, <2>2
    <3> HIDE DEF n
    <3>2. /\ file'[f].ref = file[f].ref + n /\ file'[f].ip = file[f].ip
          /\ file'[f] \in [ref : Int, ip : INO \cup {0}]
      BY <3>1
    <3> QED BY <3>2 DEF n
  <2>4. file' = [f \in 1..NFILE |-> file'[f]]
    BY <1>2, <2>1
  <2> QED BY <2>3, <2>4 DEF FileTable
<1>8. Named(q, o)
  <2> SUFFICES ASSUME NEW f \in 1..NFILE
               PROVE  /\ file'[f].ref = file[f].ref + Cardinality(Row(o, f)) - Cardinality(Row(ofile[q], f))
                      /\ file'[f].ref > 0 => file'[f].ip # 0
    BY DEF Named
  <2>1. file[f].ref > 0 => file[f].ip # 0
    BY <1>1 DEF FileState
  <2>2. Cardinality(Row(o, f)) \in Nat /\ file[f].ref \in Nat /\ (Cardinality(Row(o, f)) > 0 => file[f].ref >= 1)
    BY <1>6
  <2>3. /\ file'[f].ref = file[f].ref + Cardinality(Row(o, f)) /\ file'[f].ip = file[f].ip
        /\ Cardinality(Row(ofile[q], f)) = 0
    BY <1>5, <1>7
  <2> QED BY <2>1, <2>2, <2>3
<1>9. \A i : Cardinality(FileRefs(i)) \in Nat /\ Cardinality(FileRefs(i))' = Cardinality(FileRefs(i))
  <2> SUFFICES ASSUME NEW i
               PROVE  Cardinality(FileRefs(i)) \in Nat /\ Cardinality(FileRefs(i))' = Cardinality(FileRefs(i))
    OBVIOUS
  <2>1. DOMAIN file = 1..NFILE /\ DOMAIN file' = 1..NFILE
    BY <1>1, <1>7 DEF FileState, FileTable
  <2>2. \A f \in 1..NFILE : file'[f].ref > 0 <=> file[f].ref > 0
    BY <1>6, <1>7
  <2>3. FileRefs(i) \in SUBSET (1..NFILE) /\ FileRefs(i)' = FileRefs(i)
    BY <1>7, <2>1, <2>2 DEF FileRefs
  <2> QED BY <2>3, Finite, FS_Subset, FS_CardinalityType
<1>10. icache' \in Caches /\ \A j \in INO : icache'[j].ref = icache[j].ref + One(j, w) /\ icache'[j].lock = icache[j].lock
  BY <1>1, <1>2, <1>3 DEF State, Caches, One
<1>11. Held(q, NoThread, w)
  <2> SUFFICES ASSUME NEW j \in INO
               PROVE  icache'[j].ref = icache[j].ref + Cardinality(FileRefs(j))' - Cardinality(FileRefs(j))
                                       + Own(NoThread, w, j) - Own(th[q], cwd[q], j)
    BY DEF Held
  <2>1. Own(NoThread, w, j) = One(j, w) /\ Own(th[q], cwd[q], j) = 0 /\ One(j, w) \in Nat
    BY <1>2, <1>4, NoThreadOwn, Ones
  <2>2. icache'[j].ref = icache[j].ref + One(j, w) /\ icache[j].ref \in Int
    BY <1>1, <1>10 DEF State, Caches
  <2>3. Cardinality(FileRefs(j)) \in Nat /\ Cardinality(FileRefs(j))' = Cardinality(FileRefs(j))
    BY <1>9
  <2> QED BY <2>1, <2>2, <2>3
<1>12. Locking(q, NoThread)
  <2>1. \A j \in INO : icache[j].lock # q
    BY <1>1, <1>4, NoThreadOwn DEF State
  <2> QED BY <1>10, <2>1 DEF Locking
<1> QED BY <1>2, <1>3, <1>4, <1>7, <1>8, <1>10, <1>11, <1>12, NoThreadOwn, FilesStep

\* The calls with a path: namex() takes its first reference.
LEMMA CallStep == ASSUME Inv, NEW p \in Proc, sys_call(p) PROVE Inv'
<1>0. SUFFICES ASSUME ~Panic("iget: no inodes") PROVE Inv'
  BY PanicStep
<1>1. State(p)
  BY Known
<1>2. PICK c \in CALLS[p] :
        /\ th[p].pc = "user" /\ cwd[p] # 0
        /\ icache' = iget(icache, Start(p, c.path))
        /\ \E par \in BOOLEAN, k \in {"link_ip", "unlink_dp", "chdir_ip", "open_ip", "create_dp"} :
             /\ k \in {"unlink_dp", "create_dp"} <=> par
             /\ k = "create_dp" => c.op \in {"open", "mkdir", "mknod"}
             /\ th' = [th EXCEPT ![p] = [lookup(p, c.path, par, k, "user") EXCEPT !.call = c]]
        /\ UNCHANGED <<disk, file, ofile, cwd, panicked, orphan, stale>>
  <2>1. \A c \in CALLS[p] : c.op \in Op
    BY FileSysConstants DEF Call
  <2> QED BY <1>0, <2>1 DEF sys_call, at, go, Op
<1>3. PICK par \in BOOLEAN, k \in {"link_ip", "unlink_dp", "chdir_ip", "open_ip", "create_dp"} :
        /\ k \in {"unlink_dp", "create_dp"} <=> par
        /\ k = "create_dp" => c.op \in {"open", "mkdir", "mknod"}
        /\ th' = [th EXCEPT ![p] = [lookup(p, c.path, par, k, "user") EXCEPT !.call = c]]
  BY <1>2
<1> DEFINE t == th[p]
           s == Start(p, c.path)
           path == Relative(c.path)
           u == [[t EXCEPT !.pc = "namex", !.path = path, !.par = par, !.cur = s, !.k = k, !.kf = "user"] EXCEPT !.call = c]
<1>4. c \in UNION {CALLS[q] : q \in Proc} /\ path \in Seq(Elem)
  BY CallOK
<1>5. c # None
  BY FileSysConstants
<1>6. cwd[p] \in INO /\ s \in INO /\ s # 0
  BY <1>1, <1>2, StartOK, Finite DEF State
<1>7. /\ t \in Thread /\ t.put = <<>> /\ t.r = "user" /\ t.cur = 0 /\ t.dp = 0 /\ t.ip = 0
      /\ \A j \in INO : ~LockedBy(t, j)
      /\ \A j \in INO : Own(t, cwd[p], j) = One(j, cwd[p])
  BY <1>1, <1>2, IdleRest
<1>8. th' = [th EXCEPT ![p] = u]
  BY <1>3 DEF lookup
<1> HIDE DEF path, s
<1>9. /\ u \in Thread /\ u.pc = "namex" /\ u.call = c /\ u.path = path /\ u.par = par /\ u.cur = s
      /\ u.k = k /\ u.kf = "user" /\ u.ip = 0 /\ u.dp = 0 /\ u.put = <<>> /\ u.r = "user"
  BY <1>4, <1>6, <1>7, Labels DEF Thread
<1> HIDE DEF u
<1>10. ThreadOK(u) /\ Where(u) # "exit_done"
  BY <1>3, <1>5, <1>6, <1>9 DEF ThreadOK, PutsOK, Locals, Where, Putting, WithDp, WithIp, Idle, LookupOK
<1>11. Gains(p, u, s)
  <2> SUFFICES ASSUME NEW j \in INO PROVE Own(u, cwd[p], j) = Own(t, cwd[p], j) + One(j, s)
    BY DEF Gains
  <2>1. Own(u, cwd[p], j) = One(j, cwd[p]) + One(j, s) + One(j, 0) + One(j, 0)
    BY <1>9, OwnRest
  <2> QED BY <1>7, <2>1, Ones
<1>12. Like(icache', p, 0, s)
  BY <1>1, <1>2, <1>6, LikeItself, LikeGet DEF s
<1>13. Keeps(p, u)
  BY <1>7 DEF Keeps
<1>14. disk' \in Disks /\ orphan' \subseteq INO /\ stale' \in BOOLEAN /\ UNCHANGED <<file, ofile, cwd, panicked>>
  BY <1>1, <1>2 DEF State
<1> QED BY <1>6, <1>8, <1>9, <1>10, <1>11, <1>12, <1>13, <1>14, Finite, MoveStep

\* ialloc() marks an inode and has no reference to it yet.
LEMMA IallocStep == ASSUME Inv, NEW p \in Proc, ialloc(p) PROVE Inv'
<1> DEFINE t == th[p]
<1>1. State(p)
  BY Known
<1>2. t.pc = "create_ialloc"
  BY DEF ialloc, at
<1>3. t \in Thread /\ Locals(t, t.pc) /\ t.put = <<>> /\ t.r = "user" /\ cwd[p] \in INO
  BY <1>1, <1>2, Rest DEF Putting
<1>4. t.cur = 0 /\ t.dp \in INO /\ t.call # None /\ t.path \in Seq(Elem) /\ t.path # <<>> /\ t.ip = 0
  BY <1>2, <1>3, DpRest DEF WithDp, WithIp
<1>5. CASE Panic("ialloc: no inodes")
  BY <1>5, PanicStep
<1>6. ASSUME NEW i \in INO, disk' = [disk EXCEPT ![i] = [NoInode EXCEPT !.type = NewType(t.call)]],
             th' = [th EXCEPT ![p] = [t EXCEPT !.pc = "create_iget", !.ip = i]],
             UNCHANGED <<icache, file, ofile, cwd, panicked, orphan, stale>>
      PROVE  Inv'
  <2> DEFINE u == [t EXCEPT !.pc = "create_iget", !.ip = i]
  <2>1. /\ u \in Thread /\ u.pc = "create_iget" /\ u.call = t.call /\ u.path = t.path /\ u.cur = 0
        /\ u.ip = i /\ u.dp = t.dp /\ u.put = <<>> /\ u.r = "user"
    BY <1>3, <1>4, Labels DEF Thread
  <2>2. th' = [th EXCEPT ![p] = u]
    BY <1>6
  <2> HIDE DEF u
  <2>3. ThreadOK(u) /\ Where(u) # "exit_done"
    BY <1>2, <1>3, <1>4, <2>1, Finite DEF ThreadOK, PutsOK, Locals, Where, Putting, WithDp, WithIp, Idle
  <2>4. Gains(p, u, 0)
    <3> SUFFICES ASSUME NEW j \in INO PROVE Own(u, cwd[p], j) = Own(t, cwd[p], j) + One(j, 0)
      BY DEF Gains
    <3>1. Own(t, cwd[p], j) = One(j, cwd[p]) + One(j, 0) + One(j, t.dp) + One(j, 0)
      BY <1>2, <1>3, <1>4, OwnRest
    <3>2. /\ Own1(u, cwd[p], j) = One(j, cwd[p]) /\ Own2(u, j) = One(j, 0) /\ Own3(u, j) = One(j, t.dp)
          /\ Own4(u, j) = 0 /\ Own5(u, j) = 0 /\ Own6(u, j) = 0
      BY <2>1 DEF Own1, Own2, Own3, Own4, Own5, Own6, B, One, OnCwd
    <3> QED BY <3>1, <3>2, Ones DEF Own
  <2>5. Keeps(p, u)
    BY <1>2, <1>3, <2>1 DEF Keeps, LockedBy, Where, Putting
  <2>6. Like(icache', p, 0, 0)
    BY <1>1, <1>6, LikeItself
  <2>7. disk' \in Disks
    <3>1. t.call \in UNION {CALLS[q] : q \in Proc} /\ t.call.op \in {"open", "mkdir", "mknod"}
      BY <1>2, <1>3, <1>4 DEF Thread, Locals
    <3>2. t.call.op = "mknod" => t.call.mode \in {"dev", "baddev"}
      BY <3>1, CallOK
    <3>3. NewType(t.call) \in Types
      BY <3>1, <3>2 DEF NewType, Types
    <3> DEFINE n == NewType(t.call)
    <3> HIDE DEF n
    <3>4. [NoInode EXCEPT !.type = n] \in [type : Types, nlink : Int, ents : [Elem -> INO \cup {0}]]
      BY <3>3, NoInodeOK DEF n
    <3> QED BY <1>1, <1>6, <3>4 DEF State, Disks, n
  <2>8. orphan' \subseteq INO /\ stale' \in BOOLEAN /\ UNCHANGED <<file, ofile, cwd, panicked>>
    BY <1>1, <1>6 DEF State
  <2> QED BY <1>3, <2>1, <2>2, <2>3, <2>4, <2>5, <2>6, <2>7, <2>8, MoveStep
<1> QED BY <1>5, <1>6 DEF ialloc, go

\* sys_open() has an inode and takes an open file, or gives the inode back.
LEMMA OpenEndStep == ASSUME Inv, NEW p \in Proc, open_file(p) PROVE Inv'
BY OpenFailStep, OpenFileStep

-----------------------------------------------------------------------------
(* The state after boot *)

Booted ==
  /\ icache = booted([i \in INO |-> NoMemInode])
  /\ file = [f \in 1..NFILE |-> [ref |-> 0, ip |-> 0]]
  /\ ofile = [p \in Proc |-> [d \in 1..NOFILE |-> 0]]
  /\ cwd = [p \in Proc |-> IF p = initproc THEN ROOTINO ELSE 0]
  /\ th = [p \in Proc |-> NoThread]
  /\ disk \in Disks /\ orphan \subseteq INO /\ stale \in BOOLEAN

\* Only init's working directory is in use.
LEMMA BootedRefs ==
  ASSUME Booted, NEW i \in INO
  PROVE  Refs(i) = One(i, ROOTINO)
<1>1. initproc \in Proc /\ ROOTINO \in INO /\ 0 \notin INO
  BY Finite, FileSysConstants
<1>2. DOMAIN file = 1..NFILE /\ \A f \in 1..NFILE : file[f].ref = 0
  BY DEF Booted
<1>3. \A p \in Proc : th[p] = NoThread
  BY DEF Booted
<1>4. /\ NoThread.pc = "user" /\ NoThread.r = "user" /\ NoThread.cur = 0 /\ NoThread.dp = 0
      /\ NoThread.ip = 0 /\ NoThread.put = <<>>
  BY DEF NoThread
<1>5. \A p \in Proc : cwd[p] = IF p = initproc THEN ROOTINO ELSE 0
  BY DEF Booted
<1> DEFINE C == {p \in Proc : cwd[p] = i /\ OnCwd(th[p])}
           U == {p \in Proc : th[p].cur = i}
           D == {p \in Proc : th[p].dp = i}
           I == {p \in Proc : th[p].ip = i /\ th[p].pc # "create_iget"}
           J == {p \in Proc : th[p].put # <<>> /\ th[p].put[1][2] = i}
           K == {p \in Proc : Len(th[p].put) = 2 /\ th[p].put[2][2] = i}
           F == {f \in DOMAIN file : file[f].ref > 0 /\ file[f].ip = i}
           Card(S) == Cardinality(S)
<1>6. F = {} /\ U = {} /\ D = {} /\ I = {} /\ J = {} /\ K = {}
  BY <1>1, <1>2, <1>3, <1>4
<1>7. C = IF i = ROOTINO THEN {initproc} ELSE {}
  BY <1>1, <1>3, <1>4, <1>5 DEF OnCwd
<1>8. Refs(i) = Card(F) + Card(C) + Card(U) + Card(D) + Card(I) + Card(J) + Card(K)
  BY DEF Refs, Count, OnCwd
<1> HIDE DEF C, U, D, I, J, K, F
<1>9. Card({}) = 0 /\ Card({initproc}) = 1
  BY FS_EmptySet, FS_Singleton
<1> QED BY <1>6, <1>7, <1>8, <1>9 DEF One

LEMMA BootedOK ==
  ASSUME Booted, panicked # "ilock"
  PROVE  Inv
<1>1. initproc \in Proc /\ ROOTINO \in INO /\ 0 \notin INO /\ {NFILE, NOFILE} \subseteq Nat \ {0}
  BY Finite, FileSysConstants
<1>2. NoMemInode \in [ref : Nat, valid : BOOLEAN, type : Types, nlink : Int, lock : Proc \cup {None}]
  BY DEF NoMemInode, Types
<1>3. /\ icache \in [INO -> [ref : Nat, valid : BOOLEAN, type : Types, nlink : Int, lock : Proc \cup {None}]]
      /\ \A i \in INO : icache[i].ref = One(i, ROOTINO) /\ icache[i].lock = None
  <2>1. NoMemInode.ref = 0 /\ NoMemInode.lock = None
    BY DEF NoMemInode
  <2>2. icache = [[i \in INO |-> NoMemInode] EXCEPT ![ROOTINO].ref = 1]
    BY DEF Booted, booted
  <2> QED BY <1>1, <1>2, <2>1, <2>2 DEF One
<1>4. TypeOK
  <2>1. file \in [1..NFILE -> [ref : Nat, ip : INO \cup {0}]]
    BY DEF Booted
  <2>2. ofile \in [Proc -> [1..NOFILE -> 0..NFILE]] /\ cwd \in [Proc -> INO \cup {0}]
    BY <1>1 DEF Booted
  <2>3. th \in [Proc -> Thread]
    BY NoThreadOK DEF Booted
  <2> QED BY <1>3, <2>1, <2>2, <2>3 DEF TypeOK, Booted, Disks
<1>5. \A f \in DOMAIN file : f \in 1..NFILE /\ file[f].ref = 0 /\ file[f].ip = 0
  BY DEF Booted
<1>6. \A f \in DOMAIN file :
        file[f].ref = Count({x \in Proc \X (1..NOFILE) : ofile[x[1]][x[2]] = f})
  <2> SUFFICES ASSUME NEW f \in DOMAIN file
               PROVE  0 = Cardinality({x \in Proc \X (1..NOFILE) : ofile[x[1]][x[2]] = f})
    BY <1>5 DEF Count
  <2>1. f # 0
    BY <1>1, <1>5
  <2>2. \A x \in Proc \X (1..NOFILE) : ofile[x[1]][x[2]] = 0
    BY DEF Booted
  <2>3. {x \in Proc \X (1..NOFILE) : ofile[x[1]][x[2]] = f} = {}
    BY <2>1, <2>2
  <2> QED BY <2>3, FS_EmptySet
<1>7. RefsExact
  BY <1>3, <1>4, <1>6, BootedRefs DEF RefsExact
<1>8. \A p \in Proc : ThreadOK(th[p]) /\ ExitOK(p)
  <2> SUFFICES ASSUME NEW p \in Proc PROVE ThreadOK(th[p]) /\ ExitOK(p)
    OBVIOUS
  <2>1. th[p] = NoThread /\ \A d \in 1..NOFILE : ofile[p][d] = 0
    BY DEF Booted
  <2> QED BY <2>1, NoThreadOK DEF ExitOK
<1> QED BY <1>3, <1>5, <1>7, <1>8 DEF Inv, Booted

LEMMA InitOK == Init => Inv
<1> SUFFICES ASSUME Init PROVE Inv
  OBVIOUS
<1>1. ROOTINO \in INO
  BY Finite
<1>2. disk \in Disks
  <2>1. "dir" \in Types
    BY DEF Types
  <2> DEFINE r == [type |-> "dir", nlink |-> 1, ents |-> [n \in Elem |-> IF n \in Dots THEN ROOTINO ELSE 0]]
  <2>2. r \in [type : Types, nlink : Int, ents : [Elem -> INO \cup {0}]]
    BY <1>1, <2>1
  <2>3. disk = [[i \in INO |-> NoInode] EXCEPT ![ROOTINO] = r]
    BY DEF Init
  <2> HIDE DEF r
  <2> QED BY <1>1, <2>2, <2>3, NoInodeOK DEF Disks
<1>3. Booted /\ panicked # "ilock"
  BY <1>2 DEF Booted, Init
<1> QED BY <1>3, BootedOK

\* Only the disk survives, and the counts start from nothing again.
LEMMA CrashStep == Inv /\ crash => Inv'
<1>1. Inv /\ crash => (Booted /\ panicked # "ilock")'
  <2> SUFFICES ASSUME Inv, crash PROVE (Booted /\ panicked # "ilock")'
    OBVIOUS
  <2>1. State(initproc) /\ panicked # "ilock"
    BY FileSysConstants, Known DEF Inv
  <2> QED BY <2>1 DEF crash, Booted, booted, State, Disks
<1>2. Booted /\ panicked # "ilock" => Inv
  BY BootedOK
<1> QED BY <1>1, <1>2, PTL

-----------------------------------------------------------------------------
(* The theorem *)

LEMMA StutterStep == ASSUME Inv, UNCHANGED vars PROVE Inv'
<1>1. Panic(panicked) /\ panicked # "ilock"
  BY DEF vars, Panic, Inv
<1> QED BY <1>1, PanicStep

LEMMA NextStep == ASSUME Inv, [Next]_vars PROVE Inv'
<1>1. ASSUME NEW p \in Proc,
             \/ iunlockput(p) \/ iput(p) \/ iput_free(p) \/ iput_unlock(p) \/ iput_dec(p)
             \/ sys_call(p) \/ namex(p) \/ namex_end(p)
      PROVE  Inv'
  BY <1>1, UnlockStep, PutStep, FreeStep, FreedStep, DecStep, CallStep, NamexStep, NamexEndStep
<1>2. ASSUME NEW p \in Proc,
             \/ sys_link(p) \/ link_dp(p) \/ link_bad(p)
             \/ sys_unlink(p) \/ unlink_ip(p) \/ unlink_done(p)
      PROVE  Inv'
  BY <1>2, LinkStep, LinkDpStep, LinkBadStep, UnlinkStep, UnlinkIpStep, UnlinkDoneStep
<1>3. ASSUME NEW p \in Proc,
             create(p) \/ create_found(p) \/ ialloc(p) \/ ialloc_iget(p) \/ create_ip(p)
      PROVE  Inv'
  BY <1>3, CreateStep, FoundStep, IallocStep, IallocIgetStep, CreateIpStep
<1>4. ASSUME NEW p \in Proc,
             \/ sys_open(p) \/ open_file(p) \/ sys_chdir(p) \/ chdir_set(p)
             \/ sys_dup(p) \/ sys_close(p) \/ filestat(p) \/ exit(p) \/ exit_done(p)
             \/ \E q \in Proc : fork(p, q)
      PROVE  Inv'
  BY <1>4, OpenStep, OpenEndStep, ChdirStep, ChdirSetStep, DupStep, CloseStep, StatStep, ExitStep,
     ExitDoneStep, ForkStep
<1> QED BY <1>1, <1>2, <1>3, <1>4, CrashStep, StutterStep DEF Next

\* A thread that has an inode locked has a reference to it, besides the one
\* that it is about to give up with iput().
LEMMA LockHeld ==
  ASSUME NEW t \in Thread, ThreadOK(t), NEW i \in INO, LockedBy(t, i), NEW c
  PROVE  /\ Own(t, c, i) >= 1
         /\ t.pc = "put" /\ t.put[1] = put(i) => Own(t, c, i) >= 2
<1>1. Owns(t, c, i)
  BY OwnsInt
<1>2. /\ t.put \in Seq({"put", "unlockput"} \X INO)
      /\ t.put = <<>> \/ (t.pc \in Putting /\ Len(t.put) \in {1, 2})
      /\ t.pc # "create_iget" \/ t.put = <<>>
  BY DEF Thread, ThreadOK, PutsOK, Putting
<1>3. t.pc = "put" /\ t.put[1] = put(i) => Own5(t, i) = 1
  BY <1>2 DEF Own5, B, put, ThreadOK, PutsOK, Putting
<1>4. Own3(t, i) = 1 \/ Own4(t, i) = 1 \/ Own5(t, i) = 1 \/ Own6(t, i) = 1
  <2>1. CASE t.dp = i
    BY <2>1 DEF Own3, B
  <2>2. CASE Where(t) \in {"unlink_done", "open_file"} /\ t.ip = i
    BY <2>2 DEF Own4, B, Where, Putting
  <2>3. ASSUME NEW j \in 1..Len(t.put), t.put[j] = unlockput(i)
        PROVE  Own5(t, i) = 1 \/ Own6(t, i) = 1
    <3>1. Len(t.put) \in {1, 2} /\ t.put # <<>> /\ t.put[j][2] = i
      BY <1>2, <2>3 DEF unlockput
    <3>2. j = 1 \/ (j = 2 /\ Len(t.put) = 2)
      BY <3>1
    <3> QED BY <3>1, <3>2 DEF Own5, Own6, B
  <2>4. CASE t.pc \in {"put_free", "put_valid"} /\ t.put[1][2] = i
    <3>1. t.put # <<>>
      BY <2>4 DEF ThreadOK, PutsOK, Putting
    <3> QED BY <2>4, <3>1 DEF Own5, B
  <2> QED BY <2>1, <2>2, <2>3, <2>4 DEF LockedBy
<1>5. t.pc = "put" /\ t.put[1] = put(i) => Own3(t, i) = 1 \/ Own4(t, i) = 1 \/ Own6(t, i) = 1
  <2> SUFFICES ASSUME t.pc = "put", t.put[1] = put(i)
               PROVE  Own3(t, i) = 1 \/ Own4(t, i) = 1 \/ Own6(t, i) = 1
    OBVIOUS
  <2>1. CASE Where(t) \in {"unlink_done", "open_file"} /\ t.ip = i
    BY <2>1 DEF Own4, B, Where, Putting
  <2>2. ASSUME NEW j \in 1..Len(t.put), t.put[j] = unlockput(i)
        PROVE  Own6(t, i) = 1
    <3>1. Len(t.put) \in {1, 2} /\ t.put[j][2] = i /\ j # 1
      BY <1>2, <2>2 DEF unlockput, put
    <3>2. j = 2 /\ Len(t.put) = 2
      BY <3>1
    <3> QED BY <3>1, <3>2 DEF Own6, B
  <2> QED BY <2>1, <2>2 DEF LockedBy
<1> QED BY <1>1, <1>3, <1>4, <1>5 DEF Own, Owns

LEMMA InvRefs == Inv => RefsRight
<1> SUFFICES ASSUME Inv PROVE RefsRight
  OBVIOUS
<1>1. ASSUME NEW p \in Proc, th[p].pc = "put", Head(th[p].put)[1] = "put",
             Last(Head(th[p].put)[2]), icache[Head(th[p].put)[2]].lock # None
      PROVE  FALSE
  <2> DEFINE t == th[p]
             i == Head(t.put)[2]
             q == icache[i].lock
  <2>1. State(p) /\ Files /\ \A j \in INO : icache[j].ref = Refs(j)
    BY Known DEF Inv, RefsExact, TypeOK, Files
  <2>2. /\ t \in Thread /\ ThreadOK(t) /\ Len(t.put) \in {1, 2}
        /\ t.put \in Seq({"put", "unlockput"} \X INO)
    BY <1>1, <2>1 DEF State, ThreadOK, PutsOK, Putting, Thread
  <2>3. i \in INO /\ t.put[1] = put(i) /\ t.put # <<>>
    BY <1>1, <2>2 DEF put
  <2>4. q \in Proc /\ LockedBy(th[q], i) /\ Refs(i) = 1
    BY <1>1, <2>1, <2>3 DEF State, Caches, Inv, Last
  <2>5. State(q)
    BY <2>4, Known
  <2> HIDE DEF q, i
  <2>6. Own(th[q], cwd[q], i) >= 1 /\ (p = q => Own(t, cwd[p], i) >= 2)
    BY <1>1, <2>3, <2>4, <2>5, LockHeld DEF State
  <2>7. Own(t, cwd[p], i) >= 1
    <3>1. Own5(t, i) = 1 /\ Owns(t, cwd[p], i)
      BY <2>3, OwnsInt DEF Own5, B, put
    <3> QED BY <3>1 DEF Own, Owns
  <2>8. /\ Refs(i) >= Own(t, cwd[p], i)
        /\ p # q => Refs(i) >= Own(t, cwd[p], i) + Own(th[q], cwd[q], i)
    BY <2>1, <2>3, <2>4, RefsAtLeast
  <2>9. Own(t, cwd[p], i) \in Nat /\ Own(th[q], cwd[q], i) \in Nat
    BY OwnInt
  <2> QED BY <2>4, <2>6, <2>7, <2>8, <2>9
<1> QED BY <1>1 DEF RefsRight, IputNeverBlocks, Inv

\* iget(), iput(), fileclose(), fork() and the rest keep every reference count
\* exact in every interleaving of the calls and over every crash: an inode's
\* ref is the number of pointers to it, a file's the number of descriptors;
\* iput() never blocks on the lock of an inode it is about to free, and
\* ilock() never finds ref < 1.
THEOREM RefsAlwaysRight == Spec => []RefsRight
<1>1. Inv /\ [Next]_vars => Inv'
  BY NextStep
<1> QED BY <1>1, InitOK, InvRefs, PTL DEF Spec
==============================================================================
