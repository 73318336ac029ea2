------------------------------- MODULE MCLabs -------------------------------
(***************************************************************************)
(* Instances for TLC of the modules of user programs (Shell, ShellParse,   *)
(* Lab1, Malloc and Find), of FileData, and of lab 3 (HashBcache and       *)
(* KallocSteal).  A behaviour is one of these machines; `which' says of    *)
(* which.  The variables of HashBcache stay as they are at the start while *)
(* another machine runs; the others share the variables s1, s2, ..., and   *)
(* those that a machine does not need are Off.                             *)
(***************************************************************************)
EXTENDS HashBcache, TLC

CONSTANTS p1, p2, p3, pa1, pa2, Off

VARIABLES which, s1, s2, s3, s4, s5, s6, s7, s8, s9, s10, s11

after6 == <<s7, s8, s9, s10, s11>>
after5 == <<s6, after6>>
after4 == <<s5, after5>>
after3 == <<s4, after4>>
svars == <<s1, s2, s3, after3>>
allvars == <<which, vars, svars>>

Symmetry == Permutations({p1, p2, p3})

-----------------------------------------------------------------------------
(* User programs *)

\* Background commands, lists, redirections, pipelines of three and four, syntax
\* errors; six processes and two pipes, so that fork() and pipe() fail.
Sessions == {
  <<<<"cd">>, <<"q", "|", "(">>, <<";", "q">>>>,
  <<<<"src", "|", "cat", "|", "cat", ">", "f">>>>,
  <<<<"(", "src", "&", ")", "|", "cat">>>>,
  <<<<"src", "|", "cat", "|", "q", "|", "q">>>>,
  <<<<"cat", "<", "f", "|", "q">>, <<"src", ">", "f", ";", "src", "|", "q">>>>,
  <<<<"src", "|", "cat", "&">>, <<"src", "|", "q">>>>}
S == INSTANCE Shell WITH
  Pid <- 1..6, NPIPE <- 2, PIPESIZE <- 1, NOFILE <- 5, Word <- {"src", "cat", "q", "f"}, MAXARGS <- 3,
  proc <- s1, pipe <- s2, typed <- s3, failed <- s4

\* The numbers 2..35 of primes.c, and the kernel's NOFILE.
L == INSTANCE Lab1 WITH
  Pid <- 1..11, NPIPE <- 10, PIPESIZE <- 5, NOFILE <- 16, MAXNUM <- 35,
  proc <- s1, pipe <- s2, out <- s3, clean <- s4, failed <- s5

M == INSTANCE Malloc WITH
  HSIZE <- 2, NALLOC <- 4, MAXHEAP <- 11, NBYTES <- {0, 2, 9}, Gaps <- {1},
  hdr <- s1, freep <- s2, brk <- s3, live <- s4, core <- s5

\* Three directories below each other; some entries have been erased.
Erased == <<"", "none", 0>>
Dots(n, up) == <<<<".", "dir", n>>, <<"..", "dir", up>>>>
Trees ==
  {<<Dots(1, 1) \o <<x, <<"sub", "dir", 2>>, y>>,
     Dots(2, 1) \o <<<<"x", "dir", 3>>, y>>,
     Dots(3, 2) \o <<x, z>>>> :
     x \in {<<"x", "file", 0>>, Erased}, y, z \in {<<"y", "file", 0>>, Erased}}
F == INSTANCE Find WITH Target <- "x", NOFILE <- 7, tree <- s1, stack <- s2, out <- s3

-----------------------------------------------------------------------------
(* The kernel *)

\* Two processes share one open file; a disk of four blocks gets full.
D == INSTANCE FileData WITH
  Proc <- {1, 2}, File <- {1}, NBLOCK <- 4, BSIZE <- 2, NDIRECT <- 1, NINDIRECT <- 2,
  MAXOPBLOCKS <- 6, UINT <- 16, WRITES <- {<<2, 1, 1>>}, READS <- {3, -1},
  used <- s1, addrs <- s2, ind <- s3, data <- s4, home <- s5, size <- s6,
  off <- s7, writing <- s8, others <- s9, got <- s10, panicked <- s11

K == INSTANCE KallocSteal WITH
  Thread <- {p1, p2, p3}, NCPU <- 3, Page <- {pa1, pa2},
  freelist <- s1, owned <- s2, pc <- s3, cpu <- s4, i <- s5, pa <- s6

\* The cache has as many processes as buffers, so that they run out.
ASSUME BcacheConstants /\ K!KallocConstants

-----------------------------------------------------------------------------

\* The variables from s<n> on are not used.
Unused7 == s7 = Off /\ s8 = Off /\ s9 = Off /\ s10 = Off /\ s11 = Off
Unused6 == s6 = Off /\ Unused7
Unused5 == s5 = Off /\ Unused6
Unused4 == s4 = Off /\ Unused5
Unused2 == s2 = Off /\ s3 = Off /\ Unused4

\* A state of the parser is a command.
LabsInit ==
  /\ Init
  /\ \/ which = "shell" /\ S!Init /\ Unused5
     \/ which = "parse" /\ s1 \in S!Commands(2) /\ Unused2
     \/ which = "lab1" /\ L!Init /\ Unused6
     \/ which = "malloc" /\ M!Init /\ Unused6
     \/ which = "find" /\ F!Init /\ Unused4
     \/ which = "file" /\ D!Init
     \/ which = "bcache" /\ s1 = Off /\ Unused2
     \/ which = "kalloc" /\ K!Init /\ Unused7

LabsNext ==
  /\ \/ which = "shell" /\ S!Next /\ UNCHANGED <<vars, after4>>
     \/ which = "lab1" /\ L!Next /\ UNCHANGED <<vars, after5>>
     \/ which = "malloc" /\ M!Next /\ UNCHANGED <<vars, after5>>
     \/ which = "find" /\ F!Next /\ UNCHANGED <<vars, after3>>
     \/ which = "file" /\ D!Next /\ UNCHANGED vars
     \/ which = "bcache" /\ Next /\ UNCHANGED svars
     \/ which = "kalloc" /\ K!Next /\ UNCHANGED <<vars, after6>>
  /\ UNCHANGED which

LabsSpec == LabsInit /\ [][LabsNext]_allvars

-----------------------------------------------------------------------------
(* Properties, besides CacheRight of HashBcache; the modules explain them. *)

\* sh.c starts a program with exactly the descriptors its place in the command
\* line gives it, and when it prompts, only background commands still run.
ShellRight == which = "shell" => S!StdFds /\ S!Foreground

\* No process that sh.c, primes.c or pingpong.c has started waits for ever:
\* when none can go on, all are gone (but for the exceptions of ProgramsEnd).
NoHang ==
  /\ which = "shell" => S!NoHang
  /\ which = "lab1" => L!ProgramsEnd

\* The parser of sh.c gets every command back from the way it is written;
\* primes.c prints the primes in order, each of them once; find.c prints every
\* match once, if no entry has been erased.
OutputExact ==
  /\ which = "parse" => S!parsecmd(S!Written(s1)) = S!Ok(s1, <<>>)
  /\ which = "lab1" => L!PrimesInOrder
  /\ which = "find" => F!FindExact

\* Nothing is lost and nothing is given to two users: the bytes of the heap
\* (umalloc.c), the blocks of the disk (fs.c), the pages of memory (kalloc.c).
SpaceConserved ==
  /\ which = "malloc" => M!HeapTiled
  /\ which = "file" => D!BlocksExact
  /\ which = "kalloc" => K!TypeOK /\ K!PagesConserved

\* readi(), writei() and itrunc() treat the blocks as the bytes of ByteFile.
IsByteFile ==
  /\ which = "file" => D!B!Init
  /\ [][which = "file" => D!IsByteFileStep]_allvars
=============================================================================
