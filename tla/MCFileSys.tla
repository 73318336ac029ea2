----------------------------- MODULE MCFileSys -----------------------------
(* An instance of FileSys for TLC: two processes, p1 works from the root and *)
(* p2 also below it.                                                         *)
EXTENDS FileSys, TLC

CONSTANTS p1, p2

Syscall(op, path, new, mode) == [op |-> op, path |-> path, new |-> new, mode |-> mode]

MCCalls ==
  p1 :> { Syscall("mknod", <<"/", "a">>, <<>>, "baddev"),
          Syscall("unlink", <<"/", "a">>, <<>>, ""),
          Syscall("unlink", <<"/", "a", "a">>, <<>>, ""),
          Syscall("link", <<"/", "a">>, <<"/">>, "") } @@
  p2 :> { Syscall("mkdir", <<"a">>, <<>>, ""),
          Syscall("open", <<"a">>, <<>>, "create"),
          Syscall("open", <<"a">>, <<>>, "rdwr"),
          Syscall("link", <<"a">>, <<"/", "b">>, ""),
          Syscall("unlink", <<"/", "b">>, <<>>, ""),
          Syscall("chdir", <<"a">>, <<>>, ""),
          Syscall("chdir", <<"..">>, <<>>, "") }

\* Bound: once a call has followed the ".." of a removed directory to an inode
\* that is gone, the calls under way are explored to their end.
ToTheEnd == stale => ~Quiescent
=============================================================================
