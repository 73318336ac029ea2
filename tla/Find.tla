-------------------------------- MODULE Find --------------------------------
(***************************************************************************)
(* find.c of lab 1, on a tree of directories.  A path is a sequence of     *)
(* names; open() resolves it as namex() does, which skips empty names.  A  *)
(* directory is the sequence of its entries; unlink() leaves an entry with *)
(* an empty name behind.  The path buffer is long enough for any path that *)
(* the descriptors allow.                                                  *)
(***************************************************************************)
EXTENDS Integers, Sequences, SequencesExt, FiniteSets

CONSTANTS
  Trees,   \* file systems: a function from directories to sequences of entries
  Target,  \* the name that is looked for
  NOFILE

VARIABLES
  tree,   \* the file system, which does not change
  stack,  \* the calls of find() that have their directory open
  out     \* the paths printed

vars == <<tree, stack, out>>

\* An entry is <<name, kind, directory or 0>>.
Erased == <<"", "none", 0>>
Dir(i) == [dir |-> i, path |-> <<>>, pos |-> 1]

Init == tree \in Trees /\ stack = <<Dir(1)>> /\ out = <<>>

top == stack[Len(stack)]
entry == tree[top.dir][top.pos]
Pop == SubSeq(stack, 1, Len(stack) - 1)
passed == [stack EXCEPT ![Len(stack)].pos = @ + 1]
skips(e) == e[1] \in {".", ".."}

\* Directory d, or the file, that the path of entry e leads to: an empty name
\* leads to the directory itself.
target(e) == IF e[1] = "" THEN top.dir ELSE e[3]
isfile(e) == e[1] # "" /\ e[2] = "file"

\* One round of the loop: the next entry, and find() of it.  Descriptors 0, 1
\* and 2 are open, and every call holds one.
find_read ==
  /\ stack # <<>> /\ top.pos <= Len(tree[top.dir])
  /\ CASE skips(entry) -> stack' = passed /\ UNCHANGED out
       [] ~skips(entry) /\ Len(stack) + 3 >= NOFILE -> stack' = passed /\ UNCHANGED out
       [] ~skips(entry) /\ Len(stack) + 3 < NOFILE /\ isfile(entry) ->
            /\ stack' = passed
            /\ out' = IF entry[1] = Target THEN Append(out, Append(top.path, entry[1])) ELSE out
       [] OTHER ->
            /\ stack' = Append(passed, [dir |-> target(entry), path |-> Append(top.path, entry[1]), pos |-> 1])
            /\ UNCHANGED out
  /\ UNCHANGED tree

\* The directory is read: find() returns.
find_close ==
  /\ stack # <<>> /\ top.pos > Len(tree[top.dir])
  /\ stack' = Pop /\ UNCHANGED <<tree, out>>

Next == find_read \/ find_close

Spec == Init /\ [][Next]_vars

-----------------------------------------------------------------------------
(* Properties *)

Matches == {<<d, i>> \in (DOMAIN tree) \X (1..5) : i <= Len(tree[d]) /\ tree[d][i][1] = Target /\ isfile(tree[d][i])}
HasErased == \E d \in DOMAIN tree : \E i \in DOMAIN tree[d] : tree[d][i] = Erased

\* find() visits no directory again below itself.
NoRevisit == \A i, j \in DOMAIN stack : i # j => stack[i].dir # stack[j].dir

\* Without erased entries, and with a descriptor for every level, find()
\* prints every match once, and its recursion ends.
FindExact ==
  ~HasErased => NoRevisit /\ (stack = <<>> => Len(out) = Cardinality(Matches) /\ IsInjective(out))
=============================================================================
