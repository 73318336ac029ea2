------------------------------ MODULE ByteFile ------------------------------
(***************************************************************************)
(* What the data part of an inode promises: it is a sequence of bytes that *)
(* can be read, overwritten and extended at its end, and truncated.  A     *)
(* write that fails half way may have changed some bytes more than it has  *)
(* kept; until they are kept, those bytes may go back to what they were.   *)
(***************************************************************************)
EXTENDS Integers, Sequences, SequencesExt

CONSTANTS MAXSIZE, Source

VARIABLES
  bytes,  \* the content as it is read
  kept,   \* the content as the log has it
  got     \* what the last step, a read, returned

Init == bytes = <<>> /\ kept = <<>> /\ got = <<>>

\* The first k bytes of s are written at off and kept, the first t are written.
Write ==
  \E s \in Source, off \in 0..Len(bytes) : \E t \in 0..Len(s) : \E k \in 0..t :
    LET len == IF off + k > Len(bytes) THEN off + k ELSE Len(bytes) IN
    /\ off + k <= MAXSIZE
    /\ bytes' = [i \in 1..len |-> IF off < i /\ i <= off + t THEN s[i - off] ELSE bytes[i]]
    /\ Len(kept') = len
    /\ \A i \in 1..len :
         IF off < i /\ i <= off + k THEN kept'[i] = s[i - off] ELSE kept'[i] \in {kept[i], bytes'[i]}
    /\ got' = <<>>

Revert ==
  /\ Len(bytes') = Len(bytes)
  /\ \A i \in 1..Len(bytes) : bytes'[i] \in {bytes[i], kept[i]}
  /\ got' = <<>> /\ UNCHANGED kept

Read ==
  /\ \E off \in 0..Len(bytes) : \E k \in off..Len(bytes) : got' = SubSeq(bytes, off + 1, k)
  /\ UNCHANGED <<bytes, kept>>

Truncate == bytes' = <<>> /\ kept' = <<>> /\ got' = <<>>

Other == got' = <<>> /\ UNCHANGED <<bytes, kept>>

Next == Other \/ Read \/ Truncate \/ Revert \/ Write

Spec == Init /\ [][Next]_<<bytes, kept, got>>
=============================================================================
