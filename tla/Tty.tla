--------------------------------- MODULE Tty ---------------------------------
(***************************************************************************)
(* What the console's input side promises: typed characters are edited     *)
(* until the line ends, and read in the order they were typed.             *)
(***************************************************************************)
EXTENDS Integers, Sequences, SequencesExt

CONSTANTS
  Char,   \* the characters that can be stored
  Ender,  \* the ones that end a line
  SIZE    \* how many characters are kept

VARIABLES
  line,   \* ended lines, still to be read
  edit    \* the line being typed

Init == line = <<>> /\ edit = <<>>

\* A character is added when there is room; it ends the line if it is an
\* ender or takes the last place.
Type(c) ==
  /\ Len(line) + Len(edit) < SIZE
  /\ IF c \in Ender \/ Len(line) + Len(edit) = SIZE - 1
     THEN line' = line \o edit \o <<c>> /\ edit' = <<>>
     ELSE edit' = Append(edit, c) /\ UNCHANGED line

\* Only the line being typed can be erased.
Erase == edit # <<>> /\ edit' = Front(edit) /\ UNCHANGED line

Take == line # <<>> /\ line' = Tail(line) /\ UNCHANGED edit

Next == (\E c \in Char : Type(c)) \/ Erase \/ Take

Spec == Init /\ [][Next]_<<line, edit>>
=============================================================================
