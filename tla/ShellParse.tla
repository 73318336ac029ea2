----------------------------- MODULE ShellParse -----------------------------
(***************************************************************************)
(* The parser of the shell (user/sh.c of lab 2).  A command line is a      *)
(* sequence of tokens: what gettoken() and peek() find in the text, words  *)
(* being the strings of Word.  A result r has the command, the tokens that *)
(* are left and the message of the panic, "" if there is none.             *)
(***************************************************************************)
EXTENDS Integers, Sequences, SequencesExt

CONSTANTS Word, MAXARGS

peek(ts, toks) == IF ts = <<>> THEN FALSE ELSE Head(ts) \in toks

execcmd(argv) == [type |-> "EXEC", argv |-> argv]
redircmd(cmd, r) == [type |-> "REDIR", cmd |-> cmd, mode |-> r[1], file |-> r[2]]
pipecmd(l, r) == [type |-> "PIPE", left |-> l, right |-> r]
listcmd(l, r) == [type |-> "LIST", left |-> l, right |-> r]
backcmd(cmd) == [type |-> "BACK", cmd |-> cmd]

Ok(cmd, rest) == [cmd |-> cmd, rest |-> rest, err |-> ""]
panic(r, msg) == [r EXCEPT !.err = msg]
gettoken(r) == [r EXCEPT !.rest = Tail(@)]

\* parseredirs(): every redirection wraps the command, the last one outermost.
RECURSIVE parseredirs(_)
parseredirs(r) ==
  IF r.err # "" \/ ~peek(r.rest, {"<", ">", ">>"}) THEN r
  ELSE IF ~peek(Tail(r.rest), Word) THEN panic(r, "missing file for redirection")
  ELSE parseredirs([r EXCEPT !.redirs = Append(@, SubSeq(r.rest, 1, 2)), !.rest = Tail(Tail(@))])

\* The arguments of a simple command; r.argv and r.redirs grow side by side.
RECURSIVE arguments(_)
arguments(r) ==
  IF r.err # "" \/ r.rest = <<>> \/ peek(r.rest, {"|", ")", "&", ";"}) THEN r
  ELSE IF ~peek(r.rest, Word) THEN panic(r, "syntax")
  ELSE IF Len(r.argv) + 1 >= MAXARGS THEN panic(r, "too many args")
  ELSE arguments(parseredirs([r EXCEPT !.argv = Append(@, Head(r.rest)), !.rest = Tail(@)]))

wrapped(cmd, redirs) == FoldLeft(redircmd, cmd, redirs)
simple(r) == [Ok(wrapped(execcmd(r.argv), r.redirs), r.rest) EXCEPT !.err = r.err]
words(ts) == simple(arguments(parseredirs([argv |-> <<>>, redirs |-> <<>>, rest |-> ts, err |-> ""])))

\* parseblock() after parseline(): the ')' and the redirections behind it.
block_redirs(cmd, r) == [Ok(wrapped(cmd, r.redirs), r.rest) EXCEPT !.err = r.err]
block_end(r) ==
  IF r.err # "" THEN r
  ELSE IF ~peek(r.rest, {")"}) THEN panic(r, "syntax - missing )")
  ELSE block_redirs(r.cmd, parseredirs([redirs |-> <<>>, rest |-> Tail(r.rest), err |-> ""]))

RECURSIVE parseline(_), parsepipe(_), parseback(_)

parseblock(ts) == block_end(parseline(Tail(ts)))
parseexec(ts) == IF peek(ts, {"("}) THEN parseblock(ts) ELSE words(ts)

\* left is parsed; so is what is behind the '|' or the ';'.
pipe_of(left, r) == [r EXCEPT !.cmd = pipecmd(left, r.cmd)]
\* mutant: a pipeline of two commands only
pipe_next_short(r) ==
  IF r.err # "" \/ ~peek(r.rest, {"|"}) THEN r ELSE pipe_of(r.cmd, parseexec(Tail(r.rest)))
pipe_next(r) ==
  IF r.err # "" \/ ~peek(r.rest, {"|"}) THEN r ELSE pipe_of(r.cmd, parsepipe(Tail(r.rest)))
parsepipe(ts) == pipe_next(parseexec(ts))

parseback(r) ==
  IF r.err # "" \/ ~peek(r.rest, {"&"}) THEN r
  ELSE parseback([gettoken(r) EXCEPT !.cmd = backcmd(r.cmd)])
list_of(left, r) == [r EXCEPT !.cmd = listcmd(left, r.cmd)]
list_next(r) ==
  IF r.err # "" \/ ~peek(r.rest, {";"}) THEN r ELSE list_of(r.cmd, parseline(Tail(r.rest)))
parseline(ts) == list_next(parseback(parsepipe(ts)))

leftovers(r) == IF r.err = "" /\ r.rest # <<>> THEN panic(r, "syntax") ELSE r
parsecmd(ts) == leftovers(parseline(ts))

-----------------------------------------------------------------------------
(* The grammar as a reader knows it: how a command is written. *)

RECURSIVE Written(_)
Paren(cmd, types) ==
  IF cmd.type \in types THEN Written(cmd) ELSE <<"(">> \o Written(cmd) \o <<")">>
Written(cmd) ==
  CASE cmd.type = "EXEC" -> cmd.argv
    [] cmd.type = "REDIR" -> Paren(cmd.cmd, {"EXEC", "REDIR"}) \o <<cmd.mode, cmd.file>>
    [] cmd.type = "PIPE" ->
         Paren(cmd.left, {"EXEC", "REDIR"}) \o <<"|">> \o Paren(cmd.right, {"EXEC", "REDIR", "PIPE"})
    [] cmd.type = "BACK" -> Paren(cmd.cmd, {"EXEC", "REDIR", "PIPE", "BACK"}) \o <<"&">>
    [] cmd.type = "LIST" ->
         Paren(cmd.left, {"EXEC", "REDIR", "PIPE", "BACK"}) \o <<";">> \o Written(cmd.right)

\* Commands of operators nested at most n deep.
RECURSIVE Commands(_)
Commands(n) ==
  LET S == Commands(n - 1) IN
  IF n = 0 THEN {execcmd(<<>>), execcmd(<<"q">>), execcmd(<<"cat", "f">>)}
  ELSE S \cup {backcmd(c) : c \in S} \cup {redircmd(c, <<m, "f">>) : c \in S, m \in {"<", ">>"}}
         \cup {pipecmd(l, r) : l, r \in S} \cup {listcmd(l, r) : l, r \in S}
=============================================================================
