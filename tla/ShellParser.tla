----------------------------- MODULE ShellParser -----------------------------
(***************************************************************************)
(* The parser of the shell of hw2.  A line is a sequence of characters, of *)
(* which only the class matters: white space ("ws"), one of the symbols    *)
(* "<", ">" and "|", or anything else ("a").  A character pointer is a     *)
(* position in the line, es is the position after its end, and the copy of *)
(* a word that mkcopy() makes is named by the position where it starts.    *)
(*                                                                         *)
(* A parse either fails with one of the parser's messages, after which the *)
(* process exits, or yields the stages of a pipeline: the right-nested     *)
(* pipecmds as a sequence, and for each execcmd its argv and the redircmds *)
(* around it, outermost first.  A step is one round of a loop.             *)
(***************************************************************************)
EXTENDS Order, SequencesExt, FiniteSetsExt

CONSTANTS
  MAXARGS,    \* length of argv (10 in shell.c)
  LINELEN     \* bound: the length of a line

ASSUME ParserAssumption == MAXARGS \in Nat \ {0} /\ LINELEN \in Nat

Symbols    == {"<", ">", "|"}
Characters == Symbols \cup {"ws", "a"}

VARIABLES
  buf, ps,    \* the line and the position in it that the parsers share
  cmd,        \* the command that parseexec() is building
  stages,     \* the commands before it
  parser_pc,  \* the loop that runs
  msg         \* how the parse ended

parserVars == <<buf, ps, cmd, stages, parser_pc, msg>>

-----------------------------------------------------------------------------
\* The position at which s < es && strchr(set, *s) ends, from i.
SkipWhile(s, i, set) ==
  Min({j \in i..(Len(s) + 1) : j = Len(s) + 1 \/ s[j] \notin set})
SkipSpace(s, i) == SkipWhile(s, i, {"ws"})

\* gettoken(): the token, where it starts, and *ps after it.
gettoken(s, i) ==
  LET q   == SkipSpace(s, i)
      tok == IF q > Len(s) THEN "end" ELSE s[q]
      eq  == CASE tok = "end" -> q
               [] tok = "a" -> SkipWhile(s, q, {"a"})
               [] tok \in Symbols -> q + 1
  IN [tok |-> tok, q |-> q, ps |-> SkipSpace(s, eq)]

\* peek() also moves *ps over white space.
peek(toks) == gettoken(buf, ps).tok \in toks

execcmd == [argv |-> <<>>, redirs |-> <<>>]

\* redircmd(c, f, type): a new outermost redirection.
Redir(f, type) == [file |-> f, fd |-> IF type = "<" THEN 0 ELSE 1]
redircmd_Inner(c, f, type) ==
  [c EXCEPT !.redirs = Append(@, Redir(f, type))]
redircmd(c, f, type) ==
  [c EXCEPT !.redirs = <<Redir(f, type)>> \o @]

\* parsecmd() is called with a line.
ParserInit ==
  /\ buf \in BoundedSeq(Characters, LINELEN) /\ ps = 1
  /\ cmd = execcmd /\ stages = <<>>
  /\ parser_pc = "parseredirs" /\ msg = "none"

\* A message, and exit().
Fail(m) == msg' = m /\ parser_pc' = "exit" /\ UNCHANGED <<ps, cmd, stages>>

\* A round of the loop of parseredirs(), and its end.
parseredirs ==
  /\ parser_pc = "parseredirs" /\ peek({"<", ">"})
  /\ LET op   == gettoken(buf, ps)
         file == gettoken(buf, op.ps)
     IN IF file.tok # "a" THEN Fail("missing file for redirection")
        ELSE /\ cmd' = redircmd(cmd, file.q, op.tok) /\ ps' = file.ps
             /\ UNCHANGED <<stages, parser_pc, msg>>
  /\ UNCHANGED buf
RedirsEnd ==
  /\ parser_pc = "parseredirs" /\ ~peek({"<", ">"})
  /\ ps' = SkipSpace(buf, ps) /\ parser_pc' = "parseexec"
  /\ UNCHANGED <<buf, cmd, stages, msg>>

TooMany_OffByOne(argc) == argc > MAXARGS
TooMany(argc) == argc >= MAXARGS

\* A round of the loop of parseexec() up to its call of parseredirs().  The
\* argument is stored before argc is tested; it is lost with the process.
parseexec ==
  /\ parser_pc = "parseexec" /\ ~peek({"|", "end"})
  /\ LET word == gettoken(buf, ps)
         argc == Len(cmd.argv) + 1
     IN IF word.tok # "a" THEN Fail("syntax error")
        ELSE IF TooMany(argc) THEN Fail("too many args")
        ELSE /\ cmd' = [cmd EXCEPT !.argv = Append(@, word.q)] /\ ps' = word.ps
             /\ parser_pc' = "parseredirs" /\ UNCHANGED <<stages, msg>>
  /\ UNCHANGED buf

\* pipecmd(): the stages so far, with left on the left of what is to come.
pipecmd(left) == Append(stages, left)

\* parsepipe() finds a "|" after a command, and calls itself for the next one.
parsepipe ==
  /\ parser_pc = "parseexec" /\ peek({"|"})
  /\ stages' = pipecmd(cmd) /\ cmd' = execcmd
  /\ ps' = gettoken(buf, ps).ps /\ parser_pc' = "parseredirs"
  /\ UNCHANGED <<buf, msg>>

\* The last command ends, all calls of parsepipe() return, and parsecmd() looks
\* for leftovers.
parsecmd ==
  /\ parser_pc = "parseexec" /\ peek({"end"})
  /\ ps' = SkipSpace(buf, ps)
  /\ msg' = IF ps' # Len(buf) + 1 THEN "leftovers" ELSE "ok"
  /\ stages' = Append(stages, cmd) /\ parser_pc' = "exit"
  /\ UNCHANGED <<buf, cmd>>

Parsed == parser_pc = "exit" /\ UNCHANGED parserVars

ParserNext == parseredirs \/ RedirsEnd \/ parseexec \/ parsepipe \/ parsecmd \/ Parsed

ParserSpec == ParserInit /\ [][ParserNext]_parserVars

-----------------------------------------------------------------------------
(***************************************************************************)
(* The language, without a parser: the tokens of a line are its symbols    *)
(* and its longest words; "|" separates stages; a word after "<" or ">"    *)
(* is a file and every other word is an argument.                          *)
(***************************************************************************)
Starts(s) == {i \in DOMAIN s :
                \/ s[i] \in Symbols
                \/ s[i] = "a" /\ (i = 1 \/ s[i - 1] # "a")}

\* The token before and after position i, 0 or the end if there is none.
Before(s, i) == Max({0} \cup {j \in Starts(s) : j < i})
After(s, i)  == Min({Len(s) + 1} \cup {j \in Starts(s) : j > i})

Bars(s)   == {i \in Starts(s) : s[i] = "|"}
IsFile(s, i) == s[i] = "a" /\ Before(s, i) # 0 /\ s[Before(s, i)] \in {"<", ">"}
IsArg(s, i)  == s[i] = "a" /\ ~IsFile(s, i)

\* The stage that token i belongs to, and the arguments and files of a stage.
StageOf(s, i) == Cardinality({j \in Bars(s) : j < i}) + 1
Args(s, n)  == {i \in Starts(s) : StageOf(s, i) = n /\ IsArg(s, i)}
Files(s, n) == {i \in Starts(s) : StageOf(s, i) = n /\ IsFile(s, i)}

\* The symbols that lack a file, and the arguments for which there is no room.
LacksFile(s) == {i \in Starts(s) : s[i] \in {"<", ">"} /\
                   (After(s, i) > Len(s) \/ s[After(s, i)] # "a")}
Surplus(s)   == {i \in Starts(s) : IsArg(s, i) /\
                   Rank(i, Args(s, StageOf(s, i))) >= MAXARGS}

\* The first error of a line.
Verdict(s) ==
  LET first == Min({Len(s) + 1} \cup LacksFile(s) \cup Surplus(s))
  IN CASE first \in LacksFile(s) -> "missing file for redirection"
       [] first \in Surplus(s) -> "too many args"
       [] OTHER -> "ok"

\* The command c has these arguments and these files, the last file outermost.
Holds(s, c, args, files) ==
  /\ Lists(c.argv, args, [i \in args |-> i])
  /\ Lists(Reverse(c.redirs), files, [i \in files |-> Redir(i, s[Before(s, i)])])

\* parsecmd() accepts the language above and builds the stages of the line,
\* reports the first error of every other line, and never finds leftovers or a
\* syntax error; a later redirection is put around an earlier one.
ParserCorrect ==
  /\ msg # "none" => msg = Verdict(buf)
  /\ msg = "ok" =>
       /\ Len(stages) = Cardinality(Bars(buf)) + 1
       /\ \A n \in DOMAIN stages : Holds(buf, stages[n], Args(buf, n), Files(buf, n))

\* argv has room for the null pointer that parseexec() adds after the last
\* argument, in each stage of the line.
ArgvFits ==
  /\ Len(cmd.argv) <= MAXARGS - 1
  /\ \A n \in DOMAIN stages : Len(stages[n].argv) <= MAXARGS - 1
=============================================================================
