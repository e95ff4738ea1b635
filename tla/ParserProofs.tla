----------------------------- MODULE ParserProofs -----------------------------
(***************************************************************************)
(* The parser of the shell builds what the language says, and reports the  *)
(* first error of a line: for every line and every number of arguments.    *)
(***************************************************************************)
EXTENDS ShellParser, OrderProofs

Line == Seq(Characters)

\* A position that is not inside a word.
Border(s, i) ==
  /\ i \in 1..(Len(s) + 1)
  /\ i <= Len(s) /\ s[i] = "a" => i \in Starts(s)

\* The tokens before position i, and the bars among them.
Done(s, i)     == {j \in Starts(s) : j < i}
DoneBars(s, i) == {j \in Bars(s) : j < i}

\* The arguments and the files of the current stage that are before i.
DoneArgs(s, i)  == {j \in Args(s, StageOf(s, i)) : j < i}
DoneFiles(s, i) == {j \in Files(s, StageOf(s, i)) : j < i}

Redirs   == [file : Nat, fd : {0, 1}]
Commands == [argv : Seq(Nat), redirs : Seq(Redirs)]

\* The types, and where the shared position can be.
ParserType ==
  /\ buf \in Line /\ Border(buf, ps)
  /\ cmd \in Commands /\ stages \in Seq(Commands)
  /\ parser_pc \in {"parseredirs", "parseexec", "exit"}
  /\ msg # "none" <=> parser_pc = "exit"

\* What has been built of the tokens before i: the stages st, and the command c
\* of the current stage.  None of the tokens is an error, and no redirection is
\* the last of them, since it is read together with its file.
Made(s, i, c, st) ==
  /\ Len(st) = Cardinality(DoneBars(s, i))
  /\ \A n \in DOMAIN st : Holds(s, st[n], Args(s, n), Files(s, n))
  /\ Holds(s, c, DoneArgs(s, i), DoneFiles(s, i))
  /\ Done(s, i) \cap (LacksFile(s) \cup Surplus(s)) = {}
  /\ \A j \in Done(s, i) : s[j] \in {"<", ">"} => \E l \in Done(s, i) : l > j

\* The inductive invariant.
ParseInv ==
  /\ ParserType
  /\ msg = "none" => Made(buf, ps, cmd, stages)
  /\ parser_pc = "parseexec" => ~peek({"<", ">"})
-----------------------------------------------------------------------------
(***************************************************************************)
(* Tokens.                                                                 *)
(***************************************************************************)

\* The tokens start inside the line.
LEMMA StartsType ==
  ASSUME NEW s \in Line
  PROVE  /\ Len(s) \in Nat /\ Starts(s) \subseteq 1..Len(s) /\ Starts(s) \subseteq Nat
         /\ \A i \in Starts(s) : s[i] \in {"<", ">", "|", "a"}
         /\ \A i \in 1..Len(s) : s[i] \in Characters
<1>1. Len(s) \in Nat /\ DOMAIN s = 1..Len(s)
  BY LenProperties DEF Line
<1>2. \A i \in 1..Len(s) : s[i] \in Characters
  BY ElementOfSeq DEF Line
<1> QED BY <1>1, <1>2 DEF Starts, Symbols

\* Where a loop over the characters of a set stops.
LEMMA Skips ==
  ASSUME NEW s \in Line, NEW i \in 1..(Len(s) + 1), NEW set
  PROVE  /\ SkipWhile(s, i, set) \in i..(Len(s) + 1)
         /\ SkipWhile(s, i, set) <= Len(s) => s[SkipWhile(s, i, set)] \notin set
         /\ \A j \in i..(SkipWhile(s, i, set) - 1) : s[j] \in set
<1> DEFINE S == {j \in i..(Len(s) + 1) : j = Len(s) + 1 \/ s[j] \notin set}
           e == SkipWhile(s, i, set)
<1>1. Len(s) \in Nat
  BY StartsType
<1>2. S \in SUBSET Nat /\ Len(s) + 1 \in S
  BY <1>1
<1>3. Min(S) \in S /\ \A x \in S : Min(S) <= x
  <2> HIDE DEF S
  <2> QED BY <1>2, Least
<1>4. e = Min(S)
  BY DEF SkipWhile
<1>5. e \in S /\ \A x \in S : e <= x
  BY <1>3, <1>4
<1> HIDE DEF e
<1>6. e \in i..(Len(s) + 1) /\ (e <= Len(s) => s[e] \notin set)
  BY <1>1, <1>5
<1>7. ASSUME NEW j \in i..(e - 1) PROVE s[j] \in set
  <2>1. j \in i..(Len(s) + 1) /\ ~(e <= j) /\ j # Len(s) + 1
    BY <1>1, <1>6
  <2>2. j \notin S
    BY <1>5, <2>1
  <2> QED BY <2>1, <2>2
<1> QED BY <1>6, <1>7 DEF e

\* Skipping white space from outside a word leads to the next token or to the
\* end.
LEMMA NextStart ==
  ASSUME NEW s \in Line, NEW i, Border(s, i)
  PROVE  LET q == SkipSpace(s, i)
         IN  /\ q \in i..(Len(s) + 1)
             /\ q <= Len(s) => q \in Starts(s)
             /\ \A j \in Starts(s) : j >= i => j >= q
<1> DEFINE q == SkipSpace(s, i)
<1>1. Len(s) \in Nat /\ i \in 1..(Len(s) + 1)
  BY StartsType DEF Border
<1>2. /\ q \in i..(Len(s) + 1)
      /\ q <= Len(s) => s[q] \notin {"ws"}
      /\ \A j \in i..(q - 1) : s[j] \in {"ws"}
  BY <1>1, Skips DEF SkipSpace
<1> HIDE DEF q
<1>3. ASSUME q <= Len(s) PROVE q \in Starts(s)
  <2>1. q \in 1..Len(s) /\ q \in DOMAIN s
    BY <1>1, <1>2, <1>3, LenProperties DEF Line
  <2>2. s[q] \in Symbols \/ s[q] = "a"
    BY <1>2, <1>3, <2>1, StartsType DEF Characters
  <2>3. CASE s[q] = "a" /\ q # i
    <3>1. q - 1 \in i..(q - 1)
      BY <1>1, <1>2, <2>3
    <3>2. s[q - 1] # "a"
      BY <1>2, <3>1
    <3> QED BY <2>1, <2>3, <3>2 DEF Starts
  <2>4. CASE s[q] = "a" /\ q = i
    BY <1>3, <2>4 DEF Border
  <2>5. CASE s[q] \in Symbols
    BY <2>1, <2>5 DEF Starts
  <2> QED BY <2>2, <2>3, <2>4, <2>5
<1>4. ASSUME NEW j \in Starts(s), j >= i PROVE j >= q
  <2>1. j \in Nat /\ s[j] \in {"<", ">", "|", "a"}
    BY StartsType
  <2>2. j \notin i..(q - 1)
    BY <1>2, <2>1
  <2> QED BY <1>1, <1>2, <1>4, <2>1, <2>2
<1> QED BY <1>2, <1>3, <1>4 DEF q

\* A token is not inside a word, nor is the end.
LEMMA StartBorder ==
  ASSUME NEW s \in Line, NEW i, i \in Starts(s) \/ i = Len(s) + 1
  PROVE  Border(s, i)
<1>1. Len(s) \in Nat /\ Starts(s) \subseteq 1..Len(s)
  BY StartsType
<1>2. CASE i \in Starts(s)
  BY <1>1, <1>2 DEF Border
<1>3. CASE i = Len(s) + 1
  BY <1>1, <1>3 DEF Border
<1> QED BY <1>2, <1>3

\* gettoken() finds the next token, and goes on to the one after it.
LEMMA Token ==
  ASSUME NEW s \in Line, NEW i, Border(s, i)
  PROVE  LET t == gettoken(s, i)
         IN  /\ t.q = SkipSpace(s, i)
             /\ t.q \in i..(Len(s) + 1)
             /\ \A j \in Starts(s) : j >= i => j >= t.q
             /\ t.q = Len(s) + 1 => t.tok = "end" /\ t.ps = Len(s) + 1
             /\ t.q # Len(s) + 1 =>
                  /\ t.q \in Starts(s) /\ t.tok = s[t.q]
                  /\ t.ps \in (t.q + 1)..(Len(s) + 1)
                  /\ t.ps \in Starts(s) \/ t.ps = Len(s) + 1
                  /\ \A j \in Starts(s) : j > t.q => j >= t.ps
<1> DEFINE q   == SkipSpace(s, i)
           tok == IF q > Len(s) THEN "end" ELSE s[q]
           eq  == CASE tok = "end" -> q
                    [] tok = "a" -> SkipWhile(s, q, {"a"})
                    [] tok \in Symbols -> q + 1
           n   == SkipSpace(s, eq)
<1>1. gettoken(s, i) = [tok |-> tok, q |-> q, ps |-> n]
  BY DEF gettoken
<1>2. Len(s) \in Nat /\ i \in 1..(Len(s) + 1)
  BY StartsType DEF Border
<1>3. /\ q \in i..(Len(s) + 1)
      /\ q <= Len(s) => q \in Starts(s)
      /\ \A j \in Starts(s) : j >= i => j >= q
  BY NextStart
<1> HIDE DEF q
<1>4. CASE q = Len(s) + 1
  <2>1. tok = "end" /\ eq = q
    <3>1. tok = "end"
      BY <1>2, <1>4
    <3> HIDE DEF tok
    <3> QED BY <3>1 DEF Symbols
  <2>2. Border(s, q)
    BY <1>4, StartBorder
  <2>3. SkipSpace(s, q) \in q..(Len(s) + 1)
    BY <2>2, NextStart
  <2>4. n = Len(s) + 1
    BY <1>2, <1>4, <2>1, <2>3
  <2> HIDE DEF n, eq, tok
  <2> QED BY <1>1, <1>3, <1>4, <2>1, <2>4 DEF q
<1>5. CASE q # Len(s) + 1
  <2>1. q \in Starts(s) /\ q \in 1..Len(s) /\ tok = s[q]
        /\ tok \in {"<", ">", "|", "a"}
    BY <1>2, <1>3, <1>5, StartsType
  <2>2. /\ eq \in (q + 1)..(Len(s) + 1) /\ Border(s, eq)
        /\ \A j \in Starts(s) : j > q => j >= eq
    <3>1. CASE tok = "a"
      <4> DEFINE e == SkipWhile(s, q, {"a"})
      <4>1. /\ e \in q..(Len(s) + 1)
            /\ e <= Len(s) => s[e] \notin {"a"}
            /\ \A j \in q..(e - 1) : s[j] \in {"a"}
        BY <1>2, <2>1, Skips
      <4>2. eq = e
        <5> HIDE DEF tok, e
        <5>1. e = SkipWhile(s, q, {"a"})
          BY DEF e
        <5>2. tok # "end" /\ tok \notin Symbols
          BY <3>1 DEF Symbols
        <5> QED BY <3>1, <5>1, <5>2
      <4> HIDE DEF e, eq, tok
      <4>3. e \in (q + 1)..(Len(s) + 1)
        <5>1. s[q] = "a" /\ q <= Len(s)
          BY <1>2, <2>1, <3>1
        <5>2. e # q
          BY <4>1, <5>1
        <5> QED BY <1>2, <2>1, <4>1, <5>2
      <4>4. Border(s, e)
        BY <1>2, <2>1, <4>1, <4>3 DEF Border
      <4>5. ASSUME NEW j \in Starts(s), j > q PROVE j >= e
        <5>1. j \in Nat /\ j # 1
          BY <2>1, <4>5, StartsType
        <5>2. ASSUME ~(j >= e) PROVE FALSE
          <6>1. j \in q..(e - 1) /\ j - 1 \in q..(e - 1)
            BY <2>1, <4>3, <4>5, <5>1, <5>2
          <6>2. s[j] = "a" /\ s[j - 1] = "a"
            BY <4>1, <6>1
          <6> QED BY <5>1, <6>2 DEF Starts, Symbols
        <5> QED BY <5>2
      <4> QED BY <4>2, <4>3, <4>4, <4>5
    <3>2. CASE tok # "a"
      <4>1. eq = q + 1
        BY <2>1, <3>2 DEF Symbols
      <4>2. q + 1 \in (q + 1)..(Len(s) + 1)
        BY <1>2, <2>1
      <4>3. ASSUME q + 1 <= Len(s), s[q + 1] = "a" PROVE q + 1 \in Starts(s)
        <5>1. q + 1 \in DOMAIN s /\ (q + 1) - 1 = q /\ s[q] # "a"
          BY <1>2, <2>1, <3>2, <4>3, LenProperties DEF Line
        <5> QED BY <4>3, <5>1 DEF Starts
      <4>4. Border(s, q + 1)
        BY <1>2, <2>1, <4>2, <4>3 DEF Border
      <4>5. ASSUME NEW j \in Starts(s), j > q PROVE j >= q + 1
        <5>1. j \in Nat
          BY StartsType
        <5> QED BY <2>1, <4>5, <5>1
      <4> HIDE DEF eq
      <4> QED BY <4>1, <4>2, <4>4, <4>5
    <3> QED BY <3>1, <3>2
  <2> HIDE DEF eq, tok
  <2>3. /\ n \in eq..(Len(s) + 1)
        /\ n <= Len(s) => n \in Starts(s)
        /\ \A j \in Starts(s) : j >= eq => j >= n
    BY <2>2, NextStart
  <2> HIDE DEF n
  <2>4. n \in (q + 1)..(Len(s) + 1) /\ (n \in Starts(s) \/ n = Len(s) + 1)
    BY <1>2, <2>1, <2>2, <2>3
  <2>5. \A j \in Starts(s) : j > q => j >= n
    BY <2>2, <2>3
  <2> QED BY <1>1, <1>3, <1>5, <2>1, <2>4, <2>5 DEF q
<1> QED BY <1>4, <1>5

\* At a token, or at the end, gettoken() finds just that.
LEMMA AtToken ==
  ASSUME NEW s \in Line, NEW i, i \in Starts(s) \/ i = Len(s) + 1
  PROVE  /\ gettoken(s, i).q = i
         /\ i # Len(s) + 1 => gettoken(s, i).tok = s[i]
         /\ i = Len(s) + 1 => gettoken(s, i).tok = "end"
<1> DEFINE t == gettoken(s, i)
<1>1. Border(s, i) /\ Len(s) \in Nat /\ i \in Nat
  BY StartBorder, StartsType
<1>2. /\ t.q \in i..(Len(s) + 1)
      /\ \A j \in Starts(s) : j >= i => j >= t.q
      /\ t.q = Len(s) + 1 => t.tok = "end"
      /\ t.q # Len(s) + 1 => t.tok = s[t.q]
  BY <1>1, Token
<1> HIDE DEF t
<1>3. t.q = i
  <2>1. CASE i \in Starts(s)
    BY <1>1, <1>2, <2>1
  <2>2. CASE i = Len(s) + 1
    BY <1>1, <1>2, <2>2
  <2> QED BY <2>1, <2>2
<1> QED BY <1>2, <1>3 DEF t
-----------------------------------------------------------------------------
(***************************************************************************)
(* The tokens before a position.                                           *)
(***************************************************************************)

\* The sets of tokens are finite.
LEMMA TokensFinite ==
  ASSUME NEW s \in Line, NEW T \in SUBSET Starts(s)
  PROVE  IsFiniteSet(T) /\ Cardinality(T) \in Nat
<1>1. Len(s) \in Nat /\ Starts(s) \subseteq 1..Len(s)
  BY StartsType
<1>2. IsFiniteSet(1..Len(s))
  BY <1>1, FS_Interval
<1>3. IsFiniteSet(T)
  BY <1>1, <1>2, FS_Subset
<1> QED BY <1>3, FS_CardinalityType

\* The stage of a position only depends on the bars before it.
LEMMA StageIs ==
  ASSUME NEW s, NEW i
  PROVE  StageOf(s, i) = Cardinality(DoneBars(s, i)) + 1
BY DEF StageOf, DoneBars

\* The stages are numbered from left to right.
LEMMA StageGrows ==
  ASSUME NEW s \in Line, NEW i \in Nat, NEW p \in Nat, i <= p
  PROVE  /\ StageOf(s, i) \in Nat /\ StageOf(s, i) <= StageOf(s, p)
         /\ \A b \in Bars(s) : i <= b /\ b < p => StageOf(s, i) < StageOf(s, p)
<1> DEFINE B == DoneBars(s, i)
           C == DoneBars(s, p)
<1>1. B \subseteq C /\ C \subseteq Starts(s) /\ Bars(s) \subseteq Nat
  BY StartsType DEF DoneBars, Bars
<1>2. StageOf(s, i) = Cardinality(B) + 1 /\ StageOf(s, p) = Cardinality(C) + 1
  BY StageIs
<1>3. ASSUME NEW b \in Bars(s), i <= b, b < p PROVE b \in C /\ b \notin B
  <2>1. b \in Nat
    BY <1>1
  <2> QED BY <1>3, <2>1 DEF DoneBars
<1> HIDE DEF B, C
<1>4. /\ IsFiniteSet(B) /\ IsFiniteSet(C)
      /\ Cardinality(B) \in Nat /\ Cardinality(C) \in Nat
  BY <1>1, TokensFinite
<1>5. Cardinality(B) <= Cardinality(C)
  BY <1>1, <1>4, FS_Subset
<1>6. ASSUME NEW b \in Bars(s), i <= b, b < p
      PROVE  Cardinality(B) < Cardinality(C)
  <2>1. B # C
    BY <1>3, <1>6
  <2>2. Cardinality(B) # Cardinality(C)
    BY <1>1, <1>4, <2>1, FS_Subset
  <2> QED BY <1>4, <1>5, <2>2
<1> QED BY <1>2, <1>4, <1>5, <1>6

\* The token that ends just before position p.
LEMMA BeforeIs ==
  ASSUME NEW s \in Line, NEW p \in Nat, NEW q \in Starts(s), q < p,
         \A j \in Starts(s) : j > q => j >= p
  PROVE  Before(s, p) = q
<1> DEFINE S == {0} \cup {j \in Starts(s) : j < p}
<1>1. S \in SUBSET Nat /\ q \in S
  BY StartsType
<1>2. \A x \in S : x <= q
  BY StartsType
<1>3. Max(S) = q
  <2> HIDE DEF S
  <2> QED BY <1>1, <1>2, Greatest
<1> QED BY <1>3 DEF Before

\* The token that comes next.
LEMMA AfterIs ==
  ASSUME NEW s \in Line, NEW q \in Starts(s), NEW f,
         f \in Starts(s) \/ f = Len(s) + 1, q < f,
         \A j \in Starts(s) : j > q => j >= f
  PROVE  After(s, q) = f
<1> DEFINE S == {Len(s) + 1} \cup {j \in Starts(s) : j > q}
<1>1. Len(s) \in Nat /\ Starts(s) \subseteq 1..Len(s)
  BY StartsType
<1>2. S \in SUBSET Nat /\ f \in S /\ f \in Nat
  BY <1>1
<1>3. \A x \in S : f <= x
  BY <1>1
<1>4. Min(S) \in S /\ \A x \in S : Min(S) <= x
  <2> HIDE DEF S
  <2> QED BY <1>2, Least
<1>5. Min(S) = f
  <2>1. Min(S) \in Nat /\ Min(S) <= f /\ f <= Min(S)
    <3> HIDE DEF S
    <3> QED BY <1>2, <1>3, <1>4
  <2> HIDE DEF S
  <2> QED BY <1>2, <2>1
<1> QED BY <1>5 DEF After

\* The token before a position is the last of the tokens before it.
LEMMA BeforeLast ==
  ASSUME NEW s \in Line, NEW p \in Nat, Before(s, p) # 0
  PROVE  /\ Before(s, p) \in Done(s, p)
         /\ \A j \in Done(s, p) : j <= Before(s, p)
<1> DEFINE S == {0} \cup {j \in Starts(s) : j < p}
<1>1. Len(s) \in Nat /\ Starts(s) \subseteq 1..Len(s)
  BY StartsType
<1>2. S \in SUBSET Nat /\ S # {} /\ \A x \in S : x <= Len(s)
  BY <1>1
<1>3. \E m \in S : \A x \in S : x <= m
  <2> HIDE DEF S
  <2> QED BY <1>1, <1>2, HasGreatest
<1>4. PICK m \in S : \A x \in S : x <= m
  BY <1>3
<1>5. Max(S) = m
  <2> HIDE DEF S
  <2> QED BY <1>2, <1>4, Greatest
<1>6. Before(s, p) = m
  BY <1>5 DEF Before
<1> QED BY <1>4, <1>6 DEF Done

\* What gettoken() adds to the tokens before *ps.
LEMMA Advance ==
  ASSUME NEW s \in Line, NEW i, Border(s, i),
         NEW q, NEW p, q = gettoken(s, i).q, p = gettoken(s, i).ps, q # Len(s) + 1
  PROVE  /\ i \in Nat /\ q \in Starts(s) /\ q \in Nat /\ i <= q
         /\ p \in Nat /\ q < p /\ Border(s, p)
         /\ p \in Starts(s) \/ p = Len(s) + 1
         /\ Done(s, p) = Done(s, i) \cup {q} /\ Done(s, q) = Done(s, i)
         /\ \A j \in Starts(s) : j >= i => j >= q
         /\ Before(s, p) = q /\ After(s, q) = p
<1>1. i \in Nat /\ Len(s) \in Nat /\ Starts(s) \subseteq Nat
  BY StartsType DEF Border
<1>2. /\ q \in i..(Len(s) + 1) /\ q \in Starts(s)
      /\ \A j \in Starts(s) : j >= i => j >= q
      /\ p \in (q + 1)..(Len(s) + 1)
      /\ p \in Starts(s) \/ p = Len(s) + 1
      /\ \A j \in Starts(s) : j > q => j >= p
  BY Token
<1>3. i <= q /\ q < p /\ q \in Nat /\ p \in Nat /\ Border(s, p)
  BY <1>1, <1>2, StartBorder
<1>4. ASSUME NEW j \in Starts(s)
      PROVE  /\ j < p <=> j < i \/ j = q
             /\ j < q <=> j < i
  <2>1. j \in Nat
    BY <1>1
  <2> QED BY <1>1, <1>2, <1>3, <2>1
<1>5. Done(s, p) = Done(s, i) \cup {q} /\ Done(s, q) = Done(s, i)
  BY <1>2, <1>4 DEF Done
<1>6. Before(s, p) = q /\ After(s, q) = p
  BY <1>2, <1>3, BeforeIs, AfterIs
<1> QED BY <1>1, <1>2, <1>3, <1>5, <1>6

\* The bars before a position depend on the tokens before it.
LEMMA BarsDone ==
  ASSUME NEW s, NEW i
  PROVE  DoneBars(s, i) = {j \in Done(s, i) : s[j] = "|"}
BY DEF DoneBars, Bars, Done

\* So do the arguments and the files of the current stage.
LEMMA WordsDone ==
  ASSUME NEW s, NEW i
  PROVE  /\ DoneArgs(s, i) = {j \in Done(s, i) :
                                 StageOf(s, j) = StageOf(s, i) /\ IsArg(s, j)}
         /\ DoneFiles(s, i) = {j \in Done(s, i) :
                                 StageOf(s, j) = StageOf(s, i) /\ IsFile(s, j)}
BY DEF DoneArgs, Args, DoneFiles, Files, Done

\* Positions with the same tokens before them are alike to the parser.
LEMMA MadeSame ==
  ASSUME NEW s, NEW i, NEW p, NEW c, NEW st, Made(s, i, c, st), Done(s, p) = Done(s, i)
  PROVE  Made(s, p, c, st)
<1>1. DoneBars(s, p) = DoneBars(s, i)
  BY BarsDone
<1>2. StageOf(s, p) = StageOf(s, i)
  BY <1>1, StageIs
<1>3. DoneArgs(s, p) = DoneArgs(s, i) /\ DoneFiles(s, p) = DoneFiles(s, i)
  <2> DEFINE A(k) == {j \in Done(s, k) : StageOf(s, j) = StageOf(s, k) /\ IsArg(s, j)}
             F(k) == {j \in Done(s, k) : StageOf(s, j) = StageOf(s, k) /\ IsFile(s, j)}
  <2>1. A(p) = A(i) /\ F(p) = F(i)
    BY <1>2
  <2>2. /\ DoneArgs(s, p) = A(p) /\ DoneFiles(s, p) = F(p)
        /\ DoneArgs(s, i) = A(i) /\ DoneFiles(s, i) = F(i)
    BY WordsDone
  <2> HIDE DEF A, F
  <2> QED BY <2>1, <2>2
<1> QED BY <1>1, <1>3 DEF Made

\* A token that is no bar is one of the current stage.
LEMMA SameStage ==
  ASSUME NEW s \in Line, NEW i, Border(s, i),
         NEW q, NEW p, q = gettoken(s, i).q, p = gettoken(s, i).ps, q # Len(s) + 1
  PROVE  /\ StageOf(s, q) = StageOf(s, i)
         /\ s[q] # "|" =>
              /\ DoneBars(s, p) = DoneBars(s, i)
              /\ StageOf(s, p) = StageOf(s, i)
              /\ DoneArgs(s, p)
                   = DoneArgs(s, i) \cup (IF IsArg(s, q) THEN {q} ELSE {})
              /\ DoneFiles(s, p)
                   = DoneFiles(s, i) \cup (IF IsFile(s, q) THEN {q} ELSE {})
<1>1. Done(s, p) = Done(s, i) \cup {q} /\ Done(s, q) = Done(s, i)
  BY Advance
<1>2. StageOf(s, q) = StageOf(s, i)
  BY <1>1, BarsDone, StageIs
<1>3. ASSUME s[q] # "|"
      PROVE  /\ DoneBars(s, p) = DoneBars(s, i)
             /\ StageOf(s, p) = StageOf(s, i)
  <2>1. DoneBars(s, p) = DoneBars(s, i)
    BY <1>1, <1>3, BarsDone
  <2> QED BY <2>1, StageIs
<1>4. ASSUME s[q] # "|"
      PROVE  /\ DoneArgs(s, p)
                   = DoneArgs(s, i) \cup (IF IsArg(s, q) THEN {q} ELSE {})
             /\ DoneFiles(s, p)
                   = DoneFiles(s, i) \cup (IF IsFile(s, q) THEN {q} ELSE {})
  <2>1. StageOf(s, p) = StageOf(s, i)
    BY <1>3, <1>4
  <2> QED BY <1>1, <1>2, <2>1, WordsDone
<1> QED BY <1>2, <1>3, <1>4
-----------------------------------------------------------------------------
(***************************************************************************)
(* The first error of a line.                                              *)
(***************************************************************************)

\* Errors are tokens, and of one kind only.
LEMMA ErrorsType ==
  ASSUME NEW s
  PROVE  /\ LacksFile(s) \subseteq Starts(s) /\ Surplus(s) \subseteq Starts(s)
         /\ LacksFile(s) \cap Surplus(s) = {}
BY DEF LacksFile, Surplus, IsArg

\* The next token is the first error.
LEMMA FirstError ==
  ASSUME NEW s \in Line, NEW i, Border(s, i), NEW c, NEW st, Made(s, i, c, st),
         NEW q, q = gettoken(s, i).q, q # Len(s) + 1
  PROVE  /\ q \in LacksFile(s) => Verdict(s) = "missing file for redirection"
         /\ q \in Surplus(s) => Verdict(s) = "too many args"
<1> DEFINE E == LacksFile(s) \cup Surplus(s)
           S == {Len(s) + 1} \cup LacksFile(s) \cup Surplus(s)
           first == Min(S)
<1>1. Len(s) \in Nat /\ Starts(s) \subseteq 1..Len(s) /\ E \subseteq Starts(s)
  BY StartsType, ErrorsType
<1>2. /\ i \in Nat /\ q \in Nat /\ q \in Starts(s)
      /\ \A j \in Starts(s) : j >= i => j >= q
  BY Advance
<1>3. ASSUME NEW j \in E PROVE q <= j
  <2>1. j \in Starts(s) /\ j \in Nat
    BY <1>1
  <2>2. ~(j < i)
    BY <2>1 DEF Made, Done
  <2> QED BY <1>2, <2>1, <2>2
<1>4. S \in SUBSET Nat /\ Len(s) + 1 \in S /\ S = E \cup {Len(s) + 1}
  BY <1>1
<1>5. first \in S /\ \A x \in S : first <= x
  <2> HIDE DEF S
  <2> QED BY <1>4, Least
<1> HIDE DEF S, E
<1>6. ASSUME q \in E PROVE first = q
  <2>1. first <= q /\ first \in Nat
    BY <1>4, <1>5, <1>6
  <2>2. first \in E
    BY <1>1, <1>2, <1>4, <1>5, <2>1
  <2>3. q <= first
    BY <1>3, <2>2
  <2> QED BY <1>2, <2>1, <2>3
<1>7. Verdict(s) = CASE first \in LacksFile(s) -> "missing file for redirection"
                     [] first \in Surplus(s) -> "too many args"
                     [] OTHER -> "ok"
  BY DEF Verdict, S
<1> HIDE DEF first
<1>8. ASSUME q \in LacksFile(s) PROVE Verdict(s) = "missing file for redirection"
  <2>1. first \in LacksFile(s) /\ first \notin Surplus(s)
    BY <1>6, <1>8, ErrorsType DEF E
  <2> QED BY <1>7, <2>1
<1>9. ASSUME q \in Surplus(s) PROVE Verdict(s) = "too many args"
  <2>1. first \in Surplus(s) /\ first \notin LacksFile(s)
    BY <1>6, <1>9, ErrorsType DEF E
  <2> QED BY <1>7, <2>1
<1> QED BY <1>8, <1>9

\* A line without errors.
LEMMA NoError ==
  ASSUME NEW s \in Line, LacksFile(s) \cup Surplus(s) = {}
  PROVE  Verdict(s) = "ok"
<1> DEFINE first == Min({Len(s) + 1} \cup LacksFile(s) \cup Surplus(s))
<1>1. Verdict(s) = CASE first \in LacksFile(s) -> "missing file for redirection"
                     [] first \in Surplus(s) -> "too many args"
                     [] OTHER -> "ok"
  BY DEF Verdict
<1>2. first \notin LacksFile(s) /\ first \notin Surplus(s)
  OBVIOUS
<1> HIDE DEF first
<1> QED BY <1>1, <1>2
-----------------------------------------------------------------------------
(***************************************************************************)
(* Commands.                                                               *)
(***************************************************************************)

\* A list is one of the items at the positions in the set, and of no others.
LEMMA ListsSame ==
  ASSUME NEW out, NEW S, NEW f, NEW g, Lists(out, S, f), \A i \in S : f[i] = g[i]
  PROVE  Lists(out, S, g)
BY DEF Lists

\* An argument is added at the end of argv.
LEMMA ArgvGrows ==
  ASSUME NEW argv \in Seq(Nat), NEW S \in SUBSET Nat, IsFiniteSet(S),
         NEW m \in Nat, \A i \in S : i < m,
         Lists(argv, S, [i \in S |-> i])
  PROVE  Lists(Append(argv, m), S \cup {m}, [i \in S \cup {m} |-> i])
<1> DEFINE item == [i \in S \cup {m} |-> i]
<1>1. Lists(argv, S, item)
  BY ListsSame
<1>2. item[m] = m
  OBVIOUS
<1> HIDE DEF item
<1>3. Lists(Append(argv, item[m]), S \cup {m}, item)
  BY <1>1, <1>2, ListsGrow
<1>4. Lists(Append(argv, m), S \cup {m}, item)
  BY <1>2, <1>3
<1> QED BY <1>4 DEF item

\* What is put in front of a sequence is at the end of its reversal.
LEMMA ReverseGrows ==
  ASSUME NEW X, NEW r \in Seq(X), NEW x \in X
  PROVE  /\ Reverse(r) \in Seq(X)
         /\ Reverse(<<x>> \o r) = Append(Reverse(r), x)
<1> DEFINE n == Len(r)
           a == Reverse(<<x>> \o r)
           b == Append(Reverse(r), x)
<1>1. n \in Nat /\ \A k \in 1..n : r[k] \in X
  BY LenProperties, ElementOfSeq
<1>2. Reverse(r) = [k \in 1..n |-> r[(n - k) + 1]]
  BY DEF Reverse
<1>3. Reverse(r) \in Seq(X) /\ Len(Reverse(r)) = n
  <2>1. \A k \in 1..n : r[(n - k) + 1] \in X
    BY <1>1
  <2> QED BY <1>1, <1>2, <2>1
<1>4. /\ <<x>> \o r \in Seq(X) /\ Len(<<x>> \o r) = n + 1
      /\ (<<x>> \o r)[1] = x
      /\ \A k \in 2..(n + 1) : (<<x>> \o r)[k] = r[k - 1]
  BY <1>1
<1>5. a = [k \in 1..(n + 1) |-> (<<x>> \o r)[((n + 1) - k) + 1]]
  BY <1>4 DEF Reverse
<1>6. /\ b \in Seq(X) /\ Len(b) = n + 1 /\ b[n + 1] = x
      /\ \A k \in 1..n : b[k] = Reverse(r)[k]
  BY <1>3, AppendProperties
<1> HIDE DEF a, b
<1>7. b = [k \in 1..(n + 1) |-> b[k]]
  BY <1>1, <1>6, LenProperties
<1>8. ASSUME NEW k \in 1..(n + 1) PROVE b[k] = a[k]
  <2>1. a[k] = (<<x>> \o r)[((n + 1) - k) + 1]
    BY <1>5
  <2>2. CASE k = n + 1
    <3>1. ((n + 1) - k) + 1 = 1
      BY <1>1, <2>2
    <3> QED BY <1>4, <1>6, <2>1, <2>2, <3>1
  <2>3. CASE k # n + 1
    <3>1. /\ k \in 1..n /\ ((n + 1) - k) + 1 \in 2..(n + 1)
          /\ (((n + 1) - k) + 1) - 1 = (n - k) + 1
      BY <1>1, <2>3
    <3>2. b[k] = r[(n - k) + 1]
      BY <1>2, <1>6, <3>1
    <3> QED BY <1>4, <2>1, <3>1, <3>2
  <2> QED BY <2>2, <2>3
<1>9. a = b
  BY <1>5, <1>7, <1>8
<1> QED BY <1>3, <1>9 DEF a, b

\* A redirection is put around the others: it comes last in the reversed list.
LEMMA RedirsGrow ==
  ASSUME NEW X, NEW r \in Seq(X), NEW S \in SUBSET Nat, IsFiniteSet(S),
         NEW m \in Nat, \A i \in S : i < m, NEW item, item[m] \in X,
         Lists(Reverse(r), S, item)
  PROVE  Lists(Reverse(<<item[m]>> \o r), S \cup {m}, item)
<1>1. /\ Reverse(r) \in Seq(X)
      /\ Reverse(<<item[m]>> \o r) = Append(Reverse(r), item[m])
  BY ReverseGrows
<1>2. Lists(Append(Reverse(r), item[m]), S \cup {m}, item)
  BY <1>1, ListsGrow
<1> QED BY <1>1, <1>2

\* A new command lists nothing.
LEMMA EmptyCommand ==
  ASSUME NEW s
  PROVE  execcmd \in Commands /\ Holds(s, execcmd, {}, {})
<1>1. execcmd.argv = <<>> /\ execcmd.redirs = <<>> /\ execcmd \in Commands
  BY DEF execcmd, Commands
<1>2. Len(Reverse(<<>>)) = 0
  BY DEF Reverse
<1>3. Cardinality({}) = 0
  BY FS_EmptySet
<1> QED BY <1>1, <1>2, <1>3 DEF Holds, Lists
-----------------------------------------------------------------------------
(***************************************************************************)
(* The steps of the parser.                                                *)
(***************************************************************************)

\* Words of the current stage, before the next token.
LEMMA WordsType ==
  ASSUME NEW s \in Line, NEW i \in Nat
  PROVE  /\ DoneArgs(s, i) \in SUBSET Nat /\ IsFiniteSet(DoneArgs(s, i))
         /\ DoneFiles(s, i) \in SUBSET Nat /\ IsFiniteSet(DoneFiles(s, i))
         /\ \A j \in DoneArgs(s, i) \cup DoneFiles(s, i) : j < i
<1>1. /\ DoneArgs(s, i) \subseteq Done(s, i) /\ DoneFiles(s, i) \subseteq Done(s, i)
      /\ Done(s, i) \subseteq Starts(s)
  BY WordsDone DEF Done
<1>2. Starts(s) \subseteq Nat
  BY StartsType
<1>3. IsFiniteSet(DoneArgs(s, i)) /\ IsFiniteSet(DoneFiles(s, i))
  BY <1>1, TokensFinite
<1>4. \A j \in Done(s, i) : j < i
  BY DEF Done
<1> QED BY <1>1, <1>2, <1>3, <1>4

\* A redirection that lacks its file is the first error of the line.
LEMMA RedirFails ==
  ASSUME NEW s \in Line, NEW i, Border(s, i), NEW c, NEW st, Made(s, i, c, st),
         gettoken(s, i).tok \in {"<", ">"},
         gettoken(s, gettoken(s, i).ps).tok # "a"
  PROVE  Verdict(s) = "missing file for redirection"
<1> DEFINE q == gettoken(s, i).q
           f == gettoken(s, i).ps
<1>1. q # Len(s) + 1 /\ s[q] \in {"<", ">"}
  BY Token
<1>2. /\ q \in Starts(s) /\ After(s, q) = f
      /\ f \in Starts(s) \/ f = Len(s) + 1
  BY <1>1, Advance
<1>3. f \in Starts(s) => f <= Len(s) /\ s[f] # "a"
  BY <1>2, AtToken, StartsType
<1>4. Len(s) \in Nat
  BY StartsType
<1>5. q \in LacksFile(s)
  <2> HIDE DEF q, f
  <2> QED BY <1>1, <1>2, <1>3, <1>4 DEF LacksFile
<1> QED BY <1>1, <1>5, FirstError

\* parseredirs() reads a redirection and its file.
LEMMA RedirStep ==
  ASSUME NEW s \in Line, NEW i, Border(s, i), NEW c \in Commands, NEW st,
         Made(s, i, c, st),
         NEW q, q = gettoken(s, i).q, NEW f, f = gettoken(s, i).ps,
         gettoken(s, i).tok \in {"<", ">"},
         NEW p, p = gettoken(s, f).ps, gettoken(s, f).tok = "a"
  PROVE  /\ gettoken(s, f).q = f /\ gettoken(s, i).tok = s[q]
         /\ redircmd(c, f, s[q]) \in Commands
         /\ Border(s, p)
         /\ Made(s, p, redircmd(c, f, s[q]), st)
<1> DEFINE d == redircmd(c, f, s[q])
<1>1. q # Len(s) + 1 /\ s[q] \in {"<", ">"} /\ gettoken(s, i).tok = s[q]
  BY Token
<1>2. /\ i \in Nat /\ q \in Starts(s) /\ q \in Nat /\ f \in Nat /\ q < f /\ i <= q
      /\ Border(s, f)
      /\ f \in Starts(s) \/ f = Len(s) + 1
      /\ Done(s, f) = Done(s, i) \cup {q}
      /\ Before(s, f) = q /\ After(s, q) = f
  BY <1>1, Advance
<1>3. f # Len(s) + 1 /\ f \in Starts(s) /\ gettoken(s, f).q = f /\ s[f] = "a"
  <2>1. /\ gettoken(s, f).q = f
        /\ f # Len(s) + 1 => gettoken(s, f).tok = s[f]
        /\ f = Len(s) + 1 => gettoken(s, f).tok = "end"
    BY <1>2, AtToken
  <2> QED BY <1>2, <2>1
<1>4. Border(s, p) /\ Done(s, p) = Done(s, f) \cup {f}
  <2>1. Border(s, f) /\ f = gettoken(s, f).q /\ f # Len(s) + 1
    BY <1>2, <1>3
  <2> QED BY <2>1, Advance
<1>5. IsFile(s, f) /\ ~IsArg(s, f) /\ ~IsFile(s, q) /\ ~IsArg(s, q)
  <2>1. q # 0
    BY <1>2, StartsType
  <2> QED BY <1>1, <1>2, <1>3, <2>1 DEF IsFile, IsArg
<1>6. /\ DoneBars(s, f) = DoneBars(s, i)
      /\ DoneArgs(s, f) = DoneArgs(s, i) /\ DoneFiles(s, f) = DoneFiles(s, i)
  <2>1. s[q] # "|"
    BY <1>1
  <2>2. /\ DoneBars(s, f) = DoneBars(s, i)
        /\ DoneArgs(s, f) = DoneArgs(s, i) \cup (IF IsArg(s, q) THEN {q} ELSE {})
        /\ DoneFiles(s, f) = DoneFiles(s, i) \cup (IF IsFile(s, q) THEN {q} ELSE {})
    BY <1>1, <2>1, SameStage
  <2> QED BY <1>5, <2>2
<1>7. /\ DoneBars(s, p) = DoneBars(s, f)
      /\ DoneArgs(s, p) = DoneArgs(s, f) /\ DoneFiles(s, p) = DoneFiles(s, f) \cup {f}
  <2>1. s[f] # "|" /\ f = gettoken(s, f).q /\ p = gettoken(s, f).ps
    BY <1>3
  <2>2. /\ DoneBars(s, p) = DoneBars(s, f)
        /\ DoneArgs(s, p) = DoneArgs(s, f) \cup (IF IsArg(s, f) THEN {f} ELSE {})
        /\ DoneFiles(s, p) = DoneFiles(s, f) \cup (IF IsFile(s, f) THEN {f} ELSE {})
    <3> QED BY <1>2, <1>3, <2>1, SameStage
  <2> QED BY <1>5, <2>2
<1>8. /\ c.argv \in Seq(Nat) /\ c.redirs \in Seq(Redirs)
      /\ Redir(f, s[q]) \in Redirs
  <2> QED BY <1>2 DEF Commands, Redir, Redirs
<1>9. /\ d.argv = c.argv /\ d.redirs = <<Redir(f, s[q])>> \o c.redirs
      /\ d \in Commands
  <2> DEFINE new == <<Redir(f, s[q])>> \o c.redirs
  <2>1. new \in Seq(Redirs)
    <3> QED BY <1>8
  <2>2. d = [c EXCEPT !.redirs = new]
    BY DEF redircmd
  <2> HIDE DEF d, new
  <2>3. d.argv = c.argv /\ d.redirs = new /\ d \in Commands
    BY <2>1, <2>2 DEF Commands
  <2> QED BY <2>3 DEF new
<1>10. Holds(s, d, DoneArgs(s, p), DoneFiles(s, p))
  <2> DEFINE F == DoneFiles(s, i)
             G == F \cup {f}
             old == [j \in F |-> Redir(j, s[Before(s, j)])]
             item == [j \in G |-> Redir(j, s[Before(s, j)])]
  <2>1. F \in SUBSET Nat /\ IsFiniteSet(F) /\ \A j \in F : j < i
    BY <1>2, WordsType
  <2>2. \A j \in F : j < f
    <3> HIDE DEF F
    <3> QED BY <1>2, <2>1
  <2>3. Lists(Reverse(c.redirs), F, old)
    BY DEF Made, Holds
  <2>4. Lists(Reverse(c.redirs), F, item)
    <3>1. \A j \in F : old[j] = item[j]
      OBVIOUS
    <3> HIDE DEF F, old, item
    <3> QED BY <2>3, <3>1, ListsSame
  <2>5. item[f] = Redir(f, s[q])
    <3> HIDE DEF F
    <3> QED BY <1>2
  <2>6. Lists(Reverse(<<item[f]>> \o c.redirs), G, item)
    <3>1. item[f] \in Redirs
      BY <1>8, <2>5
    <3>2. f \in Nat /\ c.redirs \in Seq(Redirs)
      BY <1>2, <1>8
    <3> HIDE DEF item, F
    <3> QED BY <2>1, <2>2, <2>4, <3>1, <3>2, RedirsGrow
  <2>7. Lists(Reverse(d.redirs), G, item)
    <3> HIDE DEF item, F, d, G
    <3> QED BY <1>9, <2>5, <2>6
  <2>8. DoneFiles(s, p) = G /\ DoneArgs(s, p) = DoneArgs(s, i)
    BY <1>6, <1>7
  <2>9. Lists(c.argv, DoneArgs(s, i), [j \in DoneArgs(s, i) |-> j])
    BY DEF Made, Holds
  <2>10. Holds(s, d, DoneArgs(s, i), G)
    <3> HIDE DEF F, d, G
    <3> QED BY <1>9, <2>7, <2>9 DEF Holds
  <2> HIDE DEF F, d, G
  <2> QED BY <2>8, <2>10
<1>11. Done(s, p) \cap (LacksFile(s) \cup Surplus(s)) = {}
  <2>1. q \notin LacksFile(s) /\ q \notin Surplus(s)
    <3>1. ~(After(s, q) > Len(s))
      BY <1>2, <1>3, StartsType
    <3> QED BY <1>2, <1>3, <1>5, <3>1 DEF LacksFile, Surplus
  <2>2. f \notin LacksFile(s) /\ f \notin Surplus(s)
    <3> QED BY <1>3, <1>5 DEF LacksFile, Surplus
  <2>3. Done(s, i) \cap (LacksFile(s) \cup Surplus(s)) = {}
    BY DEF Made
  <2> QED BY <1>2, <1>4, <2>1, <2>2, <2>3
<1>12. ASSUME NEW j \in Done(s, p), s[j] \in {"<", ">"}
       PROVE  \E l \in Done(s, p) : l > j
  <2>1. j \in Done(s, i) \/ j = q
    <3> QED BY <1>2, <1>3, <1>4, <1>12
  <2>2. CASE j \in Done(s, i)
    <3>1. \E l \in Done(s, i) : l > j
      BY <1>12, <2>2 DEF Made
    <3> QED BY <1>2, <1>4, <3>1
  <2>3. CASE j = q
    <3> QED BY <1>2, <1>4, <2>3
  <2> QED BY <2>1, <2>2, <2>3
<1>13. Made(s, p, d, st)
  <2>1. DoneBars(s, p) = DoneBars(s, i)
    BY <1>6, <1>7
  <2> HIDE DEF d
  <2> QED BY <1>10, <1>11, <1>12, <2>1 DEF Made
<1> HIDE DEF d
<1> QED BY <1>1, <1>3, <1>4, <1>9, <1>13 DEF d

\* A word that parseexec() reads is an argument: the token before it is not a
\* redirection.
LEMMA WordIsArg ==
  ASSUME NEW s \in Line, NEW i, Border(s, i), NEW c, NEW st, Made(s, i, c, st),
         NEW q, q = gettoken(s, i).q, gettoken(s, i).tok = "a"
  PROVE  q # Len(s) + 1 /\ s[q] = "a" /\ IsArg(s, q)
<1>1. q # Len(s) + 1 /\ s[q] = "a"
  BY Token
<1>2. q \in Nat /\ Done(s, q) = Done(s, i)
  BY <1>1, Advance
<1> DEFINE b == Before(s, q)
<1>3. ASSUME b # 0, s[b] \in {"<", ">"} PROVE FALSE
  <2>1. b \in Done(s, q) /\ \A j \in Done(s, q) : j <= b
    BY <1>2, <1>3, BeforeLast
  <2> HIDE DEF b
  <2>2. PICK l \in Done(s, i) : l > b
    BY <1>2, <1>3, <2>1 DEF Made
  <2>3. l <= b /\ l \in Nat /\ b \in Nat
    BY <1>2, <2>1, StartsType DEF Done
  <2> QED BY <2>2, <2>3
<1> QED BY <1>1, <1>3 DEF IsArg, IsFile

\* The number of an argument in its stage.
LEMMA ArgRank ==
  ASSUME NEW s \in Line, NEW i, Border(s, i), NEW c, NEW st, Made(s, i, c, st),
         NEW q, q = gettoken(s, i).q, q # Len(s) + 1, IsArg(s, q)
  PROVE  Rank(q, Args(s, StageOf(s, q))) = Len(c.argv) + 1
<1> DEFINE A == DoneArgs(s, i)
           R == {j \in Args(s, StageOf(s, q)) : j <= q}
<1>1. /\ i \in Nat /\ q \in Starts(s) /\ q \in Nat /\ i <= q
      /\ \A j \in Starts(s) : j >= i => j >= q
  BY Advance
<1>2. StageOf(s, q) = StageOf(s, i)
  BY SameStage
<1>3. Starts(s) \subseteq Nat /\ Args(s, StageOf(s, q)) \subseteq Starts(s)
      /\ q \in Args(s, StageOf(s, q))
  BY <1>1, StartsType DEF Args
<1>4. ASSUME NEW j PROVE j \in R <=> j \in A \cup {q}
  <2>1. CASE j \in Args(s, StageOf(s, q))
    <3>1. j \in Starts(s) /\ j \in Nat
      BY <1>3, <2>1
    <3>2. j <= q <=> j < i \/ j = q
      BY <1>1, <3>1
    <3> QED BY <1>2, <2>1, <3>2 DEF DoneArgs
  <2>2. CASE j \notin Args(s, StageOf(s, q))
    BY <1>2, <1>3, <2>2 DEF DoneArgs
  <2> QED BY <2>1, <2>2
<1>5. R = A \cup {q}
  <2> HIDE DEF R, A
  <2> QED BY <1>4
<1>6. IsFiniteSet(A) /\ \A j \in A : j < i
  BY <1>1, WordsType
<1>7. q \notin A
  <2> HIDE DEF A
  <2> QED BY <1>1, <1>6
<1>8. Cardinality(A \cup {q}) = Cardinality(A) + 1
  <2> HIDE DEF A
  <2> QED BY <1>6, <1>7, FS_AddElement
<1>9. Len(c.argv) = Cardinality(A)
  BY DEF Made, Holds, Lists
<1>10. Rank(q, Args(s, StageOf(s, q))) = Cardinality(R)
  BY DEF Rank
<1> HIDE DEF R, A
<1> QED BY <1>5, <1>8, <1>9, <1>10

\* An argument for which argv has no room is the first error of the line.
LEMMA ArgFails ==
  ASSUME NEW s \in Line, NEW i, Border(s, i), NEW c, NEW st, Made(s, i, c, st),
         gettoken(s, i).tok = "a", TooMany(Len(c.argv) + 1)
  PROVE  Verdict(s) = "too many args"
<1> DEFINE q == gettoken(s, i).q
<1>1. q # Len(s) + 1 /\ IsArg(s, q)
  BY WordIsArg
<1>2. Rank(q, Args(s, StageOf(s, q))) = Len(c.argv) + 1
  BY <1>1, ArgRank
<1>3. q \in Starts(s)
  BY <1>1, Advance
<1>4. q \in Surplus(s)
  <2> HIDE DEF q
  <2> QED BY <1>1, <1>2, <1>3 DEF Surplus, TooMany
<1> QED BY <1>1, <1>4, FirstError

\* parseexec() reads an argument.
LEMMA ArgStep ==
  ASSUME NEW s \in Line, NEW i, Border(s, i), NEW c \in Commands, NEW st,
         Made(s, i, c, st),
         NEW q, q = gettoken(s, i).q, NEW p, p = gettoken(s, i).ps,
         gettoken(s, i).tok = "a", ~TooMany(Len(c.argv) + 1),
         NEW d, d = [c EXCEPT !.argv = Append(@, q)]
  PROVE  d \in Commands /\ Border(s, p) /\ Made(s, p, d, st)
<1>1. q # Len(s) + 1 /\ s[q] = "a" /\ IsArg(s, q)
  <2> QED BY WordIsArg
<1>2. /\ i \in Nat /\ q \in Starts(s) /\ q \in Nat /\ i <= q /\ Border(s, p)
      /\ Done(s, p) = Done(s, i) \cup {q}
  <2> QED BY <1>1, Advance
<1>3. /\ DoneBars(s, p) = DoneBars(s, i)
      /\ DoneArgs(s, p) = DoneArgs(s, i) \cup {q} /\ DoneFiles(s, p) = DoneFiles(s, i)
  <2>1. s[q] # "|" /\ ~IsFile(s, q)
    BY <1>1 DEF IsArg
  <2>2. /\ DoneBars(s, p) = DoneBars(s, i)
        /\ DoneArgs(s, p) = DoneArgs(s, i) \cup (IF IsArg(s, q) THEN {q} ELSE {})
        /\ DoneFiles(s, p) = DoneFiles(s, i) \cup (IF IsFile(s, q) THEN {q} ELSE {})
    BY <1>1, <2>1, SameStage
  <2> QED BY <1>1, <2>1, <2>2
<1>4. c.argv \in Seq(Nat) /\ Append(c.argv, q) \in Seq(Nat)
  <2>1. c.argv \in Seq(Nat)
    BY DEF Commands
  <2> QED BY <1>2, <2>1, AppendProperties
<1>5. d \in Commands /\ d.argv = Append(c.argv, q) /\ d.redirs = c.redirs
  <2> DEFINE new == Append(c.argv, q)
  <2>1. d = [c EXCEPT !.argv = new] /\ new \in Seq(Nat)
    BY <1>4
  <2> HIDE DEF new
  <2>2. d \in Commands /\ d.argv = new /\ d.redirs = c.redirs
    BY <2>1 DEF Commands
  <2> QED BY <2>2 DEF new
<1>6. Holds(s, d, DoneArgs(s, p), DoneFiles(s, p))
  <2> DEFINE A == DoneArgs(s, i)
  <2>1. A \in SUBSET Nat /\ IsFiniteSet(A) /\ \A j \in A : j < i
    BY <1>2, WordsType
  <2>2. Lists(c.argv, A, [j \in A |-> j])
    BY DEF Made, Holds
  <2>3. Lists(Append(c.argv, q), A \cup {q}, [j \in A \cup {q} |-> j])
    <3> HIDE DEF A
    <3>1. \A j \in A : j < q
      BY <1>2, <2>1
    <3> QED BY <1>2, <1>4, <2>1, <2>2, <3>1, ArgvGrows
  <2>4. Lists(Reverse(c.redirs), DoneFiles(s, i),
              [j \in DoneFiles(s, i) |-> Redir(j, s[Before(s, j)])])
    BY DEF Made, Holds
  <2> QED BY <1>3, <1>5, <2>3, <2>4 DEF Holds
<1>7. Done(s, p) \cap (LacksFile(s) \cup Surplus(s)) = {}
  <2>1. q \notin LacksFile(s)
    BY <1>1 DEF LacksFile
  <2>2. Rank(q, Args(s, StageOf(s, q))) = Len(c.argv) + 1
    BY <1>1, ArgRank
  <2>3. q \notin Surplus(s)
    BY <2>2 DEF Surplus, TooMany
  <2>4. Done(s, i) \cap (LacksFile(s) \cup Surplus(s)) = {}
    BY DEF Made
  <2> QED BY <1>2, <2>1, <2>3, <2>4
<1>8. ASSUME NEW j \in Done(s, p), s[j] \in {"<", ">"}
      PROVE  \E l \in Done(s, p) : l > j
  <2>1. j \in Done(s, i)
    BY <1>1, <1>2, <1>8
  <2>2. \E l \in Done(s, i) : l > j
    BY <1>8, <2>1 DEF Made
  <2> QED BY <1>2, <2>2
<1>9. Made(s, p, d, st)
  BY <1>3, <1>6, <1>7, <1>8 DEF Made
<1> QED BY <1>2, <1>5, <1>9

\* parsepipe() goes on to the next stage.
LEMMA PipeStep ==
  ASSUME NEW s \in Line, NEW i, Border(s, i), NEW c \in Commands,
         NEW st \in Seq(Commands), Made(s, i, c, st),
         NEW p, p = gettoken(s, i).ps, gettoken(s, i).tok = "|"
  PROVE  Border(s, p) /\ Made(s, p, execcmd, Append(st, c))
<1> DEFINE q == gettoken(s, i).q
           k == Len(st)
           new == Append(st, c)
<1>1. q # Len(s) + 1 /\ s[q] = "|"
  BY Token
<1>2. /\ i \in Nat /\ q \in Starts(s) /\ q \in Nat /\ i <= q /\ Border(s, p)
      /\ p \in Nat /\ q < p
      /\ Done(s, p) = Done(s, i) \cup {q}
      /\ \A j \in Starts(s) : j >= i => j >= q
  BY <1>1, Advance
<1> HIDE DEF q
<1>3. /\ k \in Nat /\ Len(new) = k + 1 /\ DOMAIN new = 1..(k + 1)
      /\ DOMAIN st = 1..k
      /\ new[k + 1] = c /\ \A n \in 1..k : new[n] = st[n]
  BY AppendProperties, LenProperties
<1> HIDE DEF k, new
<1>4. Cardinality(DoneBars(s, i)) = k /\ StageOf(s, i) = k + 1
  BY StageIs DEF Made, k
<1>5. DoneBars(s, p) = DoneBars(s, i) \cup {q} /\ q \notin DoneBars(s, i)
  <2>1. ~(q < i)
    BY <1>2
  <2> QED BY <1>1, <1>2, <2>1, BarsDone DEF Done
<1>6. Cardinality(DoneBars(s, p)) = k + 1 /\ StageOf(s, p) = k + 2
  <2>1. IsFiniteSet(DoneBars(s, i))
    <3>1. DoneBars(s, i) \subseteq Starts(s)
      BY DEF DoneBars, Bars
    <3> QED BY <3>1, TokensFinite
  <2>2. Cardinality(DoneBars(s, p)) = Cardinality(DoneBars(s, i)) + 1
    BY <1>5, <2>1, FS_AddElement
  <2>3. StageOf(s, p) = Cardinality(DoneBars(s, p)) + 1
    BY StageIs
  <2> QED BY <1>3, <1>4, <2>2, <2>3
<1>7. ASSUME NEW j \in Starts(s), s[j] = "a"
      PROVE  /\ StageOf(s, j) = k + 1 => j < i
             /\ j < p => StageOf(s, j) # k + 2
  <2>1. j \in Nat /\ j # q
    BY <1>1, <1>7, StartsType
  <2>2. CASE j < i
    <3>1. StageOf(s, j) \in Nat /\ StageOf(s, j) <= StageOf(s, i)
      BY <1>2, <2>1, <2>2, StageGrows
    <3> QED BY <1>3, <1>4, <2>2, <3>1
  <2>3. CASE ~(j < i)
    <3>1. q < j /\ q \in Bars(s)
      BY <1>1, <1>2, <2>1, <2>3 DEF Bars
    <3>2. StageOf(s, i) < StageOf(s, j)
      BY <1>2, <2>1, <2>3, <3>1, StageGrows
    <3>3. ~(j < p)
      BY <1>2, <2>1, <2>3 DEF Done
    <3> QED BY <1>3, <1>4, <2>3, <3>2, <3>3
  <2> QED BY <2>2, <2>3
<1>8. ASSUME NEW j \in Starts(s), IsArg(s, j) \/ IsFile(s, j) PROVE s[j] = "a"
  BY <1>8 DEF IsArg, IsFile
<1>9. Args(s, k + 1) = DoneArgs(s, i) /\ Files(s, k + 1) = DoneFiles(s, i)
  BY <1>4, <1>7, <1>8 DEF Args, Files, DoneArgs, DoneFiles
<1>10. DoneArgs(s, p) = {} /\ DoneFiles(s, p) = {}
  BY <1>6, <1>7, <1>8 DEF Args, Files, DoneArgs, DoneFiles
<1>11. ASSUME NEW n \in DOMAIN new
       PROVE  Holds(s, new[n], Args(s, n), Files(s, n))
  <2>1. CASE n = k + 1
    BY <1>3, <1>9, <2>1 DEF Made
  <2>2. CASE n # k + 1
    <3>1. n \in 1..k
      BY <1>3, <2>2
    <3> QED BY <1>3, <3>1 DEF Made
  <2> QED BY <2>1, <2>2
<1>12. Done(s, p) \cap (LacksFile(s) \cup Surplus(s)) = {}
  <2>1. q \notin LacksFile(s) /\ q \notin Surplus(s)
    BY <1>1 DEF LacksFile, Surplus, IsArg
  <2>2. Done(s, i) \cap (LacksFile(s) \cup Surplus(s)) = {}
    BY DEF Made
  <2> QED BY <1>2, <2>1, <2>2
<1>13. ASSUME NEW j \in Done(s, p), s[j] \in {"<", ">"}
       PROVE  \E l \in Done(s, p) : l > j
  <2>1. j \in Done(s, i)
    BY <1>1, <1>2, <1>13
  <2>2. \E l \in Done(s, i) : l > j
    BY <1>13, <2>1 DEF Made
  <2> QED BY <1>2, <2>2
<1>14. Holds(s, execcmd, {}, {})
  BY EmptyCommand
<1>15. Made(s, p, execcmd, new)
  BY <1>3, <1>6, <1>10, <1>11, <1>12, <1>13, <1>14 DEF Made
<1> QED BY <1>2, <1>15 DEF new

\* At the end of the line the last command is complete.
LEMMA EndStep ==
  ASSUME NEW s \in Line, NEW i, Border(s, i), NEW c \in Commands,
         NEW st \in Seq(Commands), Made(s, i, c, st),
         gettoken(s, i).tok = "end"
  PROVE  /\ SkipSpace(s, i) = Len(s) + 1 /\ Verdict(s) = "ok"
         /\ Len(Append(st, c)) = Cardinality(Bars(s)) + 1
         /\ \A n \in DOMAIN Append(st, c) :
              Holds(s, Append(st, c)[n], Args(s, n), Files(s, n))
<1> DEFINE k == Len(st)
           new == Append(st, c)
<1>1. SkipSpace(s, i) = Len(s) + 1 /\ \A j \in Starts(s) : j >= i => j >= Len(s) + 1
  <2> DEFINE q == gettoken(s, i).q
  <2>1. /\ q = SkipSpace(s, i)
        /\ \A j \in Starts(s) : j >= i => j >= q
        /\ q # Len(s) + 1 => q \in Starts(s) /\ gettoken(s, i).tok = s[q]
    BY Token
  <2>2. q = Len(s) + 1
    BY <2>1, StartsType
  <2> QED BY <2>1, <2>2
<1>2. Done(s, i) = Starts(s)
  <2>1. i \in Nat /\ Len(s) \in Nat /\ Starts(s) \subseteq 1..Len(s)
    BY StartsType DEF Border
  <2> QED BY <1>1, <2>1 DEF Done
<1>3. /\ k \in Nat /\ Len(new) = k + 1 /\ DOMAIN new = 1..(k + 1)
      /\ DOMAIN st = 1..k
      /\ new[k + 1] = c /\ \A n \in 1..k : new[n] = st[n]
  BY AppendProperties, LenProperties
<1> HIDE DEF k, new
<1>4. DoneBars(s, i) = Bars(s)
  BY <1>2, BarsDone DEF Bars
<1>5. Cardinality(Bars(s)) = k /\ StageOf(s, i) = k + 1
  BY <1>4, StageIs DEF Made, k
<1>6. Args(s, k + 1) = DoneArgs(s, i) /\ Files(s, k + 1) = DoneFiles(s, i)
  BY <1>2, <1>5, WordsDone DEF Args, Files
<1>7. ASSUME NEW n \in DOMAIN new
      PROVE  Holds(s, new[n], Args(s, n), Files(s, n))
  <2>1. CASE n = k + 1
    BY <1>3, <1>6, <2>1 DEF Made
  <2>2. CASE n # k + 1
    <3>1. n \in 1..k
      BY <1>3, <2>2
    <3> QED BY <1>3, <3>1 DEF Made
  <2> QED BY <2>1, <2>2
<1>8. Verdict(s) = "ok"
  <2>1. LacksFile(s) \cup Surplus(s) = {}
    BY <1>2, ErrorsType DEF Made
  <2> QED BY <2>1, NoError
<1> QED BY <1>1, <1>3, <1>5, <1>7, <1>8 DEF new
-----------------------------------------------------------------------------
(***************************************************************************)
(* The theorems.                                                           *)
(***************************************************************************)

\* The values that the invariant speaks of after a step.
LEMMA Primed ==
  /\ Made(buf, ps, cmd, stages)' <=> Made(buf', ps', cmd', stages')
  /\ Border(buf, ps)' <=> Border(buf', ps')
  /\ peek({"<", ">"})' <=> gettoken(buf', ps').tok \in {"<", ">"}
  /\ ParserCorrect' <=>
       /\ msg' # "none" => msg' = Verdict(buf')
       /\ msg' = "ok" =>
            /\ Len(stages') = Cardinality(Bars(buf')) + 1
            /\ \A n \in DOMAIN stages' :
                 Holds(buf', stages'[n], Args(buf', n), Files(buf', n))
<1>1. Made(buf, ps, cmd, stages)' <=> Made(buf', ps', cmd', stages')
  BY DEF Made, DoneBars, Bars, Starts, Symbols, Holds, Lists, Rank, Args, Files,
         StageOf, IsArg, IsFile, Before, Redir, Reverse, DoneArgs, DoneFiles, Done,
         LacksFile, Surplus, After, Min, Max
<1>2. Border(buf, ps)' <=> Border(buf', ps')
  BY DEF Border, Starts, Symbols
<1>3. peek({"<", ">"})' <=> gettoken(buf', ps').tok \in {"<", ">"}
  BY DEF peek, gettoken, SkipSpace, SkipWhile, Symbols, Min
<1>4. ParserCorrect' <=>
       /\ msg' # "none" => msg' = Verdict(buf')
       /\ msg' = "ok" =>
            /\ Len(stages') = Cardinality(Bars(buf')) + 1
            /\ \A n \in DOMAIN stages' :
                 Holds(buf', stages'[n], Args(buf', n), Files(buf', n))
  BY DEF ParserCorrect, Verdict, Bars, Starts, Symbols, Holds, Lists, Rank, Args,
         Files, StageOf, IsArg, IsFile, Before, Redir, Reverse, LacksFile, Surplus,
         After, Min, Max
<1> QED BY <1>1, <1>2, <1>3, <1>4

\* Nothing has been read of the line with which parsecmd() is called.
LEMMA ParseInit ==
  ASSUME ParserInit
  PROVE  ParseInv /\ ParserCorrect
<1>1. buf \in Line
  <2>1. PICK n \in 0..LINELEN : buf \in [1..n -> Characters]
    BY DEF ParserInit, BoundedSeq, SeqOf
  <2>2. n \in Nat
    BY ParserAssumption
  <2> QED BY <2>1, <2>2 DEF Line
<1>2. Len(buf) \in Nat /\ Starts(buf) \subseteq 1..Len(buf) /\ DOMAIN buf = 1..Len(buf)
  BY <1>1, StartsType, LenProperties DEF Line
<1>3. Border(buf, 1)
  BY <1>2 DEF Border, Starts
<1>4. Done(buf, 1) = {}
  BY <1>2 DEF Done
<1>5. /\ DoneBars(buf, 1) = {} /\ DoneArgs(buf, 1) = {} /\ DoneFiles(buf, 1) = {}
      /\ Cardinality({}) = 0
  BY <1>4, BarsDone, WordsDone, FS_EmptySet
<1>6. execcmd \in Commands /\ Holds(buf, execcmd, {}, {})
  BY EmptyCommand
<1>7. Made(buf, 1, execcmd, <<>>)
  BY <1>4, <1>5, <1>6 DEF Made
<1> QED BY <1>1, <1>3, <1>6, <1>7 DEF ParserInit, ParseInv, ParserType, ParserCorrect

\* Each step keeps what has been built, or ends with the verdict on the line.
LEMMA ParseStep ==
  ASSUME ParseInv, ParserCorrect, [ParserNext]_parserVars
  PROVE  ParseInv' /\ ParserCorrect'
<1> DEFINE t == gettoken(buf, ps)
<1>0. SUFFICES /\ buf' \in Line /\ Border(buf', ps')
               /\ cmd' \in Commands /\ stages' \in Seq(Commands)
               /\ parser_pc' \in {"parseredirs", "parseexec", "exit"}
               /\ msg' # "none" <=> parser_pc' = "exit"
               /\ msg' = "none" => Made(buf', ps', cmd', stages')
               /\ parser_pc' = "parseexec" => gettoken(buf', ps').tok \notin {"<", ">"}
               /\ msg' # "none" => msg' = Verdict(buf')
               /\ msg' = "ok" =>
                    /\ Len(stages') = Cardinality(Bars(buf')) + 1
                    /\ \A n \in DOMAIN stages' :
                         Holds(buf', stages'[n], Args(buf', n), Files(buf', n))
  <2>1. ParserType' <=>
          /\ buf' \in Line /\ Border(buf', ps')
          /\ cmd' \in Commands /\ stages' \in Seq(Commands)
          /\ parser_pc' \in {"parseredirs", "parseexec", "exit"}
          /\ msg' # "none" <=> parser_pc' = "exit"
    BY Primed DEF ParserType, Commands, Redirs, Line, Characters, Symbols
  <2> QED BY <2>1, Primed DEF ParseInv
<1>1. /\ buf \in Line /\ Border(buf, ps)
      /\ cmd \in Commands /\ stages \in Seq(Commands)
      /\ msg # "none" <=> parser_pc = "exit"
      /\ msg = "none" => Made(buf, ps, cmd, stages)
      /\ parser_pc = "parseexec" => t.tok \notin {"<", ">"}
  BY DEF ParseInv, ParserType, peek
<1>2. CASE parseredirs /\ gettoken(buf, t.ps).tok # "a"
  <2>1. /\ msg = "none" /\ t.tok \in {"<", ">"}
        /\ buf' = buf /\ ps' = ps /\ cmd' = cmd /\ stages' = stages
        /\ msg' = "missing file for redirection" /\ parser_pc' = "exit"
    BY <1>1, <1>2 DEF parseredirs, peek, Fail
  <2>2. Verdict(buf) = "missing file for redirection"
    BY <1>1, <1>2, <2>1, RedirFails
  <2> HIDE DEF t
  <2> QED BY <1>1, <2>1, <2>2
<1>3. CASE parseredirs /\ gettoken(buf, t.ps).tok = "a"
  <2> DEFINE q == t.q
             f == t.ps
             p == gettoken(buf, f).ps
  <2>1. /\ msg = "none" /\ parser_pc = "parseredirs" /\ t.tok \in {"<", ">"}
        /\ buf' = buf /\ ps' = p /\ cmd' = redircmd(cmd, gettoken(buf, f).q, t.tok)
        /\ stages' = stages /\ msg' = msg /\ parser_pc' = parser_pc
    BY <1>1, <1>3 DEF parseredirs, peek
  <2>2. /\ gettoken(buf, f).q = f /\ t.tok = buf[q]
        /\ redircmd(cmd, f, buf[q]) \in Commands
        /\ Border(buf, p)
        /\ Made(buf, p, redircmd(cmd, f, buf[q]), stages)
    BY <1>1, <1>3, <2>1, RedirStep
  <2> HIDE DEF p, q, f, t
  <2> QED BY <1>1, <2>1, <2>2
<1>4. CASE RedirsEnd
  <2> DEFINE q == SkipSpace(buf, ps)
  <2>1. /\ msg = "none" /\ t.tok \notin {"<", ">"}
        /\ buf' = buf /\ ps' = q /\ cmd' = cmd /\ stages' = stages
        /\ msg' = msg /\ parser_pc' = "parseexec"
    BY <1>1, <1>4 DEF RedirsEnd, peek
  <2>2. /\ t.q = q
        /\ q \in Starts(buf) \/ q = Len(buf) + 1
        /\ q \in ps..(Len(buf) + 1)
        /\ \A j \in Starts(buf) : j >= ps => j >= q
        /\ q # Len(buf) + 1 => t.tok = buf[q]
    BY <1>1, Token
  <2> HIDE DEF q, t
  <2>3. Border(buf, q) /\ gettoken(buf, q).tok \notin {"<", ">"}
    <3>1. Border(buf, q)
      BY <1>1, <2>2, StartBorder
    <3>2. /\ q # Len(buf) + 1 => gettoken(buf, q).tok = buf[q]
          /\ q = Len(buf) + 1 => gettoken(buf, q).tok = "end"
      BY <1>1, <2>2, AtToken
    <3> QED BY <2>1, <2>2, <3>1, <3>2
  <2>4. Done(buf, q) = Done(buf, ps)
    <3>1. ps \in Nat /\ Len(buf) \in Nat /\ Starts(buf) \subseteq Nat
      BY <1>1, StartsType DEF Border
    <3>2. ASSUME NEW j \in Starts(buf) PROVE j < q <=> j < ps
      <4>1. j \in Nat /\ q \in Nat /\ ps <= q
        BY <2>2, <3>1
      <4> QED BY <2>2, <3>1, <4>1
    <3> QED BY <3>2 DEF Done
  <2>5. Made(buf, q, cmd, stages)
    BY <1>1, <2>1, <2>4, MadeSame
  <2> QED BY <1>1, <2>1, <2>3, <2>5
<1>5. CASE parseexec /\ t.tok # "a"
  <2>1. t.tok \notin {"<", ">", "|", "a", "end"}
    BY <1>1, <1>5 DEF parseexec, peek
  <2>2. t.tok = "end" \/ (t.q \in Starts(buf) /\ t.tok = buf[t.q])
    <3>1. /\ t.q = Len(buf) + 1 => t.tok = "end"
          /\ t.q # Len(buf) + 1 => t.q \in Starts(buf) /\ t.tok = buf[t.q]
      BY <1>1, Token
    <3> HIDE DEF t
    <3> QED BY <3>1
  <2> HIDE DEF t
  <2> QED BY <1>1, <2>1, <2>2, StartsType
<1>6. CASE parseexec /\ t.tok = "a" /\ TooMany(Len(cmd.argv) + 1)
  <2>1. /\ msg = "none" /\ parser_pc = "parseexec"
        /\ buf' = buf /\ ps' = ps /\ cmd' = cmd /\ stages' = stages
        /\ msg' = "too many args" /\ parser_pc' = "exit"
    BY <1>1, <1>6 DEF parseexec, Fail
  <2>2. Verdict(buf) = "too many args"
    BY <1>1, <1>6, <2>1, ArgFails
  <2> HIDE DEF t
  <2> QED BY <1>1, <2>1, <2>2
<1>7. CASE parseexec /\ t.tok = "a" /\ ~TooMany(Len(cmd.argv) + 1)
  <2> DEFINE q == t.q
             p == t.ps
             d == [cmd EXCEPT !.argv = Append(@, q)]
  <2>1. /\ msg = "none" /\ parser_pc = "parseexec"
        /\ buf' = buf /\ ps' = p /\ cmd' = d
        /\ stages' = stages /\ msg' = msg /\ parser_pc' = "parseredirs"
    BY <1>1, <1>7 DEF parseexec
  <2>2. d \in Commands /\ Border(buf, p) /\ Made(buf, p, d, stages)
    BY <1>1, <1>7, <2>1, ArgStep
  <2> HIDE DEF p, q, d, t
  <2> QED BY <1>1, <2>1, <2>2
<1>8. CASE parsepipe
  <2> DEFINE p == t.ps
             new == Append(stages, cmd)
  <2>1. /\ msg = "none" /\ t.tok = "|"
        /\ buf' = buf /\ ps' = p /\ cmd' = execcmd
        /\ stages' = new /\ msg' = msg /\ parser_pc' = "parseredirs"
    BY <1>1, <1>8 DEF parsepipe, pipecmd, peek
  <2>2. Border(buf, p) /\ Made(buf, p, execcmd, new)
    BY <1>1, <2>1, PipeStep
  <2>3. new \in Seq(Commands) /\ execcmd \in Commands
    BY <1>1, AppendProperties, EmptyCommand
  <2> HIDE DEF p, new, t
  <2> QED BY <1>1, <2>1, <2>2, <2>3
<1>9. CASE parsecmd
  <2> DEFINE q == SkipSpace(buf, ps)
             new == Append(stages, cmd)
  <2>1. /\ msg = "none" /\ t.tok = "end"
        /\ buf' = buf /\ ps' = q /\ cmd' = cmd
        /\ stages' = new /\ parser_pc' = "exit"
        /\ msg' = IF q # Len(buf) + 1 THEN "leftovers" ELSE "ok"
    BY <1>1, <1>9 DEF parsecmd, peek
  <2>2. /\ q = Len(buf) + 1 /\ Verdict(buf) = "ok"
        /\ Len(new) = Cardinality(Bars(buf)) + 1
        /\ \A n \in DOMAIN new : Holds(buf, new[n], Args(buf, n), Files(buf, n))
    BY <1>1, <2>1, EndStep
  <2>3. new \in Seq(Commands) /\ Border(buf, q)
    BY <1>1, <2>2, AppendProperties, StartBorder
  <2> HIDE DEF q, new, t
  <2> QED BY <1>1, <2>1, <2>2, <2>3
<1>10. CASE Parsed \/ UNCHANGED parserVars
  <2>1. UNCHANGED <<buf, ps, cmd, stages, parser_pc, msg>>
    BY <1>10 DEF Parsed, parserVars
  <2>2. parser_pc \in {"parseredirs", "parseexec", "exit"}
    BY DEF ParseInv, ParserType
  <2> QED BY <1>1, <2>1, <2>2 DEF ParserCorrect
<1> HIDE DEF t
<1> QED BY <1>2, <1>3, <1>4, <1>5, <1>6, <1>7, <1>8, <1>9, <1>10 DEF ParserNext

\* The parser of the shell builds the stages of the line that the language
\* describes, with their arguments and their redirections in order, and reports
\* the first error of every other line.
THEOREM ParserIsCorrect == ParserSpec => []ParserCorrect
<1>1. ParserInit => ParseInv /\ ParserCorrect
  BY ParseInit
<1>2. ParseInv /\ ParserCorrect /\ [ParserNext]_parserVars => ParseInv' /\ ParserCorrect'
  BY ParseStep
<1> QED BY <1>1, <1>2, PTL DEF ParserSpec

\* A step adds one argument at most, if there is room for it and for the null
\* pointer after it.
LEMMA ArgvStep ==
  ASSUME ParseInv, ArgvFits, [ParserNext]_parserVars
  PROVE  ArgvFits'
<1>1. /\ cmd \in Commands /\ stages \in Seq(Commands)
      /\ cmd.argv \in Seq(Nat) /\ Len(cmd.argv) \in Nat
  BY LenProperties DEF ParseInv, ParserType, Commands
<1>2. /\ Len(cmd.argv) <= MAXARGS - 1
      /\ \A n \in DOMAIN stages : Len(stages[n].argv) <= MAXARGS - 1
  BY DEF ArgvFits
<1>3. SUFFICES /\ Len(cmd'.argv) <= MAXARGS - 1
               /\ \A n \in DOMAIN stages' : Len(stages'[n].argv) <= MAXARGS - 1
  BY DEF ArgvFits
<1>4. CASE cmd' = cmd /\ stages' = stages
  BY <1>2, <1>4
<1>5. CASE stages' = Append(stages, cmd) /\ cmd' \in {cmd, execcmd}
  <2> DEFINE k == Len(stages)
             new == Append(stages, cmd)
  <2>1. /\ k \in Nat /\ DOMAIN new = 1..(k + 1) /\ DOMAIN stages = 1..k
        /\ new[k + 1] = cmd /\ \A n \in 1..k : new[n] = stages[n]
    BY <1>1, AppendProperties, LenProperties
  <2>2. Len(execcmd.argv) <= MAXARGS - 1
    BY ParserAssumption DEF execcmd
  <2> HIDE DEF k, new
  <2>3. ASSUME NEW n \in DOMAIN new PROVE Len(new[n].argv) <= MAXARGS - 1
    <3>1. n = k + 1 \/ n \in 1..k
      BY <2>1
    <3> QED BY <1>2, <2>1, <3>1
  <2>4. Len(cmd'.argv) <= MAXARGS - 1
    BY <1>2, <1>5, <2>2
  <2> QED BY <1>5, <2>3, <2>4 DEF new
<1>6. ASSUME stages' = stages, NEW q, cmd' = [cmd EXCEPT !.argv = Append(@, q)],
             ~TooMany(Len(cmd.argv) + 1)
      PROVE  Len(cmd'.argv) <= MAXARGS - 1
  <2>1. cmd'.argv = Append(cmd.argv, q)
    BY <1>1, <1>6 DEF Commands
  <2>2. Len(cmd'.argv) = Len(cmd.argv) + 1
    BY <1>1, <2>1
  <2> QED BY <1>1, <1>6, <2>2, ParserAssumption DEF TooMany
<1>7. ASSUME stages' = stages, NEW f, NEW type, cmd' = redircmd(cmd, f, type)
      PROVE  Len(cmd'.argv) <= MAXARGS - 1
  <2>1. cmd'.argv = cmd.argv
    BY <1>1, <1>7 DEF Commands, redircmd
  <2> QED BY <1>2, <2>1
<1>8. CASE parseredirs
  BY <1>2, <1>4, <1>7, <1>8 DEF parseredirs, Fail
<1>9. CASE RedirsEnd
  BY <1>4, <1>9 DEF RedirsEnd
<1>10. CASE parseexec
  BY <1>2, <1>4, <1>6, <1>10 DEF parseexec, Fail
<1>11. CASE parsepipe
  BY <1>5, <1>11 DEF parsepipe, pipecmd
<1>12. CASE parsecmd
  BY <1>5, <1>12 DEF parsecmd
<1>13. CASE Parsed \/ UNCHANGED parserVars
  BY <1>4, <1>13 DEF Parsed, parserVars
<1> QED BY <1>8, <1>9, <1>10, <1>11, <1>12, <1>13 DEF ParserNext

\* parseexec() always has room for the null pointer behind the last argument,
\* whatever the line and whatever MAXARGS is.
THEOREM ArgvAlwaysFits == ParserSpec => []ArgvFits
<1>1. ParserInit => ArgvFits
  BY ParserAssumption DEF ParserInit, ArgvFits, execcmd
<1>2. ParserInit => ParseInv /\ ParserCorrect
  BY ParseInit
<1>3. ParseInv /\ ParserCorrect /\ [ParserNext]_parserVars => ParseInv' /\ ParserCorrect'
  BY ParseStep
<1>4. ParseInv /\ ArgvFits /\ [ParserNext]_parserVars => ArgvFits'
  BY ArgvStep
<1> QED BY <1>1, <1>2, <1>3, <1>4, PTL DEF ParserSpec
=============================================================================
