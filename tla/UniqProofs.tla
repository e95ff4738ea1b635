----------------------------- MODULE UniqProofs -----------------------------
(***************************************************************************)
(* uniq prints what the runs of equal lines of its file call for, in both  *)
(* modes, and the counts of -c add up whatever the comparison returns: for *)
(* every file and every alignment of the copies on the stack.              *)
(***************************************************************************)
EXTENDS Uniq, OrderProofs

Characters == Letters \cup {NL}
Items      == [n : Nat, line : Seq(Characters)]

\* The lines read so far, and those of them that are in the run from m on.
LinesRead  == {j \in FirstBytes : j < offset}
Current(m) == {j \in FirstBytes : m <= j /\ j < offset}

\* What is printed for the run that starts at i, and for the second line at j.
RunItem(i)    == [n    |-> IF show_count = 1 THEN Cardinality(RunOf(i)) ELSE 0,
                  line |-> LineAt(i)]
SecondItem(j) == [n |-> 0, line |-> LineAt(j)]

\* The items of all runs and of all second lines.
AllRuns    == [i \in RunStarts |-> RunItem(i)]
AllSeconds == [j \in SecondLines |-> SecondItem(j)]

\* The reader is always in front of a line or at the end of the file.
ReaderInv ==
  /\ text \in Seq(Characters)
  /\ offset \in 1..(Len(text) + 1)
  /\ offset <= Len(text) => offset \in FirstBytes
  /\ uniq_pc \in {"uniq", "loop", "empty", "done"}
  /\ output \in Seq(Items)
  /\ last_line \in Seq(Characters) /\ dupe_count \in Nat
  /\ dupe_found \in BOOLEAN
  /\ show_count \in {0, 1} /\ duplicate \in {0, 1} /\ ignore \in {0, 1}
  /\ uniq_pc = "uniq" =>
       offset = 1 /\ output = <<>> /\ dupe_count = 1 /\ dupe_found = FALSE
  /\ uniq_pc \in {"loop", "done"} => 1 \in LinesRead

\* The run that starts at m is being read: all of its lines so far are equal to
\* last_line, and p is the latest of them.
InRun(m, p) ==
  /\ m \in RunStarts /\ m < offset
  /\ \A r \in RunStarts : r <= m \/ r >= offset
  /\ \A j \in Current(m) : LineAt(j) = last_line
  /\ p \in LinesRead /\ \A j \in LinesRead : j <= p

\* Without -d the runs before this one have been printed, and this one has been
\* counted.
RunsSoFar(m) ==
  /\ dupe_count = Cardinality(Current(m))
  /\ Lists(output, {r \in RunStarts : r < m}, AllRuns)

\* With -d the second lines read so far have been printed, and dupe_found tells
\* an even number of lines of the run from an odd one.
SecondsSoFar(m) ==
  /\ dupe_found <=> Cardinality(Current(m)) % 2 = 0
  /\ Lists(output, {j \in SecondLines : j < offset}, AllSeconds)

\* The inductive invariant of the loops, where the comparison is defined.
RunInv ==
  uniq_pc = "loop" /\ AllDefined =>
    \E m, p \in FirstBytes :
      /\ InRun(m, p)
      /\ duplicate = 0 => RunsSoFar(m)
      /\ duplicate = 1 => SecondsSoFar(m)
-----------------------------------------------------------------------------
(***************************************************************************)
(* Lines.                                                                  *)
(***************************************************************************)

\* A line ends at its newline or at the end of the file, and not before.
LEMMA LineEnds ==
  ASSUME text \in Seq(Characters), NEW i \in 1..(Len(text) + 1)
  PROVE  /\ LineEnd(i) \in i..(Len(text) + 1)
         /\ LineEnd(i) = Len(text) + 1 \/ text[LineEnd(i)] = NL
         /\ \A j \in i..(LineEnd(i) - 1) : text[j] # NL
<1> DEFINE S == {j \in i..(Len(text) + 1) : j = Len(text) + 1 \/ text[j] = NL}
<1>1. Len(text) \in Nat
  BY LenProperties
<1>2. S \in SUBSET Nat /\ Len(text) + 1 \in S
  BY <1>1
<1>3. Min(S) \in S /\ \A x \in S : Min(S) <= x
  <2> HIDE DEF S
  <2> QED BY <1>2, Least
<1>4. LineEnd(i) = Min(S)
  BY DEF LineEnd
<1>5. LineEnd(i) \in S /\ \A x \in S : LineEnd(i) <= x
  BY <1>3, <1>4
<1>6. ASSUME NEW j \in i..(LineEnd(i) - 1) PROVE text[j] # NL
  <2>1. LineEnd(i) \in i..(Len(text) + 1)
    BY <1>5
  <2>2. j \in i..(Len(text) + 1) /\ ~(LineEnd(i) <= j)
    BY <1>1, <2>1
  <2>3. j \notin S
    BY <1>5, <2>2
  <2> QED BY <2>2, <2>3
<1> QED BY <1>5, <1>6

\* The first bytes are positions in the file.
LEMMA FirstBytesType ==
  ASSUME text \in Seq(Characters)
  PROVE  /\ FirstBytes \subseteq 1..Len(text) /\ FirstBytes \subseteq Nat
         /\ \A i \in FirstBytes : i = 1 \/ text[i - 1] = NL
         /\ Len(text) \in Nat
         /\ \A i \in 1..Len(text) : i = 1 \/ text[i - 1] = NL => i \in FirstBytes
<1>1. Len(text) \in Nat /\ DOMAIN text = 1..Len(text)
  BY LenProperties
<1> QED BY <1>1 DEF FirstBytes

\* What myreadline() does anywhere in the file, its end included.
LEMMA Reads ==
  ASSUME text \in Seq(Characters), NEW i \in 1..(Len(text) + 1)
  PROVE  /\ myreadline(i).next \in i..(Len(text) + 1)
         /\ myreadline(i).next <= LineEnd(i) + 1
         /\ myreadline(i).next <= Len(text) => myreadline(i).next = LineEnd(i) + 1
         /\ LineEnd(i) <= Len(text) => myreadline(i).next = LineEnd(i) + 1
         /\ myreadline(i).line = LineAt(i) /\ LineAt(i) \in Seq(Characters)
         /\ myreadline(i).n = IF i > Len(text) THEN 0 ELSE 1
<1> DEFINE e == LineEnd(i)
           nx == myreadline(i).next
           S  == {e + 1, Len(text) + 1}
<1>1. i \in 1..(Len(text) + 1) /\ Len(text) \in Nat
  BY LenProperties
<1>2. e \in i..(Len(text) + 1)
  BY LineEnds
<1>3. nx = Min(S)
  BY DEF myreadline
<1> HIDE DEF e, nx
<1>4. nx \in S /\ \A x \in S : nx <= x
  <2>1. S \in SUBSET Nat /\ S # {}
    BY <1>1, <1>2
  <2> HIDE DEF S
  <2> QED BY <1>3, <2>1, Least
<1>5. /\ nx \in i..(Len(text) + 1) /\ nx <= e + 1
      /\ nx <= Len(text) => nx = e + 1
      /\ e <= Len(text) => nx = e + 1
  BY <1>1, <1>2, <1>4
<1>6. LineAt(i) \in Seq(Characters)
  <2>1. ASSUME NEW k \in i..(e - 1) PROVE text[k] \in Characters
    <3>1. k \in 1..Len(text)
      BY <1>1, <1>2
    <3> QED BY <3>1, ElementOfSeq
  <2>2. i \in Int /\ e - 1 \in Int
    BY <1>1, <1>2
  <2>3. SubSeq(text, i, e - 1) \in Seq(Characters)
    BY <2>1, <2>2, SubSeqProperties
  <2> QED BY <2>3 DEF LineAt, e
<1>7. /\ myreadline(i).line = LineAt(i)
      /\ myreadline(i).n = IF i > Len(text) THEN 0 ELSE 1
  BY DEF myreadline
<1> QED BY <1>5, <1>6, <1>7 DEF e, nx

\* myreadline() takes one line: what follows is a line or the end of the file.
LEMMA ReadLine ==
  ASSUME text \in Seq(Characters), NEW i \in FirstBytes
  PROVE  /\ myreadline(i).next \in (i + 1)..(Len(text) + 1)
         /\ myreadline(i).next <= Len(text) => myreadline(i).next \in FirstBytes
         /\ \A j \in FirstBytes : j < myreadline(i).next <=> j <= i
<1> DEFINE e == LineEnd(i)
           nx == myreadline(i).next
<1>1. i \in 1..Len(text) /\ Len(text) \in Nat /\ i \in 1..(Len(text) + 1)
  BY FirstBytesType
<1>2. /\ e \in i..(Len(text) + 1)
      /\ e = Len(text) + 1 \/ text[e] = NL
      /\ \A j \in i..(e - 1) : text[j] # NL
  BY <1>1, LineEnds
<1>3. /\ nx \in i..(Len(text) + 1) /\ nx <= e + 1
      /\ nx <= Len(text) => nx = e + 1
      /\ e <= Len(text) => nx = e + 1
  BY <1>1, Reads
<1> HIDE DEF e, nx
<1>5. nx \in (i + 1)..(Len(text) + 1)
  BY <1>1, <1>2, <1>3
<1>6. ASSUME nx <= Len(text) PROVE nx \in FirstBytes
  <2>1. nx = e + 1 /\ e # Len(text) + 1 /\ nx - 1 = e /\ nx \in 1..Len(text)
    BY <1>1, <1>2, <1>3, <1>6
  <2>2. text[nx - 1] = NL
    BY <1>2, <2>1
  <2> QED BY <2>1, <2>2, FirstBytesType
<1>7. ASSUME NEW j \in FirstBytes PROVE j < nx <=> j <= i
  <2>1. j \in 1..Len(text) /\ (j = 1 \/ text[j - 1] = NL)
    BY FirstBytesType
  <2>2. ASSUME j < nx, ~(j <= i) PROVE FALSE
    <3>1. j - 1 \in i..(e - 1) /\ j # 1
      BY <1>1, <1>2, <1>3, <2>1, <2>2
    <3> QED BY <1>2, <2>1, <3>1
  <2>3. j <= i => j < nx
    BY <1>1, <1>5, <2>1
  <2> QED BY <2>2, <2>3
<1> QED BY <1>5, <1>6, <1>7 DEF nx

-----------------------------------------------------------------------------
(***************************************************************************)
(* Sums.                                                                   *)
(***************************************************************************)

\* g sums up the first n items of s.
SumsUp(g, s, n) ==
  /\ g \in [0..n -> Nat] /\ g[0] = 0
  /\ \A k \in 1..n : g[k] = g[k - 1] + s[k].n

\* There is such a g: the recursion is defined place by place.
LEMMA SumsExist ==
  ASSUME NEW s \in Seq(Items)
  PROVE  \E g : SumsUp(g, s, Len(s))
<1> DEFINE A == {n \in Nat : n <= Len(s) => \E g : SumsUp(g, s, n)}
<1>1. 0 \in A
  <2>1. SumsUp([k \in 0..0 |-> 0], s, 0)
    BY DEF SumsUp
  <2> QED BY <2>1
<1>2. ASSUME NEW n \in A PROVE n + 1 \in A
  <2> SUFFICES ASSUME n + 1 <= Len(s) PROVE \E g : SumsUp(g, s, n + 1)
    OBVIOUS
  <2>0. n \in Nat /\ Len(s) \in Nat
    BY LenProperties
  <2>1. PICK g : SumsUp(g, s, n)
    BY <2>0
  <2> DEFINE v == g[n] + s[n + 1].n
             h == [k \in 0..(n + 1) |-> IF k = n + 1 THEN v ELSE g[k]]
  <2>2. v \in Nat
    <3>1. g[n] \in Nat
      BY <2>0, <2>1 DEF SumsUp
    <3>2. s[n + 1] \in Items
      BY <2>0, ElementOfSeq
    <3>3. s[n + 1].n \in Nat
      BY <3>2 DEF Items
    <3> QED BY <3>1, <3>3
  <2>3. /\ h \in [0..(n + 1) -> Nat] /\ h[n + 1] = v
        /\ \A k \in 0..n : h[k] = g[k]
    <3> HIDE DEF v
    <3> QED BY <2>0, <2>1, <2>2 DEF SumsUp
  <2> HIDE DEF h
  <2>4. h[0] = 0 /\ h[n] = g[n]
    BY <2>0, <2>1, <2>3 DEF SumsUp
  <2>5. ASSUME NEW k \in 1..(n + 1) PROVE h[k] = h[k - 1] + s[k].n
    <3>1. CASE k = n + 1
      <4>1. k - 1 = n
        BY <2>0, <3>1
      <4> QED BY <2>3, <2>4, <3>1, <4>1
    <3>2. CASE k # n + 1
      <4>1. k \in 1..n /\ k \in 0..n /\ k - 1 \in 0..n
        BY <2>0, <3>2
      <4>2. h[k] = g[k] /\ h[k - 1] = g[k - 1]
        BY <2>3, <4>1
      <4> QED BY <2>1, <4>1, <4>2 DEF SumsUp
    <3> QED BY <3>1, <3>2
  <2>6. SumsUp(h, s, n + 1)
    BY <2>3, <2>4, <2>5 DEF SumsUp
  <2> QED BY <2>6
<1>3. A = Nat
  <2> HIDE DEF A
  <2>1. A \in SUBSET Nat
    BY DEF A
  <2> QED BY <1>1, <1>2, <2>1, NumberInduction
<1> QED BY <1>3, LenProperties

\* Two that sum up the same items are equal.
LEMMA SumsUnique ==
  ASSUME NEW s, NEW t, NEW n \in Nat, NEW g, NEW h,
         SumsUp(g, s, n), SumsUp(h, t, n), \A k \in 1..n : s[k].n = t[k].n
  PROVE  g[n] = h[n]
<1> DEFINE A == {k \in Nat : k <= n => g[k] = h[k]}
<1>1. 0 \in A
  BY DEF SumsUp
<1>2. ASSUME NEW k \in A PROVE k + 1 \in A
  <2> SUFFICES ASSUME k + 1 <= n PROVE g[k + 1] = h[k + 1]
    OBVIOUS
  <2>1. k + 1 \in 1..n /\ (k + 1) - 1 = k /\ g[k] = h[k]
    OBVIOUS
  <2>2. /\ g[k + 1] = g[(k + 1) - 1] + s[k + 1].n
        /\ h[k + 1] = h[(k + 1) - 1] + t[k + 1].n
    BY <2>1 DEF SumsUp
  <2> QED BY <2>1, <2>2
<1>3. A = Nat
  <2> HIDE DEF A
  <2>1. A \in SUBSET Nat
    BY DEF A
  <2> QED BY <1>1, <1>2, <2>1, NumberInduction
<1> QED BY <1>3

\* The recursive definition sums up.
LEMMA SumsAre ==
  ASSUME NEW s \in Seq(Items)
  PROVE  SumsUp(Sums(s), s, Len(s))
<1> DEFINE Is(g) == g = [k \in 0..Len(s) |-> IF k = 0 THEN 0 ELSE g[k - 1] + s[k].n]
<1>0. Len(s) \in Nat
  BY LenProperties
<1>1. Sums(s) = CHOOSE g : Is(g)
  BY DEF Sums
<1>2. PICK g : SumsUp(g, s, Len(s))
  BY SumsExist
<1>3. Is(g)
  <2>1. ASSUME NEW k \in 0..Len(s)
        PROVE  g[k] = IF k = 0 THEN 0 ELSE g[k - 1] + s[k].n
    BY <1>0, <1>2 DEF SumsUp
  <2>2. g = [k \in 0..Len(s) |-> g[k]]
    BY <1>2 DEF SumsUp
  <2> QED BY <2>1, <2>2
<1>4. Is(Sums(s))
  <2> HIDE DEF Is
  <2> QED BY <1>1, <1>3
<1> DEFINE w == Sums(s)
           F(k) == IF k = 0 THEN 0 ELSE w[k - 1] + s[k].n
<1>5. w = [k \in 0..Len(s) |-> F(k)]
  BY <1>4
<1> HIDE DEF w
<1>6. \A k \in 0..Len(s) : w[k] = F(k)
  <2> HIDE DEF F
  <2> QED BY <1>5
<1>7. w[0] = 0 /\ \A k \in 1..Len(s) : w[k] = w[k - 1] + s[k].n
  <2>1. 0 \in 0..Len(s) /\ \A k \in 1..Len(s) : k \in 0..Len(s) /\ k # 0
    BY <1>0
  <2> QED BY <1>6, <2>1
<1>8. ASSUME NEW k \in 0..Len(s) PROVE w[k] \in Nat
  <2> DEFINE A == {n \in Nat : n <= Len(s) => w[n] \in Nat}
  <2>1. 0 \in A
    BY <1>7
  <2>2. ASSUME NEW n \in A PROVE n + 1 \in A
    <3> SUFFICES ASSUME n + 1 <= Len(s) PROVE w[n + 1] \in Nat
      OBVIOUS
    <3>1. n + 1 \in 1..Len(s) /\ (n + 1) - 1 = n /\ w[n] \in Nat
      BY <1>0
    <3>2. s[n + 1] \in Items
      BY <3>1, ElementOfSeq
    <3>3. s[n + 1].n \in Nat
      BY <3>2 DEF Items
    <3>4. w[n + 1] = w[n] + s[n + 1].n
      BY <1>7, <3>1
    <3> QED BY <3>1, <3>3, <3>4
  <2>3. A = Nat
    <3> HIDE DEF A
    <3>1. A \in SUBSET Nat
      BY DEF A
    <3> QED BY <2>1, <2>2, <3>1, NumberInduction
  <2> QED BY <1>0, <2>3
<1>9. w \in [0..Len(s) -> Nat]
  <2>1. w = [k \in 0..Len(s) |-> w[k]]
    BY <1>5
  <2> QED BY <1>8, <2>1
<1> QED BY <1>7, <1>9 DEF SumsUp, w

\* An item appended adds its number.
LEMMA TotalAppend ==
  ASSUME NEW s \in Seq(Items), NEW r \in Items
  PROVE  Total(Append(s, r)) = Total(s) + r.n /\ Total(s) \in Nat
<1> DEFINE t == Append(s, r)
           g == Sums(s)
           h == Sums(t)
           n == Len(s)
<1>1. /\ t \in Seq(Items) /\ Len(t) = n + 1 /\ n \in Nat
      /\ \A k \in 1..n : t[k] = s[k]
      /\ t[n + 1] = r
  BY AppendProperties, LenProperties
<1>2. SumsUp(g, s, n) /\ SumsUp(h, t, n + 1)
  <2> HIDE DEF t
  <2> QED BY <1>1, SumsAre
<1>3. Total(s) = g[n] /\ Total(t) = h[n + 1]
  <2> HIDE DEF t
  <2> QED BY <1>1 DEF Total
<1> HIDE DEF t, g, h, n
<1>4. g[n] \in Nat /\ h[n + 1] = h[n] + r.n
  <2>1. n \in 0..n /\ n + 1 \in 1..(n + 1) /\ (n + 1) - 1 = n
    BY <1>1
  <2>2. g[n] \in Nat
    BY <1>2, <2>1 DEF SumsUp
  <2>3. h[n + 1] = h[(n + 1) - 1] + t[n + 1].n
    BY <1>2, <2>1 DEF SumsUp
  <2> QED BY <1>1, <2>1, <2>2, <2>3
<1>5. g[n] = h[n]
  <2> DEFINE f == [k \in 0..n |-> h[k]]
  <2>1. SumsUp(f, t, n)
    <3>1. f \in [0..n -> Nat] /\ f[0] = 0
      BY <1>1, <1>2 DEF SumsUp
    <3>2. ASSUME NEW k \in 1..n PROVE f[k] = f[k - 1] + t[k].n
      <4>1. k \in 1..(n + 1) /\ k \in 0..n /\ k - 1 \in 0..n
        BY <1>1
      <4> QED BY <1>2, <4>1 DEF SumsUp
    <3> HIDE DEF f
    <3> QED BY <3>1, <3>2 DEF SumsUp
  <2>2. f[n] = h[n]
    BY <1>1
  <2> HIDE DEF f
  <2>3. g[n] = f[n]
    BY <1>1, <1>2, <2>1, SumsUnique
  <2> QED BY <2>2, <2>3
<1>6. Total(t) = Total(s) + r.n /\ Total(s) \in Nat
  BY <1>3, <1>4, <1>5
<1> QED BY <1>6 DEF t

\* Nothing adds up to 0.
LEMMA TotalEmpty == Total(<<>>) = 0
<1>1. <<>> \in Seq(Items) /\ Len(<<>>) = 0
  OBVIOUS
<1>2. SumsUp(Sums(<<>>), <<>>, 0)
  BY <1>1, SumsAre
<1> QED BY <1>1, <1>2 DEF SumsUp, Total
-----------------------------------------------------------------------------
(***************************************************************************)
(* What the steps do.                                                      *)
(***************************************************************************)

\* The lines and the runs are those of the file, which no step changes.
LEMMA Same ==
  ASSUME text' = text
  PROVE  /\ FirstBytes' = FirstBytes /\ RunStarts' = RunStarts
         /\ SecondLines' = SecondLines
         /\ \A i : LineAt(i)' = LineAt(i)
         /\ \A i : RunOf(i)' = RunOf(i)
  BY DEF FirstBytes, RunStarts, SecondLines, LineAt, LineEnd, RunOf, Rank

\* The first line.
LEMMA FirstLineDoes ==
  ASSUME ReaderInv, FirstLine
  PROVE  /\ uniq_pc = "uniq" /\ uniq_pc' \in {"empty", "loop"}
         /\ UNCHANGED <<text, show_count, duplicate, ignore>>
         /\ UNCHANGED <<dupe_count, dupe_found, output>>
         /\ offset' \in 1..(Len(text) + 1) /\ last_line' \in Seq(Characters)
         /\ uniq_pc' = "empty" => offset' = Len(text) + 1
         /\ uniq_pc' = "loop" =>
              /\ 1 \in FirstBytes /\ last_line' = LineAt(1)
              /\ offset' = myreadline(1).next
<1>1. /\ uniq_pc = "uniq"
      /\ uniq_pc' = IF myreadline(offset).n = 0 THEN "empty" ELSE "loop"
      /\ last_line' = myreadline(offset).line /\ offset' = myreadline(offset).next
      /\ UNCHANGED <<text, show_count, duplicate, ignore>>
      /\ UNCHANGED <<dupe_count, dupe_found, output>>
  BY DEF FirstLine, options
<1>2. text \in Seq(Characters) /\ offset = 1 /\ Len(text) \in Nat
  BY <1>1, LenProperties DEF ReaderInv
<1>3. /\ myreadline(1).next \in 1..(Len(text) + 1)
      /\ myreadline(1).line = LineAt(1) /\ LineAt(1) \in Seq(Characters)
      /\ myreadline(1).n = IF 1 > Len(text) THEN 0 ELSE 1
  BY <1>2, Reads
<1>4. CASE Len(text) = 0
  BY <1>1, <1>2, <1>3, <1>4
<1>5. CASE Len(text) > 0
  <2>1. 1 \in FirstBytes
    BY <1>2, <1>5, FirstBytesType
  <2> QED BY <1>1, <1>2, <1>3, <1>5, <2>1
<1> QED BY <1>2, <1>4, <1>5

\* Where a round of either mode reads: a line that follows the ones read.
LEMMA RoundReads ==
  ASSUME ReaderInv, myreadline(offset).n > 0, text' = text,
         offset' = myreadline(offset).next
  PROVE  /\ offset \in FirstBytes /\ offset' \in (offset + 1)..(Len(text) + 1)
         /\ offset' <= Len(text) => offset' \in FirstBytes
         /\ \A j \in FirstBytes : j < offset' <=> j <= offset
         /\ myreadline(offset).line = LineAt(offset)
         /\ LineAt(offset) \in Seq(Characters)
         /\ LinesRead' = LinesRead \cup {offset} /\ offset \notin LinesRead
<1>1. text \in Seq(Characters) /\ offset \in 1..(Len(text) + 1) /\ Len(text) \in Nat
  BY LenProperties DEF ReaderInv
<1>2. /\ myreadline(offset).line = LineAt(offset)
      /\ LineAt(offset) \in Seq(Characters)
      /\ myreadline(offset).n = IF offset > Len(text) THEN 0 ELSE 1
  BY <1>1, Reads
<1>3. offset <= Len(text)
  BY <1>1, <1>2
<1>4. offset \in FirstBytes
  BY <1>3 DEF ReaderInv
<1>5. /\ offset' \in (offset + 1)..(Len(text) + 1)
      /\ offset' <= Len(text) => offset' \in FirstBytes
      /\ \A j \in FirstBytes : j < offset' <=> j <= offset
  BY <1>1, <1>4, ReadLine
<1>6. LinesRead' = LinesRead \cup {offset} /\ offset \notin LinesRead
  <2>1. LinesRead' = {j \in FirstBytes : j < offset'}
    BY Same DEF LinesRead
  <2>2. FirstBytes \subseteq Nat
    BY <1>1, FirstBytesType
  <2>3. ASSUME NEW j \in FirstBytes PROVE j < offset' <=> j < offset \/ j = offset
    <3>1. j \in Nat /\ offset \in Nat
      BY <1>1, <2>2
    <3>2. j < offset' <=> j <= offset
      BY <1>5
    <3>3. j <= offset <=> j < offset \/ j = offset
      BY <3>1
    <3> QED BY <3>2, <3>3
  <2>4. LinesRead = {j \in FirstBytes : j < offset} /\ ~(offset < offset)
    BY <1>1 DEF LinesRead
  <2> QED BY <1>4, <2>1, <2>3, <2>4
<1> QED BY <1>2, <1>4, <1>5, <1>6

\* A round without -d.
LEMMA RoundDoes ==
  ASSUME ReaderInv, NEW eq \in BOOLEAN, Round(eq)
  PROVE  /\ uniq_pc = "loop" /\ duplicate = 0
         /\ UNCHANGED <<text, show_count, duplicate, ignore>>
         /\ UNCHANGED <<dupe_found, uniq_pc>>
         /\ myreadline(offset).n > 0 /\ offset' = myreadline(offset).next
         /\ eq \in string_compare(last_line, LineAt(offset))
         /\ last_line' = IF eq THEN last_line ELSE LineAt(offset)
         /\ output' = IF eq THEN output ELSE Counted(last_line)
         /\ dupe_count' = IF eq THEN dupe_count + 1 ELSE 1
<1>1. /\ myreadline(offset).n > 0 /\ offset' = myreadline(offset).next
      /\ text' = text
  BY DEF Round, options
<1>2. myreadline(offset).line = LineAt(offset)
  BY <1>1, RoundReads
<1> QED BY <1>1, <1>2 DEF Round, options, LineAfter, CountAfter

\* A round with -d: the line printed and the line kept.
LEMMA DuplicateRoundDoes ==
  ASSUME ReaderInv, NEW eq \in BOOLEAN, DuplicateRound(eq)
  PROVE  /\ uniq_pc = "loop" /\ duplicate = 1
         /\ UNCHANGED <<text, show_count, duplicate, ignore>>
         /\ UNCHANGED <<dupe_count, uniq_pc>>
         /\ myreadline(offset).n > 0 /\ offset' = myreadline(offset).next
         /\ eq \in string_compare(last_line, LineAt(offset))
         /\ dupe_found' = (eq /\ ~dupe_found)
         /\ eq /\ ~dupe_found =>
              output' = Printed(0, last_line) /\ last_line' = last_line
         /\ ~(eq /\ ~dupe_found) =>
              output' = output /\ last_line' = LineAt(offset)
<1>1. /\ myreadline(offset).n > 0 /\ offset' = myreadline(offset).next
      /\ text' = text
  BY DEF DuplicateRound, options
<1>2. myreadline(offset).line = LineAt(offset)
  BY <1>1, RoundReads
<1> QED BY <1>1, <1>2 DEF DuplicateRound, options, FoundAfter

\* The end of the file.
LEMMA FinishDoes ==
  ASSUME ReaderInv, Finish
  PROVE  /\ uniq_pc = "loop" /\ uniq_pc' = "done"
         /\ UNCHANGED <<text, show_count, duplicate, ignore>>
         /\ UNCHANGED <<offset, last_line, dupe_count, dupe_found>>
         /\ offset = Len(text) + 1
         /\ output' = IF duplicate = 0 THEN Counted(last_line) ELSE output
<1>1. text \in Seq(Characters) /\ offset \in 1..(Len(text) + 1) /\ Len(text) \in Nat
  BY LenProperties DEF ReaderInv
<1>2. myreadline(offset).n = 0
  BY DEF Finish
<1>3. myreadline(offset).n = IF offset > Len(text) THEN 0 ELSE 1
  BY <1>1, Reads
<1>4. offset = Len(text) + 1
  BY <1>1, <1>2, <1>3
<1> QED BY <1>4 DEF Finish, options
-----------------------------------------------------------------------------
(***************************************************************************)
(* The reader reads lines.                                                 *)
(***************************************************************************)

\* The state before the first line.
LEMMA ReaderInit == UniqInit => ReaderInv
<1> SUFFICES ASSUME UniqInit PROVE ReaderInv
  OBVIOUS
<1>1. text \in Seq(Characters)
  <2>1. PICK n \in 0..FILELEN : text \in [1..n -> Characters]
    BY UniqAssumption DEF UniqInit, BoundedSeq, SeqOf, Characters
  <2>2. n \in Nat
    BY UniqAssumption
  <2> QED BY <2>1, <2>2
<1>2. Len(text) \in Nat
  BY <1>1, LenProperties
<1>3. 1 \in 1..(Len(text) + 1) /\ (1 <= Len(text) => 1 \in FirstBytes)
  BY <1>1, <1>2, FirstBytesType
<1>4. <<>> \in Seq(Items) /\ <<>> \in Seq(Characters)
  OBVIOUS
<1> QED BY <1>1, <1>3, <1>4 DEF UniqInit, ReaderInv

\* What is printed is a line with a number.
LEMMA PrintedType ==
  ASSUME ReaderInv, NEW n \in Nat
  PROVE  /\ Printed(n, last_line) \in Seq(Items)
         /\ [n |-> n, line |-> last_line] \in Items
<1>1. [n |-> n, line |-> last_line] \in Items
  BY DEF ReaderInv, Items
<1>2. output \in Seq(Items)
  BY DEF ReaderInv
<1> QED BY <1>1, <1>2, AppendProperties DEF Printed

\* So is what the non-duplicate mode prints.
LEMMA CountedType ==
  ASSUME ReaderInv
  PROVE  Counted(last_line) \in Seq(Items)
<1>1. (IF show_count = 1 THEN dupe_count ELSE 0) \in Nat
  BY DEF ReaderInv
<1> QED BY <1>1, PrintedType DEF Counted

\* Every step keeps the reader between lines.
LEMMA ReaderStep ==
  ASSUME ReaderInv, [UniqNext]_uniqVars
  PROVE  ReaderInv'
<1>0. text \in Seq(Characters) /\ Len(text) \in Nat /\ offset \in 1..(Len(text) + 1)
  BY LenProperties DEF ReaderInv
<1>1. ASSUME text' = text, offset \in FirstBytes, LinesRead' = LinesRead \cup {offset},
             1 \in LinesRead
      PROVE  1 \in LinesRead'
  BY <1>1
<1>2. CASE FirstLine
  <2>1. CASE uniq_pc' = "empty"
    <3>1. offset' = Len(text) + 1 /\ ~(offset' <= Len(text))
      BY <1>0, <1>2, <2>1, FirstLineDoes
    <3>2. /\ UNCHANGED <<text, show_count, duplicate, ignore>>
          /\ UNCHANGED <<dupe_count, dupe_found, output>>
          /\ offset' \in 1..(Len(text) + 1) /\ last_line' \in Seq(Characters)
      BY <1>2, FirstLineDoes
    <3> QED BY <2>1, <3>1, <3>2 DEF ReaderInv
  <2>2. CASE uniq_pc' = "loop"
    <3>1. /\ UNCHANGED <<text, show_count, duplicate, ignore>>
          /\ UNCHANGED <<dupe_count, dupe_found, output>>
          /\ offset' \in 1..(Len(text) + 1) /\ last_line' \in Seq(Characters)
          /\ 1 \in FirstBytes /\ offset' = myreadline(1).next
      BY <1>2, <2>2, FirstLineDoes
    <3>2. offset' > 1 /\ (offset' <= Len(text) => offset' \in FirstBytes)
      BY <1>0, <3>1, ReadLine
    <3>3. FirstBytes' = FirstBytes
      BY <3>1, Same
    <3>4. 1 \in LinesRead'
      BY <3>1, <3>2, <3>3 DEF LinesRead
    <3> QED BY <2>2, <3>1, <3>2, <3>3, <3>4 DEF ReaderInv
  <2> QED BY <1>2, <2>1, <2>2, FirstLineDoes
<1>3. ASSUME NEW eq \in BOOLEAN, Round(eq) PROVE ReaderInv'
  <2>1. /\ uniq_pc = "loop" /\ uniq_pc' = "loop" /\ dupe_found' = dupe_found
        /\ UNCHANGED <<text, show_count, duplicate, ignore>>
        /\ last_line' = IF eq THEN last_line ELSE LineAt(offset)
        /\ output' = IF eq THEN output ELSE Counted(last_line)
        /\ dupe_count' = IF eq THEN dupe_count + 1 ELSE 1
        /\ myreadline(offset).n > 0 /\ offset' = myreadline(offset).next
    BY <1>3, RoundDoes
  <2>2. /\ offset \in FirstBytes /\ offset' \in (offset + 1)..(Len(text) + 1)
        /\ offset' <= Len(text) => offset' \in FirstBytes
        /\ LineAt(offset) \in Seq(Characters)
        /\ LinesRead' = LinesRead \cup {offset}
    BY <2>1, RoundReads
  <2>3. FirstBytes' = FirstBytes
    BY <2>1, Same
  <2>4. 1 \in LinesRead' /\ offset' \in 1..(Len(text) + 1)
    BY <1>0, <1>1, <2>1, <2>2 DEF ReaderInv
  <2>5. /\ last_line' \in Seq(Characters) /\ dupe_count' \in Nat
        /\ output' \in Seq(Items)
    BY <2>1, <2>2, CountedType DEF ReaderInv
  <2> QED BY <2>1, <2>2, <2>3, <2>4, <2>5 DEF ReaderInv
<1>4. ASSUME NEW eq \in BOOLEAN, DuplicateRound(eq) PROVE ReaderInv'
  <2>1. /\ uniq_pc = "loop" /\ uniq_pc' = "loop" /\ dupe_count' = dupe_count
        /\ UNCHANGED <<text, show_count, duplicate, ignore>>
        /\ dupe_found' = (eq /\ ~dupe_found)
        /\ last_line' \in {last_line, LineAt(offset)}
        /\ output' \in {output, Printed(0, last_line)}
        /\ myreadline(offset).n > 0 /\ offset' = myreadline(offset).next
    BY <1>4, DuplicateRoundDoes
  <2>2. /\ offset \in FirstBytes /\ offset' \in (offset + 1)..(Len(text) + 1)
        /\ offset' <= Len(text) => offset' \in FirstBytes
        /\ LineAt(offset) \in Seq(Characters)
        /\ LinesRead' = LinesRead \cup {offset}
    BY <2>1, RoundReads
  <2>3. FirstBytes' = FirstBytes
    BY <2>1, Same
  <2>4. 1 \in LinesRead' /\ offset' \in 1..(Len(text) + 1)
    BY <1>0, <1>1, <2>1, <2>2 DEF ReaderInv
  <2>5. /\ last_line' \in Seq(Characters) /\ output' \in Seq(Items)
        /\ dupe_found' \in BOOLEAN
    BY <2>1, <2>2, PrintedType DEF ReaderInv
  <2> QED BY <2>1, <2>2, <2>3, <2>4, <2>5 DEF ReaderInv
<1>5. CASE Finish
  <2>1. /\ uniq_pc = "loop" /\ uniq_pc' = "done"
        /\ UNCHANGED <<text, show_count, duplicate, ignore>>
        /\ UNCHANGED <<offset, last_line, dupe_count, dupe_found>>
        /\ output' = IF duplicate = 0 THEN Counted(last_line) ELSE output
    BY <1>5, FinishDoes
  <2>2. FirstBytes' = FirstBytes /\ LinesRead' = LinesRead
    BY <2>1, Same DEF LinesRead
  <2>3. output' \in Seq(Items)
    BY <2>1, CountedType DEF ReaderInv
  <2> QED BY <2>1, <2>2, <2>3 DEF ReaderInv
<1>6. CASE UniqOver \/ UNCHANGED uniqVars
  <2>1. UNCHANGED uniqVars
    BY <1>6 DEF UniqOver
  <2>2. /\ UNCHANGED <<text, show_count, duplicate, ignore>> /\ UNCHANGED uniq_pc
        /\ UNCHANGED <<offset, last_line, dupe_count, dupe_found, output>>
    BY <2>1 DEF uniqVars, options
  <2>3. FirstBytes' = FirstBytes /\ LinesRead' = LinesRead
    BY <2>2, Same DEF LinesRead
  <2> QED BY <2>2, <2>3 DEF ReaderInv
<1> QED BY <1>2, <1>3, <1>4, <1>5, <1>6 DEF UniqNext

\* The reader is between lines in every state of uniq.
LEMMA ReaderInvariance == UniqSpec => []ReaderInv
  BY ReaderInit, ReaderStep, PTL DEF UniqSpec

\* The lines are finitely many.
LEMMA FiniteLines ==
  ASSUME ReaderInv
  PROVE  /\ IsFiniteSet(FirstBytes)
         /\ \A S \in SUBSET FirstBytes : IsFiniteSet(S) /\ Cardinality(S) \in Nat
<1>1. Len(text) \in Nat /\ FirstBytes \subseteq 1..Len(text)
  BY FirstBytesType DEF ReaderInv
<1>2. IsFiniteSet(1..Len(text))
  BY <1>1, FS_Interval
<1>3. IsFiniteSet(FirstBytes)
  BY <1>1, <1>2, FS_Subset
<1> QED BY <1>3, FS_Subset, FS_CardinalityType
-----------------------------------------------------------------------------
(***************************************************************************)
(* The counts.                                                             *)
(***************************************************************************)

\* Every step that counts a line or prints a count keeps the sum equal to the
\* number of lines read, whatever the comparison returns.
LEMMA CountsStep ==
  ASSUME ReaderInv, CountsAddUp, [UniqNext]_uniqVars
  PROVE  CountsAddUp'
<1> SUFFICES ASSUME uniq_pc' = "loop", duplicate' = 0, show_count' = 1
             PROVE  Total(output') + dupe_count' = Cardinality(LinesRead')
  BY DEF CountsAddUp, LinesRead
<1>0. CountsAddUp <=> (uniq_pc = "loop" /\ duplicate = 0 /\ show_count = 1 =>
                         Total(output) + dupe_count = Cardinality(LinesRead))
  BY DEF CountsAddUp, LinesRead
<1>a. IsFiniteSet(LinesRead) /\ Cardinality(LinesRead) \in Nat
  BY FiniteLines DEF LinesRead
<1>b. output \in Seq(Items) /\ dupe_count \in Nat
  BY DEF ReaderInv
<1>1. CASE FirstLine
  <2>1. /\ output' = <<>> /\ dupe_count' = 1 /\ 1 \in FirstBytes
        /\ offset' = myreadline(1).next /\ text' = text
    BY <1>1, FirstLineDoes DEF ReaderInv
  <2>2. \A j \in FirstBytes : j < offset' <=> j <= 1
    BY <2>1, ReadLine DEF ReaderInv
  <2>3. FirstBytes \subseteq 1..Len(text) /\ Len(text) \in Nat /\ FirstBytes' = FirstBytes
    BY <2>1, FirstBytesType, Same DEF ReaderInv
  <2>4. LinesRead' = {j \in FirstBytes : j < offset'}
    BY <2>3 DEF LinesRead
  <2>5. \A j \in FirstBytes : j < offset' <=> j = 1
    BY <2>2, <2>3
  <2>6. LinesRead' = {1}
    BY <2>1, <2>4, <2>5
  <2>7. Cardinality(LinesRead') = 1
    BY <2>6, FS_Singleton
  <2>8. Total(output') = 0
    BY <2>1, TotalEmpty
  <2> QED BY <2>1, <2>7, <2>8
<1>2. ASSUME NEW eq \in BOOLEAN, Round(eq)
      PROVE  Total(output') + dupe_count' = Cardinality(LinesRead')
  <2>1. /\ uniq_pc = "loop" /\ duplicate = 0 /\ show_count = 1 /\ text' = text
        /\ output' = IF eq THEN output ELSE Counted(last_line)
        /\ dupe_count' = IF eq THEN dupe_count + 1 ELSE 1
        /\ myreadline(offset).n > 0 /\ offset' = myreadline(offset).next
    BY <1>2, RoundDoes
  <2>2. LinesRead' = LinesRead \cup {offset} /\ offset \notin LinesRead
    BY <2>1, RoundReads
  <2>3. Cardinality(LinesRead') = Cardinality(LinesRead) + 1
    BY <1>a, <2>2, FS_AddElement
  <2>4. Total(output) + dupe_count = Cardinality(LinesRead)
    BY <1>0, <2>1
  <2> DEFINE r == [n |-> dupe_count, line |-> last_line]
  <2>5. r \in Items /\ r.n = dupe_count /\ Counted(last_line) = Append(output, r)
    BY <1>b, <2>1, PrintedType DEF Counted, Printed
  <2> HIDE DEF r
  <2>6. Total(Append(output, r)) = Total(output) + dupe_count /\ Total(output) \in Nat
    BY <1>b, <2>5, TotalAppend
  <2>7. CASE eq
    BY <1>a, <1>b, <2>1, <2>3, <2>4, <2>6, <2>7
  <2>8. CASE ~eq
    BY <1>a, <1>b, <2>1, <2>3, <2>4, <2>5, <2>6, <2>8
  <2> QED BY <2>7, <2>8
<1>3. ASSUME NEW eq \in BOOLEAN, DuplicateRound(eq) PROVE FALSE
  BY <1>3, DuplicateRoundDoes
<1>4. CASE Finish
  BY <1>4, FinishDoes
<1>5. CASE UniqOver \/ UNCHANGED uniqVars
  <2>1. UNCHANGED uniqVars
    BY <1>5 DEF UniqOver
  <2>2. /\ UNCHANGED <<text, show_count, duplicate, offset, dupe_count>>
        /\ UNCHANGED <<output, uniq_pc>>
    BY <2>1 DEF uniqVars, options
  <2>3. LinesRead' = LinesRead
    BY <2>2, Same DEF LinesRead
  <2> QED BY <1>0, <2>2, <2>3
<1> QED BY <1>1, <1>2, <1>3, <1>4, <1>5 DEF UniqNext

\* Whatever the comparison of the unterminated copies returns, the counts of
\* uniq -c add up to the lines read: every line is in exactly one count.
THEOREM AllLinesCounted == UniqSpec => []CountsAddUp
<1>1. UniqInit => CountsAddUp
  BY DEF UniqInit, CountsAddUp
<1> QED BY <1>1, CountsStep, ReaderInvariance, PTL DEF UniqSpec
-----------------------------------------------------------------------------
(***************************************************************************)
(* The runs.                                                               *)
(***************************************************************************)

\* The runs start with lines.
LEMMA RunsType ==
  ASSUME ReaderInv
  PROVE  /\ RunStarts \subseteq FirstBytes /\ RunStarts \subseteq Nat
         /\ SecondLines \subseteq FirstBytes /\ SecondLines \subseteq Nat
         /\ FirstBytes \subseteq 1..Len(text) /\ Len(text) \in Nat
         /\ \A i \in FirstBytes : i \in Nat
         /\ text \in Seq(Characters) /\ offset \in 1..(Len(text) + 1) /\ offset \in Nat
<1>1. text \in Seq(Characters) /\ offset \in 1..(Len(text) + 1)
  BY DEF ReaderInv
<1>2. FirstBytes \subseteq 1..Len(text) /\ FirstBytes \subseteq Nat /\ Len(text) \in Nat
  BY <1>1, FirstBytesType
<1>3. RunStarts \subseteq FirstBytes /\ SecondLines \subseteq FirstBytes
  BY DEF RunStarts, SecondLines
<1> QED BY <1>1, <1>2, <1>3

\* In a run, last_line is its line.
LEMMA RunLine ==
  ASSUME ReaderInv, NEW m, NEW p, InRun(m, p)
  PROVE  /\ m \in Current(m) /\ LineAt(m) = last_line
         /\ m \in FirstBytes /\ m \in Nat /\ m < offset
         /\ p \in Current(m) /\ LineAt(p) = last_line
<1>1. m \in RunStarts /\ m < offset /\ m \in FirstBytes /\ m \in Nat
  BY RunsType DEF InRun
<1>2. m \in Current(m) /\ m \in LinesRead
  BY <1>1 DEF Current, LinesRead
<1>3. p \in FirstBytes /\ p < offset /\ m <= p
  BY <1>2 DEF InRun, LinesRead
<1>4. p \in Current(m)
  BY <1>3 DEF Current
<1> QED BY <1>1, <1>2, <1>4 DEF InRun

\* Where the comparison is defined, it tells whether the line that was read
\* starts a run.
LEMMA Answer ==
  ASSUME ReaderInv, AllDefined, NEW m, NEW p, InRun(m, p), offset \in FirstBytes,
         NEW eq \in BOOLEAN, eq \in string_compare(last_line, LineAt(offset))
  PROVE  /\ eq <=> LineAt(offset) = last_line
         /\ eq <=> offset \notin RunStarts
<1>1. ignore = 0 /\ Defined(last_line)
  BY RunLine DEF AllDefined
<1>2. string_compare(last_line, LineAt(offset)) =
        IF last_line = LineAt(offset) THEN {TRUE} ELSE {FALSE}
  BY <1>1 DEF string_compare
<1>3. eq <=> LineAt(offset) = last_line
  BY <1>2
<1>4. offset # 1
  BY RunLine, RunsType
<1>5. Max(LinesRead) = p
  <2>1. LinesRead \in SUBSET Nat
    BY RunsType DEF LinesRead
  <2>2. p \in LinesRead /\ \A j \in LinesRead : j <= p
    BY DEF InRun
  <2> QED BY <2>1, <2>2, Greatest
<1>6. Max({j \in FirstBytes : j < offset}) = p
  BY <1>5 DEF LinesRead
<1>7. offset \in RunStarts <=> LineAt(offset) # LineAt(p)
  BY <1>4, <1>6 DEF RunStarts
<1> QED BY <1>3, <1>7, RunLine

\* The lines of the run, when the next one has been read.
LEMMA RunGoesOn ==
  ASSUME ReaderInv, NEW m, NEW p, InRun(m, p), NEW o, o = offset,
         myreadline(offset).n > 0, text' = text,
         offset' = myreadline(offset).next, last_line' = LineAt(offset)
  PROVE  /\ o \notin RunStarts /\ LineAt(o) = last_line =>
              InRun(m, o)' /\ Current(m)' = Current(m) \cup {o}
         /\ o \in RunStarts => InRun(o, o)' /\ Current(o)' = {o}
         /\ o \in FirstBytes /\ o \notin Current(m)
<1>1. /\ o \in FirstBytes /\ offset' \in (o + 1)..(Len(text) + 1)
      /\ \A j \in FirstBytes : j < offset' <=> j <= o
      /\ LinesRead' = LinesRead \cup {o}
  BY RoundReads
<1>2. /\ FirstBytes \subseteq Nat /\ RunStarts \subseteq FirstBytes /\ o \in Nat
      /\ Len(text) \in Nat
  BY RunsType
<1>3. /\ m \in RunStarts /\ m < o /\ m \in Nat
      /\ \A r \in RunStarts : r <= m \/ r >= o
      /\ \A j \in Current(m) : LineAt(j) = last_line
      /\ \A j \in LinesRead : j < o
  BY RunLine DEF InRun, LinesRead
<1>4. offset' \in Nat
  BY <1>1, <1>2
<1>5. ASSUME NEW k PROVE Current(k)' = {j \in FirstBytes : k <= j /\ j <= o}
  <2>1. Current(k)' = {j \in FirstBytes : k <= j /\ j < offset'}
    BY Same DEF Current
  <2> QED BY <1>1, <2>1
<1>6. Current(m)' = Current(m) \cup {o}
  <2>1. \A j \in FirstBytes : m <= j /\ j <= o <=> (m <= j /\ j < o) \/ j = o
    BY <1>2, <1>3
  <2>2. Current(m) = {j \in FirstBytes : m <= j /\ j < o}
    BY DEF Current
  <2> QED BY <1>1, <1>5, <2>1, <2>2
<1>7. Current(o)' = {o}
  <2>1. \A j \in FirstBytes : o <= j /\ j <= o <=> j = o
    BY <1>2
  <2> QED BY <1>1, <1>5, <2>1
<1>8. o \in LinesRead' /\ \A j \in LinesRead' : j <= o
  BY <1>1, <1>2, <1>3 DEF LinesRead
<1>9. o < offset' /\ m < offset' /\ \A r \in RunStarts : r > o => r >= offset'
  <2>1. ASSUME NEW r \in RunStarts, r > o PROVE r >= offset'
    <3>1. r \in FirstBytes /\ r \in Nat /\ ~(r <= o)
      BY <1>2, <2>1
    <3>2. ~(r < offset')
      BY <1>1, <3>1
    <3> QED BY <1>4, <3>1, <3>2
  <2>2. o < offset' /\ m < offset'
    BY <1>1, <1>2, <1>3, <1>4
  <2> QED BY <2>1, <2>2
<1>10. ASSUME NEW k
       PROVE  InRun(k, o)' <=>
                /\ k \in RunStarts /\ k < offset'
                /\ \A r \in RunStarts : r <= k \/ r >= offset'
                /\ \A j \in Current(k)' : LineAt(j) = last_line'
                /\ o \in LinesRead' /\ \A j \in LinesRead' : j <= o
  BY Same DEF InRun
<1>11. ASSUME o \notin RunStarts, LineAt(o) = last_line PROVE InRun(m, o)'
  <2>1. ASSUME NEW r \in RunStarts PROVE r <= m \/ r >= offset'
    <3>1. r \in Nat /\ (r <= m \/ r >= o) /\ r # o
      BY <1>2, <1>3, <1>11
    <3>2. r <= m \/ r > o
      BY <1>2, <3>1
    <3> QED BY <1>9, <3>2
  <2>2. ASSUME NEW j \in Current(m)' PROVE LineAt(j) = last_line'
    BY <1>3, <1>6, <1>11
  <2> QED BY <1>3, <1>8, <1>9, <1>10, <2>1, <2>2
<1>12. ASSUME o \in RunStarts PROVE InRun(o, o)'
  <2>1. ASSUME NEW r \in RunStarts PROVE r <= o \/ r >= offset'
    <3>1. r <= o \/ r > o
      BY <1>2
    <3> QED BY <1>9, <3>1
  <2>2. ASSUME NEW j \in Current(o)' PROVE LineAt(j) = last_line'
    BY <1>7
  <2> QED BY <1>8, <1>9, <1>10, <1>12, <2>1, <2>2
<1>13. o \notin Current(m)
  BY <1>2 DEF Current
<1> QED BY <1>1, <1>6, <1>7, <1>11, <1>12, <1>13

\* Where a run ends, all of it has been read, and the runs up to here are the
\* ones before it and itself.
LEMMA RunEnds ==
  ASSUME ReaderInv, NEW m, NEW p, InRun(m, p),
         offset \in RunStarts \/ offset = Len(text) + 1
  PROVE  /\ RunOf(m) = Current(m)
         /\ {r \in RunStarts : r < offset} = {r \in RunStarts : r < m} \cup {m}
<1>1. /\ m \in RunStarts /\ m < offset /\ m \in Nat /\ offset \in Nat
      /\ \A r \in RunStarts : r <= m \/ r >= offset
  BY RunLine, RunsType DEF InRun
<1>2. /\ FirstBytes \subseteq Nat /\ RunStarts \subseteq Nat
      /\ FirstBytes \subseteq 1..Len(text) /\ Len(text) \in Nat
  BY RunsType
<1>3. ASSUME NEW j \in FirstBytes
      PROVE  (j >= m /\ \A r \in RunStarts : r <= m \/ r > j) <=> (m <= j /\ j < offset)
  <2>1. j \in Nat /\ j \in 1..Len(text)
    BY <1>2
  <2>2. ASSUME j < offset, NEW r \in RunStarts PROVE r <= m \/ r > j
    <3>1. r \in Nat /\ (r <= m \/ r >= offset)
      BY <1>1, <1>2
    <3> QED BY <1>1, <2>1, <2>2, <3>1
  <2>3. ASSUME \A r \in RunStarts : r <= m \/ r > j, ~(j < offset) PROVE FALSE
    <3>1. CASE offset \in RunStarts
      BY <1>1, <2>1, <2>3, <3>1
    <3>2. CASE offset = Len(text) + 1
      BY <1>2, <2>1, <2>3, <3>2
    <3> QED BY <3>1, <3>2
  <2>4. j >= m <=> m <= j
    BY <1>1, <2>1
  <2> QED BY <2>2, <2>3, <2>4
<1>4. RunOf(m) = Current(m)
  BY <1>3 DEF RunOf, Current
<1>5. ASSUME NEW r \in RunStarts PROVE r < offset <=> r < m \/ r = m
  <2>1. r \in Nat /\ (r <= m \/ r >= offset)
    BY <1>1, <1>2
  <2> QED BY <1>1, <2>1
<1> QED BY <1>1, <1>4, <1>5
\* A line is in one run only.
LEMMA OneRun ==
  ASSUME ReaderInv, NEW i \in RunStarts, NEW k \in RunStarts,
         NEW j \in FirstBytes, j \in RunOf(i), j \in RunOf(k)
  PROVE  i = k
<1>1. i \in Nat /\ k \in Nat /\ j \in Nat
  BY RunsType
<1>2. j >= i /\ j >= k /\ (k <= i \/ k > j) /\ (i <= k \/ i > j)
  BY DEF RunOf
<1> QED BY <1>1, <1>2

\* The first line of a run is not a second one.
LEMMA StartNotSecond ==
  ASSUME ReaderInv, NEW o \in RunStarts
  PROVE  o \notin SecondLines
<1>1. o \in FirstBytes /\ o \in Nat /\ RunStarts \subseteq Nat /\ FirstBytes \subseteq Nat
  BY RunsType
<1>2. o \in RunOf(o)
  <2>1. \A r \in RunStarts : r <= o \/ r > o
    BY <1>1
  <2> QED BY <1>1, <2>1 DEF RunOf
<1>3. {j \in RunOf(o) : j <= o} = {o}
  <2>1. ASSUME NEW j \in RunOf(o), j <= o PROVE j = o
    <3>1. j \in Nat /\ j >= o
      BY <1>1 DEF RunOf
    <3> QED BY <1>1, <2>1, <3>1
  <2> QED BY <1>1, <1>2, <2>1
<1>4. Rank(o, RunOf(o)) = 1
  BY <1>3, FS_Singleton DEF Rank
<1>5. Rank(o, RunOf(o)) % 2 # 0
  BY <1>4
<1> QED BY <1>1, <1>2, <1>5, OneRun DEF SecondLines

\* A line that goes on with a run is a second one when an odd number of lines
\* of the run comes before it.
LEMMA SecondAt ==
  ASSUME ReaderInv, NEW m, NEW p, InRun(m, p), NEW o \in FirstBytes, o = offset,
         o \notin RunStarts
  PROVE  o \in SecondLines <=> (Cardinality(Current(m)) + 1) % 2 = 0
<1>1. /\ m \in RunStarts /\ m < o /\ m \in Nat /\ o \in Nat
      /\ \A r \in RunStarts : r <= m \/ r >= o
      /\ RunStarts \subseteq Nat /\ FirstBytes \subseteq Nat
  BY RunLine, RunsType DEF InRun
<1>2. ASSUME NEW r \in RunStarts PROVE r <= m \/ r > o
  <2>1. r \in Nat /\ (r <= m \/ r >= o) /\ r # o
    BY <1>1
  <2> QED BY <1>1, <2>1
<1>3. o \in RunOf(m)
  BY <1>1, <1>2 DEF RunOf
<1>4. {j \in RunOf(m) : j <= o} = Current(m) \cup {o}
  <2>1. ASSUME NEW j \in FirstBytes
        PROVE  (j \in RunOf(m) /\ j <= o) <=> (j \in Current(m) \/ j = o)
    <3>1. j \in Nat
      BY <1>1
    <3>2. ASSUME m <= j, j < o PROVE j \in RunOf(m)
      <4>1. ASSUME NEW r \in RunStarts PROVE r <= m \/ r > j
        <5>1. r \in Nat /\ (r <= m \/ r > o)
          BY <1>1, <1>2
        <5> QED BY <1>1, <3>1, <3>2, <5>1
      <4> QED BY <1>1, <3>1, <3>2, <4>1 DEF RunOf
    <3>3. j \in RunOf(m) => m <= j
      BY <1>1, <3>1 DEF RunOf
    <3>4. j \in Current(m) <=> m <= j /\ j < o
      BY DEF Current
    <3> QED BY <1>1, <1>3, <3>1, <3>2, <3>3, <3>4
  <2>2. RunOf(m) \subseteq FirstBytes /\ Current(m) \subseteq FirstBytes
    BY DEF RunOf, Current
  <2> QED BY <2>1, <2>2
<1>5. Rank(o, RunOf(m)) = Cardinality(Current(m)) + 1
  <2>1. IsFiniteSet(Current(m))
    BY FiniteLines DEF Current
  <2>2. o \notin Current(m)
    BY <1>1 DEF Current
  <2>3. Cardinality(Current(m) \cup {o}) = Cardinality(Current(m)) + 1
    BY <2>1, <2>2, FS_AddElement
  <2> QED BY <1>4, <2>3 DEF Rank
<1>6. o \in SecondLines <=> Rank(o, RunOf(m)) % 2 = 0
  BY <1>1, <1>3, OneRun DEF SecondLines
<1> QED BY <1>5, <1>6

\* Even and odd numbers alternate.
LEMMA Parity ==
  ASSUME NEW c \in Nat
  PROVE  (c + 1) % 2 = 0 <=> ~(c % 2 = 0)
  OBVIOUS

\* The items belong to the file and the options.
LEMMA SameItems ==
  ASSUME text' = text, show_count' = show_count, ignore' = ignore
  PROVE  /\ AllDefined' = AllDefined
         /\ AllRuns' = AllRuns /\ AllSeconds' = AllSeconds
<1>1. AllDefined' = AllDefined
  BY Same DEF AllDefined, Defined
<1>2. \A i : RunItem(i)' = RunItem(i) /\ SecondItem(i)' = SecondItem(i)
  BY Same DEF RunItem, SecondItem
<1>3. AllRuns' = AllRuns
  BY <1>2, Same DEF AllRuns
<1>4. AllSeconds' = AllSeconds
  BY <1>2, Same DEF AllSeconds
<1> QED BY <1>1, <1>3, <1>4

\* The items are of the output's type.
LEMMA ItemsType ==
  ASSUME ReaderInv
  PROVE  /\ \A i \in RunStarts : AllRuns[i] = RunItem(i) /\ RunItem(i) \in Items
         /\ \A j \in SecondLines :
              AllSeconds[j] = SecondItem(j) /\ SecondItem(j) \in Items
<1>1. ASSUME NEW i \in FirstBytes PROVE LineAt(i) \in Seq(Characters)
  <2>1. i \in 1..(Len(text) + 1) /\ text \in Seq(Characters)
    BY RunsType
  <2> QED BY <2>1, Reads
<1>2. ASSUME NEW i PROVE Cardinality(RunOf(i)) \in Nat
  <2>1. RunOf(i) \in SUBSET FirstBytes
    BY DEF RunOf
  <2> QED BY <2>1, FiniteLines
<1>3. ASSUME NEW i \in RunStarts PROVE AllRuns[i] = RunItem(i) /\ RunItem(i) \in Items
  <2>1. LineAt(i) \in Seq(Characters)
    BY <1>1, RunsType
  <2> QED BY <1>2, <2>1 DEF AllRuns, RunItem, Items
<1>4. ASSUME NEW j \in SecondLines
      PROVE  AllSeconds[j] = SecondItem(j) /\ SecondItem(j) \in Items
  <2>1. LineAt(j) \in Seq(Characters)
    BY <1>1, RunsType
  <2> QED BY <2>1 DEF AllSeconds, SecondItem, Items
<1> QED BY <1>3, <1>4

\* Where the run from m on ends, what is printed without -d is its item, and
\* it goes behind the runs before it.
LEMMA RunPrinted ==
  ASSUME ReaderInv, NEW m, NEW p, InRun(m, p), RunsSoFar(m),
         offset \in RunStarts \/ offset = Len(text) + 1
  PROVE  Lists(Counted(last_line), {r \in RunStarts : r < offset}, AllRuns)
<1> DEFINE S == {r \in RunStarts : r < m}
<1>1. m \in RunStarts /\ m \in Nat /\ LineAt(m) = last_line /\ RunOf(m) = Current(m)
  BY RunLine, RunEnds DEF InRun
<1>2. dupe_count = Cardinality(RunOf(m)) /\ Lists(output, S, AllRuns)
  BY <1>1 DEF RunsSoFar
<1>3. AllRuns[m] \in Items /\ AllRuns[m] = RunItem(m)
  BY <1>1, ItemsType
<1>4. Counted(last_line) = Append(output, AllRuns[m])
  BY <1>1, <1>2, <1>3 DEF Counted, Printed, RunItem
<1>5. S \in SUBSET Nat /\ IsFiniteSet(S) /\ \A i \in S : i < m
  <2>1. S \in SUBSET FirstBytes
    BY RunsType
  <2>2. IsFiniteSet(S)
    <3> HIDE DEF S
    <3> QED BY <2>1, FiniteLines
  <2> QED BY <2>2, RunsType
<1>6. output \in Seq(Items)
  BY DEF ReaderInv
<1>7. Lists(Append(output, AllRuns[m]), S \cup {m}, AllRuns)
  <2> HIDE DEF S
  <2> QED BY <1>1, <1>2, <1>3, <1>5, <1>6, ListsGrow
<1>8. {r \in RunStarts : r < offset} = S \cup {m}
  BY RunEnds
<1> HIDE DEF S
<1> QED BY <1>4, <1>7, <1>8
-----------------------------------------------------------------------------
(***************************************************************************)
(* The steps of the loops.                                                 *)
(***************************************************************************)

\* The first line begins the first run.
LEMMA FirstRun ==
  ASSUME ReaderInv, FirstLine
  PROVE  RunInv'
<1> SUFFICES ASSUME uniq_pc' = "loop"
             PROVE  \E m, p \in FirstBytes :
                      /\ InRun(m, p)'
                      /\ duplicate' = 0 => RunsSoFar(m)'
                      /\ duplicate' = 1 => SecondsSoFar(m)'
  <2>1. text' = text
    BY FirstLineDoes
  <2> QED BY <2>1, Same DEF RunInv
<1>1. /\ UNCHANGED <<text, show_count, duplicate, ignore>>
      /\ output' = <<>> /\ dupe_count' = 1 /\ dupe_found' = FALSE
      /\ 1 \in FirstBytes /\ last_line' = LineAt(1)
      /\ offset' = myreadline(1).next
  BY FirstLineDoes DEF ReaderInv
<1>2. /\ offset' \in 2..(Len(text) + 1)
      /\ \A j \in FirstBytes : j < offset' <=> j <= 1
  BY <1>1, ReadLine, RunsType
<1>3. /\ FirstBytes \subseteq 1..Len(text) /\ Len(text) \in Nat
      /\ RunStarts \subseteq FirstBytes /\ SecondLines \subseteq FirstBytes
  BY RunsType
<1>4. \A j \in FirstBytes : j \in Nat /\ j >= 1 /\ (j < offset' <=> j = 1)
  BY <1>2, <1>3
<1>5. LinesRead' = {1} /\ Current(1)' = {1}
  <2>1. /\ LinesRead' = {j \in FirstBytes : j < offset'}
        /\ Current(1)' = {j \in FirstBytes : 1 <= j /\ j < offset'}
    BY <1>1, Same DEF LinesRead, Current
  <2>2. \A j \in FirstBytes : 1 <= j
    BY <1>4
  <2> QED BY <1>1, <1>4, <2>1, <2>2
<1>6. 1 \in RunStarts
  BY <1>1 DEF RunStarts
<1>7. InRun(1, 1)'
  <2>1. /\ RunStarts' = RunStarts
        /\ \A j : LineAt(j)' = LineAt(j)
    BY <1>1, Same
  <2>2. \A r \in RunStarts : r <= 1 \/ r >= offset'
    <3> SUFFICES ASSUME NEW r \in RunStarts PROVE r <= 1 \/ r >= offset'
      OBVIOUS
    <3>1. r \in Nat /\ (r < offset' <=> r = 1)
      BY <1>3, <1>4
    <3>2. offset' \in Nat
      BY <1>2
    <3> QED BY <3>1, <3>2
  <2>3. 1 < offset'
    BY <1>2
  <2>4. \A j \in Current(1)' : LineAt(j) = last_line'
    BY <1>1, <1>5
  <2>5. 1 \in LinesRead' /\ \A j \in LinesRead' : j <= 1
    BY <1>5
  <2> QED BY <1>6, <2>1, <2>2, <2>3, <2>4, <2>5 DEF InRun
<1>8. Cardinality(Current(1)') = 1
  BY <1>5, FS_Singleton
<1>9. ASSUME NEW item PROVE Lists(output', {}, item)
  BY <1>1, FS_EmptySet DEF Lists
<1>10. RunsSoFar(1)'
  <2>0. \A r \in RunStarts : ~(r < 1)
    BY <1>3
  <2>1. {r \in RunStarts : r < 1} = {}
    BY <2>0
  <2>2. RunsSoFar(1)' <=>
          /\ dupe_count' = Cardinality(Current(1)')
          /\ Lists(output', {r \in RunStarts' : r < 1}, AllRuns')
    BY DEF RunsSoFar, Lists, Rank
  <2>3. RunStarts' = RunStarts
    BY <1>1, Same
  <2> QED BY <1>1, <1>8, <1>9, <2>1, <2>2, <2>3
<1>11. SecondsSoFar(1)'
  <2>1. {j \in SecondLines : j < offset'} = {}
    BY <1>3, <1>4, <1>6, StartNotSecond
  <2>2. SecondsSoFar(1)' <=>
          /\ dupe_found' <=> Cardinality(Current(1)') % 2 = 0
          /\ Lists(output', {j \in SecondLines' : j < offset'}, AllSeconds')
    BY DEF SecondsSoFar, Lists, Rank
  <2>3. SecondLines' = SecondLines
    BY <1>1, Same
  <2>4. ~(1 % 2 = 0)
    OBVIOUS
  <2> QED BY <1>1, <1>8, <1>9, <2>1, <2>2, <2>3, <2>4
<1> QED BY <1>1, <1>7, <1>10, <1>11

\* A round without -d counts a line that goes on with the run, and prints the
\* run when another one starts.
LEMMA RoundRuns ==
  ASSUME ReaderInv, AllDefined, NEW m, NEW p, InRun(m, p), RunsSoFar(m),
         NEW eq \in BOOLEAN, Round(eq)
  PROVE  \E k, q \in FirstBytes : InRun(k, q)' /\ RunsSoFar(k)'
<1>1. /\ UNCHANGED <<text, show_count, duplicate, ignore>>
      /\ myreadline(offset).n > 0 /\ offset' = myreadline(offset).next
      /\ eq \in string_compare(last_line, LineAt(offset))
      /\ last_line' = IF eq THEN last_line ELSE LineAt(offset)
      /\ output' = IF eq THEN output ELSE Counted(last_line)
      /\ dupe_count' = IF eq THEN dupe_count + 1 ELSE 1
  BY RoundDoes
<1>2. PICK o : o = offset
  OBVIOUS
<1>3. o \in FirstBytes
  BY <1>1, <1>2, RoundReads
<1>4. (eq <=> LineAt(o) = last_line) /\ (eq <=> o \notin RunStarts)
  BY <1>1, <1>2, <1>3, Answer
<1>5. last_line' = LineAt(offset)
  BY <1>1, <1>2, <1>4
<1>6. /\ o \notin RunStarts /\ LineAt(o) = last_line =>
           InRun(m, o)' /\ Current(m)' = Current(m) \cup {o}
      /\ o \in RunStarts => InRun(o, o)' /\ Current(o)' = {o}
      /\ o \notin Current(m)
  BY <1>1, <1>2, <1>5, RunGoesOn
<1>7. ASSUME NEW k
      PROVE  RunsSoFar(k)' <=>
               /\ dupe_count' = Cardinality(Current(k)')
               /\ Lists(output', {r \in RunStarts : r < k}, AllRuns)
  <2>1. RunStarts' = RunStarts /\ AllRuns' = AllRuns
    BY <1>1, Same, SameItems
  <2>2. RunsSoFar(k)' <=>
          /\ dupe_count' = Cardinality(Current(k)')
          /\ Lists(output', {r \in RunStarts' : r < k}, AllRuns')
    BY DEF RunsSoFar, Lists, Rank
  <2> QED BY <2>1, <2>2
<1>8. m \in FirstBytes /\ IsFiniteSet(Current(m))
  BY RunLine, FiniteLines DEF Current
<1>9. CASE eq
  <2>1. InRun(m, o)' /\ Current(m)' = Current(m) \cup {o}
    BY <1>4, <1>6, <1>9
  <2>2. Cardinality(Current(m)') = Cardinality(Current(m)) + 1
    BY <1>6, <1>8, <2>1, FS_AddElement
  <2>3. dupe_count = Cardinality(Current(m)) /\ Lists(output, {r \in RunStarts : r < m}, AllRuns)
    BY DEF RunsSoFar
  <2>4. RunsSoFar(m)'
    BY <1>1, <1>7, <1>9, <2>2, <2>3
  <2> QED BY <1>3, <1>8, <2>1, <2>4
<1>10. CASE ~eq
  <2>1. o \in RunStarts /\ InRun(o, o)' /\ Current(o)' = {o}
    BY <1>4, <1>6, <1>10
  <2>2. Cardinality(Current(o)') = 1
    BY <2>1, FS_Singleton
  <2>3. Lists(Counted(last_line), {r \in RunStarts : r < o}, AllRuns)
    BY <1>2, <2>1, RunPrinted
  <2>4. RunsSoFar(o)'
    BY <1>1, <1>7, <1>10, <2>2, <2>3
  <2> QED BY <1>3, <2>1, <2>4
<1> QED BY <1>9, <1>10

\* A round with -d prints the line exactly when it is a second one.
LEMMA RoundSeconds ==
  ASSUME ReaderInv, AllDefined, NEW m, NEW p, InRun(m, p), SecondsSoFar(m),
         NEW eq \in BOOLEAN, DuplicateRound(eq)
  PROVE  \E k, q \in FirstBytes : InRun(k, q)' /\ SecondsSoFar(k)'
<1>1. /\ UNCHANGED <<text, show_count, duplicate, ignore>>
      /\ myreadline(offset).n > 0 /\ offset' = myreadline(offset).next
      /\ eq \in string_compare(last_line, LineAt(offset))
      /\ dupe_found' = (eq /\ ~dupe_found)
      /\ eq /\ ~dupe_found =>
           output' = Printed(0, last_line) /\ last_line' = last_line
      /\ ~(eq /\ ~dupe_found) =>
           output' = output /\ last_line' = LineAt(offset)
  BY DuplicateRoundDoes
<1>2. PICK o : o = offset
  OBVIOUS
<1>3. /\ o \in FirstBytes /\ o \in Nat /\ FirstBytes \subseteq Nat
      /\ SecondLines \subseteq FirstBytes
      /\ \A j \in FirstBytes : j < offset' <=> j <= o
  BY <1>1, <1>2, RoundReads, RunsType
<1>4. (eq <=> LineAt(o) = last_line) /\ (eq <=> o \notin RunStarts)
  BY <1>1, <1>2, <1>3, Answer
<1>5. last_line' = LineAt(offset)
  BY <1>1, <1>2, <1>4
<1>6. /\ o \notin RunStarts /\ LineAt(o) = last_line =>
           InRun(m, o)' /\ Current(m)' = Current(m) \cup {o}
      /\ o \in RunStarts => InRun(o, o)' /\ Current(o)' = {o}
      /\ o \notin Current(m)
  BY <1>1, <1>2, <1>5, RunGoesOn
<1> DEFINE S == {j \in SecondLines : j < offset}
           T == {j \in SecondLines : j < offset'}
           c == Cardinality(Current(m))
<1>7. ASSUME NEW k
      PROVE  SecondsSoFar(k)' <=>
               /\ dupe_found' <=> Cardinality(Current(k)') % 2 = 0
               /\ Lists(output', T, AllSeconds)
  <2>1. SecondLines' = SecondLines /\ AllSeconds' = AllSeconds
    BY <1>1, Same, SameItems
  <2>2. SecondsSoFar(k)' <=>
          /\ dupe_found' <=> Cardinality(Current(k)') % 2 = 0
          /\ Lists(output', {j \in SecondLines' : j < offset'}, AllSeconds')
    BY DEF SecondsSoFar, Lists, Rank
  <2> QED BY <2>1, <2>2
<1>8. /\ m \in FirstBytes /\ IsFiniteSet(Current(m)) /\ c \in Nat
      /\ (dupe_found <=> c % 2 = 0) /\ Lists(output, S, AllSeconds)
      /\ dupe_found \in BOOLEAN
  <2>1. Current(m) \in SUBSET FirstBytes
    BY DEF Current
  <2>2. IsFiniteSet(Current(m)) /\ c \in Nat
    BY <2>1, FiniteLines
  <2> QED BY <2>2, RunLine DEF SecondsSoFar, ReaderInv
<1>9. T = IF o \in SecondLines THEN S \cup {o} ELSE S
  <2>1. ASSUME NEW j \in SecondLines PROVE j < offset' <=> j < offset \/ j = o
    <3>1. j \in Nat /\ (j < offset' <=> j <= o)
      BY <1>3
    <3> QED BY <1>2, <1>3, <3>1
  <2>2. CASE o \in SecondLines
    BY <2>1, <2>2
  <2>3. CASE o \notin SecondLines
    BY <2>1, <2>3
  <2> QED BY <2>2, <2>3
<1>10. S \in SUBSET Nat /\ IsFiniteSet(S) /\ \A i \in S : i < o
  <2>1. S \in SUBSET FirstBytes
    BY <1>3
  <2>2. IsFiniteSet(S)
    <3> HIDE DEF S
    <3> QED BY <2>1, FiniteLines
  <2> QED BY <1>2, <1>3, <2>2
<1> HIDE DEF S, T, c
<1>11. CASE eq
  <2>1. InRun(m, o)' /\ Current(m)' = Current(m) \cup {o} /\ o \notin RunStarts
    BY <1>4, <1>6, <1>11
  <2>2. Cardinality(Current(m)') = c + 1
    BY <1>6, <1>8, <2>1, FS_AddElement DEF c
  <2>3. o \in SecondLines <=> (c + 1) % 2 = 0
    BY <1>2, <1>3, <2>1, SecondAt DEF c
  <2>4. (c + 1) % 2 = 0 <=> ~dupe_found
    BY <1>8, Parity
  <2>5. dupe_found' <=> Cardinality(Current(m)') % 2 = 0
    BY <1>1, <1>11, <2>2, <2>4
  <2>6. Lists(output', T, AllSeconds)
    <3>1. CASE dupe_found
      BY <1>1, <1>8, <1>9, <2>3, <2>4, <3>1
    <3>2. CASE ~dupe_found
      <4>1. o \in SecondLines /\ T = S \cup {o}
        BY <1>9, <2>3, <2>4, <3>2
      <4>2. AllSeconds[o] \in Items /\ AllSeconds[o] = SecondItem(o)
        BY <4>1, ItemsType
      <4>3. output' = Append(output, AllSeconds[o])
        BY <1>1, <1>4, <1>11, <3>2, <4>2 DEF Printed, SecondItem
      <4>4. output \in Seq(Items)
        BY DEF ReaderInv
      <4>5. Lists(Append(output, AllSeconds[o]), S \cup {o}, AllSeconds)
        BY <1>3, <1>8, <1>10, <4>2, <4>4, ListsGrow
      <4> QED BY <4>1, <4>3, <4>5
    <3> QED BY <3>1, <3>2
  <2>7. SecondsSoFar(m)'
    BY <1>7, <2>5, <2>6
  <2> QED BY <1>3, <1>8, <2>1, <2>7
<1>12. CASE ~eq
  <2>1. o \in RunStarts /\ InRun(o, o)' /\ Current(o)' = {o}
    BY <1>4, <1>6, <1>12
  <2>2. Cardinality(Current(o)') = 1 /\ ~(1 % 2 = 0)
    BY <2>1, FS_Singleton
  <2>3. T = S /\ output' = output
    BY <1>1, <1>9, <1>12, <2>1, StartNotSecond
  <2>4. SecondsSoFar(o)'
    BY <1>1, <1>7, <1>8, <1>12, <2>2, <2>3
  <2> QED BY <1>3, <2>1, <2>4
<1> QED BY <1>11, <1>12
\* A step that changes nothing.
LEMMA StutterRuns ==
  ASSUME RunInv, UNCHANGED uniqVars
  PROVE  RunInv'
<1>1. /\ UNCHANGED <<text, show_count, duplicate, ignore>> /\ UNCHANGED uniq_pc
      /\ UNCHANGED <<offset, last_line, dupe_count, dupe_found, output>>
  BY DEF uniqVars, options
<1>2. /\ FirstBytes' = FirstBytes /\ RunStarts' = RunStarts
      /\ SecondLines' = SecondLines /\ \A i : LineAt(i)' = LineAt(i)
      /\ AllDefined' = AllDefined /\ AllRuns' = AllRuns /\ AllSeconds' = AllSeconds
  BY <1>1, Same, SameItems
<1>3. /\ LinesRead' = LinesRead /\ \A k : Current(k)' = Current(k)
  BY <1>1, <1>2 DEF LinesRead, Current
<1>4. \A k, q : InRun(k, q)' = InRun(k, q)
  BY <1>1, <1>2, <1>3 DEF InRun
<1>5. \A k : RunsSoFar(k)' = RunsSoFar(k)
  <2>1. ASSUME NEW k
        PROVE  RunsSoFar(k)' =
                 (/\ dupe_count' = Cardinality(Current(k)')
                  /\ Lists(output', {r \in RunStarts' : r < k}, AllRuns'))
    BY DEF RunsSoFar, Lists, Rank
  <2> QED BY <1>1, <1>2, <1>3, <2>1 DEF RunsSoFar
<1>6. \A k : SecondsSoFar(k)' = SecondsSoFar(k)
  <2>1. ASSUME NEW k
        PROVE  SecondsSoFar(k)' =
                 (/\ dupe_found' <=> Cardinality(Current(k)') % 2 = 0
                  /\ Lists(output', {j \in SecondLines' : j < offset'}, AllSeconds'))
    BY DEF SecondsSoFar, Lists, Rank
  <2> QED BY <1>1, <1>2, <1>3, <2>1 DEF SecondsSoFar
<1> QED BY <1>1, <1>2, <1>4, <1>5, <1>6 DEF RunInv

\* Every step keeps the invariant of the loops.
LEMMA RunStep ==
  ASSUME ReaderInv, RunInv, [UniqNext]_uniqVars
  PROVE  RunInv'
<1>1. CASE FirstLine
  BY <1>1, FirstRun
<1>2. ASSUME NEW eq \in BOOLEAN, Round(eq) PROVE RunInv'
  <2>1. /\ uniq_pc = "loop" /\ duplicate = 0 /\ duplicate' = 0
        /\ text' = text /\ show_count' = show_count /\ ignore' = ignore
    BY <1>2, RoundDoes
  <2>2. AllDefined' = AllDefined /\ FirstBytes' = FirstBytes
    BY <2>1, Same, SameItems
  <2>3. ASSUME AllDefined PROVE \E k, q \in FirstBytes : InRun(k, q)' /\ RunsSoFar(k)'
    <3>1. PICK m, p \in FirstBytes : InRun(m, p) /\ RunsSoFar(m)
      BY <2>1, <2>3 DEF RunInv
    <3> QED BY <1>2, <2>3, <3>1, RoundRuns
  <2> QED BY <2>1, <2>2, <2>3 DEF RunInv
<1>3. ASSUME NEW eq \in BOOLEAN, DuplicateRound(eq) PROVE RunInv'
  <2>1. /\ uniq_pc = "loop" /\ duplicate = 1 /\ duplicate' = 1
        /\ text' = text /\ show_count' = show_count /\ ignore' = ignore
    BY <1>3, DuplicateRoundDoes
  <2>2. AllDefined' = AllDefined /\ FirstBytes' = FirstBytes
    BY <2>1, Same, SameItems
  <2>3. ASSUME AllDefined PROVE \E k, q \in FirstBytes : InRun(k, q)' /\ SecondsSoFar(k)'
    <3>1. PICK m, p \in FirstBytes : InRun(m, p) /\ SecondsSoFar(m)
      BY <2>1, <2>3 DEF RunInv
    <3> QED BY <1>3, <2>3, <3>1, RoundSeconds
  <2> QED BY <2>1, <2>2, <2>3 DEF RunInv
<1>4. CASE Finish
  <2>1. uniq_pc' = "done"
    BY <1>4, FinishDoes
  <2> QED BY <2>1 DEF RunInv
<1>5. CASE UniqOver \/ UNCHANGED uniqVars
  BY <1>5, StutterRuns DEF UniqOver
<1> QED BY <1>1, <1>2, <1>3, <1>4, <1>5 DEF UniqNext

\* The two properties of the whole output, said with Lists.
AllListed ==
  uniq_pc = "done" /\ AllDefined =>
    /\ duplicate = 0 => Lists(output, RunStarts, AllRuns)
    /\ duplicate = 1 => Lists(output, SecondLines, AllSeconds)

\* They are what the properties say.
LEMMA ListedIs == AllListed => RunsPrinted /\ DuplicatesFound
  BY DEF AllListed, RunsPrinted, DuplicatesFound, AllRuns, AllSeconds, RunItem, SecondItem

\* At the end of the file the last run is printed too, and no second line is
\* left.
LEMMA ListedStep ==
  ASSUME ReaderInv, RunInv, AllListed, [UniqNext]_uniqVars
  PROVE  AllListed'
<1>1. CASE Finish
  <2>1. /\ uniq_pc = "loop"
        /\ UNCHANGED <<text, show_count, duplicate, ignore>>
        /\ offset = Len(text) + 1
        /\ output' = IF duplicate = 0 THEN Counted(last_line) ELSE output
    BY <1>1, FinishDoes
  <2>2. /\ RunStarts' = RunStarts /\ SecondLines' = SecondLines
        /\ AllDefined' = AllDefined /\ AllRuns' = AllRuns /\ AllSeconds' = AllSeconds
    BY <2>1, Same, SameItems
  <2>3. AllListed' <=>
          (uniq_pc' = "done" /\ AllDefined' =>
             /\ duplicate' = 0 => Lists(output', RunStarts', AllRuns')
             /\ duplicate' = 1 => Lists(output', SecondLines', AllSeconds'))
    BY DEF AllListed, Lists, Rank
  <2> SUFFICES ASSUME AllDefined
               PROVE  /\ duplicate = 0 => Lists(output', RunStarts, AllRuns)
                      /\ duplicate = 1 => Lists(output', SecondLines, AllSeconds)
    BY <2>1, <2>2, <2>3
  <2>4. PICK m, p \in FirstBytes :
          /\ InRun(m, p)
          /\ duplicate = 0 => RunsSoFar(m)
          /\ duplicate = 1 => SecondsSoFar(m)
    BY <2>1 DEF RunInv
  <2>5. /\ {r \in RunStarts : r < offset} = RunStarts
        /\ {j \in SecondLines : j < offset} = SecondLines
    <3>1. \A j \in FirstBytes : j < offset
      BY <2>1, RunsType
    <3>2. RunStarts \subseteq FirstBytes /\ SecondLines \subseteq FirstBytes
      BY RunsType
    <3> QED BY <3>1, <3>2
  <2>6. ASSUME duplicate = 0 PROVE Lists(output', RunStarts, AllRuns)
    <3>1. Lists(Counted(last_line), {r \in RunStarts : r < offset}, AllRuns)
      BY <2>1, <2>4, <2>6, RunPrinted
    <3> QED BY <2>1, <2>5, <2>6, <3>1
  <2>7. ASSUME duplicate = 1 PROVE Lists(output', SecondLines, AllSeconds)
    <3>1. Lists(output, {j \in SecondLines : j < offset}, AllSeconds)
      BY <2>4, <2>7 DEF SecondsSoFar
    <3>2. output' = output
      BY <2>1, <2>7
    <3>3. Lists(output, SecondLines, AllSeconds)
      BY <2>5, <3>1
    <3> QED BY <3>2, <3>3
  <2> QED BY <2>6, <2>7
<1>2. CASE FirstLine
  <2>1. uniq_pc' # "done"
    BY <1>2, FirstLineDoes
  <2> QED BY <2>1 DEF AllListed
<1>3. ASSUME NEW eq \in BOOLEAN, Round(eq) \/ DuplicateRound(eq) PROVE AllListed'
  <2>1. uniq_pc' # "done"
    BY <1>3, RoundDoes, DuplicateRoundDoes
  <2> QED BY <2>1 DEF AllListed
<1>4. CASE UniqOver \/ UNCHANGED uniqVars
  <2>1. UNCHANGED uniqVars
    BY <1>4 DEF UniqOver
  <2>2. /\ UNCHANGED <<text, show_count, duplicate, ignore>>
        /\ UNCHANGED <<output, uniq_pc>>
    BY <2>1 DEF uniqVars, options
  <2>3. /\ RunStarts' = RunStarts /\ SecondLines' = SecondLines
        /\ AllDefined' = AllDefined /\ AllRuns' = AllRuns /\ AllSeconds' = AllSeconds
    BY <2>2, Same, SameItems
  <2>4. AllListed' <=>
          (uniq_pc' = "done" /\ AllDefined' =>
             /\ duplicate' = 0 => Lists(output', RunStarts', AllRuns')
             /\ duplicate' = 1 => Lists(output', SecondLines', AllSeconds'))
    BY DEF AllListed, Lists, Rank
  <2> QED BY <2>2, <2>3, <2>4 DEF AllListed
<1> QED BY <1>1, <1>2, <1>3, <1>4 DEF UniqNext

\* They hold in every state of uniq.
LEMMA ListedInvariance == UniqSpec => []AllListed
<1>1. UniqInit => RunInv /\ AllListed
  BY DEF UniqInit, RunInv, AllListed
<1> QED BY <1>1, RunStep, ListedStep, ReaderInvariance, PTL DEF UniqSpec

\* Without -i and -d, and where the comparison is defined, uniq prints each run
\* of equal lines of every file once, in order, with -c its length.
THEOREM RunsArePrinted == UniqSpec => []RunsPrinted
  BY ListedInvariance, ListedIs, PTL

\* With -d, and where the comparison is defined, uniq prints every second line
\* of each run, in order, and nothing else: dupe_found is never carried over to
\* the next run.
THEOREM DuplicatesAreFound == UniqSpec => []DuplicatesFound
  BY ListedInvariance, ListedIs, PTL
=============================================================================
