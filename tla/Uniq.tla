-------------------------------- MODULE Uniq --------------------------------
(***************************************************************************)
(* uniq of hw1: the line reader, the comparison and the two modes.  A file *)
(* is a sequence of characters; a line is kept without the newline that    *)
(* myreadline() ends it with, and is shorter than the buffers.             *)
(*                                                                         *)
(* string_compare() copies both lines into arrays without room for the     *)
(* terminating null.  With -i the copies are not terminated, so the        *)
(* comparison of equal lines goes on into whatever follows them; without   *)
(* -i the null of the second copy is written behind it, which is the first *)
(* copy's first byte when the array fills its aligned place on the stack.  *)
(* Different lines always differ before that.                              *)
(***************************************************************************)
EXTENDS Order, SequencesExt, FiniteSetsExt

CONSTANTS
  ALIGN,     \* alignment of an array on the stack (16, reduced)
  FILELEN    \* bound: the length of the file

ASSUME UniqAssumption == ALIGN \in Nat \ {0} /\ FILELEN \in Nat

Letters == {"a", "A", "b"}
NL      == "nl"

VARIABLES
  text, offset,               \* the input and the position of the next byte
  show_count, duplicate, ignore, \* the options
  last_line, dupe_count, dupe_found,
  output,                     \* the lines printed, each with its number
  uniq_pc

options == <<text, show_count, duplicate, ignore>>
uniqVars == <<options, offset, last_line, dupe_count, dupe_found, output, uniq_pc>>

-----------------------------------------------------------------------------
\* myreadline(): the line at position i, the position after it, and what it
\* returns, 0 only when there is not a single byte left.
LineEnd(i) == Min({j \in i..(Len(text) + 1) : j = Len(text) + 1 \/ text[j] = NL})
LineAt(i)  == SubSeq(text, i, LineEnd(i) - 1)
myreadline(i) ==
  [line |-> LineAt(i),
   next |-> Min({LineEnd(i) + 1, Len(text) + 1}),
   n    |-> IF i > Len(text) THEN 0 ELSE 1]

\* to_upper()
to_upper(l) == [k \in DOMAIN l |-> IF l[k] = "a" THEN "A" ELSE l[k]]

\* What string_compare() can return.
Defined(l) == (Len(l) + 1) % ALIGN # 0
string_compare(l1, l2) ==
  LET same == IF ignore = 1 THEN to_upper(l1) = to_upper(l2) ELSE l1 = l2
  IN CASE ~same -> {FALSE}
       [] same /\ ignore = 0 /\ Defined(l1) -> {TRUE}
       [] OTHER -> BOOLEAN

\* printf() of a line with the number n, 0 where none is printed; only -c
\* prints the count.
Printed(n, l) == Append(output, [n |-> n, line |-> l])
Counted(l)    == Printed(IF show_count = 1 THEN dupe_count ELSE 0, l)

UniqInit ==
  /\ text \in BoundedSeq(Letters \cup {NL}, FILELEN) /\ offset = 1
  /\ show_count \in {0, 1} /\ duplicate \in {0, 1} /\ ignore \in {0, 1}
  /\ last_line = <<>> /\ dupe_count = 1 /\ dupe_found = FALSE
  /\ output = <<>> /\ uniq_pc = "uniq"

\* uniq(): the first line, or "error - file empty".
FirstLine ==
  /\ uniq_pc = "uniq"
  /\ LET r == myreadline(offset)
     IN /\ uniq_pc' = IF r.n = 0 THEN "empty" ELSE "loop"
        /\ last_line' = r.line /\ offset' = r.next
  /\ UNCHANGED <<options, dupe_count, dupe_found, output>>

\* dupe_found after a comparison in the duplicate mode: set when the line is
\* printed, cleared by any other line.
FoundAfter_Kept(eq) == dupe_found \/ eq
FoundAfter(eq) == eq /\ ~dupe_found

\* A round of the loop of uniq_duplicate_mode(), with the answer eq.
DuplicateRound(eq) ==
  /\ uniq_pc = "loop" /\ duplicate = 1
  /\ LET r == myreadline(offset)
     IN /\ r.n > 0 /\ offset' = r.next
        /\ eq \in string_compare(last_line, r.line)
        /\ IF eq /\ ~dupe_found
           THEN output' = Printed(0, last_line) /\ UNCHANGED last_line
           ELSE last_line' = r.line /\ UNCHANGED output
        /\ dupe_found' = FoundAfter(eq)
  /\ UNCHANGED <<options, dupe_count, uniq_pc>>

\* dupe_count after a line that was printed, and after one that was not.
CountAfter_NoReset(eq) == dupe_count + 1
CountAfter(eq) == IF eq THEN dupe_count + 1 ELSE 1

\* Which line the next one is compared with.
LineAfter_Stale(eq, l) == last_line
LineAfter(eq, l) == IF eq THEN last_line ELSE l

\* A round of the loop of uniq_non_duplicate_mode().
Round(eq) ==
  /\ uniq_pc = "loop" /\ duplicate = 0
  /\ LET r == myreadline(offset)
     IN /\ r.n > 0 /\ offset' = r.next
        /\ eq \in string_compare(last_line, r.line)
        /\ last_line' = LineAfter(eq, r.line)
  /\ output' = IF eq THEN output ELSE Counted(last_line)
  /\ dupe_count' = CountAfter(eq)
  /\ UNCHANGED <<options, dupe_found, uniq_pc>>

\* No line is left; the non-duplicate mode prints the last one.
Finish ==
  /\ uniq_pc = "loop" /\ myreadline(offset).n = 0
  /\ output' = IF duplicate = 0 THEN Counted(last_line) ELSE output
  /\ uniq_pc' = "done"
  /\ UNCHANGED <<options, offset, last_line, dupe_count, dupe_found>>

UniqOver == uniq_pc \in {"done", "empty"} /\ UNCHANGED uniqVars

UniqNext == \/ FirstLine \/ Finish \/ UniqOver
            \/ \E eq \in BOOLEAN : DuplicateRound(eq) \/ Round(eq)

UniqSpec == UniqInit /\ [][UniqNext]_uniqVars

-----------------------------------------------------------------------------
(***************************************************************************)
(* The reference: the lines of a file, by their first bytes, and its runs  *)
(* of equal lines.                                                         *)
(***************************************************************************)
FirstBytes == {i \in DOMAIN text : i = 1 \/ text[i - 1] = NL}
RunStarts  == {i \in FirstBytes :
                 \/ i = 1
                 \/ LineAt(i) # LineAt(Max({j \in FirstBytes : j < i}))}
RunOf(i)   == {j \in FirstBytes : j >= i /\ \A m \in RunStarts : m <= i \/ m > j}

\* The comparison of equal lines is defined in all of the file.
AllDefined == ignore = 0 /\ \A i \in FirstBytes : Defined(LineAt(i))

\* Without -i and -d, uniq prints each run of equal lines once, with -c also
\* its length, where the comparison is defined; a last line without a newline
\* counts, and an empty line is a line.
RunsPrinted ==
  uniq_pc = "done" /\ duplicate = 0 /\ AllDefined =>
    Lists(output, RunStarts,
          [i \in RunStarts |->
             [n    |-> IF show_count = 1 THEN Cardinality(RunOf(i)) ELSE 0,
              line |-> LineAt(i)]])

\* The sums of the numbers in the first items of s, and in all.
Sums(s) ==
  LET sum[k \in 0..Len(s)] == IF k = 0 THEN 0 ELSE sum[k - 1] + s[k].n
  IN sum
Total(s) == Sums(s)[Len(s)]

\* Whatever the comparison of unterminated copies returns, the counts that -c
\* prints add up to the number of lines, also while the file is read.
CountsAddUp ==
  uniq_pc = "loop" /\ duplicate = 0 /\ show_count = 1 =>
    Total(output) + dupe_count = Cardinality({i \in FirstBytes : i < offset})

\* Every second line of each run of equal lines.
SecondLines ==
  {j \in FirstBytes : \E i \in RunStarts : j \in RunOf(i) /\ Rank(j, RunOf(i)) % 2 = 0}

\* With -d, and where the comparison is defined, uniq prints every second line
\* of each run, in order, and nothing else: no line that stands alone, and a
\* run of n lines n \div 2 times, as the line after a printed one clears
\* dupe_found.
DuplicatesFound ==
  uniq_pc = "done" /\ duplicate = 1 /\ AllDefined =>
    Lists(output, SecondLines, [j \in SecondLines |-> [n |-> 0, line |-> LineAt(j)]])

\* The duplicate mode prints a run "if we find a dupe, and its the first
\* occurence": once for each run.
DuplicatesOnce ==
  uniq_pc = "done" /\ duplicate = 1 /\ AllDefined =>
    Len(output) = Cardinality({i \in RunStarts : Cardinality(RunOf(i)) > 1})
=============================================================================
