---------------------------- MODULE ProgramsProofs ----------------------------
(***************************************************************************)
(* Theorems about the smaller programs: lotterytest on the process tree,   *)
(* for every number of slots, the readers of final_project, for all        *)
(* lengths of the file, sizes and counts of blocks and numbers of threads, *)
(* and the system calls of a program, for all sizes of its arguments.      *)
(***************************************************************************)
EXTENDS Syscall, Disk, LotteryTest, FiniteSetTheorems, TLAPS

(***************************************************************************)
(* lotterytest.                                                            *)
(***************************************************************************)
Kids == {q \in Slots : par[q] = Test}

AtMostOne(S) == \A q, r \in S : q = r
AtMostTwo(S) == \A q, r, s \in S : q = r \/ r = s \/ q = s

\* How many children main() can have at each of its points: a fork() adds one
\* at most, a wait() takes one if there is one.
KidsInv ==
  /\ par \in [Slots -> Slots \cup {Null}]
  /\ status \in [Slots -> {"free", "alive", "zombie"}]
  /\ at \in {"none", "fork1", "fork2", "wait1", "wait2", "exit", "gone"}
  /\ status[Test] = IF at = "none" THEN "free"
                    ELSE IF at = "gone" THEN "zombie" ELSE "alive"
  /\ at \in {"none", "fork1", "exit", "gone"} => Kids = {}
  /\ at \in {"fork2", "wait2"} => AtMostOne(Kids)
  /\ at = "wait1" => AtMostTwo(Kids)

\* Where a fork() and a wait() lead.
LEMMA AfterCall ==
  /\ AfterFork /\ at = "fork1" => at' = "fork2"
  /\ AfterFork /\ at = "fork2" => at' = "wait1"
  /\ AfterWait /\ at = "wait1" => at' = "wait2"
  /\ AfterWait /\ at = "wait2" => at' = "exit"
  BY DEF AfterFork, AfterWait

\* Every step of the program and of its children keeps the bounds.
LEMMA KidsStep ==
  ASSUME KidsInv, [TestNext]_testVars
  PROVE  KidsInv'
<1> USE TestAssumption DEF KidsInv
<1>1. ASSUME NEW q \in Slots, Fork(q) PROVE KidsInv'
  <2>1. /\ q # Test
        /\ status' = [status EXCEPT ![q] = "alive"]
        /\ par' = [par EXCEPT ![q] = Test]
    BY <1>1 DEF Fork, Spawn
  <2>2. Kids' \subseteq Kids \cup {q}
    BY <2>1 DEF Kids
  <2>3. CASE at = "fork1"
    BY <1>1, <2>1, <2>2, <2>3, AfterCall DEF Fork, AtMostOne
  <2>4. CASE at = "fork2"
    BY <1>1, <2>1, <2>2, <2>4, AfterCall DEF Fork, AtMostOne, AtMostTwo
  <2> QED BY <1>1, <2>3, <2>4 DEF Fork
<1>2. CASE ForkFails
  <2>1. Kids' = Kids /\ par' = par /\ status' = status
    BY <1>2 DEF ForkFails, treeVars, Kids
  <2>2. CASE at = "fork1"
    BY <1>2, <2>1, <2>2, AfterCall DEF ForkFails, AtMostOne
  <2>3. CASE at = "fork2"
    BY <1>2, <2>1, <2>3, AfterCall DEF ForkFails, AtMostOne, AtMostTwo
  <2> QED BY <1>2, <2>2, <2>3 DEF ForkFails
<1>3. ASSUME NEW q \in Slots, Wait(q) PROVE KidsInv'
  <2>1. /\ q # Test /\ q \in Kids
        /\ status' = [status EXCEPT ![q] = "free"]
        /\ par' = [par EXCEPT ![q] = Null]
    BY <1>3 DEF Wait, Collect, Kids
  <2>2. Kids' = Kids \ {q}
    BY <2>1 DEF Kids
  <2>3. CASE at = "wait1"
    BY <1>3, <2>1, <2>2, <2>3, AfterCall DEF Wait, AtMostOne, AtMostTwo
  <2>4. CASE at = "wait2"
    BY <1>3, <2>1, <2>2, <2>4, AfterCall DEF Wait, AtMostOne
  <2> QED BY <1>3, <2>3, <2>4 DEF Wait
<1>4. CASE WaitFails
  <2>1. Kids = {} /\ Kids' = {} /\ par' = par /\ status' = status
    BY <1>4 DEF WaitFails, NoChildren, treeVars, Kids
  <2>2. CASE at = "wait1"
    BY <1>4, <2>1, <2>2, AfterCall DEF WaitFails, AtMostOne
  <2>3. CASE at = "wait2"
    BY <1>4, <2>1, <2>3, AfterCall DEF WaitFails
  <2> QED BY <1>4, <2>2, <2>3 DEF WaitFails
<1>5. CASE Start
  BY <1>5 DEF Start, Spawn, Kids
<1>6. CASE Exit
  BY <1>6 DEF Exit, Die, Kids
<1>7. ASSUME NEW q \in Slots, ChildExit(q) PROVE KidsInv'
  <2>1. /\ status' = [status EXCEPT ![q] = "zombie"] /\ q # Test /\ at' = at
        /\ par' = [r \in Slots |-> IF par[r] = q THEN Root ELSE par[r]]
    BY <1>7 DEF ChildExit, Die
  <2>2. Kids' \subseteq Kids
    BY <2>1 DEF Kids
  <2> QED BY <2>1, <2>2 DEF AtMostOne, AtMostTwo
<1>8. ASSUME NEW q \in Slots, Reap(q) PROVE KidsInv'
  <2>1. /\ status' = [status EXCEPT ![q] = "free"] /\ status[q] = "zombie"
        /\ par' = [par EXCEPT ![q] = Null]
        /\ at' = IF q = Test THEN "none" ELSE at
    BY <1>8 DEF Reap, Collect
  <2>2. Kids' \subseteq Kids
    BY <2>1 DEF Kids
  <2> QED BY <2>1, <2>2 DEF AtMostOne, AtMostTwo
<1>9. CASE UNCHANGED testVars
  BY <1>9 DEF testVars, treeVars, Kids, AtMostOne, AtMostTwo
<1> QED BY <1>1, <1>2, <1>3, <1>4, <1>5, <1>6, <1>7, <1>8, <1>9
        DEF TestNext, MainStep

\* lotterytest's main() leaves no child to init, whichever of its two calls of
\* fork() failed and in whatever order its children end.
THEOREM NoChildIsLeft ==
  TestSpec => []NoChildLeft
<1>1. TestInit => KidsInv
  BY TestAssumption DEF TestInit, TreeInit, KidsInv, Kids
<1>2. KidsInv /\ [TestNext]_testVars => KidsInv'
  BY KidsStep
<1>3. KidsInv => NoChildLeft
  BY DEF KidsInv, Kids, NoChildLeft
<1> QED BY <1>1, <1>2, <1>3, PTL DEF TestSpec
-----------------------------------------------------------------------------
(***************************************************************************)
(* Arithmetic for the readers of final_project.                            *)
(***************************************************************************)

\* What % and \div compute.
LEMMA DivMod ==
  ASSUME NEW k \in Int, NEW n \in Nat \ {0}
  PROVE  /\ k \div n \in Int /\ k % n \in 0..(n - 1)
         /\ k = n * (k \div n) + (k % n)
  OBVIOUS

\* Multiples of n are in the order of their factors, and at least n apart.
LEMMA Multiples ==
  ASSUME NEW n \in Nat, NEW a \in Int, NEW c \in Int
  PROVE  /\ n * a \in Int /\ a * n = n * a
         /\ a >= c => n * a >= n * c
         /\ a >= c + 1 => n * a >= n * c + n
         /\ n * (a + c) = n * a + n * c
         /\ n * (a - c) = n * a - n * c
         /\ n * (a + 1) = n * a + n
  OBVIOUS

\* A number has one quotient.
LEMMA OneQuotient ==
  ASSUME NEW n \in Nat \ {0}, NEW a \in Int, NEW c \in Int,
         n * a < n * c + n, n * c < n * a + n
  PROVE  a = c
<1>1. CASE a >= c + 1
  BY <1>1, Multiples
<1>2. CASE c >= a + 1
  BY <1>2, Multiples
<1> QED BY <1>1, <1>2

\* The elements k of 0..(n \div m - 1) are those with m * (k + 1) <= n.
LEMMA WholeParts ==
  ASSUME NEW m \in Nat \ {0}, NEW n \in Nat, NEW k \in Nat
  PROVE  k <= (n \div m) - 1 <=> m * k + m <= n
<1> DEFINE q == n \div m
           r == n % m
<1>1. q \in Int /\ r \in 0..(m - 1) /\ n = m * q + r
  BY DivMod
<1> HIDE DEF q, r
<1>2. ASSUME k <= q - 1 PROVE m * k + m <= n
  <2>1. q >= k + 1
    BY <1>1, <1>2
  <2>2. m * q >= m * k + m
    BY <1>1, <2>1, Multiples
  <2>3. m * q \in Int /\ m * k \in Int
    BY <1>1, Multiples
  <2> QED BY <1>1, <2>2, <2>3
<1>3. ASSUME ~(k <= q - 1) PROVE ~(m * k + m <= n)
  <2>1. k >= q
    BY <1>1, <1>3
  <2>2. m * k >= m * q
    BY <1>1, <2>1, Multiples
  <2>3. m * q \in Int /\ m * k \in Int
    BY <1>1, Multiples
  <2> QED BY <1>1, <2>2, <2>3
<1> QED BY <1>2, <1>3 DEF q

\* The larger and the smaller of two numbers.
LEMMA OfTwo ==
  ASSUME NEW a \in Int, NEW c \in Int
  PROVE  /\ Max({a, c}) = IF a >= c THEN a ELSE c
         /\ Min({a, c}) = IF a <= c THEN a ELSE c
<1>1. /\ \E x \in {a, c} : \A y \in {a, c} : x >= y
      /\ \E x \in {a, c} : \A y \in {a, c} : x <= y
  OBVIOUS
<1>2. Max({a, c}) \in {a, c} /\ \A y \in {a, c} : Max({a, c}) >= y
  BY <1>1 DEF Max
<1>3. Min({a, c}) \in {a, c} /\ \A y \in {a, c} : Min({a, c}) <= y
  BY <1>1 DEF Min
<1> QED BY <1>2, <1>3

\* read() returns what is left of the file, n bytes at most.
LEMMA ReadBytes ==
  ASSUME NEW n \in Nat, NEW p \in Nat, fd, file \in Nat
  PROVE  Read(n, p) = IF p >= file THEN 0
                      ELSE IF n <= file - p THEN n ELSE file - p
<1> DEFINE l == file - p
           m == Min({n, l})
<1>0. l \in Int
  OBVIOUS
<1>1. m = IF n <= l THEN n ELSE l
  <2> HIDE DEF l
  <2> QED BY <1>0, OfTwo
<1>2. m \in Int
  BY <1>0, <1>1
<1> HIDE DEF m
<1>3. Max({0, m}) = IF 0 >= m THEN 0 ELSE m
  BY <1>2, OfTwo
<1>4. Read(n, p) = Max({0, m})
  BY DEF Read, m
<1> QED BY <1>0, <1>1, <1>3, <1>4

\* The conversion to int adds a multiple of its range, and changes nothing
\* that is in range.
LEMMA ToIntRange ==
  ASSUME NEW x \in Int
  PROVE  /\ ToInt(x) \in Int /\ -INTLIMIT <= ToInt(x) /\ ToInt(x) < INTLIMIT
         /\ \E k \in Int : x = ToInt(x) + (2 * INTLIMIT) * k
<1> DEFINE n == 2 * INTLIMIT
           y == x + INTLIMIT
<1>1. n \in Nat \ {0} /\ y \in Int /\ INTLIMIT \in Nat
  BY DiskAssumption
<1>2. y \div n \in Int /\ y % n \in 0..(n - 1) /\ y = n * (y \div n) + (y % n)
  BY <1>1, DivMod
<1>3. ToInt(x) = (y % n) - INTLIMIT
  BY DEF ToInt
<1>4. n * (y \div n) \in Int
  BY <1>1, <1>2, Multiples
<1>5. x = ToInt(x) + n * (y \div n)
  BY <1>1, <1>2, <1>3, <1>4
<1>6. ToInt(x) \in Int /\ -INTLIMIT <= ToInt(x) /\ ToInt(x) < INTLIMIT
  <2>1. n = INTLIMIT + INTLIMIT
    BY <1>1
  <2> HIDE DEF n, y
  <2> QED BY <1>1, <1>2, <1>3, <2>1
<1> QED BY <1>2, <1>5, <1>6

\* Numbers in the range of int that differ by a multiple of it are equal.
LEMMA ToIntUnique ==
  ASSUME NEW x \in Int, NEW y \in Int, NEW k \in Int,
         -INTLIMIT <= x, x < INTLIMIT, y = ToInt(x + (2 * INTLIMIT) * k)
  PROVE  y = x
<1> DEFINE n == 2 * INTLIMIT
           z == x + n * k
<1>1. n \in Nat \ {0} /\ INTLIMIT \in Nat /\ n = INTLIMIT + INTLIMIT
  BY DiskAssumption
<1>2. z \in Int /\ n * k \in Int
  BY <1>1, Multiples
<1> HIDE DEF n, z
<1>3. /\ ToInt(z) \in Int /\ -INTLIMIT <= ToInt(z) /\ ToInt(z) < INTLIMIT
      /\ \E j \in Int : z = ToInt(z) + n * j
  BY <1>2, ToIntRange DEF n
<1>4. PICK j \in Int : z = ToInt(z) + n * j
  BY <1>3
<1>5. n * j \in Int
  BY <1>1, Multiples
<1>6. z = x + n * k /\ y = ToInt(z)
  BY DEF z, n
<1>7. j = k
  <2>1. n * j < n * k + n /\ n * k < n * j + n
    BY <1>1, <1>2, <1>3, <1>4, <1>5, <1>6
  <2> QED BY <1>1, <2>1, OneQuotient
<1> QED BY <1>2, <1>3, <1>4, <1>5, <1>6, <1>7

\* A sum may be converted before or after the addition.
LEMMA ToIntSum ==
  ASSUME NEW x \in Int, NEW y \in Int
  PROVE  ToInt(ToInt(x) + y) = ToInt(x + y)
<1> DEFINE n == 2 * INTLIMIT
           a == ToInt(x)
           c == ToInt(x + y)
<1>1. n \in Nat
  BY DiskAssumption
<1>2. PICK k \in Int : x = a + n * k
  BY ToIntRange
<1>3. c \in Int /\ -INTLIMIT <= c /\ c < INTLIMIT
  BY ToIntRange
<1>4. PICK j \in Int : x + y = c + n * j
  BY ToIntRange
<1>5. a \in Int
  BY ToIntRange
<1> HIDE DEF n, a, c
<1>6. n * k \in Int /\ n * j \in Int /\ n * (j - k) = n * j - n * k
  BY <1>1, Multiples
<1>7. a + y = c + n * (j - k) /\ j - k \in Int /\ a + y \in Int
  <2> DEFINE u == n * k
             v == n * j
  <2>1. x = a + u /\ x + y = c + v /\ u \in Int /\ v \in Int
    BY <1>2, <1>4, <1>6
  <2> HIDE DEF u, v
  <2>2. a + y = c + (v - u)
    BY <1>3, <1>5, <2>1
  <2> QED BY <1>5, <1>6, <2>2 DEF u, v
<1>8. ToInt(a + y) \in Int
  BY <1>7, ToIntRange
<1>9. ToInt(a + y) = c
  BY <1>3, <1>7, <1>8, ToIntUnique DEF n
<1> QED BY <1>9 DEF a, c

\* A number in range is not changed.
LEMMA ToIntSame ==
  ASSUME NEW x \in Int, -INTLIMIT <= x, x < INTLIMIT
  PROVE  ToInt(x) = x
<1>1. x + (2 * INTLIMIT) * 0 = x /\ ToInt(x) \in Int
  BY ToIntRange, DiskAssumption
<1> QED BY <1>1, ToIntUnique
-----------------------------------------------------------------------------
(***************************************************************************)
(* The words of the file and of a block.                                   *)
(***************************************************************************)

\* xorbuf() takes the words that lie within the r bytes it is given.
LEMMA XorbufWords ==
  ASSUME NEW i \in Nat, NEW r \in Nat
  PROVE  \A x : x \in xorbuf(i, r) <=>
                  \E k \in Nat : x = i + WORD * k /\ WORD * k + WORD <= r
<1>1. WORD \in Nat \ {0} /\ r \div WORD \in Int
  BY DivMod, DiskAssumption
<1>2. \A k \in Nat : k <= (r \div WORD) - 1 <=> WORD * k + WORD <= r
  BY <1>1, WholeParts
<1>3. \A k : k \in 0..((r \div WORD) - 1) <=>
               k \in Nat /\ k <= (r \div WORD) - 1
  BY <1>1
<1>4. \A x : x \in xorbuf(i, r) <=>
               \E k \in 0..((r \div WORD) - 1) : x = i + WORD * k
  BY DEF xorbuf
<1> QED BY <1>2, <1>3, <1>4

\* The words of the whole file.
LEMMA WordsAre ==
  ASSUME file \in Nat
  PROVE  \A x : x \in Words <=>
                  \E k \in Nat : x = WORD * k /\ WORD * k + WORD <= file
<1>1. \A k \in Nat : 0 + WORD * k = WORD * k
  BY Multiples, DiskAssumption
<1>2. \A x : x \in Words <=>
               \E k \in Nat : x = 0 + WORD * k /\ WORD * k + WORD <= file
  BY XorbufWords DEF Words
<1> QED BY <1>1, <1>2

\* A word is a number below the length n of the file.
LEMMA WordType ==
  ASSUME NEW n \in Nat, NEW w \in xorbuf(0, n)
  PROVE  w \in Nat /\ w < n
<1>1. PICK k \in Nat : w = 0 + WORD * k /\ WORD * k + WORD <= n
  BY XorbufWords
<1>2. WORD \in Nat \ {0}
  BY DiskAssumption
<1>3. WORD * k \in Int /\ WORD * k >= WORD * 0 /\ WORD * 0 = 0
  BY <1>2, Multiples
<1> QED BY <1>1, <1>2, <1>3

\* What a read of b words at the word k0 gives xorbuf() are the words of the
\* file in that block, also if the file ends within it.
LEMMA BlockWords ==
  ASSUME fd, file \in Nat, NEW k0 \in Nat, NEW b \in Nat,
         NEW i \in Nat, i = WORD * k0, NEW m \in Nat, m = WORD * b
  PROVE  xorbuf(i, Read(m, i)) = {w \in Words : i <= w /\ w < i + m}
<1> DEFINE r == Read(m, i)
<1>0. WORD \in Nat \ {0}
  BY DiskAssumption
<1>1. r = IF i >= file THEN 0 ELSE IF m <= file - i THEN m ELSE file - i
  BY ReadBytes
<1>2. r \in Nat
  BY <1>1
<1> HIDE DEF r
<1>3. ASSUME NEW x \in xorbuf(i, r) PROVE x \in Words /\ i <= x /\ x < i + m
  <2>1. PICK k \in Nat : x = i + WORD * k /\ WORD * k + WORD <= r
    BY <1>2, XorbufWords
  <2> DEFINE u == WORD * k
  <2>2. u \in Int /\ u >= 0
    BY <1>0, Multiples
  <2>3. WORD * (k0 + k) = i + u
    BY <1>0, Multiples
  <2>4. x = i + u /\ u + WORD <= r
    BY <2>1
  <2> HIDE DEF u
  <2>5. i <= x /\ x < i + m /\ x + WORD <= file
    BY <1>0, <1>1, <1>2, <2>2, <2>4
  <2>6. k0 + k \in Nat /\ x = WORD * (k0 + k) /\ WORD * (k0 + k) + WORD <= file
    BY <2>3, <2>4, <2>5
  <2> QED BY <2>5, <2>6, WordsAre
<1>4. ASSUME NEW x \in Words, i <= x, x < i + m PROVE x \in xorbuf(i, r)
  <2>1. PICK j \in Nat : x = WORD * j /\ WORD * j + WORD <= file
    BY WordsAre
  <2> DEFINE k == j - k0
             u == WORD * k
             v == WORD * j
  <2>2. v \in Int /\ u \in Int /\ u = v - i /\ x = v /\ v + WORD <= file
    BY <1>0, <2>1, Multiples
  <2>3. k \in Nat
    <3>1. ASSUME k0 >= j + 1 PROVE FALSE
      <4>1. WORD * k0 >= WORD * j + WORD
        BY <1>0, <3>1, Multiples
      <4> HIDE DEF v
      <4> QED BY <1>0, <1>4, <2>2, <4>1 DEF v
    <3> QED BY <3>1
  <2>4. u + WORD <= m
    <3>1. ASSUME k >= b PROVE FALSE
      <4>1. u >= m
        BY <1>0, <2>3, <3>1, Multiples
      <4> HIDE DEF u, v, k
      <4> QED BY <1>4, <2>2, <4>1
    <3>2. b >= k + 1
      BY <2>3, <3>1
    <3>3. WORD * b >= WORD * k + WORD
      <4> HIDE DEF k
      <4> QED BY <1>0, <2>3, <3>2, Multiples
    <3> QED BY <3>3
  <2>5. u + WORD <= r /\ x = i + u
    <3> HIDE DEF u, v, k
    <3> QED BY <1>0, <1>1, <1>4, <2>2, <2>4
  <2>6. x = i + WORD * k /\ WORD * k + WORD <= r
    BY <2>5
  <2> HIDE DEF k, u, v
  <2> QED BY <1>2, <2>3, <2>6, XorbufWords
<1>5. \A x : x \in xorbuf(i, r) <=> x \in Words /\ i <= x /\ x < i + m
  BY <1>3, <1>4
<1>6. xorbuf(i, r) = {w \in Words : i <= w /\ w < i + m}
  BY <1>5
<1> QED BY <1>6 DEF r

\* The xor of sets of words that have none in common is their union.
LEMMA XorDisjoint ==
  ASSUME NEW S, NEW T, S \cap T = {}
  PROVE  Xor(S, T) = S \cup T
  BY DEF Xor
-----------------------------------------------------------------------------
(***************************************************************************)
(* The inductive invariant of the readers.                                 *)
(***************************************************************************)
Reading(p) == runs > 0 /\ fd /\ mode = "r" /\ prog = p

\* The types, and that pc is where the program and its mode say.
DiskType ==
  /\ file \in Nat \cup {NoFile} /\ runs \in Nat /\ pos \in Nat
  /\ block_size \in Nat /\ block_count \in Nat /\ num_threads \in Nat
  /\ mode \in {"r", "w"}
  /\ prog \in {"run", "run_blocksize", "lseek", "fast", "multithreaded"}
  /\ pc \in {"exit", "write", "create", "join", "run", "run_blocksize",
             "lseek", "fast"}
  /\ pc = "write" => mode = "w"
  /\ pc \in {"create", "join"} => mode = "r" /\ prog = "multithreaded"
  /\ pc \in {"run", "run_blocksize", "lseek", "fast"} => mode = "r" /\ prog = pc
  /\ runs > 0 => block_size > 0
  /\ runs > 0 /\ prog = "fast" => block_size = FASTBLOCK
  /\ mode = "r" /\ fd => file \in Nat
  /\ 0..(num_threads - 1) \subseteq Threads
  /\ DOMAIN tpc = Threads /\ DOMAIN txor = Threads
  /\ tcount \in [Threads -> Nat]

\* run is within the file, and at its end when it stops.
RunPos == Reading("run") => pos <= file /\ (pc = "exit" => pos = file)

\* lseek counts whole blocks, in an int that may have wrapped around, and stops
\* at the latest when it equals the size that it counts to.
SeekPos ==
  Reading("lseek") =>
    /\ count = ToInt(pos)
    /\ \E k \in 0..block_count : pos = block_size * k
    /\ pc = "exit" => ~SeekMore(count)

\* What is xored so far are the words before the file offset, and that is
\* between two words until the end of the file is reached.
SoFar ==
  /\ pos <= file /\ xor = {w \in Words : w < pos}
  /\ pos = file \/ \E k \in Nat : pos = WORD * k

FastXor == Reading("fast") => IF pc = "exit" THEN xor = Words ELSE SoFar

\* run_blocksize has read as many blocks as it counted, or the whole file.
CountXor ==
  Reading("run_blocksize") =>
    IF pc = "exit" THEN xor = {w \in Words : w < block_count * BlockBytes}
    ELSE /\ SoFar /\ count \in 0..block_count
         /\ pos <= BlockBytes * count
         /\ pos = BlockBytes * count \/ pos = file

\* Word w is in block j of m bytes.
In(w, j, m) == m * j <= w /\ w < m * j + m

\* The words in the first c blocks of thread t, one of n.
Share(t, c, n, m) == {w \in Words : \E e \in 0..(c - 1) : In(w, n * e + t, m)}

\* The words in all blocks of the first k threads.
Shares(k, n, m) ==
  {w \in Words : \E t \in 0..(k - 1) : \E e \in Nat : In(w, n * e + t, m)}

\* Each thread has xored the blocks it has counted and stops behind the end of
\* the file; main() adds the threads up in order.
ThreadXor ==
  /\ Reading("multithreaded") /\ num_threads > 0 /\ BlockBytes > 0
  /\ (num_threads - 1) * BlockBytes < INTLIMIT
  =>
  /\ \A t \in 0..(num_threads - 1) :
       /\ txor[t] = Share(t, tcount[t], num_threads, BlockBytes)
       /\ tpc[t] = "done" => BlockBytes * (num_threads * tcount[t] + t) >= file
  /\ pc = "create" => xor = {}
  /\ pc = "join" => /\ count \in 0..num_threads
                    /\ xor = Shares(count, num_threads, BlockBytes)
  /\ pc = "exit" => xor = Words

DiskInv ==
  DiskType /\ RunPos /\ SeekPos /\ FastXor /\ CountXor /\ ThreadXor

\* The threads that main() may create have a place.
LEMMA ThreadRange ==
  /\ \A n \in ThreadCounts : n \in Nat /\ 0..(n - 1) \subseteq Threads
  /\ 0..(0 - 1) \subseteq Threads
<1>1. PICK m \in ThreadCounts : \A n \in ThreadCounts : m >= n
  BY DiskAssumption
<1>2. /\ Max(ThreadCounts) \in ThreadCounts
      /\ \A n \in ThreadCounts : Max(ThreadCounts) >= n
  BY <1>1 DEF Max
<1>3. ThreadCounts \subseteq Nat
  BY DiskAssumption
<1> DEFINE m1 == Max(ThreadCounts)
<1>4. m1 \in Nat /\ \A n \in ThreadCounts : n \in Nat /\ m1 >= n
  BY <1>2, <1>3
<1>5. Threads = 0..(m1 - 1)
  BY DEF Threads
<1> HIDE DEF m1
<1> QED BY <1>4, <1>5

\* A block holds a whole number of words.
LEMMA BlockBytesAre ==
  ASSUME block_size \in Nat
  PROVE  /\ BlockBytes \in Nat /\ \E b \in Nat : BlockBytes = WORD * b
         /\ block_size >= WORD => BlockBytes > 0
<1> DEFINE b == block_size \div WORD
           r == block_size % WORD
<1>1. WORD \in Nat \ {0}
  BY DiskAssumption
<1>2. b \in Int /\ r \in 0..(WORD - 1) /\ block_size = WORD * b + r
  BY <1>1, DivMod
<1>3. BlockBytes = WORD * b
  BY <1>1, <1>2, Multiples DEF BlockBytes
<1> HIDE DEF b, r
<1>4. b \in Nat
  <2>1. ASSUME 0 >= b + 1 PROVE FALSE
    <3>1. WORD * 0 >= WORD * b + WORD
      BY <1>1, <1>2, <2>1, Multiples
    <3>2. WORD * b \in Int /\ WORD * 0 = 0
      BY <1>1, <1>2, Multiples
    <3> QED BY <1>1, <1>2, <3>1, <3>2
  <2> QED BY <1>2, <2>1
<1>5. WORD * b \in Int /\ WORD * b >= WORD * 0 /\ WORD * 0 = 0
  BY <1>1, <1>4, Multiples
<1>6. block_size >= WORD => WORD * b > 0
  BY <1>1, <1>2, <1>5
<1> QED BY <1>3, <1>4, <1>5, <1>6

\* A program starts with a state that says nothing about words yet.
LEMMA OpenInv ==
  ASSUME DiskInv,
         NEW p \in {"run", "run_blocksize", "lseek", "fast", "multithreaded"},
         NEW m \in {"r", "w"}, NEW bs \in Nat \ {0}, NEW bc \in Nat, NEW n \in Nat,
         p = "fast" => bs = FASTBLOCK,
         0..(n - 1) \subseteq Threads,
         Open(p, m, IF m = "w" THEN "write"
                    ELSE IF p = "multithreaded" THEN "create" ELSE p),
         Arguments(bs, bc, n)
  PROVE  DiskInv'
<1>1. /\ prog' = p /\ mode' = m /\ runs' = runs + 1 /\ pos' = 0 /\ count' = 0
      /\ xor' = {} /\ block_size' = bs /\ block_count' = bc /\ num_threads' = n
      /\ pc' = IF m = "w" THEN "write"
               ELSE IF p = "multithreaded" THEN "create" ELSE p
      /\ tpc' = [t \in Threads |-> "none"] /\ tcount' = [t \in Threads |-> 0]
      /\ txor' = [t \in Threads |-> {}]
    BY DEF Open, Arguments
<1>2. file' \in Nat \cup {NoFile} /\ (m = "r" /\ fd' => file' \in Nat)
  <2>1. CASE m = "w" /\ file = NoFile
    BY <2>1 DEF Open
  <2>2. CASE ~(m = "w" /\ file = NoFile)
    BY <2>2 DEF Open, DiskInv, DiskType
  <2> QED BY <2>1, <2>2
<1>3. DiskType'
  BY <1>1, <1>2 DEF DiskInv, DiskType
<1>4. pc' # "exit"
  BY <1>1
<1>5. RunPos'
  BY <1>1, <1>2, <1>4 DEF RunPos, Reading
<1>6. SeekPos'
  <2> SUFFICES ASSUME Reading("lseek")'
               PROVE  count' = ToInt(pos)' /\ \E k \in 0..bc : pos' = bs * k
    BY <1>1, <1>4 DEF SeekPos
  <2>1. ToInt(0) = 0
    BY ToIntSame, DiskAssumption
  <2>2. 0 \in 0..bc /\ 0 = bs * 0
    OBVIOUS
  <2>3. ToInt(pos)' = 0
    BY <1>1, <2>1 DEF ToInt
  <2> QED BY <1>1, <2>2, <2>3
<1>7. ASSUME m = "r", fd' PROVE SoFar'
  <2>1. file' \in Nat
    BY <1>2, <1>7
  <2>2. \A w \in xorbuf(0, file') : ~(w < 0)
    BY <2>1, WordType
  <2>3. {w \in xorbuf(0, file') : w < 0} = {}
    BY <2>2
  <2>4. Words' = xorbuf(0, file')
    BY DEF Words
  <2>5. WORD * 0 = 0
    BY DiskAssumption
  <2> QED BY <1>1, <2>1, <2>3, <2>4, <2>5 DEF SoFar
<1>8. FastXor'
  BY <1>1, <1>4, <1>7 DEF FastXor, Reading
<1>9. CountXor'
  <2> SUFFICES ASSUME Reading("run_blocksize")'
               PROVE  /\ SoFar' /\ 0 \in 0..bc
                      /\ 0 <= BlockBytes' * 0 /\ 0 = BlockBytes' * 0
    BY <1>1, <1>4 DEF CountXor
  <2>1. bs \in Nat /\ WORD \in Nat \ {0}
    BY DiskAssumption
  <2>2. BlockBytes' = (bs \div WORD) * WORD
    BY <1>1 DEF BlockBytes
  <2>3. BlockBytes' \in Int
    BY <2>1, <2>2, DivMod, Multiples
  <2>4. BlockBytes' * 0 = 0
    <3>1. \A x \in Int : x * 0 = 0
      OBVIOUS
    <3> QED BY <2>3, <3>1, Zenon
  <2>5. SoFar'
    BY <1>1, <1>7 DEF Reading
  <2> QED BY <2>4, <2>5
<1>10. ThreadXor'
  <2> SUFFICES ASSUME Reading("multithreaded")' PROVE ThreadXor'
    BY DEF ThreadXor
  <2>1. ASSUME NEW t \in 0..(n - 1)
        PROVE  txor'[t] = {} /\ tcount'[t] = 0 /\ tpc'[t] # "done"
    BY <1>1
  <2>2. ASSUME NEW t \in 0..(n - 1)
        PROVE  Share(t, tcount[t], num_threads, BlockBytes)' = {}
    <3>1. \A e \in 0..(tcount'[t] - 1) : FALSE
      BY <2>1
    <3> QED BY <3>1 DEF Share
  <2>3. pc' = "create" /\ num_threads' = n
    BY <1>1 DEF Reading
  <2> QED BY <1>1, <2>1, <2>2, <2>3 DEF ThreadXor
<1> QED BY <1>3, <1>5, <1>6, <1>8, <1>9, <1>10 DEF DiskInv

\* A round of a loop leaves the arguments and, but for write(), the file alone.
LEMMA KeepsDiskType ==
  ASSUME DiskType, UNCHANGED <<file, fd, arguments, runs>>, pos' \in Nat,
         pc' \in {pc, "exit"} \/ (pc = "create" /\ pc' = "join"),
         DOMAIN tpc' = Threads, DOMAIN txor' = Threads,
         tcount' \in [Threads -> Nat]
  PROVE  DiskType'
  BY DEF DiskType, arguments

\* Only the program that runs is at its point.
LEMMA OnlyOne ==
  ASSUME DiskType, UNCHANGED <<fd, arguments, runs>>, NEW p, p # prog \/ mode = "w"
  PROVE  ~Reading(p)'
  BY DEF DiskType, arguments, Reading

\* disk_write().
LEMMA WriteStep ==
  ASSUME DiskInv, Write
  PROVE  DiskInv'
<1>1. /\ pc = "write" /\ mode = "w" /\ DiskType
      /\ UNCHANGED <<fd, arguments, runs, tpc, tcount, txor>>
  BY DEF Write, DiskInv, DiskType, threadVars
<1>2. /\ file' \in Nat \cup {NoFile} /\ pos' \in Nat /\ pc' \in {"write", "exit"}
  <2>1. CASE count < block_count
    <3> DEFINE e == pos + block_size
    <3>1. e \in Nat /\ file \in Int
      BY <1>1 DEF DiskType, NoFile
    <3> HIDE DEF e
    <3>2. Max({file, e}) \in Nat
      BY <3>1, OfTwo
    <3>3. /\ file' = IF fd THEN Max({file, e}) ELSE file
          /\ pos' = IF fd THEN e ELSE pos
          /\ pc' = pc
      BY <2>1 DEF Write, e
    <3> QED BY <1>1, <3>1, <3>2, <3>3 DEF DiskType
  <2>2. CASE ~(count < block_count)
    BY <1>1, <2>2 DEF Write, DiskType
  <2> QED BY <2>1, <2>2
<1>3. DiskType'
  BY <1>1, <1>2 DEF DiskType, arguments
<1>4. \A p : ~Reading(p)'
  BY <1>1, OnlyOne
<1> QED BY <1>3, <1>4
        DEF DiskInv, RunPos, SeekPos, FastXor, CountXor, ThreadXor

\* disk_read() of run.
LEMMA RunStep ==
  ASSUME DiskInv, RunRead
  PROVE  DiskInv'
<1> DEFINE r == Read(block_size, pos)
<1>1. /\ pc = "run" /\ mode = "r" /\ prog = "run" /\ DiskType
      /\ UNCHANGED <<file, fd, arguments, runs, tpc, tcount, txor>>
      /\ pos' = IF r > 0 THEN pos + r ELSE pos
      /\ pc' = IF r > 0 THEN pc ELSE "exit"
  BY DEF RunRead, ReadLoop, HasRead, DiskInv, DiskType, threadVars, fileVars
<1>2. /\ block_size \in Nat /\ pos \in Nat /\ (runs > 0 => block_size > 0)
      /\ fd => file \in Nat
  BY <1>1 DEF DiskType
<1>3. fd => r = IF pos >= file THEN 0
                ELSE IF block_size <= file - pos THEN block_size ELSE file - pos
  BY <1>2, ReadBytes
<1>4. ~fd => r = -1
  BY DEF Read
<1> HIDE DEF r
<1>5. r \in Int
  BY <1>2, <1>3, <1>4
<1>6. DiskType'
  BY <1>1, <1>2, <1>5, KeepsDiskType DEF DiskType
<1>7. RunPos'
  BY <1>1, <1>2, <1>3 DEF DiskInv, RunPos, Reading, arguments
<1>8. \A p : p # "run" => ~Reading(p)'
  BY <1>1, OnlyOne
<1> QED BY <1>6, <1>7, <1>8
        DEF DiskInv, SeekPos, FastXor, CountXor, ThreadXor

\* One more block has been read and xored.
LEMMA ReadOn ==
  ASSUME fd, file \in Nat, pos \in Nat, block_size \in Nat,
         SoFar, Read(BlockBytes, pos) > 0,
         NEW q, q = pos + Read(BlockBytes, pos)
  PROVE  /\ q \in Nat /\ q <= file /\ q <= pos + BlockBytes
         /\ q = file \/ q = pos + BlockBytes
         /\ q = file \/ \E k \in Nat : q = WORD * k
         /\ Xor(xor, xorbuf(pos, Read(BlockBytes, pos))) = {w \in Words : w < q}
<1> DEFINE r == Read(BlockBytes, pos)
           m == BlockBytes
<1>1. PICK b \in Nat : m = WORD * b
  BY BlockBytesAre
<1>2. m \in Nat /\ WORD \in Nat
  BY BlockBytesAre, DiskAssumption
<1>3. r = IF pos >= file THEN 0 ELSE IF m <= file - pos THEN m ELSE file - pos
  BY <1>2, ReadBytes
<1>4. q = pos + r /\ r > 0
  OBVIOUS
<1>5. PICK k \in Nat : pos = WORD * k
  BY <1>3, <1>4 DEF SoFar
<1>6. xorbuf(pos, r) = {w \in Words : pos <= w /\ w < pos + m}
  <2> HIDE DEF m
  <2>1. ASSUME NEW i \in Nat, NEW n \in Nat, i = WORD * k, n = WORD * b
        PROVE  xorbuf(i, Read(n, i)) = {w \in Words : i <= w /\ w < i + n}
    BY <2>1, BlockWords
  <2> QED BY <1>1, <1>2, <1>5, <2>1 DEF m
<1>7. \A w \in Words : w \in Nat /\ w < file
  BY WordType DEF Words
<1> HIDE DEF r, m
<1>8. /\ q \in Nat /\ q <= file /\ q <= pos + m /\ (q = file \/ q = pos + m)
  BY <1>2, <1>3, <1>4
<1>9. pos + m = WORD * (k + b)
  BY <1>1, <1>2, <1>5, Multiples
<1>10. xor \cap xorbuf(pos, r) = {}
  BY <1>6, <1>7 DEF SoFar
<1>11. \A w \in Words : (w < pos \/ (pos <= w /\ w < pos + m)) <=> w < q
  BY <1>2, <1>7, <1>8
<1>12. xor \cup xorbuf(pos, r) = {w \in Words : w < q}
  BY <1>6, <1>11 DEF SoFar
<1>13. Xor(xor, xorbuf(pos, r)) = {w \in Words : w < q}
  BY <1>10, <1>12, XorDisjoint
<1>14. k + b \in Nat
  OBVIOUS
<1> QED BY <1>8, <1>9, <1>13, <1>14 DEF r, m

\* A round of the loops of fast and run_blocksize.
LEMMA LoopRound ==
  ASSUME DiskInv, NEW more \in BOOLEAN,
         pc \in {"fast", "run_blocksize"}, ReadLoop(BlockBytes, more), XorBlock
  PROVE  /\ DiskType'
         /\ UNCHANGED <<file, fd, arguments, runs, tpc, tcount, txor, Words,
                        BlockBytes>>
         /\ fd => /\ file \in Nat
                  /\ Read(BlockBytes, pos) = 0 => pos >= file \/ BlockBytes = 0
                  /\ Read(BlockBytes, pos) > 0 => pos < file
                  /\ pc' = pc <=> Read(BlockBytes, pos) > 0 /\ more
                  /\ pc' # pc => pc' = "exit" /\ xor' = xor
                  /\ SoFar /\ pc' = pc =>
                       /\ SoFar' /\ pos' <= pos + BlockBytes
                       /\ pos' = file \/ pos' = pos + BlockBytes
                  /\ Read(BlockBytes, pos) \in Nat
<1> DEFINE r == Read(BlockBytes, pos)
<1>1. /\ mode = "r" /\ prog = pc /\ DiskType
      /\ UNCHANGED <<file, fd, arguments, runs, tpc, tcount, txor>>
      /\ pos' = IF r > 0 THEN pos + r ELSE pos
      /\ pc' = IF r > 0 /\ more THEN pc ELSE "exit"
      /\ xor' = IF pc' = pc THEN Xor(xor, xorbuf(pos, r)) ELSE xor
  BY DEF ReadLoop, XorBlock, HasRead, DiskInv, DiskType, threadVars, fileVars
<1>2. /\ block_size \in Nat /\ pos \in Nat /\ (fd => file \in Nat)
      /\ pc # "exit"
  BY <1>1 DEF DiskType
<1>3. BlockBytes \in Nat
  BY <1>2, BlockBytesAre
<1>4. fd => r = IF pos >= file THEN 0
                ELSE IF BlockBytes <= file - pos THEN BlockBytes ELSE file - pos
  BY <1>2, <1>3, ReadBytes
<1>5. ~fd => r = -1
  BY DEF Read
<1>6. r \in Int /\ (fd => r \in Nat /\ (r > 0 => pos < file)
                          /\ (r = 0 => pos >= file \/ BlockBytes = 0))
  <2> DEFINE m == BlockBytes
  <2> HIDE DEF r, m
  <2> QED BY <1>2, <1>3, <1>4, <1>5 DEF m
<1>7. UNCHANGED <<Words, BlockBytes>>
  BY <1>1 DEF Words, BlockBytes, arguments
<1>8. ASSUME fd, SoFar, pc' = pc
      PROVE  /\ SoFar' /\ pos' <= pos + BlockBytes
             /\ pos' = file \/ pos' = pos + BlockBytes
  <2>1. r > 0 /\ pos' = pos + r /\ xor' = Xor(xor, xorbuf(pos, r))
    BY <1>1, <1>2, <1>8
  <2>2. /\ pos' \in Nat /\ pos' <= file /\ pos' <= pos + BlockBytes
        /\ pos' = file \/ pos' = pos + BlockBytes
        /\ pos' = file \/ \E k \in Nat : pos' = WORD * k
        /\ xor' = {w \in Words : w < pos'}
    BY <1>2, <1>8, <2>1, ReadOn
  <2> QED BY <1>1, <1>7, <2>2 DEF SoFar
<1> HIDE DEF r
<1>9. DiskType'
  BY <1>1, <1>2, <1>6, KeepsDiskType DEF DiskType
<1>10. pc' = pc <=> r > 0 /\ more
  BY <1>1, <1>2
<1>11. pc' # pc => pc' = "exit" /\ xor' = xor
  BY <1>1
<1> QED BY <1>1, <1>2, <1>6, <1>7, <1>8, <1>9, <1>10, <1>11 DEF r

\* disk_read() of fast: it stops where nothing is left.
LEMMA FastStep ==
  ASSUME DiskInv, FastRead
  PROVE  DiskInv'
<1>1. pc = "fast" /\ ReadLoop(BlockBytes, TRUE) /\ XorBlock
  BY DEF FastRead
<1>2. /\ DiskType'
      /\ UNCHANGED <<file, fd, arguments, runs, tpc, tcount, txor, Words,
                        BlockBytes>>
      /\ fd => /\ file \in Nat
               /\ Read(BlockBytes, pos) = 0 => pos >= file \/ BlockBytes = 0
               /\ pc' = pc <=> Read(BlockBytes, pos) > 0
               /\ pc' # pc => pc' = "exit" /\ xor' = xor
               /\ SoFar /\ pc' = pc => SoFar'
               /\ Read(BlockBytes, pos) \in Nat
  BY <1>1, LoopRound
<1>3. prog = "fast" /\ mode = "r" /\ DiskType
  BY <1>1 DEF DiskInv, DiskType
<1>4. FastXor'
  <2> SUFFICES ASSUME Reading("fast")'
               PROVE  IF pc' = "exit" THEN xor' = Words' ELSE SoFar'
    BY DEF FastXor
  <2>1. Reading("fast") /\ fd /\ SoFar
    BY <1>1, <1>2 DEF Reading, arguments, DiskInv, FastXor
  <2>2. CASE pc' = pc
    BY <1>1, <1>2, <2>1, <2>2
  <2>3. CASE pc' # pc
    <3>1. BlockBytes > 0 /\ BlockBytes \in Nat
      BY <1>3, <2>1, BlockBytesAre, DiskAssumption DEF Reading, DiskType
    <3>2. pos >= file
      BY <1>2, <2>1, <2>3, <3>1
    <3>3. \A w \in Words : w \in Nat /\ w < file
      BY <1>2, <2>1, WordType DEF Words
    <3>4. \A w \in Words : w < pos
      BY <1>2, <1>3, <2>1, <3>2, <3>3 DEF DiskType
    <3>5. xor = Words
      BY <2>1, <3>4 DEF SoFar
    <3> QED BY <1>2, <2>1, <2>3, <3>5
  <2> QED BY <2>2, <2>3
<1>5. \A p : p # "fast" => ~Reading(p)'
  BY <1>2, <1>3, OnlyOne
<1> QED BY <1>2, <1>4, <1>5
        DEF DiskInv, RunPos, SeekPos, CountXor, ThreadXor

\* disk_read() of run_blocksize: the block that it reads and does not count is
\* not xored.
LEMMA CountStep ==
  ASSUME DiskInv, BlocksizeRead
  PROVE  DiskInv'
<1> DEFINE r == Read(BlockBytes, pos)
           m == BlockBytes
<1>1. /\ pc = "run_blocksize" /\ ReadLoop(BlockBytes, MoreBlocks) /\ XorBlock
      /\ count' = IF pc' = pc THEN count + 1 ELSE count
      /\ MoreBlocks \in BOOLEAN
  BY DEF BlocksizeRead, MoreBlocks
<1>2. /\ DiskType'
      /\ UNCHANGED <<file, fd, arguments, runs, tpc, tcount, txor, Words,
                        BlockBytes>>
      /\ fd => /\ file \in Nat
               /\ r = 0 => pos >= file \/ m = 0
               /\ r > 0 => pos < file
               /\ pc' = pc <=> r > 0 /\ MoreBlocks
               /\ pc' # pc => pc' = "exit" /\ xor' = xor
               /\ SoFar /\ pc' = pc => /\ SoFar' /\ pos' <= pos + m
                                       /\ pos' = file \/ pos' = pos + m
               /\ r \in Nat
  BY <1>1, LoopRound
<1>3. prog = "run_blocksize" /\ mode = "r" /\ DiskType
  BY <1>1 DEF DiskInv, DiskType
<1>4. CountXor'
  <2> SUFFICES ASSUME Reading("run_blocksize")' PROVE CountXor'
    BY DEF CountXor
  <2>1. /\ Reading("run_blocksize") /\ fd /\ SoFar /\ count \in 0..block_count
        /\ pos <= m * count /\ (pos = m * count \/ pos = file)
    BY <1>1, <1>2 DEF Reading, arguments, DiskInv, CountXor
  <2>2. /\ block_count \in Nat /\ pos \in Nat /\ block_count' = block_count
        /\ block_size \in Nat
    BY <1>2, <1>3 DEF DiskType, arguments
  <2>3. m \in Nat
    BY <2>2, BlockBytesAre
  <2>4. CASE pc' = pc
    <3>1. pos < file /\ count < block_count
      BY <1>2, <2>1, <2>4 DEF MoreBlocks
    <3>2. pos = m * count /\ m * (count + 1) = m * count + m
      <4> HIDE DEF m
      <4> QED BY <1>2, <2>1, <2>2, <2>3, <3>1, Multiples
    <3>3. /\ count' \in 0..block_count
          /\ pos' <= m * count' /\ (pos' = m * count' \/ pos' = file)
      <4> HIDE DEF r, m
      <4> QED BY <1>1, <1>2, <2>1, <2>2, <2>4, <3>1, <3>2
    <3> QED BY <1>1, <1>2, <2>1, <2>2, <2>4, <3>3 DEF CountXor
  <2>5. CASE pc' # pc
    <3> DEFINE z == block_count * m
    <3>1. z = m * block_count /\ z \in Int /\ z >= m * count
      <4> HIDE DEF m
      <4>1. block_count >= count /\ block_count \in Int /\ count \in Int
        BY <2>1, <2>2
      <4> QED BY <2>3, <4>1, Multiples
    <3>2. \A w \in Words : w \in Nat /\ w < file
      BY <1>2, <2>1, WordType DEF Words
    <3>3. m * count \in Int
      BY <2>1, <2>2, <2>3, Multiples
    <3> SUFFICES xor = {w \in Words : w < z}
      BY <1>1, <1>2, <2>1, <2>2, <2>5 DEF CountXor
    <3>4. CASE pos >= file
      <4>1. \A w \in Words : w < pos /\ w < z
        <5> HIDE DEF z, m
        <5> QED BY <1>2, <2>1, <2>2, <3>1, <3>2, <3>3, <3>4
      <4> HIDE DEF z, m
      <4> QED BY <2>1, <4>1 DEF SoFar
    <3>5. CASE m = 0
      <4>1. m * count = 0 /\ z = 0
        BY <2>1, <2>2, <3>5
      <4>2. pos = 0
        <5> HIDE DEF m, z
        <5> QED BY <2>1, <2>2, <4>1
      <4> HIDE DEF z, m
      <4> QED BY <2>1, <4>1, <4>2 DEF SoFar
    <3>6. CASE r > 0 /\ pos < file
      <4>1. count = block_count
        BY <1>2, <2>1, <2>2, <2>5, <3>6 DEF MoreBlocks
      <4>2. pos = m * count
        BY <1>2, <2>1, <2>2, <3>6
      <4> QED BY <2>1, <3>1, <4>1, <4>2 DEF SoFar
    <3>7. r > 0 \/ r = 0
      BY <1>2, <2>1
    <3> QED BY <1>2, <2>1, <3>4, <3>5, <3>6, <3>7
  <2> QED BY <2>4, <2>5
<1>5. \A p : p # "run_blocksize" => ~Reading(p)'
  BY <1>2, <1>3, OnlyOne
<1> QED BY <1>2, <1>4, <1>5
        DEF DiskInv, RunPos, SeekPos, FastXor, ThreadXor

\* disk_read() of part_4_lseek_run: the sum cannot pass the size unseen, also
\* if both have wrapped around, because it takes every multiple of block_size.
LEMMA SeekStep ==
  ASSUME DiskInv, Seek
  PROVE  DiskInv'
<1>1. /\ pc = "lseek" /\ prog = "lseek" /\ mode = "r" /\ DiskType
      /\ UNCHANGED <<file, fd, arguments, runs, tpc, tcount, txor>>
  BY DEF Seek, DiskInv, DiskType, threadVars, fileVars
<1>2. block_size \in Nat /\ block_count \in Nat /\ pos \in Nat
  BY <1>1 DEF DiskType
<1>3. pos' \in Nat /\ pc' \in {pc, "exit"}
  BY <1>1, <1>2 DEF Seek
<1>4. DiskType'
  BY <1>1, <1>3, KeepsDiskType DEF DiskType
<1>5. SeekPos'
  <2> SUFFICES ASSUME Reading("lseek")' PROVE SeekPos'
    BY DEF SeekPos
  <2>1. Reading("lseek") /\ fd /\ count = ToInt(pos)
    BY <1>1 DEF Reading, arguments, DiskInv, SeekPos
  <2>2. PICK k \in 0..block_count : pos = block_size * k
    BY <2>1 DEF DiskInv, SeekPos
  <2>3. block_count' = block_count /\ block_size' = block_size
    BY <1>1 DEF arguments
  <2>4. CASE SeekMore(count)
    <3>1. /\ pos' = pos + block_size /\ count' = ToInt(count + block_size)
          /\ pc' = pc
      BY <2>1, <2>4 DEF Seek
    <3>2. k # block_count
      <4> SUFFICES ASSUME k = block_count PROVE FALSE
        OBVIOUS
      <4>1. pos = block_count * block_size
        BY <1>2, <2>2, Multiples
      <4>2. count < count /\ count \in Int
        BY <1>2, <2>1, <2>4, <4>1, ToIntRange DEF SeekMore
      <4> QED BY <4>2
    <3>3. k + 1 \in 0..block_count
      BY <1>2, <3>2
    <3>4. pos' = block_size * (k + 1)
      BY <1>2, <2>2, <3>1, Multiples
    <3>5. count' = ToInt(pos')
      BY <1>2, <2>1, <3>1, ToIntSum
    <3>6. ToInt(pos)' = ToInt(pos')
      BY DEF ToInt
    <3> QED BY <1>1, <2>3, <3>1, <3>3, <3>4, <3>5, <3>6 DEF SeekPos
  <2>5. CASE ~SeekMore(count)
    <3>1. pc' = "exit" /\ pos' = pos /\ count' = count
      BY <2>5 DEF Seek
    <3>2. SeekMore(count)' = SeekMore(count) /\ ToInt(pos)' = ToInt(pos)
      BY <2>3, <3>1 DEF SeekMore, ToInt
    <3> QED BY <2>1, <2>2, <2>3, <2>5, <3>1, <3>2 DEF SeekPos
  <2> QED BY <2>4, <2>5
<1>6. \A p : p # "lseek" => ~Reading(p)'
  BY <1>1, OnlyOne
<1> QED BY <1>4, <1>5, <1>6
        DEF DiskInv, RunPos, FastXor, CountXor, ThreadXor

-----------------------------------------------------------------------------
(***************************************************************************)
(* The threads of run_multithreaded: every block belongs to one of them.   *)
(***************************************************************************)

\* A word is in one block only.
LEMMA OneBlock ==
  ASSUME NEW m \in Nat \ {0}, NEW j \in Int, NEW l \in Int, NEW w \in Int,
         In(w, j, m), In(w, l, m)
  PROVE  j = l
<1>1. m * j \in Int /\ m * l \in Int
  BY Multiples
<1>2. m * j < m * l + m /\ m * l < m * j + m
  BY <1>1 DEF In
<1> QED BY <1>2, OneQuotient

\* A block belongs to one thread, and is one of its rounds.
LEMMA OneThread ==
  ASSUME NEW n \in Nat \ {0}, NEW t \in 0..(n - 1), NEW u \in 0..(n - 1),
         NEW c \in Int, NEW e \in Int, n * c + t = n * e + u
  PROVE  c = e /\ t = u
<1>1. n * c \in Int /\ n * e \in Int
  BY Multiples
<1>2. n * c < n * e + n /\ n * e < n * c + n
  BY <1>1
<1>3. c = e
  BY <1>2, OneQuotient
<1> QED BY <1>1, <1>3

\* Every word is in a block of some thread.
LEMMA SomeThread ==
  ASSUME NEW n \in Nat \ {0}, NEW m \in Nat \ {0}, NEW w \in Nat
  PROVE  \E t \in 0..(n - 1) : \E e \in Nat : In(w, n * e + t, m)
<1> DEFINE j == w \div m
           e == j \div n
           t == j % n
<1>1. j \in Int /\ w % m \in 0..(m - 1) /\ w = m * j + (w % m)
  BY DivMod
<1>2. j \in Nat
  <2>1. ASSUME 0 >= j + 1 PROVE FALSE
    <3>1. m * 0 >= m * j + m /\ m * 0 = 0 /\ m * j \in Int
      BY <1>1, <2>1, Multiples
    <3> HIDE DEF j
    <3> QED BY <1>1, <3>1
  <2> HIDE DEF j
  <2> QED BY <1>1, <2>1
<1>3. e \in Int /\ t \in 0..(n - 1) /\ j = n * e + t
  <2> HIDE DEF j
  <2> QED BY <1>2, DivMod
<1>4. e \in Nat
  <2> HIDE DEF j, e, t
  <2>1. ASSUME 0 >= e + 1 PROVE FALSE
    <3>1. n * 0 >= n * e + n /\ n * 0 = 0 /\ n * e \in Int
      BY <1>3, <2>1, Multiples
    <3> QED BY <1>2, <1>3, <3>1
  <2> QED BY <1>3, <2>1
<1>5. In(w, j, m)
  <2> HIDE DEF j
  <2>1. m * j \in Int
    BY <1>1, Multiples
  <2> QED BY <1>1, <2>1 DEF In
<1> HIDE DEF j, e, t
<1> QED BY <1>3, <1>4, <1>5

\* The case that ThreadXor speaks of: a block has a word and the first offsets
\* fit into an int.
InRange ==
  /\ Reading("multithreaded") /\ num_threads > 0 /\ BlockBytes > 0
  /\ (num_threads - 1) * BlockBytes < INTLIMIT

\* The offset that thread t reads next is that of its next block.
LEMMA OffsetIs ==
  ASSUME DiskType, InRange, NEW t \in 0..(num_threads - 1)
  PROVE  /\ Offset(t) = BlockBytes * (num_threads * tcount[t] + t)
         /\ Offset(t) \in Nat /\ num_threads * tcount[t] + t \in Nat
<1> DEFINE m == BlockBytes
           n == num_threads
           c == tcount[t]
           j == n * c + t
<1>1. m \in Nat \ {0} /\ n \in Nat \ {0} /\ c \in Nat
  BY BlockBytesAre DEF DiskType, InRange
<1>2. j \in Nat
  <2> HIDE DEF c, n
  <2>1. n * c \in Int /\ n * c >= n * 0 /\ n * 0 = 0
    BY <1>1, Multiples
  <2> QED BY <1>1, <2>1
<1>3. m * j \in Int /\ m * j >= m * 0 /\ m * 0 = 0 /\ j * m = m * j
  <2> HIDE DEF m, j
  <2> QED BY <1>1, <1>2, Multiples
<1>4. CASE c = 0
  <2>1. n * c = 0 /\ j = t
    BY <1>1, <1>4
  <2>2. (n - 1) * m >= m * t /\ (n - 1) * m \in Int
    <3>1. n - 1 >= t /\ n - 1 \in Int /\ t \in Int
      BY <1>1
    <3> HIDE DEF m, n
    <3>2. (n - 1) * m = m * (n - 1) /\ m * (n - 1) >= m * t
      BY <1>1, <3>1, Multiples
    <3> QED BY <1>1, <3>1, <3>2, Multiples
  <2>3. t * m = m * j
    BY <1>1, <2>1, Multiples
  <2>4. (n - 1) * m < INTLIMIT /\ INTLIMIT \in Nat
    BY DiskAssumption DEF InRange
  <2>5. m * j = m * t
    BY <2>1
  <2>6. -INTLIMIT <= m * j /\ m * j < INTLIMIT
    <3> DEFINE x == m * j
               y == (n - 1) * m
    <3>1. x \in Int /\ x >= 0 /\ y \in Int /\ y >= x /\ y < INTLIMIT
      BY <1>3, <2>2, <2>4, <2>5
    <3> HIDE DEF x, y
    <3>2. -INTLIMIT <= x /\ x < INTLIMIT
      BY <2>4, <3>1
    <3> QED BY <3>2 DEF x
  <2>7. ToInt(m * j) = m * j
    BY <1>3, <2>6, ToIntSame
  <2>8. Offset(t) = ToInt(t * m)
    BY <1>4 DEF Offset
  <2>9. Offset(t) = m * j
    BY <2>3, <2>7, <2>8
  <2> QED BY <1>2, <1>3, <2>9
<1>5. CASE c # 0
  <2>1. Offset(t) = j * m
    BY <1>5 DEF Offset
  <2> QED BY <1>2, <1>3, <2>1
<1> QED BY <1>4, <1>5

\* The words that a thread has after one more round.
LEMMA ShareNext ==
  ASSUME NEW n \in Nat \ {0}, NEW m \in Nat \ {0}, NEW t \in 0..(n - 1),
         NEW c \in Nat, file \in Nat
  PROVE  Xor(Share(t, c, n, m), {w \in Words : In(w, n * c + t, m)})
           = Share(t, c + 1, n, m)
<1> DEFINE S == Share(t, c, n, m)
           B == {w \in Words : In(w, n * c + t, m)}
<1>1. \A w \in Words : w \in Int
  BY WordType DEF Words
<1>2. \A e \in Int : n * e + t \in Int
  BY Multiples
<1>3. S \cap B = {}
  <2> SUFFICES ASSUME NEW w \in S, w \in B PROVE FALSE
    OBVIOUS
  <2>1. PICK e \in 0..(c - 1) : w \in Words /\ In(w, n * e + t, m)
    BY DEF Share
  <2>2. n * e + t = n * c + t
    BY <1>1, <1>2, <2>1, OneBlock
  <2>3. e = c
    BY <2>2, OneThread
  <2> QED BY <2>3
<1>4. S \cup B = Share(t, c + 1, n, m)
  <2>1. 0..((c + 1) - 1) = 0..(c - 1) \cup {c}
    OBVIOUS
  <2>2. Share(t, c + 1, n, m) = {w \in Words : \E e \in 0..(c - 1) \cup {c} :
                                                  In(w, n * e + t, m)}
    BY <2>1 DEF Share
  <2> QED BY <2>2 DEF Share
<1> HIDE DEF S, B
<1>5. Xor(S, B) = Share(t, c + 1, n, m)
  BY <1>3, <1>4, XorDisjoint
<1> QED BY <1>5 DEF S, B

\* thread_read(): one round of thread t.
LEMMA ThreadStep ==
  ASSUME DiskInv, NEW t \in Threads, ThreadRead(t)
  PROVE  DiskInv'
<1> DEFINE m == BlockBytes
           n == num_threads
           c == tcount[t]
           r == Read(m, Offset(t))
<1>1. /\ tpc[t] = "pread" /\ DiskType
      /\ UNCHANGED <<file, fd, arguments, runs, pos, count, xor, pc>>
      /\ IF r > 0
         THEN /\ txor' = [txor EXCEPT ![t] = Xor(@, xorbuf(Offset(t), r))]
              /\ tcount' = [tcount EXCEPT ![t] = @ + 1]
              /\ UNCHANGED tpc
         ELSE /\ tpc' = [tpc EXCEPT ![t] = "done"]
              /\ UNCHANGED <<tcount, txor>>
  BY DEF ThreadRead, DiskInv, fileVars
<1>2. /\ DOMAIN tpc' = Threads /\ DOMAIN txor' = Threads
      /\ tcount' \in [Threads -> Nat]
  <2> HIDE DEF r
  <2>1. CASE r > 0
    BY <1>1, <2>1 DEF DiskType
  <2>2. CASE ~(r > 0)
    BY <1>1, <2>2 DEF DiskType
  <2> QED BY <2>1, <2>2
<1>3. DiskType'
  BY <1>1, <1>2 DEF DiskType, arguments
<1>4. /\ UNCHANGED <<Words, BlockBytes, InRange, SoFar>>
      /\ \A p : Reading(p)' = Reading(p)
      /\ UNCHANGED <<SeekMore(count), ToInt(pos)>>
  BY <1>1 DEF Words, BlockBytes, InRange, SoFar, Reading, arguments, SeekMore,
              ToInt
<1>5. RunPos' /\ SeekPos' /\ FastXor' /\ CountXor'
  BY <1>1, <1>4 DEF DiskInv, RunPos, SeekPos, FastXor, CountXor, arguments
<1>6. ThreadXor'
  <2> SUFFICES ASSUME InRange PROVE ThreadXor'
    BY <1>4 DEF InRange, ThreadXor
  <2>1. /\ m \in Nat \ {0} /\ n \in Nat \ {0} /\ fd /\ file \in Nat
        /\ block_size \in Nat
    BY <1>1, BlockBytesAre DEF DiskType, InRange, Reading
  <2>2. /\ \A u \in 0..(n - 1) :
             /\ txor[u] = Share(u, tcount[u], n, m)
             /\ tpc[u] = "done" => m * (n * tcount[u] + u) >= file
        /\ pc = "create" => xor = {}
        /\ pc = "join" => count \in 0..n /\ xor = Shares(count, n, m)
        /\ pc = "exit" => xor = Words
    BY DEF DiskInv, ThreadXor, InRange
  <2>3. /\ n' = n /\ m' = m
        /\ \A u, k : Share(u, k, n, m)' = Share(u, k, n, m)
        /\ \A k : Shares(k, n, m)' = Shares(k, n, m)
    BY <1>1, <1>4 DEF Share, Shares, In, arguments
  <2>4. ASSUME NEW u \in 0..(n - 1)
        PROVE  /\ txor'[u] = Share(u, tcount'[u], n, m)
               /\ tpc'[u] = "done" => m * (n * tcount'[u] + u) >= file
    <3>1. CASE u # t
      BY <1>1, <2>2, <3>1 DEF DiskType
    <3>2. CASE u = t
      <4> DEFINE o == Offset(t)
                 j == n * c + t
      <4>1. o = m * j /\ o \in Nat /\ j \in Nat /\ c \in Nat
        BY <1>1, <3>2, OffsetIs DEF DiskType
      <4>2. r = IF o >= file THEN 0 ELSE IF m <= file - o THEN m ELSE file - o
        <5> HIDE DEF m, o
        <5>1. Read(m, o) = IF o >= file THEN 0
                           ELSE IF m <= file - o THEN m ELSE file - o
          BY <2>1, <4>1, ReadBytes
        <5> QED BY <5>1 DEF o
      <4>3. CASE r > 0
        <5>1. xorbuf(o, r) = {w \in Words : In(w, j, m)}
          <6>1. PICK b \in Nat : m = WORD * b
            BY <2>1, BlockBytesAre
          <6>2. WORD \in Nat
            BY DiskAssumption
          <6>3. o = WORD * (b * j) /\ b * j \in Nat
            <7> HIDE DEF m, o, j
            <7>1. m * j = WORD * (b * j)
              BY <4>1, <6>1, <6>2
            <7>2. b * j \in Int /\ b * j >= b * 0 /\ b * 0 = 0
              BY <4>1, Multiples
            <7> QED BY <4>1, <7>1, <7>2
          <6>4. ASSUME NEW k \in Nat, NEW i \in Nat, i = WORD * k,
                       NEW l \in Nat, l = WORD * b
                PROVE  xorbuf(i, Read(l, i)) = {w \in Words : i <= w /\ w < i + l}
            BY <2>1, <6>4, BlockWords
          <6>5. xorbuf(o, r) = {w \in Words : o <= w /\ w < o + m}
            BY <2>1, <4>1, <6>1, <6>3, <6>4
          <6> HIDE DEF r, o, j, m
          <6> QED BY <4>1, <6>5 DEF In
        <5>2. txor'[t] = Xor(txor[t], xorbuf(o, r)) /\ tcount'[t] = c + 1
              /\ tpc'[t] = "pread"
          BY <1>1, <4>3 DEF DiskType
        <5>3. Xor(Share(t, c, n, m), {w \in Words : In(w, n * c + t, m)})
                = Share(t, c + 1, n, m)
          <6> HIDE DEF n, m, c
          <6> QED BY <2>1, <3>2, <4>1, ShareNext
        <5> QED BY <2>2, <3>2, <5>1, <5>2, <5>3
      <4>4. CASE ~(r > 0)
        <5>1. tpc'[t] = "done" /\ tcount'[t] = c /\ txor'[t] = txor[t]
          BY <1>1, <4>4 DEF DiskType
        <5>2. o >= file
          <6> HIDE DEF r, o, m
          <6> QED BY <2>1, <4>1, <4>2, <4>4
        <5> QED BY <2>2, <3>2, <4>1, <5>1, <5>2
      <4> QED BY <4>3, <4>4
    <3> QED BY <3>1, <3>2
  <2> QED BY <1>1, <1>4, <2>2, <2>3, <2>4 DEF ThreadXor
<1> QED BY <1>3, <1>5, <1>6 DEF DiskInv

\* The steps of disk_read() that create and join the threads leave to the
\* other programs nothing, and to the threads their own counts.
LEMMA MainOfThreads ==
  ASSUME DiskInv, pc \in {"create", "join"}, pc' \in {pc, "exit"} \/ pc' = "join",
         pc = "join" => pc' \in {"join", "exit"},
         UNCHANGED <<fileVars, arguments, fd, pos, tcount, txor, runs>>,
         DOMAIN tpc' = Threads
  PROVE  /\ DiskType' /\ RunPos' /\ SeekPos' /\ FastXor' /\ CountXor'
         /\ UNCHANGED <<Words, BlockBytes, InRange>>
<1>1. DiskType /\ mode = "r" /\ prog = "multithreaded" /\ file' = file
  BY DEF DiskInv, DiskType, fileVars
<1>2. DiskType'
  BY <1>1 DEF DiskType, arguments
<1>3. \A p : p # "multithreaded" => ~Reading(p)'
  BY <1>1, OnlyOne
<1>4. UNCHANGED <<Words, BlockBytes, InRange>>
  BY <1>1 DEF Words, BlockBytes, InRange, Reading, arguments
<1> QED BY <1>2, <1>3, <1>4 DEF RunPos, SeekPos, FastXor, CountXor

\* The threads are created.
LEMMA CreateStep ==
  ASSUME DiskInv, Create
  PROVE  DiskInv'
<1> DEFINE m == BlockBytes
           n == num_threads
<1>1. /\ pc = "create" /\ xor' = xor
      /\ UNCHANGED <<fileVars, arguments, fd, pos, tcount, txor, runs>>
      /\ \/ tpc' = [tpc EXCEPT ![count] = "pread"] /\ pc' = pc
         \/ pc' = "join" /\ count' = 0 /\ tpc' = tpc
  BY DEF Create
<1>2. DOMAIN tpc' = Threads
  BY <1>1 DEF DiskInv, DiskType
<1>3. /\ DiskType' /\ RunPos' /\ SeekPos' /\ FastXor' /\ CountXor'
      /\ UNCHANGED <<Words, BlockBytes, InRange>>
  BY <1>1, <1>2, MainOfThreads
<1>4. ThreadXor'
  <2> SUFFICES ASSUME InRange PROVE ThreadXor'
    BY <1>3 DEF InRange, ThreadXor
  <2>1. /\ \A u \in 0..(n - 1) :
             /\ txor[u] = Share(u, tcount[u], n, m)
             /\ tpc[u] = "done" => m * (n * tcount[u] + u) >= file
        /\ xor = {}
    BY <1>1 DEF DiskInv, ThreadXor, InRange
  <2>2. /\ n' = n /\ m' = m /\ file' = file
        /\ \A u, k : Share(u, k, n, m)' = Share(u, k, n, m)
    BY <1>1, <1>3 DEF Share, In, arguments, fileVars
  <2>3. \A u \in 0..(n - 1) : tpc'[u] = "done" => tpc[u] = "done"
    BY <1>1 DEF DiskInv, DiskType
  <2>4. pc' = "join" => /\ count' \in 0..n /\ Shares(count, num_threads, BlockBytes)' = {}
    <3> SUFFICES ASSUME pc' = "join"
                 PROVE  count' \in 0..n /\ Shares(count, num_threads, BlockBytes)' = {}
      OBVIOUS
    <3>1. count' = 0 /\ n \in Nat
      BY <1>1 DEF DiskInv, DiskType
    <3>2. \A u \in 0..(count' - 1) : FALSE
      BY <3>1
    <3> QED BY <3>1, <3>2 DEF Shares
  <2> QED BY <1>1, <2>1, <2>2, <2>3, <2>4 DEF ThreadXor
<1> QED BY <1>3, <1>4 DEF DiskInv

\* What a thread that has stopped has xored are the words of all its blocks.
LEMMA ShareDone ==
  ASSUME file \in Nat, NEW n \in Nat \ {0}, NEW m \in Nat \ {0},
         NEW t \in 0..(n - 1), NEW c \in Nat, m * (n * c + t) >= file
  PROVE  Share(t, c, n, m) = {w \in Words : \E e \in Nat : In(w, n * e + t, m)}
<1>1. \A w \in Words : w \in Nat /\ w < file
  BY WordType DEF Words
<1>2. ASSUME NEW w \in Words, NEW e \in Nat, In(w, n * e + t, m)
      PROVE  e \in 0..(c - 1)
  <2> SUFFICES ASSUME e >= c PROVE FALSE
    OBVIOUS
  <2>1. n * e >= n * c /\ n * e \in Int /\ n * c \in Int
    BY Multiples
  <2> DEFINE x == n * e + t
             y == n * c + t
  <2>2. x >= y /\ x \in Int /\ y \in Int
    BY <2>1
  <2>3. m * y >= file /\ m * x <= w
    BY <1>2 DEF In
  <2> HIDE DEF x, y
  <2>4. m * x >= m * y /\ m * x \in Int /\ m * y \in Int
    BY <2>2, Multiples
  <2> QED BY <1>1, <2>3, <2>4
<1>3. \A e \in 0..(c - 1) : e \in Nat
  OBVIOUS
<1>4. \A w \in Words : (\E e \in 0..(c - 1) : In(w, n * e + t, m))
                         <=> \E e \in Nat : In(w, n * e + t, m)
  BY <1>2, <1>3
<1> QED BY <1>4 DEF Share

\* main() adds a thread's words to those of the threads before.
LEMMA SharesNext ==
  ASSUME file \in Nat, NEW n \in Nat \ {0}, NEW m \in Nat \ {0},
         NEW t \in 0..(n - 1)
  PROVE  Xor(Shares(t, n, m), {w \in Words : \E e \in Nat : In(w, n * e + t, m)})
           = Shares(t + 1, n, m)
<1> DEFINE S == Shares(t, n, m)
           B == {w \in Words : \E e \in Nat : In(w, n * e + t, m)}
<1>1. \A w \in Words : w \in Int
  BY WordType DEF Words
<1>2. \A e \in Nat, u \in 0..(n - 1) : n * e + u \in Int
  BY Multiples
<1>3. S \cap B = {}
  <2> SUFFICES ASSUME NEW w \in S, w \in B PROVE FALSE
    OBVIOUS
  <2>1. PICK u \in 0..(t - 1) : w \in Words /\ \E e \in Nat : In(w, n * e + u, m)
    BY DEF Shares
  <2>2. PICK e \in Nat : In(w, n * e + u, m)
    BY <2>1
  <2>3. PICK d \in Nat : In(w, n * d + t, m)
    OBVIOUS
  <2>4. u \in 0..(n - 1)
    OBVIOUS
  <2>5. n * e + u = n * d + t
    BY <1>1, <1>2, <2>1, <2>2, <2>3, <2>4, OneBlock
  <2>6. u = t
    BY <2>4, <2>5, OneThread
  <2> QED BY <2>6
<1>4. S \cup B = Shares(t + 1, n, m)
  <2>1. 0..((t + 1) - 1) = 0..(t - 1) \cup {t}
    OBVIOUS
  <2>2. Shares(t + 1, n, m)
          = {w \in Words : \E u \in 0..(t - 1) \cup {t} :
                             \E e \in Nat : In(w, n * e + u, m)}
    BY <2>1 DEF Shares
  <2> QED BY <2>2 DEF Shares
<1> HIDE DEF S, B
<1>5. Xor(S, B) = Shares(t + 1, n, m)
  BY <1>3, <1>4, XorDisjoint
<1> QED BY <1>5 DEF S, B

\* The threads are joined.
LEMMA JoinStep ==
  ASSUME DiskInv, Join
  PROVE  DiskInv'
<1> DEFINE m == BlockBytes
           n == num_threads
<1>1. /\ pc = "join" /\ pc' \in {"join", "exit"}
      /\ UNCHANGED <<fileVars, arguments, fd, pos, tpc, tcount, txor, runs>>
      /\ IF count < n
         THEN /\ tpc[count] = "done"
              /\ xor' = Xor(xor, txor[count]) /\ count' = count + 1 /\ pc' = pc
         ELSE pc' = "exit" /\ UNCHANGED <<xor, count>>
  BY DEF Join, threadVars
<1>2. DOMAIN tpc' = Threads
  BY <1>1 DEF DiskInv, DiskType
<1>3. /\ DiskType' /\ RunPos' /\ SeekPos' /\ FastXor' /\ CountXor'
      /\ UNCHANGED <<Words, BlockBytes, InRange>>
  BY <1>1, <1>2, MainOfThreads
<1>4. ThreadXor'
  <2> SUFFICES ASSUME InRange PROVE ThreadXor'
    BY <1>3 DEF InRange, ThreadXor
  <2>1. /\ \A u \in 0..(n - 1) :
             /\ txor[u] = Share(u, tcount[u], n, m)
             /\ tpc[u] = "done" => m * (n * tcount[u] + u) >= file
        /\ count \in 0..n /\ xor = Shares(count, n, m)
    BY <1>1 DEF DiskInv, ThreadXor, InRange
  <2>2. /\ n' = n /\ m' = m /\ file' = file
        /\ \A u, k : Share(u, k, n, m)' = Share(u, k, n, m)
        /\ \A k : Shares(k, n, m)' = Shares(k, n, m)
    BY <1>1, <1>3 DEF Share, Shares, In, arguments, fileVars
  <2>3. /\ m \in Nat \ {0} /\ n \in Nat \ {0} /\ file \in Nat
        /\ \A u \in 0..(n - 1) : tcount[u] \in Nat
    BY BlockBytesAre DEF DiskInv, DiskType, InRange, Reading
  <2>4. CASE count < n
    <3>1. count \in 0..(n - 1) /\ count + 1 \in 0..n
      BY <2>1, <2>3, <2>4
    <3>2. /\ tcount[count] \in Nat
          /\ txor[count] = Share(count, tcount[count], n, m)
          /\ m * (n * tcount[count] + count) >= file
      BY <1>1, <2>1, <2>3, <2>4, <3>1
    <3>3. xor' = Shares(count + 1, n, m)
      <4> HIDE DEF n, m
      <4>1. txor[count] = {w \in Words : \E e \in Nat : In(w, n * e + count, m)}
        BY <2>3, <3>1, <3>2, ShareDone
      <4>2. Xor(Shares(count, n, m),
                {w \in Words : \E e \in Nat : In(w, n * e + count, m)})
              = Shares(count + 1, n, m)
        BY <2>3, <3>1, SharesNext
      <4> QED BY <1>1, <2>1, <2>4, <4>1, <4>2 DEF n
    <3> QED BY <1>1, <2>1, <2>2, <2>4, <3>1, <3>3 DEF ThreadXor
  <2>5. CASE ~(count < n)
    <3>1. count = n
      BY <2>1, <2>3, <2>5
    <3>2. ASSUME NEW w \in Words PROVE w \in Shares(n, n, m)
      <4>1. w \in Nat
        BY <2>3, WordType DEF Words
      <4>2. \E t \in 0..(n - 1) : \E e \in Nat : In(w, n * e + t, m)
        <5> HIDE DEF n, m
        <5> QED BY <2>3, <4>1, SomeThread
      <4> QED BY <4>2 DEF Shares
    <3>3. Shares(n, n, m) = Words
      <4>1. Shares(n, n, m) \subseteq Words
        BY DEF Shares
      <4> HIDE DEF n, m
      <4> QED BY <3>2, <4>1
    <3> QED BY <1>1, <1>3, <2>1, <2>2, <2>5, <3>1, <3>3 DEF ThreadXor
  <2> QED BY <2>4, <2>5
<1> QED BY <1>3, <1>4 DEF DiskInv

\* Nothing has been run yet.
LEMMA InitDisk ==
  ASSUME DiskInit
  PROVE  DiskInv
<1>1. runs = 0
  BY DEF DiskInit
<1>2. \A p : ~Reading(p)
  BY <1>1 DEF Reading
<1>3. 0..(num_threads - 1) \subseteq Threads
  BY ThreadRange DEF DiskInit
<1>4. DiskType
  BY <1>3, DiskAssumption DEF DiskInit, DiskType
<1> QED BY <1>2, <1>4
        DEF DiskInv, RunPos, SeekPos, FastXor, CountXor, ThreadXor

\* Every step of every program keeps the invariant.
LEMMA NextDisk ==
  ASSUME DiskInv, [DiskNext]_diskVars
  PROVE  DiskInv'
<1>0. /\ FASTBLOCK \in Nat \ {0} /\ BlockSizes \subseteq Nat \ {0}
      /\ BlockCounts \subseteq Nat
  BY DiskAssumption
<1>1. CASE FastMain
  <2>1. /\ Open("fast", "r", "fast") /\ Arguments(FASTBLOCK, 0, 0)
    BY <1>1 DEF FastMain
  <2>2. 0..(0 - 1) \subseteq Threads
    BY ThreadRange
  <2> QED BY <1>0, <2>1, <2>2, OpenInv
<1>2. ASSUME NEW m \in {"r", "w"}, NEW bs \in BlockSizes, NEW bc \in BlockCounts,
             NEW p \in {"run", "run_blocksize", "lseek"}, Main(p, m, bs, bc)
      PROVE  DiskInv'
  <2>1. Open(p, m, IF m = "w" THEN "write" ELSE p) /\ Arguments(bs, bc, 0)
    BY <1>2 DEF Main
  <2>2. 0..(0 - 1) \subseteq Threads
    BY ThreadRange
  <2>3. Open(p, m, IF m = "w" THEN "write"
                   ELSE IF p = "multithreaded" THEN "create" ELSE p)
    BY <2>1
  <2>4. /\ bs \in Nat \ {0} /\ bc \in Nat /\ p # "fast"
        /\ p \in {"run", "run_blocksize", "lseek", "fast", "multithreaded"}
    BY <1>0
  <2> QED BY <2>1, <2>2, <2>3, <2>4, OpenInv
<1>3. ASSUME NEW m \in {"r", "w"}, NEW bs \in BlockSizes, NEW bc \in BlockCounts,
             NEW n \in ThreadCounts, MultithreadedMain(m, bs, bc, n)
      PROVE  DiskInv'
  <2>1. /\ Open("multithreaded", m, IF m = "w" THEN "write" ELSE "create")
        /\ Arguments(bs, bc, n)
    BY <1>3 DEF MultithreadedMain
  <2>2. n \in Nat /\ 0..(n - 1) \subseteq Threads
    BY ThreadRange
  <2> DEFINE p == "multithreaded"
  <2>3. Open(p, m, IF m = "w" THEN "write"
                   ELSE IF p = "multithreaded" THEN "create" ELSE p)
    BY <2>1
  <2> QED BY <1>0, <2>1, <2>2, <2>3, OpenInv
<1>4. CASE Step
  BY <1>4, WriteStep, RunStep, FastStep, CountStep, SeekStep, CreateStep,
     JoinStep DEF Step
<1>5. ASSUME NEW t \in Threads, ThreadRead(t) PROVE DiskInv'
  BY <1>5, ThreadStep
<1>6. CASE UNCHANGED diskVars
  BY <1>6 DEF diskVars, fileVars, arguments, threadVars, DiskInv, DiskType, RunPos,
     SeekPos, FastXor, CountXor, ThreadXor, Reading, SoFar, Words, BlockBytes,
     Share, Shares, SeekMore, xorbuf
<1> QED BY <1>1, <1>2, <1>3, <1>4, <1>5, <1>6 DEF DiskNext, Over

\* The invariant of the readers holds whatever programs are run.
THEOREM DiskInvariance ==
  DiskSpec => []DiskInv
<1>1. DiskInit => DiskInv
  BY InitDisk
<1>2. DiskInv /\ [DiskNext]_diskVars => DiskInv'
  BY NextDisk
<1> QED BY <1>1, <1>2, PTL DEF DiskSpec

\* The result of fast, run_blocksize and run_multithreaded holds each word that
\* it is about exactly once, for every length of the file, every block size
\* and every number of threads, however the pread()s of the threads interleave.
THEOREM XorIsComplete ==
  DiskSpec => []XorComplete
<1>1. DiskInv => XorComplete
  BY DEF DiskInv, FastXor, CountXor, ThreadXor, XorComplete, Done, Reading
<1> QED BY <1>1, DiskInvariance, PTL

\* run reads to the end of the file; the loop around lseek() never goes behind
\* the last block, and reaches it unless the size overflows an int.
THEOREM PositionsAreRight ==
  DiskSpec => []Position
<1>1. ASSUME DiskInv, Done, mode = "r", prog = "run" PROVE pos = file
  BY <1>1 DEF DiskInv, RunPos, Done, Reading
<1>2. ASSUME DiskInv, Done, mode = "r", prog = "lseek"
      PROVE  /\ pos <= block_count * block_size
             /\ block_count * block_size < INTLIMIT =>
                  pos = block_count * block_size
  <2>1. /\ count = ToInt(pos) /\ ~SeekMore(count) /\ pos \in Nat
        /\ block_size \in Nat /\ block_count \in Nat
    BY <1>2 DEF DiskInv, DiskType, SeekPos, Done, Reading
  <2>2. PICK k \in 0..block_count : pos = block_size * k
    BY <1>2 DEF DiskInv, SeekPos, Done, Reading
  <2> DEFINE z == block_count * block_size
  <2>3. z \in Int /\ z = block_size * block_count
    BY <2>1, Multiples
  <2>4. pos <= z
    <3>1. block_size * block_count >= block_size * k
      BY <2>1, <2>2, Multiples
    <3> HIDE DEF z
    <3> QED BY <2>1, <2>2, <2>3, <3>1
  <2>5. INTLIMIT \in Nat \ {0}
    BY DiskAssumption
  <2>6. ASSUME z < INTLIMIT PROVE pos = z
    <3>1. ~(count < ToInt(z))
      BY <2>1 DEF SeekMore
    <3> HIDE DEF z
    <3>2. ToInt(z) = z
      BY <2>1, <2>3, <2>4, <2>5, <2>6, ToIntSame
    <3>3. ToInt(pos) = pos
      BY <2>1, <2>3, <2>4, <2>5, <2>6, ToIntSame
    <3> QED BY <2>1, <2>3, <2>4, <3>1, <3>2, <3>3
  <2> QED BY <2>4, <2>6
<1>3. DiskInv => Position
  BY <1>1, <1>2 DEF Position
<1> QED BY <1>3, DiskInvariance, PTL
-----------------------------------------------------------------------------
(***************************************************************************)
(* System calls.  The argument checks of syscall.c keep the kernel inside  *)
(* the mapped user memory, for every size of addresses, pages, ints and    *)
(* date records.                                                           *)
(***************************************************************************)
\* The inductive invariant: the size stays below KERNBASE, so that no sum in
\* the checks wraps around, and while the process runs its memory has pages up
\* to the size.
SizeInv ==
  /\ TypeOK /\ SizeAccounted
  /\ sz \in 1..(KERNBASE - 1)

\* Reduction modulo n does not change what is in range.
LEMMA ModInRange ==
  ASSUME NEW n \in Nat \ {0}, NEW k \in 0..(n - 1)
  PROVE  k % n = k
  OBVIOUS

\* An unsigned int is in its range, and a sum in range is not reduced.
LEMMA UintRange ==
  ASSUME NEW x \in Int
  PROVE  Uint(x) \in Word /\ (x \in Word => Uint(x) = x)
<1>1. 2 * KERNBASE \in Nat \ {0}
  BY SyscallAssumption
<1>2. x % (2 * KERNBASE) \in 0..(2 * KERNBASE - 1)
  BY <1>1, DivMod
<1>3. x \in Word => x % (2 * KERNBASE) = x
  BY <1>1, ModInRange DEF Word
<1> QED BY <1>2, <1>3 DEF Uint, Word

\* Rounding up to whole pages.
LEMMA RoundUp ==
  ASSUME NEW x \in Nat
  PROVE  PGROUNDUP(x) \in Nat /\ PGROUNDUP(x) >= x
<1> DEFINE y == x + PGSIZE - 1
           q == y \div PGSIZE
           r == y % PGSIZE
<1>1. PGSIZE \in Nat \ {0} /\ y \in Nat
  BY SyscallAssumption
<1>2. q \in Int /\ r \in 0..(PGSIZE - 1) /\ y = PGSIZE * q + r
  BY <1>1, DivMod
<1>3. PGROUNDUP(x) = q * PGSIZE
  BY DEF PGROUNDUP
<1> HIDE DEF q, r
<1>4. q * PGSIZE = PGSIZE * q /\ PGSIZE * q \in Int
  BY <1>1, <1>2
<1>5. PGSIZE * q >= x
  BY <1>1, <1>2, <1>4
<1> QED BY <1>3, <1>4, <1>5

LEMMA RoundUpZero == PGROUNDUP(0) = 0
<1> DEFINE q == (PGSIZE - 1) \div PGSIZE
           r == (PGSIZE - 1) % PGSIZE
<1>1. PGSIZE \in Nat \ {0} /\ PGSIZE - 1 \in 0..(PGSIZE - 1)
  BY SyscallAssumption
<1>2. q \in Int /\ PGSIZE - 1 = PGSIZE * q + r
  BY <1>1, DivMod
<1>3. r = PGSIZE - 1
  BY <1>1, ModInRange
<1>4. PGROUNDUP(0) = q * PGSIZE
  BY <1>1 DEF PGROUNDUP
<1> HIDE DEF q, r
<1> QED BY <1>1, <1>2, <1>3, <1>4

-----------------------------------------------------------------------------
\* What passes a check of syscall.c has a page.
LEMMA InsideMapped ==
  ASSUME SizeInv, Running, NEW addr \in Word, NEW n \in 1..KERNBASE,
         Inside(addr, n), NEW a \in Bytes(addr, n)
  PROVE  a < mapped
<1>1. KERNBASE \in Nat /\ sz \in 1..(KERNBASE - 1) /\ addr \in Nat /\ addr < sz
  BY SyscallAssumption DEF SizeInv, Inside, Word
<1>2. addr + n \in Word
  BY <1>1 DEF Word
<1>3. addr + n <= sz
  BY <1>2, UintRange DEF Inside, Word
<1>4. PICK k \in 0..(n - 1) : a = Uint(addr + k)
  BY DEF Bytes
<1>5. addr + k \in Word
  BY <1>1, <1>4 DEF Word
<1>6. a = addr + k
  BY <1>4, <1>5, UintRange DEF Word
<1>7. a \in Nat /\ a < sz
  BY <1>1, <1>3, <1>6
<1>8. mapped \in Nat /\ mapped >= sz
  BY <1>1, RoundUp DEF SizeInv, TypeOK, SizeAccounted
<1> QED BY <1>1, <1>7, <1>8

\* An argument that argint() fetches has pages.
LEMMA ArgMapped ==
  ASSUME SizeInv, Running, NEW esp \in Word, NEW n \in 0..1,
         ArgFetched(esp, n), NEW a \in ArgBytes(esp, n)
  PROVE  a < mapped
<1>1. INT \in 1..KERNBASE /\ KERNBASE \in Nat
  BY SyscallAssumption
<1>2. esp + INT + INT * n \in Int
  BY <1>1 DEF Word
<1>3. ArgAddr(esp, n) \in Word
  BY <1>2, UintRange DEF ArgAddr
<1> QED BY <1>1, <1>3, InsideMapped DEF ArgFetched, ArgBytes

\* The bytes that a system call accesses are addresses.
LEMMA BytesType ==
  ASSUME NEW addr \in Word, NEW n \in 1..KERNBASE
  PROVE  Bytes(addr, n) \subseteq Word
<1> SUFFICES ASSUME NEW k \in 0..(n - 1) PROVE Uint(addr + k) \in Word
  BY DEF Bytes
<1>1. addr + k \in Int
  BY SyscallAssumption DEF Word
<1> QED BY <1>1, UintRange

LEMMA ArgBytesType ==
  ASSUME NEW esp \in Word, NEW n \in 0..1
  PROVE  ArgBytes(esp, n) \subseteq Word
<1>1. INT \in 1..KERNBASE /\ KERNBASE \in Nat
  BY SyscallAssumption
<1>2. esp + INT + INT * n \in Int
  BY <1>1 DEF Word
<1> QED BY <1>1, <1>2, UintRange, BytesType DEF ArgAddr, ArgBytes

\* growproc() keeps the size below KERNBASE and accounted for.
LEMMA GrowKeeps ==
  ASSUME SizeInv, Running, NEW n \in Int, growproc(n)
  PROVE  /\ sz' \in 1..(KERNBASE - 1) /\ mapped' \in Nat
         /\ SizeAccounted'
<1>1. /\ KERNBASE \in Nat /\ sz \in 1..(KERNBASE - 1) /\ mapped \in Nat
      /\ mapped = PGROUNDUP(sz)
  BY SyscallAssumption DEF SizeInv, TypeOK, SizeAccounted
<1> DEFINE newsz == Uint(sz + n)
<1>2. newsz \in Nat
  BY <1>1, UintRange DEF Word
<1> HIDE DEF newsz
<1>3. ASSUME sz' = sz, mapped' = mapped
      PROVE  sz' \in 1..(KERNBASE - 1) /\ mapped' \in Nat /\ SizeAccounted'
  BY <1>1, <1>3 DEF SizeAccounted, PGROUNDUP
<1>4. ASSUME newsz \in 1..(KERNBASE - 1), sz' = newsz, mapped' = PGROUNDUP(newsz)
      PROVE  sz' \in 1..(KERNBASE - 1) /\ mapped' \in Nat /\ SizeAccounted'
  BY <1>4, <1>2, RoundUp DEF SizeAccounted, PGROUNDUP
<1>5. ASSUME newsz = 0, sz' = sz, mapped' = PGROUNDUP(0)
      PROVE  sz' \in 1..(KERNBASE - 1) /\ mapped' \in Nat /\ SizeAccounted'
  BY <1>1, <1>5, RoundUpZero DEF SizeAccounted, Running
<1>6. CASE n > 0
  <2>1. PICK r \in allocuvm(newsz) : sz' = SizeAfter(r[1]) /\ mapped' = r[2]
    BY <1>6 DEF growproc, newsz
  <2>2. CASE r = <<0, mapped>>
    BY <2>1, <2>2, <1>3 DEF SizeAfter
  <2>3. CASE newsz < KERNBASE /\ r = <<newsz, PGROUNDUP(newsz)>>
    <3>1. CASE newsz = 0
      BY <2>1, <2>3, <3>1, <1>5 DEF SizeAfter
    <3>2. CASE newsz # 0
      BY <2>1, <2>3, <3>2, <1>1, <1>2, <1>4 DEF SizeAfter
    <3> QED BY <3>1, <3>2
  <2>4. newsz >= KERNBASE \/ newsz < KERNBASE
    BY <1>1, <1>2
  <2> QED BY <2>1, <2>2, <2>3, <2>4, <1>1, <1>2 DEF allocuvm
<1>7. CASE n < 0
  <2>1. PICK r \in deallocuvm(newsz) : sz' = SizeAfter(r[1]) /\ mapped' = r[2]
    BY <1>7 DEF growproc, newsz
  <2>2. CASE newsz >= sz
    BY <2>1, <2>2, <1>3 DEF SizeAfter, deallocuvm
  <2>3. CASE ~(newsz >= sz)
    <3>1. r = <<newsz, PGROUNDUP(newsz)>>
      BY <2>1, <2>3 DEF deallocuvm
    <3>2. CASE newsz = 0
      BY <2>1, <3>1, <3>2, <1>5 DEF SizeAfter
    <3>3. CASE newsz # 0
      <4>1. newsz \in 1..(KERNBASE - 1)
        BY <1>1, <1>2, <2>3, <3>3
      <4> QED BY <2>1, <3>1, <3>3, <4>1, <1>4 DEF SizeAfter
    <3> QED BY <3>2, <3>3
  <2> QED BY <2>2, <2>3
<1>8. CASE n = 0
  <2>1. PICK r \in {<<sz, mapped>>} : sz' = SizeAfter(r[1]) /\ mapped' = r[2]
    BY <1>8 DEF growproc
  <2> QED BY <2>1, <1>3 DEF SizeAfter
<1> QED BY <1>6, <1>7, <1>8

\* What a system call accesses, whichever it is.
LEMMA CallAccesses ==
  ASSUME SizeInv, Next
  PROVE  UNCHANGED vars \/ (touched' \subseteq Word /\ \A a \in touched' : a < mapped)
<1> USE DEF Running
<1>1. CASE NoArgument
  BY <1>1 DEF NoArgument
<1>2. CASE Faulted
  BY <1>2 DEF Faulted
<1>3. ASSUME NEW esp \in Word, Argint(esp)
      PROVE  touched' \subseteq Word /\ \A a \in touched' : a < mapped
  BY <1>3, 0 \in 0..1, ArgMapped, ArgBytesType DEF Argint
<1>4. ASSUME NEW esp \in Word, NEW v \in Word, SysGettime(esp, v)
      PROVE  touched' \subseteq Word /\ \A a \in touched' : a < mapped
  <2>1. RTCDATE \in 1..KERNBASE
    BY SyscallAssumption
  <2>2. ASSUME NEW a \in touched' PROVE a \in Word /\ a < mapped
    <3>1. CASE a \in ArgBytes(esp, 0) /\ ArgFetched(esp, 0)
      BY <3>1, <1>4, 0 \in 0..1, ArgMapped, ArgBytesType DEF SysGettime
    <3>2. CASE a \in Bytes(v, RTCDATE) /\ Inside(v, RTCDATE)
      BY <3>2, <1>4, <2>1, InsideMapped, BytesType DEF SysGettime
    <3> QED BY <3>1, <3>2, <2>2, <1>4 DEF SysGettime
  <2> QED BY <2>2
<1>5. ASSUME NEW esp \in Word, NEW v \in Word, SysSbrk(esp, v)
      PROVE  touched' \subseteq Word /\ \A a \in touched' : a < mapped
  BY <1>5, 0 \in 0..1, ArgMapped, ArgBytesType DEF SysSbrk
<1>6. ASSUME NEW esp \in Word, NEW n \in 0..1, NEW s \in Word, NEW z \in Word,
             Argstr(esp, n, s, z)
      PROVE  touched' \subseteq Word /\ \A a \in touched' : a < mapped
  <2>1. ASSUME NEW a \in touched' PROVE a \in Word /\ a < mapped
    <3>1. CASE a \in ArgBytes(esp, n) /\ ArgFetched(esp, n)
      BY <3>1, <1>6, ArgMapped, ArgBytesType DEF Argstr
    <3>2. CASE a \in StringBytes(s, z)
      <4>1. /\ KERNBASE \in Nat /\ sz \in 1..(KERNBASE - 1)
            /\ mapped \in Nat /\ mapped >= sz
        BY <1>6, SyscallAssumption, RoundUp
        DEF SizeInv, TypeOK, SizeAccounted, Argstr
      <4>2. a \in s..(sz - 1)
        BY <3>2 DEF StringBytes
      <4> QED BY <4>1, <4>2 DEF Word
    <3> QED BY <3>1, <3>2, <2>1, <1>6 DEF Argstr
  <2> QED BY <2>1
<1> QED BY <1>1, <1>2, <1>3, <1>4, <1>5, <1>6 DEF Next

-----------------------------------------------------------------------------
LEMMA InitEstablishes == Init => SizeInv
<1> SUFFICES ASSUME Init PROVE SizeInv
  OBVIOUS
<1>1. KERNBASE \in Nat /\ PGSIZE \in 1..(KERNBASE - 1)
  BY SyscallAssumption
<1>2. PGROUNDUP(PGSIZE) = PGSIZE
  <2> DEFINE y == PGSIZE + PGSIZE - 1
             q == y \div PGSIZE
             r == y % PGSIZE
  <2>1. q \in Int /\ r \in 0..(PGSIZE - 1) /\ y = PGSIZE * q + r
    BY <1>1, DivMod
  <2>2. PGROUNDUP(PGSIZE) = q * PGSIZE
    BY DEF PGROUNDUP
  <2> HIDE DEF q, r
  <2>3. q = 1
    <3>1. CASE q <= 0
      <4>1. PGSIZE * q <= 0
        BY <1>1, <2>1, <3>1
      <4> QED BY <1>1, <2>1, <4>1
    <3>2. CASE q >= 2
      <4>1. PGSIZE * q >= 2 * PGSIZE
        BY <1>1, <2>1, <3>2
      <4> QED BY <1>1, <2>1, <4>1
    <3> QED BY <2>1, <3>1, <3>2
  <2> QED BY <1>1, <2>2, <2>3
<1> QED BY <1>1, <1>2 DEF Init, SizeInv, TypeOK, SizeAccounted, Word

LEMMA StepKeeps == SizeInv /\ [Next]_vars => SizeInv'
<1> SUFFICES ASSUME SizeInv, [Next]_vars PROVE SizeInv'
  OBVIOUS
<1>0. CASE UNCHANGED vars
  BY <1>0 DEF vars, SizeInv, TypeOK, SizeAccounted, Running, PGROUNDUP
<1>1. ASSUME Next, UNCHANGED <<sz, mapped>> PROVE SizeInv'
  BY <1>0, <1>1, CallAccesses DEF SizeInv, TypeOK, SizeAccounted, Running, PGROUNDUP
<1>2. ASSUME NEW esp \in Word, NEW v \in Word, SysSbrk(esp, v) PROVE SizeInv'
  <2>1. Next
    BY <1>2 DEF Next
  <2>2. Running /\ KERNBASE \in Nat /\ AsInt(v) \in Int
    BY <1>2, SyscallAssumption DEF SysSbrk, AsInt, Word
  <2>3. CASE growproc(AsInt(v))
    <3>1. sz' \in 1..(KERNBASE - 1) /\ mapped' \in Nat /\ SizeAccounted'
      BY <2>2, <2>3, GrowKeeps
    <3>2. UNCHANGED vars \/ touched' \subseteq Word
      BY <2>1, CallAccesses
    <3> QED BY <1>0, <2>2, <3>1, <3>2 DEF SizeInv, TypeOK, Word
  <2>4. CASE UNCHANGED <<sz, mapped>>
    BY <2>1, <2>4, <1>1
  <2> QED BY <1>2, <2>3, <2>4 DEF SysSbrk
<1> QED BY <1>0, <1>1, <1>2
        DEF Next, NoArgument, Faulted, Argint, SysGettime, Argstr, vars

LEMMA SizeInvariant == Spec => []SizeInv
  BY InitEstablishes, StepKeeps, PTL DEF Spec

\* Sizes and addresses keep their ranges through all system calls.
THEOREM TypeCorrect == Spec => []TypeOK
<1>1. SizeInv => TypeOK
  BY DEF SizeInv
<1> QED BY <1>1, SizeInvariant, PTL

\* However calls of sbrk() succeed and fail, proc->sz ends in the last page that
\* the process has, unless growproc() has freed all of its memory.
THEOREM SizesAreAccounted == Spec => []SizeAccounted
<1>1. SizeInv => SizeAccounted
  BY DEF SizeInv
<1> QED BY <1>1, SizeInvariant, PTL

\* No argument, however large, and no stack pointer makes a system call access
\* user memory without a page: the checks of fetchint(), fetchstr() and argptr()
\* suffice, although their sums are unsigned and could wrap around.
THEOREM AccessesAreMapped == Spec => AccessesMapped
<1>1. SizeInv /\ [Next]_vars => [\A a \in touched' : a < mapped]_vars
  BY CallAccesses
<1> QED BY <1>1, SizeInvariant, PTL DEF Spec, AccessesMapped
=============================================================================
