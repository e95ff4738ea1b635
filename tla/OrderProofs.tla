----------------------------- MODULE OrderProofs -----------------------------
(***************************************************************************)
(* Facts about numbers and lists that the proofs of several modules use.   *)
(* Induction is stated with sets: the library's theorems take an operator. *)
(***************************************************************************)
EXTENDS Order, FiniteSetsExt, FiniteSetTheorems, SequenceTheorems,
        WellFoundedInduction, TLAPS

\* A set of numbers that is not empty has a least member.
LEMMA Least ==
  ASSUME NEW S \in SUBSET Nat, S # {}
  PROVE  Min(S) \in S /\ \A x \in S : Min(S) <= x
<1> DEFINE R == OpToRel(<, Nat)
<1>1. IsWellFoundedOn(R, Nat)
  BY NatLessThanWellFounded
<1>2. \E n \in S : \A m \in S : <<m, n>> \notin R
  <2> HIDE DEF R
  <2> QED BY <1>1, WFMin
<1>3. PICK n \in S : \A m \in S : <<m, n>> \notin R
  BY <1>2
<1>4. ASSUME NEW m \in S PROVE n <= m
  <2>1. ~(m < n)
    BY <1>3 DEF OpToRel
  <2> QED BY <2>1
<1> HIDE DEF R
<1>5. \E x \in S : \A y \in S : x <= y
  BY <1>4
<1> QED BY <1>5 DEF Min

\* The greatest member of a set of numbers is its maximum.
LEMMA Greatest ==
  ASSUME NEW S \in SUBSET Nat, NEW p \in S, \A x \in S : x <= p
  PROVE  Max(S) = p
<1>1. ASSUME NEW x \in S, \A y \in S : x >= y PROVE x = p
  <2>1. x >= p /\ x <= p /\ x \in Nat /\ p \in Nat
    BY <1>1
  <2> QED BY <2>1
<1>2. \A y \in S : p >= y
  OBVIOUS
<1> QED BY <1>1, <1>2 DEF Max

\* A bounded set of numbers that is not empty has a greatest member.
LEMMA HasGreatest ==
  ASSUME NEW S \in SUBSET Nat, S # {}, NEW b \in Nat, \A x \in S : x <= b
  PROVE  \E m \in S : \A x \in S : x <= m
<1> DEFINE T == {k \in Nat : \A x \in S : x <= k}
           m == Min(T)
<1>1. T \in SUBSET Nat /\ b \in T
  OBVIOUS
<1>2. m \in T /\ \A k \in T : m <= k
  <2> HIDE DEF T
  <2> QED BY <1>1, Least
<1>3. m \in Nat /\ \A x \in S : x <= m
  BY <1>2
<1>4. \A k \in Nat : k < m => \E x \in S : k < x
  BY <1>2, <1>3
<1> HIDE DEF m, T
<1>5. m \in S
  <2> SUFFICES ASSUME m \notin S PROVE FALSE
    OBVIOUS
  <2>1. \A x \in S : x < m
    BY <1>3
  <2>2. m # 0
    <3>1. PICK x \in S : x < m
      BY <2>1
    <3> QED BY <3>1
  <2>3. m - 1 \in Nat /\ m - 1 < m
    BY <1>3, <2>2
  <2>4. PICK x \in S : m - 1 < x
    BY <1>4, <2>3
  <2>5. x < m /\ x \in Nat
    BY <2>1
  <2> QED BY <1>3, <2>4, <2>5
<1> QED BY <1>3, <1>5

\* A set that has 0 and the successor of each of its members is Nat.
LEMMA NumberInduction ==
  ASSUME NEW A \in SUBSET Nat, 0 \in A, \A n \in A : n + 1 \in A
  PROVE  A = Nat
<1> DEFINE T == Nat \ A
<1> SUFFICES ASSUME T # {} PROVE FALSE
  OBVIOUS
<1>1. Min(T) \in T /\ \A x \in T : Min(T) <= x
  <2>1. T \in SUBSET Nat
    OBVIOUS
  <2> HIDE DEF T
  <2> QED BY <2>1, Least
<1> DEFINE n == Min(T)
<1>2. n \in Nat /\ n \notin A /\ \A x \in Nat : x < n => x \in A
  BY <1>1
<1> HIDE DEF n
<1>3. n # 0
  BY <1>2
<1>4. n - 1 \in Nat /\ n - 1 < n /\ (n - 1) + 1 = n
  BY <1>2, <1>3
<1> QED BY <1>2, <1>4

\* Appending the item of a position behind all others keeps the order.
LEMMA ListsGrow ==
  ASSUME NEW X, NEW out \in Seq(X), NEW S \in SUBSET Nat, IsFiniteSet(S),
         NEW m \in Nat, \A i \in S : i < m, NEW item, item[m] \in X,
         Lists(out, S, item)
  PROVE  Lists(Append(out, item[m]), S \cup {m}, item)
<1> DEFINE T == S \cup {m}
           c == Cardinality(S)
           new == Append(out, item[m])
<1>1. c \in Nat /\ Len(out) = c /\ m \notin S
  <2>1. m \notin S
    OBVIOUS
  <2> QED BY <2>1, FS_CardinalityType DEF Lists
<1>2. Cardinality(T) = c + 1
  BY <1>1, FS_AddElement
<1>3. /\ Len(new) = c + 1 /\ new[c + 1] = item[m]
      /\ \A k \in 1..c : new[k] = out[k]
  BY <1>1, AppendProperties
<1> HIDE DEF new
<1>4. ASSUME NEW i \in S PROVE new[Rank(i, T)] = item[i]
  <2>1. {j \in T : j <= i} = {j \in S : j <= i}
    OBVIOUS
  <2>2. Rank(i, T) = Rank(i, S)
    BY <2>1 DEF Rank
  <2>3. Rank(i, S) \in 1..c
    <3> DEFINE L == {j \in S : j <= i}
    <3>1. L \in SUBSET S /\ i \in L
      OBVIOUS
    <3> HIDE DEF L
    <3>2. IsFiniteSet(L) /\ Cardinality(L) <= c /\ Cardinality(L) \in Nat
      BY <3>1, FS_Subset, FS_CardinalityType
    <3>3. Cardinality(L) # 0
      BY <3>1, <3>2, FS_EmptySet
    <3>4. Rank(i, S) = Cardinality(L)
      BY DEF Rank, L
    <3> HIDE DEF c
    <3> QED BY <1>1, <3>2, <3>3, <3>4
  <2>4. out[Rank(i, S)] = item[i]
    BY DEF Lists
  <2> HIDE DEF c
  <2> QED BY <1>3, <2>2, <2>3, <2>4
<1>5. new[Rank(m, T)] = item[m]
  <2>1. {j \in T : j <= m} = T
    <3>1. ASSUME NEW j \in T PROVE j <= m
      OBVIOUS
    <3> HIDE DEF T
    <3> QED BY <3>1
  <2>2. Rank(m, T) = c + 1
    BY <1>2, <2>1 DEF Rank
  <2> HIDE DEF c
  <2> QED BY <1>3, <2>2
<1>6. Lists(new, T, item)
  <2> HIDE DEF c
  <2>1. Len(new) = Cardinality(T)
    BY <1>2, <1>3
  <2> QED BY <1>4, <1>5, <2>1 DEF Lists
<1> QED BY <1>6 DEF new
=============================================================================
