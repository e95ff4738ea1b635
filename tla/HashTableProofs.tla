--------------------------- MODULE HashTableProofs ---------------------------
(***************************************************************************)
(* The two locked hash table programs lose no key, and all three count the *)
(* lost keys exactly, for every number of threads, buckets and keys and    *)
(* whatever the keys are.                                                  *)
(***************************************************************************)
EXTENDS HashTable, FiniteSetTheorems, TLAPS

(***************************************************************************)
(* The inductive invariant.                                                *)
(***************************************************************************)
Owner(j) == j % num_threads

Critical == {"link", "publish", "unlock"}
PutOver  == GetPoints \cup {"put_exit", "get_exit"}

\* The lock is held from before the read of the head to after its update.
LockHeld ==
  \A t \in Threads :
    pc[t] \in Critical => holder[LockOf(Bucket(key[t]))] = t

\* A thread only handles the indexes it owns.
OwnIndex == \A t \in Threads : Owner(key[t]) = t

\* What thread t has inserted: nothing before it runs, in the put phase the
\* indexes it owns below key[t], and all the indexes it owns afterwards.
Progress ==
  \A j \in Index :
    LET t == Owner(j) IN
    /\ pc[t] = "none" => j \notin inserted
    /\ pc[t] \in PutPoints =>
         (j \in inserted <=> j < key[t] \/ (j = key[t] /\ pc[t] = "unlock"))
    /\ pc[t] \in PutOver => j \in inserted

\* The inserted entries are closed under next and hold the heads.
InsertedClosed ==
  /\ \A j \in inserted : next[j] \in inserted \cup {NULL}
  /\ \A k \in Buckets : table[k] \in inserted \cup {NULL}

\* The barrier: where the threads can be while main() is in each of its loops.
Phases ==
  \A t \in Threads :
    /\ main_pc = "create_put" =>
         pc[t] \in (IF t < i THEN PutPoints \cup {"put_exit"} ELSE {"none"})
    /\ main_pc = "join_put" =>
         pc[t] \in (IF t < i THEN {} ELSE PutPoints) \cup {"put_exit"}
    /\ main_pc = "create_get" =>
         pc[t] \in (IF t < i THEN GetPoints \cup {"get_exit"}
                    ELSE {"put_exit"})
    /\ main_pc \in {"join_get", "done"} =>
         pc[t] \in GetPoints \cup {"get_exit"}

\* retrieve() has not yet passed the entry that was inserted for its index.
Walking == \A t \in Threads : pc[t] = "walk" => OnChain(b[t], key[t])

NoneLost == total_lost = 0 /\ \A t \in Threads : lost[t] = 0

Inv ==
  /\ TypeOK /\ LockHeld /\ OwnIndex /\ Progress /\ LinkFresh
  /\ InsertedClosed /\ NoKeyLost /\ Phases /\ Walking /\ NoneLost

-----------------------------------------------------------------------------
(***************************************************************************)
(* The stride of the loops: thread t visits t, t + n, t + 2n, ...          *)
(***************************************************************************)

\* What % and \div compute.
LEMMA Division ==
  ASSUME NEW n \in Nat \ {0}, NEW k \in Nat
  PROVE  /\ k \div n \in Int /\ k % n \in 0..(n - 1)
         /\ k = n * (k \div n) + (k % n)
  OBVIOUS

\* Multiples of n are at least n apart.
LEMMA Multiples ==
  ASSUME NEW n \in Nat \ {0}, NEW a \in Int, NEW c \in Int, a >= c + 1
  PROVE  n * a >= n * c + n
  OBVIOUS

\* key += num_threads stays with the same owner.
LEMMA StrideOwner ==
  ASSUME NEW n \in Nat \ {0}, NEW k \in Nat
  PROVE  (k + n) % n = k % n
<1> DEFINE a == (k + n) \div n
           c == k \div n
           r == (k + n) % n
           s == k % n
<1>1. /\ a \in Int /\ c \in Int /\ r \in 0..(n - 1) /\ s \in 0..(n - 1)
      /\ k + n = n * a + r /\ k = n * c + s
  BY Division
<1> HIDE DEF a, c, r, s
<1>2. n * a + r = n * (c + 1) + s
  BY <1>1
<1>3. a = c + 1
  <2>1. CASE a >= (c + 1) + 1
    <3>1. n * a >= n * (c + 1) + n
      BY <2>1, <1>1, Multiples
    <3> QED BY <3>1, <1>1, <1>2
  <2>2. CASE c + 1 >= a + 1
    <3>1. n * (c + 1) >= n * a + n
      BY <2>2, <1>1, Multiples
    <3> QED BY <3>1, <1>1, <1>2
  <2> QED BY <2>1, <2>2, <1>1
<1>4. r = s
  BY <1>1, <1>2, <1>3
<1> QED BY <1>4 DEF r, s

\* Between two visited indexes a thread owns no other: no index is skipped.
LEMMA StrideNoGap ==
  ASSUME NEW n \in Nat \ {0}, NEW k \in Nat, NEW j \in Nat,
         j % n = k % n, j < k + n
  PROVE  j <= k
<1> DEFINE a == j \div n
           c == k \div n
           r == k % n
<1>1. /\ a \in Int /\ c \in Int /\ r \in 0..(n - 1)
      /\ j = n * a + r /\ k = n * c + r
  BY Division
<1> HIDE DEF a, c, r
<1>2. ASSUME a >= c + 1 PROVE FALSE
  <2>1. n * a >= n * c + n
    BY <1>1, <1>2, Multiples
  <2> QED BY <2>1, <1>1
<1>3. ASSUME c >= a + 1 PROVE j <= k
  <2>1. n * c >= n * a + n
    BY <1>1, <1>3, Multiples
  <2> QED BY <2>1, <1>1
<1> QED BY <1>1, <1>2, <1>3

\* The first index of thread t is its own.
LEMMA StrideStart ==
  ASSUME NEW n \in Nat \ {0}, NEW t \in 0..(n - 1)
  PROVE  t % n = t
  OBVIOUS

\* Every index has an owner among the threads.
LEMMA OwnerType == ASSUME NEW j \in Nat PROVE Owner(j) \in Threads
  BY Division, HashAssumption DEF Owner, Threads

\* Every key has a bucket, and that a lock.
LEMMA BucketType ==
  ASSUME TypeOK, NEW j \in Index
  PROVE  Bucket(j) \in Buckets /\ LockOf(Bucket(j)) \in Buckets
<1>1. keys[j] \in Nat
  BY HashAssumption DEF TypeOK
<1>2. keys[j] % NUM_BUCKETS \in 0..(NUM_BUCKETS - 1)
  BY <1>1, Division, HashAssumption
<1>3. 0 \in Buckets
  BY HashAssumption DEF Buckets
<1> QED BY <1>2, <1>3 DEF Bucket, Buckets, LockOf

-----------------------------------------------------------------------------
(***************************************************************************)
(* Chains.                                                                 *)
(***************************************************************************)

\* The first entry of a chain is on it.
LEMMA ChainFirst == ASSUME NEW j PROVE OnChain(j, j)
  BY DEF OnChain

\* An entry put in front of a chain starts a chain that holds all the rest.
LEMMA ChainPrepend ==
  ASSUME NEW x \in Index, NEW j, OnChain(next[x], j)
  PROVE  OnChain(x, j)
<1> SUFFICES ASSUME NEW S \in SUBSET (Index \cup {NULL}), x \in S, Closed(S)
             PROVE  j \in S
  BY DEF OnChain
<1>1. next[x] \in S
  BY DEF Closed, Index, NULL
<1> QED BY <1>1 DEF OnChain

\* One step along a chain does not pass an entry that comes later.
LEMMA ChainNext ==
  ASSUME NEW x \in Index, NEW j, j # x, OnChain(x, j),
         next[x] \in Index \cup {NULL}
  PROVE  OnChain(next[x], j)
<1> SUFFICES ASSUME NEW S \in SUBSET (Index \cup {NULL}), next[x] \in S,
                    Closed(S)
             PROVE  j \in S
  BY DEF OnChain
<1> DEFINE T == S \cup {x}
<1>1. T \in SUBSET (Index \cup {NULL}) /\ x \in T
  OBVIOUS
<1>2. Closed(T)
  BY DEF Closed
<1>3. j \in T
  BY <1>1, <1>2 DEF OnChain
<1> QED BY <1>3

\* Nothing is on the chain that starts at NULL.
LEMMA ChainEnd == ASSUME NEW j \in Index PROVE ~OnChain(NULL, j)
<1>1. {NULL} \in SUBSET (Index \cup {NULL}) /\ Closed({NULL})
  BY DEF Closed
<1>2. j \notin {NULL}
  BY HashAssumption DEF Index, NULL
<1> QED BY <1>1, <1>2 DEF OnChain

\* Chains depend on next only.
LEMMA ChainFrame ==
  ASSUME UNCHANGED next
  PROVE  \A x, j : OnChain(x, j)' <=> OnChain(x, j)
  BY DEF OnChain, Closed

-----------------------------------------------------------------------------
(***************************************************************************)
(* Each step preserves the invariant.                                      *)
(***************************************************************************)

\* The number of threads is positive and the threads are numbered from 0.
LEMMA ThreadNumbers ==
  /\ num_threads \in Nat \ {0} /\ NUM_KEYS \in Nat
  /\ \A t \in Threads : t \in Nat /\ t < num_threads
  /\ \A j \in Index : j \in Nat /\ j < NUM_KEYS /\ j # NULL
  BY HashAssumption DEF Threads, Index, NULL

\* malloc() succeeds.
LEMMA MallocStep ==
  ASSUME Inv, Locking # "none", NEW t \in Threads, Malloc(t)
  PROVE  Inv'
<1> USE DEF Malloc, heapVars, mainVars, PutPoints, GetPoints, Points
<1>1. TypeOK'
  BY DEF Inv, TypeOK
<1>2. \A s \in Threads : pc'[s] \in Critical \cup PutOver \cup {"none"} =>
                           pc'[s] = pc[s]
  BY DEF Inv, TypeOK, Critical, PutOver
<1>3. (LockHeld /\ OwnIndex /\ LinkFresh /\ InsertedClosed)'
  BY <1>2 DEF Inv, LockHeld, OwnIndex, LinkFresh, InsertedClosed, Critical,
              Bucket, LockOf
<1>4. Progress'
  BY DEF Inv, TypeOK, Progress, PutOver
<1>5. NoKeyLost' /\ Walking'
  BY ChainFrame DEF Inv, TypeOK, NoKeyLost, Walking, Bucket
<1>6. Phases' /\ NoneLost'
  BY DEF Inv, TypeOK, Phases, NoneLost
<1> QED BY <1>1, <1>3, <1>4, <1>5, <1>6 DEF Inv

\* The lock is taken: nobody else holds it.
LEMMA LockStep ==
  ASSUME Inv, Locking # "none", NEW t \in Threads, Lock(t)
  PROVE  Inv'
<1> USE DEF Lock, mainVars, PutPoints, GetPoints, Points
<1>1. key[t] \in Index
  BY DEF Inv, TypeOK
<1>2. TypeOK'
  BY <1>1, BucketType DEF Inv, TypeOK
<1>3. LockHeld'
  <2>1. LockOf(Bucket(key[t])) \in Buckets
    BY <1>1, BucketType DEF Inv
  <2>2. \A s \in Threads \ {t} : pc[s] \in Critical =>
          LockOf(Bucket(key[s])) # LockOf(Bucket(key[t]))
    BY HashAssumption DEF Inv, LockHeld, Free
  <2> QED BY <2>1, <2>2 DEF Inv, TypeOK, LockHeld, Critical, Bucket, LockOf
<1>4. (OwnIndex /\ LinkFresh /\ InsertedClosed)'
  BY DEF Inv, TypeOK, OwnIndex, LinkFresh, InsertedClosed, Bucket
<1>5. Progress'
  BY DEF Inv, TypeOK, Progress, PutOver
<1>6. NoKeyLost' /\ Walking'
  BY ChainFrame DEF Inv, TypeOK, NoKeyLost, Walking, Bucket
<1>7. Phases' /\ NoneLost'
  BY DEF Inv, TypeOK, Phases, NoneLost
<1> QED BY <1>2, <1>3, <1>4, <1>5, <1>6, <1>7 DEF Inv

\* The entry is linked to the head: it is on no chain yet, so no chain changes.
LEMMA LinkStep ==
  ASSUME Inv, Locking # "none", NEW t \in Threads, Link(t)
  PROVE  Inv'
<1> USE DEF Link, mainVars, PutPoints, GetPoints, Points
<1>1. key[t] \in Index /\ Bucket(key[t]) \in Buckets
  BY BucketType DEF Inv, TypeOK
<1>2. key[t] \notin inserted
  BY <1>1, ThreadNumbers DEF Inv, Progress, OwnIndex
<1>3. TypeOK'
  BY <1>1 DEF Inv, TypeOK
<1>4. LockHeld' /\ OwnIndex'
  BY DEF Inv, TypeOK, LockHeld, OwnIndex, Critical, Bucket, LockOf
<1>5. LinkFresh'
  <2>1. \A s \in Threads \ {t} : key[s] # key[t]
    BY DEF Inv, OwnIndex
  <2> QED BY <2>1, <1>1 DEF Inv, TypeOK, LinkFresh, Bucket
<1>6. InsertedClosed'
  BY <1>2 DEF Inv, TypeOK, InsertedClosed
<1>7. Progress'
  BY DEF Inv, TypeOK, Progress, PutOver
<1>8. ASSUME NEW x \in inserted \cup {NULL}, NEW j, OnChain(x, j)
      PROVE  OnChain(x, j)'
  <2> SUFFICES ASSUME NEW S \in SUBSET (Index \cup {NULL}), x \in S,
                      Closed(S)'
               PROVE  j \in S
    BY DEF OnChain
  <2> DEFINE T == S \cap (inserted \cup {NULL})
  <2>1. Closed(T)
    BY <1>2 DEF Inv, TypeOK, InsertedClosed, Closed
  <2>2. j \in T
    BY <2>1, <1>8 DEF OnChain
  <2> QED BY <2>2
<1>9. NoKeyLost'
  <2> SUFFICES ASSUME NEW j \in inserted
               PROVE  OnChain(table[Bucket(j)], j)'
    BY DEF NoKeyLost
  <2>1. Bucket(j) \in Buckets /\ OnChain(table[Bucket(j)], j)
    BY BucketType DEF Inv, TypeOK, NoKeyLost
  <2>2. PICK x \in inserted \cup {NULL} : x = table[Bucket(j)]
    BY <2>1 DEF Inv, InsertedClosed
  <2>3. OnChain(x, j)' /\ x = table'[Bucket(j)']
    BY <2>1, <2>2, <1>8 DEF Bucket
  <2> QED BY <2>3 DEF OnChain
<1>10. Walking'
  BY DEF Inv, TypeOK, Walking, Phases, MainPoints
<1>11. Phases' /\ NoneLost'
  BY DEF Inv, TypeOK, Phases, NoneLost
<1> QED BY <1>3, <1>4, <1>5, <1>6, <1>7, <1>9, <1>10, <1>11 DEF Inv
\* Two threads between lock and unlock do not work on the same bucket.
LEMMA Exclusion ==
  ASSUME Inv, NEW s \in Threads, NEW t \in Threads, s # t,
         pc[s] \in Critical, pc[t] \in Critical
  PROVE  LockOf(Bucket(key[s])) # LockOf(Bucket(key[t]))
  BY DEF Inv, LockHeld

\* The entry becomes the head, in front of the chain it was linked to.
LEMMA PublishStep ==
  ASSUME Inv, Locking # "none", NEW t \in Threads, Publish(t)
  PROVE  Inv'
<1> USE DEF Publish, mainVars, PutPoints, GetPoints, Points
<1>1. /\ key[t] \in Index /\ Bucket(key[t]) \in Buckets
      /\ next[key[t]] = table[Bucket(key[t])]
  BY BucketType DEF Inv, TypeOK, LinkFresh
<1>2. TypeOK'
  BY <1>1 DEF Inv, TypeOK
<1>3. LockHeld' /\ OwnIndex'
  BY DEF Inv, TypeOK, LockHeld, OwnIndex, Critical, Bucket, LockOf
<1>4. LinkFresh'
  <2>1. \A s \in Threads \ {t} :
          pc[s] = "publish" => Bucket(key[s]) # Bucket(key[t])
    BY Exclusion DEF Critical
  <2> QED BY <2>1, <1>1 DEF Inv, TypeOK, LinkFresh, Bucket
<1>5. InsertedClosed'
  BY <1>1 DEF Inv, TypeOK, InsertedClosed
<1>6. Progress'
  <2> SUFFICES ASSUME NEW j \in Index PROVE
        LET s == Owner(j) IN
        /\ pc'[s] = "none" => j \notin inserted'
        /\ pc'[s] \in PutPoints =>
             (j \in inserted' <=> j < key[s] \/ (j = key[s] /\ pc'[s] = "unlock"))
        /\ pc'[s] \in PutOver => j \in inserted'
    BY DEF Progress, Owner
  <2>1. Owner(key[t]) = t /\ Owner(j) \in Threads
    BY OwnerType, ThreadNumbers DEF Inv, OwnIndex
  <2>2. CASE j = key[t]
    BY <2>1, <2>2 DEF Inv, TypeOK, PutOver
  <2>3. CASE j # key[t]
    BY <2>1, <2>3 DEF Inv, TypeOK, Progress, PutOver
  <2> QED BY <2>2, <2>3
<1>7. NoKeyLost'
  <2> SUFFICES ASSUME NEW j \in inserted'
               PROVE  OnChain(table[Bucket(j)], j)'
    BY DEF NoKeyLost
  <2>1. j \in Index /\ Bucket(j) \in Buckets /\ Bucket(j)' = Bucket(j)
    BY <1>1, BucketType DEF Inv, TypeOK, Bucket
  <2>2. OnChain(table'[Bucket(j)], j)
    <3>1. CASE j = key[t]
      BY <3>1, <2>1, <1>1, ChainFirst DEF Inv, TypeOK
    <3>2. CASE j # key[t] /\ Bucket(j) = Bucket(key[t])
      <4>1. OnChain(next[key[t]], j)
        BY <3>2, <1>1 DEF Inv, NoKeyLost
      <4>2. OnChain(key[t], j)
        BY <4>1, <1>1, ChainPrepend
      <4> QED BY <4>2, <3>2, <1>1 DEF Inv, TypeOK
    <3>3. CASE j # key[t] /\ Bucket(j) # Bucket(key[t])
      BY <3>3, <2>1, <1>1 DEF Inv, TypeOK, NoKeyLost
    <3> QED BY <3>1, <3>2, <3>3
  <2>3. PICK x : x = table'[Bucket(j)]
    OBVIOUS
  <2>4. OnChain(x, j)'
    BY <2>2, <2>3, ChainFrame
  <2> QED BY <2>1, <2>3, <2>4 DEF OnChain
<1>8. Walking'
  BY DEF Inv, TypeOK, Walking, Phases, MainPoints
<1>9. Phases' /\ NoneLost'
  BY DEF Inv, TypeOK, Phases, NoneLost
<1> QED BY <1>2, <1>3, <1>4, <1>5, <1>6, <1>7, <1>8, <1>9 DEF Inv

\* The lock is released and the loop goes on: no own index is skipped.
LEMMA UnlockStep ==
  ASSUME Inv, Locking # "none", NEW t \in Threads, Unlock(t)
  PROVE  Inv'
<1> USE DEF Unlock, NextKey, Release, mainVars, PutPoints, GetPoints, Points
<1>1. /\ key[t] \in Index /\ LockOf(Bucket(key[t])) \in Buckets
      /\ key[t] \in Nat /\ key[t] + num_threads \in Nat
  BY BucketType, ThreadNumbers DEF Inv, TypeOK
<1>a. /\ holder' = [holder EXCEPT ![LockOf(Bucket(key[t]))] = Nobody]
      /\ pc'[t] = (IF key[t] + num_threads < NUM_KEYS
                   THEN "malloc" ELSE "put_exit")
      /\ key'[t] = key[t] + num_threads
      /\ \A s \in Threads \ {t} : pc'[s] = pc[s] /\ key'[s] = key[s]
  BY DEF Inv, TypeOK
<1>2. TypeOK'
  <2>1. holder' \in [Buckets -> Threads \cup {Nobody}]
    BY <1>a DEF Inv, TypeOK
  <2>2. pc' \in [Threads -> Points] /\ key' \in [Threads -> Nat]
    BY <1>1 DEF Inv, TypeOK
  <2>3. \A s \in Threads : pc'[s] \in PutPoints \cup GetPoints =>
                           key'[s] \in Index
    BY <1>1, <1>a, ThreadNumbers DEF Inv, TypeOK, Index
  <2> QED BY <2>1, <2>2, <2>3 DEF Inv, TypeOK
<1>3. LockHeld'
  <2> SUFFICES ASSUME NEW s \in Threads, pc'[s] \in Critical
               PROVE  holder'[LockOf(Bucket(key[s]))'] = s
    BY DEF LockHeld
  <2>1. s # t /\ pc[s] \in Critical /\ key'[s] = key[s]
    BY <1>a DEF Critical
  <2>2. LockOf(Bucket(key[s])) # LockOf(Bucket(key[t]))
    BY <2>1, Exclusion DEF Critical
  <2>3. LockOf(Bucket(key[s]))' = LockOf(Bucket(key[s]))
    BY <2>1 DEF LockOf, Bucket
  <2>4. LockOf(Bucket(key[s])) \in Buckets
    BY <2>1, BucketType DEF Inv, TypeOK, Critical
  <2> QED BY <2>1, <2>2, <2>3, <2>4, <1>a DEF Inv, TypeOK, LockHeld
<1>4. OwnIndex'
  <2>1. Owner(key[t] + num_threads) = Owner(key[t])
    BY <1>1, StrideOwner, ThreadNumbers DEF Owner
  <2> QED BY <2>1 DEF Inv, TypeOK, OwnIndex, Owner
<1>5. LinkFresh' /\ InsertedClosed'
  BY DEF Inv, TypeOK, LinkFresh, InsertedClosed, Bucket
<1>6. Progress'
  <2> SUFFICES ASSUME NEW j \in Index PROVE
        LET s == Owner(j) IN
        /\ pc'[s] = "none" => j \notin inserted
        /\ pc'[s] \in PutPoints =>
             (j \in inserted <=>
                j < key'[s] \/ (j = key'[s] /\ pc'[s] = "unlock"))
        /\ pc'[s] \in PutOver => j \in inserted
    BY DEF Progress, Owner
  <2>1. CASE Owner(j) = t
    <3>1. j \in inserted <=> j <= key[t]
      BY <2>1, <1>1, ThreadNumbers DEF Inv, Progress
    <3>2. j < key[t] + num_threads <=> j <= key[t]
      BY <2>1, <1>1, StrideNoGap, ThreadNumbers DEF Inv, OwnIndex, Owner
    <3> QED BY <3>1, <3>2, <2>1, <1>1, ThreadNumbers
            DEF Inv, TypeOK, PutOver
  <2>2. CASE Owner(j) # t
    BY <2>2, OwnerType, ThreadNumbers DEF Inv, TypeOK, Progress, PutOver
  <2> QED BY <2>1, <2>2
<1>7. NoKeyLost'
  BY ChainFrame DEF Inv, NoKeyLost, Bucket
<1>8. Walking'
  BY DEF Inv, TypeOK, Walking, Phases, MainPoints
<1>9. Phases' /\ NoneLost'
  BY DEF Inv, TypeOK, Phases, NoneLost
<1> QED BY <1>2, <1>3, <1>4, <1>5, <1>6, <1>7, <1>8, <1>9 DEF Inv
-----------------------------------------------------------------------------
\* In the get phase everything a thread looks for has been inserted.
LEMMA GetInserted ==
  ASSUME Inv, NEW t \in Threads, pc[t] \in GetPoints
  PROVE  key[t] \in Index /\ key[t] \in inserted
<1>1. key[t] \in Index /\ Owner(key[t]) = t
  BY DEF Inv, TypeOK, OwnIndex
<1> QED BY <1>1 DEF Inv, Progress, PutOver

\* retrieve() starts at the head of the bucket's chain.
LEMMA LookupStep ==
  ASSUME Inv, NEW t \in Threads, Lookup(t)
  PROVE  Inv'
<1> USE DEF Lookup, heapVars, mainVars, PutPoints, GetPoints, Points
<1>1. key[t] \in Index /\ key[t] \in inserted /\ Bucket(key[t]) \in Buckets
  BY GetInserted, BucketType DEF Inv
<1>2. TypeOK'
  BY <1>1 DEF Inv, TypeOK, Head
<1>3. (LockHeld /\ OwnIndex /\ LinkFresh /\ InsertedClosed)'
  BY DEF Inv, TypeOK, LockHeld, OwnIndex, LinkFresh, InsertedClosed, Critical,
         Bucket, LockOf
<1>4. Progress'
  BY DEF Inv, TypeOK, Progress, PutOver
<1>5. NoKeyLost'
  BY ChainFrame DEF Inv, NoKeyLost, Bucket
<1>6. Walking'
  <2>1. OnChain(table[Bucket(key[t])], key[t])
    BY <1>1 DEF Inv, NoKeyLost
  <2>2. \A s \in Threads : pc'[s] = "walk" => OnChain(b'[s], key[s])
    BY <2>1 DEF Inv, TypeOK, Walking, Head
  <2> QED BY <2>2, ChainFrame DEF Walking
<1>7. Phases' /\ NoneLost'
  BY DEF Inv, TypeOK, Phases, NoneLost
<1> QED BY <1>2, <1>3, <1>4, <1>5, <1>6, <1>7 DEF Inv

\* retrieve() steps over an entry with another key, not over its own.
LEMMA WalkOnStep ==
  ASSUME Inv, NEW t \in Threads, WalkOn(t)
  PROVE  Inv'
<1> USE DEF WalkOn, heapVars, mainVars
<1>1. b[t] \in Index /\ next[b[t]] \in Index \cup {NULL} /\ b[t] # key[t]
  BY DEF Inv, TypeOK
<1>2. TypeOK'
  BY <1>1 DEF Inv, TypeOK
<1>3. (LockHeld /\ OwnIndex /\ LinkFresh /\ InsertedClosed /\ Progress)'
  BY DEF Inv, LockHeld, OwnIndex, LinkFresh, InsertedClosed, Progress,
         Bucket, LockOf, Owner
<1>4. NoKeyLost'
  BY ChainFrame DEF Inv, NoKeyLost, Bucket
<1>5. Walking'
  <2>1. OnChain(next[b[t]], key[t])
    BY <1>1, ChainNext DEF Inv, Walking
  <2>2. \A s \in Threads : pc[s] = "walk" => OnChain(b'[s], key[s])
    BY <2>1 DEF Inv, TypeOK, Walking
  <2> QED BY <2>2, ChainFrame DEF Walking
<1>6. Phases' /\ NoneLost'
  BY DEF Inv, Phases, NoneLost
<1> QED BY <1>2, <1>3, <1>4, <1>5, <1>6 DEF Inv

\* retrieve() returns an entry and get_phase() goes to its next index.
LEMMA FoundStep ==
  ASSUME Inv, NEW t \in Threads, Found(t)
  PROVE  Inv'
<1> USE DEF Found, NextKey, heapVars, mainVars, PutPoints, GetPoints, Points
<1>1. key[t] \in Index /\ key[t] \in Nat /\ key[t] + num_threads \in Nat
  BY GetInserted, ThreadNumbers DEF Inv
<1>2. /\ pc'[t] = (IF key[t] + num_threads < NUM_KEYS
                   THEN "lookup" ELSE "get_exit")
      /\ key'[t] = key[t] + num_threads
      /\ \A s \in Threads \ {t} :
           pc'[s] = pc[s] /\ key'[s] = key[s] /\ b'[s] = b[s]
  BY DEF Inv, TypeOK
<1>3. TypeOK'
  <2>1. /\ pc' \in [Threads -> Points] /\ key' \in [Threads -> Nat]
        /\ b' \in [Threads -> Index \cup {NULL}]
    BY <1>1 DEF Inv, TypeOK
  <2>2. \A s \in Threads : pc'[s] \in PutPoints \cup GetPoints =>
                           key'[s] \in Index
    BY <1>1, <1>2, ThreadNumbers DEF Inv, TypeOK, Index
  <2> QED BY <2>1, <2>2 DEF Inv, TypeOK
<1>4. (LockHeld /\ LinkFresh /\ InsertedClosed)'
  BY <1>2 DEF Inv, TypeOK, LockHeld, LinkFresh, InsertedClosed, Critical,
              Bucket, LockOf
<1>5. OwnIndex'
  <2>1. Owner(key[t] + num_threads) = Owner(key[t])
    BY <1>1, StrideOwner, ThreadNumbers DEF Owner
  <2> QED BY <2>1 DEF Inv, TypeOK, OwnIndex, Owner
<1>6. Progress'
  <2>1. \A j \in Index : Owner(j) \in Threads
    BY OwnerType, ThreadNumbers
  <2> QED BY <2>1, <1>2 DEF Inv, TypeOK, Progress, PutOver, Owner
<1>7. NoKeyLost'
  BY ChainFrame DEF Inv, NoKeyLost, Bucket
<1>8. Walking'
  BY <1>2, ChainFrame DEF Inv, Walking
<1>9. Phases' /\ NoneLost'
  BY DEF Inv, TypeOK, Phases, NoneLost
<1> QED BY <1>3, <1>4, <1>5, <1>6, <1>7, <1>8, <1>9 DEF Inv

\* retrieve() cannot run off the end of the chain: the entry it looks for is
\* still ahead of it.
LEMMA MissedStep ==
  ASSUME Inv, NEW t \in Threads, Missed(t)
  PROVE  FALSE
<1>1. key[t] \in Index /\ OnChain(NULL, key[t])
  BY GetInserted DEF Missed, Inv, Walking, GetPoints
<1> QED BY <1>1, ChainEnd
-----------------------------------------------------------------------------
\* The first put thread at index t has nothing to insert below t.
LEMMA FirstIndex ==
  ASSUME NEW j \in Index
  PROVE  j >= Owner(j)
<1>1. Owner(j) \in Threads /\ Owner(j) \in Nat /\ Owner(j) < num_threads
  BY OwnerType, ThreadNumbers
<1>2. Owner(j) % num_threads = j % num_threads
  BY <1>1, StrideStart, ThreadNumbers DEF Owner
<1> QED BY <1>1, <1>2, StrideNoGap, ThreadNumbers

\* What main() does to its loop variable.
LEMMA RoundType ==
  ASSUME TypeOK, NEW from, NEW to \in MainPoints, Round(from, to)
  PROVE  /\ i' \in Threads /\ main_pc' \in MainPoints
         /\ i \in Threads /\ \A t \in Threads : t < i + 1 => t < i \/ t = i
         /\ main_pc = from
         /\ \/ main_pc' = from /\ i' = i + 1
            \/ main_pc' = to /\ i' = 0 /\ \A t \in Threads : t < i \/ t = i
  BY HashAssumption DEF TypeOK, Round, Threads

\* A put thread starts.
LEMMA CreatePutStep ==
  ASSUME Inv, CreatePut
  PROVE  Inv'
<1> USE DEF CreatePut, StartsAt, heapVars, PutPoints, GetPoints, Points
<1>1. /\ i' \in Threads /\ main_pc' \in MainPoints
      /\ i \in Threads /\ \A t \in Threads : t < i + 1 => t < i \/ t = i
      /\ main_pc = "create_put"
      /\ \/ main_pc' = "create_put" /\ i' = i + 1
         \/ main_pc' = "join_put" /\ i' = 0 /\ \A t \in Threads : t < i \/ t = i
  BY RoundType DEF Inv, MainPoints
<1>2. /\ pc[i] = "none"
      /\ pc'[i] = (IF i < NUM_KEYS THEN "malloc" ELSE "put_exit")
      /\ key'[i] = i
      /\ \A s \in Threads \ {i} : pc'[s] = pc[s] /\ key'[s] = key[s]
  BY <1>1, ThreadNumbers DEF Inv, TypeOK, Phases
<1>3. TypeOK'
  <2>1. pc' \in [Threads -> Points] /\ key' \in [Threads -> Nat]
    BY <1>1, ThreadNumbers DEF Inv, TypeOK
  <2>2. \A s \in Threads : pc'[s] \in PutPoints \cup GetPoints =>
                           key'[s] \in Index
    BY <1>1, <1>2, ThreadNumbers DEF Inv, TypeOK, Index
  <2> QED BY <1>1, <2>1, <2>2 DEF Inv, TypeOK
<1>4. (LockHeld /\ LinkFresh /\ InsertedClosed)'
  BY <1>2 DEF Inv, TypeOK, LockHeld, LinkFresh, InsertedClosed, Critical,
              Bucket, LockOf
<1>5. OwnIndex'
  <2>1. Owner(i) = i
    BY <1>1, StrideStart, ThreadNumbers DEF Owner, Threads
  <2> QED BY <2>1, <1>2 DEF Inv, OwnIndex, Owner
<1>6. Progress'
  <2>1. \A j \in Index : Owner(j) \in Threads /\ j >= Owner(j) /\ j \in Nat
    BY OwnerType, FirstIndex, ThreadNumbers
  <2> SUFFICES ASSUME NEW j \in Index PROVE
        LET s == Owner(j) IN
        /\ pc'[s] = "none" => j \notin inserted
        /\ pc'[s] \in PutPoints =>
             (j \in inserted <=>
                j < key'[s] \/ (j = key'[s] /\ pc'[s] = "unlock"))
        /\ pc'[s] \in PutOver => j \in inserted
    BY DEF Progress, Owner
  <2>2. CASE Owner(j) = i
    BY <2>1, <2>2, <1>2, ThreadNumbers DEF Inv, Progress, PutOver
  <2>3. CASE Owner(j) # i
    BY <2>1, <2>3, <1>2 DEF Inv, Progress, PutOver
  <2> QED BY <2>2, <2>3
<1>7. NoKeyLost' /\ Walking'
  BY <1>2, ChainFrame DEF Inv, NoKeyLost, Bucket, Walking
<1>8. Phases'
  BY <1>1, <1>2, ThreadNumbers DEF Inv, Phases
<1>9. NoneLost'
  BY DEF Inv, NoneLost
<1> QED BY <1>3, <1>4, <1>5, <1>6, <1>7, <1>8, <1>9 DEF Inv

\* A get thread starts; the put thread of the same number is over.
LEMMA CreateGetStep ==
  ASSUME Inv, CreateGet
  PROVE  Inv'
<1> USE DEF CreateGet, StartsAt, heapVars, PutPoints, GetPoints, Points
<1>1. /\ i' \in Threads /\ main_pc' \in MainPoints
      /\ i \in Threads /\ \A t \in Threads : t < i + 1 => t < i \/ t = i
      /\ main_pc = "create_get"
      /\ \/ main_pc' = "create_get" /\ i' = i + 1
         \/ main_pc' = "join_get" /\ i' = 0 /\ \A t \in Threads : t < i \/ t = i
  BY RoundType DEF Inv, MainPoints
<1>2. /\ pc[i] = "put_exit"
      /\ pc'[i] = (IF i < NUM_KEYS THEN "lookup" ELSE "get_exit")
      /\ key'[i] = i
      /\ \A s \in Threads \ {i} : pc'[s] = pc[s] /\ key'[s] = key[s]
  BY <1>1, ThreadNumbers DEF Inv, TypeOK, Phases
<1>3. TypeOK'
  <2>1. pc' \in [Threads -> Points] /\ key' \in [Threads -> Nat]
    BY <1>1, ThreadNumbers DEF Inv, TypeOK
  <2>2. \A s \in Threads : pc'[s] \in PutPoints \cup GetPoints =>
                           key'[s] \in Index
    BY <1>1, <1>2, ThreadNumbers DEF Inv, TypeOK, Index
  <2> QED BY <1>1, <2>1, <2>2 DEF Inv, TypeOK
<1>4. (LockHeld /\ LinkFresh /\ InsertedClosed)'
  BY <1>2 DEF Inv, TypeOK, LockHeld, LinkFresh, InsertedClosed, Critical,
              Bucket, LockOf
<1>5. OwnIndex'
  <2>1. Owner(i) = i
    BY <1>1, StrideStart, ThreadNumbers DEF Owner, Threads
  <2> QED BY <2>1, <1>2 DEF Inv, OwnIndex, Owner
<1>6. Progress'
  <2>1. \A j \in Index : Owner(j) \in Threads
    BY OwnerType, ThreadNumbers
  <2> QED BY <2>1, <1>2 DEF Inv, Progress, PutOver, Owner
<1>7. NoKeyLost' /\ Walking'
  BY <1>2, ChainFrame DEF Inv, NoKeyLost, Bucket, Walking
<1>8. Phases'
  BY <1>1, <1>2, ThreadNumbers DEF Inv, Phases
<1>9. NoneLost'
  BY DEF Inv, NoneLost
<1> QED BY <1>3, <1>4, <1>5, <1>6, <1>7, <1>8, <1>9 DEF Inv

\* main() joins a put thread or a get thread: only main()'s locals change.
LEMMA JoinStep ==
  ASSUME Inv, JoinPut \/ JoinGet
  PROVE  Inv'
<1> USE DEF heapVars, threadVars, JoinPut, JoinGet
<1>1. /\ i' \in Threads /\ main_pc' \in MainPoints
      /\ i \in Threads /\ \A t \in Threads : t < i + 1 => t < i \/ t = i
      /\ \/ /\ main_pc = "join_put" /\ pc[i] = "put_exit"
            /\ \/ main_pc' = "join_put" /\ i' = i + 1
               \/ /\ main_pc' = "create_get" /\ i' = 0
                  /\ \A t \in Threads : t < i \/ t = i
         \/ main_pc = "join_get" /\ main_pc' \in {"join_get", "done"}
  BY RoundType DEF Inv, MainPoints, Joinable
<1>2. UNCHANGED <<keys, exited, table, next, holder, inserted, pc, key, b, lost>>
  OBVIOUS
<1>3. NoneLost'
  BY <1>1 DEF Inv, NoneLost
<1>4. TypeOK'
  BY <1>1, <1>2, <1>3 DEF Inv, TypeOK, NoneLost
<1>5. (LockHeld /\ OwnIndex /\ LinkFresh /\ InsertedClosed /\ Progress)'
  BY <1>2 DEF Inv, LockHeld, OwnIndex, LinkFresh, InsertedClosed, Progress,
              Bucket, LockOf, Owner
<1>6. NoKeyLost' /\ Walking'
  BY <1>2, ChainFrame DEF Inv, NoKeyLost, Bucket, Walking
<1>7. Phases'
  BY <1>1, <1>2, ThreadNumbers DEF Inv, Phases
<1> QED BY <1>3, <1>4, <1>5, <1>6, <1>7 DEF Inv

\* A step that changes neither the heap nor the threads nor main().
LEMMA StutterStep ==
  ASSUME Inv, UNCHANGED <<keys, heapVars, threadVars, mainVars>>,
         exited' \in BOOLEAN
  PROVE  Inv'
<1> USE DEF heapVars, threadVars, mainVars
<1>1. (TypeOK /\ LockHeld /\ OwnIndex /\ LinkFresh /\ InsertedClosed)'
  BY DEF Inv, TypeOK, LockHeld, OwnIndex, LinkFresh, InsertedClosed, Bucket,
         LockOf, Owner
<1>2. (Progress /\ Phases /\ NoneLost)'
  BY DEF Inv, Progress, Phases, NoneLost, Owner
<1>3. NoKeyLost' /\ Walking'
  BY ChainFrame DEF Inv, NoKeyLost, Bucket, Walking
<1> QED BY <1>1, <1>2, <1>3 DEF Inv

-----------------------------------------------------------------------------
(***************************************************************************)
(* The theorems.                                                           *)
(***************************************************************************)

\* Before main() creates a thread the invariant holds.
LEMMA InitInv == Init => Inv
<1> SUFFICES ASSUME Init PROVE Inv
  OBVIOUS
<1> USE DEF Init
<1>1. TypeOK
  <2>1. key \in [Threads -> Nat] /\ 0 \in Threads
    BY ThreadNumbers DEF Threads
  <2>2. \A t \in Threads : pc[t] \notin PutPoints \cup GetPoints
    BY DEF PutPoints, GetPoints
  <2> QED BY <2>1, <2>2 DEF TypeOK, Points, MainPoints
<1>2. OwnIndex
  BY StrideStart, ThreadNumbers DEF OwnIndex, Owner, Threads
<1>3. Progress
  BY OwnerType, ThreadNumbers DEF Progress, PutPoints, PutOver, GetPoints
<1>4. LockHeld /\ LinkFresh /\ InsertedClosed /\ NoKeyLost /\ Walking
  BY DEF LockHeld, LinkFresh, InsertedClosed, NoKeyLost, Walking, Critical
<1>5. Phases /\ NoneLost
  BY ThreadNumbers DEF Phases, NoneLost
<1> QED BY <1>1, <1>2, <1>3, <1>4, <1>5 DEF Inv

\* Every step of the program preserves the invariant.
LEMMA NextInv ==
  ASSUME Locking # "none", Inv, [Next]_vars
  PROVE  Inv'
<1>1. ASSUME NEW t \in Threads, ThreadStep(t) PROVE Inv'
  <2>1. CASE Panic(t)
    BY <2>1, StutterStep DEF Panic
  <2> QED BY <1>1, <2>1, MallocStep, LockStep, LinkStep, PublishStep,
             UnlockStep, LookupStep, WalkOnStep, FoundStep, MissedStep
          DEF ThreadStep
<1>2. CASE MainStep
  BY <1>2, CreatePutStep, CreateGetStep, JoinStep DEF MainStep
<1>3. CASE UNCHANGED vars
  BY <1>3, StutterStep DEF vars, Inv, TypeOK
<1> QED BY <1>1, <1>2, <1>3 DEF Next, Ended

\* The conjunction of the facts above is invariant in both locked programs.
THEOREM Invariance ==
  ASSUME Locking # "none"
  PROVE  Spec => []Inv
<1>1. Inv /\ [Next]_vars => Inv'
  BY NextInv
<1> QED BY <1>1, InitInv, PTL DEF Spec

\* A head read under the lock is still the head when it is replaced.
THEOREM HeadsAreFresh ==
  ASSUME Locking # "none"
  PROVE  Spec => [](TypeOK /\ LinkFresh)
<1>1. Inv => TypeOK /\ LinkFresh
  BY DEF Inv
<1> QED BY <1>1, Invariance, PTL

\* With a mutex per bucket or with one spinlock, insert() loses no key.
THEOREM KeysAreKept ==
  ASSUME Locking # "none"
  PROVE  Spec => []NoKeyLost
<1>1. Inv => NoKeyLost
  BY DEF Inv
<1> QED BY <1>1, Invariance, PTL

\* main() reports that every key was retrieved.
THEOREM KeysAreRetrieved ==
  ASSUME Locking # "none"
  PROVE  Spec => []AllRetrieved
<1>1. Inv => AllRetrieved
  BY DEF Inv, NoneLost, AllRetrieved
<1> QED BY <1>1, Invariance, PTL

-----------------------------------------------------------------------------
(***************************************************************************)
(* All three programs, the one without locks too: the types, and the count *)
(* of the keys that were lost.                                             *)
(***************************************************************************)

\* What needs no lock: the stride and the barrier.
BaseInv == TypeOK /\ OwnIndex /\ Phases

\* The loop variable of a phase moves on by the number of threads.
LEMMA NextKeyBase ==
  ASSUME BaseInv, NEW t \in Threads, NEW again, NEW end,
         \/ pc[t] = "unlock" /\ again = "malloc" /\ end = "put_exit"
         \/ pc[t] = "walk" /\ again = "lookup" /\ end = "get_exit",
         NextKey(t, again, end)
  PROVE  /\ pc' \in [Threads -> Points] /\ key' \in [Threads -> Nat]
         /\ \A s \in Threads : pc'[s] \in PutPoints \cup GetPoints =>
                               key'[s] \in Index
         /\ OwnIndex'
         /\ pc'[t] = (IF key[t] + num_threads < NUM_KEYS THEN again ELSE end)
         /\ key'[t] = key[t] + num_threads
         /\ \A s \in Threads \ {t} : pc'[s] = pc[s] /\ key'[s] = key[s]
<1>1. /\ key[t] \in Nat /\ key[t] + num_threads \in Nat
      /\ pc \in [Threads -> Points] /\ key \in [Threads -> Nat]
  BY ThreadNumbers DEF BaseInv, TypeOK
<1>2. /\ pc'[t] = (IF key[t] + num_threads < NUM_KEYS THEN again ELSE end)
      /\ key'[t] = key[t] + num_threads
      /\ \A s \in Threads \ {t} : pc'[s] = pc[s] /\ key'[s] = key[s]
  BY <1>1 DEF NextKey
<1>3. pc' \in [Threads -> Points] /\ key' \in [Threads -> Nat]
  BY <1>1 DEF NextKey, Points, PutPoints, GetPoints
<1>4. ASSUME NEW s \in Threads, pc'[s] \in PutPoints \cup GetPoints
      PROVE  key'[s] \in Index
  <2>1. CASE s = t
    BY <1>1, <1>2, <1>4, <2>1, ThreadNumbers DEF PutPoints, GetPoints, Index
  <2>2. CASE s # t
    BY <1>2, <1>4, <2>2 DEF BaseInv, TypeOK
  <2> QED BY <2>1, <2>2
<1>5. Owner(key[t] + num_threads) = Owner(key[t])
  BY <1>1, StrideOwner, ThreadNumbers DEF Owner
<1>6. OwnIndex'
  BY <1>2, <1>5 DEF BaseInv, OwnIndex, Owner
<1> QED BY <1>2, <1>3, <1>4, <1>6

\* main() starts thread i.
LEMMA StartBase ==
  ASSUME BaseInv, i \in Threads, NEW first, NEW end,
         \/ first = "malloc" /\ end = "put_exit"
         \/ first = "lookup" /\ end = "get_exit",
         StartsAt(i, first, end)
  PROVE  /\ pc' \in [Threads -> Points] /\ key' \in [Threads -> Nat]
         /\ \A s \in Threads : pc'[s] \in PutPoints \cup GetPoints =>
                               key'[s] \in Index
         /\ OwnIndex'
         /\ pc'[i] = (IF i < NUM_KEYS THEN first ELSE end) /\ key'[i] = i
         /\ \A s \in Threads \ {i} : pc'[s] = pc[s] /\ key'[s] = key[s]
<1>1. pc \in [Threads -> Points] /\ key \in [Threads -> Nat] /\ i \in Nat
  BY ThreadNumbers DEF BaseInv, TypeOK
<1>2. /\ pc'[i] = (IF i < NUM_KEYS THEN first ELSE end) /\ key'[i] = i
      /\ \A s \in Threads \ {i} : pc'[s] = pc[s] /\ key'[s] = key[s]
  BY <1>1 DEF StartsAt
<1>3. pc' \in [Threads -> Points] /\ key' \in [Threads -> Nat]
  BY <1>1 DEF StartsAt, Points, PutPoints, GetPoints
<1>4. ASSUME NEW s \in Threads, pc'[s] \in PutPoints \cup GetPoints
      PROVE  key'[s] \in Index
  <2>1. CASE s = i
    BY <1>1, <1>2, <1>4, <2>1, ThreadNumbers DEF PutPoints, GetPoints, Index
  <2>2. CASE s # i
    BY <1>2, <1>4, <2>2 DEF BaseInv, TypeOK
  <2> QED BY <2>1, <2>2
<1>5. Owner(i) = i
  BY StrideStart, ThreadNumbers DEF Owner, Threads
<1>6. OwnIndex'
  BY <1>2, <1>5 DEF BaseInv, OwnIndex, Owner
<1> QED BY <1>2, <1>3, <1>4, <1>6

\* A thread that stays in the phase it is in keeps the barrier.
LEMMA PhaseKept ==
  ASSUME BaseInv, NEW t \in Threads, UNCHANGED <<main_pc, i>>,
         \A s \in Threads \ {t} : pc'[s] = pc[s],
         \/ pc[t] \in PutPoints /\ pc'[t] \in PutPoints \cup {"put_exit"}
         \/ pc[t] \in GetPoints /\ pc'[t] \in GetPoints \cup {"get_exit"}
  PROVE  Phases'
<1>1. main_pc \in MainPoints
  BY DEF BaseInv, TypeOK
<1> QED BY <1>1 DEF BaseInv, Phases, PutPoints, GetPoints, MainPoints

\* insert(), with or without a lock.
LEMMA PutBase ==
  ASSUME BaseInv, NEW t \in Threads,
         Malloc(t) \/ Lock(t) \/ Link(t) \/ Publish(t) \/ Unlock(t)
  PROVE  BaseInv'
<1> USE DEF heapVars, mainVars
<1>1. pc[t] \in PutPoints /\ key[t] \in Index /\ TypeOK
  BY DEF BaseInv, TypeOK, Malloc, Lock, Link, Publish, Unlock, PutPoints
<1>2. Bucket(key[t]) \in Buckets /\ LockOf(Bucket(key[t])) \in Buckets
  BY <1>1, BucketType
<1>3. CASE Malloc(t)
  <2>1. pc'[t] \in PutPoints /\ pc' \in [Threads -> Points]
        /\ \A s \in Threads \ {t} : pc'[s] = pc[s]
    BY <1>1, <1>3 DEF Malloc, TypeOK, PutPoints, Points
  <2>2. TypeOK'
    BY <1>1, <1>3, <2>1 DEF Malloc, TypeOK
  <2>3. OwnIndex'
    BY <1>3 DEF Malloc, BaseInv, OwnIndex, Owner
  <2> QED BY <1>1, <1>3, <2>1, <2>2, <2>3, PhaseKept DEF Malloc, BaseInv
<1>4. CASE Lock(t)
  <2>1. pc'[t] \in PutPoints /\ pc' \in [Threads -> Points]
        /\ \A s \in Threads \ {t} : pc'[s] = pc[s]
    BY <1>1, <1>4 DEF Lock, TypeOK, PutPoints, Points
  <2>2. TypeOK'
    BY <1>1, <1>2, <1>4, <2>1 DEF Lock, TypeOK
  <2>3. OwnIndex'
    BY <1>4 DEF Lock, BaseInv, OwnIndex, Owner
  <2> QED BY <1>1, <1>4, <2>1, <2>2, <2>3, PhaseKept DEF Lock, BaseInv
<1>5. CASE Link(t)
  <2>1. pc'[t] \in PutPoints /\ pc' \in [Threads -> Points]
        /\ \A s \in Threads \ {t} : pc'[s] = pc[s]
    BY <1>1, <1>5 DEF Link, TypeOK, PutPoints, Points
  <2>2. TypeOK'
    BY <1>1, <1>2, <1>5, <2>1 DEF Link, TypeOK
  <2>3. OwnIndex'
    BY <1>5 DEF Link, BaseInv, OwnIndex, Owner
  <2> QED BY <1>1, <1>5, <2>1, <2>2, <2>3, PhaseKept DEF Link, BaseInv
<1>6. CASE Publish(t)
  <2>1. pc'[t] \in PutPoints /\ pc' \in [Threads -> Points]
        /\ \A s \in Threads \ {t} : pc'[s] = pc[s]
    BY <1>1, <1>6 DEF Publish, TypeOK, PutPoints, Points
  <2>2. TypeOK'
    BY <1>1, <1>2, <1>6, <2>1 DEF Publish, TypeOK
  <2>3. OwnIndex'
    BY <1>6 DEF Publish, BaseInv, OwnIndex, Owner
  <2> QED BY <1>1, <1>6, <2>1, <2>2, <2>3, PhaseKept DEF Publish, BaseInv
<1>7. CASE Unlock(t)
  <2>1. NextKey(t, "malloc", "put_exit") /\ pc[t] = "unlock"
    BY <1>7 DEF Unlock
  <2>2. /\ pc' \in [Threads -> Points] /\ key' \in [Threads -> Nat]
        /\ \A s \in Threads : pc'[s] \in PutPoints \cup GetPoints =>
                              key'[s] \in Index
        /\ OwnIndex' /\ \A s \in Threads \ {t} : pc'[s] = pc[s]
        /\ pc'[t] \in PutPoints \cup {"put_exit"}
    BY <2>1, NextKeyBase DEF PutPoints
  <2>3. holder' \in [Buckets -> Threads \cup {Nobody}]
    BY <1>1, <1>7 DEF Unlock, Release, TypeOK
  <2>4. TypeOK'
    BY <1>1, <1>7, <2>2, <2>3 DEF Unlock, TypeOK
  <2> QED BY <1>1, <1>7, <2>2, <2>4, PhaseKept DEF Unlock, BaseInv
<1> QED BY <1>3, <1>4, <1>5, <1>6, <1>7

\* retrieve().
LEMMA GetBase ==
  ASSUME BaseInv, NEW t \in Threads,
         Lookup(t) \/ WalkOn(t) \/ Found(t) \/ Missed(t)
  PROVE  BaseInv'
<1> USE DEF heapVars, mainVars
<1>1. pc[t] \in GetPoints /\ key[t] \in Index /\ TypeOK
  BY DEF BaseInv, TypeOK, Lookup, WalkOn, Found, Missed, GetPoints
<1>2. Bucket(key[t]) \in Buckets
  BY <1>1, BucketType
<1>3. CASE Lookup(t)
  <2>1. /\ pc'[t] = "walk" /\ pc' \in [Threads -> Points]
        /\ \A s \in Threads \ {t} : pc'[s] = pc[s]
    BY <1>1, <1>3 DEF Lookup, TypeOK, GetPoints, Points
  <2>2. b' \in [Threads -> Index \cup {NULL}]
    BY <1>1, <1>2, <1>3 DEF Lookup, Head, TypeOK
  <2>3. TypeOK'
    BY <1>1, <1>3, <2>1, <2>2 DEF Lookup, TypeOK
  <2>4. OwnIndex'
    BY <1>3 DEF Lookup, BaseInv, OwnIndex, Owner
  <2> QED BY <1>1, <1>3, <2>1, <2>3, <2>4, PhaseKept
          DEF Lookup, BaseInv, GetPoints
<1>4. CASE WalkOn(t)
  <2>1. b' \in [Threads -> Index \cup {NULL}]
    BY <1>1, <1>4 DEF WalkOn, TypeOK
  <2>2. TypeOK'
    BY <1>1, <1>4, <2>1 DEF WalkOn, TypeOK
  <2> QED BY <1>4, <2>2 DEF WalkOn, BaseInv, OwnIndex, Owner, Phases
<1>5. CASE Found(t) \/ Missed(t)
  <2>1. NextKey(t, "lookup", "get_exit") /\ pc[t] = "walk"
    BY <1>5 DEF Found, Missed
  <2>2. /\ pc' \in [Threads -> Points] /\ key' \in [Threads -> Nat]
        /\ \A s \in Threads : pc'[s] \in PutPoints \cup GetPoints =>
                              key'[s] \in Index
        /\ OwnIndex' /\ \A s \in Threads \ {t} : pc'[s] = pc[s]
        /\ pc'[t] \in GetPoints \cup {"get_exit"}
    BY <2>1, NextKeyBase DEF GetPoints
  <2>3. b' \in [Threads -> Index \cup {NULL}] /\ lost' \in [Threads -> Nat]
    BY <1>1, <1>5 DEF Found, Missed, TypeOK
  <2>4. TypeOK'
    BY <1>1, <1>5, <2>2, <2>3 DEF Found, Missed, TypeOK
  <2> QED BY <1>1, <1>5, <2>2, <2>4, PhaseKept DEF Found, Missed, BaseInv
<1> QED BY <1>3, <1>4, <1>5

\* main().
LEMMA MainBase ==
  ASSUME BaseInv, MainStep
  PROVE  BaseInv'
<1> USE DEF heapVars, threadVars
<1>0. TypeOK
  BY DEF BaseInv
<1>1. CASE CreatePut
  <2>1. /\ i' \in Threads /\ main_pc' \in MainPoints
        /\ i \in Threads /\ \A t \in Threads : t < i + 1 => t < i \/ t = i
        /\ main_pc = "create_put"
        /\ \/ main_pc' = "create_put" /\ i' = i + 1
           \/ main_pc' = "join_put" /\ i' = 0 /\ \A t \in Threads : t < i \/ t = i
    BY <1>0, <1>1, RoundType DEF CreatePut, MainPoints
  <2>2. /\ pc' \in [Threads -> Points] /\ key' \in [Threads -> Nat]
        /\ \A s \in Threads : pc'[s] \in PutPoints \cup GetPoints =>
                              key'[s] \in Index
        /\ OwnIndex' /\ \A s \in Threads \ {i} : pc'[s] = pc[s]
        /\ pc'[i] \in PutPoints \cup {"put_exit"}
    BY <1>1, <2>1, StartBase DEF CreatePut, PutPoints
  <2>3. TypeOK'
    BY <1>0, <1>1, <2>1, <2>2 DEF CreatePut, TypeOK
  <2>4. Phases'
    BY <2>1, <2>2, ThreadNumbers DEF BaseInv, Phases
  <2> QED BY <2>2, <2>3, <2>4 DEF BaseInv
<1>2. CASE CreateGet
  <2>1. /\ i' \in Threads /\ main_pc' \in MainPoints
        /\ i \in Threads /\ \A t \in Threads : t < i + 1 => t < i \/ t = i
        /\ main_pc = "create_get"
        /\ \/ main_pc' = "create_get" /\ i' = i + 1
           \/ main_pc' = "join_get" /\ i' = 0 /\ \A t \in Threads : t < i \/ t = i
    BY <1>0, <1>2, RoundType DEF CreateGet, MainPoints
  <2>2. /\ pc' \in [Threads -> Points] /\ key' \in [Threads -> Nat]
        /\ \A s \in Threads : pc'[s] \in PutPoints \cup GetPoints =>
                              key'[s] \in Index
        /\ OwnIndex' /\ \A s \in Threads \ {i} : pc'[s] = pc[s]
        /\ pc'[i] \in GetPoints \cup {"get_exit"}
    BY <1>2, <2>1, StartBase DEF CreateGet, GetPoints
  <2>3. TypeOK'
    BY <1>0, <1>2, <2>1, <2>2 DEF CreateGet, TypeOK
  <2>4. Phases'
    BY <2>1, <2>2, ThreadNumbers DEF BaseInv, Phases
  <2> QED BY <2>2, <2>3, <2>4 DEF BaseInv
<1>3. CASE JoinPut \/ JoinGet
  <2>1. /\ i' \in Threads /\ main_pc' \in MainPoints
        /\ i \in Threads /\ \A t \in Threads : t < i + 1 => t < i \/ t = i
        /\ \/ /\ main_pc = "join_put" /\ pc[i] = "put_exit"
              /\ \/ main_pc' = "join_put" /\ i' = i + 1
                 \/ /\ main_pc' = "create_get" /\ i' = 0
                    /\ \A t \in Threads : t < i \/ t = i
           \/ main_pc = "join_get" /\ main_pc' \in {"join_get", "done"}
    BY <1>0, <1>3, RoundType DEF JoinPut, JoinGet, MainPoints, Joinable
  <2>2. UNCHANGED <<keys, exited, table, next, holder, inserted, pc, key, b, lost>>
    BY <1>3 DEF JoinPut, JoinGet
  <2>3. total_lost' \in Nat
    BY <1>0, <1>3, <2>1 DEF JoinPut, JoinGet, TypeOK
  <2>4. TypeOK'
    BY <1>0, <2>1, <2>2, <2>3 DEF TypeOK
  <2>5. OwnIndex'
    BY <2>2 DEF BaseInv, OwnIndex, Owner
  <2>6. Phases'
    BY <2>1, <2>2, ThreadNumbers DEF BaseInv, Phases
  <2> QED BY <2>4, <2>5, <2>6 DEF BaseInv
<1> QED BY <1>1, <1>2, <1>3 DEF MainStep

\* Every step of every program keeps the types and the barrier.
LEMMA NextBase ==
  ASSUME BaseInv, [Next]_vars
  PROVE  BaseInv'
<1>1. ASSUME UNCHANGED <<keys, heapVars, threadVars, mainVars>>,
             exited' \in BOOLEAN
      PROVE  BaseInv'
  BY <1>1 DEF heapVars, threadVars, mainVars, BaseInv, TypeOK, OwnIndex, Owner,
              Phases
<1>2. ASSUME NEW t \in Threads, ThreadStep(t) PROVE BaseInv'
  <2>1. CASE Panic(t)
    BY <1>1, <2>1 DEF Panic
  <2> QED BY <1>2, <2>1, PutBase, GetBase DEF ThreadStep
<1>3. CASE UNCHANGED vars
  BY <1>1, <1>3 DEF vars, BaseInv, TypeOK
<1> QED BY <1>2, <1>3, MainBase DEF Next, Ended

\* The types and the barrier hold in all three programs.
LEMMA BaseInvariance == Spec => []BaseInv
<1>1. Init => BaseInv
  BY InitInv DEF Inv, BaseInv
<1>2. BaseInv /\ [Next]_vars => BaseInv'
  BY NextBase
<1> QED BY <1>1, <1>2, PTL DEF Spec

\* No thread of any of the three programs uses an index or a pointer that is
\* out of range, also when insert() takes no lock.
THEOREM TypeCorrect == Spec => []TypeOK
<1>1. BaseInv => TypeOK
  BY DEF BaseInv
<1> QED BY <1>1, BaseInvariance, PTL

\* The joins are a barrier: retrieve() needs no lock in any of the
\* three programs.
THEOREM GetPhaseReadsOnly == Spec => GetReadOnly
<1>1. ASSUME BaseInv, [Next]_vars, NEW t \in Threads, pc[t] \in GetPoints
      PROVE  UNCHANGED <<table, next>>
  <2>1. \A s \in Threads : pc[s] \notin {"link", "publish"}
    BY <1>1 DEF BaseInv, TypeOK, MainPoints, Phases, PutPoints, GetPoints
  <2>2. CASE \E s \in Threads : ThreadStep(s)
    BY <2>1, <2>2 DEF ThreadStep, Malloc, Panic, Lock, Link, Publish, Unlock,
                      Lookup, WalkOn, Found, Missed, heapVars
  <2>3. CASE MainStep
    BY <2>3 DEF MainStep, CreatePut, JoinPut, CreateGet, JoinGet, heapVars
  <2>4. CASE UNCHANGED vars
    BY <2>4 DEF vars, heapVars
  <2> QED BY <1>1, <2>2, <2>3, <2>4 DEF Next, Ended
<1>2. BaseInv /\ [Next]_vars =>
        [(\E t \in Threads : pc[t] \in GetPoints) =>
           UNCHANGED <<table, next>>]_vars
  BY <1>1
<1> QED BY <1>2, BaseInvariance, PTL DEF Spec, GetReadOnly
-----------------------------------------------------------------------------
(***************************************************************************)
(* The count.                                                              *)
(***************************************************************************)

\* The indexes whose key is on no chain where retrieve() looks for it.
LostKeys ==
  {j \in Index : \A k \in Index : keys[k] = keys[j] =>
                                   ~OnChain(table[Bucket(j)], k)}

\* Those among L that thread t owns below c, and those of the first n threads.
Below(L, t, c) == {j \in L : Owner(j) = t /\ j < c}
OfFirst(L, n)  == {j \in L : Owner(j) < n}

\* A thread of the get phase has counted what is lost of its share so far.
Counted ==
  \A t \in Threads :
    /\ pc[t] \in GetPoints => lost[t] = Cardinality(Below(LostKeys, t, key[t]))
    /\ pc[t] = "get_exit" => lost[t] = Cardinality(Below(LostKeys, t, NUM_KEYS))
    /\ pc[t] \notin GetPoints \cup {"get_exit"} => lost[t] = 0

\* retrieve() will find its key from where it is iff it is not lost.
Searching ==
  \A t \in Threads : pc[t] = "walk" =>
    (key[t] \in LostKeys <=>
       \A k \in Index : keys[k] = keys[key[t]] => ~OnChain(b[t], k))

\* main() has added up the counts of the threads it has joined.
AddedUp ==
  /\ main_pc = "join_get" => total_lost = Cardinality(OfFirst(LostKeys, i))
  /\ main_pc = "done" => total_lost = Cardinality(LostKeys)
  /\ main_pc \notin {"join_get", "done"} => total_lost = 0

ReportInv == BaseInv /\ Counted /\ Searching /\ AddedUp

\* Sets of indexes are finite.
LEMMA IndexFinite ==
  ASSUME NEW L \in SUBSET Index
  PROVE  IsFiniteSet(L) /\ Cardinality(L) \in Nat
<1>1. IsFiniteSet(Index)
  BY FS_Interval, HashAssumption DEF Index
<1>2. IsFiniteSet(L)
  BY <1>1, FS_Subset
<1> QED BY <1>2, FS_CardinalityType

\* What is lost depends on the heap only, and on none of the locals.
LEMMA LostFrame ==
  ASSUME UNCHANGED <<keys, table, next>>
  PROVE  LostKeys' = LostKeys
<1>1. \A x, j : OnChain(x, j)' <=> OnChain(x, j)
  BY ChainFrame
<1>2. \A j \in Index : table'[Bucket(j)'] = table[Bucket(j)]
  BY DEF Bucket
<1> QED BY <1>1, <1>2 DEF LostKeys

\* The search of a thread that does not move depends on the heap only.
LEMMA SearchFrame ==
  ASSUME ReportInv, NEW s \in Threads, UNCHANGED <<keys, table, next>>,
         pc[s] = "walk", b'[s] = b[s], key'[s] = key[s]
  PROVE  key'[s] \in LostKeys' <=>
           \A k \in Index : keys'[k] = keys'[key'[s]] => ~OnChain(b[s], k)'
<1>1. LostKeys' = LostKeys
  BY LostFrame
<1>2. \A k : OnChain(b[s], k)' <=> OnChain(b'[s], k)
  BY ChainFrame
<1> QED BY <1>1, <1>2 DEF ReportInv, Searching

\* One more index of thread t has been looked at.
LEMMA BelowNext ==
  ASSUME NEW L \in SUBSET Index, NEW t \in Threads, NEW c \in Index, Owner(c) = t
  PROVE  Cardinality(Below(L, t, c + num_threads)) =
           Cardinality(Below(L, t, c)) + (IF c \in L THEN 1 ELSE 0)
<1> DEFINE B == Below(L, t, c)
<1>1. c \in Nat /\ num_threads \in Nat \ {0} /\ c < c + num_threads
  BY ThreadNumbers
<1>2. ASSUME NEW j \in L, Owner(j) = t
      PROVE  j < c + num_threads <=> j < c \/ j = c
  <2>1. j \in Nat
    BY ThreadNumbers
  <2>2. j % num_threads = c % num_threads
    BY <1>2 DEF Owner
  <2>3. j < c + num_threads => j <= c
    BY <1>1, <2>1, <2>2, StrideNoGap
  <2> QED BY <1>1, <2>1, <2>3
<1>3. Below(L, t, c + num_threads) = IF c \in L THEN B \cup {c} ELSE B
  BY <1>2 DEF Below
<1>4. c \notin B /\ B \in SUBSET Index
  <2>1. B \subseteq L /\ \A j \in B : j < c
    BY DEF Below
  <2>2. ~(c < c)
    BY <1>1
  <2> QED BY <2>1, <2>2
<1>5. IsFiniteSet(B) /\ Cardinality(B) \in Nat
  BY <1>4, IndexFinite
<1> HIDE DEF B
<1>6. Cardinality(B \cup {c}) = Cardinality(B) + 1
  BY <1>4, <1>5, FS_AddElement
<1> QED BY <1>3, <1>5, <1>6 DEF B

\* All of them, if the next index is behind the last.
LEMMA BelowEnd ==
  ASSUME NEW L \in SUBSET Index, NEW t, NEW c \in Nat, c >= NUM_KEYS
  PROVE  Below(L, t, c) = Below(L, t, NUM_KEYS)
  BY ThreadNumbers DEF Below

\* None yet, at the first index of thread t.
LEMMA BelowStart ==
  ASSUME NEW L \in SUBSET Index, NEW t \in Threads
  PROVE  Cardinality(Below(L, t, t)) = 0
<1>1. Below(L, t, t) = {}
  BY FirstIndex, ThreadNumbers DEF Below
<1> QED BY <1>1, FS_EmptySet

\* The share of one more thread.
LEMMA OfFirstNext ==
  ASSUME NEW L \in SUBSET Index, NEW t \in Threads
  PROVE  Cardinality(OfFirst(L, t + 1)) =
           Cardinality(OfFirst(L, t)) + Cardinality(Below(L, t, NUM_KEYS))
<1> DEFINE S == OfFirst(L, t)
           T == Below(L, t, NUM_KEYS)
<1>1. \A j \in L : /\ Owner(j) \in Nat /\ j < NUM_KEYS
                   /\ Owner(j) < t + 1 <=> Owner(j) < t \/ Owner(j) = t
  BY OwnerType, ThreadNumbers
<1>2. OfFirst(L, t + 1) = S \cup T /\ S \cap T = {}
  BY <1>1, ThreadNumbers DEF OfFirst, Below
<1>3. S \in SUBSET Index /\ T \in SUBSET Index
  BY DEF OfFirst, Below
<1>4. /\ IsFiniteSet(S) /\ Cardinality(S) \in Nat
      /\ IsFiniteSet(T) /\ Cardinality(T) \in Nat
  BY <1>3, IndexFinite
<1> HIDE DEF S, T
<1>5. Cardinality(S \cup T) = Cardinality(S) + Cardinality(T) - Cardinality({})
  BY <1>2, <1>4, FS_Union
<1>6. Cardinality({}) = 0
  BY FS_EmptySet
<1>7. Cardinality(OfFirst(L, t + 1)) = Cardinality(S) + Cardinality(T)
  <2>1. Cardinality(OfFirst(L, t + 1)) = Cardinality(S \cup T)
    BY <1>2, Zenon
  <2>2. Cardinality(S \cup T) = Cardinality(S) + Cardinality(T)
    BY <1>4, <1>5, <1>6
  <2> QED BY <2>1, <2>2, Zenon
<1> QED BY <1>7 DEF S, T

\* insert() runs while nobody counts yet.
LEMMA PutReport ==
  ASSUME ReportInv, BaseInv', NEW t \in Threads,
         Malloc(t) \/ Lock(t) \/ Link(t) \/ Publish(t) \/ Unlock(t)
  PROVE  ReportInv'
<1> USE DEF heapVars, mainVars
<1>1. pc[t] \in PutPoints /\ UNCHANGED <<main_pc, i, total_lost, lost>>
  BY DEF Malloc, Lock, Link, Publish, Unlock, PutPoints
<1>2. main_pc \in {"create_put", "join_put"}
  BY <1>1 DEF ReportInv, BaseInv, TypeOK, Phases, PutPoints, GetPoints,
              MainPoints
<1>3. \A s \in Threads : /\ pc[s] \notin GetPoints \cup {"get_exit"}
                         /\ pc'[s] \notin GetPoints \cup {"get_exit"}
  BY <1>1, <1>2 DEF ReportInv, BaseInv, Phases, PutPoints, GetPoints
<1>4. Counted'
  BY <1>1, <1>3 DEF ReportInv, Counted
<1>5. Searching'
  BY <1>3 DEF Searching, GetPoints
<1>6. AddedUp'
  BY <1>1, <1>2 DEF ReportInv, AddedUp
<1> QED BY <1>4, <1>5, <1>6 DEF ReportInv

\* main()'s sum does not change while threads count.
LEMMA AddedFrame ==
  ASSUME ReportInv, UNCHANGED <<keys, table, next, main_pc, i, total_lost>>
  PROVE  AddedUp'
  BY LostFrame DEF ReportInv, AddedUp

\* retrieve() reads the head, or goes on to the next entry.
LEMMA SearchStep ==
  ASSUME ReportInv, BaseInv', NEW t \in Threads, Lookup(t) \/ WalkOn(t)
  PROVE  ReportInv'
<1> USE DEF heapVars, mainVars
<1>1. /\ UNCHANGED <<keys, table, next, main_pc, i, total_lost, key, lost>>
      /\ pc[t] \in GetPoints /\ pc'[t] = "walk"
      /\ \A s \in Threads \ {t} : pc'[s] = pc[s] /\ b'[s] = b[s]
  BY DEF Lookup, WalkOn, GetPoints, ReportInv, BaseInv, TypeOK
<1>2. key[t] \in Index /\ TypeOK
  BY <1>1 DEF ReportInv, BaseInv, TypeOK
<1>3. LostKeys' = LostKeys
  BY <1>1, LostFrame
<1>4. Counted'
  BY <1>1, <1>3 DEF ReportInv, Counted, GetPoints
<1>5. key[t] \in LostKeys <=>
        \A k \in Index : keys[k] = keys[key[t]] => ~OnChain(b'[t], k)
  <2>1. CASE Lookup(t)
    <3>1. b'[t] = table[Bucket(key[t])]
      BY <1>2, <2>1 DEF Lookup, Head, TypeOK
    <3> QED BY <1>2, <3>1 DEF LostKeys
  <2>2. CASE WalkOn(t)
    <3>1. /\ pc[t] = "walk" /\ b[t] \in Index /\ keys[b[t]] # keys[key[t]]
          /\ b'[t] = next[b[t]] /\ next[b[t]] \in Index \cup {NULL}
      BY <1>2, <2>2 DEF WalkOn, TypeOK
    <3>2. ASSUME NEW k \in Index, keys[k] = keys[key[t]]
          PROVE  OnChain(b[t], k) <=> OnChain(b'[t], k)
      BY <3>1, <3>2, ChainNext, ChainPrepend
    <3>3. key[t] \in LostKeys <=>
            \A k \in Index : keys[k] = keys[key[t]] => ~OnChain(b[t], k)
      BY <3>1 DEF ReportInv, Searching
    <3> QED BY <3>2, <3>3
  <2> QED BY <2>1, <2>2
<1>6. Searching'
  <2> SUFFICES ASSUME NEW s \in Threads, pc'[s] = "walk"
               PROVE  key'[s] \in LostKeys' <=>
                 \A k \in Index : keys'[k] = keys'[key'[s]] => ~OnChain(b[s], k)'
    BY DEF Searching
  <2>1. CASE s = t
    <3>1. \A k : OnChain(b[t], k)' <=> OnChain(b'[t], k)
      BY <1>1, ChainFrame
    <3> QED BY <1>1, <1>3, <1>5, <2>1, <3>1
  <2>2. CASE s # t
    <3>1. pc[s] = "walk" /\ b'[s] = b[s] /\ key'[s] = key[s]
      BY <1>1, <2>2
    <3> QED BY <1>1, <3>1, SearchFrame
  <2> QED BY <2>1, <2>2
<1> QED BY <1>1, <1>4, <1>6, AddedFrame DEF ReportInv

\* retrieve() returns: its index is counted exactly when its key is lost.
LEMMA ResultStep ==
  ASSUME ReportInv, BaseInv', NEW t \in Threads, Found(t) \/ Missed(t)
  PROVE  ReportInv'
<1> USE DEF heapVars, mainVars
<1> DEFINE L == LostKeys
<1>1. /\ UNCHANGED <<keys, table, next, main_pc, i, total_lost>>
      /\ pc[t] = "walk" /\ NextKey(t, "lookup", "get_exit")
      /\ \A s \in Threads \ {t} : b'[s] = b[s] /\ lost'[s] = lost[s]
  BY DEF Found, Missed, ReportInv, BaseInv, TypeOK
<1>2. /\ pc'[t] = (IF key[t] + num_threads < NUM_KEYS
                   THEN "lookup" ELSE "get_exit")
      /\ key'[t] = key[t] + num_threads
      /\ \A s \in Threads \ {t} : pc'[s] = pc[s] /\ key'[s] = key[s]
  BY <1>1, NextKeyBase DEF ReportInv
<1>3. /\ key[t] \in Index /\ TypeOK /\ Owner(key[t]) = t
      /\ key[t] + num_threads \in Nat
  BY <1>1, ThreadNumbers DEF ReportInv, BaseInv, TypeOK, GetPoints, OwnIndex
<1>4. LostKeys' = L /\ L \in SUBSET Index
  BY <1>1, LostFrame DEF LostKeys
<1>5. key[t] \in L <=>
        \A k \in Index : keys[k] = keys[key[t]] => ~OnChain(b[t], k)
  BY <1>1 DEF ReportInv, Searching
<1>6. lost'[t] = lost[t] + (IF key[t] \in L THEN 1 ELSE 0)
  <2>0. lost[t] \in Nat
    BY <1>3 DEF TypeOK
  <2>1. CASE Found(t)
    <3>1. b[t] \in Index /\ keys[b[t]] = keys[key[t]] /\ OnChain(b[t], b[t])
      BY <1>3, <2>1, ChainFirst DEF Found, TypeOK
    <3>2. key[t] \notin L
      BY <1>5, <3>1
    <3> HIDE DEF L
    <3> QED BY <2>0, <2>1, <3>2 DEF Found
  <2>2. CASE Missed(t)
    <3>1. b[t] = NULL
      BY <2>2 DEF Missed
    <3>2. key[t] \in L
      BY <1>5, <3>1, ChainEnd
    <3>3. lost'[t] = lost[t] + 1
      BY <1>3, <2>2 DEF Missed, TypeOK
    <3> HIDE DEF L
    <3> QED BY <3>2, <3>3
  <2> QED BY <2>1, <2>2
<1>7. lost[t] = Cardinality(Below(L, t, key[t]))
  BY <1>1 DEF ReportInv, Counted, GetPoints
<1> HIDE DEF L
<1>8. Cardinality(Below(L, t, key[t] + num_threads)) = lost'[t]
  BY <1>3, <1>4, <1>6, <1>7, BelowNext
<1>9. pc'[t] = "get_exit" =>
        Below(L, t, key[t] + num_threads) = Below(L, t, NUM_KEYS)
  BY <1>2, <1>3, <1>4, BelowEnd, ThreadNumbers
<1>10. Counted'
  <2> SUFFICES ASSUME NEW s \in Threads
               PROVE
        /\ pc'[s] \in GetPoints => lost'[s] = Cardinality(Below(L, s, key'[s]))
        /\ pc'[s] = "get_exit" => lost'[s] = Cardinality(Below(L, s, NUM_KEYS))
        /\ pc'[s] \notin GetPoints \cup {"get_exit"} => lost'[s] = 0
    BY <1>4 DEF Counted, Below, Owner
  <2>1. CASE s = t
    BY <1>2, <1>8, <1>9, <2>1 DEF GetPoints
  <2>2. CASE s # t
    BY <1>1, <1>2, <2>2 DEF ReportInv, Counted, L
  <2> QED BY <2>1, <2>2
<1>11. Searching'
  <2> SUFFICES ASSUME NEW s \in Threads, pc'[s] = "walk"
               PROVE  key'[s] \in LostKeys' <=>
                 \A k \in Index : keys'[k] = keys'[key'[s]] => ~OnChain(b[s], k)'
    BY DEF Searching
  <2>1. s # t
    BY <1>2
  <2>2. pc[s] = "walk" /\ b'[s] = b[s] /\ key'[s] = key[s]
    BY <1>1, <1>2, <2>1
  <2> QED BY <1>1, <2>2, SearchFrame
<1> QED BY <1>1, <1>10, <1>11, AddedFrame DEF ReportInv

\* main() creates a thread: a get thread has counted nothing yet.
LEMMA CreateReport ==
  ASSUME ReportInv, BaseInv', CreatePut \/ CreateGet
  PROVE  ReportInv'
<1> USE DEF heapVars
<1> DEFINE L == LostKeys
<1>1. /\ UNCHANGED <<keys, table, next, b, lost, total_lost>>
      /\ main_pc \in {"create_put", "create_get"} /\ TypeOK
  BY DEF CreatePut, CreateGet, Round, ReportInv, BaseInv
<1>2. /\ i \in Threads /\ i \in Nat
      /\ \/ main_pc' = main_pc
         \/ main_pc = "create_put" /\ main_pc' = "join_put"
         \/ main_pc = "create_get" /\ main_pc' = "join_get" /\ i' = 0
  BY ThreadNumbers DEF CreatePut, CreateGet, Round, ReportInv, BaseInv, TypeOK
<1>3. /\ \/ /\ main_pc = "create_put"
            /\ pc'[i] = IF i < NUM_KEYS THEN "malloc" ELSE "put_exit"
         \/ /\ main_pc = "create_get"
            /\ pc'[i] = IF i < NUM_KEYS THEN "lookup" ELSE "get_exit"
      /\ key'[i] = i
      /\ \A s \in Threads \ {i} : pc'[s] = pc[s] /\ key'[s] = key[s]
  BY <1>2, StartBase DEF CreatePut, CreateGet, Round, ReportInv
<1>4. pc[i] \in {"none", "put_exit"}
  BY <1>1, <1>2 DEF ReportInv, BaseInv, Phases
<1>5. LostKeys' = L /\ L \in SUBSET Index
  BY <1>1, LostFrame DEF LostKeys
<1>6. lost[i] = 0
  BY <1>2, <1>4 DEF ReportInv, Counted, GetPoints
<1>7. total_lost = 0
  BY <1>1 DEF ReportInv, AddedUp
<1> HIDE DEF L
<1>8. Cardinality(Below(L, i, i)) = 0
  BY <1>2, <1>5, BelowStart
<1>9. ~(i < NUM_KEYS) => Below(L, i, i) = Below(L, i, NUM_KEYS)
  BY <1>2, <1>5, BelowEnd, ThreadNumbers
<1>10. Counted'
  <2> SUFFICES ASSUME NEW s \in Threads
               PROVE
        /\ pc'[s] \in GetPoints => lost'[s] = Cardinality(Below(L, s, key'[s]))
        /\ pc'[s] = "get_exit" => lost'[s] = Cardinality(Below(L, s, NUM_KEYS))
        /\ pc'[s] \notin GetPoints \cup {"get_exit"} => lost'[s] = 0
    BY <1>5 DEF Counted, Below, Owner
  <2>1. CASE s = i
    BY <1>1, <1>3, <1>6, <1>8, <1>9, <2>1 DEF GetPoints
  <2>2. CASE s # i
    BY <1>1, <1>3, <2>2 DEF ReportInv, Counted, L
  <2> QED BY <2>1, <2>2
<1>11. Searching'
  <2> SUFFICES ASSUME NEW s \in Threads, pc'[s] = "walk"
               PROVE  key'[s] \in LostKeys' <=>
                 \A k \in Index : keys'[k] = keys'[key'[s]] => ~OnChain(b[s], k)'
    BY DEF Searching
  <2>1. s # i
    BY <1>3
  <2>2. pc[s] = "walk" /\ b'[s] = b[s] /\ key'[s] = key[s]
    BY <1>1, <1>3, <2>1
  <2> QED BY <1>1, <2>2, SearchFrame
<1>12. AddedUp'
  <2>1. OfFirst(L, 0) = {}
    BY <1>5, OwnerType, ThreadNumbers DEF OfFirst
  <2>2. Cardinality(OfFirst(L, 0)) = 0
    BY <2>1, FS_EmptySet
  <2>3. OfFirst(LostKeys, i)' = OfFirst(L, i')
    BY <1>5 DEF OfFirst, Owner
  <2> QED BY <1>1, <1>2, <1>7, <2>2, <2>3 DEF AddedUp
<1> QED BY <1>10, <1>11, <1>12 DEF ReportInv

\* main() joins a thread and adds its count.
LEMMA JoinReport ==
  ASSUME ReportInv, BaseInv', JoinPut \/ JoinGet
  PROVE  ReportInv'
<1> USE DEF heapVars, threadVars
<1> DEFINE L == LostKeys
<1>1. UNCHANGED <<keys, table, next, pc, key, b, lost>> /\ TypeOK
  BY DEF JoinPut, JoinGet, ReportInv, BaseInv
<1>2. i \in Threads /\ i \in Nat /\ num_threads \in Nat
  BY <1>1, ThreadNumbers DEF TypeOK
<1>3. LostKeys' = L /\ L \in SUBSET Index
  BY <1>1, LostFrame DEF LostKeys
<1>4. Counted'
  BY <1>1, <1>3 DEF ReportInv, Counted
<1>5. Searching'
  BY <1>1, SearchFrame DEF Searching
<1>6. AddedUp'
  <2>1. CASE JoinPut
    BY <2>1 DEF JoinPut, Round, ReportInv, AddedUp
  <2>2. CASE JoinGet
    <3>1. /\ main_pc = "join_get" /\ pc[i] = "get_exit"
          /\ total_lost' = total_lost + lost[i]
          /\ IF i + 1 < num_threads THEN main_pc' = "join_get" /\ i' = i + 1
                                    ELSE main_pc' = "done" /\ i' = 0
      BY <2>2 DEF JoinGet, Joinable, Round
    <3>2. /\ total_lost = Cardinality(OfFirst(L, i))
          /\ lost[i] = Cardinality(Below(L, i, NUM_KEYS))
      BY <1>2, <3>1 DEF ReportInv, AddedUp, Counted
    <3> HIDE DEF L
    <3>3. total_lost' = Cardinality(OfFirst(L, i + 1))
      BY <1>2, <1>3, <3>1, <3>2, OfFirstNext
    <3>4. i + 1 >= num_threads => OfFirst(L, i + 1) = L
      <4>1. \A j \in L : Owner(j) \in Nat /\ Owner(j) < num_threads
        BY <1>3, OwnerType, ThreadNumbers
      <4> QED BY <1>2, <4>1 DEF OfFirst
    <3>5. OfFirst(LostKeys, i)' = OfFirst(L, i')
      BY <1>3 DEF OfFirst, Owner
    <3> QED BY <1>2, <1>3, <3>1, <3>3, <3>4, <3>5 DEF AddedUp
  <2> QED BY <2>1, <2>2
<1> QED BY <1>4, <1>5, <1>6 DEF ReportInv

\* Every step of every program keeps the counts.
LEMMA NextReport ==
  ASSUME ReportInv, [Next]_vars
  PROVE  ReportInv'
<1>0. BaseInv'
  BY NextBase DEF ReportInv
<1>1. ASSUME UNCHANGED <<keys, heapVars, threadVars, mainVars>>
      PROVE  ReportInv'
  <2>1. UNCHANGED <<keys, table, next, pc, key, b, lost, main_pc, i, total_lost>>
    BY <1>1 DEF heapVars, threadVars, mainVars
  <2>2. Counted'
    BY <2>1, LostFrame DEF ReportInv, Counted
  <2>3. Searching'
    BY <2>1, SearchFrame DEF Searching
  <2> QED BY <1>0, <2>1, <2>2, <2>3, AddedFrame DEF ReportInv
<1>2. ASSUME NEW t \in Threads, ThreadStep(t) PROVE ReportInv'
  <2>1. CASE Panic(t)
    BY <1>1, <2>1 DEF Panic
  <2> QED BY <1>0, <1>2, <2>1, PutReport, SearchStep, ResultStep DEF ThreadStep
<1>3. CASE MainStep
  BY <1>0, <1>3, CreateReport, JoinReport DEF MainStep
<1>4. CASE UNCHANGED vars
  BY <1>1, <1>4 DEF vars
<1> QED BY <1>2, <1>3, <1>4 DEF Next, Ended

\* The number that main() prints is exact in all three programs: without locks
\* keys are lost, but each of them is counted, once, by one thread.
THEOREM ReportIsExact == Spec => []ReportExact
<1>1. Init => ReportInv
  <2> SUFFICES ASSUME Init PROVE ReportInv
    OBVIOUS
  <2>1. BaseInv
    BY InitInv DEF Inv, BaseInv
  <2>2. Counted /\ Searching /\ AddedUp
    BY DEF Init, Counted, Searching, AddedUp, GetPoints
  <2> QED BY <2>1, <2>2 DEF ReportInv
<1>2. ReportInv /\ [Next]_vars => ReportInv'
  BY NextReport
<1>3. ReportInv => ReportExact
  BY DEF ReportInv, AddedUp, ReportExact, LostKeys
<1> QED BY <1>1, <1>2, <1>3, PTL DEF Spec
=============================================================================
