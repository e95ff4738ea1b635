------------------------------ MODULE HashTable ------------------------------
(***************************************************************************)
(* The hash table programs of hw4: num_threads threads insert the keys     *)
(* keys[0..NUM_KEYS-1] into a table of chained buckets, main() joins them, *)
(* and num_threads new threads look the keys up again and count the ones   *)
(* they miss.  The three programs differ in the lock insert() takes:       *)
(* none (parallel_hashtable.c), the bucket's mutex (parallel_mutex.c) or   *)
(* one spinlock (parallel_spin.c).                                         *)
(*                                                                         *)
(* insert() mallocs one entry per index of keys[], so an entry is named by *)
(* that index.  A step reads or writes the shared table at most once.      *)
(***************************************************************************)
EXTENDS Integers, FiniteSets

CONSTANTS
  NUM_BUCKETS, NUM_KEYS, num_threads,
  RandomKeys,    \* what random() returns
  Locking,       \* "none", "mutex" or "spin": which of the programs
  MallocFails,   \* whether malloc() can fail
  Nobody         \* the holder of a lock that is free

Threads == 0..(num_threads - 1)
Index   == 0..(NUM_KEYS - 1)
Buckets == 0..(NUM_BUCKETS - 1)
NULL    == -1

ASSUME HashAssumption ==
  /\ NUM_BUCKETS \in Nat \ {0} /\ NUM_KEYS \in Nat /\ num_threads \in Nat \ {0}
  /\ RandomKeys \subseteq Nat
  /\ Locking \in {"none", "mutex", "spin"}
  /\ MallocFails \in BOOLEAN
  /\ Nobody \notin Threads

VARIABLES
  keys,        \* the array of keys
  table,       \* the head of each bucket's chain
  next,        \* the next pointer of each entry
  holder,      \* the holder of each lock
  pc, key, b, lost,            \* the threads: control point and locals
  main_pc, i, total_lost,      \* main(): control point and locals
  exited,      \* whether panic() has ended the program
  inserted     \* history: the entries that insert() has put into the table

heapVars   == <<table, next, holder, inserted>>
threadVars == <<pc, key, b, lost>>
mainVars   == <<main_pc, i, total_lost>>
vars == <<keys, exited, heapVars, threadVars, mainVars>>

PutPoints  == {"malloc", "lock", "link", "publish", "unlock"}
GetPoints  == {"lookup", "walk"}
Points     == PutPoints \cup GetPoints \cup {"none", "put_exit", "get_exit"}
MainPoints == {"create_put", "join_put", "create_get", "join_get", "done"}

Init ==
  /\ keys \in [Index -> RandomKeys]
  /\ table = [k \in Buckets |-> NULL]
  /\ next = [j \in Index |-> NULL]
  /\ holder = [k \in Buckets |-> Nobody]
  /\ pc = [t \in Threads |-> "none"]
  /\ key = [t \in Threads |-> t]
  /\ b = [t \in Threads |-> NULL]
  /\ lost = [t \in Threads |-> 0]
  /\ main_pc = "create_put" /\ i = 0 /\ total_lost = 0
  /\ exited = FALSE
  /\ inserted = {}

-----------------------------------------------------------------------------
Bucket(j) == keys[j] % NUM_BUCKETS

\* The lock that guards bucket k: its own mutex, or the only spinlock.
LockOf(k) == IF Locking = "spin" THEN 0 ELSE k

\* pthread_mutex_lock() or pthread_spin_lock() can return.
Free_Always(k) == TRUE
Free(k) == holder[LockOf(k)] = Nobody

Release_Never(k) == UNCHANGED holder
Release(k) == holder' = [holder EXCEPT ![LockOf(k)] = Nobody]

\* The for loop of a phase goes to its next index, or ends.
NextKey_TooFar(t, again, end) ==
  /\ key' = [key EXCEPT ![t] = key[t] + num_threads]
  /\ pc' = [pc EXCEPT ![t] = IF key[t] + num_threads <= NUM_KEYS
                             THEN again ELSE end]
NextKey_Stuck(t, again, end) ==
  /\ UNCHANGED key
  /\ pc' = [pc EXCEPT ![t] = again]
NextKey(t, again, end) ==
  /\ key' = [key EXCEPT ![t] = key[t] + num_threads]
  /\ pc' = [pc EXCEPT ![t] = IF key[t] + num_threads < NUM_KEYS
                             THEN again ELSE end]

\* A thread that pthread_create() starts: the first test of its for loop.
StartsAt(t, first, end) ==
  /\ key' = [key EXCEPT ![t] = t]
  /\ pc' = [pc EXCEPT ![t] = IF t < NUM_KEYS THEN first ELSE end]

-----------------------------------------------------------------------------
(***************************************************************************)
(* put_phase() and insert().                                               *)
(***************************************************************************)
Malloc(t) ==
  /\ pc[t] = "malloc"
  /\ pc' = [pc EXCEPT ![t] = IF Locking = "none" THEN "link" ELSE "lock"]
  /\ UNCHANGED <<keys, exited, heapVars, key, b, lost, mainVars>>

\* No memory: panic() ends the program, with all its threads.
Panic(t) ==
  /\ pc[t] = "malloc" /\ MallocFails
  /\ exited' = TRUE
  /\ UNCHANGED <<keys, heapVars, threadVars, mainVars>>

Lock(t) ==
  /\ pc[t] = "lock"
  /\ Free(Bucket(key[t]))
  /\ holder' = [holder EXCEPT ![LockOf(Bucket(key[t]))] = t]
  /\ pc' = [pc EXCEPT ![t] = "link"]
  /\ UNCHANGED <<keys, exited, table, next, inserted, key, b, lost, mainVars>>

\* e->next = table[i]; e->key and e->val are set as well, which nobody sees.
Link(t) ==
  /\ pc[t] = "link"
  /\ next' = [next EXCEPT ![key[t]] = table[Bucket(key[t])]]
  /\ pc' = [pc EXCEPT ![t] = "publish"]
  /\ UNCHANGED <<keys, exited, table, holder, inserted, key, b, lost,
                 mainVars>>

\* table[i] = e
Publish(t) ==
  /\ pc[t] = "publish"
  /\ table' = [table EXCEPT ![Bucket(key[t])] = key[t]]
  /\ inserted' = inserted \cup {key[t]}
  /\ pc' = [pc EXCEPT ![t] = "unlock"]
  /\ UNCHANGED <<keys, exited, next, holder, key, b, lost, mainVars>>

\* Unlock if there is a lock; insert() returns and the loop goes on.
Unlock(t) ==
  /\ pc[t] = "unlock"
  /\ IF Locking = "none" THEN UNCHANGED holder ELSE Release(Bucket(key[t]))
  /\ NextKey(t, "malloc", "put_exit")
  /\ UNCHANGED <<keys, exited, table, next, inserted, b, lost, mainVars>>

-----------------------------------------------------------------------------
(***************************************************************************)
(* get_phase() and retrieve(), which takes no lock in any of the programs. *)
(***************************************************************************)

\* The entry at which retrieve(keys[j]) starts.
Head_Second(j) == IF table[Bucket(j)] = NULL THEN NULL
                  ELSE next[table[Bucket(j)]]
Head(j) == table[Bucket(j)]

Lookup(t) ==
  /\ pc[t] = "lookup"
  /\ b' = [b EXCEPT ![t] = Head(key[t])]
  /\ pc' = [pc EXCEPT ![t] = "walk"]
  /\ UNCHANGED <<keys, exited, heapVars, key, lost, mainVars>>

WalkOn(t) ==
  /\ pc[t] = "walk" /\ b[t] # NULL /\ keys[b[t]] # keys[key[t]]
  /\ b' = [b EXCEPT ![t] = next[b[t]]]
  /\ UNCHANGED <<keys, exited, heapVars, pc, key, lost, mainVars>>

Found(t) ==
  /\ pc[t] = "walk" /\ b[t] # NULL /\ keys[b[t]] = keys[key[t]]
  /\ b' = [b EXCEPT ![t] = NULL]
  /\ NextKey(t, "lookup", "get_exit")
  /\ UNCHANGED <<keys, exited, heapVars, lost, mainVars>>

Missed(t) ==
  /\ pc[t] = "walk" /\ b[t] = NULL
  /\ lost' = [lost EXCEPT ![t] = lost[t] + 1]
  /\ NextKey(t, "lookup", "get_exit")
  /\ UNCHANGED <<keys, exited, heapVars, b, mainVars>>

-----------------------------------------------------------------------------
(***************************************************************************)
(* main(): two loops that create the threads of a phase, each followed by  *)
(* one that joins them.                                                    *)
(***************************************************************************)

\* One round of the loop at from; after the last one main() goes to to.
Round(from, to) ==
  /\ main_pc = from
  /\ IF i + 1 < num_threads
     THEN main_pc' = from /\ i' = i + 1
     ELSE main_pc' = to /\ i' = 0

\* pthread_join() can return: the thread has exited.
Joinable_Always(t, point) == TRUE
Joinable(t, point) == pc[t] = point

CreatePut ==
  /\ Round("create_put", "join_put")
  /\ StartsAt(i, "malloc", "put_exit")
  /\ UNCHANGED <<keys, exited, heapVars, b, lost, total_lost>>

JoinPut ==
  /\ Joinable(i, "put_exit")
  /\ Round("join_put", "create_get")
  /\ UNCHANGED <<keys, exited, heapVars, threadVars, total_lost>>

CreateGet ==
  /\ Round("create_get", "join_get")
  /\ StartsAt(i, "lookup", "get_exit")
  /\ UNCHANGED <<keys, exited, heapVars, b, lost, total_lost>>

\* The count that the thread passed to pthread_exit() is added up.
JoinGet ==
  /\ Joinable(i, "get_exit")
  /\ Round("join_get", "done")
  /\ total_lost' = total_lost + lost[i]
  /\ UNCHANGED <<keys, exited, heapVars, threadVars>>

-----------------------------------------------------------------------------
ThreadStep(t) ==
  \/ Malloc(t) \/ Panic(t) \/ Lock(t) \/ Link(t) \/ Publish(t) \/ Unlock(t)
  \/ Lookup(t) \/ WalkOn(t) \/ Found(t) \/ Missed(t)

MainStep == CreatePut \/ JoinPut \/ CreateGet \/ JoinGet

\* The program is over.
Ended == (main_pc = "done" \/ exited) /\ UNCHANGED vars

Next ==
  \/ ~exited /\ (MainStep \/ \E t \in Threads : ThreadStep(t))
  \/ Ended

Spec == Init /\ [][Next]_vars

\* Every thread is scheduled: the operating system's scheduler sees to that.
FairSpec ==
  /\ Spec
  /\ WF_vars(~exited /\ MainStep)
  /\ \A t \in Threads : WF_vars(~exited /\ ThreadStep(t))

-----------------------------------------------------------------------------
(***************************************************************************)
(* Properties.                                                             *)
(***************************************************************************)

\* Every variable has its type, and a thread in a loop is at a valid index.
TypeOK ==
  /\ keys \in [Index -> RandomKeys]
  /\ table \in [Buckets -> Index \cup {NULL}]
  /\ next \in [Index -> Index \cup {NULL}]
  /\ holder \in [Buckets -> Threads \cup {Nobody}]
  /\ pc \in [Threads -> Points]
  /\ key \in [Threads -> Nat]
  /\ b \in [Threads -> Index \cup {NULL}]
  /\ lost \in [Threads -> Nat]
  /\ main_pc \in MainPoints /\ i \in Threads /\ total_lost \in Nat
  /\ exited \in BOOLEAN
  /\ inserted \subseteq Index
  /\ \A t \in Threads : pc[t] \in PutPoints \cup GetPoints => key[t] \in Index

\* Entry j is on the chain that starts at x: it is in every set that holds x
\* and is closed under next.
Closed(S) == \A k \in S \ {NULL} : next[k] \in S
OnChain(x, j) ==
  \A S \in SUBSET (Index \cup {NULL}) : x \in S /\ Closed(S) => j \in S

\* insert() never unlinks what other threads have inserted: every entry stays
\* on the chain of its bucket, at every moment of both phases.
NoKeyLost == \A j \in inserted : OnChain(table[Bucket(j)], j)

\* The head that insert() read is still the head when it stores its own entry.
LinkFresh ==
  \A t \in Threads :
    pc[t] = "publish" => next[key[t]] = table[Bucket(key[t])]

\* retrieve() takes no lock because nothing is written any more while a thread
\* of the get phase runs: the joins are a barrier.
GetReadOnly ==
  [][(\E t \in Threads : pc[t] \in GetPoints) => UNCHANGED <<table, next>>]_vars

\* When main() prints its result, all keys have been retrieved.
AllRetrieved == main_pc = "done" => total_lost = 0

\* The number main() prints is exact even when entries were lost: it counts
\* the keys for which no entry is on the chain that retrieve() walks.
ReportExact ==
  main_pc = "done" =>
    total_lost = Cardinality({j \in Index :
                   \A k \in Index : keys[k] = keys[j] =>
                                     ~OnChain(table[Bucket(j)], k)})

\* The program comes to its end: no thread waits for a lock for
\* ever, and no chain, however it was raced, has become a cycle.
Terminates == <>(main_pc = "done" \/ exited)
=============================================================================
