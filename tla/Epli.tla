------------------------------- MODULE Epli -------------------------------
(***************************************************************************)
(* The EPLI facade in the USE_SWTABLE build: SW-Table caches values of     *)
(* EPL-Tree that were read, and closes itself when it is of no use.  One   *)
(* client thread.                                                          *)
(*                                                                         *)
(* The tree is the map that EplTree implements.  The table is the map that *)
(* Clht implements: an operation takes effect at once, and a put may evict *)
(* or resize, after which any of the other entries may be gone.            *)
(***************************************************************************)
EXTENDS Integers

CONSTANTS
  Keys,
  Vals,         \* values that clients store
  NoEntry,      \* the table has no entry for a key
  SampleM,      \* SAMPLE_M
  HitPerMille,  \* MIN_HIT_RATE * 1000
  UpdateAbsent, \* clients may update keys that the tree does not have
  MaxGets       \* bound on tot_get

ASSUME EpliAssumption ==
  /\ Vals \subseteq Nat \ {0}
  /\ NoEntry \notin Vals \cup {0}
  /\ SampleM \in Nat \ {0}
  /\ HitPerMille \in Nat
  /\ UpdateAbsent \in BOOLEAN
  /\ MaxGets \in Nat

VARIABLES
  tree,      \* the tree's value of each key, 0 if it has none
  table,     \* the table's entry of each key
  table_on,
  hit_cnt,
  tot_get,
  val        \* what the last Get returned, with its key

vars == <<tree, table, table_on, hit_cnt, tot_get, val>>

None == [key |-> 0, val |-> 0]

EmptyTable == [k \in Keys |-> NoEntry]

Init ==
  /\ tree = [k \in Keys |-> 0]
  /\ table = EmptyTable
  /\ table_on = TRUE /\ hit_cnt = 0 /\ tot_get = 0
  /\ val = None

-----------------------------------------------------------------------------
(* The table, as the facade uses it. *)

\* clht_get: 0 is a miss, whether there is no entry or an entry with value 0.
TableGet(k) == IF table[k] = NoEntry THEN 0 ELSE table[k]

\* clht_put: an entry that is there stays; a new one may evict others.
TablePut(k, v) ==
  IF table[k] # NoEntry THEN {table}
  ELSE {[j \in Keys |-> IF j \in lost THEN NoEntry
                        ELSE IF j = k THEN v ELSE table[j]] : lost \in SUBSET Keys}

\* clht_update, clht_remove.
TableUpdate(k, v) == IF table[k] = NoEntry THEN table ELSE [table EXCEPT ![k] = v]
TableRemove(k) == [table EXCEPT ![k] = NoEntry]

-----------------------------------------------------------------------------
(* The operations of the facade. *)

\* Put goes to the tree only.  Clients put keys that are absent.
Put(k, v) ==
  /\ tree[k] = 0
  /\ tree' = [tree EXCEPT ![k] = v]
  /\ UNCHANGED <<table, table_on, hit_cnt, tot_get, val>>

\* EPLTree::Update ignores a key it does not have.
TreeUpdate(k, v) == IF tree[k] = 0 THEN tree ELSE [tree EXCEPT ![k] = v]

\* Faulty: a closed table is left alone.
UpdateWhenOpen(k, v) ==
  /\ UpdateAbsent \/ tree[k] # 0
  /\ table' = IF table_on THEN TableUpdate(k, v) ELSE table
  /\ tree' = TreeUpdate(k, v)
  /\ UNCHANGED <<table_on, hit_cnt, tot_get, val>>

\* Update: the table, open or closed, and then the tree.
Update(k, v) ==
  /\ UpdateAbsent \/ tree[k] # 0
  /\ table' = TableUpdate(k, v)
  /\ tree' = TreeUpdate(k, v)
  /\ UNCHANGED <<table_on, hit_cnt, tot_get, val>>

Remove(k) ==
  /\ table' = TableRemove(k)
  /\ tree' = [tree EXCEPT ![k] = 0]
  /\ UNCHANGED <<table_on, hit_cnt, tot_get, val>>

\* Get with a closed table.
GetClosed(k) ==
  /\ ~table_on
  /\ val' = [key |-> k, val |-> tree[k]]
  /\ UNCHANGED <<tree, table, table_on, hit_cnt, tot_get>>

\* What every Get with an open table ends with: SWTABLE_AUTO_CLOSE.
CountAndMaybeClose ==
  /\ tot_get < MaxGets
  /\ tot_get' = tot_get + 1
  /\ table_on' = ~(hit_cnt' > 0 /\ 1000 * hit_cnt' < HitPerMille * tot_get')

GetHit(k) ==
  /\ table_on /\ TableGet(k) # 0
  /\ val' = [key |-> k, val |-> TableGet(k)]
  /\ hit_cnt' = hit_cnt + 1
  /\ CountAndMaybeClose
  /\ UNCHANGED <<tree, table>>

\* Faulty: a sampled value is read back from the table, which may have evicted it.
GetMissReadsBack(k) ==
  /\ table_on /\ TableGet(k) = 0
  /\ table' \in IF tot_get % SampleM = 0 THEN TablePut(k, tree[k]) ELSE {table}
  /\ val' = [key |-> k, val |-> IF tot_get % SampleM # 0 THEN tree[k]
                                ELSE IF table'[k] = NoEntry THEN 0 ELSE table'[k]]
  /\ hit_cnt' = hit_cnt
  /\ CountAndMaybeClose
  /\ UNCHANGED tree

\* A miss: what the tree has, 0 if it has nothing, and every SAMPLE_M-th Get
\* that misses stores it in the table, the 0 too.
GetMiss(k) ==
  /\ table_on /\ TableGet(k) = 0
  /\ val' = [key |-> k, val |-> tree[k]]
  /\ table' \in IF tot_get % SampleM = 0 THEN TablePut(k, tree[k]) ELSE {table}
  /\ hit_cnt' = hit_cnt
  /\ CountAndMaybeClose
  /\ UNCHANGED tree

\* Reset opens the table, with whatever it holds.
Reset ==
  /\ table_on' = TRUE /\ tot_get' = 0 /\ hit_cnt' = 0
  /\ UNCHANGED <<tree, table, val>>

\* A new process: Init(true) with a new table, and Recover of the tree.
Restart ==
  /\ table' = EmptyTable
  /\ table_on' = TRUE /\ tot_get' = 0 /\ hit_cnt' = 0
  /\ val' = None
  /\ UNCHANGED tree

Next ==
  \/ \E k \in Keys, v \in Vals : Put(k, v) \/ Update(k, v)
  \/ \E k \in Keys : Remove(k) \/ GetClosed(k) \/ GetHit(k) \/ GetMiss(k)
  \/ Reset
  \/ Restart

Spec == Init /\ [][Next]_vars

-----------------------------------------------------------------------------
(* Properties. *)

\* Types; there are no more hits than Gets, so the hit rate is one.
TypeOK ==
  /\ tree \in [Keys -> Vals \cup {0}]
  /\ table \in [Keys -> Vals \cup {0, NoEntry}]
  /\ table_on \in BOOLEAN
  /\ tot_get \in Nat /\ hit_cnt \in 0..tot_get

\* SW-Table never holds a value that the tree does not have: whatever was
\* sampled, evicted, updated or removed while the table was open or closed.
Coherent == \A k \in Keys : table[k] \in {NoEntry, 0, tree[k]}

\* Every Get returns what the tree has for its key, 0 if it has nothing.
GetReturnsStored ==
  [][\A k \in Keys : GetClosed(k) \/ GetHit(k) \/ GetMiss(k) =>
                    val' = [key |-> k, val |-> tree[k]]]_vars

\* "insert into hashtable for every SAMPLE_M get operation": after a sampled
\* miss on a stored key the table has no empty entry for it.
SampledIsCached ==
  [][\A k \in Keys :
       GetMiss(k) /\ tot_get % SampleM = 0 /\ tree[k] # 0 => table'[k] # 0]_vars
=============================================================================
