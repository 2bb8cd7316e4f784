------------------------------ MODULE EplTree ------------------------------
(***************************************************************************)
(* EPL-Tree (epltree.h, datalist.h): a linked list of entries in NVM and,  *)
(* in DRAM, an index (an ALEX tree) from the smallest key of each entry to *)
(* the entry.  One thread calls the operations; a power failure may stop   *)
(* it between any two of its flushes.  A call is a sequence of steps, each *)
(* ending where the code flushes: within a step the stores reach the cache *)
(* in program order and any prefix of them may survive, which the sets of  *)
(* module Entry record.                                                    *)
(*                                                                         *)
(* An entry's address is the order in which NVM::data_alloc hands it out:  *)
(* 1 is the head of the list, 0 is NULL.                                   *)
(***************************************************************************)
EXTENDS Entry, FiniteSets, Sequences

CONSTANTS
  Keys,          \* the keys clients use: not 0 (INVALID_KEY)
  Vals,          \* the values clients use (0 stands for "no value" below)
  MaxEntries,    \* bound: entries that fit in the NVM pool
  BulkSets,      \* the sets of keys a client passes to BulkLoad
  LoadSize,      \* the load_size the restarted program passes to Recover
  Ops,           \* the operations clients call
  CrashAt,       \* the program points at which power may fail
  MaxCrashes,    \* bound: power failures
  Reuse          \* whether clients may cause a split after a restart that
                 \* left more entries than data_alloc knows of

ASSUME KeysAssumption == Keys \subseteq Nat \ {0}
ASSUME ValsAssumption == Vals \subseteq Nat \ {0}
ASSUME MaxEntriesAssumption == MaxEntries \in Nat \ {0}
ASSUME BoundsAssumption ==
  /\ BulkSets \subseteq SUBSET Keys
  /\ LoadSize \in Nat
  /\ MaxCrashes \in Nat
  /\ Reuse \in BOOLEAN

Null == 0
EntryHead == 1
Addr == 1..MaxEntries

VARIABLES
  nvm,      \* the contents of each entry as the program reads it
  dur,      \* for each entry, what each line may hold after a crash
  index,    \* the ALEX index: key |-> payload, Null where it has no such key
  first,    \* the payload in the first slot of the index
  cur,      \* entries data_alloc has handed out since the program started
  pc,       \* where the current call is; "idle" between calls
  op,       \* arguments and locals of the current call
  img,      \* after a power failure: the entries whose contents are settled
  crashes   \* power failures so far

vars == <<nvm, dur, index, first, cur, pc, op, img, crashes>>

NoTmp == [i \in Slots |-> <<0, 0>>]
NoOp == [call |-> "none", k |-> 0, v |-> 0, old |-> 0, ent |-> Null, i |-> 0, new |-> Null,
         tmp |-> NoTmp, bulk |-> <<>>]

BulkPcs == {"bulk_head", "bulk_erase", "bulk_link", "bulk_persist", "bulk_index"}
SplitPcs == {"split_flag", "split_new", "split_entry"}
Pcs == {"idle", "insert", "flush", "off", "undefined"}
         \union SplitPcs \union BulkPcs

-----------------------------------------------------------------------------
(* The index. *)

IndexKeys == {m \in Keys \union {0} : index[m] # Null}

(***************************************************************************)
(* get_payload_last_no_greater_than(k): the payload of the largest key     *)
(* that is not above k, else the one in the first slot.                    *)
(***************************************************************************)
Route(k) ==
  IF \E m \in IndexKeys : m <= k
  THEN index[CHOOSE m \in IndexKeys :
               m <= k /\ \A n \in IndexKeys : n <= k => n <= m]
  ELSE first

(***************************************************************************)
(* index->insert(m, a).  The pair is placed to the right of equal keys,    *)
(* which hides them from lookups, and in the first slot when every other   *)
(* key is larger.                                                          *)
(***************************************************************************)
IndexInsert(m, a) ==
  /\ index' = [index EXCEPT ![m] = a]
  /\ first' = IF \E n \in IndexKeys : n <= m THEN first ELSE a

\* EPLTree::Get: the value of k, 0 when it returns STATUS_FAIL.
Found(k) == HasKey(nvm[Route(k)], k)
Get(k) == IF Found(k) THEN nvm[Route(k)].val[FirstSlot(nvm[Route(k)], k)] ELSE 0

\* The entries that lookups can reach.
Indexed == {index[m] : m \in IndexKeys} \union {first}

-----------------------------------------------------------------------------
(* Stores and flushes of entry a. *)

\* Entry a goes through the contents vs and ends with the contents e.
Write(a, e, vs) ==
  /\ nvm' = [nvm EXCEPT ![a] = e]
  /\ dur' = [dur EXCEPT ![a] = Wrote(@, vs \union {e})]

PersistEntry(a) == dur' = [dur EXCEPT ![a] = Persist(nvm[a])]

-----------------------------------------------------------------------------
(* EPLTree(recover = false) on a fresh pool. *)

Init ==
  /\ nvm = [a \in Addr |-> EmptyBlock]
  /\ dur = [a \in Addr |-> Persist(EmptyBlock)]
  /\ index = [m \in Keys \union {0} |-> IF m = 0 THEN EntryHead ELSE Null]
  /\ first = EntryHead
  /\ cur = 1
  /\ pc = "idle"
  /\ op = NoOp
  /\ img = [a \in {} |-> EmptyBlock]
  /\ crashes = 0

-----------------------------------------------------------------------------
(***************************************************************************)
(* Insert.  The caller must make sure that k is not in the tree (comment   *)
(* on Entry::MaybePut).  When the entry is full it is split and the insert *)
(* starts again.                                                           *)
(***************************************************************************)
Full(e) == ~HasKey(e, 0)

\* The program's next split takes entry cur + 1: a bound on the pool, and
\* on clients when that entry is already in the list.
MaySplit == cur < MaxEntries /\ (Reuse \/ cur + 1 \notin Indexed)

Insert(k, v) ==
  /\ pc = "idle" /\ "insert" \in Ops
  /\ ~Found(k)
  /\ Full(nvm[Route(k)]) => MaySplit
  /\ pc' = "insert"
  /\ op' = [NoOp EXCEPT !.call = "insert", !.k = k, !.v = v]
  /\ UNCHANGED <<nvm, dur, index, first, cur, img, crashes>>

\* Entry::MaybePut finds an empty slot: value, then key.
MaybePut ==
  /\ pc = "insert"
  /\ LET a == Route(op.k)
         e == nvm[a]
         i == FirstSlot(e, 0)
         e1 == [e EXCEPT !.val[i] = op.v]
         e2 == [e1 EXCEPT !.key[i] = op.k]
     IN /\ ~Full(e)
        /\ Write(a, e2, {e1})
        /\ op' = [op EXCEPT !.ent = a, !.i = i]
  /\ pc' = "flush"
  /\ UNCHANGED <<index, first, cur, img, crashes>>

(***************************************************************************)
(* splitEntry: tmp_kvs is the entry's pairs sorted by key.                 *)
(***************************************************************************)
SortedBy(e, f) ==
  /\ \A i \in Slots : \E j \in Slots : f[j] = i
  /\ \A i, j \in Slots : i < j => f[i] # f[j] /\ e.key[f[i]] <= e.key[f[j]]

Half == K \div 2

\* Faulty: off by one, the right half starts too early.
RightHalfEarly(tmp) == [i \in 0..(K - Half - 1) |-> tmp[i + Half - 1]]

\* tmp_kvs + KVS_PER_ENTRY / 2
RightHalf(tmp) == [i \in 0..(K - Half - 1) |-> tmp[i + Half]]

\* NVM::data_alloc->alloc_aligned(sizeof(Entry)), and a faulty one that
\* does not advance.
AllocStuck == EntryHead + 1
AllocAligned == cur + 1

\* Sort, allocate and construct the new entry, mark the entry as splitting.
SplitBegin ==
  /\ pc = "insert"
  /\ cur < MaxEntries
  /\ LET a == Route(op.k)
         e == nvm[a]
         b == AllocAligned
     IN /\ Full(e)
        /\ \E f \in [Slots -> Slots] :
             /\ SortedBy(e, f)
             /\ LET tmp == [i \in Slots |-> <<e.key[f[i]], e.val[f[i]]>>]
                    right == RightHalf(tmp)
                    n == (K + 1) \div 2
                    new == NewEntry(right[0][1], right, n)
                IN /\ nvm' = [nvm EXCEPT ![b] = new, ![a].flag = 1]
                   /\ dur' = [dur EXCEPT
                        ![b] = Wrote(@, NewEntryVersions(nvm[b], right[0][1], right, n)
                                          \union {new}),
                        ![a] = Wrote(@, {nvm'[a]})]
                   /\ op' = [op EXCEPT !.ent = a, !.new = b, !.tmp = tmp]
  /\ cur' = AllocAligned
  /\ pc' = "split_flag"
  /\ UNCHANGED <<index, first, img, crashes>>

\* Faulty: the new entry does not get the entry's successor.
SplitFlagNoNext ==
  /\ pc = "split_flag"
  /\ dur' = [dur EXCEPT ![op.ent] = FlushWord(@, nvm[op.ent], 2)]
  /\ pc' = "split_new"
  /\ UNCHANGED <<nvm, index, first, cur, op, img, crashes>>

\* The flag is flushed; the new entry is given its successor.
SplitFlag ==
  /\ pc = "split_flag"
  /\ LET e == [nvm[op.new] EXCEPT !.next = nvm[op.ent].next]
     IN /\ nvm' = [nvm EXCEPT ![op.new] = e]
        /\ dur' = [dur EXCEPT ![op.ent] = FlushWord(@, nvm[op.ent], 2),
                              ![op.new] = Wrote(@, {e})]
  /\ pc' = "split_new"
  /\ UNCHANGED <<index, first, cur, op, img, crashes>>

\* Faulty: the new entry is not persisted.
SplitNewUnflushed ==
  /\ pc = "split_new"
  /\ LET e == [nvm[op.ent] EXCEPT !.next = op.new]
         e1 == SetOrderedKVs(e, op.tmp, Half)
         e2 == [e1 EXCEPT !.flag = 0]
     IN Write(op.ent, e2, {e} \union SetOrderedKVsVersions(e, op.tmp, Half))
  /\ IndexInsert(op.tmp[Half][1], op.new)
  /\ pc' = "split_entry"
  /\ UNCHANGED <<cur, op, img, crashes>>

\* The new entry is persisted, linked and indexed; the old one keeps the
\* left half.  None of the old entry's stores is flushed here.
SplitNew ==
  /\ pc = "split_new"
  /\ LET e == [nvm[op.ent] EXCEPT !.next = op.new]
         e1 == SetOrderedKVs(e, op.tmp, Half)
         e2 == [e1 EXCEPT !.flag = 0]
     IN /\ nvm' = [nvm EXCEPT ![op.ent] = e2]
        /\ dur' = [dur EXCEPT ![op.new] = Persist(nvm[op.new]),
                              ![op.ent] = Wrote(@, {e, e2} \union
                                            SetOrderedKVsVersions(e, op.tmp, Half))]
  /\ IndexInsert(op.tmp[Half][1], op.new)
  /\ pc' = "split_entry"
  /\ UNCHANGED <<cur, op, img, crashes>>

\* Faulty: the old entry is not persisted; the split starts over; Insert
\* returns without inserting.
SplitEntryUnflushed ==
  /\ pc = "split_entry"
  /\ op' = [NoOp EXCEPT !.call = op.call, !.k = op.k, !.v = op.v]
  /\ pc' = "insert"
  /\ UNCHANGED <<nvm, dur, index, first, cur, img, crashes>>

SplitEntryAgain ==
  /\ pc = "split_entry"
  /\ PersistEntry(op.ent)
  /\ pc' = "split_flag"
  /\ UNCHANGED <<nvm, index, first, cur, op, img, crashes>>

SplitEntryNoRetry ==
  /\ pc = "split_entry"
  /\ PersistEntry(op.ent)
  /\ op' = NoOp
  /\ pc' = "idle"
  /\ UNCHANGED <<nvm, index, first, cur, img, crashes>>

\* The old entry is persisted and Insert calls itself again.
SplitEntry ==
  /\ pc = "split_entry"
  /\ PersistEntry(op.ent)
  /\ op' = [NoOp EXCEPT !.call = op.call, !.k = op.k, !.v = op.v]
  /\ pc' = "insert"
  /\ UNCHANGED <<nvm, index, first, cur, img, crashes>>

-----------------------------------------------------------------------------
(* Update and Remove: a call for an absent key returns and changes nothing.*)

Update(k, v) ==
  /\ pc = "idle" /\ "update" \in Ops
  /\ Found(k)
  /\ LET a == Route(k)
         i == FirstSlot(nvm[a], k)
     IN /\ Write(a, [nvm[a] EXCEPT !.val[i] = v], {})
        /\ op' = [NoOp EXCEPT !.call = "update", !.k = k, !.v = v,
                              !.old = Get(k), !.ent = a, !.i = i]
  /\ pc' = "flush"
  /\ UNCHANGED <<index, first, cur, img, crashes>>

Remove(k) ==
  /\ pc = "idle" /\ "remove" \in Ops
  /\ Found(k)
  /\ LET a == Route(k)
         i == FirstSlot(nvm[a], k)
     IN /\ Write(a, [nvm[a] EXCEPT !.key[i] = 0], {})
        /\ op' = [NoOp EXCEPT !.call = "remove", !.k = k,
                              !.old = Get(k), !.ent = a, !.i = i]
  /\ pc' = "flush"
  /\ UNCHANGED <<index, first, cur, img, crashes>>

\* Faulty: Update returns without the flush.
FlushSlotNotUpdate ==
  /\ pc = "flush"
  /\ dur' = IF op.call = "update" THEN dur
            ELSE [dur EXCEPT ![op.ent] = FlushWord(@, nvm[op.ent], KeyWord(op.i))]
  /\ pc' = "idle"
  /\ op' = NoOp
  /\ UNCHANGED <<nvm, index, first, cur, img, crashes>>

\* MaybePut, Update and Remove end with clflush(&kvs[i]); fence(), which
\* flushes the line of the slot's KEY; then the call returns STATUS_OK.
FlushSlot ==
  /\ pc = "flush"
  /\ dur' = [dur EXCEPT ![op.ent] = FlushWord(@, nvm[op.ent], KeyWord(op.i))]
  /\ pc' = "idle"
  /\ op' = NoOp
  /\ UNCHANGED <<nvm, index, first, cur, img, crashes>>

-----------------------------------------------------------------------------
(***************************************************************************)
(* BulkLoad, called once, on the empty tree, with sorted pairs.  Each entry*)
(* is linked, and its predecessor persisted, before it is persisted        *)
(* itself; the index is built at the end.  Up to K pairs fit in the head   *)
(* and the function returns early.                                         *)
(***************************************************************************)
SortedKeys(S) ==
  CHOOSE s \in [1..Cardinality(S) -> S] :
    \A i, j \in 1..Cardinality(S) : i < j => s[i] < s[j]

\* The pairs of entry number i, and how many they are.
ChunkSize(i) == IF Len(op.bulk) - i * K < K THEN Len(op.bulk) - i * K ELSE K
Chunk(i) == [j \in 0..(ChunkSize(i) - 1) |-> op.bulk[i * K + j + 1]]

BulkLoad(S, v) ==
  /\ pc = "idle" /\ crashes = 0 /\ cur = 1
  /\ IndexKeys = {0} /\ nvm[EntryHead] = EmptyBlock
  /\ S # {}
  /\ op' = [NoOp EXCEPT !.call = "bulk", !.ent = EntryHead,
             !.bulk = [i \in 1..Cardinality(S) |-> <<SortedKeys(S)[i], v>>]]
  /\ pc' = "bulk_head"
  /\ UNCHANGED <<nvm, dur, index, first, cur, img, crashes>>

BulkHead ==
  /\ pc = "bulk_head"
  /\ Write(EntryHead, SetOrderedKVs(nvm[EntryHead], Chunk(0), ChunkSize(0)),
           SetOrderedKVsVersions(nvm[EntryHead], Chunk(0), ChunkSize(0)))
  /\ pc' = "bulk_erase"
  /\ UNCHANGED <<index, first, cur, op, img, crashes>>

\* The head is persisted and its key erased from the index.  The erased
\* payload stays behind in slot 0 of the only leaf.
BulkErase ==
  /\ pc = "bulk_erase"
  /\ PersistEntry(EntryHead)
  /\ index' = [index EXCEPT ![0] = Null]
  /\ IF Len(op.bulk) <= K
     THEN pc' = "idle" /\ op' = NoOp
     ELSE pc' = "bulk_link" /\ op' = [op EXCEPT !.i = 1]
  /\ UNCHANGED <<nvm, first, cur, img, crashes>>

BulkLink ==
  /\ pc = "bulk_link"
  /\ cur < MaxEntries
  /\ LET b == AllocAligned
         kv == Chunk(op.i)
         n == ChunkSize(op.i)
         new == NewEntry(kv[0][1], kv, n)
         e == [nvm[op.ent] EXCEPT !.next = b]
     IN /\ nvm' = [nvm EXCEPT ![b] = new, ![op.ent] = e]
        /\ dur' = [dur EXCEPT ![b] = Wrote(@, NewEntryVersions(nvm[b], kv[0][1], kv, n)),
                              ![op.ent] = Wrote(@, {e})]
        /\ op' = [op EXCEPT !.new = b]
  /\ cur' = AllocAligned
  /\ pc' = "bulk_persist"
  /\ UNCHANGED <<index, first, img, crashes>>

BulkPersist ==
  /\ pc = "bulk_persist"
  /\ PersistEntry(op.ent)
  /\ op' = [op EXCEPT !.ent = op.new, !.i = op.i + 1]
  /\ pc' = IF K * (op.i + 1) < Len(op.bulk) THEN "bulk_link" ELSE "bulk_index"
  /\ UNCHANGED <<nvm, index, first, cur, img, crashes>>

\* index->bulk_load of one pair (first key, entry) per entry of the list.
BulkIndex ==
  /\ pc = "bulk_index"
  /\ index' = [m \in Keys \union {0} |->
                 IF \E a \in 1..cur : nvm[a].min = m
                 THEN CHOOSE a \in 1..cur : nvm[a].min = m ELSE Null]
  /\ first' = EntryHead
  /\ PersistEntry(op.ent)
  /\ pc' = "idle"
  /\ op' = NoOp
  /\ UNCHANGED <<nvm, cur, img, crashes>>

-----------------------------------------------------------------------------
(***************************************************************************)
(* Power failure and restart.  Each entry settles to one of the contents   *)
(* that may have survived.  Then EPLTree(true) takes the first entry of    *)
(* the pool as the head, with an allocator that starts at the beginning of *)
(* the pool, and Recover rebuilds the index from the list.                 *)
(***************************************************************************)
Crash ==
  /\ pc \in CrashAt /\ crashes < MaxCrashes
  /\ pc' = "off"
  /\ crashes' = crashes + 1
  /\ UNCHANGED <<nvm, dur, index, first, cur, op, img>>

Settle(a) ==
  /\ pc = "off"
  /\ DOMAIN img = 1..(a - 1)
  /\ \E e \in Survivors(dur[a]) :
       img' = [b \in 1..a |-> IF b = a THEN e ELSE img[b]]
  /\ UNCHANGED <<nvm, dur, index, first, cur, pc, op, crashes>>

\* List(mem)[n] is the n-th entry of the list, Null after its end.
List(mem) ==
  LET list[n \in 0..MaxEntries] ==
        IF n = 0 THEN EntryHead
        ELSE IF list[n - 1] = Null THEN Null
        ELSE mem[list[n - 1]].next
  IN list

(***************************************************************************)
(* What Recover needs: the list ends, its entries fit in index_kvs, and    *)
(* bulk_load is given ascending keys.  Otherwise Recover does not return,  *)
(* writes past an array, or builds an index whose lookups mean nothing.    *)
(***************************************************************************)
Recoverable(mem) ==
  LET list == List(mem)
      used == {n \in 0..MaxEntries : list[n] # Null}
  IN /\ list[MaxEntries] = Null
     /\ Cardinality(used) <= LoadSize \div K + 1
     /\ \A n, m \in used : n < m => mem[list[n]].min < mem[list[m]].min

IndexOf(mem) ==
  LET listed == {List(mem)[n] : n \in 0..MaxEntries} \ {Null}
  IN [m \in Keys \union {0} |->
        IF \E a \in listed : mem[a].min = m
        THEN CHOOSE a \in listed : mem[a].min = m ELSE Null]

Recover ==
  /\ pc = "off" /\ DOMAIN img = Addr
  /\ nvm' = img
  /\ dur' = [a \in Addr |-> Persist(img[a])]
  /\ cur' = 1
  /\ IF Recoverable(img)
     THEN pc' = "idle" /\ index' = IndexOf(img)
     ELSE pc' = "undefined" /\ index' = [m \in Keys \union {0} |-> Null]
  /\ first' = EntryHead
  /\ op' = NoOp
  /\ img' = [a \in {} |-> EmptyBlock]
  /\ UNCHANGED crashes

-----------------------------------------------------------------------------
(* Specifications.  A call, once begun, runs to its end.                   *)

Client == \E k \in Keys : (\E v \in Vals : Insert(k, v) \/ Update(k, v)) \/ Remove(k)
SplitStep == SplitBegin \/ SplitFlag \/ SplitNew \/ SplitEntry
Step == MaybePut \/ SplitStep \/ FlushSlot
BulkStep == BulkHead \/ BulkErase \/ BulkLink \/ BulkPersist \/ BulkIndex
Power == Crash \/ (\E a \in Addr : Settle(a)) \/ Recover

Next == Client \/ Step
FullNext ==
  \/ Next
  \/ \E S \in BulkSets, v \in Vals : BulkLoad(S, v)
  \/ BulkStep
  \/ Power

\* The tree that is filled by Insert, on a machine that stays up.
Spec == Init /\ [][Next]_vars /\ WF_vars(Step)

\* The tree with BulkLoad, power failures and restarts.
FullSpec == Init /\ [][FullNext]_vars /\ WF_vars(Step \/ BulkStep)

-----------------------------------------------------------------------------
(* Properties. *)

OpType ==
  [call : {"none", "insert", "update", "remove", "bulk"},
   k : Keys \union {0}, v : Vals \union {0}, old : Nat,
   ent : Addr \union {Null}, i : Nat, new : Addr \union {Null},
   tmp : [Slots -> Nat \X Nat], bulk : Seq(Nat \X Nat)]

\* Every variable has its type; links and payloads are entries of the pool.
TypeOK ==
  /\ nvm \in [Addr -> Block]
  /\ \A a \in Addr : nvm[a].next \in Addr \union {Null}
  /\ dur \in [Addr -> [Lines -> SUBSET Block]]
  /\ index \in [Keys \union {0} -> Addr \union {Null}]
  /\ first \in Addr
  /\ cur \in Addr
  /\ pc \in Pcs
  /\ op \in OpType
  /\ DOMAIN img \subseteq Addr /\ \A a \in DOMAIN img : img[a] \in Block
  /\ crashes \in Nat

Serving == pc \in {"idle", "insert", "flush"} \union SplitPcs

(***************************************************************************)
(* Every key in an indexed entry is where lookups for it go, and in one    *)
(* slot only: Get, Update and Remove never miss a stored key, and splits   *)
(* move the right half under the right index key.                          *)
(***************************************************************************)
Routed ==
  Serving =>
    \A a \in Indexed, i \in Slots :
      nvm[a].key[i] # 0 =>
        /\ Route(nvm[a].key[i]) = a
        /\ \A j \in Slots : nvm[a].key[j] = nvm[a].key[i] => j = i

(***************************************************************************)
(* Between calls the list in NVM visits exactly the indexed entries, in    *)
(* the order of their index keys: what Scan follows and Recover reads is   *)
(* what lookups use.                                                       *)
(***************************************************************************)
ListMatchesIndex ==
  pc = "idle" =>
    LET list == List(nvm)
        used == {n \in 0..MaxEntries : list[n] # Null}
        Key(a) == CHOOSE m \in IndexKeys : index[m] = a
    IN /\ {list[n] : n \in used} = Indexed
       /\ list[MaxEntries] = Null
       /\ \A n, m \in used : n < m => Key(list[n]) < Key(list[m])

\* x and y differ in values that lie in another line than their key at most.
SameButStraddling(x, y) ==
  /\ x.next = y.next /\ x.min = y.min /\ x.flag = y.flag /\ x.key = y.key
  /\ \A i \in Slots : ~Straddles(i) => x.val[i] = y.val[i]

(***************************************************************************)
(* Between calls all of NVM is durable, but for the values that do not lie *)
(* in the line of their key: one clflush per MaybePut, Update and Remove   *)
(* and the order of flushes in splitEntry are enough for everything else.  *)
(***************************************************************************)
IdleDurable ==
  pc = "idle" =>
    \A a \in Addr : \A l \in Lines : \A x \in dur[a][l] :
      SameButStraddling(x, OnLine(nvm[a], l))

\* A restart finds a list that Recover can index.
RecoverDefined == pc # "undefined"

\* splitEntry's new entry is not one that the tree already uses.
FreshEntry ==
  [][pc = "insert" /\ pc' = "split_flag" => op'.new \notin Indexed]_vars

\* Every call that is not cut off by a power failure returns: a split
\* always makes room for the key that caused it.
CallReturns == pc \notin {"idle", "off", "undefined"} ~> pc \in {"idle", "off"}

(***************************************************************************)
(* The tree implements KvStore.  Its map is what Get returns; BulkLoad     *)
(* takes effect when it returns.                                           *)
(***************************************************************************)
OpKeys == CASE op.call = "none" -> {}
            [] op.call = "bulk" -> {op.bulk[i][1] : i \in 1..Len(op.bulk)}
            [] OTHER -> {op.k}
OpVal == IF op.call = "bulk" THEN op.bulk[1][2] ELSE op.v

Kv == INSTANCE KvStore WITH
  dict <- [k \in Keys |-> IF op.call = "bulk" THEN 0 ELSE Get(k)],
  req  <- [k \in OpKeys |-> [old |-> op.old, new |-> OpVal]],
  up   <- pc # "off"

\* Every call takes effect exactly once and survives a power failure.
ImplementsKvStore == Kv!KvSpec

(***************************************************************************)
(* The keys whose pair lies in two lines, of which the flush that ends     *)
(* MaybePut and Update makes only the key's durable.                       *)
(***************************************************************************)
Fragile ==
  {k \in Keys : \/ Found(k) /\ Straddles(FirstSlot(nvm[Route(k)], k))
                \/ op.call = "remove" /\ k = op.k /\ Straddles(op.i)}

(***************************************************************************)
(* Every call takes effect exactly once, and what it did to every key but  *)
(* the fragile ones survives a power failure; an interrupted call has      *)
(* happened or not.                                                        *)
(***************************************************************************)
ImplementsFragileKv == Kv!KvInit /\ [][Kv!KvNextBut(Fragile)]_(Kv!kvVars)

\* ImplementsKvStore for the set of keys alone: the abstract values are 0 and 1.
KvKeys == INSTANCE KvStore WITH
  dict <- [k \in Keys |-> IF op.call = "bulk" \/ ~Found(k) THEN 0 ELSE 1],
  req  <- [k \in OpKeys |-> [old |-> IF op.call \in {"update", "remove"} THEN 1 ELSE 0,
                              new |-> IF op.call = "remove" THEN 0 ELSE 1]],
  up   <- pc # "off"

\* No acknowledged key is lost, and no removed key comes back.
KeysSurvive == KvKeys!KvSpec
=============================================================================
