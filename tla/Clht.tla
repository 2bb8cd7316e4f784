------------------------------- MODULE Clht -------------------------------
(***************************************************************************)
(* CLHT, the concurrent hash table under SW-Table: threads that get        *)
(* without locks, put, update and remove under the lock of a bin, and      *)
(* resize the table while the others go on.                                *)
(*                                                                         *)
(* One step is one access to memory that other threads may change, except  *)
(* that a thread which holds the lock of a bin reads its chain in the step *)
(* of its first store, and releases the lock in the step of its last.      *)
(* Values are not 0.                                                       *)
(*                                                                         *)
(* CLHT_HELP_RESIZE, CLHT_DO_CHECK_STATUS and CLHT_DO_GC are 0, as in      *)
(* clht_lb_res.h: only a put calls ht_status, which then ignores           *)
(* status_lock.  Old tables go to ssmem, which is taken to free nothing    *)
(* that a thread may still read.                                           *)
(***************************************************************************)
EXTENDS Integers, Sequences, FiniteSets

CONSTANTS
  NumThreads,
  Keys,
  Builds,             \* what clht_lb_res.h sets and clht_create is given, and the calls
  FreshValues,        \* no value is stored twice
  MaxCalls            \* bound on the calls of each thread

Threads == 1..NumThreads

ASSUME ClhtAssumption ==
  /\ NumThreads \in Nat \ {0} /\ Keys \subseteq Nat \ {0} /\ MaxCalls \in Nat
  /\ \A bd \in Builds :
       /\ bd.EntriesPerBucket \in Nat \ {0} /\ bd.InitBuckets \in Nat \ {0}
       /\ {bd.PercFullHalve, bd.MaxBucketSize} \subseteq Nat
       /\ {bd.RatioHalve, bd.OccupAfterRes} \subseteq Nat \ {0}
       /\ bd.Preload \in Seq(Keys) /\ bd.keys \subseteq Keys
       /\ \A i, j \in DOMAIN bd.Preload : bd.Preload[i] = bd.Preload[j] => i = j
       /\ bd.ops \in [Threads -> SUBSET {"get", "put", "update", "remove"}]
  /\ FreshValues \in BOOLEAN

VARIABLES
  build,        \* the one of this run, never changed
  tables,       \* all tables ever made; h->ht is one of them
  ht,           \* its number
  resize_lock,
  th,           \* each thread's call and locals
  calls,        \* how many calls each thread has made
  seen          \* history: the values that the key of a call had since it began

vars == <<build, tables, ht, resize_lock, th, calls, seen>>

EntriesPerBucket == build.EntriesPerBucket   \* ENTRIES_PER_BUCKET
InitBuckets == build.InitBuckets             \* num_buckets of clht_create
PercFullHalve == build.PercFullHalve         \* CLHT_PERC_FULL_HALVE
RatioHalve == build.RatioHalve               \* CLHT_RATIO_HALVE
OccupAfterRes == build.OccupAfterRes         \* CLHT_OCCUP_AFTER_RES
MaxBucketSize == build.MaxBucketSize         \* MAX_BUCKET_SIZE
Preload == build.Preload                     \* the keys that are put before the run, in order
E == EntriesPerBucket

-----------------------------------------------------------------------------
(* Tables.  A chain is the sequence of its slots, E per bucket. *)

Hash(k, n) == k % n
Chain(tab, k) == tab.chain[Hash(k, tab.n)]

Slot == [key |-> 0, val |-> 0]
Bucket == CHOOSE c \in [1..E -> {Slot}] : TRUE   \* the only one: E empty slots

NewTable(n) ==
  [n |-> n, chain |-> [b \in 0..(n - 1) |-> Bucket], lock |-> [b \in 0..(n - 1) |-> "free"],
   new |-> 0, expands |-> 0]

\* num_expands_threshold, with CLHT_PERC_EXPANSIONS = 1.
Threshold(n) == n

Has(c, k) == \E i \in DOMAIN c : c[i].key = k
First(c, k) == CHOOSE i \in DOMAIN c : c[i].key = k /\ \A j \in 1..(i - 1) : c[j].key # k

\* The value of key k in a table, and in the current one; 0 if absent.
Lookup(tab, k) ==
  LET c == Chain(tab, k) IN IF Has(c, k) THEN c[First(c, k)].val ELSE 0
Contents(k) == Lookup(tables[ht], k)

\* clht_bucket_create: the vals of the new bucket are not initialised, and
\* no thread uses a val without having found its key beside it.
WithBucket(c, k, v) == c \o [Bucket EXCEPT ![1] = [key |-> k, val |-> v]]

\* clht_put_seq.
PutSeq(tab, k, v) ==
  LET b == Hash(k, tab.n)
      c == tab.chain[b]
  IN IF Has(c, 0)
     THEN [tab EXCEPT !.chain[b][First(c, 0)] = [key |-> k, val |-> v]]
     ELSE [tab EXCEPT !.chain[b] = WithBucket(c, k, v), !.expands = @ + 1]

\* clht_put_seq of the pairs of a sequence of slots, in order; a slot without
\* a key is passed over.
PutSlot(tab, s) == IF s.key = 0 THEN tab ELSE PutSeq(tab, s.key, s.val)
PutAll(tab, c) ==
  LET after[i \in 0..Len(c)] == IF i = 0 THEN tab ELSE PutSlot(after[i - 1], c[i])
  IN after[Len(c)]

\* bucket_cpy, increasing or not: all slots of a chain but those of the
\* buckets that active elimination drops.
BucketOf(i) == (i - 1) \div E
CopyChain(new, c, drop) ==
  PutAll(new, [i \in DOMAIN c |-> IF BucketOf(i) \in drop THEN Slot ELSE c[i]])

\* Buckets that bucket_cpy may drop when the table shrinks: two keys or more
\* and not read for a while.  Readers set the time without a lock, in 24
\* bits, and new buckets have none, so any of them may be old enough.
Droppable(c) ==
  {d \in 0..(Len(c) \div E - 1) :
     Cardinality({i \in DOMAIN c : BucketOf(i) = d /\ c[i].key # 0}) >= 2}

\* Keys in the table.
Longest(tab) == (tab.expands + 1) * E
Size(tab) ==
  Cardinality({p \in (0..(tab.n - 1)) \X (1..Longest(tab)) :
                 p[2] \in DOMAIN tab.chain[p[1]] /\ tab.chain[p[1]][p[2]].key # 0})

\* pow2roundup: the least power of two that is not below x.
pow2roundup(x) ==
  LET up[y \in 0..x] == IF y <= 1 THEN 1 ELSE 2 * up[(y + 1) \div 2]
  IN up[x]

\* pow2roundup(full_ratio / CLHT_OCCUP_AFTER_RES), at least 2.
GrowBy(tab) ==
  LET inc_by_pow2 == pow2roundup((100 * Size(tab)) \div (tab.n * E * OccupAfterRes))
  IN IF inc_by_pow2 = 1 THEN 2 ELSE inc_by_pow2

-----------------------------------------------------------------------------
(* Threads. *)

Idle ==
  [pc |-> "idle", op |-> "none", k |-> 0, v |-> 0, tbl |-> 0, bin |-> 0, pos |-> 0,
   val |-> 0, res |-> 0, eff |-> FALSE, again |-> FALSE, by |-> 0, new |-> 0]

At(t, pc) == th[t].pc = pc
Tab(t) == tables[th[t].tbl]
MyBin(t) == Hash(th[t].k, Tab(t).n)
MyChain(t) == Chain(Tab(t), th[t].k)

\* The puts before the run, by one thread.
Preloaded ==
  PutAll(NewTable(InitBuckets),
         [i \in DOMAIN Preload |->
            [key |-> Preload[i],
             val |-> IF FreshValues THEN NumThreads * MaxCalls + Preload[i] ELSE Preload[i]]])

Init ==
  /\ build \in Builds
  /\ tables = <<Preloaded>> /\ ht = 1 /\ resize_lock = FALSE
  /\ th = [t \in Threads |-> Idle]
  /\ calls = [t \in Threads |-> 0]
  /\ seen = [t \in Threads |-> {}]

\* The history: part of every step.
Watch ==
  seen' = [t \in Threads |-> IF th'[t].pc = "idle" THEN {}
                             ELSE seen[t] \cup {Lookup(tables'[ht'], th'[t].k)}]

Become(t, r) == th' = [th EXCEPT ![t] = r]
Goto(t, pc) == Become(t, [th[t] EXCEPT !.pc = pc])
Answer(t, res) == [th[t] EXCEPT !.pc = "done", !.res = res]

\* Stores to the bin of t's key: its chain, and the lock is released.
\* Faulty: the lock of the bin is not released.
SetChainKeepsLock(t, c) == tables' = [tables EXCEPT ![th[t].tbl].chain[MyBin(t)] = c]
SetChain(t, c) ==
  tables' = [tables EXCEPT ![th[t].tbl].chain[MyBin(t)] = c,
                           ![th[t].tbl].lock[MyBin(t)] = "free"]
Release(t) == tables' = [tables EXCEPT ![th[t].tbl].lock[MyBin(t)] = "free"]

Value(t, k) == IF FreshValues THEN NumThreads * calls[t] + t ELSE k

Call(t, op, k) ==
  /\ At(t, "idle") /\ calls[t] < MaxCalls
  /\ calls' = [calls EXCEPT ![t] = @ + 1]
  /\ Become(t, [Idle EXCEPT !.pc = CASE op = "get" -> "get" [] op = "update" -> "lock" [] OTHER -> "exists",
                            !.op = op, !.k = k, !.v = IF op \in {"put", "update"} THEN Value(t, k) ELSE 0,
                            !.tbl = ht, !.bin = Hash(k, tables[ht].n), !.pos = 1])
  /\ UNCHANGED <<tables, ht, resize_lock>>
  /\ Watch

Return(t) ==
  /\ At(t, "done")
  /\ Become(t, Idle)
  /\ UNCHANGED <<tables, ht, resize_lock, calls>>
  /\ Watch

-----------------------------------------------------------------------------
(* clht_get: val, key and val again, slot by slot, without a lock. *)

GetVal(t) ==
  /\ At(t, "get")
  /\ IF th[t].pos \in DOMAIN MyChain(t)
     THEN Become(t, [th[t] EXCEPT !.pc = "get_key", !.val = MyChain(t)[th[t].pos].val])
     ELSE Become(t, Answer(t, 0))
  /\ UNCHANGED <<tables, ht, resize_lock, calls>>
  /\ Watch

\* Faulty: the val read before the key is taken for the key's.
GetKeyTrusting(t) ==
  /\ At(t, "get_key")
  /\ IF MyChain(t)[th[t].pos].key = th[t].k
     THEN Become(t, Answer(t, th[t].val))
     ELSE Become(t, [th[t] EXCEPT !.pc = "get", !.pos = @ + 1])
  /\ UNCHANGED <<tables, ht, resize_lock, calls>>
  /\ Watch

GetKey(t) ==
  /\ At(t, "get_key")
  /\ IF MyChain(t)[th[t].pos].key = th[t].k
     THEN Goto(t, "get_again")
     ELSE Become(t, [th[t] EXCEPT !.pc = "get", !.pos = @ + 1])
  /\ UNCHANGED <<tables, ht, resize_lock, calls>>
  /\ Watch

GetAgain(t) ==
  /\ At(t, "get_again")
  /\ Become(t, Answer(t, IF MyChain(t)[th[t].pos].val = th[t].val THEN th[t].val ELSE 0))
  /\ UNCHANGED <<tables, ht, resize_lock, calls>>
  /\ Watch

-----------------------------------------------------------------------------
(* put, update and remove. *)

\* bucket_exists, slot by slot and without a lock: a put ends if it finds
\* the key, a remove if it does not (CLHT_READ_ONLY_FAIL).
Exists(t) ==
  /\ At(t, "exists")
  /\ IF th[t].pos \in DOMAIN MyChain(t)
     THEN IF MyChain(t)[th[t].pos].key = th[t].k
          THEN Become(t, IF th[t].op = "put" THEN Answer(t, 0) ELSE [th[t] EXCEPT !.pc = "lock"])
          ELSE Become(t, [th[t] EXCEPT !.pos = @ + 1])
     ELSE Become(t, IF th[t].op = "put" THEN [th[t] EXCEPT !.pc = "lock"] ELSE Answer(t, 0))
  /\ UNCHANGED <<tables, ht, resize_lock, calls>>
  /\ Watch

\* lock_acq_chk_resize: spin while another thread updates the bin.
LockAcq(t) ==
  /\ At(t, "lock")
  /\ \/ /\ Tab(t).lock[MyBin(t)] = "free"
        /\ tables' = [tables EXCEPT ![th[t].tbl].lock[MyBin(t)] = "update"]
        /\ Goto(t, "locked")
     \/ /\ Tab(t).lock[MyBin(t)] = "resize"
        /\ Goto(t, "wait")
        /\ UNCHANGED tables
  /\ UNCHANGED <<ht, resize_lock, calls>>
  /\ Watch

\* The bin has been copied: wait for the new table, then start over in h->ht.
\* th[t].bin, the bin in the first table, is not assigned again: the loops
\* declare a bin of their own.
WaitForNew(t) ==
  /\ At(t, "wait") /\ Tab(t).new # 0
  /\ Become(t, [th[t] EXCEPT !.pc = "lock", !.tbl = ht])
  /\ UNCHANGED <<tables, ht, resize_lock, calls>>
  /\ Watch

Update(t) ==
  /\ At(t, "locked") /\ th[t].op = "update"
  /\ LET c == MyChain(t)
         k == th[t].k
     IN IF Has(c, k)
        THEN /\ SetChain(t, [c EXCEPT ![First(c, k)].val = th[t].v])
             /\ Become(t, [Answer(t, 1) EXCEPT !.eff = TRUE])
        ELSE Release(t) /\ Become(t, Answer(t, 0))
  /\ UNCHANGED <<ht, resize_lock, calls>>
  /\ Watch

Remove(t) ==
  /\ At(t, "locked") /\ th[t].op = "remove"
  /\ LET c == MyChain(t)
         k == th[t].k
     IN IF Has(c, k)
        THEN /\ SetChain(t, [c EXCEPT ![First(c, k)].key = 0])
             /\ Become(t, [Answer(t, c[First(c, k)].val) EXCEPT !.eff = TRUE])
        ELSE Release(t) /\ Become(t, Answer(t, 0))
  /\ UNCHANGED <<ht, resize_lock, calls>>
  /\ Watch

\* Faulty: any bucket beyond the threshold calls ht_status.
TriggersAgain(tab) == tab.expands + 1 >= Threshold(tab.n)

\* The bucket that makes num_expands equal to the threshold.
Triggers(tab) == tab.expands + 1 = Threshold(tab.n)

\* Faulty: the key is not looked for again under the lock.
PutUnchecked(t) ==
  /\ At(t, "locked") /\ th[t].op = "put"
  /\ LET c == MyChain(t)
         k == th[t].k
     IN \/ /\ Has(c, 0)
           /\ tables' = [tables EXCEPT ![th[t].tbl].chain[MyBin(t)][First(c, 0)].val = th[t].v]
           /\ Become(t, [th[t] EXCEPT !.pc = "put_key", !.pos = First(c, 0)])
        \/ /\ ~Has(c, 0)
           /\ tables' = [tables EXCEPT ![th[t].tbl].chain[MyBin(t)] = WithBucket(c, k, th[t].v),
                                       ![th[t].tbl].lock[MyBin(t)] = "free",
                                       ![th[t].tbl].expands = @ + 1]
           /\ Become(t, [Answer(t, 1) EXCEPT !.eff = TRUE,
                                             !.pc = IF Triggers(Tab(t)) THEN "status" ELSE "done"])
  /\ UNCHANGED <<ht, resize_lock, calls>>
  /\ Watch

\* The key is there after all; or its value goes to the first empty slot; or
\* a new bucket with the pair is linked, and ht_status may follow.
Put(t) ==
  /\ At(t, "locked") /\ th[t].op = "put"
  /\ LET c == MyChain(t)
         k == th[t].k
     IN \/ Has(c, k) /\ Release(t) /\ Become(t, Answer(t, 0))
        \/ /\ ~Has(c, k) /\ Has(c, 0)
           /\ tables' = [tables EXCEPT ![th[t].tbl].chain[MyBin(t)][First(c, 0)].val = th[t].v]
           /\ Become(t, [th[t] EXCEPT !.pc = "put_key", !.pos = First(c, 0)])
        \/ /\ ~Has(c, k) /\ ~Has(c, 0)
           /\ tables' = [tables EXCEPT ![th[t].tbl].chain[MyBin(t)] = WithBucket(c, k, th[t].v),
                                       ![th[t].tbl].lock[MyBin(t)] = "free",
                                       ![th[t].tbl].expands = @ + 1]
           /\ Become(t, [Answer(t, 1) EXCEPT !.eff = TRUE,
                                             !.pc = IF Triggers(Tab(t)) THEN "status" ELSE "done"])
  /\ UNCHANGED <<ht, resize_lock, calls>>
  /\ Watch

PutKey(t) ==
  /\ At(t, "put_key")
  /\ SetChain(t, [MyChain(t) EXCEPT ![th[t].pos].key = th[t].k])
  /\ Become(t, [Answer(t, 1) EXCEPT !.eff = TRUE])
  /\ UNCHANGED <<ht, resize_lock, calls>>
  /\ Watch

-----------------------------------------------------------------------------
(* ht_status: count, then shrink, grow or evict.  The count, which takes no *)
(* locks, is one step.                                                      *)

Sparse(tab) == Size(tab) > 0 /\ 100 * Size(tab) < PercFullHalve * tab.n * E

Status(t) ==
  /\ At(t, "status")
  /\ LET tab == tables[ht] IN
     \/ /\ Sparse(tab)
        /\ Become(t, [th[t] EXCEPT !.pc = "resize", !.by = 0])
     \/ /\ ~Sparse(tab) /\ Size(tab) < MaxBucketSize
        /\ Become(t, [th[t] EXCEPT !.pc = "resize", !.by = GrowBy(tab)])
     \/ /\ ~Sparse(tab) /\ Size(tab) >= MaxBucketSize /\ ~th[t].again
        /\ Become(t, [th[t] EXCEPT !.pc = "evict", !.tbl = ht])
     \/ /\ ~Sparse(tab) /\ Size(tab) >= MaxBucketSize /\ th[t].again
        /\ Goto(t, "done")
  /\ UNCHANGED <<tables, ht, resize_lock, calls>>
  /\ Watch

\* ht_resize_pes: h->ht is read before resize_lock is taken.
ResizeRead(t) ==
  /\ At(t, "resize")
  /\ Become(t, [th[t] EXCEPT !.pc = "resize_try", !.tbl = ht])
  /\ UNCHANGED <<tables, ht, resize_lock, calls>>
  /\ Watch

ResizeTry(t) ==
  /\ At(t, "resize_try")
  /\ \/ /\ resize_lock
        /\ Goto(t, "done")
        /\ UNCHANGED <<tables, resize_lock>>
     \/ /\ ~resize_lock /\ resize_lock' = TRUE
        /\ LET n == IF th[t].by = 0 THEN Tab(t).n \div RatioHalve ELSE th[t].by * Tab(t).n
           IN tables' = Append(tables, NewTable(n))
        /\ Become(t, [th[t] EXCEPT !.pc = "copy", !.new = Len(tables) + 1, !.pos = 0])
  /\ UNCHANGED <<ht, calls>>
  /\ Watch

\* Faulty: the bin is copied without its lock.
CopyBinUnlocked(t) ==
  /\ At(t, "copy") /\ th[t].pos < Tab(t).n
  /\ tables' = [tables EXCEPT ![th[t].new] = CopyChain(@, Tab(t).chain[th[t].pos], {})]
  /\ Become(t, [th[t] EXCEPT !.pos = @ + 1])
  /\ UNCHANGED <<ht, resize_lock, calls>>
  /\ Watch

\* One bin: lock_acq_resize and bucket_cpy, whose result nobody looks at.
\* A resize after a resize passes the time 0, for which no bucket is too old.
CopyBin(t) ==
  /\ At(t, "copy") /\ th[t].pos < Tab(t).n
  /\ LET b == th[t].pos
         c == Tab(t).chain[b]
     IN \/ /\ Tab(t).lock[b] = "free"
           /\ \E drop \in IF th[t].by = 0 /\ ~th[t].again THEN SUBSET Droppable(c) ELSE {{}} :
                tables' = [tables EXCEPT ![th[t].tbl].lock[b] = "resize",
                                         ![th[t].new] = CopyChain(@, c, drop)]
        \/ Tab(t).lock[b] = "resize" /\ UNCHANGED tables
  /\ Become(t, [th[t] EXCEPT !.pos = @ + 1])
  /\ UNCHANGED <<ht, resize_lock, calls>>
  /\ Watch

\* SWAP_U64; ht_resize_again is known before.
Swap(t) ==
  /\ At(t, "copy") /\ th[t].pos = Tab(t).n
  /\ ht' = th[t].new
  /\ LET new == tables[th[t].new]
     IN Become(t, [th[t] EXCEPT !.pc = "publish", !.again = new.expands >= Threshold(new.n)])
  /\ UNCHANGED <<tables, resize_lock, calls>>
  /\ Watch

Publish(t) ==
  /\ At(t, "publish")
  /\ tables' = [tables EXCEPT ![th[t].tbl].new = th[t].new]
  /\ resize_lock' = FALSE
  /\ Goto(t, IF th[t].again THEN "status" ELSE "done")
  /\ UNCHANGED <<ht, calls>>
  /\ Watch

\* Passive elimination, in the chain of th[t].bin: lock it.  The bin is that of the table
\* the put began with; where the current one is smaller, the code takes a bucket behind
\* its end and the model stops here, which CallsReturn would show,
EvictLock(t) ==
  /\ At(t, "evict") /\ th[t].bin < Tab(t).n
  /\ \/ /\ Tab(t).lock[th[t].bin] = "free"
        /\ tables' = [tables EXCEPT ![th[t].tbl].lock[th[t].bin] = "update"]
        /\ Goto(t, "evict_keys")
     \/ /\ Tab(t).lock[th[t].bin] = "resize" /\ Tab(t).new # 0
        /\ Become(t, [th[t] EXCEPT !.tbl = ht])
        /\ UNCHANGED tables
  /\ UNCHANGED <<ht, resize_lock, calls>>
  /\ Watch

\* and clear the keys of one bucket: the one with the lowest time and hops,
\* which readers set without a lock and new buckets do not initialise.  The
\* stores of one bucket are one step: readers take no other key for theirs.
EvictKeys(t) ==
  /\ At(t, "evict_keys")
  /\ LET c == Tab(t).chain[th[t].bin] IN
     \E d \in 0..(Len(c) \div E - 1) :
       tables' = [tables EXCEPT
         ![th[t].tbl].chain[th[t].bin] =
           [i \in DOMAIN c |-> IF BucketOf(i) = d THEN [c[i] EXCEPT !.key = 0] ELSE c[i]],
         ![th[t].tbl].lock[th[t].bin] = "free"]
  /\ Goto(t, "done")
  /\ UNCHANGED <<ht, resize_lock, calls>>
  /\ Watch

-----------------------------------------------------------------------------

Step(t) ==
  \/ GetVal(t) \/ GetKey(t) \/ GetAgain(t)
  \/ Exists(t) \/ LockAcq(t) \/ WaitForNew(t)
  \/ Update(t) \/ Remove(t) \/ Put(t) \/ PutKey(t)
  \/ Status(t) \/ ResizeRead(t) \/ ResizeTry(t) \/ CopyBin(t) \/ Swap(t) \/ Publish(t)
  \/ EvictLock(t) \/ EvictKeys(t)
  \/ Return(t)

Next ==
  /\ \E t \in Threads : Step(t) \/ \E op \in build.ops[t], k \in build.keys : Call(t, op, k)
  /\ UNCHANGED build

\* A running thread keeps running.
Spec == Init /\ [][Next]_vars /\ \A t \in Threads : WF_vars(Step(t) /\ UNCHANGED build)

-----------------------------------------------------------------------------
(* Properties. *)

Pcs == {"idle", "get", "get_key", "get_again", "exists", "lock", "wait", "locked", "put_key",
        "status", "resize", "resize_try", "copy", "publish", "evict", "evict_keys", "done"}

\* Types; a table has at least one bin, and counts its extra buckets.
TypeOK ==
  /\ ht \in DOMAIN tables /\ resize_lock \in BOOLEAN
  /\ \A i \in DOMAIN tables :
       LET tab == tables[i] IN
       /\ tab.n \in Nat \ {0} /\ tab.new \in 0..Len(tables)
       /\ DOMAIN tab.chain = 0..(tab.n - 1)
       /\ tab.lock \in [0..(tab.n - 1) -> {"free", "update", "resize"}]
       /\ \A b \in 0..(tab.n - 1) : Len(tab.chain[b]) % E = 0 /\ Len(tab.chain[b]) <= (tab.expands + 1) * E
  /\ \A t \in Threads : th[t].pc \in Pcs /\ th[t].k \in Keys \cup {0} /\ calls[t] \in 0..MaxCalls

\* In every table each key is in the bin that lookups go to, and in one slot.
OneSlotPerKey ==
  \A i \in DOMAIN tables : \A b \in 0..(tables[i].n - 1) :
    LET c == tables[i].chain[b] IN
    \A p \in DOMAIN c : c[p].key # 0 =>
      Hash(c[p].key, tables[i].n) = b /\ \A q \in DOMAIN c : c[q].key = c[p].key => q = p

\* Both: the tables are well formed.
WellFormed == TypeOK /\ OneSlotPerKey

(***************************************************************************)
(* The answer of a call fits a moment of the call.  A get returns a value  *)
(* that its key had during the call, and misses only if the key was absent *)
(* or changed; put fails only if the key was there, update and remove only *)
(* if it was not; all through concurrent removes, reuse of slots and       *)
(* resizes.                                                                *)
(***************************************************************************)
AnswersFit ==
  \A t \in Threads : At(t, "done") =>
    LET r == th[t] IN
    CASE r.op = "get" -> IF r.res = 0 THEN 0 \in seen[t] \/ Cardinality(seen[t]) > 1
                         ELSE r.res \in seen[t]
      [] r.op = "put" -> r.res = 0 => seen[t] # {0}
      [] r.op = "remove" -> r.res \in seen[t]
      [] r.op = "update" -> r.res = 0 => 0 \in seen[t]

\* A resize that grows the table neither loses nor changes a key, whoever
\* puts, updates and removes in the meantime.
GrowthKeepsKeys ==
  [][(\E t \in Threads : Swap(t) /\ th[t].by # 0) => \A k \in Keys : Contents(k)' = Contents(k)]_vars

\* Every call returns: no thread waits for a lock or a new table forever.
CallsReturn == \A t \in Threads : th[t].pc # "idle" ~> th[t].pc = "idle"

CurrentMap == [k \in Keys |-> Contents(k)]
Request(t) ==
  IF At(t, "idle") THEN [op |-> "none", key |-> 0, val |-> 0, done |-> FALSE]
  ELSE [op |-> th[t].op, key |-> th[t].k, val |-> th[t].v, done |-> th[t].eff]

C == INSTANCE Cache WITH map <- CurrentMap, req <- [t \in Threads |-> Request(t)]

\* CLHT implements the cache: put, update and remove take effect once, at one
\* moment, and otherwise entries only disappear.
ImplementsCache == C!CacheSpec

\* Passive elimination works on the chain that the put made longer.
EvictsPutChain ==
  \A t \in Threads : th[t].pc \in {"evict", "evict_keys"} => th[t].bin = MyBin(t)
=============================================================================
