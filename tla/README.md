# Verification of EPLI

EPLI is a persistent index for non-volatile memory (NVM). This directory models in TLA+ its tree (EPL-Tree),
its facade with the cache in front of the tree (SW-Table), the concurrent hash table under that cache (CLHT) and the learned
index under the tree (ALEX); and, of the indexes the repository compares EPLI with, LB+Tree, uTree and the data
node of APEX. TLC checks the models, TLAPS proves theorems about the tree (its scans, and power failures too), the facade, CLHT and the leaf of ALEX.

## 1. Inventory

| Part | State it keeps | Operations | What makes it correct |
|---|---|---|---|
| **EPL-Tree** `src/src/epltree.h` | an ALEX index in DRAM (key -> entry), a list of entries in NVM | `BulkLoad`, `Insert`, `Update`, `Remove`, `Get`, `Scan`, `RangeScan`, `Recover`, private `splitEntry` | lookups find every stored key; a call takes effect once; the list and the index agree; what was acknowledged survives a power failure |
| **Entry** `src/src/entry.h` | `next`, `min_key`, `flag`, 14 unsorted pairs; 256 bytes of NVM in 4 lines | constructors, `setOrderedKVs`, `Get`, `MaybePut`, `Update`, `Remove`, `setPersistFlag` | stores and flushes leave no torn pair |
| **MetaData** `src/src/entry.h` (`USE_BITMAP`, `USE_FGPT`) | a bitmap and fingerprints in DRAM for each entry | `set_bitmap`, `find_first_zero`, `reset_half_bitmap` | the bitmap says which slots hold keys |
| **DataList** `src/src/datalist.h` | the head of the list | `Init`, `Head`, destructor | the head is the first block of the pool, before and after a restart |
| **NVM allocator** `nvm_alloc.h`, `enviroment.cc` | `current_addr`, `used_`, `freed_` | `alloc`, `alloc_aligned`, `Free` | blocks that are in use do not overlap |
| **Flushes** `src/src/pmem.h`, `NVM::Mem_persist` | none | `clflush`, `fence`, `Mem_persist` | |
| **ALEX data node** `include/alex/alex_nodes.h` (vendored, changed for EPLI) | a gapped sorted array with a bitmap and a linear model | bulk load, searches, insert with shifts, expand, contract, split off a part, erase, expected costs | gaps never mislead a search; a sorted multimap |
| **ALEX tree** `include/alex/alex.h` | model nodes over a chain of data nodes; domain and counters of keys outside of it | `bulk_load`, `insert` with every kind of split, `erase` with merges, `expand_root`, lookups, iteration, `clear` | each key is in the leaf that lookups reach; chain and pointers agree |
| **EPLI facade, SW-Table** `epli.h`, `swtable.h` | `table_on`, `hit_cnt`, `tot_get`, a hash table that caches hot keys | `Put`, `Update`, `Get`, `Remove`, `Reset` | a hit returns what the tree holds |
| **CLHT** `clht_lb_res.cc`, `clht_gc.cc` | buckets with locks, version pointers, logical times | put, get, update, remove, resize, garbage collection | linearizable; no key lost by a resize |
| **ssmem** `ssmem.cc` | allocators, free sets, time stamps | alloc, free, collect | nothing is reused while a thread reads it |
| **LB+Tree** `lbtree.cc`, `include/lbtree` (baseline) | inner nodes in DRAM; leaves in NVM with bitmap, fingerprints, two alternating `next` pointers; lock bits | `bulkload`, `lookup`/`find`, `insert`, `update`, `del`, `rangeScan` | transactions that meet no lock bit see the truth; any failure leaves a usable leaf list |
| **uTree** `include/utree/utree.h` (baseline) | a B-link tree of pages in DRAM over a sorted list in NVM | `insert`, `search`, `remove`, `scan` | readers without locks find what a split moves; the list has the leaves' keys |
| **APEX** `include/apex` (baseline) | records in NVM: array, stash, overflow blocks, logs; bitmaps, fingerprints, fingers, partition locks in DRAM | insert, erase, update, search, range scan, resize with its log, recovery; the tree above the nodes with its splits | finished calls survive; DRAM mirrors NVM; no block leaks |
| **FAST&FAIR** `include/fast-fair/btree.h` | | | the whole file is commented out |
| Benchmarks, workloads | | | drivers only |

Interaction: the facade calls the tree (and in the `USE_SWTABLE` build the table in front of it); the
tree routes a key through ALEX to an entry, changes the entry in place, flushes one line, and splits
a full entry, which takes memory from `data_alloc`. After a restart `EPLTree(true)` and `Recover`
rebuild the index from the list that is in NVM. One thread calls the tree: it takes no locks. CLHT is
built for many threads: they meet in its bins, in `h->ht` and in `resize_lock`. The baselines stand beside EPLI and share
nothing with it but the benchmark drivers that call them, with several threads in `tests/multi_bench.cc`.

What is hard here: the order of stores and flushes against a power failure; the four places that must
agree about a split (new entry, its `min_key`, its index key, what is left in the old entry); the
difference between the index key of an entry and its `min_key`; the fallback of the index lookup for keys
below the smallest index key; a recursive `Insert` that ends only if a split makes room; a cache that must
follow the tree while it is closed, too; lock-free reads of slots that are reused; a resize that copies bins
while others change them, started by whoever reads `h->ht` before it holds the lock. In ALEX: shifts and expansions that must
keep every gap's key right, splits that must keep pointers, duplication factors and chain together, a domain that grows on either side.
In the baselines: readers beside a split whose separator is not in the parent yet, locks taken in different orders by inserts, removals
and scans, DRAM that finds records before or after they are durable, logs that are replayed.
`PROJECT.json` lists these hazards at their lines.

## 2. Modules

| Module | What it is |
|---|---|
| `Entry` | an entry's layout, contents and stores, and what each of its cache lines may hold after a crash |
| `EplTree` | the tree: every operation that changes state in the default build, power failures and restarts |
| `KvStore` | the abstract specification: a map whose calls take effect once and survive power failures |
| `EplScan` | `Scan` and `RangeScan`, evaluated in every state of `EplTree` against the stored pairs |
| `EplTreeProofs`, `EplTreeKvProofs` | theorems about `EplTree` with their proofs: its invariants; the list and the refinement of `KvStore` |
| `EplCrashProofs` | the same through power failures and restarts |
| `EplScanProofs` | theorems about `EplScan`, on a machine that stays up and through power failures |
| `Epli` | the facade of the `USE_SWTABLE` build: a tree (as the map `EplTree` implements) and a table (as the lossy map `Clht` implements) |
| `EpliProofs` | theorems about `Epli` with their proofs |
| `Clht` | the hash table with concurrent threads, step by step |
| `ClhtProofs`, `ClhtAnswerProofs` | theorems about `Clht` with their proofs: its tables, the refinement of `Cache`, the answers |
| `Cache` | the abstract specification of `Clht`: a map that may forget, whose calls take effect once |
| `AlexDataNode` | a leaf of ALEX: the gapped array, its searches, inserts, resizes, erases and costs |
| `AlexDataNodeProofs` | theorems about `AlexDataNode` with their proofs |
| `Multimap` | the abstract specification of a leaf: per key the payloads in the order of insertion |
| `AlexTree` | the tree of ALEX over leaves that are sets of keys |
| `LBTree` | LB+Tree with concurrent threads, and what NVM may hold at any moment |
| `LinMap` | the abstract specification of `LBTree`: a map each call of a client changes once |
| `UTree` | uTree with concurrent threads; implements `KvStore` |
| `ApexNode` | a data node of APEX with concurrent threads, its replacement step by step, power failures and recovery |
| `DurableMap` | `LinMap` with restarts: finished calls survive, running ones took effect or not |
| `MC...` | values and bounds for TLC |

How they compose: `EplScan` extends `EplTree`, which extends `Entry`. `Epli` uses the tree as the map of `KvStore` (which `EplTree`
refines) and the table as the map of `Cache` (which `Clht` refines). `EplTree` uses ALEX as a sorted multimap with a lookup for
the last key not greater; `AlexTree` shows that lookup (`LookupsExact`) over leaves that are sets, and `AlexDataNode` that a leaf is one
(`ImplementsMultimap`). `DurableMap` extends `LinMap`.

### State and code: the tree

`nvm[a]` is the entry at address `a` as the program reads it, `dur[a][l]` the set of contents that
line `l` of it may have after a power failure. Addresses count the blocks in the order `alloc_aligned`
hands them out: 1 is the head. `index` and `first` are the ALEX index, `cur` is `data_alloc`'s
`current_addr`, `pc` and `op` are the running call with its locals (`op.tmp` is `tmp_kvs`), `img` is NVM while
it settles after a failure.

A call is cut into steps where the code flushes: between two flushes the stores are one step, and
`Wrote` adds every intermediate content of the entry to the set of what each line may hold. That is
equivalent to interleaving each store with cache evictions, at far fewer states.

| Code | Actions |
|---|---|
| `Insert`, `Entry::MaybePut` | `Insert`, then `MaybePut` and `FlushSlot`, or the split below and `MaybePut` again |
| `splitEntry` | `SplitBegin` (sort, construct the new entry, set the flag), `SplitFlag` (flush of the flag, `next` of the new entry), `SplitNew` (persist of the new entry, link, index, rewrite the old entry), `SplitEntry` (persist of the old entry) |
| `Update`, `Remove` | `Update`, `Remove`, then `FlushSlot`; a call for an absent key changes nothing and has no action |
| `BulkLoad` | `BulkLoad`, `BulkHead`, `BulkErase`, then `BulkLink`, `BulkPersist` for each entry, `BulkIndex` |
| power failure | `Crash`, then one `Settle` per entry, which picks one content per line |
| `EPLTree(true)`, `Recover` | `Recover` |
| `Get` | the operator `Get`, which defines the abstract map |

`Scan` and `RangeScan` change nothing, so they are operators. `ScanMiddle` and `RangeMiddle` are the loops over
the middle entries, `ScanEnd` the one over the end entries. Scans start at a stored or absent ordinary key and
ask for at least one pair.

### State and code: the facade

`tree`, `table`, `table_on`, `hit_cnt`, `tot_get` are the fields of `EPLI`; `val` is what the last `Get`
returned. `Put`, `Update`, `Remove` and `Reset` are one action each; `Get` is one of `GetClosed`, `GetHit` and
`GetMiss`, the last two ending with `CountAndMaybeClose`; `Restart` is a new process. `TablePut` may evict any
other entries, because a put may resize or eliminate. `BulkLoad`, `Scan` and `RangeScan` go straight to
the tree and have no action here.

### State and code: CLHT

`tables` holds every `clht_hashtable_t` ever made (`n` is `num_buckets`, `new` is `table_new`, `expands` is
`num_expands`; a bin is the sequence of the slots of its chain, with the lock of its first bucket), `ht` is `h->ht`,
`th` the locals of each thread. `seen` is a history variable: the values the key of a running call has had
since the call began.

| Code | Actions |
|---|---|
| `clht_get` | `GetVal`, `GetKey`, `GetAgain` for each slot: the three reads |
| `bucket_exists` | `Exists`, one slot per step |
| `lock_acq_chk_resize` and the loops around it | `LockAcq`, `WaitForNew` |
| `clht_update`, `clht_remove` | `Update`, `Remove`, with the lock held, to its release |
| `clht_put` | `Put`, and `PutKey` for the second store to an empty slot |
| `ht_status` | `Status`, then a resize or `EvictLock`, `EvictKeys` |
| `ht_resize_pes` | `ResizeRead`, `ResizeTry`, `CopyBin` for each bin, `Swap`, `Publish`, and `Status` again if the new table is already crowded |

### State and code: ALEX

`AlexDataNode`: `node` is a data node (`cap`, the keys and payloads of its slots, the set `bit` of filled ones, `n` is `num_keys_`, its
model and thresholds), `pending` the call in progress and `fail` why its insert was refused. `Call` begins a call; `Insert`, `EraseOne`, `Erase`, `EraseRange` do its work; `Retrain`
and `Split` are what the tree does with a node that refused, before `Insert` tries again. Shifting, gap search, expansion and contraction are
part of these actions, over a bitmap of words of `W` bits. A trained model is any member of `Models`, and a cost is above its threshold or not;
densities are exact, in tenths.

`AlexTree`: `tree` has the nodes by address, the root, the key domain and the counters of keys outside of it; `op` is the call in progress.

| Code | Actions |
|---|---|
| `bulk_load`, `bulk_load_node` | `Load`, `LoadNode` for each node a fanout tree leaves to build, `FinishLoad` |
| `insert` | `Insert` (with `expand_root` when the domain is too small), `LeafInsert`, and `Repair` after each refusal of a leaf: expansion with retraining, `split_downwards`, `split_sideways`, `split_upwards`, or a split by a fanout tree, by `Policies` and `Upwards` |
| `erase`, `erase_one`, `erase(iterator)` | `Erase`, `EraseAt`, with `merge` of an empty leaf |
| `clear` | `clear` |
| `find`, `lower_bound`, `upper_bound`, `find_last_no_greater_than`, iteration, copying | operators, evaluated between the calls |

A linear function is the key where it is 0 and the width of a bucket, in units fine enough for every bucket boundary. What only costs
decide (the fail flag of a leaf, the fanouts) is any choice.

### State and code: LB+Tree

`leaves[l]` is a leaf as the program reads it, `dur[l][i]` the set of contents that line `i` of it may have in NVM; `nodes`, `tree_root` and `root_level` are
in DRAM, the pools hand out leaves and nodes, `th` has the locals of each thread. A hardware transaction is one step that waits while a lock bit on its way is set. Behind
it the stores of a call are steps, and so is each flush of a line; a store adds to what its line may hold, a flush removes the rest.

| Code | Actions |
|---|---|
| `bulkload`, also by several threads | `Init` |
| `insert` | `InsertSearch`; then `Place`, `Flush`, `SetMeta`, or `Split`, `Flush`, `Switch`, `Switched`, then `Up` per level and `NewRoot` |
| `del` | `DelSearch`; then `DelEntry`, or `Unlink`, `Unlinked`, `Down` per level, `Collapse` and `Collapsed` for its two stores |
| `update`, `lookup` and `find` | `UpdateSearch`, `Update`, `Updated`; `Lookup`, `FindRead` |
| `rangeScan` | `ScanSearch`, `ScanLeaf`, `LockSibling`, `Answer` |

### State and code: uTree

`pages` are the pages by address (`level`, `leftmost`, `sibling`, `pred`, `records`, `last_index`), `nodes` the list in NVM, `th` the threads. What a
thread does to one page under its mutex is one step. The descent (`Descend`), the propagation of a split (`StoreLeaf`, `GoUp`, `StoreInner`) and the work on the
list (`Link`, `Cas`, `Retry`; `Find`, `Check`, `Unlink`, `DeleteStep`, `Erase` for `remove`; `Overwrite` for an existing key; `Read`, `NotFound`, `Answer` for `search`)
interleave. `Find` is `linear_search_pred`, `Compare` the second read of the sibling pointer behind it. Shifts within a page, which a reader may see half done, are not cut up. `scan` is an operator.

### State and code: APEX

`nd[g]` is the g-th data node: its slots (`slot`, array and stash), `first`, `P_data_slots_` and `data` (`data_slots_`) are in NVM, its bitmaps, fingerprints, fingers, partition locks and
counters in DRAM. `blk` are the overflow blocks, `heap` what is allocated, `wb`, `fwb` and `lag` the older contents that a location, a `first_block_` or a `data_slots_` may still have on the media, `desc` and `rlog` the
logs, `root` the parent's pointer to the node. A scenario `[load, calls, quota, crashes, keep, lag]` is a bulk load, what each thread may call and how often, the number of power failures, and choices of a resize. Writers
lock partitions, store, flush and then publish in DRAM; readers compare versions. `Crash` keeps or drops each unflushed content and replays the logs; the next call in the new epoch recovers the node (`recover_node` with its
mark of readiness). `map` is a history variable: what the flushed calls have made of the keys.

| Code | Actions |
|---|---|
| `insert` | `TestLock`, `TryLock`, `SecondLock`, `ChooseSlot`, then `StoreRecord`, or `AllocateBlock`, `link_overflow_stash_with_sync`, `FlushLink`; `FlushInsert`, `ReleaseSecond`, `ReleaseFirst` |
| `erase`, `update` | the locks, `EraseRecord` and `FlushErase`, `UpdateRecord` and `FlushUpdate`, the releases |
| `insert_unsafe` with a full node | `LockNode`, `get_all_locks_in_node`, then the resize: `NewNode` (`New_from_existing`), `AllocateArray` (`initialize`), `FillNode` per record with `LinkNew` for an overflow block, `PersistNode`, `RedoMark`, `Install`, `FinishResize` |
| `find_payload` | `ReadVersion`, `Probe`, `ProbeFingers`, `ReadPayload`, `CheckVersion`, `Return` |
| `range_scan_by_size` | `ScanPartition`, `Collect`, `CheckPartition`, `ScanBehind`, `CollectLess`, `CheckLess`, `Return` |
| power failure, `recovery` | `Crash`, with `recover_from_log` and `recover_reclaim`; `recover_node` in `GetLeaf` |

`With` and `Fold` in this module only make TLC evaluate an argument once.

### Faulty variants

Definitions whose name or comment begins with "Faulty", or whose comment names a bug, stand in front of the definition they
vary and are not part of the model: each is a variant with a plausible bug, which the properties tell from the real one.

### Abstractions

* Lines are 8 words of 8 bytes; the flag byte is a word. Stores of one thread reach the cache in
  program order and 8-byte stores are atomic, as on x86; `memset` is an ascending sequence of such
  stores. Pairs start at byte 24, so the key of slot 2 is the last word of its line.
* ALEX is the multimap that the tree uses. `insert` places a pair to the right of equal keys
  (`find_insert_position`), so a lookup sees the newest one. `first` is the payload that a lookup below every
  key returns: the first slot of the first leaf, or the erased slot 0 of the only leaf of an empty index.
* Keys are neither 0 (`INVALID_KEY`) nor 2^64-1 (ALEX's sentinel). Clients insert absent keys only, as
  the comment on `MaybePut` asks.
* `BulkLoad` is called once, on the empty tree, with sorted distinct keys and one value.
* The pool holds `MaxEntries` entries; clients do not insert into a full entry when none is left. `Reuse` says
  whether they may when the next block is already in the list, which only happens after a restart.
* A restart maps the pool at the same address.
* Facade: one client thread, which puts absent keys only. Values are not 0, which `Get` uses for "absent".
* CLHT: the numbers of `clht_lb_res.h` are scaled down, so that two calls of two threads can grow, shrink
  or fill a table. Sizes are powers of two, so the mask of `clht_hash` is a remainder. `ht_status` counts in one
  step. Which bucket elimination takes depends on times and hops that readers store without a lock and that new
  buckets do not initialise: the model lets it be any. Its bin is that of the table the put began with; behind the end of a smaller table
  (`clht_lb_res.cc:891` would index past it) the model's thread is stuck, and in the run no thread is. `status_lock` never stops anybody, since every
  call passes `resize_increase = 1`. Old tables are never freed: that ssmem frees nothing in use is not
  checked. Memory is sequentially consistent: the code relies on x86, where stores stay in order, and the
  only store followed by a load that matters is a CAS.
* With `FreshValues` no value is stored twice, which is what `clht_get`'s second read of the value needs; the
  table of section 3 shows what happens otherwise.
* ALEX: keys are distinct in `AlexTree`, as EPL-Tree's index keys are; `AlexDataNode` has duplicates. Floating point is exact unless `Rounding`
  holds, which lets a prediction or a boundary fall on the wrong side of a key that lies on it. `MaxLeaf` stands for `max_slots_`.
  A split upwards needs a traversal path whose nodes exist, which the code does not test (`PathUsable` in the table of section 3).
* LB+Tree: transactions commit when they meet no lock bit (conflict aborts are retried by the code and change nothing). Keys are not 0, the build is the one with fixed keys and the
  repository's own pools. A lock bit that a power failure leaves set means nothing afterwards. The code has no recovery of its inner nodes, so the model has no restart: `DurableList`
  quantifies over what a failure could leave now. `bulkload` flushes no leaf; with `LoadFlushed` the caches have written the leaves back before the first call. A collapse is two stores, and `GapOps` are the calls whose
  transaction may commit between them. `check` is `lbtree::check` with its tests of locks, except on the tree without keys, on which the code's own check exits.
* uTree: clients do not remove the last record of a leaf unless `EmptyLeaves`; a page is not split between the two reads of its sibling pointer in `btree_search_pred` unless `SplitBetweenReads`; the key of `list_head`,
  which the constructor does not set (`utree.h:1194`), is one of `HeadKeys`; memory is sequentially consistent.
* APEX: one data node, with the tree above it reduced to the pointer `root`. A cost result that asks for a split (result codes 1 to 3) is not modelled: a full node is resized. Models are given by `Cdf`, in
  percent of the array, per generation of the node. A writer does not crash alone: power failures stop all threads. Blocks come from memory that was never used and is zero, or with `ReuseBlocks` also from freed ones, which keep
  `next_` and `link_`. A walk along blocks that would not end is cut off. The release of the new node, the free of the old one and `clear_log` are one step (`FinishResize`); nodes are freed at once, where the code waits for an epoch.

## 3. Properties and runs

| Property | Meaning |
|---|---|
| `TypeOK` (`EplTree`) | types; links and payloads are entries of the pool |
| `Routed` | every key in an indexed entry is in one slot, and in the entry that lookups for it reach |
| `ListMatchesIndex` | between calls the list visits exactly the indexed entries, in the order of their index keys |
| `IdleDurable` | between calls everything is durable except values that do not lie in the line of their key |
| `FreshEntry` | a split does not take an entry that is in use |
| `RecoverDefined` | `Recover` meets a list that ends, fits in its array and ascends |
| `CallReturns` | every call returns |
| `ImplementsKvStore` | refinement of `KvStore`: values |
| `ImplementsFragileKv` | the same, except that a restart may change the values of pairs that lie in two lines (`RestartBut`) |
| `KeysSurvive` | refinement of `KvStore`: presence of keys only |
| `ScansExact` | `ScanExact`: a `Scan` returns the next stored pairs in order; `RangeScanExact`: a `RangeScan` within one entry returns each pair once. `LongScanExact` and `LongRangeScanExact` say it with the loops over middle entries |
| `Coherent` (`Epli`) | the table holds no value that the tree does not have |
| `GetReturnsStored` (`Epli`) | every `Get` returns what the tree has |
| `WellFormed` (`Clht`) | types, and `OneSlotPerKey`: in every table a key is in its bin and in one slot |
| `AnswersFit` (`Clht`) | the answer of every call fits the contents at some moment of the call |
| `GrowthKeepsKeys` (`Clht`) | the swap to a larger table changes no key |
| `CallsReturn` (`Clht`, `LBTree`, `ApexNode`) | every call returns |
| `ImplementsCache` (`Clht`) | refinement of `Cache` |
| `ValidStructure` (`AlexDataNode`) | slots are sorted, the last slot of every value is filled, counters fit: the code's own check |
| `SearchesExact` | searches find every bound from every slot a model may predict, and `closest_gap` the closest gap, across words |
| `CostOfLayout` | the slots that the cost functions imagine are those that the bulk load gives |
| `ImplementsMultimap` | refinement of `Multimap`: a call appends its pair, removes the oldest payload of its key or the pairs of its key or range, and nothing else; a resize changes nothing; a split, only while an insert waits, leaves the side of its key |
| `Sound` (`AlexTree`) | the code's own check in both directions of the chain, no dangling or lost node, right counters, no division by zero |
| `LookupsExact` | every lookup and every iteration answers as a sorted map does |
| `KeysKept` | no split, expansion or merge loses a key |
| `WellFormed` (`LBTree`) | types, and between calls a tree with keys passes its own check, locks included |
| `SearchSeesAll` | a transaction that meets no lock bit is led to the leaf that has the key |
| `DurableList` | a power failure at any moment leaves a list that ends, ascends and has the effects of the calls that returned |
| `ReadsAnswer` (`LBTree`) | a scan is sorted, misses no key that was there all the time and invents none; a find misses none, and its value is one some key had while it ran (`FindAnswers` says that it is the key's own, and fails) |
| `Linearizable` | refinement of `LinMap` |
| `WellFormed` (`UTree`) | types; a search from the root finds every record at every moment, and no key is in two leaves |
| `ScanExact` (`UTree`) | between calls the list has the leaves' records, in order |
| `SearchAnswers` | a search answers with a value the key had while it ran |
| `WellFormed` (`ApexNode`) | types; bitmaps, fingerprints, fingers and counters in DRAM are what the records make them, at any moment; no call gives up, nothing is freed twice |
| `NoLeak` | between calls, after a failure in the middle of a resize too, what is allocated is the node, its array and the blocks it links, and the claimed stash slots are the used ones |
| `ReadsAnswer` (`ApexNode`) | searches and scans without locks answer with records that were there, and scans miss none |
| `Durable` | refinement of `DurableMap` |

Passing runs:

| Run | Bounds | Shows |
|---|---|---|
| `tree` | K = 3, 6 keys, 3 entries, the load {1, 2, 4, 6} or none | bulk load, insert, remove and splits, of an entry with a successor too; scans of every start and size |
| `crash` | K = 3, 4 keys, 2 values, 2 entries, 1 failure | recovery restores every key, and every value but those of pairs in two lines, through inserts, updates and splits |
| `facade` | 3 keys, 2 values, every 2nd miss sampled, up to 5 Gets between resets | hits, misses, evictions, closing, reopening, restarts |
| `clht` | 2 threads with 2 calls each, four builds: three that grow (3 keys, one slot per bucket), one that shrinks (5 keys, 4 of them in the table) | all operations through one resize and a second one; active elimination, or passive at a limit of 5 keys |
| `alex_node` | 4 keys, 2 payloads, words of 4 bits, at most 9 slots, 3 models, 4 loads, any 2 calls | a leaf through shifts, retrainings, resizes, splits and erases |
| `alex` | 6 keys, fanout 4, 2 keys per leaf, 9 nodes, 2 refusals per insert, 5 calls, all policies | every split, root expansion on both sides, merges, clears |
| `lbtree` | leaves of 3 slots in 2 lines, 2 keys per inner node, 2 writers, one that finds or scans, 5 loads, 2 calls, `GapOps = {}`, `LoadFlushed` | trees of zero to two inner levels that split and shrink beside readers |
| `utree` | pages of 4 records, 6 keys loaded (the second below the first), a writer with 2 calls on 3 keys, a reader, 3 retries, `HeadKeys = {0}` | splits up to a new root beside a search |
| `apex_node` | 7 keys, probes of 2 slots, partitions of 6, blocks of 2, seven scenarios of 1 or 2 threads, 1 failure in four of them | array, stash and overflow blocks fill up, the node is replaced, power fails at any moment, the steps of a resize included |

K = 3 is the smallest with a second line and a straddling slot, and an
odd K makes the halves of a split differ. Three entries allow a split in the middle of the list, which needs six keys.
Two threads are enough for CLHT's hazards: one that resizes or reuses a slot, one that is in the middle of its call. One slot per bucket makes every second put
of a bin extend the chain; the shrinking build has two, since elimination spares buckets with one key. Words of 4 bits and 9 slots give a leaf of ALEX
three words, the smallest number with an inner one; its three models predict well, too far left and too far right. Leaves with 2 keys and fanout 4 let a few calls reach a third
level of ALEX. Leaves of 3 slots in two lines are LB+Tree's smallest with a slot beside the meta words and slots in another line; the loads are the shapes from which
two calls reach each kind of split and collapse; of the two writers at most `DeepWriters` = 1 works above level 1. After the load of six keys into uTree one more insert splits a leaf and the full root,
beside the search. In APEX the keys crowd where two partitions meet, so that calls take both locks and spill into stash and overflow; the second model
puts them all into one position, so that a resize overflows too.

The passing runs leave out what the violations and the table below show to go wrong: `crash` has no failure
between the two persists of a split and no `Remove`, `tree` loads the smallest key and more than one entry,
`ScansExact` stays out of the loops over middle entries, `facade` updates stored keys only, `clht` stores fresh values, `alex_node` has zeros behind the bitmap, `alex` computes without rounding,
`lbtree` has one writer above level 1, a load that has reached NVM and no transaction inside a collapse, `utree` has one writer, no empty leaf and no split between two reads, `apex_node` no scan beside two writers and no reused block.

Violations, each a disagreement between the code and what its comments or tests say (`findings` in
`PROJECT.json` quotes them):

| Run | What happens |
|---|---|
| `split_crash` | failure while `splitEntry` rewrites the old entry: its lines may hold neither the old pairs nor the left half. The flag is set and flushed, but `Recover` does not look at it |
| `low_insert` | after `BulkLoad`, keys below the smallest loaded one go to the head; when the head splits at or below its index key it is hidden |
| `apex_resize_crash` | `resize_from_existing` persists array and stash but not the overflow blocks it fills (`apex_nodes.h:4001`): a failure after the resize loses records that were durable before |

### Where the passing runs stop

Each restriction of a passing run has a reason in the code. Lifting it, with the constants of the cfg it belongs to
changed as the second column says, makes TLC find the behaviour in the third.

| Restricted | Change | What the code then does |
|---|---|---|
| values in the line of their key | `PairCrash.cfg`: `ImplementsKvStore` | an acknowledged insert loses its value. `clflush(&kvs[i])` (`entry.h:156`) flushes the line of the key, and the pair of slot 2, 6 or 10 lies in two lines |
| no `Remove` before a restart | `Crash.cfg` with 5 keys, one value, `Ops = {"insert", "remove"}`: `Routed` | `splitEntry` sets `min_key` to the smallest present key; smaller ones are inserted later; `Recover` indexes the entry by `min_key` and they are not found |
| no reuse after a restart | `ReuseCrash.cfg`: `FreshEntry` | the allocator starts at the base of the pool again (`nvm_alloc.h:112`): the first split constructs its new entry over the list's second entry |
| loads of more than one entry | `LowInsert.cfg` with `BulkSets <- OneEntry` | `BulkLoad` of at most `KVS_PER_ENTRY` pairs returns with an empty index (`epltree.h:107`); the first split hides the left half |
| no failure during `BulkLoad` | `LowInsert.cfg` with `CrashAt = {"bulk_index"}`, one failure: `RecoverDefined` | a durable link to an entry that is not durable (`epltree.h:119`) |
| room in `Recover`'s array | `Crash.cfg` with 5 keys, one value, 4 entries, `LoadSize = 5`: `RecoverDefined` | one index pair per entry is stored in an array for `load_size / KVS_PER_ENTRY + 1` (`epltree.h:57`), while entries may be half empty |
| scans of about one entry | `LongScan.cfg`: `LongScanExact` | a `Scan` of more than an entry repeats its start entry instead of the middle ones (`epltree.h:405`) |
| ranges within one entry | `LongScan.cfg` with `LongRangeScanExact` | the loop over middle entries begins with the start entry and pushes all its slots (`epltree.h:340`) |
| updates of stored keys | `Facade.cfg` with `UpdateAbsent = TRUE` | get an absent key, update it, get it: the cached miss (key, 0) takes the value, the tree does not (`epli.h:54`) |
| | `Facade.cfg` with `SampledIsCached` | get an absent key, put it, get it: the cached miss keeps the value out of the table, since `clht_put` finds the key |
| values are fresh | `Clht.cfg` with one growing build of 2 keys, 4 calls, `FreshValues = FALSE`, without update: `AnswersFit` | a slot goes from key B to A and back to B with the same value between the reads of a get of A, which returns the value of B (`clht_lb_res.cc:263`) |
| | `Clht.cfg` with a growing build of the keys 1, 2, 3, 5, `MaxBucketSize` 3, puts only: `EvictsPutChain` | a put that waited for a resize passes the bin number of the old table to `ht_status` (`clht_lb_res.cc:354` declares another `bin`): passive elimination works on an unrelated chain |
| zeros behind the bitmap | `AlexDataNode.cfg` with `PastEnd = {{}, {1}}` | `ValidStructure` and `ImplementsMultimap` fail: when the capacity is a multiple of 64, `erase_one` looks for the next filled slot in the word behind the bitmap (`alex_nodes.h:2443`) |
| domains inside the key type | `AlexClip.cfg`: `GetLeafFinds` | "Return the data node that contains the key (if it exists)." (`alex.h:443`): `expand_root` clips the new domain at the limit of the type and the pointers no longer match the old children |
| exact arithmetic | `AlexTree.cfg` with `Rounding = TRUE`, `Upwards = {FALSE}`, 3 calls | `ValidStructure` fails: an `erase` whose key lies on a bucket boundary merges the empty leaf with the wrong side, and a subtree is lost |
| | `AlexTree.cfg` with `AssertFreshLoad` | the assertion of `alex.h:813` fails when an emptied index is loaded again |
| | `AlexTree.cfg` with `OutsideCounted` | a key outside of the domain that turns a leaf root into a model node is not counted |
| | `AlexTree.cfg` with `PathUsable` | after `split_upwards` an insert goes on with a traversal path of nodes that were deleted (`alex.h:1413`) |
| | `AlexTree.cfg` with `CopyIterates` | the copy constructor does not link the leaves of the copy (`alex.h:359`) |
| one writer above level 1 | `LBTree.cfg` with `DeepWriters = 2`, inserts and removes, 9 leaves, 14 nodes, `Loads = {Bulk(5, 67, 1, {7, 9, 10})}`, 3 calls | `SearchSeesAll`, `DurableList` and `CheckPasses` fail: `del` goes down to the left leaf without a look at the lock bits of inner nodes (`lbtree.cc:1386`) |
| two calls | the same with `Loads <- Small`, one writer: `RootHasTwoChildren` | "root is guaranteed to have 2 children" (`lbtree.cc`, in `del`): a collapse leaves a root with one |
| | the same with `Loads = {Bulk(4, 100, 1, {7, 8, 9})}`, one writer, one finder, 4 calls: `FindAnswers` | `find` reads the value after its transaction, when the slot may hold another key (`lbtree_wrapper.hpp:151`) |
| a load that is in NVM | `LBTree.cfg` with `LoadFlushed = FALSE`: `DurableList` | `bulkload` (`lbtree.cc:443`) flushes the pointer to the first leaf and no leaf: a failure before the caches write them back loses loaded keys or the list |
| no transaction inside a collapse | `LBTree.cfg` with `GapOps = {"find"}` (`SearchSeesAll`, `ReadsAnswer`), `{"insert"}` or `{"update"}` (`Linearizable`) | `root_level` is stored before `tree_root` (`lbtree.cc:1523`): a transaction between the two takes the locked inner root for an unlocked leaf. A find misses stored keys, an insert goes to a node that is then freed |
| trees with keys | `LBTree.cfg` with `CheckAlwaysPasses` | two removes empty the tree, whose leaf stays: "each leaf must have >=1 key" (`lbtree.h:160`), and `check` exits (`lbtree.cc:1941`) |
| no split between two reads | `UTree.cfg` with `SplitBetweenReads = TRUE`, `Load = <<2, 6, 7>>`, `Targets = {1, 3, 4, 7}`, inserts only, 3 calls: `SearchAnswers` | `btree_search_pred` compares the sibling that `linear_search_pred` read (`utree.h:1019`) with a second read (`utree.h:1223`): after a split between them a page is taken for a list node, and a search of a stored key answers null |
| a zero list head | `UTree.cfg` with `HeadKeys = {9}`: `ScanExact` | the constructor sets only `next` of `list_head` (`utree.h:1194`): with another key in its memory inserts do not find their place |
| one writer | `UTree.cfg` with two writers that insert, no reader (here and below with CHECK_DEADLOCK FALSE): `EveryRecordFound`, `ScanExact`, `CallsReturn`; with removes `NeverExits` | `store` passes a key on only if it is greater than the sibling's first key (`utree.h:587`): an insert of exactly that key puts it into two pages |
| no empty leaf | `UTree.cfg` with `EmptyLeaves = TRUE`, `Targets = {3, 4, 5}`, 3 calls (`ScanExact`) or 5 (`CallsReturn`) | the predecessor is taken from `records[-1]` of an empty page, which is its mutex (`utree.h:889`) |
| positive keys | `UTree.cfg` with 0 added to the keys, no reader, `Targets = {0, 5}`: `ScanExact`, `CallsReturn` | the list head's key is 0 too, so `prev->key < key` never holds and `insert` gives up (`utree.h:1358`): the key is in the tree and not in the list |
| scans beside one writer | `ApexNode.cfg` with the scenario of `Five`, `rem(6)` by w1, `ins(7)` and `ins(5)` by w2, `scan(2, 7)` by s1: `ReadsAnswer` | "needs to guarantee the atomic read of each record" (`apex.h:2785`): a scan that meets a replacement of the node reads without comparing versions |
| blocks in new memory | `ApexReuse.cfg`: `WellFormed`, `Durable`; also `NoLeak` | `OverflowStash::New` sets neither `next_` nor `link_` and `pmemobj_alloc` does not zero (`apex_nodes.h:1345`): a block in reused memory ends its chain in what the freed block had there. After a failure `recover_node` (`apex_nodes.h:4593`) finds the freed blocks again: an erased key is back. With `ReuseBlocks = FALSE` the same cfg passes |
| `lag = {}` where a resize overflows | `ApexNode.cfg` with the scenario of the load `<<2, 3, 4, 5>>` and `lag = {"null"}`: `NoLeak` | the block takes the array's place in `P_data_slots_` (`apex_nodes.h:2956`) while `data_slots_` is not flushed before the end of the resize (`apex_nodes.h:4002`): a failure in between leaks the array |
| no `lag = {"old"}` | `ApexNode.cfg` with the scenario of `Five`, `ins(5)` and `ins(7)` by w1, one failure, `lag = {"old"}`: `NoLeak` | "No persistence is still correct" (`apex_nodes.h:3883`): if the media has the copied `data_slots_` of the old node, recovery frees the array that is in use |
| no failure in a resize after a load with blocks and a block in another partition | `ApexNode.cfg` with the load `<<1, 2, 3, 4, 5>>`, `ins(6)`, `ins(7)`, `rem(5)`, `ins(5)` by w1, 4 calls, one failure: `WellFormed` | `P_data_slots_` still has the loaded block and `first_block_` the new one: `recover_reclaim` (`apex_nodes.h:701`) frees the loaded block by itself and once more along `link_` |

Fairness: in `EplTree`, `WF_vars(Step)` (with the steps of `BulkLoad` in `FullSpec`). A call runs on its own thread to its
end, blocks on nothing and waits for nobody, so a step that can be taken is taken. Clients and power failures
have no fairness. Deadlock is checked in these runs: some call or failure is always possible.

In `Clht`, `LBTree`, `UTree` and `ApexNode` each thread has weak fairness of its steps: the scheduler runs every thread. Spin locks and lock bits are unfair, but with
a bounded number of calls per thread nobody can be overtaken forever, so weak fairness is enough; that a thread could
starve under endless traffic is not excluded. For LB+Tree this assumes that a transaction commits once no lock bit is in its way. These runs do not check deadlock, since all
threads stop after their last call; a thread stuck before is what `CallsReturn` finds in `clht`, `lbtree` and `apex_node`. `utree` checks no liveness:
with one writer nothing waits, and `CallsReturn` of `UTree` fails in the cases of the table above. `AlexDataNode` and `AlexTree` are sequential and check safety only; they stop at `MaxCalls`.

## 4. Proofs

### The tree

Proved for every K > 1, every set of keys and values and every pool size, of `Spec` (the tree
filled by `Insert`, on a machine that stays up):

| Theorem | Module | Property |
|---|---|---|
| `TypeCorrect` | `EplTreeProofs` | `[]TypeOK` |
| `KeysAreRouted` | `EplTreeProofs` | `[]Routed` |
| `SplitsTakeFreshEntries` | `EplTreeProofs` | `FreshEntry` |
| `ReturnedCallsAreDurable` | `EplTreeProofs` | `[]IdleDurable` |
| `ListIsTheIndex` | `EplTreeKvProofs` | `[]ListMatchesIndex` |
| `EplTreeImplementsKvStore` | `EplTreeKvProofs` | `ImplementsKvStore` |
| `ScansReturnStored` | `EplScanProofs` | `[]ScansExact` |

Assumptions: `KAssumption`, `KeysAssumption`, `ValsAssumption`, `MaxEntriesAssumption`.

`Routed` is not inductive. The invariant `IndInv` speaks of owners: index key `m` owns key `k` if it is the
largest index key not above `k` (`Owns`), and the entry of `m` holds keys that `m` owns only (`Owned`). A
split must keep that: `SplitInv` says that `tmp_kvs` has the keys of the full entry, strictly ascending, and
that the new entry has the right half, so after the new index key appears each half has its own owner.
`IndexInjective` keeps a store to one entry from disturbing another, `IndexInv` gives every key an owner (key 0
stays indexed) and every indexed entry an address the allocator has handed out, which is also why a split's entry is
fresh. The model's CHOOSEs (largest index key, first slot) are shown to denote by well-founded
induction on the naturals (`SmallestExists`, `LargestExists`).

`IdleDurable` needs `DurInv`: in the middle of a call only the entries of the split and the slot that waits
for its flush may be undurable; and `ShapeInv`: what a line may hold is zero outside that line, so that
flushing the line of the key settles the slot.

`ListMatchesIndex` compares the index with the list, a recursive function of NVM. `LinkInv` says it
without recursion: the `next` of an indexed entry is the entry of the next greater index key, or null. An entry's place in the
list is then the number of index keys below its own (`Rank`), so the list is the function from a rank to the entry of that
rank, which satisfies the recursive definition and is the only one that does.

`ImplementsKvStore` needs to know what `Get` returns. A key has the value of the only slot that stores it (`Stored`), and
a split does not disturb it because `TmpInv` keeps values beside keys in `tmp_kvs`, and the new entry is filled before the old one loses
its right half. `CallInv` relates the running call to the request of `KvStore`: the effect is at the store of the slot, once. Every step
of the tree is then a step of `KvStore` or leaves its variables alone; the initial states agree.

### The tree through power failures

`EplCrashProofs` (and for the scans `EplScanProofs`) proves of `FullSpec`, for every K > 1, every set of keys and values and any number of failures, each of
them at any moment that `CrashSafe` allows and with any part of the stores in flight surviving:

| Theorem | Hypotheses | Property |
|---|---|---|
| `RestartsRecover` | `CrashSafe` | `[]RecoverDefined` |
| `CrashesKeepKeys` | `CrashSafe` | `KeysSurvive` |
| `CrashesKeepValues` | `CrashSafe` | `ValuesSurvive`: a restart keeps every value that lies in the line of its key |
| `CrashesImplementFragileKv` | `CrashSafe` | `ImplementsFragileKv` |
| `CrashesKeepRouted` | `CrashSafe` | `[]Routed` |
| `CrashesKeepList` | `CrashSafe` | `[]ListMatchesIndex` |
| `CrashesKeepScans` | `CrashSafe` | `[]ScansExact` |

`CrashSafe` is the setting of the run `crash`, less its numbers: no `BulkLoad`, no `Remove`, no failure while a split
rewrites the old entry, no split after a restart that left several entries, and a `load_size` with room for all entries. Section 3 has a
behaviour of the code for each of these that breaks a property without it: `split_crash` and the lines
on `Remove`, reuse, `BulkLoad` and `Recover`'s array. `ImplementsKvStore` itself does not hold through failures: with 14 pairs per entry three of them lie in two
lines, and their values may be lost (`PairCrash.cfg`). `ImplementsFragileKv` exempts, at a restart, the values of exactly these pairs. The other assumptions are those of the tree and `BoundsAssumption`.

`Recover` rebuilds the index from `min_key`, so after a restart with several entries the head is no longer under key 0 but under
its `min_key`, and `IndInv` does not hold. A lookup below the smallest index key falls back to the first slot, which is the
head's, so lookups go where they went. The proofs use that: `VIndex` is the index with the head back under 0, `V` the instance of
`EplTreeKvProofs` with this index and with no entry left to allocate. A step of the restarted tree is a step of `V`, and the invariants of the tree that stays up
(`UpInv`) hold of one or the other. The inductive invariant `CrashInv` adds what makes the restart come out right:

- `LineInv`: what each line of an entry in the list may hold after a failure. It differs from the program's view in the slot of
  the running call only, which has no key yet or the old value, and in values outside the line of their key (`PairLeft`).
- `MinInv`: the `min_key` of an entry is its index key, except for the head's, which is smaller than all others. So `min_key`
  orders the list, and `Recover` gives every entry the place it had.
- `SecondInv` and `MovedInv`: as soon as there are two entries the second entry of the pool is one of them; after a restart the allocator
  would hand it out again, so clients that avoid reuse cause no split.
- `OffInv`: while the power is off, what the interrupted call had done, and that the entries settled so far are survivors of theirs.

`RecoverGets` combines them: the value a key has after the restart is the one it had, or, for the key of the interrupted call, its
old or its new one. That is the step `Restart` of `KvStore`. `ListMatchesIndex` again goes through ranks: a restart changes the
index key of the head, not the rank of any entry.

### The scans

`ScansReturnStored` and `CrashesKeepScans` share one argument; only where the tree's shape comes from differs.

- One entry. `std::sort` is a CHOOSE of a sorted permutation; `SortExists` shows that there is one by counting: a slot goes behind the
  slots with smaller keys, and with equal keys before it. Empty slots come first, so `From` and `Live` cut sorted pairs at
  one place, and `EntryLists` shows that the rest lists the entry's keys from there on, ascending, with their values. The push loop of
  `RangeScan` is an induction on the slot (`InRangePicks`).
- The list. `Laid` says what a scan needs of the tree: every entry of the list holds keys of its own range only, the ranges ascend along `next`, and a
  lookup goes to the entry whose range has the key. `ListIsLaid` states it of `VIndex` and gets it from `IndInv` and `LinkInv`, or from `CrashInv`.
- The walk. After n entries the results have all stored keys before the entry that is next, cut to the size, and none behind. The
  rank of that entry grows by one each time, and there are no more entries than the pool has, so the walk ends
  within the bound `MaxEntries` of `ScanWalk` (`WalkGoesOn`, `WalkEnds`).

The condition of `ScanExact` keeps the walk out of the first loop, and implies a size below `MaxScan` = 2K, so
this bound loses nothing. With the first loop scans are not exact: section 3 has the case (`LongScan.cfg`).

### The facade

`EpliProofs` proves, for every set of keys and values, sampling rate and hit rate, under the assumption
`Disciplined` (clients update stored keys only; section 3 shows that it is needed):

| Theorem | Property |
|---|---|
| `TableIsCoherent` | `[]Coherent` |
| `GetsAreExact` | `GetReturnsStored` |

`TypeOK /\ Coherent` is inductive. `GetsAreExact` follows because a hit is a nonzero entry.

### CLHT

Proved for any number of threads, keys, calls and builds:

| Theorem | Module | Property |
|---|---|---|
| `TablesAreWellFormed` | `ClhtProofs` | `[]WellFormed` |
| `GrowingLosesNothing` | `ClhtProofs` | `GrowthKeepsKeys` |
| `ClhtImplementsCache` | `ClhtAnswerProofs` | `ImplementsCache` |
| `AnswersAreFit` | `ClhtAnswerProofs` | `[]AnswersFit` |

Assumptions: `ClhtAssumption`, and two hypotheses. `SmallIsNotSparse`: a table with fewer than `RatioHalve` bins
never counts as sparse, since shrinking it would make a table without bins. `CodeIsNotSparse` proves it for the values of
`clht_lb_res.h` (3 entries per bucket, `CLHT_PERC_FULL_HALVE` 5, `CLHT_RATIO_HALVE` 8) and numbers of buckets that are powers of two,
as the mask of `clht_hash` requires: a sparse table then has more than 6 buckets, hence 8 or more. The shrinking build of `clht` shrinks tables of
a few keys with other values, so the hypothesis does not cover that build, and TLC checks it alone. `FreshValues`, for `AnswersAreFit` only: no value is stored twice (section 3
shows that it is needed).

The inductive invariant `Inv` has these parts. Locks (`LockInv`): a lock "update" has one holder, and in the current table only. Frozen bins (`FrozenInv`): a
bin is locked for good once it is copied, so all bins of old tables are, and in the current one exactly those below the resizer's position; what is
copied never changes again. The token (`TokenInv`): `num_expands` meets the threshold of a table once, so one thread at a time is on its way to a resize, and
the `h->ht` it reads before it holds `resize_lock` is still the current table when it has the lock (`ResizeInv`). The copy (`CopyInv`): the new table
has pairs of the bins copied so far only, and all of them if it grows. A put between its two stores (`PendingInv`): its slot has no key, and its key is
nowhere in the chain. The fold over the slots of a chain (`PutAll`) is handled by one induction on the position (`PutAllInduction`).

For the refinement each step is classified by what it does to the contents of the current table: nothing, one key set by the call of the
step (`Takes`, with the request not yet done), or keys lost (elimination, a shrinking swap).

`AnswersFit` is about reads without a lock. `ReadOK` relates what a thread has read so far to the values its key has had since the call began: what
the chain now says of the key is among them; the slots passed do not have the key, unless it was absent for a moment; the value read before the key is as
good as the one beside it. `ReadStable` shows that no store of another thread spoils this: a chain changes slot by slot, a key
appears in a slot only if it was nowhere in the chain (`Edit`), and the value stored is not the one the reader remembers, since it is not yet
spent (`Spent`, `FreshInv`). Readers of an old table are safe because it does not change, and the values they find were there when the table was left.

### The ALEX leaf

`AlexDataNodeProofs` proves, for every word width, capacity, set of keys and payloads, set of linear models and number of calls:

| Theorem | Property |
|---|---|
| `NodeStaysValid` | `[]ValidStructure` |
| `NodeSearchesExact` | `[]SearchesExact` |
| `NodeCostOfLayout` | `[]CostOfLayout` |
| `NodeImplementsMultimap` | `ImplementsMultimap`, the refinement of `Multimap` |

Assumptions: `AlexDataNodeAssumption`, and the hypothesis `PastEnd = {{}}`, zeros behind the bitmap; section 3 has the behaviour of
`erase_one` that breaks `ValidStructure` without it.

The inductive invariant `IInv` is `NodeOK(node)`, that the current call has arguments of its kind (`CallOK`), and that only an insert is refused. `NodeOK` says that the filled slots hold keys, that keys ascend over all
slots, gaps too (`Ascending`), that a gap has the key of the slot behind it (`GapsFilledIn`), that `num_keys_` counts the filled slots, and that there
is room below the expansion threshold. `ValidStructure` says of gaps only that the last slot of every value is filled; that alone would not survive an
erase, which moves the key behind a run of gaps into all of them. The steps:

- Loops are recursive functions in the model. `LoopExists` shows that such a function exists, and `UpTo` is the induction over its
  argument, stated for a set so that it needs no operator parameter.
- Searches. The bound doubles until it passes the key or the end, then the interval halves; what is left of it always has the searched
  bound (`BoundsFound`). `closest_gap` looks at whole words to both sides: `ClosestIs` shows that the gap it takes is `Nearest`, whatever the word width.
- Inserts. `OKBut` is `NodeOK` with one slot to be written. A shift to either side leads there (`MovedLeft`, `MovedRight`), and writing the
  slot and the gaps before it leads back (`InsertElementIs`).
- Erases. A cleared run takes the key of the next filled slot (`ClearedKeeps`), which `NextFilledIs` finds across words.
- Loads, resizes and splits share `Layout`. Its positions ascend strictly and leave room for the keys to come
  (`PositionsAre`), so slots before a position get its key (`LayoutIs`). The clamp of the cost functions, which
  the load lacks, makes no difference (`ClampIs`). `AscendsOnce` (two ascending lists of one set are equal) gives that the cost of an existing node
  counts the same slots.
- The refinement. `MInv` adds to `IInv` that every slot has a payload. `Lists(node)` is the state of the multimap:
  for each key the payloads of its slots, in the order of the slots. A map of slots that preserves order, keys and payloads (`Carries`) keeps these lists
  (`ListsCarried`); resizes, splits and shifts are such maps, the split of the slots it keeps. An insert adds a slot behind all
  slots of its key (`Adds`, `PutLists`), so it appends; `erase_one` clears the first one (`EraseOneIs`), so it takes the head. `InsertRefines`, `SplitRefines` and
  `DeleteRefines` show for each kind of call that its step changes these lists as `Multimap` says for the kind and the arguments of
  the call that is under way, and `NextRefines` that a resize and a refused insert change nothing.

### Only model-checked

- `CallReturns` and `CallsReturn`: liveness under fairness is out of the prover's reach.
- `BulkLoad`, and the other settings that `CrashSafe` leaves out.
- `AlexTree`, which uses recursive operators that the prover does not handle, and the baselines (LB+Tree, uTree, APEX).

## 5. Not modelled, and the plan

1. ssmem and `clht_gc_release`: that no table is freed while a thread reads it or waits for its `table_new`. Old tables stay readable in the model.
2. CLHT's times: 24-bit wrap-around, uninitialised times, which bucket elimination takes, triggers that are lost. The choice is any bucket instead.
3. Two threads in the facade and in the tree (`tests/multi_bench.cc`): a stale value put into the table after
   an update; `tmp_kvs` shared by splits. Neither has a lock, so there is no protocol to check.
4. The NVM allocator with sizes, alignment gaps and `Free`; the destructor of `DataList`.
5. The `USE_BITMAP` / `USE_FGPT` build, compiled out.
6. APEX above the data node: model nodes, `expand_root`, splits with their logs, sibling links, epoch-based reclamation. Read, not checked: `redo_split` (`apex.h:2870`) where the parent already points to the
   new inner node; a missing neighbour of a split leaf (`apex.h:1072`, `1150`); recovery that stops at the first unused log (`apex.h:3154`); `Persist(children + start, repeats)`, which counts pointers as bytes (`apex.h:2527`);
   crash consistency of a bulk load (the FIXME at `apex.h:1288`), which does not flush overflow blocks; partition thresholds that `recover_node` leaves 0.
7. LB+Tree: variable-length keys, PMDK pools, and the constructor of its wrapper, which loads over an existing list also when asked to recover (`lbtree_wrapper.hpp:106`). uTree: a reader that sees
   half a shift of a page.
8. Proofs about `BulkLoad`, the baselines and `AlexTree`.

Left out for good: FAST&FAIR (commented out as a whole), sampling and regression of ALEX's and APEX's cost models (numeric; that ALEX's sampling loop ends is
an assumption TLC evaluates, `SamplingEnds`), benchmarks, statistics and printing.
