------------------------------ MODULE ApexNode ------------------------------
(***************************************************************************)
(* The data node of APEX (include/apex/apex_nodes.h) under the calls of    *)
(* apex.h.  Its records are in persistent memory: an array that a model    *)
(* predicts positions in, with a short linear probe, a stash, and blocks   *)
(* of overflow slots.  What finds them is in DRAM and is rebuilt after a   *)
(* restart: bitmaps, fingerprints, fingers into stash and overflow blocks, *)
(* and the locks, counters and indexes of the partitions of the array.     *)
(* A writer locks one or two partitions; a reader compares versions; a     *)
(* writer that finds the node full locks all of it and replaces it.        *)
(***************************************************************************)
EXTENDS Integers, Sequences, FiniteSets, FiniteSetsExt, Folds

CONSTANTS
  Keys, InvalidKey,         \* integers; invalid_key_ marks a free slot
  Writers, Readers, Scanners,
  PROBING_LENGTH,           \* also TABLE_FACTOR, the slots of a MetaInfo
  SCALE_FACTOR,             \* the slots of a partition
  OVERFLOW_FINGER_LENGTH, BlockSlots, IndexLength, WordBits,
  hashcode1B,               \* key |-> fingerprint, from 1
  Cdf,                      \* Cdf[g][k]: where the g-th model puts k, in %
  ReuseBlocks,              \* the allocator hands out freed blocks again
  Scenarios                 \* [load, calls, quota, crashes, keep, lag], keep: how a resize
                            \* may shift the model, lag: the older contents of data_slots_
                            \* that a node under construction may have on the media

Threads == Writers \cup Readers \cup Scanners
TABLE_FACTOR == PROBING_LENGTH
Ascending(s) == \A i \in 1..(Len(s) - 1) : s[i] < s[i + 1]

ASSUME ApexNodeAssumption ==
  /\ Keys \subseteq Nat /\ InvalidKey \in Nat \ Keys
  /\ {PROBING_LENGTH, SCALE_FACTOR, OVERFLOW_FINGER_LENGTH, BlockSlots, IndexLength, WordBits}
       \subseteq Nat \ {0}
  /\ \A k \in Keys : hashcode1B[k] \in Nat \ {0}
  /\ \A g \in DOMAIN Cdf : \A j, k \in Keys : j < k => Cdf[g][j] <= Cdf[g][k]
  /\ ReuseBlocks \in BOOLEAN
  /\ \A s \in Scenarios : s.load # <<>> /\ Ascending(s.load) /\ s.lag \subseteq {"null", "old"}

VARIABLES
  nd,          \* the g-th node, PM and DRAM
  blk,         \* the b-th overflow stash block [slot, next, link, pp], all PM
  heap,        \* what is allocated: <<"n", g>> a node, <<"a", g>> its array, <<"b", b>> a block
  wb,          \* location |-> the older contents it may still have on the media
  fwb,         \* node |-> the older first_block_ that may still be on the media
  desc, rlog,  \* the logs of the writers: overflow_desc_ and resize_log_
  root, global_version,
  th,          \* the threads
  map,         \* what the flushed calls have made of the keys; 0: absent
  fatal,       \* exit(-1) or LOG_FATAL
  sc, left, crashes   \* the scenario, and what is left of it

pmem == <<nd, blk, heap, wb, fwb, desc, rlog, root>>
vars == <<pmem, global_version, th, map, fatal, sc, left, crashes>>

Empty == [k |-> InvalidKey, v |-> 0]
Free == [set |-> FALSE, ver |-> 0]
NoFinger == [loc |-> <<"n", 0, 0>>, fp |-> 0]
NoLog == [progress |-> 0, cur |-> 0, new |-> 0]
NoDesc == [cur |-> 0, new |-> 0]
OID_NULL == <<"n", 0>>
Idle == [pc |-> "idle", op |-> "none", k |-> 0, v |-> 0, g |-> 0, i |-> 0, loc |-> <<"n", 0, 0>>,
         ver |-> 0, ret |-> 0, done |-> FALSE, seen |-> {}, must |-> {}, scan |-> <<>>]

-----------------------------------------------------------------------------
(* Geometry *)

LOCAL Ext == INSTANCE SequencesExt
\* op(x) and FoldLeft, with x and the intermediate results evaluated once: where TLC
\* evaluates ENABLED it would evaluate an argument anew wherever it is used.
With(x, op(_)) == CHOOSE y \in {op(z) : z \in {x}} : TRUE
Fold(op(_, _), base, s) ==
  LET go[i \in 0..Len(s)] == IF i = 0 THEN {base} ELSE {op(a, s[i]) : a \in go[i - 1]}
  IN  CHOOSE x \in go[Len(s)] : TRUE
Clamp(x, lo, hi) == Max({Min({x, hi}), lo})
metas(n) == n.real \div TABLE_FACTOR + 1
predict_position(n, k) ==
  Clamp((Cdf[n.model][k] * n.mcap) \div 100 + n.moff, 0, n.cap - 1)
parameter_pos(n, k) == predict_position(n, k) \div n.scale
meta_pos(n, k) == predict_position(n, k) \div TABLE_FACTOR
Window(n, k) == predict_position(n, k)..(predict_position(n, k) + PROBING_LENGTH - 1)
two_lock(n, k) ==
  (predict_position(n, k) + PROBING_LENGTH) \div n.scale # parameter_pos(n, k)
stash_pos(n, m) ==
  IF n.cap = 1 THEN 0 ELSE Clamp(((n.stash - 1) * m) \div (n.cap - 1), 0, n.stash - 1)

\* initialize: the capacities for num keys at density/10, with a stash of frac (a pair).
DataCapacity(num, density) ==
  Max({(num * 10) \div density, num + 1, PROBING_LENGTH})
StashCapacity(total, frac) == Max({(total * frac[1]) \div frac[2], 1})
ScaleFactor(cap, total) ==
  LET s == (SCALE_FACTOR * cap) \div total
  IN  IF s < TABLE_FACTOR THEN PROBING_LENGTH ELSE s - (s % TABLE_FACTOR)
Partitions(cap, real, scale) == Max({(cap + scale - 1) \div scale, real \div scale + 1})

\* Thresholds of bulk_load and resize_from_existing, times 10 for the node's.
NodeThreshold(num, total) == Min({Max({total * 9, (num + 1) * 10}), total * 10})
PartitionThreshold(num, total, cap, scale, p) ==
  IF p < cap \div scale THEN (SCALE_FACTOR * 9) \div 10
  ELSE IF p = cap \div scale /\ cap % scale # 0
  THEN Min({Max({((total % SCALE_FACTOR) * 9) \div 10, num + 1}), total})
  ELSE 0

\* The DRAM side, as align_zalloc leaves it.
Zeroed(n) ==
  [n EXCEPT !.bit = {}, !.fp = [i \in 0..(n.real - 1) |-> 0],
            !.fing = [m \in 0..(metas(n) - 1) |-> <<>>], !.sbit = {},
            !.pl = [p \in 0..(n.parts - 1) |-> Free],
            !.nk = [p \in 0..(n.parts - 1) |-> 0], !.si = 0,
            !.idx = [p \in 0..(n.parts - 1) |-> <<>>],
            !.last = [p \in 0..(n.parts - 1) |-> 0],
            !.thr = [p \in 0..(n.parts - 1) |-> 0]]

Shape(num, cap, stash, scale, model, mcap, moff) ==
  LET real == cap + PROBING_LENGTH - 1
      parts == Partitions(cap, real, scale)
  IN  [cap |-> cap, stash |-> stash, scale |-> scale, real |-> real, parts |-> parts,
       model |-> model, mcap |-> mcap, moff |-> moff,
       slot |-> [i \in 0..(real + stash - 1) |-> Empty], first |-> 0,
       P_data_slots_ |-> OID_NULL, data |-> 0, lag |-> {},
       limit |-> NodeThreshold(num, cap + stash),
       bit |-> {}, fp |-> <<>>, fing |-> <<>>, sbit |-> {}, pl |-> <<>>, nk |-> <<>>, si |-> 0,
       idx |-> <<>>, last |-> <<>>, thr |-> <<>>, lock |-> Free, lver |-> 0]
Thresholds(n, num) ==
  [p \in 0..(n.parts - 1) |-> PartitionThreshold(num, n.cap + n.stash, n.cap, n.scale, p)]
\* keep: whether the node was append-mostly to the right ("left" is kept) or to the left.
initialize(num, density, frac, model, keep, oldCap) ==
  LET total == DataCapacity(num, density)
      stash == StashCapacity(total, frac)
      cap   == total - stash
  IN  Shape(num, cap, stash, ScaleFactor(cap, total), model,
            IF keep = "none" THEN cap ELSE oldCap,
            IF keep = "right" THEN cap - oldCap ELSE 0)

-----------------------------------------------------------------------------
(* The DRAM structures: fingers, stash bits and the indexes of the blocks *)

set_fingerprint(n, i, k) == [n EXCEPT !.bit = @ \cup {i}, !.fp[i] = hashcode1B[k]]
unset_fingerprint(n, i) == [n EXCEPT !.bit = @ \ {i}]

\* insert_overflowfp_to_meta: the first free finger, or a new array in front.
AddFinger(fs, e) ==
  LET room == {j \in DOMAIN fs : \E i \in DOMAIN fs[j] : fs[j][i] = NoFinger}
  IN  IF room = {}
      THEN <<[i \in 1..OVERFLOW_FINGER_LENGTH |-> IF i = 1 THEN e ELSE NoFinger]>> \o fs
      ELSE [fs EXCEPT ![Min(room)][Min({i \in DOMAIN fs[Min(room)] :
                                          fs[Min(room)][i] = NoFinger})] = e]
insert_overflowfp_to_meta(n0, k, loc) ==
  With(n0, LAMBDA n :
    [n EXCEPT !.fing[meta_pos(n, k)] = AddFinger(@, [loc |-> loc, fp |-> hashcode1B[k]])])
DropFinger(fs, loc) ==
  [j \in DOMAIN fs |-> [i \in DOMAIN fs[j] |-> IF fs[j][i].loc = loc THEN NoFinger ELSE fs[j][i]]]
Fingers(n, m) ==
  UNION {{n.fing[m][j][i] : i \in DOMAIN n.fing[m][j]} : j \in DOMAIN n.fing[m]} \ {NoFinger}

\* find_free_pos_in_stash(_with_sync): from the predicted word on, then from word 0; -1.
find_free_pos_in_stash(n, m) ==
  LET words == 0..((n.stash - 1) \div WordBits)
      room  == {w \in words : \E i \in 0..(n.stash - 1) : i \div WordBits = w /\ i \notin n.sbit}
      ahead == {w \in room : w >= stash_pos(n, m) \div WordBits}
  IN  IF room = {} THEN -1
      ELSE Min({i \in 0..(n.stash - 1) \ n.sbit :
                  i \div WordBits = IF ahead = {} THEN Min(room) ELSE Min(ahead)})

\* The indexes of a partition are a sequence of nodes [b, bits], newest first, whose
\* entries fill from the left.  index_overflow_stash_insert_kv: where a record goes:
\* <<node, entry>> of a block with a free slot, <<node, 0>> for a new entry of that
\* node, <<0, 0>> for a new node.
IndexRoom(idx) ==
  LET free(j) == {e \in DOMAIN idx[j] : Cardinality(idx[j][e].bits) < BlockSlots}
      js == {j \in DOMAIN idx : free(j) # {} \/ Len(idx[j]) < IndexLength}
  IN  IF js = {} THEN <<0, 0>>
      ELSE IF free(Min(js)) = {} THEN <<Min(js), 0>> ELSE <<Min(js), Min(free(Min(js)))>>
FreeOffset(entry) == Min(0..(BlockSlots - 1) \ entry.bits)
index_overflow_stash_insert_kv(n, p, b, off) ==
  [n EXCEPT !.idx[p] = [j \in DOMAIN @ |-> [e \in DOMAIN @[j] |->
     IF @[j][e].b = b THEN [@[j][e] EXCEPT !.bits = @ \cup {off}] ELSE @[j][e]]]]
\* index_overflow_stash_insert_alloc, or reattach_overflow_stash at a restart.
AttachBlock(n, p, j, b, bits) ==
  [n EXCEPT !.idx[p] = IF j = 0 THEN <<<<[b |-> b, bits |-> bits]>>>> \o @
                       ELSE [@ EXCEPT ![j] = Append(@, [b |-> b, bits |-> bits])],
            !.last[p] = b]
erase_from_overflow_stash(n, p, b, off) ==
  [n EXCEPT !.idx[p] = [j \in DOMAIN @ |-> [e \in DOMAIN @[j] |->
     IF @[j][e].b = b THEN [@[j][e] EXCEPT !.bits = @ \ {off}] ELSE @[j][e]]]]
Indexed(n, p) == UNION {{n.idx[p][j][e] : e \in DOMAIN n.idx[p][j]} : j \in DOMAIN n.idx[p]}

\* pmemobj_alloc: memory that was never used and is zero, or a block freed before.
Allocated(bs, h) ==
  LET freed == {b \in DOMAIN bs : <<"b", b>> \notin h}
  IN  IF ReuseBlocks /\ freed # {} THEN Min(freed) ELSE Len(bs) + 1
\* OverflowStash::New sets, and makes persistent, the slots and parameter_pos_; next_
\* and link_ keep what the memory has.
NewBlock(bs, b, p, rec) ==
  [slot |-> [j \in 0..(BlockSlots - 1) |-> IF j = 0 THEN rec ELSE Empty],
   next |-> IF b \in DOMAIN bs THEN bs[b].next ELSE 0,
   link |-> IF b \in DOMAIN bs THEN bs[b].link ELSE 0, pp |-> p]
WithBlock(bs, b, new) == [c \in DOMAIN bs \cup {b} |-> IF c = b THEN new ELSE bs[c]]
Persisted(dirty, b) ==
  [l \in {x \in DOMAIN dirty : ~(x[1] = "b" /\ x[2] = b)} |-> dirty[l]]

-----------------------------------------------------------------------------
(* Filling a node that no other thread sees: a is [n, g, blk, heap, wb] *)

\* insert_to_overflow_stash_without_cost: a new block is persistent at once, a record
\* in a block that has room is not flushed here.  The first block of a partition is
\* allocated into P_data_slots_, in place of the array.
IntoOverflow(a, p, at, rec) ==
  IF at[2] # 0
  THEN LET b   == a.n.idx[p][at[1]][at[2]].b
           off == FreeOffset(a.n.idx[p][at[1]][at[2]])
           old == a.blk[b].slot[off]
       IN  [n |-> insert_overflowfp_to_meta(index_overflow_stash_insert_kv(a.n, p, b, off),
                                            rec.k, <<"b", b, off>>),
            g |-> a.g, heap |-> a.heap, blk |-> [a.blk EXCEPT ![b].slot[off] = rec],
            wb |-> [l \in DOMAIN a.wb \cup {<<"b", b, off>>} |->
                      IF l = <<"b", b, off>> THEN {old, [old EXCEPT !.v = rec.v]} ELSE a.wb[l]]]
  ELSE LET b    == Allocated(a.blk, a.heap)
           last == a.n.last[p]
           made == WithBlock(a.blk, b, NewBlock(a.blk, b, p, rec))
           n    == AttachBlock(a.n, p, at[1], b, {0})
       IN  [n |-> insert_overflowfp_to_meta(
                    IF last = 0 THEN [n EXCEPT !.first = b, !.P_data_slots_ = <<"b", b>>] ELSE n,
                    rec.k, <<"b", b, 0>>),
            g |-> a.g, heap |-> a.heap \cup {<<"b", b>>},
            blk |-> IF last = 0 THEN [made EXCEPT ![b].link = a.n.first]
                    ELSE [made EXCEPT ![last].next = b],
            wb |-> Persisted(a.wb, b)]
insert_to_stash_without_cost(a, rec) ==
  LET s == find_free_pos_in_stash(a.n, predict_position(a.n, rec.k))
      p == parameter_pos(a.n, rec.k)
  IN  With([a EXCEPT !.n.si = @ + 1, !.n.nk[p] = @ + 1], LAMBDA c :
        IF s < 0 THEN With(IndexRoom(c.n.idx[p]), LAMBDA at : IntoOverflow(c, p, at, rec))
        ELSE [c EXCEPT !.n = insert_overflowfp_to_meta(
                [c.n EXCEPT !.slot[c.n.real + s] = rec, !.sbit = @ \cup {s}],
                rec.k, <<"n", c.g, c.n.real + s>>)])
IntoArray(a, i, rec) ==
  [a EXCEPT !.n = set_fingerprint([a.n EXCEPT !.slot[i] = rec,
                                              !.nk[parameter_pos(a.n, rec.k)] = @ + 1], i, rec.k)]
\* insert_to_the_node: the first free slot of the window, else stash or overflow.
insert_to_the_node(a, rec) ==
  LET free == Window(a.n, rec.k) \ a.n.bit
  IN  IF free = {} THEN insert_to_stash_without_cost(a, rec) ELSE IntoArray(a, Min(free), rec)
\* resize_from_existing places the records side by side in ascending order.
PlaceNext(a, rec) ==
  LET m  == predict_position(a.n, rec.k)
      at == Max({m} \cup {i + 1 : i \in a.n.bit})
  IN  IF at - m >= PROBING_LENGTH THEN insert_to_stash_without_cost(a, rec)
      ELSE IntoArray(a, at, rec)

\* initialize allocates the array into P_data_slots_.
Fresh(shape, num, g) ==
  With(With(shape, Zeroed), LAMBDA n :
    [n EXCEPT !.thr = Thresholds(n, num), !.P_data_slots_ = <<"a", g>>, !.data = g])
\* bulk_load of the first node: density 0.7, a stash of 5%.
bulk_load(recs) ==
  Fold(insert_to_the_node,
       [n |-> Fresh(initialize(Len(recs), 7, <<5, 100>>, 1, "none", 0), Len(recs), 1),
        g |-> 1, blk |-> <<>>, heap |-> {<<"n", 1>>, <<"a", 1>>}, wb |-> <<>>],
       recs)

-----------------------------------------------------------------------------
(* Records and searches *)

Rec(loc) == IF loc[1] = "n" THEN nd[loc[2]].slot[loc[3]] ELSE blk[loc[2]].slot[loc[3]]
ArrayHits(n, k) == {i \in Window(n, k) : n.slot[i].k = k}
FingerHits(n, k) ==
  {e.loc : e \in {f \in Fingers(n, meta_pos(n, k)) : f.fp = hashcode1B[k] /\ Rec(f.loc).k = k}}
\* linear_probing_negative_search: the duplicate check of insert, by bitmap and fingerprint.
linear_probing_negative_search(n, k) ==
  \/ \E i \in ArrayHits(n, k) : i \in n.bit /\ n.fp[i] = hashcode1B[k]
  \/ FingerHits(n, k) # {}
\* erase, update: the keys of the window as they are in PM, then the fingers.
Where(n, g, k) ==
  IF ArrayHits(n, k) # {} THEN {<<"n", g, Min(ArrayHits(n, k))>>} ELSE FingerHits(n, k)

\* The blocks of a node: along link_ the first block of a partition, along next_ its
\* others.  A walk that the code would not end is cut off.
Chain(b, bs) ==
  LET go[i \in 0..Len(bs), c \in 0..Len(bs)] ==
        IF i = 0 \/ c = 0 THEN <<>> ELSE <<c>> \o go[i - 1, bs[c].next]
  IN  go[Len(bs), b]
Links(first, bs) ==
  LET go[i \in 0..Len(bs), c \in 0..Len(bs)] ==
        IF i = 0 \/ c = 0 THEN <<>> ELSE <<c>> \o go[i - 1, bs[c].link]
  IN  go[Len(bs), first]
Blocks(first, bs) ==
  With(Links(first, bs),
       LAMBDA ls : Ext!FlattenSeq([i \in DOMAIN ls |-> Chain(ls[i], bs)]))
Range1(s) == {s[i] : i \in DOMAIN s}
Used(n, i) == n.slot[i].k # InvalidKey
Held(n, bs) ==
  {r \in Range1(n.slot) \cup UNION {Range1(bs[b].slot) : b \in Range1(Blocks(n.first, bs))} :
     r.k # InvalidKey}
Lookup(recs, k) == IF \E r \in recs : r.k = k THEN (CHOOSE r \in recs : r.k = k).v ELSE 0

\* recover_node: the DRAM side again, from the records; its locks are free.
RecoverSlot(n, g, i) ==
  LET k == n.slot[i].k
      c == [n EXCEPT !.nk[parameter_pos(n, k)] = @ + 1]
  IN  IF ~Used(n, i) THEN n
      ELSE IF i < n.real THEN set_fingerprint(c, i, k)
      ELSE insert_overflowfp_to_meta([c EXCEPT !.sbit = @ \cup {i - n.real}, !.si = @ + 1],
                                     k, <<"n", g, i>>)
BlockBits(b) == {j \in 0..(BlockSlots - 1) : b.slot[j].k # InvalidKey}
RecoverRecord(n, b, k, j) ==
  insert_overflowfp_to_meta([n EXCEPT !.nk[parameter_pos(n, k)] = @ + 1, !.si = @ + 1],
                            k, <<"b", b, j>>)
RecoverBlock(n, b) ==
  LET p  == blk[b].pp
      js == {j \in DOMAIN n.idx[p] : Len(n.idx[p][j]) < IndexLength}
      a  == AttachBlock(n, p, IF js = {} THEN 0 ELSE Min(js), b, BlockBits(blk[b]))
  IN  Fold(LAMBDA x, j : IF j \in BlockBits(blk[b])
                                 THEN RecoverRecord(x, b, blk[b].slot[j].k, j) ELSE x,
                   a, [i \in 1..BlockSlots |-> i - 1])
recover_node(n, g) ==
  Fold(RecoverBlock,
    Fold(LAMBDA x, i : RecoverSlot(x, g, i),
                 [Zeroed(n) EXCEPT !.lock = Free, !.lver = global_version],
                 [i \in 1..(n.real + n.stash) |-> i - 1]),
    Blocks(n.first, blk))

-----------------------------------------------------------------------------
(* The calls *)

Go(t, pc) == th' = [th EXCEPT ![t].pc = pc]
Node(t) == nd[th[t].g]
Part(t) == parameter_pos(Node(t), th[t].k)
TwoLock(t) == two_lock(Node(t), th[t].k)
Locked(n, p) == [n EXCEPT !.pl[p].set = TRUE]
\* release_lock counts the version on and leaves the lock bit set.
StillLocked(n, p) == [n EXCEPT !.pl[p].ver = @ + 1]
Released(n, p) == [n EXCEPT !.pl[p] = [set |-> FALSE, ver |-> @.ver + 1]]
SetNode(g, n) == nd' = [nd EXCEPT ![g] = n]
PairsOf(m, ks) == {[k |-> k, v |-> m[k]] : k \in ks}

Call(t) ==
  /\ th[t].pc = "idle" /\ left[t] > 0
  /\ \E c \in sc.calls[t] :
       LET watch == IF c.op = "search" THEN {c.k} ELSE IF c.op = "scan" THEN Keys ELSE {}
       IN  th' = [th EXCEPT ![t] = [Idle EXCEPT
             !.pc = "leaf", !.op = c.op, !.k = c.k, !.v = c.v,
             !.seen = PairsOf(map, watch), !.must = {k \in watch : map[k] # 0}]]
  /\ left' = [left EXCEPT ![t] = @ - 1]
  /\ UNCHANGED <<pmem, global_version, map, fatal, sc, crashes>>

\* get_leaf, and recover_node when the node has not been used since the restart.
StartScan(k, n) ==
  [i |-> parameter_pos(n, k), start |-> predict_position(n, k), min |-> k, out |-> <<>>, cur |-> <<>>,
   unchecked |-> FALSE, safe |-> FALSE, tmp |-> <<>>]
GetLeaf(t) ==
  /\ th[t].pc = "leaf"
  /\ nd' = IF nd[root].lver = global_version THEN nd
           ELSE [nd EXCEPT ![root] = recover_node(@, root)]
  /\ th' = [th EXCEPT ![t].g = root, ![t].i = 0,
              ![t].pc = IF t \in Writers THEN "test" ELSE IF t \in Readers THEN "version" ELSE "scan",
              ![t].scan = IF t \in Scanners THEN StartScan(th[t].k, nd[root]) ELSE @]
  /\ UNCHANGED <<blk, heap, wb, fwb, desc, rlog, root, map, fatal>>

\* insert, erase and update: a node in an SMO is left alone, the call looks again.
TestLock(t) ==
  /\ th[t].pc = "test"
  /\ Go(t, IF Node(t).lock.set THEN "leaf" ELSE "try")
  /\ UNCHANGED <<pmem, map, fatal>>
TryLock(t) ==
  /\ th[t].pc = "try"
  /\ \/ /\ ~Node(t).pl[Part(t)].set
        /\ SetNode(th[t].g, Locked(Node(t), Part(t)))
        /\ Go(t, IF TwoLock(t) THEN "lock2" ELSE "work")
     \/ /\ Node(t).pl[Part(t)].set /\ Node(t).lock.set
        /\ nd' = nd /\ Go(t, "leaf")
  /\ UNCHANGED <<blk, heap, wb, fwb, desc, rlog, root, map, fatal>>
SecondLock(t) ==
  /\ th[t].pc = "lock2" /\ ~Node(t).pl[Part(t) + 1].set
  /\ SetNode(th[t].g, Locked(Node(t), Part(t) + 1))
  /\ Go(t, "work")
  /\ UNCHANGED <<blk, heap, wb, fwb, desc, rlog, root, map, fatal>>

\* insert: where the record goes; the slot of the stash is claimed at once.
Found(t, loc) == th' = [th EXCEPT ![t].pc = "store", ![t].loc = loc]
ChooseOverflow(t, at) ==
  IF at[2] = 0 THEN Go(t, "alloc")
  ELSE Found(t, <<"b", Node(t).idx[Part(t)][at[1]][at[2]].b,
                  FreeOffset(Node(t).idx[Part(t)][at[1]][at[2]])>>)
ChooseStash(t, s) ==
  IF s < 0 THEN ChooseOverflow(t, IndexRoom(Node(t).idx[Part(t)])) /\ nd' = nd
  ELSE /\ Found(t, <<"n", th[t].g, Node(t).real + s>>)
       /\ SetNode(th[t].g, [Node(t) EXCEPT !.sbit = @ \cup {s}])
ChooseSlot(t) ==
  /\ th[t].pc = "work" /\ th[t].op = "insert"
  /\ IF linear_probing_negative_search(Node(t), th[t].k) THEN Go(t, "release2") /\ nd' = nd
     ELSE IF Window(Node(t), th[t].k) \subseteq Node(t).bit
     THEN ChooseStash(t, find_free_pos_in_stash(Node(t), predict_position(Node(t), th[t].k)))
     ELSE /\ Found(t, <<"n", th[t].g, Min(Window(Node(t), th[t].k) \ Node(t).bit)>>)
          /\ nd' = nd
  /\ UNCHANGED <<blk, heap, wb, fwb, desc, rlog, root, map, fatal>>

\* The key is stored before the payload.
KeyFirst(old, new) == {old, [old EXCEPT !.k = new.k]}
\* A record is stored payload first; both are in one cache line, so that the media
\* has a prefix of the stores until the flush.
Versions(old, new) == {old, [old EXCEPT !.v = new.v]}
Put(loc, new, n) ==
  /\ nd' = IF loc[1] = "n" THEN [nd EXCEPT ![n] = [@ EXCEPT !.slot[loc[3]] = new]] ELSE nd
  /\ blk' = IF loc[1] = "b" THEN [blk EXCEPT ![loc[2]].slot[loc[3]] = new] ELSE blk
Dirty(loc, olds) ==
  wb' = [l \in DOMAIN wb \cup {loc} |->
           IF l # loc THEN wb[l] ELSE IF l \in DOMAIN wb THEN wb[l] \cup olds ELSE olds]
Clean(loc) == wb' = [l \in DOMAIN wb \ {loc} |-> wb[l]]
StoreRecord(t) ==
  /\ th[t].pc = "store"
  /\ Put(th[t].loc, [k |-> th[t].k, v |-> th[t].v], th[t].g)
  /\ Dirty(th[t].loc, Versions(Rec(th[t].loc), [k |-> th[t].k, v |-> th[t].v]))
  /\ Go(t, "flush")
  /\ UNCHANGED <<heap, fwb, desc, rlog, root, map, fatal>>

\* insert_to_overflow_stash_with_sync without room: a block with the record in it.  The
\* first one of a partition is allocated into the log and then linked by CAS.
AllocateBlock(t) ==
  LET b == Allocated(blk, heap)
      p == Part(t)
      new == WithBlock(blk, b, NewBlock(blk, b, p, [k |-> th[t].k, v |-> th[t].v]))
      first == Node(t).last[p] = 0
  IN
  /\ th[t].pc = "alloc"
  /\ blk' = IF first THEN new ELSE [new EXCEPT ![Node(t).last[p]].next = b]
  /\ desc' = IF first THEN [desc EXCEPT ![t] = [cur |-> th[t].g, new |-> b]] ELSE desc
  /\ SetNode(th[t].g, AttachBlock(Node(t), p, IndexRoom(Node(t).idx[p])[1], b, {0}))
  /\ th' = [th EXCEPT ![t].pc = IF first THEN "link" ELSE "flush", ![t].loc = <<"b", b, 0>>]
  /\ heap' = heap \cup {<<"b", b>>} /\ wb' = Persisted(wb, b)
  /\ UNCHANGED <<fwb, rlog, root, map, fatal>>
link_overflow_stash_with_sync(t) ==
  /\ th[t].pc = "link"
  /\ blk' = [blk EXCEPT ![th[t].loc[2]].link = Node(t).first]
  /\ SetNode(th[t].g, [Node(t) EXCEPT !.first = th[t].loc[2]])
  /\ fwb' = [fwb EXCEPT ![th[t].g] = @ \cup {Node(t).first}]
  /\ Go(t, "linked")
  /\ UNCHANGED <<heap, wb, desc, rlog, root, map, fatal>>
FlushLink(t) ==
  /\ th[t].pc = "linked"
  /\ fwb' = [fwb EXCEPT ![th[t].g] = {}]
  /\ desc' = [desc EXCEPT ![t].cur = 0]
  /\ Go(t, "flush")
  /\ UNCHANGED <<nd, blk, heap, wb, rlog, root, map, fatal>>

\* The flush makes the call count; only then the DRAM side learns of the record.
Watched(r, m) ==
  IF r.op \notin {"search", "scan"} THEN r
  ELSE [r EXCEPT !.seen = @ \cup PairsOf(m, {e.k : e \in @}), !.must = {k \in @ : m[k] # 0}]
Commit(t, v) ==
  /\ map' = [map EXCEPT ![th[t].k] = v]
  /\ th' = [u \in Threads |-> IF u = t THEN [th[t] EXCEPT !.pc = "release2", !.done = TRUE]
                              ELSE Watched(th[u], map')]
Recorded(n, loc, k) ==
  IF loc[1] = "n" /\ loc[3] < n.real THEN set_fingerprint(n, loc[3], k)
  ELSE [insert_overflowfp_to_meta(n, k, loc) EXCEPT !.si = @ + 1]
Slotted(n, loc, p) ==
  IF loc[1] = "n" THEN n ELSE index_overflow_stash_insert_kv(n, p, loc[2], loc[3])
FlushInsert(t) ==
  /\ th[t].pc = "flush"
  /\ Clean(th[t].loc)
  /\ SetNode(th[t].g, [Recorded(Slotted(Node(t), th[t].loc, Part(t)), th[t].loc, th[t].k)
                         EXCEPT !.nk[Part(t)] = @ + 1])
  /\ Commit(t, th[t].v)
  /\ UNCHANGED <<blk, heap, fwb, desc, rlog, root, fatal>>

\* erase: the key becomes the invalid key, and after the flush the slot is free again.
EraseRecord(t) ==
  /\ th[t].pc = "work" /\ th[t].op = "remove"
  /\ IF Where(Node(t), th[t].g, th[t].k) = {}
     THEN Go(t, "release2") /\ UNCHANGED <<nd, blk, wb>>
     ELSE \E loc \in Where(Node(t), th[t].g, th[t].k) :
            /\ Put(loc, [Rec(loc) EXCEPT !.k = InvalidKey], th[t].g)
            /\ Dirty(loc, {Rec(loc)})
            /\ th' = [th EXCEPT ![t].pc = "erased", ![t].loc = loc]
  /\ UNCHANGED <<heap, fwb, desc, rlog, root, map, fatal>>
\* The finger of the erased record stays; or the slot of the stash is not given back.
KeepsFinger(n, loc, k, p) ==
  IF loc[1] = "n" /\ loc[3] < n.real THEN unset_fingerprint(n, loc[3])
  ELSE IF loc[1] = "n" THEN [n EXCEPT !.sbit = @ \ {loc[3] - n.real}]
  ELSE erase_from_overflow_stash(n, p, loc[2], loc[3])
KeepsStashBit(n, loc, k, p) ==
  IF loc[1] = "n" /\ loc[3] < n.real THEN unset_fingerprint(n, loc[3])
  ELSE LET c == [n EXCEPT !.fing[meta_pos(n, k)] = DropFinger(@, loc)]
       IN  IF loc[1] = "n" THEN c ELSE erase_from_overflow_stash(c, p, loc[2], loc[3])
Forgotten(n, loc, k, p) ==
  IF loc[1] = "n" /\ loc[3] < n.real THEN unset_fingerprint(n, loc[3])
  ELSE LET c == [n EXCEPT !.fing[meta_pos(n, k)] = DropFinger(@, loc)]
       IN  IF loc[1] = "n" THEN [c EXCEPT !.sbit = @ \ {loc[3] - n.real}]
           ELSE erase_from_overflow_stash(c, p, loc[2], loc[3])
FlushErase(t) ==
  /\ th[t].pc = "erased"
  /\ Clean(th[t].loc)
  /\ SetNode(th[t].g, [Forgotten(Node(t), th[t].loc, th[t].k, Part(t)) EXCEPT !.nk[Part(t)] = @ - 1])
  /\ fatal' = (fatal \/ (th[t].loc[1] = "b"
                           /\ \A e \in Indexed(Node(t), Part(t)) : e.b # th[t].loc[2]))
  /\ Commit(t, 0)
  /\ UNCHANGED <<blk, heap, fwb, desc, rlog, root>>

UpdateRecord(t) ==
  /\ th[t].pc = "work" /\ th[t].op = "update"
  /\ IF Where(Node(t), th[t].g, th[t].k) = {}
     THEN Go(t, "release2") /\ UNCHANGED <<nd, blk, wb>>
     ELSE \E loc \in Where(Node(t), th[t].g, th[t].k) :
            /\ Put(loc, [Rec(loc) EXCEPT !.v = th[t].v], th[t].g)
            /\ Dirty(loc, {Rec(loc)})
            /\ th' = [th EXCEPT ![t].pc = "updated", ![t].loc = loc]
  /\ UNCHANGED <<heap, fwb, desc, rlog, root, map, fatal>>
FlushUpdate(t) ==
  /\ th[t].pc = "updated"
  /\ Clean(th[t].loc)
  /\ Commit(t, th[t].v)
  /\ UNCHANGED <<nd, blk, heap, fwb, desc, rlog, root, fatal>>

\* The second partition is released first; an insert then looks whether the node is full.
ReleaseSecond(t) ==
  /\ th[t].pc = "release2"
  /\ nd' = IF TwoLock(t) THEN [nd EXCEPT ![th[t].g] = Released(@, Part(t) + 1)] ELSE nd
  /\ Go(t, IF th[t].op = "insert" /\ th[t].done THEN "full" ELSE "release")
  /\ UNCHANGED <<blk, heap, wb, fwb, desc, rlog, root, map, fatal>>
total_keys_in_node(n) == MapThenSumSet(LAMBDA p : n.nk[p], DOMAIN n.nk)
Full(n, p) == n.nk[p] >= n.thr[p] /\ total_keys_in_node(n) * 10 > n.limit
ReleaseFirst(t) ==
  /\ \/ th[t].pc = "release"
     \/ th[t].pc = "full" /\ (~Full(Node(t), Part(t)) \/ Node(t).lock.set)
  /\ SetNode(th[t].g, Released(Node(t), Part(t)))
  /\ th' = [th EXCEPT ![t] = Idle]
  /\ UNCHANGED <<blk, heap, wb, fwb, desc, rlog, root, map, fatal>>

-----------------------------------------------------------------------------
(* The SMO of a full node: insert_unsafe with result 5 *)

LockNode(t) ==
  /\ th[t].pc = "full" /\ Full(Node(t), Part(t)) /\ ~Node(t).lock.set
  /\ SetNode(th[t].g, [Released(Node(t), Part(t)) EXCEPT !.lock.set = TRUE])
  /\ th' = [th EXCEPT ![t].pc = "all", ![t].i = 0]
  /\ UNCHANGED <<blk, heap, wb, fwb, desc, rlog, root, map, fatal>>
get_all_locks_in_node(t) ==
  /\ th[t].pc = "all" /\ ~Node(t).pl[th[t].i].set
  /\ SetNode(th[t].g, Locked(Node(t), th[t].i))
  /\ th' = [th EXCEPT ![t].i = @ + 1, ![t].pc = IF th[t].i + 1 = Node(t).parts THEN "build" ELSE "all"]
  /\ UNCHANGED <<blk, heap, wb, fwb, desc, rlog, root, map, fatal>>

\* get_sorted_array: what the bitmap and the fingers lead to; the count must be right.
Known(n) ==
  {n.slot[i] : i \in n.bit} \cup UNION {{Rec(e.loc) : e \in Fingers(n, m)} : m \in DOMAIN n.fing}
Entries(n) ==
  Cardinality(n.bit) + MapThenSumSet(LAMBDA m : Cardinality(Fingers(n, m)), DOMAIN n.fing)
Sorted(recs) ==
  [i \in 1..Cardinality(recs) |->
     CHOOSE r \in recs : Cardinality({x \in recs : x.k < r.k}) = i - 1]
StashFrac(n) ==
  LET total == total_keys_in_node(n) IN
  IF n.si * 20 < total THEN <<5, 100>> ELSE IF n.si * 10 > total * 3 THEN <<3, 10>> ELSE <<n.si, total>>
\* New_from_existing copies the node, its lock and version too.  Of the copy P_data_slots_
\* and first_block_ are persistent, data_slots_ is not.
NewNode(t) ==
  /\ th[t].pc = "build"
  /\ nd' = Append(nd, [Node(t) EXCEPT !.first = 0, !.P_data_slots_ = OID_NULL, !.data = 0,
                                      !.lag = IF "old" \in sc.lag THEN {Node(t).data} ELSE {}])
  /\ heap' = heap \cup {<<"n", Len(nd) + 1>>}
  /\ fwb' = Append(fwb, {})
  /\ rlog' = [rlog EXCEPT ![t] = [progress |-> 1, cur |-> th[t].g, new |-> Len(nd) + 1]]
  /\ Go(t, "array")
  /\ UNCHANGED <<blk, wb, desc, root, map, fatal>>
\* resize_from_existing: sort the records, initialize the copy, place them one by one.
New(t) == nd[rlog[t].new]
SortedSlots(t) == Sorted(Known(Node(t)))
AllocateArray(t) ==
  LET g   == rlog[t].new
      num == Cardinality(Known(Node(t)))
  IN
  /\ th[t].pc = "array"
  /\ fatal' = (Entries(Node(t)) # total_keys_in_node(Node(t)))
  /\ \E keep \in sc.keep :
       SetNode(g, [Fresh(initialize(num, 5, StashFrac(Node(t)), g, keep, Node(t).cap), num, g)
                     EXCEPT !.lock = New(t).lock, !.lver = New(t).lver,
                            !.lag = New(t).lag \cup (IF "null" \in sc.lag THEN {0} ELSE {})])
  /\ heap' = heap \cup {<<"a", g>>}
  /\ th' = [th EXCEPT ![t].pc = "fill", ![t].i = 1]
  /\ UNCHANGED <<blk, wb, fwb, desc, rlog, root, map>>
\* A block in P_data_slots_ is linked into first_block_ by a store of its own.
FillNode(t) ==
  /\ th[t].pc = "fill"
  /\ \E recs \in {SortedSlots(t)} :
     \E a \in {Fold(PlaceNext,
                    [n |-> New(t), g |-> rlog[t].new, blk |-> blk, heap |-> heap, wb |-> wb],
                    <<recs[th[t].i]>>)} :
       /\ SetNode(rlog[t].new, [a.n EXCEPT !.first = New(t).first])
       /\ blk' = a.blk /\ heap' = a.heap /\ wb' = a.wb
       /\ th' = [th EXCEPT ![t].i = @ + 1,
                           ![t].pc = IF a.n.first # New(t).first THEN "link_new"
                                     ELSE IF th[t].i = Len(recs) THEN "persist" ELSE "fill"]
  /\ UNCHANGED <<fwb, desc, rlog, root, map, fatal>>
LinkNew(t) ==
  /\ th[t].pc = "link_new"
  /\ SetNode(rlog[t].new, [New(t) EXCEPT !.first = New(t).P_data_slots_[2]])
  /\ Go(t, IF th[t].i > Cardinality(Known(Node(t))) THEN "persist" ELSE "fill")
  /\ UNCHANGED <<blk, heap, wb, fwb, desc, rlog, root, map, fatal>>
\* It persists the array with the stash, and the node; of the blocks only what came
\* with a new one is persistent.
PersistNode(t) ==
  /\ th[t].pc = "persist"
  /\ SetNode(rlog[t].new, [New(t) EXCEPT !.lag = {}])
  /\ Go(t, "redo")
  /\ UNCHANGED <<blk, heap, wb, fwb, desc, rlog, root, map, fatal>>
RedoMark(t) ==
  /\ th[t].pc = "redo"
  /\ rlog' = [rlog EXCEPT ![t].progress = 2]
  /\ Go(t, "install")
  /\ UNCHANGED <<nd, blk, heap, wb, fwb, desc, root, map, fatal>>
Install(t) ==
  /\ th[t].pc = "install"
  /\ root' = rlog[t].new
  /\ Go(t, "finish")
  /\ UNCHANGED <<nd, blk, heap, wb, fwb, desc, rlog, map, fatal>>
\* release_lock of the new node, safe_delete_node of the old one, clear_log.  Free and
\* safe_destory know the blocks of the old node from its DRAM indexes.
Oids(bs) == [i \in DOMAIN bs |-> <<"b", bs[i]>>]
Destroyed(n, g) ==
  {<<"n", g>>, <<"a", n.data>>} \cup {<<"b", e.b>> : e \in UNION {Indexed(n, p) : p \in DOMAIN n.idx}}
FinishResize(t) ==
  /\ th[t].pc = "finish"
  /\ SetNode(rlog[t].new, [New(t) EXCEPT !.lock = [set |-> FALSE, ver |-> @.ver + 1]])
  /\ heap' = heap \ Destroyed(Node(t), th[t].g)
  /\ fatal' = (fatal \/ ~(Destroyed(Node(t), th[t].g) \subseteq heap))
  /\ rlog' = [rlog EXCEPT ![t] = NoLog]
  /\ th' = [th EXCEPT ![t] = Idle]
  /\ UNCHANGED <<blk, wb, fwb, desc, root, map>>

-----------------------------------------------------------------------------
(* search: find_payload and linear_probing_search_exact *)

\* The version is read only once, and only the lock bit is looked at again.
OnlyLockBit(t) == Node(t).pl[Part(t)].set
Changed(t) == LET l == Node(t).pl[Part(t)] IN l.set \/ l.ver # th[t].ver
ReadVersion(t) ==
  /\ th[t].pc = "version"
  /\ th' = [th EXCEPT ![t].pc = IF Node(t).pl[Part(t)].set THEN "leaf" ELSE "probe",
                      ![t].ver = Node(t).pl[Part(t)].ver, ![t].i = predict_position(Node(t), th[t].k)]
  /\ UNCHANGED <<pmem, map, fatal>>
Probe(t) ==
  /\ th[t].pc = "probe"
  /\ th' = IF Node(t).slot[th[t].i].k = th[t].k
           THEN [th EXCEPT ![t].pc = "payload", ![t].loc = <<"n", th[t].g, th[t].i>>]
           ELSE IF th[t].i + 1 \in Window(Node(t), th[t].k) THEN [th EXCEPT ![t].i = @ + 1]
           ELSE [th EXCEPT ![t].pc = "fingers"]
  /\ UNCHANGED <<pmem, map, fatal>>
ProbeFingers(t) ==
  /\ th[t].pc = "fingers"
  /\ IF FingerHits(Node(t), th[t].k) = {} THEN th' = [th EXCEPT ![t].pc = "check", ![t].ret = 0]
     ELSE \E loc \in FingerHits(Node(t), th[t].k) :
            th' = [th EXCEPT ![t].pc = "payload", ![t].loc = loc]
  /\ UNCHANGED <<pmem, map, fatal>>
ReadPayload(t) ==
  /\ th[t].pc = "payload"
  /\ th' = [th EXCEPT ![t].pc = "check", ![t].ret = Rec(th[t].loc).v]
  /\ UNCHANGED <<pmem, map, fatal>>
CheckVersion(t) ==
  /\ th[t].pc = "check"
  /\ Go(t, IF Changed(t) THEN "leaf" ELSE "answer")
  /\ UNCHANGED <<pmem, map, fatal>>
Return(t) ==
  /\ th[t].pc = "answer"
  /\ th' = [th EXCEPT ![t] = Idle]
  /\ UNCHANGED <<pmem, map, fatal>>

-----------------------------------------------------------------------------
(* range_scan_by_size *)

add_to_sorted_result(cur, rec, total) ==
  LET full == Len(cur) >= total
      room == IF full THEN SubSeq(cur, 1, total - 1) ELSE cur
      j    == Cardinality({i \in DOMAIN room : room[i].k <= rec.k})
  IN  IF full /\ cur[total].k < rec.k THEN cur
      ELSE SubSeq(room, 1, j) \o <<rec>> \o SubSeq(room, j + 1, Len(room))
\* The records of a MetaInfo in the order of its bits, or of its fingers.
SlotsOf(n, m, from) ==
  LET base == [i \in 1..TABLE_FACTOR |-> m * TABLE_FACTOR + i - 1]
  IN  With(SelectSeq(base, LAMBDA x : x \in n.bit /\ x >= from),
           LAMBDA is : [i \in DOMAIN is |-> n.slot[is[i]]])
FingersOf(n, m) ==
  With(SelectSeq(Ext!FlattenSeq(n.fing[m]), LAMBDA e : e # NoFinger),
       LAMBDA es : [i \in DOMAIN es |-> Rec(es[i].loc)])
AddAll(cur, recs, total) ==
  With(recs, LAMBDA s : Fold(LAMBDA c, r : add_to_sorted_result(c, r, total), cur, s))
NotBelow(recs, k) == SelectSeq(recs, LAMBDA r : r.k >= k)

\* range_scan_one_parameter between its two looks at the lock: the MetaInfos of a
\* partition until enough is found, then the slots of the next one.
OneMeta(n, s, total, last, a, m) ==
  LET more(cur, recs) == AddAll(cur, NotBelow(recs, s.min), total)
  IN  IF a.stop THEN a
      ELSE With(more(a.cur, SlotsOf(n, m, s.start) \o FingersOf(n, m)), LAMBDA cur :
             LET stop == Len(cur) >= total
                 safe == stop /\ m < last
             IN  [cur |-> IF safe THEN more(cur, SlotsOf(n, m + 1, 0)) ELSE cur,
                  stop |-> stop, safe |-> safe])
LastMeta(n, i) == Clamp(((i + 1) * n.scale) \div TABLE_FACTOR - 1, 0, metas(n) - 1)
CollectPartition(n, s, total) ==
  LET from == s.start \div TABLE_FACTOR
      last == LastMeta(n, s.i)
  IN  Fold(LAMBDA a, m : OneMeta(n, s, total, last, a, m),
                   [cur |-> <<>>, stop |-> FALSE, safe |-> FALSE],
                   [j \in 1..Max({0, last - from + 1}) |-> from + j - 1])

Remaining(t) == th[t].v - Len(th[t].scan.out)
\* The partition is unlocked, or the node is in an SMO and is read as it is.
ScanVersion(t, i, next) ==
  /\ ~Node(t).pl[i].set \/ Node(t).lock.set
  /\ th' = [th EXCEPT ![t].pc = next, ![t].ver = Node(t).pl[i].ver,
                      ![t].scan.unchecked = @ \/ Node(t).pl[i].set]
  /\ UNCHANGED <<pmem, map, fatal>>
ScanChanged(t, i) ==
  /\ ~th[t].scan.unchecked
  /\ Node(t).pl[i].set \/ Node(t).pl[i].ver # th[t].ver
ScanPartition(t) == th[t].pc = "scan" /\ ScanVersion(t, th[t].scan.i, "collect")
Collect(t) ==
  /\ th[t].pc = "collect"
  /\ \E a \in {CollectPartition(Node(t), th[t].scan, Remaining(t))} :
       th' = [th EXCEPT ![t].pc = "collected", ![t].scan.cur = a.cur, ![t].scan.safe = a.safe]
  /\ UNCHANGED <<pmem, map, fatal>>
Last(s) == s[Len(s)]
ToNext(s, n) ==
  [s EXCEPT !.i = @ + 1, !.start = (s.i + 1) * n.scale, !.out = @ \o s.cur, !.cur = <<>>,
            !.min = IF s.cur = <<>> THEN @ ELSE Last(s.cur).k, !.unchecked = FALSE]
\* What follows once the records of partition s.i, and below the largest of them also
\* those of the first slots behind it, are in s.cur.
Advance(t, s) ==
  IF Len(s.cur) >= Remaining(t) \/ s.i = Node(t).parts - 1
  THEN th' = [th EXCEPT ![t].pc = "answer", ![t].scan = [s EXCEPT !.out = @ \o s.cur, !.cur = <<>>]]
  ELSE th' = [th EXCEPT ![t].pc = "scan", ![t].scan = ToNext(s, Node(t))]
CheckPartition(t) ==
  /\ th[t].pc = "collected"
  /\ LET s == th[t].scan
         behind == s.cur # <<>> /\ s.i # Node(t).parts - 1
                     /\ (Len(s.cur) >= Remaining(t) => ~s.safe)
     IN  IF ScanChanged(t, s.i)
         THEN th' = [th EXCEPT ![t].pc = "scan", ![t].scan.cur = <<>>, ![t].scan.safe = FALSE]
         ELSE IF behind THEN th' = [th EXCEPT ![t].pc = "behind", ![t].scan.unchecked = FALSE]
         ELSE Advance(t, s)
  /\ UNCHANGED <<pmem, map, fatal>>
\* add_data_slots_to_result_with_less
ScanBehind(t) == th[t].pc = "behind" /\ ScanVersion(t, th[t].scan.i + 1, "collect_less")
CollectLess(t) ==
  /\ th[t].pc = "collect_less"
  /\ LET s == th[t].scan
         m == Clamp(((s.i + 1) * Node(t).scale) \div TABLE_FACTOR, 0, metas(Node(t)) - 1)
     IN  th' = [th EXCEPT ![t].pc = "collected_less",
                  ![t].scan.tmp = SelectSeq(SlotsOf(Node(t), m, 0),
                                            LAMBDA r : r.k >= th[t].k /\ r.k < Last(s.cur).k)]
  /\ UNCHANGED <<pmem, map, fatal>>
CheckLess(t) ==
  /\ th[t].pc = "collected_less"
  /\ LET s == th[t].scan IN
     IF ScanChanged(t, s.i + 1) THEN Go(t, "behind")
     ELSE Advance(t, [s EXCEPT !.cur = AddAll(@, s.tmp, Remaining(t)), !.tmp = <<>>])
  /\ UNCHANGED <<pmem, map, fatal>>

-----------------------------------------------------------------------------
(* A power failure and recovery() *)

\* recover_reclaim: what P_data_slots_ has if nothing else leads to it, the array, the blocks.
recover_reclaim(n, bs) ==
  (IF n.P_data_slots_ \in {OID_NULL, <<"a", n.data>>, <<"b", n.first>>} THEN <<>>
   ELSE <<n.P_data_slots_>>)
    \o (IF n.data = 0 THEN <<>> ELSE <<<<"a", n.data>>>>)
    \o Oids(Blocks(n.first, bs))
\* recover_from_log: a block that its node does not link is freed (is_overflow_stash_linked
\* follows link_); a new node that is not complete is given up, a complete one replaces the old.
Unlinked(n, bs, w) ==
  IF desc[w].cur # 0 /\ desc[w].new \notin Range1(Links(n[desc[w].cur].first, bs))
  THEN <<<<"b", desc[w].new>>>> ELSE <<>>
GivenUp(n, bs, w) ==
  LET g == IF rlog[w].progress = 1 THEN rlog[w].new ELSE rlog[w].cur
  IN  IF rlog[w].progress = 0 THEN <<>> ELSE recover_reclaim(n[g], bs) \o <<<<"n", g>>>>
Freed(n, bs) ==
  With(Ext!SetToSeq(Writers),
       LAMBDA ws : Ext!FlattenSeq([i \in DOMAIN ws |->
                     Unlinked(n, bs, ws[i]) \o GivenUp(n, bs, ws[i])]))
FreesTwice(frees) == Cardinality(Range1(frees) \cap heap) # Len(frees)
Resizers == {w \in Writers : rlog[w].progress = 2}
RootAfter == IF Resizers = {} THEN root ELSE rlog[CHOOSE w \in Resizers : TRUE].new
OnMedia(loc, pick, rec) == IF loc \in DOMAIN pick THEN pick[loc] ELSE rec
MediaNode(g, pick, first, data) ==
  Zeroed([nd[g] EXCEPT !.slot = [i \in DOMAIN @ |-> OnMedia(<<"n", g, i>>, pick, @[i])],
                       !.first = first[g], !.data = data[g], !.lag = {}, !.lock = Free])
MediaBlocks(pick) ==
  [b \in DOMAIN blk |-> [blk[b] EXCEPT !.slot =
     [j \in DOMAIN @ |-> OnMedia(<<"b", b, j>>, pick, @[j])]]]
Picks(choices) ==
  {f \in [DOMAIN choices -> UNION {choices[x] : x \in DOMAIN choices}] :
     \A x \in DOMAIN choices : f[x] \in choices[x]}
Restart(n, bs, r) ==
  /\ nd' = n /\ blk' = bs /\ root' = r
  /\ \E frees \in {Freed(n, bs)} :
       heap' = heap \ Range1(frees) /\ fatal' = (fatal \/ FreesTwice(frees))
  /\ map' = [k \in Keys |-> Lookup(Held(n[r], bs), k)]
Crash ==
  /\ crashes > 0 /\ crashes' = crashes - 1
  /\ \E pick \in Picks([l \in DOMAIN wb |-> wb[l] \cup {Rec(l)}]),
        first \in Picks([g \in DOMAIN nd |-> fwb[g] \cup {nd[g].first}]),
        data \in Picks([g \in DOMAIN nd |-> nd[g].lag \cup {nd[g].data}]) :
       Restart([g \in DOMAIN nd |-> MediaNode(g, pick, first, data)], MediaBlocks(pick), RootAfter)
  /\ wb' = <<>> /\ fwb' = [g \in DOMAIN nd |-> {}]
  /\ desc' = [w \in Writers |-> NoDesc] /\ rlog' = [w \in Writers |-> NoLog]
  /\ global_version' = global_version + 1
  /\ th' = [t \in Threads |-> Idle]
  /\ UNCHANGED <<sc, left>>

-----------------------------------------------------------------------------
Loaded(s) == bulk_load([i \in DOMAIN s.load |-> [k |-> s.load[i], v |-> 1]])
Init ==
  /\ sc \in Scenarios
  /\ nd = <<Loaded(sc).n>> /\ blk = Loaded(sc).blk /\ heap = Loaded(sc).heap
  /\ wb = Loaded(sc).wb /\ fwb = <<{}>>
  /\ desc = [w \in Writers |-> NoDesc] /\ rlog = [w \in Writers |-> NoLog]
  /\ root = 1 /\ global_version = 0
  /\ th = [t \in Threads |-> Idle]
  /\ map = [k \in Keys |-> IF k \in Range1(sc.load) THEN 1 ELSE 0]
  /\ fatal = FALSE /\ left = sc.quota /\ crashes = sc.crashes

WriterStep(t) ==
  \/ TestLock(t) \/ TryLock(t) \/ SecondLock(t) \/ ChooseSlot(t) \/ StoreRecord(t)
  \/ AllocateBlock(t) \/ link_overflow_stash_with_sync(t) \/ FlushLink(t) \/ FlushInsert(t)
  \/ EraseRecord(t) \/ FlushErase(t) \/ UpdateRecord(t) \/ FlushUpdate(t)
  \/ ReleaseSecond(t) \/ ReleaseFirst(t)
  \/ LockNode(t) \/ get_all_locks_in_node(t) \/ NewNode(t) \/ AllocateArray(t)
  \/ FillNode(t) \/ LinkNew(t) \/ PersistNode(t) \/ RedoMark(t) \/ Install(t) \/ FinishResize(t)
ReaderStep(t) ==
  ReadVersion(t) \/ Probe(t) \/ ProbeFingers(t) \/ ReadPayload(t) \/ CheckVersion(t)
ScannerStep(t) ==
  \/ ScanPartition(t) \/ Collect(t) \/ CheckPartition(t)
  \/ ScanBehind(t) \/ CollectLess(t) \/ CheckLess(t)
ThreadStep(t) ==
  /\ ~fatal
  /\ GetLeaf(t) \/ WriterStep(t) \/ ReaderStep(t) \/ ScannerStep(t) \/ Return(t)
  /\ UNCHANGED <<global_version, sc, left, crashes>>
Next == Crash \/ \E t \in Threads : Call(t) \/ ThreadStep(t)
Spec == Init /\ [][Next]_vars /\ \A t \in Threads : WF_vars(ThreadStep(t))

-----------------------------------------------------------------------------
(* Properties *)

AllIdle == \A t \in Threads : th[t].pc = "idle"
Current == nd[root]
Ready == Current.lver = global_version

\* Every index, capacity and pointer of the nodes and blocks is in its range.
TypeOK ==
  /\ root \in DOMAIN nd /\ map \in [Keys -> Nat] /\ Len(fwb) = Len(nd)
  /\ \A l \in DOMAIN wb : Rec(l).k \in Keys \cup {InvalidKey}
  /\ \A g \in DOMAIN nd :
       /\ nd[g].bit \subseteq 0..(nd[g].real - 1) /\ nd[g].sbit \subseteq 0..(nd[g].stash - 1)
       /\ nd[g].first \in 0..Len(blk)
       /\ \A p \in DOMAIN nd[g].nk : nd[g].nk[p] >= 0
  /\ \A b \in DOMAIN blk : blk[b].next \in 0..Len(blk) /\ blk[b].link \in 0..Len(blk)

HomesIn(n, k) ==
  {<<"n", root, i>> : i \in {j \in DOMAIN n.slot : n.slot[j].k = k}}
    \cup UNION {{<<"b", b, j>> : j \in {x \in DOMAIN blk[b].slot : blk[b].slot[x].k = k}} :
                  b \in Range1(Blocks(n.first, blk))}
InWindow(n, k, loc) == loc[1] = "n" /\ loc[3] \in Window(n, k)
Reached(n, k, loc) ==
  IF loc[1] = "n" /\ loc[3] < n.real
  THEN InWindow(n, k, loc) /\ loc[3] \in n.bit /\ n.fp[loc[3]] = hashcode1B[k]
  ELSE [loc |-> loc, fp |-> hashcode1B[k]] \in Fingers(n, meta_pos(n, k))
\* Whenever no writer holds a partition, the DRAM side is exactly what the records
\* of the partition say: bits, fingers, stash bits, block indexes and counters.
MirrorsMemory ==
  Ready => \A p \in DOMAIN Current.pl : ~Current.pl[p].set =>
    LET n  == Current
        ks == {k \in Keys : parameter_pos(n, k) = p}
        there == {k \in ks : HomesIn(n, k) # {}}
    IN  /\ there = {k \in ks : map[k] # 0}
        /\ n.nk[p] = Cardinality(there)
        /\ \A k \in there : Cardinality(HomesIn(n, k)) = 1
        /\ \A k \in there : \A loc \in HomesIn(n, k) : Reached(n, k, loc) /\ Rec(loc).v = map[k]
        /\ \A i \in 0..(n.real - 1) : i \div n.scale = p => (i \in n.bit <=> Used(n, i))
        /\ \A e \in Indexed(n, p) : e.bits = BlockBits(blk[e.b])
        /\ \A m \in DOMAIN n.fing : (m * TABLE_FACTOR) \div n.scale = p =>
             \A f \in Fingers(n, m) : \E k \in ks : f.loc \in HomesIn(n, k)

\* get_sorted_array and erase never give up, and nothing is freed twice.
NeverExits == ~fatal

\* All three: the node in memory is what its records make it, at any moment.  It fails
\* with ReuseBlocks: OverflowStash::New leaves next_ as it is, and recover_node follows it.
WellFormed == TypeOK /\ MirrorsMemory /\ NeverExits

\* Nothing leaks, and nothing in use is freed: between calls, also after a failure in the
\* middle of a resize, exactly the current node, its array and the blocks it links are
\* allocated, and the claimed slots of the stash are the used ones.  It fails with
\* ReuseBlocks, and where data_slots_ reaches the media late (lag) and either a resize
\* overflows or the media has the pointer of the old node.
NoLeak ==
  AllIdle =>
    /\ heap = {<<"n", root>>, <<"a", root>>} \cup Range1(Oids(Blocks(Current.first, blk)))
    /\ Ready => Current.sbit = {s \in 0..(Current.stash - 1) : Used(Current, Current.real + s)}

\* A search answers with a value that its key had while it ran (find_payload).
SearchAnswers ==
  \A t \in Readers : th[t].pc = "answer" => [k |-> th[t].k, v |-> th[t].ret] \in th[t].seen

\* "needs to guarantee the atomic read of each record": what a scan returns was there
\* while it ran.
ScanReadsRecords ==
  \A t \in Scanners : th[t].pc = "answer" =>
    \A i \in DOMAIN th[t].scan.out : th[t].scan.out[i] \in th[t].seen

\* A scan is sorted and has, up to its end, every key that was there all the time.
ScanComplete ==
  \A t \in Scanners : th[t].pc = "answer" =>
    LET out == th[t].scan.out
        ks  == {out[i].k : i \in DOMAIN out}
    IN  /\ \A i \in 1..(Len(out) - 1) : out[i].k <= out[i + 1].k
        /\ Len(out) <= th[t].v
        /\ \A k \in th[t].must : k >= th[t].k =>
             k \in ks \/ (Len(out) = th[t].v /\ k > Last(out).k)

\* The readers that take no lock.
ReadsAnswer == SearchAnswers /\ ScanReadsRecords /\ ScanComplete

\* A linearizable map whose finished calls survive a power failure, at every step of a
\* call and of a resize.  It fails with ReuseBlocks (an erased key is back), and where a
\* resize puts a second record into an overflow block.
Dur == INSTANCE DurableMap WITH
  Clients <- Writers,
  Initially <- {[k \in Keys |-> IF k \in Range1(s.load) THEN 1 ELSE 0] : s \in Scenarios},
  dict <- map,
  call <- [t \in Writers |-> [op |-> th[t].op, k |-> th[t].k, v |-> th[t].v, done |-> th[t].done]],
  epoch <- global_version
Durable == Dur!DurSpec

\* Every call returns: partitions are locked from left to right, and a writer that
\* meets an SMO lets go.
CallsReturn == \A t \in Threads : th[t].pc # "idle" ~> th[t].pc = "idle"
=============================================================================
