------------------------------- MODULE LBTree -------------------------------
(***************************************************************************)
(* LB+Tree (src/lbtree.cc, include/lbtree): a B+-tree whose inner nodes    *)
(* are in DRAM and whose leaves, with a bitmap, fingerprints and two       *)
(* alternating next pointers each, are in NVM.  A hardware transaction     *)
(* searches the tree and sets lock bits; it is one step, and waits while   *)
(* a lock bit on its way is set.  Behind it a call changes the nodes it    *)
(* has locked, step by step, and flushes them line by line.                *)
(***************************************************************************)
EXTENDS Integers, Sequences, FiniteSets, FiniteSetsExt

CONSTANTS
  Vals,              \* values of the clients' calls; 0 stands for "absent"
  LEAF_KEY_NUM,      \* slots of a leaf
  NON_LEAF_KEY_NUM,  \* keys of an inner node
  LineSlots,         \* LineSlots[i]: the slots of cache line i of a leaf
  Word1,             \* the slots whose fingerprints are in the second meta word
  Loads,             \* what to bulk load: [keys, bfill (in %), threads], and the
                     \* keys of the calls after that
  Writers, Scanners, Finders,
  WriterOps, ScanSizes,
  DeepWriters,       \* writers that may run at once above level 1
  GapOps,            \* operations that may commit between the two stores of a collapse
  LoadFlushed,       \* whether the caches have written the loaded leaves back
  MaxCalls, MaxReads,   \* calls of the writers, and of the others
  MaxLeaves, MaxNodes

Threads == Writers \cup Scanners \cup Finders
Null == 0
Slots == 0..(LEAF_KEY_NUM - 1)
Lines == DOMAIN LineSlots
LastLine == Max(Lines)
Line(slot) == CHOOSE i \in Lines : slot \in LineSlots[i]
last_slot_in_line(slot) == Max(LineSlots[Line(slot)])
hashcode1B(k) == k % 2
KeysOf(s) == {s[i] : i \in DOMAIN s}
Keys == UNION {KeysOf(b.keys) \cup b.targets : b \in Loads}

ASSUME LBTreeAssumption ==
  /\ LEAF_KEY_NUM \in Nat /\ LEAF_KEY_NUM >= 2 /\ NON_LEAF_KEY_NUM \in Nat \ {0, 1}
  /\ UNION {LineSlots[i] : i \in Lines} = Slots /\ 0 \in LineSlots[0]
  /\ Vals \subseteq Nat \ {0} /\ Keys \subseteq Nat \ {0}
  /\ GapOps \subseteq {"find", "insert", "update", "remove"} /\ LoadFlushed \in BOOLEAN

VARIABLES
  leaves,      \* leaf |-> [bitmap, lock, alt, fgpt, ent, next], as the program reads it
  dur,         \* leaf |-> line |-> the contents the line may have in NVM
  first_leaf, durFirst,
  nodes,       \* inner node |-> [lock, k, ch]
  tree_root, root_level,
  nLeaves, nNodes, freeLeaves, freeNodes,   \* the pools
  load, calls, reads, th,
  seen         \* reader |-> what the list has held since its call began

nvm  == <<leaves, dur, first_leaf, durFirst>>
dram == <<nodes, tree_root, root_level>>
pool == <<nLeaves, nNodes, freeLeaves, freeNodes>>
vars == <<nvm, dram, pool, load, calls, reads, th, seen>>

-----------------------------------------------------------------------------
(* Nodes *)

FreshLeaf == [bitmap |-> {}, lock |-> FALSE, alt |-> 0, fgpt |-> [s \in Slots |-> 0],
              ent |-> [s \in Slots |-> [k |-> 0, v |-> 0]], next |-> [i \in 0..1 |-> Null]]
FreshNode == [lock |-> FALSE, k |-> <<>>, ch |-> <<>>]

num(leaf) == Cardinality(leaf.bitmap)
nextSibling(leaf) == leaf.next[leaf.alt]
ch(p, i) == nodes[p].ch[i + 1]

\* What a cache line of a leaf holds: line 0 also the meta words, the last one
\* also the next pointers.  The lock bit means nothing after a restart.
Content(leaf, i) ==
  [ent |-> [s \in LineSlots[i] |-> leaf.ent[s]],
   meta |-> IF i = 0 THEN <<leaf.bitmap, leaf.alt, leaf.fgpt>> ELSE <<>>,
   next |-> IF i = LastLine THEN leaf.next ELSE <<>>]

\* The leaf after a sequence of stores, any prefix of which may reach NVM.
Stored(d, l, versions) ==
  [d EXCEPT ![l] = [i \in Lines |-> @[i] \cup {Content(versions[j], i) : j \in DOMAIN versions}]]
Store(l, versions) ==
  /\ leaves' = [leaves EXCEPT ![l] = versions[Len(versions)]]
  /\ dur' = Stored(dur, l, versions)

\* clwb of some lines of a leaf, and sfence
Flushed(d, l, lines) ==
  [d EXCEPT ![l] = [i \in Lines |-> IF i \in lines THEN {Content(leaves[l], i)} ELSE @[i]]]

\* setBothWords: the second word first
SetBothWords(leaf, m) ==
  <<[leaf EXCEPT !.fgpt = [s \in Slots |-> IF s \in Word1 THEN m.fgpt[s] ELSE @[s]]], m>>

Hits(leaf, k) ==
  {s \in leaf.bitmap : leaf.fgpt[s] = hashcode1B(k) /\ leaf.ent[s].k = k}

\* The child to follow: the last one whose key is not greater.
Pos(p, k) == Cardinality({i \in DOMAIN nodes[p].k : nodes[p].k[i] <= k})

\* parray and ppos
Path(k) ==
  LET at[i \in 0..root_level] ==
        IF i = root_level THEN tree_root ELSE ch(at[i + 1], Pos(at[i + 1], k))
  IN  at
PathPos(path, k) == [i \in 1..root_level |-> Pos(path[i], k)]
Unlocked(path) ==
  (\A i \in DOMAIN path \ {0} : ~nodes[path[i]].lock) /\ ~leaves[path[0]].lock

\* Between the two stores of a collapse (root_level, then tree_root) the old root
\* is tree_root at the level of its child.  Above the leaves its lock stops a
\* transaction; at level 0 it is read as a leaf, where the lock's 1 is no lock bit
\* but the bit of slot 0, so that no key is found in it.
LeafGap == root_level = 0 /\ \E t \in Threads : th[t].pc = "collapsed"
Commits(op, k) == IF LeafGap THEN op \in GapOps ELSE Unlocked(Path(k))
Found(k) == IF LeafGap THEN {} ELSE Hits(leaves[Path(k)[0]], k)

-----------------------------------------------------------------------------
(* Bulk load *)

Ceiling(a, b) == (a + b - 1) \div b
Chunks(s, n) == [i \in 1..Ceiling(Len(s), n) |-> SubSeq(s, (i - 1) * n + 1, Min({i * n, Len(s)}))]
Concat(ss) == LET c[i \in 0..Len(ss)] == IF i = 0 THEN <<>> ELSE c[i - 1] \o ss[i] IN c[Len(ss)]
FillNum(n, bfill) == Max({1, (n * bfill) \div 100})

\* The keys of each loading thread: the last one takes the rest.
Shares(s, threads) ==
  LET per == Len(s) \div threads
  IN  [i \in 1..threads |->
         SubSeq(s, (i - 1) * per + 1, IF i = threads THEN Len(s) ELSE i * per)]

\* bulkloadSubtree: the leaves of one thread's keys
SubtreeLeaves(keys, bfill) == Chunks(keys, FillNum(LEAF_KEY_NUM, bfill))
TopLevel(n, bfill) ==
  LET size[i \in Nat] == IF i = 0 THEN n
                         ELSE Ceiling(size[i - 1], FillNum(NON_LEAF_KEY_NUM, bfill) + 1)
  IN  CHOOSE i \in 0..n : size[i] = 1 /\ \A j \in 0..(i - 1) : size[j] > 1

\* A node is the left keys and the numbers of its children.
Group(kids, base, fan) ==
  LET g == Chunks([i \in DOMAIN kids |-> [left |-> kids[i].left, id |-> base + i]], fan)
  IN  [i \in DOMAIN g |-> [left |-> g[i][1].left, kids |-> g[i]]]

\* Level i of the tree: each thread groups its own nodes up to the top level of
\* thread 0 (getKeyPtrLevel), bulkloadToptree groups all of them above that.
Level(shares, bfill) ==
  LET fan == FillNum(NON_LEAF_KEY_NUM, bfill) + 1
      top == TopLevel(Len(SubtreeLeaves(shares[1], bfill)), bfill)
      own[t \in DOMAIN shares, i \in Nat] ==
        IF i = 0 THEN [j \in DOMAIN SubtreeLeaves(shares[t], bfill) |->
                         [left |-> SubtreeLeaves(shares[t], bfill)[j][1], kids |-> <<>>]]
        ELSE Group(own[t, i - 1], Len(Concat([u \in 1..(t - 1) |-> own[u, i - 1]])), fan)
      all[i \in Nat] ==
        IF i <= top THEN Concat([t \in DOMAIN shares |-> own[t, i]])
        ELSE Group(all[i - 1], 0, fan)
  IN  all

LoadedLeaf(keys, next) ==
  LET from == LEAF_KEY_NUM - Len(keys) IN
  [FreshLeaf EXCEPT
     !.bitmap = {s \in Slots : s >= from}, !.next[0] = next,
     !.ent = [s \in Slots |-> IF s >= from THEN [k |-> keys[s - from + 1], v |-> keys[s - from + 1]]
                              ELSE @[s]],
     !.fgpt = [s \in Slots |-> IF s >= from THEN hashcode1B(keys[s - from + 1]) ELSE 0]]

NoCall == [op |-> "none", k |-> 0, v |-> 0, pc |-> "idle", path |-> <<>>, pos |-> <<>>,
           slot |-> 0, key |-> 0, ptr |-> Null, lev |-> 0, total |-> 0, done |-> FALSE,
           old |-> 0, out |-> {}]

\* bulkload: inner nodes of level i are numbered behind those of the levels below.
\* No leaf is flushed, only the pointer to the first one (setFirstLeaf).
Init ==
  \E b \in Loads :
    LET s      == b.keys
        bfill  == b.bfill
        n      == b.threads
        shares == Shares(s, n)
        lv     == Level(shares, bfill)
        rl     == CHOOSE i \in 0..Len(s) : Len(lv[i]) = 1 /\ \A j \in 0..(i - 1) : Len(lv[j]) > 1
        base   == [i \in 0..(rl + 1) |->
                      IF i = 0 THEN 0 ELSE Len(Concat([j \in 1..(i - 1) |-> lv[j]]))]
        data   == Concat([t \in 1..n |-> SubtreeLeaves(shares[t], bfill)])
        level(p) == CHOOSE i \in 1..rl : base[i] < p /\ p <= base[i + 1]
    IN
    /\ leaves = [l \in 1..MaxLeaves |->
         IF l > Len(data) THEN FreshLeaf
         ELSE LoadedLeaf(data[l], IF l < Len(data) THEN l + 1 ELSE Null)]
    /\ nodes = [p \in 1..MaxNodes |->
         IF p > base[rl + 1] THEN FreshNode
         ELSE LET i == level(p)
                  g == lv[i][p - base[i]].kids
              IN  [lock |-> FALSE, k |-> [j \in 1..(Len(g) - 1) |-> g[j + 1].left],
                   ch |-> [j \in DOMAIN g |-> base[i - 1] + g[j].id]]]
    /\ root_level = rl /\ tree_root = IF rl = 0 THEN 1 ELSE base[rl + 1]
    /\ nLeaves = Len(data) /\ nNodes = base[rl + 1]
    /\ dur = [l \in 1..MaxLeaves |-> [i \in Lines |->
         {Content(leaves[l], i)} \cup (IF LoadFlushed THEN {} ELSE {Content(FreshLeaf, i)})]]
    /\ first_leaf = 1 /\ durFirst = {1}
    /\ freeLeaves = [t \in Threads |-> <<>>] /\ freeNodes = [t \in Threads |-> <<>>]
    /\ load = b /\ calls = 0 /\ reads = 0 /\ th = [t \in Threads |-> NoCall]
    /\ seen = [t \in Scanners \cup Finders |-> [always |-> {}, ever |-> {}]]

-----------------------------------------------------------------------------
(* The pools: a list of freed nodes per thread, then fresh memory *)

LeafFor(t) == IF freeLeaves[t] # <<>> THEN Head(freeLeaves[t]) ELSE nLeaves + 1
TakeLeaf(t) ==
  IF freeLeaves[t] # <<>>
  THEN freeLeaves' = [freeLeaves EXCEPT ![t] = Tail(@)] /\ UNCHANGED nLeaves
  ELSE nLeaves' = nLeaves + 1 /\ UNCHANGED freeLeaves
NodeFor(t) == IF freeNodes[t] # <<>> THEN Head(freeNodes[t]) ELSE nNodes + 1
TakeNode(t) ==
  /\ IF freeNodes[t] # <<>>
     THEN freeNodes' = [freeNodes EXCEPT ![t] = Tail(@)] /\ UNCHANGED nNodes
     ELSE nNodes' = nNodes + 1 /\ UNCHANGED freeNodes
  /\ UNCHANGED <<nLeaves, freeLeaves>>
FreeNode(t, p) ==
  /\ freeNodes' = [freeNodes EXCEPT ![t] = <<p>> \o @]
  /\ UNCHANGED <<nLeaves, nNodes, freeLeaves>>

-----------------------------------------------------------------------------
(* Calls *)

Set(t, c) == th' = [th EXCEPT ![t] = c]
Return(t) == Set(t, NoCall)

\* The list of leaves, from first_leaf
Chain ==
  LET at[i \in 0..MaxLeaves] ==
        IF i = 0 THEN first_leaf
        ELSE IF at[i - 1] = Null THEN Null ELSE nextSibling(leaves[at[i - 1]])
  IN  {at[i] : i \in 0..MaxLeaves} \ {Null}
Pairs == UNION {{leaves[l].ent[s] : s \in leaves[l].bitmap} : l \in Chain}
ValueIn(ps, k) == IF \E e \in ps : e.k = k THEN (CHOOSE e \in ps : e.k = k).v ELSE 0
Value(k) == LET ps == Pairs IN ValueIn(ps, k)
Dict == LET ps == Pairs IN [k \in Keys |-> ValueIn(ps, k)]

Begin(t, op, k, v) ==
  /\ th[t].pc = "idle"
  /\ Set(t, [NoCall EXCEPT !.op = op, !.k = k, !.v = v, !.pc = "search"])
  /\ UNCHANGED <<nvm, dram, pool>>

Busy == {t \in Writers : th[t].pc # "idle"}
Call ==
  \/ /\ calls < MaxCalls /\ calls' = calls + 1 /\ UNCHANGED reads
     /\ root_level > 1 => Cardinality(Busy) < DeepWriters
     /\ nLeaves + Cardinality(Busy) < MaxLeaves
     /\ nNodes + (root_level + 1) * (Cardinality(Busy) + 1) <= MaxNodes
     /\ \E t \in Writers, k \in load.targets :
          \/ \E op \in WriterOps \cap {"insert", "update"}, v \in Vals : Begin(t, op, k, v)
          \/ "remove" \in WriterOps /\ Begin(t, "remove", k, 0)
  \/ /\ reads < MaxReads /\ reads' = reads + 1 /\ UNCHANGED calls
     /\ \/ \E t \in Scanners, k \in load.targets, n \in ScanSizes : Begin(t, "scan", k, n)
        \/ \E t \in Finders, k \in load.targets : Begin(t, "find", k, 0)

\* The transaction of every call: it commits when nothing on its way is locked.
Search(t, op) == th[t].pc = "search" /\ th[t].op = op /\ Commits(op, th[t].k)

Locked(path, levels) ==
  [p \in DOMAIN nodes |->
     IF \E i \in levels : path[i] = p THEN [nodes[p] EXCEPT !.lock = TRUE] ELSE nodes[p]]

FaultyInsertLocks(path) == {}
\* The ancestors that a split may reach: up to the first that is not full.
InsertLocks(path) ==
  {i \in 1..root_level : \A j \in 1..(i - 1) : Len(nodes[path[j]].k) = NON_LEAF_KEY_NUM}

\* insert, part 1: a key that is there is left alone.  In a gap the entry goes to
\* the node that is about to be freed.
InsertSearch(t) ==
  LET c    == th[t]
      path == Path(c.k)
      leaf == leaves[path[0]]
      full == num(leaf) = LEAF_KEY_NUM
  IN
  /\ Search(t, "insert")
  /\ \/ /\ LeafGap \/ Found(c.k) # {}
        /\ Return(t) /\ UNCHANGED <<leaves, nodes>>
     \/ /\ ~LeafGap /\ Found(c.k) = {}
        /\ leaves' = [leaves EXCEPT ![path[0]].lock = TRUE]
        /\ nodes' = IF full THEN Locked(path, InsertLocks(path)) ELSE nodes
        /\ Set(t, [c EXCEPT !.pc = IF full THEN "split" ELSE "place", !.path = path,
                            !.pos = PathPos(path, c.k), !.old = Value(c.k)])
  /\ UNCHANGED <<dur, first_leaf, durFirst, tree_root, root_level, pool>>

\* ENTRY_MOVING: the empty slots behind slot in its line take entries of line 0.
Take(leaf, slot) ==
  IF slot \in LineSlots[0] THEN {}
  ELSE {s \in (slot + 1)..last_slot_in_line(slot) : s \notin leaf.bitmap}

FaultyPlaced(leaf, k, v) ==
  LET slot == Min(Slots \ leaf.bitmap)
      to   == Take(leaf, slot)
  IN  [leaf EXCEPT !.ent[slot] = [k |-> k, v |-> v], !.fgpt[slot] = hashcode1B(k),
                   !.bitmap = (@ \cup {slot}) \ {Cardinality({x \in to : x < s}) : s \in to}]

\* The leaf with the entry in its first empty slot
Placed(leaf, k, v) ==
  LET slot    == Min(Slots \ leaf.bitmap)
      to      == Take(leaf, slot)
      from(s) == Cardinality({x \in to : x < s})
      pick(f, new) == [s \in Slots |-> CASE s = slot -> new [] s \in to -> f[from(s)] [] OTHER -> f[s]]
  IN  [leaf EXCEPT !.ent = pick(@, [k |-> k, v |-> v]), !.fgpt = pick(@, hashcode1B(k)),
                   !.bitmap = (@ \cup {slot} \cup to) \ {from(s) : s \in to}]

\* A split unlocks the leaf in the meta word, except the root; otherwise the
\* lock bit is cleared after the flush (UNLOCK_AFTER).
MetaLock(c) == c.ptr = Null \/ root_level = 0

\* insert, part 2: the entry, and in line 0 the meta word in the same line
Place(t) ==
  LET c    == th[t]
      l    == c.path[0]
      leaf == leaves[l]
      new  == [Placed(leaf, c.k, c.v) EXCEPT !.lock = MetaLock(c)]
      slot == Min(Slots \ leaf.bitmap)
      torn == [leaf EXCEPT !.ent[slot].k = c.k]
      whole == [leaf EXCEPT !.ent[slot] = [k |-> c.k, v |-> c.v]]
  IN
  /\ c.pc = "place"
  /\ \/ /\ slot \in LineSlots[0]
        /\ Store(l, <<torn, whole, new>>)
        /\ Set(t, [c EXCEPT !.pc = "flush", !.done = TRUE])
     \/ /\ slot \notin LineSlots[0]
        /\ Store(l, <<torn, whole, [leaf EXCEPT !.ent = new.ent]>>)
        /\ Set(t, [c EXCEPT !.pc = "meta", !.slot = slot])
  /\ UNCHANGED <<first_leaf, durFirst, dram, pool>>

FaultyMetaFlush(l, slot) == dur
\* clwb of the line of the entry, before the meta words
MetaFlush(l, slot) == Flushed(dur, l, {Line(slot)})

SetMeta(t) ==
  LET c   == th[t]
      l   == c.path[0]
      new == [Placed(leaves[l], c.k, c.v) EXCEPT !.lock = MetaLock(c)]
      vs  == SetBothWords(leaves[l], new)
  IN
  /\ c.pc = "meta"
  /\ leaves' = [leaves EXCEPT ![l] = new]
  /\ dur' = Stored(MetaFlush(l, c.slot), l, vs)
  /\ Set(t, [c EXCEPT !.pc = "flush", !.done = TRUE])
  /\ UNCHANGED <<first_leaf, durFirst, dram, pool>>

FaultyFlush(t) ==
  /\ th[t].pc = "flush"
  /\ dur' = Flushed(dur, th[t].path[0], {0})
  /\ IF th[t].ptr = Null THEN Return(t)
     ELSE Set(t, [th[t] EXCEPT !.pc = "up", !.lev = 1, !.total = root_level])
  /\ UNCHANGED <<leaves, first_leaf, durFirst, dram, pool>>

\* clwb of line 0: the call is over, or goes on to the parent of a split leaf.
Flush(t) ==
  LET c == th[t]
      l == c.path[0]
  IN
  /\ c.pc = "flush"
  /\ dur' = Flushed(dur, l, {0})
  /\ IF c.ptr = Null
     THEN leaves' = [leaves EXCEPT ![l].lock = FALSE] /\ Return(t)
     ELSE UNCHANGED leaves /\ Set(t, [c EXCEPT !.pc = "up", !.lev = 1, !.total = root_level])
  /\ UNCHANGED <<first_leaf, durFirst, dram, pool>>

\* qsortBleaf: the slots in the order of their keys
Sorted(leaf) ==
  [i \in Slots |-> CHOOSE s \in Slots :
     Cardinality({x \in Slots : leaf.ent[x].k < leaf.ent[s].k}) = i]

\* A full leaf: the upper half goes to a new one, with the key if it is greater.
Split(t) ==
  LET c     == th[t]
      l     == c.path[0]
      leaf  == leaves[l]
      new   == LeafFor(t)
      half  == LEAF_KEY_NUM \div 2
      pos   == Sorted(leaf)
      key   == leaf.ent[pos[half]].k
      right == c.k > key
      used  == IF right THEN half - 1 ELSE half
      move(f, old, own) ==
        [s \in Slots |-> CASE s >= half -> f[pos[s]] [] s = half - 1 /\ right -> own [] OTHER -> old[s]]
      newp  == [leaves[new] EXCEPT
                  !.bitmap = {s \in Slots : s >= used}, !.lock = FALSE, !.alt = 0,
                  !.ent = move(leaf.ent, @, [k |-> c.k, v |-> c.v]),
                  !.fgpt = move(leaf.fgpt, @, hashcode1B(c.k)),
                  !.next[0] = nextSibling(leaf)]
      oldp  == [leaf EXCEPT !.next[1 - leaf.alt] = new]
  IN
  /\ c.pc = "split"
  /\ leaves' = [leaves EXCEPT ![new] = newp, ![l] = oldp]
  /\ dur' = Stored(Stored(dur, new, <<newp>>), l, <<oldp>>)
  /\ TakeLeaf(t)
  /\ Set(t, [c EXCEPT !.pc = "switch", !.key = key, !.ptr = new])
  /\ UNCHANGED <<first_leaf, durFirst, dram, nNodes, freeNodes>>

\* clwb of the new leaf and of the next pointers
SwitchFlush(l, new) == Flushed(Flushed(dur, new, Lines), l, {LastLine})

\* One word switches to the new next pointer and drops the moved entries.
Switch(t) ==
  LET c     == th[t]
      l     == c.path[0]
      leaf  == leaves[l]
      right == c.k > c.key
      new   == [leaf EXCEPT !.bitmap = {s \in Slots : leaf.ent[s].k < c.key}, !.alt = 1 - @,
                            !.lock = ~right \/ root_level = 0]
  IN
  /\ c.pc = "switch"
  /\ leaves' = [leaves EXCEPT ![l] = new]
  /\ dur' = Stored(SwitchFlush(l, c.ptr), l, SetBothWords(leaf, new))
  /\ Set(t, [c EXCEPT !.pc = "switched", !.done = right])
  /\ UNCHANGED <<first_leaf, durFirst, dram, pool>>

Switched(t) ==
  LET c == th[t] IN
  /\ c.pc = "switched"
  /\ dur' = Flushed(dur, c.path[0], {0})
  /\ Set(t, IF c.done THEN [c EXCEPT !.pc = "up", !.lev = 1, !.total = root_level]
            ELSE [c EXCEPT !.pc = "place"])
  /\ UNCHANGED <<leaves, first_leaf, durFirst, dram, pool>>

InsertAt(s, i, x) == SubSeq(s, 1, i - 1) \o <<x>> \o SubSeq(s, i, Len(s))
RemoveAt(s, i) == SubSeq(s, 1, i - 1) \o SubSeq(s, i + 1, Len(s))

\* insert, part 3: the separator goes into the parent, whose split goes further up.
Up(t) ==
  LET c    == th[t]
      p    == c.path[c.lev]
      i    == c.pos[c.lev] + 1
      k    == InsertAt(nodes[p].k, i, c.key)
      kids == InsertAt(nodes[p].ch, i + 1, c.ptr)
      half == NON_LEAF_KEY_NUM \div 2
      new  == NodeFor(t)
  IN
  /\ c.pc = "up" /\ c.lev <= c.total
  /\ \/ /\ Len(nodes[p].k) < NON_LEAF_KEY_NUM
        /\ nodes' = [nodes EXCEPT ![p] = [lock |-> FALSE, k |-> k, ch |-> kids]]
        /\ Return(t) /\ UNCHANGED pool
     \/ /\ Len(nodes[p].k) = NON_LEAF_KEY_NUM
        /\ nodes' = [nodes EXCEPT
             ![p] = [lock |-> c.lev = c.total, k |-> SubSeq(k, 1, half), ch |-> SubSeq(kids, 1, half + 1)],
             ![new] = [lock |-> FALSE, k |-> SubSeq(k, half + 2, Len(k)),
                       ch |-> SubSeq(kids, half + 2, Len(kids))]]
        /\ TakeNode(t)
        /\ Set(t, [c EXCEPT !.lev = @ + 1, !.key = k[half + 1], !.ptr = new])
  /\ UNCHANGED <<nvm, tree_root, root_level>>

\* The root was split: the new root is published locked, then both are unlocked.
\* Between the stores of root_level and tree_root the old root is locked, also as
\* the lock of an inner node that a transaction takes the meta word of a leaf for.
NewRoot(t) ==
  LET c   == th[t]
      new == NodeFor(t)
      rec == [lock |-> FALSE, k |-> <<c.key>>, ch |-> <<tree_root, c.ptr>>]
  IN
  /\ c.pc = "up" /\ c.lev > c.total
  /\ TakeNode(t)
  /\ tree_root' = new /\ root_level' = c.lev
  /\ \/ /\ c.total > 0
        /\ nodes' = [nodes EXCEPT ![new] = rec, ![tree_root].lock = FALSE]
        /\ UNCHANGED leaves
     \/ /\ c.total = 0
        /\ nodes' = [nodes EXCEPT ![new] = rec]
        /\ leaves' = [leaves EXCEPT ![tree_root].lock = FALSE]
  /\ Return(t)
  /\ UNCHANGED <<dur, first_leaf, durFirst>>

FaultyLeftLeaf(path, pos) ==
  IF root_level > 0 /\ pos[1] >= 1 THEN ch(path[1], pos[1] - 1) ELSE Null

\* The leaf to the left, without a look at the locks of the nodes on the way
LeftLeaf(path, pos) ==
  LET turns == {i \in 1..root_level : pos[i] >= 1}
      j     == Min(turns)
      down[i \in 0..(j - 1)] ==
        IF i = j - 1 THEN ch(path[j], pos[j] - 1)
        ELSE ch(down[i + 1], Len(nodes[down[i + 1]].k))
  IN  IF turns = {} THEN Null ELSE down[0]

\* The ancestors that lose a child: up to the first with another one.
DelLocks(path) ==
  {i \in 1..root_level : \A j \in 1..(i - 1) : nodes[path[j]].k = <<>>}

\* del, part 1
DelSearch(t) ==
  LET c    == th[t]
      path == Path(c.k)
      pos  == PathPos(path, c.k)
      leaf == leaves[path[0]]
      last == num(leaf) = 1
      sib  == IF last THEN LeftLeaf(path, pos) ELSE Null
  IN
  /\ Search(t, "remove")
  /\ \/ Found(c.k) = {} /\ Return(t) /\ UNCHANGED <<leaves, nodes>>
     \/ /\ Found(c.k) # {}
        /\ sib # Null => ~leaves[sib].lock
        /\ leaves' = [l \in DOMAIN leaves |->
             IF l \in {path[0], sib} THEN [leaves[l] EXCEPT !.lock = TRUE] ELSE leaves[l]]
        /\ nodes' = IF last THEN Locked(path, DelLocks(path)) ELSE nodes
        /\ Set(t, [c EXCEPT !.pc = "del", !.path = path, !.pos = pos, !.ptr = sib,
                            !.slot = Min(Found(c.k)), !.old = Value(c.k)])
  /\ UNCHANGED <<dur, first_leaf, durFirst, tree_root, root_level, pool>>

KeepsLeaf(t) == num(leaves[th[t].path[0]]) > 1 \/ root_level = 0

\* del, part 2: the bit of the entry is cleared; Flush ends the call.
DelEntry(t) ==
  LET c    == th[t]
      l    == c.path[0]
  IN
  /\ c.pc = "del" /\ KeepsLeaf(t)
  /\ Store(l, <<[leaves[l] EXCEPT !.bitmap = @ \ {c.slot}]>>)
  /\ Set(t, [c EXCEPT !.pc = "flush", !.done = TRUE, !.ptr = Null])
  /\ UNCHANGED <<first_leaf, durFirst, dram, pool>>

\* del, part 2: a leaf with only this key leaves the list.
Unlink(t) ==
  LET c    == th[t]
      next == nextSibling(leaves[c.path[0]])
      sib  == leaves[c.ptr]
  IN
  /\ c.pc = "del" /\ ~KeepsLeaf(t)
  /\ \/ /\ c.ptr # Null
        /\ Store(c.ptr, <<[sib EXCEPT !.next[sib.alt] = next]>>)
        /\ UNCHANGED <<first_leaf, durFirst>>
     \/ /\ c.ptr = Null
        /\ first_leaf' = next /\ durFirst' = durFirst \cup {next}
        /\ UNCHANGED <<leaves, dur>>
  /\ Set(t, [c EXCEPT !.pc = "unlinked", !.done = TRUE])
  /\ UNCHANGED <<dram, pool>>

UnlinkFlush(c) == IF c.ptr = Null THEN dur ELSE Flushed(dur, c.ptr, {LastLine})

\* The flush; the left leaf is unlocked and the leaf goes to the thread's free
\* list, whose link overwrites its first meta word.
Unlinked(t) ==
  LET c == th[t]
      l == c.path[0]
      gone == [leaves[l] EXCEPT !.bitmap = {}]
  IN
  /\ c.pc = "unlinked"
  /\ leaves' = [x \in DOMAIN leaves |-> CASE x = l -> gone
                  [] x = c.ptr -> [leaves[x] EXCEPT !.lock = FALSE] [] OTHER -> leaves[x]]
  /\ dur' = Stored(UnlinkFlush(c), l, <<gone>>)
  /\ durFirst' = {first_leaf}
  /\ freeLeaves' = [freeLeaves EXCEPT ![t] = <<l>> \o @]
  /\ Set(t, [c EXCEPT !.pc = "down", !.lev = 1])
  /\ UNCHANGED <<first_leaf, dram, nLeaves, nNodes, freeNodes>>

\* del, part 3: a child goes; a node without another child goes, too.
Down(t) ==
  LET c   == th[t]
      p   == c.path[c.lev]
      i   == c.pos[c.lev]
      rec == [nodes[p] EXCEPT !.k = RemoveAt(@, Max({i, 1})), !.ch = RemoveAt(@, i + 1)]
  IN
  /\ c.pc = "down" /\ c.lev \in DOMAIN c.path
  /\ \/ /\ nodes[p].k # <<>> /\ rec.k = <<>> /\ c.lev >= root_level
        /\ nodes' = [nodes EXCEPT ![p] = rec]
        /\ Set(t, [c EXCEPT !.pc = "collapse"]) /\ UNCHANGED pool
     \/ /\ nodes[p].k # <<>> /\ ~(rec.k = <<>> /\ c.lev >= root_level)
        /\ nodes' = [nodes EXCEPT ![p] = [rec EXCEPT !.lock = FALSE]]
        /\ Return(t) /\ UNCHANGED pool
     \/ /\ nodes[p].k = <<>>
        /\ FreeNode(t, p)
        /\ Set(t, [c EXCEPT !.lev = @ + 1]) /\ UNCHANGED nodes
  /\ UNCHANGED <<nvm, tree_root, root_level>>

\* A root with one child goes: two stores that no transaction joins.
Collapse(t) ==
  /\ th[t].pc = "collapse"
  /\ root_level' = root_level - 1
  /\ Set(t, [th[t] EXCEPT !.pc = "collapsed"])
  /\ UNCHANGED <<nvm, nodes, tree_root, pool>>

Collapsed(t) ==
  LET p == th[t].path[th[t].lev] IN
  /\ th[t].pc = "collapsed"
  /\ tree_root' = ch(p, 0)
  /\ FreeNode(t, p)
  /\ Return(t)
  /\ UNCHANGED <<nvm, nodes, root_level>>

\* lbtree_wrapper::update: the value is one word, written under the leaf's lock.
UpdateSearch(t) ==
  LET c    == th[t]
      path == Path(c.k)
      hits == Found(c.k)
  IN
  /\ Search(t, "update")
  /\ \/ hits = {} /\ Return(t) /\ UNCHANGED leaves
     \/ /\ hits # {}
        /\ leaves' = [leaves EXCEPT ![path[0]].lock = TRUE]
        /\ Set(t, [c EXCEPT !.pc = "update", !.path = path, !.slot = Min(hits),
                            !.old = Value(c.k)])
  /\ UNCHANGED <<dur, first_leaf, durFirst, dram, pool>>

Update(t) ==
  LET c == th[t]
      l == c.path[0]
  IN
  /\ c.pc = "update"
  /\ Store(l, <<[leaves[l] EXCEPT !.ent[c.slot].v = c.v]>>)
  /\ Set(t, [c EXCEPT !.pc = "updated", !.done = TRUE])
  /\ UNCHANGED <<first_leaf, durFirst, dram, pool>>

Updated(t) ==
  LET c == th[t]
      l == c.path[0]
  IN
  /\ c.pc = "updated"
  /\ dur' = Flushed(dur, l, {Line(c.slot)})
  /\ leaves' = [leaves EXCEPT ![l].lock = FALSE]
  /\ Return(t)
  /\ UNCHANGED <<first_leaf, durFirst, dram, pool>>

\* lookup: the leaf and the slot; find reads the value after the transaction.
Lookup(t) ==
  LET c    == th[t]
      path == Path(c.k)
      hits == Found(c.k)
  IN
  /\ Search(t, "find")
  /\ Set(t, IF hits = {} THEN [c EXCEPT !.pc = "answer"]
            ELSE [c EXCEPT !.pc = "read", !.path = path, !.slot = Min(hits)])
  /\ UNCHANGED <<nvm, dram, pool>>

FindRead(t) ==
  LET c == th[t] IN
  /\ c.pc = "read"
  /\ Set(t, [c EXCEPT !.pc = "answer", !.v = leaves[c.path[0]].ent[c.slot].v])
  /\ UNCHANGED <<nvm, dram, pool>>

\* rangeScan: the first leaf is locked in the transaction of the search.
ScanSearch(t) ==
  LET path == Path(th[t].k) IN
  /\ Search(t, "scan")
  /\ leaves' = [leaves EXCEPT ![path[0]].lock = TRUE]
  /\ Set(t, [th[t] EXCEPT !.pc = "scan", !.ptr = path[0]])
  /\ UNCHANGED <<dur, first_leaf, durFirst, dram, pool>>

\* The pairs of the locked leaf; if they do not suffice, its sibling is next.
ScanLeaf(t) ==
  LET c    == th[t]
      leaf == leaves[c.ptr]
      out  == c.out \cup {leaf.ent[s] : s \in {x \in leaf.bitmap : leaf.ent[x].k >= c.k}}
      next == nextSibling(leaf)
  IN
  /\ c.pc = "scan"
  /\ IF Cardinality(out) >= c.v \/ next = Null
     THEN /\ leaves' = [leaves EXCEPT ![c.ptr].lock = FALSE]
          /\ Set(t, [c EXCEPT !.pc = "answer", !.out = out])
     ELSE UNCHANGED leaves /\ Set(t, [c EXCEPT !.pc = "sibling", !.key = next, !.out = out])
  /\ UNCHANGED <<dur, first_leaf, durFirst, dram, pool>>

FaultyLockSibling(t) ==
  LET c == th[t] IN
  /\ c.pc = "sibling"
  /\ leaves' = [leaves EXCEPT ![c.ptr].lock = FALSE]
  /\ Set(t, [c EXCEPT !.pc = "scan", !.ptr = c.key])
  /\ UNCHANGED <<dur, first_leaf, durFirst, dram, pool>>

\* lockSibling: the sibling is locked before the leaf is unlocked.
LockSibling(t) ==
  LET c == th[t] IN
  /\ c.pc = "sibling" /\ ~leaves[c.key].lock
  /\ leaves' = [leaves EXCEPT ![c.key].lock = TRUE, ![c.ptr].lock = FALSE]
  /\ Set(t, [c EXCEPT !.pc = "scan", !.ptr = c.key])
  /\ UNCHANGED <<dur, first_leaf, durFirst, dram, pool>>

Answer(t) ==
  /\ th[t].pc = "answer" /\ Return(t)
  /\ UNCHANGED <<nvm, dram, pool>>

Step(t) ==
  \/ InsertSearch(t) \/ Place(t) \/ SetMeta(t) \/ Flush(t) \/ Split(t) \/ Switch(t)
  \/ Switched(t) \/ Up(t) \/ NewRoot(t) \/ DelSearch(t) \/ DelEntry(t) \/ Unlink(t)
  \/ Unlinked(t) \/ Down(t) \/ Collapse(t) \/ Collapsed(t) \/ UpdateSearch(t) \/ Update(t)
  \/ Updated(t) \/ Lookup(t) \/ FindRead(t) \/ ScanSearch(t) \/ ScanLeaf(t) \/ LockSibling(t) \/ Answer(t)

\* A history variable: the pairs that were there all the time, or at any time.
Observe ==
  seen' = [t \in Scanners \cup Finders |->
    IF th'[t].pc = "idle" THEN [always |-> {}, ever |-> {}]
    ELSE LET s == IF th[t].pc = "idle" THEN [always |-> Pairs, ever |-> Pairs] ELSE seen[t]
         IN  [always |-> {e \in s.always : \E x \in Pairs' : x.k = e.k}, ever |-> s.ever \cup Pairs']]

ThreadStep(t) == Step(t) /\ Observe /\ UNCHANGED <<load, calls, reads>>
Next == (Call /\ Observe /\ UNCHANGED load) \/ \E t \in Threads : ThreadStep(t)
Spec == Init /\ [][Next]_vars /\ \A t \in Threads : WF_vars(ThreadStep(t))

-----------------------------------------------------------------------------
(* Properties *)

AllIdle == \A t \in Threads : th[t].pc = "idle"

TypeOK ==
  /\ nLeaves \in 1..MaxLeaves /\ nNodes \in 0..MaxNodes /\ root_level \in 0..3
  /\ tree_root \in IF root_level = 0 /\ ~LeafGap THEN 1..nLeaves ELSE 1..nNodes
  /\ first_leaf \in durFirst /\ durFirst \subseteq 1..nLeaves
  /\ \A l \in 1..nLeaves :
       /\ \A i \in 0..1 : leaves[l].next[i] \in 0..nLeaves
       /\ \A i \in Lines : Content(leaves[l], i) \in dur[l][i]
  /\ \A p \in 1..nNodes : Len(nodes[p].k) <= NON_LEAF_KEY_NUM

\* A transaction that meets no lock bit reads the truth: the tree leads every
\* key to the leaf of the list that has it, also in the middle of a split whose
\* separator is not in the parent yet (insert, del: the order of the unlocks).
\* It fails with "find" in GapOps: see LeafGap.
SearchSeesAll ==
  LET ps == Pairs IN
  \A k \in Keys :
    LET path == Path(k)
        hits == Found(k)
    IN  Commits("find", k) =>
          IF hits = {} THEN ValueIn(ps, k) = 0
          ELSE /\ Cardinality(hits) = 1
               /\ \A s \in hits : leaves[path[0]].ent[s].v = ValueIn(ps, k)

\* check(): the leaves under the inner nodes are the list, none is empty, no node
\* is locked, and every key is where its search ends.
check ==
  LET inner[i \in 0..root_level] ==
        IF i = root_level THEN {tree_root} ELSE UNION {KeysOf(nodes[p].ch) : p \in inner[i + 1]}
      under[i \in 0..root_level, p \in 1..(nLeaves + nNodes)] ==
        IF i = 0 THEN <<p>>
        ELSE Concat([j \in DOMAIN nodes[p].ch |-> under[i - 1, nodes[p].ch[j]]])
      ls == under[root_level, tree_root]
  IN
  /\ ls[1] = first_leaf
  /\ \A i \in 1..root_level : \A p \in inner[i] : ~nodes[p].lock
  /\ \A j \in DOMAIN ls :
       LET leaf == leaves[ls[j]] IN
       /\ num(leaf) >= 1
       /\ ~leaf.lock
       /\ nextSibling(leaf) = IF j < Len(ls) THEN ls[j + 1] ELSE Null
       /\ \A s \in leaf.bitmap : leaf.fgpt[s] = hashcode1B(leaf.ent[s].k)
       /\ \A s \in leaf.bitmap : Path(leaf.ent[s].k)[0] = ls[j]

\* Between calls the structure passes the tree's own integrity check, unless the
\* tree is empty: del keeps the last leaf without a key (lbtree.cc:1424), which
\* check() takes for corruption ("each leaf must have >=1 key", lbtree.h:160).
Empty == root_level = 0 /\ num(leaves[tree_root]) = 0
CheckPasses == AllIdle /\ ~Empty => check

\* What check() asks of the empty tree, too; two removes refute it.
CheckAlwaysPasses == AllIdle => check

\* Both: the leaves and nodes are well formed, and between calls so is the tree.
WellFormed == TypeOK /\ CheckPasses

\* What may be in NVM after a power failure now: every walk along the list,
\* for every combination of the contents its lines may have.
Images(l) ==
  {f \in [Lines -> UNION {dur[l][i] : i \in Lines}] : \A i \in Lines : f[i] \in dur[l][i]}
Visit(w, img) ==
  LET bitmap == img[0].meta[1]
      ent(s) == img[Line(s)].ent[s]
      ks     == {ent(s).k : s \in bitmap}
  IN  [at   |-> img[LastLine].next[img[0].meta[2]],
       got  |-> w.got \cup {ent(s) : s \in bitmap},
       last |-> Max(ks \cup {w.last}),
       ok   |-> /\ w.ok /\ Cardinality(ks) = Cardinality(bitmap)
                /\ \A k \in ks : k > w.last
                /\ \A s \in bitmap : img[0].meta[3][s] = hashcode1B(ent(s).k)]
Walks ==
  LET go[i \in 0..MaxLeaves] ==
        IF i = 0 THEN {[at |-> l, got |-> {}, last |-> 0, ok |-> TRUE] : l \in durFirst}
        ELSE UNION {IF w.at = Null THEN {w} ELSE {Visit(w, img) : img \in Images(w.at)} :
                      w \in go[i - 1]}
  IN  go[MaxLeaves]

\* The flushes and the one-word switches: a power failure at any moment leaves a
\* list that ends and ascends, with exactly the effects of the calls that have
\* returned; the key of a running call has its old or its new value.  It starts
\* when the caches have written the loaded leaves back (LoadFlushed): bulkload
\* flushes none of them, and before that a power failure loses loaded keys.
DurableList ==
  LET now     == Dict
      own(k)  == {t \in Busy : th[t].pc # "search" /\ th[t].k = k}
      fits(k) == IF own(k) = {} THEN {now[k]} ELSE UNION {{th[t].old, th[t].v} : t \in own(k)}
  IN  \A w \in Walks : /\ w.at = Null /\ w.ok
                       /\ \A k \in Keys : ValueIn(w.got, k) \in fits(k)

\* rangeScan beside writers: pairs that were there while it ran, every key that
\* was there all the time up to the last one returned, and as many as asked.
ScanAnswers ==
  \A t \in Scanners : th[t].op = "scan" /\ th[t].pc = "answer" =>
    LET ks     == {e.k : e \in th[t].out}
        answer == {e \in th[t].out : Cardinality({k \in ks : k < e.k}) < th[t].v}
    IN  /\ Cardinality(ks) = Cardinality(th[t].out) /\ answer \subseteq seen[t].ever
        /\ \A e \in seen[t].always :
             e.k >= th[t].k =>
               \/ e.k \in {x.k : x \in answer}
               \/ Cardinality(answer) = th[t].v /\ \A x \in answer : x.k < e.k

\* find beside writers misses no key that is there all the time, and answers with
\* a value that the list held while it ran: of its key or, when the slot was filled
\* again before the value was read, of another one (FindAnswers).
FindFinds ==
  \A t \in Finders : th[t].op = "find" /\ th[t].pc = "answer" =>
    IF th[t].v = 0 THEN \A e \in seen[t].always : e.k # th[t].k
    ELSE \E e \in seen[t].ever : e.v = th[t].v

\* Both readers.
ReadsAnswer == ScanAnswers /\ FindFinds

\* find beside writers answers with a value its key had while it ran.
FindAnswers ==
  \A t \in Finders : th[t].op = "find" /\ th[t].pc = "answer" /\ th[t].v # 0 =>
    [k |-> th[t].k, v |-> th[t].v] \in seen[t].ever

\* "root is guaranteed to have 2 children" (del)
RootHasTwoChildren == AllIdle /\ root_level > 0 => Len(nodes[tree_root].ch) >= 2

\* Every call changes its key once, or leaves it alone as its operation says.
Lin == INSTANCE LinMap WITH
  Clients <- Writers,
  Initially <- {[k \in Keys |-> IF k \in KeysOf(b.keys) THEN k ELSE 0] : b \in Loads},
  dict <- Dict,
  call <- [t \in Writers |-> [op |-> th[t].op, k |-> th[t].k, v |-> th[t].v, done |-> th[t].done]]
Linearizable == Lin!LinSpec

\* Every call returns: the lock bits are never waited for in a circle.
CallsReturn == \A t \in Threads : th[t].pc # "idle" ~> th[t].pc = "idle"
=============================================================================
