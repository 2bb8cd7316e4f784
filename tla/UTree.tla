------------------------------- MODULE UTree -------------------------------
(***************************************************************************)
(* uTree (include/utree/utree.h): a B-link tree of pages in DRAM whose     *)
(* leaf records point to the nodes of a sorted list in NVM.  Writers lock  *)
(* one page at a time, readers none.  What a thread does to one page is    *)
(* one step; the descent, the propagation of a split to the parent and     *)
(* every step on the list interleave with the other threads.               *)
(***************************************************************************)
EXTENDS Integers, Sequences, FiniteSets, FiniteSetsExt

CONSTANTS
  Keys,         \* keys, read as int64_t
  Vals,         \* values; 0 is the null value of search
  cardinality,  \* records of a page
  Writers, Readers,
  Load,         \* the keys the client inserts first, in this order
  Targets,      \* the keys of the calls after those
  WriterOps,    \* the operations a writer then chooses from
  EmptyLeaves,  \* the client may remove the last record of a leaf
  SplitBetweenReads, \* a page may be split between two reads of its sibling pointer
  HeadKeys,     \* what the memory of list_head may hold for its key
  MaxRetry,     \* 10 in insert
  MaxCalls,     \* the writers' calls after those of Load
  MaxPages, MaxNodes

Threads == Writers \cup Readers
Null == 0
LONG_MAX == 1 + Max(Keys \cup {0})
list_head == 1
Mutex(p) == MaxNodes + p      \* hdr.mtx of page p, when read as a list node
NodeIds == 1..(MaxNodes + MaxPages)
Slots == 0..(cardinality - 1)

ASSUME UTreeAssumption ==
  /\ Keys \subseteq Int /\ IsFiniteSet(Keys) /\ Vals \subseteq Nat \ {0}
  /\ HeadKeys \subseteq Int /\ EmptyLeaves \in BOOLEAN /\ SplitBetweenReads \in BOOLEAN
  /\ cardinality \in Nat /\ cardinality >= 4
  /\ MaxPages \in Nat \ {0} /\ MaxNodes \in Nat \ {0}
  /\ Writers \cap Readers = {}

VARIABLES
  pages,    \* page id |-> [level, leftmost, sibling, pred, records]
  nPages,   \* pages 1..nPages are allocated
  root,
  nodes,    \* list node |-> [key, val, next]
  nNodes,
  calls,    \* calls of the writers so far
  th,       \* thread |-> its call
  seen      \* reader |-> the values its key has had since its call began

tree == <<pages, nPages, root>>
list == <<nodes, nNodes>>
vars == <<pages, nPages, root, nodes, nNodes, calls, th, seen>>

-----------------------------------------------------------------------------
(* Pages *)

EmptyPage(level) ==
  [level |-> level, leftmost |-> Null, sibling |-> Null, pred |-> Null, last_index |-> -1,
   records |-> [i \in Slots |-> [key |-> LONG_MAX, ptr |-> Null]]]

\* page(left, key, right, level): "this is called when tree grows"
RootPage(left, key, right, level) ==
  [EmptyPage(level) EXCEPT !.leftmost = left, !.last_index = 0,
                           !.records[0] = [key |-> key, ptr |-> right]]

\* On a page that nobody is changing the loop ends at once:
\* records[last_index + 1].ptr is null (TypeOK).
count(pg) == pg.last_index + 1

Hits(pg, key) == {i \in 0..(count(pg) - 1) : pg.records[i].key = key}

\* Shifts the records behind the key's place by one; the null pointer that
\* ends them moves along, the keys behind it stay as they are.
insert_key(pg, key, ptr) ==
  LET n  == count(pg)
      r  == pg.records
      at == Cardinality({i \in 0..(n - 1) : r[i].key <= key})
  IN  [pg EXCEPT !.last_index = n, !.records = [i \in Slots |->
         CASE i < at              -> r[i]
           [] i = at              -> [key |-> key, ptr |-> ptr]
           [] i \in (at + 1)..n   -> r[i - 1]
           [] i = n + 1 /\ i > at -> [r[i] EXCEPT !.ptr = Null]
           [] OTHER               -> r[i]]]

\* Shifts the records behind the key, and the null pointer, down by one.
remove_key(pg, key) ==
  LET at == Min(Hits(pg, key))
  IN  [pg EXCEPT !.last_index = @ - 1, !.records = [i \in Slots |->
         IF i \in at..(count(pg) - 1) THEN pg.records[i + 1] ELSE pg.records[i]]]

FaultyBeyondSibling(pg, key) ==
  pg.sibling # Null /\ key > pages[pg.sibling].records[0].key

\* The page is a prefix of what it was: the rest is in its sibling.
BeyondSibling(pg, key) ==
  pg.sibling # Null /\ key >= pages[pg.sibling].records[0].key

\* linear_search in an internal page
Child(pg, key) ==
  LET below == {i \in 0..(count(pg) - 1) : pg.records[i].key <= key}
  IN  CASE BeyondSibling(pg, key) -> pg.sibling
        [] ~BeyondSibling(pg, key) /\ below = {} -> pg.leftmost
        [] OTHER -> pg.records[Max(below)].ptr

\* linear_search in a leaf
LeafSearch(pg, key) ==
  CASE Hits(pg, key) # {} -> [found |-> "node", ptr |-> pg.records[Min(Hits(pg, key))].ptr]
    [] Hits(pg, key) = {} /\ BeyondSibling(pg, key) -> [found |-> "sibling", ptr |-> pg.sibling]
    [] OTHER -> [found |-> "none", ptr |-> Null]

FaultyPredOf(p, key, old) ==
  IF Min(Hits(pages[p], key)) > 0
  THEN pages[p].records[Min(Hits(pages[p], key)) - 1].ptr ELSE old

\* linear_search_pred: the node before the key's.  The page before may have
\* been emptied: records[-1].ptr is then its mutex.  In the first leaf there
\* is no page before and *pred keeps its value.
PredOf(p, key, old) ==
  LET pg == pages[p]
      at == Min(Hits(pg, key))
      n  == count(pages[pg.pred])
  IN  CASE at > 0 -> pg.records[at - 1].ptr
        [] at = 0 /\ pg.pred = Null -> old
        [] at = 0 /\ pg.pred # Null /\ n = 0 -> Mutex(pg.pred)
        [] OTHER -> pages[pg.pred].records[n - 1].ptr

\* FAIR: the upper half moves to a new page, which is linked in before the
\* old one is cut off, and the record goes where it belongs.
Split(p, key, ptr) ==
  LET pg  == pages[p]
      n   == count(pg)
      m   == n \div 2
      r   == pg.records
      sib == nPages + 1
      new == [EmptyPage(pg.level) EXCEPT
                !.sibling = pg.sibling, !.pred = p,
                !.last_index = (IF pg.level = 0 THEN n - m ELSE n - m - 1) - 1,
                !.leftmost = IF pg.level = 0 THEN Null ELSE r[m].ptr,
                !.records = LET s == IF pg.level = 0 THEN m ELSE m + 1
                            IN  [i \in Slots |-> IF i < n - s THEN r[i + s] ELSE @[i]]]
      old == [pg EXCEPT !.sibling = sib, !.records[m].ptr = Null, !.last_index = m - 1]
  IN  [q \in DOMAIN pages |->
        CASE q = p   -> IF key < r[m].key THEN insert_key(old, key, ptr) ELSE old
          [] q = sib -> IF key < r[m].key THEN new ELSE insert_key(new, key, ptr)
          [] q # p /\ q # sib /\ q = pg.sibling -> [pages[q] EXCEPT !.pred = sib]
          [] OTHER -> pages[q]]

-----------------------------------------------------------------------------
(* Calls *)

NoCall == [op |-> "none", k |-> 0, v |-> 0, pc |-> "idle", page |-> Null, level |-> 0,
           key |-> 0, ptr |-> Null, cur |-> Null, prev |-> Null, next |-> Null,
           retry |-> 0, w |-> 0, old |-> 0]

Set(t, call) == th' = [th EXCEPT ![t] = call]
Return(t) == Set(t, NoCall)

\* What a search for the key finds when nothing else runs.
LeafOf(key) ==
  LET go[p \in 1..nPages] ==
        IF pages[p].level > 0 THEN go[Child(pages[p], key)]
        ELSE IF LeafSearch(pages[p], key).found = "sibling" THEN go[pages[p].sibling] ELSE p
  IN  go[root]
Value(key) ==
  LET s == LeafSearch(pages[LeafOf(key)], key)
  IN  IF s.found = "node" THEN nodes[s.ptr].val ELSE 0

\* The constructor sets only next of list_head.
Init ==
  /\ pages = [p \in 1..MaxPages |-> EmptyPage(0)] /\ nPages = 1 /\ root = 1
  /\ \E k \in HeadKeys : nodes =
       [n \in NodeIds |-> [key |-> IF n = list_head THEN k ELSE 0, val |-> 0, next |-> Null]]
  /\ nNodes = 1
  /\ calls = 0
  /\ th = [t \in Threads |-> NoCall]
  /\ seen = [r \in Readers |-> {}]

Begin(t, op, k, v) ==
  /\ th[t].pc = "idle"
  /\ op = "insert" => nNodes < MaxNodes /\ nPages + 3 <= MaxPages
  /\ op # "remove" \/ EmptyLeaves \/ Hits(pages[LeafOf(k)], k) = {}
       \/ count(pages[LeafOf(k)]) > 1
  /\ Set(t, [NoCall EXCEPT !.op = op, !.k = k, !.v = v, !.pc = "descend", !.page = root,
                           !.key = k, !.old = Value(k)])
  /\ UNCHANGED <<tree, list>>

LoadNext ==
  /\ calls < Len(Load) /\ calls' = calls + 1
  /\ \A t \in Threads : th[t].pc = "idle"
  /\ \E t \in Writers : Begin(t, "insert", Load[calls + 1], Min(Vals))

Call ==
  /\ calls >= Len(Load)
  /\ \/ \E r \in Readers, k \in Targets : Begin(r, "search", k, 0) /\ UNCHANGED calls
     \/ /\ calls < Len(Load) + MaxCalls /\ calls' = calls + 1
        /\ \E t \in Writers, k \in Targets :
             \/ "insert" \in WriterOps /\ \E v \in Vals : Begin(t, "insert", k, v)
             \/ "remove" \in WriterOps /\ Begin(t, "remove", k, 0)

\* One page of a descent to the level the call is after.
Descend(t) ==
  LET c == th[t] IN
  /\ c.pc = "descend" /\ pages[c.page].level > c.level
  /\ Set(t, [c EXCEPT !.page = Child(pages[c.page], c.key)])
  /\ UNCHANGED <<tree, list, calls>>

AtLevel(t, pc) == th[t].pc = pc /\ pages[th[t].page].level = th[t].level

\* Without the lock the key may have moved on: store passes it to the sibling.
PassOn(pg, key) == pg.sibling # Null /\ key > pages[pg.sibling].records[0].key

MaySplit(p) ==
  count(pages[p]) >= cardinality - 1
  /\ (SplitBetweenReads \/ \A t \in Threads : ~(th[t].pc = "compare" /\ th[t].page = p))

\* The record goes into the page; a full one is split.  The split of the root
\* is complete; any other goes on with btree_insert_internal.
Place(t, ptr, done) ==
  LET c == th[t]
      p == c.page
      split_key == pages[p].records[count(pages[p]) \div 2].key
  IN  \/ /\ count(pages[p]) < cardinality - 1
         /\ pages' = [pages EXCEPT ![p] = insert_key(@, c.key, ptr)]
         /\ UNCHANGED <<nPages, root>>
         /\ Set(t, done)
      \/ /\ MaySplit(p) /\ root = p
         /\ pages' = [Split(p, c.key, ptr) EXCEPT ![nPages + 2] =
                         RootPage(p, split_key, nPages + 1, pages[p].level + 1)]
         /\ nPages' = nPages + 2 /\ root' = nPages + 2
         /\ Set(t, done)
      \/ /\ MaySplit(p) /\ root # p
         /\ pages' = Split(p, c.key, ptr) /\ nPages' = nPages + 1 /\ UNCHANGED root
         /\ Set(t, [done EXCEPT !.pc = "up", !.key = split_key, !.ptr = nPages + 1,
                                !.level = pages[p].level + 1])

\* store of a new key in a leaf: the call goes on to link the node.  The
\* insert_key that would report the predecessor is commented out, so *pred
\* stays null and the first attempt to link is behind list_head.
StoreLeaf(t) ==
  LET c  == th[t]
      pg == pages[c.page]
      n  == nNodes + 1
  IN
  /\ c.op = "insert" /\ c.cur = Null /\ AtLevel(t, "descend") /\ c.level = 0
  /\ \/ /\ Hits(pg, c.k) # {}
        /\ Set(t, [c EXCEPT !.pc = "overwrite", !.prev = pg.records[Min(Hits(pg, c.k))].ptr])
        /\ UNCHANGED <<tree, list>>
     \/ /\ Hits(pg, c.k) = {} /\ PassOn(pg, c.k)
        /\ Set(t, [c EXCEPT !.page = pg.sibling])
        /\ UNCHANGED <<tree, list>>
     \/ /\ Hits(pg, c.k) = {} /\ ~PassOn(pg, c.k)
        /\ nNodes' = n
        /\ nodes' = [nodes EXCEPT ![n] = [key |-> c.k, val |-> c.v, next |-> Null]]
        /\ Place(t, n, [c EXCEPT !.pc = "link", !.cur = n])
  /\ UNCHANGED calls

FaultyOverwrite(t) ==
  /\ th[t].pc = "overwrite" /\ Return(t) /\ UNCHANGED <<tree, list, calls>>

\* insert of a key that is there: the node's value is overwritten in place.
Overwrite(t) ==
  /\ th[t].pc = "overwrite"
  /\ nodes' = [nodes EXCEPT ![th[t].prev].val = th[t].v]
  /\ Return(t)
  /\ UNCHANGED <<tree, nNodes, calls>>

\* btree_insert_internal
GoUp(t) ==
  LET c == th[t] IN
  /\ c.pc = "up"
  /\ Set(t, IF c.level > pages[root].level THEN [c EXCEPT !.pc = "link"]
            ELSE [c EXCEPT !.pc = "descend", !.page = root])
  /\ UNCHANGED <<tree, list, calls>>

\* store of a separator in an internal page
StoreInner(t) ==
  LET c    == th[t]
      pg   == pages[c.page]
      done == [c EXCEPT !.pc = "link"]
  IN
  /\ AtLevel(t, "descend") /\ c.level > 0
  /\ \/ /\ Hits(pg, c.key) # {}
        /\ pages' = [pages EXCEPT ![c.page].records[Min(Hits(pg, c.key))].ptr = c.ptr]
        /\ Set(t, done)
        /\ UNCHANGED <<nPages, root>>
     \/ /\ Hits(pg, c.key) = {} /\ PassOn(pg, c.key)
        /\ Set(t, [c EXCEPT !.page = pg.sibling])
        /\ UNCHANGED tree
     \/ /\ Hits(pg, c.key) = {} /\ ~PassOn(pg, c.key)
        /\ Place(t, c.ptr, done)
  /\ UNCHANGED <<list, calls>>

-----------------------------------------------------------------------------
(* The list *)

FaultyInOrder(prev, next, k) == nodes[prev].key < k
InOrder(prev, next, k) == nodes[prev].key < k /\ (next = Null \/ nodes[next].key > k)

\* The node's next is set and the order checked; a changed view is retried.
Link(t) ==
  LET c    == th[t]
      prev == IF c.prev = Null THEN list_head ELSE c.prev
      next == nodes[prev].next
  IN
  /\ c.pc = "link"
  /\ \/ /\ nodes[list_head].next = Null
        /\ Set(t, [c EXCEPT !.pc = "first", !.prev = list_head, !.next = Null])
        /\ UNCHANGED nodes
     \/ /\ nodes[list_head].next # Null
        /\ nodes' = [nodes EXCEPT ![c.cur].next = next]
        /\ IF InOrder(prev, next, c.k)
           THEN Set(t, [c EXCEPT !.pc = "cas", !.prev = prev, !.next = next])
           ELSE Set(t, [c EXCEPT !.pc = "retry", !.prev = prev, !.w = 3])
  /\ UNCHANGED <<tree, nNodes, calls>>

Cas(t) ==
  LET c == th[t] IN
  /\ c.pc \in {"cas", "first"}
  /\ \/ /\ nodes[c.prev].next = c.next
        /\ nodes' = [nodes EXCEPT ![c.prev].next = c.cur]
        /\ Return(t)
     \/ /\ nodes[c.prev].next # c.next
        /\ Set(t, [c EXCEPT !.pc = "retry", !.w = IF c.pc = "cas" THEN 2 ELSE @])
        /\ UNCHANGED nodes
  /\ UNCHANGED <<tree, nNodes, calls>>

\* goto retry: the key is searched again for its new predecessor, and after
\* MaxRetry changed views the insert gives up.
Retry(t) ==
  LET c == th[t] IN
  /\ c.pc = "retry"
  /\ IF c.retry + 1 >= MaxRetry /\ c.w = 3 THEN Return(t)
     ELSE Set(t, [c EXCEPT !.retry = Min({@ + 1, MaxRetry}), !.pc = "descend",
                           !.page = root, !.key = c.k, !.level = 0])
  /\ UNCHANGED <<tree, list, calls>>

FaultyFound(c, s) ==
  CASE s.found = "node" -> [c EXCEPT !.cur = s.ptr, !.prev = PredOf(c.page, c.k, c.prev),
         !.pc = CASE c.op = "search" -> "read" [] c.op = "remove" -> "check" [] OTHER -> "link"]
    [] OTHER -> [c EXCEPT !.pc = "notfound"]
Found(c, s) ==
  CASE s.found = "node" -> [c EXCEPT !.cur = s.ptr, !.prev = PredOf(c.page, c.k, c.prev),
         !.pc = CASE c.op = "search" -> "read" [] c.op = "remove" -> "check" [] OTHER -> "link"]
    [] s.found = "sibling" -> [c EXCEPT !.pc = "compare", !.next = s.ptr]
    [] OTHER -> [c EXCEPT !.pc = IF c.op = "insert" THEN "exit" ELSE "notfound"]

\* btree_search_pred at a leaf, on behalf of a search, a remove or a retry
Find(t) ==
  LET c == th[t] IN
  /\ AtLevel(t, "descend") /\ c.level = 0 /\ (c.op = "insert" => c.cur # Null)
  /\ Set(t, Found(c, LeafSearch(pages[c.page], c.k)))
  /\ UNCHANGED <<tree, list, calls>>

\* The sibling pointer is read again.  If it is another one by now, the page found
\* is taken for a list node: where a node has its value, a leaf has a null pointer,
\* and no node of the list is followed by a page.
Compare(t) ==
  LET c == th[t] IN
  /\ c.pc = "compare"
  /\ Set(t, CASE pages[c.page].sibling = c.next -> [c EXCEPT !.pc = "descend", !.page = c.next]
              [] pages[c.page].sibling # c.next /\ c.op = "search" -> [c EXCEPT !.pc = "notfound"]
              [] pages[c.page].sibling # c.next /\ c.op = "insert" -> [c EXCEPT !.pc = "link"]
              [] OTHER -> [c EXCEPT !.pc = "descend", !.page = root])
  /\ UNCHANGED <<tree, list, calls>>

\* search: the value of the node found
Read(t) ==
  LET c == th[t] IN
  /\ c.pc = "read"
  /\ Set(t, [c EXCEPT !.pc = "answer", !.v = nodes[c.cur].val])
  /\ UNCHANGED <<tree, list, calls>>

NotFound(t) ==
  /\ th[t].pc = "notfound"
  /\ Set(t, IF th[t].op = "search" THEN [th[t] EXCEPT !.pc = "answer", !.v = 0] ELSE NoCall)
  /\ UNCHANGED <<tree, list, calls>>

Answer(t) ==
  /\ th[t].pc = "answer" /\ Return(t)
  /\ UNCHANGED <<tree, list, calls>>

\* remove: is the node still behind the one found before it?
Check(t) ==
  LET c    == th[t]
      prev == IF c.prev = Null THEN list_head ELSE c.prev
  IN
  /\ c.pc = "check"
  /\ Set(t, IF nodes[prev].next # c.cur
            THEN [c EXCEPT !.pc = "descend", !.page = root, !.prev = prev]
            ELSE [c EXCEPT !.pc = "unlink", !.prev = prev, !.next = nodes[c.cur].next])
  /\ UNCHANGED <<tree, list, calls>>

Unlink(t) ==
  LET c == th[t] IN
  /\ c.pc = "unlink"
  /\ \/ /\ nodes[c.prev].next = c.cur
        /\ nodes' = [nodes EXCEPT ![c.prev].next = c.next]
        /\ Set(t, [c EXCEPT !.pc = "delete", !.page = root])
     \/ /\ nodes[c.prev].next # c.cur
        /\ Set(t, [c EXCEPT !.pc = "descend", !.page = root])
        /\ UNCHANGED nodes
  /\ UNCHANGED <<tree, nNodes, calls>>

\* btree_delete: one page of its descent; it starts again where the last leaf
\* it looked at has a sibling but not the key.  (So it does when the page is split
\* between its two reads of the sibling pointer.)
DeleteStep(t) ==
  LET c  == th[t]
      pg == pages[c.page]
      s  == LeafSearch(pg, c.k)
  IN
  /\ c.pc = "delete"
  /\ Set(t, CASE pg.level > 0 -> [c EXCEPT !.page = Child(pg, c.k)]
              [] pg.level = 0 /\ s.found = "sibling" -> [c EXCEPT !.page = s.ptr]
              [] pg.level = 0 /\ s.found = "none" /\ pg.sibling = Null -> NoCall
              [] OTHER -> [c EXCEPT !.pc = "erase"])
  /\ UNCHANGED <<tree, list, calls>>

\* page::remove, under the page's lock
Erase(t) ==
  LET c == th[t] IN
  /\ c.pc = "erase"
  /\ \/ /\ Hits(pages[c.page], c.k) # {}
        /\ pages' = [pages EXCEPT ![c.page] = remove_key(@, c.k)]
        /\ Return(t)
     \/ /\ Hits(pages[c.page], c.k) = {}
        /\ Set(t, [c EXCEPT !.pc = "delete", !.page = root])
        /\ UNCHANGED pages
  /\ UNCHANGED <<nPages, root, list, calls>>

Step(t) ==
  \/ Descend(t) \/ StoreLeaf(t) \/ Overwrite(t) \/ GoUp(t) \/ StoreInner(t)
  \/ Link(t) \/ Cas(t) \/ Retry(t) \/ Find(t) \/ Compare(t) \/ Read(t) \/ NotFound(t)
  \/ Answer(t) \/ Check(t) \/ Unlink(t) \/ DeleteStep(t) \/ Erase(t)

\* A history variable: what a search may answer.
Observe ==
  seen' = [r \in Readers |->
    IF th'[r].pc = "idle" THEN {}
    ELSE IF calls' < Len(Load) THEN {} ELSE seen[r] \cup {Value(th[r].k)', Value(th'[r].k)}]

ThreadStep(t) == Step(t) /\ Observe
Next == ((LoadNext \/ Call) /\ Observe) \/ \E t \in Threads : ThreadStep(t)
Spec == Init /\ [][Next]_vars /\ \A t \in Threads : WF_vars(ThreadStep(t))

-----------------------------------------------------------------------------
(* Properties *)

Live == UNION {{<<p, i>> : i \in 0..(count(pages[p]) - 1)} :
                 p \in {q \in 1..nPages : pages[q].level = 0}}
KeyAt(x) == pages[x[1]].records[x[2]].key
Quiet == \A t \in Writers : th[t].pc = "idle"

TypeOK ==
  /\ nPages \in 1..MaxPages /\ root \in 1..nPages /\ nNodes \in 1..MaxNodes
  /\ \A p \in 1..nPages :
       /\ pages[p].sibling \in 0..nPages /\ pages[p].pred \in 0..nPages
       /\ pages[p].level > 0 <=> pages[p].leftmost \in 1..nPages
       /\ pages[p].last_index \in -1..(cardinality - 2)
       /\ pages[p].records[count(pages[p])].ptr = Null
       /\ \A i \in 0..(count(pages[p]) - 1) : pages[p].records[i].ptr \in
            IF pages[p].level = 0 THEN 2..nNodes ELSE 1..nPages
  /\ \A n \in NodeIds : nodes[n].next \in 0..nNodes
  /\ \A t \in Threads : th[t].page \in 0..nPages /\ th[t].prev \in {Null} \cup NodeIds

\* FAIR: at every moment of a split, and before its separator has reached the
\* parent, a search from the root finds every record of every leaf, and no key
\* is in two leaves (store, linear_search, btree_insert_internal).
EveryRecordFound ==
  /\ \A x \in Live : LeafOf(KeyAt(x)) = x[1]
  /\ Cardinality({KeyAt(x) : x \in Live}) = Cardinality(Live)

\* Both: the pages are well formed, and lead to every record.
WellFormed == TypeOK /\ EveryRecordFound

\* The i-th node behind the one of this key, as scan walks the list.
scan(start, i) ==
  LET at[j \in 0..i] == IF j = 0 THEN start
                        ELSE IF at[j - 1] = Null THEN Null ELSE nodes[at[j - 1]].next
  IN  at[i]

\* Between the writers' calls the list is the leaves' records in key order: a
\* scan from the head meets every key once, in order, and then ends.
ScanExact ==
  Quiet =>
    LET n == Cardinality(Live) IN
    /\ \A x \in Live :
         LET i == Cardinality({y \in Live : KeyAt(y) <= KeyAt(x)})
         IN  scan(list_head, i) = pages[x[1]].records[x[2]].ptr
    /\ scan(list_head, n + 1) = Null

\* A search that ran beside writers answers with a value the key had while it
\* ran: it misses no key that a split moves to a page its parent lacks.  It fails
\* when a page may be split between the two reads of its sibling pointer
\* (SplitBetweenReads): the search then answers with null for a stored key.
SearchAnswers ==
  \A r \in Readers : th[r].pc = "answer" => th[r].v \in seen[r]

\* insert's re-search of the key it has just stored never fails ("error!!!!").
NeverExits == \A t \in Threads : th[t].pc # "exit"

\* A call is one change of one key: insert and remove implement the store.
Kv == INSTANCE KvStore WITH
  dict <- [k \in Keys |-> Value(k)], up <- TRUE,
  req  <- LET busy == {t \in Writers : th[t].pc # "idle"} IN
          [k \in {th[t].k : t \in busy} |->
             LET t == CHOOSE u \in busy : th[u].k = k IN [old |-> th[t].old, new |-> th[t].v]]
ImplementsKvStore == Kv!KvSpec

\* Every call returns: no remove waits for ever for its node to be linked.  It fails
\* with two writers, with key 0 and with empty leaves.
CallsReturn == \A t \in Threads : th[t].pc # "idle" ~> th[t].pc = "idle"
=============================================================================
