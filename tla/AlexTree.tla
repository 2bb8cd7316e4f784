------------------------------- MODULE AlexTree -------------------------------
(***************************************************************************)
(* The tree of ALEX, include/alex/alex.h: model nodes that route a key by  *)
(* a linear function to one of 2^k child pointers (a child owns an aligned *)
(* run of 2^dup equal pointers), and a doubly linked chain of data nodes.  *)
(* A data node is its set of keys here: AlexDataNode shows that it behaves *)
(* so.  Payloads ride along and are left out; keys are distinct, as the    *)
(* keys of EPL-Tree's index are.                                           *)
(*                                                                         *)
(* A linear function is the key `lo` where it is 0 and the width `wid` of  *)
(* a bucket.  Arithmetic is exact, in units fine enough for every bucket   *)
(* boundary, except that a prediction for a key on a boundary may come out *)
(* just below it (`low`) and a boundary value just above the key that lies *)
(* on it: what floating point may do, when Rounding holds.                 *)
(* What only costs decide (fail flags of a leaf, fanouts) is any choice.   *)
(***************************************************************************)
EXTENDS Integers, Sequences, FiniteSets

CONSTANTS
    Keys,           \* the keys, integers in units
    KeyMin, KeyMax, \* numeric_limits<T>::lowest() and max()
    MaxFanout,      \* derived_params_.max_fanout, a power of 2
    MaxLeaf,        \* the most keys a data node may hold
    MinOut, MaxOut, \* kMinOutOfDomainKeys, kMaxOutOfDomainKeys
    Policies,       \* values of splitting_policy_method
    Upwards,        \* values of allow_splitting_upwards
    Rounding,       \* whether floating point may round at bucket boundaries
    Loads,          \* sets of keys to bulk load
    MaxNodes,       \* bound on the nodes
    MaxFails,       \* bound on the times the leaves refuse one insert
    MaxCalls        \* bound on the calls

ASSUME AlexTreeAssumption ==
    /\ Keys \subseteq KeyMin..KeyMax /\ IsFiniteSet(Keys)
    /\ \E e \in 1..10 : MaxFanout = 2 ^ e
    /\ MaxLeaf \in Nat \ {0} /\ MinOut \in Nat \ {0, 1} /\ MaxOut \in Nat \ {0, 1}
    /\ Policies \subseteq {0, 1, 2} /\ Upwards \subseteq BOOLEAN /\ Rounding \in BOOLEAN
    /\ Loads \subseteq SUBSET Keys
    /\ MaxNodes \in Nat /\ MaxFails \in Nat /\ MaxCalls \in Nat

VARIABLES
    tree,   \* node: the nodes by address; root: root_node_; min, max, above, below,
            \* atRight, atLeft: istats_; num: stats_.num_keys
    op,     \* the call in progress
    params, \* experimental_params_
    calls

vars == <<tree, op, params, calls>>

Null == 0           \* nullptr
Superroot == -1     \* the address of superroot_
Garbage == -2       \* a child pointer that was never written

Lesser(a, b) == IF a < b THEN a ELSE b
Greater(a, b) == IF a > b THEN a ELSE b
Least(S) == CHOOSE x \in S : \A y \in S : x <= y
Most(S) == CHOOSE x \in S : \A y \in S : x >= y
Log2(x) == CHOOSE e \in 0..20 : 2 ^ e <= x /\ x < 2 ^ (e + 1)
IndexIn(seq, x) == CHOOSE i \in DOMAIN seq : seq[i] = x
Range(f) == {f[x] : x \in DOMAIN f}
Round == IF Rounding THEN BOOLEAN ELSE {FALSE}

-----------------------------------------------------------------------------
(* Nodes *)

DataNode(keys, dup, level, prev, next) ==
    [leaf |-> TRUE, keys |-> keys, dup |-> dup, level |-> level, prev |-> prev, next |-> next,
     kids |-> <<>>, lo |-> 0, wid |-> 1, low |-> FALSE]

ModelNode(kids, lo, wid, low, dup, level) ==
    [leaf |-> FALSE, keys |-> {}, dup |-> dup, level |-> level, prev |-> Null, next |-> Null,
     kids |-> kids, lo |-> lo, wid |-> wid, low |-> low]

num_children(nd) == Cardinality(DOMAIN nd.kids)

\* the i-th address that is free
Fresh(t, i) ==
    LET free == (1..MaxNodes + 12) \ DOMAIN t.node
    IN  CHOOSE a \in free : Cardinality({b \in free : b < a}) = i - 1

FreshSeq(t, n) == [i \in 1..n |-> Fresh(t, i)]

Room(t, n) == Cardinality(DOMAIN t.node) - 1 + n <= MaxNodes

With(t, new) ==     \* nodes written, by address
    [t EXCEPT !.node = [a \in DOMAIN t.node \cup DOMAIN new |->
                           IF a \in DOMAIN new THEN new[a] ELSE t.node[a]]]

delete_node(t, dead) ==
    [t EXCEPT !.node = [a \in DOMAIN t.node \ dead |-> t.node[a]]]

\* the node with its pointers first..last - 1 redirected
Redirect(nd, first, last, child) ==
    [nd EXCEPT !.kids = [i \in DOMAIN nd.kids |->
                            IF i \in first..last - 1 THEN child ELSE nd.kids[i]]]

\* LinearModel::predict of a model node, before and after the clamp
predict(nd, key) ==
    LET d == key - nd.lo
    IN  IF nd.low /\ d > 0 /\ d % nd.wid = 0 THEN d \div nd.wid - 1 ELSE d \div nd.wid

Clamp(nd, b) == Lesser(Greater(b, 0), num_children(nd) - 1)
Bucket(nd, key) == Clamp(nd, predict(nd, key))
get_child_node(nd, key) == nd.kids[Bucket(nd, key)]

\* expand: every pointer is repeated f times
Expand(t, a, f) ==
    LET nd == t.node[a]
        grown == [nd EXCEPT !.kids = [i \in 0..num_children(nd) * f - 1 |-> nd.kids[i \div f]],
                            !.wid = nd.wid \div f]
    IN  With(t, [b \in Range(nd.kids) \cup {a} |->
                    IF b = a THEN grown ELSE [t.node[b] EXCEPT !.dup = @ + Log2(f)]])

first_key(nd) == IF nd.keys = {} THEN KeyMax ELSE Least(nd.keys)
last_key(nd) == IF nd.keys = {} THEN KeyMin ELSE Most(nd.keys)

RECURSIVE first_data_node(_, _), last_data_node(_, _)
first_data_node(t, a) ==
    IF t.node[a].leaf THEN a ELSE first_data_node(t, t.node[a].kids[0])
last_data_node(t, a) ==
    IF t.node[a].leaf THEN a
    ELSE last_data_node(t, t.node[a].kids[num_children(t.node[a]) - 1])

get_min_key(t) == first_key(t.node[first_data_node(t, t.root)])
get_max_key(t) == last_key(t.node[last_data_node(t, t.root)])

\* NodeIterator: the nodes below a in pre-order; a run of equal pointers counts once
RECURSIVE NodesFrom(_, _)
NodesFrom(t, a) ==
    LET kids == t.node[a].kids
        RECURSIVE Run(_)
        Run(i) == IF i = num_children(t.node[a]) THEN <<>>
                  ELSE (IF i > 0 /\ kids[i - 1] = kids[i] THEN <<>> ELSE NodesFrom(t, kids[i]))
                       \o Run(i + 1)
    IN  IF t.node[a].leaf THEN <<a>> ELSE <<a>> \o Run(0)

Leaves(t) == SelectSeq(NodesFrom(t, t.root), LAMBDA a : t.node[a].leaf)

-----------------------------------------------------------------------------
(* Traversal *)

\* the way down: pairs of a model node and the bucket taken, the superroot first
RECURSIVE Down(_, _, _)
Down(t, a, key) ==
    IF t.node[a].leaf THEN <<>>
    ELSE <<<<a, Bucket(t.node[a], key)>>>> \o Down(t, get_child_node(t.node[a], key), key)

Child(t, step) == t.node[step[1]].kids[step[2]]
Last(path) == path[Len(path)]

\* the steps along the right-most or the left-most pointers below a
RECURSIVE Spine(_, _, _)
Spine(t, a, rightmost) ==
    LET b == IF rightmost THEN num_children(t.node[a]) - 1 ELSE 0
    IN  IF t.node[a].leaf THEN <<>>
        ELSE <<<<a, b>>>> \o Spine(t, t.node[a].kids[b], rightmost)

\* the first pointer of the run a step is in, for a child with dup
RunStart(bucket, dup) == bucket - (bucket % (2 ^ dup))

\* correct_traversal_path: the same path to the leaf next to the one it leads
\* to.  The code assigns to a reference to the vector's old last element, so the
\* step of the common ancestor keeps its old bucket when the path climbs.
correct_traversal_path(t, leaf, path, left) ==
    LET n == Len(path)
        DupAt(i) == IF i = n THEN t.node[leaf].dup ELSE t.node[path[i + 1][1]].dup
        Start(i) == RunStart(path[i][2], DupAt(i))
        Next(i) == IF left THEN Start(i) - 1 ELSE Start(i) + 2 ^ DupAt(i)
        turns == {i \in 1..n : Next(i) \in DOMAIN t.node[path[i][1]].kids}
        From(i) == IF i = n THEN [path EXCEPT ![n] = <<path[n][1], Next(n)>>]
                   ELSE SubSeq(path, 1, i) \o Spine(t, t.node[path[i][1]].kids[Next(i)], left)
    IN  From(Most(turns))

\* get_leaf with ALEX_SAFE_LOOKUP: the neighbour is taken when the last
\* prediction is a boundary and the neighbour's keys reach the key
LeafOrNeighbour(t, key, path, leaf) ==
    LET nd == t.node[Last(path)[1]]
        d == key - nd.lo
        near == Len(path) > 1 /\ d >= 0 /\ d % nd.wid = 0 /\ (nd.low => d > 0)
        below == nd.low /\ d > 0
        beside == IF below THEN t.node[leaf].next ELSE t.node[leaf].prev
        reached == IF below THEN first_key(t.node[beside]) <= key ELSE last_key(t.node[beside]) >= key
    IN  IF near /\ beside # Null /\ reached
        THEN [leaf |-> beside, path |-> correct_traversal_path(t, leaf, path, ~below)]
        ELSE [leaf |-> leaf, path |-> path]

get_leaf(t, key) ==
    LET At(path) == LeafOrNeighbour(t, key, path, Child(t, Last(path)))
    IN  At(<<<<Superroot, 0>>>> \o Down(t, t.root, key))

-----------------------------------------------------------------------------
(* Lookups *)

find(t, key) ==
    LET leaf == get_leaf(t, key).leaf IN IF key \in t.node[leaf].keys THEN leaf ELSE Null

\* Iterator and ReverseIterator: the keys visited from a leaf on
RECURSIVE Forward(_, _, _), Backward(_, _)
Forward(t, a, keys) ==      \* keys: those of leaf a still to visit
    IF a = Null THEN <<>>
    ELSE IF keys # {} THEN <<Least(keys)>> \o Forward(t, a, keys \ {Least(keys)})
    ELSE LET next == t.node[a].next
         IN  IF next = Null THEN <<>> ELSE Forward(t, next, t.node[next].keys)
Backward(t, a) ==
    IF a = Null THEN <<>>
    ELSE LET keys == t.node[a].keys
             Ranked(i) == CHOOSE k \in keys : Cardinality({l \in keys : l > k}) = i - 1
         IN  [i \in 1..Cardinality(keys) |-> Ranked(i)] \o Backward(t, t.node[a].prev)

lower_bound(t, key) ==
    LET a == get_leaf(t, key).leaf IN Forward(t, a, {k \in t.node[a].keys : k >= key})
upper_bound(t, key) ==
    LET a == get_leaf(t, key).leaf IN Forward(t, a, {k \in t.node[a].keys : k > key})

\* find_last_no_greater_than, get_payload_last_no_greater_than: below every key
\* the answer is the first one
find_last_no_greater_than(t, key) ==
    LET a == get_leaf(t, key).leaf
        upto == {k \in t.node[a].keys : k <= key}
        back == Backward(t, t.node[a].prev)
        on == Forward(t, a, t.node[a].keys)
    IN  IF upto # {} THEN <<Most(upto)>>
        ELSE IF back # <<>> THEN <<back[1]>>
        ELSE SubSeq(on, 1, Lesser(1, Len(on)))

-----------------------------------------------------------------------------
(* Bulk loading *)

\* the fanout trees: the ways to cover 2^d pointers with aligned runs of 2^e
FanoutTrees ==
    LET trees[d \in 0..Log2(MaxFanout)] ==
            {<<2 ^ d>>} \cup IF d = 0 THEN {} ELSE {p \o q : p, q \in trees[d - 1]}
    IN  trees

\* What costs decide: any depth of the fanout tree and any merge of its nodes
\* but the one into a single node, which never saves costs.
find_best_fanout_bottom_up(d) == {p \in FanoutTrees[d] : Len(p) > 1}
find_best_fanout_top_down(d) == {p \in FanoutTrees[d] : Len(p) > 1}
find_best_fanout_existing_node(d) == IF d = 0 THEN {<<1>>} ELSE {p \in FanoutTrees[d] : Len(p) > 1}

\* compute_level, create_two_new_data_nodes: the bucket whose node gets a key, a
\* key on a boundary that came out too high or predicted too low going left
Place(nd, key, high) ==
    LET d == key - nd.lo
    IN  IF (nd.low \/ high) /\ d > 0 /\ d % nd.wid = 0 THEN d \div nd.wid - 1 ELSE d \div nd.wid

\* the first pointer of each run, when the runs begin at start
RunStarts(runs, start) ==
    LET from[i \in 1..Len(runs)] == IF i = 1 THEN start ELSE from[i - 1] + runs[i - 1] IN from

\* the keys of each run; those outside of all of them go to the first and the last
SharesWithin(nd, keys, runs, start, high) ==    \* mutant: keys outside of all runs go nowhere
    LET from == RunStarts(runs, start)
    IN  [i \in DOMAIN runs |-> {key \in keys : Place(nd, key, high) \in from[i]..from[i] + runs[i] - 1}]

Shares(nd, keys, runs, start, high) ==
    LET from == RunStarts(runs, start)
        RunOf(key) == LET in == {i \in DOMAIN runs : from[i] <= Place(nd, key, high)}
                      IN  IF in = {} THEN 1 ELSE Most(in)
    IN  [i \in DOMAIN runs |-> {key \in keys : RunOf(key) = i}]

\* the pointers of a node with these runs of children
RunPointers(runs, ids) ==
    LET from == RunStarts(runs, 0)
        last == from[Len(runs)] + runs[Len(runs)]
    IN  [b \in 0..last - 1 |-> ids[Most({i \in DOMAIN runs : from[i] <= b})]]

update_superroot_pointer(t) ==
    [t EXCEPT !.node[Superroot].kids[0] = t.root,
              !.node[Superroot].level = t.node[t.root].level - 1]

create_superroot(t) ==
    With(t, [a \in {Superroot} |->
                ModelNode([b \in {0} |-> t.root], 0, 0, FALSE, 0, t.node[t.root].level - 1)])

update_superroot_key_domain(t) ==
    LET lo == get_min_key(t)
        hi == get_max_key(t)
    IN  [t EXCEPT !.min = lo, !.max = hi, !.above = 0, !.below = 0,
                  !.atRight = t.num, !.atLeft = t.num,
                  !.node[Superroot].lo = lo, !.node[Superroot].wid = hi - lo]

link_all_data_nodes(t) ==
    LET Linked(leaves, i) ==
            [t.node[leaves[i]] EXCEPT !.prev = IF i = 1 THEN @ ELSE leaves[i - 1],
                                      !.next = IF i = Len(leaves) THEN @ ELSE leaves[i + 1]]
        Chain(leaves) == [a \in Range(leaves) |-> Linked(leaves, IndexIn(leaves, a))]
    IN  With(t, Chain(Leaves(t)))

\* the nodes bulk_load_node has still to make: model nodes without pointers
Unbuilt(t) == {a \in DOMAIN t.node : ~t.node[a].leaf /\ t.node[a].kids = <<>>}

Raw(keys, lo, wid, dup, level) ==
    [ModelNode(<<>>, lo, wid, FALSE, dup, level) EXCEPT !.keys = keys]

\* bulk_load_node: a data node ...
MakeData(t, a) ==
    LET nd == t.node[a] IN With(t, [b \in {a} |-> DataNode(nd.keys, nd.dup, nd.level, Null, Null)])

\* ... or a model node with this fanout tree of depth d, its children still to be made
MakeModel(t, a, d, runs, low, high) ==
    LET nd == t.node[a]
        Part(model, from, share, i) ==
            Raw(share[i], nd.lo + from[i] * model.wid, runs[i] * model.wid, Log2(runs[i]), nd.level + 1)
        Made(model, ids, from, share) ==
            With(t, [b \in Range(ids) \cup {a} |->
                        IF b = a THEN model ELSE Part(model, from, share, IndexIn(ids, b))])
        Build(model, ids) ==
            Made(model, ids, RunStarts(runs, 0), Shares(model, nd.keys, runs, 0, high))
        Of(ids) == Build(ModelNode(RunPointers(runs, ids), nd.lo, nd.wid \div 2 ^ d, low, nd.dup, nd.level), ids)
    IN  Of(FreshSeq(t, Len(runs)))

-----------------------------------------------------------------------------
(* Splitting a data node *)

\* link_data_nodes: new leaves take the place of old
link_data_nodes(t, old, ids) ==
    LET prev == t.node[old].prev
        next == t.node[old].next
        n == Len(ids)
        New(i) == [t.node[ids[i]] EXCEPT !.prev = IF i = 1 THEN prev ELSE ids[i - 1],
                                         !.next = IF i = n THEN next ELSE ids[i + 1]]
        Beside(a) == [t.node[a] EXCEPT !.next = IF a = prev THEN ids[1] ELSE @,
                                       !.prev = IF a = next THEN ids[n] ELSE @]
    IN  With(t, [a \in Range(ids) \cup ({prev, next} \ {Null}) |->
                    IF a \in Range(ids) THEN New(IndexIn(ids, a)) ELSE Beside(a)])

\* create_two_new_data_nodes, create_new_data_nodes: children of parent from
\* pointer start on, one for each run, with the keys of the old leaf
create_new_data_nodes(t, old, parent, runs, start, high) ==
    LET pn == t.node[parent]
        Leaf(share, i) == DataNode(share[i], Log2(runs[i]), pn.level + 1, Null, Null)
        Pointed(kids) == [pn EXCEPT !.kids = [b \in DOMAIN @ |-> IF b - start \in DOMAIN kids
                                                                     THEN kids[b - start] ELSE @[b]]]
        Made(ids, share) ==
            With(t, [a \in Range(ids) \cup {parent} |->
                        IF a = parent THEN Pointed(RunPointers(runs, ids))
                        ELSE Leaf(share, IndexIn(ids, a))])
        Of(ids) == link_data_nodes(Made(ids, Shares(pn, t.node[old].keys, runs, start, high)), old, ids)
    IN  Of(FreshSeq(t, Len(runs)))

\* split_downwards: a new model node with 2^d pointers takes the leaf's run
split_downwards(t, parent, bucket, d, runs, low, high) ==
    LET pn == t.node[parent]
        leaf == pn.kids[bucket]
        dup == t.node[leaf].dup
        start == RunStart(bucket, dup)
        Model(lo) == ModelNode([b \in 0..2 ^ d - 1 |-> Garbage], lo, (2 ^ dup * pn.wid) \div 2 ^ d,
                               low, dup, t.node[leaf].level)
        Split(a) == create_new_data_nodes(With(t, [b \in {a} |-> Model(pn.lo + start * pn.wid)]),
                                          leaf, a, runs, 0, high)
        Rooted(t1, a) == IF parent = Superroot THEN update_superroot_pointer([t1 EXCEPT !.root = a]) ELSE t1
        Of(a) == Rooted(delete_node([Split(a) EXCEPT
                            !.node[parent] = Redirect(@, start, start + 2 ^ dup, a)], {leaf}), a)
    IN  [tree |-> Of(Fresh(t, 1)), parent |-> Fresh(t, 1)]

\* split_sideways: the leaf's own run is divided, after an expansion of the
\* parent when it is too short; the runs are of 2^d and stretch to a longer one
split_sideways(t, parent, bucket, d, runs, high) ==
    LET leaf == t.node[parent].kids[bucket]
        dup == t.node[leaf].dup
        f == IF d > dup THEN 2 ^ (d - dup) ELSE 1
        stretch == IF d < dup THEN 2 ^ (dup - d) ELSE 1
        Split(t1) == create_new_data_nodes(t1, leaf, parent, [i \in DOMAIN runs |-> runs[i] * stretch],
                                           RunStart(bucket * f, Greater(d, dup)), high)
    IN  [tree |-> delete_node(Split(IF f > 1 THEN Expand(t, parent, f) ELSE t), {leaf}),
         parent |-> parent]

\* insert's choice between the two
should_split_downwards(t, parent, leaf, d) ==
    \/ (num_children(t.node[parent]) * 2 ^ d) \div 2 ^ t.node[leaf].dup > MaxFanout
    \/ t.node[parent].level = t.node[Superroot].level

\* best_split_propagation: the level of the node on the path where doubling the
\* pointers and splitting the nodes below costs least, the lowest of the best
BaseCost == 8       \* SplitDecisionCosts::base_cost

best_split_propagation(t, path) ==
    LET n == Len(path)
        Count(i) == num_children(t.node[path[i][1]])
        Spare(i) == t.node[Child(t, path[i])].dup > 0
        Stop(i) == IF Spare(i) THEN 0 ELSE Count(i) + BaseCost
        Through(i) == IF Count(i) <= 2 THEN 0 ELSE Count(i) \div 2 + BaseCost
        below[i \in 1..n] == IF i = n THEN 0 ELSE below[i + 1] + Through(i + 1)
        open == {i \in 1..n : Spare(i) \/ Count(i) < MaxFanout}
        best == {i \in open : \A j \in open : below[i] + Stop(i) <= below[j] + Stop(j)}
    IN  IF t.node[t.root].leaf \/ open = {} THEN t.node[Superroot].level
        ELSE t.node[path[Most(best)][1]].level

\* pointers from start on to two children, half of them each
PointHalves(nd, start, half, L, R) ==
    Redirect(Redirect(nd, start, start + half, L), start + half, start + 2 * half, R)

\* split_upwards, the top node: its pointers to the child that was split go to
\* the two halves, after a doubling when there is only one
SplitTopKeepsDup(t, step, L, R) ==      \* mutant: the halves keep the duplication factor
    LET dup == t.node[L].dup
    IN  IF dup > 0
        THEN [t EXCEPT !.node[step[1]] = PointHalves(@, RunStart(step[2], dup), 2 ^ (dup - 1), L, R)]
        ELSE [Expand(t, step[1], 2) EXCEPT !.node[step[1]] = PointHalves(@, 2 * step[2], 1, L, R)]

SplitTop(t, step, L, R) ==
    LET dup == t.node[L].dup
    IN  IF dup > 0
        THEN [t EXCEPT !.node[L].dup = dup - 1, !.node[R].dup = dup - 1,
                       !.node[step[1]] = PointHalves(@, RunStart(step[2], dup), 2 ^ (dup - 1), L, R)]
        ELSE [Expand(t, step[1], 2) EXCEPT !.node[step[1]] = PointHalves(@, 2 * step[2], 1, L, R)]

\* split_upwards, a node passed through: the half with the path is doubled and
\* points to L and R, the other is a node of its own or, when it is one child
\* only, that child pulled up
SplitThrough(t, step, L, R) ==
    LET nd == t.node[step[1]]
        half == num_children(nd) \div 2
        dup == t.node[L].dup
        Doubled(off) ==
            PointHalves(ModelNode([i \in 0..2 * half - 1 |-> nd.kids[off + i \div 2]],
                                  nd.lo + off * nd.wid, nd.wid \div 2, nd.low, nd.dup, nd.level),
                        RunStart(2 * (step[2] - off), dup + 1), 2 ^ dup, L, R)
        Rest(from) == ModelNode([i \in 0..half - 1 |-> nd.kids[from + i]],
                                nd.lo + from * nd.wid, nd.wid, nd.low, nd.dup, nd.level)
        Longer(off) == With(t, [c \in {nd.kids[off + i] : i \in 0..half - 1} |->
                                   [t.node[c] EXCEPT !.dup = @ + 1]])
        Halves(off, grown, only, new) ==
            LET pulled == 2 ^ t.node[only].dup = half
                other == IF pulled THEN only ELSE new
                t1 == With(Longer(off), [c \in {grown} |-> Doubled(off)])
            IN  [tree |-> IF pulled
                          THEN [t1 EXCEPT !.node[only].level = nd.level, !.node[only].dup = nd.dup]
                          ELSE With(t1, [c \in {new} |-> Rest(half - off)]),
                 grown |-> grown,
                 left |-> IF off = 0 THEN grown ELSE other,
                 right |-> IF off = 0 THEN other ELSE grown]
        Of(off) == Halves(off, Fresh(t, 1), nd.kids[half - off], Fresh(t, 2))
    IN  Of(IF step[2] < half THEN 0 ELSE half)

\* split_upwards, from the i-th step of the path on
RECURSIVE SplitPath(_, _, _, _, _, _, _)
SplitPath(t, path, i, stop, L, R, parent) ==
    LET a == path[i][1]
        bottom == i = Len(path)
        On(s) == SplitPath(s.tree, path, i - 1, stop, s.left, s.right,
                           IF bottom THEN s.grown ELSE parent)
    IN  IF t.node[a].level > stop THEN On(SplitThrough(t, path[i], L, R))
        ELSE [tree |-> delete_node(SplitTop(t, path[i], L, R),
                                   {path[j][1] : j \in i + 1..Len(path)}),
              parent |-> IF bottom THEN a ELSE parent]

split_upwards(t, path, stop, high) ==
    LET pn == t.node[Last(path)[1]]
        leaf == Child(t, Last(path))
        old == t.node[leaf]
        mid == (2 * RunStart(Last(path)[2], old.dup) + 2 ^ old.dup) * pn.wid
        Left(k) == LET d == 2 * (k - pn.lo) IN d < mid \/ (high /\ d = mid)
        Half(left) == DataNode({k \in old.keys : Left(k) = left}, old.dup, old.level, Null, Null)
        Split(ids) == SplitPath(link_data_nodes(With(t, [a \in Range(ids) |-> Half(a = ids[1])]), leaf, ids),
                                path, Len(path), stop, ids[1], ids[2], Null)
        Cleaned(s) == [s EXCEPT !.tree = delete_node(@, {leaf})]
    IN  Cleaned(Split(FreshSeq(t, 2)))

-----------------------------------------------------------------------------
(* Expanding the key domain *)

Tolerance == 2      \* kOutOfDomainToleranceFactor

should_expand(t, out, at) ==
    /\ ~t.node[t.root].leaf
    /\ \/ out >= MinOut /\ out >= Tolerance * (t.num \div at - 1)
       \/ out >= MaxOut
should_expand_right(t) == should_expand(t, t.above, t.atRight)
should_expand_left(t) == should_expand(t, t.below, t.atLeft)

pow_2_round_up(x) == CHOOSE p \in {2 ^ e : e \in 0..20} : p >= x /\ (p = 1 \/ p \div 2 < x)
Wrap(x) == KeyMin + ((x - KeyMin) % (KeyMax - KeyMin + 1))      \* arithmetic of T

\* the root grows f-fold to one side, or becomes the child of a new root; n is
\* the number of pointers that are not new
ExpandedRoot(t, f, left) ==
    LET root == t.node[t.root]
        num == num_children(root)
        Widened(n, wid, shift) ==
            ModelNode([i \in 0..n * f - 1 |-> IF i - shift \notin 0..n - 1 THEN Garbage
                                              ELSE IF n = 1 THEN t.root ELSE root.kids[i - shift]],
                      root.lo - shift * wid, wid, root.low, 0, IF n = 1 THEN root.level - 1 ELSE root.level)
        At(a, n, wid) == With(t, [b \in {a} |-> Widened(n, wid, IF left THEN n * f - n ELSE 0)])
        Rooted(t1, a) == update_superroot_pointer([t1 EXCEPT !.root = a])
    IN  IF num * f <= MaxFanout
        THEN [tree |-> At(t.root, num, root.wid), n |-> num]
        ELSE [tree |-> Rooted(At(Fresh(t, 1), 1, root.wid * num), Fresh(t, 1)), n |-> 1]

\* the domain after an f-fold expansion: clipped where it would leave the key type
NewMin(t, f) ==
    LET half == (f \div 2) * (t.max - t.min)
    IN  IF t.max \div 2 - KeyMin \div 2 < half THEN KeyMin ELSE t.max - 2 * half
NewMax(t, f) ==
    LET half == (f \div 2) * (t.max - t.min)
    IN  IF KeyMax \div 2 - t.min \div 2 < half THEN KeyMax ELSE t.min + 2 * half

\* the blocks of n new pointers, counted outwards from the old ones: block j has
\* the keys of the outermost old leaf that are j domain sizes away, the last
\* block all that are left; a block outside of the key type's domain has none
Edge(n, f, left, j) == IF left THEN n * f - n - j * n ELSE n + j * n
Block(n, f, left, j) ==
    IF left THEN Edge(n, f, left, j)..Edge(n, f, left, j - 1) - 1
    ELSE Edge(n, f, left, j - 1)..Edge(n, f, left, j) - 1
Limit(root, left, bound) ==     \* in_bounds_new_nodes_start and _end
    IF left THEN Greater(0, predict(root, bound)) ELSE Lesser(num_children(root), predict(root, bound) + 1)
InBounds(n, f, left, limit, j) ==
    IF left THEN Edge(n, f, left, j) > limit ELSE Edge(n, f, left, j) < limit
InBlock(t, left, more, k, j) ==
    LET size == t.max - t.min
        Bound(i) == IF left THEN Wrap(t.min - i * size) ELSE Wrap(t.max + i * size)
    IN  IF left THEN k < Bound(j - 1) /\ (more => k >= Bound(j))
        ELSE k >= Bound(j - 1) /\ (more => k < Bound(j))

\* the new leaves below the expanded root, t being the tree before
NewLeaves(t, t1, n, f, left, limit, outer) ==
    LET a == t1.root
        Leaf(ids, j) ==
            LET on == IF j = Len(ids) THEN Null ELSE ids[j + 1]
                back == IF j = 1 THEN outer ELSE ids[j - 1]
            IN  DataNode({k \in t.node[outer].keys : InBlock(t, left, InBounds(n, f, left, limit, j), k, j)},
                         Log2(n), t1.node[a].level + 1,
                         IF left THEN on ELSE back, IF left THEN back ELSE on)
        Pointed(ids) ==
            [t1.node[a] EXCEPT !.kids = [i \in DOMAIN @ |->
                LET in == {j \in DOMAIN ids : i \in Block(n, f, left, j)}
                IN  IF in = {} THEN @[i] ELSE ids[CHOOSE j \in in : TRUE]]]
        Outer(ids) == [t1.node[outer] EXCEPT !.prev = IF left THEN ids[1] ELSE @,
                                             !.next = IF left THEN @ ELSE ids[1]]
        Of(ids) == With(t1, [b \in Range(ids) \cup {a, outer} |->
                                IF b = a THEN Pointed(ids) ELSE IF b = outer THEN Outer(ids)
                                ELSE Leaf(ids, IndexIn(ids, b))])
    IN  Of(FreshSeq(t1, Cardinality({j \in 1..f - 1 : InBounds(n, f, left, limit, j - 1)})))

\* erase_range of the reassigned keys, and the new domain
ReassignedExclusive(t, t1, outer, left, bound) ==   \* mutant: the old end of the domain is not reassigned
    [t1 EXCEPT
        !.node[outer].keys = {k \in @ : IF left THEN ~(bound <= k /\ k < t.min)
                                        ELSE ~(t.max < k /\ k <= bound)},
        !.min = IF left THEN bound ELSE @, !.max = IF left THEN @ ELSE bound,
        !.below = IF left THEN 0 ELSE @, !.above = IF left THEN @ ELSE 0,
        !.atLeft = IF left THEN t.num ELSE @, !.atRight = IF left THEN @ ELSE t.num]

Reassigned(t, t1, outer, left, bound) ==
    [t1 EXCEPT
        !.node[outer].keys = {k \in @ : IF left THEN ~(bound <= k /\ k < t.min)
                                        ELSE ~(t.max <= k /\ k <= bound)},
        !.min = IF left THEN bound ELSE @, !.max = IF left THEN @ ELSE bound,
        !.below = IF left THEN 0 ELSE @, !.above = IF left THEN @ ELSE 0,
        !.atLeft = IF left THEN t.num ELSE @, !.atRight = IF left THEN @ ELSE t.num]

expand_root(t, key, left) ==
    LET size == t.max - t.min
        far == IF left THEN t.min - Lesser(key, get_min_key(t)) ELSE Greater(key, get_max_key(t)) - t.max
        Fill(e, f, bound, outer) ==
            Reassigned(t, NewLeaves(t, e.tree, e.n, f, left, Limit(e.tree.node[e.tree.root], left, bound), outer),
                       outer, left, bound)
        By(f) == Fill(ExpandedRoot(t, f, left), f, IF left THEN NewMin(t, f) ELSE NewMax(t, f),
                      IF left THEN first_data_node(t, t.root) ELSE last_data_node(t, t.root))
    IN  By(pow_2_round_up((far + size + size - 1) \div size))

-----------------------------------------------------------------------------
(* Merging an empty leaf *)

\* merge with sibling leaves as long as the leaf is empty
RECURSIVE MergeSide(_, _, _, _)
MergeSide(t, parent, bucket, leaf) ==
    LET pn == t.node[parent]
        nd == t.node[leaf]
        run == 2 ^ nd.dup
        start == RunStart(bucket, nd.dup)
        right == bucket % (2 * run) = bucket % run
        beside == IF right THEN pn.kids[start + run] ELSE pn.kids[start - 1]
        Relink(a) == IF a = beside
                     THEN [t.node[a] EXCEPT !.dup = @ + 1, !.prev = IF right THEN nd.prev ELSE @,
                                            !.next = IF right THEN @ ELSE nd.next]
                     ELSE IF a = parent THEN Redirect(pn, start, start + run, beside)
                     ELSE [t.node[a] EXCEPT !.next = IF right THEN beside ELSE @,
                                            !.prev = IF right THEN @ ELSE beside]
        outside == {IF right THEN nd.prev ELSE nd.next} \ {Null}
    IN  IF nd.keys # {} \/ run >= num_children(pn)
           \/ ~t.node[beside].leaf \/ t.node[beside].dup # nd.dup
        THEN [tree |-> t, leaf |-> leaf]
        ELSE MergeSide(delete_node(With(t, [a \in outside \cup {beside, parent} |-> Relink(a)]), {leaf}),
                       parent, bucket, beside)

\* ... and up, when the leaf is all that its parent points to
RECURSIVE MergeUp(_, _, _)
MergeUp(t, path, leaf) ==
    LET parent == Last(path)[1]
        dup == t.node[parent].dup
        up == path[Len(path) - 1]
        start == RunStart(up[2], dup)
        Replace(t1, l) ==
            IF parent = t1.root THEN update_superroot_pointer([t1 EXCEPT !.root = l])
            ELSE MergeUp([t1 EXCEPT !.node[up[1]] = Redirect(@, start, start + 2 ^ dup, l)],
                         SubSeq(path, 1, Len(path) - 1), l)
        Above(t1, l) == IF 2 ^ t1.node[l].dup # num_children(t1.node[parent]) THEN t1
                        ELSE Replace(delete_node([t1 EXCEPT !.node[l].dup = dup], {parent}), l)
        Beside(s) == Above(s.tree, s.leaf)
    IN  Beside(MergeSide(t, parent, Last(path)[2], leaf))

merge(t, leaf, key) ==
    LET Along(path) == IF Len(path) = 1 THEN t ELSE MergeUp(t, path, leaf)
        From(g) == IF g.leaf = leaf THEN Along(g.path)
                   ELSE Along(correct_traversal_path(t, leaf, g.path, t.node[g.leaf].prev = leaf))
    IN  From(get_leaf(t, key))

\* erase_one, erase and erase(Iterator), from the leaf the key is looked for in
EraseFrom(t, leaf, key) ==
    LET erased == IF key \in t.node[leaf].keys THEN 1 ELSE 0
        Merged(t1) == IF t1.node[leaf].keys = {} THEN merge(t1, leaf, key) ELSE t1
    IN  [Merged([t EXCEPT !.node[leaf].keys = @ \ {key}, !.num = @ - erased]) EXCEPT
                   !.above = IF key > t.max THEN @ - erased ELSE @,
                   !.below = IF key < t.min THEN @ - erased ELSE @]

\* copy_tree_recursive: every node is copied with its own fields, and the child
\* pointers are redirected to the copies; a leaf's links are among its fields
CopyOf(a) == IF a = Superroot THEN a ELSE a + MaxNodes + 12
copy_tree_recursive(t) ==
    [t EXCEPT !.root = CopyOf(t.root),
              !.node = [b \in {CopyOf(a) : a \in DOMAIN t.node} |->
                           LET a == CHOOSE x \in DOMAIN t.node : CopyOf(x) = b
                           IN  [t.node[a] EXCEPT !.kids = [i \in DOMAIN @ |-> CopyOf(@[i])]]]]

-----------------------------------------------------------------------------
(* The calls *)

Idle == [kind |-> "idle"]

Empty(t) ==     \* one empty data node below a new superroot
    create_superroot([t EXCEPT !.node = [a \in {1} |-> DataNode({}, 0, 0, Null, Null)],
                               !.root = 1, !.num = 0])

Init ==
    /\ tree = Empty([node |-> <<>>, root |-> 1, min |-> KeyMax, max |-> KeyMin, above |-> 0, below |-> 0,
                     atRight |-> 0, atLeft |-> 0, num |-> 0, inserted |-> FALSE])
    /\ op = Idle
    /\ params \in {p \in [policy : Policies, up : Upwards] : p.up => p.policy # 2}
    /\ calls = 0

Called == calls < MaxCalls /\ calls' = calls + 1 /\ UNCHANGED params

Stored(t) == UNION {t.node[a].keys : a \in {b \in DOMAIN t.node : t.node[b].leaf}}

\* bulk_load: the temporary root covers the domain from the least to the largest
\* key.  Only the root is deleted: nodes below it, if any, are lost.
Load ==
    /\ op = Idle /\ tree.num = 0 /\ Called
    /\ \E S \in Loads :
          /\ tree' = [With(delete_node(tree, DOMAIN tree.node \ {Superroot}),
                           [a \in {tree.root} |-> Raw(S, Least(S), Most(S) - Least(S), 0, 0)])
                         EXCEPT !.num = Cardinality(S)]
          /\ op' = [kind |-> "load", set |-> S]

\* bulk_load_node for the next node
LoadNode ==
    /\ op.kind = "load" /\ Unbuilt(tree) # {}
    /\ LET a == Least(Unbuilt(tree))
           nd == tree.node[a]
       IN  \/ /\ Cardinality(nd.keys) <= MaxLeaf
              /\ tree' = MakeData(tree, a)
           \/ /\ Cardinality(nd.keys) > 1
              /\ \E d \in 1..Log2(MaxFanout), low \in Round, high \in Round :
                    /\ nd.wid % 2 ^ d = 0
                    /\ \E runs \in find_best_fanout_bottom_up(d) \cup find_best_fanout_top_down(d) :
                          Room(tree, Len(runs)) /\ tree' = MakeModel(tree, a, d, runs, low, high)
    /\ UNCHANGED <<op, params, calls>>

\* the end of bulk_load: superroot, key domain, leaf chain
FinishLoad ==
    /\ op.kind = "load" /\ Unbuilt(tree) = {}
    /\ tree' = link_all_data_nodes(update_superroot_key_domain(create_superroot(tree)))
    /\ op' = Idle
    /\ UNCHANGED <<params, calls>>

\* insert, to the first try at the leaf
Counted(key) ==     \* the key is counted when it is outside of the domain
    [tree EXCEPT !.above = IF key > tree.max THEN @ + 1 ELSE @,
                 !.below = IF key <= tree.max /\ key < tree.min THEN @ + 1 ELSE @]
Expanded(t, key) ==
    IF key > t.max THEN IF should_expand_right(t) THEN expand_root(t, key, FALSE) ELSE t
    ELSE IF key < t.min /\ should_expand_left(t) THEN expand_root(t, key, TRUE) ELSE t

Insert(key) ==
    /\ op = Idle /\ key \notin Stored(tree) /\ Called
    /\ \E t \in {Expanded(Counted(key), key)} : \E g \in {get_leaf(t, key)} :
          /\ Room(t, 0)
          /\ tree' = t
          /\ op' = [kind |-> "insert", key |-> key, leaf |-> g.leaf, parent |-> Last(g.path)[1],
                    path |-> IF params.up THEN g.path ELSE <<>>, fails |-> 0]

\* the leaf takes the key
LeafInsert ==
    /\ op.kind = "insert" /\ Cardinality(tree.node[op.leaf].keys) < MaxLeaf
    /\ tree' = [tree EXCEPT !.node[op.leaf].keys = @ \cup {op.key}, !.num = @ + 1, !.inserted = TRUE]
    /\ op' = Idle
    /\ UNCHANGED <<params, calls>>

\* the leaf refuses it: the depths of the fanout tree that may be chosen
Depths(fail) ==
    IF params.policy = 0 \/ fail >= 2 THEN {1}
    ELSE IF params.policy = 1 THEN {0, 1} ELSE 0..Log2(MaxFanout)

\* whether the traversal path of the call's beginning still leads to a leaf
PathLive ==
    /\ \A i \in DOMAIN op.path : op.path[i][1] \in DOMAIN tree.node
    /\ Last(op.path)[2] \in DOMAIN tree.node[Last(op.path)[1]].kids
    /\ tree.node[Child(tree, Last(op.path))].leaf

\* one round of insert's loop on failure: the key domain when the leaf is the
\* root, then a retraining or a split
Retry(s) ==
    /\ Room(s.tree, 0)
    /\ tree' = s.tree
    /\ op' = [op EXCEPT !.fails = @ + 1, !.parent = s.parent,
                        !.leaf = get_child_node(s.tree.node[s.parent], op.key)]

\* expand and retrain
Retrain(t, d) == d = 0 /\ tree' = t /\ op' = [op EXCEPT !.fails = @ + 1]

\* the width of the run that is split, in units that 2^d nodes can share
Divisible(t, bucket, d) ==
    LET pn == t.node[op.parent] IN (2 ^ t.node[pn.kids[bucket]].dup * pn.wid) % 2 ^ d = 0

\* either split sideways or downwards
Split(t, bucket, d) ==
    /\ d > 0 /\ ~params.up /\ Divisible(t, bucket, d)
    /\ \E runs \in find_best_fanout_existing_node(d), low \in Round, high \in Round :
          IF should_split_downwards(t, op.parent, op.leaf, d)
          THEN Retry(split_downwards(t, op.parent, bucket, d, runs, low, high))
          ELSE low = FALSE /\ Retry(split_sideways(t, op.parent, bucket, d, runs, high))

\* allow_splitting_upwards.  The code has no test like PathLive and uses the path also when
\* its nodes are deleted; PathUsable states that they are not, and fails.
SplitUp(t, bucket, d) ==
    /\ d > 0 /\ params.up /\ PathLive /\ Divisible(t, bucket, 1)
    /\ \A i \in DOMAIN op.path : t.node[op.path[i][1]].wid % 2 = 0
    /\ \E stop \in {best_split_propagation(t, op.path)}, low \in Round, high \in Round :
          IF stop <= t.node[Superroot].level
          THEN Retry(split_downwards(t, op.parent, bucket, d, <<1, 1>>, low, high))
          ELSE low = FALSE /\ Retry(split_upwards(t, op.path, stop, high))

Repair ==
    /\ op.kind = "insert" /\ op.fails < MaxFails /\ Cardinality(tree.node[op.leaf].keys) > 1
    /\ \E t \in {IF op.parent = Superroot THEN update_superroot_key_domain(tree) ELSE tree} :
       \E bucket \in {Bucket(t.node[op.parent], op.key)}, fail \in 1..3 : \E d \in Depths(fail) :
          Retrain(t, d) \/ Split(t, bucket, d) \/ SplitUp(t, bucket, d)
    /\ UNCHANGED <<params, calls>>

\* erase_one(key) and erase(key)
Erase(key) ==
    /\ op = Idle /\ Called
    /\ tree' = EraseFrom(tree, get_leaf(tree, key).leaf, key)
    /\ UNCHANGED op

\* erase(Iterator) for an iterator that stands on a key
EraseAt(leaf, key) ==
    /\ op = Idle /\ tree.node[leaf].leaf /\ key \in tree.node[leaf].keys /\ Called
    /\ tree' = EraseFrom(tree, leaf, key)
    /\ UNCHANGED op

clear ==
    /\ op = Idle /\ Called
    /\ tree' = Empty(tree)
    /\ UNCHANGED op

Next ==
    \/ Load \/ LoadNode \/ FinishLoad \/ LeafInsert \/ Repair \/ clear
    \/ \E key \in Keys : Insert(key) \/ Erase(key)
    \/ \E leaf \in DOMAIN tree.node, key \in Keys : EraseAt(leaf, key)

Spec == Init /\ [][Next]_vars

-----------------------------------------------------------------------------
(* Properties *)

\* The child pointers that can be followed.
PointersLive(t) ==
    \A a \in DOMAIN t.node : \A i \in DOMAIN t.node[a].kids : t.node[a].kids[i] \in DOMAIN t.node

\* AlexModelNode::validate_structure: 2^k pointers, more than one child, each
\* child's run of pointers as long as its duplication factor says and aligned.
ValidModel(t, nd) ==
    LET num == num_children(nd)
        Of(c) == {i \in DOMAIN nd.kids : nd.kids[i] = c}
    IN  /\ num >= 2 /\ num = 2 ^ Log2(num)
        /\ \A c \in Range(nd.kids) :
              LET run == 2 ^ t.node[c].dup
              IN  Of(c) = Least(Of(c))..Least(Of(c)) + run - 1 /\ Least(Of(c)) % run = 0 /\ run < num

\* Alex::validate_structure: every model node valid, the keys ascending along
\* the chain, in both directions
validate_structure(t) ==
    LET nodes == Range(NodesFrom(t, t.root))
    IN  \A a \in nodes :
           IF ~t.node[a].leaf THEN ValidModel(t, t.node[a])
           ELSE LET on == Forward(t, a, t.node[a].keys)
                    back == Backward(t, a)
                IN  /\ \A i \in 2..Len(on) : on[i - 1] < on[i]
                    /\ \A i \in 2..Len(back) : back[i - 1] > back[i]

\* Between the calls, and between the tries of an insert, the tree is one that
\* Alex::validate_structure accepts; moreover every child pointer leads to a
\* node, no node is left that nothing points to, and the leaf chain, read either
\* way, has the leaves in the order of the pointers.
ValidStructure ==
    op.kind # "load" =>
        LET nodes == NodesFrom(tree, tree.root)
            leaves == Leaves(tree)
            n == Len(leaves)
        IN  /\ PointersLive(tree)
            /\ validate_structure(tree)
            /\ Range(nodes) = DOMAIN tree.node \ {Superroot}
            /\ Cardinality(Range(nodes)) = Len(nodes)
            /\ \A i \in 1..n : /\ tree.node[leaves[i]].next = IF i = n THEN Null ELSE leaves[i + 1]
                               /\ tree.node[leaves[i]].prev = IF i = 1 THEN Null ELSE leaves[i - 1]

\* get_leaf returns the data node that contains the key, if one does.
GetLeafFinds == op = Idle => \A key \in Stored(tree) : find(tree, key) # Null

\* Between the calls every lookup answers as a sorted map does: find finds
\* exactly the stored keys, lower_bound and upper_bound iterate over the rest of
\* them in order, begin and rbegin over all, and find_last_no_greater_than gives
\* the greatest key that is not greater, or the least key below all.
LookupsExact ==
    op = Idle =>
        LET stored == Stored(tree)
            Up(S) == [i \in 1..Cardinality(S) |-> CHOOSE k \in S : Cardinality({l \in S : l < k}) = i - 1]
            first == first_data_node(tree, tree.root)
            all == Up(stored)
        IN  /\ Forward(tree, first, tree.node[first].keys) = all
            /\ Backward(tree, last_data_node(tree, tree.root)) =
                   [i \in DOMAIN all |-> all[Len(all) + 1 - i]]
            /\ \A key \in Keys :
                  LET upto == {k \in stored : k <= key}
                  IN  /\ (find(tree, key) # Null) = (key \in stored)
                      /\ lower_bound(tree, key) = Up({k \in stored : k >= key})
                      /\ upper_bound(tree, key) = Up({k \in stored : k > key})
                      /\ find_last_no_greater_than(tree, key) =
                             IF stored = {} THEN <<>>
                             ELSE IF upto = {} THEN <<Least(stored)>> ELSE <<Most(upto)>>

\* num_keys counts the keys, and the two numbers of keys that should_expand
\* divides by are positive whenever it does so.
KeysCounted ==
    op.kind # "load" =>
        /\ tree.num = Cardinality(Stored(tree))
        /\ ~tree.node[tree.root].leaf => tree.atRight > 0 /\ tree.atLeft > 0

\* Both: the nodes, and the numbers kept beside them.
Sound == ValidStructure /\ KeysCounted

\* An index without keys is one leaf, so that bulk_load, which deletes the root
\* only, loses no node.  (expand_root may leave an empty leaf that erase never
\* merges: this need not hold.)
EmptyIsLeaf == op = Idle /\ tree.num = 0 => tree.node[tree.root].leaf

\* update_superroot_key_domain's assertion when bulk_load calls it.
AssertFreshLoad ==
    op.kind = "load" /\ Unbuilt(tree) = {} => ~tree.inserted \/ tree.node[tree.root].leaf

\* The counters of keys outside of the domain count them.
OutsideCounted ==
    op = Idle /\ ~tree.node[tree.root].leaf => /\ tree.above = Cardinality({k \in Stored(tree) : k > tree.max})
                 /\ tree.below = Cardinality({k \in Stored(tree) : k < tree.min})

\* The path that an insert found at its beginning is still one when it is used
\* for another split upwards.
PathUsable == op.kind = "insert" /\ params.up => PathLive

\* A copy of the index iterates over the keys as the index does.
CopyIterates ==
    op = Idle =>
        LET copy == copy_tree_recursive(tree)
            first == first_data_node(copy, copy.root)
        IN  copy.node[first].next \in DOMAIN copy.node \cup {Null}

\* No split, expansion, retraining or merge loses a key or makes one: a call's
\* steps change the stored keys by what the call is for and by nothing else.
KeysKept ==
    [][LET old == Stored(tree)
           new == Stored(tree')
       IN  \/ new = old
           \/ op.kind = "insert" /\ new = old \cup {op.key}
           \/ op.kind = "load" /\ op' = Idle /\ new = op.set
           \/ op.kind = "load" /\ op' = op /\ new \subseteq op.set
           \/ op = Idle /\ op' = Idle /\ (new = {} \/ \E key \in Keys : new = old \ {key})]_vars

=============================================================================
