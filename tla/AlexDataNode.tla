---------------------------- MODULE AlexDataNode ----------------------------
(***************************************************************************)
(* One data node (leaf) of ALEX: AlexDataNode of include/alex/alex_nodes.h.*)
(* A node is a gapped array.  Every slot holds a key, the filled slots are *)
(* marked in a bitmap, and a gap holds the key of the next filled slot (or *)
(* the sentinel after the last one), so that a search may ignore the       *)
(* bitmap.  A linear model predicts where a key should be; it only says    *)
(* where a search begins and where a key is put when there is a choice.    *)
(*                                                                         *)
(* The numbers behind the model and behind the costs (regressions, average *)
(* shifts, sampling) are abstracted: a trained model is any member of      *)
(* Models and a cost is above its threshold or not.  Densities are exact,  *)
(* in tenths.  The bitmap keeps its words, of W bits instead of 64.        *)
(***************************************************************************)
EXTENDS Integers, Sequences, FiniteSets

CONSTANTS
    Keys,       \* the keys, integers
    Payloads,   \* the payloads
    End,        \* kEndSentinel_, above every key
    Junk,       \* an uninitialized payload slot
    W,          \* bits of a bitmap word (64)
    MaxSlots,   \* max_slots_
    Models,     \* pairs <<slope, intercept>> a training may end with
    PastEnd,    \* the words that may lie behind the bitmap, as sets of bits
    Loads,      \* sorted sequences of <<key, payload>> to bulk load
    MaxCalls    \* bound on the calls of a behaviour

ASSUME AlexDataNodeAssumption ==
    /\ Keys \subseteq Int /\ IsFiniteSet(Keys) /\ Keys # {}
    /\ End \in Int /\ \A k \in Keys : k < End
    /\ W \in Nat \ {0} /\ MaxSlots \in Nat /\ MaxCalls \in Nat
    /\ Models # {} /\ Models \subseteq Nat \X Int
    /\ PastEnd # {} /\ PastEnd \subseteq SUBSET (0..W - 1)
    /\ Loads \subseteq Seq(Keys \X Payloads)
    /\ \A vals \in Loads : \A i, j \in 1..Len(vals) : i <= j => vals[i][1] <= vals[j][1]

VARIABLES
    node,       \* the node
    pending,    \* the call the tree has not finished, or NoCall
    fail,       \* its fail flag: 0, or 1, 2, 3 as insert returned it
    calls       \* calls made so far

vars == <<node, pending, fail, calls>>

NoCall == [op |-> "none", key |-> 0, payload |-> Junk, finish |-> 0, inclusive |-> FALSE]

Minimum(a, b) == IF a < b THEN a ELSE b
Maximum(a, b) == IF a > b THEN a ELSE b
MinOf(S) == CHOOSE x \in S : \A y \in S : x <= y
MaxOf(S) == CHOOSE x \in S : \A y \in S : x >= y

\* the positions of a set in ascending order
InOrder(S) ==
    [i \in 1..Cardinality(S) |-> CHOOSE p \in S : Cardinality({q \in S : q < p}) = i - 1]

-----------------------------------------------------------------------------
(* Bitmap: positions are bits of words *)

Slots(nd) == 0..nd.cap - 1
Gaps(nd) == Slots(nd) \ nd.bit
bitmap_size(nd) == (nd.cap + W - 1) \div W

\* check_exists
check_exists(nd, pos) == pos \in nd.bit

\* the bits of word w; the word behind the last one is not the node's
Word(nd, w, past) ==
    IF w < bitmap_size(nd) THEN {b \in 0..W - 1 : w * W + b \in nd.bit} ELSE past

IsFull(nd, w) == Word(nd, w, {}) = 0..W - 1

\* Iterator, from construction at position left: the filled slots it visits
\* before it reaches right
Iterate(nd, left, right) == InOrder({p \in nd.bit : p >= left /\ p < right})

\* num_keys_in_range
num_keys_in_range(nd, left, right) == Cardinality(nd.bit \cap (left..right - 1))

\* get_next_filled_position: with pos = data_capacity at a word boundary the
\* word read is the one behind the bitmap
get_next_filled_position(nd, pos, exclusive, past) ==
    LET from == IF exclusive THEN pos + 1 ELSE pos
        first == {w \in (from \div W)..Maximum(from \div W, bitmap_size(nd) - 1) :
                    \E b \in Word(nd, w, past) : w * W + b >= from}
    IN  IF (exclusive /\ from = nd.cap) \/ first = {} THEN nd.cap
        ELSE LET w == MinOf(first)
             IN  MinOf({q \in {w * W + b : b \in Word(nd, w, past)} : q >= from})

\* tzcnt and lzcnt of the complement of word w, as positions
FirstGap(nd, w) == w * W + MinOf({b \in 0..W : b \notin Word(nd, w, {})})
LastGap(nd, w) == w * W + MaxOf({b \in -1..W - 1 : b \notin Word(nd, w, {})})

\* closest_gap, the branch for a word without a gap: the words at growing
\* distance d to both sides, then the side that has more words left
GapOutsideWord(nd, p) ==
    LET w == p \div W
        b == p % W
        right == (nd.cap - 1) \div W
        both == Minimum(w, right - w)
        Nearer(lg, rg) == IF p - lg <= rg - p \/ rg >= nd.cap THEN lg ELSE rg
        LeftFree(d) == ~IsFull(nd, w - d)
        RightFree(d) == ~IsFull(nd, w + d)
        Stops(d) == LeftFree(d) \/ (RightFree(d) /\ FirstGap(nd, w + d) < nd.cap)
        At(d) ==
            LET lg == LastGap(nd, w - d)
                rg == FirstGap(nd, w + d)
            IN  CASE LeftFree(d) /\ RightFree(d) -> Nearer(lg, rg)
                  [] LeftFree(d) /\ ~RightFree(d) ->
                        IF b > W \div 2 /\ w + d + 1 < bitmap_size(nd) /\ ~IsFull(nd, w + d + 1)
                        THEN Nearer(lg, FirstGap(nd, w + d + 1)) ELSE lg
                  [] OTHER ->
                        IF b < W \div 2 /\ w - d > 0 /\ ~IsFull(nd, w - d - 1)
                        THEN Nearer(LastGap(nd, w - d - 1), rg) ELSE rg
        near == {d \in 1..both : Stops(d)}
        farleft == {i \in 0..w - both - 1 : ~IsFull(nd, i)}
        farright == {i \in w + both + 1..right : ~IsFull(nd, i)}
    IN  IF near # {} THEN At(MinOf(near))
        ELSE IF w > right - w
             THEN IF farleft = {} THEN -1 ELSE LastGap(nd, MaxOf(farleft))
             ELSE IF farright = {} \/ FirstGap(nd, MinOf(farright)) >= nd.cap THEN -1
                  ELSE FirstGap(nd, MinOf(farright))

\* a closest_gap that takes the unused bits of the last word for slots
GapBeyondArray(nd, p) ==
    LET w == p \div W
        b == p % W
        rights == {c \in b..W - 1 : c \notin Word(nd, w, {})}
        lefts == {c \in 0..b - 1 : c \notin Word(nd, w, {})}
        rdist == IF rights # {} THEN MinOf(rights) - b ELSE W
        ldist == IF lefts # {} THEN b - MaxOf(lefts) ELSE W
    IN  IF rdist < ldist THEN p + rdist ELSE p - ldist

\* closest_gap, the branch for a word with a gap
GapNearWord(nd, p) ==
    LET w == p \div W
        b == p % W
        rights == {c \in b..W - 1 : c \notin Word(nd, w, {})}
        lefts == {c \in 0..b - 1 : c \notin Word(nd, w, {})}
        rdist == IF rights # {} THEN MinOf(rights) - b
                 ELSE IF w + 1 < bitmap_size(nd) THEN FirstGap(nd, w + 1) - p ELSE W
        ldist == IF lefts # {} THEN b - MaxOf(lefts)
                 ELSE IF w > 0 THEN p - LastGap(nd, w - 1) ELSE W
    IN  IF rdist < ldist /\ p + rdist < nd.cap THEN p + rdist ELSE p - ldist

closest_gap(nd, pos) ==
    LET p == Minimum(pos, nd.cap - 1)
        w == p \div W
    IN  IF \/ IsFull(nd, w)
           \/ /\ w = bitmap_size(nd) - 1
              /\ Cardinality(Word(nd, w, {})) = nd.cap - w * W
        THEN GapOutsideWord(nd, p) ELSE GapNearWord(nd, p)

-----------------------------------------------------------------------------
(* Building a node *)

\* LinearModel::predict, and predict_position, which clamps it
predict(model, key) == model[1] * key + model[2]
predict_position(nd, key) == Maximum(Minimum(predict(nd.model, key), nd.cap - 1), 0)

\* build_model and the builders: what a regression over the keys, over a sample
\* of them, or a spline ends with
build_model == Models

\* initialize: the capacity for n keys at a density of d tenths
Capacity(n, d) == Maximum((n * 10) \div d, n + 1)

\* the slots model-based inserts choose for the sorted values: not before the
\* prediction, after the previous key, and leaving room for the keys to come
Positions(vals, model, cap) ==
    LET n == Len(vals)
        pos[i \in 0..n] ==
            IF i = 0 THEN -1
            ELSE Minimum(Maximum(predict(model, vals[i][1]), pos[i - 1] + 1), cap - (n - i + 1))
    IN  [i \in 1..n |-> pos[i]]

\* the node with these values at these positions; gaps take the next key
Layout(vals, at, cap, model) ==
    LET filled == {at[i] : i \in DOMAIN at}
        Next(p) == {i \in DOMAIN at : at[i] >= p}
        Holds(p) == CHOOSE i \in DOMAIN at : at[i] = p
        n == Len(vals)
    IN  [cap |-> cap, n |-> n, model |-> model, bit |-> filled,
         key |-> [p \in 0..cap - 1 |-> IF Next(p) = {} THEN End ELSE vals[MinOf(Next(p))][1]],
         pay |-> [p \in 0..cap - 1 |-> IF p \in filled THEN vals[Holds(p)][2] ELSE Junk],
         expand |-> IF n = 0 THEN cap * 10
                    ELSE Minimum(Maximum(cap * 8, (n + 1) * 10), cap * 10),
         contract |-> IF n = 0 THEN 0 ELSE cap * 6]

\* the values between two positions, in order
Values(nd, left, right) ==
    LET at == Iterate(nd, left, right)
    IN  [i \in 1..Len(at) |-> <<nd.key[at[i]], nd.pay[at[i]]>>]

\* bulk_load at kInitDensity_
bulk_load(vals, model) ==
    LET cap == Capacity(Len(vals), 7)
    IN  Layout(vals, Positions(vals, model, cap), cap, model)

\* bulk_load_from_existing at kMinDensity_
bulk_load_from_existing(nd, left, right, model) ==
    LET vals == Values(nd, left, right)
        cap == Capacity(num_keys_in_range(nd, left, right), 6)
    IN  Layout(vals, Positions(vals, model, cap), cap, model)

\* resize to a density of d tenths; an empty node is left alone
resize(nd, d, model) ==
    LET vals == Values(nd, 0, nd.cap)
        cap == Capacity(nd.n, d)
    IN  IF nd.n = 0 THEN nd ELSE Layout(vals, Positions(vals, model, cap), cap, model)

\* a cost computed without the room the keys to come need
ImplicitWithoutRoom(vals, model, cap) ==
    LET Clamped(i) == Maximum(0, Minimum(cap - 1, predict(model, vals[i][1])))
        pos[i \in 0..Len(vals)] ==
            IF i = 0 THEN -1 ELSE Maximum(Clamped(i), pos[i - 1] + 1)
    IN  [i \in 1..Len(vals) |-> <<pos[i], Clamped(i)>>]

\* build_node_implicit: the slots the cost of a node is computed from before
\* the node exists; here the prediction is clamped
build_node_implicit(vals, model, cap) ==
    LET n == Len(vals)
        Clamped(i) == Maximum(0, Minimum(cap - 1, predict(model, vals[i][1])))
        pos[i \in 0..n] ==
            IF i = 0 THEN -1
            ELSE Minimum(Maximum(Clamped(i), pos[i - 1] + 1), cap - (n - i + 1))
    IN  [i \in 1..n |-> <<pos[i], Clamped(i)>>]

\* build_node_implicit_from_existing walks the slots of a node instead; once the
\* room is scarce it takes the rest of the slots of the new node, one key each
build_node_implicit_from_existing(nd, left, right, model, cap, n) ==
    LET at == Iterate(nd, left, right)
        Clamped(i) == Maximum(0, Minimum(cap - 1, predict(model, nd.key[at[i]])))
        pos[i \in 0..Len(at)] ==
            IF i = 0 THEN -1
            ELSE Minimum(Maximum(Clamped(i), pos[i - 1] + 1), cap - (n - i + 1))
    IN  [i \in 1..Len(at) |-> <<pos[i], Clamped(i)>>]

\* compute_expected_cost of the keys, of a part of a node, of a node: the pairs
\* of actual and predicted slot the accumulators are fed (their sums, logarithms
\* and weights are left out)
compute_expected_cost(vals, d, model) ==
    build_node_implicit(vals, model, Capacity(Len(vals), d))

\* compute_expected_cost_sampling of n keys: the step between the keys of the
\* i-th sample.  The first is the largest power of two that leaves MinSample keys
\* or a hundredth of them, every further one is half of the one before.
MinSample == 25
ExactBelow == MinSample * 8
SampleStep(n, i) ==
    LET first == 2 ^ MaxOf({e \in 0..20 : n >= 2 ^ e * Maximum(n \div 100, MinSample)})
    IN  first \div 2 ^ (i - 1)

\* the sampling may end once three samples agree, and ends with half of the keys
compute_expected_cost_sampling(n, i) == i >= 3 /\ n <= 2 * (n \div SampleStep(n, i))

compute_expected_cost_from_existing(nd, left, right, d, model) ==
    LET n == num_keys_in_range(nd, left, right)
    IN  build_node_implicit_from_existing(nd, left, right, model, Capacity(n, d), n)

compute_expected_cost_of(nd) ==
    LET at == Iterate(nd, 0, nd.cap)
    IN  [i \in 1..Len(at) |-> <<at[i], predict_position(nd, nd.key[at[i]])>>]

-----------------------------------------------------------------------------
(* Lookups *)

\* low is the set of slots whose key is on the lower side of the one searched

\* the loop of a binary search: <<l, r>> after n rounds
BinarySearch(l0, r0, low) ==
    LET search[n \in 0..r0 - l0] ==
            IF n = 0 THEN <<l0, r0>>
            ELSE LET s == search[n - 1]
                     l == s[1]
                     r == s[2]
                     mid == l + (r - l) \div 2
                 IN  IF l >= r THEN <<l, r>>
                     ELSE IF mid \in low THEN <<mid + 1, r>> ELSE <<l, mid>>
    IN  search[r0 - l0][1]

\* the loop before it: the bound doubles while the slot at that distance exists
\* and is beyond the key
ExpBound(size, beyond) ==
    LET bound[n \in 0..size] ==
            IF n = 0 THEN 1
            ELSE LET b == bound[n - 1]
                 IN  IF b < size /\ b \in beyond THEN 2 * b ELSE b
    IN  bound[size]

\* from slot m to the left or to the right
ExponentialSearch(cap, m, low) ==
    IF m \notin low
    THEN LET bound == ExpBound(m, {d \in 1..m : m - d \notin low})
         IN  BinarySearch(m - Minimum(bound, m), m - bound \div 2, low)
    ELSE LET size == cap - m
             bound == ExpBound(size, {d \in 1..size : m + d \in low})
         IN  BinarySearch(m + bound \div 2, m + Minimum(bound, size), low)

exponential_search_upper_bound(nd, m, key) ==
    ExponentialSearch(nd.cap, m, {p \in Slots(nd) : nd.key[p] <= key})
exponential_search_lower_bound(nd, m, key) ==
    ExponentialSearch(nd.cap, m, {p \in Slots(nd) : nd.key[p] < key})

upper_bound(nd, key) == exponential_search_upper_bound(nd, predict_position(nd, key), key)
lower_bound(nd, key) == exponential_search_lower_bound(nd, predict_position(nd, key), key)

\* find_key, with the search begun at m
find_key(nd, m, key) ==
    LET pos == exponential_search_upper_bound(nd, m, key) - 1
    IN  IF pos < 0 THEN -1 ELSE IF nd.key[pos] # key THEN -1 ELSE pos

find_lower(nd, key, past) == get_next_filled_position(nd, lower_bound(nd, key), FALSE, past)
find_upper(nd, key, past) == get_next_filled_position(nd, upper_bound(nd, key), FALSE, past)

\* find_insert_position: where to put the key, and its upper bound
find_insert_position(nd, key) ==
    LET predicted == predict_position(nd, key)
        pos == exponential_search_upper_bound(nd, predicted, key)
    IN  IF predicted <= pos THEN <<pos, pos>>
        ELSE IF check_exists(nd, pos) THEN <<pos, pos>>
        ELSE <<Minimum(predicted, get_next_filled_position(nd, pos, TRUE, {}) - 1), pos>>

-----------------------------------------------------------------------------
(* Inserts *)

\* an insert that leaves the gaps before the slot as they were
InsertKeepingGaps(nd, key, payload, pos) ==
    [nd EXCEPT !.key[pos] = key, !.pay[pos] = payload, !.bit = nd.bit \cup {pos}]

\* insert_element_at: the gaps before the slot take its key
insert_element_at(nd, key, payload, pos) ==
    LET before == {p \in nd.bit : p < pos}
        from == IF before = {} THEN 0 ELSE MaxOf(before) + 1
    IN  [nd EXCEPT !.key = [p \in Slots(nd) |-> IF p \in from..pos THEN key ELSE nd.key[p]],
                   !.pay[pos] = payload,
                   !.bit = nd.bit \cup {pos}]

\* insert_using_shifts: the slots between the position and the closest gap
\* move by one towards the gap
insert_using_shifts(nd, key, payload, pos) ==
    LET gap == closest_gap(nd, pos)
        Moved(f) == [p \in Slots(nd) |->
                        IF gap >= pos /\ p \in pos + 1..gap THEN f[p - 1]
                        ELSE IF gap < pos /\ p \in gap..pos - 2 THEN f[p + 1]
                        ELSE f[p]]
        moved == [nd EXCEPT !.key = Moved(nd.key), !.pay = Moved(nd.pay),
                            !.bit = nd.bit \cup {gap}]
    IN  insert_element_at(moved, key, payload, IF gap >= pos THEN pos ELSE pos - 1)

\* insert once there is room (duplicates are allowed)
PutElement(nd, key, payload) ==
    LET pos == find_insert_position(nd, key)[1]
        put == IF pos < nd.cap /\ ~check_exists(nd, Minimum(pos, nd.cap - 1))
               THEN insert_element_at(nd, key, payload, pos)
               ELSE insert_using_shifts(nd, key, payload, pos)
    IN  [put EXCEPT !.n = nd.n + 1]

-----------------------------------------------------------------------------
(* Deletes *)

\* the key a slot takes when the one at pos goes
KeyAfter(nd, pos) == IF pos >= nd.cap THEN End ELSE nd.key[pos]

\* unset the filled slots of lo..hi, give them and the gaps before them the key
\* that follows, and contract when the node became sparse
Unset(nd, lo, hi, model) ==
    LET bits == nd.bit \ (lo..hi)
        rest == [nd EXCEPT
                   !.key = [p \in Slots(nd) |->
                               IF p \in lo..hi THEN KeyAfter(nd, hi + 1) ELSE nd.key[p]],
                   !.bit = bits,
                   !.n = nd.n - Cardinality(nd.bit \cap (lo..hi))]
    IN  IF rest.n * 10 < nd.contract THEN resize(rest, 8, model) ELSE rest

\* erase_one_at
erase_one_at(nd, pos, model) ==
    LET before == {p \in nd.bit : p < pos}
        lo == IF before = {} THEN 0 ELSE MaxOf(before) + 1
    IN  Unset(nd, lo, pos, model)

\* erase_one: the left-most slot with the key.  A position behind the array is
\* not recognised: should the memory there equal the key, the node counts a key
\* less and clears none of its slots
erase_one(nd, key, past, model) ==
    LET pos == find_lower(nd, key, past)
    IN  IF pos > nd.cap THEN {nd, [nd EXCEPT !.n = nd.n - 1]}
        ELSE {IF KeyAfter(nd, pos) # key THEN nd ELSE erase_one_at(nd, pos, model)}

\* erase: every slot with the key
erase(nd, key, model) ==
    LET pos == upper_bound(nd, key)
        same == {p \in 0..pos - 1 : \A q \in p..pos - 1 : nd.key[q] = key}
    IN  IF same = {} THEN nd ELSE Unset(nd, MinOf(same), pos - 1, model)

\* erase_range: every key from start up to finish, finish too when inclusive
erase_range(nd, start, finish, inclusive, model) ==
    LET pos == IF inclusive THEN upper_bound(nd, finish) ELSE lower_bound(nd, finish)
        within == {p \in 0..pos - 1 : \A q \in p..pos - 1 : nd.key[q] >= start}
        lo == IF within = {} THEN pos ELSE MinOf(within)
    IN  IF pos = 0 THEN nd ELSE Unset(nd, lo, pos - 1, model)

-----------------------------------------------------------------------------
(* The calls the tree makes of one leaf *)

Init ==
    /\ \E vals \in Loads, model \in build_model : node = bulk_load(vals, model)
    /\ pending = NoCall /\ fail = 0 /\ calls = 0

\* The tree has found the leaf of a key and calls one of its operations.
Call(request) ==
    /\ pending = NoCall /\ calls < MaxCalls
    /\ pending' = request
    /\ calls' = calls + 1
    /\ UNCHANGED <<node, fail>>

Full(nd) == nd.n * 10 >= nd.expand

\* the flags insert may return without inserting: 1 and 2 as the costs say,
\* which is any answer here, 3 for a node that may not grow
FailFlags(nd) ==
    {2} \cup (IF Full(nd) THEN {1} ELSE {})
        \cup (IF Full(nd) /\ nd.n * 10 > MaxSlots * 6 THEN {3} ELSE {})

\* insert: 0 when the key went in, after an expansion when the node was full;
\* 1 (the cost deviates), 2 (catastrophic cost), 3 (at capacity) when it did not.
\* The tree inserts again after it has retrained or split the leaf.
insert(key, payload) ==
    \/ /\ Full(node) => node.n * 10 <= MaxSlots * 6
       /\ \E nd \in IF Full(node) THEN {resize(node, 6, model) : model \in build_model}
                    ELSE {node} :
              node' = PutElement(nd, key, payload)
       /\ fail' = 0 /\ pending' = NoCall
    \/ /\ fail' \in FailFlags(node)
       /\ UNCHANGED <<node, pending>>

Insert ==
    /\ pending.op = "insert" /\ fail = 0
    /\ insert(pending.key, pending.payload)
    /\ UNCHANGED calls

\* A retraining that leaves out the last key.
RetrainShort ==
    /\ fail = 1
    /\ \E model \in build_model :
          node' = bulk_load_from_existing(node, 0, MaxOf(node.bit), model)
    /\ fail' = 0
    /\ UNCHANGED <<pending, calls>>

\* its answer to flag 1 when one leaf is best: expand and retrain
Retrain ==
    /\ fail = 1
    /\ \E model \in build_model : node' = resize(node, 6, model)
    /\ fail' = 0
    /\ UNCHANGED <<pending, calls>>

\* its other answer: split, and the leaf the pending key belongs to stands for
\* this one from here on
Split(mid) ==
    /\ fail # 0
    /\ \E model \in build_model :
          LET b == lower_bound(node, mid)
          IN  node' = IF pending.key < mid THEN bulk_load_from_existing(node, 0, b, model)
                      ELSE bulk_load_from_existing(node, b, node.cap, model)
    /\ fail' = 0
    /\ UNCHANGED <<pending, calls>>

Deleted(op) == pending.op = op /\ pending' = NoCall /\ UNCHANGED <<fail, calls>>

EraseOne ==
    /\ Deleted("erase_one")
    /\ \E model \in build_model, past \in PastEnd :
          node' \in erase_one(node, pending.key, past, model)

Erase ==
    /\ Deleted("erase")
    /\ \E model \in build_model : node' = erase(node, pending.key, model)

\* expand_root hands the keys of a range to new leaves
EraseRange ==
    /\ Deleted("erase_range")
    /\ \E model \in build_model :
          node' = erase_range(node, pending.key, pending.finish, pending.inclusive, model)

CallInsert(key, payload) ==
    Call([NoCall EXCEPT !.op = "insert", !.key = key, !.payload = payload])
CallErase(key) == \E op \in {"erase_one", "erase"} : Call([NoCall EXCEPT !.op = op, !.key = key])
CallEraseRange(start, finish, inclusive) ==
    /\ start <= finish
    /\ Call([NoCall EXCEPT !.op = "erase_range", !.key = start, !.finish = finish,
                           !.inclusive = inclusive])

Next ==
    \/ \E key \in Keys, payload \in Payloads : CallInsert(key, payload)
    \/ \E key \in Keys : CallErase(key)
    \/ \E start \in Keys, finish \in Keys, inclusive \in BOOLEAN :
          CallEraseRange(start, finish, inclusive)
    \/ Insert
    \/ Retrain
    \/ \E mid \in Keys : Split(mid)
    \/ EraseOne
    \/ Erase
    \/ EraseRange

Spec == Init /\ [][Next]_vars

-----------------------------------------------------------------------------
(* Properties *)

\* validate_structure of the node (alex_nodes.h:2613): the slots are sorted, the
\* last slot of every value is filled, the sentinel is never a key, num_keys_
\* counts the bits.  Every search relies on it, across any sequence of shifts,
\* expansions, contractions and splits.
ValidStructure ==
    /\ \A i \in 0..node.cap - 2 :
          /\ node.key[i] <= node.key[i + 1]
          /\ node.key[i] < node.key[i + 1] => check_exists(node, i)
    /\ (node.key[node.cap - 1] = End) = (node.cap - 1 \notin node.bit)
    /\ Cardinality(node.bit) = node.n

\* Exponential search finds the bounds of every key from every slot a model may
\* predict, at both ends of the array too; find_key then answers with a filled
\* slot; find_lower and find_upper with the next filled slot, or with a
\* position no slot has.
SearchExact ==
    \A key \in Keys, m \in Slots(node) :
        LET ub == Cardinality({p \in Slots(node) : node.key[p] <= key})
            lb == Cardinality({p \in Slots(node) : node.key[p] < key})
            FirstFrom(p, q) == IF \E r \in node.bit : r >= p
                               THEN q = MinOf({r \in node.bit : r >= p}) ELSE q >= node.cap
        IN  /\ exponential_search_upper_bound(node, m, key) = ub
            /\ exponential_search_lower_bound(node, m, key) = lb
            /\ LET f == find_key(node, m, key)
               IN  IF \E p \in node.bit : node.key[p] = key
                   THEN f \in node.bit /\ node.key[f] = key /\ f = ub - 1 ELSE f = -1
            /\ \A past \in PastEnd :
                  /\ FirstFrom(lb, find_lower(node, key, past))
                  /\ FirstFrom(ub, find_upper(node, key, past))

\* closest_gap, over words and across them, finds a gap of the node whenever
\* there is one, and none is closer ("Returns position of closest gap to pos",
\* alex_nodes.h:2205).  A result outside the array would make
\* insert_using_shifts write there.
ClosestGapExact ==
    \A pos \in 0..node.cap :
        LET p == Minimum(pos, node.cap - 1)
            g == closest_gap(node, pos)
            Distance(q) == IF p > q THEN p - q ELSE q - p
        IN  IF Gaps(node) = {} THEN g = -1
            ELSE g \in Gaps(node) /\ \A q \in Gaps(node) : Distance(g) <= Distance(q)

\* The searches for a key, for a bound and for a gap.
SearchesExact == SearchExact /\ ClosestGapExact

\* Sampling ends: no size reaches a step of 0, by which the code would divide,
\* before the loop returns (alex_nodes.h:1030-1126).
SamplingEnds ==
    \A n \in ExactBelow..1200 : \E i \in 1..12 :
        /\ \A j \in 1..i : SampleStep(n, j) > 0
        /\ compute_expected_cost_sampling(n, i)

\* The cost that decides for or against a split is computed from the layout
\* the nodes really get: for any keys of the node and any model, the slots that
\* compute_expected_cost and compute_expected_cost_from_existing imagine are the
\* slots of the node the bulk load builds, and the cost the node then computes
\* of itself is of the same slots and predictions.
CostOfLayout ==
    \A model \in build_model, left \in Slots(node) :
        LET vals == Values(node, left, node.cap)
            built == bulk_load_from_existing(node, left, node.cap, model)
        IN  /\ compute_expected_cost(vals, 6, model) = compute_expected_cost_of(built)
            /\ compute_expected_cost_from_existing(node, left, node.cap, 6, model)
                   = compute_expected_cost_of(built)

\* The node implements a multimap: the call in progress adds, removes or leaves
\* exactly the pairs that its kind and its arguments say, when it returns and not
\* before; a refused insert, a retraining and the resizes of any call change no
\* pair, a split none of the side that stays; pairs with equal keys keep their
\* order of insertion (find returns the youngest, erase_one removes the oldest).
Contents == [k \in Keys |->
    LET at == InOrder({p \in node.bit : node.key[p] = k})
    IN  [i \in 1..Len(at) |-> node.pay[at[i]]]]

Abstract == INSTANCE Multimap WITH values <- Contents, req <- pending

ImplementsMultimap == Abstract!Spec
=============================================================================
