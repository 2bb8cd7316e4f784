------------------------------ MODULE EplScan ------------------------------
(***************************************************************************)
(* EPLTree::Scan and EPLTree::RangeScan: what they return in each state of *)
(* the tree, against the pairs that Get would return.  Both only read the  *)
(* tree, start at the entry that lookups reach and follow the list.        *)
(***************************************************************************)
EXTENDS EplTree

Pair(e, i) == <<e.key[i], e.val[i]>>

\* memcpy to tmp_kvs and sort by key.
Sorted(e) ==
  LET f == CHOOSE g \in [Slots -> Slots] : SortedBy(e, g)
  IN [n \in 1..K |-> Pair(e, f[n - 1])]

\* In sorted pairs: the first one from key k on, behind the end if none is.
StartPos(kvs, k) ==
  IF \E n \in 1..K : kvs[n][1] >= k
  THEN CHOOSE n \in 1..K : kvs[n][1] >= k /\ \A m \in 1..(n - 1) : kvs[m][1] < k
  ELSE K + 1

\* The pairs from key k on; those that are not empty, which come behind the
\* others because INVALID_KEY is 0; the first n.
From(kvs, k) == SubSeq(kvs, StartPos(kvs, k), K)
Live(kvs) == From(kvs, 1)
Take(kvs, n) == SubSeq(kvs, 1, IF n < Len(kvs) THEN n ELSE Len(kvs))

-----------------------------------------------------------------------------
(* Scan(start_key, size, results), from an empty results. *)

\* Faulty: the start key itself is left out.
ScanStartAfter(k, size) == Take(From(Sorted(nvm[Route(k)]), k + 1), size)

\* The pairs that the start entry contributes.
ScanStart(k, size) == Take(From(Sorted(nvm[Route(k)]), k), size)

\* "scan middle entries, no need to sort": what is appended is tmp, the
\* sorted pairs of the START entry, whatever the middle entry holds.
ScanMiddle(s, tmp) ==
  [entry |-> nvm[s.entry].next, results |-> s.results \o Live(tmp)]

\* "scan end entries": each entry is sorted and appended, up to size pairs.
ScanEnd(s, size) ==
  [entry |-> nvm[s.entry].next,
   results |-> Take(s.results \o Live(Sorted(nvm[s.entry])), size)]

\* One entry of either loop.  cnt only grows, so the first loop comes first.
ScanEntry(s, size, tmp) ==
  CASE s.entry = Null \/ Len(s.results) >= size -> s
    [] s.entry # Null /\ size - Len(s.results) >= K -> ScanMiddle(s, tmp)
    [] OTHER -> ScanEnd(s, size)

\* Where the loops are after n entries, at most all of the pool.
ScanWalk(k, size) ==
  LET e == nvm[Route(k)]
      walk[n \in 0..MaxEntries] ==
        IF n = 0 THEN [entry |-> e.next, results |-> ScanStart(k, size)]
        ELSE ScanEntry(walk[n - 1], size, Sorted(e))
  IN walk

Scan(k, size) == ScanWalk(k, size)[MaxEntries].results

-----------------------------------------------------------------------------
(* RangeScan(start_key, end_key, results). *)

\* The slots whose key is in the range, in slot order.
InRange(e, lo, hi) ==
  LET push[n \in 0..K] ==
        IF n = 0 THEN <<>>
        ELSE IF e.key[n - 1] >= lo /\ e.key[n - 1] <= hi
        THEN Append(push[n - 1], Pair(e, n - 1))
        ELSE push[n - 1]
  IN push[K]

\* "scan middle entries": from the start entry, once more, to the end entry,
\* all slots of each.
RangeMiddle(a, end) ==
  LET walk[n \in 0..MaxEntries] ==
        IF n = 0 THEN [entry |-> a, results |-> <<>>]
        ELSE LET s == walk[n - 1] IN
             IF s.entry \in {end, Null} THEN s
             ELSE [entry |-> nvm[s.entry].next,
                   results |-> s.results \o [i \in 1..K |-> Pair(nvm[s.entry], i - 1)]]
  IN walk[MaxEntries].results

RangeScan(lo, hi) ==
  LET a == Route(lo)
      b == Route(hi)
  IN IF a = b THEN InRange(nvm[a], lo, hi)
     ELSE InRange(nvm[a], lo, hi) \o RangeMiddle(a, b) \o InRange(nvm[b], lo, hi)

-----------------------------------------------------------------------------
(* Properties. *)

\* What Get returns: the keys from lo on that it finds, with their values.
StoredKeys(lo) == {k \in Keys : k >= lo /\ Found(k)}

(***************************************************************************)
(* r is the first n of the stored pairs from key k on: ascending, with the *)
(* values of Get, and a stored key is left out only behind n others.       *)
(***************************************************************************)
FirstPairs(r, k, n) ==
  /\ Len(r) <= n
  /\ \A i \in 1..Len(r) : r[i][1] \in StoredKeys(k) /\ r[i][2] = Get(r[i][1])
  /\ \A i, j \in 1..Len(r) : i < j => r[i][1] < r[j][1]
  /\ \A x \in StoredKeys(k) :
       \/ \E i \in 1..Len(r) : r[i][1] = x
       \/ Len(r) = n /\ \A i \in 1..Len(r) : r[i][1] < x

MaxScan == 2 * K                       \* bound: the longest scan

(***************************************************************************)
(* Scan returns the next n pairs in order, for every start key and size,   *)
(* as long as fewer than K pairs are missing after the start entry: the    *)
(* unsorted entries, the removed slots and the entries that a split left   *)
(* half empty make no difference.                                          *)
(***************************************************************************)
ScanExact ==
  pc = "idle" =>
    \A k \in Keys, n \in 1..MaxScan :
      n - Len(ScanStart(k, n)) < K => FirstPairs(Scan(k, n), k, n)

\* The same without the restriction: the middle entries are scanned too.
LongScanExact == pc = "idle" => \A k \in Keys, n \in 1..MaxScan : FirstPairs(Scan(k, n), k, n)

\* r has the stored pairs from key lo to key hi, each once.
PairsOf(r, lo, hi) ==
  /\ \A i, j \in 1..Len(r) : r[i] = r[j] => i = j
  /\ {r[i] : i \in 1..Len(r)} = {<<x, Get(x)>> : x \in {y \in StoredKeys(lo) : y <= hi}}

\* A RangeScan that starts and ends in the same entry returns every stored
\* pair of the range once and nothing else.
RangeScanExact ==
  pc = "idle" =>
    \A lo, hi \in Keys :
      lo <= hi /\ Route(lo) = Route(hi) => PairsOf(RangeScan(lo, hi), lo, hi)

\* Scan and RangeScan, where they do not reach their loops over middle entries.
ScansExact == ScanExact /\ RangeScanExact

\* The same for every range: the middle entries are scanned once too.
LongRangeScanExact ==
  pc = "idle" => \A lo, hi \in Keys : lo <= hi => PairsOf(RangeScan(lo, hi), lo, hi)
=============================================================================
