---------------------------- MODULE ClhtProofs ----------------------------
(***************************************************************************)
(* Proofs about Clht, for any number of threads, keys and calls: in every  *)
(* table each key is in its bin and in one slot, and a resize that grows   *)
(* the table loses no key.                                                 *)
(*                                                                         *)
(* The inductive invariant Inv says which thread may change what.  Locks   *)
(* of bins are exclusive (LockInv), and a bin that has been copied stays   *)
(* locked for good, as do all bins of the tables before the current one    *)
(* (FrozenInv): so what a thread finds under a lock is in h->ht and no     *)
(* copy of it exists yet.  One thread at a time is on its way to a resize, *)
(* since the counter of extra buckets meets the threshold once per table   *)
(* (TokenInv): so the table that ht_resize_pes reads before it takes       *)
(* resize_lock is the current one (ResizeInv), and the new table has the   *)
(* pairs of the bins copied so far (CopyInv).  A put that has stored its   *)
(* value owns an empty slot until it stores its key (PendingInv).          *)
(*                                                                         *)
(* The hypothesis SmallIsNotSparse says that a table of fewer bins than a  *)
(* shrink divides by is never sparse enough to shrink, which would leave   *)
(* it without bins; CodeIsNotSparse derives it from what the code sets.    *)
(***************************************************************************)
EXTENDS Clht, TLAPS, WellFoundedInduction, SequenceTheorems, FiniteSetTheorems

-----------------------------------------------------------------------------
(* Chains. *)

\* A nonempty set of naturals has a smallest element.
LEMMA Smallest ==
  ASSUME NEW S \in SUBSET Nat, S # {}
  PROVE  \E x \in S : \A y \in S : x <= y
<1>1. IsWellFoundedOn(OpToRel(<, Nat), Nat)
  BY NatLessThanWellFounded
<1>2. PICK x \in S : \A y \in S : ~(<<y, x>> \in OpToRel(<, Nat))
  BY <1>1, WFMin
<1>3. \A y \in S : y < x => <<y, x>> \in OpToRel(<, Nat)
  BY DEF OpToRel
<1>4. \A y \in S : ~(y < x)
  BY <1>2, <1>3
<1> QED BY <1>4

Slots == [key : Nat, val : Nat]

LEMMA FcnIsSeq ==
  ASSUME NEW S, NEW n \in Nat, NEW f \in [1..n -> S]
  PROVE  f \in Seq(S) /\ Len(f) = n
<1>1. f \in Seq(S)
  BY SeqDef
<1>2. DOMAIN f = 1..Len(f) /\ Len(f) \in Nat
  BY <1>1, LenProperties
<1> QED BY <1>1, <1>2

LEMMA SlotIs ==
  ASSUME NEW c \in Seq(Slots), NEW i \in DOMAIN c
  PROVE  c[i] \in Slots /\ c[i].key \in Nat /\ c[i].val \in Nat
<1>1. c[i] \in Slots
  BY LenProperties, ElementOfSeq
<1> QED BY <1>1 DEF Slots

\* A pair in a chain.
HasPair(c, k, v) == \E p \in DOMAIN c : c[p].key = k /\ c[p].val = v

\* What a chain of bin b in a table of n bins may hold.
ChainOK(c, b, n) ==
  \A p \in DOMAIN c : c[p].key # 0 =>
    /\ c[p].key \in Keys /\ c[p].val # 0 /\ Hash(c[p].key, n) = b
    /\ \A q \in DOMAIN c : c[q].key = c[p].key => q = p

LEMMA FirstIs ==
  ASSUME NEW c \in Seq(Slots), NEW k, Has(c, k)
  PROVE  First(c, k) \in DOMAIN c /\ c[First(c, k)].key = k
<1> DEFINE S == {i \in DOMAIN c : c[i].key = k}
<1>1. S \in SUBSET Nat /\ S # {}
  BY DEF Has
<1>2. PICK i \in S : \A j \in S : i <= j
  BY <1>1, Smallest
<1>3. i \in DOMAIN c /\ c[i].key = k /\ \A j \in 1..(i - 1) : c[j].key # k
  BY <1>2
<1> QED BY <1>3 DEF First

LEMMA LookupIs ==
  ASSUME NEW tab, NEW k \in Nat \ {0}, NEW b, NEW n,
         Chain(tab, k) \in Seq(Slots), ChainOK(Chain(tab, k), b, n)
  PROVE  /\ \A v : HasPair(Chain(tab, k), k, v) => Lookup(tab, k) = v
         /\ ~Has(Chain(tab, k), k) => Lookup(tab, k) = 0
         /\ Has(Chain(tab, k), k) => Lookup(tab, k) # 0 /\ HasPair(Chain(tab, k), k, Lookup(tab, k))
<1> DEFINE c == Chain(tab, k)
<1>1. ~Has(c, k) => Lookup(tab, k) = 0
  BY DEF Lookup
<1>2. ASSUME Has(c, k)
      PROVE  /\ First(c, k) \in DOMAIN c /\ c[First(c, k)].key = k
             /\ Lookup(tab, k) = c[First(c, k)].val
  BY <1>2, FirstIs DEF Lookup
<1>3. \A v : HasPair(c, k, v) => Lookup(tab, k) = v
  BY <1>2 DEF HasPair, Has, ChainOK
<1>4. Has(c, k) => Lookup(tab, k) # 0 /\ HasPair(c, k, Lookup(tab, k))
  BY <1>2 DEF HasPair, ChainOK
<1> QED BY <1>1, <1>3, <1>4

LEMMA BucketIs == Bucket = [i \in 1..E |-> Slot]
<1>1. [i \in 1..E |-> Slot] \in [1..E -> {Slot}]
  OBVIOUS
<1>2. Bucket \in [1..E -> {Slot}]
  BY <1>1 DEF Bucket
<1> QED BY <1>2

\* A chain with one pair more.
Adds(c, d, k, v) ==
  /\ d \in Seq(Slots) /\ DOMAIN c \subseteq DOMAIN d
  /\ \E p \in DOMAIN d :
       /\ d[p].key = k /\ d[p].val = v
       /\ p \in DOMAIN c => c[p].key = 0
       /\ \A q \in DOMAIN d \ {p} : IF q \in DOMAIN c THEN d[q] = c[q] ELSE d[q].key = 0 /\ d[q].val = 0

LEMMA AddsKeeps ==
  ASSUME NEW c \in Seq(Slots), NEW d, NEW b, NEW n, NEW k \in Keys, NEW v \in Nat \ {0},
         ChainOK(c, b, n), Adds(c, d, k, v), ~Has(c, k), Hash(k, n) = b, k # 0
  PROVE  /\ ChainOK(d, b, n)
         /\ \A j \in Nat \ {0} : \A w : HasPair(d, j, w) <=> HasPair(c, j, w) \/ (j = k /\ w = v)
<1>1. PICK p \in DOMAIN d :
       /\ d[p].key = k /\ d[p].val = v
       /\ p \in DOMAIN c => c[p].key = 0
       /\ \A q \in DOMAIN d \ {p} : IF q \in DOMAIN c THEN d[q] = c[q] ELSE d[q].key = 0 /\ d[q].val = 0
  BY DEF Adds
<1>2. DOMAIN c \subseteq DOMAIN d
  BY DEF Adds
<1>3. ChainOK(d, b, n)
  BY <1>1 DEF ChainOK, Has
<1>4. ASSUME NEW j \in Nat \ {0}, NEW w, HasPair(c, j, w)
      PROVE  HasPair(d, j, w)
  BY <1>1, <1>2, <1>4 DEF HasPair
<1>5. ASSUME NEW j \in Nat \ {0}, NEW w, HasPair(d, j, w)
      PROVE  HasPair(c, j, w) \/ (j = k /\ w = v)
  BY <1>1, <1>5 DEF HasPair
<1>6. HasPair(d, k, v)
  BY <1>1 DEF HasPair
<1> QED BY <1>3, <1>4, <1>5, <1>6

\* The new bucket of a put.
LEMMA WithBucketIs ==
  ASSUME NEW c \in Seq(Slots), NEW k \in Nat, NEW v \in Nat, E \in Nat \ {0}
  PROVE  Adds(c, WithBucket(c, k, v), k, v) /\ Len(WithBucket(c, k, v)) = Len(c) + E
<1> DEFINE s == [Bucket EXCEPT ![1] = [key |-> k, val |-> v]]
           d == c \o s
<1>1. s \in [1..E -> Slots] /\ s[1] = [key |-> k, val |-> v] /\ \A i \in 2..E : s[i].key = 0 /\ s[i].val = 0
  BY BucketIs DEF Slot, Slots
<1> HIDE DEF s
<1>2. s \in Seq(Slots) /\ Len(s) = E
  BY <1>1, FcnIsSeq
<1>3. /\ d \in Seq(Slots) /\ Len(d) = Len(c) + E
      /\ \A i \in 1..Len(d) : d[i] = IF i <= Len(c) THEN c[i] ELSE s[i - Len(c)]
  BY <1>2, ConcatProperties
<1>4. DOMAIN d = 1..(Len(c) + E) /\ DOMAIN c = 1..Len(c) /\ Len(c) \in Nat
  BY <1>3, LenProperties
<1>5. d[Len(c) + 1] = [key |-> k, val |-> v]
  BY <1>1, <1>3, <1>4
<1>6. \A q \in DOMAIN d : q # Len(c) + 1 =>
        IF q \in DOMAIN c THEN d[q] = c[q] ELSE d[q].key = 0 /\ d[q].val = 0
  BY <1>1, <1>3, <1>4
<1>7. Adds(c, d, k, v)
  <2>1. Len(c) + 1 \in DOMAIN d /\ Len(c) + 1 \notin DOMAIN c /\ DOMAIN c \subseteq DOMAIN d
    BY <1>4
  <2> DEFINE p == Len(c) + 1
  <2>2. p \in DOMAIN d /\ p \notin DOMAIN c /\ d[p].key = k /\ d[p].val = v
    BY <2>1, <1>5
  <2>3. \A q \in DOMAIN d \ {p} : IF q \in DOMAIN c THEN d[q] = c[q] ELSE d[q].key = 0 /\ d[q].val = 0
    BY <1>6
  <2>4. d \in Seq(Slots)
    BY <1>3
  <2> HIDE DEF d, p
  <2> QED BY <2>1, <2>2, <2>3, <2>4 DEF Adds
<1> QED BY <1>3, <1>7 DEF WithBucket, s

\* A slot that is empty becomes the pair's.
LEMMA FillIs ==
  ASSUME NEW c \in Seq(Slots), NEW p \in DOMAIN c, c[p].key = 0, NEW k \in Nat, NEW v \in Nat
  PROVE  /\ Adds(c, [c EXCEPT ![p] = [key |-> k, val |-> v]], k, v)
         /\ Len([c EXCEPT ![p] = [key |-> k, val |-> v]]) = Len(c)
<1> DEFINE d == [c EXCEPT ![p] = [key |-> k, val |-> v]]
<1>1. [key |-> k, val |-> v] \in Slots /\ p \in 1..Len(c)
  BY DEF Slots
<1>2. /\ d \in Seq(Slots) /\ Len(d) = Len(c)
      /\ \A j \in 1..Len(c) : d[j] = IF j = p THEN [key |-> k, val |-> v] ELSE c[j]
  BY <1>1, ExceptSeq
<1>3. DOMAIN d = DOMAIN c /\ DOMAIN c = 1..Len(c)
  BY <1>2, LenProperties
<1> HIDE DEF d
<1>4. Adds(c, d, k, v)
  BY <1>2, <1>3 DEF Adds
<1> QED BY <1>2, <1>4 DEF d

-----------------------------------------------------------------------------
(* Tables. *)

TablesOf(n) ==
  [n : {n}, chain : [0..(n - 1) -> Seq(Slots)], lock : [0..(n - 1) -> {"free", "update", "resize"}],
   new : Nat, expands : Nat]

Holds(tab, k, v) == HasPair(Chain(tab, k), k, v)

WholeBuckets(tab) ==
  \A b \in 0..(tab.n - 1) : \E q \in 1..(tab.expands + 1) : Len(tab.chain[b]) = q * E

TabOK(tab) == WholeBuckets(tab) /\ \A b \in 0..(tab.n - 1) : ChainOK(tab.chain[b], b, tab.n)

LEMMA HashIs ==
  ASSUME NEW n \in Nat \ {0}, NEW k \in Nat
  PROVE  Hash(k, n) \in 0..(n - 1)
  BY DEF Hash

\* The only change to a table is a pair more.
LEMMA PutSeqIs ==
  ASSUME E \in Nat \ {0}, NEW n \in Nat \ {0}, NEW tab \in TablesOf(n), TabOK(tab),
         NEW k \in Keys, k \in Nat \ {0}, NEW v \in Nat \ {0}, ~Has(Chain(tab, k), k)
  PROVE  LET new == PutSeq(tab, k, v) IN
         /\ new \in TablesOf(n) /\ TabOK(new) /\ new.lock = tab.lock /\ new.new = tab.new
         /\ \A j \in Nat \ {0} : \A w : Holds(new, j, w) <=> Holds(tab, j, w) \/ (j = k /\ w = v)
<1> DEFINE b == Hash(k, tab.n)
           c == tab.chain[b]
           new == PutSeq(tab, k, v)
<1>1. tab.n = n /\ b \in 0..(n - 1) /\ c \in Seq(Slots) /\ c = Chain(tab, k)
  BY HashIs DEF TablesOf, Chain
<1>2. PICK q \in 1..(tab.expands + 1) : Len(c) = q * E
  BY <1>1 DEF TabOK, WholeBuckets
<1>3. PICK d, x :
        /\ Adds(c, d, k, v) /\ x \in Nat /\ x >= tab.expands
        /\ \E r \in 1..(x + 1) : Len(d) = r * E
        /\ new = [tab EXCEPT !.chain[b] = d, !.expands = x]
  <2>1. CASE Has(c, 0)
    <3> DEFINE d == [c EXCEPT ![First(c, 0)] = [key |-> k, val |-> v]]
    <3>1. First(c, 0) \in DOMAIN c /\ c[First(c, 0)].key = 0
      BY <1>1, <2>1, FirstIs
    <3>2. Adds(c, d, k, v) /\ Len(d) = Len(c)
      BY <1>1, <3>1, FillIs
    <3>3. new = [tab EXCEPT !.chain[b] = d, !.expands = tab.expands]
      BY <2>1, <1>1 DEF PutSeq, TablesOf
    <3>4. tab.expands \in Nat
      BY DEF TablesOf
    <3>5. tab.expands >= tab.expands /\ \E r \in 1..(tab.expands + 1) : Len(d) = r * E
      BY <3>2, <3>4, <1>2
    <3> HIDE DEF d, new, b, c
    <3> QED BY <3>2, <3>3, <3>4, <3>5
  <2>2. CASE ~Has(c, 0)
    <3> DEFINE d == WithBucket(c, k, v)
    <3>1. Adds(c, d, k, v) /\ Len(d) = Len(c) + E
      BY <1>1, WithBucketIs
    <3>2. new = [tab EXCEPT !.chain[b] = d, !.expands = tab.expands + 1]
      BY <2>2 DEF PutSeq
    <3>3. tab.expands \in Nat
      BY DEF TablesOf
    <3>4. q + 1 \in 1..(tab.expands + 1 + 1) /\ Len(d) = (q + 1) * E
      BY <3>1, <3>3, <1>2
    <3>5. tab.expands + 1 \in Nat /\ tab.expands + 1 >= tab.expands
      BY <3>3
    <3> HIDE DEF d, new, b, c
    <3> QED BY <3>1, <3>2, <3>4, <3>5
  <2> QED BY <2>1, <2>2
<1>4. /\ ChainOK(d, b, n) /\ d \in Seq(Slots)
      /\ \A j \in Nat \ {0} : \A w : HasPair(d, j, w) <=> HasPair(c, j, w) \/ (j = k /\ w = v)
  <2>1. ChainOK(c, b, n)
    BY <1>1 DEF TabOK
  <2>2. ~Has(c, k) /\ Hash(k, n) = b /\ c \in Seq(Slots)
    BY <1>1
  <2>3. Adds(c, d, k, v)
    BY <1>3
  <2>4. d \in Seq(Slots)
    BY <2>3 DEF Adds
  <2> HIDE DEF b, c, new
  <2> QED BY <2>1, <2>2, <2>3, <2>4, AddsKeeps
<1> HIDE DEF new, b, c
<1>5. new \in TablesOf(n) /\ new.lock = tab.lock /\ new.new = tab.new
  BY <1>1, <1>3, <1>4 DEF TablesOf
<1>6. /\ new.n = n /\ new.expands = x /\ new.chain[b] = d
      /\ \A a \in 0..(n - 1) : a # b => new.chain[a] = tab.chain[a]
  BY <1>1, <1>3 DEF TablesOf
<1>7. TabOK(new)
  <2>1. tab.expands \in Nat
    BY DEF TablesOf
  <2>2. WholeBuckets(new)
    <3>1. ASSUME NEW a \in 0..(n - 1), a # b
          PROVE  \E r \in 1..(x + 1) : Len(tab.chain[a]) = r * E
      <4>1. PICK r \in 1..(tab.expands + 1) : Len(tab.chain[a]) = r * E
        BY <1>1 DEF TabOK, WholeBuckets
      <4>2. r \in 1..(x + 1)
        BY <2>1, <1>3
      <4> QED BY <4>1, <4>2
    <3> QED BY <3>1, <1>3, <1>6 DEF WholeBuckets
  <2> QED BY <2>2, <1>1, <1>4, <1>6 DEF TabOK
<1>8. ASSUME NEW j \in Nat \ {0}, NEW w
      PROVE  Holds(new, j, w) <=> Holds(tab, j, w) \/ (j = k /\ w = v)
  <2>1. Hash(j, n) \in 0..(n - 1)
    BY HashIs
  <2>2. CASE Hash(j, n) = b
    BY <2>2, <1>1, <1>4, <1>6 DEF Holds, Chain, c
  <2>3. CASE Hash(j, n) # b
    <3>1. j # k
      BY <2>3, <1>1 DEF b
    <3> QED BY <3>1, <2>1, <2>3, <1>1, <1>6 DEF Holds, Chain
  <2> QED BY <2>2, <2>3
<1> QED BY <1>5, <1>7, <1>8 DEF new

\* Induction over the slots that PutAll puts.
LEMMA PutAllInduction ==
  ASSUME NEW tab, NEW c, Len(c) \in Nat, NEW P, tab \in P[0],
         \A i \in 1..Len(c) : \A x \in P[i - 1] : PutSlot(x, c[i]) \in P[i]
  PROVE  PutAll(tab, c) \in P[Len(c)]
<1> DEFINE L == Len(c)
           Body(f, i) == IF i = 0 THEN tab ELSE PutSlot(f[i - 1], c[i])
           Short(m) == \E g : DOMAIN g = 0..m /\ \A i \in 0..m : g[i] = Body(g, i)
           Bad == {m \in 0..L : ~Short(m)}
<1>1. Bad = {}
  <2>1. SUFFICES ASSUME Bad # {} PROVE FALSE
    OBVIOUS
  <2>2. PICK m \in Bad : \A y \in Bad : m <= y
    <3>1. Bad \in SUBSET Nat
      OBVIOUS
    <3> HIDE DEF Bad
    <3> QED BY <2>1, <3>1, Smallest
  <2>3. m # 0
    <3>1. [i \in 0..0 |-> tab][0] = tab
      OBVIOUS
    <3>2. Short(0)
      <4> DEFINE g == [i \in 0..0 |-> tab]
      <4>1. DOMAIN g = 0..0 /\ \A i \in 0..0 : g[i] = Body(g, i)
        OBVIOUS
      <4> QED BY <4>1
    <3> QED BY <3>2
  <2>4. Short(m - 1)
    BY <2>2, <2>3
  <2>5. PICK g : DOMAIN g = 0..(m - 1) /\ \A i \in 0..(m - 1) : g[i] = Body(g, i)
    BY <2>4
  <2> DEFINE h == [i \in 0..m |-> IF i = m THEN PutSlot(g[m - 1], c[m]) ELSE g[i]]
  <2>6. DOMAIN h = 0..m /\ \A i \in 0..m : h[i] = Body(h, i)
    <3>1. \A i \in 0..(m - 1) : h[i] = g[i]
      BY <2>2
    <3>2. ASSUME NEW i \in 0..m
          PROVE  h[i] = Body(h, i)
      <4>1. CASE i = m
        BY <4>1, <3>1, <2>2, <2>3
      <4>2. CASE i < m
        <5>1. i = 0 \/ i - 1 \in 0..(m - 1)
          BY <4>2
        <5> QED BY <5>1, <4>2, <3>1, <2>5, <2>2
      <4> QED BY <4>1, <4>2, <2>2
    <3> QED BY <3>2
  <2>7. Short(m)
    BY <2>6
  <2> QED BY <2>2, <2>7
<1>2. PICK g : DOMAIN g = 0..L /\ \A i \in 0..L : g[i] = Body(g, i)
  <2>1. Short(L)
    BY <1>1
  <2> QED BY <2>1
<1> DEFINE G == [i \in 0..L |-> g[i]]
           after == CHOOSE f : f = [i \in 0..Len(c) |-> IF i = 0 THEN tab ELSE PutSlot(f[i - 1], c[i])]
<1>3. G = [i \in 0..L |-> IF i = 0 THEN tab ELSE PutSlot(G[i - 1], c[i])]
  BY <1>2
<1>4. after = [i \in 0..Len(c) |-> IF i = 0 THEN tab ELSE PutSlot(after[i - 1], c[i])]
  BY <1>3
<1>5. PutAll(tab, c) = after[Len(c)]
  BY DEF PutAll
<1> DEFINE Worse == {m \in 0..L : after[m] \notin P[m]}
<1>6. Worse = {}
  <2>1. SUFFICES ASSUME Worse # {} PROVE FALSE
    OBVIOUS
  <2> HIDE DEF after
  <2>2. PICK m \in Worse : \A y \in Worse : m <= y
    <3>1. Worse \in SUBSET Nat
      OBVIOUS
    <3> HIDE DEF Worse
    <3> QED BY <2>1, <3>1, Smallest
  <2>3. m # 0
    BY <1>4
  <2>4. after[m - 1] \in P[m - 1]
    BY <2>2, <2>3
  <2>5. after[m] = PutSlot(after[m - 1], c[m])
    BY <1>4, <2>3, <2>2
  <2> QED BY <2>2, <2>3, <2>4, <2>5
<1> QED BY <1>5, <1>6

\* What PutAll adds to a table: the pairs of the slots, if no key is there yet
\* and none comes twice.
LEMMA PutAllIs ==
  ASSUME E \in Nat \ {0}, Keys \subseteq Nat \ {0},
         NEW n \in Nat \ {0}, NEW tab \in TablesOf(n), TabOK(tab), NEW c \in Seq(Slots),
         \A i \in DOMAIN c : c[i].key # 0 =>
           /\ c[i].key \in Keys /\ c[i].val # 0 /\ ~Has(Chain(tab, c[i].key), c[i].key)
           /\ \A j \in DOMAIN c : c[j].key = c[i].key => j = i
  PROVE  LET new == PutAll(tab, c) IN
         /\ new \in TablesOf(n) /\ TabOK(new) /\ new.lock = tab.lock /\ new.new = tab.new
         /\ \A k \in Nat \ {0} : \A v : Holds(new, k, v) <=> Holds(tab, k, v) \/ HasPair(c, k, v)
<1> DEFINE
  Upto(i, k, v) == \E j \in 1..i : c[j].key = k /\ c[j].val = v
  Inv(x, i) == /\ TabOK(x) /\ x.lock = tab.lock /\ x.new = tab.new
               /\ \A k \in Nat \ {0} : \A v : Holds(x, k, v) <=> Holds(tab, k, v) \/ Upto(i, k, v)
  P == [i \in 0..Len(c) |-> {x \in TablesOf(n) : Inv(x, i)}]
<1>1. Len(c) \in Nat /\ DOMAIN c = 1..Len(c)
  BY LenProperties
<1>2. tab \in P[0]
  <2>1. \A k, v : ~Upto(0, k, v)
    OBVIOUS
  <2>2. Inv(tab, 0)
    BY <2>1
  <2> QED BY <1>1, <2>2
<1>3. ASSUME NEW i \in 1..Len(c), NEW x \in P[i - 1]
      PROVE  PutSlot(x, c[i]) \in P[i]
  <2>1. i - 1 \in 0..Len(c) /\ i \in 0..Len(c) /\ i \in DOMAIN c /\ i \in Nat
    BY <1>1
  <2>2. x \in TablesOf(n) /\ Inv(x, i - 1)
    BY <2>1
  <2>3. SUFFICES PutSlot(x, c[i]) \in TablesOf(n) /\ Inv(PutSlot(x, c[i]), i)
    BY <2>1
  <2>4. c[i] \in Slots /\ c[i].key \in Nat /\ c[i].val \in Nat
    BY <2>1, SlotIs
  <2>5. \A k, v : Upto(i, k, v) <=> Upto(i - 1, k, v) \/ (c[i].key = k /\ c[i].val = v)
    <3>1. 1..i = 1..(i - 1) \cup {i}
      BY <2>1
    <3> QED BY <3>1
  <2> HIDE DEF P, Upto
  <2>6. CASE c[i].key = 0
    BY <2>2, <2>5, <2>6 DEF PutSlot
  <2>7. CASE c[i].key # 0
    <3> DEFINE k == c[i].key
               v == c[i].val
    <3>1. k \in Keys /\ k \in Nat \ {0} /\ v \in Nat \ {0} /\ ~Has(Chain(tab, k), k)
      BY <2>1, <2>4, <2>7
    <3>2. \A w : ~Upto(i - 1, k, w)
      BY <2>1, <2>7, <1>1 DEF Upto
    <3>3. \A w : ~Holds(tab, k, w)
      BY <3>1 DEF Holds, HasPair, Has
    <3>4. \A w : ~Holds(x, k, w)
      BY <3>1, <3>2, <3>3, <2>2
    <3>5. ~Has(Chain(x, k), k)
      BY <3>4 DEF Holds, HasPair, Has
    <3> HIDE DEF k, v
    <3> DEFINE y == PutSeq(x, k, v)
    <3>6. /\ y \in TablesOf(n) /\ TabOK(y) /\ y.lock = x.lock /\ y.new = x.new
          /\ \A j \in Nat \ {0} : \A w : Holds(y, j, w) <=> Holds(x, j, w) \/ (j = k /\ w = v)
      BY <3>1, <3>5, <2>2, PutSeqIs
    <3>7. PutSlot(x, c[i]) = y
      BY <2>7 DEF PutSlot, k, v
    <3> HIDE DEF y
    <3>8. \A j \in Nat \ {0} : \A w : Holds(y, j, w) <=> Holds(tab, j, w) \/ Upto(i, j, w)
      BY <3>6, <2>2, <2>5 DEF k, v
    <3> QED BY <3>6, <3>7, <3>8, <2>2
  <2> QED BY <2>6, <2>7
<1>4. PutAll(tab, c) \in P[Len(c)]
  <2> HIDE DEF P
  <2> QED BY <1>1, <1>2, <1>3, PutAllInduction
<1>5. PutAll(tab, c) \in TablesOf(n) /\ Inv(PutAll(tab, c), Len(c))
  BY <1>1, <1>4
<1>6. \A k, v : Upto(Len(c), k, v) <=> HasPair(c, k, v)
  BY <1>1 DEF HasPair
<1> QED BY <1>5, <1>6

\* A new table is empty.
LEMMA NewTableIs ==
  ASSUME E \in Nat \ {0}, NEW n \in Nat \ {0}
  PROVE  LET new == NewTable(n) IN
         /\ new \in TablesOf(n) /\ TabOK(new) /\ new.new = 0
         /\ \A b \in 0..(n - 1) : new.lock[b] = "free"
         /\ \A k \in Nat \ {0} : \A v : ~Holds(new, k, v)
         /\ \A k \in Nat \ {0} : ~Has(Chain(new, k), k)
<1> DEFINE new == NewTable(n)
<1>1. Bucket \in Seq(Slots) /\ Len(Bucket) = E /\ DOMAIN Bucket = 1..E
      /\ \A i \in 1..E : Bucket[i].key = 0
  <2>1. Bucket \in [1..E -> Slots]
    BY BucketIs DEF Slot, Slots
  <2>2. \A i \in 1..E : Bucket[i].key = 0
    BY BucketIs DEF Slot
  <2> QED BY <2>1, <2>2, FcnIsSeq
<1>2. new \in TablesOf(n) /\ new.new = 0 /\ new.n = n /\ new.expands = 0
      /\ \A b \in 0..(n - 1) : new.chain[b] = Bucket /\ new.lock[b] = "free"
  BY <1>1 DEF NewTable, TablesOf
<1> HIDE DEF new
<1>3. TabOK(new)
  <2>1. WholeBuckets(new)
    <3>1. 1 \in 1..(0 + 1) /\ Len(Bucket) = 1 * E
      BY <1>1
    <3> QED BY <3>1, <1>2 DEF WholeBuckets
  <2>2. \A b \in 0..(n - 1) : ChainOK(Bucket, b, n)
    BY <1>1 DEF ChainOK
  <2> QED BY <2>1, <2>2, <1>2 DEF TabOK
<1>4. ASSUME NEW k \in Nat \ {0}
      PROVE  ~Has(Chain(new, k), k) /\ \A v : ~Holds(new, k, v)
  <2>1. Chain(new, k) = Bucket
    BY <1>2, HashIs DEF Chain
  <2> QED BY <2>1, <1>1 DEF Holds, HasPair, Has
<1> QED BY <1>2, <1>3, <1>4 DEF new

\* What bucket_cpy adds to the new table: the pairs of the chain, but not
\* those of the buckets it drops.
LEMMA CopyChainIs ==
  ASSUME E \in Nat \ {0}, Keys \subseteq Nat \ {0},
         NEW n \in Nat \ {0}, NEW tab \in TablesOf(n), TabOK(tab),
         NEW c \in Seq(Slots), NEW b, NEW m, ChainOK(c, b, m),
         \A k \in Nat \ {0} : Has(c, k) => ~Has(Chain(tab, k), k),
         NEW drop
  PROVE  LET new == CopyChain(tab, c, drop) IN
         /\ new \in TablesOf(n) /\ TabOK(new) /\ new.lock = tab.lock /\ new.new = tab.new
         /\ \A k \in Nat \ {0} : \A v : Holds(tab, k, v) => Holds(new, k, v)
         /\ \A k \in Nat \ {0} : \A v : Holds(new, k, v) => Holds(tab, k, v) \/ HasPair(c, k, v)
         /\ drop = {} => \A k \in Nat \ {0} : \A v : HasPair(c, k, v) => Holds(new, k, v)
<1> DEFINE d == [i \in DOMAIN c |-> IF BucketOf(i) \in drop THEN Slot ELSE c[i]]
<1>1. d \in Seq(Slots) /\ DOMAIN d = DOMAIN c
  <2>1. Len(c) \in Nat /\ DOMAIN c = 1..Len(c) /\ c \in [1..Len(c) -> Slots]
    BY LenProperties
  <2>2. Slot \in Slots
    BY DEF Slot, Slots
  <2>3. d \in [1..Len(c) -> Slots]
    BY <2>1, <2>2
  <2> HIDE DEF d
  <2> QED BY <2>1, <2>3, FcnIsSeq
<1>2. \A i \in DOMAIN d : d[i].key # 0 => d[i] = c[i]
  BY DEF Slot
<1>3. drop = {} => \A i \in DOMAIN d : d[i] = c[i]
  OBVIOUS
<1>4. \A i \in DOMAIN d : c[i].key \in Nat
  BY <1>1, SlotIs
<1>5. CopyChain(tab, c, drop) = PutAll(tab, d)
  BY DEF CopyChain
<1> HIDE DEF d
<1>6. \A i \in DOMAIN d : d[i].key # 0 =>
        /\ d[i].key \in Keys /\ d[i].val # 0 /\ ~Has(Chain(tab, d[i].key), d[i].key)
        /\ \A j \in DOMAIN d : d[j].key = d[i].key => j = i
  <2>1. SUFFICES ASSUME NEW i \in DOMAIN d, d[i].key # 0
                 PROVE  /\ d[i].key \in Keys /\ d[i].val # 0 /\ ~Has(Chain(tab, d[i].key), d[i].key)
                        /\ \A j \in DOMAIN d : d[j].key = d[i].key => j = i
    OBVIOUS
  <2>2. d[i] = c[i] /\ c[i].key \in Nat \ {0} /\ Has(c, c[i].key)
    BY <2>1, <1>1, <1>2, <1>4 DEF Has
  <2>3. \A j \in DOMAIN d : d[j].key = d[i].key => j = i
    BY <2>1, <2>2, <1>1, <1>2 DEF ChainOK
  <2> QED BY <2>1, <2>2, <2>3, <1>1 DEF ChainOK
<1>7. \A k \in Nat \ {0} : \A v : HasPair(d, k, v) => HasPair(c, k, v)
  BY <1>1, <1>2 DEF HasPair
<1>8. drop = {} => \A k \in Nat \ {0} : \A v : HasPair(c, k, v) => HasPair(d, k, v)
  BY <1>1, <1>3 DEF HasPair
<1> DEFINE new == PutAll(tab, d)
<1>9. /\ new \in TablesOf(n) /\ TabOK(new) /\ new.lock = tab.lock /\ new.new = tab.new
      /\ \A k \in Nat \ {0} : \A v : Holds(new, k, v) <=> Holds(tab, k, v) \/ HasPair(d, k, v)
  BY <1>1, <1>6, PutAllIs
<1> HIDE DEF new
<1>10. CopyChain(tab, c, drop) = new
  BY <1>5 DEF new
<1> QED BY <1>7, <1>8, <1>9, <1>10

-----------------------------------------------------------------------------
(* Sizes of tables. *)

\* Closed under what a resize does to the number of bins.
Closed(bd, S) ==
  /\ bd.InitBuckets \in S
  /\ \A n \in S : 2 * n \in S /\ (n >= bd.RatioHalve => n \div bd.RatioHalve \in S)

Sizes(bd) == {n \in Nat : \A S \in SUBSET Nat : Closed(bd, S) => n \in S}

\* A table that ht_status shrinks has a bin left afterwards.
SmallIsNotSparse ==
  \A bd \in Builds : \A n \in Sizes(bd) :
    n < bd.RatioHalve => bd.PercFullHalve * n * bd.EntriesPerBucket <= 100

LEMMA SizesIs ==
  ASSUME NEW bd \in Builds
  PROVE  /\ Sizes(bd) \in SUBSET (Nat \ {0}) /\ bd.InitBuckets \in Sizes(bd)
         /\ \A n \in Sizes(bd) : 2 * n \in Sizes(bd)
         /\ \A n \in Sizes(bd) : n >= bd.RatioHalve => n \div bd.RatioHalve \in Sizes(bd)
<1>1. bd.InitBuckets \in Nat \ {0} /\ bd.RatioHalve \in Nat \ {0}
  BY ClhtAssumption
<1>2. Closed(bd, Nat \ {0})
  <2>1. \A n \in Nat \ {0} : n >= bd.RatioHalve => n \div bd.RatioHalve \in Nat \ {0}
    BY <1>1
  <2> QED BY <1>1, <2>1 DEF Closed
<1>3. Sizes(bd) \in SUBSET (Nat \ {0})
  BY <1>2 DEF Sizes
<1>4. bd.InitBuckets \in Sizes(bd)
  BY <1>1 DEF Sizes, Closed
<1>5. ASSUME NEW n \in Sizes(bd)
      PROVE  /\ 2 * n \in Sizes(bd)
             /\ n >= bd.RatioHalve => n \div bd.RatioHalve \in Sizes(bd)
  <2>1. n \in Nat /\ 2 * n \in Nat /\ n \div bd.RatioHalve \in Nat
    BY <1>1, <1>3
  <2>2. ASSUME NEW S \in SUBSET Nat, Closed(bd, S)
        PROVE  2 * n \in S /\ (n >= bd.RatioHalve => n \div bd.RatioHalve \in S)
    <3>1. n \in S
      BY <2>2 DEF Sizes
    <3> QED BY <2>2, <3>1 DEF Closed
  <2> QED BY <2>1, <2>2 DEF Sizes
<1> QED BY <1>3, <1>4, <1>5

\* pow2roundup multiplies by two, some number of times.
LEMMA Pow2Is ==
  ASSUME NEW x \in Nat, NEW S \in SUBSET Nat, \A n \in S : 2 * n \in S
  PROVE  pow2roundup(x) \in Nat \ {0} /\ \A n \in S : pow2roundup(x) * n \in S
<1> DEFINE Body(f, y) == IF y <= 1 THEN 1 ELSE 2 * f[(y + 1) \div 2]
           Short(m) == \E g : DOMAIN g = 0..m /\ \A y \in 0..m : g[y] = Body(g, y)
           Bad == {m \in 0..x : ~Short(m)}
<1>1. Bad = {}
  <2>1. SUFFICES ASSUME Bad # {} PROVE FALSE
    OBVIOUS
  <2>2. PICK m \in Bad : \A y \in Bad : m <= y
    <3>1. Bad \in SUBSET Nat
      OBVIOUS
    <3> HIDE DEF Bad
    <3> QED BY <2>1, <3>1, Smallest
  <2>3. m # 0
    <3>1. Short(0)
      <4> DEFINE g == [i \in 0..0 |-> 1]
      <4>1. DOMAIN g = 0..0 /\ \A y \in 0..0 : g[y] = Body(g, y)
        OBVIOUS
      <4> QED BY <4>1
    <3> QED BY <3>1
  <2>4. Short(m - 1)
    BY <2>2, <2>3
  <2>5. PICK g : DOMAIN g = 0..(m - 1) /\ \A y \in 0..(m - 1) : g[y] = Body(g, y)
    BY <2>4
  <2> DEFINE h == [y \in 0..m |-> IF y = m THEN Body(g, m) ELSE g[y]]
  <2>6. DOMAIN h = 0..m /\ \A y \in 0..m : h[y] = Body(h, y)
    <3>1. \A y \in 0..(m - 1) : h[y] = g[y]
      BY <2>2
    <3>2. \A y \in 0..m : y > 1 => (y + 1) \div 2 \in 0..(m - 1) /\ (y + 1) \div 2 < y
      BY <2>2
    <3>3. ASSUME NEW y \in 0..m
          PROVE  h[y] = Body(h, y)
      <4>1. y = m \/ y \in 0..(m - 1)
        BY <2>2
      <4>2. h[y] = Body(g, y)
        BY <4>1, <3>1, <2>5, <2>2
      <4>3. y > 1 => h[(y + 1) \div 2] = g[(y + 1) \div 2]
        BY <3>1, <3>2
      <4> HIDE DEF h
      <4> QED BY <4>2, <4>3
    <3> QED BY <3>3
  <2>7. Short(m)
    BY <2>6
  <2> QED BY <2>2, <2>7
<1>2. PICK g : DOMAIN g = 0..x /\ \A y \in 0..x : g[y] = Body(g, y)
  <2>1. Short(x)
    BY <1>1
  <2> QED BY <2>1
<1> DEFINE G == [y \in 0..x |-> g[y]]
           up == CHOOSE f : f = [y \in 0..x |-> IF y <= 1 THEN 1 ELSE 2 * f[(y + 1) \div 2]]
<1>3. G = [y \in 0..x |-> IF y <= 1 THEN 1 ELSE 2 * G[(y + 1) \div 2]]
  <2>1. \A y \in 0..x : y > 1 => (y + 1) \div 2 \in 0..x
    OBVIOUS
  <2>2. \A y \in 0..x : g[y] = IF y <= 1 THEN 1 ELSE 2 * G[(y + 1) \div 2]
    BY <1>2, <2>1
  <2> QED BY <2>2
<1>4. up = [y \in 0..x |-> IF y <= 1 THEN 1 ELSE 2 * up[(y + 1) \div 2]]
  <2> HIDE DEF G
  <2> QED BY <1>3
<1>5. pow2roundup(x) = up[x]
  BY DEF pow2roundup
<1> HIDE DEF up
<1> DEFINE Good(y) == up[y] \in Nat \ {0} /\ \A n \in S : up[y] * n \in S
           Worse == {y \in 0..x : ~Good(y)}
<1>6. Worse = {}
  <2>1. SUFFICES ASSUME Worse # {} PROVE FALSE
    OBVIOUS
  <2>2. PICK y \in Worse : \A z \in Worse : y <= z
    <3>1. Worse \in SUBSET Nat
      OBVIOUS
    <3> HIDE DEF Worse
    <3> QED BY <2>1, <3>1, Smallest
  <2>3. CASE y <= 1
    <3>1. up[y] = 1
      BY <2>2, <2>3, <1>4
    <3> QED BY <2>2, <3>1
  <2>4. CASE y > 1
    <3> DEFINE z == (y + 1) \div 2
    <3>1. z \in 0..x /\ z < y
      BY <2>2, <2>4
    <3>2. Good(z)
      BY <3>1, <2>2
    <3>3. up[y] = 2 * up[z]
      BY <2>2, <2>4, <1>4
    <3> HIDE DEF z
    <3>4. \A n \in S : up[y] * n = up[z] * (2 * n)
      BY <3>2, <3>3
    <3>5. Good(y)
      BY <3>2, <3>3, <3>4
    <3> QED BY <3>5, <2>2
  <2> QED BY <2>2, <2>3, <2>4
<1> QED BY <1>5, <1>6

LEMMA SizeIs ==
  ASSUME E \in Nat \ {0}, NEW n \in Nat \ {0}, NEW tab \in TablesOf(n)
  PROVE  Size(tab) \in Nat
<1>1. tab.n = n /\ tab.expands \in Nat
  BY DEF TablesOf
<1>2. Longest(tab) \in Nat
  BY <1>1 DEF Longest
<1>3. IsFiniteSet(0..(tab.n - 1)) /\ IsFiniteSet(1..Longest(tab))
  BY <1>1, <1>2, FS_Interval
<1>4. IsFiniteSet((0..(tab.n - 1)) \X (1..Longest(tab)))
  BY <1>3, FS_Product
<1> DEFINE S == {p \in (0..(tab.n - 1)) \X (1..Longest(tab)) :
                   p[2] \in DOMAIN tab.chain[p[1]] /\ tab.chain[p[1]][p[2]].key # 0}
<1>5. IsFiniteSet(S)
  <2>1. S \in SUBSET ((0..(tab.n - 1)) \X (1..Longest(tab)))
    OBVIOUS
  <2> HIDE DEF S
  <2> QED BY <1>4, <2>1, FS_Subset
<1>6. Cardinality(S) \in Nat
  <2> HIDE DEF S
  <2> QED BY <1>5, FS_CardinalityType
<1> QED BY <1>6 DEF Size

\* A sparse table is large enough to be divided.
LEMMA SparseIsLarge ==
  ASSUME SmallIsNotSparse, build \in Builds, NEW n \in Sizes(build), NEW tab \in TablesOf(n), Sparse(tab)
  PROVE  n \div RatioHalve \in Sizes(build)
<1>1. E \in Nat \ {0} /\ RatioHalve \in Nat \ {0} /\ PercFullHalve \in Nat /\ n \in Nat \ {0}
  BY ClhtAssumption, SizesIs DEF E, EntriesPerBucket, RatioHalve, PercFullHalve
<1>2. Size(tab) \in Nat /\ tab.n = n
  BY <1>1, SizeIs DEF TablesOf
<1>3. PercFullHalve * n * E \in Int
  BY <1>1
<1>4. PercFullHalve * n * E > 100
  BY <1>2, <1>3 DEF Sparse
<1>5. ~(n < RatioHalve)
  BY <1>3, <1>4 DEF SmallIsNotSparse, RatioHalve, PercFullHalve, E, EntriesPerBucket
<1> QED BY <1>1, <1>5, SizesIs DEF RatioHalve

LEMMA GrowByIs ==
  ASSUME build \in Builds, NEW n \in Sizes(build), NEW tab \in TablesOf(n)
  PROVE  GrowBy(tab) \in Nat \ {0} /\ GrowBy(tab) * n \in Sizes(build)
<1>1. E \in Nat \ {0} /\ OccupAfterRes \in Nat \ {0} /\ n \in Nat \ {0}
  BY ClhtAssumption, SizesIs DEF E, EntriesPerBucket, OccupAfterRes
<1>2. Size(tab) \in Nat /\ tab.n = n
  BY <1>1, SizeIs DEF TablesOf
<1> DEFINE d == n * E * OccupAfterRes
           x == (100 * Size(tab)) \div d
<1>3. d \in Nat \ {0}
  <2>1. n * E \in Nat \ {0}
    BY <1>1
  <2> DEFINE m == n * E
  <2> HIDE DEF m
  <2>2. m * OccupAfterRes \in Nat \ {0}
    BY <1>1, <2>1 DEF m
  <2> QED BY <2>2 DEF m
<1>4. x \in Nat
  <2> HIDE DEF d
  <2> QED BY <1>2, <1>3
<1>5. pow2roundup(x) \in Nat \ {0} /\ pow2roundup(x) * n \in Sizes(build) /\ 2 * n \in Sizes(build)
  <2> HIDE DEF x
  <2>1. Sizes(build) \in SUBSET Nat /\ \A i \in Sizes(build) : 2 * i \in Sizes(build)
    BY SizesIs
  <2> QED BY <1>4, <2>1, Pow2Is
<1>6. GrowBy(tab) = IF pow2roundup(x) = 1 THEN 2 ELSE pow2roundup(x)
  BY <1>2 DEF GrowBy
<1> HIDE DEF x
<1> QED BY <1>5, <1>6

-----------------------------------------------------------------------------
(* The inductive invariant. *)

ThreadSet ==
  [pc : Pcs, op : {"none", "get", "put", "update", "remove"}, k : Keys \cup {0}, v : Nat,
   tbl : Nat, bin : Nat, pos : Nat, val : Nat, res : Nat, eff : BOOLEAN, again : BOOLEAN,
   by : Nat, new : Nat]
TabSet == UNION {TablesOf(n) : n \in Nat \ {0}}

Types ==
  /\ build \in Builds /\ tables \in Seq(TabSet) /\ ht \in Nat /\ resize_lock \in BOOLEAN
  /\ th \in [Threads -> ThreadSet] /\ calls \in [Threads -> 0..MaxCalls]

Bins(i) == 0..(tables[i].n - 1)

TablesInv ==
  \A i \in DOMAIN tables :
    tables[i].n \in Sizes(build) /\ TabOK(tables[i]) /\ tables[i].new \in 0..Len(tables)

\* There is one table more than those published while it is filled.
HtInv ==
  /\ ht \in DOMAIN tables
  /\ \A t \in Threads : At(t, "copy") => Len(tables) = ht + 1
  /\ Len(tables) # ht => \E t \in Threads : At(t, "copy")

\* The bin whose lock a thread in state r holds.
Holder(r) == r.pc \in {"locked", "put_key", "evict_keys"}
HeldBin(r) == IF r.pc = "evict_keys" THEN r.bin ELSE Hash(r.k, tables[ht].n)

\* Locks of bins are exclusive, and held in the current table only.
LockOK(r) ==
  Holder(r) => /\ r.tbl = ht /\ HeldBin(r) \in Bins(ht)
               /\ tables[ht].lock[HeldBin(r)] = "update"
LockInv ==
  /\ \A t \in Threads : LockOK(th[t])
  /\ \A t, u \in Threads :
       Holder(th[t]) /\ Holder(th[u]) /\ HeldBin(th[t]) = HeldBin(th[u]) => t = u

\* A bin is locked for good when it is copied: in the tables before the
\* current one all are, in the current one those that the resizer has done.
FrozenInv ==
  /\ \A i \in DOMAIN tables : i < ht => \A b \in Bins(i) : tables[i].lock[b] = "resize"
  /\ \A i \in DOMAIN tables : i > ht => tables[i].new = 0 /\ \A b \in Bins(i) : tables[i].lock[b] = "free"
  /\ \A t \in Threads : At(t, "copy") =>
       \A b \in Bins(ht) : tables[ht].lock[b] = "resize" <=> b < th[t].pos
  /\ (\A t \in Threads : ~At(t, "copy")) => \A b \in Bins(ht) : tables[ht].lock[b] # "resize"

\* On the way to a resize, or resizing and to try once more.
Token(r) ==
  \/ r.pc \in {"status", "resize", "resize_try", "copy"}
  \/ r.pc = "publish" /\ r.again
Resizer(r) == r.pc \in {"copy", "publish"}

\* One thread at a time is on its way to a resize, because the current table
\* has had its threshold of extra buckets, and that happens once to a table.
TokenInv ==
  /\ \A t, u \in Threads : Token(th[t]) /\ Token(th[u]) => t = u
  /\ \A t \in Threads : Token(th[t]) => tables[ht].expands >= Threshold(tables[ht].n)
  /\ \A t, u \in Threads : Resizer(th[t]) /\ Resizer(th[u]) => t = u
  /\ \A t \in Threads : Resizer(th[t]) => resize_lock

\* Bins of the table that a resize makes.
Target(r) == IF r.by = 0 THEN tables[ht].n \div RatioHalve ELSE r.by * tables[ht].n

\* What each step of a resize relies on: the table read is still the current one.
ResizeOK(r) ==
  /\ r.pc \in {"resize_try", "copy"} => r.tbl = ht
  /\ r.pc \in {"resize", "resize_try"} => Target(r) \in Sizes(build)
  /\ r.pc = "publish" => r.new = ht /\ r.tbl < ht
  /\ r.pc = "copy" => r.new = ht + 1 /\ r.pos \in 0..tables[ht].n
ResizeInv == \A t \in Threads : ResizeOK(th[t])

\* The new table has pairs of the bins copied so far; all of them if it grows.
CopyOK(r) ==
  r.pc = "copy" =>
    \A k \in Nat \ {0} : \A v :
      /\ Holds(tables[ht + 1], k, v) => Holds(tables[ht], k, v) /\ Hash(k, tables[ht].n) < r.pos
      /\ r.by # 0 /\ Holds(tables[ht], k, v) /\ Hash(k, tables[ht].n) < r.pos =>
           Holds(tables[ht + 1], k, v)
CopyInv == \A t \in Threads : CopyOK(th[t])

\* Where a call with and without effect can be.
Reading == {"get", "get_key", "get_again"}
Before == {"exists", "lock", "wait", "locked", "put_key"}
After == {"status", "resize", "resize_try", "copy", "publish", "evict", "evict_keys"}
CallOK(r) ==
  /\ r.pc # "idle" => r.k \in Keys /\ r.tbl \in 1..ht
  /\ r.pc \in Reading => r.op = "get"
  /\ r.pc = "exists" => r.op \in {"put", "remove"}
  /\ r.pc \in {"lock", "wait", "locked"} => r.op \in {"put", "update", "remove"}
  /\ r.pc = "put_key" \/ r.pc \in After => r.op = "put"
  /\ r.pc \in Reading \cup Before => ~r.eff
  /\ r.op \in {"put", "update"} => r.v # 0
CallInv == \A t \in Threads : CallOK(th[t])

\* A put that has stored its value has not stored its key, which is nowhere else.
PendingOK(r) ==
  r.pc = "put_key" =>
    LET c == Chain(tables[ht], r.k) IN
    r.pos \in DOMAIN c /\ c[r.pos].key = 0 /\ c[r.pos].val = r.v /\ ~Has(c, r.k)
PendingInv == \A t \in Threads : PendingOK(th[t])

Inv ==
  /\ Types /\ TablesInv /\ HtInv /\ LockInv /\ FrozenInv /\ TokenInv /\ ResizeInv /\ CopyInv
  /\ CallInv /\ PendingInv

LEMMA TableIs ==
  ASSUME tables \in Seq(TabSet), NEW i \in DOMAIN tables
  PROVE  /\ tables[i] \in TabSet /\ tables[i].n \in Nat \ {0} /\ tables[i] \in TablesOf(tables[i].n)
         /\ tables[i].chain \in [Bins(i) -> Seq(Slots)] /\ tables[i].expands \in Nat
         /\ tables[i].lock \in [Bins(i) -> {"free", "update", "resize"}] /\ tables[i].new \in Nat
<1>1. tables[i] \in TabSet
  BY LenProperties, ElementOfSeq
<1>2. PICK n \in Nat \ {0} : tables[i] \in TablesOf(n)
  BY <1>1 DEF TabSet
<1>3. tables[i].n = n
  BY <1>2 DEF TablesOf
<1> QED BY <1>1, <1>2, <1>3 DEF TablesOf, Bins

LEMMA BuildIs ==
  ASSUME build \in Builds
  PROVE  E \in Nat \ {0} /\ RatioHalve \in Nat \ {0} /\ InitBuckets \in Nat \ {0} /\ Keys \subseteq Nat \ {0}
  BY ClhtAssumption DEF E, EntriesPerBucket, RatioHalve, InitBuckets

\* One bin of the current table changes.
BinChange(b, c, l, x) ==
  /\ tables' \in Seq(TabSet) /\ Len(tables') = Len(tables) /\ DOMAIN tables' = DOMAIN tables
  /\ \A j \in DOMAIN tables : j # ht => tables'[j] = tables[j]
  /\ tables'[ht].n = tables[ht].n /\ tables'[ht].new = tables[ht].new /\ tables'[ht].expands = x
  /\ tables'[ht].chain[b] = c /\ tables'[ht].lock[b] = l
  /\ \A a \in Bins(ht) : a # b =>
       tables'[ht].chain[a] = tables[ht].chain[a] /\ tables'[ht].lock[a] = tables[ht].lock[a]

\* A table that differs from the current one in that bin only.
Variant(tab, b, c, l, x) ==
  /\ tab \in TablesOf(tables[ht].n) /\ tab.new = tables[ht].new /\ tab.expands = x
  /\ tab.chain[b] = c /\ tab.lock[b] = l
  /\ \A a \in Bins(ht) : a # b => tab.chain[a] = tables[ht].chain[a] /\ tab.lock[a] = tables[ht].lock[a]

LEMMA BinChangeIs ==
  ASSUME tables \in Seq(TabSet), ht \in DOMAIN tables, NEW b, NEW c, NEW l, NEW x, NEW tab,
         Variant(tab, b, c, l, x), tables' = [tables EXCEPT ![ht] = tab]
  PROVE  BinChange(b, c, l, x)
<1> USE DEF Variant
<1>1. tab \in TabSet
  BY TableIs DEF TabSet
<1>2. ht \in 1..Len(tables) /\ DOMAIN tables = 1..Len(tables)
  BY LenProperties
<1>3. /\ tables' \in Seq(TabSet) /\ Len(tables') = Len(tables)
      /\ \A j \in 1..Len(tables) : tables'[j] = IF j = ht THEN tab ELSE tables[j]
  BY <1>1, <1>2, ExceptSeq
<1>4. DOMAIN tables' = DOMAIN tables
  BY <1>2, <1>3, LenProperties
<1>5. tab.n = tables[ht].n
  BY DEF TablesOf
<1> QED BY <1>2, <1>3, <1>4, <1>5 DEF BinChange

-----------------------------------------------------------------------------
(* Steps. *)

\* One thread goes from th[t] to r, and the tables stay as they are.
LEMMA Quiet ==
  ASSUME Inv, NEW t \in Threads, NEW r \in ThreadSet, th' = [th EXCEPT ![t] = r],
         UNCHANGED <<build, tables, ht, resize_lock>>, calls' \in [Threads -> 0..MaxCalls],
         ~At(t, "copy"), ~Holder(r), ~Resizer(r), Token(r) => Token(th[t]), ResizeOK(r), CallOK(r)
  PROVE  Inv'
<1>1. th'[t] = r /\ \A u \in Threads : u # t => th'[u] = th[u]
  BY DEF Inv, Types
<1>2. /\ build' = build /\ tables' = tables /\ ht' = ht /\ resize_lock' = resize_lock
      /\ E' = E /\ RatioHalve' = RatioHalve
  BY DEF E, EntriesPerBucket, RatioHalve
<1>3. Types'
  BY <1>2 DEF Inv, Types
<1>4. TablesInv'
  BY <1>2 DEF Inv, TablesInv, TabOK, WholeBuckets
<1>5. \A u \in Threads : th'[u].pc = "copy" <=> th[u].pc = "copy"
  BY <1>1 DEF Resizer, At
<1>6. HtInv'
  BY <1>2, <1>5 DEF Inv, HtInv, At
<1>7. LockInv'
  <2>1. \A u \in Threads : Holder(th'[u]) => u # t /\ th'[u] = th[u]
    BY <1>1
  <2>2. \A u \in Threads : LockOK(th[u])' <=> LockOK(th'[u])
    BY <1>2 DEF LockOK, HeldBin, Holder, Bins
  <2>3. \A u \in Threads : HeldBin(th[u])' = HeldBin(th'[u]) /\ (Holder(th[u])' <=> Holder(th'[u]))
    BY <1>2 DEF HeldBin, Holder
  <2>4. \A u \in Threads : LockOK(th'[u])
    BY <2>1 DEF Inv, LockInv, LockOK
  <2> QED BY <2>1, <2>2, <2>3, <2>4 DEF Inv, LockInv
<1>8. FrozenInv'
  <2>1. \A u \in Threads : th'[u].pc = "copy" => th'[u] = th[u]
    BY <1>1 DEF Resizer
  <2> QED BY <1>2, <1>5, <2>1 DEF Inv, FrozenInv, At, Bins
<1>9. TokenInv'
  <2>1. \A u \in Threads : /\ Token(th'[u]) => Token(th[u])
                           /\ Resizer(th'[u]) => Resizer(th[u])
    BY <1>1
  <2>2. \A u \in Threads : (Token(th[u])' <=> Token(th'[u])) /\ (Resizer(th[u])' <=> Resizer(th'[u]))
    BY DEF Token, Resizer
  <2> QED BY <1>2, <2>1, <2>2 DEF Inv, TokenInv
<1>10. ResizeInv'
  <2>1. \A u \in Threads : ResizeOK(th'[u])
    BY <1>1 DEF Inv, ResizeInv
  <2> QED BY <1>2, <2>1 DEF ResizeInv, ResizeOK, Target
<1>11. CopyInv'
  <2>1. \A u \in Threads : CopyOK(th'[u])
    BY <1>1 DEF Inv, CopyInv, CopyOK, Resizer
  <2> QED BY <1>2, <2>1 DEF CopyInv, CopyOK
<1>12. CallInv'
  <2>1. \A u \in Threads : CallOK(th'[u])
    BY <1>1 DEF Inv, CallInv
  <2> QED BY <1>2, <2>1 DEF CallInv, CallOK
<1>13. PendingInv'
  <2>1. \A u \in Threads : PendingOK(th'[u])
    BY <1>1 DEF Inv, PendingInv, PendingOK, Holder
  <2> QED BY <1>2, <2>1 DEF PendingInv, PendingOK
<1> QED BY <1>3, <1>4, <1>6, <1>7, <1>8, <1>9, <1>10, <1>11, <1>12, <1>13 DEF Inv

\* One thread goes from th[t] to r, and changes bin b of the current table,
\* whose lock it takes, has or gives back.
LEMMA BinStep ==
  ASSUME Inv, NEW t \in Threads, NEW r \in ThreadSet, th' = [th EXCEPT ![t] = r],
         UNCHANGED <<build, ht, resize_lock, calls>>,
         NEW b \in Bins(ht), NEW c \in Seq(Slots), NEW l \in {"free", "update"}, NEW x \in Nat,
         BinChange(b, c, l, x), x >= tables[ht].expands,
         \E q \in 1..(x + 1) : Len(c) = q * E, ChainOK(c, b, tables[ht].n),
         IF Holder(th[t]) THEN HeldBin(th[t]) = b ELSE tables[ht].lock[b] = "free",
         Holder(r) => l = "update" /\ r.tbl = ht /\ HeldBin(r) = b,
         ~At(t, "copy"), ~Resizer(r),
         Token(r) => x = tables[ht].expands + 1 /\ x = Threshold(tables[ht].n),
         ResizeOK(r), CallOK(r),
         r.pc = "put_key" => r.pos \in DOMAIN c /\ c[r.pos].key = 0 /\ c[r.pos].val = r.v /\ ~Has(c, r.k)
  PROVE  Inv'
<1>1. th'[t] = r /\ \A u \in Threads : u # t => th'[u] = th[u]
  BY DEF Inv, Types
<1>2. /\ build' = build /\ ht' = ht /\ resize_lock' = resize_lock
      /\ E' = E /\ RatioHalve' = RatioHalve
  BY DEF E, EntriesPerBucket, RatioHalve
<1>3. Types'
  BY <1>2 DEF Inv, Types, BinChange
<1>4. ht \in DOMAIN tables /\ ht \in Nat /\ tables \in Seq(TabSet) /\ ht \in 1..Len(tables)
  BY LenProperties DEF Inv, Types, HtInv
<1>5. /\ DOMAIN tables' = DOMAIN tables /\ Len(tables') = Len(tables)
      /\ \A i \in DOMAIN tables : i # ht => tables'[i] = tables[i]
      /\ \A i \in DOMAIN tables : tables'[i].n = tables[i].n /\ tables'[i].new = tables[i].new
      /\ tables'[ht].chain[b] = c /\ tables'[ht].lock[b] = l /\ tables'[ht].expands = x
      /\ \A a \in Bins(ht) : a # b =>
           tables'[ht].chain[a] = tables[ht].chain[a] /\ tables'[ht].lock[a] = tables[ht].lock[a]
  BY DEF BinChange
<1>6. tables[ht].n \in Nat \ {0} /\ tables[ht].expands \in Nat
  BY <1>4, TableIs
<1>7. tables[ht].lock[b] # "resize"
  BY DEF Inv, LockInv, LockOK
<1>8. TablesInv'
  <2>1. TabOK(tables'[ht])
    <3>1. ASSUME NEW a \in Bins(ht)
          PROVE  \E q \in 1..(x + 1) : Len(tables'[ht].chain[a]) = q * E
      <4>1. CASE a = b
        BY <4>1, <1>5
      <4>2. CASE a # b
        <5>1. PICK q \in 1..(tables[ht].expands + 1) : Len(tables[ht].chain[a]) = q * E
          BY <1>4 DEF Inv, TablesInv, TabOK, WholeBuckets, Bins
        <5>2. q \in 1..(x + 1)
          BY <1>6
        <5> QED BY <4>2, <5>1, <5>2, <1>5
      <4> QED BY <4>1, <4>2
    <3>2. \A a \in Bins(ht) : ChainOK(tables'[ht].chain[a], a, tables[ht].n)
      BY <1>4, <1>5 DEF Inv, TablesInv, TabOK, Bins
    <3> QED BY <3>1, <3>2, <1>4, <1>5 DEF TabOK, WholeBuckets, Bins
  <2>2. \A i \in DOMAIN tables : TabOK(tables'[i])
    BY <2>1, <1>5 DEF Inv, TablesInv
  <2>3. \A i \in DOMAIN tables : TabOK(tables[i])' <=> TabOK(tables'[i])
    BY <1>2 DEF TabOK, WholeBuckets
  <2>4. \A i \in DOMAIN tables : tables'[i].n \in Sizes(build) /\ tables'[i].new \in 0..Len(tables')
    BY <1>5 DEF Inv, TablesInv
  <2> QED BY <2>2, <2>3, <2>4, <1>2, <1>5 DEF TablesInv
<1>9. \A u \in Threads : th'[u].pc = "copy" <=> th[u].pc = "copy"
  BY <1>1 DEF Resizer, At
<1>10. HtInv'
  BY <1>2, <1>5, <1>9 DEF Inv, HtInv, At
<1>11. \A u \in Threads : Bins(ht)' = Bins(ht) /\ HeldBin(th[u])' = HeldBin(th'[u])
                          /\ (Holder(th[u])' <=> Holder(th'[u]))
  BY <1>2, <1>4, <1>5 DEF HeldBin, Holder, Bins
<1>12. \A u \in Threads \ {t} : Holder(th[u]) => HeldBin(th[u]) # b
  <2>1. CASE Holder(th[t])
    BY <2>1 DEF Inv, LockInv
  <2>2. CASE ~Holder(th[t])
    BY <2>2 DEF Inv, LockInv, LockOK
  <2> QED BY <2>1, <2>2
<1>13. LockInv'
  <2>1. ASSUME NEW u \in Threads, Holder(th'[u])
        PROVE  /\ th'[u].tbl = ht /\ HeldBin(th'[u]) \in Bins(ht)
               /\ tables'[ht].lock[HeldBin(th'[u])] = "update"
    <3>1. CASE u = t
      BY <3>1, <2>1, <1>1, <1>5
    <3>2. CASE u # t
      <4>1. th'[u] = th[u] /\ HeldBin(th[u]) # b /\ LockOK(th[u])
        BY <3>2, <2>1, <1>1, <1>12 DEF Inv, LockInv
      <4> QED BY <4>1, <2>1, <1>5 DEF LockOK
    <3> QED BY <3>1, <3>2
  <2>2. \A u \in Threads : LockOK(th[u])'
    BY <2>1, <1>2, <1>11 DEF LockOK
  <2>3. ASSUME NEW u \in Threads, NEW w \in Threads, Holder(th'[u]), Holder(th'[w]),
               HeldBin(th'[u]) = HeldBin(th'[w])
        PROVE  u = w
    BY <2>3, <1>1, <1>12 DEF Inv, LockInv
  <2> QED BY <2>2, <2>3, <1>11 DEF LockInv
<1>14. FrozenInv'
  <2>1. \A u \in Threads : th'[u].pc = "copy" => th'[u] = th[u]
    BY <1>1 DEF Resizer
  <2>2. \A a \in Bins(ht) : tables'[ht].lock[a] = "resize" <=> tables[ht].lock[a] = "resize"
    BY <1>5, <1>7
  <2>3. \A i \in DOMAIN tables : Bins(i)' = Bins(i)
    BY <1>5 DEF Bins
  <2>4. \A i \in DOMAIN tables : i < ht => \A a \in Bins(i) : tables'[i].lock[a] = "resize"
    BY <1>4, <1>5 DEF Inv, FrozenInv
  <2>5. \A i \in DOMAIN tables : i > ht => tables'[i].new = 0 /\ \A a \in Bins(i) : tables'[i].lock[a] = "free"
    BY <1>4, <1>5 DEF Inv, FrozenInv
  <2>6. \A u \in Threads : th'[u].pc = "copy" =>
          \A a \in Bins(ht) : tables'[ht].lock[a] = "resize" <=> a < th'[u].pos
    BY <2>1, <2>2 DEF Inv, FrozenInv, At
  <2>7. (\A u \in Threads : th'[u].pc # "copy") => \A a \in Bins(ht) : tables'[ht].lock[a] # "resize"
    BY <2>2, <1>9 DEF Inv, FrozenInv, At
  <2> QED BY <2>3, <2>4, <2>5, <2>6, <2>7, <1>2, <1>4, <1>5 DEF FrozenInv, At
<1>15. TokenInv'
  <2>1. \A u \in Threads : Resizer(th'[u]) => Resizer(th[u])
    BY <1>1
  <2>2. ASSUME NEW u \in Threads, Token(r), Token(th'[u])
        PROVE  u = t
    <3>1. ~(tables[ht].expands >= Threshold(tables[ht].n))
      BY <2>2, <1>6 DEF Threshold
    <3>2. ~Token(th[u])
      BY <3>1 DEF Inv, TokenInv
    <3> QED BY <3>2, <2>2, <1>1
  <2>3. \A u \in Threads : Token(th'[u]) => u = t \/ Token(th[u])
    BY <1>1
  <2>4. ASSUME NEW u \in Threads, Token(th'[u])
        PROVE  x >= Threshold(tables[ht].n)
    BY <2>4, <2>3, <1>1, <1>6 DEF Inv, TokenInv, Threshold
  <2>5. \A u, w \in Threads : Token(th'[u]) /\ Token(th'[w]) => u = w
    BY <2>2, <2>3, <1>1 DEF Inv, TokenInv
  <2>6. \A u \in Threads : (Token(th[u])' <=> Token(th'[u])) /\ (Resizer(th[u])' <=> Resizer(th'[u]))
    BY DEF Token, Resizer
  <2> QED BY <2>1, <2>4, <2>5, <2>6, <1>2, <1>4, <1>5 DEF Inv, TokenInv, Threshold
<1>16. ResizeInv'
  <2>1. \A u \in Threads : ResizeOK(th'[u])
    BY <1>1 DEF Inv, ResizeInv
  <2> QED BY <2>1, <1>2, <1>4, <1>5 DEF ResizeInv, ResizeOK, Target
<1>17. CopyInv'
  <2>1. SUFFICES ASSUME NEW u \in Threads, th'[u].pc = "copy"
                 PROVE  CopyOK(th[u])'
    BY DEF CopyInv, CopyOK
  <2>2. th'[u] = th[u] /\ th[u].pc = "copy"
    BY <2>1, <1>1 DEF Resizer
  <2>3. ht + 1 \in DOMAIN tables /\ ht + 1 # ht
    BY <2>2, <1>4, LenProperties DEF Inv, HtInv, At
  <2>4. tables'[ht + 1] = tables[ht + 1]
    BY <2>3, <1>5
  <2>5. ~(b < th[u].pos)
    BY <2>2, <1>7 DEF Inv, FrozenInv, At
  <2>6. \A k \in Nat \ {0} : \A v : Hash(k, tables[ht].n) < th[u].pos =>
          (Holds(tables'[ht], k, v) <=> Holds(tables[ht], k, v))
    <3>1. SUFFICES ASSUME NEW k \in Nat \ {0}, Hash(k, tables[ht].n) < th[u].pos
                   PROVE  Chain(tables'[ht], k) = Chain(tables[ht], k)
      BY DEF Holds
    <3>2. Hash(k, tables[ht].n) \in Bins(ht)
      BY <1>6, HashIs DEF Bins
    <3> QED BY <3>1, <3>2, <2>5, <1>4, <1>5 DEF Chain
  <2>7. CopyOK(th[u])
    BY DEF Inv, CopyInv
  <2> QED BY <2>2, <2>4, <2>6, <2>7, <1>2, <1>4, <1>5 DEF CopyOK
<1>18. CallInv'
  <2>1. \A u \in Threads : CallOK(th'[u])
    BY <1>1 DEF Inv, CallInv
  <2> QED BY <1>2, <2>1 DEF CallInv, CallOK
<1>19. PendingInv'
  <2>1. ASSUME NEW u \in Threads, th'[u].pc = "put_key"
        PROVE  LET d == Chain(tables'[ht], th'[u].k) IN
               /\ th'[u].pos \in DOMAIN d /\ d[th'[u].pos].key = 0 /\ d[th'[u].pos].val = th'[u].v
               /\ ~Has(d, th'[u].k)
    <3>1. CASE u = t
      <4>1. Hash(r.k, tables[ht].n) = b
        BY <3>1, <2>1, <1>1 DEF Holder, HeldBin
      <4> QED BY <4>1, <3>1, <2>1, <1>1, <1>4, <1>5 DEF Chain
    <3>2. CASE u # t
      <4>1. th'[u] = th[u] /\ HeldBin(th[u]) # b /\ LockOK(th[u]) /\ PendingOK(th[u]) /\ Holder(th[u])
        BY <3>2, <2>1, <1>1, <1>12 DEF Inv, LockInv, PendingInv, Holder
      <4>2. Hash(th[u].k, tables[ht].n) \in Bins(ht) /\ Hash(th[u].k, tables[ht].n) # b
        BY <4>1, <2>1 DEF LockOK, HeldBin
      <4>3. Chain(tables'[ht], th[u].k) = Chain(tables[ht], th[u].k)
        BY <4>2, <1>4, <1>5 DEF Chain
      <4> QED BY <4>1, <4>3, <2>1 DEF PendingOK
    <3> QED BY <3>1, <3>2
  <2> QED BY <2>1, <1>2 DEF PendingInv, PendingOK
<1> QED BY <1>3, <1>8, <1>10, <1>13, <1>14, <1>15, <1>16, <1>17, <1>18, <1>19 DEF Inv

-----------------------------------------------------------------------------
(* What the stores of a thread do to a chain. *)

\* Slot i of a chain gets another val.
StoresVal(c, d, i, v) ==
  /\ d \in Seq(Slots) /\ Len(d) = Len(c) /\ DOMAIN d = DOMAIN c
  /\ d[i].val = v /\ \A j \in DOMAIN c : d[j].key = c[j].key
  /\ \A j \in DOMAIN c : j # i => d[j] = c[j]
  /\ \A k : Has(d, k) <=> Has(c, k)
  /\ \A b, n : ChainOK(c, b, n) /\ (c[i].key = 0 \/ v # 0) => ChainOK(d, b, n)

LEMMA StoreValIs ==
  ASSUME NEW c \in Seq(Slots), NEW i \in DOMAIN c, NEW v \in Nat
  PROVE  StoresVal(c, [c EXCEPT ![i].val = v], i, v)
<1> DEFINE d == [c EXCEPT ![i].val = v]
           s == [c[i] EXCEPT !.val = v]
<1>1. c[i] \in Slots
  BY SlotIs
<1>2. s \in Slots /\ s.val = v /\ s.key = c[i].key
  BY <1>1 DEF Slots
<1>3. d = [c EXCEPT ![i] = s] /\ i \in 1..Len(c) /\ DOMAIN c = 1..Len(c)
  BY LenProperties
<1> HIDE DEF s, d
<1>4. d \in Seq(Slots) /\ Len(d) = Len(c) /\ \A j \in 1..Len(c) : d[j] = IF j = i THEN s ELSE c[j]
  BY <1>2, <1>3, ExceptSeq
<1>5. DOMAIN d = DOMAIN c
  BY <1>3, <1>4, LenProperties
<1>6. d[i].val = v /\ (\A j \in DOMAIN c : d[j].key = c[j].key) /\ \A j \in DOMAIN c : j # i => d[j] = c[j]
  BY <1>2, <1>3, <1>4
<1>7. \A k : Has(d, k) <=> Has(c, k)
  BY <1>5, <1>6 DEF Has
<1>8. ASSUME NEW b, NEW n, ChainOK(c, b, n), c[i].key = 0 \/ v # 0
      PROVE  ChainOK(d, b, n)
  BY <1>5, <1>6, <1>8 DEF ChainOK
<1>9. StoresVal(c, d, i, v)
  BY <1>4, <1>5, <1>6, <1>7, <1>8 DEF StoresVal
<1> QED BY <1>9 DEF d

\* Slot i of a chain gets another key.
StoresKey(c, d, i, k) ==
  /\ d \in Seq(Slots) /\ Len(d) = Len(c) /\ DOMAIN d = DOMAIN c
  /\ d[i].key = k /\ d[i].val = c[i].val /\ \A j \in DOMAIN c : j # i => d[j] = c[j]

LEMMA StoreKeyIs ==
  ASSUME NEW c \in Seq(Slots), NEW i \in DOMAIN c, NEW k \in Nat
  PROVE  StoresKey(c, [c EXCEPT ![i].key = k], i, k)
<1> DEFINE d == [c EXCEPT ![i].key = k]
           s == [c[i] EXCEPT !.key = k]
<1>1. c[i] \in Slots
  BY SlotIs
<1>2. s \in Slots /\ s.key = k /\ s.val = c[i].val
  BY <1>1 DEF Slots
<1>3. d = [c EXCEPT ![i] = s] /\ i \in 1..Len(c) /\ DOMAIN c = 1..Len(c)
  BY LenProperties
<1> HIDE DEF s, d
<1>4. d \in Seq(Slots) /\ Len(d) = Len(c) /\ \A j \in 1..Len(c) : d[j] = IF j = i THEN s ELSE c[j]
  BY <1>2, <1>3, ExceptSeq
<1>5. DOMAIN d = DOMAIN c
  BY <1>3, <1>4, LenProperties
<1>6. StoresKey(c, d, i, k)
  BY <1>2, <1>3, <1>4, <1>5 DEF StoresKey
<1> QED BY <1>6 DEF d

\* Some keys of a chain are cleared.
Clears(c, d) ==
  /\ d \in Seq(Slots) /\ Len(d) = Len(c) /\ DOMAIN d = DOMAIN c
  /\ \A i \in DOMAIN c : d[i].val = c[i].val /\ (d[i] = c[i] \/ d[i].key = 0)

LEMMA ClearsKeeps ==
  ASSUME NEW c, NEW d, Clears(c, d), NEW b, NEW n, ChainOK(c, b, n)
  PROVE  ChainOK(d, b, n)
  BY DEF Clears, ChainOK

LEMMA EvictIs ==
  ASSUME NEW c \in Seq(Slots), NEW e, NEW d,
         d = [i \in DOMAIN c |-> IF BucketOf(i) = e THEN [c[i] EXCEPT !.key = 0] ELSE c[i]]
  PROVE  Clears(c, d)
<1>1. Len(c) \in Nat /\ DOMAIN c = 1..Len(c)
  BY LenProperties
<1>2. \A i \in DOMAIN c : c[i] \in Slots
  BY SlotIs
<1>3. \A i \in DOMAIN c : [c[i] EXCEPT !.key = 0] \in Slots /\ [c[i] EXCEPT !.key = 0].key = 0
                          /\ [c[i] EXCEPT !.key = 0].val = c[i].val
  BY <1>2 DEF Slots
<1>4. d \in [1..Len(c) -> Slots]
  BY <1>1, <1>2, <1>3
<1>5. d \in Seq(Slots) /\ Len(d) = Len(c)
  BY <1>1, <1>4, FcnIsSeq
<1>6. \A i \in DOMAIN c : d[i].val = c[i].val /\ (d[i] = c[i] \/ d[i].key = 0)
  BY <1>3
<1> QED BY <1>1, <1>5, <1>6, LenProperties DEF Clears

-----------------------------------------------------------------------------
(* The stores as changes of one bin. *)

LEMMA ChangeForms ==
  ASSUME tables \in Seq(TabSet), ht \in DOMAIN tables, NEW b \in Bins(ht), NEW c \in Seq(Slots),
         NEW l \in {"free", "update", "resize"}
  PROVE  /\ tables' = [tables EXCEPT ![ht].lock[b] = l] =>
              BinChange(b, tables[ht].chain[b], l, tables[ht].expands)
         /\ tables' = [tables EXCEPT ![ht].chain[b] = c] =>
              BinChange(b, c, tables[ht].lock[b], tables[ht].expands)
         /\ tables' = [tables EXCEPT ![ht].chain[b] = c, ![ht].lock[b] = l] =>
              BinChange(b, c, l, tables[ht].expands)
         /\ tables' = [tables EXCEPT ![ht].chain[b] = c, ![ht].lock[b] = l, ![ht].expands = @ + 1] =>
              BinChange(b, c, l, tables[ht].expands + 1)
<1> DEFINE old == tables[ht]
<1>1. /\ old \in TablesOf(old.n) /\ old.chain \in [Bins(ht) -> Seq(Slots)] /\ old.expands \in Nat
      /\ old.lock \in [Bins(ht) -> {"free", "update", "resize"}] /\ Bins(ht) = 0..(old.n - 1)
      /\ old.n \in Nat \ {0}
  BY TableIs DEF Bins
<1>2. ASSUME tables' = [tables EXCEPT ![ht].lock[b] = l]
      PROVE  BinChange(b, old.chain[b], l, old.expands)
  <2> DEFINE tab == [old EXCEPT !.lock[b] = l]
  <2>1. tables' = [tables EXCEPT ![ht] = tab]
    BY <1>2
  <2>2. Variant(tab, b, old.chain[b], l, old.expands)
    BY <1>1 DEF TablesOf, Variant
  <2> HIDE DEF tab
  <2> QED BY <2>1, <2>2, BinChangeIs
<1>3. ASSUME tables' = [tables EXCEPT ![ht].chain[b] = c]
      PROVE  BinChange(b, c, old.lock[b], old.expands)
  <2> DEFINE tab == [old EXCEPT !.chain[b] = c]
  <2>1. tables' = [tables EXCEPT ![ht] = tab]
    BY <1>3
  <2>2. Variant(tab, b, c, old.lock[b], old.expands)
    BY <1>1 DEF TablesOf, Variant
  <2> HIDE DEF tab
  <2> QED BY <2>1, <2>2, BinChangeIs
<1>4. ASSUME tables' = [tables EXCEPT ![ht].chain[b] = c, ![ht].lock[b] = l]
      PROVE  BinChange(b, c, l, old.expands)
  <2> DEFINE tab == [old EXCEPT !.chain[b] = c, !.lock[b] = l]
  <2>1. tables' = [tables EXCEPT ![ht] = tab]
    BY <1>4
  <2>2. Variant(tab, b, c, l, old.expands)
    BY <1>1 DEF TablesOf, Variant
  <2> HIDE DEF tab
  <2> QED BY <2>1, <2>2, BinChangeIs
<1>5. ASSUME tables' = [tables EXCEPT ![ht].chain[b] = c, ![ht].lock[b] = l, ![ht].expands = @ + 1]
      PROVE  BinChange(b, c, l, old.expands + 1)
  <2> DEFINE tab == [old EXCEPT !.chain[b] = c, !.lock[b] = l, !.expands = old.expands + 1]
  <2>1. tables' = [tables EXCEPT ![ht] = tab]
    BY <1>5
  <2>2. Variant(tab, b, c, l, old.expands + 1)
    <3>1. old.expands + 1 \in Nat
      BY <1>1
    <3> DEFINE x == old.expands + 1
    <3> HIDE DEF x
    <3>2. Variant([old EXCEPT !.chain[b] = c, !.lock[b] = l, !.expands = x], b, c, l, x)
      BY <1>1, <3>1 DEF TablesOf, Variant, x
    <3> QED BY <3>2 DEF x
  <2> HIDE DEF tab
  <2> QED BY <2>1, <2>2, BinChangeIs
<1> QED BY <1>2, <1>3, <1>4, <1>5

-----------------------------------------------------------------------------
(* Steps that change no table. *)

LEMMA StateIs ==
  ASSUME Inv, NEW t \in Threads
  PROVE  /\ th[t] \in ThreadSet /\ ht \in DOMAIN tables /\ ht \in Nat \ {0} /\ build \in Builds
         /\ tables \in Seq(TabSet) /\ DOMAIN tables = 1..Len(tables) /\ Len(tables) \in Nat
         /\ tables[ht].n \in Nat \ {0} /\ ResizeOK(th[t]) /\ CallOK(th[t])
         /\ LockOK(th[t]) /\ PendingOK(th[t]) /\ CopyOK(th[t])
<1>1. tables \in Seq(TabSet) /\ ht \in DOMAIN tables /\ th[t] \in ThreadSet /\ build \in Builds
  BY DEF Inv, Types, HtInv
<1>2. DOMAIN tables = 1..Len(tables) /\ Len(tables) \in Nat /\ ht \in Nat \ {0}
  BY <1>1, LenProperties
<1>3. tables[ht].n \in Nat \ {0}
  BY <1>1, TableIs
<1> QED BY <1>1, <1>2, <1>3 DEF Inv, ResizeInv, CallInv, LockInv, PendingInv, CopyInv

LEMMA MyChainIs ==
  ASSUME Inv, NEW t \in Threads, th[t].pc # "idle"
  PROVE  /\ th[t].tbl \in DOMAIN tables /\ th[t].tbl \in 1..ht /\ th[t].k \in Keys /\ th[t].k \in Nat \ {0}
         /\ MyBin(t) \in Bins(th[t].tbl) /\ MyChain(t) \in Seq(Slots)
         /\ MyChain(t) = tables[th[t].tbl].chain[MyBin(t)] /\ Tab(t) = tables[th[t].tbl]
         /\ ChainOK(MyChain(t), MyBin(t), Tab(t).n)
<1>1. /\ th[t].tbl \in 1..ht /\ th[t].k \in Keys /\ th[t].k \in Nat \ {0}
      /\ ht \in 1..Len(tables) /\ DOMAIN tables = 1..Len(tables) /\ Len(tables) \in Nat
  BY StateIs, BuildIs DEF CallOK
<1>2. th[t].tbl \in DOMAIN tables
  BY <1>1
<1>3. tables[th[t].tbl].n \in Nat \ {0} /\ tables[th[t].tbl].chain \in [Bins(th[t].tbl) -> Seq(Slots)]
  BY <1>2, StateIs, TableIs
<1>4. MyBin(t) \in Bins(th[t].tbl)
  BY <1>1, <1>3, HashIs DEF MyBin, Tab, Bins
<1>5. MyChain(t) = tables[th[t].tbl].chain[MyBin(t)]
  BY DEF MyChain, Chain, MyBin, Tab
<1>6. ChainOK(MyChain(t), MyBin(t), Tab(t).n)
  BY <1>2, <1>4, <1>5 DEF Inv, TablesInv, TabOK, Bins, Tab
<1> QED BY <1>1, <1>2, <1>3, <1>4, <1>5, <1>6 DEF Tab

\* A thread that stays in its call, with other locals.
LEMMA QuietIn ==
  ASSUME Inv, NEW t \in Threads, UNCHANGED <<build, tables, ht, resize_lock, calls>>,
         NEW r \in ThreadSet, th' = [th EXCEPT ![t] = r], ~At(t, "copy"),
         ~Holder(r), ~Resizer(r), ~Token(r), CallOK(r)
  PROVE  Inv'
<1>1. ResizeOK(r)
  BY DEF ResizeOK, Token, Resizer
<1>2. calls' \in [Threads -> 0..MaxCalls]
  BY DEF Inv, Types
<1> QED BY <1>1, <1>2, Quiet

LEMMA ValueIs ==
  ASSUME Inv, NEW t \in Threads, NEW k \in Keys
  PROVE  Value(t, k) \in Nat \ {0}
<1>1. calls[t] \in Nat /\ NumThreads \in Nat \ {0} /\ t \in Nat \ {0} /\ k \in Nat \ {0}
  BY ClhtAssumption DEF Inv, Types, Threads
<1>2. NumThreads * calls[t] \in Nat
  BY <1>1
<1> QED BY <1>1, <1>2 DEF Value

LEMMA CallStep ==
  ASSUME Inv, NEW t \in Threads, NEW op \in build.ops[t], NEW k \in build.keys, Call(t, op, k),
         UNCHANGED build
  PROVE  Inv'
<1> DEFINE r == [Idle EXCEPT !.pc = CASE op = "get" -> "get" [] op = "update" -> "lock" [] OTHER -> "exists",
                             !.op = op, !.k = k, !.v = IF op \in {"put", "update"} THEN Value(t, k) ELSE 0,
                             !.tbl = ht, !.bin = Hash(k, tables[ht].n), !.pos = 1]
<1>1. th' = [th EXCEPT ![t] = r] /\ UNCHANGED <<build, tables, ht, resize_lock>> /\ At(t, "idle")
      /\ calls' = [calls EXCEPT ![t] = @ + 1] /\ calls[t] < MaxCalls
  BY DEF Call, Become
<1>2. k \in Keys /\ op \in {"get", "put", "update", "remove"} /\ build \in Builds
  BY ClhtAssumption, StateIs DEF Threads
<1>3. calls' \in [Threads -> 0..MaxCalls]
  BY <1>1, ClhtAssumption DEF Inv, Types
<1>4. Value(t, k) \in Nat \ {0}
  BY <1>2, ValueIs
<1>5. Hash(k, tables[ht].n) \in Nat /\ ht \in Nat \ {0}
  <2>1. k \in Nat
    BY <1>2, ClhtAssumption
  <2>2. Hash(k, tables[ht].n) \in 0..(tables[ht].n - 1)
    BY <2>1, StateIs, HashIs
  <2> QED BY <2>2, StateIs
<1>6. r \in ThreadSet
  BY <1>2, <1>4, <1>5 DEF ThreadSet, Idle, Pcs
<1>7. /\ r.pc = (CASE op = "get" -> "get" [] op = "update" -> "lock" [] OTHER -> "exists")
      /\ r.op = op /\ r.k = k /\ r.v = (IF op \in {"put", "update"} THEN Value(t, k) ELSE 0)
      /\ r.tbl = ht /\ ~r.eff
  BY DEF Idle
<1> HIDE DEF r
<1>8. CallOK(r) /\ ~Holder(r) /\ ~Resizer(r) /\ ~Token(r) /\ ResizeOK(r)
  BY <1>2, <1>4, <1>5, <1>7 DEF CallOK, Holder, Resizer, Token, ResizeOK, Reading, Before, After
<1>9. ~At(t, "copy")
  BY <1>1 DEF At
<1> QED BY <1>1, <1>3, <1>6, <1>8, <1>9, Quiet

LEMMA ReturnStep ==
  ASSUME Inv, NEW t \in Threads, Return(t), UNCHANGED build
  PROVE  Inv'
<1>1. Idle \in ThreadSet
  BY DEF Idle, ThreadSet, Pcs
<1>2. CallOK(Idle) /\ ~Holder(Idle) /\ ~Resizer(Idle) /\ ~Token(Idle)
  BY DEF Idle, CallOK, Holder, Resizer, Token, Reading, Before, After
<1> QED BY <1>1, <1>2, QuietIn DEF Return, Become, At

\* The unlocked reads of get, put and remove.
LEMMA ReadStep ==
  ASSUME Inv, NEW t \in Threads, GetVal(t) \/ GetKey(t) \/ GetAgain(t) \/ Exists(t), UNCHANGED build
  PROVE  Inv'
<1>1. th[t] \in ThreadSet /\ CallOK(th[t])
  BY StateIs
<1>2. th[t].pc \in Reading \cup {"exists"}
  BY DEF GetVal, GetKey, GetAgain, Exists, At, Reading
<1>3. UNCHANGED <<build, tables, ht, resize_lock, calls>> /\ ~At(t, "copy") /\ th[t].pc # "idle"
  BY <1>2 DEF GetVal, GetKey, GetAgain, Exists, At, Reading
<1>4. MyChain(t) \in Seq(Slots)
  BY <1>3, MyChainIs
<1>5. \A i \in DOMAIN MyChain(t) : MyChain(t)[i].val \in Nat
  BY <1>4, SlotIs
<1>6. PICK r : /\ th' = [th EXCEPT ![t] = r] /\ r \in ThreadSet
               /\ r.k = th[t].k /\ r.tbl = th[t].tbl /\ r.op = th[t].op /\ r.eff = th[t].eff /\ r.v = th[t].v
               /\ \/ r.pc = "done"
                  \/ th[t].pc \in Reading /\ r.pc \in Reading
                  \/ th[t].pc = "exists" /\ r.pc \in {"exists", "lock"}
  <2>1. CASE GetVal(t)
    <3>1. CASE th[t].pos \in DOMAIN MyChain(t)
      <4> DEFINE r == [th[t] EXCEPT !.pc = "get_key", !.val = MyChain(t)[th[t].pos].val]
      <4>1. th' = [th EXCEPT ![t] = r]
        BY <2>1, <3>1 DEF GetVal, Become
      <4>2. r \in ThreadSet /\ r.pc = "get_key" /\ r.k = th[t].k /\ r.tbl = th[t].tbl /\ r.op = th[t].op
            /\ r.eff = th[t].eff /\ r.v = th[t].v
        BY <1>1, <1>5, <3>1 DEF ThreadSet, Pcs
      <4> QED BY <4>1, <4>2, <2>1 DEF Reading, GetVal, At
    <3>2. CASE th[t].pos \notin DOMAIN MyChain(t)
      <4> DEFINE r == Answer(t, 0)
      <4>1. th' = [th EXCEPT ![t] = r]
        BY <2>1, <3>2 DEF GetVal, Become
      <4>2. r \in ThreadSet /\ r.pc = "done" /\ r.k = th[t].k /\ r.tbl = th[t].tbl /\ r.op = th[t].op
            /\ r.eff = th[t].eff /\ r.v = th[t].v
        BY <1>1 DEF ThreadSet, Pcs, Answer
      <4> HIDE DEF r
      <4> QED BY <4>1, <4>2
    <3> QED BY <3>1, <3>2
  <2>2. CASE GetKey(t)
    <3> DEFINE r == IF MyChain(t)[th[t].pos].key = th[t].k THEN [th[t] EXCEPT !.pc = "get_again"]
                    ELSE [th[t] EXCEPT !.pc = "get", !.pos = @ + 1]
    <3>1. th' = [th EXCEPT ![t] = r]
      BY <2>2 DEF GetKey, Become, Goto
    <3>2. r \in ThreadSet /\ r.pc \in Reading /\ r.k = th[t].k /\ r.tbl = th[t].tbl /\ r.op = th[t].op
          /\ r.eff = th[t].eff /\ r.v = th[t].v
      <4>1. CASE MyChain(t)[th[t].pos].key = th[t].k
        BY <1>1, <4>1 DEF ThreadSet, Pcs, Reading
      <4>2. CASE MyChain(t)[th[t].pos].key # th[t].k
        <5> DEFINE s == [th[t] EXCEPT !.pc = "get", !.pos = @ + 1]
        <5>1. s \in ThreadSet /\ s.pc = "get" /\ s.k = th[t].k /\ s.tbl = th[t].tbl /\ s.op = th[t].op
              /\ s.eff = th[t].eff /\ s.v = th[t].v
          <6> DEFINE x == th[t].pos + 1
          <6>1. x \in Nat /\ "get" \in Pcs
            BY <1>1 DEF ThreadSet, Pcs
          <6>2. s = [th[t] EXCEPT !.pc = "get", !.pos = x]
            BY <1>1 DEF ThreadSet
          <6> HIDE DEF x, s
          <6> QED BY <1>1, <6>1, <6>2 DEF ThreadSet
        <5>2. r = s
          BY <4>2
        <5> HIDE DEF r, s
        <5> QED BY <5>1, <5>2 DEF Reading
      <4> QED BY <4>1, <4>2
    <3> HIDE DEF r
    <3> QED BY <3>1, <3>2, <2>2 DEF GetKey, At, Reading
  <2>3. CASE GetAgain(t)
    <3> DEFINE a == IF MyChain(t)[th[t].pos].val = th[t].val THEN th[t].val ELSE 0
               r == Answer(t, a)
    <3>1. th' = [th EXCEPT ![t] = r]
      BY <2>3 DEF GetAgain, Become
    <3>2. a \in Nat
      BY <1>1 DEF ThreadSet
    <3>3. r \in ThreadSet /\ r.pc = "done" /\ r.k = th[t].k /\ r.tbl = th[t].tbl /\ r.op = th[t].op
          /\ r.eff = th[t].eff /\ r.v = th[t].v
      BY <1>1, <3>2 DEF ThreadSet, Pcs, Answer
    <3> HIDE DEF r
    <3> QED BY <3>1, <3>3
  <2>4. CASE Exists(t)
    <3> DEFINE locks == [th[t] EXCEPT !.pc = "lock"]
               goes == [th[t] EXCEPT !.pos = @ + 1]
    <3>1. \E r \in {Answer(t, 0), locks, goes} : th' = [th EXCEPT ![t] = r]
      BY <2>4 DEF Exists, Become
    <3>2. \A r \in {Answer(t, 0), locks, goes} :
            /\ r \in ThreadSet /\ r.k = th[t].k /\ r.tbl = th[t].tbl /\ r.op = th[t].op
            /\ r.eff = th[t].eff /\ r.v = th[t].v
      <4> DEFINE Same(r) == /\ r \in ThreadSet /\ r.k = th[t].k /\ r.tbl = th[t].tbl /\ r.op = th[t].op
                            /\ r.eff = th[t].eff /\ r.v = th[t].v
      <4>1. Same(Answer(t, 0))
        BY <1>1 DEF ThreadSet, Pcs, Answer
      <4>2. Same(locks)
        BY <1>1 DEF ThreadSet, Pcs
      <4>3. Same(goes)
        BY <1>1 DEF ThreadSet
      <4> HIDE DEF locks, goes, Same
      <4>4. \A r \in {Answer(t, 0), locks, goes} : Same(r)
        BY <4>1, <4>2, <4>3
      <4> QED BY <4>4 DEF Same
    <3>3. Answer(t, 0).pc = "done" /\ locks.pc = "lock" /\ goes.pc = "exists"
      BY <1>1, <2>4 DEF ThreadSet, Answer, Exists, At
    <3> HIDE DEF locks, goes
    <3> QED BY <3>1, <3>2, <3>3, <2>4 DEF Exists, At
  <2> QED BY <2>1, <2>2, <2>3, <2>4
<1>7. CallOK(r) /\ ~Holder(r) /\ ~Resizer(r) /\ ~Token(r)
  BY <1>1, <1>3, <1>6 DEF CallOK, Holder, Resizer, Token, Reading, Before, After
<1> QED BY <1>3, <1>6, <1>7, QuietIn

\* A thread waits for, or finds, the new table.
LEMMA WaitStep ==
  ASSUME Inv, NEW t \in Threads, UNCHANGED build,
         \/ WaitForNew(t)
         \/ At(t, "lock") /\ Goto(t, "wait") /\ UNCHANGED <<tables, ht, resize_lock, calls>>
  PROVE  Inv'
<1>1. th[t] \in ThreadSet /\ CallOK(th[t]) /\ ht \in Nat \ {0}
  BY StateIs
<1>2. UNCHANGED <<build, tables, ht, resize_lock, calls>> /\ ~At(t, "copy")
  BY DEF WaitForNew, At
<1>3. PICK r : /\ th' = [th EXCEPT ![t] = r] /\ r \in ThreadSet /\ r.tbl \in 1..ht
               /\ r.k = th[t].k /\ r.op = th[t].op /\ r.eff = th[t].eff /\ r.v = th[t].v
               /\ r.pc \in {"lock", "wait"} /\ th[t].pc \in {"lock", "wait"}
  <2>1. CASE WaitForNew(t)
    <3> DEFINE r == [th[t] EXCEPT !.pc = "lock", !.tbl = ht]
    <3>1. th' = [th EXCEPT ![t] = r] /\ th[t].pc = "wait"
      BY <2>1 DEF WaitForNew, Become, At
    <3>2. /\ r \in ThreadSet /\ r.pc = "lock" /\ r.tbl = ht
          /\ r.k = th[t].k /\ r.op = th[t].op /\ r.eff = th[t].eff /\ r.v = th[t].v
      BY <1>1 DEF ThreadSet, Pcs
    <3>3. r.tbl \in 1..ht
      BY <3>2, <1>1
    <3> HIDE DEF r
    <3> QED BY <3>1, <3>2, <3>3
  <2>2. CASE At(t, "lock") /\ Goto(t, "wait")
    <3> DEFINE r == [th[t] EXCEPT !.pc = "wait"]
    <3>1. th' = [th EXCEPT ![t] = r] /\ th[t].pc = "lock"
      BY <2>2 DEF Goto, Become, At
    <3>2. /\ r \in ThreadSet /\ r.pc = "wait" /\ r.tbl = th[t].tbl
          /\ r.k = th[t].k /\ r.op = th[t].op /\ r.eff = th[t].eff /\ r.v = th[t].v
      BY <1>1 DEF ThreadSet, Pcs
    <3> HIDE DEF r
    <3> QED BY <3>1, <3>2, <1>1 DEF CallOK
  <2> QED BY <2>1, <2>2
<1>4. CallOK(r) /\ ~Holder(r) /\ ~Resizer(r) /\ ~Token(r)
  BY <1>1, <1>3 DEF CallOK, Holder, Resizer, Token, Reading, Before, After
<1> QED BY <1>2, <1>3, <1>4, QuietIn

LEMMA StatusStep ==
  ASSUME SmallIsNotSparse, Inv, NEW t \in Threads, Status(t), UNCHANGED build
  PROVE  Inv'
<1> DEFINE tab == tables[ht]
<1>1. th[t] \in ThreadSet /\ CallOK(th[t]) /\ ht \in Nat \ {0} /\ build \in Builds
  BY StateIs
<1>2. UNCHANGED <<build, tables, ht, resize_lock, calls>> /\ th[t].pc = "status" /\ ~At(t, "copy")
  BY DEF Status, At
<1>3. Token(th[t]) /\ th[t].op = "put" /\ th[t].k \in Keys /\ th[t].v # 0
  BY <1>1, <1>2 DEF Token, CallOK, After
<1>4. tab \in TablesOf(tab.n) /\ tab.n \in Sizes(build)
  BY StateIs, TableIs DEF Inv, TablesInv
<1>5. calls' \in [Threads -> 0..MaxCalls]
  BY <1>2 DEF Inv, Types
<1>6. PICK r : /\ th' = [th EXCEPT ![t] = r] /\ r \in ThreadSet
               /\ r.k = th[t].k /\ r.op = th[t].op /\ r.v = th[t].v /\ r.tbl \in 1..ht
               /\ \/ r.pc \in {"evict", "done"}
                  \/ r.pc = "resize" /\ Target(r) \in Sizes(build)
  <2>1. CASE Sparse(tab) /\ Become(t, [th[t] EXCEPT !.pc = "resize", !.by = 0])
    <3> DEFINE r == [th[t] EXCEPT !.pc = "resize", !.by = 0]
    <3>1. /\ r \in ThreadSet /\ r.pc = "resize" /\ r.by = 0 /\ r.tbl = th[t].tbl
          /\ r.k = th[t].k /\ r.op = th[t].op /\ r.v = th[t].v
      BY <1>1 DEF ThreadSet, Pcs
    <3>2. tab.n \div RatioHalve \in Sizes(build)
      BY <2>1, <1>1, <1>4, SparseIsLarge
    <3>3. Target(r) \in Sizes(build)
      BY <3>1, <3>2 DEF Target
    <3>4. th' = [th EXCEPT ![t] = r] /\ r.tbl \in 1..ht
      BY <2>1, <3>1, <1>1, <1>2 DEF Become, CallOK
    <3> HIDE DEF r
    <3> QED BY <3>1, <3>3, <3>4
  <2>2. CASE Become(t, [th[t] EXCEPT !.pc = "resize", !.by = GrowBy(tab)])
    <3> DEFINE r == [th[t] EXCEPT !.pc = "resize", !.by = GrowBy(tab)]
    <3>1. GrowBy(tab) \in Nat \ {0} /\ GrowBy(tab) * tab.n \in Sizes(build)
      BY <1>1, <1>4, GrowByIs
    <3>2. /\ r \in ThreadSet /\ r.pc = "resize" /\ r.by = GrowBy(tab) /\ r.tbl = th[t].tbl
          /\ r.k = th[t].k /\ r.op = th[t].op /\ r.v = th[t].v
      BY <1>1, <3>1 DEF ThreadSet, Pcs
    <3>3. Target(r) \in Sizes(build)
      BY <3>1, <3>2 DEF Target
    <3>4. th' = [th EXCEPT ![t] = r] /\ r.tbl \in 1..ht
      BY <2>2, <3>2, <1>1, <1>2 DEF Become, CallOK
    <3> HIDE DEF r
    <3> QED BY <3>2, <3>3, <3>4
  <2>3. CASE Become(t, [th[t] EXCEPT !.pc = "evict", !.tbl = ht])
    <3> DEFINE r == [th[t] EXCEPT !.pc = "evict", !.tbl = ht]
    <3>1. /\ r \in ThreadSet /\ r.pc = "evict" /\ r.tbl = ht
          /\ r.k = th[t].k /\ r.op = th[t].op /\ r.v = th[t].v
      BY <1>1 DEF ThreadSet, Pcs
    <3>2. th' = [th EXCEPT ![t] = r] /\ r.tbl \in 1..ht
      BY <3>1, <2>3, <1>1 DEF Become
    <3> HIDE DEF r
    <3> QED BY <3>1, <3>2
  <2>4. CASE Goto(t, "done")
    <3> DEFINE r == [th[t] EXCEPT !.pc = "done"]
    <3>1. /\ r \in ThreadSet /\ r.pc = "done" /\ r.tbl = th[t].tbl
          /\ r.k = th[t].k /\ r.op = th[t].op /\ r.v = th[t].v
      BY <1>1 DEF ThreadSet, Pcs
    <3>2. th[t].tbl \in 1..ht
      BY <1>1, <1>2 DEF CallOK
    <3> HIDE DEF r
    <3> QED BY <3>1, <3>2, <2>4 DEF Become, Goto, r
  <2> QED BY <2>1, <2>2, <2>3, <2>4 DEF Status
<1>7. CallOK(r) /\ ~Holder(r) /\ ~Resizer(r) /\ ResizeOK(r)
  BY <1>3, <1>6 DEF CallOK, Holder, Resizer, ResizeOK, Reading, Before, After
<1> QED BY <1>2, <1>3, <1>5, <1>6, <1>7, Quiet

LEMMA ResizeReadStep ==
  ASSUME Inv, NEW t \in Threads, ResizeRead(t), UNCHANGED build
  PROVE  Inv'
<1> DEFINE r == [th[t] EXCEPT !.pc = "resize_try", !.tbl = ht]
<1>1. th[t] \in ThreadSet /\ CallOK(th[t]) /\ ht \in Nat \ {0} /\ ResizeOK(th[t])
  BY StateIs
<1>2. UNCHANGED <<build, tables, ht, resize_lock, calls>> /\ th[t].pc = "resize" /\ ~At(t, "copy")
      /\ th' = [th EXCEPT ![t] = r]
  BY DEF ResizeRead, At, Become
<1>3. /\ r \in ThreadSet /\ r.pc = "resize_try" /\ r.tbl = ht /\ r.by = th[t].by
      /\ r.k = th[t].k /\ r.op = th[t].op /\ r.v = th[t].v
  BY <1>1 DEF ThreadSet, Pcs
<1>4. calls' \in [Threads -> 0..MaxCalls]
  BY <1>2 DEF Inv, Types
<1> HIDE DEF r
<1>5. ResizeOK(r)
  BY <1>1, <1>2, <1>3 DEF ResizeOK, Target
<1>6. CallOK(r) /\ ~Holder(r) /\ ~Resizer(r) /\ Token(th[t])
  BY <1>1, <1>2, <1>3 DEF CallOK, Holder, Resizer, Token, Reading, Before, After
<1> QED BY <1>2, <1>3, <1>4, <1>5, <1>6, Quiet

\* A put that ends without a resize, or looks for its bin in the new table.
LEMMA GiveUpStep ==
  ASSUME Inv, NEW t \in Threads, UNCHANGED <<build, tables, ht, resize_lock, calls>>,
         \/ At(t, "resize_try") /\ Goto(t, "done")
         \/ At(t, "evict") /\ Become(t, [th[t] EXCEPT !.tbl = ht])
  PROVE  Inv'
<1>1. th[t] \in ThreadSet /\ CallOK(th[t]) /\ ht \in Nat \ {0}
  BY StateIs
<1>2. ~At(t, "copy")
  BY DEF At
<1>3. CASE At(t, "resize_try") /\ Goto(t, "done")
  <2> DEFINE r == [th[t] EXCEPT !.pc = "done"]
  <2>1. /\ r \in ThreadSet /\ r.pc = "done" /\ r.tbl = th[t].tbl
        /\ r.k = th[t].k /\ r.op = th[t].op /\ r.v = th[t].v
    BY <1>1 DEF ThreadSet, Pcs
  <2>2. th' = [th EXCEPT ![t] = r] /\ th[t].pc = "resize_try"
    BY <1>3 DEF Goto, Become, At
  <2> HIDE DEF r
  <2>3. CallOK(r) /\ ~Holder(r) /\ ~Resizer(r) /\ ~Token(r)
    BY <1>1, <2>1, <2>2 DEF CallOK, Holder, Resizer, Token, Reading, Before, After
  <2> QED BY <1>2, <2>1, <2>2, <2>3, QuietIn
<1>4. CASE At(t, "evict") /\ Become(t, [th[t] EXCEPT !.tbl = ht])
  <2> DEFINE r == [th[t] EXCEPT !.tbl = ht]
  <2>1. /\ r \in ThreadSet /\ r.pc = "evict" /\ r.tbl = ht
        /\ r.k = th[t].k /\ r.op = th[t].op /\ r.v = th[t].v
    BY <1>1, <1>4 DEF ThreadSet, At
  <2>2. th' = [th EXCEPT ![t] = r] /\ th[t].pc = "evict"
    BY <1>4 DEF Become, At
  <2> HIDE DEF r
  <2>3. CallOK(r) /\ ~Holder(r) /\ ~Resizer(r) /\ ~Token(r)
    BY <1>1, <2>1, <2>2 DEF CallOK, Holder, Resizer, Token, Reading, Before, After
  <2> QED BY <1>2, <2>1, <2>2, <2>3, QuietIn
<1> QED BY <1>3, <1>4

-----------------------------------------------------------------------------
(* Steps that change one bin. *)

\* A bin that is not locked for good is one of the current table.
LEMMA FreeIsCurrent ==
  ASSUME Inv, NEW t \in Threads, th[t].pc # "idle", NEW b \in Bins(th[t].tbl),
         tables[th[t].tbl].lock[b] # "resize"
  PROVE  th[t].tbl = ht
<1>1. th[t].tbl \in DOMAIN tables /\ th[t].tbl \in 1..ht /\ ht \in Nat
  BY MyChainIs, StateIs
<1> QED BY <1>1 DEF Inv, FrozenInv

LEMMA ChainLength ==
  ASSUME Inv, NEW b \in Bins(ht)
  PROVE  /\ \E q \in 1..(tables[ht].expands + 1) : Len(tables[ht].chain[b]) = q * E
         /\ ChainOK(tables[ht].chain[b], b, tables[ht].n) /\ tables[ht].chain[b] \in Seq(Slots)
         /\ tables[ht].expands \in Nat
<1>1. tables \in Seq(TabSet) /\ ht \in DOMAIN tables
  BY DEF Inv, Types, HtInv
<1>2. tables[ht].chain \in [Bins(ht) -> Seq(Slots)] /\ tables[ht].expands \in Nat
  BY <1>1, TableIs
<1> QED BY <1>1, <1>2 DEF Inv, TablesInv, TabOK, WholeBuckets, Bins

\* BinStep for a chain that keeps its length, and no resize.
LEMMA SameLength ==
  ASSUME Inv, NEW t \in Threads, NEW r \in ThreadSet, th' = [th EXCEPT ![t] = r],
         UNCHANGED <<build, ht, resize_lock, calls>>,
         NEW b \in Bins(ht), NEW c \in Seq(Slots), Len(c) = Len(tables[ht].chain[b]),
         NEW l \in {"free", "update"}, BinChange(b, c, l, tables[ht].expands),
         ChainOK(c, b, tables[ht].n),
         IF Holder(th[t]) THEN HeldBin(th[t]) = b ELSE tables[ht].lock[b] = "free",
         Holder(r) => l = "update" /\ r.tbl = ht /\ HeldBin(r) = b,
         ~At(t, "copy"), ~Resizer(r), ~Token(r), CallOK(r),
         r.pc = "put_key" => r.pos \in DOMAIN c /\ c[r.pos].key = 0 /\ c[r.pos].val = r.v /\ ~Has(c, r.k)
  PROVE  Inv'
<1>1. tables[ht].expands \in Nat /\ \E q \in 1..(tables[ht].expands + 1) : Len(c) = q * E
  BY ChainLength
<1>2. ResizeOK(r)
  BY DEF ResizeOK, Token, Resizer
<1>3. tables[ht].expands >= tables[ht].expands
  BY <1>1
<1> DEFINE x == tables[ht].expands
<1> HIDE DEF x
<1>4. x \in Nat /\ x >= tables[ht].expands /\ (\E q \in 1..(x + 1) : Len(c) = q * E) /\ BinChange(b, c, l, x)
  BY <1>1, <1>3 DEF x
<1> QED BY <1>2, <1>4, BinStep

LEMMA LockAcqStep ==
  ASSUME Inv, NEW t \in Threads, LockAcq(t), UNCHANGED build
  PROVE  Inv'
<1>1. th[t].pc = "lock" /\ th[t].pc # "idle" /\ th[t] \in ThreadSet /\ CallOK(th[t])
      /\ UNCHANGED <<build, ht, resize_lock, calls>>
  BY StateIs DEF LockAcq, At
<1>2. CASE Goto(t, "wait") /\ UNCHANGED tables
  BY <1>1, <1>2, WaitStep DEF At
<1>3. CASE /\ Tab(t).lock[MyBin(t)] = "free"
           /\ tables' = [tables EXCEPT ![th[t].tbl].lock[MyBin(t)] = "update"]
           /\ Goto(t, "locked")
  <2> DEFINE b == MyBin(t)
             c == tables[ht].chain[b]
             r == [th[t] EXCEPT !.pc = "locked"]
  <2>1. th[t].tbl = ht /\ b \in Bins(ht) /\ tables[ht].lock[b] = "free"
    BY <1>1, <1>3, MyChainIs, FreeIsCurrent
  <2>2. b = Hash(th[t].k, tables[ht].n)
    BY <2>1 DEF MyBin, Tab
  <2>3. c \in Seq(Slots) /\ ChainOK(c, b, tables[ht].n)
    BY <2>1, ChainLength
  <2>4. /\ r \in ThreadSet /\ r.pc = "locked" /\ r.tbl = ht /\ r.tbl = th[t].tbl
        /\ r.k = th[t].k /\ r.op = th[t].op /\ r.eff = th[t].eff /\ r.v = th[t].v
    BY <1>1, <2>1 DEF ThreadSet, Pcs
  <2>5. th' = [th EXCEPT ![t] = r]
    BY <1>3 DEF Goto, Become
  <2> HIDE DEF b, c, r
  <2>6. BinChange(b, c, "update", tables[ht].expands)
    <3>1. tables' = [tables EXCEPT ![ht].lock[b] = "update"]
      BY <1>3, <2>1 DEF b
    <3> QED BY <3>1, <2>1, <2>3, StateIs, ChangeForms DEF c
  <2>7. HeldBin(r) = b /\ ~Holder(th[t]) /\ ~Resizer(r) /\ ~Token(r) /\ CallOK(r) /\ ~At(t, "copy")
    BY <1>1, <2>2, <2>4 DEF HeldBin, Holder, Resizer, Token, CallOK, At, Reading, Before, After
  <2>8. Len(c) = Len(tables[ht].chain[b]) /\ r.pc # "put_key"
    BY <2>4 DEF c
  <2> QED BY <1>1, <2>1, <2>3, <2>4, <2>5, <2>6, <2>7, <2>8, SameLength
<1> QED BY <1>2, <1>3 DEF LockAcq

\* The thread holds the lock of the bin of its key.
LEMMA HeldIs ==
  ASSUME Inv, NEW t \in Threads, th[t].pc \in {"locked", "put_key"}
  PROVE  /\ th[t].tbl = ht /\ MyBin(t) \in Bins(ht) /\ Holder(th[t]) /\ HeldBin(th[t]) = MyBin(t)
         /\ MyBin(t) = Hash(th[t].k, tables[ht].n) /\ th[t].k \in Keys /\ th[t].k \in Nat \ {0}
         /\ MyChain(t) = tables[ht].chain[MyBin(t)] /\ MyChain(t) = Chain(tables[ht], th[t].k)
         /\ MyChain(t) \in Seq(Slots) /\ ChainOK(MyChain(t), MyBin(t), tables[ht].n)
         /\ tables[ht].lock[MyBin(t)] = "update" /\ ~At(t, "copy") /\ Tab(t) = tables[ht]
<1>1. th[t].tbl = ht /\ LockOK(th[t])
  BY StateIs DEF LockOK, Holder
<1>2. th[t].pc # "idle" /\ ~At(t, "copy") /\ Holder(th[t])
  BY DEF At, Holder
<1>3. MyBin(t) = Hash(th[t].k, tables[ht].n) /\ HeldBin(th[t]) = MyBin(t)
  BY <1>1 DEF MyBin, Tab, HeldBin
<1>4. tables[ht].lock[MyBin(t)] = "update"
  BY <1>1, <1>2, <1>3 DEF LockOK
<1>5. MyChain(t) = Chain(tables[ht], th[t].k)
  BY <1>1 DEF MyChain, Tab
<1> QED BY <1>1, <1>2, <1>3, <1>4, <1>5, MyChainIs DEF Tab

\* A call of put, update or remove ends, with or without effect: the chain has
\* changed, and the lock is released.
LEMMA EndStep ==
  ASSUME Inv, NEW t \in Threads, th[t].pc \in {"locked", "put_key"},
         UNCHANGED <<build, ht, resize_lock, calls>>,
         NEW c \in Seq(Slots), Len(c) = Len(MyChain(t)), ChainOK(c, MyBin(t), tables[ht].n),
         BinChange(MyBin(t), c, "free", tables[ht].expands),
         NEW res \in Nat, NEW eff \in BOOLEAN,
         th' = [th EXCEPT ![t] = [th[t] EXCEPT !.pc = "done", !.res = res, !.eff = eff]]
  PROVE  Inv'
<1> DEFINE r == [th[t] EXCEPT !.pc = "done", !.res = res, !.eff = eff]
<1>1. th[t] \in ThreadSet /\ CallOK(th[t])
  BY StateIs
<1>2. /\ r \in ThreadSet /\ r.pc = "done" /\ r.tbl = th[t].tbl
      /\ r.k = th[t].k /\ r.op = th[t].op /\ r.v = th[t].v
  BY <1>1 DEF ThreadSet, Pcs
<1> HIDE DEF r
<1>3. CallOK(r) /\ ~Holder(r) /\ ~Resizer(r) /\ ~Token(r) /\ r.pc # "put_key"
  BY <1>1, <1>2 DEF CallOK, Holder, Resizer, Token, Reading, Before, After
<1>4. /\ Holder(th[t]) /\ HeldBin(th[t]) = MyBin(t) /\ MyBin(t) \in Bins(ht) /\ ~At(t, "copy")
      /\ MyChain(t) = tables[ht].chain[MyBin(t)]
  BY HeldIs
<1> QED BY <1>2, <1>3, <1>4, SameLength DEF r

\* A call that changes nothing in its bin gives the lock back.
LEMMA ReleaseStep ==
  ASSUME Inv, NEW t \in Threads, th[t].pc = "locked", Release(t), Become(t, Answer(t, 0)),
         UNCHANGED <<build, ht, resize_lock, calls>>
  PROVE  Inv'
<1> DEFINE c == MyChain(t)
           b == MyBin(t)
<1>1. /\ th[t].tbl = ht /\ b \in Bins(ht) /\ c = tables[ht].chain[b]
      /\ c \in Seq(Slots) /\ ChainOK(c, b, tables[ht].n)
  BY HeldIs
<1>2. tables' = [tables EXCEPT ![ht].lock[b] = "free"]
  BY <1>1 DEF Release
<1>3. th[t] \in ThreadSet /\ CallOK(th[t]) /\ tables \in Seq(TabSet) /\ ht \in DOMAIN tables
  BY StateIs
<1>4. th' = [th EXCEPT ![t] = [th[t] EXCEPT !.pc = "done", !.res = 0, !.eff = FALSE]]
  <2>1. ~th[t].eff
    BY <1>3 DEF CallOK, Before
  <2>2. [th[t] EXCEPT !.pc = "done", !.res = 0] = [th[t] EXCEPT !.pc = "done", !.res = 0, !.eff = FALSE]
    BY <2>1, <1>3 DEF ThreadSet
  <2> QED BY <2>2 DEF Become, Answer
<1> HIDE DEF c, b
<1>5. BinChange(b, c, "free", tables[ht].expands)
  BY <1>1, <1>2, <1>3, ChangeForms
<1> QED BY <1>1, <1>4, <1>5, EndStep DEF c, b

\* A call of put, update or remove ends with effect: bin and thread.
Ends(t, d, res) ==
  /\ d \in Seq(Slots) /\ Len(d) = Len(MyChain(t)) /\ ChainOK(d, MyBin(t), tables[ht].n)
  /\ BinChange(MyBin(t), d, "free", tables[ht].expands) /\ res \in Nat
  /\ th' = [th EXCEPT ![t] = [th[t] EXCEPT !.pc = "done", !.res = res, !.eff = TRUE]]

LEMMA UpdateIs ==
  ASSUME Inv, NEW t \in Threads, Update(t), Has(MyChain(t), th[t].k)
  PROVE  \E d, i : /\ i \in DOMAIN MyChain(t) /\ MyChain(t)[i].key = th[t].k
                   /\ StoresVal(MyChain(t), d, i, th[t].v) /\ Ends(t, d, 1)
<1> DEFINE c == MyChain(t)
           k == th[t].k
           b == MyBin(t)
           i == First(c, k)
           v == th[t].v
           d == [c EXCEPT ![i].val = v]
<1>1. th[t].pc = "locked" /\ th[t].op = "update"
  BY DEF Update, At
<1>2. SetChain(t, d) /\ th' = [th EXCEPT ![t] = [Answer(t, 1) EXCEPT !.eff = TRUE]]
  BY DEF Update, Become
<1>3. /\ th[t].tbl = ht /\ b \in Bins(ht) /\ c = tables[ht].chain[b]
      /\ c \in Seq(Slots) /\ ChainOK(c, b, tables[ht].n)
  BY <1>1, HeldIs
<1>4. tables' = [tables EXCEPT ![ht].chain[b] = d, ![ht].lock[b] = "free"]
  BY <1>2, <1>3 DEF SetChain
<1>5. i \in DOMAIN c /\ c[i].key = k
  BY <1>3, FirstIs
<1>6. th[t] \in ThreadSet /\ v \in Nat /\ v # 0 /\ tables \in Seq(TabSet) /\ ht \in DOMAIN tables
  BY <1>1, StateIs DEF CallOK, ThreadSet
<1>7. th' = [th EXCEPT ![t] = [th[t] EXCEPT !.pc = "done", !.res = 1, !.eff = TRUE]]
  BY <1>2, <1>6 DEF Answer, ThreadSet
<1> HIDE DEF c, b, i, v, k
<1>8. StoresVal(c, d, i, v)
  BY <1>3, <1>5, <1>6, StoreValIs, Zenon
<1> HIDE DEF d
<1>9. d \in Seq(Slots) /\ Len(d) = Len(c) /\ ChainOK(d, b, tables[ht].n)
  BY <1>3, <1>6, <1>8 DEF StoresVal
<1>10. BinChange(b, d, "free", tables[ht].expands)
  BY <1>3, <1>4, <1>6, <1>9, ChangeForms
<1>11. Ends(t, d, 1)
  BY <1>7, <1>9, <1>10 DEF Ends, b, c
<1> QED BY <1>5, <1>8, <1>11 DEF c, k, v

LEMMA UpdateStep ==
  ASSUME Inv, NEW t \in Threads, Update(t), UNCHANGED build
  PROVE  Inv'
<1>1. th[t].pc = "locked" /\ UNCHANGED <<build, ht, resize_lock, calls>>
  BY DEF Update, At
<1>2. CASE Has(MyChain(t), th[t].k)
  <2>1. PICK d : Ends(t, d, 1)
    BY <1>2, UpdateIs
  <2> QED BY <1>1, <2>1, EndStep DEF Ends
<1>3. CASE ~Has(MyChain(t), th[t].k)
  BY <1>1, <1>3, ReleaseStep DEF Update
<1> QED BY <1>2, <1>3

LEMMA RemoveIs ==
  ASSUME Inv, NEW t \in Threads, Remove(t), Has(MyChain(t), th[t].k)
  PROVE  \E d, i : /\ i \in DOMAIN MyChain(t) /\ MyChain(t)[i].key = th[t].k
                   /\ StoresKey(MyChain(t), d, i, 0) /\ Ends(t, d, MyChain(t)[i].val)
<1> DEFINE c == MyChain(t)
           k == th[t].k
           b == MyBin(t)
           i == First(c, k)
           d == [c EXCEPT ![i].key = 0]
           res == c[i].val
<1>1. th[t].pc = "locked" /\ th[t].op = "remove"
  BY DEF Remove, At
<1>2. SetChain(t, d) /\ th' = [th EXCEPT ![t] = [Answer(t, res) EXCEPT !.eff = TRUE]]
  BY DEF Remove, Become
<1>3. /\ th[t].tbl = ht /\ b \in Bins(ht) /\ c = tables[ht].chain[b]
      /\ c \in Seq(Slots) /\ ChainOK(c, b, tables[ht].n)
  BY <1>1, HeldIs
<1>4. tables' = [tables EXCEPT ![ht].chain[b] = d, ![ht].lock[b] = "free"]
  BY <1>2, <1>3 DEF SetChain
<1>5. i \in DOMAIN c /\ c[i].key = k /\ res \in Nat
  BY <1>3, FirstIs, SlotIs
<1>6. th[t] \in ThreadSet /\ tables \in Seq(TabSet) /\ ht \in DOMAIN tables /\ 0 \in Nat
  BY <1>1, StateIs
<1>7. th' = [th EXCEPT ![t] = [th[t] EXCEPT !.pc = "done", !.res = res, !.eff = TRUE]]
  BY <1>2, <1>6 DEF Answer, ThreadSet
<1> HIDE DEF c, b, i, k
<1>8. StoresKey(c, d, i, 0)
  BY <1>3, <1>5, <1>6, StoreKeyIs, Zenon
<1> HIDE DEF d
<1>9. Clears(c, d)
  BY <1>8 DEF Clears, StoresKey
<1>10. d \in Seq(Slots) /\ Len(d) = Len(c) /\ ChainOK(d, b, tables[ht].n)
  <2>1. ChainOK(d, b, tables[ht].n)
    BY <1>3, <1>9, ClearsKeeps
  <2> QED BY <1>8, <2>1 DEF StoresKey
<1>11. BinChange(b, d, "free", tables[ht].expands)
  BY <1>3, <1>4, <1>6, <1>10, ChangeForms
<1>12. Ends(t, d, res)
  BY <1>5, <1>7, <1>10, <1>11 DEF Ends, b, c
<1> QED BY <1>5, <1>8, <1>12 DEF c, k

LEMMA RemoveStep ==
  ASSUME Inv, NEW t \in Threads, Remove(t), UNCHANGED build
  PROVE  Inv'
<1>1. th[t].pc = "locked" /\ UNCHANGED <<build, ht, resize_lock, calls>>
  BY DEF Remove, At
<1>2. CASE Has(MyChain(t), th[t].k)
  <2>1. PICK d, i : Ends(t, d, MyChain(t)[i].val)
    BY <1>2, RemoveIs
  <2> DEFINE res == MyChain(t)[i].val
  <2> HIDE DEF res
  <2>2. Ends(t, d, res)
    BY <2>1 DEF res
  <2> QED BY <1>1, <2>2, EndStep DEF Ends
<1>3. CASE ~Has(MyChain(t), th[t].k)
  BY <1>1, <1>3, ReleaseStep DEF Remove
<1> QED BY <1>2, <1>3

LEMMA PutKeyIs ==
  ASSUME Inv, NEW t \in Threads, PutKey(t)
  PROVE  /\ ~Has(MyChain(t), th[t].k) /\ th[t].v # 0
         /\ \E d : /\ StoresKey(MyChain(t), d, th[t].pos, th[t].k) /\ Adds(MyChain(t), d, th[t].k, th[t].v)
                   /\ Ends(t, d, 1)
<1> DEFINE c == MyChain(t)
           k == th[t].k
           b == MyBin(t)
           i == th[t].pos
           d == [c EXCEPT ![i].key = k]
<1>1. th[t].pc = "put_key"
  BY DEF PutKey, At
<1>2. SetChain(t, d) /\ th' = [th EXCEPT ![t] = [Answer(t, 1) EXCEPT !.eff = TRUE]]
  BY DEF PutKey, Become
<1>3. /\ th[t].tbl = ht /\ b \in Bins(ht) /\ c = tables[ht].chain[b] /\ c = Chain(tables[ht], k)
      /\ c \in Seq(Slots) /\ ChainOK(c, b, tables[ht].n) /\ k \in Keys /\ k \in Nat \ {0}
      /\ b = Hash(k, tables[ht].n)
  BY <1>1, HeldIs
<1>4. tables' = [tables EXCEPT ![ht].chain[b] = d, ![ht].lock[b] = "free"]
  BY <1>2, <1>3 DEF SetChain
<1>5. th[t] \in ThreadSet /\ th[t].v \in Nat \ {0} /\ tables \in Seq(TabSet) /\ ht \in DOMAIN tables
  BY <1>1, StateIs DEF CallOK, ThreadSet
<1>6. i \in DOMAIN c /\ c[i].key = 0 /\ c[i].val = th[t].v /\ ~Has(c, k)
  BY <1>1, <1>3, StateIs DEF PendingOK
<1>7. th' = [th EXCEPT ![t] = [th[t] EXCEPT !.pc = "done", !.res = 1, !.eff = TRUE]]
  BY <1>2, <1>5 DEF Answer, ThreadSet
<1>8. k \in Nat
  BY <1>3
<1> HIDE DEF c, k, i, b
<1>9. StoresKey(c, d, i, k)
  BY <1>3, <1>6, <1>8, StoreKeyIs, Zenon
<1> HIDE DEF d
<1>10. d \in Seq(Slots) /\ Len(d) = Len(c) /\ Adds(c, d, k, th[t].v)
  BY <1>6, <1>9 DEF Adds, StoresKey
<1>11. ChainOK(d, b, tables[ht].n)
  BY <1>3, <1>5, <1>6, <1>10, AddsKeeps
<1>12. BinChange(b, d, "free", tables[ht].expands)
  BY <1>3, <1>4, <1>5, <1>10, ChangeForms
<1>13. Ends(t, d, 1)
  BY <1>7, <1>10, <1>11, <1>12 DEF Ends, b, c
<1> QED BY <1>5, <1>6, <1>9, <1>10, <1>13 DEF c, k, i

LEMMA PutKeyStep ==
  ASSUME Inv, NEW t \in Threads, PutKey(t), UNCHANGED build
  PROVE  Inv'
<1>1. th[t].pc = "put_key" /\ UNCHANGED <<build, ht, resize_lock, calls>>
  BY DEF PutKey, At
<1>2. PICK d : Ends(t, d, 1)
  BY PutKeyIs
<1> QED BY <1>1, <1>2, EndStep DEF Ends

\* Put stores its value in an empty slot, and keeps the lock.
Reserves(t) == ~Has(MyChain(t), th[t].k) /\ Has(MyChain(t), 0)

LEMMA ReserveIs ==
  ASSUME Inv, NEW t \in Threads, Put(t), Reserves(t)
  PROVE  \E d, i : /\ i \in DOMAIN MyChain(t) /\ MyChain(t)[i].key = 0 /\ StoresVal(MyChain(t), d, i, th[t].v)
                   /\ BinChange(MyBin(t), d, "update", tables[ht].expands)
                   /\ ChainOK(d, MyBin(t), tables[ht].n)
                   /\ th' = [th EXCEPT ![t] = [th[t] EXCEPT !.pc = "put_key", !.pos = i]]
<1> DEFINE c == MyChain(t)
           k == th[t].k
           b == MyBin(t)
           v == th[t].v
           i == First(c, 0)
           d == [c EXCEPT ![i].val = v]
<1>1. th[t].pc = "locked" /\ th[t].op = "put"
  BY DEF Put, At
<1>2. /\ th[t].tbl = ht /\ b \in Bins(ht) /\ c = tables[ht].chain[b]
      /\ c \in Seq(Slots) /\ ChainOK(c, b, tables[ht].n) /\ tables[ht].lock[b] = "update"
  BY <1>1, HeldIs
<1>3. v \in Nat /\ tables \in Seq(TabSet) /\ ht \in DOMAIN tables
  BY <1>1, StateIs DEF ThreadSet
<1>4. /\ tables' = [tables EXCEPT ![th[t].tbl].chain[MyBin(t)][First(c, 0)].val = th[t].v]
      /\ th' = [th EXCEPT ![t] = [th[t] EXCEPT !.pc = "put_key", !.pos = i]]
  BY DEF Put, Become, Reserves
<1>5. i \in DOMAIN c /\ c[i].key = 0
  BY <1>2, FirstIs DEF Reserves
<1>6. tables' = [tables EXCEPT ![ht].chain[b] = d]
  BY <1>2, <1>4
<1> HIDE DEF c, k, b, v, i
<1>7. StoresVal(c, d, i, v)
  BY <1>2, <1>3, <1>5, StoreValIs, Zenon
<1> HIDE DEF d
<1>8. d \in Seq(Slots) /\ ChainOK(d, b, tables[ht].n)
  BY <1>2, <1>5, <1>7 DEF StoresVal
<1>9. BinChange(b, d, "update", tables[ht].expands)
  BY <1>2, <1>3, <1>6, <1>8, ChangeForms
<1> QED BY <1>4, <1>5, <1>7, <1>8, <1>9 DEF c, b, v, i

\* Put links a new bucket.
Extends(t) == ~Has(MyChain(t), th[t].k) /\ ~Has(MyChain(t), 0)

LEMMA ExtendIs ==
  ASSUME Inv, NEW t \in Threads, Put(t), Extends(t)
  PROVE  \E d, pc :
           /\ Adds(MyChain(t), d, th[t].k, th[t].v) /\ Len(d) = Len(MyChain(t)) + E
           /\ ChainOK(d, MyBin(t), tables[ht].n) /\ d \in Seq(Slots)
           /\ BinChange(MyBin(t), d, "free", tables[ht].expands + 1)
           /\ pc \in {"status", "done"} /\ (pc = "status" => tables[ht].expands + 1 = Threshold(tables[ht].n))
           /\ th' = [th EXCEPT ![t] = [th[t] EXCEPT !.pc = pc, !.res = 1, !.eff = TRUE]]
<1> DEFINE c == MyChain(t)
           k == th[t].k
           b == MyBin(t)
           v == th[t].v
           d == WithBucket(c, k, v)
           pc == IF Triggers(tables[ht]) THEN "status" ELSE "done"
           r == [th[t] EXCEPT !.pc = pc, !.res = 1, !.eff = TRUE]
<1>1. th[t].pc = "locked" /\ th[t].op = "put"
  BY DEF Put, At
<1>2. /\ th[t].tbl = ht /\ b \in Bins(ht) /\ c = tables[ht].chain[b] /\ c = Chain(tables[ht], k)
      /\ c \in Seq(Slots) /\ ChainOK(c, b, tables[ht].n) /\ k \in Keys /\ k \in Nat \ {0}
      /\ b = Hash(k, tables[ht].n) /\ Tab(t) = tables[ht]
  BY <1>1, HeldIs
<1>3. th[t] \in ThreadSet /\ v \in Nat \ {0} /\ tables \in Seq(TabSet) /\ ht \in DOMAIN tables
  BY <1>1, StateIs DEF CallOK, ThreadSet
<1>4. /\ tables' = [tables EXCEPT ![th[t].tbl].chain[MyBin(t)] = WithBucket(c, k, th[t].v),
                                  ![th[t].tbl].lock[MyBin(t)] = "free",
                                  ![th[t].tbl].expands = @ + 1]
      /\ Become(t, [Answer(t, 1) EXCEPT !.eff = TRUE,
                                        !.pc = IF Triggers(Tab(t)) THEN "status" ELSE "done"])
      /\ ~Has(c, k)
  BY DEF Put, Extends
<1>5. E \in Nat \ {0}
  BY StateIs, BuildIs
<1>6. Adds(c, d, k, v) /\ Len(d) = Len(c) + E
  BY <1>2, <1>3, <1>5, WithBucketIs
<1>7. tables' = [tables EXCEPT ![ht].chain[b] = d, ![ht].lock[b] = "free", ![ht].expands = @ + 1]
  BY <1>2, <1>4
<1>8. pc \in {"status", "done"} /\ (pc = "status" => tables[ht].expands + 1 = Threshold(tables[ht].n))
  BY DEF Triggers
<1>9. th' = [th EXCEPT ![t] = r]
  <2>1. [Answer(t, 1) EXCEPT !.eff = TRUE, !.pc = pc] = r
    BY <1>3 DEF Answer, ThreadSet
  <2> QED BY <2>1, <1>2, <1>4 DEF Become
<1>10. d \in Seq(Slots)
  BY <1>6 DEF Adds
<1> HIDE DEF c, k, b, v, d, pc
<1>11. ChainOK(d, b, tables[ht].n)
  BY <1>2, <1>3, <1>4, <1>6, <1>10, AddsKeeps
<1>12. BinChange(b, d, "free", tables[ht].expands + 1)
  BY <1>2, <1>3, <1>7, <1>10, ChangeForms
<1> QED BY <1>6, <1>8, <1>9, <1>10, <1>11, <1>12 DEF c, k, b, v

LEMMA PutStep ==
  ASSUME Inv, NEW t \in Threads, Put(t), UNCHANGED build
  PROVE  Inv'
<1> DEFINE c == MyChain(t)
           k == th[t].k
           b == MyBin(t)
           v == th[t].v
<1>1. th[t].pc = "locked" /\ UNCHANGED <<build, ht, resize_lock, calls>> /\ th[t].op = "put"
  BY DEF Put, At
<1>2. /\ th[t].tbl = ht /\ b \in Bins(ht) /\ c = tables[ht].chain[b] /\ c \in Seq(Slots)
      /\ k \in Keys /\ b = Hash(k, tables[ht].n) /\ Holder(th[t]) /\ HeldBin(th[t]) = b /\ ~At(t, "copy")
  BY <1>1, HeldIs
<1>3. th[t] \in ThreadSet /\ v \in Nat \ {0} /\ CallOK(th[t]) /\ ~th[t].eff
  BY <1>1, StateIs DEF CallOK, ThreadSet, Before
<1>4. CASE Has(c, k)
  BY <1>1, <1>4, ReleaseStep DEF Put
<1>5. CASE Reserves(t)
  <2>1. PICK d, i : /\ i \in DOMAIN c /\ c[i].key = 0 /\ StoresVal(c, d, i, v)
                    /\ BinChange(b, d, "update", tables[ht].expands) /\ ChainOK(d, b, tables[ht].n)
                    /\ th' = [th EXCEPT ![t] = [th[t] EXCEPT !.pc = "put_key", !.pos = i]]
    BY <1>5, ReserveIs
  <2> DEFINE r == [th[t] EXCEPT !.pc = "put_key", !.pos = i]
  <2>2. i \in Nat
    BY <1>2, <2>1, LenProperties
  <2>3. /\ r \in ThreadSet /\ r.pc = "put_key" /\ r.pos = i /\ r.tbl = th[t].tbl
        /\ r.k = k /\ r.op = th[t].op /\ r.v = v /\ r.eff = th[t].eff
    BY <1>3, <2>2 DEF ThreadSet, Pcs
  <2>4. th' = [th EXCEPT ![t] = r]
    BY <2>1
  <2>5. ~Has(c, k)
    BY <1>5 DEF Reserves
  <2> HIDE DEF c, k, b, v, r
  <2>6. CallOK(r) /\ Holder(r) /\ HeldBin(r) = b /\ ~Resizer(r) /\ ~Token(r)
    BY <1>1, <1>2, <1>3, <2>3 DEF CallOK, Holder, HeldBin, Resizer, Token, Reading, Before, After, k, v
  <2>7. r.pos \in DOMAIN d /\ d[r.pos].key = 0 /\ d[r.pos].val = r.v /\ ~Has(d, r.k) /\ r.tbl = ht
    BY <1>2, <2>1, <2>3, <2>5 DEF StoresVal
  <2>8. Len(d) = Len(tables[ht].chain[b]) /\ d \in Seq(Slots)
    BY <1>2, <2>1 DEF StoresVal
  <2> QED BY <1>1, <1>2, <2>1, <2>3, <2>4, <2>6, <2>7, <2>8, SameLength
<1>6. CASE Extends(t)
  <2>1. PICK d, pc :
          /\ Len(d) = Len(c) + E /\ ChainOK(d, b, tables[ht].n) /\ d \in Seq(Slots)
          /\ BinChange(b, d, "free", tables[ht].expands + 1)
          /\ pc \in {"status", "done"} /\ (pc = "status" => tables[ht].expands + 1 = Threshold(tables[ht].n))
          /\ th' = [th EXCEPT ![t] = [th[t] EXCEPT !.pc = pc, !.res = 1, !.eff = TRUE]]
    BY <1>6, ExtendIs
  <2> DEFINE x == tables[ht].expands + 1
             r == [th[t] EXCEPT !.pc = pc, !.res = 1, !.eff = TRUE]
  <2>2. E \in Nat \ {0}
    BY StateIs, BuildIs
  <2>3. tables[ht].expands \in Nat /\ x \in Nat /\ x >= tables[ht].expands
    BY <1>2, ChainLength
  <2>4. \E q \in 1..(x + 1) : Len(d) = q * E
    <3>1. PICK q \in 1..(tables[ht].expands + 1) : Len(c) = q * E
      BY <1>2, ChainLength
    <3>2. q + 1 \in 1..(x + 1) /\ Len(d) = (q + 1) * E
      BY <3>1, <2>1, <2>2, <2>3
    <3> QED BY <3>2
  <2>5. pc \in Pcs
    BY <2>1 DEF Pcs
  <2>6. /\ r \in ThreadSet /\ r.pc = pc /\ r.tbl = th[t].tbl
        /\ r.k = k /\ r.op = th[t].op /\ r.v = v
    BY <1>3, <2>5 DEF ThreadSet
  <2>7. th' = [th EXCEPT ![t] = r] /\ BinChange(b, d, "free", x) /\ x = tables[ht].expands + 1
        /\ (pc = "status" => x = Threshold(tables[ht].n))
    BY <2>1
  <2> HIDE DEF c, k, b, v, r, x
  <2>8. CallOK(r) /\ ~Holder(r) /\ ~Resizer(r) /\ ResizeOK(r) /\ r.pc # "put_key"
         /\ (Token(r) => x = Threshold(tables[ht].n))
    BY <1>1, <1>2, <1>3, <2>1, <2>6, <2>7
    DEF CallOK, Holder, Resizer, Token, ResizeOK, Reading, Before, After, k, v
  <2> QED BY <1>1, <1>2, <2>1, <2>3, <2>4, <2>6, <2>7, <2>8, BinStep
<1> QED BY <1>4, <1>5, <1>6 DEF Reserves, Extends

LEMMA EvictLockStep ==
  ASSUME Inv, NEW t \in Threads, EvictLock(t), UNCHANGED build
  PROVE  Inv'
<1>1. th[t].pc = "evict" /\ th[t].pc # "idle" /\ th[t] \in ThreadSet /\ CallOK(th[t])
      /\ UNCHANGED <<build, ht, resize_lock, calls>>
  BY StateIs DEF EvictLock, At
<1>2. CASE Become(t, [th[t] EXCEPT !.tbl = ht]) /\ UNCHANGED tables
  BY <1>1, <1>2, GiveUpStep DEF At
<1>3. CASE /\ Tab(t).lock[th[t].bin] = "free"
           /\ tables' = [tables EXCEPT ![th[t].tbl].lock[th[t].bin] = "update"]
           /\ Goto(t, "evict_keys")
  <2> DEFINE b == th[t].bin
             c == tables[ht].chain[b]
             r == [th[t] EXCEPT !.pc = "evict_keys"]
  <2>1. th[t].tbl = ht /\ b \in Bins(ht) /\ tables[ht].lock[b] = "free"
    <3>1. b \in Nat /\ b < Tab(t).n
      BY <1>1 DEF EvictLock, ThreadSet
    <3>2. th[t].tbl \in DOMAIN tables /\ tables \in Seq(TabSet)
      BY <1>1, MyChainIs, StateIs
    <3>3. tables[th[t].tbl].n \in Nat
      BY <3>2, TableIs
    <3>4. b \in Bins(th[t].tbl) /\ tables[th[t].tbl].lock[b] = "free"
      BY <3>1, <3>3, <1>3 DEF Bins, Tab
    <3> QED BY <3>4, <1>1, FreeIsCurrent
  <2>3. c \in Seq(Slots) /\ ChainOK(c, b, tables[ht].n)
    BY <2>1, ChainLength
  <2>4. /\ r \in ThreadSet /\ r.pc = "evict_keys" /\ r.tbl = ht /\ r.tbl = th[t].tbl /\ r.bin = b
        /\ r.k = th[t].k /\ r.op = th[t].op /\ r.v = th[t].v
    BY <1>1, <2>1 DEF ThreadSet, Pcs
  <2>5. th' = [th EXCEPT ![t] = r]
    BY <1>3 DEF Goto, Become
  <2> HIDE DEF b, c, r
  <2>6. BinChange(b, c, "update", tables[ht].expands)
    <3>1. tables' = [tables EXCEPT ![ht].lock[b] = "update"]
      BY <1>3, <2>1 DEF b
    <3> QED BY <3>1, <2>1, <2>3, StateIs, ChangeForms DEF c
  <2>7. HeldBin(r) = b /\ ~Holder(th[t]) /\ ~Resizer(r) /\ ~Token(r) /\ CallOK(r) /\ ~At(t, "copy")
    BY <1>1, <2>4 DEF HeldBin, Holder, Resizer, Token, CallOK, At, Reading, Before, After
  <2>8. Len(c) = Len(tables[ht].chain[b]) /\ r.pc # "put_key"
    BY <2>4 DEF c
  <2> QED BY <1>1, <2>1, <2>3, <2>4, <2>5, <2>6, <2>7, <2>8, SameLength
<1> QED BY <1>2, <1>3 DEF EvictLock

\* The keys that passive elimination clears.
LEMMA EvictKeysIs ==
  ASSUME Inv, NEW t \in Threads, EvictKeys(t)
  PROVE  LET b == th[t].bin IN
         /\ b \in Bins(ht) /\ th[t].pc = "evict_keys" /\ Holder(th[t]) /\ HeldBin(th[t]) = b
         /\ th' = [th EXCEPT ![t] = [th[t] EXCEPT !.pc = "done"]]
         /\ \E d : /\ Clears(tables[ht].chain[b], d) /\ ChainOK(d, b, tables[ht].n)
                   /\ BinChange(b, d, "free", tables[ht].expands)
<1> DEFINE b == th[t].bin
           c == tables[ht].chain[b]
           r == [th[t] EXCEPT !.pc = "done"]
<1>1. th[t].pc = "evict_keys" /\ th[t] \in ThreadSet /\ LockOK(th[t])
      /\ tables \in Seq(TabSet) /\ ht \in DOMAIN tables
      /\ th' = [th EXCEPT ![t] = r]
  BY StateIs DEF EvictKeys, At, Goto, Become
<1>2. th[t].tbl = ht /\ b \in Bins(ht) /\ Holder(th[t]) /\ HeldBin(th[t]) = b /\ ~At(t, "copy")
  BY <1>1 DEF LockOK, Holder, HeldBin, At
<1>3. c \in Seq(Slots) /\ ChainOK(c, b, tables[ht].n)
  BY <1>2, ChainLength
<1>4. PICK e : tables' = [tables EXCEPT
                 ![ht].chain[b] = [i \in DOMAIN c |-> IF BucketOf(i) = e THEN [c[i] EXCEPT !.key = 0] ELSE c[i]],
                 ![ht].lock[b] = "free"]
  <2> DEFINE a == Tab(t).chain[th[t].bin]
  <2>1. a = c
    BY <1>2 DEF Tab
  <2>2. PICK e \in 0..(Len(a) \div E - 1) :
          tables' = [tables EXCEPT
            ![th[t].tbl].chain[th[t].bin] =
              [i \in DOMAIN a |-> IF BucketOf(i) = e THEN [a[i] EXCEPT !.key = 0] ELSE a[i]],
            ![th[t].tbl].lock[th[t].bin] = "free"]
    BY Zenon DEF EvictKeys
  <2> HIDE DEF a
  <2>3. tables' = [tables EXCEPT
          ![ht].chain[b] = [i \in DOMAIN a |-> IF BucketOf(i) = e THEN [a[i] EXCEPT !.key = 0] ELSE a[i]],
          ![ht].lock[b] = "free"]
    BY <2>2, <1>2
  <2> HIDE DEF c
  <2> QED BY <2>1, <2>3
<1> DEFINE d == [i \in DOMAIN c |-> IF BucketOf(i) = e THEN [c[i] EXCEPT !.key = 0] ELSE c[i]]
<1>5. Clears(c, d)
  BY <1>3, EvictIs
<1>6. tables' = [tables EXCEPT ![ht].chain[b] = d, ![ht].lock[b] = "free"]
  BY <1>4
<1> HIDE DEF b, c, d, r
<1>7. d \in Seq(Slots) /\ ChainOK(d, b, tables[ht].n)
  BY <1>3, <1>5, ClearsKeeps DEF Clears
<1>8. BinChange(b, d, "free", tables[ht].expands)
  BY <1>1, <1>2, <1>6, <1>7, ChangeForms
<1> QED BY <1>1, <1>2, <1>5, <1>7, <1>8 DEF b, c, r

LEMMA EvictKeysStep ==
  ASSUME Inv, NEW t \in Threads, EvictKeys(t), UNCHANGED build
  PROVE  Inv'
<1> DEFINE b == th[t].bin
           r == [th[t] EXCEPT !.pc = "done"]
<1>1. /\ b \in Bins(ht) /\ th[t].pc = "evict_keys" /\ Holder(th[t]) /\ HeldBin(th[t]) = b
      /\ th' = [th EXCEPT ![t] = r]
  BY EvictKeysIs
<1>2. PICK d : /\ Clears(tables[ht].chain[b], d) /\ ChainOK(d, b, tables[ht].n)
               /\ BinChange(b, d, "free", tables[ht].expands)
  BY EvictKeysIs
<1>3. th[t] \in ThreadSet /\ CallOK(th[t]) /\ UNCHANGED <<build, ht, resize_lock, calls>> /\ ~At(t, "copy")
  BY <1>1, StateIs DEF EvictKeys, At
<1>4. /\ r \in ThreadSet /\ r.pc = "done" /\ r.tbl = th[t].tbl
      /\ r.k = th[t].k /\ r.op = th[t].op /\ r.v = th[t].v
  BY <1>3 DEF ThreadSet, Pcs
<1> HIDE DEF b, r
<1>5. CallOK(r) /\ ~Holder(r) /\ ~Resizer(r) /\ ~Token(r) /\ r.pc # "put_key"
  BY <1>1, <1>3, <1>4 DEF CallOK, Holder, Resizer, Token, Reading, Before, After
<1>6. Len(d) = Len(tables[ht].chain[b]) /\ d \in Seq(Slots)
  BY <1>2 DEF Clears
<1> QED BY <1>1, <1>2, <1>3, <1>4, <1>5, <1>6, SameLength

-----------------------------------------------------------------------------
(* The steps of a resize. *)

\* resize_lock is taken and the new table made.
LEMMA ResizeTryStep ==
  ASSUME Inv, NEW t \in Threads, ResizeTry(t), UNCHANGED build
  PROVE  Inv'
<1> DEFINE m == Target(th[t])
           new == NewTable(m)
           r == [th[t] EXCEPT !.pc = "copy", !.new = ht + 1, !.pos = 0]
<1>1. /\ th[t].pc = "resize_try" /\ UNCHANGED <<build, ht, calls>>
      /\ th[t] \in ThreadSet /\ CallOK(th[t]) /\ ResizeOK(th[t]) /\ ht \in DOMAIN tables
      /\ tables \in Seq(TabSet) /\ DOMAIN tables = 1..Len(tables) /\ Len(tables) \in Nat
      /\ ht \in Nat \ {0} /\ build \in Builds
  BY StateIs DEF ResizeTry, At
<1>2. CASE resize_lock /\ Goto(t, "done") /\ UNCHANGED <<tables, resize_lock>>
  BY <1>1, <1>2, GiveUpStep DEF At
<1>3. CASE /\ ~resize_lock /\ resize_lock' = TRUE
           /\ LET n == IF th[t].by = 0 THEN Tab(t).n \div RatioHalve ELSE th[t].by * Tab(t).n
              IN tables' = Append(tables, NewTable(n))
           /\ Become(t, [th[t] EXCEPT !.pc = "copy", !.new = Len(tables) + 1, !.pos = 0])
  <2>1. th[t].tbl = ht /\ m \in Sizes(build) /\ Token(th[t]) /\ th[t].op = "put" /\ th[t].k \in Keys
        /\ th[t].v # 0
    BY <1>1 DEF ResizeOK, Token, CallOK, After
  <2>2. \A u \in Threads : ~Resizer(th[u])
    BY <1>3 DEF Inv, TokenInv
  <2>3. Len(tables) = ht
    BY <2>2 DEF Inv, HtInv, At, Resizer
  <2>4. tables' = Append(tables, new)
    BY <1>3, <2>1 DEF Target, Tab
  <2>5. th' = [th EXCEPT ![t] = r]
    BY <1>3, <2>3 DEF Become
  <2>6. th'[t] = r /\ \A u \in Threads : u # t => th'[u] = th[u]
    BY <2>5 DEF Inv, Types
  <2>7. ht + 1 \in Nat /\ ht + 1 # ht
    BY <1>1
  <2>8. /\ r \in ThreadSet /\ r.pc = "copy" /\ r.new = ht + 1 /\ r.pos = 0 /\ r.tbl = ht
        /\ r.k = th[t].k /\ r.op = th[t].op /\ r.v = th[t].v
    BY <1>1, <2>1, <2>7 DEF ThreadSet, Pcs
  <2>9. m \in Nat \ {0} /\ E \in Nat \ {0}
    BY <1>1, <2>1, SizesIs, BuildIs
  <2> HIDE DEF m, r
  <2>10. /\ new \in TablesOf(m) /\ TabOK(new) /\ new.new = 0
         /\ (\A b \in 0..(m - 1) : new.lock[b] = "free")
         /\ \A k \in Nat \ {0} : \A v : ~Holds(new, k, v)
    BY <2>9, NewTableIs
  <2> HIDE DEF new
  <2>11. new \in TabSet /\ new.n = m
    BY <2>9, <2>10 DEF TabSet, TablesOf
  <2>12. /\ tables' \in Seq(TabSet) /\ Len(tables') = ht + 1
         /\ \A i \in 1..ht : tables'[i] = tables[i]
         /\ tables'[ht + 1] = new
    BY <1>1, <2>3, <2>4, <2>11, AppendProperties
  <2>13. DOMAIN tables' = 1..(ht + 1) /\ DOMAIN tables = 1..ht /\ ht \in 1..ht
         /\ 1..(ht + 1) = 1..ht \cup {ht + 1} /\ \A i \in 1..ht : ~(i > ht)
    BY <1>1, <2>3, <2>12, LenProperties
  <2>14. tables'[ht] = tables[ht] /\ build' = build /\ ht' = ht /\ E' = E /\ RatioHalve' = RatioHalve
         /\ resize_lock'
    BY <1>1, <1>3, <2>12, <2>13 DEF E, EntriesPerBucket, RatioHalve
  <2>15. Types'
    BY <1>1, <2>5, <2>8, <2>12, <2>14 DEF Inv, Types
  <2>16. TablesInv'
    <3>1. \A i \in 1..(ht + 1) : TabOK(tables'[i]) /\ tables'[i].n \in Sizes(build)
      BY <2>1, <2>10, <2>11, <2>12, <2>13 DEF Inv, TablesInv
    <3>2. \A i \in 1..(ht + 1) : TabOK(tables[i])' <=> TabOK(tables'[i])
      BY <2>14 DEF TabOK, WholeBuckets
    <3>3. \A i \in 1..(ht + 1) : tables'[i].new \in 0..(ht + 1)
      <4>1. \A i \in 1..ht : tables[i].new \in 0..ht
        BY <2>3, <2>13 DEF Inv, TablesInv
      <4> QED BY <4>1, <1>1, <2>10, <2>12, <2>13
    <3> QED BY <3>1, <3>2, <3>3, <2>12, <2>13, <2>14 DEF TablesInv
  <2>17. \A u \in Threads : th'[u].pc = "copy" <=> u = t
    BY <2>2, <2>6, <2>8 DEF Resizer
  <2>18. HtInv'
    BY <2>12, <2>13, <2>14, <2>17 DEF HtInv, At
  <2>19. \A u \in Threads : Holder(th'[u]) => u # t /\ th'[u] = th[u]
    BY <2>6, <2>8 DEF Holder
  <2>20. LockInv'
    <3>1. \A u \in Threads : HeldBin(th[u])' = HeldBin(th'[u]) /\ (Holder(th[u])' <=> Holder(th'[u]))
      BY <2>14 DEF HeldBin, Holder
    <3>2. \A u \in Threads : LockOK(th[u])' <=> LockOK(th'[u])
      BY <2>14, <3>1 DEF LockOK, Bins
    <3>3. \A u \in Threads : LockOK(th'[u])
      BY <2>19 DEF Inv, LockInv, LockOK
    <3> QED BY <3>1, <3>2, <3>3, <2>19 DEF Inv, LockInv
  <2>21. FrozenInv'
    <3>1. \A i \in 1..(ht + 1) : Bins(i)' = 0..(tables'[i].n - 1)
      BY DEF Bins
    <3>2. \A i \in 1..(ht + 1) : i < ht => \A b \in Bins(i)' : tables'[i].lock[b] = "resize"
      BY <1>1, <3>1, <2>12, <2>13 DEF Inv, FrozenInv, Bins
    <3>3. \A i \in 1..(ht + 1) : i > ht => tables'[i].new = 0 /\ \A b \in Bins(i)' : tables'[i].lock[b] = "free"
      BY <3>1, <2>10, <2>11, <2>12, <2>13
    <3>4. \A b \in Bins(ht)' : tables'[ht].lock[b] # "resize" /\ ~(b < r.pos)
      BY <2>2, <2>8, <2>14 DEF Inv, FrozenInv, At, Resizer, Bins
    <3> QED BY <3>2, <3>3, <3>4, <2>6, <2>13, <2>14, <2>17 DEF FrozenInv, At
  <2>22. TokenInv'
    <3>1. \A u \in Threads : /\ Token(th'[u]) => Token(th[u])
                             /\ Resizer(th'[u]) => u = t
      BY <2>1, <2>2, <2>6
    <3>2. \A u \in Threads : (Token(th[u])' <=> Token(th'[u])) /\ (Resizer(th[u])' <=> Resizer(th'[u]))
      BY DEF Token, Resizer
    <3> QED BY <2>14, <3>1, <3>2 DEF Inv, TokenInv
  <2>23. ResizeInv'
    <3>1. 0 \in 0..tables[ht].n
      BY StateIs
    <3>2. ResizeOK(r)
      BY <3>1, <2>8 DEF ResizeOK
    <3>3. \A u \in Threads : ResizeOK(th'[u])
      BY <3>2, <2>6 DEF Inv, ResizeInv
    <3> QED BY <3>3, <2>14 DEF ResizeInv, ResizeOK, Target
  <2>24. CopyInv'
    <3>1. ASSUME NEW k \in Nat \ {0}, NEW v
          PROVE  ~Holds(tables'[ht + 1], k, v) /\ ~(Hash(k, tables'[ht].n) < 0)
      <4>1. Hash(k, tables[ht].n) \in 0..(tables[ht].n - 1)
        BY StateIs, HashIs
      <4> QED BY <4>1, <2>10, <2>12, <2>14
    <3> QED BY <3>1, <2>6, <2>8, <2>14, <2>17 DEF CopyInv, CopyOK
  <2>25. CallInv'
    <3>1. CallOK(r)
      BY <1>1, <2>1, <2>8 DEF CallOK, Reading, Before, After
    <3>2. \A u \in Threads : CallOK(th'[u])
      BY <3>1, <2>6 DEF Inv, CallInv
    <3> QED BY <3>2, <2>14 DEF CallInv, CallOK
  <2>26. PendingInv'
    <3>1. \A u \in Threads : PendingOK(th'[u])
      BY <2>6, <2>8 DEF Inv, PendingInv, PendingOK
    <3> QED BY <3>1, <2>14 DEF PendingInv, PendingOK
  <2> QED BY <2>15, <2>16, <2>18, <2>20, <2>21, <2>22, <2>23, <2>24, <2>25, <2>26 DEF Inv
<1> QED BY <1>2, <1>3 DEF ResizeTry

\* What copying one bin does: it is locked for good, and its pairs are put
\* into the new table, none dropped if that is larger.
LEMMA CopyBinIs ==
  ASSUME Inv, NEW t \in Threads, CopyBin(t), UNCHANGED build
  PROVE  LET b == th[t].pos
             new == tables'[ht + 1]
         IN /\ b \in Bins(ht) /\ tables[ht].lock[b] = "free" /\ Len(tables) = ht + 1
            /\ tables' \in Seq(TabSet) /\ Len(tables') = ht + 1 /\ DOMAIN tables' = DOMAIN tables
            /\ \A i \in 1..(ht - 1) : tables'[i] = tables[i]
            /\ tables'[ht] = [tables[ht] EXCEPT !.lock[b] = "resize"]
            /\ new \in TablesOf(tables[ht + 1].n) /\ TabOK(new)
            /\ \E drop : new = CopyChain(tables[ht + 1], tables[ht].chain[b], drop)
            /\ new.lock = tables[ht + 1].lock /\ new.new = tables[ht + 1].new
            /\ \A k \in Nat \ {0} : \A v :
                 /\ Holds(tables[ht + 1], k, v) => Holds(new, k, v)
                 /\ Holds(new, k, v) => Holds(tables[ht + 1], k, v) \/ HasPair(tables[ht].chain[b], k, v)
                 /\ th[t].by # 0 /\ HasPair(tables[ht].chain[b], k, v) => Holds(new, k, v)
<1> DEFINE b == th[t].pos
           c == tables[ht].chain[b]
           old == tables[ht]
           tab == tables[ht + 1]
<1>1. /\ th[t].pc = "copy" /\ th[t].tbl = ht /\ th[t].new = ht + 1 /\ CopyOK(th[t])
      /\ tables \in Seq(TabSet) /\ DOMAIN tables = 1..Len(tables) /\ ht \in Nat \ {0}
      /\ b \in 0..old.n /\ old.n \in Nat \ {0} /\ build \in Builds /\ Len(tables) = ht + 1
  BY StateIs DEF CopyBin, At, ResizeOK, Inv, HtInv
<1>2. ht \in DOMAIN tables /\ ht + 1 \in DOMAIN tables /\ ht + 1 # ht /\ Tab(t) = old /\ b < old.n
  BY <1>1 DEF Tab, CopyBin
<1>3. b \in Bins(ht) /\ old.lock[b] # "resize" /\ b \in Nat
  <2>1. b \in 0..(old.n - 1) /\ ~(b < b)
    BY <1>1, <1>2
  <2> QED BY <2>1, <1>1 DEF Bins, Inv, FrozenInv, At
<1>4. /\ c \in Seq(Slots) /\ ChainOK(c, b, old.n)
      /\ old.lock \in [Bins(ht) -> {"free", "update", "resize"}] /\ old \in TablesOf(old.n)
  BY <1>1, <1>2, <1>3, ChainLength, TableIs
<1>5. old.lock[b] = "free" /\
      \E drop \in IF th[t].by = 0 /\ ~th[t].again THEN SUBSET Droppable(Tab(t).chain[b]) ELSE {{}} :
                tables' = [tables EXCEPT ![th[t].tbl].lock[b] = "resize",
                                         ![th[t].new] = CopyChain(@, Tab(t).chain[b], drop)]
  BY <1>2, <1>3, Zenon DEF CopyBin
<1>6. PICK drop : /\ tables' = [tables EXCEPT ![th[t].tbl].lock[b] = "resize",
                                              ![th[t].new] = CopyChain(@, Tab(t).chain[b], drop)]
                  /\ th[t].by # 0 => drop = {}
  BY <1>5
<1> DEFINE new == CopyChain(tab, c, drop)
<1>7. tab \in TablesOf(tab.n) /\ TabOK(tab) /\ tab.n \in Nat \ {0}
  BY <1>1, <1>2, TableIs DEF Inv, TablesInv
<1>8. ASSUME NEW k \in Nat \ {0}, Has(c, k)
      PROVE  ~Has(Chain(tab, k), k)
  <2>1. Hash(k, old.n) = b
    BY <1>4, <1>8 DEF ChainOK, Has
  <2>2. \A v : ~Holds(tab, k, v)
    BY <2>1, <1>1, <1>3 DEF CopyOK
  <2> QED BY <2>2 DEF Holds, HasPair, Has
<1>9. E \in Nat \ {0} /\ Keys \subseteq Nat \ {0}
  BY <1>1, BuildIs
<1>10. /\ new \in TablesOf(tab.n) /\ TabOK(new) /\ new.lock = tab.lock /\ new.new = tab.new
       /\ \A k \in Nat \ {0} : \A v : Holds(tab, k, v) => Holds(new, k, v)
       /\ \A k \in Nat \ {0} : \A v : Holds(new, k, v) => Holds(tab, k, v) \/ HasPair(c, k, v)
       /\ drop = {} => \A k \in Nat \ {0} : \A v : HasPair(c, k, v) => Holds(new, k, v)
  <2> DEFINE n == tab.n
             m == old.n
  <2> HIDE DEF b, c, m, n, tab
  <2>1. /\ n \in Nat \ {0} /\ tab \in TablesOf(n) /\ TabOK(tab) /\ c \in Seq(Slots) /\ ChainOK(c, b, m)
        /\ \A k \in Nat \ {0} : Has(c, k) => ~Has(Chain(tab, k), k)
    BY <1>4, <1>7, <1>8 DEF n, m
  <2>2. /\ new \in TablesOf(n) /\ TabOK(new) /\ new.lock = tab.lock /\ new.new = tab.new
        /\ \A k \in Nat \ {0} : \A v : Holds(tab, k, v) => Holds(new, k, v)
        /\ \A k \in Nat \ {0} : \A v : Holds(new, k, v) => Holds(tab, k, v) \/ HasPair(c, k, v)
        /\ drop = {} => \A k \in Nat \ {0} : \A v : HasPair(c, k, v) => Holds(new, k, v)
    BY <2>1, <1>9, CopyChainIs
  <2> QED BY <2>2 DEF n
<1> DEFINE lk == [old EXCEPT !.lock[b] = "resize"]
<1>11. /\ DOMAIN tables' = DOMAIN tables /\ tables'[ht + 1] = new /\ tables'[ht] = lk
       /\ \A i \in DOMAIN tables : i # ht /\ i # ht + 1 => tables'[i] = tables[i]
  <2>1. tables' = [tables EXCEPT ![ht].lock[b] = "resize", ![ht + 1] = CopyChain(@, c, drop)]
    BY <1>1, <1>2, <1>6
  <2> HIDE DEF c, b
  <2> QED BY <2>1, <1>2
<1>12. lk \in TabSet /\ new \in TabSet
  <2>1. lk \in TablesOf(old.n)
    BY <1>3, <1>4 DEF TablesOf, Bins
  <2> HIDE DEF lk, new, tab
  <2> QED BY <2>1, <1>1, <1>7, <1>10 DEF TabSet
<1>13. \E e : tables'[ht + 1] = CopyChain(tab, c, e)
  BY <1>11
<1> HIDE DEF new, lk
<1>14. \A i \in DOMAIN tables : tables[i] \in TabSet
  BY <1>1, TableIs
<1>15. tables' \in Seq(TabSet) /\ Len(tables') = Len(tables)
  <2>1. \A i \in DOMAIN tables : tables'[i] \in TabSet
    BY <1>11, <1>12, <1>14
  <2>2. tables' = [i \in DOMAIN tables |-> tables'[i]]
    <3> DEFINE a == Tab(t).chain[b]
    <3> HIDE DEF a, b
    <3>1. tables' = [tables EXCEPT ![th[t].tbl].lock[b] = "resize", ![th[t].new] = CopyChain(@, a, drop)]
      BY <1>6 DEF a
    <3> QED BY <3>1
  <2>3. tables' \in [1..Len(tables) -> TabSet] /\ Len(tables) \in Nat
    BY <2>1, <2>2, <1>1, LenProperties
  <2> QED BY <2>3, FcnIsSeq
<1>16. \A i \in 1..(ht - 1) : tables'[i] = tables[i]
  <2>1. \A i \in 1..(ht - 1) : i \in DOMAIN tables /\ i # ht /\ i # ht + 1
    BY <1>1
  <2> QED BY <2>1, <1>11
<1>17. DOMAIN tables' = DOMAIN tables /\ Len(tables') = ht + 1
  BY <1>1, <1>15, LenProperties
<1>18. \A k \in Nat \ {0} : \A v :
         /\ Holds(tab, k, v) => Holds(new, k, v)
         /\ Holds(new, k, v) => Holds(tab, k, v) \/ HasPair(c, k, v)
         /\ th[t].by # 0 /\ HasPair(c, k, v) => Holds(new, k, v)
  BY <1>6, <1>10
<1> QED BY <1>1, <1>3, <1>5, <1>10, <1>11, <1>15, <1>16, <1>17, <1>18, <1>13 DEF lk

LEMMA CopyBinStep ==
  ASSUME Inv, NEW t \in Threads, CopyBin(t), UNCHANGED build
  PROVE  Inv'
<1> DEFINE b == th[t].pos
           c == tables[ht].chain[b]
           old == tables[ht]
           tab == tables[ht + 1]
           new == tables'[ht + 1]
           r == [th[t] EXCEPT !.pos = b + 1]
<1>1. /\ th[t].pc = "copy" /\ th[t].tbl = ht /\ th[t].new = ht + 1 /\ CopyOK(th[t])
      /\ tables \in Seq(TabSet) /\ DOMAIN tables = 1..Len(tables) /\ ht \in Nat \ {0}
      /\ b \in 0..old.n /\ old.n \in Nat \ {0} /\ build \in Builds /\ Len(tables) = ht + 1
      /\ th[t] \in ThreadSet /\ CallOK(th[t])
  BY StateIs DEF CopyBin, At, ResizeOK, Inv, HtInv
<1>2. ht \in DOMAIN tables /\ ht + 1 \in DOMAIN tables /\ ht + 1 # ht /\ b < old.n /\ b \in Nat
  BY <1>1 DEF Tab, CopyBin
<1>3. /\ b \in Bins(ht) /\ old.lock[b] = "free"
      /\ tables' \in Seq(TabSet) /\ Len(tables') = ht + 1 /\ DOMAIN tables' = DOMAIN tables
      /\ \A i \in 1..(ht - 1) : tables'[i] = tables[i]
      /\ tables'[ht] = [old EXCEPT !.lock[b] = "resize"]
      /\ new \in TablesOf(tab.n) /\ TabOK(new) /\ new.lock = tab.lock /\ new.new = tab.new
      /\ \A k \in Nat \ {0} : \A v :
           /\ Holds(tab, k, v) => Holds(new, k, v)
           /\ Holds(new, k, v) => Holds(tab, k, v) \/ HasPair(c, k, v)
           /\ th[t].by # 0 /\ HasPair(c, k, v) => Holds(new, k, v)
  BY CopyBinIs
<1>4. /\ tables'[ht].n = old.n /\ tables'[ht].chain = old.chain /\ tables'[ht].new = old.new
      /\ tables'[ht].expands = old.expands /\ tables'[ht].lock = [old.lock EXCEPT ![b] = "resize"]
      /\ tables'[ht].lock \in [Bins(ht) -> {"free", "update", "resize"}]
  <2>1. old \in TablesOf(old.n) /\ old.lock \in [Bins(ht) -> {"free", "update", "resize"}]
    BY <1>1, <1>2, TableIs
  <2> QED BY <2>1, <1>3 DEF TablesOf
<1>5. UNCHANGED <<build, ht, resize_lock, calls>> /\ th' = [th EXCEPT ![t] = r]
      /\ E' = E /\ RatioHalve' = RatioHalve
  BY DEF CopyBin, Become, E, EntriesPerBucket, RatioHalve
<1>6. th'[t] = r /\ \A u \in Threads : u # t => th'[u] = th[u]
  BY <1>5 DEF Inv, Types
<1>7. b + 1 \in Nat /\ b + 1 \in 0..old.n
  BY <1>1, <1>2
<1>8. /\ r \in ThreadSet /\ r.pc = "copy" /\ r.new = ht + 1 /\ r.pos = b + 1 /\ r.tbl = ht
      /\ r.k = th[t].k /\ r.op = th[t].op /\ r.v = th[t].v /\ r.by = th[t].by
  <2> DEFINE x == b + 1
  <2> HIDE DEF x
  <2>1. x \in Nat
    BY <1>7 DEF x
  <2>2. r = [th[t] EXCEPT !.pos = x]
    BY DEF x
  <2> QED BY <2>1, <2>2, <1>1 DEF ThreadSet, x
<1> HIDE DEF r
<1>9. \A i \in DOMAIN tables : \/ i \in 1..(ht - 1) /\ tables'[i] = tables[i] /\ i < ht
                               \/ i = ht /\ ~(i < ht) /\ ~(i > ht)
                               \/ i = ht + 1 /\ ~(i < ht)
  BY <1>1, <1>3
<1>10. \A i \in DOMAIN tables : tables'[i].n = tables[i].n /\ tables'[i].new = tables[i].new
  BY <1>3, <1>4, <1>9 DEF TablesOf
<1>11. \A i \in DOMAIN tables : Bins(i)' = Bins(i)
  BY <1>10 DEF Bins
<1>12. Types'
  BY <1>3, <1>5, <1>8 DEF Inv, Types
<1>13. TablesInv'
  <2>1. TabOK(tables'[ht])
    <3>1. TabOK(old)
      BY <1>2 DEF Inv, TablesInv
    <3> QED BY <3>1, <1>4 DEF TabOK, WholeBuckets
  <2>2. \A i \in DOMAIN tables : TabOK(tables'[i])
    BY <2>1, <1>3, <1>9 DEF Inv, TablesInv
  <2>3. \A i \in DOMAIN tables : TabOK(tables[i])' <=> TabOK(tables'[i])
    BY <1>5 DEF TabOK, WholeBuckets
  <2> QED BY <2>2, <2>3, <1>1, <1>3, <1>5, <1>10 DEF Inv, TablesInv
<1>14. \A u \in Threads : (th'[u].pc = "copy" <=> u = t) /\ (th[u].pc = "copy" <=> u = t)
  <2>1. \A u \in Threads : th[u].pc = "copy" => u = t
    BY <1>1 DEF Inv, TokenInv, Resizer
  <2> QED BY <2>1, <1>1, <1>6, <1>8
<1>15. HtInv'
  BY <1>1, <1>2, <1>3, <1>5, <1>14 DEF HtInv, At
<1>16. \A u \in Threads : Holder(th'[u]) => u # t /\ th'[u] = th[u]
  BY <1>6, <1>8 DEF Holder
<1>17. \A u \in Threads : HeldBin(th[u])' = HeldBin(th'[u]) /\ (Holder(th[u])' <=> Holder(th'[u]))
  BY <1>4, <1>5 DEF HeldBin, Holder
<1>18. LockInv'
  <2>1. ASSUME NEW u \in Threads, Holder(th'[u])
        PROVE  /\ th'[u].tbl = ht /\ HeldBin(th'[u]) \in Bins(ht)
               /\ tables'[ht].lock[HeldBin(th'[u])] = "update"
    <3>1. th'[u] = th[u] /\ LockOK(th[u])
      BY <2>1, <1>16 DEF Inv, LockInv
    <3>2. HeldBin(th[u]) # b /\ HeldBin(th[u]) \in Bins(ht) /\ old.lock[HeldBin(th[u])] = "update" /\ th[u].tbl = ht
      BY <3>1, <2>1, <1>3 DEF LockOK
    <3>3. tables'[ht].lock[HeldBin(th[u])] = "update"
      BY <3>2, <1>4
    <3> QED BY <3>1, <3>2, <3>3
  <2>2. \A u \in Threads : LockOK(th[u])'
    BY <2>1, <1>2, <1>5, <1>11, <1>17 DEF LockOK
  <2>3. ASSUME NEW u \in Threads, NEW w \in Threads, Holder(th'[u]), Holder(th'[w]),
               HeldBin(th'[u]) = HeldBin(th'[w])
        PROVE  u = w
    BY <2>3, <1>16 DEF Inv, LockInv
  <2> QED BY <2>2, <2>3, <1>17 DEF LockInv
<1>19. FrozenInv'
  <2>1. \A i \in DOMAIN tables : i < ht => \A a \in Bins(i) : tables'[i].lock[a] = "resize"
    BY <1>9 DEF Inv, FrozenInv
  <2>2. \A i \in DOMAIN tables : i > ht => tables'[i].new = 0 /\ \A a \in Bins(i) : tables'[i].lock[a] = "free"
    BY <1>1, <1>3, <1>9, <1>10 DEF Inv, FrozenInv
  <2>3. \A a \in Bins(ht) : tables'[ht].lock[a] = "resize" <=> a < b + 1
    <3>1. ASSUME NEW a \in Bins(ht)
          PROVE  tables'[ht].lock[a] = "resize" <=> a < b + 1
      <4>1. a \in Nat /\ (old.lock[a] = "resize" <=> a < b)
        BY <1>1 DEF Inv, FrozenInv, At, Bins
      <4>2. tables'[ht].lock[a] = IF a = b THEN "resize" ELSE old.lock[a]
        <5>1. old.lock \in [Bins(ht) -> {"free", "update", "resize"}]
          BY <1>1, <1>2, TableIs
        <5> QED BY <5>1, <1>4
      <4>3. a < b + 1 <=> a < b \/ a = b
        BY <4>1, <1>2
      <4> QED BY <4>1, <4>2, <4>3
    <3> QED BY <3>1
  <2>4. \A u \in Threads : th'[u].pc = "copy" =>
          \A a \in Bins(ht) : tables'[ht].lock[a] = "resize" <=> a < th'[u].pos
    BY <2>3, <1>6, <1>8, <1>14
  <2>5. ~\A u \in Threads : th'[u].pc # "copy"
    BY <1>14
  <2>6. DOMAIN tables' = DOMAIN tables /\ ht' = ht
    BY <1>3, <1>5
  <2> HIDE DEF old, new, b
  <2> QED BY <2>1, <2>2, <2>4, <2>5, <2>6, <1>2, <1>11 DEF FrozenInv, At
<1>20. TokenInv'
  <2>1. \A u \in Threads : /\ Token(th'[u]) => Token(th[u])
                           /\ Resizer(th'[u]) => Resizer(th[u])
    BY <1>1, <1>6, <1>8 DEF Token, Resizer
  <2>2. \A u \in Threads : (Token(th[u])' <=> Token(th'[u])) /\ (Resizer(th[u])' <=> Resizer(th'[u]))
    BY DEF Token, Resizer
  <2> QED BY <1>4, <1>5, <2>1, <2>2 DEF Inv, TokenInv
<1>21. ResizeInv'
  <2>1. ResizeOK(r)
    BY <1>7, <1>8 DEF ResizeOK
  <2>2. \A u \in Threads : ResizeOK(th'[u])
    BY <2>1, <1>6 DEF Inv, ResizeInv
  <2> QED BY <2>2, <1>4, <1>5 DEF ResizeInv, ResizeOK, Target
<1>22. CopyInv'
  <2>1. ASSUME NEW k \in Nat \ {0}, NEW v
        PROVE  /\ Holds(new, k, v) => Holds(old, k, v) /\ Hash(k, old.n) < b + 1
               /\ r.by # 0 /\ Holds(old, k, v) /\ Hash(k, old.n) < b + 1 => Holds(new, k, v)
    <3>1. Hash(k, old.n) \in 0..(old.n - 1)
      BY <1>1, HashIs
    <3>2. HasPair(c, k, v) => Hash(k, old.n) = b
      <4>1. ChainOK(c, b, old.n)
        BY <1>3, ChainLength
      <4> HIDE DEF c, b, old
      <4> QED BY <4>1 DEF ChainOK, HasPair
    <3>3. Hash(k, old.n) = b => (Holds(old, k, v) <=> HasPair(c, k, v))
      BY DEF Holds, Chain
    <3>4. Hash(k, old.n) < b + 1 <=> Hash(k, old.n) < b \/ Hash(k, old.n) = b
      BY <3>1, <1>2
    <3>5. /\ Holds(tab, k, v) => Holds(old, k, v) /\ Hash(k, old.n) < b
          /\ th[t].by # 0 /\ Holds(old, k, v) /\ Hash(k, old.n) < b => Holds(tab, k, v)
      BY <1>1 DEF CopyOK
    <3> HIDE DEF c, b, old, tab, new
    <3> QED BY <3>2, <3>3, <3>4, <3>5, <1>3, <1>8
  <2>2. \A k : \A v : Holds(tables'[ht], k, v) <=> Holds(old, k, v)
    BY <1>4 DEF Holds, Chain
  <2> QED BY <2>1, <2>2, <1>4, <1>5, <1>6, <1>8, <1>14 DEF CopyInv, CopyOK
<1>23. CallInv'
  <2>1. CallOK(r)
    BY <1>1, <1>8 DEF CallOK, Reading, Before, After
  <2>2. \A u \in Threads : CallOK(th'[u])
    BY <2>1, <1>6 DEF Inv, CallInv
  <2> QED BY <2>2, <1>5 DEF CallInv, CallOK
<1>24. PendingInv'
  <2>1. \A u \in Threads : PendingOK(th'[u])
    BY <1>6, <1>8 DEF Inv, PendingInv, PendingOK
  <2>2. \A k : Chain(tables'[ht], k) = Chain(old, k)
    BY <1>4 DEF Chain
  <2> QED BY <2>1, <2>2, <1>5 DEF PendingInv, PendingOK
<1> QED BY <1>12, <1>13, <1>15, <1>18, <1>19, <1>20, <1>21, <1>22, <1>23, <1>24 DEF Inv

\* The new table becomes the current one: all bins of the old one are locked
\* for good, so nobody holds a lock, and nobody else is on the way to a resize.
LEMMA SwapStep ==
  ASSUME Inv, NEW t \in Threads, Swap(t), UNCHANGED build
  PROVE  Inv'
<1> DEFINE new == tables[ht + 1]
           again == new.expands >= Threshold(new.n)
           r == [th[t] EXCEPT !.pc = "publish", !.again = again]
<1>1. /\ th[t].pc = "copy" /\ th[t].tbl = ht /\ th[t].new = ht + 1
      /\ tables \in Seq(TabSet) /\ DOMAIN tables = 1..Len(tables) /\ ht \in Nat \ {0}
      /\ th[t].pos = tables[ht].n /\ build \in Builds /\ Len(tables) = ht + 1
      /\ th[t] \in ThreadSet /\ CallOK(th[t]) /\ tables[ht].n \in Nat
  BY StateIs DEF Swap, At, ResizeOK, Inv, HtInv, Tab
<1>2. ht \in DOMAIN tables /\ ht + 1 \in DOMAIN tables /\ ht + 1 # ht /\ ht + 1 \in Nat
      /\ \A i \in DOMAIN tables : ~(i > ht + 1) /\ (i < ht + 1 => i < ht \/ i = ht)
  BY <1>1
<1>3. UNCHANGED <<build, tables, resize_lock, calls>> /\ ht' = ht + 1 /\ th' = [th EXCEPT ![t] = r]
      /\ E' = E /\ RatioHalve' = RatioHalve
  BY <1>1 DEF Swap, Become, E, EntriesPerBucket, RatioHalve
<1>4. th'[t] = r /\ \A u \in Threads : u # t => th'[u] = th[u]
  BY <1>3 DEF Inv, Types
<1>5. /\ r \in ThreadSet /\ r.pc = "publish" /\ r.new = ht + 1 /\ r.tbl = ht /\ r.again = again
      /\ r.k = th[t].k /\ r.op = th[t].op /\ r.v = th[t].v
  <2>1. again \in BOOLEAN
    OBVIOUS
  <2> HIDE DEF again
  <2> QED BY <2>1, <1>1 DEF ThreadSet, Pcs
<1> HIDE DEF r
<1>6. \A u \in Threads : u # t => ~Resizer(th[u]) /\ ~Token(th[u])
  BY <1>1 DEF Inv, TokenInv, Resizer, Token
<1>7. \A b \in Bins(ht) : tables[ht].lock[b] = "resize"
  <2>1. \A b \in Bins(ht) : b < th[t].pos
    BY <1>1 DEF Bins
  <2> QED BY <2>1, <1>1 DEF Inv, FrozenInv, At
<1>8. \A u \in Threads : ~Holder(th'[u])
  <2>1. \A u \in Threads : ~Holder(th[u])
    BY <1>7 DEF Inv, LockInv, LockOK
  <2> QED BY <2>1, <1>4, <1>5 DEF Holder
<1>9. \A u \in Threads : th'[u].pc # "copy"
  BY <1>4, <1>5, <1>6 DEF Resizer
<1>10. Types'
  BY <1>2, <1>3, <1>5 DEF Inv, Types
<1>11. TablesInv'
  BY <1>3 DEF Inv, TablesInv, TabOK, WholeBuckets
<1>12. HtInv'
  BY <1>1, <1>2, <1>3, <1>9 DEF HtInv, At
<1>13. LockInv'
  BY <1>8 DEF LockInv, LockOK, Holder
<1>14. FrozenInv'
  <2>1. \A i \in DOMAIN tables : Bins(i)' = Bins(i)
    BY <1>3 DEF Bins
  <2>2. \A i \in DOMAIN tables : i < ht + 1 => \A b \in Bins(i) : tables[i].lock[b] = "resize"
    BY <1>2, <1>7 DEF Inv, FrozenInv
  <2>3. \A b \in Bins(ht + 1) : tables[ht + 1].lock[b] # "resize"
    <3>1. ht + 1 > ht
      BY <1>1
    <3> QED BY <3>1, <1>2 DEF Inv, FrozenInv
  <2>4. Bins(ht)' = Bins(ht + 1)
    BY <1>3 DEF Bins
  <2>5. tables' = tables /\ ht' = ht + 1
    BY <1>3
  <2>6. \A i \in DOMAIN tables : ~(i > ht + 1)
    BY <1>2
  <2> HIDE DEF new, again
  <2> QED BY <2>1, <2>2, <2>3, <2>4, <2>5, <2>6, <1>9 DEF FrozenInv, At
<1>15. TokenInv'
  <2>1. \A u \in Threads : (Token(th'[u]) => u = t /\ again) /\ (Resizer(th'[u]) => u = t)
    BY <1>4, <1>5, <1>6 DEF Token
  <2>2. \A u \in Threads : (Token(th[u])' <=> Token(th'[u])) /\ (Resizer(th[u])' <=> Resizer(th'[u]))
    BY DEF Token, Resizer
  <2>3. resize_lock
    BY <1>1 DEF Inv, TokenInv, Resizer
  <2> QED BY <1>3, <2>1, <2>2, <2>3 DEF TokenInv, Threshold
<1>16. ResizeInv'
  <2>1. \A u \in Threads : u # t => th[u].pc \notin {"resize", "resize_try", "copy", "publish"}
    BY <1>6 DEF Token, Resizer
  <2>2. ht < ht + 1
    BY <1>1
  <2> QED BY <2>1, <2>2, <1>3, <1>4, <1>5 DEF ResizeInv, ResizeOK
<1>17. CopyInv'
  BY <1>9 DEF CopyInv, CopyOK
<1>18. CallInv'
  <2>1. CallOK(r)
    BY <1>1, <1>5 DEF CallOK, Reading, Before, After
  <2>2. \A u \in Threads : CallOK(th'[u])
    BY <2>1, <1>4 DEF Inv, CallInv
  <2>3. 1..ht \subseteq 1..(ht + 1)
    BY <1>1
  <2> QED BY <2>2, <2>3, <1>3 DEF CallInv, CallOK
<1>19. PendingInv'
  BY <1>8 DEF PendingInv, PendingOK, Holder
<1> QED BY <1>10, <1>11, <1>12, <1>13, <1>14, <1>15, <1>16, <1>17, <1>18, <1>19 DEF Inv

\* table_new of the old table is set, and resize_lock released.
LEMMA PublishStep ==
  ASSUME Inv, NEW t \in Threads, Publish(t), UNCHANGED build
  PROVE  Inv'
<1> DEFINE i0 == th[t].tbl
           tab == [tables[i0] EXCEPT !.new = ht]
           pc == IF th[t].again THEN "status" ELSE "done"
           r == [th[t] EXCEPT !.pc = pc]
<1>1. /\ th[t].pc = "publish" /\ i0 < ht /\ th[t].new = ht /\ i0 \in 1..ht
      /\ tables \in Seq(TabSet) /\ DOMAIN tables = 1..Len(tables) /\ ht \in Nat \ {0}
      /\ build \in Builds /\ ht \in DOMAIN tables /\ Len(tables) \in Nat
      /\ th[t] \in ThreadSet /\ CallOK(th[t])
  BY StateIs DEF Publish, At, ResizeOK, CallOK
<1>2. i0 \in DOMAIN tables /\ i0 # ht /\ i0 \in 1..Len(tables) /\ ~(i0 > ht)
  BY <1>1
<1>3. UNCHANGED <<build, ht, calls>> /\ th' = [th EXCEPT ![t] = r] /\ resize_lock' = FALSE
      /\ E' = E /\ RatioHalve' = RatioHalve
  BY DEF Publish, Goto, Become, E, EntriesPerBucket, RatioHalve
<1>4. tables' = [tables EXCEPT ![i0] = tab]
  BY <1>1 DEF Publish
<1>5. th'[t] = r /\ \A u \in Threads : u # t => th'[u] = th[u]
  BY <1>3 DEF Inv, Types
<1>6. /\ r \in ThreadSet /\ r.pc = pc /\ r.tbl = i0
      /\ r.k = th[t].k /\ r.op = th[t].op /\ r.v = th[t].v
      /\ pc \in {"status", "done"} /\ (pc = "status" => th[t].again)
  <2>1. pc \in Pcs /\ pc \in {"status", "done"} /\ (pc = "status" => th[t].again)
    BY DEF Pcs
  <2> HIDE DEF pc
  <2> QED BY <2>1, <1>1 DEF ThreadSet
<1> HIDE DEF r, pc
<1>7. /\ tab \in TabSet /\ tab.n = tables[i0].n /\ tab.chain = tables[i0].chain /\ tab.lock = tables[i0].lock
      /\ tab.expands = tables[i0].expands /\ tab.new = ht
  <2>1. tables[i0] \in TablesOf(tables[i0].n) /\ tables[i0].n \in Nat \ {0}
    BY <1>1, <1>2, TableIs
  <2>2. tab \in TablesOf(tables[i0].n)
    BY <2>1, <1>1 DEF TablesOf
  <2> QED BY <2>1, <2>2 DEF TabSet, TablesOf
<1> HIDE DEF tab
<1>8. /\ tables' \in Seq(TabSet) /\ Len(tables') = Len(tables)
      /\ \A i \in 1..Len(tables) : tables'[i] = IF i = i0 THEN tab ELSE tables[i]
  BY <1>1, <1>2, <1>4, <1>7, ExceptSeq
<1>9. DOMAIN tables' = DOMAIN tables
  BY <1>1, <1>8, LenProperties
<1>10. /\ \A i \in DOMAIN tables :
            /\ tables'[i].n = tables[i].n /\ tables'[i].chain = tables[i].chain
            /\ tables'[i].lock = tables[i].lock /\ tables'[i].expands = tables[i].expands
            /\ i # i0 => tables'[i] = tables[i]
       /\ tables'[i0].new = ht /\ tables'[ht] = tables[ht] /\ ht' = ht
  BY <1>1, <1>2, <1>3, <1>7, <1>8
<1> HIDE DEF i0
<1>11. Types'
  BY <1>3, <1>6, <1>8 DEF Inv, Types
<1>12. TablesInv'
  <2>1. ASSUME NEW i \in DOMAIN tables
        PROVE  TabOK(tables'[i])
    <3>1. TabOK(tables[i])
      BY DEF Inv, TablesInv
    <3>2. /\ tables'[i].n = tables[i].n /\ tables'[i].chain = tables[i].chain
          /\ tables'[i].expands = tables[i].expands
      BY <1>10
    <3> QED BY <3>1, <3>2 DEF TabOK, WholeBuckets
  <2>2. \A i \in DOMAIN tables : TabOK(tables[i])' <=> TabOK(tables'[i])
    BY <1>3 DEF TabOK, WholeBuckets
  <2>3. \A i \in DOMAIN tables : tables'[i].new \in 0..Len(tables)
    <3>1. ht \in 0..Len(tables)
      BY <1>1
    <3> QED BY <3>1, <1>10 DEF Inv, TablesInv
  <2> QED BY <2>1, <2>2, <2>3, <1>3, <1>8, <1>9, <1>10 DEF Inv, TablesInv
<1>13. \A u \in Threads : th'[u].pc = "copy" <=> th[u].pc = "copy"
  BY <1>1, <1>5, <1>6
<1>14. HtInv'
  BY <1>1, <1>8, <1>9, <1>10, <1>13 DEF Inv, HtInv, At
<1>15. \A u \in Threads : Holder(th'[u]) => u # t /\ th'[u] = th[u]
  BY <1>5, <1>6 DEF Holder
<1>16. LockInv'
  <2>1. \A u \in Threads : HeldBin(th[u])' = HeldBin(th'[u]) /\ (Holder(th[u])' <=> Holder(th'[u]))
    BY <1>10 DEF HeldBin, Holder
  <2>2. \A u \in Threads : LockOK(th[u])' <=> LockOK(th'[u])
    BY <1>10, <2>1 DEF LockOK, Bins
  <2>3. \A u \in Threads : LockOK(th'[u])
    BY <1>15 DEF Inv, LockInv, LockOK
  <2> QED BY <2>1, <2>2, <2>3, <1>15 DEF Inv, LockInv
<1>17. FrozenInv'
  <2>1. \A i \in DOMAIN tables : Bins(i)' = Bins(i)
    BY <1>10 DEF Bins
  <2>2. \A i \in DOMAIN tables : i > ht => i # i0
    BY <1>2
  <2>3. \A u \in Threads : th'[u].pc = "copy" => th'[u] = th[u]
    BY <1>5, <1>6
  <2> QED BY <2>1, <2>2, <2>3, <1>1, <1>9, <1>10, <1>13 DEF Inv, FrozenInv, At
<1>18. TokenInv'
  <2>1. \A u \in Threads : Token(th'[u]) => Token(th[u])
    BY <1>1, <1>5, <1>6 DEF Token
  <2>2. \A u \in Threads : ~Resizer(th'[u])
    BY <1>1, <1>5, <1>6 DEF Inv, TokenInv, Resizer
  <2>3. \A u \in Threads : (Token(th[u])' <=> Token(th'[u])) /\ (Resizer(th[u])' <=> Resizer(th'[u]))
    BY DEF Token, Resizer
  <2> QED BY <1>10, <2>1, <2>2, <2>3 DEF Inv, TokenInv
<1>19. ResizeInv'
  <2>1. ResizeOK(r)
    BY <1>6 DEF ResizeOK
  <2>2. \A u \in Threads : ResizeOK(th'[u])
    BY <2>1, <1>5 DEF Inv, ResizeInv
  <2> QED BY <2>2, <1>3, <1>10 DEF ResizeInv, ResizeOK, Target
<1>20. CopyInv'
  <2>1. \A u \in Threads : CopyOK(th'[u])
    BY <1>5, <1>6 DEF Inv, CopyInv, CopyOK
  <2>2. ASSUME NEW u \in Threads, th'[u].pc = "copy"
        PROVE  tables'[ht + 1] = tables[ht + 1]
    <3>1. ht + 1 \in DOMAIN tables /\ ht + 1 # i0
      BY <2>2, <1>1, <1>2, <1>13 DEF Inv, HtInv, At
    <3> QED BY <3>1, <1>10
  <2> QED BY <2>1, <2>2, <1>10 DEF CopyInv, CopyOK
<1>21. CallInv'
  <2>1. CallOK(r)
    BY <1>1, <1>6 DEF CallOK, Reading, Before, After, i0
  <2>2. \A u \in Threads : CallOK(th'[u])
    BY <2>1, <1>5 DEF Inv, CallInv
  <2> QED BY <2>2, <1>10 DEF CallInv, CallOK
<1>22. PendingInv'
  <2>1. \A u \in Threads : PendingOK(th'[u])
    BY <1>5, <1>6 DEF Inv, PendingInv, PendingOK
  <2> QED BY <2>1, <1>10 DEF PendingInv, PendingOK
<1> QED BY <1>11, <1>12, <1>14, <1>16, <1>17, <1>18, <1>19, <1>20, <1>21, <1>22 DEF Inv

-----------------------------------------------------------------------------
(* The invariant holds. *)

LEMMA PreloadedIs ==
  ASSUME build \in Builds
  PROVE  /\ Preloaded \in TablesOf(InitBuckets) /\ TabOK(Preloaded) /\ Preloaded.new = 0
         /\ \A b \in 0..(InitBuckets - 1) : Preloaded.lock[b] = "free"
<1> DEFINE new == NewTable(InitBuckets)
           Val(k) == IF FreshValues THEN NumThreads * MaxCalls + k ELSE k
           c == [i \in DOMAIN Preload |-> [key |-> Preload[i], val |-> Val(Preload[i])]]
<1>1. E \in Nat \ {0} /\ InitBuckets \in Nat \ {0} /\ Keys \subseteq Nat \ {0}
  BY BuildIs
<1>2. Preload \in Seq(Keys) /\ \A i, j \in DOMAIN Preload : Preload[i] = Preload[j] => i = j
  BY ClhtAssumption DEF Preload
<1>3. Len(Preload) \in Nat /\ DOMAIN Preload = 1..Len(Preload) /\ \A i \in DOMAIN Preload : Preload[i] \in Keys
  BY <1>2, LenProperties, ElementOfSeq
<1>4. \A k \in Keys : Val(k) \in Nat \ {0}
  <2>1. NumThreads * MaxCalls \in Nat
    BY ClhtAssumption
  <2> QED BY <2>1, <1>1
<1> HIDE DEF Val
<1>5. \A i \in DOMAIN Preload : c[i] \in Slots /\ c[i].key = Preload[i] /\ c[i].val # 0
  BY <1>1, <1>3, <1>4 DEF Slots
<1>6. c \in Seq(Slots) /\ DOMAIN c = DOMAIN Preload
  <2>1. c \in [1..Len(Preload) -> Slots]
    BY <1>3, <1>5
  <2>2. DOMAIN c = DOMAIN Preload
    OBVIOUS
  <2> HIDE DEF c
  <2> QED BY <2>1, <2>2, <1>3, FcnIsSeq
<1>7. Preloaded = PutAll(new, c)
  BY DEF Preloaded, Val
<1> HIDE DEF c
<1>8. /\ new \in TablesOf(InitBuckets) /\ TabOK(new) /\ new.new = 0
      /\ (\A b \in 0..(InitBuckets - 1) : new.lock[b] = "free")
      /\ \A k \in Nat \ {0} : ~Has(Chain(new, k), k)
  BY <1>1, NewTableIs
<1> HIDE DEF new
<1>9. \A i \in DOMAIN c : c[i].key # 0 =>
        /\ c[i].key \in Keys /\ c[i].val # 0 /\ ~Has(Chain(new, c[i].key), c[i].key)
        /\ \A j \in DOMAIN c : c[j].key = c[i].key => j = i
  <2>1. \A i \in DOMAIN c : c[i].key \in Keys /\ c[i].key \in Nat \ {0} /\ c[i].val # 0
    BY <1>1, <1>3, <1>5, <1>6
  <2>2. \A i, j \in DOMAIN c : c[j].key = c[i].key => j = i
    BY <1>2, <1>5, <1>6
  <2> QED BY <2>1, <2>2, <1>8
<1> DEFINE old == PutAll(new, c)
<1>10. old \in TablesOf(InitBuckets) /\ TabOK(old) /\ old.lock = new.lock /\ old.new = new.new
  BY <1>1, <1>6, <1>8, <1>9, PutAllIs
<1> QED BY <1>7, <1>8, <1>10

LEMMA InitInv == Init => Inv
<1> SUFFICES ASSUME Init PROVE Inv
  OBVIOUS
<1>1. /\ build \in Builds /\ tables = <<Preloaded>> /\ ht = 1 /\ resize_lock = FALSE
      /\ \A t \in Threads : th[t] = Idle
      /\ th = [t \in Threads |-> Idle] /\ calls = [t \in Threads |-> 0]
  BY DEF Init
<1>2. /\ Preloaded \in TablesOf(InitBuckets) /\ TabOK(Preloaded) /\ Preloaded.new = 0
      /\ \A b \in 0..(InitBuckets - 1) : Preloaded.lock[b] = "free"
  BY <1>1, PreloadedIs
<1>3. Preloaded.n = InitBuckets /\ InitBuckets \in Nat \ {0} /\ InitBuckets \in Sizes(build)
  BY <1>1, <1>2, BuildIs, SizesIs DEF TablesOf, InitBuckets
<1>4. Preloaded \in TabSet
  BY <1>2, <1>3 DEF TabSet
<1>5. tables \in Seq(TabSet) /\ Len(tables) = 1 /\ DOMAIN tables = {1} /\ tables[1] = Preloaded
  <2> DEFINE p == Preloaded
  <2> HIDE DEF p
  <2>1. <<p>> \in Seq(TabSet) /\ Len(<<p>>) = 1 /\ DOMAIN <<p>> = {1} /\ <<p>>[1] = p
    BY <1>4 DEF p
  <2> QED BY <2>1, <1>1 DEF p
<1>6. /\ Idle \in ThreadSet /\ Idle.pc = "idle" /\ Idle.op = "none"
  BY DEF Idle, ThreadSet, Pcs
<1>7. Types
  <2>1. th \in [Threads -> ThreadSet]
    BY <1>1, <1>6
  <2>2. 0 \in 0..MaxCalls
    BY ClhtAssumption
  <2>3. calls \in [Threads -> 0..MaxCalls]
    BY <1>1, <2>2
  <2>4. ht \in Nat /\ resize_lock \in BOOLEAN
    BY <1>1
  <2> QED BY <2>1, <2>3, <2>4, <1>1, <1>5 DEF Types
<1>8. TablesInv
  BY <1>2, <1>3, <1>5 DEF TablesInv
<1>9. HtInv
  BY <1>1, <1>5, <1>6 DEF HtInv, At
<1>10. LockInv
  BY <1>1, <1>6 DEF LockInv, LockOK, Holder
<1>11. FrozenInv
  <2>1. \A i \in {1} : ~(i < 1) /\ ~(i > 1)
    OBVIOUS
  <2> QED BY <2>1, <1>1, <1>2, <1>3, <1>5, <1>6 DEF FrozenInv, At, Bins
<1>12. TokenInv
  BY <1>1, <1>6 DEF TokenInv, Token, Resizer
<1>13. ResizeInv
  BY <1>1, <1>6 DEF ResizeInv, ResizeOK
<1>14. CopyInv
  BY <1>1, <1>6 DEF CopyInv, CopyOK
<1>15. CallInv
  BY <1>1, <1>6 DEF CallInv, CallOK, Reading, Before, After
<1>16. PendingInv
  BY <1>1, <1>6 DEF PendingInv, PendingOK
<1> QED BY <1>7, <1>8, <1>9, <1>10, <1>11, <1>12, <1>13, <1>14, <1>15, <1>16 DEF Inv

LEMMA NextInv ==
  ASSUME SmallIsNotSparse, Inv, [Next]_vars
  PROVE  Inv'
<1>1. CASE UNCHANGED vars
  <2>1. /\ build' = build /\ tables' = tables /\ ht' = ht /\ resize_lock' = resize_lock /\ th' = th
        /\ calls' = calls /\ E' = E /\ RatioHalve' = RatioHalve
    BY <1>1 DEF vars, E, EntriesPerBucket, RatioHalve
  <2>2. Types' /\ TablesInv' /\ HtInv' /\ TokenInv' /\ CallInv'
    BY <2>1 DEF Inv, Types, TablesInv, TabOK, WholeBuckets, HtInv, At, TokenInv, CallInv, CallOK
  <2>3. LockInv' /\ FrozenInv'
    BY <2>1 DEF Inv, LockInv, LockOK, HeldBin, Bins, FrozenInv, At
  <2>4. ResizeInv' /\ CopyInv' /\ PendingInv'
    BY <2>1 DEF Inv, ResizeInv, ResizeOK, Target, CopyInv, CopyOK, PendingInv, PendingOK
  <2> QED BY <2>2, <2>3, <2>4 DEF Inv
<1>2. ASSUME NEW t \in Threads, Step(t), UNCHANGED build
      PROVE  Inv'
  <2>1. CASE GetVal(t) \/ GetKey(t) \/ GetAgain(t) \/ Exists(t)
    BY <1>2, <2>1, ReadStep
  <2>2. CASE LockAcq(t)
    BY <1>2, <2>2, LockAcqStep
  <2>3. CASE WaitForNew(t)
    BY <1>2, <2>3, WaitStep
  <2>4. CASE Update(t)
    BY <1>2, <2>4, UpdateStep
  <2>5. CASE Remove(t)
    BY <1>2, <2>5, RemoveStep
  <2>6. CASE Put(t)
    BY <1>2, <2>6, PutStep
  <2>7. CASE PutKey(t)
    BY <1>2, <2>7, PutKeyStep
  <2>8. CASE Status(t)
    BY <1>2, <2>8, StatusStep
  <2>9. CASE ResizeRead(t)
    BY <1>2, <2>9, ResizeReadStep
  <2>10. CASE ResizeTry(t)
    BY <1>2, <2>10, ResizeTryStep
  <2>11. CASE CopyBin(t)
    BY <1>2, <2>11, CopyBinStep
  <2>12. CASE Swap(t)
    BY <1>2, <2>12, SwapStep
  <2>13. CASE Publish(t)
    BY <1>2, <2>13, PublishStep
  <2>14. CASE EvictLock(t)
    BY <1>2, <2>14, EvictLockStep
  <2>15. CASE EvictKeys(t)
    BY <1>2, <2>15, EvictKeysStep
  <2>16. CASE Return(t)
    BY <1>2, <2>16, ReturnStep
  <2> QED BY <1>2, <2>1, <2>2, <2>3, <2>4, <2>5, <2>6, <2>7, <2>8, <2>9, <2>10, <2>11, <2>12, <2>13,
            <2>14, <2>15, <2>16 DEF Step
<1> QED BY <1>1, <1>2, CallStep DEF Next

LEMMA InvHolds == ASSUME SmallIsNotSparse PROVE Spec => []Inv
<1>1. Inv /\ [Next]_vars => Inv'
  BY NextInv
<1> QED BY <1>1, InitInv, PTL DEF Spec

-----------------------------------------------------------------------------
(* Theorems. *)

\* The numbers of buckets for which the mask of clht_hash is a remainder.
PowersOfTwo == {n \in Nat : \A S \in SUBSET Nat : 1 \in S /\ (\A m \in S : 2 * m \in S) => n \in S}

\* The hypothesis of the theorems holds for what clht_lb_res.h sets.
LEMMA CodeIsNotSparse ==
  ASSUME \A bd \in Builds : /\ bd.InitBuckets \in PowersOfTwo /\ bd.EntriesPerBucket = 3
                            /\ bd.PercFullHalve = 5 /\ bd.RatioHalve = 8
  PROVE  SmallIsNotSparse
<1> DEFINE P == PowersOfTwo
           S == {n \in Nat : n \in {1, 2, 4} \/ \E m \in P : n = 8 * m}
<1>1. P \in SUBSET Nat /\ 1 \in P /\ 0 \notin P
  <2>1. 1 \in Nat \ {0} /\ Nat \ {0} \in SUBSET Nat /\ \A m \in Nat \ {0} : 2 * m \in Nat \ {0}
    OBVIOUS
  <2>2. P \subseteq Nat \ {0}
    BY <2>1 DEF PowersOfTwo
  <2> QED BY <2>2 DEF PowersOfTwo
<1>2. \A m \in P : 2 * m \in P
  <2>1. ASSUME NEW m \in P, NEW Q \in SUBSET Nat, 1 \in Q, \A x \in Q : 2 * x \in Q
        PROVE  2 * m \in Q
    BY <2>1 DEF PowersOfTwo
  <2>2. \A m \in P : 2 * m \in Nat
    BY <1>1
  <2> QED BY <2>1, <2>2 DEF PowersOfTwo
<1>3. P \subseteq S
  <2>1. S \in SUBSET Nat /\ 1 \in S
    OBVIOUS
  <2>2. ASSUME NEW n \in S
        PROVE  2 * n \in S
    <3> HIDE DEF P
    <3>1. CASE n \in {1, 2}
      BY <3>1
    <3>2. CASE n = 4
      <4>1. 2 * n = 8 * 1 /\ 2 * n \in Nat
        BY <3>2
      <4> QED BY <4>1, <1>1
    <3>3. CASE \E m \in P : n = 8 * m
      <4>1. PICK m \in P : n = 8 * m
        BY <3>3
      <4>2. 2 * n = 8 * (2 * m) /\ 2 * m \in P /\ 2 * n \in Nat
        BY <4>1, <1>1, <1>2
      <4> QED BY <4>2
    <3> QED BY <3>1, <3>2, <3>3
  <2> HIDE DEF S
  <2> QED BY <2>1, <2>2 DEF PowersOfTwo
<1> HIDE DEF P
<1>4. ASSUME NEW n \in P, n >= 8
      PROVE  n \div 8 \in P
  <2>1. PICK m \in P : n = 8 * m
    BY <1>1, <1>3, <1>4
  <2>2. n \div 8 = m
    BY <2>1, <1>1
  <2> QED BY <2>2
<1>5. ASSUME NEW bd \in Builds, NEW n \in Sizes(bd), n < bd.RatioHalve
      PROVE  bd.PercFullHalve * n * bd.EntriesPerBucket <= 100
  <2>1. Closed(bd, P)
    BY <1>2, <1>4 DEF Closed, P
  <2>2. n \in P
    BY <2>1, <1>1 DEF Sizes
  <2>3. n \in {1, 2, 4}
    <3>1. n \in S /\ n < 8 /\ n \in Nat
      BY <2>2, <1>1, <1>3, <1>5
    <3>2. \A m \in P : m \in Nat /\ m # 0
      BY <1>1
    <3>3. ~\E m \in P : n = 8 * m
      BY <3>1, <3>2
    <3> QED BY <3>1, <3>3
  <2> QED BY <2>3
<1> QED BY <1>5 DEF SmallIsNotSparse

LEMMA Multiple ==
  ASSUME NEW q \in Nat, NEW e \in Nat \ {0}
  PROVE  (q * e) % e = 0
<1> DEFINE d == (q * e) \div e
           m == (q * e) % e
<1>1. q * e \in Nat
  OBVIOUS
<1>2. q * e = (e * d) + m /\ m \in 0..(e - 1) /\ d \in Int
  <2> DEFINE p == q * e
  <2>1. p \in Nat
    OBVIOUS
  <2> HIDE DEF p
  <2>2. p = (e * (p \div e)) + (p % e) /\ p % e \in 0..(e - 1) /\ p \div e \in Int
    BY <2>1
  <2> QED BY <2>2 DEF p
<1> HIDE DEF d, m
<1>3. m = e * (q - d)
  BY <1>2
<1>4. CASE q - d >= 1
  <2>1. e * (q - d) >= e
    BY <1>2, <1>4
  <2> QED BY <2>1, <1>2, <1>3
<1>5. CASE q - d <= -1
  <2>1. e * (q - d) <= -e
    BY <1>2, <1>5
  <2> QED BY <2>1, <1>2, <1>3
<1>6. CASE q - d = 0
  BY <1>3, <1>6 DEF m
<1> QED BY <1>2, <1>4, <1>5, <1>6

\* The tables are well formed, whatever the threads do: each has a bin, counts
\* its extra buckets, and has each key in the bin that clht_hash names and in
\* one slot, while puts, updates, removes, resizes and eliminations go on.
THEOREM TablesAreWellFormed == ASSUME SmallIsNotSparse PROVE Spec => []WellFormed
<1>1. ASSUME Inv PROVE TypeOK
  <2>1. ht \in DOMAIN tables /\ resize_lock \in BOOLEAN /\ tables \in Seq(TabSet) /\ E \in Nat \ {0}
    BY <1>1, BuildIs DEF Inv, Types, HtInv
  <2>2. ASSUME NEW i \in DOMAIN tables
        PROVE  LET tab == tables[i] IN
               /\ tab.n \in Nat \ {0} /\ tab.new \in 0..Len(tables)
               /\ DOMAIN tab.chain = 0..(tab.n - 1)
               /\ tab.lock \in [0..(tab.n - 1) -> {"free", "update", "resize"}]
               /\ \A b \in 0..(tab.n - 1) :
                    Len(tab.chain[b]) % E = 0 /\ Len(tab.chain[b]) <= (tab.expands + 1) * E
    <3> DEFINE tab == tables[i]
    <3>1. /\ tab.n \in Nat \ {0} /\ tab.chain \in [Bins(i) -> Seq(Slots)] /\ tab.expands \in Nat
          /\ tab.lock \in [Bins(i) -> {"free", "update", "resize"}] /\ Bins(i) = 0..(tab.n - 1)
      BY <2>1, TableIs DEF Bins
    <3>2. tab.new \in 0..Len(tables) /\ WholeBuckets(tab)
      BY <1>1 DEF Inv, TablesInv, TabOK
    <3>3. ASSUME NEW b \in 0..(tab.n - 1)
          PROVE  Len(tab.chain[b]) % E = 0 /\ Len(tab.chain[b]) <= (tab.expands + 1) * E
      <4>1. PICK q \in 1..(tab.expands + 1) : Len(tab.chain[b]) = q * E
        BY <3>2 DEF WholeBuckets
      <4>2. (q * E) % E = 0
        BY <2>1, <3>1, Multiple
      <4>3. q * E <= (tab.expands + 1) * E
        BY <2>1, <3>1
      <4> QED BY <4>1, <4>2, <4>3
    <3> QED BY <3>1, <3>2, <3>3
  <2>3. ASSUME NEW t \in Threads
        PROVE  th[t].pc \in Pcs /\ th[t].k \in Keys \cup {0} /\ calls[t] \in 0..MaxCalls
    BY <1>1 DEF Inv, Types, ThreadSet
  <2> QED BY <2>1, <2>2, <2>3 DEF TypeOK
<1>2. Inv => OneSlotPerKey
  BY DEF Inv, TablesInv, TabOK, ChainOK, OneSlotPerKey
<1> QED BY <1>1, <1>2, InvHolds, PTL DEF WellFormed

\* What Lookup finds in a table.
LEMMA LookupOf ==
  ASSUME NEW n \in Nat \ {0}, NEW tab \in TablesOf(n), TabOK(tab), NEW k \in Nat \ {0}
  PROVE  /\ \A v : Holds(tab, k, v) => Lookup(tab, k) = v /\ v # 0
         /\ Lookup(tab, k) # 0 => Holds(tab, k, Lookup(tab, k))
<1> DEFINE b == Hash(k, n)
           c == Chain(tab, k)
<1>1. tab.n = n /\ b \in 0..(n - 1) /\ c = tab.chain[b] /\ c \in Seq(Slots)
  BY HashIs DEF TablesOf, Chain
<1>2. ChainOK(c, b, n)
  BY <1>1 DEF TabOK
<1> HIDE DEF b
<1>3. /\ \A v : HasPair(c, k, v) => Lookup(tab, k) = v
      /\ ~Has(c, k) => Lookup(tab, k) = 0
      /\ Has(c, k) => Lookup(tab, k) # 0 /\ HasPair(c, k, Lookup(tab, k))
  BY <1>1, <1>2, LookupIs
<1>4. \A v : HasPair(c, k, v) => Has(c, k)
  BY DEF HasPair, Has
<1> QED BY <1>3, <1>4 DEF Holds

LEMMA TableOf ==
  ASSUME Inv, NEW i \in DOMAIN tables
  PROVE  /\ tables[i].n \in Nat \ {0} /\ tables[i] \in TablesOf(tables[i].n) /\ TabOK(tables[i])
  BY TableIs DEF Inv, Types, TablesInv

\* What a swap does to the contents.
LEMMA SwapIs ==
  ASSUME Inv, NEW t \in Threads, Swap(t), NEW k \in Keys
  PROVE  /\ Contents(k)' = 0 \/ Contents(k)' = Contents(k)
         /\ th[t].by # 0 => Contents(k)' = Contents(k)
<1> DEFINE old == tables[ht]
           new == tables[ht + 1]
<1>1. /\ th[t].pc = "copy" /\ th[t].pos = old.n /\ CopyOK(th[t]) /\ ht \in DOMAIN tables
      /\ DOMAIN tables = 1..Len(tables) /\ Len(tables) = ht + 1 /\ ht \in Nat /\ tables' = tables /\ ht' = ht + 1
      /\ build \in Builds
  BY StateIs DEF Swap, At, ResizeOK, Tab, Inv, HtInv
<1>2. ht + 1 \in DOMAIN tables
  BY <1>1
<1>3. k \in Nat \ {0}
  BY <1>1, BuildIs
<1>4. /\ old.n \in Nat \ {0} /\ old \in TablesOf(old.n) /\ TabOK(old)
      /\ new.n \in Nat \ {0} /\ new \in TablesOf(new.n) /\ TabOK(new)
  BY <1>1, <1>2, TableOf
<1>5. Hash(k, old.n) < th[t].pos
  <2>1. Hash(k, old.n) \in 0..(old.n - 1)
    BY <1>3, <1>4, HashIs
  <2> QED BY <2>1, <1>1, <1>4
<1>6. \A v : (Holds(new, k, v) => Holds(old, k, v)) /\ (th[t].by # 0 /\ Holds(old, k, v) => Holds(new, k, v))
  BY <1>1, <1>3, <1>5 DEF CopyOK
<1>7. Contents(k) = Lookup(old, k) /\ Contents(k)' = Lookup(new, k)
  BY <1>1 DEF Contents
<1> HIDE DEF old, new
<1>8. /\ \A v : Holds(new, k, v) => Lookup(new, k) = v /\ v # 0
      /\ Lookup(new, k) # 0 => Holds(new, k, Lookup(new, k))
      /\ \A v : Holds(old, k, v) => Lookup(old, k) = v /\ v # 0
      /\ Lookup(old, k) # 0 => Holds(old, k, Lookup(old, k))
  BY <1>3, <1>4, LookupOf
<1> QED BY <1>6, <1>7, <1>8

\* The swap of ht_resize_pes, when the table grows, neither loses nor changes
\* a key, whoever puts, updates and removes during the copy.
THEOREM GrowingLosesNothing == ASSUME SmallIsNotSparse PROVE Spec => GrowthKeepsKeys
<1>1. Inv => [(\E t \in Threads : Swap(t) /\ th[t].by # 0) => \A k \in Keys : Contents(k)' = Contents(k)]_vars
  BY SwapIs
<1> QED BY <1>1, InvHolds, PTL DEF GrowthKeepsKeys
===========================================================================
