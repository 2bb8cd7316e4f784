--------------------------- MODULE EplScanProofs ---------------------------
(***************************************************************************)
(* Scan and RangeScan return what Get would (ScansExact), where they do    *)
(* not reach their loops over middle entries: on a machine that stays up,  *)
(* and after power failures and restarts.                                  *)
(*                                                                         *)
(* What a scan takes from one entry is shown from sorting and filtering    *)
(* alone.  That the entries along the list hold ascending ranges of keys   *)
(* is what IndInv and LinkInv, or CrashInv, say.                           *)
(***************************************************************************)
EXTENDS EplCrashProofs, EplScan, SequenceTheorems

-----------------------------------------------------------------------------
(* Sorting: slot i goes behind the slots before it, by key and then place. *)

Before(e, j, i) == e.key[j] < e.key[i] \/ (e.key[j] = e.key[i] /\ j < i)
Place(e, i) == Cardinality({j \in Slots : Before(e, j, i)})

LEMMA SlotsFinite == IsFiniteSet(Slots) /\ Cardinality(Slots) = K /\ K \in Nat /\ K > 1
<1>1. K \in Nat /\ K > 1 /\ 0 \in Int /\ K - 1 \in Int /\ ~(0 > K - 1) /\ K - 1 - 0 + 1 = K
  BY KAssumption
<1> QED BY <1>1, FS_Interval DEF Slots

LEMMA SlotsNat == \A i \in Slots : i \in Nat
  BY SlotsFinite DEF Slots

LEMMA BlockKeys ==
  ASSUME NEW e \in Block, NEW i \in Slots
  PROVE  e.key[i] \in Nat /\ e.val[i] \in Nat /\ i \in Nat
  BY SlotsFinite DEF Block, Slots

LEMMA PlaceType ==
  ASSUME NEW e \in Block, NEW i \in Slots
  PROVE  IsFiniteSet({j \in Slots : Before(e, j, i)}) /\ Place(e, i) \in Slots
<1> DEFINE B == {j \in Slots : Before(e, j, i)}
           R == Slots \ {i}
<1>1. IsFiniteSet(R) /\ Cardinality(R) = K - 1
  BY SlotsFinite, FS_RemoveElement
<1>2. ~Before(e, i, i)
  BY BlockKeys DEF Before
<1>3. B \in SUBSET R
  BY <1>2
<1>4. IsFiniteSet(B) /\ Cardinality(B) <= K - 1
  BY <1>1, <1>3, FS_Subset
<1>5. Cardinality(B) \in Nat
  BY <1>4, FS_CardinalityType
<1> QED BY <1>4, <1>5, SlotsFinite DEF Place, Slots

LEMMA PlaceGrows ==
  ASSUME NEW e \in Block, NEW i \in Slots, NEW j \in Slots, Before(e, i, j)
  PROVE  Place(e, i) < Place(e, j)
<1> DEFINE B == {x \in Slots : Before(e, x, i)}
           C == B \union {i}
           D == {x \in Slots : Before(e, x, j)}
<1>1. IsFiniteSet(B) /\ IsFiniteSet(D) /\ Place(e, i) \in Nat /\ Place(e, j) \in Nat
  BY PlaceType, SlotsNat
<1>2. i \notin B
  BY BlockKeys DEF Before
<1>3. ASSUME NEW x \in C PROVE x \in D
  <2>1. CASE x = i
    BY <2>1
  <2>2. CASE x \in B
    <3>1. Before(e, x, i) /\ x \in Slots
      BY <2>2
    <3>2. Before(e, x, j)
      BY <3>1, BlockKeys DEF Before
    <3> QED BY <3>1, <3>2
  <2> QED BY <2>1, <2>2
<1>4. Cardinality(C) = Place(e, i) + 1
  BY <1>1, <1>2, FS_AddElement DEF Place
<1>5. Cardinality(C) <= Place(e, j)
  BY <1>1, <1>3, FS_Subset DEF Place
<1> QED BY <1>1, <1>4, <1>5

\* std::sort has a result.
LEMMA SortExists ==
  ASSUME NEW e \in Block
  PROVE  \E g \in [Slots -> Slots] : SortedBy(e, g)
<1> DEFINE p == [i \in Slots |-> Place(e, i)]
<1>1. \A i, j \in Slots : i # j => Before(e, i, j) \/ Before(e, j, i)
  BY BlockKeys DEF Before
<1>2. \A i \in Slots : Place(e, i) \in Slots /\ Place(e, i) \in Nat
  BY PlaceType, SlotsNat
<1>3. \A i, j \in Slots : Place(e, i) = Place(e, j) => i = j
  BY <1>1, <1>2, PlaceGrows
<1>4. p \in Injection(Slots, Slots)
  BY <1>2, <1>3 DEF Injection, IsInjective
<1>5. p \in Surjection(Slots, Slots)
  BY <1>4, SlotsFinite, FS_Injection
<1>6. \A n \in Slots : \E i \in Slots : Place(e, i) = n
  BY <1>5 DEF Surjection
<1> DEFINE g == [n \in Slots |-> CHOOSE i \in Slots : Place(e, i) = n]
<1>7. \A n \in Slots : g[n] \in Slots /\ Place(e, g[n]) = n
  BY <1>6
<1>8. g \in [Slots -> Slots]
  BY <1>7
<1> HIDE DEF g, p
<1>9. \A i \in Slots : g[Place(e, i)] = i
  BY <1>2, <1>3, <1>7
<1>10. ASSUME NEW i \in Slots, NEW j \in Slots, i < j
       PROVE  g[i] # g[j] /\ e.key[g[i]] <= e.key[g[j]]
  <2>1. i \in Nat /\ j \in Nat
    BY SlotsFinite DEF Slots
  <2>2. g[i] # g[j]
    BY <1>7, <1>10, <2>1
  <2>3. Before(e, g[j], g[i]) => Place(e, g[j]) < Place(e, g[i])
    BY <1>7, PlaceGrows
  <2>4. ~Before(e, g[j], g[i])
    BY <1>7, <1>10, <2>1, <2>3
  <2> QED BY <1>7, <2>2, <2>4, BlockKeys DEF Before
<1>11. SortedBy(e, g)
  BY <1>2, <1>9, <1>10 DEF SortedBy
<1> QED BY <1>8, <1>11

-----------------------------------------------------------------------------
(* What a scan takes from one entry. *)

KV == Nat \X Nat

\* Every key is in one slot.
Distinct(e) == \A i, j \in Slots : e.key[i] # 0 /\ e.key[j] = e.key[i] => j = i

LEMMA PairType ==
  ASSUME NEW e \in Block, NEW i \in Slots
  PROVE  Pair(e, i) \in KV /\ Pair(e, i)[1] = e.key[i] /\ Pair(e, i)[2] = e.val[i]
  BY BlockKeys DEF Pair, KV

LEMMA SortedIs ==
  ASSUME NEW e \in Block, Distinct(e)
  PROVE  /\ Sorted(e) \in Seq(KV) /\ Len(Sorted(e)) = K
         /\ \A n \in 1..K : \E i \in Slots : Sorted(e)[n] = Pair(e, i)
         /\ \A i \in Slots : \E n \in 1..K : Sorted(e)[n] = Pair(e, i)
         /\ \A n, m \in 1..K : n < m =>
              /\ Sorted(e)[n][1] <= Sorted(e)[m][1]
              /\ Sorted(e)[n][1] # 0 => Sorted(e)[n][1] < Sorted(e)[m][1]
<1> DEFINE f == CHOOSE g \in [Slots -> Slots] : SortedBy(e, g)
           s == Sorted(e)
<1>1. f \in [Slots -> Slots] /\ SortedBy(e, f)
  BY SortExists
<1>2. s = [n \in 1..K |-> Pair(e, f[n - 1])]
  BY DEF Sorted
<1> HIDE DEF f, s
<1>3. \A n \in 1..K : n \in Nat /\ n - 1 \in Slots /\ f[n - 1] \in Slots
  BY <1>1, SlotsFinite DEF Slots
<1>4. \A n \in 1..K : s[n] = Pair(e, f[n - 1])
  BY <1>2
<1>5. s \in [1..K -> KV]
  BY <1>2, <1>3, PairType
<1>6. s \in Seq(KV) /\ Len(s) = K
  BY <1>5, SlotsFinite, IsASeq, LenProperties
<1>7. \A n \in 1..K : \E i \in Slots : s[n] = Pair(e, i)
  BY <1>3, <1>4
<1>8. ASSUME NEW i \in Slots PROVE \E n \in 1..K : s[n] = Pair(e, i)
  <2>1. PICK j \in Slots : f[j] = i
    BY <1>1 DEF SortedBy
  <2>2. j + 1 \in 1..K /\ (j + 1) - 1 = j
    BY SlotsFinite DEF Slots
  <2>3. s[j + 1] = Pair(e, i)
    BY <1>4, <2>1, <2>2
  <2> QED BY <2>2, <2>3
<1>9. ASSUME NEW n \in 1..K, NEW m \in 1..K, n < m
      PROVE  s[n][1] <= s[m][1] /\ (s[n][1] # 0 => s[n][1] < s[m][1])
  <2> DEFINE i == f[n - 1]
             j == f[m - 1]
  <2>1. n - 1 \in Slots /\ m - 1 \in Slots /\ n - 1 < m - 1 /\ i \in Slots /\ j \in Slots
    BY <1>3, <1>9
  <2>2. i # j /\ e.key[i] <= e.key[j]
    BY <1>1, <2>1 DEF SortedBy
  <2>3. s[n][1] = e.key[i] /\ s[m][1] = e.key[j]
    BY <1>4, <2>1, PairType
  <2> HIDE DEF i, j
  <2>4. e.key[i] # 0 => e.key[i] # e.key[j]
    BY <2>1, <2>2 DEF Distinct
  <2>5. e.key[i] \in Nat /\ e.key[j] \in Nat
    BY <2>1, BlockKeys
  <2> QED BY <2>2, <2>3, <2>4, <2>5
<1> QED BY <1>6, <1>7, <1>8, <1>9 DEF s

\* From cuts sorted pairs where the keys reach k.
LEMMA FromIs ==
  ASSUME NEW s \in Seq(KV), Len(s) = K, NEW k \in Nat,
         \A n, m \in 1..K : n < m => s[n][1] <= s[m][1]
  PROVE  \E p \in 1..(K + 1) : /\ From(s, k) = SubSeq(s, p, K)
                               /\ \A n \in 1..K : n >= p <=> s[n][1] >= k
<1> DEFINE p == StartPos(s, k)
           H == {n \in 1..K : s[n][1] >= k}
<1>0. K \in Nat /\ \A n \in 1..K : n \in Nat /\ s[n] \in KV /\ s[n][1] \in Nat
  BY SlotsFinite, ElementOfSeq DEF KV
<1>1. CASE H = {}
  <2>1. p = K + 1
    BY <1>1 DEF StartPos
  <2>2. p \in 1..(K + 1)
    BY <1>0, <2>1
  <2>3. \A n \in 1..K : ~(n >= p) /\ ~(s[n][1] >= k)
    BY <1>0, <1>1, <2>1
  <2> QED BY <2>2, <2>3 DEF From
<1>2. CASE H # {}
  <2>1. H \in SUBSET Nat
    BY <1>0
  <2>2. PICK h \in H : \A x \in H : h <= x
    BY <1>2, <2>1, SmallestExists
  <2>3. h \in 1..K /\ s[h][1] >= k /\ \A m \in 1..(h - 1) : s[m][1] < k
    <3>1. ASSUME NEW m \in 1..(h - 1) PROVE s[m][1] < k
      <4>1. m \in 1..K /\ ~(h <= m)
        BY <1>0, <2>1
      <4>2. m \notin H
        BY <2>2, <4>1
      <4> QED BY <1>0, <4>1, <4>2
    <3> QED BY <3>1
  <2>4. p = CHOOSE n \in 1..K : s[n][1] >= k /\ \A m \in 1..(n - 1) : s[m][1] < k
    BY <2>3 DEF StartPos
  <2>5. p \in 1..K /\ s[p][1] >= k /\ \A m \in 1..(p - 1) : s[m][1] < k
    BY <2>3, <2>4
  <2> HIDE DEF p
  <2>6. ASSUME NEW n \in 1..K PROVE n >= p <=> s[n][1] >= k
    <3>1. CASE n < p
      <4>1. n \in 1..(p - 1)
        BY <1>0, <2>5, <3>1
      <4> QED BY <1>0, <2>5, <3>1, <4>1
    <3>2. CASE n = p
      BY <1>0, <2>5, <3>2
    <3>3. CASE p < n
      <4>1. s[p][1] <= s[n][1]
        BY <2>5, <3>3
      <4> QED BY <1>0, <2>5, <3>3, <4>1
    <3> QED BY <1>0, <2>5, <3>1, <3>2, <3>3
  <2>7. p \in 1..(K + 1)
    BY <1>0, <2>5
  <2>8. From(s, k) = SubSeq(s, p, K)
    BY DEF From, p
  <2> QED BY <2>6, <2>7, <2>8
<1> QED BY <1>1, <1>2

\* r has the pairs of P, by ascending keys.
Lists(r, P) ==
  /\ r \in Seq(KV)
  /\ \A i \in 1..Len(r) : r[i] \in P
  /\ \A i, j \in 1..Len(r) : i < j => r[i][1] < r[j][1]
  /\ \A x \in P : \E i \in 1..Len(r) : r[i] = x

LEMMA EntryLists ==
  ASSUME NEW e \in Block, Distinct(e), NEW k \in Nat, k # 0
  PROVE  Lists(From(Sorted(e), k), {Pair(e, i) : i \in {j \in Slots : e.key[j] >= k}})
<1> DEFINE s == Sorted(e)
           P == {Pair(e, i) : i \in {j \in Slots : e.key[j] >= k}}
<1>1. /\ s \in Seq(KV) /\ Len(s) = K
      /\ \A n \in 1..K : \E i \in Slots : s[n] = Pair(e, i)
      /\ \A i \in Slots : \E n \in 1..K : s[n] = Pair(e, i)
  BY SortedIs
<1>a. \A n, m \in 1..K : n < m => s[n][1] <= s[m][1]
  BY SortedIs
<1>b. \A n, m \in 1..K : n < m /\ s[n][1] # 0 => s[n][1] < s[m][1]
  BY SortedIs
<1> HIDE DEF s
<1>2. PICK p \in 1..(K + 1) : /\ From(s, k) = SubSeq(s, p, K)
                              /\ \A n \in 1..K : n >= p <=> s[n][1] >= k
  BY <1>1, <1>a, FromIs
<1> DEFINE r == From(s, k)
<1>3. K \in Nat /\ p \in Nat /\ p <= K + 1 /\ p >= 1
  BY SlotsFinite
<1>4. /\ r \in Seq(KV) /\ Len(r) = K - p + 1
      /\ \A i \in 1..(K - p + 1) : r[i] = s[p + i - 1]
  BY <1>1, <1>2, <1>3, SubSeqProperties
<1> HIDE DEF r
<1>5. \A i \in 1..Len(r) : i \in Nat /\ p + i - 1 \in 1..K /\ r[i] = s[p + i - 1] /\ p + i - 1 >= p
  BY <1>3, <1>4
<1>6. ASSUME NEW i \in 1..Len(r) PROVE r[i] \in P /\ r[i][1] \in Nat /\ r[i][1] # 0
  <2>1. PICK j \in Slots : r[i] = Pair(e, j)
    BY <1>1, <1>5
  <2>2. r[i][1] >= k
    BY <1>2, <1>5
  <2> QED BY <2>1, <2>2, PairType, BlockKeys
<1>7. ASSUME NEW i \in 1..Len(r), NEW j \in 1..Len(r), i < j PROVE r[i][1] < r[j][1]
  <2> DEFINE a == p + i - 1
             b == p + j - 1
  <2>1. a < b /\ a \in 1..K /\ b \in 1..K /\ r[i] = s[a] /\ r[j] = s[b]
    BY <1>3, <1>5, <1>7
  <2>2. s[a][1] # 0
    BY <1>6, <2>1
  <2> HIDE DEF a, b
  <2>3. s[a][1] < s[b][1]
    BY <1>b, <2>1, <2>2
  <2> QED BY <2>1, <2>3
<1>8. ASSUME NEW x \in P PROVE \E i \in 1..Len(r) : r[i] = x
  <2>1. PICK j \in Slots : x = Pair(e, j) /\ e.key[j] >= k
    BY <1>8
  <2>2. PICK n \in 1..K : s[n] = x
    BY <1>1, <2>1
  <2>3. n >= p
    BY <1>2, <2>1, <2>2, PairType
  <2>4. n - p + 1 \in 1..Len(r) /\ p + (n - p + 1) - 1 = n
    BY <1>3, <1>4, <2>3
  <2> QED BY <1>5, <2>2, <2>4
<1> QED BY <1>4, <1>6, <1>7, <1>8 DEF Lists, s, r

-----------------------------------------------------------------------------
(* Results of several entries, and of the first so many pairs. *)

LEMMA ConcatLists ==
  ASSUME NEW r, NEW q, NEW P, NEW Q, Lists(r, P), Lists(q, Q),
         \A x \in P, y \in Q : x[1] < y[1]
  PROVE  Lists(r \o q, P \union Q)
<1> DEFINE s == r \o q
           a == Len(r)
           b == Len(q)
<1>1. r \in Seq(KV) /\ q \in Seq(KV) /\ a \in Nat /\ b \in Nat
  BY LenProperties DEF Lists
<1>2. /\ s \in Seq(KV) /\ Len(s) = a + b
      /\ \A i \in 1..(a + b) : s[i] = IF i <= a THEN r[i] ELSE q[i - a]
  BY <1>1, ConcatProperties
<1> HIDE DEF s
<1>3. \A i \in 1..(a + b) :
        \/ i <= a /\ i \in 1..a /\ s[i] = r[i]
        \/ i > a /\ i - a \in 1..b /\ s[i] = q[i - a]
  BY <1>1, <1>2
<1>4. \A i \in 1..(a + b) : s[i] \in P \union Q
  BY <1>3 DEF Lists
<1>5. ASSUME NEW i \in 1..(a + b), NEW j \in 1..(a + b), i < j
      PROVE  s[i][1] < s[j][1]
  <2>0. i \in Nat /\ j \in Nat
    BY <1>1
  <2>1. CASE j <= a
    <3>1. i \in 1..a /\ j \in 1..a /\ s[i] = r[i] /\ s[j] = r[j]
      BY <1>1, <1>3, <1>5, <2>0, <2>1
    <3> QED BY <1>5, <3>1 DEF Lists
  <2>2. CASE i > a
    <3>1. i - a \in 1..b /\ j - a \in 1..b /\ i - a < j - a /\ s[i] = q[i - a] /\ s[j] = q[j - a]
      BY <1>1, <1>3, <1>5, <2>0, <2>2
    <3> QED BY <3>1 DEF Lists
  <2>3. CASE i <= a /\ j > a
    <3>1. i \in 1..a /\ j - a \in 1..b /\ s[i] = r[i] /\ s[j] = q[j - a]
      BY <1>1, <1>3, <2>0, <2>3
    <3>2. s[i] \in P /\ s[j] \in Q
      BY <3>1 DEF Lists
    <3> QED BY <3>2
  <2> QED BY <1>1, <2>0, <2>1, <2>2, <2>3
<1>6. ASSUME NEW x \in P \union Q PROVE \E i \in 1..(a + b) : s[i] = x
  <2>1. CASE x \in P
    <3>1. PICK i \in 1..a : r[i] = x
      BY <2>1 DEF Lists
    <3>2. i \in 1..(a + b) /\ s[i] = r[i]
      BY <1>1, <1>2
    <3> QED BY <3>1, <3>2
  <2>2. CASE x \in Q
    <3>1. PICK i \in 1..b : q[i] = x
      BY <2>2 DEF Lists
    <3>2. i + a \in 1..(a + b) /\ ~(i + a <= a) /\ (i + a) - a = i
      BY <1>1
    <3>3. s[i + a] = q[i]
      BY <1>2, <3>2
    <3> QED BY <3>1, <3>2, <3>3
  <2> QED BY <2>1, <2>2
<1> QED BY <1>2, <1>4, <1>5, <1>6 DEF Lists, s

\* r has the first n pairs of P, by ascending keys.
Cuts(r, P, n) ==
  /\ r \in Seq(KV) /\ Len(r) <= n
  /\ \A i \in 1..Len(r) : r[i] \in P
  /\ \A i, j \in 1..Len(r) : i < j => r[i][1] < r[j][1]
  /\ \A x \in P : \/ \E i \in 1..Len(r) : r[i] = x
                  \/ Len(r) = n /\ \A i \in 1..Len(r) : r[i][1] < x[1]

LEMMA TakeIs ==
  ASSUME NEW r \in Seq(KV), NEW n \in Nat
  PROVE  /\ Take(r, n) \in Seq(KV)
         /\ Len(Take(r, n)) = IF n < Len(r) THEN n ELSE Len(r)
         /\ \A i \in 1..Len(Take(r, n)) : i \in 1..Len(r) /\ Take(r, n)[i] = r[i]
<1> DEFINE m == IF n < Len(r) THEN n ELSE Len(r)
<1>1. Len(r) \in Nat
  BY LenProperties
<1>2. m \in Nat /\ m <= Len(r) /\ 1 \in 1..(Len(r) + 1) /\ m \in (1 - 1)..Len(r) /\ m - 1 + 1 = m
  BY <1>1
<1>3. Take(r, n) = SubSeq(r, 1, m)
  BY DEF Take
<1> HIDE DEF m
<1>4. /\ Take(r, n) \in Seq(KV) /\ Len(Take(r, n)) = m
      /\ \A i \in 1..m : Take(r, n)[i] = r[1 + i - 1]
  BY <1>2, <1>3, SubSeqProperties
<1>5. \A i \in 1..m : i \in 1..Len(r) /\ 1 + i - 1 = i
  BY <1>1, <1>2
<1> QED BY <1>4, <1>5 DEF m

\* Enough pairs: later ones make no difference.
LEMMA TakeCuts ==
  ASSUME NEW r, NEW P, NEW Q, Lists(r, P), P \subseteq Q, NEW n \in Nat,
         Len(r) >= n \/ Q = P,
         \A x \in P, y \in Q \ P : x[1] < y[1]
  PROVE  Cuts(Take(r, n), Q, n)
<1> DEFINE t == Take(r, n)
<1>1. r \in Seq(KV) /\ Len(r) \in Nat
  BY LenProperties DEF Lists
<1>2. /\ t \in Seq(KV) /\ Len(t) = IF n < Len(r) THEN n ELSE Len(r)
      /\ \A i \in 1..Len(t) : i \in 1..Len(r) /\ t[i] = r[i]
  BY <1>1, TakeIs
<1> HIDE DEF t
<1>3. Len(t) <= n /\ Len(t) \in Nat
  BY <1>1, <1>2
<1>4. \A i \in 1..Len(t) : t[i] \in P
  BY <1>2 DEF Lists
<1>5. \A i, j \in 1..Len(t) : i < j => t[i][1] < t[j][1]
  BY <1>2 DEF Lists
<1>6. ASSUME NEW x \in Q
      PROVE  \/ \E i \in 1..Len(t) : t[i] = x
             \/ Len(t) = n /\ \A i \in 1..Len(t) : t[i][1] < x[1]
  <2>1. CASE x \notin P
    <3>1. Len(t) = n
      BY <1>1, <1>2, <2>1
    <3> QED BY <1>4, <2>1, <3>1
  <2>2. CASE x \in P
    <3>1. PICK j \in 1..Len(r) : r[j] = x
      BY <2>2 DEF Lists
    <3>2. CASE j \in 1..Len(t)
      BY <1>2, <3>1, <3>2
    <3>3. CASE j \notin 1..Len(t)
      <4>1. Len(t) = n /\ \A i \in 1..Len(t) : i < j
        BY <1>1, <1>2, <1>3, <3>3
      <4>2. \A i \in 1..Len(t) : r[i][1] < r[j][1] /\ t[i] = r[i]
        BY <1>2, <4>1 DEF Lists
      <4> QED BY <3>1, <4>1, <4>2
    <3> QED BY <3>2, <3>3
  <2> QED BY <2>1, <2>2
<1> QED BY <1>2, <1>3, <1>4, <1>5, <1>6 DEF Cuts, t

LEMMA CutsAll ==
  ASSUME NEW r, NEW P, NEW n \in Nat, Lists(r, P), Len(r) <= n
  PROVE  Cuts(r, P, n)
  BY DEF Lists, Cuts

LEMMA TakeAll ==
  ASSUME NEW r \in Seq(KV), NEW n \in Nat, Len(Take(r, n)) < n
  PROVE  Take(r, n) = r /\ Len(r) < n
<1>1. Len(r) \in Nat
  BY LenProperties
<1>2. /\ Take(r, n) \in Seq(KV) /\ Len(Take(r, n)) = Len(r) /\ Len(r) < n
      /\ \A i \in 1..Len(r) : Take(r, n)[i] = r[i]
  BY <1>1, TakeIs
<1> QED BY <1>2, SeqEqual

-----------------------------------------------------------------------------
(* What RangeScan takes from one entry. *)

\* f is InRange's loop over the first n slots.
Pushes(e, lo, hi, f, n) ==
  f = [i \in 0..n |->
        IF i = 0 THEN <<>>
        ELSE IF e.key[i - 1] >= lo /\ e.key[i - 1] <= hi
        THEN Append(f[i - 1], Pair(e, i - 1))
        ELSE f[i - 1]]

LEMMA PushesExist ==
  ASSUME NEW e, NEW lo, NEW hi, NEW n \in Nat
  PROVE  \E f : Pushes(e, lo, hi, f, n)
<1> DEFINE Bad == {m \in Nat : ~\E f : Pushes(e, lo, hi, f, m)}
<1> SUFFICES ASSUME Bad # {} PROVE FALSE
  OBVIOUS
<1>1. PICK m \in Bad : \A x \in Bad : m <= x
  BY SmallestExists
<1>2. m # 0
  <2> DEFINE f == [i \in 0..0 |-> <<>>]
  <2>1. \A i \in 0..0 : i = 0
    OBVIOUS
  <2>2. Pushes(e, lo, hi, f, 0)
    BY <2>1 DEF Pushes
  <2> QED BY <2>2
<1>3. m \in Nat /\ m - 1 \in Nat /\ ~(m <= m - 1) /\ m \in 0..m
  BY <1>2
<1>4. PICK f : Pushes(e, lo, hi, f, m - 1)
  BY <1>1, <1>3
<1> DEFINE v == IF e.key[m - 1] >= lo /\ e.key[m - 1] <= hi
                THEN Append(f[m - 1], Pair(e, m - 1)) ELSE f[m - 1]
           g == [i \in 0..m |-> IF i = m THEN v ELSE f[i]]
<1>5. \A i \in 0..m : i # m => i \in 0..(m - 1) /\ (i # 0 => i - 1 \in 0..m /\ i - 1 # m)
  BY <1>3
<1>6. \A i \in 0..(m - 1) : f[i] = IF i = 0 THEN <<>>
                                   ELSE IF e.key[i - 1] >= lo /\ e.key[i - 1] <= hi
                                   THEN Append(f[i - 1], Pair(e, i - 1))
                                   ELSE f[i - 1]
  BY <1>4 DEF Pushes
<1>7. m - 1 \in 0..m /\ m - 1 # m
  BY <1>3
<1>8. ASSUME NEW i \in 0..m
      PROVE  g[i] = IF i = 0 THEN <<>>
                    ELSE IF e.key[i - 1] >= lo /\ e.key[i - 1] <= hi
                    THEN Append(g[i - 1], Pair(e, i - 1))
                    ELSE g[i - 1]
  <2>1. CASE i = m
    <3>1. g[i] = v /\ g[i - 1] = f[m - 1]
      BY <1>3, <1>7, <2>1
    <3> HIDE DEF g
    <3> QED BY <1>2, <2>1, <3>1
  <2>2. CASE i # m
    <3>1. g[i] = f[i] /\ (i # 0 => g[i - 1] = f[i - 1]) /\ i \in 0..(m - 1)
      BY <1>5, <2>2
    <3> HIDE DEF g
    <3> QED BY <1>6, <3>1
  <2> QED BY <2>1, <2>2
<1>9. g = [i \in 0..m |-> g[i]]
  OBVIOUS
<1> HIDE DEF g
<1>10. Pushes(e, lo, hi, g, m)
  BY <1>8, <1>9 DEF Pushes
<1> QED BY <1>1, <1>10

\* r has the pairs of the slots in T, each slot once.
Picks(r, e, T) ==
  /\ r \in Seq(KV)
  /\ \A i \in 1..Len(r) : \E j \in T : r[i] = Pair(e, j)
  /\ \A j \in T : \E i \in 1..Len(r) : r[i] = Pair(e, j)
  /\ \A i, j \in 1..Len(r) : r[i] = r[j] => i = j

LEMMA InRangePicks ==
  ASSUME NEW e \in Block, Distinct(e), NEW lo \in Nat, lo # 0, NEW hi \in Nat
  PROVE  Picks(InRange(e, lo, hi), e, {j \in Slots : e.key[j] >= lo /\ e.key[j] <= hi})
<1> DEFINE f == CHOOSE g : Pushes(e, lo, hi, g, K)
           T(n) == {j \in Slots : j < n /\ e.key[j] >= lo /\ e.key[j] <= hi}
<1>1. Pushes(e, lo, hi, f, K)
  BY PushesExist, SlotsFinite
<1>2. InRange(e, lo, hi) = f[K]
  BY DEF InRange, Pushes
<1> HIDE DEF f
<1>3. \A n \in 0..K : f[n] = IF n = 0 THEN <<>>
                             ELSE IF e.key[n - 1] >= lo /\ e.key[n - 1] <= hi
                             THEN Append(f[n - 1], Pair(e, n - 1))
                             ELSE f[n - 1]
  BY <1>1 DEF Pushes
<1>4. ASSUME NEW n \in 0..K PROVE Picks(f[n], e, T(n))
  <2> DEFINE Bad == {m \in 0..K : ~Picks(f[m], e, T(m))}
  <2> SUFFICES ASSUME Bad # {} PROVE FALSE
    OBVIOUS
  <2>0. K \in Nat /\ Bad \in SUBSET Nat
    BY SlotsFinite
  <2>1. PICK m \in Bad : \A x \in Bad : m <= x
    BY <2>0, SmallestExists
  <2>2. CASE m = 0
    <3>1. f[0] = <<>>
      BY <1>3, <2>0
    <3>2. T(0) = {}
      BY SlotsNat
    <3> HIDE DEF T
    <3>3. Picks(f[0], e, T(0))
      BY <3>1, <3>2 DEF Picks
    <3> QED BY <2>1, <2>2, <3>3
  <2>3. CASE m # 0
    <3>0. m \in 0..K
      BY <2>1
    <3> HIDE DEF Bad
    <3>1. m - 1 \in 0..K /\ ~(m <= m - 1) /\ m - 1 \in Slots
      BY <2>0, <2>3, <3>0 DEF Slots
    <3> USE DEF Bad
    <3> DEFINE h == m - 1
               r == f[h]
    <3>2. Picks(r, e, T(h))
      BY <2>1, <3>1
    <3>3. \A j \in Slots : j < m <=> j < h \/ j = h
      BY <2>0, <3>1, SlotsNat
    <3>4. CASE ~(e.key[h] >= lo /\ e.key[h] <= hi)
      <4>1. f[m] = r
        BY <1>3, <2>3, <3>1, <3>4
      <4>2. T(m) = T(h)
        BY <3>3, <3>4
      <4> HIDE DEF T, r, h
      <4> QED BY <2>1, <3>2, <4>1, <4>2
    <3>5. CASE e.key[h] >= lo /\ e.key[h] <= hi
      <4> DEFINE s == Append(r, Pair(e, h))
                 l == Len(r)
      <4>1. f[m] = s
        BY <1>3, <2>3, <3>1, <3>5
      <4>2. T(m) = T(h) \union {h}
        BY <3>1, <3>3, <3>5
      <4>3. h \notin T(h) /\ h \in Slots /\ e.key[h] # 0 /\ T(h) \subseteq Slots
        BY <3>1, <3>5, SlotsNat, BlockKeys
      <4> HIDE DEF T, r, h
      <4>4. r \in Seq(KV) /\ l \in Nat /\ Pair(e, h) \in KV
        BY <3>2, <4>3, LenProperties, PairType DEF Picks
      <4>5. /\ s \in Seq(KV) /\ Len(s) = l + 1 /\ s[l + 1] = Pair(e, h)
            /\ \A i \in 1..l : s[i] = r[i]
        BY <4>4, AppendProperties
      <4> HIDE DEF s
      <4>6. \A i \in 1..(l + 1) : i \in 1..l \/ i = l + 1
        BY <4>4
      <4>7. \A i \in 1..l : i \in 1..(l + 1) /\ i # l + 1
        BY <4>4
      <4>8. l + 1 \in 1..(l + 1)
        BY <4>4
      <4>9. \A i \in 1..l : s[i] # s[l + 1]
        <5> SUFFICES ASSUME NEW i \in 1..l, s[i] = s[l + 1] PROVE FALSE
          OBVIOUS
        <5>1. PICK j \in T(h) : r[i] = Pair(e, j)
          BY <3>2 DEF Picks
        <5>2. Pair(e, j) = Pair(e, h) /\ j \in Slots
          BY <4>3, <4>5, <5>1
        <5>3. e.key[j] = e.key[h]
          BY <4>3, <5>2, PairType
        <5>4. j = h
          BY <4>3, <5>2, <5>3 DEF Distinct
        <5> QED BY <4>3, <5>1, <5>4
      <4>10. \A i \in 1..Len(s) : \E j \in T(m) : s[i] = Pair(e, j)
        BY <3>2, <4>2, <4>5, <4>6 DEF Picks
      <4>11. \A j \in T(m) : \E i \in 1..Len(s) : s[i] = Pair(e, j)
        BY <3>2, <4>2, <4>5, <4>7, <4>8 DEF Picks
      <4>12. \A i, j \in 1..Len(s) : s[i] = s[j] => i = j
        BY <3>2, <4>5, <4>6, <4>9 DEF Picks
      <4>13. Picks(s, e, T(m))
        BY <4>5, <4>10, <4>11, <4>12 DEF Picks
      <4> QED BY <2>1, <4>1, <4>13
    <3> QED BY <3>4, <3>5
  <2> QED BY <2>2, <2>3
<1>5. K \in 0..K /\ T(K) = {j \in Slots : e.key[j] >= lo /\ e.key[j] <= hi}
  BY SlotsFinite DEF Slots
<1> QED BY <1>2, <1>4, <1>5

-----------------------------------------------------------------------------
(* The entries along the list. *)

OwnedBy(S, m, x) == m <= x /\ \A n \in S : n <= x => n <= m

\* What scans rely on: the entries of the index keys S are linked in order,
\* each has the stored keys it owns, with their values, and is where lookups
\* for them go.
Laid(S, ix) ==
  /\ S \in SUBSET Nat /\ IsFiniteSet(S) /\ Cardinality(S) <= MaxEntries
  /\ nvm \in [Addr -> Block]
  /\ \A m \in S : ix[m] \in Addr /\ Distinct(nvm[ix[m]])
  /\ \A m, n \in S : ix[m] = ix[n] => m = n
  /\ LinkedBy(S, ix, nvm)
  /\ \A m \in S : \A i \in Slots : nvm[ix[m]].key[i] # 0 =>
       /\ nvm[ix[m]].key[i] \in Keys /\ OwnedBy(S, m, nvm[ix[m]].key[i])
       /\ Found(nvm[ix[m]].key[i]) /\ Get(nvm[ix[m]].key[i]) = nvm[ix[m]].val[i]
  /\ \A x \in Keys : \E m \in S :
       /\ Route(x) = ix[m] /\ OwnedBy(S, m, x)
       /\ Found(x) => \E i \in Slots : nvm[ix[m]].key[i] = x

\* Pairs of stored keys.
StoredPairs(X) == {<<x, Get(x)>> : x \in X}

\* The stored keys from k on that lie below m; in entries up to that of m.
UpTo(k, m) == {x \in StoredKeys(k) : x < m}
Through(S, k, m) == {x \in StoredKeys(k) : x < m \/ OwnedBy(S, m, x)}

LEMMA OwnerIsOne ==
  ASSUME NEW S \in SUBSET Nat, NEW m \in S, NEW n \in S, NEW x, OwnedBy(S, m, x), OwnedBy(S, n, x)
  PROVE  m = n
<1>1. m \in Nat /\ n \in Nat /\ m <= n /\ n <= m
  BY DEF OwnedBy
<1> QED BY <1>1

\* The pairs of an entry are those of the stored keys it owns.
LEMMA EntryHas ==
  ASSUME NEW S, NEW ix, Laid(S, ix), NEW m \in S, NEW k \in Nat, k # 0
  PROVE  {Pair(nvm[ix[m]], i) : i \in {j \in Slots : nvm[ix[m]].key[j] >= k}}
           = StoredPairs({x \in StoredKeys(k) : OwnedBy(S, m, x)})
<1> DEFINE e == nvm[ix[m]]
           A == {Pair(e, i) : i \in {j \in Slots : e.key[j] >= k}}
           X == {x \in StoredKeys(k) : OwnedBy(S, m, x)}
<1>0. e \in Block /\ S \in SUBSET Nat
  BY DEF Laid
<1>1. ASSUME NEW i \in Slots, e.key[i] >= k PROVE Pair(e, i) \in StoredPairs(X)
  <2>1. e.key[i] # 0
    BY <1>0, <1>1, BlockKeys
  <2>2. e.key[i] \in Keys /\ OwnedBy(S, m, e.key[i]) /\ Found(e.key[i]) /\ Get(e.key[i]) = e.val[i]
    BY <2>1 DEF Laid
  <2>3. e.key[i] \in X /\ Pair(e, i) = <<e.key[i], Get(e.key[i])>>
    BY <1>1, <2>2 DEF StoredKeys, Pair
  <2> HIDE DEF e, X
  <2> QED BY <2>3 DEF StoredPairs
<1>2. ASSUME NEW x \in X PROVE <<x, Get(x)>> \in A
  <2>1. x \in Keys /\ x >= k /\ Found(x) /\ OwnedBy(S, m, x) /\ x # 0
    BY KeysNat DEF StoredKeys
  <2>2. PICK n \in S : OwnedBy(S, n, x) /\ \E i \in Slots : nvm[ix[n]].key[i] = x
    BY <2>1 DEF Laid
  <2>3. n = m
    BY <1>0, <2>1, <2>2, OwnerIsOne
  <2>4. PICK i \in Slots : e.key[i] = x
    BY <2>2, <2>3
  <2>5. Get(x) = e.val[i]
    BY <2>1, <2>4 DEF Laid
  <2>6. <<x, Get(x)>> = Pair(e, i)
    BY <2>4, <2>5 DEF Pair
  <2> HIDE DEF e
  <2> QED BY <2>1, <2>4, <2>6
<1> HIDE DEF e, X
<1>3. A = StoredPairs(X)
  BY <1>1, <1>2 DEF StoredPairs
<1> QED BY <1>3 DEF e, X

\* The walk is over, with the first pairs from k on; or it is at the entry of
\* an index key above k, with all the pairs below.
Over(s, k, size) ==
  /\ Cuts(s.results, StoredPairs(StoredKeys(k)), size)
  /\ s.entry = Null \/ Len(s.results) >= size
Under(S, ix, s, k, size, n) ==
  \E m \in S : /\ s.entry = ix[m] /\ k < m /\ Rank(S, m) > n
               /\ Len(s.results) < size /\ size - Len(s.results) < K
               /\ Lists(s.results, StoredPairs(UpTo(k, m)))

\* After the entry of m.
LEMMA AfterEntry ==
  ASSUME NEW S, NEW ix, Laid(S, ix), NEW m \in S, NEW k \in Keys, k < m \/ OwnedBy(S, m, k),
         NEW n \in Nat, Rank(S, m) >= n, NEW size \in Nat,
         NEW q, Lists(q, StoredPairs(Through(S, k, m))), NEW s,
         s.entry = nvm[ix[m]].next, s.results = Take(q, size), size - Len(Take(q, size)) < K
  PROVE  Over(s, k, size) \/ Under(S, ix, s, k, size, n)
<1> DEFINE T == Through(S, k, m)
           r == Take(q, size)
<1>0. S \in SUBSET Nat /\ IsFiniteSet(S) /\ m \in Nat /\ k \in Nat /\ \A x \in S : x \in Nat
  BY KeysNat DEF Laid
<1>1. T \subseteq StoredKeys(k) /\ \A x \in StoredKeys(k) : x \in Nat /\ x >= k
  BY KeysNat DEF Through, StoredKeys
<1>2. q \in Seq(KV) /\ Len(q) \in Nat
  BY LenProperties DEF Lists
<1>3. r \in Seq(KV) /\ Len(r) \in Nat /\ Len(r) <= size /\ Len(r) <= Len(q)
  BY <1>2, TakeIs, LenProperties
<1>4. ASSUME NEW x \in T, NEW y \in StoredKeys(k), y \notin T PROVE x < y
  <2>1. x \in Nat /\ y \in Nat
    BY <1>1
  <2>2. ~(y < m) /\ ~OwnedBy(S, m, y) /\ (x < m \/ OwnedBy(S, m, x))
    BY <1>4 DEF Through
  <2>3. m <= y
    BY <1>0, <2>1, <2>2
  <2>4. PICK p \in S : p <= y /\ ~(p <= m)
    BY <2>2, <2>3 DEF OwnedBy
  <2>5. OwnedBy(S, m, x) => ~(p <= x)
    BY <2>4 DEF OwnedBy
  <2>6. p \in Nat
    BY <1>0
  <2> QED BY <1>0, <2>1, <2>2, <2>3, <2>4, <2>5, <2>6
<1>5. StoredPairs(T) \subseteq StoredPairs(StoredKeys(k))
  BY <1>1 DEF StoredPairs
<1>6. \A x \in StoredPairs(T), y \in StoredPairs(StoredKeys(k)) \ StoredPairs(T) : x[1] < y[1]
  <2> SUFFICES ASSUME NEW x \in StoredPairs(T), NEW y \in StoredPairs(StoredKeys(k)), y \notin StoredPairs(T)
               PROVE  x[1] < y[1]
    OBVIOUS
  <2> HIDE DEF T
  <2>1. PICK a \in T : x = <<a, Get(a)>>
    BY DEF StoredPairs
  <2>2. PICK b \in StoredKeys(k) : y = <<b, Get(b)>>
    BY DEF StoredPairs
  <2>3. b \notin T
    BY <2>2 DEF StoredPairs
  <2>4. a < b
    BY <1>4, <2>3
  <2> QED BY <2>1, <2>2, <2>4
<1> HIDE DEF T
<1>7. CASE Len(r) >= size
  <2>1. Len(q) >= size
    BY <1>2, <1>3, <1>7
  <2>2. Cuts(r, StoredPairs(StoredKeys(k)), size)
    BY <1>5, <1>6, <2>1, TakeCuts DEF T
  <2> QED BY <1>7, <2>2 DEF Over
<1>8. CASE Len(r) < size
  <2>1. r = q
    BY <1>2, <1>8, TakeAll
  <2> HIDE DEF r
  <2>2. Lists(s.results, StoredPairs(T)) /\ Len(s.results) < size /\ size - Len(s.results) < K
    BY <1>8, <2>1 DEF T, r
  <2>3. CASE nvm[ix[m]].next = Null /\ \A x \in S : x <= m
    <3>1. ASSUME NEW x \in StoredKeys(k) PROVE x \in T
      BY <1>0, <1>1, <2>3 DEF T, Through, OwnedBy
    <3>2. T = StoredKeys(k)
      BY <1>1, <3>1
    <3>3. Cuts(s.results, StoredPairs(StoredKeys(k)), size)
      BY <1>3, <2>1, <2>2, <3>2, CutsAll
    <3> QED BY <2>3, <3>3 DEF Over
  <2>4. CASE \E p \in S : Follows(S, m, p) /\ nvm[ix[m]].next = ix[p]
    <3>1. PICK p \in S : Follows(S, m, p) /\ nvm[ix[m]].next = ix[p]
      BY <2>4
    <3>2. m < p /\ \A x \in S : x <= m \/ p <= x
      BY <3>1 DEF Follows
    <3>3. k < p
      BY <1>0, <3>2 DEF OwnedBy
    <3>4. Rank(S, p) = Rank(S, m) + 1 /\ Rank(S, m) \in Nat
      BY <1>0, <3>1, RankFollows, RankType
    <3>5. ASSUME NEW x \in StoredKeys(k) PROVE x \in T <=> x < p
      <4>1. x \in Nat /\ p \in Nat
        BY <1>0, <1>1
      <4>2. OwnedBy(S, m, x) => x < p
        BY <1>0, <3>2, <4>1 DEF OwnedBy
      <4>3. x < p => x < m \/ OwnedBy(S, m, x)
        BY <1>0, <3>2, <4>1 DEF OwnedBy
      <4> QED BY <1>0, <3>2, <4>1, <4>2, <4>3 DEF T, Through
    <3>6. T = UpTo(k, p)
      BY <1>1, <3>5 DEF UpTo
    <3> QED BY <2>2, <3>1, <3>3, <3>4, <3>6 DEF Under
  <2> QED BY <2>3, <2>4 DEF Laid, LinkedBy
<1> QED BY <1>3, <1>7, <1>8

-----------------------------------------------------------------------------
(* The walk along the list. *)

\* f is Scan's walk over the first n entries.
Walks(k, size, f, n) ==
  f = [i \in 0..n |->
        IF i = 0 THEN [entry |-> nvm[Route(k)].next, results |-> ScanStart(k, size)]
        ELSE ScanEntry(f[i - 1], size, Sorted(nvm[Route(k)]))]

LEMMA WalksExist ==
  ASSUME NEW k, NEW size, NEW n \in Nat
  PROVE  \E f : Walks(k, size, f, n)
<1> DEFINE Bad == {m \in Nat : ~\E f : Walks(k, size, f, m)}
           s0 == [entry |-> nvm[Route(k)].next, results |-> ScanStart(k, size)]
           t == Sorted(nvm[Route(k)])
<1> SUFFICES ASSUME Bad # {} PROVE FALSE
  OBVIOUS
<1>1. PICK m \in Bad : \A x \in Bad : m <= x
  BY SmallestExists
<1>2. m # 0
  <2> DEFINE f == [i \in 0..0 |-> s0]
  <2>1. \A i \in 0..0 : i = 0
    OBVIOUS
  <2>2. Walks(k, size, f, 0)
    BY <2>1 DEF Walks
  <2> QED BY <2>2
<1>3. m \in Nat /\ m - 1 \in Nat /\ ~(m <= m - 1) /\ m \in 0..m
  BY <1>2
<1>4. PICK f : Walks(k, size, f, m - 1)
  BY <1>1, <1>3
<1> DEFINE g == [i \in 0..m |-> IF i = m THEN ScanEntry(f[m - 1], size, t) ELSE f[i]]
<1>5. \A i \in 0..m : i # m => i \in 0..(m - 1) /\ (i # 0 => i - 1 \in 0..m /\ i - 1 # m)
  BY <1>3
<1>6. \A i \in 0..(m - 1) : f[i] = IF i = 0 THEN s0 ELSE ScanEntry(f[i - 1], size, t)
  BY <1>4 DEF Walks
<1>7. m - 1 \in 0..m /\ m - 1 # m
  BY <1>3
<1> HIDE DEF s0, t
<1>8. ASSUME NEW i \in 0..m
      PROVE  g[i] = IF i = 0 THEN s0 ELSE ScanEntry(g[i - 1], size, t)
  <2>1. CASE i = m
    <3>1. g[i] = ScanEntry(f[m - 1], size, t) /\ g[i - 1] = f[m - 1]
      BY <1>3, <1>7, <2>1
    <3> HIDE DEF g
    <3> QED BY <1>2, <2>1, <3>1
  <2>2. CASE i # m
    <3>1. g[i] = f[i] /\ (i # 0 => g[i - 1] = f[i - 1]) /\ i \in 0..(m - 1)
      BY <1>5, <2>2
    <3> HIDE DEF g
    <3> QED BY <1>6, <3>1
  <2> QED BY <2>1, <2>2
<1>9. g = [i \in 0..m |-> g[i]]
  OBVIOUS
<1> HIDE DEF g
<1>10. Walks(k, size, g, m)
  BY <1>8, <1>9 DEF Walks, s0, t
<1> QED BY <1>1, <1>10

\* The start entry.
LEMMA WalkStarts ==
  ASSUME NEW S, NEW ix, Laid(S, ix), NEW k \in Keys, NEW size \in Nat,
         size - Len(ScanStart(k, size)) < K,
         NEW s, s.entry = nvm[Route(k)].next, s.results = ScanStart(k, size)
  PROVE  Over(s, k, size) \/ Under(S, ix, s, k, size, 0)
<1>1. PICK m \in S : Route(k) = ix[m] /\ OwnedBy(S, m, k)
  BY DEF Laid
<1> DEFINE e == nvm[ix[m]]
           q == From(Sorted(e), k)
<1>2. S \in SUBSET Nat /\ IsFiniteSet(S) /\ m \in Nat /\ k \in Nat /\ k # 0 /\ \A x \in S : x \in Nat
  BY KeysNat DEF Laid
<1>3. e \in Block /\ Distinct(e)
  BY DEF Laid
<1>4. Lists(q, StoredPairs({x \in StoredKeys(k) : OwnedBy(S, m, x)}))
  BY <1>2, <1>3, EntryLists, EntryHas
<1>5. ASSUME NEW x \in StoredKeys(k) PROVE ~(x < m)
  <2>1. x \in Nat /\ x >= k
    BY KeysNat DEF StoredKeys
  <2>2. m <= k
    BY <1>1 DEF OwnedBy
  <2> QED BY <1>2, <2>1, <2>2
<1>6. {x \in StoredKeys(k) : OwnedBy(S, m, x)} = Through(S, k, m)
  BY <1>5 DEF Through
<1>7. ScanStart(k, size) = Take(q, size)
  BY <1>1 DEF ScanStart
<1>8. Rank(S, m) >= 0 /\ 0 \in Nat
  BY <1>2, RankType
<1> HIDE DEF e, q
<1>9. s.entry = nvm[ix[m]].next /\ s.results = Take(q, size) /\ size - Len(Take(q, size)) < K
  BY <1>1, <1>7
<1>10. Lists(q, StoredPairs(Through(S, k, m)))
  BY <1>4, <1>6
<1> QED BY <1>1, <1>8, <1>9, <1>10, AfterEntry

\* The next entry.
LEMMA WalkGoesOn ==
  ASSUME NEW S, NEW ix, Laid(S, ix), NEW k \in Keys, NEW size \in Nat, NEW n \in Nat,
         NEW s, Under(S, ix, s, k, size, n), NEW tmp
  PROVE  Over(ScanEntry(s, size, tmp), k, size) \/ Under(S, ix, ScanEntry(s, size, tmp), k, size, n + 1)
<1>1. PICK m \in S : /\ s.entry = ix[m] /\ k < m /\ Rank(S, m) > n
                     /\ Len(s.results) < size /\ size - Len(s.results) < K
                     /\ Lists(s.results, StoredPairs(UpTo(k, m)))
  BY DEF Under
<1> DEFINE e == nvm[ix[m]]
           l == Live(Sorted(e))
           q == s.results \o l
           t == ScanEnd(s, size)
<1>2. /\ S \in SUBSET Nat /\ IsFiniteSet(S) /\ m \in Nat /\ k \in Nat /\ k # 0
      /\ Rank(S, m) \in Nat /\ K \in Nat
  BY KeysNat, RankType, SlotsFinite DEF Laid
<1>3. e \in Block /\ Distinct(e) /\ s.entry # Null
  BY <1>1 DEF Laid, Addr, Null
<1>4. s.results \in Seq(KV) /\ Len(s.results) \in Nat
  BY <1>1, LenProperties DEF Lists
<1>5. ScanEntry(s, size, tmp) = t
  <2>1. ~(Len(s.results) >= size) /\ ~(size - Len(s.results) >= K)
    BY <1>1, <1>2, <1>4
  <2> QED BY <1>3, <2>1 DEF ScanEntry
<1>6. t.entry = nvm[ix[m]].next /\ t.results = Take(q, size)
  BY <1>1 DEF ScanEnd
<1>7. Lists(l, StoredPairs({x \in StoredKeys(1) : OwnedBy(S, m, x)}))
  BY <1>3, EntryLists, EntryHas DEF Live
<1> DEFINE X == UpTo(k, m)
           Y == {x \in StoredKeys(1) : OwnedBy(S, m, x)}
<1>8. X \union Y = Through(S, k, m)
  <2>1. ASSUME NEW x \in Y PROVE x \in StoredKeys(k)
    BY <1>1, <1>2, KeysNat DEF StoredKeys, OwnedBy
  <2>2. \A x \in StoredKeys(k) : x \in StoredKeys(1)
    BY KeysNat DEF StoredKeys
  <2> QED BY <2>1, <2>2 DEF Through, UpTo
<1>9. \A x \in X, y \in Y : x < y
  BY <1>2, KeysNat DEF UpTo, StoredKeys, OwnedBy
<1> HIDE DEF X, Y, l, e, t
<1>10. \A x \in StoredPairs(X), y \in StoredPairs(Y) : x[1] < y[1]
  BY <1>9 DEF StoredPairs
<1>11. StoredPairs(X) \union StoredPairs(Y) = StoredPairs(Through(S, k, m))
  BY <1>8 DEF StoredPairs
<1>12. Lists(q, StoredPairs(Through(S, k, m)))
  <2>1. Lists(s.results, StoredPairs(X)) /\ Lists(l, StoredPairs(Y))
    BY <1>1, <1>7 DEF X, Y
  <2>2. Lists(q, StoredPairs(X) \union StoredPairs(Y))
    BY <1>10, <2>1, ConcatLists
  <2> QED BY <1>11, <2>2
<1>13. size - Len(Take(q, size)) < K
  <2>1. l \in Seq(KV) /\ Len(l) \in Nat
    BY <1>7, LenProperties DEF Lists
  <2>2. q \in Seq(KV) /\ Len(q) = Len(s.results) + Len(l)
    BY <1>4, <2>1, ConcatProperties
  <2> HIDE DEF q
  <2>3. Len(Take(q, size)) = IF size < Len(q) THEN size ELSE Len(q)
    BY <2>2, TakeIs
  <2> QED BY <1>1, <1>2, <1>4, <2>1, <2>2, <2>3
<1> HIDE DEF q
<1>14. Rank(S, m) >= n + 1 /\ n + 1 \in Nat
  BY <1>1, <1>2
<1>15. Over(t, k, size) \/ Under(S, ix, t, k, size, n + 1)
  BY <1>1, <1>6, <1>12, <1>13, <1>14, AfterEntry
<1> QED BY <1>5, <1>15

LEMMA WalkEnds ==
  ASSUME NEW S, NEW ix, Laid(S, ix), NEW k \in Keys, NEW size \in Nat,
         size - Len(ScanStart(k, size)) < K
  PROVE  Cuts(Scan(k, size), StoredPairs(StoredKeys(k)), size)
<1> DEFINE f == CHOOSE g : Walks(k, size, g, MaxEntries)
           t == Sorted(nvm[Route(k)])
           Good(n) == Over(f[n], k, size) \/ Under(S, ix, f[n], k, size, n)
<1>0. MaxEntries \in Nat
  BY MaxEntriesAssumption
<1>1. Walks(k, size, f, MaxEntries)
  BY <1>0, WalksExist
<1>2. Scan(k, size) = f[MaxEntries].results
  BY DEF Scan, ScanWalk, Walks
<1> HIDE DEF f
<1>3. \A n \in 0..MaxEntries :
        f[n] = IF n = 0 THEN [entry |-> nvm[Route(k)].next, results |-> ScanStart(k, size)]
               ELSE ScanEntry(f[n - 1], size, t)
  BY <1>1 DEF Walks
<1> HIDE DEF t
<1>4. ASSUME NEW n \in 0..MaxEntries PROVE Good(n)
  <2> DEFINE Bad == {m \in 0..MaxEntries : ~Good(m)}
  <2> SUFFICES ASSUME Bad # {} PROVE FALSE
    OBVIOUS
  <2>1. Bad \in SUBSET Nat
    BY <1>0
  <2>2. PICK m \in Bad : \A x \in Bad : m <= x
    BY <2>1, SmallestExists
  <2>3. m \in 0..MaxEntries /\ ~Good(m)
    BY <2>2
  <2>4. CASE m = 0
    <3>1. f[0].entry = nvm[Route(k)].next /\ f[0].results = ScanStart(k, size)
      BY <1>3, <2>3, <2>4
    <3>2. Good(0)
      BY <3>1, WalkStarts
    <3> QED BY <2>3, <2>4, <3>2
  <2>5. CASE m # 0
    <3> DEFINE h == m - 1
    <3> HIDE DEF Good, Bad
    <3>1. h \in 0..MaxEntries /\ h \in Nat /\ ~(m <= h) /\ h + 1 = m
      BY <1>0, <2>3, <2>5
    <3>2. Good(h)
      BY <2>2, <3>1 DEF Bad
    <3>3. f[m] = ScanEntry(f[h], size, t)
      BY <1>3, <2>3, <2>5
    <3> HIDE DEF h
    <3>4. CASE Over(f[h], k, size)
      <4>0. Len(f[h].results) \in Nat /\ K \in Nat /\ K > 1
        BY <3>4, SlotsFinite, LenProperties DEF Over, Cuts
      <4>1. f[m] = f[h]
        <5>1. f[h].entry = Null \/ Len(f[h].results) >= size
          BY <3>4 DEF Over
        <5>2. ~(f[h].entry # Null /\ size - Len(f[h].results) >= K)
          BY <4>0, <5>1
        <5> QED BY <3>3, <5>1, <5>2 DEF ScanEntry
      <4> QED BY <2>3, <3>4, <4>1 DEF Good
    <3>5. CASE Under(S, ix, f[h], k, size, h)
      <4>1. Over(f[m], k, size) \/ Under(S, ix, f[m], k, size, h + 1)
        BY <3>1, <3>3, <3>5, WalkGoesOn
      <4> QED BY <2>3, <3>1, <4>1 DEF Good
    <3> QED BY <3>2, <3>4, <3>5 DEF Good
  <2> QED BY <2>4, <2>5
<1>5. Good(MaxEntries)
  BY <1>0, <1>4
<1>6. ~Under(S, ix, f[MaxEntries], k, size, MaxEntries)
  <2>1. S \in SUBSET Nat /\ IsFiniteSet(S) /\ Cardinality(S) <= MaxEntries /\ Cardinality(S) \in Nat
    BY FS_CardinalityType DEF Laid
  <2>2. \A m \in S : Rank(S, m) < Cardinality(S) /\ Rank(S, m) \in Nat
    BY <2>1, RankBound, RankType
  <2>3. \A m \in S : ~(Rank(S, m) > MaxEntries)
    BY <1>0, <2>1, <2>2
  <2> QED BY <2>3 DEF Under
<1> QED BY <1>2, <1>5, <1>6 DEF Over

-----------------------------------------------------------------------------
(* Scans return what Get does. *)

LEMMA ScanIsExact ==
  ASSUME NEW S, NEW ix, Laid(S, ix), NEW k \in Keys, NEW n \in Nat,
         n - Len(ScanStart(k, n)) < K
  PROVE  FirstPairs(Scan(k, n), k, n)
<1> DEFINE r == Scan(k, n)
           X == StoredKeys(k)
<1>1. Cuts(r, StoredPairs(X), n)
  BY WalkEnds
<1> HIDE DEF r, X
<1>2. \A i \in 1..Len(r) : \E x \in X : r[i] = <<x, Get(x)>>
  BY <1>1 DEF Cuts, StoredPairs
<1>3. \A i \in 1..Len(r) : r[i][1] \in X /\ r[i][2] = Get(r[i][1])
  BY <1>2
<1>4. \A x \in X : <<x, Get(x)>> \in StoredPairs(X) /\ <<x, Get(x)>>[1] = x
  BY DEF StoredPairs
<1>5. ASSUME NEW x \in X
      PROVE  \/ \E i \in 1..Len(r) : r[i][1] = x
             \/ Len(r) = n /\ \A i \in 1..Len(r) : r[i][1] < x
  <2> DEFINE p == <<x, Get(x)>>
  <2>1. \/ \E i \in 1..Len(r) : r[i] = p
        \/ Len(r) = n /\ \A i \in 1..Len(r) : r[i][1] < p[1]
    BY <1>1, <1>4 DEF Cuts
  <2> QED BY <2>1
<1>6. Len(r) <= n /\ \A i, j \in 1..Len(r) : i < j => r[i][1] < r[j][1]
  BY <1>1 DEF Cuts
<1>7. FirstPairs(r, k, n)
  BY <1>3, <1>5, <1>6 DEF FirstPairs, X
<1> QED BY <1>7 DEF r

LEMMA RangeScanIsExact ==
  ASSUME NEW S, NEW ix, Laid(S, ix), NEW lo \in Keys, NEW hi \in Keys, lo <= hi,
         Route(lo) = Route(hi)
  PROVE  PairsOf(RangeScan(lo, hi), lo, hi)
<1>1. PICK m \in S : Route(lo) = ix[m] /\ OwnedBy(S, m, lo)
  BY DEF Laid
<1>2. OwnedBy(S, m, hi)
  <2>1. PICK n \in S : Route(hi) = ix[n] /\ OwnedBy(S, n, hi)
    BY DEF Laid
  <2>2. n = m
    BY <1>1, <2>1 DEF Laid
  <2> QED BY <2>1, <2>2
<1> DEFINE e == nvm[ix[m]]
           r == RangeScan(lo, hi)
           T == {j \in Slots : e.key[j] >= lo /\ e.key[j] <= hi}
           X == {x \in StoredKeys(lo) : x <= hi}
<1>3. S \in SUBSET Nat /\ m \in Nat /\ lo \in Nat /\ lo # 0 /\ hi \in Nat /\ \A x \in S : x \in Nat
  BY KeysNat DEF Laid
<1>4. e \in Block /\ Distinct(e)
  BY DEF Laid
<1>5. r = InRange(e, lo, hi)
  BY <1>1 DEF RangeScan
<1>6. Picks(r, e, T)
  BY <1>3, <1>4, <1>5, InRangePicks
<1>7. \A x \in StoredKeys(lo) : x \in Keys /\ x \in Nat /\ x >= lo /\ x # 0
  BY KeysNat DEF StoredKeys
<1>8. ASSUME NEW x \in X PROVE OwnedBy(S, m, x)
  <2>1. x \in Nat /\ x >= lo /\ x <= hi
    BY <1>7
  <2>2. m <= x
    BY <1>1, <1>3, <2>1 DEF OwnedBy
  <2>3. \A n \in S : n <= x => n <= hi
    BY <1>3, <2>1
  <2> QED BY <1>2, <2>2, <2>3 DEF OwnedBy
<1>9. {Pair(e, i) : i \in {j \in Slots : e.key[j] >= lo}}
        = StoredPairs({x \in StoredKeys(lo) : OwnedBy(S, m, x)})
  BY <1>3, EntryHas
<1>10. \A i \in Slots : Pair(e, i)[1] = e.key[i]
  BY <1>4, PairType
<1> HIDE DEF e, r
<1>11. ASSUME NEW j \in T PROVE Pair(e, j) \in StoredPairs(X)
  <2>1. j \in Slots /\ e.key[j] >= lo /\ e.key[j] <= hi
    OBVIOUS
  <2>2. Pair(e, j) \in StoredPairs({x \in StoredKeys(lo) : OwnedBy(S, m, x)})
    BY <1>9, <2>1
  <2>3. PICK x \in StoredKeys(lo) : Pair(e, j) = <<x, Get(x)>>
    BY <2>2 DEF StoredPairs
  <2>4. x = e.key[j]
    BY <1>10, <2>1, <2>3
  <2>5. x \in X
    BY <2>1, <2>4
  <2> HIDE DEF X
  <2> QED BY <2>3, <2>5 DEF StoredPairs
<1>12. ASSUME NEW x \in X PROVE \E j \in T : Pair(e, j) = <<x, Get(x)>>
  <2>1. x \in StoredKeys(lo) /\ x <= hi /\ OwnedBy(S, m, x)
    BY <1>8
  <2>2. <<x, Get(x)>> \in StoredPairs({y \in StoredKeys(lo) : OwnedBy(S, m, y)})
    BY <2>1 DEF StoredPairs
  <2>3. PICK j \in Slots : e.key[j] >= lo /\ Pair(e, j) = <<x, Get(x)>>
    BY <1>9, <2>2
  <2>4. e.key[j] = x
    BY <1>10, <2>3
  <2> QED BY <2>1, <2>3, <2>4
<1> HIDE DEF T, X
<1>13. {r[i] : i \in 1..Len(r)} = StoredPairs(X)
  <2>1. \A i \in 1..Len(r) : r[i] \in StoredPairs(X)
    BY <1>6, <1>11 DEF Picks
  <2>2. \A x \in X : \E i \in 1..Len(r) : r[i] = <<x, Get(x)>>
    BY <1>6, <1>12 DEF Picks
  <2>3. \A p \in StoredPairs(X) : \E i \in 1..Len(r) : r[i] = p
    BY <2>2 DEF StoredPairs
  <2> QED BY <2>1, <2>3
<1>14. \A i, j \in 1..Len(r) : r[i] = r[j] => i = j
  BY <1>6 DEF Picks
<1>15. PairsOf(r, lo, hi)
  BY <1>13, <1>14 DEF PairsOf, StoredPairs, X
<1> QED BY <1>15 DEF r

LEMMA ScansFromLaid ==
  ASSUME NEW S, NEW ix, Laid(S, ix)
  PROVE  ScansExact
<1>1. \A n \in 1..MaxScan : n \in Nat
  BY SlotsFinite DEF MaxScan
<1>2. ScanExact
  BY <1>1, ScanIsExact DEF ScanExact
<1>3. RangeScanExact
  BY RangeScanIsExact DEF RangeScanExact
<1> QED BY <1>2, <1>3 DEF ScansExact

\* The head's entry may be indexed by min_key: lookups below it still reach it.
LEMMA ListIsLaid ==
  ASSUME TypeOK, MovedInv, ListInv
  PROVE  Laid(VKeys, VIndex)
<1> DEFINE S == VKeys
           ix == VIndex
<1>1. S \in SUBSET Nat /\ IsFiniteSet(S) /\ Cardinality(S) <= MaxEntries
  BY VIndexIs, VKeysFit
<1>2. nvm \in [Addr -> Block] /\ \A m \in S : ix[m] \in Addr
  BY VEntry DEF TypeOK
<1>3. \A m, k : VOwns(m, k) => m \in S /\ OwnedBy(S, m, k)
  BY DEF VOwns, OwnedBy
<1>4. VGets
  BY VGetsHold
<1>5. ASSUME NEW m \in S, NEW i \in Slots, nvm[ix[m]].key[i] # 0
      PROVE  /\ nvm[ix[m]].key[i] \in Keys /\ OwnedBy(S, m, nvm[ix[m]].key[i])
             /\ Found(nvm[ix[m]].key[i]) /\ Get(nvm[ix[m]].key[i]) = nvm[ix[m]].val[i]
             /\ \A j \in Slots : nvm[ix[m]].key[j] = nvm[ix[m]].key[i] => j = i
  <2> DEFINE k == nvm[ix[m]].key[i]
  <2>1. k \in Keys /\ VOwns(m, k) /\ \A j \in Slots : nvm[ix[m]].key[j] = k => j = i
    BY <1>5 DEF ListInv
  <2>2. Found(k) /\ Get(k) = nvm[ix[m]].val[i]
    BY <1>4, <2>1 DEF VGets
  <2> HIDE DEF k
  <2> QED BY <1>3, <2>1, <2>2 DEF k
<1>6. \A m \in S : Distinct(nvm[ix[m]])
  BY <1>5 DEF Distinct
<1>7. ASSUME NEW x \in Keys
      PROVE  \E m \in S : /\ Route(x) = ix[m] /\ OwnedBy(S, m, x)
                          /\ Found(x) => \E i \in Slots : nvm[ix[m]].key[i] = x
  <2>1. PICK m \in S : VOwns(m, x) /\ Route(x) = ix[m]
    BY KeysNat, VOwnerExists
  <2>2. Found(x) => \E i \in Slots : nvm[ix[m]].key[i] = x
    BY <2>1 DEF Found, HasKey
  <2> QED BY <1>3, <2>1, <2>2
<1>8. LinkedBy(S, ix, nvm) /\ \A m, n \in S : ix[m] = ix[n] => m = n
  BY DEF ListInv
<1> QED BY <1>1, <1>2, <1>5, <1>6, <1>7, <1>8 DEF Laid

\* On a machine that stays up, with removes and splits: a Scan returns the
\* next pairs in order and a RangeScan the pairs of its range, as Get has
\* them, whatever the order and the gaps in the entries, if they do not reach
\* their loops over middle entries.
THEOREM ScansReturnStored == Spec => []ScansExact
<1>1. Init => KvInv
  BY InitImplements
<1>2. KvInv /\ [Next]_vars => KvInv'
  BY StepImplements
<1>3. Init => LinkInv
  BY InitLink
<1>4. KvInv /\ LinkInv /\ [Next]_vars => LinkInv'
  BY NextLink DEF KvInv
<1>5. KvInv /\ LinkInv => ScansExact
  <2> SUFFICES ASSUME KvInv, LinkInv PROVE ScansExact
    OBVIOUS
  <2>1. TypeOK /\ IndexInv
    BY DEF KvInv, IndInv
  <2>2. ~Moved /\ MovedInv
    BY <2>1 DEF IndexInv, Moved, MovedInv
  <2>3. ListInv
    BY <2>2, ListFromUp
  <2>4. Laid(VKeys, VIndex)
    BY <2>1, <2>2, <2>3, ListIsLaid
  <2> QED BY <2>4, ScansFromLaid
<1> QED BY <1>1, <1>2, <1>3, <1>4, <1>5, PTL DEF Spec

\* The same after any number of power failures and restarts: Recover indexes
\* the list as scans follow it.
THEOREM CrashesKeepScans ==
  ASSUME CrashSafe
  PROVE  FullSpec => []ScansExact
<1>1. Init => CrashInv
  BY InitCrash
<1>2. CrashInv /\ [FullNext]_vars => CrashInv'
  BY FullStep
<1>3. CrashInv => ScansExact
  <2> SUFFICES ASSUME CrashInv PROVE ScansExact
    OBVIOUS
  <2>1. TypeOK /\ MovedInv /\ ListInv
    BY DEF CrashInv, BaseInv
  <2>2. Laid(VKeys, VIndex)
    BY <2>1, ListIsLaid
  <2> QED BY <2>2, ScansFromLaid
<1> QED BY <1>1, <1>2, <1>3, PTL DEF FullSpec
=============================================================================
