-------------------------- MODULE EplTreeKvProofs --------------------------
(***************************************************************************)
(* EPL-Tree on a machine that stays up (Spec): the list in NVM and the     *)
(* index agree between calls (ListMatchesIndex), and the tree implements   *)
(* KvStore.                                                                *)
(*                                                                         *)
(* The invariant of the list is local: the entry of an index key links to  *)
(* the entry of the next one.  That the list as a whole visits the entries *)
(* in order is then shown by counting: the n-th entry of the list belongs  *)
(* to the index key that n others are below.                               *)
(*                                                                         *)
(* The pairs in the indexed entries determine Get, because each key is in  *)
(* one slot of the entry that lookups for it end at (IndInv); so a step is *)
(* a step of KvStore if it changes these pairs as KvStore changes its map. *)
(***************************************************************************)
EXTENDS EplTreeProofs, FiniteSetTheorems

-----------------------------------------------------------------------------
(* The rank of a number in a finite set: how many are below it. *)

Below(S, m) == {x \in S : x < m}
Rank(S, m) == Cardinality(Below(S, m))

\* n is the next number of S after m.
Follows(S, m, n) == m < n /\ \A x \in S : x <= m \/ n <= x

LEMMA RankType ==
  ASSUME NEW S, IsFiniteSet(S), NEW m
  PROVE  IsFiniteSet(Below(S, m)) /\ Rank(S, m) \in Nat
<1>1. Below(S, m) \in SUBSET S
  BY DEF Below
<1> QED BY <1>1, FS_Subset, FS_CardinalityType DEF Rank

LEMMA RankGrows ==
  ASSUME NEW S \in SUBSET Nat, IsFiniteSet(S), NEW m \in S, NEW n \in S, m < n
  PROVE  Rank(S, m) < Rank(S, n)
<1> DEFINE B == Below(S, m)
           C == B \union {m}
           D == Below(S, n)
<1>1. IsFiniteSet(B) /\ Rank(S, m) \in Nat /\ IsFiniteSet(D) /\ Rank(S, n) \in Nat
  BY RankType
<1>0. \A x \in S : x \in Nat
  OBVIOUS
<1>2. m \notin B /\ C \in SUBSET D
  <2>1. \A x \in C : x \in S /\ x < n
    BY <1>0 DEF Below
  <2>2. ~(m < m)
    BY <1>0
  <2> QED BY <2>1, <2>2 DEF Below
<1>3. Cardinality(C) = Rank(S, m) + 1
  BY <1>1, <1>2, FS_AddElement DEF Rank
<1>4. Cardinality(C) <= Rank(S, n)
  BY <1>1, <1>2, FS_Subset DEF Rank
<1> QED BY <1>1, <1>3, <1>4

LEMMA RankInjective ==
  ASSUME NEW S \in SUBSET Nat, IsFiniteSet(S), NEW m \in S, NEW n \in S, Rank(S, m) = Rank(S, n)
  PROVE  m = n
<1>1. Rank(S, m) \in Nat
  BY RankType
<1>2. ~(m < n) /\ ~(n < m)
  BY <1>1, RankGrows
<1> QED BY <1>2

LEMMA RankFollows ==
  ASSUME NEW S \in SUBSET Nat, IsFiniteSet(S), NEW m \in S, NEW n \in S, Follows(S, m, n)
  PROVE  Rank(S, n) = Rank(S, m) + 1
<1>1. IsFiniteSet(Below(S, m)) /\ m \notin Below(S, m)
  BY RankType DEF Below
<1>0. \A x \in S : x \in Nat
  OBVIOUS
<1>2. Below(S, n) = Below(S, m) \union {m}
  <2>1. \A x \in S : x < n <=> x < m \/ x = m
    BY <1>0 DEF Follows
  <2> QED BY <2>1 DEF Below
<1> QED BY <1>1, <1>2, FS_AddElement DEF Rank

LEMMA RankBound ==
  ASSUME NEW S \in SUBSET Nat, IsFiniteSet(S), NEW m \in S
  PROVE  Rank(S, m) < Cardinality(S)
<1> DEFINE R == S \ {m}
<1>1. IsFiniteSet(R) /\ Cardinality(R) = Cardinality(S) - 1
  BY FS_RemoveElement
<1>2. Below(S, m) \in SUBSET R
  BY DEF Below
<1>3. Rank(S, m) <= Cardinality(R) /\ Rank(S, m) \in Nat /\ Cardinality(S) \in Nat
  BY <1>1, <1>2, FS_Subset, FS_CardinalityType, RankType DEF Rank
<1> QED BY <1>1, <1>3

\* The smallest number has rank 0, and the others follow one.
LEMMA RankZero ==
  ASSUME NEW S \in SUBSET Nat, 0 \in S
  PROVE  Rank(S, 0) = 0
<1>0. \A x \in S : x \in Nat
  OBVIOUS
<1>1. Below(S, 0) = {}
  <2>1. \A x \in S : ~(x < 0)
    BY <1>0
  <2> QED BY <2>1 DEF Below
<1> QED BY <1>1, FS_EmptySet DEF Rank

LEMMA PredecessorExists ==
  ASSUME NEW S \in SUBSET Nat, 0 \in S, NEW n \in S, n # 0
  PROVE  \E m \in S : Follows(S, m, n)
<1>0. \A x \in S : x \in Nat
  OBVIOUS
<1>1. Below(S, n) \in SUBSET Nat /\ 0 \in Below(S, n) /\ n \in Nat /\ \A x \in Below(S, n) : x <= n
  <2>1. n \in Nat /\ 0 < n /\ \A x \in S : x < n => x <= n
    BY <1>0
  <2> QED BY <2>1 DEF Below
<1>2. PICK m \in Below(S, n) : \A y \in Below(S, n) : y <= m
  BY <1>1, LargestExists
<1>3. m \in S /\ m < n
  BY <1>2 DEF Below
<1>4. ASSUME NEW x \in S PROVE x <= m \/ n <= x
  <2>1. x < n => x <= m
    BY <1>2 DEF Below
  <2> QED BY <2>1, <1>3
<1> QED BY <1>3, <1>4 DEF Follows

-----------------------------------------------------------------------------
(* What the list of Recover and Scan is, when entries are linked in order. *)

\* The entry of every index key links to the entry of the next.
LinkedBy(S, ix, mem) ==
  \A m \in S : \/ mem[ix[m]].next = Null /\ \A n \in S : n <= m
               \/ \E n \in S : Follows(S, m, n) /\ mem[ix[m]].next = ix[n]

Chains(mem, f) ==
  f = [n \in 0..MaxEntries |->
        IF n = 0 THEN EntryHead
        ELSE IF f[n - 1] = Null THEN Null
        ELSE mem[f[n - 1]].next]

LEMMA ListChains ==
  ASSUME NEW mem, \E f : Chains(mem, f)
  PROVE  Chains(mem, List(mem))
  BY DEF List, Chains

\* f visits the entries of S in order.
Visits(S, ix, f) ==
  /\ \A m \in S : f[Rank(S, m)] = ix[m]
  /\ \A n \in 0..MaxEntries : (\A m \in S : Rank(S, m) # n) => f[n] = Null

\* One step along the list.
LEMMA NextInList ==
  ASSUME NEW S \in SUBSET Nat, IsFiniteSet(S), 0 \in S, Cardinality(S) <= MaxEntries,
         NEW ix, NEW mem, LinkedBy(S, ix, mem), \A m \in S : ix[m] # Null,
         NEW f, Visits(S, ix, f), NEW n \in 1..MaxEntries
  PROVE  f[n] = IF f[n - 1] = Null THEN Null ELSE mem[f[n - 1]].next
<1>1. MaxEntries \in Nat /\ n \in Nat /\ n - 1 \in 0..MaxEntries /\ n \in 0..MaxEntries
  BY MaxEntriesAssumption
<1>2. CASE \E m \in S : Rank(S, m) = n
  <2>1. PICK m \in S : Rank(S, m) = n
    BY <1>2
  <2>2. m # 0
    BY <2>1, <1>1, RankZero
  <2>3. PICK p \in S : Follows(S, p, m)
    BY <2>2, PredecessorExists
  <2>4. Rank(S, p) \in Nat /\ Rank(S, p) = n - 1
    BY <2>1, <2>3, <1>1, RankFollows, RankType
  <2>5. f[n] = ix[m] /\ f[n - 1] = ix[p] /\ ix[p] # Null
    BY <2>1, <2>4 DEF Visits
  <2>6. mem[ix[p]].next = ix[m]
    <3>1. p < m /\ p \in Nat /\ m \in Nat
      BY <2>3 DEF Follows
    <3>2. PICK q \in S : Follows(S, p, q) /\ mem[ix[p]].next = ix[q]
      BY <3>1 DEF LinkedBy
    <3>3. q = m
      BY <3>1, <3>2, <2>3 DEF Follows
    <3> QED BY <3>2, <3>3
  <2> QED BY <2>5, <2>6
<1>3. CASE ~\E m \in S : Rank(S, m) = n
  <2>1. f[n] = Null
    BY <1>1, <1>3 DEF Visits
  <2>2. CASE \E p \in S : Rank(S, p) = n - 1
    <3>1. PICK p \in S : Rank(S, p) = n - 1
      BY <2>2
    <3>2. f[n - 1] = ix[p] /\ ix[p] # Null
      BY <3>1 DEF Visits
    <3>3. ~\E q \in S : Follows(S, p, q)
      BY <3>1, <1>1, <1>3, RankFollows
    <3>4. mem[ix[p]].next = Null
      BY <3>3 DEF LinkedBy
    <3> QED BY <2>1, <3>2, <3>4
  <2>3. CASE ~\E p \in S : Rank(S, p) = n - 1
    BY <1>1, <2>1, <2>3 DEF Visits
  <2> QED BY <2>2, <2>3
<1> QED BY <1>2, <1>3

LEMMA ListVisits ==
  ASSUME NEW S \in SUBSET Nat, IsFiniteSet(S), 0 \in S, Cardinality(S) <= MaxEntries,
         NEW ix, NEW mem, LinkedBy(S, ix, mem), \A m \in S : ix[m] # Null, ix[0] = EntryHead
  PROVE  Visits(S, ix, List(mem))
<1> DEFINE w == [n \in 0..MaxEntries |->
                  IF \E m \in S : Rank(S, m) = n THEN ix[CHOOSE m \in S : Rank(S, m) = n] ELSE Null]
           L == List(mem)
<1>1. MaxEntries \in Nat /\ 0 \in 0..MaxEntries /\ Cardinality(S) \in Nat
  BY MaxEntriesAssumption, FS_CardinalityType
<1>2. \A m \in S : Rank(S, m) \in 0..MaxEntries
  BY <1>1, RankType, RankBound
<1>3. ASSUME NEW m \in S PROVE w[Rank(S, m)] = ix[m]
  <2> DEFINE r == Rank(S, m)
             c == CHOOSE x \in S : Rank(S, x) = r
  <2>1. c \in S /\ Rank(S, c) = r
    OBVIOUS
  <2>2. c = m
    BY <2>1, RankInjective
  <2> QED BY <1>2, <2>2
<1>4. \A n \in 0..MaxEntries : (\A m \in S : Rank(S, m) # n) => w[n] = Null
  OBVIOUS
<1>5. DOMAIN w = 0..MaxEntries
  OBVIOUS
<1>d. w = [n \in 0..MaxEntries |-> w[n]]
  OBVIOUS
<1> HIDE DEF w
<1>6. Visits(S, ix, w)
  BY <1>3, <1>4 DEF Visits
<1>7. w[0] = EntryHead
  BY <1>3, RankZero
<1>8. \A n \in 1..MaxEntries : w[n] = IF w[n - 1] = Null THEN Null ELSE mem[w[n - 1]].next
  BY <1>6, NextInList
<1>9. Chains(mem, w)
  <2>1. \A n \in 0..MaxEntries : w[n] = IF n = 0 THEN EntryHead
                                        ELSE IF w[n - 1] = Null THEN Null ELSE mem[w[n - 1]].next
    BY <1>1, <1>7, <1>8
  <2> QED BY <1>d, <2>1 DEF Chains
<1>10. Chains(mem, L)
  BY <1>9, ListChains
<1> HIDE DEF L
<1>11. L[0] = EntryHead /\ \A n \in 1..MaxEntries : L[n] = IF L[n - 1] = Null THEN Null ELSE mem[L[n - 1]].next
  BY <1>1, <1>10 DEF Chains
<1>12. \A n \in 0..MaxEntries : L[n] = w[n]
  <2> DEFINE Bad == {n \in 0..MaxEntries : L[n] # w[n]}
  <2>1. SUFFICES ASSUME Bad # {} PROVE FALSE
    OBVIOUS
  <2>2. PICK n \in Bad : \A y \in Bad : n <= y
    <3>1. Bad \in SUBSET Nat
      BY <1>1
    <3> QED BY <2>1, <3>1, SmallestExists
  <2>3. n # 0
    BY <1>7, <1>11
  <2>4. n \in 1..MaxEntries /\ n - 1 \in 0..MaxEntries /\ ~(n <= n - 1)
    BY <1>1, <2>3
  <2>5. L[n - 1] = w[n - 1]
    BY <2>2, <2>4
  <2> QED BY <2>4, <2>5, <1>8, <1>11
<1>13. Visits(S, ix, L)
  BY <1>2, <1>6, <1>12 DEF Visits
<1> QED BY <1>13 DEF L

-----------------------------------------------------------------------------
(* The invariant. *)

Linked == LinkedBy(IndexKeys, index, nvm)

\* Before SplitNew, the new entry has the successor of the old one.
NewLinked == pc = "split_new" => nvm[op.new].next = nvm[op.ent].next

LinkInv == Linked /\ NewLinked

LEMMA LinkedStays ==
  ASSUME Linked, IndexKeys' = IndexKeys, index' = index,
         \A m \in IndexKeys : nvm'[index[m]].next = nvm[index[m]].next
  PROVE  Linked'
  BY DEF Linked, LinkedBy

LEMMA InitLink == Init => LinkInv
<1> SUFFICES ASSUME Init PROVE LinkInv
  OBVIOUS
<1>1. IndexKeys = {0} /\ index[0] \in Addr
  BY MaxEntriesAssumption DEF Init, IndexKeys, Null, EntryHead, Addr
<1>2. nvm[index[0]].next = 0
  BY <1>1 DEF Init, EmptyBlock
<1>3. pc # "split_new"
  BY DEF Init
<1> QED BY <1>1, <1>2, <1>3 DEF LinkInv, Linked, LinkedBy, NewLinked, Null

\* The steps that only write slots or the flag of an indexed entry, or write
\* the new entry, which is not indexed yet.
LEMMA WriteLink ==
  ASSUME IndInv, Linked, UNCHANGED <<index, first>>, NEW b,
         \A m \in IndexKeys : index[m] # b,
         \A c \in Addr : c # b => nvm'[c].next = nvm[c].next
  PROVE  Linked'
<1>1. IndexKeys' = IndexKeys
  BY RouteStays
<1>2. \A m \in IndexKeys : index[m] \in Addr
  BY IndexedType DEF IndInv
<1> QED BY <1>1, <1>2, LinkedStays

LEMMA SlotLink ==
  ASSUME IndInv, Linked, UNCHANGED <<index, first>>, NEW a \in Addr, NEW e,
         nvm' = [nvm EXCEPT ![a] = e], e.next = nvm[a].next
  PROVE  Linked'
<1>1. \A c \in Addr : nvm'[c].next = nvm[c].next
  BY DEF IndInv, TypeOK
<1>2. \A m \in IndexKeys : index[m] # Null
  BY DEF IndexKeys
<1> QED BY <1>1, <1>2, WriteLink

LEMMA MaybePutLink ==
  ASSUME IndInv, Linked, MaybePut
  PROVE  Linked'
<1> DEFINE a == Route(op.k)
           e == nvm[a]
           i == FirstSlot(e, 0)
           e2 == [[e EXCEPT !.val[i] = op.v] EXCEPT !.key[i] = op.k]
<1>1. op.k \in Nat
  BY KeysNat DEF MaybePut, IndInv, OpInv
<1>2. a \in Addr /\ e \in Block
  BY <1>1, RouteType DEF IndInv, TypeOK
<1>3. nvm' = [nvm EXCEPT ![a] = e2] /\ UNCHANGED <<index, first>>
  BY DEF MaybePut, Write
<1>4. e2.next = e.next
  BY <1>2 DEF Block
<1> HIDE DEF e2, a
<1> QED BY <1>2, <1>3, <1>4, SlotLink

LEMMA UpdateLink ==
  ASSUME IndInv, Linked, NEW k \in Keys, NEW v \in Vals, Update(k, v)
  PROVE  Linked'
<1> DEFINE a == Route(k)
           e == nvm[a]
           i == FirstSlot(e, k)
           e2 == [e EXCEPT !.val[i] = v]
<1>1. a \in Addr /\ e \in Block
  BY KeysNat, RouteType DEF IndInv, TypeOK
<1>2. nvm' = [nvm EXCEPT ![a] = e2] /\ UNCHANGED <<index, first>>
  BY DEF Update, Write
<1>3. e2.next = e.next
  BY <1>1 DEF Block
<1> HIDE DEF e2, a
<1> QED BY <1>1, <1>2, <1>3, SlotLink

LEMMA RemoveLink ==
  ASSUME IndInv, Linked, NEW k \in Keys, Remove(k)
  PROVE  Linked'
<1> DEFINE a == Route(k)
           e == nvm[a]
           i == FirstSlot(e, k)
           e2 == [e EXCEPT !.key[i] = 0]
<1>1. a \in Addr /\ e \in Block
  BY KeysNat, RouteType DEF IndInv, TypeOK
<1>2. nvm' = [nvm EXCEPT ![a] = e2] /\ UNCHANGED <<index, first>>
  BY DEF Remove, Write
<1>3. e2.next = e.next
  BY <1>1 DEF Block
<1> HIDE DEF e2, a
<1> QED BY <1>1, <1>2, <1>3, SlotLink

LEMMA SplitBeginLink ==
  ASSUME IndInv, Linked, SplitBegin
  PROVE  Linked'
<1> DEFINE a == Route(op.k)
           b == cur + 1
<1>1. /\ a \in Addr /\ b \in Addr
      /\ \A c \in Addr : c \notin {a, b} => nvm'[c] = nvm[c]
      /\ nvm'[a] = [nvm[a] EXCEPT !.flag = 1]
  BY SplitBeginIs DEF IndInv
<1>2. nvm'[a].next = nvm[a].next
  BY <1>1 DEF IndInv, TypeOK, Block
<1>3. \A m \in IndexKeys : index[m] # b
  BY IndexedType DEF IndInv, IndexInv, TypeOK, Addr
<1> HIDE DEF a, b
<1>4. \A c \in Addr : c # b => nvm'[c].next = nvm[c].next
  BY <1>1, <1>2
<1>5. UNCHANGED <<index, first>>
  BY DEF SplitBegin
<1> QED BY <1>3, <1>4, <1>5, WriteLink

LEMMA SplitFlagLink ==
  ASSUME IndInv, Linked, SplitFlag
  PROVE  LinkInv'
<1> DEFINE x == nvm[op.ent].next
           b == op.new
           e == [nvm[b] EXCEPT !.next = x]
<1>1. b \in Addr /\ op.ent \in Addr /\ op.ent # b /\ b = cur /\ UNCHANGED <<index, first, op>>
      /\ nvm \in [Addr -> Block] /\ nvm[b] \in Block /\ pc = "split_flag"
  BY DEF IndInv, OpInv, SplitFlag, SplitPcs, TypeOK, Addr
<1>2. nvm' = [nvm EXCEPT ![b] = e]
  BY DEF SplitFlag
<1>3. e.next = x
  BY <1>1 DEF Block
<1>4. \A m \in IndexKeys : index[m] # b
  BY <1>1, IndexedType DEF IndInv, IndexInv, TypeOK, Addr
<1> HIDE DEF e
<1>5. nvm'[b].next = x /\ \A c \in Addr : c # b => nvm'[c].next = nvm[c].next
  BY <1>1, <1>2, <1>3
<1>6. NewLinked'
  BY <1>1, <1>5 DEF NewLinked
<1>7. Linked'
  BY <1>1, <1>4, <1>5, WriteLink
<1> QED BY <1>6, <1>7 DEF LinkInv

\* The new entry takes its place after the old one.
LEMMA SplitNewLink ==
  ASSUME IndInv, LinkInv, SplitNew
  PROVE  Linked'
<1> DEFINE a == op.ent
           b == op.new
           mm == op.tmp[Half][1]
<1>1. TypeOK /\ OpInv /\ SplitInv /\ IndexInv /\ pc = "split_new" /\ op.k \in Keys /\ op.k \in Nat
  BY KeysNat DEF IndInv, SplitNew, OpInv
<1>2. /\ a \in Addr /\ b \in Addr /\ a # b
      /\ \A c \in Addr : c # a => nvm'[c] = nvm[c]
      /\ nvm'[a].next = b
  BY <1>1, SplitNewIs
<1>3. PICK m : Owns(m, op.k) /\ a = index[m]
  BY <1>1, OwnerExists DEF SplitInv
<1>4. m \in IndexKeys /\ \A n \in IndexKeys : index[n] \in Addr /\ (index[n] = a => n = m)
  BY <1>1, <1>3, IndexedType DEF Owns, IndInv, IndexInjective
<1>5. \A n \in IndexKeys : index[n] # b
  BY <1>1, <1>4 DEF IndexInv, OpInv, SplitPcs, Addr, TypeOK
<1>6. Half \in Slots
  BY HalfFacts, KAssumption DEF Slots
<1>7. mm \in Keys /\ mm \notin IndexKeys /\ Owns(m, mm)
  BY <1>1, <1>3, <1>4, SplitKeyIsNew
<1>8. index' = [index EXCEPT ![mm] = b] /\ index \in [Keys \union {0} -> Addr \union {Null}] /\ b # Null
  BY <1>1, <1>2 DEF SplitNew, IndexInsert, TypeOK, Addr, Null
<1>9. nvm[b].next = nvm[a].next
  BY <1>1 DEF LinkInv, NewLinked
<1> HIDE DEF mm, a, b
<1>10. /\ IndexKeys' = IndexKeys \union {mm} /\ index'[mm] = b
       /\ \A n \in IndexKeys : index'[n] = index[n]
  BY <1>7, <1>8 DEF IndexKeys
<1>11. mm \in Nat /\ m < mm /\ \A n \in IndexKeys : n \in Nat /\ (n <= m \/ n > mm)
  BY <1>7, <1>4, IndexKeysNat, KeysNat DEF Owns
<1> DEFINE S == IndexKeys
           T == IndexKeys'
<1>12. ASSUME NEW n \in T
       PROVE  \/ nvm'[index'[n]].next = Null /\ \A x \in T : x <= n
              \/ \E x \in T : Follows(T, n, x) /\ nvm'[index'[n]].next = index'[x]
  <2>1. CASE n = m
    <3>1. nvm'[index'[n]].next = index'[mm]
      BY <1>2, <1>3, <1>4, <1>10, <2>1
    <3>2. Follows(T, n, mm)
      BY <1>10, <1>11, <2>1 DEF Follows
    <3> QED BY <1>10, <3>1, <3>2
  <2>2. CASE n = mm
    <3>1. nvm'[index'[n]].next = nvm[index[m]].next
      BY <1>2, <1>3, <1>9, <1>10, <2>2
    <3>2. CASE nvm[index[m]].next = Null /\ \A x \in S : x <= m
      BY <1>4, <1>10, <1>11, <2>2, <3>1, <3>2
    <3>3. CASE \E x \in S : Follows(S, m, x) /\ nvm[index[m]].next = index[x]
      <4>1. PICK x \in S : Follows(S, m, x) /\ nvm[index[m]].next = index[x]
        BY <3>3
      <4>2. Follows(T, mm, x)
        BY <1>10, <1>11, <1>4, <4>1 DEF Follows
      <4> QED BY <1>10, <2>2, <3>1, <4>1, <4>2
    <3> QED BY <1>4, <3>2, <3>3 DEF LinkInv, Linked, LinkedBy
  <2>3. CASE n \in S /\ n # m
    <3>1. nvm'[index'[n]].next = nvm[index[n]].next
      BY <1>2, <1>4, <1>10, <2>3
    <3>2. CASE nvm[index[n]].next = Null /\ \A x \in S : x <= n
      BY <1>4, <1>10, <1>11, <2>3, <3>1, <3>2
    <3>3. CASE \E x \in S : Follows(S, n, x) /\ nvm[index[n]].next = index[x]
      <4>1. PICK x \in S : Follows(S, n, x) /\ nvm[index[n]].next = index[x]
        BY <3>3
      <4>2. Follows(T, n, x)
        BY <1>10, <1>11, <1>4, <2>3, <4>1 DEF Follows
      <4> QED BY <1>10, <3>1, <4>1, <4>2
    <3> QED BY <2>3, <3>2, <3>3 DEF LinkInv, Linked, LinkedBy
  <2> QED BY <1>10, <1>12, <2>1, <2>2, <2>3
<1> QED BY <1>12 DEF Linked, LinkedBy

LEMMA NextLink == IndInv /\ LinkInv /\ [Next]_vars => LinkInv'
<1> SUFFICES ASSUME IndInv, LinkInv, [Next]_vars PROVE LinkInv'
  OBVIOUS
<1> USE DEF LinkInv
<1>1. CASE UNCHANGED <<nvm, index, first>> /\ pc' # "split_new"
  <2>1. IndexKeys' = IndexKeys
    BY <1>1, RouteStays
  <2> QED BY <1>1, <2>1, LinkedStays DEF NewLinked
<1>2. CASE UNCHANGED vars
  <2>1. UNCHANGED <<nvm, index, first, pc, op>>
    BY <1>2 DEF vars
  <2>2. IndexKeys' = IndexKeys
    BY <2>1, RouteStays
  <2> QED BY <2>1, <2>2, LinkedStays DEF NewLinked
<1>3. ASSUME NEW k \in Keys, NEW v \in Vals, Insert(k, v) PROVE LinkInv'
  BY <1>1, <1>3 DEF Insert
<1>4. ASSUME NEW k \in Keys, NEW v \in Vals, Update(k, v) PROVE LinkInv'
  BY <1>4, UpdateLink DEF Update, NewLinked
<1>5. ASSUME NEW k \in Keys, Remove(k) PROVE LinkInv'
  BY <1>5, RemoveLink DEF Remove, NewLinked
<1>6. CASE MaybePut
  BY <1>6, MaybePutLink DEF MaybePut, NewLinked
<1>7. CASE SplitBegin
  BY <1>7, SplitBeginLink DEF SplitBegin, NewLinked
<1>8. CASE SplitFlag
  BY <1>8, SplitFlagLink
<1>9. CASE SplitNew
  BY <1>9, SplitNewLink DEF SplitNew, NewLinked
<1>10. CASE SplitEntry
  BY <1>1, <1>10 DEF SplitEntry
<1>11. CASE FlushSlot
  BY <1>1, <1>11 DEF FlushSlot
<1> QED BY <1>2, <1>3, <1>4, <1>5, <1>6, <1>7, <1>8, <1>9, <1>10, <1>11
        DEF Next, Client, Step, SplitStep

\* No more keys are indexed than there are entries.
LEMMA IndexFits ==
  ASSUME IndInv
  PROVE  IsFiniteSet(IndexKeys) /\ Cardinality(IndexKeys) <= MaxEntries
<1> DEFINE f == [m \in IndexKeys |-> index[m]]
<1>1. \A m \in IndexKeys : index[m] \in Addr
  BY IndexedType DEF IndInv
<1>2. f \in Injection(IndexKeys, Addr)
  BY <1>1 DEF IndInv, IndexInjective, Injection, IsInjective
<1>3. IsFiniteSet(Addr) /\ Cardinality(Addr) = MaxEntries
  <2>1. MaxEntries \in Nat \ {0}
    BY MaxEntriesAssumption
  <2>2. 1 \in Int /\ MaxEntries \in Int /\ ~(1 > MaxEntries) /\ MaxEntries - 1 + 1 = MaxEntries
    BY <2>1
  <2> QED BY <2>2, FS_Interval DEF Addr
<1> QED BY <1>2, <1>3, FS_Injection

\* Between calls, the list in NVM visits exactly the entries that the index
\* points to, in the order of their keys, and ends: Scan and Recover read
\* what lookups use.
THEOREM ListIsTheIndex == Spec => []ListMatchesIndex
<1>1. IndInv /\ LinkInv => ListMatchesIndex
  <2> SUFFICES ASSUME IndInv, LinkInv PROVE ListMatchesIndex
    OBVIOUS
  <2> DEFINE S == IndexKeys
             L == List(nvm)
             used == {n \in 0..MaxEntries : L[n] # Null}
             Key(a) == CHOOSE m \in IndexKeys : index[m] = a
  <2>1. /\ S \in SUBSET Nat /\ IsFiniteSet(S) /\ Cardinality(S) <= MaxEntries /\ Cardinality(S) \in Nat
        /\ MaxEntries \in Nat
    BY IndexFits, IndexKeysNat, MaxEntriesAssumption, FS_CardinalityType
  <2>2. 0 \in S /\ index[0] = EntryHead /\ first = EntryHead /\ \A m \in S : index[m] # Null
    BY DEF IndInv, IndexInv, IndexKeys, EntryHead, Null
  <2>3. Visits(S, index, L)
    BY <2>1, <2>2, ListVisits DEF LinkInv, Linked
  <2>4. \A m \in S : Rank(S, m) \in Nat /\ Rank(S, m) < MaxEntries
    BY <2>1, RankBound, RankType
  <2> HIDE DEF L
  <2>5. ASSUME NEW n \in used
        PROVE  \E m \in S : Rank(S, m) = n /\ L[n] = index[m] /\ Key(L[n]) = m
    <3>1. PICK m \in S : Rank(S, m) = n
      BY <2>5, <2>3 DEF Visits
    <3>2. L[n] = index[m]
      BY <2>3, <3>1 DEF Visits
    <3>3. Key(L[n]) = m
      BY <3>2 DEF IndInv, IndexInjective
    <3> QED BY <3>1, <3>2, <3>3
  <2>6. {L[n] : n \in used} = Indexed
    <3>1. \A n \in used : L[n] \in Indexed
      BY <2>5 DEF Indexed
    <3>2. ASSUME NEW m \in S PROVE Rank(S, m) \in used /\ L[Rank(S, m)] = index[m]
      BY <2>1, <2>2, <2>3, <2>4 DEF Visits
    <3>3. Indexed = {index[m] : m \in S}
      BY <2>2 DEF Indexed
    <3>4. \A a \in Indexed : \E n \in used : L[n] = a
      BY <3>2, <3>3
    <3> QED BY <3>1, <3>4
  <2>7. L[MaxEntries] = Null
    <3>1. MaxEntries \in 0..MaxEntries /\ \A m \in S : Rank(S, m) # MaxEntries
      BY <2>1, <2>4
    <3> QED BY <2>3, <3>1 DEF Visits
  <2>8. ASSUME NEW n \in used, NEW m \in used, n < m
        PROVE  Key(L[n]) < Key(L[m])
    <3>1. PICK p \in S : Rank(S, p) = n /\ Key(L[n]) = p
      BY <2>5
    <3>2. PICK q \in S : Rank(S, q) = m /\ Key(L[m]) = q
      BY <2>5
    <3>3. ~(q < p) /\ q # p
      BY <3>1, <3>2, <2>1, <2>4, <2>8, RankGrows
    <3>4. p < q
      BY <2>1, <3>3
    <3> QED BY <3>1, <3>2, <3>4
  <2> QED BY <2>6, <2>7, <2>8 DEF ListMatchesIndex, L
<1> QED BY <1>1, InitLink, NextLink, IndInvHolds, PTL DEF Spec

-----------------------------------------------------------------------------
(* Pairs and lookups. *)

\* The pair is in an indexed entry.
Stored(k, v) ==
  \E m \in IndexKeys : \E i \in Slots : nvm[index[m]].key[i] = k /\ nvm[index[m]].val[i] = v

\* Get finds the pairs and nothing else.
GetsInv ==
  \A k \in Keys : /\ \A v : Stored(k, v) => Found(k) /\ Get(k) = v
                  /\ Found(k) => Stored(k, Get(k))
                  /\ ~Found(k) => Get(k) = 0

LEMMA GetIs == IndInv => GetsInv
<1> SUFFICES ASSUME IndInv, NEW k \in Keys
             PROVE  /\ \A v : Stored(k, v) => Found(k) /\ Get(k) = v
                    /\ Found(k) => Stored(k, Get(k))
                    /\ ~Found(k) => Get(k) = 0
  BY DEF GetsInv
<1> USE DEF IndInv
<1> DEFINE e == nvm[Route(k)]
<1>1. k \in Nat /\ k # 0
  BY KeysNat
<1>2. PICK m : Owns(m, k) /\ Route(k) = index[m]
  BY <1>1, OwnerExists
<1>3. m \in IndexKeys /\ e \in Block
  BY <1>2, <1>1, RouteType DEF Owns, TypeOK
<1>4. Found(k) => FirstSlot(e, k) \in Slots /\ e.key[FirstSlot(e, k)] = k /\ Get(k) = e.val[FirstSlot(e, k)]
  BY <1>3, FirstSlotIs DEF Found, Get
<1>5. ASSUME NEW v, Stored(k, v)
      PROVE  Found(k) /\ Get(k) = v
  <2>1. PICK n \in IndexKeys, i \in Slots : nvm[index[n]].key[i] = k /\ nvm[index[n]].val[i] = v
    BY <1>5 DEF Stored
  <2>2. Owns(n, k) /\ \A j \in Slots : nvm[index[n]].key[j] = k => j = i
    BY <2>1, <1>1 DEF Owned
  <2>3. n = m
    BY <2>2, <1>1, <1>2, OwnerUnique
  <2>4. Found(k)
    BY <2>1, <2>3, <1>2 DEF Found, HasKey
  <2>5. FirstSlot(e, k) = i
    BY <1>4, <2>2, <2>3, <2>4, <1>2
  <2> QED BY <1>4, <2>1, <2>3, <2>4, <2>5, <1>2
<1>6. Found(k) => Stored(k, Get(k))
  BY <1>2, <1>3, <1>4 DEF Stored
<1>7. ~Found(k) => Get(k) = 0
  BY DEF Get
<1> QED BY <1>5, <1>6, <1>7

\* What a step does to the map, and to the set of keys that are found.
Keeps == \A k \in Keys : Get(k)' = Get(k) /\ (Found(k)' <=> Found(k))
Sets(k, v) ==
  \A j \in Keys : /\ Get(j)' = IF j = k THEN v ELSE Get(j)
                  /\ j # k => (Found(j)' <=> Found(j))
                  /\ j = k /\ v # 0 => Found(j)'

LEMMA GetStays ==
  ASSUME IndInv, IndInv', NEW k \in Keys, \A v : Stored(k, v)' <=> Stored(k, v)
  PROVE  Get(k)' = Get(k) /\ (Found(k)' <=> Found(k))
<1>1. (IndInv => GetsInv)'
  BY GetIs, PTL
<1>2. GetsInv /\ GetsInv'
  BY <1>1, GetIs
<1>3. CASE Found(k)
  <2>1. Stored(k, Get(k))
    BY <1>2, <1>3 DEF GetsInv
  <2> DEFINE v == Get(k)
  <2>2. \A w : Stored(k, w) => Stored(k, w)'
    OBVIOUS
  <2>3. \A w : Stored(k, w)' => Found(k)' /\ Get(k)' = w
    BY <1>2 DEF GetsInv
  <2> QED BY <1>3, <2>1, <2>2, <2>3
<1>4. CASE ~Found(k)
  <2>1. \A w : ~Stored(k, w)
    BY <1>2, <1>4 DEF GetsInv
  <2>2. \A w : ~Stored(k, w)'
    BY <2>1
  <2>3. Found(k)' => \E w : Stored(k, w)'
    BY <1>2 DEF GetsInv
  <2>4. ~Found(k)' => Get(k)' = 0
    BY <1>2 DEF GetsInv
  <2>5. Get(k) = 0
    BY <1>4 DEF Get
  <2> QED BY <1>4, <2>2, <2>3, <2>4, <2>5
<1> QED BY <1>3, <1>4

\* A step that leaves the index and the pairs of indexed entries alone.
LEMMA KeepsIf ==
  ASSUME IndInv, IndInv', UNCHANGED <<index, first>>,
         \A m \in IndexKeys : nvm'[index[m]].key = nvm[index[m]].key /\ nvm'[index[m]].val = nvm[index[m]].val
  PROVE  Keeps
<1>1. IndexKeys' = IndexKeys
  BY RouteStays
<1>2. \A k, v : Stored(k, v)' <=> Stored(k, v)
  BY <1>1 DEF Stored
<1> QED BY <1>2, GetStays DEF Keeps

\* A step that writes slot i of the entry of k, from or to key k.
LEMMA WriteSets ==
  ASSUME IndInv, IndInv', UNCHANGED <<index, first>>, NEW k \in Keys, NEW m \in IndexKeys, NEW i \in Slots,
         \A c \in Addr : c # index[m] => nvm'[c] = nvm[c],
         \A j \in Slots : j # i => /\ nvm'[index[m]].key[j] = nvm[index[m]].key[j]
                                   /\ nvm'[index[m]].val[j] = nvm[index[m]].val[j],
         nvm[index[m]].key[i] \in {0, k}, nvm'[index[m]].key[i] \in {0, k},
         nvm[index[m]].key[i] = k \/ nvm'[index[m]].key[i] = k
  PROVE  Sets(k, IF nvm'[index[m]].key[i] = k THEN nvm'[index[m]].val[i] ELSE 0)
<1> DEFINE a == index[m]
<1>1. IndexKeys' = IndexKeys /\ \A n \in IndexKeys : index[n] \in Addr
  BY RouteStays, IndexedType DEF IndInv
<1>2. \A n \in IndexKeys : index[n] = a => n = m
  BY DEF IndInv, IndexInjective
<1>3. k # 0 /\ k \in Nat /\ \A j \in Keys : j # 0
  BY KeysNat
<1>4. \A n \in IndexKeys : n # m => nvm'[index[n]] = nvm[index[n]]
  BY <1>1, <1>2
<1>5. ASSUME NEW j \in Keys, j # k
      PROVE  Get(j)' = Get(j) /\ (Found(j)' <=> Found(j))
  <2>1. \A n \in IndexKeys : \A h \in Slots : \A v :
          nvm'[index[n]].key[h] = j /\ nvm'[index[n]].val[h] = v <=> nvm[index[n]].key[h] = j /\ nvm[index[n]].val[h] = v
    BY <1>3, <1>4, <1>5
  <2>2. \A v : Stored(j, v)' <=> Stored(j, v)
    BY <2>1, <1>1 DEF Stored
  <2> QED BY <2>2, GetStays
<1>6. GetsInv'
  <2>1. (IndInv => GetsInv)'
    BY GetIs, PTL
  <2> QED BY <2>1
<1>7. CASE nvm'[a].key[i] = k
  <2> DEFINE v == nvm'[a].val[i]
  <2>1. \E n \in IndexKeys' : \E h \in Slots : nvm'[index'[n]].key[h] = k /\ nvm'[index'[n]].val[h] = v
    BY <1>1, <1>7
  <2> HIDE DEF v
  <2>2. \A w : (\E n \in IndexKeys' : \E h \in Slots : nvm'[index'[n]].key[h] = k /\ nvm'[index'[n]].val[h] = w)
               => Stored(k, w)'
    BY DEF Stored
  <2>3. \A w : Stored(k, w)' => Found(k)' /\ Get(k)' = w
    BY <1>6 DEF GetsInv
  <2>4. Found(k)' /\ Get(k)' = v
    BY <2>1, <2>2, <2>3
  <2> QED BY <1>5, <1>7, <2>4 DEF Sets, v
<1>8. CASE nvm'[a].key[i] # k
  <2>1. nvm[a].key[i] = k /\ nvm'[a].key[i] = 0
    BY <1>8
  <2>2. Owns(m, k) /\ \A h \in Slots : nvm[a].key[h] = k => h = i
    BY <2>1, <1>3 DEF IndInv, Owned
  <2>3. ASSUME NEW n \in IndexKeys, NEW h \in Slots, nvm'[index[n]].key[h] = k
        PROVE  FALSE
    <3>1. CASE n = m
      BY <3>1, <2>1, <2>2, <2>3, <1>3
    <3>2. CASE n # m
      <4>1. nvm[index[n]].key[h] = k
        BY <3>2, <2>3, <1>4
      <4>2. Owns(n, k)
        BY <4>1, <1>3 DEF IndInv, Owned
      <4> QED BY <4>2, <2>2, <3>2, <1>3, OwnerUnique
    <3> QED BY <3>1, <3>2
  <2>4. \A w : ~Stored(k, w)'
    BY <2>3, <1>1 DEF Stored
  <2>5. (Found(k)' => \E w : Stored(k, w)') /\ (~Found(k)' => Get(k)' = 0)
    BY <1>6 DEF GetsInv
  <2>6. Get(k)' = 0
    BY <2>4, <2>5
  <2> QED BY <1>5, <1>8, <2>6 DEF Sets
<1> QED BY <1>7, <1>8

-----------------------------------------------------------------------------
(* What the steps do to the map. *)

LEMMA MaybePutSets ==
  ASSUME IndInv, MaybePut
  PROVE  Sets(op.k, op.v)
<1> DEFINE k == op.k
           a == Route(k)
           i == FirstSlot(nvm[a], 0)
           v == op.v
<1>1. k \in Keys /\ k \in Nat /\ k # 0
  BY KeysNat DEF MaybePut, IndInv, OpInv
<1>2. PICK m : Owns(m, k) /\ a = index[m]
  BY <1>1, OwnerExists DEF IndInv
<1>3. m \in IndexKeys /\ a \in Addr /\ nvm[a] \in Block
  BY <1>2, IndexedType DEF Owns, IndInv, TypeOK
<1>4. i \in Slots /\ nvm[a].key[i] = 0
  BY <1>3, FirstSlotIs DEF MaybePut, Full
<1>5. nvm' = [nvm EXCEPT ![a] = [[nvm[a] EXCEPT !.val[i] = v] EXCEPT !.key[i] = k]]
      /\ UNCHANGED <<index, first>>
  BY DEF MaybePut, Write
<1> HIDE DEF k, a, i, v
<1>6. /\ \A c \in Addr : c # a => nvm'[c] = nvm[c]
      /\ \A j \in Slots : nvm'[a].key[j] = IF j = i THEN k ELSE nvm[a].key[j]
      /\ \A j \in Slots : nvm'[a].val[j] = IF j = i THEN v ELSE nvm[a].val[j]
  BY <1>3, <1>4, <1>5 DEF IndInv, TypeOK, Block
<1>7. IndInv'
  BY MaybePutInd
<1>8. Sets(k, IF nvm'[index[m]].key[i] = k THEN nvm'[index[m]].val[i] ELSE 0)
  BY <1>1, <1>2, <1>3, <1>4, <1>5, <1>6, <1>7, WriteSets
<1> QED BY <1>2, <1>4, <1>6, <1>8 DEF k, v

LEMMA UpdateSets ==
  ASSUME IndInv, NEW k \in Keys, NEW v \in Vals, Update(k, v)
  PROVE  Sets(k, v)
<1> DEFINE a == Route(k)
           i == FirstSlot(nvm[a], k)
<1>1. k \in Nat /\ k # 0
  BY KeysNat
<1>2. PICK m : Owns(m, k) /\ a = index[m]
  BY <1>1, OwnerExists DEF IndInv
<1>3. m \in IndexKeys /\ a \in Addr /\ nvm[a] \in Block
  BY <1>2, IndexedType DEF Owns, IndInv, TypeOK
<1>4. i \in Slots /\ nvm[a].key[i] = k
  BY <1>3, FirstSlotIs DEF Update, Found
<1>5. nvm' = [nvm EXCEPT ![a] = [nvm[a] EXCEPT !.val[i] = v]] /\ UNCHANGED <<index, first>>
  BY DEF Update, Write
<1> HIDE DEF a, i
<1>6. /\ \A c \in Addr : c # a => nvm'[c] = nvm[c]
      /\ \A j \in Slots : nvm'[a].key[j] = nvm[a].key[j]
      /\ \A j \in Slots : nvm'[a].val[j] = IF j = i THEN v ELSE nvm[a].val[j]
  BY <1>3, <1>4, <1>5 DEF IndInv, TypeOK, Block
<1>7. IndInv'
  BY UpdateInd
<1>8. Sets(k, IF nvm'[index[m]].key[i] = k THEN nvm'[index[m]].val[i] ELSE 0)
  BY <1>2, <1>3, <1>4, <1>5, <1>6, <1>7, WriteSets
<1> QED BY <1>2, <1>4, <1>6, <1>8

LEMMA RemoveSets ==
  ASSUME IndInv, NEW k \in Keys, Remove(k)
  PROVE  Sets(k, 0)
<1> DEFINE a == Route(k)
           i == FirstSlot(nvm[a], k)
<1>1. k \in Nat /\ k # 0
  BY KeysNat
<1>2. PICK m : Owns(m, k) /\ a = index[m]
  BY <1>1, OwnerExists DEF IndInv
<1>3. m \in IndexKeys /\ a \in Addr /\ nvm[a] \in Block
  BY <1>2, IndexedType DEF Owns, IndInv, TypeOK
<1>4. i \in Slots /\ nvm[a].key[i] = k
  BY <1>3, FirstSlotIs DEF Remove, Found
<1>5. nvm' = [nvm EXCEPT ![a] = [nvm[a] EXCEPT !.key[i] = 0]] /\ UNCHANGED <<index, first>>
  BY DEF Remove, Write
<1> HIDE DEF a, i
<1>6. /\ \A c \in Addr : c # a => nvm'[c] = nvm[c]
      /\ \A j \in Slots : nvm'[a].key[j] = IF j = i THEN 0 ELSE nvm[a].key[j]
      /\ \A j \in Slots : nvm'[a].val[j] = nvm[a].val[j]
  BY <1>3, <1>4, <1>5 DEF IndInv, TypeOK, Block
<1>7. IndInv'
  BY RemoveInd
<1>8. Sets(k, IF nvm'[index[m]].key[i] = k THEN nvm'[index[m]].val[i] ELSE 0)
  BY <1>2, <1>3, <1>4, <1>5, <1>6, <1>7, WriteSets
<1> QED BY <1>1, <1>2, <1>4, <1>6, <1>8

\* Until SplitNew: tmp_kvs has the pairs of the entry that is being split,
\* and the new entry has those of the right half.
TmpInv ==
  pc \in {"split_flag", "split_new"} =>
    /\ \A i \in Slots : \E j \in Slots :
         op.tmp[i][1] = nvm[op.ent].key[j] /\ op.tmp[i][2] = nvm[op.ent].val[j]
    /\ \A j \in Slots : \E i \in Slots :
         op.tmp[i][1] = nvm[op.ent].key[j] /\ op.tmp[i][2] = nvm[op.ent].val[j]
    /\ \A i \in Slots : nvm[op.new].val[i] = IF i < K - Half THEN op.tmp[i + Half][2] ELSE 0

LEMMA SplitBeginKeeps ==
  ASSUME IndInv, SplitBegin
  PROVE  Keeps /\ TmpInv' /\ op'.call = op.call /\ op'.k = op.k /\ op'.v = op.v /\ op'.old = op.old
<1> DEFINE a == Route(op.k)
           b == cur + 1
<1>1. TypeOK /\ OpInv /\ IndexInv /\ op \in OpType /\ IndInv'
  BY SplitBeginInd DEF IndInv, TypeOK
<1>2. /\ op' = [op EXCEPT !.ent = a, !.new = b, !.tmp = op'.tmp]
      /\ a \in Addr /\ b \in Addr /\ a <= cur
      /\ \A c \in Addr : c \notin {a, b} => nvm'[c] = nvm[c]
      /\ nvm'[a] = [nvm[a] EXCEPT !.flag = 1]
      /\ \A i \in Slots : nvm'[b].val[i] = IF i < K - Half THEN op'.tmp[i + Half][2] ELSE 0
  BY <1>1, SplitBeginIs
<1>3. PICK f \in [Slots -> Slots] :
        /\ SortedBy(nvm[a], f)
        /\ \A i \in Slots : op'.tmp[i][1] = nvm[a].key[f[i]]
        /\ \A i \in Slots : op'.tmp[i][2] = nvm[a].val[f[i]]
  BY <1>1, SplitBeginIs
<1> HIDE DEF a, b
<1>4. op'.ent = a /\ op'.new = b /\ op'.call = op.call /\ op'.k = op.k /\ op'.v = op.v /\ op'.old = op.old
  BY <1>1, <1>2 DEF OpType
<1>5. nvm'[a].key = nvm[a].key /\ nvm'[a].val = nvm[a].val
  BY <1>1, <1>2 DEF TypeOK, Block
<1>6. TmpInv'
  <2>1. \A j \in Slots : \E i \in Slots : f[i] = j
    BY <1>3 DEF SortedBy
  <2> DEFINE t == op'.tmp
             nk == nvm'[a].key
             nv == nvm'[a].val
  <2>2. \A i \in Slots : f[i] \in Slots /\ t[i][1] = nk[f[i]] /\ t[i][2] = nv[f[i]]
    BY <1>3, <1>5
  <2>3. \A i \in Slots : nvm'[b].val[i] = IF i < K - Half THEN t[i + Half][2] ELSE 0
    BY <1>2
  <2> HIDE DEF t, nk, nv
  <2>4. \A i \in Slots : \E j \in Slots : t[i][1] = nk[j] /\ t[i][2] = nv[j]
    BY <2>2
  <2>5. \A j \in Slots : \E i \in Slots : t[i][1] = nk[j] /\ t[i][2] = nv[j]
    BY <2>1, <2>2
  <2> QED BY <2>3, <2>4, <2>5, <1>4 DEF TmpInv, t, nk, nv
<1>7. \A m \in IndexKeys : index[m] \in Addr /\ index[m] # b
  BY <1>1, IndexedType DEF IndexInv, TypeOK, Addr, b
<1>8. \A m \in IndexKeys : nvm'[index[m]].key = nvm[index[m]].key /\ nvm'[index[m]].val = nvm[index[m]].val
  BY <1>2, <1>5, <1>7
<1>9. UNCHANGED <<index, first>>
  BY DEF SplitBegin
<1> QED BY <1>1, <1>4, <1>6, <1>8, <1>9, KeepsIf

LEMMA SplitFlagKeeps ==
  ASSUME IndInv, TmpInv, SplitFlag
  PROVE  Keeps /\ TmpInv'
<1> DEFINE x == nvm[op.ent].next
           b == op.new
<1>1. TypeOK /\ IndInv' /\ op.new \in Addr /\ op.ent \in Addr /\ UNCHANGED <<index, first, op>>
      /\ pc = "split_flag"
  BY SplitFlagInd DEF IndInv, OpInv, SplitFlag, SplitPcs, TypeOK
<1>2. nvm' = [nvm EXCEPT ![b] = [nvm[b] EXCEPT !.next = x]]
  BY DEF SplitFlag
<1> HIDE DEF x, b
<1>3. \A c \in Addr : nvm'[c].key = nvm[c].key /\ nvm'[c].val = nvm[c].val
  BY <1>1, <1>2 DEF TypeOK, Block, b
<1>4. Keeps
  BY <1>1, <1>3, IndexedType, KeepsIf
<1>5. TmpInv'
  <2>1. op' = op /\ op.ent \in Addr /\ op.new \in Addr /\ pc \in {"split_flag", "split_new"}
    BY <1>1
  <2>2. /\ nvm'[op.ent].key = nvm[op.ent].key /\ nvm'[op.ent].val = nvm[op.ent].val
        /\ nvm'[op.new].val = nvm[op.new].val
    BY <2>1, <1>3
  <2> QED BY <2>1, <2>2 DEF TmpInv
<1> QED BY <1>4, <1>5

\* The pairs of the old entry are now in it or in the new one.
LEMMA SplitNewKeeps ==
  ASSUME IndInv, TmpInv, SplitNew
  PROVE  Keeps
<1> DEFINE a == op.ent
           b == op.new
           mm == op.tmp[Half][1]
<1>1. TypeOK /\ OpInv /\ SplitInv /\ IndexInv /\ IndInv' /\ pc = "split_new" /\ op.k \in Keys /\ op.k \in Nat
  BY SplitNewInd, KeysNat DEF IndInv, SplitNew, OpInv
<1>2. /\ a \in Addr /\ b \in Addr /\ a # b
      /\ \A c \in Addr : c # a => nvm'[c] = nvm[c]
      /\ \A i \in Slots : nvm'[a].key[i] = IF i < Half THEN op.tmp[i][1] ELSE 0
      /\ \A i \in Slots : nvm'[a].val[i] = IF i < Half THEN op.tmp[i][2] ELSE 0
  BY <1>1, SplitNewIs
<1>3. PICK m : Owns(m, op.k) /\ a = index[m]
  BY <1>1, OwnerExists DEF SplitInv
<1>4. m \in IndexKeys /\ \A n \in IndexKeys : index[n] \in Addr /\ (index[n] = a => n = m)
  BY <1>1, <1>3, IndexedType DEF Owns, IndInv, IndexInjective
<1>5. \A n \in IndexKeys : index[n] # b
  BY <1>1, <1>4 DEF IndexInv, OpInv, SplitPcs, Addr, TypeOK
<1>6. Half \in Slots /\ Half \in Nat /\ \A i \in Slots : i \in Nat /\ i < K
  BY HalfFacts, KAssumption DEF Slots
<1>7. mm \in Keys /\ mm \notin IndexKeys
  BY <1>1, <1>3, <1>4, SplitKeyIsNew
<1>8. index' = [index EXCEPT ![mm] = b] /\ index \in [Keys \union {0} -> Addr \union {Null}] /\ b # Null
  BY <1>1, <1>2 DEF SplitNew, IndexInsert, TypeOK, Addr, Null
<1> HIDE DEF mm, a, b
<1>9. /\ IndexKeys' = IndexKeys \union {mm} /\ index'[mm] = b
      /\ \A n \in IndexKeys : index'[n] = index[n]
  BY <1>7, <1>8 DEF IndexKeys
<1>10. \A i \in Slots : nvm'[b].key[i] = IF i < K - Half THEN op.tmp[i + Half][1] ELSE 0
  BY <1>1, <1>2 DEF SplitInv, b
<1>11. \A i \in Slots : nvm'[b].val[i] = IF i < K - Half THEN op.tmp[i + Half][2] ELSE 0
  BY <1>1, <1>2 DEF TmpInv, b
<1>12. ASSUME NEW k \in Keys, NEW v, Stored(k, v)
       PROVE  Stored(k, v)'
  <2>1. PICK n \in IndexKeys, i \in Slots : nvm[index[n]].key[i] = k /\ nvm[index[n]].val[i] = v
    BY <1>12 DEF Stored
  <2>2. CASE n # m
    <3>1. nvm'[index'[n]] = nvm[index[n]]
      BY <1>2, <1>4, <1>9, <2>2
    <3> QED BY <1>9, <2>1, <3>1 DEF Stored
  <2>3. CASE n = m
    <3>0. \A j \in Slots : \E h \in Slots : op.tmp[h][1] = nvm[a].key[j] /\ op.tmp[h][2] = nvm[a].val[j]
      BY <1>1 DEF TmpInv, a
    <3>a. nvm[a].key[i] = k /\ nvm[a].val[i] = v
      BY <1>3, <2>1, <2>3
    <3>1. PICK h \in Slots : op.tmp[h][1] = k /\ op.tmp[h][2] = v
      BY <3>0, <3>a
    <3>2. CASE h < Half
      <4>1. nvm'[a].key[h] = k /\ nvm'[a].val[h] = v /\ index'[m] = a
        BY <1>2, <1>3, <1>4, <1>9, <3>1, <3>2
      <4> QED BY <4>1, <1>4, <1>9 DEF Stored
    <3>3. CASE ~(h < Half)
      <4> DEFINE q == h - Half
      <4>1. q \in Slots /\ q < K - Half /\ q + Half = h
        BY <1>6, <3>3, HalfFacts, KAssumption DEF Slots
      <4> HIDE DEF q
      <4>2. nvm'[b].key[q] = k /\ nvm'[b].val[q] = v
        BY <1>10, <1>11, <3>1, <4>1
      <4> QED BY <4>1, <4>2, <1>9 DEF Stored
    <3> QED BY <3>2, <3>3
  <2> QED BY <2>2, <2>3
<1>13. ASSUME NEW k \in Keys, NEW v, Stored(k, v)'
       PROVE  Stored(k, v)
  <2>1. PICK n \in IndexKeys \union {mm}, i \in Slots : nvm'[index'[n]].key[i] = k /\ nvm'[index'[n]].val[i] = v
    BY <1>9, <1>13 DEF Stored
  <2>2. k # 0
    BY KeysNat
  <2>3. CASE n \in IndexKeys /\ n # m
    <3>1. nvm'[index'[n]] = nvm[index[n]]
      BY <1>2, <1>4, <1>9, <2>3
    <3> QED BY <2>1, <2>3, <3>1 DEF Stored
  <2>4. ASSUME NEW h \in Slots, op.tmp[h][1] = k, op.tmp[h][2] = v
        PROVE  Stored(k, v)
    <3>1. \E j \in Slots : k = nvm[a].key[j] /\ v = nvm[a].val[j]
      BY <1>1, <2>4 DEF TmpInv, a
    <3> QED BY <1>3, <1>4, <3>1 DEF Stored
  <2>5. CASE n = m
    BY <1>2, <1>3, <1>4, <1>9, <2>1, <2>2, <2>4, <2>5
  <2>6. CASE n = mm
    <3>1. i < K - Half /\ op.tmp[i + Half][1] = k /\ op.tmp[i + Half][2] = v
      BY <1>9, <1>10, <1>11, <2>1, <2>2, <2>6
    <3>2. i + Half \in Slots
      BY <1>6, <3>1, KAssumption DEF Slots
    <3> QED BY <2>4, <3>1, <3>2
  <2> QED BY <2>3, <2>5, <2>6
<1> QED BY <1>1, <1>12, <1>13, GetStays DEF Keeps

-----------------------------------------------------------------------------
(* The mapping to KvStore. *)

\* What the call in progress has done: before the store of MaybePut an
\* insert has changed nothing, after it, and in the others, the map has the
\* call's value.
CallInv ==
  /\ pc = "idle" => op = NoOp
  /\ pc = "insert" \/ pc \in SplitPcs => op.call = "insert" /\ op.old = 0
  /\ pc = "flush" => op.call \in {"insert", "update", "remove"} /\ \A k \in Keys : k = op.k => Get(k) = op.v

KvInv == IndInv /\ CallInv /\ TmpInv

\* The variables of KvStore.
Dict == [k \in Keys |-> IF op.call = "bulk" THEN 0 ELSE Get(k)]
Req == [k \in OpKeys |-> [old |-> op.old, new |-> OpVal]]
One(k, o, v) == [j \in {k} |-> [old |-> o, new |-> v]]

CallNames == {"insert", "update", "remove"}

MapsTo ==
  /\ op.call \in CallNames => Req = One(op.k, op.old, op.v) /\ Dict = [k \in Keys |-> Get(k)]
  /\ op.call = "none" => Req = Kv!NoReq /\ Dict = [k \in Keys |-> Get(k)]

LEMMA CallIs == MapsTo
<1>1. op.call \in CallNames => OpKeys = {op.k} /\ OpVal = op.v /\ op.call # "bulk"
  BY DEF CallNames, OpKeys, OpVal
<1>2. op.call = "none" => OpKeys = {} /\ op.call # "bulk"
  BY DEF OpKeys
<1> QED BY <1>1, <1>2 DEF MapsTo, Req, Dict, One, Kv!NoReq

LEMMA OneIsACall == \A k, o, v : One(k, o, v) # Kv!NoReq
<1> SUFFICES ASSUME NEW k, NEW o, NEW v PROVE DOMAIN One(k, o, v) # DOMAIN Kv!NoReq
  OBVIOUS
<1> QED BY DEF One, Kv!NoReq

\* One step of the tree, by what it does to the map and to the call.
LEMMA StepIsCall ==
  ASSUME Serving, Serving', op.call = "none", op'.call \in CallNames, op'.k \in Keys, op'.old = Get(op'.k),
         (Keeps \/ Sets(op'.k, op'.v))
  PROVE  Kv!Call
<1> DEFINE k == op'.k
           v == op'.v
           o == op'.old
           g == [j \in Keys |-> Get(j)]
           h == [j \in Keys |-> Get(j)']
<1>1. Req = Kv!NoReq /\ Dict = g
  BY CallIs DEF MapsTo
<1>2. Req' = One(k, o, v) /\ Dict' = h
  <2>1. MapsTo'
    BY CallIs, PTL
  <2> QED BY <2>1 DEF MapsTo
<1>3. pc # "off" /\ pc' # "off"
  BY DEF Serving, SplitPcs
<1>4. \A r : r = One(k, o, v) => DOMAIN r = {k} /\ r[k].old = o /\ r[k].new = v
  BY DEF One
<1>5. o = g[k]
  OBVIOUS
<1>6. h = g \/ h = [j \in Keys |-> IF j = k THEN v ELSE g[j]]
  BY DEF Keeps, Sets
<1> HIDE DEF k, v, o, g, h
<1>7. One(k, o, v) # Kv!NoReq
  BY OneIsACall
<1> QED BY <1>1, <1>2, <1>3, <1>4, <1>5, <1>6, <1>7 DEF Kv!Call, Kv!Applied, Req, Dict, k

LEMMA StepIsEffect ==
  ASSUME Serving, Serving', op.call \in CallNames, op'.call = op.call, op'.k = op.k, op'.v = op.v,
         op'.old = op.old, op.k \in Keys, Sets(op.k, op.v)
  PROVE  Kv!Effect
<1> DEFINE k == op.k
           v == op.v
           o == op.old
           g == [j \in Keys |-> Get(j)]
           h == [j \in Keys |-> Get(j)']
<1>1. Req = One(k, o, v) /\ Dict = g
  BY CallIs DEF MapsTo
<1>2. Req' = One(k, o, v) /\ Dict' = h
  <2>1. MapsTo'
    BY CallIs, PTL
  <2> QED BY <2>1 DEF MapsTo
<1>3. pc # "off" /\ pc' # "off"
  BY DEF Serving, SplitPcs
<1>4. \A r : r = One(k, o, v) => DOMAIN r = {k} /\ r[k].new = v
  BY DEF One
<1>5. h = [j \in Keys |-> IF j = k THEN v ELSE g[j]]
  BY DEF Sets
<1> HIDE DEF k, v, o, g, h
<1> QED BY <1>1, <1>2, <1>3, <1>4, <1>5 DEF Kv!Effect, Kv!Applied, Req, Dict

LEMMA StepIsStutter ==
  ASSUME Serving, Serving', op.call \in CallNames, op'.call = op.call, op'.k = op.k, op'.v = op.v,
         op'.old = op.old, Keeps
  PROVE  UNCHANGED Kv!kvVars
<1> DEFINE k == op.k
           v == op.v
           o == op.old
           g == [j \in Keys |-> Get(j)]
           h == [j \in Keys |-> Get(j)']
<1>1. Req = One(k, o, v) /\ Dict = g
  BY CallIs DEF MapsTo
<1>2. Req' = One(k, o, v) /\ Dict' = h
  <2>1. MapsTo'
    BY CallIs, PTL
  <2> QED BY <2>1 DEF MapsTo
<1>3. pc # "off" /\ pc' # "off"
  BY DEF Serving, SplitPcs
<1>4. h = g
  BY DEF Keeps
<1> HIDE DEF k, v, o, g, h
<1> QED BY <1>1, <1>2, <1>3, <1>4 DEF Kv!kvVars, Req, Dict

LEMMA StepIsReturn ==
  ASSUME Serving, Serving', op.call \in CallNames, op'.call = "none", op.k \in Keys, Keeps, Get(op.k) = op.v
  PROVE  Kv!Return
<1> DEFINE k == op.k
           v == op.v
           o == op.old
           g == [j \in Keys |-> Get(j)]
           h == [j \in Keys |-> Get(j)']
<1>1. Req = One(k, o, v) /\ Dict = g
  BY CallIs DEF MapsTo
<1>2. Req' = Kv!NoReq /\ Dict' = h
  <2>1. MapsTo'
    BY CallIs, PTL
  <2> QED BY <2>1 DEF MapsTo, Kv!NoReq
<1>3. pc # "off" /\ pc' # "off"
  BY DEF Serving, SplitPcs
<1>4. \A r : r = One(k, o, v) => DOMAIN r = {k} /\ r[k].new = v
  BY DEF One
<1>5. h = g /\ g[k] = v /\ g = [j \in Keys |-> g[j]]
  BY DEF Keeps
<1> HIDE DEF k, v, o, g, h
<1>6. h = [j \in Keys |-> IF j = k THEN v ELSE g[j]]
  BY <1>5
<1>7. One(k, o, v) # Kv!NoReq
  BY OneIsACall
<1> QED BY <1>1, <1>2, <1>3, <1>4, <1>6, <1>7 DEF Kv!Return, Kv!Applied, Kv!NoReq, Req, Dict

-----------------------------------------------------------------------------
(* Every step of the tree is a step of KvStore or changes nothing of it. *)

Implements == [Kv!KvNext]_(Kv!kvVars)

\* The facts every step starts and ends with.
LEMMA ServingBoth ==
  ASSUME IndInv, [Next]_vars
  PROVE  IndInv' /\ Serving /\ Serving'
<1>1. IndInv'
  BY NextInd
<1> QED BY <1>1 DEF IndInv, OpInv

LEMMA InsertImplements ==
  ASSUME KvInv, NEW k \in Keys, NEW v \in Vals, Insert(k, v)
  PROVE  Implements /\ CallInv' /\ TmpInv'
<1>1. IndInv /\ CallInv /\ [Next]_vars
  BY DEF KvInv, Next, Client
<1>2. IndInv' /\ Serving /\ Serving'
  BY <1>1, ServingBoth
<1>3. op.call = "none" /\ pc' = "insert"
  BY <1>1 DEF CallInv, Insert, NoOp
<1>4. op'.call = "insert" /\ op'.k = k /\ op'.v = v /\ op'.old = 0
  BY DEF Insert, NoOp
<1>5. Keeps
  BY <1>1, <1>2, KeepsIf DEF Insert
<1>6. Get(k) = 0
  BY DEF Insert, Get
<1>7. op'.old = Get(op'.k)
  BY <1>4, <1>6
<1>8. Kv!Call
  BY <1>2, <1>3, <1>4, <1>5, <1>7, StepIsCall DEF CallNames
<1> QED BY <1>3, <1>4, <1>8 DEF Implements, Kv!KvNext, CallInv, TmpInv, SplitPcs

LEMMA UpdateImplements ==
  ASSUME KvInv, NEW k \in Keys, NEW v \in Vals, Update(k, v)
  PROVE  Implements /\ CallInv' /\ TmpInv'
<1>1. IndInv /\ CallInv /\ [Next]_vars
  BY DEF KvInv, Next, Client
<1>2. IndInv' /\ Serving /\ Serving'
  BY <1>1, ServingBoth
<1>3. op.call = "none" /\ pc' = "flush"
  BY <1>1 DEF CallInv, Update, NoOp
<1>4. op'.call = "update" /\ op'.k = k /\ op'.v = v /\ op'.old = Get(k)
  BY DEF Update, NoOp
<1>5. Sets(k, v)
  BY <1>1, UpdateSets
<1>6. op'.old = Get(op'.k) /\ Sets(op'.k, op'.v)
  BY <1>4, <1>5
<1>7. Kv!Call
  BY <1>2, <1>3, <1>4, <1>6, StepIsCall DEF CallNames
<1>8. \A j \in Keys : j = op'.k => Get(j)' = op'.v
  BY <1>4, <1>5 DEF Sets
<1> QED BY <1>3, <1>4, <1>7, <1>8 DEF Implements, Kv!KvNext, CallInv, TmpInv, SplitPcs

LEMMA RemoveImplements ==
  ASSUME KvInv, NEW k \in Keys, Remove(k)
  PROVE  Implements /\ CallInv' /\ TmpInv'
<1>1. IndInv /\ CallInv /\ [Next]_vars
  BY DEF KvInv, Next, Client
<1>2. IndInv' /\ Serving /\ Serving'
  BY <1>1, ServingBoth
<1>3. op.call = "none" /\ pc' = "flush"
  BY <1>1 DEF CallInv, Remove, NoOp
<1>4. op'.call = "remove" /\ op'.k = k /\ op'.v = 0 /\ op'.old = Get(k)
  BY DEF Remove, NoOp
<1>5. Sets(k, 0)
  BY <1>1, RemoveSets
<1>6. op'.old = Get(op'.k) /\ Sets(op'.k, op'.v)
  BY <1>4, <1>5
<1>7. Kv!Call
  BY <1>2, <1>3, <1>4, <1>6, StepIsCall DEF CallNames
<1>8. \A j \in Keys : j = op'.k => Get(j)' = op'.v
  BY <1>4, <1>5 DEF Sets
<1> QED BY <1>3, <1>4, <1>7, <1>8 DEF Implements, Kv!KvNext, CallInv, TmpInv, SplitPcs

LEMMA MaybePutImplements ==
  ASSUME KvInv, MaybePut
  PROVE  Implements /\ CallInv' /\ TmpInv'
<1>1. IndInv /\ CallInv /\ [Next]_vars /\ op \in OpType
  BY DEF KvInv, Next, Step, IndInv, TypeOK
<1>2. IndInv' /\ Serving /\ Serving'
  BY <1>1, ServingBoth
<1>3. op.call = "insert" /\ pc' = "flush" /\ op.k \in Keys
  BY <1>1 DEF CallInv, MaybePut, IndInv, OpInv
<1>4. op'.call = op.call /\ op'.k = op.k /\ op'.v = op.v /\ op'.old = op.old
  BY <1>1 DEF MaybePut, OpType
<1>5. Sets(op.k, op.v)
  BY <1>1, MaybePutSets
<1>6. Kv!Effect
  BY <1>2, <1>3, <1>4, <1>5, StepIsEffect DEF CallNames
<1>7. \A j \in Keys : j = op'.k => Get(j)' = op'.v
  BY <1>4, <1>5 DEF Sets
<1> QED BY <1>3, <1>4, <1>6, <1>7 DEF Implements, Kv!KvNext, CallInv, TmpInv, SplitPcs

LEMMA SplitImplements ==
  ASSUME KvInv, SplitStep
  PROVE  Implements /\ CallInv' /\ TmpInv'
<1>1. IndInv /\ CallInv /\ TmpInv /\ [Next]_vars /\ op \in OpType
  BY DEF KvInv, Next, Step, IndInv, TypeOK
<1>2. IndInv' /\ Serving /\ Serving'
  BY <1>1, ServingBoth
<1>3. op.call = "insert" /\ op.old = 0 /\ pc' \in SplitPcs \union {"insert"}
  BY <1>1 DEF CallInv, SplitStep, SplitBegin, SplitFlag, SplitNew, SplitEntry, SplitPcs
<1>4. /\ Keeps /\ TmpInv'
      /\ op'.call = op.call /\ op'.k = op.k /\ op'.v = op.v /\ op'.old = op.old
  <2>1. CASE SplitBegin
    BY <1>1, <2>1, SplitBeginKeeps
  <2>2. CASE SplitFlag
    BY <1>1, <2>2, SplitFlagKeeps DEF SplitFlag
  <2>3. CASE SplitNew
    BY <1>1, <2>3, SplitNewKeeps DEF SplitNew, TmpInv
  <2>4. CASE SplitEntry
    <3>1. UNCHANGED <<nvm, index, first>> /\ pc' = "insert"
          /\ op'.call = op.call /\ op'.k = op.k /\ op'.v = op.v /\ op'.old = 0
      BY <2>4 DEF SplitEntry, NoOp
    <3> QED BY <1>1, <1>2, <1>3, <3>1, KeepsIf DEF TmpInv
  <2> QED BY <2>1, <2>2, <2>3, <2>4 DEF SplitStep
<1>5. UNCHANGED Kv!kvVars
  BY <1>2, <1>3, <1>4, StepIsStutter DEF CallNames
<1>6. CallInv'
  BY <1>3, <1>4 DEF CallInv, SplitPcs
<1> QED BY <1>4, <1>5, <1>6 DEF Implements

LEMMA FlushSlotImplements ==
  ASSUME KvInv, FlushSlot
  PROVE  Implements /\ CallInv' /\ TmpInv'
<1>1. IndInv /\ CallInv /\ [Next]_vars
  BY DEF KvInv, Next, Step
<1>2. IndInv' /\ Serving /\ Serving'
  BY <1>1, ServingBoth
<1>3. op.call \in CallNames /\ Get(op.k) = op.v /\ op.k \in Keys /\ pc' = "idle" /\ op' = NoOp
  BY <1>1 DEF CallInv, FlushSlot, IndInv, OpInv, CallNames
<1>4. op'.call = "none"
  BY <1>3 DEF NoOp
<1>5. Keeps
  BY <1>1, <1>2, KeepsIf DEF FlushSlot
<1>6. Kv!Return
  BY <1>2, <1>3, <1>4, <1>5, StepIsReturn
<1> QED BY <1>3, <1>6 DEF Implements, Kv!KvNext, CallInv, TmpInv, SplitPcs

LEMMA StepImplements == KvInv /\ [Next]_vars => KvInv' /\ Implements
<1> SUFFICES ASSUME KvInv, [Next]_vars PROVE KvInv' /\ Implements
  OBVIOUS
<1>1. IndInv'
  BY NextInd DEF KvInv
<1>2. CallInv' /\ TmpInv' /\ Implements
  <2>1. CASE UNCHANGED vars
    <3>1. UNCHANGED <<nvm, index, first, pc, op>>
      BY <2>1 DEF vars
    <3>2. CallInv' /\ TmpInv'
      BY <3>1 DEF KvInv, CallInv, TmpInv, Get, Found, Route, IndexKeys
    <3>3. UNCHANGED Kv!kvVars
      BY <3>1 DEF Kv!kvVars, Get, Found, Route, IndexKeys, OpKeys, OpVal
    <3> QED BY <3>2, <3>3 DEF Implements
  <2>2. CASE Client
    BY <2>2, InsertImplements, UpdateImplements, RemoveImplements DEF Client
  <2>3. CASE Step
    BY <2>3, MaybePutImplements, SplitImplements, FlushSlotImplements DEF Step
  <2> QED BY <2>1, <2>2, <2>3 DEF Next
<1> QED BY <1>1, <1>2 DEF KvInv

LEMMA InitImplements == Init => KvInv /\ Kv!KvInit
<1> SUFFICES ASSUME Init PROVE KvInv /\ Kv!KvInit
  OBVIOUS
<1>1. KvInv
  BY InitInd DEF Init, KvInv, CallInv, TmpInv, SplitPcs
<1>2. IndInv /\ GetsInv
  BY <1>1, GetIs DEF KvInv
<1>3. \A m \in IndexKeys : \A i \in Slots : nvm[index[m]].key[i] = 0
  <2>1. \A a \in Addr : nvm[a] = EmptyBlock
    BY DEF Init
  <2> QED BY <1>2, <2>1, IndexedType DEF EmptyBlock, IndInv
<1>4. ASSUME NEW k \in Keys PROVE Get(k) = 0
  <2>1. \A v : ~Stored(k, v)
    BY <1>3, KeysNat DEF Stored
  <2>2. /\ Found(k) => Stored(k, Get(k))
        /\ ~Found(k) => Get(k) = 0
    BY <1>2 DEF GetsInv
  <2> QED BY <2>1, <2>2
<1>5. op.call = "none" /\ pc # "off"
  BY DEF Init, NoOp
<1>6. Req = Kv!NoReq /\ Dict = [k \in Keys |-> 0]
  BY <1>4, <1>5, CallIs DEF MapsTo
<1>7. Kv!KvInit
  BY <1>5, <1>6 DEF Kv!KvInit, Req, Dict
<1> QED BY <1>1, <1>7

\* EPL-Tree implements KvStore: on a machine that stays up, every Insert,
\* Update and Remove changes the value that Get returns for its own key,
\* exactly once and before it returns, and a split changes no key.
THEOREM EplTreeImplementsKvStore == Spec => ImplementsKvStore
<1>1. Init => KvInv
  BY InitImplements
<1>2. Init => Kv!KvInit
  BY InitImplements
<1>3. KvInv /\ [Next]_vars => KvInv'
  BY StepImplements
<1>4. KvInv /\ [Next]_vars => [Kv!KvNext]_(Kv!kvVars)
  BY StepImplements DEF Implements
<1> QED BY <1>1, <1>2, <1>3, <1>4, PTL DEF Spec, ImplementsKvStore, Kv!KvSpec
=============================================================================
