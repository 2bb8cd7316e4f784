--------------------------- MODULE EplTreeProofs ---------------------------
(***************************************************************************)
(* Proofs about EplTree for every entry size K, every set of keys and      *)
(* values and every pool size: the tree filled by Insert, changed by       *)
(* Update and Remove, on a machine that stays up (Spec).                   *)
(***************************************************************************)
EXTENDS EplTree, TLAPS, WellFoundedInduction

-----------------------------------------------------------------------------
(* Extrema of sets of naturals: what the CHOOSEs of the model denote. *)

\* A nonempty set of naturals has a smallest element.
LEMMA SmallestExists ==
  ASSUME NEW S \in SUBSET Nat, S # {}
  PROVE  \E x \in S : \A y \in S : x <= y
<1>1. IsWellFoundedOn(OpToRel(<, Nat), Nat)
  BY NatLessThanWellFounded
<1>2. PICK x \in S : \A y \in S : ~(<<y, x>> \in OpToRel(<, Nat))
  BY <1>1, WFMin
<1>3. \A y \in S : y < x => <<y, x>> \in OpToRel(<, Nat)
  BY DEF OpToRel
<1>4. \A y \in S : ~(y < x)
  BY <1>2, <1>3
<1> QED BY <1>4

\* A nonempty set of naturals that are not above k has a largest element.
LEMMA LargestExists ==
  ASSUME NEW S \in SUBSET Nat, S # {}, NEW k \in Nat, \A x \in S : x <= k
  PROVE  \E x \in S : \A y \in S : y <= x
<1> DEFINE T == {k - x : x \in S}
<1>1. T \in SUBSET Nat /\ T # {}
  <2>1. \A x \in S : k - x \in Nat
    OBVIOUS
  <2> QED BY <2>1
<1>2. PICK t \in T : \A u \in T : t <= u
  BY <1>1, SmallestExists
<1>3. PICK x \in S : t = k - x
  OBVIOUS
<1>4. \A y \in S : k - x <= k - y
  BY <1>2, <1>3
<1> QED BY <1>3, <1>4

-----------------------------------------------------------------------------
(* Entries. *)

\* A slot holds k: FirstSlot is such a slot, and a real one.
LEMMA FirstSlotIs ==
  ASSUME NEW e \in Block, NEW k, HasKey(e, k)
  PROVE  FirstSlot(e, k) \in Slots /\ e.key[FirstSlot(e, k)] = k
<1> DEFINE S == {i \in Slots : e.key[i] = k}
<1>1. S \in SUBSET Nat /\ S # {}
  BY KAssumption DEF HasKey, Slots
<1>2. PICK i \in S : \A j \in S : i <= j
  BY <1>1, SmallestExists
<1>3. \E x \in Slots : e.key[x] = k /\ \A j \in Slots : j < x => e.key[j] # k
  BY <1>2, KAssumption DEF Slots
<1> QED BY <1>3 DEF FirstSlot

LEMMA EmptyBlockType == EmptyBlock \in Block
  BY DEF EmptyBlock, Block

\* Masked entries are entries.
LEMMA OnLineType ==
  ASSUME NEW e \in Block, NEW l
  PROVE  OnLine(e, l) \in Block
  BY DEF OnLine, Part, Block

LEMMA ZeroedType ==
  ASSUME NEW e \in Block, NEW from, NEW w
  PROVE  Zeroed(e, from, w) \in Block
  BY DEF Zeroed, Part, Block

\* A recorded history of contents is a set of entries.
LEMMA WroteType ==
  ASSUME NEW d \in [Lines -> SUBSET Block], NEW vs \in SUBSET Block
  PROVE  Wrote(d, vs) \in [Lines -> SUBSET Block]
  BY OnLineType DEF Wrote

LEMMA PersistType ==
  ASSUME NEW e \in Block
  PROVE  Persist(e) \in [Lines -> SUBSET Block]
  BY OnLineType DEF Persist

LEMMA FlushWordType ==
  ASSUME NEW d \in [Lines -> SUBSET Block], NEW e \in Block, NEW w
  PROVE  FlushWord(d, e, w) \in [Lines -> SUBSET Block]
  BY OnLineType DEF FlushWord
\* Pairs that an entry can be filled with.
Pairs(kv, n) == \A i \in Slots : i < n => kv[i][1] \in Nat /\ kv[i][2] \in Nat

LEMMA StoreType ==
  ASSUME NEW e \in Block, NEW i \in Slots, NEW x \in Nat
  PROVE  /\ [e EXCEPT !.val[i] = x] \in Block
         /\ [e EXCEPT !.key[i] = x] \in Block
  BY DEF Block

LEMMA FillType ==
  ASSUME NEW e \in Block, NEW kv, NEW n \in Nat, Pairs(kv, n), NEW s \in 0..(2 * n)
  PROVE  Fill(e, kv, s) \in Block
<1>1. \A i \in Slots : i \in Nat
  BY KAssumption DEF Slots
<1>2. \A i \in Slots : 2 * i < s => i < n
  BY <1>1
<1>3. \A i \in Slots : 2 * i + 1 < s => i < n
  BY <1>1
<1>4. [i \in Slots |-> IF 2 * i + 1 < s THEN kv[i][1] ELSE e.key[i]] \in [Slots -> Nat]
  BY <1>3 DEF Pairs, Block
<1>5. [i \in Slots |-> IF 2 * i < s THEN kv[i][2] ELSE e.val[i]] \in [Slots -> Nat]
  BY <1>2 DEF Pairs, Block
<1> QED BY <1>4, <1>5 DEF Fill, Block

LEMMA NewEntryType ==
  ASSUME NEW e \in Block, NEW m \in Nat, NEW kv, NEW n \in Nat, Pairs(kv, n)
  PROVE  /\ NewEntry(m, kv, n) \in Block
         /\ NewEntryVersions(e, m, kv, n) \in SUBSET Block
<1>1. NewEntry(m, kv, n) \in Block
  BY DEF NewEntry, Block, Pairs
<1>2. [EmptyBlock EXCEPT !.min = m] \in Block
  BY DEF EmptyBlock, Block
<1>3. \A s \in 0..(2 * n) : Fill([EmptyBlock EXCEPT !.min = m], kv, s) \in Block
  BY <1>2, FillType
<1>4. \A w \in 0..NumWords : Zeroed(e, 0, w) \in Block
  BY ZeroedType
<1> QED BY <1>1, <1>3, <1>4 DEF NewEntryVersions

LEMMA SetOrderedKVsType ==
  ASSUME NEW e \in Block, NEW kv, NEW n \in Nat \ {0}, Pairs(kv, n)
  PROVE  /\ SetOrderedKVs(e, kv, n) \in Block
         /\ SetOrderedKVsVersions(e, kv, n) \in SUBSET Block
<1>1. kv[0][1] \in Nat
  BY KAssumption DEF Pairs, Slots
<1>2. SetOrderedKVs(e, kv, n) \in Block
  BY <1>1 DEF SetOrderedKVs, Block, Pairs
<1>3. \A s \in 0..(2 * n) : Fill(Zeroed(e, 3, NumWords), kv, s) \in Block
  BY FillType, ZeroedType
<1>4. \A w \in 3..NumWords : Zeroed(e, 3, w) \in Block
  BY ZeroedType
<1> QED BY <1>2, <1>3, <1>4 DEF SetOrderedKVsVersions

-----------------------------------------------------------------------------
(***************************************************************************)
(* The inductive invariant.                                                *)
(***************************************************************************)

\* The locals of a call are what the call's earlier steps computed.
OpInv ==
  /\ Serving
  /\ pc # "idle" => op.k \in Keys
  /\ pc = "flush" => op.ent \in Addr /\ op.i \in Slots
  /\ pc \in SplitPcs => op.ent \in Addr /\ op.new = cur /\ op.ent < cur

\* The head is indexed under 0, and only entries that were handed out are
\* indexed; a split's new entry is not indexed before SplitNew.
IndexInv ==
  /\ index[0] = EntryHead /\ first = EntryHead
  /\ \A m \in IndexKeys : index[m] <= cur
  /\ pc \in {"split_flag", "split_new"} => \A m \in IndexKeys : index[m] < cur

\* Index key m is the one that lookups for k end at.
Owns(m, k) == m \in IndexKeys /\ m <= k /\ \A n \in IndexKeys : n <= k => n <= m

\* Two index keys have different entries.
IndexInjective == \A m, n \in IndexKeys : index[m] = index[n] => m = n

\* Every key in the entry of index key m is owned by m and in one slot.
Owned ==
  \A m \in IndexKeys : \A i \in Slots :
    nvm[index[m]].key[i] # 0 =>
      /\ nvm[index[m]].key[i] \in Keys
      /\ Owns(m, nvm[index[m]].key[i])
      /\ \A j \in Slots : nvm[index[m]].key[j] = nvm[index[m]].key[i] => j = i

\* The key of a running Insert is not in the entry it belongs to.
InsertInv ==
  pc = "insert" => \A i \in Slots : nvm[Route(op.k)].key[i] # op.k

\* Until SplitNew: tmp_kvs has the keys of the full entry that is being
\* split, strictly ascending, and the new entry has its right half.
SplitInv ==
  pc \in {"split_flag", "split_new"} =>
    /\ op.ent = Route(op.k)
    /\ \A i \in Slots : nvm[op.ent].key[i] \notin {0, op.k}
    /\ \A i \in Slots : \E j \in Slots : op.tmp[i][1] = nvm[op.ent].key[j]
    /\ \A i, j \in Slots : i < j => op.tmp[i][1] < op.tmp[j][1]
    /\ \A i \in Slots : nvm[op.new].key[i] =
                          IF i < K - Half THEN op.tmp[i + Half][1] ELSE 0

\* After SplitNew: the key still waits to be inserted.
SplitEndInv ==
  pc = "split_entry" => \A i \in Slots : nvm[Route(op.k)].key[i] # op.k

IndInv ==
  /\ TypeOK /\ OpInv /\ IndexInv
  /\ IndexInjective /\ Owned /\ InsertInv /\ SplitInv /\ SplitEndInv

\* What a line may hold lies in that line.
InLine(x, l) ==
  \A i \in Slots : /\ LineOf(KeyWord(i)) # l => x.key[i] = 0
                   /\ LineOf(ValWord(i)) # l => x.val[i] = 0

Shaped(d) == \A l \in Lines : \A x \in d[l] : InLine(x, l)

ShapeInv == \A a \in Addr : Shaped(dur[a])

\* Everything but straddling values is durable.
Durable(d, e) == \A l \in Lines : \A x \in d[l] : SameButStraddling(x, OnLine(e, l))

\* Everything but straddling values and slot i is durable.
SameButSlot(x, y, i) ==
  /\ x.next = y.next /\ x.min = y.min /\ x.flag = y.flag
  /\ \A j \in Slots \ {i} : /\ x.key[j] = y.key[j]
                            /\ ~Straddles(j) => x.val[j] = y.val[j]

DurableBut(d, e, i) == \A l \in Lines : \A x \in d[l] : SameButSlot(x, OnLine(e, l), i)

\* Entries in the middle of a split may not be durable, and neither may the
\* slot that waits for its flush; everything else is.
DurInv ==
  \A a \in Addr :
    \/ pc \in SplitPcs /\ a = op.ent
    \/ pc \in {"split_flag", "split_new"} /\ a = op.new
    \/ pc = "flush" /\ a = op.ent /\ DurableBut(dur[a], nvm[a], op.i)
    \/ Durable(dur[a], nvm[a])

-----------------------------------------------------------------------------
(* Lookups. *)

LEMMA IndexKeysNat == IndexKeys \subseteq Nat
<1>1. \A m \in Keys : m \in Nat
  BY KeysAssumption
<1> QED BY <1>1 DEF IndexKeys

\* Some index key owns k, and its payload is the entry that lookups find.
LEMMA OwnerExists ==
  ASSUME TypeOK, IndexInv, NEW k \in Nat
  PROVE  \E m : Owns(m, k) /\ Route(k) = index[m]
<1> DEFINE S == {m \in IndexKeys : m <= k}
<1>1. 0 \in S
  BY DEF IndexInv, IndexKeys, EntryHead, Null
<1>2. S \in SUBSET Nat
  BY IndexKeysNat
<1>3. PICK m \in S : \A n \in S : n <= m
  <2>1. \A n \in S : n <= k
    OBVIOUS
  <2> QED BY <1>1, <1>2, <2>1, LargestExists
<1> DEFINE P(x) == x \in IndexKeys /\ x <= k /\ \A n \in IndexKeys : n <= k => n <= x
<1>4. P(m)
  BY <1>3
<1>5. P(CHOOSE x \in IndexKeys : x <= k /\ \A n \in IndexKeys : n <= k => n <= x)
  BY <1>4
<1>6. \E x \in IndexKeys : x <= k
  BY <1>1
<1> QED BY <1>5, <1>6 DEF Route, Owns

\* The same, as a formula that can be primed.
Lookups == \A k \in Nat : \E m : Owns(m, k) /\ Route(k) = index[m]

LEMMA LookupsHold == TypeOK /\ IndexInv => Lookups
  BY OwnerExists DEF Lookups

\* There is only one owner.
LEMMA OwnerUnique ==
  ASSUME NEW k \in Nat, NEW m, NEW n, Owns(m, k), Owns(n, k)
  PROVE  m = n
  BY IndexKeysNat DEF Owns

LEMMA RouteIs ==
  ASSUME TypeOK, IndexInv, NEW k \in Nat, NEW m, Owns(m, k)
  PROVE  Route(k) = index[m]
  BY OwnerExists, OwnerUnique

LEMMA RouteType ==
  ASSUME TypeOK, IndexInv, NEW k \in Nat
  PROVE  Route(k) \in Addr /\ Route(k) \in Indexed /\ Route(k) <= cur
<1>1. PICK m : Owns(m, k) /\ Route(k) = index[m]
  BY OwnerExists
<1>2. m \in IndexKeys /\ index[m] # Null
  BY <1>1 DEF Owns, IndexKeys
<1>3. index[m] \in Addr
  BY <1>2 DEF IndexKeys, TypeOK
<1> QED BY <1>1, <1>2, <1>3 DEF IndexInv, Indexed
-----------------------------------------------------------------------------
(* Types. *)

LEMMA KeysNat == \A k \in Keys : k \in Nat /\ k # 0
  BY KeysAssumption

LEMMA ValsNat == \A v \in Vals \union {0} : v \in Nat
<1>1. \A v \in Vals : v \in Nat
  BY ValsAssumption
<1> QED BY <1>1

\* Both halves of a split are nonempty and together they are the entry.
LEMMA HalfFacts ==
  /\ Half \in Nat /\ Half >= 1 /\ Half < K
  /\ (K + 1) \div 2 = K - Half
  /\ K - Half \in Nat
  BY KAssumption DEF Half

LEMMA NoOpType == NoOp \in OpType
<1>1. NoTmp \in [Slots -> Nat \X Nat]
  BY DEF NoTmp
<1>2. <<>> \in Seq(Nat \X Nat)
  OBVIOUS
<1> QED BY <1>1, <1>2 DEF NoOp, OpType, Null

\* The value Get returns is a natural number.
LEMMA GetType ==
  ASSUME TypeOK, IndexInv, NEW k \in Nat
  PROVE  Get(k) \in Nat
<1>1. nvm[Route(k)] \in Block
  BY RouteType DEF TypeOK
<1>2. CASE Found(k)
  <2>1. FirstSlot(nvm[Route(k)], k) \in Slots
    BY <1>1, <1>2, FirstSlotIs DEF Found
  <2> QED BY <1>1, <1>2, <2>1 DEF Get, Block
<1>3. CASE ~Found(k)
  BY <1>3 DEF Get
<1> QED BY <1>2, <1>3

\* A write of entry a keeps the types of NVM.
LEMMA WriteType ==
  ASSUME TypeOK, NEW a \in Addr, NEW e \in Block, NEW vs \in SUBSET Block,
         e.next \in Addr \union {Null}, Write(a, e, vs)
  PROVE  /\ nvm' \in [Addr -> Block]
         /\ \A b \in Addr : nvm'[b].next \in Addr \union {Null}
         /\ dur' \in [Addr -> [Lines -> SUBSET Block]]
<1>1. Wrote(dur[a], vs \union {e}) \in [Lines -> SUBSET Block]
  BY WroteType DEF TypeOK
<1> QED BY <1>1 DEF Write, TypeOK

LEMMA InitType == Init => TypeOK
<1> SUFFICES ASSUME Init PROVE TypeOK
  OBVIOUS
<1>1. EntryHead \in Addr /\ 1 \in Addr
  BY MaxEntriesAssumption DEF EntryHead, Addr
<1>2. nvm \in [Addr -> Block] /\ \A a \in Addr : nvm[a].next \in Addr \union {Null}
  BY EmptyBlockType DEF Init, EmptyBlock, Null
<1>3. dur \in [Addr -> [Lines -> SUBSET Block]]
  BY EmptyBlockType, PersistType DEF Init
<1>4. index \in [Keys \union {0} -> Addr \union {Null}]
  BY <1>1 DEF Init
<1>5. pc \in Pcs /\ op \in OpType /\ crashes \in Nat
  BY NoOpType DEF Init, Pcs
<1>6. DOMAIN img \subseteq Addr /\ \A a \in DOMAIN img : img[a] \in Block
  BY DEF Init
<1> QED BY <1>1, <1>2, <1>3, <1>4, <1>5, <1>6 DEF Init, TypeOK

LEMMA InsertType ==
  ASSUME TypeOK, NEW k \in Keys, NEW v \in Vals, Insert(k, v)
  PROVE  TypeOK'
<1>1. op' \in OpType
  BY NoOpType DEF Insert, OpType, NoOp
<1> QED BY <1>1 DEF Insert, TypeOK, Pcs

LEMMA MaybePutType ==
  ASSUME TypeOK, OpInv, IndexInv, MaybePut
  PROVE  TypeOK' /\ op'.ent = Route(op.k) /\ op'.i \in Slots
<1> DEFINE a == Route(op.k)
           e == nvm[a]
           i == FirstSlot(e, 0)
           e1 == [e EXCEPT !.val[i] = op.v]
           e2 == [e1 EXCEPT !.key[i] = op.k]
<1>1. op.k \in Keys /\ op.k \in Nat
  BY KeysNat DEF MaybePut, OpInv
<1>2. a \in Addr /\ e \in Block /\ e.next \in Addr \union {Null}
  BY <1>1, RouteType DEF TypeOK
<1>3. i \in Slots
  <2>1. HasKey(e, 0)
    BY DEF MaybePut, Full
  <2> QED BY <1>2, <2>1, FirstSlotIs
<1>4. op.v \in Nat
  BY ValsNat DEF TypeOK, OpType
<1>5. e1 \in Block
  BY <1>2, <1>3, <1>4, StoreType
<1>6. e2 \in Block /\ e2.next = e.next
  BY <1>1, <1>3, <1>5, StoreType DEF Block
<1>7. Write(a, e2, {e1})
  BY DEF MaybePut
<1>8. op' = [op EXCEPT !.ent = a, !.i = i]
  BY DEF MaybePut
<1>9. op' \in OpType /\ op'.ent = a /\ op'.i = i
  <2>1. i \in Nat
    BY <1>3, KAssumption DEF Slots
  <2> HIDE DEF a, i
  <2> QED BY <1>2, <1>8, <2>1 DEF TypeOK, OpType
<1>10. /\ nvm' \in [Addr -> Block]
       /\ \A b \in Addr : nvm'[b].next \in Addr \union {Null}
       /\ dur' \in [Addr -> [Lines -> SUBSET Block]]
  <2> HIDE DEF a, e1, e2
  <2>1. {e1} \in SUBSET Block
    BY <1>5
  <2>2. e2.next \in Addr \union {Null}
    BY <1>2, <1>6
  <2> QED BY <1>2, <1>6, <1>7, <2>1, <2>2, WriteType
<1> QED BY <1>3, <1>9, <1>10 DEF MaybePut, TypeOK, Pcs

\* No store of the constructor or of setOrderedKVs makes a link.
LEMMA VersionsNext ==
  ASSUME NEW e \in Block, NEW m, NEW kv, NEW n
  PROVE  /\ \A v \in NewEntryVersions(e, m, kv, n) : v.next \in {e.next, 0}
         /\ \A v \in SetOrderedKVsVersions(e, kv, n) : v.next = e.next
<1>1. \A from, w : Zeroed(e, from, w).next \in {e.next, 0}
  BY DEF Zeroed, Part
<1>2. \A w : Zeroed(e, 3, w).next = e.next
  BY DEF Zeroed, Part
<1>3. \A s : Fill([EmptyBlock EXCEPT !.min = m], kv, s).next = 0
  BY DEF Fill, EmptyBlock
<1>4. \A s : Fill(Zeroed(e, 3, NumWords), kv, s).next = e.next
  BY <1>2 DEF Fill, Zeroed, Part
<1>5. SetOrderedKVs(e, kv, n).next = e.next
  BY DEF SetOrderedKVs, Block
<1> QED BY <1>1, <1>2, <1>3, <1>4, <1>5 DEF NewEntryVersions, SetOrderedKVsVersions

\* What SplitBegin does, for the entry a that is full and the new one b.
LEMMA SplitBeginIs ==
  ASSUME TypeOK, OpInv, IndexInv, SplitBegin
  PROVE  /\ TypeOK'
         /\ op.k \in Keys /\ op' = [op EXCEPT !.ent = Route(op.k), !.new = cur + 1,
                                             !.tmp = op'.tmp]
         /\ Route(op.k) \in Addr /\ cur + 1 \in Addr /\ Route(op.k) <= cur
         /\ cur' = cur + 1
         /\ \A c \in Addr : c \notin {Route(op.k), cur + 1} =>
                             nvm'[c] = nvm[c] /\ dur'[c] = dur[c]
         /\ nvm'[Route(op.k)] = [nvm[Route(op.k)] EXCEPT !.flag = 1]
         /\ \A i \in Slots : nvm'[cur + 1].key[i] =
                              IF i < K - Half THEN op'.tmp[i + Half][1] ELSE 0
         /\ \A i \in Slots : nvm'[cur + 1].val[i] =
                              IF i < K - Half THEN op'.tmp[i + Half][2] ELSE 0
         /\ \E f \in [Slots -> Slots] :
               /\ SortedBy(nvm[Route(op.k)], f)
               /\ \A i \in Slots : op'.tmp[i][1] = nvm[Route(op.k)].key[f[i]]
               /\ \A i \in Slots : op'.tmp[i][2] = nvm[Route(op.k)].val[f[i]]
         /\ dur'[Route(op.k)] = Wrote(dur[Route(op.k)], {nvm'[Route(op.k)]})
         /\ \E vs : /\ dur'[cur + 1] = Wrote(dur[cur + 1], vs)
                    /\ \A v \in vs : v.next \in Addr \union {Null}
         /\ nvm'[cur + 1].min = op'.tmp[Half][1]
<1> DEFINE a == Route(op.k)
           e == nvm[a]
           b == cur + 1
           n == (K + 1) \div 2
<1>1. op.k \in Keys /\ op.k \in Nat
  BY KeysNat DEF SplitBegin, OpInv
<1>2. a \in Addr /\ a <= cur /\ e \in Block /\ e.next \in Addr \union {Null}
  BY <1>1, RouteType DEF TypeOK
<1>3. b \in Addr /\ cur \in Nat /\ a # b
  <2>1. cur \in 1..MaxEntries /\ cur < MaxEntries
    BY DEF SplitBegin, TypeOK, Addr
  <2>2. b \in 1..MaxEntries
    BY <2>1, MaxEntriesAssumption
  <2> HIDE DEF a
  <2> QED BY <1>2, <2>1, <2>2, MaxEntriesAssumption DEF Addr
<1>4. PICK f \in [Slots -> Slots] :
        /\ SortedBy(e, f)
        /\ LET tmp == [i \in Slots |-> <<e.key[f[i]], e.val[f[i]]>>]
               right == RightHalf(tmp)
               new == NewEntry(right[0][1], right, n)
           IN /\ nvm' = [nvm EXCEPT ![b] = new, ![a].flag = 1]
              /\ dur' = [dur EXCEPT
                   ![b] = Wrote(@, NewEntryVersions(nvm[b], right[0][1], right, n)
                                     \union {new}),
                   ![a] = Wrote(@, {nvm'[a]})]
              /\ op' = [op EXCEPT !.ent = a, !.new = b, !.tmp = tmp]
  BY DEF SplitBegin, AllocAligned
<1> DEFINE tmp == [i \in Slots |-> <<e.key[f[i]], e.val[f[i]]>>]
           right == RightHalf(tmp)
           new == NewEntry(right[0][1], right, n)
<1>5. nvm' = [nvm EXCEPT ![b] = new, ![a].flag = 1]
  BY <1>4
<1>6. op' = [op EXCEPT !.ent = a, !.new = b, !.tmp = tmp]
  BY <1>4
<1>7. dur' = [dur EXCEPT
                   ![b] = Wrote(@, NewEntryVersions(nvm[b], right[0][1], right, n)
                                     \union {new}),
                   ![a] = Wrote(@, {nvm'[a]})]
  BY <1>4
<1>8. tmp \in [Slots -> Nat \X Nat]
  BY <1>2 DEF Block
<1>9. n = K - Half /\ n \in Nat
  BY HalfFacts
<1>10. \A i \in 0..(K - Half - 1) : i + Half \in Slots /\ right[i] = tmp[i + Half]
  BY HalfFacts, KAssumption DEF RightHalf, Slots
<1>11. Pairs(right, n) /\ right[0][1] \in Nat
  <2> HIDE DEF tmp, right
  <2>1. \A i \in Slots : i < n => i \in 0..(K - Half - 1)
    BY <1>9, KAssumption, HalfFacts DEF Slots
  <2>2. 0 \in 0..(K - Half - 1)
    BY HalfFacts, KAssumption
  <2>3. \A i \in 0..(K - Half - 1) : right[i] \in Nat \X Nat
    BY <1>8, <1>10
  <2> QED BY <2>1, <2>2, <2>3 DEF Pairs
<1>12. new \in Block /\ new.next = Null
       /\ NewEntryVersions(nvm[b], right[0][1], right, n) \in SUBSET Block
  <2> HIDE DEF right
  <2>1. nvm[b] \in Block
    BY <1>3 DEF TypeOK
  <2> QED BY <1>9, <1>11, <2>1, NewEntryType DEF NewEntry, Null
<1>13. /\ \A i \in Slots : new.key[i] = IF i < K - Half THEN tmp[i + Half][1] ELSE 0
       /\ \A i \in Slots : new.val[i] = IF i < K - Half THEN tmp[i + Half][2] ELSE 0
  <2> HIDE DEF tmp, right
  <2>1. /\ \A i \in Slots : new.key[i] = IF i < n THEN right[i][1] ELSE 0
        /\ \A i \in Slots : new.val[i] = IF i < n THEN right[i][2] ELSE 0
    BY DEF NewEntry
  <2> HIDE DEF new
  <2>2. \A i \in Slots : i < n => i \in 0..(K - Half - 1)
    BY <1>9, KAssumption, HalfFacts DEF Slots
  <2> QED BY <1>9, <1>10, <2>1, <2>2
<1>13a. new.min = tmp[Half][1]
  <2> HIDE DEF tmp, right
  <2>1. 0 \in 0..(K - Half - 1) /\ 0 + Half = Half
    BY HalfFacts, KAssumption
  <2>2. right[0] = tmp[Half]
    BY <1>10, <2>1
  <2> QED BY <2>2 DEF NewEntry
<1>13b. \A v \in NewEntryVersions(nvm[b], right[0][1], right, n) \union {new} :
          v.next \in Addr \union {Null}
  <2> HIDE DEF right, new
  <2>1. nvm[b] \in Block /\ nvm[b].next \in Addr \union {Null}
    BY <1>3 DEF TypeOK
  <2> QED BY <2>1, <1>12, VersionsNext DEF Null
<1>14. /\ nvm'[b] = new /\ nvm'[a] = [e EXCEPT !.flag = 1]
       /\ \A c \in Addr : c \notin {a, b} => nvm'[c] = nvm[c]
  <2> HIDE DEF new, a, b
  <2> QED BY <1>2, <1>3, <1>5 DEF TypeOK
<1>15. /\ nvm' \in [Addr -> Block]
       /\ \A c \in Addr : nvm'[c].next \in Addr \union {Null}
  <2>1. [e EXCEPT !.flag = 1] \in Block /\ [e EXCEPT !.flag = 1].next = e.next
    BY <1>2 DEF Block
  <2> HIDE DEF new, a, b, e
  <2>2. DOMAIN nvm' = Addr /\ nvm' = [c \in Addr |-> nvm'[c]]
    BY <1>5 DEF TypeOK
  <2>3. \A c \in Addr : nvm'[c] \in Block /\ nvm'[c].next \in Addr \union {Null}
    BY <1>2, <1>12, <1>14, <2>1 DEF TypeOK
  <2> QED BY <2>2, <2>3
<1>16. /\ dur' \in [Addr -> [Lines -> SUBSET Block]]
       /\ \A c \in Addr : c \notin {a, b} => dur'[c] = dur[c]
       /\ dur'[a] = Wrote(dur[a], {nvm'[a]})
       /\ \E vs : dur'[b] = Wrote(dur[b], vs) /\ \A v \in vs : v.next \in Addr \union {Null}
  <2> DEFINE db == Wrote(dur[b], NewEntryVersions(nvm[b], right[0][1], right, n)
                                     \union {new})
             da == Wrote(dur[a], {nvm'[a]})
  <2>1. db \in [Lines -> SUBSET Block]
    <3> HIDE DEF right, new, b, n
    <3> QED BY <1>3, <1>12, WroteType DEF TypeOK
  <2>2. da \in [Lines -> SUBSET Block]
    <3>1. {nvm'[a]} \in SUBSET Block /\ dur[a] \in [Lines -> SUBSET Block]
      BY <1>2, <1>15 DEF TypeOK
    <3> QED BY <3>1, WroteType
  <2>3. dur' = [dur EXCEPT ![b] = db, ![a] = da]
    <3> HIDE DEF a, b, right, new, n
    <3> QED BY <1>2, <1>3, <1>7 DEF TypeOK
  <2>4. \E vs : db = Wrote(dur[b], vs) /\ \A v \in vs : v.next \in Addr \union {Null}
    <3> DEFINE ws == NewEntryVersions(nvm[b], right[0][1], right, n) \union {new}
    <3>1. db = Wrote(dur[b], ws) /\ \A v \in ws : v.next \in Addr \union {Null}
      BY <1>13b
    <3> HIDE DEF ws, db
    <3> QED BY <3>1
  <2> HIDE DEF db, a, b
  <2>5. da = Wrote(dur[a], {nvm'[a]})
    OBVIOUS
  <2> HIDE DEF da
  <2>6. dur'[a] = da /\ dur'[b] = db
    BY <1>2, <1>3, <2>3 DEF TypeOK
  <2> QED BY <2>6, <1>2, <1>3, <2>1, <2>2, <2>3, <2>4, <2>5 DEF TypeOK
<1>17. op' \in OpType /\ op'.tmp = tmp
  <2> HIDE DEF tmp, a, b
  <2> QED BY <1>2, <1>3, <1>6, <1>8 DEF TypeOK, OpType
<1>18. TypeOK'
  <2>1. cur' \in Addr /\ pc' \in Pcs /\ UNCHANGED <<index, first, img, crashes>>
    BY <1>3 DEF SplitBegin, AllocAligned, Pcs, SplitPcs
  <2> HIDE DEF a, b, tmp, new
  <2> QED BY <1>15, <1>16, <1>17, <2>1 DEF TypeOK
<1>19. \A i \in Slots : op'.tmp[i][1] = e.key[f[i]] /\ op'.tmp[i][2] = e.val[f[i]]
  BY <1>17
<1>20. cur' = cur + 1
  BY DEF SplitBegin, AllocAligned
<1> HIDE DEF tmp, right, new
<1>21. /\ \A i \in Slots : nvm'[b].key[i] = IF i < K - Half THEN op'.tmp[i + Half][1] ELSE 0
       /\ \A i \in Slots : nvm'[b].val[i] = IF i < K - Half THEN op'.tmp[i + Half][2] ELSE 0
  BY <1>13, <1>14, <1>17
<1>21a. nvm'[b].min = op'.tmp[Half][1]
  BY <1>13a, <1>14, <1>17
<1>22. op' = [op EXCEPT !.ent = a, !.new = b, !.tmp = op'.tmp]
  BY <1>6, <1>17
<1> HIDE DEF a, b, e
<1>23. \E g \in [Slots -> Slots] :
         /\ SortedBy(e, g)
         /\ \A i \in Slots : op'.tmp[i][1] = e.key[g[i]]
         /\ \A i \in Slots : op'.tmp[i][2] = e.val[g[i]]
  BY <1>4, <1>19
<1> QED BY <1>1, <1>2, <1>3, <1>14, <1>16, <1>18, <1>20, <1>21, <1>21a, <1>22, <1>23 DEF a, b, e
LEMMA SplitFlagType ==
  ASSUME TypeOK, OpInv, SplitFlag
  PROVE  TypeOK'
<1> DEFINE e == [nvm[op.new] EXCEPT !.next = nvm[op.ent].next]
           da == FlushWord(dur[op.ent], nvm[op.ent], 2)
           db == Wrote(dur[op.new], {e})
<1>1. op.ent \in Addr /\ op.new \in Addr /\ op.ent # op.new
  BY DEF SplitFlag, OpInv, SplitPcs, TypeOK, Addr
<1>2. e \in Block /\ e.next = nvm[op.ent].next /\ e.next \in Addr \union {Null}
  <2> DEFINE old == nvm[op.new]
             x == nvm[op.ent].next
  <2>1. old \in Block /\ x \in Nat /\ x \in Addr \union {Null}
    BY <1>1 DEF TypeOK, Block
  <2> HIDE DEF old, x
  <2>2. [old EXCEPT !.next = x] \in Block /\ [old EXCEPT !.next = x].next = x
    BY <2>1 DEF Block
  <2> QED BY <2>1, <2>2 DEF old, x
<1>3. da \in [Lines -> SUBSET Block]
  BY <1>1, FlushWordType DEF TypeOK
<1>4. db \in [Lines -> SUBSET Block]
  <2>1. {e} \in SUBSET Block /\ dur[op.new] \in [Lines -> SUBSET Block]
    BY <1>1, <1>2 DEF TypeOK
  <2> QED BY <2>1, WroteType
<1>5. nvm' = [nvm EXCEPT ![op.new] = e]
  BY DEF SplitFlag
<1>6. dur' = [dur EXCEPT ![op.ent] = da, ![op.new] = db]
  BY <1>1 DEF SplitFlag, TypeOK
<1>7. nvm' \in [Addr -> Block] /\ \A b \in Addr : nvm'[b].next \in Addr \union {Null}
  <2> HIDE DEF e
  <2> QED BY <1>1, <1>2, <1>5 DEF TypeOK
<1>8. dur' \in [Addr -> [Lines -> SUBSET Block]]
  <2> HIDE DEF da, db
  <2> QED BY <1>3, <1>4, <1>6 DEF TypeOK
<1>9. UNCHANGED <<index, first, cur, op, img, crashes>> /\ pc' \in Pcs
  BY DEF SplitFlag, Pcs, SplitPcs
<1> QED BY <1>7, <1>8, <1>9 DEF TypeOK

\* What SplitNew does to NVM, and the types.
LEMMA SplitNewIs ==
  ASSUME TypeOK, OpInv, SplitInv, SplitNew
  PROVE  /\ TypeOK'
         /\ op.ent \in Addr /\ op.new \in Addr /\ op.ent # op.new
         /\ \A c \in Addr : c # op.ent => nvm'[c] = nvm[c]
         /\ \A i \in Slots : nvm'[op.ent].key[i] = IF i < Half THEN op.tmp[i][1] ELSE 0
         /\ \A i \in Slots : nvm'[op.ent].val[i] = IF i < Half THEN op.tmp[i][2] ELSE 0
         /\ nvm'[op.ent].next = op.new
         /\ \A c \in Addr : c \notin {op.ent, op.new} => dur'[c] = dur[c]
         /\ dur'[op.new] = Persist(nvm[op.new])
         /\ \E vs : /\ dur'[op.ent] = Wrote(dur[op.ent], vs)
                    /\ \A v \in vs : v.next \in Addr \union {Null}
         /\ nvm'[op.ent].min = op.tmp[0][1]
<1> DEFINE e == [nvm[op.ent] EXCEPT !.next = op.new]
           e1 == SetOrderedKVs(e, op.tmp, Half)
           e2 == [e1 EXCEPT !.flag = 0]
           vs == {e, e2} \union SetOrderedKVsVersions(e, op.tmp, Half)
           da == Wrote(dur[op.ent], vs)
           db == Persist(nvm[op.new])
<1>1. op.ent \in Addr /\ op.new \in Addr /\ op.ent # op.new
  BY DEF SplitNew, OpInv, SplitPcs, TypeOK, Addr
<1>2. e \in Block /\ e.next = op.new
  <2>1. nvm[op.ent] \in Block /\ op.new \in Nat
    BY <1>1, MaxEntriesAssumption DEF TypeOK, Addr
  <2> QED BY <2>1 DEF Block
<1>3. Half \in Nat \ {0} /\ Pairs(op.tmp, Half)
  <2>1. op.tmp \in [Slots -> Nat \X Nat]
    BY DEF TypeOK, OpType
  <2>2. Half \in Nat \ {0}
    BY HalfFacts
  <2> QED BY <2>1, <2>2 DEF Pairs
<1>4. e1 \in Block /\ SetOrderedKVsVersions(e, op.tmp, Half) \in SUBSET Block
  <2> HIDE DEF e
  <2> QED BY <1>2, <1>3, SetOrderedKVsType
<1>5. /\ e1.next = op.new /\ e1.min = op.tmp[0][1]
      /\ \A i \in Slots : e1.key[i] = IF i < Half THEN op.tmp[i][1] ELSE 0
      /\ \A i \in Slots : e1.val[i] = IF i < Half THEN op.tmp[i][2] ELSE 0
  <2> HIDE DEF e
  <2> QED BY <1>2 DEF SetOrderedKVs, Block
<1>6. e2 \in Block /\ e2.next = op.new /\ e2.min = e1.min /\ e2.key = e1.key /\ e2.val = e1.val
  <2> HIDE DEF e1
  <2> QED BY <1>4, <1>5 DEF Block
<1>7. da \in [Lines -> SUBSET Block]
  <2>1. vs \in SUBSET Block /\ dur[op.ent] \in [Lines -> SUBSET Block]
    <3> HIDE DEF e, e2
    <3> QED BY <1>1, <1>2, <1>4, <1>6 DEF TypeOK
  <2> HIDE DEF vs
  <2> QED BY <2>1, WroteType
<1>7a. \A v \in vs : v.next \in Addr \union {Null}
  <2> HIDE DEF e, e2
  <2>1. \A v \in SetOrderedKVsVersions(e, op.tmp, Half) : v.next = e.next
    BY <1>2, VersionsNext
  <2> QED BY <1>1, <1>2, <1>6, <2>1
<1>8. db \in [Lines -> SUBSET Block]
  BY <1>1, PersistType DEF TypeOK
<1>9. nvm' = [nvm EXCEPT ![op.ent] = e2]
  BY DEF SplitNew
<1>10. dur' = [dur EXCEPT ![op.new] = db, ![op.ent] = da]
  <2>1. dur' = [dur EXCEPT ![op.new] = db, ![op.ent] = Wrote(@, vs)]
    BY DEF SplitNew
  <2> HIDE DEF vs, db
  <2> QED BY <1>1, <2>1 DEF TypeOK
<1>11. nvm' \in [Addr -> Block] /\ \A b \in Addr : nvm'[b].next \in Addr \union {Null}
  <2> HIDE DEF e2
  <2> QED BY <1>1, <1>6, <1>9 DEF TypeOK
<1>12. dur' \in [Addr -> [Lines -> SUBSET Block]]
  <2> HIDE DEF da, db
  <2> QED BY <1>7, <1>8, <1>10 DEF TypeOK
<1>13. Half \in Slots /\ op.tmp[Half][1] \in Nat
  BY HalfFacts, KAssumption DEF Slots, TypeOK, OpType
<1>14. index' \in [Keys \union {0} -> Addr \union {Null}] /\ first' \in Addr
  BY <1>1 DEF SplitNew, IndexInsert, TypeOK
<1>15. UNCHANGED <<cur, op, img, crashes>> /\ pc' \in Pcs
  BY DEF SplitNew, Pcs, SplitPcs
<1>16. TypeOK'
  BY <1>11, <1>12, <1>14, <1>15 DEF TypeOK
<1>17. /\ \A c \in Addr : c # op.ent => nvm'[c] = nvm[c]
       /\ nvm'[op.ent].key = e1.key /\ nvm'[op.ent].val = e1.val /\ nvm'[op.ent].next = op.new
       /\ nvm'[op.ent].min = e1.min
  <2> HIDE DEF e1, e2
  <2> QED BY <1>1, <1>6, <1>9 DEF TypeOK
<1>18. /\ \A c \in Addr : c \notin {op.ent, op.new} => dur'[c] = dur[c]
       /\ dur'[op.new] = db
       /\ \E w : dur'[op.ent] = Wrote(dur[op.ent], w) /\ \A v \in w : v.next \in Addr \union {Null}
  <2>1. \E w : da = Wrote(dur[op.ent], w) /\ \A v \in w : v.next \in Addr \union {Null}
    <3>1. \A v \in vs : v.next \in Addr \union {Null}
      BY <1>7a
    <3> HIDE DEF vs
    <3> QED BY <3>1
  <2> HIDE DEF da, db
  <2> QED BY <1>1, <1>10, <2>1 DEF TypeOK
<1> HIDE DEF e1
<1> QED BY <1>1, <1>5, <1>16, <1>17, <1>18
LEMMA SplitEntryType ==
  ASSUME TypeOK, OpInv, SplitEntry
  PROVE  TypeOK' /\ \A c \in Addr : c # op.ent => dur'[c] = dur[c]
<1>1. op.ent \in Addr /\ Persist(nvm[op.ent]) \in [Lines -> SUBSET Block]
  BY PersistType DEF SplitEntry, OpInv, SplitPcs, TypeOK
<1>2. /\ dur' \in [Addr -> [Lines -> SUBSET Block]]
      /\ \A c \in Addr : c # op.ent => dur'[c] = dur[c]
  BY <1>1 DEF SplitEntry, PersistEntry, TypeOK
<1>3. op' \in OpType
  BY NoOpType DEF SplitEntry, TypeOK, OpType, NoOp
<1>4. UNCHANGED <<nvm, index, first, cur, img, crashes>> /\ pc' \in Pcs
  BY DEF SplitEntry, Pcs
<1> QED BY <1>2, <1>3, <1>4 DEF TypeOK

\* Update and Remove write one word of the slot that holds k.
LEMMA UpdateIs ==
  ASSUME TypeOK, IndexInv, NEW k \in Keys, NEW v \in Vals, Update(k, v)
  PROVE  /\ TypeOK'
         /\ op'.k = k /\ op'.ent = Route(k) /\ op'.i = FirstSlot(nvm[Route(k)], k)
         /\ Route(k) \in Addr /\ FirstSlot(nvm[Route(k)], k) \in Slots
<1> DEFINE a == Route(k)
           i == FirstSlot(nvm[a], k)
           e == [nvm[a] EXCEPT !.val[i] = v]
<1>1. k \in Nat /\ v \in Nat /\ v \in Vals
  BY KeysNat, ValsNat
<1>2. a \in Addr /\ nvm[a] \in Block
  BY <1>1, RouteType DEF TypeOK
<1>3. i \in Slots /\ i \in Nat
  BY <1>2, FirstSlotIs, KAssumption DEF Update, Found, Slots
<1>4. e \in Block /\ e.next = nvm[a].next
  BY <1>1, <1>2, <1>3, StoreType DEF Block
<1>5. Write(a, e, {})
  BY DEF Update
<1>6. /\ nvm' \in [Addr -> Block]
      /\ \A b \in Addr : nvm'[b].next \in Addr \union {Null}
      /\ dur' \in [Addr -> [Lines -> SUBSET Block]]
  <2>1. e.next \in Addr \union {Null}
    BY <1>2, <1>4 DEF TypeOK
  <2> HIDE DEF a, e
  <2> QED BY <1>2, <1>4, <1>5, <2>1, WriteType
<1>7. op' = [NoOp EXCEPT !.call = "update", !.k = k, !.v = v,
                        !.old = Get(k), !.ent = a, !.i = i]
  BY DEF Update
<1>8. op' \in OpType /\ op'.k = k /\ op'.ent = a /\ op'.i = i
  <2>1. Get(k) \in Nat
    BY <1>1, GetType
  <2> HIDE DEF a, i
  <2> QED BY <1>1, <1>2, <1>3, <1>7, <2>1, NoOpType DEF OpType, NoOp
<1>9. UNCHANGED <<index, first, cur, img, crashes>> /\ pc' \in Pcs
  BY DEF Update, Pcs
<1>10. TypeOK'
  BY <1>6, <1>8, <1>9 DEF TypeOK
<1> QED BY <1>2, <1>3, <1>8, <1>10

LEMMA RemoveIs ==
  ASSUME TypeOK, IndexInv, NEW k \in Keys, Remove(k)
  PROVE  /\ TypeOK'
         /\ op'.k = k /\ op'.ent = Route(k) /\ op'.i = FirstSlot(nvm[Route(k)], k)
         /\ Route(k) \in Addr /\ FirstSlot(nvm[Route(k)], k) \in Slots
<1> DEFINE a == Route(k)
           i == FirstSlot(nvm[a], k)
           e == [nvm[a] EXCEPT !.key[i] = 0]
<1>1. k \in Nat
  BY KeysNat
<1>2. a \in Addr /\ nvm[a] \in Block
  BY <1>1, RouteType DEF TypeOK
<1>3. i \in Slots /\ i \in Nat
  BY <1>2, FirstSlotIs, KAssumption DEF Remove, Found, Slots
<1>4. e \in Block /\ e.next = nvm[a].next
  BY <1>1, <1>2, <1>3, StoreType DEF Block
<1>5. Write(a, e, {})
  BY DEF Remove
<1>6. /\ nvm' \in [Addr -> Block]
      /\ \A b \in Addr : nvm'[b].next \in Addr \union {Null}
      /\ dur' \in [Addr -> [Lines -> SUBSET Block]]
  <2>1. e.next \in Addr \union {Null}
    BY <1>2, <1>4 DEF TypeOK
  <2> HIDE DEF a, e
  <2> QED BY <1>2, <1>4, <1>5, <2>1, WriteType
<1>7. op' = [NoOp EXCEPT !.call = "remove", !.k = k,
                        !.old = Get(k), !.ent = a, !.i = i]
  BY DEF Remove
<1>8. op' \in OpType /\ op'.k = k /\ op'.ent = a /\ op'.i = i
  <2>1. Get(k) \in Nat
    BY <1>1, GetType
  <2> HIDE DEF a, i
  <2> QED BY <1>1, <1>2, <1>3, <1>7, <2>1, NoOpType DEF OpType, NoOp
<1>9. UNCHANGED <<index, first, cur, img, crashes>> /\ pc' \in Pcs
  BY DEF Remove, Pcs
<1>10. TypeOK'
  BY <1>6, <1>8, <1>9 DEF TypeOK
<1> QED BY <1>2, <1>3, <1>8, <1>10

LEMMA FlushSlotType ==
  ASSUME TypeOK, OpInv, FlushSlot
  PROVE  TypeOK' /\ \A c \in Addr : c # op.ent => dur'[c] = dur[c]
<1>1. op.ent \in Addr
      /\ FlushWord(dur[op.ent], nvm[op.ent], KeyWord(op.i)) \in [Lines -> SUBSET Block]
  BY FlushWordType DEF FlushSlot, OpInv, TypeOK
<1>2. /\ dur' \in [Addr -> [Lines -> SUBSET Block]]
      /\ \A c \in Addr : c # op.ent => dur'[c] = dur[c]
  BY <1>1 DEF FlushSlot, TypeOK
<1>3. UNCHANGED <<nvm, index, first, cur, img, crashes>> /\ pc' \in Pcs /\ op' \in OpType
  BY NoOpType DEF FlushSlot, Pcs
<1> QED BY <1>2, <1>3 DEF TypeOK

-----------------------------------------------------------------------------
(* Every step preserves the locals of calls and the shape of the index. *)

LEMMA InitInd == Init => IndInv
<1> SUFFICES ASSUME Init PROVE IndInv
  OBVIOUS
<1>1. TypeOK
  BY InitType
<1>2. OpInv
  BY DEF Init, OpInv, Serving, SplitPcs
<1>3. IndexKeys = {0}
  BY DEF Init, IndexKeys, EntryHead, Null
<1>4. IndexInv
  BY <1>3 DEF Init, IndexInv, SplitPcs, EntryHead
<1>5. IndexInjective
  BY <1>3 DEF IndexInjective
<1>6. Owned
  <2>1. index[0] \in Addr
    BY MaxEntriesAssumption DEF Init, EntryHead, Addr
  <2>2. \A i \in Slots : nvm[index[0]].key[i] = 0
    BY <2>1 DEF Init, EmptyBlock
  <2> QED BY <1>3, <2>2 DEF Owned
<1>7. InsertInv /\ SplitInv /\ SplitEndInv
  BY DEF Init, InsertInv, SplitInv, SplitEndInv
<1> QED BY <1>1, <1>2, <1>4, <1>5, <1>6, <1>7 DEF IndInv

\* Lookups depend on the index alone.
LEMMA RouteStays ==
  ASSUME UNCHANGED <<index, first>>
  PROVE  IndexKeys' = IndexKeys /\ Indexed' = Indexed /\ \A k : Route(k)' = Route(k)
<1>1. IndexKeys' = IndexKeys
  BY DEF IndexKeys
<1> QED BY <1>1 DEF Route, Indexed
\* A step that changes neither the index nor the keys of indexed entries.
LEMMA OwnedStays ==
  ASSUME IndexInjective, Owned, UNCHANGED <<index, first>>,
         \A m \in IndexKeys : nvm'[index[m]].key = nvm[index[m]].key
  PROVE  IndexInjective' /\ Owned'
<1>1. IndexKeys' = IndexKeys
  BY RouteStays
<1>2. \A m, k : Owns(m, k)' = Owns(m, k)
  BY <1>1 DEF Owns
<1>3. IndexInjective'
  BY <1>1 DEF IndexInjective
<1>4. Owned'
  BY <1>1, <1>2 DEF Owned
<1> QED BY <1>3, <1>4

LEMMA IndexedType ==
  ASSUME TypeOK
  PROVE  \A m \in IndexKeys : index[m] \in Addr
  BY DEF IndexKeys, TypeOK

LEMMA InsertInd ==
  ASSUME IndInv, NEW k \in Keys, NEW v \in Vals, Insert(k, v)
  PROVE  IndInv'
<1>1. TypeOK' /\ UNCHANGED <<nvm, dur, index, first, cur>> /\ pc' = "insert"
  BY InsertType DEF IndInv, Insert
<1>2. op'.k = k
  BY DEF Insert, NoOp
<1>3. OpInv' /\ IndexInv'
  BY <1>1, <1>2, RouteStays DEF IndInv, OpInv, IndexInv, Serving, SplitPcs
<1>4. IndexInjective' /\ Owned'
  BY <1>1, OwnedStays DEF IndInv
<1>5. InsertInv'
  <2>1. \A i \in Slots : nvm[Route(k)].key[i] # k
    BY DEF Insert, Found, HasKey
  <2>2. Route(op.k)' = Route(k)
    BY <1>1, <1>2 DEF Route, IndexKeys
  <2> QED BY <1>1, <1>2, <2>1, <2>2 DEF InsertInv
<1>6. SplitInv' /\ SplitEndInv'
  BY <1>1 DEF SplitInv, SplitEndInv
<1> QED BY <1>1, <1>3, <1>4, <1>5, <1>6 DEF IndInv

LEMMA MaybePutInd ==
  ASSUME IndInv, MaybePut
  PROVE  IndInv'
<1> USE DEF IndInv
<1> DEFINE k == op.k
           a == Route(k)
           i == FirstSlot(nvm[a], 0)
<1>1. TypeOK' /\ UNCHANGED <<index, first, cur>> /\ pc' = "flush"
  BY MaybePutType DEF MaybePut
<1>2. k \in Keys /\ k \in Nat /\ k # 0 /\ a \in Addr /\ op'.k = k
  <2>1. op.k \in Keys /\ op.k \in Nat /\ op.k # 0
    BY KeysNat DEF MaybePut, OpInv
  <2> QED BY <2>1, RouteType DEF MaybePut, TypeOK, OpType
<1>3. op'.ent = a /\ op'.i \in Slots
  BY MaybePutType
<1>4. OpInv' /\ IndexInv'
  BY <1>1, <1>2, <1>3, RouteStays DEF OpInv, IndexInv, Serving, SplitPcs
<1>5. i \in Slots /\ nvm[a].key[i] = 0
  <2>1. HasKey(nvm[a], 0) /\ nvm[a] \in Block
    BY <1>2 DEF MaybePut, Full, TypeOK
  <2> QED BY <2>1, FirstSlotIs
<1>6. /\ \A c \in Addr : c # a => nvm'[c] = nvm[c]
      /\ \A j \in Slots : nvm'[a].key[j] = IF j = i THEN k ELSE nvm[a].key[j]
  <2>1. nvm' = [nvm EXCEPT ![a] = [[nvm[a] EXCEPT !.val[i] = op.v] EXCEPT !.key[i] = k]]
    BY DEF MaybePut, Write
  <2> HIDE DEF a, i, k
  <2> QED BY <1>2, <1>5, <2>1 DEF TypeOK, Block
<1>7. PICK m : Owns(m, k) /\ a = index[m]
  BY <1>2, OwnerExists
<1>8. IndexKeys' = IndexKeys /\ \A n, x : Owns(n, x)' = Owns(n, x)
  BY <1>1, RouteStays DEF Owns
<1>9. IndexInjective'
  BY <1>1, <1>8 DEF IndexInjective
<1>10. Owned'
  <2> SUFFICES ASSUME NEW n \in IndexKeys, NEW j \in Slots, nvm'[index[n]].key[j] # 0
               PROVE  /\ nvm'[index[n]].key[j] \in Keys
                      /\ Owns(n, nvm'[index[n]].key[j])
                      /\ \A h \in Slots :
                           nvm'[index[n]].key[h] = nvm'[index[n]].key[j] => h = j
    BY <1>1, <1>8 DEF Owned
  <2> HIDE DEF a, i, k
  <2>1. CASE index[n] # a
    BY <1>6, <2>1, IndexedType DEF Owned
  <2>2. CASE index[n] = a
    <3>1. n = m
      BY <1>7, <2>2 DEF IndexInjective, Owns
    <3>2. \A h \in Slots : nvm[a].key[h] # k
      BY DEF InsertInv, MaybePut, a, k
    <3>3. CASE j = i
      BY <1>2, <1>6, <1>7, <2>2, <3>1, <3>2, <3>3
    <3>4. CASE j # i
      <4>1. nvm'[a].key[j] = nvm[a].key[j] /\ nvm[a].key[j] # 0
        BY <1>6, <2>2, <3>4
      <4>2. /\ nvm[a].key[j] \in Keys /\ Owns(n, nvm[a].key[j])
            /\ \A h \in Slots : nvm[a].key[h] = nvm[a].key[j] => h = j
        BY <2>2, <4>1 DEF Owned
      <4> QED BY <1>6, <2>2, <3>2, <4>1, <4>2
    <3> QED BY <3>3, <3>4
  <2> QED BY <2>1, <2>2
<1>11. InsertInv' /\ SplitInv' /\ SplitEndInv'
  BY <1>1 DEF InsertInv, SplitInv, SplitEndInv
<1> QED BY <1>1, <1>4, <1>9, <1>10, <1>11

LEMMA UpdateInd ==
  ASSUME IndInv, NEW k \in Keys, NEW v \in Vals, Update(k, v)
  PROVE  IndInv'
<1> USE DEF IndInv
<1>1. TypeOK' /\ UNCHANGED <<index, first, cur>> /\ pc' = "flush"
  BY UpdateIs DEF Update
<1>2. OpInv' /\ IndexInv'
  BY <1>1, UpdateIs, RouteStays DEF OpInv, IndexInv, Serving, SplitPcs
<1>3. \A c \in Addr : nvm'[c].key = nvm[c].key
  <2> DEFINE a == Route(k)
             i == FirstSlot(nvm[a], k)
  <2>1. nvm' = [nvm EXCEPT ![a] = [nvm[a] EXCEPT !.val[i] = v]] /\ a \in Addr
    BY UpdateIs DEF Update, Write
  <2> HIDE DEF a, i
  <2> QED BY <2>1 DEF TypeOK, Block
<1>4. IndexInjective' /\ Owned'
  BY <1>1, <1>3, IndexedType, OwnedStays
<1>5. InsertInv' /\ SplitInv' /\ SplitEndInv'
  BY <1>1 DEF InsertInv, SplitInv, SplitEndInv
<1> QED BY <1>1, <1>2, <1>4, <1>5

LEMMA RemoveInd ==
  ASSUME IndInv, NEW k \in Keys, Remove(k)
  PROVE  IndInv'
<1> USE DEF IndInv
<1>1. TypeOK' /\ UNCHANGED <<index, first, cur>> /\ pc' = "flush"
  BY RemoveIs DEF Remove
<1>2. OpInv' /\ IndexInv'
  BY <1>1, RemoveIs, RouteStays DEF OpInv, IndexInv, Serving, SplitPcs
<1>3. \A c \in Addr : \A j \in Slots : nvm'[c].key[j] \in {0, nvm[c].key[j]}
  <2> DEFINE a == Route(k)
             i == FirstSlot(nvm[a], k)
  <2>1. nvm' = [nvm EXCEPT ![a] = [nvm[a] EXCEPT !.key[i] = 0]]
        /\ a \in Addr /\ i \in Slots
    BY RemoveIs DEF Remove, Write
  <2> HIDE DEF a, i
  <2> QED BY <2>1 DEF TypeOK, Block
<1>4. IndexKeys' = IndexKeys /\ \A n, x : Owns(n, x)' = Owns(n, x)
  BY <1>1, RouteStays DEF Owns
<1>5. IndexInjective'
  BY <1>1, <1>4 DEF IndexInjective
<1>6. Owned'
  <2>1. \A m \in IndexKeys : \A j \in Slots : nvm'[index[m]].key[j] # 0 =>
          nvm'[index[m]].key[j] = nvm[index[m]].key[j]
    BY <1>3, IndexedType
  <2> QED BY <1>1, <1>4, <2>1 DEF Owned
<1>7. InsertInv' /\ SplitInv' /\ SplitEndInv'
  BY <1>1 DEF InsertInv, SplitInv, SplitEndInv
<1> QED BY <1>1, <1>2, <1>5, <1>6, <1>7

LEMMA FlushSlotInd ==
  ASSUME IndInv, FlushSlot
  PROVE  IndInv'
<1> USE DEF IndInv
<1>1. TypeOK' /\ UNCHANGED <<nvm, index, first, cur>> /\ pc' = "idle"
  BY FlushSlotType DEF FlushSlot
<1>2. OpInv' /\ IndexInv'
  BY <1>1, RouteStays DEF OpInv, IndexInv, Serving, SplitPcs
<1>3. IndexInjective' /\ Owned'
  BY <1>1, OwnedStays
<1>4. InsertInv' /\ SplitInv' /\ SplitEndInv'
  BY <1>1 DEF InsertInv, SplitInv, SplitEndInv
<1> QED BY <1>1, <1>2, <1>3, <1>4
LEMMA SplitBeginInd ==
  ASSUME IndInv, SplitBegin
  PROVE  IndInv'
<1> USE DEF IndInv
<1> DEFINE k == op.k
           a == Route(k)
           b == cur + 1
<1>1. TypeOK' /\ UNCHANGED <<index, first>> /\ pc' = "split_flag" /\ cur' = b
  BY SplitBeginIs DEF SplitBegin
<1>2. /\ k \in Keys /\ k \in Nat /\ a \in Addr /\ b \in Addr /\ a < b
      /\ op'.k = k /\ op'.ent = a /\ op'.new = b /\ cur \in Nat
  <2>1. a \in Addr /\ b \in Addr /\ a <= cur /\ cur \in Nat
    BY SplitBeginIs DEF Addr, TypeOK
  <2>2. a < b
    BY <2>1 DEF Addr
  <2>3. op' = [op EXCEPT !.ent = a, !.new = b, !.tmp = op'.tmp]
    BY SplitBeginIs
  <2> HIDE DEF a, b
  <2> QED BY <2>1, <2>2, <2>3, KeysNat, SplitBeginIs DEF TypeOK, OpType
<1>3. OpInv'
  BY <1>1, <1>2 DEF OpInv, Serving, SplitPcs
<1>4. IndexInv'
  BY <1>1, <1>2, RouteStays, IndexedType DEF IndexInv, Addr
<1>5. \A c \in Addr : c # b => nvm'[c].key = nvm[c].key
  <2>1. nvm'[a].key = nvm[a].key
    BY <1>2, SplitBeginIs DEF TypeOK, Block
  <2> QED BY <2>1, SplitBeginIs
<1>6. IndexInjective' /\ Owned'
  <2>1. \A m \in IndexKeys : index[m] \in Addr /\ index[m] # b
    BY <1>2, IndexedType DEF IndexInv, Addr
  <2> QED BY <1>1, <1>5, <2>1, OwnedStays
<1>7. SplitInv'
  <2>1. PICK f \in [Slots -> Slots] :
          /\ SortedBy(nvm[a], f)
          /\ \A i \in Slots : op'.tmp[i][1] = nvm[a].key[f[i]]
    BY SplitBeginIs
  <2>2. PICK m : Owns(m, k) /\ a = index[m]
    BY <1>2, OwnerExists
  <2>3. \A i \in Slots : nvm[a].key[i] # 0
    BY DEF SplitBegin, Full, HasKey
  <2>4. \A i, j \in Slots : nvm[a].key[i] = nvm[a].key[j] => i = j
    BY <2>2, <2>3 DEF Owned, Owns
  <2>5. \A i \in Slots : nvm[a].key[i] \in Nat
    BY <1>2 DEF TypeOK, Block
  <2>6. Route(op.k)' = a
    BY <1>1, <1>2 DEF Route, IndexKeys
  <2>7. nvm'[a].key = nvm[a].key
    BY <1>2, <1>5 DEF Addr
  <2>8. \A i \in Slots : nvm[a].key[i] \notin {0, k}
    BY <2>3 DEF SplitBegin, InsertInv
  <2>9. \A i, j \in Slots : i < j => op'.tmp[i][1] < op'.tmp[j][1]
    <3> HIDE DEF a
    <3> SUFFICES ASSUME NEW i \in Slots, NEW j \in Slots, i < j
                 PROVE  op'.tmp[i][1] < op'.tmp[j][1]
      OBVIOUS
    <3>1. f[i] \in Slots /\ f[j] \in Slots /\ f[i] # f[j]
      BY <2>1 DEF SortedBy
    <3>2. nvm[a].key[f[i]] <= nvm[a].key[f[j]]
      BY <2>1 DEF SortedBy
    <3>3. nvm[a].key[f[i]] # nvm[a].key[f[j]]
      BY <2>4, <3>1
    <3> QED BY <2>1, <2>5, <3>1, <3>2, <3>3
  <2>10. \A i \in Slots : nvm'[b].key[i] =
                          IF i < K - Half THEN op'.tmp[i + Half][1] ELSE 0
    BY SplitBeginIs
  <2>11. \A i \in Slots : \E j \in Slots : op'.tmp[i][1] = nvm'[a].key[j]
    BY <2>1, <2>7
  <2> HIDE DEF a, b
  <2> QED BY <1>1, <1>2, <2>6, <2>7, <2>8, <2>9, <2>10, <2>11 DEF SplitInv, k
<1>8. InsertInv' /\ SplitEndInv'
  BY <1>1 DEF InsertInv, SplitEndInv
<1> QED BY <1>1, <1>3, <1>4, <1>6, <1>7, <1>8

LEMMA SplitFlagInd ==
  ASSUME IndInv, SplitFlag
  PROVE  IndInv'
<1> USE DEF IndInv
<1>1. TypeOK' /\ UNCHANGED <<index, first, cur, op>> /\ pc = "split_flag" /\ pc' = "split_new"
  BY SplitFlagType DEF SplitFlag
<1>2. OpInv' /\ IndexInv'
  BY <1>1, RouteStays DEF OpInv, IndexInv, Serving, SplitPcs
<1>3. \A c \in Addr : nvm'[c].key = nvm[c].key
  <2>1. op.new \in Addr /\ op.ent \in Addr
    BY <1>1 DEF OpInv, SplitPcs, TypeOK
  <2> QED BY <2>1 DEF SplitFlag, TypeOK, Block
<1>4. IndexInjective' /\ Owned'
  BY <1>1, <1>3, IndexedType, OwnedStays
<1>5. SplitInv'
  <2>1. op.new \in Addr /\ op.ent \in Addr
    BY <1>1 DEF OpInv, SplitPcs, TypeOK
  <2>2. nvm'[op.new].key = nvm[op.new].key /\ nvm'[op.ent].key = nvm[op.ent].key
    BY <1>3, <2>1
  <2>3. Route(op.k)' = Route(op.k)
    BY <1>1 DEF Route, IndexKeys
  <2> QED BY <1>1, <2>2, <2>3 DEF SplitInv
<1>6. InsertInv' /\ SplitEndInv'
  BY <1>1 DEF InsertInv, SplitEndInv
<1> QED BY <1>1, <1>2, <1>4, <1>5, <1>6

LEMMA SplitEntryInd ==
  ASSUME IndInv, SplitEntry
  PROVE  IndInv'
<1> USE DEF IndInv
<1>1. /\ TypeOK' /\ UNCHANGED <<nvm, index, first, cur>>
      /\ pc = "split_entry" /\ pc' = "insert" /\ op'.k = op.k
  BY SplitEntryType DEF SplitEntry, NoOp
<1>2. OpInv' /\ IndexInv'
  BY <1>1, RouteStays DEF OpInv, IndexInv, Serving, SplitPcs
<1>3. IndexInjective' /\ Owned'
  BY <1>1, OwnedStays
<1>4. InsertInv'
  <2>1. Route(op.k)' = Route(op.k)
    BY <1>1 DEF Route, IndexKeys
  <2> QED BY <1>1, <2>1 DEF InsertInv, SplitEndInv
<1>5. SplitInv' /\ SplitEndInv'
  BY <1>1 DEF SplitInv, SplitEndInv
<1> QED BY <1>1, <1>2, <1>3, <1>4, <1>5
(***************************************************************************)
(* The heart of the split: the new index key lies strictly above the key   *)
(* that owns the old entry and below the next one, so it takes over the    *)
(* right half of the entry's keys and nothing else.                        *)
(***************************************************************************)
\* The key under which the new entry is indexed: it is in the old entry and
\* not the smallest there, so no entry is indexed under it.
LEMMA SplitKeyIsNew ==
  ASSUME IndInv, pc = "split_new", NEW m \in IndexKeys, Owns(m, op.k), op.ent = index[m]
  PROVE  op.tmp[Half][1] \in Keys /\ op.tmp[Half][1] \notin IndexKeys /\ Owns(m, op.tmp[Half][1])
<1> DEFINE a == op.ent
           mm == op.tmp[Half][1]
<1>1. SplitInv /\ Half \in Slots /\ 0 \in Slots /\ 0 < Half
  BY HalfFacts, KAssumption DEF IndInv, Slots
<1>2. PICK j \in Slots : mm = nvm[a].key[j]
  BY <1>1 DEF SplitInv
<1>3. mm # 0
  BY <1>1, <1>2 DEF SplitInv
<1>4. mm \in Keys /\ Owns(m, mm)
  BY <1>2, <1>3 DEF IndInv, Owned
\* An index key owns itself.
<1>5. mm \in IndexKeys => mm = m
  <2>1. mm \in Nat /\ m \in Nat /\ mm <= mm
    BY <1>4, KeysNat, IndexKeysNat
  <2>2. m <= mm /\ (mm \in IndexKeys /\ mm <= mm => mm <= m)
    BY <1>4 DEF Owns
  <2> QED BY <2>1, <2>2
<1>6. PICK h \in Slots : op.tmp[0][1] = nvm[a].key[h]
  BY <1>1 DEF SplitInv
<1>7. nvm[a].key[h] # 0
  BY <1>1 DEF SplitInv
<1>8. Owns(m, op.tmp[0][1]) /\ op.tmp[0][1] \in Keys
  BY <1>6, <1>7 DEF IndInv, Owned
<1>9. op.tmp[0][1] < mm
  BY <1>1 DEF SplitInv
<1>10. m # mm
  BY <1>4, <1>8, <1>9, KeysNat, IndexKeysNat DEF Owns
<1> QED BY <1>4, <1>5, <1>10

LEMMA SplitNewInd ==
  ASSUME IndInv, SplitNew
  PROVE  IndInv'
<1> USE DEF IndInv
<1> DEFINE a == op.ent
           b == op.new
           t(i) == op.tmp[i][1]
           mm == t(Half)
<1>1. /\ TypeOK' /\ UNCHANGED <<cur, op>> /\ pc = "split_new" /\ pc' = "split_entry"
      /\ a \in Addr /\ b \in Addr /\ a # b
  BY SplitNewIs DEF SplitNew
<1>2. \A c \in Addr : c # a => nvm'[c] = nvm[c]
  BY SplitNewIs
<1>3. \A i \in Slots : nvm'[a].key[i] = IF i < Half THEN t(i) ELSE 0
  BY SplitNewIs
<1>4. op.k \in Keys /\ op.k \in Nat /\ b = cur /\ cur \in Nat
  BY <1>1, KeysNat DEF OpInv, SplitPcs, TypeOK, Addr
<1>5. PICK m0 : Owns(m0, op.k) /\ a = index[m0]
  BY <1>1, <1>4, OwnerExists DEF SplitInv
<1>6. \A i \in Slots : t(i) \in Keys /\ t(i) \in Nat /\ t(i) # op.k /\ Owns(m0, t(i))
  <2> SUFFICES ASSUME NEW i \in Slots
               PROVE  t(i) \in Keys /\ t(i) \in Nat /\ t(i) # op.k /\ Owns(m0, t(i))
    OBVIOUS
  <2>1. PICK j \in Slots : t(i) = nvm[a].key[j]
    BY <1>1 DEF SplitInv
  <2>2. nvm[a].key[j] # 0 /\ nvm[a].key[j] # op.k
    BY <1>1 DEF SplitInv
  <2> QED BY <1>5, <2>1, <2>2, KeysNat DEF Owned, Owns
<1>7. \A i, j \in Slots : i < j => t(i) < t(j)
  BY <1>1 DEF SplitInv
<1>8. 0 \in Slots /\ Half \in Slots /\ 0 < Half /\ Half \in Nat
  BY HalfFacts, KAssumption DEF Slots
<1>9. m0 \in IndexKeys /\ m0 \in Nat /\ m0 < mm /\ mm \in Keys /\ mm \in Nat
  <2>1. m0 \in IndexKeys /\ m0 \in Nat
    BY <1>5, IndexKeysNat DEF Owns
  <2>2. m0 <= t(0) /\ t(0) < mm /\ t(0) \in Nat /\ mm \in Nat /\ mm \in Keys
    BY <1>6, <1>7, <1>8 DEF Owns
  <2> QED BY <2>1, <2>2
<1>10. mm \notin IndexKeys
  <2>1. Owns(m0, mm)
    BY <1>6, <1>8
  <2> QED BY <1>9, <2>1 DEF Owns
<1> HIDE DEF t, mm
<1>11. index' = [index EXCEPT ![mm] = b] /\ index \in [Keys \union {0} -> Addr \union {Null}]
  BY DEF SplitNew, IndexInsert, TypeOK, mm, t
<1>12. IndexKeys' = IndexKeys \union {mm}
  <2>1. b # Null
    BY <1>1 DEF Addr, Null
  <2>2. \A m \in Keys \union {0} : index'[m] = IF m = mm THEN b ELSE index[m]
    BY <1>11
  <2>3. \A m \in Keys \union {0} : index'[m] # Null <=> (index[m] # Null \/ m = mm)
    BY <2>1, <2>2, <1>10, <1>9 DEF IndexKeys
  <2> QED BY <1>9, <2>3 DEF IndexKeys
<1>13. index'[mm] = b /\ \A m \in IndexKeys : index'[m] = index[m] /\ m # mm
  BY <1>9, <1>10, <1>11
<1>14. 0 \in IndexKeys /\ 0 # mm /\ first' = first
  <2>1. 0 \in IndexKeys
    BY DEF IndexInv, IndexKeys, EntryHead, Null
  <2>2. \E n \in IndexKeys : n <= mm
    BY <1>9, <2>1
  <2> QED BY <1>10, <2>1, <2>2 DEF SplitNew, IndexInsert, mm, t
<1>15. \A m \in IndexKeys : index[m] # b
  BY <1>1, <1>4, IndexedType DEF IndexInv, Addr
<1>16. OpInv'
  BY <1>1 DEF OpInv, Serving, SplitPcs
<1>17. IndexInv'
  BY <1>1, <1>4, <1>12, <1>13, <1>14 DEF IndexInv
<1>18. IndexInjective'
  BY <1>12, <1>13, <1>15 DEF IndexInjective
\* What the index keys own now.
<1> DEFINE OwnsNow(m, x) == m \in IndexKeys' /\ m <= x
                            /\ \A n \in IndexKeys' : n <= x => n <= m
<1>19. ASSUME NEW m \in IndexKeys, NEW x \in Nat, Owns(m, x), m # m0 \/ x < mm
       PROVE  OwnsNow(m, x)
  <2>1. m \in Nat /\ m <= x
    BY <1>19, IndexKeysNat DEF Owns
  <2>2. mm <= x => mm <= m
    <3> SUFFICES ASSUME mm <= x, ~(mm <= m) PROVE FALSE
      OBVIOUS
    <3>1. m # m0
      BY <1>9, <1>19
    <3>2. m <= m0
      BY <1>6, <1>8, <1>9, <2>1 DEF Owns, mm
    <3>3. m0 <= x
      BY <1>9
    <3>4. m0 <= m
      BY <1>9, <1>19, <3>3 DEF Owns
    <3> QED BY <1>9, <2>1, <3>1, <3>2, <3>4
  <2> QED BY <1>12, <1>19, <2>2 DEF Owns
<1>20. ASSUME NEW x \in Nat, Owns(m0, x), mm <= x
       PROVE  OwnsNow(mm, x)
  <2>1. \A n \in IndexKeys : n <= x => n <= mm
    BY <1>9, <1>20, IndexKeysNat DEF Owns
  <2> QED BY <1>9, <1>12, <1>20, <2>1 DEF Owns
<1>21. \A i \in Slots : nvm'[b].key[i] = IF i < K - Half THEN t(i + Half) ELSE 0
  BY <1>1, <1>2 DEF SplitInv, t
<1>22. \A i \in Slots : i < K - Half => i + Half \in Slots /\ i \in Nat
  BY HalfFacts, KAssumption DEF Slots
<1>23. \A i, j \in Slots : t(i) = t(j) => i = j
  BY <1>6, <1>7, KAssumption DEF Slots
<1>24. Owned'
  <2> SUFFICES ASSUME NEW m \in IndexKeys \union {mm}, NEW j \in Slots,
                      nvm'[index'[m]].key[j] # 0
               PROVE  /\ nvm'[index'[m]].key[j] \in Keys
                      /\ OwnsNow(m, nvm'[index'[m]].key[j])
                      /\ \A h \in Slots :
                           nvm'[index'[m]].key[h] = nvm'[index'[m]].key[j] => h = j
    BY <1>12 DEF Owned, Owns
  <2> HIDE DEF OwnsNow
  <2>1. CASE m = mm
    <3>1. j < K - Half /\ nvm'[b].key[j] = t(j + Half)
      BY <1>13, <1>21, <2>1
    <3>2. j + Half \in Slots /\ j \in Nat
      BY <1>22, <3>1
    <3>3. mm <= t(j + Half)
      <4>1. CASE j = 0
        BY <1>6, <1>8, <4>1 DEF mm
      <4>2. CASE j # 0
        BY <1>6, <1>7, <1>8, <3>2, <4>2 DEF mm
      <4> QED BY <4>1, <4>2
    <3>4. OwnsNow(mm, t(j + Half))
      BY <1>6, <1>20, <3>2, <3>3
    <3>5. \A h \in Slots : nvm'[b].key[h] = t(j + Half) => h = j
      <4> SUFFICES ASSUME NEW h \in Slots, nvm'[b].key[h] = t(j + Half) PROVE h = j
        OBVIOUS
      <4>1. t(j + Half) # 0
        BY <1>6, <3>2, KeysNat
      <4>2. h < K - Half /\ t(h + Half) = t(j + Half)
        BY <1>21, <4>1
      <4>3. h + Half \in Slots /\ h \in Nat
        BY <1>22, <4>2
      <4>4. h + Half = j + Half
        BY <1>23, <3>2, <4>2, <4>3
      <4> QED BY <1>8, <3>2, <4>3, <4>4
    <3> QED BY <1>6, <1>13, <2>1, <3>1, <3>2, <3>4, <3>5
  <2>2. CASE m = m0
    <3>1. index'[m] = a
      BY <1>5, <1>9, <1>13, <2>2
    <3>2. j < Half /\ nvm'[a].key[j] = t(j)
      BY <1>3, <2>2, <3>1 DEF t
    <3>3. t(j) < mm
      BY <1>7, <1>8, <3>2 DEF mm
    <3>4. OwnsNow(m0, t(j))
      BY <1>6, <1>9, <1>19, <3>3
    <3>5. \A h \in Slots : nvm'[a].key[h] = t(j) => h = j
      BY <1>3, <1>6, <1>23, <3>2, KeysNat DEF t
    <3> QED BY <1>6, <2>2, <3>1, <3>2, <3>4, <3>5
  <2>3. CASE m \in IndexKeys /\ m # m0
    <3>1. index'[m] = index[m] /\ index[m] \in Addr /\ index[m] # a
      BY <1>5, <1>9, <1>13, <2>3, IndexedType DEF IndexInjective
    <3>2. nvm'[index'[m]] = nvm[index[m]]
      BY <1>2, <3>1
    <3>3. /\ nvm[index[m]].key[j] \in Keys /\ Owns(m, nvm[index[m]].key[j])
          /\ \A h \in Slots : nvm[index[m]].key[h] = nvm[index[m]].key[j] => h = j
      BY <2>3, <3>2 DEF Owned
    <3>4. OwnsNow(m, nvm[index[m]].key[j])
      BY <1>19, <2>3, <3>3, KeysNat
    <3> QED BY <3>2, <3>3, <3>4
  <2> QED BY <1>9, <2>1, <2>2, <2>3
<1>25. SplitEndInv'
  <2>1. PICK m : OwnsNow(m, op.k) /\ Route(op.k)' = index'[m]
    <3>1. (TypeOK /\ IndexInv => Lookups)'
      BY LookupsHold, PTL
    <3>2. Lookups'
      BY <1>1, <1>17, <3>1
    <3>3. \E m : OwnsNow(m, op'.k) /\ Route(op.k)' = index'[m]
      BY <1>1, <1>4, <3>2 DEF Lookups, Owns, Route, IndexKeys
    <3> QED BY <1>1, <3>3
  <2>2. m \in {m0, mm}
    BY <1>5, <1>9, <1>12, <2>1, IndexKeysNat DEF Owns
  <2>3. CASE m = mm
    BY <1>6, <1>13, <1>21, <1>22, <2>1, <2>3, <1>1, <1>4, KeysNat DEF SplitEndInv
  <2>4. CASE m = m0
    BY <1>1, <1>3, <1>4, <1>5, <1>6, <1>9, <1>13, <2>1, <2>4, KeysNat DEF SplitEndInv, t
  <2> QED BY <2>2, <2>3, <2>4
<1>26. InsertInv' /\ SplitInv'
  BY <1>1 DEF InsertInv, SplitInv
<1> QED BY <1>1, <1>16, <1>17, <1>18, <1>24, <1>25, <1>26
-----------------------------------------------------------------------------
(* The theorems about contents. *)

LEMMA NextInd == IndInv /\ [Next]_vars => IndInv'
<1> SUFFICES ASSUME IndInv, [Next]_vars PROVE IndInv'
  OBVIOUS
<1>1. CASE UNCHANGED vars
  <2>1. UNCHANGED <<nvm, dur, index, first, cur, pc, op, img, crashes>>
    BY <1>1 DEF vars
  <2>2. TypeOK'
    BY <2>1 DEF IndInv, TypeOK
  <2>3. OpInv' /\ IndexInv'
    BY <2>1, RouteStays DEF IndInv, OpInv, IndexInv, Serving
  <2>4. IndexInjective' /\ Owned'
    BY <2>1, OwnedStays DEF IndInv
  <2>5. Route(op.k)' = Route(op.k)
    BY <2>1 DEF Route, IndexKeys
  <2>6. InsertInv' /\ SplitInv' /\ SplitEndInv'
    BY <2>1, <2>5 DEF IndInv, InsertInv, SplitInv, SplitEndInv
  <2> QED BY <2>2, <2>3, <2>4, <2>6 DEF IndInv
<1>2. CASE Client
  <2>1. ASSUME NEW k \in Keys, NEW v \in Vals, Insert(k, v) PROVE IndInv'
    BY <2>1, InsertInd
  <2>2. ASSUME NEW k \in Keys, NEW v \in Vals, Update(k, v) PROVE IndInv'
    BY <2>2, UpdateInd
  <2>3. ASSUME NEW k \in Keys, Remove(k) PROVE IndInv'
    BY <2>3, RemoveInd
  <2> QED BY <1>2, <2>1, <2>2, <2>3 DEF Client
<1>3. CASE MaybePut
  BY <1>3, MaybePutInd
<1>4. CASE SplitBegin
  BY <1>4, SplitBeginInd
<1>5. CASE SplitFlag
  BY <1>5, SplitFlagInd
<1>6. CASE SplitNew
  BY <1>6, SplitNewInd
<1>7. CASE SplitEntry
  BY <1>7, SplitEntryInd
<1>8. CASE FlushSlot
  BY <1>8, FlushSlotInd
<1> QED BY <1>1, <1>2, <1>3, <1>4, <1>5, <1>6, <1>7, <1>8 DEF Next, Step, SplitStep

LEMMA IndInvHolds == Spec => []IndInv
<1>1. Init => IndInv
  BY InitInd
<1> QED BY <1>1, NextInd, PTL DEF Spec

\* Type correctness of the tree on a machine that stays up.
THEOREM TypeCorrect == Spec => []TypeOK
<1>1. IndInv => TypeOK
  BY DEF IndInv
<1> QED BY <1>1, IndInvHolds, PTL

\* Get, Update and Remove look for every stored key where it is: splits
\* (EPLTree::splitEntry) and the index agree on the owner of each key.
THEOREM KeysAreRouted == Spec => []Routed
<1>1. IndInv => Routed
  <2> SUFFICES ASSUME IndInv, NEW a \in Indexed, NEW i \in Slots, nvm[a].key[i] # 0
               PROVE  /\ Route(nvm[a].key[i]) = a
                      /\ \A j \in Slots : nvm[a].key[j] = nvm[a].key[i] => j = i
    BY DEF Routed
  <2>1. PICK m \in IndexKeys : a = index[m]
    BY DEF Indexed, IndInv, IndexInv, IndexKeys, EntryHead, Null
  <2>2. /\ nvm[a].key[i] \in Keys /\ Owns(m, nvm[a].key[i])
        /\ \A j \in Slots : nvm[a].key[j] = nvm[a].key[i] => j = i
    BY <2>1 DEF IndInv, Owned
  <2> QED BY <2>1, <2>2, KeysNat, RouteIs DEF IndInv
<1> QED BY <1>1, IndInvHolds, PTL

\* splitEntry never takes an entry that is already in use for its new one.
THEOREM SplitsTakeFreshEntries == Spec => FreshEntry
<1>1. IndInv /\ [Next]_vars =>
        [pc = "insert" /\ pc' = "split_flag" => op'.new \notin Indexed]_vars
  <2> SUFFICES ASSUME IndInv, Next, pc = "insert", pc' = "split_flag"
               PROVE  op'.new \notin Indexed
    OBVIOUS
  <2>1. SplitBegin
    BY DEF Next, Client, Step, SplitStep, Insert, Update, Remove, MaybePut,
           SplitFlag, SplitNew, SplitEntry, FlushSlot
  <2>2. op'.new = cur + 1
    <3>1. op' = [op EXCEPT !.ent = Route(op.k), !.new = cur + 1, !.tmp = op'.tmp]
      BY <2>1, SplitBeginIs DEF IndInv
    <3> QED BY <3>1 DEF IndInv, TypeOK, OpType
  <2>3. \A a \in Indexed : a <= cur /\ a \in Nat
    BY IndexedType DEF IndInv, IndexInv, Indexed, IndexKeys, EntryHead, Null, Addr, TypeOK
  <2> QED BY <2>2, <2>3 DEF IndInv, TypeOK, Addr
<1> QED BY <1>1, IndInvHolds, PTL DEF Spec, FreshEntry
-----------------------------------------------------------------------------
(* Durability. *)

\* The fields of a masked entry.
LEMMA OnLineIs ==
  ASSUME NEW e, NEW l
  PROVE  /\ OnLine(e, l).next = IF LineOf(0) = l THEN e.next ELSE 0
         /\ OnLine(e, l).min = IF LineOf(1) = l THEN e.min ELSE 0
         /\ OnLine(e, l).flag = IF LineOf(2) = l THEN e.flag ELSE 0
         /\ OnLine(e, l).key =
              [i \in Slots |-> IF LineOf(KeyWord(i)) = l THEN e.key[i] ELSE 0]
         /\ OnLine(e, l).val =
              [i \in Slots |-> IF LineOf(ValWord(i)) = l THEN e.val[i] ELSE 0]
  BY DEF OnLine, Part

LEMMA OnLineShape ==
  ASSUME NEW e, NEW l
  PROVE  InLine(OnLine(e, l), l)
<1> SUFFICES ASSUME NEW i \in Slots
             PROVE  /\ LineOf(KeyWord(i)) # l => OnLine(e, l).key[i] = 0
                    /\ LineOf(ValWord(i)) # l => OnLine(e, l).val[i] = 0
  BY DEF InLine
<1> QED BY DEF OnLine, Part

LEMMA SameRefl ==
  ASSUME NEW x
  PROVE  SameButStraddling(x, x)
  BY DEF SameButStraddling

LEMMA WroteShape ==
  ASSUME NEW d, Shaped(d), NEW vs
  PROVE  Shaped(Wrote(d, vs))
  BY OnLineShape DEF Shaped, Wrote

LEMMA PersistShape ==
  ASSUME NEW e
  PROVE  Shaped(Persist(e)) /\ Durable(Persist(e), e)
  BY OnLineShape, SameRefl DEF Shaped, Persist, Durable

LEMMA FlushShape ==
  ASSUME NEW d \in [Lines -> SUBSET Block], Shaped(d), NEW e, NEW w
  PROVE  Shaped(FlushWord(d, e, w))
  BY OnLineShape DEF Shaped, FlushWord

\* A store to slot i of a durable entry makes no other slot undurable.
LEMMA WriteSlot ==
  ASSUME NEW e \in Block, NEW e2 \in Block, NEW d, Durable(d, e), NEW vs \in SUBSET Block,
         NEW i \in Slots,
         \A v \in vs \union {e} :
           /\ v.next = e2.next /\ v.min = e2.min /\ v.flag = e2.flag
           /\ \A j \in Slots \ {i} : v.key[j] = e2.key[j] /\ v.val[j] = e2.val[j]
  PROVE  DurableBut(Wrote(d, vs), e2, i)
<1>1. ASSUME NEW v \in vs \union {e}, NEW l \in Lines
      PROVE  /\ OnLine(v, l).next = OnLine(e2, l).next
             /\ OnLine(v, l).min = OnLine(e2, l).min
             /\ OnLine(v, l).flag = OnLine(e2, l).flag
             /\ \A j \in Slots \ {i} : /\ OnLine(v, l).key[j] = OnLine(e2, l).key[j]
                                       /\ OnLine(v, l).val[j] = OnLine(e2, l).val[j]
  <2>1. v.next = e2.next /\ v.min = e2.min /\ v.flag = e2.flag
    OBVIOUS
  <2>2. /\ OnLine(v, l).next = OnLine(e2, l).next
        /\ OnLine(v, l).min = OnLine(e2, l).min
        /\ OnLine(v, l).flag = OnLine(e2, l).flag
    BY <2>1 DEF OnLine, Part
  <2>3. ASSUME NEW j \in Slots \ {i}
        PROVE  /\ OnLine(v, l).key[j] = OnLine(e2, l).key[j]
               /\ OnLine(v, l).val[j] = OnLine(e2, l).val[j]
    BY DEF OnLine, Part
  <2> QED BY <2>2, <2>3
<1>2. ASSUME NEW l \in Lines, NEW x \in d[l]
      PROVE  SameButSlot(x, OnLine(e2, l), i)
  <2>1. SameButStraddling(x, OnLine(e, l))
    BY <1>2 DEF Durable
  <2> QED BY <1>1, <2>1 DEF SameButStraddling, SameButSlot
<1>3. ASSUME NEW l \in Lines, NEW v \in vs
      PROVE  SameButSlot(OnLine(v, l), OnLine(e2, l), i)
  BY <1>1 DEF SameButSlot
<1> QED BY <1>2, <1>3 DEF DurableBut, Wrote

\* Flushing the line of its key makes the slot durable as well.
LEMMA FlushSlotDurable ==
  ASSUME NEW e \in Block, NEW d \in [Lines -> SUBSET Block], Shaped(d),
         NEW i \in Slots, DurableBut(d, e, i)
  PROVE  Durable(FlushWord(d, e, KeyWord(i)), e)
<1> DEFINE f == FlushWord(d, e, KeyWord(i))
<1> SUFFICES ASSUME NEW l \in Lines, NEW x \in f[l]
             PROVE  SameButStraddling(x, OnLine(e, l))
  BY DEF Durable
<1>1. CASE l = LineOf(KeyWord(i))
  <2>1. x = OnLine(e, l)
    BY <1>1 DEF FlushWord
  <2> QED BY <2>1, SameRefl
<1>2. CASE l # LineOf(KeyWord(i))
  <2>1. x \in d[l] /\ x \in Block
    BY <1>2 DEF FlushWord
  <2>2. SameButSlot(x, OnLine(e, l), i) /\ InLine(x, l) /\ InLine(OnLine(e, l), l)
    BY <2>1, OnLineShape DEF DurableBut, Shaped
  <2>3. x.key[i] = OnLine(e, l).key[i]
    BY <1>2, <2>2 DEF InLine
  <2>4. ~Straddles(i) => x.val[i] = OnLine(e, l).val[i]
    BY <1>2, <2>2 DEF InLine, Straddles
  <2>5. OnLine(e, l) \in Block
    BY OnLineType
  <2>6. x.key = OnLine(e, l).key
    BY <2>1, <2>2, <2>3, <2>5 DEF SameButSlot, Block
  <2> QED BY <2>2, <2>4, <2>6 DEF SameButSlot, SameButStraddling
<1> QED BY <1>1, <1>2

\* A store to slot i of entry a, after which the call waits for the flush.
LEMMA WriteDur ==
  ASSUME TypeOK, ShapeInv, \A c \in Addr : Durable(dur[c], nvm[c]),
         NEW a \in Addr, NEW e2 \in Block, NEW vs \in SUBSET Block, NEW i \in Slots,
         Write(a, e2, vs), pc' = "flush", op'.ent = a, op'.i = i,
         \A v \in vs \union {nvm[a]} :
           /\ v.next = e2.next /\ v.min = e2.min /\ v.flag = e2.flag
           /\ \A j \in Slots \ {i} : v.key[j] = e2.key[j] /\ v.val[j] = e2.val[j]
  PROVE  ShapeInv' /\ DurInv'
<1> DEFINE ws == vs \union {e2}
<1>1. /\ nvm'[a] = e2 /\ dur'[a] = Wrote(dur[a], ws)
      /\ \A c \in Addr : c # a => nvm'[c] = nvm[c] /\ dur'[c] = dur[c]
  BY DEF Write, TypeOK
<1>2. Shaped(dur'[a]) /\ DurableBut(dur'[a], nvm'[a], i)
  <2>1. nvm[a] \in Block /\ Durable(dur[a], nvm[a]) /\ ws \in SUBSET Block /\ Shaped(dur[a])
    BY DEF TypeOK, ShapeInv
  <2>2. \A v \in ws \union {nvm[a]} :
           /\ v.next = e2.next /\ v.min = e2.min /\ v.flag = e2.flag
           /\ \A j \in Slots \ {i} : v.key[j] = e2.key[j] /\ v.val[j] = e2.val[j]
    OBVIOUS
  <2> HIDE DEF ws
  <2> QED BY <1>1, <2>1, <2>2, WriteSlot, WroteShape
<1> HIDE DEF ws
<1>3. ShapeInv'
  BY <1>1, <1>2 DEF ShapeInv
<1>4. \A c \in Addr : c # a => Durable(dur'[c], nvm'[c])
  BY <1>1
<1>5. DurInv'
  BY <1>2, <1>4 DEF DurInv
<1> QED BY <1>3, <1>5

LEMMA MaybePutDur ==
  ASSUME IndInv, ShapeInv, DurInv, MaybePut
  PROVE  ShapeInv' /\ DurInv'
<1> DEFINE a == Route(op.k)
           e == nvm[a]
           i == FirstSlot(e, 0)
           e1 == [e EXCEPT !.val[i] = op.v]
           e2 == [e1 EXCEPT !.key[i] = op.k]
<1>1. op.k \in Keys /\ op.k \in Nat /\ op.v \in Nat
  BY KeysNat, ValsNat DEF MaybePut, IndInv, OpInv, TypeOK, OpType
<1>2. a \in Addr /\ e \in Block
  BY <1>1, RouteType DEF IndInv, TypeOK
<1>3. i \in Slots
  BY <1>2, FirstSlotIs DEF MaybePut, Full
<1>4. e1 \in Block /\ e2 \in Block /\ {e1} \in SUBSET Block
  <2> HIDE DEF a, i
  <2>1. e1 \in Block
    BY <1>1, <1>2, <1>3, StoreType
  <2> HIDE DEF e1
  <2> QED BY <1>1, <1>3, <2>1, StoreType
<1>5. \A v \in {e1} \union {e} :
        /\ v.next = e2.next /\ v.min = e2.min /\ v.flag = e2.flag
        /\ \A j \in Slots \ {i} : v.key[j] = e2.key[j] /\ v.val[j] = e2.val[j]
  <2> HIDE DEF a, i
  <2> QED BY <1>2, <1>3 DEF Block
<1>6. \A c \in Addr : Durable(dur[c], nvm[c])
  BY DEF DurInv, MaybePut, SplitPcs
<1>7. Write(a, e2, {e1}) /\ pc' = "flush"
  BY DEF MaybePut
<1>8. op'.ent = a /\ op'.i = i
  <2>1. op' = [op EXCEPT !.ent = a, !.i = i]
    BY DEF MaybePut
  <2> HIDE DEF a, i
  <2> QED BY <2>1 DEF IndInv, TypeOK, OpType
<1> HIDE DEF a, e1, e2, i
<1> QED BY <1>2, <1>3, <1>4, <1>5, <1>6, <1>7, <1>8, WriteDur DEF IndInv

LEMMA UpdateDur ==
  ASSUME IndInv, ShapeInv, DurInv, NEW k \in Keys, NEW v \in Vals, Update(k, v)
  PROVE  ShapeInv' /\ DurInv'
<1> DEFINE a == Route(k)
           i == FirstSlot(nvm[a], k)
           e2 == [nvm[a] EXCEPT !.val[i] = v]
<1>1. a \in Addr /\ i \in Slots /\ nvm[a] \in Block /\ op'.ent = a /\ op'.i = i /\ v \in Nat
  BY UpdateIs, ValsNat DEF IndInv, TypeOK
<1>2. e2 \in Block
  BY <1>1, StoreType
<1>3. \A w \in {} \union {nvm[a]} :
        /\ w.next = e2.next /\ w.min = e2.min /\ w.flag = e2.flag
        /\ \A j \in Slots \ {i} : w.key[j] = e2.key[j] /\ w.val[j] = e2.val[j]
  <2> HIDE DEF a, i
  <2> QED BY <1>1 DEF Block
<1>4. \A c \in Addr : Durable(dur[c], nvm[c])
  BY DEF DurInv, Update, SplitPcs
<1>5. Write(a, e2, {}) /\ pc' = "flush"
  BY DEF Update
<1> HIDE DEF a, e2, i
<1> QED BY <1>1, <1>2, <1>3, <1>4, <1>5, WriteDur DEF IndInv

LEMMA RemoveDur ==
  ASSUME IndInv, ShapeInv, DurInv, NEW k \in Keys, Remove(k)
  PROVE  ShapeInv' /\ DurInv'
<1> DEFINE a == Route(k)
           i == FirstSlot(nvm[a], k)
           e2 == [nvm[a] EXCEPT !.key[i] = 0]
<1>1. a \in Addr /\ i \in Slots /\ nvm[a] \in Block /\ op'.ent = a /\ op'.i = i
  BY RemoveIs DEF IndInv, TypeOK
<1>2. e2 \in Block
  BY <1>1, StoreType
<1>3. \A w \in {} \union {nvm[a]} :
        /\ w.next = e2.next /\ w.min = e2.min /\ w.flag = e2.flag
        /\ \A j \in Slots \ {i} : w.key[j] = e2.key[j] /\ w.val[j] = e2.val[j]
  <2> HIDE DEF a, i
  <2> QED BY <1>1 DEF Block
<1>4. \A c \in Addr : Durable(dur[c], nvm[c])
  BY DEF DurInv, Remove, SplitPcs
<1>5. Write(a, e2, {}) /\ pc' = "flush"
  BY DEF Remove
<1> HIDE DEF a, e2, i
<1> QED BY <1>1, <1>2, <1>3, <1>4, <1>5, WriteDur DEF IndInv

LEMMA FlushSlotDur ==
  ASSUME IndInv, ShapeInv, DurInv, FlushSlot
  PROVE  ShapeInv' /\ DurInv'
<1> DEFINE f == FlushWord(dur[op.ent], nvm[op.ent], KeyWord(op.i))
<1>1. op.ent \in Addr /\ op.i \in Slots
  BY DEF FlushSlot, IndInv, OpInv
<1>2. /\ dur'[op.ent] = f /\ nvm' = nvm
      /\ \A c \in Addr : c # op.ent => dur'[c] = dur[c]
  BY <1>1 DEF FlushSlot, IndInv, TypeOK
<1>3. \A c \in Addr : c # op.ent => Durable(dur[c], nvm[c])
  BY DEF DurInv, FlushSlot, SplitPcs
<1>4. nvm[op.ent] \in Block /\ dur[op.ent] \in [Lines -> SUBSET Block] /\ Shaped(dur[op.ent])
  BY <1>1 DEF IndInv, TypeOK, ShapeInv
<1>5. DurableBut(dur[op.ent], nvm[op.ent], op.i)
  <2>1. CASE Durable(dur[op.ent], nvm[op.ent])
    BY <2>1 DEF Durable, DurableBut, SameButStraddling, SameButSlot
  <2> QED BY <1>1, <2>1 DEF DurInv, FlushSlot, SplitPcs
<1>6. Shaped(f) /\ Durable(f, nvm[op.ent])
  BY <1>1, <1>4, <1>5, FlushSlotDurable, FlushShape
<1> HIDE DEF f
<1> QED BY <1>2, <1>3, <1>6 DEF ShapeInv, DurInv

LEMMA SplitBeginDur ==
  ASSUME IndInv, ShapeInv, DurInv, SplitBegin
  PROVE  ShapeInv' /\ DurInv'
<1> DEFINE a == Route(op.k)
           b == cur + 1
<1>1. /\ a \in Addr /\ b \in Addr
      /\ \A c \in Addr : c \notin {a, b} => nvm'[c] = nvm[c] /\ dur'[c] = dur[c]
      /\ \E vs : dur'[a] = Wrote(dur[a], vs)
      /\ \E vs : dur'[b] = Wrote(dur[b], vs)
      /\ op' = [op EXCEPT !.ent = a, !.new = b, !.tmp = op'.tmp]
  BY SplitBeginIs DEF IndInv
<1> HIDE DEF a, b
<1>2. op'.ent = a /\ op'.new = b
  BY <1>1 DEF IndInv, TypeOK, OpType
<1>3. Shaped(dur'[a]) /\ Shaped(dur'[b])
  BY <1>1, WroteShape DEF ShapeInv
<1>4. \A c \in Addr : Durable(dur[c], nvm[c])
  BY DEF DurInv, SplitBegin, SplitPcs
<1>5. pc' = "split_flag"
  BY DEF SplitBegin
<1>6. ShapeInv'
  BY <1>1, <1>3 DEF ShapeInv
<1>7. DurInv'
  BY <1>1, <1>2, <1>4, <1>5 DEF DurInv, SplitPcs
<1> QED BY <1>6, <1>7

LEMMA SplitFlagDur ==
  ASSUME IndInv, ShapeInv, DurInv, SplitFlag
  PROVE  ShapeInv' /\ DurInv'
<1> DEFINE da == FlushWord(dur[op.ent], nvm[op.ent], 2)
           e == [nvm[op.new] EXCEPT !.next = nvm[op.ent].next]
           db == Wrote(dur[op.new], {e})
<1>1. op.ent \in Addr /\ op.new \in Addr /\ op.ent # op.new
  BY DEF SplitFlag, IndInv, OpInv, SplitPcs, TypeOK, Addr
<1>2. nvm' = [nvm EXCEPT ![op.new] = e] /\ dur' = [dur EXCEPT ![op.ent] = da, ![op.new] = db]
  BY <1>1 DEF SplitFlag, IndInv, TypeOK
<1>3. Shaped(da) /\ Shaped(db)
  <2>1. /\ dur[op.ent] \in [Lines -> SUBSET Block]
        /\ Shaped(dur[op.ent]) /\ Shaped(dur[op.new])
    BY <1>1 DEF IndInv, TypeOK, ShapeInv
  <2> QED BY <2>1, FlushShape, WroteShape
<1> HIDE DEF da, db, e
<1>4. /\ dur'[op.ent] = da /\ dur'[op.new] = db
      /\ \A c \in Addr : c \notin {op.ent, op.new} => dur'[c] = dur[c] /\ nvm'[c] = nvm[c]
  BY <1>1, <1>2 DEF IndInv, TypeOK
<1>5. \A c \in Addr : c \notin {op.ent, op.new} => Durable(dur[c], nvm[c])
  BY DEF DurInv, SplitFlag, SplitPcs
<1>6. pc' = "split_new" /\ op' = op
  BY DEF SplitFlag
<1>7. ShapeInv'
  BY <1>3, <1>4 DEF ShapeInv
<1>8. DurInv'
  BY <1>4, <1>5, <1>6 DEF DurInv, SplitPcs
<1> QED BY <1>7, <1>8

LEMMA SplitNewDur ==
  ASSUME IndInv, ShapeInv, DurInv, SplitNew
  PROVE  ShapeInv' /\ DurInv'
<1>1. /\ op.ent \in Addr /\ op.new \in Addr /\ op.ent # op.new
      /\ \A c \in Addr : c # op.ent => nvm'[c] = nvm[c]
      /\ \A c \in Addr : c \notin {op.ent, op.new} => dur'[c] = dur[c]
      /\ dur'[op.new] = Persist(nvm[op.new])
      /\ \E vs : dur'[op.ent] = Wrote(dur[op.ent], vs)
  BY SplitNewIs DEF IndInv
<1>2. Shaped(dur'[op.ent]) /\ Shaped(dur'[op.new]) /\ Durable(dur'[op.new], nvm'[op.new])
  BY <1>1, WroteShape, PersistShape DEF ShapeInv
<1>3. \A c \in Addr : c \notin {op.ent, op.new} => Durable(dur[c], nvm[c])
  BY DEF DurInv, SplitNew, SplitPcs
<1>4. pc' = "split_entry" /\ op' = op
  BY DEF SplitNew
<1>5. ShapeInv'
  BY <1>1, <1>2 DEF ShapeInv
<1>6. DurInv'
  BY <1>1, <1>2, <1>3, <1>4 DEF DurInv, SplitPcs
<1> QED BY <1>5, <1>6

LEMMA SplitEntryDur ==
  ASSUME IndInv, ShapeInv, DurInv, SplitEntry
  PROVE  ShapeInv' /\ DurInv'
<1>1. op.ent \in Addr /\ nvm' = nvm
  BY DEF SplitEntry, IndInv, OpInv, SplitPcs
<1>2. /\ dur'[op.ent] = Persist(nvm[op.ent])
      /\ \A c \in Addr : c # op.ent => dur'[c] = dur[c]
  BY <1>1 DEF SplitEntry, PersistEntry, IndInv, TypeOK
<1>3. \A c \in Addr : c # op.ent => Durable(dur[c], nvm[c])
  BY DEF DurInv, SplitEntry, SplitPcs
<1>4. Shaped(dur'[op.ent]) /\ Durable(dur'[op.ent], nvm'[op.ent])
  BY <1>1, <1>2, PersistShape
<1>5. ShapeInv'
  BY <1>2, <1>4 DEF ShapeInv
<1>6. DurInv'
  BY <1>1, <1>2, <1>3, <1>4 DEF DurInv
<1> QED BY <1>5, <1>6

LEMMA NextDur == IndInv /\ ShapeInv /\ DurInv /\ [Next]_vars => ShapeInv' /\ DurInv'
<1> SUFFICES ASSUME IndInv, ShapeInv, DurInv, [Next]_vars PROVE ShapeInv' /\ DurInv'
  OBVIOUS
<1>1. CASE UNCHANGED vars
  <2>1. dur' = dur /\ nvm' = nvm /\ pc' = pc /\ op' = op
    BY <1>1 DEF vars
  <2> QED BY <2>1 DEF ShapeInv, DurInv
<1>2. CASE Client
  <2>1. ASSUME NEW k \in Keys, NEW v \in Vals, Insert(k, v) PROVE ShapeInv' /\ DurInv'
    <3>1. dur' = dur /\ nvm' = nvm /\ pc = "idle"
      BY <2>1 DEF Insert
    <3> QED BY <3>1 DEF ShapeInv, DurInv, SplitPcs
  <2>2. ASSUME NEW k \in Keys, NEW v \in Vals, Update(k, v) PROVE ShapeInv' /\ DurInv'
    BY <2>2, UpdateDur
  <2>3. ASSUME NEW k \in Keys, Remove(k) PROVE ShapeInv' /\ DurInv'
    BY <2>3, RemoveDur
  <2> QED BY <1>2, <2>1, <2>2, <2>3 DEF Client
<1>3. CASE MaybePut
  BY <1>3, MaybePutDur
<1>4. CASE SplitBegin
  BY <1>4, SplitBeginDur
<1>5. CASE SplitFlag
  BY <1>5, SplitFlagDur
<1>6. CASE SplitNew
  BY <1>6, SplitNewDur
<1>7. CASE SplitEntry
  BY <1>7, SplitEntryDur
<1>8. CASE FlushSlot
  BY <1>8, FlushSlotDur
<1> QED BY <1>1, <1>2, <1>3, <1>4, <1>5, <1>6, <1>7, <1>8 DEF Next, Step, SplitStep

\* When Insert, Update and Remove return, everything they and the splits
\* they caused wrote is durable, except values that lie outside the line of
\* their key: the flushes of entry.h and splitEntry leave nothing else behind.
THEOREM ReturnedCallsAreDurable == Spec => []IdleDurable
<1>1. Init => ShapeInv /\ DurInv
  <2> SUFFICES ASSUME Init PROVE ShapeInv /\ DurInv
    OBVIOUS
  <2>1. \A a \in Addr : dur[a] = Persist(nvm[a])
    BY DEF Init
  <2> QED BY <2>1, PersistShape DEF ShapeInv, DurInv
<1>2. DurInv => IdleDurable
  BY DEF DurInv, IdleDurable, Durable, SplitPcs
<1> QED BY <1>1, <1>2, NextDur, IndInvHolds, PTL DEF Spec
=============================================================================
