--------------------------- MODULE EplCrashProofs ---------------------------
(***************************************************************************)
(* EPL-Tree through power failures and restarts (FullSpec), for every      *)
(* entry size and every number of failures.                                *)
(*                                                                         *)
(* A restart rebuilds the index from min_key, and a list of several entries*)
(* then has its head under the head's min_key instead of 0.  Lookups below *)
(* it fall back to the first slot, which is the head: they find what they  *)
(* found under key 0.  So the proofs about the tree that stays up (IndInv, *)
(* LinkInv, KvInv) are used again, for the instance V in which the head is *)
(* back under 0 and no entry is left to allocate.  What is new is what a   *)
(* power failure may leave of each entry, line by line (LineInv), and that *)
(* min_key orders the entries as the index does (MinInv).                  *)
(***************************************************************************)
EXTENDS EplTreeKvProofs

-----------------------------------------------------------------------------
(* The setting. *)

QuietPcs == {"idle", "insert", "flush", "split_flag", "split_new"}

(***************************************************************************)
(* The cases in which the code is crash safe: no BulkLoad and no Remove,   *)
(* no power failure between the two persists of a split, no split after a  *)
(* restart that left several entries, and a load_size that has room for    *)
(* the list.  README.md has a counterexample for each of them.             *)
(***************************************************************************)
CrashSafe ==
  /\ BulkSets = {} /\ "remove" \notin Ops
  /\ CrashAt \subseteq QuietPcs
  /\ Reuse = FALSE
  /\ MaxEntries <= LoadSize \div K + 1

\* The head of a list of several entries is indexed by min_key.
Moved == index[0] # EntryHead

\* The index as if the program had not been restarted.
VIndex ==
  IF index[0] = EntryHead THEN index
  ELSE [m \in Keys \union {0} |->
          IF m = 0 THEN EntryHead ELSE IF index[m] = EntryHead THEN Null ELSE index[m]]

V == INSTANCE EplTreeKvProofs WITH index <- VIndex, cur <- MaxEntries

-----------------------------------------------------------------------------
(* The inductive invariant. *)

VKeys == {m \in Keys \union {0} : VIndex[m] # Null}
VOwns(m, k) == m \in VKeys /\ m <= k /\ \A n \in VKeys : n <= k => n <= m

\* What IndInv and LinkInv say of the index, the entries and the list.
ListInv ==
  /\ VIndex \in [Keys \union {0} -> Addr \union {Null}] /\ VIndex[0] = EntryHead
  /\ \A m, n \in VKeys : VIndex[m] = VIndex[n] => m = n
  /\ \A m \in VKeys : \A i \in Slots :
       nvm[VIndex[m]].key[i] # 0 =>
         /\ nvm[VIndex[m]].key[i] \in Keys
         /\ VOwns(m, nvm[VIndex[m]].key[i])
         /\ \A j \in Slots : nvm[VIndex[m]].key[j] = nvm[VIndex[m]].key[i] => j = i
  /\ LinkedBy(VKeys, VIndex, nvm)

\* After a restart that found several entries they are indexed by min_key,
\* the next entry of the allocator is in use, and clients cause no split.
MovedInv ==
  /\ first = EntryHead
  /\ Moved =>
       /\ VKeys # {0}
       /\ index[0] = Null
       /\ \E h \in Keys : /\ index[h] = EntryHead
                          /\ \A n \in Keys : index[n] = EntryHead => n = h
                          /\ \A n \in Keys : index[n] # Null => h <= n
       /\ cur = 1
       /\ pc \notin SplitPcs
       /\ pc = "insert" => ~Full(nvm[Route(op.k)])

\* An entry but the head has the smallest of its keys as index key and as
\* min_key; the head's min_key is 0 until its first split, then one of the
\* keys that belong to it.
MinInv ==
  /\ \A m \in VKeys : m # 0 => nvm[VIndex[m]].min = m /\ HasKey(nvm[VIndex[m]], m)
  /\ nvm[EntryHead].min \in Keys \union {0}
  /\ \A m \in VKeys : m # 0 => nvm[EntryHead].min < m
  /\ nvm[EntryHead].min = 0 <=> VKeys = {0}

\* Entry 2 is the first one that a split takes.
SecondInv ==
  /\ VKeys = {0} /\ pc # "off" =>
       cur = IF pc \in {"split_flag", "split_new"} THEN 2 ELSE 1
  /\ VKeys # {0} => \E m \in VKeys : VIndex[m] = 2

\* The call: its arguments, that an insert's key is not an index key, the
\* slot that waits for its flush, and the min_key of a split's new entry.
ArgInv ==
  /\ op.call \in {"none", "insert", "update"}
  /\ op.call # "none" => op.k \in Keys /\ op.v \in Vals
  /\ op.call = "insert" => op.k \notin VKeys /\ op.old = 0
  /\ pc = "flush" => nvm[op.ent].key[op.i] = op.k /\ \E m \in VKeys : VIndex[m] = op.ent
  /\ pc \in {"split_flag", "split_new"} => nvm[op.new].min = op.tmp[Half][1]

(***************************************************************************)
(* What a power failure in call o may leave of slot j of entry e, in a     *)
(* line x that holds the slot's key: the pair, or no key where the         *)
(* insert's is, or the old value where the update's is.  A value in        *)
(* another line may be lost.                                               *)
(***************************************************************************)
PairLeft(o, x, e, j) ==
  \/ x.key[j] = e.key[j] /\ (Straddles(j) \/ x.val[j] = e.val[j])
  \/ o.call = "insert" /\ e.key[j] = o.k /\ x.key[j] = 0
  \/ o.call = "update" /\ e.key[j] = o.k /\ x.key[j] = e.key[j]
       /\ (Straddles(j) \/ x.val[j] = o.old)

LineLeft(o, x, e, l) ==
  /\ l = 0 => x.next = e.next /\ x.min = e.min
  /\ \A j \in Slots : LineOf(KeyWord(j)) = l => PairLeft(o, x, e, j)

Left(o, d, e) == \A l \in Lines : \A x \in d[l] : LineLeft(o, x, e, l)

\* A power failure leaves every entry of the list, but for the one that
\* splitEntry rewrites.
LineInv ==
  \A m \in VKeys :
    \/ pc = "split_entry" /\ VIndex[m] = op.ent
    \/ Left(op, dur[VIndex[m]], nvm[VIndex[m]])

\* Links that survive lead into the pool.
NextOk(d) == \A l \in Lines : \A x \in d[l] : x.next \in Addr \union {Null}
NextInv == \A a \in Addr : NextOk(dur[a])

BaseInv ==
  /\ TypeOK /\ ListInv /\ MovedInv /\ MinInv /\ SecondInv /\ ArgInv /\ LineInv /\ NextInv

\* The invariants of the tree that stays up.
UpInv == IF Moved THEN V!KvInv /\ V!LinkInv ELSE KvInv /\ LinkInv

\* While the power is off: what the interrupted call had done, and that each
\* settled entry is one that may have survived.
OffInv ==
  /\ op.call = "insert" => op.old = 0 /\ (Found(op.k) => Get(op.k) = op.v)
  /\ op.call = "update" => Found(op.k) /\ Get(op.k) = op.v
  /\ img = [a \in DOMAIN img |-> img[a]]
  /\ \A a \in DOMAIN img : img[a] \in Survivors(dur[a])

CrashInv ==
  /\ BaseInv
  /\ pc # "undefined"
  /\ pc # "off" => UpInv /\ img = [a \in {} |-> EmptyBlock]
  /\ pc = "off" => OffInv

-----------------------------------------------------------------------------
(* The operators of V that do not depend on the index. *)

LEMMA SameSets ==
  /\ V!Slots = Slots /\ V!Addr = Addr /\ V!Null = Null /\ V!EntryHead = EntryHead
  /\ V!Block = Block /\ V!Lines = Lines /\ V!SplitPcs = SplitPcs /\ V!Pcs = Pcs
  /\ V!OpType = OpType /\ V!NoOp = NoOp
<1>1. /\ V!Slots = Slots /\ V!Addr = Addr /\ V!Null = Null /\ V!EntryHead = EntryHead
      /\ V!SplitPcs = SplitPcs
  BY DEF V!Slots, Slots, V!Addr, Addr, V!Null, Null, V!EntryHead, EntryHead, V!SplitPcs, SplitPcs
<1>2. V!Block = Block
  BY <1>1 DEF V!Block, Block
<1>3. V!Lines = Lines
  BY DEF V!Lines, Lines, V!LineOf, LineOf, V!NumWords, NumWords
<1>4. V!Pcs = Pcs
  BY <1>1 DEF V!Pcs, Pcs, V!BulkPcs, BulkPcs
<1>5. V!OpType = OpType
  BY <1>1 DEF V!OpType, OpType
<1>6. V!NoOp = NoOp
  BY <1>1 DEF V!NoOp, NoOp, V!NoTmp, NoTmp
<1> QED BY <1>1, <1>2, <1>3, <1>4, <1>5, <1>6

LEMMA SameOperators ==
  /\ \A e, k : V!HasKey(e, k) <=> HasKey(e, k)
  /\ \A e, k : V!FirstSlot(e, k) = FirstSlot(e, k)
  /\ \A e, l : V!OnLine(e, l) = OnLine(e, l)
  /\ \A d, vs : V!Wrote(d, vs) = Wrote(d, vs)
  /\ \A d, e, w : V!FlushWord(d, e, w) = FlushWord(d, e, w)
  /\ \A i : V!KeyWord(i) = KeyWord(i)
<1>1. \A e, k : V!HasKey(e, k) <=> HasKey(e, k)
  BY SameSets DEF V!HasKey, HasKey
<1>2. \A e, k : V!FirstSlot(e, k) = FirstSlot(e, k)
  BY SameSets DEF V!FirstSlot, FirstSlot
<1>3. \A i : V!KeyWord(i) = KeyWord(i) /\ V!ValWord(i) = ValWord(i) /\ V!LineOf(i) = LineOf(i)
  BY DEF V!KeyWord, KeyWord, V!ValWord, ValWord, V!LineOf, LineOf
<1>4. \A e, l : V!OnLine(e, l) = OnLine(e, l)
  BY <1>3, SameSets DEF V!OnLine, OnLine, V!Part, Part
<1>5. \A d, vs : V!Wrote(d, vs) = Wrote(d, vs)
  BY <1>4, SameSets DEF V!Wrote, Wrote
<1>6. \A d, e, w : V!FlushWord(d, e, w) = FlushWord(d, e, w)
  BY <1>3, <1>4 DEF V!FlushWord, FlushWord
<1> QED BY <1>1, <1>2, <1>3, <1>4, <1>5, <1>6

-----------------------------------------------------------------------------
(* The index of V. *)

LEMMA VIndexIs ==
  ASSUME TypeOK
  PROVE  /\ VIndex \in [Keys \union {0} -> Addr \union {Null}] /\ VIndex[0] = EntryHead
         /\ ~Moved => VIndex = index
         /\ Moved => \A m \in Keys : VIndex[m] = IF index[m] = EntryHead THEN Null ELSE index[m]
         /\ V!IndexKeys = VKeys
         /\ VKeys \in SUBSET Nat /\ 0 \in VKeys
<1>1. EntryHead \in Addr /\ EntryHead # Null
  BY MaxEntriesAssumption DEF EntryHead, Addr, Null
<1>2. index \in [Keys \union {0} -> Addr \union {Null}] /\ \A m \in Keys : m # 0
  BY KeysNat DEF TypeOK
<1>3. VIndex \in [Keys \union {0} -> Addr \union {Null}] /\ VIndex[0] = EntryHead
  BY <1>1, <1>2 DEF VIndex
<1>4. Moved => \A m \in Keys : VIndex[m] = IF index[m] = EntryHead THEN Null ELSE index[m]
  BY <1>2 DEF VIndex, Moved
<1>5. V!IndexKeys = VKeys
  BY SameSets DEF V!IndexKeys, VKeys
<1>6. VKeys \in SUBSET Nat
  BY KeysNat DEF VKeys
<1> QED BY <1>1, <1>3, <1>4, <1>5, <1>6 DEF VIndex, Moved, VKeys

LEMMA SameIndex ==
  ASSUME UNCHANGED index
  PROVE  VIndex' = VIndex /\ VKeys' = VKeys /\ (Moved' <=> Moved)
  BY DEF VIndex, VKeys, Moved

\* Some key of VIndex owns k, and its entry is the one that lookups find.
LEMMA VOwnerExists ==
  ASSUME TypeOK, MovedInv, NEW k \in Nat
  PROVE  \E m \in VKeys : VOwns(m, k) /\ Route(k) = VIndex[m]
<1> DEFINE S == {m \in VKeys : m <= k}
           Q == {m \in IndexKeys : m <= k}
           P(x) == x \in IndexKeys /\ x <= k /\ \A n \in IndexKeys : n <= k => n <= x
<1>1. /\ VKeys \in SUBSET Nat /\ 0 \in VKeys /\ VIndex[0] = EntryHead
      /\ ~Moved => VIndex = index
      /\ Moved => \A m \in Keys : VIndex[m] = IF index[m] = EntryHead THEN Null ELSE index[m]
  BY VIndexIs
<1>2. PICK m \in S : \A n \in S : n <= m
  <2>1. S \in SUBSET Nat /\ \A n \in S : n <= k
    BY <1>1
  <2>2. 0 \in S
    BY <1>1
  <2> QED BY <2>1, <2>2, LargestExists
<1>3. VOwns(m, k)
  BY <1>2 DEF VOwns
<1>4. EntryHead # Null /\ IndexKeys \subseteq Nat
  BY IndexKeysNat DEF EntryHead, Null
<1>5. ASSUME NEW x, P(x) PROVE Route(k) = index[x]
  <2>1. P(CHOOSE y \in IndexKeys : y <= k /\ \A n \in IndexKeys : n <= k => n <= y)
    BY <1>5
  <2>2. \A y : P(y) => y = x
    BY <1>4, <1>5
  <2> QED BY <1>5, <2>1, <2>2 DEF Route
<1>6. CASE ~Moved
  <2>1. VKeys = IndexKeys /\ VIndex = index
    BY <1>1, <1>6 DEF VKeys, IndexKeys
  <2>2. P(m)
    BY <2>1, <1>2
  <2> QED BY <1>2, <1>3, <1>5, <2>1, <2>2
<1>7. CASE Moved
  <2>1. PICK h \in Keys : /\ index[h] = EntryHead
                          /\ \A n \in Keys : index[n] = EntryHead => n = h
                          /\ \A n \in Keys : index[n] # Null => h <= n
    BY <1>7 DEF MovedInv
  <2>2. index[0] = Null /\ first = EntryHead /\ h \in Nat /\ h # 0
    BY <1>7, KeysNat DEF MovedInv
  <2>3. h \in IndexKeys /\ \A n \in IndexKeys : n \in Keys /\ h <= n
    BY <2>1, <2>2, <1>4 DEF IndexKeys
  <2>4. \A n \in Keys : n \in VKeys <=> n \in IndexKeys /\ index[n] # EntryHead
    BY <1>1, <1>7, <1>4 DEF VKeys, IndexKeys
  <2>5. CASE m # 0
    <3>1. m \in Keys /\ m \in IndexKeys /\ VIndex[m] = index[m]
      BY <1>1, <1>2, <1>7, <2>4, <2>5 DEF VKeys
    <3>2. ASSUME NEW n \in IndexKeys, n <= k PROVE n <= m
      <4>1. CASE index[n] = EntryHead
        BY <4>1, <2>1, <2>3, <3>1
      <4>2. CASE index[n] # EntryHead
        BY <4>2, <3>2, <2>3, <2>4, <1>2
      <4> QED BY <4>1, <4>2
    <3> QED BY <1>2, <1>3, <1>5, <3>1, <3>2
  <2>6. CASE m = 0
    <3>1. ASSUME NEW n \in IndexKeys, n <= k PROVE index[n] = EntryHead
      <4>1. SUFFICES ASSUME index[n] # EntryHead PROVE FALSE
        OBVIOUS
      <4>2. n \in S
        BY <4>1, <3>1, <2>3, <2>4
      <4> QED BY <4>2, <2>6, <1>2, <2>3, KeysNat
    <3>2. CASE \E n \in IndexKeys : n <= k
      <4>1. PICK x \in Q : \A n \in Q : n <= x
        <5>1. Q \in SUBSET Nat /\ Q # {} /\ \A n \in Q : n <= k
          BY <3>2, <1>4
        <5> QED BY <5>1, LargestExists
      <4>2. P(x)
        BY <4>1
      <4> QED BY <4>1, <4>2, <3>1, <1>1, <1>2, <1>3, <1>5, <2>6
    <3>3. CASE ~\E n \in IndexKeys : n <= k
      BY <3>3, <2>2, <1>1, <1>2, <1>3, <2>6 DEF Route
    <3> QED BY <3>2, <3>3
  <2> QED BY <2>5, <2>6
<1> QED BY <1>6, <1>7

LEMMA VOwnerUnique ==
  ASSUME TypeOK, NEW k \in Nat, NEW m, NEW n, VOwns(m, k), VOwns(n, k)
  PROVE  m = n
<1>1. VKeys \in SUBSET Nat
  BY VIndexIs
<1> QED BY <1>1 DEF VOwns

LEMMA VEntry ==
  ASSUME TypeOK, NEW m \in VKeys
  PROVE  VIndex[m] \in Addr /\ nvm[VIndex[m]] \in Block /\ nvm[VIndex[m]].next \in Addr \union {Null}
<1>1. VIndex[m] \in Addr
  BY VIndexIs DEF VKeys
<1> QED BY <1>1 DEF TypeOK

\* Get finds the pairs in the entries of VIndex and nothing else.
VGets ==
  \A k \in Keys :
    /\ \A m \in VKeys : \A i \in Slots :
         nvm[VIndex[m]].key[i] = k => Found(k) /\ Get(k) = nvm[VIndex[m]].val[i]
    /\ Found(k) => \E m \in VKeys : \E i \in Slots :
                     nvm[VIndex[m]].key[i] = k /\ nvm[VIndex[m]].val[i] = Get(k)
    /\ ~Found(k) => Get(k) = 0

LEMMA VGetsHold == TypeOK /\ MovedInv /\ ListInv => VGets
<1> SUFFICES ASSUME TypeOK, MovedInv, ListInv, NEW k \in Keys
             PROVE  /\ \A m \in VKeys : \A i \in Slots :
                         nvm[VIndex[m]].key[i] = k => Found(k) /\ Get(k) = nvm[VIndex[m]].val[i]
                    /\ Found(k) => \E m \in VKeys : \E i \in Slots :
                                     nvm[VIndex[m]].key[i] = k /\ nvm[VIndex[m]].val[i] = Get(k)
                    /\ ~Found(k) => Get(k) = 0
  BY DEF VGets
<1> DEFINE e == nvm[Route(k)]
<1>1. k \in Nat /\ k # 0
  BY KeysNat
<1>2. PICK p \in VKeys : VOwns(p, k) /\ Route(k) = VIndex[p]
  BY <1>1, VOwnerExists
<1>3. e \in Block
  BY <1>2, VEntry
<1>4. Found(k) => FirstSlot(e, k) \in Slots /\ e.key[FirstSlot(e, k)] = k /\ Get(k) = e.val[FirstSlot(e, k)]
  BY <1>3, FirstSlotIs DEF Found, Get
<1>5. ASSUME NEW m \in VKeys, NEW i \in Slots, nvm[VIndex[m]].key[i] = k
      PROVE  Found(k) /\ Get(k) = nvm[VIndex[m]].val[i]
  <2>1. VOwns(m, k) /\ \A j \in Slots : nvm[VIndex[m]].key[j] = k => j = i
    BY <1>1, <1>5 DEF ListInv
  <2>2. m = p
    BY <2>1, <1>1, <1>2, VOwnerUnique
  <2>3. Found(k)
    BY <1>2, <1>5, <2>2 DEF Found, HasKey
  <2>4. FirstSlot(e, k) = i
    BY <1>2, <1>4, <2>1, <2>2, <2>3
  <2> QED BY <1>2, <1>4, <2>2, <2>3, <2>4
<1>6. Found(k) => \E m \in VKeys : \E i \in Slots :
                    nvm[VIndex[m]].key[i] = k /\ nvm[VIndex[m]].val[i] = Get(k)
  BY <1>2, <1>4
<1>7. ~Found(k) => Get(k) = 0
  BY DEF Get
<1> QED BY <1>5, <1>6, <1>7

\* Lookups in V are the tree's.
SameLookups ==
  \A k \in Keys : V!Route(k) = Route(k) /\ (V!Found(k) <=> Found(k)) /\ V!Get(k) = Get(k)

LEMMA SameLookupsHold == TypeOK /\ MovedInv => SameLookups
<1> SUFFICES ASSUME TypeOK, MovedInv, NEW k \in Keys
             PROVE  V!Route(k) = Route(k) /\ (V!Found(k) <=> Found(k)) /\ V!Get(k) = Get(k)
  BY DEF SameLookups
<1> DEFINE P(x) == x \in VKeys /\ x <= k /\ \A n \in VKeys : n <= k => n <= x
<1>1. k \in Nat
  BY KeysNat
<1>2. PICK m \in VKeys : VOwns(m, k) /\ Route(k) = VIndex[m]
  BY <1>1, VOwnerExists
<1>3. P(m)
  BY <1>2 DEF VOwns
<1>4. P(CHOOSE x \in VKeys : x <= k /\ \A n \in VKeys : n <= k => n <= x)
  BY <1>3
<1>5. \A x : P(x) => x = m
  BY <1>1, <1>2, VOwnerUnique DEF VOwns
<1>6. V!Route(k) = VIndex[CHOOSE x \in VKeys : x <= k /\ \A n \in VKeys : n <= k => n <= x]
  <2>1. V!IndexKeys = VKeys
    BY VIndexIs
  <2> QED BY <1>3, <2>1 DEF V!Route
<1>7. V!Route(k) = Route(k)
  BY <1>2, <1>4, <1>5, <1>6
<1>8. V!Found(k) <=> Found(k)
  BY <1>7, SameOperators DEF V!Found, Found
<1> QED BY <1>7, <1>8, SameOperators DEF V!Get, Get

\* The invariants of V, in the names of the tree.
LEMMA TypeToV == TypeOK => V!TypeOK
<1> SUFFICES ASSUME TypeOK PROVE V!TypeOK
  OBVIOUS
<1>1. VIndex \in [Keys \union {0} -> Addr \union {Null}] /\ MaxEntries \in Addr
  BY VIndexIs, MaxEntriesAssumption DEF Addr
<1> QED BY <1>1, SameSets DEF TypeOK, V!TypeOK

LEMMA ListFromV == TypeOK /\ V!IndInv /\ V!LinkInv => ListInv
<1> SUFFICES ASSUME TypeOK, V!IndInv, V!LinkInv PROVE ListInv
  OBVIOUS
<1>1. /\ VIndex \in [Keys \union {0} -> Addr \union {Null}] /\ VIndex[0] = EntryHead
      /\ V!IndexKeys = VKeys
  BY VIndexIs
<1>2. \A m, n \in VKeys : VIndex[m] = VIndex[n] => m = n
  BY <1>1 DEF V!IndInv, V!IndexInjective
<1>3. \A m, k : V!Owns(m, k) <=> VOwns(m, k)
  BY <1>1 DEF V!Owns, VOwns
<1>4. \A m \in VKeys : \A i \in Slots :
       nvm[VIndex[m]].key[i] # 0 =>
         /\ nvm[VIndex[m]].key[i] \in Keys
         /\ VOwns(m, nvm[VIndex[m]].key[i])
         /\ \A j \in Slots : nvm[VIndex[m]].key[j] = nvm[VIndex[m]].key[i] => j = i
  BY <1>1, <1>3, SameSets DEF V!IndInv, V!Owned
<1>5. \A S, ix, mem : V!LinkedBy(S, ix, mem) <=> LinkedBy(S, ix, mem)
  BY SameSets DEF V!LinkedBy, LinkedBy, V!Follows, Follows
<1>6. LinkedBy(VKeys, VIndex, nvm)
  BY <1>1, <1>5 DEF V!LinkInv, V!Linked
<1> QED BY <1>1, <1>2, <1>4, <1>6 DEF ListInv

LEMMA ListFromUp == KvInv /\ LinkInv /\ ~Moved => ListInv
<1> SUFFICES ASSUME KvInv, LinkInv, ~Moved PROVE ListInv
  OBVIOUS
<1>1. TypeOK /\ IndexInjective /\ Owned /\ Linked
  BY DEF KvInv, IndInv, LinkInv
<1>2. VIndex = index /\ VIndex \in [Keys \union {0} -> Addr \union {Null}] /\ VIndex[0] = EntryHead
  BY <1>1, VIndexIs
<1>3. VKeys = IndexKeys
  BY <1>2 DEF VKeys, IndexKeys
<1>4. \A m, k : Owns(m, k) <=> VOwns(m, k)
  BY <1>3 DEF Owns, VOwns
<1> QED BY <1>1, <1>2, <1>3, <1>4 DEF ListInv, IndexInjective, Owned, Linked

\* Between calls, that is all that they say.
LEMMA UpFromList ==
  ASSUME TypeOK, MovedInv, ListInv, pc = "idle", op = NoOp, ~Moved => \A m \in VKeys : VIndex[m] <= cur
  PROVE  UpInv
<1>1. CASE Moved
  <2>1. V!TypeOK
    BY TypeToV
  <2>2. V!IndexKeys = VKeys /\ VIndex[0] = EntryHead /\ first = EntryHead
    BY VIndexIs DEF MovedInv
  <2>3. V!OpInv
    BY SameSets DEF V!OpInv, V!Serving, SplitPcs
  <2>4. V!IndexInv
    <3>1. \A m \in VKeys : VIndex[m] \in Addr
      BY VEntry
    <3>2. \A m \in VKeys : VIndex[m] <= MaxEntries
      BY <3>1, MaxEntriesAssumption DEF Addr
    <3> QED BY <2>2, <3>2, SameSets DEF V!IndexInv
  <2>5. V!IndexInjective
    BY <2>2 DEF V!IndexInjective, ListInv
  <2>6. \A m, k : V!Owns(m, k) <=> VOwns(m, k)
    BY <2>2 DEF V!Owns, VOwns
  <2>7. V!Owned
    BY <2>2, <2>6, SameSets DEF V!Owned, ListInv
  <2>8. V!InsertInv /\ V!SplitInv /\ V!SplitEndInv /\ V!TmpInv /\ V!NewLinked
    BY DEF V!InsertInv, V!SplitInv, V!SplitEndInv, V!TmpInv, V!NewLinked
  <2>9. V!CallInv
    BY SameSets DEF V!CallInv, SplitPcs
  <2>10. \A S, ix, mem : V!LinkedBy(S, ix, mem) <=> LinkedBy(S, ix, mem)
    BY SameSets DEF V!LinkedBy, LinkedBy, V!Follows, Follows
  <2>11. V!Linked
    BY <2>2, <2>10 DEF V!Linked, ListInv
  <2> QED BY <1>1, <2>1, <2>3, <2>4, <2>5, <2>7, <2>8, <2>9, <2>11
          DEF UpInv, V!KvInv, V!IndInv, V!LinkInv
<1>2. CASE ~Moved
  <2>1. VIndex = index /\ VIndex[0] = EntryHead /\ first = EntryHead
    BY <1>2, VIndexIs DEF MovedInv
  <2>2. VKeys = IndexKeys
    BY <2>1 DEF VKeys, IndexKeys
  <2>3. OpInv /\ IndexInv /\ IndexInjective
    BY <1>2, <2>1, <2>2 DEF OpInv, Serving, SplitPcs, IndexInv, IndexInjective, ListInv
  <2>4. \A m, k : Owns(m, k) <=> VOwns(m, k)
    BY <2>2 DEF Owns, VOwns
  <2>5. Owned /\ Linked
    BY <2>1, <2>2, <2>4 DEF Owned, Linked, ListInv
  <2>6. InsertInv /\ SplitInv /\ SplitEndInv /\ TmpInv /\ NewLinked /\ CallInv
    BY DEF InsertInv, SplitInv, SplitEndInv, TmpInv, NewLinked, CallInv, SplitPcs
  <2> QED BY <1>2, <2>3, <2>5, <2>6 DEF UpInv, KvInv, IndInv, LinkInv
<1> QED BY <1>1, <1>2

-----------------------------------------------------------------------------
(* What lines hold and what survives of them. *)

\* Every line of d holds what e holds, but for values in another line.
StrictLine(x, e, l) ==
  /\ l = 0 => x.next = e.next /\ x.min = e.min
  /\ \A j \in Slots : LineOf(KeyWord(j)) = l =>
       x.key[j] = e.key[j] /\ (Straddles(j) \/ x.val[j] = e.val[j])

Strict(d, e) == \A l \in Lines : \A x \in d[l] : StrictLine(x, e, l)

\* The same link, min_key and pairs.
SamePairs(e, g) == e.next = g.next /\ e.min = g.min /\ e.key = g.key /\ e.val = g.val

LEMMA LineFacts ==
  /\ LineOf(0) = 0 /\ LineOf(1) = 0 /\ LineOf(2) = 0 /\ 0 \in Lines
  /\ \A j \in Slots : LineOf(KeyWord(j)) \in Lines
<1>1. NumWords \in Nat /\ NumWords >= 7
  BY KAssumption DEF NumWords
<1>2. LineOf(0) = 0 /\ LineOf(1) = 0 /\ LineOf(2) = 0 /\ 0 \in Lines
  BY <1>1 DEF LineOf, Lines
<1>3. ASSUME NEW j \in Slots PROVE LineOf(KeyWord(j)) \in Lines
  <2>1. j \in Nat /\ j <= K - 1
    BY KAssumption DEF Slots
  <2>2. KeyWord(j) \in Nat /\ NumWords - 1 \in Nat /\ KeyWord(j) <= NumWords - 1
    BY <2>1, KAssumption DEF KeyWord, NumWords
  <2> DEFINE x == KeyWord(j)
             y == NumWords - 1
  <2> HIDE DEF x, y
  <2>3. x \in Nat /\ y \in Nat /\ x <= y
    BY <2>2 DEF x, y
  <2>4. x \div 8 \in 0..(y \div 8)
    BY <2>3
  <2> QED BY <2>4 DEF LineOf, Lines, x, y
<1> QED BY <1>2, <1>3

LEMMA OnLineStrict ==
  ASSUME NEW e, NEW l
  PROVE  StrictLine(OnLine(e, l), e, l)
<1>1. l = 0 => OnLine(e, l).next = e.next /\ OnLine(e, l).min = e.min
  BY LineFacts DEF OnLine, Part
<1>2. ASSUME NEW j \in Slots, LineOf(KeyWord(j)) = l
      PROVE  OnLine(e, l).key[j] = e.key[j] /\ (Straddles(j) \/ OnLine(e, l).val[j] = e.val[j])
  BY <1>2 DEF OnLine, Part, Straddles
<1> QED BY <1>1, <1>2 DEF StrictLine

LEMMA PersistStrict ==
  ASSUME NEW e
  PROVE  Strict(Persist(e), e)
  BY OnLineStrict DEF Strict, Persist

LEMMA StrictIsLeft ==
  ASSUME NEW o, NEW d, NEW e, Strict(d, e)
  PROVE  Left(o, d, e)
  BY DEF Strict, Left, StrictLine, LineLeft, PairLeft

\* Without a call, or with one whose key the entry does not have.
LEMMA LeftIsStrict ==
  ASSUME NEW o, NEW d, NEW e, Left(o, d, e), o.call = "none" \/ \A j \in Slots : e.key[j] # o.k
  PROVE  Strict(d, e)
  BY DEF Strict, Left, StrictLine, LineLeft, PairLeft

\* The flag does not matter.
LEMMA LeftSame ==
  ASSUME NEW o, NEW d, NEW e, NEW g, SamePairs(e, g), Left(o, d, e)
  PROVE  Left(o, d, g)
  BY DEF Left, LineLeft, PairLeft, SamePairs

\* Only the name of the call, its key and the old value matter.
LEMMA LeftCall ==
  ASSUME NEW o, NEW p, NEW d, NEW e, Left(o, d, e), p.call = o.call, p.k = o.k, p.old = o.old
  PROVE  Left(p, d, e)
  BY DEF Left, LineLeft, PairLeft

LEMMA LeftWrote ==
  ASSUME NEW o, NEW d, NEW e, Left(o, d, e), NEW vs, \A v \in vs : SamePairs(v, e)
  PROVE  Left(o, Wrote(d, vs), e)
<1> SUFFICES ASSUME NEW l \in Lines, NEW x \in Wrote(d, vs)[l] PROVE LineLeft(o, x, e, l)
  BY DEF Left
<1>1. CASE x \in d[l]
  BY <1>1 DEF Left
<1>2. CASE \E v \in vs : x = OnLine(v, l)
  <2>1. PICK v \in vs : x = OnLine(v, l)
    BY <1>2
  <2>2. StrictLine(x, v, l)
    BY <2>1, OnLineStrict
  <2> QED BY <2>2 DEF SamePairs, StrictLine, LineLeft, PairLeft
<1> QED BY <1>1, <1>2 DEF Wrote

LEMMA LeftFlush ==
  ASSUME NEW o, NEW d \in [Lines -> SUBSET Block], NEW e, Left(o, d, e), NEW w
  PROVE  Left(o, FlushWord(d, e, w), e)
<1> SUFFICES ASSUME NEW l \in Lines, NEW x \in FlushWord(d, e, w)[l] PROVE LineLeft(o, x, e, l)
  BY DEF Left
<1>1. CASE x \in d[l]
  BY <1>1 DEF Left
<1>2. CASE x = OnLine(e, l)
  <2>1. StrictLine(x, e, l)
    BY <1>2, OnLineStrict
  <2> QED BY <2>1 DEF StrictLine, LineLeft, PairLeft
<1> QED BY <1>1, <1>2 DEF FlushWord

\* clflush of a slot's key line: the call's slot can no longer be lost.
LEMMA FlushStrict ==
  ASSUME NEW o, NEW d \in [Lines -> SUBSET Block], NEW e, Left(o, d, e), NEW i \in Slots,
         \A j \in Slots : e.key[j] = o.k => j = i
  PROVE  Strict(FlushWord(d, e, KeyWord(i)), e)
<1> SUFFICES ASSUME NEW l \in Lines, NEW x \in FlushWord(d, e, KeyWord(i))[l] PROVE StrictLine(x, e, l)
  BY DEF Strict
<1>1. CASE l = LineOf(KeyWord(i))
  <2>1. x = OnLine(e, l)
    BY <1>1 DEF FlushWord
  <2> QED BY <2>1, OnLineStrict
<1>2. CASE l # LineOf(KeyWord(i))
  <2>1. LineLeft(o, x, e, l)
    BY <1>2 DEF FlushWord, Left
  <2> QED BY <1>2, <2>1 DEF LineLeft, PairLeft, StrictLine
<1> QED BY <1>1, <1>2

LEMMA NextOkWrote ==
  ASSUME NEW d, NextOk(d), NEW vs, \A v \in vs : v.next \in Addr \union {Null}
  PROVE  NextOk(Wrote(d, vs))
  BY DEF NextOk, Wrote, OnLine, Part, Null

LEMMA NextOkFlush ==
  ASSUME NEW d \in [Lines -> SUBSET Block], NextOk(d), NEW e, e.next \in Addr \union {Null}, NEW w
  PROVE  NextOk(FlushWord(d, e, w))
  BY DEF NextOk, FlushWord, OnLine, Part, Null

LEMMA NextOkPersist ==
  ASSUME NEW e, e.next \in Addr \union {Null}
  PROVE  NextOk(Persist(e))
  BY DEF NextOk, Persist, OnLine, Part, Null

\* The links and the contents of what survives.
LEMMA SurvivorIs ==
  ASSUME NEW d \in [Lines -> SUBSET Block], NEW s \in Survivors(d)
  PROVE  \E f : /\ \A l \in Lines : f[l] \in d[l]
                /\ s = Assemble(f)
  BY DEF Survivors

LEMMA SurvivorType ==
  ASSUME NEW d \in [Lines -> SUBSET Block], NEW s \in Survivors(d)
  PROVE  s \in Block /\ \E x \in d[0] : s.next = x.next
<1>1. PICK f : (\A l \in Lines : f[l] \in d[l]) /\ s = Assemble(f)
  BY SurvivorIs
<1>2. \A l \in Lines : f[l] \in Block
  BY <1>1
<1>3. 0 \in Lines /\ \A j \in Slots : LineOf(KeyWord(j)) \in Lines /\ LineOf(ValWord(j)) \in Lines
  <2>1. ASSUME NEW j \in Slots PROVE LineOf(ValWord(j)) \in Lines
    <3>1. j \in Nat /\ j <= K - 1
      BY KAssumption DEF Slots
    <3>2. ValWord(j) \in Nat /\ NumWords - 1 \in Nat /\ ValWord(j) <= NumWords - 1
      BY <3>1, KAssumption DEF ValWord, NumWords
    <3> DEFINE x == ValWord(j)
               y == NumWords - 1
    <3> HIDE DEF x, y
    <3>3. x \in Nat /\ y \in Nat /\ x <= y
      BY <3>2 DEF x, y
    <3>4. x \div 8 \in 0..(y \div 8)
      BY <3>3
    <3> QED BY <3>4 DEF LineOf, Lines, x, y
  <2> QED BY <2>1, LineFacts
<1>4. [i \in Slots |-> f[LineOf(KeyWord(i))].key[i]] \in [Slots -> Nat]
  BY <1>2, <1>3 DEF Block
<1>5. [i \in Slots |-> f[LineOf(ValWord(i))].val[i]] \in [Slots -> Nat]
  BY <1>2, <1>3 DEF Block
<1>6. f[0] \in Block /\ f[0] \in d[0] /\ s.next = f[0].next
  BY <1>1, <1>2, <1>3 DEF Assemble
<1>7. f[0].next \in Nat /\ f[0].min \in Nat /\ f[0].flag \in {0, 1}
  BY <1>6 DEF Block
<1>8. s \in Block
  BY <1>1, <1>4, <1>5, <1>7 DEF Assemble, Block
<1> QED BY <1>6, <1>8

LEMMA SurvivorLeft ==
  ASSUME NEW o, NEW d \in [Lines -> SUBSET Block], NEW e, Left(o, d, e), NEW s \in Survivors(d)
  PROVE  s.next = e.next /\ s.min = e.min /\ \A j \in Slots : PairLeft(o, s, e, j)
<1>1. PICK f : (\A l \in Lines : f[l] \in d[l]) /\ s = Assemble(f)
  BY SurvivorIs
<1>2. \A l \in Lines : LineLeft(o, f[l], e, l)
  BY <1>1 DEF Left
<1>3. s.next = e.next /\ s.min = e.min
  <2>1. LineLeft(o, f[0], e, 0)
    BY <1>2, LineFacts
  <2> QED BY <1>1, <2>1 DEF Assemble, LineLeft
<1>4. ASSUME NEW j \in Slots PROVE PairLeft(o, s, e, j)
  <2> DEFINE l == LineOf(KeyWord(j))
  <2>1. PairLeft(o, f[l], e, j)
    BY <1>2, LineFacts DEF LineLeft
  <2>2. s.key[j] = f[l].key[j] /\ (~Straddles(j) => s.val[j] = f[l].val[j])
    BY <1>1 DEF Assemble, Straddles
  <2> QED BY <2>1, <2>2 DEF PairLeft
<1> QED BY <1>3, <1>4

-----------------------------------------------------------------------------
(* A running program, before and after a restart. *)

\* What the call in progress knows and has done.
UpFacts ==
  /\ Serving
  /\ pc # "idle" => op.k \in Keys
  /\ pc = "flush" => op.ent \in Addr /\ op.i \in Slots
  /\ pc = "idle" => op = NoOp
  /\ pc = "insert" \/ pc \in SplitPcs => op.call = "insert" /\ op.old = 0
  /\ pc = "flush" => op.call \in CallNames /\ Get(op.k) = op.v
  /\ pc \in {"insert", "split_flag", "split_new"} => ~Found(op.k)

LEMMA UpFactsHold == BaseInv /\ UpInv => UpFacts
<1> SUFFICES ASSUME BaseInv, UpInv PROVE UpFacts
  OBVIOUS
<1>1. CASE ~Moved
  <2>1. OpInv /\ InsertInv /\ SplitInv /\ CallInv
    BY <1>1 DEF UpInv, KvInv, IndInv
  <2>2. pc \in {"insert", "split_flag", "split_new"} => ~Found(op.k)
    BY <2>1 DEF InsertInv, SplitInv, Found, HasKey
  <2>3. pc = "flush" => op.k \in Keys /\ op.call \in CallNames /\ Get(op.k) = op.v
    BY <2>1 DEF OpInv, CallInv, CallNames
  <2> QED BY <2>1, <2>2, <2>3 DEF UpFacts, OpInv, CallInv
<1>2. CASE Moved
  <2>1. V!OpInv /\ V!InsertInv /\ V!CallInv /\ pc \notin SplitPcs
    BY <1>2 DEF UpInv, V!KvInv, V!IndInv, BaseInv, MovedInv
  <2>2. SameLookups
    BY SameLookupsHold DEF BaseInv
  <2>3. Serving /\ pc # "idle" => op.k \in Keys
    BY <2>1, SameSets DEF V!OpInv, V!Serving, Serving
  <2>4. pc = "flush" => op.ent \in Addr /\ op.i \in Slots
    BY <2>1, SameSets DEF V!OpInv
  <2>5. pc = "idle" => op = NoOp
    BY <2>1, SameSets DEF V!CallInv
  <2>6. pc = "insert" => op.call = "insert" /\ op.old = 0
    BY <2>1, SameSets DEF V!CallInv
  <2>7. pc = "flush" => op.k \in Keys /\ op.call \in CallNames /\ Get(op.k) = op.v
    BY <2>1, <2>2, <2>3 DEF V!CallInv, V!OpInv, CallNames, SameLookups
  <2>8. pc = "insert" => ~Found(op.k)
    <3>1. SUFFICES ASSUME pc = "insert" PROVE ~Found(op.k)
      OBVIOUS
    <3>2. op.k \in Keys /\ \A i \in Slots : nvm[V!Route(op.k)].key[i] # op.k
      BY <2>1, <3>1, SameSets DEF V!InsertInv, V!OpInv
    <3> QED BY <2>2, <3>2 DEF SameLookups, Found, HasKey
  <2>9. Serving
    BY <2>1, SameSets DEF V!OpInv, V!Serving, Serving
  <2> QED BY <2>1, <2>3, <2>4, <2>5, <2>6, <2>7, <2>8, <2>9, SameSets DEF UpFacts, SplitPcs, V!OpInv
<1> QED BY <1>1, <1>2

\* After a restart that found several entries, no client causes a split.
LEMMA NoMoreSplits ==
  ASSUME CrashSafe, BaseInv, Moved
  PROVE  ~MaySplit
<1>1. cur = 1 /\ VKeys # {0} /\ Reuse = FALSE
  BY DEF BaseInv, MovedInv, CrashSafe
<1>2. PICK m \in VKeys : VIndex[m] = 2
  BY <1>1 DEF BaseInv, SecondInv
<1>3. m \in Keys /\ index[m] = 2
  <2>1. VIndex[0] = EntryHead /\ \A n \in Keys : VIndex[n] = IF index[n] = EntryHead THEN Null ELSE index[n]
    BY VIndexIs DEF BaseInv
  <2>2. m # 0
    BY <1>2, <2>1 DEF EntryHead
  <2>3. m \in Keys
    BY <2>2 DEF VKeys
  <2> QED BY <1>2, <2>1, <2>3 DEF Null
<1>4. 2 \in Indexed
  BY <1>3 DEF Indexed, IndexKeys, Null
<1> QED BY <1>1, <1>4 DEF MaySplit

\* The steps of the tree as steps of V.
LEMMA StepOfV ==
  ASSUME CrashSafe, BaseInv, UpInv, Moved, [Next]_vars
  PROVE  /\ [V!Next]_(V!vars) /\ UNCHANGED <<index, first, cur>>
         /\ pc' \notin SplitPcs
         /\ pc' = "insert" => ~Full(nvm[Route(op.k)])'
<1>0. UpFacts /\ SameLookups /\ ~MaySplit /\ pc \notin SplitPcs /\ "remove" \notin Ops
      /\ (pc = "insert" => ~Full(nvm[Route(op.k)]))
  BY UpFactsHold, SameLookupsHold, NoMoreSplits DEF BaseInv, MovedInv, CrashSafe
<1> USE DEF SameLookups
<1>a. \A e : V!Full(e) <=> Full(e)
  BY SameOperators DEF V!Full, Full
<1>b. UNCHANGED index => UNCHANGED VIndex
  BY SameIndex
<1>1. CASE UNCHANGED vars
  <2>1. UNCHANGED <<nvm, dur, index, first, cur, pc, op, img, crashes>>
    BY <1>1 DEF vars
  <2>2. pc' = "insert" => ~Full(nvm[Route(op.k)])'
    <3>1. Route(op.k)' = Route(op.k)
      BY <2>1 DEF Route, IndexKeys
    <3> QED BY <2>1, <3>1, <1>0
  <2> QED BY <2>1, <2>2, <1>0, <1>b DEF V!vars
<1>2. ASSUME NEW k \in Keys, NEW v \in Vals, Insert(k, v)
      PROVE  V!Insert(k, v) /\ UNCHANGED <<index, first, cur>> /\ pc' = "insert"
             /\ ~Full(nvm[Route(op.k)])'
  <2>1. UNCHANGED <<nvm, index, first, cur>> /\ pc' = "insert" /\ ~Full(nvm[Route(k)]) /\ op'.k = k
    BY <1>2, <1>0 DEF Insert, NoOp
  <2>2. V!Insert(k, v)
    BY <1>2, <1>0, <1>a, <1>b, <2>1, SameSets DEF Insert, V!Insert
  <2>3. ~Full(nvm[Route(op.k)])'
    <3>1. Route(op.k)' = Route(k)
      BY <2>1 DEF Route, IndexKeys
    <3> QED BY <2>1, <3>1
  <2> QED BY <2>1, <2>2, <2>3
<1>3. ASSUME NEW k \in Keys, NEW v \in Vals, Update(k, v)
      PROVE  V!Update(k, v) /\ UNCHANGED <<index, first, cur>> /\ pc' = "flush"
  BY <1>3, <1>0, <1>b, SameSets, SameOperators DEF Update, V!Update, Write, V!Write
<1>4. CASE MaybePut
  <2>1. op.k \in Keys
    BY <1>4, <1>0 DEF UpFacts, MaybePut
  <2>2. V!MaybePut
    BY <1>4, <1>0, <1>a, <1>b, <2>1, SameSets, SameOperators DEF MaybePut, V!MaybePut, Write, V!Write
  <2> QED BY <1>4, <2>2 DEF MaybePut, V!Next, V!Step, SplitPcs
<1>5. CASE FlushSlot
  <2>1. V!FlushSlot
    BY <1>5, <1>0, <1>b, SameSets, SameOperators DEF FlushSlot, V!FlushSlot
  <2> QED BY <1>5, <2>1 DEF FlushSlot, V!Next, V!Step, SplitPcs
<1>6. ~SplitStep
  BY <1>0 DEF SplitStep, SplitBegin, SplitFlag, SplitNew, SplitEntry, SplitPcs
<1>7. \A k \in Keys : ~Remove(k)
  BY <1>0 DEF Remove
<1>8. CASE Client
  <2>1. PICK k \in Keys, v \in Vals : Insert(k, v) \/ Update(k, v)
    BY <1>7, <1>8 DEF Client
  <2>2. V!Next
    BY <2>1, <1>2, <1>3 DEF V!Next, V!Client
  <2> QED BY <2>1, <2>2, <1>2, <1>3 DEF SplitPcs
<1> QED BY <1>1, <1>4, <1>5, <1>6, <1>8 DEF Next, Step

\* The invariants of the tree that stays up carry over to the restarted one.
LEMMA RunStep ==
  ASSUME CrashSafe, BaseInv, UpInv, [Next]_vars
  PROVE  TypeOK' /\ UpInv' /\ ListInv' /\ MovedInv' /\ (Moved' <=> Moved)
<1>1. CASE ~Moved
  <2>1. KvInv' /\ LinkInv'
    BY <1>1, StepImplements, NextLink DEF UpInv, KvInv
  <2>2. TypeOK' /\ index'[0] = EntryHead /\ first' = EntryHead
    BY <2>1 DEF KvInv, IndInv, IndexInv
  <2>3. ~Moved'
    BY <2>2 DEF Moved
  <2>4. (KvInv /\ LinkInv /\ ~Moved => ListInv)'
    BY ListFromUp, PTL
  <2> QED BY <1>1, <2>1, <2>2, <2>3, <2>4 DEF UpInv, MovedInv
<1>2. CASE Moved
  <2>1. /\ [V!Next]_(V!vars) /\ UNCHANGED <<index, first, cur>>
        /\ pc' \notin SplitPcs
        /\ pc' = "insert" => ~Full(nvm[Route(op.k)])'
    BY <1>2, StepOfV
  <2>2. V!KvInv' /\ V!LinkInv'
    <3>1. V!KvInv /\ V!LinkInv /\ V!IndInv
      BY <1>2 DEF UpInv, V!KvInv
    <3>2. V!KvInv'
      BY <2>1, <3>1, V!StepImplements, KAssumption, KeysAssumption, ValsAssumption,
         MaxEntriesAssumption, BoundsAssumption
    <3>3. V!LinkInv'
      BY <2>1, <3>1, V!NextLink, KAssumption, KeysAssumption, ValsAssumption,
         MaxEntriesAssumption, BoundsAssumption
    <3> QED BY <3>2, <3>3
  <2>3. V!TypeOK' /\ V!IndInv'
    BY <2>2 DEF V!KvInv, V!IndInv
  <2>4. TypeOK'
    BY <2>1, <2>3, SameSets DEF BaseInv, TypeOK, V!TypeOK
  <2>5. VKeys' = VKeys /\ Moved'
    BY <1>2, <2>1, SameIndex
  <2>6. (TypeOK /\ V!IndInv /\ V!LinkInv => ListInv)'
    BY ListFromV, PTL
  <2>7. MovedInv'
    BY <1>2, <2>1, <2>5 DEF BaseInv, MovedInv
  <2> QED BY <1>2, <2>2, <2>3, <2>4, <2>5, <2>6, <2>7 DEF UpInv
<1> QED BY <1>1, <1>2

-----------------------------------------------------------------------------
(* The steps that write one slot. *)

StrictInv == \A m \in VKeys : Strict(dur[VIndex[m]], nvm[VIndex[m]])

LEMMA LinesAreStrict ==
  ASSUME LineInv, pc # "split_entry", op.call = "none"
  PROVE  StrictInv
<1> SUFFICES ASSUME NEW m \in VKeys PROVE Strict(dur[VIndex[m]], nvm[VIndex[m]])
  BY DEF StrictInv
<1>1. Left(op, dur[VIndex[m]], nvm[VIndex[m]])
  BY DEF LineInv
<1> QED BY <1>1, LeftIsStrict

\* Steps that keep the links, the min_keys and the keys of all entries.
LEMMA SlotRest ==
  ASSUME BaseInv, UNCHANGED <<index, cur>>,
         pc \in {"idle", "insert", "flush"}, pc' \in {"idle", "insert", "flush"},
         \A a \in Addr : nvm'[a].min = nvm[a].min,
         \A a \in Addr : \A i \in Slots : nvm[a].key[i] # 0 => nvm'[a].key[i] = nvm[a].key[i]
  PROVE  MinInv' /\ SecondInv'
<1>1. VIndex' = VIndex /\ VKeys' = VKeys
  BY SameIndex
<1>2. \A m \in VKeys : VIndex[m] \in Addr
  BY VEntry DEF BaseInv
<1>3. EntryHead \in Addr
  BY MaxEntriesAssumption DEF EntryHead, Addr
<1>4. \A m \in VKeys : m # 0 => nvm'[VIndex[m]].min = m /\ HasKey(nvm'[VIndex[m]], m)
  BY <1>2 DEF BaseInv, MinInv, HasKey
<1>5. MinInv'
  BY <1>1, <1>3, <1>4 DEF BaseInv, MinInv
<1>6. SecondInv'
  BY <1>1 DEF BaseInv, SecondInv
<1> QED BY <1>5, <1>6

RestInv == MinInv /\ SecondInv /\ ArgInv /\ LineInv /\ NextInv

LEMMA InsertRest ==
  ASSUME BaseInv, UpInv, NEW k \in Keys, NEW v \in Vals, Insert(k, v)
  PROVE  RestInv'
<1>1. /\ UNCHANGED <<nvm, dur, index, cur>> /\ pc = "idle" /\ pc' = "insert"
      /\ op'.call = "insert" /\ op'.k = k /\ op'.v = v /\ op'.old = 0
  BY DEF Insert, NoOp
<1>2. VIndex' = VIndex /\ VKeys' = VKeys
  BY <1>1, SameIndex
<1>3. op.call = "none"
  BY <1>1, UpFactsHold DEF UpFacts, NoOp
<1>4. MinInv' /\ SecondInv'
  BY <1>1, SlotRest
<1>5. k \notin VKeys
  <2>1. SUFFICES ASSUME k \in VKeys PROVE FALSE
    OBVIOUS
  <2>2. k # 0 /\ VGets
    BY KeysNat, VGetsHold DEF BaseInv
  <2>3. HasKey(nvm[VIndex[k]], k)
    BY <2>1, <2>2 DEF BaseInv, MinInv
  <2>4. Found(k)
    BY <2>1, <2>2, <2>3 DEF VGets, HasKey
  <2> QED BY <2>4 DEF Insert
<1>6. ArgInv'
  BY <1>1, <1>2, <1>5 DEF ArgInv
<1>7. StrictInv
  BY <1>1, <1>3, LinesAreStrict DEF BaseInv
<1>8. LineInv'
  BY <1>1, <1>2, <1>7, StrictIsLeft DEF StrictInv, LineInv
<1>9. NextInv'
  BY <1>1 DEF BaseInv, NextInv
<1> QED BY <1>4, <1>6, <1>8, <1>9 DEF RestInv

LEMMA UpdateRest ==
  ASSUME BaseInv, UpInv, NEW k \in Keys, NEW v \in Vals, Update(k, v)
  PROVE  RestInv'
<1> DEFINE a == Route(k)
           i == FirstSlot(nvm[a], k)
           e == [nvm[a] EXCEPT !.val[i] = v]
<1>1. /\ UNCHANGED <<index, cur>> /\ pc = "idle" /\ pc' = "flush" /\ Found(k)
      /\ nvm' = [nvm EXCEPT ![a] = e]
      /\ dur' = [dur EXCEPT ![a] = Wrote(dur[a], {} \union {e})]
      /\ op'.call = "update" /\ op'.k = k /\ op'.v = v /\ op'.old = Get(k) /\ op'.ent = a /\ op'.i = i
  BY DEF Update, Write, NoOp
<1>2. VIndex' = VIndex /\ VKeys' = VKeys
  BY <1>1, SameIndex
<1>3. op.call = "none"
  BY <1>1, UpFactsHold DEF UpFacts, NoOp
<1>4. PICK p \in VKeys : VIndex[p] = a
  BY KeysNat, VOwnerExists DEF BaseInv
<1>5. a \in Addr /\ nvm[a] \in Block /\ nvm[a].next \in Addr \union {Null}
  BY <1>4, VEntry DEF BaseInv
<1>6. i \in Slots /\ nvm[a].key[i] = k /\ Get(k) = nvm[a].val[i]
  BY <1>1, <1>5, FirstSlotIs DEF Found, Get
<1>7. /\ e.next = nvm[a].next /\ e.min = nvm[a].min /\ e.key = nvm[a].key
      /\ \A j \in Slots : e.val[j] = IF j = i THEN v ELSE nvm[a].val[j]
  BY <1>5, <1>6 DEF Block
<1> HIDE DEF a, i, e
<1>8. /\ nvm'[a] = e /\ \A c \in Addr : c # a => nvm'[c] = nvm[c] /\ dur'[c] = dur[c]
      /\ dur'[a] = Wrote(dur[a], {e})
  <2>1. nvm \in [Addr -> Block] /\ dur \in [Addr -> [Lines -> SUBSET Block]] /\ {} \union {e} = {e}
    BY DEF BaseInv, TypeOK
  <2> QED BY <1>1, <1>5, <2>1
<1>9. MinInv' /\ SecondInv'
  BY <1>1, <1>7, <1>8, SlotRest
<1>10. ArgInv'
  BY <1>1, <1>2, <1>4, <1>6, <1>7, <1>8 DEF ArgInv
<1>11. StrictInv
  BY <1>1, <1>3, LinesAreStrict DEF BaseInv
<1>12. Left(op', dur'[a], nvm'[a])
  <2> SUFFICES ASSUME NEW l \in Lines, NEW x \in dur'[a][l] PROVE LineLeft(op', x, e, l)
    BY <1>8 DEF Left
  <2>1. CASE x \in dur[a][l]
    <3>1. StrictLine(x, nvm[a], l)
      BY <2>1, <1>4, <1>11 DEF StrictInv, Strict
    <3> QED BY <3>1, <1>1, <1>6, <1>7 DEF StrictLine, LineLeft, PairLeft
  <2>2. CASE x = OnLine(e, l)
    <3>1. StrictLine(x, e, l)
      BY <2>2, OnLineStrict
    <3> QED BY <3>1 DEF StrictLine, LineLeft, PairLeft
  <2> QED BY <1>8, <2>1, <2>2 DEF Wrote
<1>13. LineInv'
  <2> SUFFICES ASSUME NEW m \in VKeys PROVE Left(op', dur'[VIndex[m]], nvm'[VIndex[m]])
    BY <1>2 DEF LineInv
  <2>1. VIndex[m] \in Addr /\ Strict(dur[VIndex[m]], nvm[VIndex[m]])
    BY <1>11, VEntry DEF BaseInv, StrictInv
  <2> QED BY <1>8, <1>12, <2>1, StrictIsLeft
<1>14. NextInv'
  <2>1. \A c \in Addr : NextOk(dur[c])
    BY DEF BaseInv, NextInv
  <2>2. NextOk(Wrote(dur[a], {e}))
    BY <1>5, <1>7, <2>1, NextOkWrote
  <2> QED BY <1>8, <2>1, <2>2 DEF NextInv
<1> QED BY <1>9, <1>10, <1>13, <1>14 DEF RestInv

LEMMA MaybePutRest ==
  ASSUME BaseInv, UpInv, MaybePut
  PROVE  RestInv'
<1> DEFINE a == Route(op.k)
           i == FirstSlot(nvm[a], 0)
           e1 == [nvm[a] EXCEPT !.val[i] = op.v]
           e2 == [e1 EXCEPT !.key[i] = op.k]
<1>1. /\ UNCHANGED <<index, cur>> /\ pc = "insert" /\ pc' = "flush" /\ ~Full(nvm[a])
      /\ nvm' = [nvm EXCEPT ![a] = e2]
      /\ dur' = [dur EXCEPT ![a] = Wrote(dur[a], {e1} \union {e2})]
      /\ op' = [op EXCEPT !.ent = a, !.i = i]
  BY DEF MaybePut, Write
<1>2. VIndex' = VIndex /\ VKeys' = VKeys
  BY <1>1, SameIndex
<1>3. op.call = "insert" /\ op.old = 0 /\ op.k \in Keys /\ op.k # 0 /\ ~Found(op.k)
  BY <1>1, UpFactsHold, KeysNat DEF UpFacts
<1>3a. op'.call = op.call /\ op'.k = op.k /\ op'.v = op.v /\ op'.old = op.old /\ op'.ent = a /\ op'.i = i
  BY <1>1 DEF BaseInv, TypeOK, OpType
<1>4. PICK p \in VKeys : VIndex[p] = a
  BY <1>3, KeysNat, VOwnerExists DEF BaseInv
<1>5. a \in Addr /\ nvm[a] \in Block /\ nvm[a].next \in Addr \union {Null}
  BY <1>4, VEntry DEF BaseInv
<1>6. i \in Slots /\ nvm[a].key[i] = 0
  BY <1>1, <1>5, FirstSlotIs DEF Full
<1>6a. \A j \in Slots : nvm[a].key[j] # op.k
  BY <1>3 DEF Found, HasKey
<1>7. /\ e1.next = nvm[a].next /\ e1.min = nvm[a].min /\ e1.key = nvm[a].key
      /\ e2.next = nvm[a].next /\ e2.min = nvm[a].min
      /\ \A j \in Slots : e1.val[j] = IF j = i THEN op.v ELSE nvm[a].val[j]
      /\ \A j \in Slots : e2.val[j] = IF j = i THEN op.v ELSE nvm[a].val[j]
      /\ \A j \in Slots : e2.key[j] = IF j = i THEN op.k ELSE nvm[a].key[j]
  BY <1>5, <1>6 DEF Block
<1> HIDE DEF a, i, e1, e2
<1>8. /\ nvm'[a] = e2 /\ \A c \in Addr : c # a => nvm'[c] = nvm[c] /\ dur'[c] = dur[c]
      /\ dur'[a] = Wrote(dur[a], {e1, e2})
  <2>1. nvm \in [Addr -> Block] /\ dur \in [Addr -> [Lines -> SUBSET Block]] /\ {e1} \union {e2} = {e1, e2}
    BY DEF BaseInv, TypeOK
  <2> QED BY <1>1, <1>5, <2>1
<1>9. MinInv' /\ SecondInv'
  <2>1. \A c \in Addr : nvm'[c].min = nvm[c].min
    BY <1>7, <1>8
  <2>2. \A c \in Addr : \A j \in Slots : nvm[c].key[j] # 0 => nvm'[c].key[j] = nvm[c].key[j]
    BY <1>6, <1>7, <1>8
  <2> QED BY <1>1, <2>1, <2>2, SlotRest
<1>10. ArgInv'
  <2>1. op.v \in Vals /\ op.k \notin VKeys
    BY <1>3 DEF BaseInv, ArgInv
  <2>2. nvm'[op'.ent].key[op'.i] = op'.k /\ VIndex'[p] = op'.ent /\ p \in VKeys'
    BY <1>2, <1>3a, <1>4, <1>6, <1>7, <1>8
  <2> QED BY <1>1, <1>2, <1>3, <1>3a, <2>1, <2>2 DEF ArgInv
<1>11. \A m \in VKeys : Left(op, dur[VIndex[m]], nvm[VIndex[m]])
  BY <1>1 DEF BaseInv, LineInv
<1>12. Left(op', dur'[a], nvm'[a])
  <2> SUFFICES ASSUME NEW l \in Lines, NEW x \in dur'[a][l] PROVE LineLeft(op', x, e2, l)
    BY <1>8 DEF Left
  <2>0. ASSUME NEW g, StrictLine(x, g, l), g.next = e2.next, g.min = e2.min, g.key = nvm[a].key,
               \A j \in Slots : j # i => g.val[j] = e2.val[j]
        PROVE  LineLeft(op', x, e2, l)
    BY <2>0, <1>3, <1>3a, <1>6, <1>7 DEF StrictLine, LineLeft, PairLeft
  <2>1. CASE x \in dur[a][l]
    <3>1. Strict(dur[a], nvm[a])
      BY <1>4, <1>6a, <1>11, LeftIsStrict
    <3>2. StrictLine(x, nvm[a], l)
      BY <2>1, <3>1 DEF Strict
    <3> QED BY <2>0, <3>2, <1>7
  <2>2. CASE x = OnLine(e1, l)
    <3>1. StrictLine(x, e1, l)
      BY <2>2, OnLineStrict
    <3> QED BY <2>0, <3>1, <1>7
  <2>3. CASE x = OnLine(e2, l)
    <3>1. StrictLine(x, e2, l)
      BY <2>3, OnLineStrict
    <3> QED BY <3>1 DEF StrictLine, LineLeft, PairLeft
  <2> QED BY <1>8, <2>1, <2>2, <2>3 DEF Wrote
<1>13. LineInv'
  <2> SUFFICES ASSUME NEW m \in VKeys PROVE Left(op', dur'[VIndex[m]], nvm'[VIndex[m]])
    BY <1>2 DEF LineInv
  <2>1. VIndex[m] \in Addr /\ Left(op', dur[VIndex[m]], nvm[VIndex[m]])
    BY <1>3a, <1>11, VEntry, LeftCall DEF BaseInv
  <2> QED BY <1>8, <1>12, <2>1
<1>14. NextInv'
  <2>1. \A c \in Addr : NextOk(dur[c])
    BY DEF BaseInv, NextInv
  <2>2. NextOk(Wrote(dur[a], {e1, e2}))
    BY <1>5, <1>7, <2>1, NextOkWrote
  <2> QED BY <1>8, <2>1, <2>2 DEF NextInv
<1> QED BY <1>9, <1>10, <1>13, <1>14 DEF RestInv

LEMMA FlushSlotRest ==
  ASSUME BaseInv, UpInv, FlushSlot
  PROVE  RestInv'
<1> DEFINE a == op.ent
           i == op.i
<1>1. /\ UNCHANGED <<nvm, index, cur>> /\ pc = "flush" /\ pc' = "idle"
      /\ dur' = [dur EXCEPT ![a] = FlushWord(dur[a], nvm[a], KeyWord(i))]
      /\ op' = NoOp /\ op'.call = "none"
  BY DEF FlushSlot, NoOp
<1>2. VIndex' = VIndex /\ VKeys' = VKeys
  BY <1>1, SameIndex
<1>3. op.k \in Keys /\ op.k \in Nat /\ op.k # 0 /\ a \in Addr /\ i \in Slots
  BY <1>1, UpFactsHold, KeysNat DEF UpFacts
<1>4. PICK p \in VKeys : VIndex[p] = a /\ nvm[a].key[i] = op.k
  BY <1>1 DEF BaseInv, ArgInv
<1>5. nvm[a].next \in Addr \union {Null} /\ dur \in [Addr -> [Lines -> SUBSET Block]]
  BY <1>3 DEF BaseInv, TypeOK
<1> HIDE DEF a, i
<1>6. /\ \A c \in Addr : c # a => dur'[c] = dur[c]
      /\ dur'[a] = FlushWord(dur[a], nvm[a], KeyWord(i))
  BY <1>1, <1>3, <1>5
<1>7. MinInv' /\ SecondInv'
  BY <1>1, SlotRest
<1>8. ArgInv'
  BY <1>1 DEF ArgInv
<1>9. VOwns(p, op.k) /\ \A j \in Slots : nvm[a].key[j] = op.k => j = i
  BY <1>3, <1>4 DEF BaseInv, ListInv
<1>10. ASSUME NEW m \in VKeys PROVE Left(op', dur'[VIndex[m]], nvm'[VIndex[m]])
  <2>1. VIndex[m] \in Addr /\ Left(op, dur[VIndex[m]], nvm[VIndex[m]])
    BY <1>1, VEntry DEF BaseInv, LineInv
  <2>2. CASE m = p
    <3>1. Strict(dur'[a], nvm[a])
      BY <1>3, <1>4, <1>5, <1>6, <1>9, <2>1, <2>2, FlushStrict
    <3> QED BY <1>1, <1>4, <2>2, <3>1, StrictIsLeft
  <2>3. CASE m # p
    <3>1. VIndex[m] # a
      BY <1>4, <2>3 DEF BaseInv, ListInv
    <3>2. ASSUME NEW j \in Slots, nvm[VIndex[m]].key[j] = op.k PROVE FALSE
      <4>1. VOwns(m, op.k)
        BY <1>3, <3>2 DEF BaseInv, ListInv
      <4> QED BY <4>1, <1>3, <1>9, <2>3, VOwnerUnique DEF BaseInv
    <3>3. Strict(dur[VIndex[m]], nvm[VIndex[m]])
      BY <2>1, <3>2, LeftIsStrict
    <3> QED BY <1>1, <1>6, <2>1, <3>1, <3>3, StrictIsLeft
  <2> QED BY <2>2, <2>3
<1>11. LineInv'
  BY <1>2, <1>10 DEF LineInv
<1>12. NextInv'
  <2>1. \A c \in Addr : NextOk(dur[c])
    BY DEF BaseInv, NextInv
  <2>2. NextOk(FlushWord(dur[a], nvm[a], KeyWord(i)))
    BY <1>3, <1>5, <2>1, NextOkFlush
  <2> QED BY <1>6, <2>1, <2>2 DEF NextInv
<1> QED BY <1>7, <1>8, <1>11, <1>12 DEF RestInv

-----------------------------------------------------------------------------
(* The steps of a split: there is none once the head has moved. *)

LEMMA SplitState ==
  ASSUME BaseInv, UpInv, SplitStep
  PROVE  /\ ~Moved /\ KvInv /\ LinkInv /\ VIndex = index /\ VKeys = IndexKeys
         /\ op.call = "insert" /\ op.old = 0 /\ op.k \in Keys /\ op.k \in Nat /\ op.k # 0
         /\ \A m \in VKeys : VIndex[m] \in Addr /\ m \in Nat
         /\ EntryHead \in Addr /\ 0 \in VKeys /\ VIndex[0] = EntryHead
<1>1. pc = "insert" \/ pc \in SplitPcs
  BY DEF SplitStep, SplitBegin, SplitFlag, SplitNew, SplitEntry, SplitPcs
<1>2. ~Moved
  <2>1. pc = "insert" => Full(nvm[Route(op.k)])
    BY DEF SplitStep, SplitBegin, SplitFlag, SplitNew, SplitEntry
  <2> QED BY <1>1, <2>1 DEF BaseInv, MovedInv
<1>3. VIndex = index /\ VKeys \in SUBSET Nat /\ 0 \in VKeys /\ VIndex[0] = EntryHead
  BY <1>2, VIndexIs DEF BaseInv
<1>4. op.call = "insert" /\ op.old = 0 /\ op.k \in Keys
  BY <1>1, UpFactsHold DEF UpFacts, SplitPcs
<1>5. VKeys = IndexKeys
  BY <1>3 DEF VKeys, IndexKeys
<1>6. \A m \in VKeys : VIndex[m] \in Addr /\ m \in Nat
  BY <1>3, VEntry DEF BaseInv
<1> QED BY <1>2, <1>3, <1>4, <1>5, <1>6, KeysNat DEF UpInv

LEMMA SplitBeginRest ==
  ASSUME BaseInv, UpInv, SplitBegin
  PROVE  RestInv'
<1> DEFINE a == Route(op.k)
           b == cur + 1
<1>1. /\ KvInv /\ VIndex = index /\ VKeys = IndexKeys
      /\ op.call = "insert" /\ op.k \in Keys
      /\ \A m \in VKeys : VIndex[m] \in Addr
      /\ EntryHead \in Addr /\ 0 \in VKeys /\ VIndex[0] = EntryHead
  BY SplitState DEF SplitStep
<1>2. TypeOK /\ OpInv /\ IndexInv
  BY <1>1 DEF KvInv, IndInv
<1>3. /\ op' = [op EXCEPT !.ent = a, !.new = b, !.tmp = op'.tmp]
      /\ a \in Addr /\ b \in Addr /\ a <= cur /\ cur' = b
      /\ \A c \in Addr : c \notin {a, b} => nvm'[c] = nvm[c] /\ dur'[c] = dur[c]
      /\ nvm'[a] = [nvm[a] EXCEPT !.flag = 1]
      /\ dur'[a] = Wrote(dur[a], {nvm'[a]})
      /\ nvm'[b].min = op'.tmp[Half][1]
  BY <1>2, SplitBeginIs
<1>4. PICK vs : dur'[b] = Wrote(dur[b], vs) /\ \A v \in vs : v.next \in Addr \union {Null}
  BY <1>2, SplitBeginIs
<1>5. UNCHANGED index /\ pc = "insert" /\ pc' = "split_flag"
  BY DEF SplitBegin
<1>6. VIndex' = VIndex /\ VKeys' = VKeys
  BY <1>5, SameIndex
<1>7. op'.call = "insert" /\ op'.k = op.k /\ op'.v = op.v /\ op'.old = op.old /\ op'.new = b
  BY <1>1, <1>3 DEF BaseInv, TypeOK, OpType
<1>8. \A m \in VKeys : VIndex[m] # b
  BY <1>1, <1>2 DEF IndexInv, TypeOK, Addr
<1> HIDE DEF a, b
<1>9. SamePairs(nvm[a], nvm'[a])
  BY <1>2, <1>3 DEF TypeOK, Block, SamePairs
<1>10. \A m \in VKeys : SamePairs(nvm[VIndex[m]], nvm'[VIndex[m]])
  BY <1>1, <1>3, <1>8, <1>9 DEF SamePairs
<1>11. MinInv'
  <2>1. \A m \in VKeys : m # 0 => nvm'[VIndex[m]].min = m /\ HasKey(nvm'[VIndex[m]], m)
    BY <1>10 DEF BaseInv, MinInv, SamePairs, HasKey
  <2>2. nvm'[EntryHead].min = nvm[EntryHead].min
    BY <1>1, <1>10 DEF SamePairs
  <2> QED BY <1>6, <2>1, <2>2 DEF BaseInv, MinInv
<1>12. SecondInv'
  BY <1>3, <1>5, <1>6 DEF BaseInv, SecondInv, b
<1>13. ArgInv'
  BY <1>1, <1>3, <1>5, <1>6, <1>7 DEF BaseInv, ArgInv
<1>14. ASSUME NEW m \in VKeys PROVE Left(op', dur'[VIndex[m]], nvm'[VIndex[m]])
  <2>1. Left(op, dur[VIndex[m]], nvm[VIndex[m]])
    BY <1>5 DEF BaseInv, LineInv
  <2>2. CASE VIndex[m] = a
    <3>1. Left(op, dur[a], nvm'[a])
      BY <1>9, <2>1, <2>2, LeftSame
    <3>2. Left(op, Wrote(dur[a], {nvm'[a]}), nvm'[a])
      BY <3>1, LeftWrote DEF SamePairs
    <3> QED BY <1>1, <1>3, <1>7, <2>2, <3>2, LeftCall
  <2>3. CASE VIndex[m] # a
    BY <1>1, <1>3, <1>7, <1>8, <2>1, <2>3, LeftCall
  <2> QED BY <2>2, <2>3
<1>15. LineInv'
  BY <1>6, <1>14 DEF LineInv
<1>16. NextInv'
  <2>1. \A c \in Addr : NextOk(dur[c])
    BY DEF BaseInv, NextInv
  <2>2. nvm'[a].next \in Addr \union {Null}
    BY <1>2, <1>3, <1>9 DEF TypeOK, SamePairs
  <2>3. NextOk(dur'[a])
    <3>1. \A v \in {nvm'[a]} : v.next \in Addr \union {Null}
      BY <2>2
    <3>2. NextOk(Wrote(dur[a], {nvm'[a]}))
      BY <1>3, <2>1, <3>1, NextOkWrote
    <3> QED BY <1>3, <3>2
  <2>4. NextOk(dur'[b])
    BY <1>3, <1>4, <2>1, NextOkWrote
  <2> QED BY <1>3, <2>1, <2>3, <2>4 DEF NextInv
<1> QED BY <1>11, <1>12, <1>13, <1>15, <1>16 DEF RestInv

LEMMA SplitFlagRest ==
  ASSUME BaseInv, UpInv, SplitFlag
  PROVE  RestInv'
<1> DEFINE a == op.ent
           b == op.new
           e == [nvm[b] EXCEPT !.next = nvm[a].next]
<1>1. /\ KvInv /\ VIndex = index /\ VKeys = IndexKeys
      /\ op.call = "insert" /\ op.k \in Keys
      /\ \A m \in VKeys : VIndex[m] \in Addr
      /\ EntryHead \in Addr /\ 0 \in VKeys /\ VIndex[0] = EntryHead
  BY SplitState DEF SplitStep
<1>2. TypeOK /\ OpInv /\ IndexInv
  BY <1>1 DEF KvInv, IndInv
<1>3. /\ UNCHANGED <<index, cur, op>> /\ pc = "split_flag" /\ pc' = "split_new"
      /\ nvm' = [nvm EXCEPT ![b] = e]
      /\ dur' = [dur EXCEPT ![a] = FlushWord(@, nvm[a], 2), ![b] = Wrote(@, {e})]
  BY DEF SplitFlag
<1>4. a \in Addr /\ b \in Addr /\ a # b /\ b = cur
  BY <1>2, <1>3 DEF OpInv, SplitPcs, TypeOK, Addr
<1>5. VIndex' = VIndex /\ VKeys' = VKeys
  BY <1>3, SameIndex
<1>6. nvm[b] \in Block /\ nvm[a].next \in Addr \union {Null} /\ nvm[a].next \in Nat
  BY <1>2, <1>4 DEF TypeOK, Block
<1>7. e.min = nvm[b].min /\ e.next = nvm[a].next
  BY <1>6 DEF Block
<1>8. \A m \in VKeys : VIndex[m] # b
  BY <1>1, <1>2, <1>3, <1>4 DEF IndexInv, TypeOK, Addr
<1> HIDE DEF a, b, e
<1>9. /\ \A c \in Addr : c # b => nvm'[c] = nvm[c]
      /\ nvm'[b] = e
      /\ \A c \in Addr : c \notin {a, b} => dur'[c] = dur[c]
      /\ dur'[a] = FlushWord(dur[a], nvm[a], 2)
      /\ dur'[b] = Wrote(dur[b], {e})
  <2>1. nvm \in [Addr -> Block] /\ dur \in [Addr -> [Lines -> SUBSET Block]]
    BY <1>2 DEF TypeOK
  <2> QED BY <1>3, <1>4, <2>1
<1>10. \A m \in VKeys : nvm'[VIndex[m]] = nvm[VIndex[m]]
  BY <1>1, <1>8, <1>9
<1>11. MinInv'
  <2>1. nvm'[EntryHead] = nvm[EntryHead]
    BY <1>1, <1>10
  <2> QED BY <1>5, <1>10, <2>1 DEF BaseInv, MinInv
<1>12. SecondInv'
  BY <1>3, <1>5 DEF BaseInv, SecondInv
<1>13. ArgInv'
  <2>1. nvm'[op.new].min = nvm[op.new].min
    BY <1>7, <1>9 DEF b
  <2> QED BY <1>3, <1>5, <2>1 DEF BaseInv, ArgInv
<1>14. ASSUME NEW m \in VKeys PROVE Left(op', dur'[VIndex[m]], nvm'[VIndex[m]])
  <2>1. Left(op, dur[VIndex[m]], nvm[VIndex[m]])
    BY <1>3 DEF BaseInv, LineInv
  <2>2. CASE VIndex[m] = a
    <3>1. Left(op, FlushWord(dur[a], nvm[a], 2), nvm[a])
      BY <1>2, <1>4, <2>1, <2>2, LeftFlush DEF TypeOK
    <3> QED BY <1>3, <1>9, <1>10, <2>2, <3>1
  <2>3. CASE VIndex[m] # a
    BY <1>1, <1>3, <1>8, <1>9, <1>10, <2>1, <2>3
  <2> QED BY <2>2, <2>3
<1>15. LineInv'
  BY <1>5, <1>14 DEF LineInv
<1>16. NextInv'
  <2>1. \A c \in Addr : NextOk(dur[c])
    BY DEF BaseInv, NextInv
  <2>2. NextOk(FlushWord(dur[a], nvm[a], 2))
    BY <1>2, <1>4, <1>6, <2>1, NextOkFlush DEF TypeOK
  <2>3. NextOk(Wrote(dur[b], {e}))
    BY <1>4, <1>6, <1>7, <2>1, NextOkWrote
  <2> QED BY <1>9, <2>1, <2>2, <2>3 DEF NextInv
<1> QED BY <1>11, <1>12, <1>13, <1>15, <1>16 DEF RestInv

LEMMA SplitEntryRest ==
  ASSUME BaseInv, UpInv, SplitEntry
  PROVE  RestInv'
<1> DEFINE a == op.ent
<1>1. /\ KvInv /\ VIndex = index /\ VKeys = IndexKeys
      /\ op.call = "insert" /\ op.old = 0 /\ op.k \in Keys
      /\ \A m \in VKeys : VIndex[m] \in Addr
  BY SplitState DEF SplitStep
<1>2. TypeOK /\ OpInv /\ IndexInv
  BY <1>1 DEF KvInv, IndInv
<1>3. /\ UNCHANGED <<nvm, index, cur>> /\ pc = "split_entry" /\ pc' = "insert"
      /\ dur' = [dur EXCEPT ![a] = Persist(nvm[a])]
      /\ op'.call = op.call /\ op'.k = op.k /\ op'.v = op.v /\ op'.old = 0
  BY DEF SplitEntry, PersistEntry, NoOp
<1>4. a \in Addr /\ nvm[a].next \in Addr \union {Null}
  BY <1>2, <1>3 DEF OpInv, SplitPcs, TypeOK
<1>5. VIndex' = VIndex /\ VKeys' = VKeys
  BY <1>3, SameIndex
<1>6. dur'[a] = Persist(nvm[a]) /\ \A c \in Addr : c # a => dur'[c] = dur[c]
  BY <1>2, <1>3, <1>4 DEF TypeOK
<1> HIDE DEF a
<1>7. MinInv'
  BY <1>3, <1>5 DEF BaseInv, MinInv
<1>8. SecondInv'
  BY <1>3, <1>5 DEF BaseInv, SecondInv
<1>9. ArgInv'
  BY <1>3, <1>5 DEF BaseInv, ArgInv
<1>10. ASSUME NEW m \in VKeys PROVE Left(op', dur'[VIndex[m]], nvm'[VIndex[m]])
  <2>1. CASE VIndex[m] = a
    BY <1>3, <1>6, <2>1, PersistStrict, StrictIsLeft
  <2>2. CASE VIndex[m] # a
    <3>1. Left(op, dur[VIndex[m]], nvm[VIndex[m]])
      BY <2>2 DEF BaseInv, LineInv, a
    <3> QED BY <1>1, <1>3, <1>6, <2>2, <3>1, LeftCall
  <2> QED BY <2>1, <2>2
<1>11. LineInv'
  BY <1>5, <1>10 DEF LineInv
<1>12. NextInv'
  <2>1. NextOk(Persist(nvm[a]))
    BY <1>4, NextOkPersist
  <2> QED BY <1>6, <2>1 DEF BaseInv, NextInv
<1> QED BY <1>7, <1>8, <1>9, <1>11, <1>12 DEF RestInv

\* The old entry keeps its smallest key, so its min_key stays its index key;
\* the head's min_key becomes one of its keys.
LEMMA SplitNewRest ==
  ASSUME BaseInv, UpInv, SplitNew
  PROVE  RestInv'
<1> DEFINE a == op.ent
           b == op.new
           mm == op.tmp[Half][1]
           t0 == op.tmp[0][1]
<1>1. /\ KvInv /\ VIndex = index /\ VKeys = IndexKeys
      /\ op.call = "insert" /\ op.k \in Keys /\ op.k \in Nat
      /\ \A m \in VKeys : VIndex[m] \in Addr /\ m \in Nat
      /\ EntryHead \in Addr /\ 0 \in VKeys /\ VIndex[0] = EntryHead
  BY SplitState DEF SplitStep
<1>2. TypeOK /\ OpInv /\ IndexInv /\ SplitInv /\ IndInv /\ TmpInv /\ IndexInjective /\ Owned
  BY <1>1 DEF KvInv, IndInv
<1>3. /\ a \in Addr /\ b \in Addr /\ a # b
      /\ \A c \in Addr : c # a => nvm'[c] = nvm[c]
      /\ \A i \in Slots : nvm'[a].key[i] = IF i < Half THEN op.tmp[i][1] ELSE 0
      /\ \A c \in Addr : c \notin {a, b} => dur'[c] = dur[c]
      /\ dur'[b] = Persist(nvm[b])
      /\ nvm'[a].min = t0
  BY <1>2, SplitNewIs
<1>4. PICK vs : dur'[a] = Wrote(dur[a], vs) /\ \A v \in vs : v.next \in Addr \union {Null}
  BY <1>2, SplitNewIs
<1>5. /\ UNCHANGED <<cur, op>> /\ pc = "split_new" /\ pc' = "split_entry"
      /\ index' = [index EXCEPT ![mm] = b]
  BY DEF SplitNew, IndexInsert
<1>6. PICK p : Owns(p, op.k) /\ a = index[p]
  BY <1>1, <1>2, <1>5, OwnerExists DEF SplitInv
<1>7. p \in VKeys /\ \A n \in VKeys : VIndex[n] = a => n = p
  BY <1>1, <1>2, <1>6 DEF Owns, IndexInjective
<1>8. mm \in Keys /\ mm \notin VKeys /\ Owns(p, mm)
  BY <1>1, <1>2, <1>5, <1>6, <1>7, SplitKeyIsNew
<1>9. b = cur /\ b # Null /\ \A n \in VKeys : VIndex[n] # b
  BY <1>1, <1>2, <1>3, <1>5 DEF IndexInv, OpInv, SplitPcs, Addr, TypeOK, Null
<1>10. Half \in Slots /\ 0 \in Slots /\ 0 < Half
  BY HalfFacts, KAssumption DEF Slots
<1>11. /\ \A i \in Slots : nvm[a].key[i] \notin {0, op.k}
       /\ \A i \in Slots : \E j \in Slots : op.tmp[i][1] = nvm[a].key[j]
       /\ \A i, j \in Slots : i < j => op.tmp[i][1] < op.tmp[j][1]
       /\ nvm[b].key[0] = mm
  <2>1. 0 < K - Half /\ 0 + Half = Half
    BY HalfFacts, KAssumption
  <2> QED BY <1>2, <1>5, <1>10, <2>1 DEF SplitInv
<1>12. \A j \in Slots : \E i \in Slots : op.tmp[i][1] = nvm[a].key[j]
  BY <1>2, <1>5 DEF TmpInv
<1>13. mm # op.k /\ mm \in Nat /\ mm # 0 /\ t0 < mm
  BY <1>8, <1>10, <1>11, KeysNat
<1>14. t0 \in Keys /\ t0 \in Nat /\ t0 # 0 /\ Owns(p, t0)
  <2>1. PICK j \in Slots : t0 = nvm[a].key[j]
    BY <1>10, <1>11
  <2>2. nvm[a].key[j] # 0 /\ nvm[a].key[j] = nvm[index[p]].key[j] /\ p \in IndexKeys
    BY <1>1, <1>6, <1>7, <1>11
  <2>3. nvm[a].key[j] \in Keys /\ Owns(p, nvm[a].key[j])
    BY <1>2, <2>2 DEF Owned
  <2> QED BY <2>1, <2>3, KeysNat
<1> HIDE DEF a, b, mm, t0
<1>15. index \in [Keys \union {0} -> Addr \union {Null}] /\ index[0] = EntryHead /\ mm # 0
  BY <1>1, <1>2, <1>13 DEF TypeOK
<1>16. VIndex' = index'
  BY <1>5, <1>15 DEF VIndex
<1>17. /\ VKeys' = VKeys \union {mm} /\ VIndex'[mm] = b
       /\ \A n \in VKeys : VIndex'[n] = VIndex[n]
  BY <1>1, <1>5, <1>8, <1>9, <1>15, <1>16 DEF VKeys
<1>18. nvm[b].min = mm
  BY <1>5 DEF BaseInv, ArgInv, b, mm
<1>19. p # 0 => t0 = p
  <2>1. SUFFICES ASSUME p # 0 PROVE t0 = p
    OBVIOUS
  <2>2. HasKey(nvm[a], p)
    BY <1>1, <1>6, <1>7, <2>1 DEF BaseInv, MinInv
  <2>3. PICK i \in Slots : op.tmp[i][1] = p
    BY <1>12, <2>2 DEF HasKey
  <2>4. i = 0 \/ 0 < i
    BY KAssumption DEF Slots
  <2>5. t0 = p \/ t0 < p
    BY <1>10, <1>11, <2>3, <2>4 DEF t0
  <2>6. p <= t0 /\ p \in Nat
    BY <1>1, <1>7, <1>14 DEF Owns
  <2> QED BY <1>14, <2>5, <2>6
<1>20. ASSUME NEW m \in VKeys', m # 0
       PROVE  nvm'[VIndex'[m]].min = m /\ HasKey(nvm'[VIndex'[m]], m)
  <2>1. CASE m = mm
    BY <1>3, <1>10, <1>11, <1>17, <1>18, <2>1 DEF HasKey
  <2>2. CASE m # mm /\ m = p
    <3>1. nvm'[a].min = m /\ nvm'[a].key[0] = m
      BY <1>3, <1>10, <1>19, <1>20, <2>2 DEF t0
    <3> QED BY <1>1, <1>6, <1>7, <1>10, <1>17, <2>2, <3>1 DEF HasKey
  <2>3. CASE m # mm /\ m # p
    <3>1. m \in VKeys /\ VIndex[m] # a /\ VIndex[m] \in Addr
      BY <1>1, <1>7, <1>17, <2>3
    <3> QED BY <1>3, <1>17, <1>20, <3>1 DEF BaseInv, MinInv
  <2> QED BY <2>1, <2>2, <2>3
<1>21. /\ nvm'[EntryHead].min \in Keys /\ nvm'[EntryHead].min # 0
       /\ \A m \in VKeys' : m # 0 => nvm'[EntryHead].min < m
  <2>1. CASE p = 0
    <3>1. a = EntryHead
      BY <1>1, <1>6, <2>1
    <3>2. ASSUME NEW m \in VKeys, m # 0 PROVE t0 < m
      <4>1. m \in Nat /\ (m <= t0 => m <= 0)
        BY <1>1, <1>14, <2>1, <3>2 DEF Owns
      <4> QED BY <1>14, <3>2, <4>1
    <3> QED BY <1>3, <1>13, <1>14, <1>17, <3>1, <3>2
  <2>2. CASE p # 0
    <3>1. a # EntryHead /\ nvm'[EntryHead] = nvm[EntryHead]
      BY <1>1, <1>3, <1>6, <1>7, <2>2
    <3>2. VKeys # {0}
      BY <1>7, <2>2
    <3>3. /\ nvm[EntryHead].min \in Keys /\ nvm[EntryHead].min # 0 /\ nvm[EntryHead].min \in Nat
          /\ \A m \in VKeys : m # 0 => nvm[EntryHead].min < m
      BY <3>2, KeysNat DEF BaseInv, MinInv
    <3>4. nvm[EntryHead].min < mm
      <4>1. p <= mm /\ p \in Nat /\ nvm[EntryHead].min < p
        BY <1>1, <1>7, <1>8, <2>2, <3>3 DEF Owns
      <4> QED BY <1>13, <3>3, <4>1
    <3> QED BY <1>17, <3>1, <3>3, <3>4
  <2> QED BY <2>1, <2>2
<1>22. MinInv'
  <2>1. VKeys' # {0}
    BY <1>13, <1>17
  <2> QED BY <1>20, <1>21, <2>1 DEF MinInv
<1>23. SecondInv'
  <2>1. VKeys' # {0} /\ mm \in VKeys' /\ VIndex'[mm] = b
    BY <1>13, <1>17
  <2>2. CASE VKeys = {0}
    <3>1. cur = 2
      BY <1>5, <2>2 DEF BaseInv, SecondInv
    <3> QED BY <1>9, <2>1, <3>1 DEF SecondInv
  <2>3. CASE VKeys # {0}
    BY <1>17, <2>1, <2>3 DEF BaseInv, SecondInv
  <2> QED BY <2>2, <2>3
<1>24. ArgInv'
  <2>1. op.k \notin VKeys' /\ op.old = 0 /\ op.v \in Vals
    BY <1>1, <1>13, <1>17 DEF BaseInv, ArgInv
  <2> QED BY <1>1, <1>5, <2>1 DEF ArgInv
<1>25. LineInv'
  <2> SUFFICES ASSUME NEW m \in VKeys', VIndex'[m] # a
               PROVE  Left(op', dur'[VIndex'[m]], nvm'[VIndex'[m]])
    BY <1>5 DEF LineInv, a
  <2>1. CASE m = mm
    <3>1. nvm'[b] = nvm[b]
      BY <1>3
    <3> QED BY <1>3, <1>17, <2>1, <3>1, PersistStrict, StrictIsLeft
  <2>2. CASE m # mm
    <3>1. m \in VKeys /\ VIndex'[m] = VIndex[m] /\ VIndex[m] \in Addr /\ VIndex[m] \notin {a, b}
      BY <1>1, <1>9, <1>17, <2>2
    <3>2. Left(op, dur[VIndex[m]], nvm[VIndex[m]])
      BY <1>5, <3>1 DEF BaseInv, LineInv
    <3> QED BY <1>3, <1>5, <3>1, <3>2
  <2> QED BY <2>1, <2>2
<1>26. NextInv'
  <2>1. \A c \in Addr : NextOk(dur[c])
    BY DEF BaseInv, NextInv
  <2>2. NextOk(dur'[a])
    BY <1>3, <1>4, <2>1, NextOkWrote
  <2>3. NextOk(dur'[b])
    BY <1>2, <1>3, NextOkPersist DEF TypeOK
  <2> QED BY <1>3, <2>1, <2>2, <2>3 DEF NextInv
<1> QED BY <1>22, <1>23, <1>24, <1>25, <1>26 DEF RestInv

\* Every step of a running program preserves the invariant.
LEMMA NextCrash ==
  ASSUME CrashSafe, CrashInv, pc # "off", [Next]_vars
  PROVE  CrashInv'
<1>1. BaseInv /\ UpInv /\ img = [a \in {} |-> EmptyBlock]
  BY DEF CrashInv
<1>2. TypeOK' /\ UpInv' /\ ListInv' /\ MovedInv'
  BY <1>1, RunStep
<1>3. RestInv'
  <2>1. CASE UNCHANGED vars
    <3>1. UNCHANGED <<nvm, dur, index, first, cur, pc, op, img, crashes>>
      BY <2>1 DEF vars
    <3>2. VIndex' = VIndex /\ VKeys' = VKeys
      BY <3>1, SameIndex
    <3>3. MinInv' /\ SecondInv' /\ ArgInv' /\ LineInv' /\ NextInv'
      BY <1>1, <3>1, <3>2 DEF BaseInv, MinInv, SecondInv, ArgInv, LineInv, NextInv
    <3> QED BY <3>3 DEF RestInv
  <2>2. CASE Client
    <3>1. \A k \in Keys : ~Remove(k)
      BY DEF CrashSafe, Remove
    <3> QED BY <1>1, <2>2, <3>1, InsertRest, UpdateRest DEF Client
  <2>3. CASE Step
    BY <1>1, <2>3, MaybePutRest, FlushSlotRest, SplitBeginRest, SplitFlagRest, SplitNewRest, SplitEntryRest
       DEF Step, SplitStep
  <2> QED BY <2>1, <2>2, <2>3 DEF Next
<1>4. UNCHANGED img /\ pc' # "off" /\ pc' # "undefined"
  <2>1. UNCHANGED img
    BY DEF Next, Client, Step, SplitStep, Insert, Update, Remove, MaybePut, SplitBegin, SplitFlag, SplitNew,
           SplitEntry, FlushSlot, vars
  <2>2. pc' # "off" /\ pc' # "undefined"
    BY DEF Next, Client, Step, SplitStep, Insert, Update, Remove, MaybePut, SplitBegin, SplitFlag, SplitNew,
           SplitEntry, FlushSlot, vars, CrashInv
  <2> QED BY <2>1, <2>2
<1> QED BY <1>1, <1>2, <1>3, <1>4 DEF CrashInv, BaseInv, RestInv

-----------------------------------------------------------------------------
(* The start, a power failure, and what it leaves. *)

LEMMA InitCrash == Init => CrashInv
<1> SUFFICES ASSUME Init PROVE CrashInv
  OBVIOUS
<1>1. KvInv /\ LinkInv
  BY InitImplements, InitLink
<1>2. TypeOK /\ ~Moved
  BY <1>1 DEF KvInv, IndInv, IndexInv, Moved
<1>3. ListInv
  BY <1>1, <1>2, ListFromUp
<1>4. /\ first = EntryHead /\ cur = 1 /\ pc = "idle" /\ op = NoOp /\ img = [a \in {} |-> EmptyBlock]
      /\ index = [m \in Keys \union {0} |-> IF m = 0 THEN EntryHead ELSE Null]
      /\ \A a \in Addr : nvm[a] = EmptyBlock /\ dur[a] = Persist(nvm[a])
  BY DEF Init
<1>5. VIndex = index /\ EntryHead \in Addr /\ EntryHead # Null
  BY <1>2, VIndexIs, MaxEntriesAssumption DEF EntryHead, Addr, Null
<1>6. VKeys = {0} /\ VIndex[0] = EntryHead
  BY <1>4, <1>5 DEF VKeys
<1>7. MovedInv
  BY <1>2, <1>4 DEF MovedInv
<1>8. MinInv
  BY <1>4, <1>5, <1>6 DEF MinInv, EmptyBlock
<1>9. SecondInv /\ ArgInv
  BY <1>4, <1>6 DEF SecondInv, ArgInv, NoOp
<1>10. LineInv
  BY <1>4, <1>5, <1>6, PersistStrict, StrictIsLeft DEF LineInv
<1>11. NextInv
  <2>1. \A a \in Addr : nvm[a].next \in Addr \union {Null}
    BY <1>2 DEF TypeOK
  <2> QED BY <1>4, <2>1, NextOkPersist DEF NextInv
<1>12. BaseInv
  BY <1>2, <1>3, <1>7, <1>8, <1>9, <1>10, <1>11 DEF BaseInv
<1> QED BY <1>1, <1>2, <1>4, <1>12 DEF CrashInv, UpInv

LEMMA CrashStep ==
  ASSUME CrashSafe, CrashInv, Crash
  PROVE  CrashInv'
<1>1. /\ UNCHANGED <<nvm, dur, index, first, cur, op, img>> /\ pc' = "off" /\ crashes' = crashes + 1
      /\ pc \in QuietPcs
  BY DEF Crash, CrashSafe
<1>2. pc # "off" /\ pc # "split_entry" /\ BaseInv /\ UpInv /\ img = [a \in {} |-> EmptyBlock]
  BY <1>1 DEF CrashInv, QuietPcs
<1>3. UpFacts /\ VGets
  BY <1>2, UpFactsHold, VGetsHold DEF BaseInv
<1>4. VIndex' = VIndex /\ VKeys' = VKeys /\ (Moved' <=> Moved)
  BY <1>1, SameIndex
<1>5. TypeOK'
  BY <1>1, <1>2 DEF BaseInv, TypeOK, Pcs
<1>6. ListInv'
  <2>1. \A m, k : VOwns(m, k)' <=> VOwns(m, k)
    BY <1>4 DEF VOwns
  <2> QED BY <1>1, <1>2, <1>4, <2>1 DEF BaseInv, ListInv
<1>7. MovedInv'
  BY <1>1, <1>2, <1>4 DEF BaseInv, MovedInv, SplitPcs
<1>8. MinInv' /\ SecondInv' /\ ArgInv' /\ LineInv' /\ NextInv'
  BY <1>1, <1>2, <1>4 DEF BaseInv, MinInv, SecondInv, ArgInv, LineInv, NextInv
<1>9. /\ op.call = "insert" => op.old = 0 /\ (Found(op.k) => Get(op.k) = op.v)
      /\ op.call = "update" => Found(op.k) /\ Get(op.k) = op.v
  <2>1. CASE pc = "idle"
    BY <1>3, <2>1 DEF UpFacts, NoOp
  <2>2. CASE pc \in {"insert", "split_flag", "split_new"}
    BY <1>3, <2>2 DEF UpFacts, SplitPcs
  <2>3. CASE pc = "flush"
    <3>1. op.k \in Keys /\ op.i \in Slots /\ Get(op.k) = op.v
      BY <1>3, <2>3 DEF UpFacts
    <3>2. PICK m \in VKeys : nvm[VIndex[m]].key[op.i] = op.k
      BY <1>2, <2>3 DEF BaseInv, ArgInv
    <3>3. Found(op.k)
      BY <1>3, <3>1, <3>2 DEF VGets
    <3>4. op.call = "insert" => op.old = 0
      BY <1>2 DEF BaseInv, ArgInv
    <3> QED BY <3>1, <3>3, <3>4
  <2> QED BY <1>1, <2>1, <2>2, <2>3 DEF QuietPcs
<1>10. OffInv'
  <2>1. Found(op.k)' = Found(op.k) /\ Get(op.k)' = Get(op.k)
    BY <1>1 DEF Found, Get, Route, IndexKeys
  <2>2. DOMAIN img' = {} /\ img' = [a \in {} |-> img'[a]]
    BY <1>1, <1>2
  <2> QED BY <1>1, <1>9, <2>1, <2>2 DEF OffInv
<1> QED BY <1>1, <1>5, <1>6, <1>7, <1>8, <1>10 DEF CrashInv, BaseInv

LEMMA SettleStep ==
  ASSUME CrashInv, NEW a \in Addr, Settle(a)
  PROVE  CrashInv'
<1>1. /\ UNCHANGED <<nvm, dur, index, first, cur, pc, op, crashes>> /\ pc = "off" /\ DOMAIN img = 1..(a - 1)
      /\ BaseInv /\ OffInv
  BY DEF Settle, CrashInv
<1>2. PICK e \in Survivors(dur[a]) : img' = [b \in 1..a |-> IF b = a THEN e ELSE img[b]]
  BY DEF Settle
<1>3. a \in Nat /\ a >= 1 /\ 1..a \subseteq Addr
  BY MaxEntriesAssumption DEF Addr
<1>5. DOMAIN img' = 1..a /\ img' = [b \in 1..a |-> img'[b]] /\ \A b \in 1..a : img'[b] \in Survivors(dur[b])
  <2>1. \A b \in 1..a : b = a \/ b \in DOMAIN img
    BY <1>1, <1>3
  <2> QED BY <1>1, <1>2, <2>1 DEF OffInv
<1>6. \A b \in DOMAIN img' : img'[b] \in Block
  BY <1>1, <1>3, <1>5, SurvivorType DEF BaseInv, TypeOK
<1>7. TypeOK'
  BY <1>1, <1>3, <1>5, <1>6 DEF BaseInv, TypeOK
<1>8. VIndex' = VIndex /\ VKeys' = VKeys /\ (Moved' <=> Moved)
  BY <1>1, SameIndex
<1>9. ListInv'
  <2>1. \A m, k : VOwns(m, k)' <=> VOwns(m, k)
    BY <1>8 DEF VOwns
  <2> QED BY <1>1, <1>8, <2>1 DEF BaseInv, ListInv
<1>10. MovedInv'
  BY <1>1, <1>8 DEF BaseInv, MovedInv
<1>11. MinInv' /\ SecondInv' /\ ArgInv' /\ LineInv' /\ NextInv'
  BY <1>1, <1>8 DEF BaseInv, MinInv, SecondInv, ArgInv, LineInv, NextInv
<1>12. OffInv'
  <2>1. Found(op.k)' = Found(op.k) /\ Get(op.k)' = Get(op.k)
    BY <1>1 DEF Found, Get, Route, IndexKeys
  <2> QED BY <1>1, <1>5, <2>1 DEF OffInv
<1> QED BY <1>1, <1>7, <1>9, <1>10, <1>11, <1>12 DEF CrashInv, BaseInv

-----------------------------------------------------------------------------
(* The restart. *)

\* The settled contents of the list.
SettledInv ==
  /\ \A m \in VKeys : /\ img[VIndex[m]].next = nvm[VIndex[m]].next
                      /\ img[VIndex[m]].min = nvm[VIndex[m]].min
                      /\ \A j \in Slots : PairLeft(op, img[VIndex[m]], nvm[VIndex[m]], j)
  /\ img \in [Addr -> Block] /\ \A a \in Addr : img[a].next \in Addr \union {Null}

LEMMA SettledHolds ==
  ASSUME CrashInv, Recover
  PROVE  SettledInv
<1>1. pc = "off" /\ DOMAIN img = Addr /\ BaseInv /\ OffInv /\ dur \in [Addr -> [Lines -> SUBSET Block]]
  BY DEF Recover, CrashInv, BaseInv, TypeOK
<1>2. \A a \in Addr : img[a] \in Survivors(dur[a])
  BY <1>1 DEF OffInv
<1>3. ASSUME NEW m \in VKeys
      PROVE  /\ img[VIndex[m]].next = nvm[VIndex[m]].next
             /\ img[VIndex[m]].min = nvm[VIndex[m]].min
             /\ \A j \in Slots : PairLeft(op, img[VIndex[m]], nvm[VIndex[m]], j)
  <2>1. VIndex[m] \in Addr
    BY <1>1, VEntry DEF BaseInv
  <2>2. Left(op, dur[VIndex[m]], nvm[VIndex[m]])
    BY <1>1 DEF BaseInv, LineInv
  <2> DEFINE d == dur[VIndex[m]]
             s == img[VIndex[m]]
             e == nvm[VIndex[m]]
  <2>3. d \in [Lines -> SUBSET Block] /\ s \in Survivors(d) /\ Left(op, d, e)
    BY <1>1, <1>2, <2>1, <2>2
  <2> HIDE DEF d, s, e
  <2>4. s.next = e.next /\ s.min = e.min /\ \A j \in Slots : PairLeft(op, s, e, j)
    BY <2>3, SurvivorLeft
  <2> QED BY <2>4 DEF s, e
<1>4. ASSUME NEW a \in Addr PROVE img[a] \in Block /\ img[a].next \in Addr \union {Null}
  <2>1. PICK x \in dur[a][0] : img[a].next = x.next
    BY <1>1, <1>2, SurvivorType
  <2>2. x.next \in Addr \union {Null}
    BY <1>1, LineFacts DEF BaseInv, NextInv, NextOk
  <2> QED BY <1>1, <1>2, <2>1, <2>2, SurvivorType
<1>5. img = [a \in Addr |-> img[a]]
  BY <1>1 DEF OffInv
<1> QED BY <1>3, <1>4, <1>5 DEF SettledInv

\* The list has no more entries than the pool.
LEMMA VKeysFit ==
  ASSUME TypeOK, ListInv
  PROVE  IsFiniteSet(VKeys) /\ Cardinality(VKeys) <= MaxEntries
<1> DEFINE f == [m \in VKeys |-> VIndex[m]]
<1>1. \A m \in VKeys : VIndex[m] \in Addr
  BY VEntry
<1>2. f \in Injection(VKeys, Addr)
  BY <1>1 DEF ListInv, Injection, IsInjective
<1>3. IsFiniteSet(Addr) /\ Cardinality(Addr) = MaxEntries
  <2>1. MaxEntries \in Nat \ {0}
    BY MaxEntriesAssumption
  <2>2. 1 \in Int /\ MaxEntries \in Int /\ ~(1 > MaxEntries) /\ MaxEntries - 1 + 1 = MaxEntries
    BY <2>1
  <2> QED BY <2>2, FS_Interval DEF Addr
<1> QED BY <1>2, <1>3, FS_Injection

\* A list with the links of nvm visits the entries of VIndex.
LEMMA ListIs ==
  ASSUME TypeOK, ListInv, NEW mem, \A m \in VKeys : mem[VIndex[m]].next = nvm[VIndex[m]].next
  PROVE  LET list == List(mem)
             used == {n \in 0..MaxEntries : list[n] # Null}
         IN /\ list[MaxEntries] = Null
            /\ used \subseteq 0..(MaxEntries - 1)
            /\ \A n \in used : \E m \in VKeys : list[n] = VIndex[m] /\ Rank(VKeys, m) = n
            /\ \A m \in VKeys : Rank(VKeys, m) \in used /\ list[Rank(VKeys, m)] = VIndex[m]
            /\ \A m \in VKeys : Rank(VKeys, m) \in Nat /\ m \in Nat
<1> DEFINE S == VKeys
           L == List(mem)
           used == {n \in 0..MaxEntries : L[n] # Null}
<1>1. /\ S \in SUBSET Nat /\ 0 \in S /\ IsFiniteSet(S) /\ Cardinality(S) <= MaxEntries /\ Cardinality(S) \in Nat
      /\ MaxEntries \in Nat /\ VIndex[0] = EntryHead
  BY VIndexIs, VKeysFit, MaxEntriesAssumption, FS_CardinalityType
<1>2. \A m \in S : VIndex[m] # Null
  BY DEF VKeys
<1>3. LinkedBy(S, VIndex, mem)
  BY DEF ListInv, LinkedBy
<1>4. Visits(S, VIndex, L)
  BY <1>1, <1>2, <1>3, ListVisits
<1> HIDE DEF L
<1>5. \A m \in S : Rank(S, m) \in Nat /\ Rank(S, m) < MaxEntries
  BY <1>1, RankBound, RankType
<1>6. MaxEntries \in 0..MaxEntries /\ \A m \in S : Rank(S, m) # MaxEntries
  BY <1>1, <1>5
<1>7. L[MaxEntries] = Null
  BY <1>4, <1>6 DEF Visits
<1>8. \A n \in used : \E m \in S : L[n] = VIndex[m] /\ Rank(S, m) = n
  BY <1>4 DEF Visits
<1>9. used \subseteq 0..(MaxEntries - 1)
  BY <1>1, <1>5, <1>8
<1>10. \A m \in S : Rank(S, m) \in used /\ L[Rank(S, m)] = VIndex[m]
  <2> SUFFICES ASSUME NEW m \in S PROVE Rank(S, m) \in used /\ L[Rank(S, m)] = VIndex[m]
    OBVIOUS
  <2> DEFINE r == Rank(S, m)
  <2>1. r \in 0..MaxEntries
    BY <1>1, <1>5
  <2>2. L[r] = VIndex[m]
    BY <1>4, <2>1 DEF Visits
  <2>3. L[r] # Null
    BY <1>2, <2>2
  <2> HIDE DEF r
  <2>4. r \in used /\ L[r] = VIndex[m]
    BY <2>1, <2>2, <2>3
  <2> QED BY <2>4 DEF r
<1> QED BY <1>1, <1>5, <1>7, <1>8, <1>9, <1>10 DEF L

\* What Recover finds in the list: the entries of VIndex, with ascending
\* min_keys.
MinKey(m) == IF m = 0 THEN nvm[EntryHead].min ELSE m

LEMMA ListFound ==
  ASSUME BaseInv, SettledInv
  PROVE  LET list == List(img)
             used == {n \in 0..MaxEntries : list[n] # Null}
         IN /\ list[MaxEntries] = Null
            /\ used \subseteq 0..(MaxEntries - 1)
            /\ \A n \in used : \E m \in VKeys : list[n] = VIndex[m] /\ Rank(VKeys, m) = n
            /\ \A m \in VKeys : Rank(VKeys, m) \in used /\ list[Rank(VKeys, m)] = VIndex[m]
            /\ \A m \in VKeys : img[VIndex[m]].min = MinKey(m)
            /\ \A m, n \in VKeys : m < n => MinKey(m) < MinKey(n)
            /\ \A m \in VKeys : Rank(VKeys, m) \in Nat /\ m \in Nat
<1> DEFINE L == List(img)
           used == {n \in 0..MaxEntries : L[n] # Null}
<1>1. /\ L[MaxEntries] = Null
      /\ used \subseteq 0..(MaxEntries - 1)
      /\ \A n \in used : \E m \in VKeys : L[n] = VIndex[m] /\ Rank(VKeys, m) = n
      /\ \A m \in VKeys : Rank(VKeys, m) \in used /\ L[Rank(VKeys, m)] = VIndex[m]
      /\ \A m \in VKeys : Rank(VKeys, m) \in Nat /\ m \in Nat
  BY ListIs DEF BaseInv, SettledInv
<1>2. VIndex[0] = EntryHead
  BY VIndexIs DEF BaseInv
<1>3. \A m \in VKeys : img[VIndex[m]].min = MinKey(m)
  BY <1>2 DEF SettledInv, BaseInv, MinInv, MinKey
<1>4. ASSUME NEW m \in VKeys, NEW n \in VKeys, m < n PROVE MinKey(m) < MinKey(n)
  <2>1. n # 0
    BY <1>1, <1>4
  <2> QED BY <1>4, <2>1 DEF BaseInv, MinInv, MinKey
<1> HIDE DEF L
<1> QED BY <1>1, <1>3, <1>4 DEF L

LEMMA ImageRecoverable ==
  ASSUME CrashSafe, BaseInv, SettledInv
  PROVE  Recoverable(img)
<1> DEFINE L == List(img)
           used == {n \in 0..MaxEntries : L[n] # Null}
           bound == LoadSize \div K + 1
<1> HIDE DEF L
<1>1. /\ L[MaxEntries] = Null
      /\ used \subseteq 0..(MaxEntries - 1)
      /\ \A n \in used : \E m \in VKeys : L[n] = VIndex[m] /\ Rank(VKeys, m) = n
      /\ \A m \in VKeys : img[VIndex[m]].min = MinKey(m)
      /\ \A m, n \in VKeys : m < n => MinKey(m) < MinKey(n)
      /\ \A m \in VKeys : Rank(VKeys, m) \in Nat /\ m \in Nat
  BY ListFound DEF L
<1>2. VKeys \in SUBSET Nat /\ IsFiniteSet(VKeys)
  BY VIndexIs, VKeysFit DEF BaseInv
<1>3. Cardinality(used) <= bound
  <2>1. MaxEntries \in Nat \ {0} /\ MaxEntries <= bound /\ bound \in Nat
    BY MaxEntriesAssumption, BoundsAssumption, KAssumption DEF CrashSafe
  <2>2. IsFiniteSet(0..(MaxEntries - 1)) /\ Cardinality(0..(MaxEntries - 1)) = MaxEntries
    <3>1. 0 \in Int /\ MaxEntries - 1 \in Int /\ ~(0 > MaxEntries - 1) /\ MaxEntries - 1 - 0 + 1 = MaxEntries
      BY <2>1
    <3> QED BY <3>1, FS_Interval
  <2> HIDE DEF bound, used
  <2>3. Cardinality(used) <= MaxEntries /\ IsFiniteSet(used)
    BY <1>1, <2>2, FS_Subset
  <2>4. Cardinality(used) \in Nat
    BY <2>3, FS_CardinalityType
  <2> QED BY <2>1, <2>3, <2>4
<1>4. ASSUME NEW n \in used, NEW m \in used, n < m
      PROVE  img[L[n]].min < img[L[m]].min
  <2>1. PICK p \in VKeys : L[n] = VIndex[p] /\ Rank(VKeys, p) = n
    BY <1>1
  <2>2. PICK q \in VKeys : L[m] = VIndex[q] /\ Rank(VKeys, q) = m
    BY <1>1
  <2>3. ~(q < p) /\ q # p
    BY <1>1, <1>2, <1>4, <2>1, <2>2, RankGrows
  <2>4. p < q
    BY <1>1, <2>3
  <2> QED BY <1>1, <2>1, <2>2, <2>4
<1> QED BY <1>1, <1>3, <1>4 DEF Recoverable, L

LEMMA ImageIndex ==
  ASSUME BaseInv, SettledInv
  PROVE  IndexOf(img) = [m \in Keys \union {0} |->
                           IF m = nvm[EntryHead].min THEN EntryHead
                           ELSE IF m # 0 /\ m \in VKeys THEN VIndex[m] ELSE Null]
<1> DEFINE L == List(img)
           listed == {L[n] : n \in 0..MaxEntries} \ {Null}
           used == {n \in 0..MaxEntries : L[n] # Null}
           h == nvm[EntryHead].min
<1> HIDE DEF L
<1>1. /\ \A n \in used : \E m \in VKeys : L[n] = VIndex[m] /\ Rank(VKeys, m) = n
      /\ \A m \in VKeys : Rank(VKeys, m) \in used /\ L[Rank(VKeys, m)] = VIndex[m]
      /\ \A m \in VKeys : img[VIndex[m]].min = MinKey(m)
      /\ \A m, n \in VKeys : m < n => MinKey(m) < MinKey(n)
      /\ \A m \in VKeys : m \in Nat
  BY ListFound DEF L
<1>2. VIndex[0] = EntryHead /\ 0 \in VKeys /\ h \in Nat
  BY VIndexIs, KeysNat DEF BaseInv, MinInv
<1>3. listed = {VIndex[m] : m \in VKeys}
  <2>1. \A a \in listed : \E m \in VKeys : a = VIndex[m]
    BY <1>1
  <2>2. \A m \in VKeys : VIndex[m] \in listed
    BY <1>1
  <2> QED BY <2>1, <2>2
<1>4. \A m \in VKeys : MinKey(m) \in Nat
  BY <1>1, <1>2 DEF MinKey
<1>5. \A m, n \in VKeys : MinKey(m) = MinKey(n) => m = n
  <2> SUFFICES ASSUME NEW m \in VKeys, NEW n \in VKeys, MinKey(m) = MinKey(n), m # n PROVE FALSE
    OBVIOUS
  <2>1. m < n \/ n < m
    BY <1>1
  <2> QED BY <1>1, <1>4, <2>1
<1>6. ASSUME NEW m \in VKeys PROVE (CHOOSE a \in listed : img[a].min = MinKey(m)) = VIndex[m]
  <2> DEFINE c == CHOOSE a \in listed : img[a].min = MinKey(m)
  <2>1. VIndex[m] \in listed /\ img[VIndex[m]].min = MinKey(m)
    BY <1>1, <1>3
  <2> HIDE DEF listed
  <2>2. c \in listed /\ img[c].min = MinKey(m)
    BY <2>1
  <2>3. PICK n \in VKeys : c = VIndex[n]
    BY <1>3, <2>2
  <2> HIDE DEF c
  <2>4. n = m
    BY <1>1, <1>5, <2>2, <2>3
  <2> QED BY <2>3, <2>4 DEF c
<1> DEFINE F(m) == IF \E a \in listed : img[a].min = m THEN CHOOSE a \in listed : img[a].min = m ELSE Null
           G(m) == IF m = h THEN EntryHead ELSE IF m # 0 /\ m \in VKeys THEN VIndex[m] ELSE Null
<1>7. IndexOf(img) = [m \in Keys \union {0} |-> F(m)]
  BY DEF IndexOf, L
<1>8. ASSUME NEW m \in Keys \union {0} PROVE F(m) = G(m)
  <2>1. CASE \E p \in VKeys : MinKey(p) = m
    <3>1. PICK p \in VKeys : MinKey(p) = m
      BY <2>1
    <3>2. F(m) = VIndex[p]
      <4>1. VIndex[p] \in listed /\ img[VIndex[p]].min = m
        BY <1>1, <1>3, <3>1
      <4>2. (CHOOSE a \in listed : img[a].min = m) = VIndex[p]
        BY <1>6, <3>1
      <4> HIDE DEF listed
      <4> QED BY <4>1, <4>2
    <3>3. G(m) = VIndex[p]
      <4>1. CASE p = 0
        BY <1>2, <3>1, <4>1 DEF MinKey
      <4>2. CASE p # 0
        <5>1. m = p /\ MinKey(0) = h
          BY <3>1, <4>2 DEF MinKey
        <5>2. p # h
          BY <1>2, <1>5, <3>1, <4>2, <5>1
        <5> QED BY <4>2, <5>1, <5>2
      <4> QED BY <4>1, <4>2
    <3> QED BY <3>2, <3>3
  <2>2. CASE ~\E p \in VKeys : MinKey(p) = m
    <3>1. ~\E a \in listed : img[a].min = m
      BY <1>1, <1>3, <2>2
    <3>2. MinKey(0) = h /\ (m # 0 => MinKey(m) = m)
      BY DEF MinKey
    <3>3. G(m) = Null
      BY <1>2, <2>2, <3>2
    <3> HIDE DEF listed
    <3> QED BY <3>1, <3>3
  <2> QED BY <2>1, <2>2
<1> HIDE DEF F, G
<1>9. IndexOf(img) = [m \in Keys \union {0} |-> G(m)]
  BY <1>7, <1>8
<1> QED BY <1>9 DEF G

\* The rebuilt index: VIndex, with the head under its min_key when the list
\* has several entries.
LEMMA RecoverIs ==
  ASSUME CrashSafe, CrashInv, Recover
  PROVE  LET h == nvm[EntryHead].min
         IN /\ pc' = "idle" /\ op' = NoOp /\ nvm' = img /\ first' = EntryHead /\ cur' = 1
            /\ index' \in [Keys \union {0} -> Addr \union {Null}]
            /\ \A m \in Keys \union {0} : index'[m] = IF m = h THEN EntryHead
                                                      ELSE IF m # 0 /\ m \in VKeys THEN VIndex[m] ELSE Null
            /\ VIndex' = VIndex /\ VKeys' = VKeys
            /\ Moved' <=> VKeys # {0}
<1> DEFINE h == nvm[EntryHead].min
           G(m) == IF m = h THEN EntryHead ELSE IF m # 0 /\ m \in VKeys THEN VIndex[m] ELSE Null
<1>1. BaseInv /\ SettledInv /\ TypeOK /\ ListInv /\ MinInv
  BY SettledHolds DEF CrashInv, BaseInv, Recover
<1>2. /\ pc' = "idle" /\ op' = NoOp /\ nvm' = img /\ first' = EntryHead /\ cur' = 1
      /\ index' = IndexOf(img)
  BY <1>1, ImageRecoverable DEF Recover
<1>3. index' = [m \in Keys \union {0} |-> G(m)]
  BY <1>1, <1>2, ImageIndex
<1>4. /\ VIndex \in [Keys \union {0} -> Addr \union {Null}] /\ VIndex[0] = EntryHead
      /\ 0 \in VKeys /\ EntryHead \in Addr /\ EntryHead # Null /\ \A m \in Keys : m # 0
  BY <1>1, VIndexIs, KeysNat, MaxEntriesAssumption DEF EntryHead, Addr, Null
<1>5. h \in Keys \union {0} /\ h \in Nat /\ (h = 0 <=> VKeys = {0})
      /\ \A m \in VKeys : m # 0 => h < m
  BY <1>1, KeysNat DEF MinInv
<1>6. h # 0 => h \notin VKeys
  BY <1>5
<1>7. \A m \in Keys \union {0} : VIndex[m] = IF m \in VKeys THEN VIndex[m] ELSE Null
  BY DEF VKeys
<1>8. \A m \in VKeys : VIndex[m] = EntryHead => m = 0
  BY <1>1, <1>4 DEF ListInv
<1> HIDE DEF h
<1>9. index' \in [Keys \union {0} -> Addr \union {Null}]
  <2>1. \A m \in Keys \union {0} : G(m) \in Addr \union {Null}
    BY <1>4, <1>7
  <2> HIDE DEF G
  <2> QED BY <1>3, <2>1
<1>10. index'[0] = EntryHead <=> h = 0
  BY <1>3, <1>4
<1>11. VIndex' = VIndex
  <2>1. CASE h = 0
    <3>1. VIndex' = index'
      BY <1>10, <2>1 DEF VIndex
    <3>2. \A m \in Keys \union {0} : index'[m] = VIndex[m]
      BY <1>3, <1>4, <1>7, <2>1
    <3> QED BY <1>4, <1>9, <3>1, <3>2
  <2>2. CASE h # 0
    <3>1. VIndex' = [m \in Keys \union {0} |->
                       IF m = 0 THEN EntryHead ELSE IF index'[m] = EntryHead THEN Null ELSE index'[m]]
      BY <1>10, <2>2 DEF VIndex
    <3>2. ASSUME NEW m \in Keys \union {0}
          PROVE  (IF m = 0 THEN EntryHead ELSE IF index'[m] = EntryHead THEN Null ELSE index'[m]) = VIndex[m]
      <4>1. index'[m] = G(m)
        BY <1>3
      <4>2. CASE m = 0
        BY <1>4, <4>2
      <4>3. CASE m # 0 /\ m = h
        BY <1>6, <1>7, <4>1, <4>3
      <4>4. CASE m # 0 /\ m # h
        BY <1>7, <1>8, <4>1, <4>4
      <4> QED BY <4>2, <4>3, <4>4
    <3> QED BY <1>4, <3>1, <3>2
  <2> QED BY <2>1, <2>2
<1>12. VKeys' = VKeys
  BY <1>11 DEF VKeys
<1>13. Moved' <=> VKeys # {0}
  BY <1>5, <1>10 DEF Moved
<1>14. \A m \in Keys \union {0} : index'[m] = G(m)
  BY <1>3
<1> QED BY <1>2, <1>9, <1>11, <1>12, <1>13, <1>14 DEF h

\* What survived of the keys.
LEMMA RecoverKeys ==
  ASSUME BaseInv, SettledInv, NEW m \in VKeys
  PROVE  /\ \A j \in Slots : img[VIndex[m]].key[j] \in {0, nvm[VIndex[m]].key[j]}
         /\ m # 0 => HasKey(img[VIndex[m]], m)
<1>1. \A j \in Slots : PairLeft(op, img[VIndex[m]], nvm[VIndex[m]], j)
  BY DEF SettledInv
<1>2. \A j \in Slots : img[VIndex[m]].key[j] \in {0, nvm[VIndex[m]].key[j]}
  BY <1>1 DEF PairLeft
<1>3. ASSUME m # 0 PROVE HasKey(img[VIndex[m]], m)
  <2>1. PICK j \in Slots : nvm[VIndex[m]].key[j] = m
    BY <1>3 DEF BaseInv, MinInv, HasKey
  <2>2. op.call = "insert" => op.k # m
    BY DEF BaseInv, ArgInv
  <2>3. img[VIndex[m]].key[j] = m
    BY <1>1, <2>1, <2>2 DEF PairLeft
  <2> QED BY <2>3 DEF HasKey
<1> QED BY <1>2, <1>3

LEMMA UpFromIdle ==
  TypeOK /\ MovedInv /\ ListInv /\ pc = "idle" /\ op = NoOp /\ (~Moved => \A m \in VKeys : VIndex[m] <= cur)
    => UpInv
  BY UpFromList

\* A restart finds the invariant again.
LEMMA RecoverStep ==
  ASSUME CrashSafe, CrashInv, Recover
  PROVE  CrashInv'
<1> DEFINE h == nvm[EntryHead].min
<1>1. BaseInv /\ SettledInv /\ TypeOK /\ ListInv /\ MinInv /\ SecondInv
  BY SettledHolds DEF CrashInv, BaseInv, Recover
<1>2. /\ pc' = "idle" /\ op' = NoOp /\ nvm' = img /\ first' = EntryHead /\ cur' = 1
      /\ index' \in [Keys \union {0} -> Addr \union {Null}]
      /\ \A m \in Keys \union {0} : index'[m] = IF m = h THEN EntryHead
                                                ELSE IF m # 0 /\ m \in VKeys THEN VIndex[m] ELSE Null
      /\ VIndex' = VIndex /\ VKeys' = VKeys
      /\ Moved' <=> VKeys # {0}
  BY RecoverIs
<1>3. /\ img' = [a \in {} |-> EmptyBlock] /\ crashes' = crashes
      /\ dur' = [a \in Addr |-> Persist(img[a])]
  BY DEF Recover
<1>4. /\ VIndex \in [Keys \union {0} -> Addr \union {Null}] /\ VIndex[0] = EntryHead
      /\ 0 \in VKeys /\ EntryHead \in Addr /\ EntryHead # Null /\ EntryHead = 1
      /\ (\A m \in Keys : m # 0 /\ m \in Nat) /\ VKeys \subseteq Keys \union {0}
      /\ \A m \in VKeys : VIndex[m] \in Addr
  BY <1>1, VIndexIs, VEntry, KeysNat, MaxEntriesAssumption DEF EntryHead, Addr, Null, VKeys
<1>5. h \in Keys \union {0} /\ (h = 0 <=> VKeys = {0}) /\ \A m \in VKeys : m # 0 => h < m
  BY <1>1 DEF MinInv
<1>6. img \in [Addr -> Block] /\ \A a \in Addr : img[a].next \in Addr \union {Null}
  BY <1>1 DEF SettledInv
<1>7. \A m \in VKeys : VIndex[m] = EntryHead => m = 0
  BY <1>1, <1>4 DEF ListInv
<1> HIDE DEF h
<1>8. TypeOK'
  <2>1. dur' \in [Addr -> [Lines -> SUBSET Block]]
    <3>1. \A a \in Addr : Persist(img[a]) \in [Lines -> SUBSET Block]
      BY <1>6, PersistType
    <3> QED BY <1>3, <3>1
  <2>2. op' \in OpType
    BY <1>2, NoOpType
  <2>3. cur' \in Addr /\ first' \in Addr /\ pc' \in Pcs
    BY <1>2, <1>4 DEF Pcs
  <2>4. DOMAIN img' = {}
    BY <1>3
  <2>5. crashes' \in Nat
    BY <1>1, <1>3 DEF TypeOK
  <2> QED BY <1>2, <1>6, <2>1, <2>2, <2>3, <2>4, <2>5 DEF TypeOK
<1>9. MovedInv'
  <2>1. ASSUME Moved'
        PROVE  /\ index'[0] = Null
               /\ \E g \in Keys : /\ index'[g] = EntryHead
                                  /\ \A n \in Keys : index'[n] = EntryHead => n = g
                                  /\ \A n \in Keys : index'[n] # Null => g <= n
    <3>1. h # 0 /\ h \in Keys
      BY <1>2, <1>5, <2>1
    <3>2. index'[0] = Null
      BY <1>2, <3>1
    <3>3. index'[h] = EntryHead
      BY <1>2, <3>1
    <3>4. \A n \in Keys : index'[n] = EntryHead => n = h
      BY <1>2, <1>4, <1>7
    <3>5. ASSUME NEW n \in Keys, index'[n] # Null PROVE h <= n
      <4>1. n = h \/ n \in VKeys
        BY <1>2, <3>5
      <4> QED BY <1>4, <1>5, <3>1, <4>1
    <3> QED BY <3>1, <3>2, <3>3, <3>4, <3>5
  <2> QED BY <1>2, <2>1 DEF MovedInv, SplitPcs
<1>10. ListInv'
  <2>1. \A m, k : VOwns(m, k)' <=> VOwns(m, k)
    BY <1>2 DEF VOwns
  <2>2. LinkedBy(VKeys, VIndex, img)
    BY <1>1 DEF ListInv, LinkedBy, SettledInv
  <2>3. \A m, n \in VKeys : VIndex[m] = VIndex[n] => m = n
    BY <1>1 DEF ListInv
  <2>4. ASSUME NEW m \in VKeys, NEW i \in Slots, img[VIndex[m]].key[i] # 0
        PROVE  /\ img[VIndex[m]].key[i] \in Keys
               /\ VOwns(m, img[VIndex[m]].key[i])
               /\ \A j \in Slots : img[VIndex[m]].key[j] = img[VIndex[m]].key[i] => j = i
    <3>1. \A j \in Slots : img[VIndex[m]].key[j] \in {0, nvm[VIndex[m]].key[j]}
      BY <1>1, RecoverKeys
    <3>2. img[VIndex[m]].key[i] = nvm[VIndex[m]].key[i] /\ nvm[VIndex[m]].key[i] # 0
      BY <2>4, <3>1
    <3>3. /\ nvm[VIndex[m]].key[i] \in Keys /\ VOwns(m, nvm[VIndex[m]].key[i])
          /\ \A j \in Slots : nvm[VIndex[m]].key[j] = nvm[VIndex[m]].key[i] => j = i
      BY <1>1, <3>2 DEF ListInv
    <3> QED BY <2>4, <3>1, <3>2, <3>3
  <2> QED BY <1>2, <1>4, <2>1, <2>2, <2>3, <2>4 DEF ListInv
<1>11. MinInv'
  <2>1. \A m \in VKeys : m # 0 => img[VIndex[m]].min = m /\ HasKey(img[VIndex[m]], m)
    BY <1>1, RecoverKeys DEF SettledInv, MinInv
  <2>2. img[EntryHead].min = h
    BY <1>1, <1>4 DEF SettledInv, h
  <2> QED BY <1>2, <1>5, <2>1, <2>2 DEF MinInv
<1>12. SecondInv'
  BY <1>1, <1>2 DEF SecondInv
<1>13. ArgInv'
  BY <1>2 DEF ArgInv, NoOp
<1>14. LineInv'
  <2>1. ASSUME NEW m \in VKeys PROVE Left(op', dur'[VIndex[m]], nvm'[VIndex[m]])
    BY <1>2, <1>3, <1>4, PersistStrict, StrictIsLeft
  <2> QED BY <1>2, <2>1 DEF LineInv
<1>15. NextInv'
  BY <1>3, <1>6, NextOkPersist DEF NextInv
<1>16. UpInv'
  <2>1. (TypeOK /\ MovedInv /\ ListInv /\ pc = "idle" /\ op = NoOp
           /\ (~Moved => \A m \in VKeys : VIndex[m] <= cur) => UpInv)'
    BY UpFromIdle, PTL
  <2>2. ~Moved' => \A m \in VKeys : VIndex[m] <= 1
    BY <1>2, <1>4
  <2> QED BY <1>2, <1>8, <1>9, <1>10, <2>1, <2>2
<1> QED BY <1>2, <1>3, <1>8, <1>9, <1>10, <1>11, <1>12, <1>13, <1>14, <1>15, <1>16
        DEF CrashInv, BaseInv

-----------------------------------------------------------------------------
(* The invariant holds always. *)

\* A step that changes nothing, with the power off.
LEMMA OffStutter ==
  ASSUME CrashInv, pc = "off", UNCHANGED vars
  PROVE  CrashInv'
<1>1. UNCHANGED <<nvm, dur, index, first, cur, pc, op, img, crashes>> /\ BaseInv /\ OffInv
  BY DEF vars, CrashInv
<1>2. VIndex' = VIndex /\ VKeys' = VKeys /\ (Moved' <=> Moved)
  BY <1>1, SameIndex
<1>3. \A m, k : VOwns(m, k)' <=> VOwns(m, k)
  BY <1>2 DEF VOwns
<1>4. TypeOK'
  BY <1>1 DEF BaseInv, TypeOK
<1>5. ListInv'
  BY <1>1, <1>2, <1>3 DEF BaseInv, ListInv
<1>6. MovedInv'
  BY <1>1, <1>2 DEF BaseInv, MovedInv
<1>7. MinInv' /\ SecondInv' /\ ArgInv' /\ LineInv' /\ NextInv'
  BY <1>1, <1>2 DEF BaseInv, MinInv, SecondInv, ArgInv, LineInv, NextInv
<1>8. OffInv'
  <2>1. Found(op.k)' = Found(op.k) /\ Get(op.k)' = Get(op.k)
    BY <1>1 DEF Found, Get, Route, IndexKeys
  <2> QED BY <1>1, <2>1 DEF OffInv
<1> QED BY <1>1, <1>4, <1>5, <1>6, <1>7, <1>8 DEF CrashInv, BaseInv

\* The steps that CrashSafe leaves.
LEMMA StepsLeft ==
  ASSUME CrashSafe, CrashInv, [FullNext]_vars
  PROVE  \/ pc # "off" /\ [Next]_vars
         \/ pc = "off" /\ UNCHANGED vars
         \/ Crash
         \/ \E a \in Addr : Settle(a)
         \/ Recover
<1>1. Next => pc # "off"
  BY DEF Next, Client, Step, SplitStep, Insert, Update, Remove, MaybePut, SplitBegin, SplitFlag, SplitNew,
         SplitEntry, FlushSlot
<1>2. ~BulkStep
  <2>1. pc \notin BulkPcs
    <3>1. CASE pc = "off"
      BY <3>1 DEF BulkPcs
    <3>2. CASE pc # "off"
      <4>1. UpFacts
        BY <3>2, UpFactsHold DEF CrashInv
      <4> QED BY <4>1 DEF UpFacts, Serving, SplitPcs, BulkPcs
    <3> QED BY <3>1, <3>2
  <2> QED BY <2>1 DEF BulkStep, BulkHead, BulkErase, BulkLink, BulkPersist, BulkIndex, BulkPcs
<1>3. ~\E S \in BulkSets, v \in Vals : BulkLoad(S, v)
  BY DEF CrashSafe
<1> QED BY <1>1, <1>2, <1>3 DEF FullNext, Power

LEMMA FullStep ==
  ASSUME CrashSafe, CrashInv, [FullNext]_vars
  PROVE  CrashInv'
  BY StepsLeft, NextCrash, OffStutter, CrashStep, SettleStep, RecoverStep

\* A restart finds a list that Recover can index: the list ends, load_size
\* has room for it and bulk_load is given ascending keys, whatever part of
\* the stores in flight survived each of the failures.
THEOREM RestartsRecover ==
  ASSUME CrashSafe
  PROVE  FullSpec => []RecoverDefined
<1>1. Init => CrashInv
  BY InitCrash
<1>2. CrashInv /\ [FullNext]_vars => CrashInv'
  BY FullStep
<1>3. CrashInv => RecoverDefined
  BY DEF CrashInv, RecoverDefined
<1> QED BY <1>1, <1>2, <1>3, PTL DEF FullSpec

-----------------------------------------------------------------------------
(* What the steps of a running program do to the map. *)

\* A step that writes slot i of the entry of k, which ends with key k.
LEMMA SlotSets ==
  ASSUME TypeOK, VGets, VGets', UNCHANGED index, NEW k \in Keys, NEW m \in VKeys, NEW i \in Slots,
         ListInv,
         \A c \in Addr : c # VIndex[m] => nvm'[c] = nvm[c],
         \A j \in Slots : j # i => /\ nvm'[VIndex[m]].key[j] = nvm[VIndex[m]].key[j]
                                   /\ nvm'[VIndex[m]].val[j] = nvm[VIndex[m]].val[j],
         nvm[VIndex[m]].key[i] \in {0, k}, nvm'[VIndex[m]].key[i] = k
  PROVE  Sets(k, nvm'[VIndex[m]].val[i])
<1>1. VIndex' = VIndex /\ VKeys' = VKeys
  BY SameIndex
<1>2. \A n \in VKeys : VIndex[n] \in Addr /\ (VIndex[n] = VIndex[m] => n = m)
  BY VEntry DEF ListInv
<1>3. Found(k)' /\ Get(k)' = nvm'[VIndex[m]].val[i]
  BY <1>1 DEF VGets
<1>4. ASSUME NEW j \in Keys, j # k
      PROVE  Get(j)' = Get(j) /\ (Found(j)' <=> Found(j))
  <2>1. ASSUME NEW n \in VKeys, NEW g \in Slots, nvm[VIndex[n]].key[g] = j \/ nvm'[VIndex[n]].key[g] = j
        PROVE  /\ nvm'[VIndex[n]].key[g] = nvm[VIndex[n]].key[g]
               /\ nvm'[VIndex[n]].val[g] = nvm[VIndex[n]].val[g]
    <3>1. CASE n # m
      BY <1>2, <3>1
    <3>2. CASE n = m
      <4>1. g # i
        BY <1>4, <2>1, <3>2, KeysNat
      <4> QED BY <3>2, <4>1
    <3> QED BY <3>1, <3>2
  <2>2. CASE Found(j)
    <3>1. PICK n \in VKeys, g \in Slots : nvm[VIndex[n]].key[g] = j /\ nvm[VIndex[n]].val[g] = Get(j)
      BY <2>2 DEF VGets
    <3>2. nvm'[VIndex[n]].key[g] = j /\ nvm'[VIndex[n]].val[g] = Get(j)
      BY <2>1, <3>1
    <3>3. Found(j)' /\ Get(j)' = nvm'[VIndex[n]].val[g]
      BY <1>1, <3>2 DEF VGets
    <3> QED BY <2>2, <3>2, <3>3
  <2>3. CASE ~Found(j)
    <3>1. ~Found(j)'
      <4>1. SUFFICES ASSUME Found(j)' PROVE FALSE
        OBVIOUS
      <4>2. PICK n \in VKeys, g \in Slots : nvm'[VIndex[n]].key[g] = j
        BY <1>1, <4>1 DEF VGets
      <4>3. nvm[VIndex[n]].key[g] = j
        BY <2>1, <4>2
      <4> QED BY <2>3, <4>3 DEF VGets
    <3>2. Get(j) = 0 /\ Get(j)' = 0
      BY <2>3, <3>1 DEF VGets
    <3> QED BY <2>3, <3>1, <3>2
  <2> QED BY <2>2, <2>3
<1> QED BY <1>3, <1>4 DEF Sets

LEMMA KeepsUnchanged ==
  ASSUME UNCHANGED <<nvm, index, first>>
  PROVE  Keeps
  BY DEF Keeps, Get, Found, Route, IndexKeys

\* The entry of k, before and after a restart.
LEMMA OwnerOfKey ==
  ASSUME BaseInv, NEW k \in Keys
  PROVE  \E m \in VKeys : /\ Route(k) = VIndex[m] /\ VIndex[m] \in Addr
                          /\ nvm[VIndex[m]] \in Block
<1>1. PICK m \in VKeys : VOwns(m, k) /\ Route(k) = VIndex[m]
  BY VOwnerExists, KeysNat DEF BaseInv
<1> QED BY <1>1, VEntry DEF BaseInv

LEMMA PutStores ==
  ASSUME BaseInv, UpInv, VGets, VGets', MaybePut
  PROVE  Sets(op.k, op.v)
<1> DEFINE k == op.k
           a == Route(k)
           i == FirstSlot(nvm[a], 0)
           v == op.v
<1>1. k \in Keys
  BY UpFactsHold DEF UpFacts, MaybePut
<1>2. PICK m \in VKeys : a = VIndex[m] /\ VIndex[m] \in Addr /\ nvm[VIndex[m]] \in Block
  BY <1>1, OwnerOfKey
<1>3. i \in Slots /\ nvm[a].key[i] = 0
  BY <1>2, FirstSlotIs DEF MaybePut, Full
<1>4. nvm' = [nvm EXCEPT ![a] = [[nvm[a] EXCEPT !.val[i] = v] EXCEPT !.key[i] = k]]
      /\ UNCHANGED index
  BY DEF MaybePut, Write
<1> HIDE DEF k, a, i, v
<1>5. /\ \A c \in Addr : c # a => nvm'[c] = nvm[c]
      /\ \A j \in Slots : nvm'[a].key[j] = IF j = i THEN k ELSE nvm[a].key[j]
      /\ \A j \in Slots : nvm'[a].val[j] = IF j = i THEN v ELSE nvm[a].val[j]
  BY <1>2, <1>3, <1>4 DEF BaseInv, TypeOK, Block
<1>6. Sets(k, nvm'[VIndex[m]].val[i])
  BY <1>1, <1>2, <1>3, <1>4, <1>5, SlotSets DEF BaseInv
<1> QED BY <1>2, <1>3, <1>5, <1>6 DEF k, v

LEMMA UpdateStores ==
  ASSUME BaseInv, VGets, VGets', NEW k \in Keys, NEW v \in Vals, Update(k, v)
  PROVE  Sets(k, v)
<1> DEFINE a == Route(k)
           i == FirstSlot(nvm[a], k)
<1>2. PICK m \in VKeys : a = VIndex[m] /\ VIndex[m] \in Addr /\ nvm[VIndex[m]] \in Block
  BY OwnerOfKey
<1>3. i \in Slots /\ nvm[a].key[i] = k
  BY <1>2, FirstSlotIs DEF Update, Found
<1>4. nvm' = [nvm EXCEPT ![a] = [nvm[a] EXCEPT !.val[i] = v]] /\ UNCHANGED index
  BY DEF Update, Write
<1> HIDE DEF a, i
<1>5. /\ \A c \in Addr : c # a => nvm'[c] = nvm[c]
      /\ \A j \in Slots : nvm'[a].key[j] = nvm[a].key[j]
      /\ \A j \in Slots : nvm'[a].val[j] = IF j = i THEN v ELSE nvm[a].val[j]
  BY <1>2, <1>3, <1>4 DEF BaseInv, TypeOK, Block
<1>6. Sets(k, nvm'[VIndex[m]].val[i])
  BY <1>2, <1>3, <1>4, <1>5, SlotSets DEF BaseInv
<1> QED BY <1>2, <1>3, <1>5, <1>6

\* What a step does to the call and to the map.
SameCall == op'.call = op.call /\ op'.k = op.k /\ op'.v = op.v /\ op'.old = op.old

Begins ==
  /\ op.call = "none" /\ op'.k \in Keys /\ op'.v \in Vals
  /\ \/ op'.call = "insert" /\ op'.old = 0 /\ ~Found(op'.k) /\ Keeps
     \/ op'.call = "update" /\ op'.old = Get(op'.k) /\ Found(op'.k) /\ Sets(op'.k, op'.v)

Stores == op.call = "insert" /\ op.k \in Keys /\ op.v \in Vals /\ SameCall /\ Sets(op.k, op.v)

Returns ==
  /\ op.call \in {"insert", "update"} /\ op.k \in Keys /\ op' = NoOp
  /\ Keeps /\ Found(op.k) /\ Get(op.k) = op.v

Waits == op.call \in {"none", "insert", "update"} /\ SameCall /\ Keeps

LEMMA StepEffect ==
  ASSUME CrashSafe, CrashInv, pc # "off", [Next]_vars
  PROVE  /\ Serving /\ Serving'
         /\ Begins \/ Stores \/ Returns \/ Waits
<1>1. BaseInv /\ UpInv /\ CrashInv' /\ ArgInv /\ op \in OpType
  BY NextCrash DEF CrashInv, BaseInv, TypeOK
<1>2. pc' # "off"
  BY DEF Next, Client, Step, SplitStep, Insert, Update, Remove, MaybePut, SplitBegin, SplitFlag, SplitNew,
         SplitEntry, FlushSlot, vars
<1>3. UpFacts /\ VGets
  BY <1>1, UpFactsHold, VGetsHold DEF BaseInv
<1>4. UpFacts' /\ VGets'
  <2>1. (BaseInv /\ UpInv => UpFacts)'
    BY UpFactsHold, PTL
  <2>2. (TypeOK /\ MovedInv /\ ListInv => VGets)'
    BY VGetsHold, PTL
  <2>3. BaseInv' /\ UpInv'
    BY <1>1, <1>2 DEF CrashInv
  <2> QED BY <2>1, <2>2, <2>3 DEF BaseInv
<1>5. Serving /\ Serving'
  BY <1>3, <1>4 DEF UpFacts
<1>6. CASE UNCHANGED vars
  <2>1. UNCHANGED <<nvm, index, first, op>>
    BY <1>6 DEF vars
  <2> QED BY <1>1, <1>5, <2>1, KeepsUnchanged DEF ArgInv, Waits, SameCall
<1>7. ASSUME NEW k \in Keys, NEW v \in Vals, Insert(k, v) PROVE Begins
  <2>1. /\ op = NoOp /\ op'.call = "insert" /\ op'.k = k /\ op'.v = v /\ op'.old = 0 /\ ~Found(k)
        /\ UNCHANGED <<nvm, index, first>>
    BY <1>3, <1>7 DEF Insert, UpFacts, NoOp
  <2> QED BY <2>1, KeepsUnchanged DEF Begins, NoOp
<1>8. ASSUME NEW k \in Keys, NEW v \in Vals, Update(k, v) PROVE Begins
  <2>1. op = NoOp /\ op'.call = "update" /\ op'.k = k /\ op'.v = v /\ op'.old = Get(k) /\ Found(k)
    BY <1>3, <1>8 DEF Update, UpFacts, NoOp
  <2>2. Sets(k, v)
    BY <1>1, <1>3, <1>4, <1>8, UpdateStores
  <2> QED BY <2>1, <2>2 DEF Begins, NoOp
<1>9. CASE MaybePut
  <2>1. SameCall
    BY <1>1, <1>9 DEF MaybePut, SameCall, OpType
  <2>2. op.call = "insert" /\ op.k \in Keys /\ op.v \in Vals
    BY <1>1, <1>3, <1>9 DEF MaybePut, UpFacts, ArgInv
  <2>3. Sets(op.k, op.v)
    BY <1>1, <1>3, <1>4, <1>9, PutStores
  <2> QED BY <1>5, <2>1, <2>2, <2>3 DEF Stores
<1>10. CASE FlushSlot
  <2>1. /\ op.call \in {"insert", "update"} /\ op.k \in Keys /\ op' = NoOp /\ op.i \in Slots
        /\ Get(op.k) = op.v /\ UNCHANGED <<nvm, index, first>>
    BY <1>1, <1>3, <1>10 DEF FlushSlot, UpFacts, ArgInv, CallNames
  <2>2. PICK m \in VKeys : nvm[VIndex[m]].key[op.i] = op.k
    BY <1>1, <1>10 DEF FlushSlot, ArgInv
  <2>3. Found(op.k)
    BY <1>3, <2>1, <2>2 DEF VGets
  <2> QED BY <1>5, <2>1, <2>3, KeepsUnchanged DEF Returns
<1>11. CASE SplitStep
  <2>1. KvInv /\ op.call = "insert" /\ op.old = 0
    BY <1>1, <1>11, SplitState
  <2>2. IndInv /\ TmpInv
    BY <2>1 DEF KvInv
  <2>3. Keeps /\ SameCall
    <3>1. CASE SplitBegin
      BY <2>2, <3>1, SplitBeginKeeps DEF SameCall
    <3>2. CASE SplitFlag
      BY <2>2, <3>2, SplitFlagKeeps DEF SplitFlag, SameCall
    <3>3. CASE SplitNew
      BY <2>2, <3>3, SplitNewKeeps DEF SplitNew, SameCall
    <3>4. CASE SplitEntry
      <4>1. UNCHANGED <<nvm, index, first>> /\ op'.call = op.call /\ op'.k = op.k /\ op'.v = op.v /\ op'.old = 0
        BY <3>4 DEF SplitEntry, NoOp
      <4> QED BY <2>1, <4>1, KeepsUnchanged DEF SameCall
    <3> QED BY <1>11, <3>1, <3>2, <3>3, <3>4 DEF SplitStep
  <2> QED BY <1>5, <2>1, <2>3 DEF Waits
<1>12. CASE Client
  <2>1. \A k \in Keys : ~Remove(k)
    BY DEF CrashSafe, Remove
  <2> QED BY <1>5, <1>7, <1>8, <1>12, <2>1 DEF Client
<1> QED BY <1>6, <1>9, <1>10, <1>11, <1>12 DEF Next, Step

-----------------------------------------------------------------------------
(* What a restart does to the map. *)

\* Lookups for other keys than the interrupted call's find what they found;
\* an interrupted update's key is found; an interrupted insert's key is
\* found only with its value.  A value in another line than its key may be
\* lost.
LEMMA RecoverGets ==
  ASSUME CrashSafe, CrashInv, Recover, NEW k \in Keys
  PROVE  LET i == FirstSlot(nvm[Route(k)], k)
         IN /\ ~Found(k)' => Get(k)' = 0
            /\ Found(k)' => Found(k)
            /\ Found(k) /\ (op.call # "insert" \/ k # op.k) => Found(k)'
            /\ Found(k)' /\ ~Straddles(i) =>
                 Get(k)' \in IF op.call = "update" /\ k = op.k THEN {op.old, Get(k)} ELSE {Get(k)}
<1> DEFINE i == FirstSlot(nvm[Route(k)], k)
<1>1. BaseInv /\ SettledInv /\ VGets /\ k # 0
  BY SettledHolds, VGetsHold, KeysNat DEF CrashInv, BaseInv, Recover
<1>2. VIndex' = VIndex /\ VKeys' = VKeys /\ nvm' = img
  BY RecoverIs
<1>3. VGets'
  <2>1. (TypeOK /\ MovedInv /\ ListInv => VGets)'
    BY VGetsHold, PTL
  <2> QED BY <2>1, RecoverStep DEF CrashInv, BaseInv
<1>4. ~Found(k)' => Get(k)' = 0
  BY <1>3 DEF VGets
<1>5. Found(k)' => Found(k)
  <2>1. SUFFICES ASSUME Found(k)' PROVE Found(k)
    OBVIOUS
  <2>2. PICK m \in VKeys, j \in Slots : img[VIndex[m]].key[j] = k
    BY <1>2, <1>3, <2>1 DEF VGets
  <2>3. nvm[VIndex[m]].key[j] = k
    BY <1>1, <2>2, RecoverKeys
  <2> QED BY <1>1, <2>3 DEF VGets
<1>6. ASSUME Found(k)
      PROVE  /\ op.call # "insert" \/ k # op.k => Found(k)'
             /\ Found(k)' /\ ~Straddles(i) =>
                  Get(k)' \in IF op.call = "update" /\ k = op.k THEN {op.old, Get(k)} ELSE {Get(k)}
  <2>1. PICK m \in VKeys : Route(k) = VIndex[m] /\ nvm[VIndex[m]] \in Block
    BY <1>1, OwnerOfKey
  <2>2. i \in Slots /\ nvm[VIndex[m]].key[i] = k /\ Get(k) = nvm[VIndex[m]].val[i]
    BY <1>6, <2>1, FirstSlotIs DEF Found, Get
  <2> DEFINE e == nvm[VIndex[m]]
             x == img[VIndex[m]]
  <2>3. PairLeft(op, x, e, i)
    BY <1>1, <2>2 DEF SettledInv
  <2>4. x.key[i] = k => Found(k)' /\ Get(k)' = x.val[i]
    BY <1>2, <1>3, <2>2 DEF VGets
  <2>5. Found(k)' => x.key[i] = k
    <3>1. SUFFICES ASSUME Found(k)' PROVE x.key[i] = k
      OBVIOUS
    <3>2. PICK n \in VKeys, j \in Slots : img[VIndex[n]].key[j] = k
      BY <1>2, <1>3, <3>1 DEF VGets
    <3>3. nvm[VIndex[n]].key[j] = k
      BY <1>1, <3>2, RecoverKeys
    <3>4. VOwns(n, k) /\ VOwns(m, k) /\ \A g \in Slots : nvm[VIndex[m]].key[g] = k => g = i
      BY <1>1, <2>2, <3>3 DEF BaseInv, ListInv
    <3>5. n = m
      BY <1>1, <3>4, VOwnerUnique, KeysNat DEF BaseInv
    <3>6. j = i
      BY <3>3, <3>4, <3>5
    <3> QED BY <3>2, <3>5, <3>6
  <2> HIDE DEF e, x, i
  <2>6. e.key[i] = k /\ Get(k) = e.val[i]
    BY <2>2 DEF e
  <2>7. op.call # "insert" \/ k # op.k => x.key[i] = k
    BY <2>3, <2>6 DEF PairLeft
  <2>8. x.key[i] = k /\ ~Straddles(i) => \/ x.val[i] = e.val[i]
                                         \/ op.call = "update" /\ k = op.k /\ x.val[i] = op.old
    BY <1>1, <2>3, <2>6 DEF PairLeft
  <2> QED BY <2>4, <2>5, <2>6, <2>7, <2>8
<1> QED BY <1>4, <1>5, <1>6

-----------------------------------------------------------------------------
(* The tree through power failures implements KvStore, but for the values   *)
(* of pairs in two lines.                                                  *)

\* What KvStore allows of a lookup after a restart.
LEMMA RecoverAllowed ==
  ASSUME CrashSafe, CrashInv, Recover, NEW k \in Keys, ~Straddles(FirstSlot(nvm[Route(k)], k)) \/ ~Found(k)
  PROVE  Get(k)' \in IF op.call \in CallNames /\ k = op.k THEN {op.old, op.v} ELSE {Get(k)}
<1>1. ArgInv /\ OffInv
  BY DEF CrashInv, BaseInv, Recover
<1>2. /\ ~Found(k)' => Get(k)' = 0
      /\ Found(k)' => Found(k)
      /\ Found(k) /\ (op.call # "insert" \/ k # op.k) => Found(k)'
      /\ Found(k)' => Get(k)' \in IF op.call = "update" /\ k = op.k THEN {op.old, Get(k)} ELSE {Get(k)}
  BY RecoverGets
<1>3. ~Found(k) => Get(k) = 0
  BY DEF Get
<1>4. CASE op.call \in CallNames /\ k = op.k
  <2>1. CASE op.call = "insert"
    BY <1>1, <1>2, <1>4, <2>1 DEF OffInv
  <2>2. CASE op.call = "update"
    BY <1>1, <1>2, <1>4, <2>2 DEF OffInv
  <2> QED BY <1>1, <1>4, <2>1, <2>2 DEF ArgInv, CallNames
<1>5. CASE ~(op.call \in CallNames /\ k = op.k)
  <2>1. (op.call # "insert" \/ k # op.k) /\ ~(op.call = "update" /\ k = op.k)
    BY <1>5 DEF CallNames
  <2> QED BY <1>2, <1>3, <1>5, <2>1
<1> QED BY <1>4, <1>5

\* A step of KvStore whose restarts spare all but the fragile keys.
ImplementsBut == [Kv!KvNextBut(Fragile)]_(Kv!kvVars)

LEMMA PowerImplements ==
  ASSUME CrashSafe, CrashInv, Crash \/ (\E a \in Addr : Settle(a)) \/ (pc = "off" /\ UNCHANGED vars)
  PROVE  Implements
<1>1. UNCHANGED <<nvm, index, first, op>>
  BY DEF Crash, Settle, vars
<1>2. UNCHANGED <<Dict, Req>>
  BY <1>1 DEF Dict, Req, Get, Found, Route, IndexKeys, OpKeys, OpVal
<1>3. CASE Crash
  <2>1. pc # "off" /\ pc' = "off"
    BY <1>3 DEF Crash, CrashSafe, QuietPcs
  <2>2. Kv!PowerFails
    BY <1>2, <2>1 DEF Kv!PowerFails, Dict, Req
  <2> QED BY <2>2 DEF Implements, Kv!KvNext
<1>4. CASE ~Crash
  <2>1. pc = "off" /\ pc' = "off"
    BY <1>4 DEF Settle, vars
  <2>2. UNCHANGED Kv!kvVars
    BY <1>2, <2>1 DEF Kv!kvVars, Dict, Req
  <2> QED BY <2>2 DEF Implements
<1> QED BY <1>3, <1>4

LEMMA RecoverImplements ==
  ASSUME CrashSafe, CrashInv, Recover
  PROVE  ImplementsBut
<1> DEFINE g == [j \in Keys |-> Get(j)]
           h == [j \in Keys |-> Get(j)']
<1>1. pc = "off" /\ pc' # "off" /\ op' = NoOp
  BY RecoverIs DEF Recover
<1>2. op.call \in CallNames \union {"none"}
  BY DEF CrashInv, BaseInv, ArgInv, CallNames
<1>3. Dict = g /\ (op.call \in CallNames => Req = One(op.k, op.old, op.v)) /\ (op.call = "none" => Req = Kv!NoReq)
  BY <1>2, CallIs DEF MapsTo
<1>4. Dict' = h /\ Req' = Kv!NoReq
  <2>1. MapsTo'
    BY CallIs, PTL
  <2>2. op'.call = "none"
    BY <1>1 DEF NoOp
  <2> QED BY <2>1, <2>2 DEF MapsTo, Kv!NoReq
<1>5. ASSUME NEW k \in Keys \ Fragile
      PROVE  Get(k)' \in IF op.call \in CallNames /\ k = op.k THEN {op.old, op.v} ELSE {Get(k)}
  <2>1. ~Straddles(FirstSlot(nvm[Route(k)], k)) \/ ~Found(k)
    BY DEF Fragile
  <2> QED BY <2>1, RecoverAllowed
<1>6. \A k \in Keys \ Fragile : h[k] \in IF op.call \in CallNames /\ k = op.k THEN {op.old, op.v} ELSE {g[k]}
  BY <1>5
<1> HIDE DEF g, h
<1>7. DOMAIN h = Keys
  BY DEF h
<1>8. DOMAIN Kv!NoReq = {}
  BY DEF Kv!NoReq
<1>9. \A k \in Keys \ Fragile : h[k] \in IF k \in DOMAIN Req THEN {Req[k].old, Req[k].new} ELSE {g[k]}
  <2>1. CASE op.call \in CallNames
    <3> DEFINE r == Req
    <3>1. DOMAIN r = {op.k} /\ r[op.k].old = op.old /\ r[op.k].new = op.v
      BY <1>3, <2>1 DEF One
    <3> HIDE DEF r
    <3>2. \A k \in Keys \ Fragile : h[k] \in IF k \in DOMAIN r THEN {r[k].old, r[k].new} ELSE {g[k]}
      BY <1>6, <2>1, <3>1
    <3> QED BY <3>2 DEF r
  <2>2. CASE op.call = "none"
    BY <1>3, <1>6, <1>8, <2>2 DEF CallNames
  <2> QED BY <1>2, <2>1, <2>2
<1>10. Kv!RestartBut(Fragile)
  BY <1>1, <1>3, <1>4, <1>7, <1>9 DEF Kv!RestartBut, Dict, Req
<1> QED BY <1>10 DEF ImplementsBut, Kv!KvNextBut

LEMMA RunImplements ==
  ASSUME CrashSafe, CrashInv, pc # "off", [Next]_vars
  PROVE  Implements
<1>1. Serving /\ Serving' /\ (Begins \/ Stores \/ Returns \/ Waits)
  BY StepEffect
<1>2. CASE Begins
  <2>1. op'.old = Get(op'.k)
    BY <1>2 DEF Begins, Get
  <2>2. Kv!Call
    BY <1>1, <1>2, <2>1, StepIsCall DEF Begins, CallNames
  <2> QED BY <2>2 DEF Implements, Kv!KvNext
<1>3. CASE Stores
  <2>1. Kv!Effect
    BY <1>1, <1>3, StepIsEffect DEF Stores, SameCall, CallNames
  <2> QED BY <2>1 DEF Implements, Kv!KvNext
<1>4. CASE Returns
  <2>1. op'.call = "none"
    BY <1>4 DEF Returns, NoOp
  <2>2. Kv!Return
    BY <1>1, <1>4, <2>1, StepIsReturn DEF Returns, CallNames
  <2> QED BY <2>2 DEF Implements, Kv!KvNext
<1>5. CASE Waits /\ op.call # "none"
  <2>1. UNCHANGED Kv!kvVars
    BY <1>1, <1>5, StepIsStutter DEF Waits, SameCall, CallNames
  <2> QED BY <2>1 DEF Implements
<1>6. CASE Waits /\ op.call = "none"
  <2> DEFINE g == [j \in Keys |-> Get(j)]
             h == [j \in Keys |-> Get(j)']
  <2>1. Req = Kv!NoReq /\ Dict = g
    BY <1>6, CallIs DEF MapsTo
  <2>2. Req' = Kv!NoReq /\ Dict' = h
    <3>1. MapsTo'
      BY CallIs, PTL
    <3> QED BY <1>6, <3>1 DEF MapsTo, Waits, SameCall, Kv!NoReq
  <2>3. h = g
    BY <1>6 DEF Waits, Keeps
  <2>4. pc # "off" /\ pc' # "off"
    BY <1>1 DEF Serving, SplitPcs
  <2> HIDE DEF g, h
  <2>5. UNCHANGED Kv!kvVars
    BY <2>1, <2>2, <2>3, <2>4 DEF Kv!kvVars, Req, Dict
  <2> QED BY <2>5 DEF Implements
<1> QED BY <1>1, <1>2, <1>3, <1>4, <1>5, <1>6

\* While the machine is up, or stays off, the fragile keys are like others.
LEMMA UpImplementsBut ==
  ASSUME CrashSafe, CrashInv, Implements, pc # "off" \/ pc' = "off"
  PROVE  ImplementsBut
<1>1. ~Kv!Restart
  BY DEF Kv!Restart
<1>2. CASE Kv!KvNext
  BY <1>1, <1>2 DEF Kv!KvNext, Kv!KvNextBut, ImplementsBut
<1>3. CASE UNCHANGED Kv!kvVars
  BY <1>3 DEF ImplementsBut
<1> QED BY <1>2, <1>3 DEF Implements

\* For every entry size, EPL-Tree through any number of power failures and
\* restarts: every call takes effect once, before it returns, an
\* interrupted call has happened or not, and a restart changes no value but
\* those of pairs that lie in two lines.
THEOREM CrashesImplementFragileKv ==
  ASSUME CrashSafe
  PROVE  FullSpec => ImplementsFragileKv
<1>1. Init => CrashInv
  BY InitCrash
<1>2. Init => Kv!KvInit
  BY InitImplements
<1>3. CrashInv /\ [FullNext]_vars => CrashInv'
  BY FullStep
<1>4. CrashInv /\ [FullNext]_vars => [Kv!KvNextBut(Fragile)]_(Kv!kvVars)
  <2> SUFFICES ASSUME CrashInv, [FullNext]_vars PROVE ImplementsBut
    BY DEF ImplementsBut
  <2>1. CASE Recover
    BY <2>1, RecoverImplements
  <2>2. CASE pc # "off" /\ [Next]_vars
    BY <2>2, RunImplements, UpImplementsBut
  <2>3. CASE Crash \/ (\E a \in Addr : Settle(a)) \/ (pc = "off" /\ UNCHANGED vars)
    <3>1. pc' = "off"
      BY <2>3 DEF Crash, Settle, vars
    <3> QED BY <2>3, <3>1, PowerImplements, UpImplementsBut
  <2> QED BY <2>1, <2>2, <2>3, StepsLeft
<1> QED BY <1>1, <1>2, <1>3, <1>4, PTL DEF FullSpec, ImplementsFragileKv

-----------------------------------------------------------------------------
(* For every entry size: the set of keys, and the values in their key's    *)
(* line.                                                                   *)

\* The variables of KvStore, for the set of keys.
KeyDict == [k \in Keys |-> IF op.call = "bulk" \/ ~Found(k) THEN 0 ELSE 1]
KeyReq == [k \in OpKeys |-> [old |-> IF op.call \in {"update", "remove"} THEN 1 ELSE 0,
                             new |-> IF op.call = "remove" THEN 0 ELSE 1]]
Keyset == [k \in Keys |-> IF Found(k) THEN 1 ELSE 0]

KeyMapsTo ==
  /\ op.call = "insert" => KeyReq = One(op.k, 0, 1) /\ KeyDict = Keyset
  /\ op.call = "update" => KeyReq = One(op.k, 1, 1) /\ KeyDict = Keyset
  /\ op.call = "none" => KeyReq = KvKeys!NoReq /\ KeyDict = Keyset

LEMMA KeyCallIs == KeyMapsTo
<1>1. op.call # "bulk" => KeyDict = Keyset
  BY DEF KeyDict, Keyset
<1>2. op.call \in {"insert", "update"} => OpKeys = {op.k}
  BY DEF OpKeys
<1>3. op.call = "none" => OpKeys = {}
  BY DEF OpKeys
<1>4. op.call = "insert" => KeyReq = One(op.k, 0, 1)
  BY <1>2 DEF KeyReq, One
<1>5. op.call = "update" => KeyReq = One(op.k, 1, 1)
  BY <1>2 DEF KeyReq, One
<1>6. op.call = "none" => KeyReq = KvKeys!NoReq
  BY <1>3 DEF KeyReq, KvKeys!NoReq
<1> QED BY <1>1, <1>4, <1>5, <1>6 DEF KeyMapsTo

KeysImplement == [KvKeys!KvNext]_(KvKeys!kvVars)

LEMMA OneIs ==
  \A k, o, v : /\ DOMAIN One(k, o, v) = {k} /\ One(k, o, v)[k].old = o /\ One(k, o, v)[k].new = v
               /\ One(k, o, v) # KvKeys!NoReq
<1> SUFFICES ASSUME NEW k, NEW o, NEW v
             PROVE  /\ DOMAIN One(k, o, v) = {k} /\ One(k, o, v)[k].old = o /\ One(k, o, v)[k].new = v
                    /\ DOMAIN One(k, o, v) # DOMAIN KvKeys!NoReq
  OBVIOUS
<1> QED BY DEF One, KvKeys!NoReq

\* The set of keys after a step.
LEMMA KeysetKeeps ==
  ASSUME \A k \in Keys : Found(k)' <=> Found(k)
  PROVE  Keyset' = Keyset
  BY DEF Keyset

LEMMA RunKeys ==
  ASSUME CrashSafe, CrashInv, pc # "off", [Next]_vars
  PROVE  KeysImplement
<1>1. Serving /\ Serving' /\ (Begins \/ Stores \/ Returns \/ Waits)
  BY StepEffect
<1>2. pc # "off" /\ pc' # "off"
  BY <1>1 DEF Serving, SplitPcs
<1>3. KeyMapsTo /\ KeyMapsTo'
  <2>1. KeyMapsTo'
    BY KeyCallIs, PTL
  <2> QED BY <2>1, KeyCallIs
<1>4. \A v \in Vals : v # 0
  BY ValsAssumption
<1>5. CASE Begins
  <2>1. KeyReq = KvKeys!NoReq /\ KeyDict = Keyset /\ KeyDict' = Keyset'
    BY <1>3, <1>5 DEF KeyMapsTo, Begins
  <2>2. Keyset' = Keyset
    <3>1. CASE Keeps
      BY <3>1, KeysetKeeps DEF Keeps
    <3>2. CASE Sets(op'.k, op'.v) /\ Found(op'.k)
      <4> DEFINE k == op'.k
                 v == op'.v
      <4>1. Sets(k, v) /\ Found(k) /\ k \in Keys /\ v # 0
        BY <1>4, <1>5, <3>2 DEF Begins
      <4> HIDE DEF k, v
      <4>2. \A j \in Keys : Found(j)' <=> Found(j)
        BY <4>1 DEF Sets
      <4> QED BY <4>2, KeysetKeeps
    <3> QED BY <1>5, <3>1, <3>2 DEF Begins
  <2> DEFINE k == op'.k
             o == Keyset[k]
  <2>3. KeyReq' = One(k, o, 1) /\ k \in Keys
    <3>1. CASE op'.call = "insert"
      BY <1>3, <1>5, <3>1 DEF KeyMapsTo, Begins, Keyset
    <3>2. CASE op'.call = "update"
      BY <1>3, <1>5, <3>2 DEF KeyMapsTo, Begins, Keyset
    <3> QED BY <1>5, <3>1, <3>2 DEF Begins
  <2> HIDE DEF k, o
  <2> DEFINE r == One(k, o, 1)
  <2>4. DOMAIN r = {k} /\ r[k].old = o /\ r # KvKeys!NoReq
    BY OneIs
  <2> HIDE DEF r
  <2>5. \A j \in DOMAIN r : r[j].old = Keyset[j]
    BY <2>4 DEF o
  <2>6. KvKeys!Call
    BY <1>2, <2>1, <2>2, <2>3, <2>4, <2>5 DEF KvKeys!Call, KeyReq, KeyDict, r
  <2> QED BY <2>6 DEF KeysImplement, KvKeys!KvNext
<1>6. CASE Stores
  <2> DEFINE k == op.k
             v == op.v
             r == One(k, 0, 1)
  <2>1. KeyReq = r /\ KeyReq' = r /\ KeyDict = Keyset /\ KeyDict' = Keyset'
    BY <1>3, <1>6 DEF KeyMapsTo, Stores, SameCall
  <2>2. Sets(k, v) /\ k \in Keys /\ v # 0
    BY <1>4, <1>6 DEF Stores
  <2>3. DOMAIN r = {k} /\ r[k].new = 1
    BY DEF One
  <2> HIDE DEF k, v, r
  <2>4. Keyset' = [j \in Keys |-> IF j \in DOMAIN r THEN r[j].new ELSE Keyset[j]]
    <3>1. \A j \in Keys : (IF Found(j)' THEN 1 ELSE 0)
                            = IF j \in DOMAIN r THEN r[j].new ELSE (IF Found(j) THEN 1 ELSE 0)
      BY <2>2, <2>3 DEF Sets
    <3> QED BY <3>1 DEF Keyset
  <2>5. KvKeys!Effect
    BY <1>2, <2>1, <2>4 DEF KvKeys!Effect, KvKeys!Applied, KeyReq, KeyDict
  <2> QED BY <2>5 DEF KeysImplement, KvKeys!KvNext
<1>7. CASE Returns
  <2> DEFINE k == op.k
             o == IF op.call = "insert" THEN 0 ELSE 1
             r == One(k, o, 1)
  <2>1. KeyReq = r /\ KeyReq' = KvKeys!NoReq /\ KeyDict = Keyset /\ KeyDict' = Keyset'
    <3>1. op'.call = "none"
      BY <1>7 DEF Returns, NoOp
    <3>2. KeyReq' = KvKeys!NoReq /\ KeyDict' = Keyset'
      BY <1>3, <3>1 DEF KeyMapsTo, KvKeys!NoReq
    <3> QED BY <1>3, <1>7, <3>2 DEF KeyMapsTo, Returns
  <2>2. k \in Keys /\ Found(k) /\ Keyset' = Keyset
    BY <1>7, KeysetKeeps DEF Returns, Keeps
  <2> HIDE DEF k, o
  <2>3. DOMAIN r = {k} /\ r[k].new = 1 /\ r # KvKeys!NoReq
    BY OneIs
  <2> HIDE DEF r
  <2>4. Keyset = [j \in Keys |-> IF j \in DOMAIN r THEN r[j].new ELSE Keyset[j]]
    <3>1. \A j \in Keys : (IF Found(j) THEN 1 ELSE 0)
                            = IF j \in DOMAIN r THEN r[j].new ELSE (IF Found(j) THEN 1 ELSE 0)
      BY <2>2, <2>3
    <3> QED BY <3>1 DEF Keyset
  <2>5. KvKeys!Return
    BY <1>2, <2>1, <2>2, <2>3, <2>4 DEF KvKeys!Return, KvKeys!Applied, KeyReq, KeyDict
  <2> QED BY <2>5 DEF KeysImplement, KvKeys!KvNext
<1>8. CASE Waits
  <2>1. KeyReq' = KeyReq /\ KeyDict = Keyset /\ KeyDict' = Keyset'
    <3>1. CASE op.call = "none"
      BY <1>3, <1>8, <3>1 DEF KeyMapsTo, Waits, SameCall, KvKeys!NoReq
    <3>2. CASE op.call # "none"
      BY <1>3, <1>8, <3>2 DEF KeyMapsTo, Waits, SameCall
    <3> QED BY <3>1, <3>2
  <2>2. Keyset' = Keyset
    BY <1>8, KeysetKeeps DEF Waits, Keeps
  <2>3. UNCHANGED KvKeys!kvVars
    BY <1>2, <2>1, <2>2 DEF KvKeys!kvVars, KeyReq, KeyDict
  <2> QED BY <2>3 DEF KeysImplement
<1> QED BY <1>1, <1>5, <1>6, <1>7, <1>8

LEMMA PowerKeys ==
  ASSUME CrashSafe, CrashInv, Crash \/ (\E a \in Addr : Settle(a)) \/ (pc = "off" /\ UNCHANGED vars)
  PROVE  KeysImplement
<1>1. UNCHANGED <<nvm, index, first, op>>
  BY DEF Crash, Settle, vars
<1>2. UNCHANGED <<KeyDict, KeyReq>>
  BY <1>1 DEF KeyDict, KeyReq, Found, Route, IndexKeys, OpKeys
<1>3. CASE Crash
  <2>1. pc # "off" /\ pc' = "off"
    BY <1>3 DEF Crash, CrashSafe, QuietPcs
  <2>2. KvKeys!PowerFails
    BY <1>2, <2>1 DEF KvKeys!PowerFails, KeyDict, KeyReq
  <2> QED BY <2>2 DEF KeysImplement, KvKeys!KvNext
<1>4. CASE ~Crash
  <2>1. pc = "off" /\ pc' = "off"
    BY <1>4 DEF Settle, vars
  <2>2. UNCHANGED KvKeys!kvVars
    BY <1>2, <2>1 DEF KvKeys!kvVars, KeyDict, KeyReq
  <2> QED BY <2>2 DEF KeysImplement
<1> QED BY <1>3, <1>4

LEMMA RecoverKeysRefine ==
  ASSUME CrashSafe, CrashInv, Recover
  PROVE  KeysImplement
<1>1. pc = "off" /\ pc' # "off" /\ op' = NoOp /\ op'.call = "none"
  BY RecoverIs DEF Recover, NoOp
<1>2. ArgInv /\ OffInv
  BY <1>1 DEF CrashInv, BaseInv
<1>3. KeyMapsTo /\ KeyMapsTo'
  <2>1. KeyMapsTo'
    BY KeyCallIs, PTL
  <2> QED BY <2>1, KeyCallIs
<1>4. KeyDict' = Keyset' /\ KeyReq' = KvKeys!NoReq
  BY <1>1, <1>3 DEF KeyMapsTo, KvKeys!NoReq
<1>5. \A k \in Keys : /\ Found(k)' => Found(k)
                      /\ Found(k) /\ (op.call # "insert" \/ k # op.k) => Found(k)'
  BY RecoverGets
<1> DEFINE D == Keyset
           E == Keyset'
           r == KeyReq
<1>6. /\ DOMAIN E = Keys
      /\ \A k \in Keys : E[k] = IF Found(k)' THEN 1 ELSE 0
      /\ \A k \in Keys : D[k] = IF Found(k) THEN 1 ELSE 0
      /\ KeyDict = D
  BY <1>2, <1>3 DEF Keyset, KeyMapsTo, ArgInv
<1>7. \A k \in Keys : E[k] \in IF k \in DOMAIN r THEN {r[k].old, r[k].new} ELSE {D[k]}
  <2>1. CASE op.call = "insert"
    <3>1. DOMAIN r = {op.k} /\ r[op.k].old = 0 /\ r[op.k].new = 1
      BY <1>3, <2>1 DEF KeyMapsTo, One
    <3> HIDE DEF r, D, E
    <3> QED BY <1>5, <1>6, <2>1, <3>1
  <2>2. CASE op.call = "update"
    <3>1. DOMAIN r = {op.k} /\ r[op.k].old = 1 /\ r[op.k].new = 1 /\ Found(op.k)
      BY <1>2, <1>3, <2>2 DEF KeyMapsTo, OffInv, One
    <3> HIDE DEF r, D, E
    <3> QED BY <1>5, <1>6, <2>2, <3>1
  <2>3. CASE op.call = "none"
    <3>1. DOMAIN r = {}
      BY <1>3, <2>3 DEF KeyMapsTo, KvKeys!NoReq
    <3> HIDE DEF r, D, E
    <3> QED BY <1>5, <1>6, <2>3, <3>1
  <2> QED BY <1>2, <2>1, <2>2, <2>3 DEF ArgInv
<1> HIDE DEF D, E
<1>8. KvKeys!Restart
  BY <1>1, <1>4, <1>6, <1>7 DEF KvKeys!Restart, KeyDict, KeyReq, E
<1> QED BY <1>8 DEF KeysImplement, KvKeys!KvNext

\* No acknowledged key is lost through any number of power failures and
\* restarts, for every entry size: the set of keys that Get finds changes
\* by the inserts of clients alone, and only an interrupted insert is in
\* doubt.
THEOREM CrashesKeepKeys ==
  ASSUME CrashSafe
  PROVE  FullSpec => KeysSurvive
<1>1. Init => CrashInv
  BY InitCrash
<1>2. Init => KvKeys!KvInit
  <2> SUFFICES ASSUME Init PROVE KvKeys!KvInit
    OBVIOUS
  <2>1. op.call = "none" /\ pc # "off"
    BY DEF Init, NoOp
  <2>2. KeyReq = KvKeys!NoReq /\ KeyDict = Keyset
    BY <2>1, KeyCallIs DEF KeyMapsTo
  <2>3. ASSUME NEW k \in Keys PROVE ~Found(k)
    <3>1. BaseInv /\ k # 0
      BY InitCrash, KeysNat DEF CrashInv
    <3>2. Route(k) \in Addr
      BY <3>1, OwnerOfKey
    <3> QED BY <3>1, <3>2 DEF Init, EmptyBlock, Found, HasKey
  <2>4. Keyset = [k \in Keys |-> 0]
    BY <2>3 DEF Keyset
  <2> QED BY <2>1, <2>2, <2>4 DEF KvKeys!KvInit, KeyReq, KeyDict
<1>3. CrashInv /\ [FullNext]_vars => CrashInv'
  BY FullStep
<1>4. CrashInv /\ [FullNext]_vars => [KvKeys!KvNext]_(KvKeys!kvVars)
  BY StepsLeft, RunKeys, PowerKeys, RecoverKeysRefine DEF KeysImplement
<1> QED BY <1>1, <1>2, <1>3, <1>4, PTL DEF FullSpec, KeysSurvive, KvKeys!KvSpec

\* Every restart leaves the value of every key whose pair lies in one line,
\* or, for the interrupted call's key, its old or its new value.
ValuesSurvive ==
  [][Recover => \A k \in Keys :
       Found(k) /\ ~Straddles(FirstSlot(nvm[Route(k)], k)) =>
         Get(k)' \in IF op.call # "none" /\ k = op.k THEN {op.old, op.v} ELSE {Get(k)}]_vars

\* For every entry size, a restart loses no value but one that lies in
\* another line than its key, where one clflush per call does not reach.
THEOREM CrashesKeepValues ==
  ASSUME CrashSafe
  PROVE  FullSpec => ValuesSurvive
<1> DEFINE A == Recover => \A k \in Keys :
                  Found(k) /\ ~Straddles(FirstSlot(nvm[Route(k)], k)) =>
                    Get(k)' \in IF op.call # "none" /\ k = op.k THEN {op.old, op.v} ELSE {Get(k)}
<1>1. Init => CrashInv
  BY InitCrash
<1>2. CrashInv /\ [FullNext]_vars => CrashInv'
  BY FullStep
<1>3. CrashInv => [A]_vars
  <2> SUFFICES ASSUME CrashInv, Recover, NEW k \in Keys, ~Straddles(FirstSlot(nvm[Route(k)], k))
               PROVE  Get(k)' \in IF op.call # "none" /\ k = op.k THEN {op.old, op.v} ELSE {Get(k)}
    OBVIOUS
  <2>1. op.call \in CallNames \union {"none"} /\ "none" \notin CallNames
    BY DEF CrashInv, BaseInv, ArgInv, CallNames
  <2> QED BY <2>1, RecoverAllowed
<1> HIDE DEF A
<1>4. FullSpec => [][A]_vars
  BY <1>1, <1>2, <1>3, PTL DEF FullSpec
<1> QED BY <1>4 DEF ValuesSurvive, A

-----------------------------------------------------------------------------
(* Lookups and the list, before and after restarts. *)

\* The index has the entries of VIndex, in the same order.
RealKey(m, h) == IF Moved /\ m = 0 THEN h ELSE m

LEMMA RealKeys ==
  ASSUME TypeOK, MovedInv, ListInv
  PROVE  /\ Indexed = {VIndex[m] : m \in VKeys}
         /\ \E h : /\ \A m \in VKeys : RealKey(m, h) \in IndexKeys /\ index[RealKey(m, h)] = VIndex[m]
                   /\ \A m \in VKeys : \A n \in IndexKeys : index[n] = VIndex[m] => n = RealKey(m, h)
                   /\ \A m, n \in VKeys : m < n => RealKey(m, h) < RealKey(n, h)
<1>1. /\ VIndex[0] = EntryHead /\ 0 \in VKeys /\ VKeys \in SUBSET Nat /\ first = EntryHead
      /\ EntryHead # Null /\ \A m \in Keys : m # 0 /\ m \in Nat
      /\ \A m, n \in VKeys : VIndex[m] = VIndex[n] => m = n
  BY VIndexIs, KeysNat DEF MovedInv, ListInv, EntryHead, Null
<1>2. CASE ~Moved
  <2>1. VIndex = index /\ VKeys = IndexKeys
    BY <1>2, VIndexIs DEF VKeys, IndexKeys
  <2>2. Indexed = {VIndex[m] : m \in VKeys}
    BY <1>1, <2>1 DEF Indexed
  <2>3. \A m : RealKey(m, 0) = m
    BY <1>2 DEF RealKey
  <2> QED BY <1>1, <2>1, <2>2, <2>3
<1>3. CASE Moved
  <2>1. PICK h \in Keys : /\ index[h] = EntryHead
                          /\ \A n \in Keys : index[n] = EntryHead => n = h
                          /\ \A n \in Keys : index[n] # Null => h <= n
    BY <1>3 DEF MovedInv
  <2>2. index[0] = Null /\ \A m \in Keys : VIndex[m] = IF index[m] = EntryHead THEN Null ELSE index[m]
    BY <1>3, VIndexIs DEF MovedInv
  <2>3. \A m \in VKeys : m # 0 => m \in Keys /\ m \in IndexKeys /\ index[m] = VIndex[m] /\ m # h
    BY <2>1, <2>2 DEF VKeys, IndexKeys
  <2>4. h \in IndexKeys /\ \A n \in IndexKeys : n \in Keys
    BY <1>1, <2>1, <2>2 DEF IndexKeys
  <2>5. \A n \in IndexKeys : n = h \/ (n \in VKeys /\ n # 0 /\ index[n] = VIndex[n])
    BY <1>1, <2>1, <2>2, <2>4 DEF VKeys, IndexKeys
  <2>6. Indexed = {VIndex[m] : m \in VKeys}
    <3>1. \A a \in Indexed : \E m \in VKeys : a = VIndex[m]
      BY <1>1, <2>1, <2>5 DEF Indexed
    <3>2. \A m \in VKeys : VIndex[m] \in Indexed
      BY <1>1, <2>3 DEF Indexed
    <3> QED BY <3>1, <3>2
  <2>7. RealKey(0, h) = h /\ \A m : m # 0 => RealKey(m, h) = m
    BY <1>3 DEF RealKey
  <2>8. \A m \in VKeys : RealKey(m, h) \in IndexKeys /\ index[RealKey(m, h)] = VIndex[m]
    BY <1>1, <2>1, <2>3, <2>4, <2>7
  <2>9. ASSUME NEW m \in VKeys, NEW n \in IndexKeys, index[n] = VIndex[m]
        PROVE  n = RealKey(m, h)
    <3>1. CASE n = h
      BY <1>1, <2>1, <2>7, <2>9, <3>1
    <3>2. CASE n # h
      BY <1>1, <2>5, <2>7, <2>9, <3>2
    <3> QED BY <3>1, <3>2
  <2>10. ASSUME NEW m \in VKeys, NEW n \in VKeys, m < n
         PROVE  RealKey(m, h) < RealKey(n, h)
    <3>1. n # 0 /\ m \in Nat /\ n \in Nat /\ h \in Nat
      BY <1>1, <2>10
    <3>2. h <= n /\ h # n
      BY <2>1, <2>3, <3>1 DEF VKeys
    <3> QED BY <2>7, <2>10, <3>1, <3>2
  <2> QED BY <2>6, <2>8, <2>9, <2>10
<1> QED BY <1>2, <1>3

LEMMA CrashRouted ==
  ASSUME BaseInv
  PROVE  Routed
<1>1. TypeOK /\ MovedInv /\ ListInv
  BY DEF BaseInv
<1> SUFFICES ASSUME NEW a \in Indexed, NEW i \in Slots, nvm[a].key[i] # 0
             PROVE  /\ Route(nvm[a].key[i]) = a
                    /\ \A j \in Slots : nvm[a].key[j] = nvm[a].key[i] => j = i
  BY DEF Routed
<1>2. PICK m \in VKeys : a = VIndex[m]
  BY <1>1, RealKeys
<1> DEFINE k == nvm[a].key[i]
<1>3. k \in Keys /\ VOwns(m, k) /\ \A j \in Slots : nvm[a].key[j] = k => j = i
  BY <1>1, <1>2 DEF ListInv
<1> HIDE DEF k
<1>4. PICK n \in VKeys : VOwns(n, k) /\ Route(k) = VIndex[n]
  BY <1>1, <1>3, VOwnerExists, KeysNat
<1>5. n = m
  BY <1>1, <1>3, <1>4, VOwnerUnique, KeysNat
<1> QED BY <1>2, <1>3, <1>4, <1>5 DEF k

LEMMA CrashListMatches ==
  ASSUME BaseInv
  PROVE  ListMatchesIndex
<1> DEFINE L == List(nvm)
           used == {n \in 0..MaxEntries : L[n] # Null}
           Key(a) == CHOOSE m \in IndexKeys : index[m] = a
<1>1. TypeOK /\ MovedInv /\ ListInv
  BY DEF BaseInv
<1>2. /\ L[MaxEntries] = Null
      /\ \A n \in used : \E m \in VKeys : L[n] = VIndex[m] /\ Rank(VKeys, m) = n
      /\ \A m \in VKeys : Rank(VKeys, m) \in used /\ L[Rank(VKeys, m)] = VIndex[m]
      /\ \A m \in VKeys : Rank(VKeys, m) \in Nat /\ m \in Nat
  BY <1>1, ListIs
<1>3. Indexed = {VIndex[m] : m \in VKeys}
  BY <1>1, RealKeys
<1>4. PICK h : /\ \A m \in VKeys : RealKey(m, h) \in IndexKeys /\ index[RealKey(m, h)] = VIndex[m]
               /\ \A m \in VKeys : \A n \in IndexKeys : index[n] = VIndex[m] => n = RealKey(m, h)
               /\ \A m, n \in VKeys : m < n => RealKey(m, h) < RealKey(n, h)
  BY <1>1, RealKeys
<1>5. VKeys \in SUBSET Nat /\ IsFiniteSet(VKeys)
  BY <1>1, VIndexIs, VKeysFit
<1> HIDE DEF L
<1>6. {L[n] : n \in used} = Indexed
  <2>1. \A n \in used : L[n] \in Indexed
    BY <1>2, <1>3
  <2>2. ASSUME NEW a \in Indexed PROVE \E n \in used : a = L[n]
    <3>1. PICK m \in VKeys : a = VIndex[m]
      BY <1>3
    <3>2. Rank(VKeys, m) \in used /\ L[Rank(VKeys, m)] = a
      BY <1>2, <3>1
    <3> HIDE DEF used
    <3> QED BY <3>2
  <2> HIDE DEF used
  <2> QED BY <2>1, <2>2
<1>7. ASSUME NEW m \in VKeys PROVE Key(VIndex[m]) = RealKey(m, h)
  <2>1. Key(VIndex[m]) \in IndexKeys /\ index[Key(VIndex[m])] = VIndex[m]
    BY <1>4
  <2> HIDE DEF Key
  <2> QED BY <1>4, <2>1
<1>8. ASSUME NEW n \in used, NEW m \in used, n < m
      PROVE  Key(L[n]) < Key(L[m])
  <2>1. PICK p \in VKeys : L[n] = VIndex[p] /\ Rank(VKeys, p) = n
    BY <1>2
  <2>2. PICK q \in VKeys : L[m] = VIndex[q] /\ Rank(VKeys, q) = m
    BY <1>2
  <2>3. ~(q < p) /\ q # p
    BY <1>2, <1>5, <1>8, <2>1, <2>2, RankGrows
  <2>4. p < q
    BY <1>2, <2>3
  <2>5. RealKey(p, h) < RealKey(q, h)
    BY <1>4, <2>4
  <2> HIDE DEF Key
  <2> QED BY <1>7, <2>1, <2>2, <2>5
<1> QED BY <1>2, <1>6, <1>8 DEF ListMatchesIndex, L

\* After restarts as before them, every key in an indexed entry is where
\* lookups for it go: keys below the head's min_key, which the rebuilt index
\* does not cover, fall back to the head.
THEOREM CrashesKeepRouted ==
  ASSUME CrashSafe
  PROVE  FullSpec => []Routed
<1>1. Init => CrashInv
  BY InitCrash
<1>2. CrashInv /\ [FullNext]_vars => CrashInv'
  BY FullStep
<1>3. CrashInv => Routed
  BY CrashRouted DEF CrashInv
<1> QED BY <1>1, <1>2, <1>3, PTL DEF FullSpec

\* Between calls, after restarts as before them, the list in NVM visits
\* exactly the indexed entries in the order of their index keys.
THEOREM CrashesKeepList ==
  ASSUME CrashSafe
  PROVE  FullSpec => []ListMatchesIndex
<1>1. Init => CrashInv
  BY InitCrash
<1>2. CrashInv /\ [FullNext]_vars => CrashInv'
  BY FullStep
<1>3. CrashInv => ListMatchesIndex
  BY CrashListMatches DEF CrashInv
<1> QED BY <1>1, <1>2, <1>3, PTL DEF FullSpec
=============================================================================
