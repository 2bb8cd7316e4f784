------------------------- MODULE ClhtAnswerProofs -------------------------
(***************************************************************************)
(* What the calls of CLHT do and answer.  CLHT implements the cache of     *)
(* module Cache: each step of Clht, from a state that satisfies Inv, is a  *)
(* call, the one effect of a call, a return or the loss of entries, or     *)
(* changes neither the contents of the current table nor a request.  And   *)
(* the answers fit a moment of the call: a get, and the search of a put or *)
(* remove before it takes a lock, read a chain slot by slot while other    *)
(* threads store to it, in a table that may be out of date.  What they     *)
(* have found so far is compared with the values that their key has had    *)
(* since the call began.                                                   *)
(***************************************************************************)
EXTENDS ClhtProofs, FiniteSetTheorems


(* What the steps do to the contents of the current table. *)

\* What the lookups in a bin that changes find before and after.
LEMMA BinLookup ==
  ASSUME Inv, NEW b \in Bins(ht), NEW d \in Seq(Slots), NEW l, NEW x, BinChange(b, d, l, x),
         ChainOK(d, b, tables[ht].n), NEW k \in Keys, ht' = ht
  PROVE  LET c == tables[ht].chain[b] IN
         /\ Hash(k, tables[ht].n) # b => Contents(k)' = Contents(k)
         /\ Hash(k, tables[ht].n) = b =>
              /\ \A v : HasPair(c, k, v) => Contents(k) = v
              /\ ~Has(c, k) => Contents(k) = 0
              /\ Has(c, k) => Contents(k) # 0 /\ HasPair(c, k, Contents(k))
              /\ \A v : HasPair(d, k, v) => Contents(k)' = v
              /\ ~Has(d, k) => Contents(k)' = 0
<1> DEFINE n == tables[ht].n
           c == tables[ht].chain[b]
<1>1. /\ n \in Nat \ {0} /\ ht \in DOMAIN tables /\ tables'[ht].n = n /\ tables'[ht].chain[b] = d
      /\ (\A a \in Bins(ht) : a # b => tables'[ht].chain[a] = tables[ht].chain[a])
      /\ k \in Nat \ {0} /\ c \in Seq(Slots) /\ ChainOK(c, b, n)
  <2>1. n \in Nat \ {0} /\ ht \in DOMAIN tables /\ build \in Builds
    BY TableOf DEF Inv, HtInv, Types
  <2> QED BY <2>1, BuildIs, ChainLength DEF BinChange
<1>2. Hash(k, n) \in Bins(ht)
  BY <1>1, HashIs DEF Bins
<1>3. Contents(k) = Lookup(tables[ht], k) /\ Contents(k)' = Lookup(tables'[ht], k)
  BY DEF Contents
<1>4. CASE Hash(k, n) # b
  <2>1. Chain(tables'[ht], k) = Chain(tables[ht], k)
    BY <1>1, <1>2, <1>4 DEF Chain
  <2> QED BY <2>1, <1>3, <1>4 DEF Lookup
<1>5. CASE Hash(k, n) = b
  <2>1. Chain(tables[ht], k) = c /\ Chain(tables'[ht], k) = d
    BY <1>1, <1>5 DEF Chain
  <2> DEFINE old == tables[ht]
             new == tables'[ht]
  <2> HIDE DEF n, old, new
  <2>2. /\ \A v : HasPair(Chain(old, k), k, v) => Lookup(old, k) = v
        /\ ~Has(Chain(old, k), k) => Lookup(old, k) = 0
        /\ Has(Chain(old, k), k) => Lookup(old, k) # 0 /\ HasPair(Chain(old, k), k, Lookup(old, k))
    BY <2>1, <1>1, LookupIs DEF old
  <2>3. /\ \A v : HasPair(Chain(new, k), k, v) => Lookup(new, k) = v
        /\ ~Has(Chain(new, k), k) => Lookup(new, k) = 0
    BY <2>1, <1>1, LookupIs DEF new, n
  <2> QED BY <2>1, <2>2, <2>3, <1>3, <1>5 DEF old, new, n
<1> QED BY <1>4, <1>5

\* The key of the call takes a value, and nothing else changes.
Sets(t, v) == \A j \in Keys : Contents(j)' = IF j = th[t].k THEN v ELSE Contents(j)
Keeps == \A j \in Keys : Contents(j)' = Contents(j)

LEMMA UpdateSets ==
  ASSUME Inv, NEW t \in Threads, Update(t), Has(MyChain(t), th[t].k)
  PROVE  Contents(th[t].k) # 0 /\ th[t].v # 0 /\ Sets(t, th[t].v)
<1> DEFINE c == MyChain(t)
           k == th[t].k
           b == MyBin(t)
           v == th[t].v
<1>1. th[t].pc = "locked" /\ th[t].op = "update" /\ ht' = ht
  BY DEF Update, At
<1>2. /\ b \in Bins(ht) /\ c = tables[ht].chain[b] /\ c \in Seq(Slots) /\ ChainOK(c, b, tables[ht].n)
      /\ k \in Keys /\ k \in Nat \ {0} /\ b = Hash(k, tables[ht].n)
  BY <1>1, HeldIs
<1>3. PICK d, i : /\ i \in DOMAIN c /\ c[i].key = k /\ StoresVal(c, d, i, v) /\ Ends(t, d, 1)
  BY UpdateIs
<1>4. d \in Seq(Slots) /\ ChainOK(d, b, tables[ht].n) /\ BinChange(b, d, "free", tables[ht].expands)
  BY <1>3 DEF Ends
<1>5. v # 0
  BY <1>1, StateIs DEF CallOK
<1> HIDE DEF c, k, b, v
<1>6. HasPair(d, k, v) /\ Has(c, k)
  BY <1>3 DEF StoresVal, HasPair, Has
<1>7. ASSUME NEW j \in Keys, j # k
      PROVE  \A w : HasPair(d, j, w) <=> HasPair(c, j, w)
  BY <1>3, <1>7 DEF StoresVal, HasPair
<1>8. ASSUME NEW j \in Keys, j # k
      PROVE  Contents(j)' = Contents(j)
  <2>1. CASE Has(c, j)
    BY <2>1, <1>1, <1>2, <1>4, <1>7, <1>8, BinLookup
  <2>2. CASE ~Has(c, j)
    <3>1. ~Has(d, j)
      BY <2>2, <1>3 DEF StoresVal
    <3> QED BY <2>2, <3>1, <1>1, <1>2, <1>4, BinLookup
  <2> QED BY <2>1, <2>2
<1>9. Contents(k) # 0 /\ \A j \in Keys : j = k => Contents(j)' = v
  BY <1>1, <1>2, <1>4, <1>6, BinLookup
<1> QED BY <1>5, <1>8, <1>9 DEF Sets, k, v

LEMMA RemoveSets ==
  ASSUME Inv, NEW t \in Threads, Remove(t), Has(MyChain(t), th[t].k)
  PROVE  Contents(th[t].k) # 0 /\ Sets(t, 0)
<1> DEFINE c == MyChain(t)
           k == th[t].k
           b == MyBin(t)
<1>1. th[t].pc = "locked" /\ ht' = ht
  BY DEF Remove, At
<1>2. /\ b \in Bins(ht) /\ c = tables[ht].chain[b] /\ c \in Seq(Slots) /\ ChainOK(c, b, tables[ht].n)
      /\ k \in Keys /\ k \in Nat \ {0} /\ b = Hash(k, tables[ht].n)
  BY <1>1, HeldIs
<1>3. PICK d, i : /\ i \in DOMAIN c /\ c[i].key = k /\ StoresKey(c, d, i, 0) /\ Ends(t, d, c[i].val)
  BY RemoveIs
<1>4. d \in Seq(Slots) /\ ChainOK(d, b, tables[ht].n) /\ BinChange(b, d, "free", tables[ht].expands)
  BY <1>3 DEF Ends
<1>5. Keys \subseteq Nat \ {0}
  BY ClhtAssumption
<1> HIDE DEF c, k, b
<1>6. ~Has(d, k) /\ Has(c, k)
  BY <1>2, <1>3 DEF StoresKey, ChainOK, Has
<1>7. ASSUME NEW j \in Keys, j # k
      PROVE  (\A w : HasPair(d, j, w) <=> HasPair(c, j, w)) /\ (Has(d, j) <=> Has(c, j))
  <2>1. j # 0
    BY <1>5
  <2> QED BY <1>3, <1>7, <2>1 DEF StoresKey, HasPair, Has
<1>8. ASSUME NEW j \in Keys, j # k
      PROVE  Contents(j)' = Contents(j)
  <2>1. CASE Has(c, j)
    BY <2>1, <1>1, <1>2, <1>4, <1>7, <1>8, BinLookup
  <2>2. CASE ~Has(c, j)
    BY <2>2, <1>1, <1>2, <1>4, <1>7, <1>8, BinLookup
  <2> QED BY <2>1, <2>2
<1>9. Contents(k) # 0 /\ \A j \in Keys : j = k => Contents(j)' = 0
  BY <1>1, <1>2, <1>4, <1>6, BinLookup
<1> QED BY <1>8, <1>9 DEF Sets, k

\* Put takes effect when the new bucket is linked, or the key stored.
LEMMA AddSets ==
  ASSUME Inv, NEW t \in Threads, th[t].pc \in {"locked", "put_key"}, ht' = ht,
         ~Has(MyChain(t), th[t].k), NEW d \in Seq(Slots), Adds(MyChain(t), d, th[t].k, th[t].v),
         th[t].v \in Nat \ {0}, NEW x, BinChange(MyBin(t), d, "free", x), ChainOK(d, MyBin(t), tables[ht].n)
  PROVE  Contents(th[t].k) = 0 /\ Sets(t, th[t].v)
<1> DEFINE c == MyChain(t)
           k == th[t].k
           b == MyBin(t)
           v == th[t].v
<1>1. /\ b \in Bins(ht) /\ c = tables[ht].chain[b] /\ c \in Seq(Slots) /\ ChainOK(c, b, tables[ht].n)
      /\ k \in Keys /\ k \in Nat \ {0} /\ b = Hash(k, tables[ht].n)
  BY HeldIs
<1>2. Keys \subseteq Nat \ {0}
  BY ClhtAssumption
<1>3. Adds(c, d, k, v) /\ v \in Nat \ {0} /\ ~Has(c, k) /\ ChainOK(d, b, tables[ht].n) /\ BinChange(b, d, "free", x)
  OBVIOUS
<1> HIDE DEF c, k, b, v
<1>4. \A j \in Nat \ {0} : \A w : HasPair(d, j, w) <=> HasPair(c, j, w) \/ (j = k /\ w = v)
  BY <1>1, <1>3, AddsKeeps
<1>5. HasPair(d, k, v)
  BY <1>1, <1>4
<1>6. \A e, j : Has(e, j) <=> \E w : HasPair(e, j, w)
  BY DEF Has, HasPair
<1>7. ASSUME NEW j \in Keys, j # k
      PROVE  Contents(j)' = Contents(j)
  <2>1. (\A w : HasPair(d, j, w) <=> HasPair(c, j, w)) /\ (Has(d, j) <=> Has(c, j))
    BY <1>2, <1>4, <1>6, <1>7
  <2>2. CASE Has(c, j)
    BY <2>1, <2>2, <1>1, <1>3, <1>7, BinLookup
  <2>3. CASE ~Has(c, j)
    BY <2>1, <2>3, <1>1, <1>3, <1>7, BinLookup
  <2> QED BY <2>2, <2>3
<1>8. Contents(k) = 0 /\ \A j \in Keys : j = k => Contents(j)' = v
  BY <1>1, <1>3, <1>5, BinLookup
<1> QED BY <1>7, <1>8 DEF Sets, k, v

\* A put that stores its value beside no key does not change the contents.
LEMMA ReserveKeeps ==
  ASSUME Inv, NEW t \in Threads, Put(t), Reserves(t)
  PROVE  Keeps
<1> DEFINE c == MyChain(t)
           b == MyBin(t)
<1>1. th[t].pc = "locked" /\ ht' = ht
  BY DEF Put, At
<1>2. b \in Bins(ht) /\ c = tables[ht].chain[b] /\ c \in Seq(Slots) /\ b = Hash(th[t].k, tables[ht].n)
  BY <1>1, HeldIs
<1>3. PICK d, i : /\ i \in DOMAIN c /\ c[i].key = 0 /\ StoresVal(c, d, i, th[t].v)
                  /\ BinChange(b, d, "update", tables[ht].expands) /\ ChainOK(d, b, tables[ht].n)
  BY ReserveIs
<1>4. Keys \subseteq Nat \ {0} /\ d \in Seq(Slots)
  BY <1>3, ClhtAssumption DEF StoresVal
<1> HIDE DEF c, b
<1>5. ASSUME NEW j \in Keys
      PROVE  Contents(j)' = Contents(j)
  <2>1. (\A w : HasPair(d, j, w) <=> HasPair(c, j, w)) /\ (Has(d, j) <=> Has(c, j))
    <3>1. j # 0
      BY <1>4
    <3> QED BY <1>3, <3>1 DEF StoresVal, HasPair
  <2>2. CASE Has(c, j)
    BY <2>1, <2>2, <1>1, <1>2, <1>3, <1>4, BinLookup
  <2>3. CASE ~Has(c, j)
    BY <2>1, <2>3, <1>1, <1>2, <1>3, <1>4, BinLookup
  <2> QED BY <2>2, <2>3
<1> QED BY <1>5 DEF Keeps

\* Entries only disappear.
Loses == \A j \in Keys : Contents(j)' = 0 \/ Contents(j)' = Contents(j)

LEMMA EvictLoses ==
  ASSUME Inv, NEW t \in Threads, EvictKeys(t)
  PROVE  Loses
<1> DEFINE b == th[t].bin
           c == tables[ht].chain[b]
<1>1. ht' = ht
  BY DEF EvictKeys
<1>2. b \in Bins(ht)
  BY EvictKeysIs
<1>3. PICK d : Clears(c, d) /\ ChainOK(d, b, tables[ht].n) /\ BinChange(b, d, "free", tables[ht].expands)
  BY EvictKeysIs
<1>4. Keys \subseteq Nat \ {0} /\ d \in Seq(Slots)
  BY <1>3, ClhtAssumption DEF Clears
<1> HIDE DEF b
<1>5. ASSUME NEW j \in Keys
      PROVE  Contents(j)' = 0 \/ Contents(j)' = Contents(j)
  <2>1. \A w : HasPair(d, j, w) => HasPair(c, j, w)
    <3>1. j # 0
      BY <1>4
    <3> QED BY <1>3, <3>1 DEF Clears, HasPair
  <2>2. Has(d, j) => \E w : HasPair(d, j, w)
    BY DEF Has, HasPair
  <2> HIDE DEF c
  <2>3. CASE Has(d, j)
    BY <2>1, <2>2, <2>3, <1>1, <1>2, <1>3, <1>4, BinLookup DEF c
  <2>4. CASE ~Has(d, j)
    BY <2>4, <1>1, <1>2, <1>3, <1>4, BinLookup
  <2> QED BY <2>3, <2>4
<1> QED BY <1>5 DEF Loses

\* Locks, and the links to newer tables, are not part of the contents.
LEMMA SameChains ==
  ASSUME ht' = ht, tables'[ht].chain = tables[ht].chain, tables'[ht].n = tables[ht].n
  PROVE  Keeps
  BY DEF Keeps, Contents, Lookup, Chain

LEMMA LockKeeps ==
  ASSUME Inv, NEW i \in DOMAIN tables, NEW b, NEW l, ht' = ht,
         \/ tables' = [tables EXCEPT ![i].lock[b] = l]
         \/ tables' = [tables EXCEPT ![i].new = l]
  PROVE  Keeps
<1>1. ht \in DOMAIN tables /\ tables[ht] \in TablesOf(tables[ht].n)
  BY TableOf DEF Inv, HtInv
<1>2. tables'[ht].chain = tables[ht].chain /\ tables'[ht].n = tables[ht].n
  <2>1. CASE tables' = [tables EXCEPT ![i].lock[b] = l]
    BY <1>1, <2>1 DEF TablesOf
  <2>2. CASE tables' = [tables EXCEPT ![i].new = l]
    BY <1>1, <2>2 DEF TablesOf
  <2> QED BY <2>1, <2>2
<1> QED BY <1>2, SameChains

LEMMA UnchangedKeeps ==
  ASSUME tables' = tables, ht' = ht
  PROVE  Keeps
  BY DEF Keeps, Contents, Lookup, Chain

LEMMA ResizeKeeps ==
  ASSUME Inv, NEW t \in Threads, ResizeTry(t) \/ CopyBin(t), UNCHANGED build
  PROVE  Keeps
<1>1. ht' = ht /\ ht \in DOMAIN tables /\ tables \in Seq(TabSet) /\ Len(tables) \in Nat /\ ht \in 1..Len(tables)
  BY StateIs DEF ResizeTry, CopyBin
<1>2. CASE ResizeTry(t)
  <2>1. CASE UNCHANGED tables
    BY <2>1, <1>1, UnchangedKeeps
  <2>2. ASSUME NEW tab, tables' = Append(tables, tab)
        PROVE  Keeps
    <3>1. tables'[ht] = tables[ht]
      BY <1>1, <2>2
    <3> QED BY <3>1, <1>1, SameChains
  <2> QED BY <1>2, <2>1, <2>2 DEF ResizeTry
<1>3. CASE CopyBin(t)
  <2>1. tables'[ht] = [tables[ht] EXCEPT !.lock[th[t].pos] = "resize"]
    BY <1>3, CopyBinIs
  <2>2. tables[ht] \in TablesOf(tables[ht].n)
    BY <1>1, TableOf
  <2>3. tables'[ht].chain = tables[ht].chain /\ tables'[ht].n = tables[ht].n
    BY <2>1, <2>2 DEF TablesOf
  <2> QED BY <2>3, <1>1, SameChains
<1> QED BY <1>2, <1>3

-----------------------------------------------------------------------------
(* What the steps do to the requests. *)

\* The call of a thread goes on, with effect or without it as before.
SameCall(t) ==
  /\ \A u \in Threads : u # t => th'[u] = th[u]
  /\ th[t].pc # "idle" /\ th'[t].pc # "idle"
  /\ th'[t].op = th[t].op /\ th'[t].k = th[t].k /\ th'[t].v = th[t].v
Continues(t) == SameCall(t) /\ th'[t].eff = th[t].eff

\* It takes effect.
Takes(t) == SameCall(t) /\ th'[t].eff = TRUE /\ ~th[t].eff

LEMMA RequestIs ==
  ASSUME Inv, NEW t \in Threads
  PROVE  /\ Continues(t) => \A u \in Threads : Request(u)' = Request(u)
         /\ Takes(t) => /\ \A u \in Threads : u # t => Request(u)' = Request(u)
                        /\ Request(t) = [op |-> th[t].op, key |-> th[t].k, val |-> th[t].v, done |-> FALSE]
                        /\ Request(t)' = [op |-> th[t].op, key |-> th[t].k, val |-> th[t].v, done |-> TRUE]
<1>1. th \in [Threads -> ThreadSet] /\ th[t].eff \in BOOLEAN
  BY DEF Inv, Types, ThreadSet
<1>2. ASSUME Continues(t), NEW u \in Threads
      PROVE  Request(u)' = Request(u)
  BY <1>1, <1>2 DEF Continues, SameCall, Request, At
<1>3. ASSUME Takes(t)
      PROVE  /\ \A u \in Threads : u # t => Request(u)' = Request(u)
             /\ Request(t) = [op |-> th[t].op, key |-> th[t].k, val |-> th[t].v, done |-> FALSE]
             /\ Request(t)' = [op |-> th[t].op, key |-> th[t].k, val |-> th[t].v, done |-> TRUE]
  BY <1>1, <1>3 DEF Takes, SameCall, Request, At
<1> QED BY <1>2, <1>3

\* Steps of the cache.
LEMMA StutterIs ==
  ASSUME Inv, NEW t \in Threads, Continues(t), Keeps
  PROVE  UNCHANGED C!cacheVars
<1>1. [u \in Threads |-> Request(u)]' = [u \in Threads |-> Request(u)]
  BY RequestIs
<1>2. CurrentMap' = CurrentMap
  BY DEF CurrentMap, Keeps
<1> QED BY <1>1, <1>2 DEF C!cacheVars

LEMMA ForgetIs ==
  ASSUME Inv, NEW t \in Threads, Continues(t), Loses
  PROVE  C!Forget
<1>1. [u \in Threads |-> Request(u)]' = [u \in Threads |-> Request(u)]
  BY RequestIs
<1> DEFINE lost == {j \in Keys : Contents(j)' = 0}
<1>2. CurrentMap' = [k \in Keys |-> IF k \in lost THEN 0 ELSE CurrentMap[k]]
  BY DEF CurrentMap, Loses
<1>3. lost \in SUBSET Keys
  OBVIOUS
<1> HIDE DEF lost
<1> QED BY <1>1, <1>2, <1>3 DEF C!Forget

LEMMA DoneIs ==
  ASSUME NEW a, NEW b, NEW c, NEW x, NEW y
  PROVE  [[op |-> a, key |-> b, val |-> c, done |-> x] EXCEPT !.done = y]
           = [op |-> a, key |-> b, val |-> c, done |-> y]
  OBVIOUS

LEMMA EffectIs ==
  ASSUME Inv, NEW t \in Threads, Takes(t), th[t].k \in Keys,
         \/ th[t].op = "put" /\ Contents(th[t].k) = 0 /\ Sets(t, th[t].v)
         \/ th[t].op = "update" /\ Contents(th[t].k) # 0 /\ Sets(t, th[t].v)
         \/ th[t].op = "remove" /\ Contents(th[t].k) # 0 /\ Sets(t, 0)
  PROVE  C!Effect(t)
<1> DEFINE req == [u \in Threads |-> Request(u)]
           k == th[t].k
<1>1. /\ \A u \in Threads : u # t => Request(u)' = Request(u)
      /\ Request(t) = [op |-> th[t].op, key |-> k, val |-> th[t].v, done |-> FALSE]
      /\ Request(t)' = [op |-> th[t].op, key |-> k, val |-> th[t].v, done |-> TRUE]
  BY RequestIs
<1>2. req' = [req EXCEPT ![t].done = TRUE]
  <2> DEFINE no == FALSE
             yes == TRUE
             old == [op |-> th[t].op, key |-> k, val |-> th[t].v, done |-> no]
             new == [op |-> th[t].op, key |-> k, val |-> th[t].v, done |-> yes]
  <2>1. req[t] = old /\ req' = [req EXCEPT ![t] = new]
    BY <1>1
  <2> HIDE DEF req, no, yes
  <2>2. new = [old EXCEPT !.done = yes]
    BY DoneIs
  <2> HIDE DEF old, new
  <2>3. req' = [req EXCEPT ![t].done = yes]
    BY <2>1, <2>2
  <2> QED BY <2>3 DEF yes
<1>3. req[t].op = th[t].op /\ req[t].key = k /\ req[t].val = th[t].v /\ ~req[t].done
  BY <1>1
<1>4. CurrentMap[k] = Contents(k)
  BY DEF CurrentMap
<1>5. \A v : Sets(t, v) => CurrentMap' = [CurrentMap EXCEPT ![k] = v]
  BY DEF Sets, CurrentMap
<1> HIDE DEF req
<1>6. \/ req[t].op = "put" /\ CurrentMap[req[t].key] = 0 /\ CurrentMap' = [CurrentMap EXCEPT ![req[t].key] = req[t].val]
      \/ req[t].op = "update" /\ CurrentMap[req[t].key] # 0 /\ CurrentMap' = [CurrentMap EXCEPT ![req[t].key] = req[t].val]
      \/ req[t].op = "remove" /\ CurrentMap[req[t].key] # 0 /\ CurrentMap' = [CurrentMap EXCEPT ![req[t].key] = 0]
  BY <1>3, <1>4, <1>5
<1> QED BY <1>2, <1>3, <1>6 DEF C!Effect, req

-----------------------------------------------------------------------------
(* The steps of Clht as steps of the cache. *)

\* Steps in a call that are neither its effect nor its end.
LEMMA MovesContinue ==
  ASSUME Inv, NEW t \in Threads,
         \/ GetVal(t) \/ GetKey(t) \/ GetAgain(t) \/ Exists(t) \/ LockAcq(t) \/ WaitForNew(t)
         \/ Status(t) \/ ResizeRead(t) \/ ResizeTry(t) \/ CopyBin(t) \/ Swap(t) \/ Publish(t)
         \/ EvictLock(t) \/ EvictKeys(t)
  PROVE  Continues(t)
<1>1. th[t] \in ThreadSet /\ th \in [Threads -> ThreadSet]
  BY DEF Inv, Types
<1>2. CASE GetVal(t)
  <2>1. CASE Become(t, [th[t] EXCEPT !.pc = "get_key", !.val = MyChain(t)[th[t].pos].val])
    BY <1>1, <1>2, <2>1 DEF GetVal, At, Become, Continues, SameCall, ThreadSet
  <2>2. CASE Become(t, Answer(t, 0))
    BY <1>1, <1>2, <2>2 DEF GetVal, At, Become, Answer, Continues, SameCall, ThreadSet
  <2> QED BY <1>2, <2>1, <2>2 DEF GetVal
<1>3. CASE GetKey(t)
  BY <1>1, <1>3 DEF GetKey, At, Become, Goto, Continues, SameCall, ThreadSet
<1>4. CASE GetAgain(t)
  BY <1>1, <1>4 DEF GetAgain, At, Become, Answer, Continues, SameCall, ThreadSet
<1>5. CASE Exists(t)
  <2>1. CASE Become(t, [th[t] EXCEPT !.pc = "lock"])
    BY <1>1, <1>5, <2>1 DEF Exists, At, Become, Continues, SameCall, ThreadSet
  <2>2. CASE Become(t, Answer(t, 0))
    BY <1>1, <1>5, <2>2 DEF Exists, At, Become, Answer, Continues, SameCall, ThreadSet
  <2>3. CASE Become(t, [th[t] EXCEPT !.pos = @ + 1])
    BY <1>1, <1>5, <2>3 DEF Exists, At, Become, Continues, SameCall, ThreadSet
  <2> QED BY <1>5, <2>1, <2>2, <2>3 DEF Exists
<1>6. CASE LockAcq(t)
  BY <1>1, <1>6 DEF LockAcq, At, Become, Goto, Continues, SameCall, ThreadSet
<1>7. CASE WaitForNew(t)
  BY <1>1, <1>7 DEF WaitForNew, At, Become, Continues, SameCall, ThreadSet
<1>8. CASE Status(t)
  <2>1. th[t].pc = "status"
    BY <1>8 DEF Status, At
  <2>2. ASSUME NEW by, Become(t, [th[t] EXCEPT !.pc = "resize", !.by = by])
        PROVE  Continues(t)
    BY <1>1, <2>1, <2>2 DEF Become, Continues, SameCall, ThreadSet
  <2>3. CASE Become(t, [th[t] EXCEPT !.pc = "evict", !.tbl = ht]) \/ Goto(t, "done")
    BY <1>1, <2>1, <2>3 DEF Become, Goto, Continues, SameCall, ThreadSet
  <2> QED BY <1>8, <2>2, <2>3 DEF Status
<1>9. CASE ResizeRead(t)
  BY <1>1, <1>9 DEF ResizeRead, At, Become, Continues, SameCall, ThreadSet
<1>10. CASE ResizeTry(t)
  BY <1>1, <1>10 DEF ResizeTry, At, Become, Goto, Continues, SameCall, ThreadSet
<1>11. CASE CopyBin(t)
  BY <1>1, <1>11 DEF CopyBin, At, Become, Continues, SameCall, ThreadSet
<1>12. CASE Swap(t)
  BY <1>1, <1>12 DEF Swap, At, Become, Continues, SameCall, ThreadSet
<1>13. CASE Publish(t)
  BY <1>1, <1>13 DEF Publish, At, Become, Goto, Continues, SameCall, ThreadSet
<1>14. CASE EvictLock(t)
  BY <1>1, <1>14 DEF EvictLock, At, Become, Goto, Continues, SameCall, ThreadSet
<1>15. CASE EvictKeys(t)
  BY <1>1, <1>15 DEF EvictKeys, At, Become, Goto, Continues, SameCall, ThreadSet
<1> QED BY <1>2, <1>3, <1>4, <1>5, <1>6, <1>7, <1>8, <1>9, <1>10, <1>11, <1>12, <1>13, <1>14, <1>15

LEMMA MovesKeep ==
  ASSUME Inv, NEW t \in Threads, UNCHANGED build,
         \/ GetVal(t) \/ GetKey(t) \/ GetAgain(t) \/ Exists(t) \/ LockAcq(t) \/ WaitForNew(t)
         \/ Status(t) \/ ResizeRead(t) \/ ResizeTry(t) \/ CopyBin(t) \/ Publish(t) \/ EvictLock(t)
  PROVE  Keeps
<1>1. CASE GetVal(t) \/ GetKey(t) \/ GetAgain(t) \/ Exists(t) \/ WaitForNew(t) \/ Status(t) \/ ResizeRead(t)
  BY <1>1, UnchangedKeeps DEF GetVal, GetKey, GetAgain, Exists, WaitForNew, Status, ResizeRead
<1>2. CASE LockAcq(t)
  <2>1. th[t].tbl \in DOMAIN tables /\ ht' = ht
    BY <1>2, MyChainIs DEF LockAcq, At
  <2> QED BY <1>2, <2>1, LockKeeps, UnchangedKeeps DEF LockAcq
<1>3. CASE ResizeTry(t) \/ CopyBin(t)
  BY <1>3, ResizeKeeps
<1>4. CASE Publish(t)
  <2>1. th[t].tbl \in DOMAIN tables /\ ht' = ht
    BY <1>4, MyChainIs DEF Publish, At
  <2> QED BY <1>4, <2>1, LockKeeps DEF Publish
<1>5. CASE EvictLock(t)
  <2>1. th[t].tbl \in DOMAIN tables /\ ht' = ht
    BY <1>5, MyChainIs DEF EvictLock, At
  <2> QED BY <1>5, <2>1, LockKeeps, UnchangedKeeps DEF EvictLock
<1> QED BY <1>1, <1>2, <1>3, <1>4, <1>5

\* An update, remove or put that fails under the lock.
LEMMA ReleaseKeeps ==
  ASSUME Inv, NEW t \in Threads, th[t].pc = "locked", Release(t), Become(t, Answer(t, 0)), ht' = ht
  PROVE  Continues(t) /\ Keeps
<1>1. th[t] \in ThreadSet /\ th[t].tbl \in DOMAIN tables /\ th \in [Threads -> ThreadSet]
  BY StateIs, MyChainIs DEF Inv, Types
<1>2. Continues(t)
  BY <1>1 DEF Become, Answer, Continues, SameCall, ThreadSet
<1>3. Keeps
  BY <1>1, LockKeeps DEF Release
<1> QED BY <1>2, <1>3

\* One that succeeds.
LEMMA EndsTake ==
  ASSUME Inv, NEW t \in Threads, th[t].pc \in {"locked", "put_key"}, NEW d, NEW res, Ends(t, d, res)
  PROVE  Takes(t) /\ th[t].k \in Keys
<1>1. th[t] \in ThreadSet /\ ~th[t].eff /\ th[t].k \in Keys /\ th \in [Threads -> ThreadSet]
  BY StateIs DEF CallOK, Before, Inv, Types
<1> QED BY <1>1 DEF Ends, Takes, SameCall, ThreadSet

LEMMA UpdateImplements ==
  ASSUME Inv, NEW t \in Threads, Update(t)
  PROVE  C!Effect(t) \/ UNCHANGED C!cacheVars
<1>1. th[t].pc = "locked" /\ th[t].op = "update" /\ ht' = ht
  BY DEF Update, At
<1>2. CASE Has(MyChain(t), th[t].k)
  <2>1. \E d : Ends(t, d, 1)
    BY <1>2, UpdateIs
  <2>2. Takes(t) /\ th[t].k \in Keys
    BY <1>1, <2>1, EndsTake
  <2> QED BY <1>1, <1>2, <2>2, UpdateSets, EffectIs
<1>3. CASE ~Has(MyChain(t), th[t].k)
  <2>1. Release(t) /\ Become(t, Answer(t, 0))
    BY <1>3 DEF Update
  <2> QED BY <1>1, <2>1, ReleaseKeeps, StutterIs
<1> QED BY <1>2, <1>3

LEMMA RemoveImplements ==
  ASSUME Inv, NEW t \in Threads, Remove(t)
  PROVE  C!Effect(t) \/ UNCHANGED C!cacheVars
<1>1. th[t].pc = "locked" /\ th[t].op = "remove" /\ ht' = ht
  BY DEF Remove, At
<1>2. CASE Has(MyChain(t), th[t].k)
  <2>1. \E d, res : Ends(t, d, res)
    BY <1>2, RemoveIs
  <2>2. Takes(t) /\ th[t].k \in Keys
    BY <1>1, <2>1, EndsTake
  <2> QED BY <1>1, <1>2, <2>2, RemoveSets, EffectIs
<1>3. CASE ~Has(MyChain(t), th[t].k)
  <2>1. Release(t) /\ Become(t, Answer(t, 0))
    BY <1>3 DEF Remove
  <2> QED BY <1>1, <2>1, ReleaseKeeps, StutterIs
<1> QED BY <1>2, <1>3

LEMMA PutKeyImplements ==
  ASSUME Inv, NEW t \in Threads, PutKey(t)
  PROVE  C!Effect(t)
<1>1. th[t].pc = "put_key" /\ ht' = ht /\ th[t].op = "put" /\ th[t].v \in Nat
  BY StateIs DEF PutKey, At, CallOK, ThreadSet
<1>2. PICK d : Adds(MyChain(t), d, th[t].k, th[t].v) /\ Ends(t, d, 1)
  BY PutKeyIs
<1>3. ~Has(MyChain(t), th[t].k) /\ th[t].v # 0
  BY PutKeyIs
<1>4. Takes(t) /\ th[t].k \in Keys
  BY <1>1, <1>2, EndsTake
<1>5. Contents(th[t].k) = 0 /\ Sets(t, th[t].v)
  BY <1>1, <1>2, <1>3, AddSets DEF Ends
<1> QED BY <1>1, <1>4, <1>5, EffectIs

LEMMA PutImplements ==
  ASSUME Inv, NEW t \in Threads, Put(t)
  PROVE  C!Effect(t) \/ UNCHANGED C!cacheVars
<1>1. th[t].pc = "locked" /\ ht' = ht /\ th[t].op = "put" /\ th[t] \in ThreadSet /\ CallOK(th[t])
      /\ th \in [Threads -> ThreadSet]
  BY StateIs DEF Put, At, Inv, Types
<1>2. CASE Has(MyChain(t), th[t].k)
  <2>1. Release(t) /\ Become(t, Answer(t, 0))
    BY <1>2 DEF Put
  <2> QED BY <1>1, <2>1, ReleaseKeeps, StutterIs
<1>3. CASE Reserves(t)
  <2>1. PICK i : th' = [th EXCEPT ![t] = [th[t] EXCEPT !.pc = "put_key", !.pos = i]]
    BY <1>3, ReserveIs
  <2>2. Continues(t)
    BY <1>1, <2>1 DEF Continues, SameCall, ThreadSet
  <2> QED BY <1>3, <2>2, ReserveKeeps, StutterIs
<1>4. CASE Extends(t)
  <2>1. PICK d, pc :
          /\ Adds(MyChain(t), d, th[t].k, th[t].v) /\ ChainOK(d, MyBin(t), tables[ht].n) /\ d \in Seq(Slots)
          /\ BinChange(MyBin(t), d, "free", tables[ht].expands + 1) /\ pc \in {"status", "done"}
          /\ th' = [th EXCEPT ![t] = [th[t] EXCEPT !.pc = pc, !.res = 1, !.eff = TRUE]]
    BY <1>4, ExtendIs
  <2>2. Takes(t) /\ th[t].k \in Keys /\ th[t].v \in Nat \ {0}
    BY <1>1, <2>1 DEF Takes, SameCall, ThreadSet, CallOK, Before
  <2> DEFINE x == tables[ht].expands + 1
  <2>3. BinChange(MyBin(t), d, "free", x)
    BY <2>1
  <2> HIDE DEF x
  <2>4. Contents(th[t].k) = 0 /\ Sets(t, th[t].v)
    BY <1>1, <1>4, <2>1, <2>2, <2>3, AddSets DEF Extends
  <2> QED BY <1>1, <2>2, <2>4, EffectIs
<1> QED BY <1>2, <1>3, <1>4 DEF Reserves, Extends

LEMMA CallImplements ==
  ASSUME Inv, NEW t \in Threads, NEW op, NEW k, Call(t, op, k)
  PROVE  C!Call(t)
<1> DEFINE req == [u \in Threads |-> Request(u)]
<1>1. th \in [Threads -> ThreadSet] /\ th[t].pc = "idle" /\ tables' = tables /\ ht' = ht
  BY DEF Inv, Types, Call, At
<1>2. /\ \A u \in Threads : u # t => th'[u] = th[u]
      /\ th'[t].pc # "idle" /\ th'[t].eff = FALSE
  BY <1>1 DEF Call, Become, Idle
<1>3. req[t] = C!NoCall
  BY <1>1 DEF Request, At, C!NoCall
<1>4. req'[t].done = FALSE
  BY <1>1, <1>2 DEF Request, At
<1>5. \A u \in Threads : u # t => Request(u)' = Request(u)
  BY <1>1, <1>2 DEF Request, At
<1>6. req' = [req EXCEPT ![t] = req'[t]]
  BY <1>5
<1>7. CurrentMap' = CurrentMap
  BY <1>1 DEF CurrentMap, Contents
<1> HIDE DEF req
<1> QED BY <1>3, <1>4, <1>6, <1>7 DEF C!Call, req

LEMMA ReturnImplements ==
  ASSUME Inv, NEW t \in Threads, Return(t)
  PROVE  C!Return(t)
<1> DEFINE req == [u \in Threads |-> Request(u)]
<1>1. th \in [Threads -> ThreadSet] /\ tables' = tables /\ ht' = ht /\ th' = [th EXCEPT ![t] = Idle]
  BY DEF Inv, Types, Return, Become
<1>2. \A u \in Threads : Request(u)' = IF u = t THEN C!NoCall ELSE Request(u)
  BY <1>1 DEF Request, At, C!NoCall, Idle
<1>3. req' = [req EXCEPT ![t] = C!NoCall]
  BY <1>2
<1>4. CurrentMap' = CurrentMap
  BY <1>1 DEF CurrentMap, Contents
<1> HIDE DEF req
<1> QED BY <1>3, <1>4 DEF C!Return, req

LEMMA SwapImplements ==
  ASSUME Inv, NEW t \in Threads, Swap(t)
  PROVE  C!Forget
  BY SwapIs, MovesContinue, ForgetIs DEF Loses

LEMMA StepImplements ==
  ASSUME Inv, [Next]_vars
  PROVE  [C!CacheNext]_(C!cacheVars)
<1>1. CASE UNCHANGED vars
  <2>1. /\ CurrentMap' = CurrentMap
        /\ [u \in Threads |-> Request(u)]' = [u \in Threads |-> Request(u)]
    BY <1>1 DEF vars, CurrentMap, Contents, Request, At
  <2> QED BY <2>1 DEF C!cacheVars
<1>2. ASSUME NEW t \in Threads, Step(t), UNCHANGED build
      PROVE  [C!CacheNext]_(C!cacheVars)
  <2>1. CASE \/ GetVal(t) \/ GetKey(t) \/ GetAgain(t) \/ Exists(t) \/ LockAcq(t) \/ WaitForNew(t)
             \/ Status(t) \/ ResizeRead(t) \/ ResizeTry(t) \/ CopyBin(t) \/ Publish(t) \/ EvictLock(t)
    BY <1>2, <2>1, MovesContinue, MovesKeep, StutterIs
  <2>2. CASE Swap(t)
    BY <2>2, SwapImplements DEF C!CacheNext
  <2>3. CASE EvictKeys(t)
    BY <2>3, MovesContinue, EvictLoses, ForgetIs DEF C!CacheNext
  <2>4. CASE Update(t)
    BY <2>4, UpdateImplements DEF C!CacheNext
  <2>5. CASE Remove(t)
    BY <2>5, RemoveImplements DEF C!CacheNext
  <2>6. CASE Put(t)
    BY <2>6, PutImplements DEF C!CacheNext
  <2>7. CASE PutKey(t)
    BY <2>7, PutKeyImplements DEF C!CacheNext
  <2>8. CASE Return(t)
    BY <2>8, ReturnImplements DEF C!CacheNext
  <2> QED BY <1>2, <2>1, <2>2, <2>3, <2>4, <2>5, <2>6, <2>7, <2>8 DEF Step
<1>3. ASSUME NEW t \in Threads, NEW op, NEW k, Call(t, op, k)
      PROVE  [C!CacheNext]_(C!cacheVars)
  BY <1>3, CallImplements DEF C!CacheNext
<1> QED BY <1>1, <1>2, <1>3 DEF Next

LEMMA InitImplements == Init => C!CacheInit
<1> SUFFICES ASSUME Init PROVE C!CacheInit
  OBVIOUS
<1>1. \A t \in Threads : Request(t) = C!NoCall
  BY DEF Init, Request, At, Idle, C!NoCall
<1> QED BY <1>1 DEF C!CacheInit, CurrentMap

\* CLHT implements the cache: whatever gets, puts, updates, removes, resizes
\* and eliminations run at the same time, put, update and remove take effect
\* at one moment and at most once, and otherwise entries only disappear.
THEOREM ClhtImplementsCache == ASSUME SmallIsNotSparse PROVE Spec => ImplementsCache
<1>1. Inv /\ [Next]_vars => [C!CacheNext]_(C!cacheVars)
  BY StepImplements
<1> QED BY <1>1, InitImplements, InvHolds, PTL DEF Spec, ImplementsCache, C!CacheSpec

-----------------------------------------------------------------------------
(* What a step does to the chains that others read. *)

\* A chain changes: the values stored are in W, and a key appears in a slot
\* only if it was nowhere in the chain.
Edit(c, d, W) ==
  /\ d \in Seq(Slots) /\ DOMAIN c \subseteq DOMAIN d
  /\ \A p \in DOMAIN c : /\ d[p].val = c[p].val \/ d[p].val \in W
                         /\ d[p].key \in {c[p].key, 0} \/ ~Has(c, d[p].key)
  /\ \A p \in DOMAIN d \ DOMAIN c : /\ d[p].val \in W \cup {0}
                                    /\ d[p].key = 0 \/ ~Has(c, d[p].key)

LEMMA EditForms ==
  ASSUME NEW c \in Seq(Slots), NEW d \in Seq(Slots), NEW W
  PROVE  /\ Edit(c, c, W)
         /\ Clears(c, d) => Edit(c, d, W)
         /\ \A i, k : StoresKey(c, d, i, k) /\ i \in DOMAIN c /\ (k = 0 \/ ~Has(c, k)) => Edit(c, d, W)
         /\ \A i, v : StoresVal(c, d, i, v) /\ v \in W => Edit(c, d, W)
         /\ \A k, v : Adds(c, d, k, v) /\ ~Has(c, k) /\ v \in W => Edit(c, d, W)
<1>1. Edit(c, c, W)
  BY DEF Edit
<1>2. ASSUME Clears(c, d)
      PROVE  Edit(c, d, W)
  BY <1>2 DEF Clears, Edit
<1>3. ASSUME NEW i, NEW k, StoresKey(c, d, i, k), i \in DOMAIN c, k = 0 \/ ~Has(c, k)
      PROVE  Edit(c, d, W)
  BY <1>3 DEF StoresKey, Edit
<1>4. ASSUME NEW i, NEW v, StoresVal(c, d, i, v), v \in W
      PROVE  Edit(c, d, W)
  BY <1>4 DEF StoresVal, Edit
<1>5. ASSUME NEW k, NEW v, Adds(c, d, k, v), ~Has(c, k), v \in W
      PROVE  Edit(c, d, W)
  BY <1>5 DEF Adds, Edit
<1> QED BY <1>1, <1>2, <1>3, <1>4, <1>5

-----------------------------------------------------------------------------
(* What a call knows of its key. *)

Two(S) == \E a, b \in S : a # b

\* The reads of a thread in state r from chain c, S being the values that its
\* key has had: what the chain says of the key now is in S; the slots passed
\* do not have the key; and the value read before the key is worth as much as
\* the one beside it.
ReadOK(r, S, c) ==
  /\ r.pc \in Reading \cup Before =>
       (\A p \in DOMAIN c : c[p].key = r.k => c[p].val \in S) /\ (~Has(c, r.k) => 0 \in S)
  /\ r.pc \in Reading \cup {"exists"} =>
       r.pos >= 1 /\ (0 \in S \/ \A j \in DOMAIN c : j < r.pos => c[j].key # r.k)
  /\ r.pc \in {"get_key", "get_again"} => r.pos \in DOMAIN c
  /\ r.pc = "get_key" => (c[r.pos].key = r.k => 0 \in S \/ r.val \in S)
  /\ r.pc = "get_again" =>
       /\ c[r.pos].val = r.val => r.val \in S
       /\ 0 \in S \/ Two(S) \/ (c[r.pos].key = r.k /\ c[r.pos].val = r.val)

\* The answer fits.
Fits(r, S) ==
  r.pc \in After \cup {"done"} =>
    /\ r.op = "get" => IF r.res = 0 THEN 0 \in S \/ Two(S) ELSE r.res \in S
    /\ r.op = "put" /\ r.res = 0 => \E a \in S : a # 0
    /\ r.op = "remove" => r.res \in S
    /\ r.op = "update" /\ r.res = 0 => 0 \in S

\* The stores of others do not mislead a reader, unless they store a value
\* again that it has read.
LEMMA ReadStable ==
  ASSUME NEW r, NEW S, NEW c \in Seq(Slots), NEW b, NEW n, ChainOK(c, b, n), ReadOK(r, S, c),
         NEW W, NEW d, Edit(c, d, W), r.val \notin W, NEW T, S \subseteq T, r.k \in Nat \ {0},
         r.pc \in Reading \cup Before =>
           (\A p \in DOMAIN d : d[p].key = r.k => d[p].val \in T) /\ (~Has(d, r.k) => 0 \in T)
  PROVE  ReadOK(r, T, d)
<1> DEFINE k == r.k
           p == r.pos
<1>1. ASSUME NEW q \in DOMAIN d, d[q].key = k, r.pc \in Reading \cup Before
      PROVE  (q \in DOMAIN c /\ c[q].key = k) \/ 0 \in T
  BY <1>1 DEF Edit, ReadOK
<1>2. r.pc \in Reading \cup {"exists"} =>
        r.pos >= 1 /\ (0 \in T \/ \A j \in DOMAIN d : j < r.pos => d[j].key # r.k)
  BY <1>1 DEF ReadOK, Before
<1>3. r.pc \in {"get_key", "get_again"} => r.pos \in DOMAIN c /\ r.pos \in DOMAIN d
  BY DEF ReadOK, Edit
<1>4. r.pc = "get_key" => (d[r.pos].key = r.k => 0 \in T \/ r.val \in T)
  BY <1>1, <1>3 DEF ReadOK, Reading
<1>5. ASSUME r.pc = "get_again"
      PROVE  /\ d[r.pos].val = r.val => r.val \in T
             /\ 0 \in T \/ Two(T) \/ (d[r.pos].key = r.k /\ d[r.pos].val = r.val)
  <2>1. r.pc \in Reading \cup Before /\ p \in DOMAIN c /\ p \in DOMAIN d
    BY <1>3, <1>5 DEF Reading
  <2>2. d[p].val = r.val => r.val \in T
    BY <1>5, <2>1 DEF ReadOK, Edit
  <2>3. Two(S) => Two(T)
    BY DEF Two
  <2>4. ASSUME c[p].key = k, c[p].val = r.val, 0 \notin T, d[p].key # k
        PROVE  FALSE
    <3>1. ~Has(d, k)
      BY <2>1, <2>4, <1>1 DEF Has, ChainOK
    <3> QED BY <3>1, <2>1, <2>4
  <2>5. ASSUME c[p].key = k, c[p].val = r.val, d[p].key = k, d[p].val # r.val
        PROVE  Two(T)
    <3>1. r.val \in T /\ d[p].val \in T
      BY <2>1, <2>5 DEF ReadOK
    <3> QED BY <3>1, <2>5 DEF Two
  <2> QED BY <1>5, <2>2, <2>3, <2>4, <2>5 DEF ReadOK
<1> QED BY <1>2, <1>3, <1>4, <1>5 DEF ReadOK

-----------------------------------------------------------------------------
(* Values in tables. *)

ValsIn(tab, V) == \A b \in 0..(tab.n - 1) : \A p \in DOMAIN tab.chain[b] : tab.chain[b][p].val \in V

LEMMA PutSlotVals ==
  ASSUME E \in Nat \ {0}, NEW n \in Nat \ {0}, NEW tab \in TablesOf(n), NEW s \in Slots, NEW V, 0 \in V,
         s.key # 0 => s.val \in V, ValsIn(tab, V)
  PROVE  PutSlot(tab, s) \in TablesOf(n) /\ ValsIn(PutSlot(tab, s), V)
<1>1. CASE s.key = 0
  BY <1>1 DEF PutSlot
<1>2. CASE s.key # 0
  <2> DEFINE k == s.key
             v == s.val
             b == Hash(k, tab.n)
             c == tab.chain[b]
             new == PutSeq(tab, k, v)
  <2>1. tab.n = n /\ k \in Nat /\ v \in Nat /\ v \in V /\ tab.expands \in Nat
    BY <1>2 DEF Slots, TablesOf
  <2>2. b \in 0..(n - 1) /\ c \in Seq(Slots)
    BY <2>1, HashIs DEF TablesOf
  <2> HIDE DEF k, v
  <2>3. PICK d, x : Adds(c, d, k, v) /\ x \in Nat /\ new = [tab EXCEPT !.chain[b] = d, !.expands = x]
    <3>1. CASE Has(c, 0)
      <4> DEFINE d == [c EXCEPT ![First(c, 0)] = [key |-> k, val |-> v]]
      <4>1. First(c, 0) \in DOMAIN c /\ c[First(c, 0)].key = 0
        BY <2>2, <3>1, FirstIs
      <4>2. Adds(c, d, k, v)
        BY <2>1, <2>2, <4>1, FillIs
      <4>3. new = [tab EXCEPT !.chain[b] = d, !.expands = tab.expands]
        BY <3>1, <2>1 DEF PutSeq, TablesOf
      <4> HIDE DEF d, new, b, c
      <4> QED BY <4>2, <4>3, <2>1
    <3>2. CASE ~Has(c, 0)
      <4> DEFINE d == WithBucket(c, k, v)
      <4>1. Adds(c, d, k, v)
        BY <2>1, <2>2, WithBucketIs
      <4>2. new = [tab EXCEPT !.chain[b] = d, !.expands = tab.expands + 1]
        BY <3>2 DEF PutSeq
      <4>3. tab.expands + 1 \in Nat
        BY <2>1
      <4> HIDE DEF d, new, b, c
      <4> QED BY <4>1, <4>2, <4>3
    <3> QED BY <3>1, <3>2
  <2>4. PutSlot(tab, s) = new
    BY <1>2 DEF PutSlot, k, v
  <2> HIDE DEF new, b
  <2>5. \A p \in DOMAIN c : c[p].val \in V
    BY <2>1, <2>2 DEF ValsIn
  <2> HIDE DEF c
  <2>6. d \in Seq(Slots) /\ \A p \in DOMAIN d : d[p].val \in V
    BY <2>1, <2>3, <2>5 DEF Adds
  <2>7. new \in TablesOf(n) /\ new.n = n /\ new.chain[b] = d
        /\ \A a \in 0..(n - 1) : a # b => new.chain[a] = tab.chain[a]
    BY <2>1, <2>2, <2>3, <2>6 DEF TablesOf
  <2>8. ValsIn(new, V)
    BY <2>1, <2>6, <2>7 DEF ValsIn
  <2> QED BY <2>4, <2>7, <2>8
<1> QED BY <1>1, <1>2

LEMMA PutAllVals ==
  ASSUME E \in Nat \ {0}, NEW n \in Nat \ {0}, NEW tab \in TablesOf(n), NEW c \in Seq(Slots), NEW V, 0 \in V,
         \A i \in DOMAIN c : c[i].key # 0 => c[i].val \in V, ValsIn(tab, V)
  PROVE  ValsIn(PutAll(tab, c), V)
<1> DEFINE T == {x \in TablesOf(n) : ValsIn(x, V)}
           P == [i \in 0..Len(c) |-> T]
<1>1. Len(c) \in Nat /\ DOMAIN c = 1..Len(c)
  BY LenProperties
<1>2. ASSUME NEW i \in 1..Len(c), NEW x \in T
      PROVE  PutSlot(x, c[i]) \in T
  <2>1. i \in DOMAIN c /\ c[i] \in Slots
    BY <1>1, SlotIs
  <2>2. x \in TablesOf(n) /\ ValsIn(x, V) /\ (c[i].key # 0 => c[i].val \in V)
    BY <2>1, <1>2
  <2> DEFINE s == c[i]
  <2>3. s \in Slots /\ (s.key # 0 => s.val \in V)
    BY <2>1, <2>2
  <2> HIDE DEF s
  <2>4. PutSlot(x, s) \in TablesOf(n) /\ ValsIn(PutSlot(x, s), V)
    BY <2>2, <2>3, PutSlotVals
  <2> QED BY <2>4 DEF s
<1>3. tab \in T
  OBVIOUS
<1> HIDE DEF T
<1>4. tab \in P[0] /\ \A i \in 1..Len(c) : P[i - 1] = T /\ P[i] = T
  BY <1>1, <1>3
<1>5. P[Len(c)] = T
  BY <1>1
<1> HIDE DEF P
<1>6. \A i \in 1..Len(c) : \A x \in P[i - 1] : PutSlot(x, c[i]) \in P[i]
  BY <1>2, <1>4
<1>7. PutAll(tab, c) \in P[Len(c)]
  BY <1>1, <1>4, <1>6, PutAllInduction
<1> QED BY <1>5, <1>7 DEF T

LEMMA CopyChainVals ==
  ASSUME E \in Nat \ {0}, NEW n \in Nat \ {0}, NEW tab \in TablesOf(n), NEW c \in Seq(Slots), NEW V, 0 \in V,
         \A i \in DOMAIN c : c[i].val \in V, ValsIn(tab, V), NEW drop
  PROVE  ValsIn(CopyChain(tab, c, drop), V)
<1> DEFINE d == [i \in DOMAIN c |-> IF BucketOf(i) \in drop THEN Slot ELSE c[i]]
<1>1. d \in Seq(Slots) /\ DOMAIN d = DOMAIN c
  <2>1. Len(c) \in Nat /\ DOMAIN c = 1..Len(c) /\ c \in [1..Len(c) -> Slots]
    BY LenProperties
  <2>2. Slot \in Slots
    BY DEF Slot, Slots
  <2>3. d \in [1..Len(c) -> Slots]
    BY <2>1, <2>2
  <2> HIDE DEF d
  <2> QED BY <2>1, <2>3, FcnIsSeq
<1>2. \A i \in DOMAIN d : d[i].key # 0 => d[i].val \in V
  BY DEF Slot
<1>3. CopyChain(tab, c, drop) = PutAll(tab, d)
  BY DEF CopyChain
<1> HIDE DEF d
<1> QED BY <1>1, <1>2, <1>3, PutAllVals

LEMMA NewTableVals ==
  ASSUME NEW n, NEW V, 0 \in V
  PROVE  ValsIn(NewTable(n), V)
<1>1. \A p \in DOMAIN Bucket : Bucket[p].val = 0
  BY BucketIs DEF Slot
<1> QED BY <1>1 DEF ValsIn, NewTable

-----------------------------------------------------------------------------
(* The steps, seen from the chains. *)

\* What thread t is about to store.
Pending(r) == r.pc \in {"exists", "lock", "wait", "locked"} /\ r.op \in {"put", "update"}
Stored(t) == IF th[t].pc = "locked" /\ th[t].op \in {"put", "update"} THEN {th[t].v} ELSE {}

\* Old tables do not change, the chains of the current one are edited, and
\* every value in a table has been there, is 0 or is the one that t stores.
TablesStep(t, V) ==
  /\ DOMAIN tables \subseteq DOMAIN tables'
  /\ \A i \in DOMAIN tables : tables'[i].n = tables[i].n
  /\ \A i \in DOMAIN tables : i < ht => tables'[i].chain = tables[i].chain
  /\ \A b \in Bins(ht) : Edit(tables[ht].chain[b], tables'[ht].chain[b], Stored(t))
  /\ (\A i \in DOMAIN tables : ValsIn(tables[i], V)) => \A i \in DOMAIN tables' : ValsIn(tables'[i], V)

LEMMA SameChainsStep ==
  ASSUME Inv, NEW t \in Threads, NEW V, DOMAIN tables' = DOMAIN tables,
         \A i \in DOMAIN tables : tables'[i].n = tables[i].n /\ tables'[i].chain = tables[i].chain
  PROVE  TablesStep(t, V)
<1>1. ASSUME NEW b \in Bins(ht)
      PROVE  Edit(tables[ht].chain[b], tables'[ht].chain[b], Stored(t))
  <2>1. tables[ht].chain[b] \in Seq(Slots) /\ ht \in DOMAIN tables
    BY ChainLength DEF Inv, HtInv
  <2>2. tables'[ht].chain[b] = tables[ht].chain[b]
    BY <2>1
  <2> QED BY <2>1, <2>2, EditForms
<1>2. (\A i \in DOMAIN tables : ValsIn(tables[i], V)) => \A i \in DOMAIN tables' : ValsIn(tables'[i], V)
  BY DEF ValsIn
<1> QED BY <1>1, <1>2 DEF TablesStep

LEMMA LockOnly ==
  ASSUME Inv, NEW t \in Threads, NEW V, NEW i \in DOMAIN tables, NEW b, NEW l,
         \/ tables' = [tables EXCEPT ![i].lock[b] = l]
         \/ tables' = [tables EXCEPT ![i].new = l]
  PROVE  TablesStep(t, V)
<1>1. tables[i] \in TablesOf(tables[i].n)
  BY TableOf
<1>2. DOMAIN tables' = DOMAIN tables
  OBVIOUS
<1>3. \A j \in DOMAIN tables : tables'[j].n = tables[j].n /\ tables'[j].chain = tables[j].chain
  <2>1. CASE tables' = [tables EXCEPT ![i].lock[b] = l]
    BY <1>1, <2>1 DEF TablesOf
  <2>2. CASE tables' = [tables EXCEPT ![i].new = l]
    BY <1>1, <2>2 DEF TablesOf
  <2> QED BY <2>1, <2>2
<1> QED BY <1>2, <1>3, SameChainsStep

LEMMA OneBin ==
  ASSUME Inv, NEW t \in Threads, NEW V, 0 \in V, Stored(t) \subseteq V,
         NEW b \in Bins(ht), NEW d \in Seq(Slots), NEW l, NEW x, BinChange(b, d, l, x),
         Edit(tables[ht].chain[b], d, Stored(t))
  PROVE  TablesStep(t, V)
<1>1. ht \in DOMAIN tables /\ ht \in Nat
  BY DEF Inv, HtInv, Types
<1>2. /\ DOMAIN tables' = DOMAIN tables
      /\ \A j \in DOMAIN tables : j # ht => tables'[j] = tables[j]
      /\ tables'[ht].n = tables[ht].n /\ tables'[ht].chain[b] = d
      /\ \A a \in Bins(ht) : a # b => tables'[ht].chain[a] = tables[ht].chain[a]
  BY DEF BinChange
<1>3. \A j \in DOMAIN tables : tables'[j].n = tables[j].n
  BY <1>2
<1>4. \A j \in DOMAIN tables : j < ht => tables'[j].chain = tables[j].chain
  BY <1>1, <1>2
<1>5. ASSUME NEW a \in Bins(ht)
      PROVE  Edit(tables[ht].chain[a], tables'[ht].chain[a], Stored(t))
  <2>1. CASE a = b
    BY <2>1, <1>2
  <2>2. CASE a # b
    BY <2>2, <1>2, ChainLength, EditForms
  <2> QED BY <2>1, <2>2
<1>6. ASSUME \A i \in DOMAIN tables : ValsIn(tables[i], V), NEW i \in DOMAIN tables'
      PROVE  ValsIn(tables'[i], V)
  <2>1. CASE i # ht
    BY <2>1, <1>2, <1>6
  <2>2. CASE i = ht
    <3>1. ASSUME NEW a \in Bins(ht), NEW p \in DOMAIN tables'[ht].chain[a]
          PROVE  tables'[ht].chain[a][p].val \in V
      <4>1. \A q \in DOMAIN tables[ht].chain[a] : tables[ht].chain[a][q].val \in V
        BY <1>1, <1>6 DEF ValsIn, Bins
      <4> QED BY <4>1, <3>1, <1>5 DEF Edit
    <3> QED BY <2>2, <3>1, <1>2 DEF ValsIn, Bins
  <2> QED BY <2>1, <2>2
<1> QED BY <1>2, <1>3, <1>4, <1>5, <1>6 DEF TablesStep

LEMMA ResizeTryTables ==
  ASSUME Inv, NEW t \in Threads, ResizeTry(t), NEW V, 0 \in V
  PROVE  TablesStep(t, V)
<1>1. CASE UNCHANGED tables
  BY <1>1, SameChainsStep
<1>2. ASSUME NEW n, tables' = Append(tables, NewTable(n))
      PROVE  TablesStep(t, V)
  <2>1. /\ ht \in DOMAIN tables /\ tables \in Seq(TabSet) /\ DOMAIN tables = 1..Len(tables) /\ Len(tables) \in Nat
    BY StateIs
  <2> DEFINE new == NewTable(n)
  <2> HIDE DEF new
  <2>2. /\ DOMAIN tables' = 1..(Len(tables) + 1) /\ tables'[Len(tables) + 1] = new
        /\ \A i \in DOMAIN tables : tables'[i] = tables[i]
    BY <1>2, <2>1 DEF new
  <2>3. DOMAIN tables \subseteq DOMAIN tables' /\ \A i \in DOMAIN tables' : i \in DOMAIN tables \/ i = Len(tables) + 1
    BY <2>1, <2>2
  <2>4. ValsIn(new, V)
    BY NewTableVals DEF new
  <2>5. ASSUME NEW b \in Bins(ht)
        PROVE  Edit(tables[ht].chain[b], tables'[ht].chain[b], Stored(t))
    BY <2>1, <2>2, ChainLength, EditForms
  <2> QED BY <2>2, <2>3, <2>4, <2>5 DEF TablesStep
<1> QED BY <1>1, <1>2 DEF ResizeTry

LEMMA CopyBinTables ==
  ASSUME Inv, NEW t \in Threads, CopyBin(t), UNCHANGED build, NEW V, 0 \in V
  PROVE  TablesStep(t, V)
<1> DEFINE b == th[t].pos
           new == tables'[ht + 1]
           tab == tables[ht + 1]
<1>1. /\ b \in Bins(ht) /\ Len(tables) = ht + 1 /\ DOMAIN tables' = DOMAIN tables
      /\ \A i \in 1..(ht - 1) : tables'[i] = tables[i]
      /\ tables'[ht] = [tables[ht] EXCEPT !.lock[b] = "resize"]
      /\ new \in TablesOf(tab.n)
      /\ \E drop : new = CopyChain(tab, tables[ht].chain[b], drop)
  BY CopyBinIs
<1>2. /\ DOMAIN tables = 1..(ht + 1) /\ ht \in Nat \ {0} /\ build \in Builds
  BY <1>1, StateIs
<1>3. \A i \in DOMAIN tables : i \in 1..(ht - 1) \/ i = ht \/ i = ht + 1
  BY <1>2
<1>4. ht \in DOMAIN tables /\ ht + 1 \in DOMAIN tables /\ ~(ht < ht) /\ ~(ht + 1 < ht)
  BY <1>2
<1>5. tables[ht] \in TablesOf(tables[ht].n) /\ tab \in TablesOf(tab.n) /\ tab.n \in Nat \ {0}
  BY <1>4, TableOf
<1>6. tables'[ht].chain = tables[ht].chain /\ tables'[ht].n = tables[ht].n
  BY <1>1, <1>5 DEF TablesOf
<1>7. new.n = tab.n
  BY <1>1 DEF TablesOf
<1>8. \A i \in DOMAIN tables : tables'[i].n = tables[i].n
  BY <1>1, <1>3, <1>6, <1>7
<1>9. \A i \in DOMAIN tables : i < ht => tables'[i].chain = tables[i].chain
  BY <1>1, <1>3, <1>4
<1>10. ASSUME NEW a \in Bins(ht)
       PROVE  Edit(tables[ht].chain[a], tables'[ht].chain[a], Stored(t))
  BY <1>6, ChainLength, EditForms
<1>11. ASSUME \A i \in DOMAIN tables : ValsIn(tables[i], V), NEW i \in DOMAIN tables'
       PROVE  ValsIn(tables'[i], V)
  <2>1. CASE i \in 1..(ht - 1)
    BY <2>1, <1>1, <1>11
  <2>2. CASE i = ht
    BY <2>2, <1>4, <1>6, <1>11 DEF ValsIn
  <2>3. CASE i = ht + 1
    <3> DEFINE c == tables[ht].chain[b]
               n == tab.n
    <3>1. PICK drop : new = CopyChain(tab, c, drop)
      BY <1>1
    <3>2. c \in Seq(Slots) /\ (\A p \in DOMAIN c : c[p].val \in V) /\ ValsIn(tab, V) /\ E \in Nat \ {0}
      BY <1>1, <1>2, <1>4, <1>11, ChainLength, BuildIs DEF ValsIn, Bins
    <3> HIDE DEF c, n
    <3>3. n \in Nat \ {0} /\ tab \in TablesOf(n)
      BY <1>5 DEF n
    <3> HIDE DEF tab
    <3>4. ValsIn(CopyChain(tab, c, drop), V)
      BY <3>2, <3>3, CopyChainVals
    <3> QED BY <2>3, <3>1, <3>4
  <2> QED BY <1>1, <1>3, <2>1, <2>2, <2>3
<1> QED BY <1>1, <1>8, <1>9, <1>10, <1>11 DEF TablesStep

\* The stores to a bin.
LEMMA WriterTables ==
  ASSUME Inv, NEW t \in Threads, Update(t) \/ Remove(t) \/ Put(t) \/ PutKey(t), NEW V, 0 \in V, Stored(t) \subseteq V
  PROVE  TablesStep(t, V)
<1> DEFINE c == MyChain(t)
           b == MyBin(t)
<1>1. th[t].pc \in {"locked", "put_key"}
  BY DEF Update, Remove, Put, PutKey, At
<1>2. /\ b \in Bins(ht) /\ c = tables[ht].chain[b] /\ c \in Seq(Slots) /\ th[t].tbl = ht /\ ht \in DOMAIN tables
      /\ th[t].k \in Nat \ {0}
  BY <1>1, HeldIs, StateIs
<1>3. CASE Release(t)
  BY <1>2, <1>3, LockOnly DEF Release
<1>4. CASE Update(t) /\ Has(c, th[t].k)
  <2>1. PICK d, i : StoresVal(c, d, i, th[t].v) /\ Ends(t, d, 1)
    BY <1>4, UpdateIs
  <2>2. d \in Seq(Slots) /\ BinChange(b, d, "free", tables[ht].expands)
    BY <2>1 DEF Ends
  <2>3. th[t].v \in Stored(t)
    BY <1>4 DEF Update, At, Stored
  <2> HIDE DEF b
  <2> QED BY <2>1, <2>2, <2>3, <1>2, EditForms, OneBin
<1>5. CASE Remove(t) /\ Has(c, th[t].k)
  <2>1. PICK d, i : i \in DOMAIN c /\ StoresKey(c, d, i, 0) /\ Ends(t, d, c[i].val)
    BY <1>5, RemoveIs
  <2>2. d \in Seq(Slots) /\ BinChange(b, d, "free", tables[ht].expands)
    BY <2>1 DEF Ends
  <2> HIDE DEF b
  <2> QED BY <2>1, <2>2, <1>2, EditForms, OneBin
<1>6. CASE PutKey(t)
  <2>1. PICK d : StoresKey(c, d, th[t].pos, th[t].k) /\ Ends(t, d, 1) /\ ~Has(c, th[t].k)
    BY <1>6, PutKeyIs
  <2>2. d \in Seq(Slots) /\ BinChange(b, d, "free", tables[ht].expands)
    BY <2>1 DEF Ends
  <2>3. th[t].pos \in DOMAIN c
    <3>1. th[t].pc = "put_key" /\ c = Chain(tables[ht], th[t].k)
      BY <1>1, <1>6, HeldIs DEF PutKey, At
    <3> QED BY <3>1, StateIs DEF PendingOK
  <2> HIDE DEF b
  <2> QED BY <2>1, <2>2, <2>3, <1>2, EditForms, OneBin
<1>7. CASE Put(t) /\ Reserves(t)
  <2>1. PICK d, i : StoresVal(c, d, i, th[t].v) /\ BinChange(b, d, "update", tables[ht].expands)
    BY <1>7, ReserveIs
  <2>2. d \in Seq(Slots)
    BY <2>1 DEF StoresVal
  <2>3. th[t].v \in Stored(t)
    BY <1>7 DEF Put, At, Stored
  <2> HIDE DEF b
  <2> QED BY <2>1, <2>2, <2>3, <1>2, EditForms, OneBin
<1>8. CASE Put(t) /\ Extends(t)
  <2>1. PICK d : Adds(c, d, th[t].k, th[t].v) /\ d \in Seq(Slots) /\ BinChange(b, d, "free", tables[ht].expands + 1)
    BY <1>8, ExtendIs
  <2>2. ~Has(c, th[t].k) /\ th[t].v \in Stored(t)
    BY <1>8 DEF Put, At, Stored, Extends
  <2> HIDE DEF b
  <2> QED BY <2>1, <2>2, <1>2, EditForms, OneBin
<1>9. \/ Release(t) \/ (Update(t) /\ Has(c, th[t].k)) \/ (Remove(t) /\ Has(c, th[t].k)) \/ PutKey(t)
      \/ (Put(t) /\ Reserves(t)) \/ (Put(t) /\ Extends(t))
  BY DEF Update, Remove, Put, Reserves, Extends
<1> QED BY <1>3, <1>4, <1>5, <1>6, <1>7, <1>8, <1>9

LEMMA StepTables ==
  ASSUME Inv, NEW t \in Threads, Step(t) \/ (\E op \in build.ops[t], k \in build.keys : Call(t, op, k)),
         UNCHANGED build, NEW V, 0 \in V, Stored(t) \subseteq V
  PROVE  TablesStep(t, V)
<1>1. CASE UNCHANGED tables
  BY <1>1, SameChainsStep
<1>2. CASE LockAcq(t)
  <2>1. th[t].tbl \in DOMAIN tables
    BY <1>2, MyChainIs DEF LockAcq, At
  <2> QED BY <1>1, <1>2, <2>1, LockOnly DEF LockAcq
<1>3. CASE EvictLock(t)
  <2>1. th[t].tbl \in DOMAIN tables
    BY <1>3, MyChainIs DEF EvictLock, At
  <2> QED BY <1>1, <1>3, <2>1, LockOnly DEF EvictLock
<1>4. CASE Publish(t)
  <2>1. th[t].tbl \in DOMAIN tables
    BY <1>4, MyChainIs DEF Publish, At
  <2> QED BY <1>4, <2>1, LockOnly DEF Publish
<1>5. CASE EvictKeys(t)
  <2> DEFINE b == th[t].bin
  <2>1. b \in Bins(ht) /\ tables[ht].chain[b] \in Seq(Slots)
    BY <1>5, EvictKeysIs, ChainLength
  <2>2. PICK d : Clears(tables[ht].chain[b], d) /\ BinChange(b, d, "free", tables[ht].expands)
    BY <1>5, EvictKeysIs
  <2>3. d \in Seq(Slots)
    BY <2>2 DEF Clears
  <2> HIDE DEF b
  <2> QED BY <2>1, <2>2, <2>3, EditForms, OneBin
<1>6. CASE ResizeTry(t)
  BY <1>6, ResizeTryTables
<1>7. CASE CopyBin(t)
  BY <1>7, CopyBinTables
<1>8. CASE Update(t) \/ Remove(t) \/ Put(t) \/ PutKey(t)
  BY <1>8, WriterTables
<1>9. CASE GetVal(t) \/ GetKey(t) \/ GetAgain(t) \/ Exists(t) \/ WaitForNew(t) \/ Status(t) \/ ResizeRead(t) \/ Swap(t)
           \/ Return(t) \/ \E op \in build.ops[t], k \in build.keys : Call(t, op, k)
  BY <1>1, <1>9 DEF GetVal, GetKey, GetAgain, Exists, WaitForNew, Status, ResizeRead, Swap, Return, Call
<1> QED BY <1>2, <1>3, <1>4, <1>5, <1>6, <1>7, <1>8, <1>9 DEF Step

-----------------------------------------------------------------------------
(* With FreshValues no value is stored twice. *)

\* The value that call number c of a thread stores.
Number(t, c) == NumThreads * c + t

LEMMA NumberIs ==
  ASSUME NEW t \in Threads, NEW u \in Threads, NEW c \in Nat, NEW d \in Nat
  PROVE  /\ Number(t, c) \in Nat \ {0}
         /\ Number(t, c) = Number(u, d) => t = u /\ c = d
         /\ c < MaxCalls => Number(t, c) <= NumThreads * MaxCalls
<1> DEFINE N == NumThreads
<1>1. N \in Nat \ {0} /\ t \in 1..N /\ u \in 1..N /\ MaxCalls \in Nat
  BY ClhtAssumption DEF Threads
<1> HIDE DEF N
<1>2. ASSUME NEW a \in Nat, NEW b \in Nat, a < b
      PROVE  N * a + N <= N * b
  <2>1. b - a - 1 \in Nat /\ N * (b - a - 1) \in Nat
    BY <1>1, <1>2
  <2>2. N * b = N * a + N + N * (b - a - 1)
    BY <1>1, <1>2
  <2>3. N * a \in Nat /\ N * b \in Nat
    BY <1>1, <1>2
  <2> QED BY <2>1, <2>2, <2>3, <1>1
<1>3. N * c \in Nat /\ N * d \in Nat /\ N * MaxCalls \in Nat
  BY <1>1
<1>4. Number(t, c) = N * c + t /\ Number(u, d) = N * d + u
  BY DEF Number, N
<1>5. ASSUME c < d
      PROVE  N * c + t < N * d + u
  <2>1. N * c + N <= N * d
    BY <1>2, <1>5
  <2> QED BY <2>1, <1>1, <1>3
<1>6. ASSUME d < c
      PROVE  N * d + u < N * c + t
  <2>1. N * d + N <= N * c
    BY <1>2, <1>6
  <2> QED BY <2>1, <1>1, <1>3
<1>7. ASSUME c < MaxCalls
      PROVE  N * c + t <= N * MaxCalls
  <2>1. N * c + N <= N * MaxCalls
    BY <1>1, <1>2, <1>7
  <2> QED BY <2>1, <1>1, <1>3
<1>8. ASSUME N * c + t = N * d + u
      PROVE  t = u /\ c = d
  <2>1. ~(c < d) /\ ~(d < c)
    BY <1>5, <1>6, <1>8, <1>1, <1>3
  <2>2. c = d
    BY <2>1
  <2> QED BY <2>2, <1>1, <1>3, <1>8
<1>9. N * c + t \in Nat \ {0}
  BY <1>1, <1>3
<1> QED BY <1>4, <1>7, <1>8, <1>9 DEF N

\* Values that no call will store any more.
Spent ==
  {w \in Nat : \A t \in Threads :
     /\ \A c \in Nat : calls[t] <= c /\ c < MaxCalls => w # Number(t, c)
     /\ Pending(th[t]) => w # th[t].v}

FreshInv ==
  /\ \A i \in DOMAIN tables : ValsIn(tables[i], Spent)
  /\ \A t \in Threads : th[t].val \in Spent
  /\ \A t \in Threads : Pending(th[t]) => calls[t] # 0 /\ th[t].v = Number(t, calls[t] - 1)

LEMMA ZeroIsSpent ==
  ASSUME Inv, FreshInv
  PROVE  0 \in Spent
<1>1. ASSUME NEW t \in Threads
      PROVE  /\ \A c \in Nat : calls[t] <= c /\ c < MaxCalls => 0 # Number(t, c)
             /\ Pending(th[t]) => 0 # th[t].v
  <2>1. \A c \in Nat : Number(t, c) # 0
    BY NumberIs
  <2>2. Pending(th[t]) => th[t].v # 0
    BY StateIs DEF CallOK, Pending
  <2> QED BY <2>1, <2>2
<1> QED BY <1>1 DEF Spent

\* A thread goes from one step of its call to the next.
Kept(t) ==
  /\ \A u \in Threads : u # t => th'[u] = th[u]
  /\ calls' = calls
  /\ Pending(th'[t]) => Pending(th[t]) /\ th'[t].v = th[t].v
  /\ Stored(t) # {} => ~Pending(th'[t])
  /\ \/ th'[t].val \in {th[t].val, 0}
     \/ th[t].pc # "idle" /\ \E p \in DOMAIN MyChain(t) : th'[t].val = MyChain(t)[p].val

LEMMA KeptFresh ==
  ASSUME Inv, FreshInv, NEW t \in Threads, Kept(t), TablesStep(t, Spent')
  PROVE  FreshInv'
<1> DEFINE In(w, u) == /\ \A c \in Nat : calls[u] <= c /\ c < MaxCalls => w # Number(u, c)
                       /\ Pending(th'[u]) => w # th'[u].v
<1>1. Spent' = {w \in Nat : \A u \in Threads : In(w, u)}
  BY DEF Kept, Spent, Pending, Number
<1>2. Spent \subseteq Spent'
  <2>1. SUFFICES ASSUME NEW w \in Spent, NEW u \in Threads
                 PROVE  w \in Nat /\ In(w, u)
    BY <1>1
  <2>2. /\ w \in Nat /\ (\A c \in Nat : calls[u] <= c /\ c < MaxCalls => w # Number(u, c))
        /\ (Pending(th[u]) => w # th[u].v)
    BY <2>1 DEF Spent
  <2>3. Pending(th'[u]) => Pending(th[u]) /\ th'[u].v = th[u].v
    BY DEF Kept
  <2> QED BY <2>2, <2>3
<1>3. \A i \in DOMAIN tables : ValsIn(tables[i], Spent')
  BY <1>2 DEF FreshInv, ValsIn
<1>4. \A i \in DOMAIN tables' : ValsIn(tables'[i], Spent')
  BY <1>3 DEF TablesStep
<1>5. ASSUME NEW u \in Threads
      PROVE  th'[u].val \in Spent'
  <2>1. th[u].val \in Spent'
    BY <1>2 DEF FreshInv
  <2>2. CASE u # t
    BY <2>1, <2>2 DEF Kept
  <2>3. CASE u = t
    <3>1. 0 \in Spent'
      BY <1>2, ZeroIsSpent
    <3>2. ASSUME th[t].pc # "idle", NEW p \in DOMAIN MyChain(t)
          PROVE  MyChain(t)[p].val \in Spent'
      <4>1. th[t].tbl \in DOMAIN tables /\ MyBin(t) \in Bins(th[t].tbl) /\ MyChain(t) = tables[th[t].tbl].chain[MyBin(t)]
        BY <3>2, MyChainIs
      <4> QED BY <4>1, <3>2, <1>3 DEF ValsIn, Bins
    <3> QED BY <2>1, <2>3, <3>1, <3>2 DEF Kept
  <2> QED BY <2>2, <2>3
<1>6. ASSUME NEW u \in Threads, Pending(th'[u])
      PROVE  calls'[u] # 0 /\ th'[u].v = Number(u, calls'[u] - 1)
  <2>1. Pending(th[u]) /\ th'[u].v = th[u].v /\ calls' = calls
    BY <1>6 DEF Kept
  <2> QED BY <2>1 DEF FreshInv
<1>7. \A u \in Threads : Pending(th[u])' <=> Pending(th'[u])
  BY DEF Pending
<1>8. \A u \in Threads : Number(u, calls[u] - 1)' = Number(u, calls'[u] - 1)
  BY DEF Number
<1> QED BY <1>4, <1>5, <1>6, <1>7, <1>8 DEF FreshInv, ValsIn

LEMMA StoredIsSpent ==
  ASSUME Inv, FreshInv, NEW t \in Threads, Kept(t)
  PROVE  0 \in Spent' /\ Stored(t) \subseteq Spent'
<1> DEFINE In(w, u) == /\ \A c \in Nat : calls[u] <= c /\ c < MaxCalls => w # Number(u, c)
                       /\ Pending(th'[u]) => w # th'[u].v
<1>1. Spent' = {w \in Nat : \A u \in Threads : In(w, u)}
  BY DEF Kept, Spent, Pending, Number
<1>2. \A u \in Threads : Pending(th'[u]) => Pending(th[u]) /\ th'[u].v = th[u].v
  BY DEF Kept
<1>3. 0 \in Spent'
  <2>1. \A u \in Threads : In(0, u)
    BY <1>2, ZeroIsSpent DEF Spent
  <2> QED BY <2>1, <1>1
<1>4. ASSUME th[t].pc = "locked", th[t].op \in {"put", "update"}
      PROVE  th[t].v \in Spent'
  <2>1. Pending(th[t]) /\ ~Pending(th'[t])
    BY <1>4 DEF Pending, Kept, Stored
  <2>2. calls \in [Threads -> Nat]
    BY ClhtAssumption DEF Inv, Types
  <2>3. calls[t] - 1 \in Nat /\ calls[t] \in Nat /\ th[t].v = Number(t, calls[t] - 1)
    BY <2>1, <2>2 DEF FreshInv
  <2>4. th[t].v \in Nat
    BY <2>3, NumberIs
  <2>5. ASSUME NEW u \in Threads, NEW c \in Nat, calls[u] <= c
        PROVE  Number(t, calls[t] - 1) # Number(u, c)
    <3> DEFINE e == calls[t] - 1
    <3>1. t = u => e # c
      BY <2>3, <2>5
    <3>2. e \in Nat
      BY <2>3
    <3> HIDE DEF e
    <3>3. Number(t, e) # Number(u, c)
      BY <3>1, <3>2, <2>5, NumberIs
    <3> QED BY <3>3 DEF e
  <2>6. ASSUME NEW u \in Threads, Pending(th'[u])
        PROVE  th[t].v # th'[u].v
    <3>1. u # t /\ Pending(th[u]) /\ th'[u].v = th[u].v
      BY <2>1, <2>6, <1>2
    <3>2. th[u].v = Number(u, calls[u] - 1) /\ calls[u] - 1 \in Nat
      BY <3>1, <2>2 DEF FreshInv
    <3> QED BY <3>1, <3>2, <2>3, NumberIs
  <2> QED BY <1>1, <2>3, <2>4, <2>5, <2>6
<1> QED BY <1>3, <1>4 DEF Stored

LEMMA GoesKept ==
  ASSUME Inv, NEW t \in Threads, NEW r, th' = [th EXCEPT ![t] = r], calls' = calls,
         r.v = th[t].v, r.val = th[t].val, r.op = th[t].op,
         r.pc \in {"exists", "lock", "wait", "locked"} => th[t].pc \in {"exists", "lock", "wait"}
  PROVE  Kept(t)
<1>1. th'[t] = r /\ \A u \in Threads : u # t => th'[u] = th[u]
  BY DEF Inv, Types
<1> QED BY <1>1 DEF Kept, Pending, Stored

LEMMA StepKept ==
  ASSUME Inv, NEW t \in Threads, Step(t)
  PROVE  Kept(t)
<1>1. th[t] \in ThreadSet /\ th \in [Threads -> ThreadSet] /\ calls' = calls
  BY DEF Inv, Types, Step, GetVal, GetKey, GetAgain, Exists, LockAcq, WaitForNew, Update, Remove, Put, PutKey,
         Status, ResizeRead, ResizeTry, CopyBin, Swap, Publish, EvictLock, EvictKeys, Return
<1>2. ASSUME NEW pc, Goto(t, pc), pc \in {"exists", "lock", "wait", "locked"} => th[t].pc \in {"exists", "lock", "wait"}
      PROVE  Kept(t)
  <2> DEFINE r == [th[t] EXCEPT !.pc = pc]
  <2>1. th' = [th EXCEPT ![t] = r]
    BY <1>2 DEF Goto, Become
  <2>2. r.v = th[t].v /\ r.val = th[t].val /\ r.op = th[t].op /\ r.pc = pc
    BY <1>1 DEF ThreadSet
  <2> HIDE DEF r
  <2> QED BY <1>1, <1>2, <2>1, <2>2, GoesKept
<1>3. ASSUME NEW res, Become(t, Answer(t, res))
      PROVE  Kept(t)
  <2> DEFINE r == Answer(t, res)
  <2>1. th' = [th EXCEPT ![t] = r]
    BY <1>3 DEF Become
  <2>2. r.v = th[t].v /\ r.val = th[t].val /\ r.op = th[t].op /\ r.pc = "done"
    BY <1>1 DEF ThreadSet, Answer
  <2> HIDE DEF r
  <2> QED BY <1>1, <1>3, <2>1, <2>2, GoesKept
<1>4. CASE GetVal(t)
  <2>1. CASE Become(t, [th[t] EXCEPT !.pc = "get_key", !.val = MyChain(t)[th[t].pos].val]) /\ th[t].pos \in DOMAIN MyChain(t)
    <3>1. th[t].pc = "get"
      BY <1>4 DEF GetVal, At
    <3>2. th'[t].pc = "get_key" /\ th'[t].val = MyChain(t)[th[t].pos].val /\ \A u \in Threads : u # t => th'[u] = th[u]
      BY <1>1, <2>1 DEF Become, ThreadSet
    <3> QED BY <1>1, <2>1, <3>1, <3>2 DEF Kept, Pending, Stored
  <2> QED BY <1>3, <1>4, <2>1 DEF GetVal
<1>5. CASE GetKey(t)
  <2>1. CASE Become(t, [th[t] EXCEPT !.pc = "get", !.pos = @ + 1])
    <3> DEFINE r == [th[t] EXCEPT !.pc = "get", !.pos = @ + 1]
    <3>1. th' = [th EXCEPT ![t] = r]
      BY <2>1 DEF Become
    <3>2. r.v = th[t].v /\ r.val = th[t].val /\ r.op = th[t].op /\ r.pc = "get"
      BY <1>1 DEF ThreadSet
    <3> HIDE DEF r
    <3> QED BY <1>1, <3>1, <3>2, GoesKept
  <2> QED BY <1>2, <1>5, <2>1 DEF GetKey
<1>6. CASE GetAgain(t)
  BY <1>3, <1>6 DEF GetAgain
<1>7. CASE Exists(t)
  <2>1. th[t].pc = "exists"
    BY <1>7 DEF Exists, At
  <2>2. CASE Become(t, [th[t] EXCEPT !.pos = @ + 1])
    <3> DEFINE r == [th[t] EXCEPT !.pos = @ + 1]
    <3>1. th' = [th EXCEPT ![t] = r]
      BY <2>2 DEF Become
    <3>2. r.v = th[t].v /\ r.val = th[t].val /\ r.op = th[t].op
      BY <1>1 DEF ThreadSet
    <3> HIDE DEF r
    <3> QED BY <1>1, <2>1, <3>1, <3>2, GoesKept
  <2>3. CASE Become(t, [th[t] EXCEPT !.pc = "lock"])
    BY <1>2, <2>1, <2>3 DEF Goto
  <2> QED BY <1>3, <1>7, <2>2, <2>3 DEF Exists
<1>8. CASE LockAcq(t)
  BY <1>2, <1>8 DEF LockAcq, At
<1>9. CASE WaitForNew(t)
  <2> DEFINE r == [th[t] EXCEPT !.pc = "lock", !.tbl = ht]
  <2>1. th' = [th EXCEPT ![t] = r] /\ th[t].pc = "wait"
    BY <1>9 DEF WaitForNew, Become, At
  <2>2. r.v = th[t].v /\ r.val = th[t].val /\ r.op = th[t].op
    BY <1>1 DEF ThreadSet
  <2> HIDE DEF r
  <2> QED BY <1>1, <2>1, <2>2, GoesKept
<1>10. ASSUME NEW d, NEW res, Ends(t, d, res)
       PROVE  Kept(t)
  <2> DEFINE r == [th[t] EXCEPT !.pc = "done", !.res = res, !.eff = TRUE]
  <2>1. th' = [th EXCEPT ![t] = r]
    BY <1>10 DEF Ends
  <2>2. r.v = th[t].v /\ r.val = th[t].val /\ r.op = th[t].op /\ r.pc = "done"
    BY <1>1 DEF ThreadSet
  <2> HIDE DEF r
  <2> QED BY <1>1, <2>1, <2>2, GoesKept
<1>11. CASE Update(t)
  <2>1. CASE Has(MyChain(t), th[t].k)
    BY <2>1, <1>10, <1>11, UpdateIs
  <2>2. CASE ~Has(MyChain(t), th[t].k)
    BY <2>2, <1>3, <1>11 DEF Update
  <2> QED BY <2>1, <2>2
<1>12. CASE Remove(t)
  <2>1. CASE Has(MyChain(t), th[t].k)
    BY <2>1, <1>10, <1>12, RemoveIs
  <2>2. CASE ~Has(MyChain(t), th[t].k)
    BY <2>2, <1>3, <1>12 DEF Remove
  <2> QED BY <2>1, <2>2
<1>13. CASE PutKey(t)
  BY <1>10, <1>13, PutKeyIs
<1>14. CASE Put(t)
  <2>1. CASE Has(MyChain(t), th[t].k)
    BY <2>1, <1>3, <1>14 DEF Put
  <2>2. CASE Reserves(t)
    <3>1. PICK i : th' = [th EXCEPT ![t] = [th[t] EXCEPT !.pc = "put_key", !.pos = i]]
      BY <1>14, <2>2, ReserveIs
    <3> DEFINE r == [th[t] EXCEPT !.pc = "put_key", !.pos = i]
    <3>2. r.v = th[t].v /\ r.val = th[t].val /\ r.op = th[t].op /\ r.pc = "put_key"
      BY <1>1 DEF ThreadSet
    <3>3. th' = [th EXCEPT ![t] = r]
      BY <3>1
    <3> HIDE DEF r
    <3> QED BY <1>1, <3>2, <3>3, GoesKept
  <2>3. CASE Extends(t)
    <3>1. PICK pc : /\ pc \in {"status", "done"}
                    /\ th' = [th EXCEPT ![t] = [th[t] EXCEPT !.pc = pc, !.res = 1, !.eff = TRUE]]
      BY <1>14, <2>3, ExtendIs
    <3> DEFINE r == [th[t] EXCEPT !.pc = pc, !.res = 1, !.eff = TRUE]
    <3>2. r.v = th[t].v /\ r.val = th[t].val /\ r.op = th[t].op /\ r.pc \in {"status", "done"}
      BY <1>1, <3>1 DEF ThreadSet
    <3>3. th' = [th EXCEPT ![t] = r]
      BY <3>1
    <3> HIDE DEF r
    <3> QED BY <1>1, <3>2, <3>3, GoesKept
  <2> QED BY <2>1, <2>2, <2>3 DEF Reserves, Extends
<1>15. ASSUME NEW r, th' = [th EXCEPT ![t] = r], r.pc \in After, r.v = th[t].v, r.val = th[t].val, r.op = th[t].op
       PROVE  Kept(t)
  BY <1>1, <1>15, GoesKept DEF After
<1>16. CASE Status(t)
  <2>1. ASSUME NEW by, Become(t, [th[t] EXCEPT !.pc = "resize", !.by = by])
        PROVE  Kept(t)
    <3> DEFINE r == [th[t] EXCEPT !.pc = "resize", !.by = by]
    <3>1. r.v = th[t].v /\ r.val = th[t].val /\ r.op = th[t].op /\ r.pc \in After /\ th' = [th EXCEPT ![t] = r]
      BY <1>1, <2>1 DEF ThreadSet, Become, After
    <3> HIDE DEF r
    <3> QED BY <3>1, <1>15
  <2>2. CASE Become(t, [th[t] EXCEPT !.pc = "evict", !.tbl = ht])
    <3> DEFINE r == [th[t] EXCEPT !.pc = "evict", !.tbl = ht]
    <3>1. r.v = th[t].v /\ r.val = th[t].val /\ r.op = th[t].op /\ r.pc \in After /\ th' = [th EXCEPT ![t] = r]
      BY <1>1, <2>2 DEF ThreadSet, Become, After
    <3> HIDE DEF r
    <3> QED BY <3>1, <1>15
  <2> QED BY <1>2, <1>16, <2>1, <2>2 DEF Status
<1>17. CASE ResizeRead(t)
  <2> DEFINE r == [th[t] EXCEPT !.pc = "resize_try", !.tbl = ht]
  <2>1. r.v = th[t].v /\ r.val = th[t].val /\ r.op = th[t].op /\ r.pc \in After /\ th' = [th EXCEPT ![t] = r]
    BY <1>1, <1>17 DEF ResizeRead, ThreadSet, Become, After
  <2> HIDE DEF r
  <2> QED BY <2>1, <1>15
<1>18. CASE ResizeTry(t)
  <2>1. CASE Become(t, [th[t] EXCEPT !.pc = "copy", !.new = Len(tables) + 1, !.pos = 0])
    <3> DEFINE r == [th[t] EXCEPT !.pc = "copy", !.new = Len(tables) + 1, !.pos = 0]
    <3>1. r.v = th[t].v /\ r.val = th[t].val /\ r.op = th[t].op /\ r.pc \in After /\ th' = [th EXCEPT ![t] = r]
      BY <1>1, <2>1 DEF ThreadSet, Become, After
    <3> HIDE DEF r
    <3> QED BY <3>1, <1>15
  <2> QED BY <1>2, <1>18, <2>1 DEF ResizeTry
<1>19. CASE CopyBin(t)
  <2> DEFINE r == [th[t] EXCEPT !.pos = @ + 1]
  <2>1. r.v = th[t].v /\ r.val = th[t].val /\ r.op = th[t].op /\ r.pc \in After /\ th' = [th EXCEPT ![t] = r]
    BY <1>1, <1>19 DEF CopyBin, At, ThreadSet, Become, After
  <2> HIDE DEF r
  <2> QED BY <2>1, <1>15
<1>20. CASE Swap(t)
  <2>1. PICK again : Become(t, [th[t] EXCEPT !.pc = "publish", !.again = again])
    BY <1>20 DEF Swap
  <2> DEFINE r == [th[t] EXCEPT !.pc = "publish", !.again = again]
  <2>2. r.v = th[t].v /\ r.val = th[t].val /\ r.op = th[t].op /\ r.pc \in After /\ th' = [th EXCEPT ![t] = r]
    BY <1>1, <2>1 DEF ThreadSet, Become, After
  <2> HIDE DEF r
  <2> QED BY <2>2, <1>15
<1>21. CASE Publish(t)
  BY <1>2, <1>21 DEF Publish
<1>22. CASE EvictLock(t)
  <2>1. CASE Become(t, [th[t] EXCEPT !.tbl = ht])
    <3> DEFINE r == [th[t] EXCEPT !.tbl = ht]
    <3>1. r.v = th[t].v /\ r.val = th[t].val /\ r.op = th[t].op /\ r.pc \in After /\ th' = [th EXCEPT ![t] = r]
      BY <1>1, <1>22, <2>1 DEF EvictLock, At, ThreadSet, Become, After
    <3> HIDE DEF r
    <3> QED BY <3>1, <1>15
  <2> QED BY <1>2, <1>22, <2>1 DEF EvictLock
<1>23. CASE EvictKeys(t)
  BY <1>2, <1>23 DEF EvictKeys
<1>24. CASE Return(t)
  <2>1. th'[t] = Idle /\ \A u \in Threads : u # t => th'[u] = th[u]
    BY <1>1, <1>24 DEF Return, Become
  <2> QED BY <1>1, <2>1 DEF Kept, Pending, Idle
<1> QED BY <1>4, <1>5, <1>6, <1>7, <1>8, <1>9, <1>11, <1>12, <1>13, <1>14, <1>16, <1>17, <1>18, <1>19, <1>20, <1>21,
          <1>22, <1>23, <1>24 DEF Step

LEMMA CallFresh ==
  ASSUME FreshValues, Inv, FreshInv, NEW t \in Threads, NEW op \in build.ops[t], NEW k \in build.keys, Call(t, op, k)
  PROVE  FreshInv'
<1> DEFINE r == [Idle EXCEPT !.pc = CASE op = "get" -> "get" [] op = "update" -> "lock" [] OTHER -> "exists",
                             !.op = op, !.k = k, !.v = IF op \in {"put", "update"} THEN Value(t, k) ELSE 0,
                             !.tbl = ht, !.bin = Hash(k, tables[ht].n), !.pos = 1]
<1>1. th' = [th EXCEPT ![t] = r] /\ tables' = tables /\ calls' = [calls EXCEPT ![t] = @ + 1] /\ calls[t] < MaxCalls
  BY DEF Call, Become
<1>2. r.val = 0 /\ r.op = op /\ r.v = (IF op \in {"put", "update"} THEN Value(t, k) ELSE 0)
  BY DEF Idle
<1>3. calls \in [Threads -> Nat] /\ th \in [Threads -> ThreadSet] /\ MaxCalls \in Nat
  BY ClhtAssumption DEF Inv, Types
<1> HIDE DEF r
<1>4. /\ th'[t] = r /\ calls'[t] = calls[t] + 1
      /\ \A u \in Threads : u # t => th'[u] = th[u] /\ calls'[u] = calls[u]
  BY <1>1, <1>3
<1>5. Pending(r) => r.v = Number(t, calls[t])
  BY <1>2 DEF Pending, Value, Number
<1> DEFINE In(w, u) == /\ \A c \in Nat : calls'[u] <= c /\ c < MaxCalls => w # Number(u, c)
                       /\ Pending(th'[u]) => w # th'[u].v
<1>6. Spent' = {w \in Nat : \A u \in Threads : In(w, u)}
  BY DEF Spent, Pending, Number
<1>7. Spent \subseteq Spent'
  <2>1. SUFFICES ASSUME NEW w \in Spent, NEW u \in Threads
                 PROVE  w \in Nat /\ In(w, u)
    BY <1>6
  <2>2. /\ w \in Nat /\ (\A c \in Nat : calls[u] <= c /\ c < MaxCalls => w # Number(u, c))
        /\ (Pending(th[u]) => w # th[u].v)
    BY <2>1 DEF Spent
  <2>3. CASE u # t
    BY <2>2, <2>3, <1>4
  <2>4. CASE u = t
    <3>1. calls[t] \in Nat /\ calls[t] <= calls[t]
      BY <1>3
    <3>2. w # Number(t, calls[t])
      BY <2>2, <2>4, <3>1, <1>1
    <3>3. \A c \in Nat : calls[t] + 1 <= c => calls[t] <= c
      BY <3>1
    <3> QED BY <2>2, <2>4, <3>2, <3>3, <1>4, <1>5
  <2> QED BY <2>3, <2>4
<1>8. \A i \in DOMAIN tables' : ValsIn(tables'[i], Spent')
  BY <1>1, <1>7 DEF FreshInv, ValsIn
<1>9. \A u \in Threads : th'[u].val \in Spent'
  <2>1. \A u \in Threads : th[u].val \in Spent'
    BY <1>7 DEF FreshInv
  <2>2. 0 \in Spent'
    BY <1>7, ZeroIsSpent
  <2> QED BY <2>1, <2>2, <1>2, <1>4
<1>10. ASSUME NEW u \in Threads, Pending(th'[u])
       PROVE  calls'[u] # 0 /\ th'[u].v = Number(u, calls'[u] - 1)
  <2>1. CASE u # t
    <3>1. Pending(th[u]) /\ th'[u] = th[u] /\ calls'[u] = calls[u]
      BY <2>1, <1>4, <1>10
    <3> QED BY <3>1 DEF FreshInv
  <2>2. CASE u = t
    <3>1. calls[t] + 1 # 0 /\ (calls[t] + 1) - 1 = calls[t]
      BY <1>3
    <3> QED BY <2>2, <3>1, <1>4, <1>5, <1>10
  <2> QED BY <2>1, <2>2
<1>11. \A u \in Threads : (Pending(th[u])' <=> Pending(th'[u])) /\ Number(u, calls[u] - 1)' = Number(u, calls'[u] - 1)
  BY DEF Pending, Number
<1> QED BY <1>8, <1>9, <1>10, <1>11 DEF FreshInv, ValsIn

LEMMA NextFresh ==
  ASSUME FreshValues, Inv, FreshInv, [Next]_vars
  PROVE  FreshInv'
<1>1. CASE UNCHANGED vars
  BY <1>1 DEF vars, FreshInv, ValsIn, Spent, Pending, Number
<1>2. ASSUME NEW t \in Threads, Step(t), UNCHANGED build
      PROVE  FreshInv'
  <2>1. Kept(t)
    BY <1>2, StepKept
  <2>2. 0 \in Spent' /\ Stored(t) \subseteq Spent'
    BY <2>1, StoredIsSpent
  <2>3. TablesStep(t, Spent')
    BY <1>2, <2>2, StepTables
  <2> QED BY <2>1, <2>3, KeptFresh
<1>3. ASSUME NEW t \in Threads, NEW op \in build.ops[t], NEW k \in build.keys, Call(t, op, k)
      PROVE  FreshInv'
  BY <1>3, CallFresh
<1> QED BY <1>1, <1>2, <1>3 DEF Next

LEMMA InitFresh ==
  ASSUME FreshValues, Init
  PROVE  FreshInv
<1> DEFINE N == NumThreads
<1>1. /\ build \in Builds /\ tables = <<Preloaded>> /\ th = [t \in Threads |-> Idle] /\ calls = [t \in Threads |-> 0]
      /\ N \in Nat /\ MaxCalls \in Nat /\ N * MaxCalls \in Nat
  BY ClhtAssumption DEF Init
<1>2. \A t \in Threads : th[t].val = 0 /\ ~Pending(th[t])
  BY <1>1 DEF Idle, Pending
<1>3. 0 \in Spent
  <2>1. \A t \in Threads : \A c \in Nat : 0 # Number(t, c)
    BY NumberIs
  <2> QED BY <2>1, <1>2 DEF Spent
<1>4. ASSUME NEW k \in Keys
      PROVE  N * MaxCalls + k \in Spent
  <2>1. k \in Nat \ {0}
    BY ClhtAssumption
  <2>2. N * MaxCalls + k \in Nat
    BY <2>1, <1>1
  <2>3. ASSUME NEW t \in Threads, NEW c \in Nat, c < MaxCalls
        PROVE  N * MaxCalls + k # Number(t, c)
    <3>1. Number(t, c) <= N * MaxCalls /\ Number(t, c) \in Nat
      BY <2>3, NumberIs
    <3> QED BY <3>1, <2>1, <1>1
  <2> QED BY <2>2, <2>3, <1>2 DEF Spent
<1>5. ValsIn(Preloaded, Spent)
  <2> DEFINE c == [i \in DOMAIN Preload |->
                     [key |-> Preload[i], val |-> IF FreshValues THEN N * MaxCalls + Preload[i] ELSE Preload[i]]]
  <2>1. E \in Nat \ {0} /\ InitBuckets \in Nat \ {0} /\ Keys \subseteq Nat \ {0}
    BY <1>1, BuildIs
  <2>2. Preload \in Seq(Keys)
    BY <1>1, ClhtAssumption DEF Preload
  <2>3. Len(Preload) \in Nat /\ DOMAIN Preload = 1..Len(Preload) /\ \A i \in DOMAIN Preload : Preload[i] \in Keys
    BY <2>2, LenProperties, ElementOfSeq
  <2>4. \A i \in DOMAIN Preload : c[i] = [key |-> Preload[i], val |-> N * MaxCalls + Preload[i]]
    OBVIOUS
  <2>5. \A i \in DOMAIN Preload : Preload[i] \in Nat /\ N * MaxCalls + Preload[i] \in Nat /\ N * MaxCalls + Preload[i] \in Spent
    <3>1. \A k \in Keys : k \in Nat /\ N * MaxCalls + k \in Nat
      BY <1>1, <2>1
    <3> QED BY <3>1, <1>4, <2>3, Zenon
  <2>6. \A i \in DOMAIN Preload : c[i] \in Slots /\ c[i].val \in Spent
    BY <2>4, <2>5 DEF Slots
  <2>7. c \in [1..Len(Preload) -> Slots]
    BY <2>3, <2>6
  <2>8. Preloaded = PutAll(NewTable(InitBuckets), c)
    BY DEF Preloaded, N
  <2>9. DOMAIN c = DOMAIN Preload
    OBVIOUS
  <2> HIDE DEF c
  <2>10. c \in Seq(Slots)
    BY <2>3, <2>7, FcnIsSeq
  <2>11. NewTable(InitBuckets) \in TablesOf(InitBuckets) /\ ValsIn(NewTable(InitBuckets), Spent)
    BY <1>3, <2>1, NewTableIs, NewTableVals
  <2> QED BY <1>3, <2>1, <2>6, <2>8, <2>9, <2>10, <2>11, PutAllVals
<1>6. \A i \in DOMAIN tables : ValsIn(tables[i], Spent)
  BY <1>1, <1>5
<1> QED BY <1>2, <1>3, <1>6 DEF FreshInv

-----------------------------------------------------------------------------
(* The histories. *)

SeenInv ==
  \A t \in Threads :
    /\ IsFiniteSet(seen[t])
    /\ th[t].pc # "idle" => th[t].op # "none" /\ Contents(th[t].k) \in seen[t]

\* All steps of a call but the last stay in the call.
LEMMA StepSame ==
  ASSUME Inv, NEW t \in Threads, Step(t), ~Return(t)
  PROVE  SameCall(t)
<1>1. CASE Update(t) \/ Remove(t) \/ Put(t) \/ PutKey(t)
  <2>1. th[t].pc \in {"locked", "put_key"} /\ th[t] \in ThreadSet /\ th \in [Threads -> ThreadSet]
    BY <1>1 DEF Update, Remove, Put, PutKey, At, Inv, Types
  <2>2. ASSUME NEW d, NEW res, Ends(t, d, res)
        PROVE  SameCall(t)
    BY <2>1, <2>2, EndsTake DEF Takes
  <2>3. ASSUME Become(t, Answer(t, 0))
        PROVE  SameCall(t)
    BY <2>1, <2>3 DEF Become, Answer, SameCall, ThreadSet
  <2>4. CASE Update(t)
    <3>1. CASE Has(MyChain(t), th[t].k)
      BY <2>2, <2>4, <3>1, UpdateIs
    <3>2. CASE ~Has(MyChain(t), th[t].k)
      BY <2>3, <2>4, <3>2 DEF Update
    <3> QED BY <3>1, <3>2
  <2>5. CASE Remove(t)
    <3>1. CASE Has(MyChain(t), th[t].k)
      BY <2>2, <2>5, <3>1, RemoveIs
    <3>2. CASE ~Has(MyChain(t), th[t].k)
      BY <2>3, <2>5, <3>2 DEF Remove
    <3> QED BY <3>1, <3>2
  <2>6. CASE PutKey(t)
    BY <2>2, <2>6, PutKeyIs
  <2>7. CASE Put(t)
    <3>1. CASE Has(MyChain(t), th[t].k)
      BY <2>3, <2>7, <3>1 DEF Put
    <3>2. CASE Reserves(t)
      <4>1. PICK i : th' = [th EXCEPT ![t] = [th[t] EXCEPT !.pc = "put_key", !.pos = i]]
        BY <2>7, <3>2, ReserveIs
      <4> QED BY <2>1, <4>1 DEF SameCall, ThreadSet
    <3>3. CASE Extends(t)
      <4>1. PICK pc : /\ pc \in {"status", "done"}
                      /\ th' = [th EXCEPT ![t] = [th[t] EXCEPT !.pc = pc, !.res = 1, !.eff = TRUE]]
        BY <2>7, <3>3, ExtendIs
      <4> QED BY <2>1, <4>1 DEF SameCall, ThreadSet
    <3> QED BY <3>1, <3>2, <3>3 DEF Reserves, Extends
  <2> QED BY <1>1, <2>4, <2>5, <2>6, <2>7
<1>2. CASE \/ GetVal(t) \/ GetKey(t) \/ GetAgain(t) \/ Exists(t) \/ LockAcq(t) \/ WaitForNew(t)
           \/ Status(t) \/ ResizeRead(t) \/ ResizeTry(t) \/ CopyBin(t) \/ Swap(t) \/ Publish(t)
           \/ EvictLock(t) \/ EvictKeys(t)
  BY <1>2, MovesContinue DEF Continues
<1> QED BY <1>1, <1>2 DEF Step

\* What a call begins with.
LEMMA CallIs ==
  ASSUME Inv, NEW t \in Threads, NEW op \in build.ops[t], NEW k \in build.keys, Call(t, op, k)
  PROVE  /\ \A u \in Threads : u # t => th'[u] = th[u]
         /\ th'[t].pc \in {"get", "lock", "exists"} /\ th'[t].op = op /\ th'[t].k = k /\ th'[t].tbl = ht
         /\ th'[t].pos = 1 /\ op # "none" /\ k \in Keys /\ tables' = tables /\ ht' = ht
<1>1. op \in {"get", "put", "update", "remove"} /\ k \in Keys /\ th \in [Threads -> ThreadSet]
  BY ClhtAssumption, StateIs DEF Threads, Inv, Types
<1> DEFINE r == [Idle EXCEPT !.pc = CASE op = "get" -> "get" [] op = "update" -> "lock" [] OTHER -> "exists",
                             !.op = op, !.k = k, !.v = IF op \in {"put", "update"} THEN Value(t, k) ELSE 0,
                             !.tbl = ht, !.bin = Hash(k, tables[ht].n), !.pos = 1]
<1>2. th' = [th EXCEPT ![t] = r] /\ tables' = tables /\ ht' = ht
  BY DEF Call, Become
<1>3. r.pc \in {"get", "lock", "exists"} /\ r.op = op /\ r.k = k /\ r.tbl = ht /\ r.pos = 1
  BY <1>1 DEF Idle
<1> HIDE DEF r
<1>4. th'[t] = r /\ \A u \in Threads : u # t => th'[u] = th[u]
  BY <1>1, <1>2
<1> QED BY <1>1, <1>2, <1>3, <1>4

LEMMA WatchIs ==
  ASSUME SeenInv, Watch, NEW t \in Threads, th'[t].pc # "idle" => th'[t].op # "none"
  PROVE  /\ IsFiniteSet(seen'[t])
         /\ th'[t].pc # "idle" => /\ th'[t].op # "none" /\ Lookup(tables'[ht'], th'[t].k) \in seen'[t]
                                  /\ seen[t] \subseteq seen'[t]
<1>1. seen'[t] = IF th'[t].pc = "idle" THEN {} ELSE seen[t] \cup {Lookup(tables'[ht'], th'[t].k)}
  BY DEF Watch
<1>2. IsFiniteSet({}) /\ IsFiniteSet(seen[t])
  BY FS_EmptySet DEF SeenInv
<1>3. IsFiniteSet(seen[t] \cup {Lookup(tables'[ht'], th'[t].k)})
  BY <1>2, FS_AddElement
<1> QED BY <1>1, <1>2, <1>3

LEMMA StepWatches ==
  ASSUME Inv, NEW t \in Threads, Step(t) \/ (\E op \in build.ops[t], k \in build.keys : Call(t, op, k))
  PROVE  Watch
  BY DEF Step, GetVal, GetKey, GetAgain, Exists, LockAcq, WaitForNew, Update, Remove, Put, PutKey,
         Status, ResizeRead, ResizeTry, CopyBin, Swap, Publish, EvictLock, EvictKeys, Return, Call

\* Seen, for thread u after a step of thread t.
LEMMA StepSeen ==
  ASSUME Inv, SeenInv, NEW t \in Threads, Step(t) \/ (\E op \in build.ops[t], k \in build.keys : Call(t, op, k)),
         NEW u \in Threads
  PROVE  /\ IsFiniteSet(seen'[u])
         /\ th'[u].pc # "idle" => /\ th'[u].op # "none" /\ Lookup(tables'[ht'], th'[u].k) \in seen'[u]
                                  /\ seen[u] \subseteq seen'[u]
<1>1. Watch
  BY StepWatches
<1>2. th'[u].pc # "idle" => th'[u].op # "none"
  <2>1. CASE Step(t) /\ ~Return(t)
    BY <2>1, StepSame DEF SameCall, SeenInv
  <2>2. CASE Return(t)
    <3>1. th'[t] = Idle /\ \A x \in Threads : x # t => th'[x] = th[x]
      BY <2>2 DEF Return, Become, Inv, Types
    <3> QED BY <3>1 DEF SeenInv, Idle
  <2>3. ASSUME NEW op \in build.ops[t], NEW k \in build.keys, Call(t, op, k)
        PROVE  th'[u].pc # "idle" => th'[u].op # "none"
    BY <2>3, CallIs DEF SeenInv
  <2> QED BY <2>1, <2>2, <2>3
<1> QED BY <1>1, <1>2, WatchIs

LEMMA NextSeen ==
  ASSUME Inv, SeenInv, [Next]_vars
  PROVE  SeenInv'
<1>1. CASE UNCHANGED vars
  BY <1>1 DEF vars, SeenInv, Contents, Lookup, Chain
<1>2. ASSUME NEW t \in Threads, Step(t) \/ (\E op \in build.ops[t], k \in build.keys : Call(t, op, k))
      PROVE  SeenInv'
  <2>1. \A u \in Threads : Contents(th[u].k)' = Lookup(tables'[ht'], th'[u].k)
    BY DEF Contents, Lookup, Chain
  <2> QED BY <1>2, <2>1, StepSeen DEF SeenInv
<1> QED BY <1>1, <1>2 DEF Next

-----------------------------------------------------------------------------
(* The answers. *)

AnswerOK(r, S, ts) == ReadOK(r, S, Chain(ts[r.tbl], r.k)) /\ Fits(r, S)
AnswerInv == \A t \in Threads : th[t].pc # "idle" => AnswerOK(th[t], seen[t], tables)

LEMMA LookupIn ==
  ASSUME NEW ts \in Seq(TabSet), NEW i \in DOMAIN ts, NEW k \in Nat \ {0},
         \A b \in 0..(ts[i].n - 1) : ChainOK(ts[i].chain[b], b, ts[i].n), NEW S, Lookup(ts[i], k) \in S
  PROVE  /\ \A p \in DOMAIN Chain(ts[i], k) : Chain(ts[i], k)[p].key = k => Chain(ts[i], k)[p].val \in S
         /\ ~Has(Chain(ts[i], k), k) => 0 \in S
<1> DEFINE tab == ts[i]
           c == Chain(tab, k)
           b == Hash(k, tab.n)
<1>1. tab \in TabSet
  BY LenProperties, ElementOfSeq
<1>2. PICK n \in Nat \ {0} : tab \in TablesOf(n)
  BY <1>1 DEF TabSet
<1>3. tab.n = n /\ tab.chain \in [0..(n - 1) -> Seq(Slots)]
  BY <1>2 DEF TablesOf
<1>4. b \in 0..(n - 1) /\ c = tab.chain[b]
  BY <1>3, HashIs DEF Chain
<1>5. c \in Seq(Slots) /\ ChainOK(c, b, n)
  BY <1>3, <1>4
<1> HIDE DEF b, tab
<1>6. /\ \A v : HasPair(c, k, v) => Lookup(tab, k) = v
      /\ ~Has(c, k) => Lookup(tab, k) = 0
  BY <1>5, LookupIs
<1>7. Lookup(tab, k) \in S
  BY DEF tab
<1> HIDE DEF c
<1>8. (\A p \in DOMAIN c : c[p].key = k => c[p].val \in S) /\ (~Has(c, k) => 0 \in S)
  BY <1>6, <1>7 DEF HasPair
<1> QED BY <1>8 DEF c, tab

\* The current table after a step.
LEMMA AfterStep ==
  ASSUME Inv', NEW k \in Nat \ {0}, NEW S, Lookup(tables'[ht'], k) \in S
  PROVE  LET c == Chain(tables'[ht'], k) IN
         (\A p \in DOMAIN c : c[p].key = k => c[p].val \in S) /\ (~Has(c, k) => 0 \in S)
<1>1. tables' \in Seq(TabSet) /\ ht' \in DOMAIN tables'
  BY DEF Inv, Types, HtInv, TabSet, TablesOf
<1>2. \A b \in 0..(tables'[ht'].n - 1) : ChainOK(tables'[ht'].chain[b], b, tables'[ht'].n)
  BY <1>1 DEF Inv, TablesInv, TabOK, ChainOK, Hash
<1> QED BY <1>1, <1>2, LookupIn

\* Where h->ht may go.
HtStep == ht' = ht \/ (tables' = tables /\ ht < ht')

\* What a thread has read is worth as much after a step.
LEMMA OldRead ==
  ASSUME Inv, Inv', FreshInv, AnswerInv, NEW t \in Threads, NEW V, TablesStep(t, V), HtStep,
         NEW u \in Threads, th[u].pc # "idle", NEW T, seen[u] \subseteq T, Lookup(tables'[ht'], th[u].k) \in T
  PROVE  /\ ReadOK(th[u], T, Chain(tables'[th[u].tbl], th[u].k))
         /\ Chain(tables'[th[u].tbl], th[u].k) \in Seq(Slots)
<1> DEFINE i == th[u].tbl
           k == th[u].k
           b == MyBin(u)
           c == MyChain(u)
           d == Chain(tables'[i], k)
           W == Stored(t)
<1>1. /\ i \in DOMAIN tables /\ i \in 1..ht /\ k \in Nat \ {0} /\ b \in Bins(i) /\ c \in Seq(Slots)
      /\ c = tables[i].chain[b] /\ ChainOK(c, b, Tab(u).n) /\ ht \in Nat
  BY MyChainIs, StateIs
<1>2. ReadOK(th[u], seen[u], c)
  BY DEF AnswerInv, AnswerOK, MyChain, Tab
<1>3. th[u].val \notin W
  BY DEF FreshInv, Spent, Stored, Pending
<1>4. d = tables'[i].chain[b]
  BY <1>1 DEF TablesStep, Chain, MyBin, Tab
<1>5. CASE d = c
  <2>1. Edit(c, d, W)
    BY <1>1, <1>5, EditForms
  <2>2. th[u].pc \in Reading \cup Before =>
          (\A p \in DOMAIN d : d[p].key = k => d[p].val \in T) /\ (~Has(d, k) => 0 \in T)
    BY <1>2, <1>5 DEF ReadOK
  <2> HIDE DEF c, d, W
  <2>3. ReadOK(th[u], T, d)
    BY <1>1, <1>2, <1>3, <2>1, <2>2, ReadStable
  <2> QED BY <2>3, <1>1, <1>5 DEF d
<1>6. CASE i = ht /\ ht' = ht
  <2>1. Edit(c, d, W)
    BY <1>1, <1>4, <1>6 DEF TablesStep
  <2>2. (\A p \in DOMAIN d : d[p].key = k => d[p].val \in T) /\ (~Has(d, k) => 0 \in T)
    BY <1>1, <1>6, AfterStep
  <2>3. d \in Seq(Slots)
    BY <2>1 DEF Edit
  <2> HIDE DEF c, d, W
  <2>4. ReadOK(th[u], T, d)
    BY <1>1, <1>2, <1>3, <2>1, <2>2, ReadStable
  <2> QED BY <2>3, <2>4 DEF d
<1>7. i < ht \/ i = ht
  BY <1>1
<1>8. i < ht \/ tables' = tables => d = c
  BY <1>1, <1>4 DEF TablesStep
<1> QED BY <1>5, <1>6, <1>7, <1>8 DEF HtStep

\* A call that has its answer reads no more, and keeps it.
LEMMA NoReads ==
  ASSUME NEW r, NEW S, NEW c, r.pc \in After \cup {"done"}
  PROVE  ReadOK(r, S, c)
  BY DEF ReadOK, After, Reading, Before

LEMMA AnswerKept ==
  ASSUME NEW r, NEW S, NEW T, S \subseteq T, Fits(r, S)
  PROVE  /\ Fits(r, T)
         /\ \A q : r.pc \in After \cup {"done"} /\ q.op = r.op /\ q.res = r.res => Fits(q, T)
<1>1. Two(S) => Two(T)
  BY DEF Two
<1> QED BY <1>1 DEF Fits

\* Threads that do not step.
LEMMA OthersAnswer ==
  ASSUME Inv, Inv', FreshInv, AnswerInv, NEW t \in Threads, NEW V, TablesStep(t, V), HtStep,
         NEW u \in Threads, th'[u] = th[u], th[u].pc # "idle", seen[u] \subseteq seen'[u],
         Lookup(tables'[ht'], th[u].k) \in seen'[u]
  PROVE  AnswerOK(th'[u], seen'[u], tables')
<1>1. ReadOK(th[u], seen'[u], Chain(tables'[th[u].tbl], th[u].k))
  BY OldRead
<1>2. Fits(th[u], seen'[u])
  BY AnswerKept DEF AnswerInv, AnswerOK
<1> QED BY <1>1, <1>2 DEF AnswerOK

\* Searches without a lock: clht_get and bucket_exists.
LEMMA ReaderAnswers ==
  ASSUME Inv, Inv', FreshInv, AnswerInv, NEW t \in Threads, NEW V, TablesStep(t, V),
         GetVal(t) \/ GetKey(t) \/ GetAgain(t) \/ Exists(t), seen[t] \subseteq seen'[t],
         Lookup(tables'[ht'], th[t].k) \in seen'[t]
  PROVE  AnswerOK(th'[t], seen'[t], tables')
<1> DEFINE S == seen'[t]
           c == MyChain(t)
           k == th[t].k
           p == th[t].pos
           w == th[t].val
           Good(r) == ReadOK(r, S, c) /\ Fits(r, S)
<1>1. /\ th[t] \in ThreadSet /\ th \in [Threads -> ThreadSet] /\ CallOK(th[t]) /\ tables' = tables /\ ht' = ht
      /\ th[t].pc \in Reading \cup {"exists"} /\ th[t].pc # "idle"
  BY StateIs DEF GetVal, GetKey, GetAgain, Exists, At, Reading, Inv, Types
<1>2. /\ c \in Seq(Slots) /\ ChainOK(c, MyBin(t), Tab(t).n) /\ k \in Nat \ {0} /\ p \in Nat
      /\ c = Chain(tables[th[t].tbl], k)
  BY <1>1, MyChainIs DEF ThreadSet, MyChain, Tab
<1>3. ReadOK(th[t], S, c)
  BY <1>1, <1>2, OldRead DEF HtStep
<1>4. /\ \A q \in DOMAIN c : c[q].key = k => c[q].val \in S /\ c[q].val # 0
      /\ ~Has(c, k) => 0 \in S
      /\ p >= 1 /\ (0 \in S \/ \A j \in DOMAIN c : j < p => c[j].key # k)
  BY <1>1, <1>2, <1>3 DEF ReadOK, ChainOK, Before
<1>5. DOMAIN c = 1..Len(c) /\ Len(c) \in Nat
  BY <1>2, LenProperties
<1>6. p \notin DOMAIN c => 0 \in S
  <2>1. ASSUME p \notin DOMAIN c
        PROVE  \A j \in DOMAIN c : j < p
    BY <2>1, <1>2, <1>4, <1>5
  <2> QED BY <2>1, <1>4 DEF Has
<1>7. c[p].key # k => 0 \in S \/ \A j \in DOMAIN c : j < p + 1 => c[j].key # k
  <2>1. \A j \in DOMAIN c : j < p + 1 => j < p \/ j = p
    BY <1>2, <1>5
  <2> QED BY <2>1, <1>4
<1>8. ASSUME NEW r, th' = [th EXCEPT ![t] = r], r.tbl = th[t].tbl, r.k = k, Good(r)
      PROVE  AnswerOK(th'[t], S, tables')
  <2>1. th'[t] = r
    BY <1>1, <1>8
  <2> HIDE DEF S
  <2> QED BY <2>1, <1>1, <1>2, <1>8 DEF AnswerOK
<1>9. ASSUME NEW res, Become(t, Answer(t, res)),
             \A op : th[t].op = op =>
               /\ op = "get" => IF res = 0 THEN 0 \in S \/ Two(S) ELSE res \in S
               /\ op = "put" /\ res = 0 => \E a \in S : a # 0
               /\ op = "remove" => res \in S
               /\ op # "update"
      PROVE  AnswerOK(th'[t], S, tables')
  <2> DEFINE r == Answer(t, res)
  <2>1. th' = [th EXCEPT ![t] = r]
    BY <1>9 DEF Become
  <2>2. r.tbl = th[t].tbl /\ r.k = k /\ r.op = th[t].op /\ r.res = res /\ r.pc = "done"
    BY <1>1 DEF Answer, ThreadSet
  <2> HIDE DEF r
  <2>3. ReadOK(r, S, c)
    BY <2>2, NoReads
  <2>4. Fits(r, S)
    BY <2>2, <1>9 DEF Fits
  <2> QED BY <2>1, <2>2, <2>3, <2>4, <1>8
<1>10. CASE GetVal(t)
  <2>1. th[t].pc = "get" /\ th[t].op = "get"
    BY <1>1, <1>10 DEF GetVal, At, CallOK, Reading
  <2>2. CASE p \in DOMAIN c
    <3> DEFINE r == [th[t] EXCEPT !.pc = "get_key", !.val = c[p].val]
    <3>1. th' = [th EXCEPT ![t] = r]
      BY <1>10, <2>2 DEF GetVal, Become
    <3>2. r.tbl = th[t].tbl /\ r.k = k /\ r.pos = p /\ r.val = c[p].val /\ r.pc = "get_key"
      BY <1>1 DEF ThreadSet
    <3> HIDE DEF r
    <3>3. ReadOK(r, S, c)
      BY <2>2, <3>2, <1>4 DEF ReadOK
    <3>4. Fits(r, S)
      BY <3>2 DEF Fits, After
    <3> QED BY <3>1, <3>2, <3>3, <3>4, <1>8
  <2>3. CASE p \notin DOMAIN c
    BY <2>1, <2>3, <1>6, <1>9, <1>10 DEF GetVal
  <2> QED BY <2>2, <2>3
<1>11. CASE GetKey(t)
  <2>1. th[t].pc = "get_key" /\ th[t].op = "get" /\ p \in DOMAIN c /\ (c[p].key = k => 0 \in S \/ w \in S)
    BY <1>1, <1>3, <1>11 DEF GetKey, At, CallOK, Reading, ReadOK
  <2>2. CASE c[p].key = k
    <3> DEFINE r == [th[t] EXCEPT !.pc = "get_again"]
    <3>1. th' = [th EXCEPT ![t] = r]
      BY <1>11, <2>2 DEF GetKey, Goto, Become
    <3>2. r.tbl = th[t].tbl /\ r.k = k /\ r.pos = p /\ r.val = w /\ r.pc = "get_again"
      BY <1>1 DEF ThreadSet
    <3> HIDE DEF r
    <3>3. c[p].val \in S /\ (0 \in S \/ Two(S) \/ c[p].val = w)
      BY <2>1, <2>2, <1>4 DEF Two
    <3>4. ReadOK(r, S, c)
      BY <2>1, <2>2, <3>2, <3>3, <1>4 DEF ReadOK
    <3>5. Fits(r, S)
      BY <3>2 DEF Fits, After
    <3> QED BY <3>1, <3>2, <3>4, <3>5, <1>8
  <2>3. CASE c[p].key # k
    <3> DEFINE r == [th[t] EXCEPT !.pc = "get", !.pos = @ + 1]
    <3>1. th' = [th EXCEPT ![t] = r]
      BY <1>11, <2>3 DEF GetKey, Become
    <3>2. r.tbl = th[t].tbl /\ r.k = k /\ r.pos = p + 1 /\ r.pc = "get"
      BY <1>1 DEF ThreadSet
    <3> HIDE DEF r
    <3>3. p + 1 >= 1
      BY <1>2
    <3>4. ReadOK(r, S, c)
      BY <2>3, <3>2, <3>3, <1>4, <1>7 DEF ReadOK
    <3>5. Fits(r, S)
      BY <3>2 DEF Fits, After
    <3> QED BY <3>1, <3>2, <3>4, <3>5, <1>8
  <2> QED BY <2>2, <2>3
<1>12. CASE GetAgain(t)
  <2>1. th[t].pc = "get_again" /\ th[t].op = "get"
    BY <1>1, <1>12 DEF GetAgain, At, CallOK, Reading
  <2>2. (c[p].val = w => w \in S) /\ (0 \in S \/ Two(S) \/ c[p].val = w)
    BY <2>1, <1>3 DEF ReadOK
  <2>3. CASE c[p].val = w
    BY <2>1, <2>2, <2>3, <1>9, <1>12 DEF GetAgain
  <2>4. CASE c[p].val # w
    BY <2>1, <2>2, <2>4, <1>9, <1>12 DEF GetAgain
  <2> QED BY <2>3, <2>4
<1>13. CASE Exists(t)
  <2>1. th[t].pc = "exists" /\ th[t].op \in {"put", "remove"}
    BY <1>1, <1>13 DEF Exists, At, CallOK
  <2>2. CASE Become(t, [th[t] EXCEPT !.pc = "lock"])
    <3> DEFINE r == [th[t] EXCEPT !.pc = "lock"]
    <3>1. th' = [th EXCEPT ![t] = r]
      BY <2>2 DEF Become
    <3>2. r.tbl = th[t].tbl /\ r.k = k /\ r.pc = "lock"
      BY <1>1 DEF ThreadSet
    <3> HIDE DEF r
    <3>3. ReadOK(r, S, c)
      BY <3>2, <1>4 DEF ReadOK, Reading
    <3>4. Fits(r, S)
      BY <3>2 DEF Fits, After
    <3> QED BY <3>1, <3>2, <3>3, <3>4, <1>8
  <2>3. CASE Become(t, [th[t] EXCEPT !.pos = @ + 1]) /\ c[p].key # k
    <3> DEFINE r == [th[t] EXCEPT !.pos = @ + 1]
    <3>1. th' = [th EXCEPT ![t] = r]
      BY <2>3 DEF Become
    <3>2. r.tbl = th[t].tbl /\ r.k = k /\ r.pos = p + 1 /\ r.pc = "exists"
      BY <2>1, <1>1 DEF ThreadSet
    <3> HIDE DEF r
    <3>3. p + 1 >= 1
      BY <1>2
    <3>4. ReadOK(r, S, c)
      BY <2>3, <3>2, <3>3, <1>4, <1>7 DEF ReadOK, Reading
    <3>5. Fits(r, S)
      BY <3>2 DEF Fits, After
    <3> QED BY <3>1, <3>2, <3>4, <3>5, <1>8
  <2>4. CASE p \in DOMAIN c /\ c[p].key = k
    <3>1. CASE th[t].op = "put"
      <4>1. \E a \in S : a # 0
        BY <2>4, <1>4
      <4>2. Become(t, Answer(t, 0))
        BY <1>13, <2>4, <3>1 DEF Exists
      <4> QED BY <3>1, <4>1, <4>2, <1>9
    <3>2. CASE th[t].op # "put"
      BY <1>13, <2>2, <2>4, <3>2 DEF Exists
    <3> QED BY <3>1, <3>2
  <2>5. CASE p \in DOMAIN c /\ c[p].key # k
    BY <1>13, <2>3, <2>5 DEF Exists
  <2>6. CASE p \notin DOMAIN c
    <3>1. CASE th[t].op = "put"
      BY <1>13, <2>2, <2>6, <3>1 DEF Exists
    <3>2. CASE th[t].op # "put"
      <4>1. Become(t, Answer(t, 0))
        BY <1>13, <2>6, <3>2 DEF Exists
      <4> QED BY <2>1, <2>6, <3>2, <4>1, <1>6, <1>9
    <3> QED BY <3>1, <3>2
  <2> QED BY <2>4, <2>5, <2>6
<1> QED BY <1>10, <1>11, <1>12, <1>13

\* lock_acq_chk_resize, and the new start in h->ht.
LEMMA LockAnswers ==
  ASSUME Inv, Inv', FreshInv, AnswerInv, NEW t \in Threads, NEW V, TablesStep(t, V),
         LockAcq(t) \/ WaitForNew(t), seen[t] \subseteq seen'[t], Lookup(tables'[ht'], th[t].k) \in seen'[t]
  PROVE  AnswerOK(th'[t], seen'[t], tables')
<1> DEFINE S == seen'[t]
           k == th[t].k
<1>1. /\ th[t] \in ThreadSet /\ th \in [Threads -> ThreadSet] /\ ht' = ht /\ th[t].pc \in {"lock", "wait"}
      /\ th[t].pc # "idle" /\ k \in Nat \ {0}
  BY StateIs, MyChainIs DEF LockAcq, WaitForNew, At, Inv, Types
<1>2. ASSUME NEW r, th' = [th EXCEPT ![t] = r], r.k = k, r.pc \in {"lock", "wait", "locked"},
             LET c == Chain(tables'[r.tbl], k) IN
             (\A p \in DOMAIN c : c[p].key = k => c[p].val \in S) /\ (~Has(c, k) => 0 \in S)
      PROVE  AnswerOK(th'[t], S, tables')
  <2> DEFINE c == Chain(tables'[r.tbl], k)
  <2>1. th'[t] = r
    BY <1>1, <1>2
  <2>2. (\A p \in DOMAIN c : c[p].key = k => c[p].val \in S) /\ (~Has(c, k) => 0 \in S)
    BY <1>2
  <2> HIDE DEF c
  <2>3. ReadOK(r, S, c) /\ Fits(r, S)
    BY <1>2, <2>2 DEF ReadOK, Fits, Reading, After
  <2> QED BY <2>1, <2>3, <1>2 DEF c, AnswerOK
<1>3. CASE LockAcq(t)
  <2> DEFINE c == Chain(tables'[th[t].tbl], k)
  <2>1. ReadOK(th[t], S, c)
    BY <1>1, OldRead DEF HtStep
  <2>2. (\A p \in DOMAIN c : c[p].key = k => c[p].val \in S) /\ (~Has(c, k) => 0 \in S)
    BY <2>1, <1>1 DEF ReadOK, Before
  <2>3. PICK pc \in {"wait", "locked"} : Goto(t, pc)
    BY <1>3 DEF LockAcq
  <2> DEFINE r == [th[t] EXCEPT !.pc = pc]
  <2>4. th' = [th EXCEPT ![t] = r]
    BY <2>3 DEF Goto, Become
  <2>5. r.tbl = th[t].tbl /\ r.k = k /\ r.pc \in {"wait", "locked"}
    BY <1>1, <2>3 DEF ThreadSet
  <2> HIDE DEF r
  <2> QED BY <2>2, <2>4, <2>5, <1>2
<1>4. CASE WaitForNew(t)
  <2> DEFINE r == [th[t] EXCEPT !.pc = "lock", !.tbl = ht]
  <2>1. th' = [th EXCEPT ![t] = r]
    BY <1>4 DEF WaitForNew, Become
  <2>2. r.tbl = ht' /\ r.k = k /\ r.pc = "lock"
    BY <1>1 DEF ThreadSet
  <2> HIDE DEF r
  <2> QED BY <2>1, <2>2, <1>1, <1>2, AfterStep
<1> QED BY <1>3, <1>4

\* Under the lock.
LEMMA WriterAnswers ==
  ASSUME Inv, Inv', AnswerInv, NEW t \in Threads,
         Update(t) \/ Remove(t) \/ Put(t) \/ PutKey(t), seen[t] \subseteq seen'[t],
         Lookup(tables'[ht'], th[t].k) \in seen'[t]
  PROVE  AnswerOK(th'[t], seen'[t], tables')
<1> DEFINE S == seen'[t]
           c == MyChain(t)
           k == th[t].k
<1>1. /\ th[t] \in ThreadSet /\ th \in [Threads -> ThreadSet] /\ ht' = ht /\ th[t].pc \in {"locked", "put_key"}
      /\ th[t].pc # "idle"
  BY StateIs DEF Update, Remove, Put, PutKey, At, Inv, Types
<1>2. /\ th[t].tbl = ht /\ k \in Nat \ {0} /\ c \in Seq(Slots) /\ ChainOK(c, MyBin(t), tables[ht].n)
  BY <1>1, HeldIs
<1>3. /\ \A p \in DOMAIN c : c[p].key = k => c[p].val \in S /\ c[p].val # 0
      /\ ~Has(c, k) => 0 \in S
  <2>1. ReadOK(th[t], seen[t], c)
    BY <1>1 DEF AnswerInv, AnswerOK, MyChain, Tab
  <2> QED BY <2>1, <1>1, <1>2 DEF ReadOK, Before, ChainOK
<1>4. ASSUME NEW r, th' = [th EXCEPT ![t] = r], r.op = th[t].op, r.pc \in After \cup {"done"},
             /\ r.op \in {"put", "update", "remove"}
             /\ r.op = "put" /\ r.res = 0 => Has(c, k)
             /\ r.op = "remove" => r.res \in S
             /\ r.op = "update" /\ r.res = 0 => 0 \in S
      PROVE  AnswerOK(th'[t], S, tables')
  <2>1. th'[t] = r
    BY <1>1, <1>4
  <2>2. Fits(r, S)
    BY <1>3, <1>4 DEF Fits, Has
  <2>3. ReadOK(r, S, Chain(tables'[r.tbl], r.k))
    BY <1>4, NoReads
  <2> QED BY <2>1, <2>2, <2>3 DEF AnswerOK
<1>5. ASSUME Become(t, Answer(t, 0)), th[t].op \in {"put", "update", "remove"}, th[t].op = "put" <=> Has(c, k)
      PROVE  AnswerOK(th'[t], S, tables')
  <2> DEFINE r == Answer(t, 0)
  <2>1. th' = [th EXCEPT ![t] = r]
    BY <1>5 DEF Become
  <2>2. r.op = th[t].op /\ r.res = 0 /\ r.pc = "done"
    BY <1>1 DEF ThreadSet, Answer
  <2> HIDE DEF r
  <2> QED BY <2>1, <2>2, <1>3, <1>4, <1>5
<1>6. ASSUME NEW d, NEW res, Ends(t, d, res), res # 0, th[t].op \in {"put", "update", "remove"},
             th[t].op = "remove" => res \in S
      PROVE  AnswerOK(th'[t], S, tables')
  <2> DEFINE r == [th[t] EXCEPT !.pc = "done", !.res = res, !.eff = TRUE]
  <2>1. th' = [th EXCEPT ![t] = r]
    BY <1>6 DEF Ends
  <2>2. r.op = th[t].op /\ r.res = res /\ r.pc = "done"
    BY <1>1 DEF ThreadSet
  <2> HIDE DEF r
  <2> QED BY <2>1, <2>2, <1>4, <1>6
<1>7. CASE Update(t)
  <2>1. th[t].op = "update"
    BY <1>7 DEF Update
  <2>2. CASE Has(c, k)
    <3>1. PICK d : Ends(t, d, 1)
      BY <2>2, <1>7, UpdateIs
    <3> QED BY <2>1, <3>1, <1>6
  <2>3. CASE ~Has(c, k)
    BY <2>1, <2>3, <1>5, <1>7 DEF Update
  <2> QED BY <2>2, <2>3
<1>8. CASE Remove(t)
  <2>1. th[t].op = "remove"
    BY <1>8 DEF Remove
  <2>2. CASE Has(c, k)
    <3>1. PICK d, i : i \in DOMAIN c /\ c[i].key = k /\ Ends(t, d, c[i].val)
      BY <2>2, <1>8, RemoveIs
    <3>2. c[i].val \in S /\ c[i].val # 0
      BY <3>1, <1>3
    <3> QED BY <2>1, <3>1, <3>2, <1>6
  <2>3. CASE ~Has(c, k)
    BY <2>1, <2>3, <1>5, <1>8 DEF Remove
  <2> QED BY <2>2, <2>3
<1>9. CASE PutKey(t)
  <2>1. th[t].op = "put"
    BY <1>9, StateIs DEF PutKey, At, CallOK
  <2>2. PICK d : Ends(t, d, 1)
    BY <1>9, PutKeyIs
  <2> QED BY <2>1, <2>2, <1>6
<1>10. CASE Put(t)
  <2>1. th[t].op = "put"
    BY <1>10 DEF Put
  <2>2. CASE Has(c, k)
    BY <2>1, <2>2, <1>5, <1>10 DEF Put
  <2>3. CASE Reserves(t)
    <3>1. PICK i : th' = [th EXCEPT ![t] = [th[t] EXCEPT !.pc = "put_key", !.pos = i]]
      BY <1>10, <2>3, ReserveIs
    <3> DEFINE r == [th[t] EXCEPT !.pc = "put_key", !.pos = i]
               d == Chain(tables'[ht'], k)
    <3>2. th'[t] = r /\ r.pc = "put_key" /\ r.k = k /\ r.tbl = ht'
      BY <3>1, <1>1, <1>2 DEF ThreadSet
    <3> HIDE DEF r
    <3>3. (\A p \in DOMAIN d : d[p].key = k => d[p].val \in S) /\ (~Has(d, k) => 0 \in S)
      BY <1>2, AfterStep
    <3> HIDE DEF d
    <3>4. ReadOK(r, S, d) /\ Fits(r, S)
      BY <3>2, <3>3 DEF ReadOK, Fits, Reading, After
    <3> QED BY <3>2, <3>4 DEF AnswerOK, d
  <2>4. CASE Extends(t)
    <3>1. PICK pc : /\ pc \in {"status", "done"}
                    /\ th' = [th EXCEPT ![t] = [th[t] EXCEPT !.pc = pc, !.res = 1, !.eff = TRUE]]
      BY <1>10, <2>4, ExtendIs
    <3> DEFINE r == [th[t] EXCEPT !.pc = pc, !.res = 1, !.eff = TRUE]
    <3>2. r.op = th[t].op /\ r.res = 1 /\ r.pc \in After \cup {"done"}
      BY <3>1, <1>1 DEF ThreadSet, After
    <3>3. th' = [th EXCEPT ![t] = r]
      BY <3>1
    <3>4. r.op = "put" /\ r.op # "remove" /\ r.op # "update" /\ r.res # 0
      BY <2>1, <3>2
    <3> HIDE DEF r
    <3> QED BY <3>2, <3>3, <3>4, <1>4
  <2> QED BY <2>2, <2>3, <2>4 DEF Reserves, Extends
<1> QED BY <1>7, <1>8, <1>9, <1>10

\* The resizes and evictions that follow a put.
LEMMA AfterAnswers ==
  ASSUME Inv, AnswerInv, NEW t \in Threads, seen[t] \subseteq seen'[t],
         \/ Status(t) \/ ResizeRead(t) \/ ResizeTry(t) \/ CopyBin(t) \/ Swap(t) \/ Publish(t)
         \/ EvictLock(t) \/ EvictKeys(t)
  PROVE  AnswerOK(th'[t], seen'[t], tables')
<1> DEFINE S == seen'[t]
           Same == th'[t].op = th[t].op /\ th'[t].res = th[t].res /\ th'[t].pc \in After \cup {"done"}
<1>1. th[t] \in ThreadSet /\ th \in [Threads -> ThreadSet] /\ th[t].pc \in After /\ th[t].pc # "idle"
  BY DEF Status, ResizeRead, ResizeTry, CopyBin, Swap, Publish, EvictLock, EvictKeys, At, After, Inv, Types
<1>2. Same
  <2>1. ASSUME NEW pc \in After \cup {"done"}, Goto(t, pc)
        PROVE  Same
    BY <1>1, <2>1 DEF Goto, Become, ThreadSet
  <2>2. CASE Status(t)
    <3>1. ASSUME NEW by, Become(t, [th[t] EXCEPT !.pc = "resize", !.by = by])
          PROVE  Same
      BY <1>1, <3>1 DEF Become, ThreadSet, After
    <3>2. CASE Become(t, [th[t] EXCEPT !.pc = "evict", !.tbl = ht])
      BY <1>1, <3>2 DEF Become, ThreadSet, After
    <3> QED BY <2>1, <2>2, <3>1, <3>2 DEF Status
  <2>3. CASE ResizeRead(t)
    BY <1>1, <2>3 DEF ResizeRead, Become, ThreadSet, After
  <2>4. CASE ResizeTry(t)
    <3>1. CASE Become(t, [th[t] EXCEPT !.pc = "copy", !.new = Len(tables) + 1, !.pos = 0])
      BY <1>1, <3>1 DEF Become, ThreadSet, After
    <3> QED BY <2>1, <2>4, <3>1 DEF ResizeTry
  <2>5. CASE CopyBin(t)
    BY <1>1, <2>5 DEF CopyBin, Become, ThreadSet
  <2>6. CASE Swap(t)
    BY <1>1, <2>6 DEF Swap, Become, ThreadSet, After
  <2>7. CASE Publish(t)
    <3>1. PICK pc \in {"status", "done"} : Goto(t, pc)
      BY <2>7 DEF Publish
    <3> QED BY <3>1, <2>1 DEF After
  <2>8. CASE EvictLock(t)
    <3>1. CASE Become(t, [th[t] EXCEPT !.tbl = ht])
      BY <1>1, <3>1 DEF Become, ThreadSet
    <3>2. CASE Goto(t, "evict_keys")
      BY <3>2, <2>1 DEF After
    <3> QED BY <2>8, <3>1, <3>2 DEF EvictLock
  <2>9. CASE EvictKeys(t)
    BY <2>1, <2>9 DEF EvictKeys
  <2> QED BY <2>2, <2>3, <2>4, <2>5, <2>6, <2>7, <2>8, <2>9
<1>3. Fits(th[t], seen[t])
  BY <1>1 DEF AnswerInv, AnswerOK
<1>4. Fits(th'[t], S)
  BY <1>1, <1>2, <1>3, AnswerKept
<1>5. ReadOK(th'[t], S, Chain(tables'[th'[t].tbl], th'[t].k))
  BY <1>2, NoReads
<1> QED BY <1>4, <1>5 DEF AnswerOK

LEMMA StepHt ==
  ASSUME Inv, NEW t \in Threads, Step(t) \/ (\E op \in build.ops[t], k \in build.keys : Call(t, op, k))
  PROVE  HtStep
<1>1. CASE Swap(t)
  <2>1. tables' = tables /\ ht' = ht + 1 /\ ht \in Nat
    BY <1>1, StateIs DEF Swap, At, ResizeOK
  <2>2. ht < ht'
    BY <2>1
  <2> QED BY <2>1, <2>2 DEF HtStep
<1>2. CASE ~Swap(t)
  BY <1>2 DEF HtStep, Step, GetVal, GetKey, GetAgain, Exists, LockAcq, WaitForNew, Update, Remove, Put, PutKey,
              Status, ResizeRead, ResizeTry, CopyBin, Publish, EvictLock, EvictKeys, Return, Call
<1> QED BY <1>1, <1>2

LEMMA NextAnswer ==
  ASSUME Inv, Inv', FreshInv, SeenInv, AnswerInv, [Next]_vars
  PROVE  AnswerInv'
<1>1. AnswerInv' <=> \A u \in Threads : th'[u].pc # "idle" => AnswerOK(th'[u], seen'[u], tables')
  BY DEF AnswerInv, AnswerOK, Chain, Hash, ReadOK, Fits, Has, Two
<1>2. CASE UNCHANGED vars
  <2>1. th' = th /\ seen' = seen /\ tables' = tables
    BY <1>2 DEF vars
  <2> QED BY <1>1, <2>1 DEF AnswerInv
<1>3. ASSUME NEW t \in Threads, Step(t) \/ (\E op \in build.ops[t], k \in build.keys : Call(t, op, k)),
             UNCHANGED build, NEW u \in Threads, th'[u].pc # "idle"
      PROVE  AnswerOK(th'[u], seen'[u], tables')
  <2>1. TablesStep(t, Nat)
    <3>1. Stored(t) \subseteq Nat
      BY StateIs DEF Stored, ThreadSet
    <3> QED BY <3>1, <1>3, StepTables
  <2>2. HtStep
    BY <1>3, StepHt
  <2>3. Lookup(tables'[ht'], th'[u].k) \in seen'[u] /\ seen[u] \subseteq seen'[u]
    BY <1>3, StepSeen
  <2>4. CASE u # t
    <3>1. th'[u] = th[u]
      <4>1. CASE Step(t) /\ ~Return(t)
        BY <2>4, <4>1, StepSame DEF SameCall
      <4>2. CASE Return(t)
        BY <2>4, <4>2 DEF Return, Become, Inv, Types
      <4>3. ASSUME NEW op \in build.ops[t], NEW k \in build.keys, Call(t, op, k)
            PROVE  th'[u] = th[u]
        BY <2>4, <4>3, CallIs
      <4> QED BY <1>3, <4>1, <4>2, <4>3
    <3> QED BY <3>1, <1>3, <2>1, <2>2, <2>3, OthersAnswer
  <2>5. CASE u = t /\ Step(t)
    <3>1. ~Return(t)
      BY <1>3, <2>5 DEF Return, Become, Idle, Inv, Types
    <3>2. th'[t].k = th[t].k
      BY <2>5, <3>1, StepSame DEF SameCall
    <3>3. CASE GetVal(t) \/ GetKey(t) \/ GetAgain(t) \/ Exists(t)
      BY <2>1, <2>3, <2>5, <3>2, <3>3, ReaderAnswers
    <3>4. CASE LockAcq(t) \/ WaitForNew(t)
      BY <2>1, <2>3, <2>5, <3>2, <3>4, LockAnswers
    <3>5. CASE Update(t) \/ Remove(t) \/ Put(t) \/ PutKey(t)
      BY <2>3, <2>5, <3>2, <3>5, WriterAnswers
    <3>6. CASE \/ Status(t) \/ ResizeRead(t) \/ ResizeTry(t) \/ CopyBin(t) \/ Swap(t) \/ Publish(t)
               \/ EvictLock(t) \/ EvictKeys(t)
      BY <2>3, <2>5, <3>6, AfterAnswers
    <3> QED BY <2>5, <3>1, <3>3, <3>4, <3>5, <3>6 DEF Step
  <2>6. ASSUME NEW op \in build.ops[t], NEW k \in build.keys, Call(t, op, k), u = t
        PROVE  AnswerOK(th'[t], seen'[t], tables')
    <3> DEFINE r == th'[t]
               S == seen'[t]
               c == Chain(tables'[ht'], k)
    <3>1. r.pc \in {"get", "lock", "exists"} /\ r.k = k /\ r.tbl = ht' /\ r.pos = 1 /\ k \in Nat \ {0}
      BY <2>6, CallIs, ClhtAssumption
    <3>2. (\A p \in DOMAIN c : c[p].key = k => c[p].val \in S) /\ (~Has(c, k) => 0 \in S)
      BY <2>3, <2>6, <3>1, AfterStep
    <3>3. c \in Seq(Slots)
      <4>1. tables' = tables /\ ht' = ht /\ ht \in DOMAIN tables
        BY <2>6, CallIs, StateIs
      <4>2. Hash(k, tables[ht].n) \in Bins(ht)
        BY <4>1, <3>1, TableOf, HashIs DEF Bins
      <4> QED BY <4>1, <4>2, ChainLength DEF Chain
    <3>4. r.pos >= 1 /\ \A j \in DOMAIN c : ~(j < r.pos)
      BY <3>1, <3>3, LenProperties
    <3> HIDE DEF r, S, c
    <3>5. ReadOK(r, S, c) /\ Fits(r, S)
      BY <3>1, <3>2, <3>4 DEF ReadOK, Fits, After
    <3> QED BY <3>1, <3>5 DEF AnswerOK, r, S, c
  <2> QED BY <1>3, <2>4, <2>5, <2>6
<1> QED BY <1>1, <1>2, <1>3 DEF Next

LEMMA FitsIsFit ==
  ASSUME Inv, SeenInv, AnswerInv
  PROVE  AnswersFit
<1> SUFFICES ASSUME NEW t \in Threads, At(t, "done")
             PROVE  LET r == th[t] IN
                    CASE r.op = "get" -> IF r.res = 0 THEN 0 \in seen[t] \/ Cardinality(seen[t]) > 1
                                         ELSE r.res \in seen[t]
                      [] r.op = "put" -> r.res = 0 => seen[t] # {0}
                      [] r.op = "remove" -> r.res \in seen[t]
                      [] r.op = "update" -> r.res = 0 => 0 \in seen[t]
  BY DEF AnswersFit
<1> DEFINE r == th[t]
           S == seen[t]
<1>1. r.pc = "done" /\ r \in ThreadSet /\ r.op # "none" /\ IsFiniteSet(S)
  BY StateIs DEF At, SeenInv
<1>2. r.op \in {"get", "put", "remove", "update"}
  BY <1>1 DEF ThreadSet
<1>3. Fits(r, S)
  BY <1>1 DEF AnswerInv, AnswerOK
<1>4. Two(S) => Cardinality(S) > 1
  <2>1. ASSUME NEW a \in S, NEW b \in S, a # b
        PROVE  Cardinality(S) > 1
    <3>1. Cardinality({a}) = 1 /\ {a} \in SUBSET S /\ S # {a}
      BY <2>1, FS_Singleton
    <3>2. Cardinality({a}) <= Cardinality(S) /\ Cardinality(S) # Cardinality({a})
      BY <1>1, <3>1, FS_Subset
    <3>3. Cardinality(S) \in Nat
      BY <1>1, FS_CardinalityType
    <3> QED BY <3>1, <3>2, <3>3
  <2> QED BY <2>1 DEF Two
<1> HIDE DEF r, S
<1>5. CASE r.op = "get"
  BY <1>1, <1>3, <1>4, <1>5 DEF Fits, r, S
<1>6. CASE r.op = "put"
  BY <1>1, <1>3, <1>6 DEF Fits, r, S
<1>7. CASE r.op = "remove"
  BY <1>1, <1>3, <1>7 DEF Fits, r, S
<1>8. CASE r.op = "update"
  BY <1>1, <1>3, <1>8 DEF Fits, r, S
<1> QED BY <1>2, <1>5, <1>6, <1>7, <1>8

(***************************************************************************)
(* Every answer of clht_get, clht_put, clht_update and clht_remove fits a  *)
(* moment of its call, through concurrent stores, reuse of slots and       *)
(* resizes, for any number of threads, keys and calls.  No value is stored *)
(* twice: clht_get compares the value that it reads before and after the   *)
(* key, and takes equal values for an unchanged slot.                      *)
(***************************************************************************)
THEOREM AnswersAreFit == ASSUME SmallIsNotSparse, FreshValues PROVE Spec => []AnswersFit
<1>1. Init => SeenInv /\ AnswerInv
  BY FS_EmptySet DEF Init, Idle, SeenInv, AnswerInv
<1>2. Init => FreshInv
  BY InitFresh
<1>3. Inv /\ FreshInv /\ [Next]_vars => FreshInv'
  BY NextFresh
<1>4. Inv /\ SeenInv /\ [Next]_vars => SeenInv'
  BY NextSeen
<1>5. Inv /\ Inv' /\ FreshInv /\ SeenInv /\ AnswerInv /\ [Next]_vars => AnswerInv'
  BY NextAnswer
<1>6. Inv /\ SeenInv /\ AnswerInv => AnswersFit
  BY FitsIsFit
<1> QED BY <1>1, <1>2, <1>3, <1>4, <1>5, <1>6, InvHolds, PTL DEF Spec
=============================================================================
