------------------------------- MODULE Entry -------------------------------
(***************************************************************************)
(* One Entry of EPL-Tree: a block of NVM that holds the link to the next   *)
(* entry, the smallest key, a split flag and K unsorted key/value pairs    *)
(* (entry.h).  A slot whose key is 0 (INVALID_KEY) is empty.               *)
(*                                                                         *)
(* The block is an array of 8-byte words, next, min_key, flag, then key    *)
(* and value of each slot, and clflush (pmem.h) works on lines of 8 words. *)
(* So all words of a line become durable together and two lines become     *)
(* durable in either order.  The cache may write a line back at any time:  *)
(* what a line may hold after a power failure is EVERYTHING it held since  *)
(* it was last flushed and fenced.  This module has the entry's contents   *)
(* and these sets; the order of its stores comes from the methods.         *)
(***************************************************************************)
EXTENDS Naturals

CONSTANT K                             \* KVS_PER_ENTRY

ASSUME KAssumption == K \in Nat \ {0, 1}

Slots == 0..(K - 1)

(***************************************************************************)
(* Layout.  Words 0, 1 and 2 are next, min_key and flag.  A slot whose key *)
(* is the last word of a line has its value in the next line.              *)
(***************************************************************************)
KeyWord(i) == 3 + 2 * i
ValWord(i) == 4 + 2 * i
NumWords == 3 + 2 * K
LineOf(w) == w \div 8
Lines == 0..LineOf(NumWords - 1)
Straddles(i) == LineOf(KeyWord(i)) # LineOf(ValWord(i))

Block == [next : Nat, min : Nat, flag : {0, 1},
          key : [Slots -> Nat], val : [Slots -> Nat]]

EmptyBlock == [next |-> 0, min |-> 0, flag |-> 0,
               key |-> [i \in Slots |-> 0], val |-> [i \in Slots |-> 0]]

\* The words of an entry for which In holds, 0 elsewhere.
Part(e, In(_)) ==
  [next |-> IF In(0) THEN e.next ELSE 0,
   min  |-> IF In(1) THEN e.min ELSE 0,
   flag |-> IF In(2) THEN e.flag ELSE 0,
   key  |-> [i \in Slots |-> IF In(KeyWord(i)) THEN e.key[i] ELSE 0],
   val  |-> [i \in Slots |-> IF In(ValWord(i)) THEN e.val[i] ELSE 0]]

OnLine(e, l) == Part(e, LAMBDA w : LineOf(w) = l)

\* The block whose line l is f[l].
Assemble(f) ==
  [next |-> f[0].next, min |-> f[0].min, flag |-> f[0].flag,
   key  |-> [i \in Slots |-> f[LineOf(KeyWord(i))].key[i]],
   val  |-> [i \in Slots |-> f[LineOf(ValWord(i))].val[i]]]

-----------------------------------------------------------------------------
(* Durability.  d[l] is the set of contents line l may have after a crash. *)

\* The block went through the contents in the set vs, without a flush.
Wrote(d, vs) == [l \in Lines |-> d[l] \union {OnLine(e, l) : e \in vs}]

\* Faulty: no clflush at all.
FlushNothing(d, e, w) == d

\* clflush of the line that word w lies in, then fence.
FlushWord(d, e, w) == [d EXCEPT ![LineOf(w)] = {OnLine(e, LineOf(w))}]

\* NVM::Mem_persist(entry, sizeof(Entry)).
Persist(e) == [l \in Lines |-> {OnLine(e, l)}]

\* The blocks a power failure may leave.
Survivors(d) ==
  {Assemble(f) : f \in {g \in [Lines -> UNION {d[l] : l \in Lines}] :
                           \A l \in Lines : g[l] \in d[l]}}

-----------------------------------------------------------------------------
(* Reading an entry. *)

HasKey(e, k) == \E i \in Slots : e.key[i] = k

\* The slot the loops of Get, MaybePut, Update and Remove stop at.
FirstSlot(e, k) ==
  CHOOSE i \in Slots : e.key[i] = k /\ \A j \in Slots : j < i => e.key[j] # k

-----------------------------------------------------------------------------
(***************************************************************************)
(* Writing an entry.  kv is a function from 0..n-1 to pairs <<key, value>>.*)
(* Fill is the block after the first s of the stores val 0, key 0, val 1,  *)
(* key 1 ... of the loop that both the constructor and setOrderedKVs run.  *)
(***************************************************************************)
Fill(e, kv, s) ==
  [e EXCEPT !.key = [i \in Slots |-> IF 2 * i + 1 < s THEN kv[i][1] ELSE e.key[i]],
            !.val = [i \in Slots |-> IF 2 * i < s THEN kv[i][2] ELSE e.val[i]]]

\* memset of the words from..K, seen after the first words up to w.
Zeroed(e, from, w) == Part(e, LAMBDA x : x < from \/ x >= w)

\* Faulty: next keeps what the memory held, because memset is left out.
NewEntryDirty(m, kv, n) ==
  [next |-> m, min |-> m, flag |-> 0,
   key |-> [i \in Slots |-> IF i < n THEN kv[i][1] ELSE 0],
   val |-> [i \in Slots |-> IF i < n THEN kv[i][2] ELSE 0]]

\* new (e) Entry(init_min_key, init_kvs, size)
NewEntry(m, kv, n) ==
  [next |-> 0, min |-> m, flag |-> 0,
   key |-> [i \in Slots |-> IF i < n THEN kv[i][1] ELSE 0],
   val |-> [i \in Slots |-> IF i < n THEN kv[i][2] ELSE 0]]

NewEntryVersions(e, m, kv, n) ==
  {Zeroed(e, 0, w) : w \in 0..NumWords}
    \union {Fill([EmptyBlock EXCEPT !.min = m], kv, s) : s \in 0..(2 * n)}

\* e->setOrderedKVs(new_kvs, size)
SetOrderedKVs(e, kv, n) ==
  [e EXCEPT !.min = kv[0][1],
            !.key = [i \in Slots |-> IF i < n THEN kv[i][1] ELSE 0],
            !.val = [i \in Slots |-> IF i < n THEN kv[i][2] ELSE 0]]

SetOrderedKVsVersions(e, kv, n) ==
  {Zeroed(e, 3, w) : w \in 3..NumWords}
    \union {Fill(Zeroed(e, 3, NumWords), kv, s) : s \in 0..(2 * n)}
    \union {SetOrderedKVs(e, kv, n)}
=============================================================================
