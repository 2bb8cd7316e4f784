---------------------------- MODULE EpliProofs ----------------------------
(***************************************************************************)
(* SW-Table stays coherent with EPL-Tree, for all keys, values, sampling   *)
(* rates and hit rates, as long as clients update stored keys only.        *)
(***************************************************************************)
EXTENDS Epli, TLAPS

\* An update of an absent key would turn a cached miss into a value.
Disciplined == ~UpdateAbsent

TableInv == TypeOK /\ Coherent

\* A put leaves each entry as it was, evicts it or stores the value given.
LEMMA TablePutEntries ==
  ASSUME NEW k \in Keys, NEW v, NEW t \in TablePut(k, v), table \in [Keys -> Vals \cup {0, NoEntry}],
         v \in Vals \cup {0}
  PROVE  /\ t \in [Keys -> Vals \cup {0, NoEntry}]
         /\ \A j \in Keys : t[j] \in {table[j], NoEntry} \/ (j = k /\ t[j] = v)
  BY DEF TablePut

\* TableInv holds of the empty tree and the empty table.
LEMMA TableInvInit == Init => TableInv
  BY EpliAssumption DEF Init, TableInv, TypeOK, Coherent, EmptyTable

\* Every step preserves TableInv.
LEMMA TableInvStep ==
  ASSUME Disciplined, TableInv, [Next]_vars
  PROVE  TableInv'
<1> USE EpliAssumption DEF TableInv
<1>1. ASSUME NEW k \in Keys, NEW v \in Vals, Put(k, v)
      PROVE  TableInv'
  BY <1>1 DEF Put, TypeOK, Coherent
<1>2. ASSUME NEW k \in Keys, NEW v \in Vals, Update(k, v)
      PROVE  TableInv'
  BY <1>2 DEF Update, TableUpdate, TreeUpdate, Disciplined, TypeOK, Coherent
<1>3. ASSUME NEW k \in Keys, Remove(k)
      PROVE  TableInv'
  BY <1>3 DEF Remove, TableRemove, TypeOK, Coherent
<1>4. ASSUME NEW k \in Keys, GetClosed(k)
      PROVE  TableInv'
  BY <1>4 DEF GetClosed, TypeOK, Coherent
<1>5. ASSUME NEW k \in Keys, GetHit(k)
      PROVE  TableInv'
  BY <1>5 DEF GetHit, CountAndMaybeClose, TypeOK, Coherent
<1>6. ASSUME NEW k \in Keys, GetMiss(k)
      PROVE  TableInv'
  <2>1. /\ table' \in [Keys -> Vals \cup {0, NoEntry}]
        /\ \A j \in Keys : table'[j] \in {table[j], NoEntry} \/ (j = k /\ table'[j] = tree[k])
    <3>1. CASE table' = table
      BY <3>1 DEF TypeOK
    <3>2. CASE table' \in TablePut(k, tree[k])
      BY <1>6, <3>2, TablePutEntries DEF TypeOK
    <3> QED BY <1>6, <3>1, <3>2 DEF GetMiss
  <2>2. tree' = tree /\ TypeOK'
    BY <1>6, <2>1 DEF GetMiss, CountAndMaybeClose, TypeOK
  <2>3. Coherent'
    BY <2>1, <2>2 DEF Coherent
  <2> QED BY <2>2, <2>3
<1>7. CASE Reset
  BY <1>7 DEF Reset, TypeOK, Coherent
<1>8. CASE Restart
  BY <1>8 DEF Restart, EmptyTable, TypeOK, Coherent
<1>9. CASE UNCHANGED vars
  BY <1>9 DEF vars, TypeOK, Coherent
<1> QED BY <1>1, <1>2, <1>3, <1>4, <1>5, <1>6, <1>7, <1>8, <1>9 DEF Next

LEMMA TableInvHolds == ASSUME Disciplined PROVE Spec => []TableInv
<1>1. TableInv /\ [Next]_vars => TableInv'
  BY TableInvStep
<1> QED BY <1>1, TableInvInit, PTL DEF Spec

\* The table never holds a value that the tree does not have: epli.h changes
\* the table before the tree, also while the table is closed.
THEOREM TableIsCoherent == ASSUME Disciplined PROVE Spec => []Coherent
<1>1. TableInv => Coherent
  BY DEF TableInv
<1> QED BY <1>1, TableInvHolds, PTL

\* EPLI::Get returns what the tree has, from wherever it takes it.
THEOREM GetsAreExact == ASSUME Disciplined PROVE Spec => GetReturnsStored
<1> DEFINE Exact(k) == val' = [key |-> k, val |-> tree[k]]
<1>1. ASSUME TableInv, NEW k \in Keys, GetClosed(k) \/ GetMiss(k)
      PROVE  Exact(k)
  BY <1>1 DEF GetClosed, GetMiss
<1>2. ASSUME TableInv, NEW k \in Keys, GetHit(k)
      PROVE  Exact(k)
  BY <1>2 DEF GetHit, TableGet, TableInv, Coherent
<1>3. TableInv => [\A k \in Keys : GetClosed(k) \/ GetHit(k) \/ GetMiss(k) => Exact(k)]_vars
  BY <1>1, <1>2
<1> QED BY <1>3, TableInvHolds, PTL DEF GetReturnsStored
=============================================================================
