------------------------------- MODULE Cache -------------------------------
(***************************************************************************)
(* What a concurrent cache promises: a map on which put, update and remove *)
(* take effect at one moment between call and return, at most once and     *)
(* only if put finds the key absent, the other two find it present; and    *)
(* which may forget entries at any time.                                   *)
(***************************************************************************)
EXTENDS Naturals

CONSTANTS Threads, Keys

VARIABLES
  map,    \* value of each key, 0 if absent
  req     \* the call of each thread: operation, key, value, took effect

cacheVars == <<map, req>>

NoCall == [op |-> "none", key |-> 0, val |-> 0, done |-> FALSE]

\* A cache starts with any contents.
CacheInit == DOMAIN map = Keys /\ req = [t \in Threads |-> NoCall]

Call(t) ==
  /\ req[t] = NoCall /\ req'[t].done = FALSE
  /\ req' = [req EXCEPT ![t] = req'[t]]
  /\ UNCHANGED map

Effect(t) ==
  LET r == req[t] IN
  /\ ~r.done
  /\ req' = [req EXCEPT ![t].done = TRUE]
  /\ \/ r.op = "put" /\ map[r.key] = 0 /\ map' = [map EXCEPT ![r.key] = r.val]
     \/ r.op = "update" /\ map[r.key] # 0 /\ map' = [map EXCEPT ![r.key] = r.val]
     \/ r.op = "remove" /\ map[r.key] # 0 /\ map' = [map EXCEPT ![r.key] = 0]

Return(t) == req' = [req EXCEPT ![t] = NoCall] /\ UNCHANGED map

Forget ==
  /\ \E lost \in SUBSET Keys : map' = [k \in Keys |-> IF k \in lost THEN 0 ELSE map[k]]
  /\ UNCHANGED req

CacheNext == (\E t \in Threads : Call(t) \/ Effect(t) \/ Return(t)) \/ Forget
CacheSpec == CacheInit /\ [][CacheNext]_cacheVars
=============================================================================
