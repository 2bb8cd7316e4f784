------------------------------ MODULE KvStore ------------------------------
(***************************************************************************)
(* What a persistent index promises its (single) client: a map from keys   *)
(* to values, 0 for an absent key.  A call changes the keys it names, all  *)
(* at once and at one moment between call and return; a power failure      *)
(* leaves every key that no interrupted call names as it was, and every    *)
(* key that the interrupted call names with its old or its new value.      *)
(***************************************************************************)
EXTENDS Naturals

CONSTANT Keys

VARIABLES
  dict,   \* the map
  req,    \* the current call: key |-> [old, new] for each key it names
  up      \* the machine has power

kvVars == <<dict, req, up>>

NoReq == [k \in {} |-> [old |-> 0, new |-> 0]]

Applied(r) == [k \in Keys |-> IF k \in DOMAIN r THEN r[k].new ELSE dict[k]]

KvInit == dict = [k \in Keys |-> 0] /\ req = NoReq /\ up = TRUE

\* A call starts; it may take effect in the same step.
Call ==
  /\ up /\ req = NoReq /\ req' # NoReq
  /\ DOMAIN req' \subseteq Keys
  /\ \A k \in DOMAIN req' : req'[k].old = dict[k]
  /\ dict' \in {dict, Applied(req')}
  /\ UNCHANGED up

Effect == up /\ dict' = Applied(req) /\ UNCHANGED <<req, up>>

\* The call returns STATUS_OK: it has taken effect.
Return ==
  /\ up /\ req # NoReq /\ req' = NoReq
  /\ dict' = Applied(req)
  /\ UNCHANGED up

PowerFails == up /\ up' = FALSE /\ UNCHANGED <<dict, req>>

Restart ==
  /\ ~up /\ up' = TRUE /\ req' = NoReq
  /\ DOMAIN dict' = Keys
  /\ \A k \in Keys : dict'[k] \in IF k \in DOMAIN req THEN {req[k].old, req[k].new}
                                  ELSE {dict[k]}

KvNext == Call \/ Effect \/ Return \/ PowerFails \/ Restart
KvSpec == KvInit /\ [][KvNext]_kvVars

\* A weaker promise: a restart leaves the keys in the set fragile with any value.
RestartBut(fragile) ==
  /\ ~up /\ up' = TRUE /\ req' = NoReq
  /\ DOMAIN dict' = Keys
  /\ \A k \in Keys \ fragile :
       dict'[k] \in IF k \in DOMAIN req THEN {req[k].old, req[k].new} ELSE {dict[k]}

KvNextBut(fragile) == Call \/ Effect \/ Return \/ PowerFails \/ RestartBut(fragile)
=============================================================================
