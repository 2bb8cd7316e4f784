----------------------------- MODULE DurableMap -----------------------------
(***************************************************************************)
(* What a concurrent index in persistent memory promises: between power    *)
(* failures it is a linearizable map; a failure ends every running call,   *)
(* which has taken effect or has not, and takes nothing back from a call   *)
(* that has returned.  epoch counts the failures.                          *)
(***************************************************************************)
EXTENDS LinMap

VARIABLE epoch

durVars == <<dict, call, epoch>>

Running(k) == {t \in Clients : call[t] # Idle /\ ~call[t].done /\ call[t].k = k}

Fail ==
  /\ epoch' = epoch + 1
  /\ call' = [t \in Clients |-> Idle]
  /\ DOMAIN dict' = Keys
  /\ \A k \in Keys : dict'[k] \in {dict[k]} \cup {Outcome(call[t]) : t \in Running(k)}

DurNext == (LinNext /\ UNCHANGED epoch) \/ Fail
DurSpec == LinInit /\ epoch = 0 /\ [][DurNext]_durVars
=============================================================================
