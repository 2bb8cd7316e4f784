------------------------------- MODULE LinMap -------------------------------
(***************************************************************************)
(* What a concurrent index promises its clients: a map from keys to values *)
(* (0 for an absent key) that each call changes once, at one moment        *)
(* between its start and its return, and then only as its operation says.  *)
(***************************************************************************)
EXTENDS Naturals

CONSTANTS Keys, Clients, Initially

VARIABLES dict, call

linVars == <<dict, call>>

Idle == [op |-> "none", k |-> 0, v |-> 0, done |-> FALSE]

\* insert leaves a key that is there alone, update one that is absent.
Outcome(c) ==
  CASE c.op = "insert" /\ dict[c.k] = 0 -> c.v
    [] c.op = "update" /\ dict[c.k] # 0 -> c.v
    [] c.op = "put"    -> c.v
    [] c.op = "remove" -> 0
    [] OTHER           -> dict[c.k]

LinInit == dict \in Initially /\ call = [t \in Clients |-> Idle]

Start(t) ==
  /\ call[t] = Idle
  /\ call'[t] # Idle /\ call'[t].k \in Keys /\ ~call'[t].done
  /\ UNCHANGED dict

Effect(t) ==
  /\ call[t] # Idle /\ ~call[t].done
  /\ dict' = [dict EXCEPT ![call[t].k] = Outcome(call[t])]
  /\ call'[t] = [call[t] EXCEPT !.done = TRUE]

\* A call without an effect so far has none when it returns.
Finish(t) ==
  /\ call[t] # Idle
  /\ call[t].done \/ Outcome(call[t]) = dict[call[t].k]
  /\ call'[t] = Idle
  /\ UNCHANGED dict

LinNext ==
  \E t \in Clients :
    /\ Start(t) \/ Effect(t) \/ Finish(t)
    /\ \A u \in Clients \ {t} : call'[u] = call[u]
    /\ DOMAIN call' = Clients
LinSpec == LinInit /\ [][LinNext]_linVars
=============================================================================
