------------------------------ MODULE Multimap ------------------------------
(***************************************************************************)
(* What a data node of ALEX promises the tree: for every key the payloads  *)
(* inserted under it, oldest first.  A call changes them once, when it     *)
(* returns, as its kind and its arguments say.  While an insert waits, a   *)
(* split may leave the node with the side of a key that the insert is for. *)
(***************************************************************************)
EXTENDS Integers, Sequences

CONSTANTS Keys, Payloads

VARIABLES
    values,     \* [Keys -> Seq(Payloads)]
    req         \* the current call: op, key, payload, finish, inclusive; op is "none" between calls

Empty(K) == [k \in Keys |-> IF k \in K THEN <<>> ELSE values[k]]

Call == req.op = "none" /\ req'.op # "none" /\ req'.key \in Keys /\ UNCHANGED values

Returned(op) == req.op = op /\ req'.op = "none"

Insert ==
    /\ Returned("insert")
    /\ values' = [values EXCEPT ![req.key] = Append(@, req.payload)]

EraseOne ==
    /\ Returned("erase_one")
    /\ values' = IF values[req.key] = <<>> THEN values ELSE [values EXCEPT ![req.key] = Tail(@)]

Erase == Returned("erase") /\ values' = Empty({req.key})

InRange(k) == req.key <= k /\ IF req.inclusive THEN k <= req.finish ELSE k < req.finish

EraseRange == Returned("erase_range") /\ values' = Empty({k \in Keys : InRange(k)})

Split ==
    /\ req.op = "insert" /\ UNCHANGED req
    /\ \E mid \in Keys :
          values' = IF req.key < mid THEN Empty({k \in Keys : k >= mid})
                    ELSE Empty({k \in Keys : k < mid})

Next == Call \/ Insert \/ EraseOne \/ Erase \/ EraseRange \/ Split

Spec == /\ values \in [Keys -> Seq(Payloads)] /\ req.op = "none"
        /\ [][Next]_<<values, req>>
=============================================================================
