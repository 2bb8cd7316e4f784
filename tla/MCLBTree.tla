------------------------------ MODULE MCLBTree ------------------------------
(* Instances of LBTree for TLC. *)
EXTENDS LBTree, TLC

\* A leaf of two lines: slot 0 beside the meta words, slots 1 and 2 beside the
\* next pointers.
TwoLines == (0 :> {0}) @@ (1 :> {1, 2})

Evens(n) == [i \in 1..n |-> 2 * i]
Bulk(n, bfill, threads, targets) ==
  [keys |-> Evens(n), bfill |-> bfill, threads |-> threads, targets |-> targets]
\* Two levels of inner nodes over leaves with one key; a full leaf beside one
\* with one key; two leaves that two threads loaded; a full inner root; a full
\* inner node under a root with room.
Shapes == {Bulk(4, 40, 1, {6, 8}), Bulk(4, 100, 1, {3, 8}), Bulk(2, 40, 2, {2, 4}),
           Bulk(9, 100, 1, {5}), Bulk(12, 100, 1, {5})}
Small == {Bulk(3, 40, 1, {2, 4, 6})}
=============================================================================
