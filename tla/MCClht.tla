------------------------------ MODULE MCClht ------------------------------
(* Builds and calls for TLC to start from. *)
EXTENDS Clht

Growing(first, second) ==
  [EntriesPerBucket |-> 1, InitBuckets |-> 1, PercFullHalve |-> 10, RatioHalve |-> 2,
   OccupAfterRes |-> 100, MaxBucketSize |-> 9, Preload |-> <<1>>, keys |-> {1, 3, 5},
   ops |-> <<first, second>>]
\* A table that is sparse by its settings, and small enough to reach its limit.
Shrinking(first, second) ==
  [EntriesPerBucket |-> 2, InitBuckets |-> 2, PercFullHalve |-> 80, RatioHalve |-> 2,
   OccupAfterRes |-> 100, MaxBucketSize |-> 5, Preload |-> <<1, 3, 5, 7>>, keys |-> {1, 5, 9},
   ops |-> <<first, second>>]

MCBuilds == {
  Growing({"put", "remove"}, {"put", "remove"}), Growing({"put", "update"}, {"get", "update"}),
  Growing({"put"}, {"get", "remove"}), Shrinking({"put"}, {"put", "remove"}) }
===========================================================================
