----------------------------- MODULE MCEplTree -----------------------------
(* Model values and bounds for checking EplTree and EplScan with TLC. *)
EXTENDS EplScan

AllOps == {"insert", "update", "remove"}

\* Every point of Insert, Update and Remove, but for the last step of a split.
QuietPoints == {"idle", "insert", "flush", "split_flag", "split_new"}

\* Loads that fill several entries and have the smallest key in them.
ManyEntries == {{1, 2, 4, 6}}

\* A load that fits in the head, and one that lacks the smallest keys.
OneEntry == {{3, 4}}
NotTheSmallest == {{3, 4, 5}}
=============================================================================
