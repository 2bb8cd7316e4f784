------------------------------ MODULE MCUTree ------------------------------
(* Instances of UTree for TLC. *)
EXTENDS UTree

\* The smallest key comes second, so that it is linked behind list_head.
MostlyAscending == <<2, 1, 3, 4, 6, 7>>
=============================================================================
