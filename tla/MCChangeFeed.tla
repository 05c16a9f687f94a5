---------------------------- MODULE MCChangeFeed -----------------------------
(* Constants of the runs of ChangeFeed. *)
EXTENDS ChangeFeed

\* Requests are alike, and so are changes.
Alike == Permutations(Load) \cup Permutations(Change)
==============================================================================
