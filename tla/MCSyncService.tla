---------------------------- MODULE MCSyncService ----------------------------
(* Constants of the runs of SyncService. *)
EXTENDS SyncService, TLC

\* Statements never overlap: the one connection of Open is always reused.
OneConnection == {TRUE}
\* Overlapping statements: the pool opens connections without the pragma.
Pool == BOOLEAN

\* Requests are alike, and so are model ids.
Alike == Permutations(Sync) \cup Permutations(Model)
==============================================================================
