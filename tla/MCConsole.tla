------------------------------ MODULE MCConsole ------------------------------
(***************************************************************************)
(* The run of Console, with the lists its page shows: ModelQuery has no    *)
(* state, so its statements over all of its tables are evaluated once.     *)
(***************************************************************************)
EXTENDS Console, ModelQuery

\* A page that shows a list by key shows the tree of ListByKey.
ListedByKey == data.shown /\ data.mode = "by_key" => KeysListed
\* A page that shows the merged list shows that of ListMerged.
ListedMerged == data.shown /\ data.mode = "merged" => MergedOnce
==============================================================================
