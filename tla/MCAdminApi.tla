----------------------------- MODULE MCAdminApi ------------------------------
(* Constants of the runs of AdminApi. *)
EXTENDS AdminApi, TLC

\* Statements never overlap: the one connection of Open is always reused.
OneConnection == {TRUE}
\* Overlapping statements: the pool opens connections without the pragma.
Pool == BOOLEAN

Clients == Permutations(Admin)
==============================================================================
