---------------------------- MODULE MCStoreOpen ------------------------------
(* The run of StoreOpen. *)
EXTENDS StoreOpen
==============================================================================
