----------------------------- MODULE ModelLedger -----------------------------
(***************************************************************************)
(* What the model cache and its change history promise together, whoever   *)
(* synchronises: caches change in batches, and each batch appends to the   *)
(* history one run that says exactly what it changed.                      *)
(***************************************************************************)
EXTENDS Naturals, Sequences

CONSTANTS
    Key,        \* keys whose models are cached
    Model,      \* model ids
    Scope,      \* what a run may have been started for
    Label       \* the names an event shows its key under

VARIABLES
    cache,      \* model ids cached for each key
    history,    \* runs, oldest first
    gone        \* keys that were deleted

vars == <<cache, history, gone>>

Event == [added : SUBSET Model, removed : SUBSET Model, label : Label]

(***************************************************************************)
(* The models of k according to the history alone: those whose last event  *)
(* added them.                                                             *)
(***************************************************************************)
Adds(i, k, m) ==
    k \in DOMAIN history[i].events /\ m \in history[i].events[k].added
Removes(i, k, m) ==
    k \in DOMAIN history[i].events /\ m \in history[i].events[k].removed

Replay(k) ==
    {m \in Model : \E i \in DOMAIN history :
        /\ Adds(i, k, m)
        /\ \A j \in DOMAIN history : j > i => ~Removes(j, k, m)}

------------------------------------------------------------------------------
Init ==
    /\ cache = [k \in Key |-> {}]
    /\ history = <<>>
    /\ gone = {}

\* A batch: some caches take new contents, and one run lists the differences.
Replace(new, scope, label) ==
    LET changed == {k \in Key : new[k] # cache[k]} IN
      /\ cache' = new
      /\ changed # {}
      /\ history' = Append(history,
            [scope |-> scope,
             events |-> [k \in changed |-> [added |-> new[k] \ cache[k],
                                            removed |-> cache[k] \ new[k],
                                            label |-> label[k]]]])
      /\ UNCHANGED gone

\* Deletion of keys; the caches of deleted keys may be erased with them.
Forget(keys, erased) ==
    /\ gone' = gone \cup keys
    /\ erased \subseteq gone'
    /\ cache' = [k \in Key |-> IF k \in erased THEN {} ELSE cache[k]]
    /\ UNCHANGED history

Next ==
    \/ \E new \in [Key -> SUBSET Model], scope \in Scope, label \in [Key -> Label] :
          Replace(new, scope, label)
    \/ \E keys, erased \in SUBSET Key : Forget(keys, erased)

Spec == Init /\ [][Next]_vars

------------------------------------------------------------------------------
(***************************************************************************)
(* The cache of a key that still exists is what its change events say: the *)
(* timeline of the administration page and the model list agree.           *)
(***************************************************************************)
HistoryReplaysCache == \A k \in Key \ gone : cache[k] = Replay(k)
==============================================================================
