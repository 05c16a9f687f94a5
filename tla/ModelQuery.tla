----------------------------- MODULE ModelQuery ------------------------------
(***************************************************************************)
(* ListByKey and ListMerged of internal/models/store.go: how the rows of   *)
(* the join of providers, provider_keys and model_cache become the tree    *)
(* that a list or a search answers with.  A table is what the join sees:   *)
(* which providers are enabled, and the provider, the flag and the cached  *)
(* models of each key.  A search is given by the models whose id it        *)
(* matches (like '%q%'); a list matches all.                               *)
(***************************************************************************)
EXTENDS Naturals, SequencesExt

CONSTANTS
    Shift,      \* what a shift of a provider id multiplies by: 2^32 in the code
    ProviderId, KeyId,
    ModelId     \* in the order of the ids

(***************************************************************************)
(* Ids are int64 and never reused.  From Shift on two keys may share an    *)
(* index: this module, and the code, are right below that only.  A table   *)
(* has finitely many rows.                                                 *)
(***************************************************************************)
ASSUME ModelQueryAssumption ==
    /\ Shift \in Nat /\ ProviderId \cup KeyId \subseteq 0..(Shift - 1)
    /\ ModelId \subseteq Nat /\ IsFiniteSet(ModelId)

Tables == [enabled : SUBSET ProviderId,
           keys : [KeyId -> [provider : ProviderId, enabled : BOOLEAN,
                             cache : SUBSET ModelId]]]

\* Rows of the query: <<provider, key, model>>.
Rows(t, matched) ==
    {r \in t.enabled \X KeyId \X matched :
        LET k == t.keys[r[2]] IN k.enabled /\ k.provider = r[1] /\ r[3] \in k.cache}

\* order by p.id, k.id, m.model_id
Precedes(r, s) ==
    \/ r[1] < s[1]
    \/ r[1] = s[1] /\ r[2] < s[2]
    \/ r[1] = s[1] /\ r[2] = s[2] /\ r[3] < s[3]

RowsBefore(rows, r) == {s \in rows : Precedes(s, r)}
InOrder(rows) ==
    [i \in 1..Cardinality(rows) |->
        CHOOSE r \in rows : Cardinality(RowsBefore(rows, r)) = i - 1]

\* Mutant: the shift is one bit short.
ShortCompoundKey(p, k) == p * (Shift \div 2) + k
\* providerID<<32 | keyID: below Shift no bit is set on both sides.
CompoundKey(p, k) == p * Shift + k

\* index[key] = at
With(index, key, at) ==
    [k \in DOMAIN index \cup {key} |-> IF k = key THEN at ELSE index[k]]

\* The provider of a row, found or appended.
WithProvider(acc, p) ==
    IF p \in DOMAIN acc.providerIndex THEN acc
    ELSE [acc EXCEPT
            !.result = Append(@, [id |-> p, keys |-> <<>>]),
            !.providerIndex = With(@, p, Len(acc.result) + 1)]

\* The key of a row, found or appended to its provider.
WithKey(acc, p, k) ==
    LET pi == acc.providerIndex[p] IN
    IF CompoundKey(p, k) \in DOMAIN acc.keyIndex THEN acc
    ELSE [acc EXCEPT
            !.result[pi].keys = Append(@, [id |-> k, models |-> <<>>]),
            !.keyIndex = With(@, CompoundKey(p, k), Len(acc.result[pi].keys) + 1)]

\* The loop body.  Models differ between keys in owned_by: here, the key they are of.
Filed(acc, r) ==
    LET b == WithKey(WithProvider(acc, r[1]), r[1], r[2])
        pi == b.providerIndex[r[1]]
        ki == b.keyIndex[CompoundKey(r[1], r[2])]
    IN [b EXCEPT !.result[pi].keys[ki].models =
                    Append(@, [id |-> r[3], owned_by |-> r[2]])]

NoIndex == [i \in {} |-> 0]
NoneFiled == [result |-> <<>>, providerIndex |-> NoIndex, keyIndex |-> NoIndex]

ListByKey(t, matched) ==
    FoldLeft(Filed, NoneFiled, InOrder(Rows(t, matched))).result

\* The models of a provider from its first key to its last.
ModelsOf(keys) == FoldLeft(LAMBDA ms, k : ms \o k.models, <<>>, keys)

\* Mutant: a later key replaces what an earlier one has.
KeptLast(seen, m) == With(seen, m.id, m)

\* The first loop: seen keeps the first model of each id.
Kept(seen, m) == IF m.id \in DOMAIN seen THEN seen ELSE With(seen, m.id, m)

\* Mutant: a model that was taken stays in seen.
TakenAgain(acc, m) ==
    IF m.id \in DOMAIN acc.seen THEN [acc EXCEPT !.models = Append(@, acc.seen[m.id])]
    ELSE acc

\* The second loop: what seen kept is taken once.
Taken(acc, m) ==
    IF m.id \in DOMAIN acc.seen
      THEN [models |-> Append(acc.models, acc.seen[m.id]),
            seen |-> [id \in DOMAIN acc.seen \ {m.id} |-> acc.seen[id]]]
      ELSE acc

Seen(all) == FoldLeft(Kept, NoIndex, all)
Merged(all) == FoldLeft(Taken, [models |-> <<>>, seen |-> Seen(all)], all).models

ListMerged(t, matched) ==
    LET byKey == ListByKey(t, matched) IN
    [i \in DOMAIN byKey |->
        [id |-> byKey[i].id, models |-> Merged(ModelsOf(byKey[i].keys))]]

\* listResponse; with another mode the request is refused.
Listed(t, form, matched) ==
    IF form = "merged" THEN ListMerged(t, matched) ELSE ListByKey(t, matched)

------------------------------------------------------------------------------
Ascending(s) == \A i, j \in DOMAIN s : i < j => s[i].id < s[j].id
Distinct(s) == \A i, j \in DOMAIN s : i # j => s[i].id # s[j].id

(***************************************************************************)
(* README.md: Provider -> Key -> Models.  The tree holds every row of the  *)
(* query once, under its own provider and key, in the order of the ids,    *)
(* and no provider or key without a model.                                 *)
(***************************************************************************)
TreeIsRows(tree, rows) ==
    /\ Ascending(tree)
    /\ \A i \in DOMAIN tree : Ascending(tree[i].keys) /\ tree[i].keys # <<>>
    /\ \A i \in DOMAIN tree : \A k \in ToSet(tree[i].keys) :
          Ascending(k.models) /\ k.models # <<>>
    /\ rows = UNION {UNION {{<<p.id, k.id, m.id>> : m \in ToSet(k.models)} :
                                k \in ToSet(p.keys)} : p \in ToSet(tree)}

(***************************************************************************)
(* README.md: merged drops duplicate ids within a provider.  Every model   *)
(* of an enabled key is there once, as the first of the keys has it.       *)
(***************************************************************************)
MergedIsRows(merged, rows) ==
    /\ Ascending(merged)
    /\ {p.id : p \in ToSet(merged)} = {r[1] : r \in rows}
    /\ \A p \in ToSet(merged) :
          /\ Distinct(p.models)
          /\ {<<m.id, m.owned_by>> : m \in ToSet(p.models)} =
                {<<r[3], r[2]>> : r \in {r \in rows : r[1] = p.id /\
                    \A s \in rows : s[1] = p.id /\ s[3] = r[3] => r[2] <= s[2]}}

\* The answers to a list and to a search by key, over every table.
KeysListed ==
    \A t \in Tables, matched \in SUBSET ModelId :
        TreeIsRows(Listed(t, "by_key", matched), Rows(t, matched))

\* The merged answers, over every table.
MergedOnce ==
    \A t \in Tables, matched \in SUBSET ModelId :
        MergedIsRows(Listed(t, "merged", matched), Rows(t, matched))
==============================================================================
