------------------------------- MODULE Catalog -------------------------------
(***************************************************************************)
(* The tables providers, provider_keys and model_cache of                  *)
(* internal/store/store.go, and the SQL statements that                    *)
(* internal/providers/store.go and internal/models/store.go run on them.   *)
(* A statement is atomic; the handlers built from several statements are   *)
(* in AdminApi and SyncService.                                            *)
(*                                                                         *)
(* A row keeps the columns the properties tell apart.  name stands for     *)
(* every label that an update may change and that a change event copies    *)
(* (name, base_url); note and the timestamps are left out.                 *)
(***************************************************************************)
EXTENDS Naturals

CONSTANTS
    MaxProvider,  \* bound: provider ids ever allocated
    MaxKey,       \* bound: key ids ever allocated
    Name,         \* labels (name, base_url) of a provider, names of a key
    Secret,       \* values of the api_key column
    Model,        \* model ids
    FkModes       \* values of pragma foreign_keys over the pooled connections

(***************************************************************************)
(* Open runs `pragma foreign_keys = on` once, on one connection, and the   *)
(* pragma belongs to the connection.  FkModes = {TRUE} is a pool that      *)
(* never grows past that connection, BOOLEAN one that does.                *)
(***************************************************************************)
ASSUME CatalogAssumption ==
    /\ MaxProvider \in Nat /\ MaxKey \in Nat
    /\ Name # {} /\ Secret # {}
    /\ FkModes \subseteq BOOLEAN /\ FkModes # {}

Provider == 1..MaxProvider
Key == 1..MaxKey

VARIABLES
    providers,      \* row of each provider id; live: the row exists
    provider_keys,  \* row of each key id
    model_cache,    \* model ids cached under each key id
    last_id         \* sqlite_sequence: AUTOINCREMENT never reuses an id

catVars == <<providers, provider_keys, model_cache, last_id>>

AnyName == CHOOSE n \in Name : TRUE
AnySecret == CHOOSE s \in Secret : TRUE

\* The row of an id that is not (or no longer) in the table.
NoProvider == [live |-> FALSE, name |-> AnyName, enabled |-> FALSE]
\* provider survives the row: cache rows carry provider_id themselves.
NoKey(p) == [live |-> FALSE, provider |-> p, name |-> AnyName,
             api_key |-> AnySecret, enabled |-> FALSE, failed |-> FALSE]

ProviderRow == [live : BOOLEAN, name : Name, enabled : BOOLEAN]
\* failed: last_sync_error is not empty.
KeyRow == [live : BOOLEAN, provider : 0..MaxProvider, name : Name,
           api_key : Secret, enabled : BOOLEAN, failed : BOOLEAN]

CatTypeOK ==
    /\ providers \in [Provider -> ProviderRow]
    /\ provider_keys \in [Key -> KeyRow]
    /\ model_cache \in [Key -> SUBSET Model]
    /\ last_id \in [provider : 0..MaxProvider, key : 0..MaxKey]

CatInit ==
    /\ providers = [p \in Provider |-> NoProvider]
    /\ provider_keys = [k \in Key |-> NoKey(0)]
    /\ model_cache = [k \in Key |-> {}]
    /\ last_id = [provider |-> 0, key |-> 0]

(***************************************************************************)
(* The statements of providers/store.go.                                   *)
(***************************************************************************)
InsertProvider(n, on) ==
    /\ last_id.provider < MaxProvider
    /\ LET p == last_id.provider + 1 IN
         /\ providers' = [providers EXCEPT ![p] =
                              [live |-> TRUE, name |-> n, enabled |-> on]]
         /\ last_id' = [last_id EXCEPT !.provider = p]
    /\ UNCHANGED <<provider_keys, model_cache>>

UpdateProviderRow(p, n, on) ==
    /\ providers[p].live
    /\ providers' = [providers EXCEPT ![p] =
                         [@ EXCEPT !.name = n, !.enabled = on]]
    /\ UNCHANGED <<provider_keys, model_cache, last_id>>

KeysOf(p) == {k \in Key : provider_keys[k].provider = p}

\* `on delete cascade` works only on a connection that enforces foreign keys.
DeleteProviderRow(p, fk) ==
    /\ providers[p].live
    /\ providers' = [providers EXCEPT ![p] = NoProvider]
    /\ provider_keys' = [k \in Key |-> IF fk /\ k \in KeysOf(p)
                                         THEN NoKey(p) ELSE provider_keys[k]]
    /\ model_cache' = [k \in Key |-> IF fk /\ k \in KeysOf(p)
                                       THEN {} ELSE model_cache[k]]
    /\ UNCHANGED last_id

\* Mutant: provider_keys without `references providers(id)`.
KeyInsertableUnchecked(p, fk) == TRUE

\* references providers(id): refused when enforced and the provider is gone.
KeyInsertable(p, fk) == fk => providers[p].live

InsertKey(p, n, s, on, fk) ==
    /\ last_id.key < MaxKey
    /\ KeyInsertable(p, fk)
    /\ LET k == last_id.key + 1 IN
         /\ provider_keys' = [provider_keys EXCEPT ![k] =
                [live |-> TRUE, provider |-> p, name |-> n, api_key |-> s,
                 enabled |-> on, failed |-> FALSE]]
         /\ last_id' = [last_id EXCEPT !.key = k]
    /\ UNCHANGED <<providers, model_cache>>

\* Mutant: the update inserts the row when it is missing.
UpsertKeyRow(k, n, s, on) ==
    /\ provider_keys' = [provider_keys EXCEPT ![k] = [@ EXCEPT
           !.live = TRUE, !.name = n, !.api_key = s, !.enabled = on]]
    /\ UNCHANGED <<providers, model_cache, last_id>>

UpdateKeyRow(k, n, s, on) ==
    /\ provider_keys[k].live
    /\ provider_keys' = [provider_keys EXCEPT ![k] =
                             [@ EXCEPT !.name = n, !.api_key = s, !.enabled = on]]
    /\ UNCHANGED <<providers, model_cache, last_id>>

DeleteKeyRow(k, fk) ==
    /\ provider_keys[k].live
    /\ provider_keys' = [provider_keys EXCEPT
                             ![k] = NoKey(provider_keys[k].provider)]
    /\ model_cache' = [model_cache EXCEPT ![k] = IF fk THEN {} ELSE @]
    /\ UNCHANGED <<providers, last_id>>

(***************************************************************************)
(* Statements of models/store.go.  SetKeySyncError matches no row, and     *)
(* reports no error, when the key is gone.                                 *)
(***************************************************************************)
SetKeySyncError(k) ==
    /\ provider_keys' = IF provider_keys[k].live
                          THEN [provider_keys EXCEPT ![k] = [@ EXCEPT !.failed = TRUE]]
                          ELSE provider_keys
    /\ UNCHANGED <<providers, model_cache, last_id>>

(***************************************************************************)
(* Any one statement of the administration handlers.  A key insert follows *)
(* a check that its provider exists, made at some earlier time: all that   *)
(* is left of it here is that the id was allocated.                        *)
(***************************************************************************)
AdminStatement ==
    \/ \E n \in Name, on \in BOOLEAN : InsertProvider(n, on)
    \/ \E p \in Provider, n \in Name, on \in BOOLEAN : UpdateProviderRow(p, n, on)
    \/ \E p \in Provider, fk \in FkModes : DeleteProviderRow(p, fk)
    \/ \E p \in 1..last_id.provider, n \in Name, s \in Secret, on \in BOOLEAN,
          fk \in FkModes : InsertKey(p, n, s, on, fk)
    \/ \E k \in Key, n \in Name, s \in Secret, on \in BOOLEAN :
          UpdateKeyRow(k, n, s, on)
    \/ \E k \in Key, fk \in FkModes : DeleteKeyRow(k, fk)

(***************************************************************************)
(* What a foreign key is for: a key has its provider, and only keys have   *)
(* cached models.                                                          *)
(***************************************************************************)
NoOrphans ==
    \A k \in Key :
        /\ provider_keys[k].live =>
              /\ provider_keys[k].provider \in Provider
              /\ providers[provider_keys[k].provider].live
        /\ model_cache[k] # {} => provider_keys[k].live
==============================================================================
