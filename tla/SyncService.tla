----------------------------- MODULE SyncService -----------------------------
(***************************************************************************)
(* internal/models/sync.go over Repository of internal/models/store.go:    *)
(* concurrent synchronisation requests against tables that administration  *)
(* requests change at any time (AdminStatement of Catalog).                *)
(*                                                                         *)
(* A request reads its targets, asks the upstream of each in turn outside  *)
(* any transaction, and then replaces the cached models of all the targets *)
(* that answered in one transaction, with the change run that records it.  *)
(***************************************************************************)
EXTENDS Catalog, Sequences

CONSTANTS
    Sync,     \* bound: synchronisation requests ever made
    DbFails   \* whether the database may refuse a call (SQLITE_BUSY, disk)

ASSUME DbFailsAssumption == DbFails \in BOOLEAN

VARIABLES
    sync,     \* the state of each request, and its results once done
    history   \* model_change_runs with their model_change_events, oldest first

vars == <<catVars, sync, history>>

Scope == {"key", "provider", "all"}
Label == [provider : Name, key : Name]
Event == [added : SUBSET Model, removed : SUBSET Model, label : Label]
Run == [scope : Scope, events : UNION {[K -> Event] : K \in SUBSET Key}]

Outcome == {"none", "ok", "read_error", "fetch_error", "batch_error", "disabled"}

Request == [
    pc : {"idle", "get_key", "disabled", "fetch", "mark", "done", "hung", "dead"},
    scope : Scope,
    targets : SUBSET Key,           \* keys the request reports on
    todo : SUBSET Key,              \* targets not asked yet
    on : BOOLEAN,                   \* SyncKey: the provider read is enabled
    label : [Key -> Label],         \* names as they were when read
    ids : [Key -> SUBSET Model],    \* model ids the upstream answered
    dup : SUBSET Key,               \* targets whose answer repeats an id
    result : [Key -> Outcome]]

AnyLabel == [provider |-> AnyName, key |-> AnyName]

NoSync == [pc |-> "idle", scope |-> "all", targets |-> {}, todo |-> {},
           on |-> FALSE, label |-> [k \in Key |-> AnyLabel],
           ids |-> [k \in Key |-> {}], dup |-> {},
           result |-> [k \in Key |-> "none"]]

TypeOK ==
    /\ CatTypeOK
    /\ sync \in [Sync -> Request]
    /\ history \in Seq(Run)

Init ==
    /\ CatInit
    /\ sync = [s \in Sync |-> NoSync]
    /\ history = <<>>

Owner(k) == provider_keys[k].provider
OwnerLive(k) == Owner(k) \in Provider /\ providers[Owner(k)].live

Put(s, r) == sync' = [sync EXCEPT ![s] = r]

\* `_ = SetKeySyncError(...)`: a failure of the call is ignored.
RecordError(k) ==
    \/ SetKeySyncError(k)
    \/ DbFails /\ UNCHANGED catVars

------------------------------------------------------------------------------
(* Reading the targets *)

\* SyncKey: GetProvider, then GetKeyWithSecret in a second statement.  When
\* either read finds no row, or fails, its error is the result of the key.
StartKey(s, k) ==
    /\ sync[s].pc = "idle" /\ k <= last_id.key
    /\ \/ /\ OwnerLive(k)
          /\ Put(s, [sync[s] EXCEPT !.pc = "get_key", !.scope = "key",
               !.targets = {k}, !.todo = {k}, !.on = providers[Owner(k)].enabled,
               !.label[k] = [@ EXCEPT !.provider = providers[Owner(k)].name]])
       \/ /\ ~OwnerLive(k) \/ DbFails
          /\ Put(s, [sync[s] EXCEPT !.pc = "done", !.scope = "key",
               !.targets = {k}, !.result[k] = "read_error"])
    /\ UNCHANGED <<catVars, history>>

\* Mutant: a key that cannot be read is answered without a result.
GetKeySilent(s) ==
    /\ sync[s].pc = "get_key"
    /\ Put(s, [sync[s] EXCEPT !.pc = "done", !.todo = {}, !.on = FALSE])
    /\ UNCHANGED <<catVars, history>>

GetKey(s) ==
    /\ sync[s].pc = "get_key"
    /\ \E k \in sync[s].todo :
         \/ /\ ~provider_keys[k].live \/ DbFails
            /\ Put(s, [sync[s] EXCEPT !.pc = "done", !.todo = {}, !.on = FALSE,
                         !.result[k] = "read_error"])
         \/ /\ provider_keys[k].live
            /\ sync[s].on /\ provider_keys[k].enabled
            /\ Put(s, [sync[s] EXCEPT !.pc = "fetch", !.on = FALSE,
                         !.label[k] = [@ EXCEPT !.key = provider_keys[k].name]])
         \/ /\ provider_keys[k].live
            /\ ~(sync[s].on /\ provider_keys[k].enabled)
            /\ Put(s, [sync[s] EXCEPT !.pc = "disabled", !.on = FALSE])
    /\ UNCHANGED <<catVars, history>>

RefuseDisabled(s) ==
    /\ sync[s].pc = "disabled"
    /\ \E k \in sync[s].todo :
         /\ RecordError(k)
         /\ Put(s, [sync[s] EXCEPT !.pc = "done", !.todo = {},
                                   !.result[k] = "disabled"])
    /\ UNCHANGED history

\* ListEnabledProviderKeys, one join of the two tables.
EnabledKeys ==
    {k \in Key : /\ provider_keys[k].live /\ provider_keys[k].enabled
                 /\ OwnerLive(k) /\ providers[Owner(k)].enabled}

StartBatch(s, scope, keys) ==
    /\ sync[s].pc = "idle"
    /\ Put(s, [sync[s] EXCEPT
         !.pc = "fetch", !.scope = scope, !.targets = keys, !.todo = keys,
         !.label = [k \in Key |-> IF k \in keys
                      THEN [provider |-> providers[Owner(k)].name,
                            key |-> provider_keys[k].name]
                      ELSE AnyLabel]])
    /\ UNCHANGED <<catVars, history>>

StartProvider(s, p) == StartBatch(s, "provider", EnabledKeys \cap KeysOf(p))
StartAll(s) == StartBatch(s, "all", EnabledKeys)

\* ListEnabledProviderKeys fails: the request answers with that error alone.
StartFails(s) ==
    /\ DbFails /\ sync[s].pc = "idle"
    /\ \E scope \in {"provider", "all"} :
         Put(s, [sync[s] EXCEPT !.pc = "done", !.scope = scope])
    /\ UNCHANGED <<catVars, history>>

------------------------------------------------------------------------------
(* Asking the upstreams, in the order of the join *)

Before(k, j) == Owner(k) < Owner(j) \/ (Owner(k) = Owner(j) /\ k <= j)
NextTargets(s) == {k \in sync[s].todo : \A j \in sync[s].todo : Before(k, j)}

\* fetchModels drops unreadable and empty ids, and keeps repeated ones.
FetchModels(s) ==
    /\ sync[s].pc = "fetch"
    /\ \E k \in NextTargets(s), ids \in SUBSET Model, dup \in BOOLEAN :
         /\ dup => ids # {}
         /\ Put(s, [sync[s] EXCEPT !.todo = @ \ {k}, !.ids[k] = ids,
                      !.result[k] = "ok", !.dup = IF dup THEN @ \cup {k} ELSE @])
    /\ UNCHANGED <<catVars, history>>

FetchFails(s) ==
    /\ sync[s].pc = "fetch"
    /\ \E k \in NextTargets(s) :
         /\ RecordError(k)
         /\ Put(s, [sync[s] EXCEPT !.todo = @ \ {k}, !.result[k] = "fetch_error"])
    /\ UNCHANGED history

\* http.DefaultClient has no timeout: an upstream may keep a request for ever.
FetchHangs(s) ==
    /\ sync[s].pc = "fetch" /\ sync[s].todo # {}
    /\ Put(s, [sync[s] EXCEPT !.pc = "hung"])
    /\ UNCHANGED <<catVars, history>>

------------------------------------------------------------------------------
(* ReplaceSyncedKeyModels: one transaction for all the keys that answered *)

Ok(s) == {k \in Key : sync[s].result[k] = "ok"}
\* Mutant: the transaction is opened before the fetches, and holds the lock.
FetchedUnderLock(s) == /\ sync[s].pc = "fetch" /\ sync[s].todo = {}
                       /\ \A t \in Sync : sync[t].pc # "hung"
Fetched(s) == sync[s].pc = "fetch" /\ sync[s].todo = {}

\* Mutant: model_cache without `references provider_keys(id)`.
InsertableUnchecked(s, fk) == Ok(s) \cap sync[s].dup = {}

\* Mutant: last_sync_at must be set on every key, deleted or not.
InsertableAll(s, fk) ==
    /\ Ok(s) \cap sync[s].dup = {}
    /\ fk => \A k \in Ok(s) : provider_keys[k].live /\ OwnerLive(k)

\* unique(provider_key_id, model_id), and the foreign keys when enforced.
Insertable(s, fk) ==
    /\ Ok(s) \cap sync[s].dup = {}
    /\ fk => \A k \in Ok(s) : sync[s].ids[k] # {} =>
                provider_keys[k].live /\ OwnerLive(k)

\* Mutant: insert without the delete before it.
Merged(s) == [k \in Key |-> IF k \in Ok(s) THEN model_cache[k] \cup sync[s].ids[k]
                                          ELSE model_cache[k]]
Replaced(s) == [k \in Key |-> IF k \in Ok(s) THEN sync[s].ids[k] ELSE model_cache[k]]

\* Mutant: an event for every synchronised key.
ChangedAlways(s) == Ok(s)
Changed(s) == {k \in Key : Replaced(s)[k] # model_cache[k]}

\* Mutant: removals are not recorded.
AdditionEvent(s, k) == [added |-> sync[s].ids[k] \ model_cache[k], removed |-> {},
                        label |-> sync[s].label[k]]
ChangeEvent(s, k) == [added |-> sync[s].ids[k] \ model_cache[k],
                      removed |-> model_cache[k] \ sync[s].ids[k],
                      label |-> sync[s].label[k]]

Commit(s, fk) ==
    /\ Fetched(s) /\ Insertable(s, fk)
    /\ model_cache' = Replaced(s)
    /\ provider_keys' = [k \in Key |->
          IF k \in Ok(s) /\ provider_keys[k].live
            THEN [provider_keys[k] EXCEPT !.failed = FALSE] ELSE provider_keys[k]]
    /\ history' = IF Changed(s) = {} THEN history ELSE Append(history,
          [scope |-> sync[s].scope,
           events |-> [k \in Changed(s) |-> ChangeEvent(s, k)]])
    /\ Put(s, [sync[s] EXCEPT !.pc = "done"])
    /\ UNCHANGED <<providers, last_id>>

\* Mutant: a failed batch is left in a state nobody handles.
AbortAndForget(s, fk) ==
    /\ Fetched(s) /\ Ok(s) # {} /\ ~Insertable(s, fk)
    /\ Put(s, [sync[s] EXCEPT !.pc = "rolled_back"])
    /\ UNCHANGED <<catVars, history>>

\* Rollback; every result that was OK becomes the error of the batch.
Abort(s, fk) ==
    /\ Fetched(s) /\ Ok(s) # {}
    /\ DbFails \/ ~Insertable(s, fk)
    /\ Put(s, [sync[s] EXCEPT !.pc = "mark"])
    /\ UNCHANGED <<catVars, history>>

MarkFailed(s) ==
    /\ sync[s].pc = "mark"
    /\ \E k \in {k \in Ok(s) : \A j \in Ok(s) : Before(k, j)} :
         /\ RecordError(k)
         /\ Put(s, [sync[s] EXCEPT !.result[k] = "batch_error"])
    /\ UNCHANGED history

\* Mutant: the answer is written before every result has been marked.
MarkedEarly(s) ==
    /\ sync[s].pc = "mark"
    /\ Put(s, [sync[s] EXCEPT !.pc = "done"])
    /\ UNCHANGED <<catVars, history>>

Marked(s) ==
    /\ sync[s].pc = "mark" /\ Ok(s) = {}
    /\ Put(s, [sync[s] EXCEPT !.pc = "done"])
    /\ UNCHANGED <<catVars, history>>

------------------------------------------------------------------------------
Started(s) == sync[s].pc \notin {"idle", "done", "hung", "dead"}

\* The process dies and restarts: requests are lost, committed tables are not.
Crash ==
    /\ sync' = [s \in Sync |->
          IF sync[s].pc \in {"idle", "done"} THEN sync[s]
                                             ELSE [NoSync EXCEPT !.pc = "dead"]]
    /\ UNCHANGED <<catVars, history>>

Start(s) ==
    \/ \E k \in Key : StartKey(s, k)
    \/ \E p \in Provider : StartProvider(s, p)
    \/ StartAll(s)
    \/ StartFails(s)

Step(s) ==
    \/ GetKey(s) \/ RefuseDisabled(s)
    \/ FetchModels(s) \/ FetchFails(s) \/ FetchHangs(s)
    \/ \E fk \in FkModes : Commit(s, fk) \/ Abort(s, fk)
    \/ MarkFailed(s) \/ Marked(s)

Admin == AdminStatement /\ UNCHANGED <<sync, history>>

Next ==
    \/ \E s \in Sync : Start(s) \/ Step(s)
    \/ Admin
    \/ Crash

Spec == Init /\ [][Next]_vars

\* A goroutine whose call has returned goes on; a hung fetch has not returned.
FairSpec == Spec /\ \A s \in Sync : WF_vars(Step(s))

------------------------------------------------------------------------------
(***************************************************************************)
(* The cache and the history implement ModelLedger: whatever requests race *)
(* and wherever one stops, a cache of an existing key changes only         *)
(* together with one run that says exactly what changed, and nothing else  *)
(* is ever written to the history (ReplaceSyncedKeyModels).                *)
(***************************************************************************)
Gone == {k \in 1..last_id.key : ~provider_keys[k].live}
Ledger == INSTANCE ModelLedger WITH cache <- model_cache, gone <- Gone
LedgerSpec == Ledger!Spec

(***************************************************************************)
(* Replaying the change events of a key that exists gives its cached       *)
(* models: timeline and model list never disagree.                         *)
(***************************************************************************)
HistoryReplaysCache == Ledger!HistoryReplaysCache

\* Requests that reported k stored.
StoredBy(k) == {s \in Sync : sync[s].pc = "done" /\ sync[s].result[k] = "ok"}

(***************************************************************************)
(* Requests that ask the same upstream at different moments never mix      *)
(* their answers: the cache of a key is the whole answer of one of the     *)
(* requests that reported it OK, and empty when none did.                  *)
(***************************************************************************)
CacheIsOneAnswer ==
    \A k \in Key : provider_keys[k].live =>
        IF StoredBy(k) = {} THEN model_cache[k] = {}
        ELSE \E s \in StoredBy(k) : model_cache[k] = sync[s].ids[k]

(***************************************************************************)
(* syncEnabledKeys answers one result per target, and those of a batch     *)
(* stand or fall together: no request reports one key stored and another   *)
(* lost by the same transaction.                                           *)
(***************************************************************************)
BatchStandsTogether ==
    \A s \in Sync : sync[s].pc = "done" =>
        /\ \A k \in sync[s].targets : sync[s].result[k] # "none"
        /\ \A j, k \in Key : ~( /\ sync[s].result[j] = "ok"
                              /\ sync[s].result[k] = "batch_error")

(***************************************************************************)
(* Every request that started ends, unless an upstream never answers it or *)
(* the process dies: it waits neither for the other requests nor for one   *)
(* that hangs, because no transaction is open during a fetch.              *)
(***************************************************************************)
RequestsEnd == \A s \in Sync : Started(s) ~> ~Started(s)

(***************************************************************************)
(* docs/frontend-api.md: the names of an event are a snapshot of the       *)
(* moment the event is written.                                            *)
(***************************************************************************)
LabelsAreCurrent ==
    [][\A k \in Key :
         Len(history') > Len(history) /\ k \in DOMAIN history'[Len(history')].events
           => history'[Len(history')].events[k].label =
                [provider |-> providers[Owner(k)].name,
                 key |-> provider_keys[k].name]]_vars

(***************************************************************************)
(* docs/frontend-api.md: synchronising everything synchronises every       *)
(* enabled key.  A key that still exists, and whose own upstream listed    *)
(* its models without repetition, is stored.                               *)
(***************************************************************************)
AnsweredKeysAreStored ==
    \A s \in Sync, k \in Key :
        (/\ sync[s].pc = "done" /\ sync[s].result[k] = "batch_error"
         /\ provider_keys[k].live /\ OwnerLive(k))
          => k \in sync[s].dup

(***************************************************************************)
(* Only two things fail a batch, unless the database itself does: a target *)
(* whose upstream repeated an id, and a target with models that was        *)
(* deleted, it or its provider, after the request read it                  *)
(* (ReplaceSyncedKeyModels, whose error every key of the batch reports).   *)
(***************************************************************************)
Exists(k) == provider_keys[k].live /\ OwnerLive(k)
Spoils(s, k) ==
    k \in sync[s].dup \/ (sync[s].ids[k] # {} /\ ~Exists(k))

BatchErrorHasCause ==
    ~DbFails => \A s \in Sync, k \in Key :
        sync[s].result[k] = "batch_error" =>
            \E j \in sync[s].targets : Spoils(s, j)
==============================================================================
