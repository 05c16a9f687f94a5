-------------------------- MODULE SyncServiceProofs --------------------------
(***************************************************************************)
(* Theorems about SyncService for any number of providers, keys, requests, *)
(* models and names, and any mix of pooled connections.                    *)
(***************************************************************************)
EXTENDS SyncService, CatalogProofs, TLAPS

USE DEF Provider, Key, Put

LEMMA RecordErrorType ==
    ASSUME CatTypeOK, NEW k \in Key, RecordError(k)
    PROVE  CatTypeOK'
<1>1. [provider_keys[k] EXCEPT !.failed = TRUE] \in KeyRow
  BY ZenonT(60) DEF CatTypeOK, KeyRow
<1> QED
  BY <1>1 DEF RecordError, SetKeySyncError, CatTypeOK, catVars

LEMMA NoSyncType == NoSync \in Request
BY AnyInstances DEF NoSync, Request, Label, AnyLabel, Scope, Outcome

SyncTypeOK == sync \in [Sync -> Request]

LEMMA StartType ==
    ASSUME CatTypeOK, SyncTypeOK, NEW s \in Sync, Start(s)
    PROVE  SyncTypeOK'
<1> DEFINE r == sync[s]
<1> USE DEF SyncTypeOK
<1>1. ASSUME NEW k \in Key, StartKey(s, k)
      PROVE  SyncTypeOK'
  <2>0. r \in Request /\ r.label \in [Key -> Label]
    BY DEF Request
  <2>1. ASSUME OwnerLive(k)
        PROVE  [r EXCEPT !.pc = "get_key", !.scope = "key", !.targets = {k},
                  !.todo = {k}, !.on = providers[Owner(k)].enabled,
                  !.label[k] = [@ EXCEPT !.provider = providers[Owner(k)].name]]
                 \in Request
    <3>1. providers[Owner(k)].name \in Name /\ providers[Owner(k)].enabled \in BOOLEAN
      BY <2>1 DEF OwnerLive, CatTypeOK, ProviderRow
    <3>2. [r.label[k] EXCEPT !.provider = providers[Owner(k)].name] \in Label
      BY <2>0, <3>1 DEF Label
    <3> QED
      BY <2>0, <3>1, <3>2 DEF Request, Scope
  <2>2. [r EXCEPT !.pc = "done", !.scope = "key", !.targets = {k},
                  !.result[k] = "read_error"] \in Request
    BY <2>0 DEF Request, Scope, Outcome
  <2> QED
    BY <1>1, <2>1, <2>2 DEF StartKey
<1>2. ASSUME NEW scope \in Scope, NEW keys \in SUBSET EnabledKeys,
             StartBatch(s, scope, keys)
      PROVE  SyncTypeOK'
  <2> DEFINE names == [k \in Key |-> IF k \in keys
                         THEN [provider |-> providers[Owner(k)].name,
                               key |-> provider_keys[k].name]
                         ELSE AnyLabel]
  <2>1. \A k \in keys : [provider |-> providers[Owner(k)].name,
                         key |-> provider_keys[k].name] \in Label
    BY DEF EnabledKeys, OwnerLive, CatTypeOK, ProviderRow, KeyRow, Label
  <2>2. names \in [Key -> Label]
    BY <2>1, AnyInstances DEF AnyLabel, Label
  <2>3. keys \in SUBSET Key
    BY DEF EnabledKeys
  <2>4. [r EXCEPT !.pc = "fetch", !.scope = scope, !.targets = keys,
                  !.todo = keys, !.label = names] \in Request
    <3> HIDE DEF names
    <3> QED
      BY <2>2, <2>3, ZenonT(60) DEF Request
  <2> QED
    BY <1>2, <2>4 DEF StartBatch
<1>3. CASE StartFails(s)
  <2>1. \A scope \in Scope : [r EXCEPT !.pc = "done", !.scope = scope] \in Request
    BY ZenonT(60) DEF Request
  <2> QED
    BY <1>3, <2>1 DEF StartFails, Scope
<1> QED
  BY <1>1, <1>2, <1>3 DEF Start, StartProvider, StartAll, Scope

LEMMA GetKeyForm ==
    ASSUME NEW s \in Sync, GetKey(s)
    PROVE  \E k \in sync[s].todo :
             \/ Put(s, [sync[s] EXCEPT !.pc = "done", !.todo = {}, !.on = FALSE,
                          !.result[k] = "read_error"])
             \/ Put(s, [sync[s] EXCEPT !.pc = "fetch", !.on = FALSE,
                           !.label[k] = [@ EXCEPT !.key = provider_keys[k].name]])
             \/ Put(s, [sync[s] EXCEPT !.pc = "disabled", !.on = FALSE])
BY Zenon DEF GetKey

\* The only new result of s is that k could not be read.
ReadError(s, k) ==
    /\ sync'[s].result[k] = "read_error"
    /\ \A j \in Key : j # k => sync'[s].result[j] = sync[s].result[j]

\* What StartKey makes of the request, its labels aside.
LEMMA StartKeyEffect ==
    ASSUME SyncTypeOK, NEW s \in Sync, NEW k \in Key, StartKey(s, k)
    PROVE  /\ sync[s].pc = "idle" /\ k <= last_id.key
           /\ \A t \in Sync \ {s} : sync'[t] = sync[t]
           /\ sync'[s].targets = {k}
           /\ \/ /\ sync'[s].pc = "get_key" /\ sync'[s].todo = {k}
                 /\ sync'[s].result = sync[s].result
              \/ /\ sync'[s].pc = "done" /\ sync'[s].todo = sync[s].todo
                 /\ ReadError(s, k)
<1>0. sync[s] \in Request /\ sync \in [Sync -> Request]
  BY DEF SyncTypeOK
<1> DEFINE names == [sync[s].label EXCEPT ![k] =
                       [@ EXCEPT !.provider = providers[Owner(k)].name]]
<1>1. CASE sync' = [sync EXCEPT ![s] = [sync[s] EXCEPT !.pc = "get_key",
                      !.scope = "key", !.targets = {k}, !.todo = {k},
                      !.on = providers[Owner(k)].enabled, !.label = names]]
  <2> HIDE DEF names
  <2> QED
    BY <1>0, <1>1 DEF StartKey, Request
<1>2. CASE Put(s, [sync[s] EXCEPT !.pc = "done", !.scope = "key",
                     !.targets = {k}, !.result[k] = "read_error"])
  BY <1>0, <1>2 DEF StartKey, Request, ReadError
<1> QED
  BY <1>1, <1>2 DEF StartKey

\* What GetKey leaves of the request, its labels aside.
LEMMA GetKeyEffect ==
    ASSUME SyncTypeOK, NEW s \in Sync, GetKey(s)
    PROVE  /\ sync[s].pc = "get_key"
           /\ \A t \in Sync \ {s} : sync'[t] = sync[t]
           /\ sync'[s].targets = sync[s].targets
           /\ \/ /\ sync'[s].pc \in {"fetch", "disabled"}
                 /\ sync'[s].todo = sync[s].todo
                 /\ sync'[s].result = sync[s].result
              \/ /\ sync'[s].pc = "done" /\ sync'[s].todo = {}
                 /\ \E k \in sync[s].todo : ReadError(s, k)
<1>0. sync[s] \in Request /\ sync \in [Sync -> Request]
  BY DEF SyncTypeOK
<1>1. sync[s].pc = "get_key"
  BY DEF GetKey
<1>2. PICK k \in sync[s].todo :
        \/ Put(s, [sync[s] EXCEPT !.pc = "done", !.todo = {}, !.on = FALSE,
                          !.result[k] = "read_error"])
        \/ Put(s, [sync[s] EXCEPT !.pc = "fetch", !.on = FALSE,
                      !.label[k] = [@ EXCEPT !.key = provider_keys[k].name]])
        \/ Put(s, [sync[s] EXCEPT !.pc = "disabled", !.on = FALSE])
  BY GetKeyForm
<1> DEFINE names == [sync[s].label EXCEPT ![k] =
                       [@ EXCEPT !.key = provider_keys[k].name]]
<1>3. CASE sync' = [sync EXCEPT ![s] = [sync[s] EXCEPT !.pc = "fetch",
                      !.on = FALSE, !.label = names]]
  <2> HIDE DEF names
  <2> QED
    BY <1>0, <1>1, <1>3 DEF Request
<1>4. CASE Put(s, [sync[s] EXCEPT !.pc = "done", !.todo = {}, !.on = FALSE,
                          !.result[k] = "read_error"])
  <2>1. k \in Key
    BY <1>0 DEF Request
  <2> QED
    BY <1>0, <1>1, <1>4, <2>1 DEF Request, ReadError
<1>5. CASE Put(s, [sync[s] EXCEPT !.pc = "disabled", !.on = FALSE])
  BY <1>0, <1>1, <1>5 DEF Request
<1> QED
  BY <1>2, <1>3, <1>4, <1>5

LEMMA StepType ==
    ASSUME CatTypeOK, SyncTypeOK, NEW s \in Sync, Step(s)
    PROVE  SyncTypeOK'
<1> DEFINE r == sync[s]
<1>0. r \in Request
  BY DEF SyncTypeOK
<1>1. CASE GetKey(s)
  <2>1. ASSUME NEW k \in Key
        PROVE  /\ [r EXCEPT !.pc = "done", !.todo = {}, !.on = FALSE,
                            !.result[k] = "read_error"] \in Request
               /\ [r EXCEPT !.pc = "fetch", !.on = FALSE,
                            !.label[k] = [@ EXCEPT !.key = provider_keys[k].name]]
                     \in Request
               /\ [r EXCEPT !.pc = "disabled", !.on = FALSE]
                     \in Request
    <3>1. provider_keys[k].name \in Name
      BY DEF CatTypeOK, KeyRow
    <3>2. r.label \in [Key -> Label]
      BY <1>0 DEF Request
    <3>3. [r.label[k] EXCEPT !.key = provider_keys[k].name] \in Label
      BY <3>1, <3>2 DEF Label
    <3> QED
      BY <1>0, <3>2, <3>3 DEF Request, Outcome
  <2>2. sync[s].todo \subseteq Key
    BY <1>0 DEF Request
  <2>3. PICK k \in sync[s].todo :
          \E q \in Request : sync' = [sync EXCEPT ![s] = q]
    <3>1. PICK k \in sync[s].todo :
            \/ Put(s, [r EXCEPT !.pc = "done", !.todo = {}, !.on = FALSE,
                          !.result[k] = "read_error"])
            \/ Put(s, [r EXCEPT !.pc = "fetch", !.on = FALSE,
                          !.label[k] = [@ EXCEPT !.key = provider_keys[k].name]])
            \/ Put(s, [r EXCEPT !.pc = "disabled", !.on = FALSE])
      BY <1>1, GetKeyForm
    <3> QED
      BY <2>1, <2>2, <3>1
  <2> QED
    BY <2>3 DEF SyncTypeOK
<1>2. CASE RefuseDisabled(s)
  <2>1. \A k \in Key : [r EXCEPT !.pc = "done", !.todo = {},
                                !.result[k] = "disabled"] \in Request
    BY <1>0 DEF Request, Outcome
  <2>2. sync[s].todo \subseteq Key
    BY <1>0 DEF Request
  <2> QED
    BY <1>2, <2>1, <2>2, ZenonT(60) DEF RefuseDisabled, SyncTypeOK
<1>3. CASE FetchModels(s)
  <2>1. \A k \in Key, ids \in SUBSET Model, dup \in BOOLEAN :
          [r EXCEPT !.todo = @ \ {k}, !.ids[k] = ids, !.result[k] = "ok",
                    !.dup = IF dup THEN @ \cup {k} ELSE @] \in Request
    BY <1>0, ZenonT(60) DEF Request, Outcome
  <2>2. NextTargets(s) \subseteq Key
    BY <1>0 DEF Request, NextTargets
  <2>3. PICK k \in NextTargets(s), ids \in SUBSET Model, dup \in BOOLEAN :
          sync' = [sync EXCEPT ![s] =
             [r EXCEPT !.todo = @ \ {k}, !.ids[k] = ids, !.result[k] = "ok",
                       !.dup = IF dup THEN @ \cup {k} ELSE @]]
    BY <1>3 DEF FetchModels
  <2>4. [r EXCEPT !.todo = @ \ {k}, !.ids[k] = ids, !.result[k] = "ok",
                  !.dup = IF dup THEN @ \cup {k} ELSE @] \in Request
    BY <2>1, <2>2
  <2> HIDE DEF r
  <2> QED
    BY <2>3, <2>4 DEF SyncTypeOK
<1>4. CASE FetchFails(s)
  <2>1. \A k \in Key : [r EXCEPT !.todo = @ \ {k},
                                !.result[k] = "fetch_error"] \in Request
    BY <1>0 DEF Request, Outcome
  <2>2. NextTargets(s) \subseteq Key
    BY <1>0 DEF Request, NextTargets
  <2> QED
    BY <1>4, <2>1, <2>2 DEF FetchFails, SyncTypeOK
<1>5. \A pc \in {"hung", "mark", "done"} : [r EXCEPT !.pc = pc] \in Request
  BY <1>0 DEF Request
<1>6. CASE FetchHangs(s)
  BY <1>5, <1>6 DEF FetchHangs, SyncTypeOK
<1>7. ASSUME NEW fk \in FkModes, Commit(s, fk) \/ Abort(s, fk)
      PROVE  SyncTypeOK'
  BY <1>5, <1>7 DEF Commit, Abort, SyncTypeOK
<1>8. CASE MarkFailed(s)
  <2>1. \A k \in Key : [r EXCEPT !.result[k] = "batch_error"] \in Request
    BY <1>0 DEF Request, Outcome
  <2> QED
    BY <1>8, <2>1 DEF MarkFailed, Ok, SyncTypeOK
<1>9. CASE Marked(s)
  BY <1>5, <1>9 DEF Marked, SyncTypeOK
<1> QED
  BY <1>1, <1>2, <1>3, <1>4, <1>6, <1>7, <1>8, <1>9 DEF Step

LEMMA CrashType == SyncTypeOK /\ Crash => SyncTypeOK'
<1>1. [NoSync EXCEPT !.pc = "dead"] \in Request
  BY NoSyncType DEF Request
<1> QED
  BY <1>1 DEF SyncTypeOK, Crash

\* What a step of s does to the tables, whatever it is.
LEMMA StepTables ==
    ASSUME CatTypeOK, SyncTypeOK, NEW s \in Sync, Step(s)
    PROVE  \/ UNCHANGED <<catVars, history>>
           \/ /\ \E k \in Key : SetKeySyncError(k)
              /\ UNCHANGED history
           \/ \E fk \in FkModes : Commit(s, fk)
<1>1. sync[s].todo \subseteq Key
  BY DEF SyncTypeOK, Request
<1> QED
  BY <1>1 DEF Step, GetKey, RefuseDisabled, FetchModels, FetchFails, FetchHangs,
              Abort, MarkFailed, Marked, RecordError, NextTargets, Ok

LEMMA CommitRun ==
    ASSUME TypeOK, NEW s \in Sync
    PROVE  /\ Replaced(s) \in [Key -> SUBSET Model]
           /\ [scope |-> sync[s].scope,
               events |-> [k \in Changed(s) |-> ChangeEvent(s, k)]] \in Run
<1>1. sync[s] \in Request
  BY DEF TypeOK
<1>2. /\ sync[s].scope \in Scope
      /\ sync[s].ids \in [Key -> SUBSET Model]
      /\ sync[s].label \in [Key -> Label]
  BY <1>1 DEF Request
<1>3. Replaced(s) \in [Key -> SUBSET Model]
  BY <1>2 DEF Replaced, TypeOK, CatTypeOK
<1>4. \A k \in Key : ChangeEvent(s, k) \in Event
  BY <1>2 DEF ChangeEvent, Event, TypeOK, CatTypeOK
<1>5. Changed(s) \in SUBSET Key
  BY DEF Changed
<1>6. [k \in Changed(s) |-> ChangeEvent(s, k)] \in [Changed(s) -> Event]
  BY <1>4, <1>5
<1> QED
  BY <1>2, <1>3, <1>5, <1>6 DEF Run

LEMMA CommitType ==
    ASSUME TypeOK, NEW s \in Sync, NEW fk \in FkModes, Commit(s, fk)
    PROVE  CatTypeOK' /\ history' \in Seq(Run)
<1>1. provider_keys' \in [Key -> KeyRow]
  <2>1. \A k \in Key : [provider_keys[k] EXCEPT !.failed = FALSE] \in KeyRow
    BY DEF TypeOK, CatTypeOK, KeyRow
  <2>2. \A k \in Key : provider_keys[k] \in KeyRow
    BY DEF TypeOK, CatTypeOK
  <2> QED
    BY <2>1, <2>2 DEF Commit
<1>2. history' \in Seq(Run)
  <2> DEFINE r == [scope |-> sync[s].scope,
                   events |-> [k \in Changed(s) |-> ChangeEvent(s, k)]]
  <2>1. r \in Run
    BY CommitRun
  <2>2. history' = history \/ history' = Append(history, r)
    BY DEF Commit
  <2> HIDE DEF r
  <2> QED
    BY <2>1, <2>2 DEF TypeOK
<1> QED
  BY <1>1, <1>2, CommitRun DEF Commit, TypeOK, CatTypeOK

LEMMA StartFrame ==
    ASSUME NEW s \in Sync, Start(s)
    PROVE  UNCHANGED <<catVars, history>>
BY DEF Start, StartKey, StartProvider, StartAll, StartBatch, StartFails

LEMMA TypeInit == Init => TypeOK
<1> SUFFICES ASSUME Init PROVE TypeOK
  OBVIOUS
<1>1. CatTypeOK
  BY AnyRows, CatalogAssumption DEF Init, CatInit, CatTypeOK
<1>2. sync \in [Sync -> Request]
  BY NoSyncType DEF Init
<1> QED
  BY <1>1, <1>2 DEF Init, TypeOK

LEMMA TypeNext == TypeOK /\ [Next]_vars => TypeOK'
<1> SUFFICES ASSUME TypeOK, [Next]_vars PROVE TypeOK'
  OBVIOUS
<1>0. CatTypeOK /\ SyncTypeOK
  BY DEF TypeOK, SyncTypeOK
<1>1. ASSUME NEW s \in Sync, Start(s)
      PROVE  TypeOK'
  BY <1>0, <1>1, StartType, StartFrame DEF TypeOK, SyncTypeOK, catVars, CatTypeOK
<1>2. ASSUME NEW s \in Sync, Step(s)
      PROVE  TypeOK'
  <2>1. SyncTypeOK'
    BY <1>0, <1>2, StepType
  <2>2. CatTypeOK' /\ history' \in Seq(Run)
    <3>1. CASE UNCHANGED <<catVars, history>>
      BY <3>1 DEF TypeOK, catVars, CatTypeOK
    <3>2. ASSUME NEW k \in Key, SetKeySyncError(k), UNCHANGED history
          PROVE  CatTypeOK' /\ history' \in Seq(Run)
      BY <1>0, <3>2, RecordErrorType DEF RecordError, TypeOK
    <3>3. ASSUME NEW fk \in FkModes, Commit(s, fk)
          PROVE  CatTypeOK' /\ history' \in Seq(Run)
      BY <3>3, CommitType
    <3> QED
      BY <1>0, <1>2, <3>1, <3>2, <3>3, StepTables
  <2> QED
    BY <2>1, <2>2 DEF TypeOK, SyncTypeOK
<1>3. CASE Admin
  BY <1>0, <1>3, AdminType DEF Admin, TypeOK
<1>4. CASE Crash
  BY <1>0, <1>4, CrashType DEF Crash, TypeOK, SyncTypeOK, CatTypeOK, catVars
<1>5. CASE UNCHANGED vars
  BY <1>5 DEF vars, catVars, TypeOK, CatTypeOK
<1> QED
  BY <1>1, <1>2, <1>3, <1>4, <1>5 DEF Next

(***************************************************************************)
(* The tables, requests and history keep their shape: rows, targets,       *)
(* results and change events of sync.go and store.go stay well formed.     *)
(***************************************************************************)
THEOREM TypeCorrect == Spec => []TypeOK
BY TypeInit, TypeNext, PTL DEF Spec

------------------------------------------------------------------------------
(***************************************************************************)
(* Ids that were never allocated: no row, no cache, no request on them.    *)
(* StartKey and the join read only allocated ids, and last_id only grows.  *)
(***************************************************************************)
FreshKeys ==
    \A k \in Key : k > last_id.key =>
        /\ ~provider_keys[k].live /\ Owner(k) = 0 /\ model_cache[k] = {}
        /\ \A s \in Sync : k \notin sync[s].todo /\ sync[s].result[k] = "none"

LEMMA AdminFresh ==
    ASSUME CatTypeOK, FreshKeys, AdminStatement, UNCHANGED sync
    PROVE  FreshKeys'
<1> USE DEF FreshKeys, Owner
<1>1. ASSUME NEW n \in Name, NEW on \in BOOLEAN, InsertProvider(n, on)
      PROVE  FreshKeys'
  BY <1>1 DEF InsertProvider, CatTypeOK
<1>2. ASSUME NEW p \in Provider, NEW n \in Name, NEW on \in BOOLEAN,
             UpdateProviderRow(p, n, on)
      PROVE  FreshKeys'
  BY <1>2 DEF UpdateProviderRow
<1>3. ASSUME NEW p \in Provider, NEW fk \in FkModes, DeleteProviderRow(p, fk)
      PROVE  FreshKeys'
  <2>1. \A k \in Key : k > last_id.key => k \notin KeysOf(p)
    BY CatalogAssumption DEF KeysOf
  <2> QED
    BY <1>3, <2>1 DEF DeleteProviderRow
<1>4. ASSUME NEW p \in 1..last_id.provider, NEW n \in Name, NEW s \in Secret,
             NEW on \in BOOLEAN, NEW fk \in FkModes, InsertKey(p, n, s, on, fk)
      PROVE  FreshKeys'
  BY <1>4 DEF InsertKey, CatTypeOK
<1>5. ASSUME NEW k \in Key, NEW n \in Name, NEW s \in Secret, NEW on \in BOOLEAN,
             UpdateKeyRow(k, n, s, on)
      PROVE  FreshKeys'
  BY <1>5 DEF UpdateKeyRow, CatTypeOK
<1>6. ASSUME NEW k \in Key, NEW fk \in FkModes, DeleteKeyRow(k, fk)
      PROVE  FreshKeys'
  BY <1>6 DEF DeleteKeyRow, CatTypeOK
<1> QED
  BY <1>1, <1>2, <1>3, <1>4, <1>5, <1>6 DEF AdminStatement

\* A step of s is about the targets it had left and the results it had.
LEMMA StepFrame ==
    ASSUME SyncTypeOK, NEW s \in Sync, Step(s)
    PROVE  /\ \A t \in Sync \ {s} : sync'[t] = sync[t]
           /\ sync'[s].todo \subseteq sync[s].todo
           /\ \A k \in Key : k \notin sync[s].todo /\ sync[s].result[k] = "none"
                             => sync'[s].result[k] = "none"
<1>1. sync[s] \in Request
  BY DEF SyncTypeOK
<1> USE DEF SyncTypeOK
<1>2. CASE GetKey(s)
  BY <1>1, <1>2, GetKeyEffect DEF Request, ReadError
<1>3. CASE RefuseDisabled(s)
  BY <1>1, <1>3 DEF RefuseDisabled, Request
<1>4. CASE FetchModels(s)
  BY <1>1, <1>4 DEF FetchModels, NextTargets, Request
<1>5. CASE FetchFails(s)
  BY <1>1, <1>5 DEF FetchFails, NextTargets, Request
<1>6. CASE FetchHangs(s)
  BY <1>1, <1>6 DEF FetchHangs, Request
<1>7. ASSUME NEW fk \in FkModes, Commit(s, fk) \/ Abort(s, fk)
      PROVE  /\ \A t \in Sync \ {s} : sync'[t] = sync[t]
             /\ sync'[s].todo = sync[s].todo
             /\ sync'[s].result = sync[s].result
  BY <1>1, <1>7 DEF Commit, Abort, Request
<1>8. CASE MarkFailed(s)
  BY <1>1, <1>8 DEF MarkFailed, Ok, Request
<1>9. CASE Marked(s)
  BY <1>1, <1>9 DEF Marked, Request
<1> QED
  BY <1>2, <1>3, <1>4, <1>5, <1>6, <1>7, <1>8, <1>9 DEF Step

LEMMA FreshInit == Init => FreshKeys
<1> SUFFICES ASSUME Init, NEW k \in Key
             PROVE  /\ ~provider_keys[k].live /\ Owner(k) = 0 /\ model_cache[k] = {}
                    /\ \A s \in Sync : k \notin sync[s].todo /\ sync[s].result[k] = "none"
  BY DEF FreshKeys
<1>1. provider_keys[k] = NoKey(0) /\ model_cache[k] = {}
  BY DEF Init, CatInit
<1>2. \A s \in Sync : sync[s] = NoSync
  BY DEF Init
<1>3. NoSync.todo = {} /\ NoSync.result[k] = "none"
  BY DEF NoSync
<1>4. ~NoKey(0).live /\ NoKey(0).provider = 0
  BY DEF NoKey
<1> QED
  BY <1>1, <1>2, <1>3, <1>4 DEF Owner

LEMMA FreshNext == TypeOK /\ FreshKeys /\ [Next]_vars => FreshKeys'
<1> SUFFICES ASSUME TypeOK, FreshKeys, [Next]_vars PROVE FreshKeys'
  OBVIOUS
<1>0. CatTypeOK /\ SyncTypeOK
  BY DEF TypeOK, SyncTypeOK
<1>1. ASSUME NEW s \in Sync, Start(s)
      PROVE  FreshKeys'
  <2>1. /\ \A t \in Sync \ {s} : sync'[t] = sync[t]
        /\ \A k \in Key : k > last_id.key =>
             sync'[s].result[k] = sync[s].result[k]
        /\ sync'[s].todo \subseteq
              sync[s].todo \cup {k \in Key : k <= last_id.key} \cup EnabledKeys
    <3>1. sync[s] \in Request
      BY <1>0 DEF SyncTypeOK
    <3>2. ASSUME NEW k \in Key, StartKey(s, k)
          PROVE  <2>1
      <4>1. last_id.key \in Nat
        BY <1>0, CatalogAssumption DEF CatTypeOK
      <4>2. \A j \in Key : j > last_id.key => j # k
        BY <3>2, <4>1, StartKeyEffect, <1>0
      <4> QED
        BY <1>0, <3>2, <4>1, <4>2, StartKeyEffect DEF ReadError
    <3>3. ASSUME NEW keys \in SUBSET EnabledKeys, NEW scope, StartBatch(s, scope, keys)
          PROVE  <2>1
      BY <1>0, <3>1, <3>3 DEF StartBatch, SyncTypeOK, Request
    <3>4. CASE StartFails(s)
      BY <1>0, <3>1, <3>4 DEF StartFails, SyncTypeOK, Request
    <3> QED
      BY <1>1, <3>2, <3>3, <3>4 DEF Start, StartProvider, StartAll
  <2>2. \A k \in EnabledKeys : ~(k > last_id.key)
    BY DEF EnabledKeys, FreshKeys
  <2>3. last_id.key \in Nat
    BY <1>0, CatalogAssumption DEF CatTypeOK
  <2> QED
    BY <1>1, <2>1, <2>2, <2>3, StartFrame, CatalogAssumption
       DEF FreshKeys, Owner, catVars
<1>2. ASSUME NEW s \in Sync, Step(s)
      PROVE  FreshKeys'
  <2>1. \A k \in Key : k > last_id.key =>
          \A t \in Sync : k \notin sync'[t].todo /\ sync'[t].result[k] = "none"
    BY <1>0, <1>2, StepFrame DEF FreshKeys
  <2>2. /\ last_id' = last_id
        /\ \A k \in Key : k > last_id.key =>
             /\ ~provider_keys'[k].live /\ provider_keys'[k].provider = 0
             /\ model_cache'[k] = {}
    <3>1. CASE UNCHANGED <<catVars, history>>
      BY <3>1 DEF FreshKeys, Owner, catVars
    <3>2. ASSUME NEW j \in Key, SetKeySyncError(j)
          PROVE  <2>2!1 /\ <2>2!2
      BY <1>0, <3>2 DEF SetKeySyncError, FreshKeys, Owner, CatTypeOK
    <3>3. ASSUME NEW fk \in FkModes, Commit(s, fk)
          PROVE  <2>2!1 /\ <2>2!2
      BY <1>0, <3>3 DEF Commit, Replaced, Ok, FreshKeys, Owner, CatTypeOK
    <3> QED
      BY <1>0, <1>2, <3>1, <3>2, <3>3, StepTables
  <2> QED
    BY <2>1, <2>2 DEF FreshKeys, Owner
<1>3. CASE Admin
  BY <1>0, <1>3, AdminFresh DEF Admin
<1>4. CASE Crash
  BY <1>4 DEF Crash, catVars, FreshKeys, Owner, NoSync
<1>5. CASE UNCHANGED vars
  BY <1>5 DEF vars, catVars, FreshKeys, Owner
<1> QED
  BY <1>1, <1>2, <1>3, <1>4, <1>5 DEF Next

------------------------------------------------------------------------------
(***************************************************************************)
(* Refinement of ModelLedger.                                              *)
(***************************************************************************)
LEMMA CommitRefines ==
    ASSUME TypeOK, NEW s \in Sync, NEW fk \in FkModes, Commit(s, fk)
    PROVE  [Ledger!Next]_(Ledger!vars)
<1>1. Gone' = Gone
  <2>1. last_id' = last_id /\ last_id.key \in 0..MaxKey
    BY DEF Commit, TypeOK, CatTypeOK
  <2>2. \A k \in Key : provider_keys'[k].live <=> provider_keys[k].live
    BY DEF Commit, TypeOK, CatTypeOK, KeyRow
  <2> QED
    BY <2>1, <2>2, CatalogAssumption DEF Gone
<1>2. model_cache \in [Key -> SUBSET Model] /\ Replaced(s) \in [Key -> SUBSET Model]
  BY CommitRun DEF TypeOK, CatTypeOK
<1>3. CASE Changed(s) = {}
  <2>1. model_cache' = model_cache
    <3>1. \A k \in Key : Replaced(s)[k] = model_cache[k]
      BY <1>3 DEF Changed
    <3>2. Replaced(s) = [k \in Key |-> Replaced(s)[k]]
      BY <1>2
    <3>3. model_cache = [k \in Key |-> model_cache[k]]
      BY <1>2
    <3>4. [k \in Key |-> Replaced(s)[k]] = [k \in Key |-> model_cache[k]]
      BY <3>1
    <3> QED
      BY <3>2, <3>3, <3>4 DEF Commit
  <2> QED
    BY <1>1, <1>3, <2>1 DEF Ledger!vars, Commit
<1>4. CASE Changed(s) # {}
  <2>1. Changed(s) = {k \in Key : Replaced(s)[k] # model_cache[k]}
    BY DEF Changed
  <2>2. \A k \in Changed(s) : k \in Ok(s) /\ Replaced(s)[k] = sync[s].ids[k]
    BY DEF Changed, Replaced
  <2>3. [k \in Changed(s) |-> ChangeEvent(s, k)] =
          [k \in Changed(s) |-> [added |-> Replaced(s)[k] \ model_cache[k],
                                removed |-> model_cache[k] \ Replaced(s)[k],
                                label |-> sync[s].label[k]]]
    BY <2>2 DEF ChangeEvent
  <2>4. Ledger!Replace(Replaced(s), sync[s].scope, sync[s].label)
    BY <1>1, <1>4, <2>1, <2>3 DEF Ledger!Replace, Commit
  <2>5. sync[s].scope \in Scope /\ sync[s].label \in [Key -> Label]
    BY DEF TypeOK, Request
  <2> QED
    BY <1>2, <2>4, <2>5 DEF Ledger!Next
<1> QED
  BY <1>3, <1>4

LEMMA AdminRefines ==
    ASSUME TypeOK, FreshKeys, AdminStatement, UNCHANGED history
    PROVE  [Ledger!Next]_(Ledger!vars)
<1> USE DEF TypeOK, CatTypeOK
<1>1. ASSUME NEW n \in Name, NEW on \in BOOLEAN, InsertProvider(n, on)
      PROVE  UNCHANGED Ledger!vars
  BY <1>1 DEF InsertProvider, Gone, Ledger!vars
<1>2. ASSUME NEW p \in Provider, NEW n \in Name, NEW on \in BOOLEAN,
             UpdateProviderRow(p, n, on)
      PROVE  UNCHANGED Ledger!vars
  BY <1>2 DEF UpdateProviderRow, Gone, Ledger!vars
<1>3. ASSUME NEW p \in Provider, NEW fk \in FkModes, DeleteProviderRow(p, fk)
      PROVE  Ledger!Next
  <2> DEFINE erased == IF fk THEN KeysOf(p) ELSE {}
  <2>1. erased \in SUBSET Key /\ \A k \in erased : k <= last_id.key
    <3>1. \A k \in Key : k > last_id.key => provider_keys[k].provider = 0
      BY DEF FreshKeys, Owner
    <3>2. last_id.key \in Nat /\ p # 0
      BY CatalogAssumption
    <3> QED
      BY <3>1, <3>2 DEF KeysOf
  <2>2. Gone' = Gone \cup erased
    <3>1. last_id' = last_id /\ last_id.key \in 0..MaxKey
      BY <1>3 DEF DeleteProviderRow
    <3>2. \A k \in Key : provider_keys'[k].live <=>
                         provider_keys[k].live /\ k \notin erased
      BY <1>3 DEF DeleteProviderRow, NoKey
    <3> QED
      BY <2>1, <3>1, <3>2, CatalogAssumption DEF Gone
  <2>3. model_cache' = [k \in Key |-> IF k \in erased THEN {} ELSE model_cache[k]]
    BY <1>3 DEF DeleteProviderRow
  <2>4. Ledger!Forget(erased, erased)
    BY <2>2, <2>3 DEF Ledger!Forget
  <2> QED
    BY <2>1, <2>4 DEF Ledger!Next
<1>4. ASSUME NEW p \in 1..last_id.provider, NEW n \in Name, NEW s \in Secret,
             NEW on \in BOOLEAN, NEW fk \in FkModes, InsertKey(p, n, s, on, fk)
      PROVE  UNCHANGED Ledger!vars
  <2>1. Gone' = Gone
    <3>1. /\ last_id'.key = last_id.key + 1 /\ last_id.key \in Nat
          /\ last_id.key + 1 \in Key
          /\ provider_keys'[last_id.key + 1].live
          /\ \A k \in Key : k # last_id.key + 1 => provider_keys'[k] = provider_keys[k]
      BY <1>4, CatalogAssumption DEF InsertKey
    <3>2. Gone' = {k \in 1..(last_id.key + 1) : ~provider_keys'[k].live}
      BY <3>1 DEF Gone
    <3>3. \A k : k \in 1..(last_id.key + 1) <=>
                 k \in 1..last_id.key \/ k = last_id.key + 1
      BY <3>1
    <3>4. \A k \in 1..last_id.key : k \in Key /\ k # last_id.key + 1
      BY <3>1, CatalogAssumption
    <3> QED
      BY <3>1, <3>2, <3>3, <3>4 DEF Gone
  <2> QED
    BY <1>4, <2>1 DEF InsertKey, Ledger!vars
<1>5. ASSUME NEW k \in Key, NEW n \in Name, NEW s \in Secret, NEW on \in BOOLEAN,
             UpdateKeyRow(k, n, s, on)
      PROVE  UNCHANGED Ledger!vars
  <2>1. last_id' = last_id /\ \A j \in Key : provider_keys'[j].live <=> provider_keys[j].live
    BY <1>5 DEF UpdateKeyRow, KeyRow
  <2>2. Gone' = Gone
    BY <2>1, CatalogAssumption DEF Gone
  <2> QED
    BY <1>5, <2>2 DEF UpdateKeyRow, Ledger!vars
<1>6. ASSUME NEW k \in Key, NEW fk \in FkModes, DeleteKeyRow(k, fk)
      PROVE  Ledger!Next
  <2> DEFINE erased == IF fk THEN {k} ELSE {}
  <2>1. k <= last_id.key
    BY <1>6, CatalogAssumption DEF DeleteKeyRow, FreshKeys
  <2>2. Gone' = Gone \cup {k}
    <3>1. last_id' = last_id /\ last_id.key \in 0..MaxKey
      BY <1>6 DEF DeleteKeyRow
    <3>2. \A j \in Key : provider_keys'[j].live <=> provider_keys[j].live /\ j # k
      BY <1>6 DEF DeleteKeyRow, NoKey
    <3> QED
      BY <2>1, <3>1, <3>2, CatalogAssumption DEF Gone
  <2>3. model_cache' = [j \in Key |-> IF j \in erased THEN {} ELSE model_cache[j]]
    BY <1>6 DEF DeleteKeyRow
  <2>4. Ledger!Forget({k}, erased)
    BY <2>2, <2>3 DEF Ledger!Forget
  <2>5. {k} \in SUBSET Key /\ erased \in SUBSET Key
    OBVIOUS
  <2> QED
    BY <2>4, <2>5 DEF Ledger!Next
<1> QED
  BY <1>1, <1>2, <1>3, <1>4, <1>5, <1>6 DEF AdminStatement

LEMMA NextRefines ==
    TypeOK /\ FreshKeys /\ [Next]_vars => [Ledger!Next]_(Ledger!vars)
<1> SUFFICES ASSUME TypeOK, FreshKeys, [Next]_vars
             PROVE  [Ledger!Next]_(Ledger!vars)
  OBVIOUS
<1>0. CatTypeOK /\ SyncTypeOK
  BY DEF TypeOK, SyncTypeOK
<1>1. ASSUME UNCHANGED <<catVars, history>>
      PROVE  UNCHANGED Ledger!vars
  BY <1>1 DEF catVars, Gone, Ledger!vars
<1>2. ASSUME NEW k \in Key, SetKeySyncError(k), UNCHANGED history
      PROVE  UNCHANGED Ledger!vars
  <2>1. last_id' = last_id /\ \A j \in Key : provider_keys'[j].live <=> provider_keys[j].live
    BY <1>0, <1>2 DEF SetKeySyncError, CatTypeOK, KeyRow
  <2>2. Gone' = Gone
    BY <1>0, <2>1, CatalogAssumption DEF Gone, CatTypeOK
  <2> QED
    BY <1>2, <2>2 DEF SetKeySyncError, Ledger!vars
<1>3. ASSUME NEW s \in Sync, Start(s)
      PROVE  UNCHANGED Ledger!vars
  BY <1>1, <1>3, StartFrame
<1>4. ASSUME NEW s \in Sync, Step(s)
      PROVE  [Ledger!Next]_(Ledger!vars)
  BY <1>0, <1>1, <1>2, <1>4, StepTables, CommitRefines
<1>5. CASE Admin
  BY <1>5, AdminRefines DEF Admin
<1>6. CASE Crash
  BY <1>1, <1>6 DEF Crash
<1>7. CASE UNCHANGED vars
  BY <1>1, <1>7 DEF vars
<1> QED
  BY <1>3, <1>4, <1>5, <1>6, <1>7 DEF Next

LEMMA InitRefines == Init => Ledger!Init
<1> SUFFICES ASSUME Init PROVE Ledger!Init
  OBVIOUS
<1>1. last_id.key = 0
  BY DEF Init, CatInit
<1>2. Gone = {}
  BY <1>1 DEF Gone
<1> QED
  BY <1>2 DEF Init, CatInit, Ledger!Init

(***************************************************************************)
(* SyncService implements ModelLedger: whatever requests race, wherever    *)
(* they stop, and whichever connections enforce foreign keys, the caches   *)
(* and the change history move together (ReplaceSyncedKeyModels).          *)
(***************************************************************************)
THEOREM SyncImplementsLedger == Spec => LedgerSpec
<1>1. Spec => [](TypeOK /\ FreshKeys)
  BY TypeInit, TypeNext, FreshInit, FreshNext, PTL DEF Spec
<1> QED
  BY <1>1, InitRefines, NextRefines, PTL DEF Spec, LedgerSpec, Ledger!Spec

(***************************************************************************)
(* The change events of a key that exists replay to its cached models.     *)
(***************************************************************************)
LP == INSTANCE ModelLedgerProofs WITH cache <- model_cache, gone <- Gone

THEOREM TimelineMatchesCache == Spec => []HistoryReplaysCache
<1>1. LP!Spec => [](LP!LedgerTypeOK /\ LP!HistoryReplaysCache)
  BY LP!LedgerReplays
<1>2. Ledger!Init => LP!Init
  BY DEF Ledger!Init, LP!Init
<1>3. [Ledger!Next]_(Ledger!vars) => [LP!Next]_(LP!vars)
  BY DEF Ledger!Next, Ledger!Replace, Ledger!Forget, Ledger!vars,
         LP!Next, LP!Replace, LP!Forget, LP!vars
<1>4. LP!HistoryReplaysCache => HistoryReplaysCache
  BY DEF LP!HistoryReplaysCache, LP!Replay, LP!Adds, LP!Removes,
         HistoryReplaysCache, Ledger!HistoryReplaysCache, Ledger!Replay,
         Ledger!Adds, Ledger!Removes
<1> QED
  BY <1>1, <1>2, <1>3, <1>4, SyncImplementsLedger, PTL
     DEF LedgerSpec, Ledger!Spec, LP!Spec

------------------------------------------------------------------------------
(***************************************************************************)
(* Foreign keys, when every connection enforces them.                      *)
(***************************************************************************)
LEMMA NextNoOrphans ==
    ASSUME FkModes = {TRUE}
    PROVE  TypeOK /\ NoOrphans /\ [Next]_vars => NoOrphans'
<1> SUFFICES ASSUME TypeOK, NoOrphans, [Next]_vars PROVE NoOrphans'
  OBVIOUS
<1>0. CatTypeOK /\ SyncTypeOK
  BY DEF TypeOK, SyncTypeOK
<1>1. ASSUME UNCHANGED catVars PROVE NoOrphans'
  BY <1>1 DEF catVars, NoOrphans
<1>2. ASSUME NEW k \in Key, SetKeySyncError(k) PROVE NoOrphans'
  <2>1. \A j \in Key : /\ provider_keys'[j].live <=> provider_keys[j].live
                       /\ provider_keys'[j].provider = provider_keys[j].provider
    BY <1>0, <1>2 DEF SetKeySyncError, CatTypeOK, KeyRow
  <2> QED
    BY <1>2, <2>1 DEF SetKeySyncError, NoOrphans
<1>3. ASSUME NEW s \in Sync, NEW fk \in FkModes, Commit(s, fk) PROVE NoOrphans'
  <2>1. \A k \in Key : /\ provider_keys'[k].live <=> provider_keys[k].live
                       /\ provider_keys'[k].provider = provider_keys[k].provider
    BY <1>0, <1>3 DEF Commit, CatTypeOK, KeyRow
  <2>2. \A k \in Key : model_cache'[k] # {} => provider_keys[k].live
    BY <1>3 DEF Commit, Replaced, Insertable, NoOrphans
  <2> QED
    BY <1>3, <2>1, <2>2 DEF Commit, NoOrphans
<1>4. ASSUME NEW s \in Sync, Start(s) PROVE NoOrphans'
  BY <1>1, <1>4, StartFrame
<1>5. ASSUME NEW s \in Sync, Step(s) PROVE NoOrphans'
  BY <1>0, <1>1, <1>2, <1>3, <1>5, StepTables
<1>6. CASE Admin
  BY <1>0, <1>6, AdminNoOrphans DEF Admin
<1>7. CASE Crash
  BY <1>1, <1>7 DEF Crash
<1>8. CASE UNCHANGED vars
  BY <1>1, <1>8 DEF vars
<1> QED
  BY <1>4, <1>5, <1>6, <1>7, <1>8 DEF Next

(***************************************************************************)
(* When every connection enforces foreign keys, a deletion leaves no key   *)
(* and no cached model behind, and no request in flight brings a deleted   *)
(* key's models back (`on delete cascade` of store.go).                    *)
(***************************************************************************)
THEOREM EnforcedForeignKeys ==
    ASSUME FkModes = {TRUE}
    PROVE  Spec => []NoOrphans
<1>1. Init => NoOrphans
  BY DEF Init, CatInit, NoOrphans, NoKey
<1>2. TypeOK /\ NoOrphans /\ [Next]_vars => NoOrphans'
  BY NextNoOrphans
<1> QED
  BY <1>1, <1>2, TypeCorrect, PTL DEF Spec

------------------------------------------------------------------------------
(***************************************************************************)
(* The results of a request, while it runs and once it is done.            *)
(***************************************************************************)
ResultsOf(r) ==
    /\ r.pc = "idle" => r.targets = {}
    /\ r.pc \in {"get_key", "disabled"} =>
          \E k \in Key : r.todo = {k} /\ r.targets = {k}
    /\ r.pc \in {"idle", "get_key", "disabled"} =>
          \A k \in Key : r.result[k] = "none"
    /\ r.pc = "fetch" => \A k \in Key : r.result[k] # "batch_error"
    /\ r.pc \in {"fetch", "mark", "done"} =>
          \A k \in r.targets : k \in r.todo \/ r.result[k] # "none"
    /\ r.pc \in {"idle", "mark", "done"} => r.todo = {}
    /\ r.pc = "done" =>
          \A j, k \in Key : ~(r.result[j] = "ok" /\ r.result[k] = "batch_error")

Results == \A s \in Sync : ResultsOf(sync[s])

LEMMA ResultsInit == Init => Results
<1>1. ResultsOf(NoSync)
  BY DEF ResultsOf, NoSync
<1> QED
  BY <1>1 DEF Init, Results

LEMMA ResultsStart ==
    ASSUME SyncTypeOK, Results, NEW s \in Sync, Start(s)
    PROVE  Results'
<1>0. sync[s] \in Request /\ ResultsOf(sync[s])
  BY DEF SyncTypeOK, Results
<1> SUFFICES /\ ResultsOf(sync'[s])
             /\ \A t \in Sync \ {s} : sync'[t] = sync[t]
  BY DEF Results
<1> USE DEF SyncTypeOK, ResultsOf, Request
<1>1. ASSUME NEW k \in Key, StartKey(s, k)
      PROVE  /\ ResultsOf(sync'[s])
             /\ \A t \in Sync \ {s} : sync'[t] = sync[t]
  BY <1>0, <1>1, StartKeyEffect DEF ReadError
<1>2. ASSUME NEW keys \in SUBSET Key, NEW scope, StartBatch(s, scope, keys)
      PROVE  /\ ResultsOf(sync'[s])
             /\ \A t \in Sync \ {s} : sync'[t] = sync[t]
  BY <1>0, <1>2 DEF StartBatch
<1>3. CASE StartFails(s)
  BY <1>0, <1>3 DEF StartFails
<1>4. EnabledKeys \subseteq Key
  BY DEF EnabledKeys
<1> QED
  BY <1>1, <1>2, <1>3, <1>4 DEF Start, StartProvider, StartAll

LEMMA ResultsStep ==
    ASSUME SyncTypeOK, Results, NEW s \in Sync, Step(s)
    PROVE  Results'
<1> DEFINE r == sync[s]
<1>0. r \in Request /\ ResultsOf(r)
  BY DEF SyncTypeOK, Results
<1> SUFFICES ResultsOf(sync'[s])
  BY StepFrame DEF Results
<1> USE DEF SyncTypeOK, ResultsOf, Request
<1>1. CASE GetKey(s)
  BY <1>0, <1>1, GetKeyEffect DEF ReadError
<1>2. CASE RefuseDisabled(s)
  <2>1. PICK k \in r.todo : sync'[s] = [r EXCEPT !.pc = "done", !.todo = {},
                                                !.result[k] = "disabled"]
    BY <1>2 DEF RefuseDisabled
  <2>2. r.pc = "disabled"
    BY <1>2 DEF RefuseDisabled
  <2>3. k \in Key /\ r.todo = {k} /\ r.targets = {k}
    BY <1>0, <2>1, <2>2
  <2>4. /\ sync'[s].pc = "done" /\ sync'[s].todo = {} /\ sync'[s].targets = r.targets
        /\ \A j \in Key : sync'[s].result[j] = IF j = k THEN "disabled" ELSE "none"
    <3>1. r.result \in [Key -> Outcome] /\ \A j \in Key : r.result[j] = "none"
      BY <1>0, <2>2
    <3>2. /\ sync'[s].pc = "done" /\ sync'[s].todo = {}
          /\ sync'[s].targets = r.targets
          /\ sync'[s].result = [r.result EXCEPT ![k] = "disabled"]
      BY <1>0, <2>1
    <3> QED
      BY <2>3, <3>1, <3>2
  <2> QED
    BY <2>3, <2>4
<1>3. ASSUME NEW k \in r.todo, NEW outcome \in {"ok", "fetch_error"},
             r.pc = "fetch",
             sync'[s].pc = r.pc, sync'[s].targets = r.targets,
             sync'[s].todo = r.todo \ {k},
             sync'[s].result = [r.result EXCEPT ![k] = outcome]
      PROVE  ResultsOf(sync'[s])
  BY <1>0, <1>3, ZenonT(60)
<1>4. CASE FetchModels(s) \/ FetchFails(s)
  <2>1. PICK k \in r.todo, outcome \in {"ok", "fetch_error"} :
          /\ r.pc = "fetch"
          /\ sync'[s].pc = r.pc /\ sync'[s].targets = r.targets
          /\ sync'[s].todo = r.todo \ {k}
          /\ sync'[s].result = [r.result EXCEPT ![k] = outcome]
    <3>1. CASE FetchModels(s)
      <4>1. PICK k \in r.todo, ids \in SUBSET Model, dup \in BOOLEAN :
              sync'[s] = [r EXCEPT !.todo = @ \ {k}, !.ids[k] = ids,
                            !.result[k] = "ok",
                            !.dup = IF dup THEN @ \cup {k} ELSE @]
        BY <3>1, ZenonT(60) DEF FetchModels, NextTargets
      <4> QED
        BY <1>0, <3>1, <4>1 DEF FetchModels
    <3>2. CASE FetchFails(s)
      <4>1. PICK k \in r.todo :
              sync'[s] = [r EXCEPT !.todo = @ \ {k}, !.result[k] = "fetch_error"]
        BY <3>2 DEF FetchFails, NextTargets
      <4> QED
        BY <1>0, <3>2, <4>1 DEF FetchFails
    <3> QED
      BY <1>4, <3>1, <3>2
  <2> QED
    BY <1>3, <2>1
<1>5. CASE FetchHangs(s)
  BY <1>0, <1>5 DEF FetchHangs
<1>6. ASSUME NEW fk \in FkModes, Commit(s, fk) \/ Abort(s, fk)
      PROVE  ResultsOf(sync'[s])
  <2>1. \E pc \in {"done", "mark"} : sync'[s] = [r EXCEPT !.pc = pc]
    BY <1>6 DEF Commit, Abort
  <2>2. r.pc = "fetch" /\ r.todo = {}
    BY <1>6 DEF Commit, Abort, Fetched
  <2> QED
    BY <1>0, <2>1, <2>2
<1>7. CASE MarkFailed(s)
  BY <1>0, <1>7 DEF MarkFailed, Ok
<1>8. CASE Marked(s)
  BY <1>0, <1>8 DEF Marked, Ok
<1> QED
  BY <1>1, <1>2, <1>4, <1>5, <1>6, <1>7, <1>8 DEF Step

LEMMA ResultsNext == TypeOK /\ Results /\ [Next]_vars => Results'
<1> SUFFICES ASSUME TypeOK, Results, [Next]_vars PROVE Results'
  OBVIOUS
<1>0. SyncTypeOK
  BY DEF TypeOK, SyncTypeOK
<1>1. ASSUME UNCHANGED sync PROVE Results'
  BY <1>1 DEF Results
<1>2. CASE Crash
  <2>1. ResultsOf([NoSync EXCEPT !.pc = "dead"])
    BY DEF ResultsOf, NoSync
  <2> QED
    BY <1>0, <1>2, <2>1 DEF Crash, Results
<1> QED
  BY <1>0, <1>1, <1>2, ResultsStart, ResultsStep DEF Next, Admin, vars

(***************************************************************************)
(* A request that is done has a result for each of its targets, and the    *)
(* results of one batch stand or fall together (syncEnabledKeys).          *)
(***************************************************************************)
THEOREM BatchesStandTogether == Spec => []BatchStandsTogether
<1>1. Results => BatchStandsTogether
  BY DEF Results, ResultsOf, BatchStandsTogether
<1> QED
  BY <1>1, ResultsInit, ResultsNext, TypeCorrect, PTL DEF Spec

------------------------------------------------------------------------------
(***************************************************************************)
(* Caches hold whole answers.                                              *)
(***************************************************************************)
\* Requests that reported k stored still do, and no others, with the same answer.
SameStores == \A k \in Key : /\ StoredBy(k)' = StoredBy(k)
                            /\ \A s \in StoredBy(k) : sync'[s] = sync[s]

LEMMA StartStores ==
    ASSUME SyncTypeOK, Results, NEW s \in Sync, Start(s)
    PROVE  SameStores
<1>1. sync[s].pc = "idle" /\ \A k \in Key : sync[s].result[k] = "none"
  BY DEF Start, StartKey, StartProvider, StartAll, StartBatch, StartFails,
         Results, ResultsOf
<1>2. /\ \A t \in Sync \ {s} : sync'[t] = sync[t]
      /\ \A k \in Key : sync'[s].result[k] # "ok"
  <2>1. sync[s] \in Request
    BY DEF SyncTypeOK
  <2>2. ASSUME NEW k \in Key, StartKey(s, k) PROVE <1>2
    BY <1>1, <2>2, StartKeyEffect DEF ReadError
  <2>3. ASSUME NEW keys, NEW scope, StartBatch(s, scope, keys) PROVE <1>2
    BY <1>1, <2>1, <2>3 DEF StartBatch, SyncTypeOK, Request
  <2>4. CASE StartFails(s)
    BY <1>1, <2>1, <2>4 DEF StartFails, SyncTypeOK, Request
  <2> QED
    BY <2>2, <2>3, <2>4 DEF Start, StartProvider, StartAll
<1> QED
  BY <1>1, <1>2 DEF SameStores, StoredBy

LEMMA StepStores ==
    ASSUME SyncTypeOK, Results, NEW s \in Sync, Step(s),
           \A fk \in FkModes : ~Commit(s, fk)
    PROVE  SameStores
<1> DEFINE r == sync[s]
<1>0. r \in Request /\ ResultsOf(r) /\ r.pc # "done"
  BY DEF SyncTypeOK, Results, Step, GetKey, RefuseDisabled, FetchModels,
         FetchFails, FetchHangs, Abort, MarkFailed, Marked, Fetched
<1> SUFFICES \A k \in Key : ~(sync'[s].pc = "done" /\ sync'[s].result[k] = "ok")
  BY <1>0, StepFrame DEF SameStores, StoredBy
<1> USE DEF SyncTypeOK, ResultsOf, Request
<1>1. CASE GetKey(s)
  BY <1>0, <1>1, GetKeyEffect DEF ReadError
<1>2. CASE RefuseDisabled(s)
  <2>1. PICK k \in r.todo : sync'[s] = [r EXCEPT !.pc = "done", !.todo = {},
                                                !.result[k] = "disabled"]
    BY <1>2 DEF RefuseDisabled
  <2>2. \A j \in Key : r.result[j] = "none"
    BY <1>0, <1>2 DEF RefuseDisabled
  <2>3. sync'[s].result = [r.result EXCEPT ![k] = "disabled"]
    BY <1>0, <2>1
  <2> QED
    BY <1>0, <2>2, <2>3
<1>3. CASE FetchModels(s)
  <2>1. sync'[s].pc = "fetch"
    BY <1>0, <1>3 DEF FetchModels
  <2> QED
    BY <2>1
<1>4. CASE FetchFails(s)
  <2>1. sync'[s].pc = "fetch"
    BY <1>0, <1>4 DEF FetchFails
  <2> QED
    BY <2>1
<1>5. CASE FetchHangs(s)
  BY <1>0, <1>5 DEF FetchHangs
<1>6. ASSUME NEW fk \in FkModes, Abort(s, fk) PROVE sync'[s].pc = "mark"
  BY <1>0, <1>6 DEF Abort
<1>7. CASE MarkFailed(s)
  <2>1. sync'[s].pc = "mark"
    BY <1>0, <1>7 DEF MarkFailed
  <2> QED
    BY <2>1
<1>8. CASE Marked(s)
  BY <1>0, <1>8 DEF Marked, Ok
<1> QED
  BY <1>1, <1>2, <1>3, <1>4, <1>5, <1>6, <1>7, <1>8 DEF Step

LEMMA CommitAnswers ==
    ASSUME TypeOK, CacheIsOneAnswer, NEW s \in Sync, NEW fk \in FkModes,
           Commit(s, fk)
    PROVE  CacheIsOneAnswer'
<1>1. /\ \A t \in Sync \ {s} : sync'[t] = sync[t]
      /\ sync'[s].pc = "done" /\ sync'[s].result = sync[s].result
      /\ sync'[s].ids = sync[s].ids /\ sync[s].pc = "fetch"
  BY DEF Commit, Fetched, TypeOK, Request
<1>2. \A k \in Key : provider_keys'[k].live <=> provider_keys[k].live
  BY DEF Commit, TypeOK, CatTypeOK, KeyRow
<1>3. \A k \in Ok(s) : s \in StoredBy(k)' /\ model_cache'[k] = sync'[s].ids[k]
  BY <1>1 DEF Ok, StoredBy, Commit, Replaced
<1>4. \A k \in Key \ Ok(s) : /\ StoredBy(k)' = StoredBy(k)
                            /\ s \notin StoredBy(k)
                            /\ model_cache'[k] = model_cache[k]
  BY <1>1 DEF Ok, StoredBy, Commit, Replaced
<1> QED
  <2> SUFFICES ASSUME NEW k \in Key, provider_keys[k].live
               PROVE  IF StoredBy(k)' = {} THEN model_cache'[k] = {}
                      ELSE \E t \in StoredBy(k)' : model_cache'[k] = sync'[t].ids[k]
    BY <1>2 DEF CacheIsOneAnswer
  <2>1. CASE k \in Ok(s)
    BY <1>3, <2>1
  <2>2. CASE k \notin Ok(s)
    <3>1. \A t \in StoredBy(k) : sync'[t] = sync[t]
      BY <1>1, <1>4, <2>2 DEF StoredBy
    <3> QED
      BY <1>4, <2>2, <3>1 DEF CacheIsOneAnswer
  <2> QED
    BY <2>1, <2>2

LEMMA AdminAnswers ==
    ASSUME CatTypeOK, FreshKeys, CacheIsOneAnswer, AdminStatement, UNCHANGED sync
    PROVE  CacheIsOneAnswer'
<1>0. SUFFICES ASSUME NEW k \in Key, provider_keys'[k].live
               PROVE  \/ provider_keys[k].live /\ model_cache'[k] = model_cache[k]
                      \/ StoredBy(k) = {} /\ model_cache'[k] = {}
  BY DEF CacheIsOneAnswer, StoredBy
<1> USE DEF CatTypeOK
<1>1. ASSUME NEW n \in Name, NEW on \in BOOLEAN, InsertProvider(n, on)
      PROVE  provider_keys[k].live /\ model_cache'[k] = model_cache[k]
  BY <1>0, <1>1 DEF InsertProvider
<1>2. ASSUME NEW p \in Provider, NEW n \in Name, NEW on \in BOOLEAN,
             UpdateProviderRow(p, n, on)
      PROVE  provider_keys[k].live /\ model_cache'[k] = model_cache[k]
  BY <1>0, <1>2 DEF UpdateProviderRow
<1>3. ASSUME NEW p \in Provider, NEW fk \in FkModes, DeleteProviderRow(p, fk)
      PROVE  provider_keys[k].live /\ model_cache'[k] = model_cache[k]
  BY <1>0, <1>3 DEF DeleteProviderRow, NoKey
<1>4. ASSUME NEW p \in 1..last_id.provider, NEW n \in Name, NEW s \in Secret,
             NEW on \in BOOLEAN, NEW fk \in FkModes, InsertKey(p, n, s, on, fk)
      PROVE  \/ provider_keys[k].live /\ model_cache'[k] = model_cache[k]
             \/ StoredBy(k) = {} /\ model_cache'[k] = {}
  <2>1. last_id.key \in Nat /\ model_cache' = model_cache
    BY <1>4, CatalogAssumption DEF InsertKey
  <2>2. CASE k = last_id.key + 1
    BY <2>1, <2>2 DEF FreshKeys, StoredBy
  <2>3. CASE k # last_id.key + 1
    BY <1>0, <1>4, <2>1, <2>3 DEF InsertKey
  <2> QED
    BY <2>2, <2>3
<1>5. ASSUME NEW j \in Key, NEW n \in Name, NEW s \in Secret, NEW on \in BOOLEAN,
             UpdateKeyRow(j, n, s, on)
      PROVE  provider_keys[k].live /\ model_cache'[k] = model_cache[k]
  BY <1>0, <1>5 DEF UpdateKeyRow, KeyRow
<1>6. ASSUME NEW j \in Key, NEW fk \in FkModes, DeleteKeyRow(j, fk)
      PROVE  provider_keys[k].live /\ model_cache'[k] = model_cache[k]
  BY <1>0, <1>6 DEF DeleteKeyRow, NoKey
<1> QED
  BY <1>1, <1>2, <1>3, <1>4, <1>5, <1>6 DEF AdminStatement

LEMMA SameAnswers ==
    ASSUME CacheIsOneAnswer, SameStores, UNCHANGED model_cache,
           \A k \in Key : provider_keys'[k].live <=> provider_keys[k].live
    PROVE  CacheIsOneAnswer'
BY DEF CacheIsOneAnswer, SameStores

LEMMA NextAnswers ==
    TypeOK /\ FreshKeys /\ Results /\ CacheIsOneAnswer /\ [Next]_vars
      => CacheIsOneAnswer'
<1> SUFFICES ASSUME TypeOK, FreshKeys, Results, CacheIsOneAnswer, [Next]_vars
             PROVE  CacheIsOneAnswer'
  OBVIOUS
<1>0. CatTypeOK /\ SyncTypeOK
  BY DEF TypeOK, SyncTypeOK
<1>1. ASSUME NEW s \in Sync, Start(s) PROVE CacheIsOneAnswer'
  BY <1>0, <1>1, StartStores, StartFrame, SameAnswers DEF catVars
<1>2. ASSUME NEW s \in Sync, NEW fk \in FkModes, Commit(s, fk)
      PROVE  CacheIsOneAnswer'
  BY <1>2, CommitAnswers
<1>3. ASSUME NEW s \in Sync, Step(s), \A fk \in FkModes : ~Commit(s, fk)
      PROVE  CacheIsOneAnswer'
  <2>1. SameStores
    BY <1>0, <1>3, StepStores
  <2>2. /\ UNCHANGED model_cache
        /\ \A k \in Key : provider_keys'[k].live <=> provider_keys[k].live
    <3>1. ASSUME NEW k \in Key, SetKeySyncError(k) PROVE <2>2
      BY <1>0, <3>1 DEF SetKeySyncError, CatTypeOK, KeyRow
    <3> QED
      BY <1>0, <1>3, <3>1, StepTables DEF catVars
  <2> QED
    BY <2>1, <2>2, SameAnswers
<1>4. CASE Admin
  BY <1>0, <1>4, AdminAnswers DEF Admin
<1>5. CASE Crash
  <2>1. SameStores
    BY <1>0, <1>5 DEF Crash, SameStores, StoredBy, SyncTypeOK, NoSync
  <2> QED
    BY <1>5, <2>1, SameAnswers DEF Crash, catVars
<1>6. CASE UNCHANGED vars
  BY <1>6 DEF vars, catVars, CacheIsOneAnswer, StoredBy
<1> QED
  BY <1>1, <1>2, <1>3, <1>4, <1>5, <1>6 DEF Next

(***************************************************************************)
(* However many requests ask the upstream of a key, its cache is the whole *)
(* answer that one of them got and reported stored.                        *)
(***************************************************************************)
THEOREM CachesAreWholeAnswers == Spec => []CacheIsOneAnswer
<1>1. Init => CacheIsOneAnswer
  BY DEF Init, CatInit, CacheIsOneAnswer, NoKey
<1>2. Spec => [](TypeOK /\ FreshKeys /\ Results)
  BY TypeInit, TypeNext, FreshInit, FreshNext, ResultsInit, ResultsNext, PTL DEF Spec
<1> QED
  BY <1>1, <1>2, NextAnswers, PTL DEF Spec

------------------------------------------------------------------------------
(***************************************************************************)
(* Targets that are deleted, renamed or badly answered while a request     *)
(* runs: why a batch fails, and when its labels are those of the tables.   *)
(***************************************************************************)

(***************************************************************************)
(* A key that was deleted, or lost its provider, never comes back, because *)
(* AUTOINCREMENT never reuses an id.                                       *)
(***************************************************************************)
OwnersAllocated == \A k \in Key : Owner(k) <= last_id.provider

NoRevival ==
    /\ last_id.key <= last_id'.key
    /\ \A k \in 1..last_id.key : Exists(k)' => Exists(k) /\ Owner(k)' = Owner(k)

\* An inserted row has a new id; no statement revives a row of an old one.
LEMMA NoneRevived ==
    ASSUME CatTypeOK, OwnersAllocated, last_id.key <= last_id'.key,
           \A q \in 1..last_id.provider : providers'[q].live => providers[q].live,
           \A k \in 1..last_id.key :
              /\ provider_keys'[k].live => provider_keys[k].live
              /\ provider_keys'[k].provider = provider_keys[k].provider
    PROVE  NoRevival
<1>1. last_id.key \in Nat /\ 1..last_id.key \subseteq Key /\ last_id.provider \in Nat
  BY CatalogAssumption DEF CatTypeOK
<1>2. ASSUME NEW k \in 1..last_id.key, Exists(k)'
      PROVE  Exists(k) /\ Owner(k)' = Owner(k)
  <2>1. Owner(k)' = Owner(k)
    BY <1>2 DEF Owner
  <2>2. provider_keys[k].live
    BY <1>2 DEF Exists
  <2>3. Owner(k) \in 1..last_id.provider
    <3>1. Owner(k) \in Provider /\ Owner(k) <= last_id.provider
      BY <1>1, <1>2, <2>1 DEF Exists, OwnerLive, OwnersAllocated
    <3> QED
      BY <1>1, <3>1, CatalogAssumption
  <2>4. Owner(k) \in Provider /\ providers[Owner(k)].live
    <3>1. Owner(k) \in Provider /\ providers'[Owner(k)].live
      BY <1>2, <2>1 DEF Exists, OwnerLive
    <3> QED
      BY <2>3, <3>1
  <2> QED
    BY <2>1, <2>2, <2>4 DEF Exists, OwnerLive
<1> QED
  BY <1>2 DEF NoRevival

LEMMA AdminRevives ==
    ASSUME CatTypeOK, OwnersAllocated, AdminStatement
    PROVE  OwnersAllocated' /\ NoRevival
<1>0. /\ last_id.key \in Nat /\ last_id.provider \in Nat
      /\ 1..last_id.key \subseteq Key /\ 1..last_id.provider \subseteq Provider
      /\ \A k \in Key : provider_keys[k].provider \in 0..MaxProvider
  BY CatalogAssumption DEF CatTypeOK, KeyRow
<1>1. ASSUME NEW n \in Name, NEW on \in BOOLEAN, InsertProvider(n, on)
      PROVE  OwnersAllocated' /\ NoRevival
  <2>1. /\ last_id'.key = last_id.key /\ last_id'.provider = last_id.provider + 1
        /\ provider_keys' = provider_keys
        /\ \A q \in 1..last_id.provider : providers'[q] = providers[q]
    BY <1>0, <1>1 DEF InsertProvider, CatTypeOK
  <2>2. NoRevival
    BY <1>0, <2>1, NoneRevived
  <2>3. OwnersAllocated'
    BY <1>0, <2>1 DEF OwnersAllocated, Owner
  <2> QED
    BY <2>2, <2>3
<1>2. ASSUME NEW p \in Provider, NEW n \in Name, NEW on \in BOOLEAN,
             UpdateProviderRow(p, n, on)
      PROVE  OwnersAllocated' /\ NoRevival
  <2>1. /\ last_id' = last_id /\ provider_keys' = provider_keys
        /\ \A q \in Provider : providers'[q].live <=> providers[q].live
    BY <1>2 DEF UpdateProviderRow, ProviderRow, CatTypeOK
  <2>2. NoRevival
    BY <1>0, <2>1, NoneRevived
  <2> QED
    BY <2>1, <2>2 DEF OwnersAllocated, Owner
<1>3. ASSUME NEW p \in Provider, NEW fk \in FkModes, DeleteProviderRow(p, fk)
      PROVE  OwnersAllocated' /\ NoRevival
  <2>1. /\ last_id' = last_id
        /\ \A q \in Provider : providers'[q].live => providers[q].live
    BY <1>3 DEF DeleteProviderRow, NoProvider, CatTypeOK
  <2>2. \A k \in Key : /\ provider_keys'[k].live => provider_keys[k].live
                       /\ provider_keys'[k].provider = provider_keys[k].provider
    BY <1>3 DEF DeleteProviderRow, NoKey, KeysOf, CatTypeOK
  <2>3. NoRevival
    BY <1>0, <2>1, <2>2, NoneRevived
  <2> QED
    BY <2>1, <2>2, <2>3 DEF OwnersAllocated, Owner
<1>4. ASSUME NEW p \in 1..last_id.provider, NEW n \in Name, NEW s \in Secret,
             NEW on \in BOOLEAN, NEW fk \in FkModes, InsertKey(p, n, s, on, fk)
      PROVE  OwnersAllocated' /\ NoRevival
  <2>1. /\ last_id'.key = last_id.key + 1 /\ last_id'.provider = last_id.provider
        /\ providers' = providers
        /\ \A k \in Key : k # last_id.key + 1 => provider_keys'[k] = provider_keys[k]
        /\ last_id.key + 1 \in Key => provider_keys'[last_id.key + 1].provider = p
    BY <1>0, <1>4 DEF InsertKey, CatTypeOK
  <2>2. NoRevival
    BY <1>0, <2>1, NoneRevived
  <2>3. OwnersAllocated'
    BY <1>0, <2>1 DEF OwnersAllocated, Owner
  <2> QED
    BY <2>2, <2>3
<1>5. ASSUME NEW j \in Key, NEW n \in Name, NEW s \in Secret, NEW on \in BOOLEAN,
             UpdateKeyRow(j, n, s, on)
      PROVE  OwnersAllocated' /\ NoRevival
  <2>1. /\ last_id' = last_id /\ providers' = providers
        /\ \A k \in Key : /\ provider_keys'[k].live <=> provider_keys[k].live
                          /\ provider_keys'[k].provider = provider_keys[k].provider
    BY <1>5 DEF UpdateKeyRow, KeyRow, CatTypeOK
  <2>2. NoRevival
    BY <1>0, <2>1, NoneRevived
  <2> QED
    BY <2>1, <2>2 DEF OwnersAllocated, Owner
<1>6. ASSUME NEW j \in Key, NEW fk \in FkModes, DeleteKeyRow(j, fk)
      PROVE  OwnersAllocated' /\ NoRevival
  <2>1. /\ last_id' = last_id /\ providers' = providers
        /\ \A k \in Key : /\ provider_keys'[k].live => provider_keys[k].live
                          /\ provider_keys'[k].provider = provider_keys[k].provider
    BY <1>6 DEF DeleteKeyRow, NoKey, CatTypeOK
  <2>2. NoRevival
    BY <1>0, <2>1, NoneRevived
  <2> QED
    BY <2>1, <2>2 DEF OwnersAllocated, Owner
<1> QED
  BY <1>1, <1>2, <1>3, <1>4, <1>5, <1>6 DEF AdminStatement

LEMMA NextRevives ==
    ASSUME TypeOK, OwnersAllocated, [Next]_vars
    PROVE  OwnersAllocated' /\ NoRevival
<1>0. CatTypeOK /\ SyncTypeOK
  BY DEF TypeOK, SyncTypeOK
<1>1. last_id.key \in Nat /\ 1..last_id.key \subseteq Key
  BY <1>0, CatalogAssumption DEF CatTypeOK
<1> USE DEF OwnersAllocated, NoRevival, Exists, OwnerLive, Owner
<1>2. ASSUME UNCHANGED catVars PROVE OwnersAllocated' /\ NoRevival
  BY <1>1, <1>2 DEF catVars
<1>3. ASSUME UNCHANGED <<providers, last_id>>,
             \A k \in Key : /\ provider_keys'[k].live <=> provider_keys[k].live
                            /\ provider_keys'[k].provider = provider_keys[k].provider
      PROVE  OwnersAllocated' /\ NoRevival
  BY <1>1, <1>3
<1>4. ASSUME NEW s \in Sync, Start(s) PROVE OwnersAllocated' /\ NoRevival
  <2>1. UNCHANGED catVars
    BY <1>4, StartFrame
  <2> QED
    BY <1>2, <2>1
<1>5. ASSUME NEW s \in Sync, Step(s) PROVE OwnersAllocated' /\ NoRevival
  <2>1. ASSUME NEW k \in Key, SetKeySyncError(k) PROVE OwnersAllocated' /\ NoRevival
    <3>1. \A j \in Key : /\ provider_keys'[j].live <=> provider_keys[j].live
                         /\ provider_keys'[j].provider = provider_keys[j].provider
      BY <1>0, <2>1 DEF SetKeySyncError, CatTypeOK, KeyRow
    <3> QED
      BY <1>3, <2>1, <3>1 DEF SetKeySyncError
  <2>2. ASSUME NEW fk \in FkModes, Commit(s, fk) PROVE OwnersAllocated' /\ NoRevival
    <3>1. \A j \in Key : /\ provider_keys'[j].live <=> provider_keys[j].live
                         /\ provider_keys'[j].provider = provider_keys[j].provider
      BY <1>0, <2>2 DEF Commit, CatTypeOK, KeyRow
    <3> QED
      BY <1>3, <2>2, <3>1 DEF Commit
  <2>3. CASE UNCHANGED <<catVars, history>>
    BY <1>2, <2>3
  <2> QED
    BY <1>0, <1>5, <2>1, <2>2, <2>3, StepTables
<1>6. CASE Admin
  BY <1>0, <1>6, AdminRevives DEF Admin
<1>7. CASE Crash
  BY <1>2, <1>7 DEF Crash
<1>8. CASE UNCHANGED vars
  BY <1>2, <1>8 DEF vars
<1> QED
  BY <1>4, <1>5, <1>6, <1>7, <1>8 DEF Next

------------------------------------------------------------------------------
(***************************************************************************)
(* A request stores only its targets, and its targets are allocated ids.   *)
(***************************************************************************)
TargetsOf(r) ==
    /\ \A k \in Key : r.result[k] = "ok" => k \in r.targets
    /\ r.pc = "fetch" => r.todo \subseteq r.targets

Targets == \A s \in Sync : /\ TargetsOf(sync[s])
                           /\ sync[s].targets \subseteq 1..last_id.key

LEMMA TargetsInit == Init => Targets
<1>1. TargetsOf(NoSync) /\ NoSync.targets = {}
  BY DEF TargetsOf, NoSync
<1> QED
  BY <1>1 DEF Init, Targets

\* s alone has started, with allocated targets.
Targeted(s) ==
    /\ \A t \in Sync \ {s} : sync'[t] = sync[t]
    /\ \A k \in Key : sync'[s].result[k] \notin {"ok", "batch_error"}
    /\ sync'[s].pc \in {"get_key", "fetch", "done"}
    /\ TargetsOf(sync'[s])
    /\ sync'[s].targets \subseteq 1..last_id.key

LEMMA TargetsStart ==
    ASSUME SyncTypeOK, Results, Targets, FreshKeys, CatTypeOK,
           NEW s \in Sync, Start(s)
    PROVE  Targeted(s)
<1>0. sync[s] \in Request /\ sync[s].pc = "idle" /\ ResultsOf(sync[s])
  BY DEF SyncTypeOK, Results, Start, StartKey, StartProvider, StartAll, StartBatch,
         StartFails
<1>1. sync[s].targets = {} /\ \A k \in Key : sync[s].result[k] = "none"
  BY <1>0 DEF ResultsOf
<1> USE DEF SyncTypeOK, TargetsOf, Request, Targeted
<1>2. ASSUME NEW k \in Key, StartKey(s, k) PROVE Targeted(s)
  <2>1. /\ \A t \in Sync \ {s} : sync'[t] = sync[t]
        /\ sync'[s].pc \in {"get_key", "done"} /\ sync'[s].targets = {k}
        /\ \A j \in Key : sync'[s].result[j] \notin {"ok", "batch_error"}
    BY <1>0, <1>1, <1>2, StartKeyEffect DEF ReadError
  <2>2. k \in 1..last_id.key
    BY <1>2, CatalogAssumption DEF StartKey, CatTypeOK
  <2> QED
    BY <2>1, <2>2
<1>3. EnabledKeys \subseteq 1..last_id.key
  BY CatalogAssumption DEF EnabledKeys, FreshKeys, CatTypeOK
<1>4. ASSUME NEW keys \in SUBSET EnabledKeys, NEW scope, StartBatch(s, scope, keys)
      PROVE  Targeted(s)
  BY <1>0, <1>1, <1>3, <1>4 DEF StartBatch
<1>5. CASE StartFails(s)
  BY <1>0, <1>1, <1>5 DEF StartFails
<1> QED
  BY <1>2, <1>4, <1>5 DEF Start, StartProvider, StartAll

\* What a step makes of the results and the targets of its request.
LEMMA TargetsStep ==
    ASSUME SyncTypeOK, Results, NEW s \in Sync, TargetsOf(sync[s]), Step(s)
    PROVE  /\ TargetsOf(sync'[s])
           /\ sync'[s].targets \subseteq sync[s].targets \cup sync[s].todo
<1> DEFINE r == sync[s]
           Goal == /\ TargetsOf(sync'[s])
                   /\ sync'[s].targets \subseteq sync[s].targets \cup sync[s].todo
<1>0. r \in Request /\ ResultsOf(r) /\ sync \in [Sync -> Request]
  BY DEF SyncTypeOK, Results
<1> USE DEF TargetsOf, Request
<1>1. CASE GetKey(s)
  <2>1. \A k \in Key : r.result[k] = "none"
    BY <1>0, <1>1 DEF GetKey, ResultsOf
  <2>2. \E k \in Key : r.todo = {k} /\ r.targets = {k}
    BY <1>0, <1>1 DEF GetKey, ResultsOf
  <2> QED
    BY <1>1, <2>1, <2>2, GetKeyEffect DEF ReadError
<1>2. CASE RefuseDisabled(s)
  <2>1. PICK k \in r.todo : sync'[s] = [r EXCEPT !.pc = "done", !.todo = {},
                                                !.result[k] = "disabled"]
    BY <1>0, <1>2 DEF RefuseDisabled
  <2> QED
    BY <1>0, <2>1
<1>3. CASE FetchModels(s)
  <2>1. PICK k \in r.todo, ids \in SUBSET Model, dup \in BOOLEAN :
          sync'[s] = [r EXCEPT !.todo = @ \ {k}, !.ids[k] = ids,
                        !.result[k] = "ok",
                        !.dup = IF dup THEN @ \cup {k} ELSE @]
    BY <1>3, ZenonT(60) DEF FetchModels, NextTargets, SyncTypeOK
  <2>2. r.pc = "fetch"
    BY <1>3 DEF FetchModels
  <2>3. /\ sync'[s].pc = "fetch" /\ sync'[s].targets = r.targets
        /\ sync'[s].todo = r.todo \ {k}
        /\ sync'[s].result = [r.result EXCEPT ![k] = "ok"]
    BY <1>0, <2>1, <2>2
  <2> QED
    BY <1>0, <2>2, <2>3
<1>4. CASE FetchFails(s)
  <2>1. PICK k \in r.todo :
          sync'[s] = [r EXCEPT !.todo = @ \ {k}, !.result[k] = "fetch_error"]
    BY <1>0, <1>4 DEF FetchFails, NextTargets
  <2> QED
    BY <1>0, <2>1
<1>5. CASE FetchHangs(s)
  BY <1>0, <1>5 DEF FetchHangs
<1>6. ASSUME NEW fk \in FkModes, Commit(s, fk) \/ Abort(s, fk) PROVE Goal
  <2>1. \E pc \in {"done", "mark"} : sync'[s] = [r EXCEPT !.pc = pc]
    BY <1>0, <1>6 DEF Commit, Abort
  <2> QED
    BY <1>0, <2>1
<1>7. CASE MarkFailed(s)
  <2>1. PICK k \in Key : sync'[s] = [r EXCEPT !.result[k] = "batch_error"]
    BY <1>0, <1>7 DEF MarkFailed, Ok
  <2>2. r.pc = "mark"
    BY <1>7 DEF MarkFailed
  <2> QED
    BY <1>0, <2>1, <2>2
<1>8. CASE Marked(s)
  BY <1>0, <1>8 DEF Marked
<1> QED
  BY <1>1, <1>2, <1>3, <1>4, <1>5, <1>6, <1>7, <1>8 DEF Step

LEMMA TargetsNext ==
    TypeOK /\ FreshKeys /\ OwnersAllocated /\ Results /\ Targets /\ [Next]_vars
      => Targets'
<1> SUFFICES ASSUME TypeOK, FreshKeys, OwnersAllocated, Results, Targets, [Next]_vars
             PROVE  Targets'
  OBVIOUS
<1>0. CatTypeOK /\ SyncTypeOK
  BY DEF TypeOK, SyncTypeOK
<1>1. 1..last_id.key \subseteq (1..last_id.key)'
  <2>1. last_id.key <= last_id'.key
    BY NextRevives DEF NoRevival
  <2>2. last_id.key \in Nat /\ last_id'.key \in Nat
    BY TypeNext, CatalogAssumption DEF TypeOK, CatTypeOK
  <2> QED
    BY <2>1, <2>2
<1>2. ASSUME UNCHANGED sync PROVE Targets'
  BY <1>1, <1>2 DEF Targets, TargetsOf
<1>3. ASSUME NEW s \in Sync, Start(s) PROVE Targets'
  BY <1>0, <1>1, <1>3, TargetsStart DEF Targets, Targeted
<1>4. ASSUME NEW s \in Sync, Step(s) PROVE Targets'
  <2>1. ASSUME NEW k \in sync[s].todo PROVE k \in 1..last_id.key
    <3>1. k \in Key /\ last_id.key \in Nat
      BY <1>0, CatalogAssumption DEF SyncTypeOK, Request, CatTypeOK
    <3>2. ~(k > last_id.key)
      BY <3>1 DEF FreshKeys
    <3> QED
      BY <3>1, <3>2
  <2>2. /\ TargetsOf(sync'[s])
        /\ sync'[s].targets \subseteq sync[s].targets \cup sync[s].todo
    BY <1>0, <1>4, TargetsStep DEF Targets
  <2>3. \A t \in Sync \ {s} : sync'[t] = sync[t]
    BY <1>0, <1>4, StepFrame
  <2> QED
    BY <1>1, <2>1, <2>2, <2>3 DEF Targets
<1>5. CASE Crash
  <2> DEFINE lost == [NoSync EXCEPT !.pc = "dead"]
  <2>1. TargetsOf(lost) /\ lost.targets = {}
    BY DEF TargetsOf, NoSync
  <2>2. \A s \in Sync : sync'[s] = sync[s] \/ sync'[s] = lost
    BY <1>5 DEF Crash
  <2> HIDE DEF lost
  <2> QED
    BY <1>1, <2>1, <2>2 DEF Targets
<1> QED
  BY <1>2, <1>3, <1>4, <1>5 DEF Next, Admin, vars

LEMMA TargetsAlways ==
    Spec => [](TypeOK /\ FreshKeys /\ OwnersAllocated /\ Results /\ Targets)
<1>1. Init => OwnersAllocated
  BY DEF Init, CatInit, OwnersAllocated, Owner, NoKey
<1>2. TypeOK /\ OwnersAllocated /\ [Next]_vars => OwnersAllocated'
  BY NextRevives
<1> QED
  BY <1>1, <1>2, TypeInit, TypeNext, FreshInit, FreshNext, ResultsInit, ResultsNext,
     TargetsInit, TargetsNext, PTL DEF Spec

------------------------------------------------------------------------------
(***************************************************************************)
(* Why a batch fails.  The strengthening covers the requests that have     *)
(* rolled back and not marked their results yet.                           *)
(***************************************************************************)
CauseOf(s) == \E j \in sync[s].targets : Spoils(s, j)
Failed(r) == r.pc = "mark" \/ \E k \in Key : r.result[k] = "batch_error"

Causes == ~DbFails => \A s \in Sync : Failed(sync[s]) => CauseOf(s)

\* A cause lasts: an answer is never taken back, a deleted key never returns.
LEMMA CauseLasts ==
    ASSUME TypeOK, Targets, NoRevival, NEW s \in Sync, CauseOf(s),
           sync'[s].targets = sync[s].targets,
           sync'[s].ids = sync[s].ids, sync'[s].dup = sync[s].dup
    PROVE  CauseOf(s)'
<1>1. PICK j \in sync[s].targets : Spoils(s, j)
  BY DEF CauseOf
<1>2. j \in 1..last_id.key
  BY DEF Targets
<1>3. ~Exists(j) => ~Exists(j)'
  BY <1>2 DEF NoRevival
<1>4. Spoils(s, j)'
  BY <1>1, <1>3 DEF Spoils
<1> QED
  BY <1>4 DEF CauseOf

\* Only a rollback makes a request fail; a request that failed keeps its answers.
LEMMA StepFails ==
    ASSUME SyncTypeOK, Results, NEW s \in Sync, Step(s), Failed(sync'[s])
    PROVE  \/ \E fk \in FkModes : Abort(s, fk)
           \/ /\ Failed(sync[s])
              /\ sync'[s].targets = sync[s].targets
              /\ sync'[s].ids = sync[s].ids /\ sync'[s].dup = sync[s].dup
<1> DEFINE r == sync[s]
<1>0. r \in Request /\ ResultsOf(r) /\ sync \in [Sync -> Request]
  BY DEF SyncTypeOK, Results
<1> USE DEF Failed, Request
<1>1. CASE GetKey(s)
  <2>1. \A k \in Key : r.result[k] = "none"
    BY <1>0, <1>1 DEF GetKey, ResultsOf
  <2>2. /\ \A k \in Key : sync'[s].result[k] # "batch_error"
        /\ sync'[s].pc # "mark"
    BY <1>0, <1>1, <2>1, GetKeyEffect DEF ReadError
  <2> QED
    BY <2>2
<1>2. CASE RefuseDisabled(s)
  <2>1. PICK k \in r.todo : sync'[s] = [r EXCEPT !.pc = "done", !.todo = {},
                                                !.result[k] = "disabled"]
    BY <1>0, <1>2 DEF RefuseDisabled
  <2>2. \A j \in Key : r.result[j] = "none"
    BY <1>0, <1>2 DEF RefuseDisabled, ResultsOf
  <2> QED
    BY <1>0, <2>1, <2>2
<1>3. CASE FetchModels(s)
  <2>1. PICK k \in r.todo, ids \in SUBSET Model, dup \in BOOLEAN :
          sync'[s] = [r EXCEPT !.todo = @ \ {k}, !.ids[k] = ids,
                        !.result[k] = "ok",
                        !.dup = IF dup THEN @ \cup {k} ELSE @]
    BY <1>3, ZenonT(60) DEF FetchModels, NextTargets, SyncTypeOK
  <2>2. r.pc = "fetch"
    BY <1>3 DEF FetchModels
  <2>3. /\ sync'[s].pc = "fetch"
        /\ sync'[s].result = [r.result EXCEPT ![k] = "ok"]
    BY <1>0, <2>1, <2>2
  <2> QED
    BY <1>0, <2>2, <2>3 DEF ResultsOf
<1>4. CASE FetchFails(s)
  <2>1. PICK k \in r.todo :
          sync'[s] = [r EXCEPT !.todo = @ \ {k}, !.result[k] = "fetch_error"]
    BY <1>0, <1>4 DEF FetchFails, NextTargets
  <2>2. r.pc = "fetch"
    BY <1>4 DEF FetchFails
  <2> QED
    BY <1>0, <2>1, <2>2 DEF ResultsOf
<1>5. CASE FetchHangs(s)
  BY <1>0, <1>5 DEF FetchHangs
<1>6. ASSUME NEW fk \in FkModes, Commit(s, fk)
      PROVE  FALSE
  BY <1>0, <1>6 DEF Commit, Fetched, ResultsOf
<1>7. CASE MarkFailed(s)
  <2>1. PICK k \in Key : sync'[s] = [r EXCEPT !.result[k] = "batch_error"]
    BY <1>0, <1>7 DEF MarkFailed, Ok
  <2>2. r.pc = "mark"
    BY <1>7 DEF MarkFailed
  <2> QED
    BY <1>0, <2>1, <2>2
<1>8. CASE Marked(s)
  BY <1>0, <1>8 DEF Marked
<1> QED
  BY <1>1, <1>2, <1>3, <1>4, <1>5, <1>6, <1>7, <1>8 DEF Step

LEMMA AbortCause ==
    ASSUME SyncTypeOK, Targets, ~DbFails, NEW s \in Sync, NEW fk \in FkModes,
           Abort(s, fk)
    PROVE  CauseOf(s)'
<1>0. Ok(s) \subseteq sync[s].targets
  BY DEF Ok, Targets, TargetsOf
<1>1. PICK j \in Ok(s) : Spoils(s, j)
  BY DEF Abort, Insertable, Spoils, Exists
<1>2. /\ sync'[s].targets = sync[s].targets /\ sync'[s].ids = sync[s].ids
      /\ sync'[s].dup = sync[s].dup
  BY DEF Abort, SyncTypeOK, Request
<1>3. Exists(j)' <=> Exists(j)
  BY DEF Abort, catVars, Exists, OwnerLive, Owner
<1>4. Spoils(s, j)'
  BY <1>1, <1>2, <1>3 DEF Spoils
<1> QED
  BY <1>0, <1>2, <1>4 DEF CauseOf

LEMMA StartFailsNot ==
    ASSUME SyncTypeOK, Results, Targets, FreshKeys, CatTypeOK, NEW s \in Sync, Start(s)
    PROVE  ~Failed(sync'[s])
<1>1. sync[s] \in Request /\ sync[s].pc = "idle" /\ ResultsOf(sync[s])
  BY DEF SyncTypeOK, Results, Start, StartKey, StartProvider, StartAll, StartBatch,
         StartFails
<1>2. \A k \in Key : sync'[s].result[k] # "batch_error"
  BY TargetsStart DEF Targeted
<1>3. sync'[s].pc # "mark"
  BY TargetsStart DEF Targeted
<1> QED
  BY <1>2, <1>3 DEF Failed

LEMMA CausesNext ==
    TypeOK /\ FreshKeys /\ OwnersAllocated /\ Results /\ Targets /\ Causes /\ [Next]_vars
      => Causes'
<1> SUFFICES ASSUME TypeOK, FreshKeys, OwnersAllocated, Results, Targets, Causes,
                    [Next]_vars, ~DbFails, NEW s \in Sync, Failed(sync'[s])
             PROVE  CauseOf(s)'
  BY DEF Causes
<1>0. CatTypeOK /\ SyncTypeOK /\ NoRevival
  BY NextRevives DEF TypeOK, SyncTypeOK
<1>1. ASSUME sync'[s] = sync[s] PROVE CauseOf(s)'
  BY <1>0, <1>1, CauseLasts DEF Causes
<1>2. ASSUME NEW t \in Sync, Start(t) PROVE CauseOf(s)'
  <2>1. s # t
    BY <1>0, <1>2, StartFailsNot
  <2> QED
    BY <1>0, <1>1, <1>2, <2>1, TargetsStart DEF Targeted
<1>3. ASSUME NEW t \in Sync, Step(t) PROVE CauseOf(s)'
  <2>1. CASE s # t
    BY <1>0, <1>1, <1>3, <2>1, StepFrame
  <2>2. CASE s = t
    BY <1>0, <1>3, <2>2, StepFails, AbortCause, CauseLasts DEF Causes
  <2> QED
    BY <2>1, <2>2
<1>4. CASE Crash
  <2>1. ~Failed([NoSync EXCEPT !.pc = "dead"])
    BY DEF Failed, NoSync
  <2>2. sync'[s] = sync[s]
    BY <1>4, <2>1 DEF Crash
  <2> QED
    BY <1>1, <2>2
<1>5. CASE UNCHANGED sync
  BY <1>1, <1>5
<1> QED
  BY <1>2, <1>3, <1>4, <1>5 DEF Next, Admin, vars

(***************************************************************************)
(* However many keys, requests and deletions there are, on any connection: *)
(* unless the database fails, a batch fails only because an upstream       *)
(* repeated an id or because one of its targets was deleted under it       *)
(* (ReplaceSyncedKeyModels).                                               *)
(***************************************************************************)
THEOREM BatchesFailForCause == Spec => []BatchErrorHasCause
<1>1. Init => Causes
  <2>1. ~Failed(NoSync)
    BY DEF Failed, NoSync
  <2> QED
    BY <2>1 DEF Init, Causes
<1>2. Causes => BatchErrorHasCause
  BY DEF Causes, Failed, CauseOf, BatchErrorHasCause
<1> QED
  BY <1>1, <1>2, TargetsAlways, CausesNext, PTL DEF Spec

------------------------------------------------------------------------------
(***************************************************************************)
(* The labels of an event are those of the tables, when nobody renames.    *)
(***************************************************************************)
\* No live row changes its name.
NamesKept ==
    /\ \A k \in Key : provider_keys[k].live /\ provider_keys'[k].live
                        => provider_keys'[k].name = provider_keys[k].name
    /\ \A p \in Provider : providers[p].live /\ providers'[p].live
                             => providers'[p].name = providers[p].name

CurrentLabel(k) == [provider |-> providers[Owner(k)].name, key |-> provider_keys[k].name]

LabelsOf(r) ==
    /\ r.pc = "get_key" => \A k \in r.todo :
          Exists(k) => r.label[k].provider = providers[Owner(k)].name
    /\ r.pc = "fetch" => \A k \in r.targets :
          Exists(k) => r.label[k] = CurrentLabel(k)

Labels == \A s \in Sync : LabelsOf(sync[s])

\* A label that was current stays current while its key exists.
LEMMA LabelsLast ==
    ASSUME NoRevival, NamesKept, NEW k \in 1..last_id.key, k \in Key, Exists(k)'
    PROVE  /\ Exists(k)
           /\ providers'[Owner(k)'].name = providers[Owner(k)].name
           /\ CurrentLabel(k)' = CurrentLabel(k)
<1>1. Exists(k) /\ Owner(k)' = Owner(k)
  BY DEF NoRevival
<1>2. provider_keys'[k].name = provider_keys[k].name
  BY <1>1 DEF NamesKept, Exists
<1>3. providers'[Owner(k)'].name = providers[Owner(k)].name
  <2>1. /\ Owner(k) \in Provider /\ providers[Owner(k)].live
        /\ providers'[Owner(k)].live
    BY <1>1 DEF Exists, OwnerLive
  <2> QED
    BY <1>1, <2>1 DEF NamesKept
<1> QED
  BY <1>1, <1>2, <1>3 DEF CurrentLabel

\* The requests that go on asking, or that a step leaves alone.
LEMMA LabelsKeep ==
    ASSUME TypeOK, FreshKeys, Targets, NoRevival, NamesKept,
           NEW s \in Sync, LabelsOf(sync[s]),
           sync'[s].pc = sync[s].pc, sync'[s].label = sync[s].label,
           sync'[s].targets = sync[s].targets, sync'[s].todo \subseteq sync[s].todo
    PROVE  LabelsOf(sync[s])'
<1>0. /\ last_id.key \in Nat /\ 1..last_id.key \subseteq Key
      /\ sync[s].todo \subseteq Key
  BY CatalogAssumption DEF TypeOK, CatTypeOK, Request
<1>1. ASSUME NEW k \in sync[s].todo PROVE k \in Key /\ k \in 1..last_id.key
  <2>1. ~(k > last_id.key)
    BY <1>0 DEF FreshKeys
  <2> QED
    BY <1>0, <2>1
<1>2. \A k \in sync[s].targets : k \in Key /\ k \in 1..last_id.key
  BY <1>0 DEF Targets
<1>3. ASSUME sync[s].pc = "get_key", NEW k \in sync'[s].todo, Exists(k)'
      PROVE  sync'[s].label[k].provider = providers'[Owner(k)'].name
  BY <1>1, <1>3, LabelsLast DEF LabelsOf
<1>4. ASSUME sync[s].pc = "fetch", NEW k \in sync'[s].targets, Exists(k)'
      PROVE  sync'[s].label[k] = CurrentLabel(k)'
  BY <1>2, <1>4, LabelsLast DEF LabelsOf
<1> QED
  BY <1>3, <1>4 DEF LabelsOf

LEMMA LabelsStart ==
    ASSUME TypeOK, NEW s \in Sync, Start(s)
    PROVE  LabelsOf(sync[s])'
<1>0. sync[s] \in Request /\ SyncTypeOK /\ UNCHANGED catVars
  BY StartFrame DEF TypeOK, SyncTypeOK
<1>1. \A k : /\ Exists(k)' <=> Exists(k)
             /\ Owner(k)' = Owner(k) /\ CurrentLabel(k)' = CurrentLabel(k)
  BY <1>0 DEF catVars, Exists, OwnerLive, Owner, CurrentLabel
<1>2. ASSUME NEW k \in Key, StartKey(s, k) PROVE LabelsOf(sync[s])'
  <2> DEFINE names == [sync[s].label EXCEPT ![k] =
                         [@ EXCEPT !.provider = providers[Owner(k)].name]]
  <2>1. CASE sync' = [sync EXCEPT ![s] = [sync[s] EXCEPT !.pc = "get_key",
                        !.scope = "key", !.targets = {k}, !.todo = {k},
                        !.on = providers[Owner(k)].enabled, !.label = names]]
    <3>1. names[k].provider = providers[Owner(k)].name
      BY <1>0 DEF Request, Label
    <3>2. /\ sync'[s].pc = "get_key" /\ sync'[s].todo = {k}
          /\ sync'[s].label = names
      <4> HIDE DEF names
      <4> QED
        BY <1>0, <2>1 DEF SyncTypeOK, Request
    <3>3. providers' = providers
      BY <1>0 DEF catVars
    <3> QED
      BY <1>1, <3>1, <3>2, <3>3 DEF LabelsOf
  <2>2. CASE Put(s, [sync[s] EXCEPT !.pc = "done", !.scope = "key",
                       !.targets = {k}, !.result[k] = "read_error"])
    <3>1. sync'[s].pc = "done"
      BY <1>0, <2>2 DEF SyncTypeOK, Request
    <3> QED
      BY <3>1 DEF LabelsOf
  <2> QED
    BY <1>2, <2>1, <2>2 DEF StartKey
<1>3. ASSUME NEW scope, NEW keys \in SUBSET EnabledKeys, StartBatch(s, scope, keys)
      PROVE  LabelsOf(sync[s])'
  <2> DEFINE names == [k \in Key |-> IF k \in keys THEN
                         [provider |-> providers[Owner(k)].name,
                          key |-> provider_keys[k].name] ELSE AnyLabel]
  <2>1. /\ sync'[s].pc = "fetch" /\ sync'[s].targets = keys
        /\ sync'[s].label = names
    <3>1. sync' = [sync EXCEPT ![s] = [sync[s] EXCEPT !.pc = "fetch", !.scope = scope,
                     !.targets = keys, !.todo = keys, !.label = names]]
      BY <1>3 DEF StartBatch
    <3> HIDE DEF names
    <3> QED
      BY <1>0, <3>1 DEF SyncTypeOK, Request
  <2>2. \A k \in keys : names[k] = CurrentLabel(k)
    BY DEF EnabledKeys, CurrentLabel
  <2> HIDE DEF names
  <2> QED
    BY <1>1, <2>1, <2>2 DEF LabelsOf
<1>4. CASE StartFails(s)
  <2>1. sync'[s].pc = "done"
    BY <1>0, <1>4 DEF StartFails, SyncTypeOK, Request
  <2> QED
    BY <2>1 DEF LabelsOf
<1> QED
  BY <1>2, <1>3, <1>4 DEF Start, StartProvider, StartAll

LEMMA LabelsGetKey ==
    ASSUME TypeOK, Results, NEW s \in Sync, LabelsOf(sync[s]), GetKey(s)
    PROVE  LabelsOf(sync[s])'
<1>0. /\ sync[s] \in Request /\ SyncTypeOK /\ UNCHANGED catVars
      /\ sync[s].pc = "get_key"
  BY DEF TypeOK, SyncTypeOK, GetKey
<1>1. \A k : /\ Exists(k)' <=> Exists(k)
             /\ CurrentLabel(k)' = CurrentLabel(k)
  BY <1>0 DEF catVars, Exists, OwnerLive, Owner, CurrentLabel
<1>2. PICK k \in sync[s].todo :
        \/ Put(s, [sync[s] EXCEPT !.pc = "done", !.todo = {}, !.on = FALSE,
                          !.result[k] = "read_error"])
        \/ Put(s, [sync[s] EXCEPT !.pc = "fetch", !.on = FALSE,
                      !.label[k] = [@ EXCEPT !.key = provider_keys[k].name]])
        \/ Put(s, [sync[s] EXCEPT !.pc = "disabled", !.on = FALSE])
  BY GetKeyForm
<1> DEFINE names == [sync[s].label EXCEPT ![k] =
                       [@ EXCEPT !.key = provider_keys[k].name]]
<1>3. CASE sync' = [sync EXCEPT ![s] = [sync[s] EXCEPT !.pc = "fetch",
                      !.on = FALSE, !.label = names]]
  <2>1. /\ sync'[s].pc = "fetch" /\ sync'[s].targets = {k}
        /\ sync'[s].label = names
    <3>1. sync[s].targets = {k}
      BY <1>0 DEF Results, ResultsOf
    <3> HIDE DEF names
    <3> QED
      BY <1>0, <1>3, <3>1 DEF SyncTypeOK, Request
  <2>2. k \in Key /\ sync[s].label \in [Key -> Label]
    BY <1>0 DEF Request
  <2>3. Exists(k) => names[k] = CurrentLabel(k)
    <3>1. names[k] = [sync[s].label[k] EXCEPT !.key = provider_keys[k].name]
      BY <2>2
    <3>2. sync[s].label[k] \in Label
      BY <2>2
    <3>3. Exists(k) => sync[s].label[k].provider = providers[Owner(k)].name
      BY <1>0 DEF LabelsOf
    <3> QED
      BY <3>1, <3>2, <3>3 DEF Label, CurrentLabel
  <2> HIDE DEF names
  <2> QED
    BY <1>1, <2>1, <2>3 DEF LabelsOf
<1>4. CASE \/ Put(s, [sync[s] EXCEPT !.pc = "done", !.todo = {}, !.on = FALSE,
                          !.result[k] = "read_error"])
           \/ Put(s, [sync[s] EXCEPT !.pc = "disabled", !.on = FALSE])
  <2>1. sync'[s].pc \in {"done", "disabled"}
    <3>1. CASE Put(s, [sync[s] EXCEPT !.pc = "done", !.todo = {}, !.on = FALSE,
                          !.result[k] = "read_error"])
      BY <1>0, <3>1 DEF SyncTypeOK, Request
    <3>2. CASE Put(s, [sync[s] EXCEPT !.pc = "disabled", !.on = FALSE])
      BY <1>0, <3>2 DEF SyncTypeOK, Request
    <3> QED
      BY <1>4, <3>1, <3>2
  <2> QED
    BY <2>1 DEF LabelsOf
<1> QED
  BY <1>2, <1>3, <1>4

LEMMA LabelsStep ==
    ASSUME TypeOK, FreshKeys, Results, Targets, NoRevival, NamesKept,
           NEW s \in Sync, LabelsOf(sync[s]), Step(s)
    PROVE  LabelsOf(sync[s])'
<1> DEFINE r == sync[s]
<1>0. r \in Request /\ SyncTypeOK
  BY DEF TypeOK, SyncTypeOK
<1> USE DEF SyncTypeOK, Request
<1>1. CASE GetKey(s)
  BY <1>1, LabelsGetKey
<1>2. ASSUME sync'[s].pc \notin {"get_key", "fetch"} PROVE LabelsOf(sync[s])'
  BY <1>2 DEF LabelsOf
<1>3. CASE RefuseDisabled(s)
  <2>1. PICK k \in r.todo : sync'[s] = [r EXCEPT !.pc = "done", !.todo = {},
                                                !.result[k] = "disabled"]
    BY <1>0, <1>3 DEF RefuseDisabled
  <2> QED
    BY <1>0, <1>2, <2>1
<1>4. CASE FetchModels(s)
  <2>1. PICK k \in r.todo, ids \in SUBSET Model, dup \in BOOLEAN :
          sync'[s] = [r EXCEPT !.todo = @ \ {k}, !.ids[k] = ids,
                        !.result[k] = "ok",
                        !.dup = IF dup THEN @ \cup {k} ELSE @]
    BY <1>4, ZenonT(60) DEF FetchModels, NextTargets, TypeOK
  <2>2. /\ sync'[s].pc = r.pc /\ sync'[s].label = r.label
        /\ sync'[s].targets = r.targets /\ sync'[s].todo \subseteq r.todo
    BY <1>0, <2>1
  <2> QED
    BY <2>2, LabelsKeep
<1>5. CASE FetchFails(s)
  <2>1. PICK k \in r.todo :
          sync'[s] = [r EXCEPT !.todo = @ \ {k}, !.result[k] = "fetch_error"]
    BY <1>0, <1>5 DEF FetchFails, NextTargets
  <2>2. /\ sync'[s].pc = r.pc /\ sync'[s].label = r.label
        /\ sync'[s].targets = r.targets /\ sync'[s].todo \subseteq r.todo
    BY <1>0, <2>1
  <2> QED
    BY <2>2, LabelsKeep
<1>6. CASE FetchHangs(s)
  BY <1>0, <1>2, <1>6 DEF FetchHangs
<1>7. ASSUME NEW fk \in FkModes, Commit(s, fk) \/ Abort(s, fk) PROVE LabelsOf(sync[s])'
  <2>1. \E pc \in {"done", "mark"} : sync'[s] = [r EXCEPT !.pc = pc]
    BY <1>0, <1>7 DEF Commit, Abort
  <2> QED
    BY <1>0, <1>2, <2>1
<1>8. CASE MarkFailed(s)
  <2>1. PICK k \in Key : sync'[s] = [r EXCEPT !.result[k] = "batch_error"]
    BY <1>0, <1>8 DEF MarkFailed, Ok
  <2>2. sync'[s].pc = "mark"
    BY <1>0, <1>8, <2>1 DEF MarkFailed
  <2> QED
    BY <1>2, <2>2
<1>9. CASE Marked(s)
  BY <1>0, <1>2, <1>9 DEF Marked
<1> QED
  BY <1>1, <1>3, <1>4, <1>5, <1>6, <1>7, <1>8, <1>9 DEF Step

LEMMA LabelsNext ==
    /\ TypeOK /\ FreshKeys /\ OwnersAllocated /\ Results /\ Targets /\ Labels
    /\ [Next]_vars /\ [NamesKept]_vars
    => Labels'
<1> SUFFICES ASSUME TypeOK, FreshKeys, OwnersAllocated, Results, Targets, Labels,
                    [Next]_vars, [NamesKept]_vars, NEW s \in Sync
             PROVE  LabelsOf(sync[s])'
  BY DEF Labels
<1>0. CatTypeOK /\ SyncTypeOK /\ NoRevival /\ LabelsOf(sync[s])
  BY NextRevives DEF TypeOK, SyncTypeOK, Labels
<1>1. NamesKept
  BY DEF vars, catVars, NamesKept
<1>2. ASSUME sync'[s] = sync[s] PROVE LabelsOf(sync[s])'
  BY <1>0, <1>1, <1>2, LabelsKeep
<1>3. ASSUME NEW t \in Sync, Start(t) PROVE LabelsOf(sync[s])'
  <2>1. CASE s = t
    BY <1>3, <2>1, LabelsStart
  <2>2. CASE s # t
    BY <1>0, <1>2, <1>3, <2>2, TargetsStart DEF Targeted
  <2> QED
    BY <2>1, <2>2
<1>4. ASSUME NEW t \in Sync, Step(t) PROVE LabelsOf(sync[s])'
  <2>1. CASE s = t
    BY <1>0, <1>1, <1>4, <2>1, LabelsStep
  <2>2. CASE s # t
    BY <1>0, <1>2, <1>4, <2>2, StepFrame
  <2> QED
    BY <2>1, <2>2
<1>5. CASE Crash
  <2> DEFINE lost == [NoSync EXCEPT !.pc = "dead"]
  <2>1. lost.pc = "dead"
    BY DEF NoSync
  <2> HIDE DEF lost
  <2>2. sync'[s] = sync[s] \/ sync'[s] = lost
    BY <1>5 DEF Crash, lost
  <2>3. CASE sync'[s] = lost
    BY <2>1, <2>3 DEF LabelsOf
  <2> QED
    BY <1>2, <2>2, <2>3
<1>6. CASE UNCHANGED sync
  BY <1>2, <1>6
<1> QED
  BY <1>3, <1>4, <1>5, <1>6 DEF Next, Admin, vars

\* A key whose cache a commit changes exists, and carries its current label.
LEMMA CommitLabels ==
    ASSUME FkModes = {TRUE}, TypeOK, NoOrphans, Targets, Labels,
           NEW s \in Sync, NEW fk \in FkModes, Commit(s, fk), NEW k \in Changed(s)
    PROVE  sync[s].label[k] = CurrentLabel(k)
<1>1. k \in Key /\ k \in Ok(s) /\ sync[s].ids[k] # model_cache[k]
  BY DEF Changed, Replaced
<1>2. Exists(k)
  <2>1. CASE sync[s].ids[k] # {}
    BY <1>1, <2>1 DEF Commit, Insertable, Exists
  <2>2. CASE model_cache[k] # {}
    BY <1>1, <2>2 DEF NoOrphans, Exists, OwnerLive, Owner
  <2> QED
    BY <1>1, <2>1, <2>2
<1>3. k \in sync[s].targets /\ sync[s].pc = "fetch"
  BY <1>1 DEF Ok, Targets, TargetsOf, Commit, Fetched
<1> QED
  BY <1>2, <1>3 DEF Labels, LabelsOf

LEMMA RunsAreLabelled ==
    ASSUME FkModes = {TRUE}, TypeOK, NoOrphans, Targets, Labels, [Next]_vars,
           NEW k \in Key, Len(history') > Len(history),
           k \in DOMAIN history'[Len(history')].events
    PROVE  history'[Len(history')].events[k].label = CurrentLabel(k)
<1>0. CatTypeOK /\ SyncTypeOK /\ history \in Seq(Run)
  BY DEF TypeOK, SyncTypeOK
<1>1. history' # history
  BY <1>0
<1>2. PICK s \in Sync, fk \in FkModes : Commit(s, fk)
  <2>1. ~(Admin \/ Crash \/ UNCHANGED vars)
    BY <1>1 DEF Admin, Crash, vars
  <2>2. \A s \in Sync : ~Start(s)
    BY <1>1, StartFrame
  <2>3. PICK s \in Sync : Step(s)
    BY <2>1, <2>2 DEF Next
  <2> QED
    BY <1>0, <1>1, <2>3, StepTables
<1> DEFINE r == [scope |-> sync[s].scope,
                 events |-> [j \in Changed(s) |-> ChangeEvent(s, j)]]
<1>3. history' = Append(history, r)
  BY <1>1, <1>2 DEF Commit
<1>4. r \in Run
  BY CommitRun
<1>5. history'[Len(history')] = r
  <2> HIDE DEF r
  <2> QED
    BY <1>0, <1>3, <1>4
<1>6. k \in Changed(s) /\ r.events[k] = ChangeEvent(s, k)
  BY <1>5
<1>7. sync[s].label[k] = CurrentLabel(k)
  BY <1>2, <1>6, CommitLabels
<1>8. ChangeEvent(s, k).label = sync[s].label[k]
  BY DEF ChangeEvent
<1> HIDE DEF r
<1> QED
  BY <1>5, <1>6, <1>7, <1>8

(***************************************************************************)
(* docs/frontend-api.md calls the names of a change event a snapshot of    *)
(* the moment it is written.  With foreign keys enforced, only a rename    *)
(* between the read of the targets and the commit can make that untrue:    *)
(* whatever else races, and whatever is deleted, the labels of every run   *)
(* are those of the tables as it commits.                                  *)
(***************************************************************************)
THEOREM SteadyNamesAreSnapshots ==
    ASSUME FkModes = {TRUE}
    PROVE  Spec /\ [][NamesKept]_vars => LabelsAreCurrent
<1> DEFINE IInv == TypeOK /\ FreshKeys /\ OwnersAllocated /\ Results /\ Targets
<1>1. Init => Labels
  <2>1. NoSync.pc = "idle"
    BY DEF NoSync
  <2> QED
    BY <2>1 DEF Init, Labels, LabelsOf
<1>2. Spec => []IInv
  BY TargetsAlways
<1>3. Spec => []NoOrphans
  BY EnforcedForeignKeys
<1>4. IInv /\ Labels /\ [Next]_vars /\ [NamesKept]_vars => Labels'
  BY LabelsNext
<1>5. IInv /\ NoOrphans /\ Labels /\ [Next]_vars
        => [\A k \in Key :
              Len(history') > Len(history) /\ k \in DOMAIN history'[Len(history')].events
                => history'[Len(history')].events[k].label =
                     [provider |-> providers[Owner(k)].name,
                      key |-> provider_keys[k].name]]_vars
  BY RunsAreLabelled DEF CurrentLabel
<1> HIDE DEF IInv
<1> QED
  BY <1>1, <1>2, <1>3, <1>4, <1>5, PTL DEF Spec, LabelsAreCurrent
==============================================================================
