# Verification of Modelister

Modelister keeps a catalogue of OpenAI-compatible providers and their API keys
in one SQLite file, asks each upstream which models a key can use, caches the
answers, records what changed, and serves an administration page. This
directory holds TLA+ modules of that program, TLC configurations that check
them on small instances, and TLAPS proofs for every instance.

Run `tlc -config X.cfg M` and `tlapm M.tla` in this directory.

## 1. The system

| Part | Source | State | Operations |
|---|---|---|---|
| Catalogue tables | `internal/store/store.go` | `providers`, `provider_keys`, `model_cache`; AUTOINCREMENT ids; cascading foreign keys; `unique(provider_key_id, model_id)` | SQL statements of the two repositories |
| Opening and migration | `store.go` `Open`, `migrate`, `ensureModelChangeEventsSchema` | schema, `pragma foreign_keys` of one connection | run once at each start, one transaction per statement |
| Transactions | `store.go` `WithTx` | one open transaction | begin, run, roll back or commit |
| Providers repository and handlers | `internal/providers` | none of its own | create, read, update, delete of providers and keys, one to three statements each |
| Synchronisation | `internal/models/sync.go` | locals of the request goroutine | `SyncKey`, `SyncProvider`, `SyncAll`, also through `refresh=true` |
| Batch replacement, change history | `internal/models/store.go` | `model_change_runs`, `model_change_events` | `ReplaceSyncedKeyModels`, `SetKeySyncError` |
| Model lists, change feed | `internal/models/store.go`, `handlers.go` | none | `ListByKey`, `ListMerged`, `ListChangeEvents` |
| Authentication | `internal/auth/auth.go` | none: a signed cookie | login, logout, check |
| Routing, configuration, JSON, static files | `internal/server`, `config`, `httpx`, `webui`, `cmd` | none | |
| Administration page | `frontend/src` | session state of `App`, React state of `Models`, `ModelChanges`, `Providers`, `ProviderCard` | requests to the API, whose answers arrive in any order |

**Interactions.** Every HTTP request is a goroutine. They share one `sql.DB`,
a *pool* of SQLite connections, and no lock: between two statements of a
request any statement of any other may run. Only `ReplaceSyncedKeyModels` uses
a transaction. A synchronisation request calls the upstreams one after the
other, outside the transaction, through `http.DefaultClient`, which has no
timeout. The page talks to the API alone.

**What is hard.** A synchronisation reads names, secrets and switches, waits
for the network for as long as the upstream likes, and then writes; meanwhile
its key or provider may be renamed, disabled or deleted, and other requests
may have replaced the same cache. A batch of many keys is stored in one
transaction that any of them can make fail. `pragma foreign_keys` is set on one
connection of the pool. `CreateKey` and `UpdateKey` check or read first and
write later. The process may stop anywhere, also inside the migration. In the
page, every toast renders `App`, every render makes `Models` and `ModelChanges` load
again, and loads show toasts; answers come late, also to a page, or from a session,
that is gone.

**What makes each part correct.**

- *Catalogue*: a key has its provider, a cached model its key; ids are never reused.
- *Administration API*: an answer is true when it is given; a 404 stays true; an
  update changes what it was asked to change.
- *Synchronisation*: a cache is one whole answer of its upstream, never a
  mixture; a batch is stored or lost as one; the answer has one result for each
  target; every request ends unless its own upstream hangs.
- *History*: replaying the events of a key gives its cached models, always.
- *Change feed and timeline page*: pages meet at their boundaries, a run is shown
  whole, the button for older records tells the truth, no spinner stays for good.
- *Model lists*: every cached model of an enabled key appears under that key, once;
  merged, once under its provider.
- *Opening*: a process serves on a migrated file only; a start after a crash in the
  migration succeeds; no start loses events of a committed run.
- *Sessions and the page of models*: a list is on the screen only of the session it was
  served to; the page ends up showing what its mode and its box ask for; it comes
  to rest; who keeps logging in stays in.
- *Page of providers* (not modelled): the list and the keys of an open card are those of
  the last answer, with no provider twice.

## 2. The modules

| Module | What it is |
|---|---|
| `Catalog` | the tables and one operator per SQL statement that writes them |
| `AdminApi` | extends `Catalog`: the administration handlers, statement by statement |
| `SyncService` | extends `Catalog`: synchronisation requests, the change history, restarts |
| `ModelLedger` | abstract specification of cache and history, implemented by `SyncService` |
| `ChangeFeed` | `ListChangeEvents` in its two queries and the timeline page that reads it |
| `StoreOpen` | `Open` and `migrate`, statement by statement, by several processes |
| `Session` | the signed cookie of `internal/auth` and who it authenticates |
| `Console` | extends `Session`: one browser with `App` and the page of models |
| `ModelQuery` | the pure functions behind `ListByKey` and `ListMerged`, and their reference |
| `MCAdminApi`, `MCSyncService`, `MCChangeFeed`, `MCStoreOpen`, `MCConsole` | constants and symmetry for TLC; `MCConsole` joins `Console` and `ModelQuery` |
| `CatalogProofs`, `AdminApiProofs`, `ModelLedgerProofs`, `SyncServiceProofs`, `ChangeFeedProofs`, `StoreOpenProofs`, `ConsoleProofs`, `ModelQueryProofs` | theorems |

**State.** A table is a function from ids to rows, with `live` for "the row
exists". `last_id` is SQLite's `sqlite_sequence`. `name` stands for all the labels an
event copies (a provider's name and base_url, a key's name); note and the timestamps
are left out, `failed` says that `last_sync_error` is not empty. `model_cache[k]`
is the set of ids cached under `k`. A dead key keeps `provider`, because cache
rows and requests still carry it. `req` and `sync` hold the request of each
client: `pc` names the statement or call that comes next, the other fields are
the locals that live across it. `history` is the sequence of runs, each
with an event per changed key.

**Actions.** An action of `AdminApi` is one statement of a handler with the
code up to the next one: `CreateKey` is the lookup of the provider,
`InsertNewKey` the insert, `ReadKey` the read-back that answers. An update with
an empty `api_key` (`blank`) first reads the secret. `StatementFails` is any
later statement returning an error. `Refused` is a request that ends with its first
statement and touches nothing: the statement fails, or finds no row because no row
ever had the id, or because the key is not of the provider that the path names (`where id =
? and provider_id = ?`). Requests that fail validation reach no statement and are left
out.

In `SyncService`, `StartKey`, `StartProvider`, `StartAll` and `StartFails` are
the first read (a `SyncKey` whose read fails still answers with the one result of its
key, `read_error`; the other two answer with that error alone), `GetKey` and
`RefuseDisabled` the rest of `SyncKey`,
`FetchModels`, `FetchFails` and `FetchHangs` the three fates of an upstream call,
`Commit` and `Abort` the two of the transaction, `MarkFailed` and `Marked` the
loop that rewrites the results after `Abort`. A request that arrives with
`refresh=true` is `StartAll`. `Crash` loses the requests and keeps the tables. `Admin`
is any one statement of the administration API (`AdminStatement`): that the
handlers do nothing else is `StatementsOnly`, checked and proved of `AdminApi`, so the two
modules need not be multiplied.

In `ChangeFeed`, `runs` has the events of each run, `loads` the requests the page
has in flight, and `groups`, `hasMore`, `nextBeforeId`, `loading`, `loadingMore` are the
React state of the same names. `ReadRuns` and `ReadEvents` are the two queries, with
`Commit` free to run between them; `Answer` is the continuation of `loadPage`, whose
state updates React applies together. `useToast` returns a new object and `App` a new
`onUnauthorized` with every render, so whatever renders `App` changes `loadPage`, and
the effect that depends on it loads the first page: hence the new request in
`Fails` (which shows a toast) and in `ToastEnds`. `Reopen` mounts the page anew, and
late answers of the old one change nothing, except that the toast of a failure
is `App`'s and renders the new page too (`OtherToast`, which also stands for
the failing requests of other tabs). Runs that lost their events when
the legacy table was dropped are the first `MaxOld` ones. The double effect of
React's StrictMode exists in development builds only and is left out.

In `StoreOpen`, the file is what is persistent (`tables`, `events`, `runs` with `kept`, the
ones whose events are still there), and `pc`, `at` are where each process is in
`Open`. `RunStatement` is one turn of the loop of `migrate` over its nine statements, five
for tables and four for indexes, `Check`, `Drop`, `Create`
are `ensureModelChangeEventsSchema`, `Indexes` the rest, `Commit` a
synchronisation of a process that serves. `Fault` is a crash, a stop or an error
of any statement, which ends the process through `log.Fatal`. `Init` is a new
file or one of an earlier release, with any of the other tables. `MayStart` says
who opens what: processes may overlap, as when one container replaces another,
but a file of an earlier release is opened by one process at a time, the single
container of `docker-compose.yml`. Two that both find the old columns would
both drop the table, the slower one after the faster one serves; the code has no
lock against it.

In `Console`, `conf` is the configuration of the server process, `cookie` what the browser
holds, and the rest the React state of `App` and `Models`. A cookie is modelled as
the configuration that signed it; `Carried` are the user names that survive the way
through `user|mac` and `net/http`: not those with a `|`, a quote or
a non-ASCII letter. The password stands behind the name. A request keeps the cookie it
was sent with and is served when its answer is delivered, so that `AnswerMe`, `AnswerLogin`,
`AnswerLogout`, `RefuseList`, `AnswerList` and `AnswerLate` are each a
handler of the server, the browser's cookie jar and a continuation of the page.
`late` marks a request whose page is gone (its state updates do nothing, its
`onUnauthorized` and its toasts still reach `App`), `overtaken` one that was passed by the
answer to a newer one. `timer` is the debounce of `Models`: it is armed by a change of mode or
text, and by every render of `App`, since `App` passes new callbacks and the effect depends
on them (`Toasts`). `tab` is kept by `App` while it shows the login, so that a login
opens the page of models or another tab; `Mounted` says that the page of models is on the
screen, `SwitchTab` opens and leaves it. Of the other tabs there is a refused request
(`RefuseOther`), which ends the session whichever tab sent it. `Fails` is a request that
throws in `api.js`: it never reached the server, or it was served and the answer was
lost, perhaps after the browser had stored the cookie that a login or a logout
sets. That a refresh
is answered presumes that the upstreams answer; when they do not is the matter of
`SyncService` and `RequestsEnd`.

`ModelQuery` has no state. A table is what the join of the query sees, and `InOrder` is
its `order by`. `Filed` is the loop body of `ListByKey`, with `WithProvider` and
`WithKey` for its two lookups, which append what they do not find; the map of keys
has the index `providerID<<32 | keyID`. `Kept` and `Taken` are the bodies of the two loops
of `ListMerged`, over the models of a provider in the order of its keys
(`ModelsOf`). A search is given by the ids it matches. `KeysListed` and `MergedOnce` compare the
trees with the rows of the query over every table; `MCConsole` asks for them
where `Console` shows a list of that mode. `Shift` is 2^32 in the code and 4 in the run, and
`ModelQueryAssumption` says that ids are below it, which makes `|` an addition; without
it the code files models under other keys. (A provider id of 32 bits sets the sign of
the `int64`, which the index does not mind: it is still another number for every key.)

**Two assumptions are constants.** `FkModes` is the set of values the pragma
may have on the connection a statement gets: `{TRUE}` when the pool never
grows past the connection `Open` prepared, `BOOLEAN` when it does. `DbFails` lets
every later database call fail.

## 3. The runs

| Run | Bounds | Shows |
|---|---|---|
| `AdminRaces` | 2 clients, 2 providers, 2 keys, 2 secrets, one connection | `TypeOK`, `NoOrphans`, `NotFoundIsFinal`, `StatementsOnly` |
| `SyncRaces` | 3 requests, 1 provider, 1 key, 2 models, any connection | `TypeOK`, `HistoryReplaysCache`, `CacheIsOneAnswer` |
| `SyncDeletions` | 2 requests, 1 provider, 2 keys, 1 model, one connection | `NoOrphans`, `BatchStandsTogether`, `BatchErrorHasCause`, `LedgerSpec` (refinement of `ModelLedger`) |
| `SyncEnds` | 2 requests, 1 key, failing calls, restarts | `BatchStandsTogether` with failing calls, `RequestsEnd` (liveness) |
| `FeedPages` | 5 runs in pages of 2, 2 changes, 2 requests in flight | `TypeOK`, `PagesAreSlices`, `GroupsAreWhole`, `EndIsTruthful`, `FlagsHaveRequests`, `GapsNeedOvertaking` |
| `StoreOpens` | 2 processes, 3 faults, 2 committed runs | `TypeOK`, `ServesCurrent`, `EventsSurvive`, `OpenRecovers` (liveness) |
| `Consoles` | 3 requests in flight, 3 clicks, 2 restarts or failures, 2 names, 2 secrets, 2 texts; tables of 2 providers, 3 keys, 2 models | `TypeOK`, `SettledView`, `ShownToSession`, `ListedByKey`, `ListedMerged`, `PageSettles` and `SessionLasts` (liveness) |
| `OrphansOnPool` | 1 request, 1 key, any connection | `NoOrphans` fails |
| `LostRotation` | 2 clients, 1 key, 2 secrets | `BlankKeepsSecret` fails |
| `StaleLabels` | 1 request, 1 key, 2 names | `LabelsAreCurrent` fails |
| `OneBadAnswer` | 1 request, 2 keys | `AnsweredKeysAreStored` fails |
| `TimelineGap` | 4 runs in pages of 2, 2 requests in flight | `TimelineIsContiguous` fails |

Deadlock is checked in all but two: a request can always be started, a row
updated or the process restarted. `StoreOpens` and `Consoles` really stop, with
every process serving and nothing left to commit, or a page that waits for its user.

*Why the bounds are enough.* Two clients interleave every pair of handlers, and two ids
of each kind allow one row to go and another to be allocated. Three requests
for one key are an older answer, a newer one and a third that sees what either left;
two models make additions, removals and both at once. Two keys in a batch are
the least in which one can spoil the other. Five runs are three pages of two, so that
the page in the middle has both neighbours (with four, an older page that forgets
to move the cursor goes unnoticed), and two requests are a reload and an older
page in either order. Three faults are one in each half of a migration and one
while serving, and a second process is enough to overlap with. Three list requests
in flight are an older, a newer and one of another mode; three clicks are a change, a
refresh and a logout or a return; one fault is a failed request or a restart,
two are both, with the secret changed and changed back. Three keys under the
providers 1 and 2, below a shift of two bits, make the compound keys collide if the shift is a
bit short, and let a model belong to several keys. Every property of the passing
runs is also proved for every bound, except liveness (section 4).

*The five violations* are disagreements between the code and
`docs/frontend-api.md`; PROJECT.json quotes the lines.

1. `OrphansOnPool`: with a second pooled connection a deletion does not cascade.
2. `LostRotation`: an update that leaves `api_key` empty can undo a rotation.
3. `StaleLabels`: the names in an event are those read before the fetch.
4. `OneBadAnswer`: an upstream that repeats an id costs every key of the batch
   its refresh.
5. `TimelineGap`: a page of older runs that arrives after a reload is appended to
   the wrong runs, and a run is shown twice or left out. `EndIsTruthful` still holds:
   the button below continues from the last run shown.

Each has a theorem that delimits it: under the stated hypothesis, or without the
stated cause, the property does hold (`EnforcedForeignKeys`,
`SerialUpdatesKeepSecrets`, `SteadyNamesAreSnapshots`, `BatchesFailForCause`,
`OrderBreaksOneWay`).

**Fairness.** `FairSpec` has weak fairness of `Step(s)`, the goroutine of each
request that has begun: the Go scheduler runs a goroutine whose call has
returned. Nothing is assumed of administrators, of new requests or of
restarts. `FetchHangs` is among the steps, so that fairness never makes an upstream
answer: `RequestsEnd` says that a request ends, hangs in its own fetch, or dies
with the process. It would fail if a request waited for another, as it would with
a transaction around the fetches (the mutant `FetchedUnderLock`).

`StoreOpen!FairSpec` has weak fairness of `Start` and `Migrate` of each
process: compose restarts a container that ended (`restart: unless-stopped`), and a
process that runs goes on. Faults are bounded, as they must be for `OpenRecovers`.

`Console!FairSpec` has weak fairness of answers, of the two timers, and of a login
with the right name while the login form is shown. Clicks, failures and
restarts are bounded and never forced. `PageSettles` and `SessionLasts` speak of
configurations whose name is `Carried`: with any other name every login succeeds
and every later request is refused, so that page and form alternate for
as long as somebody logs in.

## 4. The proofs

All theorems hold for any numbers of providers, keys, requests and clients, any sets of
names, secrets, texts and models, any bounds, and (unless said) any `FkModes`. They assume
`CatalogAssumption`, `DbFailsAssumption`, `ChangeFeedAssumption`, `StoreOpenAssumption`,
`SessionAssumption` and `ConsoleAssumption`, which only type the constants, and
`ModelQueryAssumption`: ids are below `Shift` and a table has finitely many models.

- `ModelLedgerProofs`: `LedgerReplays`, the abstract ledger keeps
  `HistoryReplaysCache`. Every event must find the cache it was computed from equal to
  the replay so far; deleted keys are exempt for good because `gone` only grows.
- `CatalogProofs`: what one administration statement preserves (`AdminType`,
  `AdminNoOrphans`), used by both components.
- `SyncServiceProofs`:
  - `TypeCorrect`.
  - `SyncImplementsLedger`: `Spec => LedgerSpec`, with `gone` mapped to the
    allocated ids whose row is gone. `Commit` maps to `Replace` when something
    changed and to a stutter when not; deletions map to `Forget`; all else stutters.
    The invariant `FreshKeys` is needed: what a request, the cache or the history
    mentions has an allocated id, so that a fresh key starts with an empty cache and
    never leaves `gone`.
  - `TimelineMatchesCache`: `HistoryReplaysCache`, from the refinement and `LedgerReplays`.
  - `EnforcedForeignKeys`: `FkModes = {TRUE}` implies `[]NoOrphans`. The
    hypothesis is exactly what `OrphansOnPool` shows to be needed.
  - `BatchesStandTogether` and `CachesAreWholeAnswers`, from the invariant
    `Results`, which says for each `pc` which results a request can hold.
  - `BatchesFailForCause` (`BatchErrorHasCause`), on any connections. The invariant
    `Causes` extends it to the time between the rollback and the last marked result.
    A cause must outlast that time: an answer is never taken back, and a deleted
    key never returns (`NoRevival`), because targets and owners are allocated ids
    (`Targets`, `OwnersAllocated`) and AUTOINCREMENT gives out new ones only.
  - `SteadyNamesAreSnapshots`: `FkModes = {TRUE}` implies
    `Spec /\ [][NamesKept]_vars => LabelsAreCurrent`. The invariant `Labels` says that a
    request in flight holds the current names of each target that exists, from each of
    the reads that give them. A key whose cache changes exists, by the foreign key for
    what is inserted and by `NoOrphans` for what is removed.
- `AdminApiProofs`: `TypeCorrect`, `NotFoundStaysTrue`, `HandlersRunStatements`
  (the contract between `AdminApi` and `SyncService`) and `EnforcedForeignKeys`.
  The invariant adds `AllocatedIds`: requests and answers speak of ids already
  allocated. Without it a fresh row could contradict an old 404.
  - `SerialUpdatesKeepSecrets`: `Spec /\ []OneUpdatePerKey => BlankKeepsSecret`. While
    no two updates of one key are between their read and their write, the secret
    that was read is still in the row (`ReadsAreFresh`): deletions, failures and all
    other requests leave it alone, and an id never comes back with another secret.
- `ChangeFeedProofs`, for any page size and number of runs, requests and toasts:
  `TypeCorrect`, `PagingIsExact` (`PagesAreSlices`), `ShownWhole` (`GroupsAreWhole`),
  `ButtonIsTruthful` (`EndIsTruthful`), `FlagsAreReset` (`FlagsHaveRequests`) and
  `OrderBreaksOneWay` (`GapsNeedOvertaking`), from one invariant `IInv`.
  - `Newest` is a `CHOOSE`: `NewestIsTop` shows with the bijection of
    `RankIsBijection` that there is such a set, and `OneRowMore` that the row
    beyond the limit is exactly what `has_more` needs.
  - `RequestsAreSound` ties a request in flight to a history that has grown since: what
    it read lies below `upto`, its groups are the runs as they still are, and an
    older page was asked for below a run that has one below it. It is needed because
    an answer meets a page that has changed: `AnsweredPage` says of an answer alone
    what `EndIsTruthful` needs of the last run shown, whatever was shown before it.
  - `OneOlder` and `CursorMeansMore` make the flags exact: the button sends only with a
    cursor and while no older page is on its way.

- `StoreOpenProofs`: `TypeCorrect`, `ServersAreMigrated` (`ServesCurrent`) and
  `CommittedEventsStay` (`EventsSurvive`). The invariant says for each stage what the stages
  before it left in the file (`TablesSoFar`, `EventsSoFar`), which stays true because
  no other process undoes it: the old change events are the only thing
  ever dropped, by a process that is alone while they exist (`LegacyAlone`), and before
  any run is committed (`RunsAreCurrent`).
- `ConsoleProofs`: `TypeCorrect`, `ListsAreOfTheSession` (`ShownToSession`) and
  `SettledPageIsRight` (`SettledView`), for any number of requests in flight.
  - `SessionInv`: every current list request carries the cookie that the browser
    has now, because whatever changes the cookie leaves or renews the page.
  - `EntryInv`: a login is in flight only while the login is shown, and alone, and the first
    `me` is the only request of its time. It is needed for the login whose answer is lost:
    the cookie it leaves behind changes under no page.
  - `PageInv`: while the debounce is not armed, either a request for what the page
    wants is on its way, not overtaken and with only the like behind it (`Awaited`), or
    what is shown is right or came too late and no pending answer can spoil it
    (`Displayed`). `AnswerListKeeps` is the heart: an answer newer than the
    awaited one overtakes it and is itself right, an older one leaves it awaited.
- `ModelQueryProofs`: `EveryRowIsListed` (`KeysListed`) and `EveryModelIsMergedOnce`
  (`MergedOnce`), for every table, whatever the number of providers, keys and models,
  every search and every shift; from them `PagesListEveryRow` (`ListedByKey`) and
  `PagesMergeEveryModel` (`ListedMerged`).
  - The loops are folds. `LoopInvariant` is induction over their turns, for a set of numbers in
    place of a predicate, from the theorem that `<` is well founded on `Nat`.
    `IteratesExist` shows, once for all loops, that the function which defines
    a fold exists; its values are the states between turns (`IteratesAreStates`).
  - `InOrderIsOrdered`: counting the rows before a row is a bijection, so that the
    sequence has every row once and in order.
  - The invariant of `ListByKey`, `FiledInv`, says of one level of the tree at a time that
    it has the ids of the rows so far, ascending, and that each map knows
    what is in the tree and where. `WithProvider` and `WithKey` each break only the level
    below, for the one parent that the row belongs to, until the model is appended.
    Ascending order is kept because the row is after all rows before it;
    `CompoundKeysDiffer` is where ids below `Shift` are needed.
  - `ListMerged`: the models of a provider come with owners that never decrease
    (`ModelsOfGathers`), `Kept` keeps the first of each id (`SeenHasFirst`), and `Taken`
    emits it at its own place, since by the next one it is gone (`MergedTakesFirst`); so
    the model shown is that of the first key (`MergedAreFirstRows`).

Only model-checked: `RequestsEnd`, `OpenRecovers`, `PageSettles` and `SessionLasts`, because
liveness under fairness is out of the prover's reach.

## 5. Not modelled

Left out:

- the table of routes, the defaults of the configuration, JSON and static files: stateless;
- forms other than the login, layout, formatting, and the drawing of lists and runs;
- `ListProviders` and `ListKeys`, which are single reads, and `SetKeySyncSuccess` and
  `ReplaceKeyModels`, which have no caller outside tests;
- a transaction as a sequence of statements: that SQLite applies or undoes them as one,
  also across a crash, is SQLite's promise; what the code adds is which
  statements are inside, and that is `Commit` and `Abort` of `SyncService`;
- which ids a search text matches (`like`, `lower`), a matter of SQLite;
- the page of providers and keys (`Providers`, `ProviderCard`), whose append and silent
  reload after a creation and whose reload of keys after a synchronisation may overtake
  each other; it would be one more module beside `Console`.

Known behaviour that no document of the repository contradicts, kept in the
models and excepted by the properties: an older answer that comes last is shown
(`old` in `SettledView`); a logout whose request fails shows the login page while the
cookie may stay; a late 401 ends a newer session (`RefuseList`); a timeline that fails to
load shows a toast and loads again, as long as it fails (`Fails` of `ChangeFeed`).
