----------------------------- MODULE ChangeFeed ------------------------------
(***************************************************************************)
(* The change timeline: ListChangeEvents of internal/models/store.go,      *)
(* which answers one page with two queries outside any transaction, and    *)
(* the page component ModelChanges.jsx, whose requests are in flight       *)
(* together and answered in any order, while synchronisation commits runs. *)
(*                                                                         *)
(* React applies the state updates of one continuation together, so an     *)
(* answer and the effects of the render it causes are one action.          *)
(***************************************************************************)
EXTENDS Naturals, FiniteSets, SequencesExt

CONSTANTS
    MaxRun,   \* bound: runs ever committed
    MaxOld,   \* bound: runs that lost their events in a migration
    Change,   \* events a run may have, by the key they are about
    Limit,    \* PAGE_SIZE
    Load      \* bound: requests the page may have in flight

ASSUME ChangeFeedAssumption ==
    /\ MaxRun \in Nat /\ MaxOld \in 0..MaxRun
    /\ Limit \in Nat \ {0}

VARIABLES
    runs,          \* the events of each row of model_change_runs, by id
    loads,         \* what each request of the page is doing
    groups,        \* runs shown, from the top
    hasMore, nextBeforeId, loading, loadingMore,
    toast          \* App shows a toast

page == <<groups, hasMore, nextBeforeId, loading, loadingMore, toast>>
vars == <<runs, loads, page>>

RunId == 1..MaxRun
Group == [id : RunId, events : SUBSET Change]

\* before: before_id, 0 for the first page.  upto: newest run when queried.
Request == [stage : {"free", "sent", "runs", "answered"},
            before : 0..MaxRun, upto : 0..MaxRun, ids : SUBSET RunId,
            more : BOOLEAN, groups : SUBSET Group]

NoLoad == [stage |-> "free", before |-> 0, upto |-> 0, ids |-> {},
           more |-> FALSE, groups |-> {}]

TypeOK ==
    /\ runs \in Seq(SUBSET Change) /\ Len(runs) <= MaxRun
    /\ loads \in [Load -> Request]
    /\ groups \in Seq(Group)
    /\ nextBeforeId \in 0..MaxRun
    /\ {hasMore, loading, loadingMore, toast} \subseteq BOOLEAN

InFlight == {l \in Load : loads[l].stage # "free"}
First == {l \in InFlight : loads[l].before = 0}
More == InFlight \ First

\* Mutant: the request is queued behind the others and never sent.
Queued(l, before) ==
    loads' = [loads EXCEPT ![l] = [NoLoad EXCEPT !.stage = "queued", !.before = before]]
Sent(l, before) ==
    loads' = [loads EXCEPT ![l] = [NoLoad EXCEPT !.stage = "sent", !.before = before]]

\* The page as it is mounted: its effect asks for the first page at once.
Opened(l) ==
    /\ groups' = <<>> /\ hasMore' = FALSE /\ nextBeforeId' = 0
    /\ loading' = TRUE /\ loadingMore' = FALSE
    /\ loads' = [m \in Load |-> IF m = l THEN [NoLoad EXCEPT !.stage = "sent"] ELSE NoLoad]

Init ==
    /\ \E old \in 0..MaxOld : runs = [i \in 1..old |-> {}]
    /\ groups = <<>> /\ hasMore = FALSE /\ nextBeforeId = 0
    /\ loading = TRUE /\ loadingMore = FALSE /\ toast \in BOOLEAN
    /\ \E l \in Load :
         loads = [m \in Load |-> IF m = l THEN [NoLoad EXCEPT !.stage = "sent"]
                                          ELSE NoLoad]

------------------------------------------------------------------------------
(* The server *)

\* Mutant: the run and its events are inserted in transactions of their own.
CommitEventByEvent ==
    /\ \/ Len(runs) < MaxRun /\ \E e \in Change : runs' = Append(runs, {e})
       \/ \E i \in DOMAIN runs, e \in Change :
             /\ i = Len(runs) /\ runs[i] # {}
             /\ runs' = [runs EXCEPT ![i] = @ \cup {e}]
    /\ UNCHANGED <<loads, page>>

\* SyncService!Commit: a run and all its events, in one transaction.
Commit ==
    /\ Len(runs) < MaxRun
    /\ \E events \in SUBSET Change \ {{}} : runs' = Append(runs, events)
    /\ UNCHANGED <<loads, page>>

Newest(ids, n) == {i \in ids : Cardinality({j \in ids : j > i}) < n}

\* Mutant: the page is asked for with r.id <= before_id.
VisibleFrom(before) == {i \in DOMAIN runs : (before = 0 \/ i <= before) /\ runs[i] # {}}
Visible(before) == {i \in DOMAIN runs : (before = 0 \/ i < before) /\ runs[i] # {}}

\* Mutant: the query fetches a page, not one row more.
RowsOfPage(before) == Newest(Visible(before), Limit)
Rows(before) == Newest(Visible(before), Limit + 1)

\* The first query, and the cut at limit.  An empty page needs no second one.
ReadRuns(l) ==
    /\ loads[l].stage = "sent"
    /\ LET rows == Rows(loads[l].before) IN
         loads' = [loads EXCEPT ![l] = [@ EXCEPT
             !.stage = IF rows = {} THEN "answered" ELSE "runs",
             !.upto = Len(runs), !.ids = Newest(rows, Limit),
             !.more = Cardinality(rows) > Limit]]
    /\ UNCHANGED <<runs, page>>

\* loadChangeGroupEvents, the second query.
ReadEvents(l) ==
    /\ loads[l].stage = "runs"
    /\ loads' = [loads EXCEPT ![l] = [@ EXCEPT !.stage = "answered",
                    !.groups = {[id |-> i, events |-> runs[i]] : i \in loads[l].ids}]]
    /\ UNCHANGED <<runs, page>>

------------------------------------------------------------------------------
(* The page *)

Free(l) == loads[l].stage = "free"

\* loadPage without before_id: the button, and the effect after a render of App.
LoadFirst(l) == Free(l) /\ Sent(l, 0) /\ loading' = TRUE

Refresh(l) ==
    /\ ~loading /\ ~loadingMore
    /\ LoadFirst(l)
    /\ UNCHANGED <<runs, groups, hasMore, nextBeforeId, loadingMore, toast>>

LoadOlder(l) ==
    /\ hasMore /\ ~loadingMore /\ nextBeforeId # 0
    /\ Free(l) /\ Sent(l, nextBeforeId) /\ loadingMore' = TRUE
    /\ UNCHANGED <<runs, groups, hasMore, nextBeforeId, loading, toast>>

\* order by r.id desc
FromTheTop(gs) ==
    CHOOSE s \in SetToSeqs(gs) : \A m, n \in DOMAIN s : m < n => s[m].id > s[n].id

Cursor(r) == IF r.more THEN CHOOSE i \in r.ids : \A j \in r.ids : i <= j ELSE 0

\* Mutant: a page of older runs does not move the cursor.
AnswerKeepsCursor(l) ==
    /\ loads[l].stage = "answered"
    /\ groups' = IF l \in First THEN FromTheTop(loads[l].groups)
                                ELSE groups \o FromTheTop(loads[l].groups)
    /\ hasMore' = loads[l].more
    /\ nextBeforeId' = IF l \in First THEN Cursor(loads[l]) ELSE nextBeforeId
    /\ loading' = (loading /\ l \notin First)
    /\ loadingMore' = (loadingMore /\ l \in First)
    /\ loads' = [loads EXCEPT ![l] = NoLoad]
    /\ UNCHANGED <<runs, toast>>

Answer(l) ==
    /\ loads[l].stage = "answered"
    /\ groups' = IF l \in First THEN FromTheTop(loads[l].groups)
                                ELSE groups \o FromTheTop(loads[l].groups)
    /\ hasMore' = loads[l].more
    /\ nextBeforeId' = Cursor(loads[l])
    /\ loading' = (loading /\ l \notin First)
    /\ loadingMore' = (loadingMore /\ l \in First)
    /\ loads' = [loads EXCEPT ![l] = NoLoad]
    /\ UNCHANGED <<runs, toast>>

\* Mutant: `finally` forgets the flag of an older page.
FailsAndSpins(l) ==
    /\ ~Free(l)
    /\ toast' = TRUE
    /\ Sent(l, 0) /\ loading' = TRUE
    /\ UNCHANGED <<runs, groups, hasMore, nextBeforeId, loadingMore>>

(***************************************************************************)
(* A request fails at any stage.  The toast renders App, App passes new    *)
(* callbacks, and the effect, which depends on them, loads the first page. *)
(***************************************************************************)
Fails(l) ==
    /\ ~Free(l)
    /\ toast' = TRUE
    /\ Sent(l, 0) /\ loading' = TRUE
    /\ loadingMore' = (loadingMore /\ l \in First)
    /\ UNCHANGED <<runs, groups, hasMore, nextBeforeId>>

\* A request of another tab, or of a page left, fails: its toast renders App.
OtherToast(l) ==
    /\ toast' = TRUE
    /\ LoadFirst(l)
    /\ UNCHANGED <<runs, groups, hasMore, nextBeforeId, loadingMore>>

\* The toast goes after four seconds, which renders App as well.
ToastEnds(l) ==
    /\ toast /\ toast' = FALSE
    /\ LoadFirst(l)
    /\ UNCHANGED <<runs, groups, hasMore, nextBeforeId, loadingMore>>

\* Another tab and back, or a 401 and a login: late answers find no page.
Reopen(l) == Opened(l) /\ UNCHANGED <<runs, toast>>

Next ==
    \/ Commit
    \/ \E l \in Load :
         \/ ReadRuns(l) \/ ReadEvents(l)
         \/ Refresh(l) \/ LoadOlder(l) \/ Answer(l)
         \/ Fails(l) \/ OtherToast(l) \/ ToastEnds(l) \/ Reopen(l)

Spec == Init /\ [][Next]_vars

------------------------------------------------------------------------------
(***************************************************************************)
(* A page answered is the newest part of what lies below before_id when    *)
(* its runs are read, at most Limit runs, and has_more says whether that   *)
(* leaves any: paging neither skips nor repeats a run at a boundary.       *)
(***************************************************************************)
PagesAreSlices ==
    \A l \in Load : loads[l].stage \in {"runs", "answered"} =>
        LET r == loads[l]
            below == {i \in 1..r.upto : (r.before = 0 \/ i < r.before) /\ runs[i] # {}}
            left == below \ r.ids
        IN /\ r.ids \subseteq below /\ Cardinality(r.ids) <= Limit
           /\ \A i \in r.ids, j \in left : i > j
           /\ r.more <=> left # {}
           /\ left # {} => Cardinality(r.ids) = Limit

(***************************************************************************)
(* A run is shown with all its events and never changes again, although    *)
(* runs and events are read in two queries: a run is committed whole.      *)
(***************************************************************************)
GroupsAreWhole ==
    \A n \in DOMAIN groups :
        groups[n].events = runs[groups[n].id] /\ groups[n].events # {}

(***************************************************************************)
(* However requests overlap, the button for older records continues right  *)
(* below the last run shown, and is missing only when nothing is older.    *)
(***************************************************************************)
EndIsTruthful ==
    /\ hasMore => groups # <<>> /\ nextBeforeId = Last(groups).id
    /\ groups # <<>> => (hasMore <=> Visible(Last(groups).id) # {})

(***************************************************************************)
(* The page shows a spinner, or blocks its buttons, only while a request   *)
(* that will reset the flag is in flight (the finally of loadPage).        *)
(***************************************************************************)
FlagsHaveRequests ==
    /\ loading => First # {}
    /\ loadingMore <=> More # {}
    /\ Cardinality(More) <= 1

(***************************************************************************)
(* docs/frontend-api.md: older pages continue from new to old.  The runs   *)
(* shown are in order, none twice and none missing between two others.     *)
(***************************************************************************)
TimelineIsContiguous ==
    \A n \in 1..(Len(groups) - 1) :
        /\ groups[n + 1].id < groups[n].id
        /\ \A i \in (groups[n + 1].id + 1)..(groups[n].id - 1) : runs[i] = {}

(***************************************************************************)
(* What can break that order is one thing only: the answer to an older     *)
(* page that was asked for below a run which is no longer the last one     *)
(* shown, since a reload was answered meanwhile.                           *)
(***************************************************************************)
GapsNeedOvertaking ==
    [][TimelineIsContiguous /\ ~TimelineIsContiguous' =>
          \E l \in More : Answer(l) /\ loads[l].before # nextBeforeId]_vars
==============================================================================
