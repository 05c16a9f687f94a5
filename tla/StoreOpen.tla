----------------------------- MODULE StoreOpen -------------------------------
(***************************************************************************)
(* Open of internal/store/store.go: the migration a process runs on the    *)
(* database file before it serves.  Each statement is a transaction of its *)
(* own, a process may die between any two of them, a failing one ends it   *)
(* (log.Fatal in main), and it is started again on what the file then has. *)
(***************************************************************************)
EXTENDS Naturals, Sequences

CONSTANTS
    Proc,      \* processes that open the file, now and in an update
    MaxRun,    \* bound: synchronisation runs committed
    MaxFault   \* bound: crashes, stops, statements that fail (locked, I/O)

ASSUME StoreOpenAssumption == MaxRun \in Nat /\ MaxFault \in Nat

\* The statements of migrate, in order, by what each creates if it is absent.
Statements == <<"providers", "provider_keys", "model_cache",
                "model_change_runs", "model_change_events",
                "idx_provider_keys_provider_id", "idx_model_cache_provider_key_id",
                "idx_model_cache_model_id", "idx_model_change_runs_id">>
Base == {"providers", "provider_keys", "model_cache", "model_change_runs"}

VARIABLES
    tables,   \* tables of Base in the file
    events,   \* schema of model_change_events
    runs,     \* rows of model_change_runs committed under this schema
    kept,     \* of these, the ones whose events are in the table
    pc,       \* what each process is doing
    at,       \* the next statement of migrate
    faults

file == <<tables, events, runs, kept>>
vars == <<file, pc, at, faults>>

Stages == {"down", "tables", "check", "drop", "create", "indexes", "up"}

TypeOK ==
    /\ tables \subseteq Base
    /\ events \in {"absent", "legacy", "current"}
    /\ runs \in 0..MaxRun /\ kept \subseteq 1..MaxRun
    /\ pc \in [Proc -> Stages]
    /\ at \in [Proc -> DOMAIN Statements]
    /\ faults \in 0..MaxFault

(***************************************************************************)
(* A new file, or one of an earlier release: its change events have no     *)
(* run_id, and it has some of the other tables.                            *)
(***************************************************************************)
Init ==
    /\ \/ tables = {} /\ events = "absent"
       \/ tables \in SUBSET Base /\ events = "legacy"
    /\ runs = 0 /\ kept = {}
    /\ pc = [p \in Proc |-> "down"] /\ at = [p \in Proc |-> 1]
    /\ faults = 0

Goes(p, stage) == pc' = [pc EXCEPT ![p] = stage]

(***************************************************************************)
(* docker-compose.yml runs one container and restarts it.  Processes may   *)
(* overlap, except on a file of an earlier release: two that find the old  *)
(* column set would both drop the table, the second one a table in use.    *)
(***************************************************************************)
MayStart(p) ==
    /\ pc[p] = "down"
    /\ events = "legacy" => \A q \in Proc : pc[q] = "down"

\* Mutant: the loop over the statements skips the first one.
StartAtSecond(p) ==
    /\ MayStart(p)
    /\ Goes(p, "tables") /\ at' = [at EXCEPT ![p] = 2]
    /\ UNCHANGED <<file, faults>>

Start(p) ==
    /\ MayStart(p)
    /\ Goes(p, "tables") /\ at' = [at EXCEPT ![p] = 1]
    /\ UNCHANGED <<file, faults>>

\* A table that is there is left as it is; the tables of the indexes are there
\* since the statements before them, and an index changes no table.
Ensured(t) ==
    /\ tables' = tables \cup ({t} \cap Base)
    /\ events' = IF t = "model_change_events" /\ events = "absent"
                   THEN "current" ELSE events

\* Mutant: the indexes on the events are among the statements.
IndexWithTables(p) ==
    /\ pc[p] = "tables"
    /\ Ensured(Statements[at[p]])
    /\ IF at[p] < Len(Statements)
         THEN at' = [at EXCEPT ![p] = @ + 1] /\ UNCHANGED pc
         ELSE Goes(p, "indexes") /\ UNCHANGED at
    /\ UNCHANGED <<runs, kept, faults>>

\* Mutant: the loop runs one statement too far.
OneTooMany(p) ==
    /\ pc[p] = "tables"
    /\ Ensured(Statements[at[p]])
    /\ at' = [at EXCEPT ![p] = @ + 1]
    /\ UNCHANGED <<runs, kept, pc, faults>>

RunStatement(p) ==
    /\ pc[p] = "tables"
    /\ Ensured(Statements[at[p]])
    /\ IF at[p] < Len(Statements)
         THEN at' = [at EXCEPT ![p] = @ + 1] /\ UNCHANGED pc
         ELSE Goes(p, "check") /\ UNCHANGED at
    /\ UNCHANGED <<runs, kept, faults>>

\* Mutant: the column asked for has another name.
FindsNothing(p) ==
    /\ pc[p] = "check" /\ Goes(p, "drop")
    /\ UNCHANGED <<file, at, faults>>

\* columnExists(db, "model_change_events", "run_id")
Check(p) ==
    /\ pc[p] = "check"
    /\ Goes(p, IF events = "current" THEN "indexes" ELSE "drop")
    /\ UNCHANGED <<file, at, faults>>

\* drop table if exists
Drop(p) ==
    /\ pc[p] = "drop"
    /\ events' = "absent" /\ kept' = {}
    /\ Goes(p, "create")
    /\ UNCHANGED <<tables, runs, at, faults>>

\* create table: an error when another process has made it meanwhile.
Create(p) ==
    /\ pc[p] = "create"
    /\ events' = IF events = "absent" THEN "current" ELSE events
    /\ Goes(p, IF events = "absent" THEN "indexes" ELSE "down")
    /\ UNCHANGED <<tables, runs, kept, at, faults>>

\* The indexes on the events: one is on run_id.
Indexes(p) ==
    /\ pc[p] = "indexes"
    /\ Goes(p, IF events = "current" THEN "up" ELSE "down")
    /\ UNCHANGED <<file, at, faults>>

\* SyncService!Commit as the file sees it: a run with its events.
Commit(p) ==
    /\ pc[p] = "up" /\ runs < MaxRun
    /\ tables = Base /\ events = "current"
    /\ runs' = runs + 1 /\ kept' = kept \cup {runs + 1}
    /\ UNCHANGED <<tables, events, pc, at, faults>>

\* The process dies, or its statement fails, in any stage.
Fault(p) ==
    /\ pc[p] # "down" /\ faults < MaxFault
    /\ Goes(p, "down") /\ faults' = faults + 1
    /\ UNCHANGED <<file, at>>

Migrate(p) == RunStatement(p) \/ Check(p) \/ Drop(p) \/ Create(p) \/ Indexes(p)

Next == \E p \in Proc : Start(p) \/ Migrate(p) \/ Commit(p) \/ Fault(p)

Spec == Init /\ [][Next]_vars

\* restart: unless-stopped, and a process that runs goes on.
FairSpec ==
    Spec /\ \A p \in Proc : WF_vars(Start(p)) /\ WF_vars(Migrate(p))

------------------------------------------------------------------------------
(***************************************************************************)
(* A process that serves has every table, and change events with run_id,   *)
(* whatever was interrupted before and whatever another process does now.  *)
(***************************************************************************)
ServesCurrent ==
    \A p \in Proc : pc[p] = "up" => tables = Base /\ events = "current"

(***************************************************************************)
(* The reset of the change events is for the old schema only: no restart,  *)
(* crash or overlapping start loses the events of a run committed since.   *)
(***************************************************************************)
EventsSurvive == kept = 1..runs

(***************************************************************************)
(* No interrupted migration leaves a file on which Open fails for good:    *)
(* once faults stop, every process that is restarted ends up serving.      *)
(***************************************************************************)
OpenRecovers == <>[](\A p \in Proc : pc[p] = "up")
==============================================================================
