--------------------------- MODULE StoreOpenProofs ---------------------------
(***************************************************************************)
(* Theorems about opening the database, for any number of processes,       *)
(* crashes, failures and synchronisation runs.                             *)
(***************************************************************************)
EXTENDS StoreOpen, TLAPS

(***************************************************************************)
(* The inductive invariant.  Every stage of migrate can rely on what the   *)
(* stages before it left in the file, because no other process undoes it:  *)
(* only the old change events are ever dropped, and by a process alone.    *)
(***************************************************************************)
TablesSoFar ==
    \A p \in Proc :
        /\ pc[p] = "tables" => \A i \in 1..4 : i < at[p] => Statements[i] \in tables
        /\ pc[p] \notin {"down", "tables"} => tables = Base

EventsSoFar ==
    \A p \in Proc :
        /\ pc[p] = "check" \/ (pc[p] = "tables" /\ at[p] > 5) => events # "absent"
        /\ pc[p] = "drop" => events = "legacy"
        /\ pc[p] \in {"indexes", "up"} => events = "current"

LegacyAlone ==
    events = "legacy" =>
        \A p, q \in Proc : pc[p] # "down" /\ pc[q] # "down" => p = q

RunsAreCurrent == runs > 0 => events = "current"

IInv ==
    /\ TypeOK /\ TablesSoFar /\ EventsSoFar /\ LegacyAlone
    /\ EventsSurvive /\ RunsAreCurrent

\* The statements of migrate and the tables they make.
LEMMA StatementsFact ==
    /\ DOMAIN Statements = 1..9 /\ Len(Statements) = 9
    /\ Base = {Statements[i] : i \in 1..4}
    /\ \A i \in 1..9 : /\ Statements[i] \in Base <=> i < 5
                       /\ Statements[i] = "model_change_events" <=> i = 5
<1>1. /\ DOMAIN Statements = 1..9 /\ Len(Statements) = 9
      /\ Statements[1] = "providers" /\ Statements[2] = "provider_keys"
      /\ Statements[3] = "model_cache" /\ Statements[4] = "model_change_runs"
      /\ Statements[5] = "model_change_events"
      /\ Statements[6] = "idx_provider_keys_provider_id"
      /\ Statements[7] = "idx_model_cache_provider_key_id"
      /\ Statements[8] = "idx_model_cache_model_id"
      /\ Statements[9] = "idx_model_change_runs_id"
  BY DEF Statements
<1>2. 1 \in 1..4 /\ 2 \in 1..4 /\ 3 \in 1..4 /\ 4 \in 1..4
  OBVIOUS
<1>3. Base \subseteq {Statements[i] : i \in 1..4}
  BY <1>1, <1>2 DEF Base
<1>4. \A i \in 1..9 : i \in {1, 2, 3, 4, 5, 6, 7, 8, 9}
  OBVIOUS
<1>5. \A i \in 1..9 : /\ Statements[i] \in Base <=> i < 5
                      /\ Statements[i] = "model_change_events" <=> i = 5
  BY <1>1, <1>4 DEF Base
<1>6. \A i \in 1..4 : i \in 1..9 /\ i < 5
  OBVIOUS
<1> QED
  BY <1>1, <1>3, <1>5, <1>6

LEMMA InitInv == Init => IInv
<1> SUFFICES ASSUME Init PROVE IInv
  OBVIOUS
<1>1. 1..runs = {} /\ 0 \in 0..MaxRun /\ 0 \in 0..MaxFault
  BY StoreOpenAssumption DEF Init
<1>2. 1 \in DOMAIN Statements
  BY StatementsFact
<1> QED
  BY <1>1, <1>2 DEF Init, IInv, TypeOK, TablesSoFar, EventsSoFar, LegacyAlone,
                    EventsSurvive, RunsAreCurrent, Stages

\* Whatever a process does, the others are where they were.
LEMMA StartKeeps ==
    ASSUME IInv, NEW p \in Proc, Start(p) PROVE IInv'
<1>1. 1 \in DOMAIN Statements
  BY StatementsFact
<1>2. TypeOK'
  BY <1>1 DEF IInv, TypeOK, Start, MayStart, Goes, file, Stages
<1>3. TablesSoFar'
  BY DEF IInv, TypeOK, TablesSoFar, Start, MayStart, Goes, file
<1> QED
  BY <1>2, <1>3 DEF IInv, TypeOK, EventsSoFar, LegacyAlone, EventsSurvive,
                    RunsAreCurrent, Start, MayStart, Goes, file

LEMMA RunStatementKeeps ==
    ASSUME IInv, NEW p \in Proc, RunStatement(p) PROVE IInv'
<1> DEFINE n == at[p]
<1>0. n \in 1..9 /\ at \in [Proc -> 1..9] /\ pc \in [Proc -> Stages]
  BY StatementsFact DEF IInv, TypeOK
<1>1. pc[p] = "tables" /\ pc' = [pc EXCEPT ![p] = IF n < 9 THEN "tables" ELSE "check"]
  BY <1>0, StatementsFact DEF RunStatement, Goes
<1>2. at' = [at EXCEPT ![p] = IF n < 9 THEN n + 1 ELSE n]
  BY <1>0, StatementsFact DEF RunStatement, Goes
<1>3. /\ tables \subseteq tables' /\ tables' \subseteq Base
      /\ n < 5 => Statements[n] \in tables'
  <2>1. tables' = tables \cup ({Statements[n]} \cap Base)
    BY DEF RunStatement, Ensured
  <2> QED
    BY <1>0, <2>1, StatementsFact DEF IInv, TypeOK
<1>4. events' = IF n = 5 /\ events = "absent" THEN "current" ELSE events
  BY <1>0, StatementsFact DEF RunStatement, Ensured
<1>5. UNCHANGED <<runs, kept, faults>>
  BY DEF RunStatement
<1>6. TypeOK'
  <2>1. at' \in [Proc -> 1..9]
    BY <1>0, <1>2
  <2>2. pc' \in [Proc -> Stages] /\ events' \in {"absent", "legacy", "current"}
    BY <1>0, <1>1, <1>4 DEF IInv, TypeOK, Stages
  <2> QED
    BY <1>3, <1>5, <2>1, <2>2, StatementsFact DEF IInv, TypeOK
<1>7. TablesSoFar'
  <2>1. ASSUME NEW q \in Proc, q # p
        PROVE  /\ pc'[q] = "tables" => \A i \in 1..4 : i < at'[q] => Statements[i] \in tables'
               /\ pc'[q] \notin {"down", "tables"} => tables' = Base
    <3>1. pc'[q] = pc[q] /\ at'[q] = at[q]
      BY <1>0, <1>1, <1>2, <2>1
    <3> QED
      BY <1>3, <3>1 DEF IInv, TablesSoFar
  <2>2. \A i \in 1..4 : i < n + 1 => Statements[i] \in tables'
    <3>1. \A i \in 1..4 : i < n => Statements[i] \in tables'
      BY <1>1, <1>3 DEF IInv, TablesSoFar
    <3>2. \A i \in 1..4 : i < n + 1 => i < n \/ (i = n /\ n < 5)
      BY <1>0
    <3> QED
      BY <1>3, <3>1, <3>2
  <2>3. CASE n < 9
    <3>1. pc'[p] = "tables" /\ at'[p] = n + 1
      BY <1>0, <1>1, <1>2, <2>3
    <3> QED
      BY <2>1, <2>2, <3>1 DEF TablesSoFar
  <2>4. CASE n = 9
    <3>1. pc'[p] = "check"
      BY <1>0, <1>1, <2>4
    <3>2. Base \subseteq tables'
      BY <2>2, <2>4, StatementsFact
    <3> QED
      BY <1>3, <2>1, <3>1, <3>2 DEF TablesSoFar
  <2> QED
    BY <1>0, <2>3, <2>4
<1>8. EventsSoFar' /\ LegacyAlone' /\ RunsAreCurrent'
  <2>1. events' = events \/ (events = "absent" /\ events' = "current")
    BY <1>4
  <2>2. n >= 5 => events' # "absent"
    <3>1. CASE n = 5
      BY <1>4, <3>1
    <3>2. CASE n > 5
      BY <1>1, <1>4, <3>2 DEF IInv, EventsSoFar
    <3> QED
      BY <1>0, <3>1, <3>2
  <2>3. (pc'[p] = "tables" /\ at'[p] = n + 1) \/ (pc'[p] = "check" /\ n = 9)
    <3>1. CASE n < 9
      BY <1>0, <1>1, <1>2, <3>1
    <3>2. CASE n = 9
      BY <1>0, <1>1, <1>2, <3>2
    <3> QED
      BY <1>0, <3>1, <3>2
  <2>4. ASSUME NEW q \in Proc
        PROVE  /\ pc'[q] = "check" \/ (pc'[q] = "tables" /\ at'[q] > 5)
                    => events' # "absent"
               /\ pc'[q] = "drop" => events' = "legacy"
               /\ pc'[q] \in {"indexes", "up"} => events' = "current"
    <3>1. CASE q = p
      BY <1>0, <2>2, <2>3, <3>1
    <3>2. CASE q # p
      <4>1. pc'[q] = pc[q] /\ at'[q] = at[q]
        BY <1>0, <1>1, <1>2, <3>2
      <4> QED
        BY <2>1, <4>1 DEF IInv, EventsSoFar
    <3> QED
      BY <3>1, <3>2
  <2>5. EventsSoFar'
    BY <2>4 DEF EventsSoFar
  <2>6. LegacyAlone'
    BY <1>0, <1>1, <2>1 DEF IInv, LegacyAlone
  <2>7. RunsAreCurrent'
    BY <1>5, <2>1 DEF IInv, RunsAreCurrent
  <2> QED
    BY <2>5, <2>6, <2>7
<1> QED
  BY <1>5, <1>6, <1>7, <1>8 DEF IInv, EventsSurvive

LEMMA DropKeeps ==
    ASSUME IInv, NEW p \in Proc, Drop(p) PROVE IInv'
<1>1. events = "legacy" /\ runs = 0
  BY DEF IInv, TypeOK, EventsSoFar, RunsAreCurrent, Drop
<1>2. \A q \in Proc : q # p => pc[q] = "down"
  BY <1>1 DEF IInv, LegacyAlone, Drop
<1>3. 1..runs = {}
  BY <1>1
<1>4. TypeOK' /\ TablesSoFar'
  BY DEF IInv, TypeOK, TablesSoFar, Drop, Goes, Stages
<1> QED
  BY <1>1, <1>2, <1>3, <1>4 DEF IInv, TypeOK, EventsSoFar, LegacyAlone, EventsSurvive,
                                RunsAreCurrent, Drop, Goes

\* Stages that leave the file alone, and the end of a process.
LEMMA CheckKeeps ==
    ASSUME IInv, NEW p \in Proc, Check(p) \/ Indexes(p) \/ Fault(p) PROVE IInv'
<1>1. /\ UNCHANGED <<file, at>> /\ faults' \in 0..MaxFault /\ pc[p] # "down"
      /\ \E s \in Stages :
            /\ pc' = [pc EXCEPT ![p] = s]
            /\ s = "drop" => pc[p] = "check" /\ events # "current"
            /\ s \in {"indexes", "up"} => events = "current"
            /\ s \notin {"down", "drop", "indexes", "up"} => FALSE
            /\ s # "down" => pc[p] \in {"check", "indexes"}
  <2>1. CASE Check(p)
    BY <2>1 DEF Check, Goes, IInv, TypeOK, Stages
  <2>2. CASE Indexes(p)
    BY <2>2 DEF Indexes, Goes, IInv, TypeOK, Stages
  <2>3. CASE Fault(p)
    BY <2>3, StoreOpenAssumption DEF Fault, Goes, IInv, TypeOK, Stages
  <2> QED
    BY <2>1, <2>2, <2>3
<1>2. TypeOK' /\ TablesSoFar'
  BY <1>1 DEF IInv, TypeOK, TablesSoFar, file
<1>3. EventsSoFar'
  BY <1>1 DEF IInv, TypeOK, EventsSoFar, file
<1>4. LegacyAlone'
  BY <1>1 DEF IInv, TypeOK, LegacyAlone, file
<1> QED
  BY <1>1, <1>2, <1>3, <1>4 DEF IInv, EventsSurvive, RunsAreCurrent, file

LEMMA CreateKeeps ==
    ASSUME IInv, NEW p \in Proc, Create(p) PROVE IInv'
<1>1. TypeOK' /\ TablesSoFar'
  BY DEF IInv, TypeOK, TablesSoFar, Create, Goes, Stages
<1> QED
  BY <1>1 DEF IInv, TypeOK, EventsSoFar, LegacyAlone, EventsSurvive, RunsAreCurrent,
              Create, Goes

LEMMA CommitKeeps ==
    ASSUME IInv, NEW p \in Proc, Commit(p) PROVE IInv'
<1>1. runs \in Nat /\ runs + 1 \in 0..MaxRun
  BY StoreOpenAssumption DEF IInv, TypeOK, Commit
<1>2. 1..(runs + 1) = (1..runs) \cup {runs + 1}
  BY <1>1
<1>3. 1..(runs + 1) \subseteq 1..MaxRun
  BY <1>1, StoreOpenAssumption
<1>4. EventsSurvive' /\ TypeOK'
  BY <1>1, <1>2, <1>3 DEF IInv, TypeOK, EventsSurvive, Commit
<1> QED
  BY <1>4 DEF IInv, TablesSoFar, EventsSoFar, LegacyAlone, RunsAreCurrent, Commit

LEMMA StepInv == IInv /\ [Next]_vars => IInv'
<1> SUFFICES ASSUME IInv, [Next]_vars PROVE IInv'
  OBVIOUS
<1>1. CASE UNCHANGED vars
  BY <1>1 DEF IInv, TypeOK, TablesSoFar, EventsSoFar, LegacyAlone, EventsSurvive,
              RunsAreCurrent, vars, file
<1>2. ASSUME NEW p \in Proc, Start(p) \/ Migrate(p) \/ Commit(p) \/ Fault(p) PROVE IInv'
  BY <1>2, StartKeeps, RunStatementKeeps, CheckKeeps, DropKeeps, CreateKeeps, CommitKeeps
     DEF Migrate
<1> QED
  BY <1>1, <1>2 DEF Next

LEMMA Inductive == Spec => []IInv
  BY InitInv, StepInv, PTL DEF Spec

\* Type correctness of the file and of every process.
THEOREM TypeCorrect == Spec => []TypeOK
  BY Inductive, PTL DEF IInv

(***************************************************************************)
(* Whatever was interrupted and whoever else is starting, a process serves *)
(* with all tables and the current change events.                          *)
(***************************************************************************)
THEOREM ServersAreMigrated == Spec => []ServesCurrent
<1>1. IInv => ServesCurrent
  BY DEF IInv, TablesSoFar, EventsSoFar, ServesCurrent
<1> QED
  BY <1>1, Inductive, PTL

\* The events of a committed run outlive every restart, crash and start.
THEOREM CommittedEventsStay == Spec => []EventsSurvive
  BY Inductive, PTL DEF IInv
==============================================================================
