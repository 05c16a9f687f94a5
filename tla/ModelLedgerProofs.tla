-------------------------- MODULE ModelLedgerProofs --------------------------
(***************************************************************************)
(* Proof that in ModelLedger the history of a key always replays to its    *)
(* cache, for every set of keys and model ids.                             *)
(***************************************************************************)
EXTENDS ModelLedger, TLAPS

Row == [added : SUBSET Model, removed : SUBSET Model, label : Label]
LedgerRun == [scope : Scope, events : UNION {[K -> Row] : K \in SUBSET Key}]

LedgerTypeOK ==
    /\ cache \in [Key -> SUBSET Model]
    /\ history \in Seq(LedgerRun)

(***************************************************************************)
(* Appending a run: the models of k according to the longer history are    *)
(* those it adds and those of the old history that it does not remove.     *)
(***************************************************************************)
LEMMA ReplayAppend ==
    ASSUME LedgerTypeOK, NEW r \in LedgerRun, history' = Append(history, r),
           NEW k \in Key
    PROVE  Replay(k)' =
             {m \in Model :
                \/ k \in DOMAIN r.events /\ m \in r.events[k].added
                \/ m \in Replay(k) /\
                   ~(k \in DOMAIN r.events /\ m \in r.events[k].removed)}
<1>0. SUFFICES ASSUME NEW n \in Nat, n = Len(history)
      PROVE  Replay(k)' =
             {m \in Model :
                \/ k \in DOMAIN r.events /\ m \in r.events[k].added
                \/ m \in Replay(k) /\
                   ~(k \in DOMAIN r.events /\ m \in r.events[k].removed)}
  BY DEF LedgerTypeOK
<1>1. /\ DOMAIN history = 1..n
      /\ DOMAIN history' = 1..(n + 1)
      /\ history'[n + 1] = r
      /\ \A i \in 1..n : history'[i] = history[i]
  BY <1>0 DEF LedgerTypeOK
<1>2. \A i \in 1..n, m \in Model :
        /\ Adds(i, k, m)' <=> Adds(i, k, m)
        /\ Removes(i, k, m)' <=> Removes(i, k, m)
  BY <1>1 DEF Adds, Removes
<1>3. \A m \in Model :
        /\ Adds(n + 1, k, m)' <=> k \in DOMAIN r.events /\ m \in r.events[k].added
        /\ Removes(n + 1, k, m)' <=>
              k \in DOMAIN r.events /\ m \in r.events[k].removed
  BY <1>1 DEF Adds, Removes
<1>4. Replay(k)' = {m \in Model : \E i \in 1..(n + 1) :
                      /\ Adds(i, k, m)'
                      /\ \A j \in 1..(n + 1) : j > i => ~Removes(j, k, m)'}
  BY <1>1 DEF Replay
<1>5. Replay(k) = {m \in Model : \E i \in 1..n :
                      /\ Adds(i, k, m)
                      /\ \A j \in 1..n : j > i => ~Removes(j, k, m)}
  BY <1>1 DEF Replay
<1>6. ASSUME NEW m \in Model
      PROVE  m \in Replay(k)' <=>
                \/ k \in DOMAIN r.events /\ m \in r.events[k].added
                \/ m \in Replay(k) /\
                   ~(k \in DOMAIN r.events /\ m \in r.events[k].removed)
  <2>1. 1..(n + 1) = (1..n) \cup {n + 1} /\ n + 1 \notin 1..n
    OBVIOUS
  <2>2. \A i \in 1..n : n + 1 > i /\ ~(i > n + 1)
    OBVIOUS
  <2>3. m \in Replay(k)' <=>
          \/ Adds(n + 1, k, m)'
          \/ m \in Replay(k) /\ ~Removes(n + 1, k, m)'
    BY <1>2, <1>4, <1>5, <2>1, <2>2
  <2> QED
    BY <1>3, <2>3
<1> QED
  BY <1>4, <1>6

LEMMA ReplaceKeeps ==
    ASSUME LedgerTypeOK, HistoryReplaysCache,
           NEW new \in [Key -> SUBSET Model], NEW scope \in Scope,
           NEW label \in [Key -> Label], Replace(new, scope, label)
    PROVE  (LedgerTypeOK /\ HistoryReplaysCache)'
<1> DEFINE changed == {k \in Key : new[k] # cache[k]}
           row(k) == [added |-> new[k] \ cache[k], removed |-> cache[k] \ new[k],
                      label |-> label[k]]
           r == [scope |-> scope, events |-> [k \in changed |-> row(k)]]
<1>1. r \in LedgerRun
  <2>1. changed \in SUBSET Key
    OBVIOUS
  <2>2. \A k \in changed : row(k) \in Row
    BY DEF LedgerTypeOK, Row
  <2>3. [k \in changed |-> row(k)] \in [changed -> Row]
    BY <2>2
  <2> QED
    BY <2>1, <2>3 DEF LedgerRun
<1>2. history' = Append(history, r) /\ cache' = new /\ gone' = gone
  BY DEF Replace
<1>3. LedgerTypeOK'
  BY <1>1, <1>2 DEF LedgerTypeOK
<1>4. ASSUME NEW k \in Key \ gone
      PROVE  cache'[k] = Replay(k)'
  <2>1. cache[k] = Replay(k) /\ cache[k] \subseteq Model /\ new[k] \subseteq Model
    BY DEF HistoryReplaysCache, LedgerTypeOK
  <2>2. /\ DOMAIN r.events = changed
        /\ k \in changed => r.events[k].added = new[k] \ cache[k]
        /\ k \in changed => r.events[k].removed = cache[k] \ new[k]
    OBVIOUS
  <2>3. Replay(k)' = {m \in Model :
                \/ k \in DOMAIN r.events /\ m \in r.events[k].added
                \/ m \in Replay(k) /\
                   ~(k \in DOMAIN r.events /\ m \in r.events[k].removed)}
    <3> HIDE DEF r
    <3> QED
      BY <1>1, <1>2, ReplayAppend
  <2>4. k \in changed <=> new[k] # cache[k]
    OBVIOUS
  <2> HIDE DEF r, changed
  <2> QED
    BY <1>2, <2>1, <2>2, <2>3, <2>4
<1> QED
  BY <1>2, <1>3, <1>4 DEF HistoryReplaysCache

LEMMA ReplaySame ==
    ASSUME history' = history, NEW k
    PROVE  Replay(k)' = Replay(k)
BY DEF Replay, Adds, Removes

LEMMA ForgetKeeps ==
    ASSUME LedgerTypeOK, HistoryReplaysCache,
           NEW keys \in SUBSET Key, NEW erased \in SUBSET Key,
           Forget(keys, erased)
    PROVE  (LedgerTypeOK /\ HistoryReplaysCache)'
<1>1. LedgerTypeOK'
  BY DEF Forget, LedgerTypeOK
<1>2. \A k \in Key \ gone' : k \in Key \ gone /\ cache'[k] = cache[k]
  BY DEF Forget
<1> QED
  BY <1>1, <1>2, ReplaySame DEF HistoryReplaysCache, Forget

(***************************************************************************)
(* The ledger's promise, for every set of keys, models, scopes and labels. *)
(***************************************************************************)
THEOREM LedgerReplays == Spec => [](LedgerTypeOK /\ HistoryReplaysCache)
<1>1. Init => LedgerTypeOK /\ HistoryReplaysCache
  BY DEF Init, LedgerTypeOK, HistoryReplaysCache, Replay
<1>2. LedgerTypeOK /\ HistoryReplaysCache /\ [Next]_vars
        => (LedgerTypeOK /\ HistoryReplaysCache)'
  <2> SUFFICES ASSUME LedgerTypeOK, HistoryReplaysCache, [Next]_vars
               PROVE  (LedgerTypeOK /\ HistoryReplaysCache)'
    OBVIOUS
  <2>1. CASE Next
    BY <2>1, ReplaceKeeps, ForgetKeeps DEF Next
  <2>2. CASE UNCHANGED vars
    BY <2>2, ReplaySame DEF vars, LedgerTypeOK, HistoryReplaysCache
  <2> QED
    BY <2>1, <2>2
<1> QED
  BY <1>1, <1>2, PTL DEF Spec
==============================================================================
