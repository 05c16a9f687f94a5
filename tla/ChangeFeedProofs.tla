--------------------------- MODULE ChangeFeedProofs ---------------------------
(***************************************************************************)
(* Theorems about the change timeline, for any number of runs, changes,    *)
(* requests in flight and any size of a page.                              *)
(***************************************************************************)
EXTENDS ChangeFeed, FiniteSetTheorems, FunctionTheorems, SequenceTheorems, TLAPS

------------------------------------------------------------------------------
(* The newest of a set of ids *)

Above(S, i) == {j \in S : j > i}

(***************************************************************************)
(* The rank of an id, counted from the top, numbers a finite set without   *)
(* gaps: what lets a page be counted, and be put in order.                 *)
(***************************************************************************)
Rank(S) == [i \in S |-> Cardinality(Above(S, i)) + 1]

LEMMA AboveIsSmaller ==
    ASSUME NEW S \in SUBSET Nat, IsFiniteSet(S), NEW i \in S
    PROVE  /\ IsFiniteSet(Above(S, i))
           /\ Cardinality(Above(S, i)) \in 0..(Cardinality(S) - 1)
           /\ \A j \in S : j > i => Cardinality(Above(S, j)) < Cardinality(Above(S, i))
<1> DEFINE Bounded(T) == IsFiniteSet(T) /\ Cardinality(T) \in Nat
<1>0. \A T \in SUBSET S : Bounded(T)
  <2> TAKE T \in SUBSET S
  <2> QED
    BY FS_Subset, FS_CardinalityType
<1>1. \A j \in S : Bounded(Above(S, j))
  BY <1>0, Zenon DEF Above
<1>2. ASSUME NEW T, T \in SUBSET S, NEW j \in S, Above(S, j) \subseteq T, j \in T
      PROVE  Cardinality(Above(S, j)) < Cardinality(T)
  <2>1. IsFiniteSet(T) /\ Cardinality(T) \in Nat
    BY <1>2, FS_Subset, FS_CardinalityType
  <2>2. j \notin Above(S, j)
    BY DEF Above
  <2>3. Above(S, j) # T
    BY <1>2, <2>2
  <2>4. Cardinality(Above(S, j)) <= Cardinality(T) /\ Cardinality(T) # Cardinality(Above(S, j))
    BY <1>2, <2>1, <2>3, FS_Subset
  <2> QED
    BY <1>1, <2>1, <2>4
<1>3. Cardinality(Above(S, i)) < Cardinality(S) /\ Cardinality(S) \in Nat
  <2>1. Above(S, i) \subseteq S
    BY DEF Above
  <2> QED
    BY <1>2, <2>1, FS_CardinalityType
<1>4. \A j \in S : j > i => Cardinality(Above(S, j)) < Cardinality(Above(S, i))
  <2> TAKE j \in S
  <2> HAVE j > i
  <2>1. \A k \in S : k > j => k > i
    OBVIOUS
  <2>2. Above(S, i) \in SUBSET S /\ Above(S, j) \subseteq Above(S, i) /\ j \in Above(S, i)
    BY <2>1 DEF Above
  <2> QED
    BY <1>2, <2>2
<1> QED
  BY <1>1, <1>3, <1>4

LEMMA RankIsBijection ==
    ASSUME NEW S \in SUBSET Nat, IsFiniteSet(S)
    PROVE  /\ Rank(S) \in Bijection(S, 1..Cardinality(S))
           /\ \A i, j \in S : j > i <=> Rank(S)[j] < Rank(S)[i]
<1> DEFINE N == Cardinality(S)  f == Rank(S)
<1>1. N \in Nat /\ IsFiniteSet(1..N) /\ Cardinality(1..N) = N
  BY FS_CardinalityType, FS_Interval
<1>2. \A i \in S : f[i] \in 1..N
  BY <1>1, AboveIsSmaller DEF Rank
<1>3. f \in [S -> 1..N]
  BY <1>2 DEF Rank
<1>4. \A i, j \in S : j > i => f[j] < f[i]
  <2> TAKE i, j \in S
  <2>1. j > i => Cardinality(Above(S, j)) < Cardinality(Above(S, i))
    BY AboveIsSmaller
  <2>2. Cardinality(Above(S, j)) \in Nat /\ Cardinality(Above(S, i)) \in Nat
    BY <1>1, AboveIsSmaller
  <2> QED
    BY <2>1, <2>2 DEF Rank
<1>5. \A i, j \in S : j > i <=> f[j] < f[i]
  <2> TAKE i, j \in S
  <2>1. i \in Nat /\ j \in Nat /\ f[i] \in 1..N /\ f[j] \in 1..N
    BY <1>2
  <2>2. j > i \/ i > j \/ i = j
    BY <2>1
  <2> QED
    BY <1>4, <2>1, <2>2
<1>6. \A i, j \in S : f[i] = f[j] => i = j
  <2> TAKE i, j \in S
  <2>1. i \in Nat /\ j \in Nat /\ f[i] \in 1..N /\ f[j] \in 1..N
    BY <1>2
  <2> QED
    BY <1>5, <2>1
<1>7. f \in Injection(S, 1..N)
  BY <1>3, <1>6 DEF Injection, IsInjective
<1>8. f \in Surjection(S, 1..N)
  BY <1>1, <1>7, FS_Injection
<1> QED
  BY <1>5, <1>7, <1>8 DEF Bijection

(***************************************************************************)
(* The n newest of a set: all of it or exactly n, and nothing above them   *)
(* is left out.                                                            *)
(***************************************************************************)
LEMMA NewestIsTop ==
    ASSUME NEW S \in SUBSET Nat, IsFiniteSet(S), NEW n \in Nat
    PROVE  /\ Newest(S, n) \in SUBSET S /\ IsFiniteSet(Newest(S, n))
           /\ Cardinality(Newest(S, n)) \in Nat
           /\ Cardinality(Newest(S, n)) <= n
           /\ Newest(S, n) # S => Cardinality(Newest(S, n)) = n
           /\ \A i \in Newest(S, n), j \in S \ Newest(S, n) : i > j
<1> DEFINE N == Cardinality(S)
           f == Rank(S)
           top == Newest(S, n)
<1>1. N \in Nat
  BY FS_CardinalityType
<1>2. f \in Bijection(S, 1..N) /\ \A i, j \in S : j > i <=> f[j] < f[i]
  BY RankIsBijection
<1>3. \A i \in S : f[i] \in 1..N /\ (i \in top <=> f[i] <= n)
  <2> TAKE i \in S
  <2>1. Cardinality(Above(S, i)) \in Nat /\ Cardinality(Above(S, i)) \in 0..(N - 1)
    BY <1>1, AboveIsSmaller
  <2>2. i \in top <=> Cardinality(Above(S, i)) < n
    BY DEF Newest, Above
  <2> QED
    BY <1>1, <2>1, <2>2 DEF Rank
<1>4. top \in SUBSET S
  BY DEF Newest
<1>5. IsFiniteSet(top)
  BY <1>4, FS_Subset
<1>6. Cardinality(top) \in Nat
  BY <1>5, FS_CardinalityType
<1>7. PICK m \in Nat : m <= n /\ m <= N /\ (m = n \/ m = N)
  <2>1. CASE n <= N
    BY <1>1, <2>1
  <2>2. CASE N < n
    BY <1>1, <2>2
  <2> QED
    BY <1>1, <2>1, <2>2
<1> DEFINE g == [i \in top |-> f[i]]
<1>8. g \in Bijection(top, 1..m)
  <2>1. \A i \in top : f[i] \in 1..m
    <3> TAKE i \in top
    <3>1. f[i] \in 1..N /\ f[i] <= n
      BY <1>3, <1>4
    <3> HIDE DEF f, N
    <3> QED
      BY <1>7, <3>1
  <2>1a. g \in [top -> 1..m]
    BY <2>1
  <2>2. \A a, b \in top : g[a] = g[b] => a = b
    BY <1>2, <1>4, Fun_BijectionProperties
  <2>3. \A t \in 1..m : \E s \in top : g[s] = t
    <3> TAKE t \in 1..m
    <3>1. t \in 1..N /\ t <= n
      BY <1>1, <1>7
    <3>2. f \in Surjection(S, 1..N)
      BY <1>2 DEF Bijection
    <3>3. \A u \in 1..N : \E s \in S : f[s] = u
      BY <3>2 DEF Surjection
    <3>4. PICK s \in S : f[s] = t
      BY <3>1, <3>3
    <3>5. s \in top
      BY <1>3, <3>1, <3>4
    <3> QED
      BY <3>4, <3>5
  <2> HIDE DEF g, top
  <2> QED
    BY <2>1a, <2>2, <2>3, Fun_IsBij
<1>9. Cardinality(top) = m
  <2>1. ExistsBijection(top, 1..m)
    BY <1>8 DEF ExistsBijection
  <2>2. Cardinality(1..m) = m
    BY <1>7, FS_Interval
  <2> QED
    BY <1>5, <2>1, <2>2, FS_Bijection
<1>10. top # S => m = n
  <2> SUFFICES ASSUME m = N, top # S  PROVE FALSE
    BY <1>7
  <2>1. Cardinality(S) = Cardinality(top)
    BY <1>9
  <2> QED
    BY <1>4, <2>1, FS_Subset
<1>11. \A i \in top, j \in S \ top : i > j
  <2> TAKE i \in top, j \in S \ top
  <2>1. i \in S /\ j \in S /\ f[i] \in 1..N /\ f[j] \in 1..N /\ f[i] <= n /\ ~(f[j] <= n)
    BY <1>3, <1>4
  <2>2. f[i] < f[j]
    BY <1>1, <2>1
  <2> QED
    BY <1>2, <2>1, <2>2
<1> QED
  BY <1>4, <1>5, <1>6, <1>7, <1>9, <1>10, <1>11

(***************************************************************************)
(* Fetching one row more than a page holds tells whether there is more.    *)
(***************************************************************************)
LEMMA OneRowMore ==
    ASSUME NEW V \in SUBSET Nat, IsFiniteSet(V), NEW n \in Nat \ {0}
    PROVE  LET rows == Newest(V, n + 1)
               ids == Newest(rows, n)
           IN /\ ids \in SUBSET V /\ IsFiniteSet(ids) /\ Cardinality(ids) <= n
              /\ \A i \in ids, j \in V \ ids : i > j
              /\ Cardinality(rows) > n <=> V \ ids # {}
              /\ V \ ids # {} => Cardinality(ids) = n
              /\ ids = {} <=> V = {}
              /\ rows = {} <=> V = {}
<1> DEFINE rows == Newest(V, n + 1)
           ids == Newest(rows, n)
<1>1. /\ rows \in SUBSET V /\ IsFiniteSet(rows)
      /\ Cardinality(rows) \in Nat
      /\ rows # V => Cardinality(rows) = n + 1
      /\ \A i \in rows, j \in V \ rows : i > j
  BY NewestIsTop
<1>2. rows \in SUBSET Nat
  BY <1>1
<1> HIDE DEF rows
<1>3. /\ ids \in SUBSET rows /\ IsFiniteSet(ids)
      /\ Cardinality(ids) \in Nat /\ Cardinality(ids) <= n
      /\ ids # rows => Cardinality(ids) = n
      /\ \A i \in ids, j \in rows \ ids : i > j
  BY <1>1, <1>2, NewestIsTop
<1> HIDE DEF ids
<1>4. Cardinality(rows) > n => ids # rows
  BY <1>1, <1>3
<1>5. ids = rows => rows = V
  BY <1>1, <1>3
<1>6. ids # rows => Cardinality(rows) > n
  <2> SUFFICES ASSUME ids # rows  PROVE Cardinality(rows) > n
    OBVIOUS
  <2>1. Cardinality(ids) = n /\ Cardinality(ids) <= Cardinality(rows)
    BY <1>1, <1>3, FS_Subset
  <2>2. Cardinality(ids) # Cardinality(rows)
    BY <1>1, <1>3, FS_Subset
  <2> QED
    BY <1>1, <1>3, <2>1, <2>2
<1>7. V \ ids # {} <=> ids # rows
  BY <1>1, <1>3, <1>5
<1>8. \A i \in ids, j \in V \ ids : i > j
  BY <1>1, <1>3
<1>9. ids = {} => V = {}
  <2> SUFFICES ASSUME ids = {}, V # {}  PROVE FALSE
    OBVIOUS
  <2>1. Cardinality(ids) = 0
    BY FS_EmptySet
  <2> QED
    BY <1>3, <1>5, <2>1
<1>10. rows = {} <=> V = {}
  BY <1>1, <1>3, <1>9
<1> QED
  BY <1>1, <1>3, <1>4, <1>6, <1>7, <1>8, <1>9, <1>10 DEF rows, ids

------------------------------------------------------------------------------
(* The order of a page *)

GroupsOf(ids) == {[id |-> i, events |-> runs[i]] : i \in ids}

(***************************************************************************)
(* The groups of a finite set of runs, newest first: every run once, each  *)
(* below the one before it.                                                *)
(***************************************************************************)
LEMMA NewestFirst ==
    ASSUME NEW ids \in SUBSET Nat, IsFiniteSet(ids)
    PROVE  LET s == FromTheTop(GroupsOf(ids)) IN
           /\ s \in [1..Cardinality(ids) -> GroupsOf(ids)]
           /\ Cardinality(ids) \in Nat
           /\ \A m, n \in 1..Cardinality(ids) : m < n => s[m].id > s[n].id
           /\ \A i \in ids : \E n \in 1..Cardinality(ids) : s[n].id = i
<1> DEFINE N == Cardinality(ids)
           f == Rank(ids)
           gs == GroupsOf(ids)
           Descends(s) == \A m, n \in DOMAIN s : m < n => s[m].id > s[n].id
           g == [i \in ids |-> [id |-> i, events |-> runs[i]]]
<1>0. \A i \in ids : \E t \in gs : t.id = i
  <2> TAKE i \in ids
  <2>1. g[i] \in gs /\ g[i].id = i
    BY DEF GroupsOf
  <2> QED
    BY <2>1
<1>1. N \in Nat
  BY FS_CardinalityType
<1>2. f \in Bijection(ids, 1..N) /\ \A i, j \in ids : j > i <=> f[j] < f[i]
  BY RankIsBijection
<1>3. IsFiniteSet(gs) /\ Cardinality(gs) = N
  <2>1. g \in [ids -> gs] /\ \A i \in ids : g[i].id = i
    BY DEF GroupsOf
  <2>2. \A a, b \in ids : g[a] = g[b] => a = b
    BY <2>1
  <2>3. \A t \in gs : \E i \in ids : g[i] = t
    BY DEF GroupsOf
  <2> HIDE DEF g
  <2>4. g \in Bijection(ids, gs)
    BY <2>1, <2>2, <2>3, Fun_IsBij
  <2>5. ExistsBijection(ids, gs)
    BY <2>4 DEF ExistsBijection
  <2> QED
    BY <2>5, FS_Bijection
<1>4. \E s \in SetToSeqs(gs) : Descends(s)
  <2>1. f \in Surjection(ids, 1..N)
    BY <1>2 DEF Bijection
  <2>2. \A k \in 1..N : \E i \in ids : f[i] = k
    BY <2>1 DEF Surjection
  <2> DEFINE h == [k \in 1..N |-> CHOOSE i \in ids : f[i] = k]
             w == [k \in 1..N |-> [id |-> h[k], events |-> runs[h[k]]]]
  <2> HIDE DEF f, N
  <2>3. \A k \in 1..N : h[k] \in ids /\ f[h[k]] = k
    BY <2>2
  <2> HIDE DEF h
  <2>4. w \in [1..N -> gs]
    BY <2>3 DEF GroupsOf
  <2>5. \A k \in 1..N : w[k].id = h[k]
    OBVIOUS
  <2> HIDE DEF w
  <2>6. \A m, n \in 1..N : m # n => w[m] # w[n]
    BY <2>3, <2>5
  <2>7. w \in SetToSeqs(gs)
    BY <1>3, <2>4, <2>6 DEF SetToSeqs
  <2>8. \A m, n \in 1..N : m < n => w[m].id > w[n].id
    <3> TAKE m, n \in 1..N
    <3> HAVE m < n
    <3>1. h[m] \in ids /\ h[n] \in ids /\ f[h[m]] < f[h[n]]
      BY <2>3
    <3>2. h[m] > h[n]
      BY <1>2, <3>1
    <3> QED
      BY <2>5, <3>2
  <2>9. DOMAIN w = 1..N
    BY <2>4
  <2>10. Descends(w)
    BY <2>8, <2>9
  <2> QED
    BY <2>7, <2>10
<1> DEFINE s == FromTheTop(gs)
<1>5. s \in SetToSeqs(gs) /\ Descends(s)
  BY <1>4 DEF FromTheTop
<1> HIDE DEF s, N, gs
<1>6. s \in [1..N -> gs] /\ \A m, n \in 1..N : m # n => s[m] # s[n]
  BY <1>3, <1>5 DEF SetToSeqs
<1>7. \A m, n \in 1..N : m < n => s[m].id > s[n].id
  BY <1>5, <1>6
<1>8. s \in Surjection(1..N, gs)
  <2>1. s \in Injection(1..N, gs)
    BY <1>6, Fun_IsInj
  <2>2. Cardinality(1..N) = N
    BY <1>1, FS_Interval
  <2> QED
    BY <1>3, <2>1, <2>2, FS_Injection
<1>9. \A i \in ids : \E n \in 1..N : s[n].id = i
  <2>1. \A t \in gs : \E n \in 1..N : s[n] = t
    BY <1>8 DEF Surjection
  <2> QED
    BY <1>0, <2>1
<1> QED
  BY <1>1, <1>6, <1>7, <1>9 DEF s, N, gs

------------------------------------------------------------------------------
(* The invariant *)

Below(r) == {i \in 1..r.upto : (r.before = 0 \/ i < r.before) /\ runs[i] # {}}

\* The body of PagesAreSlices, for one request.
Slice(r) ==
    /\ r.ids \subseteq Below(r) /\ Cardinality(r.ids) <= Limit
    /\ \A i \in r.ids, j \in Below(r) \ r.ids : i > j
    /\ r.more <=> Below(r) \ r.ids # {}
    /\ Below(r) \ r.ids # {} => Cardinality(r.ids) = Limit

(***************************************************************************)
(* What a request knows is still so when it is answered: runs are only     *)
(* added, above it, and an older page was asked for below a run that has   *)
(* one below it.                                                           *)
(***************************************************************************)
Sound(r) ==
    /\ r.before <= Len(runs) /\ r.upto <= Len(runs)
    /\ r.before # 0 => Visible(r.before) # {}
    /\ r.stage \in {"sent", "runs"} => r.groups = {}
    /\ r.stage \in {"runs", "answered"} =>
          r.before <= r.upto /\ (r.before # 0 => r.ids # {})
    /\ r.stage = "answered" => r.groups = GroupsOf(r.ids)

RequestsAreSound == \A l \in Load : Sound(loads[l])

ShownAreCommitted == \A n \in DOMAIN groups : groups[n].id \in DOMAIN runs

CursorMeansMore == nextBeforeId # 0 => hasMore

OneOlder == \A l, m \in More : l = m

IInv ==
    /\ TypeOK /\ PagesAreSlices /\ GroupsAreWhole /\ EndIsTruthful
    /\ FlagsHaveRequests
    /\ RequestsAreSound /\ ShownAreCommitted /\ CursorMeansMore /\ OneOlder

(***************************************************************************)
(* The same in three parts: the requests, the page, and the flags.         *)
(***************************************************************************)
Requests == PagesAreSlices /\ RequestsAreSound

View == GroupsAreWhole /\ EndIsTruthful /\ ShownAreCommitted /\ CursorMeansMore

Flags == (loading => First # {}) /\ (loadingMore <=> More # {}) /\ OneOlder

LEMMA PartsOfInv ==
    /\ IInv => TypeOK /\ Requests /\ View /\ Flags
    /\ TypeOK /\ Requests /\ View /\ Flags => IInv
<1>1. OneOlder => Cardinality(More) <= 1
  <2> SUFFICES ASSUME OneOlder  PROVE Cardinality(More) <= 1
    OBVIOUS
  <2>1. CASE More = {}
    BY <2>1, FS_EmptySet
  <2>2. CASE More # {}
    <3> PICK l \in More : TRUE
      BY <2>2
    <3>1. More = {l}
      BY DEF OneOlder
    <3>2. Cardinality({l}) = 1
      BY FS_Singleton
    <3> QED
      BY <3>1, <3>2
  <2> QED
    BY <2>1, <2>2
<1> QED
  BY <1>1 DEF IInv, Requests, View, Flags, FlagsHaveRequests

LEMMA TypePrimed ==
    ASSUME runs' \in Seq(SUBSET Change), Len(runs') <= MaxRun,
           loads' \in [Load -> Request], groups' \in Seq(Group),
           nextBeforeId' \in 0..MaxRun,
           hasMore' \in BOOLEAN, loading' \in BOOLEAN, loadingMore' \in BOOLEAN,
           toast' \in BOOLEAN
    PROVE  TypeOK'
BY DEF TypeOK

LEMMA RunFacts ==
    ASSUME TypeOK
    PROVE  /\ Len(runs) \in Nat /\ DOMAIN runs = 1..Len(runs)
           /\ \A i \in DOMAIN runs : runs[i] \in SUBSET Change
           /\ MaxRun \in Nat /\ Len(runs) <= MaxRun
           /\ Limit \in Nat \ {0}
BY ChangeFeedAssumption DEF TypeOK

LEMMA VisibleFacts ==
    ASSUME TypeOK, NEW b
    PROVE  /\ Visible(b) \in SUBSET Nat /\ IsFiniteSet(Visible(b))
           /\ Visible(b) \subseteq 1..Len(runs)
<1>1. Visible(b) \in SUBSET (1..Len(runs)) /\ Len(runs) \in Nat
  BY RunFacts DEF Visible
<1>2. IsFiniteSet(1..Len(runs))
  BY <1>1, FS_Interval
<1> QED
  BY <1>1, <1>2, FS_Subset

LEMMA RequestFields ==
    ASSUME TypeOK, NEW l \in Load
    PROVE  /\ loads[l] \in Request
           /\ loads[l].before \in Nat /\ loads[l].upto \in Nat
           /\ loads[l].ids \in SUBSET RunId
           /\ loads[l].more \in BOOLEAN
<1>1. loads[l] \in Request
  BY DEF TypeOK
<1> QED
  BY <1>1, ChangeFeedAssumption DEF Request

(***************************************************************************)
(* A step that changes one request, and no run, is judged by the request   *)
(* it leaves.                                                              *)
(***************************************************************************)
LEMMA OneRequest ==
    ASSUME TypeOK, Requests, NEW l \in Load, NEW x \in Request,
           loads' = [loads EXCEPT ![l] = x], runs' = runs,
           x.stage \in {"runs", "answered"} => Slice(x), Sound(x)
    PROVE  Requests' /\ loads' \in [Load -> Request]
<1>1. \A m \in Load : loads'[m] = IF m = l THEN x ELSE loads[m]
  BY DEF TypeOK
<1>2. \A m \in Load : loads'[m].stage \in {"runs", "answered"} => Slice(loads'[m])
  BY <1>1 DEF Requests, PagesAreSlices, Slice, Below
<1>3. \A m \in Load : Sound(loads'[m])
  BY <1>1 DEF Requests, RequestsAreSound
<1>4. PagesAreSlices'
  BY <1>2 DEF PagesAreSlices, Slice, Below
<1>5. RequestsAreSound'
  BY <1>3 DEF RequestsAreSound, Sound, Visible, GroupsOf
<1> QED
  BY <1>4, <1>5 DEF Requests, TypeOK

LEMMA InFlightAfter ==
    ASSUME TypeOK, NEW l \in Load, NEW x, loads' = [loads EXCEPT ![l] = x]
    PROVE  /\ x.stage # "free" /\ x.before = 0 =>
                 First' = First \cup {l} /\ More' = More \ {l}
           /\ x.stage # "free" /\ x.before # 0 =>
                 First' = First \ {l} /\ More' = More \cup {l}
           /\ x.stage = "free" => First' = First \ {l} /\ More' = More \ {l}
<1>1. \A m \in Load : m # l => loads'[m] = loads[m]
  BY DEF TypeOK
<1>2. loads'[l] = x
  BY DEF TypeOK
<1> QED
  BY <1>1, <1>2 DEF First, More, InFlight

LEMMA ViewUnchanged ==
    ASSUME View, UNCHANGED <<runs, groups, hasMore, nextBeforeId>>
    PROVE  View'
BY DEF View, GroupsAreWhole, EndIsTruthful, ShownAreCommitted, CursorMeansMore, Visible

\* A request just sent, for the first page or below the last run shown.
LEMMA JustSent ==
    ASSUME TypeOK, NEW b \in 0..MaxRun, b <= Len(runs), b # 0 => Visible(b) # {}
    PROVE  LET x == [NoLoad EXCEPT !.stage = "sent", !.before = b] IN
           x \in Request /\ Sound(x) /\ x.stage = "sent" /\ x.before = b
<1> DEFINE x == [NoLoad EXCEPT !.stage = "sent", !.before = b]
<1>1. 0 \in 0..MaxRun
  BY RunFacts
<1>2. NoLoad \in Request
  BY <1>1 DEF NoLoad, Request
<1>3. x \in Request
  BY <1>2 DEF Request
<1>4. /\ x.stage = "sent" /\ x.before = b /\ x.upto = 0 /\ x.groups = {}
  BY DEF NoLoad
<1> HIDE DEF x
<1>5. Sound(x)
  BY <1>4, RunFacts DEF Sound
<1> QED
  BY <1>3, <1>4, <1>5 DEF x

------------------------------------------------------------------------------
(* The steps of the server *)

\* A run that is added changes nothing below it.
LEMMA CommitAppends ==
    ASSUME TypeOK, Commit
    PROVE  /\ runs' \in Seq(SUBSET Change) /\ Len(runs') = Len(runs) + 1
           /\ Len(runs') <= MaxRun
           /\ \A i \in 1..Len(runs) : i \in DOMAIN runs' /\ runs'[i] = runs[i]
           /\ \A b \in Nat : Visible(b) \subseteq Visible(b)'
           /\ \A b \in 1..Len(runs) : Visible(b)' = Visible(b)
<1>1. PICK ev \in SUBSET Change : runs' = Append(runs, ev)
  BY DEF Commit
<1>2. runs \in Seq(SUBSET Change) /\ Len(runs) \in Nat /\ MaxRun \in Nat
  BY RunFacts DEF TypeOK
<1>3. runs' \in Seq(SUBSET Change) /\ Len(runs') = Len(runs) + 1
  BY <1>1, <1>2, AppendProperties
<1>4. Len(runs') <= MaxRun
  BY <1>2, <1>3 DEF Commit
<1>5. \A i \in 1..Len(runs) : runs'[i] = runs[i]
  BY <1>1, <1>2, AppendProperties
<1>6. DOMAIN runs = 1..Len(runs) /\ DOMAIN runs' = 1..(Len(runs) + 1)
  BY <1>2, <1>3, LenProperties
<1>7. \A i \in 1..Len(runs) : i \in DOMAIN runs'
  BY <1>2, <1>6
<1>8. \A b \in Nat : Visible(b) \subseteq Visible(b)'
  BY <1>5, <1>6, <1>7 DEF Visible
<1>9. \A b \in 1..Len(runs) : Visible(b)' = Visible(b)
  <2> TAKE b \in 1..Len(runs)
  <2>1. \A i \in 1..(Len(runs) + 1) : i < b => i \in 1..Len(runs)
    BY <1>2
  <2>2. b # 0
    BY <1>2
  <2>3. Visible(b)' = {i \in 1..(Len(runs) + 1) : i < b /\ runs'[i] # {}}
    BY <1>6, <2>2 DEF Visible
  <2>4. Visible(b) = {i \in 1..Len(runs) : i < b /\ runs[i] # {}}
    BY <1>6, <2>2 DEF Visible
  <2>5. \A i \in 1..Len(runs) : i \in 1..(Len(runs) + 1)
    BY <1>2
  <2> QED
    BY <1>5, <2>1, <2>3, <2>4, <2>5
<1> QED
  BY <1>3, <1>4, <1>5, <1>7, <1>8, <1>9

LEMMA CommitKeeps ==
    ASSUME IInv, Commit
    PROVE  IInv'
<1> TypeOK /\ Requests /\ View /\ Flags
  BY PartsOfInv
<1>1. /\ runs' \in Seq(SUBSET Change) /\ Len(runs') = Len(runs) + 1
      /\ Len(runs') <= MaxRun
      /\ \A i \in 1..Len(runs) : i \in DOMAIN runs' /\ runs'[i] = runs[i]
      /\ \A b \in Nat : Visible(b) \subseteq Visible(b)'
      /\ \A b \in 1..Len(runs) : Visible(b)' = Visible(b)
  BY CommitAppends
<1>2. UNCHANGED <<loads, groups, hasMore, nextBeforeId, loading, loadingMore, toast>>
  BY DEF Commit, page
<1>3. Len(runs) \in Nat /\ DOMAIN runs = 1..Len(runs)
  BY RunFacts
<1>4. TypeOK'
  BY <1>1, <1>2, TypePrimed DEF TypeOK
<1>5. ASSUME NEW l \in Load
      PROVE  /\ loads[l].upto \in Nat /\ loads[l].upto <= Len(runs)
             /\ loads[l].before \in Nat /\ Sound(loads[l])
  BY RequestFields DEF Requests, RequestsAreSound, Sound
<1>6. ASSUME NEW l \in Load
      PROVE  {i \in 1..loads[l].upto :
                 (loads[l].before = 0 \/ i < loads[l].before) /\ runs'[i] # {}} = Below(loads[l])
  <2>1. \A i \in 1..loads[l].upto : runs'[i] = runs[i]
    BY <1>1, <1>3, <1>5
  <2> QED
    BY <2>1 DEF Below
<1>7. PagesAreSlices'
  BY <1>2, <1>6 DEF Requests, PagesAreSlices, Below
<1>8. ASSUME NEW l \in Load, loads[l].stage = "answered"
      PROVE  loads[l].groups = {[id |-> i, events |-> runs'[i]] : i \in loads[l].ids}
  <2>1. loads[l].ids \subseteq 1..loads[l].upto
    BY <1>8 DEF Requests, PagesAreSlices
  <2>2. \A i \in loads[l].ids : runs'[i] = runs[i]
    BY <1>1, <1>3, <1>5, <2>1
  <2>3. loads[l].groups = {[id |-> i, events |-> runs[i]] : i \in loads[l].ids}
    BY <1>5, <1>8 DEF Sound, GroupsOf
  <2> QED
    BY <2>2, <2>3
<1>9. RequestsAreSound'
  <2> SUFFICES ASSUME NEW l \in Load  PROVE Sound(loads[l])'
    BY DEF RequestsAreSound
  <2> DEFINE r == loads[l]
  <2>1. r.before <= Len(runs) /\ r.upto <= Len(runs) /\ r.before \in Nat /\ r.upto \in Nat
    BY <1>5 DEF Sound
  <2>2. r.before <= Len(runs') /\ r.upto <= Len(runs')
    BY <1>1, <1>3, <2>1
  <2>3. r.before # 0 => Visible(r.before)' # {}
    BY <1>1, <1>2, <1>5 DEF Sound
  <2> QED
    BY <1>2, <1>5, <1>8, <2>2, <2>3 DEF Sound, GroupsOf
<1>10. View'
  <2>1. \A n \in DOMAIN groups : groups[n].id \in 1..Len(runs)
    BY <1>3 DEF View, ShownAreCommitted
  <2>2. ShownAreCommitted'
    BY <1>1, <1>2, <2>1 DEF ShownAreCommitted
  <2>3. GroupsAreWhole'
    BY <1>1, <1>2, <2>1 DEF View, GroupsAreWhole
  <2>4. groups # <<>> => Visible(Last(groups).id)' = Visible(Last(groups).id)
    <3> SUFFICES ASSUME groups # <<>>
                 PROVE  Visible(Last(groups).id)' = Visible(Last(groups).id)
      OBVIOUS
    <3>1. Len(groups) \in DOMAIN groups
      BY DEF TypeOK
    <3>2. Last(groups).id \in 1..Len(runs) /\ Last(groups)' = Last(groups)
      BY <1>2, <2>1, <3>1 DEF Last
    <3> QED
      BY <1>1, <3>2
  <2>5. EndIsTruthful'
    BY <1>2, <2>4 DEF View, EndIsTruthful
  <2> QED
    BY <1>2, <2>2, <2>3, <2>5 DEF View, CursorMeansMore
<1>11. Flags'
  BY <1>2 DEF Flags, OneOlder, First, More, InFlight
<1>12. Requests'
  BY <1>7, <1>9 DEF Requests
<1> QED
  BY <1>4, <1>10, <1>11, <1>12, PartsOfInv, PTL

LEMMA ReadRunsKeeps ==
    ASSUME IInv, NEW l \in Load, ReadRuns(l)
    PROVE  IInv'
<1> TypeOK /\ Requests /\ View /\ Flags
  BY PartsOfInv
<1> DEFINE r == loads[l]
           V == Visible(r.before)
           rows == Newest(V, Limit + 1)
           ids == Newest(rows, Limit)
           x == [r EXCEPT !.stage = IF rows = {} THEN "answered" ELSE "runs",
                          !.upto = Len(runs), !.ids = ids, !.more = Cardinality(rows) > Limit]
<1>1. loads' = [loads EXCEPT ![l] = x] /\ UNCHANGED <<runs, page>> /\ r.stage = "sent"
  BY DEF ReadRuns, Rows
<1>2. /\ Len(runs) \in Nat /\ DOMAIN runs = 1..Len(runs) /\ MaxRun \in Nat
      /\ Len(runs) <= MaxRun /\ Limit \in Nat \ {0}
  BY RunFacts
<1>3. V \in SUBSET Nat /\ IsFiniteSet(V) /\ V \subseteq 1..Len(runs)
  BY VisibleFacts
<1>4. r \in Request /\ r.before \in Nat /\ Sound(r)
  BY RequestFields DEF Requests, RequestsAreSound
<1>5. /\ x.before = r.before /\ x.upto = Len(runs) /\ x.ids = ids
      /\ x.more = (Cardinality(rows) > Limit) /\ x.groups = r.groups
      /\ rows = {} => x.stage = "answered"
      /\ rows # {} => x.stage = "runs"
  BY <1>4 DEF Request
<1>6. Below(x) = V
  BY <1>2, <1>5 DEF Below, Visible
<1> HIDE DEF V
<1>7. /\ ids \in SUBSET V /\ Cardinality(ids) <= Limit
      /\ \A i \in ids, j \in V \ ids : i > j
      /\ Cardinality(rows) > Limit <=> V \ ids # {}
      /\ V \ ids # {} => Cardinality(ids) = Limit
      /\ ids = {} <=> V = {}
      /\ rows = {} <=> V = {}
  BY <1>2, <1>3, OneRowMore
<1>8. x \in Request
  <2>0. \A i \in 1..Len(runs) : i \in RunId
    BY <1>2 DEF RunId
  <2>1. ids \in SUBSET RunId
    BY <1>3, <1>7, <2>0
  <2>2. Len(runs) \in 0..MaxRun
    BY <1>2
  <2>3. (Cardinality(rows) > Limit) \in BOOLEAN
    OBVIOUS
  <2> HIDE DEF ids, rows
  <2> QED
    BY <1>4, <2>1, <2>2, <2>3 DEF Request
<1> HIDE DEF ids, rows, x
<1>9. Slice(x)
  BY <1>5, <1>6, <1>7 DEF Slice
<1>10. Sound(x)
  <2>1. r.before <= Len(runs) /\ (r.before # 0 => V # {}) /\ r.groups = {}
    BY <1>1, <1>4 DEF Sound, V
  <2>2. x.stage = "answered" => x.groups = GroupsOf(x.ids)
    BY <1>5, <1>7, <2>1 DEF GroupsOf
  <2>3. r.before # 0 => ids # {}
    BY <1>7, <2>1
  <2> QED
    BY <1>2, <1>5, <2>1, <2>2, <2>3 DEF Sound, V
<1>11. Requests' /\ loads' \in [Load -> Request]
  BY <1>1, <1>8, <1>9, <1>10, OneRequest
<1>12. TypeOK'
  BY <1>1, <1>11 DEF TypeOK, page
<1>13. View'
  BY <1>1, ViewUnchanged DEF page
<1>14. First' = First /\ More' = More
  <2>1. x.stage # "free"
    BY <1>5
  <2> QED
    BY <1>1, <1>5, <2>1, InFlightAfter DEF First, More, InFlight
<1>15. Flags'
  BY <1>1, <1>14 DEF Flags, OneOlder, page
<1> QED
  BY <1>11, <1>12, <1>13, <1>15, PartsOfInv, PTL

LEMMA ReadEventsKeeps ==
    ASSUME IInv, NEW l \in Load, ReadEvents(l)
    PROVE  IInv'
<1> TypeOK /\ Requests /\ View /\ Flags
  BY PartsOfInv
<1> DEFINE r == loads[l]
           gs == GroupsOf(r.ids)
           x == [r EXCEPT !.stage = "answered", !.groups = gs]
<1>1. loads' = [loads EXCEPT ![l] = x] /\ UNCHANGED <<runs, page>> /\ r.stage = "runs"
  BY DEF ReadEvents, GroupsOf
<1>2. r \in Request /\ r.upto \in Nat /\ Sound(r) /\ Slice(r) /\ r.ids \in SUBSET RunId
  BY <1>1, RequestFields DEF Requests, RequestsAreSound, PagesAreSlices, Slice, Below
<1>3. gs \in SUBSET Group
  <2>1. \A i \in r.ids : i \in 1..r.upto
    BY <1>2 DEF Slice, Below
  <2>2. \A i \in r.ids : i \in DOMAIN runs
    BY <1>2, <2>1, RunFacts DEF Sound
  <2>3. \A i \in r.ids : runs[i] \in SUBSET Change
    BY <2>2, RunFacts
  <2> QED
    BY <1>2, <2>3 DEF GroupsOf, Group
<1>4. /\ x.before = r.before /\ x.upto = r.upto /\ x.ids = r.ids /\ x.more = r.more
      /\ x.stage = "answered" /\ x.groups = gs
  BY <1>2 DEF Request
<1> HIDE DEF gs
<1>5. x \in Request
  BY <1>2, <1>3 DEF Request
<1> HIDE DEF x
<1>6. Slice(x)
  BY <1>2, <1>4 DEF Slice, Below
<1>7. Sound(x)
  BY <1>1, <1>2, <1>4 DEF Sound, gs
<1>8. Requests' /\ loads' \in [Load -> Request]
  BY <1>1, <1>5, <1>6, <1>7, OneRequest
<1>9. TypeOK'
  BY <1>1, <1>8 DEF TypeOK, page
<1>10. View'
  BY <1>1, ViewUnchanged DEF page
<1>11. First' = First /\ More' = More
  <2>1. x.stage # "free"
    BY <1>4
  <2> QED
    BY <1>1, <1>4, <2>1, InFlightAfter DEF First, More, InFlight
<1>12. Flags'
  BY <1>1, <1>11 DEF Flags, OneOlder, page
<1> QED
  BY <1>8, <1>9, <1>10, <1>12, PartsOfInv, PTL

------------------------------------------------------------------------------
(* The steps of the page *)

(***************************************************************************)
(* A step that sends a request and leaves what is shown.                   *)
(***************************************************************************)
LEMMA SendingKeeps ==
    ASSUME IInv, NEW l \in Load, NEW b \in 0..MaxRun, Sent(l, b),
           b <= Len(runs), b # 0 => Visible(b) # {},
           UNCHANGED <<runs, groups, hasMore, nextBeforeId>>,
           loading' \in BOOLEAN, loadingMore' \in BOOLEAN, toast' \in BOOLEAN,
           Flags'
    PROVE  IInv'
<1> TypeOK /\ Requests /\ View /\ Flags
  BY PartsOfInv
<1>1. PICK x \in Request : Sound(x) /\ x.stage = "sent" /\ loads' = [loads EXCEPT ![l] = x]
  BY JustSent DEF Sent
<1>2. Requests' /\ loads' \in [Load -> Request]
  BY <1>1, OneRequest
<1>3. TypeOK'
  BY <1>2, TypePrimed DEF TypeOK
<1>4. View'
  BY ViewUnchanged
<1> QED
  BY <1>2, <1>3, <1>4, PartsOfInv, PTL

LEMMA SentIsInFlight ==
    ASSUME TypeOK, NEW l \in Load, NEW b \in 0..MaxRun, Sent(l, b)
    PROVE  /\ b = 0 => First' = First \cup {l} /\ More' = More \ {l}
           /\ b # 0 => First' = First \ {l} /\ More' = More \cup {l}
<1> DEFINE x == [NoLoad EXCEPT !.stage = "sent", !.before = b]
<1>1. x.stage = "sent" /\ x.before = b /\ loads' = [loads EXCEPT ![l] = x]
  BY DEF Sent, NoLoad
<1> HIDE DEF x
<1> QED
  BY <1>1, InFlightAfter

LEMMA LoadFirstKeeps ==
    ASSUME IInv, NEW l \in Load, LoadFirst(l),
           UNCHANGED <<runs, groups, hasMore, nextBeforeId, loadingMore>>, toast' \in BOOLEAN
    PROVE  IInv'
<1> TypeOK /\ Flags
  BY PartsOfInv
<1>1. Sent(l, 0) /\ loading' = TRUE /\ 0 \in 0..MaxRun /\ 0 <= Len(runs)
  BY RunFacts DEF LoadFirst
<1>2. l \notin More
  BY DEF LoadFirst, Free, More, InFlight
<1>3. First' = First \cup {l} /\ More' = More
  BY <1>1, <1>2, SentIsInFlight
<1>4. Flags'
  BY <1>1, <1>3 DEF Flags, OneOlder
<1>5. loadingMore' \in BOOLEAN /\ loading' \in BOOLEAN
  BY <1>1 DEF TypeOK
<1> QED
  BY <1>1, <1>4, <1>5, SendingKeeps

LEMMA FailsKeeps ==
    ASSUME IInv, NEW l \in Load, Fails(l)
    PROVE  IInv'
<1> TypeOK /\ Flags
  BY PartsOfInv
<1>1. Sent(l, 0) /\ loading' = TRUE /\ 0 \in 0..MaxRun /\ 0 <= Len(runs)
  BY RunFacts DEF Fails
<1>2. l \in First <=> l \notin More
  BY DEF Fails, Free, First, More, InFlight
<1>3. First' = First \cup {l} /\ More' = More \ {l}
  BY <1>1, SentIsInFlight
<1>4. loadingMore' <=> (loadingMore /\ l \in First)
  BY DEF Fails
<1>5. loadingMore' <=> More' # {}
  <2>1. CASE l \in First
    BY <1>2, <1>3, <1>4, <2>1 DEF Flags
  <2>2. CASE l \notin First
    <3>1. More = {l}
      BY <1>2, <2>2 DEF Flags, OneOlder
    <3> QED
      BY <1>3, <1>4, <2>2, <3>1
  <2> QED
    BY <2>1, <2>2
<1>6. Flags'
  BY <1>1, <1>3, <1>5 DEF Flags, OneOlder
<1>7. loadingMore' \in BOOLEAN /\ loading' \in BOOLEAN /\ toast' \in BOOLEAN
  BY <1>1 DEF Fails
<1>8. UNCHANGED <<runs, groups, hasMore, nextBeforeId>>
  BY DEF Fails
<1> QED
  BY <1>1, <1>6, <1>7, <1>8, SendingKeeps

LEMMA LoadOlderKeeps ==
    ASSUME IInv, NEW l \in Load, LoadOlder(l)
    PROVE  IInv'
<1> TypeOK /\ Flags /\ View
  BY PartsOfInv
<1> DEFINE b == nextBeforeId
<1>1. /\ Sent(l, b) /\ b \in 0..MaxRun /\ b # 0 /\ hasMore /\ ~loadingMore
      /\ loadingMore' = TRUE /\ loads[l].stage = "free"
      /\ UNCHANGED <<runs, groups, hasMore, nextBeforeId, loading, toast>>
  BY DEF LoadOlder, TypeOK, Free
<1>2. groups # <<>> /\ b = Last(groups).id /\ Visible(b) # {}
  BY <1>1 DEF View, EndIsTruthful
<1>3. b <= Len(runs)
  <2>1. Len(groups) \in DOMAIN groups
    BY <1>2 DEF TypeOK
  <2>2. b \in DOMAIN runs
    BY <1>2, <2>1 DEF View, ShownAreCommitted, Last
  <2> QED
    BY <2>2, RunFacts
<1>4. l \notin First
  BY <1>1 DEF First, InFlight
<1>5. First' = First /\ More' = {l}
  BY <1>1, <1>4, SentIsInFlight DEF Flags
<1>6. Flags'
  BY <1>1, <1>5 DEF Flags, OneOlder
<1>7. loadingMore' \in BOOLEAN /\ loading' \in BOOLEAN /\ toast' \in BOOLEAN
  BY <1>1 DEF TypeOK
<1> QED
  BY <1>1, <1>2, <1>3, <1>6, <1>7, SendingKeeps

(***************************************************************************)
(* The groups of an answer, in the order they are shown: whole, without a  *)
(* gap, right below before_id, and the cursor is the last of them.         *)
(***************************************************************************)
LEMMA AnsweredPage ==
    ASSUME TypeOK, Requests, NEW l \in Load, loads[l].stage = "answered"
    PROVE  LET r == loads[l]
               s == FromTheTop(r.groups)
           IN /\ s \in Seq(Group)
              /\ \A n \in 1..Len(s) : /\ s[n].id \in DOMAIN runs
                                      /\ s[n].events = runs[s[n].id] /\ s[n].events # {}
              /\ \A n \in 1..(Len(s) - 1) :
                    /\ s[n + 1].id < s[n].id
                    /\ \A i \in (s[n + 1].id + 1)..(s[n].id - 1) : runs[i] = {}
              /\ r.before # 0 => /\ s # <<>> /\ s[1].id < r.before
                                 /\ \A i \in (s[1].id + 1)..(r.before - 1) : runs[i] = {}
              /\ s # <<>> => (r.more <=> Visible(Last(s).id) # {})
              /\ r.more => s # <<>> /\ Cursor(r) = Last(s).id
              /\ ~r.more => Cursor(r) = 0
<1> DEFINE r == loads[l]
           N == Cardinality(r.ids)
           s == FromTheTop(r.groups)
           left == Below(r) \ r.ids
<1>1. /\ r \in Request /\ r.before \in Nat /\ r.upto \in Nat
      /\ r.ids \in SUBSET RunId /\ r.more \in BOOLEAN
      /\ r.groups \in SUBSET Group
  BY RequestFields DEF Request
<1>2. Sound(r) /\ Slice(r) /\ r.groups = GroupsOf(r.ids)
  BY DEF Requests, RequestsAreSound, PagesAreSlices, Slice, Below, Sound
<1>3. /\ Len(runs) \in Nat /\ DOMAIN runs = 1..Len(runs) /\ Limit \in Nat \ {0}
      /\ r.upto <= Len(runs) /\ r.before <= r.upto
  BY <1>2, RunFacts DEF Sound
<1>4. /\ r.ids \subseteq Below(r)
      /\ \A i \in r.ids, j \in left : i > j
      /\ r.more <=> left # {}
      /\ left # {} => N = Limit
  BY <1>2 DEF Slice
<1>5. \A i \in Below(r) : i \in 1..r.upto /\ (r.before = 0 \/ i < r.before) /\ runs[i] # {}
  BY DEF Below
<1>6. \A i \in 1..r.upto : (r.before = 0 \/ i < r.before) /\ runs[i] # {} => i \in Below(r)
  BY DEF Below
<1>7. r.ids \in SUBSET Nat /\ IsFiniteSet(r.ids)
  <2>1. r.ids \in SUBSET (1..r.upto)
    BY <1>4, <1>5
  <2>2. IsFiniteSet(1..r.upto)
    BY <1>1, FS_Interval
  <2>3. IsFiniteSet(r.ids)
    BY <2>1, <2>2, FS_Subset
  <2> QED
    BY <1>1, <2>1, <2>3
<1>8. /\ s \in [1..N -> r.groups] /\ N \in Nat
      /\ \A m, n \in 1..N : m < n => s[m].id > s[n].id
      /\ \A i \in r.ids : \E n \in 1..N : s[n].id = i
  BY <1>2, <1>7, NewestFirst
<1> HIDE DEF s, N, left
<1>9. s \in Seq(Group) /\ Len(s) = N /\ (s = <<>> <=> N = 0)
  <2>1. s \in [1..N -> Group]
    BY <1>1, <1>8
  <2> QED
    BY <1>8, <2>1
<1>10. \A n \in 1..N : s[n].id \in r.ids /\ s[n].events = runs[s[n].id]
  <2>1. \A n \in 1..N : s[n] \in GroupsOf(r.ids)
    BY <1>2, <1>8
  <2>2. \A g \in GroupsOf(r.ids) : g.id \in r.ids /\ g.events = runs[g.id]
    BY DEF GroupsOf
  <2> QED
    BY <2>1, <2>2
<1>11. \A n \in 1..N : /\ s[n].id \in 1..r.upto /\ runs[s[n].id] # {}
                        /\ (r.before = 0 \/ s[n].id < r.before)
  BY <1>4, <1>5, <1>10
<1>12. \A n \in 1..N : s[n].id \in DOMAIN runs
  BY <1>1, <1>3, <1>11
<1>13. ASSUME NEW i \in 1..r.upto, runs[i] # {}, r.before = 0 \/ i < r.before,
              NEW n \in 1..N, i > s[n].id
       PROVE  i \in r.ids
  <2>1. i \in Below(r)
    BY <1>6, <1>13
  <2>2. s[n].id \in r.ids /\ s[n].id \in Nat
    BY <1>7, <1>10
  <2>3. i \notin left
    BY <1>4, <1>13, <2>2
  <2> QED
    BY <2>1, <2>3 DEF left
<1>14. \A n \in 1..(N - 1) :
          /\ s[n + 1].id < s[n].id
          /\ \A i \in (s[n + 1].id + 1)..(s[n].id - 1) : runs[i] = {}
  <2> TAKE n \in 1..(N - 1)
  <2>1. n \in 1..N /\ n + 1 \in 1..N /\ n \in Nat
    BY <1>8
  <2>2. s[n + 1].id \in Nat /\ s[n].id \in 1..r.upto /\ s[n + 1].id < s[n].id
    BY <1>8, <1>11, <2>1
  <2>3. ASSUME NEW i \in (s[n + 1].id + 1)..(s[n].id - 1), runs[i] # {}
        PROVE  FALSE
    <3>1. i \in 1..r.upto /\ i > s[n + 1].id /\ i < s[n].id
      BY <1>1, <2>2, <2>3
    <3>2. r.before = 0 \/ i < r.before
      BY <1>1, <1>11, <2>1, <2>2, <3>1
    <3>3. i \in r.ids
      BY <1>13, <2>1, <2>3, <3>1, <3>2
    <3>4. PICK k \in 1..N : s[k].id = i
      BY <1>8, <3>3
    <3>5. k <= n \/ k >= n + 1
      BY <1>8, <2>1
    <3>6. ASSUME k <= n  PROVE FALSE
      BY <1>8, <2>1, <2>2, <3>1, <3>4, <3>6
    <3>7. ASSUME k >= n + 1  PROVE FALSE
      BY <1>8, <2>1, <2>2, <3>1, <3>4, <3>7
    <3> QED
      BY <3>5, <3>6, <3>7
  <2> QED
    BY <2>2, <2>3
<1>15. r.before # 0 => N # 0
  <2>1. r.before # 0 => r.ids # {}
    BY <1>2 DEF Sound
  <2> QED
    BY <1>8, <2>1
<1>16. r.before # 0 => /\ s[1].id < r.before
                       /\ \A i \in (s[1].id + 1)..(r.before - 1) : runs[i] = {}
  <2> SUFFICES ASSUME r.before # 0
               PROVE  /\ s[1].id < r.before
                      /\ \A i \in (s[1].id + 1)..(r.before - 1) : runs[i] = {}
    OBVIOUS
  <2>1. 1 \in 1..N
    BY <1>8, <1>15
  <2>2. s[1].id < r.before /\ s[1].id \in 1..r.upto
    BY <1>11, <2>1
  <2>3. ASSUME NEW i \in (s[1].id + 1)..(r.before - 1), runs[i] # {}
        PROVE  FALSE
    <3>1. i \in 1..r.upto /\ i > s[1].id /\ i < r.before
      BY <1>1, <1>3, <2>2, <2>3
    <3>2. i \in r.ids
      BY <1>13, <2>1, <2>3, <3>1
    <3>3. PICK k \in 1..N : s[k].id = i
      BY <1>8, <3>2
    <3> QED
      BY <1>8, <2>1, <2>2, <3>1, <3>3
  <2> QED
    BY <2>2, <2>3
<1>17. N # 0 => (r.more <=> Visible(s[N].id) # {})
  <2> SUFFICES ASSUME N # 0  PROVE left = Visible(s[N].id)
    BY <1>4
  <2>1. N \in 1..N
    BY <1>8
  <2> DEFINE last == s[N].id
  <2>2. /\ last \in r.ids /\ last \in 1..r.upto /\ (r.before = 0 \/ last < r.before)
    BY <1>10, <1>11, <2>1
  <2>3. \A i \in r.ids : last <= i
    <3> TAKE i \in r.ids
    <3>1. PICK k \in 1..N : s[k].id = i
      BY <1>8
    <3>2. k = N \/ k < N
      BY <1>8
    <3>3. last \in Nat /\ i \in Nat
      BY <1>7, <2>2
    <3> QED
      BY <1>8, <2>1, <3>1, <3>2, <3>3
  <2>4. ASSUME NEW i \in left  PROVE i \in Visible(last)
    <3>1. i \in Below(r) /\ i < last
      BY <1>4, <1>7, <2>2 DEF left
    <3>2. i \in DOMAIN runs /\ runs[i] # {}
      BY <1>1, <1>3, <1>5, <3>1
    <3> QED
      BY <3>1, <3>2 DEF Visible
  <2>5. ASSUME NEW i \in Visible(last)  PROVE i \in left
    <3>1. i \in DOMAIN runs /\ runs[i] # {} /\ i < last
      BY <2>2 DEF Visible
    <3>2. i \in 1..r.upto /\ (r.before = 0 \/ i < r.before)
      BY <1>1, <1>3, <2>2, <3>1
    <3>3. i \in Below(r)
      BY <1>6, <3>1, <3>2
    <3>4. i \notin r.ids
      BY <1>7, <2>2, <2>3, <3>1
    <3> QED
      BY <3>3, <3>4 DEF left
  <2> QED
    BY <2>4, <2>5
<1>18. r.more => N # 0 /\ Cursor(r) = s[N].id
  <2> SUFFICES ASSUME r.more  PROVE N # 0 /\ Cursor(r) = s[N].id
    OBVIOUS
  <2>1. N # 0 /\ N \in 1..N
    BY <1>3, <1>4, <1>8
  <2>2. s[N].id \in r.ids
    BY <1>10, <2>1
  <2>3. \A i \in r.ids : s[N].id <= i
    <3> TAKE i \in r.ids
    <3>1. PICK k \in 1..N : s[k].id = i
      BY <1>8
    <3>2. k = N \/ k < N
      BY <1>8
    <3>3. s[N].id \in Nat /\ i \in Nat
      BY <1>7, <2>2
    <3> QED
      BY <1>8, <2>1, <3>1, <3>2, <3>3
  <2>4. \A i \in r.ids : (\A j \in r.ids : i <= j) => i = s[N].id
    BY <1>7, <2>2, <2>3
  <2>5. Cursor(r) = CHOOSE i \in r.ids : \A j \in r.ids : i <= j
    BY DEF Cursor
  <2> QED
    BY <2>1, <2>2, <2>3, <2>4, <2>5
<1>19. ~r.more => Cursor(r) = 0
  BY DEF Cursor
<1>20. Last(s) = s[N]
  BY <1>9 DEF Last
<1>21. \A n \in 1..N : s[n].id \in DOMAIN runs /\ s[n].events = runs[s[n].id] /\ s[n].events # {}
  BY <1>10, <1>11, <1>12
<1>22. s # <<>> => (r.more <=> Visible(Last(s).id) # {})
  BY <1>9, <1>17, <1>20
<1>23. r.more => s # <<>> /\ Cursor(r) = Last(s).id
  BY <1>9, <1>18, <1>20
<1>24. r.before # 0 => s # <<>>
  BY <1>9, <1>15
<1>25. Len(s) = N
  BY <1>9
<1> HIDE DEF r
<1> QED
  BY <1>9, <1>14, <1>16, <1>19, <1>21, <1>22, <1>23, <1>24, <1>25 DEF s, r

\* A request that is over is a request never made.
LEMMA FreeRequest ==
    ASSUME TypeOK
    PROVE  NoLoad \in Request /\ Sound(NoLoad) /\ NoLoad.stage = "free"
<1>1. 0 \in 0..MaxRun /\ 0 <= Len(runs)
  BY RunFacts
<1> QED
  BY <1>1 DEF NoLoad, Request, Sound

\* What is appended is shown below what was there.
LEMMA Joined ==
    ASSUME NEW a \in Seq(Group), NEW b \in Seq(Group)
    PROVE  /\ a \o b \in Seq(Group) /\ Len(a \o b) = Len(a) + Len(b)
           /\ Len(a) \in Nat /\ Len(b) \in Nat
           /\ \A n \in 1..Len(a) : (a \o b)[n] = a[n]
           /\ \A n \in (Len(a) + 1)..Len(a \o b) :
                 n - Len(a) \in 1..Len(b) /\ (a \o b)[n] = b[n - Len(a)]
           /\ b # <<>> => a \o b # <<>> /\ Last(a \o b) = Last(b)
<1>1. /\ a \o b \in Seq(Group) /\ Len(a \o b) = Len(a) + Len(b)
      /\ Len(a) \in Nat /\ Len(b) \in Nat
  BY ConcatProperties, LenProperties
<1>2. \A n \in 1..Len(a) : (a \o b)[n] = a[n]
  BY <1>1, ConcatProperties
<1>3. \A n \in (Len(a) + 1)..Len(a \o b) :
         n - Len(a) \in 1..Len(b) /\ (a \o b)[n] = b[n - Len(a)]
  BY <1>1, ConcatProperties
<1>4. b # <<>> => Len(b) > 0
  BY <1>1, EmptySeq
<1>5. Len(b) > 0 => (a \o b)[Len(a) + Len(b)] = b[Len(b)]
  BY <1>1, <1>3
<1> QED
  BY <1>1, <1>2, <1>3, <1>4, <1>5, EmptySeq DEF Last

LEMMA AnswerKeeps ==
    ASSUME IInv, NEW l \in Load, Answer(l)
    PROVE  IInv'
<1> TypeOK /\ Requests /\ View /\ Flags
  BY PartsOfInv
<1> DEFINE r == loads[l]
           s == FromTheTop(r.groups)
<1>1. /\ r.stage = "answered" /\ loads' = [loads EXCEPT ![l] = NoLoad]
      /\ l \in First => groups' = s
      /\ l \notin First => groups' = groups \o s
      /\ hasMore' = r.more /\ nextBeforeId' = Cursor(r)
      /\ loading' = (loading /\ l \notin First)
      /\ loadingMore' = (loadingMore /\ l \in First)
      /\ runs' = runs /\ toast' = toast
  BY DEF Answer
<1>2. /\ s \in Seq(Group)
      /\ \A n \in 1..Len(s) : /\ s[n].id \in DOMAIN runs
                              /\ s[n].events = runs[s[n].id] /\ s[n].events # {}
      /\ r.before # 0 => s # <<>>
      /\ s # <<>> => (r.more <=> Visible(Last(s).id) # {})
      /\ r.more => s # <<>> /\ Cursor(r) = Last(s).id
      /\ ~r.more => Cursor(r) = 0
  BY <1>1, AnsweredPage
<1>3. r \in Request /\ r.more \in BOOLEAN /\ (l \in First <=> r.before = 0) /\ (l \in First <=> l \notin More)
  BY <1>1, RequestFields DEF First, More, InFlight
<1>4. groups \in Seq(Group)
  BY DEF TypeOK
<1> HIDE DEF s
<1>5. groups' \in Seq(Group)
  BY <1>1, <1>2, <1>4, Joined
<1>6. \A n \in 1..Len(groups') : /\ groups'[n].id \in DOMAIN runs
                                  /\ groups'[n].events = runs[groups'[n].id]
                                  /\ groups'[n].events # {}
  <2>1. CASE l \in First
    BY <1>1, <1>2, <2>1
  <2>2. CASE l \notin First
    <3>1. /\ groups' = groups \o s /\ Len(groups) \in Nat /\ DOMAIN groups = 1..Len(groups)
          /\ Len(groups') \in Nat
      BY <1>1, <1>2, <1>4, <1>5, <2>2, LenProperties
    <3> TAKE n \in 1..Len(groups')
    <3>2. CASE n \in 1..Len(groups)
      <4>1. groups'[n] = groups[n]
        BY <1>2, <1>4, <3>1, <3>2, Joined
      <4> QED
        BY <3>1, <3>2, <4>1 DEF View, GroupsAreWhole, ShownAreCommitted
    <3>3. CASE n \in (Len(groups) + 1)..Len(groups')
      <4>1. n - Len(groups) \in 1..Len(s) /\ groups'[n] = s[n - Len(groups)]
        BY <1>2, <1>4, <3>1, <3>3, Joined
      <4> QED
        BY <1>2, <4>1
    <3> QED
      BY <3>1, <3>2, <3>3
  <2> QED
    BY <2>1, <2>2
<1>7. /\ s # <<>> => groups' # <<>> /\ Last(groups') = Last(s)
      /\ groups' # <<>> => s # <<>>
  <2>1. CASE l \in First
    BY <1>1, <2>1
  <2>2. CASE l \notin First
    <3>1. groups' = groups \o s /\ s # <<>>
      BY <1>1, <1>2, <1>3, <2>2
    <3> QED
      BY <1>2, <1>4, <3>1, Joined
  <2> QED
    BY <2>1, <2>2
<1>8. ShownAreCommitted' /\ GroupsAreWhole'
  <2>1. DOMAIN groups' = 1..Len(groups')
    BY <1>5, LenProperties
  <2> QED
    BY <1>1, <1>6, <2>1 DEF ShownAreCommitted, GroupsAreWhole
<1>9. EndIsTruthful' /\ CursorMeansMore'
  <2>1. r.more => groups' # <<>> /\ Cursor(r) = Last(groups').id
    BY <1>2, <1>7
  <2>2. groups' # <<>> => (r.more <=> Visible(Last(groups').id) # {})
    BY <1>2, <1>7
  <2>3. Cursor(r) # 0 => r.more
    BY <1>2
  <2>4. Last(groups)' = Last(groups') /\ \A b : Visible(b)' = Visible(b)
    BY <1>1 DEF Last, Visible
  <2> HIDE DEF r
  <2>5. EndIsTruthful'
    BY <1>1, <2>1, <2>2, <2>4 DEF EndIsTruthful, Last, Visible
  <2>6. CursorMeansMore'
    BY <1>1, <2>3 DEF CursorMeansMore
  <2> QED
    BY <2>5, <2>6
<1>10. nextBeforeId' \in 0..MaxRun
  <2>1. CASE r.more
    <3>1. Len(s) \in 1..Len(s) /\ Cursor(r) = s[Len(s)].id
      BY <1>2, <2>1, EmptySeq, LenProperties DEF Last
    <3>2. Cursor(r) \in DOMAIN runs
      BY <1>2, <3>1
    <3> QED
      BY <1>1, <3>2, RunFacts
  <2>2. CASE ~r.more
    BY <1>1, <1>2, <2>2, RunFacts
  <2> QED
    BY <2>1, <2>2
<1>11. Requests' /\ loads' \in [Load -> Request]
  BY <1>1, FreeRequest, OneRequest
<1>12. TypeOK'
  <2>1. loading' \in BOOLEAN /\ loadingMore' \in BOOLEAN /\ toast' \in BOOLEAN
    BY <1>1 DEF TypeOK
  <2>2. runs' \in Seq(SUBSET Change) /\ Len(runs') <= MaxRun
    BY <1>1 DEF TypeOK
  <2> QED
    BY <1>1, <1>3, <1>5, <1>10, <1>11, <2>1, <2>2, TypePrimed
<1>13. First' = First \ {l} /\ More' = More \ {l}
  BY <1>1, FreeRequest, InFlightAfter
<1>14. Flags'
  <2>1. loading' => First' # {}
    BY <1>1, <1>13 DEF Flags
  <2>2. loadingMore' <=> More' # {}
    <3>1. CASE l \in First
      BY <1>1, <1>3, <1>13, <3>1 DEF Flags
    <3>2. CASE l \notin First
      <4>1. More = {l}
        BY <1>3, <3>2 DEF Flags, OneOlder
      <4> QED
        BY <1>1, <1>13, <3>2, <4>1
    <3> QED
      BY <3>1, <3>2
  <2>3. OneOlder'
    BY <1>13 DEF Flags, OneOlder
  <2> QED
    BY <2>1, <2>2, <2>3 DEF Flags
<1>15. View'
  BY <1>8, <1>9 DEF View
<1> QED
  BY <1>11, <1>12, <1>14, <1>15, PartsOfInv, PTL

LEMMA OpenedKeeps ==
    ASSUME TypeOK, NEW l \in Load, Opened(l), runs' = runs, toast' \in BOOLEAN
    PROVE  IInv'
<1> DEFINE x == [NoLoad EXCEPT !.stage = "sent"]
<1>1. /\ loads' = [m \in Load |-> IF m = l THEN x ELSE NoLoad]
      /\ groups' = <<>> /\ hasMore' = FALSE /\ nextBeforeId' = 0
      /\ loading' = TRUE /\ loadingMore' = FALSE
  BY DEF Opened
<1>2. NoLoad \in Request /\ Sound(NoLoad) /\ NoLoad.stage = "free" /\ NoLoad.before = 0
  BY FreeRequest DEF NoLoad
<1>3. x \in Request /\ x.stage = "sent" /\ x.before = 0 /\ x.upto = 0 /\ x.groups = {}
  BY <1>2 DEF Request, NoLoad
<1> HIDE DEF x
<1>4. Sound(x)
  BY <1>3, RunFacts DEF Sound
<1>5. \A m \in Load : loads'[m] \in {x, NoLoad} /\ (loads'[m] = x <=> m = l)
  BY <1>1, <1>2, <1>3
<1>6. TypeOK'
  <2>1. loads' \in [Load -> Request]
    BY <1>1, <1>2, <1>3
  <2>2. runs' \in Seq(SUBSET Change) /\ Len(runs') <= MaxRun /\ 0 \in 0..MaxRun
    BY RunFacts DEF TypeOK
  <2> QED
    BY <1>1, <2>1, <2>2, TypePrimed, EmptySeq
<1>7. Requests'
  <2>1. PagesAreSlices'
    BY <1>2, <1>3, <1>5 DEF PagesAreSlices
  <2>2. \A m \in Load : Sound(loads'[m])
    BY <1>2, <1>4, <1>5
  <2>3. RequestsAreSound'
    BY <2>2 DEF RequestsAreSound, Sound, Visible, GroupsOf
  <2> QED
    BY <2>1, <2>3 DEF Requests
<1>8. View'
  BY <1>1, EmptySeq DEF View, GroupsAreWhole, EndIsTruthful, ShownAreCommitted, CursorMeansMore
<1>9. First' = {l} /\ More' = {}
  BY <1>2, <1>3, <1>5 DEF First, More, InFlight
<1>10. Flags'
  BY <1>1, <1>9 DEF Flags, OneOlder
<1> QED
  BY <1>6, <1>7, <1>8, <1>10, PartsOfInv, PTL

LEMMA InitSatisfiesInv == Init => IInv
<1> SUFFICES ASSUME Init  PROVE IInv
  OBVIOUS
<1>1. PICK old \in 0..MaxOld : runs = [i \in 1..old |-> {}]
  BY DEF Init
<1>2. PICK l \in Load : loads = [m \in Load |-> IF m = l THEN [NoLoad EXCEPT !.stage = "sent"]
                                                       ELSE NoLoad]
  BY DEF Init
<1>3. /\ groups = <<>> /\ hasMore = FALSE /\ nextBeforeId = 0
      /\ loading = TRUE /\ loadingMore = FALSE /\ toast \in BOOLEAN
  BY DEF Init
<1> DEFINE x == [NoLoad EXCEPT !.stage = "sent"]
<1>4. old \in Nat /\ old <= MaxRun /\ 0 \in 0..MaxRun
  BY ChangeFeedAssumption
<1>5. runs \in Seq(SUBSET Change) /\ Len(runs) = old
  BY <1>1, <1>4
<1>6. NoLoad \in Request
  BY <1>4 DEF NoLoad, Request
<1>7. NoLoad.stage = "free" /\ NoLoad.before = 0 /\ NoLoad.upto = 0
  BY DEF NoLoad
<1>8. x \in Request /\ x.stage = "sent" /\ x.before = 0 /\ x.upto = 0 /\ x.groups = {}
  BY <1>6 DEF Request, NoLoad
<1>9. loads = [m \in Load |-> IF m = l THEN x ELSE NoLoad]
  BY <1>2
<1> HIDE DEF x
<1>10. Sound(x) /\ Sound(NoLoad)
  BY <1>4, <1>5, <1>7, <1>8 DEF Sound
<1>11. \A m \in Load : loads[m] \in {x, NoLoad} /\ (loads[m] = x <=> m = l)
  BY <1>7, <1>8, <1>9
<1>12. TypeOK
  <2>1. loads \in [Load -> Request]
    BY <1>6, <1>8, <1>9
  <2> QED
    BY <1>3, <1>4, <1>5, <2>1, EmptySeq DEF TypeOK
<1>13. Requests
  BY <1>7, <1>8, <1>10, <1>11 DEF Requests, PagesAreSlices, RequestsAreSound
<1>14. View
  BY <1>3, EmptySeq DEF View, GroupsAreWhole, EndIsTruthful, ShownAreCommitted, CursorMeansMore
<1>15. First = {l} /\ More = {}
  BY <1>7, <1>8, <1>11 DEF First, More, InFlight
<1>16. Flags
  BY <1>3, <1>15 DEF Flags, OneOlder
<1> QED
  BY <1>12, <1>13, <1>14, <1>16, PartsOfInv

LEMMA StutterKeeps ==
    ASSUME IInv, UNCHANGED vars
    PROVE  IInv'
<1> TypeOK /\ Requests /\ View /\ Flags
  BY PartsOfInv
<1>1. UNCHANGED <<runs, loads, groups, hasMore, nextBeforeId, loading, loadingMore, toast>>
  BY DEF vars, page
<1>2. TypeOK'
  BY <1>1, TypePrimed DEF TypeOK
<1>3. Requests'
  BY <1>1 DEF Requests, PagesAreSlices, RequestsAreSound, Sound, Visible, GroupsOf
<1>4. View'
  BY <1>1, ViewUnchanged
<1>5. Flags'
  BY <1>1 DEF Flags, OneOlder, First, More, InFlight
<1> QED
  BY <1>2, <1>3, <1>4, <1>5, PartsOfInv, PTL

LEMMA NextKeepsInv == IInv /\ [Next]_vars => IInv'
<1> SUFFICES ASSUME IInv, [Next]_vars  PROVE IInv'
  OBVIOUS
<1> TypeOK
  BY PartsOfInv
<1>1. CASE Commit
  BY <1>1, CommitKeeps
<1>2. ASSUME NEW l \in Load, ReadRuns(l)  PROVE IInv'
  BY <1>2, ReadRunsKeeps
<1>3. ASSUME NEW l \in Load, ReadEvents(l)  PROVE IInv'
  BY <1>3, ReadEventsKeeps
<1>4. ASSUME NEW l \in Load, Refresh(l)  PROVE IInv'
  <2>1. /\ LoadFirst(l) /\ toast' \in BOOLEAN
        /\ UNCHANGED <<runs, groups, hasMore, nextBeforeId, loadingMore>>
    BY <1>4 DEF Refresh, TypeOK
  <2> QED
    BY <2>1, LoadFirstKeeps
<1>5. ASSUME NEW l \in Load, OtherToast(l) \/ ToastEnds(l)  PROVE IInv'
  <2>1. /\ LoadFirst(l) /\ toast' \in BOOLEAN
        /\ UNCHANGED <<runs, groups, hasMore, nextBeforeId, loadingMore>>
    BY <1>5 DEF OtherToast, ToastEnds
  <2> QED
    BY <2>1, LoadFirstKeeps
<1>6. ASSUME NEW l \in Load, LoadOlder(l)  PROVE IInv'
  BY <1>6, LoadOlderKeeps
<1>7. ASSUME NEW l \in Load, Answer(l)  PROVE IInv'
  BY <1>7, AnswerKeeps
<1>8. ASSUME NEW l \in Load, Fails(l)  PROVE IInv'
  BY <1>8, FailsKeeps
<1>9. ASSUME NEW l \in Load, Reopen(l)  PROVE IInv'
  <2>1. Opened(l) /\ runs' = runs /\ toast' \in BOOLEAN
    BY <1>9 DEF Reopen, TypeOK
  <2> QED
    BY <2>1, OpenedKeeps
<1>10. CASE UNCHANGED vars
  BY <1>10, StutterKeeps
<1> QED
  BY <1>1, <1>2, <1>3, <1>4, <1>5, <1>6, <1>7, <1>8, <1>9, <1>10 DEF Next

LEMMA InvHolds == Spec => []IInv
  BY InitSatisfiesInv, NextKeepsInv, PTL DEF Spec

------------------------------------------------------------------------------
(* The theorems *)

(***************************************************************************)
(* Every variable keeps the type that the code gives it, for any bounds.   *)
(***************************************************************************)
THEOREM TypeCorrect == Spec => []TypeOK
<1>1. IInv => TypeOK
  BY DEF IInv
<1> QED
  BY <1>1, InvHolds, PTL

(***************************************************************************)
(* ListChangeEvents never skips or repeats a run at a boundary of pages,   *)
(* whatever is committed between its queries and while it is in flight.    *)
(***************************************************************************)
THEOREM PagingIsExact == Spec => []PagesAreSlices
<1>1. IInv => PagesAreSlices
  BY DEF IInv
<1> QED
  BY <1>1, InvHolds, PTL

(***************************************************************************)
(* The two queries of a page outside a transaction show no half of a run.  *)
(***************************************************************************)
THEOREM ShownWhole == Spec => []GroupsAreWhole
<1>1. IInv => GroupsAreWhole
  BY DEF IInv
<1> QED
  BY <1>1, InvHolds, PTL

(***************************************************************************)
(* The button for older records is there exactly when there are any, and   *)
(* continues below the last run shown, however the answers overtake each   *)
(* other.                                                                  *)
(***************************************************************************)
THEOREM ButtonIsTruthful == Spec => []EndIsTruthful
<1>1. IInv => EndIsTruthful
  BY DEF IInv
<1> QED
  BY <1>1, InvHolds, PTL

(***************************************************************************)
(* No flag of the page outlives the request that resets it, and at most    *)
(* one request for older runs is in flight.                                *)
(***************************************************************************)
THEOREM FlagsAreReset == Spec => []FlagsHaveRequests
<1>1. IInv => FlagsHaveRequests
  BY DEF IInv
<1> QED
  BY <1>1, InvHolds, PTL

------------------------------------------------------------------------------
(* How the order of the timeline can break *)

\* Two contiguous stretches make one if nothing lies between them.
Contiguous(s) ==
    \A n \in 1..(Len(s) - 1) :
        /\ s[n + 1].id < s[n].id
        /\ \A i \in (s[n + 1].id + 1)..(s[n].id - 1) : runs[i] = {}

LEMMA JoinedContiguous ==
    ASSUME NEW a \in Seq(Group), NEW b \in Seq(Group), a # <<>>, b # <<>>,
           Contiguous(a), Contiguous(b), b[1].id < Last(a).id,
           \A i \in (b[1].id + 1)..(Last(a).id - 1) : runs[i] = {}
    PROVE  Contiguous(a \o b)
<1>1. /\ Len(a) \in Nat /\ Len(b) \in Nat /\ Len(a \o b) = Len(a) + Len(b)
      /\ \A n \in 1..Len(a) : (a \o b)[n] = a[n]
      /\ \A n \in (Len(a) + 1)..Len(a \o b) :
            n - Len(a) \in 1..Len(b) /\ (a \o b)[n] = b[n - Len(a)]
  BY Joined
<1>2. Len(a) # 0 /\ Len(b) # 0
  BY <1>1, EmptySeq
<1> DEFINE c == a \o b
<1> HIDE DEF c
<1>3. ASSUME NEW n \in 1..(Len(c) - 1)
      PROVE  /\ c[n + 1].id < c[n].id
             /\ \A i \in (c[n + 1].id + 1)..(c[n].id - 1) : runs[i] = {}
  <2>1. n \in Nat /\ n >= 1 /\ n + 1 <= Len(a) + Len(b)
    BY <1>1 DEF c
  <2>2. CASE n < Len(a)
    <3>1. n \in 1..(Len(a) - 1) /\ c[n] = a[n] /\ c[n + 1] = a[n + 1]
      BY <1>1, <2>1, <2>2 DEF c
    <3> QED
      BY <3>1 DEF Contiguous
  <2>3. CASE n = Len(a)
    <3>1. c[n] = Last(a) /\ c[n + 1] = b[1]
      BY <1>1, <1>2, <2>1, <2>3 DEF c, Last
    <3> QED
      BY <3>1
  <2>4. CASE n > Len(a)
    <3> DEFINE k == n - Len(a)
    <3>1. k \in 1..(Len(b) - 1) /\ c[n] = b[k] /\ c[n + 1] = b[k + 1]
      BY <1>1, <2>1, <2>4 DEF c
    <3> HIDE DEF k
    <3> QED
      BY <3>1 DEF Contiguous
  <2> QED
    BY <1>1, <2>1, <2>2, <2>3, <2>4
<1> QED
  BY <1>3 DEF Contiguous, c

\* The answer to the first page, or to an older page asked for below the last run shown.
LEMMA AnswerInOrder ==
    ASSUME IInv, TimelineIsContiguous, NEW l \in Load, Answer(l),
           l \in First \/ loads[l].before = nextBeforeId
    PROVE  TimelineIsContiguous'
<1> TypeOK /\ Requests /\ View
  BY PartsOfInv
<1> DEFINE r == loads[l]
           s == FromTheTop(r.groups)
<1>1. /\ r.stage = "answered" /\ runs' = runs
      /\ l \in First => groups' = s
      /\ l \notin First => groups' = groups \o s
      /\ r.before = 0 <=> l \in First
  BY DEF Answer, First, InFlight
<1>2. /\ s \in Seq(Group) /\ Contiguous(s)
      /\ r.before # 0 => /\ s # <<>> /\ s[1].id < r.before
                         /\ \A i \in (s[1].id + 1)..(r.before - 1) : runs[i] = {}
  BY <1>1, AnsweredPage DEF Contiguous
<1> HIDE DEF s
<1>3. Contiguous(groups) /\ groups \in Seq(Group)
  BY DEF TimelineIsContiguous, Contiguous, TypeOK
<1>4. Contiguous(groups')
  <2>1. CASE l \in First
    BY <1>1, <1>2, <2>1
  <2>2. CASE l \notin First
    <3>1. r.before = nextBeforeId /\ r.before # 0 /\ groups' = groups \o s
      BY <1>1, <2>2
    <3>2. groups # <<>> /\ r.before = Last(groups).id
      BY <3>1 DEF View, EndIsTruthful, CursorMeansMore
    <3> HIDE DEF r
    <3> QED
      BY <1>2, <1>3, <3>1, <3>2, JoinedContiguous
  <2> QED
    BY <2>1, <2>2
<1> QED
  BY <1>1, <1>4 DEF TimelineIsContiguous, Contiguous

LEMMA CommitInOrder ==
    ASSUME IInv, TimelineIsContiguous, Commit
    PROVE  TimelineIsContiguous'
<1> TypeOK /\ View
  BY PartsOfInv
<1>1. groups' = groups /\ \A i \in 1..Len(runs) : runs'[i] = runs[i]
  BY CommitAppends DEF Commit, page
<1>2. /\ Len(runs) \in Nat /\ Len(groups) \in Nat
      /\ \A n \in 1..Len(groups) : groups[n].id \in 1..Len(runs)
  BY RunFacts DEF View, ShownAreCommitted, TypeOK
<1>3. ASSUME NEW n \in 1..(Len(groups) - 1)
      PROVE  /\ groups[n + 1].id < groups[n].id
             /\ \A i \in (groups[n + 1].id + 1)..(groups[n].id - 1) : runs'[i] = {}
  <2>1. n \in 1..Len(groups) /\ n + 1 \in 1..Len(groups)
    BY <1>2
  <2>2. groups[n].id \in 1..Len(runs) /\ groups[n + 1].id \in 1..Len(runs)
    BY <1>2, <2>1
  <2>3. \A i \in (groups[n + 1].id + 1)..(groups[n].id - 1) : i \in 1..Len(runs)
    BY <1>2, <2>2
  <2> QED
    BY <1>1, <2>3 DEF TimelineIsContiguous
<1> QED
  BY <1>1, <1>3 DEF TimelineIsContiguous

(***************************************************************************)
(* The order of the timeline breaks in one way only, the one that the run  *)
(* TimelineGap shows: an older page answered after a reload has replaced   *)
(* what it was asked to continue.  Neither a commit nor a failure, a       *)
(* toast, a reload by itself or a page opened again can do it.             *)
(***************************************************************************)
THEOREM OrderBreaksOneWay == Spec => GapsNeedOvertaking
<1> DEFINE Overtaken == \E l \in More : Answer(l) /\ loads[l].before # nextBeforeId
<1>1. ASSUME IInv, [Next]_vars, TimelineIsContiguous, ~Overtaken
      PROVE  TimelineIsContiguous'
  <2>1. CASE Commit
    BY <1>1, <2>1, CommitInOrder
  <2>2. ASSUME NEW l \in Load, Answer(l)  PROVE TimelineIsContiguous'
    <3>1. l \in More \/ l \in First
      BY <2>2 DEF Answer, More, InFlight
    <3> QED
      BY <1>1, <2>2, <3>1, AnswerInOrder
  <2>3. ASSUME NEW l \in Load, Reopen(l)  PROVE TimelineIsContiguous'
    <3>1. groups' = <<>>
      BY <2>3 DEF Reopen, Opened
    <3> QED
      BY <3>1 DEF TimelineIsContiguous
  <2>4. CASE UNCHANGED <<runs, groups>>
    BY <1>1, <2>4 DEF TimelineIsContiguous
  <2>5. ASSUME NEW l \in Load,
               \/ ReadRuns(l) \/ ReadEvents(l) \/ Refresh(l) \/ LoadOlder(l)
               \/ Fails(l) \/ OtherToast(l) \/ ToastEnds(l)
        PROVE  UNCHANGED <<runs, groups>>
    BY <2>5 DEF ReadRuns, ReadEvents, Refresh, LoadOlder, Fails, OtherToast, ToastEnds, page
  <2>6. CASE UNCHANGED vars
    BY <2>4, <2>6 DEF vars, page
  <2> QED
    BY <1>1, <2>1, <2>2, <2>3, <2>4, <2>5, <2>6 DEF Next
<1>2. IInv /\ [Next]_vars => [TimelineIsContiguous /\ ~TimelineIsContiguous' => Overtaken]_vars
  BY <1>1
<1> QED
  BY <1>2, InvHolds, PTL DEF Spec, GapsNeedOvertaking
==============================================================================
