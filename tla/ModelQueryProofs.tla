-------------------------- MODULE ModelQueryProofs ---------------------------
(***************************************************************************)
(* Theorems about the lists of models, for every table and every search:   *)
(* any number of providers, keys and models, any switches and any caches.  *)
(***************************************************************************)
EXTENDS MCConsole, WellFoundedInduction, FiniteSetTheorems, FunctionTheorems,
        SequenceTheorems, TLAPS

------------------------------------------------------------------------------
(* Loops *)

(***************************************************************************)
(* Induction for a set of numbers, from the fact that < is well founded on *)
(* Nat: a theorem with an operator for its parameter cannot be cited.      *)
(***************************************************************************)
LEMMA InductiveIsNat ==
    ASSUME NEW S \in SUBSET Nat, 0 \in S, \A n \in S : n + 1 \in S
    PROVE  S = Nat
<1>1. SUFFICES ASSUME Nat \ S # {} PROVE FALSE
  OBVIOUS
<1>2. PICK n \in Nat \ S : \A m \in Nat \ S : ~(<<m, n>> \in OpToRel(<, Nat))
  BY <1>1, NatLessThanWellFounded, WFMin
<1>3. \A m \in Nat \ S : ~(m < n)
  BY <1>2 DEF OpToRel
<1>4. n - 1 \in Nat /\ n - 1 < n /\ n - 1 + 1 = n
  <2>1. n \in Nat /\ n # 0
    BY <1>2
  <2> QED
    BY <2>1
<1> QED
  BY <1>2, <1>3, <1>4

\* What holds before a loop and is kept by every turn holds after n turns.
LEMMA LoopInvariant ==
    ASSUME NEW n \in Nat, NEW f, NEW A, f[0] \in A[0],
           \A i \in 1..n : f[i - 1] \in A[i - 1] => f[i] \in A[i]
    PROVE  \A i \in 0..n : f[i] \in A[i]
<1> DEFINE S == {i \in Nat : i <= n => f[i] \in A[i]}
<1>1. 0 \in S
  OBVIOUS
<1>2. ASSUME NEW i \in S PROVE i + 1 \in S
  <2>1. CASE i + 1 <= n
    <3>1. i + 1 \in 1..n /\ i + 1 - 1 = i /\ i \in Nat /\ i <= n
      BY <2>1
    <3>2. f[i + 1 - 1] \in A[i + 1 - 1]
      BY <3>1
    <3> QED
      BY <3>1, <3>2
  <2> QED
    BY <2>1
<1> HIDE DEF S
<1>3. S = Nat
  BY <1>1, <1>2, InductiveIsNat DEF S
<1> QED
  BY <1>3 DEF S

(***************************************************************************)
(* The bodies of the loops of ListByKey and of ListMerged under one name:  *)
(* what follows is about all of them.                                      *)
(***************************************************************************)
Turn(loop, acc, x) ==
    CASE loop = "rows" -> Filed(acc, x)
      [] loop = "keys" -> acc \o x.models
      [] loop = "seen" -> Kept(acc, x)
      [] loop = "models" -> Taken(acc, x)

\* What FoldLeft defines: the state after the turns of a set of positions.
Iterates(loop, base, s, n, it) ==
    it = [S \in SUBSET (1..n) |->
            IF S = {} THEN base ELSE Turn(loop, it[S \ {Max(S)}], s[Max(S)])]

LEMMA LastPosition ==
    \A k \in Nat : \A S \in SUBSET (1..k) : k \in S => Max(S) = k
<1> SUFFICES ASSUME NEW k \in Nat, NEW S \in SUBSET (1..k), k \in S
             PROVE  Max(S) = k
  OBVIOUS
<1>1. \A y \in S : k >= y
  OBVIOUS
<1>2. \A x \in S : x >= k => x = k
  OBVIOUS
<1> QED
  BY <1>1, <1>2 DEF Max

\* The recursion has a solution: a partial one is extended by one position.
LEMMA IteratesExist ==
    ASSUME NEW loop, NEW base, NEW s, NEW n \in Nat
    PROVE  \E it : Iterates(loop, base, s, n, it)
<1>1. ASSUME NEW k \in Nat, NEW it, Iterates(loop, base, s, k, it)
      PROVE  \E jt : Iterates(loop, base, s, k + 1, jt)
  <2> DEFINE jt == [S \in SUBSET (1..(k + 1)) |->
                      IF k + 1 \in S THEN Turn(loop, it[S \ {k + 1}], s[k + 1])
                      ELSE it[S]]
  <2>1. \A S \in SUBSET (1..(k + 1)) : k + 1 \notin S => S \in SUBSET (1..k)
    OBVIOUS
  <2>2. \A S \in SUBSET (1..(k + 1)) : S \ {k + 1} \in SUBSET (1..k)
    OBVIOUS
  <2>3. ASSUME NEW S \in SUBSET (1..(k + 1))
        PROVE  jt[S] = IF S = {} THEN base
                       ELSE Turn(loop, jt[S \ {Max(S)}], s[Max(S)])
    <3>1. CASE k + 1 \in S
      <4>1. k + 1 \in Nat /\ Max(S) = k + 1
        BY <3>1, LastPosition
      <4>2. jt[S] = Turn(loop, it[S \ {k + 1}], s[k + 1])
        BY <3>1
      <4>3. S \ {k + 1} \in SUBSET (1..(k + 1)) /\ k + 1 \notin S \ {k + 1}
        OBVIOUS
      <4>4. jt[S \ {k + 1}] = it[S \ {k + 1}]
        BY <4>3
      <4> HIDE DEF jt
      <4> QED
        BY <3>1, <4>1, <4>2, <4>4
    <3>2. CASE k + 1 \notin S
      <4>1. S \in SUBSET (1..k) /\ S \ {Max(S)} \in SUBSET (1..k)
        BY <2>1, <3>2
      <4>2. it[S] = IF S = {} THEN base
                    ELSE Turn(loop, it[S \ {Max(S)}], s[Max(S)])
        BY <1>1, <4>1 DEF Iterates
      <4> QED
        BY <3>2, <4>1, <4>2
    <3> QED
      BY <3>1, <3>2
  <2> HIDE DEF jt
  <2>4. Iterates(loop, base, s, k + 1, jt)
    BY <2>3 DEF jt, Iterates
  <2> QED
    BY <2>4
<1> DEFINE T == {k \in Nat : \E it : Iterates(loop, base, s, k, it)}
<1>2. 0 \in T
  <2> DEFINE it == [S \in SUBSET (1..0) |-> base]
  <2>1. \A S \in SUBSET (1..0) : S = {}
    OBVIOUS
  <2>2. Iterates(loop, base, s, 0, it)
    BY <2>1 DEF Iterates
  <2> QED
    BY <2>2
<1>3. ASSUME NEW k \in T PROVE k + 1 \in T
  BY <1>1
<1> HIDE DEF T
<1>4. T = Nat
  BY <1>2, <1>3, InductiveIsNat DEF T
<1> QED
  BY <1>4 DEF T

\* The states of a loop, turn by turn.
States(loop, base, s, n, f) ==
    f[0] = base /\ \A i \in 1..n : f[i] = Turn(loop, f[i - 1], s[i])

LEMMA IteratesAreStates ==
    ASSUME NEW loop, NEW base, NEW s, NEW n \in Nat, NEW it,
           Iterates(loop, base, s, n, it)
    PROVE  \E f : f[n] = it[1..n] /\ States(loop, base, s, n, f)
<1> DEFINE f == [i \in 0..n |-> it[1..i]]
<1>1. f[0] = base
  <2>1. 1..0 = {} /\ {} \in SUBSET (1..n)
    OBVIOUS
  <2> QED
    BY <2>1 DEF Iterates
<1>2. ASSUME NEW i \in 1..n PROVE f[i] = Turn(loop, f[i - 1], s[i])
  <2>1. i \in Nat /\ i - 1 \in 0..n /\ i \in 0..n
    OBVIOUS
  <2>2. 1..i \in SUBSET (1..n) /\ 1..i # {} /\ i \in 1..i
    OBVIOUS
  <2>3. (1..i) \ {i} = 1..(i - 1)
    OBVIOUS
  <2>4. Max(1..i) = i
    BY <2>1, <2>2, LastPosition
  <2>5. it[1..i] = Turn(loop, it[(1..i) \ {i}], s[i])
    BY <2>2, <2>4 DEF Iterates
  <2> QED
    BY <2>1, <2>3, <2>5
<1>3. f[n] = it[1..n]
  OBVIOUS
<1> HIDE DEF f
<1>4. States(loop, base, s, n, f)
  BY <1>1, <1>2 DEF States
<1> QED
  BY <1>3, <1>4

LEMMA RowsLoop ==
    ASSUME NEW base, NEW s, NEW n \in Nat, DOMAIN s = 1..n
    PROVE  \E f : FoldLeft(Filed, base, s) = f[n] /\ States("rows", base, s, n, f)
<1> DEFINE Is(it) == it = [S \in SUBSET (1..n) |->
                             IF S = {} THEN base
                             ELSE Filed(it[S \ {Max(S)}], s[Max(S)])]
<1>1. \A acc, x : Turn("rows", acc, x) = Filed(acc, x)
  BY DEF Turn
<1>2. \A it : Iterates("rows", base, s, n, it) <=> Is(it)
  BY <1>1 DEF Iterates
<1>3. \E it : Is(it)
  BY <1>2, IteratesExist
<1> DEFINE it == CHOOSE it : Is(it)
<1>4. Is(it)
  BY <1>3
<1>5. FoldLeft(Filed, base, s) = it[1..n]
  BY DEF FoldLeft, MapThenFoldSet
<1> HIDE DEF it, Is
<1> QED
  BY <1>2, <1>4, <1>5, IteratesAreStates

LEMMA KeysLoop ==
    ASSUME NEW s, NEW n \in Nat, DOMAIN s = 1..n
    PROVE  \E f : ModelsOf(s) = f[n] /\ States("keys", <<>>, s, n, f)
<1> DEFINE Is(it) == it = [S \in SUBSET (1..n) |->
                             IF S = {} THEN <<>>
                             ELSE it[S \ {Max(S)}] \o s[Max(S)].models]
<1>1. \A acc, x : Turn("keys", acc, x) = acc \o x.models
  BY DEF Turn
<1>2. \A it : Iterates("keys", <<>>, s, n, it) <=> Is(it)
  BY <1>1 DEF Iterates
<1>3. \E it : Is(it)
  BY <1>2, IteratesExist
<1> DEFINE it == CHOOSE it : Is(it)
<1>4. Is(it)
  BY <1>3
<1>5. ModelsOf(s) = it[1..n]
  BY DEF ModelsOf, FoldLeft, MapThenFoldSet
<1> HIDE DEF it, Is
<1> QED
  BY <1>2, <1>4, <1>5, IteratesAreStates

LEMMA SeenLoop ==
    ASSUME NEW base, NEW s, NEW n \in Nat, DOMAIN s = 1..n
    PROVE  \E f : FoldLeft(Kept, base, s) = f[n] /\ States("seen", base, s, n, f)
<1> DEFINE Is(it) == it = [S \in SUBSET (1..n) |->
                             IF S = {} THEN base
                             ELSE Kept(it[S \ {Max(S)}], s[Max(S)])]
<1>1. \A acc, x : Turn("seen", acc, x) = Kept(acc, x)
  BY DEF Turn
<1>2. \A it : Iterates("seen", base, s, n, it) <=> Is(it)
  BY <1>1 DEF Iterates
<1>3. \E it : Is(it)
  BY <1>2, IteratesExist
<1> DEFINE it == CHOOSE it : Is(it)
<1>4. Is(it)
  BY <1>3
<1>5. FoldLeft(Kept, base, s) = it[1..n]
  BY DEF FoldLeft, MapThenFoldSet
<1> HIDE DEF it, Is
<1> QED
  BY <1>2, <1>4, <1>5, IteratesAreStates

LEMMA ModelsLoop ==
    ASSUME NEW base, NEW s, NEW n \in Nat, DOMAIN s = 1..n
    PROVE  \E f : FoldLeft(Taken, base, s) = f[n] /\ States("models", base, s, n, f)
<1> DEFINE Is(it) == it = [S \in SUBSET (1..n) |->
                             IF S = {} THEN base
                             ELSE Taken(it[S \ {Max(S)}], s[Max(S)])]
<1>1. \A acc, x : Turn("models", acc, x) = Taken(acc, x)
  BY DEF Turn
<1>2. \A it : Iterates("models", base, s, n, it) <=> Is(it)
  BY <1>1 DEF Iterates
<1>3. \E it : Is(it)
  BY <1>2, IteratesExist
<1> DEFINE it == CHOOSE it : Is(it)
<1>4. Is(it)
  BY <1>3
<1>5. FoldLeft(Taken, base, s) = it[1..n]
  BY DEF FoldLeft, MapThenFoldSet
<1> HIDE DEF it, Is
<1> QED
  BY <1>2, <1>4, <1>5, IteratesAreStates

------------------------------------------------------------------------------
(* order by *)

Triples == Nat \X Nat \X Nat

LEMMA RowsAreOrdered ==
    /\ \A r \in Triples : ~Precedes(r, r)
    /\ \A r, s \in Triples : Precedes(r, s) \/ Precedes(s, r) \/ r = s
    /\ \A r, s, q \in Triples : Precedes(r, s) /\ Precedes(s, q) => Precedes(r, q)
BY DEF Triples, Precedes

(***************************************************************************)
(* The number of rows before a row is its place: a finite set of rows has  *)
(* a row for every place, and InOrder is its sequence.                     *)
(***************************************************************************)
Place(S) == [r \in S |-> Cardinality(RowsBefore(S, r)) + 1]

LEMMA PlacesAreOrdered ==
    ASSUME NEW S \in SUBSET Triples, IsFiniteSet(S)
    PROVE  /\ Place(S) \in Bijection(S, 1..Cardinality(S))
           /\ \A r, s \in S : Precedes(r, s) => Place(S)[r] < Place(S)[s]
<1> DEFINE N == Cardinality(S)
<1>1. N \in Nat
  BY FS_CardinalityType
<1>2. ASSUME NEW r \in S
      PROVE  /\ IsFiniteSet(RowsBefore(S, r)) /\ Cardinality(RowsBefore(S, r)) \in Nat
             /\ Cardinality(RowsBefore(S, r)) < N
  <2>1. RowsBefore(S, r) \in SUBSET S /\ r \notin RowsBefore(S, r)
    BY RowsAreOrdered DEF RowsBefore
  <2>2. \A T \in SUBSET S : /\ IsFiniteSet(T) /\ Cardinality(T) <= Cardinality(S)
                            /\ Cardinality(S) = Cardinality(T) => S = T
    BY FS_Subset
  <2>3. IsFiniteSet(RowsBefore(S, r)) /\ RowsBefore(S, r) # S
    BY <2>1, <2>2
  <2>4. Cardinality(RowsBefore(S, r)) \in Nat
    BY <2>3, FS_CardinalityType
  <2> QED
    BY <1>1, <2>1, <2>2, <2>3, <2>4
<1>3. ASSUME NEW r \in S, NEW s \in S, Precedes(r, s)
      PROVE  Cardinality(RowsBefore(S, r)) < Cardinality(RowsBefore(S, s))
  <2>1. /\ RowsBefore(S, r) \in SUBSET RowsBefore(S, s)
        /\ r \in RowsBefore(S, s) /\ r \notin RowsBefore(S, r)
    BY <1>3, RowsAreOrdered DEF RowsBefore
  <2>2. \A T \in SUBSET RowsBefore(S, s) :
           /\ Cardinality(T) <= Cardinality(RowsBefore(S, s))
           /\ Cardinality(RowsBefore(S, s)) = Cardinality(T) => RowsBefore(S, s) = T
    BY <1>2, FS_Subset
  <2> QED
    BY <1>2, <2>1, <2>2
<1>4. Place(S) \in [S -> 1..N]
  BY <1>1, <1>2 DEF Place
<1>5. \A r, s \in S : Precedes(r, s) => Place(S)[r] < Place(S)[s]
  BY <1>2, <1>3 DEF Place
<1>6. Place(S) \in Injection(S, 1..N)
  <2>1. ASSUME NEW r \in S, NEW s \in S, Place(S)[r] = Place(S)[s] PROVE r = s
    <3>1. Place(S)[r] \in 1..N /\ Place(S)[s] \in 1..N
      BY <1>4
    <3>2. ~Precedes(r, s) /\ ~Precedes(s, r)
      BY <1>1, <1>5, <2>1, <3>1
    <3> QED
      BY <3>2, RowsAreOrdered
  <2> QED
    BY <1>4, <2>1 DEF Injection, IsInjective
<1>7. IsFiniteSet(1..N) /\ Cardinality(1..N) = N
  BY <1>1, FS_Interval
<1>8. Place(S) \in Surjection(S, 1..N)
  BY <1>6, <1>7, FS_Injection
<1> QED
  BY <1>5, <1>6, <1>8 DEF Bijection

\* The sequence has every row once, in the order of the query.
Ordered(S, q) ==
    /\ q \in [1..Cardinality(S) -> S]
    /\ \A r \in S : \E i \in 1..Cardinality(S) : q[i] = r
    /\ \A i, j \in 1..Cardinality(S) : i < j => Precedes(q[i], q[j])

LEMMA InOrderIsOrdered ==
    ASSUME NEW S \in SUBSET Triples, IsFiniteSet(S)
    PROVE  Ordered(S, InOrder(S))
<1> DEFINE N == Cardinality(S)  f == Place(S)  q == InOrder(S)
<1>1. N \in Nat /\ \A r \in S : Cardinality(RowsBefore(S, r)) + 1 = f[r]
  BY FS_CardinalityType DEF Place
<1>2. /\ f \in [S -> 1..N] /\ \A r, s \in S : f[r] = f[s] => r = s
      /\ \A i \in 1..N : \E r \in S : f[r] = i
      /\ \A r, s \in S : Precedes(r, s) => f[r] < f[s]
  BY PlacesAreOrdered DEF Bijection, Injection, Surjection, IsInjective
<1>3. \A r \in S : Cardinality(RowsBefore(S, r)) \in Nat
  <2> TAKE r \in S
  <2>1. RowsBefore(S, r) \in SUBSET S
    BY DEF RowsBefore
  <2> QED
    BY <2>1, FS_Subset, FS_CardinalityType
<1> HIDE DEF f
<1>4. ASSUME NEW i \in 1..N PROVE q[i] \in S /\ f[q[i]] = i
  <2>1. q[i] = CHOOSE r \in S : Cardinality(RowsBefore(S, r)) = i - 1
    BY DEF InOrder
  <2>2. \E r \in S : Cardinality(RowsBefore(S, r)) = i - 1
    BY <1>1, <1>2, <1>3
  <2>3. q[i] \in S /\ Cardinality(RowsBefore(S, q[i])) = i - 1
    BY <2>1, <2>2
  <2> HIDE DEF q
  <2>4. i - 1 + 1 = i /\ Cardinality(RowsBefore(S, q[i])) + 1 = f[q[i]]
    BY <1>1, <2>3
  <2> QED
    BY <2>3, <2>4
<1>5. q \in [1..N -> S]
  BY <1>4 DEF InOrder
<1> HIDE DEF q
<1>6. \A r \in S : \E i \in 1..N : q[i] = r
  <2> TAKE r \in S
  <2>1. f[r] \in 1..N
    BY <1>2
  <2> QED
    BY <1>2, <1>4, <2>1
<1>7. \A i, j \in 1..N : i < j => Precedes(q[i], q[j])
  <2> SUFFICES ASSUME NEW i \in 1..N, NEW j \in 1..N, i < j
               PROVE  Precedes(q[i], q[j])
    OBVIOUS
  <2>1. q[i] \in S /\ q[j] \in S /\ f[q[i]] = i /\ f[q[j]] = j
    BY <1>4
  <2>2. ~Precedes(q[j], q[i]) /\ q[i] # q[j]
    BY <1>2, <2>1
  <2> QED
    BY <2>1, <2>2, RowsAreOrdered
<1> QED
  BY <1>5, <1>6, <1>7 DEF Ordered, q

------------------------------------------------------------------------------
(* The loop of ListByKey *)

Model == [id : ModelId, owned_by : KeyId]
KeyModels == [id : KeyId, models : Seq(Model)]
ProviderModels == [id : ProviderId, keys : Seq(KeyModels)]
TableRows == ProviderId \X KeyId \X ModelId

Ids(s) == {s[i].id : i \in DOMAIN s}
Providers(R) == {r[1] : r \in R}
KeysIn(R, p) == {r[2] : r \in {s \in R : s[1] = p}}
ModelsIn(R, p, k) == {r[3] : r \in {s \in R : s[1] = p /\ s[2] = k}}

(***************************************************************************)
(* What the loop has made of the rows R, one level of the tree at a time:  *)
(* each list has the ids that occur in R below its parent, ascending.      *)
(***************************************************************************)
ProvidersFiled(tree, R) == Ascending(tree) /\ Ids(tree) = Providers(R)

KeysFiled(tree, R) ==
    \A i \in DOMAIN tree :
        Ascending(tree[i].keys) /\ Ids(tree[i].keys) = KeysIn(R, tree[i].id)

KeyFiled(k, ids) ==
    /\ Ascending(k.models) /\ Ids(k.models) = ids
    /\ \A l \in DOMAIN k.models : k.models[l].owned_by = k.id

ModelsFiled(tree, R) ==
    \A i \in DOMAIN tree : \A j \in DOMAIN tree[i].keys :
        KeyFiled(tree[i].keys[j], ModelsIn(R, tree[i].id, tree[i].keys[j].id))

\* The two maps find what is in the tree, where it is.
ProvidersIndexed(tree, index) ==
    /\ \A p \in ProviderId : p \in DOMAIN index <=> p \in Ids(tree)
    /\ \A i \in DOMAIN tree : index[tree[i].id] = i

KeysIndexed(tree, index) ==
    /\ \A p \in ProviderId, k \in KeyId :
          CompoundKey(p, k) \in DOMAIN index <=>
             \E i \in DOMAIN tree : tree[i].id = p /\ k \in Ids(tree[i].keys)
    /\ \A i \in DOMAIN tree : \A j \in DOMAIN tree[i].keys :
          index[CompoundKey(tree[i].id, tree[i].keys[j].id)] = j

Indexed(acc) ==
    /\ acc = [result |-> acc.result, providerIndex |-> acc.providerIndex,
              keyIndex |-> acc.keyIndex]
    /\ acc.result \in Seq(ProviderModels)
    /\ ProvidersIndexed(acc.result, acc.providerIndex)
    /\ KeysIndexed(acc.result, acc.keyIndex)

FiledInv(acc, R) ==
    /\ Indexed(acc)
    /\ ProvidersFiled(acc.result, R)
    /\ KeysFiled(acc.result, R)
    /\ ModelsFiled(acc.result, R)

LEMMA IdsAreNumbers ==
    /\ ProviderId \subseteq Nat /\ KeyId \subseteq Nat /\ ModelId \subseteq Nat
    /\ \A k \in KeyId : k < Shift
    /\ Shift \in Nat
BY ModelQueryAssumption

\* Below Shift no two keys share an index.
LEMMA CompoundKeysDiffer ==
    ASSUME NEW p \in ProviderId, NEW q \in ProviderId, NEW k \in KeyId, NEW j \in KeyId,
           CompoundKey(p, k) = CompoundKey(q, j)
    PROVE  p = q /\ k = j
<1>1. /\ p \in Nat /\ q \in Nat /\ k \in Nat /\ j \in Nat /\ Shift \in Nat
      /\ k < Shift /\ j < Shift
  BY IdsAreNumbers
<1>2. \A a, b, x, y \in Nat : x < Shift /\ b > a => a * Shift + x < b * Shift + y
  <2> SUFFICES ASSUME NEW a \in Nat, NEW b \in Nat, NEW x \in Nat, NEW y \in Nat,
                      x < Shift, b > a
               PROVE  a * Shift + x < b * Shift + y
    OBVIOUS
  <2> DEFINE d == b - a - 1
  <2>1. d \in Nat /\ b = a + 1 + d
    OBVIOUS
  <2> HIDE DEF d
  <2>2. b * Shift = a * Shift + Shift + d * Shift /\ d * Shift \in Nat /\ a * Shift \in Nat
    BY <1>1, <2>1
  <2>3. b * Shift \in Nat
    BY <1>1
  <2> QED
    BY <1>1, <2>2, <2>3
<1>3. p * Shift + k = q * Shift + j
  BY DEF CompoundKey
<1>4. p * Shift \in Nat /\ q * Shift \in Nat
  BY <1>1
<1>5. ~(p < q) /\ ~(q < p)
  BY <1>1, <1>2, <1>3, <1>4
<1>6. p = q
  BY <1>1, <1>5
<1> QED
  BY <1>1, <1>3, <1>4, <1>6

LEMMA AppendedIds ==
    ASSUME NEW S, NEW s \in Seq(S), NEW e \in S
    PROVE  LET t == Append(s, e) IN
           /\ t \in Seq(S) /\ DOMAIN t = DOMAIN s \cup {Len(s) + 1}
           /\ Len(s) + 1 \notin DOMAIN s /\ t[Len(s) + 1] = e
           /\ \A i \in DOMAIN s : t[i] = s[i]
           /\ Ids(t) = Ids(s) \cup {e.id}
           /\ Ascending(s) /\ (\A i \in DOMAIN s : s[i].id < e.id) => Ascending(t)
<1> DEFINE t == Append(s, e)
<1>1. Len(s) \in Nat /\ DOMAIN s = 1..Len(s)
  OBVIOUS
<1>2. t \in Seq(S) /\ Len(t) = Len(s) + 1 /\ t[Len(s) + 1] = e
  OBVIOUS
<1>3. \A i \in DOMAIN s : t[i] = s[i]
  OBVIOUS
<1>4. DOMAIN t = DOMAIN s \cup {Len(s) + 1} /\ Len(s) + 1 \notin DOMAIN s
  BY <1>1, <1>2
<1> HIDE DEF t
<1>5. Ids(t) = Ids(s) \cup {e.id}
  BY <1>2, <1>3, <1>4 DEF Ids
<1>6. ASSUME Ascending(s), \A i \in DOMAIN s : s[i].id < e.id PROVE Ascending(t)
  <2> SUFFICES ASSUME NEW i \in DOMAIN t, NEW j \in DOMAIN t, i < j
               PROVE  t[i].id < t[j].id
    BY DEF Ascending
  <2>1. i \in DOMAIN s
    BY <1>1, <1>4
  <2>2. CASE j \in DOMAIN s
    BY <1>3, <1>6, <2>1, <2>2 DEF Ascending
  <2>3. CASE j = Len(s) + 1
    BY <1>2, <1>3, <1>6, <2>1, <2>3
  <2> QED
    BY <1>4, <2>2, <2>3
<1> QED
  BY <1>2, <1>3, <1>4, <1>5, <1>6 DEF t

LEMMA ReplacedIds ==
    ASSUME NEW S, NEW s \in Seq(S), NEW i \in DOMAIN s, NEW e \in S, e.id = s[i].id
    PROVE  LET t == [s EXCEPT ![i] = e] IN
           /\ t \in Seq(S) /\ DOMAIN t = DOMAIN s /\ t[i] = e
           /\ \A j \in DOMAIN s : j # i => t[j] = s[j]
           /\ \A j \in DOMAIN s : t[j].id = s[j].id
           /\ Ids(t) = Ids(s) /\ (Ascending(s) => Ascending(t))
<1> DEFINE t == [s EXCEPT ![i] = e]
<1>1. Len(s) \in Nat /\ DOMAIN s = 1..Len(s) /\ \A j \in DOMAIN s : s[j] \in S
  OBVIOUS
<1>2. DOMAIN t = DOMAIN s /\ t[i] = e /\ \A j \in DOMAIN s : j # i => t[j] = s[j]
  OBVIOUS
<1>3. t \in Seq(S)
  <2>1. t = [j \in 1..Len(s) |-> IF j = i THEN e ELSE s[j]]
    BY <1>1
  <2>2. t \in [1..Len(s) -> S]
    BY <1>1, <2>1
  <2> QED
    BY <1>1, <2>2
<1> HIDE DEF t
<1>4. \A j \in DOMAIN s : t[j].id = s[j].id
  BY <1>2
<1>5. Ids(t) = Ids(s) /\ (Ascending(s) => Ascending(t))
  BY <1>2, <1>4 DEF Ids, Ascending
<1> QED
  BY <1>2, <1>3, <1>4, <1>5 DEF t

LEMMA TreeElements ==
    ASSUME NEW T \in Seq(ProviderModels), NEW i \in DOMAIN T
    PROVE  /\ T[i] = [id |-> T[i].id, keys |-> T[i].keys]
           /\ T[i].id \in ProviderId /\ T[i].id \in Ids(T) /\ T[i].keys \in Seq(KeyModels)
           /\ \A j \in DOMAIN T[i].keys :
                 LET k == T[i].keys[j] IN
                 /\ k = [id |-> k.id, models |-> k.models]
                 /\ k.id \in KeyId /\ k.id \in Ids(T[i].keys) /\ k.models \in Seq(Model)
                 /\ \A l \in DOMAIN k.models : k.models[l].id \in ModelId
<1>1. T[i] \in ProviderModels
  OBVIOUS
<1>2. /\ T[i] = [id |-> T[i].id, keys |-> T[i].keys]
      /\ T[i].id \in ProviderId /\ T[i].id \in Ids(T) /\ T[i].keys \in Seq(KeyModels)
  BY <1>1 DEF ProviderModels, Ids
<1>3. ASSUME NEW j \in DOMAIN T[i].keys
      PROVE  LET k == T[i].keys[j] IN
             /\ k = [id |-> k.id, models |-> k.models]
             /\ k.id \in KeyId /\ k.id \in Ids(T[i].keys) /\ k.models \in Seq(Model)
             /\ \A l \in DOMAIN k.models : k.models[l].id \in ModelId
  <2> DEFINE k == T[i].keys[j]
  <2>1. k \in KeyModels
    BY <1>2
  <2>2. k = [id |-> k.id, models |-> k.models] /\ k.id \in KeyId /\ k.models \in Seq(Model)
    BY <2>1 DEF KeyModels
  <2>3. k.id \in Ids(T[i].keys)
    BY DEF Ids
  <2> HIDE DEF k
  <2>4. \A l \in DOMAIN k.models : k.models[l] \in Model
    BY <2>2
  <2>5. \A l \in DOMAIN k.models : k.models[l].id \in ModelId
    BY <2>4 DEF Model
  <2> QED
    BY <2>2, <2>3, <2>5 DEF k
<1> QED
  BY <1>2, <1>3

\* What the two lookups of a turn leave as it is: only their own level grows.
LEMMA WithProviderFiles ==
    ASSUME NEW acc, NEW R, NEW p \in ProviderId, FiledInv(acc, R),
           \A i \in DOMAIN acc.result : acc.result[i].id <= p
    PROVE  LET a == WithProvider(acc, p) IN
           /\ Indexed(a)
           /\ Ascending(a.result) /\ Ids(a.result) = Ids(acc.result) \cup {p}
           /\ KeysFiled(a.result, R) /\ ModelsFiled(a.result, R)
<1> DEFINE T == acc.result  a == WithProvider(acc, p)
           e == [id |-> p, keys |-> <<>>]  U == Append(T, e)
           pi == With(acc.providerIndex, p, Len(T) + 1)
<1>1. T \in Seq(ProviderModels) /\ Indexed(acc) /\ Ascending(T) /\ Ids(T) = Providers(R)
  BY DEF FiledInv, Indexed, ProvidersFiled
<1>2. CASE p \in DOMAIN acc.providerIndex
  <2>1. a = acc
    BY <1>2 DEF WithProvider
  <2>2. p \in Ids(T)
    BY <1>1, <1>2 DEF Indexed, ProvidersIndexed
  <2> QED
    BY <1>1, <2>1, <2>2 DEF FiledInv
<1>3. CASE p \notin DOMAIN acc.providerIndex
  <2>1. p \notin Ids(T)
    BY <1>1, <1>3 DEF Indexed, ProvidersIndexed
  <2>2. a = [result |-> U, providerIndex |-> pi, keyIndex |-> acc.keyIndex]
    <3>1. acc = [result |-> acc.result, providerIndex |-> acc.providerIndex,
                 keyIndex |-> acc.keyIndex]
      BY <1>1 DEF Indexed
    <3>2. a = [acc EXCEPT !.result = U, !.providerIndex = pi]
      BY <1>3 DEF WithProvider
    <3> HIDE DEF a, U, pi
    <3> QED
      BY <3>1, <3>2
  <2>3. e \in ProviderModels
    BY DEF ProviderModels
  <2>4. /\ U \in Seq(ProviderModels) /\ DOMAIN U = DOMAIN T \cup {Len(T) + 1}
        /\ Len(T) + 1 \notin DOMAIN T /\ U[Len(T) + 1] = e
        /\ \A i \in DOMAIN T : U[i] = T[i]
        /\ Ids(U) = Ids(T) \cup {p}
    BY <1>1, <2>3, AppendedIds
  <2>5. Ascending(U)
    <3>1. \A i \in DOMAIN T : T[i].id \in Nat /\ T[i].id # p
      BY <1>1, <2>1, TreeElements, IdsAreNumbers
    <3>2. \A i \in DOMAIN T : T[i].id < e.id
      BY <3>1, IdsAreNumbers
    <3> QED
      BY <1>1, <2>3, <3>2, AppendedIds
  <2> HIDE DEF a, U
  <2>6. \A i \in DOMAIN U : U[i] = e \/ (i \in DOMAIN T /\ U[i] = T[i])
    BY <2>4
  <2>7. e.id = p /\ e.keys = <<>> /\ Ids(e.keys) = {} /\ Ascending(e.keys)
    BY DEF Ids, Ascending
  <2>8. KeysIn(R, p) = {}
    BY <1>1, <2>1 DEF KeysIn, Providers
  <2>9. KeysFiled(U, R)
    BY <2>6, <2>7, <2>8 DEF KeysFiled, FiledInv
  <2>10. ModelsFiled(U, R)
    BY <2>6, <2>7 DEF ModelsFiled, FiledInv
  <2>11. ProvidersIndexed(U, pi)
    <3>1. \A q \in ProviderId : q \in DOMAIN pi <=> q \in Ids(U)
      BY <1>1, <2>4 DEF With, Indexed, ProvidersIndexed
    <3>2. \A i \in DOMAIN T : T[i].id # p /\ T[i].id \in DOMAIN acc.providerIndex
      BY <1>1, <2>1, TreeElements DEF Indexed, ProvidersIndexed
    <3>3. \A i \in DOMAIN T : pi[T[i].id] = i
      BY <1>1, <3>2 DEF With, Indexed, ProvidersIndexed
    <3>4. pi[p] = Len(T) + 1
      BY DEF With
    <3> HIDE DEF pi
    <3> QED
      BY <2>4, <2>7, <3>1, <3>3, <3>4 DEF ProvidersIndexed
  <2>12. KeysIndexed(U, acc.keyIndex)
    <3>1. \A q \in ProviderId, k \in KeyId :
             (\E i \in DOMAIN U : U[i].id = q /\ k \in Ids(U[i].keys)) <=>
             (\E i \in DOMAIN T : T[i].id = q /\ k \in Ids(T[i].keys))
      BY <2>4, <2>6, <2>7
    <3>2. \A i \in DOMAIN U : \A j \in DOMAIN U[i].keys :
             acc.keyIndex[CompoundKey(U[i].id, U[i].keys[j].id)] = j
      BY <1>1, <2>6, <2>7 DEF Indexed, KeysIndexed
    <3> QED
      BY <1>1, <3>1, <3>2 DEF Indexed, KeysIndexed
  <2>13. /\ a.result = U /\ a.providerIndex = pi /\ a.keyIndex = acc.keyIndex
         /\ a = [result |-> a.result, providerIndex |-> a.providerIndex,
                 keyIndex |-> a.keyIndex]
    BY <2>2
  <2> HIDE DEF pi
  <2>14. Indexed(a)
    BY <2>4, <2>11, <2>12, <2>13 DEF Indexed
  <2> QED
    BY <2>4, <2>5, <2>9, <2>10, <2>13, <2>14 DEF a
<1> QED
  BY <1>2, <1>3

LEMMA RowAdded ==
    ASSUME NEW R, NEW r, NEW RR, RR = R \cup {r}
    PROVE  /\ Providers(RR) = Providers(R) \cup {r[1]}
           /\ KeysIn(RR, r[1]) = KeysIn(R, r[1]) \cup {r[2]}
           /\ \A q : q # r[1] => KeysIn(RR, q) = KeysIn(R, q)
           /\ ModelsIn(RR, r[1], r[2]) = ModelsIn(R, r[1], r[2]) \cup {r[3]}
           /\ \A q, j : q # r[1] \/ j # r[2] => ModelsIn(RR, q, j) = ModelsIn(R, q, j)
<1>1. Providers(RR) = Providers(R) \cup {r[1]}
  BY DEF Providers
<1>2. /\ KeysIn(RR, r[1]) = KeysIn(R, r[1]) \cup {r[2]}
      /\ \A q : q # r[1] => KeysIn(RR, q) = KeysIn(R, q)
  BY DEF KeysIn
<1>3. ModelsIn(RR, r[1], r[2]) = ModelsIn(R, r[1], r[2]) \cup {r[3]}
  BY DEF ModelsIn
<1>4. \A q, j : q # r[1] \/ j # r[2] => ModelsIn(RR, q, j) = ModelsIn(R, q, j)
  BY DEF ModelsIn
<1> QED
  BY <1>1, <1>2, <1>3, <1>4

\* Where a provider of the tree is.
LEMMA ProviderFound ==
    ASSUME NEW a, NEW p \in ProviderId, Indexed(a), p \in Ids(a.result)
    PROVE  LET pi == a.providerIndex[p] IN
           /\ pi \in DOMAIN a.result /\ a.result[pi].id = p
           /\ \A i \in DOMAIN a.result : a.result[i].id = p => i = pi
BY DEF Indexed, ProvidersIndexed, Ids

LEMMA WithKeyFiles ==
    ASSUME NEW a, NEW R, NEW p \in ProviderId, NEW k \in KeyId,
           NEW r, r[1] = p, r[2] = k, NEW RR, RR = R \cup {r}, Indexed(a), Ascending(a.result), p \in Ids(a.result),
           KeysFiled(a.result, R), ModelsFiled(a.result, R),
           \A j \in KeysIn(R, p) : j <= k
    PROVE  LET b == WithKey(a, p, k) IN
           /\ Indexed(b)
           /\ Ascending(b.result) /\ Ids(b.result) = Ids(a.result)
           /\ KeysFiled(b.result, RR) /\ ModelsFiled(b.result, R)
           /\ CompoundKey(p, k) \in DOMAIN b.keyIndex
<1> DEFINE T == a.result  pi == a.providerIndex[p]  b == WithKey(a, p, k)
           K == T[pi].keys
           e == [id |-> k, models |-> <<>>]
           L == Append(K, e)
           u == [id |-> p, keys |-> L]
           U == [T EXCEPT ![pi] = u]
           ki == With(a.keyIndex, CompoundKey(p, k), Len(K) + 1)
<1>1. T \in Seq(ProviderModels) /\ pi \in DOMAIN T /\ T[pi].id = p
  BY ProviderFound DEF Indexed
<1>2. \A i \in DOMAIN T : i # pi => T[i].id # p
  BY ProviderFound
<1>3. /\ KeysIn(RR, p) = KeysIn(R, p) \cup {k}
      /\ \A q : q # p => KeysIn(RR, q) = KeysIn(R, q)
  BY RowAdded
<1>4. K \in Seq(KeyModels) /\ T[pi] = [id |-> p, keys |-> K]
  BY <1>1, TreeElements
<1>5. Ascending(K) /\ Ids(K) = KeysIn(R, p)
  BY <1>1 DEF KeysFiled
<1>6. CASE CompoundKey(p, k) \in DOMAIN a.keyIndex
  <2>1. b = a
    BY <1>6 DEF WithKey
  <2>2. k \in Ids(K)
    BY <1>2, <1>6 DEF Indexed, KeysIndexed
  <2>3. KeysFiled(T, RR)
    BY <1>1, <1>2, <1>3, <1>5, <2>2 DEF KeysFiled
  <2> QED
    BY <1>6, <2>1, <2>3
<1>7. CASE CompoundKey(p, k) \notin DOMAIN a.keyIndex
  <2>1. k \notin Ids(K)
    BY <1>1, <1>7 DEF Indexed, KeysIndexed
  <2>2. a = [result |-> T, providerIndex |-> a.providerIndex, keyIndex |-> a.keyIndex]
    BY DEF Indexed
  <2>3. [T[pi] EXCEPT !.keys = L] = u
    <3> HIDE DEF L, K
    <3> QED
      BY <1>4
  <2>4. b = [result |-> U, providerIndex |-> a.providerIndex, keyIndex |-> ki]
    <3>1. b = [a EXCEPT !.result = [T EXCEPT ![pi] = [T[pi] EXCEPT !.keys = L]],
                        !.keyIndex = ki]
      BY <1>7, <2>2 DEF WithKey
    <3> HIDE DEF b, ki, L, K, T, pi, u
    <3> QED
      BY <2>2, <2>3, <3>1
  <2>5. e \in KeyModels
    BY DEF KeyModels
  <2>6. /\ L \in Seq(KeyModels) /\ DOMAIN L = DOMAIN K \cup {Len(K) + 1}
        /\ Len(K) + 1 \notin DOMAIN K /\ L[Len(K) + 1] = e
        /\ \A j \in DOMAIN K : L[j] = K[j]
        /\ Ids(L) = Ids(K) \cup {k}
    BY <1>4, <2>5, AppendedIds
  <2>7. Ascending(L)
    <3>1. \A j \in DOMAIN K : K[j].id \in Nat /\ K[j].id # k /\ K[j].id <= k
      <4> TAKE j \in DOMAIN K
      <4>1. K[j].id \in KeyId /\ K[j].id \in Ids(K)
        BY <1>1, TreeElements
      <4> QED
        BY <1>5, <2>1, <4>1, IdsAreNumbers
    <3>2. \A j \in DOMAIN K : K[j].id < e.id
      BY <3>1, IdsAreNumbers
    <3> QED
      BY <1>4, <1>5, <2>5, <3>2, AppendedIds
  <2> HIDE DEF L
  <2>8. u \in ProviderModels /\ u.id = p /\ u.keys = L
    BY <2>6 DEF ProviderModels
  <2>9. /\ U \in Seq(ProviderModels) /\ DOMAIN U = DOMAIN T /\ U[pi] = u
        /\ \A i \in DOMAIN T : i # pi => U[i] = T[i]
        /\ \A i \in DOMAIN T : U[i].id = T[i].id
        /\ Ids(U) = Ids(T) /\ Ascending(U)
    BY <1>1, <2>8, ReplacedIds
  <2> HIDE DEF U, u, b
  <2>10. KeysFiled(U, RR)
    <3>1. ASSUME NEW i \in DOMAIN U
          PROVE  Ascending(U[i].keys) /\ Ids(U[i].keys) = KeysIn(RR, U[i].id)
      <4>1. CASE i = pi
        BY <1>3, <1>5, <2>6, <2>7, <2>8, <2>9, <4>1
      <4>2. CASE i # pi
        BY <1>2, <1>3, <2>9, <4>2 DEF KeysFiled
      <4> QED
        BY <4>1, <4>2
    <3> QED
      BY <3>1 DEF KeysFiled
  <2>11. ModelsFiled(U, R)
    <3>1. KeyFiled(e, ModelsIn(R, p, k))
      <4>1. ModelsIn(R, p, k) = {}
        BY <1>5, <2>1 DEF ModelsIn, KeysIn
      <4>2. Ids(e.models) = {} /\ Ascending(e.models) /\ DOMAIN e.models = {}
        BY DEF Ids, Ascending
      <4> QED
        BY <4>1, <4>2 DEF KeyFiled
    <3>2. ASSUME NEW i \in DOMAIN U, NEW j \in DOMAIN U[i].keys
          PROVE  KeyFiled(U[i].keys[j], ModelsIn(R, U[i].id, U[i].keys[j].id))
      <4>1. CASE i = pi /\ j = Len(K) + 1
        <5>1. U[i].keys[j] = e /\ U[i].id = p /\ e.id = k
          BY <1>1, <2>6, <2>8, <2>9, <4>1
        <5> HIDE DEF e
        <5> QED
          BY <3>1, <5>1
      <4>2. CASE i = pi /\ j \in DOMAIN K
        <5>1. U[i].keys[j] = K[j] /\ U[i].id = p
          BY <1>1, <2>6, <2>8, <2>9, <4>2
        <5> QED
          BY <1>1, <4>2, <5>1 DEF ModelsFiled
      <4>3. CASE i # pi
        BY <2>9, <4>3 DEF ModelsFiled
      <4> QED
        BY <2>6, <2>8, <2>9, <4>1, <4>2, <4>3
    <3> QED
      BY <3>2 DEF ModelsFiled
  <2>12. ProvidersIndexed(U, a.providerIndex)
    BY <2>9 DEF Indexed, ProvidersIndexed
  <2>13. KeysIndexed(U, ki) /\ CompoundKey(p, k) \in DOMAIN ki
    <3>1. /\ DOMAIN ki = DOMAIN a.keyIndex \cup {CompoundKey(p, k)}
          /\ ki[CompoundKey(p, k)] = Len(K) + 1
          /\ \A c \in DOMAIN a.keyIndex : c # CompoundKey(p, k) => ki[c] = a.keyIndex[c]
      BY DEF With
    <3> HIDE DEF ki
    <3>2. ASSUME NEW q \in ProviderId, NEW j \in KeyId
          PROVE  (CompoundKey(q, j) \in DOMAIN ki <=>
                    \E i \in DOMAIN U : U[i].id = q /\ j \in Ids(U[i].keys))
      <4>1. CompoundKey(q, j) = CompoundKey(p, k) <=> q = p /\ j = k
        BY CompoundKeysDiffer
      <4>2. CompoundKey(q, j) \in DOMAIN a.keyIndex <=>
               \E i \in DOMAIN T : T[i].id = q /\ j \in Ids(T[i].keys)
        BY DEF Indexed, KeysIndexed
      <4>3. (\E i \in DOMAIN U : U[i].id = q /\ j \in Ids(U[i].keys)) <=>
            (q = p /\ j = k) \/ \E i \in DOMAIN T : T[i].id = q /\ j \in Ids(T[i].keys)
        BY <1>1, <2>6, <2>8, <2>9
      <4> QED
        BY <3>1, <4>1, <4>2, <4>3
    <3>3. ASSUME NEW i \in DOMAIN U, NEW j \in DOMAIN U[i].keys
          PROVE  ki[CompoundKey(U[i].id, U[i].keys[j].id)] = j
      <4>1. CASE i = pi /\ j = Len(K) + 1
        <5>1. U[i].keys[j] = e /\ U[i].id = p /\ e.id = k
          BY <1>1, <2>6, <2>8, <2>9, <4>1
        <5> HIDE DEF e
        <5> QED
          BY <3>1, <4>1, <5>1
      <4>2. CASE i \in DOMAIN T /\ j \in DOMAIN T[i].keys /\ U[i].id = T[i].id
                 /\ U[i].keys[j] = T[i].keys[j]
        <5> DEFINE q == T[i].id  h == T[i].keys[j].id
        <5>1. q \in ProviderId /\ h \in KeyId /\ h \in Ids(T[i].keys)
          BY <1>1, <4>2, TreeElements
        <5>2. CompoundKey(q, h) \in DOMAIN a.keyIndex /\ a.keyIndex[CompoundKey(q, h)] = j
          BY <4>2, <5>1 DEF Indexed, KeysIndexed
        <5>3. CompoundKey(q, h) # CompoundKey(p, k)
          BY <1>7, <5>2
        <5> QED
          BY <3>1, <4>2, <5>2, <5>3
      <4>3. CASE i = pi /\ j \in DOMAIN K
        BY <1>1, <2>6, <2>8, <2>9, <4>2, <4>3
      <4>4. CASE i # pi
        BY <2>9, <4>2, <4>4
      <4>5. i = pi => j \in DOMAIN K \cup {Len(K) + 1}
        BY <2>6, <2>8, <2>9
      <4> QED
        BY <4>1, <4>3, <4>4, <4>5
    <3> QED
      BY <3>1, <3>2, <3>3 DEF KeysIndexed
  <2>14. b.result = U /\ b.providerIndex = a.providerIndex /\ b.keyIndex = ki
    BY <2>4
  <2> HIDE DEF ki
  <2>15. Indexed(b)
    BY <2>4, <2>9, <2>12, <2>13, <2>14 DEF Indexed
  <2> QED
    BY <2>9, <2>10, <2>11, <2>13, <2>14, <2>15 DEF b
<1> QED
  BY <1>6, <1>7

\* The end of a turn: the model is appended to the key that was found.
WithModel(b, p, k, m) ==
    LET pi == b.providerIndex[p]
        ki == b.keyIndex[CompoundKey(p, k)]
    IN [b EXCEPT !.result[pi].keys[ki].models = Append(@, [id |-> m, owned_by |-> k])]

LEMMA WithModelFiles ==
    ASSUME NEW b, NEW R, NEW p \in ProviderId, NEW k \in KeyId, NEW m \in ModelId,
           NEW r, r[1] = p, r[2] = k, r[3] = m, NEW RR, RR = R \cup {r},
           Indexed(b), ProvidersFiled(b.result, RR), KeysFiled(b.result, RR),
           ModelsFiled(b.result, R), CompoundKey(p, k) \in DOMAIN b.keyIndex,
           \A j \in ModelsIn(R, p, k) : j < m
    PROVE  FiledInv(WithModel(b, p, k, m), RR)
<1> DEFINE V == b.result  pi == b.providerIndex[p]  ki == b.keyIndex[CompoundKey(p, k)]
           c == WithModel(b, p, k, m)
           K == V[pi].keys
           M == K[ki].models
           e == [id |-> m, owned_by |-> k]
           N == Append(M, e)
           h == [id |-> k, models |-> N]
           L == [K EXCEPT ![ki] = h]
           u == [id |-> p, keys |-> L]
           U == [V EXCEPT ![pi] = u]
<1>1. \E i \in DOMAIN V : V[i].id = p /\ k \in Ids(V[i].keys)
  BY DEF Indexed, KeysIndexed
<1>2. p \in Ids(V)
  BY <1>1 DEF Ids
<1>3. /\ V \in Seq(ProviderModels) /\ pi \in DOMAIN V /\ V[pi].id = p
      /\ \A i \in DOMAIN V : V[i].id = p => i = pi
  BY <1>2, ProviderFound DEF Indexed
<1>4. K \in Seq(KeyModels) /\ V[pi] = [id |-> p, keys |-> K]
  BY <1>3, TreeElements
<1>5. /\ ki \in DOMAIN K /\ K[ki].id = k
      /\ \A j \in DOMAIN K : K[j].id = k => j = ki
  <2>1. \A j \in DOMAIN K : b.keyIndex[CompoundKey(p, K[j].id)] = j
    BY <1>3 DEF Indexed, KeysIndexed
  <2>2. k \in Ids(K)
    BY <1>1, <1>3
  <2> HIDE DEF K
  <2> QED
    BY <2>1, <2>2 DEF Ids
<1>6. M \in Seq(Model) /\ K[ki] = [id |-> k, models |-> M]
  <2>1. \A j \in DOMAIN K : /\ K[j] = [id |-> K[j].id, models |-> K[j].models]
                             /\ K[j].models \in Seq(Model)
    BY <1>3, TreeElements
  <2> HIDE DEF K
  <2> QED
    BY <1>5, <2>1
<1>7. KeyFiled(K[ki], ModelsIn(R, p, k))
  BY <1>3, <1>5 DEF ModelsFiled
<1>8. e \in Model /\ e.id = m /\ e.owned_by = k
  BY DEF Model
<1>9. c = [result |-> U, providerIndex |-> b.providerIndex, keyIndex |-> b.keyIndex]
  <2>1. b = [result |-> V, providerIndex |-> b.providerIndex, keyIndex |-> b.keyIndex]
    BY DEF Indexed
  <2>2. c = [b EXCEPT !.result = [V EXCEPT ![pi] = [V[pi] EXCEPT !.keys =
               [K EXCEPT ![ki] = [K[ki] EXCEPT !.models = N]]]]]
    BY DEF WithModel
  <2> HIDE DEF c, N, V, K, M, pi, ki
  <2>3. [K[ki] EXCEPT !.models = N] = h
    BY <1>6
  <2>4. [V[pi] EXCEPT !.keys = L] = u
    <3> HIDE DEF L
    <3> QED
      BY <1>4
  <2>5. c = [b EXCEPT !.result = U]
    BY <2>2, <2>3, <2>4
  <2> HIDE DEF U
  <2> QED
    BY <2>1, <2>5
<1>10. /\ N \in Seq(Model) /\ DOMAIN N = DOMAIN M \cup {Len(M) + 1}
       /\ N[Len(M) + 1] = e /\ \A l \in DOMAIN M : N[l] = M[l]
       /\ Ids(N) = Ids(M) \cup {m}
  <2> HIDE DEF M, e
  <2> QED
    BY <1>6, <1>8, AppendedIds
<1>11. Ascending(N)
  <2>1. \A l \in DOMAIN M : M[l].id \in Ids(M)
    BY DEF Ids
  <2>2. \A l \in DOMAIN M : M[l].id < e.id
    BY <1>7, <1>8, <2>1 DEF KeyFiled
  <2> QED
    BY <1>6, <1>7, <1>8, <2>2, AppendedIds DEF KeyFiled
<1> HIDE DEF N, c
<1>12. h \in KeyModels /\ h.id = k /\ h.models = N
  BY <1>10 DEF KeyModels
<1>13. /\ L \in Seq(KeyModels) /\ DOMAIN L = DOMAIN K /\ L[ki] = h
       /\ \A j \in DOMAIN K : j # ki => L[j] = K[j]
       /\ \A j \in DOMAIN K : L[j].id = K[j].id
       /\ Ids(L) = Ids(K) /\ (Ascending(K) => Ascending(L))
  <2> HIDE DEF K, h
  <2> QED
    BY <1>4, <1>5, <1>12, ReplacedIds
<1> HIDE DEF L
<1>14. u \in ProviderModels /\ u.id = p /\ u.keys = L
  BY <1>13 DEF ProviderModels
<1>15. /\ U \in Seq(ProviderModels) /\ DOMAIN U = DOMAIN V /\ U[pi] = u
       /\ \A i \in DOMAIN V : i # pi => U[i] = V[i]
       /\ \A i \in DOMAIN V : U[i].id = V[i].id
       /\ Ids(U) = Ids(V) /\ (Ascending(V) => Ascending(U))
  BY <1>3, <1>14, ReplacedIds
<1> HIDE DEF U, u
<1>16. \A i \in DOMAIN U : /\ DOMAIN U[i].keys = DOMAIN V[i].keys
                           /\ Ids(U[i].keys) = Ids(V[i].keys)
                           /\ Ascending(V[i].keys) => Ascending(U[i].keys)
                           /\ \A j \in DOMAIN V[i].keys :
                                 U[i].keys[j].id = V[i].keys[j].id
  BY <1>13, <1>14, <1>15
<1>17. ProvidersFiled(U, RR) /\ KeysFiled(U, RR)
  BY <1>15, <1>16 DEF ProvidersFiled, KeysFiled
<1>18. ModelsFiled(U, RR)
  <2>1. /\ ModelsIn(RR, p, k) = ModelsIn(R, p, k) \cup {m}
        /\ \A q, j : q # p \/ j # k => ModelsIn(RR, q, j) = ModelsIn(R, q, j)
    <3>1. ModelsIn(RR, r[1], r[2]) = ModelsIn(R, r[1], r[2]) \cup {r[3]}
      BY RowAdded
    <3>2. \A q, j : q # r[1] \/ j # r[2] => ModelsIn(RR, q, j) = ModelsIn(R, q, j)
      BY RowAdded
    <3> QED
      BY <3>1, <3>2
  <2>2. KeyFiled(h, ModelsIn(RR, p, k))
    <3>1. Ids(N) = ModelsIn(RR, p, k)
      BY <1>7, <1>10, <2>1 DEF KeyFiled
    <3>2. \A l \in DOMAIN N : N[l].owned_by = k
      <4>1. \A l \in DOMAIN M : M[l].owned_by = k
        BY <1>5, <1>7 DEF KeyFiled
      <4>2. \A l \in DOMAIN N : l \in DOMAIN M \/ l = Len(M) + 1
        BY <1>10
      <4> HIDE DEF K, M, e, h, ki
      <4> QED
        BY <1>8, <1>10, <4>1, <4>2
    <3> QED
      BY <1>11, <1>12, <3>1, <3>2 DEF KeyFiled
  <2>3. ASSUME NEW i \in DOMAIN U, NEW j \in DOMAIN U[i].keys
        PROVE  KeyFiled(U[i].keys[j], ModelsIn(RR, U[i].id, U[i].keys[j].id))
    <3>1. CASE i = pi /\ j = ki
      BY <1>3, <1>12, <1>13, <1>14, <1>15, <2>2, <3>1
    <3>2. CASE i = pi /\ j # ki
      <4>1. j \in DOMAIN K /\ U[i].keys[j] = K[j] /\ U[i].id = p /\ K[j].id # k
        BY <1>3, <1>5, <1>13, <1>14, <1>15, <3>2
      <4>2. KeyFiled(K[j], ModelsIn(R, p, K[j].id))
        BY <1>3, <4>1 DEF ModelsFiled
      <4> HIDE DEF K, pi, ki
      <4> QED
        BY <2>1, <4>1, <4>2
    <3>3. CASE i # pi
      <4>1. U[i] = V[i] /\ V[i].id # p /\ i \in DOMAIN V
        BY <1>3, <1>15, <3>3
      <4>2. KeyFiled(V[i].keys[j], ModelsIn(R, V[i].id, V[i].keys[j].id))
        BY <4>1 DEF ModelsFiled
      <4> HIDE DEF V, pi, ki
      <4> QED
        BY <2>1, <4>1, <4>2
    <3> QED
      BY <3>1, <3>2, <3>3
  <2> QED
    BY <2>3 DEF ModelsFiled
<1>19. ProvidersIndexed(U, b.providerIndex)
  BY <1>15 DEF Indexed, ProvidersIndexed
<1>20. KeysIndexed(U, b.keyIndex)
  <2>1. \A q \in ProviderId, j \in KeyId :
           (\E i \in DOMAIN U : U[i].id = q /\ j \in Ids(U[i].keys)) <=>
           (\E i \in DOMAIN V : V[i].id = q /\ j \in Ids(V[i].keys))
    BY <1>15, <1>16
  <2>2. \A i \in DOMAIN U : \A j \in DOMAIN U[i].keys :
           b.keyIndex[CompoundKey(U[i].id, U[i].keys[j].id)] = j
    BY <1>15, <1>16 DEF Indexed, KeysIndexed
  <2> QED
    BY <2>1, <2>2 DEF Indexed, KeysIndexed
<1>21. /\ c.result = U /\ c.providerIndex = b.providerIndex /\ c.keyIndex = b.keyIndex
  BY <1>9
<1> QED
  BY <1>9, <1>15, <1>17, <1>18, <1>19, <1>20, <1>21 DEF FiledInv, Indexed, c

LEMMA FiledKeeps ==
    ASSUME NEW acc, NEW R \in SUBSET TableRows, NEW r \in TableRows,
           NEW RR, RR = R \cup {r},
           FiledInv(acc, R), \A s \in R : Precedes(s, r)
    PROVE  FiledInv(Filed(acc, r), RR)
<1> DEFINE p == r[1]  k == r[2]  m == r[3]
           a == WithProvider(acc, p)  b == WithKey(a, p, k)
<1>1. p \in ProviderId /\ k \in KeyId /\ m \in ModelId /\ p \in Nat /\ k \in Nat /\ m \in Nat
  BY IdsAreNumbers DEF TableRows
<1>2. \A s \in R : s[1] \in Nat /\ s[2] \in Nat /\ s[3] \in Nat
  BY IdsAreNumbers DEF TableRows
<1>3. \A i \in DOMAIN acc.result : acc.result[i].id <= p
  <2>1. \A q \in Providers(R) : q <= p
    BY <1>1, <1>2 DEF Providers, Precedes
  <2> QED
    BY <2>1 DEF FiledInv, ProvidersFiled, Ids
<1>4. \A j \in KeysIn(R, p) : j <= k
  BY <1>1, <1>2 DEF KeysIn, Precedes
<1>5. \A j \in ModelsIn(R, p, k) : j < m
  BY <1>1, <1>2 DEF ModelsIn, Precedes
<1>6. Filed(acc, r) = WithModel(b, p, k, m)
  BY DEF Filed, WithModel
<1> HIDE DEF p, k, m
<1>7. /\ Indexed(a)
      /\ Ascending(a.result) /\ Ids(a.result) = Ids(acc.result) \cup {p}
      /\ KeysFiled(a.result, R) /\ ModelsFiled(a.result, R)
  BY <1>1, <1>3, WithProviderFiles
<1> HIDE DEF a
<1>8. p = r[1] /\ k = r[2] /\ m = r[3]
  BY DEF p, k, m
<1>9. /\ Indexed(b)
      /\ Ascending(b.result) /\ Ids(b.result) = Ids(a.result)
      /\ KeysFiled(b.result, RR) /\ ModelsFiled(b.result, R)
      /\ CompoundKey(p, k) \in DOMAIN b.keyIndex
  <2>1. p \in Ids(a.result) /\ r[1] = p /\ r[2] = k
    BY <1>7, <1>8
  <2>2. p \in ProviderId /\ k \in KeyId /\ RR = R \cup {r}
    BY <1>1
  <2> QED
    BY <1>4, <1>7, <2>1, <2>2, WithKeyFiles
<1> HIDE DEF b
<1>10. ProvidersFiled(b.result, RR)
  BY <1>7, <1>8, <1>9, RowAdded DEF ProvidersFiled, FiledInv
<1> QED
  BY <1>1, <1>5, <1>6, <1>8, <1>9, <1>10, WithModelFiles

\* The rows of the first i places of a sequence.
UpTo(q, i) == {q[j] : j \in 1..i}

LEMMA EmptyTree == FiledInv(NoneFiled, {})
<1>1. /\ NoneFiled.result = <<>> /\ DOMAIN NoneFiled.result = {}
      /\ DOMAIN NoneFiled.providerIndex = {} /\ DOMAIN NoneFiled.keyIndex = {}
      /\ NoneFiled = [result |-> NoneFiled.result,
                      providerIndex |-> NoneFiled.providerIndex,
                      keyIndex |-> NoneFiled.keyIndex]
      /\ NoneFiled.result \in Seq(ProviderModels)
  BY DEF NoneFiled, NoIndex
<1>2. Providers({}) = {} /\ Ids(NoneFiled.result) = {} /\ Ascending(NoneFiled.result)
  BY <1>1 DEF Providers, Ids, Ascending
<1>3. Indexed(NoneFiled)
  BY <1>1, <1>2 DEF Indexed, ProvidersIndexed, KeysIndexed
<1> QED
  BY <1>1, <1>2, <1>3 DEF FiledInv, ProvidersFiled, KeysFiled, ModelsFiled

\* The loop turns the rows of the query, in their order, into the tree of them.
LEMMA LoopFiles ==
    ASSUME NEW R \in SUBSET TableRows, IsFiniteSet(R), R \subseteq Triples
    PROVE  FiledInv(FoldLeft(Filed, NoneFiled, InOrder(R)), R)
<1> DEFINE q == InOrder(R)  N == Cardinality(R)
<1>1. /\ N \in Nat /\ q \in [1..N -> R] /\ DOMAIN q = 1..N
      /\ \A r \in R : \E i \in 1..N : q[i] = r
      /\ \A i, j \in 1..N : i < j => Precedes(q[i], q[j])
  BY InOrderIsOrdered, FS_CardinalityType DEF Ordered
<1> HIDE DEF q, N
<1>2. PICK f : /\ FoldLeft(Filed, NoneFiled, q) = f[N]
               /\ States("rows", NoneFiled, q, N, f)
  BY <1>1, RowsLoop
<1>3. f[0] = NoneFiled /\ \A i \in 1..N : f[i] = Filed(f[i - 1], q[i])
  BY <1>2 DEF States, Turn
<1> DEFINE A == [i \in 0..N |->
                   {x \in {f[j] : j \in 0..N} : FiledInv(x, UpTo(q, i))}]
<1>4. f[0] \in A[0]
  <2>1. UpTo(q, 0) = {} /\ 0 \in 0..N
    BY <1>1 DEF UpTo
  <2> QED
    BY <1>3, <2>1, EmptyTree
<1>5. ASSUME NEW i \in 1..N, f[i - 1] \in A[i - 1] PROVE f[i] \in A[i]
  <2>1. i \in 0..N /\ i - 1 \in 0..N /\ 1..i = 1..(i - 1) \cup {i}
    BY <1>1
  <2>2. UpTo(q, i) = UpTo(q, i - 1) \cup {q[i]}
    BY <2>1 DEF UpTo
  <2>3. FiledInv(f[i - 1], UpTo(q, i - 1))
    BY <1>5, <2>1
  <2>4. UpTo(q, i - 1) \in SUBSET TableRows /\ q[i] \in TableRows
    BY <1>1 DEF UpTo
  <2>5. \A s \in UpTo(q, i - 1) : Precedes(s, q[i])
    BY <1>1 DEF UpTo
  <2>6. FiledInv(Filed(f[i - 1], q[i]), UpTo(q, i))
    BY <2>2, <2>3, <2>4, <2>5, FiledKeeps
  <2>7. FiledInv(f[i], UpTo(q, i))
    BY <1>3, <2>6
  <2> QED
    BY <2>1, <2>7
<1> HIDE DEF A
<1>6. \A i \in 0..N : f[i] \in A[i]
  BY <1>1, <1>4, <1>5, LoopInvariant
<1>7. FiledInv(f[N], UpTo(q, N))
  <2>1. N \in 0..N
    BY <1>1
  <2> QED
    BY <1>6, <2>1 DEF A
<1>8. UpTo(q, N) = R
  BY <1>1 DEF UpTo
<1> QED
  BY <1>2, <1>7, <1>8 DEF q

LEMMA FiledTreeIsRows ==
    ASSUME NEW acc, NEW R \in SUBSET TableRows, FiledInv(acc, R)
    PROVE  TreeIsRows(acc.result, R)
<1> DEFINE T == acc.result
<1>1. T \in Seq(ProviderModels) /\ Ascending(T) /\ Ids(T) = Providers(R)
  BY DEF FiledInv, Indexed, ProvidersFiled
<1>2. \A i \in DOMAIN T : Ascending(T[i].keys) /\ Ids(T[i].keys) = KeysIn(R, T[i].id)
  BY DEF FiledInv, KeysFiled
<1>3. \A i \in DOMAIN T : \A j \in DOMAIN T[i].keys :
         /\ Ascending(T[i].keys[j].models)
         /\ Ids(T[i].keys[j].models) = ModelsIn(R, T[i].id, T[i].keys[j].id)
  BY DEF FiledInv, ModelsFiled, KeyFiled
<1> HIDE DEF T
<1>4. ASSUME NEW i \in DOMAIN T PROVE T[i].keys # <<>>
  <2>1. T[i].id \in Providers(R)
    BY <1>1 DEF Ids
  <2>2. KeysIn(R, T[i].id) # {}
    BY <2>1 DEF Providers, KeysIn
  <2>3. Ids(T[i].keys) # {}
    BY <1>2, <2>2
  <2> QED
    BY <2>3 DEF Ids
<1>5. ASSUME NEW i \in DOMAIN T, NEW k \in ToSet(T[i].keys)
      PROVE  Ascending(k.models) /\ k.models # <<>>
  <2>1. PICK j \in DOMAIN T[i].keys : k = T[i].keys[j]
    BY DEF ToSet
  <2>2. k.id \in KeysIn(R, T[i].id)
    BY <1>2, <2>1 DEF Ids
  <2>3. ModelsIn(R, T[i].id, k.id) # {}
    BY <2>2 DEF KeysIn, ModelsIn
  <2>4. Ascending(k.models) /\ Ids(k.models) # {}
    BY <1>3, <2>1, <2>3
  <2> QED
    BY <2>4 DEF Ids
<1> DEFINE Held == UNION {UNION {{<<x.id, k.id, m.id>> : m \in ToSet(k.models)} :
                                    k \in ToSet(x.keys)} : x \in ToSet(T)}
<1>6. ASSUME NEW r \in R PROVE r \in Held
  <2>1. PICK i \in DOMAIN T : T[i].id = r[1]
    BY <1>1 DEF Providers, Ids
  <2>2. r[2] \in KeysIn(R, T[i].id)
    BY <2>1 DEF KeysIn
  <2>3. PICK j \in DOMAIN T[i].keys : T[i].keys[j].id = r[2]
    BY <1>2, <2>2 DEF Ids
  <2> DEFINE k == T[i].keys[j]
  <2>4. r[3] \in Ids(k.models)
    <3>1. Ids(k.models) = ModelsIn(R, T[i].id, k.id)
      BY <1>3
    <3>2. r[3] \in ModelsIn(R, T[i].id, k.id)
      BY <2>1, <2>3 DEF ModelsIn
    <3> QED
      BY <3>1, <3>2
  <2>5. PICK l \in DOMAIN k.models : k.models[l].id = r[3]
    BY <2>4 DEF Ids
  <2>6. /\ T[i] \in ToSet(T) /\ k \in ToSet(T[i].keys)
        /\ k.models[l] \in ToSet(k.models)
    BY DEF ToSet
  <2>7. r = <<T[i].id, k.id, k.models[l].id>>
    <3>1. r = <<r[1], r[2], r[3]>>
      BY DEF TableRows
    <3> QED
      BY <2>1, <2>3, <2>5, <3>1
  <2> HIDE DEF k
  <2> QED
    BY <2>6, <2>7
<1>7. ASSUME NEW r \in Held PROVE r \in R
  <2>1. PICK x \in ToSet(T) : \E k \in ToSet(x.keys) : \E m \in ToSet(k.models) :
           r = <<x.id, k.id, m.id>>
    OBVIOUS
  <2>2. PICK k \in ToSet(x.keys) : \E m \in ToSet(k.models) : r = <<x.id, k.id, m.id>>
    BY <2>1
  <2>3. PICK m \in ToSet(k.models) : r = <<x.id, k.id, m.id>>
    BY <2>2
  <2>4. PICK i \in DOMAIN T : x = T[i]
    BY DEF ToSet
  <2>5. PICK j \in DOMAIN x.keys : k = x.keys[j]
    BY DEF ToSet
  <2>6. m.id \in ModelsIn(R, x.id, k.id)
    <3>1. m.id \in Ids(k.models)
      BY DEF ToSet, Ids
    <3> QED
      BY <1>3, <2>4, <2>5, <3>1
  <2>7. PICK s \in R : s[1] = x.id /\ s[2] = k.id /\ s[3] = m.id
    BY <2>6 DEF ModelsIn
  <2>8. s = <<s[1], s[2], s[3]>>
    BY DEF TableRows
  <2> QED
    BY <2>3, <2>7, <2>8
<1>8. R = Held
  BY <1>6, <1>7
<1> QED
  BY <1>1, <1>2, <1>4, <1>5, <1>8 DEF TreeIsRows, T

LEMMA RowsAreFinite ==
    ASSUME NEW t \in Tables, NEW matched \in SUBSET ModelId
    PROVE  /\ Rows(t, matched) \in SUBSET TableRows
           /\ Rows(t, matched) \subseteq Triples /\ IsFiniteSet(Rows(t, matched))
<1>1. Rows(t, matched) \in SUBSET TableRows
  BY DEF Rows, Tables, TableRows
<1>2. TableRows \subseteq Triples
  BY IdsAreNumbers DEF TableRows, Triples
<1>3. IsFiniteSet(ProviderId) /\ IsFiniteSet(KeyId) /\ IsFiniteSet(ModelId)
  <2>1. IsFiniteSet(0..(Shift - 1))
    BY ModelQueryAssumption, FS_Interval
  <2>2. ProviderId \in SUBSET (0..(Shift - 1)) /\ KeyId \in SUBSET (0..(Shift - 1))
    BY ModelQueryAssumption
  <2>3. \A T \in SUBSET (0..(Shift - 1)) : IsFiniteSet(T)
    BY <2>1, FS_Subset
  <2> QED
    BY <2>2, <2>3, ModelQueryAssumption
<1> DEFINE P == (ProviderId \X KeyId) \X ModelId
           f == [x \in P |-> <<x[1][1], x[1][2], x[2]>>]
<1>4. IsFiniteSet(P)
  <2>1. IsFiniteSet(ProviderId \X KeyId)
    BY <1>3, FS_Product
  <2> QED
    BY <1>3, <2>1, FS_Product
<1>5. f \in Surjection(P, TableRows)
  <2>1. f \in [P -> TableRows]
    BY DEF TableRows
  <2>2. ASSUME NEW r \in TableRows PROVE \E x \in P : f[x] = r
    <3>1. <<<<r[1], r[2]>>, r[3]>> \in P /\ r = <<r[1], r[2], r[3]>>
      BY DEF TableRows
    <3> QED
      BY <3>1
  <2> HIDE DEF f, P
  <2> QED
    BY <2>1, <2>2 DEF Surjection
<1> HIDE DEF f, P
<1>6. IsFiniteSet(TableRows)
  BY <1>4, <1>5, FS_Surjection
<1>7. \A S \in SUBSET TableRows : IsFiniteSet(S)
  BY <1>6, FS_Subset
<1> QED
  BY <1>1, <1>2, <1>7

(***************************************************************************)
(* The answer by key holds every row of the query once, under its provider *)
(* and its key, in the order of the ids: for every table and every search. *)
(***************************************************************************)
THEOREM EveryRowIsListed == KeysListed
<1> SUFFICES ASSUME NEW t \in Tables, NEW matched \in SUBSET ModelId
             PROVE  TreeIsRows(Listed(t, "by_key", matched), Rows(t, matched))
  BY DEF KeysListed
<1> DEFINE R == Rows(t, matched)
<1>1. R \in SUBSET TableRows /\ IsFiniteSet(R) /\ R \subseteq Triples
  BY RowsAreFinite
<1>2. Listed(t, "by_key", matched) = FoldLeft(Filed, NoneFiled, InOrder(R)).result
  BY DEF Listed, ListByKey
<1> HIDE DEF R
<1>3. FiledInv(FoldLeft(Filed, NoneFiled, InOrder(R)), R)
  BY <1>1, LoopFiles
<1>4. TreeIsRows(FoldLeft(Filed, NoneFiled, InOrder(R)).result, R)
  BY <1>1, <1>3, FiledTreeIsRows
<1> QED
  BY <1>2, <1>4 DEF R

------------------------------------------------------------------------------
(* The loops of ListMerged *)

\* What the loop over the keys of a provider has after n of them.
Gathered(ms, keys, n) ==
    /\ ms \in Seq(Model)
    /\ \A i, j \in DOMAIN ms : i <= j => ms[i].owned_by <= ms[j].owned_by
    /\ \A i \in DOMAIN ms : \E j \in 1..n : \E l \in DOMAIN keys[j].models :
          ms[i] = keys[j].models[l]
    /\ \A j \in 1..n : \A l \in DOMAIN keys[j].models : \E i \in DOMAIN ms :
          ms[i] = keys[j].models[l]

\* The models of a key are owned by it.
Owned(keys) ==
    \A j \in DOMAIN keys : \A l \in DOMAIN keys[j].models :
        keys[j].models[l].owned_by = keys[j].id

LEMMA KeyGathered ==
    ASSUME NEW keys \in Seq(KeyModels), Ascending(keys), Owned(keys),
           NEW n \in 1..Len(keys), NEW ms, Gathered(ms, keys, n - 1)
    PROVE  Gathered(ms \o keys[n].models, keys, n)
<1> DEFINE M == keys[n].models  L == Len(ms)  all == ms \o M
<1>1. n \in DOMAIN keys /\ DOMAIN keys = 1..Len(keys) /\ Len(keys) \in Nat
  OBVIOUS
<1>2. \A j \in DOMAIN keys : keys[j].id \in Nat /\ keys[j].models \in Seq(Model)
  <2> TAKE j \in DOMAIN keys
  <2>1. keys[j] \in KeyModels
    OBVIOUS
  <2>2. keys[j].id \in KeyId /\ keys[j].models \in Seq(Model)
    BY <2>1 DEF KeyModels
  <2> QED
    BY <2>2, IdsAreNumbers
<1>3. ms \in Seq(Model) /\ M \in Seq(Model)
  BY <1>1, <1>2 DEF Gathered
<1>4. L \in Nat /\ DOMAIN ms = 1..L /\ Len(M) \in Nat /\ DOMAIN M = 1..Len(M)
  BY <1>3
<1>5. /\ all \in Seq(Model) /\ DOMAIN all = 1..(L + Len(M))
      /\ \A i \in 1..L : all[i] = ms[i]
      /\ \A i \in 1..Len(M) : all[L + i] = M[i]
  <2> HIDE DEF M
  <2> QED
    BY <1>3, ConcatProperties
<1>6. \A l \in DOMAIN M : M[l].owned_by = keys[n].id
  BY <1>1 DEF Owned
<1>7. \A j \in 1..(n - 1) : keys[j].id <= keys[n].id
  <2>1. \A j \in 1..(n - 1) : j \in DOMAIN keys /\ j < n
    BY <1>1
  <2>2. \A j \in 1..(n - 1) : keys[j].id < keys[n].id
    BY <1>1, <2>1 DEF Ascending
  <2> QED
    BY <1>1, <1>2, <2>1, <2>2
<1>8. \A i \in DOMAIN ms : ms[i].owned_by <= keys[n].id
  <2> TAKE i \in DOMAIN ms
  <2>1. PICK j \in 1..(n - 1) : \E l \in DOMAIN keys[j].models : ms[i] = keys[j].models[l]
    BY DEF Gathered
  <2>2. ms[i].owned_by = keys[j].id
    BY <1>1, <2>1 DEF Owned
  <2> QED
    BY <1>7, <2>2
<1>9. \A j \in 1..(n - 1) : \A l \in DOMAIN keys[j].models : \E i \in DOMAIN ms :
         ms[i] = keys[j].models[l]
  BY DEF Gathered
<1>10. \A i, j \in DOMAIN ms : i <= j => ms[i].owned_by <= ms[j].owned_by
  BY DEF Gathered
<1>11. keys[n].id <= keys[n].id
  BY <1>1, <1>2
<1>12. \A i \in DOMAIN ms : \E j \in 1..(n - 1) : \E l \in DOMAIN keys[j].models :
         ms[i] = keys[j].models[l]
  BY DEF Gathered
<1>13. 1..n = 1..(n - 1) \cup {n}
  BY <1>1
<1> DEFINE K == keys[n].id
<1> HIDE DEF M, L, all, K
<1>14. \A i \in DOMAIN all : i \in 1..L \/ \E l \in 1..Len(M) : i = L + l
  <2> TAKE i \in DOMAIN all
  <2>1. CASE i > L
    <3>1. i - L \in 1..Len(M) /\ i = L + (i - L)
      BY <1>4, <1>5, <2>1
    <3> QED
      BY <3>1
  <2> QED
    BY <1>4, <1>5, <2>1
<1>15. \A i, j \in DOMAIN all : i <= j => all[i].owned_by <= all[j].owned_by
  <2> SUFFICES ASSUME NEW i \in DOMAIN all, NEW j \in DOMAIN all, i <= j
               PROVE  all[i].owned_by <= all[j].owned_by
    OBVIOUS
  <2>1. \A l \in 1..Len(M) : all[L + l].owned_by = K
    BY <1>4, <1>5, <1>6 DEF K
  <2>2. CASE j \in 1..L
    <3>1. i \in 1..L
      BY <1>4, <1>5, <2>2
    <3> QED
      BY <1>4, <1>5, <1>10, <2>2, <3>1
  <2>3. CASE \E l \in 1..Len(M) : j = L + l
    <3>1. all[j].owned_by = K
      BY <2>1, <2>3
    <3>2. CASE i \in 1..L
      BY <1>4, <1>5, <1>8, <3>1, <3>2 DEF K
    <3>3. CASE \E l \in 1..Len(M) : i = L + l
      <4>1. all[i].owned_by = K
        BY <2>1, <3>3
      <4> QED
        BY <1>11, <3>1, <4>1 DEF K
    <3> QED
      BY <1>14, <3>2, <3>3
  <2> QED
    BY <1>14, <2>2, <2>3
<1>16. \A i \in DOMAIN all : \E j \in 1..n : \E l \in DOMAIN keys[j].models :
         all[i] = keys[j].models[l]
  <2> TAKE i \in DOMAIN all
  <2>1. CASE i \in 1..L
    BY <1>4, <1>5, <1>12, <1>13, <2>1
  <2>2. CASE \E l \in 1..Len(M) : i = L + l
    <3>1. PICK l \in 1..Len(M) : all[i] = M[l]
      BY <1>5, <2>2
    <3>2. n \in 1..n /\ l \in DOMAIN keys[n].models /\ all[i] = keys[n].models[l]
      BY <1>4, <1>13, <3>1 DEF M
    <3> QED
      BY <3>2
  <2> QED
    BY <1>14, <2>1, <2>2
<1>17. \A j \in 1..n : \A l \in DOMAIN keys[j].models : \E i \in DOMAIN all :
         all[i] = keys[j].models[l]
  <2> TAKE j \in 1..n
  <2> TAKE l \in DOMAIN keys[j].models
  <2>1. CASE j \in 1..(n - 1)
    <3>1. PICK i \in DOMAIN ms : ms[i] = keys[j].models[l]
      BY <1>9, <2>1
    <3>2. i \in DOMAIN all
      BY <1>4, <1>5
    <3> QED
      BY <1>4, <1>5, <3>1, <3>2
  <2>2. CASE j = n
    <3>1. l \in 1..Len(M) /\ M[l] = keys[j].models[l]
      BY <1>4, <2>2 DEF M
    <3>2. L + l \in DOMAIN all
      BY <1>4, <1>5, <3>1
    <3> QED
      BY <1>5, <3>1, <3>2
  <2> QED
    BY <1>13, <2>1, <2>2
<1> QED
  BY <1>5, <1>15, <1>16, <1>17 DEF Gathered, all, M

\* ModelsOf has the models of all keys, those of an earlier key earlier.
LEMMA ModelsOfGathers ==
    ASSUME NEW keys \in Seq(KeyModels), Ascending(keys), Owned(keys)
    PROVE  Gathered(ModelsOf(keys), keys, Len(keys))
<1> DEFINE N == Len(keys)
<1>1. N \in Nat /\ DOMAIN keys = 1..N
  OBVIOUS
<1> HIDE DEF N
<1>2. PICK f : ModelsOf(keys) = f[N] /\ States("keys", <<>>, keys, N, f)
  BY <1>1, KeysLoop
<1>3. f[0] = <<>> /\ \A i \in 1..N : f[i] = f[i - 1] \o keys[i].models
  BY <1>2 DEF States, Turn
<1> DEFINE A == [i \in 0..N |->
                   {x \in {f[j] : j \in 0..N} : Gathered(x, keys, i)}]
<1>4. f[0] \in A[0]
  <2>1. Gathered(<<>>, keys, 0)
    BY DEF Gathered
  <2>2. 0 \in 0..N
    BY <1>1
  <2> QED
    BY <1>3, <2>1, <2>2
<1>5. ASSUME NEW i \in 1..N, f[i - 1] \in A[i - 1] PROVE f[i] \in A[i]
  <2>1. i \in 0..N /\ i - 1 \in 0..N
    BY <1>1
  <2>2. Gathered(f[i - 1], keys, i - 1)
    BY <1>5, <2>1
  <2>3. Gathered(f[i], keys, i)
    BY <1>3, <2>2, KeyGathered DEF N
  <2> QED
    BY <2>1, <2>3
<1> HIDE DEF A
<1>6. \A i \in 0..N : f[i] \in A[i]
  BY <1>1, <1>4, <1>5, LoopInvariant
<1>7. Gathered(f[N], keys, N)
  <2>1. N \in 0..N
    BY <1>1
  <2> QED
    BY <1>6, <2>1 DEF A
<1> QED
  BY <1>2, <1>7 DEF N

\* The place of a model is the first with its id.
IsFirst(all, j) == \A i \in 1..(j - 1) : all[i].id # all[j].id

\* What the first loop has after n models: the first of each id.
SeenInv(seen, all, n) ==
    /\ \A x : x \in DOMAIN seen <=> \E j \in 1..n : all[j].id = x
    /\ \A j \in 1..n : IsFirst(all, j) => seen[all[j].id] = all[j]

LEMMA SeenHasFirst ==
    ASSUME NEW all \in Seq(Model)
    PROVE  SeenInv(Seen(all), all, Len(all))
<1> DEFINE N == Len(all)
<1>1. N \in Nat /\ DOMAIN all = 1..N
  OBVIOUS
<1> HIDE DEF N
<1>2. PICK f : Seen(all) = f[N] /\ States("seen", NoIndex, all, N, f)
  BY <1>1, SeenLoop DEF Seen
<1>3. f[0] = NoIndex /\ \A i \in 1..N : f[i] = Kept(f[i - 1], all[i])
  BY <1>2 DEF States, Turn
<1> DEFINE A == [i \in 0..N |-> {x \in {f[j] : j \in 0..N} : SeenInv(x, all, i)}]
<1>4. f[0] \in A[0]
  <2>1. SeenInv(NoIndex, all, 0)
    BY DEF SeenInv, NoIndex
  <2>2. 0 \in 0..N
    BY <1>1
  <2> QED
    BY <1>3, <2>1, <2>2
<1>5. ASSUME NEW i \in 1..N, f[i - 1] \in A[i - 1] PROVE f[i] \in A[i]
  <2> DEFINE g == f[i - 1]  m == all[i]
  <2>1. i \in 0..N /\ i - 1 \in 0..N /\ 1..i = 1..(i - 1) \cup {i}
    BY <1>1
  <2>2. SeenInv(g, all, i - 1)
    BY <1>5, <2>1
  <2>3. f[i] = Kept(g, m)
    BY <1>3
  <2> SUFFICES SeenInv(f[i], all, i)
    BY <2>1
  <2> HIDE DEF g, A
  <2>4. ASSUME NEW j \in 1..(i - 1), IsFirst(all, j) PROVE g[all[j].id] = all[j]
    BY <2>2, <2>4 DEF SeenInv
  <2>5. \A j \in 1..(i - 1) : all[j].id \in DOMAIN g
    BY <2>2 DEF SeenInv
  <2>6. m.id \in DOMAIN g <=> ~IsFirst(all, i)
    BY <2>2 DEF SeenInv, IsFirst
  <2>7. CASE m.id \in DOMAIN g
    <3>1. f[i] = g
      BY <2>3, <2>7 DEF Kept
    <3>2. \A x : x \in DOMAIN g <=> \E j \in 1..i : all[j].id = x
      BY <2>1, <2>2, <2>7 DEF SeenInv
    <3>3. \A j \in 1..i : IsFirst(all, j) => g[all[j].id] = all[j]
      BY <2>1, <2>4, <2>6, <2>7
    <3> QED
      BY <3>1, <3>2, <3>3 DEF SeenInv
  <2>8. CASE m.id \notin DOMAIN g
    <3> DEFINE h == With(g, m.id, m)
    <3>1. f[i] = h
      BY <2>3, <2>8 DEF Kept
    <3>2. /\ DOMAIN h = DOMAIN g \cup {m.id} /\ h[m.id] = m
          /\ \A x \in DOMAIN g : h[x] = g[x]
      BY <2>8 DEF With
    <3> HIDE DEF h
    <3>3. \A x : x \in DOMAIN h <=> \E j \in 1..i : all[j].id = x
      BY <2>1, <2>2, <3>2 DEF SeenInv
    <3>4. \A j \in 1..i : IsFirst(all, j) => h[all[j].id] = all[j]
      BY <2>1, <2>4, <2>5, <3>2
    <3> QED
      BY <3>1, <3>3, <3>4 DEF SeenInv
  <2> QED
    BY <2>7, <2>8
<1> HIDE DEF A
<1>6. \A i \in 0..N : f[i] \in A[i]
  BY <1>1, <1>4, <1>5, LoopInvariant
<1>7. SeenInv(f[N], all, N)
  <2>1. N \in 0..N
    BY <1>1
  <2> QED
    BY <1>6, <2>1 DEF A
<1> QED
  BY <1>2, <1>7 DEF N

\* What the second loop has after n models: the first of each id that came by.
MergedInv(acc, all, n) ==
    /\ acc = [models |-> acc.models, seen |-> acc.seen]
    /\ acc.models \in Seq(Model) /\ Distinct(acc.models)
    /\ \A x : x \in DOMAIN acc.seen <=> x \in Ids(all) /\ \A j \in 1..n : all[j].id # x
    /\ \A j \in DOMAIN all : all[j].id \in DOMAIN acc.seen /\ IsFirst(all, j) =>
          acc.seen[all[j].id] = all[j]
    /\ \A x : x \in ToSet(acc.models) <=> \E j \in 1..n : IsFirst(all, j) /\ x = all[j]

LEMMA TakenKeeps ==
    ASSUME NEW all \in Seq(Model), NEW n \in 1..Len(all), NEW acc,
           MergedInv(acc, all, n - 1)
    PROVE  MergedInv(Taken(acc, all[n]), all, n)
<1> DEFINE m == all[n]  b == Taken(acc, m)  ms == acc.models
<1>1. n \in Nat /\ n \in DOMAIN all /\ 1..n = 1..(n - 1) \cup {n}
  OBVIOUS
<1>2. m \in Model /\ m.id \in Ids(all)
  BY <1>1 DEF Ids
<1>3. m.id \in DOMAIN acc.seen <=> IsFirst(all, n)
  BY <1>2 DEF MergedInv, IsFirst
<1>4. /\ ms \in Seq(Model) /\ Distinct(ms)
      /\ acc = [models |-> ms, seen |-> acc.seen]
      /\ \A x : x \in DOMAIN acc.seen <=>
            x \in Ids(all) /\ \A j \in 1..(n - 1) : all[j].id # x
      /\ \A j \in DOMAIN all : all[j].id \in DOMAIN acc.seen /\ IsFirst(all, j) =>
            acc.seen[all[j].id] = all[j]
      /\ \A x : x \in ToSet(ms) <=> \E j \in 1..(n - 1) : IsFirst(all, j) /\ x = all[j]
  BY DEF MergedInv
<1> HIDE DEF ms
<1>5. CASE m.id \in DOMAIN acc.seen
  <2> DEFINE rest == [id \in DOMAIN acc.seen \ {m.id} |-> acc.seen[id]]
  <2>0. acc.seen[m.id] = m
    BY <1>1, <1>3, <1>4, <1>5
  <2>1. b = [models |-> Append(ms, m), seen |-> rest]
    BY <1>5, <2>0 DEF Taken, ms
  <2>2. /\ b = [models |-> b.models, seen |-> b.seen] /\ b.models = Append(ms, m)
        /\ DOMAIN b.seen = DOMAIN acc.seen \ {m.id}
        /\ \A x \in DOMAIN b.seen : b.seen[x] = acc.seen[x]
    BY <2>1
  <2>3. \A x \in ToSet(ms) : x.id # m.id
    BY <1>4, <1>5
  <2> DEFINE L == Len(ms)
  <2>4. L \in Nat /\ DOMAIN ms = 1..L
    BY <1>4
  <2>5. /\ Append(ms, m) \in Seq(Model) /\ DOMAIN Append(ms, m) = 1..(L + 1)
        /\ \A i \in 1..L : Append(ms, m)[i] = ms[i]
        /\ Append(ms, m)[L + 1] = m
    <3> HIDE DEF m
    <3> QED
      BY <1>2, <1>4, AppendProperties
  <2> DEFINE c == Append(ms, m)
  <2> HIDE DEF L, m, b, c
  <2>6. 1..(L + 1) = 1..L \cup {L + 1}
    BY <2>4
  <2>7. Distinct(c)
    <3> SUFFICES ASSUME NEW i \in 1..(L + 1), NEW j \in 1..(L + 1), i # j
                 PROVE  c[i].id # c[j].id
      BY <2>5 DEF Distinct, c
    <3>1. \A k \in 1..L : c[k] = ms[k] /\ c[k].id # m.id
      BY <2>3, <2>4, <2>5 DEF ToSet, c
    <3>2. c[L + 1] = m
      BY <2>5 DEF c
    <3>3. CASE i \in 1..L /\ j \in 1..L
      BY <1>4, <2>4, <3>1, <3>3 DEF Distinct
    <3> QED
      BY <2>6, <3>1, <3>2, <3>3
  <2>8. \A x : x \in ToSet(c) <=> x \in ToSet(ms) \/ x = m
    <3>1. ToSet(c) = {c[i] : i \in 1..(L + 1)} /\ ToSet(ms) = {ms[i] : i \in 1..L}
      BY <2>4, <2>5 DEF ToSet, c
    <3>2. \A i \in 1..L : c[i] = ms[i]
      BY <2>5 DEF c
    <3>3. c[L + 1] = m
      BY <2>5 DEF c
    <3> QED
      BY <2>6, <3>1, <3>2, <3>3
  <2>9. \A x : x \in ToSet(c) <=> \E j \in 1..n : IsFirst(all, j) /\ x = all[j]
    BY <1>1, <1>3, <1>4, <1>5, <2>8 DEF m
  <2>10. \A x : x \in DOMAIN b.seen <=> x \in Ids(all) /\ \A j \in 1..n : all[j].id # x
    BY <1>1, <1>4, <2>2 DEF m
  <2>11. \A j \in DOMAIN all : all[j].id \in DOMAIN b.seen /\ IsFirst(all, j) =>
            b.seen[all[j].id] = all[j]
    BY <1>4, <2>2
  <2> QED
    BY <2>2, <2>5, <2>7, <2>9, <2>10, <2>11 DEF MergedInv, b, c, m
<1>6. CASE m.id \notin DOMAIN acc.seen
  <2>1. b = acc
    BY <1>6 DEF Taken
  <2>2. \E j \in 1..(n - 1) : all[j].id = m.id
    BY <1>3, <1>6 DEF IsFirst
  <2> HIDE DEF b
  <2>3. \A x : x \in DOMAIN acc.seen <=> x \in Ids(all) /\ \A j \in 1..n : all[j].id # x
    BY <1>1, <1>4, <2>2
  <2>4. \A x : x \in ToSet(ms) <=> \E j \in 1..n : IsFirst(all, j) /\ x = all[j]
    BY <1>1, <1>3, <1>4, <1>6
  <2>5. MergedInv(acc, all, n)
    BY <1>4, <2>3, <2>4 DEF MergedInv, ms
  <2> QED
    BY <2>1, <2>5 DEF b
<1> QED
  BY <1>5, <1>6

\* Merged has the first model of each id, once.
LEMMA MergedTakesFirst ==
    ASSUME NEW all \in Seq(Model)
    PROVE  /\ Distinct(Merged(all))
           /\ \A x : x \in ToSet(Merged(all)) <=>
                 \E j \in DOMAIN all : IsFirst(all, j) /\ x = all[j]
<1> DEFINE N == Len(all)
           base == [models |-> <<>>, seen |-> Seen(all)]
<1>1. N \in Nat /\ DOMAIN all = 1..N
  OBVIOUS
<1>2. MergedInv(base, all, 0)
  <2>1. /\ \A x : x \in DOMAIN Seen(all) <=> x \in Ids(all)
        /\ \A j \in DOMAIN all : IsFirst(all, j) => Seen(all)[all[j].id] = all[j]
    BY <1>1, SeenHasFirst DEF SeenInv, Ids
  <2>2. /\ base.models = <<>> /\ base.seen = Seen(all)
        /\ base = [models |-> base.models, seen |-> base.seen]
    OBVIOUS
  <2>3. ToSet(<<>>) = {} /\ Distinct(<<>>) /\ <<>> \in Seq(Model)
    BY DEF ToSet, Distinct
  <2> HIDE DEF base
  <2> QED
    BY <2>1, <2>2, <2>3 DEF MergedInv
<1>3. Merged(all) = FoldLeft(Taken, base, all).models
  BY DEF Merged
<1> HIDE DEF N, base
<1>4. PICK f : FoldLeft(Taken, base, all) = f[N] /\ States("models", base, all, N, f)
  BY <1>1, ModelsLoop
<1>5. f[0] = base /\ \A i \in 1..N : f[i] = Taken(f[i - 1], all[i])
  BY <1>4 DEF States, Turn
<1> DEFINE A == [i \in 0..N |->
                   {x \in {f[j] : j \in 0..N} : MergedInv(x, all, i)}]
<1>6. f[0] \in A[0]
  <2>1. 0 \in 0..N
    BY <1>1
  <2> QED
    BY <1>2, <1>5, <2>1
<1>7. ASSUME NEW i \in 1..N, f[i - 1] \in A[i - 1] PROVE f[i] \in A[i]
  <2>1. i \in 0..N /\ i - 1 \in 0..N
    BY <1>1
  <2>2. MergedInv(f[i - 1], all, i - 1)
    BY <1>7, <2>1
  <2>3. MergedInv(f[i], all, i)
    BY <1>5, <2>2, TakenKeeps DEF N
  <2> QED
    BY <2>1, <2>3
<1> HIDE DEF A
<1>8. \A i \in 0..N : f[i] \in A[i]
  BY <1>1, <1>6, <1>7, LoopInvariant
<1>9. MergedInv(f[N], all, N)
  <2>1. N \in 0..N
    BY <1>1
  <2> QED
    BY <1>8, <2>1 DEF A
<1> QED
  BY <1>1, <1>3, <1>4, <1>9 DEF MergedInv

------------------------------------------------------------------------------
(* The merged answers *)

\* Below a provider the loop over its keys has gathered the rows of it.
LEMMA GatheredAreRows ==
    ASSUME NEW acc, NEW R \in SUBSET TableRows, FiledInv(acc, R),
           NEW i \in DOMAIN acc.result
    PROVE  LET x == acc.result[i]
               all == ModelsOf(x.keys)
           IN /\ all \in Seq(Model)
              /\ \A j, l \in DOMAIN all : j <= l => all[j].owned_by <= all[l].owned_by
              /\ \A m \in Model : m \in ToSet(all) <=>
                    \E r \in R : r[1] = x.id /\ r[2] = m.owned_by /\ r[3] = m.id
<1> DEFINE T == acc.result  x == T[i]  keys == x.keys  all == ModelsOf(keys)
<1>1. T \in Seq(ProviderModels) /\ i \in DOMAIN T
  BY DEF FiledInv, Indexed
<1>2. Ascending(keys) /\ Ids(keys) = KeysIn(R, x.id)
  BY DEF FiledInv, KeysFiled
<1>3. \A j \in DOMAIN keys : KeyFiled(keys[j], ModelsIn(R, x.id, keys[j].id))
  BY DEF FiledInv, ModelsFiled
<1> HIDE DEF T
<1>4. /\ keys \in Seq(KeyModels)
      /\ \A j \in DOMAIN keys : keys[j].id \in KeyId /\ keys[j].models \in Seq(Model)
  BY <1>1, TreeElements
<1> HIDE DEF x, keys
<1>5. Owned(keys)
  BY <1>3 DEF KeyFiled, Owned
<1>6. Gathered(all, keys, Len(keys))
  BY <1>2, <1>4, <1>5, ModelsOfGathers
<1>7. DOMAIN keys = 1..Len(keys)
  BY <1>4
<1> HIDE DEF all
<1>8. ASSUME NEW m \in ToSet(all)
      PROVE  \E r \in R : r[1] = x.id /\ r[2] = m.owned_by /\ r[3] = m.id
  <2>1. PICK n \in DOMAIN all : m = all[n]
    BY DEF ToSet
  <2>2. PICK j \in DOMAIN keys : \E l \in DOMAIN keys[j].models : m = keys[j].models[l]
    BY <1>6, <1>7, <2>1 DEF Gathered
  <2>3. PICK l \in DOMAIN keys[j].models : m = keys[j].models[l]
    BY <2>2
  <2>4. m.owned_by = keys[j].id /\ m.id \in Ids(keys[j].models)
    BY <1>5, <2>3 DEF Owned, Ids
  <2>5. m.id \in ModelsIn(R, x.id, keys[j].id)
    BY <1>3, <2>4 DEF KeyFiled
  <2> QED
    BY <2>4, <2>5 DEF ModelsIn
<1>9. ASSUME NEW m \in Model, NEW r \in R,
             r[1] = x.id, r[2] = m.owned_by, r[3] = m.id
      PROVE  m \in ToSet(all)
  <2>1. m.owned_by \in Ids(keys)
    BY <1>2, <1>9 DEF KeysIn
  <2>2. PICK j \in DOMAIN keys : keys[j].id = m.owned_by
    BY <2>1 DEF Ids
  <2>3. m.id \in ModelsIn(R, x.id, keys[j].id)
    BY <1>9, <2>2 DEF ModelsIn
  <2>4. m.id \in Ids(keys[j].models)
    BY <1>3, <2>3 DEF KeyFiled
  <2>5. PICK l \in DOMAIN keys[j].models : keys[j].models[l].id = m.id
    BY <2>4 DEF Ids
  <2>6. keys[j].models[l] \in Model /\ keys[j].models[l].owned_by = m.owned_by
    BY <1>4, <1>5, <2>2 DEF Owned
  <2>7. keys[j].models[l] = m
    BY <2>5, <2>6 DEF Model
  <2>8. \E n \in DOMAIN all : all[n] = m
    BY <1>6, <1>7, <2>7 DEF Gathered
  <2> QED
    BY <2>8 DEF ToSet
<1>10. /\ all \in Seq(Model)
       /\ \A j, l \in DOMAIN all : j <= l => all[j].owned_by <= all[l].owned_by
  BY <1>6 DEF Gathered
<1>11. \A m \in Model : m \in ToSet(all) <=>
          \E r \in R : r[1] = x.id /\ r[2] = m.owned_by /\ r[3] = m.id
  BY <1>8, <1>9
<1> QED
  BY <1>10, <1>11 DEF all, keys, x, T

\* The first place of an id, by the order of the places.
LEMMA FirstPlace ==
    ASSUME NEW all \in Seq(Model), NEW i \in DOMAIN all
    PROVE  \E j \in DOMAIN all : j <= i /\ all[j].id = all[i].id /\ IsFirst(all, j)
<1> DEFINE S == {j \in Nat : j \in DOMAIN all /\ all[j].id = all[i].id}
<1>1. DOMAIN all = 1..Len(all) /\ Len(all) \in Nat
  OBVIOUS
<1>2. S \in SUBSET Nat /\ i \in S
  BY <1>1
<1>3. PICK j \in S : \A k \in S : ~(<<k, j>> \in OpToRel(<, Nat))
  BY <1>2, NatLessThanWellFounded, WFMin
<1>4. \A k \in S : ~(k < j)
  BY <1>2, <1>3 DEF OpToRel
<1>5. j \in DOMAIN all /\ all[j].id = all[i].id /\ j <= i
  BY <1>1, <1>2, <1>4
<1>6. IsFirst(all, j)
  <2>1. \A k \in 1..(j - 1) : k \in Nat /\ k \in DOMAIN all /\ k < j
    BY <1>1, <1>5
  <2> QED
    BY <1>4, <1>5, <2>1 DEF IsFirst
<1> QED
  BY <1>5, <1>6

\* The rows of the first key of a model.
FirstRows(R, p) ==
    {r \in R : r[1] = p /\ \A s \in R : s[1] = p /\ s[3] = r[3] => r[2] <= s[2]}

LEMMA MergedAreFirstRows ==
    ASSUME NEW p, NEW R \in SUBSET TableRows, NEW all \in Seq(Model),
           \A j, l \in DOMAIN all : j <= l => all[j].owned_by <= all[l].owned_by,
           \A m \in Model : m \in ToSet(all) <=>
              \E r \in R : r[1] = p /\ r[2] = m.owned_by /\ r[3] = m.id
    PROVE  /\ Distinct(Merged(all))
           /\ {<<m.id, m.owned_by>> : m \in ToSet(Merged(all))} =
                 {<<r[3], r[2]>> : r \in FirstRows(R, p)}
<1> DEFINE M == ToSet(Merged(all))
<1>1. /\ Distinct(Merged(all))
      /\ \A x : x \in M <=> \E j \in DOMAIN all : IsFirst(all, j) /\ x = all[j]
  BY MergedTakesFirst
<1> HIDE DEF M
<1>2. DOMAIN all = 1..Len(all) /\ Len(all) \in Nat
  OBVIOUS
<1>3. \A r \in R : r[2] \in KeyId /\ r[2] \in Nat /\ r[3] \in ModelId
  BY IdsAreNumbers DEF TableRows
<1>4. ASSUME NEW r \in R, r[1] = p
      PROVE  \E i \in DOMAIN all : all[i].id = r[3] /\ all[i].owned_by = r[2]
  <2> DEFINE m == [id |-> r[3], owned_by |-> r[2]]
  <2>1. m \in Model /\ m.id = r[3] /\ m.owned_by = r[2]
    BY <1>3 DEF Model
  <2> HIDE DEF m
  <2>2. m \in ToSet(all)
    BY <1>4, <2>1
  <2> QED
    BY <2>1, <2>2 DEF ToSet
<1>5. ASSUME NEW i \in DOMAIN all
      PROVE  \E r \in R : r[1] = p /\ r[2] = all[i].owned_by /\ r[3] = all[i].id
  <2>1. all[i] \in Model /\ all[i] \in ToSet(all)
    BY DEF ToSet
  <2> QED
    BY <2>1
<1>6. ASSUME NEW m \in M PROVE \E r \in FirstRows(R, p) : r[3] = m.id /\ r[2] = m.owned_by
  <2>1. PICK j \in DOMAIN all : IsFirst(all, j) /\ m = all[j]
    BY <1>1
  <2>2. PICK r \in R : r[1] = p /\ r[2] = m.owned_by /\ r[3] = m.id
    BY <1>5, <2>1
  <2>3. ASSUME NEW s \in R, s[1] = p, s[3] = r[3] PROVE r[2] <= s[2]
    <3>1. PICK i \in DOMAIN all : all[i].id = s[3] /\ all[i].owned_by = s[2]
      BY <1>4, <2>3
    <3>2. all[i].id = all[j].id
      BY <2>1, <2>2, <2>3, <3>1
    <3>3. i \notin 1..(j - 1)
      BY <2>1, <3>2 DEF IsFirst
    <3>4. j <= i
      BY <1>2, <3>3
    <3> QED
      BY <2>1, <2>2, <3>1, <3>4
  <2> QED
    BY <2>2, <2>3 DEF FirstRows
<1>7. ASSUME NEW r \in FirstRows(R, p) PROVE \E m \in M : m.id = r[3] /\ m.owned_by = r[2]
  <2>1. /\ r \in R /\ r[1] = p
        /\ \A s \in R : s[1] = p /\ s[3] = r[3] => r[2] <= s[2]
    BY DEF FirstRows
  <2>2. PICK i \in DOMAIN all : all[i].id = r[3] /\ all[i].owned_by = r[2]
    BY <1>4, <2>1
  <2>3. PICK j \in DOMAIN all : j <= i /\ all[j].id = all[i].id /\ IsFirst(all, j)
    BY FirstPlace
  <2>4. all[j] \in M
    BY <1>1, <2>3
  <2>5. all[j].owned_by <= r[2]
    BY <2>2, <2>3
  <2>6. PICK s \in R : s[1] = p /\ s[2] = all[j].owned_by /\ s[3] = all[j].id
    BY <1>5
  <2>7. r[2] <= s[2]
    BY <2>1, <2>2, <2>3, <2>6
  <2>8. all[j].owned_by = r[2]
    BY <1>3, <2>1, <2>5, <2>6, <2>7
  <2> QED
    BY <2>2, <2>3, <2>4, <2>8
<1>8. {<<m.id, m.owned_by>> : m \in M} = {<<r[3], r[2]>> : r \in FirstRows(R, p)}
  BY <1>6, <1>7
<1> QED
  BY <1>1, <1>8 DEF M

LEMMA MergedTreeIsRows ==
    ASSUME NEW acc, NEW R \in SUBSET TableRows, FiledInv(acc, R)
    PROVE  MergedIsRows([i \in DOMAIN acc.result |->
                           [id |-> acc.result[i].id,
                            models |-> Merged(ModelsOf(acc.result[i].keys))]], R)
<1> DEFINE T == acc.result
           U == [i \in DOMAIN T |->
                   [id |-> T[i].id, models |-> Merged(ModelsOf(T[i].keys))]]
<1>1. /\ DOMAIN U = DOMAIN T
      /\ \A i \in DOMAIN T : U[i].id = T[i].id /\ U[i].models = Merged(ModelsOf(T[i].keys))
  OBVIOUS
<1>2. Ascending(T) /\ Ids(T) = Providers(R)
  BY DEF FiledInv, ProvidersFiled
<1>3. ASSUME NEW i \in DOMAIN T
      PROVE  /\ Distinct(Merged(ModelsOf(T[i].keys)))
             /\ {<<m.id, m.owned_by>> : m \in ToSet(Merged(ModelsOf(T[i].keys)))} =
                   {<<r[3], r[2]>> : r \in FirstRows(R, T[i].id)}
  <2> DEFINE p == T[i].id  all == ModelsOf(T[i].keys)
  <2>1. /\ all \in Seq(Model)
        /\ \A j, l \in DOMAIN all : j <= l => all[j].owned_by <= all[l].owned_by
        /\ \A m \in Model : m \in ToSet(all) <=>
              \E r \in R : r[1] = p /\ r[2] = m.owned_by /\ r[3] = m.id
    BY GatheredAreRows
  <2> HIDE DEF p, all
  <2>2. /\ Distinct(Merged(all))
        /\ {<<m.id, m.owned_by>> : m \in ToSet(Merged(all))} =
              {<<r[3], r[2]>> : r \in FirstRows(R, p)}
    BY <2>1, MergedAreFirstRows
  <2> QED
    BY <2>2 DEF p, all
<1> HIDE DEF U, T
<1>4. Ascending(U)
  BY <1>1, <1>2 DEF Ascending
<1>5. {x.id : x \in ToSet(U)} = {r[1] : r \in R}
  <2>1. {x.id : x \in ToSet(U)} = Ids(T)
    BY <1>1 DEF ToSet, Ids
  <2> QED
    BY <1>2, <2>1 DEF Providers
<1>6. ASSUME NEW x \in ToSet(U)
      PROVE  /\ Distinct(x.models)
             /\ {<<m.id, m.owned_by>> : m \in ToSet(x.models)} =
                   {<<r[3], r[2]>> : r \in FirstRows(R, x.id)}
  <2>1. PICK i \in DOMAIN T : x = U[i]
    BY <1>1 DEF ToSet
  <2>2. x.id = T[i].id /\ x.models = Merged(ModelsOf(T[i].keys))
    BY <1>1, <2>1
  <2> QED
    BY <1>3, <2>2
<1>7. MergedIsRows(U, R)
  BY <1>4, <1>5, <1>6 DEF MergedIsRows, FirstRows
<1> QED
  BY <1>7 DEF U, T

(***************************************************************************)
(* The merged answer has every model of the query once below its provider, *)
(* as the first of its keys has it: for every table and every search.      *)
(***************************************************************************)
THEOREM EveryModelIsMergedOnce == MergedOnce
<1> SUFFICES ASSUME NEW t \in Tables, NEW matched \in SUBSET ModelId
             PROVE  MergedIsRows(Listed(t, "merged", matched), Rows(t, matched))
  BY DEF MergedOnce
<1> DEFINE R == Rows(t, matched)  acc == FoldLeft(Filed, NoneFiled, InOrder(R))
<1>1. R \in SUBSET TableRows /\ IsFiniteSet(R) /\ R \subseteq Triples
  BY RowsAreFinite
<1>2. Listed(t, "merged", matched) =
         [i \in DOMAIN acc.result |->
            [id |-> acc.result[i].id, models |-> Merged(ModelsOf(acc.result[i].keys))]]
  BY DEF Listed, ListMerged, ListByKey
<1> HIDE DEF R
<1>3. FiledInv(acc, R)
  BY <1>1, LoopFiles
<1> HIDE DEF acc
<1>4. MergedIsRows([i \in DOMAIN acc.result |->
                      [id |-> acc.result[i].id,
                       models |-> Merged(ModelsOf(acc.result[i].keys))]], R)
  BY <1>1, <1>3, MergedTreeIsRows
<1> QED
  BY <1>2, <1>4 DEF R

------------------------------------------------------------------------------
(* What the pages show *)

\* A page that shows a list by key shows every row of the query once.
THEOREM PagesListEveryRow == Spec => []ListedByKey
<1>1. ListedByKey
  BY EveryRowIsListed DEF ListedByKey
<1> QED
  BY <1>1, PTL

\* A page that shows a merged list shows every model of a provider once.
THEOREM PagesMergeEveryModel == Spec => []ListedMerged
<1>1. ListedMerged
  BY EveryModelIsMergedOnce DEF ListedMerged
<1> QED
  BY <1>1, PTL
==============================================================================
