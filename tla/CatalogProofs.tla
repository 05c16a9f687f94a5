---------------------------- MODULE CatalogProofs ----------------------------
(***************************************************************************)
(* What one administration statement preserves, for any number of rows.    *)
(***************************************************************************)
EXTENDS Catalog, TLAPS

USE DEF Provider, Key

LEMMA AnyInstances == AnyName \in Name /\ AnySecret \in Secret
BY CatalogAssumption DEF AnyName, AnySecret

LEMMA AnyRows ==
    /\ NoProvider \in ProviderRow
    /\ \A p \in 0..MaxProvider : NoKey(p) \in KeyRow
BY AnyInstances DEF NoProvider, NoKey, ProviderRow, KeyRow

LEMMA AdminType == CatTypeOK /\ AdminStatement => CatTypeOK'
<1> SUFFICES ASSUME CatTypeOK, AdminStatement PROVE CatTypeOK'
  OBVIOUS
<1> USE DEF CatTypeOK, ProviderRow
<1>1. ASSUME NEW n \in Name, NEW on \in BOOLEAN, InsertProvider(n, on)
      PROVE  CatTypeOK'
  BY <1>1, CatalogAssumption DEF InsertProvider
<1>2. ASSUME NEW p \in Provider, NEW n \in Name, NEW on \in BOOLEAN,
             UpdateProviderRow(p, n, on)
      PROVE  CatTypeOK'
  BY <1>2 DEF UpdateProviderRow
<1>3. ASSUME NEW p \in Provider, NEW fk \in FkModes, DeleteProviderRow(p, fk)
      PROVE  CatTypeOK'
  BY <1>3, AnyRows, CatalogAssumption DEF DeleteProviderRow
<1>4. ASSUME NEW p \in 1..last_id.provider, NEW n \in Name, NEW s \in Secret,
             NEW on \in BOOLEAN, NEW fk \in FkModes, InsertKey(p, n, s, on, fk)
      PROVE  CatTypeOK'
  BY <1>4, CatalogAssumption DEF InsertKey, KeyRow
<1>5. ASSUME NEW k \in Key, NEW n \in Name, NEW s \in Secret, NEW on \in BOOLEAN,
             UpdateKeyRow(k, n, s, on)
      PROVE  CatTypeOK'
  <2>1. [provider_keys[k] EXCEPT !.name = n, !.api_key = s, !.enabled = on] \in KeyRow
    BY ZenonT(60) DEF KeyRow
  <2> QED
    BY <1>5, <2>1 DEF UpdateKeyRow
<1>6. ASSUME NEW k \in Key, NEW fk \in FkModes, DeleteKeyRow(k, fk)
      PROVE  CatTypeOK'
  <2>1. provider_keys[k].provider \in 0..MaxProvider
    BY DEF KeyRow
  <2> QED
    BY <1>6, <2>1, AnyRows DEF DeleteKeyRow
<1> QED
  BY <1>1, <1>2, <1>3, <1>4, <1>5, <1>6 DEF AdminStatement

LEMMA AdminNoOrphans ==
    ASSUME FkModes = {TRUE}, CatTypeOK, NoOrphans, AdminStatement
    PROVE  NoOrphans'
<1> USE DEF NoOrphans, CatTypeOK
<1>1. ASSUME NEW n \in Name, NEW on \in BOOLEAN, InsertProvider(n, on)
      PROVE  NoOrphans'
  BY <1>1 DEF InsertProvider
<1>2. ASSUME NEW p \in Provider, NEW n \in Name, NEW on \in BOOLEAN,
             UpdateProviderRow(p, n, on)
      PROVE  NoOrphans'
  <2>1. \A q \in Provider : providers'[q].live <=> providers[q].live
    BY <1>2 DEF UpdateProviderRow, ProviderRow
  <2> QED
    BY <1>2, <2>1 DEF UpdateProviderRow
<1>3. ASSUME NEW p \in Provider, NEW fk \in FkModes, DeleteProviderRow(p, fk)
      PROVE  NoOrphans'
  BY <1>3 DEF DeleteProviderRow, KeysOf, NoKey, NoProvider
<1>4. ASSUME NEW p \in 1..last_id.provider, NEW n \in Name, NEW s \in Secret,
             NEW on \in BOOLEAN, NEW fk \in FkModes, InsertKey(p, n, s, on, fk)
      PROVE  NoOrphans'
  <2>1. p \in Provider /\ providers[p].live
    BY <1>4, CatalogAssumption DEF InsertKey, KeyInsertable
  <2> QED
    BY <1>4, <2>1 DEF InsertKey
<1>5. ASSUME NEW k \in Key, NEW n \in Name, NEW s \in Secret, NEW on \in BOOLEAN,
             UpdateKeyRow(k, n, s, on)
      PROVE  NoOrphans'
  <2>1. \A j \in Key : /\ provider_keys'[j].live <=> provider_keys[j].live
                       /\ provider_keys'[j].provider = provider_keys[j].provider
    BY <1>5 DEF UpdateKeyRow, KeyRow
  <2> QED
    BY <1>5, <2>1 DEF UpdateKeyRow
<1>6. ASSUME NEW k \in Key, NEW fk \in FkModes, DeleteKeyRow(k, fk)
      PROVE  NoOrphans'
  BY <1>6 DEF DeleteKeyRow, NoKey
<1> QED
  BY <1>1, <1>2, <1>3, <1>4, <1>5, <1>6 DEF AdminStatement
==============================================================================
