--------------------------- MODULE AdminApiProofs ----------------------------
(***************************************************************************)
(* Theorems about the administration API for any number of clients, rows,  *)
(* names and secrets.                                                      *)
(***************************************************************************)
EXTENDS AdminApi, CatalogProofs, TLAPS

USE DEF Provider, Key, Idle

ReqTypeOK == req \in [Admin -> Request]

(***************************************************************************)
(* Requests in flight and 404 answers speak of ids that were allocated.    *)
(***************************************************************************)
AllocatedIds ==
    \A a \in Admin :
        /\ req[a].pc \in {"insert_key", "read_provider"} \/ req[a].missing = "provider"
              => req[a].provider \in 1..last_id.provider
        /\ req[a].pc \in {"write_key", "read_key"} \/ req[a].missing = "key"
              => req[a].key \in 1..last_id.key

\* What a request or an answer is about.
LEMMA AboutRows ==
    \A p, k : About(p, k).provider = p /\ About(p, k).key = k
BY DEF About, NoRequest

LEMMA StepIsStatement ==
    ASSUME CatTypeOK, ReqTypeOK, AllocatedIds, Next
    PROVE  AdminStatement \/ UNCHANGED catVars
<1> PICK a \in Admin :
        \/ CreateProvider(a) \/ ReadProvider(a)
        \/ \E p \in Provider :
              UpdateProvider(a, p) \/ DeleteProvider(a, p) \/ CreateKey(a, p)
        \/ InsertNewKey(a) \/ WriteKey(a) \/ ReadKey(a)
        \/ \E k \in Key, blank \in BOOLEAN : UpdateKey(a, k, blank)
        \/ \E k \in Key : DeleteKey(a, k)
        \/ Refused(a) \/ StatementFails(a)
  BY DEF Next
<1>0. req[a] \in Request
  BY DEF ReqTypeOK
<1>1. CASE CreateProvider(a)
  BY <1>1 DEF CreateProvider, AdminStatement
<1>2. ASSUME NEW p \in Provider, UpdateProvider(a, p)
      PROVE  AdminStatement \/ UNCHANGED catVars
  BY <1>2 DEF UpdateProvider, AdminStatement
<1>3. ASSUME NEW p \in Provider, DeleteProvider(a, p)
      PROVE  AdminStatement \/ UNCHANGED catVars
  BY <1>3 DEF DeleteProvider, AdminStatement
<1>4. CASE InsertNewKey(a)
  <2>1. req[a].provider \in 1..last_id.provider
    BY <1>4 DEF AllocatedIds, InsertNewKey
  <2> QED
    BY <1>0, <1>4, <2>1 DEF InsertNewKey, AdminStatement, Request
<1>5. CASE WriteKey(a)
  <2>1. req[a].key \in Key
    BY <1>5, CatalogAssumption DEF AllocatedIds, WriteKey, CatTypeOK
  <2> QED
    BY <1>0, <1>5, <2>1 DEF WriteKey, AdminStatement, Request
<1>6. ASSUME NEW k \in Key, DeleteKey(a, k)
      PROVE  AdminStatement \/ UNCHANGED catVars
  BY <1>6 DEF DeleteKey, AdminStatement
<1> QED
  BY <1>1, <1>2, <1>3, <1>4, <1>5, <1>6
     DEF ReadProvider, CreateKey, UpdateKey, ReadKey, StatementFails, Refused

\* What a step leaves of the client's request.
Replied(a) ==
    \E p \in 0..MaxProvider, k \in 0..MaxKey,
       answer \in {"ok", "not_found", "error"},
       missing \in {"none", "provider", "key"} :
        /\ req' = [req EXCEPT ![a] = [NoRequest EXCEPT !.provider = p, !.key = k,
                       !.answer = answer, !.missing = missing]]
        /\ UNCHANGED catVars \/ missing = "none"
        /\ missing = "provider" => p \in 1..last_id.provider /\ ~providers[p].live
        /\ missing = "key" => k \in 1..last_id.key /\ ~provider_keys[k].live

GoesOn(a) ==
    \E r \in Request :
        /\ req' = [req EXCEPT ![a] = r]
        /\ r.pc # "idle" /\ r.missing = "none"
        /\ r.pc \in {"insert_key", "read_provider"} => r.provider \in 1..last_id'.provider
        /\ r.pc \in {"write_key", "read_key"} => r.key \in 1..last_id'.key

\* Reply with a 404 or an error about allocated rows, and Continue, have those forms.
LEMMA ReplyForm ==
    ASSUME NEW a \in Admin, NEW r,
           r.provider \in 0..MaxProvider, r.key \in 0..MaxKey,
           NEW answer \in {"ok", "not_found", "error"},
           NEW missing \in {"none", "provider", "key"},
           Reply(a, r, answer, missing),
           UNCHANGED catVars \/ missing = "none",
           missing = "provider" =>
              r.provider \in 1..last_id.provider /\ ~providers[r.provider].live,
           missing = "key" => r.key \in 1..last_id.key /\ ~provider_keys[r.key].live
    PROVE  Replied(a)
BY DEF Replied, Reply

LEMMA ContinueForm ==
    ASSUME NEW a \in Admin, NEW r \in Request, Continue(a, r),
           r.pc # "idle", r.missing = "none",
           r.pc \in {"insert_key", "read_provider"} => r.provider \in 1..last_id'.provider,
           r.pc \in {"write_key", "read_key"} => r.key \in 1..last_id'.key
    PROVE  GoesOn(a)
BY DEF GoesOn, Continue

LEMMA StepIsAnswer ==
    ASSUME CatTypeOK, ReqTypeOK, AllocatedIds, Next
    PROVE  \E a \in Admin : Replied(a) \/ GoesOn(a)
<1> PICK a \in Admin :
        \/ CreateProvider(a) \/ ReadProvider(a)
        \/ \E p \in Provider :
              UpdateProvider(a, p) \/ DeleteProvider(a, p) \/ CreateKey(a, p)
        \/ InsertNewKey(a) \/ WriteKey(a) \/ ReadKey(a)
        \/ \E k \in Key, blank \in BOOLEAN : UpdateKey(a, k, blank)
        \/ \E k \in Key : DeleteKey(a, k)
        \/ Refused(a) \/ StatementFails(a)
  BY DEF Next
<1> DEFINE Goal == Replied(a) \/ GoesOn(a)
<1>0. /\ req[a] \in Request
      /\ req[a].provider \in 0..MaxProvider /\ req[a].key \in 0..MaxKey
      /\ last_id.provider \in 0..MaxProvider /\ last_id.key \in 0..MaxKey
      /\ 0 \in 0..MaxProvider /\ 0 \in 0..MaxKey
      /\ Provider \subseteq 0..MaxProvider /\ Key \subseteq 0..MaxKey
      /\ \A k \in Key : provider_keys[k].provider \in 0..MaxProvider
  BY CatalogAssumption DEF ReqTypeOK, CatTypeOK, Request, KeyRow
<1>1. CASE CreateProvider(a)
  <2>1. /\ last_id'.provider = last_id.provider + 1
        /\ last_id'.provider \in 1..MaxProvider
    BY <1>0, <1>1, CatalogAssumption DEF CreateProvider, InsertProvider, CatTypeOK
  <2> DEFINE r == [About(last_id'.provider, 0) EXCEPT !.pc = "read_provider"]
  <2>2. /\ r \in Request /\ r.pc = "read_provider" /\ r.missing = "none"
        /\ r.provider = last_id'.provider
    BY <1>0, <2>1, AnyInstances DEF About, NoRequest, Request
  <2>3. Continue(a, r)
    BY <1>1 DEF CreateProvider
  <2> HIDE DEF r
  <2> QED
    BY <2>1, <2>2, <2>3, ContinueForm
<1>2. ASSUME NEW p \in Provider, UpdateProvider(a, p) PROVE Goal
  <2> DEFINE r == [About(p, 0) EXCEPT !.pc = "read_provider"]
  <2>1. /\ r \in Request /\ r.pc = "read_provider" /\ r.missing = "none"
        /\ r.provider = p
    BY <1>0, AnyInstances DEF About, NoRequest, Request
  <2>2. About(p, 0).provider = p /\ About(p, 0).key = 0 /\ p \in 1..last_id.provider
    BY <1>0, <1>2, AboutRows DEF UpdateProvider
  <2>3. CASE UNCHANGED last_id /\ Continue(a, r)
    <3> HIDE DEF r
    <3> QED
      BY <2>1, <2>2, <2>3, ContinueForm
  <2>4. CASE /\ ~providers[p].live
             /\ Reply(a, About(p, 0), "not_found", "provider")
             /\ UNCHANGED catVars
    BY <1>0, <2>2, <2>4, ReplyForm
  <2> QED
    BY <1>2, <2>3, <2>4 DEF UpdateProvider, UpdateProviderRow
<1>3. ASSUME NEW p \in Provider, DeleteProvider(a, p) PROVE Goal
  <2>1. About(p, 0).provider = p /\ About(p, 0).key = 0 /\ p \in 1..last_id.provider
    BY <1>0, <1>3, AboutRows DEF DeleteProvider
  <2>2. CASE Reply(a, About(p, 0), "ok", "none")
    BY <1>0, <2>1, <2>2, ReplyForm
  <2>3. CASE /\ ~providers[p].live
             /\ Reply(a, About(p, 0), "not_found", "provider")
             /\ UNCHANGED catVars
    BY <1>0, <2>1, <2>3, ReplyForm
  <2> QED
    BY <1>3, <2>2, <2>3 DEF DeleteProvider
<1>4. CASE ReadProvider(a)
  <2>1. req[a].provider \in 1..last_id.provider
    BY <1>4 DEF AllocatedIds, ReadProvider
  <2> QED
    BY <1>0, <1>4, <2>1, ReplyForm DEF ReadProvider
<1>5. ASSUME NEW p \in Provider, CreateKey(a, p) PROVE Goal
  <2>1. About(p, 0).provider = p /\ About(p, 0).key = 0 /\ p \in 1..last_id.provider
    <3>1. p <= last_id.provider
      BY <1>5, Zenon DEF CreateKey
    <3> QED
      BY <1>0, <3>1, AboutRows
  <2>2. CASE Reply(a, About(p, 0), "not_found", "provider") /\ ~providers[p].live
    BY <1>0, <1>5, <2>1, <2>2, ReplyForm DEF CreateKey
  <2>3. ASSUME NEW n \in Name, NEW s \in Secret, NEW on \in BOOLEAN,
               Continue(a, [About(p, 0) EXCEPT !.pc = "insert_key", !.name = n,
                                !.api_key = s, !.enabled = on])
        PROVE  Goal
    <3> DEFINE r == [About(p, 0) EXCEPT !.pc = "insert_key", !.name = n,
                                !.api_key = s, !.enabled = on]
    <3>1. /\ r \in Request /\ r.pc = "insert_key" /\ r.missing = "none"
          /\ r.provider = p
      BY <1>0, AnyInstances DEF About, NoRequest, Request
    <3>2. last_id' = last_id /\ Continue(a, r)
      BY <1>5, <2>3 DEF CreateKey, catVars
    <3> HIDE DEF r
    <3> QED
      BY <2>1, <3>1, <3>2, ContinueForm
  <2> QED
    BY <1>5, <2>2, <2>3 DEF CreateKey
<1>6. CASE InsertNewKey(a)
  <2>1. ASSUME NEW fk \in FkModes,
               InsertKey(req[a].provider, req[a].name, req[a].api_key,
                         req[a].enabled, fk),
               Continue(a, [About(req[a].provider, last_id'.key)
                               EXCEPT !.pc = "read_key"])
        PROVE  Goal
    <3>1. last_id'.key = last_id.key + 1 /\ last_id'.key \in 1..MaxKey
      BY <1>0, <2>1, CatalogAssumption DEF InsertKey, CatTypeOK
    <3> DEFINE r == [About(req[a].provider, last_id'.key) EXCEPT !.pc = "read_key"]
    <3>2. /\ r \in Request /\ r.pc = "read_key" /\ r.missing = "none"
          /\ r.key = last_id'.key
      <4> DEFINE q == req[a].provider
                 j == last_id'.key
      <4>1. q \in 0..MaxProvider /\ j \in 0..MaxKey
        BY <1>0, <3>1
      <4> HIDE DEF q, j
      <4>2. LET x == [About(q, j) EXCEPT !.pc = "read_key"] IN
              x \in Request /\ x.pc = "read_key" /\ x.missing = "none" /\ x.key = j
        BY <4>1, AnyInstances DEF About, NoRequest, Request
      <4> QED
        BY <4>2 DEF q, j
    <3>3. Continue(a, r)
      BY <2>1
    <3> HIDE DEF r
    <3> QED
      BY <3>1, <3>2, <3>3, ContinueForm
  <2>2. CASE Reply(a, req[a], "error", "none")
    BY <1>0, <2>2, ReplyForm
  <2> QED
    BY <1>6, <2>1, <2>2 DEF InsertNewKey
<1>7. ASSUME NEW k \in Key, NEW blank \in BOOLEAN, UpdateKey(a, k, blank) PROVE Goal
  <2> DEFINE q == provider_keys[k].provider
  <2>1. /\ About(q, k).provider = q /\ About(q, k).key = k
        /\ q \in 0..MaxProvider /\ k \in 0..MaxKey
        /\ k \in 1..last_id.key /\ UNCHANGED catVars
    <3>1. k <= last_id.key /\ UNCHANGED catVars
      BY <1>7, Zenon DEF UpdateKey
    <3> QED
      BY <1>0, <3>1, AboutRows
  <2>2. CASE Reply(a, About(q, k), "not_found", "key") /\ ~provider_keys[k].live
    BY <2>1, <2>2, ReplyForm
  <2>3. ASSUME NEW n \in Name, NEW s \in Secret, NEW on \in BOOLEAN,
               Continue(a, [About(q, k) EXCEPT !.pc = "write_key", !.name = n,
                               !.api_key = s, !.enabled = on, !.blank = blank])
        PROVE  Goal
    <3> HIDE DEF q
    <3> DEFINE r == [About(q, k) EXCEPT !.pc = "write_key", !.name = n,
                        !.api_key = s, !.enabled = on, !.blank = blank]
    <3>1. r \in Request /\ r.pc = "write_key" /\ r.missing = "none" /\ r.key = k
      BY <2>1, AnyInstances DEF About, NoRequest, Request
    <3>2. last_id' = last_id /\ Continue(a, r)
      BY <2>1, <2>3 DEF catVars
    <3> HIDE DEF r
    <3> QED
      BY <2>1, <3>1, <3>2, ContinueForm
  <2>4. provider_keys[k].api_key \in Secret
    BY DEF CatTypeOK, KeyRow
  <2>5. \/ Reply(a, About(q, k), "not_found", "key") /\ ~provider_keys[k].live
        \/ \E n \in Name, on \in BOOLEAN, s \in Secret :
              Continue(a, [About(q, k) EXCEPT !.pc = "write_key", !.name = n,
                              !.api_key = s, !.enabled = on, !.blank = blank])
    <3>1. (IF blank THEN {provider_keys[k].api_key} ELSE Secret) \subseteq Secret
      BY <2>4
    <3> QED
      BY <1>7, <3>1 DEF UpdateKey
  <2> QED
    BY <2>2, <2>3, <2>5
<1>8. CASE WriteKey(a)
  <2>1. req[a].key \in 1..last_id.key
    BY <1>8 DEF AllocatedIds, WriteKey
  <2> DEFINE r == [About(req[a].provider, req[a].key) EXCEPT !.pc = "read_key"]
  <2>2. /\ r \in Request /\ r.pc = "read_key" /\ r.missing = "none"
        /\ r.key = req[a].key
    <3> DEFINE q == req[a].provider
               j == req[a].key
    <3>1. q \in 0..MaxProvider /\ j \in 0..MaxKey
      BY <1>0
    <3> HIDE DEF q, j
    <3>2. LET x == [About(q, j) EXCEPT !.pc = "read_key"] IN
            x \in Request /\ x.pc = "read_key" /\ x.missing = "none" /\ x.key = j
      BY <3>1, AnyInstances DEF About, NoRequest, Request
    <3> QED
      BY <3>2 DEF q, j
  <2>3. CASE UNCHANGED last_id /\ Continue(a, r)
    <3> HIDE DEF r
    <3> QED
      BY <2>1, <2>2, <2>3, ContinueForm
  <2>4. CASE /\ ~provider_keys[req[a].key].live
             /\ Reply(a, req[a], "not_found", "key")
             /\ UNCHANGED catVars
    BY <1>0, <2>1, <2>4, ReplyForm
  <2> QED
    BY <1>8, <2>3, <2>4 DEF WriteKey, UpdateKeyRow
<1>9. ASSUME NEW k \in Key, DeleteKey(a, k) PROVE Goal
  <2> DEFINE q == provider_keys[k].provider
  <2>1. /\ About(q, k).provider = q /\ About(q, k).key = k
        /\ q \in 0..MaxProvider /\ k \in 0..MaxKey /\ k \in 1..last_id.key
    BY <1>0, <1>9, AboutRows DEF DeleteKey
  <2>2. CASE Reply(a, About(q, k), "ok", "none")
    BY <2>1, <2>2, ReplyForm
  <2>3. CASE /\ ~provider_keys[k].live
             /\ Reply(a, About(q, k), "not_found", "key")
             /\ UNCHANGED catVars
    BY <2>1, <2>3, ReplyForm
  <2> QED
    BY <1>9, <2>2, <2>3 DEF DeleteKey
<1>10. CASE ReadKey(a)
  <2>1. req[a].key \in 1..last_id.key
    BY <1>10 DEF AllocatedIds, ReadKey
  <2> QED
    BY <1>0, <1>10, <2>1, ReplyForm DEF ReadKey
<1>11. CASE StatementFails(a)
  BY <1>0, <1>11, ReplyForm DEF StatementFails
<1>12. CASE Refused(a)
  <2>1. NoRequest.provider = 0 /\ NoRequest.key = 0
    BY DEF NoRequest
  <2> QED
    BY <1>0, <1>12, <2>1, ReplyForm DEF Refused
<1> QED
  BY <1>1, <1>2, <1>3, <1>4, <1>5, <1>6, <1>7, <1>8, <1>9, <1>10, <1>11,
     <1>12

------------------------------------------------------------------------------
\* An id is allocated once, and no statement revives the row of an allocated id.
LEMMA GoneStaysGone ==
    ASSUME CatTypeOK, AdminStatement
    PROVE  /\ last_id.provider <= last_id'.provider /\ last_id.key <= last_id'.key
           /\ \A p \in 1..last_id.provider : ~providers[p].live => ~providers'[p].live
           /\ \A k \in 1..last_id.key : ~provider_keys[k].live => ~provider_keys'[k].live
<1> DEFINE Goal == /\ last_id.provider <= last_id'.provider
                   /\ last_id.key <= last_id'.key
                   /\ \A p \in 1..last_id.provider :
                         ~providers[p].live => ~providers'[p].live
                   /\ \A k \in 1..last_id.key :
                         ~provider_keys[k].live => ~provider_keys'[k].live
<1>0. /\ last_id.provider \in 0..MaxProvider /\ last_id.key \in 0..MaxKey
      /\ 1..last_id.provider \subseteq Provider /\ 1..last_id.key \subseteq Key
  BY CatalogAssumption DEF CatTypeOK
<1>1. ASSUME NEW n \in Name, NEW on \in BOOLEAN, InsertProvider(n, on) PROVE Goal
  BY <1>0, <1>1, CatalogAssumption DEF InsertProvider, CatTypeOK
<1>2. ASSUME NEW p \in Provider, NEW n \in Name, NEW on \in BOOLEAN,
             UpdateProviderRow(p, n, on)
      PROVE  Goal
  BY <1>0, <1>2, CatalogAssumption DEF UpdateProviderRow, CatTypeOK
<1>3. ASSUME NEW p \in Provider, NEW fk \in FkModes, DeleteProviderRow(p, fk)
      PROVE  Goal
  BY <1>0, <1>3, CatalogAssumption
     DEF DeleteProviderRow, CatTypeOK, NoProvider, NoKey
<1>4. ASSUME NEW p \in 1..last_id.provider, NEW n \in Name, NEW s \in Secret,
             NEW on \in BOOLEAN, NEW fk \in FkModes, InsertKey(p, n, s, on, fk)
      PROVE  Goal
  BY <1>0, <1>4, CatalogAssumption DEF InsertKey, CatTypeOK
<1>5. ASSUME NEW k \in Key, NEW n \in Name, NEW s \in Secret, NEW on \in BOOLEAN,
             UpdateKeyRow(k, n, s, on)
      PROVE  Goal
  BY <1>0, <1>5, CatalogAssumption DEF UpdateKeyRow, CatTypeOK
<1>6. ASSUME NEW k \in Key, NEW fk \in FkModes, DeleteKeyRow(k, fk) PROVE Goal
  BY <1>0, <1>6, CatalogAssumption DEF DeleteKeyRow, CatTypeOK, NoKey
<1> QED
  BY <1>1, <1>2, <1>3, <1>4, <1>5, <1>6 DEF AdminStatement

(***************************************************************************)
(* The inductive invariant: NotFoundIsFinal needs that a 404 speaks of an  *)
(* id already allocated, because only a fresh id can come to life.         *)
(***************************************************************************)
Inv == CatTypeOK /\ ReqTypeOK /\ AllocatedIds /\ NotFoundIsFinal

LEMMA InitInv == Init => Inv
<1> SUFFICES ASSUME Init PROVE Inv
  OBVIOUS
<1>1. CatTypeOK
  BY AnyRows, CatalogAssumption DEF Init, CatInit, CatTypeOK
<1>2. NoRequest \in Request
  BY AnyInstances, CatalogAssumption DEF NoRequest, Request
<1>3. ReqTypeOK
  BY <1>2 DEF Init, ReqTypeOK
<1>4. AllocatedIds /\ NotFoundIsFinal
  BY DEF Init, NoRequest, AllocatedIds, NotFoundIsFinal
<1> QED
  BY <1>1, <1>3, <1>4 DEF Inv

LEMMA NextInv == Inv /\ [Next]_vars => Inv'
<1> SUFFICES ASSUME Inv, [Next]_vars PROVE Inv'
  OBVIOUS
<1>1. CASE UNCHANGED vars
  BY <1>1 DEF vars, catVars, Inv, CatTypeOK, ReqTypeOK, AllocatedIds, NotFoundIsFinal
<1>2. CASE Next
  <2>0. CatTypeOK /\ ReqTypeOK /\ AllocatedIds /\ NotFoundIsFinal
    BY DEF Inv
  <2>1. AdminStatement \/ UNCHANGED catVars
    BY <1>2, <2>0, StepIsStatement
  <2>2. CatTypeOK'
    BY <2>0, <2>1, AdminType DEF catVars, CatTypeOK
  <2>3. /\ last_id.provider <= last_id'.provider /\ last_id.key <= last_id'.key
        /\ \A p \in 1..last_id.provider : ~providers[p].live => ~providers'[p].live
        /\ \A k \in 1..last_id.key : ~provider_keys[k].live => ~provider_keys'[k].live
    BY <2>0, <2>1, GoneStaysGone, CatalogAssumption DEF catVars, CatTypeOK
  <2>4. PICK a \in Admin : Replied(a) \/ GoesOn(a)
    BY <1>2, <2>0, StepIsAnswer
  <2>5. \A b \in Admin \ {a} : req'[b] = req[b]
    BY <2>0, <2>4 DEF Replied, GoesOn, ReqTypeOK
  <2>6. /\ ReqTypeOK'
        /\ req'[a].pc \in {"insert_key", "read_provider"} \/ req'[a].missing = "provider"
              => req'[a].provider \in 1..last_id'.provider
        /\ req'[a].pc \in {"write_key", "read_key"} \/ req'[a].missing = "key"
              => req'[a].key \in 1..last_id'.key
        /\ req'[a].missing = "provider" => ~providers'[req'[a].provider].live
        /\ req'[a].missing = "key" => ~provider_keys'[req'[a].key].live
    <3>1. CASE Replied(a)
      <4>1. PICK p \in 0..MaxProvider, k \in 0..MaxKey,
                 answer \in {"ok", "not_found", "error"},
                 missing \in {"none", "provider", "key"} :
              /\ req' = [req EXCEPT ![a] = [NoRequest EXCEPT !.provider = p, !.key = k,
                             !.answer = answer, !.missing = missing]]
              /\ UNCHANGED catVars \/ missing = "none"
              /\ missing = "provider" =>
                    p \in 1..last_id.provider /\ ~providers[p].live
              /\ missing = "key" => k \in 1..last_id.key /\ ~provider_keys[k].live
        BY <3>1 DEF Replied
      <4> DEFINE r == [NoRequest EXCEPT !.provider = p, !.key = k,
                             !.answer = answer, !.missing = missing]
      <4>2. /\ r \in Request /\ r.pc = "idle" /\ r.missing = missing
            /\ r.provider = p /\ r.key = k
        BY AnyInstances DEF NoRequest, Request
      <4>3. req' = [req EXCEPT ![a] = r]
        BY <4>1
      <4> HIDE DEF r
      <4>4. ReqTypeOK' /\ req'[a] = r
        BY <2>0, <4>2, <4>3 DEF ReqTypeOK
      <4> QED
        BY <4>1, <4>2, <4>4 DEF catVars
    <3>2. CASE GoesOn(a)
      BY <2>0, <3>2 DEF GoesOn, ReqTypeOK
    <3> QED
      BY <2>4, <3>1, <3>2
  <2>7. AllocatedIds'
    <3>1. /\ 1..last_id.provider \subseteq 1..last_id'.provider
          /\ 1..last_id.key \subseteq 1..last_id'.key
      BY <2>0, <2>2, <2>3, CatalogAssumption DEF CatTypeOK
    <3> QED
      BY <2>0, <2>5, <2>6, <3>1 DEF AllocatedIds
  <2>8. NotFoundIsFinal'
    BY <2>0, <2>3, <2>5, <2>6 DEF AllocatedIds, NotFoundIsFinal
  <2> QED
    BY <2>2, <2>6, <2>7, <2>8 DEF Inv
<1> QED
  BY <1>1, <1>2

(***************************************************************************)
(* Type correctness of the tables and of every request in progress.        *)
(***************************************************************************)
THEOREM TypeCorrect == Spec => []TypeOK
<1>1. Inv => TypeOK
  BY DEF Inv, TypeOK, ReqTypeOK
<1> QED
  BY <1>1, InitInv, NextInv, PTL DEF Spec

(***************************************************************************)
(* A request that was told 404 was told the truth for good, whatever other *)
(* requests have in flight (GetProvider, getKey, ensureAffected).          *)
(***************************************************************************)
THEOREM NotFoundStaysTrue == Spec => []NotFoundIsFinal
<1>1. Inv => NotFoundIsFinal
  BY DEF Inv
<1> QED
  BY <1>1, InitInv, NextInv, PTL DEF Spec

(***************************************************************************)
(* The handlers implement the statement environment in which SyncService   *)
(* is checked and proved.                                                  *)
(***************************************************************************)
THEOREM HandlersRunStatements == Spec => StatementsOnly
<1>1. Init => CatInit
  BY DEF Init
<1>2. Inv /\ [Next]_vars => [AdminStatement]_catVars
  <2>1. ASSUME Inv, Next PROVE [AdminStatement]_catVars
    BY <2>1, StepIsStatement DEF Inv
  <2> QED
    BY <2>1 DEF vars
<1> QED
  BY <1>1, <1>2, InitInv, NextInv, PTL DEF Spec, StatementsOnly

(***************************************************************************)
(* When every statement runs on the connection that Open prepared, no key  *)
(* outlives its provider, although CreateKey inserts it some time after it *)
(* looked the provider up.                                                 *)
(***************************************************************************)
THEOREM EnforcedForeignKeys ==
    ASSUME FkModes = {TRUE}
    PROVE  Spec => []NoOrphans
<1>1. Init => NoOrphans
  BY DEF Init, CatInit, NoOrphans, NoKey
<1>2. Inv /\ NoOrphans /\ [Next]_vars => NoOrphans'
  <2> SUFFICES ASSUME Inv, NoOrphans, [Next]_vars PROVE NoOrphans'
    OBVIOUS
  <2>1. AdminStatement \/ UNCHANGED catVars
    BY StepIsStatement DEF Inv, vars
  <2>2. CASE UNCHANGED catVars
    BY <2>2 DEF catVars, NoOrphans
  <2> QED
    BY <2>1, <2>2, AdminNoOrphans DEF Inv
<1> QED
  BY <1>1, <1>2, InitInv, NextInv, PTL DEF Spec

------------------------------------------------------------------------------
(***************************************************************************)
(* An empty api_key keeps the original one as long as no two updates of    *)
(* the same key overlap: LostRotation needs exactly that.                  *)
(***************************************************************************)
Updating(a) == req[a].pc = "write_key"

OneUpdatePerKey ==
    \A a, b \in Admin : Updating(a) /\ Updating(b) /\ req[a].key = req[b].key => a = b

\* What UpdateKey read is still what the row has.
ReadsAreFresh ==
    \A a \in Admin : Updating(a) /\ req[a].blank /\ provider_keys[req[a].key].live =>
        req[a].api_key = provider_keys[req[a].key].api_key

\* How a step of client b may touch the secret of an allocated key.
LEMMA SecretChanges ==
    ASSUME CatTypeOK, ReqTypeOK, AllocatedIds, NEW b \in Admin, NEW k \in 1..last_id.key,
           \/ CreateProvider(b) \/ ReadProvider(b)
           \/ \E p \in Provider :
                 UpdateProvider(b, p) \/ DeleteProvider(b, p) \/ CreateKey(b, p)
           \/ InsertNewKey(b) \/ ReadKey(b)
           \/ \E j \in Key, blank \in BOOLEAN : UpdateKey(b, j, blank)
           \/ \E j \in Key : DeleteKey(b, j)
           \/ Refused(b) \/ StatementFails(b),
           provider_keys'[k].live
    PROVE  provider_keys[k].live /\ provider_keys'[k].api_key = provider_keys[k].api_key
<1> DEFINE Goal == /\ provider_keys[k].live
                   /\ provider_keys'[k].api_key = provider_keys[k].api_key
<1> USE DEF CatTypeOK
<1>0. k \in Key /\ k # last_id.key + 1
  BY CatalogAssumption
<1>1. CASE UNCHANGED provider_keys
  BY <1>1
<1>2. ASSUME NEW p \in Provider, DeleteProvider(b, p)  PROVE Goal
  <2>1. ASSUME NEW fk \in FkModes, DeleteProviderRow(p, fk)  PROVE Goal
    BY <1>0, <2>1 DEF DeleteProviderRow, NoKey
  <2> QED
    BY <1>1, <1>2, <2>1 DEF DeleteProvider, catVars
<1>3. CASE InsertNewKey(b)
  <2>1. ASSUME NEW fk \in FkModes,
               InsertKey(req[b].provider, req[b].name, req[b].api_key, req[b].enabled, fk)
        PROVE  Goal
    BY <1>0, <2>1 DEF InsertKey
  <2> QED
    BY <1>1, <1>3, <2>1 DEF InsertNewKey, catVars
<1>4. ASSUME NEW j \in Key, DeleteKey(b, j)  PROVE Goal
  <2>1. ASSUME NEW fk \in FkModes, DeleteKeyRow(j, fk)  PROVE Goal
    BY <1>0, <2>1 DEF DeleteKeyRow, NoKey
  <2> QED
    BY <1>1, <1>4, <2>1 DEF DeleteKey, catVars
<1>5. CASE \/ CreateProvider(b) \/ ReadProvider(b) \/ ReadKey(b)
           \/ Refused(b) \/ StatementFails(b)
           \/ \E p \in Provider : UpdateProvider(b, p) \/ CreateKey(b, p)
           \/ \E j \in Key, blank \in BOOLEAN : UpdateKey(b, j, blank)
  <2>1. UNCHANGED provider_keys
    BY <1>5, Zenon DEF CreateProvider, InsertProvider, ReadProvider, ReadKey,
             StatementFails, Refused,
         UpdateProvider, UpdateProviderRow, CreateKey, UpdateKey, catVars
  <2> QED
    BY <1>1, <2>1
<1> QED
  BY <1>2, <1>3, <1>4, <1>5

\* Only UpdateKey makes a client one that is updating a key.
LEMMA UpdatingStarts ==
    ASSUME CatTypeOK, ReqTypeOK, NEW b \in Admin, req'[b].pc = "write_key",
           \/ CreateProvider(b) \/ ReadProvider(b)
           \/ \E p \in Provider :
                 UpdateProvider(b, p) \/ DeleteProvider(b, p) \/ CreateKey(b, p)
           \/ InsertNewKey(b) \/ WriteKey(b) \/ ReadKey(b)
           \/ \E j \in Key, blank \in BOOLEAN : UpdateKey(b, j, blank)
           \/ \E j \in Key : DeleteKey(b, j)
           \/ Refused(b) \/ StatementFails(b)
    PROVE  \E k \in Key : /\ req'[b].key = k /\ UNCHANGED catVars
                          /\ req'[b].blank => req'[b].api_key = provider_keys[k].api_key
<1> USE DEF ReqTypeOK
<1>1. \A r, answer, missing : Reply(b, r, answer, missing) => req'[b].pc = "idle"
  BY DEF Reply, NoRequest
<1>2. \A r : Continue(b, r) => req'[b] = r
  BY DEF Continue
<1>3. PICK j \in Key, blank \in BOOLEAN : UpdateKey(b, j, blank)
  <2>1. \A p, k : [About(p, k) EXCEPT !.pc = "read_provider"].pc = "read_provider"
    BY DEF About, NoRequest
  <2>2. \A p, k : [About(p, k) EXCEPT !.pc = "read_key"].pc = "read_key"
    BY DEF About, NoRequest
  <2>3. \A p, n, s, on : [About(p, 0) EXCEPT !.pc = "insert_key", !.name = n,
                             !.api_key = s, !.enabled = on].pc = "insert_key"
    BY DEF About, NoRequest
  <2>4. ~(\/ CreateProvider(b) \/ ReadProvider(b) \/ ReadKey(b)
          \/ Refused(b) \/ StatementFails(b))
    BY <1>1, <1>2, <2>1 DEF CreateProvider, ReadProvider, ReadKey, StatementFails, Refused
  <2>5. \A p \in Provider : ~(UpdateProvider(b, p) \/ DeleteProvider(b, p))
    BY <1>1, <1>2, <2>1 DEF UpdateProvider, DeleteProvider
  <2>6. ASSUME NEW p \in Provider, CreateKey(b, p)  PROVE FALSE
    <3>1. ~Reply(b, About(p, 0), "not_found", "provider")
      BY <1>1
    <3>2. PICK n \in Name, s \in Secret, on \in BOOLEAN :
              Continue(b, [About(p, 0) EXCEPT !.pc = "insert_key", !.name = n,
                              !.api_key = s, !.enabled = on])
      BY <2>6, <3>1 DEF CreateKey
    <3>3. req'[b] = [About(p, 0) EXCEPT !.pc = "insert_key", !.name = n,
                        !.api_key = s, !.enabled = on]
      BY <1>2, <3>2
    <3> QED
      BY <2>3, <3>3
  <2>7. ~(InsertNewKey(b) \/ WriteKey(b))
    BY <1>1, <1>2, <2>2 DEF InsertNewKey, WriteKey
  <2>8. \A k \in Key : ~DeleteKey(b, k)
    BY <1>1 DEF DeleteKey
  <2> QED
    BY <2>4, <2>5, <2>6, <2>7, <2>8
<1> DEFINE q == provider_keys[j].provider
           secrets == IF blank THEN {provider_keys[j].api_key} ELSE Secret
<1>4. PICK n \in Name, on \in BOOLEAN, s \in secrets :
          req'[b] = [About(q, j) EXCEPT !.pc = "write_key", !.name = n, !.api_key = s,
                        !.enabled = on, !.blank = blank]
  <2>1. ~Reply(b, About(q, j), "not_found", "key")
    BY <1>1
  <2>2. PICK n \in Name, on \in BOOLEAN, s \in secrets :
            Continue(b, [About(q, j) EXCEPT !.pc = "write_key", !.name = n, !.api_key = s,
                            !.enabled = on, !.blank = blank])
    BY <1>3, <2>1 DEF UpdateKey
  <2> QED
    BY <1>2, <2>2
<1>5. req'[b].key = j /\ req'[b].blank = blank /\ req'[b].api_key = s
  BY <1>4 DEF About, NoRequest
<1>6. UNCHANGED catVars
  BY <1>3 DEF UpdateKey
<1> QED
  BY <1>4, <1>5, <1>6

LEMMA ReadsStayFresh ==
    Inv /\ OneUpdatePerKey /\ ReadsAreFresh /\ [Next]_vars => ReadsAreFresh'
<1> SUFFICES ASSUME Inv, OneUpdatePerKey, ReadsAreFresh, [Next]_vars
             PROVE  ReadsAreFresh'
  OBVIOUS
<1> CatTypeOK /\ ReqTypeOK /\ AllocatedIds
  BY DEF Inv
<1>1. CASE UNCHANGED vars
  BY <1>1 DEF ReadsAreFresh, Updating, vars, catVars
<1>2. CASE Next
  <2> PICK b \in Admin :
        \/ CreateProvider(b) \/ ReadProvider(b)
        \/ \E p \in Provider :
              UpdateProvider(b, p) \/ DeleteProvider(b, p) \/ CreateKey(b, p)
        \/ InsertNewKey(b) \/ WriteKey(b) \/ ReadKey(b)
        \/ \E j \in Key, blank \in BOOLEAN : UpdateKey(b, j, blank)
        \/ \E j \in Key : DeleteKey(b, j)
        \/ Refused(b) \/ StatementFails(b)
    BY <1>2 DEF Next
  <2>1. \A a \in Admin \ {b} : req'[a] = req[a]
    BY DEF ReqTypeOK, CreateProvider, ReadProvider, UpdateProvider, DeleteProvider, CreateKey,
           InsertNewKey, WriteKey, ReadKey, UpdateKey, DeleteKey, StatementFails,
           Refused,
           Reply, Continue
  <2> SUFFICES ASSUME NEW a \in Admin, req'[a].pc = "write_key", req'[a].blank,
                      provider_keys'[req'[a].key].live
               PROVE  req'[a].api_key = provider_keys'[req'[a].key].api_key
    BY DEF ReadsAreFresh, Updating
  <2>2. CASE a = b
    BY <2>2, UpdatingStarts DEF catVars
  <2>3. CASE a # b
    <3> DEFINE k == req[a].key
    <3>1. req'[a] = req[a] /\ Updating(a) /\ k \in 1..last_id.key
      BY <2>1, <2>3 DEF Updating, AllocatedIds
    <3>2. provider_keys'[k].live
      BY <3>1
    <3>3. CASE WriteKey(b)
      <4>1. Updating(b) /\ req[b].key # k
        BY <2>3, <3>1, <3>3 DEF WriteKey, Updating, OneUpdatePerKey
      <4>2. \/ UpdateKeyRow(req[b].key, req[b].name, req[b].api_key, req[b].enabled)
            \/ provider_keys' = provider_keys
        BY <3>3 DEF WriteKey, catVars
      <4>3. ASSUME UpdateKeyRow(req[b].key, req[b].name, req[b].api_key, req[b].enabled)
            PROVE  provider_keys'[k] = provider_keys[k]
        <5>1. k \in Key
          BY <3>1, CatalogAssumption DEF CatTypeOK
        <5> QED
          BY <4>1, <4>3, <5>1 DEF UpdateKeyRow, CatTypeOK
      <4>4. provider_keys'[k] = provider_keys[k]
        BY <4>2, <4>3
      <4> QED
        BY <3>1, <3>2, <4>4 DEF ReadsAreFresh
    <3>4. CASE ~WriteKey(b)
      <4>1. provider_keys[k].live /\ provider_keys'[k].api_key = provider_keys[k].api_key
        BY <3>1, <3>2, <3>4, SecretChanges
      <4> QED
        BY <3>1, <4>1 DEF ReadsAreFresh
    <3> QED
      BY <3>3, <3>4
  <2> QED
    BY <2>2, <2>3
<1> QED
  BY <1>1, <1>2

(***************************************************************************)
(* docs/frontend-api.md is right about an empty api_key as long as no two  *)
(* updates of one key overlap: only UpdateKey itself can lose a secret,    *)
(* neither a deletion nor a failing statement nor any other request can.   *)
(***************************************************************************)
THEOREM SerialUpdatesKeepSecrets == Spec /\ []OneUpdatePerKey => BlankKeepsSecret
<1>1. Init => ReadsAreFresh
  BY DEF Init, ReadsAreFresh, Updating, NoRequest
<1>2. ASSUME Inv, ReadsAreFresh, [Next]_vars, NEW a \in Admin,
             req[a].pc = "write_key", req[a].blank, req'[a].pc = "read_key"
      PROVE  provider_keys'[req[a].key].api_key = provider_keys[req[a].key].api_key
  <2> CatTypeOK /\ ReqTypeOK /\ AllocatedIds
    BY <1>2 DEF Inv
  <2>1. Next
    BY <1>2 DEF vars
  <2>2. PICK b \in Admin :
        \/ CreateProvider(b) \/ ReadProvider(b)
        \/ \E p \in Provider :
              UpdateProvider(b, p) \/ DeleteProvider(b, p) \/ CreateKey(b, p)
        \/ InsertNewKey(b) \/ WriteKey(b) \/ ReadKey(b)
        \/ \E j \in Key, blank \in BOOLEAN : UpdateKey(b, j, blank)
        \/ \E j \in Key : DeleteKey(b, j)
        \/ Refused(b) \/ StatementFails(b)
    BY <2>1 DEF Next
  <2>3. a = b
    BY <1>2, <2>2 DEF ReqTypeOK, CreateProvider, ReadProvider, UpdateProvider, DeleteProvider,
           CreateKey, InsertNewKey, WriteKey, ReadKey, UpdateKey, DeleteKey, StatementFails,
           Refused,
           Reply, Continue
  <2>4. \A r, answer, missing : Reply(a, r, answer, missing) => req'[a].pc = "idle"
    BY DEF Reply, NoRequest, ReqTypeOK
  <2>5. WriteKey(a)
    BY <1>2, <2>2, <2>3, <2>4
       DEF CreateProvider, ReadProvider, UpdateProvider, DeleteProvider, CreateKey,
           InsertNewKey, ReadKey, UpdateKey, DeleteKey, StatementFails, Refused
  <2>6. UpdateKeyRow(req[a].key, req[a].name, req[a].api_key, req[a].enabled)
    BY <1>2, <2>4, <2>5 DEF WriteKey
  <2>7. req[a].key \in Key
    BY <1>2, CatalogAssumption DEF AllocatedIds, CatTypeOK
  <2>8. req[a].api_key = provider_keys[req[a].key].api_key
    BY <1>2, <2>6 DEF ReadsAreFresh, Updating, UpdateKeyRow
  <2>9. provider_keys'[req[a].key].api_key = req[a].api_key
    BY <2>6, <2>7 DEF UpdateKeyRow, CatTypeOK, KeyRow
  <2> QED
    BY <2>8, <2>9
<1>3. Inv /\ ReadsAreFresh /\ [Next]_vars =>
        [\A a \in Admin :
           LET k == req[a].key IN
             req[a].pc = "write_key" /\ req[a].blank /\ req'[a].pc = "read_key"
               => provider_keys'[k].api_key = provider_keys[k].api_key]_vars
  BY <1>2
<1> QED
  BY <1>1, <1>3, InitInv, NextInv, ReadsStayFresh, PTL DEF Spec, BlankKeepsSecret
==============================================================================
