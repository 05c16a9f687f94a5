------------------------------ MODULE AdminApi -------------------------------
(***************************************************************************)
(* The administration handlers of internal/providers: each request is a    *)
(* goroutine that runs one to three SQL statements, and the statements of  *)
(* concurrent requests interleave.  A request ends with an answer: "ok"    *)
(* (200, 201 or 204), "not_found" (404) or "error" (500).  Requests that   *)
(* fail validation (400) touch nothing and are left out.                   *)
(***************************************************************************)
EXTENDS Catalog

CONSTANT Admin  \* concurrent clients of the administration API

VARIABLE req    \* the request each client has in progress, or its last answer

vars == <<catVars, req>>

Request == [pc : {"idle", "insert_key", "write_key", "read_provider", "read_key"},
            provider : 0..MaxProvider, key : 0..MaxKey,
            name : Name, api_key : Secret, enabled : BOOLEAN,
            blank : BOOLEAN,      \* the api_key of the request is empty
            answer : {"none", "ok", "not_found", "error"},
            missing : {"none", "provider", "key"}]  \* the row a 404 is about

NoRequest == [pc |-> "idle", provider |-> 0, key |-> 0, name |-> AnyName,
              api_key |-> AnySecret, enabled |-> FALSE, blank |-> FALSE,
              answer |-> "none", missing |-> "none"]

TypeOK == CatTypeOK /\ req \in [Admin -> Request]

Init == CatInit /\ req = [a \in Admin |-> NoRequest]

------------------------------------------------------------------------------
(* Replies *)

Idle(a) == req[a].pc = "idle"

\* Mutant: the request ends in a state no handler knows.
ReplyAndClose(a, r, answer, missing) ==
    req' = [req EXCEPT ![a] = [r EXCEPT !.pc = "closed", !.answer = answer]]

Reply(a, r, answer, missing) ==
    req' = [req EXCEPT ![a] = [NoRequest EXCEPT !.provider = r.provider,
                !.key = r.key, !.answer = answer, !.missing = missing]]

About(p, k) == [NoRequest EXCEPT !.provider = p, !.key = k]

Continue(a, r) == req' = [req EXCEPT ![a] = r]

------------------------------------------------------------------------------
(* Providers *)

CreateProvider(a) ==
    /\ Idle(a)
    /\ \E n \in Name, on \in BOOLEAN : InsertProvider(n, on)
    /\ Continue(a, [About(last_id'.provider, 0) EXCEPT !.pc = "read_provider"])

\* Mutant: disabling a provider also disables its keys, in the same step.
UpdateProviderAndKeys(a, p) ==
    /\ Idle(a) /\ p <= last_id.provider /\ providers[p].live
    /\ providers' = [providers EXCEPT ![p] = [@ EXCEPT !.enabled = FALSE]]
    /\ provider_keys' = [k \in Key |-> IF k \in KeysOf(p)
          THEN [provider_keys[k] EXCEPT !.enabled = FALSE] ELSE provider_keys[k]]
    /\ Continue(a, [About(p, 0) EXCEPT !.pc = "read_provider"])
    /\ UNCHANGED <<model_cache, last_id>>

UpdateProvider(a, p) ==
    /\ Idle(a) /\ p <= last_id.provider
    /\ \/ /\ \E n \in Name, on \in BOOLEAN : UpdateProviderRow(p, n, on)
          /\ Continue(a, [About(p, 0) EXCEPT !.pc = "read_provider"])
       \/ /\ ~providers[p].live
          /\ Reply(a, About(p, 0), "not_found", "provider")
          /\ UNCHANGED catVars

DeleteProvider(a, p) ==
    /\ Idle(a) /\ p <= last_id.provider
    /\ \/ /\ \E fk \in FkModes : DeleteProviderRow(p, fk)
          /\ Reply(a, About(p, 0), "ok", "none")
       \/ /\ ~providers[p].live
          /\ Reply(a, About(p, 0), "not_found", "provider")
          /\ UNCHANGED catVars

\* `return r.GetProvider(id)` at the end of CreateProvider and UpdateProvider.
ReadProvider(a) ==
    /\ req[a].pc = "read_provider"
    /\ \/ /\ providers[req[a].provider].live
          /\ Reply(a, req[a], "ok", "none")
       \/ /\ ~providers[req[a].provider].live
          /\ Reply(a, req[a], "not_found", "provider")
    /\ UNCHANGED catVars

------------------------------------------------------------------------------
(* Keys *)

\* CreateKey looks its provider up, and inserts the key in a later statement.
CreateKey(a, p) ==
    /\ Idle(a) /\ p <= last_id.provider
    /\ \/ /\ providers[p].live
          /\ \E n \in Name, s \in Secret, on \in BOOLEAN :
                Continue(a, [About(p, 0) EXCEPT !.pc = "insert_key", !.name = n,
                                !.api_key = s, !.enabled = on])
       \/ /\ ~providers[p].live
          /\ Reply(a, About(p, 0), "not_found", "provider")
    /\ UNCHANGED catVars

InsertNewKey(a) ==
    /\ req[a].pc = "insert_key"
    /\ \E fk \in FkModes :
         \/ /\ InsertKey(req[a].provider, req[a].name, req[a].api_key,
                         req[a].enabled, fk)
            /\ Continue(a, [About(req[a].provider, last_id'.key)
                               EXCEPT !.pc = "read_key"])
         \/ /\ ~KeyInsertable(req[a].provider, fk)
            /\ Reply(a, req[a], "error", "none")
            /\ UNCHANGED catVars

\* An UpdateKey without api_key first reads the one the row has.
UpdateKey(a, k, blank) ==
    /\ Idle(a) /\ k <= last_id.key
    /\ LET row == provider_keys[k]
           r == About(row.provider, k) IN
         \/ /\ blank => row.live
            /\ \E n \in Name, on \in BOOLEAN,
                  s \in IF blank THEN {row.api_key} ELSE Secret :
                 Continue(a, [r EXCEPT !.pc = "write_key", !.name = n,
                                 !.api_key = s, !.enabled = on, !.blank = blank])
         \/ /\ blank /\ ~row.live
            /\ Reply(a, r, "not_found", "key")
    /\ UNCHANGED catVars

WriteKey(a) ==
    /\ req[a].pc = "write_key"
    /\ \/ /\ UpdateKeyRow(req[a].key, req[a].name, req[a].api_key, req[a].enabled)
          /\ Continue(a, [About(req[a].provider, req[a].key)
                             EXCEPT !.pc = "read_key"])
       \/ /\ ~provider_keys[req[a].key].live
          /\ Reply(a, req[a], "not_found", "key")
          /\ UNCHANGED catVars

DeleteKey(a, k) ==
    /\ Idle(a) /\ k <= last_id.key
    /\ LET r == About(provider_keys[k].provider, k) IN
         \/ /\ \E fk \in FkModes : DeleteKeyRow(k, fk)
            /\ Reply(a, r, "ok", "none")
         \/ /\ ~provider_keys[k].live
            /\ Reply(a, r, "not_found", "key")
            /\ UNCHANGED catVars

\* `return r.GetKey(providerID, id)` at the end of CreateKey and UpdateKey.
ReadKey(a) ==
    /\ req[a].pc = "read_key"
    /\ \/ /\ provider_keys[req[a].key].live
          /\ Reply(a, req[a], "ok", "none")
       \/ /\ ~provider_keys[req[a].key].live
          /\ Reply(a, req[a], "not_found", "key")
    /\ UNCHANGED catVars

\* The first statement finds no row, because no provider or key ever had the
\* id, or the key is another provider's; or the statement fails.
Refused(a) ==
    /\ Idle(a)
    /\ \E answer \in {"not_found", "error"} : Reply(a, NoRequest, answer, "none")
    /\ UNCHANGED catVars

\* Any later statement may fail (SQLITE_BUSY, disk): the handler answers 500.
StatementFails(a) ==
    /\ ~Idle(a)
    /\ Reply(a, req[a], "error", "none")
    /\ UNCHANGED catVars

------------------------------------------------------------------------------
Next ==
    \E a \in Admin :
        \/ CreateProvider(a) \/ ReadProvider(a)
        \/ \E p \in Provider :
              UpdateProvider(a, p) \/ DeleteProvider(a, p) \/ CreateKey(a, p)
        \/ InsertNewKey(a) \/ WriteKey(a) \/ ReadKey(a)
        \/ \E k \in Key, blank \in BOOLEAN : UpdateKey(a, k, blank)
        \/ \E k \in Key : DeleteKey(a, k)
        \/ Refused(a) \/ StatementFails(a)

Spec == Init /\ [][Next]_vars

------------------------------------------------------------------------------
(***************************************************************************)
(* However the statements of concurrent requests interleave, the tables    *)
(* change by one statement of Catalog at a time: AdminStatement is all     *)
(* that SyncService needs to know about the administration API.            *)
(***************************************************************************)
StatementsOnly == CatInit /\ [][AdminStatement]_catVars

(***************************************************************************)
(* A 404 on a row that existed is final: it (writeRepoError on ErrNotFound *)
(* from the first lookup, from ensureAffected, or from the read-back after *)
(* the row was written) is gone, and no request in flight brings it back.  *)
(***************************************************************************)
NotFoundIsFinal ==
    \A a \in Admin :
        /\ req[a].missing = "provider" => ~providers[req[a].provider].live
        /\ req[a].missing = "key" => ~provider_keys[req[a].key].live

(***************************************************************************)
(* docs/frontend-api.md: an empty api_key keeps the original key.  The     *)
(* write of such an update leaves the api_key column of its row alone.     *)
(***************************************************************************)
BlankKeepsSecret ==
    [][\A a \in Admin :
         LET k == req[a].key IN
           req[a].pc = "write_key" /\ req[a].blank /\ req'[a].pc = "read_key"
             => provider_keys'[k].api_key = provider_keys[k].api_key]_vars
==============================================================================
