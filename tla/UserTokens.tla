----------------------------- MODULE UserTokens -----------------------------
(***************************************************************************)
(* Refresh tokens and personal access tokens of one user.  Each list is    *)
(* one row of user_setting; the store reads it through a cache of its own  *)
(* process, changes the list in memory and writes the whole row back       *)
(* (store/user_setting.go), without a lock or a transaction.  The handlers *)
(* are SignIn, SignOut, RefreshToken, CreatePersonalAccessToken,           *)
(* DeletePersonalAccessToken, the use of a personal access token, which    *)
(* updates last_used_at in a goroutine, and the listing of settings.       *)
(***************************************************************************)
EXTENDS Naturals, FiniteSets

CONSTANTS
    Token,      \* token ids
    Browser,    \* each keeps one refresh cookie
    Replica,    \* server processes, each with a cache
    Request,    \* requests served at the same time, in all processes
    NoToken,    \* no token
    MaxFaults   \* bound: failed writes and killed processes

ASSUME TokenAssumption ==
    /\ NoToken \notin Token /\ MaxFaults \in Nat
    /\ Replica # {} /\ Browser # {}

\* The row does not exist; the cache has no entry.  No list of tokens is either.
NoRow == {NoToken}
Miss == {NoToken}

VARIABLES
    row,        \* user_setting in the database, per key
    cache,      \* userSettingCache of each process, per key
    req,        \* what each request is doing
    cookie,     \* refresh token each browser holds
    issued,     \* ids handed out (GenUUID)
    stored,     \* ids any row ever held
    added,      \* ids whose addition the store reported as done
    removing,   \* ids a removal was begun for
    removed,    \* ids whose removal the store reported as done
    faults

ghosts == <<stored, added, removing, removed>>
vars == <<row, cache, req, cookie, issued, ghosts, faults>>

Key == {"REFRESH_TOKENS", "PERSONAL_ACCESS_TOKENS"}
Op == {"signIn", "signOut", "refresh", "createPAT", "deletePAT", "touch", "list"}
Call == {"check", "add", "remove", "touch", "list", "none"}

\* pc: before the cache lookup, the query, the fill of the cache, the upsert,
\* the refresh of the cache after it, or the response.
Control == {"idle", "get", "query", "fill", "upsert", "cacheSet", "respond"}

List(l) == IF l = NoRow THEN {} ELSE l

TypeOK ==
    /\ row \in [Key -> (SUBSET Token) \union {NoRow}]
    /\ cache \in [Replica -> [Key -> (SUBSET Token) \union {Miss}]]
    /\ \A r \in Request:
         /\ req[r].op \in Op /\ req[r].call \in Call /\ req[r].pc \in Control
         /\ req[r].key \in Key /\ req[r].at \in Replica
         /\ req[r].browser \in Browser
         /\ req[r].token \in Token \union {NoToken}
         /\ req[r].new \in Token \union {NoToken}
         /\ req[r].tokens \subseteq Token
         /\ req[r].ok \in BOOLEAN
    /\ cookie \in [Browser -> Token \union {NoToken}]
    /\ issued \subseteq Token /\ stored \subseteq issued /\ added \subseteq stored
    /\ removing \subseteq issued /\ removed \subseteq removing
    /\ faults \in 0..MaxFaults

Idle == [op |-> "list", call |-> "none", pc |-> "idle", key |-> "REFRESH_TOKENS",
         at |-> CHOOSE k \in Replica: TRUE, browser |-> CHOOSE b \in Browser: TRUE,
         token |-> NoToken, new |-> NoToken, tokens |-> {}, ok |-> TRUE]

Init ==
    /\ row = [key \in Key |-> NoRow]
    /\ cache = [k \in Replica |-> [key \in Key |-> Miss]]
    /\ req = [r \in Request |-> Idle]
    /\ cookie = [b \in Browser |-> NoToken]
    /\ issued = {} /\ stored = {} /\ added = {} /\ removing = {} /\ removed = {}
    /\ faults = 0

-----------------------------------------------------------------------------
(* A request arrives                                                       *)

\* The request begins with store call `call` on the list under `key`.
Begin(r, op, call, key, k, b, token, new) ==
    /\ req[r].pc = "idle"
    /\ req' = [req EXCEPT ![r] =
                 [Idle EXCEPT !.op = op, !.call = call, !.pc = "get", !.key = key,
                              !.at = k, !.browser = b, !.token = token,
                              !.new = new]]
    /\ issued' = issued \union ({new} \ {NoToken})
    /\ removing' = IF call = "remove" THEN removing \union {token} ELSE removing
    /\ UNCHANGED <<row, cache, cookie, stored, added, removed, faults>>

SignIn(r, k, b) ==
    \E new \in Token \ issued:
        Begin(r, "signIn", "add", "REFRESH_TOKENS", k, b, NoToken, new)

SignOut(r, k, b) ==
    /\ cookie[b] # NoToken
    /\ Begin(r, "signOut", "remove", "REFRESH_TOKENS", k, b, cookie[b], NoToken)

RefreshToken(r, k, b) ==
    /\ cookie[b] # NoToken
    /\ \E new \in Token \ issued:
         Begin(r, "refresh", "check", "REFRESH_TOKENS", k, b, cookie[b], new)

CreatePAT(r, k, b) ==
    \E new \in Token \ issued:
        Begin(r, "createPAT", "add", "PERSONAL_ACCESS_TOKENS", k, b, NoToken, new)

DeletePAT(r, k, b) ==
    \E token \in List(row["PERSONAL_ACCESS_TOKENS"]):
        Begin(r, "deletePAT", "remove", "PERSONAL_ACCESS_TOKENS", k, b, token,
              NoToken)

\* GetUserByPATHash asks the database; the response does not wait for the
\* goroutine that updates last_used_at.
UsePAT(r, k, b) ==
    \E token \in List(row["PERSONAL_ACCESS_TOKENS"]):
        Begin(r, "touch", "touch", "PERSONAL_ACCESS_TOKENS", k, b, token, NoToken)

\* ListUserSettings queries without a look at the cache, and fills it.
ListSettings(r, k, b) ==
    /\ req[r].pc = "idle"
    /\ \E key \in Key:
         req' = [req EXCEPT ![r] = [Idle EXCEPT !.call = "list", !.pc = "query",
                                                !.key = key, !.at = k]]
    /\ UNCHANGED <<row, cache, cookie, issued, ghosts, faults>>

-----------------------------------------------------------------------------
(* How a handler goes on from one store call to the next                   *)

\* Mutant: an addition starts from an empty list instead of the one read.
WithListAddOnly(r, l) ==
    LET q == req[r] IN
    CASE q.call = "add" -> [q EXCEPT !.tokens = {q.new}, !.pc = "upsert"]
      [] q.call = "remove" -> [q EXCEPT !.tokens = l \ {q.token}, !.pc = "upsert"]
      [] q.call = "touch" -> [q EXCEPT !.tokens = l, !.pc = "upsert"]
      [] q.call = "list" -> Idle
      [] q.call = "check" /\ q.token \in l ->
             [q EXCEPT !.call = "add", !.pc = "get", !.tokens = {}]
      [] OTHER -> [q EXCEPT !.ok = FALSE, !.pc = "respond", !.tokens = {}]

\* The record of r once its list is known to be l: the list it will write, or
\* for a check the next call.
WithList(r, l) ==
    LET q == req[r] IN
    CASE q.call = "add" -> [q EXCEPT !.tokens = l \union {q.new}, !.pc = "upsert"]
      [] q.call = "remove" -> [q EXCEPT !.tokens = l \ {q.token}, !.pc = "upsert"]
      [] q.call = "touch" -> [q EXCEPT !.tokens = l, !.pc = "upsert"]
      [] q.call = "list" -> Idle
      [] q.call = "check" /\ q.token \in l ->
             [q EXCEPT !.call = "add", !.pc = "get", !.tokens = {}]
      [] OTHER -> [q EXCEPT !.ok = FALSE, !.pc = "respond", !.tokens = {}]

\* RefreshToken adds the new token before it removes the old one.
AfterCall(r) ==
    LET q == req[r] IN
    IF q.op = "refresh" /\ q.call = "add"
    THEN [q EXCEPT !.call = "remove", !.pc = "get", !.tokens = {}]
    ELSE [q EXCEPT !.pc = "respond", !.tokens = {}]

\* SignIn and SignOut ignore a failed write, RefreshToken ignores it for the
\* removal, the others report it.
AfterFailure(r) ==
    LET q == req[r] IN
    [q EXCEPT !.pc = "respond",
              !.tokens = {},
              !.ok = \/ q.op \in {"signIn", "signOut"}
                     \/ q.op = "refresh" /\ q.call = "remove"]

Fault == faults < MaxFaults /\ faults' = faults + 1

-----------------------------------------------------------------------------
(* store/user_setting.go                                                   *)

\* GetUserSetting: the cache first.
Get(r) ==
    /\ req[r].pc = "get"
    /\ LET hit == cache[req[r].at][req[r].key] IN
       req' = [req EXCEPT ![r] = IF hit # Miss THEN WithList(r, hit)
                                               ELSE [@ EXCEPT !.pc = "query"]]
    /\ UNCHANGED <<row, cache, cookie, issued, ghosts, faults>>

\* Mutant: an absent row is taken for a list.
QueryAbsentRow(r) ==
    /\ req[r].pc = "query"
    /\ req' = [req EXCEPT ![r].tokens = row[req[r].key], ![r].pc = "fill"]
    /\ UNCHANGED <<row, cache, cookie, issued, ghosts, faults>>

\* ListUserSettings: the database answers; an absent row is not cached.
Query(r) ==
    /\ req[r].pc = "query"
    /\ LET l == row[req[r].key] IN
       req' = [req EXCEPT ![r] = IF l = NoRow THEN WithList(r, {})
                                 ELSE [@ EXCEPT !.tokens = l, !.pc = "fill"]]
    /\ UNCHANGED <<row, cache, cookie, issued, ghosts, faults>>

Fill(r) ==
    /\ req[r].pc = "fill"
    /\ cache' = [cache EXCEPT ![req[r].at][req[r].key] = req[r].tokens]
    /\ req' = [req EXCEPT ![r] = WithList(r, req[r].tokens)]
    /\ UNCHANGED <<row, cookie, issued, ghosts, faults>>

\* UpsertUserSetting: the whole list replaces the row.
Upsert(r) ==
    /\ req[r].pc = "upsert"
    /\ row' = [row EXCEPT ![req[r].key] = req[r].tokens]
    /\ stored' = stored \union req[r].tokens
    /\ req' = [req EXCEPT ![r].pc = "cacheSet"]
    /\ UNCHANGED <<cache, cookie, issued, added, removing, removed, faults>>

\* Mutant: the cache is set before the row is written.
UpsertFailsCached(r) ==
    /\ req[r].pc = "upsert"
    /\ Fault
    /\ cache' = [cache EXCEPT ![req[r].at][req[r].key] = req[r].tokens]
    /\ req' = [req EXCEPT ![r] = AfterFailure(r)]
    /\ UNCHANGED <<row, cookie, issued, ghosts>>

\* The write fails, or succeeds and its confirmation is lost (the request's
\* context ends): either way UpsertUserSetting returns before the cache is set.
UpsertFails(r) ==
    /\ req[r].pc = "upsert"
    /\ Fault
    /\ \/ UNCHANGED <<row, stored>>
       \/ /\ row' = [row EXCEPT ![req[r].key] = req[r].tokens]
          /\ stored' = stored \union req[r].tokens
    /\ req' = [req EXCEPT ![r] = AfterFailure(r)]
    /\ UNCHANGED <<cache, cookie, issued, added, removing, removed>>

\* Mutant: the cache is not set after the row was written.
CacheSetSkipped(r) ==
    /\ req[r].pc = "cacheSet"
    /\ req' = [req EXCEPT ![r] = AfterCall(r)]
    /\ added' = added \union (IF req[r].call = "add" THEN {req[r].new} ELSE {})
    /\ removed' = removed \union (IF req[r].call = "remove" THEN {req[r].token}
                                                            ELSE {})
    /\ removing' = IF AfterCall(r).call = "remove"
                   THEN removing \union {req[r].token} ELSE removing
    /\ UNCHANGED <<row, cache, cookie, issued, stored, faults>>

CacheSet(r) ==
    /\ req[r].pc = "cacheSet"
    /\ cache' = [cache EXCEPT ![req[r].at][req[r].key] = req[r].tokens]
    /\ req' = [req EXCEPT ![r] = AfterCall(r)]
    /\ added' = added \union (IF req[r].call = "add" THEN {req[r].new} ELSE {})
    /\ removed' = removed \union (IF req[r].call = "remove" THEN {req[r].token}
                                                            ELSE {})
    /\ removing' = IF AfterCall(r).call = "remove"
                   THEN removing \union {req[r].token} ELSE removing
    /\ UNCHANGED <<row, cookie, issued, stored, faults>>

\* The response sets or clears the cookie, if it arrives.
Respond(r) ==
    /\ req[r].pc = "respond"
    /\ req' = [req EXCEPT ![r] = Idle]
    /\ \/ /\ req[r].ok
          /\ CASE req[r].op \in {"signIn", "refresh"} ->
                    cookie' = [cookie EXCEPT ![req[r].browser] = req[r].new]
               [] req[r].op = "signOut" ->
                    cookie' = [cookie EXCEPT ![req[r].browser] = NoToken]
               [] OTHER -> UNCHANGED cookie
       \/ UNCHANGED cookie
    /\ UNCHANGED <<row, cache, issued, ghosts, faults>>

\* An entry expires, is evicted, or is missed while Set replaces it.
Expire(k, key) ==
    /\ cache[k][key] # Miss
    /\ cache' = [cache EXCEPT ![k][key] = Miss]
    /\ UNCHANGED <<row, req, cookie, issued, ghosts, faults>>

\* A process is killed: its requests and its cache are gone.
Restart(k) ==
    /\ Fault
    /\ cache' = [cache EXCEPT ![k] = [key \in Key |-> Miss]]
    /\ req' = [r \in Request |-> IF req[r].at = k THEN Idle ELSE req[r]]
    /\ UNCHANGED <<row, cookie, issued, ghosts>>

-----------------------------------------------------------------------------

Arrive(r) ==
    \E k \in Replica, b \in Browser:
        \/ SignIn(r, k, b) \/ SignOut(r, k, b) \/ RefreshToken(r, k, b)
        \/ CreatePAT(r, k, b) \/ DeletePAT(r, k, b) \/ UsePAT(r, k, b)
        \/ ListSettings(r, k, b)

Serve(r) ==
    \/ Get(r) \/ Query(r) \/ Fill(r) \/ Upsert(r) \/ UpsertFails(r)
    \/ CacheSet(r) \/ Respond(r)

Next ==
    \/ \E r \in Request: Arrive(r) \/ Serve(r)
    \/ \E k \in Replica: \/ Restart(k)
                         \/ \E key \in Key: Expire(k, key)

Spec == Init /\ [][Next]_vars

-----------------------------------------------------------------------------
(* Properties                                                              *)

Known(key) == List(row[key])
Cached(key) == UNION {cache[k][key] : k \in {k \in Replica: cache[k][key] # Miss}}

\* One process and one request at a time: a token whose addition was reported is
\* in the database, and in the cache while it holds the list, until a removal of
\* that very token, through every failed write, restart and expiry.
NoTokenLost ==
    \A t \in added \ removing:
        \E key \in Key: /\ t \in Known(key)
                        /\ \A k \in Replica: cache[k][key] = Miss
                                                \/ t \in cache[k][key]

\* One process and one request at a time: a token whose removal was reported
\* never comes back to the database or to the cache.
RemovedStaysRemoved ==
    \A key \in Key: removed \intersect (Known(key) \union Cached(key)) = {}

\* The revocation check of RefreshToken accepts only tokens the database held at
\* some time, although it asks the cache.
AcceptedWasStored ==
    \A r \in Request:
        req[r].op = "refresh" /\ req[r].call \in {"add", "remove"} /\ req[r].ok
            => req[r].token \in stored

\* "Sliding window sessions: active users stay logged in indefinitely"
\* (auth_service.go): the token in a browser's cookie stays in the database until
\* that browser signs out or refreshes.
SessionsStay ==
    \A b \in Browser:
        cookie[b] \in added \ removing => cookie[b] \in Known("REFRESH_TOKENS")

\* DeletePersonalAccessToken "Immediately invalidates the token (subsequent API
\* calls with it will fail)": the database no longer holds it.
DeletedPATRefused == removed \intersect Known("PERSONAL_ACCESS_TOKENS") = {}
=============================================================================
