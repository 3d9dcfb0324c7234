--------------------------- MODULE UserTokensProofs ---------------------------
(***************************************************************************)
(* For any tokens, browsers, processes and overlapping requests: the       *)
(* states of UserTokens have their types, and what RefreshToken accepts    *)
(* was in the database at some time, since no list anywhere in a cache, or *)
(* in the hands of a request, names an id no row ever held.                *)
(*                                                                         *)
(* For one process and one request at a time, whatever fails: a token      *)
(* reported as added stays until it is removed, and one reported as        *)
(* removed stays away.                                                     *)
(***************************************************************************)
EXTENDS UserTokens, TLAPS

Rec == [op: Op, call: Call, pc: Control, key: Key, at: Replica, browser: Browser,
        token: Token \union {NoToken}, new: Token \union {NoToken},
        tokens: SUBSET Token, ok: BOOLEAN]

\* What a request has in hand, given the ids issued, those stored and those
\* being removed: the list it read was stored, the list it writes is of issued
\* ids, and a refresh that goes on was accepted.
Good(q, i, s, m) ==
    /\ q.token \in i \union {NoToken} /\ q.new \in i \union {NoToken}
    /\ q.tokens \subseteq i
    /\ q.pc \in {"fill", "cacheSet"} => q.tokens \subseteq s
    /\ q.call \in {"check", "add"} => q.new # NoToken
    /\ q.pc \in {"upsert", "cacheSet"} /\ q.call = "add" => q.new \in q.tokens
    /\ q.pc \in {"upsert", "cacheSet"} /\ q.call = "remove" => q.token \notin q.tokens
    /\ q.op = "refresh" => q.token # NoToken
    /\ q.call = "remove" => q.token \in m
    /\ q.op = "refresh" /\ q.call \in {"add", "remove"} /\ q.ok => q.token \in s
    /\ q.pc # "respond" => q.ok

Lists == (SUBSET Token) \union {NoRow}

IInv ==
    /\ row \in [Key -> Lists]
    /\ cache \in [Replica -> [Key -> Lists]]
    /\ req \in [Request -> Rec]
    /\ cookie \in [Browser -> Token \union {NoToken}]
    /\ \A b \in Browser : cookie[b] \in issued \union {NoToken}
    /\ issued \subseteq Token /\ stored \subseteq issued /\ added \subseteq stored
    /\ removing \subseteq issued /\ removed \subseteq removing
    /\ faults \in 0..MaxFaults
    /\ \A key \in Key : List(row[key]) \subseteq stored
    /\ \A k \in Replica, key \in Key : List(cache[k][key]) \subseteq stored
    /\ \A r \in Request : Good(req[r], issued, stored, removing)

\* A list is a set of tokens, unless it is none.
LEMMA ListOf == ASSUME NEW l \in Lists
                PROVE  List(l) \in SUBSET Token /\ (l # NoRow => List(l) = l)
BY DEF Lists, List, NoRow

\* An idle request has nothing in hand.
LEMMA IdleGood == Idle \in Rec /\ \A i, s, m : Good(Idle, i, s, m)
<1>1. (CHOOSE k \in Replica: TRUE) \in Replica /\ (CHOOSE b \in Browser: TRUE) \in Browser
  BY TokenAssumption
<1>2. Idle \in Rec  BY <1>1 DEF Idle, Rec, Op, Call, Control, Key
<1>3. /\ Idle.op = "list" /\ Idle.call = "none" /\ Idle.pc = "idle" /\ Idle.token = NoToken
      /\ Idle.new = NoToken /\ Idle.tokens = {} /\ Idle.ok
  BY DEF Idle
<1> QED  BY <1>2, <1>3 DEF Good

\* More ids issued, stored or being removed take nothing out of anyone's hands.
LEMMA GoodGrows ==
    ASSUME NEW q, NEW i, NEW s, NEW m, NEW i2, NEW s2, NEW m2, Good(q, i, s, m),
           i \subseteq i2, s \subseteq s2, m \subseteq m2
    PROVE  Good(q, i2, s2, m2)
BY DEF Good

\* A request that learned a list that was stored has something good in hand.
LEMMA WithListGood ==
    ASSUME IInv, NEW r \in Request, req[r].pc # "respond", NEW l \in SUBSET stored
    PROVE  WithList(r, l) \in Rec /\ Good(WithList(r, l), issued, stored, removing)
<1> DEFINE q == req[r]
<1>1. q \in Rec /\ Good(q, issued, stored, removing) /\ l \subseteq issued /\ issued \subseteq Token
  BY DEF IInv
<1> HIDE DEF q
<1>2. ASSUME NEW u \in SUBSET issued
      PROVE  [q EXCEPT !.tokens = u, !.pc = "upsert"] \in Rec
  BY <1>1, <1>2 DEF Rec, Control
<1>3. CASE q.call = "add"
  <2> DEFINE w == [q EXCEPT !.tokens = l \union {q.new}, !.pc = "upsert"]
  <2>1. q.new \in issued  BY <1>1, <1>3 DEF Good
  <2>2. w \in Rec  BY <1>1, <1>2, <2>1
  <2>3. /\ w.tokens = l \union {q.new} /\ w.pc = "upsert" /\ w.call = q.call /\ w.op = q.op
        /\ w.token = q.token /\ w.new = q.new /\ w.ok = q.ok
    BY <1>1 DEF Rec
  <2>4. Good(w, issued, stored, removing)
    <3> HIDE DEF w
    <3> QED  BY <1>1, <1>3, <2>1, <2>3 DEF Good, q
  <2>5. WithList(r, l) = w  BY <1>3 DEF WithList, q
  <2> QED  BY <2>2, <2>4, <2>5
<1>4. ASSUME NEW u \in SUBSET l, q.call # "add", q.call = "remove" => q.token \notin u
      PROVE  LET w == [q EXCEPT !.tokens = u, !.pc = "upsert"]
             IN  w \in Rec /\ Good(w, issued, stored, removing)
  <2> DEFINE w == [q EXCEPT !.tokens = u, !.pc = "upsert"]
  <2>1. w \in Rec  BY <1>1, <1>2
  <2>2. /\ w.tokens = u /\ w.pc = "upsert" /\ w.call = q.call /\ w.op = q.op
        /\ w.token = q.token /\ w.new = q.new /\ w.ok = q.ok
    BY <1>1 DEF Rec
  <2>3. Good(w, issued, stored, removing)
    <3> HIDE DEF w
    <3> QED  BY <1>1, <1>4, <2>2 DEF Good, q
  <2> QED  BY <2>1, <2>3
<1>5. CASE q.call = "remove"
  <2>1. WithList(r, l) = [q EXCEPT !.tokens = l \ {q.token}, !.pc = "upsert"]
    BY <1>5 DEF WithList, q
  <2>2. l \ {q.token} \in SUBSET l /\ q.token \notin l \ {q.token}  OBVIOUS
  <2> QED  BY <1>4, <1>5, <2>1, <2>2
<1>6. CASE q.call = "touch"
  <2>1. WithList(r, l) = [q EXCEPT !.tokens = l, !.pc = "upsert"]  BY <1>6 DEF WithList, q
  <2> QED  BY <1>4, <1>6, <2>1
<1>7. CASE q.call = "list"
  <2>1. WithList(r, l) = Idle  BY <1>7 DEF WithList, q
  <2> QED  BY <2>1, IdleGood
<1>8. CASE q.call = "check" /\ q.token \in l
  <2> DEFINE w == [q EXCEPT !.call = "add", !.pc = "get", !.tokens = {}]
  <2>1. WithList(r, l) = w  BY <1>8 DEF WithList, q
  <2>2. w \in Rec  BY <1>1 DEF Rec, Call, Control
  <2>3. /\ w.tokens = {} /\ w.pc = "get" /\ w.call = "add" /\ w.op = q.op
        /\ w.token = q.token /\ w.new = q.new /\ w.ok = q.ok
    BY <1>1 DEF Rec
  <2>4. Good(w, issued, stored, removing)
    <3> HIDE DEF w
    <3> QED  BY <1>1, <1>8, <2>3 DEF Good, q
  <2> QED  BY <2>1, <2>2, <2>4
<1>9. CASE q.call \in {"check", "none"} /\ ~(q.call = "check" /\ q.token \in l)
  <2> DEFINE w == [q EXCEPT !.ok = FALSE, !.pc = "respond", !.tokens = {}]
  <2>1. WithList(r, l) = w  BY <1>9 DEF WithList, q
  <2>2. w \in Rec  BY <1>1 DEF Rec, Control
  <2>3. /\ w.tokens = {} /\ w.pc = "respond" /\ w.call = q.call /\ w.op = q.op
        /\ w.token = q.token /\ w.new = q.new /\ ~w.ok
    BY <1>1 DEF Rec
  <2>4. Good(w, issued, stored, removing)
    <3> HIDE DEF w
    <3> QED  BY <1>1, <1>9, <2>3 DEF Good, q
  <2> QED  BY <2>1, <2>2, <2>4
<1>10. q.call \in {"check", "add", "remove", "touch", "list", "none"}
  BY <1>1 DEF Rec, Call
<1> QED  BY <1>3, <1>5, <1>6, <1>7, <1>8, <1>9, <1>10

\* A step of one request that leaves it with something good in hand, and
\* changes the rest for the better only, keeps the invariant.
LEMMA RequestStep ==
    ASSUME IInv, NEW r \in Request, NEW q \in Rec, req' = [req EXCEPT ![r] = q],
           Good(q, issued', stored', removing'),
           issued \subseteq issued', issued' \subseteq Token,
           stored \subseteq stored', stored' \subseteq issued',
           added' \subseteq stored',
           removing \subseteq removing', removing' \subseteq issued',
           removed' \subseteq removing',
           faults' \in 0..MaxFaults,
           cookie' \in [Browser -> Token \union {NoToken}],
           \A b \in Browser : cookie'[b] \in issued' \union {NoToken},
           row' \in [Key -> Lists],
           \A key \in Key : List(row'[key]) \subseteq stored',
           cache' \in [Replica -> [Key -> Lists]],
           \A k \in Replica, key \in Key : List(cache'[k][key]) \subseteq stored'
    PROVE  IInv'
<1>1. req' \in [Request -> Rec]  BY DEF IInv
<1>2. ASSUME NEW p \in Request PROVE Good(req'[p], issued', stored', removing')
  <2>1. CASE p = r  BY <2>1 DEF IInv
  <2>2. CASE p # r
    <3>1. req'[p] = req[p] /\ Good(req[p], issued, stored, removing)  BY <2>2 DEF IInv
    <3> QED  BY <3>1, GoodGrows
  <2> QED  BY <2>1, <2>2
<1> QED  BY <1>1, <1>2 DEF IInv

-----------------------------------------------------------------------------
(* A request arrives                                                       *)

\* A handler begins with ids that are new, or that somebody holds.
LEMMA BeginStep ==
    ASSUME IInv, NEW r \in Request, NEW op \in Op, NEW call \in {"check", "add", "remove", "touch"},
           NEW key \in Key, NEW k \in Replica, NEW b \in Browser,
           NEW token \in issued \union {NoToken}, NEW new \in (Token \ issued) \union {NoToken},
           call \in {"check", "add"} => new # NoToken,
           call = "remove" \/ op = "refresh" => token # NoToken,
           op = "refresh" => call = "check",
           Begin(r, op, call, key, k, b, token, new)
    PROVE  IInv'
<1> DEFINE q == [Idle EXCEPT !.op = op, !.call = call, !.pc = "get", !.key = key,
                             !.at = k, !.browser = b, !.token = token, !.new = new]
<1>1. issued \subseteq Token  BY DEF IInv
<1>2. q \in Rec  BY <1>1, IdleGood DEF Rec, Call, Control
<1>3. /\ q.op = op /\ q.call = call /\ q.pc = "get" /\ q.token = token /\ q.new = new
      /\ q.tokens = {} /\ q.ok
  BY DEF Idle
<1>4. req' = [req EXCEPT ![r] = q]  BY DEF Begin
<1> HIDE DEF q
<1>5. /\ issued' = issued \union ({new} \ {NoToken})
      /\ removing' = IF call = "remove" THEN removing \union {token} ELSE removing
      /\ UNCHANGED <<row, cache, cookie, stored, added, removed, faults>>
  BY DEF Begin
<1>6. Good(q, issued', stored', removing')  BY <1>3, <1>5 DEF Good
<1>7. removing' \subseteq issued'  BY <1>5 DEF IInv
<1>8. issued \subseteq issued' /\ issued' \subseteq Token /\ removing \subseteq removing'
  BY <1>1, <1>5
<1> QED  BY <1>2, <1>4, <1>5, <1>6, <1>7, <1>8, RequestStep DEF IInv

\* A handler is one of these, and a list of settings is asked for.
LEMMA ArriveStep == ASSUME IInv, NEW r \in Request, Arrive(r) PROVE IInv'
<1>1. PICK k \in Replica, b \in Browser :
        \/ SignIn(r, k, b) \/ SignOut(r, k, b) \/ RefreshToken(r, k, b)
        \/ CreatePAT(r, k, b) \/ DeletePAT(r, k, b) \/ UsePAT(r, k, b)
        \/ ListSettings(r, k, b)
  BY DEF Arrive
<1>2. "REFRESH_TOKENS" \in Key /\ "PERSONAL_ACCESS_TOKENS" \in Key  BY DEF Key
<1>3. cookie[b] \in issued \union {NoToken}  BY DEF IInv
<1>4. List(row["PERSONAL_ACCESS_TOKENS"]) \subseteq issued  BY <1>2 DEF IInv
<1>5. NoToken \notin issued  BY TokenAssumption DEF IInv
<1>6. CASE SignIn(r, k, b)
  <2>1. PICK new \in Token \ issued :
          Begin(r, "signIn", "add", "REFRESH_TOKENS", k, b, NoToken, new)
    BY <1>6 DEF SignIn
  <2>2. new # NoToken  BY TokenAssumption
  <2> QED  BY <1>2, <2>1, <2>2, BeginStep DEF Op
<1>7. CASE SignOut(r, k, b)
  <2>1. /\ cookie[b] # NoToken
        /\ Begin(r, "signOut", "remove", "REFRESH_TOKENS", k, b, cookie[b], NoToken)
    BY <1>7 DEF SignOut
  <2> QED  BY <1>2, <1>3, <2>1, BeginStep DEF Op
<1>8. CASE RefreshToken(r, k, b)
  <2>1. PICK new \in Token \ issued :
          /\ cookie[b] # NoToken
          /\ Begin(r, "refresh", "check", "REFRESH_TOKENS", k, b, cookie[b], new)
    BY <1>8 DEF RefreshToken
  <2>2. new # NoToken  BY TokenAssumption
  <2> QED  BY <1>2, <1>3, <2>1, <2>2, BeginStep DEF Op
<1>9. CASE CreatePAT(r, k, b)
  <2>1. PICK new \in Token \ issued :
          Begin(r, "createPAT", "add", "PERSONAL_ACCESS_TOKENS", k, b, NoToken, new)
    BY <1>9 DEF CreatePAT
  <2>2. new # NoToken  BY TokenAssumption
  <2> QED  BY <1>2, <2>1, <2>2, BeginStep DEF Op
<1>10. CASE DeletePAT(r, k, b)
  <2>1. PICK token \in List(row["PERSONAL_ACCESS_TOKENS"]) :
          Begin(r, "deletePAT", "remove", "PERSONAL_ACCESS_TOKENS", k, b, token, NoToken)
    BY <1>10 DEF DeletePAT
  <2>2. token \in issued /\ token # NoToken  BY <1>4, <1>5
  <2> QED  BY <1>2, <2>1, <2>2, BeginStep DEF Op
<1>11. CASE UsePAT(r, k, b)
  <2>1. PICK token \in List(row["PERSONAL_ACCESS_TOKENS"]) :
          Begin(r, "touch", "touch", "PERSONAL_ACCESS_TOKENS", k, b, token, NoToken)
    BY <1>11 DEF UsePAT
  <2>2. token \in issued  BY <1>4
  <2> QED  BY <1>2, <2>1, <2>2, BeginStep DEF Op
<1>12. CASE ListSettings(r, k, b)
  <2>1. PICK key \in Key :
          req' = [req EXCEPT ![r] = [Idle EXCEPT !.call = "list", !.pc = "query",
                                                 !.key = key, !.at = k]]
    BY <1>12 DEF ListSettings
  <2> DEFINE q == [Idle EXCEPT !.call = "list", !.pc = "query", !.key = key, !.at = k]
  <2>2. q \in Rec  BY IdleGood DEF Rec, Call, Control
  <2>3. /\ q.op = "list" /\ q.call = "list" /\ q.pc = "query" /\ q.token = NoToken
        /\ q.new = NoToken /\ q.tokens = {} /\ q.ok
    BY DEF Idle
  <2>4. req' = [req EXCEPT ![r] = q]  BY <2>1
  <2> HIDE DEF q
  <2>5. Good(q, issued, stored, removing)  BY <2>3 DEF Good
  <2>6. UNCHANGED <<row, cache, cookie, issued, stored, added, removing, removed, faults>>
    BY <1>12 DEF ListSettings, ghosts
  <2> QED  BY <2>2, <2>4, <2>5, <2>6, RequestStep DEF IInv
<1> QED  BY <1>1, <1>6, <1>7, <1>8, <1>9, <1>10, <1>11, <1>12

-----------------------------------------------------------------------------
(* The store calls                                                         *)

\* A step that changes what a request has in hand, and nothing else.
LEMMA QuietStep ==
    ASSUME IInv, NEW r \in Request, NEW q \in Rec, req' = [req EXCEPT ![r] = q],
           Good(q, issued, stored, removing),
           UNCHANGED <<row, cache, cookie, issued, ghosts, faults>>
    PROVE  IInv'
<1>1. UNCHANGED <<row, cache, cookie, issued, stored, added, removing, removed, faults>>
  BY DEF ghosts
<1> QED  BY <1>1, RequestStep DEF IInv

\* The list is in the cache, in the database, or nowhere.
LEMMA ReadStep == ASSUME IInv, NEW r \in Request, Get(r) \/ Query(r) PROVE IInv'
<1>1. req[r] \in Rec /\ Good(req[r], issued, stored, removing)  BY DEF IInv
<1>2. req[r].key \in Key /\ req[r].at \in Replica  BY <1>1 DEF Rec
<1>3. stored \subseteq issued /\ issued \subseteq Token  BY DEF IInv
<1>4. CASE Get(r)
  <2> DEFINE hit == cache[req[r].at][req[r].key]
  <2>1. hit \in Lists /\ List(hit) \subseteq stored  BY <1>2 DEF IInv
  <2>2. CASE hit # Miss
    <3>1. hit \in SUBSET stored  BY <2>1, <2>2, ListOf DEF Miss, NoRow
    <3>2. req' = [req EXCEPT ![r] = WithList(r, hit)]  BY <1>4, <2>2 DEF Get
    <3>3. req[r].pc # "respond"  BY <1>4 DEF Get
    <3>4. WithList(r, hit) \in Rec /\ Good(WithList(r, hit), issued, stored, removing)
      BY <3>1, <3>3, WithListGood
    <3> QED  BY <1>4, <3>2, <3>4, QuietStep DEF Get
  <2>3. CASE hit = Miss
    <3> DEFINE q == [req[r] EXCEPT !.pc = "query"]
    <3>1. req' = [req EXCEPT ![r] = q]  BY <1>4, <2>3 DEF Get, IInv
    <3>2. q \in Rec  BY <1>1 DEF Rec, Control
    <3>3. /\ q.tokens = req[r].tokens /\ q.pc = "query" /\ q.call = req[r].call
          /\ q.op = req[r].op /\ q.token = req[r].token /\ q.new = req[r].new
          /\ q.ok = req[r].ok /\ req[r].pc = "get"
      BY <1>1, <1>4 DEF Rec, Get
    <3> HIDE DEF q
    <3>4. Good(q, issued, stored, removing)  BY <1>1, <3>3 DEF Good
    <3> QED  BY <1>4, <3>1, <3>2, <3>4, QuietStep DEF Get
  <2> QED  BY <2>2, <2>3
<1>5. CASE Query(r)
  <2> DEFINE l == row[req[r].key]
  <2>1. l \in Lists /\ List(l) \subseteq stored  BY <1>2 DEF IInv
  <2>2. CASE l = NoRow
    <3>1. req' = [req EXCEPT ![r] = WithList(r, {})]  BY <1>5, <2>2 DEF Query
    <3>2. req[r].pc # "respond"  BY <1>5 DEF Query
    <3>3. WithList(r, {}) \in Rec /\ Good(WithList(r, {}), issued, stored, removing)
      BY <3>2, WithListGood
    <3> QED  BY <1>5, <3>1, <3>3, QuietStep DEF Query
  <2>3. CASE l # NoRow
    <3> DEFINE q == [req[r] EXCEPT !.tokens = l, !.pc = "fill"]
    <3>1. l \in SUBSET stored  BY <2>1, <2>3, ListOf
    <3>2. req' = [req EXCEPT ![r] = q]  BY <1>5, <2>3 DEF Query, IInv
    <3>3. q \in Rec  BY <1>1, <1>3, <3>1 DEF Rec, Control
    <3>4. /\ q.tokens = l /\ q.pc = "fill" /\ q.call = req[r].call
          /\ q.op = req[r].op /\ q.token = req[r].token /\ q.new = req[r].new
          /\ q.ok = req[r].ok /\ req[r].pc = "query"
      BY <1>1, <1>5 DEF Rec, Query
    <3> HIDE DEF q
    <3>5. Good(q, issued, stored, removing)  BY <1>1, <1>3, <3>1, <3>4 DEF Good
    <3> QED  BY <1>5, <3>2, <3>3, <3>5, QuietStep DEF Query
  <2> QED  BY <2>2, <2>3
<1> QED  BY <1>4, <1>5

\* A list in hand goes to the cache.
LEMMA CacheTyped ==
    ASSUME IInv, NEW r \in Request, NEW s, stored \subseteq s, req[r].tokens \subseteq s,
           cache' = [cache EXCEPT ![req[r].at][req[r].key] = req[r].tokens]
    PROVE  /\ cache' \in [Replica -> [Key -> Lists]]
           /\ \A k \in Replica, key \in Key : List(cache'[k][key]) \subseteq s
<1>1. req[r] \in Rec  BY DEF IInv
<1>2. req[r].tokens \in SUBSET Token /\ req[r].tokens \in Lists  BY <1>1 DEF Rec, Lists
<1>3. cache' \in [Replica -> [Key -> Lists]]  BY <1>1, <1>2 DEF IInv, Rec
<1>4. ASSUME NEW k \in Replica, NEW key \in Key
      PROVE  List(cache'[k][key]) \subseteq s
  <2>1. cache'[k][key] \in {cache[k][key], req[r].tokens}  BY <1>1 DEF IInv, Rec
  <2>2. List(cache[k][key]) \subseteq s  BY DEF IInv
  <2>3. List(req[r].tokens) \subseteq s  BY <1>2 DEF List
  <2> QED  BY <2>1, <2>2, <2>3
<1> QED  BY <1>3, <1>4

\* The cache is filled with the list the query brought.
LEMMA FillStep == ASSUME IInv, NEW r \in Request, Fill(r) PROVE IInv'
<1>1. req[r] \in Rec /\ Good(req[r], issued, stored, removing) /\ req[r].pc = "fill"
  BY DEF IInv, Fill
<1>2. req[r].tokens \in SUBSET stored  BY <1>1 DEF Good
<1> DEFINE q == WithList(r, req[r].tokens)
<1>3. q \in Rec /\ Good(q, issued, stored, removing)  BY <1>1, <1>2, WithListGood
<1>4. /\ cache' \in [Replica -> [Key -> Lists]]
      /\ \A k \in Replica, key \in Key : List(cache'[k][key]) \subseteq stored
  BY <1>2, CacheTyped DEF Fill
<1>5. req' = [req EXCEPT ![r] = q]  BY DEF Fill
<1> HIDE DEF q
<1>6. UNCHANGED <<row, cookie, issued, stored, added, removing, removed, faults>>
  BY DEF Fill, ghosts
<1> QED  BY <1>3, <1>4, <1>5, <1>6, RequestStep DEF IInv

\* The row becomes the list in hand.
LEMMA RowTyped ==
    ASSUME IInv, NEW r \in Request, row' = [row EXCEPT ![req[r].key] = req[r].tokens],
           stored' = stored \union req[r].tokens
    PROVE  /\ row' \in [Key -> Lists] /\ stored' \subseteq issued
           /\ \A key \in Key : List(row'[key]) \subseteq stored'
<1>1. req[r] \in Rec /\ Good(req[r], issued, stored, removing)  BY DEF IInv
<1>2. req[r].tokens \in SUBSET Token /\ req[r].tokens \in Lists /\ req[r].tokens \subseteq issued
  BY <1>1 DEF Rec, Lists, Good
<1>3. row' \in [Key -> Lists]  BY <1>1, <1>2 DEF IInv, Rec
<1>4. ASSUME NEW key \in Key PROVE List(row'[key]) \subseteq stored'
  <2>1. row'[key] \in {row[key], req[r].tokens}  BY <1>1 DEF IInv, Rec
  <2>2. List(row[key]) \subseteq stored  BY DEF IInv
  <2>3. List(req[r].tokens) \subseteq stored'  BY <1>2 DEF List
  <2> QED  BY <2>1, <2>2, <2>3
<1> QED  BY <1>2, <1>3, <1>4 DEF IInv

LEMMA UpsertStep == ASSUME IInv, NEW r \in Request, Upsert(r) PROVE IInv'
<1> DEFINE q == [req[r] EXCEPT !.pc = "cacheSet"]
<1>1. req[r] \in Rec /\ Good(req[r], issued, stored, removing) /\ req[r].pc = "upsert"
  BY DEF IInv, Upsert
<1>2. q \in Rec  BY <1>1 DEF Rec, Control
<1>3. /\ q.tokens = req[r].tokens /\ q.pc = "cacheSet" /\ q.call = req[r].call
      /\ q.op = req[r].op /\ q.token = req[r].token /\ q.new = req[r].new /\ q.ok = req[r].ok
  BY <1>1 DEF Rec
<1>4. req' = [req EXCEPT ![r] = q]  BY DEF Upsert, IInv
<1> HIDE DEF q
<1>5. /\ row' = [row EXCEPT ![req[r].key] = req[r].tokens]
      /\ stored' = stored \union req[r].tokens
      /\ UNCHANGED <<cache, cookie, issued, added, removing, removed, faults>>
  BY DEF Upsert
<1>6. /\ row' \in [Key -> Lists] /\ stored' \subseteq issued
      /\ \A key \in Key : List(row'[key]) \subseteq stored'
  BY <1>5, RowTyped
<1>7. Good(q, issued, stored', removing)  BY <1>1, <1>3, <1>5 DEF Good
<1>8. \A k \in Replica, key \in Key : List(cache'[k][key]) \subseteq stored'
  BY <1>5 DEF IInv
<1>9. added' \subseteq stored' /\ stored \subseteq stored'  BY <1>5 DEF IInv
<1> QED  BY <1>2, <1>4, <1>5, <1>6, <1>7, <1>8, <1>9, RequestStep DEF IInv

\* A write fails, or its confirmation is lost.
LEMMA UpsertFailsStep == ASSUME IInv, NEW r \in Request, UpsertFails(r) PROVE IInv'
<1> DEFINE q == AfterFailure(r)
<1>1. req[r] \in Rec /\ Good(req[r], issued, stored, removing) /\ req[r].pc = "upsert"
  BY DEF IInv, UpsertFails
<1>2. q \in Rec  BY <1>1 DEF AfterFailure, Rec, Control
<1>3. /\ q.tokens = {} /\ q.pc = "respond" /\ q.call = req[r].call
      /\ q.op = req[r].op /\ q.token = req[r].token /\ q.new = req[r].new
  BY <1>1 DEF AfterFailure, Rec
<1>4. q.ok /\ q.op = "refresh" => q.call = "remove"
  BY <1>1, <1>3 DEF AfterFailure, Rec
<1>5. req' = [req EXCEPT ![r] = q]  BY DEF UpsertFails
<1> HIDE DEF q
<1>6. UNCHANGED <<cache, cookie, issued, added, removing, removed>> /\ faults' \in 0..MaxFaults
  BY TokenAssumption DEF UpsertFails, Fault, IInv
<1>7. Good(q, issued, stored, removing)  BY <1>1, <1>3, <1>4 DEF Good
<1>8. CASE UNCHANGED <<row, stored>>
  BY <1>2, <1>5, <1>6, <1>7, <1>8, RequestStep DEF IInv
<1>9. CASE row' = [row EXCEPT ![req[r].key] = req[r].tokens]
           /\ stored' = stored \union req[r].tokens
  <2>1. /\ row' \in [Key -> Lists] /\ stored' \subseteq issued
        /\ \A key \in Key : List(row'[key]) \subseteq stored'
    BY <1>9, RowTyped
  <2>2. Good(q, issued, stored', removing)  BY <1>7, <1>9, GoodGrows
  <2>3. \A k \in Replica, key \in Key : List(cache'[k][key]) \subseteq stored'
    BY <1>6, <1>9 DEF IInv
  <2>4. added' \subseteq stored' /\ stored \subseteq stored'  BY <1>6, <1>9 DEF IInv
  <2> QED  BY <1>2, <1>5, <1>6, <2>1, <2>2, <2>3, <2>4, RequestStep DEF IInv
<1> QED  BY <1>8, <1>9 DEF UpsertFails

\* The cache is brought up to date, and the call is done: a refresh goes on to
\* remove the token it was given.
LEMMA CacheSetStep == ASSUME IInv, NEW r \in Request, CacheSet(r) PROVE IInv'
<1> DEFINE q == AfterCall(r)
<1>1. req[r] \in Rec /\ Good(req[r], issued, stored, removing) /\ req[r].pc = "cacheSet"
  BY DEF IInv, CacheSet
<1>2. req[r].tokens \in SUBSET stored  BY <1>1 DEF Good
<1>3. /\ cache' \in [Replica -> [Key -> Lists]]
      /\ \A k \in Replica, key \in Key : List(cache'[k][key]) \subseteq stored
  BY <1>2, CacheTyped DEF CacheSet
<1>4. /\ req' = [req EXCEPT ![r] = q]
      /\ added' = added \union (IF req[r].call = "add" THEN {req[r].new} ELSE {})
      /\ removed' = removed \union (IF req[r].call = "remove" THEN {req[r].token} ELSE {})
      /\ removing' = IF q.call = "remove" THEN removing \union {req[r].token} ELSE removing
      /\ UNCHANGED <<row, cookie, issued, stored, faults>>
  BY DEF CacheSet
<1>5. added' \subseteq stored  BY <1>1, <1>2, <1>4 DEF IInv, Good
<1>6. CASE req[r].op = "refresh" /\ req[r].call = "add"
  <2>1. q = [req[r] EXCEPT !.call = "remove", !.pc = "get", !.tokens = {}]
    BY <1>6 DEF AfterCall
  <2>2. q \in Rec  BY <1>1, <2>1 DEF Rec, Call, Control
  <2>3. /\ q.tokens = {} /\ q.pc = "get" /\ q.call = "remove" /\ q.op = "refresh"
        /\ q.token = req[r].token /\ q.new = req[r].new /\ q.ok = req[r].ok
    BY <1>1, <1>6, <2>1 DEF Rec
  <2> HIDE DEF q
  <2>4. req[r].token \in stored  BY <1>1, <1>6 DEF Good
  <2>5. removing' = removing \union {req[r].token} /\ removed' = removed
    BY <1>4, <1>6, <2>3
  <2>6. req[r].token \in issued /\ req[r].ok  BY <1>1, <2>4 DEF IInv, Good
  <2>7. Good(q, issued, stored, removing')  BY <1>1, <1>6, <2>3, <2>4, <2>5, <2>6 DEF Good
  <2>8. removing' \subseteq issued /\ removed' \subseteq removing' /\ removing \subseteq removing'
    BY <2>4, <2>5 DEF IInv
  <2> QED  BY <1>3, <1>4, <1>5, <2>2, <2>7, <2>8, RequestStep DEF IInv
<1>7. CASE ~(req[r].op = "refresh" /\ req[r].call = "add")
  <2>1. q = [req[r] EXCEPT !.pc = "respond", !.tokens = {}]  BY <1>7 DEF AfterCall
  <2>2. q \in Rec  BY <1>1, <2>1 DEF Rec, Control
  <2>3. /\ q.tokens = {} /\ q.pc = "respond" /\ q.call = req[r].call /\ q.op = req[r].op
        /\ q.token = req[r].token /\ q.new = req[r].new /\ q.ok = req[r].ok
    BY <1>1, <2>1 DEF Rec
  <2> HIDE DEF q
  <2>4. Good(q, issued, stored, removing)  BY <1>1, <2>3 DEF Good
  <2>5. req[r].call = "remove" => req[r].token \in removing  BY <1>1 DEF Good
  <2>6. removing' = removing /\ removed' \subseteq removing
    BY <1>4, <2>3, <2>5 DEF IInv
  <2> QED  BY <1>3, <1>4, <1>5, <2>2, <2>4, <2>6, RequestStep DEF IInv
<1> QED  BY <1>6, <1>7

\* The answer reaches the browser, or does not.
LEMMA RespondStep == ASSUME IInv, NEW r \in Request, Respond(r) PROVE IInv'
<1>1. req[r] \in Rec /\ Good(req[r], issued, stored, removing)  BY DEF IInv
<1>2. req[r].new \in issued \union {NoToken} /\ req[r].browser \in Browser
  BY <1>1 DEF Good, Rec
<1>3. \/ cookie' = [cookie EXCEPT ![req[r].browser] = req[r].new]
      \/ cookie' = [cookie EXCEPT ![req[r].browser] = NoToken]
      \/ cookie' = cookie
  BY DEF Respond
<1>4. /\ cookie' \in [Browser -> Token \union {NoToken}]
      /\ \A b \in Browser : cookie'[b] \in issued \union {NoToken}
  BY <1>2, <1>3 DEF IInv
<1>5. req' = [req EXCEPT ![r] = Idle]
      /\ UNCHANGED <<row, cache, issued, stored, added, removing, removed, faults>>
  BY DEF Respond, ghosts
<1> QED  BY <1>4, <1>5, IdleGood, RequestStep DEF IInv

\* An entry, or a process with all of its entries and requests, is gone.
LEMMA LossFacts ==
    ASSUME IInv, NEW k \in Replica, Restart(k) \/ \E key \in Key : Expire(k, key)
    PROVE  /\ cache' \in [Replica -> [Key -> Lists]]
           /\ \A j \in Replica, key \in Key : cache'[j][key] \in {cache[j][key], Miss}
           /\ req' \in [Request -> Rec]
           /\ \A r \in Request : req'[r] \in {req[r], Idle}
<1>1. Miss \in Lists  BY DEF Miss, NoRow, Lists
<1>2. CASE Restart(k)
  <2>1. [key \in Key |-> Miss] \in [Key -> Lists]  BY <1>1
  <2>2. cache' = [cache EXCEPT ![k] = [key \in Key |-> Miss]]  BY <1>2 DEF Restart
  <2>3. \A j \in Replica : cache'[j] = IF j = k THEN [key \in Key |-> Miss] ELSE cache[j]
    BY <2>2 DEF IInv
  <2>4. cache' \in [Replica -> [Key -> Lists]]  BY <2>1, <2>2 DEF IInv
  <2>5. \A j \in Replica, key \in Key : cache'[j][key] \in {cache[j][key], Miss}  BY <2>3
  <2>6. req' \in [Request -> Rec] /\ \A r \in Request : req'[r] \in {req[r], Idle}
    BY <1>2, IdleGood DEF Restart, IInv
  <2> QED  BY <2>4, <2>5, <2>6
<1>3. ASSUME NEW key \in Key, Expire(k, key)
      PROVE  /\ cache' \in [Replica -> [Key -> Lists]]
             /\ \A j \in Replica, l \in Key : cache'[j][l] \in {cache[j][l], Miss}
             /\ req' = req
  BY <1>1, <1>3 DEF Expire, IInv
<1> QED  BY <1>2, <1>3 DEF IInv

LEMMA LossStep ==
    ASSUME IInv, NEW k \in Replica, Restart(k) \/ \E key \in Key : Expire(k, key)
    PROVE  IInv'
<1>1. /\ UNCHANGED <<row, cookie, issued, stored, added, removing, removed>>
      /\ faults' \in 0..MaxFaults
  BY TokenAssumption DEF Restart, Expire, Fault, ghosts, IInv
<1>2. List(Miss) = {}  BY DEF List, Miss, NoRow
<1>3. \A j \in Replica, key \in Key : List(cache'[j][key]) \subseteq stored
  BY <1>2, LossFacts DEF IInv
<1>4. \A r \in Request : Good(req'[r], issued, stored, removing)
  BY LossFacts, IdleGood DEF IInv
<1> QED  BY <1>1, <1>3, <1>4, LossFacts DEF IInv

LEMMA Initially == Init => IInv
<1> SUFFICES ASSUME Init PROVE IInv  OBVIOUS
<1>1. List(NoRow) = {} /\ NoRow \in Lists /\ Miss = NoRow  BY DEF List, Lists, Miss, NoRow
<1>2. \A r \in Request : req[r] = Idle  BY DEF Init
<1>3. req \in [Request -> Rec]  BY IdleGood DEF Init
<1>4. \A r \in Request : Good(req[r], issued, stored, removing)  BY <1>2, IdleGood
<1> QED  BY <1>1, <1>3, <1>4, TokenAssumption DEF Init, IInv

LEMMA Step == IInv /\ [Next]_vars => IInv'
<1> SUFFICES ASSUME IInv, [Next]_vars PROVE IInv'  OBVIOUS
<1>1. ASSUME NEW r \in Request, Arrive(r) PROVE IInv'  BY <1>1, ArriveStep
<1>2. ASSUME NEW r \in Request, Serve(r) PROVE IInv'
  BY <1>2, ReadStep, FillStep, UpsertStep, UpsertFailsStep, CacheSetStep, RespondStep DEF Serve
<1>3. ASSUME NEW k \in Replica, Restart(k) \/ \E key \in Key : Expire(k, key) PROVE IInv'
  BY <1>3, LossStep
<1>4. CASE UNCHANGED vars  BY <1>4 DEF vars, ghosts, IInv
<1> QED  BY <1>1, <1>2, <1>3, <1>4 DEF Next

\* What requests have in hand is good, whatever overlaps.
THEOREM Hands == Spec => []IInv
<1> QED  BY Initially, Step, PTL DEF Spec

\* The states of the token lists stay within their types.
THEOREM TokensTyped == Spec => []TypeOK
<1>1. IInv => TypeOK  BY DEF IInv, TypeOK, Rec, Lists, Miss, NoRow
<1> QED  BY <1>1, Hands, PTL

\* RefreshToken accepts only ids a row held (auth_service.go, RefreshToken asks
\* the store, which asks its cache).
THEOREM OnlyStoredAccepted == Spec => []AcceptedWasStored
<1>1. IInv => AcceptedWasStored  BY DEF IInv, Good, AcceptedWasStored
<1> QED  BY <1>1, Hands, PTL

-----------------------------------------------------------------------------
(* One process and one request at a time                                   *)

Alone == /\ \A r, s \in Request : r = s
         /\ \A j, k \in Replica : j = k

\* A token is in the list under key, wherever that list is.
Kept(t, key) ==
    /\ t \in List(row[key])
    /\ \A k \in Replica : cache[k][key] = Miss \/ t \in cache[k][key]
    /\ \A r \in Request : req[r].key = key /\ req[r].pc \in {"fill", "upsert", "cacheSet"}
                              => t \in req[r].tokens

\* A token is in no list, and nobody is about to add it.
Gone(t) ==
    /\ \A key \in Key : t \notin List(row[key])
    /\ \A k \in Replica, key \in Key : t \notin List(cache[k][key])
    /\ \A r \in Request : /\ t \notin req[r].tokens
                          /\ req[r].call \in {"check", "add"} => t # req[r].new

\* The ids of the two lists are apart: S are those of refresh tokens.
ListApart(l, key, S) ==
    IF key = "REFRESH_TOKENS" THEN List(l) \subseteq S ELSE List(l) \intersect S = {}

HandApart(q, S) ==
    /\ q.op \in {"signIn", "signOut", "refresh"} => q.key = "REFRESH_TOKENS"
    /\ q.key = "REFRESH_TOKENS" => /\ {q.token, q.new} \subseteq S \union {NoToken}
                                   /\ q.tokens \subseteq S
    /\ q.key # "REFRESH_TOKENS" => ({q.token, q.new} \union q.tokens) \intersect S = {}

Apart(S) ==
    /\ S \subseteq issued
    /\ \A b \in Browser : cookie[b] \in S \union {NoToken}
    /\ \A key \in Key : ListApart(row[key], key, S)
    /\ \A k \in Replica, key \in Key : ListApart(cache[k][key], key, S)
    /\ \A r \in Request : HandApart(req[r], S)

WroteRow == \A r \in Request : req[r].pc = "cacheSet" => row[req[r].key] = req[r].tokens

\* The inductive invariant for one request at a time.
AInv ==
    /\ IInv
    /\ \E S \in SUBSET Token : Apart(S)
    /\ WroteRow
    /\ \A t \in added \ removing : \E key \in Key : Kept(t, key)
    /\ \A t \in removed : Gone(t)

\* What WithList makes of a request.
LEMMA WithListFacts ==
    ASSUME IInv, NEW r \in Request, NEW l \in SUBSET stored
    PROVE  LET q == req[r]
               w == WithList(r, l)
           IN  /\ w.pc \in {"upsert", "idle", "get", "respond"}
               /\ w = Idle \/ /\ w.key = q.key /\ w.op = q.op
                              /\ w.token = q.token /\ w.new = q.new
               /\ w.pc # "upsert" => w.tokens = {}
               /\ w.pc = "upsert" =>
                      /\ w.key = q.key
                      /\ \/ q.call = "add" /\ w.tokens = l \union {q.new}
                         \/ q.call = "remove" /\ w.tokens = l \ {q.token}
                         \/ w.tokens = l
               /\ w.call \in {"check", "add"} => q.call \in {"check", "add"} /\ w.new = q.new
<1> DEFINE q == req[r]
           w == WithList(r, l)
           Fact == /\ w.pc \in {"upsert", "idle", "get", "respond"}
                   /\ w = Idle \/ /\ w.key = q.key /\ w.op = q.op
                                  /\ w.token = q.token /\ w.new = q.new
                   /\ w.pc # "upsert" => w.tokens = {}
                   /\ w.pc = "upsert" =>
                          /\ w.key = q.key
                          /\ \/ q.call = "add" /\ w.tokens = l \union {q.new}
                             \/ q.call = "remove" /\ w.tokens = l \ {q.token}
                             \/ w.tokens = l
                   /\ w.call \in {"check", "add"} => q.call \in {"check", "add"} /\ w.new = q.new
<1>1. q \in Rec  BY DEF IInv
<1>2. CASE q.call = "add"
  <2>1. w = [q EXCEPT !.tokens = l \union {q.new}, !.pc = "upsert"]  BY <1>2 DEF WithList
  <2> QED  BY <1>1, <1>2, <2>1 DEF Rec
<1>3. CASE q.call = "remove"
  <2>1. w = [q EXCEPT !.tokens = l \ {q.token}, !.pc = "upsert"]  BY <1>3 DEF WithList
  <2> QED  BY <1>1, <1>3, <2>1 DEF Rec
<1>4. CASE q.call = "touch"
  <2>1. w = [q EXCEPT !.tokens = l, !.pc = "upsert"]  BY <1>4 DEF WithList
  <2> QED  BY <1>1, <1>4, <2>1 DEF Rec
<1>5. CASE q.call = "list"
  <2>1. w = Idle  BY <1>5 DEF WithList
  <2>2. Idle.pc = "idle" /\ Idle.tokens = {} /\ Idle.call = "none"  BY DEF Idle
  <2>3. w.pc = "idle" /\ w.tokens = {} /\ w.call = "none"  BY <2>1, <2>2
  <2> QED  BY <2>1, <2>3
<1>6. CASE q.call = "check" /\ q.token \in l
  <2>1. w = [q EXCEPT !.call = "add", !.pc = "get", !.tokens = {}]  BY <1>6 DEF WithList
  <2> QED  BY <1>1, <1>6, <2>1 DEF Rec
<1>7. CASE q.call \in {"check", "none"} /\ ~(q.call = "check" /\ q.token \in l)
  <2>1. w = [q EXCEPT !.ok = FALSE, !.pc = "respond", !.tokens = {}]  BY <1>7 DEF WithList
  <2> QED  BY <1>1, <1>7, <2>1 DEF Rec
<1>8. q.call \in {"check", "add", "remove", "touch", "list", "none"}  BY <1>1 DEF Rec, Call
<1> QED  BY <1>2, <1>3, <1>4, <1>5, <1>6, <1>7, <1>8

\* ... and what the end of a call makes of it.
LEMMA AfterFacts ==
    ASSUME NEW r \in Request, req[r] \in Rec, NEW w \in {AfterCall(r), AfterFailure(r)}
    PROVE  /\ w.pc \in {"get", "respond"} /\ w.tokens = {}
           /\ w.key = req[r].key /\ w.op = req[r].op
           /\ w.token = req[r].token /\ w.new = req[r].new
           /\ w.call = req[r].call \/ w.call = "remove"
BY DEF AfterCall, AfterFailure, Rec

\* The two lists stay apart as long as their ids are new when they are added.
LEMMA ApartStep ==
    ASSUME IInv, NEW S \in SUBSET Token, Apart(S), [Next]_vars
    PROVE  \E T \in SUBSET Token : Apart(T)'
<1>1. List(NoRow) = {} /\ Miss = NoRow  BY DEF List, NoRow, Miss
<1>2. \A key \in Key : \A T : ListApart(Miss, key, T)  BY <1>1 DEF ListApart
<1>3. \A T : HandApart(Idle, T)  BY DEF HandApart, Idle
<1>4. NoToken \notin issued /\ stored \subseteq issued /\ issued \subseteq Token
  BY TokenAssumption DEF IInv
<1>5. ASSUME NEW r \in Request, NEW l \in SUBSET stored, ListApart(l, req[r].key, S)
      PROVE  HandApart(WithList(r, l), S)
  <2> DEFINE q == req[r]
             w == WithList(r, l)
  <2>1. HandApart(q, S) /\ q \in Rec  BY DEF Apart, IInv
  <2>2. CASE w = Idle  BY <1>3, <2>2
  <2>3. ASSUME NEW v, v.key = q.key, v.op = q.op, v.token = q.token, v.new = q.new,
               v.tokens \subseteq l \union {q.new}, NoToken \notin v.tokens
        PROVE  HandApart(v, S)
    <3>1. ListApart(l, q.key, S)  BY <1>5
    <3>2. List(l) = l  BY <1>4 DEF List, NoRow
    <3> HIDE DEF q
    <3> QED  BY <2>1, <2>3, <3>1, <3>2 DEF HandApart, ListApart
  <2>4. w.tokens = {} \/ w.tokens \subseteq l \union (IF q.call = "add" THEN {q.new} ELSE {})
    BY WithListFacts
  <2>5. q.call = "add" => q.new # NoToken  BY DEF IInv, Good
  <2>6. w.tokens \subseteq l \union {q.new} /\ NoToken \notin w.tokens
    <3> HIDE DEF w, q
    <3> QED  BY <1>4, <2>4, <2>5
  <2> QED  BY <2>2, <2>3, <2>6, WithListFacts
\* A request that begins with an id nobody has, or one it took from its list.
<1>6. ASSUME NEW r \in Request, NEW op, NEW call, NEW key \in Key, NEW k, NEW b,
             NEW token \in issued \union {NoToken}, NEW new \in (Token \ issued) \union {NoToken},
             Begin(r, op, call, key, k, b, token, new),
             op \in {"signIn", "signOut", "refresh"} => key = "REFRESH_TOKENS",
             key = "REFRESH_TOKENS" => token \in S \union {NoToken},
             key # "REFRESH_TOKENS" => token \notin S
      PROVE  \E T \in SUBSET Token : Apart(T)'
  <2> DEFINE T == IF key = "REFRESH_TOKENS" THEN S \union ({new} \ {NoToken}) ELSE S
             q == [Idle EXCEPT !.op = op, !.call = call, !.pc = "get", !.key = key,
                               !.at = k, !.browser = b, !.token = token, !.new = new]
  <2>1. req' = [req EXCEPT ![r] = q] /\ issued' = issued \union ({new} \ {NoToken})
        /\ UNCHANGED <<row, cache, cookie>>
    BY <1>6 DEF Begin
  <2>2. q.op = op /\ q.key = key /\ q.token = token /\ q.new = new /\ q.tokens = {}
    BY DEF Idle
  <2>3. S \subseteq issued  BY DEF Apart
  <2>4. HandApart(q, T)
    <3> HIDE DEF q
    <3> QED  BY <1>4, <1>6, <2>2, <2>3 DEF HandApart
  <2>5. T \in SUBSET Token /\ T \subseteq issued' /\ S \subseteq T /\ T \intersect issued = S
    BY <1>4, <2>1, <2>3
  <2> HIDE DEF T, q
  <2>6. ASSUME NEW x \in Key, NEW u, List(u) \subseteq stored, ListApart(u, x, S)
        PROVE  ListApart(u, x, T)
    BY <1>4, <2>5, <2>6 DEF ListApart
  <2>7. \A x \in Key : ListApart(row'[x], x, T)  BY <2>1, <2>6 DEF Apart, IInv
  <2>8. \A j \in Replica, x \in Key : ListApart(cache'[j][x], x, T)
    BY <2>1, <2>6 DEF Apart, IInv
  <2>9. ASSUME NEW p \in Request PROVE HandApart(req'[p], T)
    <3>1. CASE p = r  BY <2>1, <2>4, <3>1 DEF IInv
    <3>2. CASE p # r
      <4>1. req'[p] = req[p] /\ HandApart(req[p], S)  BY <2>1, <3>2 DEF Apart, IInv
      <4>2. {req[p].token, req[p].new} \subseteq issued \union {NoToken}
            /\ req[p].tokens \subseteq issued
        BY DEF IInv, Good
      <4>3. NoToken \notin T  BY <2>5, TokenAssumption
      <4> QED  BY <2>5, <4>1, <4>2, <4>3 DEF HandApart
    <3> QED  BY <3>1, <3>2
  <2>10. \A x \in Browser : cookie'[x] \in T \union {NoToken}  BY <2>1, <2>5 DEF Apart
  <2> QED  BY <2>5, <2>7, <2>8, <2>9, <2>10 DEF Apart
\* A step of one request that keeps what it has, or learned a list.
<1>7. ASSUME NEW r \in Request, NEW q, req' = [req EXCEPT ![r] = q], HandApart(q, S),
             UNCHANGED issued,
             \A b \in Browser : cookie'[b] \in S \union {NoToken},
             \A key \in Key : ListApart(row'[key], key, S),
             \A k \in Replica, key \in Key : ListApart(cache'[k][key], key, S)
      PROVE  \E T \in SUBSET Token : Apart(T)'
  <2>1. \A p \in Request : HandApart(req'[p], S)  BY <1>7 DEF Apart, IInv
  <2> QED  BY <1>7, <2>1 DEF Apart
<1>8. ASSUME NEW r \in Request
      PROVE  req[r] \in Rec /\ HandApart(req[r], S) /\ Good(req[r], issued, stored, removing)
  BY DEF IInv, Apart
<1>9. ASSUME NEW r \in Request, Arrive(r)
      PROVE  \E T \in SUBSET Token : Apart(T)'
  <2>1. PICK k \in Replica, b \in Browser :
          \/ SignIn(r, k, b) \/ SignOut(r, k, b) \/ RefreshToken(r, k, b)
          \/ CreatePAT(r, k, b) \/ DeletePAT(r, k, b) \/ UsePAT(r, k, b)
          \/ ListSettings(r, k, b)
    BY <1>9 DEF Arrive
  <2>2. "REFRESH_TOKENS" \in Key /\ "PERSONAL_ACCESS_TOKENS" \in Key  BY DEF Key
  <2>3. cookie[b] \in S \union {NoToken} /\ cookie[b] \in issued \union {NoToken}
    BY DEF Apart, IInv
  <2>4. List(row["PERSONAL_ACCESS_TOKENS"]) \subseteq issued
        /\ List(row["PERSONAL_ACCESS_TOKENS"]) \intersect S = {}
    BY <2>2 DEF IInv, Apart, ListApart
  <2>5. NoToken \notin S  BY TokenAssumption
  <2>6. CASE SignIn(r, k, b)  BY <1>6, <2>2, <2>6 DEF SignIn
  <2>7. CASE SignOut(r, k, b)  BY <1>6, <2>2, <2>3, <2>7 DEF SignOut
  <2>8. CASE RefreshToken(r, k, b)  BY <1>6, <2>2, <2>3, <2>8 DEF RefreshToken
  <2>9. CASE CreatePAT(r, k, b)  BY <1>6, <2>2, <2>5, <2>9 DEF CreatePAT
  <2>10. CASE DeletePAT(r, k, b)  BY <1>6, <2>2, <2>4, <2>10 DEF DeletePAT
  <2>11. CASE UsePAT(r, k, b)  BY <1>6, <2>2, <2>4, <2>11 DEF UsePAT
  <2>12. CASE ListSettings(r, k, b)
    <3>1. PICK key \in Key :
            req' = [req EXCEPT ![r] = [Idle EXCEPT !.call = "list", !.pc = "query",
                                                   !.key = key, !.at = k]]
      BY <2>12 DEF ListSettings
    <3> DEFINE q == [Idle EXCEPT !.call = "list", !.pc = "query", !.key = key, !.at = k]
    <3>2. q.op = "list" /\ q.token = NoToken /\ q.new = NoToken /\ q.tokens = {}
      BY DEF Idle
    <3>3. req' = [req EXCEPT ![r] = q]  BY <3>1
    <3> HIDE DEF q
    <3>4. HandApart(q, S)  BY <2>5, <3>2 DEF HandApart
    <3>5. UNCHANGED <<row, cache, cookie, issued>>  BY <2>12 DEF ListSettings
    <3> QED  BY <1>7, <3>3, <3>4, <3>5 DEF Apart
  <2> QED  BY <2>1, <2>6, <2>7, <2>8, <2>9, <2>10, <2>11, <2>12
\* The list in hand is of its own key.
<1>10. ASSUME NEW r \in Request PROVE ListApart(req[r].tokens, req[r].key, S)
  <2>1. List(req[r].tokens) = {} \/ List(req[r].tokens) = req[r].tokens  BY DEF List
  <2> QED  BY <1>8, <2>1 DEF HandApart, ListApart
<1>11. ASSUME NEW r \in Request,
              cache' = [cache EXCEPT ![req[r].at][req[r].key] = req[r].tokens]
       PROVE  \A k \in Replica, key \in Key : ListApart(cache'[k][key], key, S)
  <2>1. \A k \in Replica, key \in Key :
           cache'[k][key] = IF k = req[r].at /\ key = req[r].key
                            THEN req[r].tokens ELSE cache[k][key]
    BY <1>11 DEF IInv
  <2> QED  BY <1>10, <2>1 DEF Apart
<1>12. ASSUME NEW r \in Request, row' = [row EXCEPT ![req[r].key] = req[r].tokens]
       PROVE  \A key \in Key : ListApart(row'[key], key, S)
  BY <1>10, <1>12 DEF Apart, IInv
<1>13. ASSUME NEW r \in Request, NEW w, w.op = req[r].op, w.key = req[r].key,
              w.token = req[r].token, w.new = req[r].new, w.tokens \in {{}, req[r].tokens}
       PROVE  HandApart(w, S)
  BY <1>8, <1>13 DEF HandApart
<1>14. ASSUME NEW r \in Request, Serve(r) PROVE \E T \in SUBSET Token : Apart(T)'
  <2>0. req[r].key \in Key /\ req[r].at \in Replica /\ req[r].browser \in Browser
    BY <1>8 DEF Rec
  <2>1. CASE Get(r)
    <3> DEFINE hit == cache[req[r].at][req[r].key]
    <3>1. hit \in Lists /\ List(hit) \subseteq stored /\ ListApart(hit, req[r].key, S)
      BY <2>0 DEF IInv, Apart
    <3>2. CASE hit # Miss
      <4>1. hit \in SUBSET stored  BY <1>1, <3>1, <3>2, ListOf
      <4> QED  BY <1>5, <1>7, <2>1, <3>1, <3>2, <4>1 DEF Get, Apart
    <3>3. CASE hit = Miss
      <4> DEFINE q == [req[r] EXCEPT !.pc = "query"]
      <4>1. req' = [req EXCEPT ![r] = q]  BY <2>1, <3>3 DEF Get, IInv
      <4>2. /\ q.op = req[r].op /\ q.key = req[r].key /\ q.token = req[r].token
            /\ q.new = req[r].new /\ q.tokens = req[r].tokens
        BY <1>8 DEF Rec
      <4> HIDE DEF q
      <4>3. HandApart(q, S)  BY <1>13, <4>2
      <4> QED  BY <1>7, <2>1, <4>1, <4>3 DEF Get, Apart
    <3> QED  BY <3>2, <3>3
  <2>2. CASE Query(r)
    <3> DEFINE l == row[req[r].key]
    <3>1. l \in Lists /\ List(l) \subseteq stored /\ ListApart(l, req[r].key, S)
      BY <2>0 DEF IInv, Apart
    <3>2. CASE l = NoRow
      <4>1. ListApart({}, req[r].key, S)  BY DEF ListApart, List
      <4> QED  BY <1>5, <1>7, <2>2, <3>2, <4>1 DEF Query, Apart
    <3>3. CASE l # NoRow
      <4> DEFINE q == [req[r] EXCEPT !.tokens = l, !.pc = "fill"]
      <4>1. req' = [req EXCEPT ![r] = q]  BY <2>2, <3>3 DEF Query, IInv
      <4>2. /\ q.op = req[r].op /\ q.key = req[r].key /\ q.token = req[r].token
            /\ q.new = req[r].new /\ q.tokens = l
        BY <1>8 DEF Rec
      <4>3. List(l) = l  BY <3>1, <3>3, ListOf
      <4> HIDE DEF q
      <4>4. HandApart(q, S)  BY <1>8, <3>1, <4>2, <4>3 DEF HandApart, ListApart
      <4> QED  BY <1>7, <2>2, <4>1, <4>4 DEF Query, Apart
    <3> QED  BY <3>2, <3>3
  <2>3. CASE Fill(r)
    <3>1. req[r].tokens \in SUBSET stored  BY <1>8, <2>3 DEF Fill, Good
    <3> QED  BY <1>5, <1>7, <1>10, <1>11, <2>3, <3>1 DEF Fill, Apart
  <2>4. CASE Upsert(r)
    <3> DEFINE q == [req[r] EXCEPT !.pc = "cacheSet"]
    <3>1. req' = [req EXCEPT ![r] = q]  BY <2>4 DEF Upsert, IInv
    <3>2. /\ q.op = req[r].op /\ q.key = req[r].key /\ q.token = req[r].token
          /\ q.new = req[r].new /\ q.tokens = req[r].tokens
      BY <1>8 DEF Rec
    <3> HIDE DEF q
    <3>3. HandApart(q, S)  BY <1>13, <3>2
    <3> QED  BY <1>7, <1>12, <2>4, <3>1, <3>3 DEF Upsert, Apart
  <2>5. CASE UpsertFails(r)
    <3>1. HandApart(AfterFailure(r), S)  BY <1>8, <1>13, AfterFacts
    <3> QED  BY <1>7, <1>12, <2>5, <3>1 DEF UpsertFails, Apart
  <2>6. CASE CacheSet(r)
    <3>1. HandApart(AfterCall(r), S)  BY <1>8, <1>13, AfterFacts
    <3> QED  BY <1>7, <1>11, <2>6, <3>1 DEF CacheSet, Apart
  <2>7. CASE Respond(r)
    <3>1. req[r].op \in {"signIn", "refresh"} => req[r].new \in S \union {NoToken}
      BY <1>8 DEF HandApart
    <3>2. \/ cookie' = cookie
          \/ /\ req[r].op \in {"signIn", "refresh"}
             /\ cookie' = [cookie EXCEPT ![req[r].browser] = req[r].new]
          \/ cookie' = [cookie EXCEPT ![req[r].browser] = NoToken]
      BY <2>7 DEF Respond
    <3>3. \A b \in Browser : cookie'[b] \in S \union {NoToken}
      BY <3>1, <3>2 DEF Apart, IInv
    <3> QED  BY <1>3, <1>7, <2>7, <3>3 DEF Respond, Apart
  <2> QED  BY <1>14, <2>1, <2>2, <2>3, <2>4, <2>5, <2>6, <2>7 DEF Serve
<1>15. ASSUME NEW k \in Replica, Restart(k) \/ \E key \in Key : Expire(k, key)
       PROVE  Apart(S)'
  <2>1. UNCHANGED <<row, cookie, issued>>  BY <1>15 DEF Restart, Expire
  <2>2. /\ \A j \in Replica, key \in Key : cache'[j][key] \in {cache[j][key], Miss}
        /\ \A r \in Request : req'[r] \in {req[r], Idle}
    BY <1>15, LossFacts
  <2> QED  BY <1>2, <1>3, <2>1, <2>2 DEF Apart
<1>16. CASE UNCHANGED vars  BY <1>16 DEF vars, Apart
<1> QED  BY <1>9, <1>14, <1>15, <1>16 DEF Next

\* What arrives has read nothing yet, and brings a new id if it will add one.
LEMMA ArriveFacts ==
    ASSUME IInv, NEW r \in Request, Arrive(r)
    PROVE  /\ UNCHANGED <<row, cache, stored, added, removed>>
           /\ removing \subseteq removing'
           /\ \E q : /\ req' = [req EXCEPT ![r] = q]
                     /\ q.pc \in {"get", "query"} /\ q.tokens = {}
                     /\ q.call \in {"check", "add"} => q.new \notin issued
<1>1. ASSUME NEW op, NEW call, NEW key, NEW k, NEW b, NEW token, NEW new,
             call \in {"check", "add"} => new \notin issued,
             Begin(r, op, call, key, k, b, token, new)
      PROVE  /\ UNCHANGED <<row, cache, stored, added, removed>>
             /\ removing \subseteq removing'
             /\ \E q : /\ req' = [req EXCEPT ![r] = q]
                       /\ q.pc \in {"get", "query"} /\ q.tokens = {}
                       /\ q.call \in {"check", "add"} => q.new \notin issued
  <2> DEFINE q == [Idle EXCEPT !.op = op, !.call = call, !.pc = "get", !.key = key,
                               !.at = k, !.browser = b, !.token = token, !.new = new]
  <2>1. q.pc = "get" /\ q.tokens = {} /\ q.call = call /\ q.new = new  BY DEF Idle
  <2>2. /\ req' = [req EXCEPT ![r] = q]
        /\ UNCHANGED <<row, cache, stored, added, removed>> /\ removing \subseteq removing'
    BY <1>1 DEF Begin
  <2> HIDE DEF q
  <2> QED  BY <1>1, <2>1, <2>2
<1>2. PICK k \in Replica, b \in Browser :
        \/ SignIn(r, k, b) \/ SignOut(r, k, b) \/ RefreshToken(r, k, b)
        \/ CreatePAT(r, k, b) \/ DeletePAT(r, k, b) \/ UsePAT(r, k, b)
        \/ ListSettings(r, k, b)
  BY DEF Arrive
<1>3. CASE ListSettings(r, k, b)
  <2>1. PICK key \in Key :
          req' = [req EXCEPT ![r] = [Idle EXCEPT !.call = "list", !.pc = "query",
                                                 !.key = key, !.at = k]]
    BY <1>3 DEF ListSettings
  <2> DEFINE q == [Idle EXCEPT !.call = "list", !.pc = "query", !.key = key, !.at = k]
  <2>2. q.pc = "query" /\ q.tokens = {} /\ q.call = "list"  BY DEF Idle
  <2>3. req' = [req EXCEPT ![r] = q]  BY <2>1
  <2>4. UNCHANGED <<row, cache, stored, added, removed>> /\ removing \subseteq removing'
    BY <1>3 DEF ListSettings, ghosts
  <2> HIDE DEF q
  <2> QED  BY <2>2, <2>3, <2>4
<1>4. CASE SignIn(r, k, b)  BY <1>1, <1>4 DEF SignIn
<1>5. CASE SignOut(r, k, b)  BY <1>1, <1>5 DEF SignOut
<1>6. CASE RefreshToken(r, k, b)  BY <1>1, <1>6 DEF RefreshToken
<1>7. CASE CreatePAT(r, k, b)  BY <1>1, <1>7 DEF CreatePAT
<1>8. CASE DeletePAT(r, k, b)  BY <1>1, <1>8 DEF DeletePAT
<1>9. CASE UsePAT(r, k, b)  BY <1>1, <1>9 DEF UsePAT
<1> QED  BY <1>2, <1>3, <1>4, <1>5, <1>6, <1>7, <1>8, <1>9

\* A token that is kept stays so while nobody begins to remove it.
LEMMA KeptStep ==
    ASSUME IInv, NEW t \in Token \ removing, NEW key \in Key, Kept(t, key), [Next]_vars
    PROVE  Kept(t, key)'
<1> DEFINE Holds(q) == q.key = key /\ q.pc \in {"fill", "upsert", "cacheSet"} => t \in q.tokens
           InCaches(c) == \A k \in Replica : c[k][key] = Miss \/ t \in c[k][key]
<1>1. \A l \in SUBSET Token : List(l) = l  BY TokenAssumption DEF List, NoRow
<1>2. t \in List(row[key]) /\ InCaches(cache) /\ \A r \in Request : Holds(req[r])
  BY DEF Kept
<1>3. ASSUME NEW r \in Request
      PROVE  /\ req[r] \in Rec /\ Good(req[r], issued, stored, removing)
             /\ req[r].key \in Key /\ req[r].at \in Replica /\ req[r].tokens \in SUBSET Token
  BY DEF IInv, Rec
<1>4. Holds(Idle)  BY DEF Idle
<1>5. ASSUME NEW r \in Request, NEW q, req' = [req EXCEPT ![r] = q], Holds(q),
             t \in List(row'[key]), InCaches(cache')
      PROVE  Kept(t, key)'
  <2>1. ASSUME NEW p \in Request PROVE Holds(req'[p])
    <3>1. CASE p = r  BY <1>5, <3>1 DEF IInv
    <3>2. CASE p # r
      <4>1. req'[p] = req[p]  BY <1>5, <3>2 DEF IInv
      <4> QED  BY <1>2, <4>1
    <3> QED  BY <3>1, <3>2
  <2> QED  BY <1>5, <2>1 DEF Kept
<1>6. ASSUME NEW r \in Request, NEW l \in SUBSET stored, req[r].key = key => t \in l
      PROVE  Holds(WithList(r, l))
  <2> DEFINE w == WithList(r, l)
  <2>1. CASE w.pc = "upsert" /\ w.key = key
    <3>1. req[r].key = key  BY <2>1, WithListFacts
    <3>2. \/ req[r].call = "add" /\ w.tokens = l \union {req[r].new}
          \/ req[r].call = "remove" /\ w.tokens = l \ {req[r].token}
          \/ w.tokens = l
      BY <2>1, WithListFacts
    <3>3. req[r].call = "remove" => req[r].token # t  BY <1>3 DEF Good
    <3> HIDE DEF w
    <3>4. t \in w.tokens  BY <1>6, <3>1, <3>2, <3>3
    <3> QED  BY <3>4 DEF w
  <2>2. CASE ~(w.pc = "upsert" /\ w.key = key)
    <3>1. w.pc \in {"upsert", "idle", "get", "respond"}  BY WithListFacts
    <3> HIDE DEF w
    <3>2. Holds(w)  BY <2>2, <3>1
    <3> QED  BY <3>2 DEF w
  <2> QED  BY <2>1, <2>2
\* The list in hand, written to the row or to the cache.
<1>7. ASSUME NEW r \in Request, req[r].pc \in {"fill", "upsert", "cacheSet"},
             row' = [row EXCEPT ![req[r].key] = req[r].tokens]
      PROVE  t \in List(row'[key])
  <2>1. row'[key] = IF key = req[r].key THEN req[r].tokens ELSE row[key]
    BY <1>7 DEF IInv
  <2> QED  BY <1>1, <1>2, <1>3, <1>7, <2>1
<1>8. ASSUME NEW r \in Request, req[r].pc \in {"fill", "upsert", "cacheSet"},
             cache' = [cache EXCEPT ![req[r].at][req[r].key] = req[r].tokens]
      PROVE  InCaches(cache')
  <2>1. \A k \in Replica :
           cache'[k][key] = IF k = req[r].at /\ key = req[r].key
                            THEN req[r].tokens ELSE cache[k][key]
    BY <1>3, <1>8 DEF IInv
  <2> QED  BY <1>2, <1>8, <2>1
<1>9. ASSUME NEW r \in Request, Arrive(r) PROVE Kept(t, key)'
  <2>1. UNCHANGED <<row, cache>>  BY <1>9, ArriveFacts
  <2>2. PICK q : req' = [req EXCEPT ![r] = q] /\ q.pc \in {"get", "query"}
    BY <1>9, ArriveFacts
  <2>3. Holds(q)  BY <2>2
  <2> QED  BY <1>2, <1>5, <2>1, <2>2, <2>3
<1>10. ASSUME NEW r \in Request, Serve(r) PROVE Kept(t, key)'
  <2>1. CASE Get(r)
    <3> DEFINE hit == cache[req[r].at][req[r].key]
    <3>1. hit \in Lists /\ List(hit) \subseteq stored  BY <1>3 DEF IInv
    <3>2. CASE hit # Miss
      <4>1. hit \in SUBSET stored  BY <3>1, <3>2, ListOf DEF Miss, NoRow
      <4>2. req[r].key = key => t \in hit  BY <1>2, <1>3, <3>2
      <4>3. Holds(WithList(r, hit))  BY <1>6, <4>1, <4>2
      <4>4. req' = [req EXCEPT ![r] = WithList(r, hit)] /\ UNCHANGED <<row, cache>>
        BY <2>1, <3>2 DEF Get
      <4> HIDE DEF hit
      <4> QED  BY <1>2, <1>5, <4>3, <4>4
    <3>3. CASE hit = Miss
      <4> DEFINE q == [req[r] EXCEPT !.pc = "query"]
      <4>1. req' = [req EXCEPT ![r] = q] /\ UNCHANGED <<row, cache>>
        BY <2>1, <3>3 DEF Get, IInv
      <4>2. q.pc = "query"  BY <1>3 DEF Rec
      <4> HIDE DEF q
      <4>3. Holds(q)  BY <4>2
      <4> QED  BY <1>2, <1>5, <4>1, <4>3
    <3> QED  BY <3>2, <3>3
  <2>2. CASE Query(r)
    <3> DEFINE l == row[req[r].key]
    <3>1. l \in Lists /\ List(l) \subseteq stored  BY <1>3 DEF IInv
    <3>2. UNCHANGED <<row, cache>>  BY <2>2 DEF Query
    <3>3. CASE l = NoRow
      <4>1. req[r].key # key  BY <1>2, <3>3 DEF List
      <4>2. Holds(WithList(r, {}))  BY <1>6, <4>1
      <4>3. req' = [req EXCEPT ![r] = WithList(r, {})]  BY <2>2, <3>3 DEF Query
      <4> QED  BY <1>2, <1>5, <3>2, <4>2, <4>3
    <3>4. CASE l # NoRow
      <4> DEFINE q == [req[r] EXCEPT !.tokens = l, !.pc = "fill"]
      <4>1. req' = [req EXCEPT ![r] = q]  BY <2>2, <3>4 DEF Query, IInv
      <4>2. q.key = req[r].key /\ q.tokens = l  BY <1>3 DEF Rec
      <4>3. List(l) = l  BY <3>1, <3>4, ListOf
      <4> HIDE DEF q
      <4>4. Holds(q)  BY <1>2, <4>2, <4>3
      <4> QED  BY <1>2, <1>5, <3>2, <4>1, <4>4
    <3> QED  BY <3>3, <3>4
  <2>3. CASE Fill(r)
    <3>1. req[r].tokens \in SUBSET stored /\ (req[r].key = key => t \in req[r].tokens)
      BY <1>2, <1>3, <2>3 DEF Fill, Good
    <3>2. Holds(WithList(r, req[r].tokens))  BY <1>6, <3>1
    <3>3. InCaches(cache')  BY <1>8, <2>3 DEF Fill
    <3>4. req' = [req EXCEPT ![r] = WithList(r, req[r].tokens)] /\ UNCHANGED row
      BY <2>3 DEF Fill
    <3> QED  BY <1>2, <1>5, <3>2, <3>3, <3>4
  <2>4. CASE Upsert(r)
    <3> DEFINE q == [req[r] EXCEPT !.pc = "cacheSet"]
    <3>1. req' = [req EXCEPT ![r] = q] /\ UNCHANGED cache  BY <2>4 DEF Upsert, IInv
    <3>2. q.key = req[r].key /\ q.tokens = req[r].tokens  BY <1>3 DEF Rec
    <3>3. req[r].key = key => t \in req[r].tokens  BY <1>2, <2>4 DEF Upsert
    <3> HIDE DEF q
    <3>4. Holds(q)  BY <3>2, <3>3
    <3>5. t \in List(row'[key])  BY <1>7, <2>4 DEF Upsert
    <3> QED  BY <1>2, <1>5, <3>1, <3>4, <3>5
  <2>5. CASE UpsertFails(r)
    <3>1. Holds(AfterFailure(r))
      <4>1. AfterFailure(r).pc \in {"get", "respond"}  BY <1>3, AfterFacts
      <4> QED  BY <4>1
    <3>2. t \in List(row'[key])  BY <1>2, <1>7, <2>5 DEF UpsertFails
    <3> QED  BY <1>2, <1>5, <2>5, <3>1, <3>2 DEF UpsertFails
  <2>6. CASE CacheSet(r)
    <3>1. Holds(AfterCall(r))
      <4>1. AfterCall(r).pc \in {"get", "respond"}  BY <1>3, AfterFacts
      <4> QED  BY <4>1
    <3>2. InCaches(cache')  BY <1>8, <2>6 DEF CacheSet
    <3> QED  BY <1>2, <1>5, <2>6, <3>1, <3>2 DEF CacheSet
  <2>7. CASE Respond(r)  BY <1>2, <1>4, <1>5, <2>7 DEF Respond
  <2> QED  BY <1>10, <2>1, <2>2, <2>3, <2>4, <2>5, <2>6, <2>7 DEF Serve
<1>11. ASSUME NEW k \in Replica, Restart(k) \/ \E x \in Key : Expire(k, x)
       PROVE  Kept(t, key)'
  <2>1. UNCHANGED row  BY <1>11 DEF Restart, Expire
  <2>2. /\ \A j \in Replica : cache'[j][key] \in {cache[j][key], Miss}
        /\ \A r \in Request : req'[r] \in {req[r], Idle}
    BY <1>11, LossFacts
  <2>3. \A r \in Request : Holds(req'[r])  BY <1>2, <1>4, <2>2
  <2>4. InCaches(cache')  BY <1>2, <2>2
  <2> QED  BY <1>2, <2>1, <2>3, <2>4 DEF Kept
<1>12. CASE UNCHANGED vars  BY <1>12 DEF vars, Kept
<1> QED  BY <1>9, <1>10, <1>11, <1>12 DEF Next

\* A token that is gone stays so: the ids that are added are new.
LEMMA GoneStep ==
    ASSUME IInv, NEW t \in issued, Gone(t), [Next]_vars
    PROVE  Gone(t)'
<1> DEFINE Without(q) == t \notin q.tokens /\ (q.call \in {"check", "add"} => t # q.new)
           NoCache(c) == \A k \in Replica, key \in Key : t \notin List(c[k][key])
           NoDatabase(d) == \A key \in Key : t \notin List(d[key])
<1>1. NoDatabase(row) /\ NoCache(cache) /\ \A r \in Request : Without(req[r])  BY DEF Gone
<1>2. ASSUME NEW r \in Request
      PROVE  /\ req[r] \in Rec /\ Good(req[r], issued, stored, removing)
             /\ req[r].key \in Key /\ req[r].at \in Replica
             /\ t \notin List(req[r].tokens)
  <2>1. t # NoToken  BY TokenAssumption DEF IInv
  <2>2. t \notin List(req[r].tokens)  BY <1>1, <2>1 DEF List
  <2> QED  BY <2>2 DEF IInv, Rec
<1>3. Without(Idle) /\ t \notin List(Miss)  BY DEF Idle, List, Miss, NoRow
<1>4. ASSUME NEW r \in Request, NEW q, req' = [req EXCEPT ![r] = q], Without(q),
             NoDatabase(row'), NoCache(cache')
      PROVE  Gone(t)'
  <2>1. ASSUME NEW p \in Request PROVE Without(req'[p])
    <3>1. CASE p = r  BY <1>4, <3>1 DEF IInv
    <3>2. CASE p # r
      <4>1. req'[p] = req[p]  BY <1>4, <3>2 DEF IInv
      <4> QED  BY <1>1, <4>1
    <3> QED  BY <3>1, <3>2
  <2> QED  BY <1>4, <2>1 DEF Gone
<1>5. ASSUME NEW r \in Request, NEW l \in SUBSET stored, t \notin l
      PROVE  Without(WithList(r, l))
  <2> DEFINE w == WithList(r, l)
  <2>1. \/ w.tokens = {}
        \/ req[r].call = "add" /\ w.tokens = l \union {req[r].new}
        \/ w.tokens \subseteq l
    BY WithListFacts
  <2>2. w.call \in {"check", "add"} => req[r].call \in {"check", "add"} /\ w.new = req[r].new
    BY WithListFacts
  <2> HIDE DEF w
  <2>3. Without(w)  BY <1>1, <1>5, <2>1, <2>2
  <2> QED  BY <2>3 DEF w
<1>6. ASSUME NEW r \in Request, row' = [row EXCEPT ![req[r].key] = req[r].tokens]
      PROVE  NoDatabase(row')
  <2>1. \A key \in Key : row'[key] \in {row[key], req[r].tokens}  BY <1>6 DEF IInv
  <2> QED  BY <1>1, <1>2, <2>1
<1>7. ASSUME NEW r \in Request,
             cache' = [cache EXCEPT ![req[r].at][req[r].key] = req[r].tokens]
      PROVE  NoCache(cache')
  <2>1. \A k \in Replica, key \in Key : cache'[k][key] \in {cache[k][key], req[r].tokens}
    BY <1>2, <1>7 DEF IInv
  <2> QED  BY <1>1, <1>2, <2>1
<1>8. ASSUME NEW r \in Request, Arrive(r) PROVE Gone(t)'
  <2>1. UNCHANGED <<row, cache>>  BY <1>8, ArriveFacts
  <2>2. PICK q : /\ req' = [req EXCEPT ![r] = q] /\ q.tokens = {}
                 /\ q.call \in {"check", "add"} => q.new \notin issued
    BY <1>8, ArriveFacts
  <2>3. Without(q)  BY <2>2
  <2> QED  BY <1>1, <1>4, <2>1, <2>2, <2>3
<1>9. ASSUME NEW r \in Request, Serve(r) PROVE Gone(t)'
  <2>1. CASE Get(r)
    <3> DEFINE hit == cache[req[r].at][req[r].key]
    <3>1. hit \in Lists /\ List(hit) \subseteq stored /\ t \notin List(hit)
      BY <1>1, <1>2 DEF IInv
    <3>2. CASE hit # Miss
      <4>1. hit \in SUBSET stored /\ t \notin hit  BY <3>1, <3>2, ListOf DEF Miss, NoRow
      <4>2. Without(WithList(r, hit))  BY <1>5, <4>1
      <4>3. req' = [req EXCEPT ![r] = WithList(r, hit)] /\ UNCHANGED <<row, cache>>
        BY <2>1, <3>2 DEF Get
      <4> HIDE DEF hit
      <4> QED  BY <1>1, <1>4, <4>2, <4>3
    <3>3. CASE hit = Miss
      <4> DEFINE q == [req[r] EXCEPT !.pc = "query"]
      <4>1. req' = [req EXCEPT ![r] = q] /\ UNCHANGED <<row, cache>>
        BY <2>1, <3>3 DEF Get, IInv
      <4>2. q.tokens = req[r].tokens /\ q.call = req[r].call /\ q.new = req[r].new
        BY <1>2 DEF Rec
      <4> HIDE DEF q
      <4>3. Without(q)  BY <1>1, <4>2
      <4> QED  BY <1>1, <1>4, <4>1, <4>3
    <3> QED  BY <3>2, <3>3
  <2>2. CASE Query(r)
    <3> DEFINE l == row[req[r].key]
    <3>1. l \in Lists /\ t \notin List(l)  BY <1>1, <1>2 DEF IInv
    <3>2. UNCHANGED <<row, cache>>  BY <2>2 DEF Query
    <3>3. CASE l = NoRow
      <4>1. Without(WithList(r, {}))  BY <1>5
      <4>2. req' = [req EXCEPT ![r] = WithList(r, {})]  BY <2>2, <3>3 DEF Query
      <4> QED  BY <1>1, <1>4, <3>2, <4>1, <4>2
    <3>4. CASE l # NoRow
      <4> DEFINE q == [req[r] EXCEPT !.tokens = l, !.pc = "fill"]
      <4>1. req' = [req EXCEPT ![r] = q]  BY <2>2, <3>4 DEF Query, IInv
      <4>2. q.tokens = l /\ q.call = req[r].call /\ q.new = req[r].new  BY <1>2 DEF Rec
      <4>3. List(l) = l  BY <3>1, <3>4, ListOf
      <4> HIDE DEF q
      <4>4. Without(q)  BY <1>1, <3>1, <4>2, <4>3
      <4> QED  BY <1>1, <1>4, <3>2, <4>1, <4>4
    <3> QED  BY <3>3, <3>4
  <2>3. CASE Fill(r)
    <3>1. req[r].tokens \in SUBSET stored /\ t \notin req[r].tokens
      BY <1>1, <1>2, <2>3 DEF Fill, Good
    <3>2. Without(WithList(r, req[r].tokens))  BY <1>5, <3>1
    <3>3. NoCache(cache')  BY <1>7, <2>3 DEF Fill
    <3>4. req' = [req EXCEPT ![r] = WithList(r, req[r].tokens)] /\ UNCHANGED row
      BY <2>3 DEF Fill
    <3> QED  BY <1>1, <1>4, <3>2, <3>3, <3>4
  <2>4. CASE Upsert(r)
    <3> DEFINE q == [req[r] EXCEPT !.pc = "cacheSet"]
    <3>1. req' = [req EXCEPT ![r] = q] /\ UNCHANGED cache  BY <2>4 DEF Upsert, IInv
    <3>2. q.tokens = req[r].tokens /\ q.call = req[r].call /\ q.new = req[r].new
      BY <1>2 DEF Rec
    <3> HIDE DEF q
    <3>3. Without(q)  BY <1>1, <3>2
    <3>4. NoDatabase(row')  BY <1>6, <2>4 DEF Upsert
    <3> QED  BY <1>1, <1>4, <3>1, <3>3, <3>4
  <2>5. CASE UpsertFails(r)
    <3>1. Without(AfterFailure(r))  BY <1>1, <1>2, AfterFacts
    <3>2. NoDatabase(row')  BY <1>1, <1>6, <2>5 DEF UpsertFails
    <3> QED  BY <1>1, <1>4, <2>5, <3>1, <3>2 DEF UpsertFails
  <2>6. CASE CacheSet(r)
    <3>1. Without(AfterCall(r))  BY <1>1, <1>2, AfterFacts
    <3>2. NoCache(cache')  BY <1>7, <2>6 DEF CacheSet
    <3> QED  BY <1>1, <1>4, <2>6, <3>1, <3>2 DEF CacheSet
  <2>7. CASE Respond(r)  BY <1>1, <1>3, <1>4, <2>7 DEF Respond
  <2> QED  BY <1>9, <2>1, <2>2, <2>3, <2>4, <2>5, <2>6, <2>7 DEF Serve
<1>10. ASSUME NEW k \in Replica, Restart(k) \/ \E key \in Key : Expire(k, key)
       PROVE  Gone(t)'
  <2>1. UNCHANGED row  BY <1>10 DEF Restart, Expire
  <2>2. /\ \A j \in Replica, key \in Key : cache'[j][key] \in {cache[j][key], Miss}
        /\ \A r \in Request : req'[r] \in {req[r], Idle}
    BY <1>10, LossFacts
  <2>3. \A r \in Request : Without(req'[r])  BY <1>1, <1>3, <2>2
  <2>4. NoCache(cache')  BY <1>1, <1>3, <2>2
  <2> QED  BY <1>1, <2>1, <2>3, <2>4 DEF Gone
<1>11. CASE UNCHANGED vars  BY <1>11 DEF vars, Gone
<1> QED  BY <1>8, <1>9, <1>10, <1>11 DEF Next

\* Nobody else writes between a request's upsert and its refresh of the cache.
LEMMA WroteRowStep == ASSUME Alone, IInv, WroteRow, [Next]_vars PROVE WroteRow'
<1>1. ASSUME NEW r \in Request, NEW q, req' = [req EXCEPT ![r] = q],
             q.pc = "cacheSet" => row'[q.key] = q.tokens
      PROVE  WroteRow'
  <2>1. \A p \in Request : req'[p] = q  BY <1>1 DEF Alone, IInv
  <2> QED  BY <1>1, <2>1 DEF WroteRow
<1>2. ASSUME NEW r \in Request PROVE req[r] \in Rec /\ req[r].key \in Key  BY DEF IInv, Rec
<1>3. ASSUME NEW r \in Request, Arrive(r) PROVE WroteRow'
  <2>1. PICK q : req' = [req EXCEPT ![r] = q] /\ q.pc \in {"get", "query"}
    BY <1>3, ArriveFacts
  <2> QED  BY <1>1, <2>1
<1>4. ASSUME NEW r \in Request, Serve(r) PROVE WroteRow'
  <2>1. ASSUME NEW l \in SUBSET stored PROVE WithList(r, l).pc # "cacheSet"
    BY WithListFacts
  <2>2. CASE Get(r)
    <3> DEFINE hit == cache[req[r].at][req[r].key]
    <3>1. hit \in Lists /\ List(hit) \subseteq stored  BY DEF IInv, Rec
    <3>2. CASE hit # Miss
      <4>1. hit \in SUBSET stored  BY <3>1, <3>2, ListOf DEF Miss, NoRow
      <4>2. WithList(r, hit).pc # "cacheSet"  BY <2>1, <4>1
      <4>3. req' = [req EXCEPT ![r] = WithList(r, hit)]  BY <2>2, <3>2 DEF Get
      <4> HIDE DEF hit
      <4> QED  BY <1>1, <4>2, <4>3
    <3>3. CASE hit = Miss
      <4> DEFINE q == [req[r] EXCEPT !.pc = "query"]
      <4>1. req' = [req EXCEPT ![r] = q]  BY <2>2, <3>3 DEF Get, IInv
      <4>2. q.pc = "query"  BY <1>2 DEF Rec
      <4> HIDE DEF q
      <4> QED  BY <1>1, <4>1, <4>2
    <3> QED  BY <3>2, <3>3
  <2>3. CASE Query(r)
    <3> DEFINE l == row[req[r].key]
    <3>1. CASE l = NoRow
      <4>1. WithList(r, {}).pc # "cacheSet"  BY <2>1
      <4>2. req' = [req EXCEPT ![r] = WithList(r, {})]  BY <2>3, <3>1 DEF Query
      <4> QED  BY <1>1, <4>1, <4>2
    <3>2. CASE l # NoRow
      <4> DEFINE q == [req[r] EXCEPT !.tokens = l, !.pc = "fill"]
      <4>1. req' = [req EXCEPT ![r] = q]  BY <2>3, <3>2 DEF Query, IInv
      <4>2. q.pc = "fill"  BY <1>2 DEF Rec
      <4> HIDE DEF q
      <4> QED  BY <1>1, <4>1, <4>2
    <3> QED  BY <3>1, <3>2
  <2>4. CASE Fill(r)
    <3>1. req[r].tokens \in SUBSET stored  BY <2>4 DEF Fill, IInv, Good
    <3>2. WithList(r, req[r].tokens).pc # "cacheSet"  BY <2>1, <3>1
    <3> QED  BY <1>1, <2>4, <3>2 DEF Fill
  <2>5. CASE Upsert(r)
    <3> DEFINE q == [req[r] EXCEPT !.pc = "cacheSet"]
    <3>1. req' = [req EXCEPT ![r] = q]  BY <2>5 DEF Upsert, IInv
    <3>2. q.key = req[r].key /\ q.tokens = req[r].tokens  BY <1>2 DEF Rec
    <3>3. row'[req[r].key] = req[r].tokens  BY <1>2, <2>5 DEF Upsert, IInv
    <3> HIDE DEF q
    <3> QED  BY <1>1, <3>1, <3>2, <3>3
  <2>6. CASE UpsertFails(r)
    <3>1. AfterFailure(r).pc \in {"get", "respond"}  BY <1>2, AfterFacts
    <3> QED  BY <1>1, <2>6, <3>1 DEF UpsertFails
  <2>7. CASE CacheSet(r)
    <3>1. AfterCall(r).pc \in {"get", "respond"}  BY <1>2, AfterFacts
    <3> QED  BY <1>1, <2>7, <3>1 DEF CacheSet
  <2>8. CASE Respond(r)
    <3>1. Idle.pc = "idle"  BY DEF Idle
    <3> QED  BY <1>1, <2>8, <3>1 DEF Respond
  <2> QED  BY <1>4, <2>2, <2>3, <2>4, <2>5, <2>6, <2>7, <2>8 DEF Serve
<1>5. ASSUME NEW k \in Replica, Restart(k) \/ \E key \in Key : Expire(k, key)
      PROVE  WroteRow'
  <2>1. UNCHANGED row  BY <1>5 DEF Restart, Expire
  <2>2. \A r \in Request : req'[r] \in {req[r], Idle}  BY <1>5, LossFacts
  <2>3. Idle.pc # "cacheSet"  BY DEF Idle
  <2> QED  BY <2>1, <2>2, <2>3 DEF WroteRow
<1>6. CASE UNCHANGED vars  BY <1>6 DEF vars, WroteRow
<1> QED  BY <1>3, <1>4, <1>5, <1>6 DEF Next

\* The end of an addition keeps the token that was added ...
LEMMA KeptBegins ==
    ASSUME Alone, IInv, WroteRow, NEW r \in Request, CacheSet(r), req[r].call = "add",
           NEW t, t = req[r].new, NEW key, key = req[r].key
    PROVE  Kept(t, key)'
<1>1. req[r] \in Rec /\ Good(req[r], issued, stored, removing)  BY DEF IInv
<1>2. key \in Key /\ req[r].at \in Replica /\ req[r].tokens \in SUBSET Token  BY <1>1 DEF Rec
<1>3. t \in req[r].tokens /\ List(req[r].tokens) = req[r].tokens
  BY <1>1, <1>2, TokenAssumption DEF CacheSet, Good, List, NoRow
<1>4. row'[key] = req[r].tokens  BY DEF WroteRow, CacheSet
<1>5. \A k \in Replica : cache'[k][key] = req[r].tokens
  BY <1>2 DEF CacheSet, Alone, IInv
<1>6. \A p \in Request : req'[p].pc \in {"get", "respond"}
  <2>1. \A p \in Request : req'[p] = AfterCall(r)  BY DEF CacheSet, Alone, IInv
  <2> QED  BY <1>1, <2>1, AfterFacts
<1> QED  BY <1>3, <1>4, <1>5, <1>6 DEF Kept

\* ... and the end of a removal leaves the token nowhere.
LEMMA GoneBegins ==
    ASSUME Alone, IInv, WroteRow, NEW S \in SUBSET Token, Apart(S),
           NEW r \in Request, CacheSet(r), req[r].call = "remove",
           NEW t, t = req[r].token
    PROVE  Gone(t)'
<1>1. req[r] \in Rec /\ Good(req[r], issued, stored, removing) /\ HandApart(req[r], S)
  BY DEF IInv, Apart
<1>2. req[r].key \in Key /\ req[r].at \in Replica  BY <1>1 DEF Rec
<1>3. t \notin req[r].tokens /\ t # NoToken
  BY <1>1, TokenAssumption DEF CacheSet, Good, IInv
<1>4. t \notin List(req[r].tokens)  BY <1>3 DEF List
<1>5. ASSUME NEW key \in Key, key # req[r].key, NEW l, ListApart(l, key, S)
      PROVE  t \notin List(l)
  <2>1. key = "REFRESH_TOKENS" \/ req[r].key = "REFRESH_TOKENS"  BY <1>2, <1>5 DEF Key
  <2> QED  BY <1>1, <1>3, <1>5, <2>1 DEF ListApart, HandApart
<1>6. row' = row /\ row[req[r].key] = req[r].tokens  BY DEF CacheSet, WroteRow
<1>7. \A key \in Key : t \notin List(row'[key])  BY <1>4, <1>5, <1>6 DEF Apart
<1>8. ASSUME NEW k \in Replica, NEW key \in Key PROVE t \notin List(cache'[k][key])
  <2>1. cache'[k][key] = IF key = req[r].key THEN req[r].tokens ELSE cache[k][key]
    BY <1>2 DEF CacheSet, Alone, IInv
  <2>2. ListApart(cache[k][key], key, S)  BY DEF Apart
  <2> QED  BY <1>4, <1>5, <2>1, <2>2
<1>9. \A p \in Request : req'[p].tokens = {} /\ req'[p].call = "remove"
  <2>1. \A p \in Request : req'[p] = AfterCall(r)  BY DEF CacheSet, Alone, IInv
  <2> QED  BY <1>1, <2>1, AfterFacts
<1> QED  BY <1>7, <1>8, <1>9 DEF Gone

\* Reports are made at the end of a call only, and no begun removal is undone.
LEMMA GhostFacts ==
    ASSUME IInv, [Next]_vars
    PROVE  /\ removing \subseteq removing'
           /\ \/ added' = added /\ removed' = removed
              \/ \E r \in Request : CacheSet(r)
<1>1. ASSUME NEW r \in Request, Serve(r), ~CacheSet(r)
      PROVE  removing' = removing /\ added' = added /\ removed' = removed
  BY <1>1 DEF Serve, Get, Query, Fill, Upsert, UpsertFails, Respond, ghosts
<1>2. ASSUME NEW r \in Request, CacheSet(r) PROVE removing \subseteq removing'
  BY <1>2 DEF CacheSet
<1>3. ASSUME NEW k \in Replica, Restart(k) \/ \E key \in Key : Expire(k, key)
      PROVE  removing' = removing /\ added' = added /\ removed' = removed
  BY <1>3 DEF Restart, Expire, ghosts
<1>4. CASE UNCHANGED vars  BY <1>4 DEF vars, ghosts
<1> QED  BY <1>1, <1>2, <1>3, <1>4, ArriveFacts DEF Next

LEMMA AloneStep == ASSUME Alone, AInv, [Next]_vars PROVE AInv'
<1>1. IInv /\ WroteRow /\ IInv' /\ WroteRow'  BY Step, WroteRowStep DEF AInv
<1>2. PICK S \in SUBSET Token : Apart(S)  BY DEF AInv
<1>3. \E T \in SUBSET Token : Apart(T)'  BY <1>1, <1>2, ApartStep
<1>4. ASSUME NEW t \in added' \ removing' PROVE \E key \in Key : Kept(t, key)'
  <2>1. t \notin removing  BY <1>1, GhostFacts
  <2>2. CASE t \in added
    <3>1. PICK key \in Key : Kept(t, key)  BY <2>1, <2>2 DEF AInv
    <3>2. t \in Token \ removing  BY <1>1, <2>1, <2>2 DEF IInv
    <3>3. Kept(t, key)'  BY <1>1, <3>1, <3>2, KeptStep
    <3> QED  BY <3>3
  <2>3. CASE t \notin added
    <3>1. PICK r \in Request : CacheSet(r)  BY <1>1, <2>3, GhostFacts
    <3>2. req[r].call = "add" /\ t = req[r].new  BY <2>3, <3>1 DEF CacheSet
    <3>3. PICK key \in Key : key = req[r].key  BY <1>1 DEF IInv, Rec
    <3>4. Kept(t, key)'  BY <1>1, <3>1, <3>2, <3>3, KeptBegins
    <3> QED  BY <3>4
  <2> QED  BY <2>2, <2>3
<1>5. ASSUME NEW t \in removed' PROVE Gone(t)'
  <2>1. CASE t \in removed
    <3>1. t \in issued  BY <1>1, <2>1 DEF IInv
    <3> QED  BY <1>1, <2>1, <3>1, GoneStep DEF AInv
  <2>2. CASE t \notin removed
    <3>1. PICK r \in Request : CacheSet(r)  BY <1>1, <2>2, GhostFacts
    <3>2. req[r].call = "remove" /\ t = req[r].token  BY <2>2, <3>1 DEF CacheSet
    <3> QED  BY <1>1, <1>2, <3>1, <3>2, GoneBegins
  <2> QED  BY <2>1, <2>2
<1> QED  BY <1>1, <1>3, <1>4, <1>5 DEF AInv

LEMMA AloneInitially == Init => AInv
<1> SUFFICES ASSUME Init PROVE AInv  OBVIOUS
<1>1. Miss = NoRow /\ List(NoRow) = {}  BY DEF Miss, NoRow, List
<1>2. /\ Idle.op = "list" /\ Idle.pc = "idle" /\ Idle.key = "REFRESH_TOKENS"
      /\ Idle.token = NoToken /\ Idle.new = NoToken /\ Idle.tokens = {}
  BY DEF Idle
<1>3. \A r \in Request : req[r] = Idle  BY DEF Init
<1>4. HandApart(Idle, {})  BY <1>2 DEF HandApart
<1>5. Apart({})
  BY <1>1, <1>3, <1>4 DEF Init, Apart, ListApart
<1>6. WroteRow  BY <1>2, <1>3 DEF WroteRow
<1>7. added = {} /\ removed = {}  BY DEF Init
<1> QED  BY <1>5, <1>6, <1>7, Initially DEF AInv

\* With one process and one request at a time, a token reported as added is in
\* the database and in the cache that holds its list until somebody begins to
\* remove it (store/user_setting.go).
THEOREM AddedIsKept == Alone => (Spec => []NoTokenLost)
<1> SUFFICES ASSUME Alone PROVE Spec => []NoTokenLost  OBVIOUS
<1>1. AInv => NoTokenLost  BY DEF AInv, Kept, NoTokenLost, Known
<1>2. AInv /\ [Next]_vars => AInv'  BY AloneStep
<1> QED  BY <1>1, <1>2, AloneInitially, PTL DEF Spec

\* With one process and one request at a time, a token reported as removed never
\* comes back, to the database or to the cache (store/user_setting.go).
THEOREM RemovedIsGone == Alone => (Spec => []RemovedStaysRemoved)
<1> SUFFICES ASSUME Alone PROVE Spec => []RemovedStaysRemoved  OBVIOUS
<1>1. AInv => RemovedStaysRemoved
  <2> SUFFICES ASSUME AInv, NEW key \in Key, NEW t \in removed
               PROVE  t \notin Known(key) \union Cached(key)
    BY DEF RemovedStaysRemoved
  <2>1. Gone(t)  BY DEF AInv
  <2>2. t \notin Known(key)  BY <2>1 DEF Gone, Known
  <2>3. ASSUME NEW k \in Replica, cache[k][key] # Miss PROVE t \notin cache[k][key]
    BY <2>1, <2>3 DEF Gone, List, Miss, NoRow
  <2> QED  BY <2>2, <2>3 DEF Cached
<1>2. AInv /\ [Next]_vars => AInv'  BY AloneStep
<1> QED  BY <1>1, <1>2, AloneInitially, PTL DEF Spec
=============================================================================
