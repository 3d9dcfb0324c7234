------------------------- MODULE ClientSessionProofs -------------------------
(***************************************************************************)
(* For any tabs, users, scenarios and bounds: ClientSession stays within   *)
(* its types, the browser keeps its session, a sign-out lasts, a state is  *)
(* accepted once, and a tab acts for the user it shows.                    *)
(*                                                                         *)
(* Every step is first reduced to one of a few shapes (a page load, the    *)
(* auth context settling, a query failing, ...), because the same handler  *)
(* ends in several of them.  Then each of four invariants is kept by every *)
(* shape:                                                                  *)
(*   Base, Named  the types, and every number issued so far;               *)
(*   SessionInv   an answer under way holds a number nobody else names;    *)
(*   OAuthInv     a stored state is one tab's and was never accepted;      *)
(*   UserInv      the names a tab holds agree as far as its task has got.  *)
(***************************************************************************)
EXTENDS ClientSession, TLAPS

(***************************************************************************)
(* The invariants                                                          *)
(***************************************************************************)

\* What a tab can show, or not be shown at all.
Page == AuthPages \union RootPages \union {"unopened", "away"}

\* Every number held was issued, and a refresh that ended holds none.
Numbers ==
    /\ valid \subseteq 1..Len(issued)
    /\ cookie <= Len(issued)
    /\ \A t \in Tab :
           /\ refresh[t].id <= Len(issued)
           /\ task[t].id <= Len(issued)
           /\ refresh[t].pc = "rotated" => refresh[t].id # 0
           /\ refresh[t].pc = "none" => refresh[t] = NoRefresh

Base == TypeOK /\ Numbers

\* A form that waits for the server names its user.
Named == \A t \in Tab : task[t].phase \in {"create", "signin"} => task[t].who \in User

\* An answer under way carries a number nobody else has: the server accepts it
\* and no cookie, call or sign-out names it yet.
Undelivered ==
    \A t \in Tab : refresh[t].pc = "rotated" =>
        /\ refresh[t].id \in valid
        /\ refresh[t].id # cookie
        /\ \A x \in Tab : /\ task[x].id # refresh[t].id
                          /\ x # t => refresh[x].id # refresh[t].id

\* After a sign-out that met no refresh nothing is left to come back.
Nobody == exit = "alone" => cookie = 0 /\ \A t \in Tab : refresh[t].id = 0

\* The three together are inductive.
SessionInv == SessionKept /\ Undelivered /\ Nobody

\* A state that is stored was never accepted, and one tab stores it.
OAuthInv ==
    /\ \A f \in 1..MaxFlows : uses[f] <= 1 /\ (f > flows => uses[f] = 0)
    /\ \A t \in Tab : oauth[t].id # 0 =>
           /\ oauth[t].id <= flows
           /\ uses[oauth[t].id] = 0
           /\ \A x \in Tab : x # t => oauth[x].id # oauth[t].id

\* Two names that do not contradict each other.
Compat(a, b) == a = NoUser \/ b = NoUser \/ a = b

\* What a tab knows: its user, task, token, copy and task's call.  While the
\* context asks who the token is for, what is shown may be out of date.
Knows(us, k, tk, st, c) ==
    /\ Compat(tk.user, st.user)
    /\ k.phase = "me" => c.token.user \in {NoUser, tk.user}
    /\ k.phase = "settings" => Compat(k.who, tk.user) /\ Compat(k.who, st.user)
    /\ k.phase \notin {"me", "settings"} => Compat(us, tk.user) /\ Compat(us, st.user)

UserInv ==
    \A t \in Tab : t \notin mixed =>
        Knows(user[t], task[t], token[t], stored[t], call[t]["task"])

(***************************************************************************)
(* The shapes of a step                                                    *)
(***************************************************************************)

\* The pages an address leads to.
Pages == AuthPages \union RootPages

\* A call fails on the network, or none does.
FaultOrNot == Fault \/ UNCHANGED faults

\* A full page load; the oauth_state stays.
Reloads(t) ==
    /\ \E p \in Pages, copy \in {NoToken, stored[t]} : Unload(t) /\ Load(t, p, copy)
    /\ param' = param \/ param' = [param EXCEPT ![t] = 0]
    /\ FaultOrNot
    /\ UNCHANGED <<accounts, scene, oauth, flows, uses, exit>>

\* Calls of the tab are given up, and with them a refused refresh.
GivesUp(t) ==
    /\ \E slots \in SUBSET Slot : call' = [call EXCEPT ![t] = Without(t, slots)]
    /\ \/ refresh' = refresh
       \/ refresh[t].pc = "refused" /\ refresh' = [refresh EXCEPT ![t] = NoRefresh]
    /\ FaultOrNot
    /\ UNCHANGED <<issued, valid, cookie, accounts, scene, param, flows, uses, exit,
                   mixed, lost>>

\* The stored state stays or goes.
OAuthKeptOrGone(t) == oauth' = oauth \/ oauth' = [oauth EXCEPT ![t] = NoState]

\* The auth context is initialized: with the user of the task and the token as
\* it is, or with nobody and none.
Settles(t) ==
    /\ GivesUp(t)
    /\ OAuthKeptOrGone(t)
    /\ task' = [task EXCEPT ![t] = NoTask]
    /\ ready' = [ready EXCEPT ![t] = TRUE]
    /\ \E i \in Inst : inst' = [inst EXCEPT ![t] = i]
    /\ \E p \in Page : page' = [page EXCEPT ![t] = p]
    /\ \/ /\ user' = [user EXCEPT ![t] = NoUser]
          /\ clearAccessToken(t)
       \/ /\ task[t].phase = "settings"
          /\ user' = [user EXCEPT ![t] = task[t].who]
          /\ UNCHANGED <<token, stored>>

\* A call fails that no context waits for.
DataFails(t) ==
    /\ GivesUp(t)
    /\ UNCHANGED <<token, stored, page, user, ready, inst, task, oauth>>

\* The instance context has answered.
InstanceReady(t) ==
    /\ \E i \in Inst : inst' = [inst EXCEPT ![t] = i]
    /\ \E p \in Page : page' = [page EXCEPT ![t] = p]
    /\ OAuthKeptOrGone(t)
    /\ FaultOrNot
    /\ UNCHANGED <<tokenVars, accounts, scene, user, ready, task, param, flows, uses, exit,
                   mixed, lost>>

\* The shapes of a step, and the actions that are one by themselves.
Kinds(t) ==
    \/ Reloads(t) \/ Settles(t) \/ DataFails(t) \/ InstanceReady(t)
    \/ MeAnswered(t) \/ SignOutAnswered(t) \/ RefreshAnswered(t)
    \/ TokenStep(t) \/ NoRefreshAnswer(t)
    \/ UserCreated(t) \/ SignInAnswered(t) \/ FormFails(t)
    \/ \E p \in Pages : Navigate(t, p)
    \/ DataCall(t) \/ DataAnswered(t)
    \/ \E u \in User : SignInSubmit(t, u) \/ SignUpSubmit(t, u) \/ Callback(t, u)
    \/ SignOut(t) \/ StartOAuth(t) \/ OAuthExpires(t)

\* App.tsx drops an expired oauth_state or keeps it.
LEMMA CleanupKinds ==
    ASSUME NEW t \in Tab, TypeOK, cleanupExpiredOAuthState(t)
    PROVE  OAuthKeptOrGone(t)
  BY DEF TypeOK, cleanupExpiredOAuthState, OAuthKeptOrGone

\* The page the client lands on is a page.
LEMMA LandingIsPage ==
    ASSUME NEW p \in Page, NEW i \in Inst
    PROVE  Landing(p, i) \in Page
  BY DEF Landing, Page, AuthPages, RootPages

\* The auth context's initialize reloads the page or settles.
LEMMA InitializedKinds ==
    ASSUME NEW t \in Tab, TypeOK, NEW u, NEW slots \in SUBSET Slot, NEW r,
           u = NoUser \/ (task[t].phase = "settings" /\ u = task[t].who),
           r = refresh[t] \/ (refresh[t].pc = "refused" /\ r = NoRefresh),
           Initialized(t, u, Without(t, slots), r),
           FaultOrNot, UNCHANGED <<accounts, scene, param, flows, uses, exit>>
    PROVE  Reloads(t) \/ Settles(t)
<1> DEFINE form == task[t].from # "load"
           i == IF task[t].from = "signup" THEN "hosted" ELSE inst[t]
           p == IF form THEN "root"
                ELSE IF i = "loading" THEN page[t] ELSE Landing(page[t], i)
<1>1. i \in Inst /\ p \in Page /\ page[t] \in Page
  BY LandingIsPage DEF TypeOK, Inst, Page, RootPages
<1>2. CASE form /\ page[t] = "auth" /\ u # NoUser
  <2>1. Unload(t) /\ Load(t, "root", stored[t]) /\ UNCHANGED oauth
    BY <1>2 DEF Initialized
  <2> QED
    BY <2>1 DEF Reloads, Pages, RootPages
<1>3. CASE ~(form /\ page[t] = "auth" /\ u # NoUser) /\ Bounced(p, u, i)
  <2>1. Unload(t) /\ Load(t, "auth", NoToken) /\ UNCHANGED oauth
    BY <1>3 DEF Initialized
  <2> QED
    BY <2>1 DEF Reloads, Pages, AuthPages
<1>4. CASE ~(form /\ page[t] = "auth" /\ u # NoUser) /\ ~Bounced(p, u, i)
  <2>1. /\ user' = [user EXCEPT ![t] = u]
        /\ ready' = [ready EXCEPT ![t] = TRUE]
        /\ task' = [task EXCEPT ![t] = NoTask]
        /\ inst' = [inst EXCEPT ![t] = i]
        /\ page' = [page EXCEPT ![t] = p]
        /\ IF form \/ i = "loading" THEN UNCHANGED oauth ELSE cleanupExpiredOAuthState(t)
        /\ call' = [call EXCEPT ![t] = Without(t, slots)]
        /\ refresh' = [refresh EXCEPT ![t] = r]
        /\ IF u = NoUser THEN clearAccessToken(t) ELSE UNCHANGED <<token, stored>>
        /\ UNCHANGED <<issued, valid, cookie, mixed, lost>>
    BY <1>4 DEF Initialized
  <2>2. OAuthKeptOrGone(t)
    BY <2>1, CleanupKinds DEF OAuthKeptOrGone
  <2>3. refresh' = refresh \/ (refresh[t].pc = "refused" /\ refresh' = [refresh EXCEPT ![t] = NoRefresh])
    BY <2>1 DEF TypeOK, TokensTypeOK
  <2>4. GivesUp(t)
    BY <2>1, <2>3 DEF GivesUp
  <2>5. \/ user' = [user EXCEPT ![t] = NoUser] /\ clearAccessToken(t)
        \/ /\ task[t].phase = "settings"
           /\ user' = [user EXCEPT ![t] = task[t].who]
           /\ UNCHANGED <<token, stored>>
    BY <2>1
  <2> HIDE DEF i, p, form
  <2> QED
    BY <1>1, <2>1, <2>2, <2>4, <2>5 DEF Settles
<1> QED
  BY <1>2, <1>3, <1>4

\* Calls that fail reload the page, settle the context or concern no context.
LEMMA FailureKinds ==
    ASSUME NEW t \in Tab, TypeOK, NEW slots \in SUBSET Slot, NEW r, NEW refused \in BOOLEAN,
           r = refresh[t] \/ (refresh[t].pc = "refused" /\ r = NoRefresh),
           CallsFail(t, slots, r, refused),
           FaultOrNot, UNCHANGED <<accounts, scene, param, flows, uses, exit>>
    PROVE  Reloads(t) \/ Settles(t) \/ DataFails(t)
<1> DEFINE away == refused /\ Redirects(t) /\ ~("task" \in slots /\ task[t].phase = "signout")
<1>1. CASE away
  <2>1. redirectOnAuthFailure(t)
    BY <1>1 DEF CallsFail
  <2>2. PICK p \in Pages : Unload(t) /\ Load(t, p, NoToken) /\ UNCHANGED oauth
    BY <2>1 DEF redirectOnAuthFailure, Pages, AuthPages, RootPages
  <2> QED
    BY <2>2 DEF Reloads
<1>2. CASE ~away /\ "task" \in slots /\ task[t].phase = "signout"
  <2>1. Unload(t) /\ Load(t, "auth", NoToken) /\ UNCHANGED oauth
    BY <1>2 DEF CallsFail, TaskFailed, LoggedOut
  <2> QED
    BY <2>1 DEF Reloads, Pages, AuthPages
<1>3. CASE ~away /\ "task" \in slots /\ task[t].phase # "signout"
  <2>1. Initialized(t, NoUser, Without(t, slots), r)
    BY <1>3 DEF CallsFail, TaskFailed
  <2> QED
    BY <2>1, InitializedKinds
<1>4. CASE ~away /\ "task" \notin slots
  <2>1. /\ call' = [call EXCEPT ![t] = Without(t, slots)]
        /\ refresh' = [refresh EXCEPT ![t] = r]
        /\ UNCHANGED <<issued, valid, cookie, token, stored, page, user, ready, inst,
                       task, oauth, mixed, lost>>
    BY <1>4 DEF CallsFail
  <2>2. refresh' = refresh \/ (refresh[t].pc = "refused" /\ refresh' = [refresh EXCEPT ![t] = NoRefresh])
    BY <2>1 DEF TypeOK, TokensTypeOK
  <2> QED
    BY <2>1, <2>2 DEF DataFails, GivesUp
<1> QED
  BY <1>1, <1>2, <1>3, <1>4

\* The instance context's answer reloads the page or mounts it.
LEMMA InstanceKinds ==
    ASSUME NEW t \in Tab, TypeOK, NEW i \in Inst, InstanceInit(t, i)
    PROVE  Reloads(t) \/ InstanceReady(t)
<1>1. FaultOrNot /\ UNCHANGED <<accounts, scene, param, flows, uses, exit>>
  BY DEF InstanceInit, FaultOrNot
<1>2. CASE ready[t] /\ Bounced(page[t], user[t], i)
  <2>1. Unload(t) /\ Load(t, "auth", NoToken) /\ UNCHANGED oauth
    BY <1>2 DEF InstanceInit
  <2> QED
    BY <1>1, <2>1 DEF Reloads, Pages, AuthPages
<1>3. CASE ~(ready[t] /\ Bounced(page[t], user[t], i))
  <2>1. /\ inst' = [inst EXCEPT ![t] = i]
        /\ IF ready[t]
           THEN /\ page' = [page EXCEPT ![t] = Landing(@, i)]
                /\ cleanupExpiredOAuthState(t)
           ELSE UNCHANGED <<page, oauth>>
        /\ UNCHANGED <<tokenVars, user, ready, task, mixed, lost>>
    BY <1>3 DEF InstanceInit
  <2>2. page \in [Tab -> Page] /\ page[t] \in Page
    BY DEF TypeOK, Page
  <2>3. \E p \in Page : page' = [page EXCEPT ![t] = p]
    <3>1. CASE ready[t]
      BY <2>1, <2>2, <3>1, LandingIsPage
    <3>2. CASE ~ready[t]
      BY <2>1, <2>2, <3>2
    <3> QED
      BY <3>1, <3>2
  <2>4. OAuthKeptOrGone(t)
    BY <2>1, CleanupKinds DEF OAuthKeptOrGone
  <2> QED
    BY <1>1, <2>1, <2>3, <2>4 DEF InstanceReady
<1> QED
  BY <1>2, <1>3

\* What a scenario names.
LEMMA ScenePages ==
    ASSUME TypeOK
    PROVE  /\ scene.pages \subseteq Pages /\ scene.users \subseteq User
           /\ scene.flows \in 0..MaxFlows /\ scene.faults \in 0..MaxFaults
           /\ scene.accounts \subseteq User /\ scene.session \in User \union {NoUser}
<1>1. scene \in Scenario
  BY ScenariosAssumption DEF TypeOK
<1> QED
  BY <1>1 DEF Scenario, Pages

\* Every step has one of the shapes.
LEMMA StepKinds ==
    ASSUME TypeOK, Next
    PROVE  \E t \in Tab : Kinds(t)
<1>1. PICK t \in Tab : Answer(t) \/ UserStep(t)
  BY DEF Next
<1> SUFFICES Kinds(t)
  OBVIOUS
<1>2. CASE Answer(t)
  <2>1. CASE \E i \in Inst \ {"loading"} : InstanceInit(t, i)
    BY <2>1, InstanceKinds DEF Kinds
  <2>2. CASE SettingsAnswered(t)
    <3>1. /\ Initialized(t, task[t].who, Without(t, {"task"}), refresh[t])
          /\ task[t].phase = "settings"
          /\ FaultOrNot /\ UNCHANGED <<accounts, scene, param, flows, uses, exit>>
      BY <2>2 DEF SettingsAnswered, FaultOrNot
    <3>2. {"task"} \in SUBSET Slot
      BY DEF Slot
    <3> QED
      BY <3>1, <3>2, InitializedKinds DEF Kinds
  <2>3. CASE \E s \in Slot : CallFails(t, s) \/ RetryFails(t, s)
    <3>1. PICK s \in Slot : CallFails(t, s) \/ RetryFails(t, s)
      BY <2>3
    <3>2. /\ CallsFail(t, {s}, refresh[t], FALSE) \/ CallsFail(t, {s}, refresh[t], TRUE)
          /\ FaultOrNot /\ UNCHANGED <<accounts, scene, param, flows, uses, exit>>
      BY <3>1 DEF CallFails, RetryFails, FaultOrNot
    <3>3. {s} \in SUBSET Slot
      OBVIOUS
    <3> QED
      BY <3>2, <3>3, FailureKinds DEF Kinds
  <2>4. CASE RefreshFails(t)
    <3> DEFINE slots == {s \in Slot : call[t][s].pc = "waiting"}
    <3>1. /\ CallsFail(t, slots, NoRefresh, TRUE)
          /\ refresh[t].pc = "refused"
          /\ FaultOrNot /\ UNCHANGED <<accounts, scene, param, flows, uses, exit>>
      BY <2>4 DEF RefreshFails, FaultOrNot
    <3>2. slots \in SUBSET Slot
      OBVIOUS
    <3> HIDE DEF slots
    <3> QED
      BY <3>1, <3>2, FailureKinds DEF Kinds
  <2>5. CASE \/ MeAnswered(t) \/ SignOutAnswered(t) \/ RefreshAnswered(t)
             \/ TokenStep(t) \/ NoRefreshAnswer(t)
             \/ UserCreated(t) \/ SignInAnswered(t) \/ FormFails(t)
    BY <2>5 DEF Kinds
  <2> QED
    BY <1>2, <2>1, <2>2, <2>3, <2>4, <2>5 DEF Answer
<1>3. CASE UserStep(t)
  <2>1. CASE \E p \in scene.pages : Visit(t, p) \/ Navigate(t, p)
    <3>1. PICK p \in Pages : Visit(t, p) \/ Navigate(t, p)
      BY <2>1, ScenePages
    <3>2. CASE Visit(t, p)
      BY <3>2 DEF Visit, Reloads, onlyPages, FaultOrNot, Kinds
    <3> QED
      BY <3>1, <3>2 DEF Kinds
  <2>2. CASE SignInRedirect(t)
    BY <2>2 DEF SignInRedirect, Reloads, onlyPages, FaultOrNot, Kinds, Pages, RootPages
  <2>3. CASE OAuthReturns(t)
    <3>1. Reloads(t)
      BY <2>3 DEF OAuthReturns, Reloads, FaultOrNot, Pages, AuthPages
    <3> QED
      BY <3>1 DEF Kinds
  <2>4. CASE \E u \in scene.users : SignInSubmit(t, u) \/ SignUpSubmit(t, u) \/ Callback(t, u)
    BY <2>4, ScenePages DEF Kinds
  <2>5. CASE DataCall(t) \/ DataAnswered(t) \/ SignOut(t) \/ StartOAuth(t) \/ OAuthExpires(t)
    BY <2>5 DEF Kinds
  <2> QED
    BY <1>3, <2>1, <2>2, <2>3, <2>4, <2>5 DEF UserStep
<1> QED
  BY <1>1, <1>2, <1>3

(***************************************************************************)
(* Types and numbers                                                       *)
(***************************************************************************)

\* What the type of the state says of one tab's parts.
LEMMA TabTyped ==
    ASSUME Base, NEW t \in Tab
    PROVE  /\ token[t] \in AccessToken /\ stored[t] \in AccessToken
           /\ call[t] \in [Slot -> Call] /\ refresh[t] \in Refresh
           /\ page[t] \in Page /\ user[t] \in User \union {NoUser}
           /\ inst[t] \in Inst /\ task[t] \in Task
           /\ oauth[t] \in [id : 0..MaxFlows, old : BOOLEAN]
           /\ param[t] \in 0..MaxFlows
  BY DEF Base, TypeOK, TokensTypeOK, Page

\* The operators on tokens stay within their types.
LEMMA TokensAreTyped ==
    /\ NoToken \in AccessToken /\ NoCall \in Call /\ NoRefresh \in Refresh
    /\ NoTask \in Task /\ NoState \in [id : 0..MaxFlows, old : BOOLEAN]
    /\ \A a \in AccessToken : Expired(a) \in AccessToken /\ Expired(a).user = a.user
    /\ \A a, b \in AccessToken : /\ Held(a, b) \in AccessToken /\ Kept(a, b) \in AccessToken
                                 /\ SentCall(a, b) \in Call
    /\ \A u \in User : [user |-> u, live |-> TRUE] \in AccessToken
<1>1. NoToken \in AccessToken /\ NoCall \in Call
  BY DEF AccessToken, NoCall, Call
<1>2. NoRefresh \in Refresh /\ NoTask \in Task /\ NoState \in [id : 0..MaxFlows, old : BOOLEAN]
  BY BoundsAssumption, MaxTokensAssumption DEF NoRefresh, Refresh, NoTask, Task, NoState
<1>3. ASSUME NEW a \in AccessToken
      PROVE  Expired(a) \in AccessToken /\ Expired(a).user = a.user
  <2>1. CASE a = NoToken
    BY <1>1, <2>1 DEF Expired, NoToken
  <2>2. CASE a \in [user : User, live : BOOLEAN]
    BY <2>2 DEF Expired, AccessToken
  <2> QED
    BY <2>1, <2>2 DEF AccessToken
<1>4. ASSUME NEW a \in AccessToken, NEW b \in AccessToken
      PROVE  Held(a, b) \in AccessToken /\ Kept(a, b) \in AccessToken
  BY <1>1 DEF Held, Kept
<1>5. ASSUME NEW a \in AccessToken, NEW b \in AccessToken
      PROVE  SentCall(a, b) \in Call
  BY <1>4 DEF SentCall, Call
<1>6. ASSUME NEW u \in User
      PROVE  [user |-> u, live |-> TRUE] \in AccessToken
  BY DEF AccessToken
<1> QED
  BY <1>1, <1>2, <1>3, <1>4, <1>5, <1>6

\* The number of a token just issued.
LEMMA IssueTyped ==
    ASSUME issued \in Seq(User), NEW u \in User, NewId \in Ids, Issue(u)
    PROVE  /\ issued' \in Seq(User)
           /\ Len(issued') = Len(issued) + 1 /\ Len(issued') = NewId
           /\ Len(issued') <= MaxTokens
           /\ \A i \in 1..Len(issued) : issued'[i] = issued[i]
           /\ issued'[NewId] = u
  BY MaxTokensAssumption DEF Issue, NewId, Ids

\* The server's side of a page load.
LEMMA UnloadTyped ==
    ASSUME Base, NEW t \in Tab, Unload(t)
    PROVE  /\ issued' \in Seq(User) /\ Len(issued') <= MaxTokens
           /\ Len(issued) <= Len(issued')
           /\ valid' \subseteq 1..Len(issued')
           /\ cookie' \in 0..MaxTokens /\ cookie' <= Len(issued')
           /\ lost' \in BOOLEAN
<1>1. /\ issued \in Seq(User) /\ Len(issued) <= MaxTokens /\ Len(issued) \in Nat
      /\ valid \subseteq 1..Len(issued) /\ cookie \in 0..MaxTokens
      /\ cookie <= Len(issued) /\ lost \in BOOLEAN
      /\ refresh[t].id \in 0..MaxTokens /\ refresh[t].id <= Len(issued)
  BY TabTyped DEF Base, TypeOK, TokensTypeOK, Numbers, Refresh
<1>2. CASE /\ lost' = (lost \/ refresh[t].pc = "rotated")
           /\ UNCHANGED <<issued, valid, cookie>>
  BY <1>1, <1>2
<1>3. CASE /\ refresh[t].id \in valid /\ NewId \in Ids
           /\ Issue(issued[refresh[t].id])
           /\ valid' = (valid \ {refresh[t].id}) \union {NewId}
           /\ lost' = TRUE /\ UNCHANGED cookie
  <2>1. issued[refresh[t].id] \in User
    BY <1>1, <1>3
  <2>2. /\ issued' \in Seq(User) /\ Len(issued') = Len(issued) + 1 /\ Len(issued') = NewId
        /\ Len(issued') <= MaxTokens
    BY <1>1, <1>3, <2>1, IssueTyped
  <2>3. valid' \subseteq 1..Len(issued')
    <3>1. Len(issued') \in 1..Len(issued') /\ 1..Len(issued) \subseteq 1..Len(issued')
      BY <1>1, <2>2
    <3> QED
      BY <1>1, <1>3, <2>2, <3>1
  <2> QED
    BY <1>1, <1>3, <2>2, <2>3
<1>4. CASE cookie' = refresh[t].id /\ UNCHANGED <<issued, valid, lost>>
  BY <1>1, <1>4
<1> QED
  BY <1>2, <1>3, <1>4 DEF Unload

\* Faults stay within the scenario's bound.
LEMMA FaultTyped ==
    ASSUME Base, FaultOrNot
    PROVE  faults' \in 0..MaxFaults
  BY ScenePages, BoundsAssumption DEF Base, TypeOK, FaultOrNot, Fault

\* A page load keeps the types of what the tab holds.
LEMMA LoadTyped ==
    ASSUME Base, NEW t \in Tab, NEW p \in Pages, NEW copy \in {NoToken, stored[t]},
           Load(t, p, copy)
    PROVE  /\ token' \in [Tab -> AccessToken] /\ stored' \in [Tab -> AccessToken]
           /\ call' \in [Tab -> [Slot -> Call]] /\ refresh' \in [Tab -> Refresh]
           /\ page' \in [Tab -> Page] /\ user' \in [Tab -> User \union {NoUser}]
           /\ ready' \in [Tab -> BOOLEAN] /\ inst' \in [Tab -> Inst]
           /\ task' \in [Tab -> Task] /\ mixed' \subseteq Tab
<1>1. /\ copy \in AccessToken /\ NoToken \in AccessToken
      /\ Held(NoToken, copy) \in AccessToken /\ Kept(NoToken, copy) \in AccessToken
      /\ SentCall(NoToken, copy) \in Call /\ NoCall \in Call
  BY TabTyped, TokensAreTyped
<1>2. [s \in Slot |-> IF s = "task" THEN SentCall(NoToken, copy) ELSE NoCall] \in [Slot -> Call]
  BY <1>1
<1>3. [NoTask EXCEPT !.phase = "me"] \in Task
  BY MaxTokensAssumption DEF NoTask, Task
<1>4. /\ token' \in [Tab -> AccessToken] /\ stored' \in [Tab -> AccessToken]
      /\ call' \in [Tab -> [Slot -> Call]]
  BY <1>1, <1>2 DEF Load, Base, TypeOK, TokensTypeOK
<1>5. refresh' \in [Tab -> Refresh] /\ task' \in [Tab -> Task]
  BY <1>3, TokensAreTyped DEF Load, Base, TypeOK, TokensTypeOK
<1>6. /\ page' \in [Tab -> Page] /\ user' \in [Tab -> User \union {NoUser}]
      /\ ready' \in [Tab -> BOOLEAN] /\ inst' \in [Tab -> Inst] /\ mixed' \subseteq Tab
  BY DEF Load, Base, TypeOK, Pages, Page, Inst
<1> QED
  BY <1>4, <1>5, <1>6

\* The shapes one by one, for the types and the numbers.
LEMMA ReloadBase ==
    ASSUME Base, NEW t \in Tab, Reloads(t)
    PROVE  Base'
<1>1. PICK p \in Pages, copy \in {NoToken, stored[t]} : Unload(t) /\ Load(t, p, copy)
  BY DEF Reloads
<1>2. TokensTypeOK'
  BY <1>1, UnloadTyped, LoadTyped, MaxTokensAssumption DEF TokensTypeOK, Ids
<1>3. TypeOK'
  <2>1. /\ page' \in [Tab -> Page] /\ user' \in [Tab -> User \union {NoUser}]
        /\ ready' \in [Tab -> BOOLEAN] /\ inst' \in [Tab -> Inst]
        /\ task' \in [Tab -> Task] /\ mixed' \subseteq Tab /\ lost' \in BOOLEAN
    BY <1>1, UnloadTyped, LoadTyped
  <2>2. param' \in [Tab -> 0..MaxFlows] /\ faults' \in 0..MaxFaults
    BY FaultTyped, BoundsAssumption DEF Reloads, Base, TypeOK
  <2>3. UNCHANGED <<accounts, scene, oauth, flows, uses, exit>>
    BY DEF Reloads
  <2> QED
    BY <1>2, <2>1, <2>2, <2>3 DEF Base, TypeOK, Page
<1>4. /\ refresh' = [refresh EXCEPT ![t] = NoRefresh]
      /\ task' = [task EXCEPT ![t] = [NoTask EXCEPT !.phase = "me"]]
  BY <1>1 DEF Load
<1>5. /\ Len(issued) \in Nat /\ Len(issued') \in Nat /\ Len(issued) <= Len(issued')
      /\ valid' \subseteq 1..Len(issued') /\ cookie' <= Len(issued')
  BY <1>1, UnloadTyped DEF Base, TypeOK, TokensTypeOK
<1>6. ASSUME NEW x \in Tab
      PROVE  /\ refresh'[x].id <= Len(issued')
             /\ task'[x].id <= Len(issued')
             /\ refresh'[x].pc = "rotated" => refresh'[x].id # 0
             /\ refresh'[x].pc = "none" => refresh'[x] = NoRefresh
  BY <1>4, <1>5, TabTyped DEF Base, TypeOK, TokensTypeOK, Numbers, NoRefresh, NoTask, Refresh, Task
<1> QED
  BY <1>3, <1>5, <1>6 DEF Base, Numbers

\* The numbers after a step that changes the refresh or the task of one tab.
LEMMA NumbersKept ==
    ASSUME Base, NEW t \in Tab, NEW r \in Refresh, NEW k \in Task,
           refresh' = [refresh EXCEPT ![t] = r], task' = [task EXCEPT ![t] = k],
           Len(issued') \in Nat, Len(issued) <= Len(issued'),
           valid' \subseteq 1..Len(issued'), cookie' <= Len(issued'),
           r.id <= Len(issued'), k.id <= Len(issued'),
           r.pc = "rotated" => r.id # 0, r.pc = "none" => r = NoRefresh
    PROVE  Numbers'
<1>1. Len(issued) \in Nat
  BY DEF Base, TypeOK, TokensTypeOK
<1>2. ASSUME NEW x \in Tab
      PROVE  /\ refresh'[x].id <= Len(issued')
             /\ task'[x].id <= Len(issued')
             /\ refresh'[x].pc = "rotated" => refresh'[x].id # 0
             /\ refresh'[x].pc = "none" => refresh'[x] = NoRefresh
  <2>1. CASE x = t
    BY <2>1 DEF Base, TypeOK, TokensTypeOK
  <2>2. CASE x # t
    <3>1. refresh'[x] = refresh[x] /\ task'[x] = task[x]
      BY <2>2 DEF Base, TypeOK, TokensTypeOK
    <3>2. /\ refresh[x].id <= Len(issued) /\ task[x].id <= Len(issued)
          /\ refresh[x].pc = "rotated" => refresh[x].id # 0
          /\ refresh[x].pc = "none" => refresh[x] = NoRefresh
          /\ refresh[x].id \in Nat /\ task[x].id \in Nat
      BY TabTyped DEF Base, Numbers, Refresh, Task
    <3> QED
      BY <1>1, <3>1, <3>2
  <2> QED
    BY <2>1, <2>2
<1> QED
  BY <1>2 DEF Numbers

\* The same for a step that leaves the server's tokens and the cookie alone.
LEMMA NumbersSame ==
    ASSUME Base, NEW t \in Tab, NEW r \in Refresh, NEW k \in Task,
           refresh' = [refresh EXCEPT ![t] = r], task' = [task EXCEPT ![t] = k],
           UNCHANGED <<issued, valid, cookie>>,
           r.id \in {0, cookie, refresh[t].id}, k.id \in {0, cookie, task[t].id},
           r.pc = "rotated" => r.id # 0, r.pc = "none" => r = NoRefresh
    PROVE  Numbers'
<1>1. /\ Len(issued) \in Nat /\ cookie <= Len(issued) /\ valid \subseteq 1..Len(issued)
      /\ refresh[t].id <= Len(issued) /\ task[t].id <= Len(issued)
  BY DEF Base, TypeOK, TokensTypeOK, Numbers
<1>2. r.id <= Len(issued) /\ k.id <= Len(issued)
  BY <1>1
<1>3. /\ Len(issued') \in Nat /\ Len(issued) <= Len(issued')
      /\ valid' \subseteq 1..Len(issued') /\ cookie' <= Len(issued')
      /\ r.id <= Len(issued') /\ k.id <= Len(issued')
  BY <1>1, <1>2
<1> QED
  BY <1>3, NumbersKept

\* What is left alone, written as a change.
LEMMA SameTab ==
    ASSUME Base, NEW t \in Tab
    PROVE  /\ refresh = [refresh EXCEPT ![t] = refresh[t]]
           /\ task = [task EXCEPT ![t] = task[t]]
           /\ refresh[t].pc = "rotated" => refresh[t].id # 0
           /\ refresh[t].pc = "none" => refresh[t] = NoRefresh
  BY DEF Base, TypeOK, TokensTypeOK, Numbers

\* Giving up calls keeps their type.
LEMMA WithoutTyped ==
    ASSUME Base, NEW t \in Tab, NEW slots \in SUBSET Slot
    PROVE  Without(t, slots) \in [Slot -> Call]
  BY TabTyped, TokensAreTyped DEF Without

\* What giving up calls does to calls, refresh and faults.
LEMMA GivesUpTyped ==
    ASSUME Base, NEW t \in Tab, GivesUp(t)
    PROVE  /\ call' \in [Tab -> [Slot -> Call]] /\ refresh' \in [Tab -> Refresh]
           /\ faults' \in 0..MaxFaults
           /\ \E r \in Refresh :
                  /\ refresh' = [refresh EXCEPT ![t] = r] /\ r.id \in {0, refresh[t].id}
                  /\ r.pc = "rotated" => r.id # 0
                  /\ r.pc = "none" => r = NoRefresh
<1>1. call' \in [Tab -> [Slot -> Call]]
  BY WithoutTyped DEF GivesUp, Base, TypeOK, TokensTypeOK
<1>2. faults' \in 0..MaxFaults
  BY FaultTyped DEF GivesUp
<1>3. \E r \in Refresh :
          /\ refresh' = [refresh EXCEPT ![t] = r] /\ r.id \in {0, refresh[t].id}
          /\ r.pc = "rotated" => r.id # 0
          /\ r.pc = "none" => r = NoRefresh
  <2>1. CASE refresh' = refresh
    BY <2>1, SameTab, TabTyped
  <2>2. CASE refresh' = [refresh EXCEPT ![t] = NoRefresh]
    BY <2>2, TokensAreTyped DEF NoRefresh
  <2> QED
    BY <2>1, <2>2 DEF GivesUp
<1>4. refresh' \in [Tab -> Refresh]
  BY <1>3 DEF Base, TypeOK, TokensTypeOK
<1> QED
  BY <1>1, <1>2, <1>3, <1>4

\* Dropping a state keeps its type.
LEMMA OAuthTyped ==
    ASSUME Base, NEW t \in Tab, OAuthKeptOrGone(t)
    PROVE  oauth' \in [Tab -> [id : 0..MaxFlows, old : BOOLEAN]]
  BY TokensAreTyped DEF OAuthKeptOrGone, Base, TypeOK

\* The auth context is initialized.
LEMMA SettlesBase ==
    ASSUME Base, NEW t \in Tab, Settles(t)
    PROVE  Base'
<1>1. GivesUp(t) /\ OAuthKeptOrGone(t) /\ task' = [task EXCEPT ![t] = NoTask]
  BY DEF Settles
<1>2. UNCHANGED <<issued, valid, cookie, accounts, scene, param, flows, uses, exit, mixed, lost>>
  BY <1>1 DEF GivesUp
<1>3. token' \in [Tab -> AccessToken] /\ stored' \in [Tab -> AccessToken]
  <2>1. CASE clearAccessToken(t)
    BY <2>1, TokensAreTyped DEF clearAccessToken, setAccessToken, Base, TypeOK, TokensTypeOK
  <2>2. CASE UNCHANGED <<token, stored>>
    BY <2>2 DEF Base, TypeOK, TokensTypeOK
  <2> QED
    BY <2>1, <2>2 DEF Settles
<1>4. /\ user' \in [Tab -> User \union {NoUser}] /\ ready' \in [Tab -> BOOLEAN]
      /\ inst' \in [Tab -> Inst] /\ page' \in [Tab -> Page]
  <2>1. task[t].who \in User \union {NoUser}
    BY TabTyped DEF Task
  <2> QED
    BY <2>1 DEF Settles, Base, TypeOK, Page
<1>5. task' \in [Tab -> Task]
  BY <1>1, TokensAreTyped DEF Base, TypeOK
<1>6. TypeOK'
  BY <1>1, <1>2, <1>3, <1>4, <1>5, GivesUpTyped, OAuthTyped DEF Base, TypeOK, TokensTypeOK, Page
<1>7. Numbers'
  BY <1>1, <1>2, GivesUpTyped, NumbersSame, TokensAreTyped DEF NoTask
<1> QED
  BY <1>6, <1>7 DEF Base

\* A query fails.
LEMMA DataFailsBase ==
    ASSUME Base, NEW t \in Tab, DataFails(t)
    PROVE  Base'
<1>1. GivesUp(t) /\ UNCHANGED <<token, stored, page, user, ready, inst, task, oauth>>
  BY DEF DataFails
<1>2. UNCHANGED <<issued, valid, cookie, accounts, scene, param, flows, uses, exit, mixed, lost>>
  BY <1>1 DEF GivesUp
<1>3. TypeOK'
  BY <1>1, <1>2, GivesUpTyped DEF Base, TypeOK, TokensTypeOK
<1>4. Numbers'
  BY <1>1, <1>2, GivesUpTyped, NumbersSame, SameTab, TabTyped
<1> QED
  BY <1>3, <1>4 DEF Base

\* The instance context answers.
LEMMA InstanceReadyBase ==
    ASSUME Base, NEW t \in Tab, InstanceReady(t)
    PROVE  Base'
<1>1. /\ inst' \in [Tab -> Inst] /\ page' \in [Tab -> Page] /\ faults' \in 0..MaxFaults
      /\ oauth' \in [Tab -> [id : 0..MaxFlows, old : BOOLEAN]]
  BY OAuthTyped, FaultTyped DEF InstanceReady, Base, TypeOK, Page
<1>2. UNCHANGED <<tokenVars, accounts, scene, user, ready, task, param, flows, uses, exit, mixed, lost>>
  BY DEF InstanceReady
<1>3. TypeOK'
  BY <1>1, <1>2 DEF Base, TypeOK, TokensTypeOK, tokenVars, Page
<1>4. Numbers'
  BY <1>2 DEF Base, Numbers, tokenVars
<1> QED
  BY <1>3, <1>4 DEF Base

\* Reading the token.
LEMMA ReadTyped ==
    ASSUME Base, NEW t \in Tab, getAccessToken(t)
    PROVE  token' \in [Tab -> AccessToken] /\ stored' \in [Tab -> AccessToken]
  BY TokensAreTyped, TabTyped DEF getAccessToken, Base, TypeOK, TokensTypeOK

\* Sending a call keeps the types.
LEMMA SendTyped ==
    ASSUME Base, NEW t \in Tab, NEW s \in Slot, Send(t, s)
    PROVE  /\ token' \in [Tab -> AccessToken] /\ stored' \in [Tab -> AccessToken]
           /\ call' \in [Tab -> [Slot -> Call]]
  BY ReadTyped, TokensAreTyped, TabTyped DEF Send, Base, TypeOK, TokensTypeOK

\* A live token names a user.
LEMMA LiveNames ==
    ASSUME NEW a \in AccessToken
    PROVE  a.user \in User \union {NoUser} /\ (a.live => a.user \in User)
           /\ (a.user = NoUser => a = NoToken) /\ a.live \in BOOLEAN
<1>1. CASE a = NoToken
  BY <1>1 DEF NoToken
<1>2. CASE a \in [user : User, live : BOOLEAN]
  BY <1>2, NoUserAssumption
<1> QED
  BY <1>1, <1>2 DEF AccessToken

\* getCurrentUser answers: the user named is one the server issued a token to.
LEMMA MeAnsweredBase ==
    ASSUME Base, NEW t \in Tab, MeAnswered(t)
    PROVE  Base'
<1> DEFINE k == [task[t] EXCEPT !.phase = "settings", !.who = call[t]["task"].token.user]
<1>1. k \in Task /\ k.id = task[t].id
  <2>1. call[t]["task"].token.user \in User \union {NoUser}
    BY TabTyped, LiveNames DEF Call, Slot
  <2> QED
    BY <2>1, TabTyped DEF Task
<1>2. task' = [task EXCEPT ![t] = k]
  BY DEF MeAnswered, Base, TypeOK
<1> HIDE DEF k
<1>3. UNCHANGED <<issued, valid, cookie, refresh, accounts, scene, faults, page, user,
                  ready, inst, oauth, param, flows, uses, exit, mixed, lost>>
  BY DEF MeAnswered
<1>4. task' \in [Tab -> Task]
  BY <1>1, <1>2 DEF Base, TypeOK
<1>5. /\ token' \in [Tab -> AccessToken] /\ stored' \in [Tab -> AccessToken]
      /\ call' \in [Tab -> [Slot -> Call]]
  BY SendTyped DEF MeAnswered, Slot
<1>6. TypeOK'
  BY <1>3, <1>4, <1>5 DEF Base, TypeOK, TokensTypeOK
<1>7. Numbers'
  BY <1>1, <1>2, <1>3, SameTab, TabTyped, NumbersSame
<1> QED
  BY <1>6, <1>7 DEF Base

\* SignOut answers: the server's tokens only get fewer.
LEMMA SignOutAnsweredBase ==
    ASSUME Base, NEW t \in Tab, SignOutAnswered(t)
    PROVE  Base'
<1>1. Load(t, "auth", NoToken) /\ "auth" \in Pages
  BY DEF SignOutAnswered, LoggedOut, Pages, AuthPages
<1>2. /\ token' \in [Tab -> AccessToken] /\ stored' \in [Tab -> AccessToken]
      /\ call' \in [Tab -> [Slot -> Call]] /\ refresh' \in [Tab -> Refresh]
      /\ page' \in [Tab -> Page] /\ user' \in [Tab -> User \union {NoUser}]
      /\ ready' \in [Tab -> BOOLEAN] /\ inst' \in [Tab -> Inst]
      /\ task' \in [Tab -> Task] /\ mixed' \subseteq Tab
  BY <1>1, LoadTyped
<1>3. /\ valid' \subseteq valid /\ cookie' = 0 /\ exit' \in {"alone", "overtaken"}
      /\ lost' \in BOOLEAN
      /\ UNCHANGED <<issued, accounts, scene, faults, oauth, param, flows, uses>>
  BY DEF SignOutAnswered, Base, TypeOK
<1>4. TypeOK'
  BY <1>2, <1>3, MaxTokensAssumption DEF Base, TypeOK, TokensTypeOK, Page
<1>5. /\ refresh' = [refresh EXCEPT ![t] = NoRefresh]
      /\ task' = [task EXCEPT ![t] = [NoTask EXCEPT !.phase = "me"]]
  BY <1>1 DEF Load
<1>6. [NoTask EXCEPT !.phase = "me"] \in Task /\ [NoTask EXCEPT !.phase = "me"].id = 0
  BY MaxTokensAssumption DEF NoTask, Task
<1>7. Len(issued') = Len(issued) /\ Len(issued) \in Nat /\ valid' \subseteq 1..Len(issued')
  BY <1>3 DEF Base, TypeOK, TokensTypeOK, Numbers
<1>8. NoRefresh \in Refresh /\ NoRefresh.id = 0 /\ NoRefresh.pc # "rotated"
  BY TokensAreTyped DEF NoRefresh
<1>9. /\ Len(issued') \in Nat /\ Len(issued) <= Len(issued') /\ cookie' <= Len(issued')
      /\ NoRefresh.id <= Len(issued') /\ [NoTask EXCEPT !.phase = "me"].id <= Len(issued')
  BY <1>3, <1>6, <1>7, <1>8
<1>10. Numbers'
  BY <1>5, <1>6, <1>7, <1>8, <1>9, NumbersKept
<1> QED
  BY <1>4, <1>10 DEF Base

\* The refresh answers: its token was issued, so it names a user.
LEMMA RefreshAnsweredBase ==
    ASSUME Base, NEW t \in Tab, RefreshAnswered(t)
    PROVE  Base'
<1> DEFINE u == issued[refresh[t].id]
           a == [user |-> u, live |-> TRUE]
<1>1. /\ refresh[t].pc = "rotated" /\ cookie' = refresh[t].id /\ setAccessToken(t, a)
      /\ call' = [call EXCEPT ![t] = Repeated(t, a)]
      /\ refresh' = [refresh EXCEPT ![t] = NoRefresh]
      /\ task' = IF task[t].phase = "signout" /\ call[t]["task"].pc = "waiting"
                 THEN [task EXCEPT ![t].id = refresh[t].id] ELSE task
      /\ mixed' = mixed \union Strangers(u)
      /\ UNCHANGED <<issued, valid, accounts, scene, faults, page, user, ready, inst, oauth,
                     param, flows, uses, exit, lost>>
  BY DEF RefreshAnswered, refreshAccessToken
<1>2. /\ refresh[t].id \in 1..Len(issued) /\ refresh[t].id \in 0..MaxTokens
      /\ u \in User /\ Len(issued) \in Nat
  BY <1>1, TabTyped DEF Base, TypeOK, TokensTypeOK, Numbers, Refresh
<1>3. a \in AccessToken
  BY <1>2, TokensAreTyped
<1>4. Repeated(t, a) \in [Slot -> Call]
  BY <1>3, TabTyped DEF Repeated, Call
<1>5. PICK k \in Task : task' = [task EXCEPT ![t] = k] /\ k.id \in {task[t].id, refresh[t].id}
  <2>1. CASE task' = task
    BY <2>1, SameTab, TabTyped
  <2>2. CASE task' = [task EXCEPT ![t].id = refresh[t].id]
    <3>1. [task[t] EXCEPT !.id = refresh[t].id] \in Task
      BY <1>2, TabTyped DEF Task
    <3> QED
      BY <2>2, <3>1, TabTyped DEF Task
  <2> QED
    BY <1>1, <2>1, <2>2
<1>6. mixed' \subseteq Tab /\ task' \in [Tab -> Task] /\ refresh' \in [Tab -> Refresh]
  <2>1. mixed' \subseteq Tab
    BY <1>1 DEF Strangers, Base, TypeOK
  <2>2. task' \in [Tab -> Task]
    BY <1>5 DEF Base, TypeOK
  <2>3. refresh' \in [Tab -> Refresh]
    BY <1>1, TokensAreTyped DEF Base, TypeOK, TokensTypeOK
  <2> QED
    BY <2>1, <2>2, <2>3
<1>7. /\ token' \in [Tab -> AccessToken] /\ stored' \in [Tab -> AccessToken]
      /\ call' \in [Tab -> [Slot -> Call]]
  BY <1>1, <1>3, <1>4 DEF setAccessToken, Base, TypeOK, TokensTypeOK
<1> HIDE DEF u, a
<1>8. TypeOK'
  BY <1>1, <1>2, <1>6, <1>7 DEF Base, TypeOK, TokensTypeOK
<1>9. k.id <= Len(issued)
  BY <1>2, <1>5 DEF Base, Numbers
<1>10. Numbers'
  <2>1. NoRefresh \in Refresh /\ NoRefresh.id = 0 /\ NoRefresh.pc # "rotated"
    BY TokensAreTyped DEF NoRefresh
  <2>2. valid' \subseteq 1..Len(issued') /\ Len(issued') = Len(issued) /\ cookie' <= Len(issued')
    BY <1>1, <1>2 DEF Base, Numbers
  <2>3. /\ Len(issued') \in Nat /\ Len(issued) <= Len(issued')
        /\ NoRefresh.id <= Len(issued') /\ k.id <= Len(issued')
    BY <1>2, <1>9, <2>1, <2>2
  <2>4. refresh' = [refresh EXCEPT ![t] = NoRefresh] /\ task' = [task EXCEPT ![t] = k]
    BY <1>1, <1>5
  <2> QED
    BY <2>1, <2>2, <2>3, <2>4, NumbersKept
<1> QED
  BY <1>8, <1>10 DEF Base

\* The token expires.
LEMMA TokenExpiresBase ==
    ASSUME Base, NEW t \in Tab, TokenExpires(t),
           UNCHANGED <<accounts, scene, faults, page, user, ready, inst, task, oauth, param,
                       flows, uses, exit, mixed, lost>>
    PROVE  Base'
<1>1. [s \in Slot |-> [call[t][s] EXCEPT !.token = Expired(call[t][s].token)]] \in [Slot -> Call]
  <2>1. ASSUME NEW s \in Slot
        PROVE  [call[t][s] EXCEPT !.token = Expired(call[t][s].token)] \in Call
    <3>1. call[t][s] \in Call
      BY TabTyped
    <3>2. Expired(call[t][s].token) \in AccessToken
      BY <3>1, TokensAreTyped DEF Call
    <3> QED
      BY <3>1, <3>2 DEF Call
  <2> QED
    BY <2>1
<1>2. /\ token' \in [Tab -> AccessToken] /\ stored' \in [Tab -> AccessToken]
      /\ call' \in [Tab -> [Slot -> Call]]
  BY <1>1, TabTyped, TokensAreTyped DEF TokenExpires, Base, TypeOK, TokensTypeOK
<1>3. UNCHANGED <<issued, valid, cookie, refresh>>
  BY DEF TokenExpires
<1> QED
  BY <1>2, <1>3 DEF Base, TypeOK, TokensTypeOK, Numbers

\* A call is refused: the refresh starts with the cookie.
LEMMA UnauthorizedBase ==
    ASSUME Base, NEW t \in Tab, NEW s \in Slot, Unauthorized(t, s),
           UNCHANGED <<accounts, scene, faults, page, user, ready, inst, task, oauth, param,
                       flows, uses, exit, mixed, lost>>
    PROVE  Base'
<1>1. UNCHANGED <<issued, valid, cookie, token, stored>>
  BY DEF Unauthorized
<1>2. call' \in [Tab -> [Slot -> Call]]
  <2>1. [call[t][s] EXCEPT !.pc = "waiting"] \in Call
    BY TabTyped DEF Call
  <2>2. call' = [call EXCEPT ![t] = [call[t] EXCEPT ![s] = [call[t][s] EXCEPT !.pc = "waiting"]]]
    BY DEF Unauthorized, Base, TypeOK, TokensTypeOK
  <2> QED
    BY <2>1, <2>2, TabTyped DEF Base, TypeOK, TokensTypeOK
<1>3. PICK r \in Refresh : /\ refresh' = [refresh EXCEPT ![t] = r]
                           /\ r.id \in {cookie, refresh[t].id}
                           /\ r.pc = "rotated" => r.id # 0
                           /\ r.pc = "none" => r = NoRefresh
  <2>1. CASE refresh' = refresh
    BY <2>1, SameTab, TabTyped
  <2>2. CASE refresh' = [refresh EXCEPT ![t] = [pc |-> "sent", id |-> cookie]]
    <3>1. [pc |-> "sent", id |-> cookie] \in Refresh
      BY DEF Refresh, Base, TypeOK, TokensTypeOK
    <3> QED
      BY <2>2, <3>1
  <2> QED
    BY <2>1, <2>2 DEF Unauthorized
<1>4. refresh' \in [Tab -> Refresh]
  BY <1>3 DEF Base, TypeOK, TokensTypeOK
<1>5. TypeOK'
  BY <1>1, <1>2, <1>4 DEF Base, TypeOK, TokensTypeOK
<1>6. Numbers'
  BY <1>1, <1>3, NumbersSame, SameTab, TabTyped
<1> QED
  BY <1>5, <1>6 DEF Base

\* A refresh that the server refuses, or that gets no answer.
LEMMA RefusedBase ==
    ASSUME Base, NEW t \in Tab, FaultOrNot, refresh[t].pc = "sent",
           refresh' = [refresh EXCEPT ![t].pc = "refused"],
           UNCHANGED <<issued, valid, cookie, token, stored, call, accounts, scene, page, user,
                       ready, inst, task, oauth, param, flows, uses, exit, mixed, lost>>
    PROVE  Base'
<1> DEFINE r == [refresh[t] EXCEPT !.pc = "refused"]
<1>1. r \in Refresh /\ r.id = refresh[t].id /\ r.pc = "refused"
  BY TabTyped DEF Refresh
<1>2. refresh' = [refresh EXCEPT ![t] = r]
  BY DEF Base, TypeOK, TokensTypeOK
<1> HIDE DEF r
<1>3. refresh' \in [Tab -> Refresh] /\ faults' \in 0..MaxFaults
  BY <1>1, <1>2, FaultTyped DEF Base, TypeOK, TokensTypeOK
<1>4. TypeOK'
  BY <1>3 DEF Base, TypeOK, TokensTypeOK
<1>5. task' = [task EXCEPT ![t] = task[t]] /\ task[t] \in Task
  BY SameTab, TabTyped
<1>6. Numbers'
  BY <1>1, <1>2, <1>5, NumbersSame
<1> QED
  BY <1>4, <1>6 DEF Base

\* The server rotates, or refuses.
LEMMA RotateBase ==
    ASSUME Base, NEW t \in Tab, Rotate(t),
           UNCHANGED <<accounts, scene, faults, page, user, ready, inst, task, oauth, param,
                       flows, uses, exit, mixed, lost>>
    PROVE  Base'
<1>1. CASE refresh[t].id \in valid /\ NewId \in Ids
  <2> DEFINE r == [pc |-> "rotated", id |-> NewId]
  <2>1. /\ Issue(issued[refresh[t].id])
        /\ valid' = (valid \ {refresh[t].id}) \union {NewId}
        /\ refresh' = [refresh EXCEPT ![t] = r]
        /\ UNCHANGED <<cookie, token, stored, call>>
    BY <1>1 DEF Rotate
  <2>2. issued \in Seq(User) /\ Len(issued) \in Nat /\ issued[refresh[t].id] \in User
    <3>1. issued \in Seq(User) /\ valid \subseteq 1..Len(issued)
      BY DEF Base, TypeOK, TokensTypeOK, Numbers
    <3>2. refresh[t].id \in 1..Len(issued)
      BY <1>1, <3>1
    <3>3. Len(issued) \in Nat
      BY <3>1
    <3> QED
      BY <3>1, <3>2, <3>3
  <2>3. /\ issued' \in Seq(User) /\ Len(issued') = Len(issued) + 1 /\ Len(issued') = NewId
        /\ Len(issued') <= MaxTokens
    BY <1>1, <2>1, <2>2, IssueTyped
  <2>4. valid' \subseteq 1..Len(issued')
    <3>1. Len(issued') \in 1..Len(issued') /\ 1..Len(issued) \subseteq 1..Len(issued')
      BY <2>2, <2>3
    <3> QED
      BY <2>1, <2>3, <3>1 DEF Base, Numbers
  <2>5. r \in Refresh /\ r.id = Len(issued') /\ r.id # 0 /\ r.pc # "none"
    BY <2>2, <2>3, MaxTokensAssumption DEF Refresh
  <2> HIDE DEF r
  <2>6. refresh' \in [Tab -> Refresh] /\ valid' \subseteq Ids
    BY <1>1, <2>1, <2>5 DEF Base, TypeOK, TokensTypeOK
  <2>7. TypeOK'
    BY <2>1, <2>3, <2>6 DEF Base, TypeOK, TokensTypeOK
  <2>8. cookie <= Len(issued') /\ task[t].id <= Len(issued') /\ cookie \in Nat
    BY <2>2, <2>3, TabTyped DEF Base, Numbers, TypeOK, TokensTypeOK, Task
  <2>9. Numbers'
    <3>1. /\ Len(issued') \in Nat /\ Len(issued) <= Len(issued')
          /\ cookie' <= Len(issued') /\ r.id <= Len(issued') /\ task[t].id <= Len(issued')
      BY <2>1, <2>2, <2>3, <2>5, <2>8, TabTyped DEF Task
    <3>2. task' = [task EXCEPT ![t] = task[t]] /\ task[t] \in Task
      BY SameTab, TabTyped
    <3> QED
      BY <2>1, <2>4, <2>5, <3>1, <3>2, NumbersKept
  <2> QED
    BY <2>7, <2>9 DEF Base
<1>2. CASE ~(refresh[t].id \in valid /\ NewId \in Ids)
  BY <1>2, RefusedBase DEF Rotate, FaultOrNot
<1> QED
  BY <1>1, <1>2

\* The token actions together.
LEMMA TokenStepBase ==
    ASSUME Base, NEW t \in Tab, TokenStep(t) \/ NoRefreshAnswer(t)
    PROVE  Base'
<1>1. CASE TokenStep(t)
  BY <1>1, TokenExpiresBase, UnauthorizedBase, RotateBase DEF TokenStep
<1>2. CASE NoRefreshAnswer(t)
  BY <1>2, RefusedBase DEF NoRefreshAnswer, RefreshLost, FaultOrNot
<1> QED
  BY <1>1, <1>2

\* The tasks a tab begins, continues and gives up by itself.
LEMMA TaskBase ==
    ASSUME Base, NEW t \in Tab, NEW k \in Task, task' = [task EXCEPT ![t] = k],
           k.id \in {0, cookie, task[t].id},
           FaultOrNot, accounts' \subseteq User,
           token' \in [Tab -> AccessToken], stored' \in [Tab -> AccessToken],
           call' \in [Tab -> [Slot -> Call]], page' \in [Tab -> Page],
           oauth' \in [Tab -> [id : 0..MaxFlows, old : BOOLEAN]],
           uses' \in [1..MaxFlows -> 0..2],
           UNCHANGED <<issued, valid, cookie, refresh, scene, user, ready, inst,
                       param, flows, exit, mixed, lost>>
    PROVE  Base'
<1>1. task' \in [Tab -> Task] /\ faults' \in 0..MaxFaults
  BY FaultTyped DEF Base, TypeOK
<1>2. TypeOK'
  BY <1>1 DEF Base, TypeOK, TokensTypeOK, Page
<1>3. /\ refresh' = [refresh EXCEPT ![t] = refresh[t]]
      /\ refresh[t] \in Refresh /\ refresh[t].id \in {0, cookie, refresh[t].id}
      /\ refresh[t].pc = "rotated" => refresh[t].id # 0
      /\ refresh[t].pc = "none" => refresh[t] = NoRefresh
  BY SameTab, TabTyped
<1>4. Numbers'
  BY <1>3, NumbersSame
<1> QED
  BY <1>2, <1>4 DEF Base

\* The types of what TaskBase lets a step change.
LEMMA SameTyped ==
    ASSUME Base
    PROVE  /\ accounts \subseteq User
           /\ token \in [Tab -> AccessToken] /\ stored \in [Tab -> AccessToken]
           /\ call \in [Tab -> [Slot -> Call]] /\ page \in [Tab -> Page]
           /\ oauth \in [Tab -> [id : 0..MaxFlows, old : BOOLEAN]]
           /\ uses \in [1..MaxFlows -> 0..2]
  BY DEF Base, TypeOK, TokensTypeOK, Page

\* A form's task is a task.
LEMMA FormTyped ==
    ASSUME NEW phase \in {"create", "signin"}, NEW from \in {"form", "signup", "callback"},
           NEW u \in User
    PROVE  /\ [phase |-> phase, from |-> from, who |-> u, id |-> 0] \in Task
           /\ [phase |-> phase, from |-> from, who |-> u, id |-> 0].id = 0
  BY MaxTokensAssumption DEF Task

\* The forms' steps.
LEMMA FormBase ==
    ASSUME Base, Named, NEW t \in Tab, NEW u \in User,
           SignInSubmit(t, u) \/ SignUpSubmit(t, u) \/ UserCreated(t) \/ FormFails(t)
    PROVE  Base'
<1>1. CASE SignInSubmit(t, u)
  BY <1>1, FormTyped, SameTyped, TaskBase
  DEF SignInSubmit, Begin, tokenVars, onlyPages, FaultOrNot
<1>2. CASE SignUpSubmit(t, u)
  BY <1>2, FormTyped, SameTyped, TaskBase
  DEF SignUpSubmit, Begin, tokenVars, onlyPages, FaultOrNot
<1>3. CASE UserCreated(t)
  <2> DEFINE k == [task[t] EXCEPT !.phase = "signin"]
  <2>1. k \in Task /\ k.id = task[t].id /\ task' = [task EXCEPT ![t] = k]
    BY <1>3, TabTyped DEF UserCreated, Task, Base, TypeOK
  <2>2. accounts' \subseteq User
    <3>1. task[t].who \in User
      BY <1>3 DEF UserCreated, Named
    <3> QED
      BY <1>3, <3>1 DEF UserCreated, Base, TypeOK
  <2> HIDE DEF k
  <2> QED
    BY <1>3, <2>1, <2>2, SameTyped, TaskBase DEF UserCreated, tokenVars, FaultOrNot
<1>4. CASE FormFails(t)
  <2>1. FaultOrNot /\ task' = [task EXCEPT ![t] = NoTask]
    BY <1>4 DEF FormFails, FaultOrNot
  <2>2. NoTask \in Task /\ NoTask.id = 0
    BY TokensAreTyped DEF NoTask
  <2> QED
    BY <1>4, <2>1, <2>2, SameTyped, TaskBase DEF FormFails, tokenVars
<1> QED
  BY <1>1, <1>2, <1>3, <1>4

\* signIn answers: a new token for the form's user.
LEMMA SignInAnsweredBase ==
    ASSUME Base, Named, NEW t \in Tab, SignInAnswered(t)
    PROVE  Base'
<1> DEFINE u == task[t].who
           a == [user |-> u, live |-> TRUE]
           k == [task[t] EXCEPT !.phase = "me", !.who = NoUser]
           c == [pc |-> "sent", token |-> a]
<1>1. /\ task[t].phase = "signin" /\ NewId \in Ids
      /\ accounts' = accounts \union {u}
      /\ Issue(u)
      /\ valid' = valid \union {NewId}
      /\ cookie' = NewId
      /\ setAccessToken(t, a)
      /\ call' = [call EXCEPT ![t]["task"] = c]
      /\ mixed' = (mixed \union Strangers(u)) \ {t}
      /\ exit' = "none"
      /\ UNCHANGED <<refresh, scene, faults, page, user, ready, inst, oauth, param, flows,
                     uses, lost>>
  BY DEF SignInAnswered
<1>2. task' = [task EXCEPT ![t] = k] /\ k \in Task /\ k.id = task[t].id
  BY TabTyped DEF SignInAnswered, Task, Base, TypeOK
<1>3. u \in User
  BY <1>1 DEF Named
<1>4. a \in AccessToken
  BY <1>3, TokensAreTyped
<1>5. c \in Call
  BY <1>4 DEF Call
<1>6. /\ issued' \in Seq(User) /\ Len(issued') = Len(issued) + 1 /\ Len(issued') = NewId
      /\ Len(issued') <= MaxTokens /\ Len(issued) \in Nat
  BY <1>1, <1>3, IssueTyped DEF Base, TypeOK, TokensTypeOK
<1>7. /\ token' \in [Tab -> AccessToken] /\ stored' \in [Tab -> AccessToken]
  BY <1>1, <1>4 DEF setAccessToken, Base, TypeOK, TokensTypeOK
<1>8. call' \in [Tab -> [Slot -> Call]]
  BY <1>1, <1>5 DEF Slot, Base, TypeOK, TokensTypeOK
<1> HIDE DEF u, a, k, c
<1>9. /\ mixed' \subseteq Tab /\ accounts' \subseteq User /\ task' \in [Tab -> Task]
      /\ exit' \in {"none", "alone", "overtaken"}
  BY <1>1, <1>2, <1>3 DEF Strangers, Base, TypeOK
<1>10. valid' \subseteq Ids /\ cookie' \in 0..MaxTokens
  BY <1>1, MaxTokensAssumption DEF Ids, Base, TypeOK, TokensTypeOK
<1>11. TypeOK'
  BY <1>1, <1>6, <1>7, <1>8, <1>9, <1>10 DEF Base, TypeOK, TokensTypeOK
<1>12. valid' \subseteq 1..Len(issued')
  <2>1. Len(issued') \in 1..Len(issued') /\ 1..Len(issued) \subseteq 1..Len(issued')
    BY <1>6
  <2> QED
    BY <1>1, <1>6, <2>1 DEF Base, Numbers
<1>13. task[t].id <= Len(issued) /\ refresh[t].id <= Len(issued) /\ refresh[t].id \in Nat /\ task[t].id \in Nat
  BY TabTyped DEF Base, Numbers, Task, Refresh
<1>14. /\ Len(issued') \in Nat /\ Len(issued) <= Len(issued')
       /\ cookie' <= Len(issued') /\ refresh[t].id <= Len(issued') /\ k.id <= Len(issued')
  BY <1>1, <1>2, <1>6, <1>13
<1>15. /\ refresh' = [refresh EXCEPT ![t] = refresh[t]] /\ refresh[t] \in Refresh
       /\ refresh[t].pc = "rotated" => refresh[t].id # 0
       /\ refresh[t].pc = "none" => refresh[t] = NoRefresh
  BY <1>1, SameTab, TabTyped
<1>16. Numbers'
  BY <1>2, <1>12, <1>14, <1>15, NumbersKept
<1> QED
  BY <1>11, <1>16 DEF Base

\* Navigation and queries.
LEMMA DataBase ==
    ASSUME Base, NEW t \in Tab, NEW p \in Pages,
           Navigate(t, p) \/ DataCall(t) \/ DataAnswered(t)
    PROVE  Base'
<1>1. task' = [task EXCEPT ![t] = task[t]] /\ task[t] \in Task
  BY SameTab, TabTyped DEF Navigate, DataCall, DataAnswered
<1>2. CASE Navigate(t, p)
  <2>1. page' \in [Tab -> Page]
    BY <1>2, SameTyped DEF Navigate, Page, Pages
  <2> QED
    BY <1>1, <1>2, <2>1, SameTyped, TaskBase DEF Navigate, tokenVars, onlyPages, FaultOrNot
<1>3. CASE DataCall(t)
  <2>1. /\ token' \in [Tab -> AccessToken] /\ stored' \in [Tab -> AccessToken]
        /\ call' \in [Tab -> [Slot -> Call]]
    BY <1>3, SendTyped DEF DataCall, Slot
  <2> QED
    BY <1>1, <1>3, <2>1, SameTyped, TaskBase DEF DataCall, onlyPages, FaultOrNot
<1>4. CASE DataAnswered(t)
  <2>1. call' \in [Tab -> [Slot -> Call]]
    BY <1>4, SameTyped, TokensAreTyped DEF DataAnswered, Slot
  <2> QED
    BY <1>1, <1>4, <2>1, SameTyped, TaskBase DEF DataAnswered, onlyPages, FaultOrNot
<1> QED
  BY <1>2, <1>3, <1>4

\* UserMenu signs out with the cookie of the moment.
LEMMA SignOutBase ==
    ASSUME Base, NEW t \in Tab, SignOut(t)
    PROVE  Base'
<1> DEFINE k == [phase |-> "signout", from |-> "load", who |-> user[t], id |-> cookie]
<1>1. k \in Task /\ k.id = cookie /\ task' = [task EXCEPT ![t] = k]
  BY TabTyped DEF SignOut, Task, Base, TypeOK, TokensTypeOK
<1>2. /\ token' \in [Tab -> AccessToken] /\ stored' \in [Tab -> AccessToken]
      /\ call' \in [Tab -> [Slot -> Call]]
  BY SendTyped DEF SignOut, Slot
<1> HIDE DEF k
<1> QED
  BY <1>1, <1>2, SameTyped, TaskBase DEF SignOut, onlyPages, FaultOrNot

\* An OAuth flow starts, or its state grows old.
LEMMA OAuthBase ==
    ASSUME Base, NEW t \in Tab, StartOAuth(t) \/ OAuthExpires(t)
    PROVE  Base'
<1>1. CASE StartOAuth(t)
  <2>1. flows + 1 \in 0..MaxFlows
    BY <1>1, ScenePages, BoundsAssumption DEF StartOAuth, Base, TypeOK
  <2>2. /\ oauth' \in [Tab -> [id : 0..MaxFlows, old : BOOLEAN]]
        /\ param' \in [Tab -> 0..MaxFlows] /\ flows' \in 0..MaxFlows /\ page' \in [Tab -> Page]
    <3>1. [id |-> flows + 1, old |-> FALSE] \in [id : 0..MaxFlows, old : BOOLEAN]
      BY <2>1
    <3> QED
      BY <1>1, <2>1, <3>1, SameTyped DEF StartOAuth, Base, TypeOK, Page
  <2>3. UNCHANGED <<tokenVars, accounts, scene, faults, user, ready, inst, task, uses, exit,
                    mixed, lost>>
    BY <1>1 DEF StartOAuth
  <2>4. TypeOK'
    BY <2>2, <2>3 DEF Base, TypeOK, TokensTypeOK, tokenVars, Page
  <2> QED
    BY <2>3, <2>4 DEF Base, Numbers, tokenVars
<1>2. CASE OAuthExpires(t)
  <2>1. task' = [task EXCEPT ![t] = task[t]] /\ task[t] \in Task
    BY <1>2, SameTab, TabTyped DEF OAuthExpires
  <2>2. oauth' \in [Tab -> [id : 0..MaxFlows, old : BOOLEAN]]
    BY <1>2, SameTyped DEF OAuthExpires
  <2> QED
    BY <1>2, <2>1, <2>2, SameTyped, TaskBase DEF OAuthExpires, onlyPages, tokenVars, FaultOrNot
<1> QED
  BY <1>1, <1>2

\* The callback page deals with its URL.
LEMMA CallbackBase ==
    ASSUME Base, NEW t \in Tab, NEW u \in User, Callback(t, u)
    PROVE  Base'
<1>1. page' \in [Tab -> Page]
  <2>1. Landing("message", inst[t]) \in Page
    BY TabTyped, LandingIsPage DEF Page, AuthPages
  <2> QED
    BY <2>1, SameTyped DEF Callback
<1>2. PICK k \in Task : task' = [task EXCEPT ![t] = k] /\ k.id \in {0, task[t].id}
  BY FormTyped, SameTab, TabTyped DEF Callback, Begin
<1>3. oauth' \in [Tab -> [id : 0..MaxFlows, old : BOOLEAN]]
  BY SameTyped, TokensAreTyped DEF Callback, StateLeft
<1>4. uses' \in [1..MaxFlows -> 0..2]
  BY SameTyped DEF Callback
<1>5. UNCHANGED <<tokenVars, accounts, scene, faults, user, ready, inst, param, flows, exit,
                  mixed, lost>>
  BY DEF Callback
<1> QED
  BY <1>1, <1>2, <1>3, <1>4, <1>5, SameTyped, TaskBase DEF tokenVars, FaultOrNot

\* Every step keeps the types and the numbers.
LEMMA StepBase ==
    ASSUME Base, Named, NEW t \in Tab, Kinds(t)
    PROVE  Base'
<1>1. CASE Reloads(t) \/ Settles(t) \/ DataFails(t) \/ InstanceReady(t)
  BY <1>1, ReloadBase, SettlesBase, DataFailsBase, InstanceReadyBase
<1>2. CASE MeAnswered(t) \/ SignOutAnswered(t) \/ RefreshAnswered(t)
  BY <1>2, MeAnsweredBase, SignOutAnsweredBase, RefreshAnsweredBase
<1>3. CASE TokenStep(t) \/ NoRefreshAnswer(t)
  BY <1>3, TokenStepBase
<1>4. CASE UserCreated(t) \/ FormFails(t)
  <2>1. PICK u \in User : TRUE
    <3>1. CASE UserCreated(t)
      BY <3>1 DEF UserCreated, Named
    <3>2. CASE FormFails(t)
      BY <3>2 DEF FormFails, Named
    <3> QED
      BY <1>4, <3>1, <3>2
  <2> QED
    BY <1>4, <2>1, FormBase
<1>5. CASE SignInAnswered(t)
  BY <1>5, SignInAnsweredBase
<1>6. CASE (\E p \in Pages : Navigate(t, p)) \/ DataCall(t) \/ DataAnswered(t)
  <2>1. "root" \in Pages
    BY DEF Pages, RootPages
  <2> QED
    BY <1>6, <2>1, DataBase
<1>7. CASE \E u \in User : SignInSubmit(t, u) \/ SignUpSubmit(t, u) \/ Callback(t, u)
  BY <1>7, FormBase, CallbackBase
<1>8. CASE SignOut(t)
  BY <1>8, SignOutBase
<1>9. CASE StartOAuth(t) \/ OAuthExpires(t)
  BY <1>9, OAuthBase
<1> QED
  BY <1>1, <1>2, <1>3, <1>4, <1>5, <1>6, <1>7, <1>8, <1>9 DEF Kinds

\* Every step keeps the forms' users named.
LEMMA StepNamed ==
    ASSUME Base, Named, NEW t \in Tab, Kinds(t)
    PROVE  Named'
<1> USE DEF Named, Base, TypeOK, NoTask
<1>1. CASE Reloads(t)
  BY <1>1 DEF Reloads, Load
<1>2. CASE Settles(t)
  BY <1>2 DEF Settles
<1>3. CASE DataFails(t) \/ InstanceReady(t)
  BY <1>3 DEF DataFails, InstanceReady
<1>4. CASE MeAnswered(t)
  BY <1>4, TabTyped DEF MeAnswered, Task
<1>5. CASE SignOutAnswered(t)
  BY <1>5 DEF SignOutAnswered, LoggedOut, Load
<1>6. CASE RefreshAnswered(t)
  BY <1>6, TabTyped DEF RefreshAnswered, Task
<1>7. CASE TokenStep(t) \/ NoRefreshAnswer(t)
  BY <1>7 DEF TokenStep, NoRefreshAnswer
<1>8. CASE UserCreated(t)
  BY <1>8, TabTyped DEF UserCreated, Task
<1>9. CASE SignInAnswered(t)
  BY <1>9, TabTyped DEF SignInAnswered, Task
<1>10. CASE FormFails(t)
  BY <1>10 DEF FormFails
<1>11. CASE (\E p \in Pages : Navigate(t, p)) \/ DataCall(t) \/ DataAnswered(t)
  BY <1>11 DEF Navigate, DataCall, DataAnswered
<1>12. CASE \E u \in User : SignInSubmit(t, u) \/ SignUpSubmit(t, u) \/ Callback(t, u)
  <2>1. PICK u \in User : SignInSubmit(t, u) \/ SignUpSubmit(t, u) \/ Callback(t, u)
    BY <1>12
  <2>2. CASE task' = task
    BY <2>2
  <2>3. CASE \E phase, from : Begin(t, phase, from, u)
    BY <2>3 DEF Begin
  <2> QED
    BY <2>1, <2>2, <2>3 DEF SignInSubmit, SignUpSubmit, Callback
<1>13. CASE SignOut(t)
  BY <1>13 DEF SignOut
<1>14. CASE StartOAuth(t) \/ OAuthExpires(t)
  BY <1>14 DEF StartOAuth, OAuthExpires
<1> QED
  BY <1>1, <1>2, <1>3, <1>4, <1>5, <1>6, <1>7, <1>8, <1>9, <1>10, <1>11, <1>12, <1>13, <1>14
  DEF Kinds

\* They hold at first.
LEMMA InitBase ==
    ASSUME Init
    PROVE  Base /\ Named
<1>1. scene \in Scenario
  BY ScenariosAssumption DEF Init
<1>2. /\ scene.session \in User \union {NoUser} /\ scene.accounts \subseteq User
  BY <1>1 DEF Scenario
<1>3. /\ issued \in Seq(User) /\ Len(issued) <= MaxTokens /\ Len(issued) \in Nat
      /\ valid = 1..Len(issued) /\ cookie = Len(issued) /\ valid \subseteq Ids
      /\ cookie \in 0..MaxTokens
  <2>1. CASE scene.session = NoUser
    BY <2>1, MaxTokensAssumption DEF Init, TokensInit, Ids
  <2>2. CASE scene.session \in User
    <3>1. issued = <<scene.session>> /\ valid = DOMAIN issued /\ cookie = Len(issued)
      BY <2>2, NoUserAssumption DEF Init, TokensInit
    <3>2. issued \in Seq(User) /\ Len(issued) = 1
      BY <2>2, <3>1
    <3>3. valid = 1..Len(issued)
      BY <3>1, <3>2
    <3> QED
      BY <3>1, <3>2, <3>3, MaxTokensAssumption DEF Ids
  <2> QED
    BY <1>2, <2>1, <2>2
<1>4. TokensTypeOK
  BY <1>3, TokensAreTyped DEF Init, TokensInit, TokensTypeOK
<1>5. TypeOK
  <2>1. task \in [Tab -> Task] /\ oauth \in [Tab -> [id : 0..MaxFlows, old : BOOLEAN]]
    BY TokensAreTyped DEF Init
  <2>2. faults \in 0..MaxFaults /\ flows \in 0..MaxFlows /\ param \in [Tab -> 0..MaxFlows]
    BY BoundsAssumption DEF Init
  <2> QED
    <3>1. /\ page \in [Tab -> AuthPages \union RootPages \union {"unopened", "away"}]
          /\ user \in [Tab -> User \union {NoUser}] /\ ready \in [Tab -> BOOLEAN]
          /\ inst \in [Tab -> Inst]
      BY DEF Init, Inst
    <3>2. uses \in [1..MaxFlows -> 0..2]
      BY DEF Init
    <3>3. /\ accounts \subseteq User /\ scene \in Scenarios /\ mixed \subseteq Tab
          /\ lost \in BOOLEAN /\ exit \in {"none", "alone", "overtaken"}
      BY <1>2 DEF Init
    <3> QED
      BY <1>4, <2>1, <2>2, <3>1, <3>2, <3>3 DEF TypeOK
<1>6. Numbers
  BY <1>3 DEF Init, TokensInit, Numbers, NoRefresh, NoTask
<1>7. Named
  BY DEF Init, Named, NoTask
<1> QED
  BY <1>5, <1>6, <1>7 DEF Base

\* A stutter keeps them.
LEMMA BaseStutter ==
    ASSUME Base, Named, UNCHANGED vars
    PROVE  Base' /\ Named'
  BY DEF Base, Named, vars, tokenVars, TypeOK, TokensTypeOK, Numbers

\* The types, the numbers and the forms' users hold in every state of every
\* behaviour.
THEOREM BaseHolds == Spec => [](Base /\ Named)
<1>1. Base /\ Named /\ [Next]_vars => (Base /\ Named)'
  <2>1. ASSUME Base, Named, Next
        PROVE  (Base /\ Named)'
    BY <2>1, StepKinds, StepBase, StepNamed DEF Base
  <2> QED
    BY <2>1, BaseStutter
<1> QED
  BY <1>1, InitBase, PTL DEF Spec

\* The states of the session stay within their types: numbers, names, tokens
\* and tasks, of every tab.
THEOREM SessionTyped == Spec => []TypeOK
<1>1. Base => TypeOK
  BY DEF Base
<1> QED
  BY <1>1, BaseHolds, PTL

(***************************************************************************)
(* The session is kept                                                     *)
(***************************************************************************)

\* A step that neither the server's tokens nor the cookie depend on: the tab's
\* refresh starts, fails or ends, its task begins or ends.
Quiet(t) ==
    /\ UNCHANGED <<issued, valid, cookie, lost, exit>>
    /\ \E r \in Refresh :
           /\ refresh' = [refresh EXCEPT ![t] = r]
           /\ \/ r = refresh[t]
              \/ /\ refresh[t].pc # "rotated" /\ r.pc # "rotated"
                 /\ r.id \in {0, cookie, refresh[t].id}
    /\ \E k \in Task :
           /\ task' = [task EXCEPT ![t] = k]
           /\ k.id \in {0, cookie, task[t].id}

\* A quiet step keeps the session.
LEMMA QuietSession ==
    ASSUME Base, SessionInv, NEW t \in Tab, Quiet(t)
    PROVE  SessionInv'
<1>1. PICK r \in Refresh :
          /\ refresh' = [refresh EXCEPT ![t] = r]
          /\ \/ r = refresh[t]
             \/ /\ refresh[t].pc # "rotated" /\ r.pc # "rotated"
                /\ r.id \in {0, cookie, refresh[t].id}
  BY DEF Quiet
<1>2. PICK k \in Task : /\ task' = [task EXCEPT ![t] = k]
                        /\ k.id \in {0, cookie, task[t].id}
  BY DEF Quiet
<1>3. UNCHANGED <<issued, valid, cookie, lost, exit>>
  BY DEF Quiet
<1>4. refresh \in [Tab -> Refresh] /\ task \in [Tab -> Task]
  BY DEF Base, TypeOK, TokensTypeOK
<1>5. \A x \in Tab : /\ refresh'[x] = IF x = t THEN r ELSE refresh[x]
                     /\ task'[x] = IF x = t THEN k ELSE task[x]
  BY <1>1, <1>2, <1>4
<1>6. \A x \in Tab : refresh'[x].pc = "rotated" <=> refresh[x].pc = "rotated"
  BY <1>1, <1>5
<1>7. SessionKept'
  BY <1>3, <1>6 DEF SessionInv, SessionKept
<1>8. Undelivered'
  <2>1. SUFFICES ASSUME NEW x \in Tab, refresh'[x].pc = "rotated"
                 PROVE  /\ refresh'[x].id \in valid
                        /\ refresh'[x].id # cookie
                        /\ \A y \in Tab : /\ task'[y].id # refresh'[x].id
                                          /\ y # x => refresh'[y].id # refresh'[x].id
    BY <1>3 DEF Undelivered
  <2>2. refresh[x].pc = "rotated" /\ refresh'[x] = refresh[x]
    BY <1>1, <1>5, <1>6, <2>1
  <2>3. /\ refresh[x].id \in valid /\ refresh[x].id # cookie /\ refresh[x].id # 0
        /\ \A y \in Tab : /\ task[y].id # refresh[x].id
                          /\ y # x => refresh[y].id # refresh[x].id
    BY <2>2 DEF SessionInv, Undelivered, Base, Numbers
  <2> QED
    BY <1>1, <1>2, <1>5, <2>2, <2>3
<1>9. Nobody'
  BY <1>1, <1>3, <1>5 DEF SessionInv, Nobody
<1> QED
  BY <1>7, <1>8, <1>9 DEF SessionInv

\* A step that changes neither refresh nor task is quiet.
LEMMA SameQuiet ==
    ASSUME Base, NEW t \in Tab, UNCHANGED <<issued, valid, cookie, lost, exit, refresh, task>>
    PROVE  Quiet(t)
  BY SameTab, TabTyped DEF Quiet

\* What a step of the task alone needs.
LEMMA TaskQuiet ==
    ASSUME Base, NEW t \in Tab, NEW k \in Task, task' = [task EXCEPT ![t] = k],
           k.id \in {0, cookie, task[t].id},
           UNCHANGED <<issued, valid, cookie, lost, exit, refresh>>
    PROVE  Quiet(t)
  BY SameTab, TabTyped DEF Quiet

\* Giving up calls is quiet.
LEMMA GivesUpQuiet ==
    ASSUME Base, NEW t \in Tab, GivesUp(t), NEW k \in Task, task' = [task EXCEPT ![t] = k],
           k.id \in {0, task[t].id}
    PROVE  Quiet(t)
<1>1. \E r \in Refresh :
          /\ refresh' = [refresh EXCEPT ![t] = r]
          /\ \/ r = refresh[t]
             \/ /\ refresh[t].pc # "rotated" /\ r.pc # "rotated"
                /\ r.id \in {0, cookie, refresh[t].id}
  <2>1. CASE refresh' = refresh
    BY <2>1, SameTab, TabTyped
  <2>2. CASE refresh[t].pc = "refused" /\ refresh' = [refresh EXCEPT ![t] = NoRefresh]
    BY <2>2, TokensAreTyped DEF NoRefresh
  <2> QED
    BY <2>1, <2>2 DEF GivesUp
<1> QED
  BY <1>1 DEF Quiet, GivesUp

\* Every step but a load, a rotation, and the answers to refresh, sign-in and
\* sign-out is quiet.
LEMMA QuietKinds ==
    ASSUME Base, Named, NEW t \in Tab, Kinds(t)
    PROVE  \/ Quiet(t) \/ Reloads(t) \/ SignOutAnswered(t) \/ RefreshAnswered(t)
           \/ SignInAnswered(t)
           \/ Rotate(t) /\ UNCHANGED <<lost, exit, task>>
<1>1. CASE Settles(t)
  BY <1>1, GivesUpQuiet, TokensAreTyped DEF Settles, NoTask
<1>2. CASE DataFails(t)
  <2>1. GivesUp(t) /\ task' = [task EXCEPT ![t] = task[t]] /\ task[t] \in Task
    BY <1>2, SameTab, TabTyped DEF DataFails
  <2> QED
    BY <2>1, GivesUpQuiet
<1>3. CASE InstanceReady(t)
  BY <1>3, SameQuiet DEF InstanceReady, tokenVars
<1>4. CASE MeAnswered(t)
  <2> DEFINE k == [task[t] EXCEPT !.phase = "settings", !.who = call[t]["task"].token.user]
  <2>1. call[t]["task"].token.user \in User \union {NoUser}
    BY TabTyped, LiveNames DEF Call, Slot
  <2>2. k \in Task /\ k.id = task[t].id /\ task' = [task EXCEPT ![t] = k]
    BY <1>4, <2>1, TabTyped DEF MeAnswered, Task, Base, TypeOK
  <2> HIDE DEF k
  <2> QED
    BY <1>4, <2>2, TaskQuiet DEF MeAnswered
<1>5. CASE TokenStep(t)
  <2>1. CASE TokenExpires(t)
    BY <1>5, <2>1, SameQuiet DEF TokenStep, TokenExpires
  <2>2. CASE \E s \in Slot : Unauthorized(t, s)
    <3>1. UNCHANGED <<issued, valid, cookie, lost, exit, task>>
      BY <1>5, <2>2 DEF TokenStep, Unauthorized
    <3>2. CASE refresh' = refresh
      BY <3>1, <3>2, SameQuiet
    <3>3. CASE /\ refresh[t].pc = "none"
               /\ refresh' = [refresh EXCEPT ![t] = [pc |-> "sent", id |-> cookie]]
      <4>1. [pc |-> "sent", id |-> cookie] \in Refresh
        BY DEF Refresh, Base, TypeOK, TokensTypeOK
      <4> QED
        BY <3>1, <3>3, <4>1, SameTab, TabTyped DEF Quiet
    <3> QED
      BY <2>2, <3>2, <3>3 DEF Unauthorized
  <2>3. CASE Rotate(t)
    BY <1>5, <2>3 DEF TokenStep
  <2> QED
    BY <1>5, <2>1, <2>2, <2>3 DEF TokenStep
<1>6. CASE NoRefreshAnswer(t)
  <2> DEFINE r == [refresh[t] EXCEPT !.pc = "refused"]
  <2>1. r \in Refresh /\ r.id = refresh[t].id /\ r.pc = "refused" /\ refresh[t].pc = "sent"
    BY <1>6, TabTyped DEF Refresh, NoRefreshAnswer, RefreshLost
  <2>2. /\ refresh' = [refresh EXCEPT ![t] = r]
        /\ UNCHANGED <<issued, valid, cookie, lost, exit, task>>
    BY <1>6 DEF NoRefreshAnswer, RefreshLost, Base, TypeOK, TokensTypeOK
  <2> HIDE DEF r
  <2> QED
    BY <2>1, <2>2, SameTab, TabTyped DEF Quiet
<1>7. CASE UserCreated(t)
  <2> DEFINE k == [task[t] EXCEPT !.phase = "signin"]
  <2>1. k \in Task /\ k.id = task[t].id /\ task' = [task EXCEPT ![t] = k]
    BY <1>7, TabTyped DEF UserCreated, Task, Base, TypeOK
  <2> HIDE DEF k
  <2> QED
    BY <1>7, <2>1, TaskQuiet DEF UserCreated, tokenVars
<1>8. CASE FormFails(t)
  BY <1>8, TaskQuiet, TokensAreTyped DEF FormFails, tokenVars, NoTask
<1>9. CASE (\E p \in Pages : Navigate(t, p)) \/ DataCall(t) \/ DataAnswered(t)
  BY <1>9, SameQuiet DEF Navigate, DataCall, DataAnswered, tokenVars, onlyPages
<1>10. CASE \E u \in User : SignInSubmit(t, u) \/ SignUpSubmit(t, u)
  BY <1>10, FormTyped, TaskQuiet DEF SignInSubmit, SignUpSubmit, Begin, tokenVars, onlyPages
<1>11. CASE \E u \in User : Callback(t, u)
  <2>1. PICK u \in User : Callback(t, u)
    BY <1>11
  <2>2. \E k \in Task : task' = [task EXCEPT ![t] = k] /\ k.id \in {0, task[t].id}
    BY <2>1, FormTyped, SameTab, TabTyped DEF Callback, Begin
  <2> QED
    BY <2>1, <2>2, TaskQuiet DEF Callback, tokenVars
<1>12. CASE SignOut(t)
  <2> DEFINE k == [phase |-> "signout", from |-> "load", who |-> user[t], id |-> cookie]
  <2>1. k \in Task /\ k.id = cookie /\ task' = [task EXCEPT ![t] = k]
    BY <1>12, TabTyped DEF SignOut, Task, Base, TypeOK, TokensTypeOK
  <2> HIDE DEF k
  <2> QED
    BY <1>12, <2>1, TaskQuiet DEF SignOut, onlyPages
<1>13. CASE StartOAuth(t) \/ OAuthExpires(t)
  BY <1>13, SameQuiet DEF StartOAuth, OAuthExpires, tokenVars, onlyPages
<1> QED
  BY <1>1, <1>2, <1>3, <1>4, <1>5, <1>6, <1>7, <1>8, <1>9, <1>10, <1>11, <1>12, <1>13
  DEF Kinds

\* A page load: the answer it drops is recorded, or still sets the cookie.
LEMMA ReloadSession ==
    ASSUME Base, SessionInv, NEW t \in Tab, Reloads(t)
    PROVE  SessionInv'
<1>1. /\ Unload(t) /\ UNCHANGED exit
      /\ refresh' = [refresh EXCEPT ![t] = NoRefresh]
      /\ task' = [task EXCEPT ![t] = [NoTask EXCEPT !.phase = "me"]]
  BY DEF Reloads, Load
<1>2. refresh \in [Tab -> Refresh] /\ task \in [Tab -> Task]
  BY DEF Base, TypeOK, TokensTypeOK
<1>3. /\ \A x \in Tab : /\ refresh'[x] = IF x = t THEN NoRefresh ELSE refresh[x]
                        /\ task'[x].id = IF x = t THEN 0 ELSE task[x].id
      /\ NoRefresh.pc # "rotated" /\ NoRefresh.id = 0
  BY <1>1, <1>2 DEF NoTask, NoRefresh
<1>4. ASSUME NEW x \in Tab, x # t, refresh[x].pc = "rotated"
      PROVE  /\ refresh[x].id \in valid /\ refresh[x].id # cookie /\ refresh[x].id # 0
             /\ refresh[x].id \in Nat /\ refresh[x].id <= Len(issued)
             /\ \A y \in Tab : /\ task[y].id # refresh[x].id
                               /\ y # x => refresh[y].id # refresh[x].id
  BY <1>4, TabTyped DEF SessionInv, Undelivered, Base, Numbers, Refresh
<1>5. CASE /\ lost' = (lost \/ refresh[t].pc = "rotated")
           /\ UNCHANGED <<issued, valid, cookie>>
  <2>1. SessionKept'
    BY <1>3, <1>5 DEF SessionInv, SessionKept
  <2>2. Undelivered'
    BY <1>3, <1>4, <1>5 DEF Undelivered
  <2>3. Nobody'
    BY <1>1, <1>3, <1>5 DEF SessionInv, Nobody
  <2> QED
    BY <2>1, <2>2, <2>3 DEF SessionInv
<1>6. CASE /\ refresh[t].id \in valid
           /\ Issue(issued[refresh[t].id])
           /\ valid' = (valid \ {refresh[t].id}) \union {NewId}
           /\ lost' = TRUE /\ UNCHANGED cookie
  <2>1. SessionKept'
    BY <1>6 DEF SessionKept
  <2>2. Undelivered'
    <3>1. \A x \in Tab : x # t /\ refresh[x].pc = "rotated" => refresh[x].id # refresh[t].id
      BY <1>4
    <3> QED
      BY <1>3, <1>4, <1>6, <3>1 DEF Undelivered
  <2>3. Nobody'
    <3>1. refresh[t].id # 0
      BY <1>6 DEF Base, Numbers
    <3> QED
      BY <1>1, <3>1 DEF SessionInv, Nobody
  <2> QED
    BY <2>1, <2>2, <2>3 DEF SessionInv
<1>7. CASE /\ refresh[t].pc = "rotated"
           /\ cookie' = refresh[t].id
           /\ UNCHANGED <<issued, valid, lost>>
  <2>1. SessionKept'
    BY <1>7 DEF SessionInv, SessionKept, Undelivered
  <2>2. Undelivered'
    <3>1. \A x \in Tab : x # t /\ refresh[x].pc = "rotated" => refresh[x].id # refresh[t].id
      BY <1>4
    <3> QED
      BY <1>3, <1>4, <1>7, <3>1 DEF Undelivered
  <2>3. Nobody'
    BY <1>1, <1>7 DEF SessionInv, Nobody, Base, Numbers
  <2> QED
    BY <2>1, <2>2, <2>3 DEF SessionInv
<1> QED
  BY <1>1, <1>5, <1>6, <1>7 DEF Unload

\* A rotation: the number is new, so no cookie, refresh or sign-out names it.
LEMMA RotateSession ==
    ASSUME Base, SessionInv, NEW t \in Tab, Rotate(t), UNCHANGED <<lost, exit, task>>
    PROVE  SessionInv'
<1>1. CASE refresh[t].id \in valid /\ NewId \in Ids
  <2> DEFINE r == [pc |-> "rotated", id |-> NewId]
  <2>1. /\ valid' = (valid \ {refresh[t].id}) \union {NewId}
        /\ refresh' = [refresh EXCEPT ![t] = r]
        /\ refresh[t].pc = "sent" /\ UNCHANGED cookie
    BY <1>1 DEF Rotate
  <2>2. r.pc = "rotated" /\ r.id = NewId
    OBVIOUS
  <2> HIDE DEF r
  <2>3. \A x \in Tab : refresh'[x] = IF x = t THEN r ELSE refresh[x]
    BY <2>1 DEF Base, TypeOK, TokensTypeOK
  <2>4. \A x \in Tab : refresh[x].id < NewId /\ task[x].id < NewId
    <3>1. ASSUME NEW x \in Tab
          PROVE  /\ refresh[x].id \in Nat /\ refresh[x].id <= Len(issued)
                 /\ task[x].id \in Nat /\ task[x].id <= Len(issued)
      BY TabTyped DEF Base, Numbers, Refresh, Task
    <3>2. Len(issued) \in Nat
      BY DEF Base, TypeOK, TokensTypeOK
    <3> QED
      BY <3>1, <3>2 DEF NewId
  <2>5. cookie < NewId /\ NewId \in Nat
    BY <1>1, MaxTokensAssumption DEF Base, TypeOK, TokensTypeOK, Numbers, NewId, Ids
  <2>6. SessionKept'
    BY <2>2, <2>3 DEF SessionKept
  <2>7. Undelivered'
    <3>1. ASSUME NEW x \in Tab, refresh'[x].pc = "rotated", x # t
          PROVE  /\ refresh'[x].id \in valid' /\ refresh'[x].id # cookie'
                 /\ \A y \in Tab : /\ task'[y].id # refresh'[x].id
                                   /\ y # x => refresh'[y].id # refresh'[x].id
      <4>1. refresh'[x] = refresh[x] /\ refresh[x].pc = "rotated"
        BY <2>3, <3>1
      <4>2. /\ refresh[x].id \in valid /\ refresh[x].id # cookie
            /\ \A y \in Tab : /\ task[y].id # refresh[x].id
                              /\ y # x => refresh[y].id # refresh[x].id
        BY <4>1 DEF SessionInv, Undelivered
      <4>3. refresh[x].id # NewId
        BY <2>4, <2>5, TabTyped DEF Refresh
      <4> QED
        BY <2>1, <2>2, <2>3, <3>1, <4>1, <4>2, <4>3
    <3>2. /\ refresh'[t].id \in valid' /\ refresh'[t].id # cookie'
          /\ \A y \in Tab : /\ task'[y].id # refresh'[t].id
                            /\ y # t => refresh'[y].id # refresh'[t].id
      <4>1. \A y \in Tab : task[y].id # NewId /\ refresh[y].id # NewId
        BY <2>4, <2>5, TabTyped DEF Refresh, Task
      <4>2. cookie # NewId
        BY <2>5 DEF Base, TypeOK, TokensTypeOK
      <4> QED
        BY <2>1, <2>2, <2>3, <4>1, <4>2
    <3> QED
      BY <3>1, <3>2 DEF Undelivered
  <2>8. Nobody'
    <3>1. refresh[t].id # 0
      BY <1>1 DEF Base, Numbers
    <3> QED
      BY <3>1 DEF SessionInv, Nobody
  <2> QED
    BY <2>6, <2>7, <2>8 DEF SessionInv
<1>2. CASE ~(refresh[t].id \in valid /\ NewId \in Ids)
  <2> DEFINE r == [refresh[t] EXCEPT !.pc = "refused"]
  <2>1. r \in Refresh /\ r.id = refresh[t].id /\ r.pc = "refused" /\ refresh[t].pc = "sent"
    BY TabTyped DEF Refresh, Rotate
  <2>2. refresh' = [refresh EXCEPT ![t] = r] /\ UNCHANGED <<issued, valid, cookie>>
    BY <1>2 DEF Rotate, Base, TypeOK, TokensTypeOK
  <2> HIDE DEF r
  <2>3. Quiet(t)
    BY <2>1, <2>2, SameTab, TabTyped DEF Quiet
  <2> QED
    BY <2>3, QuietSession
<1> QED
  BY <1>1, <1>2

\* The answer delivers a token the server accepts.
LEMMA RefreshAnsweredSession ==
    ASSUME Base, SessionInv, NEW t \in Tab, RefreshAnswered(t)
    PROVE  SessionInv'
<1>1. /\ refresh[t].pc = "rotated" /\ cookie' = refresh[t].id
      /\ refresh' = [refresh EXCEPT ![t] = NoRefresh]
      /\ task' = IF task[t].phase = "signout" /\ call[t]["task"].pc = "waiting"
                 THEN [task EXCEPT ![t].id = refresh[t].id] ELSE task
      /\ UNCHANGED <<valid, exit>>
  BY DEF RefreshAnswered, refreshAccessToken
<1>2. \A x \in Tab : refresh'[x] = IF x = t THEN NoRefresh ELSE refresh[x]
  BY <1>1 DEF Base, TypeOK, TokensTypeOK
<1>3. \A x \in Tab : task'[x].id = task[x].id \/ task'[x].id = refresh[t].id
  BY <1>1, TabTyped DEF Base, TypeOK, Task
<1>4. NoRefresh.pc # "rotated" /\ NoRefresh.id = 0
  BY DEF NoRefresh
<1>5. SessionKept'
  BY <1>1 DEF SessionInv, Undelivered, SessionKept
<1>6. Undelivered'
  <2>1. ASSUME NEW x \in Tab, refresh'[x].pc = "rotated"
        PROVE  /\ refresh'[x].id \in valid' /\ refresh'[x].id # cookie'
               /\ \A y \in Tab : /\ task'[y].id # refresh'[x].id
                                 /\ y # x => refresh'[y].id # refresh'[x].id
    <3>1. x # t /\ refresh'[x] = refresh[x] /\ refresh[x].pc = "rotated"
      BY <1>2, <1>4, <2>1
    <3>2. /\ refresh[x].id \in valid /\ refresh[x].id # cookie /\ refresh[x].id # 0
          /\ \A y \in Tab : /\ task[y].id # refresh[x].id
                            /\ y # x => refresh[y].id # refresh[x].id
      BY <3>1 DEF SessionInv, Undelivered, Base, Numbers
    <3> QED
      BY <1>1, <1>2, <1>3, <1>4, <3>1, <3>2
  <2> QED
    BY <2>1 DEF Undelivered
<1>7. Nobody'
  BY <1>1 DEF SessionInv, Nobody, Base, Numbers
<1> QED
  BY <1>5, <1>6, <1>7 DEF SessionInv

\* A sign-in issues a token and sets it.
LEMMA SignInAnsweredSession ==
    ASSUME Base, SessionInv, NEW t \in Tab, SignInAnswered(t)
    PROVE  SessionInv'
<1>1. /\ valid' = valid \union {NewId} /\ cookie' = NewId /\ exit' = "none"
      /\ task' = [task EXCEPT ![t].phase = "me", ![t].who = NoUser]
      /\ UNCHANGED refresh
  BY DEF SignInAnswered
<1>2. \A x \in Tab : task'[x].id = task[x].id
  BY <1>1, TabTyped DEF Task, Base, TypeOK
<1>3. \A x \in Tab : refresh[x].id # NewId
  <2>1. ASSUME NEW x \in Tab
        PROVE  refresh[x].id # NewId
    <3>1. refresh[x].id \in Nat /\ refresh[x].id <= Len(issued)
      BY TabTyped DEF Base, Numbers, Refresh
    <3>2. Len(issued) \in Nat
      BY DEF Base, TypeOK, TokensTypeOK
    <3> QED
      BY <3>1, <3>2 DEF NewId
  <2> QED
    BY <2>1
<1>4. SessionKept'
  BY <1>1 DEF SessionKept
<1>5. Undelivered'
  BY <1>1, <1>2, <1>3 DEF SessionInv, Undelivered
<1>6. Nobody'
  BY <1>1 DEF Nobody
<1> QED
  BY <1>4, <1>5, <1>6 DEF SessionInv

\* A sign-out revokes what it sent, which is no answer under way.
LEMMA SignOutAnsweredSession ==
    ASSUME Base, SessionInv, NEW t \in Tab, SignOutAnswered(t)
    PROVE  SessionInv'
<1>1. /\ valid' = valid \ {task[t].id} /\ cookie' = 0
      /\ exit' = IF \A x \in Tab : refresh[x].pc = "none" THEN "alone" ELSE "overtaken"
      /\ refresh' = [refresh EXCEPT ![t] = NoRefresh]
      /\ task' = [task EXCEPT ![t] = [NoTask EXCEPT !.phase = "me"]]
  BY DEF SignOutAnswered, LoggedOut, Load
<1>2. /\ \A x \in Tab : /\ refresh'[x] = IF x = t THEN NoRefresh ELSE refresh[x]
                        /\ task'[x].id = IF x = t THEN 0 ELSE task[x].id
      /\ NoRefresh.pc # "rotated" /\ NoRefresh.id = 0
  BY <1>1 DEF NoTask, NoRefresh, Base, TypeOK, TokensTypeOK
<1>3. SessionKept'
  BY <1>1 DEF SessionKept
<1>4. Undelivered'
  <2>1. ASSUME NEW x \in Tab, refresh'[x].pc = "rotated"
        PROVE  /\ refresh'[x].id \in valid' /\ refresh'[x].id # cookie'
               /\ \A y \in Tab : /\ task'[y].id # refresh'[x].id
                                 /\ y # x => refresh'[y].id # refresh'[x].id
    <3>1. x # t /\ refresh'[x] = refresh[x] /\ refresh[x].pc = "rotated"
      BY <1>2, <2>1
    <3>2. /\ refresh[x].id \in valid /\ refresh[x].id # 0
          /\ \A y \in Tab : /\ task[y].id # refresh[x].id
                            /\ y # x => refresh[y].id # refresh[x].id
      BY <3>1 DEF SessionInv, Undelivered, Base, Numbers
    <3> QED
      BY <1>1, <1>2, <3>1, <3>2
  <2> QED
    BY <2>1 DEF Undelivered
<1>5. Nobody'
  BY <1>1, <1>2 DEF Nobody, Base, Numbers
<1> QED
  BY <1>3, <1>4, <1>5 DEF SessionInv

\* Every step keeps the session.
LEMMA StepSession ==
    ASSUME Base, Named, SessionInv, NEW t \in Tab, Kinds(t)
    PROVE  SessionInv'
  BY QuietKinds, QuietSession, ReloadSession, RotateSession, RefreshAnsweredSession,
     SignInAnsweredSession, SignOutAnsweredSession

\* It holds at first.
LEMMA InitSession ==
    ASSUME Init
    PROVE  SessionInv
  BY InitBase DEF Init, TokensInit, NoRefresh, SessionInv, SessionKept, Undelivered, Nobody,
     Base, TypeOK, TokensTypeOK

\* A stutter keeps it.
LEMMA SessionStutter ==
    ASSUME SessionInv, UNCHANGED vars
    PROVE  SessionInv'
  BY DEF SessionInv, SessionKept, Undelivered, Nobody, vars, tokenVars

\* The strengthening SessionStays and StaysSignedOut follow from: an answer
\* under way holds a number that no cookie, refresh or sign-out names
\* (createTokenRefreshManager in connect.ts, one refresh per tab).
THEOREM SessionHolds == Spec => []SessionInv
<1>1. Base /\ Named /\ SessionInv /\ [Next]_vars => SessionInv'
  <2>1. ASSUME Base, Named, SessionInv, Next
        PROVE  SessionInv'
    BY <2>1, StepKinds, StepSession DEF Base
  <2> QED
    BY <2>1, SessionStutter
<1> QED
  BY <1>1, InitSession, BaseHolds, PTL DEF Spec

\* SessionKept: the cookie is a token the server accepts, or its successor is
\* under way, unless a page load dropped that (connect.ts).
THEOREM SessionStays == Spec => []SessionKept
<1>1. SessionInv => SessionKept
  BY DEF SessionInv
<1> QED
  BY <1>1, SessionHolds, PTL

\* SignedOutStays: after a sign-out that met no refresh the browser has no
\* session until somebody signs in (AuthContext.tsx, logout).
THEOREM StaysSignedOut == Spec => []SignedOutStays
<1>1. SessionInv => SignedOutStays
  BY DEF SessionInv, Nobody, SignedOutStays
<1> QED
  BY <1>1, SessionHolds, PTL

(***************************************************************************)
(* A state is accepted once                                                *)
(***************************************************************************)

\* Dropping a stored state keeps the flows apart.
LEMMA OAuthGone ==
    ASSUME Base, OAuthInv, NEW t \in Tab, OAuthKeptOrGone(t), UNCHANGED <<flows, uses>>
    PROVE  OAuthInv'
<1>1. ASSUME NEW x \in Tab
      PROVE  oauth'[x] = oauth[x] \/ oauth'[x].id = 0
  BY DEF OAuthKeptOrGone, NoState, Base, TypeOK
<1> QED
  BY <1>1 DEF OAuthInv

\* So does a step that leaves them alone.
LEMMA OAuthSame ==
    ASSUME OAuthInv, UNCHANGED <<oauth, flows, uses>>
    PROVE  OAuthInv'
  BY DEF OAuthInv

\* A new flow has a new number.
LEMMA StartOAuthInv ==
    ASSUME Base, OAuthInv, NEW t \in Tab, StartOAuth(t)
    PROVE  OAuthInv'
<1>1. /\ flows' = flows + 1 /\ uses' = uses
      /\ oauth' = [oauth EXCEPT ![t] = [id |-> flows + 1, old |-> FALSE]]
  BY DEF StartOAuth
<1>2. flows \in Nat /\ flows + 1 \in 1..MaxFlows
  BY ScenePages, BoundsAssumption DEF StartOAuth, Base, TypeOK
<1>3. \A x \in Tab : oauth'[x].id = IF x = t THEN flows + 1 ELSE oauth[x].id
  BY <1>1 DEF Base, TypeOK
<1>4. \A f \in 1..MaxFlows : uses'[f] <= 1 /\ (f > flows' => uses'[f] = 0)
  BY <1>1, <1>2 DEF OAuthInv
<1>5. uses'[flows + 1] = 0
  BY <1>1, <1>2 DEF OAuthInv
<1>6. ASSUME NEW x \in Tab, oauth[x].id # 0
      PROVE  oauth[x].id <= flows' /\ oauth[x].id # flows + 1
  <2>1. oauth[x].id \in Nat /\ oauth[x].id <= flows
    BY <1>6, TabTyped, BoundsAssumption DEF OAuthInv
  <2> QED
    BY <1>1, <1>2, <2>1
<1>7. ASSUME NEW x \in Tab, oauth'[x].id # 0
      PROVE  /\ oauth'[x].id <= flows' /\ uses'[oauth'[x].id] = 0
             /\ \A y \in Tab : y # x => oauth'[y].id # oauth'[x].id
  <2>1. CASE x = t
    BY <1>1, <1>2, <1>3, <1>5, <1>6, <2>1
  <2>2. CASE x # t
    BY <1>1, <1>2, <1>3, <1>6, <1>7, <2>2 DEF OAuthInv
  <2> QED
    BY <2>1, <2>2
<1> QED
  BY <1>4, <1>7 DEF OAuthInv

\* The callback uses the state up, whatever the verdict.
LEMMA CallbackOAuth ==
    ASSUME Base, OAuthInv, NEW t \in Tab, NEW u \in User, Callback(t, u)
    PROVE  OAuthInv'
<1>1. flows' = flows
  BY DEF Callback
<1>2. CASE UNCHANGED uses
  <2>1. OAuthKeptOrGone(t)
    BY DEF Callback, StateLeft, OAuthKeptOrGone
  <2> QED
    BY <1>1, <1>2, <2>1, OAuthGone
<1>3. CASE /\ StateMatches(t)
           /\ oauth' = [oauth EXCEPT ![t] = NoState]
           /\ uses' = [uses EXCEPT ![param[t]] = IF @ < 2 THEN @ + 1 ELSE @]
  <2> DEFINE f0 == oauth[t].id
  <2>1. f0 # 0 /\ f0 = param[t] /\ f0 <= flows /\ uses[f0] = 0 /\ f0 \in 1..MaxFlows /\ flows \in Nat
    BY <1>3, TabTyped, BoundsAssumption DEF StateMatches, OAuthInv, Base, TypeOK
  <2>2. /\ \A f \in 1..MaxFlows : uses'[f] = IF f = f0 THEN 1 ELSE uses[f]
        /\ \A x \in Tab : oauth'[x].id = IF x = t THEN 0 ELSE oauth[x].id
    BY <1>3, <2>1 DEF NoState, Base, TypeOK
  <2>3. \A x \in Tab : x # t => oauth[x].id # f0
    BY <2>1 DEF OAuthInv
  <2>4. \A f \in 1..MaxFlows : uses'[f] <= 1 /\ (f > flows => uses'[f] = 0)
    BY <2>1, <2>2 DEF OAuthInv
  <2> HIDE DEF f0
  <2>5. ASSUME NEW x \in Tab, oauth'[x].id # 0
        PROVE  /\ oauth'[x].id <= flows /\ uses'[oauth'[x].id] = 0
               /\ \A y \in Tab : y # x => oauth'[y].id # oauth'[x].id
    <3>1. x # t /\ oauth[x].id # 0 /\ oauth'[x].id = oauth[x].id /\ oauth[x].id # f0
      BY <2>2, <2>3, <2>5
    <3>2. oauth[x].id \in 1..MaxFlows
      BY <3>1, TabTyped, BoundsAssumption
    <3> QED
      BY <2>2, <3>1, <3>2 DEF OAuthInv
  <2> QED
    BY <1>1, <2>4, <2>5 DEF OAuthInv
<1> QED
  BY <1>2, <1>3 DEF Callback, StateLeft

\* Every step keeps the flows apart.
LEMMA StepOAuth ==
    ASSUME Base, OAuthInv, NEW t \in Tab, Kinds(t)
    PROVE  OAuthInv'
<1>1. CASE Reloads(t) \/ DataFails(t)
  BY <1>1, OAuthSame DEF Reloads, DataFails, GivesUp
<1>2. CASE Settles(t) \/ InstanceReady(t)
  BY <1>2, OAuthGone DEF Settles, InstanceReady, GivesUp
<1>3. CASE MeAnswered(t) \/ SignOutAnswered(t) \/ RefreshAnswered(t)
  BY <1>3, OAuthSame DEF MeAnswered, SignOutAnswered, RefreshAnswered
<1>4. CASE TokenStep(t) \/ NoRefreshAnswer(t)
  BY <1>4, OAuthSame DEF TokenStep, NoRefreshAnswer
<1>5. CASE UserCreated(t) \/ SignInAnswered(t) \/ FormFails(t)
  BY <1>5, OAuthSame DEF UserCreated, SignInAnswered, FormFails
<1>6. CASE (\E p \in Pages : Navigate(t, p)) \/ DataCall(t) \/ DataAnswered(t) \/ SignOut(t)
  BY <1>6, OAuthSame DEF Navigate, DataCall, DataAnswered, SignOut, onlyPages
<1>7. CASE \E u \in User : SignInSubmit(t, u) \/ SignUpSubmit(t, u)
  BY <1>7, OAuthSame DEF SignInSubmit, SignUpSubmit, onlyPages
<1>8. CASE \E u \in User : Callback(t, u)
  BY <1>8, CallbackOAuth
<1>9. CASE StartOAuth(t)
  BY <1>9, StartOAuthInv
<1>10. CASE OAuthExpires(t)
  <2>1. \A x \in Tab : oauth'[x].id = oauth[x].id
    BY <1>10, TabTyped DEF OAuthExpires, Base, TypeOK
  <2> QED
    BY <1>10, <2>1 DEF OAuthExpires, onlyPages, OAuthInv
<1> QED
  BY <1>1, <1>2, <1>3, <1>4, <1>5, <1>6, <1>7, <1>8, <1>9, <1>10 DEF Kinds

\* They are at first.
LEMMA InitOAuth ==
    ASSUME Init
    PROVE  OAuthInv
  BY DEF Init, OAuthInv, NoState

\* A stutter keeps them.
LEMMA OAuthStutter ==
    ASSUME OAuthInv, UNCHANGED vars
    PROVE  OAuthInv'
  BY OAuthSame DEF vars

\* The strengthening StateAcceptedOnce follows from: a state that is stored was
\* never accepted, and only one tab stores it (oauth.ts).
THEOREM OAuthHolds == Spec => []OAuthInv
<1>1. Base /\ Named /\ OAuthInv /\ [Next]_vars => OAuthInv'
  <2>1. ASSUME Base, OAuthInv, Next
        PROVE  OAuthInv'
    BY <2>1, StepKinds, StepOAuth DEF Base
  <2> QED
    BY <2>1, OAuthStutter
<1> QED
  BY <1>1, InitOAuth, BaseHolds, PTL DEF Spec

\* StateUsedOnce: no OAuth state is accepted twice (validateOAuthState).
THEOREM StateAcceptedOnce == Spec => []StateUsedOnce
<1>1. OAuthInv => StateUsedOnce
  BY DEF OAuthInv, StateUsedOnce
<1> QED
  BY <1>1, OAuthHolds, PTL

(***************************************************************************)
(* A tab acts for the user it shows                                        *)
(***************************************************************************)

\* The parts of one tab that name users.
Names(x) == <<user[x], task[x], token[x], stored[x], call[x]["task"]>>

\* UserInv for one tab.
KnownTab(x) == x \notin mixed =>
    Knows(user[x], task[x], token[x], stored[x], call[x]["task"])

\* The other tabs are as they were, and none of them ceases to be mixed.
OthersAlone(t) ==
    \A x \in Tab \ {t} : UNCHANGED Names(x) /\ (x \in mixed => x \in mixed')

\* A step of one tab, if it leaves the others alone, need only look at that tab.
LEMMA OthersKnown ==
    ASSUME UserInv, NEW t \in Tab, OthersAlone(t), KnownTab(t)'
    PROVE  UserInv'
<1>1. ASSUME NEW x \in Tab
      PROVE  KnownTab(x)'
  <2>1. CASE x = t
    BY <2>1
  <2>2. CASE x # t
    <3>1. UNCHANGED Names(x) /\ (x \in mixed => x \in mixed')
      BY <2>2 DEF OthersAlone
    <3>2. KnownTab(x)
      BY DEF UserInv, KnownTab
    <3> QED
      BY <3>1, <3>2 DEF KnownTab, Names, Knows
  <2> QED
    BY <2>1, <2>2
<1> QED
  BY <1>1 DEF UserInv, KnownTab

\* A step that leaves what the tab knows alone, but may put it at work or at
\* rest.
LEMMA SameKnown ==
    ASSUME UserInv, NEW t \in Tab, UNCHANGED <<user, token, stored, mixed>>,
           call'[t]["task"].token.user \in {NoUser, call[t]["task"].token.user},
           \/ task'[t].phase = task[t].phase /\ task'[t].who = task[t].who
           \/ task'[t].phase \notin {"me", "settings"} /\ task[t].phase \notin {"me", "settings"}
    PROVE  KnownTab(t)'
  BY DEF UserInv, KnownTab, Knows

\* A page load starts with the token of sessionStorage and nobody shown.
LEMMA ReloadKnown ==
    ASSUME Base, NEW t \in Tab, NEW p \in Pages, NEW copy \in {NoToken, stored[t]}, Load(t, p, copy)
    PROVE  OthersAlone(t) /\ KnownTab(t)'
<1>1. OthersAlone(t)
  BY DEF Load, OthersAlone, Names, Base, TypeOK, TokensTypeOK
<1>2. /\ token'[t] = Held(NoToken, copy) /\ stored'[t] = Kept(NoToken, copy)
      /\ call'[t]["task"] = SentCall(NoToken, copy)
      /\ task'[t].phase = "me"
  BY DEF Load, Slot, NoTask, Base, TypeOK, TokensTypeOK
<1>3. Compat(token'[t].user, stored'[t].user)
  BY <1>2 DEF Held, Kept, Compat, NoToken
<1>4. call'[t]["task"].token.user = token'[t].user
  BY <1>2 DEF SentCall
<1> QED
  BY <1>1, <1>2, <1>3, <1>4 DEF KnownTab, Knows

\* Reading the token changes nothing a tab knows.
LEMMA ReadKnown ==
    ASSUME NEW a \in AccessToken, NEW b \in AccessToken, NEW v, Compat(v, a.user), Compat(v, b.user),
           Compat(a.user, b.user)
    PROVE  /\ Compat(v, Held(a, b).user) /\ Compat(v, Kept(a, b).user)
           /\ Compat(Held(a, b).user, Kept(a, b).user)
           /\ a.user \in {NoUser, Held(a, b).user}
  BY DEF Compat, Held, Kept, NoToken

\* What giving up calls leaves of the task's.
LEMMA GivesUpCall ==
    ASSUME Base, NEW t \in Tab, GivesUp(t)
    PROVE  /\ call'[t]["task"].token.user \in {NoUser, call[t]["task"].token.user}
           /\ \A x \in Tab \ {t} : call'[x] = call[x]
           /\ mixed' = mixed
<1>1. PICK slots \in SUBSET Slot : call' = [call EXCEPT ![t] = Without(t, slots)]
  BY DEF GivesUp
<1>2. call'[t] = Without(t, slots) /\ \A x \in Tab \ {t} : call'[x] = call[x]
  BY <1>1 DEF Base, TypeOK, TokensTypeOK
<1> QED
  BY <1>2 DEF GivesUp, Without, Slot, NoCall, NoToken

\* The context shows the user of the token, or nobody and clears it.
LEMMA SettlesKnown ==
    ASSUME Base, UserInv, NEW t \in Tab, Settles(t)
    PROVE  UserInv'
<1>1. GivesUp(t) /\ task' = [task EXCEPT ![t] = NoTask]
  BY DEF Settles
<1>2. /\ \A x \in Tab \ {t} : /\ call'[x] = call[x] /\ task'[x] = task[x]
      /\ mixed' = mixed /\ task'[t].phase = "none"
  BY <1>1, GivesUpCall DEF NoTask, Base, TypeOK
<1>3. CASE user' = [user EXCEPT ![t] = NoUser] /\ clearAccessToken(t)
  <2>1. /\ \A x \in Tab \ {t} : /\ user'[x] = user[x] /\ token'[x] = token[x]
                                /\ stored'[x] = stored[x]
        /\ user'[t] = NoUser /\ token'[t] = NoToken /\ stored'[t] = NoToken
    BY <1>3 DEF clearAccessToken, setAccessToken, Base, TypeOK, TokensTypeOK
  <2>2. OthersAlone(t)
    BY <1>2, <2>1 DEF OthersAlone, Names
  <2>3. KnownTab(t)'
    BY <1>2, <2>1 DEF KnownTab, Knows, Compat, NoToken
  <2> QED
    BY <2>2, <2>3, OthersKnown
<1>4. CASE /\ task[t].phase = "settings"
           /\ user' = [user EXCEPT ![t] = task[t].who]
           /\ UNCHANGED <<token, stored>>
  <2>1. /\ \A x \in Tab \ {t} : user'[x] = user[x]
        /\ user'[t] = task[t].who
    BY <1>4 DEF Base, TypeOK
  <2>2. OthersAlone(t)
    BY <1>2, <1>4, <2>1 DEF OthersAlone, Names
  <2>3. KnownTab(t)'
    BY <1>2, <1>4, <2>1 DEF UserInv, KnownTab, Knows
  <2> QED
    BY <2>2, <2>3, OthersKnown
<1> QED
  BY <1>3, <1>4 DEF Settles

\* getCurrentUser answers for the token the call carried.
LEMMA MeAnsweredKnown ==
    ASSUME Base, UserInv, NEW t \in Tab, MeAnswered(t)
    PROVE  UserInv'
<1>1. /\ task[t].phase = "me"
      /\ task' = [task EXCEPT ![t].phase = "settings", ![t].who = call[t]["task"].token.user]
      /\ token' = [token EXCEPT ![t] = Held(token[t], stored[t])]
      /\ stored' = [stored EXCEPT ![t] = Kept(token[t], stored[t])]
      /\ call' = [call EXCEPT ![t]["task"] = SentCall(token[t], stored[t])]
      /\ UNCHANGED <<user, mixed>>
  BY DEF MeAnswered, Send, getAccessToken
<1>2. OthersAlone(t)
  BY <1>1 DEF OthersAlone, Names, Base, TypeOK, TokensTypeOK
<1>3. /\ task'[t].phase = "settings" /\ task'[t].who = call[t]["task"].token.user
      /\ token'[t] = Held(token[t], stored[t]) /\ stored'[t] = Kept(token[t], stored[t])
  BY <1>1, TabTyped DEF Base, TypeOK, TokensTypeOK, Task
<1>4. ASSUME t \notin mixed
      PROVE  Knows(user[t], task'[t], token'[t], stored'[t], call'[t]["task"])
  <2> DEFINE v == call[t]["task"].token.user
  <2>1. Compat(token[t].user, stored[t].user) /\ v \in {NoUser, token[t].user}
    BY <1>1, <1>4 DEF UserInv, Knows
  <2>2. Compat(v, token[t].user) /\ Compat(v, stored[t].user)
    BY <2>1 DEF Compat
  <2> HIDE DEF v
  <2>3. /\ Compat(v, token'[t].user) /\ Compat(v, stored'[t].user)
        /\ Compat(token'[t].user, stored'[t].user)
    BY <1>3, <2>1, <2>2, TabTyped, ReadKnown
  <2> QED
    BY <1>3, <2>3 DEF Knows, v
<1>5. KnownTab(t)'
  BY <1>1, <1>4 DEF KnownTab
<1> QED
  BY <1>2, <1>5, OthersKnown

\* The refresh answers: a tab that knew another user is mixed from now on.
LEMMA RefreshAnsweredKnown ==
    ASSUME Base, UserInv, NEW t \in Tab, RefreshAnswered(t)
    PROVE  UserInv'
<1> DEFINE u == issued[refresh[t].id]
           a == [user |-> u, live |-> TRUE]
<1>1. /\ token' = [token EXCEPT ![t] = a] /\ stored' = [stored EXCEPT ![t] = a]
      /\ call' = [call EXCEPT ![t] = Repeated(t, a)]
      /\ task' = IF task[t].phase = "signout" /\ call[t]["task"].pc = "waiting"
                 THEN [task EXCEPT ![t].id = refresh[t].id] ELSE task
      /\ mixed' = mixed \union Strangers(u)
      /\ UNCHANGED user
  BY DEF RefreshAnswered, refreshAccessToken, setAccessToken
<1>2. a.user = u
  OBVIOUS
<1>3. call'[t]["task"] = call[t]["task"] \/ call'[t]["task"].token.user = u
  BY <1>1 DEF Repeated, Slot, Base, TypeOK, TokensTypeOK
<1> HIDE DEF u, a
<1>4. OthersAlone(t)
  BY <1>1 DEF OthersAlone, Names, Base, TypeOK, TokensTypeOK
<1>5. /\ token'[t] = a /\ stored'[t] = a /\ user'[t] = user[t]
      /\ task'[t].phase = task[t].phase /\ task'[t].who = task[t].who
  BY <1>1, TabTyped DEF Base, TypeOK, TokensTypeOK, Task
<1>6. ASSUME t \notin mixed'
      PROVE  Knows(user'[t], task'[t], token'[t], stored'[t], call'[t]["task"])
  <2>1. t \notin mixed /\ t \notin Strangers(u)
    BY <1>1, <1>6
  <2>2. {user[t], token[t].user, stored[t].user, task[t].who} \subseteq {NoUser, u}
    BY <2>1 DEF Strangers
  <2>3. task[t].phase = "me" => call[t]["task"].token.user \in {NoUser, token[t].user}
    BY <2>1 DEF UserInv, Knows
  <2> QED
    BY <1>2, <1>3, <1>5, <2>2, <2>3 DEF Knows, Compat
<1> QED
  BY <1>4, <1>6, OthersKnown DEF KnownTab

\* signIn answers: the token is new and initialize asks who it is for.
LEMMA SignInAnsweredKnown ==
    ASSUME Base, UserInv, NEW t \in Tab, SignInAnswered(t)
    PROVE  UserInv'
<1> DEFINE u == task[t].who
           a == [user |-> u, live |-> TRUE]
<1>1. /\ token' = [token EXCEPT ![t] = a] /\ stored' = [stored EXCEPT ![t] = a]
      /\ task' = [task EXCEPT ![t].phase = "me", ![t].who = NoUser]
      /\ call' = [call EXCEPT ![t]["task"] = [pc |-> "sent", token |-> a]]
      /\ mixed' = (mixed \union Strangers(u)) \ {t}
      /\ UNCHANGED user
  BY DEF SignInAnswered, setAccessToken
<1> HIDE DEF u, a
<1>2. OthersAlone(t)
  BY <1>1 DEF OthersAlone, Names, Base, TypeOK, TokensTypeOK
<1>3. /\ token'[t] = a /\ stored'[t] = a /\ task'[t].phase = "me"
      /\ call'[t]["task"].token = a
  BY <1>1, TabTyped DEF Base, TypeOK, TokensTypeOK, Task, Slot
<1>4. KnownTab(t)'
  BY <1>3 DEF KnownTab, Knows, Compat
<1> QED
  BY <1>2, <1>4, OthersKnown

\* Expiry keeps the names; refusal and rotation concern no name.
LEMMA TokenStepKnown ==
    ASSUME Base, UserInv, NEW t \in Tab, TokenStep(t) \/ NoRefreshAnswer(t)
    PROVE  UserInv'
<1>1. UNCHANGED <<user, task, mixed>>
  BY DEF TokenStep, NoRefreshAnswer
<1>2. CASE TokenExpires(t)
  <2>1. /\ token' = [token EXCEPT ![t] = Expired(token[t])]
        /\ stored' = [stored EXCEPT ![t] = Expired(stored[t])]
        /\ call' = [call EXCEPT ![t] =
               [s \in Slot |-> [call[t][s] EXCEPT !.token = Expired(call[t][s].token)]]]
    BY <1>2 DEF TokenExpires
  <2>2. OthersAlone(t)
    BY <1>1, <2>1 DEF OthersAlone, Names, Base, TypeOK, TokensTypeOK
  <2>3. token'[t].user = token[t].user /\ stored'[t].user = stored[t].user
    BY <2>1, TabTyped, TokensAreTyped DEF Base, TypeOK, TokensTypeOK
  <2>4. call'[t]["task"].token.user = call[t]["task"].token.user
    <3>1. call[t]["task"] \in Call /\ call[t]["task"].token \in AccessToken
      BY TabTyped DEF Slot, Call
    <3>2. call'[t]["task"] = [call[t]["task"] EXCEPT !.token = Expired(call[t]["task"].token)]
      BY <2>1 DEF Slot, Base, TypeOK, TokensTypeOK
    <3> QED
      BY <3>1, <3>2, TokensAreTyped DEF Call
  <2>5. KnownTab(t)'
    BY <1>1, <2>3, <2>4 DEF UserInv, KnownTab, Knows
  <2> QED
    BY <2>2, <2>5, OthersKnown
<1>3. CASE \E s \in Slot : Unauthorized(t, s)
  <2>1. PICK s \in Slot : Unauthorized(t, s)
    BY <1>3
  <2>2. UNCHANGED <<token, stored>> /\ call' = [call EXCEPT ![t][s].pc = "waiting"]
    BY <2>1 DEF Unauthorized
  <2>3. OthersAlone(t)
    BY <1>1, <2>2 DEF OthersAlone, Names, Base, TypeOK, TokensTypeOK
  <2>4. call'[t]["task"].token = call[t]["task"].token
    BY <2>2, TabTyped DEF Base, TypeOK, TokensTypeOK, Call, Slot
  <2>5. KnownTab(t)'
    BY <1>1, <2>2, <2>4, SameKnown
  <2> QED
    BY <2>3, <2>5, OthersKnown
<1>4. CASE Rotate(t) \/ NoRefreshAnswer(t)
  BY <1>1, <1>4 DEF Rotate, NoRefreshAnswer, RefreshLost, UserInv
<1> QED
  BY <1>2, <1>3, <1>4 DEF TokenStep

\* The tasks a form begins, continues and gives up.
LEMMA FormKnown ==
    ASSUME Base, UserInv, NEW t \in Tab, NEW k \in Task, task' = [task EXCEPT ![t] = k],
           task[t].phase \notin {"me", "settings"}, k.phase \notin {"me", "settings"},
           UNCHANGED <<user, token, stored, call, mixed>>
    PROVE  UserInv'
<1>1. OthersAlone(t) /\ task'[t] = k
  BY DEF OthersAlone, Names, Base, TypeOK
<1>2. KnownTab(t)'
  BY <1>1, SameKnown
<1> QED
  BY <1>1, <1>2, OthersKnown

\* The forms' steps.
LEMMA FormsKnown ==
    ASSUME Base, Named, UserInv, NEW t \in Tab,
           \/ UserCreated(t) \/ FormFails(t)
           \/ \E u \in User : SignInSubmit(t, u) \/ SignUpSubmit(t, u) \/ Callback(t, u)
    PROVE  UserInv'
<1>1. CASE UserCreated(t)
  <2> DEFINE k == [task[t] EXCEPT !.phase = "signin"]
  <2>1. k \in Task /\ k.phase = "signin" /\ task' = [task EXCEPT ![t] = k]
    BY <1>1, TabTyped DEF UserCreated, Task, Base, TypeOK
  <2> HIDE DEF k
  <2> QED
    BY <1>1, <2>1, FormKnown DEF UserCreated, tokenVars
<1>2. CASE FormFails(t)
  BY <1>2, FormKnown, TokensAreTyped DEF FormFails, tokenVars, NoTask
<1>3. ASSUME NEW u \in User, SignInSubmit(t, u) \/ SignUpSubmit(t, u) \/ Callback(t, u)
      PROVE  UserInv'
  <2>1. task[t].phase = "none" /\ UNCHANGED <<user, token, stored, call, mixed>>
    BY <1>3 DEF SignInSubmit, SignUpSubmit, Callback, Idle, tokenVars
  <2>2. CASE task' = task
    BY <2>1, <2>2 DEF UserInv
  <2>3. CASE \E phase \in {"create", "signin"}, from \in {"form", "signup", "callback"} :
                 Begin(t, phase, from, u)
    <3>1. PICK phase \in {"create", "signin"}, from \in {"form", "signup", "callback"} :
              Begin(t, phase, from, u)
      BY <2>3
    <3> DEFINE k == [phase |-> phase, from |-> from, who |-> u, id |-> 0]
    <3>2. k \in Task /\ k.phase = phase /\ task' = [task EXCEPT ![t] = k]
      BY <3>1, FormTyped DEF Begin
    <3> HIDE DEF k
    <3> QED
      BY <2>1, <3>2, FormKnown
  <2> QED
    BY <1>3, <2>2, <2>3 DEF SignInSubmit, SignUpSubmit, Callback
<1> QED
  BY <1>1, <1>2, <1>3

\* A call of the tab's queries, and the answer.
LEMMA DataKnown ==
    ASSUME Base, UserInv, NEW t \in Tab, DataCall(t) \/ DataAnswered(t)
    PROVE  UserInv'
<1>1. UNCHANGED <<user, task, mixed>>
  BY DEF DataCall, DataAnswered, onlyPages
<1>2. CASE DataAnswered(t)
  <2>1. UNCHANGED <<token, stored>> /\ call' = [call EXCEPT ![t]["data"] = NoCall]
    BY <1>2 DEF DataAnswered
  <2>2. OthersAlone(t) /\ call'[t]["task"] = call[t]["task"]
    BY <1>1, <2>1 DEF OthersAlone, Names, Base, TypeOK, TokensTypeOK, Slot
  <2>3. KnownTab(t)'
    BY <1>1, <2>1, <2>2, SameKnown
  <2> QED
    BY <2>2, <2>3, OthersKnown
<1>3. CASE DataCall(t)
  <2>1. /\ token' = [token EXCEPT ![t] = Held(token[t], stored[t])]
        /\ stored' = [stored EXCEPT ![t] = Kept(token[t], stored[t])]
        /\ call' = [call EXCEPT ![t]["data"] = SentCall(token[t], stored[t])]
    BY <1>3 DEF DataCall, Send, getAccessToken
  <2>2. OthersAlone(t) /\ call'[t]["task"] = call[t]["task"]
    BY <1>1, <2>1 DEF OthersAlone, Names, Base, TypeOK, TokensTypeOK, Slot
  <2>3. token'[t] = Held(token[t], stored[t]) /\ stored'[t] = Kept(token[t], stored[t])
    BY <2>1 DEF Base, TypeOK, TokensTypeOK
  <2>4. ASSUME t \notin mixed
        PROVE  Knows(user[t], task[t], token'[t], stored'[t], call[t]["task"])
    <3>1. Knows(user[t], task[t], token[t], stored[t], call[t]["task"])
      BY <2>4 DEF UserInv
    <3>2. Compat(token[t].user, stored[t].user)
      BY <3>1 DEF Knows
    <3>3. ASSUME NEW v, Compat(v, token[t].user), Compat(v, stored[t].user)
          PROVE  Compat(v, token'[t].user) /\ Compat(v, stored'[t].user)
      BY <2>3, <3>2, <3>3, TabTyped, ReadKnown
    <3>4. Compat(NoUser, token[t].user) /\ Compat(NoUser, stored[t].user)
      BY DEF Compat
    <3>5. /\ Compat(token'[t].user, stored'[t].user)
          /\ token[t].user \in {NoUser, token'[t].user}
      BY <2>3, <3>2, <3>4, TabTyped, ReadKnown
    <3> QED
      BY <3>1, <3>3, <3>5 DEF Knows
  <2>5. KnownTab(t)'
    BY <1>1, <2>2, <2>4 DEF KnownTab
  <2> QED
    BY <2>2, <2>5, OthersKnown
<1> QED
  BY <1>2, <1>3

\* UserMenu signs out: the token is read once more.
LEMMA SignOutKnown ==
    ASSUME Base, UserInv, NEW t \in Tab, SignOut(t)
    PROVE  UserInv'
<1>1. /\ task[t].phase = "none"
      /\ task' = [task EXCEPT ![t] =
             [phase |-> "signout", from |-> "load", who |-> user[t], id |-> cookie]]
      /\ token' = [token EXCEPT ![t] = Held(token[t], stored[t])]
      /\ stored' = [stored EXCEPT ![t] = Kept(token[t], stored[t])]
      /\ call' = [call EXCEPT ![t]["task"] = SentCall(token[t], stored[t])]
      /\ UNCHANGED <<user, mixed>>
  BY DEF SignOut, Idle, Send, getAccessToken
<1>2. OthersAlone(t)
  BY <1>1 DEF OthersAlone, Names, Base, TypeOK, TokensTypeOK
<1>3. /\ token'[t] = Held(token[t], stored[t]) /\ stored'[t] = Kept(token[t], stored[t])
      /\ task'[t].phase = "signout"
  BY <1>1 DEF Base, TypeOK, TokensTypeOK
<1>4. ASSUME t \notin mixed
      PROVE  Knows(user[t], task'[t], token'[t], stored'[t], call'[t]["task"])
  <2>1. /\ Compat(token[t].user, stored[t].user)
        /\ Compat(user[t], token[t].user) /\ Compat(user[t], stored[t].user)
    BY <1>1, <1>4 DEF UserInv, Knows
  <2>2. /\ Compat(user[t], token'[t].user) /\ Compat(user[t], stored'[t].user)
        /\ Compat(token'[t].user, stored'[t].user)
    BY <1>3, <2>1, TabTyped, ReadKnown
  <2> QED
    BY <1>3, <2>2 DEF Knows
<1>5. KnownTab(t)'
  BY <1>1, <1>4 DEF KnownTab
<1> QED
  BY <1>2, <1>5, OthersKnown

\* Every step keeps what the tabs know.
LEMMA StepUser ==
    ASSUME Base, Named, UserInv, NEW t \in Tab, Kinds(t)
    PROVE  UserInv'
<1>1. CASE Reloads(t)
  BY <1>1, ReloadKnown, OthersKnown DEF Reloads
<1>2. CASE SignOutAnswered(t)
  <2>1. Load(t, "auth", NoToken) /\ "auth" \in Pages
    BY <1>2 DEF SignOutAnswered, LoggedOut, Pages, AuthPages
  <2> QED
    BY <2>1, ReloadKnown, OthersKnown
<1>3. CASE Settles(t) \/ MeAnswered(t) \/ RefreshAnswered(t) \/ SignInAnswered(t)
  BY <1>3, SettlesKnown, MeAnsweredKnown, RefreshAnsweredKnown, SignInAnsweredKnown
<1>4. CASE DataFails(t)
  <2>1. UNCHANGED <<user, task, token, stored, mixed>>
    BY <1>4 DEF DataFails, GivesUp
  <2>2. /\ call'[t]["task"].token.user \in {NoUser, call[t]["task"].token.user}
        /\ \A x \in Tab \ {t} : call'[x] = call[x]
    BY <1>4, GivesUpCall DEF DataFails
  <2>3. OthersAlone(t)
    BY <2>1, <2>2 DEF OthersAlone, Names
  <2>4. KnownTab(t)'
    BY <2>1, <2>2, SameKnown
  <2> QED
    BY <2>3, <2>4, OthersKnown
<1>5. CASE TokenStep(t) \/ NoRefreshAnswer(t)
  BY <1>5, TokenStepKnown
<1>6. CASE \/ UserCreated(t) \/ FormFails(t)
           \/ \E u \in User : SignInSubmit(t, u) \/ SignUpSubmit(t, u) \/ Callback(t, u)
  BY <1>6, FormsKnown
<1>7. CASE DataCall(t) \/ DataAnswered(t) \/ SignOut(t)
  BY <1>7, DataKnown, SignOutKnown
<1>8. CASE \/ InstanceReady(t) \/ StartOAuth(t) \/ OAuthExpires(t)
           \/ \E p \in Pages : Navigate(t, p)
  <2>1. UNCHANGED <<user, task, token, stored, call, mixed>>
    BY <1>8 DEF InstanceReady, StartOAuth, OAuthExpires, Navigate, tokenVars
  <2> QED
    BY <2>1 DEF UserInv
<1> QED
  BY <1>1, <1>2, <1>3, <1>4, <1>5, <1>6, <1>7, <1>8 DEF Kinds

\* At first they know nobody.
LEMMA InitUser ==
    ASSUME Init
    PROVE  UserInv
  BY DEF Init, TokensInit, UserInv, Knows, Compat, NoTask, NoToken

\* The strengthening ActsForShown follows from: in a tab that is not mixed, the
\* names its state holds agree as far as its task has got.
THEOREM UsersHold == Spec => []UserInv
<1>1. Base /\ Named /\ UserInv /\ [Next]_vars => UserInv'
  <2>1. ASSUME Base, Named, UserInv, Next
        PROVE  UserInv'
    BY <2>1, StepKinds, StepUser DEF Base
  <2>2. ASSUME UserInv, UNCHANGED vars
        PROVE  UserInv'
    BY <2>2 DEF UserInv, vars, tokenVars
  <2> QED
    BY <2>1, <2>2
<1> QED
  BY <1>1, InitUser, BaseHolds, PTL DEF Spec

\* ActsAsShown: a tab's token is that of the user it shows, unless the browser
\* changed user in another tab (auth-state.ts, AuthContext.tsx).
THEOREM ActsForShown == Spec => []ActsAsShown
<1>1. Base /\ UserInv => ActsAsShown
  <2>1. ASSUME Base, UserInv, NEW t \in Tab, user[t] # NoUser, task[t].phase = "none",
               token[t] # NoToken, t \notin mixed
        PROVE  token[t].user = user[t]
    <3>1. Compat(user[t], token[t].user)
      BY <2>1 DEF UserInv, Knows
    <3>2. token[t].user # NoUser
      BY <2>1, TabTyped, LiveNames
    <3> QED
      BY <2>1, <3>1, <3>2 DEF Compat
  <2> QED
    BY <2>1 DEF ActsAsShown
<1> QED
  BY <1>1, BaseHolds, UsersHold, PTL
=============================================================================
