---------------------------- MODULE ClientSession ----------------------------
(***************************************************************************)
(* The web client from page load to sign-out: AppInitializer, the auth and *)
(* instance contexts, the sign-in, sign-up and OAuth callback pages, and   *)
(* the redirects, in every tab of one browser.  Calls and tokens are those *)
(* of `ClientTokens'.  A full page load forgets what the tab has in memory *)
(* and keeps sessionStorage; router navigation keeps both.                 *)
(***************************************************************************)
EXTENDS ClientTokens

CONSTANTS
    MaxFlows,           \* bound: OAuth flows started
    MaxFaults,          \* bound: calls that fail on the network
    Scenarios           \* the settings a behaviour starts in, see Scenario

ASSUME BoundsAssumption == MaxFlows \in Nat /\ MaxFaults \in Nat

\* The routes under /auth ("message" is the callback once it has dealt with
\* its URL) and those under RootLayout.
AuthPages == {"auth", "admin", "signup", "callback", "message"}
RootPages == {"root", "archived", "attachments", "inbox", "setting",
              "explore", "profile", "memo", "missing"}

\* A behaviour opens some tabs, on some pages, in a browser that may still have
\* a session; forms and the identity provider name some users, of whom some have
\* an account at first.  A closed instance disallows public visibility.
Scenario == [tabs : SUBSET Tab, pages : SUBSET (AuthPages \union RootPages),
             users : SUBSET User, accounts : SUBSET User,
             session : User \union {NoUser}, closed : BOOLEAN,
             flows : 0..MaxFlows, faults : 0..MaxFaults]

ASSUME ScenariosAssumption == Scenarios \subseteq Scenario

VARIABLES
    accounts,   \* server: users that exist; the first becomes admin
    scene,      \* the scenario, which never changes
    faults,     \* network failures so far
    page,       \* per tab: the page shown
    user,       \* per tab: AuthContext's currentUser
    ready,      \* per tab: AuthContext's isInitialized
    inst,       \* per tab: InstanceContext's profile and settings
    task,       \* per tab: what a context or form is waiting for
    oauth,      \* per tab: oauth_state in sessionStorage
    param,      \* per tab: the state parameter of the callback's URL
    flows,      \* OAuth flows started
    uses,       \* history: how often each state was accepted
    exit,       \* history: the last sign-out, if nobody signed in since
    mixed,      \* history: tabs whose browser changed user behind them
    lost        \* history: a page load dropped the answer to a refresh

vars == <<tokenVars, accounts, scene, faults, page, user, ready, inst, task,
          oauth, param, flows, uses, exit, mixed, lost>>

isPublicRoute(p) == p \in AuthPages \union {"explore", "profile", "memo"}
isPrivateRoute(p) == p \in {"root", "attachments", "inbox", "archived", "setting"}

Inst == {"loading", "unknown", "vacant", "hosted"}
Task == [phase : {"none", "me", "settings", "create", "signin", "signout"},
         from : {"load", "form", "signup", "callback"},
         who : User \union {NoUser}, id : 0..MaxTokens]
NoTask == [phase |-> "none", from |-> "load", who |-> NoUser, id |-> 0]
NoState == [id |-> 0, old |-> FALSE]

TypeOK ==
    /\ TokensTypeOK
    /\ accounts \subseteq User
    /\ scene \in Scenarios
    /\ faults \in 0..MaxFaults
    /\ page \in [Tab -> AuthPages \union RootPages \union {"unopened", "away"}]
    /\ user \in [Tab -> User \union {NoUser}]
    /\ ready \in [Tab -> BOOLEAN]
    /\ inst \in [Tab -> Inst]
    /\ task \in [Tab -> Task]
    /\ oauth \in [Tab -> [id : 0..MaxFlows, old : BOOLEAN]]
    /\ param \in [Tab -> 0..MaxFlows]
    /\ flows \in 0..MaxFlows
    /\ uses \in [1..MaxFlows -> 0..2]
    /\ exit \in {"none", "alone", "overtaken"}
    /\ mixed \subseteq Tab
    /\ lost \in BOOLEAN

Init ==
    /\ scene \in Scenarios
    /\ TokensInit(scene.session)
    /\ accounts = scene.accounts
    /\ faults = 0
    /\ page = [t \in Tab |-> "unopened"]
    /\ user = [t \in Tab |-> NoUser]
    /\ ready = [t \in Tab |-> FALSE]
    /\ inst = [t \in Tab |-> "loading"]
    /\ task = [t \in Tab |-> NoTask]
    /\ oauth = [t \in Tab |-> NoState]
    /\ param = [t \in Tab |-> 0]
    /\ flows = 0
    /\ uses = [f \in 1..MaxFlows |-> 0]
    /\ exit = "none"
    /\ mixed = {}
    /\ lost = FALSE

Fault == faults < scene.faults /\ faults' = faults + 1
Owner(id) == IF id = 0 THEN NoUser ELSE issued[id]
Opened(t) == page[t] \notin {"unopened", "away"}

\* main.tsx renders its children once both contexts are initialized.
Mounted(t) == Opened(t) /\ ready[t] /\ inst[t] # "loading"

\* getInstanceConfig(): false until the instance context has its settings.
disallow(t) == scene.closed /\ inst[t] \in {"vacant", "hosted"}

(***************************************************************************)
(* Page loads                                                              *)
(***************************************************************************)

\* What becomes of a refresh in flight when its page goes away: it got
\* nowhere or its answer is lost, the server still rotates and the answer is
\* lost, or the answer still sets the cookie.
Unload(t) ==
    LET r == refresh[t]
    IN  \/ /\ lost' = (lost \/ r.pc = "rotated")
           /\ UNCHANGED <<issued, valid, cookie>>
        \/ /\ r.pc = "sent" /\ r.id \in valid /\ NewId \in Ids
           /\ Issue(issued[r.id])
           /\ valid' = (valid \ {r.id}) \union {NewId}
           /\ lost' = TRUE
           /\ UNCHANGED cookie
        \/ /\ r.pc = "rotated"
           /\ cookie' = r.id
           /\ UNCHANGED <<issued, valid, lost>>

\* A full load of p, with `copy' in sessionStorage.  AppInitializer starts
\* both contexts at once; the first call of the auth context goes out.
Load(t, p, copy) ==
    /\ page' = [page EXCEPT ![t] = p]
    /\ user' = [user EXCEPT ![t] = NoUser]
    /\ ready' = [ready EXCEPT ![t] = FALSE]
    /\ inst' = [inst EXCEPT ![t] = "loading"]
    /\ task' = [task EXCEPT ![t] = [NoTask EXCEPT !.phase = "me"]]
    /\ token' = [token EXCEPT ![t] = Held(NoToken, copy)]
    /\ stored' = [stored EXCEPT ![t] = Kept(NoToken, copy)]
    /\ call' = [call EXCEPT ![t] = [s \in Slot |->
           IF s = "task" THEN SentCall(NoToken, copy) ELSE NoCall]]
    /\ refresh' = [refresh EXCEPT ![t] = NoRefresh]
    /\ mixed' = IF copy.user \in {NoUser, Owner(cookie')} THEN mixed \ {t}
                ELSE mixed \union {t}

\* auth-redirect.ts
Redirects(t) ==
    /\ ~isPublicRoute(page[t])
    /\ disallow(t) \/ isPrivateRoute(page[t])

redirectOnAuthFailure(t) ==
    /\ Unload(t)
    /\ Load(t, IF disallow(t) THEN "auth" ELSE "explore", NoToken)
    /\ UNCHANGED oauth

\* App.tsx, once mounted: without an administrator the client goes to the
\* sign-up page; a callback is dealt with first.  An expired oauth_state goes.
Landing(p, i) == IF i \in {"vacant", "unknown"} /\ p # "callback" THEN "signup" ELSE p
cleanupExpiredOAuthState(t) ==
    oauth' = [oauth EXCEPT ![t] = IF @.old /\ page[t] # "callback" THEN NoState ELSE @]

\* RootLayout.tsx, once mounted or told of its user, on a closed instance.
Bounced(p, u, i) ==
    /\ p \in RootPages /\ u = NoUser
    /\ scene.closed /\ i \in {"vacant", "hosted"}
    /\ ~isPublicRoute(p)

(***************************************************************************)
(* InstanceContext.tsx and AuthContext.tsx                                 *)
(***************************************************************************)

\* The instance context's initialize: profile and settings, or an error that
\* leaves the defaults.
InstanceInit(t, i) ==
    /\ Opened(t) /\ inst[t] = "loading"
    /\ IF i = "unknown" THEN Fault
       ELSE i = (IF accounts = {} THEN "vacant" ELSE "hosted") /\ UNCHANGED faults
    /\ IF ready[t] /\ Bounced(page[t], user[t], i)
       THEN Unload(t) /\ Load(t, "auth", NoToken) /\ UNCHANGED oauth
       ELSE /\ inst' = [inst EXCEPT ![t] = i]
            /\ IF ready[t]
               THEN /\ page' = [page EXCEPT ![t] = Landing(@, i)]
                    /\ cleanupExpiredOAuthState(t)
               ELSE UNCHANGED <<page, oauth>>
            /\ UNCHANGED <<tokenVars, user, ready, task, mixed, lost>>
    /\ UNCHANGED <<accounts, scene, param, flows, uses, exit>>

\* The auth context's initialize ends, with u or with nobody and the token
\* cleared.  The calls left are c, the refresh r.  A form that called it goes
\* to the home page: SignIn.tsx sees the user and loads it, the others
\* navigate; SignUp.tsx initializes the instance context again before.
Initialized(t, u, c, r) ==
    LET form == task[t].from # "load"
        i == IF task[t].from = "signup" THEN "hosted" ELSE inst[t]
        p == IF form THEN "root" ELSE IF i = "loading" THEN page[t] ELSE Landing(page[t], i)
    IN  IF form /\ page[t] = "auth" /\ u # NoUser
        THEN Unload(t) /\ Load(t, "root", stored[t]) /\ UNCHANGED oauth
        ELSE IF Bounced(p, u, i)
        THEN Unload(t) /\ Load(t, "auth", NoToken) /\ UNCHANGED oauth
        ELSE /\ user' = [user EXCEPT ![t] = u]
             /\ ready' = [ready EXCEPT ![t] = TRUE]
             /\ task' = [task EXCEPT ![t] = NoTask]
             /\ inst' = [inst EXCEPT ![t] = i]
             /\ page' = [page EXCEPT ![t] = p]
             /\ IF form \/ i = "loading" THEN UNCHANGED oauth ELSE cleanupExpiredOAuthState(t)
             /\ call' = [call EXCEPT ![t] = c]
             /\ refresh' = [refresh EXCEPT ![t] = r]
             /\ IF u = NoUser THEN clearAccessToken(t) ELSE UNCHANGED <<token, stored>>
             /\ UNCHANGED <<issued, valid, cookie, mixed, lost>>

Without(t, slots) == [s \in Slot |-> IF s \in slots THEN NoCall ELSE call[t][s]]

\* getCurrentUser has answered; settings and shortcuts are fetched next.
MeAnswered(t) ==
    /\ task[t].phase = "me" /\ Accepts(t, "task")
    /\ task' = [task EXCEPT ![t].phase = "settings", ![t].who = call[t]["task"].token.user]
    /\ Send(t, "task")
    /\ UNCHANGED <<issued, valid, cookie, refresh, accounts, scene, faults, page, user,
                   ready, inst, oauth, param, flows, uses, exit, mixed, lost>>

SettingsAnswered(t) ==
    /\ task[t].phase = "settings" /\ Accepts(t, "task")
    /\ Initialized(t, task[t].who, Without(t, {"task"}), refresh[t])
    /\ UNCHANGED <<accounts, scene, faults, param, flows, uses, exit>>

\* Mutant: a path that the router does not know.
NoSuchRoute(t) == Load(t, "signout", NoToken)

\* logout, and UserMenu after it: whatever came of the call, the token goes
\* and the sign-in page is loaded.
LoggedOut(t) == Load(t, "auth", NoToken)

\* Mutant: the client forgets its token and tells the server nothing.
LocalSignOut(t) ==
    /\ task[t].phase = "signout"
    /\ exit' = "alone"
    /\ UNCHANGED <<issued, valid, cookie, accounts, scene, faults, oauth, param, flows,
                   uses, lost>>
    /\ LoggedOut(t)

\* The server's SignOut revokes the refresh token sent and clears the cookie.
SignOutAnswered(t) ==
    /\ task[t].phase = "signout" /\ Accepts(t, "task")
    /\ valid' = valid \ {task[t].id}
    /\ cookie' = 0
    /\ exit' = IF \A x \in Tab : refresh[x].pc = "none" THEN "alone" ELSE "overtaken"
    /\ lost' = (lost \/ refresh[t].pc = "rotated")
    /\ LoggedOut(t)
    /\ UNCHANGED <<issued, accounts, scene, faults, oauth, param, flows, uses>>

\* Mutant: a failure that the catch block does not turn into "initialized".
TaskHangs(t, c, r) ==
    /\ task' = [task EXCEPT ![t] = NoTask]
    /\ call' = [call EXCEPT ![t] = c]
    /\ refresh' = [refresh EXCEPT ![t] = r]
    /\ UNCHANGED <<issued, valid, cookie, token, stored, page, user, ready, inst, oauth,
                   mixed, lost>>

\* A protected call of the task has failed for good.
TaskFailed(t, c, r) ==
    IF task[t].phase = "signout"
    THEN Unload(t) /\ LoggedOut(t) /\ UNCHANGED oauth
    ELSE Initialized(t, NoUser, c, r)

(***************************************************************************)
(* The interceptor's answers                                               *)
(***************************************************************************)

\* The failure of the calls in `slots'; `refused' tells that the refresh or
\* the repeated call failed, which redirects before it throws.
CallsFail(t, slots, r, refused) ==
    IF refused /\ Redirects(t) /\ ~("task" \in slots /\ task[t].phase = "signout")
    THEN redirectOnAuthFailure(t)
    ELSE IF "task" \in slots
    THEN TaskFailed(t, Without(t, slots), r)
    ELSE /\ call' = [call EXCEPT ![t] = Without(t, slots)]
         /\ refresh' = [refresh EXCEPT ![t] = r]
         /\ UNCHANGED <<issued, valid, cookie, token, stored, page, user, ready, inst,
                        task, oauth, mixed, lost>>

\* An error other than Unauthenticated, on the first attempt: no refresh.
CallFails(t, s) ==
    /\ call[t][s].pc = "sent" /\ Fault
    /\ CallsFail(t, {s}, refresh[t], FALSE)
    /\ UNCHANGED <<accounts, scene, param, flows, uses, exit>>

\* Any error of the repeated call.
RetryFails(t, s) ==
    /\ call[t][s].pc = "resent"
    /\ IF call[t][s].token.live THEN Fault ELSE UNCHANGED faults
    /\ CallsFail(t, {s}, refresh[t], TRUE)
    /\ UNCHANGED <<accounts, scene, param, flows, uses, exit>>

\* The refresh failed, and with it every call that waited for it.
RefreshFails(t) ==
    /\ refresh[t].pc = "refused"
    /\ CallsFail(t, {s \in Slot : call[t][s].pc = "waiting"}, NoRefresh, TRUE)
    /\ UNCHANGED <<accounts, scene, faults, param, flows, uses, exit>>

\* Tabs that know another user than u, who the cookie now stands for.
Strangers(u) ==
    {x \in Tab : {user[x], token[x].user, stored[x].user, task[x].who} \ {NoUser, u} # {}}

\* The refresh succeeded.  A repeated SignOut carries the new cookie.
RefreshAnswered(t) ==
    /\ refreshAccessToken(t)
    /\ task' = IF task[t].phase = "signout" /\ call[t]["task"].pc = "waiting"
               THEN [task EXCEPT ![t].id = refresh[t].id] ELSE task
    /\ mixed' = mixed \union Strangers(issued[refresh[t].id])
    /\ UNCHANGED <<accounts, scene, faults, page, user, ready, inst, oauth, param, flows,
                   uses, exit, lost>>

(***************************************************************************)
(* The pages                                                               *)
(***************************************************************************)

\* The user may act: nothing is waited for, and no effect is due.
Idle(t) ==
    /\ Mounted(t) /\ task[t].phase = "none"
    /\ page[t] # "callback"
    /\ ~(page[t] = "auth" /\ user[t] # NoUser)

onlyPages == <<accounts, scene, faults, param, flows, uses, exit>>

\* An address typed, a bookmark, a reload.
Visit(t, p) ==
    /\ (page[t] = "unopened" /\ t \in scene.tabs) \/ Idle(t)
    /\ Unload(t) /\ Load(t, p, stored[t])
    /\ UNCHANGED <<oauth, onlyPages>>

\* Navigation.tsx and UserMenu.tsx: the links offered to u.
NavLinks(u) ==
    IF u = NoUser THEN {"explore", "auth"}
    ELSE {"root", "explore", "attachments", "inbox", "profile", "archived", "setting"}

\* SignIn.tsx and SignUp.tsx link to each other.
AuthLinks == {<<"auth", "signup">>, <<"signup", "auth">>}

Navigate(t, p) ==
    /\ Idle(t) /\ p # page[t]
    /\ \/ page[t] \in RootPages /\ p \in NavLinks(user[t])
       \/ <<page[t], p>> \in AuthLinks
    /\ page' = [page EXCEPT ![t] = p]
    /\ UNCHANGED <<tokenVars, user, ready, inst, task, oauth, mixed, lost, onlyPages>>

\* SignIn.tsx: a user who is signed in has no business there.
SignInRedirect(t) ==
    /\ Mounted(t) /\ task[t].phase = "none"
    /\ page[t] = "auth" /\ user[t] # NoUser
    /\ Unload(t) /\ Load(t, "root", stored[t])
    /\ UNCHANGED <<oauth, onlyPages>>

\* A query of the page: the notifications that Navigation.tsx shows, and more.
DataCall(t) ==
    /\ Mounted(t) /\ page[t] \in RootPages
    /\ call[t]["data"].pc = "none"
    /\ Send(t, "data")
    /\ UNCHANGED <<issued, valid, cookie, refresh, page, user, ready, inst, task, oauth,
                   mixed, lost, onlyPages>>

DataAnswered(t) ==
    /\ Accepts(t, "data")
    /\ call' = [call EXCEPT ![t]["data"] = NoCall]
    /\ UNCHANGED <<issued, valid, cookie, token, stored, refresh, page, user, ready, inst,
                   task, oauth, mixed, lost, onlyPages>>

Begin(t, phase, from, u) ==
    task' = [task EXCEPT ![t] = [phase |-> phase, from |-> from, who |-> u, id |-> 0]]

\* PasswordSignInForm.tsx on the sign-in pages.
SignInSubmit(t, u) ==
    /\ Idle(t) /\ page[t] \in {"auth", "admin"}
    /\ Begin(t, "signin", "form", u)
    /\ UNCHANGED <<tokenVars, page, user, ready, inst, oauth, mixed, lost, onlyPages>>

\* SignUp.tsx: the account first, then the sign-in.
SignUpSubmit(t, u) ==
    /\ Idle(t) /\ page[t] = "signup"
    /\ Begin(t, "create", "signup", u)
    /\ UNCHANGED <<tokenVars, page, user, ready, inst, oauth, mixed, lost, onlyPages>>

UserCreated(t) ==
    /\ task[t].phase = "create"
    /\ task[t].who \notin accounts
    /\ accounts' = accounts \union {task[t].who}
    /\ task' = [task EXCEPT ![t].phase = "signin"]
    /\ UNCHANGED <<tokenVars, scene, faults, page, user, ready, inst, oauth, param, flows,
                   uses, exit, mixed, lost>>

\* Mutant: the form goes home with the new token and the old user.
SignInOnly(t) ==
    LET u == task[t].who
    IN  /\ task[t].phase = "signin" /\ NewId \in Ids
        /\ u \in accounts
        /\ Issue(u)
        /\ valid' = valid \union {NewId}
        /\ cookie' = NewId
        /\ setAccessToken(t, [user |-> u, live |-> TRUE])
        /\ task' = [task EXCEPT ![t] = NoTask]
        /\ page' = [page EXCEPT ![t] = "root"]
        /\ mixed' = (mixed \union Strangers(u)) \ {t}
        /\ exit' = "none"
        /\ UNCHANGED <<call, refresh, accounts, scene, faults, user, ready, inst, oauth, param,
                       flows, uses, lost>>

\* signIn answers: the cookie and the token are set, initialize starts.
SignInAnswered(t) ==
    LET u == task[t].who
        a == [user |-> u, live |-> TRUE]
    IN  /\ task[t].phase = "signin" /\ NewId \in Ids
        /\ task[t].from = "callback" \/ u \in accounts
        /\ accounts' = accounts \union {u}
        /\ Issue(u)
        /\ valid' = valid \union {NewId}
        /\ cookie' = NewId
        /\ setAccessToken(t, a)
        /\ task' = [task EXCEPT ![t].phase = "me", ![t].who = NoUser]
        /\ call' = [call EXCEPT ![t]["task"] = [pc |-> "sent", token |-> a]]
        /\ mixed' = (mixed \union Strangers(u)) \ {t}
        /\ exit' = "none"
        /\ UNCHANGED <<refresh, scene, faults, page, user, ready, inst, oauth, param, flows,
                       uses, lost>>

\* A form's call is refused (a wrong password, a name taken) or gets no answer.
FormFails(t) ==
    /\ task[t].phase \in {"create", "signin"}
    /\ \/ Fault
       \/ task[t].phase = "create" /\ task[t].who \in accounts /\ UNCHANGED faults
       \/ task[t].from = "form" /\ task[t].who \notin accounts /\ UNCHANGED faults
    /\ task' = [task EXCEPT ![t] = NoTask]
    /\ UNCHANGED <<tokenVars, accounts, scene, page, user, ready, inst, oauth, param, flows,
                   uses, exit, mixed, lost>>

\* UserMenu.tsx
SignOut(t) ==
    /\ Idle(t) /\ page[t] \in RootPages /\ user[t] # NoUser
    /\ task' = [task EXCEPT ![t] =
           [phase |-> "signout", from |-> "load", who |-> user[t], id |-> cookie]]
    /\ Send(t, "task")
    /\ UNCHANGED <<issued, valid, cookie, refresh, page, user, ready, inst, oauth, mixed,
                   lost, onlyPages>>

(***************************************************************************)
(* Sign-in by an identity provider: SignIn.tsx, oauth.ts, AuthCallback.tsx *)
(***************************************************************************)

\* A fresh state is stored and the tab leaves for the provider with it.
StartOAuth(t) ==
    /\ Idle(t) /\ page[t] = "auth" /\ accounts # {} /\ flows < scene.flows
    /\ flows' = flows + 1
    /\ oauth' = [oauth EXCEPT ![t] = [id |-> flows + 1, old |-> FALSE]]
    /\ param' = [param EXCEPT ![t] = flows + 1]
    /\ page' = [page EXCEPT ![t] = "away"]
    /\ UNCHANGED <<tokenVars, accounts, scene, faults, user, ready, inst, task, uses, exit,
                   mixed, lost>>

\* Ten minutes pass.
OAuthExpires(t) ==
    /\ oauth[t].id # 0 /\ ~oauth[t].old
    /\ oauth' = [oauth EXCEPT ![t].old = TRUE]
    /\ UNCHANGED <<tokenVars, page, user, ready, inst, task, mixed, lost, onlyPages>>

\* The provider sends the tab back, with the state and a code, or with neither.
\* A later visit of the callback's address brings the same parameters.
OAuthReturns(t) ==
    /\ page[t] = "away" \/ (Idle(t) /\ param[t] # 0)
    /\ param' \in {param, [param EXCEPT ![t] = 0]}
    /\ Unload(t) /\ Load(t, "callback", stored[t])
    /\ UNCHANGED <<accounts, scene, faults, oauth, flows, uses, exit>>

\* validateOAuthState: whatever the verdict, the stored state is used up.
StateMatches(t) == oauth[t].id # 0 /\ ~oauth[t].old /\ oauth[t].id = param[t]

\* Mutant: an accepted state is kept.
StateKept(t) == IF StateMatches(t) THEN oauth[t] ELSE NoState

StateLeft(t) == NoState

Callback(t, u) ==
    /\ Mounted(t) /\ page[t] = "callback" /\ task[t].phase = "none"
    /\ page' = [page EXCEPT ![t] = Landing("message", inst[t])]
    /\ IF param[t] = 0
       THEN UNCHANGED <<oauth, uses, task>>
       ELSE /\ oauth' = [oauth EXCEPT ![t] = StateLeft(t)]
            /\ IF StateMatches(t)
               THEN /\ uses' = [uses EXCEPT ![param[t]] = IF @ < 2 THEN @ + 1 ELSE @]
                    /\ Begin(t, "signin", "callback", u)
               ELSE UNCHANGED <<uses, task>>
    /\ UNCHANGED <<tokenVars, accounts, scene, faults, user, ready, inst, param, flows, exit,
                   mixed, lost>>

(***************************************************************************)
(* The specification                                                       *)
(***************************************************************************)

\* The token actions of `ClientTokens', which leave the pages alone.
TokenStep(t) ==
    /\ \/ TokenExpires(t)
       \/ \E s \in Slot : Unauthorized(t, s)
       \/ Rotate(t)
    /\ UNCHANGED <<accounts, scene, faults, page, user, ready, inst, task, oauth, param,
                   flows, uses, exit, mixed, lost>>

NoRefreshAnswer(t) ==
    /\ RefreshLost(t) /\ Fault
    /\ UNCHANGED <<accounts, scene, page, user, ready, inst, task, oauth, param, flows,
                   uses, exit, mixed, lost>>

\* What happens without the user: answers and the effects they set off.
Answer(t) ==
    \/ \E i \in Inst \ {"loading"} : InstanceInit(t, i)
    \/ MeAnswered(t) \/ SettingsAnswered(t) \/ SignOutAnswered(t)
    \/ \E s \in Slot : CallFails(t, s) \/ RetryFails(t, s)
    \/ RefreshFails(t) \/ RefreshAnswered(t)
    \/ TokenStep(t) \/ NoRefreshAnswer(t)
    \/ UserCreated(t) \/ SignInAnswered(t) \/ FormFails(t)

UserStep(t) ==
    \/ \E p \in scene.pages : Visit(t, p) \/ Navigate(t, p)
    \/ DataCall(t) \/ DataAnswered(t) \/ SignInRedirect(t)
    \/ \E u \in scene.users : SignInSubmit(t, u) \/ SignUpSubmit(t, u) \/ Callback(t, u)
    \/ SignOut(t) \/ StartOAuth(t) \/ OAuthExpires(t) \/ OAuthReturns(t)

Next == \E t \in Tab : Answer(t) \/ UserStep(t)

\* The server answers what it is asked; the user is free.
Fairness ==
    \A t \in Tab :
        /\ WF_vars(\E i \in Inst \ {"loading"} : InstanceInit(t, i))
        /\ WF_vars(\E s \in Slot : Unauthorized(t, s) /\ TokenStep(t))
        /\ WF_vars(Rotate(t) /\ TokenStep(t))
        /\ WF_vars(MeAnswered(t)) /\ WF_vars(SettingsAnswered(t))
        /\ WF_vars(\E s \in Slot : RetryFails(t, s))
        /\ WF_vars(RefreshFails(t)) /\ WF_vars(RefreshAnswered(t))

Spec == Init /\ [][Next]_vars /\ Fairness

(***************************************************************************)
(* Properties                                                              *)
(***************************************************************************)

\* The browser keeps its session: its cookie is a token the server accepts,
\* or the answer that replaces it is under way, unless a page load dropped
\* that answer.  The interceptor must not refresh twice with one cookie
\* (connect.ts, createTokenRefreshManager).
SessionKept ==
    \/ cookie \in valid \union {0}
    \/ \E t \in Tab : refresh[t].pc = "rotated"
    \/ lost

\* A tab acts for the user it shows: its token is that user's, unless the
\* browser changed user in another tab (auth-state.ts, AuthContext.tsx).
ActsAsShown ==
    \A t \in Tab :
        user[t] # NoUser /\ task[t].phase = "none" /\ token[t] # NoToken /\ t \notin mixed
            => token[t].user = user[t]

\* After a sign-out that met no refresh, the browser has no session until
\* somebody signs in (AuthContext.tsx, logout).
SignedOutStays == exit = "alone" => cookie = 0

\* A state stored for an OAuth flow is accepted once: reloading the callback,
\* or coming back to it, signs nobody in again (oauth.ts, validateOAuthState).
StateUsedOnce == \A f \in 1..MaxFlows : uses[f] <= 1

\* A page that was loaded is shown in the end, whatever fails (main.tsx waits
\* for both contexts).
LoadsEventually == \A t \in Tab : Opened(t) /\ ~Mounted(t) ~> ~Opened(t) \/ Mounted(t)
=============================================================================
