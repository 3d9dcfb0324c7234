---------------------------- MODULE ClientTokens ----------------------------
(***************************************************************************)
(* The tokens of one browser and the server's sessions.  Tabs share the    *)
(* refresh cookie; each has an access token in memory and a copy in its    *)
(* sessionStorage.  A protected call that finds its token refused waits    *)
(* for a refresh, which all calls of the tab share, and is sent once more. *)
(* `ClientSession' adds the pages that make the calls.                     *)
(***************************************************************************)
EXTENDS Naturals, Sequences

CONSTANTS
    Tab,            \* tabs of one browser
    User,
    NoUser,
    MaxTokens       \* bound: refresh tokens the server issues

ASSUME NoUserAssumption == NoUser \notin User
ASSUME MaxTokensAssumption == MaxTokens \in Nat \ {0}

VARIABLES
    issued,     \* server: owners of the refresh tokens issued, in order
    valid,      \* server: the refresh tokens it still accepts
    cookie,     \* browser: its refresh token, 0 if none
    token,      \* per tab: the access token in memory
    stored,     \* per tab: the access token in sessionStorage
    call,       \* per tab and slot: a protected call through the interceptor
    refresh     \* per tab: the refresh in flight

tokenVars == <<issued, valid, cookie, token, stored, call, refresh>>

\* A tab's contexts and forms run one protected call at a time, its queries
\* another.
Slot == {"task", "data"}

Ids == 1..MaxTokens

\* An access token names its user and serves until it expires.
NoToken == [user |-> NoUser, live |-> FALSE]
AccessToken == [user : User, live : BOOLEAN] \union {NoToken}

NoCall == [pc |-> "none", token |-> NoToken]
Call == [pc : {"none", "sent", "waiting", "resent"}, token : AccessToken]

NoRefresh == [pc |-> "none", id |-> 0]
Refresh == [pc : {"none", "sent", "rotated", "refused"}, id : 0..MaxTokens]

TokensTypeOK ==
    /\ issued \in Seq(User) /\ Len(issued) <= MaxTokens
    /\ valid \subseteq Ids
    /\ cookie \in 0..MaxTokens
    /\ token \in [Tab -> AccessToken]
    /\ stored \in [Tab -> AccessToken]
    /\ call \in [Tab -> [Slot -> Call]]
    /\ refresh \in [Tab -> Refresh]

\* A browser that was closed with a session of u, or with none.
TokensInit(u) ==
    /\ issued = IF u = NoUser THEN <<>> ELSE <<u>>
    /\ valid = DOMAIN issued
    /\ cookie = Len(issued)
    /\ token = [t \in Tab |-> NoToken]
    /\ stored = [t \in Tab |-> NoToken]
    /\ call = [t \in Tab |-> [s \in Slot |-> NoCall]]
    /\ refresh = [t \in Tab |-> NoRefresh]

(***************************************************************************)
(* auth-state.ts                                                           *)
(***************************************************************************)

\* Only the stored copy is tested for expiry; what is in memory is returned
\* as it is.
Held(memory, copy) ==
    IF memory = NoToken /\ copy.live THEN copy ELSE memory

\* What reading leaves in sessionStorage: an expired copy is removed.
Kept(memory, copy) ==
    IF memory = NoToken /\ ~copy.live THEN NoToken ELSE copy

setAccessToken(t, a) ==
    /\ token' = [token EXCEPT ![t] = a]
    /\ stored' = [stored EXCEPT ![t] = a]

clearAccessToken(t) == setAccessToken(t, NoToken)

\* Reading the token, as every call does.
getAccessToken(t) ==
    /\ token' = [token EXCEPT ![t] = Held(token[t], stored[t])]
    /\ stored' = [stored EXCEPT ![t] = Kept(token[t], stored[t])]

Expired(a) == IF a.live THEN [a EXCEPT !.live = FALSE] ELSE a

\* The clock passes expiresAt: every copy the tab has of the token dies.
TokenExpires(t) ==
    /\ token[t].live \/ stored[t].live
    /\ token' = [token EXCEPT ![t] = Expired(token[t])]
    /\ stored' = [stored EXCEPT ![t] = Expired(stored[t])]
    /\ call' = [call EXCEPT ![t] =
           [s \in Slot |-> [call[t][s] EXCEPT !.token = Expired(call[t][s].token)]]]
    /\ UNCHANGED <<issued, valid, cookie, refresh>>

(***************************************************************************)
(* connect.ts                                                              *)
(***************************************************************************)

\* A call as the interceptor sends it, with the token read at that moment.
SentCall(memory, copy) == [pc |-> "sent", token |-> Held(memory, copy)]

Send(t, s) ==
    /\ getAccessToken(t)
    /\ call' = [call EXCEPT ![t][s] = SentCall(token[t], stored[t])]

\* The server accepts a protected call by its token alone.
Accepts(t, s) == call[t][s].pc \in {"sent", "resent"} /\ call[t][s].token.live

\* Mutant: every refused call starts a refresh of its own.
RefreshPerCall(t, s) ==
    /\ call[t][s].pc = "sent"
    /\ ~call[t][s].token.live
    /\ call' = [call EXCEPT ![t][s].pc = "waiting"]
    /\ refresh' = [refresh EXCEPT ![t] = [pc |-> "sent", id |-> cookie]]
    /\ UNCHANGED <<issued, valid, cookie, token, stored>>

\* The first refusal: join the tab's refresh or start it, with the cookie the
\* browser has now.
Unauthorized(t, s) ==
    /\ call[t][s].pc = "sent"
    /\ ~call[t][s].token.live
    /\ call' = [call EXCEPT ![t][s].pc = "waiting"]
    /\ refresh' = IF refresh[t].pc # "none" THEN refresh
                  ELSE [refresh EXCEPT ![t] = [pc |-> "sent", id |-> cookie]]
    /\ UNCHANGED <<issued, valid, cookie, token, stored>>

\* The server's new session for u.
Issue(u) == issued' = Append(issued, u)
NewId == Len(issued) + 1

\* The server's RefreshToken: the token presented is replaced by a new one; at
\* the bound it fails.
Rotate(t) ==
    /\ refresh[t].pc = "sent"
    /\ IF refresh[t].id \in valid /\ NewId \in Ids
       THEN /\ Issue(issued[refresh[t].id])
            /\ valid' = (valid \ {refresh[t].id}) \union {NewId}
            /\ refresh' = [refresh EXCEPT ![t] = [pc |-> "rotated", id |-> NewId]]
       ELSE /\ refresh' = [refresh EXCEPT ![t].pc = "refused"]
            /\ UNCHANGED <<issued, valid>>
    /\ UNCHANGED <<cookie, token, stored, call>>

\* The call for a new token gets no answer.
RefreshLost(t) ==
    /\ refresh[t].pc = "sent"
    /\ refresh' = [refresh EXCEPT ![t].pc = "refused"]
    /\ UNCHANGED <<issued, valid, cookie, token, stored, call>>

\* The waiting calls of a tab, repeated with its new token.
Repeated(t, a) ==
    [s \in Slot |-> IF call[t][s].pc = "waiting"
                    THEN [pc |-> "resent", token |-> a]
                    ELSE call[t][s]]

\* The answer with the new cookie and token; every call that waited goes again.
refreshAccessToken(t) ==
    LET a == [user |-> issued[refresh[t].id], live |-> TRUE]
    IN  /\ refresh[t].pc = "rotated"
        /\ cookie' = refresh[t].id
        /\ setAccessToken(t, a)
        /\ call' = [call EXCEPT ![t] = Repeated(t, a)]
        /\ refresh' = [refresh EXCEPT ![t] = NoRefresh]
        /\ UNCHANGED <<issued, valid>>
=============================================================================
