------------------------------ MODULE MemoExplorer ------------------------------
(***************************************************************************)
(* The pages with a list of memos and the explorer beside it.  The list is *)
(* filtered for the page (useMemoFilters.ts); the explorer counts the      *)
(* memos of a user, or of everyone (MainLayout.tsx).  A profile's page     *)
(* reads its user by a query of that name, MainLayout by calls of its own. *)
(***************************************************************************)
EXTENDS Naturals, SequencesExt

CONSTANTS
    MaxVisits,      \* bound: what the user does
    MaxFailed       \* bound: calls that fail

VARIABLES
    path,           \* the page shown
    profileUser,    \* MainLayout's profileUserName
    requests,       \* its calls of getUser, in the order sent
    users,          \* per name: the query for a profile's user
    stats,          \* whose stats are loaded, everyone's memos among them
    chosen,         \* in MemoFilterContext: a shortcut, a filter, that memos be pinned
    visits, failed,
    sent,           \* history: calls of getUser so far
    taken           \* history: the call answered last, and not failed

vars == <<path, profileUser, requests, users, stats, chosen, visits, failed, sent, taken>>

\* The tab is Ann's; Bob has an account, and nobody is called Nil.
Me == "ann"
Named == {"ann", "bob", "nil"}
Known == {"ann", "bob"}
Page == {"home", "explore", "archived", "elsewhere"} \union Named
Nobody == "nobody"
Everyone == "everyone"

Conditions == {"shortcut", "filter", "pinned"}

\* The memos: whose, for whom, whether archived, what conditions they meet.
Memo == [creator : Known, visibility : {"PUBLIC", "PRIVATE"}, archived : BOOLEAN,
         meets : SUBSET Conditions]

TypeOK ==
    /\ path \in Page
    /\ profileUser \in Known \union {Nobody}
    /\ \A i \in DOMAIN requests : requests[i] \in [user : Named, id : 1..MaxVisits]
    /\ users \in [Named -> {"none", "loading", "found", "failed"}]
    /\ stats \subseteq (Known \union {Everyone})
    /\ chosen \subseteq Conditions
    /\ visits \in 0..MaxVisits /\ failed \in 0..MaxFailed
    /\ sent \in 0..MaxVisits /\ taken \in 0..MaxVisits

\* Ann's page is shown, everyone's memos counted until her own are.
Init ==
    /\ path = "home"
    /\ profileUser = Nobody
    /\ requests = <<>>
    /\ users = [u \in Named |-> "none"]
    /\ stats = {}
    /\ chosen = {}
    /\ visits = 0 /\ failed = 0 /\ sent = 0 /\ taken = 0

\* The effect of a new path: a profile's user is asked for, another page
\* forgets the user.  A page outside the layout unmounts it, and answers come
\* to nobody.  The filters are the page's, the shortcut stays selected.
Visit(p) ==
    /\ p # path
    /\ visits < MaxVisits /\ visits' = visits + 1
    /\ path' = p
    /\ IF p \in Named
       THEN /\ sent' = sent + 1
            /\ requests' = Append(requests, [user |-> p, id |-> sent'])
            /\ users' = [users EXCEPT ![p] = IF @ = "found" THEN @ ELSE "loading"]
            /\ UNCHANGED <<profileUser, taken>>
       ELSE /\ profileUser' = Nobody
            /\ requests' = IF p = "elsewhere" THEN <<>> ELSE requests
            /\ taken' = 0
            /\ UNCHANGED <<users, sent>>
    /\ chosen' = chosen \ {"filter", "pinned"}
    /\ UNCHANGED <<stats, failed>>

\* getUser answers, in whatever order, a call that is not the last one too.
GetUserAnswered(i) ==
    /\ requests[i].user \in Known
    /\ profileUser' = requests[i].user
    /\ taken' = requests[i].id
    /\ requests' = RemoveAt(requests, i)
    /\ UNCHANGED <<path, users, stats, chosen, visits, failed, sent>>

GetUserFailed(i) ==
    /\ requests[i].user \in Known => failed < MaxFailed
    /\ failed' = IF requests[i].user \in Known THEN failed + 1 ELSE failed
    /\ profileUser' = Nobody
    /\ taken' = 0
    /\ requests' = RemoveAt(requests, i)
    /\ UNCHANGED <<path, users, stats, chosen, visits, sent>>

\* useUser: the query of the profile's page.
UserFound(u) ==
    /\ users[u] = "loading" /\ u \in Known
    /\ users' = [users EXCEPT ![u] = "found"]
    /\ UNCHANGED <<path, profileUser, requests, stats, chosen, visits, failed, sent, taken>>

UserNotFound(u) ==
    /\ users[u] = "loading" /\ u \notin Known
    /\ users' = [users EXCEPT ![u] = "failed"]
    /\ UNCHANGED <<path, profileUser, requests, stats, chosen, visits, failed, sent, taken>>

\* The user whose stats are asked for: none on everyone's page and that of the
\* archive, beside which everyone's memos are counted, archived ones not.
statsUserName ==
    CASE path = "home" -> Me
      [] path \in Named -> profileUser
      [] OTHER -> Nobody

\* The queries for the stats and for the memos (useUserStats, useMemos).
StatsLoaded(u) ==
    /\ path # "elsewhere"
    /\ u \in {statsUserName, Everyone} \ (stats \union {Nobody})
    /\ stats' = stats \union {u}
    /\ UNCHANGED <<path, profileUser, requests, users, chosen, visits, failed, sent, taken>>

\* The explorer offers the shortcuts on the home page, and filters on each.
choose(c) ==
    /\ IF c = "shortcut" THEN path = "home" ELSE path # "elsewhere"
    /\ visits < MaxVisits /\ visits' = visits + 1
    /\ chosen' = IF c \in chosen THEN chosen \ {c} ELSE chosen \union {c}
    /\ UNCHANGED <<path, profileUser, requests, users, stats, failed, sent, taken>>

Next ==
    \/ \E p \in Page : Visit(p)
    \/ \E i \in DOMAIN requests : GetUserAnswered(i) \/ GetUserFailed(i)
    \/ \E u \in Named : UserFound(u) \/ UserNotFound(u)
    \/ \E u \in Known \union {Everyone} : StatsLoaded(u)
    \/ \E c \in Conditions : choose(c)

Spec == Init /\ [][Next]_vars

\* useFilteredMemoStats: whose memos the explorer counts.
counted ==
    IF statsUserName \in stats THEN statsUserName
    ELSE IF Everyone \in stats THEN Everyone ELSE Nobody

\* The conditions a page puts on its memos: whose they are, the filters, at
\* home the shortcut, at home and on a profile's page that they be pinned.
memoFilter(m) ==
    LET ignored == (IF path = "home" THEN {} ELSE {"shortcut"})
                   \union (IF path = "home" \/ path \in Named THEN {} ELSE {"pinned"})
    IN  /\ CASE path \in {"home", "archived"} -> m.creator = Me
             [] path = "explore" -> m.visibility = "PUBLIC"
             [] path \in Named -> m.creator = path
             [] OTHER -> FALSE
        /\ chosen \ ignored \subseteq m.meets

\* What a page lists: what its user may see, in its state, by its conditions,
\* and a profile's page once it has its user.
listed ==
    {m \in Memo :
        /\ m.creator = Me \/ m.visibility = "PUBLIC"
        /\ m.archived = (path = "archived")
        /\ path \in Named => users[path] = "found"
        /\ memoFilter(m)}

Creators == {m.creator : m \in listed}

\* Once all is loaded, the explorer counts the memos of the user whose memos
\* are listed, or everyone's beside a list of everyone's; on a profile's page
\* if the last call of getUser was the last answered (MainLayout.tsx:37).
ExplorerFollows ==
    requests = <<>> /\ {statsUserName, Everyone} \subseteq stats \union {Nobody} =>
        /\ path = "home" => Creators = {counted}
        /\ path \in Known /\ users[path] = "found" /\ taken = sent => Creators = {counted}
        /\ path = "explore" => Creators = Known /\ counted = Everyone
=============================================================================
