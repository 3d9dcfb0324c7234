--------------------------------- MODULE Inbox ---------------------------------
(***************************************************************************)
(* The inbox (pages/Inboxes.tsx): the messages about comments, each with   *)
(* the memos it is about, which can be opened, archived and deleted        *)
(* (components/Inbox/MemoCommentMessage.tsx).  The list comes from the     *)
(* query cache and is read again only when it is old enough: what is done  *)
(* to a message does not change it.                                        *)
(***************************************************************************)
EXTENDS Naturals

CONSTANTS
    Message,
    MaxAsked,       \* bound: what the user does to messages
    MaxFetches,     \* bound: how often the list is read
    MaxLost         \* bound: calls and reads that fail

VARIABLES
    status,         \* of each message, at the server
    fetched,        \* of each message, in the query cache
    reading,        \* where a reading of the list is, and what the server answered
    onPage,         \* the inbox is shown
    filter,
    memos,          \* of each message: the memos it is about
    requests,       \* to the server: archive or delete a message
    asked,          \* what the user asked of a message last, and was not refused
    spent           \* the clicks, reads and faults so far

vars == <<status, fetched, reading, onPage, filter, memos, requests, asked, spent>>

\* In the order a message goes through them.
Status == {"NONE", "UNREAD", "ARCHIVED", "DELETED"}
Rank == [NONE |-> 0, UNREAD |-> 1, ARCHIVED |-> 2, DELETED |-> 3]

TypeOK ==
    /\ status \in [Message -> Status]
    /\ fetched \in [Message -> Status]
    /\ reading \in [step : {"no", "asked", "answered"}, list : [Message -> Status]]
    /\ onPage \in BOOLEAN
    /\ filter \in {"all", "unread", "archived"}
    /\ memos \in [Message -> {"loading", "loaded", "failed"}]
    /\ requests \subseteq ({"ARCHIVED", "DELETED"} \X Message)
    /\ asked \in [Message -> {"NONE", "ARCHIVED", "DELETED"}]
    /\ spent \in [asked : 0..MaxAsked, fetches : 0..MaxFetches, lost : 0..MaxLost]

Init ==
    /\ status = [m \in Message |-> "UNREAD"]
    /\ fetched = [m \in Message |-> "NONE"]
    /\ reading = [step |-> "no", list |-> fetched]
    /\ onPage = FALSE
    /\ filter = "all"
    /\ memos = [m \in Message |-> "loading"]
    /\ requests = {}
    /\ asked = [m \in Message |-> "NONE"]
    /\ spent = [asked |-> 0, fetches |-> 0, lost |-> 0]

(***************************************************************************)
(* The page                                                                *)
(***************************************************************************)

listed(list, f) ==
    {m \in Message : CASE f = "all" -> list[m] \in {"UNREAD", "ARCHIVED"}
                       [] f = "unread" -> list[m] = "UNREAD"
                       [] f = "archived" -> list[m] = "ARCHIVED"}
notifications == IF onPage THEN listed(fetched, filter) ELSE {}

\* A message that leaves the page forgets what it loaded.
kept(shown) == memos' = [m \in Message |-> IF m \in shown THEN memos[m] ELSE "loading"]

Read ==
    /\ reading.step = "no" /\ spent.fetches < MaxFetches
    /\ reading' = [reading EXCEPT !.step = "asked"]
    /\ spent' = [spent EXCEPT !.fetches = @ + 1]

\* The page is opened; it reads the list unless it did so a short while ago.
useNotifications ==
    /\ ~onPage /\ onPage' = TRUE /\ filter' = "all"
    /\ \/ Read
       \/ /\ reading.step # "no" \/ \E m \in Message : fetched[m] # "NONE"
          /\ UNCHANGED <<reading, spent>>
    /\ UNCHANGED <<status, fetched, memos, requests, asked>>

\* The window is looked at again, and the list is old.
refetchOnWindowFocus ==
    /\ onPage /\ Read
    /\ UNCHANGED <<status, fetched, onPage, filter, memos, requests, asked>>

setFilter ==
    /\ onPage
    /\ filter' \in {"all", "unread", "archived"} \ {filter}
    /\ kept(listed(fetched, filter'))
    /\ UNCHANGED <<status, fetched, reading, onPage, requests, asked, spent>>

Listed ==
    /\ reading.step = "answered"
    /\ fetched' = reading.list
    /\ reading' = [reading EXCEPT !.step = "no"]
    /\ kept(IF onPage THEN listed(reading.list, filter) ELSE {})
    /\ UNCHANGED <<status, onPage, filter, requests, asked, spent>>

\* The activity, then the memo and the comment, all there or not.
fetchActivity(m) ==
    /\ m \in notifications /\ memos[m] = "loading"
    /\ \/ memos' = [memos EXCEPT ![m] = "loaded"] /\ UNCHANGED spent
       \/ /\ spent.lost < MaxLost /\ spent' = [spent EXCEPT !.lost = @ + 1]
          /\ memos' = [memos EXCEPT ![m] = "failed"]
    /\ UNCHANGED <<status, fetched, reading, onPage, filter, requests, asked>>

Ask(to, m) ==
    /\ spent.asked < MaxAsked
    /\ spent' = [spent EXCEPT !.asked = @ + 1]
    /\ requests' = requests \union {<<to, m>>}
    /\ asked' = [asked EXCEPT ![m] = IF Rank[to] > Rank[@] THEN to ELSE @]

handleArchiveMessage(m) ==
    /\ m \in notifications /\ memos[m] = "loaded" /\ fetched[m] = "UNREAD"
    /\ Ask("ARCHIVED", m)
    /\ UNCHANGED <<status, fetched, reading, onPage, filter, memos>>

\* Offered for a message that is not unread, or whose memos cannot be had.
handleDeleteMessage(m) ==
    /\ m \in notifications
    /\ memos[m] = "failed" \/ (memos[m] = "loaded" /\ fetched[m] # "UNREAD")
    /\ Ask("DELETED", m)
    /\ UNCHANGED <<status, fetched, reading, onPage, filter, memos>>

\* The comment is opened; an unread message is archived as the page is left.
handleNavigateToMemo(m) ==
    /\ m \in notifications /\ memos[m] = "loaded"
    /\ onPage' = FALSE
    /\ kept({})
    /\ IF fetched[m] = "UNREAD" THEN Ask("ARCHIVED", m) ELSE UNCHANGED <<requests, asked, spent>>
    /\ UNCHANGED <<status, fetched, reading, filter>>

(***************************************************************************)
(* The server                                                              *)
(***************************************************************************)

ListUserNotifications ==
    /\ reading.step = "asked"
    /\ reading' = [step |-> "answered", list |-> status]
    /\ UNCHANGED <<status, fetched, onPage, filter, memos, requests, asked, spent>>

\* A message that is gone stays so.
UpdateUserNotification(m) ==
    /\ <<"ARCHIVED", m>> \in requests
    /\ status' = [status EXCEPT ![m] = IF @ = "DELETED" THEN @ ELSE "ARCHIVED"]
    /\ requests' = requests \ {<<"ARCHIVED", m>>}
    /\ UNCHANGED <<fetched, reading, onPage, filter, memos, asked, spent>>

DeleteUserNotification(m) ==
    /\ <<"DELETED", m>> \in requests
    /\ status' = [status EXCEPT ![m] = "DELETED"]
    /\ requests' = requests \ {<<"DELETED", m>>}
    /\ UNCHANGED <<fetched, reading, onPage, filter, memos, asked, spent>>

\* A call fails before the server acted, or the list cannot be read.
Lost ==
    /\ spent.lost < MaxLost /\ spent' = [spent EXCEPT !.lost = @ + 1]
    /\ \/ \E r \in requests :
             /\ requests' = requests \ {r}
             /\ asked' = [asked EXCEPT ![r[2]] = "NONE"]
             /\ UNCHANGED reading
       \/ /\ reading.step # "no" /\ reading' = [reading EXCEPT !.step = "no"]
          /\ UNCHANGED <<requests, asked>>
    /\ UNCHANGED <<status, fetched, onPage, filter, memos>>

Next ==
    \/ useNotifications \/ refetchOnWindowFocus \/ setFilter \/ Listed
    \/ \E m \in Message : \/ fetchActivity(m) \/ handleArchiveMessage(m)
                          \/ handleDeleteMessage(m) \/ handleNavigateToMemo(m)
                          \/ UpdateUserNotification(m) \/ DeleteUserNotification(m)
    \/ ListUserNotifications \/ Lost

Spec == Init /\ [][Next]_vars

(***************************************************************************)
(* What should be                                                          *)
(***************************************************************************)

\* Whatever list was shown when it was done, however old: with no call under
\* way a message opened or archived is not unread and one deleted is gone, and
\* no list is ahead of the server (MemoCommentMessage.tsx:73).
InboxSettles ==
    /\ requests = {} => \A m \in Message : Rank[status[m]] >= Rank[asked[m]]
    /\ \A m \in Message : Rank[fetched[m]] <= Rank[status[m]]
=============================================================================
