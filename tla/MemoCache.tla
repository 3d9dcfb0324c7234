------------------------------- MODULE MemoCache -------------------------------
(***************************************************************************)
(* One memo as the pages of a tab show it: the lists and the memo's own    *)
(* page each have a copy in the query cache.  A task ticked, the memo's    *)
(* menu and its sidebar change the memo by mutations that show their       *)
(* change at once on its own page and have the lists fetched again;        *)
(* reactions call the server without that.                                 *)
(***************************************************************************)
EXTENDS Naturals, SequencesExt

CONSTANTS
    MaxClicks,      \* bound: what the user does
    MaxFails        \* bound: calls that fail or are tried again

VARIABLES
    server,     \* the memo stored
    page,       \* the page shown
    cache,      \* per query: its data and whether it was invalidated
    fetch,      \* per query: a fetch under way
    calls,      \* the mutations and reactions under way, in the order clicked
    wanted,     \* history: the tasks as the user last left them
    clicks,     \* what the user did
    fails,      \* calls that failed
    muddled     \* history: what overlapped, and what was lost

vars == <<server, page, cache, fetch, calls, wanted, clicks, fails, muddled>>

\* A memo is the set of what is so of it; NoMemo stands for none.
Tasks == {"task1", "task2"}
Memo == SUBSET (Tasks \union {"pinned", "archived", "dated", "reacted"})
NoMemo == {"none"}

List == {"home", "archived"}
Query == List \union {"detail"}

Kind == {"update", "delete", "react"}
Call == [pc : {"sent", "applied", "read"}, kind : Kind, mask : Memo, val : Memo,
         prev : Memo \union {NoMemo}, at : Query, read : Memo \union {NoMemo}]
NoFetch == [pc |-> "none", val |-> NoMemo]

\* Calls that overlapped; a copy taken while another call was under way, and a
\* task ticked after that or on a list not fetched yet; the server taking calls
\* in another order; a list left while it was fetched; a call that failed, one
\* that failed after the server acted on it.
Muddle == {"overlap", "behind", "lapse", "order", "left", "failed", "lost"}

TypeOK ==
    /\ server \in Memo \union {NoMemo}
    /\ page \in Query
    /\ cache \in [Query -> [val : Memo \union {NoMemo}, invalid : BOOLEAN]]
    /\ fetch \in [Query -> [pc : {"none", "sent", "read"}, val : Memo \union {NoMemo}]]
    /\ \A i \in DOMAIN calls : calls[i] \in Call
    /\ wanted \in SUBSET Tasks
    /\ clicks \in 0..MaxClicks /\ fails \in 0..MaxFails
    /\ muddled \subseteq Muddle

\* A list is being fetched.
Init ==
    /\ server \in {{}, {"task1", "archived"}}
    /\ page = IF server = {} THEN "home" ELSE "archived"
    /\ cache = [q \in Query |-> [val |-> NoMemo, invalid |-> FALSE]]
    /\ fetch = [q \in Query |-> IF q = page THEN [NoFetch EXCEPT !.pc = "sent"] ELSE NoFetch]
    /\ calls = <<>>
    /\ wanted = server \intersect Tasks
    /\ clicks = 0 /\ fails = 0
    /\ muddled = {}

Note(what, cond) == IF cond THEN what ELSE {}
Fail == fails < MaxFails /\ fails' = fails + 1

(***************************************************************************)
(* Queries                                                                 *)
(***************************************************************************)

Sending(f, q) == [f EXCEPT ![q] = [NoFetch EXCEPT !.pc = "sent"]]

\* A page is shown.  Its query fetches if it was invalidated or has no data,
\* and may if its data is old enough.
Show(p, c, f) ==
    /\ page' = p
    /\ \/ fetch' = f /\ ~c[p].invalid /\ c[p].val # NoMemo
       \/ fetch' = f /\ f[p].pc # "none"
       \/ fetch' = Sending(f, p) /\ f[p].pc = "none"

\* The lists show the memos in their state (useMemoSorting.ts).
Listed(q, memo) ==
    IF q = "detail" \/ (memo # NoMemo /\ ("archived" \in memo) = (q = "archived"))
    THEN memo ELSE NoMemo

Visit(p) ==
    /\ clicks < MaxClicks /\ clicks' = clicks + 1
    /\ p # page
    /\ Show(p, cache, fetch)
    /\ muddled' = muddled \union Note({"overlap", "behind"}, p = "detail" /\ calls # <<>>)
    /\ UNCHANGED <<server, cache, calls, wanted, fails>>

\* The time shown with a memo leads to its own page.
handleGotoMemoDetailPage == Listed(page, cache[page].val) # NoMemo /\ Visit("detail")

\* The window is focused, and what is shown is old.
Refetch ==
    /\ fetch[page].pc = "none" /\ clicks < MaxClicks
    /\ clicks' = clicks + 1
    /\ fetch' = Sending(fetch, page)
    /\ muddled' = muddled \union Note({"overlap", "behind"}, calls # <<>>)
    /\ UNCHANGED <<server, page, cache, calls, wanted, fails>>

Fetched(q) ==
    /\ fetch[q].pc = "sent"
    /\ fetch' = [fetch EXCEPT ![q] = [pc |-> "read", val |-> Listed(q, server)]]
    /\ UNCHANGED <<server, page, cache, calls, wanted, clicks, fails, muddled>>

\* A memo that is gone or forbidden leaves the cache as it was, and the page
\* gives way to the one for that (here: the home page).
FetchAnswered(q) ==
    /\ fetch[q].pc = "read"
    /\ LET done == [fetch EXCEPT ![q] = NoFetch]
           gone == q = "detail" /\ fetch[q].val = NoMemo
       IN  /\ cache' = IF gone THEN cache
                       ELSE [cache EXCEPT ![q] = [val |-> fetch[q].val, invalid |-> FALSE]]
           /\ IF gone /\ page = "detail" THEN Show("home", cache', done)
              ELSE fetch' = done /\ UNCHANGED page
    /\ UNCHANGED <<server, calls, wanted, clicks, fails, muddled>>

(***************************************************************************)
(* Mutations                                                               *)
(***************************************************************************)

\* The memo as the page has it.
Shown == Listed(page, cache[page].val)

With(memo, c) == (memo \ c.mask) \union (c.val \intersect c.mask)

\* Mutant: the change shows when the server answers.
notYet(c) == cache["detail"]

\* onMutate: the change shows at once in the memo's own copy, if there is one.
optimistic(c) ==
    IF cache["detail"].val = NoMemo THEN cache["detail"]
    ELSE [cache["detail"] EXCEPT !.val = With(@, c)]

\* A call is sent.  A mutation first gives up a fetch of the memo's own copy
\* and shows its change.
Send(kind, mask, val) ==
    LET c == [pc |-> "sent", kind |-> kind, mask |-> mask, val |-> val,
              prev |-> cache["detail"].val, at |-> page, read |-> NoMemo]
    IN  /\ clicks < MaxClicks /\ clicks' = clicks + 1
        /\ Len(calls) < 2
        /\ Shown # NoMemo
        /\ calls' = Append(calls, c)
        /\ IF kind = "update"
           THEN /\ fetch' = [fetch EXCEPT !["detail"] = NoFetch]
                /\ cache' = [cache EXCEPT !["detail"] = optimistic(c)]
           ELSE UNCHANGED <<fetch, cache>>
        /\ UNCHANGED <<server, page, fails>>

Overlap == calls # <<>> \/ fetch["detail"].pc # "none"

\* Toggling a flag of the memo shown.
Toggle(f) == IF f \in Shown THEN Shown \ {f} ELSE Shown \union {f}

\* TaskListItem.tsx sends the content shown with one task ticked or not.
handleChange(task) ==
    /\ Send("update", Tasks, Toggle(task) \intersect Tasks)
    /\ wanted' = IF task \in Toggle(task) THEN wanted \union {task} ELSE wanted \ {task}
    /\ muddled' = muddled \union Note({"overlap"}, calls # <<>>)
                  \union Note({"lapse"},
                         \/ "behind" \in muddled
                         \/ page # "detail" /\ (calls # <<>> \/ fetch[page].pc # "none"))

\* One flag of the memo is changed, as the page has it.
change(f) ==
    /\ Send("update", {f}, Toggle(f) \intersect {f})
    /\ muddled' = muddled \union Note({"overlap"}, calls # <<>>)
    /\ UNCHANGED wanted

\* What MemoActionMenu.tsx offers for a memo of the user's.
MenuOffers == IF "archived" \in Shown THEN {"archived"} ELSE {"archived", "pinned"}

\* What MemoHeader.tsx offers beside the menu: the reactions and, on the home
\* page, the bookmark of a pinned memo.
HeaderOffers ==
    IF "archived" \in Shown THEN {}
    ELSE {"reacted"} \union (IF page = "home" THEN {"pinned"} \intersect Shown ELSE {})

handleTogglePinMemoBtnClick == "pinned" \in MenuOffers /\ change("pinned")
handleToggleMemoStatusClick == "archived" \in MenuOffers /\ change("archived")
unpinMemo == "pinned" \in HeaderOffers /\ change("pinned")

\* The sidebar's dates: leaving the field saves what is in it, which has no
\* seconds and so is another date even if nothing was typed.
handleSave == page = "detail" /\ change("dated")

confirmDeleteMemo ==
    /\ Send("delete", {}, {})
    /\ muddled' = muddled \union Note({"overlap"}, Overlap)
    /\ UNCHANGED wanted

\* A reaction is added or, if it is the user's, removed.
handleReactionClick ==
    /\ Send("react", {"reacted"}, Toggle("reacted") \intersect {"reacted"})
    /\ muddled' = muddled \union Note({"overlap"}, Overlap)
    /\ UNCHANGED wanted

\* ReactionSelector.tsx has every reaction, ReactionView.tsx one given.
ReactionSelector == "reacted" \in HeaderOffers /\ handleReactionClick
isClickable == "archived" \notin Shown
handleClick == "reacted" \in Shown /\ isClickable /\ handleReactionClick

\* The server acts on a call; one on a memo that is gone fails.
Apply(i) ==
    LET c == calls[i]
    IN  /\ c.pc = "sent" /\ server # NoMemo
        /\ server' = IF c.kind = "delete" THEN NoMemo ELSE With(server, c)
        /\ calls' = [calls EXCEPT ![i].pc = "applied", ![i].read = server']
        /\ muddled' = muddled \union Note({"order"},
               \E j \in DOMAIN calls : IF j < i THEN calls[j].pc = "sent"
                                       ELSE j > i /\ calls[j].pc # "sent")
        /\ UNCHANGED <<page, cache, fetch, wanted, clicks, fails>>

\* A reaction is followed by a fetch of the memo.
ReadBack(i) ==
    /\ calls[i].kind = "react" /\ calls[i].pc = "applied" /\ server # NoMemo
    /\ calls' = [calls EXCEPT ![i].pc = "read", ![i].read = server]
    /\ UNCHANGED <<server, page, cache, fetch, wanted, clicks, fails, muddled>>

\* The lists are invalidated, and the one shown is fetched anew.
invalidated(c) == [q \in Query |-> IF q \in List THEN [c[q] EXCEPT !.invalid = TRUE] ELSE c[q]]

\* Where the answer of a call made on the memo's own page leads: away from a
\* memo deleted, archived or restored.
Leads(c) ==
    IF c.at = "detail" /\ (c.kind = "delete" \/ "archived" \in c.mask)
    THEN IF "archived" \in c.val THEN "archived" ELSE "home"
    ELSE page

\* A call succeeds: the memo's own copy is the answer, or dropped with any
\* fetch of it.
Answered(i) ==
    LET c == calls[i]
        own == [val |-> c.read, invalid |-> FALSE]
        data == invalidated([cache EXCEPT !["detail"] = own])
        again == IF page \in List THEN Sending(fetch, page) ELSE fetch
    IN  /\ c.pc = (IF c.kind = "react" THEN "read" ELSE "applied")
        /\ calls' = RemoveAt(calls, i)
        /\ cache' = data
        /\ LET f == IF c.kind = "delete" THEN [again EXCEPT !["detail"] = NoFetch] ELSE again
           IN  IF Leads(c) = page THEN fetch' = f /\ UNCHANGED page
               ELSE Show(Leads(c), data, f)
        /\ muddled' = muddled
               \union Note({"behind"}, calls' # <<>>)
               \union Note({"left"}, \E q \in List \ {page} : fetch[q].pc # "none")
        /\ UNCHANGED <<server, wanted, clicks, fails>>

\* A call fails, whether the server acted on it, at the first or the second
\* try, or not.  A mutation puts the memo's own copy back.
Failed(i) ==
    LET c == calls[i]
        acted == c.pc # "sent" \/ c.read # NoMemo \/ (c.kind = "delete" /\ server = NoMemo)
    IN  /\ Fail \/ (server = NoMemo /\ UNCHANGED fails)
        /\ calls' = RemoveAt(calls, i)
        /\ cache' = IF c.kind = "update" /\ c.prev # NoMemo
                    THEN [cache EXCEPT !["detail"].val = c.prev] ELSE cache
        /\ muddled' = muddled \union {"failed"} \union Note({"lost"}, acted)
        /\ UNCHANGED <<server, page, fetch, wanted, clicks>>

\* A mutation that failed is tried again, after what it overlapped with.
Retry(i) ==
    /\ calls[i].pc = "applied" /\ calls[i].kind # "react" /\ Fail
    /\ calls' = [calls EXCEPT ![i].pc = "sent"]
    /\ muddled' = muddled \union Note({"order"}, "overlap" \in muddled)
    /\ UNCHANGED <<server, page, cache, fetch, wanted, clicks>>

Next ==
    \/ \E p \in List : Visit(p)
    \/ handleGotoMemoDetailPage \/ Refetch
    \/ \E q \in Query : Fetched(q) \/ FetchAnswered(q)
    \/ \E t \in Tasks : handleChange(t)
    \/ handleTogglePinMemoBtnClick \/ handleToggleMemoStatusClick \/ unpinMemo \/ handleSave
    \/ confirmDeleteMemo \/ ReactionSelector \/ handleClick
    \/ \E i \in DOMAIN calls : Apply(i) \/ ReadBack(i) \/ Answered(i) \/ Failed(i) \/ Retry(i)

Spec == Init /\ [][Next]_vars

Idle == calls = <<>> /\ \A q \in Query : fetch[q].pc = "none"

\* Once nothing is under way the page shows the memo stored: a list whatever
\* overlapped, since each answer has it fetched anew, unless a fetch of it was
\* under way on another page; the memo's own page if the calls on it came one
\* by one; and the tasks are as the user left them, if those ticked while others
\* were being saved were ticked on the memo's own page, before any answer
\* (useMemoQueries.ts, hooks.ts of the menu and of the reactions,
\* TaskListItem.tsx).
MemoSettles ==
    Idle /\ "lost" \notin muddled =>
        /\ page \in List /\ "left" \notin muddled => cache[page].val = Listed(page, server)
        /\ "overlap" \notin muddled => cache["detail"].val \in {server, NoMemo}
        /\ muddled \subseteq {"overlap", "behind"} /\ server # NoMemo => server \intersect Tasks = wanted
=============================================================================
