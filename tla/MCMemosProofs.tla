--------------------------- MODULE MCMemosProofs ---------------------------
(***************************************************************************)
(* For any bounds, page size and texts: what a tab shows of the memos      *)
(* follows the server.  With nothing under way a page shows the memo that  *)
(* is stored, the pages of a list are the first of what is stored, every   *)
(* memo listed is in one of the columns, and a tag shown is one stored.    *)
(*                                                                         *)
(* The columns and the scans of a text are recursive functions: each is    *)
(* shown to satisfy its equations, and what follows from them for every    *)
(* length is proved by an induction that speaks of sets (Least, Inducted). *)
(***************************************************************************)
EXTENDS MCPages, FiniteSetTheorems, WellFoundedInduction, TLAPS

(***************************************************************************)
(* A memo in the query cache                                               *)
(***************************************************************************)

None == Cache!NoMemo

\* The server acted on a call, at the first or the second try.
Acted(c) == c.pc # "sent" \/ c.read # None \/ (c.kind = "delete" /\ memo = None)

\* A call of TaskListItem.
Ticks(c) == c.kind = "update" /\ c.mask = Cache!Tasks

Copies == [Cache!Query -> [val : Cache!Memo \union {None}, invalid : BOOLEAN]]
Fetches == [Cache!Query -> [pc : {"none", "sent", "read"}, val : Cache!Memo \union {None}]]
CacheTypes ==
    /\ memo \in Cache!Memo \union {None}
    /\ page \in Cache!Query
    /\ cache \in Copies
    /\ fetch \in Fetches
    /\ calls \in Seq(Cache!Call) /\ Len(calls) <= 2
    /\ wanted \in SUBSET Cache!Tasks
    /\ muddled \subseteq Cache!Muddle

\* What an answer will hold is what the call made of the memo; only a tick
\* changes tasks.
GoodCall(c) ==
    /\ c.pc # "sent" => Acted([c EXCEPT !.pc = "sent"])
    /\ Ticks(c) \/ c.mask \intersect Cache!Tasks = {}
    /\ Ticks(c) => c.val \subseteq Cache!Tasks
    /\ Ticks(c) /\ c.read # None => c.read \intersect Cache!Tasks = c.val
    /\ c.kind = "delete" => c.read = None

CallsGood == \A i \in DOMAIN calls : GoodCall(calls[i])

\* A list is, or will be, what the server has: a call acted and will have it
\* fetched, it is being fetched, or it is there.
ListFresh(acted, f, c, q, m) ==
    \/ acted
    \/ f[q].pc = "sent"
    \/ f[q].pc = "read" /\ f[q].val = Cache!Listed(q, m)
    \/ f[q].pc = "none" /\ c[q].val = Cache!Listed(q, m)

\* One that is not shown may have to be fetched first.
ListCurrent(acted, f, c, q, m) ==
    \/ ListFresh(acted, f, c, q, m)
    \/ f[q].pc = "none" /\ (c[q].invalid \/ c[q].val = None)

AnyActed == \E i \in DOMAIN calls : Acted(calls[i])
CacheLists ==
    {"lost", "left"} \intersect muddled = {} =>
        /\ \A q \in Cache!List : ListCurrent(AnyActed, fetch, cache, q, memo)
        /\ page \in Cache!List => ListFresh(AnyActed, fetch, cache, page, memo)

\* The memo's own copy, its calls one by one.
OwnCopy ==
    {"lost", "overlap"} \intersect muddled = {} =>
        /\ "behind" \notin muddled
        /\ Len(calls) <= 1
        /\ calls = <<>> => /\ cache["detail"].val \in {memo, None}
                           /\ fetch["detail"].pc = "read" => fetch["detail"].val = memo
        /\ calls # <<>> =>
              /\ fetch["detail"].pc = "none"
              /\ calls[1].pc # "sent" => calls[1].read = memo
              /\ ~Acted(calls[1]) /\ calls[1].kind = "update" =>
                    /\ calls[1].prev \in {memo, None}
                    /\ calls[1].prev = None => cache["detail"].val = None
              /\ ~Acted(calls[1]) /\ calls[1].kind # "update" => cache["detail"].val \in {memo, None}

\* The tasks the server will have are those wanted, by the last tick on its
\* way if there is one.
Last(i) ==
    /\ Ticks(calls[i]) /\ calls[i].pc = "sent"
    /\ \A j \in DOMAIN calls : j > i => ~(Ticks(calls[j]) /\ calls[j].pc = "sent")
TasksWanted ==
    muddled \subseteq {"overlap", "behind"} /\ memo # None =>
        /\ \A i \in DOMAIN calls : Last(i) => calls[i].val = wanted
        /\ (\A i \in DOMAIN calls : ~Last(i)) => memo \intersect Cache!Tasks = wanted

\* And the memo's own copy has them, or will.
OwnTasks ==
    muddled \subseteq {"overlap"} /\ memo # None =>
        /\ cache["detail"].val # None => cache["detail"].val \intersect Cache!Tasks = wanted
        /\ fetch["detail"].pc # "none" => \A i \in DOMAIN calls : ~Ticks(calls[i])
        /\ fetch["detail"].pc = "read" /\ fetch["detail"].val # None =>
              fetch["detail"].val \intersect Cache!Tasks = wanted
        /\ Len(calls) = 1 /\ calls[1].pc # "sent" => calls[1].read = memo

CacheInv == CacheTypes /\ CallsGood /\ CacheLists /\ OwnCopy /\ TasksWanted /\ OwnTasks

\* The memos, and what a list shows of one.
LEMMA Memos ==
    /\ None \notin Cache!Memo
    /\ \A q, m : Cache!Listed(q, m) \in {m, None}
    /\ \A m : Cache!Listed("detail", m) = m
    /\ \A q : Cache!Listed(q, None) = None
    /\ \A q, m : Cache!Listed(q, Cache!Listed(q, m)) = Cache!Listed(q, m)
<1>1. None \notin Cache!Memo
  <2>1. "none" \notin Cache!Tasks \union {"pinned", "archived", "dated", "reacted"}
    BY DEF Cache!Tasks
  <2> QED BY <2>1 DEF None, Cache!NoMemo, Cache!Memo
<1>2. \A q, m : Cache!Listed(q, m) \in {m, None}
  BY DEF Cache!Listed, None
<1>3. \A m : Cache!Listed("detail", m) = m
  BY DEF Cache!Listed
<1>4. \A q : Cache!Listed(q, None) = None
  BY <1>2
<1>5. \A q, m : Cache!Listed(q, Cache!Listed(q, m)) = Cache!Listed(q, m)
  <2> TAKE q, m
  <2>1. CASE Cache!Listed(q, m) = m
    BY <2>1
  <2>2. CASE Cache!Listed(q, m) = None
    BY <1>4, <2>2
  <2> QED BY <1>2, <2>1, <2>2
<1> QED BY <1>1, <1>2, <1>3, <1>4, <1>5

\* What a call makes of a memo.
LEMMA Withs ==
    ASSUME NEW m \in Cache!Memo, NEW c \in Cache!Call
    PROVE  /\ Cache!With(m, c) \in Cache!Memo
           /\ Ticks(c) /\ c.val \subseteq Cache!Tasks =>
                 Cache!With(m, c) \intersect Cache!Tasks = c.val
           /\ c.mask \intersect Cache!Tasks = {} =>
                 Cache!With(m, c) \intersect Cache!Tasks = m \intersect Cache!Tasks
<1>1. c.mask \in Cache!Memo /\ c.val \in Cache!Memo
  BY DEF Cache!Call
<1>2. Cache!With(m, c) = (m \ c.mask) \union (c.val \intersect c.mask)
  BY Zenon DEF Cache!With
<1> QED BY <1>1, <1>2 DEF Ticks, Cache!Memo

\* The calls left when one has been answered.
LEMMA Removed ==
    ASSUME NEW S, NEW q \in Seq(S), NEW i \in DOMAIN q
    PROVE  /\ Cache!RemoveAt(q, i) \in Seq(S)
           /\ Len(Cache!RemoveAt(q, i)) = Len(q) - 1
           /\ \A j \in 1..(Len(q) - 1) :
                 Cache!RemoveAt(q, i)[j] = q[IF j < i THEN j ELSE j + 1]
<1>1. Len(q) \in Nat /\ DOMAIN q = 1..Len(q) /\ i \in 1..Len(q)
  OBVIOUS
<1> DEFINE a == SubSeq(q, 1, i - 1)
           b == SubSeq(q, i + 1, Len(q))
<1>2. /\ a \in Seq(S) /\ Len(a) = i - 1 /\ \A j \in 1..(i - 1) : a[j] = q[j]
  BY <1>1
<1>3. /\ b \in Seq(S) /\ Len(b) = Len(q) - i /\ \A j \in 1..(Len(q) - i) : b[j] = q[i + j]
  BY <1>1
<1> HIDE DEF a, b
<1>4. Cache!RemoveAt(q, i) = a \o b
  BY Zenon DEF Cache!RemoveAt, a, b
<1>5. a \o b \in Seq(S) /\ Len(a \o b) = Len(q) - 1
  <2>1. a \o b \in Seq(S) /\ Len(a \o b) = Len(a) + Len(b)
    <3>1. a \in Seq(S) /\ b \in Seq(S)
      BY <1>2, <1>3
    <3> QED BY <3>1
  <2>2. Len(a) + Len(b) = Len(q) - 1
    BY <1>1, <1>2, <1>3
  <2> QED BY <2>1, <2>2
<1>6. \A j \in 1..(Len(q) - 1) : (a \o b)[j] = q[IF j < i THEN j ELSE j + 1]
  <2> SUFFICES ASSUME NEW j \in 1..(Len(q) - 1)
               PROVE  (a \o b)[j] = q[IF j < i THEN j ELSE j + 1]
    OBVIOUS
  <2>1. (a \o b)[j] = IF j <= Len(a) THEN a[j] ELSE b[j - Len(a)]
    <3>1. a \in Seq(S) /\ b \in Seq(S)
      BY <1>2, <1>3
    <3>2. j \in 1..(Len(a) + Len(b))
      BY <1>1, <1>2, <1>3
    <3> QED BY <3>1, <3>2
  <2>2. CASE j < i
    <3>1. j <= Len(a) /\ a[j] = q[j]
      BY <1>1, <1>2, <2>2
    <3> QED BY <2>1, <2>2, <3>1
  <2>3. CASE ~(j < i)
    <3>1. /\ ~(j <= Len(a)) /\ j - Len(a) \in 1..(Len(q) - i)
          /\ i + (j - Len(a)) = j + 1
      BY <1>1, <1>2, <2>3
    <3>2. b[j - Len(a)] = q[j + 1]
      BY <1>3, <3>1
    <3> QED BY <2>1, <2>3, <3>1, <3>2
  <2> QED BY <2>2, <2>3
<1> QED BY <1>4, <1>5, <1>6

\* A fetch is sent.
LEMMA FetchSent ==
    ASSUME NEW q \in Cache!Query,
           NEW f \in Fetches
    PROVE  /\ Cache!Sending(f, q) \in Fetches
           /\ Cache!Sending(f, q)[q].pc = "sent"
           /\ \A r \in Cache!Query : r # q => Cache!Sending(f, q)[r] = f[r]
<1>1. [Cache!NoFetch EXCEPT !.pc = "sent"] = [pc |-> "sent", val |-> None]
  BY DEF Cache!NoFetch, None
<1>2. Cache!Sending(f, q) = [f EXCEPT ![q] = [pc |-> "sent", val |-> None]]
  BY <1>1, Zenon DEF Cache!Sending
<1> QED BY <1>2 DEF Fetches

\* The first page is being fetched, and nothing else is under way.
LEMMA InitCache == Cache!Init => CacheInv
<1> SUFFICES ASSUME Cache!Init PROVE CacheInv
  OBVIOUS
<1>1. /\ memo \in {{}, {"task1", "archived"}}
      /\ page = IF memo = {} THEN "home" ELSE "archived"
      /\ cache = [q \in Cache!Query |-> [val |-> None, invalid |-> FALSE]]
      /\ fetch = [q \in Cache!Query |-> IF q = page THEN [Cache!NoFetch EXCEPT !.pc = "sent"]
                                                     ELSE Cache!NoFetch]
      /\ calls = <<>>
      /\ wanted = memo \intersect Cache!Tasks
      /\ muddled = {}
  BY Zenon DEF Cache!Init, None
<1>2. /\ memo \in Cache!Memo /\ page \in {"home", "archived"}
      /\ "home" \in Cache!Query /\ "archived" \in Cache!Query /\ "detail" \in Cache!Query
      /\ Cache!Query = Cache!List \union {"detail"} /\ "detail" \notin Cache!List
  BY <1>1 DEF Cache!Memo, Cache!Tasks, Cache!Query, Cache!List
<1>3. /\ \A q \in Cache!Query : cache[q].val = None /\ cache[q].invalid = FALSE
      /\ \A q \in Cache!Query : fetch[q].pc = (IF q = page THEN "sent" ELSE "none")
      /\ fetch["detail"].pc = "none"
  BY <1>1, <1>2 DEF Cache!NoFetch
<1>4. CacheTypes
  <2>1. calls \in Seq(Cache!Call) /\ Len(calls) = 0
    BY <1>1
  <2>2. fetch \in Fetches
    BY <1>1 DEF Cache!NoFetch, None, Fetches
  <2>3. cache \in Copies
    BY <1>1 DEF Copies
  <2> QED BY <1>1, <1>2, <2>1, <2>2, <2>3 DEF CacheTypes
<1>5. CallsGood
  BY <1>1 DEF CallsGood
<1>6. CacheLists
  BY <1>2, <1>3 DEF CacheLists, ListCurrent, ListFresh
<1>7. OwnCopy /\ TasksWanted /\ OwnTasks
  BY <1>1, <1>2, <1>3 DEF OwnCopy, TasksWanted, OwnTasks
<1> QED BY <1>4, <1>5, <1>6, <1>7 DEF CacheInv

\* The queries: the lists and the memo's own.
LEMMA Queries ==
    /\ Cache!List \subseteq Cache!Query /\ Cache!Query = Cache!List \union {"detail"}
    /\ "detail" \notin Cache!List
    /\ "home" \in Cache!List /\ "archived" \in Cache!List /\ Cache!List = {"home", "archived"}
BY DEF Cache!Query, Cache!List

\* A page shown has its list fetched if need be, and nothing else.
LEMMA ShowPage ==
    ASSUME NEW p \in Cache!Query, NEW c \in Copies, NEW f \in Fetches, Cache!Show(p, c, f)
    PROVE  /\ page' = p /\ fetch' \in Fetches
           /\ \A q \in Cache!Query : q # p => fetch'[q] = f[q]
           /\ \/ fetch'[p] = f[p] /\ (f[p].pc # "none" \/ (~c[p].invalid /\ c[p].val # None))
              \/ fetch'[p].pc = "sent" /\ f[p].pc = "none"
           /\ \A acted, m :
                 (\A q \in Cache!List : ListCurrent(acted, f, c, q, m)) =>
                    /\ \A q \in Cache!List : ListCurrent(acted, fetch', c, q, m)
                    /\ p \in Cache!List => ListFresh(acted, fetch', c, p, m)
<1>1. /\ page' = p
      /\ \/ fetch' = f /\ ~c[p].invalid /\ c[p].val # None
         \/ fetch' = f /\ f[p].pc # "none"
         \/ fetch' = Cache!Sending(f, p) /\ f[p].pc = "none"
  BY Zenon DEF Cache!Show, None
<1>2. fetch' \in Fetches /\ \A q \in Cache!Query : q # p => fetch'[q] = f[q]
  BY <1>1, FetchSent
<1>3. \/ fetch'[p] = f[p] /\ (f[p].pc # "none" \/ (~c[p].invalid /\ c[p].val # None))
      \/ fetch'[p].pc = "sent" /\ f[p].pc = "none"
  BY <1>1, FetchSent
<1>4. ASSUME NEW acted, NEW m, \A q \in Cache!List : ListCurrent(acted, f, c, q, m)
      PROVE  /\ \A q \in Cache!List : ListCurrent(acted, fetch', c, q, m)
             /\ p \in Cache!List => ListFresh(acted, fetch', c, p, m)
  <2>1. ASSUME NEW q \in Cache!List, q # p PROVE ListCurrent(acted, fetch', c, q, m)
    BY <1>2, <1>4, <2>1, Queries DEF ListCurrent, ListFresh
  <2>2. ASSUME p \in Cache!List PROVE ListFresh(acted, fetch', c, p, m)
    BY <1>3, <1>4, <2>2 DEF ListCurrent, ListFresh
  <2>3. p \in Cache!List => ListCurrent(acted, fetch', c, p, m)
    BY <2>2 DEF ListCurrent
  <2> QED BY <2>1, <2>2, <2>3
<1> QED BY <1>1, <1>2, <1>3, <1>4

\* What does not change while only pages and fetches do.
LEMMA SameCalls ==
    ASSUME CacheInv, UNCHANGED <<memo, calls>>
    PROVE  /\ CallsGood' /\ (AnyActed' <=> AnyActed)
           /\ \A i \in DOMAIN calls : Last(i)' <=> Last(i)
<1>1. \A c : Acted(c)' <=> Acted(c)
  BY DEF Acted
<1>2. \A c : GoodCall(c)' <=> GoodCall(c)
  BY <1>1 DEF GoodCall, Acted
<1> QED BY <1>1, <1>2 DEF CacheInv, CallsGood, AnyActed, Last

\* Another page is opened: what it does not have, or has to have again, is
\* fetched.
LEMMA VisitStep ==
    ASSUME CacheInv, NEW p \in Cache!Query, Cache!Visit(p)
    PROVE  CacheInv'
<1>1. /\ Cache!Show(p, cache, fetch)
      /\ muddled' = muddled \union Cache!Note({"overlap", "behind"}, p = "detail" /\ calls # <<>>)
      /\ UNCHANGED <<memo, cache, calls, wanted>>
  BY Zenon DEF Cache!Visit
<1>2. muddled' = IF p = "detail" /\ calls # <<>> THEN muddled \union {"overlap", "behind"} ELSE muddled
  BY <1>1 DEF Cache!Note
<1>3. CacheTypes
  BY DEF CacheInv
<1>4. /\ page' = p /\ fetch' \in Fetches
      /\ \A q \in Cache!Query : q # p => fetch'[q] = fetch[q]
      /\ fetch'[p] = fetch[p] \/ fetch'[p].pc = "sent"
  BY <1>1, <1>3, ShowPage DEF CacheTypes
<1>5. CacheTypes'
  BY <1>1, <1>2, <1>3, <1>4 DEF CacheTypes, Cache!Muddle
<1>6. CallsGood' /\ (AnyActed' <=> AnyActed) /\ \A i \in DOMAIN calls : Last(i)' <=> Last(i)
  BY <1>1, SameCalls
<1>7. CacheLists'
  <2> SUFFICES ASSUME {"lost", "left"} \intersect muddled' = {}
               PROVE  /\ \A q \in Cache!List : ListCurrent(AnyActed', fetch', cache', q, memo')
                      /\ page' \in Cache!List => ListFresh(AnyActed', fetch', cache', page', memo')
    BY DEF CacheLists
  <2>1. \A q \in Cache!List : ListCurrent(AnyActed, fetch, cache, q, memo)
    BY <1>2 DEF CacheInv, CacheLists
  <2>2. /\ \A q \in Cache!List : ListCurrent(AnyActed, fetch', cache, q, memo)
        /\ p \in Cache!List => ListFresh(AnyActed, fetch', cache, p, memo)
    BY <1>1, <1>3, <2>1, ShowPage, Zenon DEF CacheTypes
  <2> QED BY <1>1, <1>4, <1>6, <2>2 DEF ListCurrent, ListFresh
<1>8. \/ p = "detail" /\ calls # <<>>
      \/ fetch'["detail"] = fetch["detail"]
      \/ calls = <<>> /\ fetch'["detail"].pc = "sent"
  BY <1>4, Queries
<1>9. OwnCopy'
  BY <1>1, <1>2, <1>8 DEF CacheInv, OwnCopy, Acted
<1>10. TasksWanted'
  BY <1>1, <1>2, <1>6 DEF CacheInv, TasksWanted
<1>11. OwnTasks'
  BY <1>1, <1>2, <1>8 DEF CacheInv, OwnTasks, Ticks
<1> QED BY <1>5, <1>6, <1>7, <1>9, <1>10, <1>11 DEF CacheInv

\* The window is focused, and what is shown is fetched again.
LEMMA RefetchStep ==
    ASSUME CacheInv, Cache!Refetch
    PROVE  CacheInv'
<1>1. /\ fetch[page].pc = "none"
      /\ fetch' = Cache!Sending(fetch, page)
      /\ muddled' = muddled \union Cache!Note({"overlap", "behind"}, calls # <<>>)
      /\ UNCHANGED <<memo, page, cache, calls, wanted>>
  BY Zenon DEF Cache!Refetch
<1>2. muddled' = IF calls # <<>> THEN muddled \union {"overlap", "behind"} ELSE muddled
  BY <1>1 DEF Cache!Note
<1>3. CacheTypes
  BY DEF CacheInv
<1>4. /\ fetch' \in Fetches /\ fetch'[page].pc = "sent"
      /\ \A q \in Cache!Query : q # page => fetch'[q] = fetch[q]
  BY <1>1, <1>3, FetchSent DEF CacheTypes
<1>5. CacheTypes'
  BY <1>1, <1>2, <1>3, <1>4 DEF CacheTypes, Cache!Muddle
<1>6. CallsGood' /\ (AnyActed' <=> AnyActed) /\ \A i \in DOMAIN calls : Last(i)' <=> Last(i)
  BY <1>1, SameCalls
<1>7. CacheLists'
  <2> SUFFICES ASSUME {"lost", "left"} \intersect muddled' = {}
               PROVE  /\ \A q \in Cache!List : ListCurrent(AnyActed', fetch', cache', q, memo')
                      /\ page' \in Cache!List => ListFresh(AnyActed', fetch', cache', page', memo')
    BY DEF CacheLists
  <2>1. \A q \in Cache!List : ListCurrent(AnyActed, fetch, cache, q, memo)
    BY <1>2 DEF CacheInv, CacheLists
  <2> QED BY <1>1, <1>4, <1>6, <2>1, Queries DEF ListCurrent, ListFresh
<1>8. \/ calls # <<>>
      \/ fetch'["detail"] = fetch["detail"]
      \/ calls = <<>> /\ fetch'["detail"].pc = "sent"
  BY <1>4, Queries
<1>9. OwnCopy'
  BY <1>1, <1>2, <1>8 DEF CacheInv, OwnCopy, Acted
<1>10. TasksWanted'
  BY <1>1, <1>2, <1>6 DEF CacheInv, TasksWanted
<1>11. OwnTasks'
  BY <1>1, <1>2, <1>8 DEF CacheInv, OwnTasks, Ticks
<1> QED BY <1>5, <1>6, <1>7, <1>9, <1>10, <1>11 DEF CacheInv

\* The server reads what it answers a fetch with.
LEMMA FetchedStep ==
    ASSUME CacheInv, NEW q \in Cache!Query, Cache!Fetched(q)
    PROVE  CacheInv'
<1>1. /\ fetch[q].pc = "sent"
      /\ fetch' = [fetch EXCEPT ![q] = [pc |-> "read", val |-> Cache!Listed(q, memo)]]
      /\ UNCHANGED <<memo, page, cache, calls, wanted, muddled>>
  BY Zenon DEF Cache!Fetched
<1>2. CacheTypes
  BY DEF CacheInv
<1>3. /\ fetch' \in Fetches /\ fetch'[q] = [pc |-> "read", val |-> Cache!Listed(q, memo)]
      /\ \A r \in Cache!Query : r # q => fetch'[r] = fetch[r]
  BY <1>1, <1>2, Memos DEF CacheTypes, Fetches
<1>4. CacheTypes'
  BY <1>1, <1>2, <1>3 DEF CacheTypes
<1>5. CallsGood' /\ (AnyActed' <=> AnyActed) /\ \A i \in DOMAIN calls : Last(i)' <=> Last(i)
  BY <1>1, SameCalls
<1>6. CacheLists'
  <2> SUFFICES ASSUME {"lost", "left"} \intersect muddled' = {}
               PROVE  /\ \A r \in Cache!List : ListCurrent(AnyActed', fetch', cache', r, memo')
                      /\ page' \in Cache!List => ListFresh(AnyActed', fetch', cache', page', memo')
    BY DEF CacheLists
  <2>1. /\ \A r \in Cache!List : ListCurrent(AnyActed, fetch, cache, r, memo)
        /\ page \in Cache!List => ListFresh(AnyActed, fetch, cache, page, memo)
    BY <1>1 DEF CacheInv, CacheLists
  <2>2. ListFresh(AnyActed', fetch', cache', q, memo')
    BY <1>1, <1>3 DEF ListFresh
  <2>3. ASSUME NEW r \in Cache!List, r # q
        PROVE  /\ ListCurrent(AnyActed', fetch', cache', r, memo')
               /\ ListFresh(AnyActed, fetch, cache, r, memo) =>
                     ListFresh(AnyActed', fetch', cache', r, memo')
    BY <1>1, <1>3, <1>5, <2>1, <2>3, Queries DEF ListCurrent, ListFresh
  <2> QED BY <1>1, <2>1, <2>2, <2>3 DEF ListCurrent
<1>7. \/ fetch'["detail"] = fetch["detail"]
      \/ fetch["detail"].pc = "sent" /\ fetch'["detail"] = [pc |-> "read", val |-> memo]
  BY <1>1, <1>3, Queries, Memos
<1>8. OwnCopy'
  BY <1>1, <1>7 DEF CacheInv, OwnCopy, Acted
<1>9. TasksWanted'
  BY <1>1, <1>5 DEF CacheInv, TasksWanted
<1>10. OwnTasks'
  <2> SUFFICES ASSUME muddled \subseteq {"overlap"}, memo # None PROVE OwnTasks'
    BY <1>1 DEF OwnTasks
  <2>1. fetch["detail"].pc = "sent" => memo \intersect Cache!Tasks = wanted
    BY DEF CacheInv, OwnTasks, TasksWanted, Last
  <2> QED BY <1>1, <1>7, <2>1 DEF CacheInv, OwnTasks, Ticks
<1> QED BY <1>4, <1>5, <1>6, <1>8, <1>9, <1>10 DEF CacheInv

\* The answer of a fetch is what is shown, and is no longer invalid.
LEMMA FetchAnsweredStep ==
    ASSUME CacheInv, NEW q \in Cache!Query, Cache!FetchAnswered(q)
    PROVE  CacheInv'
<1> DEFINE done == [fetch EXCEPT ![q] = Cache!NoFetch]
           gone == q = "detail" /\ fetch[q].val = None
<1>1. /\ fetch[q].pc = "read"
      /\ cache' = IF gone THEN cache
                  ELSE [cache EXCEPT ![q] = [val |-> fetch[q].val, invalid |-> FALSE]]
      /\ IF gone /\ page = "detail" THEN Cache!Show("home", cache', done)
         ELSE fetch' = done /\ UNCHANGED page
      /\ UNCHANGED <<memo, calls, wanted, muddled>>
  BY Zenon DEF Cache!FetchAnswered, None
<1>2. CacheTypes
  BY DEF CacheInv
<1>3. fetch[q].val \in Cache!Memo \union {None}
  BY <1>2 DEF CacheTypes, Fetches
<1>4. /\ done \in Fetches /\ done[q].pc = "none"
      /\ \A r \in Cache!Query : r # q => done[r] = fetch[r]
  BY <1>2 DEF CacheTypes, Fetches, Cache!NoFetch, None
<1>5. /\ cache' \in Copies /\ \A r \in Cache!Query : r # q => cache'[r] = cache[r]
      /\ cache'[q] = IF gone THEN cache[q] ELSE [val |-> fetch[q].val, invalid |-> FALSE]
  BY <1>1, <1>2, <1>3 DEF CacheTypes, Copies
<1> HIDE DEF done
<1>6. /\ page' \in Cache!Query /\ fetch' \in Fetches
      /\ fetch'["detail"] = done["detail"]
  <2>1. CASE gone /\ page = "detail"
    BY <1>1, <1>4, <1>5, <2>1, Queries, ShowPage
  <2>2. CASE ~(gone /\ page = "detail")
    BY <1>1, <1>2, <1>4, <2>2 DEF CacheTypes
  <2> QED BY <2>1, <2>2
<1>7. CacheTypes'
  BY <1>1, <1>2, <1>5, <1>6 DEF CacheTypes
<1>8. CallsGood' /\ (AnyActed' <=> AnyActed) /\ \A i \in DOMAIN calls : Last(i)' <=> Last(i)
  BY <1>1, SameCalls
<1>9. CacheLists'
  <2> SUFFICES ASSUME {"lost", "left"} \intersect muddled' = {}
               PROVE  /\ \A r \in Cache!List : ListCurrent(AnyActed', fetch', cache', r, memo')
                      /\ page' \in Cache!List => ListFresh(AnyActed', fetch', cache', page', memo')
    BY DEF CacheLists
  <2>1. /\ \A r \in Cache!List : ListCurrent(AnyActed, fetch, cache, r, memo)
        /\ page \in Cache!List => ListFresh(AnyActed, fetch, cache, page, memo)
    BY <1>1 DEF CacheInv, CacheLists
  <2>2. q \in Cache!List => ListFresh(AnyActed, done, cache', q, memo)
    BY <1>1, <1>4, <1>5, <2>1, Queries DEF ListCurrent, ListFresh
  <2>3. ASSUME NEW r \in Cache!List, r # q
        PROVE  /\ ListCurrent(AnyActed, done, cache', r, memo)
               /\ ListFresh(AnyActed, fetch, cache, r, memo) =>
                     ListFresh(AnyActed, done, cache', r, memo)
    BY <1>4, <1>5, <2>1, <2>3, Queries DEF ListCurrent, ListFresh
  <2>4. \A r \in Cache!List : ListCurrent(AnyActed, done, cache', r, memo)
    BY <2>2, <2>3 DEF ListCurrent
  <2>5. /\ \A r \in Cache!List : ListCurrent(AnyActed, fetch', cache', r, memo)
        /\ page' \in Cache!List => ListFresh(AnyActed, fetch', cache', page', memo)
    <3>1. CASE gone /\ page = "detail"
      BY <1>1, <1>4, <1>5, <2>4, <3>1, Queries, ShowPage
    <3>2. CASE ~(gone /\ page = "detail")
      BY <1>1, <2>1, <2>2, <2>3, <2>4, <3>2
    <3> QED BY <3>1, <3>2
  <2> QED BY <1>1, <1>8, <2>5 DEF ListCurrent, ListFresh
<1>10. /\ fetch'["detail"].pc = "none" \/ fetch'["detail"] = fetch["detail"]
       /\ \/ cache'["detail"] = cache["detail"]
          \/ /\ fetch["detail"].pc = "read" /\ cache'["detail"].val = fetch["detail"].val
             /\ fetch'["detail"].pc = "none"
  BY <1>1, <1>4, <1>5, <1>6, Queries
<1>11. OwnCopy'
  BY <1>1, <1>10 DEF CacheInv, OwnCopy, Acted
<1>12. TasksWanted'
  BY <1>1, <1>8 DEF CacheInv, TasksWanted
<1>13. OwnTasks'
  BY <1>1, <1>10 DEF CacheInv, OwnTasks, Ticks
<1> QED BY <1>7, <1>8, <1>9, <1>11, <1>12, <1>13 DEF CacheInv

\* A call of this kind is on its way after the others, and a mutation shows its
\* change on the memo's own copy.
SentCall(c, what, fields, val) ==
    /\ c \in Cache!Call
    /\ c.pc = "sent" /\ c.kind = what /\ c.mask = fields /\ c.val = val
    /\ c.prev = cache["detail"].val /\ c.read = None
    /\ Len(calls) < 2 /\ Cache!Shown # None
    /\ calls' = Append(calls, c)
    /\ IF what = "update"
       THEN /\ fetch' \in Fetches /\ cache' \in Copies
            /\ fetch'["detail"].pc = "none"
            /\ cache'["detail"].val = IF cache["detail"].val = None THEN None
                                      ELSE Cache!With(cache["detail"].val, c)
            /\ \A q \in Cache!List : fetch'[q] = fetch[q] /\ cache'[q] = cache[q]
       ELSE UNCHANGED <<fetch, cache>>
    /\ UNCHANGED <<memo, page>>

\* What sending a call does.
LEMMA Sends ==
    ASSUME CacheInv, NEW what \in Cache!Kind, NEW fields \in Cache!Memo, NEW val \in Cache!Memo,
           Cache!Send(what, fields, val)
    PROVE  \E c : SentCall(c, what, fields, val)
<1> DEFINE c == [pc |-> "sent", kind |-> what, mask |-> fields, val |-> val,
                 prev |-> cache["detail"].val, at |-> page, read |-> None]
<1>1. /\ Len(calls) < 2 /\ Cache!Shown # None
      /\ calls' = Append(calls, c)
      /\ IF what = "update"
         THEN /\ fetch' = [fetch EXCEPT !["detail"] = Cache!NoFetch]
              /\ cache' = [cache EXCEPT !["detail"] = Cache!optimistic(c)]
         ELSE UNCHANGED <<fetch, cache>>
      /\ UNCHANGED <<memo, page>>
  BY Zenon DEF Cache!Send, None
<1>2. cache \in Copies /\ fetch \in Fetches /\ page \in Cache!Query
  BY DEF CacheInv, CacheTypes
<1>3. /\ cache["detail"] \in [val : Cache!Memo \union {None}, invalid : BOOLEAN]
      /\ cache["detail"].val \in Cache!Memo \union {None}
  BY <1>2, Queries DEF Copies
<1>4. c \in Cache!Call
  BY <1>2, <1>3 DEF Cache!Call, None
<1>5. /\ c.pc = "sent" /\ c.kind = what /\ c.mask = fields /\ c.val = val
      /\ c.prev = cache["detail"].val /\ c.read = None
  OBVIOUS
<1> HIDE DEF c
<1>6. ASSUME what = "update"
      PROVE  /\ fetch' \in Fetches /\ cache' \in Copies
             /\ fetch'["detail"].pc = "none"
             /\ cache'["detail"].val = IF cache["detail"].val = None THEN None
                                       ELSE Cache!With(cache["detail"].val, c)
             /\ \A q \in Cache!List : fetch'[q] = fetch[q] /\ cache'[q] = cache[q]
  <2>1. /\ fetch' = [fetch EXCEPT !["detail"] = Cache!NoFetch]
        /\ cache' = [cache EXCEPT !["detail"] = Cache!optimistic(c)]
    BY <1>1, <1>6
  <2>2. Cache!NoFetch \in [pc : {"none", "sent", "read"}, val : Cache!Memo \union {None}] /\ Cache!NoFetch.pc = "none"
    BY DEF Cache!NoFetch, None
  <2>3. fetch' \in Fetches /\ fetch'["detail"].pc = "none" /\ \A q \in Cache!List : fetch'[q] = fetch[q]
    BY <1>2, <2>1, <2>2, Queries DEF Fetches
  <2> DEFINE own == cache["detail"]
             w == Cache!With(own.val, c)
  <2>4. [own EXCEPT !.val = Cache!With(@, c)] = [val |-> w, invalid |-> own.invalid]
    BY <1>3
  <2>5. Cache!optimistic(c) = IF own.val = None THEN own ELSE [val |-> w, invalid |-> own.invalid]
    BY <2>4, Zenon DEF Cache!optimistic, None
  <2>6. own.val # None => w \in Cache!Memo
    BY <1>3, <1>4, Withs
  <2> HIDE DEF w
  <2>7. /\ Cache!optimistic(c) \in [val : Cache!Memo \union {None}, invalid : BOOLEAN]
        /\ Cache!optimistic(c).val = IF own.val = None THEN None ELSE w
    BY <1>3, <2>5, <2>6
  <2>8. /\ cache' \in Copies /\ cache'["detail"].val = (IF own.val = None THEN None ELSE w)
        /\ \A q \in Cache!List : cache'[q] = cache[q]
    BY <1>2, <2>1, <2>7, Queries DEF Copies
  <2> QED BY <2>3, <2>8 DEF w
<1> QED BY <1>1, <1>4, <1>5, <1>6 DEF SentCall

\* Calls are added at the end.
LEMMA Appended ==
    ASSUME calls \in Seq(Cache!Call), NEW c \in Cache!Call, calls' = Append(calls, c)
    PROVE  /\ calls' \in Seq(Cache!Call) /\ Len(calls') = Len(calls) + 1
           /\ DOMAIN calls = 1..Len(calls) /\ DOMAIN calls' = 1..(Len(calls) + 1)
           /\ Len(calls) \in Nat
           /\ \A j \in DOMAIN calls : calls'[j] = calls[j]
           /\ calls'[Len(calls) + 1] = c
           /\ calls = <<>> <=> Len(calls) = 0
           /\ calls' # <<>>
  OBVIOUS

\* Any call sent keeps what is known of the lists and of the other calls.
LEMMA SendKeeps ==
    ASSUME CacheInv, NEW what, NEW fields, NEW val, NEW c, SentCall(c, what, fields, val),
           \/ what = "update" /\ fields = Cache!Tasks /\ val \subseteq Cache!Tasks
           \/ fields \intersect Cache!Tasks = {},
           muddled \subseteq muddled', muddled' \subseteq Cache!Muddle, wanted' \in SUBSET Cache!Tasks
    PROVE  CacheTypes' /\ CallsGood' /\ CacheLists'
<1>1. CacheTypes /\ calls \in Seq(Cache!Call)
  BY DEF CacheInv, CacheTypes
<1>2. c \in Cache!Call /\ calls' = Append(calls, c)
  BY DEF SentCall
<1>3. Len(calls) < 2 /\ UNCHANGED <<memo, page>> /\ fetch' \in Fetches /\ cache' \in Copies
  BY <1>1 DEF SentCall, CacheTypes
<1>4. CacheTypes'
  BY <1>1, <1>2, <1>3, Appended DEF CacheTypes
<1>5. \A d : (Acted(d)' <=> Acted(d)) /\ (GoodCall(d)' <=> GoodCall(d))
  BY <1>3 DEF Acted, GoodCall
<1>6. GoodCall(c)
  BY DEF SentCall, GoodCall, Ticks, None, Cache!Tasks
<1>7. CallsGood'
  <2>1. CallsGood
    BY DEF CacheInv
  <2>2. ASSUME NEW j \in DOMAIN calls' PROVE GoodCall(calls'[j])
    <3>1. j \in DOMAIN calls \/ j = Len(calls) + 1
      BY <1>1, <1>2, Appended
    <3> QED BY <1>1, <1>2, <1>6, <2>1, <3>1, Appended DEF CallsGood
  <2> QED BY <1>5, <2>2 DEF CallsGood
<1>8. AnyActed => AnyActed'
  BY <1>1, <1>2, <1>5, Appended DEF AnyActed
<1>9. \A q \in Cache!List : fetch'[q] = fetch[q] /\ cache'[q] = cache[q]
  BY DEF SentCall
<1>10. CacheLists'
  BY <1>3, <1>8, <1>9 DEF CacheInv, CacheLists, ListCurrent, ListFresh
<1> QED BY <1>4, <1>7, <1>10

\* A call alone on its way leaves the memo's own copy known.
LEMMA SendOwn ==
    ASSUME CacheInv, NEW what, NEW fields, NEW val, NEW c, SentCall(c, what, fields, val),
           muddled \subseteq muddled',
           "overlap" \notin muddled' => calls = <<>> /\ (what = "update" \/ fetch["detail"].pc = "none"),
           "behind" \in muddled' => "behind" \in muddled
    PROVE  OwnCopy'
<1> SUFFICES ASSUME {"lost", "overlap"} \intersect muddled' = {} PROVE OwnCopy'
  BY DEF OwnCopy
<1>1. /\ calls \in Seq(Cache!Call) /\ c \in Cache!Call /\ calls' = Append(calls, c)
      /\ UNCHANGED memo
  BY DEF CacheInv, CacheTypes, SentCall
<1>2. calls = <<>> /\ (what = "update" \/ fetch["detail"].pc = "none")
  OBVIOUS
<1>3. Len(calls') = 1 /\ calls' # <<>> /\ calls'[1] = c
  BY <1>1, <1>2
<1>4. "behind" \notin muddled' /\ cache["detail"].val \in {memo, None}
  BY <1>2 DEF CacheInv, OwnCopy
<1>5. fetch'["detail"].pc = "none"
  BY <1>2 DEF SentCall
<1>6. /\ c.pc = "sent" /\ c.kind = what /\ c.prev = cache["detail"].val
      /\ what # "update" => cache' = cache
      /\ what = "update" /\ cache["detail"].val = None => cache'["detail"].val = None
  BY DEF SentCall
<1> QED BY <1>1, <1>3, <1>4, <1>5, <1>6 DEF OwnCopy, Acted

\* A call that is no tick leaves the tasks.
LEMMA SendOther ==
    ASSUME CacheInv, NEW what, NEW fields, NEW val, NEW c, SentCall(c, what, fields, val),
           fields \intersect Cache!Tasks = {}, muddled \subseteq muddled', UNCHANGED wanted
    PROVE  TasksWanted' /\ OwnTasks'
<1>1. /\ calls \in Seq(Cache!Call) /\ c \in Cache!Call /\ calls' = Append(calls, c)
      /\ UNCHANGED memo /\ c.mask = fields /\ c.kind = what /\ c.pc = "sent"
  BY DEF CacheInv, CacheTypes, SentCall
<1>2. ~Ticks(c)
  BY <1>1 DEF Ticks, Cache!Tasks
<1> PICK n : n = Len(calls)
  OBVIOUS
<1>3. /\ n \in Nat /\ DOMAIN calls = 1..n /\ DOMAIN calls' = 1..(n + 1)
      /\ \A j \in 1..n : calls'[j] = calls[j]
      /\ calls'[n + 1] = c /\ Len(calls') = n + 1
  BY <1>1, Appended
<1>4. \A i \in 1..n : Last(i)' <=> Last(i)
  BY <1>2, <1>3 DEF Last, Ticks
<1>5. ~Last(n + 1)'
  BY <1>2, <1>3 DEF Last, Ticks
<1>6. TasksWanted'
  BY <1>1, <1>3, <1>4, <1>5 DEF CacheInv, TasksWanted
<1>7. OwnTasks'
  <2> SUFFICES ASSUME muddled \subseteq {"overlap"}, memo # None PROVE OwnTasks'
    BY <1>1 DEF OwnTasks
  <2>1. cache'["detail"].val # None => cache'["detail"].val \intersect Cache!Tasks = wanted
    <3> SUFFICES ASSUME cache'["detail"].val # None
                 PROVE cache'["detail"].val \intersect Cache!Tasks = wanted
      OBVIOUS
    <3>1. CASE what # "update"
      BY <3>1 DEF SentCall, CacheInv, OwnTasks
    <3>2. CASE what = "update"
      <4>1. cache["detail"].val # None /\ cache'["detail"].val = Cache!With(cache["detail"].val, c)
        BY <3>2 DEF SentCall
      <4>2. cache["detail"].val \in Cache!Memo
        BY <4>1, Queries DEF CacheInv, CacheTypes, Copies
      <4> QED BY <1>1, <4>1, <4>2, Withs DEF CacheInv, OwnTasks
    <3> QED BY <3>1, <3>2
  <2>2. \A i \in 1..n : Ticks(calls'[i]) <=> Ticks(calls[i])
    BY <1>3
  <2>3. fetch'["detail"].pc = "none" \/ fetch' = fetch
    BY DEF SentCall
  <2>4. Len(calls') = 1 => calls'[1] = c
    BY <1>3
  <2>5. ASSUME fetch'["detail"].pc # "none", NEW i \in DOMAIN calls' PROVE ~Ticks(calls'[i])
    <3>1. fetch["detail"].pc # "none"
      BY <2>3, <2>5
    <3>2. i \in DOMAIN calls \/ i = n + 1
      BY <1>3
    <3> QED BY <1>2, <1>3, <3>1, <3>2 DEF CacheInv, OwnTasks, Ticks
  <2> QED BY <1>1, <2>1, <2>3, <2>4, <2>5 DEF CacheInv, OwnTasks, Ticks
<1> QED BY <1>6, <1>7

\* What the page shows of the tasks, if none was left behind, is what is wanted.
LEMMA TickValue ==
    ASSUME CacheInv, muddled \subseteq {"overlap"}, memo # None, Cache!Shown # None,
           page # "detail" => calls = <<>> /\ fetch[page].pc = "none"
    PROVE  Cache!Shown \intersect Cache!Tasks = wanted
<1>1. Cache!Shown = Cache!Listed(page, cache[page].val)
  BY DEF Cache!Shown
<1>2. CASE page = "detail"
  BY <1>1, <1>2, Memos DEF CacheInv, OwnTasks
<1>3. CASE page # "detail"
  <2>1. page \in Cache!List
    BY <1>3, Queries DEF CacheInv, CacheTypes
  <2>2. cache[page].val = Cache!Listed(page, memo)
    <3>1. ~AnyActed /\ fetch[page].pc = "none"
      BY <1>3 DEF AnyActed
    <3>2. ListFresh(AnyActed, fetch, cache, page, memo)
      BY <2>1 DEF CacheInv, CacheLists
    <3> QED BY <3>1, <3>2 DEF ListFresh
  <2>3. Cache!Shown = memo
    BY <1>1, <2>2, Memos
  <2>4. memo \intersect Cache!Tasks = wanted
    BY <1>3 DEF CacheInv, TasksWanted
  <2> QED BY <2>3, <2>4
<1> QED BY <1>2, <1>3

\* A task is ticked off: what is shown, or what was last, with it changed.
LEMMA TickStep ==
    ASSUME CacheInv, NEW t \in Cache!Tasks, Cache!handleChange(t)
    PROVE  CacheInv'
<1> DEFINE val == Cache!Toggle(t) \intersect Cache!Tasks
<1>1. /\ Cache!Send("update", Cache!Tasks, val)
      /\ wanted' = IF t \in Cache!Toggle(t) THEN wanted \union {t} ELSE wanted \ {t}
      /\ muddled' = muddled \union Cache!Note({"overlap"}, calls # <<>>)
                    \union Cache!Note({"lapse"},
                           \/ "behind" \in muddled
                           \/ page # "detail" /\ (calls # <<>> \/ fetch[page].pc # "none"))
  BY Zenon DEF Cache!handleChange
<1>2. /\ Cache!Tasks \in Cache!Memo /\ val \in Cache!Memo /\ val \subseteq Cache!Tasks
      /\ "update" \in Cache!Kind
  BY DEF Cache!Memo, Cache!Kind
<1>3. wanted' = IF t \in val THEN wanted \union {t} ELSE wanted \ {t}
  BY <1>1
<1>4. Cache!Toggle(t) = IF t \in Cache!Shown THEN Cache!Shown \ {t} ELSE Cache!Shown \union {t}
  BY DEF Cache!Toggle
<1>5. Cache!Shown \intersect Cache!Tasks = wanted => val = wanted'
  BY <1>3, <1>4
<1> HIDE DEF val
<1>6. PICK c : SentCall(c, "update", Cache!Tasks, val)
  BY <1>1, <1>2, Sends
<1>7. wanted' \in SUBSET Cache!Tasks
  BY <1>3 DEF CacheInv, CacheTypes
<1>8. /\ muddled \subseteq muddled'
      /\ muddled' \subseteq muddled \union {"overlap", "lapse"}
      /\ "overlap" \notin muddled' => calls = <<>>
      /\ "lapse" \notin muddled' => "behind" \notin muddled
      /\ "lapse" \notin muddled' /\ page # "detail" => calls = <<>> /\ fetch[page].pc = "none"
  BY <1>1 DEF Cache!Note
<1>9. muddled' \subseteq Cache!Muddle
  BY <1>8 DEF CacheInv, CacheTypes, Cache!Muddle
<1>10. CacheTypes' /\ CallsGood' /\ CacheLists'
  BY <1>2, <1>6, <1>7, <1>8, <1>9, SendKeeps
<1>11. OwnCopy'
  BY <1>6, <1>8, SendOwn
<1>12. /\ calls \in Seq(Cache!Call) /\ c \in Cache!Call /\ calls' = Append(calls, c)
       /\ UNCHANGED memo /\ c.mask = Cache!Tasks /\ c.kind = "update" /\ c.pc = "sent"
       /\ c.val = val /\ Cache!Shown # None /\ fetch'["detail"].pc = "none"
       /\ cache'["detail"].val = IF cache["detail"].val = None THEN None
                                 ELSE Cache!With(cache["detail"].val, c)
  BY <1>6 DEF CacheInv, CacheTypes, SentCall
<1> PICK n : n = Len(calls)
  OBVIOUS
<1>13. /\ n \in Nat /\ DOMAIN calls' = 1..(n + 1)
       /\ calls'[n + 1] = c /\ Len(calls') = n + 1
  BY <1>12, Appended
<1>14. muddled' \subseteq {"overlap", "behind"} /\ memo # None => val = wanted'
  BY <1>5, <1>8, <1>12, TickValue
<1>15. TasksWanted'
  <2>1. Ticks(c)
    BY <1>12 DEF Ticks
  <2>2. Last(n + 1)' /\ \A i \in 1..n : ~Last(i)'
    BY <1>12, <1>13, <2>1 DEF Last, Ticks
  <2> QED BY <1>12, <1>13, <1>14, <2>2 DEF TasksWanted
<1>16. OwnTasks'
  <2>1. cache["detail"].val \in Cache!Memo \union {None}
    BY Queries DEF CacheInv, CacheTypes, Copies
  <2>2. cache'["detail"].val # None => cache'["detail"].val \intersect Cache!Tasks = val
    BY <1>2, <1>12, <2>1, Withs DEF Ticks
  <2>3. Len(calls') = 1 => calls'[1] = c
    BY <1>13
  <2> QED BY <1>12, <1>14, <2>2, <2>3 DEF OwnTasks
<1> QED BY <1>10, <1>11, <1>15, <1>16 DEF CacheInv

\* Any other call: a flag changed, the memo deleted, a reaction.
LEMMA OtherSendStep ==
    ASSUME CacheInv, NEW what \in Cache!Kind, NEW fields \in Cache!Memo, NEW val \in Cache!Memo,
           Cache!Send(what, fields, val), fields \intersect Cache!Tasks = {}, UNCHANGED wanted,
           muddled' = muddled \union Cache!Note({"overlap"},
                          calls # <<>> \/ (what # "update" /\ fetch["detail"].pc # "none"))
    PROVE  CacheInv'
<1>1. PICK c : SentCall(c, what, fields, val)
  BY Sends
<1>2. /\ muddled \subseteq muddled'
      /\ muddled' \subseteq muddled \union {"overlap"}
      /\ "overlap" \notin muddled' => calls = <<>> /\ (what = "update" \/ fetch["detail"].pc = "none")
  BY DEF Cache!Note
<1>3. muddled' \subseteq Cache!Muddle /\ wanted' \in SUBSET Cache!Tasks
  BY <1>2 DEF CacheInv, CacheTypes, Cache!Muddle
<1>4. CacheTypes' /\ CallsGood' /\ CacheLists'
  BY <1>1, <1>2, <1>3, SendKeeps
<1>5. OwnCopy'
  BY <1>1, <1>2, SendOwn
<1>6. TasksWanted' /\ OwnTasks'
  BY <1>1, <1>2, SendOther
<1> QED BY <1>4, <1>5, <1>6 DEF CacheInv

\* The memo is changed in another way.
LEMMA ChangeStep ==
    ASSUME CacheInv, NEW f \in {"pinned", "archived", "dated"}, Cache!change(f)
    PROVE  CacheInv'
<1> DEFINE val == Cache!Toggle(f) \intersect {f}
<1>1. /\ Cache!Send("update", {f}, val)
      /\ muddled' = muddled \union Cache!Note({"overlap"}, calls # <<>>)
      /\ UNCHANGED wanted
  BY Zenon DEF Cache!change
<1>2. /\ {f} \in Cache!Memo /\ val \in Cache!Memo /\ {f} \intersect Cache!Tasks = {}
      /\ "update" \in Cache!Kind
  BY DEF Cache!Memo, Cache!Kind, Cache!Tasks
<1> HIDE DEF val
<1>3. muddled' = muddled \union Cache!Note({"overlap"},
                    calls # <<>> \/ ("update" # "update" /\ fetch["detail"].pc # "none"))
  BY <1>1 DEF Cache!Note
<1> QED BY <1>1, <1>2, <1>3, OtherSendStep

\* The memo is deleted.
LEMMA DeleteStep ==
    ASSUME CacheInv, Cache!confirmDeleteMemo
    PROVE  CacheInv'
<1>1. /\ Cache!Send("delete", {}, {})
      /\ muddled' = muddled \union Cache!Note({"overlap"}, Cache!Overlap)
      /\ UNCHANGED wanted
  BY Zenon DEF Cache!confirmDeleteMemo
<1>2. {} \in Cache!Memo /\ "delete" \in Cache!Kind
  BY DEF Cache!Memo, Cache!Kind
<1>3. muddled' = muddled \union Cache!Note({"overlap"},
                    calls # <<>> \/ ("delete" # "update" /\ fetch["detail"].pc # "none"))
  BY <1>1 DEF Cache!Note, Cache!Overlap
<1> QED BY <1>1, <1>2, <1>3, OtherSendStep

\* A reaction to the memo is sent.
LEMMA ReactStep ==
    ASSUME CacheInv, Cache!handleReactionClick
    PROVE  CacheInv'
<1> DEFINE val == Cache!Toggle("reacted") \intersect {"reacted"}
<1>1. /\ Cache!Send("react", {"reacted"}, val)
      /\ muddled' = muddled \union Cache!Note({"overlap"}, Cache!Overlap)
      /\ UNCHANGED wanted
  BY Zenon DEF Cache!handleReactionClick
<1>2. /\ {"reacted"} \in Cache!Memo /\ val \in Cache!Memo /\ {"reacted"} \intersect Cache!Tasks = {}
      /\ "react" \in Cache!Kind
  BY DEF Cache!Memo, Cache!Kind, Cache!Tasks
<1> HIDE DEF val
<1>3. muddled' = muddled \union Cache!Note({"overlap"},
                    calls # <<>> \/ ("react" # "update" /\ fetch["detail"].pc # "none"))
  BY <1>1 DEF Cache!Note, Cache!Overlap
<1> QED BY <1>1, <1>2, <1>3, OtherSendStep

\* One call changes its state, the others do not.
LEMMA Moved ==
    ASSUME calls \in Seq(Cache!Call), NEW i \in DOMAIN calls, NEW d \in Cache!Call,
           calls' = [calls EXCEPT ![i] = d]
    PROVE  /\ calls' \in Seq(Cache!Call) /\ Len(calls') = Len(calls) /\ Len(calls) \in Nat
           /\ DOMAIN calls' = DOMAIN calls /\ DOMAIN calls = 1..Len(calls)
           /\ calls'[i] = d /\ \A j \in DOMAIN calls : j # i => calls'[j] = calls[j]
  OBVIOUS

\* A call that moves on keeps what it asks for.
At(c, pc) == [c EXCEPT !.pc = pc]
AtWith(c, pc, read) == [c EXCEPT !.pc = pc, !.read = read]

\* The fields of such a call.
LEMMA CallFields ==
    ASSUME NEW c \in Cache!Call, NEW pc \in {"sent", "applied", "read"},
           NEW read \in Cache!Memo \union {None}
    PROVE  /\ At(c, pc) \in Cache!Call /\ At(c, pc).pc = pc /\ At(c, pc).read = c.read
           /\ At(c, pc).kind = c.kind /\ At(c, pc).mask = c.mask /\ At(c, pc).val = c.val
           /\ AtWith(c, pc, read) \in Cache!Call
           /\ AtWith(c, pc, read).pc = pc /\ AtWith(c, pc, read).read = read
           /\ AtWith(c, pc, read).kind = c.kind /\ AtWith(c, pc, read).mask = c.mask
           /\ AtWith(c, pc, read).val = c.val
<1>1. PICK d, e : d = [c EXCEPT !.pc = pc] /\ e = [c EXCEPT !.pc = pc, !.read = read]
  OBVIOUS
<1>2. /\ d \in Cache!Call /\ d.pc = pc /\ d.read = c.read
      /\ d.kind = c.kind /\ d.mask = c.mask /\ d.val = c.val
  BY <1>1 DEF Cache!Call
<1>3. /\ e \in Cache!Call /\ e.pc = pc /\ e.read = read
      /\ e.kind = c.kind /\ e.mask = c.mask /\ e.val = c.val
  BY <1>1 DEF Cache!Call, None
<1>4. d = At(c, pc) /\ e = AtWith(c, pc, read)
  BY <1>1, Zenon DEF At, AtWith
<1> QED BY <1>2, <1>3, <1>4

\* A call changes its state and keeps what it asks for.
MovedCall(i, d) ==
    /\ d \in Cache!Call /\ i \in DOMAIN calls /\ calls' = [calls EXCEPT ![i] = d]
    /\ d.kind = calls[i].kind /\ d.mask = calls[i].mask /\ d.val = calls[i].val
    /\ GoodCall(d)' /\ (Acted(calls[i]) => Acted(d)')
    /\ memo = None => memo' = None
    /\ memo' \in Cache!Memo \union {None}
    /\ UNCHANGED <<page, cache, fetch, wanted>>
    /\ muddled \subseteq muddled' /\ muddled' \subseteq muddled \union {"order"}

\* The types and the calls, when one moves on.
LEMMA MovedKeeps ==
    ASSUME CacheInv, NEW i, NEW d, MovedCall(i, d)
    PROVE  CacheTypes' /\ CallsGood' /\ (AnyActed => AnyActed')
<1>1. CacheTypes /\ CallsGood /\ calls \in Seq(Cache!Call)
  BY DEF CacheInv, CacheTypes
<1>2. /\ d \in Cache!Call /\ i \in DOMAIN calls /\ calls' = [calls EXCEPT ![i] = d]
      /\ GoodCall(d)' /\ (Acted(calls[i]) => Acted(d)')
      /\ memo = None => memo' = None
      /\ memo' \in Cache!Memo \union {None}
      /\ UNCHANGED <<page, cache, fetch, wanted>>
      /\ muddled' \subseteq muddled \union {"order"}
  BY DEF MovedCall
<1>3. CacheTypes'
  BY <1>1, <1>2, Moved DEF CacheTypes, Cache!Muddle
<1>4. \A c : (Acted(c) => Acted(c)')
  BY <1>2 DEF Acted
<1>5. \A c : (GoodCall(c) => GoodCall(c)')
  BY <1>2 DEF Acted, GoodCall, Ticks
<1>6. CallsGood'
  BY <1>1, <1>2, <1>5, Moved DEF CallsGood
<1>7. AnyActed => AnyActed'
  <2> SUFFICES ASSUME NEW j \in DOMAIN calls, Acted(calls[j]) PROVE AnyActed'
    BY DEF AnyActed
  <2>1. PICK e : e = calls'[j]
    OBVIOUS
  <2>2. e = IF j = i THEN d ELSE calls[j]
    BY <1>1, <1>2, <2>1, Moved
  <2>3. j \in DOMAIN calls' /\ Acted(e)'
    BY <1>1, <1>2, <1>4, <2>2, Moved
  <2> QED BY <2>1, <2>3 DEF AnyActed
<1> QED BY <1>3, <1>6, <1>7

\* With one or two calls, the last tick on its way is the second or the first.
LEMMA LastOfTwo ==
    ASSUME calls \in Seq(Cache!Call), Len(calls) <= 2
    PROVE  /\ \A i \in DOMAIN calls : i \in {1, 2}
           /\ 2 \in DOMAIN calls => 1 \in DOMAIN calls /\ (Last(2) <=> Ticks(calls[2]) /\ calls[2].pc = "sent")
           /\ 2 \in DOMAIN calls /\ ~Last(2) => (Last(1) <=> Ticks(calls[1]) /\ calls[1].pc = "sent")
           /\ 2 \in DOMAIN calls /\ Last(2) => ~Last(1)
           /\ 1 \in DOMAIN calls /\ 2 \notin DOMAIN calls => (Last(1) <=> Ticks(calls[1]) /\ calls[1].pc = "sent")
<1>1. DOMAIN calls = 1..Len(calls) /\ Len(calls) \in {0, 1, 2}
  <2>1. DOMAIN calls = 1..Len(calls) /\ Len(calls) \in Nat
    OBVIOUS
  <2> QED BY <2>1
<1>2. \A i \in DOMAIN calls : i \in {1, 2}
  BY <1>1
<1>3. 2 \in DOMAIN calls => 1 \in DOMAIN calls
  BY <1>1
<1> QED BY <1>2, <1>3 DEF Last

\* A call alone on its way that the server acted on leaves the memo's own copy
\* to its answer.
LEMMA OwnMoved ==
    ASSUME Len(calls') = 1, "behind" \notin muddled', fetch'["detail"].pc = "none",
           NEW d, calls'[1] = d, Acted(d)', d.pc # "sent" => d.read = memo'
    PROVE  OwnCopy'
<1>1. calls' # <<>>
  OBVIOUS
<1> QED BY <1>1 DEF OwnCopy

\* The server does what a call asks.
LEMMA ApplyStep ==
    ASSUME CacheInv, NEW i \in DOMAIN calls, Cache!Apply(i)
    PROVE  CacheInv'
<1>0. PICK c, d : c = calls[i] /\ d = AtWith(c, "applied", memo')
  OBVIOUS
<1>1. /\ c.pc = "sent" /\ memo # None
      /\ memo' = IF c.kind = "delete" THEN None ELSE Cache!With(memo, c)
      /\ calls' = [calls EXCEPT ![i] = d]
      /\ muddled' = muddled \union Cache!Note({"order"},
             \E j \in DOMAIN calls : IF j < i THEN calls[j].pc = "sent"
                                     ELSE j > i /\ calls[j].pc # "sent")
      /\ UNCHANGED <<page, cache, fetch, wanted>>
  BY <1>0, Zenon DEF Cache!Apply, None, AtWith
<1>2. c = calls[i]
  BY <1>0
<1>3. calls \in Seq(Cache!Call) /\ c \in Cache!Call /\ memo \in Cache!Memo /\ Len(calls) <= 2
  BY <1>1, <1>2 DEF CacheInv, CacheTypes
<1>4. /\ memo' \in Cache!Memo \union {None}
      /\ memo' = None <=> c.kind = "delete"
      /\ c.kind # "delete" /\ Ticks(c) /\ c.val \subseteq Cache!Tasks =>
            memo' \intersect Cache!Tasks = c.val
      /\ c.kind # "delete" /\ c.mask \intersect Cache!Tasks = {} =>
            memo' \intersect Cache!Tasks = memo \intersect Cache!Tasks
  BY <1>1, <1>3, Withs, Memos
<1>5. d \in Cache!Call
  BY <1>0, <1>3, <1>4, CallFields
<1>6. /\ d.pc = "applied" /\ d.read = memo' /\ d.kind = c.kind /\ d.mask = c.mask /\ d.val = c.val
  BY <1>0, <1>3, <1>4, CallFields
<1>7. PICK e : e = At(d, "sent") /\ e.read = memo' /\ e.kind = c.kind
  BY <1>5, <1>6, CallFields, None \in Cache!Memo \union {None}
<1>8. GoodCall(c)
  BY <1>2 DEF CacheInv, CallsGood
<1>9. GoodCall(d)' /\ Acted(d)'
  <2>1. Acted(d)'
    BY <1>6 DEF Acted
  <2>2. Acted(e)'
    BY <1>4, <1>7 DEF Acted
  <2> QED BY <1>4, <1>6, <1>7, <1>8, <2>1, <2>2 DEF GoodCall, Ticks, At
<1>10. muddled \subseteq muddled' /\ muddled' \subseteq muddled \union {"order"}
  BY <1>1 DEF Cache!Note
<1>11. MovedCall(i, d)
  BY <1>1, <1>2, <1>4, <1>5, <1>6, <1>9, <1>10 DEF MovedCall
<1>12. CacheTypes' /\ CallsGood' /\ (AnyActed => AnyActed')
  BY <1>11, MovedKeeps
<1>13. /\ calls' \in Seq(Cache!Call) /\ Len(calls') = Len(calls) /\ Len(calls) \in Nat
       /\ DOMAIN calls' = DOMAIN calls /\ DOMAIN calls = 1..Len(calls)
       /\ calls'[i] = d /\ \A j \in DOMAIN calls : j # i => calls'[j] = calls[j]
  BY <1>1, <1>3, <1>5, Moved
<1>14. CacheLists'
  <2>1. AnyActed'
    BY <1>9, <1>13 DEF AnyActed
  <2> QED BY <2>1 DEF CacheLists, ListCurrent, ListFresh
<1>15. Len(calls) = 1 => i = 1 /\ calls'[1] = d
  BY <1>13
<1>16. OwnCopy'
  <2> SUFFICES ASSUME {"lost", "overlap"} \intersect muddled' = {} PROVE OwnCopy'
    BY DEF OwnCopy
  <2>1. /\ "behind" \notin muddled' /\ Len(calls) = 1 /\ calls # <<>>
        /\ fetch["detail"].pc = "none"
    BY <1>10, <1>13 DEF CacheInv, OwnCopy
  <2> QED BY <1>1, <1>6, <1>9, <1>13, <1>15, <2>1, OwnMoved
<1>17. TasksWanted'
  <2> SUFFICES ASSUME muddled' \subseteq {"overlap", "behind"}, memo' # None
               PROVE  /\ \A k \in DOMAIN calls : Last(k)' => calls'[k].val = wanted
                      /\ (\A k \in DOMAIN calls : ~Last(k)') => memo' \intersect Cache!Tasks = wanted
    BY <1>1, <1>13 DEF TasksWanted
  <2>1. ~(\E j \in DOMAIN calls : IF j < i THEN calls[j].pc = "sent"
                                  ELSE j > i /\ calls[j].pc # "sent")
    BY <1>1 DEF Cache!Note
  <2>2. /\ \A k \in DOMAIN calls : Last(k) => calls[k].val = wanted
        /\ (\A k \in DOMAIN calls : ~Last(k)) => memo \intersect Cache!Tasks = wanted
    BY <1>1, <1>10 DEF CacheInv, TasksWanted
  <2>3. \A k \in DOMAIN calls : /\ Ticks(calls'[k]) <=> Ticks(calls[k])
                                /\ calls'[k].val = calls[k].val
                                /\ calls'[k].pc = IF k = i THEN "applied" ELSE calls[k].pc
    BY <1>2, <1>6, <1>13 DEF Ticks
  <2>4. \A k \in DOMAIN calls : k > i => (Last(k)' <=> Last(k))
    BY <1>13, <2>3 DEF Last, Ticks
  <2>5. CASE ~Ticks(c)
    <3>1. \A k \in DOMAIN calls : Last(k)' <=> Last(k)
      BY <1>1, <1>2, <1>13, <2>3, <2>5 DEF Last, Ticks
    <3>2. memo' \intersect Cache!Tasks = memo \intersect Cache!Tasks
      BY <1>4, <1>8, <2>5 DEF GoodCall
    <3> QED BY <2>2, <2>3, <3>1, <3>2
  <2>6. CASE Ticks(c)
    <3>1. \A k \in DOMAIN calls : Last(k)' => k > i
      BY <1>13, <2>1, <2>3 DEF Last
    <3>2. ASSUME \A k \in DOMAIN calls : ~Last(k)' PROVE Last(i)
      <4>1. \A k \in DOMAIN calls : k > i => ~Last(k)
        BY <2>4, <3>2
      <4>2. \A k \in DOMAIN calls : k \in {1, 2}
        BY <1>3, LastOfTwo
      <4>3. \A k \in DOMAIN calls : k > i => k = 2 /\ i = 1
        BY <4>2
      <4>4. \A k \in DOMAIN calls : k > i => ~(Ticks(calls[k]) /\ calls[k].pc = "sent")
        BY <1>3, <4>1, <4>3, LastOfTwo
      <4> QED BY <1>1, <1>2, <2>6, <4>4 DEF Last
    <3>3. memo' \intersect Cache!Tasks = c.val
      BY <1>4, <1>8, <2>6 DEF GoodCall
    <3> QED BY <1>2, <2>2, <2>3, <2>4, <3>1, <3>2, <3>3
  <2> QED BY <2>5, <2>6
<1>18. OwnTasks'
  <2> SUFFICES ASSUME muddled' \subseteq {"overlap"}, memo' # None PROVE OwnTasks'
    BY DEF OwnTasks
  <2>1. \A k \in DOMAIN calls : Ticks(calls'[k]) <=> Ticks(calls[k])
    BY <1>2, <1>6, <1>13 DEF Ticks
  <2> QED BY <1>1, <1>6, <1>10, <1>13, <1>15, <2>1 DEF CacheInv, OwnTasks, Ticks
<1> QED BY <1>12, <1>14, <1>16, <1>17, <1>18 DEF CacheInv

\* A reaction is followed by a fetch of the memo.
LEMMA ReadBackStep ==
    ASSUME CacheInv, NEW i \in DOMAIN calls, Cache!ReadBack(i)
    PROVE  CacheInv'
<1>0. PICK c, m, d : c = calls[i] /\ m = memo /\ d = AtWith(c, "read", m)
  OBVIOUS
<1>1. /\ c.kind = "react" /\ c.pc = "applied" /\ memo # None
      /\ calls' = [calls EXCEPT ![i] = d]
      /\ UNCHANGED <<memo, page, cache, fetch, wanted, muddled>>
  BY <1>0, Zenon DEF Cache!ReadBack, None, AtWith
<1>2. c = calls[i]
  BY <1>0
<1>3. calls \in Seq(Cache!Call) /\ c \in Cache!Call /\ memo \in Cache!Memo \union {None}
  BY <1>2 DEF CacheInv, CacheTypes
<1>4. /\ d \in Cache!Call
      /\ d.pc = "read" /\ d.read = memo /\ d.kind = c.kind /\ d.mask = c.mask /\ d.val = c.val
  <2>1. m \in Cache!Memo \union {None} /\ d = AtWith(c, "read", m)
    BY <1>0, <1>3
  <2>2. /\ d \in Cache!Call
        /\ d.pc = "read" /\ d.read = m /\ d.kind = c.kind /\ d.mask = c.mask /\ d.val = c.val
    BY <1>3, <2>1, CallFields, ZenonT(40)
  <2> QED BY <1>0, <2>2
<1>5. PICK e : e = At(d, "sent") /\ e.read = memo /\ e.kind = c.kind
  <2>1. None \in Cache!Memo \union {None}
    OBVIOUS
  <2>2. At(d, "sent").read = d.read /\ At(d, "sent").kind = d.kind
    BY <1>4, <2>1, CallFields
  <2> QED BY <1>4, <2>2
<1>6. GoodCall(c)
  BY <1>2 DEF CacheInv, CallsGood
<1>7. GoodCall(d)' /\ Acted(d)'
  <2>1. Acted(d)'
    BY <1>4 DEF Acted
  <2>2. Acted(e)'
    BY <1>1, <1>5 DEF Acted
  <2> QED BY <1>1, <1>4, <1>5, <1>6, <2>1, <2>2 DEF GoodCall, Ticks, At
<1>8. MovedCall(i, d)
  BY <1>1, <1>2, <1>3, <1>4, <1>7 DEF MovedCall
<1>9. CacheTypes' /\ CallsGood' /\ (AnyActed => AnyActed')
  BY <1>8, MovedKeeps
<1>10. /\ calls' \in Seq(Cache!Call) /\ Len(calls') = Len(calls) /\ Len(calls) \in Nat
       /\ DOMAIN calls' = DOMAIN calls /\ DOMAIN calls = 1..Len(calls)
       /\ calls'[i] = d /\ \A j \in DOMAIN calls : j # i => calls'[j] = calls[j]
  BY <1>1, <1>3, <1>4, Moved
<1>11. CacheLists'
  BY <1>1, <1>9 DEF CacheInv, CacheLists, ListCurrent, ListFresh
<1>12. Len(calls) = 1 => i = 1 /\ calls'[1] = d
  BY <1>10
<1>13. OwnCopy'
  <2> SUFFICES ASSUME {"lost", "overlap"} \intersect muddled' = {} PROVE OwnCopy'
    BY DEF OwnCopy
  <2>1. /\ "behind" \notin muddled' /\ Len(calls) = 1 /\ calls # <<>>
        /\ fetch["detail"].pc = "none"
    BY <1>1, <1>10 DEF CacheInv, OwnCopy
  <2> QED BY <1>1, <1>4, <1>7, <1>10, <1>12, <2>1, OwnMoved
<1>14. \A k \in DOMAIN calls : /\ Ticks(calls'[k]) <=> Ticks(calls[k])
                               /\ Ticks(calls[k]) => calls'[k] = calls[k]
  BY <1>1, <1>2, <1>4, <1>10 DEF Ticks
<1>15. \A k \in DOMAIN calls : Last(k)' <=> Last(k)
  BY <1>10, <1>14 DEF Last, Ticks
<1>16. TasksWanted'
  BY <1>1, <1>10, <1>14, <1>15 DEF CacheInv, TasksWanted, Last
<1>17. OwnTasks'
  BY <1>1, <1>4, <1>10, <1>12, <1>14 DEF CacheInv, OwnTasks, Ticks
<1> QED BY <1>9, <1>11, <1>13, <1>16, <1>17 DEF CacheInv

\* A mutation that failed is tried again.
LEMMA RetryStep ==
    ASSUME CacheInv, NEW i \in DOMAIN calls, Cache!Retry(i)
    PROVE  CacheInv'
<1>0. PICK c, d : c = calls[i] /\ d = At(c, "sent")
  OBVIOUS
<1>1. /\ c.kind # "react" /\ c.pc = "applied"
      /\ calls' = [calls EXCEPT ![i] = d]
      /\ muddled' = muddled \union Cache!Note({"order"}, "overlap" \in muddled)
      /\ UNCHANGED <<memo, page, cache, fetch, wanted>>
  BY <1>0, Zenon DEF Cache!Retry, At
<1>2. c = calls[i]
  BY <1>0
<1>3. calls \in Seq(Cache!Call) /\ c \in Cache!Call /\ memo \in Cache!Memo \union {None}
  BY <1>2 DEF CacheInv, CacheTypes
<1>4. /\ d \in Cache!Call
      /\ d.pc = "sent" /\ d.read = c.read /\ d.kind = c.kind /\ d.mask = c.mask /\ d.val = c.val
  BY <1>0, <1>3, CallFields
<1>5. GoodCall(c)
  BY <1>2 DEF CacheInv, CallsGood
<1>6. Acted(d)
  BY <1>0, <1>1, <1>5 DEF GoodCall, At
<1>7. GoodCall(d)' /\ Acted(d)'
  <2>1. Acted(d)'
    BY <1>1, <1>6 DEF Acted
  <2> QED BY <1>4, <1>5, <2>1 DEF GoodCall, Ticks
<1>8. muddled' = IF "overlap" \in muddled THEN muddled \union {"order"} ELSE muddled
  BY <1>1 DEF Cache!Note
<1>9. MovedCall(i, d)
  BY <1>1, <1>2, <1>3, <1>4, <1>7, <1>8 DEF MovedCall
<1>10. CacheTypes' /\ CallsGood' /\ (AnyActed => AnyActed')
  BY <1>9, MovedKeeps
<1>11. /\ calls' \in Seq(Cache!Call) /\ Len(calls') = Len(calls) /\ Len(calls) \in Nat
       /\ DOMAIN calls' = DOMAIN calls /\ DOMAIN calls = 1..Len(calls)
       /\ calls'[i] = d /\ \A j \in DOMAIN calls : j # i => calls'[j] = calls[j]
  BY <1>1, <1>3, <1>4, Moved
<1>12. CacheLists'
  BY <1>1, <1>8, <1>10 DEF CacheInv, CacheLists, ListCurrent, ListFresh
<1>13. Len(calls) = 1 => i = 1 /\ calls'[1] = d /\ DOMAIN calls = {1}
  BY <1>11
<1>14. OwnCopy'
  <2> SUFFICES ASSUME {"lost", "overlap"} \intersect muddled' = {} PROVE OwnCopy'
    BY DEF OwnCopy
  <2>1. /\ "behind" \notin muddled' /\ Len(calls) = 1 /\ calls # <<>>
        /\ fetch["detail"].pc = "none"
    BY <1>8, <1>11 DEF CacheInv, OwnCopy
  <2> QED BY <1>1, <1>4, <1>7, <1>11, <1>13, <2>1, OwnMoved
<1>15. \A k \in DOMAIN calls : Ticks(calls'[k]) <=> Ticks(calls[k])
  BY <1>2, <1>4, <1>11 DEF Ticks
<1>16. TasksWanted'
  <2> SUFFICES ASSUME muddled' \subseteq {"overlap", "behind"}, memo # None PROVE TasksWanted'
    BY <1>1 DEF TasksWanted
  <2>1. muddled' = muddled /\ {"lost", "overlap"} \intersect muddled = {}
    BY <1>8
  <2>2. Len(calls) = 1 /\ c.read = memo
    BY <1>1, <1>2, <1>11, <1>13, <2>1 DEF CacheInv, OwnCopy
  <2>3. /\ \A k \in DOMAIN calls : Last(k) => calls[k].val = wanted
        /\ (\A k \in DOMAIN calls : ~Last(k)) => memo \intersect Cache!Tasks = wanted
    BY <2>1 DEF CacheInv, TasksWanted
  <2>4. memo \intersect Cache!Tasks = wanted
    BY <1>1, <1>2, <1>13, <2>2, <2>3 DEF Last
  <2>5. Ticks(d) => d.val = wanted
    BY <1>4, <1>5, <2>2, <2>4 DEF GoodCall, Ticks
  <2>6. ASSUME NEW k \in DOMAIN calls PROVE calls'[k] = d /\ (Last(k)' <=> Ticks(d))
    BY <1>4, <1>11, <1>13, <2>2, <2>6 DEF Last, Ticks
  <2>7. 1 \in DOMAIN calls
    BY <1>13, <2>2
  <2> QED BY <1>1, <1>11, <2>4, <2>5, <2>6, <2>7 DEF TasksWanted
<1>17. OwnTasks'
  BY <1>1, <1>4, <1>8, <1>11, <1>13, <1>15 DEF CacheInv, OwnTasks, Ticks
<1> QED BY <1>10, <1>12, <1>14, <1>16, <1>17 DEF CacheInv

\* The other calls when one is answered or fails.
LEMMA RemovedKeeps ==
    ASSUME CacheInv, NEW i \in DOMAIN calls, calls' = Cache!RemoveAt(calls, i), UNCHANGED memo
    PROVE  /\ calls' \in Seq(Cache!Call) /\ Len(calls') = Len(calls) - 1 /\ Len(calls) \in {1, 2}
           /\ CallsGood'
           /\ AnyActed => Acted(calls[i]) \/ AnyActed'
           /\ Len(calls) = 1 => i = 1 /\ calls' = <<>> /\ Len(calls') = 0 /\ DOMAIN calls' = {}
           /\ Len(calls) = 2 => /\ DOMAIN calls = {1, 2} /\ DOMAIN calls' = {1}
                                /\ calls'[1] = calls[3 - i] /\ 3 - i \in {1, 2} /\ 3 - i # i
<1>1. calls \in Seq(Cache!Call) /\ Len(calls) <= 2
  BY DEF CacheInv, CacheTypes
<1>2. DOMAIN calls = 1..Len(calls) /\ Len(calls) \in Nat
  BY <1>1
<1>3. Len(calls) \in {1, 2} /\ i \in 1..Len(calls)
  BY <1>1, <1>2
<1>4. /\ calls' \in Seq(Cache!Call) /\ Len(calls') = Len(calls) - 1
      /\ \A j \in 1..(Len(calls) - 1) : calls'[j] = calls[IF j < i THEN j ELSE j + 1]
  BY <1>1, Removed
<1>5. DOMAIN calls' = 1..(Len(calls) - 1)
  BY <1>4
<1>6. Len(calls) = 1 => i = 1 /\ calls' = <<>> /\ Len(calls') = 0 /\ DOMAIN calls' = {}
  BY <1>2, <1>4, <1>5
<1>7. Len(calls) = 2 => /\ DOMAIN calls = {1, 2} /\ DOMAIN calls' = {1}
                        /\ calls'[1] = calls[3 - i] /\ 3 - i \in {1, 2} /\ 3 - i # i
  <2> SUFFICES ASSUME Len(calls) = 2
               PROVE  /\ DOMAIN calls = {1, 2} /\ DOMAIN calls' = {1}
                      /\ calls'[1] = calls[3 - i] /\ 3 - i \in {1, 2} /\ 3 - i # i
    OBVIOUS
  <2>1. DOMAIN calls = {1, 2} /\ DOMAIN calls' = {1}
    BY <1>2, <1>5
  <2>2. i \in {1, 2}
    BY <2>1
  <2>3. calls'[1] = calls[IF 1 < i THEN 1 ELSE 2]
    BY <1>4
  <2> QED BY <2>1, <2>2, <2>3
<1>8. \A c : (Acted(c) <=> Acted(c)') /\ (GoodCall(c) <=> GoodCall(c)')
  BY DEF Acted, GoodCall
<1>9. \A j \in DOMAIN calls' : \E k \in DOMAIN calls : calls'[j] = calls[k]
  BY <1>3, <1>6, <1>7
<1>10. CallsGood'
  BY <1>8, <1>9 DEF CacheInv, CallsGood
<1>11. AnyActed => Acted(calls[i]) \/ AnyActed'
  <2> SUFFICES ASSUME NEW j \in DOMAIN calls, Acted(calls[j]), j # i PROVE AnyActed'
    BY DEF AnyActed
  <2>1. Len(calls) = 2
    BY <1>2, <1>3
  <2>2. j = 3 - i
    BY <1>2, <1>3, <2>1
  <2>3. 1 \in DOMAIN calls' /\ calls'[1] = calls[j]
    BY <1>7, <2>1, <2>2
  <2> QED BY <1>8, <2>3 DEF AnyActed
<1> QED BY <1>3, <1>4, <1>6, <1>7, <1>10, <1>11

\* A call fails: what was shown before is shown again.
LEMMA FailedStep ==
    ASSUME CacheInv, NEW i \in DOMAIN calls, Cache!Failed(i)
    PROVE  CacheInv'
<1>0. PICK c : c = calls[i]
  OBVIOUS
<1>1. /\ calls' = Cache!RemoveAt(calls, i)
      /\ cache' = IF c.kind = "update" /\ c.prev # None
                  THEN [cache EXCEPT !["detail"].val = c.prev] ELSE cache
      /\ muddled' = muddled \union {"failed"} \union Cache!Note({"lost"}, Acted(c))
      /\ UNCHANGED <<memo, page, fetch, wanted>>
  BY <1>0, Zenon DEF Cache!Failed, None, Acted
<1>2. /\ CacheTypes /\ calls \in Seq(Cache!Call) /\ c \in Cache!Call
      /\ cache \in Copies /\ c.prev \in Cache!Memo \union {None}
  <2>1. CacheTypes /\ calls \in Seq(Cache!Call) /\ cache \in Copies
    BY DEF CacheInv, CacheTypes
  <2>2. c \in Cache!Call
    BY <1>0, <2>1
  <2>3. c.prev \in Cache!Memo \union {None}
    BY <2>2 DEF Cache!Call, None
  <2> QED BY <2>1, <2>2, <2>3
<1>3. /\ calls' \in Seq(Cache!Call) /\ Len(calls') = Len(calls) - 1 /\ Len(calls) \in {1, 2}
      /\ CallsGood'
      /\ AnyActed => Acted(c) \/ AnyActed'
      /\ Len(calls) = 1 => i = 1 /\ calls' = <<>> /\ Len(calls') = 0
  BY <1>0, <1>1, RemovedKeeps
<1>4. /\ cache' \in Copies /\ \A q \in Cache!List : cache'[q] = cache[q]
      /\ cache'["detail"].val = IF c.kind = "update" /\ c.prev # None THEN c.prev
                                ELSE cache["detail"].val
  <2>1. CASE c.kind = "update" /\ c.prev # None
    <3> DEFINE own == cache["detail"]
    <3>1. own \in [val : Cache!Memo \union {None}, invalid : BOOLEAN]
      BY <1>2, Queries DEF Copies
    <3>2. [own EXCEPT !.val = c.prev] = [val |-> c.prev, invalid |-> own.invalid]
      BY <3>1
    <3>3. cache' = [cache EXCEPT !["detail"] = [own EXCEPT !.val = c.prev]]
      BY <1>1, <2>1
    <3> HIDE DEF own
    <3>4. cache' = [cache EXCEPT !["detail"] = [val |-> c.prev, invalid |-> own.invalid]]
      BY <3>2, <3>3
    <3> QED BY <1>2, <2>1, <3>1, <3>4, Queries DEF Copies
  <2>2. CASE ~(c.kind = "update" /\ c.prev # None)
    BY <1>1, <1>2, <2>2
  <2> QED BY <2>1, <2>2
<1>5. /\ "failed" \in muddled' /\ muddled \subseteq muddled' /\ muddled' \subseteq Cache!Muddle
      /\ "lost" \notin muddled' => ~Acted(c)
      /\ muddled' \subseteq muddled \union {"failed", "lost"}
  BY <1>1, <1>2 DEF CacheTypes, Cache!Note, Cache!Muddle
<1>6. CacheTypes'
  BY <1>1, <1>2, <1>3, <1>4, <1>5 DEF CacheTypes
<1>7. CacheLists'
  <2> SUFFICES ASSUME {"lost", "left"} \intersect muddled' = {}
               PROVE  /\ \A q \in Cache!List : ListCurrent(AnyActed', fetch', cache', q, memo')
                      /\ page' \in Cache!List => ListFresh(AnyActed', fetch', cache', page', memo')
    BY DEF CacheLists
  <2>1. /\ \A q \in Cache!List : ListCurrent(AnyActed, fetch, cache, q, memo)
        /\ page \in Cache!List => ListFresh(AnyActed, fetch, cache, page, memo)
    BY <1>5 DEF CacheInv, CacheLists
  <2>2. AnyActed => AnyActed'
    BY <1>3, <1>5
  <2> QED BY <1>1, <1>4, <2>1, <2>2 DEF ListCurrent, ListFresh
<1>8. OwnCopy'
  <2> SUFFICES ASSUME {"lost", "overlap"} \intersect muddled' = {} PROVE OwnCopy'
    BY DEF OwnCopy
  <2>1. OwnCopy /\ {"lost", "overlap"} \intersect muddled = {} /\ ~Acted(c)
    BY <1>5 DEF CacheInv
  <2>2. Len(calls) = 1 /\ c = calls[1] /\ calls # <<>>
    BY <1>0, <1>3, <2>1 DEF OwnCopy
  <2>3. /\ "behind" \notin muddled' /\ fetch["detail"].pc = "none"
        /\ c.kind = "update" => /\ c.prev \in {memo, None}
                                /\ c.prev = None => cache["detail"].val = None
        /\ c.kind # "update" => cache["detail"].val \in {memo, None}
    BY <1>5, <2>1, <2>2 DEF OwnCopy
  <2>4. cache'["detail"].val \in {memo, None}
    BY <1>4, <2>3
  <2>5. calls' = <<>> /\ Len(calls') = 0
    BY <1>3, <2>2
  <2> QED BY <1>1, <2>3, <2>4, <2>5 DEF OwnCopy
<1>9. TasksWanted' /\ OwnTasks'
  BY <1>5 DEF TasksWanted, OwnTasks
<1> QED BY <1>3, <1>6, <1>7, <1>8, <1>9 DEF CacheInv

\* The copies when the lists are invalidated and the memo's own is replaced.
LEMMA Invalidated ==
    ASSUME NEW k \in Copies, NEW own \in [val : Cache!Memo \union {None}, invalid : BOOLEAN]
    PROVE  /\ Cache!invalidated([k EXCEPT !["detail"] = own]) \in Copies
           /\ Cache!invalidated([k EXCEPT !["detail"] = own])["detail"] = own
           /\ \A q \in Cache!List : Cache!invalidated([k EXCEPT !["detail"] = own])[q].invalid
<1>1. PICK m : m = [k EXCEPT !["detail"] = own]
  OBVIOUS
<1>2. m \in Copies /\ m["detail"] = own
  BY <1>1, Queries DEF Copies
<1>3. \A q \in Cache!Query : m[q] \in [val : Cache!Memo \union {None}, invalid : BOOLEAN]
  BY <1>2 DEF Copies
<1>4. ASSUME NEW q \in Cache!Query
      PROVE  /\ [m[q] EXCEPT !.invalid = TRUE] = [val |-> m[q].val, invalid |-> TRUE]
             /\ m[q].val \in Cache!Memo \union {None}
  <2>1. PICK r : r = m[q]
    OBVIOUS
  <2>2. r \in [val : Cache!Memo \union {None}, invalid : BOOLEAN]
    BY <1>3, <2>1
  <2>3. ASSUME NEW t PROVE [r EXCEPT !.invalid = t] = [val |-> r.val, invalid |-> t]
    BY <2>2
  <2>4. [r EXCEPT !.invalid = TRUE] = [val |-> r.val, invalid |-> TRUE]
    BY <2>3, Zenon
  <2> QED BY <2>1, <2>2, <2>4
<1>5. Cache!invalidated(m) =
        [q \in Cache!Query |-> IF q \in Cache!List THEN [m[q] EXCEPT !.invalid = TRUE] ELSE m[q]]
  BY DEF Cache!invalidated
<1>6. \A q \in Cache!Query :
         Cache!invalidated(m)[q] = IF q \in Cache!List THEN [val |-> m[q].val, invalid |-> TRUE] ELSE m[q]
  BY <1>4, <1>5
<1>7. \A q \in Cache!Query : Cache!invalidated(m)[q] \in [val : Cache!Memo \union {None}, invalid : BOOLEAN]
  <2> TAKE q \in Cache!Query
  <2>1. [val |-> m[q].val, invalid |-> TRUE] \in [val : Cache!Memo \union {None}, invalid : BOOLEAN]
    BY <1>4
  <2> QED BY <1>3, <1>6, <2>1
<1>8. Cache!invalidated(m) \in Copies
  BY <1>5, <1>7, <1>6 DEF Copies
<1>9. Cache!invalidated(m)["detail"] = own /\ \A q \in Cache!List : Cache!invalidated(m)[q].invalid
  BY <1>2, <1>6, Queries
<1> QED BY <1>1, <1>8, <1>9

\* A call is answered: the copies it changes are set or have to be fetched.
LEMMA AnsweredStep ==
    ASSUME CacheInv, NEW i \in DOMAIN calls, Cache!Answered(i)
    PROVE  CacheInv'
<1>0. PICK c, own, data, again, f :
        /\ c = calls[i]
        /\ own = [val |-> c.read, invalid |-> FALSE]
        /\ data = Cache!invalidated([cache EXCEPT !["detail"] = own])
        /\ again = IF page \in Cache!List THEN Cache!Sending(fetch, page) ELSE fetch
        /\ f = IF c.kind = "delete" THEN [again EXCEPT !["detail"] = Cache!NoFetch] ELSE again
  OBVIOUS
<1>1. /\ c.pc = (IF c.kind = "react" THEN "read" ELSE "applied")
      /\ calls' = Cache!RemoveAt(calls, i)
      /\ cache' = data
      /\ IF Cache!Leads(c) = page THEN fetch' = f /\ UNCHANGED page
         ELSE Cache!Show(Cache!Leads(c), data, f)
      /\ muddled' = muddled
             \union Cache!Note({"behind"}, calls' # <<>>)
             \union Cache!Note({"left"}, \E q \in Cache!List \ {page} : fetch[q].pc # "none")
      /\ UNCHANGED <<memo, wanted>>
  BY <1>0, Zenon DEF Cache!Answered
<1>2. c.pc # "sent"
  BY <1>1
<1>3. /\ CacheTypes /\ calls \in Seq(Cache!Call) /\ c \in Cache!Call
      /\ cache \in Copies /\ fetch \in Fetches /\ page \in Cache!Query
      /\ c.read \in Cache!Memo \union {None}
  <2>1. /\ CacheTypes /\ calls \in Seq(Cache!Call)
        /\ cache \in Copies /\ fetch \in Fetches /\ page \in Cache!Query
    BY DEF CacheInv, CacheTypes
  <2>2. c \in Cache!Call
    BY <1>0, <2>1
  <2>3. c.read \in Cache!Memo \union {None}
    BY <2>2 DEF Cache!Call, None
  <2> QED BY <2>1, <2>2, <2>3
<1>4. /\ data \in Copies /\ data["detail"].val = c.read /\ \A q \in Cache!List : data[q].invalid
  <2>1. own \in [val : Cache!Memo \union {None}, invalid : BOOLEAN] /\ own.val = c.read
    BY <1>0, <1>3
  <2> QED BY <1>0, <1>3, <2>1, Invalidated
<1>5. /\ again \in Fetches /\ again["detail"] = fetch["detail"]
      /\ page \in Cache!List => again[page].pc = "sent"
      /\ \A q \in Cache!List : q # page => again[q] = fetch[q]
  BY <1>0, <1>3, FetchSent, Queries
<1>6. /\ f \in Fetches /\ (f["detail"].pc = "none" \/ f["detail"] = fetch["detail"])
      /\ \A q \in Cache!List : f[q] = again[q]
  <2>1. Cache!NoFetch \in [pc : {"none", "sent", "read"}, val : Cache!Memo \union {None}] /\ Cache!NoFetch.pc = "none"
    BY DEF Cache!NoFetch, None
  <2>2. CASE c.kind = "delete"
    BY <1>0, <1>5, <2>1, <2>2, Queries DEF Fetches
  <2>3. CASE c.kind # "delete"
    BY <1>0, <1>5, <2>3
  <2> QED BY <2>2, <2>3
<1>7. Cache!Leads(c) \in Cache!Query /\ (Cache!Leads(c) # page => Cache!Leads(c) \in Cache!List)
  BY <1>3, Queries DEF Cache!Leads
<1>8. /\ page' \in Cache!Query /\ fetch' \in Fetches /\ fetch'["detail"] = f["detail"]
  <2>1. CASE Cache!Leads(c) = page
    BY <1>1, <1>3, <1>6, <2>1
  <2>2. CASE Cache!Leads(c) # page
    <3>1. Cache!Show(Cache!Leads(c), data, f) /\ Cache!Leads(c) # "detail"
      BY <1>1, <1>7, <2>2, Queries
    <3> QED BY <1>4, <1>6, <1>7, <3>1, Queries, ShowPage
  <2> QED BY <2>1, <2>2
<1>9. /\ calls' \in Seq(Cache!Call) /\ Len(calls') = Len(calls) - 1 /\ Len(calls) \in {1, 2}
      /\ CallsGood'
      /\ Len(calls) = 1 => i = 1 /\ calls' = <<>> /\ Len(calls') = 0 /\ DOMAIN calls' = {}
      /\ Len(calls) = 2 => /\ DOMAIN calls = {1, 2} /\ DOMAIN calls' = {1}
                           /\ calls'[1] = calls[3 - i] /\ 3 - i \in {1, 2} /\ 3 - i # i
  BY <1>0, <1>1, RemovedKeeps
<1>10. /\ muddled \subseteq muddled' /\ muddled' \subseteq Cache!Muddle
       /\ "behind" \in muddled' => "behind" \in muddled \/ calls' # <<>>
       /\ "behind" \notin muddled' => calls' = <<>>
       /\ "left" \notin muddled' => \A q \in Cache!List : q # page => fetch[q].pc = "none"
  BY <1>1, <1>3 DEF CacheTypes, Cache!Note, Cache!Muddle
<1>11. CacheTypes'
  <2>1. UNCHANGED <<memo, wanted>> /\ cache' \in Copies
    BY <1>1, <1>4
  <2>2. calls' \in Seq(Cache!Call) /\ Len(calls') <= 2
    BY <1>9
  <2>3. muddled' \subseteq Cache!Muddle
    BY <1>10
  <2> QED BY <1>3, <1>8, <2>1, <2>2, <2>3 DEF CacheTypes
<1>12. CacheLists'
  <2> SUFFICES ASSUME {"lost", "left"} \intersect muddled' = {}
               PROVE  /\ \A q \in Cache!List : ListCurrent(AnyActed', fetch', cache', q, memo')
                      /\ page' \in Cache!List => ListFresh(AnyActed', fetch', cache', page', memo')
    BY DEF CacheLists
  <2>1. \A q \in Cache!List : ListCurrent(FALSE, f, data, q, memo)
    BY <1>4, <1>5, <1>6, <1>10 DEF ListCurrent, ListFresh
  <2>2. /\ \A q \in Cache!List : ListCurrent(FALSE, fetch', data, q, memo)
        /\ page' \in Cache!List => ListFresh(FALSE, fetch', data, page', memo)
    <3>1. CASE Cache!Leads(c) = page
      BY <1>1, <1>5, <1>6, <2>1, <3>1 DEF ListFresh
    <3>2. CASE Cache!Leads(c) # page
      <4>1. Cache!Show(Cache!Leads(c), data, f)
        BY <1>1, <3>2
      <4> QED BY <1>4, <1>6, <1>7, <2>1, <4>1, ShowPage
    <3> QED BY <3>1, <3>2
  <2> QED BY <1>1, <2>2 DEF ListCurrent, ListFresh
<1>13. OwnCopy'
  <2> SUFFICES ASSUME {"lost", "overlap"} \intersect muddled' = {} PROVE OwnCopy'
    BY DEF OwnCopy
  <2>1. OwnCopy /\ {"lost", "overlap"} \intersect muddled = {}
    BY <1>10 DEF CacheInv
  <2>2. Len(calls) = 1 /\ c = calls[1] /\ calls # <<>>
    BY <1>0, <1>9, <2>1 DEF OwnCopy
  <2>3. /\ "behind" \notin muddled /\ fetch["detail"].pc = "none" /\ c.read = memo
    BY <1>2, <2>1, <2>2 DEF OwnCopy
  <2>4. calls' = <<>> /\ Len(calls') = 0 /\ "behind" \notin muddled'
    BY <1>9, <1>10, <2>2, <2>3
  <2>5. cache'["detail"].val = memo /\ fetch'["detail"].pc = "none"
    BY <1>1, <1>4, <1>6, <1>8, <2>3
  <2>6. UNCHANGED memo
    BY <1>1
  <2> QED BY <2>4, <2>5, <2>6 DEF OwnCopy
<1>14. TasksWanted'
  <2> SUFFICES ASSUME muddled' \subseteq {"overlap", "behind"}, memo # None PROVE TasksWanted'
    BY <1>1 DEF TasksWanted
  <2>1. /\ \A k \in DOMAIN calls : Last(k) => calls[k].val = wanted
        /\ (\A k \in DOMAIN calls : ~Last(k)) => memo \intersect Cache!Tasks = wanted
    BY <1>10 DEF CacheInv, TasksWanted
  <2>2. ~Last(i)
    BY <1>0, <1>2 DEF Last
  <2>3. CASE Len(calls) = 1
    <3>1. DOMAIN calls = {1}
      BY <1>3, <2>3
    <3> QED BY <1>1, <1>9, <2>1, <2>2, <2>3, <3>1 DEF TasksWanted
  <2>4. CASE Len(calls) = 2
    <3>1. PICK k \in {1, 2} : k = 3 - i /\ k # i /\ calls'[1] = calls[k]
      BY <1>9, <2>4
    <3>2. DOMAIN calls = {1, 2} /\ DOMAIN calls' = {1} /\ i \in {1, 2}
      BY <1>9, <2>4
    <3>3. Last(k) <=> Ticks(calls[k]) /\ calls[k].pc = "sent"
      BY <1>0, <1>2, <3>1, <3>2 DEF Last
    <3>4. Last(1)' <=> Ticks(calls'[1]) /\ calls'[1].pc = "sent"
      BY <3>2 DEF Last, Ticks
    <3>5. \A j \in DOMAIN calls : j = i \/ j = k
      BY <3>1, <3>2
    <3> QED BY <1>1, <2>1, <2>2, <3>1, <3>2, <3>3, <3>4, <3>5 DEF TasksWanted
  <2> QED BY <1>9, <2>3, <2>4
<1>15. OwnTasks'
  <2> SUFFICES ASSUME muddled' \subseteq {"overlap"}, memo # None PROVE OwnTasks'
    BY <1>1 DEF OwnTasks
  <2>1. calls' = <<>> /\ Len(calls) = 1
    BY <1>9, <1>10
  <2>2. /\ DOMAIN calls = {1} /\ c = calls[1] /\ Len(calls') = 0 /\ DOMAIN calls' = {}
    BY <1>0, <1>3, <1>9, <2>1
  <2>3. c.read = memo
    BY <1>2, <1>10, <2>1, <2>2 DEF CacheInv, OwnTasks
  <2>4. memo \intersect Cache!Tasks = wanted
    BY <1>2, <1>10, <2>2 DEF CacheInv, TasksWanted, Last
  <2>5. cache'["detail"].val = memo
    BY <1>1, <1>4, <2>3
  <2>6. fetch'["detail"].pc = "none" \/ fetch'["detail"] = fetch["detail"]
    BY <1>6, <1>8
  <2>7. fetch["detail"].pc = "read" /\ fetch["detail"].val # None =>
           fetch["detail"].val \intersect Cache!Tasks = wanted
    BY <1>10 DEF CacheInv, OwnTasks
  <2> QED BY <1>1, <2>2, <2>4, <2>5, <2>6, <2>7 DEF OwnTasks
<1> QED BY <1>9, <1>11, <1>12, <1>13, <1>14, <1>15 DEF CacheInv

\* Every step of the cache keeps the invariant.
LEMMA StepCache == ASSUME CacheInv, Cache!Next PROVE CacheInv'
<1>1. ASSUME NEW p \in Cache!List, Cache!Visit(p) PROVE CacheInv'
  BY <1>1, Queries, VisitStep
<1>2. ASSUME Cache!handleGotoMemoDetailPage PROVE CacheInv'
  <2>1. Cache!Visit("detail")
    BY <1>2 DEF Cache!handleGotoMemoDetailPage
  <2> QED BY <2>1, Queries, VisitStep
<1>3. ASSUME NEW q \in Cache!Query, Cache!Fetched(q) \/ Cache!FetchAnswered(q) PROVE CacheInv'
  BY <1>3, FetchedStep, FetchAnsweredStep
<1>4. ASSUME \/ Cache!handleTogglePinMemoBtnClick \/ Cache!handleToggleMemoStatusClick
             \/ Cache!unpinMemo \/ Cache!handleSave
      PROVE  CacheInv'
  <2>1. Cache!change("pinned") \/ Cache!change("archived") \/ Cache!change("dated")
    BY <1>4, Zenon DEF Cache!handleTogglePinMemoBtnClick, Cache!handleToggleMemoStatusClick,
                       Cache!unpinMemo, Cache!handleSave
  <2> QED BY <2>1, ChangeStep
<1>5. ASSUME Cache!ReactionSelector \/ Cache!handleClick PROVE CacheInv'
  <2>1. Cache!handleReactionClick
    BY <1>5, Zenon DEF Cache!ReactionSelector, Cache!handleClick
  <2> QED BY <2>1, ReactStep
<1>6. ASSUME NEW i \in DOMAIN calls,
             \/ Cache!Apply(i) \/ Cache!ReadBack(i) \/ Cache!Answered(i)
             \/ Cache!Failed(i) \/ Cache!Retry(i)
      PROVE  CacheInv'
  BY <1>6, ApplyStep, ReadBackStep, AnsweredStep, FailedStep, RetryStep
<1> QED BY <1>1, <1>2, <1>3, <1>4, <1>5, <1>6, RefetchStep, TickStep, DeleteStep DEF Cache!Next

\* Once nothing is under way, what the invariant says is what was promised.
LEMMA CacheSettled == CacheInv => Cache!MemoSettles
<1> SUFFICES ASSUME CacheInv, Cache!Idle, "lost" \notin muddled PROVE Cache!MemoSettles
  BY DEF Cache!MemoSettles
<1>1. calls = <<>> /\ \A q \in Cache!Query : fetch[q].pc = "none"
  BY DEF Cache!Idle
<1>2. ~AnyActed /\ DOMAIN calls = {}
  BY <1>1 DEF AnyActed
<1>3. page \in Cache!List /\ "left" \notin muddled => cache[page].val = Cache!Listed(page, memo)
  BY <1>1, <1>2, Queries DEF CacheInv, CacheLists, ListFresh
<1>4. "overlap" \notin muddled => cache["detail"].val \in {memo, None}
  BY <1>1 DEF CacheInv, OwnCopy
<1>5. muddled \subseteq {"overlap", "behind"} /\ memo # None => memo \intersect Cache!Tasks = wanted
  BY <1>1, <1>2 DEF CacheInv, TasksWanted
<1> QED BY <1>3, <1>4, <1>5 DEF Cache!MemoSettles, None

(***************************************************************************)
(* A list shown page by page                                               *)
(***************************************************************************)

\* The start of what is stored, and the token of what follows.
StartOf(l, t) ==
    \E n \in 0..Len(Pages!Stored) :
        /\ l = SubSeq(Pages!Stored, 1, n)
        /\ n < Len(Pages!Stored) => t = n
        /\ t # 0 => t = n

IsMore(q) == q = [pc |-> q.pc, from |-> q.from, got |-> q.got, next |-> q.next]
IsWhole(q) == q = [pc |-> q.pc, left |-> q.left, got |-> q.got, next |-> q.next]

\* Of a fetch of the whole list and one of its next page only one is on its
\* way, unless the list will not be right.
PagesInv ==
    /\ items \subseteq 1..4
    /\ IsMore(more) /\ IsWhole(whole)
    /\ ~stale =>
          /\ whole.pc = "none" =>
                /\ StartOf(paged, token)
                /\ more.pc # "none" => token # 0 /\ more.from = token
                /\ more.pc = "read" => /\ more.got = Pages!Page(more.from)
                                       /\ more.next = Pages!Token(more.from)
          /\ whole.pc # "none" => more.pc = "none"
          /\ whole.pc = "sent" => /\ whole.next \in 0..Len(Pages!Stored)
                                  /\ whole.got = SubSeq(Pages!Stored, 1, whole.next)
          /\ whole.pc = "read" => StartOf(whole.got, whole.next)

\* What is stored is a sequence.
LEMMA StoredSeq ==
    items \subseteq 1..4 => \E S : Pages!Stored \in Seq(S) /\ Len(Pages!Stored) \in Nat
<1> SUFFICES ASSUME items \subseteq 1..4
             PROVE  \E S : Pages!Stored \in Seq(S) /\ Len(Pages!Stored) \in Nat
  OBVIOUS
<1>1. Pages!Cardinality(items) \in Nat
  <2>1. IsFiniteSet(1..4)
    BY FS_Interval, 1 \in Int, 4 \in Int
  <2>2. Cardinality(items) \in Nat
    BY <2>1, FS_Subset, FS_CardinalityType
  <2>3. Pages!Cardinality(items) = Cardinality(items)
    BY Zenon DEF Cardinality, Pages!Cardinality
  <2> QED BY <2>2, <2>3
<1>2. PICK m \in Nat : m = Pages!Cardinality(items)
  BY <1>1
<1>3. PICK s : s = Pages!Stored /\ s = [n \in 1..m |-> s[n]]
  <2>1. Pages!Stored = [n \in 1..Pages!Cardinality(items) |->
                          CHOOSE i \in items : Pages!Cardinality({j \in items : j >= i}) = n]
    BY Zenon DEF Pages!Stored
  <2> DEFINE g(n) == CHOOSE i \in items : Pages!Cardinality({j \in items : j >= i}) = n
             f == [n \in 1..m |-> g(n)]
  <2> HIDE DEF g
  <2>3. f = [n \in 1..m |-> f[n]]
    OBVIOUS
  <2>4. Pages!Stored = f
    BY <1>2, <2>1, Zenon DEF g
  <2> HIDE DEF f
  <2>2. \E h : Pages!Stored = [n \in 1..m |-> h[n]]
    BY <2>3, <2>4
  <2> QED BY <2>2
<1>4. s \in Seq({s[n] : n \in 1..m}) /\ Len(s) = m
  BY <1>3
<1> QED BY <1>3, <1>4

\* The start of a sequence and what follows it.
LEMMA Joined ==
    ASSUME NEW S, NEW s \in Seq(S), NEW n \in Nat, NEW m \in Nat, n <= m, m <= Len(s)
    PROVE  SubSeq(s, 1, n) \o SubSeq(s, n + 1, m) = SubSeq(s, 1, m)
<1> DEFINE a == SubSeq(s, 1, n)
           b == SubSeq(s, n + 1, m)
           c == SubSeq(s, 1, m)
<1>1. a \in Seq(S) /\ Len(a) = n /\ \A j \in 1..n : a[j] = s[j]
  OBVIOUS
<1>2. b \in Seq(S) /\ Len(b) = m - n /\ \A j \in 1..(m - n) : b[j] = s[n + j]
  OBVIOUS
<1>3. c \in Seq(S) /\ Len(c) = m /\ \A j \in 1..m : c[j] = s[j]
  OBVIOUS
<1> HIDE DEF a, b, c
<1>4. a \o b \in Seq(S) /\ Len(a \o b) = m
  <2>1. a \in Seq(S) /\ b \in Seq(S)
    BY <1>1, <1>2
  <2>2. a \o b \in Seq(S) /\ Len(a \o b) = Len(a) + Len(b)
    BY <2>1
  <2> QED BY <1>1, <1>2, <2>2
<1>5. ASSUME NEW j \in 1..m PROVE (a \o b)[j] = c[j]
  <2>1. a \in Seq(S) /\ b \in Seq(S)
    BY <1>1, <1>2
  <2>2. (a \o b)[j] = IF j <= Len(a) THEN a[j] ELSE b[j - Len(a)]
    BY <1>1, <1>2, <2>1
  <2>3. CASE j <= n
    BY <1>1, <1>3, <2>2, <2>3
  <2>4. CASE j > n
    <3>1. j - n \in 1..(m - n) /\ n + (j - n) = j
      BY <2>4
    <3>2. b[j - n] = s[j] /\ c[j] = s[j]
      BY <1>2, <1>3, <3>1
    <3>3. (a \o b)[j] = b[j - n]
      BY <1>1, <2>2, <2>4
    <3> QED BY <3>2, <3>3
  <2>5. j <= n \/ j > n
    OBVIOUS
  <2> QED BY <2>3, <2>4, <2>5, Zenon
<1>6. a \o b = c
  <2>1. DOMAIN (a \o b) = 1..m /\ DOMAIN c = 1..m
    BY <1>3, <1>4
  <2>2. a \o b \in Seq(S) /\ c \in Seq(S)
    BY <1>3, <1>4
  <2> QED BY <1>5, <2>1, <2>2, SMTT(30)
<1> QED BY <1>6 DEF a, b, c

\* A page appended to the start of what is stored makes a longer one.
LEMMA NextPage ==
    ASSUME items \subseteq 1..4, NEW n \in 0..Len(Pages!Stored)
    PROVE  StartOf(SubSeq(Pages!Stored, 1, n) \o Pages!Page(n), Pages!Token(n))
<1>1. PICK S : Pages!Stored \in Seq(S) /\ Len(Pages!Stored) \in Nat
  BY StoredSeq
<1>2. PICK s \in Seq(S) : s = Pages!Stored /\ Len(s) \in Nat
  BY <1>1
<1>3. PICK m : m = IF n + PageSize < Len(s) THEN n + PageSize ELSE Len(s)
  OBVIOUS
<1>4. /\ n \in Nat /\ m \in Nat /\ n <= m /\ m <= Len(s)
      /\ m < Len(s) => m = n + PageSize
      /\ n + PageSize < Len(s) => m = n + PageSize
      /\ PageSize \in Nat /\ PageSize > 0
  BY <1>2, <1>3, PagesAssumption
<1>5. Pages!Page(n) = SubSeq(s, n + 1, m)
  BY <1>2, <1>3, Zenon DEF Pages!Page
<1>6. SubSeq(s, 1, n) \o Pages!Page(n) = SubSeq(s, 1, m)
  BY <1>2, <1>4, <1>5, Joined
<1>7. Len(Pages!Page(n)) = m - n
  BY <1>2, <1>4, <1>5
<1>8. Pages!Token(n) =
        IF Len(s) > n + PageSize \/ (view = "attachments" /\ m - n = PageSize)
        THEN n + PageSize ELSE 0
  BY <1>2, <1>7 DEF Pages!Token
<1>9. /\ m < Len(s) => Pages!Token(n) = m
      /\ Pages!Token(n) # 0 => Pages!Token(n) = m
  BY <1>4, <1>8, <1>2, <1>3
<1> QED BY <1>2, <1>4, <1>6, <1>9 DEF StartOf

\* A fetch of so many pages.
LEMMA Wholes ==
    ASSUME NEW n
    PROVE  Pages!Whole(n) = [pc |-> "sent", left |-> n, got |-> <<>>, next |-> 0]
<1>1. PICK r : r = [pc |-> "none", left |-> 0, got |-> <<>>, next |-> 0]
  OBVIOUS
<1>2. Pages!Whole(n) = [[r EXCEPT !.pc = "sent"] EXCEPT !.left = n]
  BY <1>1 DEF Pages!Whole, Pages!NoWhole
<1>3. [r EXCEPT !.pc = "sent"] = [pc |-> "sent", left |-> 0, got |-> <<>>, next |-> 0]
  BY <1>1
<1> QED BY <1>2, <1>3

\* The list is fetched anew from its start.
LEMMA FetchedAnew ==
    ASSUME items \subseteq 1..4, NEW n, whole' = Pages!Whole(n), IsMore(more'),
           items' \subseteq 1..4, ~stale' => more'.pc = "none"
    PROVE  PagesInv'
<1>1. whole' = [pc |-> "sent", left |-> n, got |-> <<>>, next |-> 0]
  BY Wholes
<1>2. PICK S, s : s = Pages!Stored' /\ s \in Seq(S) /\ Len(s) \in Nat
  <2>1. \E S : Pages!Stored' \in Seq(S) /\ Len(Pages!Stored') \in Nat
    <3>1. (items \subseteq 1..4 => \E S : Pages!Stored \in Seq(S) /\ Len(Pages!Stored) \in Nat)'
      BY StoredSeq, PTL
    <3> QED BY <3>1
  <2> QED BY <2>1
<1>3. SubSeq(s, 1, 0) = <<>>
  BY <1>2
<1>4. IsWhole(whole')
  BY <1>1 DEF IsWhole
<1> QED BY <1>1, <1>2, <1>3, <1>4 DEF PagesInv, IsMore, IsWhole

\* The fields of the fetches as they change.
LEMMA MoreFields ==
    ASSUME IsMore(more), NEW a, NEW b, NEW c
    PROVE  /\ Pages!NoMore = [pc |-> "none", from |-> 0, got |-> <<>>, next |-> 0]
           /\ [Pages!NoMore EXCEPT !.pc = "sent", !.from = a]
                 = [pc |-> "sent", from |-> a, got |-> <<>>, next |-> 0]
           /\ [more EXCEPT !.pc = "read", !.got = b, !.next = c]
                 = [pc |-> "read", from |-> more.from, got |-> b, next |-> c]
<1>1. PICK r, q : /\ r = [pc |-> "none", from |-> 0, got |-> <<>>, next |-> 0]
                  /\ q = more /\ q = [pc |-> q.pc, from |-> q.from, got |-> q.got, next |-> q.next]
  BY DEF IsMore
<1>2. Pages!NoMore = r
  BY <1>1 DEF Pages!NoMore
<1>3. [r EXCEPT !.pc = "sent", !.from = a]
         = [pc |-> "sent", from |-> a, got |-> <<>>, next |-> 0]
  <2>1. PICK x : x = [r EXCEPT !.pc = "sent"]
    OBVIOUS
  <2>2. x = [pc |-> "sent", from |-> 0, got |-> <<>>, next |-> 0]
    BY <1>1, <2>1
  <2>3. [r EXCEPT !.pc = "sent", !.from = a] = [x EXCEPT !.from = a]
    BY <1>1, <2>1
  <2>4. [x EXCEPT !.from = a] = [pc |-> "sent", from |-> a, got |-> <<>>, next |-> 0]
    BY <2>2
  <2> QED BY <2>3, <2>4
<1>4. [q EXCEPT !.pc = "read", !.got = b, !.next = c]
         = [pc |-> "read", from |-> q.from, got |-> b, next |-> c]
  <2>1. PICK x : x = [q EXCEPT !.pc = "read"]
    OBVIOUS
  <2>2. x = [pc |-> "read", from |-> q.from, got |-> q.got, next |-> q.next]
    BY <1>1, <2>1
  <2>3. PICK y : y = [x EXCEPT !.got = b]
    OBVIOUS
  <2>4. y = [pc |-> "read", from |-> q.from, got |-> b, next |-> q.next]
    BY <2>2, <2>3
  <2>5. [y EXCEPT !.next = c] = [pc |-> "read", from |-> q.from, got |-> b, next |-> c]
    BY <2>4
  <2>6. [q EXCEPT !.pc = "read", !.got = b, !.next = c] = [y EXCEPT !.next = c]
    BY <1>1, <2>1, <2>3
  <2> QED BY <2>5, <2>6
<1> QED BY <1>1, <1>2, <1>3, <1>4

\* What is stored, its pages and their tokens stay while it does.
LEMMA SameStored ==
    ASSUME UNCHANGED <<items, view>>
    PROVE  /\ Pages!Stored' = Pages!Stored
           /\ \A n : Pages!Page(n)' = Pages!Page(n) /\ Pages!Token(n)' = Pages!Token(n)
           /\ \A l, t : StartOf(l, t)' <=> StartOf(l, t)
<1>1. Pages!Stored' = Pages!Stored
  BY DEF Pages!Stored
<1>2. \A n : Pages!Page(n)' = Pages!Page(n)
  BY <1>1 DEF Pages!Page
<1>3. \A n : Pages!Token(n)' = Pages!Token(n)
  BY <1>1, <1>2 DEF Pages!Token
<1> QED BY <1>1, <1>2, <1>3 DEF StartOf

\* The list is being fetched, and is empty until it is.
LEMMA InitPages == Pages!Init => PagesInv
<1> SUFFICES ASSUME Pages!Init PROVE PagesInv
  OBVIOUS
<1>1. /\ items \subseteq 1..4 /\ more = Pages!NoMore /\ whole = Pages!Whole(1) /\ stale = FALSE
  BY DEF Pages!Init
<1>2. /\ more = [pc |-> "none", from |-> 0, got |-> <<>>, next |-> 0]
      /\ whole = [pc |-> "sent", left |-> 1, got |-> <<>>, next |-> 0]
  BY <1>1, Wholes DEF Pages!NoMore
<1>3. PICK S, s : s = Pages!Stored /\ s \in Seq(S) /\ Len(s) \in Nat
  BY <1>1, StoredSeq
<1>4. SubSeq(s, 1, 0) = <<>> /\ 0 \in 0..Len(s)
  BY <1>3
<1>5. /\ whole.pc = "sent" /\ whole.next \in 0..Len(Pages!Stored)
      /\ whole.got = SubSeq(Pages!Stored, 1, whole.next)
  BY <1>2, <1>3, <1>4
<1>6. IsMore(more) /\ IsWhole(whole) /\ more.pc = "none"
  BY <1>2 DEF IsMore, IsWhole
<1> QED BY <1>1, <1>5, <1>6 DEF PagesInv

\* The next page is asked for.
LEMMA LoadMoreStep == ASSUME PagesInv, Pages!handleLoadMore PROVE PagesInv'
<1>1. /\ token # 0 /\ more.pc = "none"
      /\ more' = [Pages!NoMore EXCEPT !.pc = "sent", !.from = token]
      /\ whole' = Pages!NoWhole
      /\ stale' = (stale \/ whole.pc # "none")
      /\ UNCHANGED <<view, items, paged, token>>
  BY Zenon DEF Pages!handleLoadMore
<1>2. more' = [pc |-> "sent", from |-> token, got |-> <<>>, next |-> 0]
  BY <1>1, MoreFields DEF PagesInv
<1>3. whole' = [pc |-> "none", left |-> 0, got |-> <<>>, next |-> 0]
  BY <1>1 DEF Pages!NoWhole
<1>4. \A l, t : StartOf(l, t)' <=> StartOf(l, t)
  BY <1>1, SameStored
<1>5. IsMore(more') /\ IsWhole(whole')
  BY <1>2, <1>3 DEF IsMore, IsWhole
<1>6. ~stale' => ~stale /\ whole.pc = "none"
  BY <1>1, Zenon
<1>7. ~stale' => StartOf(paged, token)' /\ token' # 0
  BY <1>1, <1>4, <1>6 DEF PagesInv
<1>8. /\ more'.pc = "sent" /\ more'.from = token' /\ whole'.pc = "none"
  BY <1>1, <1>2, <1>3
<1>9. items' \subseteq 1..4
  BY <1>1 DEF PagesInv
<1> QED BY <1>5, <1>7, <1>8, <1>9 DEF PagesInv, IsMore, IsWhole

\* The server reads the next page.
LEMMA MoreReadStep == ASSUME PagesInv, Pages!MoreRead PROVE PagesInv'
<1>1. /\ more.pc = "sent"
      /\ more' = [more EXCEPT !.pc = "read", !.got = Pages!Page(more.from),
                              !.next = Pages!Token(more.from)]
      /\ UNCHANGED <<view, items, paged, token, whole, stale>>
  BY Zenon DEF Pages!MoreRead
<1>2. more' = [pc |-> "read", from |-> more.from, got |-> Pages!Page(more.from),
               next |-> Pages!Token(more.from)]
  BY <1>1, MoreFields DEF PagesInv
<1>3. /\ Pages!Stored' = Pages!Stored
      /\ \A n : Pages!Page(n)' = Pages!Page(n) /\ Pages!Token(n)' = Pages!Token(n)
      /\ \A l, t : StartOf(l, t)' <=> StartOf(l, t)
  BY <1>1, SameStored
<1>4. IsMore(more')
  BY <1>2 DEF IsMore
<1> QED BY <1>1, <1>2, <1>3, <1>4 DEF PagesInv, IsMore, IsWhole

\* The next page follows those there are.
LEMMA MoreAnsweredStep == ASSUME PagesInv, Pages!MoreAnswered PROVE PagesInv'
<1>1. /\ more.pc = "read"
      /\ paged' = paged \o more.got /\ token' = more.next
      /\ more' = Pages!NoMore
      /\ UNCHANGED <<view, items, whole, stale>>
  BY Zenon DEF Pages!MoreAnswered
<1>2. more' = [pc |-> "none", from |-> 0, got |-> <<>>, next |-> 0]
  BY <1>1 DEF Pages!NoMore
<1>3. /\ Pages!Stored' = Pages!Stored /\ \A l, t : StartOf(l, t)' <=> StartOf(l, t)
  BY <1>1, SameStored
<1>4. ~stale /\ whole.pc = "none" => StartOf(paged', token')
  <2> SUFFICES ASSUME ~stale, whole.pc = "none" PROVE StartOf(paged', token')
    OBVIOUS
  <2>1. /\ StartOf(paged, token) /\ token # 0 /\ more.from = token
        /\ more.got = Pages!Page(token) /\ more.next = Pages!Token(token)
    BY <1>1 DEF PagesInv
  <2>2. token \in 0..Len(Pages!Stored) /\ paged = SubSeq(Pages!Stored, 1, token)
    BY <2>1 DEF StartOf
  <2> QED BY <1>1, <2>1, <2>2, NextPage DEF PagesInv
<1>5. IsMore(more')
  BY <1>2 DEF IsMore
<1> QED BY <1>1, <1>2, <1>3, <1>4, <1>5 DEF PagesInv, IsMore, IsWhole

\* The server reads a page of the list fetched anew.
LEMMA WholeReadStep == ASSUME PagesInv, Pages!WholeRead PROVE PagesInv'
<1>1. /\ whole.pc = "sent"
      /\ whole' = [pc |-> "read", left |-> whole.left - 1,
                   got |-> whole.got \o Pages!Page(whole.next), next |-> Pages!Token(whole.next)]
      /\ UNCHANGED <<view, items, paged, token, more, stale>>
  BY Zenon DEF Pages!WholeRead
<1>2. /\ Pages!Stored' = Pages!Stored /\ \A l, t : StartOf(l, t)' <=> StartOf(l, t)
  BY <1>1, SameStored
<1>3. ~stale => StartOf(whole'.got, whole'.next)
  BY <1>1, NextPage DEF PagesInv
<1>4. IsWhole(whole')
  BY <1>1 DEF IsWhole
<1> QED BY <1>1, <1>2, <1>3, <1>4 DEF PagesInv, IsMore, IsWhole

\* That page follows those fetched, until there are as many as there were.
LEMMA WholeAnsweredStep == ASSUME PagesInv, Pages!WholeAnswered PROVE PagesInv'
<1>1. /\ whole.pc = "read"
      /\ \/ /\ whole.next # 0 /\ whole' = [whole EXCEPT !.pc = "sent"]
            /\ UNCHANGED <<paged, token>>
         \/ paged' = whole.got /\ token' = whole.next /\ whole' = Pages!NoWhole
      /\ UNCHANGED <<view, items, more, stale>>
  BY DEF Pages!WholeAnswered, Pages!Replace
<1>2. /\ Pages!Stored' = Pages!Stored /\ \A l, t : StartOf(l, t)' <=> StartOf(l, t)
  BY <1>1, SameStored
<1>3. CASE whole.next # 0 /\ whole' = [whole EXCEPT !.pc = "sent"] /\ UNCHANGED <<paged, token>>
  <2>1. PICK q : q = whole /\ IsWhole(q)
    BY DEF PagesInv
  <2>2. [q EXCEPT !.pc = "sent"] = [pc |-> "sent", left |-> q.left, got |-> q.got, next |-> q.next]
    BY <2>1 DEF IsWhole
  <2>3. whole' = [pc |-> "sent", left |-> q.left, got |-> q.got, next |-> q.next]
    BY <1>3, <2>1, <2>2
  <2>4. IsWhole(whole')
    BY <2>3 DEF IsWhole
  <2>5. ~stale => /\ whole.next \in 0..Len(Pages!Stored)
                  /\ whole.got = SubSeq(Pages!Stored, 1, whole.next)
    BY <1>1, <1>3 DEF PagesInv, StartOf
  <2> QED BY <1>1, <1>2, <2>1, <2>3, <2>4, <2>5 DEF PagesInv, IsMore, IsWhole
<1>4. CASE paged' = whole.got /\ token' = whole.next /\ whole' = Pages!NoWhole
  <2>1. whole' = [pc |-> "none", left |-> 0, got |-> <<>>, next |-> 0]
    BY <1>4 DEF Pages!NoWhole
  <2>2. IsWhole(whole')
    BY <2>1 DEF IsWhole
  <2> QED BY <1>1, <1>2, <1>4, <2>1, <2>2 DEF PagesInv, IsMore, IsWhole
<1> QED BY <1>1, <1>3, <1>4

\* A fetch fails, and what is shown stays.
LEMMA FetchFailsStep == ASSUME PagesInv, Pages!FetchFails PROVE PagesInv'
<1>1. /\ \/ more.pc # "none" /\ more' = Pages!NoMore /\ UNCHANGED <<whole, stale>>
         \/ whole' = Pages!NoWhole /\ stale' = TRUE /\ UNCHANGED more
      /\ UNCHANGED <<view, items, paged, token>>
  BY DEF Pages!FetchFails
<1>2. /\ Pages!Stored' = Pages!Stored /\ \A l, t : StartOf(l, t)' <=> StartOf(l, t)
  BY <1>1, SameStored
<1>3. CASE more.pc # "none" /\ more' = Pages!NoMore /\ UNCHANGED <<whole, stale>>
  <2>1. more' = [pc |-> "none", from |-> 0, got |-> <<>>, next |-> 0]
    BY <1>3 DEF Pages!NoMore
  <2>2. IsMore(more')
    BY <2>1 DEF IsMore
  <2> QED BY <1>1, <1>2, <1>3, <2>1, <2>2 DEF PagesInv, IsMore, IsWhole
<1>4. CASE whole' = Pages!NoWhole /\ stale' = TRUE /\ UNCHANGED more
  BY <1>1, <1>4 DEF PagesInv, IsMore, IsWhole, Pages!NoWhole
<1> QED BY <1>1, <1>3, <1>4

\* What leaves the list and the fetches alone.
LEMMA PagesSame ==
    ASSUME PagesInv, UNCHANGED <<view, items, paged, token, more, whole, stale>>
    PROVE  PagesInv'
<1>1. /\ Pages!Stored' = Pages!Stored
      /\ \A n : Pages!Page(n)' = Pages!Page(n) /\ Pages!Token(n)' = Pages!Token(n)
      /\ \A l, t : StartOf(l, t)' <=> StartOf(l, t)
  BY SameStored
<1> QED BY <1>1 DEF PagesInv, IsMore, IsWhole

\* What changes the items makes the list stale.
LEMMA PagesStale ==
    ASSUME PagesInv, UNCHANGED <<more, whole>>, items' \subseteq 1..4, stale' = TRUE
    PROVE  PagesInv'
BY DEF PagesInv, IsMore, IsWhole

\* Every step of the paged lists keeps the invariant.
LEMMA StepPages == ASSUME PagesInv, Pages!Next PROVE PagesInv'
<1>1. items \subseteq 1..4 /\ IsMore(more)
  BY DEF PagesInv
<1>2. ASSUME Pages!Refetch PROVE PagesInv'
  <2>1. /\ \E n : whole' = Pages!Whole(n)
        /\ more' = Pages!NoMore /\ UNCHANGED items
    BY <1>2 DEF Pages!Refetch
  <2>2. IsMore(more') /\ more'.pc = "none"
    BY <2>1 DEF Pages!NoMore, IsMore
  <2> QED BY <1>1, <2>1, <2>2, FetchedAnew
<1>3. ASSUME Pages!deleteUnusedAttachmentsDialog \/ Pages!handleDeleteUnusedAttachments PROVE PagesInv'
  <2>1. UNCHANGED <<view, items, paged, token, more, whole, stale>>
    BY <1>3 DEF Pages!deleteUnusedAttachmentsDialog, Pages!handleDeleteUnusedAttachments
  <2> QED BY <2>1, PagesSame
<1>4. ASSUME Pages!AllDeleted \/ Pages!DeleteFails PROVE PagesInv'
  <2>1. whole' = Pages!Whole(1) /\ stale' = (more.pc # "none") /\ UNCHANGED <<more, items>>
    BY <1>4 DEF Pages!AllDeleted, Pages!DeleteFails, Pages!handleRefetch
  <2>2. IsMore(more') /\ (~stale' => more'.pc = "none")
    BY <1>1, <2>1 DEF IsMore
  <2> QED BY <1>1, <2>1, <2>2, FetchedAnew
<1>5. ASSUME NEW i, Pages!Deleted(i) PROVE PagesInv'
  <2>1. items' = items \ {i} /\ stale' = TRUE /\ UNCHANGED <<more, whole>>
    BY <1>5 DEF Pages!Deleted
  <2> QED BY <1>1, <2>1, PagesStale
<1>6. ASSUME NEW i \in 1..4, Pages!ChangedElsewhere(i) PROVE PagesInv'
  <2>1. /\ items' = IF i \in items THEN items \ {i} ELSE items \union {i}
        /\ stale' = TRUE /\ UNCHANGED <<more, whole>>
    BY <1>6 DEF Pages!ChangedElsewhere
  <2> QED BY <1>1, <2>1, PagesStale
<1> QED BY <1>2, <1>3, <1>4, <1>5, <1>6, LoadMoreStep, MoreReadStep, MoreAnsweredStep,
           WholeReadStep, WholeAnsweredStep, FetchFailsStep DEF Pages!Next

\* What the invariant says once nothing is under way.
LEMMA PagesSettled == PagesInv => Pages!PagesSettle
<1> SUFFICES ASSUME PagesInv, Pages!Settled, ~stale PROVE Pages!PagesSettle
  BY DEF Pages!PagesSettle
<1>1. StartOf(paged, token)
  BY DEF PagesInv, Pages!Settled
<1>2. PICK S : Pages!Stored \in Seq(S) /\ Len(Pages!Stored) \in Nat
  BY StoredSeq DEF PagesInv
<1>3. PICK s \in Seq(S) : s = Pages!Stored /\ Len(s) \in Nat
  BY <1>2
<1>4. PICK n \in 0..Len(s) :
        /\ paged = SubSeq(s, 1, n)
        /\ n < Len(s) => token = n
        /\ token # 0 => token = n
  BY <1>1, <1>3 DEF StartOf
<1>5. Len(paged) = n
  BY <1>3, <1>4
<1> QED BY <1>3, <1>4, <1>5 DEF Pages!PagesSettle

\* A set of numbers has a least one.
LEMMA Least ==
    ASSUME NEW T, T \subseteq Nat, T # {}
    PROVE  \E n \in T : \A m \in T : n <= m
<1> DEFINE R == OpToRel(<, Nat)
<1>1. PICK n \in T : \A m \in T : ~(<<m, n>> \in R)
  <2>1. IsWellFoundedOn(R, Nat)
    BY NatLessThanWellFounded
  <2> HIDE DEF R
  <2> QED BY <2>1, WFMin
<1>2. \A m \in T : m < n => <<m, n>> \in R
  BY DEF OpToRel
<1> HIDE DEF R
<1>3. \A m \in T : ~(m < n)
  BY <1>1, <1>2, Zenon
<1>4. \A m \in T : n <= m
  <2> TAKE m \in T
  <2>1. m \in Nat /\ n \in Nat /\ ~(m < n)
    BY <1>3
  <2> QED BY <2>1
<1> QED BY <1>4

\* Induction, told of sets.
LEMMA Inducted ==
    ASSUME NEW S, 0 \in S, \A n \in Nat : n \in S => n + 1 \in S
    PROVE  Nat \subseteq S
<1> SUFFICES ASSUME Nat \ S # {} PROVE FALSE
  OBVIOUS
<1>1. PICK n \in Nat \ S : \A m \in Nat \ S : n <= m
  BY Least
<1>2. n # 0 /\ n - 1 \in Nat /\ n - 1 \in S
  BY <1>1
<1>3. (n - 1) + 1 = n
  BY <1>1
<1> QED BY <1>1, <1>2, <1>3

(***************************************************************************)
(* The tags of a memo                                                      *)
(***************************************************************************)

\* Where a name ends.
LEMMA NameEnds ==
    ASSUME NEW i \in Nat, NEW e \in Nat, i <= e
    PROVE  /\ Tags!nameEnd(i, e) \in (i + 1)..(e + 1)
           /\ \A k \in (i + 1)..(Tags!nameEnd(i, e) - 1) : text[k] = "a"
           /\ Tags!nameEnd(i, e) = e + 1 \/ text[Tags!nameEnd(i, e)] # "a"
<1> DEFINE T == {j \in (i + 1)..(e + 1) : j = e + 1 \/ text[j] # "a"}
<1>1. T \subseteq Nat /\ e + 1 \in T
  OBVIOUS
<1>2. PICK n \in T : \A m \in T : n <= m
  BY <1>1, Least, Zenon
<1>3. n \in (i + 1)..(e + 1) /\ (n = e + 1 \/ text[n] # "a")
  OBVIOUS
<1>4. \A k \in (i + 1)..(n - 1) : text[k] = "a"
  <2> SUFFICES ASSUME NEW k \in (i + 1)..(n - 1), text[k] # "a" PROVE FALSE
    OBVIOUS
  <2>1. k \in T
    BY <1>3
  <2>2. n <= k
    BY <1>2, <2>1
  <2> QED BY <1>3, <2>2
<1> HIDE DEF T
<1>5. \E j \in (i + 1)..(e + 1) : /\ \A k \in (i + 1)..(j - 1) : Tags!isTagChar(text[k])
                                  /\ j = e + 1 \/ ~Tags!isTagChar(text[j])
  BY <1>3, <1>4 DEF Tags!isTagChar
<1>6. /\ Tags!nameEnd(i, e) \in (i + 1)..(e + 1)
      /\ \A k \in (i + 1)..(Tags!nameEnd(i, e) - 1) : Tags!isTagChar(text[k])
      /\ Tags!nameEnd(i, e) = e + 1 \/ ~Tags!isTagChar(text[Tags!nameEnd(i, e)])
  BY <1>5, Zenon DEF Tags!nameEnd
<1> QED BY <1>6 DEF Tags!isTagChar

\* Where the next hash is.
LEMMA NextHashes ==
    ASSUME NEW i \in Nat, NEW e \in Nat, i <= e
    PROVE  /\ Tags!nextHash(i, e) \in (i + 1)..(e + 1)
           /\ \A k \in (i + 1)..(Tags!nextHash(i, e) - 1) : text[k] # "#"
           /\ Tags!nextHash(i, e) = e + 1 \/ text[Tags!nextHash(i, e)] = "#"
<1> DEFINE T == {j \in (i + 1)..(e + 1) : j = e + 1 \/ text[j] = "#"}
<1>1. T \subseteq Nat /\ e + 1 \in T
  OBVIOUS
<1>2. PICK n \in T : \A m \in T : n <= m
  BY <1>1, Least, Zenon
<1>3. n \in (i + 1)..(e + 1) /\ (n = e + 1 \/ text[n] = "#")
  OBVIOUS
<1>4. \A k \in (i + 1)..(n - 1) : text[k] # "#"
  <2> SUFFICES ASSUME NEW k \in (i + 1)..(n - 1), text[k] = "#" PROVE FALSE
    OBVIOUS
  <2>1. k \in T
    BY <1>3
  <2>2. n <= k
    BY <1>2, <2>1
  <2> QED BY <1>3, <2>2
<1> HIDE DEF T
<1>5. \E j \in (i + 1)..(e + 1) : /\ \A k \in (i + 1)..(j - 1) : text[k] # "#"
                                  /\ j = e + 1 \/ text[j] = "#"
  BY <1>3, <1>4
<1> QED BY <1>5, Zenon DEF Tags!nextHash

\* The scanner of the client, its recursion written out.
FromBody(f, i, s, e) ==
    IF i = e + 1 THEN <<>>
    ELSE IF Tags!isTag(i, s, e)
         THEN <<<<"tag", i + 1, Tags!nameEnd(i, e) - 1>>>> \o f[Tags!nameEnd(i, e)]
         ELSE <<<<"text", i, Tags!textEnd(i, s, e) - 1>>>> \o f[Tags!textEnd(i, s, e)]
From(s, e) == CHOOSE f : f = [i \in s..(e + 1) |-> FromBody(f, i, s, e)]

\* The scanner is that recursion.
LEMMA FromScan == \A s, e : Tags!parseTagsFromText(s, e) = From(s, e)[s]
BY Zenon DEF Tags!parseTagsFromText, From, FromBody

\* Where a segment of the client's ends: after it, and no hash is in between.
LEMMA SegmentEnds ==
    ASSUME NEW s \in Nat, NEW e \in Nat, NEW i \in s..e
    PROVE  /\ Tags!nameEnd(i, e) \in (i + 1)..(e + 1)
           /\ Tags!textEnd(i, s, e) \in (i + 1)..(e + 1)
           /\ \A k \in (i + 1)..(Tags!nameEnd(i, e) - 1) : text[k] # "#"
           /\ \A k \in (i + 1)..(Tags!textEnd(i, s, e) - 1) : text[k] # "#"
<1>1. i \in Nat /\ i <= e
  OBVIOUS
<1>2. /\ Tags!nameEnd(i, e) \in (i + 1)..(e + 1)
      /\ \A k \in (i + 1)..(Tags!nameEnd(i, e) - 1) : text[k] = "a"
  BY <1>1, NameEnds
<1>3. /\ Tags!nextHash(i, e) \in (i + 1)..(e + 1)
      /\ \A k \in (i + 1)..(Tags!nextHash(i, e) - 1) : text[k] # "#"
  BY <1>1, NextHashes
<1>4. Tags!textEnd(i, s, e) = i + 1 \/ Tags!textEnd(i, s, e) = Tags!nextHash(i, e)
  BY DEF Tags!textEnd
<1> QED BY <1>1, <1>2, <1>3, <1>4

\* From any place on, the client's scanner finds every tag after it, and the
\* other segments are no tags.
Segment == {"tag", "text"} \X Nat \X Nat
Scanned(q, i, s, e) ==
    /\ q \in Seq(Segment)
    /\ \A j \in DOMAIN q :
          \E k \in i..e :
             \/ Tags!isTag(k, s, e) /\ q[j] = <<"tag", k + 1, Tags!nameEnd(k, e) - 1>>
             \/ ~Tags!isTag(k, s, e) /\ q[j] = <<"text", k, Tags!textEnd(k, s, e) - 1>>
    /\ \A k \in i..e : Tags!isTag(k, s, e) =>
          \E j \in DOMAIN q : q[j] = <<"tag", k + 1, Tags!nameEnd(k, e) - 1>>

\* One segment more.
LEMMA ScanOne ==
    ASSUME NEW s \in Nat, NEW e \in Nat, NEW i \in s..e, NEW f,
           \A k \in (i + 1)..(e + 1) : Scanned(f[k], k, s, e)
    PROVE  Scanned(FromBody(f, i, s, e), i, s, e)
<1>1. /\ Tags!nameEnd(i, e) \in (i + 1)..(e + 1)
      /\ Tags!textEnd(i, s, e) \in (i + 1)..(e + 1)
      /\ \A k \in (i + 1)..(Tags!nameEnd(i, e) - 1) : text[k] # "#"
      /\ \A k \in (i + 1)..(Tags!textEnd(i, s, e) - 1) : text[k] # "#"
  BY SegmentEnds
<1> PICK n, x : /\ n = IF Tags!isTag(i, s, e) THEN Tags!nameEnd(i, e) ELSE Tags!textEnd(i, s, e)
                /\ x = IF Tags!isTag(i, s, e) THEN <<"tag", i + 1, Tags!nameEnd(i, e) - 1>>
                       ELSE <<"text", i, Tags!textEnd(i, s, e) - 1>>
  OBVIOUS
<1>2. /\ n \in (i + 1)..(e + 1) /\ \A k \in (i + 1)..(n - 1) : text[k] # "#"
  BY <1>1
<1>3. PICK q : q = f[n]
  OBVIOUS
<1>4. Scanned(q, n, s, e)
  BY <1>2, <1>3
<1>5. FromBody(f, i, s, e) = <<x>> \o q
  <2>1. i # e + 1
    OBVIOUS
  <2> QED BY <1>3, <2>1 DEF FromBody
<1>6. x \in Segment
  BY <1>1 DEF Segment
<1>7. q \in Seq(Segment) /\ <<x>> \in Seq(Segment) /\ Len(<<x>>) = 1
  BY <1>4, <1>6 DEF Scanned
<1>8. PICK r : r = <<x>> \o q
  OBVIOUS
<1>9. /\ r \in Seq(Segment) /\ DOMAIN r = 1..(Len(q) + 1) /\ Len(q) \in Nat
      /\ DOMAIN q = 1..Len(q)
      /\ r[1] = x /\ \A j \in 1..Len(q) : r[j + 1] = q[j]
  BY <1>7, <1>8
<1>10. \A j \in DOMAIN r : j = 1 \/ (j - 1 \in DOMAIN q /\ r[j] = q[j - 1])
  BY <1>9
<1>11. ASSUME NEW j \in DOMAIN r
       PROVE  \E k \in i..e :
                 \/ Tags!isTag(k, s, e) /\ r[j] = <<"tag", k + 1, Tags!nameEnd(k, e) - 1>>
                 \/ ~Tags!isTag(k, s, e) /\ r[j] = <<"text", k, Tags!textEnd(k, s, e) - 1>>
  <2>1. CASE j = 1
    <3>1. i \in i..e
      OBVIOUS
    <3> QED BY <1>9, <2>1, <3>1
  <2>2. CASE j # 1
    <3>1. PICK l : l \in DOMAIN q /\ r[j] = q[l]
      BY <1>10, <2>2
    <3>2. PICK k \in n..e :
             \/ Tags!isTag(k, s, e) /\ q[l] = <<"tag", k + 1, Tags!nameEnd(k, e) - 1>>
             \/ ~Tags!isTag(k, s, e) /\ q[l] = <<"text", k, Tags!textEnd(k, s, e) - 1>>
      BY <1>4, <3>1 DEF Scanned
    <3>3. k \in i..e
      BY <1>2
    <3> QED BY <3>1, <3>2, <3>3
  <2> QED BY <2>1, <2>2
<1>12. ASSUME NEW k \in i..e, Tags!isTag(k, s, e)
       PROVE  \E j \in DOMAIN r : r[j] = <<"tag", k + 1, Tags!nameEnd(k, e) - 1>>
  <2>1. text[k] = "#"
    BY <1>12 DEF Tags!isTag, Tags!isName
  <2>2. k = i \/ k \in n..e
    BY <1>2, <2>1
  <2>3. CASE k = i
    BY <1>9, <1>12, <2>3
  <2>4. CASE k \in n..e
    <3>1. PICK j \in DOMAIN q : q[j] = <<"tag", k + 1, Tags!nameEnd(k, e) - 1>>
      BY <1>4, <1>12, <2>4 DEF Scanned
    <3>2. j + 1 \in DOMAIN r /\ r[j + 1] = q[j]
      BY <1>9
    <3> QED BY <3>1, <3>2
  <2> QED BY <2>2, <2>3, <2>4
<1>13. r \in Seq(Segment)
  BY <1>9
<1>14. Scanned(r, i, s, e)
  BY <1>11, <1>12, <1>13, Zenon DEF Scanned
<1>15. FromBody(f, i, s, e) = r
  BY <1>5, <1>8, Zenon
<1> QED BY <1>14, <1>15, Zenon

\* What the scanner finds at a place depends on what it finds after it.
LEMMA BodySame ==
    ASSUME NEW s \in Nat, NEW e \in Nat, NEW i \in s..(e + 1), NEW f, NEW g,
           \A k \in (i + 1)..(e + 1) : f[k] = g[k]
    PROVE  FromBody(f, i, s, e) = FromBody(g, i, s, e)
<1>1. CASE i = e + 1
  BY <1>1 DEF FromBody
<1>2. CASE i # e + 1
  <2>1. i \in s..e
    BY <1>2
  <2>2. /\ Tags!nameEnd(i, e) \in (i + 1)..(e + 1)
        /\ Tags!textEnd(i, s, e) \in (i + 1)..(e + 1)
    BY <2>1, SegmentEnds
  <2>3. /\ f[Tags!nameEnd(i, e)] = g[Tags!nameEnd(i, e)]
        /\ f[Tags!textEnd(i, s, e)] = g[Tags!textEnd(i, s, e)]
    BY <2>2
  <2> QED BY <2>3, Zenon DEF FromBody
<1> QED BY <1>1, <1>2

\* The scanner's recursion ends: from the last k places on there is a function
\* that does what it says, for every k.
Solves(g, k, s, e) ==
    \A i \in s..(e + 1) : i + k >= e + 1 => g[i] = FromBody(g, i, s, e)
\* So the scanner is what it says at every place.
LEMMA FromIs ==
    ASSUME NEW s \in Nat, NEW e \in Nat
    PROVE  \A i \in s..(e + 1) : From(s, e)[i] = FromBody(From(s, e), i, s, e)
<1> DEFINE Ks == {k \in Nat : \E g : DOMAIN g = s..(e + 1) /\ Solves(g, k, s, e)}
<1>1. 0 \in Ks
  <2>1. PICK g : g = [i \in s..(e + 1) |-> <<>>]
    OBVIOUS
  <2>2. DOMAIN g = s..(e + 1)
    BY <2>1
  <2>3. ASSUME NEW i \in s..(e + 1), i + 0 >= e + 1 PROVE g[i] = FromBody(g, i, s, e)
    <3>1. i = e + 1
      BY <2>3
    <3>2. g[i] = <<>>
      BY <2>1
    <3> QED BY <3>1, <3>2, Zenon DEF FromBody
  <2>4. Solves(g, 0, s, e)
    BY <2>3, Zenon DEF Solves
  <2> QED BY <2>2, <2>4
<1>2. ASSUME NEW k \in Nat, k \in Ks PROVE k + 1 \in Ks
  <2>1. PICK g : DOMAIN g = s..(e + 1) /\ Solves(g, k, s, e)
    BY <1>2
  <2>2. PICK h : h = [i \in s..(e + 1) |-> IF i + k = e THEN FromBody(g, i, s, e) ELSE g[i]]
    OBVIOUS
  <2>3. DOMAIN h = s..(e + 1)
    BY <2>2
  <2>4. \A i \in s..(e + 1) : h[i] = IF i + k = e THEN FromBody(g, i, s, e) ELSE g[i]
    BY <2>2
  <2>5. ASSUME NEW i \in s..(e + 1), i + (k + 1) >= e + 1 PROVE h[i] = FromBody(h, i, s, e)
    <3>1. \A l \in (i + 1)..(e + 1) : h[l] = g[l]
      <4> TAKE l \in (i + 1)..(e + 1)
      <4>1. l \in s..(e + 1) /\ l + k # e
        BY <2>5
      <4> QED BY <2>4, <4>1, Zenon
    <3>2. FromBody(h, i, s, e) = FromBody(g, i, s, e)
      BY <3>1, BodySame
    <3>3. CASE i + k = e
      BY <2>4, <3>2, <3>3, Zenon
    <3>4. CASE i + k # e
      <4>1. i + k >= e + 1
        BY <2>5, <3>4
      <4>2. g[i] = FromBody(g, i, s, e)
        BY <2>1, <4>1, Zenon DEF Solves
      <4> QED BY <2>4, <3>2, <3>4, <4>2, Zenon
    <3> QED BY <3>3, <3>4
  <2>6. Solves(h, k + 1, s, e)
    BY <2>5, Zenon DEF Solves
  <2>7. k + 1 \in Nat
    OBVIOUS
  <2> QED BY <2>3, <2>6, <2>7
<1>3. e + 1 \in Ks
  <2>1. \A k \in Nat : k \in Ks => k + 1 \in Ks
    BY <1>2, Zenon
  <2> HIDE DEF Ks
  <2>2. Nat \subseteq Ks
    BY <1>1, <2>1, Inducted
  <2> QED BY <2>2
<1>4. PICK g : DOMAIN g = s..(e + 1) /\ Solves(g, e + 1, s, e)
  BY <1>3
<1>5. PICK h : h = [i \in s..(e + 1) |-> g[i]]
  OBVIOUS
<1>6. \A i \in s..(e + 1) : h[i] = FromBody(h, i, s, e)
  <2> TAKE i \in s..(e + 1)
  <2>1. i + (e + 1) >= e + 1
    OBVIOUS
  <2>2. g[i] = FromBody(g, i, s, e)
    BY <1>4, <2>1, Zenon DEF Solves
  <2>3. \A l \in (i + 1)..(e + 1) : h[l] = g[l]
    BY <1>5
  <2>4. FromBody(h, i, s, e) = FromBody(g, i, s, e)
    BY <2>3, BodySame
  <2> QED BY <1>5, <2>2, <2>4, Zenon
<1>7. h = [i \in s..(e + 1) |-> FromBody(h, i, s, e)]
  BY <1>5, <1>6, Zenon
<1>8. From(s, e) = [i \in s..(e + 1) |-> FromBody(From(s, e), i, s, e)]
  BY <1>7, Zenon DEF From
<1> QED BY <1>8, Zenon

\* What the client's scanner finds.
LEMMA Scans ==
    ASSUME NEW s \in Nat, NEW e \in Nat, s <= e + 1
    PROVE  Scanned(Tags!parseTagsFromText(s, e), s, s, e)
<1>1. PICK f : f = From(s, e)
  OBVIOUS
<1>2. \A i \in s..(e + 1) : f[i] = FromBody(f, i, s, e)
  BY <1>1, FromIs, Zenon
<1> DEFINE Ks == {k \in Nat : \A i \in s..(e + 1) : i + k >= e + 1 => Scanned(f[i], i, s, e)}
<1>3. 0 \in Ks
  <2>1. ASSUME NEW i \in s..(e + 1), i + 0 >= e + 1 PROVE Scanned(f[i], i, s, e)
    <3>1. i = e + 1 /\ i..e = {}
      BY <2>1
    <3>2. f[i] = <<>>
      BY <1>2, <3>1, Zenon DEF FromBody
    <3>3. <<>> \in Seq(Segment) /\ DOMAIN <<>> = {}
      OBVIOUS
    <3> QED BY <3>1, <3>2, <3>3 DEF Scanned
  <2> QED BY <2>1
<1>4. ASSUME NEW k \in Nat, k \in Ks PROVE k + 1 \in Ks
  <2>1. ASSUME NEW i \in s..(e + 1), i + (k + 1) >= e + 1 PROVE Scanned(f[i], i, s, e)
    <3>1. CASE i + k >= e + 1
      BY <1>4, <3>1
    <3>2. CASE ~(i + k >= e + 1)
      <4>1. i \in s..e
        BY <2>1, <3>2
      <4>2. \A l \in (i + 1)..(e + 1) : Scanned(f[l], l, s, e)
        <5> TAKE l \in (i + 1)..(e + 1)
        <5>1. l \in s..(e + 1) /\ l + k >= e + 1
          BY <2>1
        <5> QED BY <1>4, <5>1
      <4>3. Scanned(FromBody(f, i, s, e), i, s, e)
        BY <4>1, <4>2, ScanOne
      <4> QED BY <1>2, <4>3, Zenon
    <3> QED BY <3>1, <3>2
  <2>2. k + 1 \in Nat
    OBVIOUS
  <2> QED BY <2>1, <2>2
<1>5. e + 1 \in Ks
  <2>1. \A k \in Nat : k \in Ks => k + 1 \in Ks
    BY <1>4, Zenon
  <2> HIDE DEF Ks
  <2>2. Nat \subseteq Ks
    BY <1>3, <2>1, Inducted
  <2> QED BY <2>2
<1>6. Scanned(f[s], s, s, e)
  <2>1. s \in s..(e + 1) /\ s + (e + 1) >= e + 1
    OBVIOUS
  <2> QED BY <1>5, <2>1
<1> QED BY <1>1, <1>6, FromScan, Zenon

\* The tags among the segments are the tags of the text.
LEMMA TagsAre ==
    ASSUME NEW s \in Nat, NEW e \in Nat, s <= e + 1, NEW t
    PROVE  t \in Tags!tagsOf(Tags!parseTagsFromText(s, e)) <=>
             \E k \in s..e : Tags!isTag(k, s, e) /\ t = <<k + 1, Tags!nameEnd(k, e) - 1>>
<1>1. PICK q : q = Tags!parseTagsFromText(s, e)
  OBVIOUS
<1>2. Scanned(q, s, s, e)
  BY <1>1, Scans
<1>3. Tags!tagsOf(q) = {<<q[i][2], q[i][3]>> : i \in {i \in DOMAIN q : q[i][1] = "tag"}}
  BY Zenon DEF Tags!tagsOf
<1>4. ASSUME t \in Tags!tagsOf(q)
      PROVE  \E k \in s..e : Tags!isTag(k, s, e) /\ t = <<k + 1, Tags!nameEnd(k, e) - 1>>
  <2>1. PICK j \in DOMAIN q : q[j][1] = "tag" /\ t = <<q[j][2], q[j][3]>>
    BY <1>3, <1>4
  <2>2. PICK k \in s..e :
           \/ Tags!isTag(k, s, e) /\ q[j] = <<"tag", k + 1, Tags!nameEnd(k, e) - 1>>
           \/ ~Tags!isTag(k, s, e) /\ q[j] = <<"text", k, Tags!textEnd(k, s, e) - 1>>
    BY <1>2, Zenon DEF Scanned
  <2>3. Tags!isTag(k, s, e) /\ q[j] = <<"tag", k + 1, Tags!nameEnd(k, e) - 1>>
    BY <2>1, <2>2
  <2> QED BY <2>1, <2>3
<1>5. ASSUME NEW k \in s..e, Tags!isTag(k, s, e), t = <<k + 1, Tags!nameEnd(k, e) - 1>>
      PROVE  t \in Tags!tagsOf(q)
  <2>1. PICK j \in DOMAIN q : q[j] = <<"tag", k + 1, Tags!nameEnd(k, e) - 1>>
    BY <1>2, <1>5, Zenon DEF Scanned
  <2>2. q[j][1] = "tag" /\ q[j][2] = k + 1 /\ q[j][3] = Tags!nameEnd(k, e) - 1
    BY <2>1
  <2> QED BY <1>3, <1>5, <2>2
<1> QED BY <1>1, <1>4, <1>5, Zenon

\* No tag is in a segment that is none: what is scanned again has no more.
LEMMA NoMore ==
    ASSUME NEW n \in Nat, NEW k \in 1..n, ~Tags!isTag(k, 1, n),
           NEW t, t \in Tags!tagsOf(Tags!parseTagsFromText(k, Tags!textEnd(k, 1, n) - 1))
    PROVE  FALSE
<1>1. PICK e : e = Tags!textEnd(k, 1, n) - 1
  OBVIOUS
<1>2. /\ Tags!textEnd(k, 1, n) \in (k + 1)..(n + 1)
      /\ \A m \in (k + 1)..(Tags!textEnd(k, 1, n) - 1) : text[m] # "#"
  BY SegmentEnds
<1>3. e \in k..n /\ e \in Nat /\ k \in Nat /\ k <= e + 1 /\ Tags!textEnd(k, 1, n) = e + 1
  BY <1>1, <1>2
<1>4. PICK m \in k..e : Tags!isTag(m, k, e)
  <2>1. t \in Tags!tagsOf(Tags!parseTagsFromText(k, e))
    BY <1>1, Zenon
  <2> QED BY <1>3, <2>1, TagsAre
<1>5. text[m] = "#" /\ m < e /\ text[m + 1] = "a" /\ Tags!nameEnd(m, e) - (m + 1) <= MaxTagLength
  BY <1>4 DEF Tags!isTag, Tags!isName, Tags!isTagChar
<1>6. m = k
  BY <1>1, <1>2, <1>3, <1>5
<1>7. Tags!isName(k, n)
  BY <1>3, <1>5, <1>6 DEF Tags!isName, Tags!isTagChar
<1>8. ~Tags!isHash(k, 1, n)
  <2> SUFFICES ASSUME Tags!isHash(k, 1, n) PROVE FALSE
    OBVIOUS
  <2>1. e + 1 = k + 1
    BY <1>3 DEF Tags!textEnd
  <2> QED BY <1>3, <1>5, <1>6, <2>1
<1>9. e + 1 = Tags!nextHash(k, n)
  BY <1>3, <1>8 DEF Tags!textEnd
<1>10. ~(Tags!nameEnd(k, n) - (k + 1) <= MaxTagLength)
  BY <1>7, <1>8 DEF Tags!isTag
<1>11. k <= n /\ k <= e
  BY <1>3
<1>12. /\ Tags!nextHash(k, n) \in (k + 1)..(n + 1)
       /\ Tags!nextHash(k, n) = n + 1 \/ text[Tags!nextHash(k, n)] = "#"
  BY <1>3, <1>11, NextHashes
<1>13. /\ Tags!nameEnd(k, n) \in (k + 1)..(n + 1)
       /\ \A j \in (k + 1)..(Tags!nameEnd(k, n) - 1) : text[j] = "a"
  BY <1>3, <1>11, NameEnds
<1>14. /\ Tags!nameEnd(k, e) \in (k + 1)..(e + 1)
       /\ Tags!nameEnd(k, e) = e + 1 \/ text[Tags!nameEnd(k, e)] # "a"
  BY <1>3, <1>11, NameEnds
<1>15. PICK a, b : a = Tags!nameEnd(k, n) /\ b = Tags!nameEnd(k, e)
  OBVIOUS
<1>16. /\ a \in (k + 1)..(n + 1) /\ b \in (k + 1)..(e + 1) /\ b < a
       /\ \A j \in (k + 1)..(a - 1) : text[j] = "a"
       /\ b = e + 1 \/ text[b] # "a"
       /\ e + 1 = n + 1 \/ text[e + 1] = "#"
  <2>1. b < a
    BY <1>5, <1>6, <1>10, <1>13, <1>14, <1>15, TagsAssumption
  <2> QED BY <1>9, <1>12, <1>13, <1>14, <1>15, <2>1
<1>17. text[b] = "a"
  BY <1>16
<1> QED BY <1>3, <1>16, <1>17

\* What the client shows as tags.
LEMMA RemarkIs ==
    ASSUME NEW n \in Nat, n = Len(text), NEW t
    PROVE  t \in Tags!remarkTag <=>
             \E k \in 1..n : Tags!isTag(k, 1, n) /\ t = <<k + 1, Tags!nameEnd(k, n) - 1>>
<1>1. PICK q : q = Tags!parseTagsFromText(1, n)
  OBVIOUS
<1>2. Scanned(q, 1, 1, n)
  <2>1. 1 \in Nat /\ 1 <= n + 1
    OBVIOUS
  <2> QED BY <1>1, <2>1, Scans
<1>3. ASSUME NEW i \in DOMAIN q, q[i][1] = "text", NEW u,
             u \in Tags!tagsOf(Tags!parseTagsFromText(q[i][2], q[i][3]))
      PROVE  FALSE
  <2>1. PICK k \in 1..n :
           \/ Tags!isTag(k, 1, n) /\ q[i] = <<"tag", k + 1, Tags!nameEnd(k, n) - 1>>
           \/ ~Tags!isTag(k, 1, n) /\ q[i] = <<"text", k, Tags!textEnd(k, 1, n) - 1>>
    BY <1>2, Zenon DEF Scanned
  <2>2. ~Tags!isTag(k, 1, n) /\ q[i] = <<"text", k, Tags!textEnd(k, 1, n) - 1>>
    BY <1>3, <2>1
  <2>3. q[i][2] = k /\ q[i][3] = Tags!textEnd(k, 1, n) - 1
    BY <2>2
  <2>4. u \in Tags!tagsOf(Tags!parseTagsFromText(k, Tags!textEnd(k, 1, n) - 1))
    BY <1>3, <2>3, Zenon
  <2> QED BY <2>2, <2>4, NoMore
<1>4. t \in Tags!remarkTag <=> t \in Tags!tagsOf(q)
  <2>1. Tags!remarkTag =
          IF Tags!tagsOf(q) = {} THEN {}
          ELSE Tags!tagsOf(q) \union
               UNION {Tags!tagsOf(Tags!parseTagsFromText(q[i][2], q[i][3])) :
                          i \in {i \in DOMAIN q : i > 1 /\ q[i][1] = "text"}}
    BY <1>1, Zenon DEF Tags!remarkTag
  <2>2. ASSUME t \in UNION {Tags!tagsOf(Tags!parseTagsFromText(q[i][2], q[i][3])) :
                          i \in {i \in DOMAIN q : i > 1 /\ q[i][1] = "text"}}
        PROVE  FALSE
    <3>1. PICK i \in DOMAIN q : q[i][1] = "text"
                  /\ t \in Tags!tagsOf(Tags!parseTagsFromText(q[i][2], q[i][3]))
      BY <2>2, Zenon
    <3> QED BY <1>3, <3>1
  <2> QED BY <2>1, <2>2, Zenon
<1>5. 1 \in Nat /\ 1 <= n + 1
  OBVIOUS
<1>6. t \in Tags!tagsOf(q) <=>
             \E k \in 1..n : Tags!isTag(k, 1, n) /\ t = <<k + 1, Tags!nameEnd(k, n) - 1>>
  BY <1>1, <1>5, TagsAre
<1> QED BY <1>4, <1>6, Zenon

\* The scanner of the server, its recursion written out.
ServerBody(f, i) ==
    IF i = Len(text) + 1 THEN {}
    ELSE IF text[i] = "#" /\ Tags!tagEnd(i) > i
         THEN {<<i + 1, Tags!tagEnd(i)>>} \union f[Tags!tagEnd(i) + 1]
         ELSE f[i + 1]
Server == CHOOSE f : f = [i \in 1..(Len(text) + 1) |-> ServerBody(f, i)]

\* The scanner is that recursion.
LEMMA ParseIs == Tags!Parse = Server[1]
BY Zenon DEF Tags!Parse, Server, ServerBody

\* Where a tag of the server's ends: it is a part of the name there.
LEMMA TagEnds ==
    ASSUME NEW n \in Nat, n = Len(text), NEW i \in 1..n
    PROVE  /\ Tags!tagEnd(i) \in i..n
           /\ \A k \in (i + 1)..Tags!tagEnd(i) : text[k] = "a"
<1>1. /\ Tags!nameEnd(i, n) \in (i + 1)..(n + 1)
      /\ \A k \in (i + 1)..(Tags!nameEnd(i, n) - 1) : text[k] = "a"
  <2>1. i \in Nat /\ i <= n
    OBVIOUS
  <2> QED BY <2>1, NameEnds
<1>2. PICK j : j = Tags!nameEnd(i, n) - 1
  OBVIOUS
<1>3. j \in i..n /\ \A k \in (i + 1)..j : text[k] = "a"
  BY <1>1, <1>2
<1>4. Tags!tagEnd(i) = IF j - i > MaxTagLength THEN i + MaxTagLength ELSE j
  BY <1>2, Zenon DEF Tags!tagEnd
<1> QED BY <1>3, <1>4, TagsAssumption

\* What it finds at a place depends on what it finds after it.
LEMMA ServerSame ==
    ASSUME NEW n \in Nat, n = Len(text), NEW i \in 1..(n + 1), NEW f, NEW g,
           \A k \in (i + 1)..(n + 1) : f[k] = g[k]
    PROVE  ServerBody(f, i) = ServerBody(g, i)
<1>1. CASE i = n + 1
  BY <1>1 DEF ServerBody
<1>2. CASE i # n + 1
  <2>1. i \in 1..n
    BY <1>2
  <2>2. Tags!tagEnd(i) \in i..n
    BY <2>1, TagEnds
  <2>3. Tags!tagEnd(i) + 1 \in (i + 1)..(n + 1) /\ i + 1 \in (i + 1)..(n + 1)
    BY <2>1, <2>2
  <2>4. f[Tags!tagEnd(i) + 1] = g[Tags!tagEnd(i) + 1] /\ f[i + 1] = g[i + 1]
    BY <2>3
  <2> QED BY <2>4, Zenon DEF ServerBody
<1> QED BY <1>1, <1>2

ServerSolves(g, k) ==
    \A i \in 1..(Len(text) + 1) : i + k >= Len(text) + 1 => g[i] = ServerBody(g, i)
\* From the last k places on there is a function that does what it says, for
\* every k, so the scanner does.
LEMMA ServerIs ==
    ASSUME NEW n \in Nat, n = Len(text)
    PROVE  \A i \in 1..(n + 1) : Server[i] = ServerBody(Server, i)
<1>0. ASSUME NEW i \in 1..(n + 1), NEW f, NEW g, \A k \in (i + 1)..(n + 1) : f[k] = g[k]
      PROVE  ServerBody(f, i) = ServerBody(g, i)
  BY <1>0, ServerSame
<1> DEFINE Ks == {k \in Nat : \E g : DOMAIN g = 1..(n + 1) /\ ServerSolves(g, k)}
<1>1. 0 \in Ks
  <2>1. PICK g : g = [i \in 1..(n + 1) |-> {}]
    OBVIOUS
  <2>2. DOMAIN g = 1..(n + 1)
    BY <2>1
  <2>3. ASSUME NEW i \in 1..(Len(text) + 1), i + 0 >= Len(text) + 1 PROVE g[i] = ServerBody(g, i)
    <3>1. i = Len(text) + 1
      BY <2>3
    <3>2. g[i] = {}
      BY <2>1
    <3> QED BY <3>1, <3>2, Zenon DEF ServerBody
  <2>4. ServerSolves(g, 0)
    BY <2>3, Zenon DEF ServerSolves
  <2> QED BY <2>2, <2>4
<1>2. ASSUME NEW k \in Nat, k \in Ks PROVE k + 1 \in Ks
  <2>1. PICK g : DOMAIN g = 1..(n + 1) /\ ServerSolves(g, k)
    BY <1>2
  <2>2. PICK h : h = [i \in 1..(n + 1) |-> IF i + k = n THEN ServerBody(g, i) ELSE g[i]]
    OBVIOUS
  <2>3. DOMAIN h = 1..(n + 1)
    BY <2>2
  <2>4. \A i \in 1..(n + 1) : h[i] = IF i + k = n THEN ServerBody(g, i) ELSE g[i]
    BY <2>2
  <2>5. ASSUME NEW i \in 1..(n + 1), i + (k + 1) >= n + 1
        PROVE  h[i] = ServerBody(h, i)
    <3>1. \A l \in (i + 1)..(n + 1) : h[l] = g[l]
      <4> TAKE l \in (i + 1)..(n + 1)
      <4>1. l \in 1..(n + 1) /\ l + k # n
        BY <2>5
      <4> QED BY <2>4, <4>1, Zenon
    <3>2. ServerBody(h, i) = ServerBody(g, i)
      BY <1>0, <3>1, Zenon
    <3>3. CASE i + k = n
      BY <2>4, <3>2, <3>3, Zenon
    <3>4. CASE i + k # n
      <4>1. i + k >= n + 1
        BY <2>5, <3>4
      <4>2. g[i] = ServerBody(g, i)
        BY <2>1, <4>1, Zenon DEF ServerSolves
      <4> QED BY <2>4, <3>2, <3>4, <4>2, Zenon
    <3> QED BY <3>3, <3>4
  <2>6. ServerSolves(h, k + 1)
    BY <2>5, Zenon DEF ServerSolves
  <2>7. k + 1 \in Nat
    OBVIOUS
  <2> QED BY <2>3, <2>6, <2>7
<1>3. n + 1 \in Ks
  <2>1. \A k \in Nat : k \in Ks => k + 1 \in Ks
    BY <1>2, Zenon
  <2> HIDE DEF Ks
  <2>2. Nat \subseteq Ks
    BY <1>1, <2>1, Inducted
  <2> QED BY <2>2
<1>4. PICK g : DOMAIN g = 1..(n + 1) /\ ServerSolves(g, n + 1)
  BY <1>3
<1>5. PICK h : h = [i \in 1..(n + 1) |-> g[i]]
  OBVIOUS
<1>6. \A i \in 1..(n + 1) : h[i] = ServerBody(h, i)
  <2> TAKE i \in 1..(n + 1)
  <2>1. i + (n + 1) >= Len(text) + 1 /\ i \in 1..(Len(text) + 1)
    OBVIOUS
  <2>2. g[i] = ServerBody(g, i)
    BY <1>4, <2>1, Zenon DEF ServerSolves
  <2>3. \A l \in (i + 1)..(n + 1) : h[l] = g[l]
    BY <1>5
  <2>4. ServerBody(h, i) = ServerBody(g, i)
    BY <2>3, ServerSame
  <2> QED BY <1>5, <2>2, <2>4, Zenon
<1>7. h = [i \in 1..(n + 1) |-> ServerBody(h, i)]
  BY <1>5, <1>6, Zenon
<1>8. Server = [i \in 1..(n + 1) |-> ServerBody(Server, i)]
  BY <1>7, Zenon DEF Server
<1> QED BY <1>8, Zenon

\* From any place on, the server's scanner finds every hash after it with a
\* name.
ServerScanned(q, i) ==
    \A t : t \in q <=> \E k \in i..Len(text) : /\ text[k] = "#" /\ Tags!tagEnd(k) > k
                                              /\ t = <<k + 1, Tags!tagEnd(k)>>

\* One place more.
LEMMA ServerOne ==
    ASSUME NEW n \in Nat, n = Len(text), NEW i \in 1..n, NEW f,
           \A k \in (i + 1)..(n + 1) : ServerScanned(f[k], k)
    PROVE  ServerScanned(ServerBody(f, i), i)
<1>0. i # Len(text) + 1
  OBVIOUS
<1>1. /\ Tags!tagEnd(i) \in i..n
      /\ \A k \in (i + 1)..Tags!tagEnd(i) : text[k] = "a"
  BY TagEnds
<1>2. PICK e : e = Tags!tagEnd(i)
  OBVIOUS
<1>3. e \in i..n /\ \A k \in (i + 1)..e : text[k] = "a"
  BY <1>1, <1>2
<1>4. CASE text[i] = "#" /\ e > i
  <2>1. ServerBody(f, i) = {<<i + 1, e>>} \union f[e + 1]
    BY <1>0, <1>2, <1>4, Zenon DEF ServerBody
  <2>2. PICK q : q = f[e + 1]
    OBVIOUS
  <2>3. e + 1 \in (i + 1)..(n + 1)
    BY <1>3
  <2>4. ServerScanned(q, e + 1)
    BY <2>2, <2>3
  <2>5. ASSUME NEW t, t \in q
        PROVE  \E k \in i..Len(text) : /\ text[k] = "#" /\ Tags!tagEnd(k) > k
                                       /\ t = <<k + 1, Tags!tagEnd(k)>>
    <3>1. PICK k \in (e + 1)..Len(text) : /\ text[k] = "#" /\ Tags!tagEnd(k) > k
                                         /\ t = <<k + 1, Tags!tagEnd(k)>>
      BY <2>4, <2>5, Zenon DEF ServerScanned
    <3>2. k \in i..Len(text)
      BY <1>3
    <3> QED BY <3>1, <3>2
  <2>6. ASSUME NEW k \in i..Len(text), text[k] = "#", Tags!tagEnd(k) > k
        PROVE  <<k + 1, Tags!tagEnd(k)>> \in {<<i + 1, e>>} \union q
    <3>1. k = i \/ k \in (e + 1)..Len(text)
      BY <1>3, <2>6
    <3>2. CASE k = i
      BY <1>2, <3>2
    <3>3. CASE k \in (e + 1)..Len(text)
      <4>1. <<k + 1, Tags!tagEnd(k)>> \in q
        BY <2>4, <2>6, <3>3, Zenon DEF ServerScanned
      <4> QED BY <4>1
    <3> QED BY <3>1, <3>2, <3>3
  <2>7. i \in i..Len(text)
    OBVIOUS
  <2>8. \A t : t \in {<<i + 1, e>>} \union q <=>
              \E k \in i..Len(text) : /\ text[k] = "#" /\ Tags!tagEnd(k) > k
                                      /\ t = <<k + 1, Tags!tagEnd(k)>>
    BY <1>2, <1>4, <2>5, <2>6, <2>7, Zenon
  <2> QED BY <2>1, <2>2, <2>8, Zenon DEF ServerScanned
<1>5. CASE ~(text[i] = "#" /\ e > i)
  <2>1. ServerBody(f, i) = f[i + 1]
    BY <1>0, <1>2, <1>5, Zenon DEF ServerBody
  <2>2. PICK q : q = f[i + 1]
    OBVIOUS
  <2>3. i + 1 \in (i + 1)..(n + 1)
    OBVIOUS
  <2>4. ServerScanned(q, i + 1)
    BY <2>2, <2>3
  <2>5. \A k \in (i + 1)..Len(text) : k \in i..Len(text)
    OBVIOUS
  <2>6. \A k \in i..Len(text) : k = i \/ k \in (i + 1)..Len(text)
    OBVIOUS
  <2>7. ServerScanned(q, i)
    BY <1>2, <1>5, <2>4, <2>5, <2>6, Zenon DEF ServerScanned
  <2> QED BY <2>1, <2>2, <2>7, Zenon
<1> QED BY <1>4, <1>5

\* What the server stores as tags.
LEMMA ServerIsAll ==
    ASSUME NEW n \in Nat, n = Len(text)
    PROVE  ServerScanned(Tags!Parse, 1)
<1>1. PICK f : f = Server
  OBVIOUS
<1>2. \A i \in 1..(n + 1) : f[i] = ServerBody(f, i)
  BY <1>1, ServerIs, Zenon
<1> DEFINE Ks == {k \in Nat : \A i \in 1..(n + 1) : i + k >= n + 1 => ServerScanned(f[i], i)}
<1>3. 0 \in Ks
  <2>1. ASSUME NEW i \in 1..(n + 1), i + 0 >= n + 1 PROVE ServerScanned(f[i], i)
    <3>1. i = Len(text) + 1 /\ i..Len(text) = {}
      BY <2>1
    <3>2. f[i] = {}
      BY <1>2, <3>1, Zenon DEF ServerBody
    <3> QED BY <3>1, <3>2, Zenon DEF ServerScanned
  <2> QED BY <2>1
<1>4. ASSUME NEW k \in Nat, k \in Ks PROVE k + 1 \in Ks
  <2>1. ASSUME NEW i \in 1..(n + 1), i + (k + 1) >= n + 1 PROVE ServerScanned(f[i], i)
    <3>1. CASE i + k >= n + 1
      BY <1>4, <3>1
    <3>2. CASE ~(i + k >= n + 1)
      <4>1. i \in 1..n
        BY <2>1, <3>2
      <4>2. \A l \in (i + 1)..(n + 1) : ServerScanned(f[l], l)
        <5> TAKE l \in (i + 1)..(n + 1)
        <5>1. l \in 1..(n + 1) /\ l + k >= n + 1
          BY <2>1
        <5> QED BY <1>4, <5>1
      <4>3. ServerScanned(ServerBody(f, i), i)
        BY <4>1, <4>2, ServerOne, Zenon
      <4> QED BY <1>2, <4>3, Zenon
    <3> QED BY <3>1, <3>2
  <2>2. k + 1 \in Nat
    OBVIOUS
  <2> QED BY <2>1, <2>2
<1>5. n + 1 \in Ks
  <2>1. \A k \in Nat : k \in Ks => k + 1 \in Ks
    BY <1>4, Zenon
  <2> HIDE DEF Ks
  <2>2. Nat \subseteq Ks
    BY <1>3, <2>1, Inducted
  <2> QED BY <2>2
<1>6. ServerScanned(f[1], 1)
  <2>1. 1 \in 1..(n + 1) /\ 1 + (n + 1) >= n + 1
    OBVIOUS
  <2> QED BY <1>5, <2>1
<1> QED BY <1>1, <1>6, ParseIs, Zenon

\* A tag of the client's ends where the server's there does; a name of another
\* kind is after two hashes or too long.
LEMMA LinksFollow ==
    ASSUME text \in Seq(Tags!Char)
    PROVE  Tags!LinksLead
<1>1. PICK n \in Nat : n = Len(text)
  OBVIOUS
<1>2. \A t : t \in Tags!remarkTag <=>
             \E k \in 1..n : Tags!isTag(k, 1, n) /\ t = <<k + 1, Tags!nameEnd(k, n) - 1>>
  BY <1>1, RemarkIs, Zenon
<1>3. \A t : t \in Tags!Parse <=>
             \E k \in 1..n : /\ text[k] = "#" /\ Tags!tagEnd(k) > k
                             /\ t = <<k + 1, Tags!tagEnd(k)>>
  BY <1>1, ServerIsAll, Zenon DEF ServerScanned
<1>4. ASSUME NEW k \in 1..n
      PROVE  /\ Tags!nameEnd(k, n) \in (k + 1)..(n + 1)
             /\ \A j \in (k + 1)..(Tags!nameEnd(k, n) - 1) : text[j] = "a"
             /\ Tags!nameEnd(k, n) = n + 1 \/ text[Tags!nameEnd(k, n)] # "a"
             /\ Tags!tagEnd(k) = IF Tags!nameEnd(k, n) - 1 - k > MaxTagLength
                                 THEN k + MaxTagLength ELSE Tags!nameEnd(k, n) - 1
  <2>1. k \in Nat /\ k <= n
    OBVIOUS
  <2>2. Tags!tagEnd(k) = IF Tags!nameEnd(k, n) - 1 - k > MaxTagLength
                                 THEN k + MaxTagLength ELSE Tags!nameEnd(k, n) - 1
    BY <1>1, Zenon DEF Tags!tagEnd
  <2> QED BY <2>1, <2>2, NameEnds
<1>5. Tags!remarkTag \subseteq Tags!Parse
  <2> SUFFICES ASSUME NEW t, t \in Tags!remarkTag PROVE t \in Tags!Parse
    OBVIOUS
  <2>1. PICK k \in 1..n : Tags!isTag(k, 1, n) /\ t = <<k + 1, Tags!nameEnd(k, n) - 1>>
    BY <1>2
  <2>2. /\ text[k] = "#" /\ k < n /\ text[k + 1] = "a"
        /\ Tags!nameEnd(k, n) - (k + 1) <= MaxTagLength
    BY <2>1 DEF Tags!isTag, Tags!isName, Tags!isTagChar
  <2>3. PICK a : a = Tags!nameEnd(k, n)
    OBVIOUS
  <2>4. a \in (k + 1)..(n + 1) /\ (a = n + 1 \/ text[a] # "a")
    BY <1>4, <2>3
  <2>5. a - 1 > k
    BY <2>2, <2>4
  <2>6. Tags!tagEnd(k) = a - 1
    BY <1>4, <2>2, <2>3, <2>4, TagsAssumption
  <2> QED BY <1>3, <2>1, <2>2, <2>3, <2>5, <2>6
<1>6. ASSUME NEW t, t \in Tags!Parse, t \notin Tags!remarkTag
      PROVE  \/ t[1] > 2 /\ text[t[1] - 2] = "#"
             \/ /\ t[2] - t[1] + 1 = MaxTagLength
                /\ t[2] < Len(text) /\ Tags!isTagChar(text[t[2] + 1])
  <2>1. PICK k \in 1..n : /\ text[k] = "#" /\ Tags!tagEnd(k) > k
                           /\ t = <<k + 1, Tags!tagEnd(k)>>
    BY <1>3, <1>6
  <2>2. PICK a, b : a = Tags!nameEnd(k, n) /\ b = Tags!tagEnd(k)
    OBVIOUS
  <2>3. /\ a \in (k + 1)..(n + 1)
        /\ \A j \in (k + 1)..(a - 1) : text[j] = "a"
        /\ b = IF a - 1 - k > MaxTagLength THEN k + MaxTagLength ELSE a - 1
        /\ b > k
    BY <1>4, <2>1, <2>2
  <2>4. t[1] = k + 1 /\ t[2] = b
    BY <2>1, <2>2
  <2>5. k + 1 \in (k + 1)..(a - 1) /\ k < n
    BY <2>3, TagsAssumption
  <2>6. Tags!isName(k, n)
    BY <2>1, <2>3, <2>5 DEF Tags!isName, Tags!isTagChar
  <2>7. CASE Tags!isHash(k, 1, n)
    <3>1. k > 1 /\ text[k - 1] = "#"
      BY <2>7 DEF Tags!isHash
    <3>2. t[1] > 2 /\ t[1] - 2 = k - 1
      BY <2>4, <3>1
    <3> QED BY <3>1, <3>2, Zenon
  <2>8. CASE ~Tags!isHash(k, 1, n)
    <3>1. ~(a - (k + 1) <= MaxTagLength)
      <4> SUFFICES ASSUME a - (k + 1) <= MaxTagLength PROVE FALSE
        OBVIOUS
      <4>1. Tags!isTag(k, 1, n)
        BY <2>2, <2>6, <2>8 DEF Tags!isTag
      <4>2. b = a - 1
        BY <2>3, TagsAssumption
      <4> QED BY <1>2, <1>6, <2>1, <2>2, <4>1, <4>2, Zenon
    <3>2. b = k + MaxTagLength /\ b + 1 \in (k + 1)..(a - 1)
      BY <2>3, <3>1, TagsAssumption
    <3>3. text[b + 1] = "a" /\ b < n /\ b - (k + 1) + 1 = MaxTagLength
      BY <2>3, <3>2, TagsAssumption
    <3> QED BY <1>1, <2>4, <3>3 DEF Tags!isTagChar
  <2> QED BY <2>7, <2>8
<1> QED BY <1>5, <1>6, Zenon DEF Tags!LinksLead

(***************************************************************************)
(* The columns of memos                                                    *)
(***************************************************************************)

\* The lowest column is one of them.
LEMMA Shortest ==
    ASSUME NEW n \in Nat, n > 0, NEW cols, DOMAIN cols = 1..n,
           \A c \in 1..n : cols[c].height \in Nat /\ cols[c].items \in Seq(Nat)
    PROVE  Masonry!findShortestColumnIndex(cols) \in 1..n
<1> DEFINE lower(c, d) == \/ cols[c].height < cols[d].height
                          \/ cols[c].height = cols[d].height
                             /\ Len(cols[c].items) < Len(cols[d].items)
           best == {c \in 1..n : \A d \in 1..n : ~lower(d, c)}
           Hs == {cols[c].height : c \in 1..n}
<1>1. PICK h \in Hs : \A m \in Hs : h <= m
  <2>1. Hs \subseteq Nat
    OBVIOUS
  <2>2. Hs # {}
    <3>1. 1 \in 1..n
      OBVIOUS
    <3> QED BY <3>1
  <2> HIDE DEF Hs
  <2> QED BY <2>1, <2>2, Least, Zenon
<1> DEFINE Ls == {Len(cols[c].items) : c \in {c \in 1..n : cols[c].height = h}}
<1>2. PICK l \in Ls : \A m \in Ls : l <= m
  <2>1. Ls \subseteq Nat
    <3>1. \A c \in 1..n : Len(cols[c].items) \in Nat
      <4> TAKE c \in 1..n
      <4>1. cols[c].items \in Seq(Nat)
        OBVIOUS
      <4> QED BY <4>1
    <3> QED BY <3>1
  <2>2. Ls # {}
    BY <1>1
  <2> HIDE DEF Ls
  <2> QED BY <2>1, <2>2, Least, Zenon
<1>3. PICK c \in 1..n : cols[c].height = h /\ Len(cols[c].items) = l
  BY <1>2
<1>4. ASSUME NEW d \in 1..n, lower(d, c) PROVE FALSE
  <2>1. cols[d].height \in Hs /\ h <= cols[d].height
    BY <1>1
  <2>2. h \in Nat /\ cols[d].height \in Nat
    BY <1>1
  <2>3. cols[d].height = h /\ Len(cols[d].items) < l
    BY <1>3, <1>4, <2>1, <2>2, SMTT(30)
  <2>4. Len(cols[d].items) \in Ls
    BY <2>3
  <2>5. l <= Len(cols[d].items)
    BY <1>2, <2>4
  <2>6. Len(cols[d].items) \in Nat /\ l \in Nat
    <3>1. cols[d].items \in Seq(Nat) /\ cols[c].items \in Seq(Nat)
      OBVIOUS
    <3> QED BY <1>3, <3>1
  <2> QED BY <2>3, <2>5, <2>6
<1>5. best \subseteq Nat /\ best # {}
  <2>1. c \in best
    <3> HIDE DEF lower
    <3>1. \A d \in 1..n : ~lower(d, c)
      BY <1>4, Zenon
    <3> QED BY <3>1, Zenon
  <2>2. best \subseteq 1..n
    <3> HIDE DEF lower
    <3> QED BY Zenon
  <2>3. best \subseteq Nat
    <3> HIDE DEF best
    <3> QED BY <2>2
  <2> HIDE DEF best
  <2> QED BY <2>1, <2>3, Zenon
<1>6. PICK x \in best : \A y \in best : x <= y
  <2> HIDE DEF best
  <2> QED BY <1>5, Least, Zenon
<1>7. Masonry!findShortestColumnIndex(cols) = CHOOSE z \in best : \A y \in best : z <= y
  BY Zenon DEF Masonry!findShortestColumnIndex, Masonry!Min
<1>8. Masonry!findShortestColumnIndex(cols) \in best
  <2> HIDE DEF best
  <2> QED BY <1>6, <1>7, Zenon
<1>9. best \subseteq 1..n
  <2> HIDE DEF lower
  <2> QED BY Zenon
<1> HIDE DEF best
<1> QED BY <1>8, <1>9, Zenon

\* The first i memos are dealt out: each of them is in a column, once, and
\* nothing else is.
Dealt(its, n, i) ==
    /\ DOMAIN its = 1..n
    /\ \A c \in 1..n : its[c] \in Seq(Nat)
    /\ \A c \in 1..n : \A k \in DOMAIN its[c] : its[c][k] \in 1..i
    /\ \A j \in 1..i : \E c \in 1..n : \E k \in DOMAIN its[c] : its[c][k] = j
    /\ \A c, d \in 1..n : \A k \in DOMAIN its[c], l \in DOMAIN its[d] :
          its[c][k] = its[d][l] => c = d /\ k = l

\* One memo more is dealt out.
LEMMA DealOne ==
    ASSUME NEW n \in Nat, NEW i \in Nat, NEW its, Dealt(its, n, i),
           NEW c \in 1..n, NEW dealt, DOMAIN dealt = 1..n,
           dealt[c] = Append(its[c], i + 1),
           \A d \in 1..n : d # c => dealt[d] = its[d]
    PROVE  Dealt(dealt, n, i + 1)
<1>1. PICK q, r : q = its[c] /\ r = dealt[c]
  OBVIOUS
<1>2. q \in Seq(Nat) /\ i + 1 \in Nat
  BY <1>1 DEF Dealt
<1>3. r = Append(q, i + 1)
  BY <1>1
<1>4. /\ r \in Seq(Nat) /\ DOMAIN q = 1..Len(q) /\ DOMAIN r = 1..(Len(q) + 1) /\ Len(q) \in Nat
      /\ r[Len(q) + 1] = i + 1 /\ \A k \in 1..Len(q) : r[k] = q[k]
  BY <1>2, <1>3
<1>5. \A k \in DOMAIN q : q[k] \in 1..i
  BY <1>1, Zenon DEF Dealt
<1>6. \A k \in DOMAIN r : r[k] = i + 1 \/ (k \in DOMAIN q /\ r[k] = q[k])
  BY <1>4
\* A place dealt to is one that was there, or the new one.
<1>7. ASSUME NEW d \in 1..n, NEW k \in DOMAIN dealt[d]
      PROVE  \/ d = c /\ k = Len(q) + 1 /\ dealt[d][k] = i + 1
             \/ k \in DOMAIN its[d] /\ dealt[d][k] = its[d][k] /\ its[d][k] \in 1..i
  <2>1. CASE d = c
    <3>1. k \in DOMAIN r /\ dealt[d] = r /\ its[d] = q
      BY <1>1, <2>1
    <3>2. k = Len(q) + 1 \/ k \in DOMAIN q
      BY <1>4, <3>1
    <3>3. CASE k = Len(q) + 1
      BY <1>4, <2>1, <3>1, <3>3
    <3>4. CASE k \in DOMAIN q
      <4>1. r[k] = q[k]
        BY <1>4, <3>4
      <4> QED BY <1>5, <3>1, <3>4, <4>1
    <3> QED BY <3>2, <3>3, <3>4
  <2>2. CASE d # c
    <3>1. dealt[d] = its[d]
      BY <2>2
    <3> QED BY <3>1, Zenon DEF Dealt
  <2> QED BY <2>1, <2>2
<1>8. \A d \in 1..n : dealt[d] \in Seq(Nat)
  <2> TAKE d \in 1..n
  <2>1. CASE d = c
    BY <1>1, <1>4, <2>1
  <2>2. CASE d # c
    BY <2>2, Zenon DEF Dealt
  <2> QED BY <2>1, <2>2
<1>9. \A d \in 1..n : \A k \in DOMAIN dealt[d] : dealt[d][k] \in 1..(i + 1)
  <2> TAKE d \in 1..n
  <2> TAKE k \in DOMAIN dealt[d]
  <2>1. dealt[d][k] = i + 1 \/ dealt[d][k] \in 1..i
    BY <1>7
  <2>2. i + 1 \in 1..(i + 1) /\ 1..i \subseteq 1..(i + 1)
    OBVIOUS
  <2> QED BY <2>1, <2>2, Zenon
<1>10. ASSUME NEW j \in 1..(i + 1)
       PROVE  \E d \in 1..n : \E k \in DOMAIN dealt[d] : dealt[d][k] = j
  <2>1. CASE j = i + 1
    <3>1. Len(q) + 1 \in DOMAIN r /\ r[Len(q) + 1] = j
      BY <1>4, <2>1
    <3> QED BY <1>1, <3>1, Zenon
  <2>2. CASE j # i + 1
    <3>1. j \in 1..i
      BY <2>2
    <3>2. PICK d \in 1..n : \E k \in DOMAIN its[d] : its[d][k] = j
      BY <3>1, Zenon DEF Dealt
    <3>3. PICK k \in DOMAIN its[d] : its[d][k] = j
      BY <3>2
    <3>4. k \in DOMAIN dealt[d] /\ dealt[d][k] = its[d][k]
      <4>1. CASE d = c
        <5>1. k \in 1..Len(q) /\ its[d] = q /\ dealt[d] = r
          BY <1>1, <1>4, <4>1
        <5>2. k \in DOMAIN r /\ r[k] = q[k]
          BY <1>4, <5>1
        <5> QED BY <5>1, <5>2
      <4>2. CASE d # c
        BY <4>2
      <4> QED BY <4>1, <4>2
    <3> QED BY <3>3, <3>4, Zenon
  <2> QED BY <2>1, <2>2
<1>11. ASSUME NEW d \in 1..n, NEW e \in 1..n, NEW k \in DOMAIN dealt[d], NEW l \in DOMAIN dealt[e],
              dealt[d][k] = dealt[e][l]
       PROVE  d = e /\ k = l
  <2>1. \/ d = c /\ k = Len(q) + 1 /\ dealt[d][k] = i + 1
        \/ k \in DOMAIN its[d] /\ dealt[d][k] = its[d][k] /\ its[d][k] \in 1..i
    BY <1>7
  <2>2. \/ e = c /\ l = Len(q) + 1 /\ dealt[e][l] = i + 1
        \/ l \in DOMAIN its[e] /\ dealt[e][l] = its[e][l] /\ its[e][l] \in 1..i
    BY <1>7
  <2>3. i + 1 \notin 1..i
    OBVIOUS
  <2>4. CASE d = c /\ k = Len(q) + 1 /\ dealt[d][k] = i + 1
    BY <1>11, <2>2, <2>3, <2>4, Zenon
  <2>5. CASE k \in DOMAIN its[d] /\ dealt[d][k] = its[d][k] /\ its[d][k] \in 1..i
    <3>1. l \in DOMAIN its[e] /\ its[e][l] = its[d][k]
      BY <1>11, <2>2, <2>3, <2>5, Zenon
    <3>2. its[d][k] = its[e][l]
      BY <3>1
    <3>3. \A a, b \in 1..n : \A u \in DOMAIN its[a], v \in DOMAIN its[b] :
             its[a][u] = its[b][v] => a = b /\ u = v
      BY Zenon DEF Dealt
    <3> QED BY <2>5, <3>1, <3>2, <3>3
  <2> QED BY <2>1, <2>4, <2>5
<1>12. DOMAIN dealt = 1..n
  OBVIOUS
<1>13. \A d, e \in 1..n : \A k \in DOMAIN dealt[d], l \in DOMAIN dealt[e] :
          dealt[d][k] = dealt[e][l] => d = e /\ k = l
  BY <1>11, Zenon
<1> QED BY <1>8, <1>9, <1>10, <1>12, <1>13, Zenon DEF Dealt

\* The columns while they are dealt out.
Held(cols, n, i) ==
    /\ DOMAIN cols = 1..n
    /\ \A c \in 1..n : cols[c].height \in Nat
    /\ Dealt([c \in 1..n |-> cols[c].items], n, i)

\* One memo is placed.
LEMMA PlaceOne ==
    ASSUME NEW n \in Nat, n > 0, NEW i \in Nat, NEW cols, Held(cols, n, i),
           NEW hs, NEW ms, hs[ms[i + 1]] \in Nat
    PROVE  Held(Masonry!place(ms, hs, cols, i + 1), n, i + 1)
<1>1. PICK c : c = IF i + 1 = 1 THEN 1 ELSE Masonry!findShortestColumnIndex(cols)
  OBVIOUS
<1>2. PICK its : its = [d \in 1..n |-> cols[d].items]
  OBVIOUS
<1>3. Dealt(its, n, i) /\ DOMAIN cols = 1..n /\ \A d \in 1..n : cols[d].height \in Nat
  BY <1>2, Zenon DEF Held
<1>4. \A d \in 1..n : cols[d].items \in Seq(Nat)
  <2>1. \A d \in 1..n : its[d] \in Seq(Nat)
    BY <1>3, Zenon DEF Dealt
  <2> QED BY <1>2, <2>1
<1>5. c \in 1..n
  <2>1. Masonry!findShortestColumnIndex(cols) \in 1..n
    BY <1>3, <1>4, Shortest
  <2>2. 1 \in 1..n
    OBVIOUS
  <2> QED BY <1>1, <2>1, <2>2
<1>6. PICK x : x = [items |-> Append(cols[c].items, i + 1), height |-> cols[c].height + hs[ms[i + 1]]]
  OBVIOUS
<1>7. PICK r : r = [cols EXCEPT ![c] = x]
  OBVIOUS
<1>8. Masonry!place(ms, hs, cols, i + 1) = r
  BY <1>1, <1>6, <1>7, Zenon DEF Masonry!place
<1>9. DOMAIN r = 1..n /\ r[c] = x /\ \A d \in 1..n : d # c => r[d] = cols[d]
  BY <1>3, <1>5, <1>7
<1>10. x.items = Append(its[c], i + 1) /\ x.height \in Nat
  <2>1. cols[c].height \in Nat /\ its[c] = cols[c].items
    BY <1>2, <1>3, <1>5
  <2> QED BY <1>6, <2>1, SMTT(30)
<1>11. PICK q : q = [d \in 1..n |-> r[d].items]
  OBVIOUS
<1>12. DOMAIN q = 1..n /\ q[c] = Append(its[c], i + 1) /\ \A d \in 1..n : d # c => q[d] = its[d]
  BY <1>2, <1>5, <1>9, <1>10, <1>11
<1>13. Dealt(q, n, i + 1)
  BY <1>3, <1>5, <1>12, DealOne
<1>14. \A d \in 1..n : r[d].height \in Nat
  BY <1>3, <1>9, <1>10
<1> QED BY <1>8, <1>9, <1>11, <1>13, <1>14, Zenon DEF Held

\* distributeItemsToColumns, its recursion written out.
DealBody(f, i, ms, n, hs) ==
    IF i = 0 THEN [c \in 1..n |-> [items |-> <<>>, height |-> IF c = 1 THEN prefix ELSE 0]]
    ELSE Masonry!place(ms, hs, f[i - 1], i)
Dealer(ms, n, hs) == CHOOSE f : f = [i \in 0..Len(ms) |-> DealBody(f, i, ms, n, hs)]

\* The columns are of that recursion.
LEMMA DealerIs ==
    \A ms, n, hs : Masonry!distributeItemsToColumns(ms, n, hs)
                     = [c \in 1..n |-> Dealer(ms, n, hs)[Len(ms)][c].items]
BY Zenon DEF Masonry!distributeItemsToColumns, Dealer, DealBody

\* What is dealt out up to a memo depends on what was before it.
LEMMA DealSame ==
    ASSUME NEW f, NEW g, NEW i, NEW ms, NEW n, NEW hs, i = 0 \/ f[i - 1] = g[i - 1]
    PROVE  DealBody(f, i, ms, n, hs) = DealBody(g, i, ms, n, hs)
BY Zenon DEF DealBody

DealSolves(g, k, ms, n, hs) ==
    \A i \in 0..Len(ms) : i <= k => g[i] = DealBody(g, i, ms, n, hs)
\* Up to the memo k there is a function that does what it says, for every k, so
\* the recursion does.
LEMMA DealerSolves ==
    ASSUME NEW e \in Nat, NEW ms, e = Len(ms), NEW n, NEW hs
    PROVE  \A i \in 0..e : Dealer(ms, n, hs)[i] = DealBody(Dealer(ms, n, hs), i, ms, n, hs)
<1> DEFINE Ks == {k \in Nat : \E g : DOMAIN g = 0..e /\ DealSolves(g, k, ms, n, hs)}
<1>1. 0 \in Ks
  <2>1. PICK g : g = [i \in 0..e |-> DealBody(<<>>, 0, ms, n, hs)]
    OBVIOUS
  <2>2. DOMAIN g = 0..e
    BY <2>1
  <2>3. ASSUME NEW i \in 0..Len(ms), i <= 0 PROVE g[i] = DealBody(g, i, ms, n, hs)
    <3>1. i = 0
      BY <2>3
    <3>2. g[i] = DealBody(<<>>, 0, ms, n, hs)
      BY <2>1
    <3> QED BY <3>1, <3>2, DealSame
  <2>4. DealSolves(g, 0, ms, n, hs)
    BY <2>3, Zenon DEF DealSolves
  <2> QED BY <2>2, <2>4
<1>2. ASSUME NEW k \in Nat, k \in Ks PROVE k + 1 \in Ks
  <2>1. PICK g : DOMAIN g = 0..e /\ DealSolves(g, k, ms, n, hs)
    BY <1>2
  <2>2. PICK h : h = [i \in 0..e |-> IF i = k + 1 THEN DealBody(g, i, ms, n, hs) ELSE g[i]]
    OBVIOUS
  <2>3. DOMAIN h = 0..e
    BY <2>2
  <2>4. \A i \in 0..e : h[i] = IF i = k + 1 THEN DealBody(g, i, ms, n, hs) ELSE g[i]
    BY <2>2
  <2>5. ASSUME NEW i \in 0..e, i <= k + 1 PROVE h[i] = DealBody(h, i, ms, n, hs)
    <3>1. i = 0 \/ h[i - 1] = g[i - 1]
      <4>1. CASE i # 0
        <5>1. i - 1 \in 0..e /\ i - 1 # k + 1
          BY <2>5, <4>1
        <5> QED BY <2>4, <5>1, Zenon
      <4> QED BY <4>1
    <3>2. DealBody(h, i, ms, n, hs) = DealBody(g, i, ms, n, hs)
      BY <3>1, DealSame
    <3>3. CASE i = k + 1
      BY <2>4, <3>2, <3>3, Zenon
    <3>4. CASE i # k + 1
      <4>1. i <= k
        BY <2>5, <3>4
      <4>2. g[i] = DealBody(g, i, ms, n, hs)
        BY <2>1, <4>1, Zenon DEF DealSolves
      <4> QED BY <2>4, <3>2, <3>4, <4>2, Zenon
    <3> QED BY <3>3, <3>4
  <2>6. DealSolves(h, k + 1, ms, n, hs)
    BY <2>5, Zenon DEF DealSolves
  <2>7. k + 1 \in Nat
    OBVIOUS
  <2> QED BY <2>3, <2>6, <2>7
<1>3. e \in Ks
  <2>1. \A k \in Nat : k \in Ks => k + 1 \in Ks
    BY <1>2, Zenon
  <2> HIDE DEF Ks
  <2>2. Nat \subseteq Ks
    BY <1>1, <2>1, Inducted
  <2> QED BY <2>2
<1>4. PICK g : DOMAIN g = 0..e /\ DealSolves(g, e, ms, n, hs)
  BY <1>3
<1>5. PICK h : h = [i \in 0..e |-> g[i]]
  OBVIOUS
<1>6. \A i \in 0..e : h[i] = DealBody(h, i, ms, n, hs)
  <2> TAKE i \in 0..e
  <2>1. i <= e /\ (i = 0 \/ i - 1 \in 0..e)
    OBVIOUS
  <2>2. g[i] = DealBody(g, i, ms, n, hs)
    BY <1>4, <2>1, Zenon DEF DealSolves
  <2>3. i = 0 \/ h[i - 1] = g[i - 1]
    BY <1>5, <2>1
  <2>4. DealBody(h, i, ms, n, hs) = DealBody(g, i, ms, n, hs)
    BY <2>3, DealSame
  <2> QED BY <1>5, <2>2, <2>4, Zenon
<1>7. h = [i \in 0..e |-> DealBody(h, i, ms, n, hs)]
  BY <1>5, <1>6, Zenon
<1>8. Dealer(ms, n, hs) = [i \in 0..e |-> DealBody(Dealer(ms, n, hs), i, ms, n, hs)]
  BY <1>7, Zenon DEF Dealer
<1> QED BY <1>8, Zenon

\* Every memo is dealt out, to one place.
LEMMA Distributes ==
    ASSUME NEW n \in Nat, n > 0, NEW ms \in Seq(Masonry!Memo), NEW hs \in [Masonry!Memo -> Nat],
           prefix \in Nat
    PROVE  Dealt(Masonry!distributeItemsToColumns(ms, n, hs), n, Len(ms))
<1>1. PICK e \in Nat : e = Len(ms)
  OBVIOUS
<1>2. PICK f : f = Dealer(ms, n, hs)
  OBVIOUS
<1>3. \A i \in 0..e : f[i] = DealBody(f, i, ms, n, hs)
  BY <1>1, <1>2, DealerSolves
<1> DEFINE Ks == {k \in Nat : k <= e => Held(f[k], n, k)}
<1>4. 0 \in Ks
  <2>1. PICK z : z = [c \in 1..n |-> [items |-> <<>>, height |-> IF c = 1 THEN prefix ELSE 0]]
    OBVIOUS
  <2>2. f[0] = z
    <3>1. 0 \in 0..e
      OBVIOUS
    <3> QED BY <1>3, <2>1, <3>1, Zenon DEF DealBody
  <2>3. DOMAIN z = 1..n /\ \A c \in 1..n : z[c].height \in Nat /\ z[c].items = <<>>
    BY <2>1
  <2>4. PICK its : its = [c \in 1..n |-> z[c].items]
    OBVIOUS
  <2>5. DOMAIN its = 1..n /\ \A c \in 1..n : its[c] = <<>> /\ DOMAIN its[c] = {}
    BY <2>3, <2>4
  <2>6. 1..0 = {} /\ <<>> \in Seq(Nat)
    OBVIOUS
  <2>7. Dealt(its, n, 0)
    BY <2>5, <2>6, Zenon DEF Dealt
  <2>8. Held(z, n, 0)
    BY <2>3, <2>4, <2>7, Zenon DEF Held
  <2> QED BY <2>2, <2>8
<1>5. ASSUME NEW k \in Nat, k \in Ks PROVE k + 1 \in Ks
  <2>1. SUFFICES ASSUME k + 1 <= e PROVE Held(f[k + 1], n, k + 1)
    OBVIOUS
  <2>2. Held(f[k], n, k) /\ k + 1 \in 0..e /\ k + 1 # 0 /\ (k + 1) - 1 = k
    BY <1>5, <2>1
  <2>3. f[k + 1] = Masonry!place(ms, hs, f[k], k + 1)
    BY <1>3, <2>2, Zenon DEF DealBody
  <2>4. ms[k + 1] \in Masonry!Memo
    BY <1>1, <2>1
  <2>5. hs[ms[k + 1]] \in Nat
    BY <2>4
  <2>6. Held(Masonry!place(ms, hs, f[k], k + 1), n, k + 1)
    BY <2>2, <2>5, PlaceOne
  <2> QED BY <2>3, <2>6, Zenon
<1>6. e \in Ks
  <2>1. \A k \in Nat : k \in Ks => k + 1 \in Ks
    BY <1>5, Zenon
  <2> HIDE DEF Ks
  <2>2. Nat \subseteq Ks
    BY <1>4, <2>1, Inducted
  <2> QED BY <2>2
<1>7. Held(f[e], n, e)
  BY <1>6
<1> QED BY <1>1, <1>2, <1>7, DealerIs, Zenon DEF Held

\* What is shown is all of a list dealt out, at least as long as the list there
\* is and in no more columns than there are, unless a timer's was not.
Covered ==
    \E n, i \in Nat : /\ Dealt(distribution, n, i)
                      /\ outdated \/ (n <= columns /\ Len(memoList) <= i)
MasonryTypes ==
    /\ memoList \in Seq(Masonry!Memo)
    /\ columns \in 1..3 /\ width \in 1..3 /\ prefix \in 0..1
    /\ itemHeights \in [Masonry!Memo -> Nat]
    /\ timeout.memos \in Seq(Masonry!Memo) /\ timeout.columns \in 1..3
    /\ timeout.heights \in [Masonry!Memo -> Nat]
MasonryInv == MasonryTypes /\ Covered

\* A height is a number.
LEMMA HeightIs == \A m \in Masonry!Memo, n \in Nat : Masonry!Height(m, n) \in Nat
BY DEF Masonry!Height

\* What is dealt out anew is all shown.
LEMMA Anew ==
    ASSUME NEW ms \in Seq(Masonry!Memo), NEW n \in 1..3, NEW hs \in [Masonry!Memo -> Nat],
           prefix \in 0..1, memoList' = ms, columns' = n,
           distribution' = Masonry!distributeItemsToColumns(ms, n, hs)
    PROVE  Covered'
<1>1. n \in Nat /\ n > 0 /\ prefix \in Nat
  OBVIOUS
<1>2. Dealt(Masonry!distributeItemsToColumns(ms, n, hs), n, Len(ms))
  BY <1>1, Distributes
<1>3. PICK d : d = Masonry!distributeItemsToColumns(ms, n, hs)
  OBVIOUS
<1>4. PICK i \in Nat : i = Len(ms)
  OBVIOUS
<1>5. Dealt(d, n, i)
  BY <1>2, <1>3, <1>4, Zenon
<1>6. distribution' = d /\ n <= columns' /\ Len(memoList') <= i
  BY <1>3, <1>4
<1>7. Dealt(distribution', n, i)
  BY <1>5, <1>6, Zenon
<1> QED BY <1>1, <1>4, <1>6, <1>7, Zenon DEF Covered

\* Nothing but the list's own state is shown.
LEMMA CoveredSame ==
    Covered /\ UNCHANGED <<distribution, outdated, columns, memoList>> => Covered'
<1> SUFFICES ASSUME Covered, UNCHANGED <<distribution, outdated, columns, memoList>>
             PROVE  Covered'
  OBVIOUS
<1>1. PICK n \in Nat, i \in Nat : /\ Dealt(distribution, n, i)
                                  /\ outdated \/ (n <= columns /\ Len(memoList) <= i)
  BY Zenon DEF Covered
<1>2. PICK d : d = distribution
  OBVIOUS
<1>3. Dealt(d, n, i) /\ distribution' = d
  BY <1>1, <1>2
<1>4. Dealt(distribution', n, i)
  BY <1>3, Zenon
<1>5. outdated' \/ (n <= columns' /\ Len(memoList') <= i)
  BY <1>1
<1> QED BY <1>4, <1>5, Zenon DEF Covered

\* A list or a number of columns of its own.
LEMMA EffectsStep ==
    ASSUME MasonryInv, NEW ms \in Seq(Masonry!Memo), NEW n \in 1..3, Masonry!Effects(ms, n),
           memoList' = ms, UNCHANGED prefix, width' \in 1..3
    PROVE  MasonryInv'
<1>1. PICK hs : hs = [m \in Masonry!Memo |-> IF Masonry!Contains(ms, m) THEN Masonry!Height(m, n)
                                            ELSE itemHeights[m]]
  OBVIOUS
<1>2. hs \in [Masonry!Memo -> Nat]
  <2>1. \A m \in Masonry!Memo : Masonry!Height(m, n) \in Nat
    BY HeightIs
  <2>2. itemHeights \in [Masonry!Memo -> Nat]
    BY DEF MasonryInv, MasonryTypes
  <2> QED BY <1>1, <2>1, <2>2
<1>3. /\ columns' = n
      /\ distribution' = Masonry!distributeItemsToColumns(ms, n, itemHeights)
      /\ itemHeights' = hs
      /\ timeout' = IF hs = itemHeights THEN timeout
                    ELSE [set |-> TRUE, memos |-> ms, columns |-> n, heights |-> hs]
  BY <1>1, Zenon DEF Masonry!Effects
<1>4. MasonryTypes
  BY DEF MasonryInv
<1>5. Covered'
  <2>1. itemHeights \in [Masonry!Memo -> Nat] /\ prefix \in 0..1
    BY <1>4 DEF MasonryTypes
  <2> QED BY <1>3, <2>1, Anew
<1>6. /\ timeout'.memos \in Seq(Masonry!Memo) /\ timeout'.columns \in 1..3
      /\ timeout'.heights \in [Masonry!Memo -> Nat]
  BY <1>2, <1>3, <1>4 DEF MasonryTypes
<1>7. MasonryTypes'
  BY <1>2, <1>3, <1>4, <1>6 DEF MasonryTypes
<1> QED BY <1>5, <1>7 DEF MasonryInv

\* The number of columns there may be.
LEMMA ColumnsAre == \A v, w : w \in 1..3 => Masonry!calculateColumns(v, w) \in 1..3
BY DEF Masonry!calculateColumns

\* A mount: all is dealt out without heights.
LEMMA Mounted ==
    ASSUME NEW ms \in Seq(Masonry!Memo), NEW n \in 1..3, prefix \in 0..1, prefix' = prefix,
           memoList' = ms, columns' = n, width' \in 1..3,
           itemHeights' = [m \in Masonry!Memo |-> IF Masonry!Contains(memoList, m)
                                                  THEN Masonry!Height(m, n) ELSE 0],
           distribution' = Masonry!distributeItemsToColumns(ms, n, [m \in Masonry!Memo |-> 0]),
           timeout' = [set |-> TRUE, memos |-> ms, columns |-> n, heights |-> itemHeights']
    PROVE  MasonryInv'
<1>1. PICK hs : hs = [m \in Masonry!Memo |-> 0]
  OBVIOUS
<1>2. hs \in [Masonry!Memo -> Nat] /\ distribution' = Masonry!distributeItemsToColumns(ms, n, hs)
  BY <1>1
<1>3. Covered'
  BY <1>2, Anew
<1>4. itemHeights' \in [Masonry!Memo -> Nat]
  <2>1. \A m \in Masonry!Memo : Masonry!Height(m, n) \in Nat
    BY HeightIs
  <2> QED BY <2>1
<1>5. MasonryTypes'
  BY <1>4 DEF MasonryTypes
<1> QED BY <1>3, <1>5 DEF MasonryInv

\* The first render.
LEMMA InitMasonry == Masonry!Init => MasonryInv
<1> SUFFICES ASSUME Masonry!Init PROVE MasonryInv
  OBVIOUS
<1>1. memoList \in Seq(Masonry!Memo) /\ width \in 1..3 /\ prefix \in 0..1
  <2>1. 2 \in Masonry!Memo /\ 4 \in Masonry!Memo
    BY DEF Masonry!Memo
  <2>2. <<2, 4>> \in Seq(Masonry!Memo) /\ <<4, 2>> \in Seq(Masonry!Memo)
    BY <2>1
  <2>3. memoList = <<2, 4>> \/ memoList = <<4, 2>>
    BY DEF Masonry!Init
  <2> QED BY <2>2, <2>3 DEF Masonry!Init
<1>2. columns \in 1..3
  <2>1. columns = Masonry!calculateColumns(viewState, width)
    BY DEF Masonry!Init
  <2> QED BY <1>1, <2>1, ColumnsAre
<1>3. PICK hs : hs = [m \in Masonry!Memo |-> 0]
  OBVIOUS
<1>4. hs \in [Masonry!Memo -> Nat]
      /\ distribution = Masonry!distributeItemsToColumns(memoList, columns, hs)
  BY <1>3 DEF Masonry!Init
<1>5. PICK n, ms, d : n = columns /\ ms = memoList /\ d = distribution
  OBVIOUS
<1>6. Dealt(d, n, Len(ms)) /\ n \in Nat
  <2>1. n \in Nat /\ n > 0 /\ prefix \in Nat /\ ms \in Seq(Masonry!Memo)
    BY <1>1, <1>2, <1>5
  <2>2. Dealt(Masonry!distributeItemsToColumns(ms, n, hs), n, Len(ms))
    BY <1>4, <2>1, Distributes
  <2> QED BY <1>4, <1>5, <2>1, <2>2, Zenon
<1>7. Covered
  <2>1. PICK i \in Nat : i = Len(ms)
    BY <1>1, <1>5
  <2>2. n <= columns /\ Len(memoList) <= i
    BY <1>2, <1>5, <2>1
  <2> QED BY <1>5, <1>6, <2>1, <2>2, Zenon DEF Covered
<1>8. itemHeights \in [Masonry!Memo -> Nat]
  <2>1. itemHeights = [m \in Masonry!Memo |-> IF Masonry!Contains(memoList, m)
                                              THEN Masonry!Height(m, columns) ELSE 0]
    BY DEF Masonry!Init
  <2>2. \A m \in Masonry!Memo : Masonry!Height(m, columns) \in Nat
    BY <1>2, HeightIs
  <2> QED BY <2>1, <2>2
<1>9. timeout = [set |-> TRUE, memos |-> memoList, columns |-> columns, heights |-> itemHeights]
  BY DEF Masonry!Init
<1>10. MasonryTypes
  BY <1>1, <1>2, <1>8, <1>9 DEF MasonryTypes
<1> QED BY <1>7, <1>10 DEF MasonryInv

\* The query has another list.
LEMMA RelistStep ==
    ASSUME MasonryInv, NEW ms \in Seq(Masonry!Memo), Masonry!ListChanges(ms)
    PROVE  MasonryInv'
<1>1. PICK n : n = columns
  OBVIOUS
<1>2. n \in 1..3 /\ width' \in 1..3 /\ UNCHANGED prefix /\ memoList' = ms
  BY <1>1 DEF MasonryInv, MasonryTypes, Masonry!ListChanges
<1>3. Masonry!Effects(ms, n)
  BY <1>1, Zenon DEF Masonry!ListChanges
<1> QED BY <1>2, <1>3, EffectsStep

\* The window or the layout changes: there are as many columns as were, or all
\* is dealt out.
LEMMA ColumnsStep ==
    ASSUME MasonryInv, NEW n \in 1..3, UNCHANGED <<memoList, prefix>>, width' \in 1..3,
           IF n = columns THEN UNCHANGED <<columns, distribution, itemHeights, timeout, outdated>>
           ELSE Masonry!Effects(memoList, n)
    PROVE  MasonryInv'
<1>1. CASE n = columns
  <2>1. UNCHANGED <<columns, distribution, itemHeights, timeout, outdated>>
    BY <1>1
  <2>2. Covered'
    BY <2>1, CoveredSame DEF MasonryInv
  <2>3. MasonryTypes'
    BY <2>1 DEF MasonryInv, MasonryTypes
  <2> QED BY <2>2, <2>3 DEF MasonryInv
<1>2. CASE n # columns
  <2>1. PICK ms : ms = memoList
    OBVIOUS
  <2>2. Masonry!Effects(ms, n)
    BY <1>2, <2>1
  <2>3. ms \in Seq(Masonry!Memo) /\ memoList' = ms
    BY <2>1 DEF MasonryInv, MasonryTypes
  <2> QED BY <2>2, <2>3, EffectsStep
<1> QED BY <1>1, <1>2

\* The window has another width.
LEMMA ResizeStep ==
    ASSUME MasonryInv, NEW w \in 1..3, Masonry!handleResize(w)
    PROVE  MasonryInv'
<1>1. PICK n : n = Masonry!calculateColumns(viewState, w)
  OBVIOUS
<1>2. n \in 1..3
  BY <1>1, ColumnsAre
<1>3. UNCHANGED <<memoList, prefix>> /\ width' = w
  BY DEF Masonry!handleResize
<1>4. IF n = columns THEN UNCHANGED <<columns, distribution, itemHeights, timeout, outdated>>
      ELSE Masonry!Effects(memoList, n)
  BY <1>1, Zenon DEF Masonry!handleResize
<1> QED BY <1>2, <1>3, <1>4, ColumnsStep

\* The other layout is chosen.
LEMMA LayoutStep ==
    ASSUME MasonryInv, NEW l, Masonry!setLayout(l)
    PROVE  MasonryInv'
<1>1. PICK n : n = Masonry!calculateColumns(viewState', width)
  OBVIOUS
<1>2. n \in 1..3 /\ width' \in 1..3 /\ UNCHANGED <<memoList, prefix>>
  BY <1>1, ColumnsAre DEF Masonry!setLayout, MasonryInv, MasonryTypes
<1>3. IF n = columns THEN UNCHANGED <<columns, distribution, itemHeights, timeout, outdated>>
      ELSE Masonry!Effects(memoList, n)
  BY <1>1, Zenon DEF Masonry!setLayout
<1> QED BY <1>2, <1>3, ColumnsStep

\* The other order is another query, and another view.
LEMMA OrderStep ==
    ASSUME MasonryInv, Masonry!toggleSortOrder
    PROVE  MasonryInv'
<1>1. PICK n, ms : n = columns /\ ms = memoList'
  OBVIOUS
<1>2. n \in 1..3 /\ prefix \in 0..1 /\ memoList \in Seq(Masonry!Memo) /\ width \in 1..3
  BY <1>1 DEF MasonryInv, MasonryTypes
<1>3. ms \in Seq(Masonry!Memo)
  <2>1. ms = [i \in 1..Len(memoList) |-> memoList[(Len(memoList) - i) + 1]]
    BY <1>1, Zenon DEF Masonry!toggleSortOrder, Masonry!Reverse
  <2> QED BY <1>2, <2>1
<1>4. UNCHANGED <<width, prefix, columns>>
  BY DEF Masonry!toggleSortOrder
<1>5. /\ itemHeights' = [m \in Masonry!Memo |-> IF Masonry!Contains(memoList, m)
                                                THEN Masonry!Height(m, n) ELSE 0]
      /\ distribution' = Masonry!distributeItemsToColumns(ms, n, [m \in Masonry!Memo |-> 0])
      /\ timeout' = [set |-> TRUE, memos |-> ms, columns |-> n, heights |-> itemHeights']
  BY <1>1, Zenon DEF Masonry!toggleSortOrder
<1>6. memoList' = ms /\ columns' = n /\ width' \in 1..3 /\ prefix' = prefix
  BY <1>1, <1>2, <1>4
<1> QED BY <1>2, <1>3, <1>5, <1>6, Mounted

\* An item is higher: only the timer is set.
LEMMA HigherStep ==
    ASSUME MasonryInv, NEW m \in Masonry!Memo, Masonry!handleHeightChange(m)
    PROVE  MasonryInv'
<1>1. /\ UNCHANGED <<memoList, width, prefix, columns, distribution, outdated>>
      /\ itemHeights' = [itemHeights EXCEPT ![m] = @ + 1]
      /\ timeout' = [set |-> TRUE, memos |-> memoList, columns |-> columns, heights |-> itemHeights']
  BY Zenon DEF Masonry!handleHeightChange
<1>2. MasonryTypes /\ Covered
  BY DEF MasonryInv
<1>3. itemHeights' \in [Masonry!Memo -> Nat]
  BY <1>1, <1>2 DEF MasonryTypes
<1>4. MasonryTypes'
  BY <1>1, <1>2, <1>3 DEF MasonryTypes
<1>5. Covered'
  BY <1>1, <1>2, CoveredSame
<1> QED BY <1>4, <1>5 DEF MasonryInv

\* The timer deals out what was there when it was set.
LEMMA TimerStep ==
    ASSUME MasonryInv, Masonry!debouncedRedistribute
    PROVE  MasonryInv'
<1>1. PICK n, ms, hs, d : /\ n = timeout.columns /\ ms = timeout.memos /\ hs = timeout.heights
                          /\ d = Masonry!distributeItemsToColumns(ms, n, hs)
  OBVIOUS
<1>2. MasonryTypes
  BY DEF MasonryInv
<1>3. /\ n \in 1..3 /\ ms \in Seq(Masonry!Memo) /\ hs \in [Masonry!Memo -> Nat]
      /\ prefix \in Nat /\ n \in Nat /\ n > 0
  BY <1>1, <1>2 DEF MasonryTypes
<1>4. Dealt(Masonry!distributeItemsToColumns(ms, n, hs), n, Len(ms))
  BY <1>3, Distributes
<1>5. distribution' = d
  BY <1>1, Zenon DEF Masonry!debouncedRedistribute
<1>6. PICK i \in Nat : i = Len(ms)
  BY <1>3
<1>7. Dealt(distribution', n, i)
  BY <1>1, <1>4, <1>5, <1>6, Zenon
<1>8. UNCHANGED <<memoList, width, prefix, columns, itemHeights>>
  BY DEF Masonry!debouncedRedistribute
<1>9. outdated' \/ (n <= columns' /\ Len(memoList') <= i)
  <2>1. outdated' = (n > columns \/ i < Len(memoList))
    BY <1>1, <1>6 DEF Masonry!debouncedRedistribute
  <2>2. n > columns \/ i < Len(memoList) \/ (n <= columns /\ Len(memoList) <= i)
    BY <1>2, <1>3 DEF MasonryTypes
  <2> QED BY <1>8, <2>1, <2>2
<1>10. Covered'
  BY <1>3, <1>7, <1>9, Zenon DEF Covered
<1>11. timeout' = Masonry!NoTimeout
  BY DEF Masonry!debouncedRedistribute
<1>12. /\ timeout'.memos \in Seq(Masonry!Memo) /\ timeout'.columns \in 1..3
       /\ timeout'.heights \in [Masonry!Memo -> Nat]
  BY <1>11 DEF Masonry!NoTimeout
<1>13. MasonryTypes'
  BY <1>2, <1>8, <1>12 DEF MasonryTypes
<1> QED BY <1>10, <1>13 DEF MasonryInv

\* Every step keeps the list shown.
LEMMA StepMasonry ==
    ASSUME MasonryInv, Masonry!Next
    PROVE  MasonryInv'
<1>1. memoList \in Seq(Masonry!Memo)
  BY DEF MasonryInv, MasonryTypes
<1>2. CASE \E m \in Masonry!Memo \ Masonry!ToSet(memoList) :
              Masonry!ListChanges(memoList \o <<m>>) \/ Masonry!ListChanges(<<m>> \o memoList)
  <2>1. PICK m \in Masonry!Memo :
              Masonry!ListChanges(memoList \o <<m>>) \/ Masonry!ListChanges(<<m>> \o memoList)
    BY <1>2
  <2>2. PICK p, q : p = memoList \o <<m>> /\ q = <<m>> \o memoList
    OBVIOUS
  <2>3. <<m>> \in Seq(Masonry!Memo)
    OBVIOUS
  <2>4. p \in Seq(Masonry!Memo) /\ q \in Seq(Masonry!Memo)
    BY <1>1, <2>2, <2>3
  <2>5. Masonry!ListChanges(p) \/ Masonry!ListChanges(q)
    BY <2>1, <2>2, Zenon
  <2> QED BY <2>4, <2>5, RelistStep
<1>3. CASE \E i \in DOMAIN memoList : Masonry!ListChanges(Masonry!RemoveAt(memoList, i))
  <2>1. PICK i \in DOMAIN memoList : Masonry!ListChanges(Masonry!RemoveAt(memoList, i))
    BY <1>3
  <2>2. PICK p : p = Masonry!RemoveAt(memoList, i)
    OBVIOUS
  <2>3. p = SubSeq(memoList, 1, i - 1) \o SubSeq(memoList, i + 1, Len(memoList))
    BY <2>2, Zenon DEF Masonry!RemoveAt
  <2>4. i \in 1..Len(memoList) /\ Len(memoList) \in Nat
    BY <1>1
  <2>5. SubSeq(memoList, 1, i - 1) \in Seq(Masonry!Memo)
    BY <1>1, <2>4
  <2>6. SubSeq(memoList, i + 1, Len(memoList)) \in Seq(Masonry!Memo)
    BY <1>1, <2>4
  <2>7. p \in Seq(Masonry!Memo)
    BY <2>3, <2>5, <2>6
  <2>8. Masonry!ListChanges(p)
    BY <2>1, <2>2, Zenon
  <2> QED BY <2>7, <2>8, RelistStep
<1>4. CASE \E w \in 1..3 : Masonry!handleResize(w)
  BY <1>4, ResizeStep
<1>5. CASE \E l \in {"LIST", "MASONRY"} : Masonry!setLayout(l)
  BY <1>5, LayoutStep
<1>6. CASE Masonry!toggleSortOrder
  BY <1>6, OrderStep
<1>7. CASE \E m \in Masonry!Memo : Masonry!handleHeightChange(m)
  BY <1>7, HigherStep
<1>8. CASE Masonry!debouncedRedistribute
  BY <1>8, TimerStep
<1> QED BY <1>2, <1>3, <1>4, <1>5, <1>6, <1>7, <1>8, Zenon DEF Masonry!Next

\* Every memo of the list is shown, once.
LEMMA MasonryShows == MasonryInv => Masonry!NothingHidden
<1> SUFFICES ASSUME MasonryInv, ~outdated, NEW j \in DOMAIN memoList
             PROVE  LET places == UNION {{c} \X Masonry!Rendered(c) : c \in 1..columns}
                    IN  \E p \in places : {q \in places : distribution[q[1]][q[2]] = j} = {p}
  BY Zenon DEF Masonry!NothingHidden
<1> DEFINE places == UNION {{c} \X Masonry!Rendered(c) : c \in 1..columns}
<1>1. PICK n \in Nat, i \in Nat : /\ Dealt(distribution, n, i)
                                  /\ n <= columns /\ Len(memoList) <= i
  BY Zenon DEF Covered, MasonryInv
<1>2. memoList \in Seq(Masonry!Memo) /\ columns \in 1..3 /\ j \in 1..i /\ j <= Len(memoList)
  <2>1. memoList \in Seq(Masonry!Memo) /\ columns \in 1..3
    BY DEF MasonryInv, MasonryTypes
  <2> QED BY <1>1, <2>1
<1>3. DOMAIN distribution = 1..n
  BY <1>1, Zenon DEF Dealt
<1>40. PICK c \in 1..n : \E k \in DOMAIN distribution[c] : distribution[c][k] = j
  BY <1>1, <1>2, Zenon DEF Dealt
<1>4. PICK k \in DOMAIN distribution[c] : distribution[c][k] = j
  BY <1>40
<1>5. k \in Masonry!Rendered(c) /\ c \in 1..columns
  BY <1>1, <1>2, <1>3, <1>4 DEF Masonry!Rendered
<1>6. <<c, k>> \in places
  BY <1>5
<1>7. ASSUME NEW q \in places, distribution[q[1]][q[2]] = j
      PROVE  q = <<c, k>>
  <2>1. PICK d \in 1..columns : q \in {d} \X Masonry!Rendered(d)
    OBVIOUS
  <2>2. PICK l \in Masonry!Rendered(d) : q = <<d, l>>
    BY <2>1
  <2>3. d \in 1..n /\ l \in DOMAIN distribution[d]
    BY <1>3, <2>2 DEF Masonry!Rendered
  <2>4. distribution[d][l] = distribution[c][k]
    BY <1>4, <1>7, <2>2
  <2>5. \A a, b \in 1..n : \A u \in DOMAIN distribution[a], v \in DOMAIN distribution[b] :
             distribution[a][u] = distribution[b][v] => a = b /\ u = v
    BY <1>1, Zenon DEF Dealt
  <2>6. d = c /\ l = k
    BY <1>4, <2>3, <2>4, <2>5
  <2> QED BY <2>2, <2>6
<1>8. distribution[<<c, k>>[1]][<<c, k>>[2]] = j
  BY <1>4
<1> HIDE DEF places
<1>9. {q \in places : distribution[q[1]][q[2]] = j} = {<<c, k>>}
  BY <1>6, <1>7, <1>8
<1>10. \E p \in places : {q \in places : distribution[q[1]][q[2]] = j} = {p}
  BY <1>6, <1>9, Zenon
<1> QED BY <1>10, Zenon DEF places

\* While another part moves, the cached memo is as it was.
LEMMA CacheUnmoved == UNCHANGED cached => (CacheInv => CacheInv')
<1> SUFFICES ASSUME UNCHANGED cached, CacheInv PROVE CacheInv'
  OBVIOUS
<1>1. UNCHANGED <<memo, page, cache, fetch, calls, wanted, muddled>>
  BY DEF cached
<1>2. CacheTypes'
  BY <1>1 DEF CacheInv, CacheTypes
<1>3. \A c : Acted(c)' <=> Acted(c)
  BY <1>1 DEF Acted
<1>4. \A c : GoodCall(c)' <=> GoodCall(c)
  BY <1>3, Zenon DEF GoodCall, Ticks
<1>5. CallsGood'
  BY <1>1, <1>4 DEF CacheInv, CallsGood
<1>6. AnyActed' <=> AnyActed
  BY <1>1, <1>3 DEF AnyActed
<1>7. CacheLists'
  BY <1>1, <1>6 DEF CacheInv, CacheLists
<1>8. OwnCopy'
  BY <1>1, <1>3 DEF CacheInv, OwnCopy
<1>9. \A i : Last(i)' <=> Last(i)
  BY <1>1 DEF Last, Ticks
<1>10. TasksWanted'
  BY <1>1, <1>9 DEF CacheInv, TasksWanted
<1>11. OwnTasks'
  BY <1>1 DEF CacheInv, OwnTasks, Ticks
<1> QED BY <1>2, <1>5, <1>7, <1>8, <1>10, <1>11 DEF CacheInv

\* So is the list.
LEMMA PagesUnmoved == UNCHANGED pages => (PagesInv => PagesInv')
BY PagesSame DEF pages

\* So are the columns.
LEMMA MasonryUnmoved == UNCHANGED masonry => (MasonryInv => MasonryInv')
<1> SUFFICES ASSUME UNCHANGED masonry, MasonryInv PROVE MasonryInv'
  OBVIOUS
<1>1. UNCHANGED <<memoList, columns, width, prefix, itemHeights, timeout, distribution, outdated>>
  BY DEF masonry
<1>2. MasonryTypes'
  BY <1>1 DEF MasonryInv, MasonryTypes
<1>3. Covered'
  BY <1>1, CoveredSame DEF MasonryInv
<1> QED BY <1>2, <1>3 DEF MasonryInv

\* With nothing under way a page shows the memo stored (useMemoQueries.ts,
\* MemoActionMenu/hooks.ts, TaskListItem.tsx), the pages of a list are the first
\* of what is stored (Attachments.tsx, PagedMemoList.tsx), no memo of it is left
\* out of the columns (useMasonryLayout.ts), and a tag shown of a memo is one
\* stored (remark-tag.ts).
THEOREM MemosFollow == PagesSpec => []MemosSettle
<1> DEFINE Inv == /\ part = "cache" => CacheInv
                  /\ part = "pages" => PagesInv
                  /\ part = "masonry" => MasonryInv
                  /\ part = "tags" => text \in Seq(Tags!Char)
<1>1. PagesInit => Inv
  <2>1. Tags!Init => text \in Seq(Tags!Char)
    BY DEF Tags!Init
  <2> QED BY <2>1, InitCache, InitPages, InitMasonry DEF PagesInit
<1>2. Inv /\ [PagesNext]_<<part, instance, lists, accounts, inUrl, cached, pages,
                           masonry, explorer, calendar, inbox, text>> => Inv'
  <2> SUFFICES ASSUME Inv,
                      [PagesNext]_<<part, instance, lists, accounts, inUrl, cached, pages,
                                    masonry, explorer, calendar, inbox, text>>
               PROVE  Inv'
    OBVIOUS
  <2>1. CASE UNCHANGED <<part, cached, pages, masonry, text>>
    <3>1. UNCHANGED cached => (CacheInv => CacheInv')
      BY CacheUnmoved
    <3>2. UNCHANGED pages => (PagesInv => PagesInv')
      BY PagesUnmoved
    <3>3. UNCHANGED masonry => (MasonryInv => MasonryInv')
      BY MasonryUnmoved
    <3> QED BY <2>1, <3>1, <3>2, <3>3
  <2>2. CASE part = "cache" /\ Cache!Next /\ part' = part
    BY <2>2, StepCache
  <2>3. CASE part = "pages" /\ Pages!Next /\ part' = part
    BY <2>3, StepPages
  <2>4. CASE part = "masonry" /\ Masonry!Next /\ part' = part
    BY <2>4, StepMasonry
  <2>5. CASE part = "tags" /\ Tags!Next /\ part' = part
    <3>1. ASSUME part = "tags" PROVE text' \in Seq(Tags!Char)
      BY <2>5, <3>1 DEF Tags!Next, Tags!Write
    <3> QED BY <2>5, <3>1
  <2> QED BY <2>1, <2>2, <2>3, <2>4, <2>5 DEF PagesNext
<1>3. Inv => MemosSettle
  <2> SUFFICES ASSUME Inv PROVE MemosSettle
    OBVIOUS
  <2>1. ASSUME part = "cache" PROVE Cache!MemoSettles
    BY <2>1, CacheSettled
  <2>2. ASSUME part = "pages" PROVE Pages!PagesSettle
    BY <2>2, PagesSettled
  <2>3. ASSUME part = "masonry" PROVE Masonry!NothingHidden
    BY <2>3, MasonryShows
  <2>4. ASSUME part = "tags" PROVE Tags!LinksLead
    BY <2>4, LinksFollow
  <2> QED BY <2>1, <2>2, <2>3, <2>4 DEF MemosSettle
<1> QED BY <1>1, <1>2, <1>3, PTL DEF PagesSpec
=============================================================================
