----------------------------- MODULE MasonryLayout -----------------------------
(***************************************************************************)
(* The memos of a list in columns.  useMasonryLayout deals the list out    *)
(* when it or the number of columns changes, and again, by a timer, when   *)
(* an item turns out higher or lower than it was.  The timer deals out     *)
(* what was there when it was set.  ViewContext says whether there are     *)
(* columns at all.                                                         *)
(***************************************************************************)
EXTENDS Naturals, SequencesExt

CONSTANTS
    MaxChanges      \* bound: what the user and the window do

VARIABLES
    viewState,      \* ViewContext: the layout chosen, the sort order
    memoList,
    width,          \* how many columns the window has room for
    grown,          \* the memos higher than they were, being unfolded
    prefix,         \* the editor above the first column has a height
    columns, itemHeights, distribution,     \* useMasonryLayout's state
    timeout,        \* what the timer will deal out
    changes,
    outdated        \* history: a timer dealt out more columns or fewer memos than there are

vars == <<viewState, memoList, width, grown, prefix, columns, itemHeights,
          distribution, timeout, changes, outdated>>

Memo == 1..4
Views == [layout : {"LIST", "MASONRY"}, orderByTimeAsc : BOOLEAN]
Heights == [Memo -> 0..4]
NoTimeout == [set |-> FALSE, memos |-> <<>>, columns |-> 1, heights |-> [m \in Memo |-> 0]]

TypeOK ==
    /\ viewState \in Views
    /\ memoList \in Seq(Memo)
    /\ width \in 1..3 /\ grown \subseteq Memo /\ prefix \in 0..1
    /\ columns \in 1..3 /\ itemHeights \in Heights
    /\ distribution \in Seq(Seq(Memo))
    /\ timeout \in [set : BOOLEAN, memos : Seq(Memo), columns : 1..3, heights : Heights]
    /\ changes \in 0..MaxChanges /\ outdated \in BOOLEAN

\* How high an item is: the last memo's is a long one, whose height depends
\* on the width of its column.
Height(m, n) == (IF m = 4 THEN n ELSE 1) + (IF m \in grown THEN 1 ELSE 0)

\* The first of the lowest columns, of equally low ones that with fewer items.
findShortestColumnIndex(cols) ==
    LET lower(c, d) == \/ cols[c].height < cols[d].height
                       \/ cols[c].height = cols[d].height /\ Len(cols[c].items) < Len(cols[d].items)
        best == {c \in DOMAIN cols : \A d \in DOMAIN cols : ~lower(d, c)}
    IN  Min(best)

\* Every memo's index, in the order of the list, goes to the lowest column.
place(memos, heights, cols, i) ==
    LET c == IF i = 1 THEN 1 ELSE findShortestColumnIndex(cols)
    IN  [cols EXCEPT ![c] = [items |-> Append(@.items, i), height |-> @.height + heights[memos[i]]]]
distributeItemsToColumns(memos, n, heights) ==
    LET dealt[i \in 0..Len(memos)] ==
            IF i = 0 THEN [c \in 1..n |-> [items |-> <<>>, height |-> IF c = 1 THEN prefix ELSE 0]]
            ELSE place(memos, heights, dealt[i - 1], i)
    IN  [c \in 1..n |-> dealt[Len(memos)][c].items]

calculateColumns(view, w) == IF view.layout = "LIST" THEN 1 ELSE w

\* A render with a list or a number of columns of its own, and its effects: all
\* is dealt out by the heights known, then each item is measured, and sets the
\* timer if its height is new.
Effects(memos, n) ==
    LET measured == [m \in Memo |-> IF Contains(memos, m) THEN Height(m, n) ELSE itemHeights[m]]
    IN  /\ columns' = n
        /\ distribution' = distributeItemsToColumns(memos, n, itemHeights)
        /\ itemHeights' = measured
        /\ timeout' = IF measured = itemHeights THEN timeout
                      ELSE [set |-> TRUE, memos |-> memos, columns |-> n, heights |-> measured]
        /\ outdated' = FALSE

\* The first render has one column, its effects may find room for more.
Init ==
    /\ viewState \in Views
    /\ memoList = IF viewState.orderByTimeAsc THEN <<2, 4>> ELSE <<4, 2>>
    /\ width \in 1..3 /\ grown = {} /\ prefix \in 0..1
    /\ columns = calculateColumns(viewState, width)
    /\ itemHeights = [m \in Memo |-> IF Contains(memoList, m) THEN Height(m, columns) ELSE 0]
    /\ distribution = distributeItemsToColumns(memoList, columns, [m \in Memo |-> 0])
    /\ timeout = [set |-> TRUE, memos |-> memoList, columns |-> columns, heights |-> itemHeights]
    /\ changes = 0 /\ outdated = FALSE

Change == changes < MaxChanges /\ changes' = changes + 1

\* The query has another page, a new memo, or one less.
ListChanges(memos) ==
    /\ Change
    /\ memoList' = memos
    /\ Effects(memos, columns)
    /\ UNCHANGED <<viewState, width, grown, prefix>>

handleResize(w) ==
    /\ w # width /\ Change
    /\ width' = w
    /\ LET n == calculateColumns(viewState, w)
       IN  IF n = columns THEN UNCHANGED <<columns, distribution, itemHeights, timeout, outdated>>
           ELSE Effects(memoList, n)
    /\ UNCHANGED <<viewState, memoList, grown, prefix>>

\* MemoDisplaySettingMenu.tsx.  The list stays, its columns may not.
setLayout(l) ==
    /\ l # viewState.layout /\ Change
    /\ viewState' = [viewState EXCEPT !.layout = l]
    /\ LET n == calculateColumns(viewState', width)
       IN  IF n = columns THEN UNCHANGED <<columns, distribution, itemHeights, timeout, outdated>>
           ELSE Effects(memoList, n)
    /\ UNCHANGED <<memoList, width, grown, prefix>>

\* Another order is another query: the view is mounted again with its list.
toggleSortOrder ==
    /\ Change
    /\ viewState' = [viewState EXCEPT !.orderByTimeAsc = ~@]
    /\ memoList' = Reverse(memoList)
    /\ itemHeights' = [m \in Memo |-> IF Contains(memoList, m) THEN Height(m, columns) ELSE 0]
    /\ distribution' = distributeItemsToColumns(memoList', columns, [m \in Memo |-> 0])
    /\ timeout' = [set |-> TRUE, memos |-> memoList', columns |-> columns, heights |-> itemHeights']
    /\ outdated' = FALSE
    /\ UNCHANGED <<width, grown, prefix, columns>>

\* An item shown is unfolded, edited, or an image of it has come.
handleHeightChange(m) ==
    /\ \E c \in 1..columns : c \in DOMAIN distribution
           /\ \E i \in DOMAIN distribution[c] : distribution[c][i] <= Len(memoList)
                                                /\ memoList[distribution[c][i]] = m
    /\ m \notin grown /\ Change
    /\ grown' = grown \union {m}
    /\ itemHeights' = [itemHeights EXCEPT ![m] = @ + 1]
    /\ timeout' = [set |-> TRUE, memos |-> memoList, columns |-> columns, heights |-> itemHeights']
    /\ UNCHANGED <<viewState, memoList, width, prefix, columns, distribution, outdated>>

debouncedRedistribute ==
    /\ timeout.set
    /\ distribution' = distributeItemsToColumns(timeout.memos, timeout.columns, timeout.heights)
    /\ timeout' = NoTimeout
    /\ outdated' = (timeout.columns > columns \/ Len(timeout.memos) < Len(memoList))
    /\ UNCHANGED <<viewState, memoList, width, grown, prefix, columns, itemHeights, changes>>

Next ==
    \/ \E m \in Memo \ ToSet(memoList) :
           ListChanges(memoList \o <<m>>) \/ ListChanges(<<m>> \o memoList)
    \/ \E i \in DOMAIN memoList : ListChanges(RemoveAt(memoList, i))
    \/ \E w \in 1..3 : handleResize(w)
    \/ \E l \in {"LIST", "MASONRY"} : setLayout(l)
    \/ toggleSortOrder
    \/ \E m \in Memo : handleHeightChange(m)
    \/ debouncedRedistribute

Spec == Init /\ [][Next]_vars

\* MasonryColumn renders the memos of its indices that exist.
Rendered(c) ==
    IF c \in DOMAIN distribution
    THEN {k \in DOMAIN distribution[c] : distribution[c][k] <= Len(memoList)} ELSE {}

\* Every memo of the list is in one of the columns shown, once, even when a
\* timer dealt out a list or columns that are no longer there, unless those
\* were more columns or fewer memos (useMasonryLayout.ts:45).
NothingHidden ==
    LET places == UNION {{c} \X Rendered(c) : c \in 1..columns}
    IN  ~outdated => \A i \in DOMAIN memoList :
            \E p \in places : {q \in places : distribution[q[1]][q[2]] = i} = {p}
=============================================================================
