------------------------------ MODULE PagedLists ------------------------------
(***************************************************************************)
(* The lists shown page by page: the attachments' page, with its own calls *)
(* and its button to delete what no memo uses, and the lists of memos, an  *)
(* infinite query.  A page's token is an offset into a list that others    *)
(* change.                                                                 *)
(***************************************************************************)
EXTENDS Naturals, Sequences, FiniteSets

CONSTANTS
    Item,           \* attachments or memos, by age
    Unused,         \* the attachments no memo uses
    PageSize,
    MaxEvents       \* bound: clicks, changes elsewhere and calls that fail

VARIABLES
    view,       \* the page shown
    items,      \* the server: what is stored
    list,       \* what is shown
    token,      \* the token of the next page, 0 if there is none
    more,       \* the next page being fetched
    whole,      \* the list being fetched anew: what it has, from where
    removal,    \* the deletion of unused attachments
    toDelete,   \* the calls that delete one each
    events,
    stale       \* history: the list shown may not be the one stored

vars == <<view, items, list, token, more, whole, removal, toDelete, events, stale>>

Lists == Seq(Item)
Offset == 0..10

TypeOK ==
    /\ view \in {"attachments", "memos"}
    /\ items \subseteq Item
    /\ list \in Lists /\ token \in Offset
    /\ more \in [pc : {"none", "sent", "read"}, from : Offset, got : Lists, next : Offset]
    /\ whole \in [pc : {"none", "sent", "read"}, left : 0..6, got : Lists, next : Offset]
    /\ removal \in {"none", "asked", "listing", "deleting", "refetching"}
    /\ toDelete \subseteq Item
    /\ events \in 0..MaxEvents /\ stale \in BOOLEAN

NoMore == [pc |-> "none", from |-> 0, got |-> <<>>, next |-> 0]
NoWhole == [pc |-> "none", left |-> 0, got |-> <<>>, next |-> 0]
Whole(pages) == [NoWhole EXCEPT !.pc = "sent", !.left = pages]

Init ==
    /\ view \in {"attachments", "memos"}
    /\ items = {i \in Item : i > 1}
    /\ list = <<>> /\ token = 0
    /\ more = NoMore /\ whole = Whole(1)
    /\ removal = "none" /\ toDelete = {}
    /\ events = 0 /\ stale = FALSE

Event == events < MaxEvents /\ events' = events + 1

\* The newest come first.
Stored == [n \in 1..Cardinality(items) |->
              CHOOSE i \in items : Cardinality({j \in items : j >= i}) = n]
Page(from) == SubSeq(Stored, from + 1, IF from + PageSize < Len(Stored) THEN from + PageSize
                                       ELSE Len(Stored))
\* ListAttachments gives a token when the page is full, ListMemos when there
\* is more.
Token(from) ==
    IF Len(Stored) > from + PageSize \/ (view = "attachments" /\ Len(Page(from)) = PageSize)
    THEN from + PageSize ELSE 0

\* Another page is asked for: by the button, which a list that is loading and
\* an open dialog hide; by scrolling or while the page is short, which gives up
\* a fetch of the whole list.
handleLoadMore ==
    /\ Event
    /\ token # 0 /\ more.pc = "none"
    /\ view = "attachments" => whole.pc = "none" /\ removal = "none" /\ list # <<>>
    /\ more' = [NoMore EXCEPT !.pc = "sent", !.from = token]
    /\ whole' = NoWhole
    /\ stale' = (stale \/ whole.pc # "none")
    /\ UNCHANGED <<view, items, list, token, removal, toDelete>>

MoreRead ==
    /\ more.pc = "sent"
    /\ more' = [more EXCEPT !.pc = "read", !.got = Page(more.from), !.next = Token(more.from)]
    /\ UNCHANGED <<view, items, list, token, whole, removal, toDelete, events, stale>>

MoreAnswered ==
    /\ more.pc = "read"
    /\ list' = list \o more.got /\ token' = more.next
    /\ more' = NoMore
    /\ UNCHANGED <<view, items, whole, removal, toDelete, events, stale>>

\* Mutant: a refetch of the attachments forgets the pages' token.
listOnly(q) == list' = q.got /\ UNCHANGED token

\* The whole list is there.
Replace(q) == list' = q.got /\ token' = q.next

WholeRead ==
    /\ whole.pc = "sent"
    /\ whole' = [pc |-> "read", left |-> whole.left - 1,
                 got |-> whole.got \o Page(whole.next), next |-> Token(whole.next)]
    /\ UNCHANGED <<view, items, list, token, more, removal, toDelete, events, stale>>

\* An infinite query fetches as many pages as it had, one after the other.
WholeAnswered ==
    /\ whole.pc = "read"
    /\ IF whole.left > 0 /\ whole.next # 0
       THEN whole' = [whole EXCEPT !.pc = "sent"] /\ UNCHANGED <<list, token, removal>>
       ELSE /\ Replace(whole) /\ whole' = NoWhole
            /\ removal' = IF removal = "refetching" THEN "none" ELSE removal
    /\ UNCHANGED <<view, items, more, toDelete, events, stale>>

\* A fetch fails; the list is as it was, a fetch of its pages given up.
FetchFails ==
    /\ Event
    /\ \/ more.pc # "none" /\ more' = NoMore /\ UNCHANGED <<whole, removal, stale>>
       \/ /\ whole.pc # "none" /\ whole' = NoWhole /\ stale' = TRUE
          /\ removal' = IF removal = "refetching" THEN "none" ELSE removal
          /\ UNCHANGED more
    /\ UNCHANGED <<view, items, list, token, toDelete>>

\* The memos' list is fetched anew: a mutation invalidated it, or the window
\* was focused.  That gives up a fetch of one more page.
Refetch ==
    /\ Event
    /\ view = "memos" /\ list # <<>>
    /\ whole' = Whole(Len(list) \div PageSize + (IF Len(list) % PageSize = 0 THEN 0 ELSE 1))
    /\ more' = NoMore /\ stale' = FALSE
    /\ UNCHANGED <<view, items, list, token, removal, toDelete>>

\* The button to delete the unused attachments, and its ConfirmDialog.
deleteUnusedAttachmentsDialog ==
    /\ Event
    /\ view = "attachments" /\ whole.pc = "none"
    /\ \/ removal = "none" /\ \E i \in DOMAIN list : list[i] \in Unused
          /\ removal' = "asked"
       \/ removal = "asked" /\ removal' \in {"none", "listing"}
    /\ UNCHANGED <<view, items, list, token, more, whole, toDelete, stale>>

\* They are listed, whatever page they are on, and deleted one call each.
handleDeleteUnusedAttachments ==
    /\ removal = "listing"
    /\ toDelete' = items \intersect Unused
    /\ removal' = "deleting"
    /\ UNCHANGED <<view, items, list, token, more, whole, events, stale>>

Deleted(i) ==
    /\ items' = items \ {i} /\ toDelete' = toDelete \ {i}
    /\ stale' = TRUE
    /\ UNCHANGED <<view, list, token, more, whole, removal, events>>

\* handleRefetch, in finally.  A page still being fetched will be appended.
handleRefetch ==
    /\ removal' = "refetching" /\ whole' = Whole(1)
    /\ stale' = (more.pc # "none")
    /\ UNCHANGED <<view, list, token, more>>

AllDeleted ==
    /\ removal = "deleting" /\ toDelete = {}
    /\ handleRefetch
    /\ UNCHANGED <<items, toDelete, events>>

\* One call fails; the others go on while the list is fetched.
DeleteFails ==
    /\ Event
    /\ \/ removal = "listing" /\ UNCHANGED toDelete
       \/ removal = "deleting" /\ \E i \in toDelete : toDelete' = toDelete \ {i}
    /\ handleRefetch
    /\ UNCHANGED items

\* Another client or tab adds or deletes something.
ChangedElsewhere(i) ==
    /\ Event
    /\ i \notin items => view = "memos" \/ \A j \in items : j < i
    /\ items' = IF i \in items THEN items \ {i} ELSE items \union {i}
    /\ toDelete' = toDelete \ {i}
    /\ stale' = TRUE
    /\ UNCHANGED <<view, list, token, more, whole, removal>>

Next ==
    \/ handleLoadMore \/ MoreRead \/ MoreAnswered
    \/ WholeRead \/ WholeAnswered \/ FetchFails \/ Refetch
    \/ deleteUnusedAttachmentsDialog \/ handleDeleteUnusedAttachments
    \/ AllDeleted \/ DeleteFails
    \/ \E i \in toDelete : Deleted(i)
    \/ \E i \in Item : ChangedElsewhere(i)

Spec == Init /\ [][Next]_vars

Settled == more.pc = "none" /\ whole.pc = "none" /\ toDelete = {} /\ removal \in {"none", "asked"}

\* Once nothing is under way a list is the first pages of what is stored, with
\* nothing twice or skipped, and its token leads to what follows, unless the
\* list was changed since it was last fetched whole, such a fetch was given up
\* for one more page, or a page asked for before it came after it
\* (Attachments.tsx, PagedMemoList.tsx).
PagesSettle ==
    Settled /\ ~stale =>
        /\ list = SubSeq(Stored, 1, Len(list))
        /\ Len(list) < Len(Stored) => token = Len(list)
        /\ token # 0 => token = Len(list)
=============================================================================
