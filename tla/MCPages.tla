------------------------------ MODULE MCPages ------------------------------
(***************************************************************************)
(* What else a tab shows, checked side by side: the administrators' forms, *)
(* the sections that list things, the account's forms, the filters in the  *)
(* URL, one memo in the query cache, the lists shown page by page and in   *)
(* columns, the explorer and its calendar, the inbox and a memo's tags.    *)
(* Each part keeps to its own state, and one of them moves in a behaviour. *)
(***************************************************************************)
EXTENDS InstanceForms, Sequences

CONSTANTS Item, MaxOps, MaxFails, AccountClicks, MaxMoves, CacheClicks, CacheFails,
          Unused, PageSize, MaxEvents, MaxChanges, MaxVisits, LastYear,
          Message, MaxAsked, MaxFetches, MaxTagLength, MaxText

\* A year is a number.
ASSUME CalendarAssumption == LastYear \in Nat
\* A page has something on it (Attachments.tsx, helpers/consts.ts).
ASSUME PagesAssumption == PageSize \in Nat \ {0}
\* A tag's length is bounded (remark-tag.ts, tag.go).
ASSUME TagsAssumption == MaxTagLength \in Nat

VARIABLES
    part,
    kind, stored, shown, form, template, op, list, ops, fails, mixed,
    account, user, profileForm, window, update, typed, locked, accountClicks, touched, elsewhere,
    url, locations, filters, queued, updated, syncedUrl, syncedStore, moves,
    memo, page, cache, fetch, calls, wanted, cacheClicks, cacheFails, muddled,
    view, items, paged, token, more, whole, removal, toDelete, events, stale,
    viewState, memoList, width, grown, prefix, columns, itemHeights, distribution, timeout,
    changes, outdated,
    path, profileUser, requests, users, stats, chosen, visits, failed, sent, taken,
    visibleMonth, isOpen, activityStats, weekStartDayOffset, navigated,
    status, fetched, reading, onPage, filter, memos, notices, asked, spent,
    text

Lists == INSTANCE ListForms
Account == INSTANCE AccountForms
    WITH form <- profileForm, call <- update, clicks <- accountClicks,
         MaxClicks <- AccountClicks
Filters == INSTANCE MemoFilters
Cache == INSTANCE MemoCache
    WITH server <- memo, clicks <- cacheClicks, fails <- cacheFails,
         MaxClicks <- CacheClicks, MaxFails <- CacheFails
Pages == INSTANCE PagedLists WITH list <- paged, Item <- 1..4
Masonry == INSTANCE MasonryLayout
Explorer == INSTANCE MemoExplorer WITH MaxFailed <- MaxFails
Calendar == INSTANCE ActivityCalendar
Notifications == INSTANCE Inbox WITH requests <- notices, MaxLost <- MaxFails
Tags == INSTANCE MemoTags

\* One administrator's tab; others change settings elsewhere.
MCAdmin == {"a"}

instance == vars
lists == <<kind, stored, shown, form, template, op, list, ops, fails, mixed>>
accounts == <<account, user, profileForm, window, update, typed, locked, accountClicks,
              touched, elsewhere>>
inUrl == <<url, locations, filters, queued, updated, syncedUrl, syncedStore, moves>>
cached == <<memo, page, cache, fetch, calls, wanted, cacheClicks, cacheFails, muddled>>
pages == <<view, items, paged, token, more, whole, removal, toDelete, events, stale>>
masonry == <<viewState, memoList, width, grown, prefix, columns, itemHeights, distribution,
             timeout, changes, outdated>>
explorer == <<path, profileUser, requests, users, stats, chosen, visits, failed, sent, taken>>
calendar == <<visibleMonth, isOpen, activityStats, weekStartDayOffset, navigated>>
inbox == <<status, fetched, reading, onPage, filter, memos, notices, asked, spent>>

PagesInit ==
    /\ part \in {"instance", "lists", "account", "filters", "cache", "pages", "masonry",
                 "explorer", "calendar", "inbox", "tags"}
    /\ Init /\ Lists!Init /\ Account!Init /\ Filters!Init /\ Cache!Init /\ Pages!Init
    /\ Masonry!Init /\ Explorer!Init /\ Calendar!Init /\ Notifications!Init /\ Tags!Init
    \* Only the part that moves starts in each of its initial states.
    /\ part # "filters" => url = [path |-> "home", filter |-> <<>>]
    /\ part # "cache" => page = "home"
    /\ part # "pages" => view = "memos"
    /\ part # "masonry" => columns = 1 /\ viewState.layout = "LIST" /\ ~viewState.orderByTimeAsc
                            /\ width = 1 /\ prefix = 0
    /\ part # "calendar" => weekStartDayOffset = 0 /\ \E d \in DOMAIN activityStats : activityStats[d] = 0

PagesNext ==
    \/ /\ part = "instance" /\ Next
       /\ UNCHANGED <<part, lists, accounts, inUrl, cached, pages,
                      masonry, explorer, calendar, inbox, text>>
    \/ /\ part = "lists" /\ Lists!Next
       /\ UNCHANGED <<part, instance, accounts, inUrl, cached, pages,
                      masonry, explorer, calendar, inbox, text>>
    \/ /\ part = "account" /\ Account!Next
       /\ UNCHANGED <<part, instance, lists, inUrl, cached, pages,
                      masonry, explorer, calendar, inbox, text>>
    \/ /\ part = "filters" /\ Filters!Next
       /\ UNCHANGED <<part, instance, lists, accounts, cached, pages,
                      masonry, explorer, calendar, inbox, text>>
    \/ /\ part = "cache" /\ Cache!Next
       /\ UNCHANGED <<part, instance, lists, accounts, inUrl, pages,
                      masonry, explorer, calendar, inbox, text>>
    \/ /\ part = "pages" /\ Pages!Next
       /\ UNCHANGED <<part, instance, lists, accounts, inUrl, cached,
                      masonry, explorer, calendar, inbox, text>>
    \/ /\ part = "masonry" /\ Masonry!Next
       /\ UNCHANGED <<part, instance, lists, accounts, inUrl, cached,
                      pages, explorer, calendar, inbox, text>>
    \/ /\ part = "explorer" /\ Explorer!Next
       /\ UNCHANGED <<part, instance, lists, accounts, inUrl, cached,
                      pages, masonry, calendar, inbox, text>>
    \/ /\ part = "calendar" /\ Calendar!Next
       /\ UNCHANGED <<part, instance, lists, accounts, inUrl, cached,
                      pages, masonry, explorer, inbox, text>>
    \/ /\ part = "inbox" /\ Notifications!Next
       /\ UNCHANGED <<part, instance, lists, accounts, inUrl, cached,
                      pages, masonry, explorer, calendar, text>>
    \/ /\ part = "tags" /\ Tags!Next
       /\ UNCHANGED <<part, instance, lists, accounts, inUrl, cached,
                      pages, masonry, explorer, calendar, inbox>>

PagesSpec ==
    PagesInit /\ [][PagesNext]_<<part, instance, lists, accounts, inUrl, cached, pages,
                                 masonry, explorer, calendar, inbox, text>>

\* Every part's state has its type (InstanceContext.tsx, MemoFilterContext.tsx,
\* query-client.ts and the sections and dialogs).
PartsTypeOK ==
    CASE part = "instance" -> TypeOK
      [] part = "lists" -> Lists!TypeOK
      [] part = "account" -> Account!TypeOK
      [] part = "filters" -> Filters!TypeOK
      [] part = "cache" -> Cache!TypeOK
      [] part = "pages" -> Pages!TypeOK
      [] part = "masonry" -> Masonry!TypeOK
      [] part = "explorer" -> Explorer!TypeOK
      [] part = "calendar" -> Calendar!TypeOK
      [] part = "inbox" -> Notifications!TypeOK
      [] part = "tags" -> Tags!TypeOK

\* ListForms: with nothing under way a list is what is stored
\* (AccessTokenSection.tsx, WebhookSection.tsx, SSOSection.tsx,
\* MemberSection.tsx, ShortcutsSection.tsx).  Inbox: what was asked of its
\* messages is done (MemoCommentMessage.tsx).
ListsSettle ==
    /\ part = "lists" => Lists!ListsSettle
    /\ part = "inbox" => Notifications!InboxSettles
\* AccountForms: an update changes only what was edited
\* (UpdateAccountDialog.tsx).
ElsewhereKept == part = "account" => Account!ElsewhereKept
\* MemoFilters: the URL and the filters come to agree (MemoFilterContext.tsx).
\* MemoExplorer, ActivityCalendar: the explorer counts the memos listed, and
\* its calendar has every day once (MainLayout.tsx, useCalendar.ts).
FiltersSettle ==
    /\ part = "filters" => Filters!FiltersSettle
    /\ part = "explorer" => Explorer!ExplorerFollows
    /\ part = "calendar" => Calendar!CalendarExact
\* MemoCache: with nothing under way a page shows the memo stored
\* (useMemoQueries.ts, MemoActionMenu/hooks.ts, TaskListItem.tsx).  PagedLists:
\* and the pages of a list are the first of what is stored (Attachments.tsx,
\* PagedMemoList.tsx).  MasonryLayout: and no memo of it is left out of the
\* columns (useMasonryLayout.ts).  MemoTags: and a tag shown of a memo is one
\* stored (remark-tag.ts).
MemosSettle ==
    /\ part = "cache" => Cache!MemoSettles
    /\ part = "pages" => Pages!PagesSettle
    /\ part = "masonry" => Masonry!NothingHidden
    /\ part = "tags" => Tags!LinksLead
=============================================================================
