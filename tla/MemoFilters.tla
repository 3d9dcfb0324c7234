------------------------------ MODULE MemoFilters ------------------------------
(***************************************************************************)
(* MemoFilterContext: the filters of the memo lists are a state of their   *)
(* own and a parameter of the URL, and two effects of each render copy     *)
(* each over to the other.  A render brings the router's last location, or *)
(* an earlier one, and the filters set meanwhile, or not yet.  Filters are *)
(* written as in the URL: a sequence, empty if there is no parameter.      *)
(***************************************************************************)
EXTENDS Naturals, Sequences

CONSTANTS
    MaxMoves        \* bound: what the user does

VARIABLES
    url,            \* the location rendered
    locations,      \* the router's locations since then
    filters,        \* the filters rendered
    queued,         \* the filters as set since then
    updated,        \* they were set since then
    syncedUrl, syncedStore,     \* the refs lastSyncedUrlRef, lastSyncedStoreRef
    moves           \* what the user did

vars == <<url, locations, filters, queued, updated, syncedUrl, syncedStore, moves>>

Tags == {"#a", "#b"}
Filter == Tags \union {"word", "date"}
NoRepeats(s) == \A i, j \in DOMAIN s : s[i] = s[j] => i = j
Filters == {s \in UNION {[1..n -> Filter] : n \in 0..3} : NoRepeats(s)}

\* Pages with a list, and the page of a memo.
Path == {"home", "explore", "memo"}
Location == [path : Path, filter : Filters]

TypeOK ==
    /\ url \in Location
    /\ \A i \in DOMAIN locations : locations[i] \in Location
    /\ {filters, queued, syncedUrl, syncedStore} \subseteq Filters
    /\ updated \in BOOLEAN
    /\ moves \in 0..MaxMoves

(***************************************************************************)
(* A render                                                                *)
(***************************************************************************)

\* What the effects read and write.
Tab == [filters |-> filters, queued |-> queued, updated |-> updated,
        syncedUrl |-> syncedUrl, syncedStore |-> syncedStore, locations |-> locations]

Set(tab, f) == [tab EXCEPT !.queued = f, !.updated = TRUE]

\* RootLayout.tsx: another page without filters clears them.
clearFilters(tab, from, to) ==
    IF to.path # from.path /\ to.filter = <<>> THEN Set(tab, <<>>) ELSE tab

\* Mutant: what the state was synced with is left as it was.
storeForgotten(tab, to) ==
    IF to.filter = tab.syncedUrl THEN tab
    ELSE [Set(tab, to.filter) EXCEPT !.syncedUrl = to.filter]

\* The URL's filters become the state.
syncFromUrl(tab, to) ==
    IF to.filter = tab.syncedUrl THEN tab
    ELSE [Set(tab, to.filter) EXCEPT !.syncedUrl = to.filter, !.syncedStore = to.filter]

\* The state's filters become the URL's, in place of its own.
syncToUrl(tab, to) ==
    IF tab.filters \in {tab.syncedStore, tab.syncedUrl} THEN tab
    ELSE [tab EXCEPT !.syncedStore = tab.filters, !.syncedUrl = tab.filters,
                     !.locations = Append(@, [to EXCEPT !.filter = tab.filters])]

\* The effects, the layout's before the provider's; each runs when what it
\* depends on changed: the page, the URL's filters, or those and the state's.
Effects(tab, from, to, taken) ==
    LET searched == to.filter # from.filter
        cleared == clearFilters(tab, from, to)
        synced == IF searched THEN syncFromUrl(cleared, to) ELSE cleared
        here == IF tab.locations = <<>> THEN to ELSE tab.locations[Len(tab.locations)]
    IN  IF searched \/ taken THEN syncToUrl(synced, here) ELSE synced

Become(tab, to) ==
    /\ url' = to
    /\ locations' = tab.locations
    /\ filters' = tab.filters
    /\ queued' = tab.queued
    /\ updated' = tab.updated
    /\ syncedUrl' = tab.syncedUrl
    /\ syncedStore' = tab.syncedStore

\* A render takes the filters set, some of the locations, or both.
Render ==
    \E n \in 0..Len(locations), taken \in {TRUE, FALSE} :
        /\ taken => updated
        /\ n > 0 \/ taken
        /\ LET to == IF n = 0 THEN url ELSE locations[n]
               rest == [Tab EXCEPT !.locations = SubSeq(@, n + 1, Len(@))]
               tab == IF taken THEN [rest EXCEPT !.filters = queued, !.updated = FALSE]
                      ELSE rest
           IN  Become(Effects(tab, url, to, taken), to)
        /\ UNCHANGED moves

\* The provider mounts with the URL's filters, and the effects run.
Init ==
    /\ url \in [path : Path, filter : {<<>>, <<"#a">>}]
    /\ locations = <<>>
    /\ filters = url.filter
    /\ queued = filters
    /\ updated = TRUE
    /\ syncedUrl = filters /\ syncedStore = filters
    /\ moves = 0

(***************************************************************************)
(* What the user does                                                      *)
(***************************************************************************)

Move == moves < MaxMoves /\ moves' = moves + 1

\* A link, the browser's buttons, an address (bound: once all is rendered).
Navigate(to) ==
    /\ Move
    /\ locations = <<>> /\ ~updated
    /\ to # url
    /\ locations' = <<to>>
    /\ UNCHANGED <<url, filters, queued, updated, syncedUrl, syncedStore>>

\* A day of the calendar: the home page with that filter alone.
navigateToDateFilter == Navigate([path |-> "home", filter |-> <<"date">>])

setFilters(f) ==
    /\ Move
    /\ queued' = f
    /\ updated' = TRUE
    /\ UNCHANGED <<url, locations, filters, syncedUrl, syncedStore>>

Without(s, S) == SelectSeq(s, LAMBDA f : f \notin S)

\* Mutant: a filter that is there is added again.
appendFilter(s, f) == Append(s, f)

\* A filter is added unless it is there.
addFilter(s, f) == IF \E i \in DOMAIN s : s[i] = f THEN s ELSE Append(s, f)

\* TagsSection.tsx and, when it shows a tree, TagTree.tsx: the tag's filter is
\* removed or, alone of the tags, added.
TagToggled(t) ==
    IF \E i \in DOMAIN filters : filters[i] = t
    THEN Without(queued, {t})
    ELSE addFilter(Without(queued, Tags), t)

\* A tag of a list or of the explorer.
handleTagClick(t) ==
    /\ url.path # "memo"
    /\ setFilters(TagToggled(t))

\* A tag of a memo's own page: the list it was opened from, with that filter.
openTag(t) ==
    /\ url.path = "memo"
    /\ \E p \in {"home", "explore"} : Navigate([path |-> p, filter |-> <<t>>])

\* SearchBar.tsx adds a filter for a word.
search ==
    /\ url.path # "memo"
    /\ setFilters(addFilter(queued, "word"))

\* MemoFilters.tsx removes one shown.
handleRemoveFilter(f) ==
    /\ \E i \in DOMAIN filters : filters[i] = f
    /\ setFilters(Without(queued, {f}))

Next ==
    \/ Render
    \/ \E p \in Path, f \in {<<>>, <<"#a">>} : Navigate([path |-> p, filter |-> f])
    \/ navigateToDateFilter
    \/ \E t \in Tags : handleTagClick(t) \/ openTag(t)
    \/ search
    \/ \E f \in Filter : handleRemoveFilter(f)

Spec == Init /\ [][Next]_vars

\* Once everything is rendered, the filters shown are the URL's, so a reload or
\* a shared link shows the same list (MemoFilterContext.tsx: the two effects
\* write each other's source, and skip what they last wrote).
FiltersSettle == locations = <<>> /\ ~updated => filters = url.filter
=============================================================================
