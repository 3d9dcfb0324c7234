--------------------------- MODULE EditorDialogs ---------------------------
(***************************************************************************)
(* The two dialogs of an editor's insert menu: a memo to link is searched  *)
(* for on the server, after a pause and without regard to the order of the *)
(* answers; a location is picked on a map, by coordinates or by the        *)
(* browser, and named by a geocoding service after another pause.  Both    *)
(* keep their state while they are closed.                                 *)
(***************************************************************************)
EXTENDS Naturals, Sequences, SequencesExt

CONSTANT MaxSteps       \* bound: what the user and the pauses do, in all

VARIABLES
    dialog,         \* the dialog open
    text,           \* useLinkMemo: searchText
    due,            \* the search waits for its pause
    requests,       \* searches sent
    found,          \* fetchedMemos
    fetching,       \* isFetching
    related,        \* the memos the editor's relations name
    muddled,        \* history: answers failed or came out of order
    position, placeholder, located,     \* useLocation's state
    debounced,      \* the position that has been still for a second
    named,          \* displayName as the effect last saw it
    known,          \* positions the geocoding service has answered for
    asked,          \* the browser was asked where it is
    typed,          \* history: the user wrote the placeholder
    location,       \* the editor's location
    steps           \* bound

vars == <<dialog, text, due, requests, found, fetching, related, muddled, position, placeholder,
          located, debounced, named, known, asked, typed, location, steps>>
linking == <<text, due, requests, found, fetching, related, muddled>>
locating == <<position, placeholder, located, debounced, named, known, asked, typed, location>>

Text == {"", "x"}
Memos == {"m1", "m2", "self"}       \* "self": the memo edited
Matches(t) == IF t = "" THEN Memos ELSE {"m2", "self"}

Position == {"here", "there"}
Name == [p \in Position |-> IF p = "here" THEN "name of here" ELSE "name of there"]
Nowhere == [at |-> "none", as |-> ""]

TypeOK ==
    /\ dialog \in {"none", "link", "place"}
    /\ text \in Text /\ due \in BOOLEAN /\ requests \in Seq(Text)
    /\ found \subseteq Memos /\ fetching \in BOOLEAN /\ related \subseteq Memos /\ muddled \in BOOLEAN
    /\ position \in Position \union {"none"} /\ debounced \in Position \union {"none"}
    /\ placeholder \in {"", "own words"} \union {Name[p] : p \in Position}
    /\ named \in {""} \union {Name[p] : p \in Position}
    /\ known \subseteq Position /\ located \in BOOLEAN /\ asked \in BOOLEAN /\ typed \in BOOLEAN
    /\ location.at \in Position \union {"none"}
    /\ steps \in 0..MaxSteps

Init ==
    /\ dialog = "none"
    /\ text = "" /\ due = TRUE /\ requests = <<>> /\ found = {} /\ fetching = TRUE
    /\ related = {} /\ muddled = FALSE
    /\ position = "none" /\ placeholder = "" /\ located = FALSE /\ debounced = "none"
    /\ named = "" /\ known = {} /\ asked = FALSE /\ typed = FALSE /\ location = Nowhere
    /\ steps = 0

Step == steps < MaxSteps /\ steps' = steps + 1

(***************************************************************************)
(* Linking a memo: LinkMemoDialog.tsx, useLinkMemo.ts, RelationList.tsx    *)
(***************************************************************************)

\* Opened or closed: the pause begins anew.
LinkDialog(open) ==
    /\ Step /\ dialog = IF open THEN "none" ELSE "link"
    /\ dialog' = IF open THEN "link" ELSE "none"
    /\ due' = TRUE
    /\ UNCHANGED <<text, requests, found, fetching, related, muddled>> /\ UNCHANGED locating

setSearchText(t) ==
    /\ Step /\ dialog = "link" /\ t # text
    /\ text' = t /\ due' = TRUE
    /\ UNCHANGED <<dialog, requests, found, fetching, related, muddled>> /\ UNCHANGED locating

\* The pause is over; a closed dialog searches for nothing (bound: two
\* searches under way).
Search ==
    /\ due /\ due' = FALSE
    /\ IF dialog = "link"
       THEN /\ Len(requests) < 2 /\ requests' = Append(requests, text)
            /\ fetching' = TRUE
            /\ muddled' = (muddled /\ requests # <<>>)
       ELSE UNCHANGED <<requests, fetching, muddled>>
    /\ UNCHANGED <<dialog, text, found, related, steps>> /\ UNCHANGED locating

\* An answer, of whichever search, is what is shown; a failure changes nothing.
Answered(i, ok) ==
    /\ IF ok THEN UNCHANGED steps ELSE Step
    /\ requests' = RemoveAt(requests, i) /\ fetching' = FALSE
    /\ found' = IF ok THEN Matches(requests[i]) ELSE found
    /\ muddled' = (muddled \/ ~ok \/ i > 1)
    /\ UNCHANGED <<dialog, text, due, related>> /\ UNCHANGED locating

\* addMemoRelation, of a memo listed that is neither this one nor related.
addMemoRelation(m) ==
    /\ Step /\ dialog = "link" /\ m \in found \ (related \union {"self"})
    /\ related' = related \union {m}
    /\ dialog' = "none" /\ due' = TRUE
    /\ UNCHANGED <<text, requests, found, fetching, muddled>> /\ UNCHANGED locating

handleDeleteRelation(m) ==
    /\ Step /\ dialog = "none" /\ m \in related
    /\ related' = related \ {m}
    /\ UNCHANGED <<dialog, text, due, requests, found, fetching, muddled>> /\ UNCHANGED locating

(***************************************************************************)
(* Picking a location: InsertMenu.tsx, LocationDialog.tsx, useLocation.ts  *)
(***************************************************************************)

\* The browser is asked unless the editor has a location or a position was
\* picked before.
handleLocationClick ==
    /\ Step /\ dialog = "none" /\ dialog' = "place"
    /\ asked' = (asked \/ (location = Nowhere /\ ~located))
    /\ UNCHANGED <<position, placeholder, located, debounced, named, known, typed, location>>
    /\ UNCHANGED linking

\* A click on the map; or the browser's answer, whenever it comes.
handlePositionChange(p) ==
    /\ Step
    /\ \/ dialog = "place" /\ UNCHANGED asked
       \/ asked /\ asked' = FALSE
    /\ position' = p /\ located' = TRUE
    /\ UNCHANGED <<dialog, placeholder, debounced, named, known, typed, location>> /\ UNCHANGED linking

\* A valid coordinate moves a position there is; another only shows.
updateCoordinate(p) ==
    /\ Step /\ dialog = "place" /\ position # "none"
    /\ position' = p
    /\ UNCHANGED <<dialog, placeholder, located, debounced, named, known, asked, typed, location>>
    /\ UNCHANGED linking

setPlaceholder ==
    /\ Step /\ dialog = "place" /\ position # "none"
    /\ placeholder' = "own words" /\ typed' = TRUE
    /\ UNCHANGED <<dialog, position, located, debounced, named, known, asked, location>>
    /\ UNCHANGED linking

\* A second without a move.
Debounce ==
    /\ debounced # position /\ debounced' = position
    /\ UNCHANGED <<dialog, position, placeholder, located, named, known, asked, typed, location, steps>>
    /\ UNCHANGED linking

\* useReverseGeocoding.ts: asked once for each position, kept for good.
Geocoded ==
    /\ debounced \in Position \ known
    /\ known' = known \union {debounced}
    /\ UNCHANGED <<dialog, position, placeholder, located, debounced, named, asked, typed, location, steps>>
    /\ UNCHANGED linking

displayName == IF debounced \in known THEN Name[debounced] ELSE ""

\* Mutant: a name does not take the place of another.
NamedIfEmpty ==
    /\ named # displayName /\ named' = displayName
    /\ placeholder' = IF placeholder = "" THEN displayName ELSE placeholder
    /\ UNCHANGED <<dialog, position, located, debounced, known, asked, typed, location, steps>>
    /\ UNCHANGED linking

\* The effect of a new name: it replaces the placeholder, the user's words too.
Named ==
    /\ named # displayName /\ named' = displayName
    /\ placeholder' = IF displayName = "" THEN placeholder ELSE displayName
    /\ typed' = (typed /\ displayName = "")
    /\ UNCHANGED <<dialog, position, located, debounced, known, asked, location, steps>>
    /\ UNCHANGED linking

handleLocationConfirm ==
    /\ Step /\ dialog = "place" /\ position # "none" /\ placeholder # ""
    /\ location' = [at |-> position, as |-> placeholder]
    /\ dialog' = "none"
    /\ UNCHANGED <<position, placeholder, located, debounced, named, known, asked, typed>>
    /\ UNCHANGED linking

handleLocationCancel ==
    /\ Step /\ dialog = "place" /\ dialog' = "none"
    /\ position' = "none" /\ placeholder' = "" /\ located' = FALSE /\ typed' = FALSE
    /\ UNCHANGED <<debounced, named, known, asked, location>> /\ UNCHANGED linking

\* Escape, or a click outside, keeps what was picked.
Dismiss ==
    /\ Step /\ dialog = "place" /\ dialog' = "none"
    /\ UNCHANGED locating /\ UNCHANGED linking

\* LocationDisplay.tsx
RemoveLocation ==
    /\ Step /\ dialog = "none" /\ location # Nowhere /\ location' = Nowhere
    /\ UNCHANGED <<dialog, position, placeholder, located, debounced, named, known, asked, typed>>
    /\ UNCHANGED linking

Next ==
    \/ \E open \in BOOLEAN : LinkDialog(open)
    \/ \E t \in Text : setSearchText(t)
    \/ Search
    \/ \E i \in DOMAIN requests, ok \in BOOLEAN : Answered(i, ok)
    \/ \E m \in Memos : addMemoRelation(m) \/ handleDeleteRelation(m)
    \/ \E p \in Position : handlePositionChange(p) \/ updateCoordinate(p)
    \/ handleLocationClick \/ setPlaceholder \/ Debounce \/ Geocoded \/ Named
    \/ handleLocationConfirm \/ handleLocationCancel \/ Dismiss \/ RemoveLocation

Spec == Init /\ [][Next]_vars

\* Once its pause is over and its searches are answered, the dialog lists what
\* matches the text in it, unless an answer failed or came out of order.
FoundIsShown ==
    dialog = "link" /\ ~due /\ requests = <<>> /\ ~muddled => found = Matches(text)

\* Once the pause is over and the name is known, a position does not carry the
\* name of another one that was picked before, unless the user wrote it.
PlaceNamed ==
    position = debounced /\ named = displayName /\ position \in known /\ ~typed
        => placeholder \in {"", Name[position]}

\* What the dialogs show settles to what was asked for last (useLinkMemo.ts:27,
\* InsertMenu.tsx:68).
DialogsSettle == FoundIsShown /\ PlaceNamed
=============================================================================
