----------------------------- MODULE EditorText -----------------------------
(***************************************************************************)
(* Typing in an editor's textarea.  Three handlers hear a key before the   *)
(* browser does: the popup of tags, the popup of slash commands and the    *)
(* completion of lists.  They know the text through the DOM and their own  *)
(* state through refs of the last render, and what they change themselves  *)
(* is not an input event to the popups.                                    *)
(***************************************************************************)
EXTENDS Naturals, Sequences, SequencesExt

CONSTANT MaxKeys        \* bound: keys and other events

VARIABLES
    lines,      \* the text up to the line the cursor is in
    at,         \* the words of that line before the cursor
    joined,     \* no space between the cursor and the word before it
    popup,      \* useSuggestions' position and selectedIndex
    tags,       \* the user's tags, the most used first
    composing,  \* an input method is composing
    justComposed,   \* it ended less than 100 ms ago
    keys        \* bound

vars == <<lines, at, joined, popup, tags, composing, justComposed, keys>>

Marks == {"none", "bullet", "task", "number"}
Commands == <<"todo", "code", "link", "table">>
Tags == <<"t1", "t2", "u">>
Trigger == {"tag", "command"}       \* "#" and "/"
Query == {"", "t"}

\* A word: plain, what was completed, or a trigger with the query after it.
Plain == [is |-> "plain", q |-> ""]
Done(item) == [is |-> "done", q |-> item]
Word == {Plain} \union [is : Trigger, q : Query]
        \union [is : {"done"}, q : ToSet(Commands) \union ToSet(Tags) \union {"undefined"}]
Line == [mark : Marks, no : Nat, words : Seq(Word)]
Hidden == [is |-> "none", selected |-> 1]

TypeOK ==
    /\ lines \in Seq(Line) /\ lines # <<>>
    /\ at \in 0..Len(Last(lines).words) /\ joined \in BOOLEAN
    /\ popup \in [is : Trigger \union {"none"}, selected : 1..4]
    /\ composing \in BOOLEAN /\ justComposed \in BOOLEAN
    /\ keys \in 0..MaxKeys

Blank == [mark |-> "none", no |-> 0, words |-> <<>>]

Init ==
    /\ lines = <<Blank>> /\ at = 0 /\ joined = FALSE
    /\ popup = Hidden /\ tags = Tags
    /\ composing = FALSE /\ justComposed = FALSE
    /\ keys = 0

Key == keys < MaxKeys /\ keys' = keys + 1

current == Last(lines)
Replaced(line) == Append(Front(lines), line)

\* getCurrentWord: what is joined to the cursor.
word == IF joined THEN current.words[at] ELSE Plain

\* The items of a sequence that are in a set.
filtered(s, kept) ==
    LET upTo[i \in 0..Len(s)] ==
            IF i = 0 THEN <<>>
            ELSE IF s[i] \in kept THEN Append(upTo[i - 1], s[i]) ELSE upTo[i - 1]
    IN  upTo[Len(s)]

\* TagSuggestions.tsx filters by what a tag contains, SlashCommands.tsx by how
\* a command's name begins.
suggestions ==
    CASE popup.is = "tag" /\ word.is = "tag" ->
            IF word.q = "" THEN tags ELSE filtered(tags, {"t1", "t2"})
      [] popup.is = "command" /\ word.is = "command" ->
            IF word.q = "" THEN Commands ELSE filtered(Commands, {"todo", "table"})
      [] OTHER -> <<>>
isVisible == suggestions # <<>>

\* handleInput, of both popups at once.
Noticed(w) == IF w.is \in Trigger THEN [is |-> w.is, selected |-> 1] ELSE Hidden

(***************************************************************************)
(* Typing                                                                  *)
(***************************************************************************)

\* A word, or the mark that makes a line an item.
TypeWord(w) ==
    /\ Key /\ ~joined
    /\ lines' = Replaced([current EXCEPT !.words = InsertAt(@, at + 1, w)])
    /\ at' = at + 1 /\ joined' = TRUE
    /\ popup' = Noticed(w)
    /\ UNCHANGED <<tags, composing, justComposed>>

TypeMark(mark) ==
    /\ Key /\ ~joined /\ current = Blank
    /\ lines' = Replaced([Blank EXCEPT !.mark = mark, !.no = IF mark = "number" THEN 1 ELSE 0])
    /\ popup' = Hidden
    /\ UNCHANGED <<at, joined, tags, composing, justComposed>>

\* A letter after a trigger, or a space.
TypeOn ==
    /\ Key /\ joined
    /\ \/ /\ word.is \in Trigger /\ word.q = ""
          /\ lines' = Replaced([current EXCEPT !.words[at].q = "t"])
          /\ popup' = Noticed(word) /\ UNCHANGED joined
       \/ joined' = FALSE /\ popup' = Hidden /\ UNCHANGED lines
    /\ UNCHANGED <<at, tags, composing, justComposed>>

\* A click, or an arrow key to the left or right, hides the popup.
MoveCursor(n) ==
    /\ Key /\ n \in 0..Len(current.words)
    /\ at' = n /\ joined' = FALSE /\ popup' = Hidden
    /\ UNCHANGED <<lines, tags, composing, justComposed>>

Escape ==
    /\ Key /\ isVisible /\ popup' = Hidden
    /\ UNCHANGED <<lines, at, joined, tags, composing, justComposed>>

\* Mutant: the selection runs past the end.
ArrowPastEnd(d) ==
    /\ Key /\ isVisible
    /\ popup' = [popup EXCEPT !.selected = @ + d]
    /\ UNCHANGED <<lines, at, joined, tags, composing, justComposed>>

\* handleNavigation
Arrow(d) ==
    /\ Key /\ isVisible
    /\ popup' = [popup EXCEPT !.selected = ((@ - 1 + d) % Len(suggestions)) + 1]
    /\ UNCHANGED <<lines, at, joined, tags, composing, justComposed>>

\* The input method begins and ends; 100 ms pass.
Compose ==
    /\ Key
    /\ \/ ~composing /\ composing' = TRUE /\ UNCHANGED justComposed
       \/ composing /\ composing' = FALSE /\ justComposed' = TRUE
    /\ UNCHANGED <<lines, at, joined, popup, tags>>
Later ==
    /\ justComposed /\ justComposed' = FALSE
    /\ UNCHANGED <<lines, at, joined, popup, tags, composing, keys>>

\* The counts of the tags are fetched again, and one is gone.
TagsFetched ==
    /\ Key /\ Len(tags) = 3 /\ tags' = Tail(tags)
    /\ UNCHANGED <<lines, at, joined, popup, composing, justComposed>>

(***************************************************************************)
(* Enter and Tab                                                           *)
(***************************************************************************)

\* handleAutocomplete: the word is taken out and the item put in its place,
\* "undefined" if there is none; removeText and insertText.
handleAutocomplete(i) ==
    LET item == IF i \in DOMAIN suggestions THEN suggestions[i] ELSE "undefined"
        others == RemoveAt(current.words, at)
    IN  /\ IF popup.is = "command" /\ item = "todo" /\ at = 1 /\ current.mark = "none"
           THEN /\ lines' = Replaced([current EXCEPT !.mark = "task", !.words = others])
                /\ at' = 0
           ELSE /\ lines' = Replaced([current EXCEPT !.words[at] = Done(item)])
                /\ UNCHANGED at
        /\ joined' = FALSE
        /\ popup' = Hidden

\* SuggestionsPopup.tsx: the mouse is pressed on an item.
Pick(i) ==
    /\ Key /\ i \in DOMAIN suggestions
    /\ handleAutocomplete(i)
    /\ UNCHANGED <<tags, composing, justComposed>>

Split(mark, no) ==
    /\ lines' = Append(Replaced([current EXCEPT !.words = SubSeq(@, 1, at)]),
                       [mark |-> mark, no |-> no,
                        words |-> SubSeq(current.words, at + 1, Len(current.words))])
    /\ at' = 0 /\ joined' = FALSE

\* generateListContinuation
Continued == Split(current.mark, IF current.mark = "number" THEN current.no + 1 ELSE 0)

\* Mutant: the whole line is looked at, not what is before the cursor.
CompleteLine ==
    IF current.words = <<>> THEN /\ lines' = Replaced([current EXCEPT !.mark = "none", !.no = 0])
                                 /\ UNCHANGED <<at, joined>>
    ELSE IF at = 0 THEN lines' = Replaced(Blank) /\ at' = 0 /\ joined' = FALSE
    ELSE Continued

\* useListCompletion.ts: an item with nothing before the cursor loses its mark,
\* another is continued.
CompleteList ==
    IF at = 0 THEN /\ lines' = Replaced([current EXCEPT !.mark = "none", !.no = 0])
                   /\ UNCHANGED <<at, joined>>
    ELSE Continued

\* A popup's handler was added first and stops the others; what the list
\* completion changes, the popups do not hear of.
Enter ==
    /\ Key
    /\ IF isVisible THEN handleAutocomplete(popup.selected) /\ UNCHANGED composing
       ELSE IF composing THEN UNCHANGED <<lines, at, joined, popup, composing>>
       ELSE IF current.mark # "none" /\ ~justComposed
       THEN CompleteList /\ UNCHANGED <<popup, composing>>
       ELSE Split("none", 0) /\ popup' = Hidden /\ UNCHANGED composing
    /\ UNCHANGED <<tags, justComposed>>

Tab ==
    /\ Key /\ isVisible
    /\ handleAutocomplete(popup.selected)
    /\ UNCHANGED <<tags, composing, justComposed>>

Next ==
    \/ \E w \in {Plain} \union [is : Trigger, q : {""}] : TypeWord(w)
    \/ \E mark \in Marks \ {"none"} : TypeMark(mark)
    \/ TypeOn \/ Escape \/ Compose \/ Later \/ TagsFetched \/ Enter \/ Tab
    \/ \E n \in 0..2 : MoveCursor(n)
    \/ \E d \in {1, Len(suggestions) - 1} : Arrow(d)
    \/ \E i \in 1..4 : Pick(i)

Spec == Init /\ [][Next]_vars

Words(ls) == FlattenSeq([i \in DOMAIN ls |-> ls[i].words])
Settled(ls) == filtered(Words(ls), {Plain})

\* Enter completes what is highlighted, if anything is, and nothing else; or
\* it ends or continues a list, or breaks the line.  No word that was typed is
\* lost or moved, whatever handlers hear the key (useSuggestions.ts:111,
\* useListCompletion.ts:63).
EnterDoesOneThing ==
    [][Enter =>
        /\ Settled(lines') = Settled(lines)
        /\ isVisible => Len(lines') = Len(lines)
        /\ ~isVisible => Words(lines') = Words(lines)
        /\ ~isVisible /\ composing => lines' = lines
        /\ Len(lines') = Len(lines) + 1 => \/ Last(lines').mark = current.mark
                                           \/ justComposed]_vars
=============================================================================
