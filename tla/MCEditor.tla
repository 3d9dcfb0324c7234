------------------------------ MODULE MCEditor ------------------------------
(***************************************************************************)
(* What a tab's memo editors are made of, checked side by side: each part  *)
(* keeps to its own state, and one of them moves in a behaviour.           *)
(***************************************************************************)
EXTENDS MemoEditor

CONSTANTS MaxSteps, MaxKeys, MaxEvents, MaxFaults

\* The bounds are numbers.
ASSUME PartsAssumption ==
    MaxSteps \in Nat /\ MaxKeys \in Nat /\ MaxEvents \in Nat /\ MaxFaults \in Nat

VARIABLES
    part,
    dialog, text, due, requests, found, fetching, related, muddled, position, placeholder,
    located, debounced, named, known, asked, typed, location, steps,
    lines, at, joined, popup, tags, composing, justComposed, keys,
    saved, local, setting, applied, dark, drawn, listens, saves, fetches, events, failures, mixed

Dialogs == INSTANCE EditorDialogs
Text == INSTANCE EditorText
Preferences == INSTANCE ClientPreferences

\* What the user does, the writes of others and the calls that fail.
MCBudgets == {[clicks |-> 5, others |-> 0, faults |-> 0],
              [clicks |-> 3, others |-> 1, faults |-> 0],
              [clicks |-> 4, others |-> 0, faults |-> 1]}

dialogs == <<dialog, text, due, requests, found, fetching, related, muddled, position,
             placeholder, located, debounced, named, known, asked, typed, location, steps>>
typing == <<lines, at, joined, popup, tags, composing, justComposed, keys>>
preferences == <<saved, local, setting, applied, dark, drawn, listens, saves, fetches, events,
                 failures, mixed>>
parts == <<part, vars, dialogs, typing, preferences>>

PartsInit ==
    /\ part \in {"editors", "dialogs", "text", "preferences"}
    /\ Init /\ (part # "editors" => budget.clicks = 5)
    /\ Dialogs!Init /\ Text!Init /\ Preferences!Init

PartsNext ==
    \/ /\ part = "editors" /\ Next
       /\ UNCHANGED <<part, dialogs, typing, preferences>>
    \/ /\ part = "dialogs" /\ Dialogs!Next
       /\ UNCHANGED <<part, vars, typing, preferences>>
    \/ /\ part = "text" /\ Text!Next
       /\ UNCHANGED <<part, vars, dialogs, preferences>>
    \/ /\ part = "preferences" /\ Preferences!Next
       /\ UNCHANGED <<part, vars, dialogs, typing>>

PartsSpec == PartsInit /\ [][PartsNext]_parts

\* Every part's state has its type (MemoEditor/state/types.ts, useLocation.ts,
\* useSuggestions.ts, AuthContext.tsx).
PartsTypeOK ==
    CASE part = "editors" -> TypeOK
      [] part = "dialogs" -> Dialogs!TypeOK
      [] part = "text" -> Text!TypeOK
      [] part = "preferences" -> Preferences!TypeOK

\* EditorDialogs: results and place names settle to what was asked for last
\* (useLinkMemo.ts, InsertMenu.tsx).
DialogsSettle == part = "dialogs" => Dialogs!DialogsSettle
\* EditorText: one handler answers Enter (useSuggestions.ts,
\* useListCompletion.ts).
EnterDoesOneThing == Text!EnterDoesOneThing
\* ClientPreferences: a tab shows what is saved (UserMenu.tsx, useUserTheme.ts).
SavedIsShown == part = "preferences" => Preferences!SavedIsShown
\* ClientPreferences: a saved "system" theme follows the system (useUserTheme.ts).
FollowsSystem == part = "preferences" => Preferences!FollowsSystem
=============================================================================
