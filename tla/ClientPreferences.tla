-------------------------- MODULE ClientPreferences --------------------------
(***************************************************************************)
(* The theme and the locale of a tab: chosen in the user menu, the         *)
(* preferences section or, signed out, the footer of the sign-in pages;    *)
(* kept in localStorage, which tabs share, and in the user's general       *)
(* setting, which AuthContext has a copy of; and applied by the hooks      *)
(* useUserTheme and useUserLocale whenever that copy changes.              *)
(***************************************************************************)
EXTENDS Naturals, Sequences, SequencesExt

CONSTANTS
    MaxEvents,      \* bound: choices, fetches, page loads and what happens around
    MaxFaults       \* bound: calls that fail

VARIABLES
    saved,      \* the server's general setting
    local,      \* localStorage
    setting,    \* AuthContext's copy of it
    applied,    \* what the document was last given
    dark,       \* the system prefers a dark scheme
    listens,    \* useUserTheme listens for the system's scheme
    drawn,      \* what the system preferred when the theme was last loaded
    saves,      \* the mutations under way, in order
    fetches,    \* the fetches of the settings under way, in order
    events,     \* bound
    failures,     \* calls that failed
    mixed       \* history: calls overlapped, or another client saved

vars == <<saved, local, setting, applied, dark, drawn, listens, saves, fetches, events,
          failures, mixed>>

\* "": not set, or not a theme or locale the client knows.
Kind == {"theme", "locale"}
Choice == [theme |-> {"system", "paper"}, locale |-> {"en", "fa"}]
Prefs == [theme : Choice.theme \union {""}, locale : Choice.locale \union {""}]
Nobody == [theme |-> "none", locale |-> "none"]

\* The browser's language, and the system's theme.
Fallback == [theme |-> "system", locale |-> "en"]

Save == [kind : Kind, val : Choice.theme \union Choice.locale, at : {"menu", "section"},
         latest : BOOLEAN, pc : {"sent", "applied"}]
Fetch == [pc : {"sent", "read"}, val : Prefs]

TypeOK ==
    /\ saved \in Prefs /\ local \in Prefs
    /\ setting \in Prefs \union {Nobody}
    /\ applied \in Prefs
    /\ dark \in BOOLEAN /\ drawn \in BOOLEAN /\ listens \in BOOLEAN
    /\ saves \in Seq(Save)
    /\ fetches \in Seq(Fetch)
    /\ events \in 0..MaxEvents
    /\ failures \in 0..MaxFaults
    /\ mixed \in BOOLEAN

\* A first visit, after applyThemeEarly and applyLocaleEarly.
Init ==
    /\ saved = [theme |-> "", locale |-> ""]
    /\ local = Fallback /\ applied = Fallback
    /\ setting = Nobody
    /\ dark = FALSE /\ drawn = FALSE /\ listens = TRUE
    /\ saves = <<>> /\ fetches = <<>>
    /\ events = 0 /\ failures = 0
    /\ mixed = FALSE

Event == events < MaxEvents /\ events' = events + 1
Fault == failures < MaxFaults /\ failures' = failures + 1
Quiet == saves = <<>> /\ fetches = <<>>

\* getThemeWithFallback and getLocaleWithFallback
WithFallback(k, v) ==
    IF v # "" THEN v ELSE IF local[k] # "" THEN local[k] ELSE Fallback[k]

\* loadTheme and loadLocale: the document and localStorage; the theme "system"
\* is resolved now.
Load(k, v) ==
    /\ applied' = [applied EXCEPT ![k] = v]
    /\ local' = [local EXCEPT ![k] = v]
    /\ drawn' = IF k = "theme" THEN dark ELSE drawn

\* Mutant: the hooks apply the copy they meet first, and no later one.
FirstEffects(new) ==
    IF setting = Nobody
    THEN /\ applied' = [k \in Kind |-> WithFallback(k, new[k])]
         /\ local' = applied' /\ drawn' = dark
         /\ listens' = (applied'.theme = "system")
    ELSE UNCHANGED <<applied, local, drawn, listens>>

\* The effects of useUserTheme and useUserLocale when the copy becomes `new':
\* what changed is applied, what did not is left as it is.  A listener is set
\* up for the system's scheme if the theme is "system" then.
Effects(new) ==
    LET changed == {k \in Kind : new[k] # setting[k]}
    IN  /\ applied' = [k \in Kind |-> IF k \in changed THEN WithFallback(k, new[k]) ELSE applied[k]]
        /\ local' = [k \in Kind |-> IF k \in changed THEN applied'[k] ELSE local[k]]
        /\ drawn' = IF "theme" \in changed THEN dark ELSE drawn
        /\ listens' = IF "theme" \in changed THEN applied'.theme = "system" ELSE listens

(***************************************************************************)
(* Choosing                                                                *)
(***************************************************************************)

\* A new call of mutate takes the callback of the one before it at its place.
Superseded(at) ==
    [i \in DOMAIN saves |-> IF saves[i].at = at THEN [saves[i] EXCEPT !.latest = FALSE]
                            ELSE saves[i]]

\* UserMenu.tsx and PreferencesSection.tsx, through ThemeSelect and
\* LocaleSelect: applied at once, then saved with a mask of one field.
Choose(k, v, at) ==
    /\ setting # Nobody /\ Event
    /\ Load(k, v)
    /\ saves' = Append(Superseded(at), [kind |-> k, val |-> v, at |-> at,
                                        latest |-> TRUE, pc |-> "sent"])
    /\ mixed' = (mixed \/ ~Quiet)
    /\ UNCHANGED <<saved, setting, dark, listens, fetches, failures>>

\* AuthFooter.tsx, signed out: nothing is saved.
ChooseSignedOut(k, v) ==
    /\ setting = Nobody /\ Event
    /\ Load(k, v)
    /\ UNCHANGED <<saved, setting, dark, listens, saves, fetches, failures, mixed>>

\* The preferences section unmounts, and its mutation's callback with it.
LeavePreferences ==
    /\ \E i \in DOMAIN saves : saves[i].at = "section" /\ saves[i].latest
    /\ saves' = Superseded("section")
    /\ mixed' = TRUE
    /\ UNCHANGED <<saved, local, setting, applied, dark, drawn, listens, fetches, events, failures>>

SaveApplied(i) ==
    /\ saves[i].pc = "sent"
    /\ saved' = [saved EXCEPT ![saves[i].kind] = saves[i].val]
    /\ saves' = [saves EXCEPT ![i].pc = "applied"]
    /\ UNCHANGED <<local, setting, applied, dark, drawn, listens, fetches, events, failures, mixed>>

Refetched == Append(fetches, [pc |-> "sent", val |-> [k \in Kind |-> ""]])

\* The answer, with the callback of the latest call only.
SaveAnswered(i) ==
    /\ saves[i].pc = "applied"
    /\ saves' = RemoveAt(saves, i)
    /\ fetches' = IF saves[i].latest THEN Refetched ELSE fetches
    /\ UNCHANGED <<saved, local, setting, applied, dark, drawn, listens, events, failures, mixed>>

\* It fails for good: what was applied stays applied.
SaveFails(i) ==
    /\ Fault
    /\ saves' = RemoveAt(saves, i)
    /\ UNCHANGED <<saved, local, setting, applied, dark, drawn, listens, fetches, events, mixed>>

(***************************************************************************)
(* Fetching                                                                *)
(***************************************************************************)

\* refetchSettings, as ShortcutsSection and its dialog call it.
refetchSettings ==
    /\ setting # Nobody /\ Event
    /\ fetches' = Refetched
    /\ mixed' = (mixed \/ ~Quiet)
    /\ UNCHANGED <<saved, local, setting, applied, dark, drawn, listens, saves, failures>>

FetchRead(i) ==
    /\ fetches[i].pc = "sent"
    /\ fetches' = [fetches EXCEPT ![i] = [pc |-> "read", val |-> saved]]
    /\ UNCHANGED <<saved, local, setting, applied, dark, drawn, listens, saves, events, failures, mixed>>

FetchAnswered(i) ==
    /\ fetches[i].pc = "read"
    /\ fetches' = RemoveAt(fetches, i)
    /\ setting' = fetches[i].val
    /\ Effects(fetches[i].val)
    /\ UNCHANGED <<saved, dark, saves, events, failures, mixed>>

FetchFails(i) ==
    /\ Fault
    /\ fetches' = RemoveAt(fetches, i)
    /\ UNCHANGED <<saved, local, setting, applied, dark, drawn, listens, saves, events, mixed>>

(***************************************************************************)
(* Around it                                                               *)
(***************************************************************************)

\* AuthContext has initialized, or somebody signed in.
SignIn ==
    /\ setting = Nobody
    /\ setting' = saved
    /\ Effects(saved)
    /\ UNCHANGED <<saved, dark, saves, fetches, events, failures, mixed>>

\* A page load, signed in or out (bound: no save is on its way): localStorage
\* is applied first.
Reload ==
    /\ Event /\ \A i \in DOMAIN saves : saves[i].pc # "sent"
    /\ setting' = Nobody
    /\ applied' = [k \in Kind |-> WithFallback(k, local[k])]
    /\ local' = applied' /\ drawn' = dark
    /\ listens' = (applied'.theme = "system")
    /\ saves' = <<>> /\ fetches' = <<>>
    /\ mixed' = FALSE
    /\ UNCHANGED <<saved, dark, failures>>

\* Mutant: the listener is not told to load the theme again.
SystemIgnored ==
    /\ Event
    /\ dark' = ~dark
    /\ UNCHANGED <<saved, local, setting, applied, drawn, listens, saves, fetches, failures, mixed>>

\* The listener loads "system", whatever was chosen since it was set up.
SystemChanges ==
    /\ Event
    /\ dark' = ~dark
    /\ IF listens
       THEN /\ applied' = [applied EXCEPT !.theme = "system"]
            /\ local' = [local EXCEPT !.theme = "system"]
            /\ drawn' = ~dark
       ELSE UNCHANGED <<applied, local, drawn>>
    /\ UNCHANGED <<saved, setting, listens, saves, fetches, failures, mixed>>

\* Another tab of the browser, or another browser of the user.
ChosenElsewhere(k, v) ==
    /\ Event
    /\ \/ local' = [local EXCEPT ![k] = v] /\ UNCHANGED <<saved, mixed>>
       \/ saved' = [saved EXCEPT ![k] = v] /\ mixed' = TRUE /\ UNCHANGED local
    /\ UNCHANGED <<setting, applied, dark, drawn, listens, saves, fetches, failures>>

Next ==
    \/ \E k \in Kind : \E v \in Choice[k] :
        \/ \E at \in {"menu", "section"} : Choose(k, v, at)
        \/ ChooseSignedOut(k, v) \/ ChosenElsewhere(k, v)
    \/ LeavePreferences
    \/ \E i \in DOMAIN saves : SaveApplied(i) \/ SaveAnswered(i) \/ SaveFails(i)
    \/ refetchSettings
    \/ \E i \in DOMAIN fetches : FetchRead(i) \/ FetchAnswered(i) \/ FetchFails(i)
    \/ SignIn \/ Reload \/ SystemChanges

Spec == Init /\ [][Next]_vars

\* Once its calls have ended, a tab shows the theme and the locale that are
\* saved, unless calls overlapped or failed or another client saved: the
\* choice applied at once, the mask of one field, the callback of the latest
\* mutation and the effects fit together (UserMenu.tsx, useUserTheme.ts).
SavedIsShown ==
    Quiet /\ failures = 0 /\ ~mixed /\ setting # Nobody =>
        \A k \in Kind : saved[k] # "" => applied[k] = saved[k] /\ setting[k] = saved[k]

\* A tab whose user has saved "system" and shows it follows the system's
\* scheme (useUserTheme.ts:22).
FollowsSystem == applied.theme = "system" /\ setting.theme = "system" => drawn = dark
=============================================================================
