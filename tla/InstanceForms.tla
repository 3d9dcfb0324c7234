---------------------------- MODULE InstanceForms ----------------------------
(***************************************************************************)
(* The administrators' forms for the instance settings: the sections of    *)
(* Setting.tsx for the general, memo-related and storage settings and the  *)
(* dialog for the instance's profile.  Each form edits a draft and saves a *)
(* whole setting; the server keeps the last one written.  InstanceContext  *)
(* holds a tab's copy of the settings, and each form takes it over in a    *)
(* way of its own.                                                         *)
(***************************************************************************)
EXTENDS Naturals

CONSTANTS
    Admin,          \* tabs, each with an administrator
    MaxClicks,      \* bound: what the administrators do
    MaxFaults       \* bound: calls that fail

ASSUME ClicksAssumption == MaxClicks \in Nat
ASSUME FaultsAssumption == MaxFaults \in Nat

VARIABLES
    server,     \* the settings stored
    known,      \* per tab: InstanceContext's copies
    section,    \* per tab: the section mounted
    draft,      \* per tab: its draft
    profile,    \* per tab: the draft of the profile dialog
    open,       \* per tab: the profile dialog is open
    call,       \* per tab and slot: a call in flight
    clicks,     \* what the administrators did
    faults,     \* calls that failed
    reverted    \* history: a save nobody raced changed a field not edited

vars == <<server, known, section, draft, profile, open, call, clicks, faults,
          reverted>>

\* The keys of the settings with a section, and the two parts each is seen
\* as: the options and, in turn, the custom profile, the reactions, the S3
\* configuration.
Key == {"general", "memo", "storage"}
Field == {"options", "part"}

\* 0 stands for empty or absent.  A storage setting with options 2 stores in
\* S3, with part 1 not filled in.
Value == 0..2
Setting == [Field -> Value]
Empty == [f \in Field |-> 0]
Default == [f \in Field |-> 1]

\* A form's draft, what it took from the context, and the fields edited.
Draft == [val : Setting, from : Setting, edited : SUBSET Field]
Fresh(s) == [val |-> s, from |-> s, edited |-> {}]

\* The calls: the fetches of Setting.tsx by key, and what the section's save
\* and the dialog's wait for.
Slot == {"memo", "storage", "section", "dialog"}
Call == [pc : {"none", "fetch", "fetched", "save", "saved"}, key : Key,
         draft : Draft]
NoCall == [pc |-> "none", key |-> "general", draft |-> Fresh(Empty)]
Fetch(k) == [NoCall EXCEPT !.pc = "fetch", !.key = k]
Save(k, d) == [pc |-> "save", key |-> k, draft |-> d]

TypeOK ==
    /\ server \in [Key -> Setting]
    /\ known \in [Admin -> [Key -> Setting]]
    /\ section \in [Admin -> Key \union {"none"}]
    /\ draft \in [Admin -> Draft]
    /\ profile \in [Admin -> Draft]
    /\ open \in [Admin -> BOOLEAN]
    /\ call \in [Admin -> [Slot -> Call]]
    /\ clicks \in 0..MaxClicks
    /\ faults \in 0..MaxFaults
    /\ reverted \in BOOLEAN

\* Before main.tsx has initialized the contexts.
Init ==
    /\ server = [k \in Key |-> Default]
    /\ known = [a \in Admin |-> [k \in Key |-> Empty]]
    /\ section = [a \in Admin |-> "none"]
    /\ draft = [a \in Admin |-> Fresh(Empty)]
    /\ profile = [a \in Admin |-> Fresh(Empty)]
    /\ open = [a \in Admin |-> FALSE]
    /\ call = [a \in Admin |-> [s \in Slot |-> NoCall]]
    /\ clicks = 0
    /\ faults = 0
    /\ reverted = FALSE

Click == clicks < MaxClicks /\ clicks' = clicks + 1
Fault == faults < MaxFaults /\ faults' = faults + 1

\* A section's component mounts with drafts of what the context has; the
\* dialog's component mounts with the general section and takes its draft
\* then, not when it opens.
Mount(a, k, settings) ==
    /\ section' = [section EXCEPT ![a] = k]
    /\ draft' = [draft EXCEPT ![a] = Fresh(settings[k])]
    /\ profile' = [profile EXCEPT ![a] =
                      Fresh(IF k = "general" THEN settings["general"] ELSE Empty)]
    /\ open' = [open EXCEPT ![a] = FALSE]

\* The page is loaded: InstanceContext initializes with the general and the
\* memo-related setting or, when that fails, with none.  Or the user comes
\* back to it, with the context as it was.  Setting.tsx mounts with a section
\* and fetches two settings (bound: once the calls of the last time ended).
OpenSetting(a, k) ==
    /\ Click
    /\ section[a] = "none"
    /\ call[a] = [s \in Slot |-> NoCall]
    /\ \/ /\ known' = [known EXCEPT ![a] = [server EXCEPT !["storage"] = Empty]]
          /\ UNCHANGED faults
       \/ Fault /\ known' = [known EXCEPT ![a] = [i \in Key |-> Empty]]
       \/ known[a] # [i \in Key |-> Empty] /\ UNCHANGED <<known, faults>>
    /\ Mount(a, k, known'[a])
    /\ call' = [call EXCEPT ![a]["memo"] = Fetch("memo"),
                            ![a]["storage"] = Fetch("storage")]
    /\ UNCHANGED <<server, reverted>>

\* The hash selects another section; what was typed is gone.
handleSectionSelectorItemClick(a, k) ==
    /\ Click
    /\ section[a] \in Key \ {k} /\ ~open[a]
    /\ Mount(a, k, known[a])
    /\ UNCHANGED <<server, known, call, faults, reverted>>

\* The user goes to another page, and answers still reach the context, or
\* closes the tab, and they are lost.
CloseSetting(a) ==
    /\ Click
    /\ section[a] # "none"
    /\ section' = [section EXCEPT ![a] = "none"]
    /\ draft' = [draft EXCEPT ![a] = Fresh(Empty)]
    /\ open' = [open EXCEPT ![a] = FALSE]
    /\ call' \in {call, [call EXCEPT ![a] = [s \in Slot |-> NoCall]]}
    /\ UNCHANGED <<server, known, profile, faults, reverted>>

\* A field of the section is edited; the custom profile has the dialog.
updatePartialSetting(a, f, v) ==
    /\ Click
    /\ section[a] # "none" /\ ~open[a] /\ draft[a].val[f] # v
    /\ section[a] = "general" => f = "options"
    /\ draft' = [draft EXCEPT ![a].val[f] = v, ![a].edited = @ \union {f}]
    /\ UNCHANGED <<server, known, section, profile, open, call, faults, reverted>>

\* UpdateCustomizedProfileDialog.tsx: opened, edited or restored, cancelled.
OpenDialog(a) ==
    /\ Click
    /\ section[a] = "general" /\ ~open[a]
    /\ open' = [open EXCEPT ![a] = TRUE]
    /\ UNCHANGED <<server, known, section, draft, profile, call, faults, reverted>>

setPartialState(a, v) ==
    /\ Click
    /\ open[a] /\ call[a]["dialog"].pc = "none" /\ profile[a].val["part"] # v
    /\ profile' = [profile EXCEPT ![a].val["part"] = v, ![a].edited = {"part"}]
    /\ UNCHANGED <<server, known, section, draft, open, call, faults, reverted>>

CloseDialog(a) ==
    /\ Click
    /\ open[a]
    /\ open' = [open EXCEPT ![a] = FALSE]
    /\ UNCHANGED <<server, known, section, draft, profile, call, faults, reverted>>

\* Whether a section's Save button works: the draft differs from the context's
\* copy, reactions are not empty, and a storage setting is filled in.
allowSave(a) ==
    LET k == section[a]
        d == draft[a].val
    IN  /\ d # known[a][k]
        /\ k = "memo" => d["part"] # 0
        /\ k = "storage" => d["options"] # 0 /\ (d["options"] = 2 => d["part"] # 1)

\* What a draft stands on once it is sent.
Sent(d) == Fresh(d.val)

\* A form saves (bound: one save of each form in flight).
Submit(a, slot, k, d) ==
    /\ Click
    /\ call[a][slot].pc = "none"
    /\ call' = [call EXCEPT ![a][slot] = Save(k, d)]
    /\ UNCHANGED <<server, known, section, open, faults, reverted>>

saveSection(a) ==
    /\ section[a] # "none" /\ ~open[a]
    /\ allowSave(a)
    /\ draft' = [draft EXCEPT ![a] = Sent(@)]
    /\ Submit(a, "section", section[a], draft[a])
    /\ UNCHANGED profile

\* Mutant: the dialog sends the profile alone.
profileOnly(a) ==
    [val |-> [Empty EXCEPT !["part"] = profile[a].val["part"]],
     from |-> [known[a]["general"] EXCEPT !["part"] = profile[a].from["part"]],
     edited |-> profile[a].edited]

\* What the dialog saves: the context's general setting with its own profile.
customizedSetting(a) ==
    [val |-> [known[a]["general"] EXCEPT !["part"] = profile[a].val["part"]],
     from |-> [known[a]["general"] EXCEPT !["part"] = profile[a].from["part"]],
     edited |-> profile[a].edited]

handleSaveButtonClick(a) ==
    /\ open[a] /\ profile[a].val["part"] # 0
    /\ profile' = [profile EXCEPT ![a] = Sent(@)]
    /\ Submit(a, "dialog", "general", customizedSetting(a))
    /\ UNCHANGED draft

\* The server: UpdateInstanceSetting writes the whole setting.
Write(a, s) ==
    LET c == call[a][s]
        untouched == Field \ c.draft.edited
    IN  /\ c.pc = "save"
        /\ server' = [server EXCEPT ![c.key] = c.draft.val]
        /\ call' = [call EXCEPT ![a][s].pc = "saved"]
        /\ reverted' = (reverted \/
               /\ server[c.key] = c.draft.from
               /\ \E f \in untouched : c.draft.val[f] # server[c.key][f])
        /\ UNCHANGED <<known, section, draft, profile, open, clicks, faults>>

\* A setting is changed elsewhere, in another browser or by an API client.
ChangedElsewhere(k, f, v) ==
    /\ Click
    /\ server[k][f] # v /\ v # 0
    /\ server' = [server EXCEPT ![k][f] = v]
    /\ UNCHANGED <<known, section, draft, profile, open, call, faults, reverted>>

Read(a, s) ==
    /\ call[a][s].pc = "fetch"
    /\ call' = [call EXCEPT ![a][s].pc = "fetched",
                            ![a][s].draft = Fresh(server[call[a][s].key])]
    /\ UNCHANGED <<server, known, section, draft, profile, open, clicks, faults, reverted>>

\* Mutant: the general section takes over the whole setting.
wholeSetting(k, d, s) == IF k \in {"general", "storage"} THEN Fresh(s) ELSE d

\* The effect of a new copy s of setting k on the draft d of its section: the
\* storage section takes it over, the general section its profile, the
\* memo-related section nothing.
refreshedDraft(k, d, s) ==
    CASE k = "storage" -> Fresh(s)
      [] k = "general" -> [d EXCEPT !.val["part"] = s["part"], !.from["part"] = s["part"]]
      [] OTHER -> d

\* The context takes a setting over.
Learn(a, k, s) ==
    /\ known' = [known EXCEPT ![a][k] = s]
    /\ draft' = IF section[a] = k
                THEN [draft EXCEPT ![a] = refreshedDraft(k, @, s)] ELSE draft

fetchSetting(a, s) ==
    /\ call[a][s].pc = "fetched"
    /\ Learn(a, call[a][s].key, call[a][s].draft.val)
    /\ call' = [call EXCEPT ![a][s] = NoCall]
    /\ UNCHANGED <<server, section, profile, open, clicks, faults, reverted>>

\* A save is answered: the context takes what was sent; a section fetches the
\* setting again, the dialog closes.
updateSetting(a, s) ==
    LET c == call[a][s]
    IN  /\ c.pc = "saved"
        /\ Learn(a, c.key, c.draft.val)
        /\ call' = [call EXCEPT ![a][s] = IF s = "section" THEN Fetch(c.key) ELSE NoCall]
        /\ open' = [open EXCEPT ![a] = @ /\ s # "dialog"]
        /\ UNCHANGED <<server, section, profile, clicks, faults, reverted>>

\* A call fails, before or after the server acted on it; forms stay as they are.
Fails(a, s) ==
    /\ call[a][s].pc # "none" /\ Fault
    /\ call' = [call EXCEPT ![a][s] = NoCall]
    /\ UNCHANGED <<server, known, section, draft, profile, open, clicks, reverted>>

Step(a) ==
    \/ \E k \in Key : OpenSetting(a, k) \/ handleSectionSelectorItemClick(a, k)
    \/ CloseSetting(a)
    \/ \E f \in Field, v \in Value : updatePartialSetting(a, f, v)
    \/ OpenDialog(a) \/ CloseDialog(a)
    \/ \E v \in Value : setPartialState(a, v)
    \/ saveSection(a) \/ handleSaveButtonClick(a)
    \/ \E s \in Slot :
        \/ Write(a, s) \/ Read(a, s)
        \/ fetchSetting(a, s) \/ updateSetting(a, s) \/ Fails(a, s)

Next ==
    \/ \E a \in Admin : Step(a)
    \/ \E k \in Key, f \in Field, v \in Value : ChangedElsewhere(k, f, v)

Spec == Init /\ [][Next]_vars

\* A save changes only the fields edited in its form, unless another save came
\* between the form's reading the setting and its own.  Whole settings are
\* written, so this is what the forms put together (InstanceSection.tsx,
\* UpdateCustomizedProfileDialog.tsx, StorageSection.tsx).
NothingReverted == ~reverted

\* No answer changes what was typed into the general or the memo-related
\* section (InstanceSection.tsx:33; StorageSection.tsx:31 takes the whole
\* setting over, and what was typed is lost).
EditsKept ==
    [][\A a \in Admin, f \in Field :
          /\ section[a] \in {"general", "memo"} /\ section'[a] = section[a]
          /\ f \in draft[a].edited
          /\ known'[a] # known[a]
          => draft'[a].val[f] = draft[a].val[f]]_vars
=============================================================================
