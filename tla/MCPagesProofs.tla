------------------------- MODULE MCPagesProofs -------------------------
(***************************************************************************)
(* For any bounds and any items, messages and administrators: the types of *)
(* InstanceForms hold, and a save nobody raced changes only the fields     *)
(* edited in its form; an update of the account leaves alone what was not  *)
(* edited; the sections that list things and the inbox come to agree with  *)
(* the server; the filters follow the URL, the explorer counts the memos   *)
(* listed and its calendar has every day once.  For the settings the       *)
(* reason is that every draft, wherever it is - in a section, in the       *)
(* profile dialog, in a call on its way - differs from the setting it was  *)
(* taken from in edited fields only.                                       *)
(***************************************************************************)
EXTENDS MCPages, FiniteSetTheorems, TLAPS

\* A draft is sound when a field that was not edited is as it was taken.
Sound == {d \in Draft : \A f \in Field : f \notin d.edited => d.val[f] = d.from[f]}
Profile == {d \in Sound : d.edited \subseteq {"part"}}
SoundCall == {c \in Call : c.draft \in Sound}
Calls == [Admin -> [Slot -> SoundCall]]

\* The general section edits its own fields, the profile's being the dialog's.
GeneralEdits ==
    \A a \in Admin : section[a] = "general" => draft[a].edited \subseteq {"options"}

\* The inductive invariant: the types, every draft sound, nothing reverted.
IInv ==
    /\ server \in [Key -> Setting]
    /\ known \in [Admin -> [Key -> Setting]]
    /\ section \in [Admin -> Key \union {"none"}]
    /\ draft \in [Admin -> Sound]
    /\ profile \in [Admin -> Profile]
    /\ open \in [Admin -> BOOLEAN]
    /\ call \in Calls
    /\ clicks \in 0..MaxClicks
    /\ faults \in 0..MaxFaults
    /\ reverted = FALSE
    /\ GeneralEdits

\* The values of the model are of its types.
LEMMA Constants == Empty \in Setting /\ Default \in Setting
BY DEF Empty, Default, Setting, Value, Field

\* A draft just taken is sound.
LEMMA FreshSound ==
    ASSUME NEW s \in Setting
    PROVE  Fresh(s) \in Sound /\ Fresh(s) \in Profile
BY DEF Fresh, Sound, Profile, Draft

\* An edit keeps a draft sound.
LEMMA EditSound ==
    ASSUME NEW d \in Sound, NEW f \in Field, NEW v \in Value
    PROVE  [d EXCEPT !.val[f] = v, !.edited = @ \union {f}] \in Sound
<1> DEFINE e == [d EXCEPT !.val[f] = v, !.edited = @ \union {f}]
<1>1. d \in Draft /\ d.val \in Setting /\ d.from \in Setting /\ d.edited \in SUBSET Field
  BY DEF Sound, Draft
<1>2. [d.val EXCEPT ![f] = v] \in Setting  BY <1>1 DEF Setting
<1>3. e.val = [d.val EXCEPT ![f] = v] /\ e.from = d.from /\ e.edited = d.edited \union {f}
  BY <1>1 DEF Draft
<1>4. e \in Draft  BY <1>1, <1>2 DEF Draft
<1>5. ASSUME NEW g \in Field, g \notin e.edited
      PROVE  e.val[g] = e.from[g]
  <2>1. g \notin d.edited /\ g # f  BY <1>3, <1>5
  <2>2. e.val[g] = d.val[g] /\ e.from[g] = d.from[g]  BY <1>1, <1>3, <2>1 DEF Setting
  <2> QED  BY <1>1, <2>1, <2>2 DEF Sound
<1> QED  BY <1>4, <1>5 DEF Sound

\* So does the edit of the profile dialog, which knows one field.
LEMMA ProfileEditSound ==
    ASSUME NEW d \in Profile, NEW v \in Value
    PROVE  [d EXCEPT !.val["part"] = v, !.edited = {"part"}] \in Profile
<1> DEFINE e == [d EXCEPT !.val["part"] = v, !.edited = {"part"}]
<1>1. d \in Draft /\ d.val \in Setting /\ d.from \in Setting  BY DEF Profile, Sound, Draft
<1>2. [d.val EXCEPT !["part"] = v] \in Setting  BY <1>1 DEF Setting
<1>3. e.val = [d.val EXCEPT !["part"] = v] /\ e.from = d.from /\ e.edited = {"part"}
  BY <1>1 DEF Draft
<1>4. e \in Draft  BY <1>1, <1>2 DEF Draft, Field
<1>5. ASSUME NEW g \in Field, g \notin e.edited
      PROVE  e.val[g] = e.from[g]
  <2>1. g \notin d.edited /\ g # "part"  BY <1>3, <1>5 DEF Profile
  <2>2. e.val[g] = d.val[g] /\ e.from[g] = d.from[g]  BY <1>1, <1>3, <2>1 DEF Setting
  <2> QED  BY <1>1, <2>1, <2>2 DEF Sound, Profile
<1> QED  BY <1>3, <1>4, <1>5 DEF Sound, Profile

\* A section's draft stays sound when the context's copy changes.
LEMMA RefreshSound ==
    ASSUME NEW k \in Key, NEW d \in Sound, NEW s \in Setting
    PROVE  refreshedDraft(k, d, s) \in Sound
<1> DEFINE e == [d EXCEPT !.val["part"] = s["part"], !.from["part"] = s["part"]]
<1>1. d \in Draft /\ d.val \in Setting /\ d.from \in Setting  BY DEF Sound, Draft
<1>2. /\ e.val = [d.val EXCEPT !["part"] = s["part"]]
      /\ e.from = [d.from EXCEPT !["part"] = s["part"]]
      /\ e.edited = d.edited
  BY <1>1 DEF Draft
<1>3. [d.val EXCEPT !["part"] = s["part"]] \in Setting /\ [d.from EXCEPT !["part"] = s["part"]] \in Setting
  BY <1>1 DEF Setting, Field
<1>4. e \in Draft  BY <1>1, <1>3 DEF Draft
<1>5. ASSUME NEW g \in Field, g \notin e.edited
      PROVE  e.val[g] = e.from[g]
  <2>1. g \notin d.edited  BY <1>2, <1>5
  <2>2. d.val[g] = d.from[g]  BY <2>1 DEF Sound
  <2>3. g \in DOMAIN d.val /\ g \in DOMAIN d.from  BY <1>1 DEF Setting
  <2> QED  BY <1>2, <2>2, <2>3
<1>6. e \in Sound  BY <1>4, <1>5 DEF Sound
<1> QED  BY <1>6, FreshSound DEF refreshedDraft

\* A call is put in place of another.
LEMMA CallStep ==
    ASSUME NEW all \in Calls, NEW a \in Admin, NEW s \in Slot, NEW c \in SoundCall
    PROVE  [all EXCEPT ![a][s] = c] \in Calls
BY DEF Calls

\* The calls the model makes are sound.
LEMMA CallTypes ==
    /\ NoCall \in SoundCall
    /\ \A k \in Key : Fetch(k) \in SoundCall
    /\ \A k \in Key, d \in Sound : Save(k, d) \in SoundCall
<1>1. Fresh(Empty) \in Sound  BY Constants, FreshSound
<1>2. \A d \in Sound : d \in Draft  BY DEF Sound
<1>3. NoCall \in SoundCall  BY <1>1, <1>2 DEF NoCall, SoundCall, Call, Key
<1>4. ASSUME NEW k \in Key  PROVE Fetch(k) \in SoundCall
  BY <1>3, <1>4 DEF Fetch, SoundCall, Call
<1>5. ASSUME NEW k \in Key, NEW d \in Sound  PROVE Save(k, d) \in SoundCall
  BY <1>2, <1>5 DEF Save, SoundCall, Call
<1> QED  BY <1>3, <1>4, <1>5

\* What a step finds in a tab has its type.
LEMMA Tab ==
    ASSUME IInv, NEW a \in Admin
    PROVE  /\ known[a] \in [Key -> Setting]
           /\ draft[a] \in Sound
           /\ profile[a] \in Profile /\ profile[a] \in Sound
           /\ \A s \in Slot : /\ call[a][s] \in SoundCall
                             /\ call[a][s].key \in Key
                             /\ call[a][s].draft \in Sound
                             /\ call[a][s].draft.val \in Setting
BY DEF IInv, Calls, SoundCall, Call, Profile, Sound, Draft

\* A section mounts with sound drafts.
LEMMA MountSound ==
    ASSUME IInv, NEW a \in Admin, NEW k \in Key, NEW settings \in [Key -> Setting],
           Mount(a, k, settings)
    PROVE  /\ section' \in [Admin -> Key \union {"none"}]
           /\ draft' \in [Admin -> Sound]
           /\ profile' \in [Admin -> Profile]
           /\ open' \in [Admin -> BOOLEAN]
           /\ GeneralEdits'
<1>1. settings[k] \in Setting /\ settings["general"] \in Setting  BY DEF Key
<1>2. Fresh(settings[k]) \in Sound  BY <1>1, FreshSound
<1>3. Fresh(IF k = "general" THEN settings["general"] ELSE Empty) \in Profile
  BY <1>1, Constants, FreshSound
<1>4. section' \in [Admin -> Key \union {"none"}] /\ draft' \in [Admin -> Sound]
      /\ profile' \in [Admin -> Profile] /\ open' \in [Admin -> BOOLEAN]
  BY <1>2, <1>3 DEF Mount, IInv
<1>5. Fresh(settings[k]).edited = {}  BY DEF Fresh
<1>6. GeneralEdits'  BY <1>5 DEF Mount, IInv, GeneralEdits
<1> QED  BY <1>4, <1>6

\* The bounds of the counters hold after a click or a fault.
LEMMA Counters ==
    ASSUME IInv
    PROVE  /\ Click => clicks' \in 0..MaxClicks
           /\ Fault => faults' \in 0..MaxFaults
BY ClicksAssumption, FaultsAssumption DEF IInv, Click, Fault, ClicksAssumption, FaultsAssumption

\* The context takes a setting over.
LEMMA LearnSound ==
    ASSUME IInv, NEW a \in Admin, NEW k \in Key, NEW s \in Setting, Learn(a, k, s)
    PROVE  /\ known' \in [Admin -> [Key -> Setting]] /\ draft' \in [Admin -> Sound]
           /\ section' = section => GeneralEdits'
<1>1. known' \in [Admin -> [Key -> Setting]]  BY DEF Learn, IInv
<1>2. refreshedDraft(k, draft[a], s) \in Sound  BY Tab, RefreshSound
<1>3. draft' \in [Admin -> Sound]  BY <1>2 DEF Learn, IInv
<1>4. refreshedDraft(k, draft[a], s).edited \in {{}, draft[a].edited}
  <2>1. draft[a] \in Draft  BY Tab DEF Sound
  <2> QED  BY <2>1 DEF refreshedDraft, Fresh, Draft
<1>5. section' = section => GeneralEdits'
  BY <1>4 DEF Learn, IInv, GeneralEdits
<1> QED  BY <1>1, <1>3, <1>5

\* What the profile dialog saves is sound: its options are the context's.
LEMMA CustomizedSound ==
    ASSUME IInv, NEW a \in Admin
    PROVE  customizedSetting(a) \in Sound
<1> DEFINE c == customizedSetting(a)
           p == profile[a]
           g == known[a]["general"]
<1>1. p \in Sound /\ p.val \in Setting /\ p.from \in Setting /\ p.edited \in SUBSET Field
  BY Tab DEF Sound, Draft
<1>2. g \in Setting  BY Tab DEF Key
<1>3. c.val = [g EXCEPT !["part"] = p.val["part"]] /\ c.from = [g EXCEPT !["part"] = p.from["part"]]
      /\ c.edited = p.edited
  BY DEF customizedSetting
<1>4. p.val["part"] \in Value /\ p.from["part"] \in Value  BY <1>1 DEF Setting, Field
<1>5. c \in Draft  BY <1>1, <1>2, <1>4 DEF customizedSetting, Draft, Setting
<1>6. ASSUME NEW f \in Field, f \notin c.edited
      PROVE  c.val[f] = c.from[f]
  <2>1. CASE f = "part"
    <3>1. p.val["part"] = p.from["part"]  BY <1>1, <1>3, <1>6, <2>1 DEF Sound
    <3> QED  BY <1>2, <1>3, <2>1, <3>1 DEF Setting, Field
  <2>2. CASE f # "part"  BY <1>2, <1>3, <2>2 DEF Setting
  <2> QED  BY <2>1, <2>2
<1> QED  BY <1>5, <1>6 DEF Sound

(***************************************************************************)
(* The steps                                                               *)
(***************************************************************************)

\* No draft has been edited and nothing is on its way.
LEMMA InitInv == Init => IInv
<1> SUFFICES ASSUME Init PROVE IInv  OBVIOUS
<1>1. Fresh(Empty) \in Sound /\ Fresh(Empty) \in Profile  BY Constants, FreshSound
<1>2. call \in Calls  BY CallTypes DEF Init, Calls
<1>3. 0 \in 0..MaxClicks /\ 0 \in 0..MaxFaults
  BY ClicksAssumption, FaultsAssumption DEF ClicksAssumption, FaultsAssumption
<1>4. GeneralEdits  BY DEF Init, GeneralEdits
<1> QED  BY <1>1, <1>2, <1>3, <1>4, Constants DEF Init, IInv

\* The settings page opens.
LEMMA OpenInv ==
    ASSUME IInv, NEW a \in Admin, NEW k \in Key, OpenSetting(a, k)
    PROVE  IInv'
<1>1. clicks' \in 0..MaxClicks  BY Counters DEF OpenSetting
<1>2. faults' \in 0..MaxFaults  BY Counters DEF OpenSetting, IInv
<1>3. known' \in [Admin -> [Key -> Setting]]
  <2>1. [server EXCEPT !["storage"] = Empty] \in [Key -> Setting]  BY Constants DEF IInv
  <2>2. [i \in Key |-> Empty] \in [Key -> Setting]  BY Constants
  <2> QED  BY <2>1, <2>2 DEF OpenSetting, IInv
<1>4. Mount(a, k, known'[a]) /\ known'[a] \in [Key -> Setting]  BY <1>3 DEF OpenSetting
<1>5. /\ section' \in [Admin -> Key \union {"none"}] /\ draft' \in [Admin -> Sound]
      /\ profile' \in [Admin -> Profile] /\ open' \in [Admin -> BOOLEAN] /\ GeneralEdits'
  BY <1>4, MountSound
<1>6. call' \in Calls
  <2>1. Fetch("memo") \in SoundCall /\ Fetch("storage") \in SoundCall  BY CallTypes DEF Key
  <2>2. "memo" \in Slot /\ "storage" \in Slot  BY DEF Slot
  <2>3. call' = [[call EXCEPT ![a]["memo"] = Fetch("memo")] EXCEPT ![a]["storage"] = Fetch("storage")]
    BY DEF OpenSetting
  <2> QED  BY <2>1, <2>2, <2>3, CallStep DEF IInv
<1> QED  BY <1>1, <1>2, <1>3, <1>5, <1>6 DEF OpenSetting, IInv

\* Another section is selected.
LEMMA SelectInv ==
    ASSUME IInv, NEW a \in Admin, NEW k \in Key, handleSectionSelectorItemClick(a, k)
    PROVE  IInv'
<1>1. /\ section' \in [Admin -> Key \union {"none"}] /\ draft' \in [Admin -> Sound]
      /\ profile' \in [Admin -> Profile] /\ open' \in [Admin -> BOOLEAN] /\ GeneralEdits'
  BY Tab, MountSound DEF handleSectionSelectorItemClick
<1> QED  BY <1>1, Counters DEF handleSectionSelectorItemClick, IInv

\* The page is left.
LEMMA CloseInv ==
    ASSUME IInv, NEW a \in Admin, CloseSetting(a)
    PROVE  IInv'
<1>1. draft' \in [Admin -> Sound]  BY Constants, FreshSound DEF CloseSetting, IInv
<1>2. call' \in Calls
  <2>1. [s \in Slot |-> NoCall] \in [Slot -> SoundCall]  BY CallTypes
  <2> QED  BY <2>1 DEF CloseSetting, IInv, Calls
<1>3. GeneralEdits'  BY DEF CloseSetting, IInv, GeneralEdits
<1> QED  BY <1>1, <1>2, <1>3, Counters DEF CloseSetting, IInv

\* A field of a section is edited.
LEMMA EditInv ==
    ASSUME IInv, NEW a \in Admin, NEW f \in Field, NEW v \in Value, updatePartialSetting(a, f, v)
    PROVE  IInv'
<1> DEFINE e == [draft[a] EXCEPT !.val[f] = v, !.edited = @ \union {f}]
<1>1. e \in Sound  BY Tab, EditSound
<1>2. draft' = [draft EXCEPT ![a] = e]  BY DEF updatePartialSetting, IInv
<1>3. draft' \in [Admin -> Sound]  BY <1>1, <1>2 DEF IInv
<1>4. GeneralEdits'
  <2>1. draft[a] \in Draft  BY Tab DEF Sound
  <2>2. e.edited = draft[a].edited \union {f}  BY <2>1 DEF Draft
  <2>3. section' = section /\ (section[a] = "general" => f = "options")
    BY DEF updatePartialSetting
  <2> QED  BY <1>2, <2>2, <2>3 DEF IInv, GeneralEdits
<1> QED  BY <1>3, <1>4, Counters DEF updatePartialSetting, IInv

\* The profile dialog opens and closes.
LEMMA DialogInv ==
    ASSUME IInv, NEW a \in Admin, OpenDialog(a) \/ CloseDialog(a)
    PROVE  IInv'
BY Counters DEF OpenDialog, CloseDialog, IInv, GeneralEdits

\* The profile dialog's field is edited.
LEMMA ProfileInv ==
    ASSUME IInv, NEW a \in Admin, NEW v \in Value, setPartialState(a, v)
    PROVE  IInv'
<1> DEFINE e == [profile[a] EXCEPT !.val["part"] = v, !.edited = {"part"}]
<1>1. e \in Profile  BY Tab, ProfileEditSound
<1>2. profile' = [profile EXCEPT ![a] = e]  BY DEF setPartialState, IInv
<1>3. profile' \in [Admin -> Profile]  BY <1>1, <1>2 DEF IInv
<1> QED  BY <1>3, Counters DEF setPartialState, IInv, GeneralEdits

\* A section is saved.
LEMMA SaveSectionInv ==
    ASSUME IInv, NEW a \in Admin, saveSection(a)
    PROVE  IInv'
<1>1. section[a] \in Key  BY DEF saveSection, IInv
<1>2. Submit(a, "section", section[a], draft[a])  BY DEF saveSection
<1>3. Save(section[a], draft[a]) \in SoundCall  BY <1>1, Tab, CallTypes
<1>4. call' \in Calls  BY <1>2, <1>3, CallStep DEF Submit, IInv, Slot
<1>5. Sent(draft[a]) \in Sound /\ Sent(draft[a]).edited = {}
  <2>1. draft[a].val \in Setting  BY Tab DEF Sound, Draft
  <2> QED  BY <2>1, FreshSound DEF Sent, Fresh
<1>6. draft' \in [Admin -> Sound]  BY <1>5 DEF saveSection, IInv
<1>7. GeneralEdits'  BY <1>2, <1>5 DEF saveSection, Submit, IInv, GeneralEdits
<1> QED  BY <1>2, <1>4, <1>6, <1>7, Counters DEF saveSection, Submit, IInv

\* The profile is saved.
LEMMA SaveProfileInv ==
    ASSUME IInv, NEW a \in Admin, handleSaveButtonClick(a)
    PROVE  IInv'
<1>1. Submit(a, "dialog", "general", customizedSetting(a))  BY DEF handleSaveButtonClick
<1>2. Save("general", customizedSetting(a)) \in SoundCall
  BY CustomizedSound, CallTypes DEF Key
<1>3. call' \in Calls  BY <1>1, <1>2, CallStep DEF Submit, IInv, Slot
<1>4. Sent(profile[a]) \in Profile
  <2>1. profile[a].val \in Setting  BY Tab DEF Sound, Draft
  <2> QED  BY <2>1, FreshSound DEF Sent
<1>5. profile' \in [Admin -> Profile]  BY <1>4 DEF handleSaveButtonClick, IInv
<1>6. GeneralEdits'  BY <1>1, SMTT(60) DEF handleSaveButtonClick, Submit, IInv, GeneralEdits
<1> QED  BY <1>1, <1>3, <1>5, <1>6, Counters DEF handleSaveButtonClick, Submit, IInv

\* The one step that sets `reverted': the draft on its way is sound.
LEMMA WriteInv ==
    ASSUME IInv, NEW a \in Admin, NEW s \in Slot, Write(a, s)
    PROVE  IInv'
<1> DEFINE c == call[a][s]
<1>1. c \in SoundCall /\ c.key \in Key /\ c.draft \in Sound /\ c.draft.val \in Setting  BY Tab
<1>2. server' \in [Key -> Setting]  BY <1>1 DEF Write, IInv
<1>3. call' \in Calls
  <2>1. [c EXCEPT !.pc = "saved"] \in SoundCall  BY <1>1 DEF SoundCall, Call
  <2>2. call' = [call EXCEPT ![a][s] = [c EXCEPT !.pc = "saved"]]  BY DEF Write, IInv, Calls
  <2> QED  BY <2>1, <2>2, CallStep DEF IInv
<1>4. reverted' = FALSE
  <2>1. ASSUME server[c.key] = c.draft.from, NEW f \in Field \ c.draft.edited
        PROVE  c.draft.val[f] = server[c.key][f]
    BY <1>1, <2>1 DEF Sound
  <2> QED  BY <2>1 DEF Write, IInv
<1> QED  BY <1>2, <1>3, <1>4, ZenonT(40) DEF Write, IInv, GeneralEdits

\* Another client changes a setting.
LEMMA ElsewhereInv ==
    ASSUME IInv, NEW k \in Key, NEW f \in Field, NEW v \in Value, ChangedElsewhere(k, f, v)
    PROVE  IInv'
<1>1. server' \in [Key -> Setting]  BY DEF ChangedElsewhere, IInv, Setting
<1> QED  BY <1>1, Counters DEF ChangedElsewhere, IInv, GeneralEdits

\* The server answers with what it has.
LEMMA ReadInv ==
    ASSUME IInv, NEW a \in Admin, NEW s \in Slot, Read(a, s)
    PROVE  IInv'
<1> DEFINE c == call[a][s]
           d == [c EXCEPT !.pc = "fetched", !.draft = Fresh(server[c.key])]
<1>1. c \in SoundCall /\ c.key \in Key  BY Tab
<1>2. Fresh(server[c.key]) \in Sound  BY <1>1, FreshSound DEF IInv
<1>3. d \in SoundCall  BY <1>1, <1>2 DEF SoundCall, Call, Sound
<1>4. call' = [call EXCEPT ![a][s] = d]  BY DEF Read, IInv, Calls
<1>5. call' \in Calls  BY <1>3, <1>4, CallStep DEF IInv
<1> QED  BY <1>5 DEF Read, IInv, GeneralEdits

\* A setting fetched arrives.
LEMMA FetchInv ==
    ASSUME IInv, NEW a \in Admin, NEW s \in Slot, fetchSetting(a, s)
    PROVE  IInv'
<1>1. Learn(a, call[a][s].key, call[a][s].draft.val) /\ section' = section  BY DEF fetchSetting
<1>2. /\ known' \in [Admin -> [Key -> Setting]] /\ draft' \in [Admin -> Sound]
      /\ GeneralEdits'
  BY <1>1, Tab, LearnSound
<1>3. call' \in Calls  BY CallTypes, CallStep DEF fetchSetting, IInv
<1> QED  BY <1>2, <1>3 DEF fetchSetting, IInv

\* A saved setting arrives.
LEMMA SavedInv ==
    ASSUME IInv, NEW a \in Admin, NEW s \in Slot, updateSetting(a, s)
    PROVE  IInv'
<1>1. Learn(a, call[a][s].key, call[a][s].draft.val) /\ section' = section  BY DEF updateSetting
<1>2. /\ known' \in [Admin -> [Key -> Setting]] /\ draft' \in [Admin -> Sound]
      /\ GeneralEdits'
  BY <1>1, Tab, LearnSound
<1>3. (IF s = "section" THEN Fetch(call[a][s].key) ELSE NoCall) \in SoundCall
  BY Tab, CallTypes
<1>4. call' \in Calls  BY <1>3, CallStep DEF updateSetting, IInv
<1>5. open' \in [Admin -> BOOLEAN]  BY DEF updateSetting, IInv
<1> QED  BY <1>2, <1>4, <1>5 DEF updateSetting, IInv

\* A call fails.
LEMMA FailsInv ==
    ASSUME IInv, NEW a \in Admin, NEW s \in Slot, Fails(a, s)
    PROVE  IInv'
<1>1. call' \in Calls  BY CallTypes, CallStep DEF Fails, IInv
<1> QED  BY <1>1, Counters DEF Fails, IInv, GeneralEdits

\* Every step keeps the inductive invariant.
LEMMA NextInv == IInv /\ [Next]_vars => IInv'
<1> SUFFICES ASSUME IInv, [Next]_vars PROVE IInv'  OBVIOUS
<1>1. CASE UNCHANGED vars  BY <1>1 DEF vars, IInv, GeneralEdits
<1>2. ASSUME NEW k \in Key, NEW f \in Field, NEW v \in Value, ChangedElsewhere(k, f, v)
      PROVE  IInv'
  BY <1>2, ElsewhereInv
<1>3. ASSUME NEW a \in Admin, Step(a)
      PROVE  IInv'
  <2>1. ASSUME NEW k \in Key, OpenSetting(a, k) \/ handleSectionSelectorItemClick(a, k)
        PROVE  IInv'
    BY <2>1, OpenInv, SelectInv
  <2>2. CASE CloseSetting(a)  BY <2>2, CloseInv
  <2>3. ASSUME NEW f \in Field, NEW v \in Value, updatePartialSetting(a, f, v)
        PROVE  IInv'
    BY <2>3, EditInv
  <2>4. CASE OpenDialog(a) \/ CloseDialog(a)  BY <2>4, DialogInv
  <2>5. ASSUME NEW v \in Value, setPartialState(a, v)
        PROVE  IInv'
    BY <2>5, ProfileInv
  <2>6. CASE saveSection(a) \/ handleSaveButtonClick(a)
    BY <2>6, SaveSectionInv, SaveProfileInv
  <2>7. ASSUME NEW s \in Slot,
               Write(a, s) \/ Read(a, s) \/ fetchSetting(a, s) \/ updateSetting(a, s) \/ Fails(a, s)
        PROVE  IInv'
    BY <2>7, WriteInv, ReadInv, FetchInv, SavedInv, FailsInv
  <2> QED  BY <1>3, <2>1, <2>2, <2>3, <2>4, <2>5, <2>6, <2>7 DEF Step
<1> QED  BY <1>1, <1>2, <1>3 DEF Next

\* IInv holds in every state of every behaviour of the settings forms and their
\* saves (MemoRelatedSettings.tsx and its siblings, InstanceContext.tsx).
THEOREM Invariant == Spec => []IInv
BY InitInv, NextInv, PTL DEF Spec

\* The types hold for any number of administrators (InstanceContext.tsx,
\* Setting.tsx and its sections).
THEOREM FormsTyped == Spec => []TypeOK
<1>1. IInv => TypeOK
  <2> SUFFICES ASSUME IInv PROVE TypeOK  OBVIOUS
  <2>1. Sound \subseteq Draft /\ Profile \subseteq Draft /\ SoundCall \subseteq Call
    BY DEF Sound, Profile, SoundCall
  <2>2. draft \in [Admin -> Draft] /\ profile \in [Admin -> Draft]
    BY <2>1 DEF IInv
  <2>3. call \in [Admin -> [Slot -> Call]]  BY <2>1 DEF IInv, Calls
  <2> QED  BY <2>2, <2>3 DEF IInv, TypeOK
<1> QED  BY Invariant, <1>1, PTL

\* A save nobody raced leaves the fields not edited in its form alone, with
\* any number of administrators, sections and calls that overlap or fail
\* (InstanceSection.tsx, UpdateCustomizedProfileDialog.tsx).
THEOREM NothingRevertedHolds == Spec => []NothingReverted
<1>1. IInv => NothingReverted  BY DEF IInv, NothingReverted
<1> QED  BY Invariant, <1>1, PTL

\* No answer changes what was typed into the general or the memo-related
\* section (InstanceSection.tsx:33).
THEOREM EditsKeptHolds == Spec => EditsKept
<1> DEFINE Kept(a, f) ==
        /\ section[a] \in {"general", "memo"} /\ section'[a] = section[a]
        /\ f \in draft[a].edited
        /\ known'[a] # known[a]
        => draft'[a].val[f] = draft[a].val[f]
<1>1. ASSUME IInv, [Next]_vars, NEW a \in Admin, NEW f \in Field
      PROVE  Kept(a, f)
  <2> SUFFICES ASSUME section[a] \in {"general", "memo"}, f \in draft[a].edited,
                      known'[a] # known[a]
               PROVE  draft'[a].val[f] = draft[a].val[f]
    OBVIOUS
  <2>1. PICK b \in Admin, s \in Slot : Learn(b, call[b][s].key, call[b][s].draft.val)
    <3>1. known' # known  OBVIOUS
    <3>2. PICK b \in Admin : Step(b)  BY <1>1, <3>1 DEF Next, vars, ChangedElsewhere
    <3>3. ASSUME NEW k \in Key, OpenSetting(b, k)
          PROVE  FALSE
      <4>1. section[b] = "none"  BY <3>3 DEF OpenSetting
      <4>2. a # b  BY <4>1
      <4>3. known'[a] = known[a]  BY <1>1, <3>3, <4>2, SMTT(30) DEF OpenSetting, IInv
      <4> QED  BY <4>3
    <3>4. PICK s \in Slot : fetchSetting(b, s) \/ updateSetting(b, s)
      BY <3>1, <3>2, <3>3 DEF Step, handleSectionSelectorItemClick, CloseSetting,
         updatePartialSetting, OpenDialog, CloseDialog, setPartialState, saveSection,
         handleSaveButtonClick, Submit, Write, Read, Fails
    <3> QED  BY <3>4 DEF fetchSetting, updateSetting
  <2>2. draft[a] \in Draft /\ draft[a].val \in Setting  BY <1>1, Tab DEF Sound, Draft
  <2>3. CASE section[b] # call[b][s].key \/ a # b
    BY <1>1, <2>1, <2>3 DEF Learn, IInv
  <2>4. CASE section[b] = call[b][s].key /\ a = b
    <3> DEFINE t == call[b][s].draft.val
    <3>1. draft'[a] = refreshedDraft(section[a], draft[a], t)
      BY <1>1, <2>1, <2>4 DEF Learn, IInv
    <3>2. CASE section[a] = "general"
      <4>1. f # "part"  BY <1>1, <3>2 DEF IInv, GeneralEdits
      <4>2. draft'[a].val = [draft[a].val EXCEPT !["part"] = t["part"]]
        BY <2>2, <3>1, <3>2 DEF refreshedDraft, Draft
      <4> QED  BY <2>2, <4>1, <4>2 DEF Setting
    <3>3. CASE section[a] = "memo"  BY <3>1, <3>3 DEF refreshedDraft
    <3> QED  BY <3>2, <3>3
  <2> QED  BY <2>3, <2>4
<1>2. IInv /\ [Next]_vars => [\A a \in Admin, f \in Field : Kept(a, f)]_vars
  BY <1>1
<1> QED  BY Invariant, <1>2, PTL DEF Spec, EditsKept

\* What MCPages does to the settings forms is what InstanceForms does, so the
\* theorems above are also about a tab with its other parts (Setting.tsx).
THEOREM FormsMove == PagesSpec => Spec
<1>1. PagesInit => Init
  BY DEF PagesInit
<1>2. [PagesNext]_<<part, instance, lists, accounts, inUrl, cached, pages,
                    masonry, explorer, calendar, inbox, text>> => [Next]_vars
  BY DEF PagesNext, instance
<1> QED BY <1>1, <1>2, PTL DEF PagesSpec, Spec

(***************************************************************************)
(* The account's dialogs                                                   *)
(***************************************************************************)

\* An account is a value for each of its fields.
Fields == Account!Field
IsAccount(u) == u = [f \in Fields |-> u[f]]

\* The form differs from the copy of the user, and an update on its way asks
\* for a change, only where the user edited a field.
AccountInv ==
    /\ IsAccount(account) /\ IsAccount(elsewhere)
    /\ touched \subseteq Fields /\ "pc" \in DOMAIN update
    /\ \A f \in Fields \ touched : profileForm[f] = user[f]
    /\ update.pc = "sent" => update.mask \cap Fields \subseteq touched
    /\ Account!ElsewhereKept

\* Nobody has edited anything yet.
LEMMA InitAccount == Account!Init => AccountInv
<1> SUFFICES ASSUME Account!Init PROVE AccountInv
  OBVIOUS
<1>1. /\ account = [f \in Fields |-> 1] /\ user = account /\ profileForm = account
      /\ touched = {} /\ elsewhere = account
  BY Zenon DEF Account!Init, Fields
<1>2. update.pc = "none" /\ "pc" \in DOMAIN update
  BY DEF Account!Init, Account!NoCall
<1> QED BY <1>1, <1>2 DEF AccountInv, IsAccount, Account!ElsewhereKept, Fields

\* A save asks for what was edited, and an answer of the server writes no more.
LEMMA StepAccount ==
    ASSUME AccountInv, Account!Next
    PROVE  AccountInv'
<1> USE DEF IsAccount, Fields
<1>1. ASSUME UNCHANGED <<account, user, profileForm, touched, elsewhere>>,
             update'.pc = "sent" => update' = update, "pc" \in DOMAIN update'
      PROVE  AccountInv'
  BY <1>1 DEF AccountInv, Account!ElsewhereKept
<1>2. CASE Account!Load
  <2>1. /\ user' = account /\ profileForm' = account /\ update' = Account!NoCall
        /\ touched' = {} /\ elsewhere' = account /\ account' = account
    BY <1>2, Zenon DEF Account!Load
  <2> QED BY <2>1 DEF AccountInv, Account!ElsewhereKept, Account!NoCall
<1>3. ASSUME NEW w \in {"none", "account", "password"}, Account!Show(w) PROVE AccountInv'
  BY <1>1, <1>3 DEF Account!Show, AccountInv
<1>4. ASSUME NEW f \in Fields, NEW v \in 0..2, Account!setPartialState(f, v) PROVE AccountInv'
  <2>1. /\ profileForm' = [profileForm EXCEPT ![f] = v] /\ touched' = touched \union {f}
        /\ UNCHANGED <<account, user, update, elsewhere>>
    BY <1>4, Zenon DEF Account!setPartialState
  <2>2. \A g \in Fields \ touched' : profileForm'[g] = profileForm[g]
    BY <2>1
  <2> QED BY <2>1, <2>2 DEF AccountInv, Account!ElsewhereKept
<1>5. CASE Account!handleSaveBtnClick
  <2>1. /\ update' = [pc |-> "sent", mask |-> Account!updateMask, user |-> profileForm]
        /\ UNCHANGED <<account, user, profileForm, touched, elsewhere>>
    BY <1>5, Zenon DEF Account!handleSaveBtnClick, Account!Send
  <2>2. update'.mask \subseteq touched
    BY <2>1 DEF AccountInv, Account!updateMask
  <2> QED BY <2>1, <2>2 DEF AccountInv, Account!ElsewhereKept
<1>6. ASSUME NEW p \in Account!Passwords, Account!handleNewPasswordChanged(p) PROVE AccountInv'
  BY <1>1, <1>6 DEF Account!handleNewPasswordChanged, AccountInv
<1>7. CASE Account!handleSavePasswordClick
  <2>1. UNCHANGED <<account, user, profileForm, touched, elsewhere>>
    BY <1>7, Zenon DEF Account!handleSavePasswordClick, Account!Send
  <2>2. update' = update \/ update' = [pc |-> "sent", mask |-> {"password"}, user |-> user]
    BY <1>7, Zenon DEF Account!handleSavePasswordClick, Account!Send
  <2>3. CASE update' = update
    BY <1>1, <2>1, <2>3 DEF AccountInv
  <2>4. CASE update' = [pc |-> "sent", mask |-> {"password"}, user |-> user]
    <3>1. update'.mask \cap Fields = {}
      BY <2>4 DEF Account!Field
    <3>2. "pc" \in DOMAIN update'
      BY <2>4
    <3> QED BY <2>1, <3>1, <3>2 DEF AccountInv, Account!ElsewhereKept
  <2> QED BY <2>2, <2>3, <2>4
<1>8. CASE Account!Apply
  <2>1. update.pc = "sent" /\ UNCHANGED <<user, profileForm, touched, elsewhere>>
    BY <1>8, Zenon DEF Account!Apply
  <2>2. update' = [update EXCEPT !.pc = "refused"] \/ update' = [update EXCEPT !.pc = "applied"]
    BY <1>8, Zenon DEF Account!Apply
  <2>3. update'.pc # "sent" /\ "pc" \in DOMAIN update'
    BY <2>2 DEF AccountInv
  <2>4. CASE account' = account
    BY <1>1, <2>1, <2>3, <2>4
  <2>5. CASE account' = [f \in Fields |-> IF f \in update.mask THEN update.user[f] ELSE account[f]]
    <3>1. \A f \in Fields \ touched : account'[f] = account[f]
      BY <2>1, <2>5 DEF AccountInv
    <3>2. IsAccount(account')
      BY <2>5
    <3>3. update'.pc = "sent" => update'.mask \cap Fields \subseteq touched
      BY <2>3 DEF AccountInv
    <3> QED BY <2>1, <2>3, <3>1, <3>2, <3>3 DEF AccountInv, Account!ElsewhereKept
  <2> QED BY <1>8, <2>4, <2>5 DEF Account!Apply
<1>9. CASE Account!Answer
  BY <1>1, <1>9 DEF Account!Answer, Account!NoCall
<1>10. ASSUME NEW f \in Fields, NEW v \in 1..2, Account!ChangeElsewhere(f, v) PROVE AccountInv'
  <2>1. /\ account' = [account EXCEPT ![f] = v] /\ elsewhere' = [elsewhere EXCEPT ![f] = v]
        /\ UNCHANGED <<user, profileForm, update, touched>>
    BY <1>10, Zenon DEF Account!ChangeElsewhere
  <2>2. /\ account' = [g \in Fields |-> IF g = f THEN v ELSE account[g]]
        /\ elsewhere' = [g \in Fields |-> IF g = f THEN v ELSE elsewhere[g]]
    BY <2>1 DEF AccountInv
  <2> QED BY <2>1, <2>2 DEF AccountInv, Account!ElsewhereKept
<1> QED BY <1>2, <1>3, <1>4, <1>5, <1>6, <1>7, <1>8, <1>9, <1>10 DEF Account!Next

\* An update of the account changes only what was edited in its form since the
\* page was loaded, whatever other clients change meanwhile
\* (UpdateAccountDialog.tsx:115).
THEOREM AccountKeeps == PagesSpec => []ElsewhereKept
<1> DEFINE Inv == part = "account" => AccountInv
<1>1. PagesInit => Inv
  BY InitAccount DEF PagesInit
<1>2. Inv /\ [PagesNext]_<<part, instance, lists, accounts, inUrl, cached, pages,
                           masonry, explorer, calendar, inbox, text>> => Inv'
  <2> SUFFICES ASSUME Inv, part' = "account",
                      [PagesNext]_<<part, instance, lists, accounts, inUrl, cached, pages,
                                    masonry, explorer, calendar, inbox, text>>
               PROVE  AccountInv'
    OBVIOUS
  <2>1. CASE UNCHANGED <<part, accounts>>
    BY <2>1 DEF accounts, AccountInv, Account!ElsewhereKept, IsAccount
  <2>2. CASE part = "account" /\ Account!Next
    BY <2>2, StepAccount
  <2> QED BY <2>1, <2>2 DEF PagesNext
<1>3. Inv => ElsewhereKept
  BY DEF ElsewhereKept, AccountInv
<1> QED BY <1>1, <1>2, <1>3, PTL DEF PagesSpec

(***************************************************************************)
(* The inbox                                                               *)
(***************************************************************************)

Requested == {"NONE", "ARCHIVED", "DELETED"}
RankOf(s) == Notifications!Rank[s]

InboxTypes ==
    /\ status \in [Message -> Notifications!Status]
    /\ fetched \in [Message -> Notifications!Status]
    /\ reading.list \in [Message -> Notifications!Status]
    /\ DOMAIN reading = {"step", "list"}
    /\ notices \subseteq {"ARCHIVED", "DELETED"} \X Message
    /\ asked \in [Message -> Requested]

\* No list, shown or on its way, is ahead of the server.
NoneAhead ==
    \A m \in Message : /\ RankOf(fetched[m]) <= RankOf(status[m])
                       /\ RankOf(reading.list[m]) <= RankOf(status[m])

\* What was asked is done, or its request is on its way.
AskedOrDone ==
    \A m \in Message : RankOf(asked[m]) <= RankOf(status[m]) \/ <<asked[m], m>> \in notices

\* What every reachable state of the inbox satisfies.
InboxInv == InboxTypes /\ NoneAhead /\ AskedOrDone

\* A message goes from unread to archived to deleted.
LEMMA Ranks ==
    /\ RankOf("NONE") = 0 /\ RankOf("UNREAD") = 1
    /\ RankOf("ARCHIVED") = 2 /\ RankOf("DELETED") = 3
    /\ \A s \in Notifications!Status : RankOf(s) \in 0..3
BY DEF RankOf, Notifications!Rank, Notifications!Status

\* No list has been read and nothing asked.
LEMMA InitInbox == Notifications!Init => InboxInv
<1> SUFFICES ASSUME Notifications!Init PROVE InboxInv
  OBVIOUS
<1>1. /\ status = [m \in Message |-> "UNREAD"] /\ fetched = [m \in Message |-> "NONE"]
      /\ reading = [step |-> "no", list |-> fetched]
      /\ notices = {} /\ asked = [m \in Message |-> "NONE"]
  BY Zenon DEF Notifications!Init
<1>2. reading.list = fetched /\ DOMAIN reading = {"step", "list"}
  BY <1>1
<1>3. InboxTypes
  BY <1>1, <1>2 DEF InboxTypes, Notifications!Status, Requested
<1>4. NoneAhead /\ AskedOrDone
  BY <1>1, <1>2, Ranks DEF NoneAhead, AskedOrDone
<1> QED BY <1>3, <1>4 DEF InboxInv

\* Asking once more is recorded where it goes further than what was asked.
LEMMA StepAsk ==
    ASSUME InboxInv, NEW to \in {"ARCHIVED", "DELETED"}, NEW m \in Message,
           Notifications!Ask(to, m), UNCHANGED <<status, fetched, reading>>
    PROVE  InboxInv'
<1>1. /\ notices' = notices \union {<<to, m>>}
      /\ asked' = [asked EXCEPT ![m] = IF RankOf(to) > RankOf(@) THEN to ELSE @]
  BY Zenon DEF Notifications!Ask, RankOf
<1>2. asked' = [asked EXCEPT ![m] = to] \/ asked' = asked
  BY <1>1 DEF InboxInv, InboxTypes
<1>3. InboxTypes'
  BY <1>1, <1>2 DEF InboxInv, InboxTypes, Requested
<1>4. NoneAhead'
  BY DEF InboxInv, NoneAhead
<1>5. AskedOrDone'
  <2>1. CASE asked' = asked
    BY <1>1, <2>1 DEF InboxInv, AskedOrDone
  <2>2. CASE asked' = [asked EXCEPT ![m] = to]
    <3>1. asked'[m] = to /\ \A n \in Message : n # m => asked'[n] = asked[n]
      BY <2>2 DEF InboxInv, InboxTypes
    <3> QED BY <1>1, <3>1 DEF InboxInv, AskedOrDone
  <2> QED BY <1>2, <2>1, <2>2
<1> QED BY <1>3, <1>4, <1>5 DEF InboxInv

\* The server takes a message further, and only then is its request gone.
LEMMA StepServed ==
    ASSUME InboxInv, NEW m \in Message, NEW to \in {"ARCHIVED", "DELETED"},
           NEW s \in Notifications!Status, RankOf(s) >= RankOf(to), RankOf(s) >= RankOf(status[m]),
           status' = [status EXCEPT ![m] = s], notices' = notices \ {<<to, m>>},
           UNCHANGED <<fetched, reading, asked>>
    PROVE  InboxInv'
<1>1. status'[m] = s /\ \A n \in Message : n # m => status'[n] = status[n]
  BY DEF InboxInv, InboxTypes
<1>2. InboxTypes'
  BY DEF InboxInv, InboxTypes
<1>3. \A n \in Message : /\ status[n] \in Notifications!Status
                         /\ fetched[n] \in Notifications!Status
                         /\ reading.list[n] \in Notifications!Status
                         /\ asked[n] \in Notifications!Status
                         /\ status'[n] \in Notifications!Status
  BY <1>2 DEF InboxInv, InboxTypes, Requested, Notifications!Status
<1>4. \A n \in Message : RankOf(status[n]) <= RankOf(status'[n])
  BY <1>1, <1>3, Ranks
<1>5. NoneAhead'
  BY <1>3, <1>4, Ranks DEF InboxInv, NoneAhead
<1>6. AskedOrDone'
  <2> SUFFICES ASSUME NEW n \in Message, <<asked[n], n>> \notin notices'
               PROVE  RankOf(asked[n]) <= RankOf(status'[n])
    BY DEF AskedOrDone
  <2>1. CASE <<asked[n], n>> = <<to, m>>
    BY <1>1, <2>1
  <2>2. CASE <<asked[n], n>> # <<to, m>>
    BY <1>3, <1>4, <2>2, Ranks DEF InboxInv, AskedOrDone
  <2> QED BY <2>1, <2>2
<1> QED BY <1>2, <1>5, <1>6 DEF InboxInv

\* A list is at most what the server has; a request that is lost is no longer
\* asked.
LEMMA StepInbox ==
    ASSUME InboxInv, Notifications!Next
    PROVE  InboxInv'
<1>1. ASSUME UNCHANGED <<status, notices, asked>>, fetched' = fetched \/ fetched' = reading.list,
             reading'.list \in {reading.list, status}, DOMAIN reading' = DOMAIN reading
      PROVE  InboxInv'
  <2>1. InboxTypes'
    BY <1>1 DEF InboxInv, InboxTypes
  <2>2. NoneAhead'
    <3>1. \A m \in Message : RankOf(status[m]) <= RankOf(status[m])
      BY Ranks DEF InboxInv, InboxTypes
    <3> QED BY <1>1, <3>1 DEF InboxInv, NoneAhead
  <2>3. AskedOrDone'
    BY <1>1 DEF InboxInv, AskedOrDone
  <2> QED BY <2>1, <2>2, <2>3 DEF InboxInv
<1>2. ASSUME UNCHANGED <<status, notices, asked, fetched, reading>>
      PROVE  InboxInv'
  BY <1>1, <1>2
<1>3. ASSUME Notifications!Read, UNCHANGED <<status, notices, asked, fetched>>
      PROVE  InboxInv'
  <2>1. reading' = [reading EXCEPT !.step = "asked"]
    BY <1>3, Zenon DEF Notifications!Read
  <2>2. reading'.list = reading.list /\ DOMAIN reading' = DOMAIN reading
    BY <2>1 DEF InboxInv, InboxTypes
  <2> QED BY <1>1, <1>3, <2>2
<1>4. CASE Notifications!useNotifications
  BY <1>2, <1>3, <1>4 DEF Notifications!useNotifications
<1>5. CASE Notifications!refetchOnWindowFocus
  BY <1>3, <1>5 DEF Notifications!refetchOnWindowFocus
<1>6. CASE Notifications!setFilter
  BY <1>2, <1>6 DEF Notifications!setFilter
<1>7. CASE Notifications!Listed
  <2>1. /\ reading' = [reading EXCEPT !.step = "no"] /\ fetched' = reading.list
        /\ UNCHANGED <<status, notices, asked>>
    BY <1>7, Zenon DEF Notifications!Listed
  <2>2. reading'.list = reading.list /\ DOMAIN reading' = DOMAIN reading
    BY <2>1 DEF InboxInv, InboxTypes
  <2> QED BY <1>1, <2>1, <2>2
<1>8. ASSUME NEW m \in Message, Notifications!fetchActivity(m) PROVE InboxInv'
  BY <1>2, <1>8 DEF Notifications!fetchActivity
<1>9. ASSUME NEW m \in Message, Notifications!handleArchiveMessage(m) PROVE InboxInv'
  BY <1>9, StepAsk DEF Notifications!handleArchiveMessage
<1>10. ASSUME NEW m \in Message, Notifications!handleDeleteMessage(m) PROVE InboxInv'
  BY <1>10, StepAsk DEF Notifications!handleDeleteMessage
<1>11. ASSUME NEW m \in Message, Notifications!handleNavigateToMemo(m) PROVE InboxInv'
  <2>1. CASE fetched[m] = "UNREAD"
    BY <1>11, <2>1, StepAsk DEF Notifications!handleNavigateToMemo
  <2>2. CASE fetched[m] # "UNREAD"
    BY <1>2, <1>11, <2>2 DEF Notifications!handleNavigateToMemo
  <2> QED BY <2>1, <2>2
<1>12. ASSUME NEW m \in Message, Notifications!UpdateUserNotification(m) PROVE InboxInv'
  <2> DEFINE s == IF status[m] = "DELETED" THEN "DELETED" ELSE "ARCHIVED"
  <2>1. /\ status' = [status EXCEPT ![m] = IF @ = "DELETED" THEN @ ELSE "ARCHIVED"]
        /\ notices' = notices \ {<<"ARCHIVED", m>>} /\ UNCHANGED <<fetched, reading, asked>>
    BY <1>12, Zenon DEF Notifications!UpdateUserNotification
  <2>2. status' = [status EXCEPT ![m] = s]
    BY <2>1
  <2>3. s \in Notifications!Status /\ status[m] \in Notifications!Status
    BY DEF InboxInv, InboxTypes, Notifications!Status
  <2>4. RankOf(s) >= RankOf("ARCHIVED") /\ RankOf(s) >= RankOf(status[m])
    BY <2>3, Ranks DEF Notifications!Status
  <2> HIDE DEF s
  <2> QED BY <2>1, <2>2, <2>3, <2>4, StepServed
<1>13. ASSUME NEW m \in Message, Notifications!DeleteUserNotification(m) PROVE InboxInv'
  <2>1. /\ status' = [status EXCEPT ![m] = "DELETED"]
        /\ notices' = notices \ {<<"DELETED", m>>} /\ UNCHANGED <<fetched, reading, asked>>
    BY <1>13, Zenon DEF Notifications!DeleteUserNotification
  <2>2. "DELETED" \in Notifications!Status /\ status[m] \in Notifications!Status
    BY DEF InboxInv, InboxTypes, Notifications!Status
  <2>3. RankOf("DELETED") >= RankOf("DELETED") /\ RankOf("DELETED") >= RankOf(status[m])
    BY <2>2, Ranks
  <2> QED BY <2>1, <2>2, <2>3, StepServed
<1>14. CASE Notifications!ListUserNotifications
  <2>1. /\ reading' = [step |-> "answered", list |-> status]
        /\ UNCHANGED <<status, fetched, notices, asked>>
    BY <1>14, Zenon DEF Notifications!ListUserNotifications
  <2>2. reading'.list = status /\ DOMAIN reading' = DOMAIN reading
    BY <2>1 DEF InboxInv, InboxTypes
  <2> QED BY <1>1, <2>1, <2>2
<1>15. CASE Notifications!Lost
  <2>1. UNCHANGED <<status, fetched>>
    BY <1>15, Zenon DEF Notifications!Lost
  <2>2. ASSUME NEW r \in notices, notices' = notices \ {r}, reading' = reading,
               asked' = [asked EXCEPT ![r[2]] = "NONE"]
        PROVE  InboxInv'
    <3>1. /\ r = <<r[1], r[2]>> /\ r[2] \in Message
      BY <2>2 DEF InboxInv, InboxTypes
    <3>2. asked'[r[2]] = "NONE" /\ \A n \in Message : n # r[2] => asked'[n] = asked[n]
      BY <2>2, <3>1 DEF InboxInv, InboxTypes
    <3>3. InboxTypes'
      BY <2>1, <2>2 DEF InboxInv, InboxTypes, Requested
    <3>4. NoneAhead'
      BY <2>1, <2>2 DEF InboxInv, NoneAhead
    <3>5. AskedOrDone'
      <4> SUFFICES ASSUME NEW n \in Message, <<asked'[n], n>> \notin notices'
                   PROVE  RankOf(asked'[n]) <= RankOf(status[n])
        BY <2>1 DEF AskedOrDone
      <4>1. CASE n = r[2]
        <5>1. status[n] \in Notifications!Status
          BY DEF InboxInv, InboxTypes
        <5> QED BY <3>2, <4>1, <5>1, Ranks
      <4>2. CASE n # r[2]
        <5>1. <<asked[n], n>> # r
          BY <3>1, <4>2
        <5> QED BY <2>2, <3>2, <4>2, <5>1 DEF InboxInv, AskedOrDone
      <4> QED BY <4>1, <4>2
    <3> QED BY <3>3, <3>4, <3>5 DEF InboxInv
  <2>3. ASSUME reading' = [reading EXCEPT !.step = "no"], UNCHANGED <<notices, asked>>
        PROVE  InboxInv'
    <3>1. reading'.list = reading.list /\ DOMAIN reading' = DOMAIN reading
      BY <2>3 DEF InboxInv, InboxTypes
    <3> QED BY <1>1, <2>1, <2>3, <3>1
  <2> QED BY <1>15, <2>2, <2>3, Zenon DEF Notifications!Lost
<1> QED BY <1>4, <1>5, <1>6, <1>7, <1>8, <1>9, <1>10, <1>11, <1>12, <1>13, <1>14, <1>15
        DEF Notifications!Next

(***************************************************************************)
(* The sections that list what a user or an admin has                      *)
(***************************************************************************)

Pc == {"none", "asked", "sent", "applied", "listing"}

ListTypes ==
    /\ kind \in Lists!Section \union {"none"}
    /\ stored \in Lists!Items /\ shown \in Lists!Items
    /\ form.item \in Item \union {0} /\ DOMAIN form = {"item", "filled"}
    /\ op \in [Lists!Window -> Lists!Op]
    /\ list \in [Lists!Slot -> Lists!List]
    /\ fails \in Nat /\ mixed \in BOOLEAN
    /\ op["confirm"].pc # "none" => op["confirm"].item \in Item
    /\ kind = "none" => /\ \A w \in Lists!Window : op[w].pc = "none"
                        /\ \A s \in Lists!Slot : list[s].pc = "none"

\* No call failed and, but for members, no list was fetched next to a call.
Orderly == kind # "none" /\ fails = 0 /\ (kind = "members" \/ ~mixed)
NoneSent == \A w \in Lists!Window : ~Lists!Calling(w)

\* One list is fetched at a time, and but for members while no call is sent.
OneList ==
    /\ \A s, t \in Lists!Slot : list[s].pc # "none" /\ list[t].pc # "none" => s = t
    /\ kind # "members" /\ Lists!Busy => NoneSent
\* With no call sent, the list read or, if none is fetched, shown is the server's.
UpToDate ==
    NoneSent => /\ \A s \in Lists!Slot : list[s].pc = "read" => list[s].val = stored
                /\ ~Lists!Busy => shown = stored
\* A row that the client takes out itself is all that the list shown, and the
\* one its handler closed over, has more than the server.
Without(v, i) == [v EXCEPT ![i] = 0]
RowOnly ==
    /\ kind \in {"tokens", "webhooks"} /\ ~Lists!Calling("dialog") =>
           /\ op["confirm"].pc = "sent" => shown = stored
           /\ op["confirm"].pc = "applied" => stored = Without(shown, op["confirm"].item)
    /\ kind = "webhooks" /\ Lists!Calling("confirm") => op["confirm"].seen = shown

\* What every reachable state of the sections satisfies.
ListsInv == ListTypes /\ (Orderly => OneList /\ UpToDate /\ RowOnly)

\* No section is open.
LEMMA InitLists == Lists!Init => ListsInv
<1> SUFFICES ASSUME Lists!Init PROVE ListsInv
  OBVIOUS
<1>1. ~Orderly
  BY DEF Lists!Init, Orderly
<1>2. Lists!NoOp \in Lists!Op /\ Lists!NoOp.pc = "none"
  BY DEF Lists!NoOp, Lists!Op, Lists!Items, Lists!Nothing
<1>3. Lists!NoList \in Lists!List /\ Lists!NoList.pc = "none"
  BY DEF Lists!NoList, Lists!List, Lists!Items, Lists!Nothing
<1>4. stored \in Lists!Items
  BY DEF Lists!Init, Lists!Items
<1>5. shown \in Lists!Items
  BY DEF Lists!Init, Lists!Items, Lists!Nothing
<1>6. op \in [Lists!Window -> Lists!Op] /\ \A w \in Lists!Window : op[w].pc = "none"
  BY <1>2 DEF Lists!Init
<1>7. list \in [Lists!Slot -> Lists!List] /\ \A s \in Lists!Slot : list[s].pc = "none"
  BY <1>3 DEF Lists!Init
<1>8. form.item = 0 /\ DOMAIN form = {"item", "filled"}
  BY DEF Lists!Init, Lists!NoForm
<1>9. kind = "none" /\ fails = 0 /\ mixed = FALSE /\ op["confirm"].pc = "none"
  BY <1>6 DEF Lists!Init, Lists!Window
<1> QED BY <1>1, <1>4, <1>5, <1>6, <1>7, <1>8, <1>9 DEF ListsInv, ListTypes

AtStep(f, w, pc) == [f EXCEPT ![w].pc = pc]

\* A window's record with another step.
LEMMA AnotherStep ==
    ASSUME NEW f \in [Lists!Window -> Lists!Op], NEW w \in Lists!Window, NEW pc \in Pc
    PROVE  /\ AtStep(f, w, pc) \in [Lists!Window -> Lists!Op]
           /\ AtStep(f, w, pc)[w].pc = pc
           /\ AtStep(f, w, pc)[w].item = f[w].item /\ AtStep(f, w, pc)[w].seen = f[w].seen
           /\ \A v \in Lists!Window : v # w => AtStep(f, w, pc)[v] = f[v]
BY DEF AtStep, Pc, Lists!Op

\* Another record for a window.
LEMMA AnotherOp ==
    ASSUME NEW f \in [Lists!Window -> Lists!Op], NEW w \in Lists!Window, NEW o \in Lists!Op
    PROVE  LET g == [f EXCEPT ![w] = o]
           IN  /\ g \in [Lists!Window -> Lists!Op]
               /\ g[w] = o
               /\ \A v \in Lists!Window : v # w => g[v] = f[v]
OBVIOUS

\* Records of a window that is closed, and of one that waits for a click.
LEMMA Records ==
    /\ Lists!NoOp \in Lists!Op /\ Lists!NoOp.pc = "none"
    /\ [Lists!NoOp EXCEPT !.pc = "asked"] \in Lists!Op
    /\ [Lists!NoOp EXCEPT !.pc = "asked"].pc = "asked"
    /\ Lists!NoList \in Lists!List /\ Lists!NoList.pc = "none"
    /\ Lists!Listing \in Lists!List /\ Lists!Listing.pc = "sent"
BY DEF Lists!NoOp, Lists!Op, Lists!Items, Lists!Nothing, Lists!NoList, Lists!List, Lists!Listing

\* A fetch: its slot has it, and where it matters no other has one.
LEMMA Fetched ==
    ASSUME ListTypes, NEW s \in Lists!Slot, Lists!Fetch(s)
    PROVE  /\ list' \in [Lists!Slot -> Lists!List] /\ list'[s].pc = "sent"
           /\ mixed' \in BOOLEAN
           /\ mixed => mixed'
           /\ kind = "members" \/ ~mixed' => \A t \in Lists!Slot : t # s => list'[t].pc = "none"
           /\ ~mixed' => \A w \in Lists!Window : w # s => ~Lists!Calling(w)
<1>1. CASE kind = "members"
  <2>1. list' = [t \in Lists!Slot |-> IF t = s THEN Lists!Listing ELSE Lists!NoList]
    BY <1>1, Zenon DEF Lists!Fetch, Lists!Fetching
  <2>2. mixed' = (mixed \/ Lists!Busy \/ \E w \in Lists!Window : Lists!Calling(w) /\ s # w)
    BY Zenon DEF Lists!Fetch
  <2> QED BY <2>1, <2>2, Records DEF ListTypes
<1>2. CASE kind # "members"
  <2>1. list' = [list EXCEPT ![s] = Lists!Listing]
    BY <1>2, Zenon DEF Lists!Fetch, Lists!Fetching
  <2>2. mixed' = (mixed \/ Lists!Busy \/ \E w \in Lists!Window : Lists!Calling(w) /\ s # w)
    BY Zenon DEF Lists!Fetch
  <2>3. /\ list' \in [Lists!Slot -> Lists!List] /\ list'[s].pc = "sent"
        /\ \A t \in Lists!Slot : t # s => list'[t] = list[t]
    BY <2>1, Records DEF ListTypes
  <2> QED BY <1>2, <2>2, <2>3 DEF Lists!Busy
<1> QED BY <1>1, <1>2

\* Windows open and close, and no call is sent or answered.
LEMMA WindowStep ==
    ASSUME ListsInv, UNCHANGED <<kind, stored, shown, list, fails, mixed>>,
           op' \in [Lists!Window -> Lists!Op],
           op'["confirm"].pc # "none" => op'["confirm"].item \in Item,
           form'.item \in Item \union {0}, DOMAIN form' = {"item", "filled"},
           kind # "none" \/ op' = op,
           \A w \in Lists!Window : \/ op'[w] = op[w]
                                   \/ ~Lists!Calling(w) /\ op'[w].pc \notin {"sent", "applied"}
    PROVE  ListsInv'
<1>1. ListTypes'
  BY DEF ListsInv, ListTypes
<1>2. \A w \in Lists!Window : Lists!Calling(w)' <=> Lists!Calling(w)
  BY DEF Lists!Calling
<1>3. NoneSent' <=> NoneSent
  BY <1>2 DEF NoneSent
<1>4. Lists!Busy' <=> Lists!Busy
  BY DEF Lists!Busy
<1>5. SUFFICES ASSUME Orderly' PROVE OneList' /\ UpToDate' /\ RowOnly'
  BY <1>1 DEF ListsInv
<1>6. Orderly /\ OneList /\ UpToDate /\ RowOnly
  BY <1>5 DEF Orderly, ListsInv
<1>7. OneList' /\ UpToDate'
  BY <1>3, <1>4, <1>6 DEF OneList, UpToDate
<1>8. "dialog" \in Lists!Window /\ "confirm" \in Lists!Window
  BY DEF Lists!Window
<1>9. RowOnly'
  <2>1. CASE op'["confirm"] = op["confirm"]
    <3>1. UNCHANGED <<kind, shown, stored>> /\ (Lists!Calling("dialog")' <=> Lists!Calling("dialog"))
      BY <1>2, <1>8
    <3> QED BY <1>6, <2>1, <3>1 DEF RowOnly, Lists!Calling
  <2>2. CASE op'["confirm"].pc \notin {"sent", "applied"}
    BY <2>2 DEF RowOnly, Lists!Calling
  <2> QED BY <1>8, <2>1, <2>2
<1> QED BY <1>7, <1>9

\* Once a call has failed only the types are left to keep.
LEMMA FailStep ==
    ASSUME ListsInv, Lists!Fail, UNCHANGED <<kind, stored, shown>>, kind # "none",
           op' \in [Lists!Window -> Lists!Op], list' \in [Lists!Slot -> Lists!List],
           op'["confirm"].pc # "none" => op'["confirm"].item \in Item,
           form'.item \in Item \union {0}, DOMAIN form' = {"item", "filled"},
           mixed' \in BOOLEAN
    PROVE  ListsInv'
<1>1. fails' = fails + 1
  BY Zenon DEF Lists!Fail
<1>2. ~Orderly'
  BY <1>1 DEF Orderly, ListsInv, ListTypes
<1>3. ListTypes'
  BY <1>1 DEF ListsInv, ListTypes
<1> QED BY <1>2, <1>3 DEF ListsInv

\* A window sends its call.
LEMMA SendStep ==
    ASSUME ListsInv, NEW w \in Lists!Window, ~Lists!Calling(w),
           UNCHANGED <<kind, stored, shown, form, list, fails>>, kind # "none",
           op' \in [Lists!Window -> Lists!Op], op'[w].pc = "sent",
           \A v \in Lists!Window : v # w => op'[v] = op[v],
           mixed' \in BOOLEAN, mixed => mixed', ~mixed' => ~Lists!Busy,
           w = "confirm" => /\ kind = "webhooks" => op'[w].seen = shown
                            /\ op'[w].item \in Item
                            /\ kind # "members" /\ ~mixed' => ~Lists!Calling("dialog")
    PROVE  ListsInv'
<1>1. "dialog" \in Lists!Window /\ "confirm" \in Lists!Window
      /\ \A v \in Lists!Window : v = "dialog" \/ v = "confirm"
  BY DEF Lists!Window
<1>2. ListTypes'
  BY <1>1 DEF ListsInv, ListTypes
<1>3. Lists!Calling(w)' /\ \A v \in Lists!Window : v # w => (Lists!Calling(v)' <=> Lists!Calling(v))
  BY DEF Lists!Calling
<1>4. ~NoneSent'
  BY <1>3 DEF NoneSent
<1>5. Lists!Busy' <=> Lists!Busy
  BY DEF Lists!Busy
<1>6. SUFFICES ASSUME Orderly' PROVE OneList' /\ UpToDate' /\ RowOnly'
  BY <1>2 DEF ListsInv
<1>7. Orderly /\ OneList /\ UpToDate /\ RowOnly
  BY <1>6 DEF Orderly, ListsInv
<1>8. OneList'
  BY <1>5, <1>6, <1>7 DEF OneList, Orderly
<1>9. UpToDate'
  BY <1>4 DEF UpToDate
<1>10. RowOnly'
  <2>1. CASE w = "dialog"
    BY <1>1, <1>3, <1>7, <2>1 DEF RowOnly, Lists!Calling
  <2>2. CASE w = "confirm" /\ kind # "members"
    <3>1. ~Lists!Busy /\ ~Lists!Calling("dialog") /\ NoneSent
      BY <1>1, <1>6, <2>2 DEF Orderly, NoneSent
    <3>2. shown = stored
      BY <1>7, <3>1 DEF UpToDate
    <3> QED BY <2>2, <3>2 DEF RowOnly
  <2>3. CASE kind = "members"
    BY <2>3 DEF RowOnly
  <2> QED BY <1>1, <2>1, <2>2, <2>3
<1> QED BY <1>8, <1>9, <1>10

\* A call is answered and the list fetched again.
LEMMA FetchStep ==
    ASSUME ListsInv, NEW w \in Lists!Window, Lists!Fetch(w), kind # "none",
           UNCHANGED <<kind, stored, shown, fails>>,
           op' \in [Lists!Window -> Lists!Op], op'[w].pc \notin {"sent", "applied"},
           \A v \in Lists!Window : v # w => op'[v] = op[v],
           op'["confirm"].pc # "none" => op'["confirm"].item \in Item,
           form'.item \in Item \union {0}, DOMAIN form' = {"item", "filled"}
    PROVE  ListsInv'
<1>1. w \in Lists!Slot /\ "dialog" \in Lists!Window /\ "confirm" \in Lists!Window
  BY DEF Lists!Window, Lists!Slot
<1>2. /\ list' \in [Lists!Slot -> Lists!List] /\ list'[w].pc = "sent"
      /\ mixed' \in BOOLEAN
      /\ mixed => mixed'
      /\ kind = "members" \/ ~mixed' => \A t \in Lists!Slot : t # w => list'[t].pc = "none"
      /\ ~mixed' => \A v \in Lists!Window : v # w => ~Lists!Calling(v)
  BY <1>1, Fetched DEF ListsInv
<1>3. ListTypes'
  <2>1. list' \in [Lists!Slot -> Lists!List] /\ mixed' \in BOOLEAN
    BY <1>2
  <2> QED BY <2>1 DEF ListsInv, ListTypes
<1>4. SUFFICES ASSUME Orderly' PROVE OneList' /\ UpToDate' /\ RowOnly'
  BY <1>3 DEF ListsInv
<1>5. \A t \in Lists!Slot : t # w => list'[t].pc = "none"
  BY <1>2, <1>4 DEF Orderly
<1>6. kind # "members" => NoneSent' /\ \A v \in Lists!Window : ~Lists!Calling(v)'
  BY <1>2, <1>4 DEF Orderly, NoneSent, Lists!Calling
<1>7. OneList'
  BY <1>5, <1>6 DEF OneList
<1>8. UpToDate'
  BY <1>1, <1>2, <1>5 DEF UpToDate, Lists!Busy
<1>9. RowOnly'
  BY <1>1, <1>6 DEF RowOnly, Lists!Calling
<1> QED BY <1>7, <1>8, <1>9

\* The section mounts: its list is the one being fetched.
LEMMA OpenStep ==
    ASSUME ListsInv, NEW k \in Lists!Section, Lists!Open(k)
    PROVE  ListsInv'
<1>1. /\ kind = "none" /\ kind' = k /\ k # "none"
      /\ list' = [list EXCEPT !["mount"] = Lists!Listing]
      /\ UNCHANGED <<stored, shown, form, op, fails, mixed>>
  BY DEF Lists!Open, Lists!Section
<1>2. /\ \A w \in Lists!Window : op[w].pc = "none"
      /\ \A s \in Lists!Slot : list[s].pc = "none"
  BY <1>1 DEF ListsInv, ListTypes
<1>3. "mount" \in Lists!Slot /\ "confirm" \in Lists!Window /\ "dialog" \in Lists!Window
  BY DEF Lists!Slot, Lists!Window
<1>4. /\ list' \in [Lists!Slot -> Lists!List] /\ list'["mount"].pc = "sent"
      /\ \A s \in Lists!Slot : s # "mount" => list'[s].pc = "none"
  BY <1>1, <1>2, <1>3, Records DEF ListsInv, ListTypes
<1>5. ListTypes'
  BY <1>1, <1>4 DEF ListsInv, ListTypes
<1>6. \A w \in Lists!Window : ~Lists!Calling(w)'
  BY <1>1, <1>2 DEF Lists!Calling
<1>7. OneList' /\ UpToDate'
  BY <1>3, <1>4, <1>6 DEF OneList, UpToDate, NoneSent, Lists!Busy
<1>8. RowOnly'
  BY <1>3, <1>6 DEF RowOnly, Lists!Calling
<1> QED BY <1>5, <1>7, <1>8 DEF ListsInv

\* The dialog: what it sends is stored before the list is fetched.
LEMMA DialogStep ==
    ASSUME ListsInv,
           \/ \E i \in Item \union {0} : Lists!OpenDialog(i)
           \/ \E t \in Lists!Templates : Lists!SelectTemplate(t)
           \/ \E p \in Lists!Part : Lists!FillIn(p)
           \/ Lists!CloseDialog \/ Lists!SaveDialog \/ Lists!DialogApplied
           \/ Lists!DialogAnswered \/ Lists!DialogFails
    PROVE  ListsInv'
<1>1. "dialog" \in Lists!Window /\ "confirm" \in Lists!Window /\ "dialog" \in Lists!Slot
      /\ \A v \in Lists!Window : v = "dialog" \/ v = "confirm"
  BY DEF Lists!Window, Lists!Slot
<1>2. op \in [Lists!Window -> Lists!Op] /\ (op["confirm"].pc # "none" => op["confirm"].item \in Item)
  BY DEF ListsInv, ListTypes
<1>3. form.item \in Item \union {0} /\ DOMAIN form = {"item", "filled"}
  BY DEF ListsInv, ListTypes
<1>4. Lists!NoForm.item \in Item \union {0} /\ DOMAIN Lists!NoForm = {"item", "filled"}
  BY DEF Lists!NoForm
<1>5. ASSUME op["dialog"].pc # "none" PROVE kind # "none"
  BY <1>1, <1>5 DEF ListsInv, ListTypes
<1>6. ASSUME NEW i \in Item \union {0}, Lists!OpenDialog(i) PROVE ListsInv'
  <2>1. /\ op["dialog"].pc = "none" /\ kind # "none"
        /\ op' = AtStep(op, "dialog", "asked")
        /\ UNCHANGED <<kind, stored, shown, list, fails, mixed>>
    BY <1>6, Zenon DEF Lists!OpenDialog, AtStep
  <2>2. form'.item \in Item \union {0} /\ DOMAIN form' = {"item", "filled"}
    BY <1>6 DEF Lists!OpenDialog
  <2>3. /\ op' \in [Lists!Window -> Lists!Op] /\ op'["dialog"].pc = "asked"
        /\ \A v \in Lists!Window : v # "dialog" => op'[v] = op[v]
    BY <1>1, <1>2, <2>1, AnotherStep DEF Pc
  <2>4. ~Lists!Calling("dialog")
    BY <2>1 DEF Lists!Calling
  <2>5. op'["confirm"] = op["confirm"]
    BY <1>1, <2>3
  <2>6. \A w \in Lists!Window : \/ op'[w] = op[w]
                                \/ ~Lists!Calling(w) /\ op'[w].pc \notin {"sent", "applied"}
    BY <1>1, <2>3, <2>4
  <2> QED BY <1>2, <2>1, <2>2, <2>3, <2>5, <2>6, WindowStep
<1>7. ASSUME NEW t \in Lists!Templates, Lists!SelectTemplate(t) PROVE ListsInv'
  <2>1. /\ form' = [form EXCEPT !.filled = Lists!Filled(t)]
        /\ UNCHANGED <<kind, stored, shown, op, list, fails, mixed>>
    BY <1>7, Zenon DEF Lists!SelectTemplate
  <2>2. form'.item = form.item /\ DOMAIN form' = DOMAIN form
    BY <1>3, <2>1
  <2> QED BY <1>2, <1>3, <2>1, <2>2, WindowStep
<1>8. ASSUME NEW p \in Lists!Part, Lists!FillIn(p) PROVE ListsInv'
  <2>1. /\ form' = [form EXCEPT !.filled = @ \union {p}]
        /\ UNCHANGED <<kind, stored, shown, op, list, fails, mixed>>
    BY <1>8, Zenon DEF Lists!FillIn
  <2>2. form'.item = form.item /\ DOMAIN form' = DOMAIN form
    BY <1>3, <2>1
  <2> QED BY <1>2, <1>3, <2>1, <2>2, WindowStep
<1>9. CASE Lists!CloseDialog
  <2>1. /\ op["dialog"].pc = "asked" /\ op' = [op EXCEPT !["dialog"] = Lists!NoOp]
        /\ form' = Lists!NoForm
        /\ UNCHANGED <<kind, stored, shown, list, fails, mixed>>
    BY <1>9, Zenon DEF Lists!CloseDialog
  <2>2. /\ op' \in [Lists!Window -> Lists!Op] /\ op'["dialog"].pc = "none"
        /\ \A v \in Lists!Window : v # "dialog" => op'[v] = op[v]
    BY <1>1, <1>2, <2>1, AnotherOp, Records
  <2>3. ~Lists!Calling("dialog") /\ kind # "none"
    BY <1>5, <2>1 DEF Lists!Calling
  <2>4. op'["confirm"] = op["confirm"]
    BY <1>1, <2>2
  <2>5. \A w \in Lists!Window : \/ op'[w] = op[w]
                                \/ ~Lists!Calling(w) /\ op'[w].pc \notin {"sent", "applied"}
    BY <1>1, <2>2, <2>3
  <2> QED BY <1>2, <1>4, <2>1, <2>2, <2>3, <2>4, <2>5, WindowStep
<1>10. CASE Lists!SaveDialog
  <2> DEFINE o == [pc |-> "sent", item |-> form.item, seen |-> shown]
  <2>1. /\ op["dialog"].pc = "asked" /\ op' = [op EXCEPT !["dialog"] = o]
        /\ UNCHANGED <<kind, stored, shown, form, list, fails>>
    BY <1>10, Zenon DEF Lists!SaveDialog
  <2>2. mixed' = (mixed \/ Lists!Busy)
    BY <1>10, Zenon DEF Lists!SaveDialog
  <2>3. o \in Lists!Op /\ o.pc = "sent"
    BY <1>3 DEF Lists!Op, ListsInv, ListTypes
  <2> HIDE DEF o
  <2>4. /\ op' \in [Lists!Window -> Lists!Op] /\ op'["dialog"].pc = "sent"
        /\ \A v \in Lists!Window : v # "dialog" => op'[v] = op[v]
    BY <1>1, <1>2, <2>1, <2>3, AnotherOp
  <2>5. mixed' \in BOOLEAN /\ (mixed => mixed') /\ (~mixed' => ~Lists!Busy)
    BY <2>2, Zenon DEF ListsInv, ListTypes
  <2>6. ~Lists!Calling("dialog") /\ kind # "none"
    BY <1>5, <2>1 DEF Lists!Calling
  <2> QED BY <1>1, <2>1, <2>4, <2>5, <2>6, SendStep
<1>11. CASE Lists!DialogApplied
  <2>1. /\ op["dialog"].pc = "sent" /\ op' = AtStep(op, "dialog", "applied")
        /\ UNCHANGED <<kind, shown, form, list, fails, mixed>>
    BY <1>11, Zenon DEF Lists!DialogApplied, AtStep
  <2>2. stored' \in Lists!Items
    <3>1. \E j \in Item : \/ stored' = stored
                          \/ stored' = [stored EXCEPT ![j] = 1] \/ stored' = [stored EXCEPT ![j] = 2]
      BY <1>11 DEF Lists!DialogApplied
    <3> QED BY <3>1 DEF Lists!Items, ListsInv, ListTypes
  <2>3. /\ op' \in [Lists!Window -> Lists!Op] /\ op'["dialog"].pc = "applied"
        /\ \A v \in Lists!Window : v # "dialog" => op'[v] = op[v]
    BY <1>1, <1>2, <2>1, AnotherStep DEF Pc
  <2>4. op'["confirm"] = op["confirm"]
    BY <1>1, <2>3
  <2>5. ListTypes'
    <3>1. kind # "none"
      BY <1>5, <2>1
    <3> QED BY <2>1, <2>2, <2>3, <2>4, <3>1 DEF ListsInv, ListTypes
  <2>6. Lists!Calling("dialog") /\ Lists!Calling("dialog")' /\ ~NoneSent /\ ~NoneSent'
    BY <1>1, <2>1, <2>3 DEF Lists!Calling, NoneSent
  <2>7. SUFFICES ASSUME Orderly' PROVE OneList' /\ UpToDate' /\ RowOnly'
    BY <2>5 DEF ListsInv
  <2>8. OneList /\ RowOnly
    BY <2>1, <2>7 DEF Orderly, ListsInv
  <2>9. OneList'
    BY <2>1, <2>6, <2>8 DEF OneList, Lists!Busy
  <2>10. UpToDate'
    BY <2>6 DEF UpToDate
  <2>11. RowOnly'
    BY <2>1, <2>4, <2>6, <2>8 DEF RowOnly, Lists!Calling
  <2> QED BY <2>9, <2>10, <2>11
<1>12. CASE Lists!DialogAnswered
  <2> DEFINE o == CASE kind = "shortcuts" -> [op["dialog"] EXCEPT !.pc = "listing"]
                    [] kind = "tokens" -> [Lists!NoOp EXCEPT !.pc = "asked"]
                    [] OTHER -> Lists!NoOp
  <2>1. /\ op["dialog"].pc = "applied" /\ Lists!Fetch("dialog") /\ form' = Lists!NoForm
        /\ UNCHANGED <<kind, stored, shown, fails>>
    BY <1>12, Zenon DEF Lists!DialogAnswered
  <2>2. op' = [op EXCEPT !["dialog"] = o]
    BY <1>12 DEF Lists!DialogAnswered
  <2>3. o \in Lists!Op /\ o.pc \notin {"sent", "applied"}
    <3>1. op["dialog"] \in Lists!Op
      BY <1>1, <1>2
    <3>2. /\ [op["dialog"] EXCEPT !.pc = "listing"] \in Lists!Op
          /\ [op["dialog"] EXCEPT !.pc = "listing"].pc = "listing"
      BY <3>1 DEF Lists!Op
    <3> QED BY <3>2, Records
  <2> HIDE DEF o
  <2>4. /\ op' \in [Lists!Window -> Lists!Op] /\ op'["dialog"] = o
        /\ \A v \in Lists!Window : v # "dialog" => op'[v] = op[v]
    BY <1>1, <1>2, <2>2, <2>3, AnotherOp
  <2>5. op'["confirm"] = op["confirm"] /\ kind # "none"
    BY <1>1, <1>5, <2>1, <2>4
  <2> QED BY <1>1, <1>2, <1>4, <2>1, <2>3, <2>4, <2>5, FetchStep
<1>13. CASE Lists!DialogFails
  <2>1. Lists!Calling("dialog") /\ Lists!Fail /\ UNCHANGED <<kind, stored, shown>>
    BY <1>13, Zenon DEF Lists!DialogFails
  <2>2. kind # "none"
    BY <1>5, <2>1 DEF Lists!Calling
  <2>3. \E o \in Lists!Op : op' = [op EXCEPT !["dialog"] = o]
    BY <1>13, Records DEF Lists!DialogFails
  <2>4. op' \in [Lists!Window -> Lists!Op] /\ op'["confirm"] = op["confirm"]
    BY <1>1, <1>2, <2>3
  <2>5. form' = form \/ form' = Lists!NoForm
    BY <1>13, Zenon DEF Lists!DialogFails
  <2>6. list' \in [Lists!Slot -> Lists!List] /\ mixed' \in BOOLEAN
    <3>1. CASE Lists!Fetch("dialog")
      BY <1>1, <3>1, Fetched DEF ListsInv
    <3>2. CASE UNCHANGED <<list, mixed>>
      BY <3>2 DEF ListsInv, ListTypes
    <3> QED BY <1>13, <3>1, <3>2, Zenon DEF Lists!DialogFails
  <2> QED BY <1>2, <1>3, <1>4, <2>1, <2>2, <2>4, <2>5, <2>6, FailStep
<1> QED BY <1>6, <1>7, <1>8, <1>9, <1>10, <1>11, <1>12, <1>13

\* The question before a row is deleted: what the client then takes out itself
\* is what the server deleted.
LEMMA ConfirmStep ==
    ASSUME ListsInv,
           \/ \E i \in Item : Lists!Ask(i) \/ Lists!handleRestoreUserClick(i)
           \/ Lists!Cancel \/ Lists!handleConfirm \/ Lists!ConfirmApplied
           \/ Lists!ConfirmAnswered \/ Lists!ConfirmFails
    PROVE  ListsInv'
<1>1. "dialog" \in Lists!Window /\ "confirm" \in Lists!Window /\ "confirm" \in Lists!Slot
      /\ \A v \in Lists!Window : v = "dialog" \/ v = "confirm"
  BY DEF Lists!Window, Lists!Slot
<1>2. op \in [Lists!Window -> Lists!Op] /\ (op["confirm"].pc # "none" => op["confirm"].item \in Item)
  BY DEF ListsInv, ListTypes
<1>3. form.item \in Item \union {0} /\ DOMAIN form = {"item", "filled"}
  BY DEF ListsInv, ListTypes
<1>4. ASSUME op["confirm"].pc # "none" PROVE kind # "none"
  BY <1>1, <1>4 DEF ListsInv, ListTypes
<1>5. shown \in Lists!Items /\ Lists!Nothing \in Lists!Items
  BY DEF ListsInv, ListTypes, Lists!Items, Lists!Nothing
<1>6. ASSUME NEW i \in Item, Lists!Ask(i) PROVE ListsInv'
  <2> DEFINE o == [pc |-> "asked", item |-> i, seen |-> Lists!Nothing]
  <2>1. /\ op["confirm"].pc = "none" /\ kind # "none" /\ op' = [op EXCEPT !["confirm"] = o]
        /\ UNCHANGED <<kind, stored, shown, form, list, fails, mixed>>
    BY <1>6, Zenon DEF Lists!Ask
  <2>2. o \in Lists!Op /\ o.pc = "asked" /\ o.item \in Item
    BY <1>5 DEF Lists!Op
  <2> HIDE DEF o
  <2>3. /\ op' \in [Lists!Window -> Lists!Op] /\ op'["confirm"] = o
        /\ \A v \in Lists!Window : v # "confirm" => op'[v] = op[v]
    BY <1>1, <1>2, <2>1, <2>2, AnotherOp
  <2>4. ~Lists!Calling("confirm")
    BY <2>1 DEF Lists!Calling
  <2>5. \A w \in Lists!Window : \/ op'[w] = op[w]
                                \/ ~Lists!Calling(w) /\ op'[w].pc \notin {"sent", "applied"}
    BY <1>1, <2>2, <2>3, <2>4
  <2> QED BY <1>3, <2>1, <2>2, <2>3, <2>5, WindowStep
<1>7. CASE Lists!Cancel
  <2>1. /\ op["confirm"].pc = "asked" /\ op' = [op EXCEPT !["confirm"] = Lists!NoOp]
        /\ UNCHANGED <<kind, stored, shown, form, list, fails, mixed>>
    BY <1>7, Zenon DEF Lists!Cancel
  <2>2. /\ op' \in [Lists!Window -> Lists!Op] /\ op'["confirm"].pc = "none"
        /\ \A v \in Lists!Window : v # "confirm" => op'[v] = op[v]
    BY <1>1, <1>2, <2>1, AnotherOp, Records
  <2>3. ~Lists!Calling("confirm") /\ kind # "none"
    BY <1>4, <2>1 DEF Lists!Calling
  <2>4. \A w \in Lists!Window : \/ op'[w] = op[w]
                                \/ ~Lists!Calling(w) /\ op'[w].pc \notin {"sent", "applied"}
    BY <1>1, <2>2, <2>3
  <2> QED BY <1>3, <2>1, <2>2, <2>3, <2>4, WindowStep
<1>8. CASE Lists!handleConfirm
  <2>1. /\ op["confirm"].pc = "asked"
        /\ op' = [op EXCEPT !["confirm"].pc = "sent", !["confirm"].seen = shown]
        /\ UNCHANGED <<kind, stored, shown, form, list, fails>>
    BY <1>8, Zenon DEF Lists!handleConfirm
  <2>2. mixed' = (mixed \/ Lists!Busy \/ Lists!Calling("dialog"))
    BY <1>8, Zenon DEF Lists!handleConfirm
  <2>3. /\ op' \in [Lists!Window -> Lists!Op] /\ op'["confirm"].pc = "sent"
        /\ op'["confirm"].seen = shown /\ op'["confirm"].item = op["confirm"].item
        /\ \A v \in Lists!Window : v # "confirm" => op'[v] = op[v]
    BY <1>1, <1>2, <1>5, <2>1, ZenonT(40) DEF Lists!Op
  <2>4. mixed' \in BOOLEAN /\ (mixed => mixed') /\ (~mixed' => ~Lists!Busy)
        /\ (~mixed' => ~Lists!Calling("dialog"))
    BY <2>2, Zenon DEF ListsInv, ListTypes
  <2>5. ~Lists!Calling("confirm") /\ kind # "none" /\ op["confirm"].item \in Item
    BY <1>2, <1>4, <2>1 DEF Lists!Calling
  <2> QED BY <1>1, <2>1, <2>3, <2>4, <2>5, SendStep
<1>9. ASSUME NEW i \in Item, Lists!handleRestoreUserClick(i) PROVE ListsInv'
  <2> DEFINE o == [pc |-> "sent", item |-> i, seen |-> Without(shown, i)]
  <2>1. /\ kind = "members" /\ op' = [op EXCEPT !["confirm"] = o]
        /\ \A w \in Lists!Window : op[w].pc = "none"
        /\ UNCHANGED <<kind, stored, shown, form, list, fails>>
    BY <1>9, Zenon DEF Lists!handleRestoreUserClick, Without
  <2>2. mixed' = (mixed \/ Lists!Busy)
    BY <1>9, Zenon DEF Lists!handleRestoreUserClick
  <2>3. Without(shown, i) \in Lists!Items
    BY <1>5 DEF Without, Lists!Items
  <2>4. o \in Lists!Op /\ o.pc = "sent" /\ o.item \in Item
    BY <2>3 DEF Lists!Op
  <2> HIDE DEF o
  <2>5. /\ op' \in [Lists!Window -> Lists!Op] /\ op'["confirm"] = o
        /\ \A v \in Lists!Window : v # "confirm" => op'[v] = op[v]
    BY <1>1, <1>2, <2>1, <2>4, AnotherOp
  <2>6. mixed' \in BOOLEAN /\ (mixed => mixed') /\ (~mixed' => ~Lists!Busy)
    BY <2>2, Zenon DEF ListsInv, ListTypes
  <2>7. ~Lists!Calling("confirm") /\ kind # "none" /\ kind # "webhooks"
    BY <1>1, <2>1 DEF Lists!Calling
  <2> QED BY <1>1, <2>1, <2>4, <2>5, <2>6, <2>7, SendStep
<1>10. CASE Lists!ConfirmApplied
  <2> DEFINE i == op["confirm"].item
  <2>1. /\ op["confirm"].pc = "sent" /\ op' = AtStep(op, "confirm", "applied")
        /\ UNCHANGED <<kind, shown, form, list, fails, mixed>>
    BY <1>10, Zenon DEF Lists!ConfirmApplied, AtStep
  <2>2. /\ \E v \in 0..2 : stored' = IF stored[i] = 0 THEN stored ELSE [stored EXCEPT ![i] = v]
        /\ kind # "members" => stored' = IF stored[i] = 0 THEN stored ELSE Without(stored, i)
    <3> DEFINE v == IF kind # "members" \/ op["confirm"].seen[i] = 2 THEN 0
                    ELSE IF op["confirm"].seen[i] = 1 THEN 2 ELSE 1
    <3>1. stored' = IF stored[i] = 0 THEN stored ELSE [stored EXCEPT ![i] = v]
      BY <1>10, Zenon DEF Lists!ConfirmApplied
    <3>2. v \in 0..2 /\ (kind # "members" => v = 0)
      OBVIOUS
    <3> HIDE DEF v, i
    <3> QED BY <3>1, <3>2 DEF Without
  <2>3. kind # "none" /\ i \in Item
    BY <1>2, <1>4, <2>1
  <2>4. stored \in Lists!Items /\ stored' \in Lists!Items
    BY <2>2, <2>3 DEF ListsInv, ListTypes, Lists!Items
  <2>5. kind # "members" => stored' = Without(stored, i)
    BY <2>2, <2>3, <2>4 DEF Without, Lists!Items
  <2>6. /\ op' \in [Lists!Window -> Lists!Op] /\ op'["confirm"].pc = "applied"
        /\ op'["confirm"].item = i /\ op'["confirm"].seen = op["confirm"].seen
        /\ \A v \in Lists!Window : v # "confirm" => op'[v] = op[v]
    BY <1>1, <1>2, <2>1, AnotherStep DEF Pc
  <2>7. ListTypes'
    BY <2>1, <2>3, <2>4, <2>6 DEF ListsInv, ListTypes
  <2>8. Lists!Calling("confirm") /\ Lists!Calling("confirm")' /\ ~NoneSent /\ ~NoneSent'
    BY <1>1, <2>1, <2>6 DEF Lists!Calling, NoneSent
  <2>9. SUFFICES ASSUME Orderly' PROVE OneList' /\ UpToDate' /\ RowOnly'
    BY <2>7 DEF ListsInv
  <2>10. OneList /\ RowOnly
    BY <2>1, <2>9 DEF Orderly, ListsInv
  <2>11. OneList'
    BY <2>1, <2>8, <2>10 DEF OneList, Lists!Busy
  <2>12. UpToDate'
    BY <2>8 DEF UpToDate
  <2>13. Lists!Calling("dialog")' <=> Lists!Calling("dialog")
    BY <1>1, <2>6 DEF Lists!Calling
  <2>14. kind \in {"tokens", "webhooks"} /\ ~Lists!Calling("dialog") => shown = stored
    BY <2>1, <2>10 DEF RowOnly
  <2> HIDE DEF i
  <2>15. RowOnly'
    BY <2>1, <2>5, <2>6, <2>8, <2>10, <2>13, <2>14 DEF RowOnly
  <2> QED BY <2>11, <2>12, <2>15
<1>11. CASE Lists!ConfirmAnswered
  <2> DEFINE o == IF kind \in {"shortcuts", "providers"} THEN [op["confirm"] EXCEPT !.pc = "listing"]
                  ELSE Lists!NoOp
             i == op["confirm"].item
  <2>1. /\ op["confirm"].pc = "applied" /\ op' = [op EXCEPT !["confirm"] = o]
        /\ UNCHANGED <<kind, stored, form, fails>>
    BY <1>11, Zenon DEF Lists!ConfirmAnswered
  <2>2. kind # "none" /\ i \in Item
    BY <1>2, <1>4, <2>1
  <2>3. o \in Lists!Op /\ o.pc \in {"none", "listing"} /\ (o.pc # "none" => o.item = i)
    <3>1. op["confirm"] \in Lists!Op
      BY <1>1, <1>2
    <3>2. /\ [op["confirm"] EXCEPT !.pc = "listing"] \in Lists!Op
          /\ [op["confirm"] EXCEPT !.pc = "listing"].pc = "listing"
          /\ [op["confirm"] EXCEPT !.pc = "listing"].item = i
      BY <3>1 DEF Lists!Op
    <3> HIDE DEF i
    <3> QED BY <3>2, Records
  <2> HIDE DEF o
  <2>4. /\ op' \in [Lists!Window -> Lists!Op] /\ op'["confirm"] = o
        /\ \A v \in Lists!Window : v # "confirm" => op'[v] = op[v]
    BY <1>1, <1>2, <2>1, <2>3, AnotherOp
  <2>5. CASE kind \notin {"tokens", "webhooks"}
    <3>1. shown' = shown
      BY <1>11, <2>5 DEF Lists!ConfirmAnswered, Lists!rowRemoved
    <3>2. Lists!Fetch("confirm")
      BY <1>11, <2>5, Zenon DEF Lists!ConfirmAnswered
    <3> QED BY <1>1, <1>3, <2>1, <2>2, <2>3, <2>4, <3>1, <3>2, FetchStep
  <2>6. CASE kind \in {"tokens", "webhooks"}
    <3>1. UNCHANGED <<list, mixed>>
      BY <1>11, <2>6, Zenon DEF Lists!ConfirmAnswered
    <3>2. shown' = IF kind = "tokens" THEN Without(shown, i) ELSE Without(op["confirm"].seen, i)
      BY <1>11, <2>6 DEF Lists!ConfirmAnswered, Lists!rowRemoved, Without
    <3>3. op["confirm"].seen \in Lists!Items
      BY <1>1, <1>2 DEF Lists!Op
    <3>4. shown' \in Lists!Items
      BY <1>5, <2>2, <3>2, <3>3 DEF Without, Lists!Items
    <3>5. ListTypes'
      BY <2>1, <2>2, <2>3, <2>4, <3>1, <3>4 DEF ListsInv, ListTypes
    <3>6. Lists!Calling("confirm") /\ ~Lists!Calling("confirm")' /\ ~NoneSent
      BY <1>1, <2>1, <2>3, <2>4 DEF Lists!Calling, NoneSent
    <3>7. Lists!Calling("dialog")' <=> Lists!Calling("dialog")
      BY <1>1, <2>4 DEF Lists!Calling
    <3>8. SUFFICES ASSUME Orderly' PROVE OneList' /\ UpToDate' /\ RowOnly'
      BY <3>5 DEF ListsInv
    <3>9. OneList /\ RowOnly
      BY <2>1, <3>1, <3>8 DEF Orderly, ListsInv
    <3>10. ~Lists!Busy /\ ~Lists!Busy' /\ \A s \in Lists!Slot : list[s].pc = "none"
      BY <2>6, <3>1, <3>6, <3>9 DEF OneList, Lists!Busy
    <3>11. OneList'
      BY <3>1, <3>10 DEF OneList
    <3>12. kind = "webhooks" => op["confirm"].seen = shown
      BY <3>6, <3>9 DEF RowOnly
    <3>13. ~Lists!Calling("dialog") => shown' = stored'
      <4>1. ~Lists!Calling("dialog") => stored = Without(shown, i)
        BY <2>1, <2>6, <3>9 DEF RowOnly
      <4> HIDE DEF i
      <4> QED BY <2>1, <2>6, <3>2, <3>12, <4>1
    <3>14. UpToDate'
      BY <1>1, <3>1, <3>7, <3>10, <3>13 DEF UpToDate, NoneSent
    <3>15. RowOnly'
      BY <3>6 DEF RowOnly, Lists!Calling
    <3> QED BY <3>11, <3>14, <3>15
  <2> QED BY <2>5, <2>6
<1>12. CASE Lists!ConfirmFails
  <2>1. Lists!Calling("confirm") /\ Lists!Fail /\ UNCHANGED <<kind, stored, shown, form>>
    BY <1>12, Zenon DEF Lists!ConfirmFails
  <2>2. kind # "none" /\ op["confirm"].item \in Item
    BY <1>2, <1>4, <2>1 DEF Lists!Calling
  <2>3. \/ op' = AtStep(op, "confirm", "listing") \/ op' = AtStep(op, "confirm", "asked")
        \/ op' = [op EXCEPT !["confirm"] = Lists!NoOp]
    BY <1>12, Zenon DEF Lists!ConfirmFails, AtStep
  <2>4. op' \in [Lists!Window -> Lists!Op] /\ (op'["confirm"].pc # "none" => op'["confirm"].item \in Item)
    <3>1. CASE op' = [op EXCEPT !["confirm"] = Lists!NoOp]
      BY <1>1, <1>2, <3>1, Records, AnotherOp
    <3>2. CASE op' = AtStep(op, "confirm", "listing")
      BY <1>1, <1>2, <2>2, <3>2, AnotherStep DEF Pc
    <3>3. CASE op' = AtStep(op, "confirm", "asked")
      BY <1>1, <1>2, <2>2, <3>3, AnotherStep DEF Pc
    <3> QED BY <2>3, <3>1, <3>2, <3>3
  <2>5. list' \in [Lists!Slot -> Lists!List] /\ mixed' \in BOOLEAN
    <3>1. CASE Lists!Fetch("confirm")
      BY <1>1, <3>1, Fetched DEF ListsInv
    <3>2. CASE UNCHANGED <<list, mixed>>
      BY <3>2 DEF ListsInv, ListTypes
    <3> QED BY <1>12, <3>1, <3>2, Zenon DEF Lists!ConfirmFails
  <2> QED BY <1>3, <2>1, <2>2, <2>4, <2>5, FailStep
<1> QED BY <1>6, <1>7, <1>8, <1>9, <1>10, <1>11, <1>12

\* A list is read from the server, shown or lost.
LEMMA ListStep ==
    ASSUME ListsInv, NEW s \in Lists!Slot,
           Lists!ListRead(s) \/ Lists!ListAnswered(s) \/ Lists!ListFails(s)
    PROVE  ListsInv'
<1>1. /\ op \in [Lists!Window -> Lists!Op] /\ list \in [Lists!Slot -> Lists!List]
      /\ stored \in Lists!Items
      /\ (op["confirm"].pc # "none" => op["confirm"].item \in Item)
      /\ "confirm" \in Lists!Window /\ "dialog" \in Lists!Window
  BY DEF ListsInv, ListTypes, Lists!Window
<1>2. ASSUME list[s].pc # "none" PROVE kind # "none"
  BY <1>2 DEF ListsInv, ListTypes
<1>3. CASE Lists!ListRead(s)
  <2> DEFINE l == [pc |-> "read", val |-> stored]
  <2>1. /\ list[s].pc = "sent" /\ list' = [list EXCEPT ![s] = l]
        /\ UNCHANGED <<kind, stored, shown, form, op, fails, mixed>>
    BY <1>3, Zenon DEF Lists!ListRead
  <2>2. l \in Lists!List /\ l.pc = "read" /\ l.val = stored
    BY <1>1 DEF Lists!List
  <2> HIDE DEF l
  <2>3. /\ list' \in [Lists!Slot -> Lists!List] /\ list'[s] = l
        /\ \A t \in Lists!Slot : t # s => list'[t] = list[t]
    BY <1>1, <2>1, <2>2
  <2>4. ListTypes'
    BY <1>2, <2>1, <2>3 DEF ListsInv, ListTypes
  <2>5. NoneSent' <=> NoneSent
    BY <2>1 DEF NoneSent, Lists!Calling
  <2>6. Lists!Busy /\ Lists!Busy'
    BY <2>1, <2>2, <2>3 DEF Lists!Busy
  <2>7. SUFFICES ASSUME Orderly' PROVE OneList' /\ UpToDate' /\ RowOnly'
    BY <2>4 DEF ListsInv
  <2>8. OneList /\ UpToDate /\ RowOnly
    BY <2>1, <2>7 DEF Orderly, ListsInv
  <2>9. OneList'
    BY <2>1, <2>2, <2>3, <2>5, <2>6, <2>8 DEF OneList
  <2>10. UpToDate'
    BY <2>1, <2>2, <2>3, <2>5, <2>6, <2>8 DEF UpToDate
  <2>11. RowOnly'
    BY <2>1, <2>8 DEF RowOnly, Lists!Calling
  <2> QED BY <2>9, <2>10, <2>11
<1>4. CASE Lists!ListAnswered(s)
  <2>1. /\ list[s].pc = "read" /\ list' = [list EXCEPT ![s] = Lists!NoList]
        /\ shown' = list[s].val /\ op' = Lists!Settled(s)
        /\ UNCHANGED <<kind, stored, fails, mixed>>
    BY <1>4, Zenon DEF Lists!ListAnswered
  <2>2. form'.item \in Item \union {0} /\ DOMAIN form' = {"item", "filled"}
    <3>1. form' = form \/ form' = Lists!NoForm
      BY <1>4, Zenon DEF Lists!ListAnswered
    <3> QED BY <3>1 DEF Lists!NoForm, ListsInv, ListTypes
  <2>3. /\ list' \in [Lists!Slot -> Lists!List] /\ list'[s].pc = "none"
        /\ \A t \in Lists!Slot : t # s => list'[t] = list[t]
    BY <1>1, <2>1, Records
  <2>4. /\ op' \in [Lists!Window -> Lists!Op]
        /\ \A w \in Lists!Window : \/ op'[w] = op[w]
                                   \/ /\ op[w].pc \in {"listing", "asked"}
                                      /\ op'[w] = Lists!NoOp
    BY <1>1, <2>1, Records DEF Lists!Settled
  <2>5. op'["confirm"].pc # "none" => op'["confirm"] = op["confirm"]
    BY <1>1, <2>4, Records
  <2>6. shown' \in Lists!Items
    BY <1>1, <2>1 DEF Lists!List
  <2>7. ListTypes'
    BY <1>1, <1>2, <2>1, <2>2, <2>3, <2>4, <2>5, <2>6 DEF ListsInv, ListTypes
  <2>8. \A w \in Lists!Window : Lists!Calling(w)' <=> Lists!Calling(w)
    BY <2>4, Records DEF Lists!Calling
  <2>9. NoneSent' <=> NoneSent
    BY <2>8 DEF NoneSent
  <2>10. SUFFICES ASSUME Orderly' PROVE OneList' /\ UpToDate' /\ RowOnly'
    BY <2>7 DEF ListsInv
  <2>11. OneList /\ UpToDate /\ RowOnly
    BY <2>1, <2>10 DEF Orderly, ListsInv
  <2>12. Lists!Busy /\ ~Lists!Busy' /\ \A t \in Lists!Slot : list'[t].pc = "none"
    BY <2>1, <2>3, <2>11 DEF OneList, Lists!Busy
  <2>13. OneList'
    BY <2>12 DEF OneList
  <2>14. UpToDate'
    BY <2>1, <2>9, <2>11, <2>12 DEF UpToDate
  <2>15. RowOnly'
    <3>1. kind # "members" => ~Lists!Calling("confirm")'
      BY <1>1, <2>8, <2>11, <2>12 DEF OneList, NoneSent
    <3> QED BY <2>1, <3>1 DEF RowOnly, Lists!Calling
  <2> QED BY <2>13, <2>14, <2>15
<1>5. CASE Lists!ListFails(s)
  <2>1. /\ list[s].pc # "none" /\ Lists!Fail /\ list' = [list EXCEPT ![s] = Lists!NoList]
        /\ op' = [w \in Lists!Window |-> IF w = s /\ op[w].pc = "listing"
                                         THEN [op[w] EXCEPT !.pc = "asked"] ELSE op[w]]
        /\ UNCHANGED <<kind, stored, shown, form, mixed>>
    BY <1>5, Zenon DEF Lists!ListFails
  <2>2. list' \in [Lists!Slot -> Lists!List] /\ kind # "none"
    BY <1>1, <1>2, <2>1, Records
  <2>3. \A w \in Lists!Window : /\ [op[w] EXCEPT !.pc = "asked"] \in Lists!Op
                                /\ [op[w] EXCEPT !.pc = "asked"].item = op[w].item
    BY <1>1 DEF Lists!Op
  <2>4. op' \in [Lists!Window -> Lists!Op]
    BY <1>1, <2>1, <2>3
  <2>5. op'["confirm"].pc # "none" => op'["confirm"].item \in Item
    BY <1>1, <2>1, <2>3
  <2>6. form'.item \in Item \union {0} /\ DOMAIN form' = {"item", "filled"} /\ mixed' \in BOOLEAN
    BY <2>1 DEF ListsInv, ListTypes
  <2> QED BY <2>1, <2>2, <2>4, <2>5, <2>6, FailStep
<1> QED BY <1>3, <1>4, <1>5

\* Every step of a section keeps them.
LEMMA StepLists == ListsInv /\ Lists!Next => ListsInv'
BY OpenStep, DialogStep, ConfirmStep, ListStep DEF Lists!Next

\* A section with nothing under way shows what the server has, and what was
\* asked of a message is done and no list ahead of it (AccessTokenSection.tsx,
\* WebhookSection.tsx, SSOSection.tsx, MemberSection.tsx, ShortcutsSection.tsx,
\* MemoCommentMessage.tsx:73).
THEOREM ListsFollow == PagesSpec => []ListsSettle
<1> DEFINE Inv == /\ part = "lists" => ListsInv
                  /\ part = "inbox" => InboxInv
<1>1. PagesInit => Inv
  BY InitLists, InitInbox DEF PagesInit
<1>2. Inv /\ [PagesNext]_<<part, instance, lists, accounts, inUrl, cached, pages,
                           masonry, explorer, calendar, inbox, text>> => Inv'
  <2> SUFFICES ASSUME Inv,
                      [PagesNext]_<<part, instance, lists, accounts, inUrl, cached, pages,
                                    masonry, explorer, calendar, inbox, text>>
               PROVE  Inv'
    OBVIOUS
  <2>1. CASE UNCHANGED <<part, lists, inbox>>
    <3>1. UNCHANGED lists => (ListsInv => ListsInv')
      BY DEF lists, ListsInv, ListTypes, Orderly, OneList, UpToDate, RowOnly, NoneSent,
             Lists!Busy, Lists!Calling
    <3>2. UNCHANGED inbox => (InboxInv => InboxInv')
      BY DEF inbox, InboxInv, InboxTypes, NoneAhead, AskedOrDone
    <3> QED BY <2>1, <3>1, <3>2
  <2>2. CASE part = "lists" /\ Lists!Next /\ part' = part
    BY <2>2, StepLists
  <2>3. CASE part = "inbox" /\ Notifications!Next /\ part' = part
    BY <2>3, StepInbox
  <2> QED BY <2>1, <2>2, <2>3 DEF PagesNext
<1>3. Inv => ListsSettle
  <2> SUFFICES ASSUME Inv PROVE ListsSettle
    OBVIOUS
  <2>1. ASSUME part = "lists" PROVE Lists!ListsSettle
    BY <2>1 DEF ListsInv, Orderly, UpToDate, NoneSent, Lists!ListsSettle, Lists!Calling
  <2>2. ASSUME part = "inbox" PROVE Notifications!InboxSettles
    BY <2>2 DEF InboxInv, AskedOrDone, NoneAhead, RankOf, Notifications!InboxSettles
  <2> QED BY <2>1, <2>2 DEF ListsSettle
<1> QED BY <1>1, <1>2, <1>3, PTL DEF PagesSpec

(***************************************************************************)
(* The filters and the URL                                                 *)
(***************************************************************************)

\* A location, and the state of a render as its effects change it.
IsLocation(l) == DOMAIN l = {"path", "filter"}
IsTab(t) == DOMAIN t = {"filters", "queued", "updated", "syncedUrl", "syncedStore", "locations"}

\* Where the browser is: rendered, or to be.
Latest == IF locations = <<>> THEN url ELSE locations[Len(locations)]

\* The filters rendered are the ones last synced, from the location rendered or
\* to the latest one.
FiltersInv ==
    /\ syncedUrl = filters /\ syncedStore = filters
    /\ filters = url.filter \/ filters = Latest.filter
    /\ IsLocation(url) /\ \E S : locations \in Seq(S)
    /\ \A i \in DOMAIN locations : IsLocation(locations[i])

\* The location opened first.
LEMMA InitFilters == Filters!Init => FiltersInv
<1> SUFFICES ASSUME Filters!Init PROVE FiltersInv
  OBVIOUS
<1>1. /\ filters = url.filter /\ syncedUrl = filters /\ syncedStore = filters
      /\ locations = <<>>
  BY Zenon DEF Filters!Init
<1>2. IsLocation(url)
  BY DEF Filters!Init, IsLocation
<1>3. <<>> \in Seq({})
  OBVIOUS
<1> QED BY <1>1, <1>2, <1>3 DEF FiltersInv

\* What an effect leaves of a render's view of the state.
SameView(u, t) == IsTab(u) /\ u.filters = t.filters /\ u.locations = t.locations

\* Filters cleared for another page leave what was synced.
LEMMA Cleared ==
    ASSUME NEW t, IsTab(t), NEW from, NEW to
    PROVE  LET u == Filters!clearFilters(t, from, to)
           IN  SameView(u, t) /\ u.syncedUrl = t.syncedUrl /\ u.syncedStore = t.syncedStore
BY DEF Filters!clearFilters, Filters!Set, IsTab, SameView

\* Synced from the URL, both refs hold its filters.
LEMMA SyncedFromUrl ==
    ASSUME NEW t, IsTab(t), t.syncedUrl = t.syncedStore, NEW to
    PROVE  LET u == Filters!syncFromUrl(t, to)
           IN  SameView(u, t) /\ u.syncedUrl = to.filter /\ u.syncedStore = to.filter
BY DEF Filters!syncFromUrl, Filters!Set, IsTab, SameView

\* Synced to the URL, both refs hold the filters rendered.
LEMMA SyncedToUrl ==
    ASSUME NEW t, IsTab(t), t.syncedUrl = t.syncedStore, NEW to
    PROVE  LET u == Filters!syncToUrl(t, to)
           IN  /\ u.filters = t.filters /\ u.syncedUrl = t.filters /\ u.syncedStore = t.filters
               /\ \/ u.locations = t.locations /\ t.filters = t.syncedUrl
                  \/ u.locations = Append(t.locations, [to EXCEPT !.filter = t.filters])
BY DEF Filters!syncToUrl, IsTab

\* What a render's effects make of the state: the filters are synced where they
\* have changed, and the filters of the location rendered where it has.
LEMMA EffectsSync ==
    ASSUME NEW t, IsTab(t), t.syncedUrl = t.syncedStore, NEW from, NEW to, NEW took \in BOOLEAN,
           took \/ t.filters = t.syncedUrl
    PROVE  LET u == Filters!Effects(t, from, to, took)
               here == IF t.locations = <<>> THEN to ELSE t.locations[Len(t.locations)]
           IN  /\ u.filters = t.filters /\ u.syncedUrl = t.filters /\ u.syncedStore = t.filters
               /\ \/ /\ u.locations = t.locations
                     /\ \/ t.filters = to.filter
                        \/ t.filters = t.syncedUrl /\ to.filter = from.filter
                  \/ u.locations = Append(t.locations, [here EXCEPT !.filter = t.filters])
<1> DEFINE here == IF t.locations = <<>> THEN to ELSE t.locations[Len(t.locations)]
           u == Filters!Effects(t, from, to, took)
           c == Filters!clearFilters(t, from, to)
           s == Filters!syncFromUrl(c, to)
           rc == Filters!syncToUrl(c, here)
           rs == Filters!syncToUrl(s, here)
<1>1. /\ SameView(c, t) /\ c.syncedUrl = t.syncedUrl /\ c.syncedStore = t.syncedStore
  BY Cleared
<1>2. SameView(s, c) /\ s.syncedUrl = to.filter /\ s.syncedStore = to.filter
  <2> HIDE DEF c
  <2> QED BY <1>1, SyncedFromUrl DEF SameView
<1>3. /\ rs.filters = s.filters /\ rs.syncedUrl = s.filters /\ rs.syncedStore = s.filters
      /\ \/ rs.locations = s.locations /\ s.filters = s.syncedUrl
         \/ rs.locations = Append(s.locations, [here EXCEPT !.filter = s.filters])
  <2> HIDE DEF s, here
  <2> QED BY <1>2, SyncedToUrl DEF SameView
<1>4. /\ rc.filters = c.filters /\ rc.syncedUrl = c.filters /\ rc.syncedStore = c.filters
      /\ \/ rc.locations = c.locations /\ c.filters = c.syncedUrl
         \/ rc.locations = Append(c.locations, [here EXCEPT !.filter = c.filters])
  <2> HIDE DEF c, here
  <2> QED BY <1>1, SyncedToUrl DEF SameView
<1>5. s.locations = t.locations /\ c.locations = t.locations
  BY <1>1, <1>2 DEF SameView
<1>6. CASE to.filter # from.filter
  <2>1. u = rs
    BY <1>5, <1>6, Zenon DEF Filters!Effects
  <2> HIDE DEF u, c, s, rc, rs, here
  <2> QED BY <1>1, <1>2, <1>3, <2>1 DEF SameView, here, u
<1>7. CASE to.filter = from.filter /\ took
  <2>1. u = rc
    BY <1>5, <1>7, Zenon DEF Filters!Effects
  <2> HIDE DEF u, c, s, rc, rs, here
  <2> QED BY <1>1, <1>4, <1>7, <2>1 DEF SameView, here, u
<1>8. CASE to.filter = from.filter /\ ~took
  <2>1. u = c
    BY <1>8, Zenon DEF Filters!Effects
  <2> HIDE DEF u, c, s, rc, rs, here
  <2> QED BY <1>1, <1>8, <2>1 DEF SameView, here, u
<1> QED BY <1>6, <1>7, <1>8

\* Of so many, what is left after n.
LEMMA Left ==
    ASSUME NEW l \in Nat, NEW n \in Nat, n <= l
    PROVE  /\ n + 1 \in Nat /\ l - (n + 1) + 1 = l - n /\ n + 1 >= 1
           /\ n + 1 <= l \/ (l - n = 0 /\ ~(n + 1 <= l))
OBVIOUS

\* What is left of the locations, and one more.
LEMMA Rested ==
    ASSUME NEW S, NEW q \in Seq(S), NEW n \in 0..Len(q)
    PROVE  LET r == SubSeq(q, n + 1, Len(q))
           IN  /\ r \in Seq(S)
               /\ n = Len(q) => r = <<>>
               /\ n < Len(q) => r # <<>> /\ r[Len(r)] = q[Len(q)]
               /\ \A i \in DOMAIN r : r[i] = q[n + i] /\ n + i \in DOMAIN q
<1> DEFINE r == SubSeq(q, n + 1, Len(q))
<1>1. Len(q) \in Nat /\ n \in Nat /\ n <= Len(q) /\ DOMAIN q = 1..Len(q)
  OBVIOUS
<1>2. r \in Seq(S)
  BY <1>1
<1>3. Len(r) = Len(q) - n /\ DOMAIN r = 1..(Len(q) - n) /\ \A i \in 1..(Len(q) - n) : r[i] = q[n + i]
  <2> DEFINE l == Len(q)
             m == n + 1
  <2>1. /\ l \in Nat /\ m \in Nat /\ l - m + 1 = l - n /\ m >= 1 /\ l = Len(q)
        /\ n \in Nat /\ n <= l /\ m = n + 1
    BY <1>1
  <2>2. r = SubSeq(q, m, l)
    OBVIOUS
  <2> HIDE DEF m, l, r
  <2>3. Len(SubSeq(q, m, l)) = IF m <= l THEN l - m + 1 ELSE 0
    BY <2>1
  <2>4. \A i \in 1..(l - m + 1) : SubSeq(q, m, l)[i] = q[m + i - 1]
    BY <2>1
  <2>5. Len(r) = l - n
    <3>1. m <= l \/ (l - n = 0 /\ ~(m <= l))
      BY <2>1, Left, Zenon
    <3>2. Len(r) = IF m <= l THEN l - m + 1 ELSE 0
      BY <2>2, <2>3, Zenon
    <3>3. CASE m <= l
      <4>1. Len(r) = l - m + 1
        BY <3>2, <3>3, Zenon
      <4> QED BY <2>1, <4>1, Zenon
    <3>4. CASE ~(m <= l)
      BY <3>1, <3>2, <3>4, Zenon
    <3> QED BY <3>3, <3>4
  <2>6. DOMAIN r = 1..(l - n)
    BY <1>2, <2>5
  <2>7. \A i \in 1..(l - n) : m + i - 1 = n + i
    BY <1>1, <2>1 DEF m
  <2>8. \A i \in 1..(l - n) : r[i] = q[n + i]
    BY <2>1, <2>2, <2>4, <2>7, Zenon
  <2> QED BY <2>1, <2>5, <2>6, <2>8, Zenon
<1> HIDE DEF r
<1>4. n = Len(q) => r = <<>>
  BY <1>1, <1>2, <1>3
<1>5. n < Len(q) => r # <<>> /\ r[Len(r)] = q[Len(q)]
  BY <1>1, <1>2, <1>3
<1>6. \A i \in DOMAIN r : r[i] = q[n + i] /\ n + i \in DOMAIN q
  BY <1>1, <1>3
<1> QED BY <1>2, <1>4, <1>5, <1>6 DEF r

\* One value more, the others as they were.
LEMMA OneMore ==
    ASSUME NEW S, NEW q \in Seq(S), NEW x
    PROVE  /\ Append(q, x) \in Seq(S \union {x})
           /\ Append(q, x) # <<>> /\ Append(q, x)[Len(Append(q, x))] = x
           /\ \A i \in DOMAIN Append(q, x) : (i \in DOMAIN q /\ Append(q, x)[i] = q[i]) \/ Append(q, x)[i] = x
<1>1. q \in Seq(S \union {x}) /\ x \in S \union {x}
  OBVIOUS
<1> QED BY <1>1

\* A render.
LEMMA RenderStep ==
    ASSUME FiltersInv, Filters!Render
    PROVE  FiltersInv'
<1>1. PICK n \in 0..Len(locations), took \in BOOLEAN :
          LET to == IF n = 0 THEN url ELSE locations[n]
              rest == [Filters!Tab EXCEPT !.locations = SubSeq(@, n + 1, Len(@))]
              tab == IF took THEN [rest EXCEPT !.filters = queued, !.updated = FALSE] ELSE rest
          IN  Filters!Become(Filters!Effects(tab, url, to, took), to)
  BY Zenon DEF Filters!Render
<1> DEFINE to == IF n = 0 THEN url ELSE locations[n]
           r == SubSeq(locations, n + 1, Len(locations))
           rest == [Filters!Tab EXCEPT !.locations = SubSeq(@, n + 1, Len(@))]
           tab == IF took THEN [rest EXCEPT !.filters = queued, !.updated = FALSE] ELSE rest
           here == IF tab.locations = <<>> THEN to ELSE tab.locations[Len(tab.locations)]
           u == Filters!Effects(tab, url, to, took)
<1>2. PICK S : locations \in Seq(S)
  BY DEF FiltersInv
<1>3. /\ IsTab(rest) /\ rest.filters = filters /\ rest.syncedUrl = filters
      /\ rest.syncedStore = filters /\ rest.locations = r
  BY DEF Filters!Tab, IsTab, FiltersInv
<1>4. /\ IsTab(tab) /\ tab.syncedUrl = filters /\ tab.syncedStore = filters
      /\ tab.locations = r /\ (took \/ tab.filters = filters)
  <2> HIDE DEF rest
  <2> QED BY <1>3 DEF IsTab
<1>5. /\ u.filters = tab.filters /\ u.syncedUrl = tab.filters /\ u.syncedStore = tab.filters
      /\ \/ /\ u.locations = tab.locations
            /\ \/ tab.filters = to.filter
               \/ tab.filters = tab.syncedUrl /\ to.filter = url.filter
         \/ u.locations = Append(tab.locations, [here EXCEPT !.filter = tab.filters])
  <2>1. tab.syncedUrl = tab.syncedStore /\ (took \/ tab.filters = tab.syncedUrl)
    BY <1>4, Zenon
  <2> HIDE DEF tab, to
  <2> QED BY <1>4, <2>1, EffectsSync, ZenonT(40)
<1>6. /\ url' = to /\ locations' = u.locations /\ filters' = u.filters
      /\ syncedUrl' = u.syncedUrl /\ syncedStore' = u.syncedStore
  <2> QED BY <1>1, Zenon DEF Filters!Become
<1>7. /\ r \in Seq(S)
      /\ n = Len(locations) => r = <<>>
      /\ n < Len(locations) => r # <<>> /\ r[Len(r)] = locations[Len(locations)]
      /\ \A i \in DOMAIN r : r[i] = locations[n + i] /\ n + i \in DOMAIN locations
  BY <1>2, Rested
<1> HIDE DEF u, tab, rest
<1>8. IsLocation(to) /\ \A i \in DOMAIN r : IsLocation(r[i])
  BY <1>2, <1>7 DEF FiltersInv
<1>9. IsLocation(here)
  <2> HIDE DEF r, to
  <2>1. r # <<>> => Len(r) \in DOMAIN r
    BY <1>7
  <2> QED BY <1>4, <1>8, <2>1
<1>10. (IF r = <<>> THEN to ELSE r[Len(r)]) = Latest
  <2>1. CASE n = Len(locations)
    <3>1. to = Latest
      BY <1>2, <2>1 DEF Latest
    <3> HIDE DEF r, to
    <3> QED BY <1>7, <2>1, <3>1
  <2>2. CASE n < Len(locations)
    <3>1. locations # <<>>
      BY <1>2, <2>2
    <3> HIDE DEF r, to
    <3> QED BY <1>7, <2>2, <3>1 DEF Latest
  <2>3. n = Len(locations) \/ n < Len(locations)
    BY <1>2
  <2> QED BY <2>1, <2>2, <2>3
<1>11. syncedUrl' = filters' /\ syncedStore' = filters' /\ IsLocation(url')
  BY <1>5, <1>6, <1>8
<1>12. CASE u.locations = Append(tab.locations, [here EXCEPT !.filter = tab.filters])
  <2> DEFINE x == [here EXCEPT !.filter = tab.filters]
  <2>1. IsLocation(x) /\ x.filter = tab.filters
    BY <1>9 DEF IsLocation
  <2> HIDE DEF x, here, r, to
  <2>2. locations' = Append(r, x)
    BY <1>4, <1>6, <1>12 DEF x
  <2>3. /\ locations' \in Seq(S \union {x})
        /\ locations' # <<>> /\ locations'[Len(locations')] = x
        /\ \A i \in DOMAIN locations' : IsLocation(locations'[i])
    BY <1>7, <1>8, <2>1, <2>2, OneMore
  <2>4. filters' = Latest'.filter
    BY <1>5, <1>6, <2>1, <2>3 DEF Latest
  <2> QED BY <1>11, <2>3, <2>4 DEF FiltersInv
<1>13. CASE /\ u.locations = tab.locations
            /\ tab.filters = to.filter \/ (tab.filters = tab.syncedUrl /\ to.filter = url.filter)
  <2>1. locations' = r
    BY <1>4, <1>6, <1>13
  <2>2. Latest' = Latest
    BY <1>6, <1>10, <2>1 DEF Latest
  <2>3. filters' = url'.filter \/ filters' = Latest'.filter
    BY <1>4, <1>5, <1>6, <1>13, <2>2 DEF FiltersInv
  <2> HIDE DEF r, to
  <2> QED BY <1>7, <1>8, <1>11, <2>1, <2>3 DEF FiltersInv
<1> QED BY <1>5, <1>12, <1>13

\* A render brings what was done since the last, and only that syncs anything.
LEMMA StepFilters ==
    ASSUME FiltersInv, Filters!Next
    PROVE  FiltersInv'
<1>1. ASSUME NEW to, IsLocation(to), Filters!Navigate(to) PROVE FiltersInv'
  <2>1. /\ locations = <<>> /\ locations' = <<to>>
        /\ UNCHANGED <<url, filters, syncedUrl, syncedStore>>
    BY <1>1, Zenon DEF Filters!Navigate
  <2>2. <<to>> \in Seq({to}) /\ DOMAIN <<to>> = {1} /\ <<to>>[1] = to
    OBVIOUS
  <2>3. filters' = url'.filter
    BY <2>1 DEF FiltersInv, Latest
  <2> QED BY <1>1, <2>1, <2>2, <2>3 DEF FiltersInv
<1>2. ASSUME NEW f, Filters!setFilters(f) PROVE FiltersInv'
  BY <1>2 DEF Filters!setFilters, FiltersInv, Latest
<1>3. ASSUME NEW p, NEW f PROVE IsLocation([path |-> p, filter |-> f])
  BY DEF IsLocation
<1>4. CASE Filters!Render
  BY <1>4, RenderStep
<1>5. CASE \E p \in Filters!Path, f \in {<<>>, <<"#a">>} : Filters!Navigate([path |-> p, filter |-> f])
  BY <1>1, <1>3, <1>5
<1>6. CASE Filters!navigateToDateFilter
  BY <1>1, <1>3, <1>6 DEF Filters!navigateToDateFilter
<1>7. ASSUME NEW t \in Filters!Tags, Filters!handleTagClick(t) \/ Filters!openTag(t) PROVE FiltersInv'
  BY <1>1, <1>2, <1>3, <1>7 DEF Filters!handleTagClick, Filters!openTag
<1>8. CASE Filters!search
  BY <1>2, <1>8 DEF Filters!search
<1>9. ASSUME NEW f \in Filters!Filter, Filters!handleRemoveFilter(f) PROVE FiltersInv'
  BY <1>2, <1>9 DEF Filters!handleRemoveFilter
<1> QED BY <1>4, <1>5, <1>6, <1>7, <1>8, <1>9 DEF Filters!Next

(***************************************************************************)
(* The explorer                                                            *)
(***************************************************************************)

\* A call of getUser: the latest is for the page shown, and if it was answered
\* last the user shown is the page's.
ExplorerInv ==
    /\ chosen \subseteq Explorer!Conditions
    /\ stats \subseteq Explorer!Known \union {Explorer!Everyone}
    /\ requests \in Seq([user : Explorer!Named, id : Nat])
    /\ sent \in Nat /\ taken \in Nat /\ taken <= sent
    /\ \A i \in DOMAIN requests : requests[i].id <= sent
    /\ path \in Explorer!Named =>
           /\ sent > 0
           /\ \A i \in DOMAIN requests : requests[i].id = sent => requests[i].user = path
           /\ taken = sent => profileUser = path

\* No call has been made.
LEMMA InitExplorer == Explorer!Init => ExplorerInv
<1> SUFFICES ASSUME Explorer!Init PROVE ExplorerInv
  OBVIOUS
<1>1. chosen = {} /\ stats = {} /\ requests = <<>> /\ sent = 0 /\ taken = 0 /\ path = "home"
  BY Zenon DEF Explorer!Init
<1>2. path \notin Explorer!Named
  BY <1>1 DEF Explorer!Named
<1>3. <<>> \in Seq([user : Explorer!Named, id : Nat]) /\ DOMAIN <<>> = {}
  OBVIOUS
<1> QED BY <1>1, <1>2, <1>3 DEF ExplorerInv

\* A call leaves the others as they are.
LEMMA Taken ==
    ASSUME NEW S, NEW q \in Seq(S), NEW i \in DOMAIN q
    PROVE  /\ Explorer!RemoveAt(q, i) \in Seq(S)
           /\ \A j \in DOMAIN Explorer!RemoveAt(q, i) :
                 \E k \in DOMAIN q : Explorer!RemoveAt(q, i)[j] = q[k]
<1> DEFINE a == SubSeq(q, 1, i - 1)
           b == SubSeq(q, i + 1, Len(q))
           c == a \o b
<1>1. i \in 1..Len(q) /\ Len(q) \in Nat /\ DOMAIN q = 1..Len(q)
  OBVIOUS
<1>2. Explorer!RemoveAt(q, i) = c
  BY DEF Explorer!RemoveAt
<1> DEFINE R == {q[k] : k \in DOMAIN q}
<1>3. q \in Seq(R)
  BY <1>1
<1>4. a \in Seq(R) /\ b \in Seq(R)
  BY <1>1, <1>3
<1>5. a \in Seq(S) /\ b \in Seq(S)
  BY <1>1
<1> HIDE DEF a, b, R
<1>6. c \in Seq(S) /\ c \in Seq(R)
  BY <1>4, <1>5
<1> HIDE DEF c
<1>7. \A j \in DOMAIN c : c[j] \in R
  BY <1>6
<1> QED BY <1>2, <1>6, <1>7 DEF R

\* A page is shown, and the last answer of getUser taken.
LEMMA StepExplorer ==
    ASSUME ExplorerInv, Explorer!Next
    PROVE  ExplorerInv'
<1> DEFINE Request == [user : Explorer!Named, id : Nat]
<1>1. requests \in Seq(Request) /\ sent \in Nat /\ taken \in Nat /\ taken <= sent
  BY DEF ExplorerInv
<1>2. ASSUME NEW p \in Explorer!Page, Explorer!Visit(p), p \in Explorer!Named PROVE ExplorerInv'
  <2> DEFINE c == [user |-> p, id |-> sent + 1]
  <2>1. /\ path' = p /\ sent' = sent + 1 /\ requests' = Append(requests, c)
        /\ UNCHANGED <<profileUser, taken, stats>>
    BY <1>2 DEF Explorer!Visit
  <2>2. chosen' \subseteq chosen
    BY <1>2 DEF Explorer!Visit
  <2>3. c \in Request /\ c.user = p /\ c.id = sent + 1
    BY <1>1, <1>2
  <2> HIDE DEF c, Request
  <2>4. requests' \in Seq(Request)
    BY <1>1, <2>1, <2>3
  <2>5. \A i \in DOMAIN requests' : (i \in DOMAIN requests /\ requests'[i] = requests[i]) \/ requests'[i] = c
    BY <1>1, <2>1, <2>3
  <2>6. \A i \in DOMAIN requests : requests[i] \in Request
    BY <1>1
  <2>7. \A i \in DOMAIN requests : requests[i].id \in Nat /\ requests[i].id <= sent
    BY <2>6 DEF Request, ExplorerInv
  <2>8. \A i \in DOMAIN requests' : /\ requests'[i].id <= sent'
                                    /\ requests'[i].id = sent' => requests'[i].user = path'
    BY <1>1, <2>1, <2>3, <2>5, <2>7
  <2>9. taken' <= sent' /\ sent' > 0 /\ taken' # sent' /\ sent' \in Nat
    BY <1>1, <2>1
  <2> QED BY <2>1, <2>2, <2>4, <2>8, <2>9 DEF ExplorerInv, Request
<1>3. ASSUME NEW p \in Explorer!Page, Explorer!Visit(p), p \notin Explorer!Named PROVE ExplorerInv'
  <2>1. /\ path' = p /\ profileUser' = Explorer!Nobody /\ taken' = 0
        /\ requests' = <<>> \/ requests' = requests
        /\ UNCHANGED <<stats, sent>>
    BY <1>3, Zenon DEF Explorer!Visit
  <2>2. chosen' \subseteq chosen
    BY <1>3 DEF Explorer!Visit
  <2>3. <<>> \in Seq(Request) /\ DOMAIN <<>> = {}
    OBVIOUS
  <2> HIDE DEF Request
  <2>4. requests' \in Seq(Request) /\ \A i \in DOMAIN requests' : requests'[i].id <= sent
    BY <1>1, <2>1, <2>3 DEF ExplorerInv
  <2> QED BY <1>1, <1>3, <2>1, <2>2, <2>4 DEF ExplorerInv, Request
<1>4. ASSUME NEW i \in DOMAIN requests, Explorer!GetUserAnswered(i) \/ Explorer!GetUserFailed(i)
      PROVE  ExplorerInv'
  <2>1. /\ requests' = Explorer!RemoveAt(requests, i)
        /\ UNCHANGED <<path, stats, chosen, sent>>
    BY <1>4, Zenon DEF Explorer!GetUserAnswered, Explorer!GetUserFailed
  <2>2. \/ taken' = requests[i].id /\ profileUser' = requests[i].user
        \/ taken' = 0 /\ profileUser' = Explorer!Nobody
    BY <1>4, Zenon DEF Explorer!GetUserAnswered, Explorer!GetUserFailed
  <2> HIDE DEF Request
  <2>3. /\ requests' \in Seq(Request)
        /\ \A j \in DOMAIN requests' : \E k \in DOMAIN requests : requests'[j] = requests[k]
    BY <1>1, <2>1, Taken
  <2>4. \A j \in DOMAIN requests : requests[j] \in Request
    BY <1>1
  <2>5. requests[i].id \in Nat /\ requests[i].id <= sent
    BY <2>4 DEF Request, ExplorerInv
  <2>6. taken' \in Nat /\ taken' <= sent
    BY <1>1, <2>2, <2>5
  <2>7. \A j \in DOMAIN requests' : /\ requests'[j].id <= sent'
    BY <2>1, <2>3 DEF ExplorerInv
  <2>8. path \in Explorer!Named =>
           /\ sent > 0
           /\ \A j \in DOMAIN requests' : requests'[j].id = sent => requests'[j].user = path
    BY <2>3 DEF ExplorerInv
  <2>9. path \in Explorer!Named => (taken' = sent => profileUser' = path)
    BY <2>2, <2>8 DEF ExplorerInv
  <2> QED BY <1>1, <2>1, <2>3, <2>6, <2>7, <2>8, <2>9 DEF ExplorerInv, Request
<1>5. ASSUME NEW u \in Explorer!Named, Explorer!UserFound(u) \/ Explorer!UserNotFound(u)
      PROVE  ExplorerInv'
  BY <1>5 DEF Explorer!UserFound, Explorer!UserNotFound, ExplorerInv
<1>6. ASSUME NEW u \in Explorer!Known \union {Explorer!Everyone}, Explorer!StatsLoaded(u)
      PROVE  ExplorerInv'
  BY <1>6 DEF Explorer!StatsLoaded, ExplorerInv
<1>7. ASSUME NEW c \in Explorer!Conditions, Explorer!choose(c) PROVE ExplorerInv'
  BY <1>7 DEF Explorer!choose, ExplorerInv
<1> QED BY <1>2, <1>3, <1>4, <1>5, <1>6, <1>7 DEF Explorer!Next

\* What the list shows is then of whom the explorer counts.
LEMMA ExplorerCounts == ExplorerInv => Explorer!ExplorerFollows
<1> SUFFICES ASSUME ExplorerInv, requests = <<>>,
                    {Explorer!statsUserName, Explorer!Everyone} \subseteq stats \union {Explorer!Nobody}
             PROVE  /\ path = "home" => Explorer!Creators = {Explorer!counted}
                    /\ path \in Explorer!Known /\ users[path] = "found" /\ taken = sent =>
                           Explorer!Creators = {Explorer!counted}
                    /\ path = "explore" => Explorer!Creators = Explorer!Known
                                           /\ Explorer!counted = Explorer!Everyone
  BY DEF Explorer!ExplorerFollows
<1> DEFINE memoOf(u) == [creator |-> u, visibility |-> "PUBLIC", archived |-> FALSE,
                         meets |-> Explorer!Conditions]
<1>1. \A u \in Explorer!Known : /\ memoOf(u) \in Explorer!Memo /\ memoOf(u).creator = u
                                /\ memoOf(u).visibility = "PUBLIC" /\ memoOf(u).archived = FALSE
                                /\ memoOf(u).meets = Explorer!Conditions
  BY DEF Explorer!Memo
<1>2. /\ Explorer!Nobody \notin stats /\ Explorer!Everyone \in stats
      /\ Explorer!Me \in Explorer!Known /\ chosen \subseteq Explorer!Conditions
  BY DEF ExplorerInv, Explorer!Nobody, Explorer!Everyone, Explorer!Known, Explorer!Me
<1> HIDE DEF memoOf
<1>3. CASE path = "home"
  <2>1. path \notin Explorer!Named /\ Explorer!statsUserName = Explorer!Me
    BY <1>3 DEF Explorer!Named, Explorer!statsUserName
  <2>2. Explorer!counted = Explorer!Me
    BY <1>2, <2>1 DEF Explorer!counted, Explorer!Me, Explorer!Nobody
  <2>3. \A m \in Explorer!listed : m.creator = Explorer!Me
    BY <1>3, <2>1 DEF Explorer!listed, Explorer!memoFilter
  <2>4. memoOf(Explorer!Me) \in Explorer!listed
    BY <1>1, <1>2, <1>3, <2>1 DEF Explorer!listed, Explorer!memoFilter
  <2>5. Explorer!Creators = {Explorer!Me}
    BY <1>1, <1>2, <2>3, <2>4 DEF Explorer!Creators
  <2>6. path \notin Explorer!Known /\ path # "explore"
    BY <1>3 DEF Explorer!Known
  <2> QED BY <2>2, <2>5, <2>6
<1>4. ASSUME path \in Explorer!Known, users[path] = "found", taken = sent
      PROVE  Explorer!Creators = {Explorer!counted}
  <2>1. path \in Explorer!Named /\ path \notin {"home", "explore", "archived", "elsewhere"}
    BY <1>4 DEF Explorer!Known, Explorer!Named
  <2>2. Explorer!statsUserName = path
    BY <1>4, <2>1 DEF Explorer!statsUserName, ExplorerInv
  <2>3. Explorer!counted = path
    BY <1>2, <1>4, <2>2 DEF Explorer!counted, Explorer!Known, Explorer!Nobody
  <2>4. \A m \in Explorer!listed : m.creator = path
    BY <2>1 DEF Explorer!listed, Explorer!memoFilter
  <2>5. memoOf(path) \in Explorer!listed
    BY <1>1, <1>2, <1>4, <2>1 DEF Explorer!listed, Explorer!memoFilter
  <2>6. Explorer!Creators = {path}
    BY <1>1, <1>4, <2>4, <2>5 DEF Explorer!Creators
  <2> QED BY <2>3, <2>6
<1>5. CASE path = "explore"
  <2>1. path \notin Explorer!Named /\ Explorer!statsUserName = Explorer!Nobody
    BY <1>5 DEF Explorer!Named, Explorer!statsUserName
  <2>2. Explorer!counted = Explorer!Everyone
    BY <1>2, <2>1 DEF Explorer!counted
  <2>3. \A m \in Explorer!listed : m.creator \in Explorer!Known
    BY DEF Explorer!listed, Explorer!Memo
  <2>4. \A u \in Explorer!Known : memoOf(u) \in Explorer!listed
    BY <1>1, <1>2, <1>5, <2>1 DEF Explorer!listed, Explorer!memoFilter
  <2>5. Explorer!Creators = Explorer!Known
    BY <1>1, <2>3, <2>4 DEF Explorer!Creators
  <2>6. path \notin Explorer!Known /\ path # "home"
    BY <1>5 DEF Explorer!Known
  <2> QED BY <2>2, <2>5, <2>6
<1> QED BY <1>3, <1>4, <1>5

(***************************************************************************)
(* The calendar                                                            *)
(***************************************************************************)

\* A month of any year.
AnyMonth == [year : Int, month : 1..12]

\* A month is shown, and the day asked for is one with memos.
CalendarInv ==
    /\ visibleMonth \in AnyMonth
    /\ activityStats \in [Calendar!Days -> 0..4]
    /\ weekStartDayOffset \in -1..1
    /\ navigated # 0 => navigated \in Calendar!Days /\ activityStats[navigated] > 0

\* This February is shown.
LEMMA InitCalendar == Calendar!Init => CalendarInv
<1> SUFFICES ASSUME Calendar!Init PROVE CalendarInv
  OBVIOUS
<1>1. Calendar!ThisYear \in Int
  BY CalendarAssumption DEF Calendar!ThisYear
<1>2. visibleMonth \in AnyMonth
  BY <1>1 DEF Calendar!Init, AnyMonth
<1>3. activityStats \in [Calendar!Days -> 0..4]
  <2>1. PICK n \in {0, 2, 4} : activityStats = [d \in Calendar!Days |->
                IF d = Calendar!endOf([year |-> Calendar!ThisYear, month |-> 2]) THEN n ELSE 1]
    BY Zenon DEF Calendar!Init
  <2> QED BY <2>1
<1> QED BY <1>2, <1>3 DEF Calendar!Init, CalendarInv

\* A month or year is shown, or a day with memos asked for.
LEMMA StepCalendar ==
    ASSUME CalendarInv, Calendar!Next
    PROVE  CalendarInv'
<1>1. ASSUME NEW x, Calendar!onMonthChange(x) PROVE visibleMonth' \in AnyMonth
  BY <1>1, CalendarAssumption DEF Calendar!onMonthChange, Calendar!Month, AnyMonth
<1>2. CASE Calendar!handleClick
  <2>1. PICK i \in 1..Calendar!calculateCalendarBoundaries(visibleMonth).dayCount :
            LET cell == Calendar!useCalendarMatrix(visibleMonth, activityStats)[i]
            IN  Calendar!isInteractive(cell) /\ navigated' = cell.date
    BY <1>2, Zenon DEF Calendar!handleClick
  <2> DEFINE cell == Calendar!useCalendarMatrix(visibleMonth, activityStats)[i]
  <2>2. cell.count = Calendar!count(activityStats, cell.date)
    BY <2>1 DEF Calendar!useCalendarMatrix
  <2>3. cell.count > 0 /\ navigated' = cell.date
    BY <2>1 DEF Calendar!isInteractive
  <2> HIDE DEF cell
  <2>4. navigated' \in Calendar!Days /\ activityStats[navigated'] > 0
    BY <2>2, <2>3 DEF Calendar!count, CalendarInv
  <2>5. UNCHANGED <<visibleMonth, activityStats, weekStartDayOffset>>
    BY <1>2, Zenon DEF Calendar!handleClick
  <2> QED BY <2>4, <2>5 DEF CalendarInv
<1>3. ASSUME visibleMonth' \in AnyMonth, UNCHANGED <<activityStats, weekStartDayOffset, navigated>>
      PROVE  CalendarInv'
  BY <1>3 DEF CalendarInv
<1>4. CASE Calendar!handlePrevMonth \/ Calendar!handleNextMonth
  BY <1>1, <1>3, <1>4, Zenon DEF Calendar!handlePrevMonth, Calendar!handleNextMonth
<1>5. CASE Calendar!setIsOpen
  BY <1>3, <1>5 DEF Calendar!setIsOpen, CalendarInv
<1>6. CASE Calendar!handleYearChange
  BY <1>1, <1>3, <1>6, Zenon DEF Calendar!handleYearChange
<1>7. CASE Calendar!handleDateClick
  BY <1>1, <1>3, <1>7, Zenon DEF Calendar!handleDateClick
<1> QED BY <1>2, <1>4, <1>5, <1>6, <1>7 DEF Calendar!Next

\* When a month and a year start.
Start(y, m) == Calendar!startOf([year |-> y, month |-> m])
Base(y) == 1 + 365 * (y - 1996) + ((y - 1993) \div 4)
LeapDay(y) == IF Calendar!Leap(y) THEN 1 ELSE 0

\* When each month starts.
LEMMA Starts ==
    ASSUME NEW y \in Int
    PROVE  /\ Base(y) \in Int /\ LeapDay(y) \in 0..1
           /\ Start(y, 1) = Base(y) /\ Start(y, 2) = Base(y) + 31
           /\ Start(y, 3) = Base(y) + 59 + LeapDay(y)
           /\ Start(y, 4) = Base(y) + 90 + LeapDay(y)
           /\ Start(y, 5) = Base(y) + 120 + LeapDay(y)
           /\ Start(y, 6) = Base(y) + 151 + LeapDay(y)
           /\ Start(y, 7) = Base(y) + 181 + LeapDay(y)
           /\ Start(y, 8) = Base(y) + 212 + LeapDay(y)
           /\ Start(y, 9) = Base(y) + 243 + LeapDay(y)
           /\ Start(y, 10) = Base(y) + 273 + LeapDay(y)
           /\ Start(y, 11) = Base(y) + 304 + LeapDay(y)
           /\ Start(y, 12) = Base(y) + 334 + LeapDay(y)
<1>1. Base(y) \in Int /\ LeapDay(y) \in 0..1
  BY DEF Base, LeapDay
<1>2. /\ Calendar!DaysBefore[1] = 0 /\ Calendar!DaysBefore[2] = 31 /\ Calendar!DaysBefore[3] = 59
      /\ Calendar!DaysBefore[4] = 90 /\ Calendar!DaysBefore[5] = 120 /\ Calendar!DaysBefore[6] = 151
      /\ Calendar!DaysBefore[7] = 181 /\ Calendar!DaysBefore[8] = 212 /\ Calendar!DaysBefore[9] = 243
      /\ Calendar!DaysBefore[10] = 273 /\ Calendar!DaysBefore[11] = 304
      /\ Calendar!DaysBefore[12] = 334
  BY DEF Calendar!DaysBefore
<1>3. \A m \in 1..12 : Start(y, m) = Base(y) + Calendar!DaysBefore[m]
                                      + (IF Calendar!Leap(y) /\ m > 2 THEN 1 ELSE 0)
  <2> TAKE m \in 1..12
  <2> DEFINE x == [year |-> y, month |-> m]
  <2>1. x.year = y /\ x.month = m
    OBVIOUS
  <2>2. Calendar!startOf(x) =
            1 + 365 * (x.year - 1996) + ((x.year - 1993) \div 4) + Calendar!DaysBefore[x.month]
              + (IF Calendar!Leap(x.year) /\ x.month > 2 THEN 1 ELSE 0)
    BY Zenon DEF Calendar!startOf
  <2> HIDE DEF x
  <2>3. Calendar!startOf(x) = Base(y) + Calendar!DaysBefore[m]
                               + (IF Calendar!Leap(y) /\ m > 2 THEN 1 ELSE 0)
    BY <1>2, <2>1, <2>2, SMTT(60) DEF Base, Calendar!Leap
  <2> QED BY <2>3, Zenon DEF x, Start
<1> QED BY <1>1, <1>2, <1>3 DEF LeapDay

\* And how many days it has.
LEMMA Lengths ==
    ASSUME NEW y \in Int
    PROVE  /\ Calendar!DaysIn(y, 2) = 28 + LeapDay(y)
           /\ Calendar!DaysIn(y, 4) = 30 /\ Calendar!DaysIn(y, 6) = 30
           /\ Calendar!DaysIn(y, 9) = 30 /\ Calendar!DaysIn(y, 11) = 30
           /\ Calendar!DaysIn(y, 1) = 31 /\ Calendar!DaysIn(y, 3) = 31
           /\ Calendar!DaysIn(y, 5) = 31 /\ Calendar!DaysIn(y, 7) = 31
           /\ Calendar!DaysIn(y, 8) = 31 /\ Calendar!DaysIn(y, 10) = 31
           /\ Calendar!DaysIn(y, 12) = 31
BY DEF Calendar!DaysIn, LeapDay

\* So all of it follows from when the year starts, and whether it has a leap day.
LEMMA Months ==
    ASSUME NEW y \in Int
    PROVE  \E b \in Int, l \in 0..1 :
               /\ Start(y, 1) = b /\ Calendar!DaysIn(y, 1) = 31
               /\ Start(y, 2) = b + 31 /\ Calendar!DaysIn(y, 2) = 28 + l
               /\ Start(y, 3) = b + 59 + l /\ Calendar!DaysIn(y, 3) = 31
               /\ Start(y, 4) = b + 90 + l /\ Calendar!DaysIn(y, 4) = 30
               /\ Start(y, 5) = b + 120 + l /\ Calendar!DaysIn(y, 5) = 31
               /\ Start(y, 6) = b + 151 + l /\ Calendar!DaysIn(y, 6) = 30
               /\ Start(y, 7) = b + 181 + l /\ Calendar!DaysIn(y, 7) = 31
               /\ Start(y, 8) = b + 212 + l /\ Calendar!DaysIn(y, 8) = 31
               /\ Start(y, 9) = b + 243 + l /\ Calendar!DaysIn(y, 9) = 30
               /\ Start(y, 10) = b + 273 + l /\ Calendar!DaysIn(y, 10) = 31
               /\ Start(y, 11) = b + 304 + l /\ Calendar!DaysIn(y, 11) = 30
               /\ Start(y, 12) = b + 334 + l /\ Calendar!DaysIn(y, 12) = 31
<1> DEFINE b == Base(y)
           l == LeapDay(y)
<1>1. b \in Int /\ l \in 0..1
  BY Starts, Zenon
<1>2. /\ Start(y, 1) = b
      /\ Start(y, 2) = b + 31
      /\ Start(y, 3) = b + 59 + l
      /\ Start(y, 4) = b + 90 + l
      /\ Start(y, 5) = b + 120 + l
      /\ Start(y, 6) = b + 151 + l
      /\ Start(y, 7) = b + 181 + l
      /\ Start(y, 8) = b + 212 + l
      /\ Start(y, 9) = b + 243 + l
      /\ Start(y, 10) = b + 273 + l
      /\ Start(y, 11) = b + 304 + l
      /\ Start(y, 12) = b + 334 + l
  BY Starts, ZenonT(90)
<1>3. /\ Calendar!DaysIn(y, 1) = 31
      /\ Calendar!DaysIn(y, 2) = 28 + l
      /\ Calendar!DaysIn(y, 3) = 31
      /\ Calendar!DaysIn(y, 4) = 30
      /\ Calendar!DaysIn(y, 5) = 31
      /\ Calendar!DaysIn(y, 6) = 30
      /\ Calendar!DaysIn(y, 7) = 31
      /\ Calendar!DaysIn(y, 8) = 31
      /\ Calendar!DaysIn(y, 9) = 30
      /\ Calendar!DaysIn(y, 10) = 31
      /\ Calendar!DaysIn(y, 11) = 30
      /\ Calendar!DaysIn(y, 12) = 31
  BY Lengths, Zenon
<1> HIDE DEF b, l
<1> QED BY <1>1, <1>2, <1>3, ZenonT(60)

\* The last day of a month is the day before the next, and the months are all
\* of 28 to 31 days.
End(y, m) == Calendar!endOf([year |-> y, month |-> m])

\* The last days, in order.
LEMMA Ends ==
    ASSUME NEW y \in Int
    PROVE  /\ \A m \in 1..12 : /\ Start(y, m) \in Int /\ End(y, m) \in Int
                               /\ End(y, m) = Start(y, m) + Calendar!DaysIn(y, m) - 1
                               /\ Calendar!DaysIn(y, m) \in 28..31
           /\ \A m \in 1..11 : Start(y, m + 1) = End(y, m) + 1
<1>1. ASSUME NEW m \in 1..12 PROVE End(y, m) = Start(y, m) + Calendar!DaysIn(y, m) - 1
  <2> DEFINE x == [year |-> y, month |-> m]
  <2>1. x.year = y /\ x.month = m
    OBVIOUS
  <2>2. Calendar!endOf(x) = Calendar!startOf(x) + Calendar!DaysIn(x.year, x.month) - 1
    BY Zenon DEF Calendar!endOf
  <2> HIDE DEF x
  <2>3. Calendar!endOf(x) = Calendar!startOf(x) + Calendar!DaysIn(y, m) - 1
    BY <2>1, <2>2, Zenon
  <2> QED BY <2>3, Zenon DEF x, Start, End
<1>2. ASSUME NEW m \in 1..12
      PROVE  Start(y, m) \in Int /\ Calendar!DaysIn(y, m) \in 28..31
  <2>1. PICK b \in Int, l \in 0..1 :
               /\ Start(y, 1) = b /\ Calendar!DaysIn(y, 1) = 31
               /\ Start(y, 2) = b + 31 /\ Calendar!DaysIn(y, 2) = 28 + l
               /\ Start(y, 3) = b + 59 + l /\ Calendar!DaysIn(y, 3) = 31
               /\ Start(y, 4) = b + 90 + l /\ Calendar!DaysIn(y, 4) = 30
               /\ Start(y, 5) = b + 120 + l /\ Calendar!DaysIn(y, 5) = 31
               /\ Start(y, 6) = b + 151 + l /\ Calendar!DaysIn(y, 6) = 30
               /\ Start(y, 7) = b + 181 + l /\ Calendar!DaysIn(y, 7) = 31
               /\ Start(y, 8) = b + 212 + l /\ Calendar!DaysIn(y, 8) = 31
               /\ Start(y, 9) = b + 243 + l /\ Calendar!DaysIn(y, 9) = 30
               /\ Start(y, 10) = b + 273 + l /\ Calendar!DaysIn(y, 10) = 31
               /\ Start(y, 11) = b + 304 + l /\ Calendar!DaysIn(y, 11) = 30
               /\ Start(y, 12) = b + 334 + l /\ Calendar!DaysIn(y, 12) = 31
    BY Months
  <2>2. m = 1 \/ m = 2 \/ m = 3 \/ m = 4 \/ m = 5 \/ m = 6
             \/ m = 7 \/ m = 8 \/ m = 9 \/ m = 10 \/ m = 11 \/ m = 12
    OBVIOUS
  <2> QED BY <2>1, <2>2
<1>3. ASSUME NEW m \in 1..11
      PROVE  Start(y, m + 1) = Start(y, m) + Calendar!DaysIn(y, m)
  <2>1. PICK b \in Int, l \in 0..1 :
               /\ Start(y, 1) = b /\ Calendar!DaysIn(y, 1) = 31
               /\ Start(y, 2) = b + 31 /\ Calendar!DaysIn(y, 2) = 28 + l
               /\ Start(y, 3) = b + 59 + l /\ Calendar!DaysIn(y, 3) = 31
               /\ Start(y, 4) = b + 90 + l /\ Calendar!DaysIn(y, 4) = 30
               /\ Start(y, 5) = b + 120 + l /\ Calendar!DaysIn(y, 5) = 31
               /\ Start(y, 6) = b + 151 + l /\ Calendar!DaysIn(y, 6) = 30
               /\ Start(y, 7) = b + 181 + l /\ Calendar!DaysIn(y, 7) = 31
               /\ Start(y, 8) = b + 212 + l /\ Calendar!DaysIn(y, 8) = 31
               /\ Start(y, 9) = b + 243 + l /\ Calendar!DaysIn(y, 9) = 30
               /\ Start(y, 10) = b + 273 + l /\ Calendar!DaysIn(y, 10) = 31
               /\ Start(y, 11) = b + 304 + l /\ Calendar!DaysIn(y, 11) = 30
               /\ Start(y, 12) = b + 334 + l /\ Calendar!DaysIn(y, 12) = 31
    BY Months
  <2>2. m = 1 \/ m = 2 \/ m = 3 \/ m = 4 \/ m = 5 \/ m = 6
             \/ m = 7 \/ m = 8 \/ m = 9 \/ m = 10 \/ m = 11
    OBVIOUS
  <2> QED BY <2>1, <2>2
<1>4. \A m \in 1..11 : Start(y, m + 1) = End(y, m) + 1
  BY <1>1, <1>2, <1>3
<1> QED BY <1>1, <1>2, <1>4

\* A day of the year is in one month of it.
LEMMA OneMonth ==
    ASSUME NEW y \in Int, NEW d \in Start(y, 1)..End(y, 12)
    PROVE  /\ \E m \in 1..12 : d \in Start(y, m)..End(y, m)
           /\ \A m, n \in 1..12 : d \in Start(y, m)..End(y, m) /\ d \in Start(y, n)..End(y, n) => m = n
<1>1. \A m \in 1..12 : Start(y, m) \in Int /\ End(y, m) \in Int /\ Start(y, m) <= End(y, m)
  <2> TAKE m \in 1..12
  <2>1. /\ Start(y, m) \in Int /\ End(y, m) \in Int
        /\ End(y, m) = Start(y, m) + Calendar!DaysIn(y, m) - 1
        /\ Calendar!DaysIn(y, m) \in 28..31
    BY Ends
  <2> QED BY <2>1
<1>2. \A m \in 1..11 : Start(y, m + 1) = End(y, m) + 1
  BY Ends
<1>3. \E m \in 1..12 : d \in Start(y, m)..End(y, m)
  BY <1>1, <1>2
<1>4. \A m, n \in 1..12 : m < n => End(y, m) < Start(y, n)
  BY <1>1, <1>2
<1> QED BY <1>1, <1>3, <1>4

\* The days shown of the month before one that starts on s, and of the month
\* after one that ends on e: whole weeks are, from the day they start with.
Ahead(s, w) == ((s % 7) - w + 7) % 7
Behind(e, w) == (w + 13 - (e % 7)) % 7

\* Whole weeks are shown, each day in its place.
LEMMA Weeks ==
    ASSUME NEW s \in Int, NEW e \in Int, NEW w \in -1..1, s <= e
    PROVE  /\ Ahead(s, w) \in 0..6 /\ Behind(e, w) \in 0..6
           /\ ((e + Behind(e, w)) - (s - Ahead(s, w)) + 1) % 7 = 0
           /\ \A i \in Nat \ {0} :
                 ((s - Ahead(s, w)) + i - 1) % 7 = (((i - 1) % 7) + w) % 7
<1> DEFINE so == Ahead(s, w)
           eo == Behind(e, w)
<1>0. so = ((s % 7) - w + 7) % 7 /\ eo = (w + 13 - (e % 7)) % 7
  BY DEF Ahead, Behind
<1> HIDE DEF so, eo
<1>1. so \in 0..6 /\ eo \in 0..6
  BY <1>0
<1>2. PICK a \in Int : s - so = 7 * a + w
  BY <1>0
<1>3. PICK b \in Int : e + eo = 7 * b + w + 6
  <2>1. PICK p \in Int, r \in 0..6 : e = 7 * p + r /\ e % 7 = r
    OBVIOUS
  <2>2. eo = (w + 13 - r) % 7
    BY <1>0, <2>1
  <2>3. PICK q \in Int : w + 13 - r = 7 * q + eo
    BY <2>2
  <2>4. e + eo = 7 * (p - q + 1) + w + 6
    BY <1>1, <2>1, <2>3
  <2>5. p - q + 1 \in Int
    OBVIOUS
  <2> QED BY <2>4, <2>5
<1>4. ((e + eo) - (s - so) + 1) % 7 = 0
  BY <1>1, <1>2, <1>3, SMTT(60)
<1>5. ASSUME NEW i \in Nat \ {0} PROVE ((s - so) + i - 1) % 7 = (((i - 1) % 7) + w) % 7
  BY <1>1, <1>2
<1> QED BY <1>1, <1>4, <1>5, Zenon DEF so, eo

\* A month is one of those of its year.
LEMMA OfItsYear ==
    ASSUME NEW x \in AnyMonth
    PROVE  /\ x.year \in Int /\ x.month \in 1..12
           /\ Calendar!startOf(x) = Start(x.year, x.month)
           /\ Calendar!endOf(x) = End(x.year, x.month)
<1>1. x.year \in Int /\ x.month \in 1..12 /\ x = [year |-> x.year, month |-> x.month]
  BY DEF AnyMonth
<1> QED BY <1>1, Zenon DEF Start, End

\* The calendar of a month: its days, so many of the month before and so many
\* of the month after, whole weeks of them.
Shows(x, before, after) ==
    /\ Calendar!calculateCalendarBoundaries(x) =
           [calendarStart |-> Calendar!startOf(x) - before,
            dayCount |-> (Calendar!endOf(x) + after) - (Calendar!startOf(x) - before) + 1]
    /\ ((Calendar!endOf(x) + after) - (Calendar!startOf(x) - before) + 1) % 7 = 0
    /\ \A i \in Nat \ {0} : ((Calendar!startOf(x) - before) + i - 1) % 7
                                = (((i - 1) % 7) + weekStartDayOffset) % 7

\* A month's calendar is made so.
LEMMA Shown ==
    ASSUME NEW x \in AnyMonth, CalendarInv
    PROVE  /\ Calendar!startOf(x) \in Int /\ Calendar!endOf(x) \in Int
           /\ Calendar!endOf(x) = Calendar!startOf(x) + Calendar!DaysIn(x.year, x.month) - 1
           /\ Calendar!DaysIn(x.year, x.month) \in 28..31
           /\ \E before, after \in 0..6 : Shows(x, before, after)
<1> DEFINE s == Calendar!startOf(x)
           e == Calendar!endOf(x)
           w == weekStartDayOffset
<1>1. /\ s \in Int /\ e \in Int /\ e = s + Calendar!DaysIn(x.year, x.month) - 1
      /\ Calendar!DaysIn(x.year, x.month) \in 28..31
  <2>1. x.year \in Int /\ x.month \in 1..12 /\ s = Start(x.year, x.month) /\ e = End(x.year, x.month)
    BY OfItsYear, Zenon
  <2> HIDE DEF s, e
  <2> QED BY <2>1, Ends, Zenon
<1>2. w \in -1..1
  BY DEF CalendarInv
<1> DEFINE before == Ahead(s, w)
           after == Behind(e, w)
<1>3. Calendar!calculateCalendarBoundaries(x) =
           [calendarStart |-> s - before, dayCount |-> (e + after) - (s - before) + 1]
  <2>1. /\ (Calendar!day(s) - w + Calendar!DAYS_IN_WEEK) % Calendar!DAYS_IN_WEEK = before
        /\ (w + (2 * Calendar!DAYS_IN_WEEK - 1) - Calendar!day(e)) % Calendar!DAYS_IN_WEEK = after
    <3>1. 2 * 7 - 1 = 13
      OBVIOUS
    <3> HIDE DEF s, e, w
    <3> QED BY <3>1 DEF Calendar!day, Calendar!DAYS_IN_WEEK, Ahead, Behind
  <2> HIDE DEF before, after
  <2> QED BY <2>1, Zenon DEF Calendar!calculateCalendarBoundaries
<1>4. /\ before \in 0..6 /\ after \in 0..6
      /\ ((e + after) - (s - before) + 1) % 7 = 0
      /\ \A i \in Nat \ {0} : ((s - before) + i - 1) % 7 = (((i - 1) % 7) + w) % 7
  <2> HIDE DEF s, e, w
  <2>1. s <= e
    BY <1>1
  <2> QED BY <1>1, <1>2, <2>1, Weeks, Zenon
<1> HIDE DEF before, after
<1>5. Shows(x, before, after)
  BY <1>3, <1>4, Zenon DEF Shows
<1> QED BY <1>1, <1>4, <1>5

\* So many days are shown, this one at that place.
Laid(cells, n, x, data, before) ==
    /\ DOMAIN cells = 1..n /\ Len(cells) = n /\ n \in Nat /\ n % 7 = 0
    /\ \A i \in 1..n :
          LET d == Calendar!startOf(x) - before + i - 1
          IN  cells[i] = [date |-> d,
                          isCurrentMonth |-> d \in Calendar!startOf(x)..Calendar!endOf(x),
                          count |-> Calendar!count(data, d)]

\* And its cells are laid out so.
LEMMA Cell ==
    ASSUME NEW x \in AnyMonth, CalendarInv, NEW data,
           NEW before \in 0..6, NEW after \in 0..6, Shows(x, before, after)
    PROVE  Laid(Calendar!useCalendarMatrix(x, data),
                Calendar!DaysIn(x.year, x.month) + before + after, x, data, before)
<1> DEFINE cells == Calendar!useCalendarMatrix(x, data)
           n == Calendar!DaysIn(x.year, x.month) + before + after
           c == Calendar!startOf(x) - before
           f(i) == [date |-> c + i - 1,
                    isCurrentMonth |-> c + i - 1 \in Calendar!startOf(x)..Calendar!endOf(x),
                    count |-> Calendar!count(data, c + i - 1)]
<1>1. /\ Calendar!startOf(x) \in Int /\ Calendar!endOf(x) \in Int
      /\ Calendar!endOf(x) = Calendar!startOf(x) + Calendar!DaysIn(x.year, x.month) - 1
      /\ Calendar!DaysIn(x.year, x.month) \in 28..31
  BY Shown
<1>2. n = (Calendar!endOf(x) + after) - c + 1 /\ n \in Nat
  BY <1>1
<1>3. /\ Calendar!calculateCalendarBoundaries(x).calendarStart = c
      /\ Calendar!calculateCalendarBoundaries(x).dayCount = n
      /\ n % 7 = 0
  <2>1. /\ Calendar!calculateCalendarBoundaries(x) =
              [calendarStart |-> c, dayCount |-> (Calendar!endOf(x) + after) - c + 1]
        /\ ((Calendar!endOf(x) + after) - c + 1) % 7 = 0
    BY Zenon DEF Shows
  <2> HIDE DEF n, c
  <2>2. /\ Calendar!calculateCalendarBoundaries(x) = [calendarStart |-> c, dayCount |-> n]
        /\ n % 7 = 0
    BY <1>2, <2>1, Zenon
  <2> QED BY <2>2
<1>4. cells = [i \in 1..n |-> f(i)]
  <2> HIDE DEF n, c
  <2> QED BY <1>3, Zenon DEF Calendar!useCalendarMatrix
<1>5. cells \in Seq({f(i) : i \in 1..n})
  <2> HIDE DEF n, f
  <2> QED BY <1>2, <1>4
<1>6. Len(cells) = n /\ DOMAIN cells = 1..n
  <2> HIDE DEF n, f, cells
  <2> QED BY <1>2, <1>4, <1>5
<1>7. \A i \in 1..n : cells[i] = f(i)
  <2> HIDE DEF n, f, cells
  <2> QED BY <1>4
<1> HIDE DEF n, cells
<1>8. Laid(cells, n, x, data, before)
  <2> HIDE DEF c, f
  <2>1. ASSUME NEW i \in 1..n
        PROVE  LET d == Calendar!startOf(x) - before + i - 1
               IN  cells[i] = [date |-> d,
                               isCurrentMonth |-> d \in Calendar!startOf(x)..Calendar!endOf(x),
                               count |-> Calendar!count(data, d)]
    BY <1>7, Zenon DEF f, c
  <2> QED BY <1>2, <1>3, <1>6, <2>1, Zenon DEF Laid
<1> QED BY <1>8, Zenon DEF n, cells

\* The instance counts as the library does.
LEMMA Counts == \A S : Calendar!Cardinality(S) = Cardinality(S)
BY Zenon DEF Cardinality, Calendar!Cardinality

\* The month's calendar is right.
LEMMA MonthRight ==
    ASSUME CalendarInv
    PROVE  Calendar!MonthExact
<1> DEFINE x == visibleMonth
           s == Calendar!startOf(x)
           e == Calendar!endOf(x)
           k == Calendar!DaysIn(x.year, x.month)
           w == weekStartDayOffset
           cells == Calendar!useCalendarMatrix(x, activityStats)
           own == {i \in DOMAIN cells : cells[i].isCurrentMonth}
<1>1. x \in AnyMonth
  BY DEF CalendarInv
<1>2. s \in Int /\ e \in Int /\ e = s + k - 1 /\ k \in 28..31
  BY <1>1, Shown, Zenon
<1>3. PICK before \in 0..6, after \in 0..6 : Shows(x, before, after)
  BY <1>1, Shown, Zenon
<1> DEFINE n == k + before + after
<1>4. /\ DOMAIN cells = 1..n /\ Len(cells) = n /\ n \in Nat /\ n % 7 = 0
      /\ \A i \in 1..n :
            cells[i] = [date |-> s - before + i - 1,
                        isCurrentMonth |-> s - before + i - 1 \in s..e,
                        count |-> Calendar!count(activityStats, s - before + i - 1)]
  <2>1. Laid(cells, n, x, activityStats, before)
    BY <1>1, <1>3, Cell, Zenon
  <2> HIDE DEF cells, n
  <2> QED BY <2>1, Zenon DEF Laid
<1>5. \A i \in Nat \ {0} : ((s - before) + i - 1) % 7 = (((i - 1) % 7) + w) % 7
  BY <1>3, Zenon DEF Shows
<1> HIDE DEF s, e, k, cells
<1>6. \A i \in 1..n : /\ cells[i].date = s - before + i - 1
                      /\ cells[i].isCurrentMonth <=> s - before + i - 1 \in s..e
  <2> TAKE i \in 1..n
  <2> DEFINE d == s - before + i - 1
             in == d \in s..e
  <2>1. cells[i] = [date |-> d, isCurrentMonth |-> in, count |-> Calendar!count(activityStats, d)]
    BY <1>4, Zenon
  <2> HIDE DEF d, in
  <2>2. cells[i].date = d /\ cells[i].isCurrentMonth = in
    BY <2>1
  <2> QED BY <2>2, Zenon DEF d, in
<1>7. own = (before + 1)..(before + k)
  BY <1>2, <1>4, <1>6
<1>8. Cardinality(own) = k
  <2>1. before + 1 \in Int /\ before + k \in Int /\ before + 1 <= before + k
    BY <1>2
  <2>2. Cardinality((before + 1)..(before + k)) = (before + k) - (before + 1) + 1
    BY <2>1, FS_Interval
  <2> HIDE DEF own
  <2> QED BY <1>2, <1>7, <2>2
<1>9. {cells[i].date : i \in own} = s..e
  <2>1. ASSUME NEW i \in own PROVE cells[i].date \in s..e
    BY <1>2, <1>4, <1>6, <1>7, <2>1
  <2>2. ASSUME NEW d \in s..e PROVE d - s + before + 1 \in own /\ cells[d - s + before + 1].date = d
    <3>1. d - s + before + 1 \in (before + 1)..(before + k) /\ d - s + before + 1 \in 1..n
      BY <1>2
    <3>2. s - before + (d - s + before + 1) - 1 = d
      BY <1>2
    <3> HIDE DEF own
    <3> QED BY <1>6, <1>7, <3>1, <3>2
  <2> HIDE DEF own
  <2> QED BY <2>1, <2>2
<1>10. ASSUME NEW i \in 1..n
       PROVE  Calendar!day(cells[i].date)
                  = Calendar!rotatedWeekDays[((i - 1) % Calendar!DAYS_IN_WEEK) + 1]
  <2>1. Calendar!day(cells[i].date) = (((i - 1) % 7) + w) % 7
    <3>1. Calendar!day(cells[i].date) = ((s - before) + i - 1) % 7
      BY <1>6 DEF Calendar!day, Calendar!DAYS_IN_WEEK
    <3>2. i \in Nat \ {0}
      BY <1>4
    <3> QED BY <1>5, <3>1, <3>2, Zenon
  <2>2. ((i - 1) % 7) + 1 \in 1..7 /\ (((i - 1) % 7) + 1) - 1 = (i - 1) % 7
    BY <1>4
  <2>3. Calendar!rotatedWeekDays[((i - 1) % 7) + 1] = (((((i - 1) % 7) + 1) - 1) + w) % 7
    BY <2>2, Zenon DEF Calendar!rotatedWeekDays, Calendar!DAYS_IN_WEEK
  <2>4. Calendar!DAYS_IN_WEEK = 7
    BY DEF Calendar!DAYS_IN_WEEK
  <2> QED BY <2>1, <2>2, <2>3, <2>4, Zenon
<1>11. Len(cells) - Cardinality(own) < 2 * Calendar!DAYS_IN_WEEK - 1
  <2> HIDE DEF own
  <2> QED BY <1>2, <1>4, <1>8 DEF Calendar!DAYS_IN_WEEK
<1>12. Len(cells) % Calendar!DAYS_IN_WEEK = 0
  BY <1>4 DEF Calendar!DAYS_IN_WEEK
<1>13. \A i \in DOMAIN cells : Calendar!day(cells[i].date)
                  = Calendar!rotatedWeekDays[((i - 1) % Calendar!DAYS_IN_WEEK) + 1]
  BY <1>4, <1>10, Zenon
<1> HIDE DEF n
<1> HIDE DEF own
<1>14. LET cs == Calendar!useCalendarMatrix(x, activityStats)
           mine == {i \in DOMAIN cs : cs[i].isCurrentMonth}
       IN  /\ Len(cs) % Calendar!DAYS_IN_WEEK = 0
           /\ \A i \in DOMAIN cs :
                 Calendar!day(cs[i].date)
                     = Calendar!rotatedWeekDays[((i - 1) % Calendar!DAYS_IN_WEEK) + 1]
           /\ {cs[i].date : i \in mine} = Calendar!startOf(x)..Calendar!endOf(x)
           /\ Calendar!Cardinality(mine) = Calendar!DaysIn(x.year, x.month)
           /\ Len(cs) - Calendar!Cardinality(mine) < 2 * Calendar!DAYS_IN_WEEK - 1
  BY <1>8, <1>9, <1>11, <1>12, <1>13, Counts, Zenon DEF cells, own, s, e, k
<1> QED BY <1>14, Zenon DEF Calendar!MonthExact

\* Days are numbers.
LEMMA DaysNumbers == Calendar!Days \subseteq Int
<1>1. Calendar!ThisYear \in Int /\ Calendar!ThisYear - 1 \in Int
  BY CalendarAssumption DEF Calendar!ThisYear
<1>2. /\ End(Calendar!ThisYear - 1, 12) \in Int /\ Start(Calendar!ThisYear, 1) \in Int
      /\ End(Calendar!ThisYear, 2) \in Int /\ Start(2000, 3) \in Int
  <2>1. 12 \in 1..12 /\ 1 \in 1..12 /\ 2 \in 1..12 /\ 3 \in 1..12 /\ 2000 \in Int
    OBVIOUS
  <2>2. \A y \in Int : \A m \in 1..12 : Start(y, m) \in Int /\ End(y, m) \in Int
    BY Ends, Zenon
  <2> QED BY <1>1, <2>1, <2>2
<1>3. Calendar!Days = {End(Calendar!ThisYear - 1, 12), Start(Calendar!ThisYear, 1),
                       End(Calendar!ThisYear, 2), Start(2000, 3) - 1}
  BY Zenon DEF Calendar!Days, Start, End
<1>4. Start(2000, 3) - 1 \in Int
  BY <1>2
<1> QED BY <1>2, <1>3, <1>4

\* The days of a year, each in a month of it, and the memos of them.
LEMMA YearData ==
    ASSUME CalendarInv, NEW y \in Int, NEW data,
           data = Calendar!filterDataByYear(activityStats, y)
    PROVE  \A d \in DOMAIN data : d \in Start(y, 1)..End(y, 12) /\ data[d] \in 0..4
<1> DEFINE D == {d \in DOMAIN activityStats :
                    /\ d >= Calendar!startOf([year |-> y, month |-> 1])
                    /\ d <= Calendar!endOf([year |-> y, month |-> 12])}
<1>1. data = [d \in D |-> activityStats[d]]
  BY Zenon DEF Calendar!filterDataByYear
<1>2. D \subseteq Calendar!Days /\ \A d \in D : activityStats[d] \in 0..4
  BY DEF CalendarInv
<1>3. \A d \in D : d \in Start(y, 1)..End(y, 12)
  <2>1. Start(y, 1) \in Int /\ End(y, 12) \in Int
    <3>1. 1 \in 1..12 /\ 12 \in 1..12
      OBVIOUS
    <3> QED BY <3>1, Ends, Zenon
  <2>2. \A d \in D : d >= Start(y, 1) /\ d <= End(y, 12)
    BY Zenon DEF Start, End
  <2> HIDE DEF D
  <2> QED BY <1>2, <2>1, <2>2, DaysNumbers
<1> HIDE DEF D
<1> QED BY <1>1, <1>2, <1>3

\* A day of the year's calendar that can be clicked.
ClickOf(y, data, m, d) ==
    <<[year |-> y, month |-> m], [date |-> d, isCurrentMonth |-> TRUE, count |-> data[d]]>>

\* What can be clicked is a day with memos, in its month.
LEMMA Clicked ==
    ASSUME CalendarInv, NEW y \in Int, NEW data,
           data = Calendar!filterDataByYear(activityStats, y),
           NEW c \in Calendar!YearCells(y), Calendar!isInteractive(c[2])
    PROVE  \E m \in 1..12, d \in DOMAIN data :
              d \in Start(y, m)..End(y, m) /\ data[d] > 0 /\ c = ClickOf(y, data, m, d)
<1>1. PICK x \in Calendar!Range(Calendar!generateMonthsForYear(y)) :
          c \in {<<x, cell>> : cell \in Calendar!Range(Calendar!useCalendarMatrix(x, data))}
  BY Zenon DEF Calendar!YearCells
<1>2. PICK m \in 1..12 : x = [year |-> y, month |-> m]
  BY DEF Calendar!Range, Calendar!generateMonthsForYear
<1>3. PICK cell \in Calendar!Range(Calendar!useCalendarMatrix(x, data)) : c = <<x, cell>>
  BY <1>1, Zenon
<1> DEFINE cells == Calendar!useCalendarMatrix(x, data)
<1>4. PICK i \in DOMAIN cells : cell = cells[i]
  BY <1>3, Zenon DEF Calendar!Range
<1>5. x \in AnyMonth /\ Calendar!startOf(x) = Start(y, m) /\ Calendar!endOf(x) = End(y, m)
  <2>1. x \in AnyMonth
    BY <1>2 DEF AnyMonth
  <2> QED BY <1>2, <2>1, Zenon DEF Start, End
<1>6. PICK before \in 0..6, after \in 0..6 : Shows(x, before, after)
  BY <1>5, Shown, Zenon
<1>7. PICK n : Laid(cells, n, x, data, before)
  BY <1>5, <1>6, Cell, Zenon
<1> DEFINE d == Start(y, m) - before + i - 1
           in == d \in Start(y, m)..End(y, m)
<1>8. cell = [date |-> d, isCurrentMonth |-> in, count |-> Calendar!count(data, d)]
  BY <1>4, <1>5, <1>7, Zenon DEF Laid
<1> HIDE DEF d, in
<1>9. /\ cell.date = d /\ cell.isCurrentMonth = in /\ cell.count = Calendar!count(data, d)
  BY <1>8
<1>10. in /\ cell.count > 0
  <2>1. c[2] = cell
    BY <1>3
  <2> QED BY <1>9, <2>1, Zenon DEF Calendar!isInteractive
<1>11. d \in DOMAIN data /\ cell.count = data[d]
  BY <1>9, <1>10 DEF Calendar!count
<1>12. in = TRUE
  BY <1>10 DEF in
<1>13. cell = [date |-> d, isCurrentMonth |-> TRUE, count |-> data[d]]
  BY <1>8, <1>9, <1>11, <1>12, Zenon
<1>14. c = ClickOf(y, data, m, d)
  BY <1>2, <1>3, <1>13, Zenon DEF ClickOf
<1> QED BY <1>10, <1>11, <1>14, Zenon DEF in

\* And each day with memos can be, in its month.
LEMMA Clickable ==
    ASSUME CalendarInv, NEW y \in Int, NEW data,
           data = Calendar!filterDataByYear(activityStats, y),
           NEW m \in 1..12, NEW d \in DOMAIN data, d \in Start(y, m)..End(y, m), data[d] > 0
    PROVE  /\ ClickOf(y, data, m, d) \in Calendar!YearCells(y)
           /\ Calendar!isInteractive(ClickOf(y, data, m, d)[2])
           /\ ClickOf(y, data, m, d)[2].date = d
           /\ ClickOf(y, data, m, d)[2].count = data[d]
<1> DEFINE x == [year |-> y, month |-> m]
           cell == [date |-> d, isCurrentMonth |-> TRUE, count |-> data[d]]
<1>1. x \in AnyMonth
  BY DEF AnyMonth
<1>2. x \in Calendar!Range(Calendar!generateMonthsForYear(y))
  BY DEF Calendar!Range, Calendar!generateMonthsForYear
<1>3. cell.date = d /\ cell.isCurrentMonth = TRUE /\ cell.count = data[d]
  OBVIOUS
<1>4. /\ ClickOf(y, data, m, d) = <<x, cell>> /\ ClickOf(y, data, m, d)[2] = cell
  BY DEF ClickOf
<1> DEFINE cells == Calendar!useCalendarMatrix(x, data)
<1>5. PICK before \in 0..6, after \in 0..6 : Shows(x, before, after)
  BY <1>1, Shown, Zenon
<1> DEFINE k == Calendar!DaysIn(x.year, x.month)
           s == Calendar!startOf(x)
           e == Calendar!endOf(x)
           n == k + before + after
           i == d - s + before + 1
<1>6. Laid(cells, n, x, data, before)
  BY <1>1, <1>5, Cell, Zenon
<1>7. s \in Int /\ e \in Int /\ e = s + k - 1 /\ k \in 28..31
  BY <1>1, Shown, Zenon
<1>8. d \in s..e
  BY Zenon DEF Start, End
<1> HIDE DEF k, s, e
<1>9. i \in 1..n /\ s - before + i - 1 = d
  BY <1>7, <1>8
<1> HIDE DEF n, i, x, cells
<1>10. DOMAIN cells = 1..n /\ cells[i] = [date |-> s - before + i - 1,
                    isCurrentMonth |-> s - before + i - 1 \in s..e,
                    count |-> Calendar!count(data, s - before + i - 1)]
  BY <1>6, <1>9, Zenon DEF Laid, s, e
<1>11. (d \in s..e) = TRUE
  BY <1>8
<1>12. Calendar!count(data, d) = data[d]
  BY Zenon DEF Calendar!count
<1>13. cells[i] = cell
  BY <1>9, <1>10, <1>11, <1>12, Zenon
<1>14. <<x, cell>> \in Calendar!YearCells(y)
  <2>1. cell \in Calendar!Range(cells)
    BY <1>9, <1>10, <1>13, Zenon DEF Calendar!Range
  <2>2. <<x, cell>> \in {<<x, f>> : f \in Calendar!Range(cells)}
    BY <2>1, Zenon
  <2> QED BY <1>2, <2>2, ZenonT(40) DEF Calendar!YearCells, cells, x
<1>15. Calendar!isInteractive(cell)
  BY <1>3, Zenon DEF Calendar!isInteractive
<1> HIDE DEF cell
<1> QED BY <1>3, <1>4, <1>14, <1>15, Zenon

\* The most memos of a day of the year, one if there are none.
LEMMA MostOfYear ==
    ASSUME NEW data, \A d \in DOMAIN data : data[d] \in 0..4
    PROVE  LET n == Calendar!calculateYearMaxCount(data)
           IN  n \in 1..4 /\ (n = 1 \/ \E d \in DOMAIN data : data[d] = n)
<1> DEFINE P(n) == /\ \A d \in DOMAIN data : data[d] <= n
                   /\ n = 1 \/ \E d \in DOMAIN data : data[d] = n
<1>1. \E n \in 1..4 : P(n)
  <2>1. CASE \E d \in DOMAIN data : data[d] = 4
    <3>1. P(4)
      BY <2>1
    <3> QED BY <3>1
  <2>2. CASE (\A d \in DOMAIN data : data[d] <= 3) /\ \E d \in DOMAIN data : data[d] = 3
    <3>1. P(3)
      BY <2>2
    <3> QED BY <3>1
  <2>3. CASE (\A d \in DOMAIN data : data[d] <= 2) /\ \E d \in DOMAIN data : data[d] = 2
    <3>1. P(2)
      BY <2>3
    <3> QED BY <3>1
  <2>4. CASE \A d \in DOMAIN data : data[d] <= 1
    <3>1. P(1)
      BY <2>4
    <3> QED BY <3>1
  <2> HIDE DEF P
  <2>5. \/ \E d \in DOMAIN data : data[d] = 4
        \/ (\A d \in DOMAIN data : data[d] <= 3) /\ \E d \in DOMAIN data : data[d] = 3
        \/ (\A d \in DOMAIN data : data[d] <= 2) /\ \E d \in DOMAIN data : data[d] = 2
        \/ \A d \in DOMAIN data : data[d] <= 1
    OBVIOUS
  <2> QED BY <2>1, <2>2, <2>3, <2>4, <2>5
<1>2. Calendar!calculateYearMaxCount(data) = CHOOSE n \in 1..4 : P(n)
  BY Zenon DEF Calendar!calculateYearMaxCount
<1>3. P(CHOOSE n \in 1..4 : P(n)) /\ (CHOOSE n \in 1..4 : P(n)) \in 1..4
  <2> HIDE DEF P
  <2> QED BY <1>1, Zenon
<1> QED BY <1>2, <1>3, Zenon

\* The year's calendar is right.
LEMMA YearRight ==
    ASSUME CalendarInv
    PROVE  Calendar!YearExact
<1> DEFINE y == visibleMonth.year
           data == Calendar!filterDataByYear(activityStats, y)
           clickable == {c \in Calendar!YearCells(y) : Calendar!isInteractive(c[2])}
<1>1. y \in Int
  BY DEF CalendarInv, AnyMonth
<1>2. \A d \in DOMAIN data : d \in Start(y, 1)..End(y, 12) /\ data[d] \in 0..4
  BY <1>1, YearData, Zenon
<1>3. ASSUME NEW c \in clickable
      PROVE  \E m \in 1..12, d \in DOMAIN data :
                d \in Start(y, m)..End(y, m) /\ data[d] > 0 /\ c = ClickOf(y, data, m, d)
  BY <1>1, Clicked, Zenon
<1>4. ASSUME NEW m \in 1..12, NEW d \in DOMAIN data, d \in Start(y, m)..End(y, m), data[d] > 0
      PROVE  /\ ClickOf(y, data, m, d) \in clickable
             /\ ClickOf(y, data, m, d)[2].date = d
             /\ ClickOf(y, data, m, d)[2].count = data[d]
  <2>1. data = Calendar!filterDataByYear(activityStats, y)
    BY Zenon
  <2> HIDE DEF y, data
  <2>2. /\ ClickOf(y, data, m, d) \in Calendar!YearCells(y)
        /\ Calendar!isInteractive(ClickOf(y, data, m, d)[2])
        /\ ClickOf(y, data, m, d)[2].date = d
        /\ ClickOf(y, data, m, d)[2].count = data[d]
    BY <1>1, <1>4, <2>1, Clickable
  <2> DEFINE c == ClickOf(y, data, m, d)
  <2>3. c \in Calendar!YearCells(y) /\ Calendar!isInteractive(c[2])
    BY <2>2
  <2> HIDE DEF c
  <2>4. c \in clickable
    BY <2>3
  <2> QED BY <2>2, <2>4 DEF c
<1> HIDE DEF y, data, clickable
<1>5. ASSUME NEW d \in DOMAIN data, data[d] > 0
      PROVE  \E c \in clickable : c[2].date = d /\ c[2].count = data[d]
  <2>1. PICK m \in 1..12 : d \in Start(y, m)..End(y, m)
    BY <1>1, <1>2, OneMonth, Zenon
  <2> QED BY <1>4, <1>5, <2>1, Zenon
<1>6. ASSUME NEW c \in clickable
      PROVE  /\ c[2].date \in DOMAIN data /\ data[c[2].date] > 0
             /\ c[2].count = data[c[2].date] /\ c[2].isCurrentMonth = TRUE
  <2>1. PICK m \in 1..12, d \in DOMAIN data : data[d] > 0 /\ c = ClickOf(y, data, m, d)
    BY <1>3, Zenon
  <2>2. c[2].date = d /\ c[2].count = data[d] /\ c[2].isCurrentMonth = TRUE
    BY <2>1 DEF ClickOf
  <2> QED BY <2>1, <2>2, Zenon
<1>7. {c[2].date : c \in clickable} = {d \in DOMAIN data : data[d] > 0}
  <2>1. \A c \in clickable : c[2].date \in {d \in DOMAIN data : data[d] > 0}
    BY <1>6, Zenon
  <2>2. \A d \in {f \in DOMAIN data : data[f] > 0} : \E c \in clickable : d = c[2].date
    BY <1>5, Zenon
  <2> QED BY <2>1, <2>2, Zenon
<1>8. ASSUME NEW c \in clickable, NEW e \in clickable, c[2].date = e[2].date
      PROVE  c = e
  <2>1. PICK m \in 1..12, d \in DOMAIN data :
            d \in Start(y, m)..End(y, m) /\ c = ClickOf(y, data, m, d)
    BY <1>3, Zenon
  <2>2. PICK n \in 1..12, f \in DOMAIN data :
            f \in Start(y, n)..End(y, n) /\ e = ClickOf(y, data, n, f)
    BY <1>3, Zenon
  <2>3. c[2].date = d /\ e[2].date = f
    BY <2>1, <2>2 DEF ClickOf
  <2>4. d = f
    BY <1>8, <2>3, Zenon
  <2>5. m = n
    BY <1>1, <1>2, <2>1, <2>2, <2>4, OneMonth, Zenon
  <2> QED BY <2>1, <2>2, <2>4, <2>5, Zenon
<1> DEFINE max == Calendar!calculateYearMaxCount(data)
<1>9. max \in 1..4 /\ (max = 1 \/ \E d \in DOMAIN data : data[d] = max)
  BY <1>2, MostOfYear, Zenon
<1> HIDE DEF max
<1>10. ASSUME NEW c \in clickable, \A e \in clickable : e[2].count <= c[2].count
       PROVE  Calendar!getCellIntensityClass(c[2], max) = "HIGH"
  <2> DEFINE n == c[2].count
             k == data[c[2].date]
  <2>1. n \in 1..4
    <3>1. k \in 0..4 /\ k > 0 /\ n = k
      BY <1>2, <1>6, Zenon
    <3> HIDE DEF n, k
    <3> QED BY <3>1
  <2> HIDE DEF n, k
  <2>2. max <= n
    <3>1. CASE max = 1
      BY <2>1, <3>1
    <3>2. CASE \E d \in DOMAIN data : data[d] = max
      <4>1. PICK d \in DOMAIN data : data[d] = max
        BY <3>2
      <4>2. data[d] > 0
        BY <1>9, <4>1
      <4>3. PICK e \in clickable : e[2].count = data[d]
        BY <1>5, <4>2, Zenon
      <4> QED BY <1>10, <4>1, <4>3, Zenon DEF n
    <3> QED BY <1>9, <3>1, <3>2
  <2>3. 4 * n > 3 * max
    BY <1>9, <2>1, <2>2
  <2>4. Calendar!isInteractive(c[2])
    BY Zenon DEF clickable
  <2> QED BY <2>3, <2>4, Zenon DEF Calendar!getCellIntensityClass, n
<1> QED BY <1>7, <1>8, <1>10, Zenon DEF Calendar!YearExact, y, data, clickable, max

\* The calendar is right in every month and year.
LEMMA CalendarRight == CalendarInv => Calendar!CalendarExact
BY MonthRight, YearRight, Zenon DEF Calendar!CalendarExact, CalendarInv

\* The filters follow the URL, the explorer counts the memos listed, and its
\* calendar has every day once (MemoFilterContext.tsx, MainLayout.tsx,
\* useCalendar.ts, YearCalendar.tsx).
THEOREM FiltersFollow == PagesSpec => []FiltersSettle
<1> DEFINE Inv == /\ part = "filters" => FiltersInv
                  /\ part = "explorer" => ExplorerInv
                  /\ part = "calendar" => CalendarInv
<1>1. PagesInit => Inv
  BY InitFilters, InitExplorer, InitCalendar DEF PagesInit
<1>2. Inv /\ [PagesNext]_<<part, instance, lists, accounts, inUrl, cached, pages,
                           masonry, explorer, calendar, inbox, text>> => Inv'
  <2> SUFFICES ASSUME Inv,
                      [PagesNext]_<<part, instance, lists, accounts, inUrl, cached, pages,
                                    masonry, explorer, calendar, inbox, text>>
               PROVE  Inv'
    OBVIOUS
  <2>1. CASE UNCHANGED <<part, inUrl, explorer, calendar>>
    <3>1. UNCHANGED inUrl => (FiltersInv => FiltersInv')
      BY DEF inUrl, FiltersInv, Latest
    <3>2. UNCHANGED explorer => (ExplorerInv => ExplorerInv')
      BY DEF explorer, ExplorerInv
    <3>3. UNCHANGED calendar => (CalendarInv => CalendarInv')
      BY DEF calendar, CalendarInv
    <3> QED BY <2>1, <3>1, <3>2, <3>3
  <2>2. CASE part = "filters" /\ Filters!Next /\ part' = part
    BY <2>2, StepFilters
  <2>3. CASE part = "explorer" /\ Explorer!Next /\ part' = part
    BY <2>3, StepExplorer
  <2>4. CASE part = "calendar" /\ Calendar!Next /\ part' = part
    BY <2>4, StepCalendar
  <2> QED BY <2>1, <2>2, <2>3, <2>4 DEF PagesNext
<1>3. Inv => FiltersSettle
  <2> SUFFICES ASSUME Inv PROVE FiltersSettle
    OBVIOUS
  <2>1. ASSUME part = "filters" PROVE Filters!FiltersSettle
    BY <2>1 DEF FiltersInv, Latest, Filters!FiltersSettle
  <2>2. ASSUME part = "explorer" PROVE Explorer!ExplorerFollows
    BY <2>2, ExplorerCounts
  <2>3. ASSUME part = "calendar" PROVE Calendar!CalendarExact
    BY <2>3, CalendarRight
  <2> QED BY <2>1, <2>2, <2>3 DEF FiltersSettle
<1> QED BY <1>1, <1>2, <1>3, PTL DEF PagesSpec
=============================================================================
