----------------------------- MODULE MemoEditor -----------------------------
(***************************************************************************)
(* The memo editors of one tab: on the home page, for a comment, and in    *)
(* place of a memo that is edited.  Each keeps its state in a reducer,     *)
(* saves drafts of its content to localStorage through one debounced       *)
(* function all of them share, and saves in steps: the files, the memo,    *)
(* then the draft and the reset.                                           *)
(***************************************************************************)
EXTENDS Naturals, Sequences, FiniteSets, SequencesExt

CONSTANTS
    MaxSaves,       \* bound: saves begun
    Budgets         \* bound: what the user does in all, writes of the memo by
                    \* others and calls that fail, as records

ASSUME BoundsAssumption ==
    MaxSaves \in Nat /\ Budgets \subseteq [clicks : Nat, others : Nat, faults : Nat]

VARIABLES
    page,       \* the page shown
    memo,       \* the stored memo that may be edited here
    writes,     \* how often it was written
    crossed,    \* history: an editor saved over a write it had not loaded
    posts,      \* the memos and comments created, in order
    uploads,    \* attachments created
    gone,       \* attachments the user removed from a memo
    ed,         \* the editors' reducer states
    draft,      \* localStorage
    pending,    \* the debounced save of a draft
    overtaken,  \* history: editors whose draft another's write passed over
    tasks,      \* the saves, in order
    budget, clicks, others, faults      \* bounds

vars == <<page, memo, writes, crossed, posts, uploads, gone, ed, draft, pending, overtaken, tasks,
          budget, clicks, others, faults>>

stored == <<memo, writes, crossed, posts, uploads, gone>>
drafts == <<draft, pending, overtaken>>
bounds == <<budget, clicks, others, faults>>

Editor == {"home", "comment", "edit"}
New == {"home", "comment"}
Content == {"", "a", "b"}
Visibility == {"private", "public"}
Extra == {"plain", "linked"}        \* relations and location
None == [key |-> "none", content |-> ""]
Attachments == 1..(MaxSaves + 2)

\* types.ts: initialState.  `n' counts the texts composed, `seen' the
\* writes of the memo when it was loaded; `live': the component is mounted.
initialState ==
    [content |-> "", visibility |-> "private", attachments |-> <<>>, extra |-> "plain",
     files |-> 0, loading |-> FALSE, saving |-> FALSE, focus |-> FALSE, time |-> 0,
     seen |-> 0, live |-> FALSE, n |-> 0]

EditorState ==
    [content : Content, visibility : Visibility, attachments : Seq(Attachments), extra : Extra,
     files : 0..1, loading : BOOLEAN, saving : BOOLEAN, focus : BOOLEAN, time : Nat,
     seen : Nat, live : BOOLEAN, n : Nat]
Memo == [content : Content, visibility : Visibility, attachments : Seq(Attachments), extra : Extra,
         time : Nat]
Steps == {"upload", "read", "write", "written", "cleared", "done"}
Task == [by : Editor, snap : EditorState, live : BOOLEAN, pc : Steps, new : Seq(Attachments),
         prev : Memo, writes : Nat]

TypeOK ==
    /\ page \in {"home", "detail"}
    /\ memo \in Memo /\ writes \in Nat /\ crossed \in BOOLEAN
    /\ \A i \in DOMAIN posts : posts[i].by \in New /\ posts[i].content \in Content
    /\ uploads \in Nat /\ gone \subseteq Attachments
    /\ ed \in [Editor -> EditorState]
    /\ draft \in [Editor -> Content]
    /\ pending \in [key : Editor \union {"none"}, content : Content]
    /\ overtaken \subseteq Editor
    /\ tasks \in Seq(Task) /\ Len(tasks) <= MaxSaves
    /\ budget \in Budgets /\ clicks \in 0..budget.clicks
    /\ others \in 0..budget.others /\ faults \in 0..budget.faults

(***************************************************************************)
(* Drafts                                                                  *)
(***************************************************************************)

\* useAutoSave.ts, cacheService.save: the debounced function keeps the latest
\* call alone, whichever editor made it.
AutoSave(e, c) ==
    /\ pending' = [key |-> e, content |-> c]
    /\ overtaken' = (overtaken \ {e})
                    \union (IF pending.key \in Editor \ {e} THEN {pending.key} ELSE {})

\* Mutant: an empty text is not written.
KeepDraft ==
    /\ pending.key # "none"
    /\ draft' = IF pending.content = "" THEN draft
                ELSE [draft EXCEPT ![pending.key] = pending.content]
    /\ pending' = None
    /\ UNCHANGED <<page, stored, ed, overtaken, tasks, bounds>>

\* cacheService.ts: the delay has passed; an empty text removes the draft.
Debounced ==
    /\ pending.key # "none"
    /\ draft' = [draft EXCEPT ![pending.key] = pending.content]
    /\ pending' = None
    /\ UNCHANGED <<page, stored, ed, overtaken, tasks, bounds>>

(***************************************************************************)
(* Opening and leaving                                                     *)
(***************************************************************************)

\* useMemoInit.ts of a new memo: the draft, and the user's default
\* visibility ("public" here).
Composed(e) ==
    [initialState EXCEPT !.content = draft[e], !.visibility = "public", !.live = TRUE,
                         !.n = ed[e].n + 1]

\* Of a memo that is edited: it is loaded first.
Loading == [initialState EXCEPT !.live = TRUE, !.loading = TRUE, !.n = ed["edit"].n + 1]

Init ==
    /\ page = "home"
    /\ memo = [content |-> "a", visibility |-> "public", attachments |-> <<1>>, extra |-> "plain",
               time |-> 0]
    /\ writes = 0 /\ crossed = FALSE
    /\ posts = <<>> /\ uploads = 1 /\ gone = {}
    /\ ed = [[e \in Editor |-> initialState] EXCEPT !["home"].live = TRUE, !["home"].n = 1,
                                                    !["home"].visibility = "public"]
    /\ draft = [e \in Editor |-> ""]
    /\ pending = [key |-> "home", content |-> ""] /\ overtaken = {}
    /\ tasks = <<>>
    /\ budget \in Budgets /\ clicks = 0 /\ others = 0 /\ faults = 0

Click == clicks < budget.clicks /\ clicks' = clicks + 1

\* MemoView.tsx, MemoDetail.tsx: the editor of a memo or of a comment is shown.
Open(e) ==
    /\ Click /\ ~ed[e].live
    /\ e = "edit" \/ (e = "comment" /\ page = "detail")
    /\ ed' = [ed EXCEPT ![e] = IF e = "edit" THEN Loading ELSE Composed(e)]
    /\ AutoSave(e, ed'[e].content)
    /\ UNCHANGED <<page, stored, draft, tasks, budget, others, faults>>

\* memoService.load; what was typed meanwhile is replaced.
Loaded ==
    /\ ed["edit"].live /\ ed["edit"].loading
    /\ ed' = [ed EXCEPT !["edit"] =
                [@ EXCEPT !.content = memo.content, !.visibility = memo.visibility,
                          !.attachments = memo.attachments, !.extra = memo.extra,
                          !.time = memo.time, !.seen = writes, !.loading = FALSE]]
    /\ IF memo.content # ed["edit"].content THEN AutoSave("edit", memo.content)
       ELSE UNCHANGED <<pending, overtaken>>
    /\ UNCHANGED <<page, stored, draft, tasks, bounds>>

\* The load fails: the editor stays, empty, and may be saved.
LoadFails ==
    /\ ed["edit"].live /\ ed["edit"].loading
    /\ faults < budget.faults /\ faults' = faults + 1
    /\ ed' = [ed EXCEPT !["edit"].loading = FALSE]
    /\ UNCHANGED <<page, stored, drafts, tasks, budget, clicks, others>>

Closed(e) == [ed EXCEPT ![e] = [initialState EXCEPT !.n = ed[e].n]]

\* A save goes on without its editor.
Orphaned(es) == [i \in DOMAIN tasks |-> IF tasks[i].by \in es THEN [tasks[i] EXCEPT !.live = FALSE]
                                        ELSE tasks[i]]

\* The Cancel button: enabled unless saving.
Cancel(e) ==
    /\ Click /\ e # "home" /\ ed[e].live /\ ~ed[e].saving
    /\ ed' = Closed(e)
    /\ tasks' = Orphaned({e})
    /\ UNCHANGED <<page, stored, drafts, budget, others, faults>>

\* The other page is shown: every editor is unmounted, and the home page
\* mounts its own.
Navigate ==
    /\ Click
    /\ page' = IF page = "home" THEN "detail" ELSE "home"
    /\ ed' = [e \in Editor |-> IF e = "home" /\ page' = "home" THEN Composed(e) ELSE Closed(e)[e]]
    /\ tasks' = Orphaned(Editor)
    /\ IF page' = "home" THEN AutoSave("home", draft["home"]) ELSE UNCHANGED <<pending, overtaken>>
    /\ UNCHANGED <<stored, draft, budget, others, faults>>

(***************************************************************************)
(* Editing: EditorContent.tsx, EditorToolbar.tsx, EditorMetadata.tsx       *)
(***************************************************************************)

Reduce(e, s) ==
    /\ ed[e].live /\ Click
    /\ s # ed[e] /\ ed' = [ed EXCEPT ![e] = s]
    /\ gone' = gone \union (ToSet(ed[e].attachments) \ ToSet(s.attachments))
    /\ UNCHANGED <<page, memo, writes, crossed, posts, uploads, draft, tasks, budget, others, faults>>

\* UPDATE_CONTENT; nothing is disabled while a save is on its way.
Type(e, c) ==
    Reduce(e, [ed[e] EXCEPT !.content = c]) /\ AutoSave(e, c)

\* SET_METADATA of a visibility, of relations or of a location.
SetMetadata(e) ==
    /\ \/ \E v \in Visibility : Reduce(e, [ed[e] EXCEPT !.visibility = v])
       \/ \E x \in Extra : Reduce(e, [ed[e] EXCEPT !.extra = x])
    /\ UNCHANGED <<pending, overtaken>>

\* ADD_LOCAL_FILE: uploaded, dropped or pasted (bound: one at a time); and
\* REMOVE_LOCAL_FILE.
SetFiles(e) ==
    /\ Reduce(e, [ed[e] EXCEPT !.files = 1 - @])
    /\ UNCHANGED <<pending, overtaken>>

MovedUp(s, i) == [s EXCEPT ![i] = s[i - 1], ![i - 1] = s[i]]

\* AttachmentList.tsx: an attachment is removed, or moves up one place.
EditAttachments(e) ==
    /\ \E i \in DOMAIN ed[e].attachments :
        \/ Reduce(e, [ed[e] EXCEPT !.attachments = RemoveAt(@, i)])
        \/ i > 1 /\ Reduce(e, [ed[e] EXCEPT !.attachments = MovedUp(@, i)])
    /\ UNCHANGED <<pending, overtaken>>

\* TOGGLE_FOCUS_MODE: it hides nothing but the rest of the page.
ToggleFocus(e) ==
    Reduce(e, [ed[e] EXCEPT !.focus = ~@]) /\ UNCHANGED <<pending, overtaken>>

(***************************************************************************)
(* Saving                                                                  *)
(***************************************************************************)

\* Mutant: a save on its way is not looked at.
canSaveAgain(e) ==
    /\ ed[e].live /\ ~ed[e].loading
    /\ ed[e].content # "" \/ ed[e].attachments # <<>> \/ ed[e].files > 0

\* validationService.ts (nothing ever sets its flag `uploading').
canSave(e) ==
    /\ ed[e].live /\ ~ed[e].loading
    /\ ed[e].content # "" \/ ed[e].attachments # <<>> \/ ed[e].files > 0
    /\ ~ed[e].saving

Begun(e) == [by |-> e, snap |-> ed[e], live |-> TRUE, pc |-> "upload", new |-> <<>>,
             prev |-> memo, writes |-> writes]

\* MemoEditor/index.tsx: handleSave up to its first await.
handleSave(es) ==
    LET saving == {e \in es : canSave(e)}
    IN  /\ Click
        /\ saving # {} /\ Len(tasks) + Cardinality(saving) <= MaxSaves
        /\ ed' = [e \in Editor |-> IF e \in saving THEN [ed[e] EXCEPT !.saving = TRUE] ELSE ed[e]]
        /\ tasks' = tasks \o [i \in 1..Cardinality(saving) |-> Begun(SetToSeq(saving)[i])]
        /\ UNCHANGED <<page, stored, drafts, budget, others, faults>>

\* useKeyboard.ts: Ctrl+Enter is heard by every editor mounted.
SaveByKey == handleSave(Editor)
SaveByButton(e) == handleSave({e})

Moved(i, pc) == tasks' = [tasks EXCEPT ![i].pc = pc]

\* uploadService.uploadFiles
uploadFiles(i) ==
    /\ tasks[i].pc = "upload"
    /\ LET n == tasks[i].snap.files
       IN  /\ uploads' = uploads + n
           /\ tasks' = [tasks EXCEPT ![i].new = [j \in 1..n |-> uploads + j],
                                     ![i].pc = IF tasks[i].by = "edit" THEN "read" ELSE "write"]
    /\ UNCHANGED <<page, memo, writes, crossed, posts, gone, ed, drafts, bounds>>

Shown(t) == [content |-> t.snap.content, visibility |-> t.snap.visibility,
             attachments |-> t.snap.attachments \o t.new, extra |-> t.snap.extra]

\* Mutant: the new attachments are not compared.
MaskOfOld(t) ==
    {f \in DOMAIN Shown(t) : t.prev[f] # IF f = "attachments" THEN t.snap.attachments ELSE Shown(t)[f]}

\* memoService.ts: buildUpdateMask, what differs from the memo as it is now;
\* a time loaded before somebody else wrote is written back.
buildUpdateMask(t) == {f \in DOMAIN Shown(t) : Shown(t)[f] # t.prev[f]}
TimeSet(t) == t.snap.time # t.prev.time
TimeOf(t) == IF TimeSet(t) THEN t.snap.time
             ELSE IF buildUpdateMask(t) \subseteq {"visibility"} THEN memo.time ELSE writes + 1

\* The memo is read again; without a change the editor is closed.
ReadBack(i) ==
    LET t == [tasks[i] EXCEPT !.prev = memo, !.writes = writes]
        same == buildUpdateMask(t) = {} /\ ~TimeSet(t)
    IN  /\ tasks[i].pc = "read"
        /\ tasks' = [tasks EXCEPT ![i] = [t EXCEPT !.pc = IF same THEN "done" ELSE "write"]]
        /\ ed' = IF same /\ t.live THEN Closed("edit") ELSE ed
        /\ UNCHANGED <<page, stored, drafts, bounds>>

\* updateMemo
Update(i) ==
    LET t == tasks[i]
    IN  /\ t.pc = "write" /\ t.by = "edit"
        /\ memo' = [f \in DOMAIN memo |->
                        IF f = "time" THEN TimeOf(t)
                        ELSE IF f \in buildUpdateMask(t) THEN Shown(t)[f] ELSE memo[f]]
        /\ writes' = writes + 1
        /\ crossed' = (crossed \/ t.snap.seen # writes)
        /\ Moved(i, "written")
        /\ UNCHANGED <<page, posts, uploads, gone, ed, drafts, bounds>>

\* createMemo and createMemoComment
Create(i) ==
    LET t == tasks[i]
    IN  /\ t.pc = "write" /\ t.by \in New
        /\ posts' = Append(posts, [by |-> t.by, n |-> t.snap.n, content |-> t.snap.content,
                                   attachments |-> t.snap.attachments \o t.new])
        /\ Moved(i, "written")
        /\ UNCHANGED <<page, memo, writes, crossed, uploads, gone, ed, drafts, bounds>>

\* The answer: the draft is cleared, and the lists are fetched again.
Clear(i) ==
    LET e == tasks[i].by
    IN  /\ tasks[i].pc = "written"
        /\ draft' = [draft EXCEPT ![e] = ""]
        /\ overtaken' = IF ed[e].live /\ ~tasks[i].live THEN overtaken \union {e} ELSE overtaken
        /\ Moved(i, "cleared")
        /\ UNCHANGED <<page, stored, ed, pending, bounds>>

\* RESET, with whatever was typed since; then onConfirm.
Reset(i) ==
    LET e == tasks[i].by
    IN  /\ tasks[i].pc = "cleared"
        /\ Moved(i, "done")
        /\ IF ~tasks[i].live THEN UNCHANGED <<ed, pending, overtaken>>
           ELSE IF e = "home"
           THEN /\ ed' = [ed EXCEPT ![e] = [initialState EXCEPT !.live = TRUE, !.n = ed[e].n + 1]]
                /\ IF ed[e].content # "" THEN AutoSave(e, "") ELSE UNCHANGED <<pending, overtaken>>
           ELSE ed' = Closed(e) /\ UNCHANGED <<pending, overtaken>>
        /\ UNCHANGED <<page, stored, draft, bounds>>

\* A call fails or its answer is lost: what was composed stays.
SaveFails(i) ==
    /\ tasks[i].pc \in {"upload", "read", "write", "written"}
    /\ faults < budget.faults /\ faults' = faults + 1
    /\ Moved(i, "done")
    /\ ed' = IF tasks[i].live THEN [ed EXCEPT ![tasks[i].by].saving = FALSE] ELSE ed
    /\ UNCHANGED <<page, stored, drafts, budget, clicks, others>>

(***************************************************************************)
(* Around it                                                               *)
(***************************************************************************)

\* Another client writes the memo.
ChangedElsewhere ==
    /\ others < budget.others /\ others' = others + 1
    /\ \E c \in Content \ {""}, v \in Visibility :
        memo' = [memo EXCEPT !.content = c, !.visibility = v, !.time = writes + 1]
    /\ writes' = writes + 1
    /\ UNCHANGED <<page, crossed, posts, uploads, gone, ed, drafts, tasks, budget, clicks, faults>>

\* The page is loaded again: the debounced save and the saves under way are lost.
Reload ==
    /\ faults < budget.faults /\ faults' = faults + 1
    /\ tasks' = [i \in DOMAIN tasks |-> [tasks[i] EXCEPT !.pc = "done", !.live = FALSE]]
    /\ ed' = [e \in Editor |-> IF e = "home" /\ page = "home" THEN Composed(e) ELSE Closed(e)[e]]
    /\ pending' = IF page = "home" THEN [key |-> "home", content |-> draft["home"]] ELSE None
    /\ overtaken' = {}
    /\ UNCHANGED <<page, stored, draft, budget, clicks, others>>

Next ==
    \/ Debounced \/ Loaded \/ LoadFails \/ Navigate \/ SaveByKey \/ ChangedElsewhere \/ Reload
    \/ \E e \in Editor :
        \/ Open(e) \/ Cancel(e)
        \/ \E c \in Content : Type(e, c)
        \/ SetMetadata(e) \/ SetFiles(e) \/ EditAttachments(e) \/ ToggleFocus(e)
        \/ SaveByButton(e)
    \/ \E i \in DOMAIN tasks :
        \/ uploadFiles(i) \/ ReadBack(i) \/ Update(i) \/ Create(i) \/ Clear(i) \/ Reset(i)
        \/ SaveFails(i)

Spec == Init /\ [][Next]_vars

(***************************************************************************)
(* Properties                                                              *)
(***************************************************************************)

\* An update by the fields that differ from a fresh copy leaves the memo as
\* the editor showed it at the click, unless somebody wrote between the copy
\* and the update (memoService.ts:90-101).
SavedAsShown ==
    [][\A i \in DOMAIN tasks :
        /\ tasks[i].by = "edit" /\ tasks[i].pc = "write" /\ tasks'[i].pc = "written"
        /\ tasks[i].writes = writes
        => \A f \in DOMAIN Shown(tasks[i]) : memo'[f] = Shown(tasks[i])[f]]_vars

\* A text composed once is posted once, however often Save is clicked or
\* Ctrl+Enter pressed, unless an answer was lost (index.tsx:75).
CreatedOnce ==
    faults = 0 => \A i, j \in DOMAIN posts :
                    posts[i].by = posts[j].by /\ posts[i].n = posts[j].n => i = j

Linked == ToSet(memo.attachments) \union UNION {ToSet(posts[i].attachments) : i \in DOMAIN posts}
UnderWay == UNION {ToSet(tasks[i].new) : i \in {j \in DOMAIN tasks : tasks[j].pc # "done"}}

\* No attachment is part of two memos; and every file uploaded is part of
\* one once its save has ended, unless a save failed, the user took it out
\* or an editor saved over a write it had not loaded (memoService.ts:95).
AttachedOnce ==
    /\ \A i, j \in DOMAIN posts : ToSet(posts[i].attachments) \intersect ToSet(posts[j].attachments) # {}
                                  => i = j
    /\ \A i \in DOMAIN posts : ToSet(posts[i].attachments) \intersect ToSet(memo.attachments) = {}
    /\ faults = 0 /\ ~crossed => 1..uploads \subseteq Linked \union UnderWay \union gone

\* When the debounced save is not for it, a new memo's editor has its text as
\* its draft: typed text outlives a page load, and a text that was posted does
\* not come back; unless another editor's write passed over its own
\* (cacheService.ts:10, one debounce for all editors).
DraftFollows ==
    \A e \in New :
        /\ ed[e].live /\ pending.key # e /\ e \notin overtaken
        /\ ~\E i \in DOMAIN tasks : tasks[i].by = e /\ tasks[i].live /\ tasks[i].pc = "cleared"
        => draft[e] = ed[e].content
=============================================================================
