--------------------------- MODULE MCEditorProofs ---------------------------
(***************************************************************************)
(* For any bounds.  A text composed in MemoEditor is posted once, no       *)
(* attachment is part of two memos and none is lost, an edited memo is     *)
(* stored as it was shown, and the drafts follow; what the dialogs show    *)
(* settles; a tab shows the preferences that are saved and follows the     *)
(* system's scheme.                                                        *)
(*                                                                         *)
(* Every step of MemoEditor is first reduced to one of the shapes of       *)
(* StepShapes: the fields of a record that a step sets become facts about  *)
(* that record, and the saves it does not touch are said once (TasksKept,  *)
(* Moves).  Then each invariant is kept by every shape:                    *)
(*   Base       the types, and room for the numbers still to be given;     *)
(*   Copies     the copy a save compared is the memo, until it is written; *)
(*   Once       a text has one save at most, and a post its save;          *)
(*   Apart      an uploaded file is one save's, and goes where it went;    *)
(*   Seen, Accounted  who has loaded the latest write shows its files;     *)
(*   Act, PendingIs, DraftIs  an editor's save, its debounced text and its *)
(*              draft, at every point of a save.                           *)
(***************************************************************************)
EXTENDS MCEditor, FiniteSetTheorems, TLAPS

(***************************************************************************)
(* The invariants                                                          *)
(***************************************************************************)

\* A save that waits for its files gives out at most one number, so every
\* number given fits Attachments.
Waiting == {i \in DOMAIN tasks : tasks[i].pc = "upload"}
Room == uploads + Cardinality(Waiting) <= 1 + Len(tasks)

\* A memo or a comment created.
Post == [by : New, n : Nat, content : Content, attachments : Seq(Attachments)]

\* Only a memo that is edited is read again.
Reading == \A i \in DOMAIN tasks : tasks[i].pc = "read" => tasks[i].by = "edit"

Base == TypeOK /\ posts \in Seq(Post) /\ Room /\ Reading

\* The copy of a save is the memo as long as nobody wrote it.
Copies ==
    \A i \in DOMAIN tasks :
        /\ tasks[i].writes <= writes
        /\ tasks[i].writes = writes => tasks[i].prev = memo

\* The memo of a save is written, or there was nothing to write.
Ended == {"written", "cleared", "done"}

\* The text an editor shows has a save only while the editor is saving or has
\* been closed; a text has one save; a post is of a save whose memo is written.
OnceInv ==
    /\ \A i \in DOMAIN tasks :
           /\ tasks[i].snap.n <= ed[tasks[i].by].n
           /\ tasks[i].snap.n = ed[tasks[i].by].n =>
                  ed[tasks[i].by].saving \/ ~ed[tasks[i].by].live
    /\ \A i, j \in DOMAIN tasks :
           tasks[i].by = tasks[j].by /\ tasks[i].snap.n = tasks[j].snap.n => i = j
    /\ \A k \in DOMAIN posts : \E i \in DOMAIN tasks :
           /\ tasks[i].by = posts[k].by /\ tasks[i].snap.n = posts[k].n
           /\ tasks[i].pc \in Ended
    /\ \A k, l \in DOMAIN posts : posts[k].by = posts[l].by /\ posts[k].n = posts[l].n => k = l

\* A lost answer lets the user save the same text again.
Once == faults = 0 => OnceInv

\* What save i uploaded; what may belong to the memo that is edited; what
\* belongs to post k.
Own(i) == ToSet(tasks[i].new)
EditSide == {1} \union UNION {Own(i) : i \in {j \in DOMAIN tasks : tasks[j].by = "edit"}}
Posted(k) == ToSet(posts[k].attachments)

\* Every number was given to one save, and reaches the memo edited only by
\* saves of "edit", a post only by its own save.
Apart ==
    /\ uploads >= 1
    /\ \A i \in DOMAIN tasks : Own(i) \subseteq 2..uploads /\ (tasks[i].pc = "upload" => Own(i) = {})
    /\ \A i, j \in DOMAIN tasks : i # j => Own(i) \cap Own(j) = {}
    /\ \A e \in New : ed[e].attachments = <<>>
    /\ \A i \in DOMAIN tasks : tasks[i].by \in New => tasks[i].snap.attachments = <<>>
    /\ ToSet(memo.attachments) \subseteq EditSide
    /\ ToSet(ed["edit"].attachments) \subseteq EditSide
    /\ \A i \in DOMAIN tasks : tasks[i].by = "edit" => ToSet(tasks[i].snap.attachments) \subseteq EditSide
    /\ \A k \in DOMAIN posts : Posted(k) \subseteq
           UNION {Own(i) : i \in {j \in DOMAIN tasks : tasks[j].by \in New /\ tasks[j].pc \in Ended}}
    /\ \A k, l \in DOMAIN posts : k # l => Posted(k) \cap Posted(l) = {}

\* No write is known of before it happened.
Seen ==
    /\ ed["edit"].seen <= writes
    /\ \A i \in DOMAIN tasks : tasks[i].by = "edit" =>
           tasks[i].snap.seen <= tasks[i].writes /\ tasks[i].writes <= writes

\* An editor or a save that has loaded the latest write shows the memo's
\* attachments but those removed; a save that wrote left its own in a memo.
Traced ==
    /\ ed["edit"].live /\ ~ed["edit"].loading /\ ed["edit"].seen = writes =>
           ToSet(memo.attachments) \subseteq ToSet(ed["edit"].attachments) \union gone
    /\ \A i \in DOMAIN tasks : tasks[i].by = "edit" /\ tasks[i].snap.seen = writes =>
           ToSet(memo.attachments) \subseteq ToSet(tasks[i].snap.attachments) \union gone
    /\ \A i \in DOMAIN tasks : tasks[i].pc \in Ended =>
           Own(i) \subseteq Linked \union gone
    /\ 1 \in Linked \union gone
    /\ \A n \in 2..uploads : \E i \in DOMAIN tasks : n \in Own(i)

\* A failed call loses what it uploaded, a crossed write what was linked.
Accounted == faults = 0 /\ ~crossed => Traced

\* A save under way whose editor is still there: there is one for each
\* editor, and its editor shows that it is saving.
Active(i) == tasks[i].live /\ tasks[i].pc # "done"
Act ==
    /\ \A i \in DOMAIN tasks : Active(i) => ed[tasks[i].by].live /\ ed[tasks[i].by].saving
    /\ \A i, j \in DOMAIN tasks : Active(i) /\ Active(j) /\ tasks[i].by = tasks[j].by => i = j

\* The debounced save holds the text of the editor it is for.
PendingIs ==
    \A e \in New : pending.key = e /\ ed[e].live => pending.content = ed[e].content

\* Between the removal of its draft and its reset, an editor still shows the
\* text that was posted.
Clearing(e) ==
    \E i \in DOMAIN tasks : tasks[i].by = e /\ tasks[i].live /\ tasks[i].pc = "cleared"

DraftIs ==
    \A e \in New : ed[e].live /\ pending.key # e /\ e \notin overtaken =>
        draft[e] = ed[e].content \/ (draft[e] = "" /\ Clearing(e))

-----------------------------------------------------------------------------

\* The state an editor starts in.
LEMMA InitialTyped ==
    /\ initialState \in EditorState
    /\ initialState.content = "" /\ initialState.attachments = <<>> /\ initialState.saving = FALSE
    /\ initialState.live = FALSE /\ initialState.n = 0 /\ initialState.seen = 0
    /\ initialState.loading = FALSE
<1>1. <<>> \in Seq(Attachments) /\ 0 \in 0..1 /\ 0 \in Nat /\ FALSE \in BOOLEAN
  OBVIOUS
<1>2. "" \in Content /\ "private" \in Visibility /\ "plain" \in Extra
  BY DEF Content, Visibility, Extra
<1> QED BY <1>1, <1>2 DEF initialState, EditorState

\* An attachment taken out of a list.
LEMMA SeqRemove ==
    ASSUME NEW S, NEW s \in Seq(S), NEW i \in DOMAIN s
    PROVE  RemoveAt(s, i) \in Seq(S) /\ ToSet(RemoveAt(s, i)) \subseteq ToSet(s)
<1> DEFINE a == SubSeq(s, 1, i - 1)
           b == SubSeq(s, i + 1, Len(s))
<1>0. i \in 1..Len(s) /\ Len(s) \in Nat
  OBVIOUS
<1>1. a \in Seq(S) /\ b \in Seq(S)
  BY <1>0
<1>2. \A j \in 1..Len(a) : a[j] \in ToSet(s)
  BY <1>0 DEF ToSet
<1>3. \A j \in 1..Len(b) : b[j] \in ToSet(s)
  BY <1>0 DEF ToSet
<1>4. RemoveAt(s, i) = a \o b
  BY DEF RemoveAt
<1>5. (a \o b) \in Seq(S)
  BY <1>1
<1>6. ASSUME NEW x \in ToSet(a \o b) PROVE x \in ToSet(s)
  <2> HIDE DEF a, b
  <2>1. PICK j \in DOMAIN (a \o b) : (a \o b)[j] = x
    BY DEF ToSet
  <2>2. j \in 1..(Len(a) + Len(b)) /\ Len(a) \in Nat /\ Len(b) \in Nat
    BY <1>1, <2>1
  <2>3. x = IF j <= Len(a) THEN a[j] ELSE b[j - Len(a)]
    BY <1>1, <2>1, <2>2
  <2> QED BY <1>2, <1>3, <2>2, <2>3
<1> QED BY <1>4, <1>5, <1>6

\* An attachment moved one place up a list.
LEMMA SeqMovedUp ==
    ASSUME NEW S, NEW s \in Seq(S), NEW i \in DOMAIN s, i > 1
    PROVE  MovedUp(s, i) \in Seq(S) /\ ToSet(MovedUp(s, i)) \subseteq ToSet(s)
                                    /\ ToSet(s) \subseteq ToSet(MovedUp(s, i))
<1>0. i \in 1..Len(s) /\ Len(s) \in Nat /\ i - 1 \in 1..Len(s) /\ i # i - 1
  OBVIOUS
<1> DEFINE u == MovedUp(s, i)
<1>1. DOMAIN u = 1..Len(s)
  BY <1>0 DEF MovedUp
<1>2. \A j \in 1..Len(s) : u[j] = IF j = i THEN s[i - 1] ELSE IF j = i - 1 THEN s[i] ELSE s[j]
  BY <1>0 DEF MovedUp
<1>3. u \in Seq(S)
  BY <1>0, <1>1, <1>2 DEF MovedUp
<1>4. \A x \in ToSet(u) : x \in ToSet(s)
  BY <1>0, <1>1, <1>2 DEF ToSet
<1>5. ASSUME NEW x \in ToSet(s) PROVE x \in ToSet(u)
  <2>1. PICK j \in 1..Len(s) : x = s[j]
    BY DEF ToSet
  <2>2. CASE j = i
    BY <1>0, <1>1, <1>2, <2>1, <2>2 DEF ToSet
  <2>3. CASE j = i - 1
    BY <1>0, <1>1, <1>2, <2>1, <2>3 DEF ToSet
  <2>4. CASE j # i /\ j # i - 1
    BY <1>0, <1>1, <1>2, <2>1, <2>4 DEF ToSet
  <2> QED BY <2>2, <2>3, <2>4
<1> QED BY <1>3, <1>4, <1>5

\* One task moves on, and nothing else of the list.
LEMMA MovedTasks ==
    ASSUME NEW t \in Seq(Task), NEW i \in DOMAIN t, NEW r \in Task
    PROVE  /\ [t EXCEPT ![i] = r] \in Seq(Task)
           /\ Len([t EXCEPT ![i] = r]) = Len(t)
           /\ DOMAIN [t EXCEPT ![i] = r] = DOMAIN t
           /\ \A j \in DOMAIN t : [t EXCEPT ![i] = r][j] = IF j = i THEN r ELSE t[j]
OBVIOUS

\* The sequence of a set of editors names each once.
LEMMA Listed ==
    ASSUME NEW S \in SUBSET Editor
    PROVE  /\ IsFiniteSet(S) /\ Cardinality(S) \in Nat
           /\ SetToSeq(S) \in [1..Cardinality(S) -> S]
           /\ \A a, b \in 1..Cardinality(S) : SetToSeq(S)[a] = SetToSeq(S)[b] => a = b
<1>1. IsFiniteSet({"home"}) /\ IsFiniteSet({"comment"}) /\ IsFiniteSet({"edit"})
  BY FS_Singleton
<1>2. IsFiniteSet({"home"} \cup {"comment"} \cup {"edit"})
  BY <1>1, FS_Union
<1>3. Editor = {"home"} \cup {"comment"} \cup {"edit"}
  BY DEF Editor
<1>4. IsFiniteSet(S)
  BY <1>2, <1>3, FS_Subset
<1>5. Cardinality(S) \in Nat /\ ExistsBijection(1..Cardinality(S), S)
  BY <1>4, FS_CardinalityType
<1>6. \E f \in [1..Cardinality(S) -> S] : IsInjective(f)
  BY <1>5 DEF ExistsBijection, Bijection, Injection, IsInjective
<1>7. SetToSeq(S) \in [1..Cardinality(S) -> S] /\ IsInjective(SetToSeq(S))
  BY <1>6 DEF SetToSeq
<1> QED BY <1>4, <1>5, <1>7 DEF IsInjective

-----------------------------------------------------------------------------

\* A state just given: text c, shown or not, the n-th text composed.
Fresh(s, c, b, n) ==
    /\ s \in EditorState /\ s.content = c /\ s.live = b /\ s.n = n
    /\ s.attachments = <<>> /\ s.saving = FALSE /\ s.seen = 0

\* All the helpers need of the types.
EdTyped == ed \in [Editor -> EditorState] /\ draft \in [Editor -> Content]

\* The states an editor is given when it is shown, closed or reset.
LEMMA FreshStates ==
    ASSUME EdTyped, NEW e \in Editor
    PROVE  /\ Fresh(Composed(e), draft[e], TRUE, ed[e].n + 1)
           /\ Fresh(Loading, "", TRUE, ed["edit"].n + 1) /\ Loading.loading = TRUE
           /\ Fresh([initialState EXCEPT !.n = ed[e].n], "", FALSE, ed[e].n)
           /\ Fresh([initialState EXCEPT !.live = TRUE, !.n = ed[e].n + 1], "", TRUE, ed[e].n + 1)
<1> DEFINE s == initialState
<1>1. s \in EditorState /\ s.content = "" /\ s.attachments = <<>> /\ s.saving = FALSE
      /\ s.live = FALSE /\ s.n = 0 /\ s.seen = 0
  BY InitialTyped
<1> DEFINE c == draft[e]
           k == ed[e].n
           m == ed["edit"].n + 1
<1>2. k \in Nat /\ m \in Nat /\ c \in Content /\ "public" \in Visibility /\ k + 1 \in Nat
  BY DEF EdTyped, EditorState, Editor, Visibility
<1> HIDE DEF s
<1>3. Fresh([s EXCEPT !.content = c, !.visibility = "public", !.live = TRUE, !.n = k + 1],
            c, TRUE, k + 1)
  <2> HIDE DEF c, k
  <2> QED BY <1>1, <1>2 DEF EditorState, Fresh
<1>4. LET u == [s EXCEPT !.live = TRUE, !.loading = TRUE, !.n = m]
      IN  Fresh(u, "", TRUE, m) /\ u.loading = TRUE
  <2> HIDE DEF m
  <2> QED BY <1>1, <1>2 DEF EditorState, Fresh
<1>5. Fresh([s EXCEPT !.n = k], "", FALSE, k)
  <2> HIDE DEF k
  <2> QED BY <1>1, <1>2 DEF EditorState, Fresh
<1>6. Fresh([s EXCEPT !.live = TRUE, !.n = k + 1], "", TRUE, k + 1)
  <2> HIDE DEF k
  <2> QED BY <1>1, <1>2 DEF EditorState, Fresh
<1> USE DEF s
<1> QED BY <1>3, <1>4, <1>5, <1>6 DEF Composed, Loading

\* Closing an editor changes that editor alone.
LEMMA ClosedEditor ==
    ASSUME EdTyped, NEW e \in Editor
    PROVE  /\ Closed(e) \in [Editor -> EditorState]
           /\ Fresh(Closed(e)[e], "", FALSE, ed[e].n)
           /\ \A x \in Editor : x # e => Closed(e)[x] = ed[x]
<1>1. Fresh([initialState EXCEPT !.n = ed[e].n], "", FALSE, ed[e].n)
  BY FreshStates
<1> QED BY <1>1 DEF Closed, EdTyped, Fresh

-----------------------------------------------------------------------------

\* A step that leaves the saves as they are, but for how far each has got.
KeptTask(t, u) ==
    /\ u.by = t.by /\ u.snap = t.snap /\ u.new = t.new
    /\ u.pc \in Ended \/ u.pc = t.pc

TasksKept ==
    /\ tasks' \in Seq(Task) /\ Len(tasks') = Len(tasks) /\ DOMAIN tasks' = DOMAIN tasks
    /\ \A i \in DOMAIN tasks : KeptTask(tasks[i], tasks'[i])

\* And their copies of the memo.
CopiesKept ==
    \A i \in DOMAIN tasks : tasks'[i].prev = tasks[i].prev /\ tasks'[i].writes = tasks[i].writes

\* A list of saves left as it is.
LEMMA SameTasks ==
    ASSUME tasks \in Seq(Task), tasks' = tasks
    PROVE  TasksKept /\ CopiesKept
BY DEF TasksKept, KeptTask, CopiesKept

\* Save i moves to a later step.
LEMMA MovedKeeps ==
    ASSUME tasks \in Seq(Task), NEW i \in DOMAIN tasks, NEW pc \in Ended, Moved(i, pc)
    PROVE  /\ TasksKept /\ CopiesKept
           /\ \A j \in DOMAIN tasks : j # i => tasks'[j] = tasks[j]
           /\ tasks'[i].pc = pc /\ tasks'[i].live = tasks[i].live
<1> DEFINE r == [tasks[i] EXCEPT !.pc = pc]
<1>1. tasks[i] \in Task
  OBVIOUS
<1>0. pc \in Steps
  BY DEF Ended, Steps
<1>2. r \in Task /\ r.pc = pc /\ r.by = tasks[i].by /\ r.snap = tasks[i].snap
      /\ r.new = tasks[i].new /\ r.prev = tasks[i].prev /\ r.writes = tasks[i].writes
      /\ r.live = tasks[i].live
  <2> DEFINE t == tasks[i]
  <2>1. t \in Task
    BY <1>1
  <2> HIDE DEF t
  <2>2. LET u == [t EXCEPT !.pc = pc]
        IN  /\ u \in Task /\ u.pc = pc /\ u.by = t.by /\ u.snap = t.snap
            /\ u.new = t.new /\ u.prev = t.prev /\ u.writes = t.writes /\ u.live = t.live
    BY <1>0, <2>1 DEF Task
  <2> USE DEF t
  <2> QED BY <2>2
<1>3. tasks' = [tasks EXCEPT ![i] = r]
  BY DEF Moved
<1> HIDE DEF r
<1>4. /\ tasks' \in Seq(Task) /\ Len(tasks') = Len(tasks) /\ DOMAIN tasks' = DOMAIN tasks
      /\ \A j \in DOMAIN tasks : tasks'[j] = IF j = i THEN r ELSE tasks[j]
  BY <1>2, <1>3, MovedTasks
<1> QED BY <1>2, <1>4 DEF TasksKept, CopiesKept, KeptTask

\* Saves whose editors are closed go on without them.
LEMMA OrphanedKeeps ==
    ASSUME tasks \in Seq(Task), NEW es \in SUBSET Editor, tasks' = Orphaned(es)
    PROVE  /\ TasksKept /\ CopiesKept
           /\ \A i \in DOMAIN tasks :
                  /\ tasks'[i].pc = tasks[i].pc
                  /\ tasks'[i].live = (tasks[i].live /\ tasks[i].by \notin es)
<1>1. ASSUME NEW t \in Task
      PROVE  LET u == [t EXCEPT !.live = FALSE]
             IN  /\ u \in Task /\ u.pc = t.pc /\ u.by = t.by /\ u.snap = t.snap
                 /\ u.new = t.new /\ u.prev = t.prev /\ u.writes = t.writes /\ u.live = FALSE
  BY DEF Task
<1>2. \A i \in DOMAIN tasks : tasks[i] \in Task
  OBVIOUS
<1>3. \A i \in DOMAIN tasks :
          /\ tasks'[i] \in Task /\ KeptTask(tasks[i], tasks'[i])
          /\ tasks'[i].pc = tasks[i].pc
          /\ tasks'[i].prev = tasks[i].prev /\ tasks'[i].writes = tasks[i].writes
          /\ tasks'[i].live = (tasks[i].live /\ tasks[i].by \notin es)
  <2> TAKE i \in DOMAIN tasks
  <2>1. tasks'[i] = IF tasks[i].by \in es THEN [tasks[i] EXCEPT !.live = FALSE] ELSE tasks[i]
    BY DEF Orphaned
  <2>2. CASE tasks[i].by \in es
    <3>1. tasks'[i] = [tasks[i] EXCEPT !.live = FALSE]
      BY <2>1, <2>2
    <3> DEFINE t == tasks[i]
    <3>2. t \in Task /\ t.by \in es
      BY <1>2, <2>2
    <3>3. tasks'[i] = [t EXCEPT !.live = FALSE]
      BY <3>1
    <3> HIDE DEF t
    <3>4. /\ tasks'[i] \in Task /\ KeptTask(t, tasks'[i])
          /\ tasks'[i].pc = t.pc
          /\ tasks'[i].prev = t.prev /\ tasks'[i].writes = t.writes
          /\ tasks'[i].live = (t.live /\ t.by \notin es)
      BY <1>1, <3>2, <3>3 DEF KeptTask
    <3> USE DEF t
    <3> QED BY <3>4
  <2>3. CASE tasks[i].by \notin es
    <3>1. tasks'[i] = tasks[i] /\ tasks[i].live \in BOOLEAN
      BY <1>2, <2>1, <2>3 DEF Task
    <3> QED BY <1>2, <3>1, <2>3 DEF KeptTask
  <2> QED BY <2>2, <2>3
<1>4. DOMAIN tasks' = 1..Len(tasks) /\ Len(tasks) \in Nat
  BY DEF Orphaned
<1>5. tasks' \in Seq(Task) /\ Len(tasks') = Len(tasks)
  <2>1. tasks' = [i \in 1..Len(tasks) |-> tasks'[i]]
    BY DEF Orphaned
  <2>2. \A i \in 1..Len(tasks) : tasks'[i] \in Task
    BY <1>3
  <2> QED BY <1>4, <2>1, <2>2
<1> QED BY <1>3, <1>4, <1>5 DEF TasksKept, CopiesKept

-----------------------------------------------------------------------------

\* One change of an editor's text, metadata, files or attachments.
Edits(e, s) ==
    /\ s \in EditorState
    /\ s.n = ed[e].n /\ s.saving = ed[e].saving /\ s.live = ed[e].live /\ s.loading = ed[e].loading
    /\ s.seen = ed[e].seen
    /\ ToSet(s.attachments) \subseteq ToSet(ed[e].attachments)
    /\ Reduce(e, s)
    /\ \/ s.content = ed[e].content /\ UNCHANGED <<pending, overtaken>>
       \/ AutoSave(e, s.content)

\* What the user may do in an editor, but saving and closing it.
Editing(e) ==
    \/ \E c \in Content : Type(e, c)
    \/ SetMetadata(e) \/ SetFiles(e) \/ EditAttachments(e) \/ ToggleFocus(e)

\* Each of the editing actions is such a change.
LEMMA EditingEdits ==
    ASSUME EdTyped, NEW e \in Editor, Editing(e)
    PROVE  \E s \in EditorState : Edits(e, s)
<1> DEFINE t == ed[e]
<1>0. t \in EditorState /\ t.attachments \in Seq(Attachments)
  BY DEF EdTyped, EditorState
<1>1. CASE \E c \in Content : Type(e, c)
  <2>1. PICK c \in Content : Type(e, c)
    BY <1>1
  <2> DEFINE s == [t EXCEPT !.content = c]
  <2>2. s \in EditorState /\ s.n = t.n /\ s.saving = t.saving /\ s.live = t.live
        /\ s.loading = t.loading /\ s.seen = t.seen /\ s.attachments = t.attachments
        /\ s.content = c
    <3> HIDE DEF t
    <3> QED BY <1>0 DEF EditorState
  <2>3. Reduce(e, s) /\ AutoSave(e, c)
    BY <2>1 DEF Type
  <2> HIDE DEF s
  <2>4. Edits(e, s)
    BY <2>2, <2>3 DEF Edits
  <2> QED BY <2>2, <2>4
<1>2. CASE SetMetadata(e)
  <2>1. CASE \E v \in Visibility : Reduce(e, [t EXCEPT !.visibility = v])
    <3>1. PICK v \in Visibility : Reduce(e, [t EXCEPT !.visibility = v])
      BY <2>1
    <3> DEFINE s == [t EXCEPT !.visibility = v]
    <3>2. s \in EditorState /\ s.n = t.n /\ s.saving = t.saving /\ s.live = t.live
          /\ s.loading = t.loading /\ s.seen = t.seen /\ s.attachments = t.attachments
          /\ s.content = t.content
      <4> HIDE DEF t
      <4> QED BY <1>0 DEF EditorState
    <3>3. Reduce(e, s) /\ UNCHANGED <<pending, overtaken>>
      BY <3>1, <1>2 DEF SetMetadata
    <3> HIDE DEF s
    <3>4. Edits(e, s)
      BY <3>2, <3>3 DEF Edits
    <3> QED BY <3>2, <3>4
  <2>2. CASE \E x \in Extra : Reduce(e, [t EXCEPT !.extra = x])
    <3>1. PICK x \in Extra : Reduce(e, [t EXCEPT !.extra = x])
      BY <2>2
    <3> DEFINE s == [t EXCEPT !.extra = x]
    <3>2. s \in EditorState /\ s.n = t.n /\ s.saving = t.saving /\ s.live = t.live
          /\ s.loading = t.loading /\ s.seen = t.seen /\ s.attachments = t.attachments
          /\ s.content = t.content
      <4> HIDE DEF t
      <4> QED BY <1>0 DEF EditorState
    <3>3. Reduce(e, s) /\ UNCHANGED <<pending, overtaken>>
      BY <3>1, <1>2 DEF SetMetadata
    <3> HIDE DEF s
    <3>4. Edits(e, s)
      BY <3>2, <3>3 DEF Edits
    <3> QED BY <3>2, <3>4
  <2> QED BY <1>2, <2>1, <2>2 DEF SetMetadata
<1>3. CASE SetFiles(e)
  <2> DEFINE s == [t EXCEPT !.files = 1 - @]
  <2>2. s \in EditorState /\ s.n = t.n /\ s.saving = t.saving /\ s.live = t.live
        /\ s.loading = t.loading /\ s.seen = t.seen /\ s.attachments = t.attachments
        /\ s.content = t.content
    <3> HIDE DEF t
    <3> QED BY <1>0 DEF EditorState
  <2>3. Reduce(e, s) /\ UNCHANGED <<pending, overtaken>>
    BY <1>3 DEF SetFiles
  <2> HIDE DEF s
  <2>4. Edits(e, s)
    BY <2>2, <2>3 DEF Edits
  <2> QED BY <2>2, <2>4
<1>4. CASE ToggleFocus(e)
  <2> DEFINE s == [t EXCEPT !.focus = ~@]
  <2>2. s \in EditorState /\ s.n = t.n /\ s.saving = t.saving /\ s.live = t.live
        /\ s.loading = t.loading /\ s.seen = t.seen /\ s.attachments = t.attachments
        /\ s.content = t.content
    <3> HIDE DEF t
    <3> QED BY <1>0 DEF EditorState
  <2>3. Reduce(e, s) /\ UNCHANGED <<pending, overtaken>>
    BY <1>4 DEF ToggleFocus
  <2> HIDE DEF s
  <2>4. Edits(e, s)
    BY <2>2, <2>3 DEF Edits
  <2> QED BY <2>2, <2>4
<1>5. CASE EditAttachments(e)
  <2>1. PICK i \in DOMAIN t.attachments :
            \/ Reduce(e, [t EXCEPT !.attachments = RemoveAt(@, i)])
            \/ i > 1 /\ Reduce(e, [t EXCEPT !.attachments = MovedUp(@, i)])
    BY <1>5 DEF EditAttachments
  <2>2. PICK q \in Seq(Attachments) :
            ToSet(q) \subseteq ToSet(t.attachments) /\ Reduce(e, [t EXCEPT !.attachments = q])
    <3>1. CASE Reduce(e, [t EXCEPT !.attachments = RemoveAt(@, i)])
      <4>1. RemoveAt(t.attachments, i) \in Seq(Attachments)
            /\ ToSet(RemoveAt(t.attachments, i)) \subseteq ToSet(t.attachments)
        BY <1>0, SeqRemove
      <4> QED BY <3>1, <4>1
    <3>2. CASE i > 1 /\ Reduce(e, [t EXCEPT !.attachments = MovedUp(@, i)])
      <4>1. MovedUp(t.attachments, i) \in Seq(Attachments)
            /\ ToSet(MovedUp(t.attachments, i)) \subseteq ToSet(t.attachments)
        BY <1>0, <3>2, SeqMovedUp
      <4> QED BY <3>2, <4>1
    <3> QED BY <2>1, <3>1, <3>2
  <2> DEFINE s == [t EXCEPT !.attachments = q]
  <2>3. s \in EditorState /\ s.n = t.n /\ s.saving = t.saving /\ s.live = t.live
        /\ s.loading = t.loading /\ s.seen = t.seen /\ s.attachments = q
        /\ s.content = t.content
    <3> HIDE DEF t
    <3> QED BY <1>0 DEF EditorState
  <2>4. Reduce(e, s) /\ UNCHANGED <<pending, overtaken>>
    BY <1>5, <2>2 DEF EditAttachments
  <2> HIDE DEF s
  <2>5. Edits(e, s)
    BY <2>2, <2>3, <2>4 DEF Edits
  <2> QED BY <2>3, <2>5
<1> QED BY <1>1, <1>2, <1>3, <1>4, <1>5 DEF Editing

\* A step that gives out no number and starts no save leaves room.
LEMMA RoomKept ==
    ASSUME Room, uploads \in Nat, tasks \in Seq(Task), TasksKept, uploads' = uploads
    PROVE  Room'
<1>1. Waiting' \subseteq Waiting
  BY DEF Waiting, TasksKept, KeptTask, Ended
<1>2. Waiting \subseteq 1..Len(tasks) /\ Len(tasks) \in Nat
  BY DEF Waiting
<1>3. IsFiniteSet(Waiting)
  <2>1. IsFiniteSet(1..Len(tasks))
    BY <1>2, FS_Interval
  <2> QED BY <1>2, <2>1, FS_Subset
<1>4. IsFiniteSet(Waiting') /\ Cardinality(Waiting') <= Cardinality(Waiting)
  BY <1>1, <1>3, FS_Subset
<1>5. Cardinality(Waiting) \in Nat /\ Cardinality(Waiting') \in Nat
  BY <1>3, <1>4, FS_CardinalityType
<1> DEFINE k == Cardinality(Waiting)
           m == Cardinality(Waiting')
<1>6. /\ uploads + k <= 1 + Len(tasks) /\ uploads' = uploads /\ Len(tasks') = Len(tasks)
      /\ k \in Nat /\ m \in Nat /\ m <= k
  BY <1>4, <1>5 DEF Room, TasksKept
<1>7. uploads' + m <= 1 + Len(tasks')
  <2> HIDE DEF k, m
  <2> QED BY <1>2, <1>6
<1> QED BY <1>7 DEF Room

-----------------------------------------------------------------------------

\* What the click of Save starts: one save for each editor that may be saved.
Starts(es) ==
    /\ tasks' \in Seq(Task) /\ Len(tasks') \in Nat /\ Len(tasks') <= MaxSaves
    /\ DOMAIN tasks \subseteq DOMAIN tasks'
    /\ \A i \in DOMAIN tasks : tasks'[i] = tasks[i]
    /\ \A i \in DOMAIN tasks' \ DOMAIN tasks :
           \E e \in es : canSave(e) /\ tasks'[i] = Begun(e)
    /\ \A i, j \in DOMAIN tasks' \ DOMAIN tasks : tasks'[i].by = tasks'[j].by => i = j
    /\ Waiting' = Waiting \union (DOMAIN tasks' \ DOMAIN tasks)
    /\ \A i \in DOMAIN tasks' \ DOMAIN tasks : ed'[tasks'[i].by].saving = TRUE
    /\ ed' \in [Editor -> EditorState]
    /\ \A e \in Editor :
           \/ ed'[e] = ed[e]
           \/ /\ canSave(e) /\ ed'[e].saving = TRUE
              /\ ed'[e].n = ed[e].n /\ ed'[e].live = ed[e].live /\ ed'[e].seen = ed[e].seen
              /\ ed'[e].attachments = ed[e].attachments /\ ed'[e].content = ed[e].content
              /\ ed'[e].loading = ed[e].loading

\* The save an editor begins.
LEMMA BegunTyped ==
    ASSUME EdTyped, memo \in Memo, writes \in Nat, NEW e \in Editor
    PROVE  /\ Begun(e) \in Task
           /\ Begun(e).by = e /\ Begun(e).snap = ed[e] /\ Begun(e).new = <<>>
           /\ Begun(e).pc = "upload" /\ Begun(e).live = TRUE
           /\ Begun(e).prev = memo /\ Begun(e).writes = writes
<1>1. ed[e] \in EditorState /\ <<>> \in Seq(Attachments) /\ "upload" \in Steps /\ TRUE \in BOOLEAN
  BY DEF EdTyped, Steps
<1> DEFINE s == ed[e]
<1>2. s \in EditorState
  BY <1>1
<1> HIDE DEF s
<1>3. LET b == [by |-> e, snap |-> s, live |-> TRUE, pc |-> "upload", new |-> <<>>,
                prev |-> memo, writes |-> writes]
      IN  b \in Task /\ b.by = e /\ b.snap = s /\ b.new = <<>> /\ b.pc = "upload" /\ b.live = TRUE
          /\ b.prev = memo /\ b.writes = writes
  BY <1>1, <1>2 DEF Task
<1> USE DEF s
<1> QED BY <1>3 DEF Begun

\* An editor whose save begins.
LEMMA SavingTyped ==
    ASSUME NEW s \in EditorState
    PROVE  LET u == [s EXCEPT !.saving = TRUE]
           IN  u \in EditorState /\ u.saving = TRUE /\ u.n = s.n /\ u.live = s.live
               /\ u.seen = s.seen /\ u.attachments = s.attachments /\ u.content = s.content
               /\ u.loading = s.loading
BY DEF EditorState

\* The click starts the saves in the order of SetToSeq.
LEMMA handleSaveStarts ==
    ASSUME EdTyped, memo \in Memo, writes \in Nat, tasks \in Seq(Task), MaxSaves \in Nat,
           NEW es \in SUBSET Editor, handleSave(es)
    PROVE  Starts(es)
<1> DEFINE saving == {e \in es : canSave(e)}
           k == Cardinality(saving)
           f == SetToSeq(saving)
           n == Len(tasks)
           q == [i \in 1..k |-> Begun(f[i])]
<1>1. saving \in SUBSET Editor
  OBVIOUS
<1>2. /\ k \in Nat /\ f \in [1..k -> saving]
      /\ \A a, b \in 1..k : f[a] = f[b] => a = b
  BY <1>1, Listed
<1>3. \A e \in saving : e \in es /\ e \in Editor /\ canSave(e)
  OBVIOUS
<1>4. tasks' = tasks \o q /\ n + k <= MaxSaves
      /\ ed' = [e \in Editor |-> IF e \in saving THEN [ed[e] EXCEPT !.saving = TRUE] ELSE ed[e]]
  BY DEF handleSave
<1> HIDE DEF saving, k, f
<1>5. \A i \in 1..k : f[i] \in saving /\ q[i] = Begun(f[i]) /\ q[i] \in Task
  BY <1>2, <1>3, BegunTyped
<1>6. q \in Seq(Task) /\ Len(q) = k
  <2>1. q \in [1..k -> Task]
    BY <1>5
  <2> QED BY <1>2, <2>1
<1>7. n \in Nat /\ DOMAIN tasks = 1..n
  OBVIOUS
<1> HIDE DEF q
<1>8. /\ tasks' \in Seq(Task) /\ Len(tasks') = n + k /\ DOMAIN tasks' = 1..(n + k)
      /\ \A i \in 1..(n + k) : tasks'[i] = IF i <= n THEN tasks[i] ELSE q[i - n]
  BY <1>2, <1>4, <1>6, <1>7
<1> HIDE DEF n
<1>9. \A i \in DOMAIN tasks' \ DOMAIN tasks : i - n \in 1..k /\ ~(i <= n) /\ i \in 1..(n + k)
  BY <1>2, <1>7, <1>8
<1>10. \A i \in DOMAIN tasks' \ DOMAIN tasks :
           tasks'[i] = Begun(f[i - n]) /\ f[i - n] \in saving /\ f[i - n] \in Editor
  BY <1>3, <1>5, <1>8, <1>9
<1>11. \A i \in DOMAIN tasks' \ DOMAIN tasks : tasks'[i].by = f[i - n] /\ tasks'[i].pc = "upload"
  <2>1. \A e \in Editor : Begun(e).by = e /\ Begun(e).pc = "upload"
    BY BegunTyped
  <2> QED BY <1>10, <2>1
<1>12. \A i, j \in DOMAIN tasks' \ DOMAIN tasks : tasks'[i].by = tasks'[j].by => i = j
  <2>1. ASSUME NEW i \in DOMAIN tasks' \ DOMAIN tasks, NEW j \in DOMAIN tasks' \ DOMAIN tasks,
               tasks'[i].by = tasks'[j].by
        PROVE  i = j
    <3>1. i - n = j - n
      BY <1>2, <1>9, <1>11, <2>1
    <3>2. i \in Nat /\ j \in Nat /\ n \in Nat
      BY <1>7, <1>8
    <3> QED BY <3>1, <3>2
  <2> QED BY <2>1
<1>13. \A i \in DOMAIN tasks : i \in 1..(n + k) /\ i <= n
  BY <1>2, <1>7
<1>14. \A i \in DOMAIN tasks : tasks'[i] = tasks[i] /\ i \in DOMAIN tasks'
  BY <1>8, <1>13
<1>15. Waiting' = Waiting \union (DOMAIN tasks' \ DOMAIN tasks)
  BY <1>11, <1>14 DEF Waiting
<1>16. \A e \in Editor :
           /\ ed[e] \in EditorState
           /\ ed'[e] = IF e \in saving THEN [ed[e] EXCEPT !.saving = TRUE] ELSE ed[e]
  BY <1>4 DEF EdTyped
<1>17. \A e \in Editor : ed'[e] \in EditorState
  BY <1>16, SavingTyped
<1>18. ed' \in [Editor -> EditorState]
  BY <1>4, <1>17
<1>19. \A e \in saving :
           /\ canSave(e) /\ ed'[e].saving = TRUE
           /\ ed'[e].n = ed[e].n /\ ed'[e].live = ed[e].live /\ ed'[e].seen = ed[e].seen
           /\ ed'[e].attachments = ed[e].attachments /\ ed'[e].content = ed[e].content
           /\ ed'[e].loading = ed[e].loading
  BY <1>3, <1>16, SavingTyped
<1>20. \A i \in DOMAIN tasks' \ DOMAIN tasks : \E e \in es : canSave(e) /\ tasks'[i] = Begun(e)
  BY <1>3, <1>10
<1>21. \A i \in DOMAIN tasks' \ DOMAIN tasks : ed'[tasks'[i].by].saving = TRUE
  BY <1>10, <1>11, <1>19
<1>22. \A e \in Editor : e \notin saving => ed'[e] = ed[e]
  BY <1>16
<1>23. Len(tasks') \in Nat /\ Len(tasks') <= MaxSaves
  BY <1>2, <1>4, <1>7, <1>8
<1>24. DOMAIN tasks \subseteq DOMAIN tasks'
  BY <1>14
<1>25. \A e \in Editor :
           \/ ed'[e] = ed[e]
           \/ /\ canSave(e) /\ ed'[e].saving = TRUE
              /\ ed'[e].n = ed[e].n /\ ed'[e].live = ed[e].live /\ ed'[e].seen = ed[e].seen
              /\ ed'[e].attachments = ed[e].attachments /\ ed'[e].content = ed[e].content
              /\ ed'[e].loading = ed[e].loading
  BY <1>19, <1>22
<1> QED BY <1>8, <1>12, <1>14, <1>15, <1>18, <1>20, <1>21, <1>23, <1>24, <1>25 DEF Starts

-----------------------------------------------------------------------------

\* The files of save i get the next numbers.
Uploads(i) ==
    /\ tasks' \in Seq(Task) /\ Len(tasks') = Len(tasks) /\ DOMAIN tasks' = DOMAIN tasks
    /\ \A j \in DOMAIN tasks : j # i => tasks'[j] = tasks[j]
    /\ tasks'[i].by = tasks[i].by /\ tasks'[i].snap = tasks[i].snap /\ tasks'[i].live = tasks[i].live
    /\ tasks'[i].prev = tasks[i].prev /\ tasks'[i].writes = tasks[i].writes
    /\ tasks[i].pc = "upload"
    /\ tasks'[i].pc = IF tasks[i].by = "edit" THEN "read" ELSE "write"
    /\ uploads' \in Nat /\ uploads <= uploads'
    /\ ToSet(tasks'[i].new) = (uploads + 1)..uploads'

\* The upload is such a step.
LEMMA uploadFilesUploads ==
    ASSUME MaxSaves \in Nat, tasks \in Seq(Task), Len(tasks) <= MaxSaves, uploads \in Nat, Room,
           NEW i \in DOMAIN tasks, uploadFiles(i)
    PROVE  Uploads(i) /\ Room'
<1> DEFINE t == tasks[i]
           n == t.snap.files
           N == [j \in 1..n |-> uploads + j]
           p == IF t.by = "edit" THEN "read" ELSE "write"
           r == [t EXCEPT !.new = N, !.pc = p]
           L == Len(tasks)
           k == Cardinality(Waiting)
<1>1. t \in Task /\ t.snap \in EditorState /\ t.pc = "upload"
  <2>1. t \in Task
    OBVIOUS
  <2>2. t.pc = "upload"
    BY DEF uploadFiles
  <2> HIDE DEF t
  <2> QED BY <2>1, <2>2 DEF Task
<1>2. n \in 0..1
  BY <1>1 DEF EditorState
<1>3. L \in Nat /\ Waiting \subseteq 1..L /\ i \in Waiting
  BY <1>1 DEF Waiting
<1>4. IsFiniteSet(Waiting)
  <2>1. IsFiniteSet(1..L)
    BY <1>3, FS_Interval
  <2> QED BY <1>3, <2>1, FS_Subset
<1>5. /\ k \in Nat /\ IsFiniteSet(Waiting \ {i})
      /\ Cardinality(Waiting \ {i}) \in Nat /\ Cardinality(Waiting \ {i}) = k - 1
  <2>1. k \in Nat /\ IsFiniteSet(Waiting \ {i}) /\ Cardinality(Waiting \ {i}) = k - 1
    BY <1>3, <1>4, FS_CardinalityType, FS_RemoveElement
  <2> QED BY <2>1, FS_CardinalityType
<1>6. k >= 1 /\ uploads + k <= 1 + L /\ L <= MaxSaves
  BY <1>5 DEF Room
<1>7. uploads + n <= MaxSaves + 2
  <2> HIDE DEF n, k, L
  <2> QED BY <1>2, <1>3, <1>5, <1>6
<1>8. N \in Seq(Attachments)
  <2>1. \A j \in 1..n : uploads + j \in Attachments
    <3> HIDE DEF n
    <3> QED BY <1>2, <1>7 DEF Attachments
  <2>2. n \in Nat
    BY <1>2
  <2> HIDE DEF n
  <2> QED BY <2>1, <2>2
<1>9. ToSet(N) = (uploads + 1)..(uploads + n)
  <2> HIDE DEF n
  <2>1. DOMAIN N = 1..n /\ \A j \in 1..n : N[j] = uploads + j
    OBVIOUS
  <2>2. ASSUME NEW x \in (uploads + 1)..(uploads + n) PROVE x \in ToSet(N)
    <3>1. x - uploads \in 1..n /\ N[x - uploads] = uploads + (x - uploads)
      BY <1>2, <2>1
    <3>2. uploads + (x - uploads) = x
      OBVIOUS
    <3> QED BY <2>1, <3>1, <3>2 DEF ToSet
  <2>3. ASSUME NEW x \in ToSet(N) PROVE x \in (uploads + 1)..(uploads + n)
    <3>1. PICK j \in 1..n : x = uploads + j
      BY <2>1, <2>3 DEF ToSet
    <3> QED BY <1>2, <3>1
  <2> QED BY <2>2, <2>3
<1>10. p \in Steps /\ p # "upload"
  BY DEF Steps
<1>11. /\ r \in Task /\ r.new = N /\ r.pc = p /\ r.by = t.by /\ r.snap = t.snap
       /\ r.live = t.live /\ r.prev = t.prev /\ r.writes = t.writes
  <2> HIDE DEF N, t, p
  <2> QED BY <1>1, <1>8, <1>10 DEF Task
<1>12. tasks' = [tasks EXCEPT ![i] = r] /\ uploads' = uploads + n
  BY DEF uploadFiles
<1> HIDE DEF r, N
<1>13. /\ tasks' \in Seq(Task) /\ Len(tasks') = L /\ DOMAIN tasks' = DOMAIN tasks
       /\ \A j \in DOMAIN tasks : tasks'[j] = IF j = i THEN r ELSE tasks[j]
  BY <1>11, <1>12, MovedTasks
<1>14. Waiting' = Waiting \ {i}
  <2>1. \A j \in DOMAIN tasks' : tasks'[j].pc = IF j = i THEN p ELSE tasks[j].pc
    BY <1>11, <1>13
  <2> HIDE DEF p
  <2> QED BY <1>10, <1>13, <2>1 DEF Waiting
<1>15. uploads' \in Nat /\ uploads <= uploads'
  <2> HIDE DEF n
  <2> QED BY <1>2, <1>12
<1>16. Room'
  <2> DEFINE m == Cardinality(Waiting \ {i})
  <2>1. m \in Nat /\ m = k - 1
    BY <1>5
  <2>2. uploads' + m <= 1 + L
    <3> HIDE DEF m, k, n, L
    <3> QED BY <1>2, <1>3, <1>5, <1>6, <1>12, <2>1
  <2> QED BY <1>13, <1>14, <2>2 DEF Room
<1>17. Uploads(i)
  <2>1. tasks'[i] = r
    BY <1>13
  <2>2. ToSet(tasks'[i].new) = (uploads + 1)..uploads'
    BY <1>9, <1>11, <1>12, <2>1
  <2> QED BY <1>1, <1>11, <1>13, <1>15, <2>1, <2>2 DEF Uploads
<1> QED BY <1>16, <1>17

\* The memo is read again by save i.
Reads(i) ==
    /\ tasks' \in Seq(Task) /\ Len(tasks') = Len(tasks) /\ DOMAIN tasks' = DOMAIN tasks
    /\ \A j \in DOMAIN tasks : j # i => tasks'[j] = tasks[j]
    /\ tasks'[i].by = tasks[i].by /\ tasks'[i].snap = tasks[i].snap /\ tasks'[i].new = tasks[i].new
    /\ tasks'[i].live = tasks[i].live
    /\ tasks'[i].prev = memo /\ tasks'[i].writes = writes
    /\ tasks[i].pc = "read" /\ tasks'[i].pc \in {"done", "write"}
    /\ tasks'[i].pc = "done" => tasks[i].snap.attachments \o tasks[i].new = memo.attachments
    /\ ed' = IF tasks'[i].pc = "done" /\ tasks[i].live THEN Closed("edit") ELSE ed

\* Reading the memo again is such a step.
LEMMA ReadBackReads ==
    ASSUME tasks \in Seq(Task), memo \in Memo, writes \in Nat, NEW i \in DOMAIN tasks, ReadBack(i)
    PROVE  Reads(i)
<1> DEFINE s == tasks[i]
           t == [s EXCEPT !.prev = memo, !.writes = writes]
           same == buildUpdateMask(t) = {} /\ ~TimeSet(t)
           p == IF same THEN "done" ELSE "write"
           r == [t EXCEPT !.pc = p]
<1>1. s \in Task
  OBVIOUS
<1>2. /\ t \in Task /\ t.by = s.by /\ t.snap = s.snap /\ t.new = s.new /\ t.live = s.live
      /\ t.prev = memo /\ t.writes = writes
  <2> HIDE DEF s
  <2> QED BY <1>1 DEF Task
<1>3. p \in Steps /\ (p = "done" <=> same) /\ p \in {"done", "write"}
  BY DEF Steps
<1>4. /\ tasks' = [tasks EXCEPT ![i] = r] /\ s.pc = "read"
      /\ ed' = IF same /\ t.live THEN Closed("edit") ELSE ed
  BY DEF ReadBack
<1>5. same => s.snap.attachments \o s.new = memo.attachments
  <2>1. Shown(t).attachments = s.snap.attachments \o s.new /\ "attachments" \in DOMAIN Shown(t)
        /\ Shown(t)["attachments"] = Shown(t).attachments
    BY <1>2 DEF Shown
  <2>2. t.prev["attachments"] = memo.attachments
    BY <1>2
  <2> HIDE DEF t
  <2> QED BY <2>1, <2>2 DEF buildUpdateMask
<1> HIDE DEF t, same
<1>6. /\ r \in Task /\ r.pc = p /\ r.by = t.by /\ r.snap = t.snap /\ r.new = t.new
      /\ r.live = t.live /\ r.prev = t.prev /\ r.writes = t.writes
  <2> HIDE DEF p
  <2> QED BY <1>2, <1>3 DEF Task
<1> HIDE DEF r, p
<1>7. /\ tasks' \in Seq(Task) /\ Len(tasks') = Len(tasks) /\ DOMAIN tasks' = DOMAIN tasks
      /\ \A j \in DOMAIN tasks : tasks'[j] = IF j = i THEN r ELSE tasks[j]
  BY <1>4, <1>6, MovedTasks
<1>8. tasks'[i] = r
  BY <1>7
<1> QED BY <1>2, <1>3, <1>4, <1>5, <1>6, <1>7, <1>8 DEF Reads

-----------------------------------------------------------------------------
(***************************************************************************)
(* The types                                                               *)
(***************************************************************************)

\* TypeOK in parts, so that a step is shown to keep each by itself.
Within ==
    /\ budget \in Budgets /\ clicks \in 0..budget.clicks
    /\ others \in 0..budget.others /\ faults \in 0..budget.faults

\* Every bound is a number.
LEMMA BudgetTyped ==
    ASSUME Within
    PROVE  /\ clicks \in Nat /\ others \in Nat /\ faults \in Nat
           /\ budget.clicks \in Nat /\ budget.others \in Nat /\ budget.faults \in Nat
<1>1. budget \in [clicks : Nat, others : Nat, faults : Nat]
  BY BoundsAssumption DEF Within
<1>2. budget.clicks \in Nat /\ budget.others \in Nat /\ budget.faults \in Nat
  BY <1>1
<1> QED BY <1>2 DEF Within

\* No step leaves the bounds.
LEMMA StepWithin ==
    ASSUME Within, Next
    PROVE  Within'
<1> DEFINE kc == budget.clicks
           ko == budget.others
           kf == budget.faults
<1>1. /\ clicks \in Nat /\ others \in Nat /\ faults \in Nat
      /\ kc \in Nat /\ ko \in Nat /\ kf \in Nat
      /\ clicks <= kc /\ others <= ko /\ faults <= kf
  BY BudgetTyped DEF Within
<1>2. /\ budget' = budget
      /\ clicks' = clicks \/ (clicks < kc /\ clicks' = clicks + 1)
      /\ others' = others \/ (others < ko /\ others' = others + 1)
      /\ faults' = faults \/ (faults < kf /\ faults' = faults + 1)
  <2>1. CASE Debounced \/ Loaded \/ LoadFails \/ Navigate \/ SaveByKey \/ ChangedElsewhere \/ Reload
    BY <2>1 DEF Debounced, Loaded, LoadFails, Navigate, SaveByKey, ChangedElsewhere, Reload,
                handleSave, Click, bounds
  <2>2. CASE \E e \in Editor : Open(e) \/ Cancel(e) \/ SaveByButton(e)
    BY <2>2 DEF Open, Cancel, SaveByButton, handleSave, Click
  <2>3. CASE \E e \in Editor : Editing(e)
    BY <2>3 DEF Editing, Type, SetMetadata, SetFiles, EditAttachments, ToggleFocus, Reduce, Click
  <2>4. CASE \E i \in DOMAIN tasks : \/ uploadFiles(i) \/ ReadBack(i) \/ Update(i) \/ Create(i)
                                     \/ Clear(i) \/ Reset(i) \/ SaveFails(i)
    BY <2>4 DEF uploadFiles, ReadBack, Update, Create, Clear, Reset, SaveFails, bounds
  <2> QED BY <2>1, <2>2, <2>3, <2>4 DEF Next, Editing
<1>3. clicks' \in 0..kc /\ others' \in 0..ko /\ faults' \in 0..kf
  <2> HIDE DEF kc, ko, kf
  <2> QED BY <1>1, <1>2
<1> QED BY <1>2, <1>3 DEF Within

Stores ==
    /\ page \in {"home", "detail"}
    /\ memo \in Memo /\ writes \in Nat /\ crossed \in BOOLEAN
    /\ posts \in Seq(Post) /\ gone \subseteq Attachments

Drafts ==
    /\ draft \in [Editor -> Content]
    /\ pending \in [key : Editor \union {"none"}, content : Content]
    /\ overtaken \subseteq Editor

Saves ==
    /\ tasks \in Seq(Task) /\ Len(tasks) <= MaxSaves
    /\ uploads \in Nat /\ Room /\ Reading

\* Base, component by component.
LEMMA BaseParts ==
    Base <=> Within /\ Stores /\ Drafts /\ Saves /\ ed \in [Editor -> EditorState]
<1>1. posts \in Seq(Post) => \A i \in DOMAIN posts : posts[i].by \in New /\ posts[i].content \in Content
  <2>1. \A p \in Post : p.by \in New /\ p.content \in Content
    BY DEF Post
  <2> QED BY <2>1
<1> QED BY <1>1 DEF Base, TypeOK, Within, Stores, Drafts, Saves

\* Steps that only move saves on to their end.
LEMMA ReadingKept ==
    ASSUME Reading, TasksKept
    PROVE  Reading'
BY DEF Reading, TasksKept, KeptTask, Ended

\* A debounced save is of an editor and a text.
LEMMA AutoSaved ==
    ASSUME Drafts, NEW e \in Editor, NEW c \in Content, AutoSave(e, c)
    PROVE  /\ pending' \in [key : Editor \union {"none"}, content : Content]
           /\ overtaken' \subseteq Editor
           /\ pending'.key = e /\ pending'.content = c
BY DEF Drafts, AutoSave

\* The fields of every editor.
LEMMA StatesTyped ==
    ASSUME Drafts, ed \in [Editor -> EditorState]
    PROVE  /\ EdTyped
           /\ \A e \in Editor :
                  /\ ed[e].n \in Nat /\ ed[e].live \in BOOLEAN /\ ed[e].saving \in BOOLEAN
                  /\ ed[e].content \in Content /\ draft[e] \in Content /\ ed[e].seen \in Nat
                  /\ ed[e].attachments \in Seq(Attachments) /\ ed[e].loading \in BOOLEAN
BY DEF EdTyped, Drafts, EditorState

-----------------------------------------------------------------------------
(***************************************************************************)
(* What each action does                                                   *)
(***************************************************************************)

\* The stored memo as the update of save t leaves it.
Updates(i) ==
    /\ memo' \in Memo
    /\ memo'.attachments \in {memo.attachments, tasks[i].snap.attachments \o tasks[i].new}
    /\ tasks[i].prev = memo =>
           /\ memo'.attachments = tasks[i].snap.attachments \o tasks[i].new
           /\ \A f \in DOMAIN Shown(tasks[i]) : memo'[f] = Shown(tasks[i])[f]

\* The update writes what differs, and nothing else when nobody wrote since.
LEMMA UpdateUpdates ==
    ASSUME tasks \in Seq(Task), memo \in Memo, writes \in Nat, NEW i \in DOMAIN tasks, Update(i)
    PROVE  Updates(i)
<1> DEFINE t == tasks[i]
           h == Shown(t)
           M == buildUpdateMask(t)
           T == TimeOf(t)
<1>1. t \in Task
  OBVIOUS
<1>2. memo' = [f \in DOMAIN memo |-> IF f = "time" THEN T ELSE IF f \in M THEN h[f] ELSE memo[f]]
  BY DEF Update
<1>3. /\ t.snap \in EditorState /\ t.new \in Seq(Attachments) /\ t.prev \in Memo
  <2> HIDE DEF t
  <2> QED BY <1>1 DEF Task
<1>4. /\ t.snap.attachments \in Seq(Attachments) /\ t.snap.content \in Content
      /\ t.snap.visibility \in Visibility /\ t.snap.extra \in Extra /\ t.snap.time \in Nat
  BY <1>3 DEF EditorState
<1> DEFINE q == t.snap.attachments \o t.new
<1>5. q \in Seq(Attachments)
  BY <1>3, <1>4
<1>6. /\ DOMAIN h = {"content", "visibility", "attachments", "extra"}
      /\ h["content"] \in Content /\ h["visibility"] \in Visibility /\ h["extra"] \in Extra
      /\ h["attachments"] = q
  BY <1>4 DEF Shown
<1>7. T \in Nat
  BY <1>3, <1>4 DEF TimeOf, Memo
<1>8. DOMAIN memo = {"content", "visibility", "attachments", "extra", "time"}
  BY DEF Memo
<1>9. /\ memo["content"] \in Content /\ memo["visibility"] \in Visibility /\ memo["extra"] \in Extra
      /\ memo["attachments"] \in Seq(Attachments) /\ memo["attachments"] = memo.attachments
  BY DEF Memo
<1>10. \A f \in DOMAIN h : f \in M <=> h[f] # t.prev[f]
  BY DEF buildUpdateMask
<1> HIDE DEF h, M, T, q
<1>11. /\ memo'["content"] = IF "content" \in M THEN h["content"] ELSE memo["content"]
       /\ memo'["visibility"] = IF "visibility" \in M THEN h["visibility"] ELSE memo["visibility"]
       /\ memo'["attachments"] = IF "attachments" \in M THEN h["attachments"] ELSE memo["attachments"]
       /\ memo'["extra"] = IF "extra" \in M THEN h["extra"] ELSE memo["extra"]
       /\ memo'["time"] = T
       /\ memo' = [f \in {"content", "visibility", "attachments", "extra", "time"} |-> memo'[f]]
  BY <1>2, <1>8
<1>12. /\ memo'["content"] \in Content /\ memo'["visibility"] \in Visibility /\ memo'["extra"] \in Extra
       /\ memo'["attachments"] \in Seq(Attachments) /\ memo'["time"] \in Nat
  BY <1>5, <1>6, <1>7, <1>9, <1>11
<1>13. memo' \in Memo
  BY <1>11, <1>12 DEF Memo
<1>14. memo'.attachments \in {memo.attachments, q}
  BY <1>6, <1>9, <1>11
<1>15. ASSUME t.prev = memo
       PROVE  \A f \in DOMAIN h : memo'[f] = h[f]
  BY <1>6, <1>8, <1>10, <1>11, <1>15
<1>16. ASSUME t.prev = memo
       PROVE  memo'.attachments = q
  BY <1>6, <1>15, <1>16
<1> USE DEF q, h
<1> QED BY <1>13, <1>14, <1>15, <1>16 DEF Updates

\* A memo or comment created is one more post, of its save.
LEMMA CreateAppends ==
    ASSUME tasks \in Seq(Task), posts \in Seq(Post), NEW i \in DOMAIN tasks, Create(i)
    PROVE  LET p == [by |-> tasks[i].by, n |-> tasks[i].snap.n, content |-> tasks[i].snap.content,
                     attachments |-> tasks[i].snap.attachments \o tasks[i].new]
           IN  /\ p \in Post /\ posts' = Append(posts, p) /\ posts' \in Seq(Post)
               /\ Len(posts') = Len(posts) + 1 /\ DOMAIN posts' = DOMAIN posts \union {Len(posts) + 1}
               /\ Len(posts) + 1 \notin DOMAIN posts
               /\ posts'[Len(posts) + 1] = p
               /\ \A k \in DOMAIN posts : posts'[k] = posts[k]
<1> DEFINE t == tasks[i]
<1>1. t \in Task /\ t.by \in New
  BY DEF Create
<1>2. /\ t.snap \in EditorState /\ t.new \in Seq(Attachments)
  <2> HIDE DEF t
  <2> QED BY <1>1 DEF Task
<1>3. t.snap.attachments \in Seq(Attachments) /\ t.snap.content \in Content /\ t.snap.n \in Nat
  BY <1>2 DEF EditorState
<1>4. t.snap.attachments \o t.new \in Seq(Attachments)
  BY <1>2, <1>3
<1> DEFINE p == [by |-> t.by, n |-> t.snap.n, content |-> t.snap.content,
                 attachments |-> t.snap.attachments \o t.new]
<1>5. p \in Post
  BY <1>1, <1>3, <1>4 DEF Post
<1>6. posts' = Append(posts, p)
  BY DEF Create
<1>7. p = [by |-> tasks[i].by, n |-> tasks[i].snap.n, content |-> tasks[i].snap.content,
           attachments |-> tasks[i].snap.attachments \o tasks[i].new]
  OBVIOUS
<1> HIDE DEF p
<1>8. /\ posts' \in Seq(Post) /\ Len(posts') = Len(posts) + 1
      /\ DOMAIN posts' = DOMAIN posts \union {Len(posts) + 1}
      /\ Len(posts) + 1 \notin DOMAIN posts
      /\ posts'[Len(posts) + 1] = p
      /\ \A k \in DOMAIN posts : posts'[k] = posts[k]
  BY <1>5, <1>6
<1> QED BY <1>5, <1>6, <1>7, <1>8

\* What an editor becomes when the memo is loaded into it.
Loads ==
    LET s == ed'["edit"]
    IN  /\ ed' \in [Editor -> EditorState]
        /\ \A e \in Editor : e # "edit" => ed'[e] = ed[e]
        /\ s.attachments = memo.attachments /\ s.seen = writes /\ s.loading = FALSE
        /\ s.n = ed["edit"].n /\ s.live = ed["edit"].live /\ s.saving = ed["edit"].saving

\* The load is such a change.
LEMMA LoadedLoads ==
    ASSUME EdTyped, memo \in Memo, writes \in Nat, Loaded
    PROVE  Loads
<1> DEFINE t == ed["edit"]
           s == [t EXCEPT !.content = memo.content, !.visibility = memo.visibility,
                          !.attachments = memo.attachments, !.extra = memo.extra,
                          !.time = memo.time, !.seen = writes, !.loading = FALSE]
<1>1. t \in EditorState
  BY DEF EdTyped, Editor
<1>2. /\ memo.content \in Content /\ memo.visibility \in Visibility
      /\ memo.attachments \in Seq(Attachments) /\ memo.extra \in Extra /\ memo.time \in Nat
  BY DEF Memo
<1>3. /\ s \in EditorState /\ s.attachments = memo.attachments /\ s.seen = writes
      /\ s.loading = FALSE /\ s.n = t.n /\ s.live = t.live /\ s.saving = t.saving
  <2> HIDE DEF t
  <2> QED BY <1>1, <1>2 DEF EditorState
<1>4. ed' = [ed EXCEPT !["edit"] = s]
  BY DEF Loaded
<1> HIDE DEF s
<1> QED BY <1>3, <1>4 DEF Loads, EdTyped, Editor

\* One flag of one editor.
Flagged(e) ==
    /\ ed' \in [Editor -> EditorState]
    /\ \A x \in Editor : x # e => ed'[x] = ed[x]
    /\ ed'[e].attachments = ed[e].attachments /\ ed'[e].seen = ed[e].seen
    /\ ed'[e].n = ed[e].n /\ ed'[e].live = ed[e].live /\ ed'[e].content = ed[e].content

\* A save or a load that fails sets one flag back.
LEMMA FlagsTyped ==
    ASSUME EdTyped, NEW e \in Editor,
           ed' = [ed EXCEPT ![e].saving = FALSE] \/ ed' = [ed EXCEPT ![e].loading = FALSE]
    PROVE  Flagged(e)
<1> DEFINE t == ed[e]
<1>1. t \in EditorState
  BY DEF EdTyped
<1>2. LET s == [t EXCEPT !.saving = FALSE]
      IN  s \in EditorState /\ s.attachments = t.attachments /\ s.seen = t.seen /\ s.n = t.n
          /\ s.live = t.live /\ s.content = t.content
  <2> HIDE DEF t
  <2> QED BY <1>1 DEF EditorState
<1>3. LET s == [t EXCEPT !.loading = FALSE]
      IN  s \in EditorState /\ s.attachments = t.attachments /\ s.seen = t.seen /\ s.n = t.n
          /\ s.live = t.live /\ s.content = t.content
  <2> HIDE DEF t
  <2> QED BY <1>1 DEF EditorState
<1>4. PICK s \in EditorState :
          /\ ed' = [ed EXCEPT ![e] = s]
          /\ s.attachments = t.attachments /\ s.seen = t.seen /\ s.n = t.n
          /\ s.live = t.live /\ s.content = t.content
  <2>1. ed' = [ed EXCEPT ![e] = [t EXCEPT !.saving = FALSE]]
        \/ ed' = [ed EXCEPT ![e] = [t EXCEPT !.loading = FALSE]]
    OBVIOUS
  <2> HIDE DEF t
  <2> QED BY <1>2, <1>3, <2>1
<1> QED BY <1>4 DEF Flagged, EdTyped

\* Every editor is unmounted, and the home page mounts its own.
NewPage ==
    /\ ed' \in [Editor -> EditorState]
    /\ \A e \in Editor : IF e = "home" /\ page' = "home"
                         THEN Fresh(ed'[e], draft[e], TRUE, ed[e].n + 1)
                         ELSE Fresh(ed'[e], "", FALSE, ed[e].n)
    /\ TasksKept /\ CopiesKept
    /\ \A i \in DOMAIN tasks : tasks'[i].live = FALSE /\ tasks'[i].pc \in {tasks[i].pc, "done"}

\* What each editor is after the page changed.
LEMMA Mounted ==
    ASSUME EdTyped,
           ed' = [e \in Editor |-> IF e = "home" /\ page' = "home" THEN Composed(e) ELSE Closed(e)[e]]
    PROVE  /\ ed' \in [Editor -> EditorState]
           /\ \A e \in Editor : IF e = "home" /\ page' = "home"
                                THEN Fresh(ed'[e], draft[e], TRUE, ed[e].n + 1)
                                ELSE Fresh(ed'[e], "", FALSE, ed[e].n)
<1>1. \A e \in Editor : Fresh(Composed(e), draft[e], TRUE, ed[e].n + 1)
  BY FreshStates
<1>2. \A e \in Editor : Fresh(Closed(e)[e], "", FALSE, ed[e].n)
  BY ClosedEditor
<1>3. \A e \in Editor : IF e = "home" /\ page' = "home"
                        THEN Fresh(ed'[e], draft[e], TRUE, ed[e].n + 1)
                        ELSE Fresh(ed'[e], "", FALSE, ed[e].n)
  BY <1>1, <1>2
<1>4. \A e \in Editor : ed'[e] \in EditorState
  BY <1>3 DEF Fresh
<1> QED BY <1>3, <1>4

\* Going to the other page leaves every save without its editor.
LEMMA NavigateOpens ==
    ASSUME EdTyped, tasks \in Seq(Task), Navigate
    PROVE  NewPage /\ \A i \in DOMAIN tasks : tasks'[i].pc = tasks[i].pc
<1>1. ed' = [e \in Editor |-> IF e = "home" /\ page' = "home" THEN Composed(e) ELSE Closed(e)[e]]
      /\ tasks' = Orphaned(Editor)
  BY DEF Navigate
<1>2. /\ TasksKept /\ CopiesKept
      /\ \A i \in DOMAIN tasks :
             /\ tasks'[i].pc = tasks[i].pc
             /\ tasks'[i].live = (tasks[i].live /\ tasks[i].by \notin Editor)
  BY <1>1, OrphanedKeeps
<1>3. \A i \in DOMAIN tasks : tasks[i].by \in Editor
  <2>1. \A t \in Task : t.by \in Editor
    BY DEF Task
  <2> QED BY <2>1
<1>4. \A i \in DOMAIN tasks : tasks'[i].live = FALSE /\ tasks'[i].pc \in {tasks[i].pc, "done"}
  BY <1>2, <1>3
<1>5. /\ ed' \in [Editor -> EditorState]
      /\ \A e \in Editor : IF e = "home" /\ page' = "home"
                           THEN Fresh(ed'[e], draft[e], TRUE, ed[e].n + 1)
                           ELSE Fresh(ed'[e], "", FALSE, ed[e].n)
  BY <1>1, Mounted
<1> QED BY <1>2, <1>4, <1>5 DEF NewPage

\* Loading the page again ends every save.
LEMMA ReloadOpens ==
    ASSUME EdTyped, tasks \in Seq(Task), Reload
    PROVE  NewPage /\ \A i \in DOMAIN tasks : tasks'[i].pc = "done"
<1> DEFINE Stopped(t) == [t EXCEPT !.pc = "done", !.live = FALSE]
<1>0. ed' = [e \in Editor |-> IF e = "home" /\ page' = "home" THEN Composed(e) ELSE Closed(e)[e]]
  BY DEF Reload
<1>1. tasks' = [i \in DOMAIN tasks |-> Stopped(tasks[i])]
  BY DEF Reload
<1>2. ASSUME NEW t \in Task
      PROVE  /\ Stopped(t) \in Task /\ KeptTask(t, Stopped(t))
             /\ Stopped(t).pc = "done" /\ Stopped(t).live = FALSE
             /\ Stopped(t).prev = t.prev /\ Stopped(t).writes = t.writes
  BY DEF Task, Steps, KeptTask, Ended
<1> HIDE DEF Stopped
<1>3. \A i \in DOMAIN tasks : tasks[i] \in Task
  OBVIOUS
<1>4. \A i \in DOMAIN tasks :
          /\ tasks'[i] \in Task /\ KeptTask(tasks[i], tasks'[i])
          /\ tasks'[i].prev = tasks[i].prev /\ tasks'[i].writes = tasks[i].writes
          /\ tasks'[i].pc = "done" /\ tasks'[i].live = FALSE
  BY <1>1, <1>2, <1>3
<1>5. DOMAIN tasks' = 1..Len(tasks) /\ Len(tasks) \in Nat /\ DOMAIN tasks = 1..Len(tasks)
  BY <1>1
<1>6. tasks' \in Seq(Task) /\ Len(tasks') = Len(tasks)
  <2>1. tasks' = [i \in 1..Len(tasks) |-> tasks'[i]]
    BY <1>1, <1>5
  <2>2. \A i \in 1..Len(tasks) : tasks'[i] \in Task
    BY <1>4, <1>5
  <2> QED BY <1>5, <2>1, <2>2
<1>7. TasksKept /\ CopiesKept
  BY <1>4, <1>5, <1>6 DEF TasksKept, CopiesKept
<1>8. /\ ed' \in [Editor -> EditorState]
      /\ \A e \in Editor : IF e = "home" /\ page' = "home"
                           THEN Fresh(ed'[e], draft[e], TRUE, ed[e].n + 1)
                           ELSE Fresh(ed'[e], "", FALSE, ed[e].n)
  BY <1>0, Mounted
<1> QED BY <1>4, <1>7, <1>8 DEF NewPage

\* One editor is shown.
Opens(e) ==
    /\ ed' \in [Editor -> EditorState]
    /\ \A x \in Editor : x # e => ed'[x] = ed[x]
    /\ Fresh(ed'[e], ed'[e].content, TRUE, ed[e].n + 1)
    /\ ed'[e].content \in Content
    /\ e = "edit" => ed'[e].loading = TRUE
    /\ e # "edit" => ed'[e].content = draft[e]

\* Opening an editor is such a step.
LEMMA OpenOpens ==
    ASSUME EdTyped, NEW e \in Editor, Open(e)
    PROVE  Opens(e)
<1>1. ed' = [ed EXCEPT ![e] = IF e = "edit" THEN Loading ELSE Composed(e)]
  BY DEF Open
<1>2. CASE e = "edit"
  <2>1. Fresh(Loading, "", TRUE, ed[e].n + 1) /\ Loading.loading = TRUE
    BY <1>2, FreshStates
  <2>2. ed' = [ed EXCEPT ![e] = Loading]
    BY <1>1, <1>2
  <2> HIDE DEF Loading
  <2> QED BY <1>2, <2>1, <2>2 DEF Opens, Fresh, EdTyped, Content
<1>3. CASE e # "edit"
  <2>1. Fresh(Composed(e), draft[e], TRUE, ed[e].n + 1) /\ draft[e] \in Content
    BY FreshStates DEF EdTyped
  <2>2. ed' = [ed EXCEPT ![e] = Composed(e)]
    BY <1>1, <1>3
  <2> QED BY <1>3, <2>1, <2>2 DEF Opens, Fresh, EdTyped
<1> QED BY <1>2, <1>3

\* One editor is closed.
Closes(e) ==
    /\ ed' \in [Editor -> EditorState]
    /\ \A x \in Editor : x # e => ed'[x] = ed[x]
    /\ Fresh(ed'[e], "", FALSE, ed[e].n)

\* So is every step that closes one.
LEMMA ClosedCloses ==
    ASSUME EdTyped, NEW e \in Editor, ed' = Closed(e)
    PROVE  Closes(e)
BY ClosedEditor DEF Closes

\* The home page's editor starts anew.
Empties ==
    /\ ed' \in [Editor -> EditorState]
    /\ \A x \in Editor : x # "home" => ed'[x] = ed[x]
    /\ Fresh(ed'["home"], "", TRUE, ed["home"].n + 1)

\* The end of save i.
Resets(i) ==
    /\ TasksKept /\ CopiesKept
    /\ \A j \in DOMAIN tasks : j # i => tasks'[j] = tasks[j]
    /\ tasks[i].pc = "cleared" /\ tasks'[i].pc = "done" /\ tasks'[i].live = tasks[i].live
    /\ \/ ~tasks[i].live /\ UNCHANGED <<ed, pending, overtaken>>
       \/ /\ tasks[i].live /\ tasks[i].by = "home" /\ Empties
          /\ \/ AutoSave("home", "")
             \/ ed["home"].content = "" /\ UNCHANGED <<pending, overtaken>>
       \/ /\ tasks[i].live /\ tasks[i].by # "home" /\ Closes(tasks[i].by)
          /\ UNCHANGED <<pending, overtaken>>

\* The reset after a save is such a step.
LEMMA ResetResets ==
    ASSUME EdTyped, tasks \in Seq(Task), NEW i \in DOMAIN tasks, Reset(i)
    PROVE  Resets(i)
<1> DEFINE e == tasks[i].by
<1>1. e \in Editor /\ tasks[i].pc = "cleared" /\ Moved(i, "done") /\ tasks[i].live \in BOOLEAN
  <2>1. \A t \in Task : t.by \in Editor /\ t.live \in BOOLEAN
    BY DEF Task
  <2>2. tasks[i] \in Task
    OBVIOUS
  <2> QED BY <2>1, <2>2 DEF Reset
<1>2. /\ TasksKept /\ CopiesKept
      /\ \A j \in DOMAIN tasks : j # i => tasks'[j] = tasks[j]
      /\ tasks'[i].pc = "done" /\ tasks'[i].live = tasks[i].live
  BY <1>1, MovedKeeps DEF Ended
<1>3. CASE ~tasks[i].live
  BY <1>1, <1>2, <1>3 DEF Resets, Reset
<1>4. CASE tasks[i].live /\ e = "home"
  <2>1. /\ ed' = [ed EXCEPT !["home"] = [initialState EXCEPT !.live = TRUE, !.n = ed["home"].n + 1]]
        /\ \/ AutoSave("home", "")
           \/ ed["home"].content = "" /\ UNCHANGED <<pending, overtaken>>
    BY <1>4 DEF Reset
  <2>2. Fresh([initialState EXCEPT !.live = TRUE, !.n = ed["home"].n + 1], "", TRUE, ed["home"].n + 1)
        /\ "home" \in Editor
    BY FreshStates DEF Editor
  <2>3. Empties
    BY <2>1, <2>2 DEF Empties, Fresh, EdTyped
  <2> QED BY <1>1, <1>2, <1>4, <2>1, <2>3 DEF Resets
<1>5. CASE tasks[i].live /\ e # "home"
  <2>1. ed' = Closed(e) /\ UNCHANGED <<pending, overtaken>>
    BY <1>5 DEF Reset
  <2>2. Closes(e)
    BY <1>1, <2>1, ClosedCloses
  <2> QED BY <1>1, <1>2, <1>5, <2>1, <2>2 DEF Resets
<1> QED BY <1>1, <1>3, <1>4, <1>5

-----------------------------------------------------------------------------

\* The saves stay typed when none starts.
LEMMA SavesKept ==
    ASSUME Saves, TasksKept, uploads' = uploads
    PROVE  Saves'
<1>1. Room'
  BY RoomKept DEF Saves
<1>2. Reading'
  BY ReadingKept DEF Saves
<1> QED BY <1>1, <1>2 DEF Saves, TasksKept

\* And when some start, each has room for its number.
LEMMA StartsSaves ==
    ASSUME Saves, NEW es \in SUBSET Editor, Starts(es), uploads' = uploads, EdTyped,
           memo \in Memo, writes \in Nat
    PROVE  Saves'
<1> DEFINE more == DOMAIN tasks' \ DOMAIN tasks
           n == Len(tasks)
           m == Len(tasks')
           k == Cardinality(Waiting)
<1>1. n \in Nat /\ m \in Nat /\ DOMAIN tasks = 1..n /\ DOMAIN tasks' = 1..m /\ n <= m
  <2>1. n \in Nat /\ m \in Nat /\ DOMAIN tasks = 1..n /\ DOMAIN tasks' = 1..m
    BY DEF Saves, Starts
  <2>2. 1..n \subseteq 1..m
    BY <2>1 DEF Starts
  <2> HIDE DEF n, m
  <2> QED BY <2>1, <2>2
<1>2. more = (n + 1)..m
  <2> HIDE DEF n, m
  <2>1. more = (1..m) \ (1..n)
    BY <1>1
  <2> QED BY <1>1, <2>1
<1>3. IsFiniteSet(more) /\ Cardinality(more) = m - n
  <2> HIDE DEF n, m, more
  <2>1. n + 1 \in Int /\ m \in Int
    BY <1>1
  <2>2. IsFiniteSet(more) /\ Cardinality(more) = IF n + 1 > m THEN 0 ELSE m - (n + 1) + 1
    BY <1>2, <2>1, FS_Interval
  <2> QED BY <1>1, <2>2
<1>4. IsFiniteSet(Waiting)
  <2>1. IsFiniteSet(1..n) /\ Waiting \subseteq 1..n
    BY <1>1, FS_Interval DEF Waiting
  <2> QED BY <2>1, FS_Subset
<1>5. Waiting \cap more = {}
  BY DEF Waiting
<1>6. Cardinality(Waiting') = k + (m - n) - 0
  <2>1. Waiting' = Waiting \union more
    BY DEF Starts
  <2>2. Cardinality(Waiting \union more)
          = Cardinality(Waiting) + Cardinality(more) - Cardinality(Waiting \cap more)
    BY <1>3, <1>4, FS_Union
  <2>3. Cardinality(Waiting \cap more) = 0
    BY <1>5, FS_EmptySet
  <2> QED BY <1>3, <2>1, <2>2, <2>3
<1>7. k \in Nat
  BY <1>4, FS_CardinalityType
<1>8. uploads \in Nat /\ uploads + k <= 1 + n
  BY DEF Saves, Room
<1>9. uploads' + (k + (m - n) - 0) <= 1 + m
  <2> HIDE DEF k, m, n
  <2> QED BY <1>1, <1>7, <1>8
<1>10. Room'
  BY <1>6, <1>9 DEF Room
<1>11. Reading'
  <2>1. \A e \in Editor : Begun(e).pc = "upload"
    BY BegunTyped
  <2>2. \A i \in DOMAIN tasks' \ DOMAIN tasks : tasks'[i].pc = "upload"
    BY <2>1 DEF Starts
  <2> QED BY <2>2 DEF Reading, Starts, Saves
<1> QED BY <1>10, <1>11 DEF Saves, Starts

\* Another client leaves the attachments alone.
LEMMA ElsewhereChanges ==
    ASSUME memo \in Memo, writes \in Nat, ChangedElsewhere
    PROVE  memo' \in Memo /\ memo'.attachments = memo.attachments
           /\ writes' = writes + 1 /\ writes' \in Nat
<1>0. writes' = writes + 1 /\ writes + 1 \in Nat
  <2>1. writes' = writes + 1
    BY Zenon DEF ChangedElsewhere
  <2>2. writes + 1 \in Nat
    OBVIOUS
  <2> QED BY <2>1, <2>2
<1>1. PICK c \in Content \ {""}, v \in Visibility :
          memo' = [memo EXCEPT !.content = c, !.visibility = v, !.time = writes + 1]
  BY DEF ChangedElsewhere
<1>2. ASSUME NEW m \in Memo, NEW n \in Nat
      PROVE  LET u == [m EXCEPT !.content = c, !.visibility = v, !.time = n]
             IN  u \in Memo /\ u.attachments = m.attachments
  BY DEF Memo
<1>4. memo' \in Memo /\ memo'.attachments = memo.attachments
  BY <1>1, <1>2, <1>0
<1> QED BY <1>0, <1>4

\* Base is kept by every action.
LEMMA StepBase ==
    ASSUME Base, Next
    PROVE  Base'
<1> USE BoundsAssumption
<1>1. /\ Within /\ Stores /\ Drafts /\ Saves /\ ed \in [Editor -> EditorState]
      /\ EdTyped /\ tasks \in Seq(Task) /\ memo \in Memo /\ writes \in Nat /\ posts \in Seq(Post)
  BY BaseParts, StatesTyped DEF Stores, Saves
<1>2. Within'
  BY <1>1, StepWithin
<1>3. SUFFICES Stores' /\ Drafts' /\ Saves' /\ ed' \in [Editor -> EditorState]
  <2>1. (Within /\ Stores /\ Drafts /\ Saves /\ ed \in [Editor -> EditorState])'  => Base'
    BY BaseParts, PTL
  <2> QED BY <1>2, <2>1
<1>4. CASE Debounced
  <2>1. Stores' /\ Saves' /\ ed' = ed
    <3>1. tasks' = tasks /\ uploads' = uploads
      BY <1>4 DEF Debounced, stored
    <3> QED BY <1>1, <1>4, <3>1, SameTasks, SavesKept DEF Debounced, Stores, stored
  <2>2. Drafts'
    <3>1. pending.key \in Editor /\ pending.content \in Content /\ None.key = "none"
      BY <1>1, <1>4 DEF Drafts, Debounced, None
    <3>2. None \in [key : Editor \union {"none"}, content : Content]
      BY DEF None, Content
    <3> QED BY <1>1, <1>4, <3>1, <3>2 DEF Drafts, Debounced
  <2> QED BY <1>1, <2>1, <2>2
<1>5. CASE Loaded
  <2>1. ed' \in [Editor -> EditorState]
    BY <1>1, <1>5, LoadedLoads DEF Loads
  <2>2. tasks' = tasks /\ uploads' = uploads
    BY <1>5 DEF Loaded, stored
  <2>3. Stores' /\ Saves'
    BY <1>1, <1>5, <2>2, SameTasks, SavesKept DEF Loaded, Stores, stored
  <2>4. Drafts'
    <3>1. CASE AutoSave("edit", memo.content)
      <4>1. memo.content \in Content /\ "edit" \in Editor
        BY <1>1 DEF Memo, Editor
      <4> QED BY <1>1, <1>5, <3>1, <4>1, AutoSaved DEF Drafts, Loaded
    <3>2. CASE UNCHANGED <<pending, overtaken>>
      BY <1>1, <1>5, <3>2 DEF Drafts, Loaded
    <3> QED BY <1>5, <3>1, <3>2 DEF Loaded
  <2> QED BY <2>1, <2>3, <2>4
<1>6. CASE LoadFails
  <2>1. ed' \in [Editor -> EditorState]
    <3>1. "edit" \in Editor /\ ed' = [ed EXCEPT !["edit"].loading = FALSE]
      BY <1>6 DEF LoadFails, Editor
    <3> QED BY <1>1, <3>1, FlagsTyped DEF Flagged
  <2>2. tasks' = tasks /\ uploads' = uploads
    BY <1>6 DEF LoadFails, stored
  <2> QED BY <1>1, <1>6, <2>1, <2>2, SameTasks, SavesKept DEF LoadFails, Stores, Drafts, stored, drafts
<1>7. CASE Navigate
  <2>1. NewPage
    BY <1>1, <1>7, NavigateOpens
  <2>2. Saves'
    BY <1>1, <1>7, <2>1, SavesKept DEF NewPage, Navigate, stored
  <2>3. Drafts'
    <3>1. CASE AutoSave("home", draft["home"])
      <4>1. draft["home"] \in Content /\ "home" \in Editor
        BY <1>1 DEF Drafts, Editor
      <4> QED BY <1>1, <1>7, <3>1, <4>1, AutoSaved DEF Drafts, Navigate
    <3>2. CASE UNCHANGED <<pending, overtaken>>
      BY <1>1, <1>7, <3>2 DEF Drafts, Navigate
    <3> QED BY <1>7, <3>1, <3>2 DEF Navigate
  <2>4. Stores'
    BY <1>1, <1>7 DEF Navigate, Stores, stored
  <2> QED BY <2>1, <2>2, <2>3, <2>4 DEF NewPage
<1>8. ASSUME NEW es \in SUBSET Editor, handleSave(es)
      PROVE  Stores' /\ Drafts' /\ Saves' /\ ed' \in [Editor -> EditorState]
  <2>1. Starts(es)
    BY <1>1, <1>8, handleSaveStarts
  <2>2. Saves'
    BY <1>1, <1>8, <2>1, StartsSaves DEF handleSave, stored
  <2> QED BY <1>1, <1>8, <2>1, <2>2 DEF Starts, handleSave, Stores, Drafts, stored, drafts
<1>9. CASE SaveByKey
  BY <1>8, <1>9 DEF SaveByKey
<1>10. CASE ChangedElsewhere
  <2>1. memo' \in Memo /\ writes' \in Nat
    BY <1>1, <1>10, ElsewhereChanges
  <2>2. tasks' = tasks /\ uploads' = uploads /\ ed' = ed
    BY <1>10 DEF ChangedElsewhere
  <2>3. Stores'
    <3>1. UNCHANGED <<page, crossed, posts, gone>>
      BY <1>10 DEF ChangedElsewhere
    <3> QED BY <1>1, <2>1, <3>1 DEF Stores
  <2>4. Drafts'
    <3>1. UNCHANGED <<draft, pending, overtaken>>
      BY <1>10 DEF ChangedElsewhere, drafts
    <3> QED BY <1>1, <3>1 DEF Drafts
  <2> QED BY <1>1, <2>2, <2>3, <2>4, SameTasks, SavesKept
<1>11. CASE Reload
  <2>1. NewPage
    BY <1>1, <1>11, ReloadOpens
  <2>2. Saves'
    BY <1>1, <1>11, <2>1, SavesKept DEF NewPage, Reload, stored
  <2>3. Drafts'
    <3>1. draft["home"] \in Content /\ "home" \in Editor
      BY <1>1 DEF Drafts, Editor
    <3>2. None \in [key : Editor \union {"none"}, content : Content]
      BY DEF None, Content
    <3> QED BY <1>1, <1>11, <3>1, <3>2 DEF Drafts, Reload
  <2> QED BY <1>1, <1>11, <2>1, <2>2, <2>3 DEF NewPage, Reload, Stores, stored
<1>12. ASSUME NEW e \in Editor, Open(e)
       PROVE  Stores' /\ Drafts' /\ Saves' /\ ed' \in [Editor -> EditorState]
  <2>1. Opens(e)
    BY <1>1, <1>12, OpenOpens
  <2>2. Drafts'
    BY <1>1, <1>12, <2>1, AutoSaved DEF Open, Opens, Drafts
  <2>3. tasks' = tasks /\ uploads' = uploads
    BY <1>12 DEF Open, stored
  <2> QED BY <1>1, <1>12, <2>1, <2>2, <2>3, SameTasks, SavesKept DEF Open, Opens, Stores, stored
<1>13. ASSUME NEW e \in Editor, Cancel(e)
       PROVE  Stores' /\ Drafts' /\ Saves' /\ ed' \in [Editor -> EditorState]
  <2>1. Closes(e) /\ TasksKept
    BY <1>1, <1>13, ClosedCloses, OrphanedKeeps DEF Cancel
  <2> QED BY <1>1, <1>13, <2>1, SavesKept DEF Cancel, Closes, Stores, Drafts, stored, drafts
<1>14. ASSUME NEW e \in Editor, Editing(e)
       PROVE  Stores' /\ Drafts' /\ Saves' /\ ed' \in [Editor -> EditorState]
  <2>1. PICK s \in EditorState : Edits(e, s)
    BY <1>1, <1>14, EditingEdits
  <2>2. ed' \in [Editor -> EditorState] /\ tasks' = tasks /\ uploads' = uploads
    BY <1>1, <2>1 DEF Edits, Reduce
  <2>3. Drafts'
    <3>1. s.content \in Content /\ draft' = draft
      BY <2>1 DEF EditorState, Edits, Reduce
    <3> QED BY <1>1, <2>1, <3>1, AutoSaved DEF Edits, Drafts
  <2>4. gone' \subseteq Attachments
    <3>1. ed[e].attachments \in Seq(Attachments)
      BY <1>1, StatesTyped
    <3>2. ToSet(ed[e].attachments) \subseteq Attachments
      BY <3>1 DEF ToSet
    <3> QED BY <1>1, <2>1, <3>2 DEF Edits, Reduce, Stores
  <2> QED BY <1>1, <2>1, <2>2, <2>3, <2>4, SameTasks, SavesKept DEF Edits, Reduce, Stores
<1>15. ASSUME NEW e \in Editor, SaveByButton(e)
       PROVE  Stores' /\ Drafts' /\ Saves' /\ ed' \in [Editor -> EditorState]
  BY <1>8, <1>15 DEF SaveByButton
<1>16. ASSUME NEW i \in DOMAIN tasks, uploadFiles(i)
       PROVE  Stores' /\ Drafts' /\ Saves' /\ ed' \in [Editor -> EditorState]
  <2>1. Uploads(i) /\ Room'
    BY <1>1, <1>16, uploadFilesUploads DEF Saves
  <2>2. Reading'
    BY <1>1, <2>1 DEF Uploads, Reading, Saves
  <2>3. Saves'
    BY <1>1, <2>1, <2>2 DEF Uploads, Saves
  <2> QED BY <1>1, <1>16, <2>3 DEF uploadFiles, Stores, Drafts, drafts
<1>17. ASSUME NEW i \in DOMAIN tasks, ReadBack(i)
       PROVE  Stores' /\ Drafts' /\ Saves' /\ ed' \in [Editor -> EditorState]
  <2>1. Reads(i)
    BY <1>1, <1>17, ReadBackReads
  <2>2. ed' \in [Editor -> EditorState]
    <3>1. "edit" \in Editor
      BY DEF Editor
    <3> QED BY <1>1, <2>1, <3>1, ClosedEditor DEF Reads
  <2>3. Waiting' = Waiting
    BY <2>1 DEF Reads, Waiting
  <2>4. Saves'
    BY <1>1, <1>17, <2>1, <2>3 DEF Saves, Room, Reading, Reads, ReadBack, stored
  <2> QED BY <1>1, <1>17, <2>2, <2>4 DEF ReadBack, Stores, Drafts, stored, drafts
<1>18. ASSUME NEW i \in DOMAIN tasks, Update(i)
       PROVE  Stores' /\ Drafts' /\ Saves' /\ ed' \in [Editor -> EditorState]
  <2>1. Updates(i)
    BY <1>1, <1>18, UpdateUpdates
  <2>2. TasksKept
    BY <1>1, <1>18, MovedKeeps DEF Update, Ended
  <2>3. crossed' \in BOOLEAN
    BY <1>18 DEF Update
  <2> QED BY <1>1, <1>18, <2>1, <2>2, <2>3, SavesKept DEF Update, Updates, Stores, Drafts, drafts
<1>19. ASSUME NEW i \in DOMAIN tasks, Create(i)
       PROVE  Stores' /\ Drafts' /\ Saves' /\ ed' \in [Editor -> EditorState]
  <2>1. posts' \in Seq(Post)
    BY <1>1, <1>19, CreateAppends
  <2>2. TasksKept
    BY <1>1, <1>19, MovedKeeps DEF Create, Ended
  <2> QED BY <1>1, <1>19, <2>1, <2>2, SavesKept DEF Create, Stores, Drafts, drafts
<1>20. ASSUME NEW i \in DOMAIN tasks, Clear(i)
       PROVE  Stores' /\ Drafts' /\ Saves' /\ ed' \in [Editor -> EditorState]
  <2>1. TasksKept
    BY <1>1, <1>20, MovedKeeps DEF Clear, Ended
  <2>2. tasks[i].by \in Editor
    <3>1. \A t \in Task : t.by \in Editor
      BY DEF Task
    <3>2. tasks[i] \in Task
      BY <1>1
    <3> QED BY <3>1, <3>2
  <2>3. Drafts'
    <3>1. "" \in Content
      BY DEF Content
    <3> QED BY <1>1, <1>20, <2>2, <3>1 DEF Clear, Drafts
  <2> QED BY <1>1, <1>20, <2>1, <2>3, SavesKept DEF Clear, Stores, stored
<1>21. ASSUME NEW i \in DOMAIN tasks, Reset(i)
       PROVE  Stores' /\ Drafts' /\ Saves' /\ ed' \in [Editor -> EditorState]
  <2>1. Resets(i)
    BY <1>1, <1>21, ResetResets
  <2>2. ed' \in [Editor -> EditorState]
    BY <1>1, <2>1 DEF Resets, Empties, Closes
  <2>3. Drafts'
    <3>1. "home" \in Editor /\ "" \in Content /\ draft' = draft
      BY <1>21 DEF Editor, Content, Reset
    <3> QED BY <1>1, <2>1, <3>1, AutoSaved DEF Resets, Drafts
  <2> QED BY <1>1, <1>21, <2>1, <2>2, <2>3, SavesKept DEF Reset, Resets, Stores, stored
<1>22. ASSUME NEW i \in DOMAIN tasks, SaveFails(i)
       PROVE  Stores' /\ Drafts' /\ Saves' /\ ed' \in [Editor -> EditorState]
  <2>1. TasksKept
    BY <1>1, <1>22, MovedKeeps DEF SaveFails, Ended
  <2>2. tasks[i].by \in Editor
    <3>1. \A t \in Task : t.by \in Editor
      BY DEF Task
    <3>2. tasks[i] \in Task
      BY <1>1
    <3> QED BY <3>1, <3>2
  <2>3. ed' = ed \/ ed' = [ed EXCEPT ![tasks[i].by].saving = FALSE]
    BY <1>22 DEF SaveFails
  <2>4. ed' \in [Editor -> EditorState]
    BY <1>1, <2>2, <2>3, FlagsTyped DEF Flagged
  <2> QED BY <1>1, <1>22, <2>1, <2>4, SavesKept DEF SaveFails, Stores, Drafts, stored, drafts
<1> QED BY <1>4, <1>5, <1>6, <1>7, <1>9, <1>10, <1>11, <1>12, <1>13, <1>14, <1>15, <1>16, <1>17,
           <1>18, <1>19, <1>20, <1>21, <1>22 DEF Next, Editing

\* Base holds at the start.
LEMMA InitBase == Init => Base
<1> SUFFICES ASSUME Init PROVE Base
  OBVIOUS
<1> USE BoundsAssumption
<1>1. Within
  <2>1. budget \in [clicks : Nat, others : Nat, faults : Nat] /\ budget \in Budgets
    BY DEF Init
  <2>2. clicks = 0 /\ others = 0 /\ faults = 0
    BY Zenon DEF Init
  <2>3. budget.clicks \in Nat /\ budget.others \in Nat /\ budget.faults \in Nat
    BY <2>1
  <2> QED BY <2>1, <2>2, <2>3 DEF Within
<1>2. Stores
  <2>1. memo = [content |-> "a", visibility |-> "public", attachments |-> <<1>>, extra |-> "plain",
                time |-> 0]
    BY DEF Init
  <2>2. 1 \in Attachments /\ <<1>> \in Seq(Attachments)
    BY DEF Attachments
  <2>3. "a" \in Content /\ "public" \in Visibility /\ "plain" \in Extra
    BY DEF Content, Visibility, Extra
  <2>4. memo \in Memo
    BY <2>1, <2>2, <2>3 DEF Memo
  <2>5. page = "home" /\ writes = 0 /\ crossed = FALSE /\ posts = <<>> /\ gone = {}
    BY Zenon DEF Init
  <2>6. page \in {"home", "detail"} /\ writes \in Nat /\ crossed \in BOOLEAN /\ gone \subseteq Attachments
    BY <2>5
  <2>7. posts \in Seq(Post)
    BY <2>5
  <2> QED BY <2>4, <2>6, <2>7 DEF Stores
<1>3. Drafts
  BY DEF Drafts, Init, Editor, Content
<1>4. Saves
  <2>1. tasks = <<>> /\ uploads = 1
    BY DEF Init
  <2>2. Waiting = {} /\ Reading /\ Len(tasks) = 0
    BY <2>1 DEF Waiting, Reading
  <2>3. Room
    BY <2>1, <2>2, FS_EmptySet DEF Room
  <2> QED BY <2>1, <2>2, <2>3 DEF Saves
<1>5. ed \in [Editor -> EditorState]
  <2> DEFINE s == initialState
             E == [e \in Editor |-> s]
             h == [s EXCEPT !.live = TRUE, !.n = 1, !.visibility = "public"]
  <2>1. s \in EditorState /\ "public" \in Visibility /\ "home" \in Editor
    BY InitialTyped DEF Visibility, Editor
  <2>2. h \in EditorState
    <3> HIDE DEF s
    <3> QED BY <2>1 DEF EditorState
  <2>3. ed = [E EXCEPT !["home"] = h]
    <3>1. ed = [E EXCEPT !["home"].live = TRUE, !["home"].n = 1, !["home"].visibility = "public"]
      BY DEF Init
    <3>2. E \in [Editor -> EditorState] /\ E["home"] = s
      BY <2>1
    <3> HIDE DEF s, E
    <3> QED BY <2>1, <3>1, <3>2
  <2> HIDE DEF h, s
  <2> QED BY <2>1, <2>2, <2>3
<1> QED BY <1>1, <1>2, <1>3, <1>4, <1>5, BaseParts

\* At the start nothing was saved.
LEMMA InitEmpty ==
    Init => /\ DOMAIN tasks = {} /\ DOMAIN posts = {} /\ overtaken = {} /\ uploads = 1 /\ gone = {}
            /\ writes = 0
<1>1. Init => /\ tasks = <<>> /\ posts = <<>> /\ overtaken = {} /\ uploads = 1 /\ gone = {}
              /\ writes = 0
  BY Zenon DEF Init
<1> QED BY <1>1

\* Whatever is done with the editors, every value stays within its type.
THEOREM EditorTyped == Spec => []TypeOK
<1>1. Base /\ [Next]_vars => Base'
  <2> SUFFICES ASSUME Base, [Next]_vars PROVE Base'
    OBVIOUS
  <2>1. CASE Next
    BY <2>1, StepBase
  <2>2. CASE UNCHANGED vars
    BY <2>2 DEF vars, Base, TypeOK, Room, Waiting, Reading
  <2> QED BY <2>1, <2>2
<1>2. Base => TypeOK
  BY DEF Base
<1> QED BY InitBase, <1>1, <1>2, PTL DEF Spec

-----------------------------------------------------------------------------
(***************************************************************************)
(* The shapes of a step                                                    *)
(***************************************************************************)

\* Nothing is stored.
Kept == UNCHANGED <<memo, writes, crossed, posts, uploads, gone>>

\* Save i moves on.
Moves(i, pc) ==
    /\ TasksKept /\ CopiesKept
    /\ \A j \in DOMAIN tasks : j # i => tasks'[j] = tasks[j]
    /\ tasks'[i].pc = pc /\ tasks'[i].live = tasks[i].live

\* The shapes, in the order of Next.
DraftSaved ==
    /\ pending.key \in Editor
    /\ draft' = [draft EXCEPT ![pending.key] = pending.content]
    /\ pending'.key = "none"
    /\ Kept /\ UNCHANGED <<ed, tasks, overtaken, faults>>

MemoLoads ==
    /\ Loads /\ ed["edit"].live /\ ed["edit"].loading
    /\ AutoSave("edit", memo.content) \/ UNCHANGED <<pending, overtaken>>
    /\ Kept /\ UNCHANGED <<draft, tasks, faults>>

LoadLost ==
    /\ Flagged("edit") /\ ed'["edit"].saving = ed["edit"].saving
    /\ faults' # 0
    /\ Kept /\ UNCHANGED <<draft, pending, overtaken, tasks>>

PageChanges ==
    /\ NewPage
    /\ \/ /\ IF page' = "home" THEN AutoSave("home", draft["home"]) ELSE UNCHANGED <<pending, overtaken>>
          /\ faults' = faults
          /\ \A i \in DOMAIN tasks : tasks'[i].pc = tasks[i].pc
       \/ /\ page' = "home" => pending'.key = "home" /\ pending'.content = draft["home"]
          /\ page' # "home" => pending'.key = "none"
          /\ overtaken' = {}
          /\ faults' # 0
    /\ Kept /\ draft' = draft

SavesStart ==
    /\ Starts(Editor)
    /\ Kept /\ UNCHANGED <<draft, pending, overtaken, faults>>

Elsewhere ==
    /\ memo' \in Memo /\ memo'.attachments = memo.attachments
    /\ writes' = writes + 1
    /\ UNCHANGED <<crossed, posts, uploads, gone, ed, draft, pending, overtaken, tasks, faults>>

EditorOpens(e) ==
    /\ ~ed[e].live /\ Opens(e) /\ AutoSave(e, ed'[e].content)
    /\ Kept /\ UNCHANGED <<draft, tasks, faults>>

EditorCloses(e) ==
    /\ ed[e].live /\ ~ed[e].saving /\ Closes(e)
    /\ TasksKept /\ CopiesKept
    /\ \A i \in DOMAIN tasks :
           /\ tasks'[i].pc = tasks[i].pc
           /\ tasks'[i].live = (tasks[i].live /\ tasks[i].by # e)
    /\ Kept /\ UNCHANGED <<draft, pending, overtaken, faults>>

EditorChanges(e) ==
    /\ \E s \in EditorState : Edits(e, s)
    /\ UNCHANGED <<memo, writes, crossed, posts, uploads, draft, tasks, faults>>

FilesUpload(i) ==
    /\ Uploads(i)
    /\ UNCHANGED <<memo, writes, crossed, posts, gone, ed, draft, pending, overtaken, faults>>

ReadsAgain(i) ==
    /\ Reads(i) /\ tasks[i].by = "edit"
    /\ Kept /\ UNCHANGED <<draft, pending, overtaken, faults>>

MemoUpdates(i) ==
    /\ tasks[i].pc = "write" /\ tasks[i].by = "edit"
    /\ Updates(i) /\ Moves(i, "written")
    /\ writes' = writes + 1
    /\ crossed' = (crossed \/ tasks[i].snap.seen # writes)
    /\ UNCHANGED <<posts, uploads, gone, ed, draft, pending, overtaken, faults>>

MemoCreated(i) ==
    /\ tasks[i].pc = "write" /\ tasks[i].by \in New
    /\ Create(i) /\ Moves(i, "written")
    /\ UNCHANGED <<memo, writes, crossed, uploads, gone, ed, draft, pending, overtaken, faults>>

DraftClears(i) ==
    /\ tasks[i].pc = "written" /\ Moves(i, "cleared")
    /\ draft' = [draft EXCEPT ![tasks[i].by] = ""]
    /\ overtaken' = IF ed[tasks[i].by].live /\ ~tasks[i].live THEN overtaken \union {tasks[i].by}
                    ELSE overtaken
    /\ Kept /\ UNCHANGED <<ed, pending, faults>>

SaveEnds(i) ==
    /\ Resets(i)
    /\ Kept /\ UNCHANGED <<draft, faults>>

SaveLost(i) ==
    /\ tasks[i].pc \notin {"cleared", "done"} /\ Moves(i, "done")
    /\ ed' = ed \/ (tasks[i].live /\ Flagged(tasks[i].by))
    /\ faults' # 0
    /\ Kept /\ UNCHANGED <<draft, pending, overtaken>>

\* Any of them.
StepShapes ==
    \/ DraftSaved \/ MemoLoads \/ LoadLost \/ PageChanges \/ SavesStart \/ Elsewhere
    \/ \E e \in Editor : EditorOpens(e) \/ EditorCloses(e) \/ EditorChanges(e)
    \/ \E i \in DOMAIN tasks :
        \/ FilesUpload(i) \/ ReadsAgain(i) \/ MemoUpdates(i) \/ MemoCreated(i) \/ DraftClears(i)
        \/ SaveEnds(i) \/ SaveLost(i)

\* Every action has one of these shapes.
LEMMA StepShape ==
    ASSUME Base, Next
    PROVE  StepShapes
<1> USE BoundsAssumption
<1>1. /\ Within /\ Stores /\ Drafts /\ Saves /\ ed \in [Editor -> EditorState]
      /\ EdTyped /\ tasks \in Seq(Task) /\ memo \in Memo /\ writes \in Nat /\ posts \in Seq(Post)
  BY BaseParts, StatesTyped DEF Stores, Saves
<1>2. \A i \in DOMAIN tasks : tasks[i] \in Task /\ tasks[i].by \in Editor
  <2>1. \A t \in Task : t.by \in Editor
    BY DEF Task
  <2>2. \A i \in DOMAIN tasks : tasks[i] \in Task
    BY <1>1
  <2> QED BY <2>1, <2>2
<1>3. faults \in Nat /\ faults + 1 # 0
  BY <1>1, BudgetTyped
<1>4. CASE Debounced
  <2>1. pending.key \in Editor
    BY <1>1, <1>4 DEF Drafts, Debounced
  <2> QED BY <1>4, <2>1 DEF Debounced, None, stored, bounds, Kept, DraftSaved, StepShapes
<1>5. CASE Loaded
  <2>1. Loads
    BY <1>1, <1>5, LoadedLoads
  <2>2. AutoSave("edit", memo.content) \/ UNCHANGED <<pending, overtaken>>
    BY <1>5 DEF Loaded
  <2>3. ed["edit"].live /\ ed["edit"].loading /\ Kept /\ UNCHANGED <<draft, tasks, faults>>
    BY <1>5 DEF Loaded, Kept, stored, bounds
  <2>4. MemoLoads
    BY <2>1, <2>2, <2>3 DEF MemoLoads
  <2> QED BY <2>4 DEF StepShapes
<1>6. CASE LoadFails
  <2>1. "edit" \in Editor /\ ed' = [ed EXCEPT !["edit"].loading = FALSE]
    BY <1>6 DEF LoadFails, Editor
  <2>2. Flagged("edit")
    BY <1>1, <2>1, FlagsTyped
  <2>3. ed'["edit"].saving = ed["edit"].saving
    <3>1. ed["edit"] \in EditorState
      BY <1>1, <2>1
    <3>2. ed'["edit"] = [ed["edit"] EXCEPT !.loading = FALSE]
      BY <1>1, <2>1
    <3> QED BY <3>1, <3>2 DEF EditorState
  <2>4. faults' # 0 /\ Kept /\ UNCHANGED <<draft, pending, overtaken, tasks>>
    BY <1>3, <1>6 DEF LoadFails, stored, drafts, Kept
  <2> QED BY <2>2, <2>3, <2>4 DEF LoadLost, StepShapes
<1>7. CASE Navigate
  <2>1. NewPage /\ \A i \in DOMAIN tasks : tasks'[i].pc = tasks[i].pc
    BY <1>1, <1>7, NavigateOpens
  <2>2. IF page' = "home" THEN AutoSave("home", draft["home"]) ELSE UNCHANGED <<pending, overtaken>>
    BY <1>7 DEF Navigate
  <2>3. Kept /\ UNCHANGED <<draft, faults>>
    BY <1>7 DEF Navigate, Kept, stored
  <2> QED BY <2>1, <2>2, <2>3 DEF PageChanges, StepShapes
<1>8. ASSUME NEW es \in SUBSET Editor, handleSave(es)
      PROVE  StepShapes
  <2>1. Starts(es)
    BY <1>1, <1>8, handleSaveStarts DEF Saves
  <2>2. Starts(Editor)
    BY <2>1 DEF Starts
  <2> QED BY <1>8, <2>2 DEF handleSave, stored, drafts, Kept, SavesStart, StepShapes
<1>9. CASE SaveByKey
  BY <1>8, <1>9 DEF SaveByKey
<1>10. CASE ChangedElsewhere
  <2>1. memo' \in Memo /\ memo'.attachments = memo.attachments /\ writes' = writes + 1
    BY <1>1, <1>10, ElsewhereChanges
  <2>2. UNCHANGED <<crossed, posts, uploads, gone, ed, draft, pending, overtaken, tasks, faults>>
    BY Zenon, <1>10 DEF ChangedElsewhere, drafts
  <2> QED BY <2>1, <2>2 DEF Elsewhere, StepShapes
<1>11. CASE Reload
  <2>1. NewPage
    BY <1>1, <1>11, ReloadOpens
  <2>2. /\ page' = "home" => pending'.key = "home" /\ pending'.content = draft["home"]
        /\ page' # "home" => pending'.key = "none"
    BY <1>11 DEF Reload, None
  <2>3. overtaken' = {} /\ faults' # 0 /\ Kept /\ draft' = draft
    BY <1>3, <1>11 DEF Reload, Kept, stored
  <2> QED BY <2>1, <2>2, <2>3 DEF PageChanges, StepShapes
<1>12. ASSUME NEW e \in Editor, Open(e)
       PROVE  StepShapes
  <2>1. Opens(e)
    BY <1>1, <1>12, OpenOpens
  <2>2. EditorOpens(e)
    BY <1>12, <2>1 DEF Open, stored, Kept, EditorOpens
  <2> QED BY <2>2 DEF StepShapes
<1>13. ASSUME NEW e \in Editor, Cancel(e)
       PROVE  StepShapes
  <2>1. Closes(e)
    BY <1>1, <1>13, ClosedCloses DEF Cancel
  <2>2. /\ TasksKept /\ CopiesKept
        /\ \A i \in DOMAIN tasks :
               /\ tasks'[i].pc = tasks[i].pc
               /\ tasks'[i].live = (tasks[i].live /\ tasks[i].by \notin {e})
    BY <1>1, <1>13, OrphanedKeeps DEF Cancel
  <2>3. EditorCloses(e)
    BY <1>13, <2>1, <2>2 DEF Cancel, stored, drafts, Kept, EditorCloses
  <2> QED BY <2>3 DEF StepShapes
<1>14. ASSUME NEW e \in Editor, Editing(e)
       PROVE  StepShapes
  <2>1. PICK s \in EditorState : Edits(e, s)
    BY <1>1, <1>14, EditingEdits
  <2>2. UNCHANGED <<memo, writes, crossed, posts, uploads, draft, tasks, faults>>
    BY <2>1 DEF Edits, Reduce
  <2>3. EditorChanges(e)
    BY <2>1, <2>2 DEF EditorChanges
  <2> QED BY <2>3 DEF StepShapes
<1>15. ASSUME NEW e \in Editor, SaveByButton(e)
       PROVE  StepShapes
  BY <1>8, <1>15 DEF SaveByButton
<1>16. ASSUME NEW i \in DOMAIN tasks, uploadFiles(i)
       PROVE  StepShapes
  <2>1. Uploads(i)
    BY <1>1, <1>16, uploadFilesUploads DEF Saves
  <2>2. FilesUpload(i)
    BY <1>16, <2>1 DEF uploadFiles, drafts, bounds, FilesUpload
  <2> QED BY <2>2 DEF StepShapes
<1>17. ASSUME NEW i \in DOMAIN tasks, ReadBack(i)
       PROVE  StepShapes
  <2>1. Reads(i)
    BY <1>1, <1>17, ReadBackReads
  <2>2. tasks[i].by = "edit"
    BY <1>1, <2>1 DEF Reads, Saves, Reading
  <2>3. ReadsAgain(i)
    BY <1>17, <2>1, <2>2 DEF ReadBack, stored, drafts, bounds, Kept, ReadsAgain
  <2> QED BY <2>3 DEF StepShapes
<1>18. ASSUME NEW i \in DOMAIN tasks, Update(i)
       PROVE  StepShapes
  <2>1. Updates(i)
    BY <1>1, <1>18, UpdateUpdates
  <2>2. Moves(i, "written")
    BY <1>1, <1>18, MovedKeeps DEF Update, Ended, Moves
  <2>3. MemoUpdates(i)
    BY <1>18, <2>1, <2>2 DEF Update, drafts, bounds, MemoUpdates
  <2> QED BY <2>3 DEF StepShapes
<1>19. ASSUME NEW i \in DOMAIN tasks, Create(i)
       PROVE  StepShapes
  <2>1. Moves(i, "written")
    BY <1>1, <1>19, MovedKeeps DEF Create, Ended, Moves
  <2>2. MemoCreated(i)
    BY <1>19, <2>1 DEF Create, drafts, bounds, MemoCreated
  <2> QED BY <2>2 DEF StepShapes
<1>20. ASSUME NEW i \in DOMAIN tasks, Clear(i)
       PROVE  StepShapes
  <2>1. Moves(i, "cleared")
    BY <1>1, <1>20, MovedKeeps DEF Clear, Ended, Moves
  <2>2. DraftClears(i)
    BY <1>20, <2>1 DEF Clear, stored, bounds, Kept, DraftClears
  <2> QED BY <2>2 DEF StepShapes
<1>21. ASSUME NEW i \in DOMAIN tasks, Reset(i)
       PROVE  StepShapes
  <2>1. Resets(i)
    BY <1>1, <1>21, ResetResets
  <2>2. SaveEnds(i)
    BY <1>21, <2>1 DEF Reset, stored, bounds, Kept, SaveEnds
  <2> QED BY <2>2 DEF StepShapes
<1>22. ASSUME NEW i \in DOMAIN tasks, SaveFails(i)
       PROVE  StepShapes
  <2>1. Moves(i, "done") /\ tasks[i].pc \notin {"cleared", "done"}
    BY <1>1, <1>22, MovedKeeps DEF SaveFails, Ended, Moves
  <2>2. ed' = ed \/ (tasks[i].live /\ ed' = [ed EXCEPT ![tasks[i].by].saving = FALSE])
    BY <1>22 DEF SaveFails
  <2>3. ed' = ed \/ (tasks[i].live /\ Flagged(tasks[i].by))
    BY <1>1, <1>2, <2>2, FlagsTyped
  <2>4. faults' # 0 /\ Kept /\ UNCHANGED <<draft, pending, overtaken>>
    BY <1>3, <1>22 DEF SaveFails, stored, drafts, Kept
  <2>5. SaveLost(i)
    BY <2>1, <2>3, <2>4 DEF SaveLost
  <2> QED BY <2>5 DEF StepShapes
<1> QED BY <1>4, <1>5, <1>6, <1>7, <1>9, <1>10, <1>11, <1>12, <1>13, <1>14, <1>15, <1>16, <1>17,
           <1>18, <1>19, <1>20, <1>21, <1>22 DEF Next, Editing

-----------------------------------------------------------------------------
(***************************************************************************)
(* The memo is saved as shown                                              *)
(***************************************************************************)

\* The copies stay good.
LEMMA StepCopies ==
    ASSUME Base, Copies, StepShapes
    PROVE  Copies'
<1>0. writes \in Nat /\ DOMAIN tasks = 1..Len(tasks) /\ tasks \in Seq(Task)
  BY DEF Base, TypeOK
<1>1. \A i \in DOMAIN tasks : tasks[i].writes \in Nat
  <2>1. \A t \in Task : t.writes \in Nat
    BY DEF Task
  <2> QED BY <1>0, <2>1
<1>2. ASSUME TasksKept, CopiesKept, memo' = memo, writes' = writes
      PROVE  Copies'
  BY <1>2 DEF Copies, TasksKept, CopiesKept
<1>3. ASSUME tasks' = tasks, memo' = memo, writes' = writes
      PROVE  Copies'
  BY <1>3 DEF Copies
<1>4. ASSUME TasksKept, CopiesKept, writes' = writes + 1
      PROVE  Copies'
  BY <1>0, <1>1, <1>4 DEF Copies, TasksKept, CopiesKept
<1>5. CASE DraftSaved \/ MemoLoads \/ LoadLost
  BY <1>3, <1>5 DEF DraftSaved, MemoLoads, LoadLost, Kept
<1>6. CASE PageChanges
  BY <1>2, <1>6 DEF PageChanges, NewPage, Kept
<1>7. CASE SavesStart
  <2>1. \A i \in DOMAIN tasks' \ DOMAIN tasks : tasks'[i].prev = memo /\ tasks'[i].writes = writes
    <3>1. \A e \in Editor : Begun(e).prev = memo /\ Begun(e).writes = writes
      BY DEF Begun
    <3> QED BY <1>7, <3>1 DEF SavesStart, Starts
  <2>2. \A i \in DOMAIN tasks : tasks'[i] = tasks[i]
    BY <1>7 DEF SavesStart, Starts
  <2>3. memo' = memo /\ writes' = writes
    BY <1>7 DEF SavesStart, Kept
  <2> QED BY <1>0, <2>1, <2>2, <2>3 DEF Copies
<1>8. CASE Elsewhere
  BY <1>0, <1>4, <1>8, SameTasks DEF Elsewhere
<1>9. CASE \E e \in Editor : EditorOpens(e) \/ EditorCloses(e) \/ EditorChanges(e)
  BY <1>2, <1>3, <1>9 DEF EditorOpens, EditorCloses, EditorChanges, Kept
<1>10. ASSUME NEW i \in DOMAIN tasks,
              \/ MemoCreated(i) \/ DraftClears(i) \/ SaveEnds(i) \/ SaveLost(i)
       PROVE  Copies'
  BY <1>2, <1>10 DEF MemoCreated, DraftClears, SaveEnds, SaveLost, Resets, Moves, Kept
<1>11. ASSUME NEW i \in DOMAIN tasks, FilesUpload(i)
       PROVE  Copies'
  BY <1>11 DEF FilesUpload, Uploads, Copies
<1>12. ASSUME NEW i \in DOMAIN tasks, ReadsAgain(i)
       PROVE  Copies'
  BY <1>0, <1>12 DEF ReadsAgain, Reads, Copies, Kept
<1>13. ASSUME NEW i \in DOMAIN tasks, MemoUpdates(i)
       PROVE  Copies'
  BY <1>4, <1>13 DEF MemoUpdates, Moves
<1> QED BY <1>5, <1>6, <1>7, <1>8, <1>9, <1>10, <1>11, <1>12, <1>13 DEF StepShapes

\* What the update of a good copy writes.
LEMMA StepSaved ==
    ASSUME Base, Copies, StepShapes, NEW i \in DOMAIN tasks,
           tasks[i].pc = "write", tasks'[i].pc = "written"
    PROVE  MemoUpdates(i) \/ (tasks[i].by \in New /\ MemoCreated(i))
<1>1. CASE DraftSaved \/ MemoLoads \/ LoadLost \/ Elsewhere
  BY <1>1 DEF DraftSaved, MemoLoads, LoadLost, Elsewhere
<1>2. CASE PageChanges
  BY <1>2 DEF PageChanges, NewPage
<1>3. CASE SavesStart
  BY <1>3 DEF SavesStart, Starts
<1>4. CASE \E e \in Editor : EditorOpens(e) \/ EditorCloses(e) \/ EditorChanges(e)
  BY <1>4 DEF EditorOpens, EditorCloses, EditorChanges
<1>5. ASSUME NEW j \in DOMAIN tasks, j # i,
             \/ FilesUpload(j) \/ ReadsAgain(j) \/ MemoUpdates(j) \/ MemoCreated(j) \/ DraftClears(j)
             \/ SaveEnds(j) \/ SaveLost(j)
      PROVE  FALSE
  BY <1>5 DEF FilesUpload, Uploads, ReadsAgain, Reads, MemoUpdates, MemoCreated, DraftClears, SaveEnds,
              Resets, SaveLost, Moves
<1>6. ASSUME \/ FilesUpload(i) \/ ReadsAgain(i) \/ DraftClears(i) \/ SaveEnds(i) \/ SaveLost(i)
      PROVE  FALSE
  BY <1>6 DEF FilesUpload, Uploads, ReadsAgain, Reads, DraftClears, SaveEnds, Resets, SaveLost, Moves
<1>7. CASE MemoCreated(i)
  BY <1>7 DEF MemoCreated
<1> QED BY <1>1, <1>2, <1>3, <1>4, <1>5, <1>6, <1>7 DEF StepShapes

\* An update by the fields that differ from the copy read back leaves the memo as
\* it was shown at the click, however the editors, the other saves and the other
\* clients interleave with it, unless the memo was written after the copy.
THEOREM SavesAsShown == Spec => SavedAsShown
<1> DEFINE Inv == Base /\ Copies
           Shows == \A i \in DOMAIN tasks :
                    /\ tasks[i].by = "edit" /\ tasks[i].pc = "write" /\ tasks'[i].pc = "written"
                    /\ tasks[i].writes = writes
                    => \A f \in DOMAIN Shown(tasks[i]) : memo'[f] = Shown(tasks[i])[f]
<1>1. Init => Inv
  BY InitBase, InitEmpty DEF Copies
<1>2. Inv /\ [Next]_vars => Inv'
  <2> SUFFICES ASSUME Inv, [Next]_vars PROVE Inv'
    OBVIOUS
  <2>1. CASE Next
    BY <2>1, StepBase, StepShape, StepCopies
  <2>2. CASE UNCHANGED vars
    BY <2>2 DEF vars, Base, TypeOK, Room, Waiting, Reading, Copies
  <2> QED BY <2>1, <2>2
<1>3. Inv /\ [Next]_vars => [Shows]_vars
  <2> SUFFICES ASSUME Inv, Next, NEW i \in DOMAIN tasks,
                      tasks[i].by = "edit", tasks[i].pc = "write", tasks'[i].pc = "written",
                      tasks[i].writes = writes
               PROVE  \A f \in DOMAIN Shown(tasks[i]) : memo'[f] = Shown(tasks[i])[f]
    OBVIOUS
  <2>1. MemoUpdates(i)
    BY StepShape, StepSaved DEF New
  <2>2. tasks[i].prev = memo
    BY DEF Copies
  <2> QED BY <2>1, <2>2 DEF MemoUpdates, Updates
<1>4. SavedAsShown <=> [][Shows]_vars
  BY DEF SavedAsShown
<1> QED BY <1>1, <1>2, <1>3, <1>4, PTL DEF Spec

-----------------------------------------------------------------------------
(***************************************************************************)
(* A text is posted once                                                   *)
(***************************************************************************)

\* An editor that may not start a save of its text may not start one after the
\* step, or composes another text.
Settled(s, t) == t.n > s.n \/ (t.n = s.n /\ (s.saving \/ ~s.live => t.saving \/ ~t.live))

\* No save starts.
SameSaves ==
    /\ DOMAIN tasks' = DOMAIN tasks
    /\ \A i \in DOMAIN tasks : /\ tasks'[i].by = tasks[i].by /\ tasks'[i].snap = tasks[i].snap
                               /\ tasks[i].pc \in Ended => tasks'[i].pc \in Ended

\* The fields of the editors and of the saves.
LEMMA EditorsTyped ==
    ASSUME Base
    PROVE  /\ EdTyped /\ tasks \in Seq(Task) /\ posts \in Seq(Post)
           /\ \A e \in Editor : /\ ed[e].n \in Nat /\ ed[e].live \in BOOLEAN /\ ed[e].saving \in BOOLEAN
                                /\ ed[e].seen \in Nat /\ ed[e].content \in Content
                                /\ ed[e].attachments \in Seq(Attachments)
           /\ \A i \in DOMAIN tasks : /\ tasks[i].by \in Editor /\ tasks[i].snap.n \in Nat
                                      /\ tasks[i].snap.seen \in Nat /\ tasks[i].writes \in Nat
                                      /\ tasks[i].new \in Seq(Attachments) /\ tasks[i].pc \in Steps
                                      /\ tasks[i].snap.attachments \in Seq(Attachments)
                                      /\ tasks[i].live \in BOOLEAN
<1>1. Drafts /\ ed \in [Editor -> EditorState] /\ tasks \in Seq(Task) /\ posts \in Seq(Post)
  BY BaseParts DEF Saves, Stores
<1>2. \A t \in Task : /\ t.by \in Editor /\ t.snap \in EditorState /\ t.writes \in Nat
                      /\ t.new \in Seq(Attachments) /\ t.pc \in Steps /\ t.live \in BOOLEAN
  BY DEF Task
<1>3. \A s \in EditorState : s.n \in Nat /\ s.seen \in Nat /\ s.attachments \in Seq(Attachments)
  BY DEF EditorState
<1>4. \A i \in DOMAIN tasks : tasks[i] \in Task
  BY <1>1
<1>5. \A i \in DOMAIN tasks : /\ tasks[i].by \in Editor /\ tasks[i].snap.n \in Nat
                              /\ tasks[i].snap.seen \in Nat /\ tasks[i].writes \in Nat
                              /\ tasks[i].new \in Seq(Attachments) /\ tasks[i].pc \in Steps
                              /\ tasks[i].snap.attachments \in Seq(Attachments)
                              /\ tasks[i].live \in BOOLEAN
  BY <1>2, <1>3, <1>4
<1>6. EdTyped /\ \A e \in Editor : /\ ed[e].n \in Nat /\ ed[e].live \in BOOLEAN /\ ed[e].saving \in BOOLEAN
                                   /\ ed[e].seen \in Nat /\ ed[e].content \in Content
                                   /\ ed[e].attachments \in Seq(Attachments)
  BY <1>1, StatesTyped
<1> QED BY <1>1, <1>5, <1>6

\* Every text has its number.
Counted == \A e \in Editor : ed[e].n \in Nat

\* The numbers of the texts.
LEMMA TextsCounted == Base => Counted
BY EditorsTyped DEF Counted

\* A step that starts and creates nothing.
LEMMA OnceKept ==
    ASSUME Base, OnceInv, SameSaves, posts' = posts,
           \A e \in Editor : ed'[e].n \in Nat /\ Settled(ed[e], ed'[e])
    PROVE  OnceInv'
<1>1. \A i \in DOMAIN tasks : tasks[i].by \in Editor /\ tasks[i].snap.n \in Nat
  BY EditorsTyped
<1>2. \A e \in Editor : ed[e].n \in Nat
  BY EditorsTyped
<1>3. ASSUME NEW i \in DOMAIN tasks
      PROVE  /\ tasks'[i].snap.n <= ed'[tasks'[i].by].n
             /\ tasks'[i].snap.n = ed'[tasks'[i].by].n =>
                    ed'[tasks'[i].by].saving \/ ~ed'[tasks'[i].by].live
  <2> DEFINE e == tasks[i].by
             m == tasks[i].snap.n
  <2>1. tasks'[i].by = e /\ tasks'[i].snap.n = m /\ e \in Editor /\ m \in Nat
    BY <1>1 DEF SameSaves
  <2>2. m <= ed[e].n /\ (m = ed[e].n => ed[e].saving \/ ~ed[e].live)
    BY DEF OnceInv
  <2>3. Settled(ed[e], ed'[e]) /\ ed[e].n \in Nat /\ ed'[e].n \in Nat
    BY <1>2, <2>1
  <2> HIDE DEF e, m
  <2>4. m <= ed'[e].n /\ (m = ed'[e].n => ed'[e].saving \/ ~ed'[e].live)
    BY <2>1, <2>2, <2>3 DEF Settled
  <2> QED BY <2>1, <2>4
<1>4. \A i, j \in DOMAIN tasks' :
          tasks'[i].by = tasks'[j].by /\ tasks'[i].snap.n = tasks'[j].snap.n => i = j
  BY DEF OnceInv, SameSaves
<1>5. \A k \in DOMAIN posts' : \E i \in DOMAIN tasks' :
          /\ tasks'[i].by = posts'[k].by /\ tasks'[i].snap.n = posts'[k].n
          /\ tasks'[i].pc \in Ended
  BY DEF OnceInv, SameSaves
<1>6. \A k, l \in DOMAIN posts' :
          posts'[k].by = posts'[l].by /\ posts'[k].n = posts'[l].n => k = l
  BY DEF OnceInv
<1> QED BY <1>3, <1>4, <1>5, <1>6 DEF OnceInv, SameSaves

\* A save starts for a text that has none.
LEMMA OnceStarts ==
    ASSUME Base, OnceInv, SavesStart
    PROVE  OnceInv'
<1> DEFINE more == DOMAIN tasks' \ DOMAIN tasks
<1>1. /\ \A i \in DOMAIN tasks : tasks[i].by \in Editor /\ tasks[i].snap.n \in Nat
      /\ \A e \in Editor : ed[e].n \in Nat
  BY EditorsTyped
<1>2. /\ DOMAIN tasks \subseteq DOMAIN tasks'
      /\ \A i \in DOMAIN tasks : tasks'[i] = tasks[i]
      /\ posts' = posts
  BY DEF SavesStart, Starts, Kept
<1>3. \A e \in Editor : ed'[e].n = ed[e].n /\ ed'[e].live = ed[e].live
                        /\ (ed[e].saving => ed'[e].saving)
  BY DEF SavesStart, Starts
<1>4. \A i \in more : /\ tasks'[i].by \in Editor /\ tasks'[i].snap = ed[tasks'[i].by]
                      /\ ed[tasks'[i].by].live /\ ~ed[tasks'[i].by].saving
                      /\ ed'[tasks'[i].by].saving
  <2>1. \A e \in Editor : Begun(e).by = e /\ Begun(e).snap = ed[e]
    BY DEF Begun
  <2>2. \A i \in more : \E e \in Editor : canSave(e) /\ tasks'[i] = Begun(e)
    BY DEF SavesStart, Starts
  <2>3. \A i \in more : ed'[tasks'[i].by].saving = TRUE
    BY DEF SavesStart, Starts
  <2> TAKE i \in more
  <2>4. PICK e \in Editor : canSave(e) /\ tasks'[i] = Begun(e)
    BY <2>2
  <2>5. tasks'[i].by = e /\ tasks'[i].snap = ed[e]
    BY <2>1, <2>4
  <2>6. ed[e].live /\ ~ed[e].saving
    BY <2>4 DEF canSave
  <2> QED BY <2>3, <2>5, <2>6
<1>5. \A i, j \in more : tasks'[i].by = tasks'[j].by => i = j
  BY DEF SavesStart, Starts
<1>6. ASSUME NEW i \in DOMAIN tasks, NEW j \in more,
             tasks'[i].by = tasks'[j].by, tasks'[i].snap.n = tasks'[j].snap.n
      PROVE  FALSE
  BY <1>2, <1>4, <1>6 DEF OnceInv
<1>7. \A i \in DOMAIN tasks' : i \in DOMAIN tasks \/ i \in more
  OBVIOUS
<1>8. \A i \in DOMAIN tasks' :
          /\ tasks'[i].snap.n <= ed'[tasks'[i].by].n
          /\ tasks'[i].snap.n = ed'[tasks'[i].by].n =>
                 ed'[tasks'[i].by].saving \/ ~ed'[tasks'[i].by].live
  <2> TAKE i \in DOMAIN tasks'
  <2>1. CASE i \in DOMAIN tasks
    BY <1>1, <1>2, <1>3, <2>1 DEF OnceInv
  <2>2. CASE i \in more
    <3>1. tasks'[i].snap.n = ed'[tasks'[i].by].n /\ ed'[tasks'[i].by].saving
      BY <1>3, <1>4, <2>2
    <3>2. tasks'[i].snap.n \in Nat
      BY <1>1, <1>4, <2>2
    <3> QED BY <3>1, <3>2
  <2> QED BY <1>7, <2>1, <2>2
<1>9. \A i, j \in DOMAIN tasks' :
          tasks'[i].by = tasks'[j].by /\ tasks'[i].snap.n = tasks'[j].snap.n => i = j
  <2> TAKE i, j \in DOMAIN tasks'
  <2> HAVE tasks'[i].by = tasks'[j].by /\ tasks'[i].snap.n = tasks'[j].snap.n
  <2>1. CASE i \in DOMAIN tasks /\ j \in DOMAIN tasks
    BY <1>2, <2>1 DEF OnceInv
  <2>2. CASE i \in more /\ j \in more
    BY <1>5, <2>2
  <2>3. CASE (i \in DOMAIN tasks /\ j \in more) \/ (j \in DOMAIN tasks /\ i \in more)
    BY <1>6, <2>3
  <2> QED BY <1>7, <2>1, <2>2, <2>3
<1>10. \A k \in DOMAIN posts' : \E i \in DOMAIN tasks' :
           /\ tasks'[i].by = posts'[k].by /\ tasks'[i].snap.n = posts'[k].n
           /\ tasks'[i].pc \in Ended
  BY <1>2 DEF OnceInv
<1>11. \A k, l \in DOMAIN posts' :
           posts'[k].by = posts'[l].by /\ posts'[k].n = posts'[l].n => k = l
  BY <1>2 DEF OnceInv
<1> QED BY <1>8, <1>9, <1>10, <1>11 DEF OnceInv

\* A post is made of a text that has none.
LEMMA OnceCreates ==
    ASSUME Base, OnceInv, NEW i \in DOMAIN tasks, MemoCreated(i)
    PROVE  OnceInv'
<1> DEFINE m == Len(posts) + 1
           p == [by |-> tasks[i].by, n |-> tasks[i].snap.n, content |-> tasks[i].snap.content,
                 attachments |-> tasks[i].snap.attachments \o tasks[i].new]
<1>1. /\ DOMAIN posts' = DOMAIN posts \union {m} /\ m \notin DOMAIN posts
      /\ posts'[m] = p /\ \A k \in DOMAIN posts : posts'[k] = posts[k]
  BY EditorsTyped, CreateAppends DEF MemoCreated
<1>2. posts'[m].by = tasks[i].by /\ posts'[m].n = tasks[i].snap.n
  BY <1>1
<1> HIDE DEF m, p
<1>3. /\ DOMAIN tasks' = DOMAIN tasks
      /\ \A j \in DOMAIN tasks : tasks'[j].by = tasks[j].by /\ tasks'[j].snap = tasks[j].snap
      /\ \A j \in DOMAIN tasks : tasks[j].pc \in Ended => tasks'[j].pc \in Ended
      /\ tasks'[i].pc \in Ended /\ tasks[i].pc \notin Ended /\ ed' = ed
  BY DEF MemoCreated, Moves, TasksKept, KeptTask, Ended
<1>4. \A j \in DOMAIN tasks' :
          /\ tasks'[j].snap.n <= ed'[tasks'[j].by].n
          /\ tasks'[j].snap.n = ed'[tasks'[j].by].n =>
                 ed'[tasks'[j].by].saving \/ ~ed'[tasks'[j].by].live
  BY <1>3 DEF OnceInv
<1>5. \A j, k \in DOMAIN tasks' :
          tasks'[j].by = tasks'[k].by /\ tasks'[j].snap.n = tasks'[k].snap.n => j = k
  BY <1>3 DEF OnceInv
<1>6. \A k \in DOMAIN posts' : \E j \in DOMAIN tasks' :
          /\ tasks'[j].by = posts'[k].by /\ tasks'[j].snap.n = posts'[k].n
          /\ tasks'[j].pc \in Ended
  BY <1>1, <1>2, <1>3 DEF OnceInv
<1>7. ASSUME NEW k \in DOMAIN posts, posts[k].by = posts'[m].by, posts[k].n = posts'[m].n
      PROVE  FALSE
  BY <1>2, <1>3, <1>7 DEF OnceInv
<1>8. \A k, l \in DOMAIN posts' :
          posts'[k].by = posts'[l].by /\ posts'[k].n = posts'[l].n => k = l
  <2> TAKE k, l \in DOMAIN posts'
  <2> HAVE posts'[k].by = posts'[l].by /\ posts'[k].n = posts'[l].n
  <2>1. CASE k \in DOMAIN posts /\ l \in DOMAIN posts
    BY <1>1, <2>1 DEF OnceInv
  <2>2. CASE k = m /\ l = m
    BY <2>2
  <2>3. CASE (k \in DOMAIN posts /\ l = m) \/ (l \in DOMAIN posts /\ k = m)
    BY <1>1, <1>7, <2>3
  <2> QED BY <1>1, <2>1, <2>2, <2>3
<1> QED BY <1>4, <1>5, <1>6, <1>8 DEF OnceInv

\* Once is kept by every shape.
LEMMA StepOnce ==
    ASSUME Base, Base', Once, StepShapes
    PROVE  Once'
<1> SUFFICES ASSUME faults' = 0 PROVE OnceInv'
  BY DEF Once
<1>1. \A e \in Editor : ed'[e].n \in Nat
  <2>1. Counted'
    BY TextsCounted, PTL
  <2> QED BY <2>1 DEF Counted
<1>2. /\ EdTyped
      /\ \A e \in Editor : ed[e].n \in Nat /\ ed[e].live \in BOOLEAN /\ ed[e].saving \in BOOLEAN
      /\ \A i \in DOMAIN tasks : tasks[i].by \in Editor
  BY EditorsTyped
<1>3. ASSUME OnceInv, TasksKept \/ tasks' = tasks, posts' = posts,
             \A e \in Editor : Settled(ed[e], ed'[e])
      PROVE  OnceInv'
  <2>1. SameSaves
    BY <1>3 DEF SameSaves, TasksKept, KeptTask
  <2> QED BY <1>1, <1>3, <2>1, OnceKept
<1>4. \A e \in Editor : /\ ed'[e] = ed[e] => Settled(ed[e], ed'[e])
                        /\ \A c, b : Fresh(ed'[e], c, b, ed[e].n + 1) => Settled(ed[e], ed'[e])
                        /\ \A c : Fresh(ed'[e], c, FALSE, ed[e].n) => Settled(ed[e], ed'[e])
  BY <1>2 DEF Settled, Fresh
<1>5. faults' = faults => OnceInv
  BY DEF Once
<1>6. CASE DraftSaved
  BY <1>3, <1>4, <1>5, <1>6 DEF DraftSaved, Kept
<1>7. CASE MemoLoads
  <2>1. \A e \in Editor : Settled(ed[e], ed'[e])
    BY <1>2, <1>4, <1>7 DEF MemoLoads, Loads, Settled
  <2> QED BY <1>3, <1>5, <1>7, <2>1 DEF MemoLoads, Kept
<1>8. CASE PageChanges
  <2>1. \A e \in Editor : Settled(ed[e], ed'[e])
    BY <1>4, <1>8 DEF PageChanges, NewPage
  <2> QED BY <1>3, <1>5, <1>8, <2>1 DEF PageChanges, NewPage, Kept
<1>9. CASE SavesStart
  BY <1>5, <1>9, OnceStarts DEF SavesStart
<1>10. CASE Elsewhere
  BY <1>3, <1>4, <1>5, <1>10 DEF Elsewhere
<1>11. ASSUME NEW e \in Editor, EditorOpens(e)
       PROVE  OnceInv'
  <2>1. \A x \in Editor : Settled(ed[x], ed'[x])
    BY <1>4, <1>11 DEF EditorOpens, Opens
  <2> QED BY <1>3, <1>5, <1>11, <2>1 DEF EditorOpens, Kept
<1>12. ASSUME NEW e \in Editor, EditorCloses(e)
       PROVE  OnceInv'
  <2>1. \A x \in Editor : Settled(ed[x], ed'[x])
    BY <1>4, <1>12 DEF EditorCloses, Closes
  <2> QED BY <1>3, <1>5, <1>12, <2>1 DEF EditorCloses, Kept
<1>13. ASSUME NEW e \in Editor, EditorChanges(e)
       PROVE  OnceInv'
  <2>1. \A x \in Editor : Settled(ed[x], ed'[x])
    <3>1. PICK s \in EditorState : Edits(e, s)
      BY <1>13 DEF EditorChanges
    <3>2. /\ ed' = [ed EXCEPT ![e] = s]
          /\ s.n = ed[e].n /\ s.saving = ed[e].saving /\ s.live = ed[e].live
      BY <3>1 DEF Edits, Reduce
    <3>3. ed'[e] = s /\ \A x \in Editor : x # e => ed'[x] = ed[x]
      BY <1>2, <3>2 DEF EdTyped
    <3>4. Settled(ed[e], s)
      BY <3>2 DEF Settled
    <3> QED BY <1>4, <3>3, <3>4
  <2> QED BY <1>3, <1>5, <1>13, <2>1 DEF EditorChanges
<1>14. ASSUME NEW i \in DOMAIN tasks, FilesUpload(i)
       PROVE  OnceInv'
  <2>1. SameSaves
    BY <1>14 DEF FilesUpload, Uploads, SameSaves, Ended
  <2>2. \A x \in Editor : Settled(ed[x], ed'[x])
    BY <1>4, <1>14 DEF FilesUpload
  <2> QED BY <1>1, <1>5, <1>14, <2>1, <2>2, OnceKept DEF FilesUpload
<1>15. ASSUME NEW i \in DOMAIN tasks, ReadsAgain(i)
       PROVE  OnceInv'
  <2>1. SameSaves
    BY <1>15 DEF ReadsAgain, Reads, SameSaves, Ended
  <2>2. \A x \in Editor : Settled(ed[x], ed'[x])
    <3>1. ed' = ed \/ Closes("edit")
      BY <1>2, <1>15, ClosedCloses DEF ReadsAgain, Reads, Editor
    <3> QED BY <1>4, <3>1 DEF Closes
  <2> QED BY <1>1, <1>5, <1>15, <2>1, <2>2, OnceKept DEF ReadsAgain, Kept
<1>16. ASSUME NEW i \in DOMAIN tasks, MemoUpdates(i) \/ DraftClears(i)
       PROVE  OnceInv'
  <2>1. TasksKept /\ posts' = posts /\ faults' = faults /\ ed' = ed
    BY <1>16 DEF MemoUpdates, DraftClears, Moves, Kept
  <2> QED BY <1>3, <1>4, <1>5, <2>1
<1>17. ASSUME NEW i \in DOMAIN tasks, MemoCreated(i)
       PROVE  OnceInv'
  BY <1>5, <1>17, OnceCreates DEF MemoCreated
<1>18. ASSUME NEW i \in DOMAIN tasks, SaveEnds(i)
       PROVE  OnceInv'
  <2>1. \A x \in Editor : Settled(ed[x], ed'[x])
    BY <1>2, <1>4, <1>18 DEF SaveEnds, Resets, Empties, Closes
  <2> QED BY <1>3, <1>5, <1>18, <2>1 DEF SaveEnds, Resets, Kept
<1>19. ASSUME LoadLost \/ \E i \in DOMAIN tasks : SaveLost(i)
       PROVE  FALSE
  BY <1>19 DEF LoadLost, SaveLost
<1> QED BY <1>6, <1>7, <1>8, <1>9, <1>10, <1>11, <1>12, <1>13, <1>14, <1>15, <1>16, <1>17, <1>18,
           <1>19 DEF StepShapes

\* Two posts are never of one text of one editor, in any interleaving of clicks,
\* Ctrl+Enter, saves and page changes in which no call failed.
THEOREM PostsOnce == Spec => []CreatedOnce
<1> DEFINE Inv == Base /\ Once
<1>1. Init => Inv
  BY InitBase, InitEmpty DEF Once, OnceInv
<1>2. Inv /\ [Next]_vars => Inv'
  <2> SUFFICES ASSUME Inv, [Next]_vars PROVE Inv'
    OBVIOUS
  <2>1. CASE Next
    <3>1. Base'
      BY <2>1, StepBase
    <3> QED BY <2>1, <3>1, StepShape, StepOnce
  <2>2. CASE UNCHANGED vars
    BY <2>2 DEF vars, Base, TypeOK, Room, Waiting, Reading, Once, OnceInv
  <2> QED BY <2>1, <2>2
<1>3. Inv => CreatedOnce
  BY DEF Once, OnceInv, CreatedOnce
<1> QED BY <1>1, <1>2, <1>3, PTL DEF Spec

-----------------------------------------------------------------------------
(***************************************************************************)
(* No attachment is part of two memos                                      *)
(***************************************************************************)

\* The elements of two lists.
LEMMA SeqUnion ==
    ASSUME NEW S, NEW a \in Seq(S), NEW b \in Seq(S)
    PROVE  ToSet(a \o b) = ToSet(a) \union ToSet(b)
<1>1. /\ Len(a) \in Nat /\ Len(b) \in Nat /\ DOMAIN a = 1..Len(a) /\ DOMAIN b = 1..Len(b)
      /\ DOMAIN (a \o b) = 1..(Len(a) + Len(b))
      /\ \A j \in 1..(Len(a) + Len(b)) : (a \o b)[j] = IF j <= Len(a) THEN a[j] ELSE b[j - Len(a)]
  OBVIOUS
<1> DEFINE m == Len(a)
           n == Len(b)
           c == a \o b
<1>2. /\ m \in Nat /\ n \in Nat /\ DOMAIN a = 1..m /\ DOMAIN b = 1..n /\ DOMAIN c = 1..(m + n)
      /\ \A j \in 1..(m + n) : c[j] = IF j <= m THEN a[j] ELSE b[j - m]
  BY <1>1
<1> HIDE DEF m, n, c
<1>3. ASSUME NEW x \in ToSet(c) PROVE x \in ToSet(a) \union ToSet(b)
  <2>1. PICK j \in 1..(m + n) : x = c[j]
    BY <1>2, <1>3 DEF ToSet
  <2>2. CASE j <= m
    <3>1. j \in DOMAIN a /\ x = a[j]
      BY <1>2, <2>1, <2>2
    <3> QED BY <3>1 DEF ToSet
  <2>3. CASE ~(j <= m)
    <3>1. j - m \in DOMAIN b /\ x = b[j - m]
      BY <1>2, <2>1, <2>3
    <3> QED BY <3>1 DEF ToSet
  <2> QED BY <2>2, <2>3
<1>4. ASSUME NEW x \in ToSet(a) PROVE x \in ToSet(c)
  <2>1. PICK j \in 1..m : x = a[j]
    BY <1>2, <1>4 DEF ToSet
  <2>2. j \in DOMAIN c /\ c[j] = x
    BY <1>2, <2>1
  <2> QED BY <2>2 DEF ToSet
<1>5. ASSUME NEW x \in ToSet(b) PROVE x \in ToSet(c)
  <2>1. PICK j \in 1..n : x = b[j]
    BY <1>2, <1>5 DEF ToSet
  <2>2. j + m \in 1..(m + n) /\ ~(j + m <= m) /\ (j + m) - m = j
    BY <1>2, <2>1
  <2>3. c[j + m] = x /\ j + m \in DOMAIN c
    BY <1>2, <2>1, <2>2
  <2> QED BY <2>3 DEF ToSet
<1> USE DEF c
<1> QED BY <1>3, <1>4, <1>5

\* The elements of none.
LEMMA SeqEmpty ==
    /\ ToSet(<<>>) = {}
    /\ \A S : \A s \in Seq(S) : ToSet(s) = {} => s = <<>>
<1>1. ToSet(<<>>) = {}
  BY DEF ToSet
<1>2. ASSUME NEW S, NEW s \in Seq(S), ToSet(s) = {} PROVE s = <<>>
  <2>1. Len(s) \in Nat /\ DOMAIN s = 1..Len(s)
    OBVIOUS
  <2>2. ~(1 \in 1..Len(s))
    BY <1>2, <2>1 DEF ToSet
  <2>3. Len(s) = 0
    BY <2>1, <2>2
  <2> QED BY <2>3
<1> QED BY <1>1, <1>2

\* The numbers the saves hold are left as they are.
SameFiles ==
    /\ DOMAIN tasks' = DOMAIN tasks
    /\ \A i \in DOMAIN tasks :
           /\ tasks'[i].by = tasks[i].by /\ tasks'[i].snap = tasks[i].snap
           /\ tasks'[i].new = tasks[i].new
           /\ tasks[i].pc \in Ended => tasks'[i].pc \in Ended
           /\ tasks'[i].pc = "upload" => tasks[i].pc = "upload"

\* Moving on keeps the numbers.
LEMMA KeptFiles == TasksKept \/ tasks' = tasks => SameFiles
BY DEF TasksKept, KeptTask, SameFiles, Ended

\* EditSide, element by element.
LEMMA EditSideIs ==
    \A x : x \in EditSide <=> x = 1 \/ \E i \in DOMAIN tasks : tasks[i].by = "edit" /\ x \in Own(i)
BY DEF EditSide

\* A step that gives out no number and creates no post.
LEMMA ApartKept ==
    ASSUME Apart, SameFiles, uploads' = uploads, posts' = posts,
           ToSet(memo'.attachments) \subseteq EditSide,
           ToSet(ed'["edit"].attachments) \subseteq EditSide,
           \A e \in New : ed'[e].attachments = <<>>
    PROVE  Apart'
<1>1. \A i \in DOMAIN tasks : ToSet(tasks'[i].new) = ToSet(tasks[i].new)
  BY DEF SameFiles
<1>2. EditSide' = EditSide
  BY <1>1 DEF EditSide, SameFiles, Own
<1>3. (\A k \in DOMAIN posts : Posted(k) \subseteq
           UNION {Own(i) : i \in {j \in DOMAIN tasks : tasks[j].by \in New /\ tasks[j].pc \in Ended}})'
  <2> SUFFICES ASSUME NEW k \in DOMAIN posts, NEW x \in ToSet(posts[k].attachments)
               PROVE  \E i \in DOMAIN tasks' : /\ tasks'[i].by \in New /\ tasks'[i].pc \in Ended
                                               /\ x \in ToSet(tasks'[i].new)
    BY DEF Posted, Own
  <2>1. PICK i \in DOMAIN tasks : /\ tasks[i].by \in New /\ tasks[i].pc \in Ended
                                  /\ x \in ToSet(tasks[i].new)
    BY DEF Apart, Posted, Own
  <2> QED BY <2>1 DEF SameFiles
<1>4. (\A i \in DOMAIN tasks : Own(i) \subseteq 2..uploads /\ (tasks[i].pc = "upload" => Own(i) = {}))'
  BY <1>1 DEF Apart, SameFiles, Own
<1>5. (\A i, j \in DOMAIN tasks : i # j => Own(i) \cap Own(j) = {})'
  BY <1>1 DEF Apart, SameFiles, Own
<1>6. /\ (\A i \in DOMAIN tasks : tasks[i].by \in New => tasks[i].snap.attachments = <<>>)'
      /\ (\A i \in DOMAIN tasks : tasks[i].by = "edit" => ToSet(tasks[i].snap.attachments) \subseteq EditSide)'
  BY <1>2 DEF Apart, SameFiles
<1>7. /\ (\A k, l \in DOMAIN posts : k # l => Posted(k) \cap Posted(l) = {})'
      /\ (uploads >= 1)'
  BY DEF Apart, Posted
<1> QED BY <1>2, <1>3, <1>4, <1>5, <1>6, <1>7 DEF Apart

\* A save that begins has no number yet, and shows what its editor shows.
LEMMA NewSaves ==
    ASSUME SavesStart, NEW i \in DOMAIN tasks' \ DOMAIN tasks
    PROVE  /\ tasks'[i].by \in Editor /\ tasks'[i].snap = ed[tasks'[i].by] /\ canSave(tasks'[i].by)
           /\ tasks'[i].new = <<>> /\ tasks'[i].pc = "upload" /\ tasks'[i].live = TRUE
           /\ tasks'[i].writes = writes /\ tasks'[i].prev = memo
<1>1. PICK e \in Editor : canSave(e) /\ tasks'[i] = Begun(e)
  BY DEF SavesStart, Starts
<1>2. /\ Begun(e).by = e /\ Begun(e).snap = ed[e] /\ Begun(e).new = <<>> /\ Begun(e).pc = "upload"
      /\ Begun(e).live = TRUE /\ Begun(e).prev = memo /\ Begun(e).writes = writes
  BY DEF Begun
<1> QED BY <1>1, <1>2

\* Saves that start hold no number yet.
LEMMA ApartStarts ==
    ASSUME Apart, SavesStart
    PROVE  Apart'
<1> DEFINE more == DOMAIN tasks' \ DOMAIN tasks
<1>1. /\ DOMAIN tasks \subseteq DOMAIN tasks'
      /\ \A i \in DOMAIN tasks : tasks'[i] = tasks[i]
      /\ posts' = posts /\ memo' = memo /\ uploads' = uploads
  BY DEF SavesStart, Starts, Kept
<1>2. \A i \in more : /\ tasks'[i].by \in Editor /\ tasks'[i].snap = ed[tasks'[i].by]
                      /\ ToSet(tasks'[i].new) = {} /\ tasks'[i].pc = "upload"
  BY NewSaves, SeqEmpty
<1>3. \A i \in DOMAIN tasks' : i \in DOMAIN tasks \/ i \in more
  OBVIOUS
<1>4. \A x : x \in EditSide' <=> x \in EditSide
  <2> SUFFICES ASSUME NEW x PROVE x \in EditSide' <=> x \in EditSide
    OBVIOUS
  <2>1. x \in EditSide' <=> x = 1 \/ \E i \in DOMAIN tasks' : tasks'[i].by = "edit" /\ x \in ToSet(tasks'[i].new)
    BY DEF EditSide, Own
  <2>2. x \in EditSide <=> x = 1 \/ \E i \in DOMAIN tasks : tasks[i].by = "edit" /\ x \in ToSet(tasks[i].new)
    BY DEF EditSide, Own
  <2> QED BY <1>1, <1>2, <1>3, <2>1, <2>2
<1>5. \A e \in Editor : ed'[e].attachments = ed[e].attachments
  BY DEF SavesStart, Starts
<1>6. (\A i \in DOMAIN tasks : Own(i) \subseteq 2..uploads /\ (tasks[i].pc = "upload" => Own(i) = {}))'
  <2> SUFFICES ASSUME NEW i \in DOMAIN tasks'
               PROVE  /\ ToSet(tasks'[i].new) \subseteq 2..uploads
                      /\ tasks'[i].pc = "upload" => ToSet(tasks'[i].new) = {}
    BY <1>1 DEF Own
  <2>1. CASE i \in DOMAIN tasks
    BY <1>1, <2>1 DEF Apart, Own
  <2>2. CASE i \in more
    BY <1>2, <2>2
  <2> QED BY <1>3, <2>1, <2>2
<1>7. (\A i, j \in DOMAIN tasks : i # j => Own(i) \cap Own(j) = {})'
  <2> SUFFICES ASSUME NEW i \in DOMAIN tasks', NEW j \in DOMAIN tasks', i # j
               PROVE  ToSet(tasks'[i].new) \cap ToSet(tasks'[j].new) = {}
    BY DEF Own
  <2>1. CASE i \in DOMAIN tasks /\ j \in DOMAIN tasks
    BY <1>1, <2>1 DEF Apart, Own
  <2>2. CASE i \in more \/ j \in more
    BY <1>2, <2>2
  <2> QED BY <1>3, <2>1, <2>2
<1>8. (\A e \in New : ed[e].attachments = <<>>)'
  BY <1>5 DEF Apart, New, Editor
<1>9. (\A i \in DOMAIN tasks : tasks[i].by \in New => tasks[i].snap.attachments = <<>>)'
  BY <1>1, <1>2, <1>3 DEF Apart
<1>10. (ToSet(memo.attachments) \subseteq EditSide /\ ToSet(ed["edit"].attachments) \subseteq EditSide)'
  BY <1>1, <1>4, <1>5 DEF Apart, Editor
<1>11. (\A i \in DOMAIN tasks : tasks[i].by = "edit" => ToSet(tasks[i].snap.attachments) \subseteq EditSide)'
  <2> SUFFICES ASSUME NEW i \in DOMAIN tasks', tasks'[i].by = "edit"
               PROVE  ToSet(tasks'[i].snap.attachments) \subseteq EditSide'
    OBVIOUS
  <2>1. CASE i \in DOMAIN tasks
    BY <1>1, <1>4, <2>1 DEF Apart
  <2>2. CASE i \in more
    BY <1>2, <1>4, <2>2 DEF Apart
  <2> QED BY <1>3, <2>1, <2>2
<1>12. (\A k \in DOMAIN posts : Posted(k) \subseteq
           UNION {Own(i) : i \in {j \in DOMAIN tasks : tasks[j].by \in New /\ tasks[j].pc \in Ended}})'
  <2> SUFFICES ASSUME NEW k \in DOMAIN posts, NEW x \in ToSet(posts[k].attachments)
               PROVE  \E i \in DOMAIN tasks' : /\ tasks'[i].by \in New /\ tasks'[i].pc \in Ended
                                               /\ x \in ToSet(tasks'[i].new)
    BY <1>1 DEF Posted, Own
  <2>1. PICK i \in DOMAIN tasks : /\ tasks[i].by \in New /\ tasks[i].pc \in Ended
                                  /\ x \in ToSet(tasks[i].new)
    BY DEF Apart, Posted, Own
  <2> QED BY <1>1, <2>1
<1>13. (uploads >= 1)' /\ (\A k, l \in DOMAIN posts : k # l => Posted(k) \cap Posted(l) = {})'
  BY <1>1 DEF Apart, Posted
<1> QED BY <1>6, <1>7, <1>8, <1>9, <1>10, <1>11, <1>12, <1>13 DEF Apart

\* The numbers given are new.
LEMMA ApartUploads ==
    ASSUME Apart, uploads \in Nat, NEW i \in DOMAIN tasks, FilesUpload(i)
    PROVE  Apart'
<1> DEFINE N == (uploads + 1)..uploads'
<1>1. /\ DOMAIN tasks' = DOMAIN tasks
      /\ \A j \in DOMAIN tasks : j # i => tasks'[j] = tasks[j]
      /\ tasks'[i].by = tasks[i].by /\ tasks'[i].snap = tasks[i].snap
      /\ tasks[i].pc = "upload" /\ tasks'[i].pc \notin Ended \union {"upload"}
      /\ uploads' \in Nat /\ uploads <= uploads' /\ ToSet(tasks'[i].new) = N
      /\ posts' = posts /\ memo' = memo /\ ed' = ed
  BY DEF FilesUpload, Uploads, Ended
<1>2. ToSet(tasks[i].new) = {} /\ uploads >= 1
  BY <1>1 DEF Apart, Own
<1>3. N \subseteq 2..uploads' /\ N \cap 2..uploads = {} /\ 2..uploads \subseteq 2..uploads'
  BY <1>1, <1>2
<1> HIDE DEF N
<1>4. \A x \in EditSide : x \in EditSide'
  <2> SUFFICES ASSUME NEW x \in EditSide PROVE x \in EditSide'
    OBVIOUS
  <2>1. x \in EditSide' <=> x = 1 \/ \E j \in DOMAIN tasks' : tasks'[j].by = "edit" /\ x \in ToSet(tasks'[j].new)
    BY DEF EditSide, Own
  <2>2. x = 1 \/ \E j \in DOMAIN tasks : tasks[j].by = "edit" /\ x \in ToSet(tasks[j].new)
    BY DEF EditSide, Own
  <2> QED BY <1>1, <1>2, <2>1, <2>2
<1>5. (\A j \in DOMAIN tasks : Own(j) \subseteq 2..uploads /\ (tasks[j].pc = "upload" => Own(j) = {}))'
  BY <1>1, <1>3 DEF Apart, Own
<1>6. (\A j, k \in DOMAIN tasks : j # k => Own(j) \cap Own(k) = {})'
  <2> SUFFICES ASSUME NEW j \in DOMAIN tasks, NEW k \in DOMAIN tasks, j # k
               PROVE  ToSet(tasks'[j].new) \cap ToSet(tasks'[k].new) = {}
    BY <1>1 DEF Own
  <2>1. \A l \in DOMAIN tasks : ToSet(tasks[l].new) \subseteq 2..uploads
    BY DEF Apart, Own
  <2>2. CASE j # i /\ k # i
    BY <1>1, <2>2 DEF Apart, Own
  <2>3. CASE j = i
    BY <1>1, <1>3, <2>1, <2>3
  <2>4. CASE k = i
    BY <1>1, <1>3, <2>1, <2>4
  <2> QED BY <2>2, <2>3, <2>4
<1>7. /\ (\A e \in New : ed[e].attachments = <<>>)'
      /\ (\A j \in DOMAIN tasks : tasks[j].by \in New => tasks[j].snap.attachments = <<>>)'
  BY <1>1 DEF Apart
<1>8. (ToSet(memo.attachments) \subseteq EditSide /\ ToSet(ed["edit"].attachments) \subseteq EditSide)'
  BY <1>1, <1>4 DEF Apart
<1>9. (\A j \in DOMAIN tasks : tasks[j].by = "edit" => ToSet(tasks[j].snap.attachments) \subseteq EditSide)'
  BY <1>1, <1>4 DEF Apart
<1>10. (\A k \in DOMAIN posts : Posted(k) \subseteq
           UNION {Own(j) : j \in {l \in DOMAIN tasks : tasks[l].by \in New /\ tasks[l].pc \in Ended}})'
  <2> SUFFICES ASSUME NEW k \in DOMAIN posts, NEW x \in ToSet(posts[k].attachments)
               PROVE  \E j \in DOMAIN tasks' : /\ tasks'[j].by \in New /\ tasks'[j].pc \in Ended
                                               /\ x \in ToSet(tasks'[j].new)
    BY <1>1 DEF Posted, Own
  <2>1. PICK j \in DOMAIN tasks : /\ tasks[j].by \in New /\ tasks[j].pc \in Ended
                                  /\ x \in ToSet(tasks[j].new)
    BY DEF Apart, Posted, Own
  <2>2. j # i
    BY <1>1, <2>1 DEF Ended
  <2> QED BY <1>1, <2>1, <2>2
<1>11. (uploads >= 1)' /\ (\A k, l \in DOMAIN posts : k # l => Posted(k) \cap Posted(l) = {})'
  <2>1. uploads' >= 1
    BY <1>1, <1>2
  <2> QED BY <1>1, <2>1 DEF Apart, Posted
<1> QED BY <1>5, <1>6, <1>7, <1>8, <1>9, <1>10, <1>11 DEF Apart

\* A post holds the numbers of its save, and those alone.
LEMMA PostedIs ==
    ASSUME Base, Apart, NEW i \in DOMAIN tasks, MemoCreated(i)
    PROVE  LET m == Len(posts) + 1
           IN  /\ DOMAIN posts' = DOMAIN posts \union {m} /\ m \notin DOMAIN posts
               /\ \A k \in DOMAIN posts : posts'[k] = posts[k]
               /\ ToSet(posts'[m].attachments) = ToSet(tasks[i].new)
<1> DEFINE m == Len(posts) + 1
           p == [by |-> tasks[i].by, n |-> tasks[i].snap.n, content |-> tasks[i].snap.content,
                 attachments |-> tasks[i].snap.attachments \o tasks[i].new]
<1>1. /\ DOMAIN posts' = DOMAIN posts \union {m} /\ m \notin DOMAIN posts
      /\ posts'[m] = p /\ \A k \in DOMAIN posts : posts'[k] = posts[k]
  BY EditorsTyped, CreateAppends DEF MemoCreated
<1>2. posts'[m].attachments = tasks[i].snap.attachments \o tasks[i].new
  <2>1. posts'[m].attachments = p.attachments
    BY <1>1
  <2> QED BY <2>1
<1>3. tasks[i].snap.attachments = <<>> /\ tasks[i].new \in Seq(Attachments)
      /\ tasks[i].snap.attachments \in Seq(Attachments)
  BY EditorsTyped DEF Apart, MemoCreated
<1>4. ToSet(posts'[m].attachments) = {} \union ToSet(tasks[i].new)
  BY <1>2, <1>3, SeqUnion, SeqEmpty
<1> QED BY <1>1, <1>4

\* A post takes the numbers of its own save.
LEMMA ApartCreates ==
    ASSUME Base, Apart, NEW i \in DOMAIN tasks, MemoCreated(i)
    PROVE  Apart'
<1> DEFINE m == Len(posts) + 1
<1>1. /\ DOMAIN posts' = DOMAIN posts \union {m} /\ m \notin DOMAIN posts
      /\ \A k \in DOMAIN posts : posts'[k] = posts[k]
      /\ ToSet(posts'[m].attachments) = ToSet(tasks[i].new)
  BY PostedIs
<1> HIDE DEF m
<1>2. SameFiles /\ memo' = memo /\ ed' = ed /\ uploads' = uploads
      /\ tasks[i].by \in New /\ tasks[i].pc = "write" /\ tasks'[i].pc \in Ended
  BY KeptFiles DEF MemoCreated, Moves, Ended
<1>3. \A j \in DOMAIN tasks : /\ tasks'[j].by = tasks[j].by /\ tasks'[j].snap = tasks[j].snap
                              /\ tasks'[j].new = tasks[j].new
                              /\ tasks[j].pc \in Ended => tasks'[j].pc \in Ended
                              /\ tasks'[j].pc = "upload" => tasks[j].pc = "upload"
      /\ DOMAIN tasks' = DOMAIN tasks
  BY <1>2 DEF SameFiles
<1>4. EditSide' = EditSide
  BY <1>3 DEF EditSide, Own
<1>5. (\A j \in DOMAIN tasks : Own(j) \subseteq 2..uploads /\ (tasks[j].pc = "upload" => Own(j) = {}))'
  BY <1>2, <1>3 DEF Apart, Own
<1>6. (\A j, k \in DOMAIN tasks : j # k => Own(j) \cap Own(k) = {})'
  BY <1>3 DEF Apart, Own
<1>7. /\ (\A e \in New : ed[e].attachments = <<>>)'
      /\ (\A j \in DOMAIN tasks : tasks[j].by \in New => tasks[j].snap.attachments = <<>>)'
  BY <1>2, <1>3 DEF Apart
<1>8. (ToSet(memo.attachments) \subseteq EditSide /\ ToSet(ed["edit"].attachments) \subseteq EditSide)'
  BY <1>2, <1>4 DEF Apart
<1>9. (\A j \in DOMAIN tasks : tasks[j].by = "edit" => ToSet(tasks[j].snap.attachments) \subseteq EditSide)'
  BY <1>3, <1>4 DEF Apart
<1>10. \A k \in DOMAIN posts : \A x \in ToSet(posts[k].attachments) : \E j \in DOMAIN tasks :
           tasks[j].by \in New /\ tasks[j].pc \in Ended /\ x \in ToSet(tasks[j].new)
  BY DEF Apart, Posted, Own
<1>11. (\A k \in DOMAIN posts : Posted(k) \subseteq
           UNION {Own(j) : j \in {l \in DOMAIN tasks : tasks[l].by \in New /\ tasks[l].pc \in Ended}})'
  <2> SUFFICES ASSUME NEW k \in DOMAIN posts', NEW x \in ToSet(posts'[k].attachments)
               PROVE  \E j \in DOMAIN tasks' : /\ tasks'[j].by \in New /\ tasks'[j].pc \in Ended
                                               /\ x \in ToSet(tasks'[j].new)
    BY DEF Posted, Own
  <2>1. CASE k \in DOMAIN posts
    BY <1>1, <1>3, <1>10, <2>1
  <2>2. CASE k = m
    BY <1>1, <1>2, <1>3, <2>2
  <2> QED BY <1>1, <2>1, <2>2
<1>12. \A k \in DOMAIN posts : ToSet(posts[k].attachments) \cap ToSet(tasks[i].new) = {}
  <2> SUFFICES ASSUME NEW k \in DOMAIN posts, NEW x \in ToSet(posts[k].attachments),
                      x \in ToSet(tasks[i].new)
               PROVE  FALSE
    OBVIOUS
  <2>1. PICK j \in DOMAIN tasks : tasks[j].pc \in Ended /\ x \in ToSet(tasks[j].new)
    BY <1>10
  <2>2. j # i
    BY <1>2, <2>1 DEF Ended
  <2> QED BY <2>1, <2>2 DEF Apart, Own
<1>13. (\A k, l \in DOMAIN posts : k # l => Posted(k) \cap Posted(l) = {})'
  <2> SUFFICES ASSUME NEW k \in DOMAIN posts', NEW l \in DOMAIN posts', k # l
               PROVE  ToSet(posts'[k].attachments) \cap ToSet(posts'[l].attachments) = {}
    BY DEF Posted
  <2>1. CASE k \in DOMAIN posts /\ l \in DOMAIN posts
    BY <1>1, <2>1 DEF Apart, Posted
  <2>2. CASE (k \in DOMAIN posts /\ l = m) \/ (l \in DOMAIN posts /\ k = m)
    BY <1>1, <1>12, <2>2
  <2> QED BY <1>1, <2>1, <2>2
<1>14. (uploads >= 1)'
  BY <1>2 DEF Apart
<1> QED BY <1>5, <1>6, <1>7, <1>8, <1>9, <1>11, <1>13, <1>14 DEF Apart

\* Apart is kept by every shape.
LEMMA StepApart ==
    ASSUME Base, Apart, StepShapes
    PROVE  Apart'
<1>1. /\ EdTyped
      /\ \A e \in Editor : ed[e].attachments \in Seq(Attachments)
      /\ \A i \in DOMAIN tasks : tasks[i].by \in Editor
  BY EditorsTyped
<1>2. ToSet(<<>>) = {} /\ {} \subseteq EditSide
  BY SeqEmpty
<1>3. \A e \in Editor : e = "edit" \/ e \in New
  BY DEF Editor, New
<1>4. New \subseteq Editor /\ "edit" \in Editor /\ "edit" \notin New /\ "home" \in New
  BY DEF Editor, New
<1>5. /\ ToSet(memo.attachments) \subseteq EditSide /\ ToSet(ed["edit"].attachments) \subseteq EditSide
      /\ \A e \in New : ed[e].attachments = <<>>
  BY DEF Apart
\* Every editor shows what it did, or nothing.
<1>6. ASSUME \A e \in Editor : ed'[e].attachments = ed[e].attachments \/ ed'[e].attachments = <<>>
      PROVE  /\ ToSet(ed'["edit"].attachments) \subseteq EditSide
             /\ \A e \in New : ed'[e].attachments = <<>>
  BY <1>2, <1>4, <1>5, <1>6
<1>7. ASSUME TasksKept \/ tasks' = tasks \/ SameFiles, memo' = memo, uploads' = uploads, posts' = posts,
             \A e \in Editor : ed'[e].attachments = ed[e].attachments \/ ed'[e].attachments = <<>>
      PROVE  Apart'
  <2>1. SameFiles
    BY <1>7, KeptFiles
  <2> QED BY <1>5, <1>6, <1>7, <2>1, ApartKept
<1>8. \A e \in Editor : \A c, b, n : Fresh(ed'[e], c, b, n) => ed'[e].attachments = <<>>
  BY DEF Fresh
<1>9. CASE DraftSaved
  BY <1>7, <1>9 DEF DraftSaved, Kept
<1>10. CASE MemoLoads
  <2>1. ToSet(ed'["edit"].attachments) \subseteq EditSide /\ \A e \in New : ed'[e].attachments = <<>>
    BY <1>4, <1>5, <1>10 DEF MemoLoads, Loads
  <2>2. SameFiles
    BY <1>10, KeptFiles DEF MemoLoads
  <2> QED BY <1>5, <1>10, <2>1, <2>2, ApartKept DEF MemoLoads, Kept
<1>11. CASE LoadLost
  BY <1>7, <1>11 DEF LoadLost, Flagged, Kept
<1>12. CASE PageChanges
  <2>1. \A e \in Editor : ed'[e].attachments = <<>>
    BY <1>8, <1>12 DEF PageChanges, NewPage
  <2> QED BY <1>7, <1>12, <2>1 DEF PageChanges, NewPage, Kept
<1>13. CASE SavesStart
  BY <1>13, ApartStarts
<1>14. CASE Elsewhere
  <2>1. SameFiles
    BY <1>14, KeptFiles DEF Elsewhere
  <2> QED BY <1>5, <1>14, <2>1, ApartKept DEF Elsewhere
<1>15. ASSUME NEW e \in Editor, EditorOpens(e)
       PROVE  Apart'
  <2>1. \A x \in Editor : ed'[x].attachments = ed[x].attachments \/ ed'[x].attachments = <<>>
    BY <1>8, <1>15 DEF EditorOpens, Opens
  <2> QED BY <1>7, <1>15, <2>1 DEF EditorOpens, Kept
<1>16. ASSUME NEW e \in Editor, EditorCloses(e)
       PROVE  Apart'
  <2>1. \A x \in Editor : ed'[x].attachments = ed[x].attachments \/ ed'[x].attachments = <<>>
    BY <1>8, <1>16 DEF EditorCloses, Closes
  <2> QED BY <1>7, <1>16, <2>1 DEF EditorCloses, Kept
<1>17. ASSUME NEW e \in Editor, EditorChanges(e)
       PROVE  Apart'
  <2>1. PICK s \in EditorState : Edits(e, s)
    BY <1>17 DEF EditorChanges
  <2>2. /\ ed' = [ed EXCEPT ![e] = s] /\ ToSet(s.attachments) \subseteq ToSet(ed[e].attachments)
    BY <2>1 DEF Edits, Reduce
  <2>3. ed'[e] = s /\ \A x \in Editor : x # e => ed'[x] = ed[x]
    BY <1>1, <2>2 DEF EdTyped
  <2>4. s.attachments \in Seq(Attachments)
    BY DEF EditorState
  <2>5. e \in New => s.attachments = <<>>
    BY <1>2, <1>5, <2>2, <2>4, SeqEmpty
  <2>6. \A x \in New : ed'[x].attachments = <<>>
    BY <1>4, <1>5, <2>3, <2>5
  <2>7. ToSet(ed'["edit"].attachments) \subseteq EditSide
    BY <1>4, <1>5, <2>2, <2>3
  <2>8. SameFiles
    BY <1>17, KeptFiles DEF EditorChanges
  <2> QED BY <1>5, <1>17, <2>6, <2>7, <2>8, ApartKept DEF EditorChanges
<1>18. ASSUME NEW i \in DOMAIN tasks, FilesUpload(i)
       PROVE  Apart'
  BY <1>18, ApartUploads DEF Base, TypeOK
<1>19. ASSUME NEW i \in DOMAIN tasks, ReadsAgain(i)
       PROVE  Apart'
  <2>1. SameFiles
    BY <1>19 DEF ReadsAgain, Reads, SameFiles, Ended
  <2>2. ed' = ed \/ Closes("edit")
    BY <1>1, <1>4, <1>19, ClosedCloses DEF ReadsAgain, Reads
  <2>3. \A x \in Editor : ed'[x].attachments = ed[x].attachments \/ ed'[x].attachments = <<>>
    BY <1>8, <2>2 DEF Closes
  <2> QED BY <1>7, <1>19, <2>1, <2>3 DEF ReadsAgain, Kept
<1>20. ASSUME NEW i \in DOMAIN tasks, MemoUpdates(i)
       PROVE  Apart'
  <2>1. SameFiles
    BY <1>20, KeptFiles DEF MemoUpdates, Moves
  <2>2. ToSet(tasks[i].snap.attachments) \subseteq EditSide /\ ToSet(tasks[i].new) \subseteq EditSide
    BY <1>20, EditSideIs DEF Apart, MemoUpdates, Own
  <2>3. ToSet(tasks[i].snap.attachments \o tasks[i].new)
          = ToSet(tasks[i].snap.attachments) \union ToSet(tasks[i].new)
    BY EditorsTyped, SeqUnion
  <2>4. ToSet(memo'.attachments) \subseteq EditSide
    BY <1>5, <1>20, <2>2, <2>3 DEF MemoUpdates, Updates
  <2> QED BY <1>5, <1>20, <2>1, <2>4, ApartKept DEF MemoUpdates
<1>21. ASSUME NEW i \in DOMAIN tasks, MemoCreated(i)
       PROVE  Apart'
  BY <1>21, ApartCreates
<1>22. ASSUME NEW i \in DOMAIN tasks, DraftClears(i)
       PROVE  Apart'
  BY <1>7, <1>22 DEF DraftClears, Moves, Kept
<1>23. ASSUME NEW i \in DOMAIN tasks, SaveEnds(i)
       PROVE  Apart'
  <2>1. \A x \in Editor : ed'[x].attachments = ed[x].attachments \/ ed'[x].attachments = <<>>
    BY <1>1, <1>4, <1>8, <1>23 DEF SaveEnds, Resets, Empties, Closes
  <2> QED BY <1>7, <1>23, <2>1 DEF SaveEnds, Resets, Kept
<1>24. ASSUME NEW i \in DOMAIN tasks, SaveLost(i)
       PROVE  Apart'
  <2>1. \A x \in Editor : ed'[x].attachments = ed[x].attachments
    BY <1>24 DEF SaveLost, Flagged
  <2> QED BY <1>7, <1>24, <2>1 DEF SaveLost, Moves, Kept
<1> QED BY <1>9, <1>10, <1>11, <1>12, <1>13, <1>14, <1>15, <1>16, <1>17, <1>18, <1>19, <1>20, <1>21,
           <1>22, <1>23, <1>24 DEF StepShapes

\* The editors at the start.
LEMMA InitEditors ==
    ASSUME Init
    PROVE  \A e \in Editor : /\ ed[e].attachments = <<>> /\ ed[e].seen = 0 /\ ed[e].content = ""
                             /\ e # "home" => ed[e].live = FALSE
<1> DEFINE s == initialState
           E == [e \in Editor |-> s]
           h == [s EXCEPT !.live = TRUE, !.n = 1, !.visibility = "public"]
<1>1. /\ s \in EditorState /\ s.attachments = <<>> /\ s.seen = 0 /\ s.content = "" /\ s.live = FALSE
      /\ "home" \in Editor
  BY InitialTyped DEF Editor
<1>2. h.attachments = <<>> /\ h.seen = 0 /\ h.content = ""
  <2> HIDE DEF s
  <2> QED BY <1>1 DEF EditorState
<1>3. ed = [E EXCEPT !["home"] = h]
  <2>1. ed = [E EXCEPT !["home"].live = TRUE, !["home"].n = 1, !["home"].visibility = "public"]
    BY DEF Init
  <2>2. E \in [Editor -> EditorState] /\ E["home"] = s
    BY <1>1
  <2> HIDE DEF s, E
  <2> QED BY <1>1, <2>1, <2>2
<1> HIDE DEF h, s
<1> QED BY <1>1, <1>2, <1>3

\* Apart holds at the start.
LEMMA InitApart == Init => Apart
<1> SUFFICES ASSUME Init PROVE Apart
  OBVIOUS
<1>1. DOMAIN tasks = {} /\ DOMAIN posts = {} /\ uploads = 1
  BY InitEmpty
<1>2. memo.attachments = <<1>>
  <2>1. memo = [content |-> "a", visibility |-> "public", attachments |-> <<1>>, extra |-> "plain",
                time |-> 0]
    BY DEF Init
  <2> QED BY <2>1
<1>3. ToSet(memo.attachments) = {1}
  BY <1>2 DEF ToSet
<1>4. \A e \in Editor : ed[e].attachments = <<>>
  BY InitEditors
<1>5. ToSet(<<>>) = {} /\ New \subseteq Editor /\ "edit" \in Editor
  BY SeqEmpty DEF New, Editor
<1> QED BY <1>1, <1>3, <1>4, <1>5 DEF Apart, EditSide

-----------------------------------------------------------------------------
(***************************************************************************)
(* Every file uploaded is accounted for                                    *)
(***************************************************************************)

\* Seen is kept by every shape.
LEMMA StepSeen ==
    ASSUME Base, Seen, StepShapes
    PROVE  Seen'
<1>1. /\ EdTyped /\ writes \in Nat /\ "edit" \in Editor
      /\ ed["edit"].seen \in Nat
      /\ \A i \in DOMAIN tasks : tasks[i].snap.seen \in Nat /\ tasks[i].writes \in Nat
  BY EditorsTyped DEF Base, TypeOK, Editor
<1>2. ASSUME TasksKept, CopiesKept, writes' \in Nat, writes <= writes',
             ed'["edit"].seen \in {0, ed["edit"].seen, writes}
      PROVE  Seen'
  <2>1. ed'["edit"].seen <= writes'
    BY <1>1, <1>2 DEF Seen
  <2>2. ASSUME NEW i \in DOMAIN tasks', tasks'[i].by = "edit"
        PROVE  tasks'[i].snap.seen <= tasks'[i].writes /\ tasks'[i].writes <= writes'
    <3>1. /\ i \in DOMAIN tasks /\ tasks[i].by = "edit" /\ tasks'[i].snap = tasks[i].snap
          /\ tasks'[i].writes = tasks[i].writes
      BY <1>2, <2>2 DEF TasksKept, KeptTask, CopiesKept
    <3> QED BY <1>1, <1>2, <3>1 DEF Seen
  <2> QED BY <2>1, <2>2 DEF Seen
<1>3. tasks' = tasks => TasksKept /\ CopiesKept
  BY SameTasks DEF Base, TypeOK
<1>4. \A c, b, n : Fresh(ed'["edit"], c, b, n) => ed'["edit"].seen = 0
  BY DEF Fresh
<1>5. CASE DraftSaved \/ LoadLost \/ MemoLoads
  BY <1>1, <1>2, <1>3, <1>5 DEF DraftSaved, LoadLost, MemoLoads, Loads, Flagged, Kept
<1>6. CASE PageChanges
  <2>1. ed'["edit"].seen = 0
    BY <1>1, <1>4, <1>6 DEF PageChanges, NewPage
  <2>2. TasksKept /\ CopiesKept /\ writes' = writes
    BY <1>6 DEF PageChanges, NewPage, Kept
  <2> QED BY <1>1, <1>2, <2>1, <2>2
<1>7. CASE SavesStart
  <2>1. /\ \A i \in DOMAIN tasks : tasks'[i] = tasks[i]
        /\ ed'["edit"].seen = ed["edit"].seen /\ writes' = writes
    BY <1>1, <1>7 DEF SavesStart, Starts, Kept
  <2>2. \A i \in DOMAIN tasks' \ DOMAIN tasks :
            tasks'[i].snap = ed[tasks'[i].by] /\ tasks'[i].writes = writes
    BY <1>7, NewSaves
  <2>3. ASSUME NEW i \in DOMAIN tasks', tasks'[i].by = "edit"
        PROVE  tasks'[i].snap.seen <= tasks'[i].writes /\ tasks'[i].writes <= writes'
    <3>1. CASE i \in DOMAIN tasks
      BY <2>1, <2>3, <3>1 DEF Seen
    <3>2. CASE i \notin DOMAIN tasks
      <4>1. tasks'[i].snap.seen = ed["edit"].seen /\ tasks'[i].writes = writes
        BY <2>2, <2>3, <3>2
      <4> QED BY <1>1, <2>1, <4>1 DEF Seen
    <3> QED BY <3>1, <3>2
  <2> QED BY <2>1, <2>3 DEF Seen
<1>8. CASE Elsewhere
  BY <1>1, <1>2, <1>3, <1>8 DEF Elsewhere
<1>9. ASSUME NEW e \in Editor, EditorOpens(e) \/ EditorCloses(e)
      PROVE  Seen'
  <2>1. ed'["edit"].seen \in {0, ed["edit"].seen}
    BY <1>1, <1>4, <1>9 DEF EditorOpens, Opens, EditorCloses, Closes
  <2>2. TasksKept /\ CopiesKept /\ writes' = writes
    BY <1>3, <1>9 DEF EditorOpens, EditorCloses, Kept
  <2> QED BY <1>1, <1>2, <2>1, <2>2
<1>10. ASSUME NEW e \in Editor, EditorChanges(e)
       PROVE  Seen'
  <2>1. PICK s \in EditorState : Edits(e, s)
    BY <1>10 DEF EditorChanges
  <2>2. ed' = [ed EXCEPT ![e] = s] /\ s.seen = ed[e].seen
    BY <2>1 DEF Edits, Reduce
  <2>3. ed'["edit"].seen = ed["edit"].seen
    BY <1>1, <2>2 DEF EdTyped
  <2> QED BY <1>1, <1>2, <1>3, <1>10, <2>3 DEF EditorChanges
<1>11. ASSUME NEW i \in DOMAIN tasks, FilesUpload(i)
       PROVE  Seen'
  BY <1>11 DEF FilesUpload, Uploads, Seen
<1>12. ASSUME NEW i \in DOMAIN tasks, ReadsAgain(i)
       PROVE  Seen'
  <2>1. ed' = ed \/ Closes("edit")
    BY <1>1, <1>12, ClosedCloses DEF ReadsAgain, Reads
  <2>2. ed'["edit"].seen \in {0, ed["edit"].seen}
    BY <1>4, <2>1 DEF Closes
  <2>3. ed'["edit"].seen <= writes
    BY <1>1, <2>2 DEF Seen
  <2>4. /\ DOMAIN tasks' = DOMAIN tasks /\ writes' = writes
        /\ \A j \in DOMAIN tasks : j # i => tasks'[j] = tasks[j]
        /\ tasks'[i].by = tasks[i].by /\ tasks'[i].snap = tasks[i].snap /\ tasks'[i].writes = writes
    BY <1>12 DEF ReadsAgain, Reads, Kept
  <2>5. ASSUME NEW j \in DOMAIN tasks, tasks'[j].by = "edit"
        PROVE  tasks'[j].snap.seen <= tasks'[j].writes /\ tasks'[j].writes <= writes'
    <3>1. CASE j # i
      BY <2>4, <2>5, <3>1 DEF Seen
    <3>2. CASE j = i
      <4>1. tasks[i].snap.seen <= tasks[i].writes /\ tasks[i].writes <= writes
        BY <2>4, <2>5, <3>2 DEF Seen
      <4> QED BY <1>1, <2>4, <3>2, <4>1
    <3> QED BY <3>1, <3>2
  <2> QED BY <2>3, <2>4, <2>5 DEF Seen
<1>13. ASSUME NEW i \in DOMAIN tasks, MemoUpdates(i) \/ MemoCreated(i) \/ DraftClears(i)
       PROVE  Seen'
  <2>1. /\ TasksKept /\ CopiesKept /\ ed' = ed
        /\ writes' = writes \/ writes' = writes + 1
    BY <1>13 DEF MemoUpdates, MemoCreated, DraftClears, Moves, Kept
  <2> QED BY <1>1, <1>2, <2>1
<1>14. ASSUME NEW i \in DOMAIN tasks, SaveEnds(i) \/ SaveLost(i)
       PROVE  Seen'
  <2>1. TasksKept /\ CopiesKept /\ writes' = writes
    BY <1>14 DEF SaveEnds, SaveLost, Resets, Moves, Kept
  <2>2. ed'["edit"].seen \in {0, ed["edit"].seen}
    BY <1>1, <1>4, <1>14 DEF SaveEnds, SaveLost, Resets, Empties, Closes, Flagged
  <2> QED BY <1>1, <1>2, <2>1, <2>2
<1> QED BY <1>5, <1>6, <1>7, <1>8, <1>9, <1>10, <1>11, <1>12, <1>13, <1>14 DEF StepShapes

\* Linked, element by element.
LEMMA LinkedIs ==
    \A x : x \in Linked <=> \/ x \in ToSet(memo.attachments)
                            \/ \E k \in DOMAIN posts : x \in ToSet(posts[k].attachments)
BY DEF Linked

EditorTraced ==
    ed["edit"].live /\ ~ed["edit"].loading /\ ed["edit"].seen = writes =>
        ToSet(memo.attachments) \subseteq ToSet(ed["edit"].attachments) \union gone

SavesTraced ==
    \A i \in DOMAIN tasks : tasks[i].by = "edit" /\ tasks[i].snap.seen = writes =>
        ToSet(memo.attachments) \subseteq ToSet(tasks[i].snap.attachments) \union gone

\* Traced in three parts: the editor, its saves, and the numbers.
LEMMA TracedParts ==
    Traced <=> /\ EditorTraced /\ SavesTraced
               /\ \A i \in DOMAIN tasks : tasks[i].pc \in Ended => Own(i) \subseteq Linked \union gone
               /\ 1 \in Linked \union gone
               /\ \A n \in 2..uploads : \E i \in DOMAIN tasks : n \in Own(i)
BY DEF Traced, EditorTraced, SavesTraced

\* A step that ends no save but i, whose numbers are part of a memo after it.
LEMMA TracedKept ==
    ASSUME Traced, SameFiles, uploads' = uploads, EditorTraced', SavesTraced',
           Linked \union gone \subseteq Linked' \union gone',
           \A i \in DOMAIN tasks : /\ tasks'[i].pc \in Ended
                                   /\ tasks[i].pc \notin Ended
                                   => ToSet(tasks[i].new) \subseteq Linked' \union gone'
    PROVE  Traced'
<1>1. \A i \in DOMAIN tasks : ToSet(tasks'[i].new) = ToSet(tasks[i].new)
  BY DEF SameFiles
<1>2. (\A i \in DOMAIN tasks : tasks[i].pc \in Ended => Own(i) \subseteq Linked \union gone)'
  <2> SUFFICES ASSUME NEW i \in DOMAIN tasks, tasks'[i].pc \in Ended
               PROVE  ToSet(tasks[i].new) \subseteq Linked' \union gone'
    BY <1>1 DEF SameFiles, Own
  <2>1. CASE tasks[i].pc \in Ended
    BY <2>1 DEF Traced, Own
  <2>2. CASE tasks[i].pc \notin Ended
    BY <2>2
  <2> QED BY <2>1, <2>2
<1>3. (1 \in Linked \union gone)'
  BY DEF Traced
<1>4. (\A n \in 2..uploads : \E i \in DOMAIN tasks : n \in Own(i))'
  BY <1>1 DEF Traced, SameFiles, Own
<1>5. (EditorTraced /\ SavesTraced)'
  OBVIOUS
<1> QED BY <1>2, <1>3, <1>4, <1>5, TracedParts, PTL

\* The same, of a step after which the memos are as before it.
LEMMA TracedQuiet ==
    ASSUME Traced, TasksKept \/ tasks' = tasks \/ SameFiles,
           memo'.attachments = memo.attachments, posts' = posts,
           writes' = writes, uploads' = uploads, gone \subseteq gone',
           \A i \in DOMAIN tasks : /\ tasks'[i].pc \in Ended
                                   /\ tasks[i].pc \notin Ended
                                   => ToSet(tasks[i].new) \subseteq Linked' \union gone',
           \/ ed'["edit"].live = FALSE \/ ed'["edit"].loading = TRUE
           \/ /\ ed'["edit"].live = ed["edit"].live /\ ed'["edit"].loading = ed["edit"].loading
              /\ ed'["edit"].seen = ed["edit"].seen
              /\ ToSet(ed["edit"].attachments) \subseteq ToSet(ed'["edit"].attachments) \union gone'
           \/ ToSet(memo.attachments) \subseteq ToSet(ed'["edit"].attachments)
    PROVE  Traced'
<1>1. SameFiles
  BY KeptFiles
<1>2. EditorTraced'
  BY TracedParts DEF EditorTraced
<1>3. SavesTraced'
  BY <1>1, TracedParts DEF SavesTraced, SameFiles
<1>4. Linked \union gone \subseteq Linked' \union gone'
  BY DEF Linked
<1> QED BY <1>1, <1>2, <1>3, <1>4, TracedKept

\* A save starts with what its editor shows.
LEMMA TracedStarts ==
    ASSUME Base, Traced, SavesStart
    PROVE  Traced'
<1> DEFINE more == DOMAIN tasks' \ DOMAIN tasks
<1>1. /\ DOMAIN tasks \subseteq DOMAIN tasks'
      /\ \A i \in DOMAIN tasks : tasks'[i] = tasks[i]
      /\ posts' = posts /\ memo' = memo /\ uploads' = uploads /\ writes' = writes /\ gone' = gone
  BY DEF SavesStart, Starts, Kept
<1>2. \A i \in more : /\ tasks'[i].snap = ed[tasks'[i].by] /\ canSave(tasks'[i].by)
                      /\ tasks'[i].pc \notin Ended
  BY NewSaves DEF Ended
<1>3. \A i \in DOMAIN tasks' : i \in DOMAIN tasks \/ i \in more
  OBVIOUS
<1>4. /\ ed'["edit"].attachments = ed["edit"].attachments /\ ed'["edit"].live = ed["edit"].live
      /\ ed'["edit"].seen = ed["edit"].seen /\ ed'["edit"].loading = ed["edit"].loading
  BY DEF SavesStart, Starts, Editor
<1>5. EditorTraced'
  BY <1>1, <1>4, TracedParts DEF EditorTraced
<1>6. SavesTraced'
  <2> SUFFICES ASSUME NEW i \in DOMAIN tasks', tasks'[i].by = "edit", tasks'[i].snap.seen = writes
               PROVE  ToSet(memo.attachments) \subseteq ToSet(tasks'[i].snap.attachments) \union gone
    BY <1>1 DEF SavesTraced
  <2>1. CASE i \in DOMAIN tasks
    BY <1>1, <2>1, TracedParts DEF SavesTraced
  <2>2. CASE i \in more
    <3>1. tasks'[i].snap = ed["edit"] /\ ed["edit"].live /\ ~ed["edit"].loading
      BY <1>2, <2>2 DEF canSave
    <3> QED BY <3>1, TracedParts DEF EditorTraced
  <2> QED BY <1>3, <2>1, <2>2
<1>7. (\A i \in DOMAIN tasks : tasks[i].pc \in Ended => Own(i) \subseteq Linked \union gone)'
  <2> SUFFICES ASSUME NEW i \in DOMAIN tasks', tasks'[i].pc \in Ended
               PROVE  ToSet(tasks'[i].new) \subseteq Linked \union gone
    BY <1>1 DEF Own, Linked
  <2>1. i \in DOMAIN tasks
    BY <1>2, <1>3
  <2> QED BY <1>1, <2>1 DEF Traced, Own
<1>8. (1 \in Linked \union gone)'
  BY <1>1 DEF Traced, Linked
<1>9. (\A n \in 2..uploads : \E i \in DOMAIN tasks : n \in Own(i))'
  BY <1>1 DEF Traced, Own
<1> QED BY <1>5, <1>6, <1>7, <1>8, <1>9, TracedParts, PTL

\* New numbers are under way.
LEMMA TracedUploads ==
    ASSUME Base, Apart, Traced, NEW u \in DOMAIN tasks, FilesUpload(u)
    PROVE  Traced'
<1>1. /\ DOMAIN tasks' = DOMAIN tasks
      /\ \A i \in DOMAIN tasks : i # u => tasks'[i] = tasks[i]
      /\ tasks'[u].by = tasks[u].by /\ tasks'[u].snap = tasks[u].snap
      /\ tasks[u].pc = "upload" /\ tasks'[u].pc \notin Ended
      /\ ToSet(tasks'[u].new) = (uploads + 1)..uploads'
      /\ posts' = posts /\ memo' = memo /\ ed' = ed /\ gone' = gone /\ writes' = writes
  BY DEF FilesUpload, Uploads, Ended
<1>2. uploads' \in Nat /\ uploads <= uploads'
  BY DEF FilesUpload, Uploads
<1>3. ToSet(tasks[u].new) = {} /\ uploads \in Nat
  BY <1>1 DEF Apart, Own, Base, TypeOK
<1>4. (EditorTraced /\ SavesTraced)'
  BY <1>1, TracedParts DEF EditorTraced, SavesTraced
<1>5. (\A i \in DOMAIN tasks : tasks[i].pc \in Ended => Own(i) \subseteq Linked \union gone)'
  <2> SUFFICES ASSUME NEW i \in DOMAIN tasks, tasks'[i].pc \in Ended
               PROVE  ToSet(tasks'[i].new) \subseteq Linked \union gone
    BY <1>1 DEF Own, Linked
  <2>1. i # u
    BY <1>1
  <2> QED BY <1>1, <2>1 DEF Traced, Own
<1>6. (1 \in Linked \union gone)'
  BY <1>1 DEF Traced, Linked
<1>7. (\A n \in 2..uploads : \E i \in DOMAIN tasks : n \in Own(i))'
  <2> SUFFICES ASSUME NEW n \in 2..uploads'
               PROVE  \E i \in DOMAIN tasks : n \in ToSet(tasks'[i].new)
    BY <1>1 DEF Own
  <2>1. CASE n <= uploads
    <3>1. n \in 2..uploads
      BY <1>2, <1>3, <2>1
    <3>2. PICK i \in DOMAIN tasks : n \in ToSet(tasks[i].new)
      BY <3>1 DEF Traced, Own
    <3>3. i # u
      BY <1>3, <3>2
    <3> QED BY <1>1, <3>2, <3>3
  <2>2. CASE ~(n <= uploads)
    <3>1. n \in (uploads + 1)..uploads'
      BY <1>2, <1>3, <2>2
    <3> QED BY <1>1, <3>1
  <2> QED BY <2>1, <2>2
<1> QED BY <1>4, <1>5, <1>6, <1>7, TracedParts, PTL

\* The memo is written: no editor and no save has loaded this writing.
LEMMA WritingTraced ==
    ASSUME Base, Seen, writes' = writes + 1, SameFiles,
           ed'["edit"].seen = ed["edit"].seen
    PROVE  EditorTraced' /\ SavesTraced'
<1>1. /\ writes \in Nat /\ ed["edit"].seen \in Nat
      /\ \A i \in DOMAIN tasks : tasks[i].snap.seen \in Nat /\ tasks[i].writes \in Nat
  BY EditorsTyped DEF Base, TypeOK, Editor
<1>2. ed'["edit"].seen # writes'
  BY <1>1 DEF Seen
<1>3. \A i \in DOMAIN tasks : tasks[i].by = "edit" => tasks[i].snap.seen # writes'
  BY <1>1 DEF Seen
<1> QED BY <1>2, <1>3 DEF EditorTraced, SavesTraced, SameFiles

\* The update leaves its own numbers in the memo.
LEMMA TracedUpdates ==
    ASSUME Base, Copies, Seen, Traced, NEW i \in DOMAIN tasks, MemoUpdates(i), ~crossed'
    PROVE  Traced'
<1> DEFINE t == tasks[i]
           q == t.snap.attachments \o t.new
<1>1. SameFiles /\ uploads' = uploads /\ gone' = gone /\ posts' = posts /\ ed' = ed
      /\ writes' = writes + 1
  BY KeptFiles DEF MemoUpdates, Moves
<1>2. t.snap.seen = writes /\ t.by = "edit"
  BY DEF MemoUpdates
<1>3. /\ writes \in Nat /\ t.snap.seen \in Nat /\ t.writes \in Nat
      /\ t.snap.attachments \in Seq(Attachments) /\ t.new \in Seq(Attachments)
  BY EditorsTyped DEF Base, TypeOK
<1>4. t.snap.seen <= t.writes /\ t.writes <= writes
  BY <1>2 DEF Seen
<1>5. t.writes = writes
  <2> HIDE DEF t
  <2> QED BY <1>2, <1>3, <1>4
<1>6. memo'.attachments = q
  BY <1>5 DEF MemoUpdates, Updates, Copies
<1>7. ToSet(memo'.attachments) = ToSet(t.snap.attachments) \union ToSet(t.new)
  BY <1>3, <1>6, SeqUnion
<1>8. ToSet(memo.attachments) \subseteq ToSet(t.snap.attachments) \union gone
  BY <1>2, TracedParts DEF SavesTraced
<1>9. Linked \union gone \subseteq Linked' \union gone'
  BY <1>1, <1>7, <1>8 DEF Linked
<1>10. \A j \in DOMAIN tasks : /\ tasks'[j].pc \in Ended
                               /\ tasks[j].pc \notin Ended
                               => ToSet(tasks[j].new) \subseteq Linked' \union gone'
  <2> SUFFICES ASSUME NEW j \in DOMAIN tasks, tasks'[j].pc \in Ended, tasks[j].pc \notin Ended
               PROVE  ToSet(tasks[j].new) \subseteq Linked'
    OBVIOUS
  <2>1. j = i
    BY DEF MemoUpdates, Moves
  <2> QED BY <1>7, <2>1 DEF Linked
<1>11. EditorTraced' /\ SavesTraced'
  BY <1>1, WritingTraced
<1> QED BY <1>1, <1>9, <1>10, <1>11, TracedKept

\* A post holds the numbers of its save.
LEMMA TracedCreates ==
    ASSUME Base, Apart, Traced, NEW i \in DOMAIN tasks, MemoCreated(i)
    PROVE  Traced'
<1> DEFINE m == Len(posts) + 1
<1>1. /\ DOMAIN posts' = DOMAIN posts \union {m} /\ m \notin DOMAIN posts
      /\ \A k \in DOMAIN posts : posts'[k] = posts[k]
      /\ ToSet(posts'[m].attachments) = ToSet(tasks[i].new)
  BY PostedIs
<1> HIDE DEF m
<1>2. /\ SameFiles /\ uploads' = uploads /\ gone' = gone /\ memo' = memo /\ ed' = ed /\ writes' = writes
      /\ \A j \in DOMAIN tasks : j # i => tasks'[j] = tasks[j]
  BY KeptFiles DEF MemoCreated, Moves
<1>3. \A k \in DOMAIN posts : k \in DOMAIN posts' /\ posts'[k] = posts[k]
  BY <1>1
<1>4. \A x \in Linked : x \in Linked'
  <2> SUFFICES ASSUME NEW x \in Linked PROVE x \in Linked'
    OBVIOUS
  <2>1. x \in Linked' <=> \/ x \in ToSet(memo'.attachments)
                          \/ \E k \in DOMAIN posts' : x \in ToSet(posts'[k].attachments)
    BY DEF Linked
  <2>2. CASE x \in ToSet(memo.attachments)
    BY <1>2, <2>1, <2>2
  <2>3. CASE \E k \in DOMAIN posts : x \in ToSet(posts[k].attachments)
    BY <1>3, <2>1, <2>3
  <2> QED BY <2>2, <2>3, LinkedIs
<1>5. ToSet(tasks[i].new) \subseteq Linked'
  <2>1. m \in DOMAIN posts'
    BY <1>1
  <2>2. \A x \in ToSet(posts'[m].attachments) : x \in Linked'
    BY <2>1 DEF Linked
  <2> QED BY <1>1, <2>2
<1>6. \A j \in DOMAIN tasks : /\ tasks'[j].pc \in Ended
                              /\ tasks[j].pc \notin Ended
                              => ToSet(tasks[j].new) \subseteq Linked' \union gone'
  BY <1>2, <1>5
<1>7. EditorTraced'
  BY <1>2, TracedParts DEF EditorTraced
<1>8. SavesTraced'
  BY <1>2, TracedParts DEF SavesTraced, SameFiles
<1> QED BY <1>2, <1>4, <1>6, <1>7, <1>8, TracedKept

\* Accounted is kept by every shape.
LEMMA StepAccounted ==
    ASSUME Base, Copies, Seen, Apart, Accounted, StepShapes
    PROVE  Accounted'
<1> SUFFICES ASSUME faults' = 0, ~crossed' PROVE Traced'
  BY DEF Accounted
<1>1. ~crossed
  BY DEF StepShapes, DraftSaved, MemoLoads, LoadLost, PageChanges, SavesStart, Elsewhere, EditorOpens,
         EditorCloses, EditorChanges, FilesUpload, ReadsAgain, MemoUpdates, MemoCreated, DraftClears,
         SaveEnds, SaveLost, Kept
<1>2. faults' = faults => Traced
  BY <1>1 DEF Accounted
<1>3. EdTyped /\ "edit" \in Editor
  BY EditorsTyped DEF Editor
<1>4. \A c, n : Fresh(ed'["edit"], c, FALSE, n) => ed'["edit"].live = FALSE
  BY DEF Fresh
<1>5. ASSUME ed'["edit"] = ed["edit"]
      PROVE  /\ ed'["edit"].live = ed["edit"].live /\ ed'["edit"].loading = ed["edit"].loading
             /\ ed'["edit"].seen = ed["edit"].seen
             /\ ToSet(ed["edit"].attachments) \subseteq ToSet(ed'["edit"].attachments) \union gone'
  BY <1>5
<1>6. tasks' = tasks => \A i \in DOMAIN tasks : ~(tasks'[i].pc \in Ended /\ tasks[i].pc \notin Ended)
  OBVIOUS
<1>7. CASE DraftSaved
  BY <1>2, <1>5, <1>6, <1>7, TracedQuiet DEF DraftSaved, Kept
<1>8. CASE MemoLoads
  <2>1. ed'["edit"].attachments = memo.attachments
    BY <1>8 DEF MemoLoads, Loads
  <2>2. ToSet(memo.attachments) \subseteq ToSet(ed'["edit"].attachments)
    BY <2>1
  <2>3. /\ Traced /\ tasks' = tasks /\ memo' = memo /\ posts' = posts /\ writes' = writes
        /\ uploads' = uploads /\ gone' = gone
    BY <1>2, <1>8 DEF MemoLoads, Kept
  <2> QED BY <1>6, <2>2, <2>3, TracedQuiet
<1>9. CASE PageChanges
  <2>1. ed'["edit"].live = FALSE
    BY <1>3, <1>4, <1>9 DEF PageChanges, NewPage
  <2>2. /\ Traced /\ TasksKept /\ memo' = memo /\ posts' = posts /\ writes' = writes
        /\ uploads' = uploads /\ gone' = gone
    BY <1>2, <1>9 DEF PageChanges, NewPage, Kept
  <2>3. \A i \in DOMAIN tasks : tasks'[i].pc = tasks[i].pc
    BY <1>9 DEF PageChanges
  <2> QED BY <2>1, <2>2, <2>3, TracedQuiet
<1>10. CASE SavesStart
  BY <1>2, <1>10, TracedStarts DEF SavesStart
<1>11. CASE Elsewhere
  <2>1. SameFiles
    BY <1>11, KeptFiles DEF Elsewhere
  <2>2. EditorTraced' /\ SavesTraced'
    BY <1>11, <2>1, WritingTraced DEF Elsewhere
  <2>3. Linked \union gone \subseteq Linked' \union gone'
    BY <1>11 DEF Elsewhere, Linked
  <2> QED BY <1>2, <1>6, <1>11, <2>1, <2>2, <2>3, TracedKept DEF Elsewhere
<1>12. ASSUME NEW e \in Editor, EditorOpens(e)
       PROVE  Traced'
  <2>1. ed'["edit"].loading = TRUE \/ ed'["edit"] = ed["edit"]
    BY <1>3, <1>12 DEF EditorOpens, Opens
  <2>2. /\ Traced /\ tasks' = tasks /\ memo' = memo /\ posts' = posts /\ writes' = writes
        /\ uploads' = uploads /\ gone' = gone
    BY <1>2, <1>12 DEF EditorOpens, Kept
  <2> QED BY <1>5, <1>6, <2>1, <2>2, TracedQuiet
<1>13. ASSUME NEW e \in Editor, EditorCloses(e)
       PROVE  Traced'
  <2>1. ed'["edit"].live = FALSE \/ ed'["edit"] = ed["edit"]
    BY <1>3, <1>4, <1>13 DEF EditorCloses, Closes
  <2>2. /\ Traced /\ TasksKept /\ memo' = memo /\ posts' = posts /\ writes' = writes
        /\ uploads' = uploads /\ gone' = gone
        /\ \A i \in DOMAIN tasks : tasks'[i].pc = tasks[i].pc
    BY <1>2, <1>13 DEF EditorCloses, Kept
  <2> QED BY <1>5, <2>1, <2>2, TracedQuiet
<1>14. ASSUME NEW e \in Editor, EditorChanges(e)
       PROVE  Traced'
  <2>1. PICK s \in EditorState : Edits(e, s)
    BY <1>14 DEF EditorChanges
  <2>2. /\ ed' = [ed EXCEPT ![e] = s] /\ s.seen = ed[e].seen /\ s.live = ed[e].live
        /\ s.loading = ed[e].loading
        /\ gone' = gone \union (ToSet(ed[e].attachments) \ ToSet(s.attachments))
    BY <2>1 DEF Edits, Reduce
  <2>3. ed'[e] = s /\ \A x \in Editor : x # e => ed'[x] = ed[x]
    BY <1>3, <2>2 DEF EdTyped
  <2>4. /\ ed'["edit"].live = ed["edit"].live /\ ed'["edit"].loading = ed["edit"].loading
        /\ ed'["edit"].seen = ed["edit"].seen
        /\ ToSet(ed["edit"].attachments) \subseteq ToSet(ed'["edit"].attachments) \union gone'
    <3>1. CASE e = "edit"
      BY <2>2, <2>3, <3>1
    <3>2. CASE e # "edit"
      BY <1>3, <2>3, <3>2
    <3> QED BY <3>1, <3>2
  <2>5. /\ Traced /\ tasks' = tasks /\ memo' = memo /\ posts' = posts /\ writes' = writes
        /\ uploads' = uploads /\ gone \subseteq gone'
    BY <1>2, <1>14, <2>2 DEF EditorChanges
  <2> QED BY <1>6, <2>4, <2>5, TracedQuiet
<1>15. ASSUME NEW i \in DOMAIN tasks, FilesUpload(i)
       PROVE  Traced'
  BY <1>2, <1>15, TracedUploads DEF FilesUpload
<1>16. ASSUME NEW i \in DOMAIN tasks, ReadsAgain(i)
       PROVE  Traced'
  <2>1. SameFiles
    BY <1>16 DEF ReadsAgain, Reads, SameFiles, Ended
  <2>2. ed'["edit"].live = FALSE \/ ed'["edit"] = ed["edit"]
    <3>1. ed' = ed \/ Closes("edit")
      BY <1>3, <1>16, ClosedCloses DEF ReadsAgain, Reads
    <3> QED BY <1>4, <3>1 DEF Closes
  <2>3. /\ Traced /\ memo' = memo /\ posts' = posts /\ writes' = writes
        /\ uploads' = uploads /\ gone' = gone
    BY <1>2, <1>16 DEF ReadsAgain, Kept
  <2>4. \A j \in DOMAIN tasks : /\ tasks'[j].pc \in Ended
                                /\ tasks[j].pc \notin Ended
                                => ToSet(tasks[j].new) \subseteq Linked' \union gone'
    <3> SUFFICES ASSUME NEW j \in DOMAIN tasks, tasks'[j].pc \in Ended, tasks[j].pc \notin Ended
                 PROVE  ToSet(tasks[j].new) \subseteq Linked'
      OBVIOUS
    <3>1. j = i /\ tasks'[i].pc = "done"
      BY <1>16 DEF ReadsAgain, Reads, Ended
    <3>2. tasks[i].snap.attachments \o tasks[i].new = memo.attachments
      BY <1>16, <3>1 DEF ReadsAgain, Reads
    <3>3. ToSet(tasks[i].new) \subseteq ToSet(memo.attachments)
      <4>1. ToSet(tasks[i].snap.attachments \o tasks[i].new)
              = ToSet(tasks[i].snap.attachments) \union ToSet(tasks[i].new)
        BY EditorsTyped, SeqUnion
      <4> QED BY <3>2, <4>1
    <3> QED BY <2>3, <3>1, <3>3 DEF Linked
  <2> QED BY <1>5, <2>1, <2>2, <2>3, <2>4, TracedQuiet
<1>17. ASSUME NEW i \in DOMAIN tasks, MemoUpdates(i)
       PROVE  Traced'
  BY <1>2, <1>17, TracedUpdates DEF MemoUpdates
<1>18. ASSUME NEW i \in DOMAIN tasks, MemoCreated(i)
       PROVE  Traced'
  BY <1>2, <1>18, TracedCreates DEF MemoCreated
<1>19. ASSUME NEW i \in DOMAIN tasks, DraftClears(i)
       PROVE  Traced'
  <2>1. \A j \in DOMAIN tasks : ~(tasks'[j].pc \in Ended /\ tasks[j].pc \notin Ended)
    BY <1>19 DEF DraftClears, Moves, Ended
  <2> QED BY <1>2, <1>5, <1>19, <2>1, TracedQuiet DEF DraftClears, Moves, Kept
<1>20. ASSUME NEW i \in DOMAIN tasks, SaveEnds(i)
       PROVE  Traced'
  <2>1. \A j \in DOMAIN tasks : ~(tasks'[j].pc \in Ended /\ tasks[j].pc \notin Ended)
    BY <1>20 DEF SaveEnds, Resets, Ended
  <2>2. ed'["edit"].live = FALSE \/ ed'["edit"] = ed["edit"]
    BY <1>3, <1>4, <1>20 DEF SaveEnds, Resets, Empties, Closes
  <2>3. /\ Traced /\ TasksKept /\ memo' = memo /\ posts' = posts /\ writes' = writes
        /\ uploads' = uploads /\ gone' = gone
    BY <1>2, <1>20 DEF SaveEnds, Resets, Kept
  <2> QED BY <1>5, <2>1, <2>2, <2>3, TracedQuiet
<1>21. ASSUME LoadLost \/ \E i \in DOMAIN tasks : SaveLost(i)
       PROVE  FALSE
  BY <1>21 DEF LoadLost, SaveLost
<1> QED BY <1>7, <1>8, <1>9, <1>10, <1>11, <1>12, <1>13, <1>14, <1>15, <1>16, <1>17, <1>18, <1>19,
           <1>20, <1>21 DEF StepShapes

\* However saves, edits and writes by others interleave, no attachment is part of
\* two memos, and without a failed call or a write crossed no uploaded file is lost.
THEOREM AttachesOnce == Spec => []AttachedOnce
<1> DEFINE Inv == Base /\ Copies /\ Seen /\ Apart /\ Accounted
<1>1. Init => Inv
  <2> SUFFICES ASSUME Init PROVE Inv
    OBVIOUS
  <2>1. DOMAIN tasks = {} /\ uploads = 1 /\ gone = {} /\ writes = 0 /\ Base /\ Apart
    BY InitBase, InitApart, InitEmpty
  <2>2. Copies
    BY <2>1 DEF Copies
  <2>3. ed["edit"].seen = 0 /\ ed["edit"].live = FALSE
    BY InitEditors DEF Editor
  <2>4. Seen
    BY <2>1, <2>3 DEF Seen
  <2>5. 1 \in ToSet(memo.attachments)
    <3>1. memo = [content |-> "a", visibility |-> "public", attachments |-> <<1>>, extra |-> "plain",
                  time |-> 0]
      BY DEF Init
    <3>2. memo.attachments = <<1>>
      BY <3>1
    <3> QED BY <3>2 DEF ToSet
  <2>6. Accounted
    BY <2>1, <2>3, <2>5, LinkedIs DEF Accounted, Traced
  <2> QED BY <2>1, <2>2, <2>4, <2>6
<1>2. Inv /\ [Next]_vars => Inv'
  <2> SUFFICES ASSUME Inv, [Next]_vars PROVE Inv'
    OBVIOUS
  <2>1. CASE Next
    <3>1. StepShapes
      BY <2>1, StepShape
    <3> QED BY <2>1, <3>1, StepBase, StepCopies, StepSeen, StepApart, StepAccounted
  <2>2. CASE UNCHANGED vars
    <3>1. Base'
      BY <2>2 DEF vars, Base, TypeOK, Room, Waiting, Reading
    <3>2. Copies' /\ Seen'
      BY <2>2 DEF vars, Copies, Seen
    <3>3. Apart'
      <4>1. /\ tasks' = tasks /\ uploads' = uploads /\ posts' = posts /\ memo' = memo /\ ed' = ed
        BY <2>2 DEF vars
      <4>2. Apart /\ SameFiles
        BY <4>1, KeptFiles
      <4>3. /\ ToSet(memo'.attachments) \subseteq EditSide
            /\ ToSet(ed'["edit"].attachments) \subseteq EditSide
            /\ \A e \in New : ed'[e].attachments = <<>>
        BY <4>1, <4>2 DEF Apart
      <4> QED BY <4>1, <4>2, <4>3, ApartKept
    <3>4. Accounted'
      BY <2>2 DEF vars, Accounted, Traced, Own, Linked
    <3> QED BY <3>1, <3>2, <3>3, <3>4
  <2> QED BY <2>1, <2>2
<1>3. Inv => AttachedOnce
  <2> SUFFICES ASSUME Inv PROVE AttachedOnce
    OBVIOUS
  <2>1. \A k, l \in DOMAIN posts : ToSet(posts[k].attachments) \cap ToSet(posts[l].attachments) # {}
                                   => k = l
    BY DEF Apart, Posted
  <2>2. ASSUME NEW k \in DOMAIN posts, NEW x \in ToSet(posts[k].attachments),
               x \in ToSet(memo.attachments)
        PROVE  FALSE
    <3>1. PICK i \in DOMAIN tasks : tasks[i].by \in New /\ x \in Own(i)
      BY DEF Apart, Posted
    <3>2. x = 1 \/ \E j \in DOMAIN tasks : tasks[j].by = "edit" /\ x \in Own(j)
      BY <2>2, EditSideIs DEF Apart
    <3>3. x \in 2..uploads
      BY <3>1 DEF Apart
    <3>4. PICK j \in DOMAIN tasks : tasks[j].by = "edit" /\ x \in Own(j)
      BY <3>2, <3>3
    <3> QED BY <3>1, <3>4 DEF Apart, New
  <2>3. ASSUME faults = 0, ~crossed, NEW n \in 1..uploads
        PROVE  n \in Linked \union UnderWay \union gone
    <3>1. Traced /\ uploads \in Nat
      BY <2>3 DEF Accounted, Base, TypeOK
    <3>2. CASE n = 1
      BY <3>1, <3>2 DEF Traced
    <3>3. CASE n # 1
      <4>1. n \in 2..uploads
        BY <3>1, <3>3
      <4>2. PICK i \in DOMAIN tasks : n \in Own(i)
        BY <3>1, <4>1 DEF Traced
      <4>3. CASE tasks[i].pc \in Ended
        BY <3>1, <4>2, <4>3 DEF Traced
      <4>4. CASE tasks[i].pc \notin Ended
        BY <4>2, <4>4 DEF UnderWay, Own, Ended
      <4> QED BY <4>3, <4>4
    <3> QED BY <3>2, <3>3
  <2> QED BY <2>1, <2>2, <2>3 DEF AttachedOnce
<1> QED BY <1>1, <1>2, <1>3, PTL DEF Spec

-----------------------------------------------------------------------------
(***************************************************************************)
(* The drafts of the new memos' editors                                    *)
(***************************************************************************)

\* A step that starts no save.
LEMMA ActKept ==
    ASSUME Act, DOMAIN tasks' = DOMAIN tasks,
           \A i \in DOMAIN tasks : tasks'[i].by = tasks[i].by /\ (Active(i)' => Active(i)),
           \A i \in DOMAIN tasks :
               Active(i)' => ed'[tasks[i].by].live /\ ed'[tasks[i].by].saving
    PROVE  Act'
BY DEF Act

\* Save i moves on and the editors stay.
LEMMA ActMoves ==
    ASSUME Act, DOMAIN tasks' = DOMAIN tasks, ed' = ed, NEW i \in DOMAIN tasks,
           \A j \in DOMAIN tasks : j # i => tasks'[j] = tasks[j],
           tasks'[i].by = tasks[i].by, tasks'[i].live = tasks[i].live, tasks[i].pc # "done"
    PROVE  Act'
<1>1. \A j \in DOMAIN tasks : tasks'[j].by = tasks[j].by /\ (Active(j)' => Active(j))
  BY DEF Active
<1> QED BY <1>1, ActKept DEF Act

\* Act is kept by every shape.
LEMMA StepAct ==
    ASSUME Base, Act, StepShapes
    PROVE  Act'
<1>1. /\ EdTyped /\ "edit" \in Editor /\ "home" \in Editor
      /\ \A i \in DOMAIN tasks : tasks[i].by \in Editor /\ tasks[i].live \in BOOLEAN
  BY EditorsTyped DEF Editor
<1>2. ASSUME tasks' = tasks,
             \A e \in Editor : ed[e].live /\ ed[e].saving => ed'[e].live /\ ed'[e].saving
      PROVE  Act'
  <2>1. \A i \in DOMAIN tasks : tasks'[i].by = tasks[i].by /\ (Active(i)' => Active(i))
    BY <1>2 DEF Active
  <2> QED BY <1>1, <1>2, <2>1, ActKept DEF Act
<1>3. CASE DraftSaved \/ Elsewhere
  BY <1>2, <1>3 DEF DraftSaved, Elsewhere
<1>4. CASE MemoLoads \/ LoadLost
  BY <1>1, <1>2, <1>4 DEF MemoLoads, Loads, LoadLost, Flagged
<1>5. CASE PageChanges
  <2>1. /\ DOMAIN tasks' = DOMAIN tasks
        /\ \A i \in DOMAIN tasks : tasks'[i].by = tasks[i].by /\ ~Active(i)'
    BY <1>5 DEF PageChanges, NewPage, TasksKept, KeptTask, Active
  <2> QED BY <2>1, ActKept
<1>6. CASE SavesStart
  <2> DEFINE more == DOMAIN tasks' \ DOMAIN tasks
  <2>1. /\ \A i \in DOMAIN tasks : tasks'[i] = tasks[i]
        /\ \A i, j \in more : tasks'[i].by = tasks'[j].by => i = j
        /\ \A e \in Editor : ed[e].live /\ ed[e].saving => ed'[e].live /\ ed'[e].saving
    BY <1>6 DEF SavesStart, Starts
  <2>2. \A i \in more : /\ tasks'[i].by \in Editor /\ canSave(tasks'[i].by)
                        /\ ed'[tasks'[i].by].saving
    BY <1>6, NewSaves DEF SavesStart, Starts
  <2>0. \A e \in Editor : canSave(e) => ed'[e].live
    BY <1>6 DEF canSave, SavesStart, Starts
  <2>3. \A i \in more : ed'[tasks'[i].by].live /\ ed'[tasks'[i].by].saving
    BY <2>0, <2>2
  <2>4. \A i \in DOMAIN tasks : Active(i)' => Active(i)
    BY <2>1 DEF Active
  <2>5. \A i \in DOMAIN tasks : \A j \in more : Active(i) => tasks'[i].by # tasks'[j].by
    BY <2>1, <2>2 DEF Act, canSave
  <2>6. \A i \in DOMAIN tasks' : Active(i)' => ed'[tasks'[i].by].live /\ ed'[tasks'[i].by].saving
    BY <1>1, <2>1, <2>3, <2>4 DEF Act
  <2>7. \A i, j \in DOMAIN tasks : Active(i)' /\ Active(j)' /\ tasks'[i].by = tasks'[j].by => i = j
    BY <2>1, <2>4 DEF Act
  <2>8. \A i, j \in DOMAIN tasks' : Active(i)' /\ Active(j)' /\ tasks'[i].by = tasks'[j].by => i = j
    BY <2>1, <2>4, <2>5, <2>7
  <2> QED BY <2>6, <2>8 DEF Act
<1>7. ASSUME NEW e \in Editor, EditorOpens(e)
      PROVE  Act'
  <2>1. /\ tasks' = tasks /\ ~ed[e].live /\ \A x \in Editor : x # e => ed'[x] = ed[x]
    BY <1>7 DEF EditorOpens, Opens
  <2> QED BY <1>2, <2>1
<1>8. ASSUME NEW e \in Editor, EditorCloses(e)
      PROVE  Act'
  <2>1. /\ ~ed[e].saving /\ \A x \in Editor : x # e => ed'[x] = ed[x]
    BY <1>8 DEF EditorCloses, Closes
  <2>2. /\ DOMAIN tasks' = DOMAIN tasks
        /\ \A i \in DOMAIN tasks : /\ tasks'[i].by = tasks[i].by /\ tasks'[i].pc = tasks[i].pc
                                   /\ tasks'[i].live = (tasks[i].live /\ tasks[i].by # e)
    BY <1>8 DEF EditorCloses, TasksKept, KeptTask
  <2>3. \A i \in DOMAIN tasks : Active(i)' => Active(i) /\ tasks[i].by # e
    BY <2>2 DEF Active
  <2>4. \A i \in DOMAIN tasks : Active(i)' => ed'[tasks[i].by].live /\ ed'[tasks[i].by].saving
    BY <1>1, <2>1, <2>3 DEF Act
  <2> QED BY <2>2, <2>3, <2>4, ActKept
<1>9. ASSUME NEW e \in Editor, EditorChanges(e)
      PROVE  Act'
  <2>1. PICK s \in EditorState : Edits(e, s)
    BY <1>9 DEF EditorChanges
  <2>2. ed' = [ed EXCEPT ![e] = s] /\ s.live = ed[e].live /\ s.saving = ed[e].saving
    BY <2>1 DEF Edits, Reduce
  <2>3. ed'[e] = s /\ \A x \in Editor : x # e => ed'[x] = ed[x]
    BY <1>1, <2>2 DEF EdTyped
  <2> QED BY <1>2, <1>9, <2>2, <2>3 DEF EditorChanges
<1>10. ASSUME NEW i \in DOMAIN tasks,
              FilesUpload(i) \/ MemoUpdates(i) \/ MemoCreated(i) \/ DraftClears(i)
       PROVE  Act'
  <2>1. /\ DOMAIN tasks' = DOMAIN tasks /\ ed' = ed
        /\ \A j \in DOMAIN tasks : j # i => tasks'[j] = tasks[j]
        /\ tasks'[i].by = tasks[i].by /\ tasks'[i].live = tasks[i].live /\ tasks[i].pc # "done"
    BY <1>10 DEF FilesUpload, Uploads, MemoUpdates, MemoCreated, DraftClears, Moves, TasksKept,
                 KeptTask, Kept
  <2> QED BY <2>1, ActMoves
<1>11. ASSUME NEW i \in DOMAIN tasks, ReadsAgain(i)
       PROVE  Act'
  <2>1. /\ DOMAIN tasks' = DOMAIN tasks
        /\ \A j \in DOMAIN tasks : j # i => tasks'[j] = tasks[j]
        /\ tasks'[i].by = tasks[i].by /\ tasks'[i].live = tasks[i].live /\ tasks[i].pc = "read"
        /\ tasks[i].by = "edit"
        /\ ed' = IF tasks'[i].pc = "done" /\ tasks[i].live THEN Closed("edit") ELSE ed
    BY <1>11 DEF ReadsAgain, Reads
  <2>2. CASE tasks'[i].pc = "done" /\ tasks[i].live
    <3>1. Closes("edit")
      BY <1>1, <2>1, <2>2, ClosedCloses
    <3>2. \A j \in DOMAIN tasks : tasks'[j].by = tasks[j].by /\ (Active(j)' => Active(j) /\ j # i)
      BY <2>1, <2>2 DEF Active
    <3>3. \A j \in DOMAIN tasks : Active(j)' => tasks[j].by # "edit"
      BY <2>1, <2>2, <3>2 DEF Act, Active
    <3>4. \A j \in DOMAIN tasks : Active(j)' => ed'[tasks[j].by].live /\ ed'[tasks[j].by].saving
      BY <1>1, <3>1, <3>2, <3>3 DEF Act, Closes
    <3> QED BY <2>1, <3>2, <3>4, ActKept
  <2>3. CASE ~(tasks'[i].pc = "done" /\ tasks[i].live)
    BY <2>1, <2>3, ActMoves
  <2> QED BY <2>2, <2>3
<1>12. ASSUME NEW i \in DOMAIN tasks, SaveEnds(i) \/ SaveLost(i)
       PROVE  Act'
  <2>1. /\ DOMAIN tasks' = DOMAIN tasks
        /\ \A j \in DOMAIN tasks : j # i => tasks'[j] = tasks[j]
        /\ tasks'[i].by = tasks[i].by /\ tasks'[i].live = tasks[i].live
        /\ tasks[i].pc # "done" /\ tasks'[i].pc = "done"
    BY <1>12 DEF SaveEnds, Resets, SaveLost, Moves, TasksKept, KeptTask
  <2>2. \A j \in DOMAIN tasks : tasks'[j].by = tasks[j].by /\ (Active(j)' => Active(j) /\ j # i)
    BY <2>1 DEF Active
  <2>3. \/ ed' = ed
        \/ tasks[i].live /\ \A x \in Editor : x # tasks[i].by => ed'[x] = ed[x]
    BY <1>12 DEF SaveEnds, Resets, Empties, Closes, SaveLost, Flagged
  <2>4. CASE ed' = ed
    BY <2>1, <2>2, <2>4, ActKept DEF Act
  <2>5. CASE tasks[i].live /\ \A x \in Editor : x # tasks[i].by => ed'[x] = ed[x]
    <3>1. \A j \in DOMAIN tasks : Active(j)' => tasks[j].by # tasks[i].by
      BY <2>1, <2>2, <2>5 DEF Act, Active
    <3>2. \A j \in DOMAIN tasks : Active(j)' => ed'[tasks[j].by].live /\ ed'[tasks[j].by].saving
      BY <1>1, <2>2, <2>5, <3>1 DEF Act
    <3> QED BY <2>1, <2>2, <3>2, ActKept
  <2> QED BY <2>3, <2>4, <2>5
<1> QED BY <1>3, <1>4, <1>5, <1>6, <1>7, <1>8, <1>9, <1>10, <1>11, <1>12 DEF StepShapes

\* How a step that only works on the saves may touch a new memo's editor.
EditorsStay ==
    \A e \in New : ed'[e].live => ed[e].live /\ ed'[e].content = ed[e].content

\* Those steps are of this kind.
LEMMA TasksOnly ==
    ASSUME Base, NEW i \in DOMAIN tasks,
           \/ FilesUpload(i) \/ ReadsAgain(i) \/ MemoUpdates(i) \/ MemoCreated(i)
           \/ DraftClears(i) \/ SaveLost(i)
    PROVE  EditorsStay /\ pending' = pending
<1>1. EdTyped /\ "edit" \in Editor /\ New \subseteq Editor /\ "edit" \notin New
  BY EditorsTyped DEF Editor, New
<1>2. ed' = ed \/ Closes("edit") \/ Flagged(tasks[i].by)
  BY <1>1, ClosedCloses
     DEF FilesUpload, ReadsAgain, Reads, MemoUpdates, MemoCreated, DraftClears, SaveLost
<1>3. EditorsStay
  BY <1>1, <1>2 DEF EditorsStay, Closes, Flagged
<1>4. pending' = pending
  BY DEF FilesUpload, ReadsAgain, MemoUpdates, MemoCreated, DraftClears, SaveLost
<1> QED BY <1>3, <1>4

\* PendingIs is kept by every shape.
LEMMA StepPending ==
    ASSUME Base, Act, PendingIs, StepShapes
    PROVE  PendingIs'
<1>1. EdTyped /\ New \subseteq Editor /\ "edit" \in Editor /\ "edit" \notin New
      /\ "home" \in New /\ "none" \notin New
  BY EditorsTyped DEF Editor, New
<1>2. ASSUME EditorsStay, pending' = pending
      PROVE  PendingIs'
  BY <1>2 DEF PendingIs, EditorsStay
<1>3. CASE DraftSaved
  BY <1>1, <1>3 DEF DraftSaved, PendingIs
<1>4. CASE MemoLoads
  <2>1. EditorsStay
    BY <1>1, <1>4 DEF MemoLoads, Loads, EditorsStay
  <2>2. CASE AutoSave("edit", memo.content)
    BY <1>1, <2>2 DEF AutoSave, PendingIs
  <2> QED BY <1>2, <1>4, <2>1, <2>2 DEF MemoLoads
<1>5. CASE LoadLost \/ Elsewhere
  BY <1>1, <1>2, <1>5 DEF LoadLost, Elsewhere, Flagged, EditorsStay
<1>6. CASE PageChanges
  <2>1. \A e \in New : IF e = "home" /\ page' = "home"
                       THEN ed'[e].content = draft[e] ELSE ed'[e].live = FALSE
    BY <1>1, <1>6 DEF PageChanges, NewPage, Fresh
  <2>2. page' = "home" => pending'.key = "home" /\ pending'.content = draft["home"]
    BY <1>6 DEF PageChanges, AutoSave
  <2> QED BY <2>1, <2>2 DEF PendingIs
<1>7. CASE SavesStart
  <2>1. EditorsStay /\ pending' = pending
    BY <1>1, <1>7 DEF SavesStart, Starts, EditorsStay
  <2> QED BY <1>2, <2>1
<1>8. ASSUME NEW e \in Editor, EditorOpens(e)
      PROVE  PendingIs'
  BY <1>8 DEF EditorOpens, AutoSave, PendingIs
<1>9. ASSUME NEW e \in Editor, EditorCloses(e)
      PROVE  PendingIs'
  <2>1. EditorsStay /\ pending' = pending
    BY <1>1, <1>9 DEF EditorCloses, Closes, Fresh, EditorsStay
  <2> QED BY <1>2, <2>1
<1>10. ASSUME NEW e \in Editor, EditorChanges(e)
       PROVE  PendingIs'
  <2>1. PICK s \in EditorState : Edits(e, s)
    BY <1>10 DEF EditorChanges
  <2>2. ed' = [ed EXCEPT ![e] = s] /\ s.live = ed[e].live
        /\ \/ s.content = ed[e].content /\ pending' = pending
           \/ AutoSave(e, s.content)
    BY <2>1 DEF Edits, Reduce
  <2>3. ed'[e] = s /\ \A x \in Editor : x # e => ed'[x] = ed[x]
    BY <1>1, <2>2 DEF EdTyped
  <2>4. CASE s.content = ed[e].content /\ pending' = pending
    <3>1. EditorsStay
      BY <1>1, <2>2, <2>3, <2>4 DEF EditorsStay
    <3> QED BY <1>2, <2>4, <3>1
  <2>5. CASE AutoSave(e, s.content)
    BY <2>3, <2>5 DEF AutoSave, PendingIs
  <2> QED BY <2>2, <2>4, <2>5
<1>11. ASSUME NEW i \in DOMAIN tasks,
              \/ FilesUpload(i) \/ ReadsAgain(i) \/ MemoUpdates(i) \/ MemoCreated(i)
              \/ DraftClears(i) \/ SaveLost(i)
       PROVE  PendingIs'
  BY <1>2, <1>11, TasksOnly
<1>12. ASSUME NEW i \in DOMAIN tasks, SaveEnds(i)
       PROVE  PendingIs'
  <2>1. CASE UNCHANGED <<ed, pending, overtaken>>
    BY <2>1 DEF PendingIs
  <2>2. CASE Empties /\ AutoSave("home", "")
    BY <1>1, <2>2 DEF Empties, Fresh, AutoSave, PendingIs
  <2>3. CASE /\ Empties /\ tasks[i].live /\ tasks[i].by = "home" /\ tasks[i].pc = "cleared"
             /\ ed["home"].content = "" /\ UNCHANGED <<pending, overtaken>>
    <3>1. ed["home"].live
      BY <2>3 DEF Act, Active
    <3>2. ed'["home"].content = ed["home"].content /\ \A e \in Editor : e # "home" => ed'[e] = ed[e]
      BY <2>3 DEF Empties, Fresh
    <3> QED BY <1>1, <2>3, <3>1, <3>2 DEF PendingIs
  <2>4. CASE Closes(tasks[i].by) /\ UNCHANGED <<pending, overtaken>>
    <3>1. EditorsStay
      BY <1>1, <2>4 DEF Closes, Fresh, EditorsStay
    <3> QED BY <1>2, <2>4, <3>1
  <2> QED BY <1>12, <2>1, <2>2, <2>3, <2>4 DEF SaveEnds, Resets
<1> QED BY <1>3, <1>4, <1>5, <1>6, <1>7, <1>8, <1>9, <1>10, <1>11, <1>12 DEF StepShapes

\* A debounced save taken over by editor k is no other's.
LEMMA AutoSaveQuiet ==
    ASSUME NEW k, NEW c, AutoSave(k, c), NEW e \in Editor, e # k, e \notin overtaken'
    PROVE  pending.key # e /\ e \notin overtaken
BY DEF AutoSave

\* A step that leaves the drafts stored as they are.
LEMMA DraftKept ==
    ASSUME DraftIs, draft' = draft,
           \A e \in New : ed'[e].live /\ pending'.key # e /\ e \notin overtaken' =>
               /\ ed[e].live /\ pending.key # e /\ e \notin overtaken
               /\ ed'[e].content = ed[e].content
               /\ Clearing(e) => Clearing(e)'
    PROVE  DraftIs'
BY DEF DraftIs

\* Only a save that moves on may end the clearing.
LEMMA ClearingKept ==
    ASSUME NEW e, DOMAIN tasks \subseteq DOMAIN tasks', NEW i,
           \A j \in DOMAIN tasks : j # i => tasks'[j] = tasks[j],
           i \in DOMAIN tasks => \/ tasks[i].by # e \/ ~tasks[i].live \/ tasks[i].pc # "cleared"
    PROVE  Clearing(e) => Clearing(e)'
BY DEF Clearing

\* DraftIs is kept by every shape.
LEMMA StepDraft ==
    ASSUME Base, Act, PendingIs, DraftIs, StepShapes
    PROVE  DraftIs'
<1>1. /\ EdTyped /\ New \subseteq Editor /\ "edit" \in Editor /\ "edit" \notin New
      /\ "home" \in New /\ "none" \notin New
      /\ \A i \in DOMAIN tasks : tasks[i].by \in Editor /\ tasks[i].live \in BOOLEAN
  BY EditorsTyped DEF Editor, New
<1>2. ASSUME EditorsStay, draft' = draft, pending' = pending, overtaken' = overtaken,
             \A e \in New : ed'[e].live /\ Clearing(e) => Clearing(e)'
      PROVE  DraftIs'
  BY <1>2, DraftKept DEF EditorsStay
<1>3. tasks' = tasks => \A e \in New : Clearing(e) => Clearing(e)'
  BY DEF Clearing
<1>4. CASE DraftSaved
  <2> SUFFICES ASSUME NEW e \in New, ed[e].live, e \notin overtaken
               PROVE  draft'[e] = ed[e].content \/ (draft'[e] = "" /\ Clearing(e)')
    BY <1>4 DEF DraftSaved, DraftIs
  <2>1. draft' = [draft EXCEPT ![pending.key] = pending.content] /\ tasks' = tasks
    BY <1>4 DEF DraftSaved
  <2>2. CASE pending.key = e
    BY <1>1, <2>1, <2>2 DEF PendingIs, EdTyped
  <2>3. CASE pending.key # e
    <3>1. draft'[e] = draft[e]
      BY <1>1, <2>1, <2>3 DEF EdTyped
    <3>2. draft[e] = ed[e].content \/ (draft[e] = "" /\ Clearing(e))
      BY <2>3 DEF DraftIs
    <3> QED BY <1>3, <2>1, <3>1, <3>2
  <2> QED BY <2>2, <2>3
<1>5. CASE MemoLoads
  <2>1. EditorsStay /\ draft' = draft /\ tasks' = tasks
    BY <1>1, <1>5 DEF MemoLoads, Loads, EditorsStay
  <2>2. CASE AutoSave("edit", memo.content)
    <3>1. \A e \in New : e \notin overtaken' => pending.key # e /\ e \notin overtaken
      BY <1>1, <2>2, AutoSaveQuiet
    <3> QED BY <1>3, <2>1, <3>1, DraftKept DEF EditorsStay
  <2>3. CASE UNCHANGED <<pending, overtaken>>
    BY <1>2, <1>3, <2>1, <2>3
  <2> QED BY <1>5, <2>2, <2>3 DEF MemoLoads
<1>6. CASE LoadLost \/ Elsewhere
  <2>1. /\ EditorsStay /\ draft' = draft /\ pending' = pending /\ overtaken' = overtaken
        /\ tasks' = tasks
    BY <1>1, <1>6 DEF LoadLost, Elsewhere, Flagged, EditorsStay
  <2> QED BY <1>2, <1>3, <2>1
<1>7. CASE PageChanges
  <2>1. \A e \in New : ed'[e].live => e = "home" /\ page' = "home"
    BY <1>1, <1>7 DEF PageChanges, NewPage, Fresh
  <2>2. page' = "home" => pending'.key = "home"
    BY <1>7 DEF PageChanges, AutoSave
  <2> QED BY <2>1, <2>2 DEF DraftIs
<1>8. CASE SavesStart
  <2>1. /\ EditorsStay /\ draft' = draft /\ pending' = pending /\ overtaken' = overtaken
        /\ DOMAIN tasks \subseteq DOMAIN tasks' /\ \A j \in DOMAIN tasks : tasks'[j] = tasks[j]
    BY <1>1, <1>8 DEF SavesStart, Starts, EditorsStay
  <2>2. \A e \in New : Clearing(e) => Clearing(e)'
    BY <2>1 DEF Clearing
  <2> QED BY <1>2, <2>1, <2>2
<1>9. ASSUME NEW e \in Editor, EditorOpens(e)
      PROVE  DraftIs'
  <2>1. /\ pending'.key = e /\ draft' = draft /\ tasks' = tasks
        /\ \A x \in Editor : x # e => ed'[x] = ed[x]
    BY <1>9 DEF EditorOpens, Opens, AutoSave
  <2>2. \A x \in Editor : x # e /\ x \notin overtaken' => pending.key # x /\ x \notin overtaken
    BY <1>9, AutoSaveQuiet DEF EditorOpens
  <2> QED BY <1>1, <1>3, <2>1, <2>2, DraftKept
<1>10. ASSUME NEW e \in Editor, EditorCloses(e)
       PROVE  DraftIs'
  <2>1. /\ draft' = draft /\ pending' = pending /\ overtaken' = overtaken
        /\ \A x \in Editor : x # e => ed'[x] = ed[x]
        /\ ed'[e].live = FALSE
    BY <1>10 DEF EditorCloses, Closes, Fresh
  <2>2. EditorsStay
    BY <1>1, <2>1 DEF EditorsStay
  <2>3. /\ DOMAIN tasks' = DOMAIN tasks
        /\ \A i \in DOMAIN tasks : /\ tasks'[i].by = tasks[i].by /\ tasks'[i].pc = tasks[i].pc
                                   /\ tasks'[i].live = (tasks[i].live /\ tasks[i].by # e)
    BY <1>10 DEF EditorCloses, TasksKept, KeptTask
  <2>4. \A x \in New : x # e /\ Clearing(x) => Clearing(x)'
    BY <2>3 DEF Clearing
  <2> QED BY <1>2, <2>1, <2>2, <2>4
<1>11. ASSUME NEW e \in Editor, EditorChanges(e)
       PROVE  DraftIs'
  <2>1. PICK s \in EditorState : Edits(e, s)
    BY <1>11 DEF EditorChanges
  <2>2. /\ ed' = [ed EXCEPT ![e] = s] /\ s.live = ed[e].live
        /\ \/ s.content = ed[e].content /\ pending' = pending /\ overtaken' = overtaken
           \/ AutoSave(e, s.content)
        /\ draft' = draft /\ tasks' = tasks
    BY <1>11, <2>1 DEF Edits, Reduce, EditorChanges
  <2>3. ed'[e] = s /\ \A x \in Editor : x # e => ed'[x] = ed[x]
    BY <1>1, <2>2 DEF EdTyped
  <2>4. CASE s.content = ed[e].content /\ pending' = pending /\ overtaken' = overtaken
    <3>1. EditorsStay
      BY <1>1, <2>2, <2>3, <2>4 DEF EditorsStay
    <3> QED BY <1>2, <1>3, <2>2, <2>4, <3>1
  <2>5. CASE AutoSave(e, s.content)
    <3>1. pending'.key = e
      BY <2>5 DEF AutoSave
    <3>2. \A x \in Editor : x # e /\ x \notin overtaken' => pending.key # x /\ x \notin overtaken
      BY <2>5, AutoSaveQuiet
    <3> QED BY <1>1, <1>3, <2>2, <2>3, <3>1, <3>2, DraftKept
  <2> QED BY <2>2, <2>4, <2>5
<1>12. ASSUME NEW i \in DOMAIN tasks,
              \/ FilesUpload(i) \/ ReadsAgain(i) \/ MemoUpdates(i) \/ MemoCreated(i) \/ SaveLost(i)
       PROVE  DraftIs'
  <2>1. EditorsStay /\ pending' = pending
    BY <1>12, TasksOnly
  <2>2. /\ draft' = draft /\ overtaken' = overtaken /\ tasks[i].pc # "cleared"
        /\ DOMAIN tasks' = DOMAIN tasks /\ \A j \in DOMAIN tasks : j # i => tasks'[j] = tasks[j]
    BY <1>12 DEF FilesUpload, Uploads, ReadsAgain, Reads, MemoUpdates, MemoCreated, SaveLost, Moves,
                 TasksKept, Kept
  <2>3. \A e \in New : Clearing(e) => Clearing(e)'
    BY <2>2, ClearingKept
  <2> QED BY <1>2, <2>1, <2>2, <2>3
<1>13. ASSUME NEW i \in DOMAIN tasks, DraftClears(i)
       PROVE  DraftIs'
  <2> DEFINE x == tasks[i].by
  <2>1. /\ ed' = ed /\ pending' = pending /\ draft' = [draft EXCEPT ![x] = ""]
        /\ overtaken' = IF ed[x].live /\ ~tasks[i].live THEN overtaken \union {x} ELSE overtaken
        /\ tasks[i].pc = "written" /\ tasks'[i].pc = "cleared" /\ tasks'[i].live = tasks[i].live
        /\ tasks'[i].by = x
        /\ DOMAIN tasks' = DOMAIN tasks /\ \A j \in DOMAIN tasks : j # i => tasks'[j] = tasks[j]
    BY <1>13 DEF DraftClears, Moves, TasksKept, KeptTask, Kept
  <2> SUFFICES ASSUME NEW e \in New, ed[e].live, pending.key # e, e \notin overtaken'
               PROVE  draft'[e] = ed[e].content \/ (draft'[e] = "" /\ Clearing(e)')
    BY <2>1 DEF DraftIs
  <2>2. CASE e = x
    <3>1. draft'[e] = "" /\ tasks[i].live
      BY <1>1, <2>1, <2>2 DEF EdTyped
    <3>2. Clearing(e)'
      BY <2>1, <2>2, <3>1 DEF Clearing
    <3> QED BY <3>1, <3>2
  <2>3. CASE e # x
    <3>1. draft'[e] = draft[e] /\ e \notin overtaken
      BY <1>1, <2>1, <2>3 DEF EdTyped
    <3>2. Clearing(e) => Clearing(e)'
      BY <2>1, ClearingKept
    <3>3. draft[e] = ed[e].content \/ (draft[e] = "" /\ Clearing(e))
      BY <3>1 DEF DraftIs
    <3> QED BY <3>1, <3>2, <3>3
  <2> QED BY <2>2, <2>3
<1>14. ASSUME NEW i \in DOMAIN tasks, SaveEnds(i)
       PROVE  DraftIs'
  <2> DEFINE x == tasks[i].by
  <2>1. /\ draft' = draft /\ tasks[i].pc = "cleared"
        /\ DOMAIN tasks' = DOMAIN tasks /\ \A j \in DOMAIN tasks : j # i => tasks'[j] = tasks[j]
    BY <1>14 DEF SaveEnds, Resets, TasksKept
  <2>2. \A e \in New : e # x \/ ~tasks[i].live => (Clearing(e) => Clearing(e)')
    BY <2>1, ClearingKept
  <2>3. CASE ~tasks[i].live /\ UNCHANGED <<ed, pending, overtaken>>
    <3>1. EditorsStay
      BY <2>3 DEF EditorsStay
    <3> QED BY <1>2, <2>1, <2>2, <2>3, <3>1
  <2>4. CASE /\ tasks[i].live /\ x # "home" /\ Closes(x)
             /\ UNCHANGED <<pending, overtaken>>
    <3>1. EditorsStay /\ ed'[x].live = FALSE
      BY <1>1, <2>4 DEF EditorsStay, Closes, Fresh
    <3>2. \A e \in New : ed'[e].live /\ Clearing(e) => Clearing(e)'
      BY <2>2, <3>1
    <3> QED BY <1>2, <2>1, <2>4, <3>1, <3>2
  <2>5. CASE tasks[i].live /\ x = "home" /\ Empties /\ AutoSave("home", "")
    <3>1. pending'.key = "home" /\ \A e \in Editor : e # "home" => ed'[e] = ed[e]
      BY <2>5 DEF AutoSave, Empties
    <3>2. \A e \in Editor : e # "home" /\ e \notin overtaken' => pending.key # e /\ e \notin overtaken
      BY <2>5, AutoSaveQuiet
    <3> QED BY <1>1, <2>1, <2>2, <2>5, <3>1, <3>2, DraftKept
  <2>6. CASE /\ tasks[i].live /\ x = "home" /\ Empties
             /\ ed["home"].content = "" /\ UNCHANGED <<pending, overtaken>>
    <3>1. ed["home"].live
      BY <2>1, <2>6 DEF Act, Active
    <3>2. ed'["home"].content = "" /\ \A e \in Editor : e # "home" => ed'[e] = ed[e]
      BY <2>6 DEF Empties, Fresh
    <3> SUFFICES ASSUME NEW e \in New, ed'[e].live, pending.key # e, e \notin overtaken
                 PROVE  draft[e] = ed'[e].content \/ (draft[e] = "" /\ Clearing(e)')
      BY <2>1, <2>6 DEF DraftIs
    <3>3. CASE e = "home"
      BY <2>6, <3>1, <3>2, <3>3 DEF DraftIs
    <3>4. CASE e # "home"
      <4>1. ed'[e] = ed[e]
        BY <1>1, <3>2, <3>4
      <4>2. draft[e] = ed[e].content \/ (draft[e] = "" /\ Clearing(e))
        BY <4>1 DEF DraftIs
      <4> QED BY <2>2, <2>6, <3>4, <4>1, <4>2
    <3> QED BY <3>3, <3>4
  <2> QED BY <1>14, <2>3, <2>4, <2>5, <2>6 DEF SaveEnds, Resets
<1> QED BY <1>4, <1>5, <1>6, <1>7, <1>8, <1>9, <1>10, <1>11, <1>12, <1>13, <1>14 DEF StepShapes

\* Whenever the debounced save is not for it, a new memo's editor has its text as
\* its draft, unless another editor's write passed over its own.
THEOREM DraftsFollow == Spec => []DraftFollows
<1> DEFINE Inv == Base /\ Act /\ PendingIs /\ DraftIs
<1>1. Init => Inv
  <2> SUFFICES ASSUME Init PROVE Inv
    OBVIOUS
  <2>1. DOMAIN tasks = {} /\ Base
    BY InitBase, InitEmpty
  <2>2. pending = [key |-> "home", content |-> ""]
    BY DEF Init
  <2>3. \A e \in New : ed[e].content = "" /\ (e # "home" => ed[e].live = FALSE)
    BY InitEditors DEF New, Editor
  <2>4. Act
    BY <2>1 DEF Act
  <2>5. PendingIs
    BY <2>2, <2>3 DEF PendingIs
  <2>6. DraftIs
    BY <2>2, <2>3 DEF DraftIs
  <2> QED BY <2>1, <2>4, <2>5, <2>6
<1>2. Inv /\ [Next]_vars => Inv'
  <2> SUFFICES ASSUME Inv, [Next]_vars PROVE Inv'
    OBVIOUS
  <2>1. CASE Next
    <3>1. StepShapes
      BY <2>1, StepShape
    <3> QED BY <2>1, <3>1, StepBase, StepAct, StepPending, StepDraft
  <2>2. CASE UNCHANGED vars
    <3>1. Base'
      BY <2>2 DEF vars, Base, TypeOK, Room, Waiting, Reading
    <3>2. Act' /\ PendingIs' /\ DraftIs'
      BY <2>2 DEF vars, Act, Active, PendingIs, DraftIs, Clearing
    <3> QED BY <3>1, <3>2
  <2> QED BY <2>1, <2>2
<1>3. Inv => DraftFollows
  BY DEF DraftIs, Clearing, DraftFollows
<1> QED BY <1>1, <1>2, <1>3, PTL DEF Spec

(***************************************************************************)
(* The dialogs                                                             *)
(***************************************************************************)

\* The last search on its way is for the text in the dialog, or is answered.
Searched ==
    /\ text \in Dialogs!Text /\ requests \in Seq(Dialogs!Text)
    /\ dialog = "link" /\ ~due /\ ~muddled =>
           IF requests = <<>> THEN found = Dialogs!Matches(text)
           ELSE requests[Len(requests)] = text

\* A placeholder the user did not write is the last name there was.
LastNamed ==
    /\ known \subseteq Dialogs!Position
    /\ ~typed => placeholder = "" \/ named = "" \/ placeholder = named

\* What every reachable state of the dialogs satisfies.
DialogsInv == Searched /\ LastNamed

\* With no dialog open yet, nothing has been searched for or named.
LEMMA InitDialogs == Dialogs!Init => DialogsInv
<1> SUFFICES ASSUME Dialogs!Init PROVE DialogsInv
  OBVIOUS
<1>1. text = "" /\ due = TRUE /\ requests = <<>> /\ known = {} /\ placeholder = ""
  BY Zenon DEF Dialogs!Init
<1>2. Searched
  <2>1. text \in Dialogs!Text
    BY <1>1, Zenon DEF Dialogs!Text
  <2>2. <<>> \in Seq(Dialogs!Text)
    OBVIOUS
  <2> QED BY <1>1, <2>1, <2>2, Zenon DEF Searched
<1>3. LastNamed
  BY <1>1 DEF LastNamed
<1> QED BY <1>2, <1>3 DEF DialogsInv

\* What follows the first of a sequence.
LEMMA Rest ==
    ASSUME NEW S, NEW q \in Seq(S), Len(q) > 1
    PROVE  /\ Len(SubSeq(q, 2, Len(q))) = Len(q) - 1
           /\ \A j \in 1..(Len(q) - 1) : SubSeq(q, 2, Len(q))[j] = q[j + 1]
  OBVIOUS

\* An answer taken from the front leaves the last search the last.
LEMMA FirstAnswered ==
    ASSUME NEW S, NEW q \in Seq(S), NEW i \in DOMAIN q
    PROVE  /\ RemoveAt(q, i) \in Seq(S)
           /\ i = 1 => IF Len(q) = 1 THEN RemoveAt(q, i) = <<>>
                       ELSE /\ RemoveAt(q, i) # <<>>
                            /\ RemoveAt(q, i)[Len(RemoveAt(q, i))] = q[Len(q)]
<1> DEFINE a == SubSeq(q, 1, i - 1)
           b == SubSeq(q, i + 1, Len(q))
<1>1. i \in 1..Len(q) /\ Len(q) \in Nat
  OBVIOUS
<1>2. RemoveAt(q, i) = a \o b
  BY DEF RemoveAt
<1>3. a \in Seq(S) /\ b \in Seq(S) /\ (a \o b) \in Seq(S)
  BY <1>1
<1>4. ASSUME i = 1, Len(q) = 1 PROVE a \o b = <<>>
  BY <1>1, <1>4
<1>5. ASSUME i = 1, Len(q) # 1 PROVE a \o b # <<>> /\ (a \o b)[Len(a \o b)] = q[Len(q)]
  <2> DEFINE n == Len(q)
  <2>3. n \in Nat /\ n > 1
    <3>1. i \in 1..n /\ n \in Nat /\ i = 1 /\ n # 1
      BY <1>1, <1>5
    <3> HIDE DEF n
    <3> QED BY <3>1
  <2>4. a = SubSeq(q, 1, 0) /\ b = SubSeq(q, 2, n)
    BY <1>5
  <2>5. Len(a) = 0
    BY <2>4
  <2>6. Len(b) = n - 1 /\ \A j \in 1..(n - 1) : b[j] = q[j + 1]
    <3>1. Len(q) > 1
      BY <2>3
    <3>2. b = SubSeq(q, 2, n) /\ n = Len(q)
      BY <2>4
    <3>3. Len(SubSeq(q, 2, n)) = n - 1 /\ \A j \in 1..(n - 1) : SubSeq(q, 2, n)[j] = q[j + 1]
      BY <3>1, Rest
    <3> HIDE DEF b, n
    <3> QED BY <3>2, <3>3, Zenon
  <2>1. Len(a) = 0 /\ Len(b) = n - 1 /\ Len(b) > 0 /\ b[Len(b)] = q[n]
    <3> HIDE DEF a, b, n
    <3> QED BY <2>3, <2>5, <2>6
  <2> HIDE DEF a, b
  <2>2. Len(a \o b) = Len(b) /\ (a \o b)[Len(b)] = b[Len(b)]
    BY <1>3, <2>1
  <2> QED BY <2>1, <2>2
<1> QED BY <1>2, <1>3, <1>4, <1>5

\* A new text waits for its pause before its search can end, a search is for the
\* text at its time, and answers from the front leave the last one the last.
LEMMA StepSearched ==
    ASSUME Searched, Dialogs!Next
    PROVE  Searched'
<1>1. ASSUME UNCHANGED Dialogs!linking, dialog' = dialog \/ dialog' # "link"
      PROVE  Searched'
  BY <1>1 DEF Searched, Dialogs!linking
<1>2. ASSUME NEW open \in BOOLEAN, Dialogs!LinkDialog(open)
      PROVE  Searched'
  BY <1>2 DEF Dialogs!LinkDialog, Searched
<1>3. ASSUME NEW t \in Dialogs!Text, Dialogs!setSearchText(t)
      PROVE  Searched'
  BY <1>3 DEF Dialogs!setSearchText, Searched
<1>4. CASE Dialogs!Search
  <2>1. CASE dialog = "link"
    <3>1. requests' = Append(requests, text) /\ text' = text
      BY <1>4, <2>1 DEF Dialogs!Search
    <3>2. requests' \in Seq(Dialogs!Text) /\ requests' # <<>> /\ requests'[Len(requests')] = text
      BY <3>1 DEF Searched
    <3> QED BY <3>1, <3>2 DEF Searched
  <2>2. CASE dialog # "link"
    BY <1>4, <2>2 DEF Dialogs!Search, Searched
  <2> QED BY <2>1, <2>2
<1>5. ASSUME NEW i \in DOMAIN requests, NEW ok \in BOOLEAN, Dialogs!Answered(i, ok)
      PROVE  Searched'
  <2>1. /\ requests' = RemoveAt(requests, i)
        /\ dialog' = dialog /\ text' = text /\ due' = due
    BY <1>5, Zenon DEF Dialogs!Answered, Dialogs!RemoveAt, RemoveAt
  <2>7. muddled' = (muddled \/ ~ok \/ i > 1)
    BY <1>5, Zenon DEF Dialogs!Answered
  <2>8. ok => found' = Dialogs!Matches(requests[i])
    BY <1>5 DEF Dialogs!Answered
  <2>5. i \in 1..Len(requests) /\ Len(requests) \in Nat
    BY DEF Searched
  <2>2. text' \in Dialogs!Text /\ requests' \in Seq(Dialogs!Text)
    BY <2>1, FirstAnswered DEF Searched
  <2> SUFFICES ASSUME dialog = "link", ~due, ~muddled'
               PROVE  IF requests' = <<>> THEN found' = Dialogs!Matches(text)
                      ELSE requests'[Len(requests')] = text
    BY <2>1, <2>2 DEF Searched
  <2>6. ok /\ i = 1 /\ ~muddled
    <3>1. ~muddled /\ ok /\ ~(i > 1)
      BY <2>7, Zenon
    <3> QED BY <2>5, <3>1
  <2>3. requests[Len(requests)] = text /\ i = 1 /\ found' = Dialogs!Matches(requests[1])
    BY <2>1, <2>5, <2>6, <2>8 DEF Searched
  <2>4. IF Len(requests) = 1 THEN requests' = <<>>
        ELSE requests' # <<>> /\ requests'[Len(requests')] = requests[Len(requests)]
    BY <2>1, <2>3, FirstAnswered DEF Searched
  <2> QED BY <2>3, <2>4
<1>6. ASSUME NEW m \in Dialogs!Memos, Dialogs!addMemoRelation(m) \/ Dialogs!handleDeleteRelation(m)
      PROVE  Searched'
  BY <1>6 DEF Dialogs!addMemoRelation, Dialogs!handleDeleteRelation, Searched
<1>7. ASSUME NEW p \in Dialogs!Position, Dialogs!handlePositionChange(p) \/ Dialogs!updateCoordinate(p)
      PROVE  Searched'
  BY <1>1, <1>7 DEF Dialogs!handlePositionChange, Dialogs!updateCoordinate
<1>8. CASE \/ Dialogs!handleLocationClick \/ Dialogs!setPlaceholder \/ Dialogs!Debounce
           \/ Dialogs!Geocoded \/ Dialogs!Named
  BY <1>1, <1>8 DEF Dialogs!handleLocationClick, Dialogs!setPlaceholder, Dialogs!Debounce,
                    Dialogs!Geocoded, Dialogs!Named
<1>9. CASE \/ Dialogs!handleLocationConfirm \/ Dialogs!handleLocationCancel \/ Dialogs!Dismiss
           \/ Dialogs!RemoveLocation
  BY <1>1, <1>9 DEF Dialogs!handleLocationConfirm, Dialogs!handleLocationCancel, Dialogs!Dismiss,
                    Dialogs!RemoveLocation
<1> QED BY <1>2, <1>3, <1>4, <1>5, <1>6, <1>7, <1>8, <1>9 DEF Dialogs!Next

\* A name replaces the placeholder, and is remembered with it.
LEMMA StepNamed ==
    ASSUME LastNamed, Dialogs!Next
    PROVE  LastNamed'
<1>1. ASSUME UNCHANGED <<known, named, placeholder, typed>>
      PROVE  LastNamed'
  BY <1>1 DEF LastNamed
<1>2. ASSUME UNCHANGED Dialogs!locating
      PROVE  LastNamed'
  BY <1>1, <1>2 DEF Dialogs!locating
<1>3. ASSUME NEW open \in BOOLEAN, Dialogs!LinkDialog(open)
      PROVE  LastNamed'
  BY <1>2, <1>3 DEF Dialogs!LinkDialog
<1>4. ASSUME NEW t \in Dialogs!Text, Dialogs!setSearchText(t)
      PROVE  LastNamed'
  BY <1>2, <1>4 DEF Dialogs!setSearchText
<1>5. CASE Dialogs!Search
  BY <1>2, <1>5 DEF Dialogs!Search
<1>6. ASSUME NEW i \in DOMAIN requests, NEW ok \in BOOLEAN, Dialogs!Answered(i, ok)
      PROVE  LastNamed'
  BY <1>2, <1>6 DEF Dialogs!Answered
<1>7. ASSUME NEW m \in Dialogs!Memos, Dialogs!addMemoRelation(m) \/ Dialogs!handleDeleteRelation(m)
      PROVE  LastNamed'
  BY <1>2, <1>7 DEF Dialogs!addMemoRelation, Dialogs!handleDeleteRelation
<1>8. ASSUME NEW p \in Dialogs!Position, Dialogs!handlePositionChange(p) \/ Dialogs!updateCoordinate(p)
      PROVE  LastNamed'
  BY <1>1, <1>8 DEF Dialogs!handlePositionChange, Dialogs!updateCoordinate
<1>9. CASE Dialogs!handleLocationClick \/ Dialogs!Debounce \/ Dialogs!RemoveLocation
           \/ Dialogs!handleLocationConfirm \/ Dialogs!Dismiss
  BY <1>1, <1>2, <1>9 DEF Dialogs!handleLocationClick, Dialogs!Debounce, Dialogs!RemoveLocation,
                          Dialogs!handleLocationConfirm, Dialogs!Dismiss
<1>10. CASE Dialogs!setPlaceholder \/ Dialogs!handleLocationCancel \/ Dialogs!Geocoded
  BY <1>10 DEF Dialogs!setPlaceholder, Dialogs!handleLocationCancel, Dialogs!Geocoded, LastNamed
<1>11. CASE Dialogs!Named
  BY <1>11 DEF Dialogs!Named, LastNamed
<1> QED BY <1>3, <1>4, <1>5, <1>6, <1>7, <1>8, <1>9, <1>10, <1>11 DEF Dialogs!Next

\* The invariant says what the dialogs show once nothing is on its way.
LEMMA DialogsInvSettles == DialogsInv => Dialogs!DialogsSettle
<1> SUFFICES ASSUME DialogsInv PROVE Dialogs!FoundIsShown /\ Dialogs!PlaceNamed
  BY DEF Dialogs!DialogsSettle
<1>1. Dialogs!FoundIsShown
  BY DEF DialogsInv, Searched, Dialogs!FoundIsShown
<1>2. Dialogs!PlaceNamed
  <2> SUFFICES ASSUME position = debounced, named = Dialogs!displayName, position \in known, ~typed
               PROVE  placeholder \in {"", Dialogs!Name[position]}
    BY DEF Dialogs!PlaceNamed
  <2>1. position \in Dialogs!Position
    BY DEF DialogsInv, LastNamed
  <2>2. named = Dialogs!Name[position] /\ Dialogs!Name[position] # ""
    BY <2>1 DEF Dialogs!displayName, Dialogs!Name, Dialogs!Position
  <2> QED BY <2>2 DEF DialogsInv, LastNamed
<1> QED BY <1>1, <1>2

\* However searches, answers, moves on the map and names interleave, the dialogs
\* settle on what was asked for last.
THEOREM DialogsSettled == PartsSpec => []DialogsSettle
<1> DEFINE Inv == part = "dialogs" => DialogsInv
<1>1. PartsInit => Inv
  BY InitDialogs DEF PartsInit
<1>2. Inv /\ [PartsNext]_parts => Inv'
  <2> SUFFICES ASSUME Inv, [PartsNext]_parts, part' = "dialogs" PROVE DialogsInv'
    OBVIOUS
  <2>1. CASE UNCHANGED <<part, dialogs>>
    BY <2>1 DEF dialogs, DialogsInv, Searched, LastNamed
  <2>2. CASE part = "dialogs" /\ Dialogs!Next
    BY <2>2, StepSearched, StepNamed DEF DialogsInv
  <2> QED BY <2>1, <2>2 DEF PartsNext, parts
<1>3. Inv => DialogsSettle
  BY DialogsInvSettles DEF DialogsSettle
<1> QED BY <1>1, <1>2, <1>3, PTL DEF PartsSpec

(***************************************************************************)
(* The theme and the locale                                                *)
(***************************************************************************)

Prefs == Preferences!Prefs

\* What is kept of the two choices has the types of choices.
Chosen ==
    /\ saved \in Prefs /\ local \in Prefs /\ applied \in Prefs
    /\ setting \in Prefs \union {Preferences!Nobody}
    /\ listens \in BOOLEAN /\ failures \in Nat

\* A save is of a value of its kind.
Saving == {s \in Preferences!Save : s.val \in Preferences!Choice[s.kind]}

\* The calls under way; a tab without settings makes none.
Calls ==
    /\ saves \in Seq(Saving) /\ fetches \in Seq(Preferences!Fetch)
    /\ setting = Preferences!Nobody => Preferences!Quiet

\* The listener is there for the theme "system", and not for another.
Listening ==
    /\ setting.theme = "system" => listens
    /\ setting.theme = "paper" => ~listens
    /\ Preferences!FollowsSystem

\* What the server's setting becomes, once a choice on its way is saved.
Wanted(k) == IF saves # <<>> /\ saves[1].kind = k THEN saves[1].val ELSE saved[k]

\* A tab whose calls did not overlap or fail has at most one under way, which
\* is a choice it shows or brings what is saved.
ShowsSaved ==
    failures = 0 /\ ~mixed /\ setting # Preferences!Nobody =>
        /\ Len(saves) + Len(fetches) <= 1
        /\ \A k \in Preferences!Kind :
               setting[k] = Wanted(k) /\ Wanted(k) # "" => applied[k] = Wanted(k)
        /\ Preferences!Quiet =>
               \A k \in Preferences!Kind : saved[k] # "" => setting[k] = saved[k]
        /\ saves # <<>> => /\ saves[1].latest
                           /\ saves[1].pc = "applied" => saved[saves[1].kind] = saves[1].val
        /\ fetches # <<>> /\ fetches[1].pc = "read" => fetches[1].val = saved

\* Preferences as functions on the two kinds.
LEMMA PrefsAre ==
    ASSUME NEW p
    PROVE  p \in Prefs <=>
               /\ p = [k \in Preferences!Kind |-> p[k]]
               /\ \A k \in Preferences!Kind : p[k] \in Preferences!Choice[k] \union {""}
  BY DEF Prefs, Preferences!Prefs, Preferences!Kind, Preferences!Choice

\* The preferences p with v for k.
With(p, k, v) == [p EXCEPT ![k] = v]

\* One preference changed leaves the other as it was.
LEMMA PrefsWith ==
    ASSUME NEW p \in Prefs, NEW k \in Preferences!Kind, NEW v \in Preferences!Choice[k] \union {""}
    PROVE  /\ With(p, k, v) \in Prefs
           /\ With(p, k, v)[k] = v
           /\ \A j \in Preferences!Kind : j # k => With(p, k, v)[j] = p[j]
<1>1. p = [j \in Preferences!Kind |-> p[j]] /\ \A j \in Preferences!Kind : p[j] \in Preferences!Choice[j] \union {""}
  BY PrefsAre
<1>2. With(p, k, v) = [j \in Preferences!Kind |-> IF j = k THEN v ELSE p[j]]
  BY <1>1 DEF With
<1>3. /\ With(p, k, v) = [j \in Preferences!Kind |-> With(p, k, v)[j]]
      /\ \A j \in Preferences!Kind : With(p, k, v)[j] = IF j = k THEN v ELSE p[j]
  BY <1>2
<1>4. \A j \in Preferences!Kind : With(p, k, v)[j] \in Preferences!Choice[j] \union {""}
  BY <1>1, <1>3
<1> QED BY <1>3, <1>4, PrefsAre

\* getThemeWithFallback and getLocaleWithFallback give a choice, the one there is.
LEMMA FallbackIs ==
    ASSUME local \in Prefs, NEW k \in Preferences!Kind,
           NEW v \in Preferences!Choice[k] \union {""}
    PROVE  /\ Preferences!WithFallback(k, v) \in Preferences!Choice[k]
           /\ v # "" => Preferences!WithFallback(k, v) = v
<1>1. local[k] \in Preferences!Choice[k] \union {""}
  BY PrefsAre
<1>5. k = "theme" \/ k = "locale"
  BY DEF Preferences!Kind
<1>6. /\ Preferences!Choice["theme"] = {"system", "paper"}
      /\ Preferences!Choice["locale"] = {"en", "fa"}
      /\ Preferences!Fallback["theme"] = "system" /\ Preferences!Fallback["locale"] = "en"
  BY DEF Preferences!Fallback, Preferences!Choice
<1>2. Preferences!Fallback[k] \in Preferences!Choice[k]
  BY <1>5, <1>6
<1>3. Preferences!WithFallback(k, v) = IF v # "" THEN v ELSE IF local[k] # "" THEN local[k]
                                       ELSE Preferences!Fallback[k]
  BY DEF Preferences!WithFallback
<1>4. CASE v # ""
  BY <1>3, <1>4
<1>7. CASE v = "" /\ local[k] # ""
  BY <1>1, <1>3, <1>7
<1>8. CASE v = "" /\ local[k] = ""
  BY <1>2, <1>3, <1>8
<1> QED BY <1>4, <1>7, <1>8

\* loadTheme and loadLocale change the one preference they are given.
LEMMA LoadGives ==
    ASSUME Chosen, NEW k \in Preferences!Kind, NEW v \in Preferences!Choice[k] \union {""},
           Preferences!Load(k, v)
    PROVE  /\ applied' \in Prefs /\ local' \in Prefs
           /\ applied'[k] = v
           /\ \A j \in Preferences!Kind : j # k => applied'[j] = applied[j]
           /\ drawn' = IF k = "theme" THEN dark ELSE drawn
<1>1. /\ applied' = With(applied, k, v) /\ local' = With(local, k, v)
      /\ drawn' = IF k = "theme" THEN dark ELSE drawn
  BY Zenon DEF Preferences!Load, With
<1>2. applied \in Prefs /\ local \in Prefs
  BY DEF Chosen
<1> QED BY <1>1, <1>2, PrefsWith

\* What the effects make of a copy of the settings.
LEMMA EffectsGive ==
    ASSUME Chosen, NEW new \in Prefs, Preferences!Effects(new)
    PROVE  /\ applied' \in Prefs /\ local' \in Prefs /\ listens' \in BOOLEAN
           /\ \A k \in Preferences!Kind :
                  IF new[k] = setting[k] THEN applied'[k] = applied[k]
                  ELSE new[k] # "" => applied'[k] = new[k]
           /\ IF new.theme = setting.theme
              THEN drawn' = drawn /\ listens' = listens
              ELSE drawn' = dark /\ listens' = (applied'.theme = "system")
<1> DEFINE K == Preferences!Kind
           ap == [k \in K |-> IF new[k] # setting[k] THEN Preferences!WithFallback(k, new[k])
                              ELSE applied[k]]
           lo == [k \in K |-> IF new[k] # setting[k] THEN ap[k] ELSE local[k]]
<1>1. applied' = ap /\ local' = lo
  BY DEF Preferences!Effects
<1>2. \A k \in K : /\ new[k] \in Preferences!Choice[k] \union {""}
                   /\ applied[k] \in Preferences!Choice[k] \union {""}
                   /\ local[k] \in Preferences!Choice[k] \union {""}
  BY PrefsAre DEF Chosen
<1>3. \A k \in K : /\ Preferences!WithFallback(k, new[k]) \in Preferences!Choice[k]
                   /\ new[k] # "" => Preferences!WithFallback(k, new[k]) = new[k]
  BY <1>2, FallbackIs DEF Chosen
<1>4. \A k \in K : ap[k] \in Preferences!Choice[k] \union {""} /\ lo[k] \in Preferences!Choice[k] \union {""}
  BY <1>2, <1>3
<1>5. ap \in Prefs /\ lo \in Prefs
  BY <1>4, PrefsAre
<1>6. \A k \in K : IF new[k] = setting[k] THEN ap[k] = applied[k] ELSE new[k] # "" => ap[k] = new[k]
  BY <1>3
<1>7. /\ new.theme = setting.theme => drawn' = drawn /\ listens' = listens
      /\ new.theme # setting.theme => drawn' = dark /\ listens' = (applied'.theme = "system")
  BY DEF Preferences!Effects, Preferences!Kind
<1>8. listens' \in BOOLEAN
  BY <1>7 DEF Chosen
<1> HIDE DEF ap, lo
<1> QED BY <1>1, <1>5, <1>6, <1>7, <1>8

(***************************************************************************)
(* The calls                                                               *)
(***************************************************************************)

\* A save keeps its kind and its value when it moves on.
LEMMA SavingAre ==
    ASSUME NEW s \in Saving
    PROVE  /\ s \in Preferences!Save /\ s.kind \in Preferences!Kind
           /\ s.val \in Preferences!Choice[s.kind]
           /\ [s EXCEPT !.latest = FALSE] \in Saving
           /\ [s EXCEPT !.pc = "applied"] \in Saving
<1>1. s \in Preferences!Save /\ s.val \in Preferences!Choice[s.kind]
  BY DEF Saving
<1>2. s.kind \in Preferences!Kind
  BY <1>1 DEF Preferences!Save
<1>3. ASSUME NEW t \in Preferences!Save, t.kind = s.kind, t.val = s.val
      PROVE  t \in Saving
  BY <1>1, <1>3 DEF Saving
<1>4. /\ [s EXCEPT !.latest = FALSE] \in Preferences!Save
      /\ [s EXCEPT !.latest = FALSE].kind = s.kind /\ [s EXCEPT !.latest = FALSE].val = s.val
  BY <1>1 DEF Preferences!Save
<1>5. /\ [s EXCEPT !.pc = "applied"] \in Preferences!Save
      /\ [s EXCEPT !.pc = "applied"].kind = s.kind /\ [s EXCEPT !.pc = "applied"].val = s.val
  BY <1>1 DEF Preferences!Save
<1> QED BY <1>1, <1>2, <1>3, <1>4, <1>5

\* What a choice sends is a save.
LEMMA ChosenMade ==
    ASSUME NEW k \in Preferences!Kind, NEW v \in Preferences!Choice[k], NEW w \in {"menu", "section"}
    PROVE  [kind |-> k, val |-> v, at |-> w, latest |-> TRUE, pc |-> "sent"] \in Saving
<1>1. v \in Preferences!Choice.theme \union Preferences!Choice.locale
  BY DEF Preferences!Kind, Preferences!Choice
<1> QED BY <1>1 DEF Saving, Preferences!Save

\* Superseded saves are as many, and still saves.
LEMMA SupersededAre ==
    ASSUME saves \in Seq(Saving), NEW w
    PROVE  Preferences!Superseded(w) \in Seq(Saving) /\ Len(Preferences!Superseded(w)) = Len(saves)
<1>1. \A i \in 1..Len(saves) : saves[i] \in Saving
  OBVIOUS
<1>2. \A i \in 1..Len(saves) : [saves[i] EXCEPT !.latest = FALSE] \in Saving
  BY <1>1, SavingAre
<1> DEFINE n == Len(saves)
           g(i) == IF saves[i].at = w THEN [saves[i] EXCEPT !.latest = FALSE] ELSE saves[i]
<1>3. Preferences!Superseded(w) = [i \in 1..n |-> g(i)]
  BY DEF Preferences!Superseded
<1>4. n \in Nat /\ \A i \in 1..n : g(i) \in Saving
  BY <1>1, <1>2
<1> HIDE DEF g, n
<1>5. [i \in 1..n |-> g(i)] \in Seq(Saving) /\ Len([i \in 1..n |-> g(i)]) = n
  BY <1>4
<1> USE DEF n
<1> QED BY <1>3, <1>5

\* A call answered leaves calls, and none when it was alone.
LEMMA RemovedAre ==
    ASSUME NEW S, NEW q \in Seq(S), NEW i \in DOMAIN q
    PROVE  /\ Preferences!RemoveAt(q, i) \in Seq(S)
           /\ Len(q) <= 1 => Preferences!RemoveAt(q, i) = <<>>
<1>1. Preferences!RemoveAt(q, i) = RemoveAt(q, i)
  BY Zenon DEF Preferences!RemoveAt, RemoveAt
<1>2. i \in 1..Len(q) /\ Len(q) \in Nat
  OBVIOUS
<1>3. Len(q) <= 1 => i = 1 /\ Len(q) = 1
  <2> DEFINE n == Len(q)
  <2>1. i \in 1..n /\ n \in Nat
    BY <1>2
  <2> HIDE DEF n
  <2>2. n <= 1 => i = 1 /\ n = 1
    BY <2>1
  <2> USE DEF n
  <2> QED BY <2>2
<1>4. RemoveAt(q, i) \in Seq(S)
  BY FirstAnswered
<1>5. i = 1 /\ Len(q) = 1 => RemoveAt(q, i) = <<>>
  BY FirstAnswered
<1> QED BY <1>1, <1>3, <1>4, <1>5

\* A fetch more, not read yet.
LEMMA RefetchedAre ==
    ASSUME fetches \in Seq(Preferences!Fetch)
    PROVE  /\ Preferences!Refetched \in Seq(Preferences!Fetch)
           /\ Len(Preferences!Refetched) = Len(fetches) + 1
           /\ fetches = <<>> => Preferences!Refetched[1].pc = "sent"
<1> DEFINE f == [pc |-> "sent", val |-> [k \in Preferences!Kind |-> ""]]
<1>1. [k \in Preferences!Kind |-> ""] \in Prefs
  BY PrefsAre
<1>2. f \in Preferences!Fetch /\ f.pc = "sent"
  BY <1>1 DEF Preferences!Fetch, Prefs
<1>3. Preferences!Refetched = Append(fetches, f)
  BY DEF Preferences!Refetched
<1> HIDE DEF f
<1> QED BY <1>2, <1>3

\* What stands for a tab without settings is no value of a setting.
LEMMA NobodyIs ==
    /\ Preferences!Nobody \notin Prefs
    /\ Preferences!Nobody.theme = "none" /\ Preferences!Nobody.locale = "none"
    /\ \A k \in Preferences!Kind : Preferences!Nobody[k] = "none"
    /\ \A p \in Prefs, k \in Preferences!Kind : p[k] # "none"
<1>1. \A k \in Preferences!Kind : "none" \notin Preferences!Choice[k] \union {""}
  BY DEF Preferences!Kind, Preferences!Choice
<1>2. \A p \in Prefs, k \in Preferences!Kind : p[k] # "none"
  BY <1>1, PrefsAre
<1>3. /\ \A k \in Preferences!Kind : Preferences!Nobody[k] = "none"
      /\ Preferences!Nobody.theme = "none" /\ Preferences!Nobody.locale = "none"
  BY DEF Preferences!Nobody, Preferences!Kind
<1>4. "theme" \in Preferences!Kind
  BY DEF Preferences!Kind
<1> QED BY <1>2, <1>3, <1>4

\* Every step leaves choices where choices are kept.
LEMMA StepChosen ==
    ASSUME Chosen, Calls, Preferences!Next
    PROVE  Chosen'
<1> USE DEF Chosen
<1>1. ASSUME NEW k \in Preferences!Kind, NEW v \in Preferences!Choice[k], NEW w \in {"menu", "section"},
             Preferences!Choose(k, v, w) \/ Preferences!ChooseSignedOut(k, v)
      PROVE  Chosen'
  <2>1. Preferences!Load(k, v) /\ UNCHANGED <<saved, setting, listens, failures>>
    BY <1>1, Zenon DEF Preferences!Choose, Preferences!ChooseSignedOut
  <2> QED BY <2>1, LoadGives
<1>2. ASSUME NEW k \in Preferences!Kind, NEW v \in Preferences!Choice[k],
             Preferences!ChosenElsewhere(k, v)
      PROVE  Chosen'
  <2>1. /\ local' = With(local, k, v) \/ local' = local
        /\ saved' = With(saved, k, v) \/ saved' = saved
        /\ UNCHANGED <<setting, applied, listens, failures>>
    BY <1>2, Zenon DEF Preferences!ChosenElsewhere, With
  <2>2. v \in Preferences!Choice[k] \union {""}
    OBVIOUS
  <2>3. With(saved, k, v) \in Prefs /\ With(local, k, v) \in Prefs
    BY <2>2, PrefsWith
  <2> QED BY <2>1, <2>3
<1>3. CASE Preferences!LeavePreferences \/ Preferences!refetchSettings
  BY <1>3 DEF Preferences!LeavePreferences, Preferences!refetchSettings
<1>4. ASSUME NEW i \in DOMAIN saves, Preferences!SaveApplied(i) PROVE Chosen'
  <2>1. saves[i].kind \in Preferences!Kind /\ saves[i].val \in Preferences!Choice[saves[i].kind]
    <3>1. saves[i] \in Saving
      BY DEF Calls
    <3> QED BY <3>1, SavingAre
  <2>2. saved' = With(saved, saves[i].kind, saves[i].val) /\ UNCHANGED <<local, setting, applied, listens, failures>>
    BY <1>4, Zenon DEF Preferences!SaveApplied, With
  <2> QED BY <2>1, <2>2, PrefsWith
<1>5. ASSUME NEW i \in DOMAIN saves, Preferences!SaveAnswered(i) \/ Preferences!SaveFails(i) PROVE Chosen'
  BY <1>5 DEF Preferences!SaveAnswered, Preferences!SaveFails, Preferences!Fault
<1>6. ASSUME NEW i \in DOMAIN fetches, Preferences!FetchRead(i) \/ Preferences!FetchFails(i) PROVE Chosen'
  BY <1>6 DEF Preferences!FetchRead, Preferences!FetchFails, Preferences!Fault
<1>7. ASSUME NEW i \in DOMAIN fetches, Preferences!FetchAnswered(i) PROVE Chosen'
  <2>1. fetches[i].val \in Prefs
    <3>1. fetches[i] \in Preferences!Fetch
      BY DEF Calls
    <3> QED BY <3>1 DEF Preferences!Fetch, Prefs
  <2>2. Preferences!Effects(fetches[i].val) /\ setting' = fetches[i].val /\ UNCHANGED <<saved, failures>>
    BY <1>7, Zenon DEF Preferences!FetchAnswered
  <2> QED BY <2>1, <2>2, EffectsGive
<1>8. CASE Preferences!SignIn
  <2>1. Preferences!Effects(saved) /\ setting' = saved /\ UNCHANGED <<saved, failures>>
    BY <1>8, Zenon DEF Preferences!SignIn
  <2> QED BY <2>1, EffectsGive
<1>9. CASE Preferences!Reload
  <2> DEFINE a == [k \in Preferences!Kind |-> Preferences!WithFallback(k, local[k])]
  <2>1. a \in Prefs
    <3>1. \A k \in Preferences!Kind : local[k] \in Preferences!Choice[k] \union {""}
      BY PrefsAre
    <3>2. \A k \in Preferences!Kind : a[k] \in Preferences!Choice[k] \union {""}
      BY <3>1, FallbackIs
    <3> QED BY <3>2, PrefsAre
  <2>2. /\ applied' = a /\ local' = a /\ listens' \in BOOLEAN
        /\ setting' = Preferences!Nobody /\ saved' = saved /\ failures' = failures
    BY <1>9 DEF Preferences!Reload
  <2> HIDE DEF a
  <2> QED BY <2>1, <2>2
<1>10. CASE Preferences!SystemChanges
  <2>1. "theme" \in Preferences!Kind /\ "system" \in Preferences!Choice["theme"]
    BY DEF Preferences!Kind, Preferences!Choice
  <2>2. /\ applied' = With(applied, "theme", "system") \/ applied' = applied
        /\ local' = With(local, "theme", "system") \/ local' = local
        /\ UNCHANGED <<saved, setting, listens, failures>>
    BY <1>10 DEF Preferences!SystemChanges, With
  <2>3. "system" \in Preferences!Choice["theme"] \union {""}
    BY <2>1
  <2>4. With(applied, "theme", "system") \in Prefs /\ With(local, "theme", "system") \in Prefs
    BY <2>1, <2>3, PrefsWith
  <2> QED BY <2>2, <2>4
<1> QED BY <1>1, <1>2, <1>3, <1>4, <1>5, <1>6, <1>7, <1>8, <1>9, <1>10 DEF Preferences!Next

\* Every step leaves calls, and only a tab that has the settings makes any.
LEMMA StepCalls ==
    ASSUME Chosen, Calls, Preferences!Next
    PROVE  Calls'
<1>1. ASSUME NEW k \in Preferences!Kind, NEW v \in Preferences!Choice[k], NEW w \in {"menu", "section"},
             Preferences!Choose(k, v, w)
      PROVE  Calls'
  <2> DEFINE c == [kind |-> k, val |-> v, at |-> w, latest |-> TRUE, pc |-> "sent"]
  <2>1. c \in Saving
    BY ChosenMade
  <2>2. /\ saves' = Append(Preferences!Superseded(w), c)
        /\ fetches' = fetches /\ setting' = setting /\ setting # Preferences!Nobody
    BY <1>1 DEF Preferences!Choose
  <2> HIDE DEF c
  <2>3. Preferences!Superseded(w) \in Seq(Saving)
    BY SupersededAre DEF Calls
  <2> QED BY <2>1, <2>2, <2>3 DEF Calls
<1>2. ASSUME NEW k \in Preferences!Kind, NEW v \in Preferences!Choice[k],
             Preferences!ChooseSignedOut(k, v) \/ Preferences!ChosenElsewhere(k, v)
      PROVE  Calls'
  BY <1>2 DEF Preferences!ChooseSignedOut, Preferences!ChosenElsewhere, Calls, Preferences!Quiet
<1>3. CASE Preferences!LeavePreferences
  <2>1. saves' = Preferences!Superseded("section") /\ fetches' = fetches /\ setting' = setting
    BY <1>3 DEF Preferences!LeavePreferences
  <2>2. Preferences!Superseded("section") \in Seq(Saving) /\ Len(Preferences!Superseded("section")) = Len(saves)
    BY SupersededAre DEF Calls
  <2>3. saves = <<>> => Preferences!Superseded("section") = <<>>
    BY <2>2
  <2> QED BY <2>1, <2>2, <2>3 DEF Calls, Preferences!Quiet
<1>4. ASSUME NEW i \in DOMAIN saves, Preferences!SaveApplied(i) PROVE Calls'
  <2> DEFINE c == [saves[i] EXCEPT !.pc = "applied"]
  <2>1. c \in Saving
    <3>1. saves[i] \in Saving
      BY DEF Calls
    <3> QED BY <3>1, SavingAre
  <2>2. saves' = [saves EXCEPT ![i] = c] /\ fetches' = fetches /\ setting' = setting
    BY <1>4 DEF Preferences!SaveApplied
  <2> HIDE DEF c
  <2> QED BY <2>1, <2>2 DEF Calls, Preferences!Quiet
<1>5. ASSUME NEW i \in DOMAIN saves, Preferences!SaveAnswered(i) \/ Preferences!SaveFails(i) PROVE Calls'
  <2>1. /\ saves' = Preferences!RemoveAt(saves, i) /\ setting' = setting
        /\ fetches' = fetches \/ fetches' = Preferences!Refetched
    BY <1>5 DEF Preferences!SaveAnswered, Preferences!SaveFails
  <2>2. Preferences!RemoveAt(saves, i) \in Seq(Saving)
    BY RemovedAre DEF Calls
  <2>3. Preferences!Refetched \in Seq(Preferences!Fetch)
    BY RefetchedAre DEF Calls
  <2>4. saves # <<>>
    BY DEF Calls
  <2> QED BY <2>1, <2>2, <2>3, <2>4 DEF Calls, Preferences!Quiet
<1>6. CASE Preferences!refetchSettings
  BY <1>6, RefetchedAre DEF Preferences!refetchSettings, Calls
<1>7. ASSUME NEW i \in DOMAIN fetches, Preferences!FetchRead(i) PROVE Calls'
  <2> DEFINE f == [pc |-> "read", val |-> saved]
  <2>1. f \in Preferences!Fetch
    BY DEF Chosen, Preferences!Fetch, Prefs
  <2>2. fetches' = [fetches EXCEPT ![i] = f] /\ saves' = saves /\ setting' = setting
    BY <1>7 DEF Preferences!FetchRead
  <2>3. fetches # <<>>
    BY DEF Calls
  <2> HIDE DEF f
  <2> QED BY <2>1, <2>2, <2>3 DEF Calls, Preferences!Quiet
<1>8. ASSUME NEW i \in DOMAIN fetches, Preferences!FetchAnswered(i) PROVE Calls'
  <2>1. fetches' = Preferences!RemoveAt(fetches, i) /\ saves' = saves /\ setting' = fetches[i].val
    BY <1>8 DEF Preferences!FetchAnswered
  <2>2. fetches[i].val \in Prefs
    <3>1. fetches[i] \in Preferences!Fetch
      BY DEF Calls
    <3> QED BY <3>1 DEF Preferences!Fetch, Prefs
  <2>3. Preferences!RemoveAt(fetches, i) \in Seq(Preferences!Fetch)
    BY RemovedAre DEF Calls
  <2> QED BY <2>1, <2>2, <2>3, NobodyIs DEF Calls
<1>9. ASSUME NEW i \in DOMAIN fetches, Preferences!FetchFails(i) PROVE Calls'
  <2>1. fetches' = Preferences!RemoveAt(fetches, i) /\ saves' = saves /\ setting' = setting
    BY <1>9 DEF Preferences!FetchFails
  <2>2. fetches # <<>>
    BY DEF Calls
  <2>3. Preferences!RemoveAt(fetches, i) \in Seq(Preferences!Fetch)
    BY RemovedAre DEF Calls
  <2> QED BY <2>1, <2>2, <2>3 DEF Calls, Preferences!Quiet
<1>10. CASE Preferences!SignIn
  <2>1. setting' = saved /\ saves' = saves /\ fetches' = fetches
    BY <1>10, Zenon DEF Preferences!SignIn
  <2> QED BY <2>1, NobodyIs DEF Chosen, Calls
<1>11. CASE Preferences!Reload
  <2>1. saves' = <<>> /\ fetches' = <<>>
    BY <1>11 DEF Preferences!Reload
  <2> QED BY <2>1 DEF Calls, Preferences!Quiet
<1>12. CASE Preferences!SystemChanges
  BY <1>12 DEF Preferences!SystemChanges, Calls, Preferences!Quiet
<1> QED BY <1>1, <1>2, <1>3, <1>4, <1>5, <1>6, <1>7, <1>8, <1>9, <1>10, <1>11, <1>12 DEF Preferences!Next

\* The effects set up the listener for the theme they load.
LEMMA EffectsListening ==
    ASSUME Chosen, Listening, NEW new \in Prefs, Preferences!Effects(new), setting' = new, dark' = dark
    PROVE  Listening'
<1>1. /\ IF new["theme"] = setting["theme"] THEN applied'["theme"] = applied["theme"]
         ELSE new["theme"] # "" => applied'["theme"] = new["theme"]
      /\ IF new.theme = setting.theme
         THEN drawn' = drawn /\ listens' = listens
         ELSE drawn' = dark /\ listens' = (applied'.theme = "system")
  BY EffectsGive DEF Preferences!Kind
<1>2. CASE new.theme = setting.theme
  BY <1>1, <1>2 DEF Listening, Preferences!FollowsSystem
<1>3. CASE new.theme # setting.theme
  BY <1>1, <1>3 DEF Listening, Preferences!FollowsSystem
<1> QED BY <1>2, <1>3

\* The theme changes in the setting only where the effects follow.
LEMMA StepListening ==
    ASSUME Chosen, Calls, Listening, Preferences!Next
    PROVE  Listening'
<1>1. ASSUME UNCHANGED <<setting, applied, dark, drawn, listens>>
      PROVE  Listening'
  BY <1>1 DEF Listening, Preferences!FollowsSystem
<1>2. ASSUME NEW k \in Preferences!Kind, NEW v \in Preferences!Choice[k], NEW w \in {"menu", "section"},
             Preferences!Choose(k, v, w) \/ Preferences!ChooseSignedOut(k, v)
      PROVE  Listening'
  <2>1. Preferences!Load(k, v) /\ UNCHANGED <<setting, dark, listens>>
    BY <1>2, Zenon DEF Preferences!Choose, Preferences!ChooseSignedOut
  <2>2. IF k = "theme" THEN drawn' = dark ELSE applied'["theme"] = applied["theme"] /\ drawn' = drawn
    BY <2>1, LoadGives DEF Preferences!Kind
  <2> QED BY <2>1, <2>2 DEF Listening, Preferences!FollowsSystem
<1>3. ASSUME NEW k \in Preferences!Kind, NEW v \in Preferences!Choice[k],
             Preferences!ChosenElsewhere(k, v)
      PROVE  Listening'
  BY <1>1, <1>3, Zenon DEF Preferences!ChosenElsewhere
<1>4. CASE Preferences!LeavePreferences \/ Preferences!refetchSettings
  BY <1>1, <1>4, Zenon DEF Preferences!LeavePreferences, Preferences!refetchSettings
<1>5. ASSUME NEW i \in DOMAIN saves,
             Preferences!SaveApplied(i) \/ Preferences!SaveAnswered(i) \/ Preferences!SaveFails(i)
      PROVE  Listening'
  BY <1>1, <1>5, Zenon DEF Preferences!SaveApplied, Preferences!SaveAnswered, Preferences!SaveFails
<1>6. ASSUME NEW i \in DOMAIN fetches, Preferences!FetchRead(i) \/ Preferences!FetchFails(i)
      PROVE  Listening'
  BY <1>1, <1>6, Zenon DEF Preferences!FetchRead, Preferences!FetchFails
<1>7. ASSUME NEW i \in DOMAIN fetches, Preferences!FetchAnswered(i) PROVE Listening'
  <2>1. fetches[i].val \in Prefs
    <3>1. fetches[i] \in Preferences!Fetch
      BY DEF Calls
    <3> QED BY <3>1 DEF Preferences!Fetch, Prefs
  <2>2. Preferences!Effects(fetches[i].val) /\ setting' = fetches[i].val /\ dark' = dark
    BY <1>7, Zenon DEF Preferences!FetchAnswered
  <2> QED BY <2>1, <2>2, EffectsListening
<1>8. CASE Preferences!SignIn
  <2>1. Preferences!Effects(saved) /\ setting' = saved /\ dark' = dark
    BY <1>8, Zenon DEF Preferences!SignIn
  <2>2. saved \in Prefs
    BY DEF Chosen
  <2> QED BY <2>1, <2>2, EffectsListening
<1>9. CASE Preferences!Reload
  <2>1. setting' = Preferences!Nobody
    BY <1>9 DEF Preferences!Reload
  <2> QED BY <2>1, NobodyIs DEF Listening, Preferences!FollowsSystem
<1>10. CASE Preferences!SystemChanges
  <2>1. setting' = setting /\ listens' = listens /\ dark' = ~dark
    BY <1>10, Zenon DEF Preferences!SystemChanges
  <2>2. listens => drawn' = ~dark
    BY <1>10, Zenon DEF Preferences!SystemChanges
  <2> QED BY <2>1, <2>2 DEF Listening, Preferences!FollowsSystem
<1> QED BY <1>2, <1>3, <1>4, <1>5, <1>6, <1>7, <1>8, <1>9, <1>10 DEF Preferences!Next

\* Arithmetic of two queues with at most one call between them.
LEMMA AtMostOne ==
    /\ 0 + 0 <= 1
    /\ \A m, n \in Nat : m + n <= 1 => (m # 0 => m = 1 /\ n = 0) /\ (n # 0 => n = 1 /\ m = 0)
  OBVIOUS

\* The effects of a copy that is what is saved show what is saved.
LEMMA EffectsShow ==
    ASSUME Chosen, NEW new \in Prefs, Preferences!Effects(new), new = saved, saved' = saved, setting' = new,
           saves' = <<>>, fetches' = <<>>,
           \A k \in Preferences!Kind : setting[k] = saved[k] /\ saved[k] # "" => applied[k] = saved[k]
    PROVE  ShowsSaved'
<1>1. \A k \in Preferences!Kind : IF new[k] = setting[k] THEN applied'[k] = applied[k]
                                  ELSE new[k] # "" => applied'[k] = new[k]
  BY EffectsGive
<1>2. \A k \in Preferences!Kind : saved[k] # "" => applied'[k] = saved[k] /\ setting'[k] = saved[k]
  BY <1>1
<1>3. \A k : Wanted(k)' = saved[k]
  BY DEF Wanted
<1>4. Len(saves') + Len(fetches') <= 1
  <2>1. Len(saves') = 0 /\ Len(fetches') = 0
    OBVIOUS
  <2> QED BY <2>1, AtMostOne, Zenon
<1> QED BY <1>2, <1>3, <1>4 DEF ShowsSaved

\* A choice is shown at once, saved, fetched and found to be shown already; a
\* second call meanwhile is an overlap.
LEMMA StepShows ==
    ASSUME Chosen, Calls, Listening, ShowsSaved, Preferences!Next
    PROVE  ShowsSaved'
<1> SUFFICES ASSUME failures' = 0, ~mixed', setting' # Preferences!Nobody
             PROVE  ShowsSaved'
  BY DEF ShowsSaved
<1> DEFINE K == Preferences!Kind
           Good == failures = 0 /\ ~mixed /\ setting # Preferences!Nobody
<1>a. /\ saves \in Seq(Saving) /\ fetches \in Seq(Preferences!Fetch)
      /\ failures \in Nat /\ Len(saves) \in Nat /\ Len(fetches) \in Nat
  BY DEF Calls, Chosen
<1>b. Good => /\ Len(saves) + Len(fetches) <= 1
              /\ \A k \in K : setting[k] = Wanted(k) /\ Wanted(k) # "" => applied[k] = Wanted(k)
              /\ Preferences!Quiet => \A k \in K : saved[k] # "" => setting[k] = saved[k]
              /\ saves # <<>> => /\ saves[1].latest
                                 /\ saves[1].pc = "applied" => saved[saves[1].kind] = saves[1].val
              /\ fetches # <<>> /\ fetches[1].pc = "read" => fetches[1].val = saved
  BY DEF ShowsSaved
<1>c. ASSUME Good, saves # <<>> PROVE Len(saves) = 1 /\ fetches = <<>> /\ saves[1] \in Saving
  <2>1. Len(saves) + Len(fetches) <= 1
    BY <1>b, <1>c, Zenon
  <2>2. Len(saves) # 0
    BY <1>a, <1>c
  <2>3. Len(saves) = 1 /\ Len(fetches) = 0
    BY <1>a, <2>1, <2>2, AtMostOne, Zenon
  <2>4. fetches = <<>>
    BY <1>a, <2>3
  <2>5. saves[1] \in Saving
    BY <1>a, <2>3
  <2> QED BY <2>3, <2>4, <2>5
<1>d. ASSUME Good, fetches # <<>> PROVE Len(fetches) = 1 /\ saves = <<>> /\ fetches[1] \in Preferences!Fetch
  <2>1. Len(saves) + Len(fetches) <= 1
    BY <1>b, <1>d, Zenon
  <2>2. Len(fetches) # 0
    BY <1>a, <1>d
  <2>3. Len(fetches) = 1 /\ Len(saves) = 0
    BY <1>a, <2>1, <2>2, AtMostOne, Zenon
  <2>4. saves = <<>>
    BY <1>a, <2>3
  <2>5. fetches[1] \in Preferences!Fetch
    BY <1>a, <2>3
  <2> QED BY <2>3, <2>4, <2>5
<1>1. ASSUME NEW k \in K, NEW v \in Preferences!Choice[k], NEW w \in {"menu", "section"},
             Preferences!Choose(k, v, w)
      PROVE  ShowsSaved'
  <2> DEFINE c == [kind |-> k, val |-> v, at |-> w, latest |-> TRUE, pc |-> "sent"]
  <2>1. /\ saves' = Append(Preferences!Superseded(w), c)
        /\ UNCHANGED <<saved, fetches, setting, failures>> /\ Preferences!Load(k, v)
    BY <1>1 DEF Preferences!Choose
  <2>2. ~mixed /\ Preferences!Quiet
    BY <1>1, Zenon DEF Preferences!Choose
  <2>3. Good
    BY <2>1, <2>2
  <2>4. Preferences!Superseded(w) = <<>>
    <3>1. Preferences!Superseded(w) \in Seq(Saving) /\ Len(Preferences!Superseded(w)) = 0
      BY <2>2, SupersededAre DEF Calls, Preferences!Quiet
    <3> QED BY <3>1
  <2>5. saves' = <<c>> /\ fetches' = <<>>
    BY <2>1, <2>2, <2>4 DEF Preferences!Quiet
  <2>6. c.kind = k /\ c.val = v /\ c.latest /\ c.pc = "sent"
    OBVIOUS
  <2> HIDE DEF c
  <2>7. \A j \in K : Wanted(j)' = IF j = k THEN v ELSE saved[j]
    BY <2>1, <2>5, <2>6 DEF Wanted
  <2>8. \A j \in K : setting[j] = saved[j] /\ saved[j] # "" => applied[j] = saved[j]
    BY <1>b, <2>2, <2>3 DEF Wanted, Preferences!Quiet
  <2>9. applied'[k] = v /\ \A j \in K : j # k => applied'[j] = applied[j]
    BY <2>1, LoadGives
  <2>10. \A j \in K : setting'[j] = Wanted(j)' /\ Wanted(j)' # "" => applied'[j] = Wanted(j)'
    BY <2>1, <2>7, <2>8, <2>9
  <2>11. /\ Len(saves') + Len(fetches') <= 1 /\ ~Preferences!Quiet'
         /\ saves'[1] = c /\ fetches' = <<>>
    BY <2>5 DEF Preferences!Quiet
  <2> QED BY <2>6, <2>10, <2>11 DEF ShowsSaved
<1>2. ASSUME NEW k \in K, NEW v \in Preferences!Choice[k],
             Preferences!ChooseSignedOut(k, v) \/ Preferences!ChosenElsewhere(k, v)
      PROVE  ShowsSaved'
  <2>1. CASE Preferences!ChooseSignedOut(k, v)
    BY <2>1 DEF Preferences!ChooseSignedOut
  <2>2. CASE Preferences!ChosenElsewhere(k, v)
    <3>1. UNCHANGED <<saved, mixed>>
      BY <2>2, Zenon DEF Preferences!ChosenElsewhere
    <3>2. UNCHANGED <<setting, applied, saves, fetches, failures>>
      BY <2>2, Zenon DEF Preferences!ChosenElsewhere
    <3> QED BY <3>1, <3>2 DEF ShowsSaved, Wanted, Preferences!Quiet
  <2> QED BY <1>2, <2>1, <2>2
<1>3. CASE Preferences!LeavePreferences
  BY <1>3, Zenon DEF Preferences!LeavePreferences
<1>4. ASSUME NEW i \in DOMAIN saves, Preferences!SaveApplied(i) PROVE ShowsSaved'
  <2> DEFINE c == [saves[1] EXCEPT !.pc = "applied"]
             s == saves[1]
  <2>1. UNCHANGED <<fetches, setting, applied, failures, mixed>>
    BY <1>4, Zenon DEF Preferences!SaveApplied
  <2>2. Good /\ saves # <<>>
    BY <2>1, <1>a
  <2>3. i = 1 /\ Len(saves) = 1 /\ fetches = <<>> /\ s \in Saving
    BY <1>a, <1>c, <2>2
  <2>4. saved' = With(saved, s.kind, s.val) /\ saves' = [saves EXCEPT ![1] = c]
    BY <1>4, <2>3, Zenon DEF Preferences!SaveApplied, With
  <2>5. saves' = <<c>>
    BY <1>a, <2>3, <2>4
  <2>6. /\ s.kind \in K /\ s.val \in Preferences!Choice[s.kind] \union {""}
        /\ c.kind = s.kind /\ c.val = s.val /\ c.latest = s.latest
    BY <2>3, SavingAre DEF Preferences!Save
  <2>7. saved'[s.kind] = s.val /\ \A j \in K : j # s.kind => saved'[j] = saved[j]
    <3> HIDE DEF s, c, K
    <3>1. saved \in Prefs
      BY DEF Chosen
    <3> USE DEF K
    <3>2. /\ With(saved, s.kind, s.val)[s.kind] = s.val
          /\ \A j \in K : j # s.kind => With(saved, s.kind, s.val)[j] = saved[j]
      BY <2>6, <3>1, PrefsWith
    <3> QED BY <2>4, <3>2
  <2>8. s.latest
    BY <1>b, <2>2
  <2> HIDE DEF c
  <2>9. \A j \in K : Wanted(j)' = Wanted(j)
    BY <2>2, <2>5, <2>6, <2>7 DEF Wanted
  <2>10. /\ Len(saves') + Len(fetches') <= 1 /\ ~Preferences!Quiet'
         /\ saves'[1] = c /\ fetches' = <<>>
    BY <2>1, <2>3, <2>5 DEF Preferences!Quiet
  <2>11. \A j \in K : setting'[j] = Wanted(j)' /\ Wanted(j)' # "" => applied'[j] = Wanted(j)'
    BY <1>b, <2>1, <2>2, <2>9
  <2>12. c.latest /\ saved'[c.kind] = c.val
    BY <2>6, <2>7, <2>8
  <2> HIDE DEF s
  <2> QED BY <2>10, <2>11, <2>12 DEF ShowsSaved
<1>5. ASSUME NEW i \in DOMAIN saves, Preferences!SaveAnswered(i) PROVE ShowsSaved'
  <2>1. UNCHANGED <<saved, setting, applied, failures, mixed>>
    BY <1>5, Zenon DEF Preferences!SaveAnswered
  <2>2. Good /\ saves # <<>>
    BY <2>1, <1>a
  <2>3. i = 1 /\ Len(saves) = 1 /\ fetches = <<>>
    BY <1>a, <1>c, <2>2
  <2>4. /\ saves' = Preferences!RemoveAt(saves, 1) /\ saves[1].pc = "applied"
        /\ fetches' = IF saves[1].latest THEN Preferences!Refetched ELSE fetches
    BY <1>5, <2>3 DEF Preferences!SaveAnswered
  <2>10. Preferences!RemoveAt(saves, 1) = <<>>
    <3>1. 1 \in DOMAIN saves /\ Len(saves) <= 1
      BY <1>a, <2>3
    <3> QED BY <1>a, <3>1, RemovedAre
  <2>11. saves[1].latest
    BY <1>b, <2>2
  <2>5. saves' = <<>> /\ fetches' = Preferences!Refetched
    BY <2>4, <2>10, <2>11
  <2>6. Len(fetches') = 1 /\ fetches' # <<>> /\ fetches'[1].pc = "sent"
    BY <1>a, <2>3, <2>5, RefetchedAre
  <2>7. \A j \in K : Wanted(j)' = Wanted(j)
    <3>1. \A j \in K : Wanted(j)' = saved[j]
      BY <2>1, <2>5 DEF Wanted
    <3>2. \A j \in K : Wanted(j) = saved[j]
      BY <1>b, <2>2, <2>4 DEF Wanted
    <3> QED BY <3>1, <3>2
  <2>8. Len(saves') + Len(fetches') <= 1
    BY <2>5, <2>6
  <2>9. \A j \in K : setting'[j] = Wanted(j)' /\ Wanted(j)' # "" => applied'[j] = Wanted(j)'
    BY <1>b, <2>1, <2>2, <2>7
  <2> QED BY <2>5, <2>6, <2>8, <2>9 DEF ShowsSaved, Preferences!Quiet
<1>6. ASSUME NEW i \in DOMAIN saves, Preferences!SaveFails(i) PROVE ShowsSaved'
  BY <1>a, <1>6 DEF Preferences!SaveFails, Preferences!Fault
<1>7. CASE Preferences!refetchSettings
  <2>1. UNCHANGED <<saved, setting, applied, saves, failures>> /\ fetches' = Preferences!Refetched
    BY <1>7, Zenon DEF Preferences!refetchSettings
  <2>2. ~mixed /\ Preferences!Quiet
    BY <1>7, Zenon DEF Preferences!refetchSettings
  <2>3. Good
    BY <2>1, <2>2
  <2>4. Len(fetches') = 1 /\ fetches' # <<>> /\ fetches'[1].pc = "sent" /\ saves' = <<>>
    BY <1>a, <2>1, <2>2, RefetchedAre DEF Preferences!Quiet
  <2>5. \A j \in K : Wanted(j)' = Wanted(j)
    BY <2>1 DEF Wanted
  <2>6. Len(saves') + Len(fetches') <= 1
    BY <2>4
  <2>7. \A j \in K : setting'[j] = Wanted(j)' /\ Wanted(j)' # "" => applied'[j] = Wanted(j)'
    BY <1>b, <2>1, <2>3, <2>5
  <2> QED BY <2>4, <2>6, <2>7 DEF ShowsSaved, Preferences!Quiet
<1>8. ASSUME NEW i \in DOMAIN fetches, Preferences!FetchRead(i) PROVE ShowsSaved'
  <2> DEFINE f == [pc |-> "read", val |-> saved]
  <2>1. UNCHANGED <<saved, saves, setting, applied, failures, mixed>> /\ fetches' = [fetches EXCEPT ![i] = f]
    BY <1>8, Zenon DEF Preferences!FetchRead
  <2>2. Good /\ fetches # <<>>
    BY <2>1, <1>a
  <2>3. i = 1 /\ Len(fetches) = 1 /\ saves = <<>>
    BY <1>a, <1>d, <2>2
  <2>4. f.val = saved
    OBVIOUS
  <2> HIDE DEF f
  <2>5. fetches' = <<f>>
    BY <1>a, <2>1, <2>3
  <2>6. /\ Len(saves') + Len(fetches') <= 1 /\ ~Preferences!Quiet'
        /\ fetches'[1].val = saved' /\ saves' = <<>>
    <3>1. saves' = <<>> /\ Len(saves') = 0 /\ Len(fetches') = 1 /\ fetches'[1] = f /\ saved' = saved
      BY <2>1, <2>3, <2>5
    <3>2. fetches' # <<>>
      BY <3>1
    <3> QED BY <2>4, <3>1, <3>2 DEF Preferences!Quiet
  <2>7. \A j \in K : Wanted(j)' = Wanted(j)
    BY <2>1 DEF Wanted
  <2>8. \A j \in K : setting'[j] = Wanted(j)' /\ Wanted(j)' # "" => applied'[j] = Wanted(j)'
    BY <1>b, <2>1, <2>2, <2>7
  <2> QED BY <2>6, <2>8 DEF ShowsSaved
<1>9. ASSUME NEW i \in DOMAIN fetches, Preferences!FetchAnswered(i) PROVE ShowsSaved'
  <2>1. UNCHANGED <<saved, saves, failures, mixed>> /\ fetches[i].pc = "read"
    BY <1>9, Zenon DEF Preferences!FetchAnswered
  <2>2. /\ fetches' = Preferences!RemoveAt(fetches, i) /\ setting' = fetches[i].val
        /\ Preferences!Effects(fetches[i].val)
    BY <1>9, Zenon DEF Preferences!FetchAnswered
  <2>3. failures = 0 /\ ~mixed /\ fetches # <<>> /\ setting # Preferences!Nobody
    BY <1>a, <2>1 DEF Calls, Preferences!Quiet
  <2>4. i = 1 /\ Len(fetches) = 1 /\ saves = <<>> /\ fetches[1] \in Preferences!Fetch
    BY <1>a, <1>d, <2>3
  <2>5. fetches[i].val = saved
    BY <1>b, <2>1, <2>3, <2>4
  <2>9. Preferences!RemoveAt(fetches, i) = <<>>
    <3>1. i \in DOMAIN fetches /\ Len(fetches) <= 1
      BY <2>4
    <3> QED BY <1>a, <3>1, RemovedAre
  <2>6. saves' = <<>> /\ fetches' = <<>>
    BY <2>1, <2>2, <2>4, <2>9
  <2>7. \A k \in K : setting[k] = saved[k] /\ saved[k] # "" => applied[k] = saved[k]
    BY <1>b, <2>3, <2>4 DEF Wanted
  <2>8. saved \in Prefs
    BY DEF Chosen
  <2> QED BY <2>1, <2>2, <2>5, <2>6, <2>7, <2>8, EffectsShow
<1>10. ASSUME NEW i \in DOMAIN fetches, Preferences!FetchFails(i) PROVE ShowsSaved'
  BY <1>a, <1>10 DEF Preferences!FetchFails, Preferences!Fault
<1>11. CASE Preferences!SignIn
  <2>1. /\ setting = Preferences!Nobody /\ setting' = saved /\ Preferences!Effects(saved)
        /\ UNCHANGED <<saved, saves, fetches>>
    BY <1>11, Zenon DEF Preferences!SignIn
  <2>2. saves' = <<>> /\ fetches' = <<>>
    BY <2>1 DEF Calls, Preferences!Quiet
  <2>3. \A k \in K : setting[k] # saved[k]
    BY <2>1, NobodyIs DEF Chosen
  <2>4. saved \in Prefs
    BY DEF Chosen
  <2> QED BY <2>1, <2>2, <2>3, <2>4, EffectsShow
<1>12. CASE Preferences!Reload
  BY <1>12 DEF Preferences!Reload
<1>13. CASE Preferences!SystemChanges
  <2>1. UNCHANGED <<saved, setting, saves, fetches, failures, mixed>>
    BY <1>13, Zenon DEF Preferences!SystemChanges
  <2>2. applied' = applied \/ (listens /\ applied' = With(applied, "theme", "system"))
    BY <1>13, Zenon DEF Preferences!SystemChanges, With
  <2>3. Good
    BY <2>1
  <2>4. \A k \in K : Wanted(k)' = Wanted(k)
    BY <2>1 DEF Wanted
  <2>5. ASSUME NEW k \in K, setting[k] = Wanted(k), Wanted(k) # ""
        PROVE  applied'[k] = Wanted(k)
    <3>1. applied[k] = Wanted(k)
      BY <1>b, <2>3, <2>5
    <3>2. CASE applied' = applied
      BY <3>1, <3>2
    <3>3. CASE listens /\ applied' = With(applied, "theme", "system")
      <4>1. "theme" \in K /\ "system" \in Preferences!Choice["theme"] \union {""}
        BY DEF Preferences!Kind, Preferences!Choice
      <4>2. /\ With(applied, "theme", "system")["theme"] = "system"
            /\ \A j \in K : j # "theme" => With(applied, "theme", "system")[j] = applied[j]
        <5>1. applied \in Prefs
          BY DEF Chosen
        <5> QED BY <4>1, <5>1, PrefsWith
      <4>3. CASE k = "theme"
        <5>1. setting \in Prefs
          BY <2>3 DEF Chosen
        <5>2. setting["theme"] \in {"system", "paper", ""}
          BY <4>1, <5>1, PrefsAre DEF Preferences!Choice
        <5>3. setting["theme"] = "system"
          BY <2>5, <3>3, <4>3, <5>2 DEF Listening
        <5> QED BY <2>5, <3>3, <4>2, <4>3, <5>3
      <4> QED BY <3>1, <3>3, <4>2, <4>3
    <3> QED BY <2>2, <3>2, <3>3
  <2>6. \A k \in K : setting'[k] = Wanted(k)' /\ Wanted(k)' # "" => applied'[k] = Wanted(k)'
    BY <2>1, <2>4, <2>5
  <2> QED BY <1>b, <2>1, <2>3, <2>6 DEF ShowsSaved, Preferences!Quiet
<1> QED BY <1>1, <1>2, <1>3, <1>4, <1>5, <1>6, <1>7, <1>8, <1>9, <1>10, <1>11, <1>12, <1>13
        DEF Preferences!Next

\* What every reachable state of the preferences satisfies.
PreferencesInv == Chosen /\ Calls /\ Listening /\ ShowsSaved

\* A first visit shows the fallbacks and has no settings.
LEMMA InitPreferences == Preferences!Init => PreferencesInv
<1> SUFFICES ASSUME Preferences!Init PROVE PreferencesInv
  OBVIOUS
<1>1. /\ saved = [theme |-> "", locale |-> ""] /\ setting = Preferences!Nobody
      /\ local = Preferences!Fallback /\ applied = Preferences!Fallback
      /\ listens = TRUE /\ saves = <<>> /\ fetches = <<>> /\ failures = 0
  BY Zenon DEF Preferences!Init
<1>2. saved \in Prefs /\ Preferences!Fallback \in Prefs
  BY <1>1 DEF Prefs, Preferences!Prefs, Preferences!Choice, Preferences!Fallback
<1>3. Chosen
  BY <1>1, <1>2 DEF Chosen
<1>4. Calls
  <2>1. <<>> \in Seq(Saving) /\ <<>> \in Seq(Preferences!Fetch)
    OBVIOUS
  <2> QED BY <1>1, <2>1 DEF Calls, Preferences!Quiet
<1>5. Listening
  BY <1>1, NobodyIs DEF Listening, Preferences!FollowsSystem
<1>6. ShowsSaved
  BY <1>1 DEF ShowsSaved
<1> QED BY <1>3, <1>4, <1>5, <1>6 DEF PreferencesInv

\* No other part of MCEditor touches the preferences.
LEMMA StepPreferences ==
    ASSUME part = "preferences" => PreferencesInv, [PartsNext]_parts, part' = "preferences"
    PROVE  PreferencesInv'
<1>1. CASE UNCHANGED <<part, preferences>>
  BY <1>1 DEF preferences, PreferencesInv, Chosen, Calls, Listening, ShowsSaved, Wanted,
              Preferences!Quiet, Preferences!FollowsSystem
<1>2. CASE part = "preferences" /\ Preferences!Next
  BY <1>2, StepChosen, StepCalls, StepListening, StepShows DEF PreferencesInv
<1> QED BY <1>1, <1>2 DEF PartsNext, parts

\* The invariant holds in every behaviour that is about the preferences.
LEMMA PreferencesKept == PartsSpec => [](part = "preferences" => PreferencesInv)
<1>1. PartsInit => (part = "preferences" => PreferencesInv)
  BY InitPreferences DEF PartsInit
<1>2. (part = "preferences" => PreferencesInv) /\ [PartsNext]_parts
          => (part = "preferences" => PreferencesInv)'
  BY StepPreferences
<1> QED BY <1>1, <1>2, PTL DEF PartsSpec

\* A tab shows the preferences that are saved once its calls have ended, unless
\* they overlapped or failed or another client saved (UserMenu.tsx,
\* useUserTheme.ts).
THEOREM SavedIsShownAlways == PartsSpec => []SavedIsShown
<1>1. (part = "preferences" => PreferencesInv) => SavedIsShown
  <2> SUFFICES ASSUME PreferencesInv PROVE Preferences!SavedIsShown
    BY DEF SavedIsShown
  <2> QED BY DEF PreferencesInv, ShowsSaved, Wanted, Preferences!SavedIsShown, Preferences!Quiet
<1> QED BY <1>1, PreferencesKept, PTL

\* A tab whose user saved the theme "system" and shows it follows the system's
\* scheme (useUserTheme.ts).
THEOREM SystemFollowed == PartsSpec => []FollowsSystem
<1>1. (part = "preferences" => PreferencesInv) => FollowsSystem
  BY DEF PreferencesInv, Listening, FollowsSystem
<1> QED BY <1>1, PreferencesKept, PTL
=============================================================================
