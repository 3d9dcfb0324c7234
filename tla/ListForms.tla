------------------------------ MODULE ListForms ------------------------------
(***************************************************************************)
(* The sections of the web client that list what a user or an admin has,   *)
(* create and change it in a dialog, delete it after a ConfirmDialog, and  *)
(* fetch the list again: access tokens, webhooks, identity providers,      *)
(* members and shortcuts.  What a section does with an answer differs.     *)
(***************************************************************************)
EXTENDS Naturals, FiniteSets

CONSTANTS
    Item,           \* names the server gives out
    MaxOps,         \* bound: calls that change the server
    MaxFails        \* bound: calls that fail

VARIABLES
    kind,       \* the section shown
    stored,     \* the server: per item its version, 0 if there is none
    shown,      \* the section's list
    form,       \* the dialog: its item and the fields of a provider filled in
    template,   \* the template selected in the provider dialog
    op,         \* what the dialog and the ConfirmDialog are doing
    list,       \* per slot: a list being fetched
    ops,        \* calls sent
    fails,      \* calls failed
    mixed       \* history: a list was fetched while something else went on

vars == <<kind, stored, shown, form, template, op, list, ops, fails, mixed>>

Section == {"tokens", "webhooks", "providers", "members", "shortcuts"}

\* Items have two versions: a member is active or archived, anything else is
\* as created or as edited.
Items == [Item -> 0..2]
Nothing == [i \in Item |-> 0]

\* The provider dialog's fields: what templates fill in, what they cannot.
Part == {"title", "endpoints", "id", "secret"}
Templates == {"known", "custom"}
Filled(t) == IF t = "known" THEN {"title", "endpoints"} ELSE {"title"}

Window == {"dialog", "confirm"}
Slot == {"mount", "dialog", "confirm"}

\* A window waits for a click, its call is sent, applied, or has an answer
\* whose list is awaited.  `seen' is the list as it was when the handler ran.
Op == [pc : {"none", "asked", "sent", "applied", "listing"},
       item : Item \union {0}, seen : Items]
NoOp == [pc |-> "none", item |-> 0, seen |-> Nothing]
List == [pc : {"none", "sent", "read"}, val : Items]
NoList == [pc |-> "none", val |-> Nothing]
Listing == [NoList EXCEPT !.pc = "sent"]

TypeOK ==
    /\ kind \in Section \union {"none"}
    /\ stored \in Items
    /\ shown \in Items
    /\ form \in [item : Item \union {0}, filled : SUBSET Part]
    /\ template \in Templates
    /\ op \in [Window -> Op]
    /\ list \in [Slot -> List]
    /\ ops \in 0..MaxOps /\ fails \in 0..MaxFails
    /\ mixed \in BOOLEAN

NoForm == [item |-> 0, filled |-> {}]

Init ==
    /\ kind = "none"
    /\ stored = [i \in Item |-> IF i = CHOOSE j \in Item : TRUE THEN 1 ELSE 0]
    /\ shown = Nothing
    /\ form = NoForm
    /\ template = "known"
    /\ op = [w \in Window |-> NoOp]
    /\ list = [s \in Slot |-> NoList]
    /\ ops = 0 /\ fails = 0
    /\ mixed = FALSE

Busy == \E s \in Slot : list[s].pc # "none"
Calling(w) == op[w].pc \in {"sent", "applied"}
\* A member is deleted or restored with no window open: nobody waits for it.
Unattended == kind = "members" /\ Calling("confirm") /\ op["confirm"].seen[op["confirm"].item] # 1
Fail == fails < MaxFails /\ fails' = fails + 1

\* The section mounts and fetches its list.
Open(k) ==
    /\ kind = "none"
    /\ kind' = k
    /\ list' = [list EXCEPT !["mount"] = Listing]
    /\ UNCHANGED <<stored, shown, form, template, op, ops, fails, mixed>>

\* Fetching again: a query gives up the fetch under way, the other sections
\* let each of them answer.
Fetching(s) ==
    IF kind = "members"
    THEN [t \in Slot |-> IF t = s THEN Listing ELSE NoList]
    ELSE [list EXCEPT ![s] = Listing]

Fetch(s) ==
    /\ list[s].pc = "none" \/ kind = "members"
    /\ list' = Fetching(s)
    /\ mixed' = (mixed \/ Busy \/ \E w \in Window : Calling(w) /\ s # w)

(***************************************************************************)
(* The dialog                                                              *)
(***************************************************************************)

\* The dialog opens, to create or, from a row's menu, to edit item i.  The
\* shortcut dialog keeps the shortcut it was mounted with, so it always creates.
OpenDialog(i) ==
    /\ op["dialog"].pc = "none" /\ (op["confirm"].pc = "none" \/ Unattended)
    /\ kind # "none"
    /\ i # 0 => kind \in {"providers", "members", "shortcuts"} /\ shown[i] # 0
    /\ op' = [op EXCEPT !["dialog"].pc = "asked"]
    /\ form' = [item |-> IF kind = "shortcuts" THEN 0 ELSE i,
                filled |-> CASE kind # "providers" -> {}
                             [] i = 0 -> Filled("known")
                             [] OTHER -> Part]
    /\ template' = "known"
    /\ UNCHANGED <<kind, stored, shown, list, ops, fails, mixed>>

\* A template fills the fields in again, and what was typed is gone.
SelectTemplate(t) ==
    /\ kind = "providers" /\ op["dialog"].pc = "asked"
    /\ form.item = 0 /\ t # template
    /\ template' = t
    /\ form' = [form EXCEPT !.filled = Filled(t)]
    /\ UNCHANGED <<kind, stored, shown, op, list, ops, fails, mixed>>

FillIn(p) ==
    /\ kind = "providers" /\ op["dialog"].pc = "asked" /\ p \notin form.filled
    /\ form' = [form EXCEPT !.filled = @ \union {p}]
    /\ UNCHANGED <<kind, stored, shown, template, op, list, ops, fails, mixed>>

\* The dialog is dismissed; a call it has sent goes on.
CloseDialog ==
    /\ op["dialog"].pc = "asked"
    /\ op' = [op EXCEPT !["dialog"] = NoOp]
    /\ form' = NoForm
    /\ UNCHANGED <<kind, stored, shown, template, list, ops, fails, mixed>>

\* CreateIdentityProviderDialog.tsx: an existing secret need not be given.
allowConfirmAction == form.filled \union (IF form.item = 0 THEN {} ELSE {"secret"}) = Part

\* The dialog's save is sent (bound: once the last one's list has come).
SaveDialog ==
    /\ op["dialog"].pc = "asked"
    /\ kind = "providers" => allowConfirmAction
    /\ list["dialog"].pc = "none"
    /\ ops < MaxOps /\ ops' = ops + 1
    /\ op' = [op EXCEPT !["dialog"] = [pc |-> "sent", item |-> form.item, seen |-> shown]]
    /\ mixed' = (mixed \/ Busy)
    /\ UNCHANGED <<kind, stored, shown, form, template, list, fails>>

\* The server creates or changes the item.
DialogApplied ==
    LET i == op["dialog"].item
    IN  /\ op["dialog"].pc = "sent"
        /\ \E j \in Item :
              /\ IF i = 0 THEN stored[j] = 0 ELSE j = i
              /\ stored' = IF i # 0 /\ (kind = "members" \/ stored[i] = 0) THEN stored
                           ELSE [stored EXCEPT ![j] = IF i = 0 THEN 1 ELSE 2]
        /\ op' = [op EXCEPT !["dialog"].pc = "applied"]
        /\ UNCHANGED <<kind, shown, form, template, list, ops, fails, mixed>>

\* The save is answered and the list fetched again.  The shortcut dialog waits
\* for it, the token dialog stays to show the token, the others close.
DialogAnswered ==
    /\ op["dialog"].pc = "applied"
    /\ Fetch("dialog")
    /\ op' = [op EXCEPT !["dialog"] =
           CASE kind = "shortcuts" -> [@ EXCEPT !.pc = "listing"]
             [] kind = "tokens" -> [NoOp EXCEPT !.pc = "asked"]
             [] OTHER -> NoOp]
    /\ form' = NoForm
    /\ UNCHANGED <<kind, stored, shown, template, ops, fails>>

\* The save fails: the provider dialog closes and fetches all the same, the
\* others stay open.
DialogFails ==
    /\ Calling("dialog") /\ Fail
    /\ IF kind = "providers"
       THEN Fetch("dialog") /\ op' = [op EXCEPT !["dialog"] = NoOp] /\ form' = NoForm
       ELSE /\ op' = [op EXCEPT !["dialog"] = [NoOp EXCEPT !.pc = "asked"]]
            /\ UNCHANGED <<list, mixed, form>>
    /\ UNCHANGED <<kind, stored, shown, template, ops>>

(***************************************************************************)
(* ConfirmDialog: deleting, and archiving members                          *)
(***************************************************************************)

Ask(i) ==
    /\ op["confirm"].pc = "none" /\ op["dialog"].pc \in {"none", "sent", "applied"}
    /\ kind # "none" /\ shown[i] # 0
    /\ op' = [op EXCEPT !["confirm"] = [pc |-> "asked", item |-> i, seen |-> Nothing]]
    /\ UNCHANGED <<kind, stored, shown, form, template, list, ops, fails, mixed>>

Cancel ==
    /\ op["confirm"].pc = "asked"
    /\ op' = [op EXCEPT !["confirm"] = NoOp]
    /\ UNCHANGED <<kind, stored, shown, form, template, list, ops, fails, mixed>>

handleConfirm ==
    /\ op["confirm"].pc = "asked"
    /\ ops < MaxOps /\ ops' = ops + 1
    /\ op' = [op EXCEPT !["confirm"].pc = "sent", !["confirm"].seen = shown]
    /\ mixed' = (mixed \/ Busy \/ Calling("dialog"))
    /\ UNCHANGED <<kind, stored, shown, form, template, list, fails>>

\* MemberSection.tsx restores an archived member without asking.
handleRestoreUserClick(i) ==
    /\ kind = "members" /\ shown[i] = 2
    /\ \A w \in Window : op[w].pc = "none"
    /\ ops < MaxOps /\ ops' = ops + 1
    /\ op' = [op EXCEPT !["confirm"] =
           [pc |-> "sent", item |-> i, seen |-> [shown EXCEPT ![i] = 0]]]
    /\ mixed' = (mixed \/ Busy)
    /\ UNCHANGED <<kind, stored, shown, form, template, list, fails>>

\* The server: a member seen active is archived, one seen archived is deleted,
\* one to be restored is restored, and anything else is deleted.
ConfirmApplied ==
    LET c == op["confirm"]
        v == IF kind # "members" \/ c.seen[c.item] = 2 THEN 0
             ELSE IF c.seen[c.item] = 1 THEN 2 ELSE 1
    IN  /\ c.pc = "sent"
        /\ stored' = IF stored[c.item] = 0 THEN stored ELSE [stored EXCEPT ![c.item] = v]
        /\ op' = [op EXCEPT !["confirm"].pc = "applied"]
        /\ UNCHANGED <<kind, shown, form, template, list, ops, fails, mixed>>

\* Mutant: every row goes.
removeRow(c) == [Nothing EXCEPT ![c.item] = 0]

\* The list without the row deleted: AccessTokenSection.tsx filters the list
\* of now, WebhookSection.tsx the list its handler closed over.
rowRemoved(c) ==
    CASE kind = "tokens" -> [shown EXCEPT ![c.item] = 0]
      [] kind = "webhooks" -> [c.seen EXCEPT ![c.item] = 0]
      [] OTHER -> shown

\* The answer: tokens and webhooks lose the row, the others fetch the list,
\* and shortcuts and providers stay asked until it comes.
ConfirmAnswered ==
    /\ op["confirm"].pc = "applied"
    /\ shown' = rowRemoved(op["confirm"])
    /\ IF kind \in {"tokens", "webhooks"} THEN UNCHANGED <<list, mixed>> ELSE Fetch("confirm")
    /\ op' = [op EXCEPT !["confirm"] =
           IF kind \in {"shortcuts", "providers"} THEN [@ EXCEPT !.pc = "listing"] ELSE NoOp]
    /\ UNCHANGED <<kind, stored, form, template, ops, fails>>

\* It fails: providers are listed all the same, the others keep the question
\* where there was one.
ConfirmFails ==
    /\ Calling("confirm") /\ Fail
    /\ IF kind = "providers"
       THEN Fetch("confirm") /\ op' = [op EXCEPT !["confirm"].pc = "listing"]
       ELSE /\ op' = IF Unattended THEN [op EXCEPT !["confirm"] = NoOp]
                     ELSE [op EXCEPT !["confirm"].pc = "asked"]
            /\ UNCHANGED <<list, mixed>>
    /\ UNCHANGED <<kind, stored, shown, form, template, ops>>

(***************************************************************************)
(* The list                                                                *)
(***************************************************************************)

ListRead(s) ==
    /\ list[s].pc = "sent"
    /\ list' = [list EXCEPT ![s] = [pc |-> "read", val |-> stored]]
    /\ UNCHANGED <<kind, stored, shown, form, template, op, ops, fails, mixed>>

\* The window that waited for the list of slot s is done with; providers and
\* webhooks close their dialog even if it was opened again meanwhile.
Settled(s) ==
    [w \in Window |->
        IF w = s /\ (op[w].pc = "listing"
                     \/ (w = "dialog" /\ op[w].pc = "asked" /\ kind \in {"providers", "webhooks"}))
        THEN NoOp ELSE op[w]]

ListAnswered(s) ==
    /\ list[s].pc = "read"
    /\ shown' = list[s].val
    /\ list' = [list EXCEPT ![s] = NoList]
    /\ op' = Settled(s)
    /\ form' = IF op' = op THEN form ELSE NoForm
    /\ UNCHANGED <<kind, stored, template, ops, fails, mixed>>

\* The list shown is what it was, and a window that waited asks again.
ListFails(s) ==
    /\ list[s].pc # "none" /\ Fail
    /\ list' = [list EXCEPT ![s] = NoList]
    /\ op' = [w \in Window |-> IF w = s /\ op[w].pc = "listing"
                               THEN [op[w] EXCEPT !.pc = "asked"] ELSE op[w]]
    /\ UNCHANGED <<kind, stored, shown, form, template, ops, mixed>>

Next ==
    \/ \E k \in Section : Open(k)
    \/ \E i \in Item \union {0} : OpenDialog(i)
    \/ \E t \in Templates : SelectTemplate(t)
    \/ \E p \in Part : FillIn(p)
    \/ CloseDialog \/ SaveDialog \/ DialogApplied \/ DialogAnswered \/ DialogFails
    \/ \E i \in Item : Ask(i) \/ handleRestoreUserClick(i)
    \/ Cancel \/ handleConfirm \/ ConfirmApplied \/ ConfirmAnswered \/ ConfirmFails
    \/ \E s \in Slot : ListRead(s) \/ ListAnswered(s) \/ ListFails(s)

Spec == Init /\ [][Next]_vars

\* Once nothing is waited for and no call failed, a section shows what the
\* server has.  Members do whatever overlapped, since a query drops the fetch
\* it replaces; the others do unless a list was fetched while another call
\* was going on (AccessTokenSection.tsx, WebhookSection.tsx, SSOSection.tsx,
\* MemberSection.tsx, ShortcutsSection.tsx).
ListsSettle ==
    /\ kind # "none" /\ ~Busy /\ fails = 0
    /\ \A w \in Window : op[w].pc \in {"none", "asked"}
    /\ kind = "members" \/ ~mixed
    => shown = stored
=============================================================================
