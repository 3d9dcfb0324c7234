---------------------------- MODULE AccountForms ----------------------------
(***************************************************************************)
(* The account dialogs of a signed-in user: UpdateAccountDialog saves the  *)
(* fields that differ from AuthContext's copy of the user, which nothing   *)
(* refreshes until the page is loaded again; ChangeMemberPasswordDialog    *)
(* saves a password typed twice.                                           *)
(***************************************************************************)
EXTENDS Naturals

CONSTANTS
    MaxClicks       \* bound: what users do

VARIABLES
    account,    \* the server's user
    user,       \* AuthContext's currentUser
    form,       \* UpdateAccountDialog's state, kept while the page is
    window,     \* the dialog that is open
    call,       \* an update in flight
    typed,      \* the two passwords
    locked,     \* the instance disallows changing the username
    clicks,     \* what users did
    touched,    \* history: fields edited since the page was loaded
    elsewhere   \* history: the fields as other clients left them

vars == <<account, user, form, window, call, typed, locked, clicks, touched, elsewhere>>

Field == {"username", "displayName", "description"}

\* 0 is an empty field.
User == [Field -> 0..2]
Masks == SUBSET (Field \union {"password"})
Call == [pc : {"none", "sent", "applied", "refused"}, mask : Masks, user : User]
NoCall == [pc |-> "none", mask |-> {}, user |-> [f \in Field |-> 0]]
Passwords == (0..2) \X (0..2)

TypeOK ==
    /\ account \in User /\ user \in User /\ form \in User
    /\ window \in {"none", "account", "password"}
    /\ call \in Call
    /\ typed \in Passwords
    /\ locked \in BOOLEAN
    /\ clicks \in 0..MaxClicks
    /\ touched \subseteq Field
    /\ elsewhere \in User

Init ==
    /\ account = [f \in Field |-> 1]
    /\ user = account /\ form = account
    /\ window = "none"
    /\ call = NoCall
    /\ typed = <<0, 0>>
    /\ locked = FALSE
    /\ clicks = 0
    /\ touched = {}
    /\ elsewhere = account

Click == clicks < MaxClicks /\ clicks' = clicks + 1

\* The page is loaded again (bound: not while an update is on its way to the
\* server); locked is read with the instance's settings.
Load ==
    /\ Click /\ call.pc # "sent"
    /\ user' = account /\ form' = account
    /\ window' = "none" /\ call' = NoCall /\ typed' = <<0, 0>>
    /\ locked' \in BOOLEAN
    /\ touched' = {} /\ elsewhere' = account
    /\ UNCHANGED account

\* MyAccountSection.tsx opens the dialogs; they can be dismissed at any time.
Show(w) ==
    /\ (window = "none") # (w = "none")
    /\ Click
    /\ window' = w
    /\ UNCHANGED <<account, user, form, call, typed, locked, touched, elsewhere>>

setPartialState(f, v) ==
    /\ window = "account" /\ form[f] # v
    /\ ~(locked /\ f = "username")
    /\ Click
    /\ form' = [form EXCEPT ![f] = v]
    /\ touched' = touched \union {f}
    /\ UNCHANGED <<account, user, window, call, typed, locked, elsewhere>>

\* Mutant: every field is sent.
everyField == Field

updateMask == {f \in Field : user[f] # form[f]}

\* Bound: one update in flight.
Send(mask, u) ==
    /\ call.pc = "none"
    /\ Click
    /\ call' = [pc |-> "sent", mask |-> mask, user |-> u]
    /\ UNCHANGED <<account, user, form, window, locked, touched, elsewhere>>

handleSaveBtnClick ==
    /\ window = "account" /\ form["username"] # 0
    /\ Send(updateMask, form)
    /\ UNCHANGED typed

handleNewPasswordChanged(p) ==
    /\ window = "password" /\ typed # p
    /\ Click
    /\ typed' = p
    /\ UNCHANGED <<account, user, form, window, call, locked, touched, elsewhere>>

\* A password that differs from its repetition clears the repetition.
handleSavePasswordClick ==
    /\ window = "password" /\ typed[1] # 0 /\ typed[2] # 0
    /\ IF typed[1] # typed[2]
       THEN /\ Click
            /\ typed' = <<typed[1], 0>>
            /\ UNCHANGED <<account, user, form, window, call, locked, touched, elsewhere>>
       ELSE Send({"password"}, user) /\ UNCHANGED typed

\* The server's UpdateUser writes the fields of the mask, or refuses: a mask
\* with no field, a name that is taken or may not be changed.
Apply ==
    /\ call.pc = "sent"
    /\ \/ call' = [call EXCEPT !.pc = "refused"] /\ UNCHANGED account
       \/ /\ call.mask # {}
          /\ call' = [call EXCEPT !.pc = "applied"]
          /\ account' = [f \in Field |->
                            IF f \in call.mask THEN call.user[f] ELSE account[f]]
    /\ UNCHANGED <<user, form, window, typed, locked, clicks, touched, elsewhere>>

\* The dialog closes when the update succeeded; currentUser stays as it was.
Answer ==
    /\ call.pc \in {"applied", "refused"}
    /\ window' = IF call.pc = "applied" THEN "none" ELSE window
    /\ call' = NoCall
    /\ UNCHANGED <<account, user, form, typed, locked, clicks, touched, elsewhere>>

\* Another tab or client of the user.
ChangeElsewhere(f, v) ==
    /\ account[f] # v /\ Click
    /\ account' = [account EXCEPT ![f] = v]
    /\ elsewhere' = [elsewhere EXCEPT ![f] = v]
    /\ UNCHANGED <<user, form, window, call, typed, locked, touched>>

Next ==
    \/ Load
    \/ \E w \in {"none", "account", "password"} : Show(w)
    \/ \E f \in Field, v \in 0..2 : setPartialState(f, v)
    \/ handleSaveBtnClick
    \/ \E p \in Passwords : handleNewPasswordChanged(p)
    \/ handleSavePasswordClick
    \/ Apply \/ Answer
    \/ \E f \in Field, v \in 1..2 : ChangeElsewhere(f, v)

Spec == Init /\ [][Next]_vars

\* A save leaves alone what its user did not edit, even when another client
\* changed it after the page was loaded: the stale copy the form compares
\* with decides only which of the user's own edits are sent
\* (UpdateAccountDialog.tsx:115).
ElsewhereKept == \A f \in Field \ touched : account[f] = elsewhere[f]
=============================================================================
