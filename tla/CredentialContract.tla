------------------------- MODULE CredentialContract -------------------------
(***************************************************************************)
(* What rotation promises to those who read the secret: the password of    *)
(* the database user changes at most one step ahead of the version staged  *)
(* AWSCURRENT, every password is new, and the next change waits until the  *)
(* last one was published.                                                 *)
(***************************************************************************)
CONSTANTS Version, InitialVersion

VARIABLES
    password,   \* the password the database accepts
    current,    \* the version staged AWSCURRENT
    spent       \* every password the database ever accepted

contractVars == <<password, current, spent>>

ContractInit ==
    /\ password = InitialVersion
    /\ current = InitialVersion
    /\ spent = {InitialVersion}

\* set_secret: ALTER USER ... WITH PASSWORD, committed.
ChangePassword(v) ==
    /\ password = current
    /\ v \notin spent
    /\ password' = v
    /\ spent' = spent \union {v}
    /\ UNCHANGED current

\* finish_secret: AWSCURRENT is moved to the version of the new password.
Publish ==
    /\ password # current
    /\ current' = password
    /\ UNCHANGED <<password, spent>>

ContractNext ==
    \/ \E v \in Version: ChangePassword(v)
    \/ Publish

ContractSpec == ContractInit /\ [][ContractNext]_contractVars
=============================================================================
