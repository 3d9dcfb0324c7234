------------------------- MODULE CredentialRotation -------------------------
(***************************************************************************)
(* Rotation of the RDS credential: the Lambda function of                  *)
(* src/lambda_function.py, invoked by AWS Secrets Manager once per step    *)
(* (createSecret, setSecret, testSecret, finishSecret) of each rotation.   *)
(*                                                                         *)
(* Secrets Manager and PostgreSQL are external: the model keeps of them    *)
(* what the Lambda reads and writes, the staging labels, which versions    *)
(* hold a secret string, and the password of the database user.  A version *)
(* and the password it holds are written once and together, so a version   *)
(* stands for its password.                                                *)
(*                                                                         *)
(* An invocation is asynchronous and delivered at least once: the same     *)
(* (version, step) may be delivered again, at any later time, also while   *)
(* an execution of it is running, and an execution may be killed between   *)
(* any two of its calls (timeout = 30 in infra/modules/secret-rotation).   *)
(***************************************************************************)
EXTENDS Naturals, FiniteSets

CONSTANTS
    Version,        \* secret versions (ClientRequestToken), and their passwords
    InitialVersion, \* the version Terraform stored, with the password of the DB
    ForeignVersion, \* a version left by an earlier deployment, on another host
    NoVersion,      \* no version carries the label
    Execution,      \* concurrent executions of the Lambda function
    MaxFaults       \* bound: killed executions and refused good logins

ASSUME VersionAssumption ==
    /\ InitialVersion \in Version
    /\ ForeignVersion \in Version \ {InitialVersion}
    /\ NoVersion \notin Version
ASSUME FaultsAssumption == MaxFaults \in Nat

VARIABLES
    stage,      \* the version each staging label is attached to
    valued,     \* versions that hold a secret string
    target,     \* the user and host a version's secret string names
    dbPassword, \* the password PostgreSQL accepts for the rotated user
    exec,       \* what each Lambda execution is doing
    acked,      \* steps of each version Secrets Manager saw succeed
    started,    \* versions a rotation was started for
    rotationEnabled,
    faults

awsVars == <<stage, valued, target, acked, started, rotationEnabled>>
vars == <<stage, valued, target, dbPassword, exec, acked, started,
          rotationEnabled, faults>>

MaybeVersion == Version \union {NoVersion}
Step == {"createSecret", "setSecret", "testSecret", "finishSecret"}
Account == {"rds", "elsewhere"}

\* Where an execution is: before its next call to Secrets Manager or to the
\* database.  "return" is the end of a successful step, not yet reported.
Control == {"idle", "check", "createSecret", "put", "setSecret", "getCurrent",
            "getPending", "loginPending", "loginCurrent", "loginPrevious",
            "alter", "testSecret", "finishSecret", "move", "return"}

Idle == [pc |-> "idle", step |-> "createSecret", token |-> NoVersion,
         current |-> NoVersion, previous |-> NoVersion, conn |-> NoVersion]

TypeOK ==
    /\ stage \in [AWSCURRENT: Version, AWSPREVIOUS: MaybeVersion,
                  AWSPENDING: MaybeVersion]
    /\ valued \in SUBSET Version
    /\ target \in [Version -> Account]
    /\ dbPassword \in Version
    /\ exec \in [Execution -> [pc: Control, step: Step, token: MaybeVersion,
                               current: MaybeVersion, previous: MaybeVersion,
                               conn: MaybeVersion]]
    /\ acked \in [Version -> SUBSET Step]
    /\ started \in SUBSET Version
    /\ rotationEnabled \in BOOLEAN
    /\ faults \in 0..MaxFaults

\* The secret as the infrastructure leaves it: one version, whose password is
\* the database's, or after a redeployment with the bootstrap layer kept, also
\* the version of the database that was torn down.
Init ==
    /\ \E previous \in {NoVersion, ForeignVersion}:
         /\ stage = [AWSCURRENT |-> InitialVersion, AWSPREVIOUS |-> previous,
                     AWSPENDING |-> NoVersion]
         /\ valued = {InitialVersion, previous} \ {NoVersion}
    /\ target = [v \in Version |-> IF v = ForeignVersion THEN "elsewhere"
                                                         ELSE "rds"]
    /\ dbPassword = InitialVersion
    /\ exec = [e \in Execution |-> Idle]
    /\ acked = [v \in Version |-> {}]
    /\ started = {}
    /\ rotationEnabled = TRUE
    /\ faults = 0

-----------------------------------------------------------------------------
(* Secrets Manager                                                         *)

RotationInProgress == stage.AWSPENDING \notin {NoVersion, stage.AWSCURRENT}

\* An execution past the staging check of lambda_handler.
Working(e) == exec[e].pc \notin {"idle", "check"}

\* A rotation starts, on schedule or through scripts/secret-rotation.sh, unless
\* one is in progress.  Executions of the last rotation may still be running;
\* the timeout of 30 seconds has ended those of the rotation before it.
StartRotation(v) ==
    /\ rotationEnabled
    /\ v \in Version \ (started \union {InitialVersion, ForeignVersion})
    /\ ~RotationInProgress
    /\ \A e \in Execution: Working(e) => exec[e].token = stage.AWSCURRENT
    /\ stage' = [stage EXCEPT !.AWSPENDING = v]
    /\ started' = started \union {v}
    /\ UNCHANGED <<valued, target, dbPassword, exec, acked, rotationEnabled,
                   faults>>

Before(s) ==
    CASE s = "createSecret" -> {}
      [] s = "setSecret"    -> {"createSecret"}
      [] s = "testSecret"   -> {"createSecret", "setSecret"}
      [] s = "finishSecret" -> {"createSecret", "setSecret", "testSecret"}

\* A step is delivered once the steps before it succeeded: for the first time,
\* as a retry, or again.
Deliver(e, v, s) ==
    /\ exec[e].pc = "idle"
    /\ v \in started
    /\ Before(s) \subseteq acked[v]
    /\ exec' = [exec EXCEPT ![e] = [Idle EXCEPT !.pc = "check", !.step = s,
                                                !.token = v]]
    /\ UNCHANGED <<awsVars, dbPassword, faults>>

\* Rotation is switched off and on again (rotation_rules in Terraform).
SwitchRotation ==
    /\ rotationEnabled' = ~rotationEnabled
    /\ UNCHANGED <<stage, valued, target, dbPassword, exec, acked, started,
                   faults>>

-----------------------------------------------------------------------------
(* How an execution continues and ends                                     *)

At(e, pc) == exec[e].pc = pc
Goto(e, pc) == exec' = [exec EXCEPT ![e].pc = pc]
Connect(e, v) == exec' = [exec EXCEPT ![e].pc = "alter", ![e].conn = v]
Fail(e) == exec' = [exec EXCEPT ![e] = Idle]
Fault == faults < MaxFaults /\ faults' = faults + 1

\* get_secret_dict(AWSPENDING, token) finds the version, and still so labelled.
PendingReadable(e) ==
    /\ exec[e].token \in valued
    /\ exec[e].token = stage.AWSPENDING

\* get_connection returns a connection, or None: also for the right password,
\* when the attempt fails for another reason.  Nothing is known of the database
\* a foreign version names.
LoginSucceeds(v) ==
    /\ v = dbPassword \/ target[v] # "rds"
    /\ UNCHANGED faults

LoginRefused(v) ==
    \/ v # dbPassword /\ UNCHANGED faults
    \/ v = dbPassword /\ Fault

\* The step returns and Secrets Manager takes note.
Return(e) ==
    /\ At(e, "return")
    /\ acked' = [acked EXCEPT ![exec[e].token] = @ \union {exec[e].step}]
    /\ Fail(e)
    /\ UNCHANGED <<stage, valued, target, dbPassword, started,
                   rotationEnabled, faults>>

\* Timeout, or an exception of a call: nothing is reported, an open transaction
\* is rolled back with its connection.
Kill(e) ==
    /\ exec[e].pc # "idle"
    /\ Fault
    /\ Fail(e)
    /\ UNCHANGED <<awsVars, dbPassword>>

-----------------------------------------------------------------------------
(* lambda_handler: the staging check, then one of the four steps           *)

Refuse(e) ==
    /\ At(e, "check")
    /\ \/ ~rotationEnabled
       \/ exec[e].token \notin {stage.AWSCURRENT, stage.AWSPENDING}
    /\ Fail(e)
    /\ UNCHANGED <<awsVars, dbPassword, faults>>

AlreadyCurrent(e) ==
    /\ At(e, "check")
    /\ rotationEnabled
    /\ exec[e].token = stage.AWSCURRENT
    /\ Goto(e, "return")
    /\ UNCHANGED <<awsVars, dbPassword, faults>>

\* Mutant: the AWSPENDING check is dropped, a late step of an old version runs.
DispatchAnyLabel(e) ==
    /\ At(e, "check")
    /\ rotationEnabled
    /\ exec[e].token # stage.AWSCURRENT
    /\ Goto(e, exec[e].step)
    /\ UNCHANGED <<awsVars, dbPassword, faults>>

Dispatch(e) ==
    /\ At(e, "check")
    /\ rotationEnabled
    /\ exec[e].token # stage.AWSCURRENT
    /\ exec[e].token = stage.AWSPENDING
    /\ Goto(e, exec[e].step)
    /\ UNCHANGED <<awsVars, dbPassword, faults>>

-----------------------------------------------------------------------------
(* create_secret                                                           *)

CreateLookup(e) ==
    /\ At(e, "createSecret")
    /\ IF exec[e].token \notin valued
       THEN exec' = [exec EXCEPT ![e].pc = "put",
                                 ![e].current = stage.AWSCURRENT]
       ELSE IF PendingReadable(e) THEN Goto(e, "return") ELSE Fail(e)
    /\ UNCHANGED <<awsVars, dbPassword, faults>>

\* Mutant: VersionStages is omitted, which stages the new version AWSCURRENT.
CreatePutAsCurrent(e) ==
    /\ At(e, "put")
    /\ exec[e].token \notin valued
    /\ valued' = valued \union {exec[e].token}
    /\ target' = [target EXCEPT ![exec[e].token] = target[exec[e].current]]
    /\ stage' = [stage EXCEPT !.AWSCURRENT = exec[e].token,
                              !.AWSPREVIOUS = stage.AWSCURRENT]
    /\ Goto(e, "return")
    /\ UNCHANGED <<dbPassword, acked, started, rotationEnabled, faults>>

\* put_secret_value refuses a token that already holds another password.
CreatePut(e) ==
    /\ At(e, "put")
    /\ exec[e].token \notin valued
    /\ valued' = valued \union {exec[e].token}
    /\ target' = [target EXCEPT ![exec[e].token] = target[exec[e].current]]
    /\ stage' = [stage EXCEPT !.AWSPENDING = exec[e].token]
    /\ Goto(e, "return")
    /\ UNCHANGED <<dbPassword, acked, started, rotationEnabled, faults>>

CreatePutRefused(e) ==
    /\ At(e, "put")
    /\ exec[e].token \in valued
    /\ Fail(e)
    /\ UNCHANGED <<awsVars, dbPassword, faults>>

-----------------------------------------------------------------------------
(* set_secret                                                              *)

SetGetPrevious(e) ==
    /\ At(e, "setSecret")
    /\ exec' = [exec EXCEPT ![e].pc = "getCurrent",
                            ![e].previous = stage.AWSPREVIOUS]
    /\ UNCHANGED <<awsVars, dbPassword, faults>>

SetGetCurrent(e) ==
    /\ At(e, "getCurrent")
    /\ exec' = [exec EXCEPT ![e].pc = "getPending",
                            ![e].current = stage.AWSCURRENT]
    /\ UNCHANGED <<awsVars, dbPassword, faults>>

SetGetPending(e) ==
    /\ At(e, "getPending")
    /\ IF PendingReadable(e) THEN Goto(e, "loginPending") ELSE Fail(e)
    /\ UNCHANGED <<awsVars, dbPassword, faults>>

\* Mutant: the pending password is not tried first.
SetLoginPendingNotTried(e) ==
    /\ At(e, "loginPending")
    /\ UNCHANGED <<awsVars, dbPassword, faults>>
    /\ IF target[exec[e].current] = target[exec[e].token]
       THEN Goto(e, "loginCurrent") ELSE Fail(e)

SetLoginPending(e) ==
    /\ At(e, "loginPending")
    /\ \/ /\ LoginSucceeds(exec[e].token)
          /\ Goto(e, "return")
       \/ /\ LoginRefused(exec[e].token)
          /\ IF target[exec[e].current] = target[exec[e].token]
             THEN Goto(e, "loginCurrent") ELSE Fail(e)
    /\ UNCHANGED <<awsVars, dbPassword>>

SetLoginCurrent(e) ==
    /\ At(e, "loginCurrent")
    /\ \/ /\ LoginSucceeds(exec[e].current)
          /\ Connect(e, exec[e].current)
       \/ /\ LoginRefused(exec[e].current)
          /\ IF exec[e].previous # NoVersion
             THEN Goto(e, "loginPrevious") ELSE Fail(e)
    /\ UNCHANGED <<awsVars, dbPassword>>

\* Mutant: the host of the previous version is not compared.
SetLoginPreviousAnyHost(e) ==
    /\ At(e, "loginPrevious")
    /\ \/ LoginSucceeds(exec[e].previous) /\ Connect(e, exec[e].previous)
       \/ LoginRefused(exec[e].previous) /\ Fail(e)
    /\ UNCHANGED <<awsVars, dbPassword>>

\* The user and host of the previous version are compared after the login.
SetLoginPrevious(e) ==
    /\ At(e, "loginPrevious")
    /\ \/ /\ LoginSucceeds(exec[e].previous)
          /\ IF target[exec[e].previous] = target[exec[e].token]
             THEN Connect(e, exec[e].previous) ELSE Fail(e)
       \/ /\ LoginRefused(exec[e].previous)
          /\ Fail(e)
    /\ UNCHANGED <<awsVars, dbPassword>>

\* ALTER USER and commit, on the connection opened before: it stays usable
\* whatever became of the password meanwhile.
SetAlter(e) ==
    /\ At(e, "alter")
    /\ dbPassword' = IF target[exec[e].conn] = "rds" THEN exec[e].token
                                                   ELSE dbPassword
    /\ Goto(e, "return")
    /\ UNCHANGED <<awsVars, faults>>

-----------------------------------------------------------------------------
(* test_secret and finish_secret                                           *)

TestLogin(e) ==
    /\ At(e, "testSecret")
    /\ \/ /\ PendingReadable(e)
          /\ LoginSucceeds(exec[e].token)
          /\ Goto(e, "return")
       \/ /\ PendingReadable(e)
          /\ LoginRefused(exec[e].token)
          /\ Fail(e)
       \/ /\ ~PendingReadable(e)
          /\ Fail(e)
          /\ UNCHANGED faults
    /\ UNCHANGED <<awsVars, dbPassword>>

FinishDescribe(e) ==
    /\ At(e, "finishSecret")
    /\ exec' = [exec EXCEPT
                 ![e].pc = IF stage.AWSCURRENT = exec[e].token THEN "return"
                                                               ELSE "move",
                 ![e].current = stage.AWSCURRENT]
    /\ UNCHANGED <<awsVars, dbPassword, faults>>

\* Mutant: AWSCURRENT is taken from its version and MoveToVersionId omitted.
FinishMoveNowhere(e) ==
    /\ At(e, "move")
    /\ stage.AWSCURRENT = exec[e].current
    /\ stage' = [stage EXCEPT !.AWSCURRENT = NoVersion,
                              !.AWSPREVIOUS = exec[e].current]
    /\ Goto(e, "return")
    /\ UNCHANGED <<valued, target, dbPassword, acked, started,
                   rotationEnabled, faults>>

\* Mutant: the version replaced does not become AWSPREVIOUS.
FinishMoveKeepsPrevious(e) ==
    /\ At(e, "move")
    /\ stage.AWSCURRENT = exec[e].current
    /\ stage' = [stage EXCEPT !.AWSCURRENT = exec[e].token]
    /\ Goto(e, "return")
    /\ UNCHANGED <<valued, target, dbPassword, acked, started,
                   rotationEnabled, faults>>

\* update_secret_version_stage moves AWSCURRENT only from the version named as
\* RemoveFromVersionId, which then becomes AWSPREVIOUS.
FinishMove(e) ==
    /\ At(e, "move")
    /\ stage.AWSCURRENT = exec[e].current
    /\ stage' = [stage EXCEPT !.AWSCURRENT = exec[e].token,
                              !.AWSPREVIOUS = exec[e].current]
    /\ Goto(e, "return")
    /\ UNCHANGED <<valued, target, dbPassword, acked, started,
                   rotationEnabled, faults>>

FinishMoveRefused(e) ==
    /\ At(e, "move")
    /\ stage.AWSCURRENT # exec[e].current
    /\ Fail(e)
    /\ UNCHANGED <<awsVars, dbPassword, faults>>

-----------------------------------------------------------------------------

\* One call of a running execution.
Run(e) ==
    \/ Refuse(e) \/ AlreadyCurrent(e) \/ Dispatch(e)
    \/ CreateLookup(e) \/ CreatePut(e) \/ CreatePutRefused(e)
    \/ SetGetPrevious(e) \/ SetGetCurrent(e) \/ SetGetPending(e)
    \/ SetLoginPending(e) \/ SetLoginCurrent(e) \/ SetLoginPrevious(e)
    \/ SetAlter(e)
    \/ TestLogin(e)
    \/ FinishDescribe(e) \/ FinishMove(e) \/ FinishMoveRefused(e)
    \/ Return(e)

Next ==
    \/ \E v \in Version: StartRotation(v)
    \/ SwitchRotation
    \/ \E e \in Execution, v \in Version, s \in Step: Deliver(e, v, s)
    \/ \E e \in Execution: Run(e) \/ Kill(e)

Spec == Init /\ [][Next]_vars

\* The step Secrets Manager waits for in the rotation in progress.
DeliverNext ==
    \E e \in Execution, v \in Version, s \in Step:
        v = stage.AWSPENDING /\ s \notin acked[v] /\ Deliver(e, v, s)

\* An execution that runs makes its next call; the step Secrets Manager waits
\* for is delivered again until it succeeds; executions are killed and logins
\* refused only MaxFaults times.
Fairness ==
    /\ \A e \in Execution: WF_vars(Run(e))
    /\ SF_vars(DeliverNext)

FairSpec == Spec /\ Fairness

-----------------------------------------------------------------------------
(* Properties                                                              *)

\* Whatever executions overlap and wherever they are killed, one of the labels
\* set_secret tries names the password of the database: the next rotation, or
\* a retry of this one, can always log in.
Recoverable == dbPassword \in {stage.AWSCURRENT, stage.AWSPREVIOUS,
                               stage.AWSPENDING}

\* The connection set_secret is about to use leads to the user and host of the
\* pending secret, also when the version it logged in with named another.
AltersOwnAccount ==
    \A e \in Execution:
        At(e, "alter") => target[exec[e].conn] = target[exec[e].token]

\* Executions that do not overlap keep the secret and the database in step:
\* between two rotations AWSCURRENT is the password of the database, and within
\* one AWSCURRENT or AWSPENDING is.
CurrentLogsIn ==
    IF RotationInProgress
    THEN dbPassword \in {stage.AWSCURRENT, stage.AWSPENDING}
    ELSE dbPassword = stage.AWSCURRENT

\* Executions that do not overlap implement the contract the readers of the
\* secret rely on.
Contract == INSTANCE CredentialContract WITH
    password <- dbPassword,
    current  <- stage.AWSCURRENT,
    spent    <- ({InitialVersion} \union started)
                   \ ({stage.AWSPENDING} \ {dbPassword})
ImplementsContract == Contract!ContractSpec

\* A rotation that was started completes once rotation stays switched on,
\* however often (within MaxFaults) its steps fail.
RotationCompletes ==
    \A v \in Version:
        <>[]rotationEnabled => (stage.AWSPENDING = v ~> stage.AWSCURRENT = v)
=============================================================================
