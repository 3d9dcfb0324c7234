---------------------- MODULE CredentialRotationProofs ----------------------
(***************************************************************************)
(* Proofs about CredentialRotation, for any set of versions, any number of *)
(* overlapping executions and any number of faults, and about the cluster  *)
(* behind it (RotationToPods), for any number of pods and replicas.        *)
(***************************************************************************)
EXTENDS RotationToPods, TLAPS

-----------------------------------------------------------------------------
(* Type correctness                                                        *)

ExecRecord == [pc: Control, step: Step, token: MaybeVersion,
               current: MaybeVersion, previous: MaybeVersion,
               conn: MaybeVersion]

\* The initial record of an execution is well typed.
LEMMA IdleType == Idle \in ExecRecord
  BY DEF Idle, ExecRecord, Control, Step, MaybeVersion

\* Every way an execution continues leaves well-typed records.
LEMMA ExecUpdates ==
    ASSUME TypeOK, NEW e \in Execution
    PROVE  /\ exec[e] \in ExecRecord
           /\ \A pc \in Control: Goto(e, pc) => exec' \in [Execution -> ExecRecord]
           /\ \A v \in MaybeVersion:
                 Connect(e, v) => exec' \in [Execution -> ExecRecord]
           /\ Fail(e) => exec' \in [Execution -> ExecRecord]
           /\ \A pc \in Control, v \in MaybeVersion:
                 exec' = [exec EXCEPT ![e].pc = pc, ![e].current = v]
                   => exec' \in [Execution -> ExecRecord]
           /\ \A pc \in Control, v \in MaybeVersion:
                 exec' = [exec EXCEPT ![e].pc = pc, ![e].previous = v]
                   => exec' \in [Execution -> ExecRecord]
  <1>1. exec \in [Execution -> ExecRecord]
    BY DEF TypeOK, ExecRecord
  <1>2. "alter" \in Control
    BY DEF Control
  <1> QED
    BY <1>1, <1>2, IdleType DEF Goto, Connect, Fail, ExecRecord

\* TypeOK with the set of execution records named.
LEMMA TypeOKRecord ==
    TypeOK <=> /\ stage \in [AWSCURRENT: Version, AWSPREVIOUS: MaybeVersion,
                              AWSPENDING: MaybeVersion]
               /\ valued \in SUBSET Version
               /\ target \in [Version -> Account]
               /\ dbPassword \in Version
               /\ exec \in [Execution -> ExecRecord]
               /\ acked \in [Version -> SUBSET Step]
               /\ started \in SUBSET Version
               /\ rotationEnabled \in BOOLEAN
               /\ faults \in 0..MaxFaults
  BY DEF TypeOK, ExecRecord

\* One call of an execution leaves the execution records well typed.
LEMMA RunExecType ==
    ASSUME TypeOK, NEW e \in Execution, Run(e)
    PROVE  exec' \in [Execution -> ExecRecord]
  <1>a. exec[e] \in ExecRecord
    BY ExecUpdates
  <1>b. \A pc \in Control: Goto(e, pc) => exec' \in [Execution -> ExecRecord]
    BY ExecUpdates
  <1>c. Fail(e) => exec' \in [Execution -> ExecRecord]
    BY ExecUpdates
  <1>d. \A v \in MaybeVersion: Connect(e, v) => exec' \in [Execution -> ExecRecord]
    BY ExecUpdates
  <1>e. /\ exec[e].current \in MaybeVersion
        /\ exec[e].previous \in MaybeVersion
        /\ exec[e].step \in Control
    BY <1>a DEF ExecRecord, Step, Control
  <1>f. {"return", "loginPending", "loginCurrent", "loginPrevious"} \subseteq Control
    BY DEF Control
  <1>1. CASE Refuse(e) \/ CreatePutRefused(e) \/ FinishMoveRefused(e) \/ Return(e)
    BY <1>1, <1>c DEF Refuse, CreatePutRefused, FinishMoveRefused, Return
  <1>2. CASE AlreadyCurrent(e) \/ CreatePut(e) \/ SetAlter(e) \/ FinishMove(e)
    BY <1>2, <1>b, <1>f DEF AlreadyCurrent, CreatePut, SetAlter, FinishMove
  <1>3. CASE Dispatch(e)
    BY <1>3, <1>b, <1>e DEF Dispatch
  <1>4. CASE CreateLookup(e)
    <2>1. stage.AWSCURRENT \in MaybeVersion /\ "put" \in Control
      BY DEF TypeOK, MaybeVersion, Control
    <2>2. \A pc \in Control, v \in MaybeVersion:
             exec' = [exec EXCEPT ![e].pc = pc, ![e].current = v]
               => exec' \in [Execution -> ExecRecord]
      BY ExecUpdates
    <2> QED
      BY <1>4, <2>1, <2>2, <1>b, <1>c, <1>f DEF CreateLookup
  <1>5. CASE SetGetPrevious(e)
    <2>1. stage.AWSPREVIOUS \in MaybeVersion /\ "getCurrent" \in Control
      BY DEF TypeOK, MaybeVersion, Control
    <2> QED
      BY <1>5, <2>1, ExecUpdates DEF SetGetPrevious
  <1>6. CASE SetGetCurrent(e)
    <2>1. stage.AWSCURRENT \in MaybeVersion /\ "getPending" \in Control
      BY DEF TypeOK, MaybeVersion, Control
    <2> QED
      BY <1>6, <2>1, ExecUpdates DEF SetGetCurrent
  <1>7. CASE SetGetPending(e) \/ SetLoginPending(e) \/ TestLogin(e)
    BY <1>7, <1>b, <1>c, <1>f DEF SetGetPending, SetLoginPending, TestLogin
  <1>8. CASE SetLoginCurrent(e) \/ SetLoginPrevious(e)
    BY <1>8, <1>b, <1>c, <1>d, <1>e, <1>f DEF SetLoginCurrent, SetLoginPrevious
  <1>9. CASE FinishDescribe(e)
    <2>1. /\ stage.AWSCURRENT \in MaybeVersion
          /\ {"return", "move"} \subseteq Control
      BY DEF TypeOK, MaybeVersion, Control
    <2>2. \A pc \in Control, v \in MaybeVersion:
             exec' = [exec EXCEPT ![e].pc = pc, ![e].current = v]
               => exec' \in [Execution -> ExecRecord]
      BY ExecUpdates
    <2> QED
      BY <1>9, <2>1, <2>2 DEF FinishDescribe
  <1> QED
    BY <1>1, <1>2, <1>3, <1>4, <1>5, <1>6, <1>7, <1>8, <1>9 DEF Run

-----------------------------------------------------------------------------
(* The inductive invariant                                                 *)

\* What holds of the staging labels.
LabelInv ==
    /\ InitialVersion \notin started /\ ForeignVersion \notin started
    /\ \A v \in Version: target[v] = "rds" <=> v # ForeignVersion
    /\ stage.AWSCURRENT \in valued \intersect (started \union {InitialVersion})
    /\ stage.AWSPREVIOUS \in valued \union {NoVersion}
    /\ stage.AWSPENDING \in started \union {NoVersion}
    /\ stage.AWSPENDING = NoVersion => started = {}

\* Once setSecret succeeded in the rotation in progress, no execution that may
\* still run can set the password to anything but AWSCURRENT or AWSPENDING.
PasswordSet == RotationInProgress =>
                 dbPassword \in {stage.AWSPENDING, stage.AWSCURRENT}

\* What a success of step s for version v means.
SuccessMeans(v, s) ==
    /\ s = "createSecret" => v \in valued
    /\ s = "setSecret" /\ v = stage.AWSPENDING => PasswordSet

AckInv ==
    \A v \in Version:
        /\ v \notin started => acked[v] = {}
        /\ \A s \in acked[v]: SuccessMeans(v, s)

\* The versions a running execution may serve: those of the rotation in
\* progress, or of the last one, whose late executions are still running.
ServedVersions ==
    IF RotationInProgress THEN {stage.AWSCURRENT, stage.AWSPENDING}
                          ELSE {stage.AWSCURRENT, stage.AWSPREVIOUS}

SetControl == {"setSecret", "getCurrent", "getPending", "loginPending",
               "loginCurrent", "loginPrevious", "alter"}

\* What holds of an execution, by where it is.
ExecOK(r) ==
    /\ r.pc # "idle" => r.token \in started /\ Before(r.step) \subseteq acked[r.token]
    /\ r.pc \notin {"idle", "check"} => r.token \in ServedVersions
    /\ r.pc \in {"createSecret", "put"} => r.step = "createSecret"
    /\ r.pc = "put" => r.current \in Version \ {ForeignVersion}
    /\ r.pc \in SetControl => r.step = "setSecret"
    /\ r.pc \in {"getPending", "loginPending", "loginCurrent"}
          => r.current \in Version \ {ForeignVersion}
    /\ r.pc = "loginPrevious" => r.previous # NoVersion
    /\ r.pc = "alter" => r.conn \in Version \ {ForeignVersion}
    /\ r.pc = "testSecret" => r.step = "testSecret"
    /\ r.pc \in {"finishSecret", "move"} => r.step = "finishSecret"
    /\ r.pc = "move" => r.current # r.token
    /\ r.pc = "return" => SuccessMeans(r.token, r.step)

ExecInv == \A e \in Execution: ExecOK(exec[e])

IInv == TypeOK /\ LabelInv /\ AckInv /\ ExecInv /\ Recoverable

-----------------------------------------------------------------------------
(* Steps that only move an execution on                                    *)

sharedVars == <<stage, valued, target, acked, started>>

\* What the ways to continue an execution do to its record, field by field.
LEMMA ExecEffects ==
    ASSUME TypeOK, NEW e \in Execution, NEW pc, NEW v
    PROVE  /\ Goto(e, pc) => /\ exec'[e].pc = pc
                             /\ exec'[e].step = exec[e].step
                             /\ exec'[e].token = exec[e].token
                             /\ exec'[e].current = exec[e].current
                             /\ exec'[e].previous = exec[e].previous
                             /\ exec'[e].conn = exec[e].conn
           /\ Connect(e, v) => /\ exec'[e].pc = "alter"
                               /\ exec'[e].step = exec[e].step
                               /\ exec'[e].token = exec[e].token
                               /\ exec'[e].conn = v
           /\ Fail(e) => exec'[e] = Idle
           /\ exec' = [exec EXCEPT ![e].pc = pc, ![e].current = v]
                => /\ exec'[e].pc = pc
                   /\ exec'[e].step = exec[e].step
                   /\ exec'[e].token = exec[e].token
                   /\ exec'[e].current = v
           /\ exec' = [exec EXCEPT ![e].pc = pc, ![e].previous = v]
                => /\ exec'[e].pc = pc
                   /\ exec'[e].step = exec[e].step
                   /\ exec'[e].token = exec[e].token
                   /\ exec'[e].previous = v
  <1>1. exec \in [Execution -> ExecRecord] /\ exec[e] \in ExecRecord
    BY ExecUpdates, TypeOKRecord
  <1> QED
    BY <1>1 DEF Goto, Connect, Fail, ExecRecord

\* One call of an execution leaves the other executions alone.
LEMMA OthersUnchanged ==
    ASSUME TypeOK, NEW e \in Execution, Run(e) \/ Kill(e)
    PROVE  \A f \in Execution \ {e}: exec'[f] = exec[f]
  <1>1. exec \in [Execution -> ExecRecord]
    BY TypeOKRecord
  <1> QED
    BY <1>1 DEF Run, Kill, Goto, Connect, Fail, Refuse, AlreadyCurrent, Dispatch,
       CreateLookup, CreatePut, CreatePutRefused, SetGetPrevious, SetGetCurrent,
       SetGetPending, SetLoginPending, SetLoginCurrent, SetLoginPrevious,
       SetAlter, TestLogin, FinishDescribe, FinishMove, FinishMoveRefused, Return

\* A step that leaves the labels, the acknowledgements and the password alone
\* keeps the invariant if the execution it moves ends up somewhere allowed.
LEMMA QuietStep ==
    ASSUME IInv, NEW e \in Execution,
           UNCHANGED <<sharedVars, dbPassword>>,
           rotationEnabled' \in BOOLEAN,
           faults' \in 0..MaxFaults,
           exec' \in [Execution -> ExecRecord],
           \A f \in Execution \ {e}: exec'[f] = exec[f],
           ExecOK(exec'[e])
    PROVE  IInv'
  <1> USE DEF IInv, sharedVars
  <1>1. TypeOK'
    BY TypeOKRecord DEF TypeOK, ExecRecord
  <1>2. LabelInv' /\ AckInv' /\ Recoverable'
    BY DEF LabelInv, AckInv, Recoverable, SuccessMeans, PasswordSet,
           RotationInProgress
  <1>3. ExecInv'
    <2>1. SUFFICES ASSUME NEW f \in Execution PROVE ExecOK(exec[f])'
      BY DEF ExecInv
    <2>2. ExecOK(exec'[f])
      BY DEF ExecInv
    <2> QED
      BY <2>2 DEF ExecOK, ServedVersions, SuccessMeans, PasswordSet,
                  RotationInProgress
  <1> QED
    BY <1>1, <1>2, <1>3

\* The steps of an execution that touch neither labels nor the password.
LEMMA QuietRun ==
    ASSUME IInv, NEW e \in Execution,
           Run(e) \/ Kill(e),
           ~CreatePut(e), ~SetAlter(e), ~FinishMove(e), ~Return(e)
    PROVE  IInv'
  <1> USE VersionAssumption
  <1> DEFINE r == exec[e]
             r1 == exec'[e]
  <1>1. TypeOK /\ ExecOK(r) /\ LabelInv /\ AckInv
    BY DEF IInv, ExecInv
  <1>2. r \in ExecRecord /\ exec \in [Execution -> ExecRecord]
    BY <1>1, ExecUpdates, TypeOKRecord
  <1>3. \A f \in Execution \ {e}: exec'[f] = exec[f]
    BY <1>1, OthersUnchanged
  <1>4. exec' \in [Execution -> ExecRecord]
    BY <1>1, RunExecType, ExecUpdates DEF Kill
  <1>5. /\ Fault => faults' \in 0..MaxFaults
        /\ faults \in 0..MaxFaults
        /\ rotationEnabled \in BOOLEAN
    BY <1>1, FaultsAssumption DEF Fault, TypeOK
  <1>6. ExecOK(Idle)
    BY DEF ExecOK, Idle, SetControl
  <1>7. ASSUME UNCHANGED awsVars, UNCHANGED dbPassword, faults' \in 0..MaxFaults,
               ExecOK(r1)
        PROVE  IInv'
    BY <1>3, <1>4, <1>5, <1>7, QuietStep DEF awsVars, sharedVars
  <1>8. CASE Kill(e)
    BY <1>8, <1>1, <1>5, <1>6, <1>7, ExecEffects DEF Kill
  <1>9. CASE Refuse(e) \/ CreatePutRefused(e) \/ FinishMoveRefused(e)
    BY <1>9, <1>1, <1>5, <1>6, <1>7, ExecEffects
       DEF Refuse, CreatePutRefused, FinishMoveRefused
  <1>10. CASE AlreadyCurrent(e)
    <2>1. /\ r.pc = "check" /\ r.token = stage.AWSCURRENT
          /\ r1.pc = "return" /\ r1.step = r.step /\ r1.token = r.token
      BY <1>10, <1>1, ExecEffects DEF AlreadyCurrent, At
    <2>2. ExecOK(r1)
      BY <1>1, <2>1 DEF ExecOK, SetControl, LabelInv, ServedVersions,
         SuccessMeans, PasswordSet, RotationInProgress
    <2> QED
      BY <1>10, <1>5, <1>7, <2>2 DEF AlreadyCurrent
  <1>11. CASE Dispatch(e)
    <2>1. /\ r.pc = "check" /\ r.token # stage.AWSCURRENT
          /\ r.token = stage.AWSPENDING
          /\ r1.pc = r.step /\ r1.step = r.step /\ r1.token = r.token
      BY <1>11, <1>1, ExecEffects DEF Dispatch, At
    <2>2. r.step \in Step /\ r.token \in started /\ NoVersion \notin started
      BY <1>1, <1>2, <2>1 DEF ExecOK, ExecRecord, TypeOK
    <2>3. ExecOK(r1)
      BY <1>1, <2>1, <2>2 DEF ExecOK, SetControl, LabelInv, ServedVersions,
         RotationInProgress, Step
    <2> QED
      BY <1>11, <1>5, <1>7, <2>3 DEF Dispatch
  <1>12. CASE CreateLookup(e)
    <2>1. CASE Goto(e, "return") /\ PendingReadable(e)
      <3>1. /\ r.pc = "createSecret" /\ r.token \in valued
            /\ r1.pc = "return" /\ r1.step = r.step /\ r1.token = r.token
        BY <1>12, <2>1, <1>1, ExecEffects DEF CreateLookup, At, PendingReadable
      <3>2. ExecOK(r1)
        BY <1>1, <3>1 DEF ExecOK, SetControl, SuccessMeans
      <3> QED
        BY <1>12, <1>5, <1>7, <3>2 DEF CreateLookup
    <2>2. CASE Fail(e)
      BY <1>12, <2>2, <1>1, <1>5, <1>6, <1>7, ExecEffects DEF CreateLookup
    <2>3. CASE exec' = [exec EXCEPT ![e].pc = "put",
                                    ![e].current = stage.AWSCURRENT]
      <3>1. /\ r.pc = "createSecret" /\ r1.current = stage.AWSCURRENT
            /\ r1.pc = "put" /\ r1.step = r.step /\ r1.token = r.token
        BY <1>12, <2>3, <1>2 DEF CreateLookup, At, ExecRecord
      <3>2. stage.AWSCURRENT \in Version \ {ForeignVersion}
        BY <1>1 DEF LabelInv, TypeOK
      <3>3. ExecOK(r1)
        BY <1>1, <3>1, <3>2 DEF ExecOK, SetControl
      <3> QED
        BY <1>12, <1>5, <1>7, <3>3 DEF CreateLookup
    <2> QED
      BY <1>12, <2>1, <2>2, <2>3 DEF CreateLookup
  <1>13. CASE SetGetPrevious(e)
    <2>1. /\ r.pc = "setSecret"
          /\ r1.pc = "getCurrent" /\ r1.step = r.step /\ r1.token = r.token
      BY <1>13, <1>2 DEF SetGetPrevious, At, ExecRecord
    <2>2. ExecOK(r1)
      BY <1>1, <2>1 DEF ExecOK, SetControl
    <2> QED
      BY <1>13, <1>5, <1>7, <2>2 DEF SetGetPrevious
  <1>14. CASE SetGetCurrent(e)
    <2>1. /\ r.pc = "getCurrent" /\ r1.current = stage.AWSCURRENT
          /\ r1.pc = "getPending" /\ r1.step = r.step /\ r1.token = r.token
      BY <1>14, <1>2 DEF SetGetCurrent, At, ExecRecord
    <2>2. stage.AWSCURRENT \in Version \ {ForeignVersion}
      BY <1>1 DEF LabelInv, TypeOK
    <2>3. ExecOK(r1)
      BY <1>1, <2>1, <2>2 DEF ExecOK, SetControl
    <2> QED
      BY <1>14, <1>5, <1>7, <2>3 DEF SetGetCurrent
  <1>15. CASE SetGetPending(e)
    <2>1. CASE Fail(e)
      BY <1>15, <2>1, <1>1, <1>5, <1>6, <1>7, ExecEffects DEF SetGetPending
    <2>2. CASE Goto(e, "loginPending")
      <3>1. /\ r.pc = "getPending" /\ r1.current = r.current
            /\ r1.pc = "loginPending" /\ r1.step = r.step /\ r1.token = r.token
        BY <1>15, <2>2, <1>1, ExecEffects DEF SetGetPending, At
      <3>2. ExecOK(r1)
        BY <1>1, <3>1 DEF ExecOK, SetControl
      <3> QED
        BY <1>15, <1>5, <1>7, <3>2 DEF SetGetPending
    <2> QED
      BY <1>15, <2>1, <2>2 DEF SetGetPending
  <1>16. CASE SetLoginPending(e)
    <2>0. faults' \in 0..MaxFaults
      BY <1>16, <1>5 DEF SetLoginPending, LoginSucceeds, LoginRefused
    <2>1. CASE Fail(e)
      BY <1>16, <2>0, <2>1, <1>1, <1>6, <1>7, ExecEffects DEF SetLoginPending
    <2>2. CASE Goto(e, "loginCurrent")
      <3>1. /\ r.pc = "loginPending" /\ r1.current = r.current
            /\ r1.pc = "loginCurrent" /\ r1.step = r.step /\ r1.token = r.token
        BY <1>16, <2>2, <1>1, ExecEffects DEF SetLoginPending, At
      <3>2. ExecOK(r1)
        BY <1>1, <3>1 DEF ExecOK, SetControl
      <3> QED
        BY <1>16, <2>0, <1>7, <3>2 DEF SetLoginPending
    <2>3. CASE LoginSucceeds(r.token) /\ Goto(e, "return")
      <3>1. /\ r.pc = "loginPending"
            /\ r1.pc = "return" /\ r1.step = r.step /\ r1.token = r.token
        BY <1>16, <2>3, <1>1, ExecEffects DEF SetLoginPending, At
      <3>2. r.token \in started /\ r.token # ForeignVersion /\ r.token \in Version
            /\ r.step = "setSecret" /\ Before(r.step) \subseteq acked[r.token]
        BY <1>1, <3>1 DEF ExecOK, LabelInv, TypeOK, SetControl
      <3>3. r.token = dbPassword
        BY <1>1, <2>3, <3>2 DEF LoginSucceeds, LabelInv
      <3>4. SuccessMeans(r.token, r.step)
        BY <3>2, <3>3 DEF SuccessMeans, PasswordSet
      <3>5. ExecOK(r1)
        BY <1>1, <3>1, <3>4 DEF ExecOK, SetControl
      <3> QED
        BY <1>16, <2>0, <1>7, <3>5 DEF SetLoginPending
    <2> QED
      BY <1>16, <2>1, <2>2, <2>3 DEF SetLoginPending
  <1>17. CASE SetLoginCurrent(e)
    <2>0. faults' \in 0..MaxFaults
      BY <1>17, <1>5 DEF SetLoginCurrent, LoginSucceeds, LoginRefused
    <2>1. CASE Fail(e)
      BY <1>17, <2>0, <2>1, <1>1, <1>6, <1>7, ExecEffects DEF SetLoginCurrent
    <2>2. CASE r.previous # NoVersion /\ Goto(e, "loginPrevious")
      <3>1. /\ r.pc = "loginCurrent" /\ r1.previous = r.previous
            /\ r1.pc = "loginPrevious" /\ r1.step = r.step /\ r1.token = r.token
        BY <1>17, <2>2, <1>1, ExecEffects DEF SetLoginCurrent, At
      <3>2. ExecOK(r1)
        BY <1>1, <2>2, <3>1 DEF ExecOK, SetControl
      <3> QED
        BY <1>17, <2>0, <1>7, <3>2 DEF SetLoginCurrent
    <2>3. CASE Connect(e, r.current)
      <3>1. /\ r.pc = "loginCurrent" /\ r1.conn = r.current
            /\ r1.pc = "alter" /\ r1.step = r.step /\ r1.token = r.token
        BY <1>17, <2>3, <1>1, ExecEffects DEF SetLoginCurrent, At
      <3>2. ExecOK(r1)
        BY <1>1, <3>1 DEF ExecOK, SetControl
      <3> QED
        BY <1>17, <2>0, <1>7, <3>2 DEF SetLoginCurrent
    <2> QED
      BY <1>17, <2>1, <2>2, <2>3 DEF SetLoginCurrent
  <1>18. CASE SetLoginPrevious(e)
    <2>0. faults' \in 0..MaxFaults
      BY <1>18, <1>5 DEF SetLoginPrevious, LoginSucceeds, LoginRefused
    <2>1. CASE Fail(e)
      BY <1>18, <2>0, <2>1, <1>1, <1>6, <1>7, ExecEffects DEF SetLoginPrevious
    <2>2. CASE /\ target[r.previous] = target[r.token]
               /\ Connect(e, r.previous)
      <3>1. /\ r.pc = "loginPrevious" /\ r1.conn = r.previous
            /\ r1.pc = "alter" /\ r1.step = r.step /\ r1.token = r.token
        BY <1>18, <2>2, <1>1, ExecEffects DEF SetLoginPrevious, At
      <3>2. r.token \in started /\ r.previous \in Version
        BY <1>1, <1>2, <3>1 DEF ExecOK, ExecRecord, MaybeVersion
      <3>3. r.previous # ForeignVersion
        BY <1>1, <2>2, <3>2 DEF LabelInv, TypeOK
      <3>4. ExecOK(r1)
        BY <1>1, <3>1, <3>2, <3>3 DEF ExecOK, SetControl
      <3> QED
        BY <1>18, <2>0, <1>7, <3>4 DEF SetLoginPrevious
    <2> QED
      BY <1>18, <2>1, <2>2 DEF SetLoginPrevious
  <1>19. CASE TestLogin(e)
    <2>0. faults' \in 0..MaxFaults
      BY <1>19, <1>5 DEF TestLogin, LoginSucceeds, LoginRefused
    <2>1. CASE Fail(e)
      BY <1>19, <2>0, <2>1, <1>1, <1>6, <1>7, ExecEffects DEF TestLogin
    <2>2. CASE Goto(e, "return")
      <3>1. /\ r.pc = "testSecret"
            /\ r1.pc = "return" /\ r1.step = r.step /\ r1.token = r.token
        BY <1>19, <2>2, <1>1, ExecEffects DEF TestLogin, At
      <3>2. ExecOK(r1)
        BY <1>1, <3>1 DEF ExecOK, SetControl, SuccessMeans
      <3> QED
        BY <1>19, <2>0, <1>7, <3>2 DEF TestLogin
    <2> QED
      BY <1>19, <2>1, <2>2 DEF TestLogin
  <1>20. CASE FinishDescribe(e)
    <2>1. /\ r.pc = "finishSecret" /\ r1.current = stage.AWSCURRENT
          /\ r1.pc = IF stage.AWSCURRENT = r.token THEN "return" ELSE "move"
          /\ r1.step = r.step /\ r1.token = r.token
      BY <1>20, <1>2 DEF FinishDescribe, At, ExecRecord
    <2>2. ExecOK(r1)
      BY <1>1, <2>1 DEF ExecOK, SetControl, SuccessMeans
    <2> QED
      BY <1>20, <1>5, <1>7, <2>2 DEF FinishDescribe
  <1> QED
    BY <1>8, <1>9, <1>10, <1>11, <1>12, <1>13, <1>14, <1>15, <1>16, <1>17, <1>18,
       <1>19, <1>20 DEF Run
-----------------------------------------------------------------------------
(* Steps of Secrets Manager                                                *)

\* The invariant holds of the secret as the infrastructure leaves it.
LEMMA InitIInv == Init => IInv
  <1> USE VersionAssumption, FaultsAssumption
  <1>1. SUFFICES ASSUME Init PROVE IInv
    OBVIOUS
  <1>2. exec \in [Execution -> ExecRecord]
    BY <1>1, IdleType DEF Init
  <1>3. TypeOK
    BY <1>1, <1>2, TypeOKRecord DEF Init, Account, MaybeVersion, Step
  <1>4. LabelInv /\ AckInv /\ Recoverable
    BY <1>1 DEF Init, LabelInv, AckInv, Recoverable
  <1>5. ExecInv
    BY <1>1 DEF Init, ExecInv, ExecOK, Idle, SetControl
  <1> QED
    BY <1>3, <1>4, <1>5 DEF IInv

\* Starting a rotation: executions of the last one serve AWSCURRENT, and nothing
\* was reported of the new version yet.
LEMMA StartKeepsIInv ==
    ASSUME IInv, NEW v \in Version, StartRotation(v)
    PROVE  IInv'
  <1> USE VersionAssumption DEF StartRotation
  <1>1. TypeOK /\ LabelInv /\ AckInv /\ ExecInv /\ Recoverable
    BY DEF IInv
  <1>2. /\ stage'.AWSCURRENT = stage.AWSCURRENT
        /\ stage'.AWSPREVIOUS = stage.AWSPREVIOUS
        /\ stage'.AWSPENDING = v
        /\ v # stage.AWSCURRENT /\ v \notin started /\ v # NoVersion
    BY <1>1 DEF TypeOK, LabelInv
  <1>3. TypeOK'
    BY <1>1 DEF TypeOK, MaybeVersion
  <1>4. LabelInv'
    BY <1>1, <1>2 DEF LabelInv
  <1>5. Recoverable'
    BY <1>1, <1>2 DEF Recoverable, RotationInProgress, TypeOK
  <1>6. AckInv'
    BY <1>1, <1>2 DEF AckInv, SuccessMeans
  <1>7. ExecInv'
    <2>1. SUFFICES ASSUME NEW e \in Execution PROVE ExecOK(exec[e])'
      BY DEF ExecInv
    <2>2. ExecOK(exec[e]) /\ (Working(e) => exec[e].token = stage.AWSCURRENT)
      BY <1>1 DEF ExecInv
    <2>3. exec[e].pc = "return" => SuccessMeans(exec[e].token, exec[e].step)'
      BY <1>2, <2>2 DEF ExecOK, SuccessMeans, Working
    <2>4. exec[e].pc \notin {"idle", "check"} => exec[e].token \in ServedVersions'
      BY <1>2, <2>2 DEF ServedVersions, RotationInProgress, Working
    <2> QED
      BY <2>2, <2>3, <2>4 DEF ExecOK
  <1> QED
    BY <1>3, <1>4, <1>5, <1>6, <1>7 DEF IInv

\* Delivering a step.
LEMMA DeliverKeepsIInv ==
    ASSUME IInv, NEW e \in Execution, NEW v \in Version, NEW s \in Step,
           Deliver(e, v, s)
    PROVE  IInv'
  <1> USE DEF Deliver
  <1> DEFINE r1 == exec'[e]
  <1>1. TypeOK /\ exec \in [Execution -> ExecRecord]
    BY TypeOKRecord DEF IInv
  <1>2. /\ r1.pc = "check" /\ r1.step = s /\ r1.token = v
        /\ \A f \in Execution \ {e}: exec'[f] = exec[f]
    BY <1>1 DEF Idle
  <1>3. [Idle EXCEPT !.pc = "check", !.step = s, !.token = v] \in ExecRecord
    BY IdleType DEF ExecRecord, Control, MaybeVersion
  <1>4. exec' \in [Execution -> ExecRecord]
    BY <1>1, <1>3
  <1>5. ExecOK(r1)
    BY <1>2 DEF ExecOK, SetControl
  <1> QED
    BY <1>1, <1>2, <1>4, <1>5, QuietStep DEF awsVars, sharedVars, TypeOK

\* Switching rotation off or on: the invariant does not read the switch.
LEMMA SwitchKeepsIInv == IInv /\ SwitchRotation => IInv'
  <1>1. SUFFICES ASSUME IInv, SwitchRotation PROVE IInv'
    OBVIOUS
  <1> USE <1>1 DEF IInv, SwitchRotation
  <1>2. TypeOK'
    BY DEF TypeOK
  <1>3. LabelInv' /\ AckInv' /\ Recoverable'
    BY DEF LabelInv, AckInv, Recoverable, SuccessMeans, PasswordSet,
           RotationInProgress
  <1>4. ExecInv'
    BY DEF ExecInv, ExecOK, ServedVersions, SuccessMeans, PasswordSet,
           RotationInProgress
  <1> QED
    BY <1>2, <1>3, <1>4

\* An unchanged state keeps the invariant.
LEMMA StutterKeepsIInv == IInv /\ UNCHANGED vars => IInv'
  <1>1. SUFFICES ASSUME IInv, UNCHANGED vars PROVE IInv'
    OBVIOUS
  <1> USE <1>1 DEF IInv, vars
  <1>2. TypeOK'
    BY DEF TypeOK
  <1>3. LabelInv' /\ AckInv' /\ Recoverable'
    BY DEF LabelInv, AckInv, Recoverable, SuccessMeans, PasswordSet,
           RotationInProgress
  <1>4. ExecInv'
    BY DEF ExecInv, ExecOK, ServedVersions, SuccessMeans, PasswordSet,
           RotationInProgress
  <1> QED
    BY <1>2, <1>3, <1>4

-----------------------------------------------------------------------------
(* Steps of an execution that change the secret or the database            *)

\* create_secret stores a version only in the rotation in progress, under the
\* label it has already, with the host of a version that is not foreign.
LEMMA PutKeepsIInv ==
    ASSUME IInv, NEW e \in Execution, CreatePut(e)
    PROVE  IInv'
  <1> USE VersionAssumption
  <1> DEFINE r == exec[e]
             r1 == exec'[e]
  <1>1. TypeOK /\ LabelInv /\ AckInv /\ ExecInv /\ Recoverable /\ ExecOK(r)
    BY DEF IInv, ExecInv
  <1>2. /\ r.pc = "put" /\ r.token \notin valued /\ valued' = valued \union {r.token}
        /\ r1.pc = "return" /\ r1.step = r.step /\ r1.token = r.token
    BY <1>1, ExecEffects DEF CreatePut, At
  <1>3. /\ r.token \in started /\ r.token \in Version
        /\ r.token # ForeignVersion /\ r.token # NoVersion
        /\ r.current \in Version \ {ForeignVersion}
        /\ r.token \in ServedVersions /\ r.step = "createSecret"
    BY <1>1, <1>2 DEF ExecOK, LabelInv, TypeOK
  <1>4. r.token = stage.AWSPENDING /\ RotationInProgress
    BY <1>1, <1>2, <1>3 DEF ServedVersions, LabelInv
  <1>5. stage' = stage
    BY <1>1, <1>4 DEF CreatePut, TypeOK
  <1>6. target' = target
    BY <1>1, <1>3 DEF CreatePut, TypeOK, LabelInv
  <1>7. UNCHANGED <<dbPassword, acked, started, rotationEnabled, faults>>
    BY DEF CreatePut
  <1>8. exec' \in [Execution -> ExecRecord]
    BY <1>1, RunExecType DEF Run
  <1>9. TypeOK'
    BY <1>1, <1>2, <1>3, <1>5, <1>6, <1>7, <1>8 DEF TypeOK, ExecRecord
  <1>10. LabelInv' /\ AckInv' /\ Recoverable'
    BY <1>1, <1>2, <1>5, <1>6, <1>7 DEF LabelInv, AckInv, Recoverable, SuccessMeans,
       PasswordSet, RotationInProgress
  <1>11. ExecInv'
    <2>1. SUFFICES ASSUME NEW f \in Execution PROVE ExecOK(exec[f])'
      BY DEF ExecInv
    <2>2. CASE f = e
      <3>1. SuccessMeans(r.token, r.step)'
        BY <1>2, <1>3 DEF SuccessMeans
      <3>2. Before(r.step) \subseteq acked[r.token]
        BY <1>1, <1>2 DEF ExecOK
      <3>3. r.token \in ServedVersions'
        BY <1>3, <1>5 DEF ServedVersions, RotationInProgress
      <3> QED
        BY <2>2, <1>2, <1>3, <1>7, <3>1, <3>2, <3>3 DEF ExecOK, SetControl
    <2>3. CASE f # e
      <3>1. exec'[f] = exec[f] /\ ExecOK(exec[f])
        BY <1>1, <2>3, OthersUnchanged DEF ExecInv, Run
      <3> QED
        BY <3>1, <1>2, <1>5, <1>6, <1>7 DEF ExecOK, ServedVersions, SuccessMeans,
           PasswordSet, RotationInProgress
    <2> QED
      BY <2>2, <2>3
  <1> QED
    BY <1>1, <1>9, <1>10, <1>11 DEF IInv

\* set_secret sets the password of the version it serves, which carries a label
\* that set_secret tries.
LEMMA AlterKeepsIInv ==
    ASSUME IInv, NEW e \in Execution, SetAlter(e)
    PROVE  IInv'
  <1> USE VersionAssumption
  <1> DEFINE r == exec[e]
             r1 == exec'[e]
  <1>1. TypeOK /\ LabelInv /\ AckInv /\ ExecInv /\ Recoverable /\ ExecOK(r)
    BY DEF IInv, ExecInv
  <1>2. /\ r.pc = "alter"
        /\ r1.pc = "return" /\ r1.step = r.step /\ r1.token = r.token
        /\ UNCHANGED <<stage, valued, target, acked, started, rotationEnabled, faults>>
    BY <1>1, ExecEffects DEF SetAlter, At, awsVars
  <1>3. /\ r.token \in started /\ r.token \in Version /\ r.token # NoVersion
        /\ r.conn \in Version \ {ForeignVersion} /\ r.step = "setSecret"
        /\ r.token \in ServedVersions /\ Before(r.step) \subseteq acked[r.token]
    BY <1>1, <1>2 DEF ExecOK, TypeOK, SetControl
  <1>4. dbPassword' = r.token
    BY <1>1, <1>3 DEF SetAlter, LabelInv
  <1>5. Recoverable' /\ PasswordSet'
    BY <1>2, <1>3, <1>4 DEF Recoverable, PasswordSet, ServedVersions,
       RotationInProgress
  <1>6. exec' \in [Execution -> ExecRecord]
    BY <1>1, RunExecType DEF Run
  <1>7. TypeOK'
    BY <1>1, <1>2, <1>3, <1>4, <1>6 DEF TypeOK, ExecRecord
  <1>8. LabelInv'
    BY <1>1, <1>2 DEF LabelInv
  <1>9. \A v, s: SuccessMeans(v, s) => SuccessMeans(v, s)'
    BY <1>2, <1>5 DEF SuccessMeans
  <1>10. AckInv'
    BY <1>1, <1>2, <1>9 DEF AckInv
  <1>11. ExecInv'
    <2>1. SUFFICES ASSUME NEW f \in Execution PROVE ExecOK(exec[f])'
      BY DEF ExecInv
    <2>2. ServedVersions' = ServedVersions
      BY <1>2 DEF ServedVersions, RotationInProgress
    <2>3. CASE f = e
      <3>1. SuccessMeans(r.token, r.step)'
        BY <1>2, <1>3, <1>5 DEF SuccessMeans
      <3> QED
        BY <2>2, <2>3, <1>2, <1>3, <3>1 DEF ExecOK, SetControl
    <2>4. CASE f # e
      <3>1. exec'[f] = exec[f] /\ ExecOK(exec[f])
        BY <1>1, <2>4, OthersUnchanged DEF ExecInv, Run
      <3> QED
        BY <3>1, <2>2, <1>2, <1>9 DEF ExecOK
    <2> QED
      BY <2>3, <2>4
  <1> QED
    BY <1>5, <1>7, <1>8, <1>10, <1>11 DEF IInv

\* finish_secret completes the rotation in progress, or, run late, undoes the
\* last one: either way the versions it leaves labelled AWSCURRENT and
\* AWSPREVIOUS are those of which one is the password of the database.
LEMMA MoveKeepsIInv ==
    ASSUME IInv, NEW e \in Execution, FinishMove(e)
    PROVE  IInv'
  <1> USE VersionAssumption
  <1> DEFINE r == exec[e]
             r1 == exec'[e]
  <1>1. TypeOK /\ LabelInv /\ AckInv /\ ExecInv /\ Recoverable /\ ExecOK(r)
    BY DEF IInv, ExecInv
  <1>2. /\ r.pc = "move" /\ r.current = stage.AWSCURRENT
        /\ r1.pc = "return" /\ r1.step = r.step /\ r1.token = r.token
        /\ UNCHANGED <<valued, target, dbPassword, acked, started,
                       rotationEnabled, faults>>
    BY <1>1, ExecEffects DEF FinishMove, At
  <1>3. /\ stage'.AWSCURRENT = r.token
        /\ stage'.AWSPREVIOUS = stage.AWSCURRENT
        /\ stage'.AWSPENDING = stage.AWSPENDING
    BY <1>1, <1>2 DEF FinishMove, TypeOK
  <1>4. /\ r.token \in started /\ r.token \in Version /\ r.token # NoVersion
        /\ r.token # stage.AWSCURRENT /\ r.step = "finishSecret"
        /\ r.token \in ServedVersions
        /\ Before(r.step) \subseteq acked[r.token]
    BY <1>1, <1>2 DEF ExecOK, TypeOK
  <1>5. /\ SuccessMeans(r.token, "createSecret")
        /\ SuccessMeans(r.token, "setSecret")
    BY <1>1, <1>4 DEF AckInv, Before
  <1>6. r.token \in valued
    BY <1>5 DEF SuccessMeans
  <1>7. /\ ServedVersions' = ServedVersions
        /\ ServedVersions = {stage'.AWSCURRENT, stage'.AWSPREVIOUS}
        /\ dbPassword \in ServedVersions
        /\ RotationInProgress' => stage.AWSPENDING = stage.AWSCURRENT
    <2>1. CASE RotationInProgress
      <3>1. r.token = stage.AWSPENDING
        BY <2>1, <1>4 DEF ServedVersions
      <3>2. dbPassword \in {stage.AWSPENDING, stage.AWSCURRENT}
        BY <2>1, <3>1, <1>5 DEF SuccessMeans, PasswordSet
      <3> QED
        BY <2>1, <3>1, <3>2, <1>3 DEF ServedVersions, RotationInProgress
    <2>2. CASE ~RotationInProgress
      <3>1. r.token = stage.AWSPREVIOUS
        BY <2>2, <1>4 DEF ServedVersions
      <3>2. stage.AWSPENDING = stage.AWSCURRENT
        BY <2>2, <1>1, <1>4 DEF RotationInProgress, LabelInv
      <3>3. dbPassword \in {stage.AWSCURRENT, stage.AWSPREVIOUS}
        BY <3>2, <1>1 DEF Recoverable
      <3> QED
        BY <2>2, <3>1, <3>2, <3>3, <1>3 DEF ServedVersions, RotationInProgress
    <2> QED
      BY <2>1, <2>2
  <1>8. Recoverable' /\ PasswordSet'
    BY <1>2, <1>3, <1>7 DEF Recoverable, PasswordSet
  <1>9. exec' \in [Execution -> ExecRecord]
    BY <1>1, RunExecType DEF Run
  <1>10. TypeOK'
    <2>1. stage' \in [AWSCURRENT: Version, AWSPREVIOUS: MaybeVersion,
                       AWSPENDING: MaybeVersion]
      BY <1>1, <1>2, <1>4 DEF FinishMove, TypeOK, MaybeVersion
    <2> QED
      BY <1>1, <1>2, <1>9, <2>1 DEF TypeOK, ExecRecord
  <1>11. LabelInv'
    BY <1>1, <1>2, <1>3, <1>4, <1>6 DEF LabelInv
  <1>12. \A v, s: SuccessMeans(v, s) => SuccessMeans(v, s)'
    BY <1>2, <1>8 DEF SuccessMeans
  <1>13. AckInv'
    BY <1>1, <1>2, <1>12 DEF AckInv
  <1>14. ExecInv'
    <2>1. SUFFICES ASSUME NEW f \in Execution PROVE ExecOK(exec[f])'
      BY DEF ExecInv
    <2>2. CASE f = e
      <3>1. SuccessMeans(r.token, r.step)'
        BY <1>2, <1>4 DEF SuccessMeans
      <3> QED
        BY <2>2, <1>2, <1>4, <1>7, <3>1 DEF ExecOK, SetControl
    <2>3. CASE f # e
      <3>1. exec'[f] = exec[f] /\ ExecOK(exec[f])
        BY <1>1, <2>3, OthersUnchanged DEF ExecInv, Run
      <3> QED
        BY <3>1, <1>2, <1>7, <1>12 DEF ExecOK
    <2> QED
      BY <2>2, <2>3
  <1> QED
    BY <1>8, <1>10, <1>11, <1>13, <1>14 DEF IInv

\* A step that succeeded reports what it found to hold.
LEMMA ReturnKeepsIInv ==
    ASSUME IInv, NEW e \in Execution, Return(e)
    PROVE  IInv'
  <1> USE VersionAssumption
  <1> DEFINE r == exec[e]
  <1>1. TypeOK /\ LabelInv /\ AckInv /\ ExecInv /\ Recoverable /\ ExecOK(r)
    BY DEF IInv, ExecInv
  <1>2. /\ r.pc = "return" /\ exec'[e] = Idle
        /\ acked' = [acked EXCEPT ![r.token] = @ \union {r.step}]
        /\ UNCHANGED <<stage, valued, target, dbPassword, started,
                       rotationEnabled, faults>>
    BY <1>1, ExecEffects DEF Return, At
  <1>3. /\ r.token \in started /\ r.token \in Version /\ r.step \in Step
        /\ SuccessMeans(r.token, r.step)
    BY <1>1, <1>2, ExecUpdates DEF ExecOK, TypeOK, ExecRecord
  <1>4. acked' \in [Version -> SUBSET Step]
    BY <1>1, <1>2, <1>3 DEF TypeOK
  <1>5. \A v \in Version: acked[v] \subseteq acked'[v]
    BY <1>1, <1>2 DEF TypeOK
  <1>6. exec' \in [Execution -> ExecRecord]
    BY <1>1, RunExecType DEF Run
  <1>7. TypeOK'
    BY <1>1, <1>2, <1>4, <1>6 DEF TypeOK, ExecRecord
  <1>8. LabelInv' /\ Recoverable'
    BY <1>1, <1>2 DEF LabelInv, Recoverable
  <1>9. \A v, s: SuccessMeans(v, s) => SuccessMeans(v, s)'
    BY <1>2 DEF SuccessMeans, PasswordSet, RotationInProgress
  <1>10. AckInv'
    <2>1. SUFFICES ASSUME NEW v \in Version
                   PROVE  /\ v \notin started => acked'[v] = {}
                          /\ \A s \in acked'[v]: SuccessMeans(v, s)
      BY <1>2, <1>9 DEF AckInv
    <2>2. acked'[v] = IF v = r.token THEN acked[v] \union {r.step} ELSE acked[v]
      BY <1>1, <1>2 DEF TypeOK
    <2> QED
      BY <1>1, <1>3, <2>2 DEF AckInv
  <1>11. ExecInv'
    <2>1. SUFFICES ASSUME NEW f \in Execution PROVE ExecOK(exec[f])'
      BY DEF ExecInv
    <2>2. CASE f = e
      BY <2>2, <1>2 DEF ExecOK, Idle, SetControl
    <2>3. CASE f # e
      <3>1. exec'[f] = exec[f] /\ ExecOK(exec[f])
        BY <1>1, <2>3, OthersUnchanged DEF ExecInv, Run
      <3>2. ServedVersions' = ServedVersions
        BY <1>2 DEF ServedVersions, RotationInProgress
      <3>3. exec[f].pc # "idle" => /\ exec[f].token \in started
                                   /\ Before(exec[f].step) \subseteq acked'[exec[f].token]
        BY <1>1, <1>5, <3>1 DEF ExecOK, TypeOK
      <3> QED
        BY <3>1, <3>2, <3>3, <1>2, <1>9 DEF ExecOK
    <2> QED
      BY <2>2, <2>3
  <1> QED
    BY <1>7, <1>8, <1>10, <1>11 DEF IInv

-----------------------------------------------------------------------------
(* The theorems                                                            *)

\* Every step keeps the inductive invariant.
LEMMA NextKeepsIInv == IInv /\ [Next]_vars => IInv'
  <1>1. SUFFICES ASSUME IInv, [Next]_vars PROVE IInv'
    OBVIOUS
  <1>2. CASE UNCHANGED vars
    BY <1>1, <1>2, StutterKeepsIInv
  <1>3. CASE \E v \in Version: StartRotation(v)
    BY <1>1, <1>3, StartKeepsIInv
  <1>4. CASE SwitchRotation
    BY <1>1, <1>4, SwitchKeepsIInv
  <1>5. CASE \E e \in Execution, v \in Version, s \in Step: Deliver(e, v, s)
    BY <1>1, <1>5, DeliverKeepsIInv
  <1>6. ASSUME NEW e \in Execution, Run(e) \/ Kill(e) PROVE IInv'
    BY <1>1, <1>6, PutKeepsIInv, AlterKeepsIInv, MoveKeepsIInv, ReturnKeepsIInv,
       QuietRun
  <1> QED
    BY <1>1, <1>2, <1>3, <1>4, <1>5, <1>6 DEF Next

\* The inductive invariant holds in every reachable state.
THEOREM InductiveInvariant == Spec => []IInv
  BY InitIInv, NextKeepsIInv, PTL DEF Spec

\* The states of the rotation stay within their types.
THEOREM TypeCorrect == Spec => []TypeOK
  <1>1. IInv => TypeOK
    BY DEF IInv
  <1> QED
    BY <1>1, InductiveInvariant, PTL

\* One of the labels set_secret tries always names the password of the database,
\* whatever executions overlap, are delivered again, late, or are killed.
THEOREM AlwaysRecoverable == Spec => []Recoverable
  <1>1. IInv => Recoverable
    BY DEF IInv
  <1> QED
    BY <1>1, InductiveInvariant, PTL

\* The connection set_secret alters the user on leads to the account the
\* pending secret names, also when it was opened with the previous version.
THEOREM AltersOnlyOwnAccount == Spec => []AltersOwnAccount
  <1>1. IInv => AltersOwnAccount
    <2>1. SUFFICES ASSUME IInv, NEW e \in Execution, At(e, "alter")
                   PROVE  target[exec[e].conn] = target[exec[e].token]
      BY DEF AltersOwnAccount
    <2>2. /\ exec[e].conn \in Version \ {ForeignVersion}
          /\ exec[e].token \in Version \ {ForeignVersion}
      BY <2>1 DEF IInv, ExecInv, ExecOK, At, LabelInv, TypeOK
    <2> QED
      BY <2>1, <2>2 DEF IInv, LabelInv
  <1> QED
    BY <1>1, InductiveInvariant, PTL

-----------------------------------------------------------------------------
(* Executions that do not overlap                                          *)

\* At most one execution runs at a time.
Serial == \A e, f \in Execution: e = f

MidStep(r) == r.pc \notin {"idle", "check", "return"}

\* An execution in the middle of a step serves the rotation in progress: only
\* its own finishSecret could have ended that rotation.
ServesPending ==
    \A e \in Execution:
        MidStep(exec[e]) => RotationInProgress /\ exec[e].token = stage.AWSPENDING

\* Once setSecret succeeded for the pending version, reported or not, the
\* database has its password.
SetMeans ==
    /\ \A v \in Version:
          v = stage.AWSPENDING /\ "setSecret" \in acked[v] => dbPassword = v
    /\ \A e \in Execution:
          At(e, "return") /\ exec[e].step = "setSecret"
             /\ exec[e].token = stage.AWSPENDING => dbPassword = stage.AWSPENDING

SerialInv == IInv /\ CurrentLogsIn /\ ServesPending /\ SetMeans

LEMMA InitSerialInv == Init => SerialInv
  <1>1. SUFFICES ASSUME Init PROVE SerialInv
    OBVIOUS
  <1>2. IInv
    BY <1>1, InitIInv
  <1>3. \A e \in Execution: exec[e].pc = "idle"
    BY <1>1 DEF Init, Idle
  <1>4. CurrentLogsIn
    BY <1>1 DEF Init, CurrentLogsIn, RotationInProgress
  <1>5. ServesPending /\ SetMeans
    BY <1>1, <1>3 DEF Init, ServesPending, SetMeans, MidStep, At
  <1> QED
    BY <1>2, <1>4, <1>5 DEF SerialInv

\* A step that leaves the secret and the database alone keeps the invariant if
\* the execution it moves ends up where it may be.
LEMMA QuietSerial ==
    ASSUME SerialInv, IInv', NEW e \in Execution,
           UNCHANGED <<stage, dbPassword>>,
           \A v \in Version: "setSecret" \in acked'[v] /\ v = stage.AWSPENDING
                                => dbPassword = v,
           \A f \in Execution \ {e}: exec'[f] = exec[f],
           MidStep(exec'[e]) => /\ RotationInProgress
                                /\ exec'[e].token = stage.AWSPENDING,
           exec'[e].pc = "return" /\ exec'[e].step = "setSecret"
              /\ exec'[e].token = stage.AWSPENDING => dbPassword = stage.AWSPENDING
    PROVE  SerialInv'
  <1>1. CurrentLogsIn'
    BY DEF SerialInv, CurrentLogsIn, RotationInProgress
  <1>2. ServesPending'
    BY DEF SerialInv, ServesPending, RotationInProgress, MidStep
  <1>3. SetMeans'
    BY DEF SerialInv, SetMeans, At
  <1> QED
    BY <1>1, <1>2, <1>3 DEF SerialInv

\* What finish_secret does to the labels: it completes the rotation in progress,
\* whose password the database has.
LEMMA SerialMove ==
    ASSUME SerialInv, NEW e \in Execution, FinishMove(e)
    PROVE  /\ RotationInProgress
           /\ dbPassword = stage.AWSPENDING
           /\ stage' = [stage EXCEPT !.AWSCURRENT = dbPassword,
                                     !.AWSPREVIOUS = stage.AWSCURRENT]
           /\ UNCHANGED <<dbPassword, started>>
  <1>1. /\ exec[e].pc = "move" /\ MidStep(exec[e])
        /\ stage.AWSCURRENT = exec[e].current
    BY DEF FinishMove, At, MidStep
  <1>2. RotationInProgress /\ exec[e].token = stage.AWSPENDING
    BY <1>1 DEF SerialInv, ServesPending
  <1>3. "setSecret" \in acked[exec[e].token] /\ exec[e].token \in Version
    BY <1>1 DEF SerialInv, IInv, ExecInv, ExecOK, Before, TypeOK
  <1>4. dbPassword = stage.AWSPENDING
    BY <1>2, <1>3 DEF SerialInv, SetMeans
  <1> QED
    BY <1>1, <1>2, <1>4 DEF FinishMove

\* What set_secret does to the password, logged in with whichever version: it
\* becomes the pending one.
LEMMA SerialAlter ==
    ASSUME SerialInv, NEW e \in Execution, SetAlter(e)
    PROVE  /\ RotationInProgress
           /\ dbPassword' = stage.AWSPENDING
           /\ UNCHANGED <<stage, started>>
  <1>1. exec[e].pc = "alter" /\ MidStep(exec[e])
    BY DEF SetAlter, At, MidStep
  <1>2. RotationInProgress /\ exec[e].token = stage.AWSPENDING
    BY <1>1 DEF SerialInv, ServesPending
  <1>3. target[exec[e].conn] = "rds"
    BY <1>1 DEF SerialInv, IInv, ExecInv, ExecOK, LabelInv
  <1> QED
    BY <1>2, <1>3 DEF SetAlter, awsVars

\* The calls of an execution that change neither a label nor the password.
LEMMA SerialQuietRun ==
    ASSUME SerialInv, NEW e \in Execution, Run(e) \/ Kill(e),
           ~SetAlter(e), ~FinishMove(e)
    PROVE  SerialInv' /\ UNCHANGED <<stage, dbPassword, started>>
  <1> USE VersionAssumption
  <1> DEFINE r == exec[e]
             r1 == exec'[e]
  <1>1. /\ TypeOK /\ LabelInv /\ AckInv /\ ExecOK(r) /\ CurrentLogsIn
        /\ MidStep(r) => RotationInProgress /\ r.token = stage.AWSPENDING
        /\ r.pc = "return" /\ r.step = "setSecret" /\ r.token = stage.AWSPENDING
             => dbPassword = stage.AWSPENDING
        /\ \A v \in Version: v = stage.AWSPENDING /\ "setSecret" \in acked[v]
                               => dbPassword = v
    BY DEF SerialInv, IInv, ExecInv, ServesPending, SetMeans, At
  <1>2. IInv' /\ \A f \in Execution \ {e}: exec'[f] = exec[f]
    <2>1. IInv /\ Next
      BY DEF SerialInv, Next
    <2> QED
      BY <1>1, <2>1, NextKeepsIInv, OthersUnchanged
  <1>3. r \in ExecRecord /\ exec \in [Execution -> ExecRecord]
    BY <1>1, ExecUpdates, TypeOKRecord
  <1>4. ASSUME UNCHANGED <<stage, dbPassword, acked>>,
               MidStep(r1) => MidStep(r) /\ r1.token = r.token,
               r1.pc = "return" /\ r1.step = "setSecret" /\ r1.token = stage.AWSPENDING
                  => dbPassword = stage.AWSPENDING
        PROVE  SerialInv'
    <2>1. \A v \in Version: "setSecret" \in acked'[v] /\ v = stage.AWSPENDING
                              => dbPassword = v
      BY <1>1, <1>4
    <2>2. MidStep(r1) => RotationInProgress /\ r1.token = stage.AWSPENDING
      BY <1>1, <1>4
    <2> QED
      BY <1>2, <1>4, <2>1, <2>2, QuietSerial
  <1>5. /\ r1 = Idle => ~MidStep(r1) /\ r1.pc # "return"
        /\ Fail(e) => r1 = Idle
    <2>1. Idle.pc = "idle"
      BY DEF Idle
    <2>2. Fail(e) => exec'[e] = Idle
      BY <1>3 DEF Fail
    <2> QED
      BY <2>1, <2>2 DEF MidStep
  <1>6. CASE Kill(e)
    BY <1>6, <1>4, <1>5 DEF Kill, awsVars
  <1>7. CASE Refuse(e) \/ CreatePutRefused(e) \/ FinishMoveRefused(e)
    BY <1>7, <1>4, <1>5 DEF Refuse, CreatePutRefused, FinishMoveRefused, awsVars
  <1>8. CASE AlreadyCurrent(e)
    <2>1. /\ r1.pc = "return" /\ r1.token = r.token
          /\ r.token = stage.AWSCURRENT
      BY <1>8, <1>1, ExecEffects DEF AlreadyCurrent
    <2>2. r.token = stage.AWSPENDING => dbPassword = stage.AWSPENDING
      BY <1>1, <2>1 DEF CurrentLogsIn, RotationInProgress
    <2> QED
      BY <1>8, <1>4, <2>1, <2>2 DEF AlreadyCurrent, awsVars, MidStep
  <1>9. CASE Dispatch(e)
    <2>1. /\ r1.pc = r.step /\ r1.token = r.token /\ r.step \in Step
          /\ r.token = stage.AWSPENDING /\ r.token # stage.AWSCURRENT
          /\ r.pc = "check"
      BY <1>9, <1>1, <1>3, ExecEffects DEF Dispatch, At, ExecRecord
    <2>2. RotationInProgress /\ r1.pc # "return"
      BY <1>1, <2>1 DEF ExecOK, LabelInv, TypeOK, RotationInProgress, Step
    <2> QED
      BY <1>9, <1>1, <1>2, <2>1, <2>2, QuietSerial DEF Dispatch, awsVars
  <1>10. CASE CreateLookup(e)
    <2>1. r.pc = "createSecret" /\ MidStep(r) /\ r.step = "createSecret"
      BY <1>10, <1>1 DEF CreateLookup, At, MidStep, ExecOK
    <2>2. Goto(e, "return") => r1.token = r.token /\ r1.step = r.step
      BY <1>3 DEF Goto, ExecRecord
    <2>3. exec' = [exec EXCEPT ![e].pc = "put", ![e].current = stage.AWSCURRENT]
            => r1.token = r.token /\ r1.step = r.step
      BY <1>3 DEF ExecRecord
    <2>4. r1 = Idle \/ (r1.token = r.token /\ r1.step = r.step)
      BY <1>5, <1>10, <2>2, <2>3 DEF CreateLookup
    <2> QED
      BY <1>10, <1>4, <1>5, <2>1, <2>4 DEF CreateLookup, awsVars
  <1>11. CASE CreatePut(e)
    <2>1. /\ r.pc = "put" /\ MidStep(r) /\ r.step = "createSecret"
          /\ r1.pc = "return" /\ r1.step = r.step /\ r1.token = r.token
      BY <1>11, <1>1, ExecEffects DEF CreatePut, At, MidStep, ExecOK
    <2>2. stage' = stage
      BY <1>11, <1>1, <2>1 DEF CreatePut, TypeOK
    <2> QED
      BY <1>11, <1>4, <2>1, <2>2 DEF CreatePut, MidStep
  <1>12. CASE SetGetPrevious(e) \/ SetGetCurrent(e)
    <2>1. /\ MidStep(r) /\ r1.token = r.token /\ r1.pc # "return"
      BY <1>12, <1>1, <1>3 DEF SetGetPrevious, SetGetCurrent, At, MidStep, ExecRecord
    <2> QED
      BY <1>12, <1>4, <2>1 DEF SetGetPrevious, SetGetCurrent, awsVars
  <1>13. CASE SetGetPending(e) \/ SetLoginCurrent(e) \/ SetLoginPrevious(e)
    <2>1. MidStep(r)
      BY <1>13 DEF SetGetPending, SetLoginCurrent, SetLoginPrevious, At, MidStep
    <2>2. /\ \A v: Connect(e, v) => r1.token = r.token /\ r1.pc = "alter"
          /\ \A pc: Goto(e, pc) => r1.token = r.token /\ r1.pc = pc
      BY <1>3 DEF Connect, Goto, ExecRecord
    <2>3. r1 = Idle \/ (r1.token = r.token /\ r1.pc # "return")
      BY <1>5, <1>13, <2>2 DEF SetGetPending, SetLoginCurrent, SetLoginPrevious
    <2> QED
      BY <1>13, <1>4, <1>5, <2>1, <2>3
         DEF SetGetPending, SetLoginCurrent, SetLoginPrevious, awsVars
  <1>14. CASE SetLoginPending(e)
    <2>1. r.pc = "loginPending" /\ MidStep(r) /\ target[r.token] = "rds"
      BY <1>14, <1>1 DEF SetLoginPending, At, MidStep, ExecOK, LabelInv, TypeOK
    <2>2. \A pc: Goto(e, pc) => r1.token = r.token /\ r1.pc = pc
      BY <1>3 DEF Goto, ExecRecord
    <2>3. \/ r1 = Idle
          \/ r1.token = r.token /\ r1.pc # "return"
          \/ r1.token = r.token /\ dbPassword = r.token
      BY <1>5, <1>14, <2>1, <2>2 DEF SetLoginPending, LoginSucceeds
    <2> QED
      BY <1>14, <1>4, <1>5, <2>1, <2>3 DEF SetLoginPending, awsVars
  <1>15. CASE TestLogin(e) \/ FinishDescribe(e)
    <2>1. MidStep(r) /\ r.step # "setSecret"
      BY <1>15, <1>1 DEF TestLogin, FinishDescribe, At, MidStep, ExecOK
    <2>2. FinishDescribe(e) \/ Goto(e, "return")
             => r1.token = r.token /\ r1.step = r.step
      BY <1>3 DEF Goto, FinishDescribe, ExecRecord
    <2>3. r1 = Idle \/ (r1.token = r.token /\ r1.step = r.step)
      BY <1>5, <1>15, <2>2 DEF TestLogin
    <2> QED
      BY <1>15, <1>4, <1>5, <2>1, <2>3 DEF TestLogin, FinishDescribe, awsVars
  <1>16. CASE Return(e)
    <2>1. /\ r.pc = "return" /\ r1 = Idle
          /\ acked' = [acked EXCEPT ![r.token] = @ \union {r.step}]
          /\ UNCHANGED <<stage, dbPassword, started>>
      BY <1>16, <1>1, ExecEffects DEF Return, At
    <2>2. ASSUME NEW v \in Version, "setSecret" \in acked'[v], v = stage.AWSPENDING
          PROVE  dbPassword = v
      BY <1>1, <2>1, <2>2 DEF TypeOK
    <2> QED
      BY <1>2, <1>5, <2>1, <2>2, QuietSerial
  <1>17. SerialInv'
    BY <1>6, <1>7, <1>8, <1>9, <1>10, <1>11, <1>12, <1>13, <1>14, <1>15, <1>16
       DEF Run
  <1>18. UNCHANGED <<stage, dbPassword, started>>
    <2>1. CASE CreatePut(e)
      <3>1. r.token = stage.AWSPENDING
        BY <2>1, <1>1 DEF CreatePut, At, MidStep
      <3> QED
        BY <2>1, <3>1, <1>1 DEF CreatePut, TypeOK
    <2>2. CASE ~CreatePut(e)
      BY <2>2 DEF Run, Kill, Refuse, AlreadyCurrent, Dispatch, CreateLookup,
         CreatePutRefused, SetGetPrevious, SetGetCurrent, SetGetPending,
         SetLoginPending, SetLoginCurrent, SetLoginPrevious, TestLogin,
         FinishDescribe, FinishMoveRefused, Return, awsVars
    <2> QED
      BY <2>1, <2>2
  <1> QED
    BY <1>17, <1>18

\* A rotation starts while AWSCURRENT is the password of the database.
LEMMA SerialStart ==
    ASSUME SerialInv, NEW v \in Version, StartRotation(v)
    PROVE  SerialInv'
  <1> USE VersionAssumption DEF StartRotation
  <1>1. /\ TypeOK /\ LabelInv /\ AckInv /\ ExecInv
        /\ dbPassword = stage.AWSCURRENT
    BY DEF SerialInv, IInv, CurrentLogsIn
  <1>2. IInv'
    BY NextKeepsIInv DEF SerialInv, Next
  <1>3. /\ stage'.AWSPENDING = v /\ stage'.AWSCURRENT = stage.AWSCURRENT
        /\ v \notin started
    BY <1>1 DEF TypeOK
  <1>4. CurrentLogsIn'
    BY <1>1, <1>3 DEF CurrentLogsIn
  <1>5. ServesPending'
    BY <1>1 DEF SerialInv, ServesPending
  <1>6. SetMeans'
    BY <1>1, <1>3 DEF SetMeans, AckInv, At, ExecInv, ExecOK
  <1> QED
    BY <1>2, <1>4, <1>5, <1>6 DEF SerialInv

\* The two calls that change the password or AWSCURRENT.
LEMMA SerialChange ==
    ASSUME Serial, SerialInv, NEW e \in Execution, SetAlter(e) \/ FinishMove(e)
    PROVE  SerialInv'
  <1>1. TypeOK /\ ExecInv
    BY DEF SerialInv, IInv
  <1>2. IInv'
    BY NextKeepsIInv DEF SerialInv, Next, Run
  <1>3. CASE SetAlter(e)
    <2>1. /\ RotationInProgress' /\ dbPassword' = stage'.AWSPENDING
          /\ UNCHANGED <<stage, acked>>
      BY <1>3, SerialAlter DEF RotationInProgress, SetAlter, awsVars
    <2>2. /\ exec'[e].token = exec[e].token /\ MidStep(exec[e])
          /\ \A f \in Execution \ {e}: exec'[f] = exec[f]
      BY <1>1, <1>3, ExecEffects, OthersUnchanged DEF SetAlter, Run, At, MidStep
    <2>3. ServesPending'
      BY <2>1, <2>2 DEF SerialInv, ServesPending
    <2>4. CurrentLogsIn' /\ SetMeans'
      BY <2>1 DEF CurrentLogsIn, SetMeans
    <2> QED
      BY <1>2, <2>3, <2>4 DEF SerialInv
  <1>4. CASE FinishMove(e)
    <2>1. /\ stage'.AWSCURRENT = dbPassword' /\ stage'.AWSPENDING = dbPassword'
      BY <1>1, <1>4, SerialMove DEF TypeOK
    <2>2. exec'[e].pc = "return" /\ \A f \in Execution: f = e
      BY <1>1, <1>4, ExecEffects DEF FinishMove, Serial
    <2>3. ServesPending'
      BY <2>2 DEF ServesPending, MidStep
    <2>4. CurrentLogsIn' /\ SetMeans'
      BY <2>1 DEF CurrentLogsIn, SetMeans, RotationInProgress
    <2> QED
      BY <1>2, <2>3, <2>4 DEF SerialInv
  <1> QED
    BY <1>3, <1>4

\* Delivering a step, and switching rotation off or on.
LEMMA SerialDeliver ==
    ASSUME SerialInv,
           \/ UNCHANGED vars
           \/ SwitchRotation
           \/ \E e \in Execution, v \in Version, s \in Step: Deliver(e, v, s)
    PROVE  SerialInv' /\ UNCHANGED <<stage, dbPassword, started>>
  <1>1. IInv'
    BY NextKeepsIInv DEF SerialInv, Next
  <1>2. CASE SwitchRotation \/ UNCHANGED vars
    BY <1>1, <1>2 DEF SerialInv, CurrentLogsIn, ServesPending, SetMeans, At,
       MidStep, RotationInProgress, SwitchRotation, vars
  <1>3. ASSUME NEW e \in Execution, NEW v \in Version, NEW s \in Step,
               Deliver(e, v, s)
        PROVE  SerialInv' /\ UNCHANGED <<stage, dbPassword, started>>
    <2>1. UNCHANGED <<stage, dbPassword, started, acked>>
      BY <1>3 DEF Deliver, awsVars
    <2>2. /\ exec'[e].pc = "check"
          /\ \A f \in Execution \ {e}: exec'[f] = exec[f]
      BY <1>3, TypeOKRecord DEF SerialInv, IInv, Deliver, Idle
    <2>3. SerialInv'
      BY <1>1, <2>1, <2>2, QuietSerial DEF SerialInv, SetMeans, MidStep
    <2> QED
      BY <2>1, <2>3
  <1> QED
    BY <1>2, <1>3 DEF SwitchRotation, vars

LEMMA NextKeepsSerialInv == Serial /\ SerialInv /\ [Next]_vars => SerialInv'
  <1>1. SUFFICES ASSUME Serial, SerialInv, [Next]_vars PROVE SerialInv'
    OBVIOUS
  <1> QED
    BY <1>1, SerialStart, SerialChange, SerialDeliver, SerialQuietRun DEF Next

\* Executions that do not overlap keep the secret and the database in step:
\* between rotations AWSCURRENT logs in, within one AWSCURRENT or AWSPENDING does.
THEOREM SerialCurrentLogsIn == Serial => (Spec => []CurrentLogsIn)
  <1>1. SUFFICES ASSUME Serial PROVE Spec => []CurrentLogsIn
    OBVIOUS
  <1>2. SerialInv /\ [Next]_vars => SerialInv'
    BY <1>1, NextKeepsSerialInv
  <1>3. SerialInv => CurrentLogsIn
    BY DEF SerialInv
  <1> QED
    BY <1>2, <1>3, InitSerialInv, PTL DEF Spec

-----------------------------------------------------------------------------
(* The contract of the secret's readers                                    *)

\* The initial secret is one the contract starts from.
LEMMA InitContract == Init => Contract!ContractInit
  BY VersionAssumption DEF Init, Contract!ContractInit

\* Every step changes the password once, publishes it, or changes nothing a
\* reader of the secret can see.
LEMMA StepContract ==
    ASSUME Serial, SerialInv, [Next]_vars
    PROVE  [Contract!ContractNext]_(Contract!contractVars)
  <1> USE VersionAssumption
  <1>1. TypeOK /\ LabelInv
    BY DEF SerialInv, IInv
  <1>2. ASSUME UNCHANGED <<stage, dbPassword, started>>
        PROVE  UNCHANGED Contract!contractVars
    BY <1>2 DEF Contract!contractVars
  <1>3. ASSUME NEW v \in Version, StartRotation(v)
        PROVE  UNCHANGED Contract!contractVars
    <2>1. /\ dbPassword = stage.AWSCURRENT /\ dbPassword' = dbPassword
          /\ stage.AWSPENDING \in {NoVersion, dbPassword}
      BY <1>3 DEF StartRotation, SerialInv, CurrentLogsIn, RotationInProgress
    <2>2. /\ stage'.AWSPENDING = v /\ stage'.AWSCURRENT = stage.AWSCURRENT
          /\ started' = started \union {v}
          /\ v \notin started \union {InitialVersion}
      BY <1>1, <1>3 DEF StartRotation, TypeOK
    <2>3. v # dbPassword /\ NoVersion \notin started \union {InitialVersion}
      BY <1>1, <2>1, <2>2 DEF LabelInv, TypeOK
    <2> QED
      BY <2>1, <2>2, <2>3 DEF Contract!contractVars
  <1>4. ASSUME NEW e \in Execution, SetAlter(e)
        PROVE  [Contract!ContractNext]_(Contract!contractVars)
    <2>1. /\ RotationInProgress /\ dbPassword' = stage.AWSPENDING
          /\ UNCHANGED <<stage, started>>
      BY <1>4, SerialAlter
    <2>2. stage.AWSPENDING \in started /\ stage.AWSPENDING \in Version
      BY <1>1, <2>1 DEF RotationInProgress, LabelInv, TypeOK
    <2>3. CASE dbPassword = stage.AWSPENDING
      BY <2>1, <2>3 DEF Contract!contractVars
    <2>4. CASE dbPassword # stage.AWSPENDING
      <3>1. dbPassword = stage.AWSCURRENT
        BY <2>1, <2>4 DEF SerialInv, CurrentLogsIn
      <3>2. Contract!ChangePassword(stage.AWSPENDING)
        BY <2>1, <2>2, <2>4, <3>1 DEF Contract!ChangePassword
      <3> QED
        BY <2>2, <3>2 DEF Contract!ContractNext
    <2> QED
      BY <2>3, <2>4
  <1>5. ASSUME NEW e \in Execution, FinishMove(e)
        PROVE  Contract!Publish
    <2>1. /\ RotationInProgress /\ dbPassword = stage.AWSPENDING
          /\ stage'.AWSCURRENT = dbPassword /\ stage'.AWSPENDING = stage.AWSPENDING
          /\ UNCHANGED <<dbPassword, started>>
      BY <1>1, <1>5, SerialMove DEF TypeOK
    <2> QED
      BY <2>1 DEF Contract!Publish, RotationInProgress
  <1>6. ASSUME NEW e \in Execution, Run(e) \/ Kill(e), ~SetAlter(e), ~FinishMove(e)
        PROVE  UNCHANGED Contract!contractVars
    BY <1>2, <1>6, SerialQuietRun
  <1>7. ASSUME \/ UNCHANGED vars
               \/ SwitchRotation
               \/ \E e \in Execution, v \in Version, s \in Step: Deliver(e, v, s)
        PROVE  UNCHANGED Contract!contractVars
    BY <1>2, <1>7, SerialDeliver
  <1> QED
    BY <1>3, <1>4, <1>5, <1>6, <1>7 DEF Next, Contract!ContractNext

\* Executions that do not overlap implement the contract: the password changes
\* only while AWSCURRENT is the current one, to one never used, and the next
\* change waits until finishSecret has published it.
THEOREM SerialImplementsContract == Serial => (Spec => ImplementsContract)
  <1>1. SUFFICES ASSUME Serial PROVE Spec => ImplementsContract
    OBVIOUS
  <1>2. SerialInv /\ [Next]_vars => SerialInv'
    BY <1>1, NextKeepsSerialInv
  <1>3. SerialInv /\ [Next]_vars => [Contract!ContractNext]_(Contract!contractVars)
    BY <1>1, StepContract
  <1> QED
    BY <1>2, <1>3, InitSerialInv, InitContract, PTL
       DEF Spec, ImplementsContract, Contract!ContractSpec

-----------------------------------------------------------------------------
(* The cluster                                                             *)
(*                                                                         *)
(* What is read of AWSCURRENT passes from the operator to the Secret, the  *)
(* template and the pods, and none of them holds a version ahead of the    *)
(* one before it.                                                          *)

PodRecord == [phase: Cluster!Phase, made: Cluster!Template,
              dsn: Version \union {NoVersion}, linked: BOOLEAN]
Pods == [Pod -> PodRecord]

\* A password in the cluster was published: it is an old one, not the one the
\* database has got and the secret has not.
Published(v) == v \in spent /\ (password # current => v # password)

\* What is anywhere in the cluster was published.
OnlyPublished ==
    /\ password \in spent /\ current \in spent
    /\ fetched # NoVersion => Published(fetched)
    /\ Published(synced)
    /\ Published(template.secret)
    /\ \A p \in Pod : pods[p].phase # "absent" => Published(pods[p].made.secret)

\* Nothing behind the Secret is ahead of it: once AWSCURRENT is known further
\* on, the Secret holds it and the operator is about to write nothing else.
InOrder ==
    /\ synced = current => fetched \in {NoVersion, current}
    /\ template.secret = current => synced = current
    /\ \A p \in Pod : pods[p].phase # "absent" /\ pods[p].made.secret = current
                          => synced = current

\* The inductive invariant.
DeliveryInv == Cluster!TypeOK /\ OnlyPublished /\ InOrder /\ Cluster!ReloadedWithCurrent

\* The pod that is not there is a pod.
LEMMA AbsentTyped == Cluster!Absent \in PodRecord
BY VersionAssumption, DeploymentAssumption DEF Cluster!Absent, Cluster!Phase, Cluster!Template, PodRecord

\* Every pod serves, with the only password there is.
LEMMA InitDelivery == Cluster!Init => DeliveryInv
<1> SUFFICES ASSUME Cluster!Init PROVE DeliveryInv  OBVIOUS
<1>1. template \in Cluster!Template /\ template.secret = InitialVersion
  BY VersionAssumption, DeploymentAssumption DEF Cluster!Init, Cluster!Template
<1>2. PICK running \in SUBSET Pod :
        pods = [p \in Pod |-> IF p \in running
                              THEN [phase |-> "serving", made |-> template,
                                    dsn |-> InitialVersion, linked |-> TRUE]
                              ELSE Cluster!Absent]
  BY DEF Cluster!Init
<1>3. [phase |-> "serving", made |-> template, dsn |-> InitialVersion, linked |-> TRUE]
         \in PodRecord
  BY <1>1, VersionAssumption, DeploymentAssumption DEF Cluster!Phase, PodRecord
<1>4. pods \in Pods  BY <1>2, <1>3, AbsentTyped DEF Pods
<1>5. Cluster!TypeOK
  BY <1>1, <1>4, VersionAssumption, DeploymentAssumption DEF Cluster!Init, Cluster!ContractInit, Cluster!TypeOK, Pods, PodRecord
<1>6. \A p \in Pod : pods[p].phase # "absent" =>
                       pods[p].made.secret = InitialVersion /\ pods[p].dsn = InitialVersion
  BY <1>1, <1>2 DEF Cluster!Absent
<1>7. OnlyPublished  BY <1>1, <1>6 DEF Cluster!Init, Cluster!ContractInit, OnlyPublished, Published
<1>8. InOrder  BY <1>1 DEF Cluster!Init, Cluster!ContractInit, InOrder
<1>9. Cluster!ReloadedWithCurrent  BY <1>6 DEF Cluster!Init, Cluster!ContractInit, Cluster!ReloadedWithCurrent
<1> QED  BY <1>5, <1>7, <1>8, <1>9 DEF DeliveryInv

\* A rotation: the new password is nowhere in the cluster, so neither it nor
\* its publication makes anything there current.
LEMMA RotateStep == DeliveryInv /\ Cluster!Rotate => DeliveryInv'
<1> SUFFICES ASSUME DeliveryInv, Cluster!Rotate PROVE DeliveryInv'  OBVIOUS
<1> USE DEF Cluster!Rotate
<1>1. CASE \E v \in Version : Cluster!ChangePassword(v)
  <2>1. PICK v \in Version : Cluster!ChangePassword(v)  BY <1>1
  <2>2. Cluster!TypeOK'  BY <2>1 DEF Cluster!ChangePassword, DeliveryInv, Cluster!TypeOK
  <2>3. OnlyPublished'
    BY <2>1 DEF Cluster!ChangePassword, DeliveryInv, Cluster!TypeOK, OnlyPublished, Published
  <2>4. InOrder' /\ Cluster!ReloadedWithCurrent'
    BY <2>1 DEF Cluster!ChangePassword, DeliveryInv, InOrder, Cluster!ReloadedWithCurrent
  <2> QED  BY <2>2, <2>3, <2>4 DEF DeliveryInv
<1>2. CASE Cluster!Publish
  <2>1. Cluster!TypeOK'  BY <1>2 DEF Cluster!Publish, DeliveryInv, Cluster!TypeOK
  <2>2. OnlyPublished'
    BY <1>2 DEF Cluster!Publish, DeliveryInv, Cluster!TypeOK, OnlyPublished, Published
  <2>3. /\ synced # current' /\ template.secret # current'
        /\ \A p \in Pod : pods[p].phase # "absent" => pods[p].made.secret # current'
    BY <1>2 DEF Cluster!Publish, DeliveryInv, OnlyPublished, Published
  <2>4. InOrder' /\ Cluster!ReloadedWithCurrent'
    BY <1>2, <2>3 DEF Cluster!Publish, InOrder, Cluster!ReloadedWithCurrent
  <2> QED  BY <2>1, <2>2, <2>4 DEF DeliveryInv
<1> QED  BY <1>1, <1>2 DEF Cluster!ContractNext

\* The operator reads what is published, and writes what it read.
LEMMA CopyStep == DeliveryInv /\ (Cluster!Fetch \/ Cluster!Sync) => DeliveryInv'
<1> SUFFICES ASSUME DeliveryInv, Cluster!Fetch \/ Cluster!Sync PROVE DeliveryInv'  OBVIOUS
<1> USE DEF Cluster!contractVars
<1>1. CASE Cluster!Fetch
  <2>1. Cluster!TypeOK'  BY <1>1 DEF Cluster!Fetch, DeliveryInv, Cluster!TypeOK
  <2>2. OnlyPublished'  BY <1>1 DEF Cluster!Fetch, DeliveryInv, OnlyPublished, Published
  <2>3. InOrder' /\ Cluster!ReloadedWithCurrent'
    BY <1>1 DEF Cluster!Fetch, DeliveryInv, InOrder, Cluster!ReloadedWithCurrent
  <2> QED  BY <2>1, <2>2, <2>3 DEF DeliveryInv
<1>2. CASE Cluster!Sync
  <2>1. Cluster!TypeOK'  BY <1>2, VersionAssumption, DeploymentAssumption DEF Cluster!Sync, DeliveryInv, Cluster!TypeOK
  <2>2. OnlyPublished'  BY <1>2 DEF Cluster!Sync, DeliveryInv, OnlyPublished, Published
  <2>3. InOrder' /\ Cluster!ReloadedWithCurrent'
    BY <1>2 DEF Cluster!Sync, DeliveryInv, InOrder, Cluster!ReloadedWithCurrent
  <2> QED  BY <2>1, <2>2, <2>3 DEF DeliveryInv
<1> QED  BY <1>1, <1>2

\* The template takes over what the Secret holds, or another image.
LEMMA TemplateStep == DeliveryInv /\ (Cluster!Reload \/ Cluster!Release) => DeliveryInv'
<1> SUFFICES ASSUME DeliveryInv, Cluster!Reload \/ Cluster!Release PROVE DeliveryInv'  OBVIOUS
<1> USE DEF Cluster!contractVars
<1>1. template.release \in 0..MaxReleases /\ template.secret \in Version /\ synced \in Version
  BY DEF DeliveryInv, Cluster!TypeOK, Cluster!Template
<1>2. CASE Cluster!Reload
  <2>1. template' \in Cluster!Template /\ template'.secret = synced
    BY <1>1, <1>2 DEF Cluster!Reload, DeliveryInv, Cluster!TypeOK, Cluster!Template
  <2>2. Cluster!TypeOK'  BY <1>2, <2>1 DEF Cluster!Reload, DeliveryInv, Cluster!TypeOK
  <2>3. OnlyPublished'  BY <1>2, <2>1 DEF Cluster!Reload, DeliveryInv, OnlyPublished, Published
  <2>4. InOrder' /\ Cluster!ReloadedWithCurrent'
    BY <1>2, <2>1 DEF Cluster!Reload, DeliveryInv, InOrder, Cluster!ReloadedWithCurrent
  <2> QED  BY <2>2, <2>3, <2>4 DEF DeliveryInv
<1>3. CASE Cluster!Release
  <2>1. template.release + 1 \in 0..MaxReleases
    BY <1>1, <1>3, VersionAssumption, DeploymentAssumption DEF Cluster!Release
  <2>2. template' \in Cluster!Template /\ template'.secret = template.secret
    BY <1>1, <1>3, <2>1 DEF Cluster!Release, DeliveryInv, Cluster!TypeOK, Cluster!Template
  <2>3. Cluster!TypeOK'  BY <1>3, <2>2 DEF Cluster!Release, DeliveryInv, Cluster!TypeOK
  <2>4. OnlyPublished'  BY <1>3, <2>2 DEF Cluster!Release, DeliveryInv, OnlyPublished, Published
  <2>5. InOrder' /\ Cluster!ReloadedWithCurrent'
    BY <1>3, <2>2 DEF Cluster!Release, DeliveryInv, InOrder, Cluster!ReloadedWithCurrent
  <2> QED  BY <2>3, <2>4, <2>5 DEF DeliveryInv
<1> QED  BY <1>2, <1>3

\* A pod becomes one that is not there, one just made from the template, one
\* started with the Secret, or one that only changed its phase: either way its
\* template and its DSN are in order.
LEMMA PodStep ==
    ASSUME DeliveryInv, NEW p \in Pod,
           NEW q \in PodRecord,
           pods' = [pods EXCEPT ![p] = q],
           UNCHANGED <<Cluster!contractVars, fetched, synced, template>>,
           crashes' \in 0..MaxCrashes,
           q.phase # "absent" =>
               Published(q.made.secret) /\ (q.made.secret = current => synced = current),
           q.phase \notin {"absent", "created"} /\ q.made.secret = current => q.dsn = current
    PROVE  DeliveryInv'
<1> USE DEF Cluster!contractVars
<1>1. \A r \in Pod : pods'[r] = IF r = p THEN q ELSE pods[r]
  BY DEF DeliveryInv, Cluster!TypeOK
<1>2. Cluster!TypeOK'  BY DEF DeliveryInv, Cluster!TypeOK, PodRecord
<1>3. OnlyPublished'  BY <1>1 DEF DeliveryInv, OnlyPublished, Published
<1>4. InOrder'  BY <1>1 DEF DeliveryInv, InOrder
<1>5. Cluster!ReloadedWithCurrent'  BY <1>1 DEF DeliveryInv, Cluster!ReloadedWithCurrent
<1> QED  BY <1>2, <1>3, <1>4, <1>5 DEF DeliveryInv

\* Each step of the Deployment and of a pod is such a change.
LEMMA PodSteps ==
    ASSUME DeliveryInv, NEW p \in Pod,
           \/ Cluster!ScaleUp(p) \/ Cluster!ScaleDown(p) \/ Cluster!StartContainer(p) \/ Cluster!Boot(p) \/ Cluster!Disconnect(p)
           \/ Cluster!Crash(p)
    PROVE  DeliveryInv'
<1>1. pods[p] \in PodRecord /\ crashes \in 0..MaxCrashes /\ synced \in Version
  BY DEF DeliveryInv, Cluster!TypeOK, PodRecord
<1>2. pods[p].phase # "absent" =>
          Published(pods[p].made.secret) /\ (pods[p].made.secret = current => synced = current)
  BY DEF DeliveryInv, OnlyPublished, InOrder
<1>3. pods[p].phase \notin {"absent", "created"} /\ pods[p].made.secret = current
          => pods[p].dsn = current
  BY DEF DeliveryInv, Cluster!ReloadedWithCurrent
<1>4. CASE Cluster!ScaleUp(p)
  <2> DEFINE q == [Cluster!Absent EXCEPT !.phase = "created", !.made = template]
  <2>1. template \in Cluster!Template  BY DEF DeliveryInv, Cluster!TypeOK
  <2>2. q \in PodRecord /\ q.phase = "created" /\ q.made = template
    BY <2>1, AbsentTyped DEF Cluster!Absent, Cluster!Phase, PodRecord
  <2>3. Published(template.secret) /\ (template.secret = current => synced = current)
    BY DEF DeliveryInv, OnlyPublished, InOrder
  <2> QED  BY <1>1, <1>4, <2>2, <2>3, PodStep DEF Cluster!ScaleUp
<1>5. CASE Cluster!ScaleDown(p)
  <2>1. Cluster!Absent.phase = "absent"  BY DEF Cluster!Absent
  <2> QED  BY <1>1, <1>5, <2>1, AbsentTyped, PodStep DEF Cluster!ScaleDown
<1>6. CASE Cluster!StartContainer(p)
  <2> DEFINE q == [pods[p] EXCEPT !.phase = "started", !.dsn = synced, !.linked = FALSE]
  <2>1. q \in PodRecord /\ q.phase = "started" /\ q.dsn = synced /\ q.made = pods[p].made
    BY <1>1 DEF Cluster!Phase, PodRecord
  <2>2. pods' = [pods EXCEPT ![p] = q]  BY <1>6 DEF Cluster!StartContainer, DeliveryInv, Cluster!TypeOK
  <2>3. pods[p].phase # "absent"  BY <1>6 DEF Cluster!StartContainer
  <2> QED  BY <1>1, <1>2, <1>6, <2>1, <2>2, <2>3, PodStep DEF Cluster!StartContainer
<1>7. CASE Cluster!Boot(p)
  <2> DEFINE good == pods[p].dsn = password
             q == [pods[p] EXCEPT !.phase = IF good THEN "serving" ELSE "exited",
                                  !.linked = good]
  <2>1. q \in PodRecord /\ q.phase \in {"serving", "exited"}
        /\ q.dsn = pods[p].dsn /\ q.made = pods[p].made
    BY <1>1 DEF Cluster!Phase, PodRecord
  <2>2. pods' = [pods EXCEPT ![p] = q]
    <3>1. CASE good  BY <1>7, <3>1 DEF Cluster!Boot, DeliveryInv, Cluster!TypeOK
    <3>2. CASE ~good  BY <1>7, <3>2 DEF Cluster!Boot, DeliveryInv, Cluster!TypeOK
    <3> QED  BY <3>1, <3>2
  <2>3. pods[p].phase = "started"  BY <1>7 DEF Cluster!Boot
  <2>4. UNCHANGED <<Cluster!contractVars, fetched, synced, template>> /\ crashes' \in 0..MaxCrashes
    BY <1>1, <1>7 DEF Cluster!Boot
  <2> HIDE DEF q
  <2> QED  BY <1>2, <1>3, <2>1, <2>2, <2>3, <2>4, PodStep
<1>8. CASE Cluster!Disconnect(p)
  <2> DEFINE q == [pods[p] EXCEPT !.linked = FALSE]
  <2>1. q \in PodRecord /\ q.phase = pods[p].phase
        /\ q.dsn = pods[p].dsn /\ q.made = pods[p].made
    BY <1>1 DEF PodRecord
  <2>2. pods' = [pods EXCEPT ![p] = q]  BY <1>8 DEF Cluster!Disconnect, DeliveryInv, Cluster!TypeOK
  <2> QED  BY <1>1, <1>2, <1>3, <1>8, <2>1, <2>2, PodStep DEF Cluster!Disconnect
<1>9. CASE Cluster!Crash(p)
  <2> DEFINE q == [pods[p] EXCEPT !.phase = "exited", !.linked = FALSE]
  <2>1. q \in PodRecord /\ q.phase = "exited" /\ q.dsn = pods[p].dsn /\ q.made = pods[p].made
    BY <1>1 DEF Cluster!Phase, PodRecord
  <2>2. pods' = [pods EXCEPT ![p] = q]  BY <1>9 DEF Cluster!Crash, DeliveryInv, Cluster!TypeOK
  <2>3. pods[p].phase \in {"started", "serving"}  BY <1>9 DEF Cluster!Crash
  <2>4. crashes' \in 0..MaxCrashes  BY <1>1, <1>9, VersionAssumption, DeploymentAssumption DEF Cluster!Crash
  <2> QED  BY <1>2, <1>3, <1>9, <2>1, <2>2, <2>3, <2>4, PodStep DEF Cluster!Crash
<1> QED  BY <1>4, <1>5, <1>6, <1>7, <1>8, <1>9

\* Every step keeps the invariant.
LEMMA StepDelivery == DeliveryInv /\ [Cluster!Next]_Cluster!deliveryVars => DeliveryInv'
<1> SUFFICES ASSUME DeliveryInv, [Cluster!Next]_Cluster!deliveryVars PROVE DeliveryInv'  OBVIOUS
<1>1. CASE Cluster!Rotate  BY <1>1, RotateStep
<1>2. CASE Cluster!Fetch \/ Cluster!Sync  BY <1>2, CopyStep
<1>3. CASE Cluster!Reload \/ Cluster!Release  BY <1>3, TemplateStep
<1>4. ASSUME NEW p \in Pod,
             \/ Cluster!ScaleUp(p) \/ Cluster!ScaleDown(p) \/ Cluster!StartContainer(p) \/ Cluster!Boot(p) \/ Cluster!Disconnect(p)
             \/ Cluster!Crash(p)
      PROVE  DeliveryInv'
  BY <1>4, PodSteps
<1>5. CASE UNCHANGED Cluster!deliveryVars
  BY <1>5 DEF Cluster!deliveryVars, DeliveryInv, Cluster!TypeOK, OnlyPublished, Published, InOrder,
              Cluster!ReloadedWithCurrent
<1> QED  BY <1>1, <1>2, <1>3, <1>4, <1>5 DEF Cluster!Next, Cluster!ClusterNext

\* Calls that do not overlap are steps of the contract, so of SecretDelivery.
LEMMA StepToPods ==
    ASSUME Serial, SerialInv, [NextToPods]_<<vars, clusterVars>>
    PROVE  [Cluster!Next]_(Cluster!deliveryVars)
<1>1. CASE [Next]_vars /\ UNCHANGED clusterVars
  <2>1. [Contract!ContractNext]_(Contract!contractVars)
    BY <1>1, StepContract
  <2>2. [Cluster!ContractNext]_(Cluster!contractVars)
    BY <2>1 DEF Contract!ContractNext, Contract!ChangePassword, Contract!Publish,
                Contract!contractVars, Cluster!ContractNext, Cluster!ChangePassword,
                Cluster!Publish, Cluster!contractVars, password, current, spent
  <2>3. CASE Cluster!ContractNext
    <3>1. Cluster!Rotate  BY <1>1, <2>3 DEF Cluster!Rotate, clusterVars
    <3> QED  BY <3>1 DEF Cluster!Next
  <2>4. CASE UNCHANGED Cluster!contractVars
    BY <1>1, <2>4 DEF Cluster!contractVars, Cluster!deliveryVars, clusterVars
  <2> QED  BY <2>2, <2>3, <2>4
<1>2. CASE UNCHANGED vars /\ Cluster!ClusterNext
  BY <1>2 DEF Cluster!Next
<1>3. CASE UNCHANGED <<vars, clusterVars>>
  BY <1>3 DEF vars, clusterVars, Cluster!deliveryVars, password, current, spent
<1> QED  BY <1>1, <1>2, <1>3 DEF NextToPods

\* The function's part of a step.
LEMMA StepFunction == [NextToPods]_<<vars, clusterVars>> => [Next]_vars
BY DEF NextToPods

\* Where executions do not overlap, the function and the cluster are what
\* SecretDelivery says they are, call by call.
THEOREM SerialDelivers == Serial => (SpecToPods => ImplementsDelivery)
<1>1. SUFFICES ASSUME Serial PROVE SpecToPods => ImplementsDelivery
  OBVIOUS
<1>2. InitToPods => SerialInv /\ Cluster!Init
  BY InitSerialInv DEF InitToPods
<1>3. SerialInv /\ [NextToPods]_<<vars, clusterVars>> => SerialInv'
  BY <1>1, NextKeepsSerialInv, StepFunction
<1>4. SerialInv /\ [NextToPods]_<<vars, clusterVars>> => [Cluster!Next]_(Cluster!deliveryVars)
  BY <1>1, StepToPods
<1> QED
  BY <1>2, <1>3, <1>4, PTL DEF SpecToPods, ImplementsDelivery, Cluster!Spec

\* The chain from AWSCURRENT to the pods stays in order.
THEOREM Chain == ImplementsDelivery => []DeliveryInv
<1> QED  BY InitDelivery, StepDelivery, PTL DEF ImplementsDelivery, Cluster!Spec

\* The state of the cluster stays within its types.
THEOREM ClusterTyped == Serial => (SpecToPods => []ClusterTypeOK)
<1>1. SUFFICES ASSUME Serial PROVE SpecToPods => []ClusterTypeOK
  OBVIOUS
<1>2. DeliveryInv => ClusterTypeOK  BY DEF DeliveryInv, ClusterTypeOK
<1>3. SpecToPods => ImplementsDelivery  BY <1>1, SerialDelivers
<1> QED  BY <1>2, <1>3, Chain, PTL

\* Whatever the function has done when the operator, Reloader or a kubelet looks,
\* a pod whose template names AWSCURRENT started, and restarts, with it
\* (external-secret.yaml, stakater-reloader.yaml, deployment.yaml).
THEOREM ReloadsCurrent == Serial => (SpecToPods => []PodsReloadCurrent)
<1>1. SUFFICES ASSUME Serial PROVE SpecToPods => []PodsReloadCurrent
  OBVIOUS
<1>2. DeliveryInv => PodsReloadCurrent  BY DEF DeliveryInv, PodsReloadCurrent
<1>3. SpecToPods => ImplementsDelivery  BY <1>1, SerialDelivers
<1> QED  BY <1>2, <1>3, Chain, PTL
=============================================================================
