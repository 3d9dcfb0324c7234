--------------------------- MODULE SecretDelivery ---------------------------
(***************************************************************************)
(* How the password of the database reaches the Memos pods.  Rotation      *)
(* keeps CredentialContract (which CredentialRotation implements); the     *)
(* External Secrets Operator copies AWSCURRENT into the Secret memos-dsn,  *)
(* Stakater Reloader notes the new content in the pod template, and the    *)
(* Deployment rolls its pods.  A container reads MEMOS_DSN when it starts  *)
(* and keeps it; without a readiness probe a pod counts as available from  *)
(* that moment, before main.go has reached the database.                   *)
(***************************************************************************)
EXTENDS CredentialContract, Deployment, Naturals, FiniteSets

CONSTANT NoVersion      \* not a version: the operator has none it has yet to write

VARIABLES
    fetched,    \* the version the operator read and has not written yet
    synced,     \* the version in the Secret memos-dsn
    template,   \* pod template: released image, and the Secret content noted
    pods,       \* what each pod is doing
    crashes

deliveryVars == <<password, current, spent, fetched, synced, template, pods,
                  crashes>>

Phase == {"absent", "created", "started", "serving", "exited"}
Template == [release: 0..MaxReleases, secret: Version]
Absent == [phase |-> "absent", made |-> [release |-> 0, secret |-> InitialVersion],
           dsn |-> NoVersion, linked |-> FALSE]

TypeOK ==
    /\ password \in Version /\ current \in Version
    /\ spent \in SUBSET Version
    /\ fetched \in Version \union {NoVersion}
    /\ synced \in Version
    /\ template \in Template
    /\ pods \in [Pod -> [phase: Phase, made: Template,
                         dsn: Version \union {NoVersion}, linked: BOOLEAN]]
    /\ crashes \in 0..MaxCrashes

\* The Deployment is rolled out and every pod is connected.
Init ==
    /\ ContractInit
    /\ fetched = NoVersion
    /\ synced = InitialVersion
    /\ template = [release |-> 0, secret |-> InitialVersion]
    /\ \E running \in SUBSET Pod:
         /\ Cardinality(running) = Replicas
         /\ pods = [p \in Pod |->
                      IF p \in running
                      THEN [phase |-> "serving", made |-> template,
                            dsn |-> InitialVersion, linked |-> TRUE]
                      ELSE Absent]
    /\ crashes = 0

-----------------------------------------------------------------------------
(* Rotation, and the copy of the secret in the cluster                     *)

Rotate ==
    /\ ContractNext
    /\ UNCHANGED <<fetched, synced, template, pods, crashes>>

\* A reconcile reads AWSCURRENT: after an hour, or when secret-rotation.sh
\* annotates the ExternalSecret.  One reconcile of it runs at a time.
Fetch ==
    /\ fetched = NoVersion
    /\ fetched' = current
    /\ UNCHANGED <<contractVars, synced, template, pods, crashes>>

\* Mutant: the Secret is written although nothing was read.
SyncUnread ==
    /\ synced' = fetched
    /\ fetched' = NoVersion
    /\ UNCHANGED <<contractVars, template, pods, crashes>>

\* ... and writes the Secret it templates.
Sync ==
    /\ fetched # NoVersion
    /\ synced' = fetched
    /\ fetched' = NoVersion
    /\ UNCHANGED <<contractVars, template, pods, crashes>>

\* Mutant: Reloader acts on the rotation instead of the Secret it watches.
ReloadOnPublish ==
    /\ template.secret # current
    /\ template' = [template EXCEPT !.secret = current]
    /\ UNCHANGED <<contractVars, fetched, synced, pods, crashes>>

\* Mutant: the annotation names another Secret, so nothing reloads.
ReloadOther ==
    /\ template.secret # synced
    /\ UNCHANGED deliveryVars

\* Reloader patches the pod template when the Secret has other content than
\* the annotation noted, also after its own restart (syncAfterRestart).
Reload ==
    /\ template.secret # synced
    /\ template' = [template EXCEPT !.secret = synced]
    /\ UNCHANGED <<contractVars, fetched, synced, pods, crashes>>

\* The deployment pipeline sets another image.
Release ==
    /\ template.release < MaxReleases
    /\ template' = [template EXCEPT !.release = @ + 1]
    /\ UNCHANGED <<contractVars, fetched, synced, pods, crashes>>

-----------------------------------------------------------------------------
(* The Deployment                                                          *)

Live == {p \in Pod: pods[p].phase # "absent"}
Updated == {p \in Live: pods[p].made = template}

\* No readiness probe: a pod is ready as soon as its container runs.
Available == {p \in Live: pods[p].phase \in {"started", "serving"}}

ScaleUp(p) ==
    /\ p \notin Live
    /\ Cardinality(Live) < Replicas + MaxSurge
    /\ Cardinality(Updated) < Replicas
    /\ pods' = [pods EXCEPT ![p] = [Absent EXCEPT !.phase = "created",
                                                  !.made = template]]
    /\ UNCHANGED <<contractVars, fetched, synced, template, crashes>>

\* maxUnavailable = 0: pods of an old template that are not available go first,
\* an available one only while more than Replicas are available.
ScaleDown(p) ==
    /\ p \in Live \ Updated
    /\ Cardinality(Live) > Replicas + Cardinality(Updated \ Available)
    /\ p \in Available => /\ Live \ Updated \subseteq Available
                          /\ Cardinality(Available) > Replicas
    /\ pods' = [pods EXCEPT ![p] = Absent]
    /\ UNCHANGED <<contractVars, fetched, synced, template, crashes>>

-----------------------------------------------------------------------------
(* A pod                                                                   *)

\* The kubelet starts the container, or restarts it after an exit, with the
\* MEMOS_DSN the Secret holds then.
StartContainer(p) ==
    /\ pods[p].phase \in {"created", "exited"}
    /\ pods' = [pods EXCEPT ![p].phase = "started", ![p].dsn = synced,
                            ![p].linked = FALSE]
    /\ UNCHANGED <<contractVars, fetched, synced, template, crashes>>

\* main.go: sql.Open does not connect; Migrate is the first to, and the process
\* ends when it fails.
Boot(p) ==
    /\ pods[p].phase = "started"
    /\ pods' = [pods EXCEPT
                 ![p].phase  = IF pods[p].dsn = password THEN "serving" ELSE "exited",
                 ![p].linked = pods[p].dsn = password]
    /\ UNCHANGED <<contractVars, fetched, synced, template, crashes>>

\* The open connections of a pod end (the network, the server), or it needs one
\* more than it has, and its DSN opens no other.  While the DSN is good the pool
\* replaces a connection at once.
Disconnect(p) ==
    /\ pods[p].linked /\ pods[p].dsn # password
    /\ pods' = [pods EXCEPT ![p].linked = FALSE]
    /\ UNCHANGED <<contractVars, fetched, synced, template, crashes>>

\* The container ends, for instance at its memory limit.
Crash(p) ==
    /\ pods[p].phase \in {"started", "serving"}
    /\ crashes < MaxCrashes
    /\ crashes' = crashes + 1
    /\ pods' = [pods EXCEPT ![p].phase = "exited", ![p].linked = FALSE]
    /\ UNCHANGED <<contractVars, fetched, synced, template>>

-----------------------------------------------------------------------------

\* What the cluster does.
ClusterNext ==
    \/ Fetch \/ Sync \/ Reload \/ Release
    \/ \E p \in Pod:
         \/ ScaleUp(p) \/ ScaleDown(p)
         \/ StartContainer(p) \/ Boot(p) \/ Disconnect(p) \/ Crash(p)

Next == Rotate \/ ClusterNext

Spec == Init /\ [][Next]_deliveryVars

-----------------------------------------------------------------------------
(* Properties                                                              *)

\* A pod made because the Secret changed starts, and restarts, with the password
\* it was made for: once its template names AWSCURRENT, so does its DSN.
ReloadedWithCurrent ==
    \A p \in Pod:
        pods[p].phase \notin {"absent", "created"} /\ pods[p].made.secret = current
            => pods[p].dsn = current

\* README.md asks "How do you rotate database credentials without downtime?":
\* at any time some pod is connected to the database or can connect.
WithoutDowntime ==
    \E p \in Pod: /\ pods[p].phase = "serving"
                  /\ pods[p].linked
=============================================================================
