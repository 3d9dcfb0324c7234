---------------------------- MODULE RotationToPods ----------------------------
(***************************************************************************)
(* CredentialRotation with the cluster behind it.  SecretDelivery has the  *)
(* whole Lambda function as two steps of a contract; here the operator,    *)
(* Reloader and the pods follow the function call by call, with its        *)
(* failures, timeouts and late invocations.  NoVersion is none of the      *)
(* versions for both (VersionAssumption).                                  *)
(***************************************************************************)
EXTENDS CredentialRotation, Deployment

VARIABLES fetched, synced, template, pods, crashes

\* What the cluster sees of the rotation, as in Contract.
password == dbPassword
current == stage.AWSCURRENT
spent == ({InitialVersion} \union started) \ ({stage.AWSPENDING} \ {dbPassword})

Cluster == INSTANCE SecretDelivery

clusterVars == <<fetched, synced, template, pods, crashes>>

InitToPods == Init /\ Cluster!Init
NextToPods ==
    \/ Next /\ UNCHANGED clusterVars
    \/ UNCHANGED vars /\ Cluster!ClusterNext
SpecToPods == InitToPods /\ [][NextToPods]_<<vars, clusterVars>>

\* The function goes on as in CredentialRotation; the operator and Reloader keep
\* reconciling, and so do the Deployment and the kubelet.
ClusterFairness ==
    /\ WF_clusterVars(UNCHANGED vars /\ (Cluster!Fetch \/ Cluster!Sync))
    /\ WF_clusterVars(UNCHANGED vars /\ Cluster!Reload)
    /\ \A p \in Pod:
         /\ WF_clusterVars(UNCHANGED vars /\ (Cluster!ScaleUp(p) \/ Cluster!ScaleDown(p)))
         /\ WF_clusterVars(UNCHANGED vars /\ (Cluster!StartContainer(p) \/ Cluster!Boot(p)))

FairSpecToPods == SpecToPods /\ Fairness /\ ClusterFairness

\* The state of the cluster has its types (external-secret.yaml,
\* stakater-reloader.yaml, deployment.yaml).
ClusterTypeOK == Cluster!TypeOK

\* Whatever the function has done when the operator, Reloader or a kubelet looks,
\* a pod whose template names AWSCURRENT started, and restarts, with it
\* (external-secret.yaml, stakater-reloader.yaml, deployment.yaml).
PodsReloadCurrent == Cluster!ReloadedWithCurrent

\* Once rotation stays switched on and after the last release and crash, the
\* Deployment comes to rest with all its replicas serving on the password of the
\* database (lambda_function.py, stakater-reloader.yaml, deployment.yaml).
PodsReconnect ==
    <>[]rotationEnabled =>
        <>[](/\ Cardinality(Cluster!Live) = Replicas
             /\ \A p \in Cluster!Live: pods[p].phase = "serving" /\ pods[p].dsn = password)

\* One execution at a time: the function and the cluster are a SecretDelivery.
ImplementsDelivery == Cluster!Spec
===============================================================================
