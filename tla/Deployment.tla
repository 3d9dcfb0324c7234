----------------------------- MODULE Deployment -----------------------------
(***************************************************************************)
(* The numbers of the Memos Deployment (infra/k8s), and the bounds under   *)
(* which SecretDelivery is checked.                                        *)
(***************************************************************************)
EXTENDS Naturals, FiniteSets

CONSTANTS
    Pod,            \* names of pods: at most Replicas + MaxSurge exist
    Replicas,       \* replicas of the Deployment
    MaxSurge,       \* pods a rollout may add
    MaxReleases,    \* bound: images released
    MaxCrashes      \* bound: containers that end by themselves

ASSUME DeploymentAssumption ==
    /\ Replicas \in Nat \ {0} /\ MaxSurge \in Nat
    /\ MaxReleases \in Nat /\ MaxCrashes \in Nat
    /\ IsFiniteSet(Pod) /\ Cardinality(Pod) >= Replicas + MaxSurge
=============================================================================
