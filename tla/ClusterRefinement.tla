-------------------------- MODULE ClusterRefinement --------------------------
(***************************************************************************)
(* ClusterLifecycle implements ManagedCluster: every container, file and   *)
(* command seen through the mapping below.                                 *)
(***************************************************************************)
EXTENDS ClusterLifecycle

\* The absent value is no record of a cluster.
ASSUME RecordAssumption ==
  None \notin [id : Id, namespaces : SUBSET Env, running : SUBSET Env]

\* The process between a successful BeginEnvironmentOperation and Close.
LeaseHolder ==
  IF lock # None /\ pc[lock] \in {"e_lease", "e_close"} THEN lock ELSE None

\* cluster-state.json without the release that wrote it.
OnRecord ==
  IF stateFile = None THEN None
  ELSE [id |-> stateFile.id, namespaces |-> stateFile.namespaces,
        running |-> stateFile.running]

\* Everything Start set up for the recorded cluster is still there.
Intact ==
  /\ stateFile # None /\ MarkerMatches(stateFile.id) /\ RegistryOwned(stateFile.id)
  /\ node.api = stateFile.id /\ registry.net

\* The identity of the cluster that a Start is building.
UnderConstruction ==
  IF lock # None /\ pc[lock] \in Building THEN cid[lock] ELSE None

Managed == INSTANCE ManagedCluster WITH
  User <- Proc, holder <- LeaseHolder, record <- OnRecord, intact <- Intact,
  pending <- UnderConstruction, drawn <- used

\* The cluster package keeps its promise: leases are exclusive and open only on
\* a complete cluster; what is recorded changes only under a lease, one
\* environment at a time; a damaged cluster is never taken for repaired and
\* never forgotten while it is whole; identities never come back.  All this
\* across crashes, late commands, failed starts and manual interventions.
ImplementsManagedCluster == Managed!Spec

=============================================================================
