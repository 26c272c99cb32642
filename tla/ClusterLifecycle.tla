--------------------------- MODULE ClusterLifecycle ---------------------------
(***************************************************************************)
(* The local kind cluster that tripgoctl manages, as the cluster package   *)
(* (src/internal/cluster) and the cluster commands of the CLI              *)
(* (src/internal/cli/commands.go) handle it.                               *)
(*                                                                         *)
(* Several tripgoctl processes run commands on one machine.  They share    *)
(* the advisory lock, the state file and the Docker daemon with its two    *)
(* containers: the control-plane node and the local registry.  A step is   *)
(* one command of the runner (docker, kind, Kubernetes) or one access to   *)
(* the state file, so processes interleave, fail and die between any two.  *)
(* Commands that only read, and run back to back under the lock, are one   *)
(* step: every other tripgoctl needs the same lock to write.  Late         *)
(* commands and people do not; they act between any two steps.             *)
(***************************************************************************)
EXTENDS Integers, FiniteSets

CONSTANTS
  Proc,       \* the tripgoctl processes
  Id,         \* the random cluster identities newClusterID may return
  Env,        \* the tripgo-lab-XX namespaces
  Release,    \* tripgoctl releases, one per kind/Kubernetes version and config hash
  None,       \* the absent value
  MaxFaults   \* bound: failures, crashes and manual interventions in a run

ASSUME FaultsAssumption == MaxFaults \in Nat

VARIABLES
  lock,       \* holder of the flock on cluster.lock, or None
  stateFile,  \* cluster-state.json, or None
  node,       \* the tripgo-local-control-plane container, or None
  registry,   \* the tripgo-local-registry container, or None
  late,       \* commands that outlive the caller that gave up on them
  used,       \* identities already drawn (128 random bits never repeat)
  pc,         \* where each process is
  call,       \* the command a process runs and its release
  cid,        \* Start: the identity of the cluster being created
  val,        \* the state a process loaded, or None
  plan,       \* Stop: what it was told and what it saw
  res,        \* how the last command of a process ended
  faults,     \* faults so far
  unclean     \* ghost: what happened so far that tripgoctl cannot undo

world  == <<node, registry, late>>
locals == <<call, cid, val, plan>>
vars   == <<lock, stateFile, node, registry, late, used, pc, call, cid, val,
            plan, res, faults, unclean>>

-----------------------------------------------------------------------------
(* Data.  A container without our identity has None where ours has an Id.  *)

MaybeId == Id \cup {None}

State    == [id : Id, rel : Release, namespaces : SUBSET Env, running : SUBSET Env]
Node     == [gen : MaybeId, marker : MaybeId, api : MaybeId, rel : Release \cup {None}]
Registry == [label : MaybeId, net : BOOLEAN]
Command  == [cmd : {"kindCreate", "kindDelete", "dockerRun", "dockerRm"},
             id : MaybeId, rel : Release \cup {None}]
Plan     == [expected : SUBSET Env, asked : BOOLEAN, registry : BOOLEAN]
Call     == [cmd : {"none", "start", "status", "stop", "env"}, rel : Release \cup {None}]

StartLabels == {"s_check", "s_list", "s_verify", "s_orphan", "s_rmorphan", "s_ports",
                "s_run", "s_create", "s_net", "s_mark", "s_api", "s_write",
                "c_node", "c_reg"}
InspectLabels == {"i_check", "i_verify"}
StopLabels    == {"t_check", "t_look", "t_marker", "t_delnode", "t_owner", "t_rmreg",
                  "t_rmstate"}
EnvLabels     == {"e_check", "e_verify", "e_lease", "e_close"}
Critical      == StartLabels \cup InspectLabels \cup StopLabels \cup EnvLabels
Label         == Critical \cup {"idle", "prompt", "stop"}
Result        == {"none", "ok", "prereq", "conflict", "error", "canceled"}

\* "start": a Start was interrupted, or its cleanup failed, after it created a
\* container or asked for one.  "people": somebody touched the containers by
\* hand.  "stray": a late docker rm removed the registry of another cluster than
\* the one it was issued for.
Debris == {"start", "people", "stray"}

\* That container was removed, by a late command or by people, while an operation
\* was running.
Vanished == {"node", "registry"}

Tidy(u)   == u \cap Debris = {}
Steady(u) == u \cap Vanished = {}

\* The absent value is none of the values it stands in for.
ASSUME NoneAssumption ==
  /\ None \notin Id /\ None \notin Release /\ None \notin Proc
  /\ None \notin State /\ None \notin Node /\ None \notin Registry

NoPlan == [expected |-> {}, asked |-> FALSE, registry |-> FALSE]
NoCall == [cmd |-> "none", rel |-> None]

Init ==
  /\ lock = None /\ stateFile = None /\ node = None /\ registry = None
  /\ late = {} /\ used = {}
  /\ pc = [p \in Proc |-> "idle"]
  /\ call = [p \in Proc |-> NoCall]
  /\ cid = [p \in Proc |-> None]
  /\ val = [p \in Proc |-> None]
  /\ plan = [p \in Proc |-> NoPlan]
  /\ res = [p \in Proc |-> "none"]
  /\ faults = 0 /\ unclean = {}

-----------------------------------------------------------------------------
(* Moving between steps, ending a command, failing.                        *)

Goto(p, l) == pc' = [pc EXCEPT ![p] = l] /\ UNCHANGED lock

\* The process ends its command; a deferred close releases the lock it held.
Return(p, r) ==
  /\ pc' = [pc EXCEPT ![p] = "idle"]
  /\ lock' = IF lock = p THEN None ELSE lock
  /\ call' = [call EXCEPT ![p] = NoCall]
  /\ cid' = [cid EXCEPT ![p] = None]
  /\ val' = [val EXCEPT ![p] = None]
  /\ plan' = [plan EXCEPT ![p] = NoPlan]
  /\ res' = [res EXCEPT ![p] = r]

Fault == faults < MaxFaults /\ faults' = faults + 1

\* The caller gave up on command c (error, timeout, cancellation): the daemon
\* may nevertheless still carry it out, now or later.
GiveUp(c) == Fault /\ late' \in {late, late \cup {c}}

\* Sets a flag of unclean when b holds.
Flag(u, f, b) == IF b THEN u \cup {f} ELSE u

Cmd(c, id, r) == [cmd |-> c, id |-> id, rel |-> r]

\* flock(LOCK_EX|LOCK_NB): a busy lock fails the operation at once.
AcquireLock(p, l) ==
  /\ lock = None
  /\ lock' = p
  /\ pc' = [pc EXCEPT ![p] = l]

LockBusy(p) ==
  /\ lock # None
  /\ Return(p, "conflict")

-----------------------------------------------------------------------------
(* Service.Start.                                                          *)

\* newClusterID needs an identity that is left: the bound on Id.
StartBegin(p, r) ==
  /\ pc[p] = "idle"
  /\ \/ /\ used # Id
        /\ AcquireLock(p, "s_check")
        /\ call' = [call EXCEPT ![p] = [cmd |-> "start", rel |-> r]]
        /\ res' = [res EXCEPT ![p] = "none"]
        /\ UNCHANGED <<cid, val, plan>>
     \/ LockBusy(p)
  /\ UNCHANGED <<stateFile, world, used, faults, unclean>>

\* checkPlatform, checkDocker, EnsureKind, kindConfig.
StartCheck(p) ==
  /\ pc[p] = "s_check"
  /\ \/ Goto(p, "s_list") /\ UNCHANGED <<locals, res, faults>>
     \/ Fault /\ Return(p, "prereq")
  /\ UNCHANGED <<stateFile, world, used, unclean>>

StartList(p) ==
  /\ pc[p] = "s_list"
  /\ \/ /\ Goto(p, IF node # None THEN "s_verify" ELSE "s_orphan")
        /\ UNCHANGED <<locals, res, faults>>
     \/ Fault /\ Return(p, "error")
  /\ UNCHANGED <<stateFile, world, used, unclean>>

RegistryOwned(id) == registry # None /\ registry.label = id

MarkerMatches(id) == node # None /\ node.marker = id

\* Mutant: the registry is not checked.
VerifiedWithoutRegistry(s, r) == s.rel = r /\ MarkerMatches(s.id)

\* verifyStateAndContainers: neither the API identity nor the network of the
\* registry is looked at.
Verified(s, r) == s.rel = r /\ MarkerMatches(s.id) /\ RegistryOwned(s.id)

StartVerify(p) ==
  /\ pc[p] = "s_verify"
  /\ \/ /\ stateFile # None /\ Verified(stateFile, call[p].rel)
        /\ Return(p, "ok") /\ UNCHANGED faults
     \/ /\ ~(stateFile # None /\ Verified(stateFile, call[p].rel))
        /\ Return(p, "conflict") /\ UNCHANGED faults
     \/ Fault /\ \E r \in {"conflict", "error"} : Return(p, r)
  /\ UNCHANGED <<stateFile, world, used, unclean>>

StartOrphan(p) ==
  /\ pc[p] = "s_orphan"
  /\ \/ registry = None /\ Goto(p, "s_ports") /\ UNCHANGED <<locals, res, faults>>
     \/ /\ registry # None /\ stateFile # None /\ RegistryOwned(stateFile.id)
        /\ Goto(p, "s_rmorphan") /\ UNCHANGED <<locals, res, faults>>
     \/ /\ registry # None /\ ~(stateFile # None /\ RegistryOwned(stateFile.id))
        /\ Return(p, "conflict") /\ UNCHANGED faults
     \/ Fault /\ \E r \in {"conflict", "error"} : Return(p, r)
  /\ UNCHANGED <<stateFile, world, used, unclean>>

StartRemoveOrphan(p) ==
  /\ pc[p] = "s_rmorphan"
  /\ \/ /\ registry' = None
        /\ Goto(p, "s_ports") /\ UNCHANGED <<locals, res, faults, late>>
     \/ /\ GiveUp(Cmd("dockerRm", stateFile.id, None))
        /\ Return(p, "error") /\ UNCHANGED registry
  /\ UNCHANGED <<stateFile, node, used, unclean>>

\* Mutant: the error of the random source is dropped and the identity is empty.
NewClusterIDEmpty == {None}

\* newClusterID: 128 random bits that were never drawn before.
NewClusterID == Id \ used

\* portConflicts, warnResources, newClusterID.
StartPorts(p) ==
  /\ pc[p] = "s_ports"
  /\ \/ \E id \in NewClusterID :
          /\ cid' = [cid EXCEPT ![p] = id]
          /\ used' = used \cup {id}
          /\ Goto(p, "s_run") /\ UNCHANGED <<call, val, plan, res, faults>>
     \/ Fault /\ Return(p, "conflict") /\ UNCHANGED used
  /\ UNCHANGED <<stateFile, world, unclean>>

\* startRegistry fails before the cleanup of a failed start is deferred.
StartRegistry(p) ==
  /\ pc[p] = "s_run"
  /\ \/ /\ registry = None
        /\ registry' = [label |-> cid[p], net |-> FALSE]
        /\ Goto(p, "s_create") /\ UNCHANGED <<locals, res, faults, late, unclean>>
     \/ /\ registry # None    \* the name is taken
        /\ Return(p, "prereq") /\ UNCHANGED <<registry, late, faults, unclean>>
     \/ /\ GiveUp(Cmd("dockerRun", cid[p], None))
        /\ Return(p, "prereq")
        /\ unclean' = Flag(unclean, "start", late' # late)
        /\ UNCHANGED registry
  /\ UNCHANGED <<stateFile, node, used>>

\* Mutant: a failed kind create also deletes the cluster of that name.
StartCreateDeletes(p) ==
  /\ pc[p] = "s_create"
  /\ \/ /\ node = None
        /\ node' = [gen |-> cid[p], marker |-> None, api |-> None, rel |-> call[p].rel]
        /\ Goto(p, "s_net") /\ UNCHANGED faults
     \/ node # None /\ Goto(p, "c_node") /\ UNCHANGED <<node, faults>>
     \/ Fault /\ Goto(p, "c_node") /\ UNCHANGED node
  /\ UNCHANGED <<stateFile, registry, late, used, locals, res, unclean>>

\* kind create cluster: a failure removes the registry and leaves the node.
StartCreate(p) ==
  /\ pc[p] = "s_create"
  /\ \/ /\ node = None
        /\ node' = [gen |-> cid[p], marker |-> None, api |-> None, rel |-> call[p].rel]
        /\ Goto(p, "s_net") /\ UNCHANGED <<late, faults, unclean>>
     \/ /\ node # None        \* the name is taken
        /\ Goto(p, "c_reg") /\ UNCHANGED <<node, late, faults, unclean>>
     \/ /\ GiveUp(Cmd("kindCreate", cid[p], call[p].rel))
        /\ Goto(p, "c_reg")
        /\ unclean' = Flag(unclean, "start", late' # late)
        /\ UNCHANGED node
  /\ UNCHANGED <<stateFile, registry, used, locals, res>>

\* docker network connect; "already exists" counts as success.
StartConnect(p) ==
  /\ pc[p] = "s_net"
  /\ \/ /\ registry # None
        /\ registry' = [registry EXCEPT !.net = TRUE]
        /\ Goto(p, "s_mark") /\ UNCHANGED faults
     \/ registry = None /\ Goto(p, "c_node") /\ UNCHANGED <<registry, faults>>
     \/ Fault /\ Goto(p, "c_node") /\ UNCHANGED registry
  /\ UNCHANGED <<stateFile, node, late, used, locals, res, unclean>>

\* The marker file in the node; a failed write may have happened.
StartMark(p) ==
  /\ pc[p] = "s_mark"
  /\ \/ /\ node # None
        /\ node' = [node EXCEPT !.marker = cid[p]]
        /\ Goto(p, "s_api") /\ UNCHANGED faults
     \/ node = None /\ Goto(p, "c_node") /\ UNCHANGED <<node, faults>>
     \/ /\ node # None /\ Fault /\ Goto(p, "c_node")
        /\ node' \in {node, [node EXCEPT !.marker = cid[p]]}
  /\ UNCHANGED <<stateFile, registry, late, used, locals, res, unclean>>

\* Mutant: the cluster is accessed without installing the identity.
StartAccessOnly(p) ==
  /\ pc[p] = "s_api"
  /\ Goto(p, "s_write")
  /\ UNCHANGED <<stateFile, world, used, locals, res, faults, unclean>>

\* accessKubernetes(ensureMarker): the identity ConfigMap in kube-system.
StartAccess(p) ==
  /\ pc[p] = "s_api"
  /\ \/ /\ node # None
        /\ node' = [node EXCEPT !.api = cid[p]]
        /\ Goto(p, "s_write") /\ UNCHANGED faults
     \/ node = None /\ Goto(p, "c_node") /\ UNCHANGED <<node, faults>>
     \/ /\ node # None /\ Fault /\ Goto(p, "c_node")
        /\ node' \in {node, [node EXCEPT !.api = cid[p]]}
  /\ UNCHANGED <<stateFile, registry, late, used, locals, res, unclean>>

\* writeState: the rename is its last step, so a failure changes nothing.
StartWrite(p) ==
  /\ pc[p] = "s_write"
  /\ \/ /\ stateFile' = [id |-> cid[p], rel |-> call[p].rel,
                         namespaces |-> {}, running |-> {}]
        /\ Return(p, "ok") /\ UNCHANGED faults
     \/ Fault /\ Goto(p, "c_node") /\ UNCHANGED <<stateFile, locals, res>>
  /\ UNCHANGED <<world, used, unclean>>

\* runFailedStartCleanup(kind delete cluster); its own failure is ignored.
CleanupNode(p) ==
  /\ pc[p] = "c_node"
  /\ Goto(p, "c_reg")
  /\ \/ node' = None /\ UNCHANGED <<late, faults, unclean>>
     \/ /\ GiveUp(Cmd("kindDelete", cid[p], None))
        /\ unclean' = unclean \cup {"start"} /\ UNCHANGED node
  /\ UNCHANGED <<stateFile, registry, used, locals, res>>

\* The deferred runFailedStartCleanup(docker rm -f registry).
CleanupRegistry(p) ==
  /\ pc[p] = "c_reg"
  /\ \/ registry' = None /\ UNCHANGED <<late, faults, unclean>>
     \/ /\ GiveUp(Cmd("dockerRm", cid[p], None))
        /\ unclean' = unclean \cup {"start"} /\ UNCHANGED registry
  /\ \E r \in {"prereq", "error"} : Return(p, r)
  /\ UNCHANGED <<stateFile, node, used>>

StartStep(p) ==
  \/ StartCheck(p) \/ StartList(p) \/ StartVerify(p) \/ StartOrphan(p)
  \/ StartRemoveOrphan(p) \/ StartPorts(p) \/ StartRegistry(p) \/ StartCreate(p)
  \/ StartConnect(p) \/ StartMark(p) \/ StartAccess(p) \/ StartWrite(p)
  \/ CleanupNode(p) \/ CleanupRegistry(p)

-----------------------------------------------------------------------------
(* Service.Inspect, for cluster status and for the first half of stop.     *)

InspectBegin(p, r, c) ==
  /\ pc[p] = "idle"
  /\ \/ /\ AcquireLock(p, "i_check")
        /\ call' = [call EXCEPT ![p] = [cmd |-> c, rel |-> r]]
        /\ res' = [res EXCEPT ![p] = "none"]
        /\ UNCHANGED <<cid, val, plan>>
     \/ LockBusy(p)
  /\ UNCHANGED <<stateFile, world, used, faults, unclean>>

StatusBegin(p, r) == InspectBegin(p, r, "status")
StopBegin(p, r)   == InspectBegin(p, r, "stop")

\* Inspect returned ErrPrerequisite: status reports it, stop goes on to
\* Stop(nil) without a question.
InspectPrerequisite(p) ==
  \/ /\ call[p].cmd = "status"
     /\ Return(p, "prereq")
  \/ /\ call[p].cmd = "stop"
     /\ lock' = None
     /\ pc' = [pc EXCEPT ![p] = "stop"]
     /\ UNCHANGED <<locals, res>>

\* checkPlatform, checkDocker, loadState.
InspectCheck(p) ==
  /\ pc[p] = "i_check"
  /\ \/ /\ stateFile # None
        /\ val' = [val EXCEPT ![p] = stateFile]
        /\ Goto(p, "i_verify") /\ UNCHANGED <<call, cid, plan, res, faults>>
     \/ stateFile = None /\ InspectPrerequisite(p) /\ UNCHANGED faults
     \/ Fault /\ InspectPrerequisite(p)
  /\ UNCHANGED <<stateFile, world, used, unclean>>

InspectVerify(p) ==
  /\ pc[p] = "i_verify"
  /\ \/ /\ Verified(val[p], call[p].rel) /\ call[p].cmd = "status"
        /\ Return(p, "ok") /\ UNCHANGED faults
     \/ /\ Verified(val[p], call[p].rel) /\ call[p].cmd = "stop"
        /\ lock' = None
        /\ pc' = [pc EXCEPT ![p] = "prompt"]
        /\ plan' = [plan EXCEPT ![p].expected = val[p].namespaces]
        /\ val' = [val EXCEPT ![p] = None]
        /\ UNCHANGED <<call, cid, res, faults>>
     \/ ~Verified(val[p], call[p].rel) /\ Return(p, "conflict") /\ UNCHANGED faults
     \/ Fault /\ \E r \in {"conflict", "error"} : Return(p, r)
  /\ UNCHANGED <<stateFile, world, used, unclean>>

-----------------------------------------------------------------------------
(* The stop command after Inspect, and Service.Stop.                       *)

\* The namespaces are shown and the user types yes (or gave --yes), or not.
Confirm(p) ==
  /\ pc[p] = "prompt"
  /\ \/ /\ plan' = [plan EXCEPT ![p].asked = TRUE]
        /\ Goto(p, "stop") /\ UNCHANGED <<call, cid, val, res>>
     \/ Return(p, "canceled")
  /\ UNCHANGED <<stateFile, world, used, faults, unclean>>

StopLock(p) ==
  /\ pc[p] = "stop"
  /\ \/ AcquireLock(p, "t_check") /\ UNCHANGED <<locals, res>>
     \/ LockBusy(p)
  /\ UNCHANGED <<stateFile, world, used, faults, unclean>>

\* checkDocker, loadState (its error is kept for later), EnsureKind.
StopCheck(p) ==
  /\ pc[p] = "t_check"
  /\ \/ /\ val' = [val EXCEPT ![p] = stateFile]
        /\ Goto(p, "t_look") /\ UNCHANGED <<call, cid, plan, res, faults>>
     \/ Fault /\ Return(p, "prereq")
  /\ UNCHANGED <<stateFile, world, used, unclean>>

\* Mutant: the environments are not compared with the confirmed ones.
StopAllowedAlways(p) == val[p] # None

\* The state file could be read and still lists the environments shown.
StopAllowed(p) == val[p] # None /\ plan[p].expected = val[p].namespaces

\* kind get clusters, docker ps, then the decisions that need no further command.
StopLook(p) ==
  /\ pc[p] = "t_look"
  /\ \/ /\ node = None /\ registry = None
        /\ Goto(p, "t_rmstate") /\ UNCHANGED <<locals, res, faults>>
     \/ /\ node # None \/ registry # None
        /\ ~StopAllowed(p)
        /\ Return(p, "conflict") /\ UNCHANGED faults
     \/ /\ node # None \/ registry # None
        /\ StopAllowed(p)
        /\ plan' = [plan EXCEPT ![p].registry = (registry # None)]
        /\ Goto(p, IF node # None THEN "t_marker" ELSE "t_owner")
        /\ UNCHANGED <<call, cid, val, res, faults>>
     \/ Fault /\ Return(p, "error")
  /\ UNCHANGED <<stateFile, world, used, unclean>>

StopMarker(p) ==
  /\ pc[p] = "t_marker"
  /\ \/ /\ MarkerMatches(val[p].id)
        /\ Goto(p, "t_delnode") /\ UNCHANGED <<locals, res, faults>>
     \/ ~MarkerMatches(val[p].id) /\ Return(p, "conflict") /\ UNCHANGED faults
     \/ Fault /\ Return(p, "conflict")
  /\ UNCHANGED <<stateFile, world, used, unclean>>

StopDeleteNode(p) ==
  /\ pc[p] = "t_delnode"
  /\ \/ /\ node' = None
        /\ Goto(p, IF plan[p].registry THEN "t_owner" ELSE "t_rmstate")
        /\ UNCHANGED <<late, locals, res, faults>>
     \/ /\ GiveUp(Cmd("kindDelete", val[p].id, None))
        /\ Return(p, "error") /\ UNCHANGED node
  /\ UNCHANGED <<stateFile, registry, used, unclean>>

\* Mutant: the registry is left behind.
StopOwnerSkip(p) ==
  /\ pc[p] = "t_owner"
  /\ Goto(p, "t_rmstate")
  /\ UNCHANGED <<stateFile, world, used, locals, res, faults, unclean>>

StopOwner(p) ==
  /\ pc[p] = "t_owner"
  /\ \/ /\ RegistryOwned(val[p].id)
        /\ Goto(p, "t_rmreg") /\ UNCHANGED <<locals, res, faults>>
     \/ ~RegistryOwned(val[p].id) /\ Return(p, "conflict") /\ UNCHANGED faults
     \/ Fault /\ Return(p, "conflict")
  /\ UNCHANGED <<stateFile, world, used, unclean>>

StopRemoveRegistry(p) ==
  /\ pc[p] = "t_rmreg"
  /\ \/ /\ registry' = None
        /\ Goto(p, "t_rmstate") /\ UNCHANGED <<late, locals, res, faults>>
     \/ /\ GiveUp(Cmd("dockerRm", val[p].id, None))
        /\ Return(p, "error") /\ UNCHANGED registry
  /\ UNCHANGED <<stateFile, node, used, unclean>>

\* os.Remove; a file that does not exist is not an error.
StopRemoveState(p) ==
  /\ pc[p] = "t_rmstate"
  /\ \/ stateFile' = None /\ Return(p, "ok") /\ UNCHANGED faults
     \/ Fault /\ Return(p, "error") /\ UNCHANGED stateFile
  /\ UNCHANGED <<world, used, unclean>>

StopStep(p) ==
  \/ StopCheck(p) \/ StopLook(p) \/ StopMarker(p) \/ StopDeleteNode(p)
  \/ StopOwner(p) \/ StopRemoveRegistry(p) \/ StopRemoveState(p)

-----------------------------------------------------------------------------
(* BeginEnvironmentOperation and the lease it returns.                     *)

EnvBegin(p, r) ==
  /\ pc[p] = "idle"
  /\ \/ /\ AcquireLock(p, "e_check")
        /\ call' = [call EXCEPT ![p] = [cmd |-> "env", rel |-> r]]
        /\ res' = [res EXCEPT ![p] = "none"]
        /\ UNCHANGED <<cid, val, plan>>
     \/ LockBusy(p)
  /\ UNCHANGED <<stateFile, world, used, faults, unclean>>

EnvCheck(p) ==
  /\ pc[p] = "e_check"
  /\ \/ /\ stateFile # None
        /\ val' = [val EXCEPT ![p] = stateFile]
        /\ Goto(p, "e_verify") /\ UNCHANGED <<call, cid, plan, res, faults>>
     \/ stateFile = None /\ Return(p, "prereq") /\ UNCHANGED faults
     \/ Fault /\ Return(p, "prereq")
  /\ UNCHANGED <<stateFile, world, used, unclean>>

\* Mutant: the containers are not compared with the state file.
EnvVerifyNothing(p) ==
  /\ pc[p] = "e_verify"
  /\ Goto(p, "e_lease")
  /\ UNCHANGED <<stateFile, world, used, locals, res, faults, unclean>>

\* verifyStateAndContainers, EnsureKind, accessKubernetes without ensureMarker.
EnvVerify(p) ==
  /\ pc[p] = "e_verify"
  /\ \/ /\ Verified(val[p], call[p].rel) /\ node.api = val[p].id
        /\ Goto(p, "e_lease") /\ UNCHANGED <<locals, res, faults>>
     \/ /\ ~(Verified(val[p], call[p].rel) /\ node.api = val[p].id)
        /\ Return(p, "conflict") /\ UNCHANGED faults
     \/ Fault /\ \E r \in {"prereq", "conflict", "error"} : Return(p, r)
  /\ UNCHANGED <<stateFile, world, used, unclean>>

\* setMembership
SetMembership(values, target, present) ==
  IF present THEN values \cup {target} ELSE values \ {target}

\* SetEnvironmentState of the lease: the projection of one namespace.  The
\* operation may also end without it.
SetEnvironmentState(p, n, known, running) ==
  /\ pc[p] = "e_lease"
  /\ \/ /\ stateFile # None /\ stateFile.id = val[p].id
        /\ stateFile' =
             [stateFile EXCEPT
                !.namespaces = SetMembership(@, n, known),
                !.running = SetMembership(@, n, known /\ running)]
        /\ val' = [val EXCEPT ![p] = stateFile']
        /\ Goto(p, "e_close") /\ UNCHANGED <<call, cid, plan, res, faults>>
     \/ /\ \/ ~(stateFile # None /\ stateFile.id = val[p].id) /\ UNCHANGED faults
           \/ Fault
        /\ \E r \in {"prereq", "conflict", "error"} : Return(p, r)
        /\ UNCHANGED stateFile
  /\ UNCHANGED <<world, used, unclean>>

\* Mutant: the lease is dropped without its lock.
LeaseLeak(p) ==
  /\ pc[p] \in {"e_lease", "e_close"}
  /\ Goto(p, "idle")
  /\ UNCHANGED <<stateFile, world, used, locals, res, faults, unclean>>

LeaseClose(p) ==
  /\ pc[p] \in {"e_lease", "e_close"}
  /\ Return(p, "ok")
  /\ UNCHANGED <<stateFile, world, used, faults, unclean>>

EnvStep(p) ==
  \/ EnvCheck(p) \/ EnvVerify(p) \/ LeaseClose(p)
  \/ \E n \in Env, known, running \in BOOLEAN : SetEnvironmentState(p, n, known, running)

-----------------------------------------------------------------------------
(* Crashes, late commands, and people with a docker client of their own.   *)

\* What a process that dies at this step may leave running behind it.
Running(p) ==
  CASE pc[p] = "s_run"      -> {Cmd("dockerRun", cid[p], None)}
    [] pc[p] = "s_create"   -> {Cmd("kindCreate", cid[p], call[p].rel)}
    [] pc[p] = "s_rmorphan" -> {Cmd("dockerRm", stateFile.id, None)}
    [] pc[p] = "t_delnode"  -> {Cmd("kindDelete", val[p].id, None)}
    [] pc[p] = "t_rmreg"    -> {Cmd("dockerRm", val[p].id, None)}
    [] pc[p] = "c_node"     -> {Cmd("kindDelete", cid[p], None)}
    [] pc[p] = "c_reg"      -> {Cmd("dockerRm", cid[p], None)}
    [] OTHER                -> {}

\* The labels at which Start has created something that no state file names.
HalfStarted == {"s_create", "s_net", "s_mark", "s_api", "s_write", "c_node", "c_reg"}

\* The labels at which Start has an identity.
Building == HalfStarted \cup {"s_run"}

\* SIGKILL or power loss of one process: flock is released by the kernel.
Crash(p) ==
  /\ pc[p] # "idle"
  /\ Fault
  /\ late' \in {late, late \cup Running(p)}
  /\ unclean' = Flag(unclean, "start",
                     pc[p] \in HalfStarted \/ (pc[p] = "s_run" /\ late' # late))
  /\ Return(p, "none")
  /\ UNCHANGED <<stateFile, node, registry, used>>

\* The flags of containers that disappear while an operation runs.
Vanishing ==
  {f \in Vanished : /\ lock # None
                    /\ \/ f = "node" /\ node # None /\ node' = None
                       \/ f = "registry" /\ registry # None /\ registry' = None}

\* A late command takes effect, or fails because the name is taken or free.  It
\* knows its container by name only: what it removes may be the container of a
\* later cluster, or somebody else's.
LateEffect(c) ==
  /\ c \in late
  /\ late' = late \ {c}
  /\ node' = CASE c.cmd = "kindCreate" /\ node = None ->
                    [gen |-> c.id, marker |-> None, api |-> None, rel |-> c.rel]
              [] c.cmd = "kindDelete" -> None
              [] OTHER -> node
  /\ registry' = CASE c.cmd = "dockerRun" /\ registry = None ->
                        [label |-> c.id, net |-> FALSE]
                  [] c.cmd = "dockerRm" -> None
                  [] OTHER -> registry
  /\ unclean' = Vanishing \cup
       Flag(unclean, "stray",
            c.cmd = "dockerRm" /\ registry # None /\ registry.label # c.id)
  /\ UNCHANGED <<lock, stateFile, used, pc, locals, res, faults>>

\* Somebody creates a container with one of the two names, without our labels.
ForeignCreate ==
  /\ Fault
  /\ \/ /\ node = None /\ UNCHANGED registry
        /\ node' = [gen |-> None, marker |-> None, api |-> None, rel |-> None]
     \/ /\ registry = None /\ UNCHANGED node
        /\ registry' = [label |-> None, net |-> FALSE]
  /\ unclean' = unclean \cup {"people"}
  /\ UNCHANGED <<lock, stateFile, late, used, pc, locals, res>>

\* Somebody removes one of the containers by hand.
ManualDelete ==
  /\ Fault
  /\ \/ node # None /\ node' = None /\ UNCHANGED registry
     \/ registry # None /\ registry' = None /\ UNCHANGED node
  /\ unclean' = unclean \cup {"people"} \cup Vanishing
  /\ UNCHANGED <<lock, stateFile, late, used, pc, locals, res>>

-----------------------------------------------------------------------------

\* What a process does by itself once its command runs.
Step(p) ==
  \/ StartStep(p) \/ InspectCheck(p) \/ InspectVerify(p)
  \/ StopLock(p) \/ StopStep(p) \/ EnvStep(p)

Begin(p) ==
  \E r \in Release :
    \/ StartBegin(p, r) \/ StatusBegin(p, r) \/ StopBegin(p, r) \/ EnvBegin(p, r)

Next ==
  \/ \E p \in Proc : Begin(p) \/ Confirm(p) \/ Step(p) \/ Crash(p)
  \/ \E c \in late : LateEffect(c)
  \/ ForeignCreate
  \/ ManualDelete

Spec == Init /\ [][Next]_vars

\* A command that runs takes its next step: docker, kind and the API calls
\* return because main gives every command a deadline.  Nothing is assumed of
\* the user at the prompt, who holds no lock.
FairSpec == Spec /\ \A p \in Proc : WF_vars(Step(p))

-----------------------------------------------------------------------------
(* Properties.                                                             *)

TypeOK ==
  /\ lock \in Proc \cup {None}
  /\ stateFile \in State \cup {None}
  /\ node \in Node \cup {None}
  /\ registry \in Registry \cup {None}
  /\ late \subseteq Command
  /\ used \subseteq Id
  /\ pc \in [Proc -> Label]
  /\ call \in [Proc -> Call]
  /\ cid \in [Proc -> MaybeId]
  /\ val \in [Proc -> State \cup {None}]
  /\ plan \in [Proc -> Plan]
  /\ res \in [Proc -> Result]
  /\ faults \in Nat
  /\ unclean \subseteq Debris \cup Vanished

\* verifyStateAndContainers compares only the marker file and the registry
\* labels with the state file.  That is enough: whenever they agree, the steps
\* of Start it does not look at were carried out too: the identity is in the API
\* and the registry is on the kind network, whatever crashed, came late or was
\* swapped before; and the node is the one that Start built, by the recorded
\* release, unless a node vanished in the middle of an operation (Start then
\* marks whatever node has the name).
VerifiedIsComplete ==
  stateFile # None /\ MarkerMatches(stateFile.id) /\ RegistryOwned(stateFile.id) =>
    /\ node.api = stateFile.id /\ registry.net
    /\ "node" \notin unclean => node.gen = stateFile.id /\ node.rel = stateFile.rel

\* A cluster that start can use or replace: nothing is there, or what is there
\* is what the state file names.
Startable ==
  \/ /\ node = None
     /\ registry = None \/ (stateFile # None /\ RegistryOwned(stateFile.id))
  \/ stateFile # None /\ MarkerMatches(stateFile.id) /\ RegistryOwned(stateFile.id)

\* When no operation runs, cluster start is possible again, unless a Start was
\* interrupted after it created a container (or its cleanup failed), people
\* touched the containers, or a docker rm that was given up on removed the
\* registry of a later cluster.  Otherwise Stop, status and the environment
\* operations may fail or die at every step, their kind delete may hit the next
\* cluster at any moment (also while it is being built), and no containers are
\* ever left that no command accepts.
OnlyStartLeavesDebris == lock = None /\ Tidy(unclean) => Startable

\* No step of a process changes or removes a container that tripgoctl did not
\* create, although every command names its container only and somebody else's
\* may take the name at any moment, in the middle of an operation too: the one
\* way is that ours vanished while an operation was running (between its check
\* and its use).  Nothing is claimed of commands that were given up on.
ForeignIsNeverDeleted ==
  [][ pc' # pc =>
        /\ "node" \notin unclean /\ node # None /\ node.gen = None => node' = node
        /\ "registry" \notin unclean /\ registry # None /\ registry.label = None =>
             registry' = registry
    ]_vars

\* Stop deletes the cluster only while the environments the state file knows
\* are exactly those that Inspect read before the question was asked, although
\* the lock was free in between (none, when no question was asked).
StopDeletesWhatWasShown ==
  [][ \A p \in Proc :
        pc[p] = "t_delnode" /\ node # None /\ node' = None =>
          stateFile # None /\ stateFile.namespaces = plan[p].expected
    ]_vars

\* A successful cluster start or status ends with the state file, the marker,
\* the API identity and the registry label all naming the same cluster, built
\* by the release that reports it, unless a container vanished in the middle of
\* an operation (Start does not look again before it writes the state file).
SuccessIsComplete ==
  [][ \A p \in Proc :
        Steady(unclean) /\ call[p].cmd \in {"start", "status"}
           /\ res[p] # "ok" /\ res'[p] = "ok" =>
          /\ stateFile' # None /\ node' # None /\ registry' # None
          /\ {node'.marker, node'.api, node'.gen, registry'.label} = {stateFile'.id}
          /\ registry'.net /\ node'.rel = call[p].rel
    ]_vars

\* The lock is never kept: every path out of an operation, the error paths of
\* BeginEnvironmentOperation included, gives it back.
LockEventuallyFree == []<>(lock = None)

\* The cluster is deleted only after an explicit yes ("требует точного ответа
\* yes", docs/cli-contract-v1.md).
DeletionIsConfirmed ==
  [][ \A p \in Proc :
        pc[p] = "t_delnode" /\ node # None /\ node' = None => plan[p].asked
    ]_vars

-----------------------------------------------------------------------------
(* The inductive invariant behind the safety properties, in named parts.   *)

\* The lock is held exactly by the process inside an operation.
LockInv == \A p \in Proc : pc[p] \in Critical <=> lock = p

\* A command's labels and its name go together.
CallInv ==
  \A p \in Proc :
    /\ pc[p] # "idle" => call[p].rel \in Release
    /\ pc[p] \in StartLabels => call[p].cmd = "start"
    /\ pc[p] \in InspectLabels => call[p].cmd \in {"status", "stop"}
    /\ pc[p] \in StopLabels \cup EnvLabels \cup {"idle", "prompt", "stop"} =>
         call[p].cmd \notin {"start", "status"}

\* Identities in use were drawn, so a fresh one is nowhere yet.
IdsInv ==
  /\ stateFile # None => stateFile.id \in used
  /\ node # None => {node.gen, node.marker, node.api} \subseteq used \cup {None}
  /\ registry # None => registry.label \in used \cup {None}
  /\ \A c \in late : c.id \in used

\* Whatever carries the recorded identity is complete.
StateInv ==
  stateFile # None =>
    /\ MarkerMatches(stateFile.id) =>
         /\ node.api = stateFile.id
         /\ "node" \notin unclean => node.gen = stateFile.id /\ node.rel = stateFile.rel
    /\ RegistryOwned(stateFile.id) => registry.net
    /\ \A c \in late : c.cmd = "dockerRun" => c.id # stateFile.id

\* A Start under construction has an identity of its own.
CidOf(p) ==
  IF pc[p] \in Building
  THEN cid[p] \in used /\ (stateFile # None => stateFile.id # cid[p])
  ELSE cid[p] = None

\* No late command is about the cluster under construction.
LateOf(p) ==
  \A c \in late :
    c.id = cid[p] => pc[p] = "c_reg" /\ c.cmd \in {"kindCreate", "kindDelete"}

\* The labels at which a node is there, unless it vanished.
WithNode == {"s_net", "s_mark", "s_api", "s_write", "c_node"}

\* What Start has built when it reaches each of its steps.
StartOf(p) ==
  /\ pc[p] \in HalfStarted /\ "registry" \notin unclean => RegistryOwned(cid[p])
  /\ pc[p] \in WithNode /\ "node" \notin unclean =>
       node # None /\ node.gen = cid[p] /\ node.rel = call[p].rel
  /\ pc[p] \in {"s_mark", "s_api", "s_write"} /\ RegistryOwned(cid[p]) => registry.net
  /\ pc[p] = "s_write" /\ MarkerMatches(cid[p]) => node.api = cid[p]
  /\ pc[p] \in {"s_api", "s_write"} /\ "node" \notin unclean => MarkerMatches(cid[p])

\* No node that a Start or a Stop finds or builds on its way is the recorded one.
MarkOf(p) ==
  /\ pc[p] \in {"s_orphan", "s_rmorphan", "s_ports"} \cup Building /\ node # None =>
       node.marker \in {None, cid[p]}
  /\ pc[p] \in {"t_owner", "t_rmreg", "t_rmstate"} /\ node # None => node.marker = None

\* The state a process loaded is the one in the file while it has the lock.
ValOf(p) ==
  /\ pc[p] \in {"i_verify", "e_verify", "e_lease", "e_close", "t_look", "t_marker",
                "t_delnode", "t_owner", "t_rmreg"} => val[p] = stateFile
  /\ pc[p] \in {"s_rmorphan", "i_verify", "e_verify", "e_lease", "e_close", "t_marker",
                "t_delnode", "t_owner", "t_rmreg"} => stateFile # None
  /\ pc[p] \in {"t_marker", "t_delnode", "t_owner", "t_rmreg"} =>
       plan[p].expected = stateFile.namespaces

\* What is about to be removed by name is not foreign, unless ours vanished.
RemoveOf(p) ==
  /\ pc[p] \in {"s_rmorphan", "t_rmreg"} /\ "registry" \notin unclean =>
       registry # None /\ registry.label # None
  /\ pc[p] = "t_delnode" /\ "node" \notin unclean => node # None /\ node.gen # None

\* Where an operation stands when the containers are tidy.
CleanOf(p) ==
  Tidy(unclean) =>
    /\ pc[p] \in {"s_orphan", "s_rmorphan", "s_ports", "s_run", "s_create", "c_reg",
                  "t_owner", "t_rmreg", "t_rmstate"} => node = None
    /\ pc[p] = "t_rmstate" => registry = None
    /\ pc[p] \in {"t_marker", "t_delnode"} /\ ~plan[p].registry => registry = None
    /\ pc[p] \in HalfStarted => RegistryOwned(cid[p])
    /\ pc[p] \in {"s_api", "s_write"} => node = None \/ MarkerMatches(cid[p])

ProcOf(p) ==
  /\ CidOf(p) /\ LateOf(p) /\ StartOf(p) /\ MarkOf(p) /\ ValOf(p) /\ RemoveOf(p)
  /\ CleanOf(p)

ProcInv == \A p \in Proc : ProcOf(p)

\* As long as the containers are tidy, everything but a Start in the middle keeps
\* them startable, late commands only remove, and a late docker rm for the
\* recorded cluster finds it without its node.
DebrisInv ==
  Tidy(unclean) =>
    /\ (\A p \in Proc : pc[p] \notin HalfStarted) => Startable
    /\ \A c \in late :
         /\ c.cmd \in {"kindDelete", "dockerRm"}
         /\ c.cmd = "dockerRm" /\ stateFile # None /\ c.id = stateFile.id =>
              node = None \/ node.marker # c.id

SafeInv ==
  /\ TypeOK /\ LockInv /\ CallInv /\ IdsInv /\ StateInv /\ ProcInv /\ DebrisInv

=============================================================================
