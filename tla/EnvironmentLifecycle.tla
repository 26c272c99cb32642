------------------------- MODULE EnvironmentLifecycle -------------------------
(***************************************************************************)
(* One lab environment, as the lab package (src/internal/lab/service.go)   *)
(* and the environment commands of the CLI handle it: the namespace of the *)
(* lab, the objects in it, its line in the cluster's state file, and the   *)
(* generated files in the student's working directory.                     *)
(*                                                                         *)
(* Several tripgoctl processes, possibly of different releases, run        *)
(* commands.  Each holds the operation lease (ClusterLifecycle) from       *)
(* BeginEnvironmentOperation on, but not while it checks .env, waits for a *)
(* confirmation, or streams logs.  Kubernetes and people act at any time.  *)
(* A step is one write, or a group of reads whose answers only decide how  *)
(* to go on; reading an object and patching that object is one step.       *)
(***************************************************************************)
EXTENDS Integers, Sequences

CONSTANTS
  Proc,       \* the tripgoctl processes
  Release,    \* tripgoctl releases: each names its own images
  Lab,        \* the lab whose environment this is
  None,       \* the absent value
  MaxFaults   \* bound: failures, crashes and manual interventions in a run

ASSUME LabAssumption == Lab \in 1..5
ASSUME EnvFaultsAssumption == MaxFaults \in Nat

VARIABLES
  lock,       \* holder of the operation lease, or None
  known,      \* the state file lists the namespace
  running,    \* the state file lists it as running
  ns,         \* the namespace; "ending" is ours with a deletion timestamp
  wl,         \* the Deployments and the StatefulSet
  aux,        \* the other objects: "service" stands for all Services
  pvc,        \* the volume claim of the StatefulSet
  dotenv,     \* .env: the release that wrote it, "user", or None
  rendered,   \* .tripgo/rendered: likewise; "user" is not a directory
  pc,         \* where each process is
  call,       \* the command a process runs, and its release where it matters
  at,         \* position in the bundle or in a poll
  res,        \* how the last command of a process ended
  faults,     \* faults so far
  touched     \* ghost: people changed something by hand

kube == <<ns, wl, aux, pvc>>
proj == <<known, running>>
disk == <<dotenv, rendered>>
own  == <<pc, call, at, res>>
vars == <<lock, known, running, ns, wl, aux, pvc, dotenv, rendered, pc, call, at, res,
          faults, touched>>

-----------------------------------------------------------------------------
(* What the generator renders for a lab, in apply order.                   *)

\* workloads(lab); "postgres" stands for all Deployments without a rule of
\* their own.
Workloads ==
  CASE Lab < 3 -> <<"postgres">>
    [] Lab = 3 -> <<"postgres", "push-service">>
    [] Lab > 3 -> <<"postgres", "push-service", "redpanda">>

Workload == {Workloads[i] : i \in 1..Len(Workloads)}

\* Generate: the objects of all files in the order they are applied.
Bundle ==
  CASE Lab < 3 -> <<"namespace", "postgres", "service">>
    [] Lab = 3 -> <<"namespace", "postgres", "service", "push-service">>
    [] Lab > 3 -> <<"namespace", "postgres", "service", "push-service", "redpanda", "topics">>

Aux == {Bundle[i] : i \in 1..Len(Bundle)} \ (Workload \cup {"namespace"})

\* ver and rep are the spec (image and replicas); seen says that the status
\* is that of the current generation; status is "none" (all counts 0), "old"
\* (a ready pod of an earlier spec) or "new" (updated, ready and available are
\* 1); pod is the image of the ready pod; held: the user manages the replicas;
\* ran: ghost, a pod of the current spec has been ready.
Object == [own : BOOLEAN, ver : Release \cup {None}, rep : 0..1, seen : BOOLEAN,
           status : {"none", "old", "new"}, pod : Release \cup {None},
           held : BOOLEAN, ran : BOOLEAN]

Call == [cmd : {"none", "start", "stop", "reset", "logs"}, rel : Release \cup {None}]

StartLabels == {"s_ns", "s_image", "s_preflight", "s_apply", "s_wait", "s_set", "s_rend",
                "s_env", "s_status"}
StopLabels  == {"t_verify", "t_apply", "t_wait", "t_set", "t_status"}
ResetLabels == {"r_ns", "r_wait", "r_set", "r_env", "r_rend"}
Leased      == StartLabels \cup StopLabels \cup ResetLabels
Label       == Leased \cup {"idle", "s_begin", "s_lease", "t_lease", "r_prompt", "r_lease",
                            "l_stream"}
Result      == {"none", "ok", "prereq", "conflict", "error", "canceled"}

\* The absent value is none of the values it stands in for.
ASSUME EnvNoneAssumption ==
  /\ None \notin Proc /\ None \notin Release /\ None \notin Object /\ None # "user"
  /\ "user" \notin Release

NoCall == [cmd |-> "none", rel |-> None]

Init ==
  /\ lock = None
  /\ known = FALSE /\ running = FALSE
  /\ ns = "absent"
  /\ wl = [w \in Workload |-> None]
  /\ aux = [a \in Aux |-> "absent"]
  /\ pvc = FALSE
  /\ dotenv = None /\ rendered = None
  /\ pc = [p \in Proc |-> "idle"]
  /\ call = [p \in Proc |-> NoCall]
  /\ at = [p \in Proc |-> 1]
  /\ res = [p \in Proc |-> "none"]
  /\ faults = 0 /\ touched = FALSE

-----------------------------------------------------------------------------
(* Moving between steps, the lease, failing.                               *)

Goto(p, l) == pc' = [pc EXCEPT ![p] = l] /\ UNCHANGED <<lock, call, at, res>>

\* The command ends; the deferred lease.Close gives the lock back.
Return(p, r) ==
  /\ pc' = [pc EXCEPT ![p] = "idle"]
  /\ lock' = IF lock = p THEN None ELSE lock
  /\ call' = [call EXCEPT ![p] = NoCall]
  /\ at' = [at EXCEPT ![p] = 1]
  /\ res' = [res EXCEPT ![p] = r]

Fault == faults < MaxFaults /\ faults' = faults + 1

Fail(p) == Fault /\ Return(p, "error")

\* client: BeginEnvironmentOperation, or one of its errors.
Lease(p, from, l) ==
  /\ pc[p] = from
  /\ \/ lock = None /\ lock' = p
        /\ pc' = [pc EXCEPT ![p] = l] /\ UNCHANGED <<call, at, res, faults>>
     \/ lock # None /\ Return(p, "conflict") /\ UNCHANGED faults
     \/ Fail(p)

Command(p, c, r, l) ==
  /\ pc[p] = "idle"
  /\ pc' = [pc EXCEPT ![p] = l]
  /\ call' = [call EXCEPT ![p] = [cmd |-> c, rel |-> r]]
  /\ res' = [res EXCEPT ![p] = "none"]
  /\ UNCHANGED <<lock, at, kube, proj, disk, touched>>

\* SetEnvironmentState of the lease, for this namespace.
SetEnvironmentState(k, r) == known' = k /\ running' = (k /\ r)

-----------------------------------------------------------------------------
(* Reading the environment.                                                *)

\* verifyNamespace looks at the labels, not at the deletion timestamp.
NamespaceOwned == ns \in {"ours", "ending"}

VerifyNamespace ==
  IF ns = "absent" THEN "prereq" ELSE IF ns = "foreign" THEN "conflict" ELSE "ok"

\* Mutant: the observed generation is not compared.
WorkloadReadyStale(w, expected) ==
  /\ wl[w] # None /\ wl[w].rep = expected
  /\ wl[w].status = (IF expected = 1 THEN "new" ELSE "none")

WorkloadReady(w, expected) ==
  /\ wl[w] # None /\ wl[w].rep = expected /\ wl[w].seen
  /\ wl[w].status = (IF expected = 1 THEN "new" ELSE "none")

\* verifyResourceOwnership of everything in the bundle that exists.
BundleOwned ==
  /\ ns # "foreign"
  /\ \A w \in Workload : wl[w] # None => wl[w].own
  /\ \A a \in Aux : aux[a] # "foreign"

\* verifyRedpandaResources: an absent StatefulSet is an error of its own.
VerifyRedpanda ==
  IF aux["topics"] = "absent" THEN "prereq"
  ELSE IF aux["topics"] = "foreign" THEN "conflict"
  ELSE IF aux["service"] = "absent" THEN "prereq"
  ELSE IF aux["service"] = "foreign" THEN "conflict"
  ELSE IF wl["redpanda"] = None THEN "error"
  ELSE IF ~wl["redpanda"].own \/ ~pvc THEN "conflict"
  ELSE "ok"

\* The first workload that is missing or not ours decides.
VerifyWorkloads ==
  LET bad == {i \in 1..Len(Workloads) : wl[Workloads[i]] = None \/ ~wl[Workloads[i]].own}
  IN  IF bad = {} THEN "ok"
      ELSE LET i == CHOOSE j \in bad : \A k \in bad : j <= k
           IN  IF wl[Workloads[i]] = None THEN "prereq" ELSE "conflict"

\* statusWith: the first error, or the state of the environment.
StatusWith ==
  IF VerifyNamespace # "ok" THEN VerifyNamespace
  ELSE IF aux["service"] = "absent" THEN "prereq"
  ELSE IF aux["service"] = "foreign" THEN "conflict"
  ELSE IF Lab >= 4 /\ VerifyRedpanda # "ok" THEN VerifyRedpanda
  ELSE IF VerifyWorkloads # "ok" THEN VerifyWorkloads
  ELSE IF \A w \in Workload : WorkloadReady(w, 0) THEN "stopped"
  ELSE IF \A w \in Workload : WorkloadReady(w, 1) THEN "ready"
  ELSE "starting"

States == {"stopped", "ready", "starting"}

\* Status; List and connect below differ only in what they make of it.
Query(p, r) ==
  /\ pc[p] = "idle"
  /\ \/ lock = None /\ res' = [res EXCEPT ![p] = r] /\ UNCHANGED faults
     \/ lock # None /\ res' = [res EXCEPT ![p] = "conflict"] /\ UNCHANGED faults
     \/ Fault /\ res' = [res EXCEPT ![p] = "error"]
  /\ UNCHANGED <<lock, kube, proj, disk, pc, call, at, touched>>

\* Mutant: the state of the environment is returned as if it were an outcome.
StatusResultRaw == StatusWith

StatusResult == IF StatusWith \in States THEN "ok" ELSE StatusWith

Status(p) == Query(p, StatusResult)

Connect(p) == Query(p, IF StatusWith \in States \ {"ready"} THEN "prereq" ELSE StatusResult)

\* A namespace that is not ours is left out; prereq and conflict are shown as
\* degraded; every other error ends the list.
ListResult ==
  IF NamespaceOwned /\ StatusWith \notin States \cup {"prereq", "conflict"}
  THEN "error" ELSE "ok"

List(p) == Query(p, ListResult)

\* The Push Service has a pod to read from: a ready one, or maybe, with a
\* replica wanted, one that is not ready yet.
LogsPod(ready) ==
  /\ NamespaceOwned /\ wl["push-service"] # None /\ wl["push-service"].own
  /\ wl["push-service"].pod # None \/ (~ready /\ wl["push-service"].rep = 1)

\* Logs verifies under the lease, closes it, and streams without it.
LogsBegin(p) ==
  /\ Lab >= 3
  /\ \/ lock = None /\ LogsPod(FALSE) /\ Command(p, "logs", None, "l_stream")
        /\ UNCHANGED faults
     \/ (lock # None \/ ~LogsPod(TRUE)) /\ Query(p, IF ns = "foreign" THEN "conflict" ELSE "prereq")

LogsEnd(p) ==
  /\ pc[p] = "l_stream"
  /\ \E r \in {"ok", "error"} : Return(p, r)
  /\ UNCHANGED <<kube, proj, disk, faults, touched>>

-----------------------------------------------------------------------------
(* Server-side apply of one object, under the field manager tripgoctl.     *)

\* The API accepts no new object in a namespace that is ending.
Creatable == ns \in {"ours", "foreign"}

\* A workload is new or ours, and no field of it is disputed.
Appliable(w, rep) ==
  IF wl[w] = None THEN Creatable
  ELSE wl[w].own /\ ~(wl[w].held /\ wl[w].rep # rep)

\* The spec changes at once; its generation is observed later.
Applied(w, ver, rep) ==
  IF wl[w] = None
  THEN [own |-> TRUE, ver |-> ver, rep |-> rep, seen |-> FALSE, status |-> "none",
        pod |-> None, held |-> FALSE, ran |-> FALSE]
  ELSE LET same == wl[w].ver = ver /\ wl[w].rep = rep
       IN  [wl[w] EXCEPT !.ver = ver, !.rep = rep,
                         !.seen = @ /\ same,
                         !.ran = (@ /\ same) \/ wl[w].pod = ver]

\* Mutant: the preflight is trusted, and the owner not looked at again.
CanApplyUnchecked(o) ==
  CASE o = "namespace" -> TRUE
    [] o \in Aux       -> aux[o] # "absent" \/ Creatable
    [] o \in Workload  -> wl[o] # None \/ Creatable

CanApply(o) ==
  CASE o = "namespace" -> ns # "foreign"
    [] o \in Aux       -> aux[o] = "ours" \/ (aux[o] = "absent" /\ Creatable)
    [] o \in Workload  -> Appliable(o, 1)

\* applyManifest for one object of the bundle, with one replica.
Apply(o, ver) ==
  /\ ns' = IF o = "namespace" /\ ns = "absent" THEN "ours" ELSE ns
  /\ aux' = IF o \in Aux THEN [aux EXCEPT ![o] = "ours"] ELSE aux
  /\ wl' = IF o \in Workload THEN [wl EXCEPT ![o] = Applied(o, ver, 1)] ELSE wl
  /\ UNCHANGED pvc

Advance(p, n, l) ==
  /\ pc' = [pc EXCEPT ![p] = IF at[p] = n THEN l ELSE @]
  /\ at' = [at EXCEPT ![p] = IF @ = n THEN 1 ELSE @ + 1]
  /\ UNCHANGED <<lock, call, res>>

\* One Get of the polling loop: a workload that is not ready starts it over.
Poll(p, expected, l) ==
  /\ \/ WorkloadReady(Workloads[at[p]], expected) /\ Advance(p, Len(Workloads), l)
     \/ /\ ~WorkloadReady(Workloads[at[p]], expected)
        /\ at[p] # 1 /\ at' = [at EXCEPT ![p] = 1]
        /\ UNCHANGED <<lock, pc, call, res>>
  /\ UNCHANGED <<kube, proj, disk, faults, touched>>

-----------------------------------------------------------------------------
(* environment start.                                                      *)

StartBegin(p, r) == Command(p, "start", r, "s_begin") /\ UNCHANGED faults

\* The CLI's Inspect (a lease of its own), then .env, before the lease.
StartEnvWritable(p) ==
  /\ pc[p] = "s_begin"
  /\ \/ lock = None /\ dotenv # "user" /\ Goto(p, "s_lease") /\ UNCHANGED faults
     \/ (lock # None \/ dotenv = "user") /\ Return(p, "conflict") /\ UNCHANGED faults
     \/ Fail(p)
  /\ UNCHANGED <<kube, proj, disk, touched>>

StartLease(p) ==
  /\ Lease(p, "s_lease", "s_ns")
  /\ UNCHANGED <<kube, proj, disk, touched>>

\* ensureTripgoWritable, then the namespace if it exists.
StartNamespace(p) ==
  /\ pc[p] = "s_ns"
  /\ \/ rendered # "user" /\ ns # "foreign" /\ Goto(p, "s_image") /\ UNCHANGED faults
     \/ (rendered = "user" \/ ns = "foreign") /\ Return(p, "conflict") /\ UNCHANGED faults
     \/ Fail(p)
  /\ UNCHANGED <<kube, proj, disk, touched>>

\* pushImage.Ensure for labs with Push Service, then Generate.
StartImage(p) ==
  /\ pc[p] = "s_image"
  /\ \/ Goto(p, "s_preflight") /\ UNCHANGED faults
     \/ Fail(p)
  /\ UNCHANGED <<kube, proj, disk, touched>>

StartPreflight(p) ==
  /\ pc[p] = "s_preflight"
  /\ \/ BundleOwned /\ Goto(p, "s_apply") /\ UNCHANGED faults
     \/ ~BundleOwned /\ Return(p, "conflict") /\ UNCHANGED faults
     \/ Fail(p)
  /\ UNCHANGED <<kube, proj, disk, touched>>

\* One object of the bundle; a failed patch may have been carried out.
StartApply(p) ==
  /\ pc[p] = "s_apply"
  /\ LET o == Bundle[at[p]]
     IN  \/ /\ CanApply(o) /\ Apply(o, call[p].rel)
            /\ Advance(p, Len(Bundle), "s_wait") /\ UNCHANGED faults
         \/ /\ ~CanApply(o) /\ UNCHANGED <<kube, faults>>
            /\ \E r \in {"conflict", "error"} : Return(p, r)
         \/ /\ Fail(p)
            /\ UNCHANGED kube \/ (CanApply(o) /\ Apply(o, call[p].rel))
  /\ UNCHANGED <<proj, disk, touched>>

StartPoll(p) == pc[p] = "s_wait" /\ Poll(p, 1, "s_set")

\* Mutant: the deadline is armed anew by every poll.
StartTimeoutRearmed(p) == pc[p] = "s_wait" /\ UNCHANGED vars

\* The readiness limit of ten minutes, or Ctrl-C.
StartTimeout(p) ==
  /\ pc[p] = "s_wait"
  /\ Return(p, "prereq")
  /\ UNCHANGED <<kube, proj, disk, faults, touched>>

StartProject(p) ==
  /\ pc[p] = "s_set"
  /\ \/ SetEnvironmentState(TRUE, TRUE) /\ Goto(p, "s_rend") /\ UNCHANGED faults
     \/ Fail(p) /\ UNCHANGED proj
  /\ UNCHANGED <<kube, disk, touched>>

\* Mutant: an output that is already there is taken as current.
StartRenderKeep(p) ==
  /\ pc[p] = "s_rend"
  /\ rendered' = IF rendered = None THEN call[p].rel ELSE rendered
  /\ Goto(p, "s_env")
  /\ UNCHANGED <<kube, proj, dotenv, faults, touched>>

\* generator.Write: stopped half-way, the old output may be gone already.
StartRender(p) ==
  /\ pc[p] = "s_rend"
  /\ \/ rendered # "user" /\ rendered' = call[p].rel
        /\ Goto(p, "s_env") /\ UNCHANGED faults
     \/ rendered = "user" /\ Return(p, "error") /\ UNCHANGED <<rendered, faults>>
     \/ /\ rendered # "user" /\ Fail(p)
        /\ rendered' \in {rendered, None, call[p].rel}
  /\ UNCHANGED <<kube, proj, dotenv, touched>>

\* writeEnv looks at .env once more; the rename comes before the last sync.
StartWriteEnv(p) ==
  /\ pc[p] = "s_env"
  /\ \/ dotenv # "user" /\ dotenv' = call[p].rel
        /\ Goto(p, "s_status") /\ UNCHANGED faults
     \/ dotenv = "user" /\ Return(p, "conflict") /\ UNCHANGED <<dotenv, faults>>
     \/ dotenv # "user" /\ Fail(p) /\ dotenv' \in {dotenv, call[p].rel}
  /\ UNCHANGED <<kube, proj, rendered, touched>>

\* The statusWith that ends start and stop.
LastStatus(p, l) ==
  /\ pc[p] = l
  /\ \/ Return(p, StatusResult) /\ UNCHANGED faults
     \/ Fail(p)
  /\ UNCHANGED <<kube, proj, disk, touched>>

StartStatus(p) == LastStatus(p, "s_status")

StartStep(p) ==
  \/ StartEnvWritable(p) \/ StartLease(p) \/ StartNamespace(p) \/ StartImage(p)
  \/ StartPreflight(p) \/ StartApply(p) \/ StartPoll(p) \/ StartProject(p)
  \/ StartRender(p) \/ StartWriteEnv(p) \/ StartStatus(p)

-----------------------------------------------------------------------------
(* environment stop.                                                       *)

StopBegin(p, r) == Command(p, "stop", r, "t_lease") /\ UNCHANGED faults

StopLease(p) ==
  /\ Lease(p, "t_lease", "t_verify")
  /\ UNCHANGED <<kube, proj, disk, touched>>

\* Everything Stop verifies before it changes anything.
StopVerdict ==
  IF VerifyNamespace # "ok" THEN VerifyNamespace
  ELSE IF VerifyWorkloads # "ok" THEN VerifyWorkloads
  ELSE IF Lab >= 4 /\ VerifyRedpanda # "ok" THEN VerifyRedpanda
  ELSE IF ~BundleOwned THEN "conflict"
  ELSE "ok"

StopVerify(p) ==
  /\ pc[p] = "t_verify"
  /\ \/ StopVerdict = "ok" /\ Goto(p, "t_apply") /\ UNCHANGED faults
     \/ StopVerdict # "ok" /\ Return(p, StopVerdict) /\ UNCHANGED faults
     \/ Fail(p)
  /\ UNCHANGED <<kube, proj, disk, touched>>

\* Push Service keeps the image it has; if it vanished after it was read, it
\* is created anew with the image it had, whichever that was.
StopImage(p, w) ==
  CASE w # "push-service" -> {call[p].rel}
    [] w = "push-service" -> IF wl[w] # None THEN {wl[w].ver} ELSE Release

StopApply(p) ==
  /\ pc[p] = "t_apply"
  /\ LET w == Workloads[at[p]]
         scaled == \E ver \in StopImage(p, w) : wl' = [wl EXCEPT ![w] = Applied(w, ver, 0)]
     IN  \/ /\ Appliable(w, 0) /\ scaled
            /\ Advance(p, Len(Workloads), "t_wait") /\ UNCHANGED faults
         \/ /\ ~Appliable(w, 0) /\ UNCHANGED <<wl, faults>>
            /\ \E r \in {"conflict", "error"} : Return(p, r)
         \/ /\ Fail(p)
            /\ UNCHANGED wl \/ (Appliable(w, 0) /\ scaled)
  /\ UNCHANGED <<ns, aux, pvc, proj, disk, touched>>

StopPoll(p) == pc[p] = "t_wait" /\ Poll(p, 0, "t_set")

StopTimeout(p) ==
  /\ pc[p] = "t_wait"
  /\ Return(p, "error")
  /\ UNCHANGED <<kube, proj, disk, faults, touched>>

StopProject(p) ==
  /\ pc[p] = "t_set"
  /\ \/ SetEnvironmentState(TRUE, FALSE) /\ Goto(p, "t_status") /\ UNCHANGED faults
     \/ Fail(p) /\ UNCHANGED proj
  /\ UNCHANGED <<kube, disk, touched>>

StopStatus(p) == LastStatus(p, "t_status")

StopStep(p) ==
  \/ StopLease(p) \/ StopVerify(p) \/ StopApply(p) \/ StopPoll(p)
  \/ StopProject(p) \/ StopStatus(p)

-----------------------------------------------------------------------------
(* environment reset.                                                      *)

\* The CLI asks for Status first; only ErrPrerequisite lets it go on, whether
\* it says that objects are missing or that the lease could not be had.
ResetBegin(p) ==
  \/ /\ Command(p, "reset", None, "r_prompt")
     /\ \/ lock = None /\ StatusResult \in {"ok", "prereq"} /\ UNCHANGED faults
        \/ Fault
  \/ /\ lock # None \/ StatusResult \notin {"ok", "prereq"}
     /\ Query(p, StatusResult)

ResetConfirm(p) ==
  /\ pc[p] = "r_prompt"
  /\ Goto(p, "r_lease") \/ Return(p, "canceled")
  /\ UNCHANGED <<kube, proj, disk, faults, touched>>

ResetLease(p) ==
  /\ Lease(p, "r_lease", "r_ns")
  /\ UNCHANGED <<kube, proj, disk, touched>>

\* Mutant: the deletion is requested and not waited for.
ResetNamespaceAsync(p) ==
  /\ pc[p] = "r_ns"
  /\ ns' = IF NamespaceOwned THEN "ending" ELSE ns
  /\ Goto(p, "r_set")
  /\ UNCHANGED <<wl, aux, pvc, proj, disk, faults, touched>>

ResetNamespace(p) ==
  /\ pc[p] = "r_ns"
  /\ \/ NamespaceOwned /\ ns' = "ending" /\ Goto(p, "r_wait") /\ UNCHANGED faults
     \/ ns = "absent" /\ Goto(p, "r_set") /\ UNCHANGED <<ns, faults>>
     \/ ns = "foreign" /\ Return(p, "conflict") /\ UNCHANGED <<ns, faults>>
     \/ Fail(p) /\ ns' \in {ns, IF NamespaceOwned THEN "ending" ELSE ns}
  /\ UNCHANGED <<wl, aux, pvc, proj, disk, touched>>

ResetWait(p) ==
  /\ pc[p] = "r_wait"
  /\ \/ ns = "absent" /\ Goto(p, "r_set") /\ UNCHANGED faults
     \/ Fail(p)
  /\ UNCHANGED <<kube, proj, disk, touched>>

ResetTimeout(p) ==
  /\ pc[p] = "r_wait"
  /\ Return(p, "error")
  /\ UNCHANGED <<kube, proj, disk, faults, touched>>

ResetProject(p) ==
  /\ pc[p] = "r_set"
  /\ \/ SetEnvironmentState(FALSE, FALSE) /\ Goto(p, "r_env") /\ UNCHANGED faults
     \/ Fail(p) /\ UNCHANGED proj
  /\ UNCHANGED <<kube, disk, touched>>

\* removeGenerated leaves what it does not recognise (WorkingDirectory has the
\* moment between the look at .env and its removal).
Removed(file) == IF file = "user" THEN file ELSE None

ResetEnv(p) ==
  /\ pc[p] = "r_env"
  /\ \/ dotenv' = Removed(dotenv) /\ Goto(p, "r_rend") /\ UNCHANGED faults
     \/ Fail(p) /\ UNCHANGED dotenv
  /\ UNCHANGED <<kube, proj, rendered, touched>>

ResetRendered(p) ==
  /\ pc[p] = "r_rend"
  /\ \/ rendered' = Removed(rendered) /\ Return(p, "ok") /\ UNCHANGED faults
     \/ Fail(p) /\ rendered' \in {rendered, Removed(rendered)}
  /\ UNCHANGED <<kube, proj, dotenv, touched>>

ResetStep(p) ==
  \/ ResetLease(p) \/ ResetNamespace(p) \/ ResetWait(p) \/ ResetProject(p)
  \/ ResetEnv(p) \/ ResetRendered(p)

-----------------------------------------------------------------------------
(* Kubernetes.                                                             *)

\* Pods come, go and fail; a pod of the StatefulSet has its claim first.
PodChange(w) ==
  /\ wl[w] # None /\ wl[w].own
  /\ \/ /\ wl[w].rep = 1 /\ wl[w].pod # wl[w].ver /\ ns # "ending"
        /\ wl' = [wl EXCEPT ![w].pod = wl[w].ver, ![w].ran = TRUE]
        /\ pvc' = (pvc \/ w = "redpanda")
     \/ /\ wl[w].pod # None
        /\ wl' = [wl EXCEPT ![w].pod = None] /\ UNCHANGED pvc
  /\ UNCHANGED <<lock, ns, aux, proj, disk, own, faults, touched>>

\* The controller writes the status of the generation it has observed.
StatusUpdate(w) ==
  /\ wl[w] # None /\ wl[w].own
  /\ wl' = [wl EXCEPT ![w].seen = TRUE,
                      ![w].status = IF wl[w].pod = None THEN "none"
                                    ELSE IF wl[w].pod = wl[w].ver THEN "new" ELSE "old"]
  /\ UNCHANGED <<lock, ns, aux, pvc, proj, disk, own, faults, touched>>

Empty == /\ wl' = [w \in Workload |-> None]
         /\ aux' = [a \in Aux |-> "absent"]
         /\ pvc' = FALSE

\* The namespace controller removes the content first, the namespace last.
NamespaceCollect ==
  /\ ns = "ending"
  /\ Empty
  /\ ns' \in {"ending", "absent"}
  /\ UNCHANGED <<lock, proj, disk, own, faults, touched>>

-----------------------------------------------------------------------------
(* Crashes and people.                                                     *)

Crash(p) ==
  /\ pc[p] # "idle"
  /\ Fault /\ Return(p, "none")
  /\ rendered' \in IF pc[p] = "s_rend" /\ rendered # "user"
                   THEN {rendered, None, call[p].rel} ELSE {rendered}
  /\ UNCHANGED <<kube, proj, dotenv, touched>>

By == Fault /\ touched' = TRUE /\ UNCHANGED <<lock, own>>

\* Somebody creates, or deletes, the namespace.
ManualNamespace ==
  /\ By
  /\ \/ ns = "absent" /\ ns' = "foreign" /\ UNCHANGED <<wl, aux, pvc>>
     \/ ns = "foreign" /\ ns' = "absent" /\ Empty
     \/ ns = "ours" /\ ns' = "ending" /\ UNCHANGED <<wl, aux, pvc>>
  /\ UNCHANGED <<proj, disk>>

\* Somebody creates or deletes an object, or scales a workload.
ManualObject ==
  /\ By
  /\ \/ \E w \in Workload :
          /\ UNCHANGED aux
          /\ \/ /\ wl[w] = None /\ Creatable
                /\ wl' = [wl EXCEPT ![w] =
                     [own |-> FALSE, ver |-> None, rep |-> 0, seen |-> TRUE,
                      status |-> "none", pod |-> None, held |-> TRUE, ran |-> FALSE]]
             \/ wl[w] # None /\ wl' = [wl EXCEPT ![w] = None]
             \/ /\ wl[w] # None /\ wl[w].own
                /\ wl' = [wl EXCEPT ![w].rep = 1 - @, ![w].held = TRUE, ![w].seen = FALSE,
                                    ![w].ran = (wl[w].pod = wl[w].ver)]
     \/ \E a \in Aux :
          /\ UNCHANGED wl
          /\ \/ aux[a] = "absent" /\ Creatable /\ aux' = [aux EXCEPT ![a] = "foreign"]
             \/ aux[a] # "absent" /\ aux' = [aux EXCEPT ![a] = "absent"]
  /\ UNCHANGED <<ns, pvc, proj, disk>>

\* The student writes a file of their own, or moves one away.
ManualFile ==
  /\ By
  /\ \/ dotenv' \in {"user", None} \ {dotenv} /\ UNCHANGED rendered
     \/ rendered' \in {"user", None} \ {rendered} /\ UNCHANGED dotenv
  /\ UNCHANGED <<kube, proj>>

\* cluster stop and cluster start: a new cluster and a new state file.
ClusterReplaced ==
  /\ lock = None /\ Fault
  /\ ns # "absent" /\ ns' = "absent" /\ Empty
  /\ known' = FALSE /\ running' = FALSE
  /\ UNCHANGED <<lock, disk, own, touched>>

-----------------------------------------------------------------------------

Begin(p) ==
  \/ Status(p) \/ Connect(p) \/ List(p) \/ ResetBegin(p) \/ LogsBegin(p)
  \/ \E r \in Release : StartBegin(p, r) \/ StopBegin(p, r)

Step(p) == StartStep(p) \/ StopStep(p) \/ ResetStep(p)

Timeout(p) == StartTimeout(p) \/ StopTimeout(p) \/ ResetTimeout(p)

Kubernetes ==
  \/ \E w \in Workload : PodChange(w) \/ StatusUpdate(w)
  \/ NamespaceCollect

People == ManualNamespace \/ ManualObject \/ ManualFile \/ ClusterReplaced

Next ==
  \/ \E p \in Proc :
       Begin(p) \/ ResetConfirm(p) \/ LogsEnd(p) \/ Step(p) \/ Timeout(p) \/ Crash(p)
  \/ Kubernetes
  \/ People

Spec == Init /\ [][Next]_vars

\* A command that runs takes its next step, and the deadline of a wait comes
\* however often the wait polls.
FairSpec == Spec /\ \A p \in Proc : WF_vars(Step(p)) /\ WF_vars(Timeout(p))

-----------------------------------------------------------------------------
(* Properties.                                                             *)

TypeOK ==
  /\ lock \in Proc \cup {None}
  /\ known \in BOOLEAN /\ running \in BOOLEAN
  /\ ns \in {"absent", "ours", "foreign", "ending"}
  /\ wl \in [Workload -> Object \cup {None}]
  /\ aux \in [Aux -> {"absent", "ours", "foreign"}]
  /\ pvc \in BOOLEAN
  /\ dotenv \in Release \cup {None, "user"}
  /\ rendered \in Release \cup {None, "user"}
  /\ pc \in [Proc -> Label]
  /\ call \in [Proc -> Call]
  /\ at \in [Proc -> 1..Len(Bundle)]
  /\ res \in [Proc -> Result]
  /\ faults \in Nat
  /\ touched \in BOOLEAN

\* What SetEnvironmentState records is real although the workloads are polled
\* one after the other and their status lags behind: when Start is about to
\* record the environment as running, a pod of the spec this Start applied was
\* ready for every workload; when Stop is about to record it as stopped, no
\* workload has a ready pod left.
RecordedIsReal ==
  \A p \in Proc :
    ~touched /\ ns = "ours" =>
      /\ pc[p] = "s_set" => \A w \in Workload :
           wl[w] # None /\ wl[w].ver = call[p].rel /\ wl[w].rep = 1 /\ wl[w].ran
      /\ pc[p] = "t_set" => \A w \in Workload :
           wl[w] # None /\ wl[w].rep = 0 /\ wl[w].pod = None

\* No step of a command, be it one of the many applies that leave pc alone,
\* changes an object it does not own, deletes a namespace it does not own, or
\* takes back the replica count that a user has set, although people act
\* between the preflight and the apply, and between two objects.  (The Get
\* and the Patch of one object are one step here: the moment between them is
\* not covered.)
ForeignIsKept ==
  [][ own' # own =>
        /\ ns = "foreign" => ns' = "foreign"
        /\ \A a \in Aux : aux[a] = "foreign" => aux'[a] = "foreign"
        /\ \A w \in Workload :
             /\ wl[w] # None /\ ~wl[w].own => wl'[w] = wl[w]
             /\ wl[w] # None /\ wl[w].held => wl'[w] # None /\ wl'[w].rep = wl[w].rep
    ]_vars

\* A successful start leaves the cluster, the state file, .tripgo/rendered and
\* .env describing one and the same release, the one that ran it, whatever
\* other releases started, stopped or failed in the same directory meanwhile.
SuccessIsConsistent ==
  [][ \A p \in Proc :
        pc[p] = "s_status" /\ res'[p] = "ok" /\ ~touched =>
          /\ known /\ running
          /\ dotenv = call[p].rel /\ rendered = call[p].rel
          /\ \A w \in Workload : wl[w].ver = call[p].rel /\ wl[w].rep = 1
    ]_vars

\* A successful reset leaves nothing of ours: no namespace (not even one that
\* is still being deleted), no record of it, no generated file.
ResetLeavesNothing ==
  [][ \A p \in Proc :
        pc[p] = "r_rend" /\ res'[p] = "ok" =>
          /\ ns' \in {"absent", "foreign"}
          /\ ~known' /\ ~running'
          /\ dotenv' \in {None, "user"}
          /\ rendered' \in {None, "user"}
    ]_vars

\* Every command ends, except while it asks or streams: the waits for
\* readiness and for deletion are bounded whatever Kubernetes does.
CommandsEnd ==
  \A p \in Proc : (pc[p] \in Leased) ~> (pc[p] = "idle")

\* The state file does not miss an environment that is up ("so cluster status
\* cannot report a ready namespace as absent", src/internal/lab/service.go:178).
ReadyIsKnown == lock = None /\ ns = "ours" /\ StatusWith = "ready" => known

=============================================================================
