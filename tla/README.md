# TLA+ verification of tripgo-infra

`tripgo-infra` builds two programs: `tripgoctl`, which manages a local kind
cluster and the lab environments in it, and `push-service`, a stub with
configurable faults that runs inside the cluster from lab 3 on. This directory
holds TLA+ models of the parts of both that keep state, TLC configurations that
check them on small instances, and TLAPS proofs for instances of any size.

Every definition that models code is mapped to its source lines in
`PROJECT.json`; operators introduced by a comment that starts with `Mutant:`
are deliberately wrong variants used to show that a property can fail.

## 1. Inventory

### Cluster lifecycle (`internal/cluster`, cluster commands of `internal/cli`)

- **State.** The flock on `cluster.lock`; `cluster-state.json` with the
  identity, versions, configuration hash, known and running namespaces; two
  Docker containers, the control-plane node (with a marker file and an identity
  ConfigMap) and the registry (with an ownership label); per operation what it
  has loaded and what it was told.
- **Operations.** `Start`, `Inspect`, `Stop`, `BeginEnvironmentOperation`,
  `SetEnvironmentState`, `Close`; the CLI puts a confirmation between `Inspect`
  and `Stop`, with the lock free.
- **Hard.** Several processes; a process killed between any two commands;
  `docker` and `kind` commands that take effect after the caller gave up on
  them, on whatever has the name by then; cleanup that may itself fail; deletion
  by name after a check by marker.
- **Correct when** whatever passes the ownership check is complete, nothing
  foreign is deleted, a stop deletes what was shown, a failed or killed stop
  leaves nothing that a start does not accept, and the lock is always given back.

### Environment lifecycle (`internal/lab`, environment commands of `internal/cli`)

- **State.** The namespace, Deployments, the StatefulSet and its claim,
  Services and ConfigMaps; the namespace's line in the state file; `.env` and
  `.tripgo/rendered` in the working directory.
- **Operations.** `Start`, `Status`, `Stop`, `Reset`, `List`, `Logs`, `connect`.
- **Interaction.** Each operation holds the cluster's lock through a lease,
  except while it checks `.env`, waits for an answer or streams logs.
  Kubernetes controllers and people act at any time.
- **Hard.** Status that lags behind the spec, workloads polled one by one,
  server-side apply interrupted between objects, two releases in one directory,
  user files that appear during a wait, a namespace that is being deleted.
- **Correct when** what is recorded is real, success means that cluster, state
  file and local files agree, nothing of the user's is overwritten, a reset
  leaves nothing behind, and every command ends.

### Push Service (`internal/pushservice`)

- **State.** The behaviour (fail rate, latency, rate) and the limiter, under one
  mutex; in `App.Run` two listeners, two serving goroutines, a channel, a deadline.
- **Operations.** `Process` (one goroutine per request), `PatchBehaviour`,
  `Run`, shutdown.
- **Hard.** The clock is read outside the mutex, the latency is spent outside
  it; the two servers share one shutdown deadline and requests may last for ever.
- **Correct when** the limiter fits the behaviour, admissions are bounded, no
  request is turned away before the burst is used, and `Run` ends and tells the
  truth.

### Working directory (`generator/write.go`, outputs of `internal/lab`, `internal/environment`, `internal/catalog`)

- **State.** `environment.toml`, `.env`, `.tripgo` with `rendered`, the legacy
  lock and the student's own entries; the temporary directories of a write.
- **Operations.** `Parse`, `Write`, `writeEnv`, `removeGenerated`, within
  `Start` and `Reset`; every command reads `environment.toml` again.
- **Hard.** Two renames that replace a directory, each of which may fail or be
  the last thing a process does; deferred removals; edits between the reading
  of the configuration and the writing of what follows from it.
- **Correct when** `rendered` is whole or not there, `.env` and `rendered` are
  of one configuration, a failed write keeps the previous output, and nothing
  of the student's is lost.

### Progress of a start (`internal/progress`, `internal/boundedio`, `cli/progress.go`)

- **State.** Per stream of a child process the incomplete line and the bounded
  capture; the session (stage, tail, log, outcome) under a mutex; the user
  interface goroutine; the directory of failure logs, shared by processes.
- **Operations.** `LineWriter.Write` and `Close`, `Report`, `finish`, refreshes;
  `saveFailureLogLocked`, `pruneFailureLogs`.
- **Hard.** Writes cut anywhere, two goroutines reporting at once, a full log,
  an operation that ends between the two snapshots of a refresh, a user
  interface that died, processes pruning each other's logs without a lock.
- **Correct when** lines are reported whole and in order, the log has no holes
  and tells the failure, the last frame is the outcome, the command returns,
  and pruning takes only old logs.

### Topic reconciler (`internal/redpanda`)

- **State.** The topics of the broker; per pod the position and variables of
  the shell loop and the readiness file, which survives its container.
- **Hard.** A broker that does not answer looks like a missing topic; a failed
  command may have had its effect; pods overlap during a rolling update.
- **Correct when** the readiness file tells the truth, repeated passes never
  add too many partitions, and passes succeed again after any failure.

### The rest

Image provider and download cache take part in the models above as single steps
with all their outcomes. Transports' decoding, doctor, redaction, templates,
generated code, and the release scripts are stateless, textual or outside the
running system. `PROJECT.json` lists every component with its status, and the
hazards of the code with the line where each bites.

## 2. Modules

| Module | Models |
| --- | --- |
| `ClusterLifecycle` | cluster package and cluster commands |
| `ManagedCluster` | abstract: what the cluster package promises its callers |
| `ClusterRefinement` | the mapping from `ClusterLifecycle` to `ManagedCluster` |
| `EnvironmentLifecycle` | lab package and environment commands, one lab |
| `PushService` | `Process`, `PatchBehaviour`, the limiter |
| `PushServer` | `App.Run` |
| `WorkingDirectory` | `environment.toml`, `generator.Write`, `writeEnv`, `removeGenerated` by file-system call |
| `ProgressSession` | `LineWriter`, the bounded buffer, the progress session and its user interface |
| `FailureLogs` | failure logs of concurrent processes |
| `TopicReconciler` | the reconcile script, its pods and the broker |
| `...Proofs` | inductive invariant and theorems about the module of that name; `ClusterLifecycleProofs` has the refinement too |
| `MC...` | the same modules with symmetry and views for TLC |

### ClusterLifecycle

A step is one command of the runner or one access to the state file. Commands
that only read and follow each other under the lock are one step, because every
other writer needs the same lock. `pc` names the step a process is at:
`s_*` Start, `c_*` the cleanup of a failed Start, `i_*` Inspect, `prompt`
and `stop` the CLI between Inspect and Stop, `t_*` Stop, `e_*` the lease.

Containers are records. `gen` of the node is a ghost, the identity of the Start
that created it; `marker` and `api` are what Start wrote on it afterwards; the
registry has its label and whether it is on kind's network. A container that
people created has `None` in their place. `late` holds the commands that were
given up on (error, timeout, cancellation, death of the process) and that the
Docker daemon may still carry out, at any later time and in any order. A late
`kind create` or `docker run` fails if the name is taken; a late `kind delete` or
`docker rm` removes whatever has the name by then, be it the container of a
later cluster, finished or being built, or somebody else's. (Its identity in
`late` is a ghost, for the flags below.) A `docker exec` or `docker network
connect` that is given up on has its effect at once or never. People create and
remove containers at any time, in the middle of operations too. A release stands
for the pinned kind and Kubernetes versions and the hash of the kind
configuration.

`unclean` is a ghost set of what happened that no program of this kind can undo
or see; each property names the flags it excepts and no other:

- `start`: a Start was interrupted after it had created a container, or its
  cleanup failed; `people`: somebody touched the containers; `stray`: a `docker
  rm` that was given up on removed the registry of a later cluster. These three
  may leave containers that no command accepts (`OnlyStartLeavesDebris`). A late
  `kind delete` does not: a cluster without its node can be started again.
- `node`, `registry`: the container vanished while an operation was running, by
  a hand or by a late command. The operation goes on by name with what it
  finds, so that it may mark or delete another container (`ForeignIsNeverDeleted`)
  or report a success it did not have (`SuccessIsComplete`).

### ManagedCluster and ClusterRefinement

The callers of the cluster package need not know of containers, markers, files
and commands. For them there is a record of a cluster, a lease with at most one
holder, and one bit: the cluster on record is intact. `ManagedCluster` lets a
cluster be drawn, put on record (intact, or already damaged from outside while it
was built), lost (by a late command, a person or a stop), and forgotten only
after it was lost; nothing repairs a lost
cluster, and identities never come back. A lease opens only on an intact
cluster, and only its holder changes the record, one environment at a time.

The mapping: the holder is the process between a successful
`BeginEnvironmentOperation` and `Close`; the record is the state file without
its release; intact means that the marker, the API identity, the registry's
label and its network all agree with the state file; pending is the identity of
a `Start` under way. `VerifiedIsComplete` makes `intact` equal to what
`verifyStateAndContainers` checks.

### EnvironmentLifecycle

The lock is the lease of `ClusterLifecycle`; that the cluster behind it
is ours and complete is what that module shows. A step is one write, or a group
of reads whose answers only decide how to go on. Reading an object and
patching it is one step (the window is a single API call).

One Deployment (`postgres`) stands for all without a rule of their own, and
`service` for all Services; `push-service` and `redpanda` are there from lab 3
and 4 because Stop and Status treat them differently. A workload has a
spec (`ver`, `rep`), a status that may belong to an older generation (`seen`,
`status`), the ready pod there is now (`pod`), and `held`, which says that a user
manages the replica count. `PodChange`, `StatusUpdate` and `NamespaceCollect` are
Kubernetes, in any order and without fairness. `touched` is a ghost set
when people change something by hand.

The lease of `environment reset` may fail with a prerequisite error; the
question is then asked all the same, as in the CLI. `environment logs` streams
without the lease.

`.env` and `.tripgo/rendered` are absent, the user's own, or written by a
release. A write that fails or is cut off leaves any of the outcomes of its
file-system calls, for `rendered` also none at all (between the two renames).

### PushService and PushServer

A request is stamped (`Arrive`), passes `snapshotAndAllow` (`Admit`, `Reject`),
waits and rolls. Time is counted in units in which the limiter refills
`rps` tokens. The limiter is that of `golang.org/x/time/rate`: a timestamp before
the last one adds nothing but sets its clock back, so the interval is refilled
twice. `origin`, `admitted` and `lost` are ghosts that count this exactly.

`PushServer` keeps the control flow of `Run`; `http.Server.Shutdown`,
`GracefulStop` and `Stop` are modelled from how `Run` uses them. A request in
flight need never end. gRPC accepts requests, and may fail, until the goroutine
of `GracefulStop` has begun (`graceful` is `starting` before that).

### WorkingDirectory

A step is one call that changes a file, with the checks that precede it; all
that `Start` does in Kubernetes is one step here. An output is the `Config` it
was made from and whether all its files are written. `stage` and `prev` are the
temporary directories of a process in `Write`; the deferred removals run on
every return and are skipped by a crash, which leaves `litter`: temporary
directories or a backup in `.tripgo`, or the temporary file of `atomicWrite` in
the project directory. `writeEnv` and `removeGenerated` look at the marker of
`.env` in one step and rename over it or remove it in another (`EnvCheck` and
`EnvInstall`, `ResetEnv` and `ResetUnlink`). `torn`, `raced` and `tampered` are
ghosts: a removal cut off in the middle, a `.env` that the student saved in one
of these two windows, and a student who edits generated files. Five labs, four components and one
built-in variable per lab stand for the catalog.

### ProgressSession and FailureLogs

Bytes are visible, line feed or carriage return; a line is its length after
bounding, and a report of the operation is a number. A stream is fed in writes
of every size. What runs under the session's mutex is one step; `Report` of a
message with several parts is one step per part, as in the code. The user
interface takes one snapshot to decide and one to draw. On a terminal or not is
chosen at the beginning. A command runs one child. The log is a builder, so it
has its length (`size`) beside its entries. The ghost `said` has what was
reported of a stream, one entry per line of it. `strings.Split` is stated by
counting: the k-th piece lies between the separators with k - 1 and with k of
them up to there (`Nth`, `Pieces`). This is one definition for all inputs, and
can be reasoned about without induction over the stream.

In `FailureLogs` a step is one file-system call. Listing and `Info` are separate,
so files vanish in between or cannot be read; times are coarse, and equal times sort in any order.

### TopicReconciler

A step is one `rpk` command with what the shell does before the next one. A
command may fail with or without effect. A container that exits is restarted
with the same `/tmp`; `Surge` and `Retire` are the rolling update of the
Deployment; `ClientUses` is Redpanda's automatic creation of topics.

## 3. Runs

| Run | Shows |
| --- | --- |
| `cluster_safety` | `VerifiedIsComplete`, `OnlyStartLeavesDebris`, `ForeignIsNeverDeleted`, `StopDeletesWhatWasShown`, `SuccessIsComplete`, `LockEventuallyFree` and the refinement `ImplementsManagedCluster`, for two processes, two identities, two faults |
| `cluster_unconfirmed_stop` | violation: a cluster deleted without a yes |
| `environment_safety` | `ForeignIsKept`, `SuccessIsConsistent`, `ResetLeavesNothing` for two processes of two releases, lab 1, one fault |
| `environment_liveness` | `CommandsEnd`, and `RecordedIsReal` with the three workloads of lab 4 |
| `environment_ready_unknown` | violation: a ready environment the state file misses |
| `push_service` | `LimiterMatches`, `AdmissionsBounded`, `RejectsOnlyAfterBurst` |
| `push_server` | `ExitTellsTruth`, `NilMeansAsked`, `RunEnds` (and both serving goroutines end) |
| `working_directory` | `RenderedIsWhole`, `OutputsAgree`, `FailedWriteKeepsOutput`, `OutputSurvives`, `StudentFilesAreKept`, `ValidMovesLater` for two processes, two edits of the student, two faults |
| `failure_logs` | `RetentionBounded`, `PrunedIsOld`, `ReportedIsComplete` |
| `progress_session` | `StreamsAreFaithful`, `LogHasNoHoles`, `LastFrameTellsOutcome`, `SessionEnds` |
| `topic_reconciler` | `ReadyIsSufficient`, `RetriesNeverOvershoot`, `ReconcilesOrRefuses` |
| `topic_overlap` | violation: two pods add partitions twice |

The violations are disagreements between code and documentation; each has a
finding in `PROJECT.json` with the quotation.

The models contain more behaviour that differs from what the documentation
says, without a run of its own:

- `kind create` that fails leaves its node, because the cleanup is registered
  only after it (`docs/cluster-lifecycle-v1.md:56`); `unclean` covers it.
- A `docker rm` of the registry that was given up on acts by name: it may remove
  the registry of the next cluster, and every command then answers with a
  conflict, while the comment at `internal/cluster/service.go:387` says that
  `Stop` "deletes only a cluster and registry with matching identity markers".
- `.tripgo/rendered` is replaced by two renames; a process killed in between
  leaves none, where `internal/generator/write.go:13` ("atomically replaces") and
  `docs/generator-v1.md:38` promise an atomic replacement. `RenderedIsWhole`
  allows the absence, `OutputSurvives` says that the backup is there then.
- `environment reset` deletes a `.env` of the student that is saved between its
  look at the marker and the removal (`internal/lab/service.go:1258-1261`), and
  a start replaces one in the window of `writeEnv`; `raced` covers both.
- `cluster stop` of a cluster whose containers are gone ends with a conflict of
  `Inspect` (`docs/cluster-lifecycle-v1.md:71`).
- `environment list` fails as a whole for one kind of damage to one environment
  (`docs/environment-lifecycle-v1.md:71-72`).
- `environment start` may succeed on a namespace that is being deleted
  (`docs/cli-contract-v1.md:113-114`).
- `environment reset` reads `environment.toml` again after the answer, so the
  namespace deleted need not be the one shown (`docs/cli-contract-v1.md:128`).

### Bounds

- `MaxFaults` counts failed calls, crashes and manual interventions together.
  Without faults the interesting paths are the races between processes; one
  fault reaches every error path, two reach a failing cleanup and a late command
  that meets the next operation.
- Two processes are enough for every race of two holders of the lock; the
  proofs of the safety properties remove this bound.
- Two identities let a cluster be replaced once, which is what the ABA cases
  between Inspect and Stop need.
- Lab 1 has one workload and one Service, lab 4 all kinds of objects;
  `environment_liveness` has no faults and one process because its state space is
  about Kubernetes. Pods may still fail at any time there.
- `MaxTime` 3 with burst 2 and rates 0 to 2 lets the bucket run empty, refill
  and overflow; three requests let one be overtaken by two.
- The views of `MCEnvironmentLifecycle` and `MCPushService` leave out the
  outcome of the last command of a process. No guard reads it; action
  properties are evaluated on every step that is generated.
- `cluster_safety` has one release and one environment: the mapping and the
  temporal properties cost more than a second one would show, and the proofs
  cover any number of both.
- Two edits and two faults in `working_directory` reach a double failure inside
  one `Write` (a rename and its undoing) and a crash between a start and a reset
  of another configuration. The documents are the valid ones of two labs and some
  invalid ones, with a custom name that a later lab reserves.
- In `failure_logs` a retention of 2 and four names let two processes prune and
  create twice each; the bound of the property is reached.
- The scripts of `progress_session` have lines at, below and above the limits
  (line, capture, log), without an end, with carriage returns, on one stream
  and on both. A log of four units is filled by them and by two reports.
- In `topic_reconciler` three faults reach a failed command, a crash and an
  overlap in one run; the two topics want three partitions and one.
- `PushServer` is checked without deadlock detection: the process ends.

### Fairness

`FairSpec` of the two lifecycles asks that a process in an operation takes its
next step: runner commands and API calls return or are cancelled by their
context. Waiting for an answer, streaming logs, Kubernetes and people are not
fair; the polling loops end by `PollUntilContextTimeout`, which is the `Timeout`
action. In `PushServer` goroutines that can run do, and the shutdown timer
fires; requests need not end. In `ProgressSession` the copying goroutines, the
operation and the ticks of the user interface go on; a child ends because its
context has a deadline. In `TopicReconciler` a pod's script runs and Kubernetes
restarts a container that exited; the broker's failures are bounded by
`MaxFaults`, so it answers eventually.

## 4. What is proved

Every safety property of the passing runs, invariants and action properties
alike, and the refinement of `ManagedCluster`. The theorems hold for every value of the constants that
satisfies the assumptions: any number of processes, faults, edits, documents,
labs, releases, requests, and any sizes.

| Proofs module | Theorems, with the property each states |
| --- | --- |
| `ClusterLifecycleProofs` | `Safety`, `TypeCorrect` (`TypeOK`), `VerifiedComplete` (`VerifiedIsComplete`), `NoDebris` (`OnlyStartLeavesDebris`), `ForeignSafe` (`ForeignIsNeverDeleted`), `ShownIsDeleted` (`StopDeletesWhatWasShown`), `SuccessComplete` (`SuccessIsComplete`), `Refinement` (`ImplementsManagedCluster`) |
| `EnvironmentLifecycleProofs` | `EnvironmentTypeCorrect` (`TypeOK`), `RecordsAreReal` (`RecordedIsReal`), `ForeignObjectsAreKept` (`ForeignIsKept`), `SuccessfulStartAgrees` (`SuccessIsConsistent`), `SuccessfulResetIsClean` (`ResetLeavesNothing`), `LeaseIsUsedAsOffered` (the steps of `ManagedCluster` that commands take) |
| `WorkingDirectoryProofs` | `BundlesAreWhole` (`RenderedIsWhole`), `OutputsAlwaysAgree` (`OutputsAgree`), `LaterLabsAccept` (`ValidMovesLater`), `FailedWritesKeepOutput` (`FailedWriteKeepsOutput`), `LastOutputSurvives` (`OutputSurvives`), `StudentFilesKept` (`StudentFilesAreKept`) |
| `FailureLogsProofs` | `RetentionIsBounded` (`RetentionBounded`), `PrunedLogsAreOld` (`PrunedIsOld`), `ReportedLogsAreComplete` (`ReportedIsComplete`) |
| `ProgressSessionProofs` | `SessionTypeCorrect` (`TypeOK`), `LogsHaveNoHoles` (`LogHasNoHoles`), `LastFrameIsOutcome` (`LastFrameTellsOutcome`), `CapturesAreFaithful` (the part `CaptureIsFaithful`), `StreamsAlwaysFaithful` (`StreamsAreFaithful`) |
| `PushServiceProofs` | `PushSafety`, `PushTypeCorrect`, `LimiterAlwaysMatches`, `AdmissionsAlwaysBounded`, `BurstComesFirst` (`RejectsOnlyAfterBurst`) |
| `PushServerProofs` | `ServerTypeCorrect`, `ExitStatusIsTrue`, `NilIsAsked` (`NilMeansAsked`) |
| `TopicReconcilerProofs` | `TopicTypeCorrect`, `ReadyFileIsTrue`, `RetriesAreSafe` |

### The cluster

None of the properties is inductive. `SafeInv` adds

- `LockInv`, `CallInv`: who holds the lock is inside an operation, so a step
  needs to look at one process only (lemma `Alone`);
- `IdsInv`: identities in use were drawn before, so a new one is nowhere yet,
  neither on a container nor in a late command;
- `StateInv`: what carries the recorded identity is complete. This is what makes
  comparing one marker and one label sufficient;
- `ProcOf`: what an operation has built, loaded or checked at each of its steps,
  as far as nothing vanished under it; and `MarkOf`, which holds whatever
  vanished: a node that a Start or a Stop meets after it saw that the recorded
  one is gone carries no recorded marker, though people and late commands put
  nodes there at any time;
- `DebrisInv`: as long as the containers are tidy, late commands only remove,
  and a late `docker rm` for the recorded cluster finds it without its node. So
  what it removes leaves nothing or a cluster without node, which Start accepts.

The proof has one lemma per action, over a few lemmas for the recurring
patterns (`GotoStep`, `WorkStep`, `IdleProc`, ...). Assumptions: `None` is none
of the values it stands in for, and `MaxFaults` is a natural number.

`ClusterLifecycle` implements `ManagedCluster`, for the same constants: `Init`
maps to `Init`, and every step to a step or a stutter. The argument rests on
`SafeInv` (a lease is opened after a check that implies intactness, a record is
replaced only by a cluster with a new identity) and there on `MarkOf`: at the
steps of Start and Stop after a container was seen to be missing
(`GoneLabels`), the cluster on record is lost, and neither late commands nor
people bring it back.

### The environment

`OwnOK` is about the processes alone: the lease belongs to the one between its
Begin and its Close, a command keeps its release, and walks over the bundle stay
within it. Three parts relate the place of a command to the world:

- `Honest`: what a status that lags behind still says. If the controller has
  seen the present generation and reports it ready, this version ran once; if it
  reports nothing for a replica count of zero, there is no pod;
- `WorkInv`: what was applied keeps its version and count, and what was polled
  has run, or has no pod, until people interfere or the namespace ends. This
  makes polling one workload after the other sound;
- `RecordInv`: what the tail of a start has written and the tail of a reset has
  removed when it takes its next step.

`RecordedIsReal` follows at the label of the record. The action properties
`ForeignIsKept`, `SuccessIsConsistent` and `ResetLeavesNothing` follow from the
invariant in the state before the step. Assumptions: a lab of 1 to 5, `None` and
`"user"` are no releases, processes or objects.

`LeaseIsUsedAsOffered` joins the two lifecycles. Seen through lock and record,
every step of `EnvironmentLifecycle` is a stutter, the `Open` or `Close` of one
process, a `SetState` by the holder for this lab only, or `ClusterReplaced`, the
one thing it lets other commands do. The first three are steps `ManagedCluster`
offers its users, and `ClusterLifecycle` implements `ManagedCluster` (`Refinement`). So what
`EnvironmentLifecycle` assumes of its lease (one holder, nobody else writes the
record) and what the cluster package requires of its callers are the same
interface. The mapping has one environment and leaves identities out: that the
cluster under an open lease is intact is not part of this theorem.

### The working directory

Only the holder of the lease writes. `FreeInv` is about the outputs while nobody
has it; `Holds(p)` says what they are at the place where `p` is: `TempOf`, its
temporary directories and that `rendered` is whole or torn; `WriteOf`, where the
output that a Write found is at each of its calls (in `rendered`, in `prev`, or
replaced by a whole one); `AgreeOf`, how far the outputs agree while nothing has
failed. `DirInv` ties the entries of `.tripgo` to the directory. The parts are
conditional on the ghosts that the properties exempt and on nothing else.
`ValidMovesLater` is a property of `Parse` for any document, and needs that
the reserved names are those of all labs. Assumptions: documents are records of
the four fields of `type document`, and the markers `None` and `User` are no
configurations, outputs or processes.

### Failure logs

`RetentionBounded` does not follow from itself: whether there is room for one
more log depends on what stale listings will still remove. `Budget` says, for
every group of processes that have listed and not yet created and for every set
of logs that may be left when they have pruned, that this set and the logs of
the group together stay within `Retention - 1` plus the number of processes plus
the failures that left a log behind. A creation takes a process out of the group
and puts its log into the set; sorting bounds what is left of a listing.
`TimeInv` and `OldInv` carry the argument for `PrunedIsOld`: times in a listing
lie between the making of a log and its last write, so a victim by listed times
is old by real ones. `FileInv` and `WrittenInv` (a name has one owner) give
`ReportedIsComplete`. Assumption beyond the types: processes and names are
finite, as cardinalities need.

### The progress session

`LogInv` says that the log is a cut of what was accepted, perhaps with the
marker behind it, and equal to it until it is full; `OutcomeInv` that outcome,
end, failure entry and file appear together; `FrameInv` that the user interface
quits only on a snapshot taken after the end and draws a later one. The lines
that are reported may be anything, so this part does not depend on how they are
cut. `StreamInv` has the captured bytes: appending what fits, write after
write, gives the beginning of the whole (`CaptureStep`).

`StreamsAreFaithful` compares what was reported with the division of the whole
stream into lines, which a `LineWriter` never sees. `ReportInv` says where it is:

- the position in a stream is what was fed minus the rest of the chunk, and as
  many lines are in `said` as there are line feeds before it (one more once the
  writer is closed);
- `partial` is the beginning, cut at `MaxPartial`, of the bytes from the last
  line feed to the position, however the stream was cut into writes
  (`PartialStep`: cutting each piece to what fits is cutting the whole);
- for the last line, what was reported of it followed by what is still pending
  is what `safeProgressLines` makes of it (`Told`).

`PieceCount` and `PieceAt` connect the position to the division: between two
neighbouring line feeds, the first with k - 1 of them before it, lies the k-th
piece. `PhaseInv` has the order of copying, closing and waiting, so that at the
end nothing is pending and every line, the unfinished last one too, was
reported. Assumptions: the sizes
are positive, texts are not the number of the failure, scripts are bytes.

### Push Service

`BucketInv` is the inductive part: tokens left plus requests admitted stay
within burst plus refill, measured at the limiter's own clock, with `lost`
making up for every time that clock is set back. `SpentInv` is the other side:
what is missing in the bucket was given out, so an empty bucket has let the
burst through, whatever the timestamps were.

The strengthening for `PushServer` is `DeadlineInv` (an HTTP request that is
still there when gRPC is stopped has used up the deadline, and Run's error
already says so), `ServingInv` (until the select is left every value on its way
to Run is an error) and `AskedInv` (after it there is a reason to stop).

### Topics

Partitions only grow, so the lines a pass has settled stay settled (`PassInv`)
and what a script has read is out of date downwards only (`CurrentInv`); a pod
that never had another beside it knows the exact count, because clients make
partitions only for topics that are missing (`AloneInv`). Assumptions: the table
is not empty and names a topic once.

## 5. Only model-checked

- Liveness (`LockEventuallyFree`, `CommandsEnd`, `RunEnds`, `SessionEnds`,
  `ReconcilesOrRefuses`): fairness and `ENABLED` are out of the provers' reach.
- The three expected violations, which are counterexamples.

No module declares a RECURSIVE operator.

## 6. Not modelled

Text: manifests, messages, frames of the progress display, log redaction, exit
codes, positions of TOML diagnostics. Data: image layers, digests, ports. The
content of the database and of topics. The three rules of `validatePush` are one
choice. `EnvironmentLifecycle` has one lab; labs share nothing but the lock and
the state file, whose other entries `SetEnvironmentState` keeps.

The download cache writes a temporary file and renames it under the operation
lock, and checks the digest of whatever it finds: one process at a time, no
state that a later run trusts. The image provider talks to docker and to the
registry before anything is applied, and may be repeated. Both are one step that
succeeds or fails. HTTP and gRPC decoding, doctor, command wiring and the
release scripts keep no state.

## 7. Plan

What could follow: two labs sharing lock and state file as two instances of
`EnvironmentLifecycle` over one `ManagedCluster`. `LeaseIsUsedAsOffered` is the
step each instance needs; the composition itself is not modelled.
