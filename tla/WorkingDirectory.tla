-------------------------- MODULE WorkingDirectory --------------------------
(***************************************************************************)
(* The student's working directory: environment.toml, which every command  *)
(* reads again (src/internal/environment/config.go, src/internal/catalog), *)
(* and what start and reset make of it: .env and .tripgo/rendered, each    *)
(* replaced by renames (src/internal/generator/write.go, writeEnv and      *)
(* removeGenerated of src/internal/lab/service.go).                        *)
(*                                                                         *)
(* A step is one call that changes a file, with the checks before it.  The *)
(* part of a command that talks to Kubernetes is one step here, and is the *)
(* subject of EnvironmentLifecycle.  The student edits files at any time;  *)
(* calls fail and processes are killed at any point.                       *)
(***************************************************************************)
EXTENDS Integers, Sequences, FiniteSets, Functions

CONSTANTS
  Proc,       \* tripgoctl processes in this directory
  Documents,  \* what environment.toml may say
  None,       \* the absent value
  User,       \* a file of the student's own
  MaxEdits,   \* bound: edits of the student
  MaxFaults   \* bound: failing calls and crashes

-----------------------------------------------------------------------------
(* The catalog and environment.toml.  One built-in variable stands for all *)
(* those that a lab adds.                                                  *)

Labs == 1..5

AllComponents == <<"postgres", "observability", "push", "redpanda">>

Components(lab) == SubSeq(AllComponents, 1, IF lab < 4 THEN lab ELSE 4)

LabVariables == <<"HTTP_ADDR", "OTEL_SERVICE_NAME", "PUSH_HTTP_URL", "GRPC_ADDR", "CACHE_TTL">>

\* EnvironmentForLab: the variables of a lab, in order.
CatalogEnv(lab) == SubSeq(LabVariables, 1, lab)

\* Mutant: only the variables of the lab itself are reserved.
IsBuiltInHere(name, lab) == name \in Range(CatalogEnv(lab))

\* IsBuiltInEnvName: the names of the last lab, for every lab.
IsBuiltIn(name, lab) == name \in Range(CatalogEnv(5))

NameAllowed(e, lab) == e.wellFormed /\ ~IsBuiltIn(e.name, lab) /\ e.oneLine

\* Parse: TRUE when every check of the document passes.
Parses(d) ==
  /\ d.schema = 1 /\ d.lab \in Labs
  /\ d.components # <<>>
  /\ Range(d.components) \subseteq Range(AllComponents)
  /\ IsInjective(d.components)
  /\ \A e \in d.env : NameAllowed(e, d.lab)
  /\ Range(d.components) = Range(Components(d.lab))

\* The normalised Config.
Config(d) == [lab |-> d.lab, custom |-> {e.name : e \in d.env}]

Configs == {Config(d) : d \in {x \in Documents : Parses(x)}}

\* A rendered directory: the Config it comes from, and whether it has all files.
Output == [of : Configs, whole : BOOLEAN]

\* A document that is TOML with known keys, whatever their values.
Document ==
  [schema : Int, lab : Int, components : Seq(STRING),
   env : SUBSET [name : STRING, wellFormed : BOOLEAN, oneLine : BOOLEAN]]

ASSUME DirectoryAssumption ==
  /\ {MaxEdits, MaxFaults} \subseteq Nat
  /\ Documents \subseteq Document
  /\ None # User /\ {None, User} \cap (Configs \cup Output) = {} /\ None \notin Proc

-----------------------------------------------------------------------------

VARIABLES
  toml,       \* environment.toml
  dotenv,     \* .env: None, User or the Config it was written from
  tripgo,     \* .tripgo: "absent", "dir" or "user"
  rendered,   \* .tripgo/rendered: None, User or an Output
  sibling,    \* .tripgo holds an entry of the student
  legacy,     \* .tripgo/environment.lock: "none", "ours" or "user"
  litter,     \* temporary entries nobody will remove: "temp" or a "backup" in
              \* .tripgo, "env" beside .env
  stage,      \* .rendered-new-* of a process: None or an Output
  prev,       \* .rendered-previous-* of a process: None or an Output
  live,       \* the labs whose namespace exists
  lock,       \* holder of the operation lease
  pc,         \* where each process is
  config,     \* the Config a command works with, or None
  faults, edits,
  had,        \* ghost: rendered when a process began to write
  hurt,       \* ghost: failing calls in its Write
  torn,       \* ghost: the removal of rendered was interrupted
  raced,      \* ghost: .env appeared between the last check and what follows it
  tampered    \* ghost: the student touched an output

files  == <<toml, dotenv, tripgo, rendered, sibling, legacy, litter>>
temps  == <<stage, prev>>
ghosts == <<had, hurt, torn, raced, tampered>>
vars   == <<toml, dotenv, tripgo, rendered, sibling, legacy, litter, stage, prev, live, lock,
            pc, config, faults, edits, had, hurt, torn, raced, tampered>>

Init ==
  /\ toml \in {d \in Documents : Parses(d)}
  /\ dotenv = None /\ rendered = None
  /\ \E d \in {"absent", "dir"} :
       /\ tripgo = d
       /\ legacy \in IF d = "dir" THEN {"none", "ours", "user"} ELSE {"none"}
  /\ sibling = FALSE /\ litter = {}
  /\ stage = [p \in Proc |-> None] /\ prev = [p \in Proc |-> None]
  /\ live = {} /\ lock = None
  /\ pc = [p \in Proc |-> "idle"]
  /\ config = [p \in Proc |-> None]
  /\ faults = 0 /\ edits = 0
  /\ had = [p \in Proc |-> None] /\ hurt = [p \in Proc |-> 0]
  /\ torn = FALSE /\ raced = FALSE /\ tampered = FALSE

Goto(p, l) == pc' = [pc EXCEPT ![p] = l] /\ UNCHANGED <<lock, config>>

\* A command ends; the deferred lease.Close gives the lock back.
Return(p) ==
  /\ pc' = [pc EXCEPT ![p] = "idle"]
  /\ lock' = IF lock = p THEN None ELSE lock
  /\ config' = [config EXCEPT ![p] = None]

Fault == faults < MaxFaults /\ faults' = faults + 1

\* A call of Write fails: what was deferred is still done.
WriteFails(p) ==
  /\ Fault /\ hurt' = [hurt EXCEPT ![p] = @ + 1]
  /\ Goto(p, "w_failed")

\* loadCurrentConfig.
Load(p, from, to) ==
  /\ pc[p] = from
  /\ \/ /\ Parses(toml)
        /\ pc' = [pc EXCEPT ![p] = to] /\ config' = [config EXCEPT ![p] = Config(toml)]
        /\ UNCHANGED lock
     \/ ~Parses(toml) /\ Return(p)

\* BeginEnvironmentOperation, or one of its errors.
Lease(p, from, to) ==
  /\ pc[p] = from
  /\ \/ /\ lock = None /\ lock' = p
        /\ pc' = [pc EXCEPT ![p] = to] /\ UNCHANGED config
     \/ lock # None /\ Return(p)
  /\ UNCHANGED <<files, temps, live, faults, edits, ghosts>>

-----------------------------------------------------------------------------
(* start.                                                                  *)

\* The first ensureEnvWritable: with a .env of the student start ends here.
StartLoad(p) ==
  /\ dotenv # User
  /\ Load(p, "idle", "s_lease")
  /\ UNCHANGED <<files, temps, live, faults, edits, ghosts>>

StartLease(p) == Lease(p, "s_lease", "s_kube")

\* ensureTripgoWritable, then everything that Start does in Kubernetes.
StartKube(p) ==
  /\ pc[p] = "s_kube"
  /\ \/ /\ tripgo # "user" /\ rendered # User
        /\ live' = live \cup {config[p].lab}
        /\ Goto(p, "w_dir") /\ UNCHANGED faults
     \/ (tripgo = "user" \/ rendered = User) /\ Return(p) /\ UNCHANGED <<live, faults>>
     \/ /\ tripgo # "user" /\ rendered # User
        /\ Fault /\ Return(p) /\ live' \in {live, live \cup {config[p].lab}}
  /\ UNCHANGED <<files, temps, edits, ghosts>>

-----------------------------------------------------------------------------
(* generator.Write.                                                        *)

\* ensureOutputDirectory and MkdirTemp; nothing is deferred before.
WriteDir(p) ==
  /\ pc[p] = "w_dir"
  /\ \/ /\ tripgo # "user" /\ tripgo' = "dir"
        /\ stage' = [stage EXCEPT ![p] = [of |-> config[p], whole |-> FALSE]]
        /\ had' = [had EXCEPT ![p] = rendered] /\ hurt' = [hurt EXCEPT ![p] = 0]
        /\ Goto(p, "w_files") /\ UNCHANGED faults
     \/ /\ tripgo = "user" /\ Return(p) /\ UNCHANGED <<tripgo, stage, had, hurt, faults>>
     \/ /\ tripgo # "user" /\ tripgo' \in {tripgo, "dir"}
        /\ Fault /\ Return(p) /\ UNCHANGED <<stage, had, hurt>>
  /\ UNCHANGED <<toml, dotenv, rendered, sibling, legacy, litter, prev, live, edits, torn,
                 raced, tampered>>

\* Mutant: the loop leaves a file out.
FilesShort(p) == stage

Files(p) == [stage EXCEPT ![p].whole = TRUE]

\* WriteFile of every manifest.
WriteFiles(p) ==
  /\ pc[p] = "w_files"
  /\ \/ stage' = Files(p) /\ Goto(p, "w_move") /\ UNCHANGED <<faults, hurt>>
     \/ WriteFails(p) /\ UNCHANGED stage
  /\ UNCHANGED <<files, prev, live, edits, had, torn, raced, tampered>>

\* Mutant: the previous output is removed to make room for the new one.
WriteMoveRemoves(p) ==
  /\ pc[p] = "w_move" /\ rendered # User
  /\ rendered' = None /\ Goto(p, "w_install")
  /\ UNCHANGED <<toml, dotenv, tripgo, sibling, legacy, litter, temps, live, faults, edits,
                 ghosts>>

\* The backup name, a directory made and removed again (left when that fails),
\* Lstat and the first rename.
WriteMove(p) ==
  /\ pc[p] = "w_move"
  /\ \/ /\ rendered # User
        /\ prev' = [prev EXCEPT ![p] = rendered] /\ rendered' = None
        /\ Goto(p, "w_install") /\ UNCHANGED <<litter, faults, hurt>>
     \/ /\ rendered = User /\ Goto(p, "w_failed")
        /\ UNCHANGED <<rendered, litter, prev, faults, hurt>>
     \/ WriteFails(p) /\ litter' \in {litter, litter \cup {"temp"}}
        /\ UNCHANGED <<rendered, prev>>
  /\ UNCHANGED <<toml, dotenv, tripgo, sibling, legacy, stage, live, edits, had, torn, raced,
                 tampered>>

\* Mutant: the previous output is not put back.
RestoreNever(p) == UNCHANGED <<rendered, prev>>

\* The rename back, when there was something to put back and nothing is in its
\* place.
Restore(p) ==
  /\ rendered' = IF rendered = None THEN prev[p] ELSE rendered
  /\ prev' = IF rendered = None THEN [prev EXCEPT ![p] = None] ELSE prev

\* The second rename; when it fails the first is undone, which may fail too.
WriteInstall(p) ==
  /\ pc[p] = "w_install"
  /\ \/ /\ rendered = None
        /\ rendered' = stage[p] /\ stage' = [stage EXCEPT ![p] = None]
        /\ Goto(p, "w_drop") /\ UNCHANGED <<prev, faults, hurt>>
     \/ /\ rendered # None /\ Goto(p, "w_failed")
        /\ UNCHANGED <<rendered, stage, prev, faults, hurt>>
     \/ WriteFails(p) /\ Restore(p) /\ UNCHANGED stage
     \/ /\ faults + 1 < MaxFaults /\ faults' = faults + 2
        /\ hurt' = [hurt EXCEPT ![p] = @ + 2]
        /\ Goto(p, "w_failed") /\ UNCHANGED <<rendered, stage, prev>>
  /\ UNCHANGED <<toml, dotenv, tripgo, sibling, legacy, litter, live, edits, had, torn, raced,
                 tampered>>

\* RemoveAll of the backup.
WriteDrop(p) ==
  /\ pc[p] = "w_drop"
  /\ \/ /\ prev' = [prev EXCEPT ![p] = None]
        /\ Goto(p, "w_lock") /\ UNCHANGED <<faults, hurt>>
     \/ prev[p] # None /\ WriteFails(p) /\ UNCHANGED prev
  /\ UNCHANGED <<files, stage, live, edits, had, torn, raced, tampered>>

\* removeLegacyLock: only with the marker.
WriteLock(p) ==
  /\ pc[p] = "w_lock"
  /\ \/ /\ legacy' = IF legacy = "ours" THEN "none" ELSE legacy
        /\ Goto(p, "w_done") /\ UNCHANGED <<faults, hurt>>
     \/ WriteFails(p) /\ UNCHANGED legacy
  /\ UNCHANGED <<toml, dotenv, tripgo, rendered, sibling, litter, temps, live, edits, had,
                 torn, raced, tampered>>

\* The deferred RemoveAll of backup and temporary directory; errors are ignored.
WriteReturn(p) ==
  /\ pc[p] \in {"w_done", "w_failed"}
  /\ \/ UNCHANGED <<litter, faults>>
     \/ (stage[p] # None \/ prev[p] # None) /\ Fault /\ litter' = litter \cup {"temp"}
  /\ stage' = [stage EXCEPT ![p] = None] /\ prev' = [prev EXCEPT ![p] = None]
  /\ had' = [had EXCEPT ![p] = None] /\ hurt' = [hurt EXCEPT ![p] = 0]
  /\ \/ pc[p] = "w_done" /\ Goto(p, "e_check")
     \/ pc[p] = "w_failed" /\ Return(p)
  /\ UNCHANGED <<toml, dotenv, tripgo, rendered, sibling, legacy, live, edits, torn, raced,
                 tampered>>

-----------------------------------------------------------------------------
(* writeEnv and the end of start.                                          *)

\* Mutant: the marker is not checked again.
EnvCheckSkipped(p) ==
  /\ pc[p] = "e_check" /\ Goto(p, "e_install")
  /\ UNCHANGED <<files, temps, live, faults, edits, ghosts>>

\* ensureEnvWritable, then the temporary file.
EnvCheck(p) ==
  /\ pc[p] = "e_check"
  /\ \/ dotenv # User /\ Goto(p, "e_install") /\ UNCHANGED faults
     \/ dotenv = User /\ Return(p) /\ UNCHANGED faults
     \/ Fault /\ Return(p)
  /\ UNCHANGED <<files, temps, live, edits, ghosts>>

\* Mutant: environment.toml is read again for .env.
EnvContentReread(p) == IF Parses(toml) THEN Config(toml) ELSE config[p]

EnvContent(p) == config[p]

\* The rename; the sync of the directory may fail after it.
EnvInstall(p) ==
  /\ pc[p] = "e_install"
  /\ \/ dotenv' = EnvContent(p) /\ Goto(p, "s_status") /\ UNCHANGED faults
     \/ Fault /\ Return(p) /\ dotenv' \in {dotenv, EnvContent(p)}
  /\ UNCHANGED <<toml, tripgo, rendered, sibling, legacy, litter, temps, live, edits, ghosts>>

\* statusWith reads, and start returns its answer or its error.
StartStatus(p) ==
  /\ pc[p] = "s_status" /\ Return(p)
  /\ UNCHANGED <<files, temps, live, faults, edits, ghosts>>

-----------------------------------------------------------------------------
(* reset.                                                                  *)

ResetShow(p) ==
  /\ Load(p, "idle", "r_prompt")
  /\ UNCHANGED <<files, temps, live, faults, edits, ghosts>>

\* The answer; Reset loads environment.toml again.
ResetAnswer(p) ==
  /\ \/ Load(p, "r_prompt", "r_lease")
     \/ pc[p] = "r_prompt" /\ Return(p)
  /\ UNCHANGED <<files, temps, live, faults, edits, ghosts>>

ResetLease(p) == Lease(p, "r_lease", "r_kube")

ResetKube(p) ==
  /\ pc[p] = "r_kube"
  /\ \/ live' = live \ {config[p].lab} /\ Goto(p, "r_env") /\ UNCHANGED faults
     \/ Fault /\ Return(p) /\ live' \in {live, live \ {config[p].lab}}
  /\ UNCHANGED <<files, temps, edits, ghosts>>

\* removeGenerated of .env: is it a regular file with the marker?
ResetEnv(p) ==
  /\ pc[p] = "r_env"
  /\ \/ dotenv \in {None, User} /\ Goto(p, "r_rend") /\ UNCHANGED faults
     \/ dotenv \notin {None, User} /\ Goto(p, "r_unlink") /\ UNCHANGED faults
     \/ Fault /\ Return(p)
  /\ UNCHANGED <<files, temps, live, edits, ghosts>>

\* Then Remove, by name.
ResetUnlink(p) ==
  /\ pc[p] = "r_unlink"
  /\ \/ dotenv' = None /\ Goto(p, "r_rend") /\ UNCHANGED faults
     \/ Fault /\ Return(p) /\ UNCHANGED dotenv
  /\ UNCHANGED <<toml, tripgo, rendered, sibling, legacy, litter, temps, live, edits, ghosts>>

\* removeGenerated of .tripgo: RemoveAll of rendered begins ...
ResetRendered(p) ==
  /\ pc[p] = "r_rend"
  /\ \/ tripgo # "dir" /\ Return(p) /\ UNCHANGED <<rendered, faults>>
     \/ /\ tripgo = "dir" /\ rendered \in {None, User}
        /\ Goto(p, "r_dir") /\ UNCHANGED <<rendered, faults>>
     \/ /\ tripgo = "dir" /\ rendered \notin {None, User}
        /\ rendered' = [rendered EXCEPT !.whole = FALSE]
        /\ Goto(p, "r_remove") /\ UNCHANGED faults
     \/ Fault /\ Return(p) /\ UNCHANGED rendered
  /\ UNCHANGED <<toml, dotenv, tripgo, sibling, legacy, litter, temps, live, edits, ghosts>>

\* ... and ends, or fails in between.
ResetRemove(p) ==
  /\ pc[p] = "r_remove"
  /\ \/ rendered' = None /\ Goto(p, "r_dir") /\ UNCHANGED <<faults, torn>>
     \/ Fault /\ Return(p) /\ torn' = TRUE /\ UNCHANGED rendered
  /\ UNCHANGED <<toml, dotenv, tripgo, sibling, legacy, litter, temps, live, edits, had, hurt,
                 raced, tampered>>

\* ReadDir found nothing.
Removable == ~sibling /\ litter \subseteq {"env"} /\ legacy # "user" /\ rendered = None

\* The legacy lock, then the directory itself when nothing is left in it.
ResetDir(p) ==
  /\ pc[p] = "r_dir"
  /\ \/ /\ legacy' = IF legacy = "ours" THEN "none" ELSE legacy
        /\ tripgo' = IF Removable THEN "absent" ELSE tripgo
        /\ UNCHANGED faults
     \/ Fault /\ UNCHANGED tripgo /\ legacy' \in {legacy, IF legacy = "ours" THEN "none" ELSE legacy}
  /\ Return(p)
  /\ UNCHANGED <<toml, dotenv, rendered, sibling, litter, temps, live, edits, ghosts>>

-----------------------------------------------------------------------------
(* The student, and SIGKILL.                                               *)

Edit == edits < MaxEdits /\ edits' = edits + 1

EditToml ==
  /\ Edit /\ toml' \in Documents \ {toml}
  /\ UNCHANGED <<dotenv, tripgo, rendered, sibling, legacy, litter, temps, live, lock, pc, config,
                 faults, ghosts>>

PutEnv ==
  /\ Edit /\ dotenv # User /\ dotenv' = User
  /\ raced' = (\E p \in Proc : pc[p] \in {"e_install", "r_unlink"}) /\ tampered' = TRUE
  /\ UNCHANGED <<toml, tripgo, rendered, sibling, legacy, litter, temps, live, lock, pc, config,
                 faults, had, hurt, torn>>

PutSibling ==
  /\ Edit /\ tripgo = "dir" /\ ~sibling /\ sibling' = TRUE
  /\ UNCHANGED <<toml, dotenv, tripgo, rendered, legacy, litter, temps, live, lock, pc, config,
                 faults, ghosts>>

\* A file where a directory of tripgoctl belongs.
PutFile ==
  /\ Edit /\ tampered' = TRUE
  /\ \/ tripgo = "absent" /\ tripgo' = "user" /\ UNCHANGED rendered
     \/ tripgo = "dir" /\ rendered = None /\ rendered' = User /\ UNCHANGED tripgo
  /\ UNCHANGED <<toml, dotenv, sibling, legacy, litter, temps, live, lock, pc, config, faults, had,
                 hurt, torn, raced>>

\* What a killed process has made and not yet renamed stays behind.
Crash(p) ==
  /\ pc[p] # "idle" /\ Fault /\ Return(p)
  /\ \E env \in {{}, IF pc[p] = "e_install" THEN {"env"} ELSE {}} :
       litter' = litter \cup env \cup (IF stage[p] # None THEN {"temp"} ELSE {})
                        \cup (IF prev[p] # None THEN {"backup"} ELSE {})
  /\ stage' = [stage EXCEPT ![p] = None] /\ prev' = [prev EXCEPT ![p] = None]
  /\ had' = [had EXCEPT ![p] = None] /\ hurt' = [hurt EXCEPT ![p] = 0]
  /\ torn' = (torn \/ pc[p] = "r_remove")
  /\ UNCHANGED <<toml, dotenv, tripgo, rendered, sibling, legacy, live, edits, raced, tampered>>

Start(p) ==
  \/ StartLoad(p) \/ StartLease(p) \/ StartKube(p)
  \/ WriteDir(p) \/ WriteFiles(p) \/ WriteMove(p) \/ WriteInstall(p) \/ WriteDrop(p)
  \/ WriteLock(p) \/ WriteReturn(p)
  \/ EnvCheck(p) \/ EnvInstall(p) \/ StartStatus(p)

Reset(p) ==
  \/ ResetShow(p) \/ ResetAnswer(p) \/ ResetLease(p) \/ ResetKube(p) \/ ResetEnv(p)
  \/ ResetUnlink(p) \/ ResetRendered(p) \/ ResetRemove(p) \/ ResetDir(p)

Next ==
  \/ \E p \in Proc : Start(p) \/ Reset(p) \/ Crash(p)
  \/ EditToml \/ PutEnv \/ PutSibling \/ PutFile

Spec == Init /\ [][Next]_vars

-----------------------------------------------------------------------------
(* Properties.                                                             *)

\* What is in .tripgo/rendered is a whole bundle at every moment of every start,
\* whatever fails; only a removal that was interrupted leaves a part of one.
RenderedIsWhole ==
  rendered \notin {None, User} /\ ~rendered.whole =>
    torn \/ \E p \in Proc : pc[p] = "r_remove"

\* .env and the manifests come from the same reading of environment.toml, and
\* name an environment that exists, even when environment.toml is moved to
\* another lab while a start waits, before a reset or between two commands.
OutputsAgree ==
  lock = None /\ faults = 0 /\ ~tampered =>
    \/ rendered = None /\ dotenv = None
    \/ rendered # None /\ dotenv = rendered.of /\ dotenv.lab \in live

\* A Write in which one call fails leaves the previous output or the new one.
FailedWriteKeepsOutput ==
  [][ \A p \in Proc :
        pc[p] = "w_failed" /\ pc'[p] = "idle" /\ hurt[p] = 1 /\ had[p] # None
        /\ ~tampered =>
          rendered' \in {had[p], [of |-> config[p], whole |-> TRUE]}
    ]_vars

\* The directory holds a rendered output, if only under the name of a backup.
HasOutput ==
  \/ rendered \notin {None, User}
  \/ "backup" \in litter
  \/ \E p \in Proc : prev[p] # None

\* Once there is an output, start never loses the last one: wherever it fails or
\* is killed, the new output, the old one or a backup is there.  Only reset
\* removes it, and a Write whose second rename fails in a way that it cannot be
\* undone: that rename and the one back both fail, or a file of the student is
\* in the way.
OutputSurvives ==
  [][ HasOutput /\ ~HasOutput' =>
        rendered = User \/ \E p \in Proc : pc[p] = "r_remove" \/ hurt[p] > 1
    ]_vars

\* What the student made survives every command: a .env without the marker,
\* unless it appears in one of the two windows between a look at the marker and
\* the rename over .env (start) or its removal (reset), a file where a directory
\* of tripgoctl belongs, and a .tripgo that holds other entries.
StudentFilesAreKept ==
  [][ /\ dotenv = User /\ dotenv' # User => raced
      /\ rendered = User => rendered' = User
      /\ tripgo = "user" => tripgo' = "user"
      /\ sibling' \/ legacy' = "user" => tripgo' = "dir"
    ]_vars

\* A document that is accepted stays acceptable when the student moves on to a
\* later lab (comment of IsBuiltInEnvName).
ValidMovesLater ==
  Parses(toml) =>
    \A lab \in toml.lab..5 :
      Parses([toml EXCEPT !.lab = lab, !.components = Components(lab)])

=============================================================================
