---------------------- MODULE WorkingDirectoryProofs ----------------------
(***************************************************************************)
(* The safety properties of WorkingDirectory for any documents, any number *)
(* of processes, edits and faults.                                         *)
(*                                                                         *)
(* Only the holder of the lease writes, so what is known of the files is   *)
(* known of the place where the holder is (Holds), or holds while nobody   *)
(* has the lease (FreeInv).                                                *)
(***************************************************************************)
EXTENDS WorkingDirectory, TLAPS

-----------------------------------------------------------------------------
(* The inductive invariant.                                                *)

WriteLabels == {"w_files", "w_move", "w_install", "w_drop", "w_lock", "w_done", "w_failed"}

Leased == WriteLabels \cup {"s_kube", "w_dir", "e_check", "e_install", "s_status", "r_kube",
                            "r_env", "r_unlink", "r_rend", "r_remove", "r_dir"}

Label == Leased \cup {"idle", "s_lease", "r_prompt", "r_lease"}

ProcTypes ==
  /\ lock \in Proc \cup {None}
  /\ pc \in [Proc -> Label]
  /\ config \in [Proc -> Configs \cup {None}]

\* The lease is held by the process between its Begin and its Close, and a
\* command works with a Config that was accepted.
ProcInv ==
  /\ ProcTypes
  /\ \A p \in Proc : pc[p] \in Leased <=> lock = p
  /\ \A p \in Proc : pc[p] # "idle" => config[p] \in Configs

FileTypes ==
  /\ toml \in Documents
  /\ dotenv \in Configs \cup {None, User}
  /\ tripgo \in {"absent", "dir", "user"}
  /\ rendered \in Output \cup {None, User}
  /\ sibling \in BOOLEAN
  /\ legacy \in {"none", "ours", "user"}
  /\ litter \subseteq {"temp", "backup", "env"}
  /\ stage \in [Proc -> Output \cup {None}]
  /\ prev \in [Proc -> Output \cup {None}]
  /\ had \in [Proc -> Output \cup {None, User}]
  /\ hurt \in [Proc -> Nat]
  /\ faults \in Nat
  /\ torn \in BOOLEAN /\ raced \in BOOLEAN /\ tampered \in BOOLEAN

\* What is in .tripgo makes it a directory, and an untouched directory holds
\* only what tripgoctl made.
DirInv ==
  /\ rendered # None \/ sibling \/ legacy = "user" => tripgo = "dir"
  /\ ~tampered => dotenv # User /\ rendered # User /\ tripgo # "user"

New(p) == [of |-> config[p], whole |-> TRUE]

Whole(out) == out \in {None, User} \/ out.whole

Agree ==
  \/ rendered = None /\ dotenv = None
  \/ rendered # None /\ dotenv = rendered.of /\ dotenv.lab \in live

\* The outputs while no command holds the lease.
FreeInv ==
  lock = None =>
    /\ Whole(rendered) \/ torn
    /\ faults = 0 /\ ~tampered => Agree

\* The temporary directories of a process, and what it relies on in .tripgo.
TempOf(p) ==
  /\ pc[p] \notin {"w_files", "w_move", "w_install", "w_failed"} => stage[p] = None
  /\ pc[p] = "w_files" => stage[p] # None /\ stage[p].of = config[p]
  /\ pc[p] \in {"w_move", "w_install"} => stage[p] = New(p)
  /\ pc[p] \notin {"w_install", "w_drop", "w_failed"} => prev[p] = None
  /\ Whole(prev[p]) \/ torn
  /\ pc[p] \in {"w_files", "w_move", "w_install", "r_remove", "r_dir"} => tripgo = "dir"
  /\ pc[p] = "r_remove" => rendered \in Output
  /\ pc[p] \in Leased \ {"r_remove"} => Whole(rendered) \/ torn
  /\ pc[p] \in {"e_install", "r_unlink"} /\ dotenv = User => raced
  /\ pc[p] = "w_drop" => rendered \in Output
  /\ pc[p] = "w_failed" /\ prev[p] # None /\ rendered = None => hurt[p] > 1

\* Where the output of a Write that began with had[p] is now.
WriteOf(p) ==
  /\ pc[p] \in WriteLabels \ {"w_failed"} => hurt[p] = 0
  /\ pc[p] \in {"w_files", "w_move"} => rendered = had[p]
  /\ pc[p] = "w_install" => rendered = None /\ prev[p] = had[p]
  /\ pc[p] \in {"w_drop", "w_lock", "w_done"} => rendered = New(p)
  /\ pc[p] = "w_failed" /\ hurt[p] = 1 /\ had[p] # None => rendered \in {had[p], New(p)}

\* How far the outputs agree while a command is under way and nothing fails.
AgreeOf(p) ==
  /\ pc[p] \in {"s_kube", "w_dir", "w_files", "w_move", "s_status", "r_kube"} => Agree
  /\ pc[p] \in {"w_dir", "w_files", "w_move", "w_install", "w_drop", "w_lock", "w_done",
                "e_check", "e_install"} => config[p].lab \in live
  /\ pc[p] \in {"w_drop", "w_lock", "w_done", "e_check", "e_install"} => rendered = New(p)
  /\ pc[p] # "w_failed"
  /\ pc[p] \in {"r_rend", "r_remove", "r_dir"} => dotenv = None
  /\ pc[p] = "r_dir" => rendered = None

\* What is known of a process, from where it is.
Holds(p) ==
  /\ TempOf(p)
  /\ ~tampered => WriteOf(p)
  /\ faults = 0 /\ ~tampered => AgreeOf(p)

Inv == ProcInv /\ FileTypes /\ DirInv /\ FreeInv /\ \A p \in Proc : Holds(p)

-----------------------------------------------------------------------------
(* Facts that the steps share.                                             *)

\* The markers are no configurations and no outputs.
LEMMA Values ==
  /\ None # User /\ None \notin Proc
  /\ None \notin Configs /\ User \notin Configs
  /\ None \notin Output /\ User \notin Output
BY DirectoryAssumption

\* Outputs, and the one a process is making.
LEMMA OutputFacts ==
  ASSUME NEW o \in Output, NEW b \in BOOLEAN
  PROVE  /\ o.of \in Configs /\ o.whole \in BOOLEAN
         /\ [o EXCEPT !.whole = b] = [of |-> o.of, whole |-> b]
         /\ [o EXCEPT !.whole = b] \in Output
BY DEF Output

LEMMA NewFacts ==
  ASSUME NEW p \in Proc, config[p] \in Configs
  PROVE  /\ New(p) \in Output /\ New(p).of = config[p] /\ New(p).whole
         /\ Whole(New(p)) /\ New(p) # None /\ New(p) # User
<1>1. New(p) \in Output /\ New(p).of = config[p] /\ New(p).whole
  BY DEF New, Output
<1> QED
  BY <1>1, Values DEF Whole

LEMMA LabelFacts ==
  /\ Leased \subseteq Label /\ WriteLabels \subseteq Leased
  /\ {"idle", "s_lease", "r_prompt", "r_lease"} \cap Leased = {}
BY DEF Label, Leased, WriteLabels

\* The lease of a process that is not the one at a leased label.
LEMMA Holder ==
  ASSUME ProcInv, NEW p \in Proc, pc[p] \in Leased
  PROVE  lock = p /\ config[p] \in Configs /\ \A q \in Proc \ {p} : pc[q] \notin Leased
<1>1. lock = p
  BY DEF ProcInv
<1>2. pc[p] # "idle"
  BY LabelFacts
<1> QED
  BY <1>1, <1>2 DEF ProcInv

\* A command goes on at a place of the same kind.
LEMMA GotoOK ==
  ASSUME ProcInv, NEW p \in Proc, NEW l \in Label, Goto(p, l),
         pc[p] \in Leased, l \in Leased
  PROVE  /\ ProcInv' /\ pc'[p] = l /\ lock' = lock /\ config' = config
         /\ \A q \in Proc \ {p} : pc'[q] = pc[q]
<1>1. /\ pc'[p] = l /\ lock' = lock /\ config' = config
      /\ \A q \in Proc \ {p} : pc'[q] = pc[q]
      /\ pc' \in [Proc -> Label]
  BY DEF Goto, ProcInv, ProcTypes
<1>2. pc[p] # "idle"
  BY LabelFacts
<1> QED
  BY <1>1, <1>2 DEF ProcInv, ProcTypes

\* A command ends.
LEMMA ReturnOK ==
  ASSUME ProcInv, NEW p \in Proc, Return(p)
  PROVE  /\ ProcInv' /\ pc'[p] = "idle"
         /\ \A q \in Proc \ {p} : pc'[q] = pc[q] /\ config'[q] = config[q]
         /\ lock' = (IF lock = p THEN None ELSE lock)
<1>1. /\ pc'[p] = "idle" /\ lock' = (IF lock = p THEN None ELSE lock)
      /\ \A q \in Proc \ {p} : pc'[q] = pc[q] /\ config'[q] = config[q]
      /\ pc' \in [Proc -> Label] /\ config' \in [Proc -> Configs \cup {None}]
  BY LabelFacts DEF Return, ProcInv, ProcTypes, Label
<1>2. lock' \in Proc \cup {None}
  BY <1>1 DEF ProcInv, ProcTypes
<1>3. ASSUME NEW q \in Proc PROVE pc'[q] \in Leased <=> lock' = q
  <2>1. CASE q = p
    BY <1>1, <2>1, LabelFacts, Values
  <2>2. CASE q # p
    <3>1. pc'[q] = pc[q] /\ (pc[q] \in Leased <=> lock = q)
      BY <1>1, <2>2 DEF ProcInv
    <3> QED
      BY <1>1, <2>2, <3>1, Values
  <2> QED
    BY <2>1, <2>2
<1>4. ASSUME NEW q \in Proc, pc'[q] # "idle" PROVE config'[q] \in Configs
  <2>1. q # p
    BY <1>1, <1>4
  <2> QED
    BY <1>1, <1>4, <2>1 DEF ProcInv
<1> QED
  BY <1>1, <1>2, <1>3, <1>4 DEF ProcInv, ProcTypes

\* environment.toml is read: the command goes on without a lease, or ends.
LEMMA LoadOK ==
  ASSUME ProcInv, toml \in Documents, NEW p \in Proc, NEW from \in Label \ Leased,
         NEW to \in Label \ Leased, Load(p, from, to)
  PROVE  /\ ProcInv' /\ lock' = lock /\ pc'[p] \in {to, "idle"}
         /\ \A q \in Proc \ {p} : pc'[q] = pc[q] /\ config'[q] = config[q]
<1>0. lock # p
  BY DEF Load, ProcInv
<1>1. CASE Return(p)
  BY <1>0, <1>1, ReturnOK
<1>2. CASE /\ Parses(toml)
           /\ pc' = [pc EXCEPT ![p] = to] /\ config' = [config EXCEPT ![p] = Config(toml)]
           /\ UNCHANGED lock
  <2>1. Config(toml) \in Configs
    BY <1>2 DEF Configs
  <2>2. /\ pc'[p] = to /\ config'[p] = Config(toml) /\ lock' = lock
        /\ \A q \in Proc \ {p} : pc'[q] = pc[q] /\ config'[q] = config[q]
        /\ pc' \in [Proc -> Label] /\ config' \in [Proc -> Configs \cup {None}]
    BY <1>2, <2>1 DEF ProcInv, ProcTypes
  <2> QED
    BY <1>0, <2>1, <2>2 DEF ProcInv, ProcTypes
<1> QED
  BY <1>1, <1>2 DEF Load

\* A process without the lease has no temporary directory and nothing to keep.
LEMMA WithoutLease ==
  ASSUME Inv, NEW p \in Proc, pc[p] \notin Leased
  PROVE  stage[p] = None /\ prev[p] = None
BY DEF Inv, Holds, TempOf, Leased, WriteLabels

\* Nothing is asked of a process without the lease and without temporaries.
LEMMA NothingToKeep ==
  ASSUME NEW p \in Proc, pc'[p] \notin Leased, stage'[p] = None, prev'[p] = None
  PROVE  Holds(p)'
<1>1. pc'[p] \notin WriteLabels /\ pc'[p] \notin {"s_kube", "w_dir", "e_check", "e_install",
        "s_status", "r_kube", "r_env", "r_unlink", "r_rend", "r_remove", "r_dir"}
  BY DEF Leased
<1>2. TempOf(p)'
  BY <1>1 DEF TempOf, Whole, WriteLabels
<1>3. WriteOf(p)'
  BY <1>1 DEF WriteOf, WriteLabels
<1>4. AgreeOf(p)'
  BY <1>1 DEF AgreeOf, WriteLabels
<1> QED
  BY <1>2, <1>3, <1>4 DEF Holds

\* A step of the holder leaves the other processes nothing to keep.
LEMMA HolderSuffices ==
  ASSUME Inv, NEW p \in Proc, pc[p] \in Leased,
         \A q \in Proc \ {p} : pc'[q] = pc[q] /\ stage'[q] = stage[q] /\ prev'[q] = prev[q]
  PROVE  \A q \in Proc \ {p} : Holds(q)'
<1> SUFFICES ASSUME NEW q \in Proc \ {p} PROVE Holds(q)'
  OBVIOUS
<1>1. pc[q] \notin Leased
  BY Holder DEF Inv
<1> QED
  BY <1>1, WithoutLease, NothingToKeep

\* The holder goes on.
LEMMA GoesOn ==
  ASSUME Inv, NEW p \in Proc, NEW l \in Leased, pc[p] \in Leased, Goto(p, l),
         \A q \in Proc \ {p} : stage'[q] = stage[q] /\ prev'[q] = prev[q],
         FileTypes', DirInv', Holds(p)'
  PROVE  Inv'
<1>1. /\ ProcInv' /\ lock' = lock
      /\ \A q \in Proc \ {p} : pc'[q] = pc[q]
  BY GotoOK, LabelFacts DEF Inv
<1>2. \A q \in Proc : Holds(q)'
  BY <1>1, HolderSuffices
<1>3. FreeInv'
  BY <1>1, Holder, Values DEF Inv, FreeInv
<1> QED
  BY <1>1, <1>2, <1>3 DEF Inv

\* The holder ends, with its temporary directories removed.
LEMMA Ends ==
  ASSUME Inv, NEW p \in Proc, pc[p] \in Leased, Return(p),
         \A q \in Proc \ {p} : stage'[q] = stage[q] /\ prev'[q] = prev[q],
         stage'[p] = None, prev'[p] = None,
         FileTypes', DirInv', Whole(rendered') \/ torn',
         faults' = 0 /\ ~tampered' => Agree'
  PROVE  Inv'
<1>1. /\ ProcInv' /\ pc'[p] = "idle"
      /\ \A q \in Proc \ {p} : pc'[q] = pc[q]
  BY ReturnOK DEF Inv
<1>2. \A q \in Proc : Holds(q)'
  BY <1>1, HolderSuffices, NothingToKeep, LabelFacts
<1>3. FreeInv'
  BY DEF FreeInv, Whole
<1> QED
  BY <1>1, <1>2, <1>3 DEF Inv

\* A process without the lease moves, and no file changes.
LEMMA WithoutFiles ==
  ASSUME Inv, NEW p \in Proc, pc[p] \notin Leased, pc'[p] \notin Leased, lock' = lock,
         \A q \in Proc \ {p} : pc'[q] = pc[q] /\ config'[q] = config[q], ProcInv',
         UNCHANGED <<files, temps, live, faults, edits, ghosts>>
  PROVE  Inv'
<1>1. stage[p] = None /\ prev[p] = None
  BY WithoutLease
<1>2. Holds(p)'
  BY <1>1, NothingToKeep DEF temps
<1>3. ASSUME NEW q \in Proc \ {p} PROVE Holds(q)'
  <2>1. Holds(q)
    BY DEF Inv
  <2>2. pc'[q] = pc[q] /\ New(q)' = New(q) /\ config'[q] = config[q] /\ Agree' = Agree
    BY DEF New, Agree, files
  <2>3. TempOf(q) => TempOf(q)'
    BY <2>2 DEF TempOf, Whole, files, temps, ghosts
  <2>4. WriteOf(q) => WriteOf(q)'
    BY <2>2 DEF WriteOf, files, temps, ghosts
  <2>5. AgreeOf(q) => AgreeOf(q)'
    BY <2>2 DEF AgreeOf, files
  <2> QED
    BY <2>1, <2>3, <2>4, <2>5 DEF Holds, ghosts
<1>4. FileTypes' /\ DirInv' /\ FreeInv'
  BY DEF Inv, FileTypes, DirInv, FreeInv, Whole, Agree, files, temps, ghosts
<1> QED
  BY <1>2, <1>3, <1>4 DEF Inv

-----------------------------------------------------------------------------
(* The initial states, and steps that change no file.                      *)

LEMMA InitInv == Init => Inv
<1> SUFFICES ASSUME Init PROVE Inv
  OBVIOUS
<1>1. ProcInv
  BY Values, LabelFacts DEF Init, ProcInv, ProcTypes, Label
<1>2. FileTypes
  BY DEF Init, FileTypes
<1>3. DirInv
  BY Values DEF Init, DirInv
<1>4. FreeInv
  BY DEF Init, FreeInv, Whole, Agree
<1>5. ASSUME NEW p \in Proc PROVE Holds(p)
  <2>1. pc[p] = "idle" /\ stage[p] = None /\ prev[p] = None
    BY DEF Init
  <2> QED
    BY <2>1, Values DEF Holds, TempOf, WriteOf, AgreeOf, Whole, Leased, WriteLabels
<1> QED
  BY <1>1, <1>2, <1>3, <1>4, <1>5 DEF Inv

\* StartLoad, ResetShow and ResetAnswer.
LEMMA LoadStep ==
  ASSUME Inv, NEW p \in Proc, NEW from \in Label \ Leased, NEW to \in Label \ Leased,
         Load(p, from, to), UNCHANGED <<files, temps, live, faults, edits, ghosts>>
  PROVE  Inv'
<1>1. pc[p] \notin Leased
  BY DEF Load
<1>2. /\ ProcInv' /\ lock' = lock /\ pc'[p] \in {to, "idle"}
      /\ \A q \in Proc \ {p} : pc'[q] = pc[q] /\ config'[q] = config[q]
  BY LoadOK DEF Inv, FileTypes
<1>3. pc'[p] \notin Leased
  BY <1>2, LabelFacts
<1> QED
  BY <1>1, <1>2, <1>3, WithoutFiles

\* A command that holds no lease ends.
LEMMA ReturnStep ==
  ASSUME Inv, NEW p \in Proc, pc[p] \notin Leased, Return(p),
         UNCHANGED <<files, temps, live, faults, edits, ghosts>>
  PROVE  Inv'
<1>1. lock # p
  BY DEF Inv, ProcInv
<1>2. /\ ProcInv' /\ pc'[p] = "idle" /\ lock' = lock
      /\ \A q \in Proc \ {p} : pc'[q] = pc[q] /\ config'[q] = config[q]
  BY <1>1, ReturnOK DEF Inv
<1> QED
  BY <1>2, LabelFacts, WithoutFiles

\* StartLease and ResetLease: the outputs are as the last holder left them.
LEMMA LeaseStep ==
  ASSUME Inv, NEW p \in Proc, NEW from \in Label \ Leased, NEW to \in {"s_kube", "r_kube"},
         from # "idle", Lease(p, from, to)
  PROVE  Inv'
<1>1. pc[p] = from /\ UNCHANGED <<files, temps, live, faults, edits, ghosts>>
  BY DEF Lease
<1>2. CASE lock # None /\ Return(p)
  BY <1>1, <1>2, ReturnStep
<1>3. CASE /\ lock = None /\ lock' = p
           /\ pc' = [pc EXCEPT ![p] = to] /\ UNCHANGED config
  <2>0. to \in Leased
    BY DEF Leased
  <2>1. /\ pc'[p] = to /\ pc' \in [Proc -> Label] /\ config' = config
        /\ \A q \in Proc \ {p} : pc'[q] = pc[q]
    BY <1>3, <2>0, LabelFacts DEF Inv, ProcInv, ProcTypes
  <2>2. \A q \in Proc : pc[q] \notin Leased
    BY <1>3, Values DEF Inv, ProcInv
  <2>3. ProcInv'
    BY <1>1, <1>3, <2>0, <2>1, <2>2 DEF Inv, ProcInv, ProcTypes
  <2>4. ASSUME NEW q \in Proc \ {p} PROVE Holds(q)'
    BY <1>1, <2>1, <2>2, WithoutLease, NothingToKeep DEF temps
  <2>5. Holds(p)'
    <3>1. stage'[p] = None /\ prev'[p] = None
      BY <1>1, <2>2, WithoutLease DEF temps
    <3>2. /\ Whole(rendered') \/ torn'
          /\ faults' = 0 /\ ~tampered' => Agree'
      BY <1>1, <1>3 DEF Inv, FreeInv, Whole, Agree, files, ghosts
    <3>3. TempOf(p)'
      BY <2>1, <3>1, <3>2 DEF TempOf, Whole
    <3>4. WriteOf(p)'
      BY <2>1 DEF WriteOf, WriteLabels
    <3>5. faults' = 0 /\ ~tampered' => AgreeOf(p)'
      BY <2>1, <3>2 DEF AgreeOf
    <3> QED
      BY <3>3, <3>4, <3>5 DEF Holds
  <2>6. FileTypes' /\ DirInv'
    BY <1>1 DEF Inv, FileTypes, DirInv, files, temps, ghosts
  <2>7. FreeInv'
    BY <1>3, Values DEF FreeInv
  <2> QED
    BY <2>3, <2>4, <2>5, <2>6, <2>7 DEF Inv
<1> QED
  BY <1>2, <1>3 DEF Lease

\* A failing call is counted.
LEMMA FaultOK ==
  ASSUME FileTypes, Fault
  PROVE  faults' \in Nat /\ faults' > 0 /\ faults' # 0
BY DirectoryAssumption DEF FileTypes, Fault

\* The holder ends where it has no temporary directory, with the files as they are.
LEMMA EndsUnchanged ==
  ASSUME Inv, NEW p \in Proc, pc[p] \in Leased \ (WriteLabels \cup {"r_remove"}), Return(p),
         Fault \/ (UNCHANGED <<faults, live>> /\ (AgreeOf(p) => Agree)),
         UNCHANGED <<files, temps, edits, ghosts>>
  PROVE  Inv'
<1>1. stage[p] = None /\ prev[p] = None /\ (Whole(rendered) \/ torn)
  BY DEF Inv, Holds, TempOf, WriteLabels
<1>2. faults' \in Nat /\ faults' >= faults
  BY DirectoryAssumption DEF Inv, FileTypes, Fault
<1>3. FileTypes'
  BY <1>2 DEF Inv, FileTypes, files, temps, ghosts
<1>4. DirInv'
  BY <1>2 DEF Inv, FileTypes, DirInv, files, ghosts
<1>5. Whole(rendered') \/ torn'
  BY <1>1 DEF Whole, files, ghosts
<1>6. faults' = 0 /\ ~tampered' => Agree'
  <2>1. CASE Fault
    BY <2>1, FaultOK DEF Inv
  <2>2. CASE UNCHANGED <<faults, live>> /\ (AgreeOf(p) => Agree)
    BY <2>2 DEF Inv, Holds, Agree, files, ghosts
  <2> QED
    BY <2>1, <2>2
<1> QED
  BY <1>1, <1>3, <1>4, <1>5, <1>6, Ends DEF temps

-----------------------------------------------------------------------------
(* start.                                                                  *)

\* The steps of a start, one lemma for each call that changes a file.
LEMMA StartKubeStep ==
  ASSUME Inv, NEW p \in Proc, StartKube(p)
  PROVE  Inv'
<1>1. pc[p] = "s_kube" /\ UNCHANGED <<files, temps, edits, ghosts>>
  BY DEF StartKube
<1>2. pc[p] \in Leased \ (WriteLabels \cup {"r_remove"}) /\ "w_dir" \in Leased
  BY <1>1 DEF Leased, WriteLabels
<1>3. AgreeOf(p) => Agree
  BY <1>1 DEF AgreeOf
<1>4. CASE /\ tripgo # "user" /\ rendered # User
           /\ live' = live \cup {config[p].lab}
           /\ Goto(p, "w_dir") /\ UNCHANGED faults
  <2>1. FileTypes' /\ DirInv'
    BY <1>1, <1>4 DEF Inv, FileTypes, DirInv, files, temps, ghosts
  <2>2. pc'[p] = "w_dir" /\ config' = config
    BY <1>2, <1>4, GotoOK, LabelFacts DEF Inv
  <2>3. TempOf(p)'
    BY <1>1, <2>2 DEF Inv, Holds, TempOf, Leased, WriteLabels, Whole, files, temps, ghosts
  <2>4. WriteOf(p)'
    BY <2>2 DEF WriteOf, WriteLabels
  <2>5. faults' = 0 /\ ~tampered' => AgreeOf(p)'
    <3>1. faults' = 0 /\ ~tampered' => Agree'
      BY <1>1, <1>3, <1>4 DEF Inv, Holds, Agree, files, ghosts
    <3> QED
      BY <1>4, <2>2, <3>1 DEF AgreeOf
  <2>6. Holds(p)'
    BY <2>3, <2>4, <2>5 DEF Holds
  <2> QED
    BY <1>1, <1>2, <1>4, <2>1, <2>6, GoesOn DEF temps
<1>5. CASE (tripgo = "user" \/ rendered = User) /\ Return(p) /\ UNCHANGED <<live, faults>>
  BY <1>1, <1>2, <1>3, <1>5, EndsUnchanged
<1>6. CASE Fault /\ Return(p)
  BY <1>1, <1>2, <1>6, EndsUnchanged
<1> QED
  BY <1>4, <1>5, <1>6 DEF StartKube

-----------------------------------------------------------------------------
(* generator.Write.                                                        *)

LEMMA WriteDirStep ==
  ASSUME Inv, NEW p \in Proc, WriteDir(p)
  PROVE  Inv'
<1>1. /\ pc[p] = "w_dir"
      /\ UNCHANGED <<toml, dotenv, rendered, sibling, legacy, litter, prev, live, edits, torn,
                     raced, tampered>>
  BY DEF WriteDir
<1>2. pc[p] \in Leased \ (WriteLabels \cup {"r_remove"}) /\ "w_files" \in Leased
  BY <1>1 DEF Leased, WriteLabels
<1>3. config[p] \in Configs
  BY <1>2, Holder DEF Inv
<1>4. stage[p] = None /\ prev[p] = None /\ (Whole(rendered) \/ torn)
  BY <1>1, <1>2 DEF Inv, Holds, TempOf
<1>5. CASE /\ tripgo # "user" /\ tripgo' = "dir"
           /\ stage' = [stage EXCEPT ![p] = [of |-> config[p], whole |-> FALSE]]
           /\ had' = [had EXCEPT ![p] = rendered] /\ hurt' = [hurt EXCEPT ![p] = 0]
           /\ Goto(p, "w_files") /\ UNCHANGED faults
  <2>1. [of |-> config[p], whole |-> FALSE] \in Output
    BY <1>3 DEF Output
  <2>2. /\ stage'[p] = [of |-> config[p], whole |-> FALSE] /\ had'[p] = rendered /\ hurt'[p] = 0
        /\ \A q \in Proc \ {p} : stage'[q] = stage[q] /\ prev'[q] = prev[q]
        /\ stage' \in [Proc -> Output \cup {None}] /\ had' \in [Proc -> Output \cup {None, User}]
        /\ hurt' \in [Proc -> Nat]
    BY <1>1, <1>5, <2>1 DEF Inv, FileTypes
  <2>3. FileTypes'
    BY <1>1, <1>5, <2>2 DEF Inv, FileTypes
  <2>4. DirInv'
    BY <1>1, <1>5 DEF Inv, DirInv
  <2>5. pc'[p] = "w_files" /\ config' = config
    BY <1>2, <1>5, GotoOK, LabelFacts DEF Inv
  <2>6. TempOf(p)'
    <3>1. stage'[p] # None /\ prev'[p] = None
      BY <1>1, <1>4, <2>1, <2>2, Values
    <3>3. stage'[p].of = config'[p]
      BY <2>2, <2>5
    <3>2. Whole(rendered') \/ torn'
      BY <1>1, <1>4 DEF Whole
    <3> QED
      BY <1>5, <2>5, <3>1, <3>2, <3>3 DEF TempOf, Whole
  <2>7. WriteOf(p)'
    BY <1>1, <2>2, <2>5 DEF WriteOf
  <2>8. faults' = 0 /\ ~tampered' => AgreeOf(p)'
    BY <1>1, <1>5, <2>5 DEF Inv, Holds, AgreeOf, Agree
  <2>9. Holds(p)'
    BY <2>6, <2>7, <2>8 DEF Holds
  <2> QED
    BY <1>2, <1>5, <2>2, <2>3, <2>4, <2>9, GoesOn
<1>6. CASE /\ tripgo' \in {tripgo, "dir"} /\ Return(p) /\ UNCHANGED <<stage, had, hurt>>
           /\ (tripgo # "user" /\ Fault) \/ (UNCHANGED tripgo /\ UNCHANGED faults)
  <2>1. faults' \in Nat /\ faults' >= faults
    BY <1>6, DirectoryAssumption DEF Inv, FileTypes, Fault
  <2>2. FileTypes'
    BY <1>1, <1>6, <2>1 DEF Inv, FileTypes
  <2>3. DirInv'
    BY <1>1, <1>6, <2>1 DEF Inv, FileTypes, DirInv
  <2>4. Whole(rendered') \/ torn'
    BY <1>1, <1>4 DEF Whole
  <2>5. faults' = 0 /\ ~tampered' => Agree'
    <3>1. CASE Fault
      BY <3>1, FaultOK DEF Inv
    <3>2. CASE UNCHANGED faults
      BY <1>1, <3>2 DEF Inv, Holds, AgreeOf, Agree
    <3> QED
      BY <1>6, <3>1, <3>2
  <2> QED
    BY <1>1, <1>2, <1>4, <1>6, <2>2, <2>3, <2>4, <2>5, Ends
<1> QED
  BY <1>5, <1>6 DEF WriteDir

\* A call of Write fails, or finds a file of the student in its way.
LEMMA ToFailed ==
  ASSUME Inv, NEW p \in Proc, pc[p] \in WriteLabels, Goto(p, "w_failed"),
         \A q \in Proc \ {p} : stage'[q] = stage[q] /\ prev'[q] = prev[q],
         FileTypes', DirInv', Whole(prev'[p]) \/ torn', Whole(rendered') \/ torn',
         faults' # 0 \/ tampered',
         prev'[p] # None /\ rendered' = None => hurt'[p] > 1,
         ~tampered' /\ hurt'[p] = 1 /\ had'[p] # None => rendered' \in {had'[p], New(p)}
  PROVE  Inv'
<1>1. pc[p] \in Leased /\ "w_failed" \in Leased
  BY LabelFacts DEF Leased, WriteLabels
<1>2. pc'[p] = "w_failed" /\ config' = config
  BY <1>1, GotoOK, LabelFacts DEF Inv
<1>3. TempOf(p)'
  BY <1>2 DEF TempOf, Whole
<1>4. ~tampered' => WriteOf(p)'
  BY <1>2 DEF WriteOf, New
<1>5. Holds(p)'
  BY <1>3, <1>4 DEF Holds
<1> QED
  BY <1>1, <1>5, GoesOn

LEMMA WriteFailsOK ==
  ASSUME FileTypes, NEW p \in Proc, WriteFails(p)
  PROVE  /\ Goto(p, "w_failed") /\ faults' \in Nat /\ faults' > 0
         /\ hurt' \in [Proc -> Nat] /\ hurt'[p] = hurt[p] + 1
BY DirectoryAssumption DEF FileTypes, WriteFails, Fault

LEMMA WriteFilesStep ==
  ASSUME Inv, NEW p \in Proc, WriteFiles(p)
  PROVE  Inv'
<1>1. /\ pc[p] = "w_files"
      /\ UNCHANGED <<files, prev, live, edits, had, torn, raced, tampered>>
  BY DEF WriteFiles
<1>2. pc[p] \in Leased /\ pc[p] \in WriteLabels /\ "w_move" \in Leased
  BY <1>1 DEF Leased, WriteLabels
<1>3. /\ stage[p] \in Output /\ stage[p].of = config[p] /\ prev[p] = None /\ tripgo = "dir"
      /\ Whole(rendered) \/ torn
  BY <1>1, <1>2 DEF Inv, FileTypes, Holds, TempOf
<1>4. CASE stage' = Files(p) /\ Goto(p, "w_move") /\ UNCHANGED <<faults, hurt>>
  <2>0. [stage[p] EXCEPT !.whole = TRUE] \in Output /\ [stage[p] EXCEPT !.whole = TRUE] = New(p)
    BY <1>3, OutputFacts DEF New
  <2>1. /\ stage' \in [Proc -> Output \cup {None}] /\ stage'[p] = New(p)
        /\ \A q \in Proc \ {p} : stage'[q] = stage[q] /\ prev'[q] = prev[q]
    BY <1>1, <1>4, <2>0 DEF Inv, FileTypes, Files
  <2>2. FileTypes' /\ DirInv'
    BY <1>1, <1>4, <2>1 DEF Inv, FileTypes, DirInv, files
  <2>3. pc'[p] = "w_move" /\ config' = config /\ New(p)' = New(p)
    BY <1>2, <1>4, GotoOK, LabelFacts DEF Inv, New
  <2>4. TempOf(p)'
    BY <1>1, <1>3, <2>1, <2>3 DEF TempOf, Whole, files
  <2>5. ~tampered' => WriteOf(p)'
    BY <1>1, <1>4, <2>3 DEF Inv, Holds, WriteOf, WriteLabels, files
  <2>6. faults' = 0 /\ ~tampered' => AgreeOf(p)'
    BY <1>1, <1>4, <2>3 DEF Inv, Holds, AgreeOf, Agree, files
  <2>7. Holds(p)'
    BY <2>4, <2>5, <2>6 DEF Holds
  <2> QED
    BY <1>2, <1>4, <2>1, <2>2, <2>7, GoesOn
<1>5. CASE WriteFails(p) /\ UNCHANGED stage
  <2>1. /\ Goto(p, "w_failed") /\ faults' \in Nat /\ faults' > 0 /\ faults' # 0
        /\ hurt' \in [Proc -> Nat]
    BY <1>5, WriteFailsOK DEF Inv
  <2>2. FileTypes' /\ DirInv'
    BY <1>1, <1>5, <2>1 DEF Inv, FileTypes, DirInv, files
  <2>3. prev'[p] = None /\ Whole(prev'[p]) /\ (Whole(rendered') \/ torn')
    BY <1>1, <1>3 DEF Whole, files
  <2>4. ~tampered' => rendered' = had'[p]
    BY <1>1 DEF Inv, Holds, WriteOf, files
  <2> QED
    BY <1>1, <1>2, <1>5, <2>1, <2>2, <2>3, <2>4, ToFailed
<1> QED
  BY <1>4, <1>5 DEF WriteFiles

LEMMA WriteMoveStep ==
  ASSUME Inv, NEW p \in Proc, WriteMove(p)
  PROVE  Inv'
<1>1. /\ pc[p] = "w_move"
      /\ UNCHANGED <<toml, dotenv, tripgo, sibling, legacy, stage, live, edits, had, torn,
                     raced, tampered>>
  BY DEF WriteMove
<1>2. pc[p] \in Leased /\ pc[p] \in WriteLabels /\ "w_install" \in Leased
  BY <1>1 DEF Leased, WriteLabels
<1>3. /\ stage[p] = New(p) /\ prev[p] = None /\ tripgo = "dir"
      /\ Whole(rendered) \/ torn
      /\ ~tampered => rendered = had[p] /\ hurt[p] = 0
  BY <1>1, <1>2 DEF Inv, Holds, TempOf, WriteOf
<1>4. CASE /\ rendered # User
           /\ prev' = [prev EXCEPT ![p] = rendered] /\ rendered' = None
           /\ Goto(p, "w_install") /\ UNCHANGED <<litter, faults, hurt>>
  <2>1. /\ prev' \in [Proc -> Output \cup {None}] /\ prev'[p] = rendered
        /\ \A q \in Proc \ {p} : stage'[q] = stage[q] /\ prev'[q] = prev[q]
    BY <1>1, <1>4 DEF Inv, FileTypes
  <2>2. FileTypes'
    BY <1>1, <1>4, <2>1 DEF Inv, FileTypes
  <2>3. DirInv'
    BY <1>1, <1>4, Values DEF Inv, DirInv
  <2>4. pc'[p] = "w_install" /\ config' = config /\ New(p)' = New(p)
    BY <1>2, <1>4, GotoOK, LabelFacts DEF Inv, New
  <2>5. TempOf(p)'
    BY <1>1, <1>3, <1>4, <2>1, <2>4 DEF TempOf, Whole
  <2>6. ~tampered' => WriteOf(p)'
    BY <1>1, <1>3, <1>4, <2>1, <2>4 DEF WriteOf
  <2>7. faults' = 0 /\ ~tampered' => AgreeOf(p)'
    BY <1>1, <1>4, <2>4 DEF Inv, Holds, AgreeOf
  <2>8. Holds(p)'
    BY <2>5, <2>6, <2>7 DEF Holds
  <2> QED
    BY <1>2, <1>4, <2>1, <2>2, <2>3, <2>8, GoesOn
<1>5. CASE /\ rendered = User /\ Goto(p, "w_failed")
           /\ UNCHANGED <<rendered, litter, prev, faults, hurt>>
  <2>1. FileTypes' /\ DirInv' /\ tampered'
    BY <1>1, <1>5 DEF Inv, FileTypes, DirInv
  <2>2. prev'[p] = None /\ Whole(prev'[p]) /\ Whole(rendered')
    BY <1>3, <1>5 DEF Whole
  <2> QED
    BY <1>1, <1>2, <1>5, <2>1, <2>2, ToFailed
<1>6. CASE /\ WriteFails(p) /\ litter' \in {litter, litter \cup {"temp"}}
           /\ UNCHANGED <<rendered, prev>>
  <2>1. /\ Goto(p, "w_failed") /\ faults' \in Nat /\ faults' > 0 /\ faults' # 0
        /\ hurt' \in [Proc -> Nat]
    BY <1>6, WriteFailsOK DEF Inv
  <2>2. FileTypes'
    BY <1>1, <1>6, <2>1 DEF Inv, FileTypes
  <2>3. DirInv'
    BY <1>1, <1>6, <2>1 DEF Inv, DirInv
  <2>4. prev'[p] = None /\ Whole(prev'[p]) /\ (Whole(rendered') \/ torn')
    BY <1>1, <1>3, <1>6 DEF Whole
  <2> QED
    BY <1>1, <1>2, <1>3, <1>6, <2>1, <2>2, <2>3, <2>4, ToFailed
<1> QED
  BY <1>4, <1>5, <1>6 DEF WriteMove

LEMMA WriteInstallStep ==
  ASSUME Inv, NEW p \in Proc, WriteInstall(p)
  PROVE  Inv'
<1>1. /\ pc[p] = "w_install"
      /\ UNCHANGED <<toml, dotenv, tripgo, sibling, legacy, litter, live, edits, had, torn,
                     raced, tampered>>
  BY DEF WriteInstall
<1>2. pc[p] \in Leased /\ pc[p] \in WriteLabels /\ "w_drop" \in Leased
  BY <1>1 DEF Leased, WriteLabels
<1>3. /\ stage[p] = New(p) /\ tripgo = "dir"
      /\ Whole(prev[p]) \/ torn
      /\ Whole(rendered) \/ torn
      /\ ~tampered => rendered = None /\ prev[p] = had[p] /\ hurt[p] = 0
  BY <1>1, <1>2 DEF Inv, Holds, TempOf, WriteOf, WriteLabels
<1>4. /\ config[p] \in Configs
      /\ New(p) \in Output /\ Whole(New(p)) /\ New(p) # None /\ New(p) # User
  BY <1>2, Holder, NewFacts DEF Inv
<1>5. CASE /\ rendered = None
           /\ rendered' = stage[p] /\ stage' = [stage EXCEPT ![p] = None]
           /\ Goto(p, "w_drop") /\ UNCHANGED <<prev, faults, hurt>>
  <2>1. /\ stage' \in [Proc -> Output \cup {None}] /\ stage'[p] = None
        /\ \A q \in Proc \ {p} : stage'[q] = stage[q] /\ prev'[q] = prev[q]
        /\ rendered' = New(p)
    BY <1>3, <1>5 DEF Inv, FileTypes
  <2>2. FileTypes'
    BY <1>1, <1>4, <1>5, <2>1 DEF Inv, FileTypes
  <2>3. DirInv'
    BY <1>1, <1>3, <1>4, <1>5, <2>1 DEF Inv, DirInv
  <2>4. pc'[p] = "w_drop" /\ config' = config /\ New(p)' = New(p)
    BY <1>2, <1>5, GotoOK, LabelFacts DEF Inv, New
  <2>5. TempOf(p)'
    <3>1. Whole(rendered')
      BY <1>4, <2>1
    <3>2. Whole(prev'[p]) \/ torn'
      BY <1>1, <1>3, <1>5
    <3> QED
      BY <1>4, <2>1, <2>4, <3>1, <3>2 DEF TempOf, Whole
  <2>6. ~tampered' => WriteOf(p)'
    BY <1>1, <1>3, <1>5, <2>1, <2>4 DEF WriteOf
  <2>7. faults' = 0 /\ ~tampered' => AgreeOf(p)'
    BY <1>1, <1>5, <2>1, <2>4 DEF Inv, Holds, AgreeOf
  <2>8. Holds(p)'
    BY <2>5, <2>6, <2>7 DEF Holds
  <2> QED
    BY <1>2, <1>5, <2>1, <2>2, <2>3, <2>8, GoesOn
<1>6. CASE /\ rendered # None /\ Goto(p, "w_failed")
           /\ UNCHANGED <<rendered, stage, prev, faults, hurt>>
  <2>1. FileTypes' /\ DirInv' /\ tampered'
    BY <1>1, <1>3, <1>6 DEF Inv, FileTypes, DirInv
  <2>2. rendered' # None /\ (Whole(prev'[p]) \/ torn') /\ (Whole(rendered') \/ torn')
    BY <1>1, <1>3, <1>6
  <2> QED
    BY <1>1, <1>2, <1>6, <2>1, <2>2, ToFailed
<1>7. CASE WriteFails(p) /\ Restore(p) /\ UNCHANGED stage
  <2>1. /\ Goto(p, "w_failed") /\ faults' \in Nat /\ faults' > 0 /\ faults' # 0
        /\ hurt' \in [Proc -> Nat]
    BY <1>7, WriteFailsOK DEF Inv
  <2>2. /\ rendered' = IF rendered = None THEN prev[p] ELSE rendered
        /\ prev' \in [Proc -> Output \cup {None}]
        /\ \A q \in Proc \ {p} : stage'[q] = stage[q] /\ prev'[q] = prev[q]
        /\ prev'[p] \in {None, prev[p]}
        /\ prev'[p] # None => rendered' # None
    BY <1>7 DEF Restore, Inv, FileTypes
  <2>3. prev[p] \in Output \cup {None} /\ prev[p] # User
    BY Values DEF Inv, FileTypes
  <2>4. FileTypes'
    BY <1>1, <1>7, <2>1, <2>2, <2>3 DEF Inv, FileTypes
  <2>5. DirInv'
    BY <1>1, <1>3, <2>1, <2>2, <2>3 DEF Inv, DirInv
  <2>6. Whole(prev'[p]) \/ torn'
    BY <1>1, <1>3, <2>2 DEF Whole
  <2>7. Whole(rendered') \/ torn'
    BY <1>1, <1>3, <2>2
  <2>8. ~tampered' => rendered' = had'[p]
    BY <1>1, <1>3, <2>2
  <2> QED
    BY <1>2, <2>1, <2>2, <2>4, <2>5, <2>6, <2>7, <2>8, ToFailed
<1>8. CASE /\ faults + 1 < MaxFaults /\ faults' = faults + 2
           /\ hurt' = [hurt EXCEPT ![p] = @ + 2]
           /\ Goto(p, "w_failed") /\ UNCHANGED <<rendered, stage, prev>>
  <2>1. /\ faults' \in Nat /\ faults' > 0 /\ faults' # 0
        /\ hurt' \in [Proc -> Nat] /\ hurt'[p] = hurt[p] + 2
    BY <1>8 DEF Inv, FileTypes
  <2>2. FileTypes'
    BY <1>1, <1>8, <2>1 DEF Inv, FileTypes
  <2>3. DirInv'
    BY <1>1, <1>8, <2>1 DEF Inv, DirInv
  <2>4. (Whole(prev'[p]) \/ torn') /\ (Whole(rendered') \/ torn')
    BY <1>1, <1>3, <1>8
  <2>5. hurt'[p] > 1 /\ hurt'[p] # 1
    BY <2>1 DEF Inv, FileTypes
  <2> QED
    BY <1>2, <1>8, <2>1, <2>2, <2>3, <2>4, <2>5, ToFailed
<1> QED
  BY <1>5, <1>6, <1>7, <1>8 DEF WriteInstall

LEMMA WriteDropStep ==
  ASSUME Inv, NEW p \in Proc, WriteDrop(p)
  PROVE  Inv'
<1>1. pc[p] = "w_drop" /\ UNCHANGED <<files, stage, live, edits, had, torn, raced, tampered>>
  BY DEF WriteDrop
<1>2. pc[p] \in Leased /\ pc[p] \in WriteLabels /\ "w_lock" \in Leased
  BY <1>1 DEF Leased, WriteLabels
<1>3. /\ stage[p] = None /\ rendered \in Output
      /\ Whole(prev[p]) \/ torn
      /\ Whole(rendered) \/ torn
      /\ ~tampered => rendered = New(p) /\ hurt[p] = 0
  BY <1>1, <1>2 DEF Inv, Holds, TempOf, WriteOf, WriteLabels
<1>4. CASE prev' = [prev EXCEPT ![p] = None] /\ Goto(p, "w_lock") /\ UNCHANGED <<faults, hurt>>
  <2>1. /\ prev' \in [Proc -> Output \cup {None}] /\ prev'[p] = None
        /\ \A q \in Proc \ {p} : stage'[q] = stage[q] /\ prev'[q] = prev[q]
    BY <1>1, <1>4 DEF Inv, FileTypes
  <2>2. FileTypes' /\ DirInv'
    BY <1>1, <1>4, <2>1 DEF Inv, FileTypes, DirInv, files
  <2>3. pc'[p] = "w_lock" /\ config' = config /\ New(p)' = New(p)
    BY <1>2, <1>4, GotoOK, LabelFacts DEF Inv, New
  <2>4. TempOf(p)'
    BY <1>1, <1>3, <2>1, <2>3 DEF TempOf, Whole, files
  <2>5. ~tampered' => WriteOf(p)'
    BY <1>1, <1>3, <1>4, <2>3 DEF WriteOf, files
  <2>6. faults' = 0 /\ ~tampered' => AgreeOf(p)'
    BY <1>1, <1>4, <2>3 DEF Inv, Holds, AgreeOf, files
  <2>7. Holds(p)'
    BY <2>4, <2>5, <2>6 DEF Holds
  <2> QED
    BY <1>2, <1>4, <2>1, <2>2, <2>7, GoesOn
<1>5. CASE WriteFails(p) /\ UNCHANGED prev
  <2>1. /\ Goto(p, "w_failed") /\ faults' \in Nat /\ faults' > 0 /\ faults' # 0
        /\ hurt' \in [Proc -> Nat]
    BY <1>5, WriteFailsOK DEF Inv
  <2>2. FileTypes' /\ DirInv'
    BY <1>1, <1>5, <2>1 DEF Inv, FileTypes, DirInv, files
  <2>3. /\ Whole(prev'[p]) \/ torn'
        /\ Whole(rendered') \/ torn'
        /\ rendered' # None
        /\ ~tampered' => rendered' = New(p)
    BY <1>1, <1>3, <1>5, Values DEF Whole, files
  <2> QED
    BY <1>1, <1>2, <1>5, <2>1, <2>2, <2>3, ToFailed
<1> QED
  BY <1>4, <1>5 DEF WriteDrop

LEMMA WriteLockStep ==
  ASSUME Inv, NEW p \in Proc, WriteLock(p)
  PROVE  Inv'
<1>1. /\ pc[p] = "w_lock"
      /\ UNCHANGED <<toml, dotenv, tripgo, rendered, sibling, litter, stage, prev, live, edits,
                     had, torn, raced, tampered>>
  BY DEF WriteLock, temps
<1>2. pc[p] \in Leased /\ pc[p] \in WriteLabels /\ "w_done" \in Leased
  BY <1>1 DEF Leased, WriteLabels
<1>3. /\ stage[p] = None /\ prev[p] = None
      /\ Whole(rendered) \/ torn
      /\ ~tampered => rendered = New(p) /\ hurt[p] = 0
  BY <1>1, <1>2 DEF Inv, Holds, TempOf, WriteOf, WriteLabels
<1>4. CASE /\ legacy' = IF legacy = "ours" THEN "none" ELSE legacy
           /\ Goto(p, "w_done") /\ UNCHANGED <<faults, hurt>>
  <2>1. FileTypes'
    BY <1>1, <1>4 DEF Inv, FileTypes
  <2>2. DirInv'
    BY <1>1, <1>4 DEF Inv, DirInv
  <2>3. pc'[p] = "w_done" /\ config' = config /\ New(p)' = New(p)
    BY <1>2, <1>4, GotoOK, LabelFacts DEF Inv, New
  <2>4. TempOf(p)'
    BY <1>1, <1>3, <2>3 DEF TempOf, Whole
  <2>5. ~tampered' => WriteOf(p)'
    BY <1>1, <1>3, <1>4, <2>3 DEF WriteOf
  <2>6. faults' = 0 /\ ~tampered' => AgreeOf(p)'
    BY <1>1, <1>4, <2>3 DEF Inv, Holds, AgreeOf
  <2>7. Holds(p)'
    BY <2>4, <2>5, <2>6 DEF Holds
  <2> QED
    BY <1>1, <1>2, <1>4, <2>1, <2>2, <2>7, GoesOn
<1>5. CASE WriteFails(p) /\ UNCHANGED legacy
  <2>1. /\ Goto(p, "w_failed") /\ faults' \in Nat /\ faults' > 0 /\ faults' # 0
        /\ hurt' \in [Proc -> Nat]
    BY <1>5, WriteFailsOK DEF Inv
  <2>2. FileTypes' /\ DirInv'
    BY <1>1, <1>5, <2>1 DEF Inv, FileTypes, DirInv
  <2>3. /\ Whole(prev'[p]) /\ prev'[p] = None
        /\ Whole(rendered') \/ torn'
        /\ ~tampered' => rendered' = New(p)
    BY <1>1, <1>3 DEF Whole
  <2> QED
    BY <1>1, <1>2, <1>5, <2>1, <2>2, <2>3, ToFailed
<1> QED
  BY <1>4, <1>5 DEF WriteLock

\* The deferred removals: after a success the new output is in place, after a
\* failure faults counts it or the student has touched an output.
LEMMA WriteReturnStep ==
  ASSUME Inv, NEW p \in Proc, WriteReturn(p)
  PROVE  Inv'
<1>1. /\ pc[p] \in {"w_done", "w_failed"}
      /\ stage' = [stage EXCEPT ![p] = None] /\ prev' = [prev EXCEPT ![p] = None]
      /\ had' = [had EXCEPT ![p] = None] /\ hurt' = [hurt EXCEPT ![p] = 0]
      /\ UNCHANGED <<toml, dotenv, tripgo, rendered, sibling, legacy, live, edits, torn, raced,
                     tampered>>
  BY DEF WriteReturn
<1>2. pc[p] \in Leased /\ pc[p] \in WriteLabels /\ "e_check" \in Leased
  BY <1>1 DEF Leased, WriteLabels
<1>3. Whole(rendered') \/ torn'
  BY <1>1, <1>2 DEF Inv, Holds, TempOf, Whole
<1>4. /\ litter' \in {litter, litter \cup {"temp"}}
      /\ Fault \/ faults' = faults
  BY DEF WriteReturn
<1>5. faults' \in Nat /\ faults' >= faults /\ litter' \subseteq {"temp", "backup", "env"}
  BY <1>4, DirectoryAssumption DEF Inv, FileTypes, Fault
<1>6. /\ stage' \in [Proc -> Output \cup {None}] /\ prev' \in [Proc -> Output \cup {None}]
      /\ had' \in [Proc -> Output \cup {None, User}] /\ hurt' \in [Proc -> Nat]
      /\ stage'[p] = None /\ prev'[p] = None
      /\ \A q \in Proc \ {p} : stage'[q] = stage[q] /\ prev'[q] = prev[q]
  BY <1>1 DEF Inv, FileTypes
<1>7. FileTypes'
  BY <1>1, <1>5, <1>6 DEF Inv, FileTypes
<1>8. DirInv'
  BY <1>1, <1>5 DEF Inv, DirInv
<1>9. CASE pc[p] = "w_done" /\ Goto(p, "e_check")
  <2>1. pc'[p] = "e_check" /\ config' = config /\ New(p)' = New(p)
    BY <1>2, <1>9, GotoOK, LabelFacts DEF Inv, New
  <2>2. TempOf(p)'
    BY <1>3, <1>6, <2>1 DEF TempOf, Whole
  <2>3. WriteOf(p)'
    BY <2>1 DEF WriteOf, WriteLabels
  <2>4. faults' = 0 /\ ~tampered' => AgreeOf(p)'
    <3>1. faults' = 0 => faults = 0
      BY <1>5 DEF Inv, FileTypes
    <3> QED
      BY <1>1, <1>9, <2>1, <3>1 DEF Inv, Holds, AgreeOf
  <2>5. Holds(p)'
    BY <2>2, <2>3, <2>4 DEF Holds
  <2> QED
    BY <1>2, <1>6, <1>7, <1>8, <1>9, <2>5, GoesOn
<1>10. CASE pc[p] = "w_failed" /\ Return(p)
  <2>1. faults' = 0 => faults = 0
    BY <1>5 DEF Inv, FileTypes
  <2>2. ~(faults' = 0 /\ ~tampered')
    BY <1>1, <1>10, <2>1 DEF Inv, Holds, AgreeOf
  <2> QED
    BY <1>2, <1>3, <1>6, <1>7, <1>8, <1>10, <2>2, Ends
<1> QED
  BY <1>9, <1>10 DEF WriteReturn

-----------------------------------------------------------------------------
(* writeEnv and the end of start.                                          *)

LEMMA EnvCheckStep ==
  ASSUME Inv, NEW p \in Proc, EnvCheck(p)
  PROVE  Inv'
<1>1. pc[p] = "e_check" /\ UNCHANGED <<files, temps, live, edits, ghosts>>
  BY DEF EnvCheck
<1>2. pc[p] \in Leased \ (WriteLabels \cup {"r_remove"}) /\ "e_install" \in Leased
  BY <1>1 DEF Leased, WriteLabels
<1>3. CASE dotenv # User /\ Goto(p, "e_install") /\ UNCHANGED faults
  <2>1. FileTypes' /\ DirInv'
    BY <1>1, <1>3 DEF Inv, FileTypes, DirInv, files, temps, ghosts
  <2>2. pc'[p] = "e_install" /\ config' = config /\ New(p)' = New(p)
    BY <1>2, <1>3, GotoOK, LabelFacts DEF Inv, New
  <2>3. TempOf(p)'
    BY <1>1, <1>2, <1>3, <2>2 DEF Inv, Holds, TempOf, Whole, files, temps, ghosts
  <2>4. WriteOf(p)'
    BY <2>2 DEF WriteOf, WriteLabels
  <2>5. faults' = 0 /\ ~tampered' => AgreeOf(p)'
    BY <1>1, <1>3, <2>2 DEF Inv, Holds, AgreeOf, files, ghosts
  <2>6. Holds(p)'
    BY <2>3, <2>4, <2>5 DEF Holds
  <2> QED
    BY <1>1, <1>2, <1>3, <2>1, <2>6, GoesOn DEF temps
<1>4. CASE dotenv = User /\ Return(p) /\ UNCHANGED faults
  <2>1. tampered
    BY <1>4 DEF Inv, DirInv, FileTypes
  <2>2. FileTypes' /\ DirInv'
    BY <1>1, <1>4 DEF Inv, FileTypes, DirInv, files, temps, ghosts
  <2>3. /\ Whole(rendered') \/ torn'
        /\ stage'[p] = None /\ prev'[p] = None
    BY <1>1, <1>2 DEF Inv, Holds, TempOf, Whole, files, temps, ghosts
  <2> QED
    BY <1>1, <1>2, <1>4, <2>1, <2>2, <2>3, Ends DEF temps, ghosts
<1>5. CASE Fault /\ Return(p)
  BY <1>1, <1>2, <1>5, EndsUnchanged
<1> QED
  BY <1>3, <1>4, <1>5 DEF EnvCheck

LEMMA EnvInstallStep ==
  ASSUME Inv, NEW p \in Proc, EnvInstall(p)
  PROVE  Inv'
<1>1. /\ pc[p] = "e_install"
      /\ UNCHANGED <<toml, tripgo, rendered, sibling, legacy, litter, temps, live, edits, ghosts>>
  BY DEF EnvInstall
<1>2. pc[p] \in Leased /\ "s_status" \in Leased
  BY <1>1 DEF Leased, WriteLabels
<1>3. config[p] \in Configs /\ config[p] # User /\ New(p).of = config[p] /\ New(p) # None
  BY <1>2, Holder, NewFacts, Values DEF Inv
<1>4. /\ stage'[p] = None /\ prev'[p] = None
      /\ Whole(rendered') \/ torn'
  BY <1>1, <1>2 DEF Inv, Holds, TempOf, Whole, temps, ghosts
<1>5. CASE dotenv' = EnvContent(p) /\ Goto(p, "s_status") /\ UNCHANGED faults
  <2>1. dotenv' = config[p]
    BY <1>5 DEF EnvContent
  <2>2. FileTypes'
    BY <1>1, <1>3, <1>5, <2>1 DEF Inv, FileTypes, temps, ghosts
  <2>3. DirInv'
    BY <1>1, <1>3, <1>5, <2>1 DEF Inv, DirInv, ghosts
  <2>4. pc'[p] = "s_status" /\ config' = config
    BY <1>2, <1>5, GotoOK, LabelFacts DEF Inv
  <2>5. TempOf(p)'
    BY <1>4, <2>4 DEF TempOf, Whole
  <2>6. WriteOf(p)'
    BY <2>4 DEF WriteOf, WriteLabels
  <2>7. faults' = 0 /\ ~tampered' => AgreeOf(p)'
    <3>1. faults' = 0 /\ ~tampered' => config[p].lab \in live /\ rendered = New(p)
      BY <1>1, <1>5 DEF Inv, Holds, AgreeOf, ghosts
    <3>2. faults' = 0 /\ ~tampered' => Agree'
      BY <1>1, <1>3, <2>1, <3>1 DEF Agree
    <3> QED
      BY <2>4, <3>2 DEF AgreeOf
  <2>8. Holds(p)'
    BY <2>5, <2>6, <2>7 DEF Holds
  <2> QED
    BY <1>1, <1>2, <1>5, <2>2, <2>3, <2>8, GoesOn DEF temps
<1>6. CASE Fault /\ Return(p) /\ dotenv' \in {dotenv, EnvContent(p)}
  <2>1. faults' \in Nat /\ faults' > 0 /\ faults' # 0
    BY <1>6, FaultOK DEF Inv
  <2>2. dotenv' \in {dotenv, config[p]}
    BY <1>6 DEF EnvContent
  <2>3. FileTypes'
    BY <1>1, <1>3, <2>1, <2>2 DEF Inv, FileTypes, temps, ghosts
  <2>4. DirInv'
    BY <1>1, <1>3, <2>1, <2>2 DEF Inv, DirInv, ghosts
  <2> QED
    BY <1>1, <1>2, <1>4, <1>6, <2>1, <2>3, <2>4, Ends DEF temps
<1> QED
  BY <1>5, <1>6 DEF EnvInstall

LEMMA StartStatusStep ==
  ASSUME Inv, NEW p \in Proc, StartStatus(p)
  PROVE  Inv'
<1>1. /\ pc[p] = "s_status" /\ Return(p)
      /\ UNCHANGED <<files, temps, live, faults, edits, ghosts>>
  BY DEF StartStatus
<1>2. pc[p] \in Leased \ (WriteLabels \cup {"r_remove"}) /\ (AgreeOf(p) => Agree)
  BY <1>1 DEF Leased, WriteLabels, AgreeOf
<1> QED
  BY <1>1, <1>2, EndsUnchanged

-----------------------------------------------------------------------------
(* reset.                                                                  *)

\* The steps of a reset.
LEMMA ResetKubeStep ==
  ASSUME Inv, NEW p \in Proc, ResetKube(p)
  PROVE  Inv'
<1>1. pc[p] = "r_kube" /\ UNCHANGED <<files, temps, edits, ghosts>>
  BY DEF ResetKube
<1>2. pc[p] \in Leased \ (WriteLabels \cup {"r_remove"}) /\ "r_env" \in Leased
  BY <1>1 DEF Leased, WriteLabels
<1>3. CASE Goto(p, "r_env") /\ UNCHANGED faults
  <2>1. FileTypes' /\ DirInv'
    BY <1>1, <1>3 DEF Inv, FileTypes, DirInv, files, temps, ghosts
  <2>2. pc'[p] = "r_env"
    BY <1>2, <1>3, GotoOK, LabelFacts DEF Inv
  <2>3. TempOf(p)'
    BY <1>1, <1>2, <2>2 DEF Inv, Holds, TempOf, Whole, files, temps, ghosts
  <2>4. WriteOf(p)' /\ AgreeOf(p)'
    BY <2>2 DEF WriteOf, WriteLabels, AgreeOf
  <2>5. Holds(p)'
    BY <2>3, <2>4 DEF Holds
  <2> QED
    BY <1>1, <1>2, <1>3, <2>1, <2>5, GoesOn DEF temps
<1>4. CASE Fault /\ Return(p)
  BY <1>1, <1>2, <1>4, EndsUnchanged
<1> QED
  BY <1>3, <1>4 DEF ResetKube

LEMMA ResetEnvStep ==
  ASSUME Inv, NEW p \in Proc, ResetEnv(p)
  PROVE  Inv'
<1>1. pc[p] = "r_env" /\ UNCHANGED <<files, temps, live, edits, ghosts>>
  BY DEF ResetEnv
<1>2. /\ pc[p] \in Leased \ (WriteLabels \cup {"r_remove"})
      /\ "r_rend" \in Leased /\ "r_unlink" \in Leased
  BY <1>1 DEF Leased, WriteLabels
<1>3. ASSUME NEW l \in {"r_rend", "r_unlink"}, Goto(p, l), UNCHANGED faults,
             l = "r_rend" => dotenv \in {None, User}, l = "r_unlink" => dotenv # User
      PROVE  Inv'
  <2>1. FileTypes' /\ DirInv'
    BY <1>1, <1>3 DEF Inv, FileTypes, DirInv, files, temps, ghosts
  <2>2. pc'[p] = l
    BY <1>2, <1>3, GotoOK, LabelFacts DEF Inv
  <2>3. TempOf(p)'
    BY <1>1, <1>2, <1>3, <2>2 DEF Inv, Holds, TempOf, Whole, files, temps, ghosts
  <2>4. WriteOf(p)'
    BY <2>2 DEF WriteOf, WriteLabels
  <2>5. ~tampered' => AgreeOf(p)'
    <3>1. ~tampered' /\ l = "r_rend" => dotenv' = None
      BY <1>1, <1>3 DEF Inv, DirInv, files, ghosts
    <3> QED
      BY <2>2, <3>1 DEF AgreeOf
  <2>6. Holds(p)'
    BY <2>3, <2>4, <2>5 DEF Holds
  <2> QED
    BY <1>1, <1>2, <1>3, <2>1, <2>6, GoesOn DEF temps
<1>4. CASE Fault /\ Return(p)
  BY <1>1, <1>2, <1>4, EndsUnchanged
<1> QED
  BY <1>3, <1>4 DEF ResetEnv

LEMMA ResetUnlinkStep ==
  ASSUME Inv, NEW p \in Proc, ResetUnlink(p)
  PROVE  Inv'
<1>1. /\ pc[p] = "r_unlink"
      /\ UNCHANGED <<toml, tripgo, rendered, sibling, legacy, litter, temps, live, edits, ghosts>>
  BY DEF ResetUnlink
<1>2. pc[p] \in Leased \ (WriteLabels \cup {"r_remove"}) /\ "r_rend" \in Leased
  BY <1>1 DEF Leased, WriteLabels
<1>3. CASE dotenv' = None /\ Goto(p, "r_rend") /\ UNCHANGED faults
  <2>1. FileTypes'
    BY <1>1, <1>3 DEF Inv, FileTypes, temps, ghosts
  <2>2. DirInv'
    BY <1>1, <1>3, Values DEF Inv, DirInv, ghosts
  <2>3. pc'[p] = "r_rend"
    BY <1>2, <1>3, GotoOK, LabelFacts DEF Inv
  <2>4. TempOf(p)'
    BY <1>1, <1>2, <2>3 DEF Inv, Holds, TempOf, Whole, temps, ghosts
  <2>5. WriteOf(p)' /\ AgreeOf(p)'
    BY <1>3, <2>3 DEF WriteOf, AgreeOf, WriteLabels
  <2>6. Holds(p)'
    BY <2>4, <2>5 DEF Holds
  <2> QED
    BY <1>1, <1>2, <1>3, <2>1, <2>2, <2>6, GoesOn DEF temps
<1>4. CASE Fault /\ Return(p) /\ UNCHANGED dotenv
  BY <1>1, <1>2, <1>4, EndsUnchanged DEF files
<1> QED
  BY <1>3, <1>4 DEF ResetUnlink

LEMMA ResetRenderedStep ==
  ASSUME Inv, NEW p \in Proc, ResetRendered(p)
  PROVE  Inv'
<1>1. /\ pc[p] = "r_rend"
      /\ UNCHANGED <<toml, dotenv, tripgo, sibling, legacy, litter, temps, live, edits, ghosts>>
  BY DEF ResetRendered
<1>2. /\ pc[p] \in Leased \ (WriteLabels \cup {"r_remove"})
      /\ "r_dir" \in Leased /\ "r_remove" \in Leased
  BY <1>1 DEF Leased, WriteLabels
<1>3. /\ stage[p] = None /\ prev[p] = None
      /\ Whole(rendered) \/ torn
      /\ faults = 0 /\ ~tampered => dotenv = None
      /\ ~tampered => rendered # User
  BY <1>1, <1>2 DEF Inv, Holds, TempOf, AgreeOf, DirInv
<1>4. CASE tripgo # "dir" /\ Return(p) /\ UNCHANGED <<rendered, faults>>
  <2>1. AgreeOf(p) => Agree
    BY <1>1, <1>4 DEF Inv, DirInv, AgreeOf, Agree
  <2> QED
    BY <1>1, <1>2, <1>4, <2>1, EndsUnchanged DEF files
<1>5. CASE /\ tripgo = "dir" /\ rendered \in {None, User}
           /\ Goto(p, "r_dir") /\ UNCHANGED <<rendered, faults>>
  <2>1. FileTypes' /\ DirInv'
    BY <1>1, <1>5 DEF Inv, FileTypes, DirInv, temps, ghosts
  <2>2. pc'[p] = "r_dir"
    BY <1>2, <1>5, GotoOK, LabelFacts DEF Inv
  <2>3. TempOf(p)'
    BY <1>1, <1>3, <1>5, <2>2 DEF TempOf, Whole, temps, ghosts
  <2>4. WriteOf(p)'
    BY <2>2 DEF WriteOf, WriteLabels
  <2>5. faults' = 0 /\ ~tampered' => AgreeOf(p)'
    BY <1>1, <1>3, <1>5, <2>2 DEF AgreeOf, ghosts
  <2>6. Holds(p)'
    BY <2>3, <2>4, <2>5 DEF Holds
  <2> QED
    BY <1>1, <1>2, <1>5, <2>1, <2>6, GoesOn DEF temps
<1>6. CASE /\ tripgo = "dir" /\ rendered \notin {None, User}
           /\ rendered' = [rendered EXCEPT !.whole = FALSE]
           /\ Goto(p, "r_remove") /\ UNCHANGED faults
  <2>1. rendered' \in Output /\ rendered' # User /\ rendered' # None
    <3>1. rendered \in Output
      BY <1>6 DEF Inv, FileTypes
    <3> QED
      BY <1>6, <3>1, OutputFacts, Values
  <2>2. FileTypes'
    BY <1>1, <1>6, <2>1 DEF Inv, FileTypes, temps, ghosts
  <2>3. DirInv'
    BY <1>1, <1>6, <2>1 DEF Inv, DirInv, ghosts
  <2>4. pc'[p] = "r_remove"
    BY <1>2, <1>6, GotoOK, LabelFacts DEF Inv
  <2>5. TempOf(p)'
    BY <1>1, <1>3, <1>6, <2>1, <2>4 DEF TempOf, Whole, temps
  <2>6. WriteOf(p)'
    BY <2>4 DEF WriteOf, WriteLabels
  <2>7. faults' = 0 /\ ~tampered' => AgreeOf(p)'
    BY <1>1, <1>3, <1>6, <2>4 DEF AgreeOf, ghosts
  <2>8. Holds(p)'
    BY <2>5, <2>6, <2>7 DEF Holds
  <2> QED
    BY <1>1, <1>2, <1>6, <2>2, <2>3, <2>8, GoesOn DEF temps
<1>7. CASE Fault /\ Return(p) /\ UNCHANGED rendered
  BY <1>1, <1>2, <1>7, EndsUnchanged DEF files
<1> QED
  BY <1>4, <1>5, <1>6, <1>7 DEF ResetRendered

LEMMA ResetRemoveStep ==
  ASSUME Inv, NEW p \in Proc, ResetRemove(p)
  PROVE  Inv'
<1>1. /\ pc[p] = "r_remove"
      /\ UNCHANGED <<toml, dotenv, tripgo, sibling, legacy, litter, temps, live, edits, had,
                     hurt, raced, tampered>>
  BY DEF ResetRemove
<1>2. pc[p] \in Leased /\ "r_dir" \in Leased
  BY <1>1 DEF Leased, WriteLabels
<1>3. /\ stage[p] = None /\ prev[p] = None /\ tripgo = "dir"
      /\ faults = 0 /\ ~tampered => dotenv = None
  BY <1>1 DEF Inv, Holds, TempOf, AgreeOf
<1>4. CASE rendered' = None /\ Goto(p, "r_dir") /\ UNCHANGED <<faults, torn>>
  <2>1. FileTypes'
    BY <1>1, <1>4 DEF Inv, FileTypes, temps
  <2>2. DirInv'
    BY <1>1, <1>4, Values DEF Inv, DirInv
  <2>3. pc'[p] = "r_dir"
    BY <1>2, <1>4, GotoOK, LabelFacts DEF Inv
  <2>4. TempOf(p)'
    BY <1>1, <1>3, <1>4, <2>3 DEF TempOf, Whole, temps
  <2>5. WriteOf(p)'
    BY <2>3 DEF WriteOf, WriteLabels
  <2>6. faults' = 0 /\ ~tampered' => AgreeOf(p)'
    BY <1>1, <1>3, <1>4, <2>3 DEF AgreeOf
  <2>7. Holds(p)'
    BY <2>4, <2>5, <2>6 DEF Holds
  <2> QED
    BY <1>1, <1>2, <1>4, <2>1, <2>2, <2>7, GoesOn DEF temps
<1>5. CASE Fault /\ Return(p) /\ torn' = TRUE /\ UNCHANGED rendered
  <2>1. faults' \in Nat /\ faults' > 0 /\ faults' # 0
    BY <1>5, FaultOK DEF Inv
  <2>2. FileTypes'
    BY <1>1, <1>5, <2>1 DEF Inv, FileTypes, temps
  <2>3. DirInv'
    BY <1>1, <1>5, <2>1 DEF Inv, DirInv
  <2> QED
    BY <1>1, <1>2, <1>3, <1>5, <2>1, <2>2, <2>3, Ends DEF temps
<1> QED
  BY <1>4, <1>5 DEF ResetRemove

LEMMA ResetDirStep ==
  ASSUME Inv, NEW p \in Proc, ResetDir(p)
  PROVE  Inv'
<1>1. /\ pc[p] = "r_dir" /\ Return(p)
      /\ UNCHANGED <<toml, dotenv, rendered, sibling, litter, temps, live, edits, ghosts>>
  BY DEF ResetDir
<1>2. pc[p] \in Leased \ (WriteLabels \cup {"r_remove"})
  BY <1>1 DEF Leased, WriteLabels
<1>3. /\ stage'[p] = None /\ prev'[p] = None /\ tripgo = "dir"
      /\ Whole(rendered') \/ torn'
      /\ faults = 0 /\ ~tampered => dotenv = None /\ rendered = None
  BY <1>1, <1>2 DEF Inv, Holds, TempOf, AgreeOf, Whole, temps, ghosts
<1>4. /\ legacy' \in {legacy, "none"} /\ faults' \in {faults, faults + 1}
      /\ tripgo' = tripgo \/ (tripgo' = "absent" /\ Removable /\ legacy' # "user")
  BY DEF ResetDir, Removable, Fault
<1>5. faults' \in Nat /\ faults' >= faults /\ (faults' = 0 => faults = 0)
  BY <1>4 DEF Inv, FileTypes
<1>6. FileTypes'
  BY <1>1, <1>4, <1>5 DEF Inv, FileTypes, temps, ghosts
<1>7. DirInv'
  <2>1. rendered' # None \/ sibling' \/ legacy' = "user" => tripgo' = "dir"
    BY <1>1, <1>3, <1>4 DEF Removable
  <2>2. ~tampered' => dotenv' # User /\ rendered' # User /\ tripgo' # "user"
    BY <1>1, <1>3, <1>4 DEF Inv, DirInv, ghosts
  <2> QED
    BY <2>1, <2>2 DEF DirInv
<1>8. faults' = 0 /\ ~tampered' => Agree'
  BY <1>1, <1>3, <1>5 DEF Agree, ghosts
<1> QED
  BY <1>1, <1>2, <1>3, <1>6, <1>7, <1>8, Ends DEF temps

-----------------------------------------------------------------------------
(* The student, and SIGKILL.                                               *)

\* Between the commands and during each of them, whoever holds the lease.
LEMMA StudentStep ==
  ASSUME Inv, EditToml \/ PutEnv \/ PutSibling \/ PutFile
  PROVE  Inv'
<1>1. /\ UNCHANGED <<legacy, litter, stage, prev, live, lock, pc, config, faults, had, hurt, torn>>
      /\ tampered' = TRUE \/ UNCHANGED <<dotenv, tripgo, rendered, raced, tampered>>
  BY DEF EditToml, PutEnv, PutSibling, PutFile, temps, ghosts
<1>2. /\ toml' \in Documents
      /\ UNCHANGED dotenv \/ dotenv' = User
      /\ UNCHANGED tripgo \/ (tripgo = "absent" /\ tripgo' = "user")
      /\ UNCHANGED rendered \/ (tripgo = "dir" /\ rendered = None /\ rendered' = User /\ UNCHANGED tripgo)
      /\ UNCHANGED sibling \/ (tripgo = "dir" /\ sibling' = TRUE /\ UNCHANGED tripgo)
      /\ raced' \in BOOLEAN /\ tampered' \in BOOLEAN
  BY DEF EditToml, PutEnv, PutSibling, PutFile, ghosts, Inv, FileTypes
<1>3. \/ UNCHANGED <<dotenv, raced>>
      \/ raced' = (\E p \in Proc : pc[p] \in {"e_install", "r_unlink"})
  BY DEF EditToml, PutEnv, PutSibling, PutFile, ghosts
<1>4. ProcInv'
  BY <1>1 DEF Inv, ProcInv, ProcTypes
<1>5. FileTypes'
  BY <1>1, <1>2 DEF Inv, FileTypes
<1>6. ~tampered' => ~tampered /\ UNCHANGED <<dotenv, tripgo, rendered>>
  BY <1>1
<1>7. DirInv'
  BY <1>1, <1>2, <1>6 DEF Inv, DirInv
<1>8. Whole(rendered) => Whole(rendered')
  BY <1>2 DEF Whole
<1>9. FreeInv'
  BY <1>1, <1>6, <1>8 DEF Inv, FreeInv, Agree
<1>10. ASSUME NEW p \in Proc PROVE Holds(p)'
  <2>1. pc'[p] = pc[p] /\ New(p)' = New(p)
    BY <1>1 DEF New
  <2>2. TempOf(p)'
    <3>1. pc[p] \in {"e_install", "r_unlink"} /\ dotenv' = User => raced'
      <4>1. CASE UNCHANGED <<dotenv, raced>>
        BY <4>1 DEF Inv, Holds, TempOf
      <4>2. CASE raced' = (\E q \in Proc : pc[q] \in {"e_install", "r_unlink"})
        BY <4>2
      <4> QED
        BY <1>3, <4>1, <4>2
    <3>2. pc[p] \in {"w_files", "w_move", "w_install", "r_remove", "r_dir"} => tripgo' = "dir"
      BY <1>2 DEF Inv, Holds, TempOf
    <3>3. pc[p] = "r_remove" => rendered' \in Output
      BY <1>2, Values DEF Inv, Holds, TempOf
    <3>4. pc[p] \in Leased \ {"r_remove"} => Whole(rendered') \/ torn'
      BY <1>1, <1>8 DEF Inv, Holds, TempOf
    <3>5. /\ Whole(prev'[p]) \/ torn'
          /\ stage' = stage /\ prev' = prev /\ config' = config /\ torn' = torn
      BY <1>1 DEF Inv, Holds, TempOf
    <3>6. /\ pc[p] = "w_drop" => rendered' \in Output
          /\ pc[p] = "w_failed" /\ prev'[p] # None /\ rendered' = None => hurt'[p] > 1
      BY <1>1, <1>2, Values DEF Inv, Holds, TempOf
    <3> QED
      BY <2>1, <3>1, <3>2, <3>3, <3>4, <3>5, <3>6 DEF Inv, Holds, TempOf
  <2>3. ~tampered' => WriteOf(p)'
    BY <1>1, <1>6, <2>1 DEF Inv, Holds, WriteOf
  <2>4. faults' = 0 /\ ~tampered' => AgreeOf(p)'
    BY <1>1, <1>6, <2>1 DEF Inv, Holds, AgreeOf, Agree
  <2> QED
    BY <2>2, <2>3, <2>4 DEF Holds
<1> QED
  BY <1>4, <1>5, <1>7, <1>9, <1>10 DEF Inv

\* A crash leaves the temporaries behind as litter.
LEMMA CrashStep ==
  ASSUME Inv, NEW p \in Proc, Crash(p)
  PROVE  Inv'
<1>1. /\ Fault /\ Return(p)
      /\ litter' \subseteq litter \cup {"temp", "backup", "env"}
      /\ stage' = [stage EXCEPT ![p] = None] /\ prev' = [prev EXCEPT ![p] = None]
      /\ had' = [had EXCEPT ![p] = None] /\ hurt' = [hurt EXCEPT ![p] = 0]
      /\ torn' = (torn \/ pc[p] = "r_remove")
      /\ UNCHANGED <<toml, dotenv, tripgo, rendered, sibling, legacy, live, edits, raced, tampered>>
  BY DEF Crash
<1>2. faults' \in Nat /\ faults' > 0 /\ faults' # 0
  BY <1>1, FaultOK DEF Inv
<1>3. /\ stage' \in [Proc -> Output \cup {None}] /\ prev' \in [Proc -> Output \cup {None}]
      /\ had' \in [Proc -> Output \cup {None, User}] /\ hurt' \in [Proc -> Nat]
      /\ stage'[p] = None /\ prev'[p] = None
      /\ \A q \in Proc \ {p} : /\ stage'[q] = stage[q] /\ prev'[q] = prev[q]
                               /\ had'[q] = had[q] /\ hurt'[q] = hurt[q]
  BY <1>1 DEF Inv, FileTypes
<1>4. litter' \subseteq {"temp", "backup", "env"} /\ torn' \in BOOLEAN /\ (torn => torn')
  BY <1>1 DEF Inv, FileTypes
<1>5. FileTypes'
  BY <1>1, <1>2, <1>3, <1>4 DEF Inv, FileTypes
<1>6. DirInv'
  BY <1>1, <1>2 DEF Inv, DirInv
<1>7. CASE pc[p] \in Leased
  <2>1. Whole(rendered') \/ torn'
    BY <1>1, <1>7 DEF Inv, Holds, TempOf, Whole
  <2> QED
    BY <1>1, <1>2, <1>3, <1>5, <1>6, <1>7, <2>1, Ends
<1>8. CASE pc[p] \notin Leased
  <2>1. /\ ProcInv' /\ pc'[p] = "idle" /\ lock' = lock
        /\ \A q \in Proc \ {p} : pc'[q] = pc[q] /\ config'[q] = config[q]
    BY <1>1, <1>8, ReturnOK DEF Inv, ProcInv
  <2>2. Holds(p)'
    BY <1>3, <2>1, LabelFacts, NothingToKeep
  <2>3. ASSUME NEW q \in Proc \ {p} PROVE Holds(q)'
    <3>1. pc'[q] = pc[q] /\ New(q)' = New(q) /\ config'[q] = config[q]
      BY <2>1 DEF New
    <3>2. TempOf(q)'
      BY <1>1, <1>3, <1>4, <3>1 DEF Inv, Holds, TempOf, Whole
    <3>3. ~tampered' => WriteOf(q)'
      BY <1>1, <1>3, <3>1 DEF Inv, Holds, WriteOf
    <3> QED
      BY <1>2, <3>2, <3>3 DEF Holds
  <2>4. FreeInv'
    BY <1>1, <1>2, <1>4, <2>1 DEF Inv, FreeInv, Whole
  <2> QED
    BY <1>5, <1>6, <2>1, <2>2, <2>3, <2>4 DEF Inv
<1> QED
  BY <1>7, <1>8

-----------------------------------------------------------------------------
(* Every step.                                                             *)

LEMMA NextInv == Inv /\ [Next]_vars => Inv'
<1> SUFFICES ASSUME Inv, [Next]_vars PROVE Inv'
  OBVIOUS
<1>0. {"idle", "s_lease", "r_prompt", "r_lease"} \subseteq Label \ Leased
  BY LabelFacts DEF Label
<1>1. ASSUME NEW p \in Proc, Start(p) PROVE Inv'
  <2>1. CASE StartLoad(p)
    BY <1>0, <2>1, LoadStep DEF StartLoad
  <2>2. CASE StartLease(p)
    BY <1>0, <2>2, LeaseStep DEF StartLease
  <2> QED
    BY <1>1, <2>1, <2>2, StartKubeStep, WriteDirStep, WriteFilesStep, WriteMoveStep,
       WriteInstallStep, WriteDropStep, WriteLockStep, WriteReturnStep, EnvCheckStep,
       EnvInstallStep, StartStatusStep DEF Start
<1>2. ASSUME NEW p \in Proc, Reset(p) PROVE Inv'
  <2>1. CASE ResetShow(p)
    BY <1>0, <2>1, LoadStep DEF ResetShow
  <2>2. CASE ResetAnswer(p)
    BY <1>0, <2>2, LoadStep, ReturnStep DEF ResetAnswer
  <2>3. CASE ResetLease(p)
    BY <1>0, <2>3, LeaseStep DEF ResetLease
  <2> QED
    BY <1>2, <2>1, <2>2, <2>3, ResetKubeStep, ResetEnvStep, ResetUnlinkStep, ResetRenderedStep,
       ResetRemoveStep, ResetDirStep DEF Reset
<1>3. CASE UNCHANGED vars
  BY <1>3 DEF vars, Inv, ProcInv, ProcTypes, FileTypes, DirInv, FreeInv, Holds, TempOf, WriteOf,
              AgreeOf, Agree, New, Whole
<1> QED
  BY <1>1, <1>2, <1>3, StudentStep, CrashStep DEF Next

LEMMA WorkingDirectoryInv == Spec => []Inv
BY InitInv, NextInv, PTL DEF Spec

-----------------------------------------------------------------------------
(* The invariants that the runs check.                                     *)

\* What is in .tripgo/rendered is a whole bundle at every moment of every start,
\* whatever generator.Write or reset fail at; only an interrupted removal leaves
\* a part of one.
THEOREM BundlesAreWhole == Spec => []RenderedIsWhole
<1>1. Inv => RenderedIsWhole
  <2> SUFFICES ASSUME Inv, rendered \notin {None, User}, ~rendered.whole, ~torn
               PROVE  \E p \in Proc : pc[p] = "r_remove"
    BY DEF RenderedIsWhole
  <2>1. ~(Whole(rendered) \/ torn)
    BY DEF Whole
  <2>2. lock # None
    BY <2>1 DEF Inv, FreeInv
  <2>3. PICK p \in Proc : lock = p
    BY <2>2 DEF Inv, ProcInv, ProcTypes
  <2>4. pc[p] \in Leased /\ TempOf(p)
    BY <2>3 DEF Inv, ProcInv, Holds
  <2> QED
    BY <2>1, <2>4 DEF TempOf
<1> QED
  BY <1>1, WorkingDirectoryInv, PTL

\* Between commands .env and the manifests come from the same reading of
\* environment.toml and name an environment that exists, when nothing failed and
\* the student touched no output, however often environment.toml is edited.
THEOREM OutputsAlwaysAgree == Spec => []OutputsAgree
<1>1. Inv => OutputsAgree
  BY DEF Inv, FreeInv, Agree, OutputsAgree
<1> QED
  BY <1>1, WorkingDirectoryInv, PTL

-----------------------------------------------------------------------------
(* What the catalog and Parse promise.                                     *)

\* The catalog and the rules of Parse, for the property about later labs.
LEMMA ComponentsFacts ==
  ASSUME NEW lab \in Labs
  PROVE  /\ Components(lab) # <<>>
         /\ Range(Components(lab)) \subseteq Range(AllComponents)
         /\ IsInjective(Components(lab))
<1> DEFINE n == IF lab < 4 THEN lab ELSE 4
           c == Components(lab)
<1>1. lab \in Int /\ n \in 1..4
  BY DEF Labs
<1>2. /\ Len(AllComponents) = 4 /\ DOMAIN AllComponents = 1..4
      /\ \A i, j \in 1..4 : AllComponents[i] = AllComponents[j] => i = j
  <2>1. /\ AllComponents[1] = "postgres" /\ AllComponents[2] = "observability"
        /\ AllComponents[3] = "push" /\ AllComponents[4] = "redpanda"
        /\ Len(AllComponents) = 4 /\ DOMAIN AllComponents = 1..4
    BY DEF AllComponents
  <2>2. \A i \in 1..4 : i \in {1, 2, 3, 4}
    OBVIOUS
  <2>4. ASSUME NEW i \in 1..4, NEW j \in 1..4, AllComponents[i] = AllComponents[j] PROVE i = j
    BY <2>1, <2>2, <2>4
  <2> QED
    BY <2>1, <2>4
<1>3. c = SubSeq(AllComponents, 1, n)
  BY DEF Components
<1> HIDE DEF n, c
<1>4. /\ DOMAIN c = 1..n
      /\ \A i \in 1..n : c[i] = AllComponents[i]
  <2>1. 1 \in Nat \ {0} /\ n \in Nat /\ n <= Len(AllComponents)
    BY <1>1, <1>2
  <2>2. c = [i \in 1..n |-> AllComponents[i]]
    BY <1>3, <2>1
  <2> QED
    BY <2>1, <2>2
<1>5. c # <<>>
  BY <1>1, <1>4
<1>6. Range(c) \subseteq Range(AllComponents)
  <2>1. \A i \in DOMAIN c : i \in DOMAIN AllComponents /\ c[i] = AllComponents[i]
    BY <1>1, <1>2, <1>4
  <2> QED
    BY <2>1 DEF Range
<1>7. IsInjective(c)
  BY <1>1, <1>2, <1>4 DEF IsInjective
<1> QED
  BY <1>5, <1>6, <1>7 DEF c

LEMMA MovesLater ==
  ASSUME NEW d \in Document, Parses(d), NEW lab \in d.lab..5
  PROVE  Parses([d EXCEPT !.lab = lab, !.components = Components(lab)])
<1> DEFINE e == [d EXCEPT !.lab = lab, !.components = Components(lab)]
<1>1. /\ e.schema = d.schema /\ e.lab = lab /\ e.components = Components(lab) /\ e.env = d.env
  BY DEF Document
<1>2. d.schema = 1 /\ lab \in Labs
  BY DEF Parses, Labs
<1>3. \A x \in d.env : NameAllowed(x, lab)
  BY DEF Parses, NameAllowed, IsBuiltIn
<1> HIDE DEF e
<1>4. Parses(e)
  BY <1>1, <1>2, <1>3, ComponentsFacts DEF Parses
<1> QED
  BY <1>4 DEF e

\* A document that Parse accepts is accepted for every later lab once its
\* components are those of that lab: IsBuiltInEnvName reserves the names of all
\* labs from the first one on.
THEOREM LaterLabsAccept == Spec => []ValidMovesLater
<1>1. Inv => ValidMovesLater
  BY DirectoryAssumption, MovesLater DEF Inv, FileTypes, ValidMovesLater
<1> QED
  BY <1>1, WorkingDirectoryInv, PTL

-----------------------------------------------------------------------------
(* What a step never does.                                                 *)

\* A step that ends a failed Write leaves the directory as the failure left it.
LEMMA EndOfFailedWrite ==
  ASSUME Inv, Next, NEW p \in Proc, pc[p] = "w_failed", pc'[p] = "idle"
  PROVE  rendered' = rendered
<1>1. pc[p] \in Leased
  BY DEF Leased, WriteLabels
<1>2. lock = p /\ \A q \in Proc \ {p} : pc[q] \notin Leased
  BY <1>1, Holder DEF Inv
<1>3. ASSUME NEW q \in Proc, Start(q) \/ Reset(q) \/ Crash(q) PROVE rendered' = rendered
  <2>1. CASE q = p
    BY <1>3, <2>1 DEF Start, Reset, Crash, StartLoad, StartLease, StartKube, WriteDir, WriteFiles,
       WriteMove, WriteInstall, WriteDrop, WriteLock, WriteReturn, EnvCheck, EnvInstall,
       StartStatus, ResetShow, ResetAnswer, ResetLease, ResetKube, ResetEnv, ResetUnlink,
       ResetRendered, ResetRemove, ResetDir, Load, Lease, files
  <2>2. CASE q # p
    <3>1. pc[q] \notin WriteLabels /\ pc[q] \notin {"s_kube", "w_dir", "e_check", "e_install",
            "s_status", "r_kube", "r_env", "r_unlink", "r_rend", "r_remove", "r_dir"}
      BY <1>2, <2>2 DEF Leased
    <3> QED
      BY <1>3, <3>1 DEF Start, Reset, Crash, StartLoad, StartLease, StartKube, WriteDir, WriteFiles,
         WriteMove, WriteInstall, WriteDrop, WriteLock, WriteReturn, EnvCheck, EnvInstall,
         StartStatus, ResetShow, ResetAnswer, ResetLease, ResetKube, ResetEnv, ResetUnlink,
         ResetRendered, ResetRemove, ResetDir, Load, Lease, files, WriteLabels
  <2> QED
    BY <2>1, <2>2
<1>4. CASE EditToml \/ PutEnv \/ PutSibling \/ PutFile
  BY <1>4 DEF EditToml, PutEnv, PutSibling, PutFile
<1> QED
  BY <1>3, <1>4 DEF Next

\* A generator.Write in which one call fails leaves the output it found or the
\* one it made, when the student keeps out of the way.
THEOREM FailedWritesKeepOutput == Spec => FailedWriteKeepsOutput
<1> DEFINE A ==
      \A p \in Proc :
        pc[p] = "w_failed" /\ pc'[p] = "idle" /\ hurt[p] = 1 /\ had[p] # None /\ ~tampered =>
          rendered' \in {had[p], [of |-> config[p], whole |-> TRUE]}
<1>1. Inv /\ [Next]_vars => [A]_vars
  <2> SUFFICES ASSUME Inv, Next, NEW p \in Proc, pc[p] = "w_failed", pc'[p] = "idle",
                      hurt[p] = 1, had[p] # None, ~tampered
               PROVE  rendered' \in {had[p], [of |-> config[p], whole |-> TRUE]}
    OBVIOUS
  <2>1. rendered' = rendered
    BY EndOfFailedWrite
  <2>2. rendered \in {had[p], New(p)}
    BY DEF Inv, Holds, WriteOf
  <2> QED
    BY <2>1, <2>2 DEF New
<1> QED
  BY <1>1, WorkingDirectoryInv, PTL DEF Spec, FailedWriteKeepsOutput

\* A step that is no part of Write or of the removal leaves the outputs.
LEMMA OutputsLeft ==
  ASSUME NEW p \in Proc,
         \/ StartLoad(p) \/ StartLease(p) \/ StartKube(p) \/ WriteDir(p) \/ WriteFiles(p)
         \/ WriteLock(p) \/ EnvCheck(p) \/ EnvInstall(p) \/ StartStatus(p) \/ ResetShow(p)
         \/ ResetAnswer(p) \/ ResetLease(p) \/ ResetKube(p) \/ ResetEnv(p) \/ ResetUnlink(p)
         \/ ResetDir(p)
  PROVE  UNCHANGED <<rendered, litter, prev>>
BY DEF StartLoad, StartLease, StartKube, WriteDir, WriteFiles, WriteLock, EnvCheck, EnvInstall,
   StartStatus, ResetShow, ResetAnswer, ResetLease, ResetKube, ResetEnv, ResetUnlink, ResetDir,
   Lease, files, temps

\* Once there is an output, no start loses the last one, wherever it fails or is
\* killed between the renames of generator.Write: there is the new output, the
\* old one or a backup, unless the rename back fails too or is blocked by a file
\* of the student.
THEOREM LastOutputSurvives == Spec => OutputSurvives
<1> DEFINE Allowed == rendered = User \/ \E p \in Proc : pc[p] = "r_remove" \/ hurt[p] > 1
           A == HasOutput /\ ~HasOutput' => Allowed
<1>1. Inv /\ [Next]_vars => [A]_vars
  <2> SUFFICES ASSUME Inv, Next, HasOutput, ~HasOutput' PROVE Allowed
    OBVIOUS
  <2>1. /\ prev \in [Proc -> Output \cup {None}] /\ rendered \in Output \cup {None, User}
        /\ \A p \in Proc : TempOf(p)
    BY DEF Inv, FileTypes, Holds
  <2>2. /\ rendered' \in {None, User} /\ "backup" \notin litter'
        /\ \A p \in Proc : prev'[p] = None
    BY DEF HasOutput
  <2>3. ~UNCHANGED <<rendered, litter, prev>>
    BY DEF HasOutput
  <2>4. ASSUME NEW p \in Proc, WriteMove(p) PROVE Allowed
    <3>1. litter \subseteq litter' /\ prev[p] = None
      BY <2>1, <2>4 DEF WriteMove, TempOf
    <3>2. \A q \in Proc \ {p} : prev'[q] = prev[q]
      BY <2>1, <2>4 DEF WriteMove
    <3>3. rendered \notin {None, User} => prev'[p] # None \/ rendered' = rendered
      BY <2>1, <2>4 DEF WriteMove
    <3> QED
      BY <2>2, <3>1, <3>2, <3>3 DEF HasOutput
  <2>5. ASSUME NEW p \in Proc, WriteInstall(p) PROVE Allowed
    <3>1. stage[p] = New(p) /\ pc[p] \in Leased /\ UNCHANGED litter
      BY <2>1, <2>5 DEF WriteInstall, TempOf, Leased, WriteLabels
    <3>2. New(p) \notin {None, User}
      BY <3>1, Holder, NewFacts DEF Inv
    <3>3. UNCHANGED <<rendered, prev>> \/ Restore(p)
      BY <2>2, <2>5, <3>1, <3>2 DEF WriteInstall
    <3>4. CASE Restore(p)
      <4>1. CASE rendered = None
        <5>1. rendered' = prev[p] /\ \A q \in Proc \ {p} : prev'[q] = prev[q]
          BY <2>1, <3>4, <4>1 DEF Restore
        <5>2. prev[p] = None
          BY <2>1, <2>2, <5>1, Values
        <5> QED
          BY <2>2, <3>1, <4>1, <5>1, <5>2 DEF HasOutput
      <4>2. CASE rendered # None
        BY <2>3, <3>1, <3>4, <4>2 DEF Restore
      <4> QED
        BY <4>1, <4>2
    <3> QED
      BY <2>3, <3>1, <3>3, <3>4
  <2>6. ASSUME NEW p \in Proc, WriteDrop(p) PROVE Allowed
    BY <2>1, <2>2, <2>6, Values DEF WriteDrop, TempOf, files
  <2>7. ASSUME NEW p \in Proc, WriteReturn(p) PROVE Allowed
    <3>1. UNCHANGED rendered /\ litter \subseteq litter' /\ pc[p] \in {"w_done", "w_failed"}
      BY <2>7 DEF WriteReturn
    <3>2. \A q \in Proc \ {p} : prev'[q] = prev[q]
      BY <2>1, <2>7 DEF WriteReturn
    <3>3. prev[p] # None
      BY <2>2, <3>1, <3>2 DEF HasOutput
    <3> QED
      BY <2>1, <2>2, <3>1, <3>3 DEF TempOf
  <2>8. ASSUME NEW p \in Proc, ResetRendered(p) PROVE Allowed
    <3>1. UNCHANGED <<litter, prev>> /\ (rendered \in Output => rendered' \in Output)
      BY <2>8, OutputFacts DEF ResetRendered, temps
    <3> QED
      BY <2>1, <2>2, <3>1, Values DEF HasOutput
  <2>9. ASSUME NEW p \in Proc, ResetRemove(p) PROVE Allowed
    BY <2>9 DEF ResetRemove
  <2>10. ASSUME NEW p \in Proc, Crash(p) PROVE Allowed
    <3>1. /\ UNCHANGED rendered /\ litter \subseteq litter'
          /\ prev[p] # None => "backup" \in litter'
      BY <2>10 DEF Crash
    <3>2. \A q \in Proc \ {p} : prev'[q] = prev[q]
      BY <2>1, <2>10 DEF Crash
    <3> QED
      BY <2>2, <3>1, <3>2 DEF HasOutput
  <2>11. CASE EditToml \/ PutEnv \/ PutSibling \/ PutFile
    <3>1. UNCHANGED <<litter, prev>> /\ (rendered' = rendered \/ rendered = None)
      BY <2>11 DEF EditToml, PutEnv, PutSibling, PutFile, temps
    <3> QED
      BY <2>2, <3>1 DEF HasOutput
  <2> QED
    BY <2>3, <2>4, <2>5, <2>6, <2>7, <2>8, <2>9, <2>10, <2>11, OutputsLeft DEF Next, Start, Reset
<1> QED
  BY <1>1, WorkingDirectoryInv, PTL DEF Spec, OutputSurvives

\* What a command may take away: nothing of the student.
LEMMA StudentKept ==
  ASSUME Inv, Next
  PROVE  /\ dotenv = User /\ dotenv' # User => raced
         /\ rendered = User => rendered' = User
         /\ tripgo = "user" => tripgo' = "user"
<1>1. ASSUME NEW p \in Proc,
             StartLoad(p) \/ StartLease(p) \/ StartKube(p) \/ WriteFiles(p) \/ WriteDrop(p)
             \/ EnvCheck(p) \/ StartStatus(p) \/ ResetShow(p) \/ ResetAnswer(p) \/ ResetLease(p)
             \/ ResetKube(p) \/ ResetEnv(p)
      PROVE  UNCHANGED <<dotenv, rendered, tripgo>>
  BY <1>1 DEF StartLoad, StartLease, StartKube, WriteFiles, WriteDrop, EnvCheck, StartStatus,
     ResetShow, ResetAnswer, ResetLease, ResetKube, ResetEnv, Lease, files
<1>2. ASSUME NEW p \in Proc, WriteLock(p) \/ WriteReturn(p) \/ Crash(p)
      PROVE  UNCHANGED <<dotenv, rendered, tripgo>>
  BY <1>2 DEF WriteLock, WriteReturn, Crash
<1>3. ASSUME NEW p \in Proc, WriteDir(p)
      PROVE  UNCHANGED <<dotenv, rendered>> /\ (tripgo = "user" => tripgo' = "user")
  BY <1>3 DEF WriteDir
<1>4. ASSUME NEW p \in Proc, WriteMove(p) \/ WriteInstall(p)
      PROVE  UNCHANGED <<dotenv, tripgo>> /\ (rendered = User => rendered' = User)
  BY <1>4, Values DEF WriteMove, WriteInstall, Restore
<1>5. ASSUME NEW p \in Proc, EnvInstall(p)
      PROVE  UNCHANGED <<rendered, tripgo>> /\ (dotenv = User => raced)
  BY <1>5 DEF EnvInstall, Inv, Holds, TempOf
<1>6. ASSUME NEW p \in Proc, ResetUnlink(p)
      PROVE  UNCHANGED <<rendered, tripgo>> /\ (dotenv = User => raced)
  BY <1>6 DEF ResetUnlink, Inv, Holds, TempOf
<1>7. ASSUME NEW p \in Proc, ResetRendered(p)
      PROVE  UNCHANGED <<dotenv, tripgo>> /\ (rendered = User => rendered' = User)
  BY <1>7 DEF ResetRendered
<1>8. ASSUME NEW p \in Proc, ResetRemove(p)
      PROVE  UNCHANGED <<dotenv, tripgo>> /\ rendered # User
  BY <1>8, Values DEF ResetRemove, Inv, Holds, TempOf
<1>9. ASSUME NEW p \in Proc, ResetDir(p)
      PROVE  UNCHANGED <<dotenv, rendered>> /\ tripgo # "user"
  BY <1>9 DEF ResetDir, Inv, Holds, TempOf
<1>10. CASE EditToml \/ PutEnv \/ PutSibling \/ PutFile
  BY <1>10, Values DEF EditToml, PutEnv, PutSibling, PutFile
<1> QED
  BY <1>1, <1>2, <1>3, <1>4, <1>5, <1>6, <1>7, <1>8, <1>9, <1>10 DEF Next, Start, Reset

\* What the student made survives every command: a .env without the marker
\* unless it appears between the last look at the marker and the rename of
\* writeEnv or the removal of removeGenerated, a file in the place of .tripgo or
\* .tripgo/rendered, and a .tripgo with other entries.
THEOREM StudentFilesKept == Spec => StudentFilesAreKept
<1> DEFINE A == /\ dotenv = User /\ dotenv' # User => raced
                /\ rendered = User => rendered' = User
                /\ tripgo = "user" => tripgo' = "user"
                /\ sibling' \/ legacy' = "user" => tripgo' = "dir"
<1>1. Inv /\ Inv' /\ [Next]_vars => [A]_vars
  BY StudentKept DEF Inv, DirInv
<1> QED
  BY <1>1, WorkingDirectoryInv, PTL DEF Spec, StudentFilesAreKept
=============================================================================
