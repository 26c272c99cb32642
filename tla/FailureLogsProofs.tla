------------------------- MODULE FailureLogsProofs -------------------------
(***************************************************************************)
(* The safety properties of FailureLogs for any number of processes, names *)
(* and faults and any retention.                                           *)
(*                                                                         *)
(* RetentionBounded is no invariant of the steps by itself: whether a log  *)
(* may be added depends on what the listings in the hands of the other     *)
(* processes will still remove.  Budget says so for every group of         *)
(* processes at once.                                                      *)
(***************************************************************************)
EXTENDS FailureLogs, FiniteSetTheorems, TLAPS

-----------------------------------------------------------------------------
(* The inductive invariant.                                                *)

Log == [name : Name, time : Nat]

Label == {"idle", "list", "stat", "prune", "create", "write", "sync", "undo"}

\* Labels at which a process has a file of its own.
Writing == {"write", "sync", "undo"}

TypeOK ==
  /\ dir \in SUBSET Name /\ full \in SUBSET Name /\ pruned \in SUBSET Name
  /\ mtime \in [Name -> Nat] /\ born \in [Name -> Nat]
  /\ now \in Nat \ {0}
  /\ pc \in [Proc -> Label]
  /\ todo \in [Proc -> SUBSET Name]
  /\ logs \in [Proc -> SUBSET Log]
  /\ file \in [Proc -> Name \cup {None}]
  /\ path \in [Proc -> Name \cup {None}]
  /\ faults \in Nat /\ left \in Nat

Used == {n \in Name : born[n] # 0}

\* A name is used once, and its times are in order.
TimeInv ==
  /\ dir \subseteq Used /\ pruned \subseteq Used
  /\ \A n \in Used : born[n] <= mtime[n] /\ mtime[n] <= now

\* Every log belongs to the process that made it, until it is reported.
FileInv ==
  /\ \A p \in Proc : pc[p] \in Writing <=> file[p] # None
  /\ \A p \in Proc : {file[p], path[p]} \subseteq Used \cup {None}
  /\ \A p, q \in Proc : file[p] = file[q] /\ file[p] # None => p = q
  /\ \A p, q \in Proc : path[p] # None => path[p] # file[q]

\* What a process has written is there, or was pruned.
WrittenInv ==
  /\ \A p \in Proc : pc[p] \in {"write", "sync"} => file[p] \in dir \cup pruned
  /\ \A p \in Proc : pc[p] = "sync" => file[p] \in full
  /\ ReportedIsComplete

Names(found) == {e.name : e \in found}

\* The part of a listing that its process has not forgotten.
Listed(p) == todo[p] \cup Names(logs[p])

\* A listing has every log once, with a time that it had.
ListInv ==
  \A p \in Proc :
    /\ todo[p] \subseteq Used
    /\ pc[p] # "stat" => todo[p] = {}
    /\ pc[p] \notin {"stat", "prune"} => logs[p] = {}
    /\ \A e \in logs[p] :
         /\ e.name \in Used \ todo[p]
         /\ born[e.name] <= e.time /\ e.time <= mtime[e.name]
    /\ \A e, f \in logs[p] : e.name = f.name => e = f

\* The logs made or written since n was made, at least Retention - 1 of them.
Newer(n) == {m \in Name \ {n} : born[m] # 0 /\ mtime[m] >= born[n]}

Old(n) == Cardinality(Newer(n)) >= Retention - 1

OldInv ==
  /\ \A n \in pruned : Old(n)
  /\ \A p \in Proc : pc[p] = "prune" => \A e \in logs[p] : Old(e.name)

\* A process that has listed the directory and not created its log yet, and a
\* set of logs that may be left when it has pruned.
Ready(p, rest) ==
  /\ pc[p] \in {"stat", "prune", "create"}
  /\ pc[p] = "stat" => Cardinality(rest \cap Listed(p)) <= Retention - 1
  /\ pc[p] = "prune" => rest \cap Names(logs[p]) = {}

\* Whatever is left when a group of processes has pruned has room for the logs
\* that they will create.
Budget ==
  \A group \in SUBSET Proc, rest \in SUBSET dir :
    (\A p \in group : Ready(p, rest)) =>
      Cardinality(rest) + Cardinality(group) <= Retention - 1 + Cardinality(Proc) + left

Inv == TypeOK /\ TimeInv /\ FileInv /\ WrittenInv /\ ListInv /\ OldInv /\ Budget

-----------------------------------------------------------------------------
(* Counting.                                                               *)

\* Cardinalities of sets of names and of processes are numbers.
LEMMA FiniteNames ==
  ASSUME NEW names \in SUBSET Name
  PROVE  IsFiniteSet(names) /\ Cardinality(names) \in Nat
BY LogSetsAssumption, FS_Subset, FS_CardinalityType

LEMMA FiniteProcs ==
  ASSUME NEW group \in SUBSET Proc
  PROVE  /\ IsFiniteSet(group) /\ Cardinality(group) \in Nat
         /\ Cardinality(Proc) \in Nat /\ Cardinality(group) <= Cardinality(Proc)
BY LogSetsAssumption, FS_Subset, FS_CardinalityType

\* Logs with distinct names are as many as their names.
LEMMA NamesCount ==
  ASSUME NEW found \in SUBSET Log, \A e, f \in found : e.name = f.name => e = f
  PROVE  /\ IsFiniteSet(found) /\ Cardinality(found) \in Nat
         /\ Names(found) \in SUBSET Name
         /\ Cardinality(Names(found)) = Cardinality(found)
<1> DEFINE f == [e \in found |-> e.name]
<1>1. Names(found) \in SUBSET Name
  BY DEF Names, Log
<1>2. f \in Injection(found, Names(found)) /\ f \in Surjection(found, Names(found))
  BY DEF Names, Injection, Surjection, IsInjective
<1>3. IsFiniteSet(Names(found))
  BY <1>1, FiniteNames
<1> HIDE DEF f
<1>4. IsFiniteSet(found) /\ Cardinality(found) = Cardinality(Names(found))
  BY <1>2, <1>3, FS_Injection
<1> QED
  BY <1>1, <1>4, FS_CardinalityType

\* What pruneFailureLogs keeps of the logs it found: Retention - 1 of them, all
\* at least as new as what it removes, or all when there are no more.
LEMMA VictimsFacts ==
  ASSUME NEW found \in SUBSET Log, \A e, f \in found : e.name = f.name => e = f,
         NEW v \in Victims(found)
  PROVE  /\ v \subseteq found
         /\ Cardinality(found \ v) <= Retention - 1
         /\ v # {} => Cardinality(found \ v) = Retention - 1
         /\ \A e \in v, k \in found \ v : k.time >= e.time
<1>1. /\ v \subseteq found /\ Cardinality(v) = Excess(Cardinality(found))
      /\ \A e \in v, k \in found \ v : k.time >= e.time
  BY DEF Victims
<1>2. IsFiniteSet(found) /\ Cardinality(found) \in Nat
  BY NamesCount
<1>3. IsFiniteSet(v) /\ IsFiniteSet(found \ v)
  BY <1>1, <1>2, FS_Subset
<1>4. Cardinality(v) \in Nat /\ Cardinality(found \ v) \in Nat
  BY <1>3, FS_CardinalityType
<1>5. Cardinality(found) = Cardinality(v) + Cardinality(found \ v)
  <2>1. found \cap v = v
    BY <1>1
  <2>2. Cardinality(found \ v) = Cardinality(found) - Cardinality(found \cap v)
    BY <1>2, FS_Difference
  <2> QED
    BY <1>2, <1>4, <2>1, <2>2
<1>6. v # {} => Cardinality(v) # 0
  BY <1>3, FS_EmptySet
<1>7. Cardinality(found) >= Retention =>
        Cardinality(v) = Cardinality(found) - (Retention - 1)
  BY <1>1 DEF Excess
<1>8. ~(Cardinality(found) >= Retention) => Cardinality(v) = 0
  BY <1>1 DEF Excess
<1> QED
  BY <1>1, <1>2, <1>4, <1>5, <1>6, <1>7, <1>8, RetentionAssumption

-----------------------------------------------------------------------------
(* What grows with time.                                                   *)

\* A log stays old: times of other logs only grow.
LEMMA OldStays ==
  ASSUME TypeOK, TypeOK', NEW n \in Used, Old(n),
         \A m \in Used : born'[m] = born[m] /\ mtime'[m] >= mtime[m]
  PROVE  Old(n)'
<1>1. Newer(n) \subseteq Newer(n)'
  <2> SUFFICES ASSUME NEW m \in Newer(n) PROVE m \in Newer(n)'
    OBVIOUS
  <2>1. m \in Name \ {n} /\ m \in Used /\ mtime[m] >= born[n] /\ n \in Name
    BY DEF Newer, Used
  <2>2. born'[m] = born[m] /\ mtime'[m] >= mtime[m] /\ born'[n] = born[n]
    BY <2>1
  <2>3. born'[m] # 0
    BY <2>1, <2>2 DEF Used
  <2>4. mtime'[m] \in Nat /\ mtime[m] \in Nat /\ born[n] \in Nat
    BY <2>1 DEF TypeOK
  <2>5. mtime'[m] >= born'[n]
    BY <2>1, <2>2, <2>4
  <2> QED
    BY <2>1, <2>3, <2>5 DEF Newer
<1>2. Newer(n)' \in SUBSET Name /\ Newer(n) \in SUBSET Name
  BY DEF Newer
<1>3. /\ Cardinality(Newer(n)) \in Nat /\ Cardinality(Newer(n)') \in Nat
      /\ Cardinality(Newer(n)) <= Cardinality(Newer(n)')
  BY <1>1, <1>2, FiniteNames, FS_Subset
<1>4. Old(n)' <=> Cardinality(Newer(n)') >= Retention - 1
  BY DEF Old
<1> QED
  BY <1>3, <1>4, RetentionAssumption DEF Old

\* The budget is kept by a step that adds no log and makes no process ready.
LEMMA BudgetKept ==
  ASSUME Budget, left \in Nat, left' \in Nat, left' >= left, dir \in SUBSET Name,
         dir' \subseteq dir,
         \A q \in Proc, rest \in SUBSET dir' : Ready(q, rest)' => Ready(q, rest)
  PROVE  Budget'
<1> SUFFICES ASSUME NEW group \in SUBSET Proc, NEW rest \in SUBSET dir',
                    \A q \in group : Ready(q, rest)'
             PROVE  Cardinality(rest) + Cardinality(group)
                      <= Retention - 1 + Cardinality(Proc) + left'
  BY DEF Budget
<1>1. rest \in SUBSET dir /\ \A q \in group : Ready(q, rest)
  OBVIOUS
<1>2. Cardinality(rest) + Cardinality(group) <= Retention - 1 + Cardinality(Proc) + left
  BY <1>1 DEF Budget
<1>3. Cardinality(rest) \in Nat /\ Cardinality(group) \in Nat /\ Cardinality(Proc) \in Nat
  BY <1>1, FiniteNames, FiniteProcs
<1> QED
  BY <1>2, <1>3, RetentionAssumption

\* A call that left a log where it was may make its process ready.
LEMMA BudgetLeave ==
  ASSUME Budget, left \in Nat, left' = left + 1, dir \in SUBSET Name, dir' = dir,
         NEW p \in Proc,
         \A q \in Proc \ {p}, rest \in SUBSET dir : Ready(q, rest)' => Ready(q, rest)
  PROVE  Budget'
<1> SUFFICES ASSUME NEW group \in SUBSET Proc, NEW rest \in SUBSET dir,
                    \A q \in group : Ready(q, rest)'
             PROVE  Cardinality(rest) + Cardinality(group)
                      <= Retention - 1 + Cardinality(Proc) + left'
  BY DEF Budget
<1>1. group \ {p} \in SUBSET Proc /\ \A q \in group \ {p} : Ready(q, rest)
  OBVIOUS
<1>2. Cardinality(rest) + Cardinality(group \ {p}) <= Retention - 1 + Cardinality(Proc) + left
  BY <1>1 DEF Budget
<1>3. /\ Cardinality(rest) \in Nat /\ Cardinality(group) \in Nat /\ IsFiniteSet(group)
      /\ Cardinality(Proc) \in Nat /\ Cardinality(group \ {p}) \in Nat
  BY <1>1, FiniteNames, FiniteProcs
<1>4. Cardinality(group) <= Cardinality(group \ {p}) + 1
  <2>1. Cardinality(group \ {p}) =
          IF p \in group THEN Cardinality(group) - 1 ELSE Cardinality(group)
    BY <1>3, FS_RemoveElement
  <2> QED
    BY <1>3, <2>1
<1> QED
  BY <1>2, <1>3, <1>4, RetentionAssumption

-----------------------------------------------------------------------------
(* How a process moves.                                                    *)

\* How a process moves on, returns or fails.
LEMMA GotoOK ==
  ASSUME TypeOK, NEW p \in Proc, NEW l \in Label, Goto(p, l)
  PROVE  /\ pc' \in [Proc -> Label] /\ pc'[p] = l
         /\ \A q \in Proc \ {p} : pc'[q] = pc[q]
BY DEF TypeOK, Goto

LEMMA ReturnOK ==
  ASSUME TypeOK, NEW p \in Proc, NEW result \in Name \cup {None}, Return(p, result)
  PROVE  /\ pc' \in [Proc -> Label] /\ path' \in [Proc -> Name \cup {None}]
         /\ file' \in [Proc -> Name \cup {None}]
         /\ logs' \in [Proc -> SUBSET Log] /\ todo' \in [Proc -> SUBSET Name]
         /\ pc'[p] = "idle" /\ path'[p] = result /\ file'[p] = None
         /\ logs'[p] = {} /\ todo'[p] = {}
         /\ \A q \in Proc \ {p} : /\ pc'[q] = pc[q] /\ path'[q] = path[q] /\ file'[q] = file[q]
                                  /\ logs'[q] = logs[q] /\ todo'[q] = todo[q]
BY DEF TypeOK, Return, Goto, Label

LEMMA FaultOK ==
  ASSUME TypeOK
  PROVE  /\ Fault => faults' \in Nat
         /\ Leave => faults' \in Nat /\ left' = left + 1 /\ left' \in Nat
BY LogFaultsAssumption DEF TypeOK, Fault, Leave

\* What is known of the readiness of a process that does not move.
LEMMA SameReady ==
  ASSUME NEW q \in Proc, NEW rest, pc'[q] = pc[q], todo'[q] = todo[q], logs'[q] = logs[q]
  PROVE  Ready(q, rest)' <=> Ready(q, rest)
BY DEF Ready, Listed, Names

\* A process outside the window between listing and creating takes no room.
LEMMA NotReady ==
  ASSUME NEW q \in Proc, NEW rest, pc'[q] \notin {"stat", "prune", "create"}
  PROVE  ~Ready(q, rest)'
BY DEF Ready

\* The steps of p after which it is not ready and that add no log.
LEMMA BudgetUnready ==
  ASSUME Budget, TypeOK, left' \in {left, left + 1}, dir' \subseteq dir, NEW p \in Proc,
         pc'[p] \notin {"stat", "prune", "create"},
         \A q \in Proc \ {p} : pc'[q] = pc[q] /\ todo'[q] = todo[q] /\ logs'[q] = logs[q]
  PROVE  Budget'
<1>1. left \in Nat /\ left' \in Nat /\ left' >= left /\ dir \in SUBSET Name
  BY DEF TypeOK
<1>2. ASSUME NEW q \in Proc, NEW rest \in SUBSET dir', Ready(q, rest)' PROVE Ready(q, rest)
  BY <1>2, SameReady, NotReady
<1> QED
  BY <1>1, <1>2, BudgetKept

\* Steps that change no file and no time, and leave the lists of the others.
LEMMA OldKept ==
  ASSUME OldInv, UNCHANGED <<mtime, born, pruned>>, NEW p \in Proc,
         \A q \in Proc \ {p} : pc'[q] = pc[q] /\ logs'[q] = logs[q],
         pc'[p] = "prune" => \A e \in logs'[p] : Old(e.name)
  PROVE  OldInv'
<1>1. ASSUME NEW n PROVE Old(n)' <=> Old(n)
  BY DEF Old, Newer
<1> QED
  BY <1>1 DEF OldInv

-----------------------------------------------------------------------------
(* finish and pruneFailureLogs.                                            *)

LEMMA InitInv == Init => Inv
<1> SUFFICES ASSUME Init PROVE Inv
  OBVIOUS
<1>1. TypeOK
  BY DEF Init, TypeOK, Label
<1>2. TimeInv
  BY DEF Init, TimeInv, Used
<1>3. FileInv
  BY DEF Init, FileInv, Writing
<1>4. WrittenInv
  BY DEF Init, WrittenInv, ReportedIsComplete
<1>5. ListInv
  BY DEF Init, ListInv
<1>6. OldInv
  BY DEF Init, OldInv
<1>7. Budget
  <2> SUFFICES ASSUME NEW group \in SUBSET Proc, NEW rest \in SUBSET dir
               PROVE  Cardinality(rest) + Cardinality(group)
                        <= Retention - 1 + Cardinality(Proc) + left
    BY DEF Budget
  <2>1. rest = {} /\ left = 0
    BY DEF Init
  <2>2. Cardinality(rest) = 0
    BY <2>1, FS_EmptySet
  <2> QED
    BY <2>1, <2>2, FiniteProcs, RetentionAssumption
<1> QED
  BY <1>1, <1>2, <1>3, <1>4, <1>5, <1>6, <1>7 DEF Inv

\* Each call of the file system keeps the invariant.
LEMMA SaveStep ==
  ASSUME Inv, NEW p \in Proc, Save(p)
  PROVE  Inv'
<1>1. /\ pc[p] = "idle" /\ path' = [path EXCEPT ![p] = None]
      /\ UNCHANGED <<dir, full, mtime, born, pruned, now, todo, logs, file, left>>
  BY DEF Save
<1>2. faults' \in Nat /\ pc' \in [Proc -> Label] /\ pc'[p] \in {"idle", "list"}
      /\ \A q \in Proc \ {p} : pc'[q] = pc[q]
  BY <1>1, GotoOK, FaultOK DEF Save, Inv, TypeOK, Label
<1>3. /\ path' \in [Proc -> Name \cup {None}] /\ path'[p] = None
      /\ \A q \in Proc \ {p} : path'[q] = path[q]
  BY <1>1 DEF Inv, TypeOK
<1>4. TypeOK'
  BY <1>1, <1>2, <1>3 DEF Inv, TypeOK
<1>5. TimeInv'
  BY <1>1 DEF Inv, TimeInv, Used
<1>6. FileInv'
  BY <1>1, <1>2, <1>3 DEF Inv, FileInv, Writing, Used
<1>7. WrittenInv'
  BY <1>1, <1>2, <1>3 DEF Inv, WrittenInv, ReportedIsComplete
<1>8. ListInv'
  BY <1>1, <1>2 DEF Inv, ListInv, Used
<1>9. OldInv'
  BY <1>1, <1>2, OldKept DEF Inv
<1>10. Budget'
  BY <1>1, <1>2, BudgetUnready DEF Inv
<1> QED
  BY <1>4, <1>5, <1>6, <1>7, <1>8, <1>9, <1>10 DEF Inv

\* A listing just made names the whole directory, so what its process leaves is
\* within the retention by itself.
LEMMA ReadDirStep ==
  ASSUME Inv, NEW p \in Proc, ReadDir(p)
  PROVE  Inv'
<1>1. /\ pc[p] = "list"
      /\ UNCHANGED <<dir, full, mtime, born, pruned, now, logs, file, path>>
  BY DEF ReadDir
<1>2. /\ faults' \in Nat /\ left' \in Nat
      /\ pc' \in [Proc -> Label] /\ pc'[p] \in {"stat", "create"}
      /\ \A q \in Proc \ {p} : pc'[q] = pc[q]
  BY GotoOK, FaultOK DEF ReadDir, Inv, TypeOK, Label
<1>3. /\ todo' \in [Proc -> SUBSET Name]
      /\ todo'[p] = IF pc'[p] = "stat" THEN dir ELSE {}
      /\ \A q \in Proc \ {p} : todo'[q] = todo[q]
  <2>1. CASE Goto(p, "stat") /\ todo' = [todo EXCEPT ![p] = dir]
    BY <2>1 DEF Inv, TypeOK, Goto
  <2>2. CASE Goto(p, "create") /\ UNCHANGED todo
    BY <1>1, <2>2 DEF Inv, TypeOK, Goto, ListInv
  <2> QED
    BY <2>1, <2>2 DEF ReadDir
<1>4. TypeOK'
  BY <1>1, <1>2, <1>3 DEF Inv, TypeOK
<1>5. TimeInv'
  BY <1>1 DEF Inv, TimeInv, Used
<1>6. FileInv'
  BY <1>1, <1>2 DEF Inv, FileInv, Writing, Used
<1>7. WrittenInv'
  BY <1>1, <1>2 DEF Inv, WrittenInv, ReportedIsComplete
<1>8. ListInv'
  <2>1. logs[p] = {}
    BY <1>1 DEF Inv, ListInv
  <2>2. dir \subseteq Used /\ Used' = Used
    BY <1>1 DEF Inv, TimeInv, Used
  <2> QED
    BY <1>1, <1>2, <1>3, <2>1, <2>2 DEF Inv, ListInv
<1>9. OldInv'
  BY <1>1, <1>2, OldKept DEF Inv
<1>10. ASSUME NEW q \in Proc \ {p}, NEW rest \in SUBSET dir PROVE Ready(q, rest)' => Ready(q, rest)
  BY <1>1, <1>2, <1>3, SameReady
<1>11. Budget'
  <2>1. CASE Goto(p, "create") /\ Leave
    BY <1>1, <1>10, <2>1, BudgetLeave, FaultOK DEF Inv, TypeOK
  <2>2. CASE Goto(p, "stat") /\ UNCHANGED left
    <3> SUFFICES ASSUME NEW group \in SUBSET Proc, NEW rest \in SUBSET dir,
                        \A q \in group : Ready(q, rest)'
                 PROVE  Cardinality(rest) + Cardinality(group)
                          <= Retention - 1 + Cardinality(Proc) + left
      BY <1>1, <2>2 DEF Budget
    <3>0. /\ Cardinality(rest) \in Nat /\ Cardinality(group) \in Nat /\ left \in Nat
          /\ Cardinality(Proc) \in Nat /\ Cardinality(group) <= Cardinality(Proc)
      BY FiniteNames, FiniteProcs DEF Inv, TypeOK
    <3>1. CASE p \in group
      <4>1. pc'[p] = "stat" /\ Ready(p, rest)'
        BY <2>2, <3>1, GotoOK DEF Inv, Label
      <4>2. Cardinality(rest \cap Listed(p)') <= Retention - 1
        BY <4>1 DEF Ready
      <4>3. rest \cap Listed(p)' = rest
        BY <1>3, <4>1 DEF Listed
      <4>4. Cardinality(rest) <= Retention - 1
        BY <4>2, <4>3
      <4> QED
        BY <3>0, <4>4, RetentionAssumption
    <3>2. CASE p \notin group
      BY <1>10, <3>2 DEF Inv, Budget
    <3> QED
      BY <3>1, <3>2
  <2> QED
    BY <2>1, <2>2 DEF ReadDir
<1> QED
  BY <1>4, <1>5, <1>6, <1>7, <1>8, <1>9, <1>11 DEF Inv

LEMMA StatStep ==
  ASSUME Inv, NEW p \in Proc, NEW n \in todo[p], Stat(p, n)
  PROVE  Inv'
<1>1. /\ pc[p] = "stat"
      /\ UNCHANGED <<dir, full, mtime, born, pruned, now, pc, file, path>>
  BY DEF Stat
<1> DEFINE entry == [name |-> n, time |-> mtime[n]]
<1>2. PICK new \in SUBSET {entry} :
        /\ todo' = [todo EXCEPT ![p] = @ \ {n}] /\ logs' = [logs EXCEPT ![p] = @ \cup new]
        /\ \/ new = (IF n \in dir THEN {entry} ELSE {}) /\ UNCHANGED <<faults, left>>
           \/ Leave
  <2>1. CASE n \in dir /\ logs' = [logs EXCEPT ![p] = @ \cup {entry}] /\ UNCHANGED <<faults, left>>
    BY <2>1 DEF Stat
  <2>2. CASE n \notin dir /\ UNCHANGED <<logs, faults, left>>
    <3>1. logs' = [logs EXCEPT ![p] = @ \cup {}]
      BY <2>2 DEF Inv, TypeOK
    <3> QED
      BY <2>2, <3>1 DEF Stat
  <2>3. CASE Leave /\ UNCHANGED logs
    <3>1. logs' = [logs EXCEPT ![p] = @ \cup {}]
      BY <2>3 DEF Inv, TypeOK
    <3> QED
      BY <2>3, <3>1 DEF Stat
  <2> QED
    BY <2>1, <2>2, <2>3 DEF Stat
<1>3. faults' \in Nat /\ left' \in Nat
  BY <1>2, FaultOK DEF Inv, TypeOK
<1>4. /\ n \in Name /\ n \in Used /\ mtime[n] \in Nat /\ born[n] <= mtime[n]
      /\ new \in SUBSET Log
      /\ \A e \in new : e.name = n /\ e.time = mtime[n]
  <2>1. n \in Used
    BY DEF Inv, ListInv
  <2>2. n \in Name /\ mtime[n] \in Nat /\ born[n] <= mtime[n]
    BY <2>1 DEF Inv, TypeOK, TimeInv, Used
  <2> QED
    BY <2>1, <2>2 DEF Log
<1>5. /\ todo'[p] = todo[p] \ {n} /\ logs'[p] = logs[p] \cup new
      /\ \A q \in Proc \ {p} : todo'[q] = todo[q] /\ logs'[q] = logs[q]
      /\ todo' \in [Proc -> SUBSET Name] /\ logs' \in [Proc -> SUBSET Log]
  BY <1>4, <1>2 DEF Inv, TypeOK
<1>6. TypeOK'
  BY <1>1, <1>5, <1>3 DEF Inv, TypeOK
<1>7. TimeInv' /\ FileInv' /\ WrittenInv' /\ Used' = Used
  BY <1>1 DEF Inv, TimeInv, FileInv, WrittenInv, ReportedIsComplete, Used
<1>8. ListInv'
  <2>1. ASSUME NEW q \in Proc \ {p}
        PROVE  /\ todo'[q] \subseteq Used'
               /\ pc'[q] # "stat" => todo'[q] = {}
               /\ pc'[q] \notin {"stat", "prune"} => logs'[q] = {}
               /\ \A e \in logs'[q] :
                    /\ e.name \in Used' \ todo'[q]
                    /\ born'[e.name] <= e.time /\ e.time <= mtime'[e.name]
               /\ \A e, f \in logs'[q] : e.name = f.name => e = f
    BY <1>1, <1>5, <1>7 DEF Inv, ListInv
  <2>2. todo'[p] \subseteq Used' /\ pc'[p] = "stat"
    BY <1>1, <1>5, <1>7 DEF Inv, ListInv
  <2>3. ASSUME NEW e \in logs'[p]
        PROVE  /\ e.name \in Used' \ todo'[p]
               /\ born'[e.name] <= e.time /\ e.time <= mtime'[e.name]
    <3>1. CASE e \in logs[p]
      BY <1>1, <1>5, <1>7, <3>1 DEF Inv, ListInv
    <3>2. CASE e \in new
      BY <1>1, <1>4, <1>5, <1>7, <3>2
    <3> QED
      BY <1>5, <3>1, <3>2
  <2>4. ASSUME NEW e \in logs'[p], NEW f \in logs'[p], e.name = f.name PROVE e = f
    <3>1. \A x \in logs[p] : x.name # n
      BY DEF Inv, ListInv
    <3>2. \A x, y \in new : x = y
      OBVIOUS
    <3>3. \A x, y \in logs[p] : x.name = y.name => x = y
      BY DEF Inv, ListInv
    <3> QED
      BY <1>4, <1>5, <2>4, <3>1, <3>2, <3>3
  <2> QED
    BY <2>1, <2>2, <2>3, <2>4 DEF ListInv
<1>9. OldInv'
  BY <1>1, <1>5, OldKept DEF Inv
<1>10. Budget'
  <2>1. ASSUME NEW q \in Proc \ {p}, NEW rest \in SUBSET dir, Ready(q, rest)' PROVE Ready(q, rest)
    BY <1>1, <1>5, <2>1, SameReady
  <2>2. left \in Nat /\ dir \in SUBSET Name /\ dir' = dir
    BY <1>1 DEF Inv, TypeOK
  <2>3. CASE Leave
    BY <2>1, <2>2, <2>3, BudgetLeave, FaultOK DEF Inv
  <2>4. CASE new = (IF n \in dir THEN {entry} ELSE {}) /\ UNCHANGED <<faults, left>>
    <3>1. ASSUME NEW rest \in SUBSET dir, Ready(p, rest)' PROVE Ready(p, rest)
      <4>1. n \in dir => Names(new) = {n}
        BY <1>4, <2>4 DEF Names
      <4>2. rest \cap Listed(p)' = rest \cap Listed(p)
        <5>1. CASE n \in dir
          BY <1>5, <4>1, <5>1 DEF Listed, Names
        <5>2. CASE n \notin dir
          BY <1>1, <1>5, <2>4, <5>2 DEF Listed, Names
        <5> QED
          BY <5>1, <5>2
      <4>3. Cardinality(rest \cap Listed(p)') <= Retention - 1
        BY <1>1, <3>1 DEF Ready
      <4> QED
        BY <1>1, <4>2, <4>3 DEF Ready
    <3>2. ASSUME NEW q \in Proc, NEW rest \in SUBSET dir', Ready(q, rest)' PROVE Ready(q, rest)
      BY <2>1, <2>2, <3>1, <3>2
    <3> QED
      BY <2>2, <2>4, <3>2, BudgetKept DEF Inv
  <2> QED
    BY <1>2, <2>3, <2>4
<1> QED
  BY <1>6, <1>7, <1>8, <1>9, <1>10 DEF Inv

\* What is about to be removed is older than Retention - 1 logs that are kept.
LEMMA VictimsAreOld ==
  ASSUME TypeOK, TimeInv, ListInv, NEW p \in Proc, NEW v \in Victims(logs[p]), NEW e \in v
  PROVE  Old(e.name)
<1> DEFINE kept == logs[p] \ v
<1>1. /\ logs[p] \in SUBSET Log /\ kept \in SUBSET Log
      /\ \A x, y \in logs[p] : x.name = y.name => x = y
  BY DEF TypeOK, ListInv
<1>2. /\ v \subseteq logs[p] /\ Cardinality(kept) = Retention - 1
      /\ \A k \in kept : k.time >= e.time
  BY <1>1, VictimsFacts
<1>3. e \in logs[p] /\ e \notin kept
  BY <1>2
<1>4. /\ Names(kept) \in SUBSET Name /\ Cardinality(Names(kept)) = Retention - 1
  BY <1>1, <1>2, NamesCount
<1>5. Names(kept) \subseteq Newer(e.name)
  <2> SUFFICES ASSUME NEW k \in kept PROVE k.name \in Newer(e.name)
    BY DEF Names
  <2>1. k \in logs[p] /\ k.name # e.name
    BY <1>1, <1>3
  <2>2. /\ k.name \in Used /\ k.time <= mtime[k.name]
        /\ e.name \in Used /\ born[e.name] <= e.time
    BY <1>3, <2>1 DEF ListInv
  <2>3. k.time \in Nat /\ e.time \in Nat /\ mtime[k.name] \in Nat /\ born[e.name] \in Nat
    BY <1>1, <1>3, <2>1, <2>2 DEF Log, TypeOK, Used
  <2>4. k.time >= e.time
    BY <1>2
  <2>5. mtime[k.name] >= born[e.name]
    BY <2>2, <2>3, <2>4
  <2> QED
    BY <2>1, <2>2, <2>5 DEF Newer, Used
<1>6. Newer(e.name) \in SUBSET Name
  BY DEF Newer
<1>7. /\ Cardinality(Names(kept)) <= Cardinality(Newer(e.name))
      /\ Cardinality(Newer(e.name)) \in Nat
  BY <1>5, <1>6, FiniteNames, FS_Subset
<1> QED
  BY <1>4, <1>7, RetentionAssumption DEF Old

\* The victims are the oldest of the listing, so what is left of it is small
\* and what goes has enough newer logs beside it.
LEMMA SortStep ==
  ASSUME Inv, NEW p \in Proc, Sort(p)
  PROVE  Inv'
<1>1. /\ pc[p] = "stat" /\ todo[p] = {}
      /\ UNCHANGED <<dir, full, mtime, born, pruned, now, todo, file, path, faults, left>>
  BY DEF Sort
<1>2. PICK v \in Victims(logs[p]) :
        /\ logs' = [logs EXCEPT ![p] = v]
        /\ Goto(p, IF v = {} THEN "create" ELSE "prune")
  BY DEF Sort
<1>3. /\ logs[p] \in SUBSET Log
      /\ \A x, y \in logs[p] : x.name = y.name => x = y
  BY DEF Inv, TypeOK, ListInv
<1>4. v \subseteq logs[p] /\ Cardinality(logs[p] \ v) <= Retention - 1
  BY <1>3, VictimsFacts
<1>5. /\ logs'[p] = v /\ \A q \in Proc \ {p} : logs'[q] = logs[q]
      /\ logs' \in [Proc -> SUBSET Log]
  BY <1>2, <1>3, <1>4 DEF Inv, TypeOK
<1>6. /\ pc' \in [Proc -> Label] /\ pc'[p] = IF v = {} THEN "create" ELSE "prune"
      /\ \A q \in Proc \ {p} : pc'[q] = pc[q]
  BY <1>2, GotoOK DEF Inv, Label
<1>7. TypeOK'
  BY <1>1, <1>5, <1>6 DEF Inv, TypeOK
<1>8. TimeInv' /\ FileInv' /\ WrittenInv' /\ Used' = Used
  <2>1. TimeInv' /\ Used' = Used
    BY <1>1 DEF Inv, TimeInv, Used
  <2>2. FileInv'
    BY <1>1, <1>6 DEF Inv, FileInv, Used, Writing
  <2>3. WrittenInv'
    BY <1>1, <1>6 DEF Inv, WrittenInv, ReportedIsComplete
  <2> QED
    BY <2>1, <2>2, <2>3
<1>9. ListInv'
  BY <1>1, <1>4, <1>5, <1>6, <1>8 DEF Inv, ListInv
<1>10. OldInv'
  <2>1. \A e \in v : Old(e.name)
    BY VictimsAreOld DEF Inv
  <2> QED
    BY <1>1, <1>5, <1>6, <2>1, OldKept DEF Inv
<1>11. Budget'
  <2>1. ASSUME NEW rest \in SUBSET dir', Ready(p, rest)' PROVE Ready(p, rest)
    <3>1. rest \cap Names(v) = {}
      BY <1>5, <1>6, <2>1 DEF Ready, Names
    <3>2. rest \cap Listed(p) \subseteq Names(logs[p] \ v)
      BY <1>1, <3>1 DEF Listed, Names
    <3>3. Names(logs[p] \ v) \in SUBSET Name /\ Cardinality(Names(logs[p] \ v)) <= Retention - 1
      BY <1>3, <1>4, NamesCount
    <3>4. /\ rest \cap Listed(p) \in SUBSET Name
          /\ Cardinality(rest \cap Listed(p)) <= Cardinality(Names(logs[p] \ v))
      BY <3>2, <3>3, FiniteNames, FS_Subset
    <3>5. Cardinality(rest \cap Listed(p)) <= Retention - 1
      BY <3>3, <3>4, FiniteNames, RetentionAssumption
    <3> QED
      BY <1>1, <3>5 DEF Ready
  <2>2. ASSUME NEW q \in Proc, NEW rest \in SUBSET dir', Ready(q, rest)' PROVE Ready(q, rest)
    BY <1>1, <1>5, <1>6, <2>1, <2>2, SameReady
  <2>3. left \in Nat /\ left' = left /\ dir \in SUBSET Name /\ dir' = dir
    BY <1>1 DEF Inv, TypeOK
  <2> QED
    BY <2>2, <2>3, BudgetKept DEF Inv
<1> QED
  BY <1>7, <1>8, <1>9, <1>10, <1>11 DEF Inv

\* Removing uses up a victim; a removal that fails is counted in left.
LEMMA RemoveStep ==
  ASSUME Inv, NEW p \in Proc, NEW e \in logs[p], Remove(p, e)
  PROVE  Inv'
<1>1. /\ pc[p] = "prune" /\ logs' = [logs EXCEPT ![p] = @ \ {e}]
      /\ Goto(p, IF logs[p] = {e} THEN "create" ELSE "prune")
      /\ UNCHANGED <<full, mtime, born, now, todo, file, path>>
  BY DEF Remove
<1>2. /\ \/ dir' = dir \ {e.name} /\ left' = left
         \/ dir' = dir /\ left' = left + 1 /\ pruned' = pruned
      /\ faults' \in Nat /\ left' \in Nat /\ left \in Nat /\ dir \in SUBSET Name
      /\ pruned \subseteq pruned' /\ pruned' \subseteq pruned \cup {e.name}
      /\ dir \cup pruned \subseteq dir' \cup pruned'
  BY FaultOK DEF Remove, Inv, TypeOK
<1>3. e.name \in Used /\ e.name \in Name /\ Old(e.name)
  BY <1>1 DEF Inv, ListInv, OldInv, Used
<1>4. /\ logs'[p] = logs[p] \ {e} /\ \A q \in Proc \ {p} : logs'[q] = logs[q]
      /\ logs' \in [Proc -> SUBSET Log]
  BY <1>1 DEF Inv, TypeOK
<1>5. /\ pc' \in [Proc -> Label] /\ pc'[p] = IF logs[p] = {e} THEN "create" ELSE "prune"
      /\ \A q \in Proc \ {p} : pc'[q] = pc[q]
  BY <1>1, GotoOK DEF Inv, Label
<1>6. TypeOK'
  BY <1>1, <1>2, <1>3, <1>4, <1>5 DEF Inv, TypeOK
<1>7. TimeInv' /\ Used' = Used
  BY <1>1, <1>2, <1>3 DEF Inv, TimeInv, Used
<1>8. FileInv'
  BY <1>1, <1>5, <1>7 DEF Inv, FileInv, Writing
<1>9. WrittenInv'
  <2>1. \A q \in Proc : pc'[q] \in {"write", "sync"} => pc'[q] = pc[q]
    BY <1>5
  <2> QED
    BY <1>1, <1>2, <2>1 DEF Inv, WrittenInv, ReportedIsComplete
<1>10. ListInv'
  BY <1>1, <1>4, <1>5, <1>7 DEF Inv, ListInv
<1>11. OldInv'
  <2>1. ASSUME NEW m PROVE Old(m)' <=> Old(m)
    BY <1>1 DEF Old, Newer
  <2> QED
    BY <1>1, <1>2, <1>3, <1>4, <1>5, <2>1 DEF Inv, OldInv
<1>12. Budget'
  <2>1. ASSUME NEW q \in Proc \ {p}, NEW rest PROVE Ready(q, rest)' => Ready(q, rest)
    BY <1>1, <1>4, <1>5, SameReady
  <2>2. CASE dir' = dir \ {e.name} /\ left' = left
    <3>1. ASSUME NEW rest \in SUBSET dir', Ready(p, rest)' PROVE Ready(p, rest)
      <4>1. rest \cap Names(logs[p] \ {e}) = {}
        BY <1>4, <1>5, <3>1 DEF Ready, Names
      <4>2. rest \cap Names(logs[p]) = {}
        BY <2>2, <4>1 DEF Names
      <4> QED
        BY <1>1, <4>2 DEF Ready
    <3>2. ASSUME NEW q \in Proc, NEW rest \in SUBSET dir', Ready(q, rest)' PROVE Ready(q, rest)
      BY <2>1, <3>1, <3>2
    <3> QED
      BY <1>2, <2>2, <3>2, BudgetKept DEF Inv
  <2>3. CASE dir' = dir /\ left' = left + 1
    BY <1>2, <2>1, <2>3, BudgetLeave DEF Inv
  <2> QED
    BY <1>2, <2>2, <2>3
<1> QED
  BY <1>6, <1>7, <1>8, <1>9, <1>10, <1>11, <1>12 DEF Inv

-----------------------------------------------------------------------------
(* The log of a process.                                                   *)

\* A process ends and the files stay: Crash, and errors that leave no file.
LEMMA ReturnStep ==
  ASSUME Inv, NEW p \in Proc, NEW result \in {None, file[p]}, Return(p, result),
         result # None => pc[p] = "sync",
         pc[p] # "idle", dir' \subseteq dir, dir \ {file[p]} \subseteq dir',
         result # None => dir' = dir,
         left' \in {left, left + 1}, faults' \in Nat,
         UNCHANGED <<full, mtime, born, pruned, now>>
  PROVE  Inv'
<1>0. result \in Name \cup {None}
  BY DEF Inv, TypeOK
<1>1. /\ pc' \in [Proc -> Label] /\ path' \in [Proc -> Name \cup {None}]
      /\ file' \in [Proc -> Name \cup {None}]
      /\ logs' \in [Proc -> SUBSET Log] /\ todo' \in [Proc -> SUBSET Name]
      /\ pc'[p] = "idle" /\ path'[p] = result /\ file'[p] = None
      /\ logs'[p] = {} /\ todo'[p] = {}
      /\ \A q \in Proc \ {p} : /\ pc'[q] = pc[q] /\ path'[q] = path[q] /\ file'[q] = file[q]
                               /\ logs'[q] = logs[q] /\ todo'[q] = todo[q]
  BY <1>0, ReturnOK DEF Inv
<1>2. TypeOK'
  BY <1>1 DEF Inv, TypeOK
<1>3. TimeInv' /\ Used' = Used
  BY DEF Inv, TimeInv, Used
<1>4. FileInv'
  <2>1. \A q \in Proc : pc'[q] \in Writing <=> file'[q] # None
    BY <1>1 DEF Inv, FileInv, Writing
  <2>2. \A q \in Proc : {file'[q], path'[q]} \subseteq Used' \cup {None}
    BY <1>1, <1>3 DEF Inv, FileInv
  <2>3. \A q, r \in Proc : file'[q] = file'[r] /\ file'[q] # None => q = r
    BY <1>1 DEF Inv, FileInv
  <2>4. ASSUME NEW q \in Proc, NEW r \in Proc, path'[q] # None PROVE path'[q] # file'[r]
    <3>1. CASE r = p
      BY <1>1, <2>4, <3>1
    <3>2. CASE r # p /\ q = p
      BY <1>1, <2>4, <3>2 DEF Inv, FileInv
    <3>3. CASE r # p /\ q # p
      BY <1>1, <2>4, <3>3 DEF Inv, FileInv
    <3> QED
      BY <3>1, <3>2, <3>3
  <2> QED
    BY <2>1, <2>2, <2>3, <2>4 DEF FileInv
<1>5. WrittenInv'
  <2>1. ASSUME NEW q \in Proc, pc'[q] \in {"write", "sync"}
        PROVE  /\ file'[q] \in dir' \cup pruned'
               /\ pc'[q] = "sync" => file'[q] \in full'
    <3>1. q # p /\ pc[q] = pc'[q] /\ file'[q] = file[q] /\ file[q] # None
      BY <1>1, <2>1 DEF Inv, FileInv, Writing
    <3>2. file[q] # file[p]
      BY <3>1 DEF Inv, FileInv
    <3> QED
      BY <2>1, <3>1, <3>2 DEF Inv, WrittenInv
  <2>2. ASSUME NEW q \in Proc, path'[q] # None
        PROVE  path'[q] \in full' /\ path'[q] \in dir' \cup pruned'
    <3>1. CASE q = p
      BY <1>1, <2>2, <3>1 DEF Inv, WrittenInv
    <3>2. CASE q # p
      <4>1. path'[q] = path[q] /\ path[q] # file[p]
        BY <1>1, <2>2, <3>2 DEF Inv, FileInv
      <4> QED
        BY <2>2, <4>1 DEF Inv, WrittenInv, ReportedIsComplete
    <3> QED
      BY <3>1, <3>2
  <2> QED
    BY <2>1, <2>2 DEF WrittenInv, ReportedIsComplete
<1>6. ListInv'
  BY <1>1, <1>3 DEF Inv, ListInv
<1>7. OldInv'
  BY <1>1, OldKept DEF Inv
<1>8. Budget'
  BY <1>1, BudgetUnready DEF Inv
<1> QED
  BY <1>2, <1>3, <1>4, <1>5, <1>6, <1>7, <1>8 DEF Inv

\* A process leaves the group and its log joins what is left.
LEMMA CreateStep ==
  ASSUME Inv, NEW p \in Proc, Create(p)
  PROVE  Inv'
<1>1. pc[p] = "create" /\ UNCHANGED <<full, pruned, left>>
  BY DEF Create
<1>2. CASE Return(p, None) /\ UNCHANGED <<dir, mtime, born, now>> /\ faults' \in Nat
  BY <1>1, <1>2, ReturnStep
<1>3. ASSUME NEW n \in Name, born[n] = 0, Tick,
             mtime' = [mtime EXCEPT ![n] = now'], born' = [born EXCEPT ![n] = now'],
             dir' = dir \cup {n}, file' = [file EXCEPT ![p] = n],
             Goto(p, "write"), UNCHANGED <<todo, logs, path, faults>>
      PROVE  Inv'
  <2>1. now' \in Nat \ {0} /\ now' >= now /\ now \in Nat
    BY <1>3 DEF Tick, Inv, TypeOK
  <2>2. /\ mtime' \in [Name -> Nat] /\ born' \in [Name -> Nat]
        /\ mtime'[n] = now' /\ born'[n] = now'
        /\ \A m \in Name \ {n} : mtime'[m] = mtime[m] /\ born'[m] = born[m]
    BY <1>3, <2>1 DEF Inv, TypeOK
  <2>3. /\ pc' \in [Proc -> Label] /\ pc'[p] = "write"
        /\ \A q \in Proc \ {p} : pc'[q] = pc[q]
    BY <1>3, GotoOK DEF Inv, Label
  <2>4. /\ file' \in [Proc -> Name \cup {None}] /\ file'[p] = n
        /\ \A q \in Proc \ {p} : file'[q] = file[q]
    BY <1>3 DEF Inv, TypeOK
  <2>5. /\ n \notin Used /\ Used' = Used \cup {n} /\ n # None
        /\ \A m \in Used : born'[m] = born[m] /\ mtime'[m] = mtime[m]
    BY <1>3, <2>1, <2>2, LogNoneAssumption DEF Used
  <2>6. TypeOK'
    BY <1>1, <1>3, <2>1, <2>2, <2>3, <2>4 DEF Inv, TypeOK
  <2>7. TimeInv'
    <3>1. dir' \subseteq Used' /\ pruned' \subseteq Used'
      BY <1>1, <1>3, <2>5 DEF Inv, TimeInv
    <3>2. ASSUME NEW m \in Used' PROVE born'[m] <= mtime'[m] /\ mtime'[m] <= now'
      <4>1. CASE m = n
        BY <2>1, <2>2, <4>1
      <4>2. CASE m \in Used
        <5>1. born[m] <= mtime[m] /\ mtime[m] <= now /\ mtime[m] \in Nat /\ born[m] \in Nat
          BY <4>2 DEF Inv, TimeInv, TypeOK, Used
        <5> QED
          BY <2>1, <2>5, <4>2, <5>1
      <4> QED
        BY <2>5, <4>1, <4>2
    <3> QED
      BY <3>1, <3>2 DEF TimeInv
  <2>8. FileInv'
    <3>1. \A q \in Proc : pc'[q] \in Writing <=> file'[q] # None
      BY <2>3, <2>4, <2>5 DEF Inv, FileInv, Writing
    <3>2. \A q \in Proc : file[q] # n /\ path[q] # n
      BY <2>5 DEF Inv, FileInv
    <3>3. \A q \in Proc : {file'[q], path'[q]} \subseteq Used' \cup {None}
      BY <1>3, <2>4, <2>5 DEF Inv, FileInv
    <3>4. \A q, r \in Proc : file'[q] = file'[r] /\ file'[q] # None => q = r
      BY <2>4, <3>2 DEF Inv, FileInv
    <3>5. \A q, r \in Proc : path'[q] # None => path'[q] # file'[r]
      BY <1>3, <2>4, <3>2 DEF Inv, FileInv
    <3> QED
      BY <3>1, <3>3, <3>4, <3>5 DEF FileInv
  <2>9. WrittenInv'
    BY <1>1, <1>3, <2>3, <2>4 DEF Inv, WrittenInv, ReportedIsComplete
  <2>10. ListInv'
    BY <1>1, <1>3, <2>3, <2>5 DEF Inv, ListInv
  <2>11. OldInv'
    <3>1. \A m \in Used : mtime[m] \in Nat
      BY DEF Inv, TypeOK, Used
    <3>2. ASSUME NEW m \in Used, Old(m) PROVE Old(m)'
      BY <2>5, <2>6, <3>1, <3>2, OldStays DEF Inv
    <3>3. \A m \in pruned' : Old(m)'
      BY <1>1, <3>2 DEF Inv, TimeInv, OldInv
    <3>4. ASSUME NEW q \in Proc, pc'[q] = "prune", NEW e \in logs'[q] PROVE Old(e.name)'
      <4>1. pc[q] = "prune" /\ e \in logs[q]
        BY <1>3, <2>3, <3>4
      <4>2. e.name \in Used /\ Old(e.name)
        BY <4>1 DEF Inv, ListInv, OldInv
      <4> QED
        BY <3>2, <4>2
    <3> QED
      BY <3>3, <3>4 DEF OldInv
  <2>12. Budget'
    <3> SUFFICES ASSUME NEW group \in SUBSET Proc, NEW rest \in SUBSET dir',
                        \A q \in group : Ready(q, rest)'
                 PROVE  Cardinality(rest) + Cardinality(group)
                          <= Retention - 1 + Cardinality(Proc) + left
      BY <1>1 DEF Budget
    <3>1. p \notin group
      BY <2>3, NotReady
    <3>2. \A q \in group : Ready(q, rest)
      BY <1>3, <2>3, <3>1, SameReady
    <3>3. rest \ {n} \in SUBSET dir /\ rest \in SUBSET Name
      BY <1>3, <2>6 DEF TypeOK
    <3>4. ASSUME NEW q \in group \cup {p} PROVE Ready(q, rest \ {n})
      <4>1. CASE q = p
        BY <1>1, <4>1 DEF Ready
      <4>2. CASE q # p
        <5>1. Ready(q, rest) /\ q \in Proc
          BY <3>2, <3>4, <4>2
        <5>2. (rest \ {n}) \cap Listed(q) \subseteq rest \cap Listed(q)
          OBVIOUS
        <5>3. Cardinality((rest \ {n}) \cap Listed(q)) <= Cardinality(rest \cap Listed(q))
          BY <3>3, <5>2, FiniteNames, FS_Subset
        <5>4. /\ Cardinality((rest \ {n}) \cap Listed(q)) \in Nat
              /\ Cardinality(rest \cap Listed(q)) \in Nat
          BY <3>3, FiniteNames
        <5> QED
          BY <5>1, <5>3, <5>4, RetentionAssumption DEF Ready
      <4> QED
        BY <4>1, <4>2
    <3>5. Cardinality(rest \ {n}) + Cardinality(group \cup {p})
            <= Retention - 1 + Cardinality(Proc) + left
      BY <3>3, <3>4 DEF Inv, Budget
    <3>6. /\ IsFiniteSet(group) /\ Cardinality(group) \in Nat /\ Cardinality(Proc) \in Nat
          /\ IsFiniteSet(rest) /\ Cardinality(rest) \in Nat /\ left \in Nat
      BY <3>3, FiniteNames, FiniteProcs DEF Inv, TypeOK
    <3>7. Cardinality(group \cup {p}) = Cardinality(group) + 1
      BY <3>1, <3>6, FS_AddElement
    <3>8. Cardinality(rest \ {n}) = IF n \in rest THEN Cardinality(rest) - 1 ELSE Cardinality(rest)
      BY <3>6, FS_RemoveElement
    <3> QED
      BY <3>5, <3>6, <3>7, <3>8, RetentionAssumption
  <2> QED
    BY <2>6, <2>7, <2>8, <2>9, <2>10, <2>11, <2>12 DEF Inv
<1>4. Fault => faults' \in Nat
  BY FaultOK DEF Inv
<1>5. UNCHANGED faults => faults' \in Nat
  BY DEF Inv, TypeOK
<1> QED
  BY <1>2, <1>3, <1>4, <1>5 DEF Create

LEMMA WriteStep ==
  ASSUME Inv, NEW p \in Proc, Write(p)
  PROVE  Inv'
<1>1. pc[p] = "write" /\ UNCHANGED <<dir, born, pruned, now, todo, logs, file, path, left>>
  BY DEF Write
<1>2. file[p] \in Used /\ file[p] \in Name /\ file[p] \in dir \cup pruned
  BY <1>1 DEF Inv, FileInv, WrittenInv, Writing, Used
<1>3. /\ faults' \in Nat /\ pc' \in [Proc -> Label] /\ pc'[p] \in {"sync", "undo"}
      /\ \A q \in Proc \ {p} : pc'[q] = pc[q]
      /\ full \subseteq full' /\ full' \subseteq full \cup {file[p]}
      /\ pc'[p] = "sync" => file[p] \in full'
  BY GotoOK, FaultOK DEF Write, Inv, TypeOK, Label
<1>4. /\ mtime' \in [Name -> Nat]
      /\ \A m \in Used : born'[m] = born[m] /\ mtime'[m] >= mtime[m] /\ mtime'[m] <= now
  <2>1. mtime' = [mtime EXCEPT ![file[p]] = now] \/ mtime' = mtime
    BY DEF Write
  <2>2. \A m \in Used : mtime[m] \in Nat /\ mtime[m] <= now /\ m \in Name
    BY DEF Inv, TypeOK, TimeInv, Used
  <2>3. now \in Nat
    BY DEF Inv, TypeOK
  <2> QED
    BY <1>1, <1>2, <2>1, <2>2, <2>3 DEF Inv, TypeOK
<1>5. TypeOK'
  BY <1>1, <1>2, <1>3, <1>4 DEF Inv, TypeOK
<1>6. Used' = Used
  BY <1>1 DEF Used
<1>7. TimeInv'
  <2>1. ASSUME NEW m \in Used PROVE born'[m] <= mtime'[m]
    <3>1. born[m] <= mtime[m] /\ born[m] \in Nat /\ mtime[m] \in Nat /\ mtime'[m] \in Nat
      BY <1>4 DEF Inv, TimeInv, TypeOK, Used
    <3> QED
      BY <1>4, <3>1
  <2> QED
    BY <1>1, <1>4, <1>6, <2>1 DEF Inv, TimeInv
<1>8. FileInv'
  BY <1>1, <1>3, <1>6 DEF Inv, FileInv, Writing
<1>9. WrittenInv'
  BY <1>1, <1>2, <1>3 DEF Inv, WrittenInv, ReportedIsComplete
<1>10. ListInv'
  <2>1. ASSUME NEW q \in Proc, NEW e \in logs[q]
        PROVE  born'[e.name] <= e.time /\ e.time <= mtime'[e.name]
    <3>1. e.name \in Used /\ born[e.name] <= e.time /\ e.time <= mtime[e.name]
      BY <2>1 DEF Inv, ListInv
    <3>2. e.time \in Nat /\ mtime[e.name] \in Nat /\ mtime'[e.name] \in Nat
      BY <1>4, <3>1 DEF Inv, TypeOK, Log, Used
    <3> QED
      BY <1>4, <3>1, <3>2
  <2> QED
    BY <1>1, <1>3, <1>6, <2>1 DEF Inv, ListInv
<1>11. OldInv'
  <2>1. ASSUME NEW m \in Used, Old(m) PROVE Old(m)'
    BY <1>4, <1>5, <2>1, OldStays DEF Inv
  <2>2. \A m \in pruned' : Old(m)'
    BY <1>1, <2>1 DEF Inv, TimeInv, OldInv
  <2>3. ASSUME NEW q \in Proc, pc'[q] = "prune", NEW e \in logs'[q] PROVE Old(e.name)'
    <3>1. pc[q] = "prune" /\ e \in logs[q]
      BY <1>1, <1>3, <2>3
    <3>2. e.name \in Used /\ Old(e.name)
      BY <3>1 DEF Inv, ListInv, OldInv
    <3> QED
      BY <2>1, <3>2
  <2> QED
    BY <2>2, <2>3 DEF OldInv
<1>12. Budget'
  BY <1>1, <1>3, BudgetUnready DEF Inv
<1> QED
  BY <1>5, <1>7, <1>8, <1>9, <1>10, <1>11, <1>12 DEF Inv

LEMMA SyncStep ==
  ASSUME Inv, NEW p \in Proc, Sync(p)
  PROVE  Inv'
<1>1. pc[p] = "sync" /\ UNCHANGED <<dir, full, mtime, born, pruned, now, left>>
  BY DEF Sync
<1>2. CASE Return(p, file[p]) /\ UNCHANGED faults
  <2>1. faults' \in Nat
    BY <1>2 DEF Inv, TypeOK
  <2> QED
    BY <1>1, <1>2, <2>1, ReturnStep
<1>3. CASE Fault /\ Goto(p, "undo") /\ UNCHANGED <<todo, logs, file, path>>
  <2>1. /\ faults' \in Nat /\ pc' \in [Proc -> Label] /\ pc'[p] = "undo"
        /\ \A q \in Proc \ {p} : pc'[q] = pc[q]
    BY <1>3, GotoOK, FaultOK DEF Inv, Label
  <2>2. TypeOK'
    BY <1>1, <1>3, <2>1 DEF Inv, TypeOK
  <2>3. TimeInv' /\ Used' = Used
    BY <1>1 DEF Inv, TimeInv, Used
  <2>4. FileInv'
    BY <1>1, <1>3, <2>1, <2>3 DEF Inv, FileInv, Writing
  <2>5. WrittenInv'
    BY <1>1, <1>3, <2>1 DEF Inv, WrittenInv, ReportedIsComplete
  <2>6. ListInv'
    BY <1>1, <1>3, <2>1, <2>3 DEF Inv, ListInv
  <2>7. OldInv'
    BY <1>1, <1>3, <2>1, OldKept DEF Inv
  <2>8. Budget'
    BY <1>1, <1>3, <2>1, BudgetUnready DEF Inv
  <2> QED
    BY <2>2, <2>3, <2>4, <2>5, <2>6, <2>7, <2>8 DEF Inv
<1> QED
  BY <1>2, <1>3 DEF Sync

LEMMA UndoStep ==
  ASSUME Inv, NEW p \in Proc, Undo(p)
  PROVE  Inv'
<1>1. /\ pc[p] = "undo" /\ Return(p, None) /\ UNCHANGED <<full, mtime, born, pruned, now>>
      /\ dir' \in {dir, dir \ {file[p]}}
  BY DEF Undo
<1>2. faults' \in Nat /\ left' \in {left, left + 1}
  BY FaultOK DEF Undo, Inv, TypeOK
<1> QED
  BY <1>1, <1>2, ReturnStep

LEMMA CrashStep ==
  ASSUME Inv, NEW p \in Proc, Crash(p)
  PROVE  Inv'
<1>1. /\ pc[p] # "idle" /\ Return(p, None)
      /\ UNCHANGED <<dir, full, mtime, born, pruned, now, left>>
  BY DEF Crash
<1>2. faults' \in Nat
  BY FaultOK DEF Crash, Inv
<1> QED
  BY <1>1, <1>2, ReturnStep

-----------------------------------------------------------------------------
(* Every step, and the invariants that the run checks.                     *)

LEMMA NextInv == Inv /\ [Next]_vars => Inv'
<1> SUFFICES ASSUME Inv, [Next]_vars PROVE Inv'
  OBVIOUS
<1>1. CASE UNCHANGED vars
  <2>1. ASSUME NEW q \in Proc, NEW rest PROVE Ready(q, rest)' => Ready(q, rest)
    BY <1>1, SameReady DEF vars
  <2>2. Budget'
    <3>1. left \in Nat /\ left' = left /\ dir' = dir /\ dir \in SUBSET Name
      BY <1>1 DEF vars, Inv, TypeOK
    <3> QED
      BY <2>1, <3>1, BudgetKept DEF Inv
  <2>3. ASSUME NEW n PROVE Old(n)' <=> Old(n)
    BY <1>1 DEF Old, Newer, vars
  <2>4. OldInv'
    BY <1>1, <2>3 DEF Inv, OldInv, vars
  <2>5. TypeOK' /\ TimeInv' /\ FileInv' /\ WrittenInv' /\ ListInv'
    BY <1>1 DEF vars, Inv, TypeOK, TimeInv, FileInv, WrittenInv, ListInv, Used, ReportedIsComplete
  <2> QED
    BY <2>2, <2>4, <2>5 DEF Inv
<1> QED
  BY <1>1, SaveStep, ReadDirStep, SortStep, CreateStep, WriteStep, SyncStep, UndoStep, CrashStep,
     StatStep, RemoveStep DEF Next

LEMMA FailureLogsInv == Spec => []Inv
BY InitInv, NextInv, PTL DEF Spec

\* pruneFailureLogs without a lock still bounds the directory, for any number of
\* processes that prune from stale listings and create at once: it holds at most
\* one log per process above the Retention - 1 that are kept, and one for every
\* call whose failure left a log where it was.
THEOREM RetentionIsBounded == Spec => []RetentionBounded
<1>1. Inv => RetentionBounded
  <2> SUFFICES ASSUME Inv PROVE RetentionBounded
    OBVIOUS
  <2>1. {} \in SUBSET Proc /\ dir \in SUBSET dir /\ dir \in SUBSET Name /\ left \in Nat
    BY DEF Inv, TypeOK
  <2>2. Cardinality(dir) + Cardinality({}) <= Retention - 1 + Cardinality(Proc) + left
    BY <2>1 DEF Inv, Budget
  <2>3. Cardinality({}) = 0 /\ Cardinality(dir) \in Nat
    BY <2>1, FS_EmptySet, FiniteNames
  <2> QED
    BY <2>2, <2>3 DEF RetentionBounded
<1> QED
  BY <1>1, FailureLogsInv, PTL

\* pruneFailureLogs never takes one of the newest logs, however stale the listing
\* it sorts: at least Retention - 1 others were made or written since.
THEOREM PrunedLogsAreOld == Spec => []PrunedIsOld
<1>1. Inv => PrunedIsOld
  BY DEF Inv, OldInv, Old, Newer, PrunedIsOld
<1> QED
  BY <1>1, FailureLogsInv, PTL

\* The path that saveFailureLogLocked returns leads to a complete log, unless
\* pruneFailureLogs of some process has removed it since.
THEOREM ReportedLogsAreComplete == Spec => []ReportedIsComplete
<1>1. Inv => ReportedIsComplete
  BY DEF Inv, WrittenInv
<1> QED
  BY <1>1, FailureLogsInv, PTL
=============================================================================
