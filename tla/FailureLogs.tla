----------------------------- MODULE FailureLogs -----------------------------
(***************************************************************************)
(* The directory of failure logs, which tripgoctl processes that fail at   *)
(* the same time prune and extend without a lock (saveFailureLogLocked and *)
(* pruneFailureLogs of src/internal/cli/progress.go).  A step is one call  *)
(* of the file system.                                                     *)
(***************************************************************************)
EXTENDS Integers, FiniteSets

CONSTANTS
  Proc,       \* tripgoctl processes that fail
  Name,       \* the random names CreateTemp may choose: the bound on logs
  Retention,  \* progressLogRetention
  None,       \* the absent value
  MaxFaults   \* bound: failing calls and crashes in a run

ASSUME RetentionAssumption == Retention \in Nat \ {0}
ASSUME LogFaultsAssumption == MaxFaults \in Nat
ASSUME LogSetsAssumption == IsFiniteSet(Proc) /\ IsFiniteSet(Name)

VARIABLES
  dir,        \* the names in the directory
  full,       \* the names whose file holds a complete log
  mtime,      \* modification time of every file ever made
  born,       \* ghost: the time it was made; 0 for a name not used yet
  pruned,     \* ghost: the names removed by pruneFailureLogs
  now,        \* the clock
  pc,         \* where each process is
  todo,       \* ReadDir: the names whose Info was not read yet
  logs,       \* the names and times that pruneFailureLogs sorts
  file,       \* the file a process writes, or None
  path,       \* the path the last failure reported, or None
  faults,     \* faults so far
  left        \* ghost: the faults that left old logs where they were

vars == <<dir, full, mtime, born, pruned, now, pc, todo, logs, file, path, faults, left>>

\* The absent value is no name.
ASSUME LogNoneAssumption == None \notin Name

Init ==
  /\ dir = {} /\ full = {} /\ pruned = {}
  /\ mtime = [n \in Name |-> 0] /\ born = [n \in Name |-> 0]
  /\ now = 1
  /\ pc = [p \in Proc |-> "idle"]
  /\ todo = [p \in Proc |-> {}]
  /\ logs = [p \in Proc |-> {}]
  /\ file = [p \in Proc |-> None]
  /\ path = [p \in Proc |-> None]
  /\ faults = 0 /\ left = 0

Goto(p, l) == pc' = [pc EXCEPT ![p] = l]

Fault == faults < MaxFaults /\ faults' = faults + 1

\* The clock is coarse: it moves between the creations of two logs or not at
\* all, and files of one time are sorted in any order.
Tick == now' \in {now, now + 1}

\* A call whose failure leaves a log where it is.
Leave == Fault /\ left' = left + 1

\* saveFailureLogLocked returns; finish passes the path on.
Return(p, result) ==
  /\ Goto(p, "idle")
  /\ path' = [path EXCEPT ![p] = result]
  /\ file' = [file EXCEPT ![p] = None]
  /\ logs' = [logs EXCEPT ![p] = {}]
  /\ todo' = [todo EXCEPT ![p] = {}]

\* finish with an error: the cache directory and MkdirAll.
Save(p) ==
  /\ pc[p] = "idle"
  /\ path' = [path EXCEPT ![p] = None]
  /\ \/ Goto(p, "list") /\ UNCHANGED faults
     \/ Fault /\ UNCHANGED pc
  /\ UNCHANGED <<dir, full, mtime, born, pruned, now, todo, logs, file, left>>

\* os.ReadDir; pruning is given up when it fails.
ReadDir(p) ==
  /\ pc[p] = "list"
  /\ \/ Goto(p, "stat") /\ todo' = [todo EXCEPT ![p] = dir] /\ UNCHANGED <<faults, left>>
     \/ Goto(p, "create") /\ Leave /\ UNCHANGED todo
  /\ UNCHANGED <<dir, full, mtime, born, pruned, now, logs, file, path>>

\* entry.Info of one name; a file that is gone is skipped, and so is one whose
\* Info fails.
Stat(p, n) ==
  /\ pc[p] = "stat" /\ n \in todo[p]
  /\ todo' = [todo EXCEPT ![p] = @ \ {n}]
  /\ \/ /\ n \in dir
        /\ logs' = [logs EXCEPT ![p] = @ \cup {[name |-> n, time |-> mtime[n]]}]
        /\ UNCHANGED <<faults, left>>
     \/ n \notin dir /\ UNCHANGED <<logs, faults, left>>
     \/ n \in dir /\ Leave /\ UNCHANGED logs
  /\ UNCHANGED <<dir, full, mtime, born, pruned, now, pc, file, path>>

\* How many of n logs are beyond the first Retention - 1.
Excess(n) == IF n >= Retention THEN n - (Retention - 1) ELSE 0

\* Mutant: the sort keeps the oldest logs.
VictimsNewest(found) ==
  { v \in SUBSET found :
      /\ Cardinality(v) = Excess(Cardinality(found))
      /\ \A e \in v, k \in found \ v : k.time <= e.time }

\* Mutant: room is not made for the log about to be written.
VictimsLate(found) ==
  { v \in SUBSET found :
      /\ Cardinality(v) = Excess(Cardinality(found) - 1)
      /\ \A e \in v, k \in found \ v : k.time >= e.time }

\* The sorted logs beyond the first Retention - 1; equal times sort in any order.
Victims(found) ==
  { v \in SUBSET found :
      /\ Cardinality(v) = Excess(Cardinality(found))
      /\ \A e \in v, k \in found \ v : k.time >= e.time }

Sort(p) ==
  /\ pc[p] = "stat" /\ todo[p] = {}
  /\ \E v \in Victims(logs[p]) :
       /\ logs' = [logs EXCEPT ![p] = v]
       /\ Goto(p, IF v = {} THEN "create" ELSE "prune")
  /\ UNCHANGED <<dir, full, mtime, born, pruned, now, todo, file, path, faults, left>>

\* os.Remove of the next log, newest first; a failure is ignored.
Remove(p, e) ==
  /\ pc[p] = "prune" /\ e \in logs[p]
  /\ \A o \in logs[p] : o.time <= e.time
  /\ \/ /\ dir' = dir \ {e.name}
        /\ pruned' = IF e.name \in dir THEN pruned \cup {e.name} ELSE pruned
        /\ UNCHANGED <<faults, left>>
     \/ Leave /\ UNCHANGED <<dir, pruned>>
  /\ logs' = [logs EXCEPT ![p] = @ \ {e}]
  /\ Goto(p, IF logs[p] = {e} THEN "create" ELSE "prune")
  /\ UNCHANGED <<full, mtime, born, now, todo, file, path>>

\* os.CreateTemp: a name that was never used.
Create(p) ==
  /\ pc[p] = "create"
  /\ \/ \E n \in Name :
          /\ born[n] = 0 /\ Tick
          /\ mtime' = [mtime EXCEPT ![n] = now'] /\ born' = [born EXCEPT ![n] = now']
          /\ dir' = dir \cup {n}
          /\ file' = [file EXCEPT ![p] = n]
          /\ Goto(p, "write") /\ UNCHANGED <<todo, logs, path, faults>>
     \/ Fault /\ Return(p, None) /\ UNCHANGED <<dir, mtime, born, now>>
     \/ /\ \A n \in Name : born[n] # 0       \* the bound on names is used up
        /\ Return(p, None) /\ UNCHANGED <<dir, mtime, born, now, faults>>
  /\ UNCHANGED <<full, pruned, left>>

\* Chmod and WriteString; the file may be pruned meanwhile, which no call notices.
Write(p) ==
  /\ pc[p] = "write"
  /\ \/ /\ mtime' = [mtime EXCEPT ![file[p]] = now]
        /\ full' = full \cup {file[p]}
        /\ Goto(p, "sync") /\ UNCHANGED faults
     \/ Fault /\ Goto(p, "undo") /\ UNCHANGED <<full, mtime>>
  /\ UNCHANGED <<dir, born, pruned, now, todo, logs, file, path, left>>

\* Sync and Close; then the path is returned.
Sync(p) ==
  /\ pc[p] = "sync"
  /\ \/ Return(p, file[p]) /\ UNCHANGED faults
     \/ Fault /\ Goto(p, "undo") /\ UNCHANGED <<todo, logs, file, path>>
  /\ UNCHANGED <<dir, full, mtime, born, pruned, now, left>>

\* Mutant: the deferred removal is forgotten and the path returned.
UndoKeep(p) ==
  /\ pc[p] = "undo"
  /\ Return(p, file[p])
  /\ UNCHANGED <<dir, full, mtime, born, pruned, now, faults, left>>

\* The deferred os.Remove of a log that could not be written.
Undo(p) ==
  /\ pc[p] = "undo"
  /\ \/ dir' = dir \ {file[p]} /\ UNCHANGED <<faults, left>>
     \/ Leave /\ UNCHANGED dir
  /\ Return(p, None)
  /\ UNCHANGED <<full, mtime, born, pruned, now>>

\* SIGKILL: what was created stays.
Crash(p) ==
  /\ pc[p] # "idle"
  /\ Fault /\ Return(p, None)
  /\ UNCHANGED <<dir, full, mtime, born, pruned, now, left>>

Next ==
  \E p \in Proc :
    \/ Save(p) \/ ReadDir(p) \/ Sort(p) \/ Create(p) \/ Write(p) \/ Sync(p) \/ Undo(p)
    \/ Crash(p)
    \/ \E n \in todo[p] : Stat(p, n)
    \/ \E e \in logs[p] : Remove(p, e)

Spec == Init /\ [][Next]_vars

-----------------------------------------------------------------------------
(* Properties.                                                             *)

\* Without a lock the retention is still a bound: processes that prune from
\* stale listings and create at once exceed it only by the number of other
\* processes, and by the calls whose failure leaves a log where it is.
RetentionBounded == Cardinality(dir) <= Retention - 1 + Cardinality(Proc) + left

\* pruneFailureLogs never takes a log that is among the newest: whatever it
\* removes, from a listing that may be stale, was overtaken by at least
\* Retention - 1 other logs that were made or written since it was made.
PrunedIsOld ==
  \A n \in pruned :
    Cardinality({m \in Name \ {n} : born[m] # 0 /\ mtime[m] >= born[n]}) >= Retention - 1

\* The path in an error message leads to a complete log, unless so many newer
\* ones came that it was pruned (possibly before its writer was done with it).
ReportedIsComplete ==
  \A p \in Proc : path[p] # None => path[p] \in full /\ path[p] \in dir \cup pruned

=============================================================================
