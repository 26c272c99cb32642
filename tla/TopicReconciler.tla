--------------------------- MODULE TopicReconciler ---------------------------
(***************************************************************************)
(* The script that keeps the topics of labs 4 and 5 (ReconcileScript of    *)
(* src/internal/redpanda/config.go), in the pods of its Deployment, and    *)
(* the broker it talks to.  The script runs under set -euo pipefail: a     *)
(* command that fails outside a condition ends it, and Kubernetes starts   *)
(* the container again with the same /tmp, an emptyDir.  A rolling update, *)
(* or a start soon after a stop, runs two pods for a while.                *)
(*                                                                         *)
(* A step is one rpk command with what the shell does before the next one. *)
(* The broker may not answer, and a command that is reported as failed may *)
(* still have had its effect.                                              *)
(***************************************************************************)
EXTENDS Integers, Sequences, FiniteSets

CONSTANTS
  Pod,         \* pods of the Deployment
  Topics,      \* /config/topics: a sequence of [topic, desired] records
  Initial,     \* partitions a topic may have before; 0 is a missing topic
  MaxClients,  \* bound: topics that clients make by using them
  MaxFaults    \* bound: failing commands, crashes and pods replaced

Topic == { Topics[i].topic : i \in DOMAIN Topics }

Desired(t) == Topics[CHOOSE i \in DOMAIN Topics : Topics[i].topic = t].desired

ASSUME TopicsAssumption ==
  /\ Len(Topics) \in Nat \ {0} /\ DOMAIN Topics = 1..Len(Topics)
  /\ \A i \in DOMAIN Topics : Topics[i].desired \in Nat \ {0}
  /\ \A i, j \in DOMAIN Topics : Topics[i].topic = Topics[j].topic => i = j
  /\ Initial \subseteq Nat
  /\ {MaxClients, MaxFaults} \subseteq Nat

VARIABLES
  parts,      \* the broker: partitions of every topic, 0 when missing
  first,      \* ghost: the partitions at the beginning
  alive,      \* the pods that exist
  pc,         \* where the script of a pod is
  at,         \* the line of /config/topics it reads
  current,    \* its variable of that name
  ready,      \* the pods whose /tmp/topics-ready exists
  overlap,    \* ghost: two pods have existed at once
  clients,    \* topics that clients made
  faults      \* faults so far

vars == <<parts, first, alive, pc, at, current, ready, overlap, clients, faults>>

Label == {"begin", "list", "create", "describe", "compare", "exited"}

Init ==
  /\ parts \in [Topic -> Initial] /\ first = parts
  /\ \E p \in Pod : alive = {p}
  /\ pc = [p \in Pod |-> "begin"]
  /\ at = [p \in Pod |-> 1]
  /\ current = [p \in Pod |-> 0]
  /\ ready = {} /\ overlap = FALSE
  /\ clients = 0 /\ faults = 0

Goto(p, l) == pc' = [pc EXCEPT ![p] = l]

Fault == faults < MaxFaults /\ faults' = faults + 1

Read(p) == Topics[at[p]].topic

Wanted(p) == Topics[at[p]].desired

\* A command has failed, or reconcile returned 1: set -e ends the script.
Exit(p) == Goto(p, "exited") /\ UNCHANGED <<at, current, ready>>

\* Mutant: the loop reads one line too many.
AdvanceFar(p) ==
  /\ at' = [at EXCEPT ![p] = @ + 1]
  /\ Goto(p, "list") /\ UNCHANGED <<current, ready>>

\* The next line of /config/topics, or the end of the pass.
Advance(p) ==
  \/ /\ at[p] < Len(Topics)
     /\ at' = [at EXCEPT ![p] = @ + 1]
     /\ Goto(p, "list") /\ UNCHANGED <<current, ready>>
  \/ /\ at[p] = Len(Topics)
     /\ ready' = ready \cup {p}
     /\ Goto(p, "begin") /\ UNCHANGED <<at, current>>

-----------------------------------------------------------------------------
(* The script.                                                             *)

\* The script starts, or the sleep of 15 s is over.
Begin(p) ==
  /\ p \in alive /\ pc[p] = "begin"
  /\ ready' = ready \ {p}
  /\ at' = [at EXCEPT ![p] = 1]
  /\ Goto(p, "list")
  /\ UNCHANGED <<parts, first, alive, current, overlap, clients, faults>>

\* rpk topic list in a pipeline: with pipefail a broker that does not answer
\* looks like a missing topic.
List(p) ==
  /\ p \in alive /\ pc[p] = "list"
  /\ \/ Goto(p, IF parts[Read(p)] = 0 THEN "create" ELSE "describe") /\ UNCHANGED faults
     \/ Fault /\ Goto(p, "create")
  /\ UNCHANGED <<parts, first, alive, at, current, ready, overlap, clients>>

\* Mutant: a create that fails is taken for one that found the topic there.
CreateIgnored(p) ==
  /\ p \in alive /\ pc[p] = "create"
  /\ \/ /\ parts' = [parts EXCEPT ![Read(p)] = IF @ = 0 THEN Wanted(p) ELSE @]
        /\ UNCHANGED faults
     \/ Fault /\ UNCHANGED parts
  /\ current' = [current EXCEPT ![p] = Wanted(p)]
  /\ Goto(p, "compare") /\ UNCHANGED <<first, alive, at, ready, overlap, clients>>

\* rpk topic create fails for a topic that exists.
Create(p) ==
  /\ p \in alive /\ pc[p] = "create"
  /\ \/ /\ parts[Read(p)] = 0
        /\ parts' = [parts EXCEPT ![Read(p)] = Wanted(p)]
        /\ current' = [current EXCEPT ![p] = Wanted(p)]
        /\ Goto(p, "compare") /\ UNCHANGED <<at, ready, faults>>
     \/ /\ parts[Read(p)] = 0
        /\ parts' \in {parts, [parts EXCEPT ![Read(p)] = Wanted(p)]}
        /\ Fault /\ Exit(p)
     \/ parts[Read(p)] # 0 /\ Exit(p) /\ UNCHANGED <<parts, faults>>
  /\ UNCHANGED <<first, alive, overlap, clients>>

Describe(p) ==
  /\ p \in alive /\ pc[p] = "describe"
  /\ \/ /\ current' = [current EXCEPT ![p] = parts[Read(p)]]
        /\ Goto(p, "compare") /\ UNCHANGED <<at, ready, faults>>
     \/ Fault /\ Exit(p)
  /\ UNCHANGED <<parts, first, alive, overlap, clients>>

\* Mutant: the number to add is the number wanted.
MissingAll(p) == Wanted(p)

\* The argument of rpk topic add-partitions --num.
Missing(p) == Wanted(p) - current[p]

\* rpk topic add-partitions adds to what the topic has by then.
AddPartitions(p) ==
  /\ p \in alive /\ pc[p] = "compare" /\ current[p] < Wanted(p)
  /\ LET more == [parts EXCEPT ![Read(p)] = @ + Missing(p)]
     IN  \/ parts' = more /\ Advance(p) /\ UNCHANGED faults
         \/ parts' \in {parts, more} /\ Fault /\ Exit(p)
  /\ UNCHANGED <<first, alive, overlap, clients>>

\* Mutant: the refusal also hits a topic that is as desired.
RefusedEqual(p) == current[p] >= Wanted(p)

Refused(p) == current[p] > Wanted(p)

\* Nothing to add: the pass goes on, or ends with return 1.
Settled(p) ==
  /\ p \in alive /\ pc[p] = "compare" /\ current[p] >= Wanted(p)
  /\ \/ Refused(p) /\ Exit(p)
     \/ ~Refused(p) /\ Advance(p)
  /\ UNCHANGED <<parts, first, alive, overlap, clients, faults>>

-----------------------------------------------------------------------------
(* Kubernetes, and the clients of the broker.                              *)

\* The container is started again; /tmp is as it was.
Restart(p) ==
  /\ p \in alive /\ pc[p] = "exited"
  /\ Goto(p, "begin")
  /\ UNCHANGED <<parts, first, alive, at, current, ready, overlap, clients, faults>>

\* The container is killed at any point.
Crash(p) ==
  /\ p \in alive /\ pc[p] # "exited"
  /\ Fault /\ Exit(p)
  /\ UNCHANGED <<parts, first, alive, overlap, clients>>

\* The new pod of a rolling update, or of a start while the old one terminates.
Surge(p) ==
  /\ p \notin alive /\ Fault
  /\ alive' = alive \cup {p} /\ ready' = ready \ {p}
  /\ Goto(p, "begin") /\ overlap' = TRUE
  /\ UNCHANGED <<parts, first, at, current, clients>>

\* The other pod is gone, its /tmp with it.
Retire(p) ==
  /\ p \in alive /\ alive # {p}
  /\ alive' = alive \ {p} /\ ready' = ready \ {p}
  /\ UNCHANGED <<parts, first, pc, at, current, overlap, clients, faults>>

\* Redpanda in development mode makes a topic of one partition for a client
\* that uses it.
ClientUses(t) ==
  /\ parts[t] = 0 /\ clients < MaxClients
  /\ parts' = [parts EXCEPT ![t] = 1]
  /\ clients' = clients + 1
  /\ UNCHANGED <<first, alive, pc, at, current, ready, overlap, faults>>

Script(p) ==
  \/ Begin(p) \/ List(p) \/ Create(p) \/ Describe(p) \/ AddPartitions(p) \/ Settled(p)
  \/ Restart(p)

Next ==
  \/ \E p \in Pod : Script(p) \/ Crash(p) \/ Surge(p) \/ Retire(p)
  \/ \E t \in Topic : ClientUses(t)

Spec == Init /\ [][Next]_vars

\* A pod runs, and Kubernetes restarts it whenever it exits.
FairSpec == Spec /\ \A p \in Pod : WF_vars(Script(p))

-----------------------------------------------------------------------------
(* Properties.                                                             *)

TypeOK ==
  /\ parts \in [Topic -> Nat] /\ first \in [Topic -> Nat]
  /\ alive \subseteq Pod /\ alive # {}
  /\ pc \in [Pod -> Label]
  /\ at \in [Pod -> DOMAIN Topics]
  /\ current \in [Pod -> Nat]
  /\ ready \subseteq alive
  /\ overlap \in BOOLEAN
  /\ clients \in 0..MaxClients /\ faults \in 0..MaxFaults

\* The readiness file tells the truth although the script takes a silent broker
\* for a missing topic, guesses the partitions of a topic it made, and leaves
\* the file behind when its container is killed: every topic has at least the
\* partitions the labs need.
ReadyIsSufficient ==
  ready # {} => \A t \in Topic : parts[t] >= Desired(t)

Largest(t) == IF first[t] > Desired(t) THEN first[t] ELSE Desired(t)

\* Passes that are repeated after a lost answer, a crash or a client's own topic
\* never give a topic more partitions than desired (which nobody could take
\* away again), as long as no two pods have overlapped.
RetriesNeverOvershoot ==
  ~overlap => \A t \in Topic : parts[t] <= Largest(t)

\* The script gets there: whatever failed, passes succeed again and again,
\* unless some topic has more partitions than desired.
ReconcilesOrRefuses ==
  []<>(ready # {}) \/ <>(\E t \in Topic : parts[t] > Desired(t))

\* What the documentation says of the partitions that are missing: they are
\* added up to the desired number.
IncreasesUpToDesired ==
  \A t \in Topic : parts[t] <= Largest(t)

=============================================================================
