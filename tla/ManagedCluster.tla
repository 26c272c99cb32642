---------------------------- MODULE ManagedCluster ----------------------------
(***************************************************************************)
(* What the cluster package promises its callers, without containers,      *)
(* markers, files or commands: at most one cluster is on record, it is     *)
(* either intact or lost for good, and one caller at a time has a lease on *)
(* it and alone changes what is recorded about its environments.           *)
(***************************************************************************)

CONSTANTS
  User,       \* whoever may hold a lease
  Id,         \* cluster identities
  Env,        \* environments a cluster may have
  None        \* the absent value

VARIABLES
  holder,     \* who has the lease, or None
  record,     \* the cluster on record and its environments, or None
  intact,     \* the cluster on record is there and complete
  pending,    \* the identity of a cluster under construction, or None
  drawn       \* every identity used so far

mcVars == <<holder, record, intact, pending, drawn>>

Init ==
  /\ holder = None /\ record = None /\ intact = FALSE
  /\ pending = None /\ drawn = {}

\* A new cluster is begun only when the one on record is lost, and its
\* identity is new.
Draw(id) ==
  /\ holder = None /\ pending = None /\ ~intact
  /\ id \notin drawn
  /\ pending' = id /\ drawn' = drawn \cup {id}
  /\ UNCHANGED <<holder, record, intact>>

Abandon ==
  /\ pending # None /\ pending' = None
  /\ UNCHANGED <<holder, record, intact, drawn>>

\* A cluster is put on record without environments.  Something outside may have
\* damaged it already.
Create ==
  /\ pending # None /\ ~intact
  /\ record' = [id |-> pending, namespaces |-> {}, running |-> {}]
  /\ intact' \in BOOLEAN /\ pending' = None
  /\ UNCHANGED <<holder, drawn>>

\* Late commands, people and Stop destroy; nothing repairs.
Lose ==
  /\ intact /\ intact' = FALSE
  /\ UNCHANGED <<holder, record, pending, drawn>>

\* Only a lost cluster is forgotten, and not under a lease.
Forget ==
  /\ holder = None /\ pending = None /\ ~intact
  /\ record # None /\ record' = None
  /\ UNCHANGED <<holder, intact, pending, drawn>>

Open(u) ==
  /\ holder = None /\ pending = None /\ intact
  /\ holder' = u
  /\ UNCHANGED <<record, intact, pending, drawn>>

\* One environment is put on or off the record; what runs is known.
SetState(u, n, known, running) ==
  /\ holder = u
  /\ record' =
       [id |-> record.id,
        namespaces |-> IF known THEN record.namespaces \cup {n} ELSE record.namespaces \ {n},
        running |-> IF known /\ running THEN record.running \cup {n} ELSE record.running \ {n}]
  /\ UNCHANGED <<holder, intact, pending, drawn>>

Close(u) ==
  /\ holder = u /\ holder' = None
  /\ UNCHANGED <<record, intact, pending, drawn>>

Next ==
  \/ \E id \in Id : Draw(id)
  \/ Abandon \/ Create \/ Lose \/ Forget
  \/ \E u \in User : Open(u) \/ Close(u)
  \/ \E u \in User, n \in Env, known, running \in BOOLEAN : SetState(u, n, known, running)

Spec == Init /\ [][Next]_mcVars

=============================================================================
