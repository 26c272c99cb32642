------------------------ MODULE TopicReconcilerProofs ------------------------
(***************************************************************************)
(* The safety properties of TopicReconciler for any number of pods, topics *)
(* and faults.                                                             *)
(***************************************************************************)
EXTENDS TopicReconciler, TLAPS

\* The topic of line i has the partitions that line asks for.
Sufficient(i) == parts[Topics[i].topic] >= Topics[i].desired

InPass == {"list", "create", "describe", "compare"}

\* A pass has settled the lines before the one it is at.
PassInv ==
  \A p \in Pod :
    pc[p] \in InPass =>
      \A i \in DOMAIN Topics : i < at[p] => Sufficient(i)

\* What a script knows of a topic may be out of date, but only downwards.
CurrentInv ==
  \A p \in Pod : pc[p] = "compare" => current[p] <= parts[Read(p)]

\* A readiness file was written by a pass that settled every line.
ReadyInv == ready # {} => \A i \in DOMAIN Topics : Sufficient(i)

\* A pod on its own: nobody else makes partitions for a topic that exists.
AloneInv ==
  ~overlap =>
    /\ \A p, q \in alive : p = q
    /\ \A p \in alive :
         /\ pc[p] = "describe" => parts[Read(p)] > 0
         /\ pc[p] = "compare" => parts[Read(p)] > 0 /\ current[p] = parts[Read(p)]

\* Neither property is inductive: what the scripts have read is part of them.
Inv == TypeOK /\ PassInv /\ CurrentInv /\ ReadyInv /\ AloneInv /\ RetriesNeverOvershoot

-----------------------------------------------------------------------------
(* The table of topics.                                                    *)

\* A topic has one line, so Desired finds it.
LEMMA DesiredOfLine ==
  ASSUME NEW i \in DOMAIN Topics
  PROVE  /\ Topics[i].topic \in Topic
         /\ Desired(Topics[i].topic) = Topics[i].desired
         /\ Topics[i].desired \in Nat \ {0}
<1>1. Topics[i].topic \in Topic /\ Topics[i].desired \in Nat \ {0}
  BY TopicsAssumption DEF Topic
<1> DEFINE j == CHOOSE k \in DOMAIN Topics : Topics[k].topic = Topics[i].topic
<1>2. j \in DOMAIN Topics /\ Topics[j].topic = Topics[i].topic
  OBVIOUS
<1>3. j = i
  BY <1>2, TopicsAssumption
<1> QED
  BY <1>1, <1>3 DEF Desired

\* Every topic is that of some line.
LEMMA LineOfTopic ==
  ASSUME NEW t \in Topic
  PROVE  Desired(t) \in Nat \ {0}
<1>1. PICK i \in DOMAIN Topics : t = Topics[i].topic
  BY DEF Topic
<1> QED
  BY <1>1, DesiredOfLine

\* The line a script is at.
LEMMA LineRead ==
  ASSUME TypeOK, NEW p \in Pod
  PROVE  /\ at[p] \in DOMAIN Topics /\ at[p] \in 1..Len(Topics)
         /\ Read(p) \in Topic /\ Wanted(p) \in Nat \ {0}
         /\ Desired(Read(p)) = Wanted(p)
<1>1. at[p] \in DOMAIN Topics
  BY DEF TypeOK
<1> QED
  BY <1>1, DesiredOfLine, TopicsAssumption DEF Read, Wanted

-----------------------------------------------------------------------------
(* Partitions are never taken away.                                        *)

Grows == \A t \in Topic : parts'[t] >= parts[t]

\* What is settled stays settled while the topics grow.
LEMMA SufficientStays ==
  ASSUME TypeOK, TypeOK', Grows, NEW i \in DOMAIN Topics, Sufficient(i)
  PROVE  Sufficient(i)'
<1>1. Topics[i].topic \in Topic /\ Topics[i].desired \in Nat
  BY DesiredOfLine
<1>2. parts[Topics[i].topic] \in Nat /\ parts'[Topics[i].topic] \in Nat
  BY <1>1 DEF TypeOK
<1> QED
  BY <1>1, <1>2 DEF Grows, Sufficient

\* The initial state: no pass has begun.
LEMMA InitInv == Init => Inv
<1> SUFFICES ASSUME Init PROVE Inv
  OBVIOUS
<1> USE DEF Init
<1>1. parts \in [Topic -> Nat]
  BY TopicsAssumption
<1>2. TypeOK
  <2>1. 1 \in DOMAIN Topics /\ MaxClients \in Nat /\ MaxFaults \in Nat
    BY TopicsAssumption
  <2>2. at \in [Pod -> DOMAIN Topics] /\ pc \in [Pod -> Label] /\ current \in [Pod -> Nat]
    BY <2>1 DEF Label
  <2>3. alive \subseteq Pod /\ alive # {} /\ ready \subseteq alive
    OBVIOUS
  <2>4. clients \in 0..MaxClients /\ faults \in 0..MaxFaults
    BY <2>1
  <2> QED
    BY <1>1, <2>2, <2>3, <2>4 DEF TypeOK
<1>3. PassInv /\ CurrentInv /\ ReadyInv
  BY DEF PassInv, InPass, CurrentInv, ReadyInv
<1>4. AloneInv
  BY DEF AloneInv
<1>5. RetriesNeverOvershoot
  BY <1>1, LineOfTopic DEF RetriesNeverOvershoot, Largest
<1> QED
  BY <1>2, <1>3, <1>4, <1>5 DEF Inv

-----------------------------------------------------------------------------
(* Types and growth, for every action.                                     *)

\* Goto, Exit and Advance keep the types of what a script has.
LEMMA ScriptTypes ==
  ASSUME TypeOK, NEW p \in Pod
  PROVE  /\ \A l \in Label : Goto(p, l) => pc' \in [Pod -> Label]
         /\ Exit(p) => /\ pc' \in [Pod -> Label] /\ at' \in [Pod -> DOMAIN Topics]
                       /\ current' \in [Pod -> Nat] /\ ready' = ready
         /\ Advance(p) => /\ pc' \in [Pod -> Label] /\ at' \in [Pod -> DOMAIN Topics]
                          /\ current' \in [Pod -> Nat] /\ ready' \in {ready, ready \cup {p}}
<1>1. ASSUME NEW l \in Label, Goto(p, l) PROVE pc' \in [Pod -> Label]
  BY <1>1 DEF TypeOK, Goto
<1>2. "exited" \in Label /\ "list" \in Label /\ "begin" \in Label
  BY DEF Label
<1>3. Exit(p) => /\ pc' \in [Pod -> Label] /\ at' \in [Pod -> DOMAIN Topics]
                 /\ current' \in [Pod -> Nat] /\ ready' = ready
  BY <1>1, <1>2 DEF TypeOK, Exit
<1>4. at[p] < Len(Topics) => at[p] + 1 \in DOMAIN Topics
  BY LineRead, TopicsAssumption
<1>5. Advance(p) => /\ pc' \in [Pod -> Label] /\ at' \in [Pod -> DOMAIN Topics]
                    /\ current' \in [Pod -> Nat] /\ ready' \in {ready, ready \cup {p}}
  BY <1>1, <1>2, <1>4 DEF TypeOK, Advance
<1> QED
  BY <1>1, <1>3, <1>5

\* A fault is counted up to its bound.
LEMMA FaultType == ASSUME TypeOK, Fault PROVE faults' \in 0..MaxFaults
  BY TopicsAssumption DEF TypeOK, Fault

\* What the broker does for a script.
LEMMA PartsTypes ==
  ASSUME TypeOK, NEW p \in Pod, NEW n \in Nat, n >= parts[Read(p)],
         parts' \in {parts, [parts EXCEPT ![Read(p)] = n]}
  PROVE  parts' \in [Topic -> Nat] /\ Grows
<1>1. Read(p) \in Topic /\ parts \in [Topic -> Nat]
  BY LineRead DEF TypeOK
<1> QED
  BY <1>1 DEF Grows

\* What a script wants added is at least one partition.
LEMMA MissingAdds ==
  ASSUME TypeOK, NEW p \in Pod, current[p] < Wanted(p)
  PROVE  /\ Missing(p) \in Nat \ {0}
         /\ parts[Read(p)] \in Nat /\ parts[Read(p)] + Missing(p) \in Nat
         /\ parts[Read(p)] + Missing(p) >= parts[Read(p)]
<1>1. current[p] \in Nat /\ Wanted(p) \in Nat /\ Read(p) \in Topic
  BY LineRead DEF TypeOK
<1>2. parts[Read(p)] \in Nat
  BY <1>1 DEF TypeOK
<1> QED
  BY <1>1, <1>2 DEF Missing

\* Every step keeps the types, and no step takes a partition away.
LEMMA TypesAndGrowth == ASSUME TypeOK, [Next]_vars PROVE TypeOK' /\ Grows
<1>1. ASSUME NEW p \in Pod, Begin(p) PROVE TypeOK' /\ Grows
  <2>1. 1 \in DOMAIN Topics
    BY TopicsAssumption
  <2> QED
    BY <1>1, <2>1 DEF Begin, Goto, TypeOK, Grows, Label
<1>2. ASSUME NEW p \in Pod, List(p) PROVE TypeOK' /\ Grows
  <2>1. pc' \in [Pod -> Label]
    BY <1>2 DEF List, Goto, TypeOK, Label
  <2>2. faults' \in 0..MaxFaults
    BY <1>2, FaultType DEF List, TypeOK
  <2> QED
    BY <1>2, <2>1, <2>2 DEF List, TypeOK, Grows
<1>3. ASSUME NEW p \in Pod, Create(p) PROVE TypeOK' /\ Grows
  <2>1. Read(p) \in Topic /\ Wanted(p) \in Nat
    BY LineRead
  <2>2. parts' \in [Topic -> Nat] /\ Grows
    BY <1>3, <2>1 DEF Create, TypeOK, Grows
  <2>3. current' \in [Pod -> Nat] /\ ready' = ready /\ at' \in [Pod -> DOMAIN Topics]
    BY <1>3, <2>1, ScriptTypes DEF Create, TypeOK
  <2>4. pc' \in [Pod -> Label]
    BY <1>3, ScriptTypes DEF Create, Label
  <2>5. faults' \in 0..MaxFaults
    BY <1>3, FaultType DEF Create, TypeOK
  <2> QED
    BY <1>3, <2>2, <2>3, <2>4, <2>5 DEF Create, TypeOK
<1>4. ASSUME NEW p \in Pod, Describe(p) PROVE TypeOK' /\ Grows
  <2>1. Read(p) \in Topic
    BY LineRead
  <2>2. parts[Read(p)] \in Nat
    BY <2>1 DEF TypeOK
  <2>3. current' \in [Pod -> Nat] /\ ready' = ready /\ at' \in [Pod -> DOMAIN Topics]
    BY <1>4, <2>2, ScriptTypes DEF Describe, TypeOK
  <2>4. pc' \in [Pod -> Label]
    BY <1>4, ScriptTypes DEF Describe, Label
  <2>5. faults' \in 0..MaxFaults
    BY <1>4, FaultType DEF Describe, TypeOK
  <2> QED
    BY <1>4, <2>3, <2>4, <2>5 DEF Describe, TypeOK, Grows
<1>5. ASSUME NEW p \in Pod, AddPartitions(p) PROVE TypeOK' /\ Grows
  <2>1. parts' \in [Topic -> Nat] /\ Grows
    <3>1. parts' \in {parts, [parts EXCEPT ![Read(p)] = parts[Read(p)] + Missing(p)]}
      BY <1>5 DEF AddPartitions
    <3> QED
      BY <1>5, <3>1, MissingAdds, PartsTypes DEF AddPartitions
  <2>2. /\ pc' \in [Pod -> Label] /\ at' \in [Pod -> DOMAIN Topics]
        /\ current' \in [Pod -> Nat] /\ ready' \in {ready, ready \cup {p}}
    BY <1>5, ScriptTypes DEF AddPartitions
  <2>3. faults' \in 0..MaxFaults
    BY <1>5, FaultType DEF AddPartitions, TypeOK
  <2> QED
    BY <1>5, <2>1, <2>2, <2>3 DEF AddPartitions, TypeOK
<1>6. ASSUME NEW p \in Pod, Settled(p) PROVE TypeOK' /\ Grows
  <2>1. /\ pc' \in [Pod -> Label] /\ at' \in [Pod -> DOMAIN Topics]
        /\ current' \in [Pod -> Nat] /\ ready' \in {ready, ready \cup {p}}
    BY <1>6, ScriptTypes DEF Settled
  <2> QED
    BY <1>6, <2>1 DEF Settled, TypeOK, Grows
<1>7. ASSUME NEW p \in Pod, Restart(p) PROVE TypeOK' /\ Grows
  BY <1>7 DEF Restart, Goto, TypeOK, Grows, Label
<1>8. ASSUME NEW p \in Pod, Crash(p) PROVE TypeOK' /\ Grows
  BY <1>8, ScriptTypes, FaultType DEF Crash, TypeOK, Grows
<1>9. ASSUME NEW p \in Pod, Surge(p) PROVE TypeOK' /\ Grows
  <2>1. pc' \in [Pod -> Label] /\ faults' \in 0..MaxFaults
    BY <1>9, ScriptTypes, FaultType DEF Surge, Label
  <2>2. alive' \subseteq Pod /\ alive' # {} /\ ready' \subseteq alive'
    BY <1>9 DEF Surge, TypeOK
  <2> QED
    BY <1>9, <2>1, <2>2 DEF Surge, TypeOK, Grows
<1>10. ASSUME NEW p \in Pod, Retire(p) PROVE TypeOK' /\ Grows
  <2>1. alive' \subseteq Pod /\ alive' # {} /\ ready' \subseteq alive'
    BY <1>10 DEF Retire, TypeOK
  <2> QED
    BY <1>10, <2>1 DEF Retire, TypeOK, Grows
<1>11. ASSUME NEW t \in Topic, ClientUses(t) PROVE TypeOK' /\ Grows
  <2>1. clients' \in 0..MaxClients
    BY <1>11, TopicsAssumption DEF ClientUses, TypeOK
  <2> QED
    BY <1>11, <2>1 DEF ClientUses, TypeOK, Grows
<1>12. CASE UNCHANGED vars
  BY <1>12 DEF vars, TypeOK, Grows
<1> QED
  BY <1>1, <1>2, <1>3, <1>4, <1>5, <1>6, <1>7, <1>8, <1>9, <1>10, <1>11, <1>12
  DEF Next, Script

-----------------------------------------------------------------------------
(* Where a pass gets.                                                      *)

\* A script leaves a line behind only when its topic has what it asks for.
LEMMA LineSettled ==
  ASSUME Inv, TypeOK', Grows, NEW p \in Pod, AddPartitions(p) \/ Settled(p), Advance(p),
         NEW i \in DOMAIN Topics, i = at[p]
  PROVE  Sufficient(i)'
<1>0. TypeOK
  BY DEF Inv
<1>1. Read(p) \in Topic /\ Wanted(p) \in Nat /\ current[p] \in Nat
  BY <1>0, LineRead DEF TypeOK
<1>2. parts[Read(p)] \in Nat /\ parts'[Read(p)] \in Nat /\ parts'[Read(p)] >= parts[Read(p)]
  BY <1>1 DEF Inv, TypeOK, Grows
<1>3. ~Exit(p)
  <2>1. pc'[p] \in {"list", "begin"}
    BY <1>1 DEF Advance, Goto, Inv, TypeOK
  <2> QED
    BY <2>1 DEF Exit, Goto, Inv, TypeOK
<1>4. current[p] <= parts[Read(p)]
  BY DEF AddPartitions, Settled, Inv, CurrentInv
<1>5. parts'[Read(p)] >= Wanted(p)
  <2>1. CASE AddPartitions(p)
    <3>1. parts'[Read(p)] = parts[Read(p)] + (Wanted(p) - current[p])
      BY <1>1, <1>3, <2>1 DEF AddPartitions, Missing, Inv, TypeOK
    <3> QED
      BY <1>1, <1>2, <1>4, <3>1
  <2>2. CASE Settled(p)
    <3>1. current[p] = Wanted(p)
      BY <1>1, <1>3, <2>2 DEF Settled, Refused
    <3> QED
      BY <1>1, <1>2, <1>4, <3>1
  <2> QED
    BY <2>1, <2>2
<1> QED
  BY <1>5 DEF Read, Wanted, Sufficient

\* How a script comes to be at a line.
LEMMA Moves ==
  ASSUME TypeOK, [Next]_vars, NEW p \in Pod, pc'[p] \in InPass
  PROVE  \/ pc[p] \in InPass /\ at'[p] = at[p]
         \/ at'[p] = 1
         \/ /\ pc[p] \in InPass /\ at'[p] = at[p] + 1
            /\ AddPartitions(p) \/ Settled(p)
            /\ Advance(p)
<1> DEFINE Goal == \/ pc[p] \in InPass /\ at'[p] = at[p]
                   \/ at'[p] = 1
                   \/ /\ pc[p] \in InPass /\ at'[p] = at[p] + 1
                      /\ AddPartitions(p) \/ Settled(p)
                      /\ Advance(p)
<1>1. ASSUME NEW q \in Pod, AddPartitions(q) \/ Settled(q) PROVE Goal
  <2>1. CASE q # p
    <3>1. pc'[p] = pc[p] /\ at'[p] = at[p]
      BY <1>1, <2>1 DEF AddPartitions, Settled, Exit, Advance, Goto, TypeOK
    <3> QED
      BY <3>1
  <2>2. CASE q = p
    <3>1. ~Exit(p)
      BY DEF Exit, Goto, TypeOK, InPass
    <3>2. Advance(p) /\ pc[p] = "compare"
      BY <1>1, <2>2, <3>1 DEF AddPartitions, Settled
    <3>3. at'[p] = at[p] + 1
      BY <3>2 DEF Advance, Goto, TypeOK, InPass
    <3> QED
      BY <1>1, <2>2, <3>2, <3>3 DEF InPass
  <2> QED
    BY <2>1, <2>2
<1>2. ASSUME NEW q \in Pod, Begin(q) PROVE Goal
  BY <1>2 DEF Begin, Goto, TypeOK
<1>3. ASSUME NEW q \in Pod, List(q) \/ Create(q) \/ Describe(q) PROVE Goal
  <2>1. at'[p] = at[p] /\ (q # p => pc'[p] = pc[p])
    BY <1>3 DEF List, Create, Describe, Exit, Goto, TypeOK
  <2>2. q = p => pc[p] \in InPass
    BY <1>3 DEF List, Create, Describe, InPass
  <2> QED
    BY <2>1, <2>2
<1>4. ASSUME NEW q \in Pod, Restart(q) \/ Crash(q) \/ Surge(q) \/ Retire(q) PROVE Goal
  <2>1. at'[p] = at[p]
    BY <1>4 DEF Restart, Crash, Surge, Retire, Exit
  <2>2. pc'[p] = pc[p] \/ pc'[p] \in {"begin", "exited"}
    BY <1>4 DEF Restart, Crash, Surge, Retire, Exit, Goto, TypeOK
  <2> QED
    BY <2>1, <2>2 DEF InPass
<1>5. CASE (\E t \in Topic : ClientUses(t)) \/ UNCHANGED vars
  BY <1>5 DEF ClientUses, vars
<1> QED
  BY <1>1, <1>2, <1>3, <1>4, <1>5 DEF Next, Script

\* A step of anyone keeps each part of the invariant.
LEMMA PassStep == ASSUME Inv, [Next]_vars PROVE PassInv'
<1>1. TypeOK /\ TypeOK' /\ Grows
  BY TypesAndGrowth DEF Inv
<1> SUFFICES ASSUME NEW p \in Pod, pc'[p] \in InPass, NEW i \in DOMAIN Topics, i < at'[p]
             PROVE  Sufficient(i)'
  BY DEF PassInv
<1>2. i \in Nat \ {0} /\ at[p] \in Nat
  <2>1. at[p] \in 1..Len(Topics) /\ i \in 1..Len(Topics) /\ Len(Topics) \in Nat
    BY <1>1, LineRead, TopicsAssumption
  <2> QED
    BY <2>1
<1>3. CASE pc[p] \in InPass /\ i < at[p]
  BY <1>1, <1>3, SufficientStays DEF Inv, PassInv
<1>4. CASE i = at[p] /\ (AddPartitions(p) \/ Settled(p)) /\ Advance(p)
  BY <1>1, <1>4, LineSettled
<1> QED
  BY <1>1, <1>2, <1>3, <1>4, Moves

-----------------------------------------------------------------------------
(* What a script knows.                                                    *)

\* How a script comes to compare.
LEMMA Compares ==
  ASSUME TypeOK, [Next]_vars, NEW p \in Pod, pc'[p] = "compare"
  PROVE  /\ at'[p] = at[p] /\ Read(p)' = Read(p)
         /\ \/ pc[p] = "compare" /\ current'[p] = current[p]
            \/ Create(p) /\ parts'[Read(p)] = Wanted(p) /\ current'[p] = Wanted(p)
            \/ /\ Describe(p) /\ pc[p] = "describe" /\ UNCHANGED parts
               /\ current'[p] = parts[Read(p)]
<1> DEFINE Goal ==
       /\ at'[p] = at[p]
       /\ \/ pc[p] = "compare" /\ current'[p] = current[p]
          \/ Create(p) /\ parts'[Read(p)] = Wanted(p) /\ current'[p] = Wanted(p)
          \/ /\ Describe(p) /\ pc[p] = "describe" /\ UNCHANGED parts
             /\ current'[p] = parts[Read(p)]
<1>1. ASSUME NEW q \in Pod, AddPartitions(q) \/ Settled(q) PROVE Goal
  <2>1. q # p
    BY <1>1 DEF AddPartitions, Settled, Exit, Advance, Goto, TypeOK
  <2> QED
    BY <1>1, <2>1 DEF AddPartitions, Settled, Exit, Advance, Goto, TypeOK
<1>2. ASSUME NEW q \in Pod, Begin(q) \/ List(q) \/ Restart(q) \/ Crash(q) PROVE Goal
  <2>1. q # p
    BY <1>2 DEF Begin, List, Restart, Crash, Exit, Goto, TypeOK
  <2> QED
    BY <1>2, <2>1 DEF Begin, List, Restart, Crash, Exit, Goto, TypeOK
<1>3. ASSUME NEW q \in Pod, Create(q) PROVE Goal
  <2>1. CASE q # p
    BY <1>3, <2>1 DEF Create, Exit, Goto, TypeOK
  <2>2. CASE q = p
    <3>1. ~Exit(p)
      BY DEF Exit, Goto, TypeOK
    <3>2. Read(p) \in Topic
      BY LineRead
    <3> QED
      BY <1>3, <2>2, <3>1, <3>2 DEF Create, TypeOK
  <2> QED
    BY <2>1, <2>2
<1>4. ASSUME NEW q \in Pod, Describe(q) PROVE Goal
  <2>1. CASE q # p
    BY <1>4, <2>1 DEF Describe, Exit, Goto, TypeOK
  <2>2. CASE q = p
    <3>1. ~Exit(p)
      BY DEF Exit, Goto, TypeOK
    <3> QED
      BY <1>4, <2>2, <3>1 DEF Describe, TypeOK
  <2> QED
    BY <2>1, <2>2
<1>5. ASSUME NEW q \in Pod, Surge(q) \/ Retire(q) PROVE Goal
  BY <1>5 DEF Surge, Retire, Goto, TypeOK
<1>6. ASSUME (\E t \in Topic : ClientUses(t)) \/ UNCHANGED vars PROVE Goal
  BY <1>6 DEF ClientUses, vars
<1>7. Goal
  BY <1>1, <1>2, <1>3, <1>4, <1>5, <1>6 DEF Next, Script
<1> QED
  BY <1>7 DEF Read

LEMMA CurrentStep == ASSUME Inv, [Next]_vars PROVE CurrentInv'
<1>1. TypeOK /\ TypeOK' /\ Grows
  BY TypesAndGrowth DEF Inv
<1> SUFFICES ASSUME NEW p \in Pod, pc'[p] = "compare"
             PROVE  current'[p] <= parts'[Read(p)']
  BY DEF CurrentInv
<1>2. Read(p)' = Read(p) /\ Read(p) \in Topic /\ Wanted(p) \in Nat
  BY <1>1, Compares, LineRead
<1>3. /\ parts[Read(p)] \in Nat /\ parts'[Read(p)] \in Nat
      /\ parts'[Read(p)] >= parts[Read(p)] /\ current[p] \in Nat
  BY <1>1, <1>2 DEF TypeOK, Grows
<1>4. pc[p] = "compare" => current[p] <= parts[Read(p)]
  BY DEF Inv, CurrentInv
<1> QED
  BY <1>1, <1>2, <1>3, <1>4, Compares

\* The readiness file appears at the end of a pass only.
LEMMA ReadyStep == ASSUME Inv, [Next]_vars PROVE ReadyInv'
<1>1. TypeOK /\ TypeOK' /\ Grows
  BY TypesAndGrowth DEF Inv
<1> SUFFICES ASSUME ready' # {}, NEW i \in DOMAIN Topics PROVE Sufficient(i)'
  BY DEF ReadyInv
<1>2. CASE ready # {}
  BY <1>1, <1>2, SufficientStays DEF Inv, ReadyInv
<1>3. CASE ready = {}
  <2>1. PICK p \in Pod : /\ AddPartitions(p) \/ Settled(p)
                         /\ Advance(p) /\ at[p] = Len(Topics) /\ pc[p] = "compare"
    <3>1. \A p \in Pod : ~(Begin(p) \/ List(p) \/ Create(p) \/ Describe(p) \/ Restart(p)
                             \/ Crash(p) \/ Surge(p) \/ Retire(p))
      BY <1>3 DEF Begin, List, Create, Describe, Restart, Crash, Surge, Retire, Exit
    <3>2. ~((\E t \in Topic : ClientUses(t)) \/ UNCHANGED vars)
      BY <1>3 DEF ClientUses, vars
    <3>3. PICK p \in Pod : AddPartitions(p) \/ Settled(p)
      BY <3>1, <3>2 DEF Next, Script
    <3>4. Advance(p) /\ at[p] = Len(Topics)
      BY <1>3, <3>3 DEF AddPartitions, Settled, Exit, Advance
    <3> QED
      BY <3>3, <3>4 DEF AddPartitions, Settled
  <2>2. CASE i = at[p]
    BY <1>1, <2>1, <2>2, LineSettled
  <2>3. CASE i # at[p]
    <3>1. i < at[p]
      BY <2>1, <2>3, TopicsAssumption
    <3>2. Sufficient(i)
      BY <2>1, <3>1 DEF Inv, PassInv, InPass
    <3> QED
      BY <1>1, <3>2, SufficientStays
  <2> QED
    BY <2>2, <2>3
<1> QED
  BY <1>2, <1>3

-----------------------------------------------------------------------------
(* A pod on its own.                                                       *)

\* The steps of a pod that never had another beside it.
LEMMA OneActor ==
  ASSUME Inv, [Next]_vars, ~overlap', NEW p \in alive
  PROVE  /\ ~overlap /\ alive' = alive /\ p \in Pod
         /\ \/ Script(p) \/ Crash(p)
            \/ \E t \in Topic : ClientUses(t)
            \/ UNCHANGED vars
<1>1. ASSUME NEW q \in Pod, Surge(q) PROVE FALSE
  BY <1>1 DEF Surge
<1>2. overlap' = overlap
  BY <1>1 DEF Next, Script, Begin, List, Create, Describe, AddPartitions, Settled, Restart,
       Crash, Retire, ClientUses, vars
<1>3. \A q \in alive : q = p
  BY <1>2 DEF Inv, AloneInv
<1>4. ASSUME NEW q \in Pod, Retire(q) PROVE FALSE
  BY <1>3, <1>4 DEF Retire
<1>5. ASSUME NEW q \in Pod, Script(q) \/ Crash(q) PROVE q = p /\ alive' = alive
  BY <1>3, <1>5 DEF Script, Begin, List, Create, Describe, AddPartitions, Settled, Restart, Crash
<1>6. p \in Pod
  BY DEF Inv, TypeOK
<1> QED
  BY <1>1, <1>2, <1>4, <1>5, <1>6 DEF Next, ClientUses, vars

\* Nobody else changes the topic a lone pod is about to compare.
LEMMA TopicWaits ==
  ASSUME Inv, [Next]_vars, ~overlap', NEW p \in alive, pc[p] = "compare", pc'[p] = "compare"
  PROVE  parts'[Read(p)] = parts[Read(p)]
<1>1. TypeOK /\ p \in Pod /\ ~overlap
  BY OneActor DEF Inv
<1>2. Read(p) \in Topic /\ parts[Read(p)] > 0 /\ parts[Read(p)] \in Nat
  BY <1>1, LineRead DEF Inv, AloneInv, TypeOK
<1>3. ~(Script(p) \/ Crash(p))
  BY <1>1 DEF Script, Begin, List, Create, Describe, AddPartitions, Settled, Restart, Crash,
       Exit, Advance, Goto, TypeOK
<1>4. ASSUME NEW t \in Topic, ClientUses(t) PROVE parts'[Read(p)] = parts[Read(p)]
  BY <1>1, <1>2, <1>4 DEF ClientUses, TypeOK
<1>5. CASE UNCHANGED vars
  BY <1>5 DEF vars
<1> QED
  BY <1>3, <1>4, <1>5, OneActor

LEMMA AloneStep == ASSUME Inv, [Next]_vars PROVE AloneInv'
<1>1. TypeOK /\ TypeOK' /\ Grows
  BY TypesAndGrowth DEF Inv
<1> SUFFICES ASSUME ~overlap'
             PROVE  /\ \A p, q \in alive' : p = q
                    /\ \A p \in alive' :
                         /\ pc'[p] = "describe" => parts'[Read(p)'] > 0
                         /\ pc'[p] = "compare" => /\ parts'[Read(p)'] > 0
                                                  /\ current'[p] = parts'[Read(p)']
  BY DEF AloneInv
<1>2. ~overlap /\ alive' = alive
  <2>1. PICK p \in alive : TRUE
    BY <1>1 DEF TypeOK
  <2> QED
    BY <2>1, OneActor
<1>3. \A p, q \in alive' : p = q
  BY <1>2 DEF Inv, AloneInv
<1> SUFFICES ASSUME NEW p \in alive
             PROVE  /\ pc'[p] = "describe" => parts'[Read(p)'] > 0
                    /\ pc'[p] = "compare" => /\ parts'[Read(p)'] > 0
                                             /\ current'[p] = parts'[Read(p)']
  BY <1>2, <1>3
<1>4. p \in Pod
  BY <1>1 DEF TypeOK
<1>5. Read(p) \in Topic /\ Wanted(p) \in Nat \ {0}
  BY <1>1, <1>4, LineRead
<1>6. parts[Read(p)] \in Nat /\ parts'[Read(p)] \in Nat /\ parts'[Read(p)] >= parts[Read(p)]
  BY <1>1, <1>5 DEF TypeOK, Grows
<1>7. ASSUME pc'[p] = "describe" PROVE parts'[Read(p)'] > 0
  <2>1. at'[p] = at[p] /\ parts[Read(p)] > 0
    <3>1. CASE Script(p) \/ Crash(p)
      <4>1. List(p)
        BY <1>1, <1>4, <1>7, <3>1 DEF Script, Begin, Create, Describe, AddPartitions, Settled,
             Restart, Crash, Exit, Advance, Goto, TypeOK
      <4>2. parts[Read(p)] # 0
        BY <1>1, <1>4, <1>7, <4>1 DEF List, Goto, TypeOK
      <4> QED
        BY <1>6, <4>1, <4>2 DEF List
    <3>2. CASE (\E t \in Topic : ClientUses(t)) \/ UNCHANGED vars
      <4>1. pc[p] = "describe" /\ at'[p] = at[p]
        BY <1>7, <3>2 DEF ClientUses, vars
      <4> QED
        BY <1>2, <4>1 DEF Inv, AloneInv
    <3> QED
      BY <3>1, <3>2, OneActor
  <2> QED
    BY <1>6, <2>1 DEF Read
<1>8. ASSUME pc'[p] = "compare"
      PROVE  parts'[Read(p)'] > 0 /\ current'[p] = parts'[Read(p)']
  <2>1. Read(p)' = Read(p)
    BY <1>1, <1>4, <1>8, Compares
  <2>2. CASE pc[p] = "compare" /\ current'[p] = current[p]
    <3>1. parts'[Read(p)] = parts[Read(p)]
      BY <1>8, <2>2, TopicWaits
    <3> QED
      BY <1>2, <2>1, <2>2, <3>1 DEF Inv, AloneInv
  <2>3. CASE parts'[Read(p)] = Wanted(p) /\ current'[p] = Wanted(p)
    BY <1>5, <2>1, <2>3
  <2>4. CASE pc[p] = "describe" /\ UNCHANGED parts /\ current'[p] = parts[Read(p)]
    BY <1>2, <2>1, <2>4 DEF Inv, AloneInv
  <2> QED
    BY <1>1, <1>4, <1>8, <2>2, <2>3, <2>4, Compares
<1> QED
  BY <1>7, <1>8

LEMMA RetriesStep == ASSUME Inv, [Next]_vars PROVE RetriesNeverOvershoot'
<1>1. TypeOK /\ TypeOK'
  BY TypesAndGrowth DEF Inv
<1> SUFFICES ASSUME ~overlap', NEW t \in Topic PROVE parts'[t] <= Largest(t)'
  BY DEF RetriesNeverOvershoot
<1>2. PICK p \in alive : TRUE
  BY <1>1 DEF TypeOK
<1>3. ~overlap /\ p \in Pod
  BY OneActor
<1>4. /\ parts[t] \in Nat /\ first[t] \in Nat /\ Desired(t) \in Nat \ {0}
      /\ parts[t] <= Largest(t)
  BY <1>1, <1>3, LineOfTopic DEF TypeOK, Inv, RetriesNeverOvershoot
<1>5. first' = first
  BY DEF Next, Script, Begin, List, Create, Describe, AddPartitions, Settled, Restart,
       Crash, Surge, Retire, ClientUses, vars
<1>6. Largest(t)' = Largest(t) /\ Largest(t) >= Desired(t) /\ Largest(t) \in Nat
  BY <1>4, <1>5 DEF Largest
<1>7. Read(p) \in Topic /\ Desired(Read(p)) = Wanted(p) /\ Wanted(p) \in Nat
  BY <1>1, <1>3, LineRead
<1>8. parts'[t] = parts[t] \/ parts'[t] = Desired(t) \/ parts'[t] = 1
  <2>1. CASE Create(p)
    BY <1>1, <1>7, <2>1 DEF Create, TypeOK
  <2>2. CASE AddPartitions(p)
    <3>1. current[p] = parts[Read(p)] /\ parts[Read(p)] \in Nat
      BY <1>1, <1>3, <1>7, <2>2 DEF AddPartitions, Inv, AloneInv, TypeOK
    <3>2. parts[Read(p)] + Missing(p) = Wanted(p)
      BY <1>7, <3>1 DEF Missing
    <3>3. parts' \in {parts, [parts EXCEPT ![Read(p)] = Wanted(p)]}
      BY <2>2, <3>2 DEF AddPartitions
    <3> QED
      BY <1>1, <1>7, <3>3 DEF TypeOK
  <2>3. CASE Begin(p) \/ List(p) \/ Describe(p) \/ Settled(p) \/ Restart(p) \/ Crash(p)
    BY <2>3 DEF Begin, List, Describe, Settled, Restart, Crash
  <2>4. ASSUME NEW u \in Topic, ClientUses(u)
        PROVE  parts'[t] = parts[t] \/ parts'[t] = 1
    BY <1>1, <2>4 DEF ClientUses, TypeOK
  <2>5. CASE UNCHANGED vars
    BY <2>5 DEF vars
  <2> QED
    BY <2>1, <2>2, <2>3, <2>4, <2>5, OneActor DEF Script
<1> QED
  BY <1>4, <1>6, <1>8

-----------------------------------------------------------------------------

LEMMA InvStep == Inv /\ [Next]_vars => Inv'
<1> SUFFICES ASSUME Inv, [Next]_vars PROVE Inv'
  OBVIOUS
<1>1. TypeOK'
  BY TypesAndGrowth DEF Inv
<1> QED
  BY <1>1, PassStep, CurrentStep, ReadyStep, AloneStep, RetriesStep DEF Inv

LEMMA TopicInv == Spec => []Inv
  BY InitInv, InvStep, PTL DEF Spec

\* No script reads past its table, and every variable keeps its type.
THEOREM TopicTypeCorrect == Spec => []TypeOK
<1>1. Inv => TypeOK
  BY DEF Inv
<1> QED
  BY <1>1, TopicInv, PTL

\* The readiness file tells the truth: whichever pod wrote it, and whatever the
\* broker and the containers did since, every topic has its partitions.
THEOREM ReadyFileIsTrue == Spec => []ReadyIsSufficient
<1>1. Inv => ReadyIsSufficient
  <2> SUFFICES ASSUME Inv, ready # {}, NEW t \in Topic PROVE parts[t] >= Desired(t)
    BY DEF ReadyIsSufficient
  <2>1. PICK i \in DOMAIN Topics : t = Topics[i].topic
    BY DEF Topic
  <2> QED
    BY <2>1, DesiredOfLine DEF Inv, ReadyInv, Sufficient
<1> QED
  BY <1>1, TopicInv, PTL

\* Repeating a pass after a failure never adds more than is missing, as long as
\* a pod has no other beside it.
THEOREM RetriesAreSafe == Spec => []RetriesNeverOvershoot
<1>1. Inv => RetriesNeverOvershoot
  BY DEF Inv
<1> QED
  BY <1>1, TopicInv, PTL

=============================================================================
