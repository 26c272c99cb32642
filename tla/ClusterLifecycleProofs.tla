------------------------ MODULE ClusterLifecycleProofs ------------------------
(***************************************************************************)
(* Proofs about ClusterLifecycle for every set of processes, identities,   *)
(* environments and releases and every number of faults: its own safety    *)
(* properties first, then that it implements ManagedCluster.               *)
(***************************************************************************)
EXTENDS ClusterRefinement, TLAPS

\* The value of the process variables in a state of the right type.
LEMMA ReturnTypes ==
  ASSUME NEW p \in Proc, NEW r \in Result, TypeOK, Return(p, r)
  PROVE  /\ lock' \in Proc \cup {None} /\ pc' \in [Proc -> Label]
         /\ call' \in [Proc -> Call] /\ cid' \in [Proc -> MaybeId]
         /\ val' \in [Proc -> State \cup {None}]
         /\ plan' \in [Proc -> Plan] /\ res' \in [Proc -> Result]
<1> USE DEF TypeOK, Return
<1>1. lock' \in Proc \cup {None} OBVIOUS
<1>2. pc' \in [Proc -> Label] BY DEF Label
<1>3. call' \in [Proc -> Call] BY DEF Call, NoCall
<1>4. cid' \in [Proc -> MaybeId] BY DEF MaybeId
<1>5. val' \in [Proc -> State \cup {None}] OBVIOUS
<1>6. plan' \in [Proc -> Plan] BY DEF Plan, NoPlan
<1>7. res' \in [Proc -> Result] OBVIOUS
<1> QED BY <1>1, <1>2, <1>3, <1>4, <1>5, <1>6, <1>7

\* A fault keeps the fault counter a number.
LEMMA FaultType == ASSUME TypeOK, Fault PROVE faults' \in Nat
BY DEF TypeOK, Fault

\* Giving up on a command leaves a set of commands behind.
LEMMA GiveUpType ==
  ASSUME TypeOK, NEW c \in Command, GiveUp(c)
  PROVE  late' \subseteq Command /\ faults' \in Nat
BY FaultType DEF TypeOK, GiveUp

\* What a Start leaves behind when it fails is flagged, and nothing else is.
LEMMA StartFlag ==
  ASSUME TypeOK, NEW b \in BOOLEAN, unclean' = Flag(unclean, "start", b)
  PROVE  /\ unclean' \subseteq Debris \cup Vanished
         /\ Tidy(unclean') => Tidy(unclean) /\ ~b
         /\ "node" \in unclean' <=> "node" \in unclean
         /\ "registry" \in unclean' <=> "registry" \in unclean
BY DEF TypeOK, Flag, Tidy, Debris, Vanished

\* A process that returns gives the lock back and forgets what it knew.
LEMMA ReturnProc ==
  ASSUME NEW p \in Proc, NEW r \in Result, TypeOK, LockInv, CallInv, Return(p, r)
  PROVE  /\ LockInv' /\ CallInv'
         /\ pc'[p] = "idle" /\ cid'[p] = None
         /\ \A q \in Proc \ {p} :
              /\ pc'[q] = pc[q] /\ cid'[q] = cid[q] /\ call'[q] = call[q]
              /\ val'[q] = val[q] /\ plan'[q] = plan[q]
<1> USE NoneAssumption
<1>1. /\ pc'[p] = "idle" /\ cid'[p] = None /\ call'[p].cmd = "none"
      /\ \A q \in Proc \ {p} :
           /\ pc'[q] = pc[q] /\ cid'[q] = cid[q] /\ call'[q] = call[q]
           /\ val'[q] = val[q] /\ plan'[q] = plan[q]
  BY DEF TypeOK, Return, NoCall
<1>2. LockInv' BY <1>1 DEF TypeOK, LockInv, Return, Critical, StartLabels, InspectLabels,
    StopLabels, EnvLabels
<1>3. CallInv' BY <1>1 DEF CallInv, StartLabels, InspectLabels
<1> QED BY <1>1, <1>2, <1>3

\* Outside an operation nothing is claimed of a process but that it has no identity.
LEMMA IdleProc ==
  ASSUME NEW p \in Proc, pc'[p] \notin Critical, cid'[p] = None, TypeOK', IdsInv'
  PROVE  ProcOf(p)'
BY NoneAssumption
DEF TypeOK, IdsInv, ProcOf, CidOf, LateOf, StartOf, ValOf, RemoveOf, CleanOf, Building,
    HalfStarted, Critical, StartLabels, InspectLabels, StopLabels, EnvLabels, MarkOf, WithNode,
    RegistryOwned, MarkerMatches

\* While one process is inside an operation, no other is.
LEMMA Alone ==
  ASSUME NEW p \in Proc, SafeInv, pc[p] \in Critical
  PROVE  lock = p /\ \A q \in Proc \ {p} : pc[q] \notin Critical /\ cid[q] = None
BY DEF SafeInv, LockInv, ProcInv, ProcOf, CidOf, Building, HalfStarted, Critical, StartLabels

\* A step of the process inside an operation keeps the invariant when it keeps
\* the shared parts and the part of that process.
LEMMA WorkStep ==
  ASSUME NEW p \in Proc, SafeInv, pc[p] \in Critical,
         \A q \in Proc \ {p} : pc'[q] = pc[q] /\ cid'[q] = cid[q],
         TypeOK', LockInv', CallInv', IdsInv', StateInv', ProcOf(p)', DebrisInv'
  PROVE  SafeInv'
<1>1. ASSUME NEW q \in Proc \ {p} PROVE ProcOf(q)'
  <2>1. pc'[q] \notin Critical /\ cid'[q] = None BY Alone
  <2> QED BY <2>1, IdleProc
<1> QED BY <1>1 DEF SafeInv, ProcInv

\* A process that returns without having built anything, and without changing
\* what is shared, keeps the invariant.
LEMMA ReturnStep ==
  ASSUME NEW p \in Proc, NEW r \in Result, SafeInv, Return(p, r),
         UNCHANGED <<stateFile, world, used, unclean>>,
         pc[p] \notin HalfStarted, faults' \in Nat
  PROVE  SafeInv'
<1> USE DEF SafeInv, world
<1>0. TypeOK' BY ReturnTypes DEF TypeOK
<1>1. /\ LockInv' /\ CallInv'
      /\ pc'[p] = "idle" /\ cid'[p] = None
      /\ \A q \in Proc \ {p} :
           /\ pc'[q] = pc[q] /\ cid'[q] = cid[q] /\ call'[q] = call[q]
           /\ val'[q] = val[q] /\ plan'[q] = plan[q]
  BY ReturnProc
<1>2. IdsInv' /\ StateInv' BY DEF IdsInv, StateInv, RegistryOwned, MarkerMatches
<1>3. ProcInv'
  <2> SUFFICES ASSUME NEW q \in Proc PROVE ProcOf(q)' BY DEF ProcInv
  <2>1. CASE q = p
    BY <1>1, <2>1, NoneAssumption
    DEF IdsInv, TypeOK, ProcOf, CidOf, LateOf, StartOf, ValOf, RemoveOf, CleanOf, Building,
        HalfStarted, MarkOf, WithNode, RegistryOwned, MarkerMatches
  <2>2. CASE q # p
    BY <1>1, <2>2 DEF ProcInv, ProcOf, CidOf, LateOf, StartOf, ValOf, RemoveOf, CleanOf,
        MarkOf, WithNode, RegistryOwned, MarkerMatches, Building, HalfStarted
  <2> QED BY <2>1, <2>2
<1>4. DebrisInv'
  BY <1>1 DEF DebrisInv, Startable, RegistryOwned, MarkerMatches, HalfStarted
<1> QED BY <1>0, <1>1, <1>2, <1>3, <1>4

\* A process that only moves on, outside the building part of Start, keeps the
\* invariant when it keeps its own part of it.
LEMMA MoveStep ==
  ASSUME NEW p \in Proc, NEW l \in Label, SafeInv, pc' = [pc EXCEPT ![p] = l],
         UNCHANGED <<stateFile, world, used, unclean, cid>>,
         pc[p] \notin Building, l \notin Building,
         lock' \in Proc \cup {None}, LockInv',
         call' \in [Proc -> Call], val' \in [Proc -> State \cup {None}],
         plan' \in [Proc -> Plan], res' \in [Proc -> Result], faults' \in Nat,
         \A q \in Proc \ {p} : call'[q] = call[q] /\ val'[q] = val[q] /\ plan'[q] = plan[q],
         CallInv', (MarkOf(p) /\ ValOf(p) /\ RemoveOf(p) /\ CleanOf(p))'
  PROVE  SafeInv'
<1> USE DEF SafeInv, world
<1>0. TypeOK' BY DEF TypeOK
<1>1. pc'[p] = l /\ \A q \in Proc \ {p} : pc'[q] = pc[q] BY DEF TypeOK
<1>2. IdsInv' /\ StateInv' BY DEF IdsInv, StateInv, RegistryOwned, MarkerMatches
<1>3. ProcInv'
  <2> SUFFICES ASSUME NEW q \in Proc PROVE ProcOf(q)' BY DEF ProcInv
  <2>1. CASE q = p
    BY <1>1, <2>1, NoneAssumption
    DEF IdsInv, TypeOK, ProcInv, ProcOf, CidOf, LateOf, StartOf, Building, HalfStarted, MarkOf,
        WithNode
  <2>2. CASE q # p
    BY <1>1, <2>2 DEF ProcInv, ProcOf, CidOf, LateOf, StartOf, ValOf, RemoveOf, CleanOf,
        MarkOf, WithNode, RegistryOwned, MarkerMatches, Building, HalfStarted
  <2> QED BY <2>1, <2>2
<1>4. DebrisInv'
  BY <1>1 DEF DebrisInv, Startable, RegistryOwned, MarkerMatches, HalfStarted, Building
<1> QED BY <1>0, <1>1, <1>2, <1>3, <1>4

\* MoveStep for a process inside an operation.
LEMMA GotoStep ==
  ASSUME NEW p \in Proc, NEW l \in Critical \ Building, SafeInv, Goto(p, l),
         pc[p] \in Critical \ Building,
         \/ pc[p] \in StartLabels /\ l \in StartLabels
         \/ pc[p] \in InspectLabels /\ l \in InspectLabels
         \/ pc[p] \in StopLabels /\ l \in StopLabels
         \/ pc[p] \in EnvLabels /\ l \in EnvLabels,
         UNCHANGED <<stateFile, world, used, unclean, cid, call, res, faults>>,
         val' \in [Proc -> State \cup {None}], plan' \in [Proc -> Plan],
         \A q \in Proc \ {p} : val'[q] = val[q] /\ plan'[q] = plan[q],
         (MarkOf(p) /\ ValOf(p) /\ RemoveOf(p) /\ CleanOf(p))'
  PROVE  SafeInv'
<1> USE DEF SafeInv
<1>1. l \in Label BY DEF Label
<1>2. LockInv' BY DEF LockInv, TypeOK, Goto
<1>3. CallInv' BY DEF CallInv, TypeOK, Goto, Critical, StartLabels, InspectLabels, StopLabels,
    EnvLabels
<1> QED BY <1>1, <1>2, <1>3, MoveStep DEF TypeOK, Goto

\* Taking the lock starts an operation.
LEMMA AcquireStep ==
  ASSUME NEW p \in Proc, NEW l \in {"s_check", "i_check", "e_check", "t_check"},
         SafeInv, AcquireLock(p, l), pc[p] \notin Critical,
         UNCHANGED <<stateFile, world, used, unclean, cid, val, plan, faults>>,
         call' \in [Proc -> Call], res' \in [Proc -> Result],
         \A q \in Proc \ {p} : call'[q] = call[q],
         call'[p].rel \in Release,
         l = "s_check" => call'[p].cmd = "start",
         l = "i_check" => call'[p].cmd \in {"status", "stop"},
         l \in {"e_check", "t_check"} => call'[p].cmd \notin {"start", "status"}
  PROVE  SafeInv'
<1> USE NoneAssumption DEF SafeInv, AcquireLock
<1>1. l \in Label /\ l \in Critical /\ l \notin Building /\ pc[p] \notin Building
  BY
  DEF Label, Critical, StartLabels, InspectLabels, StopLabels, EnvLabels, Building, HalfStarted
<1>2. LockInv' BY <1>1 DEF LockInv, TypeOK
<1>3. CallInv' BY DEF CallInv, TypeOK, StartLabels, InspectLabels, StopLabels, EnvLabels
<1>4. (MarkOf(p) /\ ValOf(p) /\ RemoveOf(p) /\ CleanOf(p))' BY DEF ValOf, RemoveOf, CleanOf,
    TypeOK, MarkOf, RegistryOwned, MarkerMatches, Building, HalfStarted
<1> QED BY <1>1, <1>2, <1>3, <1>4, MoveStep DEF TypeOK

\* acquireLock that finds the lock taken changes nothing but the outcome: the invariant is kept.
LEMMA LockBusyStep ==
  ASSUME NEW p \in Proc, SafeInv, LockBusy(p), pc[p] \notin HalfStarted,
         UNCHANGED <<stateFile, world, used, faults, unclean>>
  PROVE  SafeInv'
BY ReturnStep DEF LockBusy, SafeInv, TypeOK, Result

-----------------------------------------------------------------------------
(* The operations that begin: start, status, stop and the environments.    *)

\* Start takes the lock: the invariant is kept.
LEMMA StartBeginStep ==
  ASSUME NEW p \in Proc, NEW r \in Release, SafeInv, StartBegin(p, r)
  PROVE  SafeInv'
<1> USE DEF SafeInv, StartBegin
<1>1. pc[p] \notin Critical /\ pc[p] \notin Building /\ pc[p] \notin HalfStarted
  BY DEF Critical, StartLabels, InspectLabels, StopLabels, EnvLabels, Building, HalfStarted
<1>2. CASE LockBusy(p) BY <1>1, <1>2, LockBusyStep
<1>3. CASE AcquireLock(p, "s_check")
  <2>1. /\ call' = [call EXCEPT ![p] = [cmd |-> "start", rel |-> r]]
        /\ res' = [res EXCEPT ![p] = "none"] /\ UNCHANGED <<cid, val, plan>>
    BY <1>3, NoneAssumption DEF AcquireLock, LockBusy
  <2>2. call' \in [Proc -> Call] /\ res' \in [Proc -> Result]
    BY <2>1 DEF TypeOK, Call, Result
  <2> QED BY <1>1, <1>3, <2>1, <2>2, AcquireStep DEF TypeOK
<1> QED BY <1>2, <1>3

\* Inspect takes the lock, for status and for stop: the invariant is kept.
LEMMA InspectBeginStep ==
  ASSUME NEW p \in Proc, NEW r \in Release, NEW o \in {"status", "stop"}, SafeInv,
         InspectBegin(p, r, o)
  PROVE  SafeInv'
<1> USE DEF SafeInv, InspectBegin
<1>1. pc[p] \notin Critical /\ pc[p] \notin Building /\ pc[p] \notin HalfStarted
  BY DEF Critical, StartLabels, InspectLabels, StopLabels, EnvLabels, Building, HalfStarted
<1>2. CASE LockBusy(p) BY <1>1, <1>2, LockBusyStep
<1>3. CASE AcquireLock(p, "i_check")
  <2>1. /\ call' = [call EXCEPT ![p] = [cmd |-> o, rel |-> r]]
        /\ res' = [res EXCEPT ![p] = "none"] /\ UNCHANGED <<cid, val, plan>>
    BY <1>3, NoneAssumption DEF AcquireLock, LockBusy
  <2>2. call' \in [Proc -> Call] /\ res' \in [Proc -> Result]
    BY <2>1 DEF TypeOK, Call, Result
  <2> QED BY <1>1, <1>3, <2>1, <2>2, AcquireStep DEF TypeOK
<1> QED BY <1>2, <1>3

\* BeginEnvironmentOperation takes the lock: the invariant is kept.
LEMMA EnvBeginStep ==
  ASSUME NEW p \in Proc, NEW r \in Release, SafeInv, EnvBegin(p, r)
  PROVE  SafeInv'
<1> USE DEF SafeInv, EnvBegin
<1>1. pc[p] \notin Critical /\ pc[p] \notin Building /\ pc[p] \notin HalfStarted
  BY DEF Critical, StartLabels, InspectLabels, StopLabels, EnvLabels, Building, HalfStarted
<1>2. CASE LockBusy(p) BY <1>1, <1>2, LockBusyStep
<1>3. CASE AcquireLock(p, "e_check")
  <2>1. /\ call' = [call EXCEPT ![p] = [cmd |-> "env", rel |-> r]]
        /\ res' = [res EXCEPT ![p] = "none"] /\ UNCHANGED <<cid, val, plan>>
    BY <1>3, NoneAssumption DEF AcquireLock, LockBusy
  <2>2. call' \in [Proc -> Call] /\ res' \in [Proc -> Result]
    BY <2>1 DEF TypeOK, Call, Result
  <2> QED BY <1>1, <1>3, <2>1, <2>2, AcquireStep DEF TypeOK
<1> QED BY <1>2, <1>3

\* Stop takes the lock again after the confirmation: the invariant is kept.
LEMMA StopLockStep ==
  ASSUME NEW p \in Proc, SafeInv, StopLock(p)
  PROVE  SafeInv'
<1> USE DEF SafeInv, StopLock, locals
<1>1. pc[p] \notin Critical /\ pc[p] \notin Building /\ pc[p] \notin HalfStarted
  BY DEF Critical, StartLabels, InspectLabels, StopLabels, EnvLabels, Building, HalfStarted
<1>2. CASE LockBusy(p) BY <1>1, <1>2, LockBusyStep
<1>3. CASE AcquireLock(p, "t_check") /\ UNCHANGED <<locals, res>>
  <2>1. call[p].rel \in Release /\ call[p].cmd \notin {"start", "status"}
    BY DEF CallInv
  <2> QED BY <1>1, <1>3, <2>1, AcquireStep DEF TypeOK
<1> QED BY <1>2, <1>3

\* The prompt, where the process holds no lock.
LEMMA ConfirmStep ==
  ASSUME NEW p \in Proc, SafeInv, Confirm(p)
  PROVE  SafeInv'
<1> USE NoneAssumption DEF SafeInv, Confirm
<1>1. pc[p] \notin Critical /\ pc[p] \notin Building /\ pc[p] \notin HalfStarted
  BY DEF Critical, StartLabels, InspectLabels, StopLabels, EnvLabels, Building, HalfStarted
<1>2. CASE Return(p, "canceled") BY <1>1, <1>2, ReturnStep DEF TypeOK, Result
<1>3. CASE /\ plan' = [plan EXCEPT ![p].asked = TRUE]
           /\ Goto(p, "stop") /\ UNCHANGED <<call, cid, val, res>>
  <2>1. "stop" \in Label /\ "stop" \notin Building /\ "stop" \notin Critical
    BY
    DEF Label, Critical, StartLabels, InspectLabels, StopLabels, EnvLabels, Building,
        HalfStarted
  <2>2. LockInv' BY <1>1, <1>3, <2>1 DEF LockInv, TypeOK, Goto
  <2>3. CallInv' BY <1>3 DEF CallInv, TypeOK, Goto, StartLabels, InspectLabels
  <2>4. (MarkOf(p) /\ ValOf(p) /\ RemoveOf(p) /\ CleanOf(p))'
    BY <1>3 DEF ValOf, RemoveOf, CleanOf, TypeOK, Goto, MarkOf, RegistryOwned, MarkerMatches,
        Building, HalfStarted
  <2>5. plan' \in [Proc -> Plan] BY <1>3 DEF TypeOK, Plan
  <2> QED BY <1>1, <1>3, <2>1, <2>2, <2>3, <2>4, <2>5, MoveStep DEF TypeOK, Goto
<1> QED BY <1>2, <1>3

-----------------------------------------------------------------------------
(* The steps that only read.                                               *)

\* Start checks Docker and fetches kind: the invariant is kept.
LEMMA StartCheckStep ==
  ASSUME NEW p \in Proc, SafeInv, StartCheck(p)
  PROVE  SafeInv'
<1> USE NoneAssumption DEF SafeInv, StartCheck, locals
<1>1. pc[p] \in Critical /\ pc[p] \notin Building /\ pc[p] \notin HalfStarted
  BY DEF Critical, StartLabels, InspectLabels, StopLabels, EnvLabels, Building, HalfStarted
<1>2. CASE Goto(p, "s_list") /\ UNCHANGED <<locals, res, faults>>
  <2>1. (MarkOf(p) /\ ValOf(p) /\ RemoveOf(p) /\ CleanOf(p))'
    BY <1>2 DEF TypeOK, Goto, world, ValOf, RemoveOf, CleanOf, MarkOf, RegistryOwned,
        MarkerMatches, Building, HalfStarted
  <2> QED
    BY <1>1, <1>2, <2>1, GotoStep
    DEF TypeOK, Goto, Critical, StartLabels, InspectLabels, StopLabels, EnvLabels, Building,
        HalfStarted
<1>3. CASE Fault /\ Return(p, "prereq")
  BY <1>1, <1>3, ReturnStep, FaultType DEF TypeOK, Result
<1> QED BY <1>2, <1>3

\* Start asks kind whether the cluster is there: the invariant is kept.
LEMMA StartListStep ==
  ASSUME NEW p \in Proc, SafeInv, StartList(p)
  PROVE  SafeInv'
<1> USE NoneAssumption DEF SafeInv, StartList, locals
<1>1. pc[p] \in Critical /\ pc[p] \notin Building /\ pc[p] \notin HalfStarted
  BY DEF Critical, StartLabels, InspectLabels, StopLabels, EnvLabels, Building, HalfStarted
<1>2. CASE node # None /\ Goto(p, "s_verify") /\ UNCHANGED <<locals, res, faults>>
  <2>1. (MarkOf(p) /\ ValOf(p) /\ RemoveOf(p) /\ CleanOf(p))'
    BY <1>2 DEF TypeOK, Goto, world, ValOf, RemoveOf, CleanOf, MarkOf, RegistryOwned,
        MarkerMatches, Building, HalfStarted
  <2> QED
    BY <1>1, <1>2, <2>1, GotoStep
    DEF TypeOK, Goto, Critical, StartLabels, InspectLabels, StopLabels, EnvLabels, Building,
        HalfStarted
<1>3. CASE node = None /\ Goto(p, "s_orphan") /\ UNCHANGED <<locals, res, faults>>
  <2>1. (MarkOf(p) /\ ValOf(p) /\ RemoveOf(p) /\ CleanOf(p))'
    BY <1>3 DEF TypeOK, Goto, world, ValOf, RemoveOf, CleanOf, MarkOf, RegistryOwned,
        MarkerMatches, Building, HalfStarted
  <2> QED
    BY <1>1, <1>3, <2>1, GotoStep
    DEF TypeOK, Goto, Critical, StartLabels, InspectLabels, StopLabels, EnvLabels, Building,
        HalfStarted
<1>4. CASE Fault /\ Return(p, "error")
  BY <1>1, <1>4, ReturnStep, FaultType DEF TypeOK, Result
<1> QED BY <1>2, <1>3, <1>4

\* Start verifies a cluster that is there: the invariant is kept.
LEMMA StartVerifyStep ==
  ASSUME NEW p \in Proc, SafeInv, StartVerify(p)
  PROVE  SafeInv'
<1> USE NoneAssumption DEF SafeInv, StartVerify, locals
<1>1. pc[p] \in Critical /\ pc[p] \notin Building /\ pc[p] \notin HalfStarted
  BY DEF Critical, StartLabels, InspectLabels, StopLabels, EnvLabels, Building, HalfStarted
<1>2. CASE \E r \in {"ok", "conflict", "error"} : Return(p, r) /\ (Fault \/ UNCHANGED faults)
  BY <1>1, <1>2, ReturnStep, FaultType DEF TypeOK, Result
<1> QED BY <1>2

\* Start looks for a registry without a cluster: the invariant is kept.
LEMMA StartOrphanStep ==
  ASSUME NEW p \in Proc, SafeInv, StartOrphan(p)
  PROVE  SafeInv'
<1> USE NoneAssumption DEF SafeInv, StartOrphan, locals
<1>1. pc[p] \in Critical /\ pc[p] \notin Building /\ pc[p] \notin HalfStarted
  BY DEF Critical, StartLabels, InspectLabels, StopLabels, EnvLabels, Building, HalfStarted
<1>2. CASE registry = None /\ Goto(p, "s_ports") /\ UNCHANGED <<locals, res, faults>>
  <2>1. (MarkOf(p) /\ ValOf(p) /\ RemoveOf(p) /\ CleanOf(p))'
    BY <1>2 DEF TypeOK, Goto, world, ValOf, RemoveOf, CleanOf, ProcInv, ProcOf, MarkOf,
        RegistryOwned, MarkerMatches, Building, HalfStarted
  <2> QED
    BY <1>1, <1>2, <2>1, GotoStep
    DEF TypeOK, Goto, Critical, StartLabels, InspectLabels, StopLabels, EnvLabels, Building,
        HalfStarted
<1>3. CASE /\ registry # None /\ stateFile # None /\ RegistryOwned(stateFile.id)
           /\ Goto(p, "s_rmorphan") /\ UNCHANGED <<locals, res, faults>>
  <2>1. (MarkOf(p) /\ ValOf(p) /\ RemoveOf(p) /\ CleanOf(p))'
    BY <1>3
    DEF TypeOK, Goto, world, ValOf, RemoveOf, CleanOf, ProcInv, ProcOf, RegistryOwned, State,
        MarkOf, MarkerMatches, Building, HalfStarted
  <2> QED
    BY <1>1, <1>3, <2>1, GotoStep
    DEF TypeOK, Goto, Critical, StartLabels, InspectLabels, StopLabels, EnvLabels, Building,
        HalfStarted
<1>4. CASE \E r \in {"conflict", "error"} : Return(p, r) /\ (Fault \/ UNCHANGED faults)
  BY <1>1, <1>4, ReturnStep, FaultType DEF TypeOK, Result
<1> QED BY <1>2, <1>3, <1>4

\* Stop loads the state file: the invariant is kept.
LEMMA StopCheckStep ==
  ASSUME NEW p \in Proc, SafeInv, StopCheck(p)
  PROVE  SafeInv'
<1> USE NoneAssumption DEF SafeInv, StopCheck, locals
<1>1. pc[p] \in Critical /\ pc[p] \notin Building /\ pc[p] \notin HalfStarted
  BY DEF Critical, StartLabels, InspectLabels, StopLabels, EnvLabels, Building, HalfStarted
<1>2. CASE /\ val' = [val EXCEPT ![p] = stateFile] /\ Goto(p, "t_look")
           /\ UNCHANGED <<call, cid, plan, res, faults>>
  <2>1. (MarkOf(p) /\ ValOf(p) /\ RemoveOf(p) /\ CleanOf(p))'
    BY <1>2 DEF TypeOK, Goto, world, ValOf, RemoveOf, CleanOf, MarkOf, RegistryOwned,
        MarkerMatches, Building, HalfStarted
  <2> QED
    BY <1>1, <1>2, <2>1, GotoStep
    DEF TypeOK, Goto, Critical, StartLabels, InspectLabels, StopLabels, EnvLabels, Building,
        HalfStarted
<1>3. CASE Fault /\ Return(p, "prereq")
  BY <1>1, <1>3, ReturnStep, FaultType DEF TypeOK, Result
<1> QED BY <1>2, <1>3

\* Stop compares the marker on the node: the invariant is kept.
LEMMA StopMarkerStep ==
  ASSUME NEW p \in Proc, SafeInv, StopMarker(p)
  PROVE  SafeInv'
<1> USE NoneAssumption DEF SafeInv, StopMarker, locals
<1>1. pc[p] \in Critical /\ pc[p] \notin Building /\ pc[p] \notin HalfStarted
  BY DEF Critical, StartLabels, InspectLabels, StopLabels, EnvLabels, Building, HalfStarted
<1>2. CASE /\ MarkerMatches(val[p].id) /\ Goto(p, "t_delnode")
           /\ UNCHANGED <<locals, res, faults>>
  <2>1. (MarkOf(p) /\ ValOf(p) /\ RemoveOf(p) /\ CleanOf(p))'
    BY <1>2
    DEF TypeOK, Goto, world, ValOf, RemoveOf, CleanOf, ProcInv, ProcOf, MarkerMatches, State,
        StateInv, MarkOf, RegistryOwned, Building, HalfStarted
  <2> QED
    BY <1>1, <1>2, <2>1, GotoStep
    DEF TypeOK, Goto, Critical, StartLabels, InspectLabels, StopLabels, EnvLabels, Building,
        HalfStarted
<1>3. CASE Return(p, "conflict") /\ (Fault \/ UNCHANGED faults)
  BY <1>1, <1>3, ReturnStep, FaultType DEF TypeOK, Result
<1> QED BY <1>2, <1>3

\* Stop compares the label of the registry: the invariant is kept.
LEMMA StopOwnerStep ==
  ASSUME NEW p \in Proc, SafeInv, StopOwner(p)
  PROVE  SafeInv'
<1> USE NoneAssumption DEF SafeInv, StopOwner, locals
<1>1. pc[p] \in Critical /\ pc[p] \notin Building /\ pc[p] \notin HalfStarted
  BY DEF Critical, StartLabels, InspectLabels, StopLabels, EnvLabels, Building, HalfStarted
<1>2. CASE /\ RegistryOwned(val[p].id) /\ Goto(p, "t_rmreg")
           /\ UNCHANGED <<locals, res, faults>>
  <2>1. (MarkOf(p) /\ ValOf(p) /\ RemoveOf(p) /\ CleanOf(p))'
    BY <1>2
    DEF TypeOK, Goto, world, ValOf, RemoveOf, CleanOf, ProcInv, ProcOf, RegistryOwned, State,
        MarkOf, MarkerMatches, Building, HalfStarted
  <2> QED
    BY <1>1, <1>2, <2>1, GotoStep
    DEF TypeOK, Goto, Critical, StartLabels, InspectLabels, StopLabels, EnvLabels, Building,
        HalfStarted
<1>3. CASE Return(p, "conflict") /\ (Fault \/ UNCHANGED faults)
  BY <1>1, <1>3, ReturnStep, FaultType DEF TypeOK, Result
<1> QED BY <1>2, <1>3

\* BeginEnvironmentOperation loads the state file: the invariant is kept.
LEMMA EnvCheckStep ==
  ASSUME NEW p \in Proc, SafeInv, EnvCheck(p)
  PROVE  SafeInv'
<1> USE NoneAssumption DEF SafeInv, EnvCheck, locals
<1>1. pc[p] \in Critical /\ pc[p] \notin Building /\ pc[p] \notin HalfStarted
  BY DEF Critical, StartLabels, InspectLabels, StopLabels, EnvLabels, Building, HalfStarted
<1>2. CASE /\ stateFile # None /\ val' = [val EXCEPT ![p] = stateFile]
           /\ Goto(p, "e_verify") /\ UNCHANGED <<call, cid, plan, res, faults>>
  <2>1. (MarkOf(p) /\ ValOf(p) /\ RemoveOf(p) /\ CleanOf(p))'
    BY <1>2 DEF TypeOK, Goto, world, ValOf, RemoveOf, CleanOf, MarkOf, RegistryOwned,
        MarkerMatches, Building, HalfStarted
  <2> QED
    BY <1>1, <1>2, <2>1, GotoStep
    DEF TypeOK, Goto, Critical, StartLabels, InspectLabels, StopLabels, EnvLabels, Building,
        HalfStarted
<1>3. CASE Return(p, "prereq") /\ (Fault \/ UNCHANGED faults)
  BY <1>1, <1>3, ReturnStep, FaultType DEF TypeOK, Result
<1> QED BY <1>2, <1>3

\* BeginEnvironmentOperation verifies the containers: the invariant is kept.
LEMMA EnvVerifyStep ==
  ASSUME NEW p \in Proc, SafeInv, EnvVerify(p)
  PROVE  SafeInv'
<1> USE NoneAssumption DEF SafeInv, EnvVerify, locals
<1>1. pc[p] \in Critical /\ pc[p] \notin Building /\ pc[p] \notin HalfStarted
  BY DEF Critical, StartLabels, InspectLabels, StopLabels, EnvLabels, Building, HalfStarted
<1>2. CASE Goto(p, "e_lease") /\ UNCHANGED <<locals, res, faults>>
  <2>1. (MarkOf(p) /\ ValOf(p) /\ RemoveOf(p) /\ CleanOf(p))'
    BY <1>2 DEF TypeOK, Goto, world, ValOf, RemoveOf, CleanOf, ProcInv, ProcOf, MarkOf,
        RegistryOwned, MarkerMatches, Building, HalfStarted
  <2> QED
    BY <1>1, <1>2, <2>1, GotoStep
    DEF TypeOK, Goto, Critical, StartLabels, InspectLabels, StopLabels, EnvLabels, Building,
        HalfStarted
<1>3. CASE \E r \in {"prereq", "conflict", "error"} : Return(p, r) /\ (Fault \/ UNCHANGED faults)
  BY <1>1, <1>3, ReturnStep, FaultType DEF TypeOK, Result
<1> QED BY <1>2, <1>3

\* The lease gives the lock back: the invariant is kept.
LEMMA LeaseCloseStep ==
  ASSUME NEW p \in Proc, SafeInv, LeaseClose(p)
  PROVE  SafeInv'
<1> USE NoneAssumption DEF SafeInv, LeaseClose, locals
<1>1. pc[p] \in Critical /\ pc[p] \notin Building /\ pc[p] \notin HalfStarted
  BY DEF Critical, StartLabels, InspectLabels, StopLabels, EnvLabels, Building, HalfStarted
<1>2. CASE Return(p, "ok") /\ UNCHANGED faults
  BY <1>1, <1>2, ReturnStep, FaultType DEF TypeOK, Result
<1> QED BY <1>2

\* Stop looks at what is there and compares the environments: the invariant is kept.
LEMMA StopLookStep ==
  ASSUME NEW p \in Proc, SafeInv, StopLook(p)
  PROVE  SafeInv'
<1> USE NoneAssumption DEF SafeInv, StopLook, locals
<1>1. pc[p] \in Critical /\ pc[p] \notin Building /\ pc[p] \notin HalfStarted
  BY DEF Critical, StartLabels, InspectLabels, StopLabels, EnvLabels, Building, HalfStarted
<1>2. CASE /\ node = None /\ registry = None /\ Goto(p, "t_rmstate")
           /\ UNCHANGED <<locals, res, faults>>
  <2>1. (MarkOf(p) /\ ValOf(p) /\ RemoveOf(p) /\ CleanOf(p))'
    BY <1>2 DEF TypeOK, Goto, world, ValOf, RemoveOf, CleanOf, MarkOf, RegistryOwned,
        MarkerMatches, Building, HalfStarted
  <2> QED
    BY <1>1, <1>2, <2>1, GotoStep
    DEF TypeOK, Goto, Critical, StartLabels, InspectLabels, StopLabels, EnvLabels, Building,
        HalfStarted
<1>3. CASE \E r \in {"conflict", "error"} : Return(p, r) /\ (Fault \/ UNCHANGED faults)
  BY <1>1, <1>3, ReturnStep, FaultType DEF TypeOK, Result
<1>4. CASE /\ node # None \/ registry # None
           /\ StopAllowed(p)
           /\ plan' = [plan EXCEPT ![p].registry = (registry # None)]
           /\ Goto(p, IF node # None THEN "t_marker" ELSE "t_owner")
           /\ UNCHANGED <<call, cid, val, res, faults>>
  <2>0. (registry # None) \in BOOLEAN OBVIOUS
  <2>1. plan' \in [Proc -> Plan] BY <1>4, <2>0 DEF TypeOK, Plan
  <2>2. plan'[p].expected = plan[p].expected /\ plan'[p].registry = (registry # None)
    BY <1>4 DEF TypeOK, Plan
  <2>3. (MarkOf(p) /\ ValOf(p) /\ RemoveOf(p) /\ CleanOf(p))'
    BY <1>4, <2>2
    DEF StopAllowed, TypeOK, Goto, world, ProcInv, ProcOf, ValOf, RemoveOf, CleanOf, MarkOf,
        RegistryOwned, MarkerMatches, Building, HalfStarted
  <2>4. \A q \in Proc \ {p} : plan'[q] = plan[q] BY <1>4 DEF TypeOK
  <2>5. CASE node # None
    BY <1>1, <1>4, <2>1, <2>3, <2>4, <2>5, GotoStep
    DEF TypeOK, Critical, StopLabels, Building, HalfStarted
  <2>6. CASE node = None
    BY <1>1, <1>4, <2>1, <2>3, <2>4, <2>6, GotoStep
    DEF TypeOK, Critical, StopLabels, Building, HalfStarted
  <2> QED BY <2>5, <2>6
<1> QED BY <1>2, <1>3, <1>4

\* Inspect loads the state file: the invariant is kept.
LEMMA InspectCheckStep ==
  ASSUME NEW p \in Proc, SafeInv, InspectCheck(p)
  PROVE  SafeInv'
<1> USE NoneAssumption DEF SafeInv, InspectCheck, locals
<1>1. pc[p] \in Critical /\ pc[p] \notin Building /\ pc[p] \notin HalfStarted
  BY DEF Critical, StartLabels, InspectLabels, StopLabels, EnvLabels, Building, HalfStarted
<1>2. CASE /\ stateFile # None /\ val' = [val EXCEPT ![p] = stateFile]
           /\ Goto(p, "i_verify") /\ UNCHANGED <<call, cid, plan, res, faults>>
  <2>1. (MarkOf(p) /\ ValOf(p) /\ RemoveOf(p) /\ CleanOf(p))'
    BY <1>2 DEF TypeOK, Goto, world, ValOf, RemoveOf, CleanOf, MarkOf, RegistryOwned,
        MarkerMatches, Building, HalfStarted
  <2> QED
    BY <1>1, <1>2, <2>1, GotoStep
    DEF TypeOK, Goto, Critical, StartLabels, InspectLabels, StopLabels, EnvLabels, Building,
        HalfStarted
<1>3. CASE Return(p, "prereq") /\ (Fault \/ UNCHANGED faults)
  BY <1>1, <1>3, ReturnStep, FaultType DEF TypeOK, Result
<1>4. CASE /\ call[p].cmd = "stop" /\ lock' = None
           /\ pc' = [pc EXCEPT ![p] = "stop"] /\ UNCHANGED <<locals, res>>
           /\ Fault \/ UNCHANGED faults
  <2>1. "stop" \in Label /\ "stop" \notin Building /\ "stop" \notin Critical
    BY
    DEF Label, Critical, StartLabels, InspectLabels, StopLabels, EnvLabels, Building,
        HalfStarted
  <2>2. LockInv' BY <1>1, <1>4, <2>1 DEF LockInv, TypeOK
  <2>3. CallInv' BY <1>1, <1>4 DEF CallInv, TypeOK, StartLabels, InspectLabels
  <2>4. (MarkOf(p) /\ ValOf(p) /\ RemoveOf(p) /\ CleanOf(p))'
    BY <1>4 DEF ValOf, RemoveOf, CleanOf, TypeOK, MarkOf, RegistryOwned, MarkerMatches,
        Building, HalfStarted
  <2> QED BY <1>1, <1>4, <2>1, <2>2, <2>3, <2>4, MoveStep, FaultType DEF TypeOK
<1> QED BY <1>2, <1>3, <1>4 DEF InspectPrerequisite

\* Inspect verifies the containers; the CLI goes on to the question: the invariant is kept.
LEMMA InspectVerifyStep ==
  ASSUME NEW p \in Proc, SafeInv, InspectVerify(p)
  PROVE  SafeInv'
<1> USE NoneAssumption DEF SafeInv, InspectVerify, locals
<1>1. pc[p] \in Critical /\ pc[p] \notin Building /\ pc[p] \notin HalfStarted
  BY DEF Critical, StartLabels, InspectLabels, StopLabels, EnvLabels, Building, HalfStarted
<1>2. CASE \E r \in {"ok", "conflict", "error"} : Return(p, r) /\ (Fault \/ UNCHANGED faults)
  BY <1>1, <1>2, ReturnStep, FaultType DEF TypeOK, Result
<1>3. CASE /\ call[p].cmd = "stop" /\ lock' = None
           /\ pc' = [pc EXCEPT ![p] = "prompt"]
           /\ plan' = [plan EXCEPT ![p].expected = val[p].namespaces]
           /\ val' = [val EXCEPT ![p] = None]
           /\ UNCHANGED <<call, cid, res, faults>>
  <2>1. "prompt" \in Label /\ "prompt" \notin Building /\ "prompt" \notin Critical
    BY
    DEF Label, Critical, StartLabels, InspectLabels, StopLabels, EnvLabels, Building,
        HalfStarted
  <2>2. LockInv' BY <1>1, <1>3, <2>1 DEF LockInv, TypeOK
  <2>3. CallInv' BY <1>1, <1>3 DEF CallInv, TypeOK, StartLabels, InspectLabels
  <2>4. (MarkOf(p) /\ ValOf(p) /\ RemoveOf(p) /\ CleanOf(p))'
    BY <1>3 DEF ValOf, RemoveOf, CleanOf, TypeOK, MarkOf, RegistryOwned, MarkerMatches,
        Building, HalfStarted
  <2>5. val[p] \in State BY DEF TypeOK, ProcInv, ProcOf, ValOf
  <2>6. plan' \in [Proc -> Plan] BY <1>3, <2>5 DEF TypeOK, Plan, State
  <2>7. \A q \in Proc \ {p} : plan'[q] = plan[q] /\ val'[q] = val[q] BY <1>3 DEF TypeOK
  <2>8. val' \in [Proc -> State \cup {None}] BY <1>3 DEF TypeOK
  <2> QED BY <1>1, <1>3, <2>1, <2>2, <2>3, <2>4, <2>6, <2>7, <2>8, MoveStep DEF TypeOK
<1> QED BY <1>2, <1>3

-----------------------------------------------------------------------------
(* The steps that change the containers, the state file or an identity.    *)

\* A process that stays inside its operation.
LEMMA GotoProc ==
  ASSUME NEW p \in Proc, NEW l \in Critical, TypeOK, LockInv, CallInv, Goto(p, l),
         pc[p] \in Critical, UNCHANGED call,
         \/ pc[p] \in StartLabels /\ l \in StartLabels
         \/ pc[p] \in StopLabels /\ l \in StopLabels
         \/ pc[p] \in EnvLabels /\ l \in EnvLabels
  PROVE  /\ LockInv' /\ CallInv'
         /\ lock' \in Proc \cup {None} /\ pc' \in [Proc -> Label]
         /\ pc'[p] = l /\ \A q \in Proc \ {p} : pc'[q] = pc[q]
<1>1. pc' \in [Proc -> Label] /\ pc'[p] = l /\ \A q \in Proc \ {p} : pc'[q] = pc[q]
  BY DEF Goto, TypeOK, Label
<1>2. LockInv' /\ lock' \in Proc \cup {None} BY <1>1 DEF Goto, LockInv, TypeOK
<1>3. CallInv' BY <1>1 DEF CallInv, Critical, StartLabels, InspectLabels, StopLabels, EnvLabels
<1> QED BY <1>1, <1>2, <1>3

\* Start removes a registry of ours that has no cluster: the invariant is kept.
LEMMA StartRemoveOrphanStep ==
  ASSUME NEW p \in Proc, SafeInv, StartRemoveOrphan(p)
  PROVE  SafeInv'
<1> USE NoneAssumption DEF StartRemoveOrphan, SafeInv, world, locals
<1>1. pc[p] \in Critical
  BY DEF Critical, StartLabels, InspectLabels, StopLabels, EnvLabels, Building, HalfStarted
<1>2. lock = p /\ \A q \in Proc \ {p} : pc[q] \notin Critical /\ cid[q] = None BY <1>1, Alone
<1>3. ProcOf(p) BY DEF ProcInv
<1>4. CASE registry' = None /\ Goto(p, "s_ports") /\ UNCHANGED <<locals, res, faults, late>>
  <2>1. /\ LockInv' /\ CallInv'
        /\ lock' \in Proc \cup {None} /\ pc' \in [Proc -> Label]
        /\ pc'[p] = "s_ports" /\ \A q \in Proc \ {p} : pc'[q] = pc[q]
    BY <1>1, <1>4, GotoProc DEF Critical, StartLabels, StopLabels, EnvLabels
  <2>2. \A q \in Proc \ {p} : cid'[q] = cid[q]
    BY <1>4 DEF TypeOK
  <2>3. TypeOK'
    BY <1>4, <1>3, <2>1, FaultType, GiveUpType DEF TypeOK, Result, Cmd
  <2>4. IdsInv' /\ StateInv'
    BY <1>2, <1>3, <1>4, <2>1
    DEF TypeOK, IdsInv, StateInv, State, Node, Registry, Command, ProcOf, CidOf, LateOf,
        StartOf, ValOf, RemoveOf, CleanOf, GiveUp, Cmd, Building, HalfStarted, MarkOf,
        WithNode, RegistryOwned, MarkerMatches
  <2>5. ProcOf(p)'
    BY <1>2, <1>3, <1>4, <2>1
    DEF TypeOK, IdsInv, State, Node, Registry, Command, ProcOf, CidOf, LateOf, StartOf, ValOf,
        RemoveOf, CleanOf, GiveUp, Cmd, Building, HalfStarted, MarkOf, WithNode, RegistryOwned,
        MarkerMatches
  <2>6. DebrisInv'
    BY <1>2, <1>3, <1>4, <2>1, <2>3
    DEF TypeOK, State, Node, Registry, Command, ProcOf, CidOf, LateOf, StartOf, ValOf,
        RemoveOf, CleanOf, DebrisInv, Startable, RegistryOwned, MarkerMatches, GiveUp, Cmd,
        Critical, StartLabels, InspectLabels, StopLabels, EnvLabels, Building, HalfStarted,
        MarkOf, WithNode
  <2> QED BY <1>1, <2>1, <2>2, <2>3, <2>4, <2>5, <2>6, WorkStep
<1>5. CASE /\ GiveUp(Cmd("dockerRm", stateFile.id, None)) /\ Return(p, "error")
           /\ UNCHANGED registry
  <2>1. /\ LockInv' /\ CallInv'
        /\ pc'[p] = "idle" /\ cid'[p] = None /\ \A q \in Proc \ {p} : pc'[q] = pc[q]
    BY <1>5, ReturnProc DEF Result
  <2>2. \A q \in Proc \ {p} : cid'[q] = cid[q]
    BY <1>5, ReturnProc DEF Result
  <2>3. TypeOK'
    BY <1>5, <1>3, <2>1, FaultType, GiveUpType, ReturnTypes
    DEF TypeOK, Result, Cmd, Command, State, MaybeId, ValOf, ProcOf
  <2>4. IdsInv' /\ StateInv'
    BY <1>2, <1>3, <1>5, <2>1
    DEF TypeOK, IdsInv, StateInv, State, Node, Registry, Command, ProcOf, CidOf, LateOf,
        StartOf, ValOf, RemoveOf, CleanOf, GiveUp, Cmd, Building, HalfStarted, MarkOf,
        WithNode, RegistryOwned, MarkerMatches
  <2>5. ProcOf(p)'
    BY <2>1, <2>3, <2>4, IdleProc
    DEF Critical, StartLabels, InspectLabels, StopLabels, EnvLabels, Building, HalfStarted
  <2>6. DebrisInv'
    BY <1>2, <1>3, <1>5, <2>1, <2>3
    DEF TypeOK, State, Node, Registry, Command, ProcOf, CidOf, LateOf, StartOf, ValOf,
        RemoveOf, CleanOf, DebrisInv, Startable, RegistryOwned, MarkerMatches, GiveUp, Cmd,
        Critical, StartLabels, InspectLabels, StopLabels, EnvLabels, Building, HalfStarted,
        MarkOf, WithNode
  <2> QED BY <1>1, <2>1, <2>2, <2>3, <2>4, <2>5, <2>6, WorkStep
<1> QED BY <1>4, <1>5

\* Start checks the ports and draws an identity: the invariant is kept.
LEMMA StartPortsStep ==
  ASSUME NEW p \in Proc, SafeInv, StartPorts(p)
  PROVE  SafeInv'
<1> USE NoneAssumption DEF StartPorts, SafeInv, world, locals
<1>1. pc[p] \in Critical
  BY DEF Critical, StartLabels, InspectLabels, StopLabels, EnvLabels, Building, HalfStarted,
      NewClusterID
<1>2. lock = p /\ \A q \in Proc \ {p} : pc[q] \notin Critical /\ cid[q] = None BY <1>1, Alone
<1>3. ProcOf(p) BY DEF ProcInv
<1>4. CASE \E id \in NewClusterID :
             /\ cid' = [cid EXCEPT ![p] = id] /\ used' = used \cup {id}
             /\ Goto(p, "s_run") /\ UNCHANGED <<call, val, plan, res, faults>>
  <2>0. used' \subseteq Id /\ cid' \in [Proc -> MaybeId]
    BY <1>4 DEF TypeOK, MaybeId, NewClusterID
  <2>1. /\ LockInv' /\ CallInv'
        /\ lock' \in Proc \cup {None} /\ pc' \in [Proc -> Label]
        /\ pc'[p] = "s_run" /\ \A q \in Proc \ {p} : pc'[q] = pc[q]
    BY <1>1, <1>4, GotoProc DEF Critical, StartLabels, StopLabels, EnvLabels
  <2>2. \A q \in Proc \ {p} : cid'[q] = cid[q]
    BY <1>4 DEF TypeOK
  <2>3. TypeOK'
    BY <1>4, <1>3, <2>1, FaultType, GiveUpType, <2>0 DEF TypeOK, Result, Cmd, MaybeId
  <2>4. IdsInv' /\ StateInv'
    BY <1>2, <1>3, <1>4, <2>1
    DEF TypeOK, IdsInv, StateInv, State, Node, Registry, Command, ProcOf, CidOf, LateOf,
        StartOf, ValOf, RemoveOf, CleanOf, GiveUp, Cmd, Building, HalfStarted, NewClusterID,
        MarkOf, WithNode, RegistryOwned, MarkerMatches
  <2>5. ProcOf(p)'
    BY <1>2, <1>3, <1>4, <2>1
    DEF TypeOK, IdsInv, State, Node, Registry, Command, ProcOf, CidOf, LateOf, StartOf, ValOf,
        RemoveOf, CleanOf, GiveUp, Cmd, Building, HalfStarted, NewClusterID, MarkOf, WithNode,
        RegistryOwned, MarkerMatches
  <2>6. DebrisInv'
    BY <1>2, <1>3, <1>4, <2>1, <2>3
    DEF TypeOK, State, Node, Registry, Command, ProcOf, CidOf, LateOf, StartOf, ValOf,
        RemoveOf, CleanOf, DebrisInv, Startable, RegistryOwned, MarkerMatches, GiveUp, Cmd,
        Critical, StartLabels, InspectLabels, StopLabels, EnvLabels, Building, HalfStarted,
        NewClusterID, MarkOf, WithNode
  <2> QED BY <1>1, <2>1, <2>2, <2>3, <2>4, <2>5, <2>6, WorkStep
<1>5. CASE Fault /\ Return(p, "conflict") /\ UNCHANGED used
  BY <1>1, <1>5, ReturnStep, FaultType DEF TypeOK, Result, HalfStarted
<1> QED BY <1>4, <1>5

\* Start runs the registry container: the invariant is kept.
LEMMA StartRegistryStep ==
  ASSUME NEW p \in Proc, SafeInv, StartRegistry(p)
  PROVE  SafeInv'
<1> USE NoneAssumption DEF StartRegistry, SafeInv, world, locals
<1>1. pc[p] \in Critical
  BY DEF Critical, StartLabels, InspectLabels, StopLabels, EnvLabels, Building, HalfStarted
<1>2. lock = p /\ \A q \in Proc \ {p} : pc[q] \notin Critical /\ cid[q] = None BY <1>1, Alone
<1>3. ProcOf(p) BY DEF ProcInv
<1>4. CASE /\ registry' = [label |-> cid[p], net |-> FALSE] /\ Goto(p, "s_create")
           /\ UNCHANGED <<locals, res, faults, late, unclean>>
  <2>a. cid[p] \in Id BY <1>3 DEF TypeOK, ProcOf, CidOf, Building
  <2>b. registry' \in Registry BY <1>4, <2>a DEF Registry, MaybeId
  <2>0. registry' # None /\ registry'.label = cid[p] /\ cid[p] # None
    BY <1>4, <2>a, <2>b
  <2>1. /\ LockInv' /\ CallInv'
        /\ lock' \in Proc \cup {None} /\ pc' \in [Proc -> Label]
        /\ pc'[p] = "s_create" /\ \A q \in Proc \ {p} : pc'[q] = pc[q]
    BY <1>1, <1>4, GotoProc DEF Critical, StartLabels, StopLabels, EnvLabels
  <2>2. \A q \in Proc \ {p} : cid'[q] = cid[q]
    BY <1>4 DEF TypeOK
  <2>3. TypeOK'
    BY <1>4, <1>3, <2>1, FaultType, GiveUpType
    DEF TypeOK, Result, Cmd, Registry, MaybeId, CidOf, ProcOf
  <2>4. IdsInv' /\ StateInv'
    BY <1>2, <1>3, <1>4, <2>1, <2>0
    DEF TypeOK, IdsInv, StateInv, State, Node, Registry, Command, ProcOf, CidOf, LateOf,
        StartOf, ValOf, RemoveOf, CleanOf, GiveUp, Cmd, Building, HalfStarted, MarkOf,
        WithNode, RegistryOwned, MarkerMatches
  <2>5. ProcOf(p)'
    BY <1>2, <1>3, <1>4, <2>1, <2>0
    DEF TypeOK, IdsInv, State, Node, Registry, Command, ProcOf, CidOf, LateOf, StartOf, ValOf,
        RemoveOf, CleanOf, GiveUp, Cmd, Building, HalfStarted, MarkOf, WithNode, RegistryOwned,
        MarkerMatches
  <2>6. DebrisInv'
    BY <1>2, <1>3, <1>4, <2>1, <2>0, <2>3
    DEF TypeOK, State, Node, Registry, Command, ProcOf, CidOf, LateOf, StartOf, ValOf,
        RemoveOf, CleanOf, DebrisInv, Startable, RegistryOwned, MarkerMatches, GiveUp, Cmd,
        Critical, StartLabels, InspectLabels, StopLabels, EnvLabels, Building, HalfStarted,
        MarkOf, WithNode
  <2> QED BY <1>1, <2>1, <2>2, <2>3, <2>4, <2>5, <2>6, WorkStep
<1>5. CASE Return(p, "prereq") /\ UNCHANGED <<registry, late, faults, unclean>>
  BY <1>1, <1>5, ReturnStep, FaultType DEF TypeOK, Result, HalfStarted
<1>6. CASE /\ GiveUp(Cmd("dockerRun", cid[p], None)) /\ Return(p, "prereq")
           /\ unclean' = Flag(unclean, "start", late' # late) /\ UNCHANGED registry
  <2>0. /\ unclean' \subseteq Debris \cup Vanished
        /\ Tidy(unclean') => Tidy(unclean) /\ late' = late
        /\ "node" \in unclean' <=> "node" \in unclean
        /\ "registry" \in unclean' <=> "registry" \in unclean
    BY <1>6, StartFlag
  <2>1. /\ LockInv' /\ CallInv'
        /\ pc'[p] = "idle" /\ cid'[p] = None /\ \A q \in Proc \ {p} : pc'[q] = pc[q]
    BY <1>6, ReturnProc DEF Result
  <2>2. \A q \in Proc \ {p} : cid'[q] = cid[q]
    BY <1>6, ReturnProc DEF Result
  <2>3. TypeOK'
    BY <2>0, <1>6, <1>3, <2>1, FaultType, GiveUpType, ReturnTypes
    DEF TypeOK, Result, Cmd, Command, MaybeId
  <2>4. IdsInv' /\ StateInv'
    BY <2>0, <1>2, <1>3, <1>6, <2>1
    DEF TypeOK, IdsInv, StateInv, State, Node, Registry, Command, ProcOf, CidOf, LateOf,
        StartOf, ValOf, RemoveOf, CleanOf, GiveUp, Cmd, Building, HalfStarted, MarkOf,
        WithNode, RegistryOwned, MarkerMatches
  <2>5. ProcOf(p)'
    BY <2>0, <2>1, <2>3, <2>4, IdleProc
    DEF Critical, StartLabels, InspectLabels, StopLabels, EnvLabels, Building, HalfStarted
  <2>6. DebrisInv'
    BY <2>0, <1>2, <1>3, <1>6, <2>1, <2>3
    DEF TypeOK, State, Node, Registry, Command, ProcOf, CidOf, LateOf, StartOf, ValOf,
        RemoveOf, CleanOf, DebrisInv, Startable, RegistryOwned, MarkerMatches, GiveUp, Cmd,
        Critical, StartLabels, InspectLabels, StopLabels, EnvLabels, Building, HalfStarted,
        MarkOf, WithNode
  <2> QED BY <1>1, <2>1, <2>2, <2>3, <2>4, <2>5, <2>6, WorkStep
<1> QED BY <1>4, <1>5, <1>6

\* Start creates the cluster with kind: the invariant is kept.
LEMMA StartCreateStep ==
  ASSUME NEW p \in Proc, SafeInv, StartCreate(p)
  PROVE  SafeInv'
<1> USE NoneAssumption DEF StartCreate, SafeInv, world, locals
<1>1. pc[p] \in Critical
  BY DEF Critical, StartLabels, InspectLabels, StopLabels, EnvLabels, Building, HalfStarted
<1>2. lock = p /\ \A q \in Proc \ {p} : pc[q] \notin Critical /\ cid[q] = None BY <1>1, Alone
<1>3. ProcOf(p) BY DEF ProcInv
<1>4. CASE /\ node = None /\ Goto(p, "s_net") /\ UNCHANGED <<late, faults, unclean>>
           /\ node' = [gen |-> cid[p], marker |-> None, api |-> None, rel |-> call[p].rel]
  <2>1. /\ LockInv' /\ CallInv'
        /\ lock' \in Proc \cup {None} /\ pc' \in [Proc -> Label]
        /\ pc'[p] = "s_net" /\ \A q \in Proc \ {p} : pc'[q] = pc[q]
    BY <1>1, <1>4, GotoProc DEF Critical, StartLabels, StopLabels, EnvLabels
  <2>2. \A q \in Proc \ {p} : cid'[q] = cid[q]
    BY <1>4 DEF TypeOK
  <2>3. TypeOK'
    BY <1>4, <1>3, <2>1, FaultType, GiveUpType DEF TypeOK, Result, Cmd, Node, MaybeId, Call
  <2>4. IdsInv' /\ StateInv'
    BY <1>2, <1>3, <1>4, <2>1
    DEF TypeOK, IdsInv, StateInv, State, Node, Registry, Command, ProcOf, CidOf, LateOf,
        StartOf, ValOf, RemoveOf, CleanOf, GiveUp, Cmd, Building, HalfStarted, MarkOf,
        WithNode, RegistryOwned, MarkerMatches
  <2>5. ProcOf(p)'
    BY <1>2, <1>3, <1>4, <2>1
    DEF TypeOK, IdsInv, State, Node, Registry, Command, ProcOf, CidOf, LateOf, StartOf, ValOf,
        RemoveOf, CleanOf, GiveUp, Cmd, Building, HalfStarted, MaybeId, Call, MarkOf, WithNode,
        RegistryOwned, MarkerMatches
  <2>6. DebrisInv'
    BY <1>2, <1>3, <1>4, <2>1, <2>3
    DEF TypeOK, State, Node, Registry, Command, ProcOf, CidOf, LateOf, StartOf, ValOf,
        RemoveOf, CleanOf, DebrisInv, Startable, RegistryOwned, MarkerMatches, GiveUp, Cmd,
        Critical, StartLabels, InspectLabels, StopLabels, EnvLabels, Building, HalfStarted,
        MarkOf, WithNode
  <2> QED BY <1>1, <2>1, <2>2, <2>3, <2>4, <2>5, <2>6, WorkStep
<1>5. CASE node # None /\ Goto(p, "c_reg") /\ UNCHANGED <<node, late, faults, unclean>>
  <2>1. /\ LockInv' /\ CallInv'
        /\ lock' \in Proc \cup {None} /\ pc' \in [Proc -> Label]
        /\ pc'[p] = "c_reg" /\ \A q \in Proc \ {p} : pc'[q] = pc[q]
    BY <1>1, <1>5, GotoProc DEF Critical, StartLabels, StopLabels, EnvLabels
  <2>2. \A q \in Proc \ {p} : cid'[q] = cid[q]
    BY <1>5 DEF TypeOK
  <2>3. TypeOK'
    BY <1>5, <1>3, <2>1, FaultType, GiveUpType DEF TypeOK, Result, Cmd
  <2>4. IdsInv' /\ StateInv'
    BY <1>2, <1>3, <1>5, <2>1
    DEF TypeOK, IdsInv, StateInv, State, Node, Registry, Command, ProcOf, CidOf, LateOf,
        StartOf, ValOf, RemoveOf, CleanOf, GiveUp, Cmd, Building, HalfStarted, MarkOf,
        WithNode, RegistryOwned, MarkerMatches
  <2>5. ProcOf(p)'
    BY <1>2, <1>3, <1>5, <2>1
    DEF TypeOK, IdsInv, State, Node, Registry, Command, ProcOf, CidOf, LateOf, StartOf, ValOf,
        RemoveOf, CleanOf, GiveUp, Cmd, Building, HalfStarted, MarkOf, WithNode, RegistryOwned,
        MarkerMatches
  <2>6. DebrisInv'
    BY <1>2, <1>3, <1>5, <2>1, <2>3
    DEF TypeOK, State, Node, Registry, Command, ProcOf, CidOf, LateOf, StartOf, ValOf,
        RemoveOf, CleanOf, DebrisInv, Startable, RegistryOwned, MarkerMatches, GiveUp, Cmd,
        Critical, StartLabels, InspectLabels, StopLabels, EnvLabels, Building, HalfStarted,
        MarkOf, WithNode
  <2> QED BY <1>1, <2>1, <2>2, <2>3, <2>4, <2>5, <2>6, WorkStep
<1>6. CASE /\ GiveUp(Cmd("kindCreate", cid[p], call[p].rel)) /\ Goto(p, "c_reg")
           /\ unclean' = Flag(unclean, "start", late' # late) /\ UNCHANGED node
  <2>0. /\ unclean' \subseteq Debris \cup Vanished
        /\ Tidy(unclean') => Tidy(unclean) /\ late' = late
        /\ "node" \in unclean' <=> "node" \in unclean
        /\ "registry" \in unclean' <=> "registry" \in unclean
    BY <1>6, StartFlag
  <2>1. /\ LockInv' /\ CallInv'
        /\ lock' \in Proc \cup {None} /\ pc' \in [Proc -> Label]
        /\ pc'[p] = "c_reg" /\ \A q \in Proc \ {p} : pc'[q] = pc[q]
    BY <1>1, <1>6, GotoProc DEF Critical, StartLabels, StopLabels, EnvLabels
  <2>2. \A q \in Proc \ {p} : cid'[q] = cid[q]
    BY <1>6 DEF TypeOK
  <2>3. TypeOK'
    BY <2>0, <1>6, <1>3, <2>1, FaultType, GiveUpType DEF TypeOK, Result, Cmd, Command, MaybeId, Call
  <2>4. IdsInv' /\ StateInv'
    BY <2>0, <1>2, <1>3, <1>6, <2>1
    DEF TypeOK, IdsInv, StateInv, State, Node, Registry, Command, ProcOf, CidOf, LateOf,
        StartOf, ValOf, RemoveOf, CleanOf, GiveUp, Cmd, Building, HalfStarted, MarkOf,
        WithNode, RegistryOwned, MarkerMatches
  <2>5. ProcOf(p)'
    BY <2>0, <1>2, <1>3, <1>6, <2>1
    DEF TypeOK, IdsInv, State, Node, Registry, Command, ProcOf, CidOf, LateOf, StartOf, ValOf,
        RemoveOf, CleanOf, GiveUp, Cmd, Building, HalfStarted, MarkOf, WithNode, RegistryOwned,
        MarkerMatches
  <2>6. DebrisInv'
    BY <2>0, <1>2, <1>3, <1>6, <2>1, <2>3
    DEF TypeOK, State, Node, Registry, Command, ProcOf, CidOf, LateOf, StartOf, ValOf,
        RemoveOf, CleanOf, DebrisInv, Startable, RegistryOwned, MarkerMatches, GiveUp, Cmd,
        Critical, StartLabels, InspectLabels, StopLabels, EnvLabels, Building, HalfStarted,
        MarkOf, WithNode
  <2> QED BY <1>1, <2>1, <2>2, <2>3, <2>4, <2>5, <2>6, WorkStep
<1> QED BY <1>4, <1>5, <1>6

\* Start connects the registry to the network of kind: the invariant is kept.
LEMMA StartConnectStep ==
  ASSUME NEW p \in Proc, SafeInv, StartConnect(p)
  PROVE  SafeInv'
<1> USE NoneAssumption DEF StartConnect, SafeInv, world, locals
<1>1. pc[p] \in Critical
  BY DEF Critical, StartLabels, InspectLabels, StopLabels, EnvLabels, Building, HalfStarted
<1>2. lock = p /\ \A q \in Proc \ {p} : pc[q] \notin Critical /\ cid[q] = None BY <1>1, Alone
<1>3. ProcOf(p) BY DEF ProcInv
<1>4. CASE /\ registry # None /\ registry' = [registry EXCEPT !.net = TRUE]
           /\ Goto(p, "s_mark") /\ UNCHANGED faults
  <2>1. /\ LockInv' /\ CallInv'
        /\ lock' \in Proc \cup {None} /\ pc' \in [Proc -> Label]
        /\ pc'[p] = "s_mark" /\ \A q \in Proc \ {p} : pc'[q] = pc[q]
    BY <1>1, <1>4, GotoProc DEF Critical, StartLabels, StopLabels, EnvLabels
  <2>2. \A q \in Proc \ {p} : cid'[q] = cid[q]
    BY <1>4 DEF TypeOK
  <2>3. TypeOK'
    BY <1>4, <1>3, <2>1, FaultType, GiveUpType DEF TypeOK, Result, Cmd, Registry
  <2>4. IdsInv' /\ StateInv'
    BY <1>2, <1>3, <1>4, <2>1
    DEF TypeOK, IdsInv, StateInv, State, Node, Registry, Command, ProcOf, CidOf, LateOf,
        StartOf, ValOf, RemoveOf, CleanOf, GiveUp, Cmd, Building, HalfStarted, MarkOf,
        WithNode, RegistryOwned, MarkerMatches
  <2>5. ProcOf(p)'
    BY <1>2, <1>3, <1>4, <2>1
    DEF TypeOK, IdsInv, State, Node, Registry, Command, ProcOf, CidOf, LateOf, StartOf, ValOf,
        RemoveOf, CleanOf, GiveUp, Cmd, Building, HalfStarted, MarkOf, WithNode, RegistryOwned,
        MarkerMatches
  <2>6. DebrisInv'
    BY <1>2, <1>3, <1>4, <2>1, <2>3
    DEF TypeOK, State, Node, Registry, Command, ProcOf, CidOf, LateOf, StartOf, ValOf,
        RemoveOf, CleanOf, DebrisInv, Startable, RegistryOwned, MarkerMatches, GiveUp, Cmd,
        Critical, StartLabels, InspectLabels, StopLabels, EnvLabels, Building, HalfStarted,
        MarkOf, WithNode
  <2> QED BY <1>1, <2>1, <2>2, <2>3, <2>4, <2>5, <2>6, WorkStep
<1>5. CASE (Fault \/ UNCHANGED faults) /\ Goto(p, "c_node") /\ UNCHANGED registry
  <2>1. /\ LockInv' /\ CallInv'
        /\ lock' \in Proc \cup {None} /\ pc' \in [Proc -> Label]
        /\ pc'[p] = "c_node" /\ \A q \in Proc \ {p} : pc'[q] = pc[q]
    BY <1>1, <1>5, GotoProc DEF Critical, StartLabels, StopLabels, EnvLabels
  <2>2. \A q \in Proc \ {p} : cid'[q] = cid[q]
    BY <1>5 DEF TypeOK
  <2>3. TypeOK'
    BY <1>5, <1>3, <2>1, FaultType, GiveUpType DEF TypeOK, Result, Cmd
  <2>4. IdsInv' /\ StateInv'
    BY <1>2, <1>3, <1>5, <2>1
    DEF TypeOK, IdsInv, StateInv, State, Node, Registry, Command, ProcOf, CidOf, LateOf,
        StartOf, ValOf, RemoveOf, CleanOf, GiveUp, Cmd, Building, HalfStarted, MarkOf,
        WithNode, RegistryOwned, MarkerMatches
  <2>5. ProcOf(p)'
    BY <1>2, <1>3, <1>5, <2>1
    DEF TypeOK, IdsInv, State, Node, Registry, Command, ProcOf, CidOf, LateOf, StartOf, ValOf,
        RemoveOf, CleanOf, GiveUp, Cmd, Building, HalfStarted, MarkOf, WithNode, RegistryOwned,
        MarkerMatches
  <2>6. DebrisInv'
    BY <1>2, <1>3, <1>5, <2>1, <2>3
    DEF TypeOK, State, Node, Registry, Command, ProcOf, CidOf, LateOf, StartOf, ValOf,
        RemoveOf, CleanOf, DebrisInv, Startable, RegistryOwned, MarkerMatches, GiveUp, Cmd,
        Critical, StartLabels, InspectLabels, StopLabels, EnvLabels, Building, HalfStarted,
        MarkOf, WithNode
  <2> QED BY <1>1, <2>1, <2>2, <2>3, <2>4, <2>5, <2>6, WorkStep
<1> QED BY <1>4, <1>5

\* Start writes the marker on the node: the invariant is kept.
LEMMA StartMarkStep ==
  ASSUME NEW p \in Proc, SafeInv, StartMark(p)
  PROVE  SafeInv'
<1> USE NoneAssumption DEF StartMark, SafeInv, world, locals
<1>1. pc[p] \in Critical
  BY DEF Critical, StartLabels, InspectLabels, StopLabels, EnvLabels, Building, HalfStarted
<1>2. lock = p /\ \A q \in Proc \ {p} : pc[q] \notin Critical /\ cid[q] = None BY <1>1, Alone
<1>3. ProcOf(p) BY DEF ProcInv
<1>4. CASE /\ node # None /\ node' = [node EXCEPT !.marker = cid[p]]
           /\ Goto(p, "s_api") /\ UNCHANGED faults
  <2>1. /\ LockInv' /\ CallInv'
        /\ lock' \in Proc \cup {None} /\ pc' \in [Proc -> Label]
        /\ pc'[p] = "s_api" /\ \A q \in Proc \ {p} : pc'[q] = pc[q]
    BY <1>1, <1>4, GotoProc DEF Critical, StartLabels, StopLabels, EnvLabels
  <2>2. \A q \in Proc \ {p} : cid'[q] = cid[q]
    BY <1>4 DEF TypeOK
  <2>3. TypeOK'
    BY <1>4, <1>3, <2>1, FaultType, GiveUpType DEF TypeOK, Result, Cmd, Node, MaybeId
  <2>4. IdsInv' /\ StateInv'
    BY <1>2, <1>3, <1>4, <2>1
    DEF TypeOK, IdsInv, StateInv, State, Node, Registry, Command, ProcOf, CidOf, LateOf,
        StartOf, ValOf, RemoveOf, CleanOf, GiveUp, Cmd, Building, HalfStarted, MarkOf,
        WithNode, RegistryOwned, MarkerMatches
  <2>5. ProcOf(p)'
    BY <1>2, <1>3, <1>4, <2>1
    DEF TypeOK, IdsInv, State, Node, Registry, Command, ProcOf, CidOf, LateOf, StartOf, ValOf,
        RemoveOf, CleanOf, GiveUp, Cmd, Building, HalfStarted, MarkOf, WithNode, RegistryOwned,
        MarkerMatches
  <2>6. DebrisInv'
    BY <1>2, <1>3, <1>4, <2>1, <2>3
    DEF TypeOK, State, Node, Registry, Command, ProcOf, CidOf, LateOf, StartOf, ValOf,
        RemoveOf, CleanOf, DebrisInv, Startable, RegistryOwned, MarkerMatches, GiveUp, Cmd,
        Critical, StartLabels, InspectLabels, StopLabels, EnvLabels, Building, HalfStarted,
        MarkOf, WithNode
  <2> QED BY <1>1, <2>1, <2>2, <2>3, <2>4, <2>5, <2>6, WorkStep
<1>5. CASE /\ Fault \/ UNCHANGED faults
           /\ Goto(p, "c_node")
           /\ node' = node \/ (node # None /\ node' = [node EXCEPT !.marker = cid[p]])
  <2>1. /\ LockInv' /\ CallInv'
        /\ lock' \in Proc \cup {None} /\ pc' \in [Proc -> Label]
        /\ pc'[p] = "c_node" /\ \A q \in Proc \ {p} : pc'[q] = pc[q]
    BY <1>1, <1>5, GotoProc DEF Critical, StartLabels, StopLabels, EnvLabels
  <2>2. \A q \in Proc \ {p} : cid'[q] = cid[q]
    BY <1>5 DEF TypeOK
  <2>3. TypeOK'
    BY <1>5, <1>3, <2>1, FaultType, GiveUpType
    DEF TypeOK, Result, Cmd, Node, MaybeId, StartOf, ProcOf, MarkOf, WithNode, Building,
        HalfStarted
  <2>4. IdsInv' /\ StateInv'
    BY <1>2, <1>3, <1>5, <2>1
    DEF TypeOK, IdsInv, StateInv, State, Node, Registry, Command, ProcOf, CidOf, LateOf,
        StartOf, ValOf, RemoveOf, CleanOf, GiveUp, Cmd, Building, HalfStarted, MarkOf,
        WithNode, RegistryOwned, MarkerMatches
  <2>5. ProcOf(p)'
    BY <1>2, <1>3, <1>5, <2>1
    DEF TypeOK, IdsInv, State, Node, Registry, Command, ProcOf, CidOf, LateOf, StartOf, ValOf,
        RemoveOf, CleanOf, GiveUp, Cmd, Building, HalfStarted, MarkOf, WithNode, RegistryOwned,
        MarkerMatches
  <2>6. DebrisInv'
    BY <1>2, <1>3, <1>5, <2>1, <2>3
    DEF TypeOK, State, Node, Registry, Command, ProcOf, CidOf, LateOf, StartOf, ValOf,
        RemoveOf, CleanOf, DebrisInv, Startable, RegistryOwned, MarkerMatches, GiveUp, Cmd,
        Critical, StartLabels, InspectLabels, StopLabels, EnvLabels, Building, HalfStarted,
        MarkOf, WithNode
  <2> QED BY <1>1, <2>1, <2>2, <2>3, <2>4, <2>5, <2>6, WorkStep
<1> QED BY <1>4, <1>5

\* Start writes the identity into the cluster: the invariant is kept.
LEMMA StartAccessStep ==
  ASSUME NEW p \in Proc, SafeInv, StartAccess(p)
  PROVE  SafeInv'
<1> USE NoneAssumption DEF StartAccess, SafeInv, world, locals
<1>1. pc[p] \in Critical
  BY DEF Critical, StartLabels, InspectLabels, StopLabels, EnvLabels, Building, HalfStarted
<1>2. lock = p /\ \A q \in Proc \ {p} : pc[q] \notin Critical /\ cid[q] = None BY <1>1, Alone
<1>3. ProcOf(p) BY DEF ProcInv
<1>4. CASE /\ node # None /\ node' = [node EXCEPT !.api = cid[p]]
           /\ Goto(p, "s_write") /\ UNCHANGED faults
  <2>1. /\ LockInv' /\ CallInv'
        /\ lock' \in Proc \cup {None} /\ pc' \in [Proc -> Label]
        /\ pc'[p] = "s_write" /\ \A q \in Proc \ {p} : pc'[q] = pc[q]
    BY <1>1, <1>4, GotoProc DEF Critical, StartLabels, StopLabels, EnvLabels
  <2>2. \A q \in Proc \ {p} : cid'[q] = cid[q]
    BY <1>4 DEF TypeOK
  <2>3. TypeOK'
    BY <1>4, <1>3, <2>1, FaultType, GiveUpType DEF TypeOK, Result, Cmd, Node, MaybeId
  <2>4. IdsInv' /\ StateInv'
    BY <1>2, <1>3, <1>4, <2>1
    DEF TypeOK, IdsInv, StateInv, State, Node, Registry, Command, ProcOf, CidOf, LateOf,
        StartOf, ValOf, RemoveOf, CleanOf, GiveUp, Cmd, Building, HalfStarted, MarkOf,
        WithNode, RegistryOwned, MarkerMatches
  <2>5. ProcOf(p)'
    BY <1>2, <1>3, <1>4, <2>1
    DEF TypeOK, IdsInv, State, Node, Registry, Command, ProcOf, CidOf, LateOf, StartOf, ValOf,
        RemoveOf, CleanOf, GiveUp, Cmd, Building, HalfStarted, MarkOf, WithNode, RegistryOwned,
        MarkerMatches
  <2>6. DebrisInv'
    BY <1>2, <1>3, <1>4, <2>1, <2>3
    DEF TypeOK, State, Node, Registry, Command, ProcOf, CidOf, LateOf, StartOf, ValOf,
        RemoveOf, CleanOf, DebrisInv, Startable, RegistryOwned, MarkerMatches, GiveUp, Cmd,
        Critical, StartLabels, InspectLabels, StopLabels, EnvLabels, Building, HalfStarted,
        MarkOf, WithNode
  <2> QED BY <1>1, <2>1, <2>2, <2>3, <2>4, <2>5, <2>6, WorkStep
<1>5. CASE /\ Fault \/ UNCHANGED faults
           /\ Goto(p, "c_node")
           /\ node' = node \/ (node # None /\ node' = [node EXCEPT !.api = cid[p]])
  <2>1. /\ LockInv' /\ CallInv'
        /\ lock' \in Proc \cup {None} /\ pc' \in [Proc -> Label]
        /\ pc'[p] = "c_node" /\ \A q \in Proc \ {p} : pc'[q] = pc[q]
    BY <1>1, <1>5, GotoProc DEF Critical, StartLabels, StopLabels, EnvLabels
  <2>2. \A q \in Proc \ {p} : cid'[q] = cid[q]
    BY <1>5 DEF TypeOK
  <2>3. TypeOK'
    BY <1>5, <1>3, <2>1, FaultType, GiveUpType
    DEF TypeOK, Result, Cmd, Node, MaybeId, StartOf, ProcOf, MarkOf, WithNode, Building,
        HalfStarted
  <2>4. IdsInv' /\ StateInv'
    BY <1>2, <1>3, <1>5, <2>1
    DEF TypeOK, IdsInv, StateInv, State, Node, Registry, Command, ProcOf, CidOf, LateOf,
        StartOf, ValOf, RemoveOf, CleanOf, GiveUp, Cmd, Building, HalfStarted, MarkOf,
        WithNode, RegistryOwned, MarkerMatches
  <2>5. ProcOf(p)'
    BY <1>2, <1>3, <1>5, <2>1
    DEF TypeOK, IdsInv, State, Node, Registry, Command, ProcOf, CidOf, LateOf, StartOf, ValOf,
        RemoveOf, CleanOf, GiveUp, Cmd, Building, HalfStarted, MarkOf, WithNode, RegistryOwned,
        MarkerMatches
  <2>6. DebrisInv'
    BY <1>2, <1>3, <1>5, <2>1, <2>3
    DEF TypeOK, State, Node, Registry, Command, ProcOf, CidOf, LateOf, StartOf, ValOf,
        RemoveOf, CleanOf, DebrisInv, Startable, RegistryOwned, MarkerMatches, GiveUp, Cmd,
        Critical, StartLabels, InspectLabels, StopLabels, EnvLabels, Building, HalfStarted,
        MarkOf, WithNode
  <2> QED BY <1>1, <2>1, <2>2, <2>3, <2>4, <2>5, <2>6, WorkStep
<1> QED BY <1>4, <1>5

\* Start writes the state file: the invariant is kept.
LEMMA StartWriteStep ==
  ASSUME NEW p \in Proc, SafeInv, StartWrite(p)
  PROVE  SafeInv'
<1> USE NoneAssumption DEF StartWrite, SafeInv, world, locals
<1>1. pc[p] \in Critical
  BY DEF Critical, StartLabels, InspectLabels, StopLabels, EnvLabels, Building, HalfStarted
<1>2. lock = p /\ \A q \in Proc \ {p} : pc[q] \notin Critical /\ cid[q] = None BY <1>1, Alone
<1>3. ProcOf(p) BY DEF ProcInv
<1>4. CASE /\ stateFile' = [id |-> cid[p], rel |-> call[p].rel, namespaces |-> {}, running |-> {}]
           /\ Return(p, "ok") /\ UNCHANGED faults
  <2>1. /\ LockInv' /\ CallInv'
        /\ pc'[p] = "idle" /\ cid'[p] = None /\ \A q \in Proc \ {p} : pc'[q] = pc[q]
    BY <1>4, ReturnProc DEF Result
  <2>2. \A q \in Proc \ {p} : cid'[q] = cid[q]
    BY <1>4, ReturnProc DEF Result
  <2>3. TypeOK'
    BY <1>4, <1>3, <2>1, FaultType, GiveUpType, ReturnTypes
    DEF TypeOK, Result, Cmd, State, MaybeId, CidOf, ProcOf, CallInv, Building, HalfStarted
  <2>4. IdsInv' /\ StateInv'
    BY <1>2, <1>3, <1>4, <2>1
    DEF TypeOK, IdsInv, StateInv, State, Node, Registry, Command, ProcOf, CidOf, LateOf,
        StartOf, ValOf, RemoveOf, CleanOf, GiveUp, Cmd, Building, HalfStarted, MarkOf,
        WithNode, RegistryOwned, MarkerMatches
  <2>5. ProcOf(p)'
    BY <2>1, <2>3, <2>4, IdleProc
    DEF Critical, StartLabels, InspectLabels, StopLabels, EnvLabels, Building, HalfStarted
  <2>6. DebrisInv'
    BY <1>2, <1>3, <1>4, <2>1, <2>3
    DEF TypeOK, State, Node, Registry, Command, ProcOf, CidOf, LateOf, StartOf, ValOf,
        RemoveOf, CleanOf, DebrisInv, Startable, RegistryOwned, MarkerMatches, GiveUp, Cmd,
        Critical, StartLabels, InspectLabels, StopLabels, EnvLabels, Building, HalfStarted,
        CallInv, MarkOf, WithNode
  <2> QED BY <1>1, <2>1, <2>2, <2>3, <2>4, <2>5, <2>6, WorkStep
<1>5. CASE Fault /\ Goto(p, "c_node") /\ UNCHANGED <<stateFile, locals, res>>
  <2>1. /\ LockInv' /\ CallInv'
        /\ lock' \in Proc \cup {None} /\ pc' \in [Proc -> Label]
        /\ pc'[p] = "c_node" /\ \A q \in Proc \ {p} : pc'[q] = pc[q]
    BY <1>1, <1>5, GotoProc DEF Critical, StartLabels, StopLabels, EnvLabels
  <2>2. \A q \in Proc \ {p} : cid'[q] = cid[q]
    BY <1>5 DEF TypeOK
  <2>3. TypeOK'
    BY <1>5, <1>3, <2>1, FaultType, GiveUpType DEF TypeOK, Result, Cmd
  <2>4. IdsInv' /\ StateInv'
    BY <1>2, <1>3, <1>5, <2>1
    DEF TypeOK, IdsInv, StateInv, State, Node, Registry, Command, ProcOf, CidOf, LateOf,
        StartOf, ValOf, RemoveOf, CleanOf, GiveUp, Cmd, Building, HalfStarted, MarkOf,
        WithNode, RegistryOwned, MarkerMatches
  <2>5. ProcOf(p)'
    BY <1>2, <1>3, <1>5, <2>1
    DEF TypeOK, IdsInv, State, Node, Registry, Command, ProcOf, CidOf, LateOf, StartOf, ValOf,
        RemoveOf, CleanOf, GiveUp, Cmd, Building, HalfStarted, MarkOf, WithNode, RegistryOwned,
        MarkerMatches
  <2>6. DebrisInv'
    BY <1>2, <1>3, <1>5, <2>1, <2>3
    DEF TypeOK, State, Node, Registry, Command, ProcOf, CidOf, LateOf, StartOf, ValOf,
        RemoveOf, CleanOf, DebrisInv, Startable, RegistryOwned, MarkerMatches, GiveUp, Cmd,
        Critical, StartLabels, InspectLabels, StopLabels, EnvLabels, Building, HalfStarted,
        MarkOf, WithNode
  <2> QED BY <1>1, <2>1, <2>2, <2>3, <2>4, <2>5, <2>6, WorkStep
<1> QED BY <1>4, <1>5

\* A failed Start deletes its node: the invariant is kept.
LEMMA CleanupNodeStep ==
  ASSUME NEW p \in Proc, SafeInv, CleanupNode(p)
  PROVE  SafeInv'
<1> USE NoneAssumption DEF CleanupNode, SafeInv, world, locals
<1>1. pc[p] \in Critical
  BY DEF Critical, StartLabels, InspectLabels, StopLabels, EnvLabels, Building, HalfStarted
<1>2. lock = p /\ \A q \in Proc \ {p} : pc[q] \notin Critical /\ cid[q] = None BY <1>1, Alone
<1>3. ProcOf(p) BY DEF ProcInv
<1>4. CASE /\ Goto(p, "c_reg") /\ node' = None /\ UNCHANGED <<late, faults, unclean>>
  <2>1. /\ LockInv' /\ CallInv'
        /\ lock' \in Proc \cup {None} /\ pc' \in [Proc -> Label]
        /\ pc'[p] = "c_reg" /\ \A q \in Proc \ {p} : pc'[q] = pc[q]
    BY <1>1, <1>4, GotoProc DEF Critical, StartLabels, StopLabels, EnvLabels
  <2>2. \A q \in Proc \ {p} : cid'[q] = cid[q]
    BY <1>4 DEF TypeOK
  <2>3. TypeOK'
    BY <1>4, <1>3, <2>1, FaultType, GiveUpType DEF TypeOK, Result, Cmd
  <2>4. IdsInv' /\ StateInv'
    BY <1>2, <1>3, <1>4, <2>1
    DEF TypeOK, IdsInv, StateInv, State, Node, Registry, Command, ProcOf, CidOf, LateOf,
        StartOf, ValOf, RemoveOf, CleanOf, GiveUp, Cmd, Building, HalfStarted, MarkOf,
        WithNode, RegistryOwned, MarkerMatches
  <2>5. ProcOf(p)'
    BY <1>2, <1>3, <1>4, <2>1
    DEF TypeOK, IdsInv, State, Node, Registry, Command, ProcOf, CidOf, LateOf, StartOf, ValOf,
        RemoveOf, CleanOf, GiveUp, Cmd, Building, HalfStarted, MarkOf, WithNode, RegistryOwned,
        MarkerMatches
  <2>6. DebrisInv'
    BY <1>2, <1>3, <1>4, <2>1, <2>3
    DEF TypeOK, State, Node, Registry, Command, ProcOf, CidOf, LateOf, StartOf, ValOf,
        RemoveOf, CleanOf, DebrisInv, Startable, RegistryOwned, MarkerMatches, GiveUp, Cmd,
        Critical, StartLabels, InspectLabels, StopLabels, EnvLabels, Building, HalfStarted,
        MarkOf, WithNode
  <2> QED BY <1>1, <2>1, <2>2, <2>3, <2>4, <2>5, <2>6, WorkStep
<1>5. CASE /\ Goto(p, "c_reg") /\ GiveUp(Cmd("kindDelete", cid[p], None))
           /\ unclean' = unclean \cup {"start"} /\ UNCHANGED node
  <2>0. /\ unclean' \subseteq Debris \cup Vanished /\ ~Tidy(unclean')
        /\ "node" \in unclean' <=> "node" \in unclean
        /\ "registry" \in unclean' <=> "registry" \in unclean
    BY <1>5 DEF TypeOK, Tidy, Debris, Vanished
  <2>1. /\ LockInv' /\ CallInv'
        /\ lock' \in Proc \cup {None} /\ pc' \in [Proc -> Label]
        /\ pc'[p] = "c_reg" /\ \A q \in Proc \ {p} : pc'[q] = pc[q]
    BY <1>1, <1>5, GotoProc DEF Critical, StartLabels, StopLabels, EnvLabels
  <2>2. \A q \in Proc \ {p} : cid'[q] = cid[q]
    BY <1>5 DEF TypeOK
  <2>3. TypeOK'
    BY <2>0, <1>5, <1>3, <2>1, FaultType, GiveUpType DEF TypeOK, Result, Cmd, Command, MaybeId
  <2>4. IdsInv' /\ StateInv'
    BY <2>0, <1>2, <1>3, <1>5, <2>1
    DEF TypeOK, IdsInv, StateInv, State, Node, Registry, Command, ProcOf, CidOf, LateOf,
        StartOf, ValOf, RemoveOf, CleanOf, GiveUp, Cmd, Building, HalfStarted, MarkOf,
        WithNode, RegistryOwned, MarkerMatches
  <2>5. ProcOf(p)'
    BY <2>0, <1>2, <1>3, <1>5, <2>1
    DEF TypeOK, IdsInv, State, Node, Registry, Command, ProcOf, CidOf, LateOf, StartOf, ValOf,
        RemoveOf, CleanOf, GiveUp, Cmd, Building, HalfStarted, MarkOf, WithNode, RegistryOwned,
        MarkerMatches
  <2>6. DebrisInv'
    BY <2>0, <1>2, <1>3, <1>5, <2>1, <2>3
    DEF TypeOK, State, Node, Registry, Command, ProcOf, CidOf, LateOf, StartOf, ValOf,
        RemoveOf, CleanOf, DebrisInv, Startable, RegistryOwned, MarkerMatches, GiveUp, Cmd,
        Critical, StartLabels, InspectLabels, StopLabels, EnvLabels, Building, HalfStarted,
        MarkOf, WithNode
  <2> QED BY <1>1, <2>1, <2>2, <2>3, <2>4, <2>5, <2>6, WorkStep
<1> QED BY <1>4, <1>5

\* A failed Start removes its registry: the invariant is kept.
LEMMA CleanupRegistryStep ==
  ASSUME NEW p \in Proc, SafeInv, CleanupRegistry(p)
  PROVE  SafeInv'
<1> USE NoneAssumption DEF CleanupRegistry, SafeInv, world, locals
<1>1. pc[p] \in Critical
  BY DEF Critical, StartLabels, InspectLabels, StopLabels, EnvLabels, Building, HalfStarted
<1>2. lock = p /\ \A q \in Proc \ {p} : pc[q] \notin Critical /\ cid[q] = None BY <1>1, Alone
<1>3. ProcOf(p) BY DEF ProcInv
<1>4. CASE /\ registry' = None /\ UNCHANGED <<late, faults, unclean>>
           /\ \E r \in {"prereq", "error"} : Return(p, r)
  <2>1. /\ LockInv' /\ CallInv'
        /\ pc'[p] = "idle" /\ cid'[p] = None /\ \A q \in Proc \ {p} : pc'[q] = pc[q]
    BY <1>4, ReturnProc DEF Result
  <2>2. \A q \in Proc \ {p} : cid'[q] = cid[q]
    BY <1>4, ReturnProc DEF Result
  <2>3. TypeOK'
    BY <1>4, <1>3, <2>1, FaultType, GiveUpType, ReturnTypes DEF TypeOK, Result, Cmd
  <2>4. IdsInv' /\ StateInv'
    BY <1>2, <1>3, <1>4, <2>1
    DEF TypeOK, IdsInv, StateInv, State, Node, Registry, Command, ProcOf, CidOf, LateOf,
        StartOf, ValOf, RemoveOf, CleanOf, GiveUp, Cmd, Building, HalfStarted, MarkOf,
        WithNode, RegistryOwned, MarkerMatches
  <2>5. ProcOf(p)'
    BY <2>1, <2>3, <2>4, IdleProc
    DEF Critical, StartLabels, InspectLabels, StopLabels, EnvLabels, Building, HalfStarted
  <2>6. DebrisInv'
    BY <1>2, <1>3, <1>4, <2>1, <2>3
    DEF TypeOK, State, Node, Registry, Command, ProcOf, CidOf, LateOf, StartOf, ValOf,
        RemoveOf, CleanOf, DebrisInv, Startable, RegistryOwned, MarkerMatches, GiveUp, Cmd,
        Critical, StartLabels, InspectLabels, StopLabels, EnvLabels, Building, HalfStarted,
        MarkOf, WithNode
  <2> QED BY <1>1, <2>1, <2>2, <2>3, <2>4, <2>5, <2>6, WorkStep
<1>5. CASE /\ GiveUp(Cmd("dockerRm", cid[p], None)) /\ UNCHANGED registry
           /\ unclean' = unclean \cup {"start"}
           /\ \E r \in {"prereq", "error"} : Return(p, r)
  <2>0. /\ unclean' \subseteq Debris \cup Vanished /\ ~Tidy(unclean')
        /\ "node" \in unclean' <=> "node" \in unclean
        /\ "registry" \in unclean' <=> "registry" \in unclean
    BY <1>5 DEF TypeOK, Tidy, Debris, Vanished
  <2>1. /\ LockInv' /\ CallInv'
        /\ pc'[p] = "idle" /\ cid'[p] = None /\ \A q \in Proc \ {p} : pc'[q] = pc[q]
    BY <1>5, ReturnProc DEF Result
  <2>2. \A q \in Proc \ {p} : cid'[q] = cid[q]
    BY <1>5, ReturnProc DEF Result
  <2>3. TypeOK'
    BY <2>0, <1>5, <1>3, <2>1, FaultType, GiveUpType, ReturnTypes
    DEF TypeOK, Result, Cmd, Command, MaybeId
  <2>4. IdsInv' /\ StateInv'
    BY <2>0, <1>2, <1>3, <1>5, <2>1
    DEF TypeOK, IdsInv, StateInv, State, Node, Registry, Command, ProcOf, CidOf, LateOf,
        StartOf, ValOf, RemoveOf, CleanOf, GiveUp, Cmd, Building, HalfStarted, MarkOf,
        WithNode, RegistryOwned, MarkerMatches
  <2>5. ProcOf(p)'
    BY <2>0, <2>1, <2>3, <2>4, IdleProc
    DEF Critical, StartLabels, InspectLabels, StopLabels, EnvLabels, Building, HalfStarted
  <2>6. DebrisInv'
    BY <2>0, <1>2, <1>3, <1>5, <2>1, <2>3
    DEF TypeOK, State, Node, Registry, Command, ProcOf, CidOf, LateOf, StartOf, ValOf,
        RemoveOf, CleanOf, DebrisInv, Startable, RegistryOwned, MarkerMatches, GiveUp, Cmd,
        Critical, StartLabels, InspectLabels, StopLabels, EnvLabels, Building, HalfStarted,
        MarkOf, WithNode
  <2> QED BY <1>1, <2>1, <2>2, <2>3, <2>4, <2>5, <2>6, WorkStep
<1> QED BY <1>4, <1>5

\* Stop deletes the cluster with kind: the invariant is kept.
LEMMA StopDeleteNodeStep ==
  ASSUME NEW p \in Proc, SafeInv, StopDeleteNode(p)
  PROVE  SafeInv'
<1> USE NoneAssumption DEF StopDeleteNode, SafeInv, world, locals
<1>1. pc[p] \in Critical
  BY DEF Critical, StartLabels, InspectLabels, StopLabels, EnvLabels, Building, HalfStarted
<1>2. lock = p /\ \A q \in Proc \ {p} : pc[q] \notin Critical /\ cid[q] = None BY <1>1, Alone
<1>3. ProcOf(p) BY DEF ProcInv
<1>4. CASE /\ node' = None /\ plan[p].registry /\ Goto(p, "t_owner")
           /\ UNCHANGED <<late, locals, res, faults>>
  <2>1. /\ LockInv' /\ CallInv'
        /\ lock' \in Proc \cup {None} /\ pc' \in [Proc -> Label]
        /\ pc'[p] = "t_owner" /\ \A q \in Proc \ {p} : pc'[q] = pc[q]
    BY <1>1, <1>4, GotoProc DEF Critical, StartLabels, StopLabels, EnvLabels
  <2>2. \A q \in Proc \ {p} : cid'[q] = cid[q]
    BY <1>4 DEF TypeOK
  <2>3. TypeOK'
    BY <1>4, <1>3, <2>1, FaultType, GiveUpType DEF TypeOK, Result, Cmd
  <2>4. IdsInv' /\ StateInv'
    BY <1>2, <1>3, <1>4, <2>1
    DEF TypeOK, IdsInv, StateInv, State, Node, Registry, Command, ProcOf, CidOf, LateOf,
        StartOf, ValOf, RemoveOf, CleanOf, GiveUp, Cmd, Building, HalfStarted, MarkOf,
        WithNode, RegistryOwned, MarkerMatches
  <2>5. ProcOf(p)'
    BY <1>2, <1>3, <1>4, <2>1
    DEF TypeOK, IdsInv, State, Node, Registry, Command, ProcOf, CidOf, LateOf, StartOf, ValOf,
        RemoveOf, CleanOf, GiveUp, Cmd, Building, HalfStarted, MarkOf, WithNode, RegistryOwned,
        MarkerMatches
  <2>6. DebrisInv'
    BY <1>2, <1>3, <1>4, <2>1, <2>3
    DEF TypeOK, State, Node, Registry, Command, ProcOf, CidOf, LateOf, StartOf, ValOf,
        RemoveOf, CleanOf, DebrisInv, Startable, RegistryOwned, MarkerMatches, GiveUp, Cmd,
        Critical, StartLabels, InspectLabels, StopLabels, EnvLabels, Building, HalfStarted,
        MarkOf, WithNode
  <2> QED BY <1>1, <2>1, <2>2, <2>3, <2>4, <2>5, <2>6, WorkStep
<1>5. CASE /\ node' = None /\ ~plan[p].registry /\ Goto(p, "t_rmstate")
           /\ UNCHANGED <<late, locals, res, faults>>
  <2>1. /\ LockInv' /\ CallInv'
        /\ lock' \in Proc \cup {None} /\ pc' \in [Proc -> Label]
        /\ pc'[p] = "t_rmstate" /\ \A q \in Proc \ {p} : pc'[q] = pc[q]
    BY <1>1, <1>5, GotoProc DEF Critical, StartLabels, StopLabels, EnvLabels
  <2>2. \A q \in Proc \ {p} : cid'[q] = cid[q]
    BY <1>5 DEF TypeOK
  <2>3. TypeOK'
    BY <1>5, <1>3, <2>1, FaultType, GiveUpType DEF TypeOK, Result, Cmd
  <2>4. IdsInv' /\ StateInv'
    BY <1>2, <1>3, <1>5, <2>1
    DEF TypeOK, IdsInv, StateInv, State, Node, Registry, Command, ProcOf, CidOf, LateOf,
        StartOf, ValOf, RemoveOf, CleanOf, GiveUp, Cmd, Building, HalfStarted, MarkOf,
        WithNode, RegistryOwned, MarkerMatches
  <2>5. ProcOf(p)'
    BY <1>2, <1>3, <1>5, <2>1
    DEF TypeOK, IdsInv, State, Node, Registry, Command, ProcOf, CidOf, LateOf, StartOf, ValOf,
        RemoveOf, CleanOf, GiveUp, Cmd, Building, HalfStarted, MarkOf, WithNode, RegistryOwned,
        MarkerMatches
  <2>6. DebrisInv'
    BY <1>2, <1>3, <1>5, <2>1, <2>3
    DEF TypeOK, State, Node, Registry, Command, ProcOf, CidOf, LateOf, StartOf, ValOf,
        RemoveOf, CleanOf, DebrisInv, Startable, RegistryOwned, MarkerMatches, GiveUp, Cmd,
        Critical, StartLabels, InspectLabels, StopLabels, EnvLabels, Building, HalfStarted,
        MarkOf, WithNode
  <2> QED BY <1>1, <2>1, <2>2, <2>3, <2>4, <2>5, <2>6, WorkStep
<1>6. CASE /\ GiveUp(Cmd("kindDelete", val[p].id, None)) /\ Return(p, "error")
           /\ UNCHANGED node
  <2>1. /\ LockInv' /\ CallInv'
        /\ pc'[p] = "idle" /\ cid'[p] = None /\ \A q \in Proc \ {p} : pc'[q] = pc[q]
    BY <1>6, ReturnProc DEF Result
  <2>2. \A q \in Proc \ {p} : cid'[q] = cid[q]
    BY <1>6, ReturnProc DEF Result
  <2>3. TypeOK'
    BY <1>6, <1>3, <2>1, FaultType, GiveUpType, ReturnTypes
    DEF TypeOK, Result, Cmd, Command, State, MaybeId, ValOf, ProcOf
  <2>4. IdsInv' /\ StateInv'
    BY <1>2, <1>3, <1>6, <2>1
    DEF TypeOK, IdsInv, StateInv, State, Node, Registry, Command, ProcOf, CidOf, LateOf,
        StartOf, ValOf, RemoveOf, CleanOf, GiveUp, Cmd, Building, HalfStarted, MarkOf,
        WithNode, RegistryOwned, MarkerMatches
  <2>5. ProcOf(p)'
    BY <2>1, <2>3, <2>4, IdleProc
    DEF Critical, StartLabels, InspectLabels, StopLabels, EnvLabels, Building, HalfStarted
  <2>6. DebrisInv'
    BY <1>2, <1>3, <1>6, <2>1, <2>3
    DEF TypeOK, State, Node, Registry, Command, ProcOf, CidOf, LateOf, StartOf, ValOf,
        RemoveOf, CleanOf, DebrisInv, Startable, RegistryOwned, MarkerMatches, GiveUp, Cmd,
        Critical, StartLabels, InspectLabels, StopLabels, EnvLabels, Building, HalfStarted,
        MarkOf, WithNode
  <2> QED BY <1>1, <2>1, <2>2, <2>3, <2>4, <2>5, <2>6, WorkStep
<1> QED BY <1>4, <1>5, <1>6

\* Stop removes the registry: the invariant is kept.
LEMMA StopRemoveRegistryStep ==
  ASSUME NEW p \in Proc, SafeInv, StopRemoveRegistry(p)
  PROVE  SafeInv'
<1> USE NoneAssumption DEF StopRemoveRegistry, SafeInv, world, locals
<1>1. pc[p] \in Critical
  BY DEF Critical, StartLabels, InspectLabels, StopLabels, EnvLabels, Building, HalfStarted
<1>2. lock = p /\ \A q \in Proc \ {p} : pc[q] \notin Critical /\ cid[q] = None BY <1>1, Alone
<1>3. ProcOf(p) BY DEF ProcInv
<1>4. CASE /\ registry' = None /\ Goto(p, "t_rmstate")
           /\ UNCHANGED <<late, locals, res, faults>>
  <2>1. /\ LockInv' /\ CallInv'
        /\ lock' \in Proc \cup {None} /\ pc' \in [Proc -> Label]
        /\ pc'[p] = "t_rmstate" /\ \A q \in Proc \ {p} : pc'[q] = pc[q]
    BY <1>1, <1>4, GotoProc DEF Critical, StartLabels, StopLabels, EnvLabels
  <2>2. \A q \in Proc \ {p} : cid'[q] = cid[q]
    BY <1>4 DEF TypeOK
  <2>3. TypeOK'
    BY <1>4, <1>3, <2>1, FaultType, GiveUpType DEF TypeOK, Result, Cmd
  <2>4. IdsInv' /\ StateInv'
    BY <1>2, <1>3, <1>4, <2>1
    DEF TypeOK, IdsInv, StateInv, State, Node, Registry, Command, ProcOf, CidOf, LateOf,
        StartOf, ValOf, RemoveOf, CleanOf, GiveUp, Cmd, Building, HalfStarted, MarkOf,
        WithNode, RegistryOwned, MarkerMatches
  <2>5. ProcOf(p)'
    BY <1>2, <1>3, <1>4, <2>1
    DEF TypeOK, IdsInv, State, Node, Registry, Command, ProcOf, CidOf, LateOf, StartOf, ValOf,
        RemoveOf, CleanOf, GiveUp, Cmd, Building, HalfStarted, MarkOf, WithNode, RegistryOwned,
        MarkerMatches
  <2>6. DebrisInv'
    BY <1>2, <1>3, <1>4, <2>1, <2>3
    DEF TypeOK, State, Node, Registry, Command, ProcOf, CidOf, LateOf, StartOf, ValOf,
        RemoveOf, CleanOf, DebrisInv, Startable, RegistryOwned, MarkerMatches, GiveUp, Cmd,
        Critical, StartLabels, InspectLabels, StopLabels, EnvLabels, Building, HalfStarted,
        MarkOf, WithNode
  <2> QED BY <1>1, <2>1, <2>2, <2>3, <2>4, <2>5, <2>6, WorkStep
<1>5. CASE /\ GiveUp(Cmd("dockerRm", val[p].id, None)) /\ Return(p, "error")
           /\ UNCHANGED registry
  <2>1. /\ LockInv' /\ CallInv'
        /\ pc'[p] = "idle" /\ cid'[p] = None /\ \A q \in Proc \ {p} : pc'[q] = pc[q]
    BY <1>5, ReturnProc DEF Result
  <2>2. \A q \in Proc \ {p} : cid'[q] = cid[q]
    BY <1>5, ReturnProc DEF Result
  <2>3. TypeOK'
    BY <1>5, <1>3, <2>1, FaultType, GiveUpType, ReturnTypes
    DEF TypeOK, Result, Cmd, Command, State, MaybeId, ValOf, ProcOf
  <2>4. IdsInv' /\ StateInv'
    BY <1>2, <1>3, <1>5, <2>1
    DEF TypeOK, IdsInv, StateInv, State, Node, Registry, Command, ProcOf, CidOf, LateOf,
        StartOf, ValOf, RemoveOf, CleanOf, GiveUp, Cmd, Building, HalfStarted, MarkOf,
        WithNode, RegistryOwned, MarkerMatches
  <2>5. ProcOf(p)'
    BY <2>1, <2>3, <2>4, IdleProc
    DEF Critical, StartLabels, InspectLabels, StopLabels, EnvLabels, Building, HalfStarted
  <2>6. DebrisInv'
    BY <1>2, <1>3, <1>5, <2>1, <2>3
    DEF TypeOK, State, Node, Registry, Command, ProcOf, CidOf, LateOf, StartOf, ValOf,
        RemoveOf, CleanOf, DebrisInv, Startable, RegistryOwned, MarkerMatches, GiveUp, Cmd,
        Critical, StartLabels, InspectLabels, StopLabels, EnvLabels, Building, HalfStarted,
        MarkOf, WithNode
  <2> QED BY <1>1, <2>1, <2>2, <2>3, <2>4, <2>5, <2>6, WorkStep
<1> QED BY <1>4, <1>5

\* Stop removes the state file: the invariant is kept.
LEMMA StopRemoveStateStep ==
  ASSUME NEW p \in Proc, SafeInv, StopRemoveState(p)
  PROVE  SafeInv'
<1> USE NoneAssumption DEF StopRemoveState, SafeInv, world, locals
<1>1. pc[p] \in Critical
  BY DEF Critical, StartLabels, InspectLabels, StopLabels, EnvLabels, Building, HalfStarted
<1>2. lock = p /\ \A q \in Proc \ {p} : pc[q] \notin Critical /\ cid[q] = None BY <1>1, Alone
<1>3. ProcOf(p) BY DEF ProcInv
<1>4. CASE stateFile' = None /\ Return(p, "ok") /\ UNCHANGED faults
  <2>1. /\ LockInv' /\ CallInv'
        /\ pc'[p] = "idle" /\ cid'[p] = None /\ \A q \in Proc \ {p} : pc'[q] = pc[q]
    BY <1>4, ReturnProc DEF Result
  <2>2. \A q \in Proc \ {p} : cid'[q] = cid[q]
    BY <1>4, ReturnProc DEF Result
  <2>3. TypeOK'
    BY <1>4, <1>3, <2>1, FaultType, GiveUpType, ReturnTypes DEF TypeOK, Result, Cmd
  <2>4. IdsInv' /\ StateInv'
    BY <1>2, <1>3, <1>4, <2>1
    DEF TypeOK, IdsInv, StateInv, State, Node, Registry, Command, ProcOf, CidOf, LateOf,
        StartOf, ValOf, RemoveOf, CleanOf, GiveUp, Cmd, Building, HalfStarted, MarkOf,
        WithNode, RegistryOwned, MarkerMatches
  <2>5. ProcOf(p)'
    BY <2>1, <2>3, <2>4, IdleProc
    DEF Critical, StartLabels, InspectLabels, StopLabels, EnvLabels, Building, HalfStarted
  <2>6. DebrisInv'
    BY <1>2, <1>3, <1>4, <2>1, <2>3
    DEF TypeOK, State, Node, Registry, Command, ProcOf, CidOf, LateOf, StartOf, ValOf,
        RemoveOf, CleanOf, DebrisInv, Startable, RegistryOwned, MarkerMatches, GiveUp, Cmd,
        Critical, StartLabels, InspectLabels, StopLabels, EnvLabels, Building, HalfStarted,
        MarkOf, WithNode
  <2> QED BY <1>1, <2>1, <2>2, <2>3, <2>4, <2>5, <2>6, WorkStep
<1>5. CASE Fault /\ Return(p, "error") /\ UNCHANGED stateFile
  BY <1>1, <1>5, ReturnStep, FaultType DEF TypeOK, Result, HalfStarted
<1> QED BY <1>4, <1>5

\* The lease records an environment in the state file: the invariant is kept.
LEMMA SetEnvironmentStateStep ==
  ASSUME NEW p \in Proc, NEW n \in Env, NEW known \in BOOLEAN, NEW running \in BOOLEAN,
         SafeInv, SetEnvironmentState(p, n, known, running)
  PROVE  SafeInv'
<1> USE NoneAssumption DEF SetEnvironmentState, SafeInv, world, locals
<1>1. pc[p] \in Critical
  BY DEF Critical, StartLabels, InspectLabels, StopLabels, EnvLabels, Building, HalfStarted
<1>2. lock = p /\ \A q \in Proc \ {p} : pc[q] \notin Critical /\ cid[q] = None BY <1>1, Alone
<1>3. ProcOf(p) BY DEF ProcInv
<1>4. CASE /\ stateFile # None /\ stateFile.id = val[p].id
           /\ stateFile' = [stateFile EXCEPT !.namespaces = SetMembership(@, n, known),
                                            !.running = SetMembership(@, n, known /\ running)]
           /\ val' = [val EXCEPT ![p] = stateFile']
           /\ Goto(p, "e_close") /\ UNCHANGED <<call, cid, plan, res, faults>>
  <2>0. stateFile' \in State /\ stateFile'.id = stateFile.id
        /\ stateFile'.rel = stateFile.rel
    BY <1>4 DEF TypeOK, State, SetMembership
  <2>1. /\ LockInv' /\ CallInv'
        /\ lock' \in Proc \cup {None} /\ pc' \in [Proc -> Label]
        /\ pc'[p] = "e_close" /\ \A q \in Proc \ {p} : pc'[q] = pc[q]
    BY <1>1, <1>4, GotoProc DEF Critical, StartLabels, StopLabels, EnvLabels
  <2>2. \A q \in Proc \ {p} : cid'[q] = cid[q]
    BY <1>4 DEF TypeOK
  <2>3. TypeOK'
    BY <1>4, <1>3, <2>1, FaultType, GiveUpType, <2>0 DEF TypeOK, Result, Cmd, State
  <2>4. IdsInv' /\ StateInv'
    BY <1>2, <1>3, <1>4, <2>1, <2>0
    DEF TypeOK, IdsInv, StateInv, State, Node, Registry, Command, ProcOf, CidOf, LateOf,
        StartOf, ValOf, RemoveOf, CleanOf, GiveUp, Cmd, Building, HalfStarted, MarkOf,
        WithNode, RegistryOwned, MarkerMatches
  <2>5. ProcOf(p)'
    BY <1>2, <1>3, <1>4, <2>1, <2>0
    DEF TypeOK, IdsInv, State, Node, Registry, Command, ProcOf, CidOf, LateOf, StartOf, ValOf,
        RemoveOf, CleanOf, GiveUp, Cmd, Building, HalfStarted, MarkOf, WithNode, RegistryOwned,
        MarkerMatches
  <2>6. DebrisInv'
    BY <1>2, <1>3, <1>4, <2>1, <2>0, <2>3
    DEF TypeOK, State, Node, Registry, Command, ProcOf, CidOf, LateOf, StartOf, ValOf,
        RemoveOf, CleanOf, DebrisInv, Startable, RegistryOwned, MarkerMatches, GiveUp, Cmd,
        Critical, StartLabels, InspectLabels, StopLabels, EnvLabels, Building, HalfStarted,
        MarkOf, WithNode
  <2> QED BY <1>1, <2>1, <2>2, <2>3, <2>4, <2>5, <2>6, WorkStep
<1>5. CASE /\ \E r \in {"prereq", "conflict", "error"} : Return(p, r)
           /\ Fault \/ UNCHANGED faults
           /\ UNCHANGED stateFile
  BY <1>1, <1>5, ReturnStep, FaultType DEF TypeOK, Result, HalfStarted
<1> QED BY <1>4, <1>5


-----------------------------------------------------------------------------
(* Crashes, late commands and people.                                      *)

\* A process dies and may leave a command running: the invariant is kept.
LEMMA CrashStep ==
  ASSUME NEW p \in Proc, SafeInv, Crash(p)
  PROVE  SafeInv'
<1> USE NoneAssumption DEF SafeInv, Crash
<1>1. /\ LockInv' /\ CallInv' /\ pc'[p] = "idle" /\ cid'[p] = None
      /\ \A q \in Proc \ {p} :
           /\ pc'[q] = pc[q] /\ cid'[q] = cid[q] /\ call'[q] = call[q]
           /\ val'[q] = val[q] /\ plan'[q] = plan[q]
  BY ReturnProc DEF Result
<1>f. /\ unclean' \subseteq Debris \cup Vanished
      /\ Tidy(unclean') => /\ Tidy(unclean) /\ pc[p] \notin HalfStarted
                           /\ pc[p] = "s_run" => late' = late
      /\ "node" \in unclean' <=> "node" \in unclean
      /\ "registry" \in unclean' <=> "registry" \in unclean
  BY StartFlag
<1>2. CASE Running(p) = {}
  <2>1. (pc[p] \notin HalfStarted /\ unclean' = unclean) \/ ~Tidy(unclean')
    BY <1>2, <1>f DEF HalfStarted, Flag
  <2>2. CASE pc[p] \notin HalfStarted /\ unclean' = unclean
    BY <1>2, <2>2, ReturnStep, FaultType DEF Result, world
  <2>3. TypeOK' BY <1>2, <1>f, ReturnTypes, FaultType DEF TypeOK, Result
  <2>4. CASE ~Tidy(unclean')
    <3>1. IdsInv' /\ StateInv' /\ DebrisInv'
      BY <1>2, <1>f, <2>4 DEF IdsInv, StateInv, DebrisInv, RegistryOwned, MarkerMatches
    <3>2. ProcOf(p)' BY <1>1, <2>3, <3>1, IdleProc
      DEF Critical, StartLabels, InspectLabels, StopLabels, EnvLabels
    <3>3. ASSUME NEW q \in Proc \ {p} PROVE ProcOf(q)'
      BY <1>1, <1>2, <1>f, <2>4 DEF ProcInv, ProcOf, CidOf, LateOf, StartOf, ValOf, RemoveOf,
          CleanOf, MarkOf, WithNode, RegistryOwned, MarkerMatches, Building, HalfStarted
    <3> QED BY <1>1, <2>3, <3>1, <3>2, <3>3 DEF ProcInv
  <2> QED BY <2>1, <2>2, <2>4
<1>3. CASE Running(p) # {}
  <2>1. pc[p] \in {"s_run", "s_create", "s_rmorphan", "t_delnode", "t_rmreg", "c_node", "c_reg"}
    BY <1>3 DEF Running
  <2>2. pc[p] \in Critical BY <2>1 DEF Critical, StartLabels, StopLabels
  <2>3. ProcOf(p) /\ \A q \in Proc \ {p} : pc[q] \notin Critical
    BY <2>2, Alone DEF ProcInv
  <2>4. PICK c \in Command :
          /\ Running(p) = {c} /\ c.id \in used
          /\ pc[p] = "s_run" => c.cmd = "dockerRun" /\ c.id = cid[p]
          /\ pc[p] = "s_create" => c.cmd = "kindCreate" /\ c.id = cid[p]
          /\ pc[p] \in {"s_rmorphan", "t_rmreg"} => c.cmd = "dockerRm" /\ c.id = stateFile.id
          /\ pc[p] = "t_delnode" => c.cmd = "kindDelete" /\ c.id = stateFile.id
          /\ pc[p] \in {"c_node", "c_reg"} => c.cmd \in {"kindDelete", "dockerRm"}
    <3> USE <2>3 DEF Running, Cmd, Command, TypeOK, MaybeId
    <3>1. CASE pc[p] \in {"s_run", "s_create", "c_node", "c_reg"}
      <4>1. cid[p] \in used /\ cid[p] \in Id BY <3>1 DEF ProcOf, CidOf, Building, HalfStarted
      <4>2. call[p].rel \in Release \cup {None} BY DEF Call
      <4>3. CASE pc[p] = "s_run"
        <5> WITNESS Cmd("dockerRun", cid[p], None) \in Command
        <5> QED BY <4>1, <4>3
      <4>4. CASE pc[p] = "s_create"
        <5> USE <4>2
        <5> WITNESS Cmd("kindCreate", cid[p], call[p].rel) \in Command
        <5> QED BY <4>1, <4>2, <4>4
      <4>5. CASE pc[p] = "c_node"
        <5> WITNESS Cmd("kindDelete", cid[p], None) \in Command
        <5> QED BY <4>1, <4>5
      <4>6. CASE pc[p] = "c_reg"
        <5> WITNESS Cmd("dockerRm", cid[p], None) \in Command
        <5> QED BY <4>1, <4>6
      <4> QED BY <3>1, <4>3, <4>4, <4>5, <4>6
    <3>2. CASE pc[p] \in {"s_rmorphan", "t_delnode", "t_rmreg"}
      <4>1. stateFile.id \in used /\ stateFile.id \in Id /\ (pc[p] # "s_rmorphan" => val[p] = stateFile)
        BY <3>2 DEF ProcOf, ValOf, IdsInv
      <4>2. CASE pc[p] = "t_delnode"
        <5> WITNESS Cmd("kindDelete", stateFile.id, None) \in Command
        <5> QED BY <4>1, <4>2
      <4>3. CASE pc[p] # "t_delnode"
        <5> WITNESS Cmd("dockerRm", stateFile.id, None) \in Command
        <5> QED BY <3>2, <4>1, <4>3
      <4> QED BY <4>2, <4>3
    <3> QED BY <2>1, <3>1, <3>2
  <2>5. TypeOK' BY <1>f, <2>4, ReturnTypes, FaultType DEF TypeOK, Result
  <2>6. IdsInv' BY <2>4 DEF IdsInv
  <2>7. StateInv' BY <1>f, <2>1, <2>3, <2>4 DEF StateInv, ProcOf, CidOf, Building, HalfStarted,
      RegistryOwned, MarkerMatches
  <2>8. ProcOf(p)' BY <1>1, <2>5, <2>6, IdleProc
    DEF Critical, StartLabels, InspectLabels, StopLabels, EnvLabels
  <2>9. DebrisInv'
    BY <1>1, <1>f, <2>1, <2>3, <2>4
    DEF DebrisInv, Startable, RegistryOwned, MarkerMatches, ProcOf, CleanOf, HalfStarted,
        Critical, StartLabels, MarkOf, Building
  <2> QED BY <1>1, <2>2, <2>5, <2>6, <2>7, <2>8, <2>9, WorkStep
<1> QED BY <1>2, <1>3

\* What late commands and people may do to the containers, and which flags it sets.
WorldChange ==
  /\ node' = node \/ node' = None \/ (node = None /\ node'.marker = None)
  /\ \/ registry' = registry \/ registry' = None
     \/ /\ registry = None
        /\ stateFile # None => registry'.label # stateFile.id
        /\ \A p \in Proc : pc[p] \in Building \ {"c_reg"} => registry'.label # cid[p]
  /\ late' \subseteq late
  /\ unclean' \subseteq Debris \cup Vanished
  /\ Tidy(unclean') => Tidy(unclean)
  /\ "node" \notin unclean' =>
       "node" \notin unclean /\ (lock # None /\ node # None => node' # None)
  /\ "registry" \notin unclean' =>
       "registry" \notin unclean /\ (lock # None /\ registry # None => registry' # None)

\* Such a change keeps what does not depend on tidy containers.
LEMMA WorldStep ==
  ASSUME SafeInv, TypeOK', WorldChange, UNCHANGED <<lock, stateFile, used, pc, locals>>
  PROVE  /\ StateInv'
         /\ \A p \in Proc : (CidOf(p) /\ LateOf(p) /\ StartOf(p) /\ MarkOf(p) /\ ValOf(p)
                              /\ RemoveOf(p))'
<1> USE NoneAssumption DEF locals
<1>1. TypeOK /\ LockInv /\ IdsInv /\ StateInv BY DEF SafeInv
<1>2. StateInv'
  BY <1>1 DEF WorldChange, StateInv, MarkerMatches, RegistryOwned, TypeOK, State
<1>3. ASSUME NEW p \in Proc
      PROVE  (CidOf(p) /\ LateOf(p) /\ StartOf(p) /\ MarkOf(p) /\ ValOf(p) /\ RemoveOf(p))'
  <2>1. ProcOf(p) BY DEF SafeInv, ProcInv
  <2>2. (CidOf(p) /\ LateOf(p) /\ ValOf(p))'
    BY <2>1 DEF WorldChange, ProcOf, CidOf, LateOf, ValOf
  <2>3. pc[p] \in Critical => lock # None BY <1>1 DEF LockInv
  <2>4. pc[p] \in Building => cid[p] \in Id BY <1>1, <2>1 DEF ProcOf, CidOf, TypeOK
  <2>5. /\ Building \subseteq Critical /\ WithNode \subseteq HalfStarted
        /\ HalfStarted \subseteq Building
    BY DEF WithNode, Building, HalfStarted, Critical, StartLabels
  <2>6. StartOf(p)'
    <3>1. pc[p] \in HalfStarted /\ "registry" \notin unclean' => RegistryOwned(cid[p])'
      BY <2>1, <2>3, <2>5 DEF WorldChange, ProcOf, StartOf, RegistryOwned
    <3>2. pc[p] \in WithNode /\ "node" \notin unclean' => node' = node /\ "node" \notin unclean
      BY <2>1, <2>3, <2>5 DEF WorldChange, ProcOf, StartOf
    <3>3. (pc[p] \in {"s_mark", "s_api", "s_write"} /\ RegistryOwned(cid[p])') => registry'.net
      BY <2>1 DEF WorldChange, ProcOf, StartOf, RegistryOwned, Building, HalfStarted
    <3>4. (pc[p] = "s_write" /\ MarkerMatches(cid[p])') => node'.api = cid[p]
      BY <2>1, <2>4 DEF WorldChange, ProcOf, StartOf, MarkerMatches, Building, HalfStarted
    <3> QED BY <2>1, <3>1, <3>2, <3>3, <3>4
      DEF ProcOf, StartOf, MarkerMatches, RegistryOwned, WithNode
  <2>7. MarkOf(p)' BY <2>1 DEF WorldChange, ProcOf, MarkOf
  <2>8. RemoveOf(p)'
    BY <2>1, <2>3
    DEF WorldChange, ProcOf, RemoveOf, Critical, StartLabels, StopLabels
  <2> QED BY <2>2, <2>6, <2>7, <2>8
<1> QED BY <1>2, <1>3

\* A command that was given up on takes effect after all, on whatever has the name:
\* the invariant is kept.
LEMMA LateEffectStep ==
  ASSUME NEW c \in late, SafeInv, LateEffect(c)
  PROVE  SafeInv'
<1> USE NoneAssumption
<1>0. TypeOK /\ IdsInv /\ StateInv /\ DebrisInv BY DEF SafeInv
<1>1. c \in Command /\ c.id \in Id /\ c.id \in used BY <1>0 DEF TypeOK, IdsInv
<1>2. /\ late' \subseteq late
      /\ UNCHANGED <<lock, stateFile, used, pc, call, cid, val, plan, res, faults>>
      /\ UNCHANGED locals
  BY DEF LateEffect, locals
<1>3. \/ node' = node \/ (node' = None /\ c.cmd = "kindDelete")
      \/ /\ node = None /\ node' \in Node /\ node'.marker = None /\ c.cmd = "kindCreate"
         /\ node'.gen \in used /\ node'.api = None
  BY <1>1 DEF LateEffect, Node, Command, MaybeId
<1>4. \/ registry' = registry \/ (registry' = None /\ c.cmd = "dockerRm")
      \/ /\ registry = None /\ registry' \in Registry /\ c.cmd = "dockerRun"
         /\ registry'.label = c.id
  BY <1>1 DEF LateEffect, Registry, MaybeId
<1>5. /\ unclean' \subseteq Debris \cup Vanished
      /\ Tidy(unclean') =>
           /\ Tidy(unclean)
           /\ c.cmd = "dockerRm" /\ registry # None => registry.label = c.id
      /\ "node" \notin unclean' =>
           "node" \notin unclean /\ (lock # None /\ node # None => node' # None)
      /\ "registry" \notin unclean' =>
           "registry" \notin unclean /\ (lock # None /\ registry # None => registry' # None)
  BY <1>0 DEF LateEffect, Vanishing, Flag, Tidy, Debris, Vanished, TypeOK
<1>6. TypeOK' BY <1>0, <1>2, <1>3, <1>4, <1>5 DEF TypeOK
<1>7. ASSUME NEW p \in Proc, pc[p] \in Building \ {"c_reg"} PROVE c.id # cid[p]
  BY <1>7 DEF SafeInv, ProcInv, ProcOf, LateOf
<1>8. c.cmd = "dockerRun" /\ stateFile # None => c.id # stateFile.id BY <1>0 DEF StateInv
<1>9. WorldChange BY <1>2, <1>3, <1>4, <1>5, <1>7, <1>8 DEF WorldChange
<1>10. /\ StateInv'
       /\ \A p \in Proc : (CidOf(p) /\ LateOf(p) /\ StartOf(p) /\ MarkOf(p) /\ ValOf(p)
                            /\ RemoveOf(p))'
  BY <1>2, <1>6, <1>9, WorldStep
<1>11. LockInv' /\ CallInv' BY <1>2 DEF SafeInv, LockInv, CallInv
<1>12. IdsInv' BY <1>0, <1>1, <1>2, <1>3, <1>4 DEF IdsInv
<1>13. Tidy(unclean') =>
         /\ c.cmd \in {"kindDelete", "dockerRm"}
         /\ node' = node \/ node' = None
         /\ registry' = registry \/ (registry' = None /\ (registry # None => registry.label = c.id))
  BY <1>0, <1>3, <1>4, <1>5 DEF DebrisInv
<1>14. ASSUME NEW p \in Proc PROVE CleanOf(p)'
  <2>1. CleanOf(p) /\ LateOf(p) /\ CidOf(p) BY DEF SafeInv, ProcInv, ProcOf
  <2>2. Tidy(unclean') /\ pc[p] \in HalfStarted => RegistryOwned(cid[p])'
    <3> SUFFICES ASSUME Tidy(unclean'), pc[p] \in HalfStarted PROVE registry' = registry
      BY <1>2, <1>5, <2>1 DEF CleanOf, RegistryOwned
    <3>1. RegistryOwned(cid[p]) BY <1>5, <2>1 DEF CleanOf
    <3>2. c.cmd = "dockerRm" => c.id # cid[p] BY <2>1 DEF LateOf
    <3> QED BY <1>4, <1>5, <3>1, <3>2, <1>13 DEF RegistryOwned
  <2> QED BY <1>2, <1>5, <1>13, <2>1, <2>2
    DEF CleanOf, RegistryOwned, MarkerMatches
<1>15. DebrisInv'
  <2> SUFFICES ASSUME Tidy(unclean') PROVE
         /\ (\A p \in Proc : pc[p] \notin HalfStarted) => Startable'
         /\ \A d \in late' :
              /\ d.cmd \in {"kindDelete", "dockerRm"}
              /\ d.cmd = "dockerRm" /\ stateFile # None /\ d.id = stateFile.id =>
                   node' = None \/ node'.marker # d.id
    BY <1>2 DEF DebrisInv
  <2>1. Tidy(unclean) /\ DebrisInv BY <1>0, <1>5
  <2>2. ASSUME \A p \in Proc : pc[p] \notin HalfStarted PROVE Startable'
    <3>1. Startable BY <2>1, <2>2 DEF DebrisInv
    <3>2. CASE node' = None
      BY <1>2, <1>13, <3>1, <3>2 DEF Startable, RegistryOwned, MarkerMatches
    <3>3. CASE node' # None
      <4>1. node' = node /\ node # None BY <1>13, <3>3
      <4>2. stateFile # None /\ MarkerMatches(stateFile.id) /\ RegistryOwned(stateFile.id)
        BY <3>1, <4>1 DEF Startable
      <4>3. ~(c.cmd = "dockerRm" /\ c.id = stateFile.id)
        BY <2>1, <4>1, <4>2 DEF DebrisInv, MarkerMatches
      <4>4. registry' = registry BY <1>4, <1>5, <1>13, <4>2, <4>3 DEF RegistryOwned
      <4> QED BY <1>2, <4>1, <4>2, <4>4 DEF Startable, MarkerMatches, RegistryOwned
    <3> QED BY <3>2, <3>3
  <2> QED BY <1>2, <1>13, <2>1, <2>2 DEF DebrisInv
<1> QED BY <1>6, <1>10, <1>11, <1>12, <1>14, <1>15 DEF SafeInv, ProcInv, ProcOf

\* People create and remove containers at any moment: the invariant is kept.
LEMMA PeopleStep ==
  ASSUME SafeInv, ForeignCreate \/ ManualDelete
  PROVE  SafeInv'
<1> USE NoneAssumption
<1>0. TypeOK /\ IdsInv BY DEF SafeInv
<1>1. /\ UNCHANGED <<lock, stateFile, late, used, pc, call, cid, val, plan, res>>
      /\ UNCHANGED locals /\ faults' \in Nat
  BY <1>0, FaultType DEF ForeignCreate, ManualDelete, locals
<1>2. \/ node' = node \/ node' = None
      \/ /\ node = None /\ node' \in Node
         /\ node'.gen = None /\ node'.marker = None /\ node'.api = None
  BY DEF ForeignCreate, ManualDelete, Node, MaybeId
<1>3. \/ registry' = registry \/ registry' = None
      \/ registry = None /\ registry' \in Registry /\ registry'.label = None
  <2>1. [label |-> None, net |-> FALSE] \in Registry BY DEF Registry, MaybeId
  <2>2. [label |-> None, net |-> FALSE].label = None OBVIOUS
  <2>3. CASE ForeignCreate
    <3>1. UNCHANGED registry \/ (registry = None /\ registry' = [label |-> None, net |-> FALSE])
      BY <2>3 DEF ForeignCreate
    <3> QED BY <2>1, <2>2, <3>1
  <2>4. CASE ManualDelete BY <2>4 DEF ManualDelete
  <2> QED BY <2>3, <2>4
<1>4. /\ unclean' \subseteq Debris \cup Vanished /\ ~Tidy(unclean')
      /\ "node" \notin unclean' =>
           "node" \notin unclean /\ (lock # None /\ node # None => node' # None)
      /\ "registry" \notin unclean' =>
           "registry" \notin unclean /\ (lock # None /\ registry # None => registry' # None)
  <2>1. CASE ForeignCreate BY <1>0, <2>1 DEF ForeignCreate, Tidy, Debris, Vanished, TypeOK
  <2>2. CASE ManualDelete
    BY <1>0, <2>2 DEF ManualDelete, Vanishing, Tidy, Debris, Vanished, TypeOK
  <2> QED BY <2>1, <2>2
<1>5. TypeOK' BY <1>0, <1>1, <1>2, <1>3, <1>4 DEF TypeOK
<1>6. ASSUME NEW p \in Proc, pc[p] \in Building PROVE cid[p] # None
  BY <1>0, <1>6 DEF SafeInv, ProcInv, ProcOf, CidOf, TypeOK
<1>7. stateFile # None => stateFile.id # None BY <1>0 DEF TypeOK, State
<1>8. WorldChange BY <1>1, <1>2, <1>3, <1>4, <1>6, <1>7 DEF WorldChange
<1>9. /\ StateInv'
      /\ \A p \in Proc : (CidOf(p) /\ LateOf(p) /\ StartOf(p) /\ MarkOf(p) /\ ValOf(p)
                           /\ RemoveOf(p))'
  BY <1>1, <1>5, <1>8, WorldStep
<1>10. LockInv' /\ CallInv' BY <1>1 DEF SafeInv, LockInv, CallInv
<1>11. IdsInv' BY <1>0, <1>1, <1>2, <1>3 DEF IdsInv
<1>12. DebrisInv' /\ \A p \in Proc : CleanOf(p)' BY <1>4 DEF DebrisInv, CleanOf
<1> QED BY <1>5, <1>9, <1>10, <1>11, <1>12 DEF SafeInv, ProcInv, ProcOf

-----------------------------------------------------------------------------
(* The invariant of the specification.                                     *)

\* The initial state satisfies the invariant.
LEMMA InitInv == Init => SafeInv
<1> SUFFICES ASSUME Init PROVE SafeInv OBVIOUS
<1> USE NoneAssumption DEF Init
<1>1. TypeOK
  BY DEF TypeOK, Label, Critical, Call, NoCall, Plan, NoPlan, Result, MaybeId
<1>2. LockInv BY DEF LockInv, Critical, StartLabels, InspectLabels, StopLabels, EnvLabels
<1>3. CallInv BY DEF CallInv, StartLabels, InspectLabels, NoCall
<1>4. IdsInv /\ StateInv BY DEF IdsInv, StateInv, RegistryOwned, MarkerMatches
<1>5. ProcInv
  BY
  DEF ProcInv, ProcOf, CidOf, LateOf, StartOf, ValOf, RemoveOf, CleanOf, Building, HalfStarted,
      MarkOf, WithNode, RegistryOwned, MarkerMatches
<1>6. DebrisInv BY DEF DebrisInv, Startable
<1> QED BY <1>1, <1>2, <1>3, <1>4, <1>5, <1>6 DEF SafeInv

\* Every step keeps the invariant: one case per action.
LEMMA NextInv == SafeInv /\ [Next]_vars => SafeInv'
<1> SUFFICES ASSUME SafeInv, [Next]_vars PROVE SafeInv' OBVIOUS
<1>1. ASSUME NEW p \in Proc, Begin(p) PROVE SafeInv'
  BY <1>1, StartBeginStep, InspectBeginStep, EnvBeginStep DEF Begin, StatusBegin, StopBegin
<1>2. ASSUME NEW p \in Proc, StartStep(p) PROVE SafeInv'
  BY <1>2, StartCheckStep, StartListStep, StartVerifyStep, StartOrphanStep,
     StartRemoveOrphanStep, StartPortsStep, StartRegistryStep, StartCreateStep,
     StartConnectStep, StartMarkStep, StartAccessStep, StartWriteStep, CleanupNodeStep,
     CleanupRegistryStep
  DEF StartStep
<1>3. ASSUME NEW p \in Proc, StopStep(p) PROVE SafeInv'
  BY <1>3, StopCheckStep, StopLookStep, StopMarkerStep, StopDeleteNodeStep, StopOwnerStep,
     StopRemoveRegistryStep, StopRemoveStateStep
  DEF StopStep
<1>4. ASSUME NEW p \in Proc, EnvStep(p) PROVE SafeInv'
  BY <1>4, EnvCheckStep, EnvVerifyStep, LeaseCloseStep, SetEnvironmentStateStep DEF EnvStep
<1>5. ASSUME NEW p \in Proc, InspectCheck(p) \/ InspectVerify(p) \/ StopLock(p) \/ Confirm(p)
      PROVE  SafeInv'
  BY <1>5, InspectCheckStep, InspectVerifyStep, StopLockStep, ConfirmStep
<1>6. CASE UNCHANGED vars
  BY <1>6
  DEF vars, SafeInv, TypeOK, LockInv, CallInv, IdsInv, StateInv, ProcInv, ProcOf, CidOf,
      LateOf, StartOf, ValOf, RemoveOf, CleanOf, DebrisInv, Startable, RegistryOwned,
      MarkerMatches, MarkOf, WithNode, Building, HalfStarted
<1> QED
  BY <1>1, <1>2, <1>3, <1>4, <1>5, <1>6, CrashStep, LateEffectStep, PeopleStep DEF Next, Step

\* Every reachable state satisfies the inductive invariant.
THEOREM Safety == Spec => []SafeInv
<1>1. Init => SafeInv BY InitInv
<1>2. SafeInv /\ [Next]_vars => SafeInv' BY NextInv
<1> QED BY <1>1, <1>2, PTL DEF Spec

\* The variables keep their types.
THEOREM TypeCorrect == Spec => []TypeOK
<1>1. SafeInv => TypeOK BY DEF SafeInv
<1> QED BY <1>1, Safety, PTL

\* What verifyStateAndContainers accepts is a completely built cluster, for any
\* number of processes, faults, late commands and crashes.
THEOREM VerifiedComplete == Spec => []VerifiedIsComplete
<1>1. SafeInv => VerifiedIsComplete
  BY NoneAssumption
  DEF SafeInv, TypeOK, State, StateInv, VerifiedIsComplete, MarkerMatches, RegistryOwned
<1> QED BY <1>1, Safety, PTL

\* Only an interrupted or uncleaned Start, people and stray docker rm commands leave
\* containers that no command accepts.
THEOREM NoDebris == Spec => []OnlyStartLeavesDebris
<1>1. SafeInv => OnlyStartLeavesDebris
  BY NoneAssumption
  DEF SafeInv, LockInv, DebrisInv, OnlyStartLeavesDebris, HalfStarted, Critical, StartLabels
<1> QED BY <1>1, Safety, PTL

\* No operation changes or removes a container tripgoctl did not create, unless one
\* of ours vanished while an operation was running.
THEOREM ForeignSafe == Spec => ForeignIsNeverDeleted
<1> DEFINE Kept == pc' # pc =>
      /\ "node" \notin unclean /\ node # None /\ node.gen = None => node' = node
      /\ "registry" \notin unclean /\ registry # None /\ registry.label = None =>
           registry' = registry
<1>1. SafeInv /\ [Next]_vars => [Kept]_vars
  <2> SUFFICES ASSUME SafeInv, Next PROVE Kept OBVIOUS
  <2> USE NoneAssumption DEF world, locals
  <2>1. ASSUME NEW p \in Proc, Begin(p) \/ Confirm(p) \/ StopLock(p) PROVE Kept
    BY <2>1
    DEF Begin, StartBegin, StatusBegin, StopBegin, InspectBegin, EnvBegin, Confirm, StopLock
  <2>2. ASSUME NEW p \in Proc, StartStep(p) PROVE Kept
    <3>1. ProcOf(p) /\ used \subseteq Id BY DEF SafeInv, ProcInv, TypeOK
    <3>2. CASE \/ StartCheck(p) \/ StartList(p) \/ StartVerify(p) \/ StartOrphan(p)
               \/ StartPorts(p) \/ StartWrite(p)
      BY <3>2 DEF StartCheck, StartList, StartVerify, StartOrphan, StartPorts, StartWrite
    <3>3. CASE StartRemoveOrphan(p)
      BY <3>1, <3>3 DEF StartRemoveOrphan, ProcOf, RemoveOf
    <3>4. CASE StartRegistry(p) \/ StartCreate(p)
      BY <3>4 DEF StartRegistry, StartCreate
    <3>5. CASE StartConnect(p) \/ CleanupRegistry(p)
      BY <3>1, <3>5
      DEF StartConnect, CleanupRegistry, ProcOf, CidOf, StartOf, Building, HalfStarted,
          RegistryOwned
    <3>6. CASE StartMark(p) \/ StartAccess(p) \/ CleanupNode(p)
      BY <3>1, <3>6
      DEF StartMark, StartAccess, CleanupNode, ProcOf, CidOf, StartOf, Building, HalfStarted,
          MarkOf, WithNode
    <3> QED BY <2>2, <3>2, <3>3, <3>4, <3>5, <3>6 DEF StartStep
  <2>3. ASSUME NEW p \in Proc, StopStep(p) \/ InspectCheck(p) \/ InspectVerify(p) PROVE Kept
    <3>1. ProcOf(p) BY DEF SafeInv, ProcInv
    <3>2. CASE StopDeleteNode(p) \/ StopRemoveRegistry(p)
      BY <3>1, <3>2 DEF StopDeleteNode, StopRemoveRegistry, ProcOf, RemoveOf
    <3> QED
      BY <2>3, <3>2
      DEF StopStep, StopCheck, StopLook, StopMarker, StopOwner, StopRemoveState, InspectCheck,
          InspectVerify
  <2>4. ASSUME NEW p \in Proc, EnvStep(p) \/ Crash(p) PROVE Kept
    BY <2>4 DEF EnvStep, EnvCheck, EnvVerify, LeaseClose, SetEnvironmentState, Crash
  <2>5. ASSUME NEW c \in late, LateEffect(c) PROVE Kept BY <2>5 DEF LateEffect
  <2>6. CASE ForeignCreate \/ ManualDelete BY <2>6 DEF ForeignCreate, ManualDelete
  <2> QED BY <2>1, <2>2, <2>3, <2>4, <2>5, <2>6 DEF Next, Step
<1> QED BY <1>1, Safety, PTL DEF Spec, ForeignIsNeverDeleted

\* Stop deletes the cluster with exactly the environments that Inspect read.
THEOREM ShownIsDeleted == Spec => StopDeletesWhatWasShown
<1> DEFINE Shown == \A p \in Proc :
      pc[p] = "t_delnode" /\ node # None /\ node' = None =>
        stateFile # None /\ stateFile.namespaces = plan[p].expected
<1>1. SafeInv => Shown BY DEF SafeInv, ProcInv, ProcOf, ValOf
<1>2. SafeInv /\ [Next]_vars => [Shown]_vars BY <1>1
<1> QED BY <1>2, Safety, PTL DEF Spec, StopDeletesWhatWasShown

\* Only these steps report success.
LEMMA SuccessSteps ==
  ASSUME NEW p \in Proc, SafeInv, Next, res[p] # "ok", res'[p] = "ok",
         call[p].cmd \in {"start", "status"}
  PROVE  StartVerify(p) \/ StartWrite(p) \/ InspectVerify(p)
<1> USE DEF SafeInv, TypeOK, Return, Goto, AcquireLock, LockBusy, world, locals
<1>1. ASSUME NEW q \in Proc, Begin(q) \/ Confirm(q) \/ StopLock(q) PROVE FALSE
  BY <1>1
  DEF Begin, StartBegin, StatusBegin, StopBegin, InspectBegin, EnvBegin, Confirm, StopLock
<1>2. ASSUME NEW q \in Proc, StartStep(q), ~StartVerify(q), ~StartWrite(q) PROVE FALSE
  BY <1>2
  DEF StartStep, StartCheck, StartList, StartOrphan, StartRemoveOrphan, StartPorts,
      StartRegistry, StartCreate, StartConnect, StartMark, StartAccess, CleanupNode,
      CleanupRegistry
<1>3. ASSUME NEW q \in Proc, StopStep(q) PROVE FALSE
  BY <1>3
  DEF StopStep, StopCheck, StopLook, StopMarker, StopOwner, StopDeleteNode, StopRemoveRegistry,
      StopRemoveState, CallInv, StopLabels
<1>4. ASSUME NEW q \in Proc, EnvStep(q) \/ InspectCheck(q) \/ Crash(q) PROVE FALSE
  BY <1>4
  DEF EnvStep, EnvCheck, EnvVerify, LeaseClose, SetEnvironmentState, InspectCheck,
      InspectPrerequisite, Crash, CallInv, EnvLabels
<1>5. ASSUME (\E c \in late : LateEffect(c)) \/ ForeignCreate \/ ManualDelete PROVE FALSE
  BY <1>5 DEF LateEffect, ForeignCreate, ManualDelete
<1>6. ASSUME NEW q \in Proc, StartVerify(q) \/ StartWrite(q) \/ InspectVerify(q) PROVE q = p
  BY <1>6 DEF StartVerify, StartWrite, InspectVerify
<1> QED BY <1>1, <1>2, <1>3, <1>4, <1>5, <1>6 DEF Next, Step

\* A start or status that reports success left or found a complete cluster.
THEOREM SuccessComplete == Spec => SuccessIsComplete
<1> DEFINE Complete == \A p \in Proc :
      Steady(unclean) /\ call[p].cmd \in {"start", "status"}
         /\ res[p] # "ok" /\ res'[p] = "ok" =>
        /\ stateFile' # None /\ node' # None /\ registry' # None
        /\ {node'.marker, node'.api, node'.gen, registry'.label} = {stateFile'.id}
        /\ registry'.net /\ node'.rel = call[p].rel
<1>1. SafeInv /\ [Next]_vars => [Complete]_vars
  <2> SUFFICES ASSUME SafeInv, Next, NEW p \in Proc, call[p].cmd \in {"start", "status"},
                      Steady(unclean), res[p] # "ok", res'[p] = "ok"
               PROVE  /\ stateFile' # None /\ node' # None /\ registry' # None
                      /\ {node'.marker, node'.api, node'.gen, registry'.label} = {stateFile'.id}
                      /\ registry'.net /\ node'.rel = call[p].rel
    OBVIOUS
  <2> USE NoneAssumption DEF SafeInv, TypeOK, world, locals, Return, Goto
  <2>1. ProcOf(p) BY DEF ProcInv
  <2>2. StateInv /\ "node" \notin unclean /\ "registry" \notin unclean
    BY DEF Steady, Vanished
  <2>3. CASE StartVerify(p)
    <3>1. stateFile # None /\ Verified(stateFile, call[p].rel) BY <2>3 DEF StartVerify
    <3> QED BY <2>2, <2>3, <3>1
      DEF StartVerify, Verified, MarkerMatches, RegistryOwned, StateInv, State
  <2>4. CASE InspectVerify(p)
    <3>1. val[p] = stateFile /\ stateFile # None
      BY <2>1, <2>4 DEF InspectVerify, ProcOf, ValOf
    <3>2. Verified(stateFile, call[p].rel) BY <2>4, <3>1 DEF InspectVerify
    <3> QED BY <2>2, <2>4, <3>1, <3>2
      DEF InspectVerify, Verified, MarkerMatches, RegistryOwned, StateInv, State
  <2>5. CASE StartWrite(p)
    <3>1. /\ cid[p] \in Id /\ call[p].rel \in Release
          /\ registry # None /\ registry.label = cid[p] /\ registry.net
          /\ node # None /\ node.gen = cid[p] /\ node.marker = cid[p] /\ node.api = cid[p]
          /\ node.rel = call[p].rel
      BY <2>1, <2>2, <2>5
      DEF StartWrite, ProcOf, CidOf, StartOf, Building, HalfStarted, CallInv, WithNode,
          RegistryOwned, MarkerMatches
    <3>2. stateFile' = [id |-> cid[p], rel |-> call[p].rel, namespaces |-> {}, running |-> {}]
      BY <2>5 DEF StartWrite
    <3>3. stateFile' \in State BY <3>1, <3>2 DEF State
    <3>4. stateFile'.id = cid[p] /\ stateFile' # None BY <3>2, <3>3
    <3>5. node' = node /\ registry' = registry BY <2>5 DEF StartWrite
    <3>6. {node.marker, node.api, node.gen, registry.label} = {cid[p]} BY <3>1
    <3> HIDE DEF SafeInv, TypeOK
    <3> QED BY <3>1, <3>4, <3>5, <3>6
  <2> QED BY <2>3, <2>4, <2>5, SuccessSteps
<1> QED BY <1>1, Safety, PTL DEF Spec, SuccessIsComplete

-----------------------------------------------------------------------------
(* ClusterLifecycle implements ManagedCluster.                             *)


\* The labels the mapping tells apart from the others.
LeaseLabels == {"e_lease", "e_close"}
Mapped == LeaseLabels \cup Building

\* What a step looks like through the mapping.
Sim == [Managed!Next]_(Managed!mcVars)

\* Nothing but process p moved.
Frame(p) == \A q \in Proc \ {p} : pc'[q] = pc[q] /\ cid'[q] = cid[q]

\* The labels at which Start and Stop have seen, or made, the cluster incomplete.
GoneLabels == {"s_orphan", "s_rmorphan", "s_ports", "t_owner", "t_rmreg", "t_rmstate"}

-----------------------------------------------------------------------------
(* The lease and the construction through the mapping.                     *)

\* The process inside an operation decides what the mapping shows.
LEMMA ViewNow ==
  ASSUME NEW p \in Proc, SafeInv, pc[p] \in Critical
  PROVE  /\ LeaseHolder = IF pc[p] \in LeaseLabels THEN p ELSE None
         /\ UnderConstruction = IF pc[p] \in Building THEN cid[p] ELSE None
BY NoneAssumption DEF SafeInv, LockInv, LeaseHolder, UnderConstruction, LeaseLabels

\* The same after the step.
LEMMA ViewNext ==
  ASSUME NEW p \in Proc, SafeInv', pc'[p] \in Critical
  PROVE  /\ LeaseHolder' = IF pc'[p] \in LeaseLabels THEN p ELSE None
         /\ UnderConstruction' = IF pc'[p] \in Building THEN cid'[p] ELSE None
BY NoneAssumption DEF SafeInv, LockInv, LeaseHolder, UnderConstruction, LeaseLabels

\* The mapped labels lie inside operations.
LEMMA MappedCritical == Mapped \subseteq Critical
BY DEF Mapped, LeaseLabels, Building, HalfStarted, Critical, StartLabels, EnvLabels

\* A process that neither leaves nor enters a mapped label changes neither view.
LEMMA Outside ==
  ASSUME NEW p \in Proc, SafeInv, SafeInv', Frame(p), pc[p] \notin Mapped, pc'[p] \notin Mapped
  PROVE  LeaseHolder' = LeaseHolder /\ UnderConstruction' = UnderConstruction
<1>1. CASE \E q \in Proc \ {p} : pc[q] \in Mapped
  <2>1. PICK q \in Proc \ {p} : pc[q] \in Mapped BY <1>1
  <2>2. pc'[q] = pc[q] /\ cid'[q] = cid[q] /\ pc[q] \in Critical
    BY <2>1, MappedCritical DEF Frame
  <2> QED BY <2>1, <2>2, ViewNow, ViewNext
<1>2. CASE \A q \in Proc : pc[q] \notin Mapped
  <2>1. \A q \in Proc : pc'[q] \notin Mapped BY <1>2 DEF Frame
  <2>2. lock \in Proc \cup {None} /\ lock' \in Proc \cup {None} BY DEF SafeInv, TypeOK
  <2> QED BY <1>2, <2>1, <2>2 DEF LeaseHolder, UnderConstruction, Mapped, LeaseLabels
<1> QED BY <1>1, <1>2

\* A process that ends its operation leaves both views empty.
LEMMA Leave ==
  ASSUME NEW p \in Proc, SafeInv, SafeInv', Frame(p), pc[p] \in Critical, pc'[p] \notin Mapped
  PROVE  LeaseHolder' = None /\ UnderConstruction' = None
<1>1. \A q \in Proc : pc'[q] \notin Mapped BY Alone, MappedCritical DEF Frame
<1>2. lock' \in Proc \cup {None} BY DEF SafeInv, TypeOK
<1> QED BY <1>1, <1>2 DEF LeaseHolder, UnderConstruction, Mapped, LeaseLabels

\* Ending a command moves only that process, to a label that is not mapped.
LEMMA ReturnFrame ==
  ASSUME NEW p \in Proc, NEW r, TypeOK, Return(p, r)
  PROVE  Frame(p) /\ pc'[p] = "idle" /\ pc'[p] \notin Mapped
BY DEF TypeOK, Return, Frame, Mapped, LeaseLabels, Building, HalfStarted

-----------------------------------------------------------------------------
(* Steps the abstract cluster does not see, or sees as a loss.             *)

\* Without a change of lease, construction or record, a step is a loss or nothing.
LEMMA Quiet ==
  ASSUME LeaseHolder' = LeaseHolder, UnderConstruction' = UnderConstruction,
         UNCHANGED <<stateFile, used>>, Intact' => Intact
  PROVE  Sim
<1>1. OnRecord' = OnRecord BY DEF OnRecord
<1>2. CASE Intact /\ ~Intact'
  <2>1. Managed!Lose BY <1>1, <1>2 DEF Managed!Lose
  <2> QED BY <2>1 DEF Sim, Managed!Next
<1>3. CASE Intact' <=> Intact
  BY <1>1, <1>3 DEF Sim, Managed!mcVars
<1> QED BY <1>2, <1>3

\* Steps that read, or take or return the lock, are not seen.
LEMMA ReadSim ==
  ASSUME NEW p \in Proc, SafeInv, SafeInv', Frame(p), pc[p] \notin Mapped, pc'[p] \notin Mapped,
         UNCHANGED <<stateFile, node, registry, used>>
  PROVE  Sim
<1>1. Intact' <=> Intact BY DEF Intact, MarkerMatches, RegistryOwned
<1> QED BY <1>1, Outside, Quiet

\* Giving up a construction.
LEMMA AbandonSim ==
  ASSUME NEW p \in Proc, SafeInv, SafeInv', Frame(p), pc[p] \in Building, pc'[p] \notin Mapped,
         UNCHANGED <<stateFile, used>>, Intact' <=> Intact
  PROVE  Sim
<1>1. pc[p] \in Critical /\ pc[p] \notin LeaseLabels
  BY DEF Building, HalfStarted, Critical, StartLabels, LeaseLabels
<1>2. LeaseHolder = None /\ UnderConstruction = cid[p] BY <1>1, ViewNow
<1>3. cid[p] # None
  BY NoneAssumption DEF SafeInv, ProcInv, ProcOf, CidOf, TypeOK
<1>4. LeaseHolder' = None /\ UnderConstruction' = None BY <1>1, Leave
<1>5. OnRecord' = OnRecord BY DEF OnRecord
<1>6. Managed!Abandon BY <1>2, <1>3, <1>4, <1>5 DEF Managed!Abandon
<1> QED BY <1>6 DEF Sim, Managed!Next

\* Giving up a lease.
LEMMA CloseSim ==
  ASSUME NEW p \in Proc, SafeInv, SafeInv', Frame(p), pc[p] \in LeaseLabels, pc'[p] \notin Mapped,
         UNCHANGED <<stateFile, node, registry, used>>
  PROVE  Sim
<1>1. pc[p] \in Critical /\ pc[p] \notin Building
  BY DEF Building, HalfStarted, Critical, EnvLabels, LeaseLabels
<1>2. LeaseHolder = p /\ UnderConstruction = None BY <1>1, ViewNow
<1>3. LeaseHolder' = None /\ UnderConstruction' = None BY <1>1, Leave
<1>4. OnRecord' = OnRecord BY DEF OnRecord
<1>5. Intact' <=> Intact BY DEF Intact, MarkerMatches, RegistryOwned
<1>6. Managed!Close(p) BY <1>2, <1>3, <1>4, <1>5 DEF Managed!Close
<1> QED BY <1>6 DEF Sim, Managed!Next

\* From the moment Start or Stop saw the cluster on record without its node, and
\* while Start builds another one, the cluster on record is not intact.
LEMMA Gone ==
  ASSUME NEW p \in Proc, SafeInv, pc[p] \in GoneLabels \cup Building
  PROVE  ~Intact
BY NoneAssumption
DEF SafeInv, TypeOK, State, ProcInv, ProcOf, CidOf, MarkOf, Building, HalfStarted, GoneLabels,
    Intact, MarkerMatches

\* The same after the step.
LEMMA GoneNext ==
  ASSUME NEW p \in Proc, SafeInv', pc'[p] \in GoneLabels \cup Building
  PROVE  ~Intact'
BY NoneAssumption
DEF SafeInv, TypeOK, State, ProcInv, ProcOf, CidOf, MarkOf, Building, HalfStarted, GoneLabels,
    Intact, MarkerMatches

\* A step inside the construction is not seen.
LEMMA BuildSim ==
  ASSUME NEW p \in Proc, SafeInv, SafeInv', pc[p] \in Building, pc'[p] \in HalfStarted,
         cid'[p] = cid[p], UNCHANGED <<stateFile, used>>
  PROVE  Sim
<1>1. /\ pc[p] \in Critical /\ pc'[p] \in Critical /\ pc'[p] \in Building
      /\ pc[p] \notin LeaseLabels /\ pc'[p] \notin LeaseLabels
  BY DEF Building, HalfStarted, Critical, StartLabels, LeaseLabels
<1>2. LeaseHolder' = LeaseHolder /\ UnderConstruction' = UnderConstruction
  BY <1>1, ViewNow, ViewNext
<1> QED BY <1>1, <1>2, GoneNext, Quiet

-----------------------------------------------------------------------------
(* One lemma per group of actions.                                         *)

\* Beginning an operation, or finding the lock taken, is not seen.
LEMMA BeginSim ==
  ASSUME NEW p \in Proc, SafeInv, SafeInv', Begin(p) \/ StopLock(p) \/ Confirm(p)
  PROVE  Sim
<1> USE DEF SafeInv
<1>1. pc[p] \notin Mapped
  BY DEF Begin, StartBegin, StatusBegin, StopBegin, InspectBegin, EnvBegin, StopLock, Confirm,
      Mapped, LeaseLabels, Building, HalfStarted
<1>2. Frame(p) /\ pc'[p] \notin Mapped
  BY DEF TypeOK, Begin, StartBegin, StatusBegin, StopBegin, InspectBegin, EnvBegin, StopLock,
      Confirm, AcquireLock, LockBusy, Return, Goto, locals, Frame, Mapped, LeaseLabels,
      Building, HalfStarted
<1>3. UNCHANGED <<stateFile, node, registry, used>>
  BY DEF Begin, StartBegin, StatusBegin, StopBegin, InspectBegin, EnvBegin, StopLock, Confirm,
      world
<1> QED BY <1>1, <1>2, <1>3, ReadSim

\* The checks of Start, Inspect, Stop and the environments are not seen.
LEMMA CheckSim ==
  ASSUME NEW p \in Proc, SafeInv, SafeInv',
         \/ StartCheck(p) \/ StartList(p) \/ StartVerify(p) \/ StartOrphan(p)
         \/ InspectCheck(p) \/ InspectVerify(p) \/ EnvCheck(p)
         \/ StopCheck(p) \/ StopLook(p) \/ StopMarker(p) \/ StopOwner(p)
  PROVE  Sim
<1> USE DEF SafeInv
<1>1. pc[p] \notin Mapped
  BY DEF StartCheck, StartList, StartVerify, StartOrphan, InspectCheck, InspectVerify,
      EnvCheck, StopCheck, StopLook, StopMarker, StopOwner, Mapped, LeaseLabels, Building,
      HalfStarted
<1>2. Frame(p) /\ pc'[p] \notin Mapped
  <2> USE DEF TypeOK, Return, Goto, locals, Frame, Mapped, LeaseLabels, Building, HalfStarted
  <2>1. CASE StartCheck(p) \/ StartList(p) \/ StartVerify(p) \/ StartOrphan(p)
    BY <2>1 DEF StartCheck, StartList, StartVerify, StartOrphan
  <2>2. CASE InspectCheck(p) \/ InspectVerify(p) \/ EnvCheck(p)
    BY <2>2 DEF InspectCheck, InspectVerify, InspectPrerequisite, EnvCheck
  <2>3. CASE StopCheck(p) \/ StopLook(p) \/ StopMarker(p) \/ StopOwner(p)
    BY <2>3 DEF StopCheck, StopLook, StopMarker, StopOwner
  <2> QED BY <2>1, <2>2, <2>3
<1>3. UNCHANGED <<stateFile, node, registry, used>>
  BY DEF StartCheck, StartList, StartVerify, StartOrphan, InspectCheck, InspectVerify,
      EnvCheck, StopCheck, StopLook, StopMarker, StopOwner, world
<1> QED BY <1>1, <1>2, <1>3, ReadSim

\* Removing an orphaned registry is not seen: the cluster was lost already.
LEMMA StartRemoveOrphanSim ==
  ASSUME NEW p \in Proc, SafeInv, SafeInv', StartRemoveOrphan(p)
  PROVE  Sim
<1> USE DEF SafeInv, StartRemoveOrphan
<1>1. pc[p] \notin Mapped BY DEF Mapped, LeaseLabels, Building, HalfStarted
<1>2. Frame(p) /\ pc'[p] \notin Mapped
  BY DEF TypeOK, Return, Goto, locals, Frame, Mapped, LeaseLabels, Building, HalfStarted
<1>3. ~Intact BY Gone DEF GoneLabels
<1>4. ~Intact' BY <1>3 DEF Intact, MarkerMatches, RegistryOwned
<1> QED BY <1>1, <1>2, <1>3, <1>4, Outside, Quiet

\* newClusterID begins a construction, once the cluster on record is lost.
LEMMA StartPortsSim ==
  ASSUME NEW p \in Proc, SafeInv, SafeInv', StartPorts(p)
  PROVE  Sim
<1> USE DEF SafeInv
<1>0. pc[p] \in Critical /\ pc[p] \notin Mapped
  BY DEF StartPorts, Mapped, LeaseLabels, Building, HalfStarted, Critical, StartLabels
<1>1. UNCHANGED <<stateFile, node, registry>> BY DEF StartPorts, world
<1>2. ASSUME NEW id \in NewClusterID, cid' = [cid EXCEPT ![p] = id], used' = used \cup {id},
             Goto(p, "s_run")
      PROVE  Sim
  <2>1. pc'[p] = "s_run" /\ cid'[p] = id BY <1>2 DEF Goto, TypeOK
  <2>2. "s_run" \in Building /\ "s_run" \in Critical /\ "s_run" \notin LeaseLabels
    BY DEF Building, Critical, StartLabels, LeaseLabels
  <2>3. LeaseHolder = None /\ UnderConstruction = None BY <1>0, ViewNow DEF Mapped
  <2>4. LeaseHolder' = None /\ UnderConstruction' = id BY <2>1, <2>2, ViewNext
  <2>5. ~Intact /\ ~Intact' BY <2>1, <2>2, Gone, GoneNext DEF StartPorts, GoneLabels
  <2>6. Intact' <=> Intact BY <2>5
  <2>7. OnRecord' = OnRecord BY <1>1 DEF OnRecord
  <2>8. id \in Id /\ id \notin used BY DEF NewClusterID
  <2>9. Managed!Draw(id) BY <1>2, <2>3, <2>4, <2>5, <2>6, <2>7, <2>8 DEF Managed!Draw
  <2> QED BY <2>8, <2>9 DEF Sim, Managed!Next
<1>3. CASE Return(p, "conflict") /\ UNCHANGED used
  <2>1. Frame(p) /\ pc'[p] \notin Mapped BY <1>3, ReturnFrame
  <2> QED BY <1>0, <1>1, <1>3, <2>1, ReadSim
<1> QED BY <1>2, <1>3 DEF StartPorts

\* Building the cluster is not seen until it is put on record.
LEMMA BuildStepSim ==
  ASSUME NEW p \in Proc, SafeInv, SafeInv',
         \/ StartRegistry(p) \/ StartCreate(p) \/ StartConnect(p) \/ StartMark(p)
         \/ StartAccess(p) \/ CleanupNode(p)
  PROVE  Sim
<1> USE DEF SafeInv
<1>0. pc[p] \in Building
  BY DEF StartRegistry, StartCreate, StartConnect, StartMark, StartAccess, CleanupNode,
      Building, HalfStarted
<1>1. UNCHANGED <<stateFile, used>>
  BY DEF StartRegistry, StartCreate, StartConnect, StartMark, StartAccess, CleanupNode
<1>2. CASE StartRegistry(p) /\ Return(p, "prereq")
  <2>1. Frame(p) /\ pc'[p] \notin Mapped BY <1>2, ReturnFrame
  <2>2. UNCHANGED <<node, registry>>
    BY <1>2 DEF StartRegistry, Return, Goto, TypeOK
  <2>3. Intact' <=> Intact BY <1>1, <2>2 DEF Intact, MarkerMatches, RegistryOwned
  <2> QED BY <1>0, <1>1, <2>1, <2>3, AbandonSim
<1>3. CASE ~Return(p, "prereq")
  <2>1. pc'[p] \in HalfStarted /\ cid'[p] = cid[p]
    BY <1>3
    DEF StartRegistry, StartCreate, StartConnect, StartMark, StartAccess, CleanupNode, Goto,
        TypeOK, locals, HalfStarted
  <2> QED BY <1>0, <1>1, <2>1, BuildSim
<1>4. CASE ~StartRegistry(p)
  <2>1. pc'[p] \in HalfStarted /\ cid'[p] = cid[p]
    BY <1>4
    DEF StartCreate, StartConnect, StartMark, StartAccess, CleanupNode, Goto, TypeOK, locals,
        HalfStarted
  <2> QED BY <1>0, <1>1, <2>1, BuildSim
<1> QED BY <1>2, <1>3, <1>4

\* The end of a failed start gives the construction up.
LEMMA CleanupRegistrySim ==
  ASSUME NEW p \in Proc, SafeInv, SafeInv', CleanupRegistry(p)
  PROVE  Sim
<1> USE DEF SafeInv, CleanupRegistry
<1>1. pc[p] \in Building /\ pc[p] \in HalfStarted BY DEF Building, HalfStarted
<1>2. Frame(p) /\ pc'[p] \notin Mapped BY ReturnFrame
<1>3. ~Intact BY <1>1, Gone
<1>4. ~Intact' BY <1>3 DEF Intact, MarkerMatches, RegistryOwned
<1> QED BY <1>1, <1>2, <1>3, <1>4, AbandonSim

\* writeState puts the cluster on record, without environments.
LEMMA StartWriteSim ==
  ASSUME NEW p \in Proc, SafeInv, SafeInv', StartWrite(p)
  PROVE  Sim
<1> USE NoneAssumption DEF SafeInv
<1>0. /\ pc[p] \in Building /\ pc[p] \in HalfStarted /\ pc[p] \in Critical
      /\ pc[p] \notin LeaseLabels /\ pc[p] = "s_write"
  BY DEF StartWrite, Building, HalfStarted, Critical, StartLabels, LeaseLabels
<1>1. CASE Return(p, "ok") /\ stateFile' = [id |-> cid[p], rel |-> call[p].rel,
                                            namespaces |-> {}, running |-> {}]
  <2>1. LeaseHolder = None /\ UnderConstruction = cid[p] BY <1>0, ViewNow
  <2>2. Frame(p) /\ pc'[p] \notin Mapped BY <1>1, ReturnFrame
  <2>3. LeaseHolder' = None /\ UnderConstruction' = None BY <1>0, <2>2, Leave
  <2>4. ~Intact BY <1>0, Gone
  <2>5. cid[p] \in Id /\ call[p].rel \in Release
    BY <1>0 DEF TypeOK, CallInv, ProcInv, ProcOf, CidOf
  <2>6. stateFile' # None /\ stateFile'.id = cid[p]
    <3>1. stateFile' \in State BY <1>1, <2>5 DEF State
    <3> QED BY <1>1, <3>1
  <2>7. UNCHANGED <<node, registry, used>> BY DEF StartWrite, world
  <2>9. Intact' \in BOOLEAN
    BY <2>6 DEF Intact, MarkerMatches, RegistryOwned
  <2>10. OnRecord' = [id |-> cid[p], namespaces |-> {}, running |-> {}]
    BY <1>1, <2>6 DEF OnRecord
  <2>11. Managed!Create
    BY <2>1, <2>3, <2>4, <2>5, <2>7, <2>9, <2>10 DEF Managed!Create
  <2> QED BY <2>11 DEF Sim, Managed!Next
<1>2. CASE Goto(p, "c_node") /\ UNCHANGED <<stateFile, locals>>
  <2>1. pc'[p] \in HalfStarted /\ cid'[p] = cid[p]
    BY <1>2 DEF Goto, TypeOK, HalfStarted, locals
  <2>2. UNCHANGED used BY DEF StartWrite
  <2> QED BY <1>0, <1>2, <2>1, <2>2, BuildSim
<1> QED BY <1>1, <1>2 DEF StartWrite, locals

\* A lease opens only on an intact cluster.
LEMMA EnvVerifySim ==
  ASSUME NEW p \in Proc, SafeInv, SafeInv', EnvVerify(p)
  PROVE  Sim
<1> USE NoneAssumption DEF SafeInv
<1>0. pc[p] = "e_verify" /\ pc[p] \in Critical /\ pc[p] \notin Mapped
  BY DEF EnvVerify, Mapped, LeaseLabels, Building, HalfStarted, Critical, EnvLabels
<1>1. UNCHANGED <<stateFile, node, registry, used>> BY DEF EnvVerify, world
<1>2. CASE Verified(val[p], call[p].rel) /\ node.api = val[p].id /\ Goto(p, "e_lease")
  <2>1. LeaseHolder = None /\ UnderConstruction = None BY <1>0, ViewNow DEF Mapped
  <2>2. /\ pc'[p] = "e_lease" /\ "e_lease" \in LeaseLabels /\ "e_lease" \notin Building
        /\ "e_lease" \in Critical
    BY <1>2 DEF Goto, TypeOK, LeaseLabels, Building, HalfStarted, Critical, EnvLabels
  <2>3. LeaseHolder' = p /\ UnderConstruction' = None BY <2>2, ViewNext
  <2>4. val[p] = stateFile /\ stateFile # None BY <1>0 DEF ProcInv, ProcOf, ValOf
  <2>5. Intact
    BY <1>2, <2>4
    DEF Verified, Intact, MarkerMatches, RegistryOwned, StateInv, TypeOK
  <2>6. Intact' <=> Intact BY <1>1 DEF Intact, MarkerMatches, RegistryOwned
  <2>7. OnRecord' = OnRecord BY <1>1 DEF OnRecord
  <2>8. Managed!Open(p) BY <1>1, <2>1, <2>3, <2>5, <2>6, <2>7 DEF Managed!Open
  <2> QED BY <2>8 DEF Sim, Managed!Next
<1>3. CASE \E r \in {"conflict", "prereq", "error"} : Return(p, r)
  <2>1. Frame(p) /\ pc'[p] \notin Mapped BY <1>3, ReturnFrame
  <2> QED BY <1>0, <1>1, <2>1, ReadSim
<1> QED BY <1>2, <1>3 DEF EnvVerify

\* The lease records one environment, or is given up.
LEMMA LeaseSim ==
  ASSUME NEW p \in Proc, SafeInv, SafeInv', NEW n \in Env, NEW known \in BOOLEAN,
         NEW running \in BOOLEAN, SetEnvironmentState(p, n, known, running)
  PROVE  Sim
<1> USE NoneAssumption DEF SafeInv
<1>0. pc[p] \in LeaseLabels /\ pc[p] \in Critical /\ pc[p] \notin Building
  BY DEF SetEnvironmentState, LeaseLabels, Building, HalfStarted, Critical, EnvLabels
<1>1. UNCHANGED <<node, registry, used>> BY DEF SetEnvironmentState, world
<1>2. CASE UNCHANGED stateFile /\ \E r \in Result : Return(p, r)
  <2>1. Frame(p) /\ pc'[p] \notin Mapped BY <1>2, ReturnFrame
  <2> QED BY <1>0, <1>1, <1>2, <2>1, CloseSim
<1>3. ASSUME stateFile # None, Goto(p, "e_close"),
             stateFile' = [stateFile EXCEPT
                !.namespaces = SetMembership(@, n, known),
                !.running = SetMembership(@, n, known /\ running)]
      PROVE  Sim
  <2>1. LeaseHolder = p /\ UnderConstruction = None BY <1>0, ViewNow
  <2>2. /\ pc'[p] = "e_close" /\ "e_close" \in LeaseLabels /\ "e_close" \notin Building
        /\ "e_close" \in Critical
    BY <1>3 DEF Goto, TypeOK, LeaseLabels, Building, HalfStarted, Critical, EnvLabels
  <2>3. LeaseHolder' = p /\ UnderConstruction' = None BY <2>2, ViewNext
  <2>4. /\ stateFile \in State /\ stateFile' \in State
        /\ stateFile'.id = stateFile.id
        /\ stateFile'.namespaces = SetMembership(stateFile.namespaces, n, known)
        /\ stateFile'.running = SetMembership(stateFile.running, n, known /\ running)
    BY <1>3 DEF TypeOK, State, SetMembership
  <2>5. stateFile' # None BY <2>4
  <2>6. Intact' <=> Intact
    BY <1>1, <1>3, <2>4, <2>5 DEF Intact, MarkerMatches, RegistryOwned
  <2>7. OnRecord = [id |-> stateFile.id, namespaces |-> stateFile.namespaces,
                    running |-> stateFile.running]
    BY <1>3 DEF OnRecord
  <2>8. OnRecord' = [id |-> OnRecord.id,
          namespaces |-> IF known THEN OnRecord.namespaces \cup {n}
                                  ELSE OnRecord.namespaces \ {n},
          running |-> IF known /\ running THEN OnRecord.running \cup {n}
                                          ELSE OnRecord.running \ {n}]
    BY <2>4, <2>5, <2>7 DEF OnRecord, SetMembership
  <2>9. Managed!SetState(p, n, known, running)
    BY <1>1, <2>1, <2>3, <2>6, <2>8 DEF Managed!SetState
  <2> QED BY <2>9 DEF Sim, Managed!Next
<1> QED BY <1>2, <1>3 DEF SetEnvironmentState, Result

\* Stop destroys the cluster before it takes it off the record.
LEMMA StopDestroySim ==
  ASSUME NEW p \in Proc, SafeInv, SafeInv', StopDeleteNode(p) \/ StopRemoveRegistry(p)
  PROVE  Sim
<1> USE DEF SafeInv, StopDeleteNode, StopRemoveRegistry
<1>1. pc[p] \notin Mapped BY DEF Mapped, LeaseLabels, Building, HalfStarted
<1>2. Frame(p) /\ pc'[p] \notin Mapped
  BY DEF TypeOK, Return, Goto, locals, Frame, Mapped, LeaseLabels, Building, HalfStarted
<1>3. UNCHANGED <<stateFile, used>> OBVIOUS
<1>4. Intact' => Intact BY DEF Intact, MarkerMatches, RegistryOwned
<1> HIDE DEF StopDeleteNode, StopRemoveRegistry
<1> QED BY <1>1, <1>2, <1>3, <1>4, Outside, Quiet

\* Stop takes the cluster off the record when it is lost.
LEMMA StopRemoveStateSim ==
  ASSUME NEW p \in Proc, SafeInv, SafeInv', StopRemoveState(p)
  PROVE  Sim
<1> USE DEF SafeInv
<1>1. pc[p] \notin Mapped /\ pc[p] \in Critical /\ pc[p] \in GoneLabels
  BY DEF StopRemoveState, Mapped, LeaseLabels, Building, HalfStarted, Critical, StopLabels,
      GoneLabels
<1>2. Frame(p) /\ pc'[p] \notin Mapped BY ReturnFrame DEF StopRemoveState
<1>3. UNCHANGED <<node, registry, used>> BY DEF StopRemoveState, world
<1>4. CASE UNCHANGED stateFile BY <1>1, <1>2, <1>3, <1>4, ReadSim
<1>5. CASE stateFile # None /\ stateFile' = None
  <2>1. LeaseHolder = None /\ UnderConstruction = None BY <1>1, ViewNow DEF Mapped
  <2>2. LeaseHolder' = None /\ UnderConstruction' = None BY <1>1, <1>2, Leave
  <2>3. ~Intact BY <1>1, Gone
  <2>4. ~Intact' BY <1>5 DEF Intact
  <2>5. Intact' <=> Intact BY <2>3, <2>4
  <2>6. OnRecord # None /\ OnRecord' = None
    BY <1>5, RecordAssumption DEF OnRecord, TypeOK, State
  <2>7. Managed!Forget
    BY <1>3, <2>1, <2>2, <2>3, <2>5, <2>6 DEF Managed!Forget
  <2> QED BY <2>7 DEF Sim, Managed!Next
<1> QED BY <1>4, <1>5 DEF StopRemoveState

\* A process that dies gives up its lease or its construction.
LEMMA CrashSim ==
  ASSUME NEW p \in Proc, SafeInv, SafeInv', Crash(p)
  PROVE  Sim
<1> USE DEF SafeInv
<1>1. UNCHANGED <<stateFile, node, registry, used>> BY DEF Crash
<1>2. Frame(p) /\ pc'[p] \notin Mapped BY ReturnFrame DEF Crash
<1>3. Intact' <=> Intact BY <1>1 DEF Intact, MarkerMatches, RegistryOwned
<1>4. CASE pc[p] \in Building BY <1>1, <1>2, <1>3, <1>4, AbandonSim
<1>5. CASE pc[p] \in LeaseLabels BY <1>1, <1>2, <1>5, CloseSim
<1>6. CASE pc[p] \notin Mapped BY <1>1, <1>2, <1>6, ReadSim
<1> QED BY <1>4, <1>5, <1>6 DEF Mapped

\* No late command and nobody's container makes a lost cluster whole again.
LEMMA WorldLost ==
  ASSUME SafeInv, (\E c \in late : LateEffect(c)) \/ ForeignCreate \/ ManualDelete, Intact'
  PROVE  Intact
<1> USE NoneAssumption DEF SafeInv
<1>1. CASE \E c \in late : LateEffect(c)
  <2>1. PICK c \in late : LateEffect(c) BY <1>1
  <2>2. stateFile' = stateFile /\ stateFile # None /\ stateFile.id \in Id
    BY <2>1 DEF LateEffect, Intact, TypeOK, State
  <2>3. c.cmd = "dockerRun" => c.id # stateFile.id BY <2>2 DEF StateInv
  <2> QED BY <2>1, <2>2, <2>3 DEF LateEffect, Intact, MarkerMatches, RegistryOwned
<1>2. CASE ForeignCreate \/ ManualDelete
  <2>1. stateFile' = stateFile /\ stateFile # None /\ stateFile.id \in Id
    BY <1>2 DEF ForeignCreate, ManualDelete, Intact, TypeOK, State
  <2> QED BY <1>2, <2>1
    DEF ForeignCreate, ManualDelete, Intact, MarkerMatches, RegistryOwned
<1> QED BY <1>1, <1>2

\* What happens outside tripgoctl is at most a loss.
LEMMA WorldSim ==
  ASSUME SafeInv, (\E c \in late : LateEffect(c)) \/ ForeignCreate \/ ManualDelete
  PROVE  Sim
<1>1. UNCHANGED <<lock, pc, cid, stateFile, used>>
  BY DEF LateEffect, ForeignCreate, ManualDelete, locals
<1>2. LeaseHolder' = LeaseHolder /\ UnderConstruction' = UnderConstruction
  BY <1>1 DEF LeaseHolder, UnderConstruction
<1> QED BY <1>1, <1>2, WorldLost, Quiet

-----------------------------------------------------------------------------
(* The refinement.                                                         *)

\* Every step of the cluster package is a step of the abstract cluster or nothing.
LEMMA NextSim == SafeInv /\ SafeInv' /\ [Next]_vars => Sim
<1> SUFFICES ASSUME SafeInv, SafeInv', [Next]_vars PROVE Sim OBVIOUS
<1>1. ASSUME NEW p \in Proc, Begin(p) \/ Confirm(p) \/ StopLock(p) \/ Crash(p) PROVE Sim
  BY <1>1, BeginSim, CrashSim
<1>2. ASSUME NEW p \in Proc, StartStep(p) PROVE Sim
  BY <1>2, CheckSim, StartRemoveOrphanSim, StartPortsSim, BuildStepSim, StartWriteSim,
     CleanupRegistrySim
  DEF StartStep
<1>3. ASSUME NEW p \in Proc, InspectCheck(p) \/ InspectVerify(p) PROVE Sim BY <1>3, CheckSim
<1>4. ASSUME NEW p \in Proc, StopStep(p) PROVE Sim
  BY <1>4, CheckSim, StopDestroySim, StopRemoveStateSim DEF StopStep
<1>5. ASSUME NEW p \in Proc, EnvStep(p) PROVE Sim
  <2>1. CASE EnvCheck(p) BY <2>1, CheckSim
  <2>2. CASE EnvVerify(p) BY <2>2, EnvVerifySim
  <2>3. ASSUME NEW n \in Env, NEW known \in BOOLEAN, NEW running \in BOOLEAN,
               SetEnvironmentState(p, n, known, running)
        PROVE  Sim
    BY <2>3, LeaseSim
  <2>4. CASE LeaseClose(p)
    <3>1. pc[p] \in LeaseLabels BY <2>4 DEF LeaseClose, LeaseLabels
    <3>2. UNCHANGED <<stateFile, node, registry, used>> BY <2>4 DEF LeaseClose, world
    <3>3. Frame(p) /\ pc'[p] \notin Mapped
      BY <2>4, ReturnFrame DEF LeaseClose, SafeInv
    <3> QED BY <3>1, <3>2, <3>3, CloseSim
  <2> QED BY <1>5, <2>1, <2>2, <2>3, <2>4 DEF EnvStep
<1>6. CASE (\E c \in late : LateEffect(c)) \/ ForeignCreate \/ ManualDelete BY <1>6, WorldSim
<1>7. CASE UNCHANGED vars
  <2>1. Intact' <=> Intact BY <1>7 DEF vars, Intact, MarkerMatches, RegistryOwned
  <2>2. LeaseHolder' = LeaseHolder /\ UnderConstruction' = UnderConstruction
    BY <1>7 DEF vars, LeaseHolder, UnderConstruction
  <2> QED BY <1>7, <2>1, <2>2, Quiet DEF vars
<1> QED BY <1>1, <1>2, <1>3, <1>4, <1>5, <1>6, <1>7 DEF Next, Step

\* The cluster package implements ManagedCluster: exclusive leases on complete
\* clusters, losses that are never undone, identities that never come back, for
\* any number of processes, releases, faults and late commands.
THEOREM Refinement == Spec => ImplementsManagedCluster
<1>1. Init => Managed!Init
  BY NoneAssumption
  DEF Init, Managed!Init, LeaseHolder, OnRecord, Intact, UnderConstruction
<1>2. SafeInv /\ SafeInv' /\ [Next]_vars => [Managed!Next]_(Managed!mcVars)
  BY NextSim DEF Sim
<1> QED BY <1>1, <1>2, Safety, PTL DEF Spec, ImplementsManagedCluster, Managed!Spec

=============================================================================
